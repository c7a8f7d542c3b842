------------------------------ MODULE Sessions ------------------------------
(***************************************************************************)
(* The login sessions of one user: the refresh_tokens rows in Postgres,    *)
(* their copies in Redis and the handlers that create, rotate and end      *)
(* them, one action per awaited statement.  A token is the number of its   *)
(* row in the order of creation.  Rows and copies of different users do    *)
(* not interact.  Credentials, counters and access tokens are left out.    *)
(***************************************************************************)
EXTENDS Naturals, Sequences, FiniteSets

CONSTANTS
  Handlers,     \* requests that can be in flight together
  MaxDevices,   \* MAX_DEVICES_PER_USER
  MaxTokens,    \* tokens created in a behaviour (bound)
  MaxLocks,     \* how often an administrator locks the user (bound)
  MaxFaults     \* failing statements in a behaviour (bound)

ASSUME ConstantsAssumption ==
  /\ MaxDevices \in Nat \ {0}
  /\ MaxTokens \in Nat
  /\ MaxLocks \in Nat
  /\ MaxFaults \in Nat

VARIABLES
  row,      \* row[t]: "valid" or "revoked" (is_revoked)
  expired,  \* tokens past expires_at, in Postgres, in Redis and in the JWT
  cache,    \* tokens with a copy in Redis
  status,   \* users.status
  pc,       \* pc[h]: the statement the handler awaits
  tok,      \* tok[h]: the token it was given, later the one it made
  oldest,   \* oldest[h]: what deleteOldest has found
  keys,     \* keys[h]: what the SCAN of a logout has found
  issued,   \* tokens that have reached the client
  rotated,  \* tokens a refresh has exchanged
  over,     \* tokens no request was using when a finished logout began
  ending,   \* ending[h]: those of a logout that has not finished
  locks, faults

session == <<row, expired, cache>>
local == <<oldest, keys>>
history == <<issued, rotated, over, ending>>
vars == <<session, status, pc, tok, local, history, locks, faults>>

NoToken == 0
Tokens == DOMAIN row
Valid == {t \in Tokens : row[t] = "valid"}
Usable == (cache \cup Valid) \ expired

Init ==
  /\ row = << >> /\ expired = {} /\ cache = {}
  /\ status = "ACTIVE"
  /\ pc = [h \in Handlers |-> "idle"]
  /\ tok = [h \in Handlers |-> NoToken]
  /\ oldest = [h \in Handlers |-> NoToken]
  /\ keys = [h \in Handlers |-> {}]
  /\ issued = {} /\ rotated = {} /\ over = {}
  /\ ending = [h \in Handlers |-> {}]
  /\ locks = 0 /\ faults = 0

Fault == faults < MaxFaults /\ faults' = faults + 1
Goto(h, from, to) == pc[h] = from /\ pc' = [pc EXCEPT ![h] = to] /\ UNCHANGED tok
Leave(h, from) ==
  pc[h] = from /\ pc' = [pc EXCEPT ![h] = "idle"] /\ tok' = [tok EXCEPT ![h] = NoToken]

Busy == {h \in Handlers : pc[h] # "idle"}
RoomForOne == Len(row) + Cardinality(Busy) < MaxTokens

----------------------------------------------------------------------------
\* Right credentials of an ACTIVE user.
Login(h) ==
  /\ status = "ACTIVE"
  /\ RoomForOne
  /\ Goto(h, "idle", "count")
  /\ UNCHANGED <<session, status, local, history, locks, faults>>

\* A refresh verifies the JWT and asks Redis; an error there is a miss.
Refresh(h, t) ==
  /\ t \in issued \ expired
  /\ RoomForOne
  /\ pc[h] = "idle"
  /\ tok' = [tok EXCEPT ![h] = t]
  /\ \/ /\ pc' = [pc EXCEPT ![h] = IF t \in cache THEN "user" ELSE "lookup"]
        /\ UNCHANGED faults
     \/ /\ t \in cache /\ Fault
        /\ pc' = [pc EXCEPT ![h] = "lookup"]
  /\ UNCHANGED <<session, status, local, history, locks>>

\* findValidByTokenHash, and the 401 when it finds nothing.
Lookup_AnyRow(h) ==   \* mutant: isRevoked is not asked for
  /\ \/ tok[h] \notin expired /\ Goto(h, "lookup", "rebuild")
     \/ tok[h] \in expired /\ Leave(h, "lookup")
  /\ UNCHANGED <<session, status, local, history, locks, faults>>

Lookup(h) ==
  /\ \/ tok[h] \in Valid \ expired /\ Goto(h, "lookup", "rebuild")
     \/ tok[h] \notin Valid \ expired /\ Leave(h, "lookup")
  /\ UNCHANGED <<session, status, local, history, locks, faults>>

\* The copy is put back, for what is left of the token's time.
Rebuild(h) ==
  /\ Goto(h, "rebuild", "user")
  /\ \/ cache' = cache \cup ({tok[h]} \ expired) /\ UNCHANGED faults
     \/ Fault /\ UNCHANGED cache
  /\ UNCHANGED <<row, expired, status, local, history, locks>>

\* Only LOCKED is refused here.
CheckUser(h) ==
  /\ \/ status = "LOCKED" /\ Leave(h, "user")
     \/ status # "LOCKED" /\ Goto(h, "user", "revoke")
  /\ UNCHANGED <<session, status, local, history, locks, faults>>

Revoke_Nothing(h) ==   \* mutant
  /\ Goto(h, "revoke", "uncache")
  /\ UNCHANGED <<session, status, local, history, locks, faults>>

Revoke(h) ==
  /\ Goto(h, "revoke", "uncache")
  /\ row' = [row EXCEPT ![tok[h]] = "revoked"]
  /\ UNCHANGED <<expired, cache, status, local, history, locks, faults>>

Uncache_Nothing(h) ==   \* mutant: the copy is forgotten
  /\ Goto(h, "uncache", "count")
  /\ rotated' = rotated \cup {tok[h]}
  /\ UNCHANGED <<session, status, local, issued, over, ending, locks, faults>>

Uncache(h) ==
  /\ Goto(h, "uncache", "count")
  /\ \/ cache' = cache \ {tok[h]} /\ UNCHANGED faults
     \/ Fault /\ UNCHANGED cache
  /\ rotated' = rotated \cup {tok[h]}
  /\ UNCHANGED <<row, expired, status, local, issued, over, ending, locks>>

----------------------------------------------------------------------------
\* countActiveByUser: rows that are not revoked, expired or not.
Count_OffByOne(h) ==   \* mutant: > for >=
  /\ Goto(h, "count", IF Cardinality(Valid) > MaxDevices THEN "find" ELSE "create")
  /\ UNCHANGED <<session, status, local, history, locks, faults>>

Count(h) ==
  /\ Goto(h, "count", IF Cardinality(Valid) >= MaxDevices THEN "find" ELSE "create")
  /\ UNCHANGED <<session, status, local, history, locks, faults>>

\* deleteOldest, first half: findOne by creation time.
FindOldest(h) ==
  /\ Goto(h, "find", IF Valid = {} THEN "create" ELSE "evict")
  /\ IF Valid = {}
     THEN UNCHANGED oldest
     ELSE oldest' = [oldest EXCEPT ![h] = CHOOSE t \in Valid : \A u \in Valid : t <= u]
  /\ UNCHANGED <<session, status, keys, history, locks, faults>>

\* Second half: the row only; the copy in Redis stays.
Evict(h) ==
  /\ Goto(h, "evict", "create")
  /\ row' = [row EXCEPT ![oldest[h]] = "revoked"]
  /\ oldest' = [oldest EXCEPT ![h] = NoToken]
  /\ UNCHANGED <<expired, cache, status, keys, history, locks, faults>>

Create(h) ==
  /\ pc[h] = "create"
  /\ pc' = [pc EXCEPT ![h] = "store"]
  /\ row' = Append(row, "valid")
  /\ tok' = [tok EXCEPT ![h] = Len(row) + 1]
  /\ UNCHANGED <<expired, cache, status, local, history, locks, faults>>

\* setRefreshTokenCache, whose failure is logged, and the answer.
Store(h) ==
  /\ Leave(h, "store")
  /\ \/ cache' = cache \cup ({tok[h]} \ expired) /\ UNCHANGED faults
     \/ Fault /\ UNCHANGED cache
  /\ issued' = issued \cup {tok[h]}
  /\ UNCHANGED <<row, expired, status, local, rotated, over, ending, locks>>

----------------------------------------------------------------------------
\* Logout, change-password and forgot-password: revokeAll ...
RevokeAll(h) ==
  /\ Goto(h, "idle", "scan")
  /\ Len(row) > 0
  /\ row' = [t \in Tokens |-> "revoked"]
  /\ ending' = [ending EXCEPT ![h] = Tokens \ {tok[g] : g \in Busy}]
  /\ UNCHANGED <<expired, cache, status, local, issued, rotated, over, locks, faults>>

\* ... then deleteAllRefreshTokenCacheByUserId: a scan ...
Scan_Valid(h) ==   \* mutant: only copies of rows that are not revoked
  /\ Goto(h, "scan", "delete")
  /\ keys' = [keys EXCEPT ![h] = cache \cap Valid]
  /\ UNCHANGED <<session, status, oldest, history, locks, faults>>

Scan(h) ==
  /\ Goto(h, "scan", "delete")
  /\ \/ keys' = [keys EXCEPT ![h] = cache] /\ UNCHANGED faults
     \/ Fault /\ keys' = [keys EXCEPT ![h] = {}]
  /\ UNCHANGED <<session, status, oldest, history, locks>>

\* ... and one DEL of the keys found; neither failure reaches the caller.
DeleteKeys(h) ==
  /\ Leave(h, "delete")
  /\ \/ cache' = cache \ keys[h] /\ UNCHANGED faults
     \/ keys[h] # {} /\ Fault /\ UNCHANGED cache
  /\ over' = over \cup ending[h]
  /\ ending' = [ending EXCEPT ![h] = {}]
  /\ keys' = [keys EXCEPT ![h] = {}]
  /\ UNCHANGED <<row, expired, status, oldest, issued, rotated, locks>>

----------------------------------------------------------------------------
\* A statement of Postgres fails, or the process dies.
Throw(h) ==
  /\ pc[h] # "idle"
  /\ Fault
  /\ Leave(h, pc[h])
  /\ ending' = [ending EXCEPT ![h] = {}]
  /\ keys' = [keys EXCEPT ![h] = {}]
  /\ oldest' = [oldest EXCEPT ![h] = NoToken]
  /\ UNCHANGED <<session, status, issued, rotated, over, locks>>

\* PATCH of a user's status by an administrator; no session is touched.
UpdateStatus ==
  /\ \/ status = "ACTIVE" /\ locks < MaxLocks /\ status' = "LOCKED" /\ locks' = locks + 1
     \/ status = "LOCKED" /\ status' = "ACTIVE" /\ UNCHANGED locks
  /\ UNCHANGED <<session, pc, tok, local, history, faults>>

\* Tokens live 7 or 30 days, so they do not expire in the order of creation.
\* No request lasts that long.
Expire(t) ==
  /\ t \in issued \ expired
  /\ \A h \in Busy : tok[h] # t
  /\ expired' = expired \cup {t}
  /\ cache' = cache \ {t}
  /\ UNCHANGED <<row, status, pc, tok, local, history, locks, faults>>

\* Redis loses a key (a restart, an eviction).
LoseKey(t) ==
  /\ t \in cache
  /\ cache' = cache \ {t}
  /\ UNCHANGED <<row, expired, status, pc, tok, local, history, locks, faults>>

----------------------------------------------------------------------------
Next ==
  \/ \E h \in Handlers :
       \/ Login(h) \/ Lookup(h) \/ Rebuild(h) \/ CheckUser(h) \/ Revoke(h)
       \/ Uncache(h) \/ Count(h) \/ FindOldest(h) \/ Evict(h) \/ Create(h)
       \/ Store(h) \/ RevokeAll(h) \/ Scan(h) \/ DeleteKeys(h) \/ Throw(h)
       \/ \E t \in Tokens : Refresh(h, t)
  \/ \E t \in Tokens : Expire(t) \/ LoseKey(t)
  \/ UpdateStatus

Spec == Init /\ [][Next]_vars

----------------------------------------------------------------------------
(* Properties *)

TypeOK ==
  /\ row \in Seq({"valid", "revoked"}) /\ Len(row) <= MaxTokens
  /\ expired \subseteq Tokens /\ cache \subseteq Tokens \ expired
  /\ status \in {"ACTIVE", "LOCKED"}
  /\ pc \in [Handlers -> {"idle", "lookup", "rebuild", "user", "revoke", "uncache",
                          "count", "find", "evict", "create", "store", "scan", "delete"}]
  /\ tok \in [Handlers -> Tokens \cup {NoToken}]
  /\ oldest \in [Handlers -> Tokens \cup {NoToken}]
  /\ keys \in [Handlers -> SUBSET Tokens] /\ ending \in [Handlers -> SUBSET Tokens]
  /\ issued \subseteq Tokens /\ rotated \subseteq issued /\ over \subseteq Tokens
  /\ locks \in 0..MaxLocks /\ faults \in 0..MaxFaults

\* The handlers that use token t as the one they were given.
Exchanging(t) ==
  {h \in Handlers :
     tok[h] = t /\ pc[h] \in {"lookup", "rebuild", "user", "revoke", "uncache"}}

\* Rotation: once a refresh has exchanged a token and nobody is still busy
\* with it, neither Postgres nor Redis accepts it again, however many
\* refreshes of it ran side by side.  A statement that failed, or a lock
\* that stopped one of them after it had put the copy back, is excepted.
RotatedTokenDies ==
  faults = 0 /\ locks = 0 =>
    \A t \in rotated : Exchanging(t) = {} => t \notin Usable

\* A logout or a change of password ends every session that no request was
\* using when it began, whatever arrives while it runs and afterwards.
LogoutEndsIdleSessions ==
  faults = 0 => \A t \in over : t \notin Usable

\* MAX_DEVICES_PER_USER: a user never has more sessions than that.  Two
\* overlapping logins break it, both counting before either inserts; see
\* MCAuth for what holds in sequence.
DeviceLimit == Cardinality(Valid) <= MaxDevices

\* What a refresh goes on with is a token whose row is not revoked.
RefreshedTokenIsValid ==
  \A h \in Handlers : pc[h] = "user" => tok[h] \in Valid
=============================================================================
