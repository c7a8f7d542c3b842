---------------------------- MODULE PasswordReset ----------------------------
(***************************************************************************)
(* The password of one user and what it opens.  A code for FORGOT_PASSWORD *)
(* is exchanged for a key, kept as a row of password_reset_tokens and,     *)
(* where the request names the user's role, in Redis; the key is exchanged *)
(* for a new password.  Who is sessions in changes it by giving the old one. *)
(* Either ends the sessions, while logins and refreshes open new ones.     *)
(* One action per awaited statement.  The code and what limits the guesses *)
(* are Registration and Attempts; the tokens of single sessions and how    *)
(* many there may be are Sessions: here a session is the password it goes  *)
(* back to, a password its number, and sessions that are alike count as    *)
(* one.                                                                    *)
(***************************************************************************)
EXTENDS Naturals, FiniteSets

CONSTANTS
  Handlers,      \* requests that can be in flight together
  Keys,          \* sign keys ever drawn (bound)
  NoKey,
  MaxPasswords,  \* passwords in a behaviour (bound)
  MaxFaults      \* statements that fail in a behaviour (bound)

VARIABLES
  token,     \* token[k]: the row of a key, "none", "active" or "used"
  cached,    \* reset_token:<role>:<email> in Redis
  lapsed,    \* keys older than ten minutes
  password,  \* the number of changes of the user's password
  rows,      \* the sessions whose row in refresh_tokens is valid
  copies,    \* the sessions that have a copy in Redis, rt:cache
  req,       \* what each handler is doing
  issued,    \* keys the client has received
  good,      \* history: the keys that ought to work
  unnamed,   \* history: was a key ever drawn without a role?
  faults

store == <<token, cached, lapsed>>
sessions == <<rows, copies>>
history == <<issued, good, unnamed>>
vars == <<store, password, sessions, req, history, faults>>

\* A session goes back to a password.  "late" is history: was the request
\* that opened it, or the session it was refreshed from, under way while a
\* change of password ended the sessions?
Session == [with : 0..MaxPasswords, late : BOOLEAN]

\* A request: its step, the key it draws or uses, whether it names the role,
\* and the session it opens.
Doing(step, k, role, p, late) ==
  [at |-> step, key |-> k, role |-> role, with |-> p, late |-> late]
Idle == Doing("idle", NoKey, FALSE, 0, FALSE)

Init ==
  /\ token = [k \in Keys |-> "none"] /\ cached = NoKey /\ lapsed = {}
  /\ password = 0 /\ rows = {} /\ copies = {}
  /\ req = [h \in Handlers |-> Idle]
  /\ issued = {} /\ good = {} /\ unnamed = FALSE
  /\ faults = 0

At(h, step) == req[h].at = step
Ready(h) == req[h] = Idle
Go(h, step) == req' = [req EXCEPT ![h].at = step]
End(h) == req' = [req EXCEPT ![h] = Idle]
Fault == faults < MaxFaults /\ faults' = faults + 1
NoFault == UNCHANGED faults

\* findValidByEmailAndHash
Valid(k) == token[k] = "active" /\ k \notin lapsed
RetireAll == token' = [k \in Keys |-> IF token[k] = "active" THEN "used" ELSE token[k]]

----------------------------------------------------------------------------
(* verify-otp.usecase.ts, FORGOT_PASSWORD, once the code is accepted *)

\* A new key; create first marks those before it as used.
DrawKey_KeepOthers(h, k, role) ==   \* mutant: markActiveAsUsedByEmail is left out
  /\ Ready(h)
  /\ token[k] = "none" /\ \A g \in Handlers : req[g].key # k
  /\ req' = [req EXCEPT ![h] = Doing("insert", k, role, 0, FALSE)]
  /\ UNCHANGED <<store, password, sessions, history, faults>>

DrawKey(h, k, role) ==
  /\ Ready(h)
  /\ token[k] = "none" /\ \A g \in Handlers : req[g].key # k
  /\ RetireAll
  /\ req' = [req EXCEPT ![h] = Doing("insert", k, role, 0, FALSE)]
  /\ UNCHANGED <<cached, lapsed, password, sessions, history, faults>>

InsertToken(h) ==
  /\ At(h, "insert")
  /\ token' = [token EXCEPT ![req[h].key] = "active"]
  /\ Go(h, "cache")
  /\ UNCHANGED <<cached, lapsed, password, sessions, history, faults>>

\* setScopedSignKey, or setSignKey under a name nobody reads; then the answer.
CacheKey(h) ==
  /\ At(h, "cache")
  /\ \/ cached' = (IF req[h].role THEN req[h].key ELSE cached) /\ NoFault
     \/ Fault /\ UNCHANGED cached
  /\ issued' = issued \cup {req[h].key}
  /\ good' = {req[h].key}
  /\ unnamed' = (unnamed \/ ~req[h].role)
  /\ End(h)
  /\ UNCHANGED <<token, lapsed, password, sessions>>

----------------------------------------------------------------------------
(* forgot-password.usecase.ts *)

\* getScopedSignKey; an error is a miss.
Reset(h, k) ==
  /\ Ready(h)
  /\ k \in issued
  /\ password < MaxPasswords
  /\ \/ req' = [req EXCEPT ![h] = 
                  Doing(IF cached = k THEN "update" ELSE "find", k, FALSE, 0, FALSE)]
        /\ NoFault
     \/ req' = [req EXCEPT ![h] = Doing("find", k, FALSE, 0, FALSE)] /\ Fault
  /\ UNCHANGED <<store, password, sessions, history>>

FindToken(h) ==
  /\ At(h, "find")
  /\ IF Valid(req[h].key) THEN Go(h, "update") ELSE End(h)
  /\ UNCHANGED <<store, password, sessions, history, faults>>

\* updatePassword; a change by who is signed in has no key to clear.
UpdatePassword(h) ==
  /\ At(h, "update")
  /\ password < MaxPasswords
  /\ password' = password + 1
  /\ Go(h, IF req[h].key = NoKey THEN "revoke" ELSE "clear")
  /\ UNCHANGED <<store, sessions, history, faults>>

\* clearScopedSignKey, whichever key it holds; an error is logged.
ClearKey(h) ==
  /\ At(h, "clear")
  /\ \/ cached' = NoKey /\ NoFault
     \/ Fault /\ UNCHANGED cached
  /\ Go(h, "revoke")
  /\ UNCHANGED <<token, lapsed, password, sessions, history>>

\* revokeAll.  A login whose password is compared, or a refresh whose token is
\* found valid, opens its session all the same.
Opening == {"rebuild", "exchange", "uncache", "signIn", "store"}
RevokeAll(h) ==
  /\ At(h, "revoke")
  /\ rows' = {}
  /\ req' = [g \in Handlers |->
       IF g = h THEN [req[g] EXCEPT !.at = "drop"]
       ELSE IF req[g].at \in Opening THEN [req[g] EXCEPT !.late = TRUE] ELSE req[g]]
  /\ UNCHANGED <<store, password, copies, history, faults>>

\* deleteAllRefreshTokenCacheByUserId: SCAN and DEL as one step; an error is
\* logged.
DropCopies_None(h) ==   \* mutant: the copies are left to run out
  /\ At(h, "drop")
  /\ IF req[h].key = NoKey THEN End(h) ELSE Go(h, "use")
  /\ UNCHANGED <<store, password, sessions, history, faults>>

DropCopies(h) ==
  /\ At(h, "drop")
  /\ \/ copies' = {} /\ NoFault
     \/ Fault /\ UNCHANGED copies
  /\ IF req[h].key = NoKey THEN End(h) ELSE Go(h, "use")
  /\ UNCHANGED <<store, password, rows, history>>

\* markActiveAsUsedByEmail
UseTokens(h) ==
  /\ At(h, "use")
  /\ RetireAll
  /\ good' = {}
  /\ End(h)
  /\ UNCHANGED <<cached, lapsed, password, sessions, issued, unnamed, faults>>

----------------------------------------------------------------------------
(* change-password.usecase.ts: the present password is compared; the keys  *)
(* that reset it stay.                                                     *)

ChangePassword(h) ==
  /\ Ready(h)
  /\ password < MaxPasswords
  /\ req' = [req EXCEPT ![h] = Doing("update", NoKey, FALSE, 0, FALSE)]
  /\ UNCHANGED <<store, password, sessions, history, faults>>

----------------------------------------------------------------------------
(* login.usecase.ts: the password is compared, the session opened later *)

Compare(h) ==
  /\ Ready(h)
  /\ req' = [req EXCEPT ![h] = Doing("signIn", NoKey, FALSE, password, FALSE)]
  /\ UNCHANGED <<store, password, sessions, history, faults>>

Opened(h) == [with |-> req[h].with, late |-> req[h].late]

\* create
SignIn(h) ==
  /\ At(h, "signIn")
  /\ rows' = rows \cup {Opened(h)}
  /\ Go(h, "store")
  /\ UNCHANGED <<store, password, copies, history, faults>>

\* setRefreshTokenCache; an error is logged.
StoreCopy(h) ==
  /\ At(h, "store")
  /\ \/ copies' = copies \cup {Opened(h)} /\ NoFault
     \/ Fault /\ UNCHANGED copies
  /\ End(h)
  /\ UNCHANGED <<store, password, rows, history>>

----------------------------------------------------------------------------
(* refresh-token.usecase.ts: no password is looked at *)

\* getRefreshTokenCache.  A copy is trusted; one that is lost is a miss.
Refresh(h, s) ==
  /\ Ready(h)
  /\ \/ s \in copies
        /\ req' = [req EXCEPT ![h] = Doing("exchange", NoKey, FALSE, s.with,
                     s.late \/ \E g \in Handlers : At(g, "drop"))]
     \/ s \in rows
        /\ req' = [req EXCEPT ![h] = Doing("lookup", NoKey, FALSE, s.with, s.late)]
  /\ UNCHANGED <<store, password, sessions, history, faults>>

\* findValidByTokenHash
Lookup(h) ==
  /\ At(h, "lookup")
  /\ IF Opened(h) \in rows THEN Go(h, "rebuild") ELSE End(h)
  /\ UNCHANGED <<store, password, sessions, history, faults>>

\* The copy is put back; an error is logged.
Rebuild(h) ==
  /\ At(h, "rebuild")
  /\ \/ copies' = copies \cup {Opened(h)} /\ NoFault
     \/ Fault /\ UNCHANGED copies
  /\ Go(h, "exchange")
  /\ UNCHANGED <<store, password, rows, history>>

\* One session less, unless it is already gone or there is another like it.
OneLess(h, some) == {some} \cup {some \ {s} : s \in {t \in some : t.with = req[h].with}}

\* revoke, unless the user is locked.
Exchange(h) ==
  /\ At(h, "exchange")
  /\ \/ rows' \in OneLess(h, rows) /\ Go(h, "uncache")
     \/ End(h) /\ UNCHANGED rows
  /\ UNCHANGED <<store, password, copies, history, faults>>

\* deleteRefreshTokenCache, whose error is logged; then the new session is
\* opened as a login opens one.
Uncache(h) ==
  /\ At(h, "uncache")
  /\ copies' \in OneLess(h, copies)
  /\ Go(h, "signIn")
  /\ UNCHANGED <<store, password, rows, history, faults>>

----------------------------------------------------------------------------
(* What else happens *)

\* A statement of Postgres fails, or the process dies.
Throw(h) ==
  /\ ~Ready(h)
  /\ Fault
  /\ End(h)
  /\ UNCHANGED <<store, password, sessions, history>>

\* expires_at and the time of the copy in Redis, which are ten minutes both.
Lapse(k) ==
  /\ k \in issued \ lapsed
  /\ lapsed' = lapsed \cup {k}
  /\ cached' = IF cached = k THEN NoKey ELSE cached
  /\ UNCHANGED <<token, password, sessions, req, history, faults>>

\* Redis loses a key.
LoseKey ==
  /\ cached # NoKey
  /\ cached' = NoKey
  /\ UNCHANGED <<token, lapsed, password, sessions, req, history, faults>>

Begin(h) ==
  \/ \E k \in Keys : Reset(h, k) \/ \E role \in BOOLEAN : DrawKey(h, k, role)
  \/ ChangePassword(h) \/ Compare(h)
  \/ \E s \in rows \cup copies : Refresh(h, s)

Continue(h) ==
  \/ InsertToken(h) \/ CacheKey(h) \/ FindToken(h) \/ UpdatePassword(h)
  \/ ClearKey(h) \/ RevokeAll(h) \/ DropCopies(h) \/ UseTokens(h)
  \/ SignIn(h) \/ StoreCopy(h) \/ Lookup(h) \/ Rebuild(h) \/ Exchange(h)
  \/ Uncache(h) \/ Throw(h)

Lose == LoseKey \/ \E k \in Keys : Lapse(k)

Next == Lose \/ \E h \in Handlers : Begin(h) \/ Continue(h)

Spec == Init /\ [][Next]_vars

----------------------------------------------------------------------------
(* Properties *)

TypeOK ==
  /\ token \in [Keys -> {"none", "active", "used"}]
  /\ cached \in Keys \cup {NoKey} /\ lapsed \subseteq issued
  /\ password \in 0..MaxPasswords
  /\ rows \subseteq Session /\ copies \subseteq Session
  /\ req \in [Handlers ->
       [at : {"idle", "insert", "cache", "find", "update", "clear", "revoke", "drop", "use",
              "lookup", "rebuild", "exchange", "uncache", "signIn", "store"},
        key : Keys \cup {NoKey}, role : BOOLEAN, with : 0..password, late : BOOLEAN]]
  /\ issued \subseteq {k \in Keys : token[k] # "none"} /\ good \subseteq issued
  /\ unnamed \in BOOLEAN
  /\ faults \in 0..MaxFaults

Quiet == \A h \in Handlers : Ready(h)
Works(k) == k \in issued /\ (cached = k \/ Valid(k))

\* A new password ends the sessions of all before it.  Whatever requests ran
\* side by side, once no change is on its way and no statement has failed, a
\* session that is valid in Postgres or in Redis goes back to the present
\* password, or to a login or a refresh that a change overtook: one that had
\* compared the old password or found the old token valid before the sessions
\* and their copies were ended, and opened its session all the same.
OldPasswordIsOut ==
  /\ faults = 0
  /\ \A h \in Handlers : req[h].at \notin {"clear", "revoke", "drop"}
  => \A s \in rows \cup copies : s.with = password \/ s.late

\* Keys that still change the password though a later key or a reset has
\* superseded them.  Where every request came after the one before it, named
\* its role and met no failure there is none: see MCAttempts.
SupersededKeys == {k \in Keys : Works(k)} \ good
=============================================================================
