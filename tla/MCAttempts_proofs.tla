-------------------------- MODULE MCAttempts_proofs --------------------------
(***************************************************************************)
(* What passwords and counters promise, for any number of requests, keys,  *)
(* addresses and changes.                                                  *)
(*                                                                         *)
(* Sessions: every row and every copy of a session goes back to the        *)
(* present password, to a request that a change overtook, or to a password *)
(* whose change has yet to end what it left behind; and that holds in      *)
(* advance of every login that has compared its password and of every      *)
(* refresh that has found its token valid.                                 *)
(*                                                                         *)
(* Keys: where requests come one at a time, what is active in Postgres or  *)
(* Redis is the key that ought to work or the one being stored.            *)
(*                                                                         *)
(* Counters: no time passes between the INCR that makes a key and its      *)
(* EXPIRE, so that the EXPIRE of any request sets what is the window of    *)
(* the first attempt in the counter, whoever made the key in between.      *)
(*                                                                         *)
(* Limits: what is let through is counted or about to be, a counter at its *)
(* limit is locked as long as it lasts or about to be, and each request    *)
(* that has yet to count or to lock lets one other in at most.             *)
(***************************************************************************)
EXTENDS MCAttempts, FiniteSetTheorems, TLAPS

\* The values the proof rests on.
Typed ==
  /\ resetReq \in [Handlers ->
       [at : {"idle", "insert", "cache", "find", "update", "clear", "revoke", "drop", "use",
              "lookup", "rebuild", "exchange", "uncache", "signIn", "store"},
        key : Keys \cup {NoKey}, role : BOOLEAN, with : Nat, late : BOOLEAN]]
  /\ rows \subseteq [with : Nat, late : BOOLEAN]
  /\ copies \subseteq [with : Nat, late : BOOLEAN]
  /\ password \in Nat /\ resetFaults \in Nat

\* A session, or the request that opens it, goes back to the present password
\* or was overtaken by a change.
Current(s) == s.with = password \/ s.late

\* The handlers whose change has yet to revoke the rows, or to drop the copies.
ToRevoke == {h \in Handlers : resetReq[h].at \in {"clear", "revoke"}}
ToDrop == {h \in Handlers : resetReq[h].at \in {"clear", "revoke", "drop"}}

\* What is left of an older password has a change on its way to end it.
OldIsAboutToEnd ==
  resetFaults = 0 =>
    /\ \A s \in rows : Current(s) \/ ToRevoke # {}
    /\ \A s \in copies : Current(s) \/ ToDrop # {}
    /\ \A h \in Handlers : resetReq[h].at \in R!Opening =>
         Current(resetReq[h]) \/ ToRevoke # {}

RInv == Typed /\ OldIsAboutToEnd

\* Every action of PasswordReset keeps it.
LEMMA ResetStep == RInv /\ R!Next => RInv'
<1> SUFFICES ASSUME RInv, R!Next PROVE RInv'
  OBVIOUS
<1> USE DEF RInv, Typed, OldIsAboutToEnd, Current, ToRevoke, ToDrop, R!Opening, R!At, R!Ready,
      R!Idle, R!Doing, R!store, R!history, R!sessions
<1>1. ASSUME NEW h \in Handlers, R!InsertToken(h) PROVE RInv'
  BY <1>1, SMTT(30) DEF R!InsertToken, R!Go
<1>2. ASSUME NEW h \in Handlers, R!CacheKey(h) PROVE RInv'
  BY <1>2, SMTT(30) DEF R!CacheKey, R!End, R!Fault, R!NoFault
<1>3. ASSUME NEW h \in Handlers, R!FindToken(h) PROVE RInv'
  <2>1. PICK step \in {"update", "idle"} :
          /\ resetReq' = [resetReq EXCEPT ![h] = IF step = "idle" THEN R!Idle
                                              ELSE [resetReq[h] EXCEPT !.at = step]]
          /\ R!At(h, "find") /\ UNCHANGED <<password, rows, copies, resetFaults>>
    BY <1>3 DEF R!FindToken, R!Go, R!End
  <2>2. CASE step = "idle"
    BY <2>1, <2>2, SMTT(30)
  <2>3. CASE step = "update"
    BY <2>1, <2>3, SMTT(30)
  <2> QED
    BY <2>2, <2>3
<1>4. ASSUME NEW h \in Handlers, R!UpdatePassword(h) PROVE RInv'
  BY <1>4, SMTT(30) DEF R!UpdatePassword, R!Go
<1>5. ASSUME NEW h \in Handlers, R!ClearKey(h) PROVE RInv'
  BY <1>5, SMTT(30) DEF R!ClearKey, R!Go, R!Fault, R!NoFault
<1>6. ASSUME NEW h \in Handlers, R!RevokeAll(h) PROVE RInv'
  <2>1. /\ R!At(h, "revoke") /\ rows' = {} /\ UNCHANGED <<password, copies, resetFaults>>
        /\ resetReq' = [g \in Handlers |->
             IF g = h THEN [resetReq[g] EXCEPT !.at = "drop"]
             ELSE IF resetReq[g].at \in R!Opening THEN [resetReq[g] EXCEPT !.late = TRUE]
             ELSE resetReq[g]]
    BY <1>6 DEF R!RevokeAll
  <2>2. Typed'
    <3> DEFINE S == [at : {"idle", "insert", "cache", "find", "update", "clear", "revoke", "drop",
                           "use", "lookup", "rebuild", "exchange", "uncache", "signIn", "store"},
                     key : Keys \cup {NoKey}, role : BOOLEAN, with : Nat, late : BOOLEAN]
    <3>1. ASSUME NEW r \in S PROVE [r EXCEPT !.at = "drop"] \in S /\ [r EXCEPT !.late = TRUE] \in S
      OBVIOUS
    <3>2. resetReq \in [Handlers -> S]
      OBVIOUS
    <3> HIDE DEF S
    <3>3. resetReq' \in [Handlers -> S]
      BY <2>1, <3>1, <3>2
    <3> QED
      BY <2>1, <3>3 DEF S
  <2>3. \A g \in Handlers : resetReq'[g].at \in R!Opening => resetReq'[g].late
    <3>1. SUFFICES ASSUME NEW g \in Handlers, resetReq'[g].at \in R!Opening
                   PROVE  resetReq'[g].late = TRUE
      OBVIOUS
    <3> QED
      BY <2>1, <3>1, SMTT(30)
  <2>4. resetReq'[h].at = "drop"
    BY <2>1
  <2> QED
    BY <2>1, <2>2, <2>3, <2>4
<1>7. ASSUME NEW h \in Handlers, R!DropCopies(h) PROVE RInv'
  <2>1. /\ R!At(h, "drop") /\ UNCHANGED <<password, rows>>
        /\ \/ copies' = {} /\ UNCHANGED resetFaults
           \/ UNCHANGED copies /\ resetFaults' = resetFaults + 1
    BY <1>7 DEF R!DropCopies, R!Fault, R!NoFault
  <2>2. CASE R!End(h)
    BY <2>1, <2>2, SMTT(30) DEF R!End
  <2>3. CASE R!Go(h, "use")
    BY <2>1, <2>3, SMTT(30) DEF R!Go
  <2> QED
    BY <1>7, <2>2, <2>3 DEF R!DropCopies
<1>8. ASSUME NEW h \in Handlers, R!UseTokens(h) PROVE RInv'
  BY <1>8, SMTT(30) DEF R!UseTokens, R!End, R!RetireAll
<1>9. ASSUME NEW h \in Handlers, R!ChangePassword(h) PROVE RInv'
  BY <1>9, SMTT(30) DEF R!ChangePassword
<1>10. ASSUME NEW h \in Handlers, R!Compare(h) PROVE RInv'
  BY <1>10, SMTT(30) DEF R!Compare
<1>11. ASSUME NEW h \in Handlers, R!SignIn(h) PROVE RInv'
  BY <1>11, SMTT(30) DEF R!SignIn, R!Go, R!Opened
<1>12. ASSUME NEW h \in Handlers, R!StoreCopy(h) PROVE RInv'
  BY <1>12, SMTT(30) DEF R!StoreCopy, R!End, R!Opened, R!Fault, R!NoFault
<1>13. ASSUME NEW h \in Handlers, R!Lookup(h) PROVE RInv'
  <2>1. R!At(h, "lookup") /\ UNCHANGED <<password, rows, copies, resetFaults>>
    BY <1>13 DEF R!Lookup
  <2>2. CASE R!End(h)
    BY <2>1, <2>2, SMTT(30) DEF R!End
  <2>3. CASE R!Opened(h) \in rows /\ R!Go(h, "rebuild")
    <3>1. resetFaults = 0 => Current(resetReq[h]) \/ ToRevoke # {}
      BY <2>3 DEF R!Opened
    <3>2. Typed'
      BY <2>1, <2>3, SMTT(30) DEF R!Go
    <3>3. \A g \in Handlers : g # h => resetReq'[g] = resetReq[g]
      BY <2>3 DEF R!Go
    <3>4. /\ resetReq'[h].at = "rebuild" /\ resetReq'[h].with = resetReq[h].with
          /\ resetReq'[h].late = resetReq[h].late
      BY <2>3 DEF R!Go
    <3>5. ToRevoke' = ToRevoke /\ ToDrop' = ToDrop
      BY <2>1, <3>3, <3>4
    <3> QED
      BY <2>1, <3>1, <3>2, <3>3, <3>4, <3>5
  <2> QED
    BY <1>13, <2>2, <2>3 DEF R!Lookup
<1>14. ASSUME NEW h \in Handlers, R!Rebuild(h) PROVE RInv'
  BY <1>14, SMTT(30) DEF R!Rebuild, R!Go, R!Opened, R!Fault, R!NoFault
<1>15. ASSUME NEW h \in Handlers, R!Exchange(h) PROVE RInv'
  <2>1. /\ R!At(h, "exchange") /\ rows' \subseteq rows
        /\ UNCHANGED <<password, copies, resetFaults>>
    BY <1>15 DEF R!Exchange, R!OneLess
  <2>2. CASE R!End(h)
    BY <2>1, <2>2, SMTT(30) DEF R!End
  <2>3. CASE R!Go(h, "uncache")
    BY <2>1, <2>3, SMTT(30) DEF R!Go
  <2> QED
    BY <1>15, <2>2, <2>3 DEF R!Exchange
<1>16. ASSUME NEW h \in Handlers, R!Uncache(h) PROVE RInv'
  BY <1>16, SMTT(30) DEF R!Uncache, R!Go, R!OneLess
<1>17. ASSUME NEW h \in Handlers, R!Throw(h) PROVE RInv'
  BY <1>17, SMTT(30) DEF R!Throw, R!End, R!Fault, R!NoFault
<1>18. ASSUME NEW h \in Handlers, NEW k \in Keys, R!Reset(h, k) PROVE RInv'
  <2>1. /\ R!Ready(h)
        /\ UNCHANGED <<password, rows, copies>>
        /\ resetFaults' \in Nat /\ (resetFaults' = 0 => resetFaults = 0)
    BY <1>18 DEF R!Reset, R!Fault, R!NoFault
  <2>2. PICK step \in {"update", "find"} :
          resetReq' = [resetReq EXCEPT ![h] = R!Doing(step, k, FALSE, 0, FALSE)]
    BY <1>18 DEF R!Reset
  <2>3. QED
    BY <2>1, <2>2, SMTT(30)
<1>19. ASSUME NEW h \in Handlers, NEW k \in Keys, NEW role \in BOOLEAN,
            R!DrawKey(h, k, role) PROVE RInv'
  BY <1>19, SMTT(30) DEF R!DrawKey, R!RetireAll
<1>20. ASSUME NEW h \in Handlers, NEW s \in rows \cup copies, R!Refresh(h, s) PROVE RInv'
  <2>1. R!Ready(h) /\ UNCHANGED <<password, rows, copies, resetFaults>>
    BY <1>20 DEF R!Refresh
  <2>2. CASE s \in copies /\ resetReq' = [resetReq EXCEPT ![h] =
          R!Doing("exchange", NoKey, FALSE, s.with, s.late \/ \E g \in Handlers : R!At(g, "drop"))]
    <3>1. resetFaults = 0 => Current(resetReq'[h]) \/ ToRevoke # {}
      BY <2>1, <2>2
    <3>2. Typed'
      BY <2>1, <2>2, SMTT(30)
    <3>3. \A g \in Handlers : g # h => resetReq'[g] = resetReq[g]
      BY <2>2
    <3>4. ToRevoke' = ToRevoke /\ ToDrop' = ToDrop
      BY <2>1, <2>2, <3>3
    <3> QED
      BY <2>1, <3>1, <3>2, <3>3, <3>4
  <2>3. CASE s \in rows /\ resetReq' = [resetReq EXCEPT ![h] =
          R!Doing("lookup", NoKey, FALSE, s.with, s.late)]
    BY <2>1, <2>3, SMTT(30)
  <2> QED
    BY <1>20, <2>2, <2>3 DEF R!Refresh
<1>21. ASSUME NEW k \in Keys, R!Lapse(k) PROVE RInv'
  BY <1>21 DEF R!Lapse
<1>22. CASE R!LoseKey
  BY <1>22 DEF R!LoseKey
<1> QED
  BY <1>1, <1>2, <1>3, <1>4, <1>5, <1>6, <1>7, <1>8, <1>9, <1>10, <1>11, <1>12, <1>13, <1>14,
    <1>15, <1>16, <1>17, <1>18, <1>19, <1>20, <1>21, <1>22
    DEF R!Next, R!Begin, R!Continue, R!Lose

\* Logins, codes and uploads leave the variables of a reset alone.
LEMMA Kept == RInv /\ [MCNext]_mcvars => RInv'
<1> SUFFICES ASSUME RInv, [MCNext]_mcvars PROVE RInv'
  OBVIOUS
<1>1. CASE R!Next
  BY <1>1, ResetStep
<1>2. CASE UNCHANGED resetVars
  BY <1>2 DEF resetVars, RInv, Typed, OldIsAboutToEnd, Current, ToRevoke, ToDrop
<1>3. QED
  BY <1>1, <1>2 DEF MCNext, GoOn, Begin, R!Next, mcvars

\* No session outlives a change of the password, by reset or by who is signed
\* in, but those of logins and refreshes that a change overtook while it ended
\* the sessions, for any number of requests, keys and changes.
THEOREM PasswordChangeEndsSessions == MCSpec => []OldPasswordIsOut
<1>1. MCInit => RInv
  BY DEF MCInit, R!Init, R!Idle, R!Doing, RInv, Typed, OldIsAboutToEnd, Current, ToRevoke,
    ToDrop, R!Opening
<1>2. RInv /\ [MCNext]_mcvars => RInv'
  BY Kept
<1>3. RInv => OldPasswordIsOut
  BY DEF RInv, OldIsAboutToEnd, Current, ToRevoke, ToDrop, OldPasswordIsOut,
    R!OldPasswordIsOut
<1>4. QED
  BY <1>1, <1>2, <1>3, PTL DEF MCSpec

-----------------------------------------------------------------------------
(* Keys one at a time *)

\* One request is in flight.
Alone == \A g, h \in Handlers : ~R!Ready(g) /\ ~R!Ready(h) => g = h

\* A row is active, and a copy in Redis, only for the key that ought to work,
\* or for the one that is being stored.
KeysFit ==
  /\ cached \in good \cup {NoKey}
  /\ \A k \in Keys : token[k] = "active" =>
       k \in good \/ \E h \in Handlers : R!At(h, "cache") /\ resetReq[h].key = k
  /\ \A h \in Handlers :
       /\ R!At(h, "insert") => \A k \in Keys : token[k] # "active"
       /\ R!At(h, "cache") => \A k \in Keys : token[k] = "active" => k = resetReq[h].key
       /\ R!At(h, "use") => resetReq[h].key # NoKey
       /\ resetReq[h].key # NoKey /\ resetReq[h].at \in {"revoke", "drop", "use"}
            => cached = NoKey

KInv ==
  /\ RInv
  /\ token \in [Keys -> {"none", "active", "used"}]
  /\ resetFaults = 0 /\ ~unnamed /\ ~overlapped => Alone /\ KeysFit

\* A statement that fails has been counted.
LEMMA FaultsCount ==
  ASSUME Typed, NEW h \in Handlers, R!Throw(h)
  PROVE  resetFaults' # 0
BY DEF Typed, R!Throw, R!Fault

\* Every action of a request that comes alone keeps it.
LEMMA KeyStep ==
  ASSUME KInv, RInv', R!Next, ~ overlapped' => ~ overlapped /\ Alone'
  PROVE  KInv'
<1>1. token' \in [Keys -> {"none", "active", "used"}]
  BY DEF KInv, R!Next, R!Begin, R!Continue, R!Lose, R!InsertToken, R!CacheKey, R!FindToken,
      R!UpdatePassword, R!ClearKey, R!RevokeAll, R!DropCopies, R!UseTokens, R!ChangePassword,
      R!Compare, R!SignIn, R!StoreCopy, R!Lookup, R!Rebuild, R!Exchange, R!Uncache, R!Throw,
      R!Reset, R!DrawKey, R!Refresh, R!Lapse, R!LoseKey,
      R!RetireAll, R!store
<1> SUFFICES ASSUME resetFaults' = 0, ~ unnamed', ~ overlapped' PROVE KeysFit'
  BY <1>1 DEF KInv
<1>2. resetFaults = 0 /\ ~ unnamed
  <2>1. resetFaults' = resetFaults \/ resetFaults' = resetFaults + 1
    BY DEF R!Next, R!Begin, R!Continue, R!Lose, R!InsertToken, R!CacheKey, R!FindToken,
      R!UpdatePassword, R!ClearKey, R!RevokeAll, R!DropCopies, R!UseTokens, R!ChangePassword,
      R!Compare, R!SignIn, R!StoreCopy, R!Lookup, R!Rebuild, R!Exchange, R!Uncache, R!Throw,
      R!Reset, R!DrawKey, R!Refresh, R!Lapse, R!LoseKey,
      R!Fault, R!NoFault
  <2>2. unnamed => unnamed'
    BY DEF R!Next, R!Begin, R!Continue, R!Lose, R!InsertToken, R!CacheKey, R!FindToken,
      R!UpdatePassword, R!ClearKey, R!RevokeAll, R!DropCopies, R!UseTokens, R!ChangePassword,
      R!Compare, R!SignIn, R!StoreCopy, R!Lookup, R!Rebuild, R!Exchange, R!Uncache, R!Throw,
      R!Reset, R!DrawKey, R!Refresh, R!Lapse, R!LoseKey,
      R!history
  <2>3. resetFaults \in Nat
    BY DEF KInv, RInv, Typed
  <2> QED
    BY <2>1, <2>2, <2>3
<1>3. KeysFit /\ Alone /\ Alone'
  BY <1>2 DEF KInv
<1>0. Typed /\ Typed'
  BY DEF KInv, RInv
<1>4. token \in [Keys -> {"none", "active", "used"}]
  BY DEF KInv
<1> USE <1>0, <1>2, <1>3, <1>4, ResetAssumption
      DEF Typed, KeysFit, Alone, R!At, R!Ready, R!Idle, R!Doing
<1>5. ASSUME NEW h \in Handlers, R!InsertToken(h) PROVE KeysFit'
  BY <1>5, SMTT(30) DEF R!InsertToken, R!Go, R!history
<1>6. ASSUME NEW h \in Handlers, R!CacheKey(h) PROVE KeysFit'
  <2>1. /\ R!At(h, "cache") /\ good' = {resetReq[h].key} /\ R!End(h) /\ UNCHANGED token
    BY <1>6 DEF R!CacheKey
  <2>2. resetReq[h].role
    <3>1. unnamed' = (unnamed \/ ~ resetReq[h].role)
      BY <1>6 DEF R!CacheKey
    <3> QED
      BY <3>1, Zenon
  <2>3. cached' = resetReq[h].key
    <3>1. resetFaults' # resetFaults + 1
      OBVIOUS
    <3> QED
      BY <1>6, <2>2, <3>1 DEF R!CacheKey, R!Fault
  <2> QED
    BY <2>1, <2>3, SMTT(30) DEF R!End
<1>7. ASSUME NEW h \in Handlers, R!FindToken(h) PROVE KeysFit'
  BY <1>7, SMTT(30) DEF R!FindToken, R!Go, R!End, R!store, R!history
<1>8. ASSUME NEW h \in Handlers, R!UpdatePassword(h) PROVE KeysFit'
  BY <1>8, SMTT(30) DEF R!UpdatePassword, R!Go, R!store, R!history
<1>9. ASSUME NEW h \in Handlers, R!ClearKey(h) PROVE KeysFit'
  BY <1>9, SMTT(30) DEF R!ClearKey, R!Go, R!Fault, R!NoFault, R!store, R!history
<1>10. ASSUME NEW h \in Handlers, R!RevokeAll(h) PROVE KeysFit'
  BY <1>10, SMTT(30) DEF R!RevokeAll, R!store, R!history
<1>11. ASSUME NEW h \in Handlers, R!DropCopies(h) PROVE KeysFit'
  BY <1>11, SMTT(30) DEF R!DropCopies, R!Go, R!End, R!store, R!history
<1>12. ASSUME NEW h \in Handlers, R!UseTokens(h) PROVE KeysFit'
  BY <1>12, SMTT(30) DEF R!UseTokens, R!End, R!RetireAll, R!store, R!history
<1>13. ASSUME NEW h \in Handlers, R!ChangePassword(h) PROVE KeysFit'
  BY <1>13, SMTT(30) DEF R!ChangePassword, R!store, R!history
<1>14. ASSUME NEW h \in Handlers, R!Compare(h) PROVE KeysFit'
  BY <1>14, SMTT(30) DEF R!Compare, R!store, R!history
<1>15. ASSUME NEW h \in Handlers, R!SignIn(h) PROVE KeysFit'
  BY <1>15, SMTT(30) DEF R!SignIn, R!Go, R!store, R!history
<1>16. ASSUME NEW h \in Handlers, R!StoreCopy(h) PROVE KeysFit'
  BY <1>16, SMTT(30) DEF R!StoreCopy, R!End, R!store, R!history
<1>17. ASSUME NEW h \in Handlers, R!Lookup(h) PROVE KeysFit'
  BY <1>17, SMTT(30) DEF R!Lookup, R!Go, R!End, R!store, R!history
<1>18. ASSUME NEW h \in Handlers, R!Rebuild(h) PROVE KeysFit'
  BY <1>18, SMTT(30) DEF R!Rebuild, R!Go, R!store, R!history
<1>19. ASSUME NEW h \in Handlers, R!Exchange(h) PROVE KeysFit'
  BY <1>19, SMTT(30) DEF R!Exchange, R!Go, R!End, R!store, R!history
<1>20. ASSUME NEW h \in Handlers, R!Uncache(h) PROVE KeysFit'
  BY <1>20, SMTT(30) DEF R!Uncache, R!Go, R!store, R!history
<1>21. ASSUME NEW h \in Handlers, R!Throw(h) PROVE KeysFit'
  BY <1>21, FaultsCount DEF KInv, RInv
<1>22. ASSUME NEW h \in Handlers, NEW k \in Keys, R!Reset(h, k) PROVE KeysFit'
  <2>1. R!Ready(h) /\ UNCHANGED <<token, cached, good>>
    BY <1>22 DEF R!Reset, R!store, R!history
  <2>2. PICK step \in {"update", "find"} :
          resetReq' = [resetReq EXCEPT ![h] = R!Doing(step, k, FALSE, 0, FALSE)]
    BY <1>22 DEF R!Reset
  <2>3. QED
    BY <2>1, <2>2, SMTT(30)
<1>23. ASSUME NEW h \in Handlers, NEW k \in Keys, NEW role \in BOOLEAN,
            R!DrawKey(h, k, role) PROVE KeysFit'
  BY <1>23, SMTT(30) DEF R!DrawKey, R!RetireAll, R!history
<1>24. ASSUME NEW h \in Handlers, NEW s \in rows \cup copies, R!Refresh(h, s)
      PROVE  KeysFit'
  BY <1>24, SMTT(30) DEF R!Refresh, R!store, R!history
<1>25. ASSUME NEW k \in Keys, R!Lapse(k) PROVE KeysFit'
  BY <1>25, SMTT(30) DEF R!Lapse, R!history
<1>26. CASE R!LoseKey
  BY <1>26, SMTT(30) DEF R!LoseKey, R!history
<1> QED
  BY <1>5, <1>6, <1>7, <1>8, <1>9, <1>10, <1>11, <1>12, <1>13, <1>14, <1>15,
    <1>16, <1>17, <1>18, <1>19, <1>20, <1>21, <1>22, <1>23, <1>24, <1>25, <1>26
    DEF R!Next, R!Begin, R!Continue, R!Lose

\* KInv always holds.
LEMMA KeysKept == KInv /\ [MCNext]_mcvars => KInv'
<1> SUFFICES ASSUME KInv, [MCNext]_mcvars PROVE KInv'
  OBVIOUS
<1>1. CASE R!Next /\ MCNext
  <2>1. RInv'
    BY <1>1, ResetStep DEF KInv, RInv
  <2>2. ~ overlapped' => ~ overlapped /\ Alone'
    BY <1>1 DEF MCNext, InFlight, Alone
  <2>3. QED
    BY <1>1, <2>1, <2>2, KeyStep
<1>2. CASE UNCHANGED resetVars /\ (overlapped => overlapped')
  BY <1>2 DEF resetVars, KInv, RInv, Typed, OldIsAboutToEnd, Current, ToRevoke, ToDrop, Alone,
    KeysFit, R!At, R!Ready
<1>3. overlapped => overlapped'
  <2>1. CASE MCNext
    BY <2>1 DEF MCNext
  <2>2. CASE UNCHANGED mcvars
    BY <2>2 DEF mcvars
  <2> QED
    BY <2>1, <2>2
<1>4. QED
  <2>1. CASE UNCHANGED mcvars
    BY <2>1, <1>2, <1>3 DEF mcvars
  <2>2. CASE MCNext
    BY <2>2, <1>1, <1>2, <1>3 DEF MCNext, GoOn, Begin, R!Next
  <2> QED
    BY <2>1, <2>2

\* Superseded keys, for any number of requests, keys and changes: as long as
\* requests have come one at a time, named their role and met no failure, a
\* new key retires the rows of all before it and takes the place of the copy,
\* and a reset leaves neither row nor copy behind.
THEOREM SupersededKeyDies == MCSpec => []SupersededKeyIsDeadInSequence
<1>1. MCInit => KInv
  BY DEF MCInit, R!Init, R!Idle, R!Doing, KInv, RInv, Typed, OldIsAboutToEnd, Current,
    ToRevoke, ToDrop, R!Opening, Alone, KeysFit, R!At, R!Ready
<1>2. KInv /\ [MCNext]_mcvars => KInv'
  BY KeysKept
<1>3. KInv => SupersededKeyIsDeadInSequence
  BY ResetAssumption DEF KInv, KeysFit, SupersededKeyIsDeadInSequence, R!Quiet, R!SupersededKeys,
    R!Works, R!Valid, R!Ready, R!At, R!Idle, R!Doing
<1>4. QED
  BY <1>1, <1>2, <1>3, PTL DEF MCSpec

-----------------------------------------------------------------------------
(* Counters *)

Statements ==
  {"idle", "find", "pair", "compare", "countIp", "expireIp", "countPair", "expirePair",
   "lockIp", "lockPair", "clearIp", "clearPair", "enter", "countOtp", "expireOtp", "lockOtp",
   "cooldown", "resend", "refuse", "ipRequest", "both", "fallback", "create", "rest", "leave",
   "countUpload", "expireUpload", "upload"}
Request ==
  [at : Statements, email : Emails \cup {Unknown}, n : Nat, m : Nat,
   todo : SUBSET Counters, first : SUBSET Counters]

\* The values the proof rests on.
CountersTyped ==
  /\ count \in [Counters -> Nat] /\ left \in [Counters -> 0..Forever]
  /\ \A c \in Counters : left[c] = 0 <=> count[c] = 0
  /\ born \in [Counters -> 0..OneHour]
  /\ req \in [Handlers -> Request]

\* A request that has made the key of counter c, and has its EXPIRE to send.
ToExpire(r, c) ==
  \/ r.at = "expireIp" /\ c = "ip"
  \/ r.at = "expirePair" /\ c = r.email
  \/ r.at = "expireOtp" /\ c = "otp"
  \/ r.at = "expireUpload" /\ c = "upload"
  \/ c \in r.first

\* The increments of a send are made by a send.
Sends == {"both", "fallback", "create", "rest", "leave"}
SendFits(r) ==
  r.todo \cup r.first # {} => r.at \in Sends

\* A counter ends no later than the window of its first attempt, and no time
\* has passed since that attempt while its EXPIRE is to come.
EndsInTime ==
  \A c \in Counters :
    /\ left[c] # Forever => left[c] <= born[c]
    /\ count[c] # 0 => \A h \in Handlers : ToExpire(req[h], c) => born[c] = Window[c]

RecentInv == CountersTyped /\ (\A h \in Handlers : SendFits(req[h])) /\ EndsInTime

\* Each counter has a window.
LEMMA WindowFits ==
  /\ \A c \in Counters : Window[c] \in 1..OneHour
  /\ {"ip", "otp", "resend", "ipRequest", "upload"} \subseteq Counters /\ Emails \subseteq Counters
  /\ OneHour \in Nat /\ Forever = OneHour + 1 /\ Forever \notin 1..OneHour
<1>1. /\ OneMinute \in 1..OneHour /\ TenMinutes \in 1..OneHour /\ OneHour \in 1..OneHour
      /\ OneHour \in Nat
  BY TimesAssumption
<1>2. ASSUME NEW c \in Counters PROVE Window[c] \in {OneMinute, TenMinutes, OneHour}
  BY DEF Window
<1>3. QED
  BY <1>1, <1>2 DEF Counters, Forever

\* The step is one of request h, which has no EXPIRE to send but those it had
\* before, and one for a counter of C.
Moves(h, C) ==
  /\ req' \in [Handlers -> Request] /\ \A g \in Handlers \ {h} : req'[g] = req[g]
  /\ SendFits(req'[h])
  /\ \A c \in Counters : ToExpire(req'[h], c) => ToExpire(req[h], c) \/ c \in C

\* A step to another statement ...
LEMMA GoMoves ==
  ASSUME req \in [Handlers -> Request], NEW h \in Handlers, NEW step \in Statements,
         Go(h, step), SendFits(req[h]),
         req[h].at \in Sends =>
           step \in Sends,
         step \notin {"expireIp", "expirePair", "expireOtp", "expireUpload"}
  PROVE  Moves(h, {})
<1>1. req' \in [Handlers -> Request] /\ \A g \in Handlers \ {h} : req'[g] = req[g]
  BY DEF Go, Request
<1>2. /\ req'[h].at = step /\ req'[h].first = req[h].first
      /\ req'[h].todo = req[h].todo
  BY DEF Go, Request
<1>3. SendFits(req'[h])
  BY <1>2 DEF SendFits, Sends
<1>4. QED
  BY <1>1, <1>2, <1>3 DEF Moves, ToExpire

\* ... or to the end.
LEMMA EndMoves ==
  ASSUME req \in [Handlers -> Request], NEW h \in Handlers, End(h)
  PROVE  Moves(h, {})
<1>1. req' \in [Handlers -> Request] /\ \A g \in Handlers \ {h} : req'[g] = req[g]
  BY DEF End, Idle, Request, Statements
<1>2. req'[h] = Idle
  BY DEF End
<1>3. QED
  BY <1>1, <1>2 DEF Moves, SendFits, Sends, ToExpire, Idle

\* An INCR as a step of its request.
LEMMA CountsMoves ==
  ASSUME RecentInv, NEW h \in Handlers, NEW c \in Counters,
         NEW from, NEW mid, NEW to, {from, mid, to} \subseteq Statements \ Sends,
         Counts(h, c, from, mid, to),
         \A r \in Request, d \in Counters :
           r.at = mid /\ r.first = {} /\ r.email = req[h].email /\ ToExpire(r, d) => d = c,
         to \notin {"expireIp", "expirePair", "expireOtp", "expireUpload"}
  PROVE  Incr(c) /\ UNCHANGED lock /\ Moves(h, IF count[c] = 0 THEN {c} ELSE {})
<1>1. req \in [Handlers -> Request] /\ SendFits(req[h]) /\ count \in [Counters -> Nat]
  BY DEF RecentInv, CountersTyped
<1>2. Incr(c) /\ UNCHANGED lock /\ req[h].at = from
  BY DEF Counts, At
<1>3. count'[c] = count[c] + 1 /\ count[c] \in Nat
  BY <1>1, <1>2 DEF Incr
<1> DEFINE a == IF count[c] = 0 THEN mid ELSE to
<1>4. req' = [req EXCEPT ![h].at = IF count'[c] = 1 THEN mid ELSE to,
                ![h].n = IF c \in Emails THEN @ ELSE count'[c],
                ![h].m = IF c \in Emails THEN count'[c] ELSE @]
  BY DEF Counts
<1>5. /\ count'[c] \in Nat /\ (count'[c] = 1 <=> count[c] = 0)
      /\ (IF count'[c] = 1 THEN mid ELSE to) \in Statements
      /\ (IF c \in Emails THEN req[h].n ELSE count'[c]) \in Nat
      /\ (IF c \in Emails THEN count'[c] ELSE req[h].m) \in Nat
  BY <1>1, <1>3 DEF Request
<1>6. req' \in [Handlers -> Request] /\ \A g \in Handlers \ {h} : req'[g] = req[g]
  <2>1. \A r \in Request :
          [r EXCEPT !.at = IF count'[c] = 1 THEN mid ELSE to,
             !.n = IF c \in Emails THEN req[h].n ELSE count'[c],
             !.m = IF c \in Emails THEN count'[c] ELSE req[h].m] \in Request
    BY <1>5 DEF Request
  <2> QED
    BY <1>1, <1>4, <2>1
<1>7. /\ req'[h].at = a /\ req'[h].email = req[h].email
      /\ req'[h].todo = req[h].todo /\ req'[h].first = req[h].first
  BY <1>1, <1>4, <1>5, SMTT(30) DEF Request
<1>8. req[h].first = {} /\ req[h].todo = {}
  BY <1>1, <1>2 DEF SendFits
<1>9. SendFits(req'[h])
  BY <1>7, <1>8 DEF SendFits, Sends
<1>10. \A d \in Counters : ToExpire(req'[h], d) => d \in IF count[c] = 0 THEN {c} ELSE {}
  <2>1. CASE count[c] = 0
    BY <1>6, <1>7, <1>8, <2>1
  <2>2. CASE count[c] # 0
    BY <1>7, <1>8, <2>2 DEF ToExpire
  <2> QED
    BY <2>1, <2>2
<1> QED
  BY <1>2, <1>6, <1>9, <1>10 DEF Moves

\* A step that does not touch the counters.
LEMMA QuietKeeps ==
  ASSUME RecentInv, NEW h \in Handlers, Moves(h, {}), UNCHANGED <<count, left, born>>
  PROVE  RecentInv'
<1>1. CountersTyped' /\ \A g \in Handlers : SendFits(req'[g])
  BY DEF RecentInv, CountersTyped, Moves
<1>2. \A g \in Handlers, c \in Counters : ToExpire(req'[g], c) => ToExpire(req[g], c)
  BY DEF Moves
<1>3. QED
  BY <1>1, <1>2 DEF RecentInv, EndsInTime

\* An INCR, with or without the EXPIRE that follows it.
LEMMA IncrKeeps ==
  ASSUME RecentInv, NEW h \in Handlers, NEW c \in Counters, Incr(c),
         Moves(h, IF count[c] = 0 THEN {c} ELSE {}), UNCHANGED lock
  PROVE  RecentInv'
<1> USE DEF RecentInv, CountersTyped, EndsInTime
<1>1. /\ count' = [count EXCEPT ![c] = @ + 1]
      /\ left' = [left EXCEPT ![c] = IF count[c] = 0 THEN Forever ELSE @]
      /\ born' = [born EXCEPT ![c] = IF count[c] = 0 THEN Window[c] ELSE @]
  BY DEF Incr
<1>2. CountersTyped' /\ \A g \in Handlers : SendFits(req'[g])
  BY <1>1, WindowFits DEF Moves
<1>3. ASSUME NEW d \in Counters PROVE left'[d] # Forever => left'[d] <= born'[d]
  BY <1>1, WindowFits
<1>4. ASSUME NEW d \in Counters, count'[d] # 0, NEW g \in Handlers, ToExpire(req'[g], d)
      PROVE  born'[d] = Window[d]
  <2>1. CASE d = c /\ count[c] = 0
    BY <1>1, <2>1
  <2>2. CASE d # c \/ count[c] # 0
    <3>1. ToExpire(req[g], d)
      BY <1>4, <2>2 DEF Moves
    <3>2. count[d] # 0 /\ born'[d] = born[d]
      BY <1>1, <1>4, <2>2
    <3>3. QED
      BY <3>1, <3>2
  <2>3. QED
    BY <2>1, <2>2
<1>5. QED
  BY <1>2, <1>3, <1>4

\* An EXPIRE that was to be sent.
LEMMA ExpireKeeps ==
  ASSUME RecentInv, NEW h \in Handlers, NEW c \in Counters, ToExpire(req[h], c),
         Expire(c), UNCHANGED <<count, born>>, Moves(h, {})
  PROVE  RecentInv'
<1> USE DEF RecentInv, CountersTyped, EndsInTime
<1>1. left' = [left EXCEPT ![c] = IF count[c] = 0 THEN 0 ELSE Window[c]]
  BY DEF Expire
<1>2. CountersTyped' /\ \A g \in Handlers : SendFits(req'[g])
  BY <1>1, WindowFits DEF Moves
<1>3. ASSUME NEW d \in Counters PROVE left'[d] # Forever => left'[d] <= born'[d]
  BY <1>1, WindowFits
<1>4. \A g \in Handlers, d \in Counters : ToExpire(req'[g], d) => ToExpire(req[g], d)
  BY DEF Moves
<1>5. QED
  BY <1>2, <1>3, <1>4

\* A DEL.
LEMMA DelKeeps ==
  ASSUME RecentInv, NEW h \in Handlers, NEW c \in Counters, Del(c), Moves(h, {})
  PROVE  RecentInv'
<1> USE DEF RecentInv, CountersTyped, EndsInTime
<1>1. /\ count' = [count EXCEPT ![c] = 0] /\ left' = [left EXCEPT ![c] = 0]
      /\ born' = [born EXCEPT ![c] = 0]
  BY DEF Del
<1>2. CountersTyped' /\ \A g \in Handlers : SendFits(req'[g])
  BY <1>1, WindowFits DEF Moves
<1>3. \A g \in Handlers, d \in Counters : ToExpire(req'[g], d) => ToExpire(req[g], d)
  BY DEF Moves
<1>4. QED
  BY <1>1, <1>2, <1>3, WindowFits

\* A unit of time, which does not pass while an EXPIRE is to be sent.
LEMMA TickKeeps == RecentInv /\ Tick => RecentInv'
<1> SUFFICES ASSUME RecentInv, Tick PROVE RecentInv'
  OBVIOUS
<1>1. \A h \in Handlers, c \in Counters : ~ ToExpire(req[h], c)
  BY DEF Tick, Quick, ToExpire, RecentInv, SendFits, Sends
<1>2. req' = req
  BY DEF Tick
<1>3. ASSUME NEW c \in Counters
      PROVE  /\ left[c] \in 0..Forever /\ born[c] \in 0..OneHour /\ count[c] \in Nat
             /\ left[c] = 0 <=> count[c] = 0
             /\ left'[c] = IF left[c] = Forever THEN Forever ELSE Less(left[c])
             /\ count'[c] = IF left[c] = 1 THEN 0 ELSE count[c]
             /\ born'[c] = IF left[c] = 1 THEN 0 ELSE Less(born[c])
  BY DEF RecentInv, CountersTyped, Tick, Over
<1>4. ASSUME NEW c \in Counters
      PROVE  /\ left'[c] \in 0..Forever /\ born'[c] \in 0..OneHour /\ count'[c] \in Nat
             /\ left'[c] = 0 <=> count'[c] = 0
             /\ left[c] # Forever => left[c] <= born[c]
             /\ left'[c] # Forever => left'[c] <= born'[c]
  <2>1. left[c] # Forever => left[c] <= born[c]
    BY DEF RecentInv, EndsInTime
  <2>2. QED
    BY <1>3, <2>1, WindowFits DEF Less
<1>5. CountersTyped'
  <2>1. /\ left' = [c \in Counters |-> left'[c]] /\ born' = [c \in Counters |-> born'[c]]
        /\ count' = [c \in Counters |-> count'[c]]
    BY DEF Tick
  <2>2. QED
    BY <1>2, <1>4, <2>1 DEF RecentInv, CountersTyped
<1>6. QED
  BY <1>1, <1>2, <1>4, <1>5 DEF RecentInv, EndsInTime

\* A login keeps it.
LEMMA LoginKeeps ==
  ASSUME RecentInv, NEW h \in Handlers,
         BeginLogin(h) \/ LoginStep(h)
  PROVE  RecentInv'
<1>1. req \in [Handlers -> Request] /\ SendFits(req[h]) /\ req[h] \in Request
  BY DEF RecentInv, CountersTyped
<1> USE <1>1
<1>2. ASSUME NEW e \in Emails \cup {Unknown}, Login(h, e) PROVE RecentInv'
  <2>1. UNCHANGED <<count, left, born>>
    BY <1>2 DEF Login, redis, history, Spend
  <2>2. Moves(h, {})
    <3>1. req[h] = Idle /\ req' = [req EXCEPT ![h].at = "find", ![h].email = e]
      BY <1>2 DEF Login, Ready
    <3>2. req' \in [Handlers -> Request] /\ \A g \in Handlers \ {h} : req'[g] = req[g]
      BY <3>1 DEF Request, Statements
    <3>3. /\ req'[h].at = "find" /\ req'[h].todo = {} /\ req'[h].first = {}
      BY <3>1 DEF Request, Idle
    <3> QED
      BY <3>2, <3>3 DEF Moves, SendFits, Sends, ToExpire
  <2> QED
    BY <2>1, <2>2, QuietKeeps
<1>3. ASSUME FindUser(h) PROVE RecentInv'
  <2>1. UNCHANGED <<count, left, born>>
    BY <1>3 DEF FindUser, redis, history, Spend
  <2>2. Moves(h, {})
    BY <1>3, GoMoves, EndMoves, SMTT(30) DEF FindUser, At, Statements, Sends
  <2> QED
    BY <2>1, <2>2, QuietKeeps
<1>4. ASSUME CheckPair(h) PROVE RecentInv'
  <2>1. UNCHANGED <<count, left, born>>
    BY <1>4 DEF CheckPair, redis, history, Spend
  <2>2. Moves(h, {})
    BY <1>4, GoMoves, EndMoves, SMTT(30) DEF CheckPair, At, Statements, Sends
  <2> QED
    BY <2>1, <2>2, QuietKeeps
<1>5. ASSUME Compare(h) PROVE RecentInv'
  <2>1. UNCHANGED <<count, left, born>>
    BY <1>5 DEF Compare, redis, history, Spend
  <2>2. Moves(h, {})
    BY <1>5, GoMoves, EndMoves, SMTT(30) DEF Compare, At, Statements, Sends
  <2> QED
    BY <2>1, <2>2, QuietKeeps
<1>6. ASSUME LockIp(h) PROVE RecentInv'
  <2>1. UNCHANGED <<count, left, born>>
    BY <1>6 DEF LockIp, redis, history, Spend
  <2>2. Moves(h, {})
    BY <1>6, GoMoves, EndMoves, SMTT(30) DEF LockIp, At, Statements, Sends
  <2> QED
    BY <2>1, <2>2, QuietKeeps
<1>7. ASSUME LockPair(h) PROVE RecentInv'
  <2>1. UNCHANGED <<count, left, born>>
    BY <1>7 DEF LockPair, redis, history, Spend
  <2>2. Moves(h, {})
    BY <1>7, GoMoves, EndMoves, SMTT(30) DEF LockPair, At, Statements, Sends
  <2> QED
    BY <2>1, <2>2, QuietKeeps
<1>8. CASE CountIp(h)
  <2> PICK c \in Counters : c = "ip"
    BY <1>8, WindowFits DEF CountIp, Request
  <2> DEFINE to == IF req[h].email = Unknown THEN "lockIp" ELSE "countPair"
  <2>1. Counts(h, c, "countIp", "expireIp", to)
    BY <1>8 DEF CountIp
  <2>2. /\ {"countIp", "expireIp", to} \subseteq Statements \ Sends
        /\ to \notin {"expireIp", "expirePair", "expireOtp", "expireUpload"}
    BY DEF Statements, Sends
  <2>3. \A r \in Request, d \in Counters :
          r.at = "expireIp" /\ r.first = {} /\ r.email = req[h].email /\ ToExpire(r, d) => d = c
    BY DEF ToExpire
  <2> HIDE DEF to
  <2>4. Incr(c) /\ UNCHANGED lock /\ Moves(h, IF count[c] = 0 THEN {c} ELSE {})
    BY <2>1, <2>2, <2>3, CountsMoves
  <2> QED
    BY <2>4, IncrKeeps
<1>9. CASE CountPair(h)
  <2> PICK c \in Counters : c = req[h].email
    BY <1>9, WindowFits DEF CountPair, Request
  <2> DEFINE to == "lockIp"
  <2>1. Counts(h, c, "countPair", "expirePair", to)
    BY <1>9 DEF CountPair
  <2>2. /\ {"countPair", "expirePair", to} \subseteq Statements \ Sends
        /\ to \notin {"expireIp", "expirePair", "expireOtp", "expireUpload"}
    BY DEF Statements, Sends
  <2>3. \A r \in Request, d \in Counters :
          r.at = "expirePair" /\ r.first = {} /\ r.email = req[h].email /\ ToExpire(r, d) => d = c
    BY DEF ToExpire
  <2> HIDE DEF to
  <2>4. Incr(c) /\ UNCHANGED lock /\ Moves(h, IF count[c] = 0 THEN {c} ELSE {})
    BY <2>1, <2>2, <2>3, CountsMoves
  <2> QED
    BY <2>4, IncrKeeps
<1>10. CASE ExpireIp(h)
  <2> PICK c \in Counters : c = "ip"
    BY <1>10, WindowFits DEF ExpireIp, Request
  <2>1. Expire(c) /\ ToExpire(req[h], c) /\ UNCHANGED <<count, born>>
    BY <1>10 DEF ExpireIp, Expires, ToExpire, At, history
  <2>2. Moves(h, {})
    BY <1>10, GoMoves DEF ExpireIp, Expires, At, Statements, Sends
  <2> QED
    BY <2>1, <2>2, ExpireKeeps
<1>11. CASE ExpirePair(h)
  <2> PICK c \in Counters : c = req[h].email
    BY <1>11, WindowFits DEF ExpirePair, Request
  <2>1. Expire(c) /\ ToExpire(req[h], c) /\ UNCHANGED <<count, born>>
    BY <1>11 DEF ExpirePair, Expires, ToExpire, At, history
  <2>2. Moves(h, {})
    BY <1>11, GoMoves DEF ExpirePair, Expires, At, Statements, Sends
  <2> QED
    BY <2>1, <2>2, ExpireKeeps
<1>12. CASE ClearIp(h)
  <2>1. Moves(h, {})
    BY <1>12, GoMoves DEF ClearIp, At, Statements, Sends
  <2> QED
    BY <1>12, <2>1, WindowFits, DelKeeps DEF ClearIp
<1>13. CASE ClearPair(h)
  <2>1. Moves(h, {})
    BY <1>13, EndMoves DEF ClearPair
  <2>2. CASE req[h].email \in Counters
    BY <1>13, <2>1, <2>2, DelKeeps DEF ClearPair
  <2>3. CASE req[h].email \notin Counters
    <3>1. UNCHANGED <<count, left, born>>
      BY <1>13, <2>3 DEF ClearPair, Del, RecentInv, CountersTyped
    <3> QED
      BY <2>1, <3>1, QuietKeeps
  <2> QED
    BY <2>2, <2>3
<1> QED
  BY <1>2, <1>3, <1>4, <1>5, <1>6, <1>7, <1>8, <1>9, <1>10, <1>11, <1>12, <1>13 DEF BeginLogin, LoginStep

\* So does the sending or entering of a code.
LEMMA CodeKeeps ==
  ASSUME RecentInv, NEW h \in Handlers,
         BeginCode(h) \/ CodeStep(h)
  PROVE  RecentInv'
<1>1. req \in [Handlers -> Request] /\ SendFits(req[h]) /\ req[h] \in Request
  BY DEF RecentInv, CountersTyped
<1> USE <1>1
<1>2. ASSUME VerifyOtp(h) PROVE RecentInv'
  <2>1. UNCHANGED <<count, left, born>>
    BY <1>2 DEF VerifyOtp, redis, history, Spend
  <2>2. Moves(h, {})
    BY <1>2 DEF VerifyOtp, Ready, Idle, Go, Moves, Request, Statements, Sends, SendFits, ToExpire
  <2> QED
    BY <2>1, <2>2, QuietKeeps
<1>3. ASSUME SendOtp(h) PROVE RecentInv'
  <2>1. UNCHANGED <<count, left, born>>
    BY <1>3 DEF SendOtp, redis, history, Spend
  <2>2. Moves(h, {})
    BY <1>3 DEF SendOtp, Ready, Idle, Go, Moves, Request, Statements, Sends, SendFits, ToExpire
  <2> QED
    BY <2>1, <2>2, QuietKeeps
<1>4. ASSUME CompareCode(h) PROVE RecentInv'
  <2>1. UNCHANGED <<count, left, born>>
    BY <1>4 DEF CompareCode, redis, history, Spend
  <2>2. Moves(h, {})
    BY <1>4, GoMoves, EndMoves, SMTT(30) DEF CompareCode, At, Statements, Sends
  <2> QED
    BY <2>1, <2>2, QuietKeeps
<1>5. ASSUME LockOtp(h) PROVE RecentInv'
  <2>1. UNCHANGED <<count, left, born>>
    BY <1>5 DEF LockOtp, redis, history, Spend
  <2>2. Moves(h, {})
    BY <1>5, GoMoves, EndMoves, SMTT(30) DEF LockOtp, At, Statements, Sends
  <2> QED
    BY <2>1, <2>2, QuietKeeps
<1>6. ASSUME CheckCooldown(h) PROVE RecentInv'
  <2>1. UNCHANGED <<count, left, born>>
    BY <1>6 DEF CheckCooldown, redis, history, Spend
  <2>2. Moves(h, {})
    BY <1>6, GoMoves, EndMoves, SMTT(30) DEF CheckCooldown, At, Statements, Sends
  <2> QED
    BY <2>1, <2>2, QuietKeeps
<1>7. ASSUME CheckResend(h) PROVE RecentInv'
  <2>1. UNCHANGED <<count, left, born>>
    BY <1>7 DEF CheckResend, redis, history, Spend
  <2>2. Moves(h, {})
    BY <1>7, GoMoves, EndMoves, SMTT(30) DEF CheckResend, At, Statements, Sends
  <2> QED
    BY <2>1, <2>2, QuietKeeps
<1>8. ASSUME RefuseResend(h) PROVE RecentInv'
  <2>1. UNCHANGED <<count, left, born>>
    BY <1>8 DEF RefuseResend, redis, history, Spend
  <2>2. Moves(h, {})
    BY <1>8, GoMoves, EndMoves, SMTT(30) DEF RefuseResend, At, Statements, Sends
  <2> QED
    BY <2>1, <2>2, QuietKeeps
<1>9. ASSUME Counted(h) PROVE RecentInv'
  <2>1. UNCHANGED <<count, left, born>>
    BY <1>9 DEF Counted, redis, history, Spend
  <2>2. Moves(h, {})
    BY <1>9, GoMoves, EndMoves, SMTT(30) DEF Counted, At, Statements, Sends
  <2> QED
    BY <2>1, <2>2, QuietKeeps
<1>10. ASSUME Fallback(h) PROVE RecentInv'
  <2>1. UNCHANGED <<count, left, born>>
    BY <1>10 DEF Fallback, redis, history, Spend
  <2>2. Moves(h, {})
    BY <1>10, GoMoves, EndMoves, SMTT(30) DEF Fallback, At, Statements, Sends
  <2> QED
    BY <2>1, <2>2, QuietKeeps
<1>11. ASSUME CreateCode(h) PROVE RecentInv'
  <2>1. UNCHANGED <<count, left, born>>
    BY <1>11 DEF CreateCode, redis, history, Spend
  <2>2. Moves(h, {})
    BY <1>11, GoMoves, EndMoves, SMTT(30) DEF CreateCode, At, Statements, Sends
  <2> QED
    BY <2>1, <2>2, QuietKeeps
<1>12. ASSUME SetCooldown(h) PROVE RecentInv'
  <2>1. UNCHANGED <<count, left, born>>
    BY <1>12 DEF SetCooldown, redis, history, Spend
  <2>2. Moves(h, {})
    BY <1>12, GoMoves, EndMoves, SMTT(30) DEF SetCooldown, At, Statements, Sends
  <2> QED
    BY <2>1, <2>2, QuietKeeps
<1>13. ASSUME LeaveSend(h) PROVE RecentInv'
  <2>1. UNCHANGED <<count, left, born>>
    BY <1>13 DEF LeaveSend, redis, history, Spend
  <2>2. Moves(h, {})
    BY <1>13, GoMoves, EndMoves, SMTT(30) DEF LeaveSend, At, Statements, Sends
  <2> QED
    BY <2>1, <2>2, QuietKeeps
<1>14. CASE CountOtp(h)
  <2> PICK c \in Counters : c = "otp"
    BY <1>14, WindowFits DEF CountOtp, Request
  <2> DEFINE to == "lockOtp"
  <2>1. Counts(h, c, "countOtp", "expireOtp", to)
    BY <1>14 DEF CountOtp
  <2>2. /\ {"countOtp", "expireOtp", to} \subseteq Statements \ Sends
        /\ to \notin {"expireIp", "expirePair", "expireOtp", "expireUpload"}
    BY DEF Statements, Sends
  <2>3. \A r \in Request, d \in Counters :
          r.at = "expireOtp" /\ r.first = {} /\ r.email = req[h].email /\ ToExpire(r, d) => d = c
    BY DEF ToExpire
  <2> HIDE DEF to
  <2>4. Incr(c) /\ UNCHANGED lock /\ Moves(h, IF count[c] = 0 THEN {c} ELSE {})
    BY <2>1, <2>2, <2>3, CountsMoves
  <2> QED
    BY <2>4, IncrKeeps
<1>15. CASE ExpireOtp(h)
  <2> PICK c \in Counters : c = "otp"
    BY <1>15, WindowFits DEF ExpireOtp, Request
  <2>1. Expire(c) /\ ToExpire(req[h], c) /\ UNCHANGED <<count, born>>
    BY <1>15 DEF ExpireOtp, Expires, ToExpire, At, history
  <2>2. Moves(h, {})
    BY <1>15, GoMoves DEF ExpireOtp, Expires, At, Statements, Sends
  <2> QED
    BY <2>1, <2>2, ExpireKeeps
<1>16. CASE CheckIpRequest(h)
  <2>1. UNCHANGED <<count, left, born>>
    BY <1>16 DEF CheckIpRequest, redis, Spend
  <2>2. CASE End(h)
    BY <2>1, <2>2, EndMoves, QuietKeeps
  <2>3. CASE req' = [req EXCEPT ![h].at = "both", ![h].todo = {"ipRequest", "resend"}]
    <3>1. req' \in [Handlers -> Request] /\ \A g \in Handlers \ {h} : req'[g] = req[g]
      BY <2>3, WindowFits DEF Request, Statements
    <3>2. /\ req'[h].at = "both" /\ req'[h].first = req[h].first
      BY <2>3 DEF Request
    <3>3. Moves(h, {})
      BY <3>1, <3>2 DEF Moves, SendFits, Sends, ToExpire
    <3> QED
      BY <2>1, <3>3, QuietKeeps
  <2> QED
    BY <1>16, <2>2, <2>3 DEF CheckIpRequest
<1>17. ASSUME NEW c \in Counters, FailSend(h, c) PROVE RecentInv'
  <2>1. UNCHANGED <<count, left, born>>
    BY <1>17 DEF FailSend, redis, history
  <2>2. Moves(h, {})
    BY <1>17, SMTT(30) DEF FailSend, At, Moves, Request, Statements, Sends, SendFits, ToExpire
  <2> QED
    BY <2>1, <2>2, QuietKeeps
<1>18. ASSUME NEW c \in Counters, CountSend(h, c) PROVE RecentInv'
  <2>1. Incr(c) /\ UNCHANGED lock /\ (count'[c] = 1 <=> count[c] = 0) /\ c \in req[h].todo
    BY <1>18 DEF CountSend, Incr, RecentInv, CountersTyped
  <2>2. req' = [req EXCEPT ![h].todo = req[h].todo \ {c},
                  ![h].first = IF count'[c] = 1 THEN req[h].first \cup {c} ELSE req[h].first]
    BY <1>18 DEF CountSend
  <2>3. req' \in [Handlers -> Request] /\ \A g \in Handlers \ {h} : req'[g] = req[g]
    <3>1. /\ (req[h].todo \ {c}) \in SUBSET Counters
          /\ (IF count'[c] = 1 THEN req[h].first \cup {c} ELSE req[h].first) \in SUBSET Counters
      BY DEF Request
    <3>2. \A r \in Request :
            [r EXCEPT !.todo = req[h].todo \ {c},
               !.first = IF count'[c] = 1 THEN req[h].first \cup {c} ELSE req[h].first]
            \in Request
      BY <3>1 DEF Request
    <3> QED
      BY <2>2, <3>2
  <2>4. /\ req'[h].at = req[h].at /\ req'[h].email = req[h].email
        /\ req'[h].first = IF count[c] = 0 THEN req[h].first \cup {c} ELSE req[h].first
    BY <2>1, <2>2, SMTT(30) DEF Request
  <2>5. Moves(h, IF count[c] = 0 THEN {c} ELSE {})
    BY <2>1, <2>2, <2>3, <2>4 DEF Moves, SendFits, Sends, ToExpire
  <2> QED
    BY <2>1, <2>5, IncrKeeps
<1>19. ASSUME NEW c \in Counters, ExpireSend(h, c) PROVE RecentInv'
  <2>1. Expire(c) /\ ToExpire(req[h], c) /\ UNCHANGED <<count, born>>
    BY <1>19 DEF ExpireSend, ToExpire, history
  <2>2. Moves(h, {})
    BY <1>19, SMTT(30) DEF ExpireSend, Moves, Request, Statements, Sends, SendFits, ToExpire
  <2> QED
    BY <2>1, <2>2, ExpireKeeps
<1> QED
  BY <1>2, <1>3, <1>4, <1>5, <1>6, <1>7, <1>8, <1>9, <1>10, <1>11, <1>12, <1>13, <1>14, <1>15, <1>16, <1>17, <1>18, <1>19 DEF BeginCode, CodeStep

\* So does an upload, and the failure of a command.
LEMMA UploadKeeps ==
  ASSUME RecentInv, NEW h \in Handlers,
         Upload(h) \/ UploadStep(h) \/ Fail(h)
  PROVE  RecentInv'
<1>1. req \in [Handlers -> Request] /\ SendFits(req[h]) /\ req[h] \in Request
  BY DEF RecentInv, CountersTyped
<1> USE <1>1
<1>2. ASSUME Upload(h) PROVE RecentInv'
  <2>1. UNCHANGED <<count, left, born>>
    BY <1>2 DEF Upload, redis, history, Spend
  <2>2. Moves(h, {})
    BY <1>2 DEF Upload, Ready, Idle, Go, Moves, Request, Statements, Sends, SendFits, ToExpire
  <2> QED
    BY <2>1, <2>2, QuietKeeps
<1>3. ASSUME PassUpload(h) PROVE RecentInv'
  <2>1. UNCHANGED <<count, left, born>>
    BY <1>3 DEF PassUpload, redis, history, Spend
  <2>2. Moves(h, {})
    BY <1>3, GoMoves, EndMoves, SMTT(30) DEF PassUpload, At, Statements, Sends
  <2> QED
    BY <2>1, <2>2, QuietKeeps
<1>4. CASE CountUpload(h)
  <2> PICK c \in Counters : c = "upload"
    BY <1>4, WindowFits DEF CountUpload, Request
  <2> DEFINE to == "upload"
  <2>1. Counts(h, c, "countUpload", "expireUpload", to)
    BY <1>4 DEF CountUpload
  <2>2. /\ {"countUpload", "expireUpload", to} \subseteq Statements \ Sends
        /\ to \notin {"expireIp", "expirePair", "expireOtp", "expireUpload"}
    BY DEF Statements, Sends
  <2>3. \A r \in Request, d \in Counters :
          r.at = "expireUpload" /\ r.first = {} /\ r.email = req[h].email /\ ToExpire(r, d) => d = c
    BY DEF ToExpire
  <2> HIDE DEF to
  <2>4. Incr(c) /\ UNCHANGED lock /\ Moves(h, IF count[c] = 0 THEN {c} ELSE {})
    BY <2>1, <2>2, <2>3, CountsMoves
  <2> QED
    BY <2>4, IncrKeeps
<1>5. CASE ExpireUpload(h)
  <2> PICK c \in Counters : c = "upload"
    BY <1>5, WindowFits DEF ExpireUpload, Request
  <2>1. Expire(c) /\ ToExpire(req[h], c) /\ UNCHANGED <<count, born>>
    BY <1>5 DEF ExpireUpload, Expires, ToExpire, At, history
  <2>2. Moves(h, {})
    BY <1>5, GoMoves DEF ExpireUpload, Expires, At, Statements, Sends
  <2> QED
    BY <2>1, <2>2, ExpireKeeps
<1>6. CASE Fail(h)
  <2>1. UNCHANGED <<count, left, born>>
    BY <1>6 DEF Fail, redis, history
  <2>2. CASE End(h)
    BY <2>1, <2>2, EndMoves, QuietKeeps
  <2>3. CASE req[h].at \in {"countUpload", "expireUpload"} /\ req' = [req EXCEPT ![h].at = "upload", ![h].n = 0]
    <3>1. req' \in [Handlers -> Request] /\ \A g \in Handlers \ {h} : req'[g] = req[g]
      BY <2>3 DEF Request, Statements
    <3>2. /\ req'[h].at = "upload" /\ req'[h].todo = {} /\ req'[h].first = {}
      BY <2>3 DEF Request, SendFits, Sends
    <3>3. Moves(h, {})
      BY <3>1, <3>2 DEF Moves, SendFits, Sends, ToExpire
    <3> QED
      BY <2>1, <3>3, QuietKeeps
  <2>4. CASE req[h].at \in {"cooldown", "resend", "refuse", "ipRequest"} /\ Go(h, "fallback")
    BY <2>1, <2>4, GoMoves, QuietKeeps DEF Statements, Sends
  <2> QED
    BY <1>6, <2>2, <2>3, <2>4 DEF Fail
<1> QED
  BY <1>2, <1>3, <1>4, <1>5, <1>6 DEF UploadStep

\* RecentInv always holds.
LEMMA RecentKept == RecentInv /\ [Next]_vars => RecentInv'
<1> SUFFICES ASSUME RecentInv, [Next]_vars PROVE RecentInv'
  OBVIOUS
<1>1. ASSUME NEW h \in Handlers, BeginLogin(h) \/ BeginCode(h) \/ Upload(h) \/ Step(h)
      PROVE  RecentInv'
  BY <1>1, LoginKeeps, CodeKeeps, UploadKeeps DEF Step
<1>2. CASE UNCHANGED vars
  BY <1>2 DEF vars, redis, history, RecentInv, CountersTyped, EndsInTime
<1>3. QED
  BY <1>1, <1>2, TickKeeps DEF Next

\* Nobody is refused for what he did long ago, for any number of requests,
\* addresses and failures, whatever the limits and windows are: the EXPIRE
\* of a counter follows its first INCR before any time passes, be the key
\* another by then, so that none outlives the window of its first attempt.
THEOREM CountsAreRecent == Spec => []CountIsRecent
<1>1. Init => RecentInv
  BY WindowFits DEF Init, Idle, RecentInv, CountersTyped, Request, Statements, Sends, SendFits, EndsInTime, ToExpire
<1>2. RecentInv /\ [Next]_vars => RecentInv'
  BY RecentKept
<1>3. RecentInv => CountIsRecent
  BY WindowFits DEF RecentInv, CountersTyped, EndsInTime, CountIsRecent
<1>4. QED
  BY <1>1, <1>2, <1>3, PTL DEF Spec

-----------------------------------------------------------------------------
(* Limits *)

\* The counters that are looked at before something is spent, and those of
\* them that are looked at through a lock.
Gates == Counters \ {"upload"}
Locked == {"ip", "otp"} \cup Emails

\* What a request that counter c has let through ...
Passing(r, c) ==
  \/ c = "ip" /\ r.at \in {"find", "pair", "compare"}
  \/ c \in Emails /\ c = r.email /\ r.at = "compare"
  \/ c = "otp" /\ r.at = "enter"
  \/ c = "resend" /\ r.at = "ipRequest"

\* ... has spent, and has yet to count ...
Spending(r, c) ==
  \/ c = "ip" /\ r.at = "countIp"
  \/ c \in Emails /\ c = r.email /\ r.at \in {"countIp", "expireIp", "countPair"}
  \/ c = "otp" /\ r.at = "countOtp"
  \/ c \in r.todo

\* ... and, having counted it as one too many, to lock.
Owing(r, c) ==
  \/ c = "ip" /\ r.n >= MaxFailIp /\ r.at \in {"expireIp", "countPair", "expirePair", "lockIp"}
  \/ c \in Emails /\ c = r.email /\ r.m >= MaxFailEmailIp
     /\ r.at \in {"expirePair", "lockIp", "lockPair"}
  \/ c = "otp" /\ r.n >= MaxOtpFail /\ r.at \in {"expireOtp", "lockOtp"}

Passed(c) == {h \in Handlers : Passing(req[h], c)}
Spenders(c) == {h \in Handlers : Spending(req[h], c)}
Owers(c) == {h \in Handlers : Owing(req[h], c)}

\* Is the EXPIRE of a counter to come?  It then has all of its window.
Timing(c) == \E h \in Handlers : ToExpire(req[h], c)

\* A counter at its limit is locked for as long as it lasts, or about to be.
LockFits(c) ==
  /\ left[c] = Forever => Timing(c)
  /\ left[c] # Forever => left[c] <= TenMinutes
  /\ \/ count[c] < Limit[c] + Cardinality(Owers(c))
     \/ lock[c] >= IF Timing(c) THEN TenMinutes ELSE left[c]

\* What was spent is counted or about to be, and there is room for those who
\* have been let through.
GateFits(c) ==
  /\ spent[c] <= count[c] + Cardinality(Spenders(c))
  /\ spent[c] + Cardinality(Passed(c)) <= Allowed(c)
  /\ c \in Locked => LockFits(c)

\* The uploads that have been counted within the limit.
Taking(r) == r.at \in {"expireUpload", "upload"} /\ r.n <= MaxUploads
Taken == {h \in Handlers : Taking(req[h])}
UploadsFit ==
  /\ spent["upload"] + Cardinality(Taken) <= count["upload"]
  /\ spent["upload"] + Cardinality(Taken) <= MaxUploads

\* Who is asked for a password has an account, and what a request for a code
\* counts on the side are the two counters of such requests.
RequestFits(r) ==
  /\ r.at \in {"pair", "compare", "clearIp", "clearPair", "countPair", "expirePair", "lockPair"}
       => r.email \in Emails
  /\ r.todo \cup r.first \subseteq {"ipRequest", "resend"}

LimitsTyped ==
  /\ lock \in [Locks -> Nat] /\ spent \in [Counters -> Nat]
  /\ \A h \in Handlers : RequestFits(req[h])

LimitInv ==
  /\ RecentInv /\ faults \in Nat
  /\ faults = 0 => LimitsTyped /\ (\A c \in Gates : GateFits(c)) /\ UploadsFit

-----------------------------------------------------------------------------
\* The limits are numbers, and so is what is allowed.
LEMMA LimitFits ==
  /\ \A c \in Counters : Limit[c] \in Nat \ {0}
  /\ Limit["ip"] = MaxFailIp /\ Limit["otp"] = MaxOtpFail
  /\ Limit["resend"] = MaxResend /\ Limit["ipRequest"] = MaxIpRequest
  /\ \A e \in Emails : Limit[e] = MaxFailEmailIp
  /\ Gates = {"ip", "otp", "resend", "ipRequest"} \cup Emails
  /\ Locked \subseteq Gates /\ Locked \subseteq Locks
  /\ "cooldown" \notin Locked /\ "upload" \notin Emails
<1>1. \A c \in Counters :
        Limit[c] \in {MaxFailIp, MaxFailEmailIp, MaxOtpFail, MaxResend, MaxIpRequest, MaxUploads}
  BY DEF Limit, Counters
<1>2. /\ Limit["ip"] = MaxFailIp /\ Limit["otp"] = MaxOtpFail
      /\ Limit["resend"] = MaxResend /\ Limit["ipRequest"] = MaxIpRequest
      /\ \A e \in Emails : Limit[e] = MaxFailEmailIp
  BY NamesAssumption DEF Limit, Counters
<1>3. QED
  BY <1>1, <1>2, LimitsAssumption, NamesAssumption DEF Gates, Locked, Locks, Counters

\* Subsets of the requests can be counted.
LEMMA Countable ==
  ASSUME NEW S, S \subseteq Handlers
  PROVE  IsFiniteSet(S) /\ Cardinality(S) \in Nat /\ Cardinality(S) <= Cardinality(Handlers)
  BY HandlersAssumption, FS_Subset, FS_CardinalityType

\* Two sets of requests that differ in one request at most.
LEMMA CardinalityStep ==
  ASSUME NEW h \in Handlers, NEW S, NEW T, S \subseteq Handlers, T \subseteq Handlers,
         \A g \in Handlers \ {h} : g \in T <=> g \in S
  PROVE  /\ (h \in S <=> h \in T) => Cardinality(T) = Cardinality(S)
         /\ h \in T /\ h \notin S => Cardinality(T) = Cardinality(S) + 1
         /\ h \notin T /\ h \in S => Cardinality(T) = Cardinality(S) - 1
<1>1. ASSUME NEW A, NEW B, A \subseteq Handlers, B \subseteq Handlers, h \in B, h \notin A,
             \A g \in Handlers \ {h} : g \in B <=> g \in A
      PROVE  Cardinality(B) = Cardinality(A) + 1
  <2>1. B = A \cup {h}
    BY <1>1
  <2> QED
    BY <1>1, <2>1, Countable, FS_AddElement
<1>2. CASE h \in S <=> h \in T
  <2>1. S = T
    BY <1>2
  <2> QED
    BY <1>2, <2>1
<1>3. CASE h \in T /\ h \notin S
  BY <1>1, <1>3
<1>4. CASE h \notin T /\ h \in S
  <2>1. Cardinality(S) = Cardinality(T) + 1
    BY <1>1, <1>4
  <2> QED
    BY <1>4, <2>1, Countable
<1> QED
  BY <1>2, <1>3, <1>4

\* The step is one of request h alone.
Others(h) == \A g \in Handlers \ {h} : req'[g] = req[g]

\* How it changes the numbers of those who ...
LEMMA PassedStep ==
  ASSUME NEW h \in Handlers, NEW c, Others(h)
  PROVE  /\ Cardinality(Passed(c)) \in Nat /\ Cardinality(Passed(c)') \in Nat
         /\ (Passing(req'[h], c) <=> Passing(req[h], c)) =>
              Cardinality(Passed(c)') = Cardinality(Passed(c))
         /\ ~ Passing(req'[h], c) /\ Passing(req[h], c) =>
              Cardinality(Passed(c)') = Cardinality(Passed(c)) - 1
         /\ Passing(req'[h], c) /\ ~ Passing(req[h], c) =>
              Cardinality(Passed(c)') = Cardinality(Passed(c)) + 1
<1> DEFINE S == Passed(c)
           T == Passed(c)'
<1>1. S \subseteq Handlers /\ T \subseteq Handlers
  BY DEF Passed
<1>2. /\ \A g \in Handlers : g \in S <=> Passing(req[g], c)
      /\ \A g \in Handlers : g \in T <=> Passing(req'[g], c)
  BY DEF Passed
<1>3. \A g \in Handlers \ {h} : g \in T <=> g \in S
  BY <1>2 DEF Others
<1> HIDE DEF S, T
<1>4. /\ ((h \in S <=> h \in T) => Cardinality(T) = Cardinality(S))
      /\ h \in T /\ h \notin S => Cardinality(T) = Cardinality(S) + 1
      /\ h \notin T /\ h \in S => Cardinality(T) = Cardinality(S) - 1
  BY <1>1, <1>3, CardinalityStep
<1>5. Cardinality(S) \in Nat /\ Cardinality(T) \in Nat
  BY <1>1, Countable
<1> QED
  BY <1>2, <1>4, <1>5 DEF S, T

\* ... have to count ...
LEMMA SpentStep ==
  ASSUME NEW h \in Handlers, NEW c, Others(h)
  PROVE  /\ Cardinality(Spenders(c)) \in Nat /\ Cardinality(Spenders(c)') \in Nat
         /\ (Spending(req'[h], c) <=> Spending(req[h], c)) =>
              Cardinality(Spenders(c)') = Cardinality(Spenders(c))
         /\ ~ Spending(req'[h], c) /\ Spending(req[h], c) =>
              Cardinality(Spenders(c)') = Cardinality(Spenders(c)) - 1
         /\ Spending(req'[h], c) /\ ~ Spending(req[h], c) =>
              Cardinality(Spenders(c)') = Cardinality(Spenders(c)) + 1
<1> DEFINE S == Spenders(c)
           T == Spenders(c)'
<1>1. S \subseteq Handlers /\ T \subseteq Handlers
  BY DEF Spenders
<1>2. /\ \A g \in Handlers : g \in S <=> Spending(req[g], c)
      /\ \A g \in Handlers : g \in T <=> Spending(req'[g], c)
  BY DEF Spenders
<1>3. \A g \in Handlers \ {h} : g \in T <=> g \in S
  BY <1>2 DEF Others
<1> HIDE DEF S, T
<1>4. /\ ((h \in S <=> h \in T) => Cardinality(T) = Cardinality(S))
      /\ h \in T /\ h \notin S => Cardinality(T) = Cardinality(S) + 1
      /\ h \notin T /\ h \in S => Cardinality(T) = Cardinality(S) - 1
  BY <1>1, <1>3, CardinalityStep
<1>5. Cardinality(S) \in Nat /\ Cardinality(T) \in Nat
  BY <1>1, Countable
<1> QED
  BY <1>2, <1>4, <1>5 DEF S, T

\* ... have to lock ...
LEMMA OwedStep ==
  ASSUME NEW h \in Handlers, NEW c, Others(h)
  PROVE  /\ Cardinality(Owers(c)) \in Nat /\ Cardinality(Owers(c)') \in Nat
         /\ (Owing(req'[h], c) <=> Owing(req[h], c)) =>
              Cardinality(Owers(c)') = Cardinality(Owers(c))
         /\ ~ Owing(req'[h], c) /\ Owing(req[h], c) =>
              Cardinality(Owers(c)') = Cardinality(Owers(c)) - 1
         /\ Owing(req'[h], c) /\ ~ Owing(req[h], c) =>
              Cardinality(Owers(c)') = Cardinality(Owers(c)) + 1
<1> DEFINE S == Owers(c)
           T == Owers(c)'
<1>1. S \subseteq Handlers /\ T \subseteq Handlers
  BY DEF Owers
<1>2. /\ \A g \in Handlers : g \in S <=> Owing(req[g], c)
      /\ \A g \in Handlers : g \in T <=> Owing(req'[g], c)
  BY DEF Owers
<1>3. \A g \in Handlers \ {h} : g \in T <=> g \in S
  BY <1>2 DEF Others
<1> HIDE DEF S, T
<1>4. /\ ((h \in S <=> h \in T) => Cardinality(T) = Cardinality(S))
      /\ h \in T /\ h \notin S => Cardinality(T) = Cardinality(S) + 1
      /\ h \notin T /\ h \in S => Cardinality(T) = Cardinality(S) - 1
  BY <1>1, <1>3, CardinalityStep
<1>5. Cardinality(S) \in Nat /\ Cardinality(T) \in Nat
  BY <1>1, Countable
<1> QED
  BY <1>2, <1>4, <1>5 DEF S, T

-----------------------------------------------------------------------------
(* What a step of request h may mean to a counter *)

Same(c) == count'[c] = count[c] /\ spent'[c] = spent[c] /\ left'[c] = left[c]
SameLock(c) == c \in Locked => lock'[c] = lock[c]
SameRole(h, c) ==
  /\ Spending(req'[h], c) <=> Spending(req[h], c)
  /\ Owing(req'[h], c) <=> Owing(req[h], c)
  /\ ToExpire(req'[h], c) <=> ToExpire(req[h], c)
NoneOf(h, c) == ~ Passing(req[h], c) /\ ~ Spending(req[h], c) /\ ~ Owing(req[h], c)

\* Nothing, or the end of what was let through.
Rests(h, c) ==
  /\ Same(c) /\ SameLock(c) /\ SameRole(h, c)
  /\ Passing(req'[h], c) => Passing(req[h], c)

\* The request finds no lock, or a counter below its limit.
Passes(h, c) ==
  /\ Same(c) /\ SameLock(c) /\ SameRole(h, c) /\ NoneOf(h, c)
  /\ req'[h] # Idle
  /\ \/ c \in Locked /\ lock[c] = 0
     \/ c = "resend" /\ count[c] < Limit[c]

\* It tries what it was let through for; a request for a code from an IP is
\* let through when it spends.
Tries(h, c) ==
  /\ count'[c] = count[c] /\ left'[c] = left[c] /\ SameLock(c)
  /\ spent'[c] = spent[c] + 1
  /\ ~ Spending(req[h], c) /\ Spending(req'[h], c) /\ ~ Passing(req'[h], c)
  /\ Owing(req'[h], c) <=> Owing(req[h], c)
  /\ ToExpire(req'[h], c) <=> ToExpire(req[h], c)
  /\ \/ Passing(req[h], c)
     \/ c = "ipRequest" /\ count[c] <= Limit[c] /\ NoneOf(h, c) /\ req'[h] # Idle

\* INCR
Adds(h, c) ==
  /\ count'[c] = count[c] + 1 /\ spent'[c] = spent[c] /\ SameLock(c)
  /\ left'[c] = IF count[c] = 0 THEN Forever ELSE left[c]
  /\ Spending(req[h], c) /\ ~ Spending(req'[h], c) /\ ~ Passing(req'[h], c)
  /\ ToExpire(req'[h], c) <=> ToExpire(req[h], c) \/ count[c] = 0
  /\ c \in Locked => /\ ~ Owing(req[h], c)
                     /\ Owing(req'[h], c) <=> count'[c] >= Limit[c]

\* EXPIRE
Times(h, c) ==
  /\ count'[c] = count[c] /\ spent'[c] = spent[c] /\ SameLock(c)
  /\ left'[c] = IF count[c] = 0 THEN 0 ELSE Window[c]
  /\ ToExpire(req[h], c)
  /\ Passing(req'[h], c) => Passing(req[h], c)
  /\ Spending(req'[h], c) <=> Spending(req[h], c)
  /\ Owing(req'[h], c) <=> Owing(req[h], c)

\* SET of a lock that lasts at least as long as the counter.
Bars(h, c) ==
  /\ Same(c) /\ c \in Locked /\ lock'[c] >= TenMinutes /\ lock'[c] \in Nat
  /\ Passing(req'[h], c) => Passing(req[h], c)
  /\ Spending(req'[h], c) <=> Spending(req[h], c)
  /\ ToExpire(req'[h], c) <=> ToExpire(req[h], c)

\* DEL
Clears(h, c) ==
  /\ count'[c] = 0 /\ spent'[c] = 0 /\ left'[c] = 0
  /\ Passing(req'[h], c) => Passing(req[h], c)

Fits(h, c) ==
  \/ Rests(h, c) \/ Passes(h, c) \/ Tries(h, c) \/ Adds(h, c)
  \/ Times(h, c) \/ Bars(h, c) \/ Clears(h, c)

\* Requests that come one at a time find nobody on the way.
OneAtATime(h) ==
  /\ overlapped => overlapped'
  /\ ~ overlapped' => req'[h] = Idle \/ \A g \in Handlers \ {h} : req[g] = Idle

\* What is known of a counter, in numbers.
LEMMA GateTyped ==
  ASSUME RecentInv, LimitsTyped, NEW c \in Gates
  PROVE  /\ c \in Counters /\ count[c] \in Nat /\ spent[c] \in Nat /\ left[c] \in 0..Forever
         /\ left[c] = 0 <=> count[c] = 0
         /\ c \in Locked => lock[c] \in Nat /\ Window[c] = TenMinutes
         /\ Limit[c] \in Nat \ {0} /\ TenMinutes \in Nat /\ 0 < TenMinutes
         /\ TenMinutes < Forever
         /\ Forever \in Nat
<1>1. c \in Counters /\ Limit[c] \in Nat \ {0} /\ (c \in Locked => c \in Locks)
  BY LimitFits DEF Gates
<1>2. c \in Locked => Window[c] = TenMinutes
  BY <1>1, NamesAssumption DEF Window, Locked
<1>3. TenMinutes \in Nat /\ 0 < TenMinutes /\ TenMinutes < Forever /\ Forever \in Nat
  BY TimesAssumption DEF Forever
<1> QED
  BY <1>1, <1>2, <1>3 DEF RecentInv, CountersTyped, LimitsTyped

\* How many a counter lets through.
LEMMA AllowedFits ==
  ASSUME NEW c \in Gates, NEW h \in Handlers, OneAtATime(h)
  PROVE  /\ Cardinality(Handlers) \in Nat \ {0}
         /\ Allowed(c) = Limit[c] + (IF c = "ipRequest" THEN 1 ELSE 0)
                           + (IF overlapped THEN Cardinality(Handlers) - 1 ELSE 0)
         /\ Allowed(c)' = Limit[c] + (IF c = "ipRequest" THEN 1 ELSE 0)
                            + (IF overlapped' THEN Cardinality(Handlers) - 1 ELSE 0)
         /\ Allowed(c) \in Nat /\ Allowed(c)' \in Nat /\ Allowed(c) <= Allowed(c)'
<1>1. IsFiniteSet(Handlers) /\ Cardinality(Handlers) \in Nat /\ Cardinality(Handlers) # 0
  BY HandlersAssumption, FS_CardinalityType, FS_EmptySet
<1>2. Limit[c] \in Nat /\ c # "upload"
  BY LimitFits DEF Gates
<1> QED
  BY <1>1, <1>2 DEF Allowed, OneAtATime

\* Nobody is let through, spends and owes at once.
LEMMA RolesDiffer ==
  ASSUME NEW r \in Request, SendFits(r), NEW c \in Gates
  PROVE  /\ ~ (Passing(r, c) /\ Spending(r, c)) /\ ~ (Passing(r, c) /\ Owing(r, c))
         /\ ~ (Spending(r, c) /\ Owing(r, c))
  BY NamesAssumption DEF SendFits, Sends, Passing, Spending, Owing, Gates

\* Sets that have nothing in common.
LEMMA DisjointUnion ==
  ASSUME NEW A, NEW B, IsFiniteSet(A), IsFiniteSet(B), A \cap B = {}
  PROVE  Cardinality(A \cup B) = Cardinality(A) + Cardinality(B)
<1>1. /\ Cardinality(A \cup B) = Cardinality(A) + Cardinality(B) - Cardinality(A \cap B)
      /\ Cardinality(A) \in Nat /\ Cardinality(B) \in Nat
  BY FS_Union, FS_CardinalityType
<1>2. Cardinality(A \cap B) = 0
  BY FS_EmptySet
<1> QED
  BY <1>1, <1>2

\* Beside a request that has no part in a counter there is room for those who
\* have one.
LEMMA OthersCounted ==
  ASSUME RecentInv, NEW c \in Gates, NEW h \in Handlers, NoneOf(h, c)
  PROVE  Cardinality(Passed(c)) + Cardinality(Spenders(c)) + Cardinality(Owers(c))
           <= Cardinality(Handlers) - 1
<1> DEFINE P == Passed(c)
           S == Spenders(c)
           O == Owers(c)
           H == Handlers \ {h}
<1>1. /\ P \subseteq H /\ S \subseteq H /\ O \subseteq H
  BY DEF NoneOf, Passed, Spenders, Owers
<1>2. P \cap S = {} /\ (P \cup S) \cap O = {}
  BY RolesDiffer DEF Passed, Spenders, Owers, RecentInv, CountersTyped
<1> HIDE DEF P, S, O
<1>3. IsFiniteSet(H) /\ Cardinality(H) = Cardinality(Handlers) - 1 /\ Cardinality(H) \in Nat
  BY HandlersAssumption, FS_RemoveElement, FS_CardinalityType
<1>4. IsFiniteSet(P) /\ IsFiniteSet(S) /\ IsFiniteSet(O) /\ IsFiniteSet(P \cup S \cup O)
  BY <1>1, Countable
<1>5. Cardinality(P \cup S) = Cardinality(P) + Cardinality(S)
  BY <1>2, <1>4, DisjointUnion
<1>6. Cardinality((P \cup S) \cup O) = Cardinality(P \cup S) + Cardinality(O)
  <2>1. IsFiniteSet(P \cup S)
    BY <1>4, FS_Union
  <2> QED
    BY <1>2, <1>4, <2>1, DisjointUnion
<1>7. Cardinality((P \cup S) \cup O) <= Cardinality(H)
  BY <1>1, <1>3, FS_Subset
<1> QED
  BY <1>3, <1>5, <1>6, <1>7 DEF P, S, O

\* Whatever a step means to a counter, it is counted and locked as before.
LEMMA GateKept ==
  ASSUME RecentInv, LimitsTyped, NEW h \in Handlers, Others(h), OneAtATime(h),
         NEW c \in Gates, GateFits(c), Fits(h, c)
  PROVE  GateFits(c)'
<1> DEFINE p == Cardinality(Passed(c))
           s == Cardinality(Spenders(c))
           o == Cardinality(Owers(c))
           p1 == Cardinality(Passed(c)')
           s1 == Cardinality(Spenders(c)')
           o1 == Cardinality(Owers(c)')
           all == Cardinality(Handlers)
<1>1. /\ {p, s, o, p1, s1, o1, all} \subseteq Nat /\ all > 0
      /\ (Passing(req'[h], c) <=> Passing(req[h], c)) => p1 = p
      /\ ~ Passing(req'[h], c) /\ Passing(req[h], c) => p1 = p - 1
      /\ Passing(req'[h], c) /\ ~ Passing(req[h], c) => p1 = p + 1
      /\ (Spending(req'[h], c) <=> Spending(req[h], c)) => s1 = s
      /\ ~ Spending(req'[h], c) /\ Spending(req[h], c) => s1 = s - 1
      /\ Spending(req'[h], c) /\ ~ Spending(req[h], c) => s1 = s + 1
      /\ (Owing(req'[h], c) <=> Owing(req[h], c)) => o1 = o
      /\ ~ Owing(req'[h], c) /\ Owing(req[h], c) => o1 = o - 1
      /\ Owing(req'[h], c) /\ ~ Owing(req[h], c) => o1 = o + 1
  BY PassedStep, SpentStep, OwedStep, AllowedFits
<1>2. NoneOf(h, c) => p + s + o <= all - 1
  BY OthersCounted
<1>3. ASSUME NoneOf(h, c), req'[h] # Idle, ~ overlapped' PROVE p = 0 /\ s = 0 /\ o = 0
  <2>1. \A g \in Handlers \ {h} : req[g] = Idle
    BY <1>3 DEF OneAtATime
  <2>2. Passed(c) = {} /\ Spenders(c) = {} /\ Owers(c) = {}
    BY <1>3, <2>1 DEF NoneOf, Passed, Spenders, Owers, Passing, Spending, Owing, Idle
  <2> QED
    BY <2>2, FS_EmptySet
<1>4. /\ spent[c] <= count[c] + s /\ spent[c] + p <= Allowed(c)
      /\ c \in Locked => LockFits(c)
  BY DEF GateFits
<1>5. /\ (ToExpire(req'[h], c) <=> ToExpire(req[h], c)) => (Timing(c)' <=> Timing(c))
      /\ ToExpire(req'[h], c) => Timing(c)'
      /\ ToExpire(req[h], c) => Timing(c)
      /\ ~ ToExpire(req'[h], c) => (Timing(c)' => Timing(c))
  BY DEF Timing, Others
<1>6. /\ spent'[c] <= count'[c] + s1 /\ spent'[c] + p1 <= Allowed(c)'
      /\ c \in Locked => LockFits(c)'
      => GateFits(c)'
  BY DEF GateFits
<1>7. /\ c \in Locked => /\ left[c] = Forever => Timing(c)
                         /\ left[c] # Forever => left[c] <= TenMinutes
                         /\ \/ count[c] < Limit[c] + o
                            \/ lock[c] >= IF Timing(c) THEN TenMinutes ELSE left[c]
      /\ /\ left'[c] = Forever => Timing(c)'
         /\ left'[c] # Forever => left'[c] <= TenMinutes
         /\ \/ count'[c] < Limit[c] + o1
            \/ lock'[c] >= IF Timing(c)' THEN TenMinutes ELSE left'[c]
         => LockFits(c)'
  BY <1>4 DEF LockFits
<1>8. Allowed(c) \in Nat /\ Allowed(c)' \in Nat /\ Allowed(c) <= Allowed(c)'
  BY AllowedFits
<1> HIDE DEF p, s, o, p1, s1, o1, all
<1>9. /\ count[c] \in Nat /\ spent[c] \in Nat /\ left[c] \in 0..Forever
      /\ left[c] = 0 <=> count[c] = 0
      /\ c \in Locked => lock[c] \in Nat /\ Window[c] = TenMinutes
      /\ Limit[c] \in Nat \ {0} /\ TenMinutes \in Nat /\ 0 < TenMinutes
      /\ TenMinutes < Forever
      /\ Forever \in Nat
  BY GateTyped
<1>10. CASE Rests(h, c)
  <2>1. spent'[c] <= count'[c] + s1 /\ spent'[c] + p1 <= Allowed(c)'
    BY <1>1, <1>4, <1>8, <1>9, <1>10 DEF Rests, Same, SameRole
  <2>2. ASSUME c \in Locked PROVE LockFits(c)'
    BY <1>1, <1>5, <1>7, <1>9, <1>10, <2>2 DEF Rests, Same, SameLock, SameRole
  <2> QED
    BY <1>6, <2>1, <2>2
<1>11. CASE Passes(h, c)
  <2>1. spent[c] + p1 <= Allowed(c)'
    <3>1. count[c] < Limit[c] + o
      BY <1>1, <1>7, <1>9, <1>11 DEF Passes
    <3>2. NoneOf(h, c) /\ req'[h] # Idle
      BY <1>11 DEF Passes
    <3>3. p1 <= p + 1
      BY <1>1
    <3>4. /\ overlapped' => Allowed(c)' >= Limit[c] + all - 1
          /\ Allowed(c)' >= Limit[c]
      BY <1>1, <1>9, AllowedFits DEF all
    <3>5. CASE overlapped'
      BY <1>1, <1>2, <1>4, <1>8, <1>9, <3>1, <3>2, <3>3, <3>4, <3>5
    <3>6. CASE ~ overlapped'
      <4>1. p = 0 /\ s = 0 /\ o = 0
        BY <1>3, <3>2, <3>6
      <4> QED
        BY <1>1, <1>4, <1>8, <1>9, <3>1, <3>3, <3>4, <4>1
    <3> QED
      BY <3>5, <3>6
  <2>2. spent'[c] <= count'[c] + s1 /\ spent'[c] = spent[c]
    BY <1>1, <1>4, <1>9, <1>11 DEF Passes, Same, SameRole
  <2>3. ASSUME c \in Locked PROVE LockFits(c)'
    BY <1>1, <1>5, <1>7, <1>9, <1>11, <2>3 DEF Passes, Same, SameLock, SameRole
  <2> QED
    BY <1>6, <2>1, <2>2, <2>3
<1>12. CASE Tries(h, c)
  <2>1. spent'[c] + p1 <= Allowed(c)'
    <3>1. CASE Passing(req[h], c)
      BY <1>1, <1>4, <1>8, <1>9, <1>12, <3>1 DEF Tries
    <3>2. CASE ~ Passing(req[h], c)
      <4>1. /\ c = "ipRequest" /\ count[c] <= Limit[c] /\ NoneOf(h, c) /\ req'[h] # Idle
            /\ spent'[c] = spent[c] + 1 /\ p1 = p
        BY <1>1, <1>12, <3>2 DEF Tries
      <4>2. /\ overlapped' => Allowed(c)' >= Limit[c] + 1 + all - 1
            /\ Allowed(c)' >= Limit[c] + 1
        BY <1>1, <1>9, <4>1, AllowedFits DEF all
      <4>3. CASE overlapped'
        BY <1>1, <1>2, <1>4, <1>8, <1>9, <4>1, <4>2, <4>3
      <4>4. CASE ~ overlapped'
        <5>1. p = 0 /\ s = 0 /\ o = 0
          BY <1>3, <4>1, <4>4
        <5> QED
          BY <1>1, <1>4, <1>8, <1>9, <4>1, <4>2, <5>1
      <4> QED
        BY <4>3, <4>4
    <3> QED
      BY <3>1, <3>2
  <2>2. spent'[c] <= count'[c] + s1
    BY <1>1, <1>4, <1>9, <1>12 DEF Tries
  <2>3. ASSUME c \in Locked PROVE LockFits(c)'
    BY <1>1, <1>5, <1>7, <1>9, <1>12, <2>3 DEF Tries, SameLock
  <2> QED
    BY <1>6, <2>1, <2>2, <2>3
<1>13. CASE Adds(h, c)
  <2>1. spent'[c] <= count'[c] + s1 /\ spent'[c] + p1 <= Allowed(c)'
    BY <1>1, <1>4, <1>8, <1>9, <1>13 DEF Adds
  <2>2. ASSUME c \in Locked PROVE LockFits(c)'
    <3>1. /\ count'[c] = count[c] + 1 /\ lock'[c] = lock[c]
          /\ left'[c] = IF count[c] = 0 THEN Forever ELSE left[c]
          /\ count[c] = 0 => Timing(c)'
          /\ count[c] # 0 => (Timing(c)' <=> Timing(c))
          /\ ~ Owing(req[h], c) /\ (Owing(req'[h], c) <=> count'[c] >= Limit[c])
      BY <1>5, <1>13, <2>2 DEF Adds, SameLock
    <3>2. o1 >= o /\ (count'[c] >= Limit[c] => o1 = o + 1)
      BY <1>1, <3>1
    <3> QED
      BY <1>1, <1>7, <1>9, <2>2, <3>1, <3>2
  <2> QED
    BY <1>6, <2>1, <2>2
<1>14. CASE Times(h, c)
  <2>1. spent'[c] <= count'[c] + s1 /\ spent'[c] + p1 <= Allowed(c)'
    BY <1>1, <1>4, <1>8, <1>9, <1>14 DEF Times
  <2>2. ASSUME c \in Locked PROVE LockFits(c)'
    BY <1>1, <1>5, <1>7, <1>9, <1>14, <2>2 DEF Times, SameLock
  <2> QED
    BY <1>6, <2>1, <2>2
<1>15. CASE Bars(h, c)
  <2>1. spent'[c] <= count'[c] + s1 /\ spent'[c] + p1 <= Allowed(c)'
    BY <1>1, <1>4, <1>8, <1>9, <1>15 DEF Bars, Same
  <2>2. LockFits(c)'
    BY <1>1, <1>5, <1>7, <1>9, <1>15 DEF Bars, Same
  <2> QED
    BY <1>6, <2>1, <2>2
<1>16. CASE Clears(h, c)
  <2>1. spent'[c] <= count'[c] + s1 /\ spent'[c] + p1 <= Allowed(c)'
    BY <1>1, <1>4, <1>8, <1>9, <1>16 DEF Clears
  <2>2. ASSUME c \in Locked PROVE LockFits(c)'
    BY <1>1, <1>5, <1>7, <1>9, <1>16, <2>2 DEF Clears
  <2> QED
    BY <1>6, <2>1, <2>2
<1> QED
  BY <1>10, <1>11, <1>12, <1>13, <1>14, <1>15, <1>16 DEF Fits

-----------------------------------------------------------------------------
(* What the steps mean to the counters *)

\* The step leaves uploads alone.
NoUpload(h) ==
  /\ count'["upload"] = count["upload"] /\ spent'["upload"] = spent["upload"]
  /\ Taking(req'[h]) <=> Taking(req[h])

\* A step of request h that fits all counters but that of uploads.
StepFits(h) ==
  /\ Others(h)
  /\ lock' \in [Locks -> Nat] /\ spent' \in [Counters -> Nat] /\ RequestFits(req'[h])
  /\ \A c \in Gates : Fits(h, c)

\* Only the statement of the request changes.
Becomes(h, step) ==
  /\ Others(h)
  /\ req'[h].at = step /\ req'[h].email = req[h].email
  /\ req'[h].n = req[h].n /\ req'[h].m = req[h].m
  /\ req'[h].todo = req[h].todo /\ req'[h].first = req[h].first

\* A step to another statement.
LEMMA GoBecomes ==
  ASSUME RecentInv, NEW h \in Handlers, NEW step, Go(h, step)
  PROVE  Becomes(h, step) /\ (step # "idle" => req'[h] # Idle)
<1>1. Becomes(h, step)
  BY DEF RecentInv, CountersTyped, Request, Go, Becomes, Others
<1>2. Idle.at = "idle"
  BY DEF Idle
<1> QED
  BY <1>1, <1>2 DEF Becomes

\* The end of a request.
LEMMA EndFits ==
  ASSUME RecentInv, NEW h \in Handlers, End(h)
  PROVE  /\ Others(h) /\ req'[h] = Idle /\ RequestFits(req'[h]) /\ ~ Taking(req'[h])
         /\ \A c : ~ Passing(req'[h], c) /\ ~ Spending(req'[h], c) /\ ~ Owing(req'[h], c)
                   /\ ~ ToExpire(req'[h], c)
  BY DEF RecentInv, CountersTyped, End, Others, Idle, RequestFits, Taking,
    Passing, Spending, Owing, ToExpire

\* What Spend does.
LEMMA SpendFits ==
  ASSUME LimitsTyped, NEW cs, Spend(cs)
  PROVE  /\ spent' \in [Counters -> Nat]
         /\ \A c \in Counters : c \in cs => spent'[c] = spent[c] + 1
         /\ \A c \in Counters : c \notin cs => spent'[c] = spent[c]
  BY DEF LimitsTyped, Spend

\* An INCR.
LEMMA CountsFits ==
  ASSUME RecentInv, NEW h \in Handlers, NEW c \in Counters, NEW from, NEW mid, NEW to,
         Counts(h, c, from, mid, to)
  PROVE  /\ Others(h) /\ req[h].at = from
         /\ req'[h].at = IF count[c] = 0 THEN mid ELSE to
         /\ req'[h].email = req[h].email
         /\ req'[h].todo = req[h].todo /\ req'[h].first = req[h].first
         /\ c \in Emails => req'[h].n = req[h].n /\ req'[h].m = count[c] + 1
         /\ c \notin Emails => req'[h].m = req[h].m /\ req'[h].n = count[c] + 1
         /\ count'[c] = count[c] + 1
         /\ left'[c] = IF count[c] = 0 THEN Forever ELSE left[c]
         /\ \A d \in Counters \ {c} : count'[d] = count[d] /\ left'[d] = left[d]
         /\ UNCHANGED <<lock, spent>>
<1>1. req \in [Handlers -> Request] /\ count \in [Counters -> Nat] /\ left \in [Counters -> 0..Forever]
  BY DEF RecentInv, CountersTyped
<1>2. /\ count'[c] = count[c] + 1 /\ (count'[c] = 1 <=> count[c] = 0)
      /\ left'[c] = IF count[c] = 0 THEN Forever ELSE left[c]
      /\ \A d \in Counters \ {c} : count'[d] = count[d] /\ left'[d] = left[d]
  BY <1>1 DEF Counts, Incr
<1>3. /\ req[h].at = from /\ UNCHANGED <<lock, spent>>
      /\ req' = [req EXCEPT ![h].at = IF count[c] = 0 THEN mid ELSE to,
                   ![h].n = IF c \in Emails THEN @ ELSE count[c] + 1,
                   ![h].m = IF c \in Emails THEN count[c] + 1 ELSE @]
  BY <1>2 DEF Counts, At
<1>4. Others(h)
  BY <1>1, <1>3 DEF Others
<1>5. req'[h] = [req[h] EXCEPT !.at = IF count[c] = 0 THEN mid ELSE to,
                   !.n = IF c \in Emails THEN req[h].n ELSE count[c] + 1,
                   !.m = IF c \in Emails THEN count[c] + 1 ELSE req[h].m]
  BY <1>1, <1>3
<1> QED
  BY <1>1, <1>2, <1>3, <1>4, <1>5 DEF Request

\* An EXPIRE.
LEMMA ExpireFits ==
  ASSUME RecentInv, NEW c \in Counters, Expire(c)
  PROVE  /\ left'[c] = IF count[c] = 0 THEN 0 ELSE Window[c]
         /\ \A d \in Counters \ {c} : left'[d] = left[d]
  BY DEF RecentInv, CountersTyped, Expire

\* A DEL.
LEMMA DelFits ==
  ASSUME RecentInv, LimitsTyped, NEW c \in Counters, Del(c)
  PROVE  /\ count'[c] = 0 /\ left'[c] = 0 /\ spent'[c] = 0
         /\ spent' \in [Counters -> Nat]
         /\ \A d \in Counters \ {c} : count'[d] = count[d] /\ left'[d] = left[d]
              /\ spent'[d] = spent[d]
  BY DEF RecentInv, CountersTyped, LimitsTyped, Del

\* A SET.
LEMMA SetFits ==
  ASSUME LimitsTyped, NEW l \in Locks, NEW ttl \in Nat, Set(l, ttl)
  PROVE  /\ lock' \in [Locks -> Nat] /\ lock'[l] = ttl
         /\ \A k \in Locks \ {l} : lock'[k] = lock[k]
  BY DEF LimitsTyped, Set

\* The steps of a login.
LEMMA LoginFits ==
  ASSUME RecentInv, LimitsTyped, NEW h \in Handlers,
         BeginLogin(h) \/ LoginStep(h), UNCHANGED faults,
         faults \in Nat
  PROVE  StepFits(h) /\ NoUpload(h)
<1>1. /\ req[h] \in Request /\ SendFits(req[h]) /\ RequestFits(req[h])
      /\ lock \in [Locks -> Nat] /\ spent \in [Counters -> Nat]
      /\ count \in [Counters -> Nat]
      /\ req \in [Handlers -> Request]
      /\ req[h].email \in Emails \cup {Unknown} /\ req[h].n \in Nat /\ req[h].m \in Nat
      /\ MaxFailIp \in Nat /\ MaxFailEmailIp \in Nat
  BY LimitsAssumption DEF RecentInv, CountersTyped, LimitsTyped, Request
<1>2. faults + 1 # faults
  OBVIOUS
<1>3. Gates = {"ip", "otp", "resend", "ipRequest"} \cup Emails /\ Gates \subseteq Counters
      /\ "upload" \in Counters /\ "upload" \notin Gates /\ Locked \subseteq Locks
      /\ Locked = {"ip", "otp"} \cup Emails
  BY LimitFits DEF Gates, Counters, Locked
<1>4. ASSUME NEW e \in Emails \cup {Unknown}, Login(h, e) PROVE StepFits(h) /\ NoUpload(h)
  <2>1. /\ req[h] = Idle /\ lock["ip"] = 0
        /\ UNCHANGED <<count, left, lock, spent>>
        /\ req' = [req EXCEPT ![h].at = "find", ![h].email = e]
    BY <1>2, <1>4 DEF Login, Ready, Fault, redis, history
  <2>2. /\ Others(h) /\ req'[h].at = "find" /\ req'[h].todo = {} /\ req'[h].first = {}
        /\ req[h].at = "idle" /\ req[h].todo = {} /\ req[h].first = {}
    BY <1>1, <2>1 DEF Idle, Others, Request
  <2>3. /\ RequestFits(req'[h]) /\ ~ Taking(req'[h]) /\ ~ Taking(req[h])
    BY <2>2 DEF RequestFits, Taking
  <2>5. req'[h] # Idle
    BY <2>1, <2>2
  <2>4. ASSUME NEW c \in Gates PROVE Fits(h, c)
    <3>1. Same(c) /\ SameLock(c) /\ SameRole(h, c) /\ NoneOf(h, c)
      BY <2>1, <2>2 DEF Same, SameLock, SameRole, NoneOf, Passing, Spending, Owing, ToExpire
    <3>2. CASE c = "ip"
      BY <2>1, <2>5, <3>1, <3>2 DEF Fits, Passes, Locked
    <3>3. CASE c # "ip"
      BY <2>2, <3>1, <3>3 DEF Fits, Rests, Passing
    <3> QED
      BY <3>2, <3>3
  <2> QED
    BY <1>1, <2>1, <2>2, <2>3, <2>4 DEF StepFits, NoUpload
<1>5. CASE FindUser(h)
  <2>1. CASE req[h].email = Unknown
    <3>1. /\ Becomes(h, "countIp") /\ req[h].at = "find" /\ req[h].todo = {}
          /\ req[h].first = {}
          /\ req[h].email = Unknown
          /\ UNCHANGED <<count, left, lock>>
          /\ spent' \in [Counters -> Nat]
          /\ \A c \in Counters : c \in {"ip"} => spent'[c] = spent[c] + 1
          /\ \A c \in Counters : c \notin {"ip"} => spent'[c] = spent[c]
      BY <1>1, <1>2, <1>3, <1>5, <2>1, GoBecomes, SpendFits DEF FindUser, At, redis,
        SendFits, Sends, Request
    <3>2. /\ Others(h) /\ RequestFits(req'[h]) /\ (Taking(req'[h]) <=> Taking(req[h]))
          /\ lock' \in [Locks -> Nat] /\ spent' \in [Counters -> Nat]
          /\ count'["upload"] = count["upload"] /\ spent'["upload"] = spent["upload"]
      BY <1>1, <1>3, <3>1 DEF Becomes, RequestFits, Taking
    <3>3. ASSUME NEW c \in Gates PROVE Fits(h, c)
      <4>1. CASE c = "ip"
        BY <1>1, <1>3, <3>1, <4>1, NamesAssumption DEF Fits, Tries, Same, SameLock,
          SameRole, NoneOf, Passing, Spending, Owing, ToExpire, Becomes
      <4>2. CASE c # "ip"
        BY <1>1, <1>3, <3>1, <4>2, NamesAssumption DEF Fits, Rests, Same, SameLock,
          SameRole, NoneOf, Passing, Spending, Owing, ToExpire, Becomes
      <4> QED
        BY <4>1, <4>2, <1>3
    <3> QED
      BY <3>2, <3>3 DEF StepFits, NoUpload
  <2>2. CASE req[h].email # Unknown
    <3>1. /\ Becomes(h, "pair") /\ req[h].at = "find" /\ req[h].todo = {}
          /\ req[h].first = {}
          /\ UNCHANGED <<count, left, lock, spent>>
          /\ req[h].email \in Emails
      BY <1>1, <1>2, <1>3, <1>5, <2>2, GoBecomes DEF FindUser, At, redis, SendFits, Sends,
        Request
    <3>2. /\ Others(h) /\ RequestFits(req'[h]) /\ (Taking(req'[h]) <=> Taking(req[h]))
          /\ lock' \in [Locks -> Nat] /\ spent' \in [Counters -> Nat]
          /\ count'["upload"] = count["upload"] /\ spent'["upload"] = spent["upload"]
      BY <1>1, <1>3, <3>1 DEF Becomes, RequestFits, Taking
    <3>3. ASSUME NEW c \in Gates PROVE Fits(h, c)
      BY <1>1, <1>3, <3>1, NamesAssumption DEF Fits, Rests, Same, SameLock, SameRole,
        NoneOf, Passing, Spending, Owing, ToExpire, Becomes
    <3> QED
      BY <3>2, <3>3 DEF StepFits, NoUpload
  <2> QED
    BY <1>2, <1>5, <2>1, <2>2 DEF FindUser
<1>6. CASE CheckPair(h)
  <2>1. CASE lock[req[h].email] = 0 /\ Go(h, "compare")
    <3>1. /\ Becomes(h, "compare") /\ req[h].at = "pair" /\ req[h].todo = {}
          /\ req[h].first = {}
          /\ UNCHANGED <<count, left, lock, spent>>
          /\ req[h].email \in Emails
          /\ lock[req[h].email] = 0
          /\ req'[h] # Idle
      BY <1>1, <1>2, <1>3, <1>6, <2>1, GoBecomes DEF CheckPair, At, redis, history,
        SendFits, Sends, RequestFits
    <3>2. /\ Others(h) /\ RequestFits(req'[h]) /\ (Taking(req'[h]) <=> Taking(req[h]))
          /\ lock' \in [Locks -> Nat] /\ spent' \in [Counters -> Nat]
          /\ count'["upload"] = count["upload"] /\ spent'["upload"] = spent["upload"]
      BY <1>1, <1>3, <3>1 DEF Becomes, RequestFits, Taking
    <3>3. ASSUME NEW c \in Gates PROVE Fits(h, c)
      <4>1. CASE c = req[h].email
        BY <1>1, <1>3, <3>1, <4>1, NamesAssumption DEF Fits, Passes, Same, SameLock,
          SameRole, NoneOf, Passing, Spending, Owing, ToExpire, Becomes
      <4>2. CASE c # req[h].email
        BY <1>1, <1>3, <3>1, <4>2, NamesAssumption DEF Fits, Rests, Same, SameLock,
          SameRole, NoneOf, Passing, Spending, Owing, ToExpire, Becomes
      <4> QED
        BY <4>1, <4>2, <1>3
    <3> QED
      BY <3>2, <3>3 DEF StepFits, NoUpload
  <2>2. CASE End(h)
    <3>1. /\ Others(h) /\ req'[h] = Idle /\ RequestFits(req'[h]) /\ ~ Taking(req'[h])
          /\ req[h].at = "pair"
          /\ req[h].todo = {} /\ req[h].first = {}
          /\ \A c : ~ Passing(req'[h], c) /\ ~ Spending(req'[h], c)
               /\ ~ Owing(req'[h], c) /\ ~ ToExpire(req'[h], c)
          /\ UNCHANGED <<count, left, lock, spent>>
      BY <1>1, <1>2, <1>3, <1>6, <2>2, EndFits DEF CheckPair, At, redis, history,
        SendFits, Sends, RequestFits
    <3>2. /\ Others(h) /\ RequestFits(req'[h]) /\ (Taking(req'[h]) <=> Taking(req[h]))
          /\ lock' \in [Locks -> Nat] /\ spent' \in [Counters -> Nat]
          /\ count'["upload"] = count["upload"] /\ spent'["upload"] = spent["upload"]
      BY <1>1, <1>3, <3>1 DEF Becomes, RequestFits, Taking
    <3>3. ASSUME NEW c \in Gates PROVE Fits(h, c)
      BY <1>1, <1>3, <3>1, NamesAssumption DEF Fits, Rests, Same, SameLock, SameRole,
        NoneOf, Passing, Spending, Owing, ToExpire, Becomes
    <3> QED
      BY <3>2, <3>3 DEF StepFits, NoUpload
  <2> QED
    BY <1>2, <1>6, <2>1, <2>2 DEF CheckPair, Fault
<1>7. CASE Compare(h)
  <2>1. CASE Go(h, "clearIp") /\ UNCHANGED spent
    <3>1. /\ Becomes(h, "clearIp") /\ req[h].at = "compare" /\ req[h].todo = {}
          /\ req[h].first = {}
          /\ UNCHANGED <<count, left, lock, spent>>
          /\ req[h].email \in Emails
      BY <1>1, <1>2, <1>3, <1>7, <2>1, GoBecomes DEF Compare, At, redis, SendFits, Sends,
        RequestFits
    <3>2. /\ Others(h) /\ RequestFits(req'[h]) /\ (Taking(req'[h]) <=> Taking(req[h]))
          /\ lock' \in [Locks -> Nat] /\ spent' \in [Counters -> Nat]
          /\ count'["upload"] = count["upload"] /\ spent'["upload"] = spent["upload"]
      BY <1>1, <1>3, <3>1 DEF Becomes, RequestFits, Taking
    <3>3. ASSUME NEW c \in Gates PROVE Fits(h, c)
      BY <1>1, <1>3, <3>1, NamesAssumption DEF Fits, Rests, Same, SameLock, SameRole,
        NoneOf, Passing, Spending, Owing, ToExpire, Becomes
    <3> QED
      BY <3>2, <3>3 DEF StepFits, NoUpload
  <2>2. CASE Go(h, "countIp") /\ Spend({"ip", req[h].email})
    <3>1. /\ Becomes(h, "countIp") /\ req[h].at = "compare" /\ req[h].todo = {}
          /\ req[h].first = {}
          /\ UNCHANGED <<count, left, lock>>
          /\ req[h].email \in Emails
          /\ spent' \in [Counters -> Nat]
          /\ \A c \in Counters : c \in {"ip", req[h].email} => spent'[c] = spent[c] + 1
          /\ \A c \in Counters : c \notin {"ip", req[h].email} => spent'[c] = spent[c]
      BY <1>1, <1>2, <1>3, <1>7, <2>2, GoBecomes, SpendFits DEF Compare, At, redis,
        SendFits, Sends, RequestFits
    <3>2. /\ Others(h) /\ RequestFits(req'[h]) /\ (Taking(req'[h]) <=> Taking(req[h]))
          /\ lock' \in [Locks -> Nat] /\ spent' \in [Counters -> Nat]
          /\ count'["upload"] = count["upload"] /\ spent'["upload"] = spent["upload"]
      BY <1>1, <1>3, <3>1 DEF Becomes, RequestFits, Taking
    <3>3. ASSUME NEW c \in Gates PROVE Fits(h, c)
      <4>1. CASE c \in {"ip", req[h].email}
        BY <1>1, <1>3, <3>1, <4>1, NamesAssumption DEF Fits, Tries, Same, SameLock,
          SameRole, NoneOf, Passing, Spending, Owing, ToExpire, Becomes
      <4>2. CASE c \notin {"ip", req[h].email}
        BY <1>1, <1>3, <3>1, <4>2, NamesAssumption DEF Fits, Rests, Same, SameLock,
          SameRole, NoneOf, Passing, Spending, Owing, ToExpire, Becomes
      <4> QED
        BY <4>1, <4>2, <1>3
    <3> QED
      BY <3>2, <3>3 DEF StepFits, NoUpload
  <2> QED
    BY <1>2, <1>7, <2>1, <2>2 DEF Compare
<1>8. CASE CountIp(h)
  <2>1. /\ Others(h) /\ req[h].at = "countIp"
             /\ req'[h].at = IF count["ip"] = 0 THEN "expireIp"
                               ELSE (IF req[h].email = Unknown THEN "lockIp" ELSE "countPair")
        /\ req'[h].email = req[h].email /\ req'[h].todo = {} /\ req'[h].first = {}
        /\ req[h].todo = {} /\ req[h].first = {}
        /\ req'[h].m = req[h].m /\ req'[h].n = count["ip"] + 1
        /\ count'["ip"] = count["ip"] + 1
        /\ left'["ip"] = IF count["ip"] = 0 THEN Forever ELSE left["ip"]
        /\ \A d \in Counters \ {"ip"} : count'[d] = count[d] /\ left'[d] = left[d]
        /\ UNCHANGED <<lock, spent>>
        /\ count["ip"] \in Nat
        /\ "ip" \notin Emails /\ Limit["ip"] = MaxFailIp
    BY <1>1, <1>2, <1>3, <1>8, NamesAssumption, CountsFits, LimitFits DEF CountIp, At,
      redis, history, SendFits, Sends, RequestFits, Request, Counting
  <2>2. /\ Others(h) /\ RequestFits(req'[h]) /\ (Taking(req'[h]) <=> Taking(req[h]))
        /\ lock' \in [Locks -> Nat] /\ spent' \in [Counters -> Nat]
        /\ count'["upload"] = count["upload"] /\ spent'["upload"] = spent["upload"]
    BY <1>1, <1>3, <2>1 DEF Becomes, RequestFits, Taking
  <2>3. ASSUME NEW c \in Gates PROVE Fits(h, c)
    <3>1. CASE c = "ip"
      BY <1>1, <1>3, <2>1, <3>1, NamesAssumption DEF Fits, Adds, Same, SameLock, SameRole,
        NoneOf, Passing, Spending, Owing, ToExpire, Becomes
    <3>2. CASE c # "ip"
      BY <1>1, <1>3, <2>1, <3>2, NamesAssumption DEF Fits, Rests, Same, SameLock,
        SameRole, NoneOf, Passing, Spending, Owing, ToExpire, Becomes
    <3> QED
      BY <3>1, <3>2, <1>3
  <2> QED
    BY <2>2, <2>3 DEF StepFits, NoUpload
<1>9. CASE ExpireIp(h)
  <2>1. CASE req[h].email = Unknown
    <3>1. /\ Becomes(h, "lockIp") /\ req[h].at = "expireIp" /\ req[h].todo = {}
          /\ req[h].first = {}
          /\ req[h].email = Unknown
          /\ left'["ip"] = IF count["ip"] = 0 THEN 0 ELSE Window["ip"]
          /\ \A d \in Counters \ {"ip"} : left'[d] = left[d]
          /\ UNCHANGED <<count, lock, spent>>
      BY <1>1, <1>2, <1>3, <1>9, <2>1, GoBecomes, ExpireFits DEF ExpireIp, Expires, At,
        redis, history, SendFits, Sends, RequestFits, Request, Counting
    <3>2. /\ Others(h) /\ RequestFits(req'[h]) /\ (Taking(req'[h]) <=> Taking(req[h]))
          /\ lock' \in [Locks -> Nat] /\ spent' \in [Counters -> Nat]
          /\ count'["upload"] = count["upload"] /\ spent'["upload"] = spent["upload"]
      BY <1>1, <1>3, <3>1 DEF Becomes, RequestFits, Taking
    <3>3. ASSUME NEW c \in Gates PROVE Fits(h, c)
      <4>1. CASE c = "ip"
        BY <1>1, <1>3, <3>1, <4>1, NamesAssumption DEF Fits, Times, Same, SameLock,
          SameRole, NoneOf, Passing, Spending, Owing, ToExpire, Becomes
      <4>2. CASE c # "ip"
        BY <1>1, <1>3, <3>1, <4>2, NamesAssumption DEF Fits, Rests, Same, SameLock,
          SameRole, NoneOf, Passing, Spending, Owing, ToExpire, Becomes
      <4> QED
        BY <4>1, <4>2, <1>3
    <3> QED
      BY <3>2, <3>3 DEF StepFits, NoUpload
  <2>2. CASE req[h].email # Unknown
    <3>1. /\ Becomes(h, "countPair") /\ req[h].at = "expireIp" /\ req[h].todo = {}
          /\ req[h].first = {}
          /\ req[h].email # Unknown
          /\ left'["ip"] = IF count["ip"] = 0 THEN 0 ELSE Window["ip"]
          /\ \A d \in Counters \ {"ip"} : left'[d] = left[d]
          /\ UNCHANGED <<count, lock, spent>>
      BY <1>1, <1>2, <1>3, <1>9, <2>2, GoBecomes, ExpireFits DEF ExpireIp, Expires, At,
        redis, history, SendFits, Sends, RequestFits, Request, Counting
    <3>2. /\ Others(h) /\ RequestFits(req'[h]) /\ (Taking(req'[h]) <=> Taking(req[h]))
          /\ lock' \in [Locks -> Nat] /\ spent' \in [Counters -> Nat]
          /\ count'["upload"] = count["upload"] /\ spent'["upload"] = spent["upload"]
      BY <1>1, <1>3, <3>1 DEF Becomes, RequestFits, Taking
    <3>3. ASSUME NEW c \in Gates PROVE Fits(h, c)
      <4>1. CASE c = "ip"
        BY <1>1, <1>3, <3>1, <4>1, NamesAssumption DEF Fits, Times, Same, SameLock,
          SameRole, NoneOf, Passing, Spending, Owing, ToExpire, Becomes
      <4>2. CASE c # "ip"
        BY <1>1, <1>3, <3>1, <4>2, NamesAssumption DEF Fits, Rests, Same, SameLock,
          SameRole, NoneOf, Passing, Spending, Owing, ToExpire, Becomes
      <4> QED
        BY <4>1, <4>2, <1>3
    <3> QED
      BY <3>2, <3>3 DEF StepFits, NoUpload
  <2> QED
    BY <1>2, <1>9, <2>1, <2>2 DEF ExpireIp
<1>10. CASE CountPair(h)
  <2>1. /\ Others(h) /\ req[h].at = "countPair"
             /\ req'[h].at = IF count[req[h].email] = 0 THEN "expirePair" ELSE "lockIp"
        /\ req'[h].email = req[h].email /\ req'[h].todo = {} /\ req'[h].first = {}
        /\ req[h].todo = {} /\ req[h].first = {}
        /\ req'[h].n = req[h].n /\ req'[h].m = count[req[h].email] + 1
        /\ req[h].email \in Emails
        /\ count'[req[h].email] = count[req[h].email] + 1
        /\ left'[req[h].email] = IF count[req[h].email] = 0 THEN Forever ELSE left[req[h].email]
        /\ \A d \in Counters \ {req[h].email} : count'[d] = count[d] /\ left'[d] = left[d]
        /\ UNCHANGED <<lock, spent>>
        /\ count[req[h].email] \in Nat
        /\ Limit[req[h].email] = MaxFailEmailIp
    BY <1>1, <1>2, <1>3, <1>10, NamesAssumption, CountsFits, LimitFits DEF CountPair, At,
      redis, history, SendFits, Sends, RequestFits, Request, Counting
  <2>2. /\ Others(h) /\ RequestFits(req'[h]) /\ (Taking(req'[h]) <=> Taking(req[h]))
        /\ lock' \in [Locks -> Nat] /\ spent' \in [Counters -> Nat]
        /\ count'["upload"] = count["upload"] /\ spent'["upload"] = spent["upload"]
    BY <1>1, <1>3, <2>1 DEF Becomes, RequestFits, Taking
  <2>3. ASSUME NEW c \in Gates PROVE Fits(h, c)
    <3>1. CASE c = req[h].email
      BY <1>1, <1>3, <2>1, <3>1, NamesAssumption DEF Fits, Adds, Same, SameLock, SameRole,
        NoneOf, Passing, Spending, Owing, ToExpire, Becomes
    <3>2. CASE c # req[h].email
      BY <1>1, <1>3, <2>1, <3>2, NamesAssumption DEF Fits, Rests, Same, SameLock,
        SameRole, NoneOf, Passing, Spending, Owing, ToExpire, Becomes
    <3> QED
      BY <3>1, <3>2, <1>3
  <2> QED
    BY <2>2, <2>3 DEF StepFits, NoUpload
<1>11. CASE ExpirePair(h)
  <2>1. /\ Becomes(h, "lockIp") /\ req[h].at = "expirePair" /\ req[h].todo = {}
        /\ req[h].first = {}
        /\ req[h].email \in Emails
        /\ left'[req[h].email] = IF count[req[h].email] = 0 THEN 0 ELSE Window[req[h].email]
        /\ \A d \in Counters \ {req[h].email} : left'[d] = left[d]
        /\ UNCHANGED <<count, lock, spent>>
    BY <1>1, <1>2, <1>3, <1>11, GoBecomes, ExpireFits DEF ExpirePair, Expires, At, redis,
      history, SendFits, Sends, RequestFits, Request, Counting
  <2>2. /\ Others(h) /\ RequestFits(req'[h]) /\ (Taking(req'[h]) <=> Taking(req[h]))
        /\ lock' \in [Locks -> Nat] /\ spent' \in [Counters -> Nat]
        /\ count'["upload"] = count["upload"] /\ spent'["upload"] = spent["upload"]
    BY <1>1, <1>3, <2>1 DEF Becomes, RequestFits, Taking
  <2>3. ASSUME NEW c \in Gates PROVE Fits(h, c)
    <3>1. CASE c = req[h].email
      BY <1>1, <1>3, <2>1, <3>1, NamesAssumption DEF Fits, Times, Same, SameLock,
        SameRole, NoneOf, Passing, Spending, Owing, ToExpire, Becomes
    <3>2. CASE c # req[h].email
      BY <1>1, <1>3, <2>1, <3>2, NamesAssumption DEF Fits, Rests, Same, SameLock,
        SameRole, NoneOf, Passing, Spending, Owing, ToExpire, Becomes
    <3> QED
      BY <3>1, <3>2, <1>3
  <2> QED
    BY <2>2, <2>3 DEF StepFits, NoUpload
<1>12. CASE LockIp(h)
  <2>1. CASE req[h].n >= MaxFailIp /\ req[h].email = Unknown
    <3>1. /\ Others(h) /\ req'[h] = Idle /\ RequestFits(req'[h]) /\ ~ Taking(req'[h])
          /\ req[h].at = "lockIp"
          /\ req[h].todo = {} /\ req[h].first = {}
          /\ \A c : ~ Passing(req'[h], c) /\ ~ Spending(req'[h], c)
               /\ ~ Owing(req'[h], c) /\ ~ ToExpire(req'[h], c)
          /\ req[h].email = Unknown
          /\ req[h].n \in Nat /\ TenMinutes \in Nat
          /\ lock' \in [Locks -> Nat] /\ lock'["ip"] = TenMinutes
          /\ UNCHANGED <<count, left, spent>>
          /\ \A k \in Locks \ {"ip"} : lock'[k] = lock[k]
      BY <1>1, <1>2, <1>3, <1>12, <2>1, EndFits, TimesAssumption, LimitFits, SetFits
        DEF LockIp, Locks, At, redis, history, SendFits, Sends, RequestFits, Request,
        Counting
    <3>2. /\ Others(h) /\ RequestFits(req'[h]) /\ (Taking(req'[h]) <=> Taking(req[h]))
          /\ lock' \in [Locks -> Nat] /\ spent' \in [Counters -> Nat]
          /\ count'["upload"] = count["upload"] /\ spent'["upload"] = spent["upload"]
      BY <1>1, <1>3, <3>1 DEF Becomes, RequestFits, Taking
    <3>3. ASSUME NEW c \in Gates PROVE Fits(h, c)
      <4>1. CASE c = "ip"
        BY <1>1, <1>3, <3>1, <4>1, NamesAssumption DEF Fits, Bars, Same, SameLock,
          SameRole, NoneOf, Passing, Spending, Owing, ToExpire, Becomes
      <4>2. CASE c # "ip"
        BY <1>1, <1>3, <3>1, <4>2, NamesAssumption DEF Fits, Rests, Same, SameLock,
          SameRole, NoneOf, Passing, Spending, Owing, ToExpire, Becomes
      <4> QED
        BY <4>1, <4>2, <1>3
    <3> QED
      BY <3>2, <3>3 DEF StepFits, NoUpload
  <2>2. CASE req[h].n >= MaxFailIp /\ req[h].email # Unknown
    <3>1. /\ Becomes(h, "lockPair") /\ req[h].at = "lockIp" /\ req[h].todo = {}
          /\ req[h].first = {}
          /\ req[h].email # Unknown
          /\ req[h].n \in Nat /\ TenMinutes \in Nat
          /\ lock' \in [Locks -> Nat] /\ lock'["ip"] = TenMinutes
          /\ UNCHANGED <<count, left, spent>>
          /\ \A k \in Locks \ {"ip"} : lock'[k] = lock[k]
      BY <1>1, <1>2, <1>3, <1>12, <2>2, GoBecomes, TimesAssumption, LimitFits, SetFits
        DEF LockIp, Locks, At, redis, history, SendFits, Sends, RequestFits, Request,
        Counting
    <3>2. /\ Others(h) /\ RequestFits(req'[h]) /\ (Taking(req'[h]) <=> Taking(req[h]))
          /\ lock' \in [Locks -> Nat] /\ spent' \in [Counters -> Nat]
          /\ count'["upload"] = count["upload"] /\ spent'["upload"] = spent["upload"]
      BY <1>1, <1>3, <3>1 DEF Becomes, RequestFits, Taking
    <3>3. ASSUME NEW c \in Gates PROVE Fits(h, c)
      <4>1. CASE c = "ip"
        BY <1>1, <1>3, <3>1, <4>1, NamesAssumption DEF Fits, Bars, Same, SameLock,
          SameRole, NoneOf, Passing, Spending, Owing, ToExpire, Becomes
      <4>2. CASE c # "ip"
        BY <1>1, <1>3, <3>1, <4>2, NamesAssumption DEF Fits, Rests, Same, SameLock,
          SameRole, NoneOf, Passing, Spending, Owing, ToExpire, Becomes
      <4> QED
        BY <4>1, <4>2, <1>3
    <3> QED
      BY <3>2, <3>3 DEF StepFits, NoUpload
  <2>3. CASE ~ (req[h].n >= MaxFailIp) /\ req[h].email = Unknown
    <3>1. /\ Others(h) /\ req'[h] = Idle /\ RequestFits(req'[h]) /\ ~ Taking(req'[h])
          /\ req[h].at = "lockIp"
          /\ req[h].todo = {} /\ req[h].first = {}
          /\ \A c : ~ Passing(req'[h], c) /\ ~ Spending(req'[h], c)
               /\ ~ Owing(req'[h], c) /\ ~ ToExpire(req'[h], c)
          /\ req[h].email = Unknown
          /\ req[h].n \in Nat /\ TenMinutes \in Nat
          /\ ~ (req[h].n >= MaxFailIp)
          /\ UNCHANGED <<count, left, lock, spent>>
      BY <1>1, <1>2, <1>3, <1>12, <2>3, EndFits, TimesAssumption, LimitFits, SetFits
        DEF LockIp, Locks, At, redis, history, SendFits, Sends, RequestFits, Request,
        Counting
    <3>2. /\ Others(h) /\ RequestFits(req'[h]) /\ (Taking(req'[h]) <=> Taking(req[h]))
          /\ lock' \in [Locks -> Nat] /\ spent' \in [Counters -> Nat]
          /\ count'["upload"] = count["upload"] /\ spent'["upload"] = spent["upload"]
      BY <1>1, <1>3, <3>1 DEF Becomes, RequestFits, Taking
    <3>3. ASSUME NEW c \in Gates PROVE Fits(h, c)
      BY <1>1, <1>3, <3>1, NamesAssumption DEF Fits, Rests, Same, SameLock, SameRole,
        NoneOf, Passing, Spending, Owing, ToExpire, Becomes
    <3> QED
      BY <3>2, <3>3 DEF StepFits, NoUpload
  <2>4. CASE ~ (req[h].n >= MaxFailIp) /\ req[h].email # Unknown
    <3>1. /\ Becomes(h, "lockPair") /\ req[h].at = "lockIp" /\ req[h].todo = {}
          /\ req[h].first = {}
          /\ req[h].email # Unknown
          /\ req[h].n \in Nat /\ TenMinutes \in Nat
          /\ ~ (req[h].n >= MaxFailIp)
          /\ UNCHANGED <<count, left, lock, spent>>
      BY <1>1, <1>2, <1>3, <1>12, <2>4, GoBecomes, TimesAssumption, LimitFits, SetFits
        DEF LockIp, Locks, At, redis, history, SendFits, Sends, RequestFits, Request,
        Counting
    <3>2. /\ Others(h) /\ RequestFits(req'[h]) /\ (Taking(req'[h]) <=> Taking(req[h]))
          /\ lock' \in [Locks -> Nat] /\ spent' \in [Counters -> Nat]
          /\ count'["upload"] = count["upload"] /\ spent'["upload"] = spent["upload"]
      BY <1>1, <1>3, <3>1 DEF Becomes, RequestFits, Taking
    <3>3. ASSUME NEW c \in Gates PROVE Fits(h, c)
      BY <1>1, <1>3, <3>1, NamesAssumption DEF Fits, Rests, Same, SameLock, SameRole,
        NoneOf, Passing, Spending, Owing, ToExpire, Becomes
    <3> QED
      BY <3>2, <3>3 DEF StepFits, NoUpload
  <2> QED
    BY <1>2, <1>12, <2>1, <2>2, <2>3, <2>4 DEF Request
<1>13. CASE LockPair(h)
  <2>1. CASE req[h].m >= MaxFailEmailIp
    <3>1. /\ Others(h) /\ req'[h] = Idle /\ RequestFits(req'[h]) /\ ~ Taking(req'[h])
          /\ req[h].at = "lockPair"
          /\ req[h].todo = {} /\ req[h].first = {}
          /\ \A c : ~ Passing(req'[h], c) /\ ~ Spending(req'[h], c)
               /\ ~ Owing(req'[h], c) /\ ~ ToExpire(req'[h], c)
          /\ req[h].email \in Emails
          /\ req[h].m \in Nat /\ TenMinutes \in Nat
          /\ lock' \in [Locks -> Nat] /\ lock'[req[h].email] = TenMinutes
          /\ UNCHANGED <<count, left, spent>>
          /\ \A k \in Locks \ {req[h].email} : lock'[k] = lock[k]
      BY <1>1, <1>2, <1>3, <1>13, <2>1, EndFits, TimesAssumption, LimitFits, SetFits
        DEF LockPair, Locks, At, redis, history, SendFits, Sends, RequestFits, Request,
        Counting
    <3>2. /\ Others(h) /\ RequestFits(req'[h]) /\ (Taking(req'[h]) <=> Taking(req[h]))
          /\ lock' \in [Locks -> Nat] /\ spent' \in [Counters -> Nat]
          /\ count'["upload"] = count["upload"] /\ spent'["upload"] = spent["upload"]
      BY <1>1, <1>3, <3>1 DEF Becomes, RequestFits, Taking
    <3>3. ASSUME NEW c \in Gates PROVE Fits(h, c)
      <4>1. CASE c = req[h].email
        BY <1>1, <1>3, <3>1, <4>1, NamesAssumption DEF Fits, Bars, Same, SameLock,
          SameRole, NoneOf, Passing, Spending, Owing, ToExpire, Becomes
      <4>2. CASE c # req[h].email
        BY <1>1, <1>3, <3>1, <4>2, NamesAssumption DEF Fits, Rests, Same, SameLock,
          SameRole, NoneOf, Passing, Spending, Owing, ToExpire, Becomes
      <4> QED
        BY <4>1, <4>2, <1>3
    <3> QED
      BY <3>2, <3>3 DEF StepFits, NoUpload
  <2>2. CASE ~ (req[h].m >= MaxFailEmailIp)
    <3>1. /\ Others(h) /\ req'[h] = Idle /\ RequestFits(req'[h]) /\ ~ Taking(req'[h])
          /\ req[h].at = "lockPair"
          /\ req[h].todo = {} /\ req[h].first = {}
          /\ \A c : ~ Passing(req'[h], c) /\ ~ Spending(req'[h], c)
               /\ ~ Owing(req'[h], c) /\ ~ ToExpire(req'[h], c)
          /\ req[h].email \in Emails
          /\ req[h].m \in Nat /\ TenMinutes \in Nat
          /\ ~ (req[h].m >= MaxFailEmailIp)
          /\ UNCHANGED <<count, left, lock, spent>>
      BY <1>1, <1>2, <1>3, <1>13, <2>2, EndFits, TimesAssumption, LimitFits, SetFits
        DEF LockPair, Locks, At, redis, history, SendFits, Sends, RequestFits, Request,
        Counting
    <3>2. /\ Others(h) /\ RequestFits(req'[h]) /\ (Taking(req'[h]) <=> Taking(req[h]))
          /\ lock' \in [Locks -> Nat] /\ spent' \in [Counters -> Nat]
          /\ count'["upload"] = count["upload"] /\ spent'["upload"] = spent["upload"]
      BY <1>1, <1>3, <3>1 DEF Becomes, RequestFits, Taking
    <3>3. ASSUME NEW c \in Gates PROVE Fits(h, c)
      BY <1>1, <1>3, <3>1, NamesAssumption DEF Fits, Rests, Same, SameLock, SameRole,
        NoneOf, Passing, Spending, Owing, ToExpire, Becomes
    <3> QED
      BY <3>2, <3>3 DEF StepFits, NoUpload
  <2> QED
    BY <1>2, <1>13, <2>1, <2>2 DEF Request
<1>14. CASE ClearIp(h)
  <2>1. /\ Becomes(h, "clearPair") /\ req[h].at = "clearIp" /\ req[h].todo = {}
        /\ req[h].first = {}
        /\ count'["ip"] = 0 /\ left'["ip"] = 0 /\ spent'["ip"] = 0
        /\ spent' \in [Counters -> Nat]
        /\ \A d \in Counters \ {"ip"} : count'[d] = count[d] /\ left'[d] = left[d]
             /\ spent'[d] = spent[d]
        /\ UNCHANGED lock
        /\ req[h].email \in Emails
    BY <1>1, <1>2, <1>3, <1>14, GoBecomes, DelFits DEF ClearIp, At, redis, history,
      SendFits, Sends, RequestFits, Request, Counting
  <2>2. /\ Others(h) /\ RequestFits(req'[h]) /\ (Taking(req'[h]) <=> Taking(req[h]))
        /\ lock' \in [Locks -> Nat] /\ spent' \in [Counters -> Nat]
        /\ count'["upload"] = count["upload"] /\ spent'["upload"] = spent["upload"]
    BY <1>1, <1>3, <2>1 DEF Becomes, RequestFits, Taking
  <2>3. ASSUME NEW c \in Gates PROVE Fits(h, c)
    <3>1. CASE c = "ip"
      BY <1>1, <1>3, <2>1, <3>1, NamesAssumption DEF Fits, Clears, Same, SameLock,
        SameRole, NoneOf, Passing, Spending, Owing, ToExpire, Becomes
    <3>2. CASE c # "ip"
      BY <1>1, <1>3, <2>1, <3>2, NamesAssumption DEF Fits, Rests, Same, SameLock,
        SameRole, NoneOf, Passing, Spending, Owing, ToExpire, Becomes
    <3> QED
      BY <3>1, <3>2, <1>3
  <2> QED
    BY <2>2, <2>3 DEF StepFits, NoUpload
<1>15. CASE ClearPair(h)
  <2>1. /\ Others(h) /\ req'[h] = Idle /\ RequestFits(req'[h]) /\ ~ Taking(req'[h])
        /\ req[h].at = "clearPair"
        /\ req[h].todo = {} /\ req[h].first = {}
        /\ \A c : ~ Passing(req'[h], c) /\ ~ Spending(req'[h], c) /\ ~ Owing(req'[h], c)
             /\ ~ ToExpire(req'[h], c)
        /\ count'[req[h].email] = 0 /\ left'[req[h].email] = 0
        /\ spent'[req[h].email] = 0 /\ spent' \in [Counters -> Nat]
        /\ \A d \in Counters \ {req[h].email} : count'[d] = count[d]
             /\ left'[d] = left[d] /\ spent'[d] = spent[d]
        /\ UNCHANGED lock
        /\ req[h].email \in Emails
    BY <1>1, <1>2, <1>3, <1>15, EndFits, DelFits DEF ClearPair, At, redis, history,
      SendFits, Sends, RequestFits, Request, Counting
  <2>2. /\ Others(h) /\ RequestFits(req'[h]) /\ (Taking(req'[h]) <=> Taking(req[h]))
        /\ lock' \in [Locks -> Nat] /\ spent' \in [Counters -> Nat]
        /\ count'["upload"] = count["upload"] /\ spent'["upload"] = spent["upload"]
    BY <1>1, <1>3, <2>1 DEF Becomes, RequestFits, Taking
  <2>3. ASSUME NEW c \in Gates PROVE Fits(h, c)
    <3>1. CASE c = req[h].email
      BY <1>1, <1>3, <2>1, <3>1, NamesAssumption DEF Fits, Clears, Same, SameLock,
        SameRole, NoneOf, Passing, Spending, Owing, ToExpire, Becomes
    <3>2. CASE c # req[h].email
      BY <1>1, <1>3, <2>1, <3>2, NamesAssumption DEF Fits, Rests, Same, SameLock,
        SameRole, NoneOf, Passing, Spending, Owing, ToExpire, Becomes
    <3> QED
      BY <3>1, <3>2, <1>3
  <2> QED
    BY <2>2, <2>3 DEF StepFits, NoUpload
<1> QED
  BY <1>4, <1>5, <1>6, <1>7, <1>8, <1>9, <1>10, <1>11, <1>12, <1>13, <1>14, <1>15
    DEF BeginLogin, LoginStep

\* An INCR of one of the two branches.
LEMMA SendCounts ==
  ASSUME RecentInv, NEW h \in Handlers, NEW c \in Counters, CountSend(h, c)
  PROVE  /\ Others(h) /\ c \in req[h].todo
         /\ req'[h].at = req[h].at /\ req'[h].email = req[h].email
         /\ req'[h].n = req[h].n /\ req'[h].m = req[h].m
         /\ req'[h].todo = req[h].todo \ {c}
         /\ req'[h].first = IF count[c] = 0 THEN req[h].first \cup {c} ELSE req[h].first
         /\ count'[c] = count[c] + 1
         /\ left'[c] = IF count[c] = 0 THEN Forever ELSE left[c]
         /\ \A d \in Counters \ {c} : count'[d] = count[d] /\ left'[d] = left[d]
         /\ UNCHANGED <<lock, spent>>
<1>1. req \in [Handlers -> Request] /\ count \in [Counters -> Nat] /\ left \in [Counters -> 0..Forever]
  BY DEF RecentInv, CountersTyped
<1>2. /\ count'[c] = count[c] + 1 /\ (count'[c] = 1 <=> count[c] = 0)
      /\ left'[c] = IF count[c] = 0 THEN Forever ELSE left[c]
      /\ \A d \in Counters \ {c} : count'[d] = count[d] /\ left'[d] = left[d]
  BY <1>1 DEF CountSend, Incr
<1>3. /\ c \in req[h].todo /\ UNCHANGED <<lock, spent>>
      /\ req' = [req EXCEPT ![h].todo = @ \ {c},
                   ![h].first = IF count[c] = 0 THEN @ \cup {c} ELSE @]
  BY <1>2 DEF CountSend
<1>4. Others(h)
  BY <1>1, <1>3 DEF Others
<1>5. req'[h] = [req[h] EXCEPT !.todo = req[h].todo \ {c},
                   !.first = IF count[c] = 0 THEN req[h].first \cup {c} ELSE req[h].first]
  BY <1>1, <1>3
<1> QED
  BY <1>1, <1>2, <1>3, <1>4, <1>5 DEF Request

\* The steps of a request for a code, and of one that enters it.
LEMMA CodeFits ==
  ASSUME RecentInv, LimitsTyped, NEW h \in Handlers, BeginCode(h) \/ CodeStep(h), UNCHANGED faults,
         faults \in Nat
  PROVE  StepFits(h) /\ NoUpload(h)
<1>1. /\ req[h] \in Request /\ SendFits(req[h]) /\ RequestFits(req[h])
      /\ lock \in [Locks -> Nat] /\ spent \in [Counters -> Nat]
      /\ count \in [Counters -> Nat]
      /\ req \in [Handlers -> Request]
      /\ req[h].email \in Emails \cup {Unknown} /\ req[h].n \in Nat /\ req[h].m \in Nat
      /\ {MaxOtpFail, MaxResend, MaxIpRequest} \subseteq Nat
  BY LimitsAssumption DEF RecentInv, CountersTyped, LimitsTyped, Request
<1>2. faults + 1 # faults
  OBVIOUS
<1>3. Gates = {"ip", "otp", "resend", "ipRequest"} \cup Emails /\ Gates \subseteq Counters
      /\ "upload" \in Counters /\ "upload" \notin Gates /\ Locked \subseteq Locks
      /\ Locked = {"ip", "otp"} \cup Emails
  BY LimitFits DEF Gates, Counters, Locked
<1>4. CASE VerifyOtp(h)
  <2>1. /\ Becomes(h, "enter") /\ req[h].at = "idle" /\ req[h].todo = {}
        /\ req[h].first = {}
        /\ UNCHANGED <<count, left, lock, spent>>
        /\ lock["otp"] = 0
        /\ req'[h] # Idle
    <3>1. /\ Ready(h) /\ lock["otp"] = 0 /\ Go(h, "enter")
          /\ UNCHANGED <<count, left, lock, spent>>
      BY <1>2, <1>4 DEF VerifyOtp, Fault, redis, history
    <3>2. req[h].at = "idle" /\ req[h].todo = {} /\ req[h].first = {}
      BY <3>1 DEF Ready, Idle
    <3> QED
      BY <3>1, <3>2, GoBecomes
  <2>2. /\ Others(h) /\ RequestFits(req'[h]) /\ (Taking(req'[h]) <=> Taking(req[h]))
        /\ lock' \in [Locks -> Nat] /\ spent' \in [Counters -> Nat]
        /\ count'["upload"] = count["upload"] /\ spent'["upload"] = spent["upload"]
    BY <1>1, <1>3, <2>1 DEF Becomes, RequestFits, Taking
  <2>3. ASSUME NEW c \in Gates PROVE Fits(h, c)
    <3>1. CASE c = "otp"
      BY <1>1, <1>3, <2>1, <3>1, NamesAssumption DEF Fits, Passes, Same, SameLock,
        SameRole, NoneOf, Passing, Spending, Owing, ToExpire, Becomes
    <3>2. CASE c # "otp"
      BY <1>1, <1>3, <2>1, <3>2, NamesAssumption DEF Fits, Rests, Same, SameLock,
        SameRole, NoneOf, Passing, Spending, Owing, ToExpire, Becomes
    <3> QED
      BY <3>1, <3>2, <1>3
  <2> QED
    BY <2>2, <2>3 DEF StepFits, NoUpload
<1>5. CASE SendOtp(h)
  <2>1. /\ Becomes(h, "cooldown") /\ req[h].at = "idle" /\ req[h].todo = {}
        /\ req[h].first = {}
        /\ UNCHANGED <<count, left, lock, spent>>
    BY <1>1, <1>2, <1>3, <1>5, GoBecomes DEF SendOtp, Ready, Idle, Fault, redis, history
  <2>2. /\ Others(h) /\ RequestFits(req'[h]) /\ (Taking(req'[h]) <=> Taking(req[h]))
        /\ lock' \in [Locks -> Nat] /\ spent' \in [Counters -> Nat]
        /\ count'["upload"] = count["upload"] /\ spent'["upload"] = spent["upload"]
    BY <1>1, <1>3, <2>1 DEF Becomes, RequestFits, Taking
  <2>3. ASSUME NEW c \in Gates PROVE Fits(h, c)
    BY <1>1, <1>3, <2>1, NamesAssumption DEF Fits, Rests, Same, SameLock, SameRole,
      NoneOf, Passing, Spending, Owing, ToExpire, Becomes
  <2> QED
    BY <2>2, <2>3 DEF StepFits, NoUpload
<1>6. CASE CompareCode(h)
  <2>1. CASE End(h) /\ UNCHANGED spent
    <3>1. /\ Others(h) /\ req'[h] = Idle /\ RequestFits(req'[h]) /\ ~ Taking(req'[h])
          /\ req[h].at = "enter"
          /\ req[h].todo = {} /\ req[h].first = {}
          /\ \A c : ~ Passing(req'[h], c) /\ ~ Spending(req'[h], c)
               /\ ~ Owing(req'[h], c) /\ ~ ToExpire(req'[h], c)
          /\ UNCHANGED <<count, left, lock, spent>>
      BY <1>1, <1>2, <1>3, <1>6, <2>1, EndFits DEF CompareCode, At, redis, history,
        SendFits, Sends, Request
    <3>2. /\ Others(h) /\ RequestFits(req'[h]) /\ (Taking(req'[h]) <=> Taking(req[h]))
          /\ lock' \in [Locks -> Nat] /\ spent' \in [Counters -> Nat]
          /\ count'["upload"] = count["upload"] /\ spent'["upload"] = spent["upload"]
      BY <1>1, <1>3, <3>1 DEF Becomes, RequestFits, Taking
    <3>3. ASSUME NEW c \in Gates PROVE Fits(h, c)
      BY <1>1, <1>3, <3>1, NamesAssumption DEF Fits, Rests, Same, SameLock, SameRole,
        NoneOf, Passing, Spending, Owing, ToExpire, Becomes
    <3> QED
      BY <3>2, <3>3 DEF StepFits, NoUpload
  <2>2. CASE Go(h, "countOtp") /\ Spend({"otp"})
    <3>1. /\ Becomes(h, "countOtp") /\ req[h].at = "enter" /\ req[h].todo = {}
          /\ req[h].first = {}
          /\ UNCHANGED <<count, left, lock>>
          /\ spent' \in [Counters -> Nat]
          /\ \A c \in Counters : c \in {"otp"} => spent'[c] = spent[c] + 1
          /\ \A c \in Counters : c \notin {"otp"} => spent'[c] = spent[c]
      BY <1>1, <1>2, <1>3, <1>6, <2>2, GoBecomes, SpendFits DEF CompareCode, At, redis,
        history, SendFits, Sends, Request
    <3>2. /\ Others(h) /\ RequestFits(req'[h]) /\ (Taking(req'[h]) <=> Taking(req[h]))
          /\ lock' \in [Locks -> Nat] /\ spent' \in [Counters -> Nat]
          /\ count'["upload"] = count["upload"] /\ spent'["upload"] = spent["upload"]
      BY <1>1, <1>3, <3>1 DEF Becomes, RequestFits, Taking
    <3>3. ASSUME NEW c \in Gates PROVE Fits(h, c)
      <4>1. CASE c = "otp"
        BY <1>1, <1>3, <3>1, <4>1, NamesAssumption DEF Fits, Tries, Same, SameLock,
          SameRole, NoneOf, Passing, Spending, Owing, ToExpire, Becomes
      <4>2. CASE c # "otp"
        BY <1>1, <1>3, <3>1, <4>2, NamesAssumption DEF Fits, Rests, Same, SameLock,
          SameRole, NoneOf, Passing, Spending, Owing, ToExpire, Becomes
      <4> QED
        BY <4>1, <4>2, <1>3
    <3> QED
      BY <3>2, <3>3 DEF StepFits, NoUpload
  <2> QED
    BY <1>2, <1>6, <2>1, <2>2 DEF CompareCode
<1>7. CASE CountOtp(h)
  <2>1. /\ Others(h) /\ req[h].at = "countOtp"
             /\ req'[h].at = IF count["otp"] = 0 THEN "expireOtp" ELSE "lockOtp"
        /\ req'[h].email = req[h].email /\ req'[h].todo = {} /\ req'[h].first = {}
        /\ req[h].todo = {} /\ req[h].first = {}
        /\ req'[h].m = req[h].m /\ req'[h].n = count["otp"] + 1
        /\ count'["otp"] = count["otp"] + 1
        /\ left'["otp"] = IF count["otp"] = 0 THEN Forever ELSE left["otp"]
        /\ \A d \in Counters \ {"otp"} : count'[d] = count[d] /\ left'[d] = left[d]
        /\ UNCHANGED <<lock, spent>>
        /\ count["otp"] \in Nat
        /\ "otp" \notin Emails /\ Limit["otp"] = MaxOtpFail
    BY <1>1, <1>2, <1>3, <1>7, NamesAssumption, CountsFits, LimitFits DEF CountOtp, At,
      redis, history, SendFits, Sends, Request
  <2>2. /\ Others(h) /\ RequestFits(req'[h]) /\ (Taking(req'[h]) <=> Taking(req[h]))
        /\ lock' \in [Locks -> Nat] /\ spent' \in [Counters -> Nat]
        /\ count'["upload"] = count["upload"] /\ spent'["upload"] = spent["upload"]
    BY <1>1, <1>3, <2>1 DEF Becomes, RequestFits, Taking
  <2>3. ASSUME NEW c \in Gates PROVE Fits(h, c)
    <3>1. CASE c = "otp"
      BY <1>1, <1>3, <2>1, <3>1, NamesAssumption DEF Fits, Adds, Same, SameLock, SameRole,
        NoneOf, Passing, Spending, Owing, ToExpire, Becomes
    <3>2. CASE c # "otp"
      BY <1>1, <1>3, <2>1, <3>2, NamesAssumption DEF Fits, Rests, Same, SameLock,
        SameRole, NoneOf, Passing, Spending, Owing, ToExpire, Becomes
    <3> QED
      BY <3>1, <3>2, <1>3
  <2> QED
    BY <2>2, <2>3 DEF StepFits, NoUpload
<1>8. CASE ExpireOtp(h)
  <2>1. /\ Becomes(h, "lockOtp") /\ req[h].at = "expireOtp" /\ req[h].todo = {}
        /\ req[h].first = {}
        /\ left'["otp"] = IF count["otp"] = 0 THEN 0 ELSE Window["otp"]
        /\ \A d \in Counters \ {"otp"} : left'[d] = left[d]
        /\ UNCHANGED <<count, lock, spent>>
    BY <1>1, <1>2, <1>3, <1>8, GoBecomes, ExpireFits DEF ExpireOtp, Expires, At, redis,
      history, SendFits, Sends, Request
  <2>2. /\ Others(h) /\ RequestFits(req'[h]) /\ (Taking(req'[h]) <=> Taking(req[h]))
        /\ lock' \in [Locks -> Nat] /\ spent' \in [Counters -> Nat]
        /\ count'["upload"] = count["upload"] /\ spent'["upload"] = spent["upload"]
    BY <1>1, <1>3, <2>1 DEF Becomes, RequestFits, Taking
  <2>3. ASSUME NEW c \in Gates PROVE Fits(h, c)
    <3>1. CASE c = "otp"
      BY <1>1, <1>3, <2>1, <3>1, NamesAssumption DEF Fits, Times, Same, SameLock,
        SameRole, NoneOf, Passing, Spending, Owing, ToExpire, Becomes
    <3>2. CASE c # "otp"
      BY <1>1, <1>3, <2>1, <3>2, NamesAssumption DEF Fits, Rests, Same, SameLock,
        SameRole, NoneOf, Passing, Spending, Owing, ToExpire, Becomes
    <3> QED
      BY <3>1, <3>2, <1>3
  <2> QED
    BY <2>2, <2>3 DEF StepFits, NoUpload
<1>9. CASE LockOtp(h)
  <2>1. CASE req[h].n >= MaxOtpFail
    <3>1. /\ Others(h) /\ req'[h] = Idle /\ RequestFits(req'[h]) /\ ~ Taking(req'[h])
          /\ req[h].at = "lockOtp"
          /\ req[h].todo = {} /\ req[h].first = {}
          /\ \A c : ~ Passing(req'[h], c) /\ ~ Spending(req'[h], c)
               /\ ~ Owing(req'[h], c) /\ ~ ToExpire(req'[h], c)
          /\ req[h].n \in Nat /\ TenMinutes \in Nat
          /\ lock' \in [Locks -> Nat] /\ lock'["otp"] = TenMinutes
          /\ UNCHANGED <<count, left, spent>>
          /\ \A k \in Locks \ {"otp"} : lock'[k] = lock[k]
      BY <1>1, <1>2, <1>3, <1>9, <2>1, EndFits, TimesAssumption, LimitFits, SetFits
        DEF LockOtp, Locks, At, redis, history, SendFits, Sends, Request
    <3>2. /\ Others(h) /\ RequestFits(req'[h]) /\ (Taking(req'[h]) <=> Taking(req[h]))
          /\ lock' \in [Locks -> Nat] /\ spent' \in [Counters -> Nat]
          /\ count'["upload"] = count["upload"] /\ spent'["upload"] = spent["upload"]
      BY <1>1, <1>3, <3>1 DEF Becomes, RequestFits, Taking
    <3>3. ASSUME NEW c \in Gates PROVE Fits(h, c)
      <4>1. CASE c = "otp"
        BY <1>1, <1>3, <3>1, <4>1, NamesAssumption DEF Fits, Bars, Same, SameLock,
          SameRole, NoneOf, Passing, Spending, Owing, ToExpire, Becomes
      <4>2. CASE c # "otp"
        BY <1>1, <1>3, <3>1, <4>2, NamesAssumption DEF Fits, Rests, Same, SameLock,
          SameRole, NoneOf, Passing, Spending, Owing, ToExpire, Becomes
      <4> QED
        BY <4>1, <4>2, <1>3
    <3> QED
      BY <3>2, <3>3 DEF StepFits, NoUpload
  <2>2. CASE ~ (req[h].n >= MaxOtpFail)
    <3>1. /\ Others(h) /\ req'[h] = Idle /\ RequestFits(req'[h]) /\ ~ Taking(req'[h])
          /\ req[h].at = "lockOtp"
          /\ req[h].todo = {} /\ req[h].first = {}
          /\ \A c : ~ Passing(req'[h], c) /\ ~ Spending(req'[h], c)
               /\ ~ Owing(req'[h], c) /\ ~ ToExpire(req'[h], c)
          /\ req[h].n \in Nat /\ TenMinutes \in Nat
          /\ ~ (req[h].n >= MaxOtpFail)
          /\ UNCHANGED <<count, left, lock, spent>>
      BY <1>1, <1>2, <1>3, <1>9, <2>2, EndFits, TimesAssumption, LimitFits, SetFits
        DEF LockOtp, Locks, At, redis, history, SendFits, Sends, Request
    <3>2. /\ Others(h) /\ RequestFits(req'[h]) /\ (Taking(req'[h]) <=> Taking(req[h]))
          /\ lock' \in [Locks -> Nat] /\ spent' \in [Counters -> Nat]
          /\ count'["upload"] = count["upload"] /\ spent'["upload"] = spent["upload"]
      BY <1>1, <1>3, <3>1 DEF Becomes, RequestFits, Taking
    <3>3. ASSUME NEW c \in Gates PROVE Fits(h, c)
      BY <1>1, <1>3, <3>1, NamesAssumption DEF Fits, Rests, Same, SameLock, SameRole,
        NoneOf, Passing, Spending, Owing, ToExpire, Becomes
    <3> QED
      BY <3>2, <3>3 DEF StepFits, NoUpload
  <2> QED
    BY <1>2, <1>9, <2>1, <2>2 DEF Request
<1>10. CASE CheckCooldown(h)
  <2>1. CASE lock["cooldown"] = 0
    <3>1. /\ Becomes(h, "resend") /\ req[h].at = "cooldown" /\ req[h].todo = {}
          /\ req[h].first = {}
          /\ UNCHANGED <<count, left, lock, spent>>
      BY <1>1, <1>2, <1>3, <1>10, <2>1, GoBecomes DEF CheckCooldown, At, redis, history,
        SendFits, Sends, Request
    <3>2. /\ Others(h) /\ RequestFits(req'[h]) /\ (Taking(req'[h]) <=> Taking(req[h]))
          /\ lock' \in [Locks -> Nat] /\ spent' \in [Counters -> Nat]
          /\ count'["upload"] = count["upload"] /\ spent'["upload"] = spent["upload"]
      BY <1>1, <1>3, <3>1 DEF Becomes, RequestFits, Taking
    <3>3. ASSUME NEW c \in Gates PROVE Fits(h, c)
      BY <1>1, <1>3, <3>1, NamesAssumption DEF Fits, Rests, Same, SameLock, SameRole,
        NoneOf, Passing, Spending, Owing, ToExpire, Becomes
    <3> QED
      BY <3>2, <3>3 DEF StepFits, NoUpload
  <2>2. CASE lock["cooldown"] # 0
    <3>1. /\ Others(h) /\ req'[h] = Idle /\ RequestFits(req'[h]) /\ ~ Taking(req'[h])
          /\ req[h].at = "cooldown"
          /\ req[h].todo = {} /\ req[h].first = {}
          /\ \A c : ~ Passing(req'[h], c) /\ ~ Spending(req'[h], c)
               /\ ~ Owing(req'[h], c) /\ ~ ToExpire(req'[h], c)
          /\ UNCHANGED <<count, left, lock, spent>>
      BY <1>1, <1>2, <1>3, <1>10, <2>2, EndFits DEF CheckCooldown, At, redis, history,
        SendFits, Sends, Request
    <3>2. /\ Others(h) /\ RequestFits(req'[h]) /\ (Taking(req'[h]) <=> Taking(req[h]))
          /\ lock' \in [Locks -> Nat] /\ spent' \in [Counters -> Nat]
          /\ count'["upload"] = count["upload"] /\ spent'["upload"] = spent["upload"]
      BY <1>1, <1>3, <3>1 DEF Becomes, RequestFits, Taking
    <3>3. ASSUME NEW c \in Gates PROVE Fits(h, c)
      BY <1>1, <1>3, <3>1, NamesAssumption DEF Fits, Rests, Same, SameLock, SameRole,
        NoneOf, Passing, Spending, Owing, ToExpire, Becomes
    <3> QED
      BY <3>2, <3>3 DEF StepFits, NoUpload
  <2> QED
    BY <1>2, <1>10, <2>1, <2>2 DEF CheckCooldown
<1>11. CASE CheckResend(h)
  <2>1. CASE count["resend"] >= MaxResend
    <3>1. /\ Becomes(h, "refuse") /\ req[h].at = "resend" /\ req[h].todo = {}
          /\ req[h].first = {}
          /\ UNCHANGED <<count, left, lock, spent>>
      BY <1>1, <1>2, <1>3, <1>11, <2>1, GoBecomes DEF CheckResend, At, redis, history,
        SendFits, Sends, Request
    <3>2. /\ Others(h) /\ RequestFits(req'[h]) /\ (Taking(req'[h]) <=> Taking(req[h]))
          /\ lock' \in [Locks -> Nat] /\ spent' \in [Counters -> Nat]
          /\ count'["upload"] = count["upload"] /\ spent'["upload"] = spent["upload"]
      BY <1>1, <1>3, <3>1 DEF Becomes, RequestFits, Taking
    <3>3. ASSUME NEW c \in Gates PROVE Fits(h, c)
      BY <1>1, <1>3, <3>1, NamesAssumption DEF Fits, Rests, Same, SameLock, SameRole,
        NoneOf, Passing, Spending, Owing, ToExpire, Becomes
    <3> QED
      BY <3>2, <3>3 DEF StepFits, NoUpload
  <2>2. CASE ~ (count["resend"] >= MaxResend)
    <3>1. /\ Becomes(h, "ipRequest") /\ req[h].at = "resend" /\ req[h].todo = {}
          /\ req[h].first = {}
          /\ UNCHANGED <<count, left, lock, spent>>
          /\ count["resend"] < Limit["resend"]
          /\ req'[h] # Idle
      BY <1>1, <1>2, <1>3, <1>11, <2>2, LimitFits, GoBecomes DEF CheckResend, At, redis,
        history, SendFits, Sends, Request
    <3>2. /\ Others(h) /\ RequestFits(req'[h]) /\ (Taking(req'[h]) <=> Taking(req[h]))
          /\ lock' \in [Locks -> Nat] /\ spent' \in [Counters -> Nat]
          /\ count'["upload"] = count["upload"] /\ spent'["upload"] = spent["upload"]
      BY <1>1, <1>3, <3>1 DEF Becomes, RequestFits, Taking
    <3>3. ASSUME NEW c \in Gates PROVE Fits(h, c)
      <4>1. CASE c = "resend"
        BY <1>1, <1>3, <3>1, <4>1, NamesAssumption DEF Fits, Passes, Same, SameLock,
          SameRole, NoneOf, Passing, Spending, Owing, ToExpire, Becomes
      <4>2. CASE c # "resend"
        BY <1>1, <1>3, <3>1, <4>2, NamesAssumption DEF Fits, Rests, Same, SameLock,
          SameRole, NoneOf, Passing, Spending, Owing, ToExpire, Becomes
      <4> QED
        BY <4>1, <4>2, <1>3
    <3> QED
      BY <3>2, <3>3 DEF StepFits, NoUpload
  <2> QED
    BY <1>2, <1>11, <2>1, <2>2 DEF CheckResend
<1>12. CASE RefuseResend(h)
  <2>1. /\ Others(h) /\ req'[h] = Idle /\ RequestFits(req'[h]) /\ ~ Taking(req'[h])
        /\ req[h].at = "refuse"
        /\ req[h].todo = {} /\ req[h].first = {}
        /\ \A c : ~ Passing(req'[h], c) /\ ~ Spending(req'[h], c) /\ ~ Owing(req'[h], c)
             /\ ~ ToExpire(req'[h], c)
        /\ TenMinutes \in Nat /\ HalfHour \in Nat /\ HalfHour >= TenMinutes
        /\ lock' \in [Locks -> Nat] /\ lock'["otp"] = HalfHour
        /\ UNCHANGED <<count, left, spent>>
        /\ \A k \in Locks \ {"otp"} : lock'[k] = lock[k]
    <3>1. /\ TenMinutes \in Nat /\ HalfHour \in Nat /\ HalfHour >= TenMinutes
          /\ "otp" \in Locks
      BY TimesAssumption DEF Locks
    <3>2. /\ req[h].at = "refuse" /\ Set("otp", HalfHour) /\ End(h)
          /\ UNCHANGED <<count, left, spent>>
      BY <1>12 DEF RefuseResend, At, history
    <3>3. req[h].todo = {} /\ req[h].first = {}
      BY <1>1, <3>2 DEF SendFits, Sends
    <3>4. /\ lock' \in [Locks -> Nat] /\ lock'["otp"] = HalfHour
          /\ \A k \in Locks \ {"otp"} : lock'[k] = lock[k]
      BY <3>1, <3>2, SetFits
    <3> QED
      BY <3>1, <3>2, <3>3, <3>4, EndFits
  <2>2. /\ Others(h) /\ RequestFits(req'[h]) /\ (Taking(req'[h]) <=> Taking(req[h]))
        /\ lock' \in [Locks -> Nat] /\ spent' \in [Counters -> Nat]
        /\ count'["upload"] = count["upload"] /\ spent'["upload"] = spent["upload"]
    BY <1>1, <1>3, <2>1 DEF Becomes, RequestFits, Taking
  <2>3. ASSUME NEW c \in Gates PROVE Fits(h, c)
    <3>1. CASE c = "otp"
      BY <1>1, <1>3, <2>1, <3>1, NamesAssumption DEF Fits, Bars, Same, SameLock, SameRole,
        NoneOf, Passing, Spending, Owing, ToExpire, Becomes
    <3>2. CASE c # "otp"
      BY <1>1, <1>3, <2>1, <3>2, NamesAssumption DEF Fits, Rests, Same, SameLock,
        SameRole, NoneOf, Passing, Spending, Owing, ToExpire, Becomes
    <3> QED
      BY <3>1, <3>2, <1>3
  <2> QED
    BY <2>2, <2>3 DEF StepFits, NoUpload
<1>13. CASE CheckIpRequest(h)
  <2>1. CASE count["ipRequest"] > MaxIpRequest
    <3>1. /\ Others(h) /\ req'[h] = Idle /\ RequestFits(req'[h]) /\ ~ Taking(req'[h])
          /\ req[h].at = "ipRequest"
          /\ req[h].todo = {} /\ req[h].first = {}
          /\ \A c : ~ Passing(req'[h], c) /\ ~ Spending(req'[h], c)
               /\ ~ Owing(req'[h], c) /\ ~ ToExpire(req'[h], c)
          /\ UNCHANGED <<count, left, lock, spent>>
      BY <1>1, <1>2, <1>3, <1>13, <2>1, EndFits DEF CheckIpRequest, Others, Idle, At,
        redis, history, SendFits, Sends, Request
    <3>2. /\ Others(h) /\ RequestFits(req'[h]) /\ (Taking(req'[h]) <=> Taking(req[h]))
          /\ lock' \in [Locks -> Nat] /\ spent' \in [Counters -> Nat]
          /\ count'["upload"] = count["upload"] /\ spent'["upload"] = spent["upload"]
      BY <1>1, <1>3, <3>1 DEF Becomes, RequestFits, Taking
    <3>3. ASSUME NEW c \in Gates PROVE Fits(h, c)
      BY <1>1, <1>3, <3>1, NamesAssumption DEF Fits, Rests, Same, SameLock, SameRole,
        NoneOf, Passing, Spending, Owing, ToExpire, Becomes
    <3> QED
      BY <3>2, <3>3 DEF StepFits, NoUpload
  <2>2. CASE ~ (count["ipRequest"] > MaxIpRequest)
    <3>1. /\ Others(h) /\ req[h].at = "ipRequest" /\ req'[h].at = "both"
          /\ req[h].todo = {} /\ req[h].first = {}
          /\ req'[h].todo = {"ipRequest", "resend"} /\ req'[h].first = {}
          /\ req'[h].email = req[h].email /\ req'[h].n = req[h].n /\ req'[h].m = req[h].m
          /\ req'[h] # Idle
          /\ count["ipRequest"] \in Nat /\ count["ipRequest"] <= Limit["ipRequest"]
          /\ UNCHANGED <<count, left, lock>>
          /\ spent' \in [Counters -> Nat]
          /\ \A c \in Counters : c \in {"ipRequest", "resend"} => spent'[c] = spent[c] + 1
          /\ \A c \in Counters : c \notin {"ipRequest", "resend"} => spent'[c] = spent[c]
      BY <1>1, <1>2, <1>3, <1>13, <2>2, LimitFits, SpendFits DEF CheckIpRequest, Others,
        Idle, At, redis, history, SendFits, Sends, Request
    <3>2. /\ Others(h) /\ RequestFits(req'[h]) /\ (Taking(req'[h]) <=> Taking(req[h]))
          /\ lock' \in [Locks -> Nat] /\ spent' \in [Counters -> Nat]
          /\ count'["upload"] = count["upload"] /\ spent'["upload"] = spent["upload"]
      BY <1>1, <1>3, <3>1 DEF Becomes, RequestFits, Taking
    <3>3. ASSUME NEW c \in Gates PROVE Fits(h, c)
      <4>1. CASE c \in {"ipRequest", "resend"}
        BY <1>1, <1>3, <3>1, <4>1, NamesAssumption DEF Fits, Tries, Same, SameLock,
          SameRole, NoneOf, Passing, Spending, Owing, ToExpire, Becomes
      <4>2. CASE c \notin {"ipRequest", "resend"}
        BY <1>1, <1>3, <3>1, <4>2, NamesAssumption DEF Fits, Rests, Same, SameLock,
          SameRole, NoneOf, Passing, Spending, Owing, ToExpire, Becomes
      <4> QED
        BY <4>1, <4>2, <1>3
    <3> QED
      BY <3>2, <3>3 DEF StepFits, NoUpload
  <2> QED
    BY <1>2, <1>13, <2>1, <2>2 DEF Request
<1>14. CASE Counted(h)
  <2>1. /\ Becomes(h, "create") /\ req[h].at = "both"
        /\ UNCHANGED <<count, left, lock, spent>>
    BY <1>1, <1>2, <1>3, <1>14, GoBecomes DEF Counted, At, redis, history, SendFits,
      Sends, Request
  <2>2. /\ Others(h) /\ RequestFits(req'[h]) /\ (Taking(req'[h]) <=> Taking(req[h]))
        /\ lock' \in [Locks -> Nat] /\ spent' \in [Counters -> Nat]
        /\ count'["upload"] = count["upload"] /\ spent'["upload"] = spent["upload"]
    BY <1>1, <1>3, <2>1 DEF Becomes, RequestFits, Taking
  <2>3. ASSUME NEW c \in Gates PROVE Fits(h, c)
    BY <1>1, <1>3, <2>1, NamesAssumption DEF Fits, Rests, Same, SameLock, SameRole,
      NoneOf, Passing, Spending, Owing, ToExpire, Becomes
  <2> QED
    BY <2>2, <2>3 DEF StepFits, NoUpload
<1>15. CASE Fallback(h)
  <2>1. CASE Go(h, "leave")
    <3>1. /\ Becomes(h, "leave") /\ req[h].at = "fallback"
          /\ UNCHANGED <<count, left, lock, spent>>
      BY <1>1, <1>2, <1>3, <1>15, <2>1, GoBecomes DEF Fallback, At, redis, history,
        SendFits, Sends, Request
    <3>2. /\ Others(h) /\ RequestFits(req'[h]) /\ (Taking(req'[h]) <=> Taking(req[h]))
          /\ lock' \in [Locks -> Nat] /\ spent' \in [Counters -> Nat]
          /\ count'["upload"] = count["upload"] /\ spent'["upload"] = spent["upload"]
      BY <1>1, <1>3, <3>1 DEF Becomes, RequestFits, Taking
    <3>3. ASSUME NEW c \in Gates PROVE Fits(h, c)
      BY <1>1, <1>3, <3>1, NamesAssumption DEF Fits, Rests, Same, SameLock, SameRole,
        NoneOf, Passing, Spending, Owing, ToExpire, Becomes
    <3> QED
      BY <3>2, <3>3 DEF StepFits, NoUpload
  <2>2. CASE Go(h, "create")
    <3>1. /\ Becomes(h, "create") /\ req[h].at = "fallback"
          /\ UNCHANGED <<count, left, lock, spent>>
      BY <1>1, <1>2, <1>3, <1>15, <2>2, GoBecomes DEF Fallback, At, redis, history,
        SendFits, Sends, Request
    <3>2. /\ Others(h) /\ RequestFits(req'[h]) /\ (Taking(req'[h]) <=> Taking(req[h]))
          /\ lock' \in [Locks -> Nat] /\ spent' \in [Counters -> Nat]
          /\ count'["upload"] = count["upload"] /\ spent'["upload"] = spent["upload"]
      BY <1>1, <1>3, <3>1 DEF Becomes, RequestFits, Taking
    <3>3. ASSUME NEW c \in Gates PROVE Fits(h, c)
      BY <1>1, <1>3, <3>1, NamesAssumption DEF Fits, Rests, Same, SameLock, SameRole,
        NoneOf, Passing, Spending, Owing, ToExpire, Becomes
    <3> QED
      BY <3>2, <3>3 DEF StepFits, NoUpload
  <2> QED
    BY <1>2, <1>15, <2>1, <2>2 DEF Fallback
<1>16. CASE CreateCode(h)
  <2>1. /\ Becomes(h, "rest") /\ req[h].at = "create"
        /\ UNCHANGED <<count, left, lock, spent>>
    BY <1>1, <1>2, <1>3, <1>16, GoBecomes DEF CreateCode, At, redis, history, SendFits,
      Sends, Request
  <2>2. /\ Others(h) /\ RequestFits(req'[h]) /\ (Taking(req'[h]) <=> Taking(req[h]))
        /\ lock' \in [Locks -> Nat] /\ spent' \in [Counters -> Nat]
        /\ count'["upload"] = count["upload"] /\ spent'["upload"] = spent["upload"]
    BY <1>1, <1>3, <2>1 DEF Becomes, RequestFits, Taking
  <2>3. ASSUME NEW c \in Gates PROVE Fits(h, c)
    BY <1>1, <1>3, <2>1, NamesAssumption DEF Fits, Rests, Same, SameLock, SameRole,
      NoneOf, Passing, Spending, Owing, ToExpire, Becomes
  <2> QED
    BY <2>2, <2>3 DEF StepFits, NoUpload
<1>17. CASE SetCooldown(h)
  <2>1. /\ Becomes(h, "leave") /\ req[h].at = "rest"
        /\ lock' \in [Locks -> Nat] /\ lock'["cooldown"] = Cooldown
        /\ UNCHANGED <<count, left, spent>>
        /\ \A k \in Locks \ {"cooldown"} : lock'[k] = lock[k]
        /\ "cooldown" \notin Locked
    BY <1>1, <1>2, <1>3, <1>17, GoBecomes, TimesAssumption, LimitFits, SetFits
      DEF SetCooldown, Fault, Locks, At, redis, history, SendFits, Sends, Request
  <2>2. /\ Others(h) /\ RequestFits(req'[h]) /\ (Taking(req'[h]) <=> Taking(req[h]))
        /\ lock' \in [Locks -> Nat] /\ spent' \in [Counters -> Nat]
        /\ count'["upload"] = count["upload"] /\ spent'["upload"] = spent["upload"]
    BY <1>1, <1>3, <2>1 DEF Becomes, RequestFits, Taking
  <2>3. ASSUME NEW c \in Gates PROVE Fits(h, c)
    BY <1>1, <1>3, <2>1, NamesAssumption DEF Fits, Rests, Same, SameLock, SameRole,
      NoneOf, Passing, Spending, Owing, ToExpire, Becomes
  <2> QED
    BY <2>2, <2>3 DEF StepFits, NoUpload
<1>18. CASE LeaveSend(h)
  <2>1. /\ Others(h) /\ req'[h] = Idle /\ RequestFits(req'[h]) /\ ~ Taking(req'[h])
        /\ req[h].at = "leave"
        /\ req[h].todo = {} /\ req[h].first = {}
        /\ \A c : ~ Passing(req'[h], c) /\ ~ Spending(req'[h], c) /\ ~ Owing(req'[h], c)
             /\ ~ ToExpire(req'[h], c)
        /\ UNCHANGED <<count, left, lock, spent>>
    BY <1>1, <1>2, <1>3, <1>18, EndFits DEF LeaveSend, At, redis, history, SendFits,
      Sends, Request
  <2>2. /\ Others(h) /\ RequestFits(req'[h]) /\ (Taking(req'[h]) <=> Taking(req[h]))
        /\ lock' \in [Locks -> Nat] /\ spent' \in [Counters -> Nat]
        /\ count'["upload"] = count["upload"] /\ spent'["upload"] = spent["upload"]
    BY <1>1, <1>3, <2>1 DEF Becomes, RequestFits, Taking
  <2>3. ASSUME NEW c \in Gates PROVE Fits(h, c)
    BY <1>1, <1>3, <2>1, NamesAssumption DEF Fits, Rests, Same, SameLock, SameRole,
      NoneOf, Passing, Spending, Owing, ToExpire, Becomes
  <2> QED
    BY <2>2, <2>3 DEF StepFits, NoUpload
<1>19. ASSUME NEW d \in Counters, CountSend(h, d) PROVE StepFits(h) /\ NoUpload(h)
  <2>1. /\ Others(h) /\ req'[h].at = req[h].at /\ req[h].at \in Sends
        /\ req'[h].email = req[h].email /\ req'[h].n = req[h].n /\ req'[h].m = req[h].m
        /\ d \in {"ipRequest", "resend"}
        /\ d \in req[h].todo /\ req'[h].todo = req[h].todo \ {d}
        /\ req'[h].first = IF count[d] = 0 THEN req[h].first \cup {d} ELSE req[h].first
        /\ count'[d] = count[d] + 1
        /\ left'[d] = IF count[d] = 0 THEN Forever ELSE left[d]
        /\ \A e \in Counters \ {d} : count'[e] = count[e] /\ left'[e] = left[e]
        /\ UNCHANGED <<lock, spent>>
    BY <1>1, <1>2, <1>3, <1>19, SendCounts DEF SendFits, RequestFits, CountSend
  <2>2. /\ Others(h) /\ RequestFits(req'[h]) /\ (Taking(req'[h]) <=> Taking(req[h]))
        /\ lock' \in [Locks -> Nat] /\ spent' \in [Counters -> Nat]
        /\ count'["upload"] = count["upload"] /\ spent'["upload"] = spent["upload"]
    BY <1>1, <1>3, <2>1 DEF Becomes, Sends, RequestFits, Taking
  <2>3. ASSUME NEW c \in Gates PROVE Fits(h, c)
    <3>1. CASE c = d
      BY <1>1, <1>3, <2>1, <3>1, NamesAssumption DEF Sends, Fits, Adds, Same, SameLock,
        SameRole, NoneOf, Passing, Spending, Owing, ToExpire, Becomes
    <3>2. CASE c # d
      BY <1>1, <1>3, <2>1, <3>2, NamesAssumption DEF Sends, Fits, Rests, Same, SameLock,
        SameRole, NoneOf, Passing, Spending, Owing, ToExpire, Becomes
    <3> QED
      BY <3>1, <3>2, <1>3
  <2> QED
    BY <2>2, <2>3 DEF StepFits, NoUpload
<1>20. ASSUME NEW d \in Counters, ExpireSend(h, d) PROVE StepFits(h) /\ NoUpload(h)
  <2>1. /\ Others(h) /\ req'[h].at = req[h].at /\ req[h].at \in Sends
        /\ req'[h].email = req[h].email /\ req'[h].n = req[h].n /\ req'[h].m = req[h].m
        /\ d \in {"ipRequest", "resend"}
        /\ d \in req[h].first /\ req'[h].todo = req[h].todo
        /\ req'[h].first = req[h].first \ {d}
        /\ left'[d] = IF count[d] = 0 THEN 0 ELSE Window[d]
        /\ \A e \in Counters \ {d} : left'[e] = left[e]
        /\ UNCHANGED <<count, lock, spent>>
    BY <1>1, <1>2, <1>3, <1>20, ExpireFits DEF SendFits, RequestFits, ExpireSend, Others,
      history, Request
  <2>2. /\ Others(h) /\ RequestFits(req'[h]) /\ (Taking(req'[h]) <=> Taking(req[h]))
        /\ lock' \in [Locks -> Nat] /\ spent' \in [Counters -> Nat]
        /\ count'["upload"] = count["upload"] /\ spent'["upload"] = spent["upload"]
    BY <1>1, <1>3, <2>1 DEF Becomes, Sends, RequestFits, Taking
  <2>3. ASSUME NEW c \in Gates PROVE Fits(h, c)
    <3>1. CASE c = d
      BY <1>1, <1>3, <2>1, <3>1, NamesAssumption DEF Sends, Fits, Times, Same, SameLock,
        SameRole, NoneOf, Passing, Spending, Owing, ToExpire, Becomes
    <3>2. CASE c # d
      BY <1>1, <1>3, <2>1, <3>2, NamesAssumption DEF Sends, Fits, Rests, Same, SameLock,
        SameRole, NoneOf, Passing, Spending, Owing, ToExpire, Becomes
    <3> QED
      BY <3>1, <3>2, <1>3
  <2> QED
    BY <2>2, <2>3 DEF StepFits, NoUpload
<1>21. \A d \in Counters : ~ FailSend(h, d)
  BY <1>2 DEF FailSend, Fault
<1> QED
  BY <1>4, <1>5, <1>6, <1>7, <1>8, <1>9, <1>10, <1>11, <1>12, <1>13, <1>14, <1>15, <1>16,
    <1>17, <1>18, <1>19, <1>20, <1>21 DEF BeginCode, CodeStep


\* How a step changes the number of uploads that are counted and not taken.
LEMMA TakenStep ==
  ASSUME NEW h \in Handlers, Others(h)
  PROVE  /\ Cardinality(Taken) \in Nat /\ Cardinality(Taken') \in Nat
         /\ (Taking(req'[h]) <=> Taking(req[h])) => Cardinality(Taken') = Cardinality(Taken)
         /\ ~ Taking(req'[h])
              /\ Taking(req[h]) => Cardinality(Taken') = Cardinality(Taken) - 1
         /\ Taking(req'[h])
              /\ ~ Taking(req[h]) => Cardinality(Taken') = Cardinality(Taken) + 1
<1> DEFINE S == Taken
           T == Taken'
<1>1. S \subseteq Handlers /\ T \subseteq Handlers
  BY DEF Taken
<1>2. /\ \A g \in Handlers : g \in S <=> Taking(req[g])
      /\ \A g \in Handlers : g \in T <=> Taking(req'[g])
  BY DEF Taken
<1>3. \A g \in Handlers \ {h} : g \in T <=> g \in S
  BY <1>2 DEF Others
<1> HIDE DEF S, T
<1>4. /\ ((h \in S <=> h \in T) => Cardinality(T) = Cardinality(S))
      /\ h \in T /\ h \notin S => Cardinality(T) = Cardinality(S) + 1
      /\ h \notin T /\ h \in S => Cardinality(T) = Cardinality(S) - 1
  BY <1>1, <1>3, CardinalityStep
<1>5. Cardinality(S) \in Nat /\ Cardinality(T) \in Nat
  BY <1>1, Countable
<1> QED
  BY <1>2, <1>4, <1>5 DEF S, T

\* A step that leaves uploads alone.
LEMMA UploadsRest ==
  ASSUME UploadsFit, NEW h \in Handlers, Others(h), NoUpload(h)
  PROVE  UploadsFit'
<1>1. Cardinality(Taken') = Cardinality(Taken)
  BY TakenStep DEF NoUpload
<1> QED
  BY <1>1 DEF UploadsFit, NoUpload

\* The steps of an upload.
LEMMA UploadFits ==
  ASSUME RecentInv, LimitsTyped, UploadsFit, NEW h \in Handlers, Upload(h) \/ UploadStep(h)
  PROVE  StepFits(h) /\ UploadsFit'
<1>1. /\ req[h] \in Request /\ SendFits(req[h]) /\ RequestFits(req[h])
      /\ lock \in [Locks -> Nat] /\ spent \in [Counters -> Nat]
      /\ count \in [Counters -> Nat]
      /\ req[h].email \in Emails \cup {Unknown} /\ req[h].n \in Nat /\ req[h].m \in Nat
      /\ MaxUploads \in Nat
  BY LimitsAssumption DEF RecentInv, CountersTyped, LimitsTyped, Request
<1>2. Gates = {"ip", "otp", "resend", "ipRequest"} \cup Emails /\ Gates \subseteq Counters
      /\ "upload" \in Counters /\ "upload" \notin Gates /\ "upload" \notin Emails
      /\ Locked = {"ip", "otp"} \cup Emails
  BY LimitFits DEF Gates, Counters, Locked
<1>3. ASSUME \A d \in Gates : count'[d] = count[d] /\ left'[d] = left[d] /\ spent'[d] = spent[d],
             UNCHANGED lock, spent' \in [Counters -> Nat], Others(h), RequestFits(req'[h]),
             \A r \in {req[h], req'[h]} : r.todo = {} /\ r.first = {}
               /\ r.at \in {"idle", "countUpload", "expireUpload", "upload"}
      PROVE  StepFits(h)
  <2>1. ASSUME NEW c \in Gates PROVE Fits(h, c)
    BY <1>2, <1>3, <2>1 DEF Fits, Rests, Same, SameLock, SameRole, NoneOf, Passing,
      Spending, Owing, ToExpire
  <2> QED
    BY <1>1, <1>3, <2>1 DEF StepFits
<1>4. CASE Upload(h)
  <2>1. /\ Becomes(h, "countUpload") /\ req[h] = Idle
        /\ UNCHANGED <<count, left, lock, spent>>
    BY <1>4, GoBecomes DEF Upload, Ready, redis, history
  <2>2. /\ req[h].at = "idle" /\ req[h].todo = {} /\ req[h].first = {}
    BY <2>1 DEF Idle
  <2>3. NoUpload(h) /\ RequestFits(req'[h])
    BY <2>1, <2>2 DEF NoUpload, Taking, Becomes, RequestFits
  <2> QED
    BY <1>1, <1>3, <2>1, <2>2, <2>3, UploadsRest DEF Becomes
<1>5. CASE CountUpload(h)
  <2>1. /\ Others(h) /\ req[h].at = "countUpload"
        /\ req'[h].at = IF count["upload"] = 0 THEN "expireUpload" ELSE "upload"
        /\ req'[h].todo = {} /\ req'[h].first = {} /\ req[h].todo = {} /\ req[h].first = {}
        /\ req'[h].n = count["upload"] + 1
        /\ count'["upload"] = count["upload"] + 1
        /\ \A d \in Counters \ {"upload"} : count'[d] = count[d] /\ left'[d] = left[d]
        /\ UNCHANGED <<lock, spent>>
    BY <1>1, <1>2, <1>5, CountsFits DEF CountUpload, SendFits, Sends
  <2>2. RequestFits(req'[h]) /\ ~ Taking(req[h])
        /\ (Taking(req'[h]) <=> count["upload"] + 1 <= MaxUploads)
    BY <2>1 DEF RequestFits, Taking
  <2>3. StepFits(h)
    BY <1>1, <1>2, <1>3, <2>1, <2>2
  <2>4. UploadsFit'
    <3> DEFINE t == Cardinality(Taken)
               u == Cardinality(Taken')
    <3>1. /\ t \in Nat /\ u \in Nat
          /\ u = IF count["upload"] + 1 <= MaxUploads THEN t + 1 ELSE t
      BY <2>1, <2>2, TakenStep
    <3>2. spent["upload"] + t <= count["upload"] /\ spent["upload"] + t <= MaxUploads
      BY DEF UploadsFit
    <3>3. spent'["upload"] + u <= count'["upload"] /\ spent'["upload"] + u <= MaxUploads => UploadsFit'
      BY DEF UploadsFit
    <3>4. spent["upload"] \in Nat /\ count["upload"] \in Nat /\ spent'["upload"] = spent["upload"]
      BY <1>1, <1>2, <2>1
    <3> HIDE DEF t, u
    <3> QED
      BY <1>1, <2>1, <3>1, <3>2, <3>3, <3>4
  <2> QED
    BY <2>3, <2>4
<1>6. CASE ExpireUpload(h)
  <2>1. /\ Becomes(h, "upload") /\ req[h].at = "expireUpload"
        /\ UNCHANGED <<count, lock, spent>>
        /\ \A d \in Counters \ {"upload"} : left'[d] = left[d]
    BY <1>2, <1>6, GoBecomes, ExpireFits DEF ExpireUpload, Expires, At, history
  <2>2. req[h].todo = {} /\ req[h].first = {}
    BY <1>1, <2>1 DEF SendFits, Sends
  <2>3. NoUpload(h) /\ RequestFits(req'[h])
    BY <2>1, <2>2 DEF NoUpload, Taking, Becomes, RequestFits
  <2> QED
    BY <1>1, <1>2, <1>3, <2>1, <2>2, <2>3, UploadsRest DEF Becomes
<1>7. CASE PassUpload(h)
  <2>1. /\ Others(h) /\ req'[h] = Idle /\ RequestFits(req'[h]) /\ ~ Taking(req'[h])
        /\ req[h].at = "upload" /\ UNCHANGED <<count, left, lock>>
    BY <1>7, EndFits DEF PassUpload, At, redis
  <2>2. /\ req[h].todo = {} /\ req[h].first = {}
        /\ req'[h].at = "idle" /\ req'[h].todo = {} /\ req'[h].first = {}
    BY <1>1, <2>1 DEF SendFits, Sends, Idle
  <2>3. /\ spent' \in [Counters -> Nat]
        /\ \A d \in Counters \ {"upload"} : spent'[d] = spent[d]
        /\ spent'["upload"] = spent["upload"] + (IF Taking(req[h]) THEN 1 ELSE 0)
    <3>1. CASE req[h].n > MaxUploads
      BY <1>1, <1>2, <1>7, <2>1, <3>1 DEF PassUpload, Taking
    <3>2. CASE ~ (req[h].n > MaxUploads)
      <4>1. Spend({"upload"})
        BY <1>7, <3>2 DEF PassUpload
      <4> QED
        BY <1>1, <1>2, <2>1, <3>2, <4>1, SpendFits DEF Taking
    <3> QED
      BY <3>1, <3>2
  <2>4. StepFits(h)
    BY <1>1, <1>2, <1>3, <2>1, <2>2, <2>3
  <2>5. UploadsFit'
    <3> DEFINE t == Cardinality(Taken)
               u == Cardinality(Taken')
    <3>1. /\ t \in Nat /\ u \in Nat /\ u = IF Taking(req[h]) THEN t - 1 ELSE t
      BY <2>1, TakenStep
    <3>2. spent["upload"] + t <= count["upload"] /\ spent["upload"] + t <= MaxUploads
      BY DEF UploadsFit
    <3>3. spent'["upload"] + u <= count'["upload"] /\ spent'["upload"] + u <= MaxUploads => UploadsFit'
      BY DEF UploadsFit
    <3>4. spent["upload"] \in Nat /\ count["upload"] \in Nat /\ count'["upload"] = count["upload"]
      BY <1>1, <1>2, <2>1
    <3> HIDE DEF t, u
    <3> QED
      BY <1>1, <2>3, <3>1, <3>2, <3>3, <3>4
  <2> QED
    BY <2>4, <2>5
<1> QED
  BY <1>4, <1>5, <1>6, <1>7 DEF UploadStep

\* A command that fails is counted, and no other step counts one.
LEMMA FaultsOnlyGrow ==
  ASSUME faults \in Nat, NEW h \in Handlers,
         BeginLogin(h) \/ BeginCode(h) \/ Upload(h) \/ Step(h)
  PROVE  faults' \in Nat /\ (faults' = 0 => UNCHANGED faults /\ ~ Fail(h))
<1>1. UNCHANGED faults => ~ Fail(h)
  BY DEF Fail, Fault
<1>2. faults' = faults \/ faults' = faults + 1
  <2>1. CASE BeginLogin(h)
    BY <2>1 DEF BeginLogin, Login, Fault, NoFault
  <2>2. CASE BeginCode(h) \/ Upload(h)
    BY <2>2 DEF BeginCode, VerifyOtp, SendOtp, Upload, Fault, NoFault
  <2>3. CASE LoginStep(h)
    BY <2>3 DEF LoginStep, FindUser, CheckPair, Compare, CountIp, ExpireIp, CountPair,
      ExpirePair,
      LockIp, LockPair, ClearIp, ClearPair, Counts, Expires, Fault, NoFault
  <2>4. CASE CodeStep(h)
    BY <2>4 DEF CodeStep, CompareCode, CountOtp, ExpireOtp, LockOtp, CheckCooldown,
      CheckResend,
      RefuseResend, CheckIpRequest, Counted, Fallback, CreateCode, SetCooldown, LeaveSend,
      CountSend, ExpireSend, FailSend, Counts, Expires, Fault, NoFault
  <2>5. CASE UploadStep(h) \/ Fail(h)
    BY <2>5 DEF UploadStep, CountUpload, ExpireUpload, PassUpload, Fail, Counts, Expires,
      Fault
  <2> QED
    BY <2>1, <2>2, <2>3, <2>4, <2>5 DEF Step
<1> QED
  BY <1>1, <1>2

\* What a counter lets through only grows.
LEMMA AllowedGrows ==
  ASSUME NEW c \in Gates, overlapped => overlapped', overlapped' => overlapped \/ Handlers # {}
  PROVE  Allowed(c) \in Nat /\ Allowed(c)' \in Nat /\ Allowed(c) <= Allowed(c)'
<1> DEFINE all == Cardinality(Handlers)
<1>1. all \in Nat
  BY HandlersAssumption, FS_CardinalityType
<1>2. Limit[c] \in Nat \ {0} /\ c # "upload"
  BY LimitFits DEF Gates
<1>3. Handlers # {} => all # 0
  BY HandlersAssumption, FS_EmptySet
<1>4. PICK n \in Nat \ {0} : n = Limit[c] + (IF c = "ipRequest" THEN 1 ELSE 0)
  BY <1>2
<1>5. /\ overlapped => Allowed(c) = n + (all - 1)
      /\ ~ overlapped => Allowed(c) = n
      /\ overlapped' => Allowed(c)' = n + (all - 1)
      /\ ~ overlapped' => Allowed(c)' = n
  BY <1>1, <1>2, <1>4 DEF Allowed
<1> HIDE DEF all
<1> QED
  BY <1>1, <1>3, <1>4, <1>5

\* A unit of time takes as much from a lock as from its counter.
LEMMA TickFits ==
  ASSUME RecentInv, LimitsTyped, \A c \in Gates : GateFits(c), UploadsFit,
         Tick, overlapped => overlapped', overlapped' => overlapped \/ Handlers # {}
  PROVE  LimitsTyped' /\ (\A c \in Gates : GateFits(c)') /\ UploadsFit'
<1>1. /\ UNCHANGED req
      /\ \A c \in Counters :
           /\ left'[c] = IF left[c] = Forever THEN Forever ELSE Less(left[c])
           /\ count'[c] = IF left[c] = 1 THEN 0 ELSE count[c]
           /\ spent'[c] = IF left[c] = 1 THEN 0 ELSE spent[c]
      /\ \A l \in Locks : lock'[l] = Less(lock[l])
      /\ lock' = [l \in Locks |-> lock'[l]] /\ spent' = [c \in Counters |-> spent'[c]]
  BY DEF Tick, Over
<1>2. \A c : ~ Timing(c)
  BY DEF Tick, Quick, Timing, ToExpire, RecentInv, SendFits, Sends
<1>3. LimitsTyped'
  <2>1. \A l \in Locks : Less(lock[l]) \in Nat
    BY DEF LimitsTyped, Less
  <2>2. \A c \in Counters : spent'[c] \in Nat
    BY <1>1 DEF LimitsTyped
  <2>3. \A h \in Handlers : RequestFits(req'[h])
    BY <1>1 DEF LimitsTyped
  <2>4. lock' \in [Locks -> Nat] /\ spent' \in [Counters -> Nat]
    BY <1>1, <2>1, <2>2
  <2> QED
    BY <2>3, <2>4 DEF LimitsTyped
<1>4. ASSUME NEW c \in Gates PROVE GateFits(c)'
  <2> DEFINE p == Cardinality(Passed(c))
             s == Cardinality(Spenders(c))
             o == Cardinality(Owers(c))
  <2>1. /\ Passed(c)' = Passed(c) /\ Spenders(c)' = Spenders(c) /\ Owers(c)' = Owers(c)
        /\ (Timing(c)' <=> Timing(c))
    BY <1>1 DEF Passed, Spenders, Owers, Timing
  <2>2. p \in Nat /\ s \in Nat /\ o \in Nat
    BY Countable DEF Passed, Spenders, Owers
  <2>3. GateFits(c)
    OBVIOUS
  <2>4. /\ spent[c] <= count[c] + s /\ spent[c] + p <= Allowed(c)
        /\ c \in Locked => /\ left[c] # Forever /\ left[c] <= TenMinutes
                           /\ count[c] < Limit[c] + o \/ lock[c] >= left[c]
    BY <1>2, <2>3 DEF GateFits, LockFits
  <2>5. /\ spent'[c] <= count'[c] + s /\ spent'[c] + p <= Allowed(c)'
        /\ c \in Locked => /\ left'[c] # Forever /\ left'[c] <= TenMinutes
                           /\ count'[c] < Limit[c] + o \/ lock'[c] >= left'[c]
        => GateFits(c)'
    BY <1>2, <2>1 DEF GateFits, LockFits
  <2>6. Allowed(c) \in Nat /\ Allowed(c)' \in Nat /\ Allowed(c) <= Allowed(c)'
    BY AllowedGrows
  <2>7. /\ c \in Counters /\ count[c] \in Nat /\ spent[c] \in Nat /\ left[c] \in 0..Forever
        /\ left[c] = 0 <=> count[c] = 0
        /\ c \in Locked => lock[c] \in Nat /\ c \in Locks
        /\ Limit[c] \in Nat \ {0} /\ TenMinutes \in Nat /\ Forever \in Nat
        /\ TenMinutes < Forever
    BY GateTyped, LimitFits
  <2> HIDE DEF p, s, o
  <2>8. spent'[c] <= count'[c] + s /\ spent'[c] + p <= Allowed(c)'
    BY <1>1, <2>2, <2>4, <2>6, <2>7
  <2>9. ASSUME c \in Locked
        PROVE  /\ left'[c] # Forever /\ left'[c] <= TenMinutes
               /\ count'[c] < Limit[c] + o \/ lock'[c] >= left'[c]
    <3>1. /\ left'[c] = Less(left[c]) /\ lock'[c] = Less(lock[c])
          /\ count'[c] = IF left[c] = 1 THEN 0 ELSE count[c]
      BY <1>1, <2>4, <2>7, <2>9
    <3> QED
      BY <2>2, <2>4, <2>7, <2>9, <3>1 DEF Less
  <2> QED
    BY <2>5, <2>8, <2>9
<1>5. UploadsFit'
  <2>1. Taken = {} /\ Taken' = {}
    BY <1>1 DEF Tick, Quick, Taken, Taking
  <2>2. Cardinality(Taken) = 0 /\ Cardinality(Taken') = 0
    BY <2>1, FS_EmptySet
  <2>3. /\ "upload" \in Counters /\ MaxUploads \in Nat
        /\ count["upload"] \in Nat /\ spent["upload"] \in Nat
    BY LimitsAssumption DEF Counters, RecentInv, CountersTyped, LimitsTyped
  <2> QED
    BY <1>1, <2>2, <2>3 DEF UploadsFit
<1> QED
  BY <1>3, <1>4, <1>5


\* Two requests in flight together are remembered.
LEMMA OverlapRemembered ==
  ASSUME overlapped' = (overlapped \/ \E g, h \in InFlight' : g # h)
  PROVE  /\ overlapped => overlapped'
         /\ overlapped' => overlapped \/ Handlers # {}
         /\ \A h \in Handlers : Others(h) => OneAtATime(h)
<1>1. overlapped => overlapped'
  OBVIOUS
<1>2. overlapped' => overlapped \/ Handlers # {}
  BY DEF InFlight
<1>3. ASSUME NEW h \in Handlers, Others(h) PROVE OneAtATime(h)
  <2>1. ASSUME ~ overlapped', req'[h] # Idle, NEW g \in Handlers \ {h} PROVE req[g] = Idle
    <3>1. h \in InFlight'
      BY <2>1 DEF InFlight, Ready
    <3>2. g \notin InFlight'
      BY <2>1, <3>1
    <3>3. req'[g] = Idle
      BY <2>1, <3>2 DEF InFlight, Ready
    <3> QED
      BY <1>3, <3>3 DEF Others
  <2> QED
    BY <1>1, <2>1 DEF OneAtATime
<1> QED
  BY <1>1, <1>2, <1>3

\* LimitInv always holds.
LEMMA LimitKept == LimitInv /\ [MCNext]_mcvars => LimitInv'
<1> SUFFICES ASSUME LimitInv, [MCNext]_mcvars PROVE LimitInv'
  OBVIOUS
<1> DEFINE Fit == LimitsTyped /\ (\A c \in Gates : GateFits(c)) /\ UploadsFit
<1>1. /\ RecentInv /\ faults \in Nat /\ (faults = 0 => Fit)
      /\ RecentInv' /\ faults' \in Nat /\ (faults' = 0 => Fit') => LimitInv'
  BY DEF LimitInv
<1>2. ASSUME NEW h \in Handlers, BeginLogin(h) \/ BeginCode(h) \/ Upload(h) \/ Step(h),
             overlapped' = (overlapped \/ \E g, k \in InFlight' : g # k)
      PROVE  LimitInv'
  <2>1. BeginLogin(h) \/ BeginCode(h) \/ Upload(h) \/ Step(h)
    BY <1>2
  <2>2. RecentInv'
    BY <1>1, <2>1, RecentKept DEF Next
  <2>3. faults' \in Nat /\ (faults' = 0 => UNCHANGED faults /\ ~ Fail(h))
    BY <1>1, <2>1, FaultsOnlyGrow
  <2>4. ASSUME faults' = 0 PROVE Fit'
    <3>1. /\ UNCHANGED faults /\ ~ Fail(h)
          /\ LimitsTyped /\ (\A c \in Gates : GateFits(c)) /\ UploadsFit
      BY <1>1, <2>3, <2>4
    <3>2. StepFits(h) /\ UploadsFit'
      <4>1. CASE BeginLogin(h) \/ LoginStep(h)
        <5>1. StepFits(h) /\ NoUpload(h)
          BY <1>1, <3>1, <4>1, LoginFits
        <5> QED
          BY <3>1, <5>1, UploadsRest DEF StepFits
      <4>2. CASE BeginCode(h) \/ CodeStep(h)
        <5>1. StepFits(h) /\ NoUpload(h)
          BY <1>1, <3>1, <4>2, CodeFits
        <5> QED
          BY <3>1, <5>1, UploadsRest DEF StepFits
      <4>3. CASE Upload(h) \/ UploadStep(h)
        BY <1>1, <3>1, <4>3, UploadFits
      <4> QED
        BY <2>1, <3>1, <4>1, <4>2, <4>3 DEF Step
    <3>3. LimitsTyped'
      BY <3>1, <3>2 DEF LimitsTyped, StepFits, Others
    <3>4. OneAtATime(h)
      BY <1>2, <3>2, OverlapRemembered DEF StepFits
    <3>5. ASSUME NEW c \in Gates PROVE GateFits(c)'
      BY <1>1, <3>1, <3>2, <3>4, GateKept DEF StepFits
    <3> QED
      BY <3>2, <3>3, <3>5
  <2> HIDE DEF Fit
  <2> QED
    BY <1>1, <2>2, <2>3, <2>4
<1>3. ASSUME Tick, overlapped' = (overlapped \/ \E g, k \in InFlight' : g # k) PROVE LimitInv'
  <2>1. RecentInv' /\ UNCHANGED faults
    BY <1>1, <1>3, RecentKept DEF Next, Tick
  <2>2. ASSUME Fit PROVE Fit'
    <3>1. LimitsTyped /\ (\A c \in Gates : GateFits(c)) /\ UploadsFit
      BY <2>2
    <3>2. /\ overlapped => overlapped'
          /\ overlapped' => overlapped \/ Handlers # {}
      BY <1>3, OverlapRemembered
    <3>3. LimitsTyped' /\ (\A c \in Gates : GateFits(c)') /\ UploadsFit'
      BY <1>1, <1>3, <3>1, <3>2, TickFits
    <3> QED
      BY <3>3
  <2> HIDE DEF Fit
  <2> QED
    BY <1>1, <2>1, <2>2
<1>4. ASSUME UNCHANGED vars, overlapped => overlapped', overlapped' => overlapped \/ Handlers # {}
      PROVE  LimitInv'
  <2>1. UNCHANGED <<count, left, lock, req, spent, faults>>
    BY <1>4 DEF vars, redis, history
  <2>2. RecentInv'
    BY <1>1, <1>4, RecentKept
  <2>3. ASSUME Fit PROVE Fit'
    <3>1. LimitsTyped' /\ UploadsFit'
      BY <2>1, <2>3 DEF LimitsTyped, UploadsFit, Taken
    <3>2. ASSUME NEW c \in Gates PROVE GateFits(c)'
      <4>1. Allowed(c) \in Nat /\ Allowed(c)' \in Nat /\ Allowed(c) <= Allowed(c)'
        BY <1>4, AllowedGrows
      <4>2. /\ GateFits(c) /\ spent[c] \in Nat /\ Cardinality(Passed(c)) \in Nat
        BY <1>1, <2>3, GateTyped, Countable DEF Passed
      <4>3. /\ spent[c] <= count[c] + Cardinality(Spenders(c))
            /\ spent[c] + Cardinality(Passed(c)) <= Allowed(c)'
            /\ c \in Locked => LockFits(c)
        BY <4>1, <4>2 DEF GateFits
      <4>4. (c \in Locked => LockFits(c)')
        BY <2>1, <4>3 DEF LockFits, Timing, Owers
      <4> QED
        BY <2>1, <4>3, <4>4 DEF GateFits, Passed, Spenders
    <3> QED
      BY <3>1, <3>2
  <2> HIDE DEF Fit
  <2> QED
    BY <1>1, <2>1, <2>2, <2>3
<1>5. CASE UNCHANGED mcvars
  BY <1>4, <1>5 DEF mcvars
<1>6. CASE MCNext
  <2>1. overlapped' = (overlapped \/ \E g, h \in InFlight' : g # h)
    BY <1>6 DEF MCNext
  <2>2. CASE \E h \in Handlers : BeginLogin(h) \/ BeginCode(h) \/ Upload(h) \/ Step(h)
    BY <1>2, <2>1, <2>2
  <2>3. CASE Tick
    BY <1>3, <2>1, <2>3
  <2>4. CASE UNCHANGED vars
    BY <1>4, <2>1, <2>4, OverlapRemembered
  <2> QED
    BY <1>6, <2>2, <2>3, <2>4 DEF MCNext, GoOn, Begin
<1> QED
  BY <1>5, <1>6

\* Limits hold, for any number of requests, addresses and units of time, and
\* whatever the limits and the windows are.  What a counter has let through
\* is counted or about to be, a counter at its limit is locked for as long as
\* it lasts or about to be, and so a request that is let through beyond the
\* limit has looked while another had yet to count or to lock.
THEOREM LimitsAreKept == MCSpec => []LimitHolds
<1>1. MCInit => LimitInv
  <2> SUFFICES ASSUME MCInit PROVE LimitInv
    OBVIOUS
  <2>1. Init
    BY DEF MCInit
  <2>2. RecentInv
    BY <2>1, WindowFits DEF Init, Idle, RecentInv, CountersTyped, Request, Statements,
      Sends,
      SendFits, EndsInTime, ToExpire
  <2>3. /\ faults = 0 /\ req = [h \in Handlers |-> Idle]
        /\ count = [c \in Counters |-> 0] /\ spent = [c \in Counters |-> 0]
        /\ left = [c \in Counters |-> 0] /\ lock = [l \in Locks |-> 0]
    BY <2>1 DEF Init
  <2>4. ~ overlapped
    BY DEF MCInit
  <2>5. LimitsTyped
    BY <2>3 DEF LimitsTyped, RequestFits, Idle
  <2>6. ASSUME NEW c \in Gates PROVE GateFits(c)
    <3>1. Passed(c) = {} /\ Spenders(c) = {} /\ Owers(c) = {} /\ ~ Timing(c)
      BY <2>3 DEF Passed, Spenders, Owers, Timing, Passing, Spending, Owing, ToExpire, Idle
    <3>2. Cardinality(Passed(c)) = 0 /\ Cardinality(Spenders(c)) = 0 /\ Cardinality(Owers(c)) = 0
      BY <3>1, FS_EmptySet
    <3>3. /\ c \in Counters /\ Limit[c] \in Nat \ {0} /\ TenMinutes \in Nat
          /\ Forever \in Nat
          /\ Forever # 0
      BY LimitFits, TimesAssumption DEF Gates, Forever
    <3>4. count[c] = 0 /\ spent[c] = 0 /\ left[c] = 0
      BY <2>3, <3>3
    <3>5. Allowed(c) \in Nat
      BY <2>4, <3>3 DEF Allowed
    <3> QED
      BY <3>2, <3>3, <3>4, <3>5 DEF GateFits, LockFits
  <2>7. UploadsFit
    <3>1. Taken = {}
      BY <2>3 DEF Taken, Taking, Idle
    <3>2. "upload" \in Counters /\ MaxUploads \in Nat /\ Cardinality(Taken) = 0
      BY <3>1, LimitsAssumption, FS_EmptySet DEF Counters
    <3> QED
      BY <2>3, <3>2 DEF UploadsFit
  <2> QED
    BY <2>2, <2>3, <2>5, <2>6, <2>7 DEF LimitInv
<1>2. LimitInv /\ [MCNext]_mcvars => LimitInv'
  BY LimitKept
<1>3. LimitInv => LimitHolds
  <2> SUFFICES ASSUME LimitInv, faults = 0, NEW c \in Counters PROVE spent[c] <= Allowed(c)
    BY DEF LimitHolds
  <2>1. CASE c \in Gates
    <3>1. GateFits(c) /\ RecentInv /\ LimitsTyped
      BY <2>1 DEF LimitInv
    <3>2. spent[c] \in Nat /\ Cardinality(Passed(c)) \in Nat
      BY <2>1, <3>1, GateTyped, Countable DEF Passed
    <3>3. Limit[c] \in Nat /\ Cardinality(Handlers) \in Nat
      BY LimitFits, HandlersAssumption, FS_CardinalityType
    <3> QED
      BY <3>1, <3>2, <3>3 DEF GateFits, Allowed
  <2>2. CASE c = "upload"
    <3>1. UploadsFit /\ LimitsTyped
      BY DEF LimitInv
    <3>2. Cardinality(Taken) \in Nat
      BY Countable DEF Taken
    <3>3. Allowed(c) = MaxUploads /\ MaxUploads \in Nat
      BY <2>2, LimitsAssumption, NamesAssumption DEF Allowed, Limit, Counters
    <3> QED
      BY <2>2, <3>1, <3>2, <3>3 DEF UploadsFit, LimitsTyped
  <2> QED
    BY <2>1, <2>2 DEF Gates
<1> QED
  BY <1>1, <1>2, <1>3, PTL DEF MCSpec
=============================================================================
