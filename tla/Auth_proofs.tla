------------------------------ MODULE Auth_proofs ------------------------------
(***************************************************************************)
(* Of the sessions of a user: rotation and logout end what they end, and   *)
(* the device limit holds as long as requests come one at a time, for any  *)
(* number of requests, devices and tokens.  Of his registration: he is     *)
(* verified with the newest code and has data afterwards, for any number   *)
(* of requests, codes, roles and failures.                                 *)
(*                                                                         *)
(* A row never becomes valid again, so the copies in Redis are what        *)
(* matters.  A rotated token can only be put back by a refresh that found  *)
(* its row while it was valid, and that refresh goes on to delete it.  A   *)
(* logout leaves out the tokens that requests hold; any other cannot be    *)
(* looked up any more once its row is revoked, so what the scan of the     *)
(* logout has found is all there will be.                                  *)
(*                                                                         *)
(* A registration lies in four places.  The proof follows the two rows     *)
(* that count: the newest code, which whoever has used it will verify the  *)
(* user with, and the newest session, which is there while the user has no *)
(* data and lasts at least as long as the codes that were mailed.          *)
(***************************************************************************)
EXTENDS MCAuth, FiniteSetTheorems, SequenceTheorems, WellFoundedInduction, TLAPS

USE ConstantsAssumption

\* The part of TypeOK the proof rests on.  What deleteOldest has found does
\* not matter to it: whichever row it revokes, none becomes valid.
Typed ==
  /\ row \in Seq({"valid", "revoked"})
  /\ expired \subseteq Tokens /\ cache \subseteq Tokens
  /\ pc \in [Handlers -> {"idle", "lookup", "rebuild", "user", "revoke", "uncache",
                          "count", "find", "evict", "create", "store", "scan", "delete"}]
  /\ tok \in [Handlers -> Tokens \cup {NoToken}]
  /\ keys \in [Handlers -> SUBSET Tokens] /\ ending \in [Handlers -> SUBSET Tokens]
  /\ issued \subseteq Tokens /\ rotated \subseteq issued /\ over \subseteq Tokens
  /\ locks \in Nat /\ faults \in Nat

\* A token that is being stored is new, and its request alone has it.
NewIsUnknown ==
  \A h \in Handlers : pc[h] = "store" =>
    /\ tok[h] \in Tokens \ issued
    /\ \A g \in Handlers : pc[g] = "store" /\ tok[g] = tok[h] => g = h

\* A token that a refresh holds has been issued; it is not NoToken.
HeldIsIssued ==
  \A h \in Handlers :
    pc[h] \in {"lookup", "rebuild", "user", "revoke", "uncache"} => tok[h] \in issued

RevokedFirst == \A h \in Handlers : pc[h] = "uncache" => row[tok[h]] = "revoked"

\* The copy of a rotated token is there only for a refresh that will delete it.
RotatedIsOnItsWay ==
  faults = 0 /\ locks = 0 =>
    /\ status = "ACTIVE"
    /\ \A t \in rotated :
         /\ row[t] = "revoked"
         /\ t \in cache =>
              \E h \in Handlers : tok[h] = t /\ pc[h] \in {"user", "revoke", "uncache"}

\* What a logout ends is revoked and cannot be put back.
EndedIsRevoked ==
  faults = 0 =>
    \A t \in Tokens : (t \in over \/ \E g \in Handlers : t \in ending[g]) =>
      /\ row[t] = "revoked"
      /\ \A h \in Handlers : tok[h] = t => pc[h] \notin {"rebuild", "store"}
ScanFoundAll ==
  faults = 0 =>
    /\ over \cap cache = {}
    /\ \A h \in Handlers : pc[h] = "delete" => ending[h] \cap cache \subseteq keys[h]

IInv ==
  /\ Typed /\ NewIsUnknown /\ HeldIsIssued /\ RevokedFirst
  /\ RotatedIsOnItsWay /\ EndedIsRevoked /\ ScanFoundAll

\* The initial state has no token.
LEMMA Start == Init => IInv
  BY DEF Init, IInv, Typed, NewIsUnknown, HeldIsIssued, RevokedFirst, RotatedIsOnItsWay,
    EndedIsRevoked, ScanFoundAll, Tokens, NoToken

\* Every step of every handler keeps it.
LEMMA Invariance == IInv /\ [Next]_vars => IInv'
<1> SUFFICES ASSUME IInv, [Next]_vars PROVE IInv'
  OBVIOUS
<1> USE DEF IInv, Typed, NewIsUnknown, HeldIsIssued, RevokedFirst, RotatedIsOnItsWay, EndedIsRevoked,
      ScanFoundAll, Tokens, Valid, NoToken
<1>1. ASSUME NEW h \in Handlers, Login(h)
      PROVE  IInv'
  BY <1>1, SMTT(30) DEF Login, Goto, session, local, history
<1>2. ASSUME NEW h \in Handlers, Lookup(h)
      PROVE  IInv'
  BY <1>2, SMTT(30) DEF Lookup, Goto, Leave, session, local, history
<1>3. ASSUME NEW h \in Handlers, Rebuild(h)
      PROVE  IInv'
  BY <1>3, SMTT(30) DEF Rebuild, Goto, Fault, local, history
<1>4. ASSUME NEW h \in Handlers, CheckUser(h)
      PROVE  IInv'
  BY <1>4, SMTT(30) DEF CheckUser, Goto, Leave, session, local, history
<1>5. ASSUME NEW h \in Handlers, Revoke(h)
      PROVE  IInv'
  BY <1>5, SMTT(30) DEF Revoke, Goto, local, history
<1>6. ASSUME NEW h \in Handlers, Uncache(h)
      PROVE  IInv'
  BY <1>6, SMTT(30) DEF Uncache, Goto, Fault, local
<1>7. ASSUME NEW h \in Handlers, Count(h)
      PROVE  IInv'
  BY <1>7, SMTT(30) DEF Count, Goto, session, local, history
<1>8. ASSUME NEW h \in Handlers, FindOldest(h)
      PROVE  IInv'
  BY <1>8, SMTT(30) DEF FindOldest, Goto, session, history
<1>9. ASSUME NEW h \in Handlers, Evict(h)
      PROVE  IInv'
  <2> DEFINE t == oldest[h]
  <2>1. /\ row' \in Seq({"valid", "revoked"}) /\ Tokens' = Tokens
        /\ \A u \in Tokens : row[u] = "revoked" => row'[u] = "revoked"
    <3>1. CASE t \in Tokens
      BY <1>9, <3>1 DEF Evict
    <3>2. CASE t \notin Tokens
      <4>1. row' = row
        BY <1>9, <3>2 DEF Evict
      <4>2. QED
        BY <4>1
    <3>3. QED
      BY <3>1, <3>2
  <2> HIDE DEF t
  <2>2. Goto(h, "evict", "create") /\ UNCHANGED <<expired, cache, status, keys, history, locks, faults>>
    BY <1>9 DEF Evict
  <2>3. QED
    BY <2>1, <2>2, SMTT(30) DEF Goto, history
<1>10. ASSUME NEW h \in Handlers, Create(h)
      PROVE  IInv'
  BY <1>10, SMTT(30) DEF Create, local, history
<1>11. ASSUME NEW h \in Handlers, Store(h)
      PROVE  IInv'
  BY <1>11, SMTT(30) DEF Store, Leave, Fault, local
<1>12. ASSUME NEW h \in Handlers, RevokeAll(h)
      PROVE  IInv'
  <2>1. /\ row' \in Seq({"valid", "revoked"}) /\ Tokens' = Tokens
        /\ \A u \in Tokens : row'[u] = "revoked"
    <3>1. row' = [u \in 1..Len(row) |-> "revoked"]
      BY <1>12 DEF RevokeAll
    <3>2. QED
      BY <3>1
  <2>2. /\ Goto(h, "idle", "scan")
        /\ ending' = [ending EXCEPT ![h] = Tokens \ {tok[g] : g \in Busy}]
        /\ UNCHANGED <<expired, cache, status, local, issued, rotated, over, locks, faults>>
    BY <1>12 DEF RevokeAll
  <2>3. QED
    BY <2>1, <2>2, SMTT(30) DEF Goto, local, Busy
<1>13. ASSUME NEW h \in Handlers, Scan(h)
      PROVE  IInv'
  BY <1>13, SMTT(30) DEF Scan, Goto, Fault, session, history
<1>14. ASSUME NEW h \in Handlers, DeleteKeys(h)
      PROVE  IInv'
  BY <1>14, SMTT(30) DEF DeleteKeys, Leave, Fault
<1>15. ASSUME NEW h \in Handlers, Throw(h)
      PROVE  IInv'
  BY <1>15, SMTT(30) DEF Throw, Leave, Fault, session
<1>16. ASSUME NEW h \in Handlers, NEW t \in Tokens, Refresh(h, t)
      PROVE  IInv'
  BY <1>16, SMTT(30) DEF Refresh, Fault, session, local, history
<1>17. ASSUME NEW t \in Tokens, Expire(t)
      PROVE  IInv'
  BY <1>17, SMTT(30) DEF Expire, local, history
<1>18. ASSUME NEW t \in Tokens, LoseKey(t)
      PROVE  IInv'
  BY <1>18, SMTT(30) DEF LoseKey, local, history
<1>19. ASSUME UpdateStatus
      PROVE  IInv'
  BY <1>19, SMTT(30) DEF UpdateStatus, session, local, history
<1>20. CASE UNCHANGED vars
  BY <1>20 DEF vars, session, local, history
<1> QED
  BY <1>1, <1>2, <1>3, <1>4, <1>5, <1>6, <1>7, <1>8, <1>9, <1>10, <1>11, <1>12, <1>13, <1>14, <1>15, <1>16, <1>17, <1>18, <1>19, <1>20 DEF Next

\* IInv always holds.
LEMMA Invariant == Spec => []IInv
<1>1. Init => IInv
  BY Start
<1>2. IInv /\ [Next]_vars => IInv'
  BY Invariance
<1>3. QED
  BY <1>1, <1>2, PTL DEF Spec

\* Rotation, for any number of requests and tokens: the copy of an exchanged
\* token is in Redis only while some refresh of it is on its way to delete
\* it, and its row stays revoked.
THEOREM Rotation == Spec => []RotatedTokenDies
<1>1. IInv => RotatedTokenDies
  BY DEF IInv, RotatedIsOnItsWay, RotatedTokenDies, Exchanging, Usable, Valid
<1>2. QED
  BY <1>1, Invariant, PTL

\* Logout, for any number of requests and tokens: what the scan missed can
\* no longer be put into Redis, because its row was revoked before the scan.
THEOREM Logout == Spec => []LogoutEndsIdleSessions
<1>1. IInv => LogoutEndsIdleSessions
  BY DEF IInv, Typed, EndedIsRevoked, ScanFoundAll, LogoutEndsIdleSessions, Usable, Valid
<1>2. QED
  BY <1>1, Invariant, PTL

-----------------------------------------------------------------------------
(* Requests one at a time *)

\* One request is in flight.
Alone == \A g, h \in Busy : g = h

\* What the request has counted still holds: there is room for the session
\* it creates, and deleteOldest has found a row that counts.
CountHolds ==
  /\ DOMAIN oldest = Handlers
  /\ \A h \in Handlers :
       /\ pc[h] = "create" => Cardinality(Valid) < MaxDevices
       /\ pc[h] = "evict" => oldest[h] \in Valid

SequentialInv ==
  /\ Alone
  /\ DeviceLimit
  /\ CountHolds

SeqInv == overlapped \/ SequentialInv

\* A set of natural numbers that is not empty has a least element.
LEMMA LeastExists ==
  ASSUME NEW S \in SUBSET Nat, S # {}
  PROVE  \E t \in S : \A u \in S : t <= u
<1> DEFINE R == OpToRel(<, Nat)
<1>1. IsWellFoundedOn(R, Nat)
  BY NatLessThanWellFounded
<1>2. \A x, y \in Nat : <<x, y>> \in R <=> x < y
  BY DEF OpToRel
<1> HIDE DEF R
<1>3. PICK x \in S : \A y \in S : ~ (<<y, x>> \in R)
  BY <1>1, WFMin
<1>4. ASSUME NEW y \in S PROVE x <= y
  <2>1. x \in Nat /\ y \in Nat
    OBVIOUS
  <2>2. ~ (<<y, x>> \in R)
    BY <1>3
  <2>3. ~ (y < x)
    BY <1>2, <2>1, <2>2, Zenon
  <2> QED
    BY <2>1, <2>3
<1> QED
  BY <1>4, Zenon

\* The rows that count are finitely many numbers.
LEMMA ValidIsFinite ==
  ASSUME Typed
  PROVE  IsFiniteSet(Valid) /\ Cardinality(Valid) \in Nat /\ Valid \subseteq 1..Len(row)
<1>1. Valid \subseteq 1..Len(row) /\ Len(row) \in Nat
  BY DEF Typed, Valid, Tokens
<1>2. IsFiniteSet(1..Len(row))
  BY <1>1, FS_Interval
<1>3. IsFiniteSet(Valid)
  BY <1>1, <1>2, FS_Subset
<1> QED
  BY <1>1, <1>3, FS_CardinalityType

\* Rows that are revoked leave no more that count.
LEMMA FewerCount ==
  ASSUME Typed, Typed', Valid' \subseteq Valid
  PROVE  Cardinality(Valid') <= Cardinality(Valid) /\ Cardinality(Valid') \in Nat
<1>1. IsFiniteSet(Valid)
  BY ValidIsFinite
<1>2. Cardinality(Valid') <= Cardinality(Valid)
  BY <1>1, FS_Subset
<1>3. Cardinality(Valid') \in Nat
  <2>1. IsFiniteSet(Valid')
    BY <1>1, FS_Subset
  <2> QED
    BY <2>1, FS_CardinalityType
<1> QED
  BY <1>2, <1>3

\* A request that comes alone keeps to the limit.
LEMMA StepInSequence ==
  ASSUME IInv, IInv', SequentialInv, Alone', [Next]_vars
  PROVE  SequentialInv'
<1>1. Typed /\ Typed'
  BY DEF IInv
<1>2. Cardinality(Valid) \in Nat /\ IsFiniteSet(Valid) /\ Valid \subseteq 1..Len(row)
  BY <1>1, ValidIsFinite
<1> USE <1>1, <1>2 DEF Typed, SequentialInv, Alone, DeviceLimit, CountHolds, Busy
<1>3. ASSUME NEW h \in Handlers, Login(h)
      PROVE  SequentialInv'
  <2>1. row' = row /\ Valid' = Valid
    BY <1>3 DEF Login, session, Valid, Tokens
  <2> QED
    BY <1>3, <2>1, SMTT(30) DEF Login, Goto, session, local
<1>4. ASSUME NEW h \in Handlers, Lookup(h)
      PROVE  SequentialInv'
  <2>1. row' = row /\ Valid' = Valid
    BY <1>4 DEF Lookup, session, Valid, Tokens
  <2> QED
    BY <1>4, <2>1, SMTT(30) DEF Lookup, Goto, Leave, session, local
<1>5. ASSUME NEW h \in Handlers, Rebuild(h)
      PROVE  SequentialInv'
  <2>1. row' = row /\ Valid' = Valid
    BY <1>5 DEF Rebuild, session, Valid, Tokens
  <2> QED
    BY <1>5, <2>1, SMTT(30) DEF Rebuild, Goto, local
<1>6. ASSUME NEW h \in Handlers, CheckUser(h)
      PROVE  SequentialInv'
  <2>1. row' = row /\ Valid' = Valid
    BY <1>6 DEF CheckUser, session, Valid, Tokens
  <2> QED
    BY <1>6, <2>1, SMTT(30) DEF CheckUser, Goto, Leave, session, local
<1>7. ASSUME NEW h \in Handlers, Uncache(h)
      PROVE  SequentialInv'
  <2>1. row' = row /\ Valid' = Valid
    BY <1>7 DEF Uncache, session, Valid, Tokens
  <2> QED
    BY <1>7, <2>1, SMTT(30) DEF Uncache, Goto, local
<1>8. ASSUME NEW h \in Handlers, Store(h)
      PROVE  SequentialInv'
  <2>1. row' = row /\ Valid' = Valid
    BY <1>8 DEF Store, session, Valid, Tokens
  <2> QED
    BY <1>8, <2>1, SMTT(30) DEF Store, Leave, local
<1>9. ASSUME NEW h \in Handlers, Scan(h)
      PROVE  SequentialInv'
  <2>1. row' = row /\ Valid' = Valid
    BY <1>9 DEF Scan, session, Valid, Tokens
  <2> QED
    BY <1>9, <2>1, SMTT(30) DEF Scan, Goto, session
<1>10. ASSUME NEW h \in Handlers, DeleteKeys(h)
      PROVE  SequentialInv'
  <2>1. row' = row /\ Valid' = Valid
    BY <1>10 DEF DeleteKeys, session, Valid, Tokens
  <2> QED
    BY <1>10, <2>1, SMTT(30) DEF DeleteKeys, Leave
<1>11. ASSUME NEW h \in Handlers, Throw(h)
      PROVE  SequentialInv'
  <2>1. row' = row /\ Valid' = Valid
    BY <1>11 DEF Throw, session, Valid, Tokens
  <2> QED
    BY <1>11, <2>1, SMTT(30) DEF Throw, Leave, session
<1>12. ASSUME NEW h \in Handlers, Count(h)
      PROVE  SequentialInv'
  <2>1. row' = row /\ Valid' = Valid
    BY <1>12 DEF Count, session, Valid, Tokens
  <2> QED
    BY <1>12, <2>1, SMTT(30) DEF Count, Goto, session, local
<1>13. ASSUME NEW h \in Handlers, FindOldest(h), Valid = {}
      PROVE  SequentialInv'
  <2>1. row' = row /\ Valid' = Valid
    BY <1>13 DEF FindOldest, session, Valid, Tokens
  <2>2. Cardinality(Valid) < MaxDevices
    BY <1>13, FS_EmptySet
  <2> QED
    BY <1>13, <2>1, <2>2, SMTT(30) DEF FindOldest, Goto, session, local
<1>14. ASSUME NEW h \in Handlers, FindOldest(h), Valid # {}
      PROVE  SequentialInv'
  <2>1. row' = row /\ Valid' = Valid
    BY <1>14 DEF FindOldest, session, Valid, Tokens
  <2>2. \E t \in Valid : \A u \in Valid : t <= u
    BY <1>14, LeastExists
  <2>3. oldest'[h] \in Valid
    BY <1>14, <2>2 DEF FindOldest
  <2>8. pc' = [pc EXCEPT ![h] = "evict"] /\ DOMAIN oldest' = Handlers
    BY <1>14 DEF FindOldest, Goto, local
  <2>9. \A g \in Handlers : pc'[g] # "idle" => g = h
    BY <2>8
  <2> QED
    BY <2>8, <2>9, <2>1, <2>3, SMTT(30)
<1>15. ASSUME NEW h \in Handlers, Revoke(h)
      PROVE  SequentialInv'
  <2>1. Valid' \subseteq Valid
    BY <1>15 DEF Revoke, Valid, Tokens
  <2>2. Cardinality(Valid') <= Cardinality(Valid) /\ Cardinality(Valid') \in Nat
    BY <2>1, FewerCount
  <2>8. pc' = [pc EXCEPT ![h] = "uncache"] /\ DOMAIN oldest' = Handlers
    BY <1>15 DEF Revoke, Goto, local
  <2>9. \A g \in Handlers : pc'[g] # "idle" => g = h
    BY <2>8
  <2> QED
    BY <2>8, <2>9, <2>2, SMTT(30)
<1>16. ASSUME NEW h \in Handlers, Evict(h)
      PROVE  SequentialInv'
  <2> PICK t : t = oldest[h]
    OBVIOUS
  <2>1. t \in Valid
    BY <1>16 DEF Evict, Goto
  <2>2. Valid' = Valid \ {t}
    BY <1>16, <2>1 DEF Evict, Valid, Tokens
  <2>3. Cardinality(Valid') = Cardinality(Valid) - 1
    <3>1. Cardinality(Valid \ {t}) = IF t \in Valid THEN Cardinality(Valid) - 1 ELSE Cardinality(Valid)
      BY ONLY ValidIsFinite, <1>1, FS_RemoveElement
    <3> QED
      BY <2>1, <2>2, <3>1
  <2> QED
    BY <1>16, <2>3, SMTT(30) DEF Evict, Goto
<1>17. ASSUME NEW h \in Handlers, Create(h)
      PROVE  SequentialInv'
  <2>1. Cardinality(Valid) < MaxDevices
    BY <1>17 DEF Create
  <2>2. Valid' = Valid \cup {Len(row) + 1} /\ Len(row) + 1 \notin Valid
    BY <1>17 DEF Create, Valid, Tokens
  <2>3. Cardinality(Valid') = Cardinality(Valid) + 1
    BY <2>2, FS_AddElement
  <2>8. pc' = [pc EXCEPT ![h] = "store"] /\ DOMAIN oldest' = Handlers
    BY <1>17 DEF Create, Goto, local
  <2>9. \A g \in Handlers : pc'[g] # "idle" => g = h
    BY <2>8
  <2> QED
    BY <2>8, <2>9, <2>1, <2>3, SMTT(30)
<1>18. ASSUME NEW h \in Handlers, RevokeAll(h)
      PROVE  SequentialInv'
  <2>1. Valid' \subseteq Valid
    BY <1>18 DEF RevokeAll, Valid, Tokens
  <2>2. Cardinality(Valid') <= Cardinality(Valid) /\ Cardinality(Valid') \in Nat
    BY <2>1, FewerCount
  <2>8. pc' = [pc EXCEPT ![h] = "scan"] /\ DOMAIN oldest' = Handlers
    BY <1>18 DEF RevokeAll, Goto, local
  <2>9. \A g \in Handlers : pc'[g] # "idle" => g = h
    BY <2>8
  <2> QED
    BY <2>8, <2>9, <2>2, SMTT(30)
<1>19. ASSUME NEW h \in Handlers, NEW t \in Tokens, Refresh(h, t)
      PROVE  SequentialInv'
  <2>1. row' = row /\ Valid' = Valid
    BY <1>19 DEF Refresh, session, Valid, Tokens
  <2> QED
    BY <1>19, <2>1, SMTT(30) DEF Refresh, session, local
<1>20. ASSUME NEW t \in Tokens, Expire(t)
      PROVE  SequentialInv'
  <2>1. row' = row /\ Valid' = Valid
    BY <1>20 DEF Expire, session, Valid, Tokens
  <2> QED
    BY <1>20, <2>1, SMTT(30) DEF Expire, local
<1>21. ASSUME NEW t \in Tokens, LoseKey(t)
      PROVE  SequentialInv'
  <2>1. row' = row /\ Valid' = Valid
    BY <1>21 DEF LoseKey, session, Valid, Tokens
  <2> QED
    BY <1>21, <2>1, SMTT(30) DEF LoseKey, local
<1>22. ASSUME UpdateStatus
      PROVE  SequentialInv'
  <2>1. row' = row /\ Valid' = Valid
    BY <1>22 DEF UpdateStatus, session, Valid, Tokens
  <2> QED
    BY <1>22, <2>1, SMTT(30) DEF UpdateStatus, session, local
<1>23. ASSUME UNCHANGED vars
      PROVE  SequentialInv'
  <2>1. row' = row /\ Valid' = Valid
    BY <1>23 DEF vars, session, Valid, Tokens
  <2> QED
    BY <1>23, <2>1, SMTT(30) DEF vars, session, local
<1> QED
  BY <1>3, <1>4, <1>5, <1>6, <1>7, <1>8, <1>9, <1>10, <1>11, <1>12, <1>13, <1>14, <1>15, <1>16, <1>17, <1>18, <1>19, <1>20, <1>21, <1>22, <1>23 DEF Next

\* SeqInv always holds, whatever comes and fails.
LEMMA InSequence == MCSpec => [](IInv /\ SeqInv)
<1>1. MCInit => IInv /\ SeqInv
  <2> SUFFICES ASSUME MCInit PROVE IInv /\ SeqInv
    OBVIOUS
  <2>1. IInv
    BY Start DEF MCInit
  <2>2. Valid = {} /\ Busy = {}
    BY DEF MCInit, Init, Valid, Tokens, Busy
  <2>3. DeviceLimit
    BY <2>2, FS_EmptySet DEF DeviceLimit
  <2>4. \A h \in Handlers : pc[h] = "idle"
    BY DEF MCInit, Init
  <2> QED
    BY <2>1, <2>2, <2>3, <2>4 DEF SeqInv, SequentialInv, Alone, CountHolds, Init, MCInit
<1>2. IInv /\ SeqInv /\ [MCNext]_mcvars => (IInv /\ SeqInv)'
  <2> SUFFICES ASSUME IInv, SeqInv, [MCNext]_mcvars
               PROVE  (IInv /\ SeqInv)'
    OBVIOUS
  <2>1. [Next]_vars
    BY DEF MCNext, mcvars
  <2>2. IInv'
    BY <2>1, Invariance
  <2>4. ASSUME ~ overlapped' PROVE ~ overlapped /\ Alone'
    <3>1. CASE MCNext
      BY <2>4, <3>1 DEF MCNext, Alone
    <3>2. CASE UNCHANGED mcvars
      <4>1. ~ overlapped /\ Alone
        BY <2>4, <3>2 DEF SeqInv, SequentialInv, mcvars
      <4>2. Busy' = Busy
        BY <3>2 DEF mcvars, vars, Busy
      <4> QED
        BY <4>1, <4>2 DEF Alone
    <3> QED
      BY <3>1, <3>2
  <2>5. CASE overlapped'
    BY <2>2, <2>5 DEF SeqInv
  <2>6. CASE ~ overlapped'
    <3>1. SequentialInv'
      BY <2>1, <2>2, <2>4, <2>6, StepInSequence DEF SeqInv
    <3> QED
      BY <2>2, <3>1 DEF SeqInv
  <2> QED
    BY <2>5, <2>6
<1> QED
  BY <1>1, <1>2, PTL DEF MCSpec

\* MAX_DEVICES_PER_USER, for any number of devices, requests and tokens: a
\* request that comes alone has counted the rows it adds to, and makes room
\* by revoking a row that counted, the oldest, so that a user never has more
\* sessions than that before two requests have overlapped.
THEOREM DeviceLimitKept == MCSpec => []DeviceLimitInSequence
<1>1. SeqInv => DeviceLimitInSequence
  BY DEF SeqInv, SequentialInv, DeviceLimitInSequence
<1>2. QED
  BY <1>1, InSequence, PTL

----------------------------------------------------------------------------
(* Registration *)

Statements ==
  {"idle", "create", "retire", "insert", "retireSessions", "insertSession", "temp", "cache",
   "find", "refresh", "mail", "compare", "user", "again", "use", "activate", "getTemp",
   "getSession", "createData", "clearTemp", "useSession", "clean"}
Request ==
  [at : Statements, n : Nat, role : Roles \cup {Reg!NoRole}, row : Nat, reg : Nat,
   kept : BOOLEAN, seen : {"none", "UNVERIFIED", "ACTIVE", "LOCKED"}]

Rows == [reg : Nat, until : Nat]
ReqTyped == req \in [Handlers -> Request]

\* The part of TypeOK the proof rests on.
RowsTyped ==
  /\ regStatus \in {"none", "UNVERIFIED", "ACTIVE", "LOCKED"}
  /\ issues \in Seq(Roles \cup {Reg!NoRole})
  /\ otps \in Seq(Nat) /\ sessions \in Seq(Rows)
  /\ temp \in Seq(Rows)
  /\ cachedOtp \in Nat /\ lapsed \in Nat /\ mailed \subseteq 1..Len(issues)
  /\ ReqTyped

\* Requests that have begun with a code, or with a user, that there is.
Verifying(h) ==
  req[h].at \in {"compare", "user", "again", "use", "activate", "getTemp", "getSession"}
Founded ==
  /\ regStatus = "none" =>
       mailed = {} /\ \A h \in Handlers : req[h].at \in {"idle", "create"}
  /\ \A h \in Handlers :
       /\ Reg!Issuing(h) => req[h].n \in 1..Len(issues)
       /\ Verifying(h) => req[h].n \in mailed
       /\ req[h].at \in {"create", "retireSessions", "insertSession"} => req[h].role # Reg!NoRole
       /\ req[h].at \in {"find", "refresh"} => req[h].role = Reg!NoRole
       /\ req[h].at \in {"again", "use"} /\ req[h].seen # "UNVERIFIED" =>
            regStatus # "UNVERIFIED" \/ "reset" \in mishaps
       /\ Reg!At(h, "activate") => req[h].seen = "none"
       /\ req[h].at \in {"clearTemp", "useSession"} => data # {}

\* What is stored is of a code.
OfCodes == \A i \in DOMAIN sessions : sessions[i].reg # Reg!None

\* Codes that are issued one at a time are the newest when they are.
IssuedAlone ==
  "overlap" \notin mishaps =>
    \A h \in Handlers : Reg!Issuing(h) =>
      req[h].n = Len(issues) /\ \A g \in Handlers : Reg!Issuing(g) => g = h

\* The row of the newest code is there, or what has used it will verify the
\* user, who has not been verified before; and Redis has it or nothing.
NewestIsKept ==
  regStatus = "UNVERIFIED" /\ mishaps \cap {"overlap", "staleCode", "codeSpent", "reset"} = {} =>
    /\ \/ Len(issues) \in mailed
       \/ \E h \in Handlers : Reg!Issuing(h) /\ ~ Reg!At(h, "insert")
       => \/ otps # <<>> /\ Reg!Last(otps) = Len(issues)
          \/ \E h \in Handlers : Reg!At(h, "activate")
    /\ Len(issues) \in mailed => cachedOtp \in {Reg!None, Len(issues)}
    /\ \A h \in Handlers :
         /\ \/ req[h].at \in {"find", "refresh", "mail"}
            \/ Reg!At(h, "temp") /\ req[h].role = Reg!NoRole
            => cachedOtp \in {Reg!None, Len(issues)}
         /\ Reg!Issuing(h) => Len(issues) \notin mailed

\* Where no user has data yet his registration is kept ...
DataAreKept ==
  data = {} /\ regStatus # "none" /\ "noSession" \notin mishaps =>
    sessions # <<>> \/ \E h \in Handlers : Reg!Storing(h)

\* ... and lasts as long as the codes that were mailed.
Extended(n) == sessions # <<>> => Reg!Last(sessions).until >= n
DataLast ==
  data = {} /\ mishaps \cap {"overlap", "noSession", "notExtended"} = {} =>
    /\ \A n \in mailed : Extended(n)
    /\ \A h \in Handlers :
         /\ req[h].at \in {"temp", "mail"} => Extended(req[h].n)
         /\ Reg!At(h, "cache") /\ req[h].role # Reg!NoRole => Extended(req[h].n)
         /\ Reg!At(h, "refresh") /\ sessions # <<>> => Reg!Last(sessions).reg = req[h].reg

\* What has verified the user gives him data.
VerifiedGetsData ==
  regStatus = "ACTIVE" /\ mishaps \cap {"unfinished", "late", "notExtended", "noSession", "granted"} = {} =>
    data # {} \/ \E h \in Handlers : Reg!Activated(h)

\* One request does, and no other has seen him unverified then.
OneGivesData ==
  mishaps \cap {"twice", "reset"} = {} =>
    /\ \A a, b \in data : a = b
    /\ \A g, h \in Handlers : Reg!Activated(g) /\ Reg!Activated(h) => g = h
    /\ \A h \in Handlers : Reg!Activated(h) => data = {}
    /\ data # {} \/ (\E h \in Handlers : Reg!Activated(h)) =>
         /\ regStatus \in {"ACTIVE", "LOCKED"}
         /\ \A h \in Handlers : req[h].at # "activate" /\ req[h].seen # "UNVERIFIED"

RInv ==
  /\ RowsTyped /\ Founded /\ OfCodes /\ IssuedAlone /\ NewestIsKept
  /\ DataAreKept /\ DataLast /\ VerifiedGetsData /\ OneGivesData

\* The requests other than h stay as they are.
Frame(h) ==
  ReqTyped' /\ \A g \in Handlers : g # h => req'[g] = req[g]

\* What a step to another statement ...
LEMMA GoFacts ==
  ASSUME ReqTyped, NEW h \in Handlers, NEW step \in Statements, Reg!Go(h, step)
  PROVE  /\ Frame(h) /\ req'[h].at = step
         /\ req'[h].n = req[h].n /\ req'[h].role = req[h].role /\ req'[h].row = req[h].row
         /\ req'[h].reg = req[h].reg /\ req'[h].kept = req[h].kept /\ req'[h].seen = req[h].seen
BY DEF Reg!Go, Frame, Request, ReqTyped

\* ... or to the end, or a new beginning does to a request.
LEMMA BecomesFacts ==
  ASSUME ReqTyped, NEW h \in Handlers, NEW r \in Request,
         req' = [req EXCEPT ![h] = r]
  PROVE  Frame(h) /\ req'[h] = r
BY DEF Frame, ReqTyped

\* A request that has ended.
LEMMA IdleFacts ==
  /\ Reg!Idle \in Request
  /\ Reg!Idle.at = "idle" /\ Reg!Idle.n = 0 /\ Reg!Idle.role = Reg!NoRole /\ Reg!Idle.seen = "none"
BY DEF Reg!Idle, Request, Statements, Reg!None

LEMMA EndFacts ==
  ASSUME ReqTyped, NEW h \in Handlers, Reg!End(h)
  PROVE  Frame(h) /\ req'[h].at = "idle" /\ req'[h].seen = "none"
BY IdleFacts, BecomesFacts DEF Reg!End

\* A row that is added is the last.
LEMMA LastAppend ==
  ASSUME NEW S, NEW s \in Seq(S), NEW e \in S
  PROVE  Append(s, e) \in Seq(S) /\ Append(s, e) # <<>> /\ Reg!Last(Append(s, e)) = e
BY DEF Reg!Last

\* The last row is a row.
LEMMA LastIsThere ==
  ASSUME NEW S, NEW s \in Seq(S), s # <<>>
  PROVE  Len(s) \in DOMAIN s /\ Reg!Last(s) \in S
BY DEF Reg!Last

\* Taking a row away leaves rows.
LEMMA RemoveAtType ==
  ASSUME NEW S, NEW s \in Seq(S), NEW i \in DOMAIN s
  PROVE  /\ Reg!RemoveAt(s, i) \in Seq(S)
         /\ \A j \in DOMAIN Reg!RemoveAt(s, i) :
              \E k \in DOMAIN s : Reg!RemoveAt(s, i)[j] = s[k]
<1> DEFINE a == SubSeq(s, 1, i - 1)
           b == SubSeq(s, i + 1, Len(s))
<1>1. i \in 1..Len(s) /\ Len(s) \in Nat
  OBVIOUS
<1>2. a \in Seq(S) /\ Len(a) = i - 1 /\ \A j \in 1..Len(a) : a[j] = s[j]
  BY <1>1, SubSeqProperties
<1>3. b \in Seq(S) /\ Len(b) = Len(s) - i /\ \A j \in 1..Len(b) : b[j] = s[i + j]
  BY <1>1, SubSeqProperties
<1>4. Reg!RemoveAt(s, i) = a \o b
  BY DEF Reg!RemoveAt
<1> HIDE DEF a, b
<1>5. /\ a \o b \in Seq(S) /\ Len(a \o b) = Len(a) + Len(b)
      /\ \A j \in 1..Len(a) + Len(b) :
           (a \o b)[j] = IF j <= Len(a) THEN a[j] ELSE b[j - Len(a)]
  BY <1>2, <1>3, ConcatProperties
<1>6. ASSUME NEW j \in 1..Len(a) + Len(b) PROVE \E k \in DOMAIN s : (a \o b)[j] = s[k]
  <2>1. CASE j <= Len(a)
    <3>1. j \in 1..Len(a) /\ j \in 1..Len(s)
      BY <1>1, <1>2, <1>3, <2>1
    <3>2. (a \o b)[j] = s[j]
      BY <1>2, <1>5, <2>1, <3>1
    <3> QED
      BY <3>1, <3>2
  <2>2. CASE ~ (j <= Len(a))
    <3>1. j - Len(a) \in 1..Len(b) /\ i + (j - Len(a)) \in 1..Len(s)
      BY <1>1, <1>2, <1>3, <2>2
    <3>2. (a \o b)[j] = s[i + (j - Len(a))]
      BY <1>3, <1>5, <2>2, <3>1
    <3> QED
      BY <3>1, <3>2
  <2> QED
    BY <2>1, <2>2
<1>7. DOMAIN (a \o b) = 1..Len(a) + Len(b)
  BY <1>5
<1>8. QED
  BY <1>4, <1>5, <1>6, <1>7

\* What CheckUser does to a request.
LEMMA CheckUserFacts ==
  ASSUME ReqTyped, NEW h \in Handlers, Reg!CheckUser(h)
  PROVE  /\ Frame(h)
         /\ \/ /\ req[h].seen = "UNVERIFIED" /\ req'[h].at = "activate"
               /\ req'[h].n = req[h].n /\ req'[h].role = Reg!NoRole /\ req'[h].seen = "none"
            \/ req[h].seen # "UNVERIFIED" /\ req'[h].at = "idle" /\ req'[h].seen = "none"
<1>1. CASE req[h].seen = "UNVERIFIED"
  <2> DEFINE r == [Reg!Idle EXCEPT !.at = "activate", !.n = req[h].n]
  <2>1. r \in Request /\ r.at = "activate" /\ r.n = req[h].n /\ r.role = Reg!NoRole /\ r.seen = "none"
    BY DEF Reg!Idle, Request, Statements, Reg!None, ReqTyped
  <2>2. req' = [req EXCEPT ![h] = r]
    BY <1>1 DEF Reg!CheckUser
  <2> HIDE DEF r
  <2> QED
    BY <1>1, <2>1, <2>2, BecomesFacts
<1>2. CASE req[h].seen # "UNVERIFIED"
  BY <1>2, EndFacts DEF Reg!CheckUser
<1>3. QED
  BY <1>1, <1>2

\* Whatever issues a code keeps the invariant.
LEMMA IssueKeeps ==
  ASSUME Reg!NoRole \notin Roles, RInv, NEW q \in Handlers, Reg!Issue(q)
  PROVE  RInv'
<1>1. /\ RowsTyped /\ Founded /\ OfCodes /\ IssuedAlone /\ NewestIsKept
      /\ DataAreKept /\ DataLast /\ VerifiedGetsData /\ OneGivesData
  BY DEF RInv
<1>2. /\ ReqTyped /\ Len(issues) \in Nat /\ lapsed \in Nat
      /\ regStatus \in {"none", "UNVERIFIED", "ACTIVE", "LOCKED"} /\ mailed \subseteq 1..Len(issues)
      /\ \A g \in Handlers : req[g].n \in Nat
  BY <1>1 DEF RowsTyped, ReqTyped, Request
<1> USE <1>1, <1>2 DEF Reg!At
<1>3. ASSUME NEW h \in Handlers, NEW role \in Roles, Reg!Register(h, role) PROVE RInv'
  <2>1. UNCHANGED <<regStatus, data, otps, sessions, cachedOtp, temp, issues, lapsed, mailed, mishaps>>
    BY <1>3 DEF Reg!Register, Reg!stored
  <2>2. /\ Frame(h)
        /\ req[h].at = "idle" /\ regStatus \in {"none", "UNVERIFIED"}
        /\ req'[h].at = IF regStatus = "none" THEN "create" ELSE "retire"
        /\ req'[h].role = role /\ role # Reg!NoRole /\ req'[h].seen = "none"
    <3>1. PICK step \in {"create", "retire"} :
            step = IF regStatus = "none" THEN "create" ELSE "retire"
      OBVIOUS
    <3> DEFINE r == [Reg!Idle EXCEPT !.role = role, !.at = step]
    <3>2. r \in Request /\ r.at = step /\ r.role = role /\ r.seen = "none"
      BY DEF Reg!Idle, Request, Statements, Reg!None
    <3>3. req' = [req EXCEPT ![h] = r]
      BY <1>3, <3>1 DEF Reg!Register
    <3> HIDE DEF r
    <3> QED
      BY <1>3, <3>1, <3>2, <3>3, BecomesFacts DEF Reg!Register, Reg!At, Reg!NoRole
  <2> USE <2>1, <2>2 DEF Frame
  <2>3. RowsTyped'
    BY SMTT(30) DEF RowsTyped, Reg!None
  <2>4. Founded'
    BY SMTT(30) DEF Founded, Reg!Issuing, Verifying
  <2>5. OfCodes'
    BY SMTT(30) DEF OfCodes
  <2>6. IssuedAlone'
    BY SMTT(30) DEF Founded, IssuedAlone, Reg!Issuing
  <2>7. NewestIsKept'
    BY SMTT(30) DEF Founded, IssuedAlone, NewestIsKept, Reg!Issuing, Reg!None
  <2>8. DataAreKept'
    BY SMTT(30) DEF Founded, DataAreKept, Reg!Storing
  <2>9. DataLast'
    BY SMTT(30) DEF Founded, IssuedAlone, DataAreKept, DataLast, Extended, Reg!Issuing, Reg!Storing
  <2>10. VerifiedGetsData'
    BY SMTT(30) DEF Founded, VerifiedGetsData, Reg!Activated
  <2>11. OneGivesData'
    BY SMTT(30) DEF Founded, OneGivesData, Reg!Activated
  <2> QED
    BY <2>3, <2>4, <2>5, <2>6, <2>7, <2>8, <2>9, <2>10, <2>11 DEF RInv
<1>4. ASSUME NEW h \in Handlers, Reg!CreateUser(h) PROVE RInv'
  <2>1. UNCHANGED <<data, otps, sessions, cachedOtp, temp, issues, lapsed, mailed, mishaps>>
    BY <1>4 DEF Reg!CreateUser, Reg!stored
  <2>2. /\ Frame(h)
        /\ req[h].at = "create" /\ req'[h].at \in {"retire", "idle"}
        /\ regStatus' = IF regStatus = "none" THEN "UNVERIFIED" ELSE regStatus
        /\ regStatus = "none" => req'[h].at = "retire"
        /\ req'[h].at = "retire" => req'[h].role = req[h].role
        /\ req'[h].seen \in {req[h].seen, "none"}
    <3>1. CASE regStatus = "none"
      BY <1>4, <3>1, GoFacts DEF Reg!CreateUser, Reg!At, Statements
    <3>2. CASE regStatus # "none"
      BY <1>4, <3>2, EndFacts DEF Reg!CreateUser, Reg!At
    <3> QED
      BY <3>1, <3>2
  <2> USE <2>1, <2>2 DEF Frame
  <2>3. RowsTyped'
    BY SMTT(30) DEF RowsTyped, Reg!None
  <2>4. Founded'
    BY SMTT(30) DEF Founded, Reg!Issuing, Verifying
  <2>5. OfCodes'
    BY SMTT(30) DEF OfCodes
  <2>6. IssuedAlone'
    BY SMTT(30) DEF Founded, IssuedAlone, Reg!Issuing
  <2>7. NewestIsKept'
    BY SMTT(30) DEF Founded, IssuedAlone, NewestIsKept, Reg!Issuing, Reg!None
  <2>8. DataAreKept'
    BY SMTT(30) DEF Founded, DataAreKept, Reg!Storing
  <2>9. DataLast'
    BY SMTT(30) DEF Founded, IssuedAlone, DataAreKept, DataLast, Extended, Reg!Issuing, Reg!Storing
  <2>10. VerifiedGetsData'
    BY SMTT(30) DEF Founded, VerifiedGetsData, Reg!Activated
  <2>11. OneGivesData'
    BY SMTT(30) DEF Founded, OneGivesData, Reg!Activated
  <2> QED
    BY <2>3, <2>4, <2>5, <2>6, <2>7, <2>8, <2>9, <2>10, <2>11 DEF RInv
<1>5. ASSUME NEW h \in Handlers, Reg!SendOtp(h) PROVE RInv'
  <2>1. UNCHANGED <<regStatus, data, otps, sessions, cachedOtp, temp, issues, lapsed, mailed, mishaps>>
    BY <1>5 DEF Reg!SendOtp, Reg!stored
  <2>2. /\ Frame(h)
        /\ req[h].at = "idle" /\ regStatus \in {"UNVERIFIED", "LOCKED"}
        /\ req'[h].at = "retire"
        /\ req'[h].role = Reg!NoRole /\ req'[h].seen = "none"
    <3> DEFINE r == [Reg!Idle EXCEPT !.at = "retire"]
    <3>1. r \in Request /\ r.at = "retire" /\ r.role = Reg!NoRole /\ r.seen = "none"
      BY DEF Reg!Idle, Request, Statements, Reg!None
    <3>2. req' = [req EXCEPT ![h] = r]
      BY <1>5 DEF Reg!SendOtp
    <3> HIDE DEF r
    <3> QED
      BY <1>5, <3>1, <3>2, BecomesFacts DEF Reg!SendOtp, Reg!At
  <2> USE <2>1, <2>2 DEF Frame
  <2>3. RowsTyped'
    BY SMTT(30) DEF RowsTyped, Reg!None
  <2>4. Founded'
    BY SMTT(30) DEF Founded, Reg!Issuing, Verifying
  <2>5. OfCodes'
    BY SMTT(30) DEF OfCodes
  <2>6. IssuedAlone'
    BY SMTT(30) DEF Founded, IssuedAlone, Reg!Issuing
  <2>7. NewestIsKept'
    BY SMTT(30) DEF Founded, IssuedAlone, NewestIsKept, Reg!Issuing, Reg!None
  <2>8. DataAreKept'
    BY SMTT(30) DEF Founded, DataAreKept, Reg!Storing
  <2>9. DataLast'
    BY SMTT(30) DEF Founded, IssuedAlone, DataAreKept, DataLast, Extended, Reg!Issuing, Reg!Storing
  <2>10. VerifiedGetsData'
    BY SMTT(30) DEF Founded, VerifiedGetsData, Reg!Activated
  <2>11. OneGivesData'
    BY SMTT(30) DEF Founded, OneGivesData, Reg!Activated
  <2> QED
    BY <2>3, <2>4, <2>5, <2>6, <2>7, <2>8, <2>9, <2>10, <2>11 DEF RInv
<1>6. ASSUME NEW h \in Handlers, Reg!RetireCodes(h) PROVE RInv'
  <2>1. UNCHANGED <<regStatus, data, sessions, cachedOtp, temp, lapsed, mailed>>
    BY <1>6 DEF Reg!RetireCodes, Reg!stored
  <2>2. /\ Frame(h)
        /\ req[h].at = "retire" /\ req'[h].at = "insert"
        /\ req'[h].n = Len(issues) + 1
        /\ req'[h].role = req[h].role
        /\ req'[h].row = req[h].row
        /\ req'[h].reg = req[h].reg
        /\ req'[h].kept = req[h].kept
        /\ req'[h].seen = req[h].seen
        /\ otps' = <<>> /\ Len(issues') = Len(issues) + 1
        /\ issues' \in Seq(Roles \cup {Reg!NoRole})
        /\ mishaps' = IF \E g \in Handlers : Reg!Issuing(g) THEN mishaps \cup {"overlap"} ELSE mishaps
    <3>1. /\ issues' = Append(issues, req[h].role) /\ req[h].role \in Roles \cup {Reg!NoRole}
          /\ req' = [req EXCEPT ![h].at = "insert", ![h].n = Len(issues')]
      BY <1>6 DEF Reg!RetireCodes, RowsTyped, Request, ReqTyped
    <3>2. issues' \in Seq(Roles \cup {Reg!NoRole}) /\ Len(issues') = Len(issues) + 1 /\ Len(issues') \in Nat
      BY <3>1 DEF RowsTyped
    <3>3. \A r \in Request : [r EXCEPT !.at = "insert", !.n = Len(issues')] \in Request
      BY <3>2 DEF Request, Statements, ReqTyped
    <3>4. Frame(h)
      BY <3>1, <3>3 DEF Frame, ReqTyped
    <3>5. /\ req'[h].at = "insert" /\ req'[h].n = Len(issues')
          /\ req'[h].role = req[h].role /\ req'[h].row = req[h].row
          /\ req'[h].reg = req[h].reg /\ req'[h].kept = req[h].kept /\ req'[h].seen = req[h].seen
      BY <3>1 DEF Request, ReqTyped
    <3> QED
      BY <1>6, <3>2, <3>4, <3>5 DEF Reg!RetireCodes, Reg!At, Reg!Mishap
  <2> USE <2>1, <2>2 DEF Frame
  <2>3. RowsTyped'
    BY SMTT(30) DEF RowsTyped, Reg!None
  <2>4. Founded'
    BY SMTT(30) DEF Founded, Reg!Issuing, Verifying
  <2>5. OfCodes'
    BY SMTT(30) DEF OfCodes
  <2>6. IssuedAlone'
    BY SMTT(30) DEF Founded, IssuedAlone, Reg!Issuing
  <2>7. NewestIsKept'
    BY SMTT(30) DEF Founded, IssuedAlone, NewestIsKept, Reg!Issuing, Reg!None
  <2>8. DataAreKept'
    BY SMTT(30) DEF Founded, DataAreKept, Reg!Storing
  <2>9. DataLast'
    BY SMTT(30) DEF Founded, IssuedAlone, DataAreKept, DataLast, Extended, Reg!Issuing, Reg!Storing
  <2>10. VerifiedGetsData'
    BY SMTT(30) DEF Founded, VerifiedGetsData, Reg!Activated
  <2>11. OneGivesData'
    BY SMTT(30) DEF Founded, OneGivesData, Reg!Activated
  <2> QED
    BY <2>3, <2>4, <2>5, <2>6, <2>7, <2>8, <2>9, <2>10, <2>11 DEF RInv
<1>7. ASSUME NEW h \in Handlers, Reg!InsertCode(h) PROVE RInv'
  <2>1. UNCHANGED <<regStatus, data, sessions, cachedOtp, temp, issues, lapsed, mailed, mishaps>>
    BY <1>7 DEF Reg!InsertCode, Reg!stored
  <2>2. /\ Frame(h)
        /\ req[h].at = "insert"
        /\ req'[h].at = IF req[h].role = Reg!NoRole THEN "cache" ELSE "retireSessions"
        /\ req'[h].n = req[h].n
        /\ req'[h].role = req[h].role
        /\ req'[h].row = req[h].row
        /\ req'[h].reg = req[h].reg
        /\ req'[h].kept = req[h].kept
        /\ req'[h].seen = req[h].seen
        /\ otps' \in Seq(Nat) /\ otps' # <<>> /\ Reg!Last(otps') = req[h].n
    <3>1. req[h].n \in Nat /\ otps \in Seq(Nat)
      BY DEF RowsTyped
    <3>2. otps' \in Seq(Nat) /\ otps' # <<>> /\ Reg!Last(otps') = req[h].n
      BY <1>7, <3>1, LastAppend DEF Reg!InsertCode
    <3> QED
      BY <1>7, <3>2, GoFacts, SMTT(30) DEF Reg!InsertCode, Reg!At, Statements
  <2> USE <2>1, <2>2 DEF Frame
  <2>3. RowsTyped'
    BY SMTT(30) DEF RowsTyped, Reg!None
  <2>4. Founded'
    BY SMTT(30) DEF Founded, Reg!Issuing, Verifying
  <2>5. OfCodes'
    BY SMTT(30) DEF OfCodes
  <2>6. IssuedAlone'
    BY SMTT(30) DEF Founded, IssuedAlone, Reg!Issuing
  <2>7. NewestIsKept'
    BY SMTT(30) DEF Founded, IssuedAlone, NewestIsKept, Reg!Issuing, Reg!None
  <2>8. DataAreKept'
    BY SMTT(30) DEF Founded, DataAreKept, Reg!Storing
  <2>9. DataLast'
    BY SMTT(30) DEF Founded, IssuedAlone, DataAreKept, DataLast, Extended, Reg!Issuing, Reg!Storing
  <2>10. VerifiedGetsData'
    BY SMTT(30) DEF Founded, VerifiedGetsData, Reg!Activated
  <2>11. OneGivesData'
    BY SMTT(30) DEF Founded, OneGivesData, Reg!Activated
  <2> QED
    BY <2>3, <2>4, <2>5, <2>6, <2>7, <2>8, <2>9, <2>10, <2>11 DEF RInv
<1>8. ASSUME NEW h \in Handlers, Reg!RetireSessions(h) PROVE RInv'
  <2>1. UNCHANGED <<regStatus, data, otps, cachedOtp, temp, issues, lapsed, mailed, mishaps>>
    BY <1>8 DEF Reg!RetireSessions, Reg!stored
  <2>2. /\ Frame(h)
        /\ req[h].at = "retireSessions"
        /\ req'[h].at = "insertSession"
        /\ req'[h].n = req[h].n
        /\ req'[h].role = req[h].role
        /\ req'[h].row = req[h].row
        /\ req'[h].reg = req[h].reg
        /\ req'[h].kept = req[h].kept
        /\ req'[h].seen = req[h].seen
        /\ sessions' = <<>>
    BY <1>8, GoFacts, SMTT(30) DEF Reg!RetireSessions, Reg!At, Statements
  <2> USE <2>1, <2>2 DEF Frame
  <2>3. RowsTyped'
    BY SMTT(30) DEF RowsTyped, Reg!None
  <2>4. Founded'
    BY SMTT(30) DEF Founded, Reg!Issuing, Verifying
  <2>5. OfCodes'
    BY SMTT(30) DEF OfCodes
  <2>6. IssuedAlone'
    BY SMTT(30) DEF Founded, IssuedAlone, Reg!Issuing
  <2>7. NewestIsKept'
    BY SMTT(30) DEF Founded, IssuedAlone, NewestIsKept, Reg!Issuing, Reg!None
  <2>8. DataAreKept'
    BY SMTT(30) DEF Founded, DataAreKept, Reg!Storing
  <2>9. DataLast'
    BY SMTT(30) DEF Founded, IssuedAlone, DataAreKept, DataLast, Extended, Reg!Issuing, Reg!Storing
  <2>10. VerifiedGetsData'
    BY SMTT(30) DEF Founded, VerifiedGetsData, Reg!Activated
  <2>11. OneGivesData'
    BY SMTT(30) DEF Founded, OneGivesData, Reg!Activated
  <2> QED
    BY <2>3, <2>4, <2>5, <2>6, <2>7, <2>8, <2>9, <2>10, <2>11 DEF RInv
<1>9. ASSUME NEW h \in Handlers, Reg!InsertSession(h) PROVE RInv'
  <2>1. UNCHANGED <<regStatus, data, otps, cachedOtp, temp, issues, lapsed, mailed, mishaps>>
    BY <1>9 DEF Reg!InsertSession, Reg!stored
  <2>2. /\ Frame(h)
        /\ req[h].at = "insertSession" /\ req'[h].at = "temp"
        /\ req'[h].n = req[h].n
        /\ req'[h].role = req[h].role
        /\ req'[h].row = req[h].row
        /\ req'[h].kept = req[h].kept
        /\ req'[h].seen = req[h].seen
        /\ sessions' # <<>> /\ Reg!Last(sessions').until = req[h].n /\ OfCodes'
        /\ sessions' \in Seq(Rows)
    <3>1. /\ req' = [req EXCEPT ![h].at = "temp", ![h].reg = req[h].n]
          /\ req[h].at = "insertSession"
          /\ sessions' = Append(sessions, [reg |-> req[h].n, until |-> req[h].n])
      BY <1>9 DEF Reg!InsertSession, Reg!At
    <3>2. req[h].n \in Nat
      BY DEF Request, ReqTyped
    <3>3. \A r \in Request : [r EXCEPT !.at = "temp", !.reg = req[h].n] \in Request
      BY <3>2 DEF Request, Statements, ReqTyped
    <3>4. Frame(h)
      BY <3>1, <3>3 DEF Frame, ReqTyped
    <3>5. /\ req'[h].at = "temp" /\ req'[h].n = req[h].n
          /\ req'[h].role = req[h].role /\ req'[h].row = req[h].row
          /\ req'[h].kept = req[h].kept /\ req'[h].seen = req[h].seen
      BY <3>1 DEF Request, ReqTyped
    <3>6. [reg |-> req[h].n, until |-> req[h].n] \in Rows
      BY <3>2 DEF Rows
    <3>7. /\ sessions' \in Seq(Rows) /\ sessions' # <<>>
          /\ Reg!Last(sessions') = [reg |-> req[h].n, until |-> req[h].n]
      <4>1. sessions \in Seq(Rows)
        BY DEF RowsTyped
      <4>2. PICK e \in Rows : e = [reg |-> req[h].n, until |-> req[h].n]
        BY <3>6
      <4>3. sessions' = Append(sessions, e)
        BY <3>1, <4>2
      <4>4. /\ Append(sessions, e) \in Seq(Rows) /\ Append(sessions, e) # <<>>
            /\ Reg!Last(Append(sessions, e)) = e
        BY ONLY <4>1, LastAppend
      <4> QED
        BY <4>2, <4>3, <4>4
    <3>8. OfCodes'
      <4>1. sessions \in Seq(Rows) /\ req[h].n # Reg!None
        BY <3>1 DEF RowsTyped, Founded, Reg!Issuing, Reg!None
      <4>2. \A i \in DOMAIN sessions' :
              IF i \in DOMAIN sessions THEN sessions'[i] = sessions[i]
              ELSE sessions'[i] = [reg |-> req[h].n, until |-> req[h].n]
        BY <3>1, <3>6, <4>1
      <4> QED
        BY <4>1, <4>2 DEF OfCodes
    <3> QED
      BY <3>1, <3>4, <3>5, <3>7, <3>8
  <2> USE <2>1, <2>2 DEF Frame
  <2>3. RowsTyped'
    BY SMTT(30) DEF RowsTyped, Reg!None
  <2>4. Founded'
    BY SMTT(30) DEF Founded, Reg!Issuing, Verifying
  <2>5. OfCodes'
    BY SMTT(30) DEF OfCodes
  <2>6. IssuedAlone'
    BY SMTT(30) DEF Founded, IssuedAlone, Reg!Issuing
  <2>7. NewestIsKept'
    BY SMTT(30) DEF Founded, IssuedAlone, NewestIsKept, Reg!Issuing, Reg!None
  <2>8. DataAreKept'
    BY SMTT(30) DEF Founded, DataAreKept, Reg!Storing
  <2>9. DataLast'
    BY SMTT(30) DEF Founded, IssuedAlone, DataAreKept, DataLast, Extended, Reg!Issuing, Reg!Storing
  <2>10. VerifiedGetsData'
    BY SMTT(30) DEF Founded, VerifiedGetsData, Reg!Activated
  <2>11. OneGivesData'
    BY SMTT(30) DEF Founded, OneGivesData, Reg!Activated
  <2> QED
    BY <2>3, <2>4, <2>5, <2>6, <2>7, <2>8, <2>9, <2>10, <2>11 DEF RInv
<1>10. ASSUME NEW h \in Handlers, Reg!SetTempProfile(h) PROVE RInv'
  <2>1. UNCHANGED <<regStatus, data, otps, sessions, cachedOtp, issues, lapsed, mailed>>
    BY <1>10 DEF Reg!SetTempProfile, Reg!stored
  <2>2. /\ Frame(h)
        /\ req[h].at = "temp"
        /\ req'[h].n = req[h].n
        /\ req'[h].role = req[h].role
        /\ req'[h].row = req[h].row
        /\ req'[h].reg = req[h].reg
        /\ req'[h].kept = req[h].kept
        /\ req'[h].seen = req[h].seen
        /\ temp' \in Seq(Rows)
        /\ \/ req'[h].at = (IF req[h].role = Reg!NoRole THEN "mail" ELSE "cache") /\ mishaps' = mishaps
           \/ /\ req'[h].at = "mail"
              /\ (req[h].role # Reg!NoRole /\ cachedOtp # Reg!None => mishaps' = mishaps \cup {"staleCode"})
              /\ (req[h].role = Reg!NoRole \/ cachedOtp = Reg!None => mishaps' = mishaps)
    <3>1. req[h].at = "temp"
      BY <1>10 DEF Reg!SetTempProfile, Reg!At
    <3>2. CASE /\ temp' = <<[reg |-> req[h].reg, until |-> req[h].n]>> /\ UNCHANGED mishaps
               /\ Reg!Go(h, IF req[h].role = Reg!NoRole THEN "mail" ELSE "cache")
      <4>1. [reg |-> req[h].reg, until |-> req[h].n] \in Rows
        BY DEF Request, ReqTyped, Rows
      <4>2. temp' \in Seq(Rows)
        BY <3>2, <4>1
      <4> QED
        BY <3>1, <3>2, <4>2, GoFacts DEF Statements
    <3>3. CASE /\ UNCHANGED temp /\ Reg!Go(h, "mail")
               /\ Reg!Mishap("staleCode", req[h].role # Reg!NoRole /\ cachedOtp # Reg!None)
      BY <3>1, <3>3, GoFacts DEF Statements, Reg!Mishap, RowsTyped
    <3> QED
      BY <1>10, <3>2, <3>3 DEF Reg!SetTempProfile
  <2> USE <2>1, <2>2 DEF Frame
  <2>3. RowsTyped'
    BY SMTT(30) DEF RowsTyped, Reg!None
  <2>4. Founded'
    BY SMTT(30) DEF Founded, Reg!Issuing, Verifying
  <2>5. OfCodes'
    BY SMTT(30) DEF OfCodes
  <2>6. IssuedAlone'
    BY SMTT(30) DEF Founded, IssuedAlone, Reg!Issuing
  <2>7. NewestIsKept'
    BY SMTT(30) DEF Founded, IssuedAlone, NewestIsKept, Reg!Issuing, Reg!None
  <2>8. DataAreKept'
    BY SMTT(30) DEF Founded, DataAreKept, Reg!Storing
  <2>9. DataLast'
    BY SMTT(30) DEF Founded, IssuedAlone, DataAreKept, DataLast, Extended, Reg!Issuing, Reg!Storing
  <2>10. VerifiedGetsData'
    BY SMTT(30) DEF Founded, VerifiedGetsData, Reg!Activated
  <2>11. OneGivesData'
    BY SMTT(30) DEF Founded, OneGivesData, Reg!Activated
  <2> QED
    BY <2>3, <2>4, <2>5, <2>6, <2>7, <2>8, <2>9, <2>10, <2>11 DEF RInv
<1>11. ASSUME NEW h \in Handlers, Reg!SetOtpCache(h) PROVE RInv'
  <2>1. UNCHANGED <<regStatus, data, otps, sessions, temp, issues, lapsed, mailed>>
    BY <1>11 DEF Reg!SetOtpCache, Reg!stored
  <2>2. /\ Frame(h)
        /\ req[h].at = "cache" /\ req'[h].at = IF req[h].role = Reg!NoRole THEN "find" ELSE "mail"
        /\ req'[h].n = req[h].n
        /\ req'[h].role = req[h].role
        /\ req'[h].row = req[h].row
        /\ req'[h].reg = req[h].reg
        /\ req'[h].kept = req[h].kept
        /\ req'[h].seen = req[h].seen
        /\ \/ cachedOtp' = req[h].n /\ mishaps' = mishaps
           \/ /\ cachedOtp' = cachedOtp
              /\ mishaps' = IF cachedOtp # Reg!None THEN mishaps \cup {"staleCode"} ELSE mishaps
    BY <1>11, GoFacts, SMTT(30) DEF Reg!SetOtpCache, Reg!At, Statements, Reg!Mishap
  <2> USE <2>1, <2>2 DEF Frame
  <2>3. RowsTyped'
    BY SMTT(30) DEF RowsTyped, Reg!None
  <2>4. Founded'
    BY SMTT(30) DEF Founded, Reg!Issuing, Verifying
  <2>5. OfCodes'
    BY SMTT(30) DEF OfCodes
  <2>6. IssuedAlone'
    BY SMTT(30) DEF Founded, IssuedAlone, Reg!Issuing
  <2>7. NewestIsKept'
    BY SMTT(30) DEF Founded, IssuedAlone, NewestIsKept, Reg!Issuing, Reg!None
  <2>8. DataAreKept'
    BY SMTT(30) DEF Founded, DataAreKept, Reg!Storing
  <2>9. DataLast'
    BY SMTT(30) DEF Founded, IssuedAlone, DataAreKept, DataLast, Extended, Reg!Issuing, Reg!Storing
  <2>10. VerifiedGetsData'
    BY SMTT(30) DEF Founded, VerifiedGetsData, Reg!Activated
  <2>11. OneGivesData'
    BY SMTT(30) DEF Founded, OneGivesData, Reg!Activated
  <2> QED
    BY <2>3, <2>4, <2>5, <2>6, <2>7, <2>8, <2>9, <2>10, <2>11 DEF RInv
<1>12. ASSUME NEW h \in Handlers, Reg!FindSession(h) PROVE RInv'
  <2>1. UNCHANGED <<regStatus, data, otps, sessions, cachedOtp, temp, issues, lapsed, mailed>>
    BY <1>12 DEF Reg!FindSession, Reg!stored
  <2>2. /\ Frame(h)
        /\ req[h].at = "find"
        /\ req'[h].n = req[h].n
        /\ req'[h].role = req[h].role
        /\ req'[h].row = req[h].row
        /\ req'[h].kept = req[h].kept
        /\ req'[h].seen = req[h].seen
        /\ \/ /\ req'[h].at = "refresh" /\ mishaps' = mishaps
              /\ sessions # <<>> /\ req'[h].reg = Reg!Last(sessions).reg
           \/ /\ req'[h].at = "mail" /\ sessions = <<>>
              /\ mishaps' = IF \E g \in Handlers : Reg!Storing(g)
                            THEN mishaps \cup {"noSession"} ELSE mishaps
           \/ req'[h].at = "mail" /\ mishaps' = mishaps \cup {"notExtended"}
    <3>1. req[h].at = "find"
      BY <1>12 DEF Reg!FindSession, Reg!At
    <3>2. CASE /\ sessions # <<>> /\ UNCHANGED mishaps
               /\ req' = [req EXCEPT ![h].at = "refresh", ![h].reg = Reg!Last(sessions).reg]
      <4>1. Reg!Last(sessions).reg \in Nat
        <5>1. Reg!Last(sessions) \in Rows
          BY <3>2, LastIsThere DEF RowsTyped
        <5> QED
          BY <5>1 DEF Rows
      <4>2. \A r \in Request : [r EXCEPT !.at = "refresh", !.reg = Reg!Last(sessions).reg] \in Request
        BY <4>1 DEF Request, Statements, ReqTyped
      <4>3. Frame(h)
        BY <3>2, <4>2 DEF Frame, ReqTyped
      <4>4. /\ req'[h].at = "refresh" /\ req'[h].n = req[h].n /\ req'[h].reg = Reg!Last(sessions).reg
            /\ req'[h].role = req[h].role /\ req'[h].row = req[h].row
            /\ req'[h].kept = req[h].kept /\ req'[h].seen = req[h].seen
        BY <3>2 DEF Request, ReqTyped
      <4> QED
        BY <3>1, <3>2, <4>3, <4>4
    <3>3. CASE sessions = <<>> /\ Reg!Go(h, "mail") /\ Reg!Mishap("noSession", \E g \in Handlers : Reg!Storing(g))
      BY <3>1, <3>3, GoFacts DEF Statements, Reg!Mishap
    <3>4. CASE Reg!Go(h, "mail") /\ Reg!Mishap("notExtended", TRUE)
      BY <3>1, <3>4, GoFacts DEF Statements, Reg!Mishap
    <3> QED
      BY <1>12, <3>2, <3>3, <3>4 DEF Reg!FindSession
  <2> USE <2>1, <2>2 DEF Frame
  <2>3. RowsTyped'
    BY SMTT(30) DEF RowsTyped, Reg!None
  <2>4. Founded'
    BY SMTT(30) DEF Founded, Reg!Issuing, Verifying
  <2>5. OfCodes'
    BY SMTT(30) DEF OfCodes
  <2>6. IssuedAlone'
    BY SMTT(30) DEF Founded, IssuedAlone, Reg!Issuing
  <2>7. NewestIsKept'
    BY SMTT(30) DEF Founded, IssuedAlone, NewestIsKept, Reg!Issuing, Reg!None
  <2>8. DataAreKept'
    BY SMTT(30) DEF Founded, DataAreKept, Reg!Storing
  <2>9. DataLast'
    BY SMTT(30) DEF Founded, IssuedAlone, DataAreKept, DataLast, Extended, Reg!Issuing, Reg!Storing
  <2>10. VerifiedGetsData'
    BY SMTT(30) DEF Founded, VerifiedGetsData, Reg!Activated
  <2>11. OneGivesData'
    BY SMTT(30) DEF Founded, OneGivesData, Reg!Activated
  <2> QED
    BY <2>3, <2>4, <2>5, <2>6, <2>7, <2>8, <2>9, <2>10, <2>11 DEF RInv
<1>13. ASSUME NEW h \in Handlers, Reg!RefreshSession(h) PROVE RInv'
  <2>1. UNCHANGED <<regStatus, data, otps, cachedOtp, temp, issues, lapsed, mailed>>
    BY <1>13 DEF Reg!RefreshSession, Reg!stored
  <2>2. /\ Frame(h)
        /\ req[h].at = "refresh"
        /\ req'[h].n = req[h].n
        /\ req'[h].role = req[h].role
        /\ req'[h].row = req[h].row
        /\ req'[h].reg = req[h].reg
        /\ req'[h].kept = req[h].kept
        /\ req'[h].seen = req[h].seen
        /\ sessions' \in Seq(Rows) /\ OfCodes'
        /\ \/ /\ req'[h].at = "temp" /\ mishaps' = mishaps
              /\ sessions' = <<>> <=> sessions = <<>>
              /\ sessions # <<>> /\ Reg!Last(sessions).reg = req[h].reg => Reg!Last(sessions').until = req[h].n
           \/ req'[h].at = "mail" /\ mishaps' = mishaps \cup {"notExtended"} /\ sessions' = sessions
    <3>1. req[h].at = "refresh" /\ req[h].n \in Nat
      BY <1>13 DEF Reg!RefreshSession, Reg!At, Request, ReqTyped
    <3>2. CASE /\ Reg!Go(h, "temp") /\ UNCHANGED mishaps
               /\ sessions' = [i \in DOMAIN sessions |->
                    IF sessions[i].reg = req[h].reg
                    THEN [sessions[i] EXCEPT !.until = req[h].n] ELSE sessions[i]]
      <4>1. \A i \in DOMAIN sessions :
              sessions'[i] \in Rows /\ sessions'[i].reg = sessions[i].reg
        <5>1. \A i \in DOMAIN sessions : sessions[i] \in Rows
          BY DEF RowsTyped
        <5>2. \A r \in Rows : /\ [r EXCEPT !.until = req[h].n] \in Rows
                              /\ [r EXCEPT !.until = req[h].n].reg = r.reg
          BY <3>1 DEF Rows
        <5> QED
          BY <3>2, <5>1, <5>2
      <4>2. Len(sessions) \in Nat /\ DOMAIN sessions = 1..Len(sessions)
        BY DEF RowsTyped
      <4>3. sessions' \in Seq(Rows) /\ Len(sessions') = Len(sessions)
        BY <3>2, <4>1, <4>2
      <4>4. sessions' = <<>> <=> sessions = <<>>
        BY <4>3 DEF RowsTyped
      <4>5. sessions # <<>> /\ Reg!Last(sessions).reg = req[h].reg => Reg!Last(sessions').until = req[h].n
        BY <3>1, <3>2, <4>2, <4>3, LastIsThere DEF Reg!Last, RowsTyped, Rows
      <4>6. OfCodes'
        BY <3>2, <4>1 DEF OfCodes
      <4> QED
        BY <3>1, <3>2, <4>3, <4>4, <4>5, <4>6, GoFacts DEF Statements
    <3>3. CASE UNCHANGED sessions /\ Reg!Go(h, "mail") /\ Reg!Mishap("notExtended", TRUE)
      BY <3>1, <3>3, GoFacts DEF Statements, Reg!Mishap, RowsTyped, OfCodes
    <3> QED
      BY <1>13, <3>2, <3>3 DEF Reg!RefreshSession
  <2> USE <2>1, <2>2 DEF Frame
  <2>3. RowsTyped'
    BY SMTT(30) DEF RowsTyped, Reg!None
  <2>4. Founded'
    BY SMTT(30) DEF Founded, Reg!Issuing, Verifying
  <2>5. OfCodes'
    BY SMTT(30) DEF OfCodes
  <2>6. IssuedAlone'
    BY SMTT(30) DEF Founded, IssuedAlone, Reg!Issuing
  <2>7. NewestIsKept'
    BY SMTT(30) DEF Founded, IssuedAlone, NewestIsKept, Reg!Issuing, Reg!None
  <2>8. DataAreKept'
    BY SMTT(30) DEF Founded, DataAreKept, Reg!Storing
  <2>9. DataLast'
    BY SMTT(30) DEF Founded, IssuedAlone, DataAreKept, DataLast, Extended, Reg!Issuing, Reg!Storing
  <2>10. VerifiedGetsData'
    BY SMTT(30) DEF Founded, VerifiedGetsData, Reg!Activated
  <2>11. OneGivesData'
    BY SMTT(30) DEF Founded, OneGivesData, Reg!Activated
  <2> QED
    BY <2>3, <2>4, <2>5, <2>6, <2>7, <2>8, <2>9, <2>10, <2>11 DEF RInv
<1>14. ASSUME NEW h \in Handlers, Reg!Mail(h) PROVE RInv'
  <2>1. UNCHANGED <<regStatus, data, otps, sessions, cachedOtp, temp, issues, lapsed, mishaps>>
    BY <1>14 DEF Reg!Mail, Reg!stored
  <2>2. /\ Frame(h)
        /\ req[h].at = "mail" /\ req'[h].at = "idle" /\ req'[h].seen = "none"
        /\ mailed' = mailed \cup {req[h].n}
    BY <1>14, EndFacts DEF Reg!Mail, Reg!At
  <2> USE <2>1, <2>2 DEF Frame
  <2>3. RowsTyped'
    <3>1. req[h].n \in 1..Len(issues)
      BY DEF Founded, Reg!Issuing
    <3>2. mailed' \subseteq 1..Len(issues')
      BY <3>1
    <3> QED
      BY <3>2, SMTT(30) DEF RowsTyped
  <2>4. Founded'
    BY SMTT(30) DEF Founded, Reg!Issuing, Verifying
  <2>5. OfCodes'
    BY SMTT(30) DEF OfCodes
  <2>6. IssuedAlone'
    BY SMTT(30) DEF Founded, IssuedAlone, Reg!Issuing
  <2>7. NewestIsKept'
    BY SMTT(30) DEF Founded, IssuedAlone, NewestIsKept, Reg!Issuing, Reg!None
  <2>8. DataAreKept'
    BY SMTT(30) DEF Founded, DataAreKept, Reg!Storing
  <2>9. DataLast'
    BY SMTT(30) DEF Founded, IssuedAlone, DataAreKept, DataLast, Extended, Reg!Issuing, Reg!Storing
  <2>10. VerifiedGetsData'
    BY SMTT(30) DEF Founded, VerifiedGetsData, Reg!Activated
  <2>11. OneGivesData'
    BY SMTT(30) DEF Founded, OneGivesData, Reg!Activated
  <2> QED
    BY <2>3, <2>4, <2>5, <2>6, <2>7, <2>8, <2>9, <2>10, <2>11 DEF RInv
<1> QED
  BY <1>3, <1>4, <1>5, <1>6, <1>7, <1>8, <1>9, <1>10, <1>11, <1>12, <1>13, <1>14 DEF Reg!Issue

\* So does what verifies it, or fails.
LEMMA VerifyKeeps ==
  ASSUME RInv, NEW q \in Handlers, Reg!Verify(q) \/ Reg!Fail(q)
  PROVE  RInv'
<1>1. /\ RowsTyped /\ Founded /\ OfCodes /\ IssuedAlone /\ NewestIsKept
      /\ DataAreKept /\ DataLast /\ VerifiedGetsData /\ OneGivesData
  BY DEF RInv
<1>2. /\ ReqTyped /\ Len(issues) \in Nat /\ lapsed \in Nat
      /\ regStatus \in {"none", "UNVERIFIED", "ACTIVE", "LOCKED"} /\ mailed \subseteq 1..Len(issues)
      /\ \A g \in Handlers : req[g].n \in Nat
  BY <1>1 DEF RowsTyped, ReqTyped, Request
<1> USE <1>1, <1>2 DEF Reg!At
<1>3. ASSUME NEW h \in Handlers, NEW code \in mailed, Reg!VerifyOtp(h, code) PROVE RInv'
  <2>1. UNCHANGED <<regStatus, data, otps, sessions, cachedOtp, temp, issues, lapsed, mailed, mishaps>>
    BY <1>3 DEF Reg!VerifyOtp, Reg!stored
  <2>2. /\ Frame(h)
        /\ req[h].at = "idle" /\ req'[h].at = "compare" /\ req'[h].n = code
        /\ req'[h].role = Reg!NoRole /\ req'[h].seen = "none"
    <3>1. PICK kept \in BOOLEAN : kept = (regFaults' = regFaults /\ cachedOtp # Reg!None)
      OBVIOUS
    <3>2. code \in Nat
      BY DEF RowsTyped
    <3> DEFINE r == [Reg!Idle EXCEPT !.at = "compare", !.n = code, !.kept = kept]
    <3>3. r \in Request /\ r.at = "compare" /\ r.n = code /\ r.role = Reg!NoRole /\ r.seen = "none"
      BY <3>2 DEF Reg!Idle, Request, Statements, Reg!None
    <3>4. req' = [req EXCEPT ![h] = r]
      BY <1>3, <3>1 DEF Reg!VerifyOtp
    <3> HIDE DEF r
    <3> QED
      BY <1>3, <3>3, <3>4, BecomesFacts DEF Reg!VerifyOtp, Reg!At
  <2> USE <2>1, <2>2 DEF Frame
  <2>3. RowsTyped'
    BY SMTT(30) DEF RowsTyped, Reg!None
  <2>4. Founded'
    BY SMTT(30) DEF Founded, Reg!Issuing, Verifying
  <2>5. OfCodes'
    BY SMTT(30) DEF OfCodes
  <2>6. IssuedAlone'
    BY SMTT(30) DEF Founded, IssuedAlone, Reg!Issuing
  <2>7. NewestIsKept'
    BY SMTT(30) DEF Founded, IssuedAlone, NewestIsKept, Reg!Issuing, Reg!None
  <2>8. DataAreKept'
    BY SMTT(30) DEF Founded, DataAreKept, Reg!Storing
  <2>9. DataLast'
    BY SMTT(30) DEF Founded, IssuedAlone, DataAreKept, DataLast, Extended, Reg!Issuing, Reg!Storing
  <2>10. VerifiedGetsData'
    BY SMTT(30) DEF Founded, VerifiedGetsData, Reg!Activated
  <2>11. OneGivesData'
    BY SMTT(30) DEF Founded, OneGivesData, Reg!Activated
  <2> QED
    BY <2>3, <2>4, <2>5, <2>6, <2>7, <2>8, <2>9, <2>10, <2>11 DEF RInv
<1>4. ASSUME NEW h \in Handlers, Reg!CompareCode(h) PROVE RInv'
  <2>1. UNCHANGED <<regStatus, data, otps, sessions, cachedOtp, temp, issues, lapsed, mailed, mishaps>>
    BY <1>4 DEF Reg!CompareCode, Reg!stored
  <2>2. /\ Frame(h)
        /\ req[h].at = "compare"
        /\ \/ /\ req'[h].at = "user" /\ req'[h].n = req[h].n
              /\ req'[h].role = req[h].role /\ req'[h].seen = req[h].seen
           \/ req'[h].at = "idle" /\ req'[h].seen = "none"
    <3>1. req[h].at = "compare" /\ Reg!ValidOtp \in Nat
      BY <1>4, LastIsThere DEF Reg!CompareCode, Reg!At, Reg!ValidOtp, Reg!None, RowsTyped
    <3>2. CASE req' = [req EXCEPT ![h].at = "user", ![h].row = Reg!ValidOtp, ![h].kept = FALSE]
      <4>1. \A r \in Request : [r EXCEPT !.at = "user", !.row = Reg!ValidOtp, !.kept = FALSE] \in Request
        BY <3>1 DEF Request, Statements, ReqTyped
      <4>2. Frame(h)
        BY <3>2, <4>1 DEF Frame, ReqTyped
      <4>3. /\ req'[h].at = "user" /\ req'[h].n = req[h].n
            /\ req'[h].role = req[h].role /\ req'[h].seen = req[h].seen
        BY <3>2 DEF Request, ReqTyped
      <4> QED
        BY <3>1, <4>2, <4>3
    <3>3. CASE Reg!End(h)
      BY <3>1, <3>3, EndFacts
    <3> QED
      BY <1>4, <3>2, <3>3 DEF Reg!CompareCode
  <2> USE <2>1, <2>2 DEF Frame
  <2>3. RowsTyped'
    BY SMTT(30) DEF RowsTyped, Reg!None
  <2>4. Founded'
    BY SMTT(30) DEF Founded, Reg!Issuing, Verifying
  <2>5. OfCodes'
    BY SMTT(30) DEF OfCodes
  <2>6. IssuedAlone'
    BY SMTT(30) DEF Founded, IssuedAlone, Reg!Issuing
  <2>7. NewestIsKept'
    BY SMTT(30) DEF Founded, IssuedAlone, NewestIsKept, Reg!Issuing, Reg!None
  <2>8. DataAreKept'
    BY SMTT(30) DEF Founded, DataAreKept, Reg!Storing
  <2>9. DataLast'
    BY SMTT(30) DEF Founded, IssuedAlone, DataAreKept, DataLast, Extended, Reg!Issuing, Reg!Storing
  <2>10. VerifiedGetsData'
    BY SMTT(30) DEF Founded, VerifiedGetsData, Reg!Activated
  <2>11. OneGivesData'
    BY SMTT(30) DEF Founded, OneGivesData, Reg!Activated
  <2> QED
    BY <2>3, <2>4, <2>5, <2>6, <2>7, <2>8, <2>9, <2>10, <2>11 DEF RInv
<1>5. ASSUME NEW h \in Handlers, Reg!ReadUser(h) PROVE RInv'
  <2>1. UNCHANGED <<regStatus, data, otps, sessions, cachedOtp, temp, issues, lapsed, mailed, mishaps>>
    BY <1>5 DEF Reg!ReadUser, Reg!stored
  <2>2. /\ Frame(h)
        /\ req[h].at = "user" /\ req'[h].at \in {"again", "use"}
        /\ req'[h].n = req[h].n /\ req'[h].role = req[h].role /\ req'[h].seen = regStatus
    <3>1. PICK step \in {"again", "use"} : step = IF req[h].row = Reg!None THEN "again" ELSE "use"
      OBVIOUS
    <3>2. req' = [req EXCEPT ![h].at = step, ![h].seen = regStatus] /\ req[h].at = "user"
      BY <1>5, <3>1 DEF Reg!ReadUser, Reg!At
    <3>3. \A r \in Request : [r EXCEPT !.at = step, !.seen = regStatus] \in Request
      BY DEF Request, Statements, RowsTyped
    <3>4. Frame(h)
      BY <3>2, <3>3 DEF Frame, ReqTyped
    <3>5. /\ req'[h].at = step /\ req'[h].seen = regStatus
          /\ req'[h].n = req[h].n /\ req'[h].role = req[h].role
      BY <3>2 DEF Request, ReqTyped
    <3> QED
      BY <3>2, <3>4, <3>5
  <2> USE <2>1, <2>2 DEF Frame
  <2>3. RowsTyped'
    BY SMTT(30) DEF RowsTyped, Reg!None
  <2>4. Founded'
    BY SMTT(30) DEF Founded, Reg!Issuing, Verifying
  <2>5. OfCodes'
    BY SMTT(30) DEF OfCodes
  <2>6. IssuedAlone'
    BY SMTT(30) DEF Founded, IssuedAlone, Reg!Issuing
  <2>7. NewestIsKept'
    BY SMTT(30) DEF Founded, IssuedAlone, NewestIsKept, Reg!Issuing, Reg!None
  <2>8. DataAreKept'
    BY SMTT(30) DEF Founded, DataAreKept, Reg!Storing
  <2>9. DataLast'
    BY SMTT(30) DEF Founded, IssuedAlone, DataAreKept, DataLast, Extended, Reg!Issuing, Reg!Storing
  <2>10. VerifiedGetsData'
    BY SMTT(30) DEF Founded, VerifiedGetsData, Reg!Activated
  <2>11. OneGivesData'
    BY SMTT(30) DEF Founded, OneGivesData, Reg!Activated
  <2> QED
    BY <2>3, <2>4, <2>5, <2>6, <2>7, <2>8, <2>9, <2>10, <2>11 DEF RInv
<1>6. ASSUME NEW h \in Handlers, Reg!FindCodeAgain(h) PROVE RInv'
  <2>1. UNCHANGED <<regStatus, data, otps, sessions, cachedOtp, temp, issues, lapsed, mailed, mishaps>>
    BY <1>6 DEF Reg!FindCodeAgain, Reg!stored
  <2>2. /\ Frame(h)
        /\ req[h].at = "again"
        /\ \/ /\ req[h].seen = "UNVERIFIED" /\ req'[h].at = "activate"
              /\ req'[h].n = req[h].n /\ req'[h].role = Reg!NoRole /\ req'[h].seen = "none"
           \/ req[h].seen # "UNVERIFIED" /\ req'[h].at = "idle" /\ req'[h].seen = "none"
           \/ /\ req'[h].at = "use" /\ req'[h].n = req[h].n
              /\ req'[h].role = req[h].role /\ req'[h].seen = req[h].seen
    <3>1. req[h].at = "again" /\ Reg!ValidOtp \in Nat
      BY <1>6, LastIsThere DEF Reg!FindCodeAgain, Reg!At, Reg!ValidOtp, Reg!None, RowsTyped
    <3>2. CASE req' = [req EXCEPT ![h].row = Reg!ValidOtp, ![h].at = "use"]
      <4>1. \A r \in Request : [r EXCEPT !.row = Reg!ValidOtp, !.at = "use"] \in Request
        BY <3>1 DEF Request, Statements, ReqTyped
      <4>2. Frame(h)
        BY <3>2, <4>1 DEF Frame, ReqTyped
      <4>3. /\ req'[h].at = "use" /\ req'[h].n = req[h].n
            /\ req'[h].role = req[h].role /\ req'[h].seen = req[h].seen
        BY <3>2 DEF Request, ReqTyped
      <4> QED
        BY <3>1, <4>2, <4>3
    <3>3. CASE Reg!CheckUser(h)
      BY <3>1, <3>3, CheckUserFacts
    <3> QED
      BY <1>6, <3>2, <3>3 DEF Reg!FindCodeAgain
  <2> USE <2>1, <2>2 DEF Frame
  <2>3. RowsTyped'
    BY SMTT(30) DEF RowsTyped, Reg!None
  <2>4. Founded'
    BY SMTT(30) DEF Founded, Reg!Issuing, Verifying
  <2>5. OfCodes'
    BY SMTT(30) DEF OfCodes
  <2>6. IssuedAlone'
    BY SMTT(30) DEF Founded, IssuedAlone, Reg!Issuing
  <2>7. NewestIsKept'
    BY SMTT(30) DEF Founded, IssuedAlone, NewestIsKept, Reg!Issuing, Reg!None
  <2>8. DataAreKept'
    BY SMTT(30) DEF Founded, DataAreKept, Reg!Storing
  <2>9. DataLast'
    BY SMTT(30) DEF Founded, IssuedAlone, DataAreKept, DataLast, Extended, Reg!Issuing, Reg!Storing
  <2>10. VerifiedGetsData'
    BY SMTT(30) DEF Founded, VerifiedGetsData, Reg!Activated
  <2>11. OneGivesData'
    BY SMTT(30) DEF Founded, OneGivesData, Reg!Activated
  <2> QED
    BY <2>3, <2>4, <2>5, <2>6, <2>7, <2>8, <2>9, <2>10, <2>11 DEF RInv
<1>7. ASSUME NEW h \in Handlers, Reg!UseCode(h) PROVE RInv'
  <2>1. UNCHANGED <<regStatus, data, sessions, cachedOtp, temp, issues, lapsed, mailed, mishaps>>
    BY <1>7 DEF Reg!UseCode, Reg!stored
  <2>2. /\ Frame(h)
        /\ req[h].at = "use"
        /\ \/ /\ req[h].seen = "UNVERIFIED" /\ req'[h].at = "activate"
              /\ req'[h].n = req[h].n /\ req'[h].role = Reg!NoRole /\ req'[h].seen = "none"
           \/ req[h].seen # "UNVERIFIED" /\ req'[h].at = "idle" /\ req'[h].seen = "none"
        /\ otps' \in Seq(Nat) /\ (otps = <<>> => otps' = otps)
    <3>1. req[h].at = "use" /\ Reg!CheckUser(h)
      BY <1>7 DEF Reg!UseCode, Reg!At
    <3>2. otps' \in Seq(Nat) /\ (otps = <<>> => otps' = otps)
      BY <1>7, RemoveAtType DEF Reg!UseCode, RowsTyped
    <3> QED
      BY <3>1, <3>2, CheckUserFacts
  <2> USE <2>1, <2>2 DEF Frame
  <2>3. RowsTyped'
    BY SMTT(30) DEF RowsTyped, Reg!None
  <2>4. Founded'
    BY SMTT(30) DEF Founded, Reg!Issuing, Verifying
  <2>5. OfCodes'
    BY SMTT(30) DEF OfCodes
  <2>6. IssuedAlone'
    BY SMTT(30) DEF Founded, IssuedAlone, Reg!Issuing
  <2>7. NewestIsKept'
    BY SMTT(30) DEF Founded, IssuedAlone, NewestIsKept, Reg!Issuing, Reg!None
  <2>8. DataAreKept'
    BY SMTT(30) DEF Founded, DataAreKept, Reg!Storing
  <2>9. DataLast'
    BY SMTT(30) DEF Founded, IssuedAlone, DataAreKept, DataLast, Extended, Reg!Issuing, Reg!Storing
  <2>10. VerifiedGetsData'
    BY SMTT(30) DEF Founded, VerifiedGetsData, Reg!Activated
  <2>11. OneGivesData'
    BY SMTT(30) DEF Founded, OneGivesData, Reg!Activated
  <2> QED
    BY <2>3, <2>4, <2>5, <2>6, <2>7, <2>8, <2>9, <2>10, <2>11 DEF RInv
<1>8. ASSUME NEW h \in Handlers, Reg!Activate(h) PROVE RInv'
  <2>1. UNCHANGED <<data, otps, sessions, cachedOtp, temp, issues, lapsed, mailed>>
    BY <1>8 DEF Reg!Activate, Reg!stored
  <2>2. /\ Frame(h)
        /\ req[h].at = "activate" /\ req'[h].at = "getTemp"
        /\ req'[h].n = req[h].n
        /\ req'[h].role = req[h].role
        /\ req'[h].row = req[h].row
        /\ req'[h].reg = req[h].reg
        /\ req'[h].kept = req[h].kept
        /\ req'[h].seen = req[h].seen
        /\ regStatus' = "ACTIVE"
        /\ mishaps \subseteq mishaps' /\ mishaps' \subseteq mishaps \cup {"twice"}
        /\ (\E g \in Handlers \ {h} : req[g].at = "activate" \/ req[g].seen = "UNVERIFIED") => "twice" \in mishaps'
    BY <1>8, GoFacts, SMTT(30) DEF Reg!Activate, Reg!At, Statements, Reg!Mishap
  <2> USE <2>1, <2>2 DEF Frame
  <2>3. RowsTyped'
    BY SMTT(30) DEF RowsTyped, Reg!None
  <2>4. Founded'
    BY SMTT(30) DEF Founded, Reg!Issuing, Verifying
  <2>5. OfCodes'
    BY SMTT(30) DEF OfCodes
  <2>6. IssuedAlone'
    BY SMTT(30) DEF Founded, IssuedAlone, Reg!Issuing
  <2>7. NewestIsKept'
    BY SMTT(30) DEF Founded, IssuedAlone, NewestIsKept, Reg!Issuing, Reg!None
  <2>8. DataAreKept'
    BY SMTT(30) DEF Founded, DataAreKept, Reg!Storing
  <2>9. DataLast'
    BY SMTT(30) DEF Founded, IssuedAlone, DataAreKept, DataLast, Extended, Reg!Issuing, Reg!Storing
  <2>10. VerifiedGetsData'
    BY SMTT(30) DEF Founded, VerifiedGetsData, Reg!Activated
  <2>11. OneGivesData'
    BY SMTT(30) DEF Founded, OneGivesData, Reg!Activated
  <2> QED
    BY <2>3, <2>4, <2>5, <2>6, <2>7, <2>8, <2>9, <2>10, <2>11 DEF RInv
<1>9. ASSUME NEW h \in Handlers, Reg!GetTempProfile(h) PROVE RInv'
  <2>1. UNCHANGED <<regStatus, data, otps, sessions, cachedOtp, temp, issues, lapsed, mailed, mishaps>>
    BY <1>9 DEF Reg!GetTempProfile, Reg!stored
  <2>2. /\ Frame(h)
        /\ req[h].at = "getTemp" /\ req'[h].at \in {"createData", "getSession"}
        /\ req'[h].n = req[h].n
        /\ req'[h].role = req[h].role
        /\ req'[h].row = req[h].row
        /\ req'[h].kept = req[h].kept
        /\ req'[h].seen = req[h].seen
    <3>1. req[h].at = "getTemp"
      BY <1>9 DEF Reg!GetTempProfile, Reg!At
    <3>2. CASE temp # <<>> /\ req' = [req EXCEPT ![h].at = "createData", ![h].reg = temp[1].reg]
      <4>1. temp[1].reg \in Nat
        <5>1. temp \in Seq(Rows) /\ Len(temp) \in DOMAIN temp
          BY <3>2, LastIsThere DEF RowsTyped
        <5>2. 1 \in DOMAIN temp
          BY <5>1
        <5>3. temp[1] \in Rows
          BY <5>1, <5>2
        <5> QED
          BY <5>3 DEF Rows
      <4>2. \A r \in Request : [r EXCEPT !.at = "createData", !.reg = temp[1].reg] \in Request
        BY <4>1 DEF Request, Statements, ReqTyped
      <4>3. Frame(h)
        BY <3>2, <4>2 DEF Frame, ReqTyped
      <4>4. /\ req'[h].at = "createData" /\ req'[h].n = req[h].n
            /\ req'[h].role = req[h].role /\ req'[h].row = req[h].row
            /\ req'[h].kept = req[h].kept /\ req'[h].seen = req[h].seen
        BY <3>2 DEF Request, ReqTyped
      <4> QED
        BY <3>1, <3>2, <4>3, <4>4
    <3>3. CASE Reg!Go(h, "getSession")
      BY <3>1, <3>3, GoFacts DEF Statements
    <3> QED
      BY <1>9, <3>2, <3>3 DEF Reg!GetTempProfile
  <2> USE <2>1, <2>2 DEF Frame
  <2>3. RowsTyped'
    BY SMTT(30) DEF RowsTyped, Reg!None
  <2>4. Founded'
    BY SMTT(30) DEF Founded, Reg!Issuing, Verifying
  <2>5. OfCodes'
    BY SMTT(30) DEF OfCodes
  <2>6. IssuedAlone'
    BY SMTT(30) DEF Founded, IssuedAlone, Reg!Issuing
  <2>7. NewestIsKept'
    BY SMTT(30) DEF Founded, IssuedAlone, NewestIsKept, Reg!Issuing, Reg!None
  <2>8. DataAreKept'
    BY SMTT(30) DEF Founded, DataAreKept, Reg!Storing
  <2>9. DataLast'
    BY SMTT(30) DEF Founded, IssuedAlone, DataAreKept, DataLast, Extended, Reg!Issuing, Reg!Storing
  <2>10. VerifiedGetsData'
    BY SMTT(30) DEF Founded, VerifiedGetsData, Reg!Activated
  <2>11. OneGivesData'
    BY SMTT(30) DEF Founded, OneGivesData, Reg!Activated
  <2> QED
    BY <2>3, <2>4, <2>5, <2>6, <2>7, <2>8, <2>9, <2>10, <2>11 DEF RInv
<1>10. ASSUME NEW h \in Handlers, Reg!GetSession(h) PROVE RInv'
  <2>1. UNCHANGED <<regStatus, data, otps, sessions, cachedOtp, temp, issues, lapsed, mailed>>
    BY <1>10 DEF Reg!GetSession, Reg!stored
  <2>2. /\ Frame(h)
        /\ req[h].at = "getSession" /\ req'[h].at \in {"createData", "clean"}
        /\ mishaps \subseteq mishaps' /\ mishaps' \subseteq mishaps \cup {"noSession", "late"}
        /\ req'[h].at = "clean" => Reg!ValidSession = Reg!None /\ req'[h].seen = "none"
        /\ req'[h].at = "createData" => req'[h].n = req[h].n /\ req'[h].seen = req[h].seen
        /\ Reg!ValidSession = Reg!None /\ (\E g \in Handlers : Reg!Storing(g)) => "noSession" \in mishaps'
        /\ Reg!ValidSession = Reg!None /\ req[h].n <= lapsed => "late" \in mishaps'
        /\ Reg!ValidSession = Reg!None /\ "overlap" \in mishaps /\ sessions # <<>> => "late" \in mishaps'
    <3>1. /\ req[h].at = "getSession" /\ mishaps \subseteq mishaps'
          /\ mishaps' \subseteq mishaps \cup {"noSession", "late"}
          /\ Reg!ValidSession = Reg!None /\ (\E g \in Handlers : Reg!Storing(g)) => "noSession" \in mishaps'
          /\ Reg!ValidSession = Reg!None /\ req[h].n <= lapsed => "late" \in mishaps'
          /\ Reg!ValidSession = Reg!None /\ "overlap" \in mishaps /\ sessions # <<>> => "late" \in mishaps'
      BY <1>10 DEF Reg!GetSession, Reg!At
    <3>2. CASE Reg!ValidSession = Reg!None
      <4> DEFINE r == [Reg!Idle EXCEPT !.at = "clean"]
      <4>1. r \in Request /\ r.at = "clean" /\ r.seen = "none"
        BY DEF Reg!Idle, Request, Statements, Reg!None
      <4>2. req' = [req EXCEPT ![h] = r]
        BY <1>10, <3>2 DEF Reg!GetSession
      <4> HIDE DEF r
      <4> QED
        BY <3>1, <3>2, <4>1, <4>2, BecomesFacts
    <3>3. CASE Reg!ValidSession # Reg!None
      <4>1. Reg!ValidSession \in Nat
        <5>1. sessions # <<>> /\ Reg!ValidSession = Reg!Last(sessions).reg
          BY <3>3 DEF Reg!ValidSession
        <5>2. Reg!Last(sessions) \in Rows
          BY <5>1, LastIsThere DEF RowsTyped
        <5> QED
          BY <5>1, <5>2 DEF Rows
      <4>2. req' = [req EXCEPT ![h] = [@ EXCEPT !.at = "createData", !.reg = Reg!ValidSession,
                                                  !.kept = TRUE]]
        BY <1>10, <3>3 DEF Reg!GetSession
      <4>3. \A r \in Request :
              [r EXCEPT !.at = "createData", !.reg = Reg!ValidSession, !.kept = TRUE] \in Request
        BY <4>1 DEF Request, Statements, ReqTyped
      <4>4. Frame(h)
        BY <4>2, <4>3 DEF Frame, ReqTyped
      <4>5. req'[h].at = "createData" /\ req'[h].n = req[h].n /\ req'[h].seen = req[h].seen
        BY <4>2 DEF Request, ReqTyped
      <4> QED
        BY <3>1, <3>3, <4>4, <4>5
    <3> QED
      BY <3>2, <3>3
  <2> USE <2>1, <2>2 DEF Frame
  <2>3. RowsTyped'
    BY SMTT(30) DEF RowsTyped, Reg!None
  <2>4. Founded'
    BY SMTT(30) DEF Founded, Reg!Issuing, Verifying
  <2>5. OfCodes'
    BY SMTT(30) DEF OfCodes
  <2>6. IssuedAlone'
    BY SMTT(30) DEF Founded, IssuedAlone, Reg!Issuing
  <2>7. NewestIsKept'
    BY SMTT(30) DEF Founded, IssuedAlone, NewestIsKept, Reg!Issuing, Reg!None
  <2>8. DataAreKept'
    BY SMTT(30) DEF Founded, DataAreKept, Reg!Storing
  <2>9. DataLast'
    BY SMTT(30) DEF Founded, IssuedAlone, DataAreKept, DataLast, Extended, Reg!Issuing, Reg!Storing
  <2>10. VerifiedGetsData'
    <3>1. CASE req'[h].at = "createData"
      BY <3>1 DEF Reg!Activated, VerifiedGetsData
    <3>2. CASE req'[h].at = "clean"
      <4> SUFFICES ASSUME data = {}, regStatus = "ACTIVE",
                          mishaps' \cap {"unfinished", "late", "notExtended", "noSession"} = {}
                   PROVE  FALSE
        BY DEF VerifiedGetsData
      <4>1. Reg!ValidSession = Reg!None /\ "noSession" \notin mishaps /\ "notExtended" \notin mishaps
        BY <3>2
      <4>2. sessions # <<>>
        BY <4>1 DEF DataAreKept
      <4>3. "overlap" \notin mishaps /\ ~ (req[h].n <= lapsed)
        BY <4>1, <4>2
      <4>4. req[h].n \in mailed
        BY DEF Founded, Verifying
      <4>5. Reg!Last(sessions).until >= req[h].n
        BY <4>1, <4>2, <4>3, <4>4 DEF DataLast, Extended
      <4>6. Reg!Last(sessions) \in Rows /\ req[h].n \in Nat /\ lapsed \in Nat
        BY <4>2, LastIsThere DEF RowsTyped, Request, ReqTyped, Rows
      <4>7. Reg!ValidSession = Reg!Last(sessions).reg
        <5>1. Reg!Last(sessions).until \in Nat
          BY <4>6 DEF Rows
        <5>2. Reg!Last(sessions).until > lapsed
          BY <4>3, <4>5, <4>6, <5>1
        <5> QED
          BY <4>2, <5>2 DEF Reg!ValidSession
      <4>8. Reg!Last(sessions).reg # Reg!None
        BY <4>2, LastIsThere DEF OfCodes, Reg!Last, RowsTyped
      <4> QED
        BY <4>1, <4>7, <4>8
    <3> QED
      BY <3>1, <3>2
  <2>11. OneGivesData'
    BY SMTT(30) DEF Founded, OneGivesData, Reg!Activated
  <2> QED
    BY <2>3, <2>4, <2>5, <2>6, <2>7, <2>8, <2>9, <2>10, <2>11 DEF RInv
<1>11. ASSUME NEW h \in Handlers, Reg!CreateData(h) PROVE RInv'
  <2>1. UNCHANGED <<regStatus, otps, sessions, cachedOtp, temp, issues, lapsed, mailed, mishaps>>
    BY <1>11 DEF Reg!CreateData, Reg!stored
  <2>2. /\ Frame(h)
        /\ req[h].at = "createData" /\ req'[h].at \in {"idle", "clearTemp"}
        /\ req'[h].seen \in {req[h].seen, "none"}
        /\ \E a : data' = data \cup {a}
    <3>1. req[h].at = "createData" /\ \E a : data' = data \cup {a}
      BY <1>11 DEF Reg!CreateData, Reg!At
    <3>2. CASE Reg!End(h)
      BY <3>1, <3>2, EndFacts
    <3>3. CASE Reg!Go(h, "clearTemp")
      BY <3>1, <3>3, GoFacts DEF Statements
    <3> QED
      BY <1>11, <3>1, <3>2, <3>3 DEF Reg!CreateData
  <2> USE <2>1, <2>2 DEF Frame
  <2>3. RowsTyped'
    BY SMTT(30) DEF RowsTyped, Reg!None
  <2>4. Founded'
    BY SMTT(30) DEF Founded, Reg!Issuing, Verifying
  <2>5. OfCodes'
    BY SMTT(30) DEF OfCodes
  <2>6. IssuedAlone'
    BY SMTT(30) DEF Founded, IssuedAlone, Reg!Issuing
  <2>7. NewestIsKept'
    BY SMTT(30) DEF Founded, IssuedAlone, NewestIsKept, Reg!Issuing, Reg!None
  <2>8. DataAreKept'
    BY SMTT(30) DEF Founded, DataAreKept, Reg!Storing
  <2>9. DataLast'
    BY SMTT(30) DEF Founded, IssuedAlone, DataAreKept, DataLast, Extended, Reg!Issuing, Reg!Storing
  <2>10. VerifiedGetsData'
    BY SMTT(30) DEF Founded, VerifiedGetsData, Reg!Activated
  <2>11. OneGivesData'
    BY SMTT(30) DEF Founded, OneGivesData, Reg!Activated
  <2> QED
    BY <2>3, <2>4, <2>5, <2>6, <2>7, <2>8, <2>9, <2>10, <2>11 DEF RInv
<1>12. ASSUME NEW h \in Handlers, Reg!ClearTempProfile(h) PROVE RInv'
  <2>1. UNCHANGED <<regStatus, data, otps, sessions, cachedOtp, issues, lapsed, mailed, mishaps>>
    BY <1>12 DEF Reg!ClearTempProfile, Reg!stored
  <2>2. /\ Frame(h)
        /\ req[h].at = "clearTemp"
        /\ req'[h].at = "useSession"
        /\ req'[h].n = req[h].n
        /\ req'[h].role = req[h].role
        /\ req'[h].row = req[h].row
        /\ req'[h].reg = req[h].reg
        /\ req'[h].kept = req[h].kept
        /\ req'[h].seen = req[h].seen
        /\ temp' \in Seq(Rows)
    <3>1. temp' \in {temp, <<>>} /\ req[h].at = "clearTemp" /\ Reg!Go(h, "useSession")
      BY <1>12 DEF Reg!ClearTempProfile, Reg!At
    <3>2. temp' \in Seq(Rows)
      <4>1. temp \in Seq(Rows) /\ <<>> \in Seq(Rows)
        BY DEF RowsTyped
      <4> QED
        BY <3>1, <4>1
    <3> QED
      BY <3>1, <3>2, GoFacts DEF Statements
  <2> USE <2>1, <2>2 DEF Frame
  <2>3. RowsTyped'
    BY SMTT(30) DEF RowsTyped, Reg!None
  <2>4. Founded'
    BY SMTT(30) DEF Founded, Reg!Issuing, Verifying
  <2>5. OfCodes'
    BY SMTT(30) DEF OfCodes
  <2>6. IssuedAlone'
    BY SMTT(30) DEF Founded, IssuedAlone, Reg!Issuing
  <2>7. NewestIsKept'
    BY SMTT(30) DEF Founded, IssuedAlone, NewestIsKept, Reg!Issuing, Reg!None
  <2>8. DataAreKept'
    BY SMTT(30) DEF Founded, DataAreKept, Reg!Storing
  <2>9. DataLast'
    BY SMTT(30) DEF Founded, IssuedAlone, DataAreKept, DataLast, Extended, Reg!Issuing, Reg!Storing
  <2>10. VerifiedGetsData'
    BY SMTT(30) DEF Founded, VerifiedGetsData, Reg!Activated
  <2>11. OneGivesData'
    BY SMTT(30) DEF Founded, OneGivesData, Reg!Activated
  <2> QED
    BY <2>3, <2>4, <2>5, <2>6, <2>7, <2>8, <2>9, <2>10, <2>11 DEF RInv
<1>13. ASSUME NEW h \in Handlers, Reg!UseSession(h) PROVE RInv'
  <2>1. UNCHANGED <<regStatus, data, otps, cachedOtp, temp, issues, lapsed, mailed, mishaps>>
    BY <1>13 DEF Reg!UseSession, Reg!stored
  <2>2. /\ Frame(h)
        /\ req[h].at = "useSession" /\ req'[h].at = "clean" /\ req'[h].seen = "none"
        /\ sessions' \in Seq(Rows) /\ OfCodes'
    <3>1. sessions' \in Seq(Rows) /\ OfCodes'
      <4>1. CASE \E i \in DOMAIN sessions : sessions' = Reg!RemoveAt(sessions, i)
        <5>1. PICK i \in DOMAIN sessions : sessions' = Reg!RemoveAt(sessions, i)
          BY <4>1
        <5>2. sessions \in Seq(Rows)
          BY DEF RowsTyped
        <5> QED
          BY <5>1, <5>2, RemoveAtType DEF OfCodes
      <4>2. CASE sessions' \in {sessions, <<>>}
        <5>1. sessions' \in Seq(Rows)
          <6>1. sessions \in Seq(Rows) /\ <<>> \in Seq(Rows)
            BY DEF RowsTyped
          <6> QED
            BY <4>2, <6>1
        <5>2. CASE sessions' = sessions
          BY <5>1, <5>2 DEF OfCodes
        <5>3. CASE sessions' = <<>>
          BY <5>1, <5>3 DEF OfCodes
        <5> QED
          BY <4>2, <5>1, <5>2, <5>3
      <4> QED
        BY <1>13, <4>1, <4>2 DEF Reg!UseSession
    <3> DEFINE r == [Reg!Idle EXCEPT !.at = "clean"]
    <3>2. r \in Request /\ r.at = "clean" /\ r.seen = "none"
      BY DEF Reg!Idle, Request, Statements, Reg!None
    <3>3. req' = [req EXCEPT ![h] = r]
      BY <1>13 DEF Reg!UseSession
    <3> HIDE DEF r
    <3> QED
      BY <1>13, <3>1, <3>2, <3>3, BecomesFacts DEF Reg!UseSession, Reg!At
  <2> USE <2>1, <2>2 DEF Frame
  <2>3. RowsTyped'
    BY SMTT(30) DEF RowsTyped, Reg!None
  <2>4. Founded'
    BY SMTT(30) DEF Founded, Reg!Issuing, Verifying
  <2>5. OfCodes'
    BY SMTT(30) DEF OfCodes
  <2>6. IssuedAlone'
    BY SMTT(30) DEF Founded, IssuedAlone, Reg!Issuing
  <2>7. NewestIsKept'
    BY SMTT(30) DEF Founded, IssuedAlone, NewestIsKept, Reg!Issuing, Reg!None
  <2>8. DataAreKept'
    BY SMTT(30) DEF Founded, DataAreKept, Reg!Storing
  <2>9. DataLast'
    BY SMTT(30) DEF Founded, IssuedAlone, DataAreKept, DataLast, Extended, Reg!Issuing, Reg!Storing
  <2>10. VerifiedGetsData'
    BY SMTT(30) DEF Founded, VerifiedGetsData, Reg!Activated
  <2>11. OneGivesData'
    BY SMTT(30) DEF Founded, OneGivesData, Reg!Activated
  <2> QED
    BY <2>3, <2>4, <2>5, <2>6, <2>7, <2>8, <2>9, <2>10, <2>11 DEF RInv
<1>14. ASSUME NEW h \in Handlers, Reg!DeleteOtpCache(h) PROVE RInv'
  <2>1. UNCHANGED <<regStatus, data, otps, sessions, temp, issues, lapsed, mailed, mishaps>>
    BY <1>14 DEF Reg!DeleteOtpCache, Reg!stored
  <2>2. /\ Frame(h)
        /\ req[h].at = "clean" /\ req'[h].at = "idle" /\ req'[h].seen = "none"
        /\ cachedOtp' \in {cachedOtp, Reg!None}
    BY <1>14, EndFacts DEF Reg!DeleteOtpCache, Reg!At
  <2> USE <2>1, <2>2 DEF Frame
  <2>3. RowsTyped'
    BY SMTT(30) DEF RowsTyped, Reg!None
  <2>4. Founded'
    BY SMTT(30) DEF Founded, Reg!Issuing, Verifying
  <2>5. OfCodes'
    BY SMTT(30) DEF OfCodes
  <2>6. IssuedAlone'
    BY SMTT(30) DEF Founded, IssuedAlone, Reg!Issuing
  <2>7. NewestIsKept'
    BY SMTT(30) DEF Founded, IssuedAlone, NewestIsKept, Reg!Issuing, Reg!None
  <2>8. DataAreKept'
    BY SMTT(30) DEF Founded, DataAreKept, Reg!Storing
  <2>9. DataLast'
    BY SMTT(30) DEF Founded, IssuedAlone, DataAreKept, DataLast, Extended, Reg!Issuing, Reg!Storing
  <2>10. VerifiedGetsData'
    BY SMTT(30) DEF Founded, VerifiedGetsData, Reg!Activated
  <2>11. OneGivesData'
    BY SMTT(30) DEF Founded, OneGivesData, Reg!Activated
  <2> QED
    BY <2>3, <2>4, <2>5, <2>6, <2>7, <2>8, <2>9, <2>10, <2>11 DEF RInv
<1>15. ASSUME NEW h \in Handlers, Reg!Fail(h) PROVE RInv'
  <2>1. UNCHANGED <<regStatus, data, otps, sessions, cachedOtp, temp, issues, lapsed, mailed>>
    BY <1>15 DEF Reg!Fail, Reg!stored
  <2>2. /\ Frame(h)
        /\ req[h].at # "idle" /\ req'[h].at = "idle" /\ req'[h].seen = "none"
        /\ mishaps \subseteq mishaps'
        /\ Reg!Activated(h) => "unfinished" \in mishaps'
        /\ Reg!Storing(h) => "noSession" \in mishaps'
        /\ req[h].at = "activate" => "codeSpent" \in mishaps'
    BY <1>15, EndFacts, SMTT(30) DEF Reg!Fail, Reg!At
  <2> USE <2>1, <2>2 DEF Frame
  <2>3. RowsTyped'
    BY SMTT(30) DEF RowsTyped, Reg!None
  <2>4. Founded'
    BY SMTT(30) DEF Founded, Reg!Issuing, Verifying
  <2>5. OfCodes'
    BY SMTT(30) DEF OfCodes
  <2>6. IssuedAlone'
    BY SMTT(30) DEF Founded, IssuedAlone, Reg!Issuing
  <2>7. NewestIsKept'
    BY SMTT(30) DEF Founded, IssuedAlone, NewestIsKept, Reg!Issuing, Reg!None
  <2>8. DataAreKept'
    BY SMTT(30) DEF Founded, DataAreKept, Reg!Storing
  <2>9. DataLast'
    BY SMTT(30) DEF Founded, IssuedAlone, DataAreKept, DataLast, Extended, Reg!Issuing, Reg!Storing
  <2>10. VerifiedGetsData'
    BY SMTT(30) DEF Founded, VerifiedGetsData, Reg!Activated
  <2>11. OneGivesData'
    BY SMTT(30) DEF Founded, OneGivesData, Reg!Activated
  <2> QED
    BY <2>3, <2>4, <2>5, <2>6, <2>7, <2>8, <2>9, <2>10, <2>11 DEF RInv
<1> QED
  BY <1>3, <1>4, <1>5, <1>6, <1>7, <1>8, <1>9, <1>10, <1>11, <1>12, <1>13, <1>14, <1>15 DEF Reg!Verify

\* So does what happens without a request.
LEMMA OtherKeeps ==
  ASSUME RInv,
         (\E to \in {"ACTIVE", "UNVERIFIED", "LOCKED"} : Reg!UpdateStatus(to)) \/ Reg!WrongCode \/ Reg!Lapse \/ Reg!ExpireOtpCache \/ Reg!ExpireTempProfile \/ UNCHANGED Reg!vars
  PROVE  RInv'
<1>1. /\ RowsTyped /\ Founded /\ OfCodes /\ IssuedAlone /\ NewestIsKept
      /\ DataAreKept /\ DataLast /\ VerifiedGetsData /\ OneGivesData
  BY DEF RInv
<1>2. /\ ReqTyped /\ Len(issues) \in Nat /\ lapsed \in Nat
      /\ regStatus \in {"none", "UNVERIFIED", "ACTIVE", "LOCKED"} /\ mailed \subseteq 1..Len(issues)
      /\ \A g \in Handlers : req[g].n \in Nat
  BY <1>1 DEF RowsTyped, ReqTyped, Request
<1> USE <1>1, <1>2 DEF Reg!At
<1>3. CASE Reg!WrongCode
  <2>1. UNCHANGED <<regStatus, data, otps, sessions, temp, issues, lapsed, mailed, mishaps, req>>
    BY <1>3 DEF Reg!WrongCode, Reg!stored
  <2>2. cachedOtp' = Reg!None
    BY <1>3 DEF Reg!WrongCode
  <2> USE <2>1, <2>2
  <2>3. RowsTyped'
    BY SMTT(30) DEF RowsTyped, ReqTyped, Reg!None
  <2>4. Founded'
    BY SMTT(30) DEF Founded, Reg!Issuing, Verifying
  <2>5. OfCodes'
    BY SMTT(30) DEF OfCodes
  <2>6. IssuedAlone'
    BY SMTT(30) DEF Founded, IssuedAlone, Reg!Issuing
  <2>7. NewestIsKept'
    BY SMTT(30) DEF Founded, IssuedAlone, NewestIsKept, Reg!Issuing, Reg!None
  <2>8. DataAreKept'
    BY SMTT(30) DEF Founded, DataAreKept, Reg!Storing
  <2>9. DataLast'
    BY SMTT(30) DEF Founded, IssuedAlone, DataAreKept, DataLast, Extended, Reg!Issuing, Reg!Storing
  <2>10. VerifiedGetsData'
    BY SMTT(30) DEF Founded, VerifiedGetsData, Reg!Activated
  <2>11. OneGivesData'
    BY SMTT(30) DEF Founded, OneGivesData, Reg!Activated
  <2> QED
    BY <2>3, <2>4, <2>5, <2>6, <2>7, <2>8, <2>9, <2>10, <2>11 DEF RInv
<1>4. CASE Reg!Lapse
  <2>1. UNCHANGED <<regStatus, data, otps, sessions, cachedOtp, temp, issues, mailed, mishaps, req>>
    BY <1>4 DEF Reg!Lapse, Reg!stored
  <2>2. lapsed' = lapsed + 1 /\ lapsed < Len(issues)
    BY <1>4 DEF Reg!Lapse
  <2> USE <2>1, <2>2
  <2>3. RowsTyped'
    BY SMTT(30) DEF RowsTyped, ReqTyped, Reg!None
  <2>4. Founded'
    BY SMTT(30) DEF Founded, Reg!Issuing, Verifying
  <2>5. OfCodes'
    BY SMTT(30) DEF OfCodes
  <2>6. IssuedAlone'
    BY SMTT(30) DEF Founded, IssuedAlone, Reg!Issuing
  <2>7. NewestIsKept'
    BY SMTT(30) DEF Founded, IssuedAlone, NewestIsKept, Reg!Issuing, Reg!None
  <2>8. DataAreKept'
    BY SMTT(30) DEF Founded, DataAreKept, Reg!Storing
  <2>9. DataLast'
    BY SMTT(30) DEF Founded, IssuedAlone, DataAreKept, DataLast, Extended, Reg!Issuing, Reg!Storing
  <2>10. VerifiedGetsData'
    BY SMTT(30) DEF Founded, VerifiedGetsData, Reg!Activated
  <2>11. OneGivesData'
    BY SMTT(30) DEF Founded, OneGivesData, Reg!Activated
  <2> QED
    BY <2>3, <2>4, <2>5, <2>6, <2>7, <2>8, <2>9, <2>10, <2>11 DEF RInv
<1>5. CASE Reg!ExpireOtpCache
  <2>1. UNCHANGED <<regStatus, data, otps, sessions, temp, issues, lapsed, mailed, mishaps, req>>
    BY <1>5 DEF Reg!ExpireOtpCache, Reg!stored
  <2>2. cachedOtp' = Reg!None
    BY <1>5 DEF Reg!ExpireOtpCache
  <2> USE <2>1, <2>2
  <2>3. RowsTyped'
    BY SMTT(30) DEF RowsTyped, ReqTyped, Reg!None
  <2>4. Founded'
    BY SMTT(30) DEF Founded, Reg!Issuing, Verifying
  <2>5. OfCodes'
    BY SMTT(30) DEF OfCodes
  <2>6. IssuedAlone'
    BY SMTT(30) DEF Founded, IssuedAlone, Reg!Issuing
  <2>7. NewestIsKept'
    BY SMTT(30) DEF Founded, IssuedAlone, NewestIsKept, Reg!Issuing, Reg!None
  <2>8. DataAreKept'
    BY SMTT(30) DEF Founded, DataAreKept, Reg!Storing
  <2>9. DataLast'
    BY SMTT(30) DEF Founded, IssuedAlone, DataAreKept, DataLast, Extended, Reg!Issuing, Reg!Storing
  <2>10. VerifiedGetsData'
    BY SMTT(30) DEF Founded, VerifiedGetsData, Reg!Activated
  <2>11. OneGivesData'
    BY SMTT(30) DEF Founded, OneGivesData, Reg!Activated
  <2> QED
    BY <2>3, <2>4, <2>5, <2>6, <2>7, <2>8, <2>9, <2>10, <2>11 DEF RInv
<1>6. CASE Reg!ExpireTempProfile
  <2>1. UNCHANGED <<regStatus, data, otps, sessions, cachedOtp, issues, lapsed, mailed, mishaps, req>>
    BY <1>6 DEF Reg!ExpireTempProfile, Reg!stored
  <2>2. temp' \in Seq(Rows)
    BY <1>6 DEF Reg!ExpireTempProfile, RowsTyped
  <2> USE <2>1, <2>2
  <2>3. RowsTyped'
    BY SMTT(30) DEF RowsTyped, ReqTyped, Reg!None
  <2>4. Founded'
    BY SMTT(30) DEF Founded, Reg!Issuing, Verifying
  <2>5. OfCodes'
    BY SMTT(30) DEF OfCodes
  <2>6. IssuedAlone'
    BY SMTT(30) DEF Founded, IssuedAlone, Reg!Issuing
  <2>7. NewestIsKept'
    BY SMTT(30) DEF Founded, IssuedAlone, NewestIsKept, Reg!Issuing, Reg!None
  <2>8. DataAreKept'
    BY SMTT(30) DEF Founded, DataAreKept, Reg!Storing
  <2>9. DataLast'
    BY SMTT(30) DEF Founded, IssuedAlone, DataAreKept, DataLast, Extended, Reg!Issuing, Reg!Storing
  <2>10. VerifiedGetsData'
    BY SMTT(30) DEF Founded, VerifiedGetsData, Reg!Activated
  <2>11. OneGivesData'
    BY SMTT(30) DEF Founded, OneGivesData, Reg!Activated
  <2> QED
    BY <2>3, <2>4, <2>5, <2>6, <2>7, <2>8, <2>9, <2>10, <2>11 DEF RInv
<1>7. CASE UNCHANGED Reg!vars
  <2>1. UNCHANGED <<regStatus, data, otps, sessions, cachedOtp, temp, issues, lapsed, mailed, mishaps, req>>
    BY <1>7 DEF Reg!vars, Reg!stored
  <2> USE <2>1
  <2>3. RowsTyped'
    BY SMTT(30) DEF RowsTyped, ReqTyped, Reg!None
  <2>4. Founded'
    BY SMTT(30) DEF Founded, Reg!Issuing, Verifying
  <2>5. OfCodes'
    BY SMTT(30) DEF OfCodes
  <2>6. IssuedAlone'
    BY SMTT(30) DEF Founded, IssuedAlone, Reg!Issuing
  <2>7. NewestIsKept'
    BY SMTT(30) DEF Founded, IssuedAlone, NewestIsKept, Reg!Issuing, Reg!None
  <2>8. DataAreKept'
    BY SMTT(30) DEF Founded, DataAreKept, Reg!Storing
  <2>9. DataLast'
    BY SMTT(30) DEF Founded, IssuedAlone, DataAreKept, DataLast, Extended, Reg!Issuing, Reg!Storing
  <2>10. VerifiedGetsData'
    BY SMTT(30) DEF Founded, VerifiedGetsData, Reg!Activated
  <2>11. OneGivesData'
    BY SMTT(30) DEF Founded, OneGivesData, Reg!Activated
  <2> QED
    BY <2>3, <2>4, <2>5, <2>6, <2>7, <2>8, <2>9, <2>10, <2>11 DEF RInv
<1>8. ASSUME NEW to \in {"ACTIVE", "UNVERIFIED", "LOCKED"}, Reg!UpdateStatus(to) PROVE RInv'
  <2>1. UNCHANGED <<data, otps, sessions, cachedOtp, temp, issues, lapsed, mailed, req>>
    BY <1>8 DEF Reg!UpdateStatus
  <2>2. /\ regStatus # "none" /\ regStatus' = to
        /\ mishaps \subseteq mishaps' /\ mishaps' \subseteq mishaps \cup {"granted", "reset"}
        /\ regStatus # to /\ to = "UNVERIFIED" => "reset" \in mishaps'
        /\ \/ "granted" \in mishaps' \/ regStatus = to \/ to # "ACTIVE" \/ data # {}
           \/ \E h \in Handlers : Reg!Activated(h)
    BY <1>8, SMTT(30) DEF Reg!UpdateStatus
  <2> USE <2>1, <2>2
  <2>3. RowsTyped'
    BY SMTT(30) DEF RowsTyped, ReqTyped, Reg!None
  <2>4. Founded'
    BY SMTT(30) DEF Founded, Reg!Issuing, Verifying
  <2>5. OfCodes'
    BY SMTT(30) DEF OfCodes
  <2>6. IssuedAlone'
    BY SMTT(30) DEF Founded, IssuedAlone, Reg!Issuing
  <2>7. NewestIsKept'
    BY SMTT(30) DEF Founded, IssuedAlone, NewestIsKept, Reg!Issuing, Reg!None
  <2>8. DataAreKept'
    BY SMTT(30) DEF Founded, DataAreKept, Reg!Storing
  <2>9. DataLast'
    BY SMTT(30) DEF Founded, IssuedAlone, DataAreKept, DataLast, Extended, Reg!Issuing, Reg!Storing
  <2>10. VerifiedGetsData'
    BY SMTT(30) DEF Founded, VerifiedGetsData, Reg!Activated
  <2>11. OneGivesData'
    BY SMTT(30) DEF Founded, OneGivesData, Reg!Activated
  <2> QED
    BY <2>3, <2>4, <2>5, <2>6, <2>7, <2>8, <2>9, <2>10, <2>11 DEF RInv
<1> QED
  BY <1>3, <1>4, <1>5, <1>6, <1>7, <1>8

\* No role is called like the one that send-otp leaves out.
LEMMA NoRoleIsNone == Reg!NoRole \notin Roles
  BY RegistrationAssumption DEF Reg!NoRole

\* RInv always holds.
LEMMA RegistrationInvariant == Reg!Spec => []RInv
<1>1. Reg!Init => RInv
  <2> SUFFICES ASSUME Reg!Init PROVE RInv
    OBVIOUS
  <2>1. \A h \in Handlers : req[h].at = "idle" /\ req[h].seen = "none"
    BY IdleFacts DEF Reg!Init
  <2>2. RowsTyped
    <3>1. ReqTyped
      BY IdleFacts DEF Reg!Init, ReqTyped
    <3> QED
      BY <3>1 DEF Reg!Init, RowsTyped, Reg!None
  <2> QED
    BY <2>1, <2>2 DEF Reg!Init, RInv, OfCodes, Founded, IssuedAlone, NewestIsKept, DataAreKept, DataLast,
      VerifiedGetsData, OneGivesData, Reg!Issuing, Verifying, Reg!Storing, Reg!Activated, Extended, Reg!At, Reg!None
<1>2. RInv /\ [Reg!Next]_(Reg!vars) => RInv'
  BY NoRoleIsNone, IssueKeeps, VerifyKeeps, OtherKeeps DEF Reg!Next
<1>3. QED
  BY <1>1, <1>2, PTL DEF Reg!Spec

\* An active user has a profile or a company as soon as no request is about
\* to make it, and never both: verifyOtp finds the data of the registration
\* in Redis or in registration_sessions, whichever write has failed and
\* whoever has been locked and unlocked meanwhile.  The cases apart that the
\* property names, a user made active by an administrator among them.
THEOREM VerifiedGetData == Reg!Spec => []VerifiedHasData
<1>1. RInv => VerifiedHasData
  BY DEF RInv, VerifiedGetsData, OneGivesData, VerifiedHasData, Reg!VerifiedHasData
<1>2. QED
  BY <1>1, RegistrationInvariant, PTL

\* Between requests the code mailed last verifies the user until it lapses:
\* Redis has it, or has none and it is the newest row of otp_codes.
THEOREM NewestIsAccepted == Reg!Spec => []NewestCodeIsAccepted
<1>1. RInv => NewestCodeIsAccepted
  <2> DEFINE newest == Len(issues)
  <2> SUFFICES ASSUME RInv, regStatus = "UNVERIFIED", newest \in mailed, newest > lapsed,
                      mishaps \cap {"overlap", "staleCode", "codeSpent", "reset"} = {},
                      \A h \in Handlers : Reg!At(h, "idle"), cachedOtp # newest
               PROVE  cachedOtp = Reg!None /\ Reg!ValidOtp = newest
    BY DEF NewestCodeIsAccepted, Reg!NewestCodeIsAccepted
  <2>1. cachedOtp = Reg!None /\ otps # <<>> /\ Reg!Last(otps) = newest
    BY DEF RInv, NewestIsKept, Reg!At, Reg!Issuing
  <2> QED
    BY <2>1 DEF Reg!ValidOtp
<1>2. QED
  BY <1>1, RegistrationInvariant, PTL

\* What is said of registrations and of sessions one by one is so of a user
\* who registers and has sessions: each part goes its own way or stays.
THEOREM EachOnItsOwn == MCSpec => Reg!Spec /\ Spec
<1>1. MCInit => Reg!Init /\ Init
  BY DEF MCInit
<1>2. [MCNext]_mcvars => [Reg!Next]_(Reg!vars) /\ [Next]_vars
  <2>1. CASE MCNext
    BY <2>1 DEF MCNext, regVars, Reg!vars, Reg!stored
  <2>2. CASE UNCHANGED mcvars
    BY <2>2 DEF mcvars, regVars, Reg!vars, Reg!stored
  <2> QED
    BY <2>1, <2>2
<1> QED
  BY <1>1, <1>2, PTL DEF MCSpec, Reg!Spec, Spec
==============================================================================
