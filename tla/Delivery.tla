------------------------------ MODULE Delivery ------------------------------
(***************************************************************************)
(* What dispatching a piece of background work promises: it is recorded    *)
(* before it is queued, performed only while it is queued, and settled     *)
(* once, when it has been performed or buried (put in the dead-letter      *)
(* queue).  Only a disturbance, a crash or a failing queue, may settle it  *)
(* with neither.                                                           *)
(***************************************************************************)
EXTENDS Naturals

CONSTANT Events

VARIABLES
  phase,      \* "none", "recorded", "queued" or "settled"
  done,       \* how many times it was performed
  dead,       \* how many times it was buried
  disturbed   \* TRUE once the system has been disturbed

vars == <<phase, done, dead, disturbed>>

Init ==
  /\ phase = [e \in Events |-> "none"]
  /\ done = [e \in Events |-> 0]
  /\ dead = [e \in Events |-> 0]
  /\ disturbed = FALSE

Enter(e, from, to) == phase[e] = from /\ phase' = [phase EXCEPT ![e] = to]

Record(e)  == Enter(e, "none", "recorded") /\ UNCHANGED <<done, dead, disturbed>>
Enqueue(e) == Enter(e, "recorded", "queued") /\ UNCHANGED <<done, dead, disturbed>>

Perform(e) ==
  /\ phase[e] = "queued"
  /\ done' = [done EXCEPT ![e] = @ + 1]
  /\ UNCHANGED <<phase, dead, disturbed>>

Bury(e) ==
  /\ phase[e] = "queued"
  /\ dead' = [dead EXCEPT ![e] = @ + 1]
  /\ UNCHANGED <<phase, done, disturbed>>

Settle(e) ==
  /\ done[e] > 0 \/ dead[e] > 0 \/ disturbed
  /\ Enter(e, "queued", "settled")
  /\ UNCHANGED <<done, dead, disturbed>>

Disturb == disturbed' = TRUE /\ UNCHANGED <<phase, done, dead>>

Next ==
  \/ \E e \in Events : Record(e) \/ Enqueue(e) \/ Perform(e) \/ Bury(e) \/ Settle(e)
  \/ Disturb

Spec == Init /\ [][Next]_vars
=============================================================================
