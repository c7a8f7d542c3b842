----------------------------- MODULE StoredFile -----------------------------
(***************************************************************************)
(* What the library promises of an object in storage: it is put, may be    *)
(* linked to one row and let go again, and only an object that no row      *)
(* refers to is removed, once and for good.                                *)
(***************************************************************************)
CONSTANT Keys
VARIABLE phase

Phases == {"none", "stored", "linked", "gone"}

Init == phase = [k \in Keys |-> "none"]

\* A picture that replaces another is linked in the step that lets the other
\* go, so that more than one object may move.
Moves ==
  {<<"none", "stored">>, <<"stored", "linked">>, <<"linked", "stored">>, <<"stored", "gone">>}
Next ==
  /\ phase' \in [Keys -> Phases]
  /\ \A k \in Keys : phase'[k] = phase[k] \/ <<phase[k], phase'[k]>> \in Moves

Spec == Init /\ [][Next]_phase
=============================================================================
