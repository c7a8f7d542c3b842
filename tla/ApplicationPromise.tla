------------------------ MODULE ApplicationPromise -------------------------
(***************************************************************************)
(* What the status of a job application promises even when handlers of     *)
(* concurrent requests overwrite each other: a status is only ever set     *)
(* because one it may follow was once really there.  Between the read and  *)
(* the write of a handler the status may have moved on, so it is a status  *)
(* of the past, not always the current one, that justifies the new one.    *)
(***************************************************************************)
EXTENDS ApplicationStatus

CONSTANT AppIds

VARIABLES
  current,   \* the status stored for an application, "none" without a row
  had        \* every status its row has had

vars == <<current, had>>

Init ==
  /\ current = [a \in AppIds |-> "none"]
  /\ had = [a \in AppIds |-> {}]

\* A row is created once, with the column's default.
Apply(a) ==
  /\ had[a] = {}
  /\ current' = [current EXCEPT ![a] = "applied"]
  /\ had' = [had EXCEPT ![a] = {"applied"}]

\* Some status of the past justifies t.
Move(a, t) ==
  /\ current[a] # "none"
  /\ \E s \in had[a] : CanFollow(s, t)
  /\ current' = [current EXCEPT ![a] = t]
  /\ had' = [had EXCEPT ![a] = @ \cup {t}]

\* The rows of a hard-deleted CV go with it, several at once.
Vanish ==
  /\ current' \in [AppIds -> Statuses \cup {"none"}]
  /\ \A a \in AppIds : current'[a] \in {current[a], "none"}
  /\ UNCHANGED had

Next ==
  \/ \E a \in AppIds : Apply(a)
  \/ \E a \in AppIds, t \in Statuses : Move(a, t)
  \/ Vanish

Spec == Init /\ [][Next]_vars
=============================================================================
