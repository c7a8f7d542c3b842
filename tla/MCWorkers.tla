----------------------------- MODULE MCWorkers ------------------------------
(***************************************************************************)
(* The two kinds of work BullMQ does for this process, side by side: the   *)
(* analyses of a CV (CvAnalysis) and the events of the outbox              *)
(* (OutboxQueue), whose jobs have the same number of attempts and are      *)
(* taken back as often when their worker dies.  Events share neither rows  *)
(* nor locks with analyses, so that each is checked while the other rests. *)
(***************************************************************************)
EXTENDS CvAnalysis

CONSTANTS
  Events,       \* dispatched pieces of work
  EventFaults   \* crashes and failing statements that befall them (bound)

ASSUME EventsAssumption == EventFaults \in Nat

VARIABLES
  call, add, run, done,
  outboxRow, eventJob, eventMade, eventStalls, buried, mishaps

O == INSTANCE OutboxQueue
       WITH MaxFaults <- EventFaults, row <- outboxRow, job <- eventJob,
            made <- eventMade, stalls <- eventStalls, dead <- buried,
            faults <- mishaps
eventVars ==
  <<call, add, run, done, outboxRow, eventJob, eventMade, eventStalls, buried, mishaps>>

\* Events are dispatched and nobody asks for an analysis.
EventsSpec ==
  /\ Init /\ O!Init
  /\ [][O!Next /\ UNCHANGED vars]_<<eventVars, vars>>
  /\ O!Fairness

----------------------------------------------------------------------------
\* A job has failed for good exactly when the dead-letter queue has it, as
\* long as nothing crashes.
FailedIsDeadLettered == O!FailedIsDeadLettered

\* An event takes effect a bounded number of times.
PerformedBoundedly == O!PerformedBoundedly

\* The promise of a dispatch.
KeepsPromise == O!KeepsPromise

\* The dispatching handler is never held up.
DispatchReturns == O!DispatchReturns

\* A stored job ends.
StoredJobSettles == O!StoredJobSettles
=============================================================================
