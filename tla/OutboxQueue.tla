---------------------------- MODULE OutboxQueue -----------------------------
(***************************************************************************)
(* QueueDispatchService and the queue workers: an event is written to the  *)
(* outbox, handed to BullMQ within a time limit and marked processed; a    *)
(* worker of the same process takes the job, retries it and, when its      *)
(* attempts are used up, copies it to a dead-letter queue.                 *)
(*                                                                         *)
(* The promise of queue.add outlives the time limit: the job of a call     *)
(* that has timed out may still be stored later, or never.  Nothing reads  *)
(* the outbox back, enqueueOutboxEvent having no caller.                   *)
(***************************************************************************)
EXTENDS Naturals

CONSTANTS
  Events,      \* dispatched pieces of work
  Attempts,    \* DEFAULT_JOB_OPTIONS.attempts, at least one
  MaxStalls,   \* how often BullMQ takes back a job whose worker died
  MaxFaults    \* crashes and failing statements in a behaviour (bound)

VARIABLES
  row,      \* the outbox row: "none", "pending" or "processed"
  call,     \* the dispatching handler
  add,      \* its queue.add: "none", "sent", "stored" or "refused"
  job,      \* the BullMQ job
  run,      \* what the worker does with an active job
  made,     \* job.attemptsMade: attempts that ended in an error
  stalls,   \* how often the job was taken back
  done,     \* how often its effect (a mail, a deletion) took place
  dead,     \* copies in the dead-letter queue
  faults    \* failures so far

dispatcher == <<row, call, add>>
worker == <<run, made, stalls>>
vars == <<row, call, add, job, run, made, stalls, done, dead, faults>>

Init ==
  /\ row = [e \in Events |-> "none"]
  /\ call = [e \in Events |-> "idle"]
  /\ add = [e \in Events |-> "none"]
  /\ job = [e \in Events |-> "none"]
  /\ run = [e \in Events |-> "none"]
  /\ made = [e \in Events |-> 0]
  /\ stalls = [e \in Events |-> 0]
  /\ done = [e \in Events |-> 0]
  /\ dead = [e \in Events |-> 0]
  /\ faults = 0

Fault == faults < MaxFaults /\ faults' = faults + 1

----------------------------------------------------------------------------
\* outboxRepository.create, whose failure the caller sees, then queue.add.
Dispatch(e) ==
  /\ call[e] = "idle"
  /\ \/ /\ row' = [row EXCEPT ![e] = "pending"]
        /\ call' = [call EXCEPT ![e] = "adding"]
        /\ add' = [add EXCEPT ![e] = "sent"]
        /\ UNCHANGED faults
     \/ /\ Fault
        /\ call' = [call EXCEPT ![e] = "threw"]
        /\ UNCHANGED <<row, add>>
  /\ UNCHANGED <<job, worker, done, dead>>

\* Redis stores the job, whether or not anyone still waits for it.
AddStores(e) ==
  /\ add[e] = "sent"
  /\ add' = [add EXCEPT ![e] = "stored"]
  /\ job' = [job EXCEPT ![e] = "waiting"]
  /\ UNCHANGED <<row, call, worker, done, dead, faults>>

\* The connection is given up, after queueRetryStrategy's five attempts.
AddRefused(e) ==
  /\ add[e] = "sent"
  /\ Fault
  /\ add' = [add EXCEPT ![e] = "refused"]
  /\ UNCHANGED <<row, call, job, worker, done, dead>>

\* withTimeout: the first of the answer of queue.add and the timer.
AddAnswered(e) ==
  /\ call[e] = "adding"
  /\ add[e] \in {"stored", "refused"}
  /\ call' = [call EXCEPT ![e] = IF add[e] = "stored" THEN "marking" ELSE "returned"]
  /\ UNCHANGED <<row, add, job, worker, done, dead, faults>>

TimedOut_Waits(e) ==   \* mutant: withTimeout forgotten
  /\ call[e] = "adding"
  /\ add[e] = "stored"
  /\ call' = [call EXCEPT ![e] = "returned"]
  /\ UNCHANGED <<row, add, job, worker, done, dead, faults>>

TimedOut(e) ==
  /\ call[e] = "adding"
  /\ call' = [call EXCEPT ![e] = "returned"]
  /\ UNCHANGED <<row, add, job, worker, done, dead, faults>>

\* markProcessed: its failure is swallowed like that of queue.add.
MarkProcessed(e) ==
  /\ call[e] = "marking"
  /\ \/ row' = [row EXCEPT ![e] = "processed"] /\ UNCHANGED faults
     \/ Fault /\ UNCHANGED row
  /\ call' = [call EXCEPT ![e] = "returned"]
  /\ UNCHANGED <<add, job, worker, done, dead>>

----------------------------------------------------------------------------
\* A worker takes a waiting job and calls process.
Take(e) ==
  /\ job[e] = "waiting"
  /\ job' = [job EXCEPT ![e] = "active"]
  /\ run' = [run EXCEPT ![e] = "working"]
  /\ UNCHANGED <<dispatcher, made, stalls, done, dead, faults>>

\* process returns: the mail is sent, the object deleted.
Perform(e) ==
  /\ run[e] = "working"
  /\ done' = [done EXCEPT ![e] = @ + 1]
  /\ run' = [run EXCEPT ![e] = "succeeded"]
  /\ UNCHANGED <<dispatcher, job, made, stalls, dead, faults>>

\* process throws, the effect having reached the other side (a lost answer)
\* or not.
AttemptFails(e) ==
  /\ run[e] = "working"
  /\ done' \in {done, [done EXCEPT ![e] = @ + 1]}
  /\ run' = [run EXCEPT ![e] = "failing"]
  /\ UNCHANGED <<dispatcher, job, made, stalls, dead, faults>>

\* The catch block: the last attempt is copied to the dead-letter queue.
IsLast_OffByOne(e) == made[e] >= Attempts   \* mutant: + 1 forgotten
IsLast(e) == made[e] + 1 >= Attempts

Catch_Swallows(e) ==   \* mutant: only the last attempt rethrows
  /\ run[e] = "failing"
  /\ IF IsLast(e)
     THEN /\ dead' = [dead EXCEPT ![e] = @ + 1]
          /\ run' = [run EXCEPT ![e] = "thrown"]
     ELSE /\ run' = [run EXCEPT ![e] = "succeeded"]
          /\ UNCHANGED dead
  /\ UNCHANGED <<dispatcher, job, made, stalls, done, faults>>

Catch(e) ==
  /\ run[e] = "failing"
  /\ \/ /\ IsLast(e)
        /\ dead' = [dead EXCEPT ![e] = @ + 1]
        /\ UNCHANGED faults
     \/ /\ IsLast(e) => Fault
        /\ ~ IsLast(e) => UNCHANGED faults
        /\ UNCHANGED dead
  /\ run' = [run EXCEPT ![e] = "thrown"]
  /\ UNCHANGED <<dispatcher, job, made, stalls, done>>

\* BullMQ removes a completed job, and delays or fails one that threw.
Complete(e) ==
  /\ run[e] = "succeeded"
  /\ job' = [job EXCEPT ![e] = "gone"]
  /\ run' = [run EXCEPT ![e] = "none"]
  /\ UNCHANGED <<dispatcher, made, stalls, done, dead, faults>>

Retry_Forever(e) ==   \* mutant: attemptsMade is not compared
  /\ run[e] = "thrown"
  /\ job' = [job EXCEPT ![e] = "delayed"]
  /\ made' = [made EXCEPT ![e] = @ + 1]
  /\ run' = [run EXCEPT ![e] = "none"]
  /\ UNCHANGED <<dispatcher, stalls, done, dead, faults>>

Retry(e) ==
  /\ run[e] = "thrown"
  /\ job' = [job EXCEPT ![e] = IF made[e] + 1 < Attempts THEN "delayed" ELSE "failed"]
  /\ made' = [made EXCEPT ![e] = @ + 1]
  /\ run' = [run EXCEPT ![e] = "none"]
  /\ UNCHANGED <<dispatcher, stalls, done, dead, faults>>

\* The exponential backoff has passed.
Backoff(e) ==
  /\ job[e] = "delayed"
  /\ job' = [job EXCEPT ![e] = "waiting"]
  /\ UNCHANGED <<dispatcher, worker, done, dead, faults>>

\* An active job whose lock has run out is taken back, but not for ever.
TakeBack_Once(e) ==   \* mutant: past the limit the job is left active
  /\ job[e] = "active" /\ run[e] = "none"
  /\ stalls[e] < MaxStalls
  /\ job' = [job EXCEPT ![e] = "waiting"]
  /\ stalls' = [stalls EXCEPT ![e] = @ + 1]
  /\ UNCHANGED <<dispatcher, run, made, done, dead, faults>>

TakeBack(e) ==
  /\ job[e] = "active" /\ run[e] = "none"
  /\ job' = [job EXCEPT ![e] = IF stalls[e] < MaxStalls THEN "waiting" ELSE "failed"]
  /\ stalls' = [stalls EXCEPT ![e] = @ + 1]
  /\ UNCHANGED <<dispatcher, run, made, done, dead, faults>>

\* The process dies: every call and every attempt in it is gone, and so is
\* an add that has not reached Redis.
Crash ==
  /\ Fault
  /\ call' = [e \in Events |->
       IF call[e] \in {"adding", "marking"} THEN "died" ELSE call[e]]
  /\ add' = [e \in Events |-> IF add[e] = "sent" THEN "refused" ELSE add[e]]
  /\ run' = [e \in Events |-> "none"]
  /\ UNCHANGED <<row, job, made, stalls, done, dead>>

----------------------------------------------------------------------------
\* The handler goes on when the answer or the timer comes; the adds may not.
Dispatcher(e) == AddAnswered(e) \/ TimedOut(e) \/ MarkProcessed(e)
Worker(e) ==
  \/ Take(e) \/ Perform(e) \/ AttemptFails(e) \/ Catch(e) \/ Complete(e)
  \/ Retry(e) \/ Backoff(e) \/ TakeBack(e)

Next ==
  \/ \E e \in Events : \/ Dispatch(e) \/ AddStores(e) \/ AddRefused(e)
                       \/ Dispatcher(e) \/ Worker(e)
  \/ Crash

Spec == Init /\ [][Next]_vars

\* The event loop runs the continuation of a call, its timer at the latest,
\* and BullMQ keeps fetching and settling jobs.  Redis may never answer.
Fairness == \A e \in Events : WF_vars(Dispatcher(e)) /\ WF_vars(Worker(e))

FairSpec == Spec /\ Fairness

----------------------------------------------------------------------------
(* Properties *)

TypeOK ==
  /\ row \in [Events -> {"none", "pending", "processed"}]
  /\ call \in [Events -> {"idle", "adding", "marking", "returned", "threw", "died"}]
  /\ add \in [Events -> {"none", "sent", "stored", "refused"}]
  /\ job \in [Events -> {"none", "waiting", "active", "delayed", "failed", "gone"}]
  /\ run \in [Events -> {"none", "working", "succeeded", "failing", "thrown"}]
  /\ made \in [Events -> 0..Attempts]
  /\ stalls \in [Events -> 0..(MaxStalls + 1)]
  /\ done \in [Events -> Nat]
  /\ dead \in [Events -> Nat]
  /\ faults \in 0..MaxFaults

\* An outbox row says processed only when Redis has the job, whatever timed
\* out, failed or crashed: were it otherwise, the work would be forgotten.
ProcessedWasStored ==
  \A e \in Events : row[e] = "processed" => add[e] = "stored"

\* Work is never performed that the outbox does not know of.
PerformedIsRecorded ==
  \A e \in Events : done[e] > 0 => row[e] # "none"

\* A job that has failed for good is in the dead-letter queue, exactly once,
\* and one that is there has not completed; a crash or a failing queue may
\* break this, nothing else may.
FailedIsDeadLettered ==
  faults = 0 => \A e \in Events :
    /\ job[e] = "failed" <=> dead[e] = 1 /\ run[e] = "none"
    /\ job[e] = "gone" => dead[e] = 0
    /\ dead[e] <= 1

\* The work is attempted no more often than its attempts and the times it
\* was taken back allow, so that a candidate gets a bounded number of mails.
PerformedBoundedly ==
  \A e \in Events : done[e] <= Attempts + MaxStalls

\* A handler is never held up by the queue: its dispatch returns or throws,
\* even when Redis does not answer.
DispatchReturns ==
  \A e \in Events : call[e] = "adding" ~> call[e] \in {"returned", "died"}

\* A stored job ends: it completes or fails for good.
StoredJobSettles ==
  \A e \in Events : add[e] = "stored" ~> job[e] \in {"gone", "failed"}

\* The abstract promise of a dispatch.
Promise == INSTANCE Delivery WITH
  phase <- [e \in Events |->
              CASE job[e] \in {"gone", "failed"} -> "settled"
                [] job[e] \in {"waiting", "active", "delayed"} -> "queued"
                [] job[e] = "none" /\ row[e] # "none" -> "recorded"
                [] OTHER -> "none"],
  disturbed <- faults > 0
KeepsPromise == Promise!Spec
=============================================================================
