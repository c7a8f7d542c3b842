----------------------------- MODULE CvAnalysis -----------------------------
(***************************************************************************)
(* The analyses of one CV.  AnalyzeCVUseCase refuses a request while the   *)
(* newest analysis is PROCESSING or a lock of sixty seconds is held;       *)
(* otherwise it inserts a cv_parsed_data row and dispatches a job for it.  *)
(* CvParseProcessor, which takes one job at a time, reads and analyses the *)
(* file, completes the row and replaces the skills of the CV, or sets the  *)
(* row FAILED and is retried.                                              *)
(*                                                                         *)
(* Every analysis of a CV reads the same file, hence finds the same        *)
(* fingerprint.  The outbox around the job is the subject of OutboxQueue.  *)
(***************************************************************************)
EXTENDS Naturals, FiniteSets

CONSTANTS
  Handlers,   \* requests for an analysis that may be in flight
  MaxRows,    \* analyses in a behaviour (bound)
  Attempts,   \* DEFAULT_JOB_OPTIONS.attempts
  MaxStalls,  \* how often BullMQ takes back a job whose worker died
  MaxFaults   \* crashes and failing statements in a behaviour (bound)

ASSUME ConstantsAssumption ==
  /\ MaxRows \in Nat \ {0}
  /\ Attempts \in Nat \ {0}
  /\ MaxStalls \in Nat
  /\ MaxFaults \in Nat

Rows == 1..MaxRows   \* in the order of createdAt

VARIABLES
  row,      \* processingStatus, "none" before the insert
  skills,   \* cv_skills: the analysis they come from and whether all are there
  lock,     \* is lock:cv-analyze held?
  blind,    \* history: did a failure grant the lock or give it back early?
  request,  \* the requests
  job,      \* the job of a row
  made,     \* attempts of it that ended in an error
  stalls,   \* how often it was taken back
  dead,     \* rows whose job is in the dead-letter queue
  worker,   \* what the worker does, and for which row
  faults    \* failures so far

data == <<row, skills>>
requests == <<lock, blind, request>>
queue == <<job, made, stalls, dead>>
vars == <<data, requests, queue, worker, faults>>

NoRequest == [at |-> "idle", row |-> 0]
Resting == [at |-> "idle", row |-> 0]

Init ==
  /\ row = [i \in Rows |-> "none"]
  /\ skills = [of |-> 0, whole |-> TRUE]
  /\ lock = FALSE
  /\ blind = FALSE
  /\ request = [h \in Handlers |-> NoRequest]
  /\ job = [i \in Rows |-> "none"]
  /\ made = [i \in Rows |-> 0]
  /\ stalls = [i \in Rows |-> 0]
  /\ dead = {}
  /\ worker = Resting
  /\ faults = 0

Fault == faults < MaxFaults /\ faults' = faults + 1

Created == {i \in Rows : row[i] # "none"}
IsLatest(i) == i \in Created /\ \A j \in Created : j <= i
Processing == {i \in Rows : row[i] = "processing"}

----------------------------------------------------------------------------
(* Requests *)

\* The answer "CV is being analysed", true or not: for a minute after the
\* start of an analysis it is given even if that is over.
Refuse(h) == request' = [request EXCEPT ![h] = NoRequest]

Check_NoLatest(h) ==   \* mutant: only the lock is consulted
  /\ request[h].at = "idle"
  /\ Cardinality(Created) < MaxRows
  /\ request' = [request EXCEPT ![h].at = "checked"]
  /\ UNCHANGED <<lock, blind, data, queue, worker, faults>>

\* findLatestByCvId; the newest analysis decides, however old the others.
Check(h) ==
  /\ request[h].at = "idle"
  /\ Cardinality(Created) < MaxRows
  /\ IF \E i \in Processing : IsLatest(i)
     THEN Refuse(h)
     ELSE request' = [request EXCEPT ![h].at = "checked"]
  /\ UNCHANGED <<lock, blind, data, queue, worker, faults>>

\* safeSetNx, which grants the lock when Redis does not answer.
TakeLock(h) ==
  /\ request[h].at = "checked"
  /\ \/ /\ ~ lock
        /\ lock' = TRUE
        /\ request' = [request EXCEPT ![h].at = "locked"]
        /\ UNCHANGED <<blind, faults>>
     \/ /\ lock
        /\ Refuse(h)
        /\ UNCHANGED <<lock, blind, faults>>
     \/ /\ Fault
        /\ blind' = TRUE
        /\ request' = [request EXCEPT ![h].at = "locked"]
        /\ UNCHANGED lock
  /\ UNCHANGED <<data, queue, worker>>

\* The row is inserted; a failure gives the lock back.
CreateRow(h) ==
  /\ request[h].at = "locked"
  /\ \/ \E i \in Rows :
          /\ Created = 1..(i - 1)
          /\ row' = [row EXCEPT ![i] = "processing"]
          /\ request' = [request EXCEPT ![h] = [at |-> "created", row |-> i]]
          /\ UNCHANGED <<lock, faults>>
     \/ /\ Fault
        /\ lock' = FALSE
        /\ request' = [request EXCEPT ![h] = NoRequest]
        /\ UNCHANGED row
  /\ UNCHANGED <<skills, blind, queue, worker>>

\* dispatchCvParse records the event and sends the job; only a failure to
\* record it is seen, and leaves the row as it is.
Dispatch(h) ==
  /\ request[h].at = "created"
  /\ \/ /\ job' = [job EXCEPT ![request[h].row] = "sent"]
        /\ UNCHANGED <<lock, blind, faults>>
     \/ /\ Fault
        /\ lock' = FALSE
        /\ blind' = TRUE
        /\ UNCHANGED job
  /\ request' = [request EXCEPT ![h] = NoRequest]
  /\ UNCHANGED <<data, made, stalls, dead, worker>>

\* The lock is never released after a success: its sixty seconds end.  A
\* request needs less from its check to its insert.
LockExpires ==
  /\ lock
  /\ \A h \in Handlers : request[h].at \notin {"checked", "locked"}
  /\ lock' = FALSE
  /\ UNCHANGED <<data, blind, request, queue, worker, faults>>

----------------------------------------------------------------------------
(* The queue *)

\* Redis stores the job, or the connection is given up.
Arrive(i) ==
  /\ job[i] = "sent"
  /\ \/ job' = [job EXCEPT ![i] = "waiting"] /\ UNCHANGED faults
     \/ job' = [job EXCEPT ![i] = "lost"] /\ Fault
  /\ UNCHANGED <<data, requests, made, stalls, dead, worker>>

\* The worker takes jobs one at a time.
Take(i) ==
  /\ job[i] = "waiting"
  /\ worker = Resting
  /\ job' = [job EXCEPT ![i] = "active"]
  /\ worker' = [at |-> "parse", row |-> i]
  /\ UNCHANGED <<data, requests, made, stalls, dead, faults>>

\* The delay before another attempt is over.
Wake(i) ==
  /\ job[i] = "delayed"
  /\ job' = [job EXCEPT ![i] = "waiting"]
  /\ UNCHANGED <<data, requests, made, stalls, dead, worker, faults>>

\* BullMQ finds an active job that no worker renews.
TakeBack(i) ==
  /\ job[i] = "active"
  /\ worker.row # i
  /\ IF stalls[i] < MaxStalls
     THEN /\ job' = [job EXCEPT ![i] = "waiting"]
          /\ stalls' = [stalls EXCEPT ![i] = @ + 1]
     ELSE /\ job' = [job EXCEPT ![i] = "failed"]
          /\ UNCHANGED stalls
  /\ UNCHANGED <<data, requests, made, dead, worker, faults>>

----------------------------------------------------------------------------
(* The worker *)

At(step) == worker.at = step
Goto(step) == worker' = [worker EXCEPT !.at = step]

\* Reads the file, then the newest analysis: one that is another's and
\* COMPLETED is copied, its fingerprint being the same.
Parse_NoReuse ==   \* mutant: the newest analysis is not looked for
  /\ At("parse")
  /\ Goto("analyze")
  /\ UNCHANGED <<data, requests, queue, faults>>

Parse ==
  /\ At("parse")
  /\ IF \E i \in Rows : IsLatest(i) /\ i # worker.row /\ row[i] = "completed"
     THEN Goto("copy")
     ELSE Goto("analyze")
  /\ UNCHANGED <<data, requests, queue, faults>>

\* aiClient.analyze, within its time limit.
Analyze ==
  /\ At("analyze")
  /\ Goto("save")
  /\ UNCHANGED <<data, requests, queue, faults>>

Complete ==
  /\ At("copy") \/ At("save")
  /\ row' = [row EXCEPT ![worker.row] = "completed"]
  /\ IF At("save") THEN Goto("clear") ELSE Goto("end")
  /\ UNCHANGED <<skills, requests, queue, faults>>

ClearSkills ==
  /\ At("clear")
  /\ skills' = [of |-> worker.row, whole |-> FALSE]
  /\ Goto("insert")
  /\ UNCHANGED <<row, requests, queue, faults>>

InsertSkills ==
  /\ At("insert")
  /\ skills' = [skills EXCEPT !.whole = TRUE]
  /\ Goto("end")
  /\ UNCHANGED <<row, requests, queue, faults>>

\* process returns.
End ==
  /\ At("end")
  /\ job' = [job EXCEPT ![worker.row] = "done"]
  /\ worker' = Resting
  /\ UNCHANGED <<data, requests, made, stalls, dead, faults>>

\* Anything in the try block may throw: the file, the parser, the provider,
\* a statement, a skill that is there already.
Throw ==
  /\ worker.at \in {"parse", "analyze", "copy", "save", "clear", "insert"}
  /\ Goto("catch")
  /\ UNCHANGED <<data, requests, queue, faults>>

LastAttempt == made[worker.row] + 1 >= Attempts

\* The row is FAILED after every attempt; a failure of this very statement
\* skips the dead-letter queue.
Catch_LastOnly ==   \* mutant: the row is FAILED after the last attempt only
  /\ At("catch")
  /\ row' = IF LastAttempt THEN row ELSE [row EXCEPT ![worker.row] = "failed"]
  /\ IF LastAttempt THEN Goto("bury") ELSE Goto("rethrow")
  /\ UNCHANGED <<skills, requests, queue, faults>>

Catch_Swallow ==   \* mutant: the error is logged and the job succeeds
  /\ At("catch")
  /\ Goto("end")
  /\ UNCHANGED <<data, requests, queue, faults>>

Catch ==
  /\ At("catch")
  /\ \/ /\ row' = [row EXCEPT ![worker.row] = "failed"]
        /\ IF LastAttempt THEN Goto("bury") ELSE Goto("rethrow")
        /\ UNCHANGED faults
     \/ /\ Fault
        /\ Goto("rethrow")
        /\ UNCHANGED row
  /\ UNCHANGED <<skills, requests, queue>>

\* dlq.add
Bury ==
  /\ At("bury")
  /\ \/ dead' = dead \cup {worker.row} /\ UNCHANGED faults
     \/ Fault /\ UNCHANGED dead
  /\ Goto("rethrow")
  /\ UNCHANGED <<data, requests, job, made, stalls>>

\* BullMQ counts the attempt and schedules another, or gives up.
Rethrow ==
  /\ At("rethrow")
  /\ made' = [made EXCEPT ![worker.row] = @ + 1]
  /\ job' = [job EXCEPT ![worker.row] =
               IF LastAttempt THEN "failed" ELSE "delayed"]
  /\ worker' = Resting
  /\ UNCHANGED <<data, requests, stalls, dead, faults>>

\* The process ends and is started again: what it was doing is lost, its
\* rows, the lock and the queue are not.
Crash ==
  /\ Fault
  /\ request' = [h \in Handlers |-> NoRequest]
  /\ worker' = Resting
  /\ UNCHANGED <<data, lock, blind, queue>>

----------------------------------------------------------------------------
HandlerStep(h) == Check(h) \/ TakeLock(h) \/ CreateRow(h) \/ Dispatch(h)
QueueStep(i) == Arrive(i) \/ Wake(i) \/ TakeBack(i)
WorkerStep ==
  \/ Parse \/ Analyze \/ Complete \/ ClearSkills \/ InsertSkills \/ End
  \/ Throw \/ Catch \/ Bury \/ Rethrow \/ \E i \in Rows : Take(i)

Next ==
  \/ \E h \in Handlers : HandlerStep(h)
  \/ \E i \in Rows : QueueStep(i)
  \/ WorkerStep
  \/ LockExpires
  \/ Crash

Spec == Init /\ [][Next]_vars

\* The event loop resumes the requests and the worker, which every time
\* limit lets go on, and BullMQ its jobs.  Nobody need ask for an analysis.
Fairness ==
  /\ \A h \in Handlers : WF_vars(TakeLock(h) \/ CreateRow(h) \/ Dispatch(h))
  /\ \A i \in Rows : WF_vars(QueueStep(i)) /\ SF_vars(Take(i))
  /\ WF_vars(WorkerStep)

FairSpec == Spec /\ Fairness

----------------------------------------------------------------------------
(* Properties *)

TypeOK ==
  /\ row \in [Rows -> {"none", "processing", "completed", "failed"}]
  /\ skills \in [of : {0} \cup Rows, whole : BOOLEAN]
  /\ lock \in BOOLEAN /\ blind \in BOOLEAN
  /\ request \in [Handlers -> [at : {"idle", "checked", "locked", "created"},
                               row : {0} \cup Rows]]
  /\ job \in [Rows -> {"none", "sent", "lost", "waiting", "active",
                       "delayed", "failed", "done"}]
  /\ made \in [Rows -> 0..Attempts]
  /\ stalls \in [Rows -> 0..MaxStalls]
  /\ dead \subseteq Rows
  /\ worker \in [at : {"idle", "parse", "analyze", "copy", "save", "clear",
                       "insert", "end", "catch", "bury", "rethrow"},
                 row : {0} \cup Rows]
  /\ faults \in 0..MaxFaults

\* However requests, retries of older analyses and expiries of the lock
\* fall together, at most one analysis of a CV is PROCESSING, unless Redis
\* failed when the lock was asked for, or the lock was given back because
\* the job could not be recorded: the row is there by then.
OneInProgress == blind \/ \A i, j \in Processing : i = j

\* When the newest analysis is over and COMPLETED, the skills of the CV are
\* all those it found, be older analyses still retried or not: they copy
\* its result instead of replacing the skills.
SkillsAreOfLatest ==
  \A i \in Rows :
    IsLatest(i) /\ row[i] = "completed" /\ job[i] = "done"
      => skills = [of |-> i, whole |-> TRUE]

\* An analysis that stays PROCESSING, so that all further ones are refused:
\* its job was lost, never sent or given up.
Abandoned(i) ==
  /\ row[i] = "processing"
  /\ \/ job[i] \in {"lost", "failed"}
     \/ job[i] = "none" /\ \A h \in Handlers : request[h].row # i

\* Only failures of Redis, Postgres or the process abandon an analysis;
\* those of the file, the parser and the provider do not, after which the
\* row is FAILED and the job in the dead-letter queue.
GivenUpIsRecorded ==
  faults = 0 =>
    \A i \in Rows :
      /\ ~ Abandoned(i)
      /\ job[i] = "failed" <=> i \in dead /\ worker.row # i
      /\ job[i] = "failed" => row[i] = "failed"

\* Every analysis comes to an end, COMPLETED or FAILED, or is abandoned.
AnalysisEnds ==
  \A i \in Rows :
    row[i] = "processing" ~> row[i] \in {"completed", "failed"} \/ Abandoned(i)
=============================================================================
