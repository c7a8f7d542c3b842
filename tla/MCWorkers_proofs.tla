------------------------- MODULE MCWorkers_proofs --------------------------
(***************************************************************************)
(* Proofs about the two kinds of work the queue does, for any number of    *)
(* requests, analyses, events, attempts and failures.                      *)
(*                                                                         *)
(*  - CvAnalysis: at most one analysis of a CV is PROCESSING, its skills   *)
(*    are those of the newest, and what is given up is recorded.           *)
(*  - OutboxQueue: the row tells the truth, the work is bounded, failed    *)
(*    work is in the dead-letter queue, and Delivery is implemented.       *)
(***************************************************************************)
EXTENDS MCWorkers, TLAPS

\* An active worker has the job of a row, which is active and has attempts
\* left; no other job is.
WorkerOK ==
  worker # Resting =>
    /\ worker.at # "idle"
    /\ worker.row \in Rows
    /\ job[worker.row] = "active"

\* A job that may run again has attempts left.
AttemptsLeft ==
  \A i \in Rows : job[i] \notin {"failed", "done"} => made[i] < Attempts

\* Jobs belong to rows that exist, and a row that its request has still to
\* dispatch belongs to that request alone and has no job.
RowsExist ==
  /\ \A i \in Rows : job[i] # "none" => i \in Created
  /\ \A h \in Handlers :
       request[h].at = "created" =>
         /\ request[h].row \in Created
         /\ job[request[h].row] = "none"
         /\ \A g \in Handlers :
              request[g].at = "created" /\ request[g].row = request[h].row
                => g = h

\* What the lock protects.  A request that has passed its check sees no row
\* appear unless the lock is held, and it stays held until the request goes
\* on; one that holds the lock is alone, and no row is PROCESSING.
LockProtects ==
  ~ blind =>
    /\ \A i \in Processing : IsLatest(i)
    /\ \A h \in Handlers : request[h].at = "locked" =>
         /\ lock
         /\ Processing = {}
         /\ \A g \in Handlers : request[g].at = "locked" => g = h
    /\ \A h \in Handlers :
         request[h].at = "checked" /\ Processing # {} => lock

IInv == TypeOK /\ WorkerOK /\ AttemptsLeft /\ RowsExist /\ LockProtects

Statuses == {"none", "processing", "completed", "failed"}
JobStates == {"none", "sent", "lost", "waiting", "active", "delayed",
              "failed", "done"}
WorkerSteps == {"idle", "parse", "analyze", "copy", "save", "clear",
                "insert", "end", "catch", "bury", "rethrow"}

----------------------------------------------------------------------------
(* The invariant *)

\* The initial state satisfies it.
LEMMA InitInv == Init => IInv
<1> SUFFICES ASSUME Init PROVE IInv
  OBVIOUS
<1> USE ConstantsAssumption DEF Init
<1>1. TypeOK
  <2>1. /\ NoRequest \in [at : {"idle", "checked", "locked", "created"},
                          row : {0} \cup Rows]
        /\ Resting \in [at : WorkerSteps, row : {0} \cup Rows]
    BY DEF NoRequest, Resting, WorkerSteps
  <2>2. /\ request \in [Handlers ->
              [at : {"idle", "checked", "locked", "created"},
               row : {0} \cup Rows]]
        /\ worker \in [at : WorkerSteps, row : {0} \cup Rows]
    BY <2>1
  <2>3. /\ 0 \in 0..Attempts /\ 0 \in 0..MaxStalls /\ 0 \in 0..MaxFaults
    OBVIOUS
  <2> QED
    BY <2>2, <2>3 DEF TypeOK, WorkerSteps
<1>2. WorkerOK /\ AttemptsLeft
  BY DEF WorkerOK, AttemptsLeft, Rows
<1>3. RowsExist /\ LockProtects
  BY DEF RowsExist, LockProtects, NoRequest, Processing
<1> QED
  BY <1>1, <1>2, <1>3 DEF IInv

\* A step of a request preserves it.
LEMMA HandlerInv ==
  ASSUME IInv, NEW h \in Handlers, HandlerStep(h)
  PROVE  IInv'
<1> USE ConstantsAssumption DEF IInv, TypeOK, data, queue, requests
<1>a. ASSUME Fault PROVE faults' \in 0..MaxFaults
  BY <1>a DEF Fault
<1>b. [request EXCEPT ![h] = NoRequest] \in
        [Handlers -> [at : {"idle", "checked", "locked", "created"},
                      row : {0} \cup Rows]]
  BY DEF NoRequest
<1>c. \A i \in Rows : Created = 1..(i - 1) => row[i] = "none"
  <2>1. \A i \in Rows : i \notin 1..(i - 1)
    BY DEF Rows
  <2> QED
    BY <2>1 DEF Created
<1>1. CASE Check(h)
  <2>1. TypeOK'
    BY <1>1 DEF Check, Refuse, NoRequest
  <2>2. /\ \A g \in Handlers : g # h => request'[g] = request[g]
        /\ request'[h].at \in {"idle", "checked"}
        /\ request'[h].at = "checked" => ~ \E i \in Processing : IsLatest(i)
    BY <1>1 DEF Check, Refuse, NoRequest
  <2>3. Created' = Created /\ Processing' = Processing
    BY <1>1 DEF Check, Created, Processing
  <2>4. \A i \in Rows : IsLatest(i)' <=> IsLatest(i)
    BY <2>3 DEF IsLatest
  <2>5. WorkerOK' /\ AttemptsLeft'
    BY <1>1 DEF Check, WorkerOK, AttemptsLeft
  <2>6. RowsExist'
    BY <1>1, <2>2, <2>3 DEF Check, RowsExist
  <2>7. Processing \subseteq Rows
    BY DEF Processing
  <2>8. LockProtects'
    BY <1>1, <2>2, <2>3, <2>4, <2>7 DEF Check, LockProtects
  <2> QED
    BY <2>1, <2>5, <2>6, <2>8
<1>2. CASE TakeLock(h)
  <2>1. TypeOK'
    <3>1. [request EXCEPT ![h].at = "locked"] \in
            [Handlers -> [at : {"idle", "checked", "locked", "created"},
                          row : {0} \cup Rows]]
      OBVIOUS
    <3>2. /\ request' \in [Handlers ->
               [at : {"idle", "checked", "locked", "created"},
                row : {0} \cup Rows]]
          /\ lock' \in BOOLEAN /\ blind' \in BOOLEAN
      BY <1>2, <1>b, <3>1 DEF TakeLock, Refuse
    <3>3. faults' \in 0..MaxFaults
      BY <1>2, <1>a DEF TakeLock
    <3> QED
      BY <1>2, <3>2, <3>3 DEF TakeLock
  <2>2. /\ \A g \in Handlers : g # h => request'[g] = request[g]
        /\ request'[h].at \in {"idle", "locked"}
        /\ request[h].at = "checked"
        /\ request'[h].at = "locked" => (~ lock /\ lock') \/ blind'
        /\ lock => lock'
        /\ blind => blind'
    BY <1>2 DEF TakeLock, Refuse, NoRequest
  <2>3. Created' = Created /\ Processing' = Processing
    BY <1>2 DEF TakeLock, Created, Processing
  <2>4. \A i \in Rows : IsLatest(i)' <=> IsLatest(i)
    BY <2>3 DEF IsLatest
  <2>5. WorkerOK' /\ AttemptsLeft'
    BY <1>2 DEF TakeLock, WorkerOK, AttemptsLeft
  <2>6. RowsExist'
    BY <1>2, <2>2, <2>3 DEF TakeLock, RowsExist
  <2>7. Processing \subseteq Rows
    BY DEF Processing
  <2>8. LockProtects'
    BY <2>2, <2>3, <2>4, <2>7 DEF LockProtects
  <2> QED
    BY <2>1, <2>5, <2>6, <2>8
<1>3. CASE CreateRow(h)
  <2>1. CASE UNCHANGED row
    <3>1. TypeOK'
      BY <1>3, <2>1, <1>a, <1>b, <1>c DEF CreateRow
    <3>2. /\ lock' = FALSE
          /\ request' = [request EXCEPT ![h] = NoRequest]
      <4>1. \A i \in Rows : row[i] = "none" =>
              [row EXCEPT ![i] = "processing"] # row
        OBVIOUS
      <4> QED
        BY <1>3, <2>1, <1>c, <4>1 DEF CreateRow
    <3>3. Created' = Created /\ Processing' = Processing
      BY <2>1 DEF Created, Processing
    <3>4. WorkerOK' /\ AttemptsLeft'
      BY <1>3 DEF CreateRow, WorkerOK, AttemptsLeft
    <3>5. RowsExist'
      BY <1>3, <3>2, <3>3 DEF CreateRow, RowsExist, NoRequest
    <3>6. LockProtects'
      <4>1. blind' = blind /\ request[h].at = "locked"
        BY <1>3 DEF CreateRow
      <4>2. \A i \in Rows : IsLatest(i)' <=> IsLatest(i)
        BY <3>3 DEF IsLatest
      <4> QED
        BY <3>2, <3>3, <4>1, <4>2 DEF LockProtects, NoRequest
    <3> QED
      BY <3>1, <3>4, <3>5, <3>6
  <2>2. ASSUME NEW i \in Rows, Created = 1..(i - 1),
               row' = [row EXCEPT ![i] = "processing"],
               request' = [request EXCEPT ![h] = [at |-> "created", row |-> i]],
               UNCHANGED <<lock, faults>>
        PROVE  IInv'
    <3>1. TypeOK'
      BY <1>3, <2>2 DEF CreateRow
    <3>2. row[i] = "none" /\ i \notin Created
      BY <2>2, <1>c DEF Created
    <3>3. Created' = Created \cup {i} /\ Processing' = Processing \cup {i}
      BY <2>2, <3>2 DEF Created, Processing
    <3>4. WorkerOK' /\ AttemptsLeft'
      BY <1>3 DEF CreateRow, WorkerOK, AttemptsLeft
    <3>5. RowsExist'
      BY <1>3, <2>2, <3>2, <3>3 DEF CreateRow, RowsExist
    <3>6. LockProtects'
      <4>1. blind' = blind /\ request[h].at = "locked"
        BY <1>3 DEF CreateRow
      <4>2. IsLatest(i)'
        BY <2>2, <3>3 DEF IsLatest, Rows
      <4> QED
        BY <2>2, <3>3, <4>1, <4>2 DEF LockProtects
    <3> QED
      BY <3>1, <3>4, <3>5, <3>6
  <2> QED
    BY <1>3, <2>1, <2>2 DEF CreateRow
<1>4. CASE Dispatch(h)
  <2>1. TypeOK'
    BY <1>4, <1>a, <1>b DEF Dispatch
  <2>2. /\ request[h].row \in Created
        /\ job[request[h].row] = "none"
    BY <1>4 DEF Dispatch, RowsExist
  <2>3. Created' = Created /\ Processing' = Processing
    BY <1>4 DEF Dispatch, Created, Processing
  <2>4. Created \subseteq Rows
    BY DEF Created
  <2>5. WorkerOK'
    BY <1>4, <2>2, <2>4 DEF Dispatch, WorkerOK
  <2>6. AttemptsLeft'
    BY <1>4, <2>2, <2>4 DEF Dispatch, AttemptsLeft
  <2>7. request' = [request EXCEPT ![h] = NoRequest]
    BY <1>4 DEF Dispatch
  <2>8. RowsExist'
    BY <1>4, <2>2, <2>3, <2>4, <2>7 DEF Dispatch, RowsExist, NoRequest
  <2>9. LockProtects'
    <3>1. \A i \in Rows : IsLatest(i)' <=> IsLatest(i)
      BY <2>3 DEF IsLatest
    <3>2. blind' \/ (blind' = blind /\ lock' = lock)
      BY <1>4 DEF Dispatch
    <3>3. Processing \subseteq Rows
      BY DEF Processing
    <3> QED
      BY <2>3, <2>7, <3>1, <3>2, <3>3 DEF LockProtects, NoRequest
  <2> QED
    BY <2>1, <2>5, <2>6, <2>8, <2>9
<1> QED
  BY <1>1, <1>2, <1>3, <1>4 DEF HandlerStep

\* The lock's expiry preserves it, for nobody stands between check and
\* insert.
LEMMA LockExpiresInv ==
  ASSUME IInv, LockExpires
  PROVE  IInv'
<1> USE DEF IInv, TypeOK, data, queue, LockExpires
<1>1. TypeOK' /\ WorkerOK' /\ AttemptsLeft'
  BY DEF WorkerOK, AttemptsLeft
<1>2. Created' = Created /\ Processing' = Processing
  BY DEF Created, Processing
<1>3. RowsExist'
  BY <1>2 DEF RowsExist
<1>4. LockProtects'
  BY <1>2 DEF LockProtects, IsLatest
<1> QED
  BY <1>1, <1>3, <1>4

\* A step of the queue preserves it.
LEMMA QueueInv ==
  ASSUME IInv, NEW i \in Rows, QueueStep(i)
  PROVE  IInv'
<1> USE ConstantsAssumption DEF IInv, TypeOK, data, queue, requests
<1>1. /\ UNCHANGED <<row, skills, lock, blind, request, made, worker>>
      /\ job[i] \in {"sent", "delayed", "active"}
      /\ \E s \in {"waiting", "lost", "failed"} : job' = [job EXCEPT ![i] = s]
  BY DEF QueueStep, Arrive, Wake, TakeBack
<1>2. TypeOK'
  <2>1. stalls' \in [Rows -> 0..MaxStalls]
    BY DEF QueueStep, Arrive, Wake, TakeBack
  <2>2. dead' = dead
    BY DEF QueueStep, Arrive, Wake, TakeBack
  <2>3. faults' \in 0..MaxFaults
    BY DEF QueueStep, Arrive, Wake, TakeBack, Fault
  <2> QED
    BY <1>1, <2>1, <2>2, <2>3
<1>3. Created' = Created /\ Processing' = Processing
  BY <1>1 DEF Created, Processing
<1>4. WorkerOK'
  <2>1. job[i] = "active" => worker.row # i
    BY DEF QueueStep, Arrive, Wake, TakeBack
  <2> QED
    BY <1>1, <2>1 DEF WorkerOK
<1>5. AttemptsLeft'
  BY <1>1 DEF AttemptsLeft
<1>6. RowsExist'
  BY <1>1, <1>3 DEF RowsExist
<1>7. LockProtects'
  BY <1>1, <1>3 DEF LockProtects, IsLatest
<1> QED
  BY <1>2, <1>4, <1>5, <1>6, <1>7

\* A step of the worker preserves it: it only ends what is PROCESSING, and
\* writes no row that was not there.
LEMMA WorkerInv ==
  ASSUME IInv, WorkerStep
  PROVE  IInv'
<1> USE ConstantsAssumption DEF IInv, TypeOK, data, queue, requests
<1>1. UNCHANGED <<lock, blind, request>>
  BY DEF WorkerStep, Parse, Analyze, Complete, ClearSkills, InsertSkills, End,
         Throw, Catch, Bury, Rethrow, Take, Goto
<1>2. ASSUME Created' = Created, Processing' \subseteq Processing
      PROVE  LockProtects'
  <2>1. \A j \in Rows : IsLatest(j)' <=> IsLatest(j)
    BY <1>2 DEF IsLatest
  <2>2. Processing \subseteq Rows
    BY DEF Processing
  <2> QED
    BY <1>1, <1>2, <2>1, <2>2 DEF LockProtects
<1>3. CASE \E i \in Rows : Take(i)
  <2> SUFFICES ASSUME NEW i \in Rows, Take(i) PROVE IInv'
    BY <1>3
  <2>1. TypeOK'
    BY DEF Take
  <2>2. Created' = Created /\ Processing' = Processing
    BY DEF Take, Created, Processing
  <2>3. WorkerOK' /\ AttemptsLeft'
    BY DEF Take, WorkerOK, AttemptsLeft
  <2>4. RowsExist'
    BY <1>1, <2>2 DEF Take, RowsExist
  <2> QED
    BY <1>2, <2>1, <2>2, <2>3, <2>4
<1>4. ASSUME worker # Resting, worker.at # "idle"
      PROVE  worker.row \in Created /\ worker.row \in Rows
  BY <1>4 DEF WorkerOK, RowsExist, Created
<1>5. CASE Parse \/ Analyze \/ ClearSkills \/ InsertSkills \/ Throw \/ Bury
  <2>1. /\ UNCHANGED <<row, job, made, stalls>>
        /\ \E s \in WorkerSteps \ {"idle"} :
             worker' = [worker EXCEPT !.at = s]
        /\ worker.at # "idle"
    BY <1>5 DEF Parse, Analyze, ClearSkills, InsertSkills, Throw, Bury, Goto,
                At, WorkerSteps
  <2>2. worker # Resting
    BY <2>1 DEF Resting
  <2>3. skills' \in [of : {0} \cup Rows, whole : BOOLEAN]
    <3>1. CASE ClearSkills
      BY <3>1 DEF ClearSkills
    <3>2. CASE InsertSkills
      BY <3>2 DEF InsertSkills
    <3>3. CASE Parse \/ Analyze \/ Throw \/ Bury
      BY <3>3 DEF Parse, Analyze, Throw, Bury
    <3> QED
      BY <1>5, <3>1, <3>2, <3>3
  <2>4. dead' \subseteq Rows
    BY <1>4, <1>5, <2>1, <2>2
    DEF Parse, Analyze, ClearSkills, InsertSkills, Throw, Bury
  <2>5. faults' \in 0..MaxFaults
    BY <1>5 DEF Parse, Analyze, ClearSkills, InsertSkills, Throw, Bury, Fault
  <2>6. worker' \in [at : WorkerSteps, row : {0} \cup Rows]
        /\ worker'.row = worker.row /\ worker'.at # "idle"
    BY <2>1 DEF WorkerSteps
  <2>7. TypeOK'
    BY <1>1, <2>1, <2>3, <2>4, <2>5, <2>6 DEF WorkerSteps
  <2>8. Created' = Created /\ Processing' = Processing
    BY <2>1 DEF Created, Processing
  <2>9. WorkerOK' /\ AttemptsLeft'
    BY <2>1, <2>2, <2>6 DEF WorkerOK, AttemptsLeft
  <2>10. RowsExist'
    BY <1>1, <2>1, <2>8 DEF RowsExist
  <2> QED
    BY <1>2, <2>7, <2>8, <2>9, <2>10
<1>6. CASE Complete \/ Catch
  <2>1. /\ UNCHANGED <<skills, job, made, stalls, dead>>
        /\ \/ row' = row
           \/ \E t \in {"completed", "failed"} :
                row' = [row EXCEPT ![worker.row] = t]
        /\ \E s \in WorkerSteps \ {"idle"} :
             worker' = [worker EXCEPT !.at = s]
        /\ worker.at # "idle"
    BY <1>6 DEF Complete, Catch, Goto, At, WorkerSteps
  <2>2. worker # Resting
    BY <2>1 DEF Resting
  <2>3. faults' \in 0..MaxFaults
    BY <1>6 DEF Complete, Catch, Fault
  <2>4. worker' \in [at : WorkerSteps, row : {0} \cup Rows]
        /\ worker'.row = worker.row /\ worker'.at # "idle"
    BY <2>1 DEF WorkerSteps
  <2>5. TypeOK'
    BY <1>1, <1>4, <2>1, <2>2, <2>3, <2>4 DEF WorkerSteps
  <2>6. Created' = Created /\ Processing' \subseteq Processing
    BY <1>4, <2>1, <2>2 DEF Created, Processing
  <2>7. WorkerOK' /\ AttemptsLeft'
    BY <2>1, <2>2, <2>4 DEF WorkerOK, AttemptsLeft
  <2>8. RowsExist'
    BY <1>1, <2>1, <2>6 DEF RowsExist
  <2> QED
    BY <1>2, <2>5, <2>6, <2>7, <2>8
<1>7. CASE End \/ Rethrow
  <2>1. /\ UNCHANGED <<row, skills, stalls, dead, faults>>
        /\ worker' = Resting
        /\ worker.at # "idle"
    BY <1>7 DEF End, Rethrow, At
  <2>2. worker # Resting
    BY <2>1 DEF Resting
  <2>3. made[worker.row] < Attempts /\ job[worker.row] = "active"
    BY <1>4, <2>1, <2>2 DEF WorkerOK, AttemptsLeft
  <2>4. /\ job' \in [Rows -> JobStates] /\ made' \in [Rows -> 0..Attempts]
        /\ \A j \in Rows : j # worker.row => job'[j] = job[j]
                                          /\ made'[j] = made[j]
        /\ job'[worker.row] \notin {"failed", "done"}
             => made'[worker.row] < Attempts
    <3>1. worker.row \in Rows
      BY <1>4, <2>1, <2>2
    <3>2. CASE End
      BY <2>3, <3>1, <3>2 DEF End, JobStates
    <3>3. CASE Rethrow
      <4>1. made[worker.row] \in 0..Attempts
        BY <3>1
      <4>2. \A n \in 0..Attempts :
              /\ n < Attempts => n + 1 \in 0..Attempts
              /\ ~(n + 1 >= Attempts) => n + 1 < Attempts
        BY ConstantsAssumption
      <4>3. /\ made[worker.row] + 1 \in 0..Attempts
            /\ ~LastAttempt => made[worker.row] + 1 < Attempts
        BY <2>3, <4>1, <4>2 DEF LastAttempt
      <4>4. made' = [made EXCEPT ![worker.row] = @ + 1]
        BY <3>3 DEF Rethrow
      <4>5. CASE LastAttempt
        <5>1. job' = [job EXCEPT ![worker.row] = "failed"]
          BY <3>3, <4>5 DEF Rethrow
        <5> QED
          BY <3>1, <4>3, <4>4, <5>1 DEF JobStates
      <4>6. CASE ~LastAttempt
        <5>1. job' = [job EXCEPT ![worker.row] = "delayed"]
          BY <3>3, <4>6 DEF Rethrow
        <5> QED
          BY <3>1, <4>3, <4>4, <4>6, <5>1 DEF JobStates
      <4> QED
        BY <4>5, <4>6
    <3> QED
      BY <1>7, <3>2, <3>3
  <2>5. TypeOK'
    BY <1>1, <2>1, <2>4 DEF Resting, JobStates
  <2>6. Created' = Created /\ Processing' = Processing
    BY <2>1 DEF Created, Processing
  <2>7. WorkerOK' /\ AttemptsLeft'
    BY <2>1, <2>4 DEF WorkerOK, AttemptsLeft
  <2>8. RowsExist'
    <3>1. \A h \in Handlers : request[h].at = "created"
            => request[h].row # worker.row
      BY <2>3 DEF RowsExist
    <3>2. Created \subseteq Rows
      BY DEF Created
    <3> QED
      BY <1>1, <1>4, <2>1, <2>2, <2>4, <2>6, <3>1, <3>2 DEF RowsExist
  <2> QED
    BY <1>2, <2>5, <2>6, <2>7, <2>8
<1> QED
  BY <1>3, <1>5, <1>6, <1>7 DEF WorkerStep

\* A crash preserves it: what it forgets is all that had to be protected.
LEMMA CrashInv ==
  ASSUME IInv, Crash
  PROVE  IInv'
<1> USE ConstantsAssumption DEF IInv, TypeOK, data, queue, Crash
<1>1. NoRequest \in [at : {"idle", "checked", "locked", "created"},
                     row : {0} \cup Rows]
  BY DEF NoRequest
<1>2. TypeOK'
  BY <1>1 DEF Resting, Fault
<1>3. Created' = Created /\ Processing' = Processing
  BY DEF Created, Processing
<1>4. WorkerOK' /\ AttemptsLeft' /\ RowsExist'
  BY <1>3 DEF WorkerOK, AttemptsLeft, RowsExist, NoRequest
<1>5. LockProtects'
  BY <1>3 DEF LockProtects, NoRequest, IsLatest
<1> QED
  BY <1>2, <1>4, <1>5

----------------------------------------------------------------------------
(* The theorems *)

\* The invariant holds in every state.
THEOREM Invariance == Spec => []IInv
<1>1. IInv /\ [Next]_vars => IInv'
  <2> SUFFICES ASSUME IInv, [Next]_vars PROVE IInv'
    OBVIOUS
  <2>1. CASE UNCHANGED vars
    BY <2>1 DEF IInv, TypeOK, WorkerOK, AttemptsLeft, RowsExist, LockProtects,
      Created, Processing, IsLatest, vars, data, requests, queue
  <2>2. CASE Next
    BY <2>2, HandlerInv, QueueInv, WorkerInv, LockExpiresInv, CrashInv DEF Next
  <2> QED
    BY <2>1, <2>2
<1> QED
  BY InitInv, <1>1, PTL DEF Spec

\* Every variable has its type: attempts stay within their limit, requests
\* and the worker at steps the code has.
THEOREM TypeCorrect == Spec => []TypeOK
BY Invariance, PTL DEF IInv

\* However many requests come, and whenever the lock ends, at most one
\* analysis is PROCESSING unless a failure defeated the lock.
THEOREM OneAnalysis == Spec => []OneInProgress
<1>1. IInv => OneInProgress
  <2> SUFFICES ASSUME IInv, ~ blind, NEW i \in Processing, NEW j \in Processing
               PROVE  i = j
    BY DEF OneInProgress
  <2>1. IsLatest(i) /\ IsLatest(j)
    BY DEF IInv, LockProtects
  <2>2. i \in Rows /\ j \in Rows /\ i <= j /\ j <= i
    BY <2>1 DEF IsLatest, Created
  <2> QED
    BY <2>2, ConstantsAssumption DEF Rows
<1> QED
  BY Invariance, <1>1, PTL
----------------------------------------------------------------------------
(* The skills of the newest analysis *)

\* An older analysis that is at the skills, or on its way to them, began
\* while the newest was not COMPLETED, and the only worker is busy with it;
\* one that found the newest COMPLETED copies and leaves the skills alone.
SkillsInv ==
  /\ worker.at = "copy" => ~ IsLatest(worker.row)
  /\ worker.at \in {"analyze", "save", "clear", "insert"} =>
       \A i \in Rows : IsLatest(i) /\ row[i] = "completed" => i = worker.row
  /\ worker.at = "insert" => skills = [of |-> worker.row, whole |-> FALSE]
  /\ worker.at = "end" /\ IsLatest(worker.row) =>
       skills = [of |-> worker.row, whole |-> TRUE]
  /\ SkillsAreOfLatest

\* A new row is the newest, and PROCESSING.
LEMMA NewRowIsLatest ==
  ASSUME TypeOK, NEW i \in Rows, Created = 1..(i - 1),
         row' = [row EXCEPT ![i] = "processing"]
  PROVE  \A k \in Rows : IsLatest(k)' => k = i
<1>1. \A k \in Rows : row[k] # "none" => k <= i - 1
  BY DEF Created, Rows, TypeOK
<1>2. QED
  BY <1>1, ConstantsAssumption DEF IsLatest, Created, Rows, TypeOK

\* Rows that change otherwise leave the newest the newest.
LEMMA SameRowsSameLatest ==
  ASSUME TypeOK, Created' = Created
  PROVE  \A k : IsLatest(k)' <=> IsLatest(k)
BY DEF IsLatest

\* No step disturbs the skills of the newest.
LEMMA SkillsStep == IInv /\ SkillsInv /\ [Next]_vars => SkillsInv'
<1> SUFFICES ASSUME IInv, SkillsInv, [Next]_vars PROVE SkillsInv'
  OBVIOUS
<1> USE DEF IInv, SkillsInv, SkillsAreOfLatest, data, requests, queue
<1>0. /\ TypeOK
      /\ worker.at # "idle" => worker.row \in Rows /\ job[worker.row] = "active" /\ row[worker.row] # "none"
  BY DEF TypeOK, WorkerOK, RowsExist, Created, Resting
<1>1. CASE Created' = Created /\ UNCHANGED <<row, skills, worker>> /\ \A i \in Rows : job'[i] = "done" => job[i] = "done"
  BY <1>0, <1>1, SameRowsSameLatest
<1>2. ASSUME NEW h \in Handlers, CreateRow(h) PROVE SkillsInv'
  <2>1. CASE UNCHANGED row
    BY <1>2, <2>1, <1>1 DEF CreateRow, Created
  <2>2. ASSUME NEW i \in Rows, Created = 1..(i - 1), row' = [row EXCEPT ![i] = "processing"]
        PROVE  SkillsInv'
    <3>1. \A k \in Rows : IsLatest(k)' => k = i
      BY <1>0, <2>2, NewRowIsLatest
    <3>2. row[i] = "none" /\ row'[i] = "processing"
      <4>1. i \notin 1..(i - 1)
        BY ConstantsAssumption DEF Rows
      <4>2. QED
        BY <4>1, <2>2, <1>0 DEF TypeOK, Created
    <3>3. UNCHANGED <<skills, job, worker>>
      BY <1>2 DEF CreateRow
    <3>4. QED
      BY <1>0, <3>1, <3>2, <3>3
  <2>3. QED
    BY <1>2, <2>1, <2>2 DEF CreateRow
<1>3. ASSUME NEW h \in Handlers, Check(h) \/ TakeLock(h) PROVE SkillsInv'
  BY <1>3, <1>1 DEF Check, TakeLock, Created
<1>4. ASSUME NEW h \in Handlers, Dispatch(h) PROVE SkillsInv'
  <2>1. UNCHANGED <<row, skills, worker>> /\ \A i \in Rows : job'[i] = "done" => job[i] = "done"
    BY <1>4, <1>0 DEF Dispatch, TypeOK
  <2>2. QED
    BY <2>1, <1>1 DEF Created
<1>5. ASSUME NEW i \in Rows, QueueStep(i) PROVE SkillsInv'
  <2>1. UNCHANGED <<row, skills, worker>> /\ \A k \in Rows : job'[k] = "done" => job[k] = "done"
    BY <1>5, <1>0 DEF QueueStep, Arrive, Wake, TakeBack, TypeOK
  <2>2. QED
    BY <2>1, <1>1 DEF Created
<1>6. ASSUME NEW i \in Rows, Take(i) PROVE SkillsInv'
  <2>1. UNCHANGED <<row, skills>> /\ worker'.at = "parse" /\ \A k \in Rows : job'[k] = "done" => job[k] = "done"
    BY <1>6, <1>0 DEF Take, TypeOK
  <2>2. \A k : IsLatest(k)' <=> IsLatest(k)
    BY <2>1, <1>0, SameRowsSameLatest DEF Created
  <2>3. QED
    BY <2>1, <2>2
<1>7. CASE WorkerStep /\ UNCHANGED row /\ ~ (\E i \in Rows : Take(i))
  <2>1. \A k : IsLatest(k)' <=> IsLatest(k)
    BY <1>7, <1>0, SameRowsSameLatest DEF Created
  <2>2. worker.at # "idle" /\ worker.row \in Rows /\ job[worker.row] = "active"
    BY <1>7, <1>0 DEF WorkerStep, Parse, Analyze, Complete, ClearSkills, InsertSkills, End,
      Throw, Catch, Bury, Rethrow, At
  <2>3. CASE Parse
    <3>1. UNCHANGED <<row, skills, job>>
      BY <2>3 DEF Parse
    <3>2. CASE \E i \in Rows : IsLatest(i) /\ i # worker.row /\ row[i] = "completed"
      <4>1. ~ IsLatest(worker.row)
        BY <3>2, <1>0, ConstantsAssumption DEF IsLatest, Created, Rows
      <4>2. worker'.at = "copy" /\ worker'.row = worker.row
        BY <2>3, <3>2, <1>0 DEF Parse, Goto, TypeOK
      <4>3. QED
        BY <2>1, <3>1, <4>1, <4>2
    <3>3. CASE ~ \E i \in Rows : IsLatest(i) /\ i # worker.row /\ row[i] = "completed"
      <4>2. worker'.at = "analyze" /\ worker'.row = worker.row
        BY <2>3, <3>3, <1>0 DEF Parse, Goto, TypeOK
      <4>3. QED
        BY <2>1, <3>1, <3>3, <4>2
    <3>4. QED
      BY <3>2, <3>3
  <2>4. CASE Analyze
    <3>1. UNCHANGED <<row, skills, job>> /\ worker.at = "analyze" /\ worker'.at = "save" /\ worker'.row = worker.row
      BY <2>4, <1>0 DEF Analyze, At, Goto, TypeOK
    <3>2. QED
      BY <2>1, <3>1
  <2>5. CASE ClearSkills
    <3>1. /\ UNCHANGED <<row, job>> /\ worker.at = "clear"
          /\ worker'.at = "insert" /\ worker'.row = worker.row
          /\ skills' = [of |-> worker.row, whole |-> FALSE]
      BY <2>5, <1>0 DEF ClearSkills, At, Goto, TypeOK
    <3>2. QED
      BY <2>1, <2>2, <3>1
  <2>6. CASE InsertSkills
    <3>1. /\ UNCHANGED <<row, job>> /\ worker.at = "insert"
          /\ worker'.at = "end" /\ worker'.row = worker.row
          /\ skills' = [skills EXCEPT !.whole = TRUE]
      BY <2>6, <1>0 DEF InsertSkills, At, Goto, TypeOK
    <3>2. skills' = [of |-> worker.row, whole |-> TRUE]
      <4>1. skills = [of |-> worker.row, whole |-> FALSE]
        BY <3>1
      <4>2. QED
        BY <3>1, <4>1
    <3>3. QED
      BY <2>1, <2>2, <3>1, <3>2
  <2>7. CASE End
    <3>1. /\ UNCHANGED <<row, skills>> /\ worker.at = "end" /\ worker'.at = "idle"
          /\ job' = [job EXCEPT ![worker.row] = "done"]
      BY <2>7 DEF End, At, Resting
    <3>2. QED
      BY <2>1, <2>2, <3>1, <1>0 DEF TypeOK
  <2>8. CASE Throw \/ Catch \/ Bury
    <3>1. UNCHANGED <<row, skills, job>> /\ worker'.at \in {"catch", "bury", "rethrow"}
      BY <2>8, <1>7, <1>0 DEF Throw, Catch, Bury, Goto, TypeOK
    <3>2. QED
      BY <2>1, <3>1
  <2>9. CASE Rethrow
    <3>1. /\ UNCHANGED <<row, skills>> /\ worker'.at = "idle"
          /\ \A k \in Rows : job'[k] = "done" => job[k] = "done"
      BY <2>9, <1>0 DEF Rethrow, Resting, TypeOK
    <3>2. QED
      BY <2>1, <3>1
  <2>10. CASE Complete
    <3>1. /\ UNCHANGED <<row, skills, job>> /\ worker'.row = worker.row
          /\ \/ worker.at = "save" /\ worker'.at = "clear"
             \/ worker.at = "copy" /\ worker'.at = "end"
      BY <2>10, <1>7, <1>0 DEF Complete, At, Goto, TypeOK
    <3>2. QED
      BY <2>1, <3>1
  <2>11. QED
    BY <1>7, <2>3, <2>4, <2>5, <2>6, <2>7, <2>8, <2>9, <2>10 DEF WorkerStep
<1>8. CASE Complete
  <2>1. /\ UNCHANGED <<skills, job>> /\ worker'.row = worker.row /\ worker.at \in {"save", "copy"}
        /\ row' = [row EXCEPT ![worker.row] = "completed"]
        /\ worker.at = "save" => worker'.at = "clear"
        /\ worker.at = "copy" => worker'.at = "end"
    BY <1>8, <1>0 DEF Complete, At, Goto, TypeOK
  <2>2. Created' = Created /\ worker.row \in Rows /\ job[worker.row] = "active"
    BY <2>1, <1>0 DEF Created, TypeOK
  <2>3. \A k : IsLatest(k)' <=> IsLatest(k)
    BY <2>2, <1>0, SameRowsSameLatest
  <2>4. \A k \in Rows : k # worker.row => row'[k] = row[k]
    BY <2>1, <1>0 DEF TypeOK
  <2>5. QED
    BY <2>1, <2>2, <2>3, <2>4
<1>9. CASE Catch
  <2>1. /\ UNCHANGED <<skills, job>> /\ worker'.at \in {"bury", "rethrow"}
        /\ worker.row \in Rows
        /\ row' = row \/ row' = [row EXCEPT ![worker.row] = "failed"]
    BY <1>9, <1>0 DEF Catch, At, Goto, TypeOK
  <2>2. Created' = Created /\ \A k \in Rows : row'[k] = "completed" => row[k] = "completed"
    BY <2>1, <1>0, <1>9 DEF Created, TypeOK, Catch, At
  <2>3. \A k : IsLatest(k)' <=> IsLatest(k)
    BY <2>2, <1>0, SameRowsSameLatest
  <2>4. QED
    BY <2>1, <2>2, <2>3
<1>10. CASE Crash
  <2>1. UNCHANGED <<row, skills, job>> /\ worker'.at = "idle"
    BY <1>10 DEF Crash, Resting
  <2>2. \A k : IsLatest(k)' <=> IsLatest(k)
    BY <2>1, <1>0, SameRowsSameLatest DEF Created
  <2>3. QED
    BY <2>1, <2>2
<1>11. CASE LockExpires \/ UNCHANGED vars
  BY <1>11, <1>1 DEF LockExpires, vars, Created
<1>12. CASE WorkerStep
  <2>1. CASE Complete \/ Catch \/ \E i \in Rows : Take(i)
    BY <2>1, <1>6, <1>8, <1>9
  <2>2. CASE ~ (Complete \/ Catch \/ \E i \in Rows : Take(i))
    <3>1. UNCHANGED row
      BY <1>12, <2>2 DEF WorkerStep, Parse, Analyze, ClearSkills, InsertSkills, End, Throw, Bury,
        Rethrow
    <3>2. QED
      BY <1>12, <2>2, <3>1, <1>7
  <2>3. QED
    BY <2>1, <2>2
<1>13. QED
  BY <1>2, <1>3, <1>4, <1>5, <1>10, <1>11, <1>12 DEF Next, HandlerStep

\* When the newest analysis is over and COMPLETED, the CV has all the skills
\* it found and no others, however many older ones are still retried.
THEOREM NewestSkills == Spec => []SkillsAreOfLatest
<1>1. Init => SkillsInv
  BY DEF Init, SkillsInv, SkillsAreOfLatest, Resting, IsLatest, Created
<1>2. SkillsInv => SkillsAreOfLatest
  BY DEF SkillsInv
<1>3. QED
  BY <1>1, <1>2, SkillsStep, Invariance, PTL DEF Spec
----------------------------------------------------------------------------
(* The end of an analysis *)

\* Who is responsible for a row or a job while nothing has failed.
Lasting ==
  /\ \A i \in Rows : job[i] = "active" => worker.row = i
  /\ \A i \in Rows : job[i] # "lost"
  /\ \A i \in Rows : row[i] = "processing" /\ job[i] = "none" =>
       \E h \in Handlers : request[h].at = "created" /\ request[h].row = i
  /\ \A i \in Rows : i \in dead =>
       job[i] = "failed" \/ (worker.row = i /\ worker.at = "rethrow" /\ LastAttempt)
  /\ \A i \in Rows : job[i] = "failed" => i \in dead /\ row[i] = "failed"
  /\ worker.at = "bury" => LastAttempt /\ row[worker.row] = "failed"
  /\ worker.at = "rethrow" =>
       /\ row[worker.row] = "failed"
       /\ LastAttempt => worker.row \in dead
GivenUpInv == faults = 0 => Lasting

\* No step that is not itself a failure leaves a row or a job to nobody.
LEMMA GivenUpStep == IInv /\ GivenUpInv /\ [Next]_vars => GivenUpInv'
<1> SUFFICES ASSUME IInv, GivenUpInv, [Next]_vars, faults' = 0 PROVE Lasting'
  BY DEF GivenUpInv
<1>z. worker.at = "idle" => worker = Resting
  BY DEF IInv, WorkerOK
<1>y. worker.at # "idle" => worker.row \in Rows /\ job[worker.row] = "active" /\ row[worker.row] # "none"
  BY ConstantsAssumption DEF IInv, TypeOK, WorkerOK, RowsExist, Created, Resting, Rows
<1> USE ConstantsAssumption DEF IInv, Lasting, data, requests, queue, Rows
<1>0. /\ TypeOK /\ RowsExist
      /\ worker.at # "idle" => worker.row \in Rows /\ job[worker.row] = "active" /\ row[worker.row] # "none"
      /\ worker.at = "idle" => worker = Resting
  BY <1>z, <1>y
<1>a. faults \in Nat /\ ~ Fault
  BY <1>0 DEF TypeOK, Fault
<1>b. faults = 0
  BY <1>a, <1>0 DEF Next, HandlerStep, QueueStep, WorkerStep, Check, TakeLock, CreateRow, Dispatch,
    Arrive, Wake, TakeBack, Take, Parse, Analyze, Complete, ClearSkills, InsertSkills, End, Throw,
    Catch, Bury, Rethrow, LockExpires, Crash, vars
<1>c. Lasting
  BY <1>b DEF GivenUpInv
<1>1. ASSUME NEW h \in Handlers, Check(h) PROVE Lasting'
  <2>1. /\ UNCHANGED <<row, job, made, dead, worker>> /\ request[h].at # "created"
        /\ \A g \in Handlers : g # h => request'[g] = request[g]
    BY <1>1, <1>0 DEF Check, Refuse, TypeOK
  <2>2. LastAttempt' <=> LastAttempt
    BY <2>1 DEF LastAttempt
  <2>3. QED
    BY <2>1, <2>2, <1>c
<1>2. ASSUME NEW h \in Handlers, TakeLock(h) PROVE Lasting'
  <2>1. /\ UNCHANGED <<row, job, made, dead, worker>> /\ request[h].at # "created"
        /\ \A g \in Handlers : g # h => request'[g] = request[g]
    BY <1>2, <1>0 DEF TakeLock, Refuse, TypeOK
  <2>2. LastAttempt' <=> LastAttempt
    BY <2>1 DEF LastAttempt
  <2>3. QED
    BY <2>1, <2>2, <1>c
<1>3. ASSUME NEW h \in Handlers, CreateRow(h) PROVE Lasting'
  <2>1. PICK i \in Rows :
          /\ Created = 1..(i - 1)
          /\ row' = [row EXCEPT ![i] = "processing"]
          /\ request' = [request EXCEPT ![h] = [at |-> "created", row |-> i]]
    BY <1>3, <1>a DEF CreateRow
  <2>2. row[i] = "none" /\ job[i] = "none" /\ request[h].at = "locked"
    <3>1. i \notin Created
      BY <2>1
    <3>2. QED
      BY <3>1, <1>0, <1>3 DEF Created, RowsExist, TypeOK, CreateRow
  <2>3. QED
    BY <1>3, <2>1, <2>2, <1>0, <1>c DEF CreateRow, TypeOK, LastAttempt
<1>4. ASSUME NEW h \in Handlers, Dispatch(h) PROVE Lasting'
  <2>1. request[h].at = "created" /\ request[h].row \in Rows /\ job[request[h].row] = "none"
    BY <1>4, <1>0 DEF Dispatch, RowsExist, Created
  <2>2. QED
    <3>1. /\ UNCHANGED <<row, made, dead, worker>>
          /\ job'[request[h].row] = "sent"
          /\ \A i \in Rows : i # request[h].row => job'[i] = job[i]
          /\ \A g \in Handlers : g # h => request'[g] = request[g]
      BY <1>4, <2>1, <1>0, <1>a DEF Dispatch, TypeOK
    <3>2. LastAttempt' <=> LastAttempt
      BY <3>1 DEF LastAttempt
    <3>3. \A i \in Rows : i \notin dead \/ i # request[h].row
      BY <2>1, <1>0, <1>c
    <3>4. QED
      BY <2>1, <3>1, <3>2, <3>3, <1>c
<1>5. ASSUME NEW i \in Rows, QueueStep(i) PROVE Lasting'
  <2>1. CASE Arrive(i)
    BY <2>1, <1>0, <1>a, <1>c DEF Arrive, TypeOK, LastAttempt
  <2>2. CASE Wake(i)
    BY <2>2, <1>0, <1>c DEF Wake, TypeOK, LastAttempt
  <2>3. ~ TakeBack(i)
    BY <1>c DEF TakeBack
  <2>4. QED
    BY <1>5, <2>1, <2>2, <2>3 DEF QueueStep
<1>6. ASSUME NEW i \in Rows, Take(i) PROVE Lasting'
  <2>1. \A k \in Rows : job[k] # "active"
    BY <1>6, <1>c DEF Take, Resting
  <2>2. QED
    BY <1>6, <2>1, <1>0, <1>c DEF Take, Resting, TypeOK
<1>7. CASE Parse \/ Analyze \/ ClearSkills \/ InsertSkills
  <2>1. /\ UNCHANGED <<row, request, job, made, dead>> /\ worker'.row = worker.row
        /\ worker.at \in {"parse", "analyze", "clear", "insert"}
        /\ worker'.at \in {"copy", "analyze", "save", "insert", "end"}
    BY <1>7, <1>0 DEF Parse, Analyze, ClearSkills, InsertSkills, At, Goto, TypeOK
  <2>2. QED
    BY <2>1, <1>0, <1>c
<1>8. CASE Complete
  <2>1. /\ UNCHANGED <<request, job, made, dead>> /\ worker'.row = worker.row
        /\ worker.at \in {"copy", "save"} /\ worker'.at \in {"clear", "end"}
        /\ row' = [row EXCEPT ![worker.row] = "completed"]
    BY <1>8, <1>0 DEF Complete, At, Goto, TypeOK
  <2>2. QED
    BY <2>1, <1>0, <1>c DEF TypeOK
<1>9. CASE End
  BY <1>9, <1>0, <1>c DEF End, At, Resting, TypeOK
<1>10. CASE Throw
  <2>1. /\ UNCHANGED <<row, request, job, made, dead>> /\ worker'.row = worker.row
        /\ worker.at \notin {"idle", "bury", "rethrow"} /\ worker'.at = "catch"
    BY <1>10, <1>0 DEF Throw, Goto, TypeOK
  <2>2. QED
    BY <2>1, <1>0, <1>c
<1>11. CASE Catch
  <2>1. /\ UNCHANGED <<request, job, made, dead>> /\ worker'.row = worker.row
        /\ worker.at = "catch" /\ row' = [row EXCEPT ![worker.row] = "failed"]
        /\ LastAttempt => worker'.at = "bury"
        /\ ~ LastAttempt => worker'.at = "rethrow"
    BY <1>11, <1>0, <1>a DEF Catch, At, Goto, TypeOK
  <2>2. LastAttempt' <=> LastAttempt
    BY <2>1 DEF LastAttempt
  <2>3. QED
    BY <2>1, <2>2, <1>0, <1>c DEF TypeOK
<1>12. CASE Bury
  <2>1. /\ UNCHANGED <<row, request, job, made>> /\ worker'.row = worker.row
        /\ worker.at = "bury" /\ worker'.at = "rethrow" /\ dead' = dead \cup {worker.row}
    BY <1>12, <1>0, <1>a DEF Bury, At, Goto, TypeOK
  <2>2. LastAttempt' <=> LastAttempt
    BY <2>1 DEF LastAttempt
  <2>3. QED
    BY <2>1, <2>2, <1>0, <1>c DEF TypeOK
<1>13. CASE Rethrow
  <2>1. /\ UNCHANGED <<row, request, dead>> /\ worker.at = "rethrow" /\ worker' = Resting
        /\ job' = [job EXCEPT ![worker.row] = IF LastAttempt THEN "failed" ELSE "delayed"]
    BY <1>13 DEF Rethrow, At
  <2>2. QED
    BY <2>1, <1>0, <1>c DEF Resting, TypeOK
<1>14. CASE LockExpires
  BY <1>14, <1>0, <1>c DEF LockExpires, LastAttempt
<1>15. CASE UNCHANGED vars
  BY <1>15, <1>c DEF vars, LastAttempt
<1>16. ~ Crash
  BY <1>a DEF Crash
<1>17. QED
  BY <1>1, <1>2, <1>3, <1>4, <1>5, <1>6, <1>7, <1>8, <1>9, <1>10, <1>11, <1>12, <1>13, <1>14,
    <1>15, <1>16 DEF Next, HandlerStep, WorkerStep

\* Failures of the file, the parser or the provider abandon no analysis: what
\* is given up is FAILED and in the dead-letter queue.
THEOREM GivenUp == Spec => []GivenUpIsRecorded
<1>1. Init => GivenUpInv
  BY DEF Init, GivenUpInv, Lasting, Resting
<1>2. IInv /\ GivenUpInv => GivenUpIsRecorded
  <2> SUFFICES ASSUME IInv, Lasting, NEW i \in Rows
               PROVE  /\ ~ Abandoned(i)
                      /\ job[i] = "failed" <=> i \in dead /\ worker.row # i
                      /\ job[i] = "failed" => row[i] = "failed"
    BY DEF GivenUpInv, GivenUpIsRecorded
  <2>1. ~ Abandoned(i)
    BY DEF Lasting, Abandoned
  <2>2. job[i] = "failed" => worker.row # i
    BY ConstantsAssumption DEF IInv, WorkerOK, Resting, Rows
  <2>3. QED
    BY <2>1, <2>2 DEF Lasting
<1>3. QED
  BY <1>1, <1>2, GivenUpStep, Invariance, PTL DEF Spec

----------------------------------------------------------------------------
(* Events *)

\* The order in which a dispatch makes its traces: the row, the add, the job,
\* the work.
Traces(e) ==
  /\ call[e] = "idle" => outboxRow[e] = "none" /\ add[e] = "none"
  /\ add[e] # "none" => outboxRow[e] # "none"
  /\ call[e] \in {"adding", "marking"} => add[e] # "none"
  /\ call[e] = "marking" => add[e] = "stored"
  /\ outboxRow[e] = "processed" => add[e] = "stored"
  /\ eventJob[e] # "none" => add[e] = "stored"
  /\ done[e] > 0 \/ buried[e] > 0 => eventJob[e] # "none"
  /\ run[e] # "none" => eventJob[e] = "active"
  /\ run[e] = "succeeded" => done[e] > 0

\* Attempts and stalls are left as long as a job may run; it takes place once
\* in each of those that are over, and perhaps in the one under way.
Worked(e) == \/ run[e] \in {"succeeded", "failing", "thrown"}
             \/ eventJob[e] = "active" /\ run[e] = "none"
             \/ eventJob[e] = "gone"
Bounded(e) ==
  /\ eventJob[e] # "failed" => eventMade[e] < Attempts /\ eventStalls[e] <= MaxStalls
  /\ eventMade[e] + eventStalls[e] <= Attempts + MaxStalls
  /\ Worked(e) => done[e] <= eventMade[e] + eventStalls[e] + 1
  /\ ~ Worked(e) => done[e] <= eventMade[e] + eventStalls[e]

\* Without a failure no job is left behind by its worker, and the copy in the
\* dead-letter queue is made by the last attempt.
Undisturbed(e) ==
  mishaps = 0 =>
    /\ eventJob[e] = "active" => run[e] # "none"
    /\ eventJob[e] = "failed" \/ (run[e] = "thrown" /\ O!IsLast(e)) => buried[e] = 1
    /\ ~ (eventJob[e] = "failed" \/ (run[e] = "thrown" /\ O!IsLast(e))) => buried[e] = 0

GoodEvent(e) == Traces(e) /\ Bounded(e) /\ Undisturbed(e)
EventsInv == O!TypeOK /\ \A e \in Events : GoodEvent(e)

----------------------------------------------------------------------------
(* Steps of the outbox and its workers *)

\* What a step does not touch stays good, were there failures or not.
LEMMA OtherEvents ==
  ASSUME EventsInv, O!TypeOK', NEW e \in Events, GoodEvent(e)',
         \A d \in Events : d # e =>
           /\ outboxRow'[d] = outboxRow[d] /\ call'[d] = call[d] /\ add'[d] = add[d]
           /\ eventJob'[d] = eventJob[d] /\ run'[d] = run[d] /\ eventMade'[d] = eventMade[d]
           /\ eventStalls'[d] = eventStalls[d] /\ done'[d] = done[d]
           /\ buried'[d] = buried[d],
         mishaps' = 0 => mishaps = 0
  PROVE  EventsInv'
<1> SUFFICES ASSUME NEW d \in Events, d # e PROVE GoodEvent(d)'
  BY DEF EventsInv
<1>1. GoodEvent(d)
  BY DEF EventsInv
<1>2. Traces(d)'
  BY <1>1 DEF GoodEvent, Traces
<1>3. Bounded(d)'
  BY <1>1 DEF GoodEvent, Bounded, Worked
<1>4. Undisturbed(d)'
  BY <1>1 DEF GoodEvent, Undisturbed, O!IsLast
<1> QED
  BY <1>2, <1>3, <1>4 DEF GoodEvent

\* A failure is counted and leaves the count in its range.
LEMMA MishapCounts ==
  ASSUME O!TypeOK, O!Fault
  PROVE  mishaps' \in 0..EventFaults /\ mishaps' # 0
BY ConstantsAssumption, EventsAssumption DEF O!Fault, O!TypeOK

\* The dispatching side preserves the invariant.
LEMMA DispatcherInv ==
  ASSUME EventsInv, NEW e \in Events,
         \/ O!Dispatch(e) \/ O!AddStores(e) \/ O!AddRefused(e) \/ O!Dispatcher(e)
  PROVE  EventsInv'
<1> USE ConstantsAssumption, EventsAssumption DEF EventsInv, O!worker
<1>1. GoodEvent(e) /\ O!TypeOK
  OBVIOUS
<1>2. CASE O!Dispatch(e)
  <2>1. O!TypeOK'
    BY <1>2, MishapCounts DEF O!Dispatch, O!TypeOK
  <2>2. GoodEvent(e)'
    BY <1>1, <1>2, MishapCounts
    DEF O!Dispatch, O!TypeOK, GoodEvent, Traces, Bounded, Worked, Undisturbed, O!IsLast
  <2> QED
    BY <1>2, <2>1, <2>2, OtherEvents, MishapCounts DEF O!Dispatch, O!TypeOK
<1>3. CASE O!AddStores(e)
  <2>1. O!TypeOK'
    BY <1>3 DEF O!AddStores, O!TypeOK
  <2>2. GoodEvent(e)'
    BY <1>1, <1>3
    DEF O!AddStores, O!TypeOK, GoodEvent, Traces, Bounded, Worked, Undisturbed, O!IsLast
  <2> QED
    BY <1>3, <2>1, <2>2, OtherEvents DEF O!AddStores, O!TypeOK
<1>4. CASE O!AddRefused(e)
  <2>1. O!TypeOK'
    BY <1>4, MishapCounts DEF O!AddRefused, O!TypeOK
  <2>2. GoodEvent(e)'
    BY <1>1, <1>4, MishapCounts
    DEF O!AddRefused, O!TypeOK, GoodEvent, Traces, Bounded, Worked, Undisturbed, O!IsLast
  <2> QED
    BY <1>4, <2>1, <2>2, OtherEvents, MishapCounts DEF O!AddRefused, O!TypeOK
<1>5. CASE O!AddAnswered(e) \/ O!TimedOut(e)
  <2>1. O!TypeOK'
    BY <1>5 DEF O!AddAnswered, O!TimedOut, O!TypeOK
  <2>2. GoodEvent(e)'
    BY <1>1, <1>5
    DEF O!AddAnswered, O!TimedOut, O!TypeOK, GoodEvent, Traces, Bounded, Worked,
      Undisturbed, O!IsLast
  <2> QED
    BY <1>5, <2>1, <2>2, OtherEvents DEF O!AddAnswered, O!TimedOut, O!TypeOK
<1>6. CASE O!MarkProcessed(e)
  <2>1. O!TypeOK'
    BY <1>6, MishapCounts DEF O!MarkProcessed, O!TypeOK
  <2>2. GoodEvent(e)'
    BY <1>1, <1>6, MishapCounts
    DEF O!MarkProcessed, O!TypeOK, GoodEvent, Traces, Bounded, Worked, Undisturbed,
      O!IsLast
  <2> QED
    BY <1>6, <2>1, <2>2, OtherEvents, MishapCounts DEF O!MarkProcessed, O!TypeOK
<1> QED
  BY <1>2, <1>3, <1>4, <1>5, <1>6 DEF O!Dispatcher

\* The worker and BullMQ preserve it.
LEMMA EventWorkerInv ==
  ASSUME EventsInv, NEW e \in Events, O!Worker(e)
  PROVE  EventsInv'
<1> USE ConstantsAssumption, EventsAssumption DEF EventsInv, O!dispatcher, O!worker
<1>1. GoodEvent(e) /\ O!TypeOK
  OBVIOUS
<1>2. CASE O!Take(e) \/ O!Backoff(e)
  <2>1. O!TypeOK'
    BY <1>2 DEF O!Take, O!Backoff, O!TypeOK
  <2>2. GoodEvent(e)'
    BY <1>1, <1>2
    DEF O!Take, O!Backoff, O!TypeOK, GoodEvent, Traces, Bounded, Worked, Undisturbed,
      O!IsLast
  <2> QED
    BY <1>2, <2>1, <2>2, OtherEvents DEF O!Take, O!Backoff, O!TypeOK
<1>3. CASE O!Perform(e) \/ O!AttemptFails(e)
  <2>1. O!TypeOK'
    BY <1>3 DEF O!Perform, O!AttemptFails, O!TypeOK
  <2>2. GoodEvent(e)'
    BY <1>1, <1>3
    DEF O!Perform, O!AttemptFails, O!TypeOK, GoodEvent, Traces, Bounded, Worked,
      Undisturbed, O!IsLast
  <2> QED
    BY <1>3, <2>1, <2>2, OtherEvents DEF O!Perform, O!AttemptFails, O!TypeOK
<1>4. CASE O!Catch(e)
  <2>1. O!TypeOK'
    BY <1>4, MishapCounts DEF O!Catch, O!TypeOK
  <2>2. GoodEvent(e)'
    BY <1>1, <1>4, MishapCounts
    DEF O!Catch, O!TypeOK, GoodEvent, Traces, Bounded, Worked, Undisturbed, O!IsLast
  <2>3. mishaps' = 0 => mishaps = 0
    BY <1>4, MishapCounts DEF O!Catch
  <2> QED
    BY <1>4, <2>1, <2>2, <2>3, OtherEvents DEF O!Catch, O!TypeOK
<1>5. CASE O!Complete(e)
  <2>1. O!TypeOK'
    BY <1>5 DEF O!Complete, O!TypeOK
  <2>2. GoodEvent(e)'
    BY <1>1, <1>5
    DEF O!Complete, O!TypeOK, GoodEvent, Traces, Bounded, Worked, Undisturbed, O!IsLast
  <2> QED
    BY <1>5, <2>1, <2>2, OtherEvents DEF O!Complete, O!TypeOK
<1>6. CASE O!Retry(e)
  <2>1. O!TypeOK'
    BY <1>1, <1>6 DEF O!Retry, O!TypeOK, GoodEvent, Traces, Bounded
  <2>2. GoodEvent(e)'
    BY <1>1, <1>6
    DEF O!Retry, O!TypeOK, GoodEvent, Traces, Bounded, Worked, Undisturbed, O!IsLast
  <2> QED
    BY <1>6, <2>1, <2>2, OtherEvents DEF O!Retry, O!TypeOK
<1>7. CASE O!TakeBack(e)
  <2>1. O!TypeOK'
    BY <1>1, <1>7 DEF O!TakeBack, O!TypeOK, GoodEvent, Traces, Bounded
  <2>2. GoodEvent(e)'
    BY <1>1, <1>7
    DEF O!TakeBack, O!TypeOK, GoodEvent, Traces, Bounded, Worked, Undisturbed, O!IsLast
  <2> QED
    BY <1>7, <2>1, <2>2, OtherEvents DEF O!TakeBack, O!TypeOK
<1> QED
  BY <1>2, <1>3, <1>4, <1>5, <1>6, <1>7 DEF O!Worker

\* A crash preserves it.
LEMMA EventCrashInv ==
  ASSUME EventsInv, O!Crash
  PROVE  EventsInv'
<1> USE DEF EventsInv
<1>1. mishaps' \in 0..EventFaults /\ mishaps' # 0
  BY MishapCounts DEF O!Crash
<1>2. O!TypeOK'
  BY <1>1 DEF O!Crash, O!TypeOK
<1>3. ASSUME NEW e \in Events PROVE GoodEvent(e)'
  <2>1. GoodEvent(e)
    OBVIOUS
  <2>2. Traces(e)'
    BY <2>1 DEF O!Crash, O!TypeOK, GoodEvent, Traces
  <2>3. Bounded(e)'
    BY <2>1 DEF O!Crash, O!TypeOK, GoodEvent, Traces, Bounded, Worked
  <2>4. Undisturbed(e)'
    BY <1>1 DEF Undisturbed
  <2> QED
    BY <2>2, <2>3, <2>4 DEF GoodEvent
<1> QED
  BY <1>2, <1>3

----------------------------------------------------------------------------
(* What holds of events *)

\* The invariant holds in every state.
THEOREM EventsInvariance == O!Spec => []EventsInv
<1>1. O!Init => EventsInv
  BY ConstantsAssumption, EventsAssumption
  DEF O!Init, EventsInv, O!TypeOK, GoodEvent, Traces, Bounded, Worked, Undisturbed
<1>2. EventsInv /\ [O!Next]_(O!vars) => EventsInv'
  <2> SUFFICES ASSUME EventsInv, [O!Next]_(O!vars) PROVE EventsInv'
    OBVIOUS
  <2>1. CASE UNCHANGED O!vars
    BY <2>1 DEF O!vars, EventsInv, O!TypeOK, GoodEvent, Traces, Bounded, Worked,
      Undisturbed, O!IsLast
  <2>2. CASE O!Next
    BY <2>2, DispatcherInv, EventWorkerInv, EventCrashInv DEF O!Next
  <2> QED
    BY <2>1, <2>2
<1> QED
  BY <1>1, <1>2, PTL DEF O!Spec

\* Every variable has its type: no job is retried or taken back more often
\* than its limits say.
THEOREM EventsTypeCorrect == O!Spec => []O!TypeOK
BY EventsInvariance, PTL DEF EventsInv

\* A row says processed only when Redis has the job.
THEOREM ProcessedIsTrue == O!Spec => []O!ProcessedWasStored
<1>1. EventsInv => O!ProcessedWasStored
  BY DEF EventsInv, GoodEvent, Traces, O!ProcessedWasStored
<1> QED
  BY <1>1, EventsInvariance, PTL

\* No work is done that the outbox does not know of.
THEOREM WorkIsRecorded == O!Spec => []O!PerformedIsRecorded
<1>1. EventsInv => O!PerformedIsRecorded
  BY DEF EventsInv, GoodEvent, Traces, O!PerformedIsRecorded
<1> QED
  BY <1>1, EventsInvariance, PTL

\* The work takes place no more often than attempts and stalls allow.
THEOREM WorkIsBounded == O!Spec => []PerformedBoundedly
<1>1. EventsInv => PerformedBoundedly
  <2> SUFFICES ASSUME EventsInv, NEW e \in Events
               PROVE  done[e] <= Attempts + MaxStalls
    BY DEF PerformedBoundedly, O!PerformedBoundedly
  <2>1. /\ eventMade[e] \in Nat /\ eventStalls[e] \in Nat /\ done[e] \in Nat
        /\ Bounded(e) /\ Traces(e)
    BY ConstantsAssumption, EventsAssumption DEF EventsInv, O!TypeOK, GoodEvent
  <2>2. Worked(e) => eventJob[e] # "failed"
    BY <2>1 DEF Worked, Traces
  <2> QED
    BY <2>1, <2>2, ConstantsAssumption, EventsAssumption DEF Bounded
<1> QED
  BY <1>1, EventsInvariance, PTL

\* As long as nothing fails, the dead-letter queue has what failed for good.
THEOREM FailuresAreBuried == O!Spec => []FailedIsDeadLettered
<1>1. EventsInv => FailedIsDeadLettered
  <2> SUFFICES ASSUME EventsInv, mishaps = 0, NEW e \in Events
               PROVE  /\ eventJob[e] = "failed" <=> buried[e] = 1 /\ run[e] = "none"
                      /\ eventJob[e] = "gone" => buried[e] = 0
                      /\ buried[e] <= 1
    BY DEF FailedIsDeadLettered, O!FailedIsDeadLettered
  <2>1. Traces(e) /\ Undisturbed(e)
    BY DEF EventsInv, GoodEvent
  <2>2. run[e] = "none" \/ eventJob[e] = "active"
    BY <2>1 DEF Traces
  <2>3. buried[e] = 0 \/ buried[e] = 1
    BY <2>1 DEF Undisturbed
  <2> QED
    BY <2>1, <2>2, <2>3 DEF Undisturbed
<1> QED
  BY <1>1, EventsInvariance, PTL

----------------------------------------------------------------------------
(* The events implement Delivery *)

\* The abstract phase of an event.
Phase(e) ==
  CASE eventJob[e] \in {"gone", "failed"} -> "settled"
    [] eventJob[e] \in {"waiting", "active", "delayed"} -> "queued"
    [] eventJob[e] = "none" /\ outboxRow[e] # "none" -> "recorded"
    [] OTHER -> "none"
Phases == [e \in Events |-> Phase(e)]

\* A step that leaves the phases and the effects alone does nothing, or
\* disturbs, in the abstract.
LEMMA QuietStep ==
  ASSUME EventsInv, EventsInv', Phases' = Phases, done' = done, buried' = buried,
         mishaps' = mishaps \/ mishaps' > mishaps
  PROVE  [O!Promise!Next]_(O!Promise!vars)
<1>1. CASE (mishaps > 0)' <=> (mishaps > 0)
  BY <1>1 DEF O!Promise!vars, Phases, Phase
<1>2. CASE ~ ((mishaps > 0)' <=> (mishaps > 0))
  <2>1. (mishaps > 0)'
    BY <1>2 DEF EventsInv, O!TypeOK
  <2>2. O!Promise!Disturb
    BY <2>1 DEF O!Promise!Disturb, Phases, Phase
  <2> QED
    BY <2>2 DEF O!Promise!Next
<1> QED
  BY <1>1, <1>2

\* A step of one event moves its phase alone.
LEMMA PhaseMoves ==
  ASSUME NEW e \in Events,
         \A d \in Events : d # e => outboxRow'[d] = outboxRow[d] /\ eventJob'[d] = eventJob[d]
  PROVE  Phases' = [Phases EXCEPT ![e] = Phase(e)']
<1>1. \A d \in Events : d # e => Phase(d)' = Phase(d)
  BY DEF Phase
<1> QED
  BY <1>1 DEF Phases

\* Dispatching records and queues; all the rest of it is invisible.
LEMMA DispatcherSimulates ==
  ASSUME EventsInv, EventsInv', NEW e \in Events,
         O!Dispatch(e) \/ O!AddStores(e) \/ O!AddRefused(e) \/ O!Dispatcher(e)
  PROVE  [O!Promise!Next]_(O!Promise!vars)
<1> USE DEF O!worker
<1>0. O!TypeOK /\ Traces(e) /\ O!TypeOK'
  BY DEF EventsInv, GoodEvent
<1>f. O!Fault => mishaps' > mishaps
  BY <1>0 DEF O!Fault, O!TypeOK
<1>1. CASE O!Dispatch(e)
  <2>1. \A d \in Events : d # e => outboxRow'[d] = outboxRow[d] /\ eventJob'[d] = eventJob[d]
    BY <1>0, <1>1 DEF O!Dispatch, O!TypeOK
  <2>2. Phase(e) = "none"
    BY <1>0, <1>1 DEF O!Dispatch, Traces, Phase
  <2>3. CASE UNCHANGED outboxRow
    <3>1. Phases' = Phases
      BY <1>1, <2>3 DEF O!Dispatch, Phases, Phase
    <3> QED
      BY <1>1, <1>f, <3>1, QuietStep DEF O!Dispatch
  <2>4. CASE outboxRow' = [outboxRow EXCEPT ![e] = "pending"] /\ UNCHANGED mishaps
    <3>1. Phase(e)' = "recorded"
      BY <1>0, <1>1, <2>4 DEF O!Dispatch, Traces, O!TypeOK, Phase
    <3>2. Phases' = [Phases EXCEPT ![e] = "recorded"]
      BY <2>1, <3>1, PhaseMoves
    <3>3. O!Promise!Record(e)
      BY <1>1, <2>2, <2>4, <3>2
      DEF O!Dispatch, O!Promise!Record, O!Promise!Enter, Phases, Phase
    <3> QED
      BY <3>3 DEF O!Promise!Next
  <2> QED
    BY <1>1, <2>3, <2>4 DEF O!Dispatch
<1>2. CASE O!AddStores(e)
  <2>1. \A d \in Events : d # e => outboxRow'[d] = outboxRow[d] /\ eventJob'[d] = eventJob[d]
    BY <1>0, <1>2 DEF O!AddStores, O!TypeOK
  <2>2. Phase(e) = "recorded"
    BY <1>0, <1>2 DEF O!AddStores, Traces, O!TypeOK, Phase
  <2>3. Phase(e)' = "queued"
    BY <1>0, <1>2 DEF O!AddStores, O!TypeOK, Phase
  <2>4. Phases' = [Phases EXCEPT ![e] = "queued"]
    BY <2>1, <2>3, PhaseMoves
  <2>5. O!Promise!Enqueue(e)
    BY <1>2, <2>2, <2>4
    DEF O!AddStores, O!Promise!Enqueue, O!Promise!Enter, Phases, Phase
  <2> QED
    BY <2>5 DEF O!Promise!Next
<1>3. CASE O!AddRefused(e)
  <2>1. Phases' = Phases
    BY <1>3 DEF O!AddRefused, Phases, Phase
  <2> QED
    BY <1>3, <1>f, <2>1, QuietStep DEF O!AddRefused
<1>4. CASE O!AddAnswered(e) \/ O!TimedOut(e)
  <2>1. Phases' = Phases
    BY <1>4 DEF O!AddAnswered, O!TimedOut, Phases, Phase
  <2> QED
    BY <1>4, <2>1, QuietStep DEF O!AddAnswered, O!TimedOut
<1>5. CASE O!MarkProcessed(e)
  <2>1. outboxRow[e] # "none" /\ outboxRow'[e] # "none" /\ UNCHANGED <<eventJob, done, buried>>
    BY <1>0, <1>5 DEF O!MarkProcessed, Traces, O!TypeOK
  <2>2. \A d \in Events : d # e => outboxRow'[d] = outboxRow[d] /\ eventJob'[d] = eventJob[d]
    BY <1>0, <1>5 DEF O!MarkProcessed, O!TypeOK
  <2>3. Phase(e)' = Phase(e)
    BY <2>1 DEF Phase
  <2>4. Phases' = Phases
    BY <2>2, <2>3, PhaseMoves DEF Phases
  <2> QED
    BY <1>5, <1>f, <2>1, <2>4, QuietStep DEF O!MarkProcessed
<1> QED
  BY <1>1, <1>2, <1>3, <1>4, <1>5 DEF O!Dispatcher

\* A worker performs, buries and settles what is queued.
LEMMA WorkerSimulates ==
  ASSUME EventsInv, EventsInv', NEW e \in Events, O!Worker(e)
  PROVE  [O!Promise!Next]_(O!Promise!vars)
<1> USE DEF O!dispatcher, O!worker
<1>0. O!TypeOK /\ Traces(e) /\ Undisturbed(e) /\ O!TypeOK'
  BY DEF EventsInv, GoodEvent
<1>f. O!Fault => mishaps' > mishaps
  BY <1>0 DEF O!Fault, O!TypeOK
<1>r. outboxRow' = outboxRow
  BY DEF O!Worker, O!Take, O!Perform, O!AttemptFails, O!Catch, O!Complete, O!Retry,
    O!Backoff,
    O!TakeBack
<1>m. \A d \in Events : d # e => outboxRow'[d] = outboxRow[d] /\ eventJob'[d] = eventJob[d]
  BY <1>0, <1>r DEF O!Worker, O!Take, O!Perform, O!AttemptFails, O!Catch, O!Complete,
    O!Retry, O!Backoff, O!TakeBack, O!TypeOK
<1>n. Phases' = [Phases EXCEPT ![e] = Phase(e)']
  BY <1>m, PhaseMoves
<1>q. eventJob[e] \in {"waiting", "active", "delayed"} => Phases[e] = "queued"
  BY DEF Phases, Phase
<1>a. run[e] # "none" => Phases[e] = "queued"
  BY <1>0, <1>q DEF Traces
\* What ends in the job being settled.
<1>s. ASSUME Phases[e] = "queued", eventJob'[e] \in {"gone", "failed"},
             done[e] > 0 \/ buried[e] > 0 \/ mishaps > 0,
             UNCHANGED <<done, buried, mishaps>>
      PROVE  [O!Promise!Next]_(O!Promise!vars)
  <2>1. Phase(e)' = "settled"
    BY <1>s DEF Phase
  <2>2. Phases' = [Phases EXCEPT ![e] = "settled"]
    BY <1>n, <2>1
  <2>3. O!Promise!Settle(e)
    BY <1>s, <2>2 DEF O!Promise!Settle, O!Promise!Enter, Phases, Phase
  <2> QED
    BY <2>3 DEF O!Promise!Next
\* What leaves it queued.
<1>k. ASSUME Phases[e] = "queued",
             eventJob'[e] \in {"waiting", "active", "delayed"}
      PROVE  Phases' = Phases
  <2>1. Phase(e)' = "queued"
    BY <1>k DEF Phase
  <2> QED
    BY <1>k, <1>n, <2>1 DEF Phases
<1>1. CASE O!Take(e) \/ O!Backoff(e)
  <2>1. Phases' = Phases
    BY <1>0, <1>1, <1>k, <1>q DEF O!Take, O!Backoff, O!TypeOK
  <2> QED
    BY <1>1, <2>1, QuietStep DEF O!Take, O!Backoff
<1>2. CASE O!Perform(e) \/ O!AttemptFails(e)
  <2>1. Phases[e] = "queued" /\ Phases' = Phases /\ UNCHANGED <<buried, mishaps>>
    BY <1>0, <1>2, <1>a, <1>k DEF O!Perform, O!AttemptFails, Traces
  <2>2. CASE done' = done
    BY <2>1, <2>2, QuietStep
  <2>3. CASE done' = [done EXCEPT ![e] = @ + 1]
    <3>1. O!Promise!Perform(e)
      BY <2>1, <2>3 DEF O!Promise!Perform, Phases, Phase
    <3> QED
      BY <3>1 DEF O!Promise!Next
  <2> QED
    BY <1>2, <2>2, <2>3 DEF O!Perform, O!AttemptFails
<1>3. CASE O!Catch(e)
  <2>1. Phases[e] = "queued" /\ Phases' = Phases /\ UNCHANGED done
    BY <1>0, <1>3, <1>a, <1>k DEF O!Catch, Traces
  <2>2. CASE UNCHANGED buried
    <3>1. mishaps' = mishaps \/ mishaps' > mishaps
      BY <1>3, <1>f DEF O!Catch
    <3> QED
      BY <2>1, <2>2, <3>1, QuietStep
  <2>3. CASE buried' = [buried EXCEPT ![e] = @ + 1] /\ UNCHANGED mishaps
    <3>1. O!Promise!Bury(e)
      BY <2>1, <2>3 DEF O!Promise!Bury, Phases, Phase
    <3> QED
      BY <3>1 DEF O!Promise!Next
  <2> QED
    BY <1>3, <2>2, <2>3 DEF O!Catch
<1>4. CASE O!Complete(e)
  <2>1. done[e] > 0 /\ eventJob'[e] = "gone" /\ Phases[e] = "queued"
    BY <1>0, <1>4, <1>a DEF O!Complete, Traces, O!TypeOK
  <2> QED
    BY <1>4, <1>s, <2>1 DEF O!Complete
<1>5. CASE O!Retry(e)
  <2>1. Phases[e] = "queued" /\ UNCHANGED <<done, buried, mishaps>>
    BY <1>5, <1>a DEF O!Retry
  <2>2. CASE eventJob'[e] = "delayed"
    BY <1>k, <2>1, <2>2, QuietStep
  <2>3. CASE ~ (eventMade[e] + 1 < Attempts)
    <3>1. O!IsLast(e)
      BY <1>0, <2>3, ConstantsAssumption, EventsAssumption DEF O!IsLast, O!TypeOK
    <3>2. buried[e] = 1 \/ mishaps # 0
      BY <1>0, <1>5, <3>1 DEF O!Retry, Undisturbed
    <3>3. buried[e] > 0 \/ mishaps > 0
      BY <1>0, <3>2 DEF O!TypeOK
    <3>4. eventJob'[e] = "failed"
      BY <1>0, <1>5, <2>3 DEF O!Retry, O!TypeOK
    <3> QED
      BY <1>s, <2>1, <3>3, <3>4
  <2> QED
    BY <1>0, <1>5, <2>2, <2>3 DEF O!Retry, O!TypeOK
<1>6. CASE O!TakeBack(e)
  <2>1. mishaps > 0
    BY <1>0, <1>6 DEF O!TakeBack, Undisturbed, O!TypeOK
  <2>2. Phases[e] = "queued" /\ UNCHANGED <<done, buried, mishaps>>
    BY <1>6, <1>q DEF O!TakeBack
  <2>3. eventJob'[e] \in {"waiting", "failed"}
    BY <1>0, <1>6 DEF O!TakeBack, O!TypeOK
  <2>4. CASE eventJob'[e] = "waiting"
    BY <1>k, <2>2, <2>4, QuietStep
  <2>5. CASE eventJob'[e] = "failed"
    BY <1>s, <2>1, <2>2, <2>5
  <2> QED
    BY <2>3, <2>4, <2>5
<1> QED
  BY <1>1, <1>2, <1>3, <1>4, <1>5, <1>6 DEF O!Worker

\* OutboxQueue implements Delivery: work is recorded before it is queued,
\* performed only while it is queued, and settled only when it has been
\* performed or buried, unless something failed.
THEOREM Refinement == O!Spec => KeepsPromise
<1>1. O!Init => O!Promise!Init
  BY DEF O!Init, O!Promise!Init
<1>2. EventsInv /\ EventsInv' /\ [O!Next]_(O!vars) => [O!Promise!Next]_(O!Promise!vars)
  <2> SUFFICES ASSUME EventsInv, EventsInv', [O!Next]_(O!vars)
               PROVE  [O!Promise!Next]_(O!Promise!vars)
    OBVIOUS
  <2>1. CASE UNCHANGED O!vars
    BY <2>1 DEF O!vars, O!Promise!vars
  <2>2. CASE O!Crash
    <3>1. Phases' = Phases /\ UNCHANGED <<done, buried>>
      BY <2>2 DEF O!Crash, Phases, Phase
    <3>2. mishaps' > mishaps
      BY <2>2 DEF O!Crash, O!Fault, EventsInv, O!TypeOK
    <3> QED
      BY <3>1, <3>2, QuietStep
  <2> QED
    BY <2>1, <2>2, DispatcherSimulates, WorkerSimulates DEF O!Next
<1> QED
  BY <1>1, <1>2, EventsInvariance, PTL DEF O!Spec, KeepsPromise, O!KeepsPromise, O!Promise!Spec

\* When the analyses rest, events behave as OutboxQueue says.
THEOREM EventsAreOutbox == EventsSpec => O!Spec
<1>1. [O!Next /\ UNCHANGED vars]_<<eventVars, vars>> => [O!Next]_(O!vars)
  BY DEF eventVars, O!vars
<1> QED
  BY <1>1, PTL DEF EventsSpec, O!Spec
=============================================================================
