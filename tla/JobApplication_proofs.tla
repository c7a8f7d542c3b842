----------------------- MODULE JobApplication_proofs -----------------------
(***************************************************************************)
(* What holds of job applications for any number of candidates, jobs, CVs  *)
(* and concurrent requests.                                                *)
(***************************************************************************)
EXTENDS MCJobApplication, TLAPS

\* The row carries a status its history knows.
StatusIsRemembered ==
  \A a \in AppIds : Exists(a) => app[a].status \in had[a]

\* A pending write is justified by a status its handler has read, and a mail
\* to be sent announces a status that was read back.
ReadsAreRemembered ==
  \A h \in Handlers : req[h] # Idle =>
    /\ req[h].op = "status" =>
         /\ \E s \in had[req[h].app] : req[h].to \in AllowedStatuses[s]
         /\ req[h].seen \in had[req[h].app] \cup {"none"}
    /\ req[h].op = "withdraw" => "applied" \in had[req[h].app]

\* The inductive invariant.
IInv ==
  /\ TypeOK
  /\ StatusIsRemembered
  /\ ReadsAreRemembered
  /\ OneApplicationPerUserJob
  /\ AcceptedWasInterviewed
  /\ MailsTellWhatHappened

----------------------------------------------------------------------------
\* A handler that goes on to its next statement keeps its local variables.
LEMMA StepKeepsRequest ==
  ASSUME NEW r \in Request, NEW s \in Steps
  PROVE  /\ [r EXCEPT !.pc = s] \in Request
         /\ [r EXCEPT !.pc = s].op = r.op
<1>1. CASE r \in CreateReq
  BY <1>1 DEF Request, CreateReq
<1>2. CASE r \in StatusReq
  BY <1>2 DEF Request, StatusReq
<1>3. CASE r \in WithdrawReq
  BY <1>3 DEF Request, WithdrawReq
<1>4. CASE r \in InterviewReq
  BY <1>4 DEF Request, InterviewReq
<1>5. CASE r \in DeleteCvReq
  BY <1>5 DEF Request, DeleteCvReq
<1>6. QED
  BY <1>1, <1>2, <1>3, <1>4, <1>5 DEF Request

\* What a handler's local variables are, by the operation it serves.
LEMMA RequestKinds ==
  ASSUME NEW r \in Request
  PROVE  /\ r.op \in {"create", "status", "withdraw", "interview", "deleteCv"}
         /\ r.pc \in Steps
         /\ r.op = "create" => r \in CreateReq
         /\ r.op = "status" => r \in StatusReq
         /\ r.op = "withdraw" => r \in WithdrawReq
         /\ r.op = "interview" => r \in InterviewReq
         /\ r.op = "deleteCv" => r \in DeleteCvReq
BY DEF Request, CreateReq, StatusReq, WithdrawReq, InterviewReq, DeleteCvReq

\* Going to a step, or finishing, leaves every handler with a request or idle.
LEMMA GotoTyped ==
  ASSUME req \in [Handlers -> Request \cup {Idle}],
         NEW h \in Handlers, req[h] # Idle, NEW s \in Steps, Goto(h, s)
  PROVE  req' \in [Handlers -> Request \cup {Idle}]
<1>1. req[h] \in Request
  OBVIOUS
<1>2. [req[h] EXCEPT !.pc = s] \in Request
  BY <1>1, StepKeepsRequest
<1>3. req' = [req EXCEPT ![h] = [req[h] EXCEPT !.pc = s]]
  BY DEF Goto
<1>4. QED
  BY <1>2, <1>3

\* A handler that has ended is idle.
LEMMA FinishTyped ==
  ASSUME req \in [Handlers -> Request \cup {Idle}],
         NEW h \in Handlers, Finish(h)
  PROVE  req' \in [Handlers -> Request \cup {Idle}]
BY DEF Finish

\* What a handler owes is a set of cache families.
LEMMA OwedTyped ==
  ASSUME TypeOK, NEW h \in Handlers
  PROVE  Owed(h) \subseteq Families
<1>1. CASE req[h] = Idle
  BY <1>1 DEF Owed
<1>2. CASE req[h] # Idle
  <2>1. req[h].op \in {"create", "status", "withdraw", "interview", "deleteCv"}
    BY <1>2, RequestKinds DEF TypeOK
  <2>2. QED
    BY <2>1 DEF Owed, Bumps, Families
<1>3. QED
  BY <1>1, <1>2

----------------------------------------------------------------------------
\* A new request is typed by its arguments.
LEMMA BeginTyped ==
  ASSUME TypeOK, NEW h \in Handlers, Begin(h)
  PROVE  /\ req' \in [Handlers -> Request \cup {Idle}]
         /\ UNCHANGED <<app, cv, job, had, told, files, stale, lost, faults>>
<1>1. ASSUME NEW u \in Users, NEW j \in Jobs, NEW c \in Cvs, BeginCreate(h, u, j, c)
      PROVE  /\ req' \in [Handlers -> Request \cup {Idle}]
             /\ UNCHANGED <<app, cv, job, had, told, files, stale, lost, faults>>
  <2>1. [op |-> "create", pc |-> "findJob", user |-> u, job |-> j, cv |-> c] \in Request
    BY DEF Request, CreateReq, Steps
  <2>2. QED
    BY <1>1, <2>1 DEF BeginCreate, TypeOK, tables, caches
<1>2. ASSUME NEW a \in AppIds, NEW s \in Statuses, BeginStatus(h, a, s)
      PROVE  /\ req' \in [Handlers -> Request \cup {Idle}]
             /\ UNCHANGED <<app, cv, job, had, told, files, stale, lost, faults>>
  <2>1. [op |-> "status", pc |-> "updateStatus", app |-> a, to |-> s, seen |-> "none"]
          \in Request
    BY DEF Request, StatusReq, Steps
  <2>2. QED
    BY <1>2, <2>1 DEF BeginStatus, TypeOK, tables, caches
<1>3. ASSUME NEW a \in AppIds, BeginWithdraw(h, a)
      PROVE  /\ req' \in [Handlers -> Request \cup {Idle}]
             /\ UNCHANGED <<app, cv, job, had, told, files, stale, lost, faults>>
  <2>1. [op |-> "withdraw", pc |-> "updateStatus", app |-> a] \in Request
    BY DEF Request, WithdrawReq, Steps
  <2>2. QED
    BY <1>3, <2>1 DEF BeginWithdraw, TypeOK, tables, caches
<1>4. ASSUME NEW a \in AppIds, NEW s \in InterviewStatuses, BeginInterview(h, a, s)
      PROVE  /\ req' \in [Handlers -> Request \cup {Idle}]
             /\ UNCHANGED <<app, cv, job, had, told, files, stale, lost, faults>>
  <2>1. [op |-> "interview", pc |-> "updateInterview", app |-> a, to |-> s] \in Request
    BY DEF Request, InterviewReq, Steps
  <2>2. QED
    BY <1>4, <2>1 DEF BeginInterview, TypeOK, tables, caches
<1>5. ASSUME NEW c \in Cvs, BeginDeleteCv(h, c)
      PROVE  /\ req' \in [Handlers -> Request \cup {Idle}]
             /\ UNCHANGED <<app, cv, job, had, told, files, stale, lost, faults>>
  <2>1. [op |-> "deleteCv", pc |-> "findApplications", cv |-> c] \in Request
    BY DEF Request, DeleteCvReq, Steps
  <2>2. QED
    BY <1>5, <2>1 DEF BeginDeleteCv, TypeOK, tables, caches
<1>6. QED
  BY <1>1, <1>2, <1>3, <1>4, <1>5 DEF Begin

\* The statements of a handler keep every variable in its type.
LEMMA ContinueTyped ==
  ASSUME TypeOK, NEW h \in Handlers, Continue(h)
  PROVE  TypeOK'
<1> req[h] # Idle
  BY DEF Continue, CreateFindJob, CreateFindExisting, CreateInsert, CreateRefused,
         UpdateStatus, RereadStatus, DispatchMail, Withdraw, UpdateInterview,
         DeleteCvFindApplications, DeleteCvSoftDelete, DeleteCvDispatch, Bump
<1> USE DEF TypeOK
<1>r. req[h] \in Request /\ req \in [Handlers -> Request \cup {Idle}]
  OBVIOUS
<1>s. /\ "findExisting" \in Steps /\ "insert" \in Steps /\ "bump" \in Steps
      /\ "reread" \in Steps /\ "softDelete" \in Steps /\ "dispatch" \in Steps
  BY DEF Steps
<1>w. ASSUME NEW op \in {"create", "status", "withdraw", "interview", "deleteCv"},
             Written(op)
      PROVE  stale' \subseteq Families
  <2>1. Outdates[op] \subseteq Families
    BY DEF Outdates, Families
  <2>2. QED
    BY <1>w, <2>1 DEF Written
<1>1. CASE CreateFindJob(h)
  <2>1. req' \in [Handlers -> Request \cup {Idle}]
    BY <1>1, <1>s, GotoTyped, FinishTyped DEF CreateFindJob
  <2>2. QED
    BY <1>1, <2>1 DEF CreateFindJob, tables, caches
<1>2. CASE CreateFindExisting(h)
  <2>1. req' \in [Handlers -> Request \cup {Idle}]
    BY <1>2, <1>s, GotoTyped, FinishTyped DEF CreateFindExisting
  <2>2. QED
    BY <1>2, <2>1 DEF CreateFindExisting, tables, caches
<1>3. CASE CreateInsert(h)
  <2>1. req' \in [Handlers -> Request \cup {Idle}]
    BY <1>3, <1>s, GotoTyped DEF CreateInsert
  <2>2. PICK a \in Fresh :
          /\ app' = [app EXCEPT ![a] =
               [user |-> req[h].user, job |-> req[h].job, cv |-> req[h].cv,
                status |-> "applied", interview |-> "scheduled"]]
          /\ had' = [had EXCEPT ![a] = {"applied"}]
    BY <1>3 DEF CreateInsert
  <2>3. req[h] \in CreateReq
    BY <1>3, <1>r, RequestKinds DEF CreateInsert
  <2>4. [user |-> req[h].user, job |-> req[h].job, cv |-> req[h].cv,
         status |-> "applied", interview |-> "scheduled"] \in Row
    BY <2>3 DEF CreateReq, Row, Statuses, InterviewStatuses
  <2>5. app' \in [AppIds -> Row \cup {NoRow}] /\ had' \in [AppIds -> SUBSET Statuses]
    BY <2>2, <2>4 DEF Fresh, Statuses
  <2>6. stale' \subseteq Families
    BY <1>3, <1>w DEF CreateInsert
  <2>7. QED
    BY <1>3, <2>1, <2>5, <2>6 DEF CreateInsert
<1>4. CASE CreateRefused(h)
  <2>1. req' \in [Handlers -> Request \cup {Idle}]
    BY <1>4, FinishTyped DEF CreateRefused
  <2>2. QED
    BY <1>4, <2>1 DEF CreateRefused, tables, caches
<1>5. CASE UpdateStatus(h)
  <2>1. req' \in [Handlers -> Request \cup {Idle}]
    BY <1>5, <1>s, GotoTyped DEF UpdateStatus
  <2>2. req[h] \in StatusReq
    BY <1>5, <1>r, RequestKinds DEF UpdateStatus
  <2>3. req[h].app \in AppIds /\ req[h].to \in Statuses
    BY <2>2 DEF StatusReq
  <2>4. ASSUME NEW row \in Row PROVE Moved(row, req[h].to) \in Row
    BY <2>3 DEF Moved, Row, InterviewStatuses
  <2>5. app' \in [AppIds -> Row \cup {NoRow}] /\ had' \in [AppIds -> SUBSET Statuses]
    <3>1. CASE Exists(req[h].app)
      <4>1. app[req[h].app] \in Row
        BY <3>1, <2>3 DEF Exists
      <4>2. Moved(app[req[h].app], req[h].to) \in Row
        BY <4>1, <2>4
      <4>3. /\ app' = [app EXCEPT ![req[h].app] = Moved(app[req[h].app], req[h].to)]
            /\ had' = [had EXCEPT ![req[h].app] = @ \cup {req[h].to}]
        BY <1>5, <3>1 DEF UpdateStatus
      <4>4. QED
        BY <4>2, <4>3, <2>3
    <3>2. CASE ~ Exists(req[h].app)
      BY <1>5, <3>2 DEF UpdateStatus
    <3>3. QED
      BY <3>1, <3>2
  <2>6. stale' \subseteq Families
    BY <1>5, <1>w DEF UpdateStatus
  <2>7. QED
    BY <1>5, <2>1, <2>5, <2>6 DEF UpdateStatus
<1>6. CASE RereadStatus(h)
  <2>1. req[h] \in StatusReq
    BY <1>6, <1>r, RequestKinds DEF RereadStatus
  <2>2. PICK s \in MailedStatuses \cup {"none"} :
          req' = [req EXCEPT ![h].pc = "bump", ![h].seen = s]
    BY <1>6 DEF RereadStatus
  <2>3. [req[h] EXCEPT !.pc = "bump", !.seen = s] \in StatusReq
    BY <2>1, <1>s DEF StatusReq
  <2>4. req' \in [Handlers -> Request \cup {Idle}]
    BY <2>2, <2>3, <1>r DEF Request
  <2>5. QED
    BY <1>6, <2>4 DEF RereadStatus, tables, caches
<1>7. CASE DispatchMail(h)
  <2>1. req' \in [Handlers -> Request \cup {Idle}]
    BY <1>7, FinishTyped DEF DispatchMail
  <2>2. req[h] \in StatusReq
    BY <1>7, <1>r, RequestKinds DEF DispatchMail
  <2>3. told' \in [AppIds -> Seq(MailedStatuses)]
    BY <1>7, <2>2 DEF DispatchMail, StatusReq
  <2>4. QED
    BY <1>7, <2>1, <2>3 DEF DispatchMail, tables, caches
<1>8. CASE Withdraw(h)
  <2>1. req' \in [Handlers -> Request \cup {Idle}]
    BY <1>8, <1>s, GotoTyped DEF Withdraw
  <2>2. req[h] \in WithdrawReq
    BY <1>8, <1>r, RequestKinds DEF Withdraw
  <2>3. app' \in [AppIds -> Row \cup {NoRow}] /\ had' \in [AppIds -> SUBSET Statuses]
    <3> DEFINE a == req[h].app
    <3>1. a \in AppIds /\ "withdrawn" \in Statuses
      BY <2>2 DEF WithdrawReq, Statuses
    <3>2. CASE Exists(a)
      <4>1. [app[a] EXCEPT !.status = "withdrawn"] \in Row
        BY <3>1, <3>2 DEF Exists, Row
      <4>2. /\ app' = [app EXCEPT ![a] = [app[a] EXCEPT !.status = "withdrawn"]]
            /\ had' = [had EXCEPT ![a] = @ \cup {"withdrawn"}]
        BY <1>8, <3>2 DEF Withdraw
      <4>3. QED
        BY <3>1, <4>1, <4>2
    <3>3. CASE ~ Exists(a)
      BY <1>8, <3>3 DEF Withdraw
    <3>4. QED
      BY <3>2, <3>3
  <2>4. stale' \subseteq Families
    BY <1>8, <1>w DEF Withdraw
  <2>5. QED
    BY <1>8, <2>1, <2>3, <2>4 DEF Withdraw
<1>9. CASE UpdateInterview(h)
  <2>1. req' \in [Handlers -> Request \cup {Idle}]
    BY <1>9, <1>s, GotoTyped DEF UpdateInterview
  <2>2. req[h] \in InterviewReq
    BY <1>9, <1>r, RequestKinds DEF UpdateInterview
  <2>3. app' \in [AppIds -> Row \cup {NoRow}]
    <3> DEFINE a == req[h].app
    <3>1. a \in AppIds /\ req[h].to \in InterviewStatuses
      BY <2>2 DEF InterviewReq
    <3>2. CASE Exists(a)
      <4>1. [app[a] EXCEPT !.interview = req[h].to] \in Row
        BY <3>1, <3>2 DEF Exists, Row
      <4>2. app' = [app EXCEPT ![a] = [app[a] EXCEPT !.interview = req[h].to]]
        BY <1>9, <3>2 DEF UpdateInterview
      <4>3. QED
        BY <3>1, <4>1, <4>2
    <3>3. CASE ~ Exists(a)
      BY <1>9, <3>3 DEF UpdateInterview
    <3>4. QED
      BY <3>2, <3>3
  <2>4. stale' \subseteq Families
    BY <1>9, <1>w DEF UpdateInterview
  <2>5. QED
    BY <1>9, <2>1, <2>3, <2>4 DEF UpdateInterview
<1>10. CASE DeleteCvFindApplications(h)
  <2>1. req' \in [Handlers -> Request \cup {Idle}]
    BY <1>10, <1>s, GotoTyped, FinishTyped DEF DeleteCvFindApplications
  <2>2. QED
    BY <1>10, <2>1 DEF DeleteCvFindApplications, tables, caches
<1>11. CASE DeleteCvSoftDelete(h)
  <2>1. req' \in [Handlers -> Request \cup {Idle}]
    BY <1>11, <1>s, GotoTyped DEF DeleteCvSoftDelete
  <2>2. stale' \subseteq Families /\ lost' \subseteq Families
    BY <1>11 DEF DeleteCvSoftDelete, Outdates, Showing, Families
  <2>3. QED
    BY <1>11, <2>1, <2>2 DEF DeleteCvSoftDelete
<1>12. CASE DeleteCvDispatch(h)
  <2>1. req' \in [Handlers -> Request \cup {Idle}]
    BY <1>12, FinishTyped DEF DeleteCvDispatch
  <2>2. req[h].cv \in Cvs
    BY <1>12, <1>r, RequestKinds DEF DeleteCvDispatch, DeleteCvReq
  <2>3. QED
    BY <1>12, <2>1, <2>2 DEF DeleteCvDispatch, tables, caches
<1>13. CASE Bump(h)
  <2>1. req' \in [Handlers -> Request \cup {Idle}]
    BY <1>13, <1>s, GotoTyped, FinishTyped DEF Bump
  <2>2. stale' \subseteq Families /\ lost' \subseteq Families /\ faults' \in 0..MaxFaults
    BY <1>13, OwedTyped, ConstantsAssumption DEF Bump
  <2>3. QED
    BY <1>13, <2>1, <2>2 DEF Bump, tables
<1>14. QED
  BY <1>1, <1>2, <1>3, <1>4, <1>5, <1>6, <1>7, <1>8, <1>9, <1>10, <1>11, <1>12, <1>13
  DEF Continue

\* No step takes a variable out of its type.
LEMMA TypeStep == TypeOK /\ [Next]_vars => TypeOK'
<1> SUFFICES ASSUME TypeOK, [Next]_vars PROVE TypeOK'
  OBVIOUS
<1>1. ASSUME NEW h \in Handlers, Begin(h) PROVE TypeOK'
  BY <1>1, BeginTyped DEF TypeOK
<1>2. ASSUME NEW h \in Handlers, Continue(h) PROVE TypeOK'
  BY <1>2, ContinueTyped
<1>3. ASSUME NEW h \in Handlers, Abort(h) PROVE TypeOK'
  <2>1. req' \in [Handlers -> Request \cup {Idle}]
    BY <1>3, FinishTyped DEF Abort, TypeOK
  <2>2. lost' \subseteq Families /\ faults' \in 0..MaxFaults
    BY <1>3, OwedTyped, ConstantsAssumption DEF Abort, TypeOK
  <2>3. QED
    BY <1>3, <2>1, <2>2 DEF Abort, TypeOK, tables
<1>4. ASSUME NEW c \in Cvs, PurgeCv(c) PROVE TypeOK'
  BY <1>4 DEF PurgeCv, TypeOK, Families
<1>5. ASSUME NEW j \in Jobs, MoveJob(j) PROVE TypeOK'
  BY <1>5 DEF MoveJob, TypeOK, caches
<1>6. CASE UNCHANGED vars
  BY <1>6 DEF vars, TypeOK
<1>7. QED
  BY <1>1, <1>2, <1>3, <1>4, <1>5, <1>6 DEF Next

\* The initial values are in their types.
LEMMA TypeInit == Init => TypeOK
BY ConstantsAssumption DEF Init, TypeOK, Statuses

\* Every variable stays in its type, whatever the constants.
THEOREM TypeCorrect == Spec => []TypeOK
BY TypeInit, TypeStep, PTL DEF Spec

----------------------------------------------------------------------------
\* A handler that goes on or ends keeps its reads justified, since the
\* history only grows.
LEMMA KeepsReads ==
  ASSUME TypeOK, ReadsAreRemembered, NEW h \in Handlers, req[h] # Idle,
         (\E s \in Steps : Goto(h, s)) \/ Finish(h),
         \A a \in AppIds : had[a] \subseteq had'[a]
  PROVE  ReadsAreRemembered'
<1> SUFFICES ASSUME NEW g \in Handlers, req'[g] # Idle
             PROVE  /\ req'[g].op = "status" =>
                         /\ \E s \in had'[req'[g].app] : req'[g].to \in AllowedStatuses[s]
                         /\ req'[g].seen \in had'[req'[g].app] \cup {"none"}
                    /\ req'[g].op = "withdraw" => "applied" \in had'[req'[g].app]
  BY DEF ReadsAreRemembered
<1>1. CASE g # h
  <2>1. req'[g] = req[g] /\ req[g] \in Request
    BY <1>1 DEF Goto, Finish, TypeOK
  <2>2. req[g].op \in {"status", "withdraw"} => req[g].app \in AppIds
    BY <2>1, RequestKinds DEF StatusReq, WithdrawReq
  <2>3. QED
    BY <2>1, <2>2 DEF ReadsAreRemembered
<1>2. CASE g = h
  <2>1. req[h] \in Request
    BY DEF TypeOK
  <2>2. PICK s \in Steps : req'[h] = [req[h] EXCEPT !.pc = s]
    BY <1>2 DEF Goto, Finish, TypeOK
  <2>3. req'[h].op = req[h].op
    BY <2>1, <2>2, StepKeepsRequest
  <2>4. CASE req[h].op = "status"
    <3>1. req[h] \in StatusReq
      BY <2>1, <2>4, RequestKinds
    <3>2. /\ req'[h].app = req[h].app /\ req'[h].to = req[h].to
          /\ req'[h].seen = req[h].seen /\ req[h].app \in AppIds
      BY <2>2, <3>1 DEF StatusReq
    <3>3. QED
      BY <1>2, <2>3, <2>4, <3>2 DEF ReadsAreRemembered
  <2>5. CASE req[h].op = "withdraw"
    <3>1. req[h] \in WithdrawReq
      BY <2>1, <2>5, RequestKinds
    <3>2. req'[h].app = req[h].app /\ req[h].app \in AppIds
      BY <2>2, <3>1 DEF WithdrawReq
    <3>3. QED
      BY <1>2, <2>3, <2>5, <3>2 DEF ReadsAreRemembered
  <2>6. QED
    BY <1>2, <2>3, <2>4, <2>5
<1>3. QED
  BY <1>1, <1>2

\* The history of a row never loses a status.
LEMMA HistoryGrows ==
  ASSUME TypeOK, [Next]_vars
  PROVE  \A a \in AppIds : had[a] \subseteq had'[a]
<1>1. ASSUME NEW h \in Handlers, Continue(h)
      PROVE  \A a \in AppIds : had[a] \subseteq had'[a]
  <2>1. CASE CreateInsert(h)
    BY <2>1 DEF CreateInsert, Fresh, TypeOK
  <2>2. CASE UpdateStatus(h)
    BY <2>2 DEF UpdateStatus, TypeOK
  <2>3. CASE Withdraw(h)
    BY <2>3 DEF Withdraw, TypeOK
  <2>4. CASE had' = had
    BY <2>4
  <2>5. QED
    BY <1>1, <2>1, <2>2, <2>3, <2>4
    DEF Continue, CreateFindJob, CreateFindExisting, CreateRefused, RereadStatus,
        DispatchMail, UpdateInterview, DeleteCvFindApplications, DeleteCvSoftDelete,
        DeleteCvDispatch, Bump
<1>2. ASSUME had' = had PROVE \A a \in AppIds : had[a] \subseteq had'[a]
  BY <1>2
<1>3. QED
  BY <1>1, <1>2, BeginTyped DEF Next, Abort, PurgeCv, MoveJob, vars

\* What is said about rows and mails stays true when neither changes and no
\* history loses a status.
LEMMA RowsKept ==
  ASSUME IInv, UNCHANGED <<app, told, had>>
  PROVE  /\ StatusIsRemembered'
         /\ OneApplicationPerUserJob'
         /\ AcceptedWasInterviewed'
         /\ MailsTellWhatHappened'
BY DEF IInv, StatusIsRemembered, OneApplicationPerUserJob, AcceptedWasInterviewed,
       MailsTellWhatHappened, Exists, Range

\* A new request has just read what justifies its write.
LEMMA BeginRemembers ==
  ASSUME IInv, NEW h \in Handlers, Begin(h)
  PROVE  ReadsAreRemembered'
<1> USE DEF IInv
<1>0. had' = had
  BY BeginTyped
<1> SUFFICES ASSUME NEW g \in Handlers, req'[g] # Idle
             PROVE  /\ req'[g].op = "status" =>
                         /\ \E s \in had[req'[g].app] : req'[g].to \in AllowedStatuses[s]
                         /\ req'[g].seen \in had[req'[g].app] \cup {"none"}
                    /\ req'[g].op = "withdraw" => "applied" \in had[req'[g].app]
  BY <1>0 DEF ReadsAreRemembered
<1>1. CASE g # h
  <2>1. req'[g] = req[g]
    BY <1>1 DEF Begin, BeginCreate, BeginStatus, BeginWithdraw, BeginInterview,
                BeginDeleteCv, TypeOK
  <2>2. QED
    BY <2>1 DEF ReadsAreRemembered
<1>2. CASE g = h
  <2>1. ASSUME NEW a \in AppIds, NEW s \in Statuses, BeginStatus(h, a, s)
        PROVE  /\ req'[h].op = "status" /\ req'[h].seen = "none"
               /\ \E t \in had[req'[h].app] : req'[h].to \in AllowedStatuses[t]
    BY <2>1 DEF BeginStatus, StatusIsRemembered, TypeOK
  <2>2. ASSUME NEW a \in AppIds, BeginWithdraw(h, a)
        PROVE  req'[h].op = "withdraw" /\ "applied" \in had[req'[h].app]
    BY <2>2 DEF BeginWithdraw, WithdrawableStatuses, StatusIsRemembered, TypeOK
  <2>3. CASE req'[h].op \notin {"status", "withdraw"}
    BY <1>2, <2>3
  <2>4. QED
    BY <1>2, <2>1, <2>2, <2>3
    DEF Begin, BeginCreate, BeginInterview, BeginDeleteCv, TypeOK
<1>3. QED
  BY <1>1, <1>2

\* The handler that sends a mail has read the status it announces.
LEMMA MailTold ==
  ASSUME IInv, NEW h \in Handlers, DispatchMail(h)
  PROVE  MailsTellWhatHappened'
<1> USE DEF IInv
<1>1. req[h] \in StatusReq
  BY RequestKinds DEF DispatchMail, TypeOK
<1>2. CASE req[h].seen = "none"
  BY <1>2 DEF DispatchMail, MailsTellWhatHappened, Range
<1>3. CASE req[h].seen # "none"
  <2> DEFINE a == req[h].app
             m == req[h].seen
  <2>1. a \in AppIds /\ m \in MailedStatuses /\ m \in had[a]
    BY <1>1, <1>3 DEF StatusReq, ReadsAreRemembered, DispatchMail
  <2>2. told' = [told EXCEPT ![a] = Append(@, m)] /\ had' = had
    BY <1>3 DEF DispatchMail
  <2>3. told[a] \in Seq(MailedStatuses)
    BY <2>1 DEF TypeOK
  <2>4. Range(Append(told[a], m)) \subseteq Range(told[a]) \cup {m}
    BY <2>1, <2>3 DEF Range
  <2>5. ASSUME NEW b \in AppIds PROVE Range(told'[b]) \subseteq had'[b]
    <3>1. CASE b = a
      <4>1. told'[b] = Append(told[a], m)
        BY <2>1, <2>2, <3>1 DEF TypeOK
      <4>2. Range(told[a]) \subseteq had[a]
        BY <2>1 DEF MailsTellWhatHappened
      <4>3. QED
        BY <2>1, <2>2, <2>4, <3>1, <4>1, <4>2
    <3>2. CASE b # a
      BY <2>2, <3>2 DEF TypeOK, MailsTellWhatHappened
    <3>3. QED
      BY <3>1, <3>2
  <2>6. QED
    BY <2>5 DEF MailsTellWhatHappened
<1>4. QED
  BY <1>2, <1>3

\* The INSERT: the index leaves the pair to one row, whose history begins.
LEMMA InsertSafe ==
  ASSUME IInv, NEW h \in Handlers, CreateInsert(h)
  PROVE  /\ StatusIsRemembered' /\ OneApplicationPerUserJob'
         /\ AcceptedWasInterviewed' /\ MailsTellWhatHappened'
<1> USE DEF IInv
<1>1. PICK a \in Fresh :
        /\ app' = [app EXCEPT ![a] =
             [user |-> req[h].user, job |-> req[h].job, cv |-> req[h].cv,
              status |-> "applied", interview |-> "scheduled"]]
        /\ had' = [had EXCEPT ![a] = {"applied"}]
  BY DEF CreateInsert
<1>2. a \in AppIds /\ had[a] = {} /\ told' = told
  BY <1>1 DEF Fresh, CreateInsert
<1>3. /\ app'[a].user = req[h].user /\ app'[a].job = req[h].job
      /\ app'[a].status = "applied" /\ had'[a] = {"applied"}
  BY <1>1, <1>2 DEF TypeOK
<1>4. \A b \in AppIds \ {a} : app'[b] = app[b] /\ had'[b] = had[b]
  BY <1>1 DEF TypeOK
<1>5. StatusIsRemembered'
  BY <1>3, <1>4 DEF StatusIsRemembered, Exists
<1>6. OneApplicationPerUserJob'
  BY <1>2, <1>3, <1>4 DEF OneApplicationPerUserJob, CreateInsert, IndexFree, Exists
<1>7. AcceptedWasInterviewed'
  BY <1>3, <1>4 DEF AcceptedWasInterviewed
<1>8. MailsTellWhatHappened'
  BY <1>2, <1>3, <1>4 DEF MailsTellWhatHappened
<1>9. QED
  BY <1>5, <1>6, <1>7, <1>8

\* An UPDATE of the status to one that a remembered status justifies.
LEMMA WriteSafe ==
  ASSUME IInv, NEW a \in AppIds, NEW s \in Statuses, NEW row, Exists(a),
         row.status = s, row.user = app[a].user, row.job = app[a].job,
         row # NoRow,
         app' = [app EXCEPT ![a] = row],
         had' = [had EXCEPT ![a] = @ \cup {s}],
         told' = told,
         \E t \in had[a] : CanFollow(t, s)
  PROVE  /\ StatusIsRemembered' /\ OneApplicationPerUserJob'
         /\ AcceptedWasInterviewed' /\ MailsTellWhatHappened'
<1> USE DEF IInv
<1>1. app'[a] = row /\ had'[a] = had[a] \cup {s}
  BY DEF TypeOK
<1>2. \A b \in AppIds \ {a} : app'[b] = app[b] /\ had'[b] = had[b]
  BY DEF TypeOK
<1>3. StatusIsRemembered'
  BY <1>1, <1>2 DEF StatusIsRemembered, Exists
<1>4. OneApplicationPerUserJob'
  BY <1>1, <1>2 DEF OneApplicationPerUserJob, Exists
<1>5. s = "accepted" => "interview" \in had[a]
  <2> SUFFICES ASSUME s = "accepted" PROVE "interview" \in had[a]
    OBVIOUS
  <2>1. PICK t \in had[a] : CanFollow(t, "accepted")
    OBVIOUS
  <2>2. t \in Statuses
    BY DEF TypeOK
  <2>3. t = "interview"
    BY <2>1, <2>2 DEF CanFollow, AllowedStatuses, WithdrawableStatuses, Statuses
  <2>4. QED
    BY <2>3
<1>6. AcceptedWasInterviewed'
  BY <1>1, <1>2, <1>5 DEF AcceptedWasInterviewed
<1>7. MailsTellWhatHappened'
  BY <1>1, <1>2 DEF MailsTellWhatHappened
<1>8. QED
  BY <1>3, <1>4, <1>6, <1>7

\* The statements that write a status: what they write, and why it may be.
LEMMA UpdateWrites ==
  ASSUME IInv, NEW h \in Handlers, UpdateStatus(h), Exists(req[h].app)
  PROVE  LET a == req[h].app
             row == Moved(app[a], req[h].to)
         IN  /\ a \in AppIds /\ req[h].to \in Statuses /\ row \in Row
             /\ row.status = req[h].to /\ row.user = app[a].user /\ row.job = app[a].job
             /\ app' = [app EXCEPT ![a] = row]
             /\ had' = [had EXCEPT ![a] = @ \cup {req[h].to}]
             /\ \E t \in had[a] : CanFollow(t, req[h].to)
<1> USE DEF IInv
<1>1. req[h] \in StatusReq
  BY RequestKinds DEF UpdateStatus, TypeOK
<1>2. req[h].app \in AppIds /\ req[h].to \in Statuses
  BY <1>1 DEF StatusReq
<1>3. app[req[h].app] \in Row
  BY <1>2 DEF Exists, TypeOK
<1>4. /\ Moved(app[req[h].app], req[h].to) \in Row
      /\ Moved(app[req[h].app], req[h].to).status = req[h].to
      /\ Moved(app[req[h].app], req[h].to).user = app[req[h].app].user
      /\ Moved(app[req[h].app], req[h].to).job = app[req[h].app].job
  BY <1>2, <1>3 DEF Moved, Row, InterviewStatuses
<1>5. \E t \in had[req[h].app] : CanFollow(t, req[h].to)
  BY DEF UpdateStatus, ReadsAreRemembered, CanFollow
<1>6. QED
  BY <1>2, <1>4, <1>5 DEF UpdateStatus

\* The same of a withdrawal.
LEMMA WithdrawWrites ==
  ASSUME IInv, NEW h \in Handlers, Withdraw(h), Exists(req[h].app)
  PROVE  LET a == req[h].app
             row == [app[a] EXCEPT !.status = "withdrawn"]
         IN  /\ a \in AppIds /\ "withdrawn" \in Statuses /\ row \in Row
             /\ row.status = "withdrawn" /\ row.user = app[a].user /\ row.job = app[a].job
             /\ app' = [app EXCEPT ![a] = row]
             /\ had' = [had EXCEPT ![a] = @ \cup {"withdrawn"}]
             /\ \E t \in had[a] : CanFollow(t, "withdrawn")
<1> USE DEF IInv
<1>1. req[h] \in WithdrawReq
  BY RequestKinds DEF Withdraw, TypeOK
<1>2. req[h].app \in AppIds
  BY <1>1 DEF WithdrawReq
<1>3. app[req[h].app] \in Row
  BY <1>2 DEF Exists, TypeOK
<1>4. /\ [app[req[h].app] EXCEPT !.status = "withdrawn"] \in Row
      /\ [app[req[h].app] EXCEPT !.status = "withdrawn"].status = "withdrawn"
      /\ [app[req[h].app] EXCEPT !.status = "withdrawn"].user = app[req[h].app].user
      /\ [app[req[h].app] EXCEPT !.status = "withdrawn"].job = app[req[h].app].job
  BY <1>3 DEF Row, Statuses
<1>5. "applied" \in had[req[h].app] /\ CanFollow("applied", "withdrawn")
  BY DEF Withdraw, ReadsAreRemembered, CanFollow, WithdrawableStatuses
<1>6. QED
  BY <1>2, <1>4, <1>5 DEF Withdraw, Statuses

\* No statement of a handler breaks the invariant.
LEMMA ContinueSafe ==
  ASSUME IInv, NEW h \in Handlers, Continue(h),
         \A a \in AppIds : had[a] \subseteq had'[a]
  PROVE  /\ StatusIsRemembered' /\ ReadsAreRemembered' /\ OneApplicationPerUserJob'
         /\ AcceptedWasInterviewed' /\ MailsTellWhatHappened'
<1> DEFINE Kept == /\ StatusIsRemembered' /\ OneApplicationPerUserJob'
                   /\ AcceptedWasInterviewed' /\ MailsTellWhatHappened'
<1>0. TypeOK /\ ReadsAreRemembered
  BY DEF IInv
<1>s. /\ "findExisting" \in Steps /\ "insert" \in Steps /\ "bump" \in Steps
      /\ "reread" \in Steps /\ "softDelete" \in Steps /\ "dispatch" \in Steps
  BY DEF Steps
<1>k. ASSUME NEW step \in Steps, req[h] # Idle, Goto(h, step) \/ Finish(h)
      PROVE  ReadsAreRemembered'
  BY <1>k, <1>0, KeepsReads
<1>1. CASE \/ CreateFindJob(h) \/ CreateFindExisting(h) \/ CreateRefused(h)
           \/ DeleteCvFindApplications(h) \/ DeleteCvSoftDelete(h)
           \/ DeleteCvDispatch(h) \/ Bump(h)
  <2>1. UNCHANGED <<app, told, had>>
    BY <1>1 DEF CreateFindJob, CreateFindExisting, CreateRefused, tables,
                DeleteCvFindApplications, DeleteCvSoftDelete, DeleteCvDispatch, Bump
  <2>2. req[h] # Idle /\ \E step \in Steps : Goto(h, step) \/ Finish(h)
    BY <1>1, <1>s DEF CreateFindJob, CreateFindExisting, CreateRefused,
                      DeleteCvFindApplications, DeleteCvSoftDelete, DeleteCvDispatch, Bump
  <2>3. QED
    BY <2>1, <2>2, <1>k, RowsKept
<1>2. CASE CreateInsert(h)
  BY <1>2, <1>s, <1>k, InsertSafe DEF CreateInsert
<1>3. CASE UpdateStatus(h)
  <2>1. ReadsAreRemembered'
    BY <1>3, <1>s, <1>k DEF UpdateStatus
  <2>2. CASE Exists(req[h].app)
    <3> DEFINE a == req[h].app
               row == Moved(app[a], req[h].to)
    <3>1. /\ a \in AppIds /\ req[h].to \in Statuses /\ row # NoRow
          /\ row.status = req[h].to /\ row.user = app[a].user /\ row.job = app[a].job
          /\ app' = [app EXCEPT ![a] = row]
          /\ had' = [had EXCEPT ![a] = @ \cup {req[h].to}]
          /\ \E t \in had[a] : CanFollow(t, req[h].to)
      BY <1>3, <2>2, UpdateWrites, ConstantsAssumption
    <3>2. told' = told
      BY <1>3 DEF UpdateStatus
    <3> HIDE DEF a, row
    <3>3. Kept
      BY <3>1, <3>2, <2>2, WriteSafe DEF a
    <3>4. QED
      BY <3>3, <2>1
  <2>3. CASE ~ Exists(req[h].app)
    BY <1>3, <2>1, <2>3, RowsKept DEF UpdateStatus
  <2>4. QED
    BY <2>2, <2>3
<1>4. CASE RereadStatus(h)
  <2>1. UNCHANGED <<app, told, had>>
    BY <1>4 DEF RereadStatus, tables
  <2>2. req[h] \in StatusReq
    BY <1>0, <1>4, RequestKinds DEF RereadStatus, TypeOK
  <2> DEFINE s == StatusOf(req[h].app)
             seen == IF s \in MailedStatuses THEN s ELSE "none"
  <2>3. seen \in had[req[h].app] \cup {"none"}
    BY <2>2 DEF StatusReq, StatusOf, StatusIsRemembered, IInv
  <2>4. req' = [req EXCEPT ![h].pc = "bump", ![h].seen = seen]
    BY <1>4 DEF RereadStatus
  <2> HIDE DEF seen
  <2>5. ASSUME NEW g \in Handlers, req'[g] # Idle
        PROVE  /\ req'[g].op = "status" =>
                    /\ \E t \in had[req'[g].app] : req'[g].to \in AllowedStatuses[t]
                    /\ req'[g].seen \in had[req'[g].app] \cup {"none"}
               /\ req'[g].op = "withdraw" => "applied" \in had[req'[g].app]
    <3>1. CASE g # h
      <4>1. req'[g] = req[g]
        BY <3>1, <2>4, <1>0 DEF TypeOK
      <4>2. QED
        BY <4>1, <2>5, <1>0 DEF ReadsAreRemembered
    <3>2. CASE g = h
      <4>1. /\ req'[h].op = "status" /\ req'[h].app = req[h].app
            /\ req'[h].to = req[h].to /\ req'[h].seen = seen /\ req[h].op = "status"
        BY <2>2, <2>4, <1>0 DEF StatusReq, TypeOK
      <4>2. \E t \in had[req[h].app] : req[h].to \in AllowedStatuses[t]
        BY <4>1, <1>0, <1>4 DEF ReadsAreRemembered, RereadStatus
      <4>3. QED
        BY <3>2, <4>1, <4>2, <2>3
    <3>3. QED
      BY <3>1, <3>2
  <2>6. ReadsAreRemembered'
    BY <2>5, <2>1 DEF ReadsAreRemembered
  <2>7. QED
    BY <2>1, <2>6, RowsKept
<1>5. CASE DispatchMail(h)
  <2>1. ReadsAreRemembered'
    BY <1>5, <1>s, <1>k DEF DispatchMail
  <2>2. UNCHANGED <<app, had>>
    BY <1>5 DEF DispatchMail, tables
  <2>3. StatusIsRemembered' /\ OneApplicationPerUserJob' /\ AcceptedWasInterviewed'
    BY <2>2 DEF IInv, StatusIsRemembered, OneApplicationPerUserJob,
                AcceptedWasInterviewed, Exists
  <2>4. QED
    BY <1>5, <2>1, <2>3, MailTold
<1>6. CASE Withdraw(h)
  <2>1. ReadsAreRemembered'
    BY <1>6, <1>s, <1>k DEF Withdraw
  <2>2. CASE Exists(req[h].app)
    <3> DEFINE a == req[h].app
               row == [app[a] EXCEPT !.status = "withdrawn"]
    <3>1. /\ a \in AppIds /\ "withdrawn" \in Statuses /\ row # NoRow
          /\ row.status = "withdrawn" /\ row.user = app[a].user /\ row.job = app[a].job
          /\ app' = [app EXCEPT ![a] = row]
          /\ had' = [had EXCEPT ![a] = @ \cup {"withdrawn"}]
          /\ \E t \in had[a] : CanFollow(t, "withdrawn")
      BY <1>6, <2>2, WithdrawWrites, ConstantsAssumption
    <3>2. told' = told
      BY <1>6 DEF Withdraw
    <3> HIDE DEF a, row
    <3>3. Kept
      BY <3>1, <3>2, <2>2, WriteSafe DEF a
    <3>4. QED
      BY <3>3, <2>1
  <2>3. CASE ~ Exists(req[h].app)
    BY <1>6, <2>1, <2>3, RowsKept DEF Withdraw
  <2>4. QED
    BY <2>2, <2>3
<1>7. CASE UpdateInterview(h)
  <2>1. ReadsAreRemembered'
    BY <1>7, <1>s, <1>k DEF UpdateInterview
  <2>2. UNCHANGED <<told, had>>
    BY <1>7 DEF UpdateInterview
  <2>3. ASSUME NEW a \in AppIds
        PROVE  /\ Exists(a)' <=> Exists(a)
               /\ Exists(a) => /\ app'[a].status = app[a].status
                               /\ app'[a].user = app[a].user /\ app'[a].job = app[a].job
    <3>1. CASE app' = app
      BY <3>1 DEF Exists
    <3>2. CASE app' # app
      <4>1. /\ Exists(req[h].app)
            /\ app' = [app EXCEPT ![req[h].app].interview = req[h].to]
        BY <1>7, <3>2 DEF UpdateInterview
      <4>2. req[h] \in InterviewReq
        BY <1>0, <1>7, RequestKinds DEF UpdateInterview, TypeOK
      <4>3. app[req[h].app] \in Row /\ req[h].to \in InterviewStatuses
        BY <4>1, <4>2, <1>0 DEF TypeOK, Exists, InterviewReq
      <4>4. [app[req[h].app] EXCEPT !.interview = req[h].to] \in Row
        BY <4>3 DEF Row
      <4>5. CASE a = req[h].app
        <5>1. app'[a] = [app[a] EXCEPT !.interview = req[h].to]
          BY <4>1, <4>5, <1>0 DEF TypeOK
        <5>2. QED
          BY <5>1, <4>1, <4>3, <4>4, <4>5, ConstantsAssumption DEF Exists, Row
      <4>6. CASE a # req[h].app
        BY <4>1, <4>6, <1>0 DEF TypeOK, Exists
      <4>7. QED
        BY <4>5, <4>6
    <3>3. QED
      BY <3>1, <3>2
  <2>4. StatusIsRemembered' /\ OneApplicationPerUserJob'
    BY <2>2, <2>3 DEF IInv, StatusIsRemembered, OneApplicationPerUserJob
  <2>5. AcceptedWasInterviewed' /\ MailsTellWhatHappened'
    BY <2>2 DEF IInv, AcceptedWasInterviewed, MailsTellWhatHappened, Range
  <2>6. QED
    BY <2>1, <2>4, <2>5
<1>8. QED
  BY <1>1, <1>2, <1>3, <1>4, <1>5, <1>6, <1>7 DEF Continue

\* The invariant holds of the empty tables.
LEMMA SafeInit == Init => IInv
BY TypeInit DEF Init, IInv, StatusIsRemembered, ReadsAreRemembered, Exists,
   OneApplicationPerUserJob, AcceptedWasInterviewed, MailsTellWhatHappened, Range

\* Every step preserves the invariant.
LEMMA SafeStep == IInv /\ [Next]_vars => IInv'
<1> SUFFICES ASSUME IInv, [Next]_vars PROVE IInv'
  OBVIOUS
<1>1. TypeOK' /\ TypeOK /\ ReadsAreRemembered
  BY TypeStep DEF IInv
<1>2. \A a \in AppIds : had[a] \subseteq had'[a]
  BY <1>1, HistoryGrows
<1>3. ASSUME NEW h \in Handlers, Begin(h) PROVE IInv'
  <2>1. UNCHANGED <<app, told, had>>
    BY <1>1, <1>3, BeginTyped
  <2>2. QED
    BY <1>1, <1>3, <2>1, RowsKept, BeginRemembers DEF IInv
<1>4. ASSUME NEW h \in Handlers, Continue(h) PROVE IInv'
  BY <1>1, <1>2, <1>4, ContinueSafe DEF IInv
<1>5. ASSUME NEW h \in Handlers, Abort(h) PROVE IInv'
  <2>1. ReadsAreRemembered'
    BY <1>1, <1>2, <1>5, KeepsReads DEF Abort
  <2>2. UNCHANGED <<app, told, had>>
    BY <1>5 DEF Abort, tables
  <2>3. QED
    BY <1>1, <2>1, <2>2, RowsKept DEF IInv
<1>6. ASSUME NEW c \in Cvs, PurgeCv(c) PROVE IInv'
  <2>1. UNCHANGED <<req, had, told>>
    BY <1>6 DEF PurgeCv
  <2>2. \A a \in AppIds : app'[a] \in {app[a], NoRow}
    BY <1>6 DEF PurgeCv
  <2>3. ReadsAreRemembered'
    BY <1>1, <2>1 DEF ReadsAreRemembered
  <2>4. StatusIsRemembered' /\ OneApplicationPerUserJob'
    BY <2>1, <2>2 DEF IInv, StatusIsRemembered, OneApplicationPerUserJob, Exists
  <2>5. AcceptedWasInterviewed' /\ MailsTellWhatHappened'
    BY <2>1 DEF IInv, AcceptedWasInterviewed, MailsTellWhatHappened, Range
  <2>6. QED
    BY <1>1, <2>3, <2>4, <2>5 DEF IInv
<1>7. ASSUME UNCHANGED <<app, told, had, req>> PROVE IInv'
  <2>1. ReadsAreRemembered'
    BY <1>1, <1>7 DEF ReadsAreRemembered
  <2>2. QED
    BY <1>1, <1>7, <2>1, RowsKept DEF IInv
<1>8. QED
  BY <1>3, <1>4, <1>5, <1>6, <1>7 DEF Next, MoveJob, vars

\* The invariant holds throughout.
THEOREM Invariance == Spec => []IInv
BY SafeInit, SafeStep, PTL DEF Spec

\* However many requests interleave, one application per candidate and job.
THEOREM OneApplication == Spec => []OneApplicationPerUserJob
<1>1. IInv => OneApplicationPerUserJob
  BY DEF IInv
<1>2. QED
  BY <1>1, Invariance, PTL

\* However many requests interleave, nobody is accepted without an interview.
THEOREM AcceptedAfterInterview == Spec => []AcceptedWasInterviewed
<1>1. IInv => AcceptedWasInterviewed
  BY DEF IInv
<1>2. QED
  BY <1>1, Invariance, PTL

\* However many requests interleave, a mail tells of a status there was.
THEOREM MailsTell == Spec => []MailsTellWhatHappened
<1>1. IInv => MailsTellWhatHappened
  BY DEF IInv
<1>2. QED
  BY <1>1, Invariance, PTL

----------------------------------------------------------------------------
(* Cached views *)

\* What a handler is doing after it goes to a step.
LEMMA GotoAt ==
  ASSUME TypeOK, NEW h \in Handlers, req[h] # Idle, NEW s \in Steps, Goto(h, s)
  PROVE  /\ req'[h] # Idle /\ req'[h].pc = s /\ req'[h].op = req[h].op
         /\ \A g \in Handlers : g # h => req'[g] = req[g]
<1>1. req[h] \in Request
  BY DEF TypeOK
<1>2. req'[h] = [req[h] EXCEPT !.pc = s] /\ \A g \in Handlers : g # h => req'[g] = req[g]
  BY DEF Goto, TypeOK
<1>3. req'[h] \in Request /\ req'[h].op = req[h].op
  BY <1>1, <1>2, StepKeepsRequest
<1>4. req'[h].pc = s
  BY <1>1, <1>2 DEF Request, CreateReq, StatusReq, WithdrawReq, InterviewReq, DeleteCvReq
<1>5. QED
  BY <1>2, <1>3, <1>4, ConstantsAssumption

\* A step of one handler keeps the promise of the caches when whatever it
\* leaves stale is owed by it, given up, or was stale and no debt of its own.
LEMMA StaleKept ==
  ASSUME StaleIsOwedOrLost, NEW h \in Handlers,
         \A g \in Handlers : g # h => req'[g] = req[g],
         \A f \in stale' :
           \/ f \in lost' \cup Owed(h)'
           \/ f \in stale \ Owed(h) /\ (f \in lost => f \in lost')
  PROVE  StaleIsOwedOrLost'
<1>1. \A g \in Handlers : g # h => Owed(g)' = Owed(g)
  BY DEF Owed
<1>2. QED
  BY <1>1 DEF StaleIsOwedOrLost

\* A step that touches neither the caches nor a debt.
LEMMA CachesKept ==
  ASSUME StaleIsOwedOrLost, NEW h \in Handlers,
         \A g \in Handlers : g # h => req'[g] = req[g],
         UNCHANGED caches, Owed(h) \subseteq Owed(h)'
  PROVE  StaleIsOwedOrLost'
<1>1. stale' = stale /\ lost' = lost
  BY DEF caches
<1>2. QED
  BY <1>1, StaleKept

\* A write leaves stale what the handler owes next, and, with a CV, what
\* nobody bumps.
LEMMA WriteOwes ==
  ASSUME TypeOK, StaleIsOwedOrLost, NEW h \in Handlers, req[h] # Idle,
         req[h].pc \notin {"reread", "bump"},
         NEW s \in {"reread", "bump"}, Goto(h, s),
         NEW rest, stale' = stale \cup Outdates[req[h].op] \cup rest,
         lost' = lost \cup rest
  PROVE  StaleIsOwedOrLost'
<1>1. req[h].op \in {"create", "status", "withdraw", "interview", "deleteCv"}
  BY RequestKinds DEF TypeOK
<1>2. s \in Steps
  BY DEF Steps
<1>3. /\ req'[h] # Idle /\ req'[h].pc = s /\ req'[h].op = req[h].op
      /\ \A g \in Handlers : g # h => req'[g] = req[g]
  BY <1>2, GotoAt
<1>4. Owed(h)' = Bumps[req[h].op] /\ Owed(h) = {}
  BY <1>3 DEF Owed
<1>5. Bumps[req[h].op] = Outdates[req[h].op]
  BY <1>1 DEF Bumps, Outdates
<1>6. QED
  BY <1>3, <1>4, <1>5, StaleKept

\* No step leaves a cache family stale that nobody will bump, unless a
\* failure or the end of a CV does.
LEMMA StaleStep == TypeOK /\ StaleIsOwedOrLost /\ [Next]_vars => StaleIsOwedOrLost'
<1> SUFFICES ASSUME TypeOK, StaleIsOwedOrLost, [Next]_vars PROVE StaleIsOwedOrLost'
  OBVIOUS
<1>s. {"findExisting", "insert", "bump", "reread", "softDelete", "dispatch"} \subseteq Steps
  BY DEF Steps
<1>f. ASSUME NEW h \in Handlers, Finish(h)
      PROVE  req'[h] = Idle /\ \A g \in Handlers : g # h => req'[g] = req[g]
  BY <1>f DEF Finish, TypeOK
<1>1. ASSUME NEW h \in Handlers, Begin(h) PROVE StaleIsOwedOrLost'
  <2>1. req[h] = Idle /\ UNCHANGED caches /\ \A g \in Handlers : g # h => req'[g] = req[g]
    BY <1>1 DEF Begin, BeginCreate, BeginStatus, BeginWithdraw, BeginInterview, BeginDeleteCv, TypeOK
  <2>2. Owed(h) = {}
    BY <2>1 DEF Owed
  <2>3. QED
    BY <2>1, <2>2, CachesKept
<1>2. ASSUME NEW h \in Handlers, Continue(h) PROVE StaleIsOwedOrLost'
  <2>1. CASE \/ CreateFindJob(h) \/ CreateFindExisting(h) \/ CreateRefused(h)
             \/ DispatchMail(h) \/ DeleteCvFindApplications(h) \/ DeleteCvDispatch(h)
    <3>1. /\ req[h].pc \notin {"reread", "bump"} /\ UNCHANGED caches /\ req[h] # Idle
          /\ Finish(h) \/ \E s \in Steps : Goto(h, s)
      BY <2>1, <1>s DEF CreateFindJob, CreateFindExisting, CreateRefused, DispatchMail,
        DeleteCvFindApplications, DeleteCvDispatch
    <3>2. Owed(h) = {}
      BY <3>1 DEF Owed
    <3>3. QED
      BY <3>1, <3>2, <1>f, GotoAt, CachesKept
  <2>2. CASE RereadStatus(h)
    <3>1. /\ UNCHANGED caches /\ req[h] # Idle /\ req[h].op = "status" /\ req[h].pc = "reread"
          /\ \E x \in MailedStatuses \cup {"none"} :
               req' = [req EXCEPT ![h] = [req[h] EXCEPT !.pc = "bump", !.seen = x]]
      BY <2>2 DEF RereadStatus
    <3>2. req[h] \in StatusReq
      BY <3>1, RequestKinds DEF TypeOK
    <3>3. PICK x \in MailedStatuses \cup {"none"} :
            req' = [req EXCEPT ![h] = [req[h] EXCEPT !.pc = "bump", !.seen = x]]
      BY <3>1
    <3>4. /\ req'[h] = [req[h] EXCEPT !.pc = "bump", !.seen = x]
          /\ \A g \in Handlers : g # h => req'[g] = req[g]
      BY <3>3 DEF TypeOK
    <3>5. req'[h] \in StatusReq /\ req'[h].op = "status" /\ req'[h].pc = "bump"
      BY <3>2, <3>4 DEF StatusReq, Steps
    <3>6. Owed(h)' = Owed(h)
      BY <3>1, <3>5, ConstantsAssumption DEF Owed, Request
    <3>7. QED
      BY <3>1, <3>4, <3>6, CachesKept
  <2>3. CASE CreateInsert(h) \/ UpdateStatus(h) \/ Withdraw(h) \/ UpdateInterview(h)
    <3>1. /\ req[h] # Idle /\ req[h].pc \notin {"reread", "bump"}
          /\ Goto(h, "reread") \/ Goto(h, "bump")
          /\ stale' = stale \cup Outdates[req[h].op] /\ lost' = lost
      BY <2>3 DEF CreateInsert, UpdateStatus, Withdraw, UpdateInterview, Written
    <3>2. stale' = stale \cup Outdates[req[h].op] \cup {} /\ lost' = lost \cup {}
      BY <3>1
    <3>3. QED
      BY <3>1, <3>2, WriteOwes
  <2>4. CASE DeleteCvSoftDelete(h)
    <3>1. /\ req[h] # Idle /\ req[h].pc \notin {"reread", "bump"} /\ Goto(h, "bump")
          /\ stale' = stale \cup Outdates[req[h].op] \cup Showing(req[h].cv)
          /\ lost' = lost \cup Showing(req[h].cv)
      BY <2>4 DEF DeleteCvSoftDelete
    <3>2. QED
      BY <3>1, WriteOwes
  <2>5. CASE Bump(h)
    <3>1. /\ req[h] # Idle
          /\ Finish(h) \/ Goto(h, "dispatch")
          /\ \/ stale' = stale \ Owed(h) /\ lost' = lost \ Owed(h)
             \/ stale' = stale /\ lost' = lost \cup Owed(h)
      BY <2>5 DEF Bump
    <3>2. \A g \in Handlers : g # h => req'[g] = req[g]
      BY <3>1, <1>f, <1>s, GotoAt
    <3>3. QED
      BY <3>1, <3>2, StaleKept
  <2>6. QED
    BY <1>2, <2>1, <2>2, <2>3, <2>4, <2>5 DEF Continue
<1>3. ASSUME NEW h \in Handlers, Abort(h) PROVE StaleIsOwedOrLost'
  <2>1. stale' = stale /\ lost' = lost \cup Owed(h) /\ Finish(h)
    BY <1>3 DEF Abort
  <2>2. QED
    BY <2>1, <1>f, StaleKept
<1>4. ASSUME NEW c \in Cvs, PurgeCv(c) PROVE StaleIsOwedOrLost'
  <2>1. req' = req /\ \E unbumped : stale' = stale \cup unbumped /\ lost' = lost \cup unbumped
    BY <1>4 DEF PurgeCv
  <2>2. \A h \in Handlers : Owed(h)' = Owed(h)
    BY <2>1 DEF Owed
  <2>3. QED
    BY <2>1, <2>2 DEF StaleIsOwedOrLost
<1>5. CASE (\E j \in Jobs : MoveJob(j)) \/ UNCHANGED vars
  <2>1. UNCHANGED <<req, stale, lost>>
    BY <1>5 DEF MoveJob, vars, caches
  <2>2. \A h \in Handlers : Owed(h)' = Owed(h)
    BY <2>1 DEF Owed
  <2>3. QED
    BY <2>1, <2>2 DEF StaleIsOwedOrLost
<1>6. QED
  BY <1>1, <1>2, <1>3, <1>4, <1>5 DEF Next

\* Whatever else is running, a cache family that shows old data is owed its
\* bump by a handler, or a failure or the end of a CV took the bump away.
THEOREM StaleIsAccountedFor == Spec => []StaleIsOwedOrLost
<1>1. Init => StaleIsOwedOrLost
  BY DEF Init, StaleIsOwedOrLost
<1>2. QED
  BY <1>1, StaleStep, TypeCorrect, PTL DEF Spec

----------------------------------------------------------------------------
\* The empty tables are those of the promise.
LEMMA PromiseInit == Init => Promise!Init
BY DEF Init, Promise!Init, StatusOf, Exists

\* A row written by a justified status is a move of the promise.
LEMMA WriteMoves ==
  ASSUME IInv, NEW a \in AppIds, NEW s \in Statuses, NEW row, Exists(a),
         row.status = s, row # NoRow,
         app' = [app EXCEPT ![a] = row],
         had' = [had EXCEPT ![a] = @ \cup {s}],
         \E t \in had[a] : CanFollow(t, s)
  PROVE  Promise!Move(a, s)
<1>1. app'[a] = row /\ \A b \in AppIds \ {a} : app'[b] = app[b]
  BY DEF IInv, TypeOK
<1>2. StatusOf(a)' = s
  BY <1>1 DEF StatusOf, Exists
<1>3. \A b \in AppIds \ {a} : StatusOf(b)' = StatusOf(b)
  BY <1>1 DEF StatusOf, Exists
<1>4. StatusOf(a) # "none"
  BY DEF IInv, TypeOK, StatusOf, Exists, Row, Statuses
<1>5. [b \in AppIds |-> StatusOf(b)]'
        = [[b \in AppIds |-> StatusOf(b)] EXCEPT ![a] = s]
  BY <1>2, <1>3
<1>6. \A t : CanFollow(t, s) <=> Promise!CanFollow(t, s)
  BY DEF CanFollow, AllowedStatuses, WithdrawableStatuses, Statuses, Promise!CanFollow,
         Promise!AllowedStatuses, Promise!WithdrawableStatuses, Promise!Statuses
<1>7. QED
  BY <1>4, <1>5, <1>6 DEF Promise!Move

\* Every step of a handler is a step of the promise, or leaves it unchanged.
LEMMA PromiseStep == IInv /\ [Next]_vars => [Promise!Next]_(Promise!vars)
<1> SUFFICES ASSUME IInv, [Next]_vars PROVE [Promise!Next]_(Promise!vars)
  OBVIOUS
<1>0. TypeOK
  BY DEF IInv
<1>s. ASSUME UNCHANGED had, \A a \in AppIds : StatusOf(a)' = StatusOf(a)
      PROVE  UNCHANGED Promise!vars
  BY <1>s DEF Promise!vars
<1>k. ASSUME UNCHANGED <<app, had>> PROVE UNCHANGED Promise!vars
  BY <1>k, <1>s DEF StatusOf, Exists
<1>1. ASSUME NEW h \in Handlers, Begin(h) PROVE UNCHANGED Promise!vars
  BY <1>0, <1>1, <1>k, BeginTyped
<1>2. ASSUME NEW h \in Handlers, Continue(h) PROVE [Promise!Next]_(Promise!vars)
  <2>1. CASE CreateInsert(h)
    <3>1. PICK a \in Fresh :
            /\ app' = [app EXCEPT ![a] =
                 [user |-> req[h].user, job |-> req[h].job, cv |-> req[h].cv,
                  status |-> "applied", interview |-> "scheduled"]]
            /\ had' = [had EXCEPT ![a] = {"applied"}]
      BY <2>1 DEF CreateInsert
    <3>2. a \in AppIds /\ had[a] = {}
      BY <3>1 DEF Fresh
    <3>3. /\ app'[a].status = "applied" /\ app'[a] \in Row
          /\ \A b \in AppIds \ {a} : app'[b] = app[b]
      <4>1. TypeOK'
        BY <1>0, <1>2, ContinueTyped
      <4>2. app'[a] = [user |-> req[h].user, job |-> req[h].job, cv |-> req[h].cv,
                       status |-> "applied", interview |-> "scheduled"]
        BY <1>0, <3>1, <3>2 DEF TypeOK
      <4>3. req[h] \in CreateReq
        BY <1>0, <2>1, RequestKinds DEF CreateInsert, TypeOK
      <4>4. app'[a] \in Row
        BY <4>2, <4>3 DEF CreateReq, Row, Statuses, InterviewStatuses
      <4>5. QED
        BY <1>0, <3>1, <3>2, <4>2, <4>4 DEF TypeOK
    <3>4. StatusOf(a)' = "applied"
      BY <3>3, ConstantsAssumption DEF StatusOf, Exists
    <3>5. \A b \in AppIds \ {a} : StatusOf(b)' = StatusOf(b)
      BY <3>3 DEF StatusOf, Exists
    <3>6. [b \in AppIds |-> StatusOf(b)]'
            = [[b \in AppIds |-> StatusOf(b)] EXCEPT ![a] = "applied"]
      BY <3>2, <3>4, <3>5
    <3>7. Promise!Apply(a)
      BY <3>1, <3>2, <3>6 DEF Promise!Apply
    <3>8. QED
      BY <3>2, <3>7 DEF Promise!Next
  <2>2. CASE UpdateStatus(h)
    <3>1. CASE Exists(req[h].app)
      <4> DEFINE a == req[h].app
                 s == req[h].to
                 row == Moved(app[a], s)
      <4>1. /\ a \in AppIds /\ s \in Statuses /\ row # NoRow
            /\ row.status = s
            /\ app' = [app EXCEPT ![a] = row]
            /\ had' = [had EXCEPT ![a] = @ \cup {s}]
            /\ \E t \in had[a] : CanFollow(t, s)
        BY <2>2, <3>1, UpdateWrites, ConstantsAssumption
      <4> HIDE DEF a, s, row
      <4>2. Promise!Move(a, s)
        BY <3>1, <4>1, WriteMoves DEF a
      <4>3. QED
        BY <4>1, <4>2 DEF Promise!Next, Promise!Statuses, Statuses
    <3>2. CASE ~ Exists(req[h].app)
      BY <2>2, <3>2, <1>k DEF UpdateStatus
    <3>3. QED
      BY <3>1, <3>2
  <2>3. CASE Withdraw(h)
    <3>1. CASE Exists(req[h].app)
      <4> DEFINE a == req[h].app
                 row == [app[a] EXCEPT !.status = "withdrawn"]
      <4>1. /\ a \in AppIds /\ "withdrawn" \in Statuses /\ row # NoRow
            /\ row.status = "withdrawn"
            /\ app' = [app EXCEPT ![a] = row]
            /\ had' = [had EXCEPT ![a] = @ \cup {"withdrawn"}]
            /\ \E t \in had[a] : CanFollow(t, "withdrawn")
        BY <2>3, <3>1, WithdrawWrites, ConstantsAssumption
      <4> HIDE DEF a, row
      <4>2. Promise!Move(a, "withdrawn")
        BY <3>1, <4>1, WriteMoves DEF a
      <4>3. QED
        BY <4>1, <4>2 DEF Promise!Next, Promise!Statuses, Statuses
    <3>2. CASE ~ Exists(req[h].app)
      BY <2>3, <3>2, <1>k DEF Withdraw
    <3>3. QED
      BY <3>1, <3>2
  <2>4. CASE UpdateInterview(h)
    <3>1. ASSUME NEW a \in AppIds PROVE StatusOf(a)' = StatusOf(a)
      <4>1. CASE app' = app
        BY <4>1 DEF StatusOf, Exists
      <4>2. CASE app' # app
        <5>1. /\ Exists(req[h].app)
              /\ app' = [app EXCEPT ![req[h].app].interview = req[h].to]
          BY <2>4, <4>2 DEF UpdateInterview
        <5>2. req[h] \in InterviewReq
          BY <1>0, <2>4, RequestKinds DEF UpdateInterview, TypeOK
        <5>3. app[req[h].app] \in Row /\ req[h].to \in InterviewStatuses
          BY <5>1, <5>2, <1>0 DEF TypeOK, Exists, InterviewReq
        <5>4. /\ [app[req[h].app] EXCEPT !.interview = req[h].to] \in Row
              /\ [app[req[h].app] EXCEPT !.interview = req[h].to].status
                   = app[req[h].app].status
          BY <5>3 DEF Row
        <5>5. CASE a = req[h].app
          <6>1. app'[a] = [app[a] EXCEPT !.interview = req[h].to]
            BY <5>1, <5>5, <1>0 DEF TypeOK
          <6>2. QED
            BY <6>1, <5>1, <5>4, <5>5, ConstantsAssumption DEF StatusOf, Exists
        <5>6. CASE a # req[h].app
          BY <5>1, <5>6, <1>0 DEF TypeOK, StatusOf, Exists
        <5>7. QED
          BY <5>5, <5>6
      <4>3. QED
        BY <4>1, <4>2
    <3>2. QED
      BY <2>4, <3>1, <1>s DEF UpdateInterview
  <2>5. CASE UNCHANGED <<app, had>>
    BY <2>5, <1>k
  <2>6. QED
    BY <1>2, <2>1, <2>2, <2>3, <2>4, <2>5
    DEF Continue, CreateFindJob, CreateFindExisting, CreateRefused, RereadStatus,
        DispatchMail, DeleteCvFindApplications, DeleteCvSoftDelete, DeleteCvDispatch,
        Bump, tables
<1>3. ASSUME NEW c \in Cvs, PurgeCv(c) PROVE Promise!Next
  <2>1. \A a \in AppIds : StatusOf(a)' \in {StatusOf(a), "none"}
    BY <1>3 DEF PurgeCv, StatusOf, Exists
  <2>2. \A a \in AppIds : StatusOf(a) \in Statuses \cup {"none"}
    BY <1>0 DEF StatusOf, Exists, TypeOK, Row
  <2>3. Promise!Vanish
    BY <1>3, <2>1, <2>2 DEF Promise!Vanish, PurgeCv, Promise!Statuses, Statuses
  <2>4. QED
    BY <2>3 DEF Promise!Next
<1>4. QED
  BY <1>1, <1>2, <1>3, <1>k DEF Next, Abort, MoveJob, tables, vars

\* The handlers keep the promise: a status is set only because one that it may
\* follow has once been there.
THEOREM Refinement == Spec => KeepsPromise
BY PromiseInit, PromiseStep, Invariance, PTL DEF Spec, KeepsPromise, Promise!Spec

----------------------------------------------------------------------------
(* Requests one at a time *)

\* One request is at work.
Alone == \A g, h \in Handlers : req[g] # Idle /\ req[h] # Idle => g = h

\* A file handed to the storage-delete queue is that of a CV that is gone.
FilesAreGone == \A c \in files : cv[c] # "live"

\* What a handler has read is still so, and its write follows from it.
ReadsAreCurrent ==
  \A h \in Handlers : req[h] # Idle =>
    /\ req[h].op = "create" => cv[req[h].cv] = "live"
    /\ req[h].op = "deleteCv" =>
         /\ req[h].pc = "softDelete" => ~ InUse(req[h].cv)
         /\ req[h].pc \in {"bump", "dispatch"} => cv[req[h].cv] # "live"
    /\ req[h].op = "interview" /\ req[h].pc = "updateInterview" /\ Exists(req[h].app) =>
         app[req[h].app].status = "interview"
    /\ req[h].op = "withdraw" /\ req[h].pc = "updateStatus" /\ Exists(req[h].app) =>
         app[req[h].app].status \in WithdrawableStatuses
    /\ req[h].op = "status" =>
         /\ Exists(req[h].app) /\ cv[app[req[h].app].cv] = "live"
         /\ req[h].pc = "updateStatus" =>
              req[h].to \in AllowedStatuses[app[req[h].app].status]

\* A status that has been written and not yet mailed is still the row's.
MailIsCurrent ==
  \A h \in Handlers : req[h] # Idle /\ req[h].op = "status" /\ req[h].pc # "updateStatus" =>
    /\ req[h].to = app[req[h].app].status
    /\ req[h].to \in MailedStatuses
    /\ req[h].to \notin Range(told[req[h].app])
    /\ req[h].pc \in {"bump", "dispatch"} => req[h].seen = req[h].to

\* A status still ahead of an application is not in its history.
HistoryIsBehind ==
  \A a \in AppIds : Exists(a) =>
    /\ app[a].status = "applied" => had[a] \subseteq {"applied"}
    /\ app[a].status = "interview" => had[a] \subseteq {"applied", "interview"}

\* The handler h is about to mail the status s of the application a.
Announces(h, a, s) ==
  /\ req[h] # Idle /\ req[h].op = "status" /\ req[h].pc # "updateStatus"
  /\ req[h].app = a /\ req[h].to = s

\* Every status worth a mail was mailed or is about to be.
MailsAreComing ==
  \A a \in AppIds :
    /\ \A s \in had[a] \cap MailedStatuses :
         s \in Range(told[a]) \/ \E h \in Handlers : Announces(h, a, s)
    /\ StatusOf(a) \in MailedStatuses =>
         \/ told[a] # <<>> /\ told[a][Len(told[a])] = StatusOf(a)
         \/ \E h \in Handlers : Announces(h, a, StatusOf(a))

MailsAreOnce == \A a \in AppIds : IsInjective(told[a])

\* The inductive invariant of requests that run one at a time.
SequentialInv ==
  /\ Alone
  /\ FilesAreGone
  /\ ReadsAreCurrent
  /\ RunningApplicationKeepsCv
  /\ DecidedInterviewIsCompleted
  /\ HistoryIsBehind
  /\ MailIsCurrent
  /\ MailsAreOnce
  /\ faults = 0 => MailsAreComing

SeqInv == overlapped \/ SequentialInv

----------------------------------------------------------------------------
\* What a handler's local variables are after it goes to a step.
LEMMA GotoKeeps ==
  ASSUME TypeOK, NEW h \in Handlers, req[h] # Idle, NEW s \in Steps, Goto(h, s)
  PROVE  /\ req[h].op \in {"create", "deleteCv"} => req'[h].cv = req[h].cv
         /\ req[h].op \in {"status", "withdraw", "interview"} => req'[h].app = req[h].app
         /\ req[h].op = "status" => req'[h].to = req[h].to /\ req'[h].seen = req[h].seen
<1>1. req[h] \in Request /\ req'[h] = [req[h] EXCEPT !.pc = s]
  BY DEF Goto, TypeOK
<1>2. QED
  BY <1>1, RequestKinds DEF CreateReq, StatusReq, WithdrawReq, InterviewReq, DeleteCvReq

\* While one handler is at work, before and after its step, the others rest.
LEMMA OthersRest ==
  ASSUME Alone, Alone', NEW h \in Handlers, req[h] # Idle \/ req'[h] # Idle,
         \A g \in Handlers : g # h => req'[g] = req[g]
  PROVE  \A g \in Handlers : g # h => req[g] = Idle /\ req'[g] = Idle
BY DEF Alone

\* A new request has just read what its write follows from.
LEMMA BeginInSequence ==
  ASSUME IInv, SequentialInv, Alone', NEW h \in Handlers, Begin(h)
  PROVE  SequentialInv'
<1>1. TypeOK
  BY DEF IInv
<1>2. /\ UNCHANGED <<app, cv, job, had, told, files, stale, lost, faults>>
      /\ \A g \in Handlers : g # h => req'[g] = req[g]
      /\ req[h] = Idle /\ req'[h] \in Request /\ req'[h] # Idle
  <2>1. req[h] = Idle /\ \A g \in Handlers : g # h => req'[g] = req[g]
    BY <1>1 DEF Begin, BeginCreate, BeginStatus, BeginWithdraw, BeginInterview, BeginDeleteCv, TypeOK
  <2>2. req'[h] \in Request \cup {Idle}
    BY <1>1, BeginTyped
  <2>3. req'[h] # Idle
    <3>1. ASSUME NEW u \in Users, NEW j \in Jobs, NEW c \in Cvs, BeginCreate(h, u, j, c)
          PROVE  req'[h] # Idle
      <4>1. [op |-> "create", pc |-> "findJob", user |-> u, job |-> j, cv |-> c] \in Request
        BY DEF Request, CreateReq, Steps
      <4>2. QED
        BY <3>1, <4>1, <1>1, ConstantsAssumption DEF BeginCreate, TypeOK
    <3>2. ASSUME NEW a \in AppIds, NEW s \in Statuses, BeginStatus(h, a, s)
          PROVE  req'[h] # Idle
      <4>1. [op |-> "status", pc |-> "updateStatus", app |-> a, to |-> s, seen |-> "none"]
              \in Request
        BY DEF Request, StatusReq, Steps
      <4>2. QED
        BY <3>2, <4>1, <1>1, ConstantsAssumption DEF BeginStatus, TypeOK
    <3>3. ASSUME NEW a \in AppIds, BeginWithdraw(h, a)
          PROVE  req'[h] # Idle
      <4>1. [op |-> "withdraw", pc |-> "updateStatus", app |-> a] \in Request
        BY DEF Request, WithdrawReq, Steps
      <4>2. QED
        BY <3>3, <4>1, <1>1, ConstantsAssumption DEF BeginWithdraw, TypeOK
    <3>4. ASSUME NEW a \in AppIds, NEW s \in InterviewStatuses, BeginInterview(h, a, s)
          PROVE  req'[h] # Idle
      <4>1. [op |-> "interview", pc |-> "updateInterview", app |-> a, to |-> s] \in Request
        BY DEF Request, InterviewReq, Steps
      <4>2. QED
        BY <3>4, <4>1, <1>1, ConstantsAssumption DEF BeginInterview, TypeOK
    <3>5. ASSUME NEW c \in Cvs, BeginDeleteCv(h, c)
          PROVE  req'[h] # Idle
      <4>1. [op |-> "deleteCv", pc |-> "findApplications", cv |-> c] \in Request
        BY DEF Request, DeleteCvReq, Steps
      <4>2. QED
        BY <3>5, <4>1, <1>1, ConstantsAssumption DEF BeginDeleteCv, TypeOK
    <3>6. QED
      BY <3>1, <3>2, <3>3, <3>4, <3>5 DEF Begin
  <2>4. QED
    BY <1>1, <2>1, <2>2, <2>3, BeginTyped
<1>3. \A g \in Handlers : g # h => req[g] = Idle /\ req'[g] = Idle
  BY <1>2, OthersRest DEF SequentialInv
<1>4. ReadsAreCurrent'
  <2> SUFFICES ASSUME TRUE
      PROVE /\ req'[h].op = "create" => cv[req'[h].cv] = "live"
            /\ req'[h].op = "deleteCv" => req'[h].pc = "findApplications"
            /\ req'[h].op = "interview" =>
                 req'[h].app \in AppIds /\ app[req'[h].app].status = "interview"
            /\ req'[h].op = "withdraw" =>
                 req'[h].app \in AppIds /\ app[req'[h].app].status \in WithdrawableStatuses
            /\ req'[h].op = "status" =>
                 /\ Exists(req'[h].app) /\ cv[app[req'[h].app].cv] = "live"
                 /\ req'[h].to \in AllowedStatuses[app[req'[h].app].status]
    BY <1>2, <1>3 DEF ReadsAreCurrent, Exists, InUse
  <2>1. ASSUME NEW u \in Users, NEW j \in Jobs, NEW c \in Cvs, BeginCreate(h, u, j, c)
        PROVE  req'[h].op = "create" /\ cv[req'[h].cv] = "live"
    BY <2>1, <1>1 DEF BeginCreate, TypeOK
  <2>2. ASSUME NEW a \in AppIds, NEW s \in Statuses, BeginStatus(h, a, s)
        PROVE  /\ req'[h].op = "status"
               /\ Exists(req'[h].app) /\ cv[app[req'[h].app].cv] = "live"
               /\ req'[h].to \in AllowedStatuses[app[req'[h].app].status]
    <3>1. req'[h].op = "status" /\ req'[h].app = a /\ req'[h].to = s
      BY <2>2, <1>1 DEF BeginStatus, TypeOK
    <3>2. Exists(a) /\ s \in AllowedStatuses[app[a].status] /\ app[a].status \in Statuses
      BY <2>2, <1>1 DEF BeginStatus, TypeOK, Exists, Row
    <3>3. app[a].status \in ActiveStatuses
      BY <3>2 DEF AllowedStatuses, ActiveStatuses, Statuses
    <3>4. QED
      BY <3>1, <3>2, <3>3 DEF SequentialInv, RunningApplicationKeepsCv
  <2>3. ASSUME NEW a \in AppIds, BeginWithdraw(h, a)
        PROVE  /\ req'[h].op = "withdraw" /\ req'[h].app \in AppIds
               /\ app[req'[h].app].status \in WithdrawableStatuses
    BY <2>3, <1>1 DEF BeginWithdraw, TypeOK
  <2>4. ASSUME NEW a \in AppIds, NEW s \in InterviewStatuses, BeginInterview(h, a, s)
        PROVE  /\ req'[h].op = "interview" /\ req'[h].app \in AppIds
               /\ app[req'[h].app].status = "interview"
    BY <2>4, <1>1 DEF BeginInterview, TypeOK
  <2>5. ASSUME NEW c \in Cvs, BeginDeleteCv(h, c)
        PROVE  req'[h].op = "deleteCv" /\ req'[h].pc = "findApplications"
    BY <2>5, <1>1 DEF BeginDeleteCv, TypeOK
  <2>6. QED
    BY <2>1, <2>2, <2>3, <2>4, <2>5 DEF Begin
<1>5. MailIsCurrent'
  <2>1. req'[h].op = "status" => req'[h].pc = "updateStatus"
    BY <1>1 DEF Begin, BeginCreate, BeginStatus, BeginWithdraw, BeginInterview, BeginDeleteCv, TypeOK
  <2>2. QED
    BY <2>1, <1>3 DEF MailIsCurrent
<1>6. faults' = 0 => MailsAreComing'
  <2> SUFFICES ASSUME faults' = 0 PROVE MailsAreComing'
    OBVIOUS
  <2>1. MailsAreComing /\ \A g \in Handlers : req[g] = Idle
    BY <1>2, <1>3 DEF SequentialInv
  <2>2. QED
    BY <2>1, <1>2 DEF MailsAreComing, Announces, StatusOf, Exists, Range
<1>7. QED
  BY <1>2, <1>4, <1>5, <1>6
  DEF SequentialInv, FilesAreGone, RunningApplicationKeepsCv, DecidedInterviewIsCompleted,
      HistoryIsBehind, MailsAreOnce, Exists

\* A statement that writes no row, no mail and no file: the handler goes on
\* with what it has read, or ends.
LEMMA QuietInSequence ==
  ASSUME IInv, SequentialInv, Alone', NEW h \in Handlers, req[h] # Idle,
         UNCHANGED <<app, cv, files, had, told>>,
         faults' = 0 => faults = 0,
         \/ Finish(h) /\ (req[h].op = "status" => faults' # 0)
         \/ \E s \in Steps :
              /\ Goto(h, s)
              /\ req[h].op \in {"create", "deleteCv", "status"}
              /\ req[h].op = "deleteCv" =>
                   \/ s = "softDelete" /\ ~ InUse(req[h].cv)
                   \/ s = "dispatch" /\ req[h].pc = "bump"
              /\ req[h].op = "status" => s = "dispatch" /\ req[h].pc = "bump"
  PROVE  SequentialInv'
<1>1. TypeOK
  BY DEF IInv
<1>2. \A g \in Handlers : g # h => req'[g] = req[g]
  BY <1>1 DEF Goto, Finish, TypeOK
<1>3. \A g \in Handlers : g # h => req[g] = Idle /\ req'[g] = Idle
  BY <1>2, OthersRest DEF SequentialInv
<1>4. ReadsAreCurrent' /\ MailIsCurrent' /\ (faults' = 0 => MailsAreComing')
  <2>1. CASE Finish(h) /\ (req[h].op = "status" => faults' # 0)
    <3>1. req'[h] = Idle
      BY <2>1, <1>1 DEF Finish, TypeOK
    <3>2. \A g \in Handlers : req'[g] = Idle
      BY <1>3, <3>1
    <3>3. ReadsAreCurrent' /\ MailIsCurrent'
      BY <3>2 DEF ReadsAreCurrent, MailIsCurrent
    <3>4. ASSUME faults' = 0 PROVE MailsAreComing'
      <4>1. MailsAreComing /\ req[h].op # "status"
        BY <2>1, <3>4 DEF SequentialInv
      <4>2. \A g \in Handlers : \A a, s : ~ Announces(g, a, s)
        BY <4>1, <1>3 DEF Announces
      <4>3. QED
        BY <4>1, <4>2 DEF MailsAreComing, StatusOf, Exists, Range
    <3>5. QED
      BY <3>3, <3>4
  <2>2. ASSUME NEW s \in Steps, Goto(h, s),
               req[h].op \in {"create", "deleteCv", "status"},
               req[h].op = "deleteCv" =>
                 \/ s = "softDelete" /\ ~ InUse(req[h].cv)
                 \/ s = "dispatch" /\ req[h].pc = "bump",
               req[h].op = "status" => s = "dispatch" /\ req[h].pc = "bump"
        PROVE  ReadsAreCurrent' /\ MailIsCurrent' /\ (faults' = 0 => MailsAreComing')
    <3>1. /\ req'[h] # Idle /\ req'[h].pc = s /\ req'[h].op = req[h].op
          /\ req[h].op \in {"create", "deleteCv"} => req'[h].cv = req[h].cv
          /\ req[h].op = "status" => /\ req'[h].app = req[h].app
                                     /\ req'[h].to = req[h].to /\ req'[h].seen = req[h].seen
      BY <2>2, <1>1, GotoAt, GotoKeeps
    <3>2. ReadsAreCurrent'
      BY <3>1, <2>2, <1>3 DEF SequentialInv, ReadsAreCurrent, Exists, InUse
    <3>3. MailIsCurrent'
      <4> SUFFICES ASSUME req[h].op = "status"
                   PROVE  /\ req[h].to = app[req[h].app].status
                          /\ req[h].to \in MailedStatuses
                          /\ req[h].to \notin Range(told[req[h].app])
                          /\ req[h].seen = req[h].to
        BY <3>1, <1>3 DEF MailIsCurrent
      <4>1. req[h].pc = "bump"
        BY <2>2
      <4>2. QED
        BY <4>1 DEF SequentialInv, MailIsCurrent
    <3>4. ASSUME faults' = 0 PROVE MailsAreComing'
      <4>1. MailsAreComing
        BY <3>4 DEF SequentialInv
      <4>2. \A g \in Handlers : \A a, t : Announces(g, a, t) => Announces(g, a, t)'
        BY <3>1, <2>2, <1>3 DEF Announces
      <4>3. QED
        BY <4>1, <4>2 DEF MailsAreComing, StatusOf, Exists, Range
    <3>5. QED
      BY <3>2, <3>3, <3>4
  <2>3. QED
    BY <2>1, <2>2
<1>5. QED
  BY <1>4 DEF SequentialInv, FilesAreGone, RunningApplicationKeepsCv,
      DecidedInterviewIsCompleted, HistoryIsBehind, MailsAreOnce, Exists

\* The INSERT: the candidate's CV is still live, and its history begins.
LEMMA InsertInSequence ==
  ASSUME IInv, SequentialInv, Alone', NEW h \in Handlers, CreateInsert(h)
  PROVE  SequentialInv'
<1>1. TypeOK /\ req[h] # Idle /\ req[h].op = "create" /\ "bump" \in Steps /\ Goto(h, "bump")
  BY DEF IInv, CreateInsert, Steps
<1>2. PICK a \in Fresh :
        /\ app' = [app EXCEPT ![a] =
             [user |-> req[h].user, job |-> req[h].job, cv |-> req[h].cv,
              status |-> "applied", interview |-> "scheduled"]]
        /\ had' = [had EXCEPT ![a] = {"applied"}]
  BY DEF CreateInsert
<1>3. a \in AppIds /\ had[a] = {} /\ UNCHANGED <<cv, files, told, faults>>
  BY <1>2 DEF Fresh, CreateInsert
<1>4. /\ app'[a].cv = req[h].cv /\ app'[a].status = "applied"
      /\ app'[a].interview = "scheduled" /\ had'[a] = {"applied"}
      /\ \A b \in AppIds : b # a => app'[b] = app[b] /\ had'[b] = had[b]
  BY <1>1, <1>2, <1>3 DEF TypeOK
<1>5. /\ req'[h] # Idle /\ req'[h].op = "create" /\ req'[h].cv = req[h].cv
      /\ \A g \in Handlers : g # h => req'[g] = req[g]
  BY <1>1, GotoAt, GotoKeeps
<1>6. \A g \in Handlers : g # h => req[g] = Idle /\ req'[g] = Idle
  BY <1>1, <1>5, OthersRest DEF SequentialInv
<1>7. cv[req[h].cv] = "live" /\ req[h].cv \notin files
  BY <1>1 DEF SequentialInv, ReadsAreCurrent, FilesAreGone
<1>8. ReadsAreCurrent' /\ MailIsCurrent'
  BY <1>3, <1>5, <1>6, <1>7 DEF ReadsAreCurrent, MailIsCurrent
<1>9. RunningApplicationKeepsCv' /\ DecidedInterviewIsCompleted' /\ HistoryIsBehind'
  BY <1>3, <1>4, <1>7 DEF SequentialInv, RunningApplicationKeepsCv,
     DecidedInterviewIsCompleted, HistoryIsBehind, Exists
<1>10. ASSUME faults' = 0 PROVE MailsAreComing'
  <2>1. MailsAreComing
    BY <1>3, <1>10 DEF SequentialInv
  <2>2. \A g \in Handlers : \A b, s : ~ Announces(g, b, s)
    BY <1>1, <1>6 DEF Announces
  <2>3. ASSUME NEW b \in AppIds
        PROVE  /\ \A s \in had'[b] \cap MailedStatuses : s \in Range(told[b])
               /\ StatusOf(b)' \in MailedStatuses =>
                    told[b] # <<>> /\ told[b][Len(told[b])] = StatusOf(b)'
    <3>1. CASE b = a
      <4>1. StatusOf(b)' \in {"applied", "none"}
        BY <1>4, <3>1 DEF StatusOf
      <4>2. QED
        BY <1>4, <3>1, <4>1 DEF MailedStatuses
    <3>2. CASE b # a
      <4>1. StatusOf(b)' = StatusOf(b) /\ had'[b] = had[b]
        BY <1>4, <3>2 DEF StatusOf, Exists
      <4>2. QED
        BY <2>1, <2>2, <4>1 DEF MailsAreComing
    <3>3. QED
      BY <3>1, <3>2
  <2>4. QED
    BY <2>3, <1>3 DEF MailsAreComing
<1>11. QED
  BY <1>3, <1>8, <1>9, <1>10 DEF SequentialInv, FilesAreGone, MailsAreOnce

\* An UPDATE of the status follows what the row still is, is not in its
\* history, and is about to be announced.
LEMMA UpdateInSequence ==
  ASSUME IInv, SequentialInv, Alone', NEW h \in Handlers, UpdateStatus(h)
  PROVE  SequentialInv'
<1>0. PICK a \in AppIds, s \in Statuses : req[h].app = a /\ req[h].to = s
  BY RequestKinds DEF IInv, TypeOK, UpdateStatus, StatusReq
<1>1. /\ TypeOK /\ req[h] # Idle /\ req[h].op = "status" /\ req[h].pc = "updateStatus"
      /\ "reread" \in Steps /\ Goto(h, "reread") /\ UNCHANGED <<cv, files, told, faults>>
  BY DEF IInv, UpdateStatus, Steps
<1>2. /\ Exists(a) /\ cv[app[a].cv] = "live" /\ s \in AllowedStatuses[app[a].status]
  BY <1>0, <1>1 DEF SequentialInv, ReadsAreCurrent
<1>3. /\ Moved(app[a], s) \in Row
      /\ app' = [app EXCEPT ![a] = Moved(app[a], s)]
      /\ had' = [had EXCEPT ![a] = @ \cup {s}]
  BY <1>0, <1>2, UpdateWrites
<1>4. app[a] \in Row /\ app[a].status \in had[a] /\ Range(told[a]) \subseteq had[a]
  BY <1>1, <1>2, <1>3 DEF TypeOK, Exists, IInv, StatusIsRemembered, MailsTellWhatHappened
<1>5. /\ Moved(app[a], s).status = s /\ Moved(app[a], s).cv = app[a].cv
      /\ s # "interview" => Moved(app[a], s).interview = "completed"
  BY <1>3, <1>4 DEF Moved, Row
<1>6. \/ app[a].status = "applied" /\ s \in {"interview", "rejected"}
      \/ app[a].status = "interview" /\ s \in {"accepted", "rejected"}
  BY <1>2, <1>4 DEF AllowedStatuses, Statuses, Row
<1>7. s \in MailedStatuses /\ s \notin had[a] /\ app[a].status \in ActiveStatuses
      /\ (s = "interview" => had[a] \subseteq {"applied"})
  BY <1>2, <1>3, <1>6 DEF MailedStatuses, ActiveStatuses, SequentialInv, HistoryIsBehind
<1>8. /\ app'[a].status = s /\ app'[a].cv = app[a].cv /\ had'[a] = had[a] \cup {s}
      /\ s # "interview" => app'[a].interview = "completed"
      /\ \A b \in AppIds : b # a => app'[b] = app[b] /\ had'[b] = had[b]
      /\ Exists(a)'
  <2>1. app'[a] = Moved(app[a], s) /\ had'[a] = had[a] \cup {s}
        /\ \A b \in AppIds : b # a => app'[b] = app[b] /\ had'[b] = had[b]
    BY <1>1, <1>3 DEF TypeOK
  <2>2. QED
    BY <2>1, <1>3, <1>5, ConstantsAssumption DEF Exists
<1>9. /\ req'[h] # Idle /\ req'[h].op = "status" /\ req'[h].pc = "reread"
      /\ req'[h].app = a /\ req'[h].to = s
      /\ \A g \in Handlers : g # h => req'[g] = req[g]
  BY <1>0, <1>1, GotoAt, GotoKeeps
<1>10. \A g \in Handlers : g # h => req[g] = Idle /\ req'[g] = Idle
  BY <1>1, <1>9, OthersRest DEF SequentialInv
<1>11. s \notin Range(told[a])
  BY <1>4, <1>7
<1>12. cv'[app'[a].cv] = "live" /\ told' = told
  BY <1>1, <1>2, <1>8
<1>13. ReadsAreCurrent' /\ MailIsCurrent'
  <2>1. ReadsAreCurrent'
    BY <1>8, <1>9, <1>10, <1>12 DEF ReadsAreCurrent
  <2>2. MailIsCurrent'
    BY <1>7, <1>8, <1>9, <1>10, <1>11, <1>12 DEF MailIsCurrent
  <2>3. QED
    BY <2>1, <2>2
<1>14. RunningApplicationKeepsCv'
  <2>1. app[a].cv \notin files
    BY <1>2, <1>3, <1>7 DEF SequentialInv, RunningApplicationKeepsCv
  <2>2. QED
    BY <1>1, <1>2, <1>8, <2>1 DEF SequentialInv, RunningApplicationKeepsCv, Exists
<1>15. DecidedInterviewIsCompleted'
  BY <1>8 DEF SequentialInv, DecidedInterviewIsCompleted, Exists
<1>16. HistoryIsBehind'
  <2>1. s # "applied"
    BY <1>6
  <2>2. QED
    BY <1>7, <1>8, <2>1 DEF SequentialInv, HistoryIsBehind, Exists
<1>17. ASSUME faults' = 0 PROVE MailsAreComing'
  <2>1. MailsAreComing
    BY <1>1, <1>17 DEF SequentialInv
  <2>2. \A g \in Handlers : \A b, t : ~ Announces(g, b, t)
    BY <1>1, <1>10 DEF Announces
  <2>3. Announces(h, a, s)'
    BY <1>9 DEF Announces
  <2>4. ASSUME NEW b \in AppIds
        PROVE  /\ \A t \in had'[b] \cap MailedStatuses :
                    t \in Range(told[b]) \/ Announces(h, b, t)'
               /\ StatusOf(b)' \in MailedStatuses =>
                    \/ told[b] # <<>> /\ told[b][Len(told[b])] = StatusOf(b)'
                    \/ Announces(h, b, StatusOf(b))'
    <3>1. CASE b = a
      <4>1. StatusOf(b)' = s /\ had'[b] = had[b] \cup {s}
        BY <1>8, <3>1 DEF StatusOf
      <4>2. QED
        BY <2>1, <2>2, <2>3, <3>1, <4>1 DEF MailsAreComing
    <3>2. CASE b # a
      <4>1. StatusOf(b)' = StatusOf(b) /\ had'[b] = had[b]
        BY <1>8, <3>2 DEF StatusOf, Exists
      <4>2. QED
        BY <2>1, <2>2, <4>1 DEF MailsAreComing
    <3>3. QED
      BY <3>1, <3>2
  <2>5. QED
    BY <2>4, <1>12 DEF MailsAreComing
<1>18. QED
  BY <1>12, <1>1, <1>13, <1>14, <1>15, <1>16, <1>17 DEF SequentialInv, FilesAreGone, MailsAreOnce

\* The row read back is the one just written: its status is announced.
LEMMA RereadInSequence ==
  ASSUME IInv, SequentialInv, Alone', NEW h \in Handlers, RereadStatus(h)
  PROVE  SequentialInv'
<1>0. PICK a \in AppIds, s \in Statuses : req[h].app = a /\ req[h].to = s
  BY RequestKinds DEF IInv, TypeOK, RereadStatus, StatusReq
<1>1. /\ TypeOK /\ req[h] # Idle /\ req[h].op = "status" /\ req[h].pc = "reread"
      /\ UNCHANGED <<app, cv, files, had, told, faults>>
  BY DEF IInv, RereadStatus, tables
<1>2. /\ Exists(a) /\ cv[app[a].cv] = "live" /\ app[a].status = s
      /\ s \in MailedStatuses /\ s \notin Range(told[a])
  BY <1>0, <1>1 DEF SequentialInv, ReadsAreCurrent, MailIsCurrent
<1>3. req' = [req EXCEPT ![h].pc = "bump", ![h].seen = s]
  BY <1>0, <1>2 DEF RereadStatus, StatusOf
<1>4. req[h] \in StatusReq
  BY <1>1, RequestKinds DEF TypeOK
<1>5. req'[h] = [req[h] EXCEPT !.pc = "bump", !.seen = s]
      /\ \A g \in Handlers : g # h => req'[g] = req[g]
  BY <1>1, <1>3 DEF TypeOK
<1>6. /\ req'[h] \in StatusReq /\ req'[h].op = "status" /\ req'[h].pc = "bump"
      /\ req'[h].app = a /\ req'[h].to = s /\ req'[h].seen = s
  BY <1>0, <1>2, <1>4, <1>5 DEF StatusReq, Steps
<1>7. req'[h] # Idle
  BY <1>6, ConstantsAssumption DEF Request
<1>8. \A g \in Handlers : g # h => req[g] = Idle /\ req'[g] = Idle
  BY <1>1, <1>5, OthersRest DEF SequentialInv
<1>9. ReadsAreCurrent'
  BY <1>1, <1>2, <1>6, <1>8 DEF ReadsAreCurrent, Exists
<1>10. MailIsCurrent'
  BY <1>1, <1>2, <1>6, <1>8 DEF MailIsCurrent
<1>11. ASSUME faults' = 0 PROVE MailsAreComing'
  <2>1. MailsAreComing
    BY <1>1, <1>11 DEF SequentialInv
  <2>2. \A g \in Handlers : \A b, t : Announces(g, b, t) => Announces(g, b, t)'
    BY <1>0, <1>6, <1>7, <1>8 DEF Announces
  <2>3. QED
    BY <2>1, <2>2, <1>1 DEF MailsAreComing, StatusOf, Exists
<1>12. QED
  BY <1>1, <1>9, <1>10, <1>11 DEF SequentialInv, FilesAreGone, RunningApplicationKeepsCv,
     DecidedInterviewIsCompleted, HistoryIsBehind, MailsAreOnce, Exists

\* A sequence without repetition takes another element that it does not have.
LEMMA AppendOnce ==
  ASSUME NEW S, NEW q \in Seq(S), NEW m \in S
  PROVE  /\ Append(q, m) # <<>> /\ Append(q, m)[Len(Append(q, m))] = m
         /\ Range(Append(q, m)) = Range(q) \cup {m}
         /\ IsInjective(q) /\ m \notin Range(q) => IsInjective(Append(q, m))
<1>1. /\ Append(q, m) \in Seq(S) /\ Len(Append(q, m)) = Len(q) + 1 /\ Len(q) \in Nat
      /\ DOMAIN q = 1..Len(q) /\ DOMAIN Append(q, m) = 1..(Len(q) + 1)
      /\ Append(q, m)[Len(q) + 1] = m
      /\ \A i \in 1..Len(q) : Append(q, m)[i] = q[i]
  OBVIOUS
<1>2. Range(Append(q, m)) = Range(q) \cup {m}
  <2>1. \A i \in 1..(Len(q) + 1) : i \in 1..Len(q) \/ i = Len(q) + 1
    BY <1>1
  <2>2. QED
    BY <1>1, <2>1 DEF Range
<1>3. IsInjective(q) /\ m \notin Range(q) => IsInjective(Append(q, m))
  <2>1. \A i \in 1..(Len(q) + 1) : i \in 1..Len(q) \/ i = Len(q) + 1
    BY <1>1
  <2>2. \A i \in 1..Len(q) : q[i] \in Range(q)
    BY <1>1 DEF Range
  <2>3. QED
    BY <1>1, <2>1, <2>2 DEF IsInjective
<1>4. QED
  BY <1>1, <1>2, <1>3

\* The mail goes out, for the first time, with the status the row has.
LEMMA MailInSequence ==
  ASSUME IInv, SequentialInv, Alone', NEW h \in Handlers, DispatchMail(h)
  PROVE  SequentialInv'
<1>0. PICK a \in AppIds, s \in Statuses : req[h].app = a /\ req[h].to = s
  BY RequestKinds DEF IInv, TypeOK, DispatchMail, StatusReq
<1>1. /\ TypeOK /\ req[h] # Idle /\ req[h].op = "status" /\ req[h].pc = "dispatch"
      /\ UNCHANGED <<app, cv, files, had, faults>> /\ Finish(h)
  BY DEF IInv, DispatchMail, tables
<1>2. /\ Exists(a) /\ app[a].status = s /\ req[h].seen = s
      /\ s \in MailedStatuses /\ s \notin Range(told[a])
  BY <1>0, <1>1 DEF SequentialInv, ReadsAreCurrent, MailIsCurrent
<1>3. told' = [told EXCEPT ![a] = Append(@, s)]
  BY <1>0, <1>2 DEF DispatchMail, MailedStatuses
<1>4. /\ told[a] \in Seq(MailedStatuses) /\ told'[a] = Append(told[a], s)
      /\ \A b \in AppIds : b # a => told'[b] = told[b]
  BY <1>1, <1>3 DEF TypeOK
<1>5. /\ told'[a] # <<>> /\ told'[a][Len(told'[a])] = s
      /\ Range(told'[a]) = Range(told[a]) \cup {s}
      /\ IsInjective(told[a]) => IsInjective(told'[a])
  BY <1>2, <1>4, AppendOnce
<1>6. req'[h] = Idle /\ \A g \in Handlers : g # h => req'[g] = req[g]
  BY <1>1 DEF Finish, TypeOK
<1>7. \A g \in Handlers : req'[g] = Idle /\ (g # h => req[g] = Idle)
  BY <1>1, <1>6, OthersRest DEF SequentialInv
<1>8. ReadsAreCurrent' /\ MailIsCurrent'
  BY <1>7 DEF ReadsAreCurrent, MailIsCurrent
<1>9. MailsAreOnce'
  BY <1>4, <1>5 DEF SequentialInv, MailsAreOnce
<1>10. ASSUME faults' = 0 PROVE MailsAreComing'
  <2>1. MailsAreComing
    BY <1>1, <1>10 DEF SequentialInv
  <2>2. \A g \in Handlers : \A b, t : Announces(g, b, t) => b = a /\ t = s
    BY <1>0, <1>7 DEF Announces
  <2>3. \A b \in AppIds : StatusOf(b)' = StatusOf(b)
    BY <1>1 DEF StatusOf, Exists
  <2>4. ASSUME NEW b \in AppIds
        PROVE  /\ \A t \in had[b] \cap MailedStatuses : t \in Range(told'[b])
               /\ StatusOf(b) \in MailedStatuses =>
                    told'[b] # <<>> /\ told'[b][Len(told'[b])] = StatusOf(b)
    <3>1. CASE b = a
      <4>1. StatusOf(b) = s
        BY <1>2, <3>1 DEF StatusOf
      <4>2. QED
        BY <1>5, <2>1, <2>2, <3>1, <4>1 DEF MailsAreComing
    <3>2. CASE b # a
      BY <1>4, <2>1, <2>2, <3>2 DEF MailsAreComing
    <3>3. QED
      BY <3>1, <3>2
  <2>5. QED
    BY <2>3, <2>4, <1>1 DEF MailsAreComing
<1>11. QED
  BY <1>1, <1>8, <1>9, <1>10 DEF SequentialInv, FilesAreGone, RunningApplicationKeepsCv,
     DecidedInterviewIsCompleted, HistoryIsBehind, Exists

\* What is about to be announced does not depend on a handler that announces
\* nothing, before or after its step.
LEMMA NothingAnnounced ==
  ASSUME SequentialInv, faults = 0, NEW h \in Handlers,
         req[h] # Idle => req[h].op # "status",
         \A g \in Handlers : g # h => req[g] = Idle,
         UNCHANGED told,
         \A a \in AppIds : /\ had'[a] \cap MailedStatuses \subseteq had[a]
                           /\ StatusOf(a)' \in MailedStatuses => StatusOf(a)' = StatusOf(a)
  PROVE  MailsAreComing'
<1>1. \A g \in Handlers : \A b, t : ~ Announces(g, b, t)
  BY DEF Announces
<1>2. MailsAreComing
  BY DEF SequentialInv
<1>3. ASSUME NEW a \in AppIds
      PROVE  /\ \A s \in had'[a] \cap MailedStatuses : s \in Range(told[a])
             /\ StatusOf(a)' \in MailedStatuses =>
                  told[a] # <<>> /\ told[a][Len(told[a])] = StatusOf(a)'
  BY <1>1, <1>2 DEF MailsAreComing
<1>4. QED
  BY <1>3 DEF MailsAreComing

\* A withdrawal takes back what is still a new application.
LEMMA WithdrawInSequence ==
  ASSUME IInv, SequentialInv, Alone', NEW h \in Handlers, Withdraw(h)
  PROVE  SequentialInv'
<1>0. PICK a \in AppIds : req[h].app = a
  BY RequestKinds DEF IInv, TypeOK, Withdraw, WithdrawReq
<1>1. /\ TypeOK /\ req[h] # Idle /\ req[h].op = "withdraw" /\ req[h].pc = "updateStatus"
      /\ "bump" \in Steps /\ Goto(h, "bump") /\ UNCHANGED <<cv, files, told, faults>>
  BY DEF IInv, Withdraw, Steps
<1>2. /\ req'[h] # Idle /\ req'[h].op = "withdraw" /\ req'[h].pc = "bump"
      /\ \A g \in Handlers : g # h => req'[g] = req[g]
  BY <1>1, GotoAt
<1>3. \A g \in Handlers : g # h => req[g] = Idle /\ req'[g] = Idle
  BY <1>1, <1>2, OthersRest DEF SequentialInv
<1>4. ReadsAreCurrent' /\ MailIsCurrent'
  BY <1>2, <1>3 DEF ReadsAreCurrent, MailIsCurrent
<1>5. /\ \A b \in AppIds : b # a => app'[b] = app[b] /\ had'[b] = had[b]
      /\ \/ app'[a] = app[a] /\ had'[a] = had[a]
         \/ app'[a].status = "withdrawn" /\ had'[a] = had[a] \cup {"withdrawn"}
  <2>1. CASE Exists(a)
    <3>1. /\ app' = [app EXCEPT ![a] = [app[a] EXCEPT !.status = "withdrawn"]]
          /\ had' = [had EXCEPT ![a] = @ \cup {"withdrawn"}]
          /\ [app[a] EXCEPT !.status = "withdrawn"].status = "withdrawn"
      BY <1>0, <2>1, WithdrawWrites
    <3>2. QED
      BY <3>1, <1>1 DEF TypeOK
  <2>2. CASE ~ Exists(a)
    BY <1>0, <2>2 DEF Withdraw
  <2>3. QED
    BY <2>1, <2>2
<1>6. RunningApplicationKeepsCv' /\ DecidedInterviewIsCompleted' /\ HistoryIsBehind'
  BY <1>1, <1>5 DEF SequentialInv, RunningApplicationKeepsCv, ActiveStatuses,
     DecidedInterviewIsCompleted, HistoryIsBehind, Exists
<1>7. ASSUME faults' = 0 PROVE MailsAreComing'
  <2>1. ASSUME NEW b \in AppIds
        PROVE  /\ had'[b] \cap MailedStatuses \subseteq had[b]
               /\ StatusOf(b)' \in MailedStatuses => StatusOf(b)' = StatusOf(b)
    <3>1. StatusOf(b)' \in {StatusOf(b), "withdrawn", "none"}
      BY <1>5 DEF StatusOf, Exists
    <3>2. QED
      BY <3>1, <1>5 DEF MailedStatuses
  <2>2. QED
    BY <2>1, <1>1, <1>3, <1>7, NothingAnnounced
<1>8. QED
  BY <1>1, <1>4, <1>6, <1>7 DEF SequentialInv, FilesAreGone, MailsAreOnce

\* An interview is moved while the application is still at its interview.
LEMMA InterviewInSequence ==
  ASSUME IInv, SequentialInv, Alone', NEW h \in Handlers, UpdateInterview(h)
  PROVE  SequentialInv'
<1>0. PICK a \in AppIds, s \in InterviewStatuses : req[h].app = a /\ req[h].to = s
  BY RequestKinds DEF IInv, TypeOK, UpdateInterview, InterviewReq
<1>1. /\ TypeOK /\ req[h] # Idle /\ req[h].op = "interview" /\ req[h].pc = "updateInterview"
      /\ "bump" \in Steps /\ Goto(h, "bump") /\ UNCHANGED <<cv, files, had, told, faults>>
  BY DEF IInv, UpdateInterview, Steps
<1>2. /\ req'[h] # Idle /\ req'[h].op = "interview" /\ req'[h].pc = "bump"
      /\ \A g \in Handlers : g # h => req'[g] = req[g]
  BY <1>1, GotoAt
<1>3. \A g \in Handlers : g # h => req[g] = Idle /\ req'[g] = Idle
  BY <1>1, <1>2, OthersRest DEF SequentialInv
<1>4. ReadsAreCurrent' /\ MailIsCurrent'
  BY <1>2, <1>3 DEF ReadsAreCurrent, MailIsCurrent
<1>5. \A b \in AppIds :
        \/ app'[b] = app[b]
        \/ /\ Exists(b) /\ Exists(b)' /\ app[b].status = "interview"
           /\ app'[b].status = "interview" /\ app'[b].cv = app[b].cv
  <2>1. CASE Exists(a)
    <3>1. /\ app[a] \in Row /\ app[a].status = "interview"
          /\ app' = [app EXCEPT ![a] = [app[a] EXCEPT !.interview = s]]
      BY <1>0, <1>1, <2>1 DEF UpdateInterview, SequentialInv, ReadsAreCurrent, TypeOK, Exists
    <3>2. /\ [app[a] EXCEPT !.interview = s] \in Row
          /\ [app[a] EXCEPT !.interview = s].status = "interview"
          /\ [app[a] EXCEPT !.interview = s].cv = app[a].cv
      BY <3>1 DEF Row
    <3>3. app'[a] = [app[a] EXCEPT !.interview = s]
          /\ \A b \in AppIds : b # a => app'[b] = app[b]
      BY <3>1, <1>1 DEF TypeOK
    <3>4. QED
      BY <2>1, <3>1, <3>2, <3>3, ConstantsAssumption DEF Exists
  <2>2. CASE ~ Exists(a)
    BY <1>0, <2>2 DEF UpdateInterview
  <2>3. QED
    BY <2>1, <2>2
<1>6. RunningApplicationKeepsCv' /\ DecidedInterviewIsCompleted' /\ HistoryIsBehind'
  <2>1. RunningApplicationKeepsCv'
    BY <1>1, <1>5 DEF SequentialInv, RunningApplicationKeepsCv, Exists
  <2>2. DecidedInterviewIsCompleted'
    BY <1>1, <1>5 DEF SequentialInv, DecidedInterviewIsCompleted, Exists
  <2>3. HistoryIsBehind'
    BY <1>1, <1>5 DEF SequentialInv, HistoryIsBehind, Exists
  <2>4. QED
    BY <2>1, <2>2, <2>3
<1>7. ASSUME faults' = 0 PROVE MailsAreComing'
  <2>1. \A b \in AppIds : StatusOf(b)' = StatusOf(b)
    BY <1>5 DEF StatusOf, Exists
  <2>2. QED
    BY <2>1, <1>1, <1>3, <1>7, NothingAnnounced
<1>8. QED
  BY <1>1, <1>4, <1>6, <1>7 DEF SequentialInv, FilesAreGone, MailsAreOnce

\* A CV and its file go after the applications were looked at.
LEMMA DeleteInSequence ==
  ASSUME IInv, SequentialInv, Alone', NEW h \in Handlers,
         DeleteCvSoftDelete(h) \/ DeleteCvDispatch(h)
  PROVE  SequentialInv'
<1>0. PICK c \in Cvs : req[h].cv = c
  BY RequestKinds DEF IInv, TypeOK, DeleteCvSoftDelete, DeleteCvDispatch, DeleteCvReq
<1>1. /\ TypeOK /\ req[h] # Idle /\ req[h].op = "deleteCv"
      /\ UNCHANGED <<app, had, told, faults>>
  BY DEF IInv, DeleteCvSoftDelete, DeleteCvDispatch, tables
<1>2. /\ \A g \in Handlers : g # h => req'[g] = req[g]
      /\ \/ req'[h] = Idle
         \/ /\ req'[h] # Idle /\ req'[h].op = "deleteCv" /\ req'[h].cv = c
            /\ req'[h].pc = "bump" /\ cv'[c] = "deleted"
  <2>1. CASE DeleteCvSoftDelete(h)
    <3>1. Goto(h, "bump") /\ "bump" \in Steps /\ cv'[c] = "deleted"
      BY <1>0, <1>1, <2>1 DEF DeleteCvSoftDelete, Steps, TypeOK
    <3>2. QED
      BY <1>0, <1>1, <3>1, GotoAt, GotoKeeps
  <2>2. CASE DeleteCvDispatch(h)
    BY <1>1, <2>2 DEF DeleteCvDispatch, Finish, TypeOK
  <2>3. QED
    BY <2>1, <2>2
<1>3. \A g \in Handlers : g # h => req[g] = Idle /\ req'[g] = Idle
  BY <1>1, <1>2, OthersRest DEF SequentialInv
<1>4. ReadsAreCurrent' /\ MailIsCurrent'
  BY <1>2, <1>3 DEF ReadsAreCurrent, MailIsCurrent
<1>5. FilesAreGone' /\ RunningApplicationKeepsCv'
  <2>1. CASE DeleteCvSoftDelete(h)
    <3>1. cv' = [cv EXCEPT ![c] = "deleted"] /\ files' = files /\ ~ InUse(c)
      BY <1>0, <1>1, <2>1 DEF DeleteCvSoftDelete, SequentialInv, ReadsAreCurrent
    <3>2. \A d \in Cvs : cv'[d] = IF d = c THEN "deleted" ELSE cv[d]
      BY <3>1, <1>1 DEF TypeOK
    <3>3. \A a \in AppIds : Exists(a) => app[a].cv \in Cvs
      BY <1>1 DEF TypeOK, Exists, Row
    <3>4. QED
      BY <1>1, <3>1, <3>2, <3>3
      DEF SequentialInv, FilesAreGone, RunningApplicationKeepsCv, InUse, Exists, TypeOK
  <2>2. CASE DeleteCvDispatch(h)
    <3>1. cv' = cv /\ files' = files \cup {c} /\ cv[c] # "live"
      BY <1>0, <1>1, <2>2 DEF DeleteCvDispatch, tables, SequentialInv, ReadsAreCurrent
    <3>2. QED
      BY <1>1, <3>1 DEF SequentialInv, FilesAreGone, RunningApplicationKeepsCv, Exists
  <2>3. QED
    BY <2>1, <2>2
<1>6. ASSUME faults' = 0 PROVE MailsAreComing'
  <2>1. \A b \in AppIds : StatusOf(b)' = StatusOf(b)
    BY <1>1 DEF StatusOf, Exists
  <2>2. QED
    BY <2>1, <1>1, <1>3, <1>6, NothingAnnounced
<1>7. QED
  BY <1>1, <1>4, <1>5, <1>6 DEF SequentialInv, DecidedInterviewIsCompleted,
     HistoryIsBehind, MailsAreOnce, Exists

\* The clean-up takes CVs that no running application shows.
LEMMA PurgeInSequence ==
  ASSUME IInv, SequentialInv, Alone', NEW c \in Cvs, PurgeCv(c)
  PROVE  SequentialInv'
<1>1. /\ TypeOK /\ UNCHANGED <<req, had, told, files, faults>> /\ cv[c] = "deleted"
      /\ \A d \in Cvs : cv'[d] = IF d = c THEN "purged" ELSE cv[d]
      /\ \A h \in Handlers :
           req[h] # Idle /\ req[h].op \in {"create", "deleteCv"} => req[h].cv # c
      /\ \A a \in AppIds : app'[a] = IF Exists(a) /\ app[a].cv = c THEN NoRow ELSE app[a]
  BY DEF IInv, PurgeCv, TypeOK
<1>2. /\ \A a \in AppIds : Exists(a) => app[a].cv \in Cvs
      /\ \A h \in Handlers : req[h] # Idle => req[h] \in Request
      /\ files \subseteq Cvs
  BY <1>1 DEF TypeOK, Exists, Row
<1>3. /\ \A h \in Handlers : req[h] # Idle /\ req[h].op \in {"create", "deleteCv"} =>
                               req[h].cv \in Cvs
      /\ \A h \in Handlers : req[h] # Idle /\ req[h].op \in {"status", "withdraw", "interview"} =>
                               req[h].app \in AppIds
  BY <1>2, RequestKinds DEF CreateReq, StatusReq, WithdrawReq, InterviewReq, DeleteCvReq
<1>4. ASSUME NEW a \in AppIds
      PROVE  /\ Exists(a)' => Exists(a) /\ app'[a] = app[a] /\ cv'[app[a].cv] = cv[app[a].cv]
             /\ Exists(a) /\ cv[app[a].cv] = "live" => Exists(a)'
             /\ StatusOf(a)' \in {StatusOf(a), "none"}
  BY <1>1, <1>2 DEF Exists, StatusOf
<1>5. \A d \in Cvs : InUse(d)' => InUse(d)
  BY <1>4 DEF InUse
<1>6. ReadsAreCurrent'
  <2> SUFFICES ASSUME NEW h \in Handlers, req[h] # Idle
      PROVE /\ req[h].op = "create" => cv'[req[h].cv] = "live"
            /\ req[h].op = "deleteCv" =>
                 /\ req[h].pc = "softDelete" => ~ InUse(req[h].cv)'
                 /\ req[h].pc \in {"bump", "dispatch"} => cv'[req[h].cv] # "live"
            /\ req[h].op = "interview" /\ req[h].pc = "updateInterview" /\ Exists(req[h].app)' =>
                 app'[req[h].app].status = "interview"
            /\ req[h].op = "withdraw" /\ req[h].pc = "updateStatus" /\ Exists(req[h].app)' =>
                 app'[req[h].app].status \in WithdrawableStatuses
            /\ req[h].op = "status" =>
                 /\ Exists(req[h].app)' /\ cv'[app'[req[h].app].cv] = "live"
                 /\ req[h].pc = "updateStatus" =>
                      req[h].to \in AllowedStatuses[app'[req[h].app].status]
    BY <1>1 DEF ReadsAreCurrent
  <2>1. CASE req[h].op \in {"create", "deleteCv"}
    BY <2>1, <1>1, <1>3, <1>5 DEF SequentialInv, ReadsAreCurrent, InUse, Exists
  <2>2. CASE req[h].op \in {"status", "withdraw", "interview"}
    <3>1. PICK a \in AppIds : req[h].app = a
      BY <2>2, <1>3
    <3>2. QED
      BY <2>2, <3>1, <1>1, <1>4 DEF SequentialInv, ReadsAreCurrent, Exists
  <2>3. QED
    BY <2>1, <2>2, <1>2, RequestKinds
<1>7. MailIsCurrent'
  <2> SUFFICES ASSUME NEW h \in Handlers, req[h] # Idle, req[h].op = "status",
                      req[h].pc # "updateStatus"
               PROVE  /\ req[h].to = app'[req[h].app].status
                      /\ req[h].to \in MailedStatuses
                      /\ req[h].to \notin Range(told[req[h].app])
                      /\ req[h].pc \in {"bump", "dispatch"} => req[h].seen = req[h].to
    BY <1>1 DEF MailIsCurrent
  <2>1. app'[req[h].app] = app[req[h].app]
    BY <1>1, <1>3, <1>4 DEF SequentialInv, ReadsAreCurrent
  <2>2. QED
    BY <2>1 DEF SequentialInv, MailIsCurrent
<1>8. FilesAreGone' /\ RunningApplicationKeepsCv' /\ DecidedInterviewIsCompleted' /\ HistoryIsBehind'
  <2>1. FilesAreGone'
    BY <1>1, <1>2 DEF SequentialInv, FilesAreGone
  <2>2. RunningApplicationKeepsCv' /\ DecidedInterviewIsCompleted' /\ HistoryIsBehind'
    BY <1>1, <1>4 DEF SequentialInv, RunningApplicationKeepsCv,
       DecidedInterviewIsCompleted, HistoryIsBehind
  <2>3. QED
    BY <2>1, <2>2
<1>9. ASSUME faults' = 0 PROVE MailsAreComing'
  <2>1. MailsAreComing
    BY <1>1, <1>9 DEF SequentialInv
  <2>2. \A h \in Handlers : \A a, s : Announces(h, a, s)' <=> Announces(h, a, s)
    BY <1>1 DEF Announces
  <2>3. \A a \in AppIds : StatusOf(a)' \in MailedStatuses => StatusOf(a)' = StatusOf(a)
    BY <1>4 DEF MailedStatuses
  <2>4. QED
    BY <2>1, <2>2, <2>3, <1>1 DEF MailsAreComing
<1>10. QED
  BY <1>1, <1>6, <1>7, <1>8, <1>9 DEF SequentialInv, MailsAreOnce

\* No statement of the handler at work breaks the invariant.
LEMMA ContinueInSequence ==
  ASSUME IInv, SequentialInv, Alone', NEW h \in Handlers, Continue(h)
  PROVE  SequentialInv'
<1>1. TypeOK /\ faults \in Nat
  BY ConstantsAssumption DEF IInv, TypeOK
<1>2. {"findExisting", "insert", "softDelete", "dispatch"} \subseteq Steps
  BY DEF Steps
<1>3. CASE CreateFindJob(h) \/ CreateFindExisting(h) \/ CreateRefused(h)
  <2>1. /\ req[h] # Idle /\ req[h].op = "create"
        /\ UNCHANGED <<app, cv, files, had, told, faults>>
        /\ Finish(h) \/ \E s \in Steps : Goto(h, s)
    BY <1>2, <1>3 DEF CreateFindJob, CreateFindExisting, CreateRefused, tables
  <2>2. QED
    BY <2>1, QuietInSequence
<1>4. CASE DeleteCvFindApplications(h)
  <2>1. /\ req[h] # Idle /\ req[h].op = "deleteCv"
        /\ UNCHANGED <<app, cv, files, had, told, faults>>
        /\ Finish(h) \/ (Goto(h, "softDelete") /\ ~ InUse(req[h].cv))
    BY <1>4 DEF DeleteCvFindApplications, tables
  <2>2. QED
    BY <2>1, <1>2, QuietInSequence
<1>5. CASE Bump(h)
  <2>1. /\ req[h] # Idle /\ req[h].pc = "bump"
        /\ UNCHANGED <<app, cv, files, had, told>>
        /\ faults' = 0 => faults = 0
        /\ IF req[h].op \in {"status", "deleteCv"} THEN Goto(h, "dispatch") ELSE Finish(h)
    BY <1>1, <1>5 DEF Bump, tables
  <2>2. QED
    BY <2>1, <1>2, QuietInSequence
<1>6. QED
  BY <1>3, <1>4, <1>5, InsertInSequence, UpdateInSequence, RereadInSequence,
     MailInSequence, WithdrawInSequence, InterviewInSequence, DeleteInSequence DEF Continue

\* A step after which still one request at a time has run preserves the
\* invariant.
LEMMA SequentialStep ==
  ASSUME IInv, SeqInv, [MCNext]_<<vars, overlapped>>
  PROVE  SeqInv'
<1>1. SUFFICES ASSUME ~ overlapped' PROVE SequentialInv'
  BY DEF SeqInv
<1>2. CASE MCNext
  <2>1. SequentialInv /\ Alone' /\ Next
    BY <1>1, <1>2 DEF MCNext, SeqInv, Alone, Busy
  <2>2. ASSUME NEW h \in Handlers, Abort(h) PROVE SequentialInv'
    <3>1. /\ req[h] # Idle /\ Finish(h) /\ UNCHANGED <<app, cv, files, had, told>>
          /\ faults' # 0
      BY <2>2, ConstantsAssumption DEF Abort, tables, IInv, TypeOK
    <3>2. QED
      BY <2>1, <3>1, QuietInSequence
  <2>3. ASSUME NEW j \in Jobs, MoveJob(j) PROVE SequentialInv'
    <3>1. UNCHANGED <<app, cv, req, had, told, files, faults>>
      BY <2>3 DEF MoveJob
    <3>2. QED
      BY <2>1, <3>1
      DEF SequentialInv, Alone, FilesAreGone, ReadsAreCurrent, InUse, Exists, Range,
          RunningApplicationKeepsCv, DecidedInterviewIsCompleted, HistoryIsBehind,
          MailIsCurrent, MailsAreOnce, MailsAreComing, Announces, StatusOf
  <2>4. QED
    BY <2>1, <2>2, <2>3, BeginInSequence, ContinueInSequence, PurgeInSequence DEF Next
<1>3. CASE UNCHANGED <<vars, overlapped>>
  <2>1. SequentialInv
    BY <1>1, <1>3 DEF SeqInv
  <2>2. UNCHANGED <<app, cv, req, had, told, files, faults>>
    BY <1>3 DEF vars
  <2>3. QED
    BY <2>1, <2>2
    DEF SequentialInv, Alone, FilesAreGone, ReadsAreCurrent, InUse, Exists, Range,
        RunningApplicationKeepsCv, DecidedInterviewIsCompleted, HistoryIsBehind,
        MailIsCurrent, MailsAreOnce, MailsAreComing, Announces, StatusOf
<1>4. QED
  BY <1>2, <1>3

\* Empty tables agree with each other.
LEMMA SequentialInit == Init => SequentialInv
BY DEF Init, SequentialInv, Alone, FilesAreGone, ReadsAreCurrent, Exists, Range,
       RunningApplicationKeepsCv, DecidedInterviewIsCompleted, HistoryIsBehind,
       MailIsCurrent, MailsAreOnce, MailsAreComing, Announces, StatusOf, IsInjective,
       MailedStatuses

\* Both invariants hold as long as requests run one at a time.
THEOREM InSequence == MCSpec => [](IInv /\ SeqInv)
<1>1. MCInit => IInv /\ SeqInv
  BY SafeInit, SequentialInit DEF MCInit, SeqInv
<1>2. IInv /\ SeqInv /\ [MCNext]_<<vars, overlapped>> => IInv' /\ SeqInv'
  <2> SUFFICES ASSUME IInv, SeqInv, [MCNext]_<<vars, overlapped>>
               PROVE  IInv' /\ SeqInv'
    OBVIOUS
  <2>1. [Next]_vars
    BY DEF MCNext
  <2>2. QED
    BY <2>1, SafeStep, SequentialStep
<1>3. QED
  BY <1>1, <1>2, PTL DEF MCSpec

\* Requests that run one at a time leave the CV of a running application live,
\* its file in place, and the interview of a decided application completed.
THEOREM RowsAgree == MCSpec => []RowsAgreeInSequence
<1>1. SeqInv => RowsAgreeInSequence
  BY DEF SeqInv, SequentialInv, RowsAgreeInSequence
<1>2. QED
  BY <1>1, InSequence, PTL

\* Requests that run one at a time, none of which fails, mail every status
\* worth a mail once, and the status the application has last.
THEOREM MailsMatch == MCSpec => []MailsMatchStatusInSequence
<1>1. SeqInv => MailsMatchStatusInSequence
  <2> SUFFICES ASSUME SequentialInv, faults = 0, \A h \in Handlers : req[h] = Idle
               PROVE  \A a \in AppIds :
                        /\ IsInjective(told[a])
                        /\ had[a] \cap MailedStatuses \subseteq Range(told[a])
                        /\ StatusOf(a) \in MailedStatuses =>
                             told[a][Len(told[a])] = StatusOf(a)
    BY DEF SeqInv, MailsMatchStatusInSequence, MailsMatchStatus
  <2>1. \A h \in Handlers : \A a, s : ~ Announces(h, a, s)
    BY DEF Announces
  <2>2. QED
    BY <2>1 DEF SequentialInv, MailsAreOnce, MailsAreComing
<1>2. QED
  BY <1>1, InSequence, PTL

\* Requests that run one at a time move a status along the recruiter's table
\* or by the candidate's withdrawal, and never from a decision.
THEOREM StatusFollows == MCSpec => StatusFollowsTableInSequence
<1>1. ASSUME IInv, SeqInv, [MCNext]_<<vars, overlapped>>
      PROVE  [overlapped \/ \A a \in AppIds :
                LET s == StatusOf(a)
                    t == StatusOf(a)'
                IN  s # t /\ "none" \notin {s, t} => CanFollow(s, t)]_vars
  <2> SUFFICES ASSUME SequentialInv, Next, NEW a \in AppIds,
                      StatusOf(a) # StatusOf(a)', StatusOf(a) # "none", StatusOf(a)' # "none"
               PROVE  CanFollow(StatusOf(a), StatusOf(a)')
    BY <1>1 DEF SeqInv, MCNext
  <2>1. TypeOK
    BY <1>1 DEF IInv
  <2>2. Exists(a) /\ StatusOf(a) = app[a].status /\ app'[a] # app[a]
    BY DEF StatusOf, Exists
  <2>3. ASSUME NEW h \in Handlers, Continue(h)
        PROVE  CanFollow(StatusOf(a), StatusOf(a)')
    <3>1. CASE UpdateStatus(h)
      <4>1. Exists(req[h].app) /\ req[h].to \in AllowedStatuses[app[req[h].app].status]
        BY <3>1 DEF UpdateStatus, SequentialInv, ReadsAreCurrent
      <4>2. /\ req[h].app \in AppIds /\ Moved(app[req[h].app], req[h].to).status = req[h].to
            /\ app' = [app EXCEPT ![req[h].app] = Moved(app[req[h].app], req[h].to)]
        BY <1>1, <3>1, <4>1, UpdateWrites
      <4>3. a = req[h].app /\ app'[a].status = req[h].to
        BY <2>1, <2>2, <4>2 DEF TypeOK
      <4>4. StatusOf(a)' = req[h].to
        BY <4>3 DEF StatusOf
      <4>5. QED
        BY <2>2, <4>1, <4>3, <4>4 DEF CanFollow
    <3>2. CASE Withdraw(h)
      <4>1. Exists(req[h].app)
        BY <2>2, <3>2 DEF Withdraw
      <4>2. app[req[h].app].status \in WithdrawableStatuses
        BY <3>2, <4>1 DEF Withdraw, SequentialInv, ReadsAreCurrent
      <4>3. /\ req[h].app \in AppIds
            /\ [app[req[h].app] EXCEPT !.status = "withdrawn"].status = "withdrawn"
            /\ app' = [app EXCEPT ![req[h].app] = [app[req[h].app] EXCEPT !.status = "withdrawn"]]
        BY <1>1, <3>2, <4>1, WithdrawWrites
      <4>4. a = req[h].app /\ app'[a].status = "withdrawn"
        BY <2>1, <2>2, <4>3 DEF TypeOK
      <4>5. StatusOf(a)' = "withdrawn"
        BY <4>4 DEF StatusOf
      <4>6. QED
        BY <2>2, <4>2, <4>4, <4>5 DEF CanFollow
    <3>3. CASE UpdateInterview(h)
      <4>1. /\ Exists(req[h].app)
            /\ app' = [app EXCEPT ![req[h].app].interview = req[h].to]
        BY <2>2, <3>3 DEF UpdateInterview
      <4>2. req[h] \in InterviewReq
        BY <2>1, <3>3, RequestKinds DEF UpdateInterview, TypeOK
      <4>3. app[req[h].app] \in Row
        BY <4>1, <4>2, <2>1 DEF TypeOK, Exists, InterviewReq
      <4>4. [app[req[h].app] EXCEPT !.interview = req[h].to].status = app[req[h].app].status
        BY <4>3 DEF Row
      <4>5. app'[a] = app[a] \/ app'[a].status = app[a].status
        BY <2>1, <4>1, <4>4 DEF TypeOK
      <4>6. QED
        BY <2>2, <4>5 DEF StatusOf
    <3>4. CASE CreateInsert(h)
      <4>1. a \notin Fresh
        BY <1>1, <2>2 DEF Fresh, IInv, StatusIsRemembered
      <4>2. QED
        BY <2>1, <2>2, <3>4, <4>1 DEF CreateInsert, TypeOK, Fresh
    <3>5. CASE app' = app
      BY <2>2, <3>5
    <3>6. QED
      BY <2>3, <3>1, <3>2, <3>3, <3>4, <3>5
      DEF Continue, CreateFindJob, CreateFindExisting, CreateRefused, RereadStatus,
          DispatchMail, DeleteCvFindApplications, DeleteCvSoftDelete, DeleteCvDispatch,
          Bump, tables
  <2>4. ASSUME NEW c \in Cvs, PurgeCv(c) PROVE FALSE
    <3>1. app'[a] = NoRow
      BY <2>2, <2>4 DEF PurgeCv
    <3>2. QED
      BY <3>1 DEF StatusOf, Exists
  <2>5. app' # app
    BY <2>2
  <2>6. QED
    BY <2>1, <2>3, <2>4, <2>5, BeginTyped DEF Next, Abort, MoveJob, tables
<1>2. QED
  BY <1>1, InSequence, PTL DEF MCSpec, StatusFollowsTableInSequence
=============================================================================
