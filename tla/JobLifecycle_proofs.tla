------------------------ MODULE JobLifecycle_proofs -------------------------
(***************************************************************************)
(* Whatever requests and cron passes overlap, no job is published without  *)
(* review, and none is turned down or closed without a reason.             *)
(***************************************************************************)
EXTENDS MCJobLifecycle, TLAPS

\* A write that publishes, closes or expires a job, or lets somebody apply to
\* it, is planned for approved jobs only.  So a plan may be as stale as it
\* likes: approval is never taken back.
PlansAreApproved ==
  \A h \in Handlers :
    /\ plan[h].op = "update" /\ plan[h].status = "open"
         => plan[h].job \in approved
    /\ plan[h].op = "review" /\ plan[h].status = "closed"
         => plan[h].job \in approved
    /\ plan[h].op = "expire" => plan[h].jobs \subseteq approved
    /\ plan[h].op = "apply" => plan[h].job \in approved

IInv == TypeOK /\ PublishedWasApproved /\ PlansAreApproved /\ ReasonIsGiven

----------------------------------------------------------------------------
(* Plans *)

\* What the operation of a plan tells of the rest of it.
LEMMA PlanShape ==
  ASSUME NEW p \in Plans
  PROVE  /\ p.op \in {"idle", "update", "delete", "review", "expire", "apply"}
         /\ p = Idle <=> p.op = "idle"
         /\ p.op = "update" =>
              /\ p.job \in Jobs
              /\ p.date \in {"keep", "future", "unset"}
              /\ p.status \in {"keep", "draft", "pending", "open"}
         /\ p.op = "review" =>
              p.job \in Jobs /\ p.status \in {"open", "rejected", "closed"}
         /\ p.op \in {"delete", "apply"} => p.job \in Jobs
         /\ p.op = "expire" => p.jobs \in (SUBSET Jobs) \ {{}}
BY DEF Plans, Idle

\* An update plans to write "open" for an expired job only.
LEMMA NewStatusOpens ==
  ASSUME NEW old \in Statuses, NEW submit \in BOOLEAN, NEW extend \in BOOLEAN
  PROVE  /\ NewStatus(old, submit, extend)
              \in {"keep", "draft", "pending", "open"}
         /\ NewStatus(old, submit, extend) = "open" => old = "expired"
BY DEF NewStatus, Statuses

\* A handler that begins plans what it may plan.
LEMMA BeginInv ==
  ASSUME IInv, NEW h \in Handlers, NEW p \in Plans, Begin(h, p),
         p.op = "update" /\ p.status = "open" => p.job \in approved,
         p.op = "review" /\ p.status = "closed" => p.job \in approved,
         p.op = "expire" => p.jobs \subseteq approved,
         p.op = "apply" => p.job \in approved
  PROVE  IInv'
<1> USE DEF IInv, TypeOK, Begin, row
<1>1. TypeOK'
  OBVIOUS
<1>2. PublishedWasApproved' /\ ReasonIsGiven'
  BY DEF PublishedWasApproved, ReasonIsGiven
<1>3. PlansAreApproved'
  BY DEF PlansAreApproved
<1> QED
  BY <1>1, <1>2, <1>3

\* Existing jobs have a status.
LEMMA ExistingHasStatus ==
  ASSUME TypeOK, NEW j \in Existing
  PROVE  j \in Jobs /\ status[j] \in Statuses
BY DEF TypeOK, Existing

\* A request that begins reads the job it decides about.
LEMMA RequestInv ==
  ASSUME IInv, NEW h \in Handlers, NEW j \in Jobs, Request(h, j)
  PROVE  IInv'
<1>1. CASE BeginUpdate(h, j)
  <2>1. PICK submit \in BOOLEAN, date \in {"keep", "future", "unset"} :
          Begin(h, [op |-> "update", job |-> j, date |-> date,
                    status |-> NewStatus(status[j], submit, date = "future")])
    BY <1>1 DEF BeginUpdate
  <2> DEFINE s == NewStatus(status[j], submit, date = "future")
             p == [op |-> "update", job |-> j, date |-> date, status |-> s]
  <2>2. status[j] \in Statuses
    BY <1>1, ExistingHasStatus DEF BeginUpdate, IInv
  <2>3. /\ s \in {"keep", "draft", "pending", "open"}
        /\ s = "open" => status[j] = "expired"
    BY <2>2, NewStatusOpens
  <2>4. s = "open" => j \in approved
    BY <2>3 DEF IInv, PublishedWasApproved
  <2>5. p \in Plans
    BY <2>3 DEF Plans
  <2> QED
    BY <2>1, <2>4, <2>5, BeginInv
<1>2. CASE BeginDelete(h, j)
  <2> DEFINE p == [op |-> "delete", job |-> j]
  <2>1. p \in Plans /\ Begin(h, p)
    BY <1>2 DEF Plans, BeginDelete
  <2> QED
    BY <2>1, BeginInv
<1>3. CASE BeginApply(h, j)
  <2> DEFINE p == [op |-> "apply", job |-> j]
  <2>1. p \in Plans /\ Begin(h, p)
    BY <1>3 DEF Plans, BeginApply
  <2>2. j \in approved
    BY <1>3 DEF BeginApply, IInv, PublishedWasApproved
  <2> QED
    BY <2>1, <2>2, BeginInv
<1>4. ASSUME NEW to \in {"open", "rejected", "closed"}, BeginReview(h, j, to)
      PROVE  IInv'
  <2> DEFINE p == [op |-> "review", job |-> j, status |-> to]
  <2>1. p \in Plans /\ Begin(h, p)
    BY <1>4 DEF Plans, BeginReview
  <2>2. to = "closed" => j \in approved
    BY <1>4 DEF BeginReview, ReviewTarget, IInv, PublishedWasApproved
  <2> QED
    BY <2>1, <2>2, BeginInv
<1> QED
  BY <1>1, <1>2, <1>3, <1>4 DEF Request

\* A cron pass that begins has read open jobs.
LEMMA PassInv ==
  ASSUME IInv, NEW h \in Handlers, FindOverdue(h)
  PROVE  IInv'
<1>1. PICK b \in SUBSET Overdue :
        b # {} /\ Begin(h, [op |-> "expire", jobs |-> b])
  BY DEF FindOverdue
<1> DEFINE p == [op |-> "expire", jobs |-> b]
<1>2. b \subseteq Jobs /\ b \subseteq approved
  BY <1>1 DEF Overdue, Existing, IInv, PublishedWasApproved
<1>3. p \in Plans
  BY <1>1, <1>2 DEF Plans
<1> QED
  BY <1>1, <1>2, <1>3, BeginInv

----------------------------------------------------------------------------
(* Writes *)

\* A handler that ends, or throws, leaves no plan of its own, and the plans
\* of the others stay approved.
LEMMA PlanDropped ==
  ASSUME IInv, NEW h \in Handlers, plan' = [plan EXCEPT ![h] = Idle],
         approved \subseteq approved'
  PROVE  plan' \in [Handlers -> Plans] /\ PlansAreApproved'
<1>1. plan' \in [Handlers -> Plans]
  BY DEF IInv, TypeOK, Plans
<1>2. PlansAreApproved'
  BY DEF IInv, TypeOK, PlansAreApproved, Idle
<1> QED
  BY <1>1, <1>2

\* A write preserves the invariant.
LEMMA FinishInv ==
  ASSUME IInv, NEW h \in Handlers, Finish(h)
  PROVE  IInv'
<1> DEFINE p == plan[h]
<1>0. p \in Plans
  BY DEF IInv, TypeOK
<1> USE DEF IInv, TypeOK, row, Statuses
<1>1. CASE Update(h)
  <2>1. /\ p.op = "update" /\ plan' = [plan EXCEPT ![h] = Idle]
        /\ UNCHANGED <<deleted, reasons, applied, approved, faults>>
    BY <1>1 DEF Update, End
  <2>2. /\ p.job \in Jobs
        /\ p.date \in {"keep", "future", "unset"}
        /\ p.status \in {"keep", "draft", "pending", "open"}
    BY <1>0, <2>1, PlanShape
  <2>3. plan' \in [Handlers -> Plans] /\ PlansAreApproved'
    BY <2>1, PlanDropped
  <2>4. \/ status' = status
        \/ status' = [status EXCEPT ![p.job] = p.status] /\ p.status # "keep"
    BY <1>1 DEF Update
  <2>5. \/ expiry' = expiry
        \/ expiry' = [expiry EXCEPT ![p.job] = p.date] /\ p.date # "keep"
    BY <1>1 DEF Update
  <2>6. p.status = "open" => p.job \in approved
    BY <2>1 DEF PlansAreApproved
  <2>7. status' \in [Jobs -> Statuses \cup {"none"}]
    BY <2>2, <2>4
  <2>8. expiry' \in [Jobs -> {"unset", "future", "past"}]
    BY <2>2, <2>5
  <2>9. TypeOK'
    BY <2>1, <2>3, <2>7, <2>8
  <2>10. PublishedWasApproved'
    BY <2>1, <2>2, <2>4, <2>6 DEF PublishedWasApproved
  <2>11. ReasonIsGiven'
    BY <2>1, <2>2, <2>4 DEF ReasonIsGiven
  <2> QED
    BY <2>3, <2>9, <2>10, <2>11
<1>2. CASE Delete(h)
  <2>1. /\ p.op = "delete" /\ plan' = [plan EXCEPT ![h] = Idle]
        /\ deleted' = deleted \cup {p.job}
        /\ UNCHANGED <<status, expiry, reasons, applied, approved, faults>>
    BY <1>2 DEF Delete, End
  <2>2. p.job \in Jobs
    BY <1>0, <2>1, PlanShape
  <2>3. plan' \in [Handlers -> Plans] /\ PlansAreApproved'
    BY <2>1, PlanDropped
  <2>4. TypeOK'
    BY <2>1, <2>2, <2>3
  <2>5. PublishedWasApproved' /\ ReasonIsGiven'
    BY <2>1 DEF PublishedWasApproved, ReasonIsGiven
  <2> QED
    BY <2>3, <2>4, <2>5
<1>3. CASE Review(h)
  <2>1. /\ p.op = "review" /\ plan' = [plan EXCEPT ![h] = Idle]
        /\ status' = [status EXCEPT ![p.job] = p.status]
        /\ reasons' = [reasons EXCEPT ![p.job] =
                         @ \cup ({p.status} \cap {"rejected", "closed"})]
        /\ approved' = IF p.status = "open" THEN approved \cup {p.job}
                       ELSE approved
        /\ UNCHANGED <<deleted, expiry, applied, faults>>
    BY <1>3 DEF Review, End
  <2>2. p.job \in Jobs /\ p.status \in {"open", "rejected", "closed"}
    BY <1>0, <2>1, PlanShape
  <2>3. approved \subseteq approved' /\ approved' \subseteq Jobs
    BY <2>1, <2>2
  <2>4. plan' \in [Handlers -> Plans] /\ PlansAreApproved'
    BY <2>1, <2>3, PlanDropped
  <2>5. reasons' \in [Jobs -> SUBSET {"rejected", "closed"}]
    BY <2>1, <2>2
  <2>6. TypeOK'
    BY <2>1, <2>2, <2>3, <2>4, <2>5
  <2>7. p.status \in {"open", "closed"} => p.job \in approved'
    BY <2>1, <2>3 DEF PlansAreApproved
  <2>8. PublishedWasApproved'
    BY <2>1, <2>2, <2>3, <2>7 DEF PublishedWasApproved
  <2>9. ReasonIsGiven'
    BY <2>1, <2>2 DEF ReasonIsGiven
  <2> QED
    BY <2>4, <2>6, <2>8, <2>9
<1>4. CASE Apply(h)
  <2>1. /\ p.op = "apply" /\ plan' = [plan EXCEPT ![h] = Idle]
        /\ applied' = applied \cup {p.job}
        /\ UNCHANGED <<row, approved, faults>>
    BY <1>4 DEF Apply, End
  <2>2. p.job \in Jobs /\ p.job \in approved
    BY <1>0, <2>1, PlanShape DEF PlansAreApproved
  <2>3. plan' \in [Handlers -> Plans] /\ PlansAreApproved'
    BY <2>1, PlanDropped
  <2>4. TypeOK'
    BY <2>1, <2>2, <2>3
  <2>5. PublishedWasApproved' /\ ReasonIsGiven'
    BY <2>1, <2>2 DEF PublishedWasApproved, ReasonIsGiven
  <2> QED
    BY <2>3, <2>4, <2>5
<1>5. CASE ExpireOne(h)
  <2>1. PICK j \in p.jobs :
          /\ status' = [status EXCEPT ![j] = "expired"]
          /\ plan' = [plan EXCEPT ![h] =
               IF p.jobs \ {j} = {} THEN Idle
               ELSE [op |-> "expire", jobs |-> p.jobs \ {j}]]
    BY <1>5 DEF ExpireOne
  <2>2. /\ p.op = "expire"
        /\ UNCHANGED <<deleted, expiry, reasons, applied, approved, faults>>
    BY <1>5 DEF ExpireOne
  <2>3. p.jobs \in (SUBSET Jobs) \ {{}}
    BY <1>0, <2>2, PlanShape
  <2>4. p.jobs \subseteq Jobs /\ p.jobs \subseteq approved
    BY <2>2, <2>3 DEF PlansAreApproved
  <2> DEFINE rest == [op |-> "expire", jobs |-> p.jobs \ {j}]
  <2>5. p.jobs \ {j} # {} => rest \in Plans
    BY <2>4 DEF Plans
  <2>6. \/ plan' = [plan EXCEPT ![h] = Idle]
        \/ plan' = [plan EXCEPT ![h] = rest] /\ rest \in Plans
    BY <2>1, <2>5
  <2>7. plan' \in [Handlers -> Plans] /\ PlansAreApproved'
    <3>1. CASE plan' = [plan EXCEPT ![h] = Idle]
      BY <2>2, <3>1, PlanDropped
    <3>2. CASE plan' = [plan EXCEPT ![h] = rest] /\ rest \in Plans
      BY <2>2, <2>4, <3>2 DEF PlansAreApproved
    <3> QED
      BY <2>6, <3>1, <3>2
  <2>8. TypeOK'
    BY <2>1, <2>2, <2>4, <2>7
  <2>9. PublishedWasApproved' /\ ReasonIsGiven'
    BY <2>1, <2>2, <2>4 DEF PublishedWasApproved, ReasonIsGiven
  <2> QED
    BY <2>7, <2>8, <2>9
<1> QED
  BY <1>1, <1>2, <1>3, <1>4, <1>5 DEF Finish

\* A creation, the passing of a date and a failure preserve it.
LEMMA OtherInv ==
  ASSUME IInv,
         \/ \E j \in Jobs : CreateJob(j) \/ Tick(j)
         \/ \E h \in Handlers : Throw(h)
  PROVE  IInv'
<1> USE DEF IInv, TypeOK, row, Statuses
<1>1. ASSUME NEW j \in Jobs, CreateJob(j) PROVE IInv'
  <2>1. PICK submit \in BOOLEAN, e \in {"unset", "future"} :
          /\ status' = [status EXCEPT ![j] =
                          IF submit THEN "pending" ELSE "draft"]
          /\ expiry' = [expiry EXCEPT ![j] = e]
    BY <1>1 DEF CreateJob
  <2>2. UNCHANGED <<deleted, reasons, applied, approved, plan, faults>>
    BY <1>1 DEF CreateJob
  <2>3. TypeOK'
    BY <2>1, <2>2
  <2>4. PublishedWasApproved' /\ PlansAreApproved' /\ ReasonIsGiven'
    BY <2>1, <2>2 DEF PublishedWasApproved, PlansAreApproved, ReasonIsGiven
  <2> QED
    BY <2>3, <2>4
<1>2. ASSUME NEW j \in Jobs, Tick(j) PROVE IInv'
  <2>1. /\ expiry' = [expiry EXCEPT ![j] = "past"]
        /\ UNCHANGED <<status, deleted, reasons, applied, approved, plan,
                       faults>>
    BY <1>2 DEF Tick
  <2> QED
    BY <2>1 DEF PublishedWasApproved, PlansAreApproved, ReasonIsGiven
<1>3. ASSUME NEW h \in Handlers, Throw(h) PROVE IInv'
  <2>1. /\ plan' = [plan EXCEPT ![h] = Idle]
        /\ UNCHANGED <<row, applied, approved>>
    BY <1>3 DEF Throw
  <2>2. faults' \in 0..MaxFaults
    BY <1>3, ConstantsAssumption DEF Throw
  <2>3. plan' \in [Handlers -> Plans] /\ PlansAreApproved'
    BY <2>1, PlanDropped
  <2> QED
    BY <2>1, <2>2, <2>3 DEF PublishedWasApproved, ReasonIsGiven
<1> QED
  BY <1>1, <1>2, <1>3

----------------------------------------------------------------------------
(* The theorems *)

\* The invariant holds before anything has happened.
LEMMA InitInv == Init => IInv
<1> SUFFICES ASSUME Init PROVE IInv
  OBVIOUS
<1>1. TypeOK
  BY ConstantsAssumption DEF Init, TypeOK, Plans
<1>2. PublishedWasApproved /\ PlansAreApproved /\ ReasonIsGiven
  BY DEF Init, PublishedWasApproved, PlansAreApproved, ReasonIsGiven, Idle
<1> QED
  BY <1>1, <1>2 DEF IInv

\* Every step preserves the invariant.
LEMMA StepInv == IInv /\ [Next]_vars => IInv'
<1> SUFFICES ASSUME IInv, [Next]_vars PROVE IInv'
  OBVIOUS
<1>1. CASE UNCHANGED vars
  BY <1>1 DEF vars, row, IInv, TypeOK, PublishedWasApproved,
    PlansAreApproved, ReasonIsGiven
<1>2. CASE Next
  BY <1>2, RequestInv, PassInv, FinishInv, OtherInv DEF Next, Handlers
<1> QED
  BY <1>1, <1>2

\* The invariant holds in every state.
THEOREM Invariance == Spec => []IInv
BY InitInv, StepInv, PTL DEF Spec

\* Rows and plans have their types in every state.
THEOREM TypeCorrect == Spec => []TypeOK
BY Invariance, PTL DEF IInv

\* Nothing is published, or applied to, that no administrator has approved.
THEOREM NothingUnreviewed == Spec => []PublishedWasApproved
BY Invariance, PTL DEF IInv

\* A rejected or closed job has its reason.
THEOREM ReasonKept == Spec => []ReasonIsGiven
BY Invariance, PTL DEF IInv

----------------------------------------------------------------------------
(* Handlers one at a time *)

\* One handler is at work.
Alone == \A g, h \in Handlers : plan[g] # Idle /\ plan[h] # Idle => g = h

\* What a handler has read is still so, but for a date that has passed since.
PlansAreCurrent ==
  \A h \in Handlers :
    LET p == plan[h] IN
    /\ p.op = "update" =>
         /\ status[p.job] # "none"
         /\ status[p.job] # "draft" => p.date # "unset"
         /\ p.status = "keep" => /\ status[p.job] # "draft"
                                 /\ p.date = "keep" \/ status[p.job] # "expired"
         /\ p.status \in {"draft", "pending"} => status[p.job] = "draft"
         /\ p.status = "pending" => p.date # "unset" /\ (p.date = "keep" => expiry[p.job] # "unset")
         /\ p.status = "open" => status[p.job] = "expired" /\ p.date = "future"
    /\ p.op = "delete" => status[p.job] = "draft"
    /\ p.op = "review" =>
         status[p.job] = (IF p.status = "closed" THEN "open" ELSE "pending")
    /\ p.op = "expire" =>
         \A j \in p.jobs : status[j] = "open" /\ expiry[j] = "past"
    /\ p.op = "apply" => status[p.job] = "open" /\ p.job \notin deleted

\* Nobody has applied to a job before it was created.
AppliedIsCreated == \A j \in applied : status[j] # "none"

\* The inductive invariant of handlers that run one at a time.
SequentialInv ==
  /\ Alone
  /\ PlansAreCurrent
  /\ AppliedIsCreated
  /\ PublishedIsDated
  /\ ExpiredIsPast
  /\ UnreviewedHasNoApplications

SeqInv == overlapped \/ SequentialInv

----------------------------------------------------------------------------
\* While one handler is at work, before and after its step, the others rest,
\* and what they plan says nothing.
LEMMA OthersRest ==
  ASSUME Alone, Alone', NEW h \in Handlers, plan[h] # Idle \/ plan'[h] # Idle,
         \A g \in Handlers : g # h => plan'[g] = plan[g]
  PROVE  \A g \in Handlers : g # h => plan'[g] = Idle /\ plan'[g].op = "idle"
BY DEF Alone, Idle

\* What is said of rows stays true while no row changes.
LEMMA RowsKept ==
  ASSUME SequentialInv, UNCHANGED <<row, applied>>
  PROVE  AppliedIsCreated' /\ PublishedIsDated' /\ ExpiredIsPast' /\ UnreviewedHasNoApplications'
BY DEF SequentialInv, row, AppliedIsCreated, PublishedIsDated, ExpiredIsPast,
       UnreviewedHasNoApplications

\* A handler that begins plans what follows from the row it has read.
LEMMA BeginInSequence ==
  ASSUME IInv, SequentialInv, Alone', NEW h \in Handlers,
         (\E j \in Jobs : Request(h, j)) \/ FindOverdue(h)
  PROVE  SequentialInv'
<1>1. /\ UNCHANGED <<row, applied>> /\ plan[h] = Idle
      /\ \A g \in Handlers : g # h => plan'[g] = plan[g]
      /\ plan'[h] # Idle
  <2>1. PICK p : Begin(h, p) /\ p.op # "idle"
    <3>1. ASSUME NEW j \in Jobs, BeginUpdate(h, j) PROVE \E p : Begin(h, p) /\ p.op # "idle"
      BY <3>1 DEF BeginUpdate
    <3>2. ASSUME NEW j \in Jobs, BeginDelete(h, j) PROVE \E p : Begin(h, p) /\ p.op # "idle"
      BY <3>2 DEF BeginDelete
    <3>3. ASSUME NEW j \in Jobs, BeginApply(h, j) PROVE \E p : Begin(h, p) /\ p.op # "idle"
      BY <3>3 DEF BeginApply
    <3>4. ASSUME NEW j \in Jobs, NEW to \in {"open", "rejected", "closed"}, BeginReview(h, j, to)
          PROVE  \E p : Begin(h, p) /\ p.op # "idle"
      BY <3>4 DEF BeginReview
    <3>5. CASE FindOverdue(h)
      BY <3>5 DEF FindOverdue
    <3>6. QED
      BY <3>1, <3>2, <3>3, <3>4, <3>5 DEF Request
  <2>2. QED
    BY <2>1 DEF Begin, IInv, TypeOK, Idle, row
<1>2. \A g \in Handlers : g # h => plan'[g] = Idle /\ plan'[g].op = "idle"
  BY <1>1, OthersRest DEF SequentialInv
<1>3. PlansAreCurrent'
  <2>1. ASSUME NEW j \in Jobs, BeginUpdate(h, j) PROVE PlansAreCurrent'
    <3>1. PICK submit \in BOOLEAN, date \in {"keep", "future", "unset"} :
            /\ status[j] # "draft" \/ submit =>
                 (IF date = "keep" THEN expiry[j] ELSE date) # "unset"
            /\ Begin(h, [op |-> "update", job |-> j, date |-> date,
                         status |-> NewStatus(status[j], submit, date = "future")])
      BY <2>1 DEF BeginUpdate
    <3>2. PICK s : s = NewStatus(status[j], submit, date = "future")
      OBVIOUS
    <3>3. status[j] \in Statuses \ {"closed", "rejected"}
      BY <2>1, ExistingHasStatus DEF BeginUpdate, IInv
    <3>4. /\ status[j] # "none"
          /\ status[j] # "draft" => date # "unset"
          /\ s = "keep" => status[j] # "draft" /\ (date # "future" \/ status[j] # "expired")
          /\ s \in {"draft", "pending"} => status[j] = "draft"
          /\ s = "pending" => date # "unset" /\ (date = "keep" => expiry[j] # "unset")
          /\ s = "open" => status[j] = "expired" /\ date = "future"
      BY <3>1, <3>2, <3>3 DEF NewStatus, Statuses
    <3>5. plan'[h] = [op |-> "update", job |-> j, date |-> date, status |-> s]
      BY <3>1, <3>2 DEF Begin, IInv, TypeOK
    <3>6. /\ plan'[h].op = "update" /\ plan'[h].job = j /\ plan'[h].date = date
          /\ plan'[h].status = s
      BY <3>5
    <3>7. QED
      BY <1>1, <1>2, <3>4, <3>6 DEF PlansAreCurrent, row
  <2>2. ASSUME NEW j \in Jobs, BeginDelete(h, j) PROVE PlansAreCurrent'
    <3>1. plan'[h].op = "delete" /\ plan'[h].job = j /\ status[j] = "draft"
      BY <2>2 DEF BeginDelete, Begin, IInv, TypeOK
    <3>2. QED
      BY <1>1, <1>2, <3>1 DEF PlansAreCurrent, row
  <2>3. ASSUME NEW j \in Jobs, BeginApply(h, j) PROVE PlansAreCurrent'
    <3>1. plan'[h].op = "apply" /\ plan'[h].job = j /\ status[j] = "open" /\ j \notin deleted
      BY <2>3 DEF BeginApply, Begin, IInv, TypeOK, Existing
    <3>2. QED
      BY <1>1, <1>2, <3>1 DEF PlansAreCurrent, row
  <2>4. ASSUME NEW j \in Jobs, NEW to \in {"open", "rejected", "closed"}, BeginReview(h, j, to)
        PROVE  PlansAreCurrent'
    <3>1. /\ plan'[h].op = "review" /\ plan'[h].job = j /\ plan'[h].status = to
          /\ status[j] = (IF to = "closed" THEN "open" ELSE "pending")
      BY <2>4 DEF BeginReview, ReviewTarget, Begin, IInv, TypeOK
    <3>2. QED
      BY <1>1, <1>2, <3>1 DEF PlansAreCurrent, row
  <2>5. CASE FindOverdue(h)
    <3>1. PICK b \in SUBSET Overdue : Begin(h, [op |-> "expire", jobs |-> b])
      BY <2>5 DEF FindOverdue
    <3>2. plan'[h].op = "expire" /\ plan'[h].jobs = b
      BY <3>1 DEF Begin, IInv, TypeOK
    <3>3. \A j \in b : status[j] = "open" /\ expiry[j] = "past"
      BY <3>1 DEF Overdue
    <3>4. QED
      BY <1>1, <1>2, <3>2, <3>3 DEF PlansAreCurrent, row
  <2>6. QED
    BY <2>1, <2>2, <2>3, <2>4, <2>5 DEF Request
<1>4. QED
  BY <1>1, <1>3, RowsKept DEF SequentialInv

\* A handler that has ended plans nothing, and so nothing stale.
LEMMA EndsInSequence ==
  ASSUME IInv, SequentialInv, Alone', NEW h \in Handlers, plan[h] # Idle,
         plan' = [plan EXCEPT ![h] = Idle]
  PROVE  PlansAreCurrent'
<1>1. plan'[h] = Idle /\ \A g \in Handlers : g # h => plan'[g] = plan[g]
  BY DEF IInv, TypeOK
<1>2. \A g \in Handlers : plan'[g].op = "idle"
  BY <1>1, OthersRest DEF SequentialInv, Idle
<1>3. QED
  BY <1>2 DEF PlansAreCurrent

\* A write follows from what the row still is.
LEMMA FinishInSequence ==
  ASSUME IInv, SequentialInv, Alone', NEW h \in Handlers, Finish(h)
  PROVE  /\ SequentialInv'
         /\ \A j \in Jobs : status'[j] # status[j] => Follows(status[j], status'[j])
<1>0. TypeOK /\ plan[h] \in Plans /\ applied \subseteq Jobs
  BY DEF IInv, TypeOK
<1>1. CASE Update(h)
  <2>1. PICK p \in Plans : p = plan[h]
    BY <1>0
  <2>2. /\ p.op = "update" /\ plan' = [plan EXCEPT ![h] = Idle]
        /\ UNCHANGED <<deleted, applied>>
    BY <1>1, <2>1 DEF Update, End
  <2>3. PICK k \in Jobs : k = p.job
    BY <2>1, <2>2, PlanShape
  <2>4. /\ p.date \in {"keep", "future", "unset"}
        /\ p.status \in {"keep", "draft", "pending", "open"} /\ p # Idle
    BY <2>2, PlanShape
  <2>5. /\ status[k] # "draft" => p.date # "unset"
        /\ p.status = "keep" => /\ status[k] # "draft"
                                /\ p.date = "keep" \/ status[k] # "expired"
        /\ p.status \in {"draft", "pending"} => status[k] = "draft"
        /\ p.status = "pending" => p.date # "unset" /\ (p.date = "keep" => expiry[k] # "unset")
        /\ p.status = "open" => status[k] = "expired" /\ p.date = "future"
    BY <2>1, <2>2, <2>3 DEF SequentialInv, PlansAreCurrent
  <2>6. \A j \in Jobs : status'[j] = IF j = k /\ p.status # "keep" THEN p.status ELSE status[j]
    <3>1. CASE p.status = "keep"
      BY <1>1, <2>1, <3>1 DEF Update
    <3>2. CASE p.status # "keep"
      BY <1>0, <1>1, <2>1, <2>3, <3>2 DEF Update, TypeOK
    <3>3. QED
      BY <3>1, <3>2
  <2>7. \A j \in Jobs : expiry'[j] = IF j = k /\ p.date # "keep" THEN p.date ELSE expiry[j]
    <3>1. CASE p.date = "keep"
      BY <1>1, <2>1, <3>1 DEF Update
    <3>2. CASE p.date # "keep"
      BY <1>0, <1>1, <2>1, <2>3, <3>2 DEF Update, TypeOK
    <3>3. QED
      BY <3>1, <3>2
  <2>8. PlansAreCurrent'
    BY <2>1, <2>2, <2>4, EndsInSequence
  <2>9. PublishedIsDated' /\ ExpiredIsPast'
    <3>1. PublishedIsDated'
      BY <2>4, <2>5, <2>6, <2>7 DEF SequentialInv, PublishedIsDated
    <3>2. ExpiredIsPast'
      BY <2>4, <2>5, <2>6, <2>7 DEF SequentialInv, ExpiredIsPast
    <3>3. QED
      BY <3>1, <3>2
  <2>10. AppliedIsCreated' /\ UnreviewedHasNoApplications'
    BY <1>0, <2>2, <2>4, <2>5, <2>6
    DEF SequentialInv, AppliedIsCreated, UnreviewedHasNoApplications
  <2>11. \A j \in Jobs : status'[j] # status[j] => Follows(status[j], status'[j])
    BY <2>4, <2>5, <2>6 DEF Follows
  <2>12. QED
    BY <2>8, <2>9, <2>10, <2>11 DEF SequentialInv
<1>2. CASE Delete(h)
  <2>1. /\ plan[h].op = "delete" /\ plan' = [plan EXCEPT ![h] = Idle]
        /\ deleted' = deleted \cup {plan[h].job} /\ plan[h] # Idle
        /\ UNCHANGED <<status, expiry, applied>>
    BY <1>2 DEF Delete, End, Idle
  <2>2. PlansAreCurrent'
    BY <2>1, EndsInSequence
  <2>3. status[plan[h].job] = "draft"
    BY <2>1 DEF SequentialInv, PlansAreCurrent
  <2>4. QED
    BY <2>1, <2>2, <2>3
    DEF SequentialInv, AppliedIsCreated, PublishedIsDated, ExpiredIsPast,
        UnreviewedHasNoApplications
<1>3. CASE Review(h)
  <2>1. PICK p \in Plans : p = plan[h]
    BY <1>0
  <2>2. /\ p.op = "review" /\ plan' = [plan EXCEPT ![h] = Idle]
        /\ status' = [status EXCEPT ![p.job] = p.status]
        /\ UNCHANGED <<deleted, expiry, applied>>
    BY <1>3, <2>1 DEF Review, End
  <2>3. PICK k \in Jobs : k = p.job
    BY <2>1, <2>2, PlanShape
  <2>4. /\ p.status \in {"open", "rejected", "closed"} /\ p # Idle
    BY <2>2, PlanShape
  <2>5. status[k] = IF p.status = "closed" THEN "open" ELSE "pending"
    BY <2>1, <2>2, <2>3 DEF SequentialInv, PlansAreCurrent
  <2>6. \A j \in Jobs : status'[j] = IF j = k THEN p.status ELSE status[j]
    BY <1>0, <2>2, <2>3 DEF TypeOK
  <2>7. PlansAreCurrent'
    BY <2>1, <2>2, <2>4, EndsInSequence
  <2>8. PublishedIsDated' /\ ExpiredIsPast'
    BY <2>2, <2>4, <2>5, <2>6 DEF SequentialInv, PublishedIsDated, ExpiredIsPast
  <2>9. AppliedIsCreated' /\ UnreviewedHasNoApplications'
    BY <1>0, <2>2, <2>4, <2>5, <2>6
    DEF SequentialInv, AppliedIsCreated, UnreviewedHasNoApplications
  <2>10. \A j \in Jobs : status'[j] # status[j] => Follows(status[j], status'[j])
    BY <2>4, <2>5, <2>6 DEF Follows
  <2>11. QED
    BY <2>7, <2>8, <2>9, <2>10 DEF SequentialInv
<1>4. CASE Apply(h)
  <2>1. /\ plan[h].op = "apply" /\ plan' = [plan EXCEPT ![h] = Idle]
        /\ applied' = applied \cup {plan[h].job} /\ plan[h] # Idle
        /\ UNCHANGED <<status, expiry, deleted>>
    BY <1>4 DEF Apply, End, Idle, row
  <2>2. PlansAreCurrent'
    BY <2>1, EndsInSequence
  <2>3. status[plan[h].job] = "open" /\ plan[h].job \notin deleted
    BY <2>1 DEF SequentialInv, PlansAreCurrent
  <2>4. QED
    BY <2>1, <2>2, <2>3
    DEF SequentialInv, AppliedIsCreated, PublishedIsDated, ExpiredIsPast,
        UnreviewedHasNoApplications
<1>5. CASE ExpireOne(h)
  <2>1. plan[h].op = "expire" /\ UNCHANGED <<deleted, expiry, applied>> /\ plan[h] # Idle
    BY <1>5 DEF ExpireOne, Idle
  <2>2. plan[h].jobs \subseteq Jobs
    BY <1>0, <2>1, PlanShape
  <2>3. PICK k \in plan[h].jobs :
          /\ status' = [status EXCEPT ![k] = "expired"]
          /\ plan' = [plan EXCEPT ![h] =
               IF plan[h].jobs \ {k} = {} THEN Idle
               ELSE [op |-> "expire", jobs |-> plan[h].jobs \ {k}]]
    BY <1>5 DEF ExpireOne
  <2>4. \A j \in plan[h].jobs : j \in Jobs /\ status[j] = "open" /\ expiry[j] = "past"
    BY <2>1, <2>2 DEF SequentialInv, PlansAreCurrent
  <2>5. \A j \in Jobs : status'[j] = IF j = k THEN "expired" ELSE status[j]
    BY <1>0, <2>2, <2>3 DEF TypeOK
  <2>6. PlansAreCurrent'
    <3>1. \A g \in Handlers : g # h => plan'[g] = plan[g]
      BY <2>3 DEF IInv, TypeOK
    <3>2. \A g \in Handlers : g # h => plan'[g].op = "idle"
      BY <2>1, <3>1, OthersRest DEF SequentialInv
    <3>3. CASE plan[h].jobs \ {k} = {}
      BY <2>1, <2>3, <3>3, EndsInSequence
    <3>4. CASE plan[h].jobs \ {k} # {}
      <4>1. plan'[h] = [op |-> "expire", jobs |-> plan[h].jobs \ {k}]
        BY <2>3, <3>4 DEF IInv, TypeOK
      <4>2. plan'[h].op = "expire" /\ plan'[h].jobs = plan[h].jobs \ {k}
        BY <4>1
      <4>3. \A j \in plan'[h].jobs : status'[j] = "open" /\ expiry'[j] = "past"
        BY <2>1, <2>4, <2>5, <4>2
      <4>4. QED
        BY <3>2, <4>2, <4>3 DEF PlansAreCurrent
    <3>5. QED
      BY <3>3, <3>4
  <2>7. PublishedIsDated' /\ ExpiredIsPast'
    BY <2>1, <2>4, <2>5 DEF SequentialInv, PublishedIsDated, ExpiredIsPast
  <2>8. AppliedIsCreated' /\ UnreviewedHasNoApplications'
    BY <1>0, <2>1, <2>4, <2>5
    DEF SequentialInv, AppliedIsCreated, UnreviewedHasNoApplications
  <2>9. \A j \in Jobs : status'[j] # status[j] => Follows(status[j], status'[j])
    BY <2>4, <2>5 DEF Follows
  <2>10. QED
    BY <2>6, <2>7, <2>8, <2>9 DEF SequentialInv
<1>6. QED
  BY <1>1, <1>2, <1>3, <1>4, <1>5 DEF Finish

\* A step while one handler at a time has run follows the life cycle.
LEMMA LifecycleStep ==
  ASSUME IInv, SequentialInv, Next
  PROVE  \A j \in Jobs : status'[j] # status[j] => Follows(status[j], status'[j])
<1>1. ASSUME NEW h \in Handlers, Finish(h)
      PROVE  \A j \in Jobs : status'[j] # status[j] => Follows(status[j], status'[j])
  <2>1. plan[h] # Idle /\ \A g \in Handlers : g # h => plan'[g] = plan[g]
    BY <1>1 DEF Finish, Update, Delete, Review, Apply, ExpireOne, End, Idle, IInv, TypeOK
  <2>2. Alone'
    BY <2>1 DEF SequentialInv, Alone
  <2>3. QED
    BY <1>1, <2>2, FinishInSequence
<1>2. ASSUME NEW j \in Jobs, CreateJob(j)
      PROVE  \A i \in Jobs : status'[i] # status[i] => Follows(status[i], status'[i])
  <2>1. PICK s \in {"draft", "pending"} : status' = [status EXCEPT ![j] = s]
    BY <1>2 DEF CreateJob
  <2>2. \A i \in Jobs : status'[i] = IF i = j THEN s ELSE status[i]
    BY <2>1 DEF IInv, TypeOK
  <2>3. QED
    BY <1>2, <2>2 DEF CreateJob, Follows
<1>3. CASE status' = status
  BY <1>3
<1>4. QED
  BY <1>1, <1>2, <1>3 DEF Next, Tick, Throw, Request, BeginUpdate, BeginDelete, BeginApply,
     BeginReview, FindOverdue, Begin, row, Handlers

\* A step after which still one handler at a time has run preserves the
\* invariant.
LEMMA SequentialStep ==
  ASSUME IInv, SeqInv, [Watched]_<<vars, overlapped>>, ~ overlapped'
  PROVE  SequentialInv'
<1>0. SequentialInv /\ TypeOK
  BY DEF SeqInv, Watched, IInv
<1>1. CASE UNCHANGED <<vars, overlapped>>
  BY <1>0, <1>1
  DEF vars, row, SequentialInv, Alone, PlansAreCurrent, AppliedIsCreated,
      PublishedIsDated, ExpiredIsPast, UnreviewedHasNoApplications
<1>2. CASE Watched
  <2>1. Next /\ Alone'
    BY <1>2 DEF Watched, Alone, Busy
  <2>2. ASSUME NEW h \in Handlers,
               (\E j \in Jobs : Request(h, j)) \/ FindOverdue(h)
        PROVE  SequentialInv'
    BY <1>0, <2>1, <2>2, BeginInSequence
  <2>3. ASSUME NEW h \in Handlers, Throw(h) PROVE SequentialInv'
    <3>1. /\ plan[h] # Idle /\ plan' = [plan EXCEPT ![h] = Idle]
          /\ UNCHANGED <<row, applied>>
      BY <2>3 DEF Throw
    <3>2. PlansAreCurrent'
      BY <1>0, <2>1, <3>1, EndsInSequence
    <3>3. QED
      BY <1>0, <2>1, <3>1, <3>2, RowsKept DEF SequentialInv, row
  <2>4. ASSUME NEW j \in Jobs, Tick(j) PROVE SequentialInv'
    <3>1. /\ UNCHANGED <<status, deleted, applied, plan>>
          /\ \A i \in Jobs : expiry'[i] = expiry[i] \/ expiry'[i] = "past"
      BY <1>0, <2>4 DEF Tick, TypeOK
    <3>2. \A h \in Handlers :
            /\ plan[h].op = "update" => plan[h].job \in Jobs
            /\ plan[h].op = "expire" => plan[h].jobs \subseteq Jobs
      BY <1>0, PlanShape DEF TypeOK
    <3>3. PlansAreCurrent'
      BY <1>0, <3>1, <3>2 DEF SequentialInv, PlansAreCurrent
    <3>4. QED
      BY <1>0, <2>1, <3>1, <3>3
      DEF SequentialInv, AppliedIsCreated, PublishedIsDated, ExpiredIsPast,
          UnreviewedHasNoApplications
  <2>5. ASSUME NEW j \in Jobs, CreateJob(j) PROVE SequentialInv'
    <3>1. PICK s \in {"draft", "pending"}, e \in {"unset", "future"} :
            /\ s = "pending" => e = "future"
            /\ status' = [status EXCEPT ![j] = s] /\ expiry' = [expiry EXCEPT ![j] = e]
      BY <2>5 DEF CreateJob
    <3>2. status[j] = "none" /\ UNCHANGED <<deleted, applied, plan>>
      BY <2>5 DEF CreateJob
    <3>3. /\ \A i \in Jobs : status'[i] = IF i = j THEN s ELSE status[i]
          /\ \A i \in Jobs : expiry'[i] = IF i = j THEN e ELSE expiry[i]
      BY <1>0, <3>1 DEF TypeOK
    <3>4. \A h \in Handlers :
            /\ plan[h].op \in {"update", "delete", "review", "apply"} => plan[h].job \in Jobs
            /\ plan[h].op = "update" =>
                 plan[h].status \in {"keep", "draft", "pending", "open"}
            /\ plan[h].op = "expire" => plan[h].jobs \subseteq Jobs
      BY <1>0, PlanShape DEF TypeOK
    <3>5. ASSUME NEW h \in Handlers
          PROVE  /\ plan[h].op \in {"update", "delete", "review", "apply"} => plan[h].job # j
                 /\ plan[h].op = "expire" => j \notin plan[h].jobs
      BY <1>0, <3>2 DEF SequentialInv, PlansAreCurrent
    <3>6. PlansAreCurrent'
      BY <1>0, <3>2, <3>3, <3>4, <3>5 DEF SequentialInv, PlansAreCurrent
    <3>7. AppliedIsCreated' /\ UnreviewedHasNoApplications'
      BY <1>0, <3>2, <3>3
      DEF TypeOK, SequentialInv, AppliedIsCreated, UnreviewedHasNoApplications
    <3>8. PublishedIsDated' /\ ExpiredIsPast'
      BY <1>0, <3>1, <3>3 DEF SequentialInv, PublishedIsDated, ExpiredIsPast
    <3>9. QED
      BY <2>1, <3>6, <3>7, <3>8 DEF SequentialInv
  <2>6. QED
    BY <1>0, <2>1, <2>2, <2>3, <2>4, <2>5, FinishInSequence DEF Next, Handlers
<1>3. QED
  BY <1>1, <1>2

\* Nothing has happened yet.
LEMMA SequentialInit == Init => SequentialInv
BY DEF Init, SequentialInv, Alone, PlansAreCurrent, AppliedIsCreated, Idle,
       PublishedIsDated, ExpiredIsPast, UnreviewedHasNoApplications

\* Both invariants hold as long as handlers run one at a time.
THEOREM InSequence == WatchedSpec => [](IInv /\ SeqInv)
<1>1. MCInit => IInv /\ SeqInv
  BY InitInv, SequentialInit DEF MCInit, SeqInv
<1>2. IInv /\ SeqInv /\ [Watched]_<<vars, overlapped>> => IInv' /\ SeqInv'
  <2> SUFFICES ASSUME IInv, SeqInv, [Watched]_<<vars, overlapped>>
               PROVE  IInv' /\ SeqInv'
    OBVIOUS
  <2>1. [Next]_vars
    BY DEF Watched
  <2>2. QED
    BY <2>1, StepInv, SequentialStep DEF SeqInv
<1>3. QED
  BY <1>1, <1>2, PTL DEF WatchedSpec

\* Handlers that run one at a time give every job that leaves the drafts a
\* date, expire it after that date, and let nobody apply to a job that is not
\* published.
THEOREM JobFits == WatchedSpec => []JobFitsItsStatusInSequence
<1>1. SeqInv => JobFitsItsStatusInSequence
  BY DEF SeqInv, SequentialInv, JobFitsItsStatusInSequence
<1>2. QED
  BY <1>1, InSequence, PTL

\* Handlers that run one at a time move the status along the life cycle.
THEOREM LifecycleFollowed == WatchedSpec => StatusFollowsLifecycleInSequence
<1>1. IInv /\ SeqInv /\ [Watched]_<<vars, overlapped>> =>
        [overlapped \/ \A j \in Jobs :
           status'[j] # status[j] => Follows(status[j], status'[j])]_vars
  BY LifecycleStep DEF SeqInv, Watched
<1>2. QED
  BY <1>1, InSequence, PTL DEF WatchedSpec, StatusFollowsLifecycleInSequence
=============================================================================
