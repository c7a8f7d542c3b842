---------------------------- MODULE JobLifecycle ----------------------------
(***************************************************************************)
(* The life of a job post: a recruiter creates, edits, submits, deletes    *)
(* and closes it, an administrator approves, rejects or closes it, and a   *)
(* cron pass expires what is overdue.  Every handler reads the row in one  *)
(* statement, decides, and writes in another, with no condition on what    *)
(* the row has become in between.                                          *)
(***************************************************************************)
EXTENDS Naturals, FiniteSets

CONSTANTS
  Jobs,
  Requests,    \* requests that can be in flight together
  Passes,      \* cron passes likewise; one in both is never both at once
  BatchSize,   \* ReviewJobUseCase.AUTO_EXPIRE_BATCH_SIZE
  MaxFaults    \* failing statements in a behaviour (bound)

ASSUME ConstantsAssumption == BatchSize \in Nat \ {0} /\ MaxFaults \in Nat

VARIABLES
  status,    \* status[j], "none" before the job is created
  deleted,   \* jobs with deleted_at
  expiry,    \* expired_at: "unset", or where it lies: "future" or "past"
  reasons,   \* reasons[j]: which of reject_reason and close_reason are set
  applied,   \* jobs somebody has applied to
  approved,  \* history: jobs an administrator has approved
  plan,      \* plan[h]: what a handler is about to write
  faults

row == <<status, deleted, expiry, reasons>>
vars == <<row, applied, approved, plan, faults>>

Statuses == {"draft", "pending", "open", "closed", "rejected", "expired"}
Handlers == Requests \cup Passes
Idle == [op |-> "idle"]
Existing == {j \in Jobs : status[j] # "none"} \ deleted   \* findById

Init ==
  /\ status = [j \in Jobs |-> "none"]
  /\ deleted = {}
  /\ expiry = [j \in Jobs |-> "unset"]
  /\ reasons = [j \in Jobs |-> {}]
  /\ applied = {} /\ approved = {}
  /\ plan = [h \in Handlers |-> Idle]
  /\ faults = 0

Begin(h, p) ==
  /\ plan[h] = Idle
  /\ plan' = [plan EXCEPT ![h] = p]
  /\ UNCHANGED <<row, applied, approved, faults>>
End(h, op) == plan[h].op = op /\ plan' = [plan EXCEPT ![h] = Idle]

----------------------------------------------------------------------------
\* A draft, or a job handed in for review, which needs an expiry date.
CreateJob(j) ==
  /\ status[j] = "none"
  /\ \E submit \in BOOLEAN, e \in {"unset", "future"} :
       /\ submit => e = "future"
       /\ status' = [status EXCEPT ![j] = IF submit THEN "pending" ELSE "draft"]
       /\ expiry' = [expiry EXCEPT ![j] = e]
  /\ UNCHANGED <<deleted, reasons, applied, approved, plan, faults>>

\* What an update will write: a draft is saved or handed in, a new date
\* reopens an expired job, and any other status is left alone ("keep").
NewStatus_Reopens(old, submit, extend) ==   \* mutant: EXPIRED not asked for
  CASE old = "draft" -> IF submit THEN "pending" ELSE "draft"
    [] old # "draft" /\ extend -> "open"
    [] OTHER -> "keep"
NewStatus(old, submit, extend) ==
  CASE old = "draft" -> IF submit THEN "pending" ELSE "draft"
    [] old = "expired" /\ extend -> "open"
    [] OTHER -> "keep"

\* A date in the request lies in the future; one of null clears a draft's.
BeginUpdate_NoDate(h, j) ==   \* mutant: a draft is handed in without a date
  /\ j \in Existing
  /\ status[j] \notin {"closed", "rejected"}
  /\ \E submit \in BOOLEAN, date \in {"keep", "future", "unset"} :
       /\ status[j] # "draft" => date # "unset"
       /\ Begin(h, [op |-> "update", job |-> j, date |-> date,
                    status |-> NewStatus(status[j], submit, date = "future")])

BeginUpdate(h, j) ==
  /\ j \in Existing
  /\ status[j] \notin {"closed", "rejected"}
  /\ \E submit \in BOOLEAN, date \in {"keep", "future", "unset"} :
       /\ status[j] # "draft" \/ submit =>
            (IF date = "keep" THEN expiry[j] ELSE date) # "unset"
       /\ Begin(h, [op |-> "update", job |-> j, date |-> date,
                    status |-> NewStatus(status[j], submit, date = "future")])

Update(h) ==
  LET p == plan[h] IN
  /\ End(h, "update")
  /\ status' = IF p.status = "keep" THEN status ELSE [status EXCEPT ![p.job] = p.status]
  /\ expiry' = IF p.date = "keep" THEN expiry ELSE [expiry EXCEPT ![p.job] = p.date]
  /\ UNCHANGED <<deleted, reasons, applied, approved, faults>>

BeginDelete_Any(h, j) ==   \* mutant: the status is not looked at
  /\ j \in Existing
  /\ Begin(h, [op |-> "delete", job |-> j])

BeginDelete(h, j) ==
  /\ j \in Existing
  /\ status[j] = "draft"
  /\ Begin(h, [op |-> "delete", job |-> j])

Delete(h) ==
  /\ End(h, "delete")
  /\ deleted' = deleted \cup {plan[h].job}
  /\ UNCHANGED <<status, expiry, reasons, applied, approved, faults>>

----------------------------------------------------------------------------
\* ReviewJobUseCase.updateStatus: approve, reject and close.
ReviewTarget_Lax(to) ==   \* mutant: a draft can be approved
  IF to = "closed" THEN {"open"} ELSE {"pending", "draft"}
ReviewTarget(to) == IF to = "closed" THEN {"open"} ELSE {"pending"}

BeginReview(h, j, to) ==
  /\ j \in Existing
  /\ status[j] \in ReviewTarget(to)
  /\ Begin(h, [op |-> "review", job |-> j, status |-> to])

\* The reason that is not given is left as it is.
Review(h) ==
  LET p == plan[h] IN
  /\ End(h, "review")
  /\ status' = [status EXCEPT ![p.job] = p.status]
  /\ reasons' = [reasons EXCEPT ![p.job] = @ \cup ({p.status} \cap {"rejected", "closed"})]
  /\ approved' = IF p.status = "open" THEN approved \cup {p.job} ELSE approved
  /\ UNCHANGED <<deleted, expiry, applied, faults>>

----------------------------------------------------------------------------
\* A cron pass reads a batch of overdue open jobs ...
Overdue_Undated ==   \* mutant: expiredAtBefore is lost
  {j \in Existing : status[j] = "open"}
Overdue == {j \in Existing : status[j] = "open" /\ expiry[j] = "past"}
FindOverdue(h) ==
  \E b \in SUBSET Overdue :
    /\ b # {}
    /\ b = Overdue \/ Cardinality(b) = BatchSize
    /\ Cardinality(b) <= BatchSize
    /\ Begin(h, [op |-> "expire", jobs |-> b])

\* ... and writes them one by one.
ExpireOne(h) ==
  /\ plan[h].op = "expire"
  /\ \E j \in plan[h].jobs :
       LET rest == plan[h].jobs \ {j} IN
       /\ status' = [status EXCEPT ![j] = "expired"]
       /\ plan' = [plan EXCEPT ![h] =
            IF rest = {} THEN Idle ELSE [op |-> "expire", jobs |-> rest]]
  /\ UNCHANGED <<deleted, expiry, reasons, applied, approved, faults>>

----------------------------------------------------------------------------
\* A job seeker: the job is read, and the application inserted later.
BeginApply(h, j) ==
  /\ j \in Existing
  /\ status[j] = "open" /\ expiry[j] # "past"
  /\ Begin(h, [op |-> "apply", job |-> j])

Apply(h) ==
  /\ End(h, "apply")
  /\ applied' = applied \cup {plan[h].job}
  /\ UNCHANGED <<row, approved, faults>>

\* A statement fails: the rest of the handler, or of the pass, is skipped.
Throw_Wedges(h) ==   \* mutant: a running flag is not cleared
  /\ plan[h] # Idle /\ plan[h].op # "stuck"
  /\ faults < MaxFaults /\ faults' = faults + 1
  /\ plan' = [plan EXCEPT ![h] = [op |-> "stuck"]]
  /\ UNCHANGED <<row, applied, approved>>

Throw(h) ==
  /\ plan[h] # Idle
  /\ faults < MaxFaults /\ faults' = faults + 1
  /\ plan' = [plan EXCEPT ![h] = Idle]
  /\ UNCHANGED <<row, applied, approved>>

\* The expiry date passes.
Tick(j) ==
  /\ expiry[j] = "future"
  /\ expiry' = [expiry EXCEPT ![j] = "past"]
  /\ UNCHANGED <<status, deleted, reasons, applied, approved, plan, faults>>

----------------------------------------------------------------------------
Request(h, j) ==
  \/ BeginUpdate(h, j) \/ BeginDelete(h, j) \/ BeginApply(h, j)
  \/ \E to \in {"open", "rejected", "closed"} : BeginReview(h, j, to)
Finish(h) == Update(h) \/ Delete(h) \/ Review(h) \/ Apply(h) \/ ExpireOne(h)

Next ==
  \/ \E j \in Jobs : CreateJob(j) \/ Tick(j)
  \/ \E h \in Handlers : Finish(h) \/ Throw(h)
  \/ \E h \in Requests, j \in Jobs : Request(h, j)
  \/ \E h \in Passes : FindOverdue(h)

Spec == Init /\ [][Next]_vars

\* A handler that has begun ends, and the cron fires every ten minutes.
Fairness ==
  /\ \A h \in Handlers : WF_vars(Finish(h))
  /\ \A h \in Passes : WF_vars(FindOverdue(h))

----------------------------------------------------------------------------
(* Properties *)

Plans ==
  {Idle} \cup [op : {"delete", "apply"}, job : Jobs]
         \cup [op : {"expire"}, jobs : (SUBSET Jobs) \ {{}}]
         \cup [op : {"review"}, job : Jobs, status : {"open", "rejected", "closed"}]
         \cup [op : {"update"}, job : Jobs, date : {"keep", "future", "unset"},
               status : {"keep", "draft", "pending", "open"}]
TypeOK ==
  /\ status \in [Jobs -> Statuses \cup {"none"}]
  /\ expiry \in [Jobs -> {"unset", "future", "past"}]
  /\ reasons \in [Jobs -> SUBSET {"rejected", "closed"}]
  /\ deleted \subseteq Jobs /\ applied \subseteq Jobs /\ approved \subseteq Jobs
  /\ plan \in [Handlers -> Plans]
  /\ faults \in 0..MaxFaults

\* No job gets past review without an administrator, whichever stale writes
\* reopen, expire or close it; nor can anybody apply to such a job.
PublishedWasApproved ==
  /\ \A j \in Jobs : status[j] \in {"open", "closed", "expired"} => j \in approved
  /\ applied \subseteq approved

\* A job that has left the drafts has an expiry date, without which no cron
\* pass would ever end it.  Two saves of a draft side by side, one of which
\* clears the date while the other hands the draft in, break it: like the
\* properties below it holds as long as handlers do not overlap
\* (MCJobLifecycle).
PublishedIsDated ==
  \A j \in Jobs : status[j] \notin {"none", "draft"} => expiry[j] # "unset"

\* A rejected or closed job has the reason for it (be it an empty text),
\* although any later write may replace the status.
ReasonIsGiven ==
  \A j \in Jobs : status[j] \in {"rejected", "closed"} => status[j] \in reasons[j]

\* EXPIRED says that the expiry date has passed.  This and the next one hold
\* only as long as handlers do not overlap (MCJobLifecycle).
ExpiredIsPast == \A j \in Jobs : status[j] = "expired" => expiry[j] = "past"

\* Job seekers have nothing running with a job that is not reviewed, was
\* turned down or is deleted.
UnreviewedHasNoApplications ==
  \A j \in applied : status[j] \notin {"draft", "pending", "rejected"} /\ j \notin deleted

\* The life cycle the checks of the handlers lay down.
Follows(old, new) ==
  new \in CASE old = "none"    -> {"draft", "pending"}
           [] old = "draft"   -> {"pending"}
           [] old = "pending" -> {"open", "rejected"}
           [] old = "open"    -> {"closed", "expired"}
           [] old = "expired" -> {"open"}
           [] OTHER           -> {}

\* An overdue job does not stay open, although passes fail or take only a
\* part of the overdue jobs.
OverdueIsEnded ==
  \A j \in Jobs : j \in Overdue ~> j \notin Overdue
=============================================================================
