-------------------------- MODULE JobApplication ---------------------------
(***************************************************************************)
(* Applying to a job, and everything that later touches the application.  *)
(*                                                                         *)
(* A request handler is a chain of awaited statements: it reads a row,     *)
(* decides, and only then writes, by id alone, with no transaction, lock   *)
(* or condition on the status it has read.  Every await is a step here, so *)
(* the handlers of concurrent requests interleave between their statements *)
(* as they do on the event loop.  A request refused by its first read      *)
(* changes nothing and is left out.                                        *)
(***************************************************************************)
EXTENDS ApplicationStatus, Naturals, Sequences, Functions

CONSTANTS
  Users,      \* candidates
  Jobs,
  Cvs,
  Owner,      \* the candidate each CV belongs to
  AppIds,     \* primary keys of job_applications (bound: rows ever created)
  Handlers,   \* requests in flight at once (bound)
  MaxFaults,  \* failed statements in a behaviour (bound)
  NoRow,
  Idle

Families == {"jobApplication", "adminAnalytics", "cv"}
Steps == {"findJob", "findExisting", "insert", "updateStatus", "reread",
          "updateInterview", "softDelete", "findApplications", "bump", "dispatch"}

Row == [user : Users, job : Jobs, cv : Cvs,
        status : Statuses, interview : InterviewStatuses]

\* The handlers' local variables: the arguments, and what was read.
CreateReq    == [op : {"create"}, pc : Steps, user : Users, job : Jobs, cv : Cvs]
StatusReq    == [op : {"status"}, pc : Steps, app : AppIds, to : Statuses,
                 seen : MailedStatuses \cup {"none"}]
WithdrawReq  == [op : {"withdraw"}, pc : Steps, app : AppIds]
InterviewReq == [op : {"interview"}, pc : Steps, app : AppIds, to : InterviewStatuses]
DeleteCvReq  == [op : {"deleteCv"}, pc : Steps, cv : Cvs]
Request == CreateReq \cup StatusReq \cup WithdrawReq \cup InterviewReq \cup DeleteCvReq

ASSUME ConstantsAssumption ==
  /\ Owner \in [Cvs -> Users]
  /\ MaxFaults \in Nat
  /\ NoRow \notin Row
  /\ Idle \notin Request

VARIABLES
  app,     \* job_applications, by primary key
  cv,      \* "live", "deleted" (soft-deleted) or "purged" (row removed)
  job,     \* "open" (status OPEN, expiredAt ahead) or "shut"
  req,     \* what each handler is doing
  had,     \* history: every status a row has had
  told,    \* history: the status mails handed to the outbox, in order
  files,   \* CVs whose stored file was handed to the storage-delete queue
  stale,   \* cache families whose entries may predate a committed write
  lost,    \* those of them whose bump was lost to a failure or never made
  faults   \* failures so far

tables == <<app, cv, job>>
caches == <<stale, lost>>
vars == <<app, cv, job, req, had, told, files, stale, lost, faults>>

----------------------------------------------------------------------------
Exists(a) == app[a] # NoRow
Fresh == {a \in AppIds : had[a] = {}}
StatusOf(a) == IF Exists(a) THEN app[a].status ELSE "none"

\* findByJobIdAndUserId followed by the test on activeStatuses.
HasActive(u, j) ==
  \E a \in AppIds : /\ Exists(a)
                    /\ app[a].user = u /\ app[a].job = j
                    /\ app[a].status \in ActiveStatuses

\* The unique index idx_job_applications_user_job, whatever the status.
IndexFree_RunningOnly(u, j) == ~ HasActive(u, j)   \* mutant: a partial index
IndexFree(u, j) ==
  ~ \E a \in AppIds : Exists(a) /\ app[a].user = u /\ app[a].job = j

\* The cache families that show what a handler writes ...
Outdates == [create    |-> {"jobApplication", "adminAnalytics"},
             status    |-> {"jobApplication"},
             withdraw  |-> {"jobApplication"},
             interview |-> {"jobApplication"},
             deleteCv  |-> {"cv"}]

\* ... and those whose version it bumps afterwards.
Bumps_NoAnalytics == [Outdates EXCEPT !.create = {"jobApplication"}]   \* mutant
Bumps == [create    |-> {"jobApplication", "adminAnalytics"},
          status    |-> {"jobApplication"},
          withdraw  |-> {"jobApplication"},
          interview |-> {"jobApplication"},
          deleteCv  |-> {"cv"}]

\* The bumps a handler still owes: it has written and not yet bumped.
Owed(h) == IF req[h] # Idle /\ req[h].pc \in {"reread", "bump"}
           THEN Bumps[req[h].op] ELSE {}

\* The views of applications show their CV; nobody bumps them when it goes.
Showing(c) == IF \E a \in AppIds : Exists(a) /\ app[a].cv = c
              THEN {"jobApplication"} ELSE {}

Goto(h, step) == req' = [req EXCEPT ![h].pc = step]
Finish(h) == req' = [req EXCEPT ![h] = Idle]
Written(op) == stale' = stale \cup Outdates[op]

Init ==
  /\ app = [a \in AppIds |-> NoRow]
  /\ cv = [c \in Cvs |-> "live"]
  /\ job = [j \in Jobs |-> "open"]
  /\ req = [h \in Handlers |-> Idle]
  /\ had = [a \in AppIds |-> {}]
  /\ told = [a \in AppIds |-> <<>>]
  /\ files = {}
  /\ stale = {}
  /\ lost = {}
  /\ faults = 0

----------------------------------------------------------------------------
\* CreateJobApplicationUseCase.  The guard on the fresh ids is the bound.
BeginCreate(h, u, j, c) ==
  /\ req[h] = Idle
  /\ Fresh # {}
  /\ cv[c] = "live" /\ Owner[c] = u
  /\ req' = [req EXCEPT ![h] =
       [op |-> "create", pc |-> "findJob", user |-> u, job |-> j, cv |-> c]]
  /\ UNCHANGED <<tables, had, told, files, caches, faults>>

CreateFindJob(h) ==
  /\ req[h] # Idle /\ req[h].op = "create" /\ req[h].pc = "findJob"
  /\ IF job[req[h].job] = "open" THEN Goto(h, "findExisting") ELSE Finish(h)
  /\ UNCHANGED <<tables, had, told, files, caches, faults>>

CreateFindExisting(h) ==
  /\ req[h] # Idle /\ req[h].op = "create" /\ req[h].pc = "findExisting"
  /\ IF HasActive(req[h].user, req[h].job) THEN Finish(h) ELSE Goto(h, "insert")
  /\ UNCHANGED <<tables, had, told, files, caches, faults>>

\* INSERT: the unique index and the foreign key to the CV's row may refuse it.
CreateInsert(h) ==
  /\ req[h] # Idle /\ req[h].op = "create" /\ req[h].pc = "insert"
  /\ IndexFree(req[h].user, req[h].job)
  /\ cv[req[h].cv] # "purged"
  /\ \E a \in Fresh :
       /\ app' = [app EXCEPT ![a] =
            [user |-> req[h].user, job |-> req[h].job, cv |-> req[h].cv,
             status |-> "applied", interview |-> "scheduled"]]
       /\ had' = [had EXCEPT ![a] = {"applied"}]
  /\ Written("create")
  /\ Goto(h, "bump")
  /\ UNCHANGED <<cv, job, told, files, lost, faults>>

CreateRefused(h) ==
  /\ req[h] # Idle /\ req[h].op = "create" /\ req[h].pc = "insert"
  /\ \/ ~ IndexFree(req[h].user, req[h].job)
     \/ cv[req[h].cv] = "purged"
     \/ Fresh = {}
  /\ Finish(h)
  /\ UNCHANGED <<tables, had, told, files, caches, faults>>

----------------------------------------------------------------------------
\* UpdateJobApplicationStatusUseCase: the recruiter of the job moves it on.
BeginStatus_Unchecked(h, a, s) ==   \* mutant: the transition table is not consulted
  /\ req[h] = Idle
  /\ Exists(a)
  /\ s \in MailedStatuses
  /\ req' = [req EXCEPT ![h] = [op |-> "status", pc |-> "updateStatus",
                                app |-> a, to |-> s, seen |-> "none"]]
  /\ UNCHANGED <<tables, had, told, files, caches, faults>>

BeginStatus(h, a, s) ==
  /\ req[h] = Idle
  /\ Exists(a)
  /\ s \in AllowedStatuses[app[a].status]
  /\ req' = [req EXCEPT ![h] = [op |-> "status", pc |-> "updateStatus",
                                app |-> a, to |-> s, seen |-> "none"]]
  /\ UNCHANGED <<tables, had, told, files, caches, faults>>

\* The row as statusPayload leaves it: a decision completes the interview.
Moved_StatusOnly(row, s) == [row EXCEPT !.status = s]   \* mutant: no payload
Moved(row, s) ==
  [row EXCEPT !.status = s,
              !.interview = IF s = "interview" THEN "scheduled" ELSE "completed"]

\* UPDATE ... WHERE id: no condition on the status, and no row, no effect.
UpdateStatus(h) ==
  /\ req[h] # Idle /\ req[h].op = "status" /\ req[h].pc = "updateStatus"
  /\ LET a == req[h].app
     IN  IF Exists(a)
         THEN /\ app' = [app EXCEPT ![a] = Moved(@, req[h].to)]
              /\ had' = [had EXCEPT ![a] = @ \cup {req[h].to}]
         ELSE UNCHANGED <<app, had>>
  /\ Written("status")
  /\ Goto(h, "reread")
  /\ UNCHANGED <<cv, job, told, files, lost, faults>>

\* findById after the UPDATE: another handler may have written in between.
RereadStatus_Requested(h) ==   \* mutant: announces what was asked for, unread
  /\ req[h] # Idle /\ req[h].op = "status" /\ req[h].pc = "reread"
  /\ req' = [req EXCEPT ![h].pc = "bump", ![h].seen = req[h].to]
  /\ UNCHANGED <<tables, had, told, files, caches, faults>>

RereadStatus_NoAcceptance(h) ==   \* mutant: ACCEPTED missing from the mailed statuses
  /\ req[h] # Idle /\ req[h].op = "status" /\ req[h].pc = "reread"
  /\ LET s == StatusOf(req[h].app)
     IN  req' = [req EXCEPT ![h].pc = "bump",
                            ![h].seen = IF s \in {"interview", "rejected"} THEN s ELSE "none"]
  /\ UNCHANGED <<tables, had, told, files, caches, faults>>

RereadStatus(h) ==
  /\ req[h] # Idle /\ req[h].op = "status" /\ req[h].pc = "reread"
  /\ LET s == StatusOf(req[h].app)
     IN  req' = [req EXCEPT ![h].pc = "bump",
                            ![h].seen = IF s \in MailedStatuses THEN s ELSE "none"]
  /\ UNCHANGED <<tables, had, told, files, caches, faults>>

\* The mail announces the status that was read back, when there is one to announce.
DispatchMail(h) ==
  /\ req[h] # Idle /\ req[h].op = "status" /\ req[h].pc = "dispatch"
  /\ told' = IF req[h].seen = "none" THEN told
             ELSE [told EXCEPT ![req[h].app] = Append(@, req[h].seen)]
  /\ Finish(h)
  /\ UNCHANGED <<tables, had, files, caches, faults>>

----------------------------------------------------------------------------
\* WithdrawJobApplicationUseCase: the candidate takes the application back.
BeginWithdraw_AnyStatus(h, a) ==   \* mutant: withdrawableStatuses is not consulted
  /\ req[h] = Idle
  /\ Exists(a)
  /\ req' = [req EXCEPT ![h] = [op |-> "withdraw", pc |-> "updateStatus", app |-> a]]
  /\ UNCHANGED <<tables, had, told, files, caches, faults>>

BeginWithdraw(h, a) ==
  /\ req[h] = Idle
  /\ Exists(a)
  /\ app[a].status \in WithdrawableStatuses
  /\ req' = [req EXCEPT ![h] = [op |-> "withdraw", pc |-> "updateStatus", app |-> a]]
  /\ UNCHANGED <<tables, had, told, files, caches, faults>>

Withdraw(h) ==
  /\ req[h] # Idle /\ req[h].op = "withdraw" /\ req[h].pc = "updateStatus"
  /\ LET a == req[h].app
     IN  IF Exists(a)
         THEN /\ app' = [app EXCEPT ![a].status = "withdrawn"]
              /\ had' = [had EXCEPT ![a] = @ \cup {"withdrawn"}]
         ELSE UNCHANGED <<app, had>>
  /\ Written("withdraw")
  /\ Goto(h, "bump")
  /\ UNCHANGED <<cv, job, told, files, lost, faults>>

\* UpdateJobApplicationInterviewStatusUseCase.
BeginInterview(h, a, s) ==
  /\ req[h] = Idle
  /\ Exists(a)
  /\ app[a].status = "interview"
  /\ req' = [req EXCEPT ![h] = [op |-> "interview", pc |-> "updateInterview",
                                app |-> a, to |-> s]]
  /\ UNCHANGED <<tables, had, told, files, caches, faults>>

UpdateInterview(h) ==
  /\ req[h] # Idle /\ req[h].op = "interview" /\ req[h].pc = "updateInterview"
  /\ app' = IF Exists(req[h].app)
            THEN [app EXCEPT ![req[h].app].interview = req[h].to] ELSE app
  /\ Written("interview")
  /\ Goto(h, "bump")
  /\ UNCHANGED <<cv, job, had, told, files, lost, faults>>

----------------------------------------------------------------------------
\* DeleteCVUseCase: refused while the CV is in a running application.
BeginDeleteCv(h, c) ==
  /\ req[h] = Idle
  /\ cv[c] = "live"
  /\ req' = [req EXCEPT ![h] = [op |-> "deleteCv", pc |-> "findApplications", cv |-> c]]
  /\ UNCHANGED <<tables, had, told, files, caches, faults>>

InUse_NewOnly(c) ==   \* mutant: only APPLIED keeps the CV
  \E a \in AppIds : Exists(a) /\ app[a].cv = c /\ app[a].status = "applied"
InUse(c) == \E a \in AppIds : /\ Exists(a)
                              /\ app[a].cv = c
                              /\ app[a].status \in ActiveStatuses

DeleteCvFindApplications(h) ==
  /\ req[h] # Idle /\ req[h].op = "deleteCv" /\ req[h].pc = "findApplications"
  /\ IF InUse(req[h].cv) THEN Finish(h) ELSE Goto(h, "softDelete")
  /\ UNCHANGED <<tables, had, told, files, caches, faults>>

DeleteCvSoftDelete(h) ==
  /\ req[h] # Idle /\ req[h].op = "deleteCv" /\ req[h].pc = "softDelete"
  /\ cv' = [cv EXCEPT ![req[h].cv] = "deleted"]
  /\ stale' = stale \cup Outdates["deleteCv"] \cup Showing(req[h].cv)
  /\ lost' = lost \cup Showing(req[h].cv)
  /\ Goto(h, "bump")
  /\ UNCHANGED <<app, job, had, told, files, faults>>

DeleteCvDispatch(h) ==
  /\ req[h] # Idle /\ req[h].op = "deleteCv" /\ req[h].pc = "dispatch"
  /\ files' = files \cup {req[h].cv}
  /\ Finish(h)
  /\ UNCHANGED <<tables, had, told, caches, faults>>

----------------------------------------------------------------------------
\* After its write a handler bumps the versions of what it has made stale;
\* the adapter swallows a failing INCR, and the handler goes on.
Bump(h) ==
  /\ req[h] # Idle /\ req[h].pc = "bump"
  /\ \/ /\ stale' = stale \ Owed(h)
        /\ lost' = lost \ Owed(h)
        /\ UNCHANGED faults
     \/ /\ faults < MaxFaults
        /\ faults' = faults + 1
        /\ lost' = lost \cup Owed(h)
        /\ UNCHANGED stale
  /\ IF req[h].op \in {"status", "deleteCv"} THEN Goto(h, "dispatch") ELSE Finish(h)
  /\ UNCHANGED <<tables, had, told, files>>

\* A statement throws, or the process dies: the rest of the handler is lost,
\* what it has written stays.
Abort(h) ==
  /\ req[h] # Idle
  /\ faults < MaxFaults
  /\ faults' = faults + 1
  /\ lost' = lost \cup Owed(h)
  /\ Finish(h)
  /\ UNCHANGED <<tables, had, told, files, stale>>

\* The nightly clean-up removes CVs soft-deleted 30 days ago, long after the
\* requests that saw them live have ended; the foreign key takes their
\* applications along, and nothing bumps the versions of those.
PurgeCv(c) ==
  /\ cv[c] = "deleted"
  /\ \A h \in Handlers :
       req[h] # Idle /\ req[h].op \in {"create", "deleteCv"} => req[h].cv # c
  /\ cv' = [cv EXCEPT ![c] = "purged"]
  /\ app' = [a \in AppIds |-> IF Exists(a) /\ app[a].cv = c THEN NoRow ELSE app[a]]
  /\ LET unbumped == IF Showing(c) = {} THEN {} ELSE {"jobApplication", "adminAnalytics"}
     IN  stale' = stale \cup unbumped /\ lost' = lost \cup unbumped
  /\ UNCHANGED <<job, req, had, told, files, faults>>

\* The job's own life: it is closed, its date passes or the sweep expires it,
\* and the recruiter gives it a new date.
MoveJob(j) ==
  /\ job' = [job EXCEPT ![j] = IF @ = "open" THEN "shut" ELSE "open"]
  /\ UNCHANGED <<app, cv, req, had, told, files, caches, faults>>

----------------------------------------------------------------------------
\* The statements of the request a handler is serving.
Continue(h) ==
  \/ CreateFindJob(h) \/ CreateFindExisting(h) \/ CreateInsert(h) \/ CreateRefused(h)
  \/ UpdateStatus(h) \/ RereadStatus(h) \/ DispatchMail(h)
  \/ Withdraw(h) \/ UpdateInterview(h)
  \/ DeleteCvFindApplications(h) \/ DeleteCvSoftDelete(h) \/ DeleteCvDispatch(h)
  \/ Bump(h)

Begin(h) ==
  \/ \E u \in Users, j \in Jobs, c \in Cvs : BeginCreate(h, u, j, c)
  \/ \E a \in AppIds, s \in Statuses : BeginStatus(h, a, s)
  \/ \E a \in AppIds : BeginWithdraw(h, a)
  \/ \E a \in AppIds, s \in InterviewStatuses : BeginInterview(h, a, s)
  \/ \E c \in Cvs : BeginDeleteCv(h, c)

Next ==
  \/ \E h \in Handlers : Begin(h) \/ Continue(h) \/ Abort(h)
  \/ \E c \in Cvs : PurgeCv(c)
  \/ \E j \in Jobs : MoveJob(j)

Spec == Init /\ [][Next]_vars

----------------------------------------------------------------------------
(* Properties *)

TypeOK ==
  /\ app \in [AppIds -> Row \cup {NoRow}]
  /\ cv \in [Cvs -> {"live", "deleted", "purged"}]
  /\ job \in [Jobs -> {"open", "shut"}]
  /\ req \in [Handlers -> Request \cup {Idle}]
  /\ had \in [AppIds -> SUBSET Statuses]
  /\ told \in [AppIds -> Seq(MailedStatuses)]
  /\ files \subseteq Cvs
  /\ stale \subseteq Families
  /\ lost \subseteq Families
  /\ faults \in 0..MaxFaults

\* However requests interleave, a candidate has one application per job: two
\* creates can both pass the test on findExisting, the index stops the second.
OneApplicationPerUserJob ==
  \A a, b \in AppIds :
    Exists(a) /\ Exists(b) /\ app[a].user = app[b].user /\ app[a].job = app[b].job
      => a = b

\* Nobody is accepted without having been interviewed, although the update
\* that accepts does not look at the status it overwrites.
AcceptedWasInterviewed ==
  \A a \in AppIds : "accepted" \in had[a] => "interview" \in had[a]

\* A mail never announces a status the application has not had, although it
\* announces what the handler read back and not what it wrote.
MailsTellWhatHappened ==
  \A a \in AppIds : Range(told[a]) \subseteq had[a]

\* A cache family is out of date only while a handler still owes its bump,
\* or because a failure lost it, or with the CV of an application gone.
StaleIsOwedOrLost ==
  stale \subseteq lost \cup UNION {Owed(h) : h \in Handlers}

\* The status of an application moves along the recruiter's table or by the
\* candidate's withdrawal, and a decision is final.
StatusFollowsTable ==
  [][\A a \in AppIds :
       LET s == StatusOf(a)
           t == StatusOf(a)'
       IN  s # t /\ "none" \notin {s, t} => CanFollow(s, t)]_vars

\* "Do not delete a CV that is in the process of an application", nor its file.
RunningApplicationKeepsCv ==
  \A a \in AppIds :
    Exists(a) /\ app[a].status \in ActiveStatuses
      => cv[app[a].cv] = "live" /\ app[a].cv \notin files

\* The interview of a decided application is completed.
DecidedInterviewIsCompleted ==
  \A a \in AppIds :
    Exists(a) /\ app[a].status \in {"accepted", "rejected"}
      => app[a].interview = "completed"

\* Once the handlers are done and nothing failed, every invitation and every
\* decision has been handed to the outbox, none of them twice, and the
\* candidate's last mail is about the status the application has.
MailsMatchStatus ==
  faults = 0 /\ (\A h \in Handlers : req[h] = Idle) =>
    \A a \in AppIds :
      /\ IsInjective(told[a])
      /\ had[a] \cap MailedStatuses \subseteq Range(told[a])
      /\ StatusOf(a) \in MailedStatuses => told[a][Len(told[a])] = StatusOf(a)

\* The test on activeStatuses says which applications keep a candidate from
\* applying again; a request it lets pass, with its CV in place, succeeds.
EligibleApplicationIsCreated ==
  [][\A h \in Handlers :
       /\ req[h] # Idle /\ req[h].op = "create" /\ req[h].pc = "insert"
       /\ req'[h] = Idle
       => \/ HasActive(req[h].user, req[h].job)
          \/ cv[req[h].cv] = "purged"
          \/ faults' # faults
          \/ Fresh = {}]_vars

\* The abstract promise, with the stored status and the history.
Promise == INSTANCE ApplicationPromise
             WITH current <- [a \in AppIds |-> StatusOf(a)]
KeepsPromise == Promise!Spec
=============================================================================
