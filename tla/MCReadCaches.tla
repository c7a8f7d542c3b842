---------------------------- MODULE MCReadCaches ----------------------------
(***************************************************************************)
(* The cache protocol of VersionedCache for the queries and commands of    *)
(* this program.  What the queries compute is in JobViews and Analytics;   *)
(* TLC evaluates the assumptions of MCQueries before this run.             *)
(***************************************************************************)
EXTENDS CacheCatalogue, VersionedCache, MCQueries

\* The gaps of the invalidation: groups an entry may show out of date until
\* its time to live ends, for some command that writes them does not
\* invalidate the query.  For every other group it shows the run checks that
\* no command has been forgotten.
NoGap == [q \in DOMAIN AllQueries |-> {}]
Gaps ==
  [NoGap EXCEPT
     !.getCVs = {"analysis"},
     !.getRecommendedJobs = (RecommendedJobsRows \ {"skill"}) \cup {"analysis"},
     !.getUsers = {"accountStatus"},
     !.getUserById = {"accountStatus"},
     !.getMyProfile = {"accountStatus", "profile", "company"},
     !.getTopCareerCategories = {"ownerActive"},
     !.getMyJobApplications = {"applicationSet", "cv", "job", "company"},
     !.getJobApplicationsByJob = RecruiterRows \ {"application"},
     !.getRecruiterJobApplications = RecruiterRows \ {"application"},
     !.getRecruiterInterviews = RecruiterRows \ {"application"},
     !.getRecruiterNewApplicants = RecruiterRows \ {"application"},
     !.getJobApplicationById =
        {"job", "cv", "analysis", "user", "company", "profile"},
     !.getAdminOverview = {"applicationSet"},
     !.getAdminApplicationGrowth = {"applicationSet"},
     !.getAdminRecentActivities = {"applicationSet"}]

GapsAreReal ==
  \A q \in DOMAIN AllQueries : \A g \in Gaps[q] :
    \E c \in DOMAIN AllCommands :
      /\ \E i \in DOMAIN AllCommands[c].writes : AllCommands[c].writes[i] = g
      /\ AllQueries[q].key \notin AllCommands[c].bumps
ASSUME GapsAreReal

\* What a behaviour can tell of a query and a group it shows: where the
\* group is read, and which sequences of writes the commands make of it and
\* of the key, with or without an invalidation.
Shape(q, g) ==
  LET read == AllQueries[q]
      Sees(c) ==
        LET writes == AllCommands[c].writes
            own == \E i \in DOMAIN writes : writes[i] = g
            seen == SelectSeq(writes, LAMBDA w : w = g \/ w \in read.stamped)
        IN  [writes |-> IF own THEN [i \in DOMAIN seen |-> seen[i] = g] ELSE <<>>,
             bumps |-> read.key \in AllCommands[c].bumps]
  IN  [early |-> g \in read.early, stamped |-> g \in read.stamped,
       late |-> g \in read.late, unversioned |-> read.key = "account:profile",
       commands |-> {Sees(c) : c \in DOMAIN AllCommands}]

\* One query and group stands for all of its shape.
Shown ==
  UNION {{<<q, g>> : g \in (AllQueries[q].early \cup AllQueries[q].stamped
                              \cup AllQueries[q].late) \ Gaps[q]} :
           q \in DOMAIN AllQueries}
Followed ==
  {CHOOSE p \in Shown : Shape(p[1], p[2]) = s :
     s \in {Shape(p[1], p[2]) : p \in Shown}}
FollowedQueries == [q \in {p[1] : p \in Followed} |-> AllQueries[q]]
NotFollowed == [q \in DOMAIN AllQueries |-> {g \in AllGroups : <<q, g>> \notin Followed}]
Deleted == {"account:profile"}

\* The whole catalogue, every query and group of it, forgets no invalidation
\* but the known ones: what the theorems of VersionedCache_proofs ask for.
Whole == INSTANCE VersionedCache WITH Queries <- AllQueries, Known <- Gaps
ASSUME Whole!NoneForgotten

\* Requests are alike, and so are handlers.
Symmetry == Permutations(Readers) \cup Permutations(Handlers)
=============================================================================
