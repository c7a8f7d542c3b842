--------------------------- MODULE MCJobLifecycle ---------------------------
(***************************************************************************)
(* An instance of JobLifecycle for TLC, with a history variable that says    *)
(* whether two handlers have ever been at work together.                   *)
(***************************************************************************)
EXTENDS JobLifecycle

VARIABLE overlapped

Busy == {h \in Handlers : plan[h] # Idle}

MCInit == Init /\ overlapped = FALSE
Watched == Next /\ overlapped' = (overlapped \/ \E g, h \in Busy' : g # h)
WatchedSpec == MCInit /\ [][Watched]_<<vars, overlapped>>

\* The bound: any number of requests work on one job, or one request on two.
Created == {j \in Jobs : status[j] # "none"}
Small == Cardinality(Created) > 1 => Cardinality(Busy \cap Requests) < 2
MCNext == Watched /\ Small'
MCSpec == MCInit /\ [][MCNext]_<<vars, overlapped>> /\ Fairness

\* The two properties below hold as long as requests and passes run one at a
\* time.  A job that has left the drafts has a date, EXPIRED says that it has
\* passed, and nobody has applied to a job that is not published.
JobFitsItsStatusInSequence ==
  \/ overlapped
  \/ PublishedIsDated /\ ExpiredIsPast /\ UnreviewedHasNoApplications

\* The status follows the life cycle the checks of the handlers lay down.
StatusFollowsLifecycleInSequence ==
  [][overlapped \/ \A j \in Jobs :
       status'[j] # status[j] => Follows(status[j], status'[j])]_vars
=============================================================================
