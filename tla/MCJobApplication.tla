------------------------- MODULE MCJobApplication --------------------------
(***************************************************************************)
(* Instances of JobApplication for TLC, with a history variable that says  *)
(* whether two handlers have ever been at work together.                   *)
(***************************************************************************)
EXTENDS JobApplication, TLC

CONSTANT u1

VARIABLE overlapped

OneCandidate == [c \in Cvs |-> u1]

Busy == {h \in Handlers : req[h] # Idle}

MCInit == Init /\ overlapped = FALSE
MCNext == Next /\ overlapped' = (overlapped \/ \E g, h \in Busy' : g # h)
MCSpec == MCInit /\ [][MCNext]_<<vars, overlapped>>

\* Handlers, and rows of one candidate, are interchangeable.
Symmetry == Permutations(Handlers) \cup Permutations(AppIds)

\* The properties below hold as long as requests run one at a time.  The rows
\* that go with an application agree with it: the CV of a running application
\* is live, and its file in place, and the interview of a decided one is
\* completed.
RowsAgreeInSequence ==
  overlapped \/ (RunningApplicationKeepsCv /\ DecidedInterviewIsCompleted)

\* Every decision was mailed, once, and the last mail is about the status the
\* application has.
MailsMatchStatusInSequence == overlapped \/ MailsMatchStatus

\* The status follows the table, and a decision is final.
StatusFollowsTableInSequence ==
  [][overlapped \/ \A a \in AppIds :
       LET s == StatusOf(a)
           t == StatusOf(a)'
       IN  s # t /\ "none" \notin {s, t} => CanFollow(s, t)]_vars
=============================================================================
