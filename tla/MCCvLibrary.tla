---------------------------- MODULE MCCvLibrary -----------------------------
(***************************************************************************)
(* An instance of CvLibrary for TLC, with a history variable that says     *)
(* whether two requests have ever been in flight together.                 *)
(***************************************************************************)
EXTENDS CvLibrary, TLC

VARIABLE overlapped

Busy == {h \in Handlers : req[h] # Idle}

MCInit == Init /\ overlapped = FALSE
Watched == Next /\ overlapped' = (overlapped \/ \E g, h \in Busy' : g # h)
WatchedSpec == MCInit /\ [][Watched]_<<vars, overlapped>>

\* The bounds: two at work at a time, the pass among them; and the default
\* is played with in a library that has seen nothing but CVs, for nothing but
\* the rows of CVs matters to it.
AtWork == Cardinality(Busy) + (IF pass.stage = "asleep" THEN 0 ELSE 1)
PlaysWithDefault == flagged # {} \/ \E h \in Busy : req[h].op = "setDefault"
Small ==
  /\ AtWork < 3
  /\ PlaysWithDefault => \A k \in Keys : kind[k] \in {"none", "cv"}

MCNext == Watched /\ Small'
MCSpec == MCInit /\ [][MCNext]_<<vars, overlapped>>

\* Keys are random, and requests alike.
Symmetry == Permutations(Keys) \cup Permutations(Handlers)

\* As long as requests come one at a time, failing anywhere, a candidate has
\* one default CV at most, and a temporary analysis is saved as one CV, however
\* often a save that failed is tried again.
NothingIsTwiceInSequence == overlapped \/ (OneDefault /\ SavedOnce)
=============================================================================
