----------------------------- MODULE MCAttempts -----------------------------
(***************************************************************************)
(* The attempts of a client and the password of a user, for TLC.  Logins,  *)
(* codes, uploads and passwords touch different keys and rows, the budget  *)
(* of failures apart, so that a behaviour is about one of the four.        *)
(***************************************************************************)
EXTENDS Attempts, FiniteSets, TLC

CONSTANTS
  Sides,         \* what the behaviours of a run are about
  MaxRequests,   \* requests in a behaviour (bound)
  Keys, NoKey, MaxPasswords

ASSUME HandlersAssumption == IsFiniteSet(Handlers)
ASSUME ResetAssumption == NoKey \notin Keys /\ MaxPasswords \in Nat

VARIABLES
  side,        \* what the behaviour is about
  begun,       \* requests that have begun
  overlapped,  \* history: have two requests been in flight together?
  token, cached, lapsed, password, rows, copies, resetReq, issued, good, unnamed,
  resetFaults

R == INSTANCE PasswordReset WITH req <- resetReq, faults <- resetFaults
resetVars == <<token, cached, lapsed, password, rows, copies, resetReq, issued, good, unnamed,
               resetFaults>>
mcvars == <<vars, resetVars, side, begun, overlapped>>

MCInit ==
  /\ Init /\ R!Init
  /\ side \in Sides \cap {"login", "code", "upload", "password"}
  /\ begun = 0 /\ overlapped = FALSE

InFlight == {h \in Handlers : ~Ready(h) \/ ~R!Ready(h)}

Begin(h) ==
  /\ begun < MaxRequests /\ begun' = begun + 1
  /\ \/ side = "login" /\ BeginLogin(h) /\ UNCHANGED resetVars
     \/ side = "code" /\ BeginCode(h) /\ UNCHANGED resetVars
     \/ side = "upload" /\ Upload(h) /\ UNCHANGED resetVars
     \/ side = "password" /\ R!Begin(h) /\ UNCHANGED vars

\* What no client asks for: a request goes on, time passes, Redis loses keys.
GoOn ==
  /\ UNCHANGED begun
  /\ \/ UNCHANGED resetVars /\ \E h \in Handlers : Step(h)
     \/ UNCHANGED resetVars /\ side # "password" /\ Tick
     \/ UNCHANGED vars /\ \E h \in Handlers : R!Continue(h)
     \/ UNCHANGED vars /\ R!Lose

MCNext ==
  /\ GoOn \/ \E h \in Handlers : Begin(h)
  /\ overlapped' = (overlapped \/ \E g, h \in InFlight' : g # h)
  /\ UNCHANGED side

MCSpec == MCInit /\ [][MCNext]_mcvars /\ Fairness

\* Requests are alike, and so are keys.
Alike == Permutations(Handlers) \cup Permutations(Keys)

----------------------------------------------------------------------------
\* How many attempts a counter lets through between its first and its end.
\* getIpRequestCount is compared with > where the others use >=.  A request
\* that looks before another has counted gets through besides; the INCR of
\* an upload counts and looks at once.
Allowed(c) ==
  Limit[c] + (IF c = "ipRequest" THEN 1 ELSE 0)
  + (IF overlapped /\ c # "upload" THEN Cardinality(Handlers) - 1 ELSE 0)

\* Limits hold: no more passwords and codes are tried, codes mailed and files
\* taken in the life of a counter than its limit, and one for each further
\* request in flight.
LimitHolds == faults = 0 => \A c \in Counters : spent[c] <= Allowed(c)

\* Being refused is for a time: a client that asks no more, and after
\* MaxRequests he does not, is free again in the end.
ClientIsFreeAgain == <>[]Free

\* Once a password has been reset, and once a newer key has been drawn, no
\* older key works, in Redis or in Postgres.
SupersededKeyIsDeadInSequence ==
  resetFaults = 0 /\ ~unnamed /\ ~overlapped /\ R!Quiet => R!SupersededKeys = {}

OldPasswordIsOut == R!OldPasswordIsOut
=============================================================================
