------------------------------- MODULE MCAuth -------------------------------
(***************************************************************************)
(* The registration of a user and the sessions he has afterwards, for TLC, *)
(* with a history variable that says whether two requests for a session    *)
(* have ever been in flight together.  The two touch different rows and    *)
(* keys and share the status of the user alone, which an administrator     *)
(* sets in each, so that a behaviour is about one of them.  A behaviour    *)
(* about a registration has requests side by side, or an administrator who *)
(* sets the status at any time and as often as he likes; the proofs have   *)
(* both at once.  There are up to MaxFaults failures in each.              *)
(***************************************************************************)
EXTENDS Sessions, TLC

CONSTANTS
  Roles,       \* EUserRole
  MaxIssues    \* codes issued in a behaviour (bound)

ASSUME RegistrationAssumption == MaxIssues \in Nat /\ "none" \notin Roles

VARIABLES
  side,        \* what the behaviour is about
  overlapped,
  regStatus, data, otps, sessions, cachedOtp, temp, issues, lapsed, mailed, req,
  mishaps, regFaults

Reg == INSTANCE Registration
         WITH Requests <- Handlers, status <- regStatus, faults <- regFaults
regVars == <<regStatus, data, otps, sessions, cachedOtp, temp, issues, lapsed, mailed,
             req, mishaps, regFaults>>
mcvars == <<vars, regVars, side, overlapped>>

MCInit ==
  /\ Init /\ Reg!Init
  /\ side \in {"registration", "administered", "sessions"}
  /\ overlapped = FALSE

\* Has an administrator set the status?  The other steps are of a request.
Administered == regStatus' # regStatus /\ UNCHANGED req

OneRequest ==
  \A g, h \in Handlers : Reg!At(g, "idle") \/ Reg!At(h, "idle") \/ g = h

MCNext ==
  /\ \/ side = "registration" /\ Reg!Next /\ ~ Administered /\ UNCHANGED vars
     \/ side = "administered" /\ Reg!Next /\ OneRequest' /\ UNCHANGED vars
     \/ side = "sessions" /\ Next /\ UNCHANGED regVars
  /\ overlapped' = (overlapped \/ \E g, h \in Busy' : g # h)
  /\ UNCHANGED side

MCSpec == MCInit /\ [][MCNext]_mcvars

\* Requests are alike, and so are the two roles.
Symmetry == Permutations(Handlers) \cup Permutations(Roles)

----------------------------------------------------------------------------
\* MAX_DEVICES_PER_USER holds as long as requests come one at a time, tokens
\* expiring, statements failing and refreshes counting like logins.
DeviceLimitInSequence == overlapped \/ DeviceLimit

\* An active user has a profile or a company, and never both, the losses
\* that Registration names apart.
VerifiedHasData == Reg!VerifiedHasData

\* Between requests the code mailed last is the one that verifies.
NewestCodeIsAccepted == Reg!NewestCodeIsAccepted
=============================================================================
