------------------------- MODULE ApplicationStatus -------------------------
(***************************************************************************)
(* The vocabulary of a job application: its statuses, which of them count  *)
(* as a running application, and which status may follow which.            *)
(***************************************************************************)

Statuses == {"applied", "interview", "accepted", "rejected", "withdrawn"}

InterviewStatuses == {"scheduled", "completed"}

\* An application in one of these keeps the candidate from applying again
\* and keeps its CV from being deleted.
ActiveStatuses == {"applied", "interview", "accepted"}

\* What a recruiter may set, by the status the application has.
AllowedStatuses ==
  [s \in Statuses |->
     CASE s = "applied"   -> {"interview", "rejected"}
       [] s = "interview" -> {"accepted", "rejected"}
       [] OTHER           -> {}]

\* What a candidate may withdraw.
WithdrawableStatuses == {"applied"}

\* The statuses a candidate is told of by e-mail.
MailedStatuses == {"interview", "rejected", "accepted"}

\* t may follow s, whoever asks for it.
CanFollow(s, t) ==
  \/ t \in AllowedStatuses[s]
  \/ s \in WithdrawableStatuses /\ t = "withdrawn"
=============================================================================
