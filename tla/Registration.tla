---------------------------- MODULE Registration ----------------------------
(***************************************************************************)
(* The registration of one email address: the user, the code that is      *)
(* mailed and the data that wait to become a profile or a company, each of *)
(* the last two kept both in Postgres and in Redis.  One action per        *)
(* awaited statement.                                                      *)
(*                                                                         *)
(* Every issue of a code, by register or send-otp, has a number, which     *)
(* stands for the code and for the moment it lapses, five minutes later.   *)
(* An administrator may give the user any status at any time.  Cooldown,   *)
(* counters and locks of the address can only refuse a request before it   *)
(* has changed anything, so that they are left out with the requests they  *)
(* refuse.  Passwords and users.role are left out.                         *)
(***************************************************************************)
EXTENDS Naturals, Sequences, SequencesExt

CONSTANTS
  Requests,   \* requests that can be in flight together
  Roles,      \* EUserRole: JOB_SEEKER, whose row is a profile, and RECRUITER
  MaxIssues,  \* codes issued in a behaviour (bound)
  MaxFaults   \* failing statements, Redis errors and crashes (bound)

None == 0
NoRole == "none"

VARIABLES
  status,    \* users.status (EUserStatus), "none" before the row exists
  data,      \* roles for which the user has a row
  otps,      \* otp_codes not used, in the order of creation
  sessions,  \* registration_sessions not used: whose data, valid until when
  cachedOtp, \* otp:cache in Redis
  temp,      \* temp_profile in Redis: a session, or None
  issues,    \* issues[n]: the role issue n registers, NoRole for send-otp
  lapsed,    \* the issues 1..lapsed are older than five minutes
  mailed,    \* codes the user has received
  req,       \* req[h]: the request h
  mishaps,   \* history: what may have spoilt the registration
  faults

stored == <<status, data, otps, sessions, cachedOtp, temp>>
vars == <<stored, issues, lapsed, mailed, req, mishaps, faults>>

Idle == [at |-> "idle", n |-> None, role |-> NoRole, row |-> None,
         reg |-> None, kept |-> FALSE, seen |-> "none"]

Init ==
  /\ status = "none" /\ data = {}
  /\ otps = <<>> /\ sessions = <<>>
  /\ cachedOtp = None /\ temp = <<>>
  /\ issues = <<>> /\ lapsed = 0 /\ mailed = {}
  /\ req = [h \in Requests |-> Idle]
  /\ mishaps = {} /\ faults = 0

At(h, step) == req[h].at = step
Go(h, step) == req' = [req EXCEPT ![h].at = step]
End(h) == req' = [req EXCEPT ![h] = Idle]
Fault == faults < MaxFaults /\ faults' = faults + 1
NoFault == UNCHANGED faults
Mishap(m, happened) == mishaps' = IF happened THEN mishaps \cup {m} ELSE mishaps

\* findValid and findValidByEmail: the newest row not used, unless it lapsed.
ValidOtp ==
  IF otps # <<>> /\ Last(otps) > lapsed THEN Last(otps) ELSE None
ValidSession ==
  IF sessions # <<>> /\ Last(sessions).until > lapsed
  THEN Last(sessions).reg ELSE None

\* Is h a registration that has yet to store its data?
Storing(h) ==
  /\ req[h].role # NoRole
  /\ req[h].at \in {"retire", "insert", "retireSessions", "insertSession"}

----------------------------------------------------------------------------
(* Issuing a code *)

\* findByEmail; a user who is verified or locked ends the request.
Register(h, role) ==
  /\ At(h, "idle")
  /\ Len(issues) < MaxIssues
  /\ status \in {"none", "UNVERIFIED"}
  /\ req' = [req EXCEPT ![h] = [Idle EXCEPT !.role = role,
               !.at = IF status = "none" THEN "create" ELSE "retire"]]
  /\ UNCHANGED <<stored, issues, lapsed, mailed, mishaps, faults>>

\* createWithPassword: the email is unique.
CreateUser(h) ==
  /\ At(h, "create")
  /\ IF status = "none" THEN Go(h, "retire") ELSE End(h)
  /\ status' = IF status = "none" THEN "UNVERIFIED" ELSE status
  /\ UNCHANGED <<data, otps, sessions, cachedOtp, temp, issues, lapsed,
                 mailed, mishaps, faults>>

\* findByEmail and what may refuse the request.  A user who is locked is
\* not refused a code.
SendOtp(h) ==
  /\ At(h, "idle")
  /\ Len(issues) < MaxIssues
  /\ status \in {"UNVERIFIED", "LOCKED"}
  /\ req' = [req EXCEPT ![h] = [Idle EXCEPT !.at = "retire"]]
  /\ UNCHANGED <<stored, issues, lapsed, mailed, mishaps, faults>>

Issuing(h) ==
  req[h].at \in {"insert", "retireSessions", "insertSession", "temp", "cache",
                 "find", "refresh", "mail"}

\* A new code; create first marks the ones before it as used.
RetireCodes(h) ==
  /\ At(h, "retire")
  /\ Len(issues) < MaxIssues
  /\ issues' = Append(issues, req[h].role)
  /\ otps' = <<>>
  /\ req' = [req EXCEPT ![h].at = "insert", ![h].n = Len(issues')]
  /\ Mishap("overlap", \E g \in Requests : Issuing(g))
  /\ UNCHANGED <<status, data, sessions, cachedOtp, temp, lapsed, mailed, faults>>

InsertCode(h) ==
  /\ At(h, "insert")
  /\ otps' = Append(otps, req[h].n)
  /\ Go(h, IF req[h].role = NoRole THEN "cache" ELSE "retireSessions")
  /\ UNCHANGED <<status, data, sessions, cachedOtp, temp, issues, lapsed,
                 mailed, mishaps, faults>>

RetireSessions(h) ==
  /\ At(h, "retireSessions")
  /\ sessions' = <<>>
  /\ Go(h, "insertSession")
  /\ UNCHANGED <<status, data, otps, cachedOtp, temp, issues, lapsed, mailed,
                 mishaps, faults>>

InsertSession_Not(h) ==   \* mutant: the data are kept in Redis alone
  /\ At(h, "insertSession")
  /\ req' = [req EXCEPT ![h].at = "temp", ![h].reg = req[h].n]
  /\ UNCHANGED <<stored, issues, lapsed, mailed, mishaps, faults>>

InsertSession(h) ==
  /\ At(h, "insertSession")
  /\ sessions' = Append(sessions, [reg |-> req[h].n, until |-> req[h].n])
  /\ req' = [req EXCEPT ![h].at = "temp", ![h].reg = req[h].n]
  /\ UNCHANGED <<status, data, otps, cachedOtp, temp, issues, lapsed, mailed,
                 mishaps, faults>>

\* setTempProfile, which register calls before setOtpCache and send-otp
\* after it.  An error is logged and skips the rest of the block.
SetTempProfile(h) ==
  /\ At(h, "temp")
  /\ \/ /\ temp' = <<[reg |-> req[h].reg, until |-> req[h].n]>>
        /\ Go(h, IF req[h].role = NoRole THEN "mail" ELSE "cache")
        /\ NoFault /\ UNCHANGED mishaps
     \/ /\ Fault
        /\ UNCHANGED temp
        /\ Go(h, "mail")
        /\ Mishap("staleCode", req[h].role # NoRole /\ cachedOtp # None)
  /\ UNCHANGED <<status, data, otps, sessions, cachedOtp, issues, lapsed, mailed>>

SetOtpCache_Keep(h) ==   \* mutant: only where there is none
  /\ At(h, "cache")
  /\ cachedOtp' = IF cachedOtp = None THEN req[h].n ELSE cachedOtp
  /\ Go(h, IF req[h].role = NoRole THEN "find" ELSE "mail")
  /\ UNCHANGED <<status, data, otps, sessions, temp, issues, lapsed, mailed,
                 mishaps, faults>>

\* setOtpCache
SetOtpCache(h) ==
  /\ At(h, "cache")
  /\ \/ cachedOtp' = req[h].n /\ NoFault /\ UNCHANGED mishaps
     \/ Fault /\ UNCHANGED cachedOtp /\ Mishap("staleCode", cachedOtp # None)
  /\ Go(h, IF req[h].role = NoRole THEN "find" ELSE "mail")
  /\ UNCHANGED <<status, data, otps, sessions, temp, issues, lapsed, mailed>>

FindSession_Valid(h) ==   \* mutant: findValidByEmail
  /\ At(h, "find")
  /\ req' = IF ValidSession = None THEN [req EXCEPT ![h].at = "mail"]
            ELSE [req EXCEPT ![h].at = "refresh", ![h].reg = ValidSession]
  /\ UNCHANGED <<stored, issues, lapsed, mailed, mishaps, faults>>

\* findLatestUnusedByEmail: the session is found also when it has lapsed.
FindSession(h) ==
  /\ At(h, "find")
  /\ \/ /\ sessions # <<>>
        /\ req' = [req EXCEPT ![h].at = "refresh", ![h].reg = Last(sessions).reg]
        /\ NoFault /\ UNCHANGED mishaps
     \/ /\ sessions = <<>>
        /\ Go(h, "mail")
        /\ NoFault /\ Mishap("noSession", \E g \in Requests : Storing(g))
     \/ Fault /\ Go(h, "mail") /\ Mishap("notExtended", TRUE)
  /\ UNCHANGED <<stored, issues, lapsed, mailed>>

\* refreshExpiresAt.  A session that has been used since stays used.
RefreshSession(h) ==
  /\ At(h, "refresh")
  /\ \/ /\ sessions' = [i \in DOMAIN sessions |->
             IF sessions[i].reg = req[h].reg
             THEN [sessions[i] EXCEPT !.until = req[h].n] ELSE sessions[i]]
        /\ Go(h, "temp")
        /\ NoFault /\ UNCHANGED mishaps
     \/ /\ Fault /\ UNCHANGED sessions
        /\ Go(h, "mail") /\ Mishap("notExtended", TRUE)
  /\ UNCHANGED <<status, data, otps, cachedOtp, temp, issues, lapsed, mailed>>

\* sendOtp
Mail(h) ==
  /\ At(h, "mail")
  /\ mailed' = mailed \cup {req[h].n}
  /\ End(h)
  /\ UNCHANGED <<stored, issues, lapsed, mishaps, faults>>

----------------------------------------------------------------------------
(* Verifying it *)

\* getOtpCache.  The user enters a code he has received.  Is it what Redis
\* has, it is kept for the comparison; another one is refused, see WrongCode.
VerifyOtp(h, code) ==
  /\ At(h, "idle")
  /\ \/ code = cachedOtp /\ NoFault
     \/ cachedOtp = None /\ NoFault
     \/ cachedOtp # None /\ Fault
  /\ req' = [req EXCEPT ![h] = [Idle EXCEPT !.at = "compare", !.n = code,
               !.kept = (faults' = faults /\ cachedOtp # None)]]
  /\ UNCHANGED <<stored, issues, lapsed, mailed, mishaps>>

\* findValid; Postgres has the code if Redis has none.
CompareCode(h) ==
  /\ At(h, "compare")
  /\ IF req[h].kept \/ ValidOtp = req[h].n
     THEN req' = [req EXCEPT ![h].at = "user", ![h].row = ValidOtp,
                             ![h].kept = FALSE]
     ELSE End(h)
  /\ UNCHANGED <<stored, issues, lapsed, mailed, mishaps, faults>>

\* A wrong code that is one too many deletes the code in Redis; the others
\* change nothing.
WrongCode ==
  /\ cachedOtp # None
  /\ cachedOtp' = None
  /\ UNCHANGED <<status, data, otps, sessions, temp, issues, lapsed, mailed,
                 req, mishaps, faults>>

\* findByEmail
ReadUser_NoStatus(h) ==   \* mutant: the status is not tested
  /\ At(h, "user")
  /\ req' = [req EXCEPT ![h].at = IF req[h].row = None THEN "again" ELSE "use",
                        ![h].seen = "UNVERIFIED"]
  /\ UNCHANGED <<stored, issues, lapsed, mailed, mishaps, faults>>

ReadUser(h) ==
  /\ At(h, "user")
  /\ req' = [req EXCEPT ![h].at = IF req[h].row = None THEN "again" ELSE "use",
                        ![h].seen = status]
  /\ UNCHANGED <<stored, issues, lapsed, mailed, mishaps, faults>>

\* AUTH_USER_ALREADY_VERIFIED, for a user who is locked too, ends the
\* request, its code used for nothing.
CheckUser(h) ==
  IF req[h].seen = "UNVERIFIED"
  THEN req' = [req EXCEPT ![h] = [Idle EXCEPT !.at = "activate", !.n = req[h].n]]
  ELSE End(h)

\* findValid once more, where it had found nothing.
FindCodeAgain(h) ==
  /\ At(h, "again")
  /\ IF ValidOtp = None THEN CheckUser(h)
     ELSE req' = [req EXCEPT ![h].row = ValidOtp, ![h].at = "use"]
  /\ UNCHANGED <<stored, issues, lapsed, mailed, mishaps, faults>>

\* markUsed, which does nothing to a row that is used already.
UseCode(h) ==
  /\ At(h, "use")
  /\ \/ \E i \in DOMAIN otps : otps[i] = req[h].row /\ otps' = RemoveAt(otps, i)
     \/ (\A i \in DOMAIN otps : otps[i] # req[h].row) /\ UNCHANGED otps
  /\ CheckUser(h)
  /\ UNCHANGED <<status, data, sessions, cachedOtp, temp, issues, lapsed,
                 mailed, mishaps, faults>>

Activated(h) == req[h].at \in {"getTemp", "getSession", "createData"}

\* updateStatus.  Of two requests that have seen the user unverified both
\* go on, and a lock set since the user was read is lifted.
Activate(h) ==
  /\ At(h, "activate")
  /\ status' = "ACTIVE"
  /\ Go(h, "getTemp")
  /\ Mishap("twice", \E g \in Requests \ {h} :
                       At(g, "activate") \/ req[g].seen = "UNVERIFIED")
  /\ UNCHANGED <<data, otps, sessions, cachedOtp, temp, issues, lapsed,
                 mailed, faults>>

\* getTempProfile
GetTempProfile(h) ==
  /\ At(h, "getTemp")
  /\ \/ /\ temp # <<>>
        /\ req' = [req EXCEPT ![h].at = "createData", ![h].reg = temp[1].reg]
        /\ NoFault
     \/ /\ IF temp = <<>> THEN NoFault ELSE Fault
        /\ Go(h, "getSession")
  /\ UNCHANGED <<stored, issues, lapsed, mailed, mishaps>>

\* findValidByEmail.  Without data the user stays as he is.
GetSession(h) ==
  /\ At(h, "getSession")
  /\ req' = [req EXCEPT ![h] =
       IF ValidSession = None THEN [Idle EXCEPT !.at = "clean"]
       ELSE [@ EXCEPT !.at = "createData", !.reg = ValidSession, !.kept = TRUE]]
  /\ mishaps' = mishaps \cup
       {m \in {"noSession", "late"} :
          /\ ValidSession = None
          /\ IF m = "noSession" THEN \E g \in Requests : Storing(g)
             ELSE \/ req[h].n <= lapsed
                  \/ "overlap" \in mishaps /\ sessions # <<>>}
  /\ UNCHANGED <<stored, issues, lapsed, mailed, faults>>

\* The row of the role; user_id is unique in both tables, and a second row
\* is an error.
CreateData(h) ==
  /\ At(h, "createData")
  /\ data' = data \cup {issues[req[h].reg]}
  /\ IF issues[req[h].reg] \in data THEN End(h) ELSE Go(h, "clearTemp")
  /\ UNCHANGED <<status, otps, sessions, cachedOtp, temp, issues, lapsed,
                 mailed, mishaps, faults>>

\* clearTempProfile
ClearTempProfile(h) ==
  /\ At(h, "clearTemp")
  /\ (temp' = <<>> /\ NoFault) \/ (UNCHANGED temp /\ Fault)
  /\ Go(h, "useSession")
  /\ UNCHANGED <<status, data, otps, sessions, cachedOtp, issues, lapsed,
                 mailed, mishaps>>

\* markUsed, or markActiveAsUsedByEmail where the data came from Redis.
UseSession(h) ==
  /\ At(h, "useSession")
  /\ \/ ~ req[h].kept /\ sessions' = <<>>
     \/ /\ req[h].kept
        /\ \/ \E i \in DOMAIN sessions :
                sessions[i].reg = req[h].reg /\ sessions' = RemoveAt(sessions, i)
           \/ /\ \A i \in DOMAIN sessions : sessions[i].reg # req[h].reg
              /\ UNCHANGED sessions
  /\ req' = [req EXCEPT ![h] = [Idle EXCEPT !.at = "clean"]]
  /\ UNCHANGED <<status, data, otps, cachedOtp, temp, issues, lapsed, mailed,
                 mishaps, faults>>

\* deleteOtpCache
DeleteOtpCache(h) ==
  /\ At(h, "clean")
  /\ (cachedOtp' = None /\ NoFault) \/ (UNCHANGED cachedOtp /\ Fault)
  /\ End(h)
  /\ UNCHANGED <<status, data, otps, sessions, temp, issues, lapsed, mailed,
                 mishaps>>

----------------------------------------------------------------------------
(* Administrators, time and failures *)

\* PATCH of the user's status.  Neither the status there is nor the data of
\* the user are looked at.
UpdateStatus(to) ==
  /\ status # "none"
  /\ status' = to
  /\ mishaps' = mishaps \cup
       {m \in {"granted", "reset"} :
          /\ status # to
          /\ IF m = "reset" THEN to = "UNVERIFIED"
             ELSE /\ to = "ACTIVE" /\ data = {}
                  /\ ~ \E h \in Requests : Activated(h)}
  /\ UNCHANGED <<data, otps, sessions, cachedOtp, temp, issues, lapsed, mailed,
                 req, faults>>

\* Five minutes after an issue its rows are no longer valid.  No request
\* takes as long to issue a code.
Lapse ==
  /\ lapsed < Len(issues)
  /\ \A h \in Requests : Issuing(h) => req[h].n # lapsed + 1
  /\ lapsed' = lapsed + 1
  /\ UNCHANGED <<stored, issues, mailed, req, mishaps, faults>>

\* The keys were set after expiresAt was computed, and end later.
ExpireOtpCache ==
  /\ cachedOtp \in 1..lapsed
  /\ cachedOtp' = None
  /\ UNCHANGED <<status, data, otps, sessions, temp, issues, lapsed, mailed,
                 req, mishaps, faults>>

ExpireTempProfile ==
  /\ temp # <<>> /\ temp[1].until <= lapsed
  /\ temp' = <<>>
  /\ UNCHANGED <<status, data, otps, sessions, cachedOtp, issues, lapsed,
                 mailed, req, mishaps, faults>>

\* A statement throws, the mail is not accepted or the process dies.
Fail(h) ==
  /\ ~ At(h, "idle")
  /\ Fault
  /\ mishaps' = mishaps
       \cup (IF Activated(h) THEN {"unfinished"} ELSE {})
       \cup (IF Storing(h) THEN {"noSession"} ELSE {})
       \cup (IF At(h, "activate") THEN {"codeSpent"} ELSE {})
  /\ End(h)
  /\ UNCHANGED <<stored, issues, lapsed, mailed>>

----------------------------------------------------------------------------
Issue(h) ==
  \/ \E role \in Roles : Register(h, role)
  \/ CreateUser(h) \/ SendOtp(h) \/ RetireCodes(h) \/ InsertCode(h)
  \/ RetireSessions(h) \/ InsertSession(h) \/ SetTempProfile(h)
  \/ SetOtpCache(h) \/ FindSession(h) \/ RefreshSession(h) \/ Mail(h)

Verify(h) ==
  \/ \E code \in mailed : VerifyOtp(h, code)
  \/ CompareCode(h) \/ ReadUser(h) \/ FindCodeAgain(h)
  \/ UseCode(h) \/ Activate(h) \/ GetTempProfile(h)
  \/ GetSession(h) \/ CreateData(h) \/ ClearTempProfile(h) \/ UseSession(h)
  \/ DeleteOtpCache(h)

Next ==
  \/ \E h \in Requests : Issue(h) \/ Verify(h) \/ Fail(h)
  \/ \E to \in {"ACTIVE", "UNVERIFIED", "LOCKED"} : UpdateStatus(to)
  \/ WrongCode \/ Lapse \/ ExpireOtpCache \/ ExpireTempProfile

Spec == Init /\ [][Next]_vars

----------------------------------------------------------------------------
(* Properties *)

TypeOK ==
  /\ status \in {"none", "UNVERIFIED", "ACTIVE", "LOCKED"}
  /\ data \subseteq Roles
  /\ issues \in Seq(Roles \cup {NoRole}) /\ Len(issues) <= MaxIssues
  /\ otps \in Seq(DOMAIN issues)
  /\ sessions \in Seq([reg : DOMAIN issues, until : DOMAIN issues])
  /\ temp \in Seq([reg : DOMAIN issues, until : DOMAIN issues]) /\ Len(temp) <= 1
  /\ cachedOtp \in {None} \cup DOMAIN issues
  /\ lapsed \in 0..Len(issues) /\ mailed \subseteq DOMAIN issues
  /\ \A h \in Requests :
       /\ {req[h].n, req[h].row, req[h].reg} \subseteq {None} \cup DOMAIN issues
       /\ req[h].role \in Roles \cup {NoRole}
       /\ At(h, "createData") => issues[req[h].reg] \in Roles
  /\ faults \in 0..MaxFaults

\* An active user has a profile or a company, as soon as no request is
\* about to make it, although code and data lie in four places that are
\* written and lapse one after the other, although one of the writes may
\* fail, and although he may be locked and unlocked on the way.  Excepted is
\* a request that fails after it has verified the user, a code that lapses
\* on the way, a session that send-otp could not extend, one that was looked
\* for while another registration replaced it, and a user whom no code but
\* an administrator has made active.  And nobody gets both, whatever he has
\* registered as and however often, unless two verifications have seen him
\* unverified or an administrator has made him so again.
VerifiedHasData ==
  /\ /\ status = "ACTIVE"
     /\ mishaps \cap {"unfinished", "late", "notExtended", "noSession", "granted"} = {}
     /\ ~ \E h \in Requests : Activated(h)
     => data # {}
  /\ mishaps \cap {"twice", "reset"} = {} => \A a, b \in data : a = b

\* Between requests, the code that was mailed last is the one that verifies,
\* until it lapses: it is the one in Redis, or Redis has none and it is the
\* newest row.  Excepted are codes issued at the same time, a Redis that
\* keeps the code before it, a request that fails with the code used, and a
\* user whom an administrator has made unverified again.
NewestCodeIsAccepted ==
  LET newest == Len(issues) IN
  /\ status = "UNVERIFIED"
  /\ newest \in mailed /\ newest > lapsed
  /\ mishaps \cap {"overlap", "staleCode", "codeSpent", "reset"} = {}
  /\ \A h \in Requests : At(h, "idle")
  => cachedOtp = newest \/ (cachedOtp = None /\ ValidOtp = newest)
=============================================================================
