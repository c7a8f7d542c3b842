------------------------------ MODULE Attempts ------------------------------
(***************************************************************************)
(* What limits the attempts of one client (one address, one IP): counters  *)
(* in Redis that begin with their first increment and last for a window,   *)
(* and locks that are looked at before anything else.  Reading a counter   *)
(* or lock, counting and locking are statements of their own, and INCR and *)
(* EXPIRE are two commands.  An error of Redis is caught everywhere: the   *)
(* request goes on as if nothing had been counted.                         *)
(*                                                                         *)
(* Time is what is left of each key, in units of the shortest window that  *)
(* is told apart; a Tick takes one unit from all.  Codes are asked for one *)
(* purpose.  Users, their statuses and codes are left to Sessions and      *)
(* Registration.                                                           *)
(***************************************************************************)
EXTENDS Naturals, Sequences, SequencesExt

CONSTANTS
  Handlers,         \* requests that can be in flight together
  Emails,           \* addresses with an ACTIVE account
  Unknown,          \* an address without one
  MaxFailIp, MaxFailEmailIp,         \* MAX_FAIL_IP, MAX_FAIL_EMAIL_IP
  MaxOtpFail, MaxResend, MaxIpRequest, MaxUploads,
  OneMinute, TenMinutes, HalfHour, OneHour,
  Cooldown,         \* TTL_30S after a code for REGISTER, TTL_1M for FORGOT_PASSWORD
  MaxFaults         \* commands of Redis that fail (bound)

ASSUME TimesAssumption ==
  /\ {OneMinute, TenMinutes, HalfHour, OneHour, MaxFaults} \subseteq Nat
  /\ Cooldown \in 1..OneMinute
  /\ 0 < OneMinute /\ OneMinute < TenMinutes
  /\ TenMinutes < HalfHour /\ HalfHour < OneHour
ASSUME LimitsAssumption ==
  {MaxFailIp, MaxFailEmailIp, MaxOtpFail, MaxResend, MaxIpRequest, MaxUploads}
    \subseteq Nat \ {0}
ASSUME NamesAssumption ==
  /\ Unknown \notin Emails
  /\ Emails \cap {"ip", "otp", "resend", "ipRequest", "upload", "cooldown"} = {}

VARIABLES
  count,   \* count[c]: a counter, 0 where the key does not exist
  left,    \* left[c]: how long it has, Forever where no EXPIRE has come
  lock,    \* lock[l]: how long a lock has, 0 where there is none
  codes,   \* otp_codes of the last hour: what each has left of it
  req,     \* what each handler is doing
  spent,   \* history: attempts let through since the counter was last empty
  born,    \* history: what the first attempt in a counter has left of its window
  faults

redis == <<count, left, lock>>
history == <<spent, born>>
vars == <<redis, codes, req, history, faults>>

Counters == {"ip", "otp", "resend", "ipRequest", "upload"} \cup Emails
Locks == {"ip", "otp", "cooldown"} \cup Emails
Forever == OneHour + 1

\* How many attempts a counter allows ...
Limit == [c \in Counters |->
  CASE c = "ip" -> MaxFailIp [] c \in Emails -> MaxFailEmailIp
    [] c = "otp" -> MaxOtpFail [] c = "resend" -> MaxResend
    [] c = "ipRequest" -> MaxIpRequest [] c = "upload" -> MaxUploads]

\* ... and for how long it counts them.
Window == [c \in Counters |->
  CASE c \in {"ip", "otp"} \cup Emails -> TenMinutes [] c = "resend" -> OneHour
    [] OTHER -> OneMinute]

Idle == [at |-> "idle", email |-> Unknown, n |-> 0, m |-> 0, todo |-> {}, first |-> {}]

Init ==
  /\ count = [c \in Counters |-> 0] /\ left = [c \in Counters |-> 0]
  /\ lock = [l \in Locks |-> 0]
  /\ codes = <<>>
  /\ req = [h \in Handlers |-> Idle]
  /\ spent = [c \in Counters |-> 0] /\ born = [c \in Counters |-> 0]
  /\ faults = 0

At(h, step) == req[h].at = step
Go(h, step) == req' = [req EXCEPT ![h].at = step]
End(h) == req' = [req EXCEPT ![h] = Idle]
Ready(h) == req[h] = Idle
Fault == faults < MaxFaults /\ faults' = faults + 1
NoFault == UNCHANGED faults
Spend(cs) == spent' = [c \in Counters |-> spent[c] + (IF c \in cs THEN 1 ELSE 0)]

\* INCR
Incr(c) ==
  /\ count' = [count EXCEPT ![c] = @ + 1]
  /\ left' = [left EXCEPT ![c] = IF count[c] = 0 THEN Forever ELSE @]
  /\ born' = [born EXCEPT ![c] = IF count[c] = 0 THEN Window[c] ELSE @]

\* EXPIRE, which does nothing to a key that is gone.
Expire(c) == left' = [left EXCEPT ![c] = IF count[c] = 0 THEN 0 ELSE Window[c]]

\* DEL
Del(c) ==
  /\ count' = [count EXCEPT ![c] = 0] /\ left' = [left EXCEPT ![c] = 0]
  /\ spent' = [spent EXCEPT ![c] = 0] /\ born' = [born EXCEPT ![c] = 0]

\* SET ... EX
Set(l, ttl) == lock' = [lock EXCEPT ![l] = ttl]

\* Increments of one counter: the EXPIRE follows only the INCR that made the
\* key.  What INCR returned is kept in n or m.
Counts_ExpireAlways(h, c, from, mid, to) ==   \* mutant: count === 1 is not asked for
  /\ At(h, from)
  /\ Incr(c)
  /\ req' = [req EXCEPT ![h].at = mid,
               ![h].n = IF c \in Emails THEN @ ELSE count'[c],
               ![h].m = IF c \in Emails THEN count'[c] ELSE @]
  /\ UNCHANGED <<lock, codes, spent, faults>>

Counts_ExpireNever(h, c, from, mid, to) ==   \* mutant: count === 0
  /\ At(h, from)
  /\ Incr(c)
  /\ req' = [req EXCEPT ![h].at = to,
               ![h].n = IF c \in Emails THEN @ ELSE count'[c],
               ![h].m = IF c \in Emails THEN count'[c] ELSE @]
  /\ UNCHANGED <<lock, codes, spent, faults>>

Counts(h, c, from, mid, to) ==
  /\ At(h, from)
  /\ Incr(c)
  /\ req' = [req EXCEPT ![h].at = IF count'[c] = 1 THEN mid ELSE to,
               ![h].n = IF c \in Emails THEN @ ELSE count'[c],
               ![h].m = IF c \in Emails THEN count'[c] ELSE @]
  /\ UNCHANGED <<lock, codes, spent, faults>>

Expires(h, c, from, to) ==
  /\ At(h, from)
  /\ Expire(c)
  /\ Go(h, to)
  /\ UNCHANGED <<count, lock, codes, history, faults>>

----------------------------------------------------------------------------
(* login.usecase.ts *)

\* isLoginLockedByIp.  A locked request ends here.
Login(h, e) ==
  /\ Ready(h)
  /\ \/ lock["ip"] = 0 /\ NoFault
     \/ Fault
  /\ req' = [req EXCEPT ![h].at = "find", ![h].email = e]
  /\ UNCHANGED <<redis, codes, history>>

\* findByEmailWithPassword; an unknown address is counted against the IP.
FindUser(h) ==
  /\ At(h, "find")
  /\ IF req[h].email = Unknown
     THEN Go(h, "countIp") /\ Spend({"ip"})
     ELSE Go(h, "pair") /\ UNCHANGED spent
  /\ UNCHANGED <<redis, codes, born, faults>>

\* isLoginLockedEmailAndIp
CheckPair(h) ==
  /\ At(h, "pair")
  /\ \/ lock[req[h].email] = 0 /\ Go(h, "compare") /\ NoFault
     \/ lock[req[h].email] > 0 /\ End(h) /\ NoFault
     \/ Fault /\ Go(h, "compare")
  /\ UNCHANGED <<redis, codes, history>>

\* bcrypt.compare
Compare(h) ==
  /\ At(h, "compare")
  /\ \/ Go(h, "clearIp") /\ UNCHANGED spent
     \/ Go(h, "countIp") /\ Spend({"ip", req[h].email})
  /\ UNCHANGED <<redis, codes, born, faults>>

CountIp(h) ==
  Counts(h, "ip", "countIp", "expireIp",
         IF req[h].email = Unknown THEN "lockIp" ELSE "countPair")
ExpireIp(h) ==
  Expires(h, "ip", "expireIp", IF req[h].email = Unknown THEN "lockIp" ELSE "countPair")
CountPair(h) ==
  req[h].email # Unknown /\ Counts(h, req[h].email, "countPair", "expirePair", "lockIp")
ExpirePair(h) ==
  req[h].email # Unknown /\ Expires(h, req[h].email, "expirePair", "lockIp")

\* lockLoginByIp, from what the INCR has returned.
LockIp(h) ==
  /\ At(h, "lockIp")
  /\ IF req[h].n >= MaxFailIp THEN Set("ip", TenMinutes) ELSE UNCHANGED lock
  /\ IF req[h].email = Unknown THEN End(h) ELSE Go(h, "lockPair")
  /\ UNCHANGED <<count, left, codes, history, faults>>

\* lockLoginEmailAndIp
LockPair_Late(h) ==   \* mutant: > for >=
  /\ At(h, "lockPair")
  /\ IF req[h].m > MaxFailEmailIp THEN Set(req[h].email, TenMinutes) ELSE UNCHANGED lock
  /\ End(h)
  /\ UNCHANGED <<count, left, codes, history, faults>>

LockPair(h) ==
  /\ At(h, "lockPair")
  /\ IF req[h].m >= MaxFailEmailIp THEN Set(req[h].email, TenMinutes) ELSE UNCHANGED lock
  /\ End(h)
  /\ UNCHANGED <<count, left, codes, history, faults>>

\* The right password: both counters go, the locks stay.
ClearIp(h) ==
  /\ At(h, "clearIp")
  /\ Del("ip")
  /\ Go(h, "clearPair")
  /\ UNCHANGED <<lock, codes, faults>>

ClearPair(h) ==
  /\ At(h, "clearPair")
  /\ Del(req[h].email)
  /\ End(h)
  /\ UNCHANGED <<lock, codes, faults>>

----------------------------------------------------------------------------
(* verify-otp.usecase.ts: entering a code *)

\* isOtpLocked
VerifyOtp(h) ==
  /\ Ready(h)
  /\ \/ lock["otp"] = 0 /\ NoFault
     \/ Fault
  /\ Go(h, "enter")
  /\ UNCHANGED <<redis, codes, history>>

\* The codes are compared.  The right one leaves the counter as it is.
CompareCode(h) ==
  /\ At(h, "enter")
  /\ \/ End(h) /\ UNCHANGED spent
     \/ Go(h, "countOtp") /\ Spend({"otp"})
  /\ UNCHANGED <<redis, codes, born, faults>>

CountOtp(h) == Counts(h, "otp", "countOtp", "expireOtp", "lockOtp")
ExpireOtp(h) == Expires(h, "otp", "expireOtp", "lockOtp")

\* lockOtp; the deletion of the cached code is in Registration.
LockOtp(h) ==
  /\ At(h, "lockOtp")
  /\ IF req[h].n >= MaxOtpFail THEN Set("otp", TenMinutes) ELSE UNCHANGED lock
  /\ End(h)
  /\ UNCHANGED <<count, left, codes, history, faults>>

----------------------------------------------------------------------------
(* send-otp.usecase.ts: asking for a code *)

\* isOtpLocked
SendOtp(h) ==
  /\ Ready(h)
  /\ \/ lock["otp"] = 0 /\ NoFault
     \/ Fault
  /\ Go(h, "cooldown")
  /\ UNCHANGED <<redis, codes, history>>

\* isCooldown.  From here on an error of Redis leads to the rows of Postgres.
CheckCooldown(h) ==
  /\ At(h, "cooldown")
  /\ IF lock["cooldown"] = 0 THEN Go(h, "resend") ELSE End(h)
  /\ UNCHANGED <<redis, codes, history, faults>>

\* getResendCount
CheckResend(h) ==
  /\ At(h, "resend")
  /\ Go(h, IF count["resend"] >= MaxResend THEN "refuse" ELSE "ipRequest")
  /\ UNCHANGED <<redis, codes, history, faults>>

\* lockOtp for three times ten minutes
RefuseResend(h) ==
  /\ At(h, "refuse")
  /\ Set("otp", HalfHour)
  /\ End(h)
  /\ UNCHANGED <<count, left, codes, history, faults>>

\* getIpRequestCount, and one request more than the limit passes.
CheckIpRequest(h) ==
  /\ At(h, "ipRequest")
  /\ IF count["ipRequest"] > MaxIpRequest
     THEN End(h) /\ UNCHANGED spent
     ELSE /\ req' = [req EXCEPT ![h].at = "both", ![h].todo = {"ipRequest", "resend"}]
          /\ Spend({"ipRequest", "resend"})
  /\ UNCHANGED <<redis, codes, born, faults>>

\* Promise.all of two increments: each goes its own way, and the one that is
\* left behind by an error of the other still comes.
CountSend(h, c) ==
  /\ c \in req[h].todo
  /\ Incr(c)
  /\ req' = [req EXCEPT ![h].todo = @ \ {c},
               ![h].first = IF count'[c] = 1 THEN @ \cup {c} ELSE @]
  /\ UNCHANGED <<lock, codes, spent, faults>>

ExpireSend(h, c) ==
  /\ c \in req[h].first
  /\ Expire(c)
  /\ req' = [req EXCEPT ![h].first = @ \ {c}]
  /\ UNCHANGED <<count, lock, codes, history, faults>>

Counted(h) ==
  /\ At(h, "both") /\ req[h].todo = {} /\ req[h].first = {}
  /\ Go(h, "create")
  /\ UNCHANGED <<redis, codes, history, faults>>

\* One of the two commands fails: its branch is over.
FailSend(h, c) ==
  /\ At(h, "both") /\ c \in req[h].todo \cup req[h].first
  /\ Fault
  /\ req' = [req EXCEPT ![h].at = "fallback",
               ![h].todo = @ \ {c}, ![h].first = @ \ {c}]
  /\ UNCHANGED <<redis, codes, history>>

\* countRecentByEmailType
Fallback(h) ==
  /\ At(h, "fallback")
  /\ Go(h, IF Len(codes) >= MaxResend THEN "leave" ELSE "create")
  /\ UNCHANGED <<redis, codes, history, faults>>

\* otpCodeRepository.create, and the code in Redis
CreateCode(h) ==
  /\ At(h, "create")
  /\ codes' = Append(codes, OneHour)
  /\ Go(h, "rest")
  /\ UNCHANGED <<redis, history, faults>>

\* setCooldown, after the code is stored, and the mail
SetCooldown(h) ==
  /\ At(h, "rest")
  /\ \/ Set("cooldown", Cooldown) /\ NoFault
     \/ Fault /\ UNCHANGED lock
  /\ Go(h, "leave")
  /\ UNCHANGED <<count, left, codes, history>>

\* The handler is free once both branches have come to their end.
LeaveSend(h) ==
  /\ At(h, "leave") /\ req[h].todo = {} /\ req[h].first = {}
  /\ End(h)
  /\ UNCHANGED <<redis, codes, history, faults>>

----------------------------------------------------------------------------
(* upload-file.usecase.ts: checkUploadRateLimit *)

Upload(h) ==
  /\ Ready(h)
  /\ Go(h, "countUpload")
  /\ UNCHANGED <<redis, codes, history, faults>>

\* incrWithExpiry answers 0 after an error.
CountUpload(h) == Counts(h, "upload", "countUpload", "expireUpload", "upload")
ExpireUpload(h) == Expires(h, "upload", "expireUpload", "upload")

PassUpload(h) ==
  /\ At(h, "upload")
  /\ End(h)
  /\ IF req[h].n > MaxUploads THEN UNCHANGED spent ELSE Spend({"upload"})
  /\ UNCHANGED <<redis, codes, born, faults>>

----------------------------------------------------------------------------
Counting == {"countIp", "expireIp", "countPair", "expirePair", "lockIp", "lockPair",
             "clearIp", "clearPair", "countOtp", "expireOtp", "lockOtp"}

\* A command fails, or its reply is lost: the rest of the block is skipped.
\* An upload, whose error counts as 0, passes; a send goes to Postgres.
Fail(h) ==
  /\ Fault
  /\ \/ req[h].at \in Counting /\ End(h)
     \/ req[h].at \in {"countUpload", "expireUpload"}
        /\ req' = [req EXCEPT ![h].at = "upload", ![h].n = 0]
     \/ req[h].at \in {"cooldown", "resend", "refuse", "ipRequest"} /\ Go(h, "fallback")
  /\ UNCHANGED <<redis, codes, history>>

\* What takes no time: from an INCR to what follows it at once, and the
\* statements of a send, whose windows are far longer than it (bound).
Quick(h) ==
  req[h].at \in {"expireIp", "expirePair", "expireOtp", "expireUpload", "upload",
                 "cooldown", "resend", "refuse", "ipRequest", "both", "fallback",
                 "create", "rest", "leave"}

Less(n) == IF n = 0 THEN 0 ELSE n - 1
Aged(s) == SelectSeq([i \in DOMAIN s |-> s[i] - 1], LAMBDA n : n > 0)
Over(c) == left[c] = 1

\* One unit passes.
Tick ==
  /\ \A h \in Handlers : ~Quick(h)
  /\ left' = [c \in Counters |-> IF left[c] = Forever THEN Forever ELSE Less(left[c])]
  /\ count' = [c \in Counters |-> IF Over(c) THEN 0 ELSE count[c]]
  /\ spent' = [c \in Counters |-> IF Over(c) THEN 0 ELSE spent[c]]
  /\ lock' = [l \in Locks |-> Less(lock[l])]
  /\ born' = [c \in Counters |-> IF Over(c) THEN 0 ELSE Less(born[c])]
  /\ codes' = Aged(codes)
  /\ UNCHANGED <<req, faults>>

LoginStep(h) ==
  \/ FindUser(h) \/ CheckPair(h) \/ Compare(h) \/ CountIp(h) \/ ExpireIp(h)
  \/ CountPair(h) \/ ExpirePair(h) \/ LockIp(h) \/ LockPair(h)
  \/ ClearIp(h) \/ ClearPair(h)

CodeStep(h) ==
  \/ CompareCode(h) \/ CountOtp(h) \/ ExpireOtp(h) \/ LockOtp(h)
  \/ CheckCooldown(h) \/ CheckResend(h) \/ RefuseResend(h) \/ CheckIpRequest(h)
  \/ Counted(h) \/ Fallback(h) \/ CreateCode(h) \/ SetCooldown(h) \/ LeaveSend(h)
  \/ \E c \in Counters : CountSend(h, c) \/ ExpireSend(h, c) \/ FailSend(h, c)

UploadStep(h) == CountUpload(h) \/ ExpireUpload(h) \/ PassUpload(h)

\* What a request does on its own once it has begun.
Step(h) == LoginStep(h) \/ CodeStep(h) \/ UploadStep(h) \/ Fail(h)

BeginLogin(h) == \E e \in Emails \cup {Unknown} : Login(h, e)
BeginCode(h) == VerifyOtp(h) \/ SendOtp(h)

Next ==
  \/ \E h \in Handlers : BeginLogin(h) \/ BeginCode(h) \/ Upload(h) \/ Step(h)
  \/ Tick

Spec == Init /\ [][Next]_vars

\* A request that has begun goes on, and time passes.
Fairness == (\A h \in Handlers : WF_vars(Step(h))) /\ SF_vars(Tick)

----------------------------------------------------------------------------
(* Properties *)

TypeOK ==
  /\ count \in [Counters -> Nat] /\ left \in [Counters -> 0..Forever]
  /\ \A c \in Counters : left[c] = 0 <=> count[c] = 0
  /\ lock \in [Locks -> 0..HalfHour]
  /\ codes \in Seq(1..OneHour)
  /\ \A h \in Handlers : req[h].email \in Emails \cup {Unknown}
  /\ spent \in [Counters -> Nat] /\ born \in [Counters -> 0..OneHour]
  /\ faults \in 0..MaxFaults

\* Nobody is refused for what he did long ago: the first attempt a counter
\* holds, and so each of them, was made within its window, however many
\* requests, successes and losses of a counter came between, unless the
\* command that ends it has been lost.
CountIsRecent ==
  \A c \in Counters : left[c] \notin {0, Forever} => born[c] > 0

\* No lock is in place, and no counter has reached its limit, those apart
\* whose EXPIRE was lost: such a counter stays, and each single failure
\* locks again.
Free ==
  /\ \A l \in Locks : lock[l] = 0
  /\ \A c \in Counters : count[c] < Limit[c] \/ (left[c] = Forever /\ faults > 0)
=============================================================================
