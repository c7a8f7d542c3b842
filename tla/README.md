# Verification of the CV backend

TLA+ models of the recruitment backend under `src/src`, the TLC runs that check
them and the TLAPS proofs about them. The backend is a NestJS server: job
seekers keep CVs, have them analysed by an AI and apply to jobs; recruiters
post jobs and decide on applications; administrators review jobs and lock
users. It stores rows in Postgres through TypeORM, caches and counters in
Redis, files in MinIO, and gives background work to BullMQ queues whose workers
run in the same process.

How the code is written decides what is worth checking. A use case is one
`async` function of three to ten awaited statements. It reads a row, decides,
and writes by primary key with no transaction, no lock and no condition on what
it has read (the one transaction is `CVTypeormRepository.setDefault`). Errors
of Redis and of the queues are swallowed, errors of Postgres end the handler
where it stands (`BaseUsecase.runSafe`), and nothing is rolled back. The
repository has no test of any use case. So the questions are: what holds for every
interleaving of the statements of concurrent requests, of cron passes and of
workers; what a failing statement leaves behind; and what the handlers
guarantee only when they run one at a time.

## Inventory

| Part | State | Operations | Interacts with | Hard behaviour |
|---|---|---|---|---|
| Job applications | `job_applications`: status, interview status; unique (user, job) | create, recruiter's status change, interview change, withdraw | reads jobs and CVs; mails by the outbox; bumps cache versions | check-then-write on the status; partial failure after the write |
| CV deletion and purge | `cvs.deleted_at`, the CV's file | delete, nightly hard delete with cascade | applications (must not be running), storage-delete queue | check-then-write over two tables |
| Job life cycle | `jobs.status`, `expired_at`, reasons, `deleted_at` | create, update and submit, delete, approve, reject, close, expire (cron) | applications read it | stale status written back; cron pass against requests |
| Sessions | `refresh_tokens`, their copies in Redis, `users.status` | login, refresh, logout, change of password, lock | two stores that must agree | rotation races, eviction, expiry, loss of keys |
| Outbox and queues | `outbox_events`, BullMQ jobs, dead-letter queues | dispatch with a time limit, work, retry, bury | every use case that mails, deletes or analyses | timeout against late answer, crash, stalled jobs |
| CV analysis | `cv_parsed_data`, `cv_skills`, a lock in Redis, cv-parse jobs | analyse, the worker's attempts | outbox, AI client, cached CV views | lock that expires, retries against new requests, row stuck in PROCESSING |
| Temporary CV analysis | two Redis keys with a time to live, a file under `temp/` | upload, preview, save | storage, CV library | expiry between steps, double save |
| CV library | `cvs`, default flag | create, update, set default, delete | storage, analysis | two defaults; file shared or missing |
| Media and storage clean-up | objects in MinIO, the columns of avatars, logos, banners, CVs | upload, delete, nightly orphan clean-up | storage-delete queue | clean-up works on references read earlier |
| Registration and one-time passwords | users, `otp_codes`, `registration_sessions`, Redis caches of both | register, send, verify, an administrator's change of status | mail, counters | steps that fail halfway, two sources of truth, a status set at any time |
| Password | `password_reset_tokens`, a key in Redis, the password, sessions | draw a key, exchange it for a password, change the password | sessions, logins and refreshes on their way | a key in two stores, a login or refresh that the change overtakes |
| Attempt counters and locks | Redis counters with expiry, locks | count, lock, clear | login, one-time passwords, uploads | INCR and EXPIRE are two commands; read, then count |
| Read caches | versions and entries in Redis | bump, get or set | all queries and all commands | a fill that races a bump; a forgotten bump |
| Queries and dashboards | none of their own | public, recruiter's, administrator's lists; recommendations; statistics; series by day to year | every table | views that disagree; time zones and turns of a bucket |
| Job matching | `job_matches`, a cache entry | calculate | jobs, CVs, skills, categories | versions read after the data; analysis beside calculation |
| Taxonomy | skills and their parents, categories, `job_skills`, slugs | create, update, delete, restore | jobs, companies, CVs | check-then-delete; slugs chosen, then inserted; deleted rows that are still referred to |
| Account, favourites, users | one row each | update | caches | little |
| HTTP layer, mail texts, AI transport, parsers, schema, start-up | none of their own | | | |

What makes each part correct: an application is unique, moves along the
recruiter's table, keeps its CV and tells its candidate the truth; a job is
published only after review and expires when, and only when, its date has
passed; a rotated or revoked session is dead in both stores; background work is
never forgotten silently, nor done without being recorded; an analysis ends and
shows the newest result; a reader of a cache sees every write that was
finished before it began; a counter that locks also unlocks; a file that a row
refers to exists, and one that none refers to goes in the end; a new
password ends the sessions before it; what one view lists another opens; a match
is of the present job and CV; jobs, companies, CVs and skills refer to no category or
skill that is deleted, but for the parent of a skill, which nobody looks after.

## Modules

| Module | Models | Checked by | Proved in |
|---|---|---|---|
| `ApplicationStatus` | the statuses of an application and the transition table | through `JobApplication` | |
| `ApplicationPromise` | abstract: a status follows some status the application has had | `KeepsPromise` | `JobApplication_proofs` |
| `JobApplication` | create, status, interview, withdraw, deletion and purge of CVs | `MCJobApplication`: `application`, `application_reapply` | `JobApplication_proofs` |
| `JobLifecycle` | the use cases of a job and the cron pass that expires jobs | `MCJobLifecycle`: `jobs` | `JobLifecycle_proofs` |
| `Sessions` | login, refresh and logout over Postgres and Redis | `MCAuth`: `auth`; itself: `sessions_evicted` | `Auth_proofs` |
| `Registration` | register, send-otp, verify-otp and the status an administrator sets | `MCAuth`: `auth` | `Auth_proofs` |
| `Delivery` | abstract: recorded, queued, performed or buried, settled | `KeepsPromise` | `MCWorkers_proofs` |
| `OutboxQueue` | `QueueDispatchService` and the workers on BullMQ | `MCWorkers`: `outbox` | `MCWorkers_proofs` |
| `CvAnalysis` | `AnalyzeCVUseCase` and `CvParseProcessor` | itself: `cv_analysis` | `MCWorkers_proofs` |
| `VersionedCache` | the protocol of version counters and cache entries | `MCReadCaches`: `caches` | `VersionedCache_proofs` |
| `CacheCatalogue` | what every cached query reads, and when, and what every command writes and invalidates | `MCReadCaches` | |
| `StoredFile` | abstract: an object is put, linked, let go, and removed only then | `KeepsPromise` | `CvLibrary_proofs` |
| `CvLibrary` | uploads, pictures, the default CV, temporary analyses, queued deletions and the nightly pass over the buckets | `MCCvLibrary`: `library` | `CvLibrary_proofs` |
| `Attempts` | counters, windows and locks of logins, one-time passwords, mails and uploads | `MCAttempts`: `attempts` | `MCAttempts_proofs` |
| `PasswordReset` | the reset key in both its places, the reset and the change of a password, the sessions they end beside logins and refreshes | `MCAttempts`: `passwords` | `MCAttempts_proofs` |
| `Taxonomy` | skills and categories with all that refers to them | `MCMatching`: `matching` | `MCMatching_proofs` |
| `CvMatching` | what the AI is offered, how its answer is put in order and verified, the score of a match, as operators | `MCMatching`, assumptions | |
| `JobMatch` | the worker's statements between the AI and the skills of a CV, the calculation of a match, its row and its cache entry | `MCMatching`: `matching` | `MCMatching_proofs` |
| `JobViews` | what the queries of jobs, companies, applications, favourites and users select, order and count, as operators | `MCQueries`, assumptions of `caches` | |
| `Calendar` | days, months, ISO weeks, and the dates a request may hold | `MCQueries`, assumptions of `caches` | |
| `Analytics` | the buckets and series of the two dashboards | `MCQueries`, assumptions of `caches` | |

In every state machine one action is one awaited statement (or a run of them between
which nothing shared is touched), because that is where the event loop switches
handlers. A `Promise.all` of reads counts as one statement. A handler's local
variables are a record or a program counter per handler; history variables
(`had`, `told`, `approved`, `rotated`, `over`, `blind`, `lingers`, `mishaps`,
`source`, `spent`, `born`, `good`, `raced`, `overlapped`) record what properties
need, and no guard of a handler reads them (`had` also tells which primary keys
are used up). Names of actions are the methods' or say what the statement does. A
definition `X_Something` directly above `X` is a plausible bug in `X`; no action
uses it, and the runs are shown to notice it.

How the state corresponds to the code:

- `JobApplication`: `app` is the table `job_applications`, `cv` the deletion
  state of `cvs`, `told` the mails handed to `dispatchJobApplicationStatusEmail`,
  `files` the CVs handed to `dispatchStorageDelete`, `stale` the families of
  caches whose version somebody owes. `req[h].pc` names the next statement of a
  use case. A request that its first read refuses changes nothing and is left out.
- `JobLifecycle`: `status`, `expiry`, `reasons`, `deleted` are columns of `jobs`;
  of a date only its side of the present is kept. `plan[h]` is what a handler has
  decided to write; `Begin...` are the reads and checks, `Update`, `Delete`,
  `Review`, `ExpireOne` the writes.
- `Sessions`: `row` is `refresh_tokens`, `cache` the keys of
  `setRefreshTokenCache`. Users do not share either, so one user stands for all.
- `Registration`: `status` is the row in `users`, `data` the rows in
  `user_profiles` and `companies`, `otps` and `sessions` the unused rows of
  `otp_codes` and `registration_sessions`, `cachedOtp` and `temp` the keys
  `otp:cache` and `temp_profile`. An issue of a code is a number that stands for
  the code, its data and the moment both lapse. `req[h].at` names the next
  statement of a request. `UpdateStatus` is the administrator's PATCH, of any status
  over any other.
- `OutboxQueue`: `row` is `outbox_events.status`, `add` the promise of `queue.add`
  (it outlives the time limit), `job`, `made`, `stalls` the job in BullMQ, `run`
  the attempt in the worker, `done` its effects, `dead` the dead-letter queue.
- `CvAnalysis`: `row` is `cv_parsed_data.processing_status` of one CV, `lock` the
  key of `safeSetNx`, `request` the requests between their awaits, `worker` the
  statement the processor is at, `skills` which analysis `cv_skills` come from.
- `VersionedCache`: `version` is a counter of `bumpVersion`, `store` the entries
  by key, `readers` the requests of a query, `handlers` the commands. The columns
  of the database are put into groups that change together (`CacheCatalogue`).
- `CvLibrary`: every upload and copy draws a new random key, so a CV is
  identified by the key of its file. `object` is what MinIO has under a key and
  whether it is old enough for the pass, `kind` the bucket and prefix, `row` and
  `flagged` are `cvs` with `deleted_at` and `is_default`, `image` the columns
  `avatar_url`, `logo_url`, `banner_url`, `temp` the two Redis keys of a temporary
  analysis, `doomed` the storage-delete jobs, `pass` the nightly clean-up with the
  references it has collected and whether a statement of it has failed (`ran`), `req`
  the requests.
- `Attempts`: `count` and `left` are the counters and the time each has left,
  `lock` the locks, `codes` the unexpired codes by which an error of Redis is made up
  for in `checkRateLimit`. Time goes by in units that keep the order of the
  windows of one, ten, thirty and sixty minutes.
- `PasswordReset`: `token` is `password_reset_tokens`, `cached` the scoped key in
  Redis, `lapsed` what is older than ten minutes, `password` counts the changes,
  `rows` and `copies` are the sessions that are valid in `refresh_tokens` and in
  Redis, each with the password it goes back to and whether a change overtook the
  request that opened it (`late`); sessions that are alike count as one.
- `Taxonomy`: `row` is both tables, a skill with its category and its parent, a row
  staying when it is deleted; `jobCat`, `needs`, `company` and `linked` are what one job,
  one company and one CV refer to; a request is the list of the statements it has still
  to await. `Clear` is the null that takes the parent away; what is not sent is `None`.
- `JobMatch`: `parsed` is the newest row of `cv_parsed_data`, `worker` the
  analysis, `calc` what each calculation has read so far, `cached` the entry in
  Redis under its two versions, `match` the rows of `job_matches`.
- `JobViews`, `Analytics` and `Calendar` have no variables. A database is a record
  of sets of rows; where the SQL leaves the order of ties open the operator yields
  the set of all answers.

### How the modules fit together

The use cases meet in rows that one of them writes and another reads.
`JobApplication` has the job as an environment that opens and shuts at any
time (`MoveJob`), which is more than `JobLifecycle` does; `JobLifecycle` has the
application as one read and one insert. `JobApplication`, `CvAnalysis` and
`CvLibrary` hand work to the outbox: what then becomes of it is `OutboxQueue`, whose
`Delivery` is all they may count on. `JobMatch` extends `Taxonomy` and
`CvMatching`: calculations, an analysis and the requests that change names, slugs,
weights and categories run side by side in one model. `MCAttempts` puts `Attempts`
beside `PasswordReset`, which shares nothing with it; the code that a reset is
exchanged for is `Registration`'s and `Attempts`'. `PasswordReset` and `Sessions` look at
the same two stores: the one counts passwords and takes sessions together, the other
follows each token, its end, its exchange and the limit of devices. `MCAuth` puts
`Registration` beside `Sessions`. `MCWorkers` has the events of `OutboxQueue` beside
the analyses of `CvAnalysis`, as jobs of one BullMQ with the same attempts and stalls;
they share neither rows nor locks, so that in `outbox` the analyses rest (`EventsSpec`),
and `EventsAreOutbox` proves that the events then do what `OutboxQueue` says. That each
command owes increments of version counters is a part of its model or of
`CacheCatalogue`; what the increments achieve is `VersionedCache`; what the cached
queries compute is `JobViews` and `Analytics`.

## Runs

| Run | Question | Bounds |
|---|---|---|
| `application` | uniqueness, truthful mails and owed bumps however two requests interleave, and the refinement of `ApplicationPromise`; the table, the CV of a running application, completed interviews and one mail per decision while requests do not overlap | 1 candidate, 1 job, 1 CV, 2 rows ever, 2 requests at a time, 1 failure |
| `application_reapply` | expected violation: a second application that the handler accepts is refused by the index | 1 request, no failure |
| `jobs` | review under any interleaving; an overdue job does not stay open; the life cycle, dates and applications while handlers do not overlap | 2 jobs, 2 requests (on one job, or one request on two) and a cron pass with a batch of 2, 1 failure |
| `auth` | an active user has his data and the newest code verifies; rotation and logout end what they end, the limit of devices in sequence | 2 requests, or one at a time and an administrator, 1 failure; 2 roles, 2 issues; 2 devices, 3 tokens, 1 lock |
| `sessions_evicted` | expected violation: a token evicted by the limit is still exchanged | 1 request, 2 devices, 5 tokens |
| `outbox` | truth of the row, bounded work, dead letters, progress; the refinement of `Delivery` | 1 event, 3 attempts, 1 stall, 3 failures or crashes |
| `cv_analysis` | one analysis at a time, skills of the newest, no silent end, progress | 2 requests, 2 analyses, 3 attempts, 1 stall, 2 failures or crashes |
| `caches` | every cached query against every pair of commands; before it, what the queries compute | 2 readers, 2 handlers, 2 commands, 1 failure; all queries and commands |
| `library` | a row has its file, a pass leaves no orphan, nothing is saved or made default twice in sequence; the refinement of `StoredFile` | 3 keys, 1 picture column, 2 requests or 1 and the pass, 1 failure |
| `attempts` | windows, limits and freedom from locks | 2 requests, 1 address with an account and one without, 4 logins, codes or uploads; limits of 1 to 3, a cooldown of 1 and windows of 2 to 5 units; 1 failure |
| `passwords` | a superseded reset key and an old password are dead | 6 requests, 2 at a time; 2 keys, 2 changes of password; 1 failure |
| `matching` | a sound catalogue, matches of the present job and CV, skills linked as offered; before it, the score and the verification of answers | 2 skills and 2 categories with 2 names that make one slug, 1 job, company and CV; 2 handlers, 2 calculators and a worker; 2 requests in any interleaving or 3 one at a time; 1 failure |

Why the bounds are enough to mean something. The hazards are races of two
handlers about one row, so two handlers on one row (with a cron pass for jobs, with
the nightly pass for files) contain each of them; rows of different users, jobs,
CVs or events share no state in a module but what is named. Two rows of `AppIds` let
an application be made again after a purge, two jobs make a pass of more than one
row. Two devices and three tokens let a third login evict, or a token be
exchanged and its successor be exchanged. Three attempts are the configured ones; a stall limit of
one is BullMQ's default; three failures reach a crash in each of the attempts or
a timeout, a lost mark and a crash together. Two analyses are needed for a retry
of an old one to meet a newer; two commands in `caches` for one to overtake the
other. Three keys are a temporary object, its copy and a file beside them. Two
skills that make one slug let one be renamed into, deleted under and restored over
the other, and be its parent and its child. The one failure of most runs stands for one Redis error, refused statement or
crash; nothing in the code counts failures, so that further ones repeat a
situation that one has reached. Two issues of a code in `auth` are an old
and a new one; the larger instances of three requests and of three issues, without
failures, hold as well but take minutes.

Bounds that are not constants. In `auth` a behaviour is about the registration or about
the sessions (`side`): they share no key and of the rows only the status of the user,
which an administrator sets in each. `EachOnItsOwn` proves that this composes the two
specifications. About a registration TLC has requests side by side, or an administrator
who sets the status as often as he likes while they come one at a time (both at once are
too many states for a run); the theorems have both at once. In `attempts` a behaviour is
about logins, codes or uploads (`side`), which touch different keys. The limits are
smaller than the code's (a counter is a number that is compared with one limit) and keep
their relations: the limit of an IP is above that of an address. A code is asked for one
purpose, `Cooldown` being the 30 seconds of REGISTER; with it half the window of an IP,
the limit of codes of an IP is reached by one address without a failure. No unit passes
between an INCR and the command after it, nor while a code is being issued (`Quick`),
which takes moments against a window of a minute at least. In `matching` a third request
begins only if no two have overlapped (`Room`), and a behaviour starts from a catalogue
in use (`Peopled`: two categories, and a skill that the CV has, or one that it lacks and
that has a child) or from one in which nothing is left but a deleted category, whose
slug a new one may want (`Deserted`); the theorems start from any sound catalogue. In
`library` two are at work at a time, the pass among them, and the default CV is played
with in a library that has seen nothing but CVs (`Small`), for nothing but rows of CVs
matters to the flag. In `jobs` two requests work on one job, or one on two (`Small`).

`caches` follows one group of columns in the entries of one query at a time,
chosen in the initial state. An answer is out of date in each group by itself,
and no two queries share a key, so following them one after the other loses
nothing. Of the pairs of a query and a group that read the group at the same
point, and in which every command writes, changes the key and invalidates alike,
one stands for all (`Shape` in `MCReadCaches`): they differ in names only, and
which pairs are alike is computed from the catalogue and so changes with it.
Entries that no request can find any more, under a version or a stamp that is
gone, are left out of the state (`Findable`).

`MCQueries` states what the queries promise one another as named assumptions, which
TLC evaluates before `caches`, on every database of the kinds it describes: any
status, date and deletion of a job beside another that is open or not, any state
of the second company and its owner, any mark and application of a seeker; three
open jobs with any categories and any of five sets of skills. The series of the dashboards
are evaluated on every day of 2024 to 2027 or on the days around the turns of
months, leap days and ISO years, by the hour. In the same way `MCMatching` evaluates
the score and the treatment of answers on all small inputs.

Symmetry is used in safety runs only. Deadlock is not checked where the bounds
make the system stop: in `outbox`, `cv_analysis` and the registrations of `auth` everything
is settled in the end (an event is dispatched once, analyses are bounded by `MaxRows`,
codes by `MaxIssues` and then lapse); in `jobs` every job may be rejected, closed or
deleted; in `attempts`, `passwords` and `matching` the requests are counted; in `library` all keys
may be used up. Elsewhere the system never stops and TLC checks that it does not.

### What the runs show

*Applications.* The unique index, not the test before it, makes applications
unique. The unconditional update may overwrite a decision or a withdrawal, but it
never invents a past: an accepted candidate was interviewed, a mail tells of a status
that was there, and each status follows one the application has had
(`ApplicationPromise`). One at a time, handlers keep the table, the CV of a running
application and its file, and mail every decision unless a statement fails.

*Jobs.* Stale writes of overlapping handlers can undo one another and put a
published job back to draft, but a job that was never approved is never open,
closed or expired, and nobody applies to it: what a handler has read of it may be
old, but an approval is never taken back. Without overlap the life cycle, the
dates and the applications agree as well.

*Sessions.* A token that has been exchanged is dead in both stores once no
request is at work on it, although the copy is put back by slower requests
(they delete it themselves); a logout ends every session no request was using.
A token evicted by the limit of devices is not dead: its copy stays.

*Background work.* The row never claims what Redis does not have. A mail can be
sent at most `Attempts + MaxStalls` times. Without a crash or a failing queue,
what has failed for good is in the dead-letter queue exactly once.

*Analyses.* The lock and the check of the newest row keep analyses apart even
if the lock ends in the middle of one, because the row is PROCESSING by then.
Retries of an older analysis do not overwrite the skills of a newer one. An analysis stays
PROCESSING for ever only if a job was lost, or a failure struck a certain place
(`Abandoned`); then every later analysis of the CV is refused.

*Registration.* Code and data lie in Postgres and in Redis, and any one write
to either may fail without harm, but for the cases that the properties name.
`VerifiedHasData` names five ways to an account that is ACTIVE and stays without
profile or company, since no other command creates the row: verify-otp fails, or
the data lapse, after `updateStatus` (`unfinished`, `late`); send-otp cannot extend
the session (`notExtended`); a code from send-otp is entered although the
registration failed, or has yet to come, at storing its session (`noSession`); and an
administrator sets a user ACTIVE who has not been verified, whom he may have locked
before (`granted`). A lock that is lifted otherwise, or that verify-otp overwrites,
does no such harm. TLC finds a violation when any of them is left out of the property.
Both rows, of a seeker and of a recruiter, take two verifications at once (`twice`) or
an administrator who makes a verified user UNVERIFIED again (`reset`).
`NewestCodeIsAccepted` names four ways in which the code mailed last is refused:
two issues at once, a Redis error that leaves the code before in `otp:cache`, a
verification that fails with the row used, and `reset`: the code was used before.

*Caches.* Reading the version before the rows and incrementing it after the
writes is enough for freshness under all interleavings, and every command
increments what it has to, but for the pairs listed in `Gaps` of `MCReadCaches`.
That these pairs are gaps of the code, and not modesty of the list, is an
assumption TLC evaluates (`GapsAreReal`), as it is that there are no others
(`NoneForgotten` of the whole catalogue).

*Files.* No statement writes two stores, and the order of the statements is what
keeps them together: an object is put before the row that names it and deleted
after it. Whatever fails, and however deletions, saves of a preview and the pass
interleave, a CV or picture that is shown has its file (`RowsHaveTheirFiles`); and a
pass in which no statement fails leaves no old object but those rows referred to when
it looked (`PassLeavesNoOrphan`), whatever failed uploads, dispatches, saves and passes
before it have left. The pass works on references that are out of date while
it deletes. What saves the files of new rows is the age it asks for, which is
longer than any request, and that a row is only ever given a key just drawn.

*Attempts.* A counter lasts for a window from its first increment and no longer,
and a lock is always lifted, unless EXPIRE, the second of two commands, is lost: then
the counter stays, and once it is full each single failure locks again. Limits let
through one attempt more for each further request in flight, and `ipRequest` one more
in any case, for it is compared with `>` where the others are with `>=`.

*Passwords.* Neither a reset nor a change leaves a session of an old password in
Postgres or Redis but those of requests it overtook (`late`): a login that had compared
the old password, or a refresh that had found the old token valid, before the rows and
copies were ended, and opened its session after. A refresh looks at no password, so such
a session can be refreshed until the next change. A superseded key works nowhere as long
as requests come one at a time, name a role and do not fail; a key drawn without a role
is cached under a name nobody reads. `change-password` leaves the reset keys as they are:
one drawn before still works (the property counts it among those that ought to).

*Taxonomy and matching.* In sequence no live skill, job, company or CV refers to a deleted
category, no job or CV to a deleted skill, and the names of live categories differ. None
of this is in the schema, for a foreign key knows nothing of deletion and the names of
categories are in no unique index: two requests side by side break each part. The slugs of
categories, of live and deleted ones together, differ in every interleaving, and so do the
names and the slugs of live skills: unique indices see to them at the write, where a
request that found its slug free may still fail. Of the parent of a skill there is less to
say: it is another skill that is there, live or deleted. A match found in the cache is of the present job, CV and taxonomy, unless a
request that has written failed before its increment. That the part of the skills is
current holds under any interleaving (`FoundSkillMatchIsCurrent`). Only skills the AI
was offered become links.

*Queries.* What is listed, related, recommended or on a company's page can be
opened, and none of it is a job the seeker has marked or applied to; pages neither
drop nor repeat what the total counts; cards and pages of a company agree, and so do
the totals of administrators and recruiters, sums, searches and lists of applicants. The
recommended are the best of the pool, the related those with most in common. Buckets
follow one another without a gap. Where views part is stated too, see below.

## Fairness

Safety runs assume none. `JobLifecycle`: a handler that has begun ends, and
a cron pass comes (every ten minutes, `review-job` schedule). `OutboxQueue`: the
dispatching handler goes on, at the latest by the timer of `withTimeout`, and the
worker and BullMQ take, settle and delay jobs; that Redis answers an add is not
assumed. `CvAnalysis`: requests and the worker go on, the file, parser and
provider having time limits; BullMQ delivers first come, first served, so a
waiting job is taken in the end although others come (strong fairness of `Take`).
That somebody asks for an analysis is not assumed, nor that a lock expires.
`Attempts`: a request that has begun goes on (weak fairness of `Step`), and time
passes; `Tick` waits for the statements that take no time, so its fairness is
strong. That a client tries again, or stops, is not assumed but follows from the bound
on requests.

Some guards hold assumptions on time. In `Registration` no request takes
five minutes to issue a code (`Lapse`). In `CvAnalysis` the lock does not end
while a request is between its check and its insert (`LockExpires`): these are
three adjacent awaits, and the lock lasts sixty seconds, so a lock taken since
the check is still held; the end of an older one is as if it had come before the
check. In `Sessions` no request lasts so long that the token it was given
expires. In `JobApplication` a CV is purged thirty days after its deletion, when
the requests that saw it are over. In `CvLibrary` a request lasts less than two
hours and a pass less than a day, so no object becomes old while either works
on it (`Age`), and the keys in Redis, set for the two hours after which the pass takes
the object, end when it is old (`ExpireKey`).

## Proofs

TLAPS proves the following for every value of the constants, from the assumptions
of the module concerned (numbers are natural, attempts at least one, every CV has an
owner, the null values are not rows or requests). TLC evaluates the assumptions in
the runs.

- `JobApplication_proofs`. The invariant adds to the properties what pending
  writes have in common with history: a row's status is in `had`; a handler that
  will write `to` has read a status from which the table leads to `to`; what it
  will announce, it has read back. The properties alone are not inductive,
  because nothing in the row tells what a handler read. From it follow
  uniqueness, the interview before acceptance, the truth of mails and, step by
  step, the refinement of `ApplicationPromise`. `StaleIsOwedOrLost` is inductive by
  itself: a handler's debt begins with its write and ends with its bump or its failure.
  While requests come one at a time (`InSequence`) a request still sees what it has
  read, so its pending write fits the row and its mail the status; that gives
  `RowsAgree`, `MailsMatch` and `StatusFollows`.
- `JobLifecycle_proofs`. A pending write that opens (by a new date), closes or
  expires is for an approved job, and so is a pending application
  (`PlansAreApproved`). Because approval is never taken back, staleness cannot
  hurt; that is the whole argument. One at a time, requests and passes plan from the
  row as it still is, and the dates and the life cycle follow (`JobFits`,
  `LifecycleFollowed`).
- `MCWorkers_proofs`, of events (`O` in `MCWorkers`, an instance of `OutboxQueue`).
  Three parts: the order of the traces of a dispatch (row,
  add, job, effect); attempts and stalls against effects, with one more for an
  attempt under way or cut off by a crash; and, as long as nothing failed, who
  has been buried. They give the safety properties and the refinement of
  `Delivery`: a quiet step stutters, a step that counts a failure disturbs.
- `MCWorkers_proofs`, of analyses. `LockProtects`: as long as no failure defeated the lock,
  only the newest analysis is PROCESSING; a request that holds the lock is alone and
  nothing is PROCESSING; and if something has become so since a request's
  check, the lock is still held, so that this request will be refused. The
  last part is what the code's order (check, lock, insert, no release) buys, and
  why the lock may end early only when no request is past its check. The rest of the
  invariant says which job the worker holds and that it has attempts left.
  `SkillsInv` and `GivenUpInv` extend it. The first says for each point of the worker
  whose skills the CV has if the newest analysis is COMPLETED, and so why an older one
  that is retried must copy and not replace; the second, who answers for a row or a
  job as long as nothing has failed.
- `VersionedCache_proofs`. For every catalogue of queries and commands in which no
  command forgets an invalidation (`NoneForgotten`, which TLC evaluates for the
  whole catalogue of this program). Versions and stamps only grow; whatever is out of
  date, stored or about to be, lies under a key older in its version or its stamp than
  that of any request without an excuse (`StoredIsBehind`, `ReadIsBehind`). The two
  properties of the run say nothing of requests that are about to store what they
  read before a write, and so are not inductive. Here the proof goes further than the
  run, which takes two commands and one shape of a group at a time.
- `CvLibrary_proofs`. An object about to be linked is new, unreferenced, held by one
  request and given up by none (`PendingIsNew`); the kind of an object never changes, so
  a picture cannot become a CV (`KindsFit`); what is given up is referred to no more
  (`RequestFits`); and what the pass has yet to delete was old when the references were
  read, while all that has been linked since is fresh (`PassFits`). With it follow
  `RowsHaveTheirFiles`, `PassLeavesNoOrphan` and the refinement of `StoredFile`. One at
  a time, what a request has counted is still so when it inserts or sets the default
  (`NothingIsTwice`).
- `Auth_proofs`, of sessions. A row never becomes valid again, so the copies in Redis
  are what matters. The copy of an exchanged token is there only while a refresh is on
  its way to delete it (`RotatedIsOnItsWay`); what a logout ends is revoked and can no
  longer be looked up, so that what its scan has found is all there will be
  (`EndedIsRevoked`, `ScanFoundAll`). These hold in every interleaving, and whichever
  row `deleteOldest` revokes. For the device limit it does matter: `CountHolds` says,
  for a request that is alone, how many rows are valid at each of its statements, and
  that there is an oldest one to evict (`DeviceLimitKept`).
- `Auth_proofs`, of registration (`Reg` in `MCAuth`, an instance of `Registration`).
  Code and data lie in four places; two of them count. The row of the newest code is
  there, or what has used it is about to verify the user, and Redis has that code or
  none (`NewestIsKept`). The newest session is there as long as the user has no data
  (`DataAreKept`), and lasts as long as the codes he has been mailed (`DataLast`): who
  verifies in time finds it, also without Redis. Of the requests that have read the
  status only the one that activates gives data (`OneGivesData`). Whatever an
  administrator sets, the status is UNVERIFIED again only with `reset` and ACTIVE
  without data only with `granted`. Nothing here is assumed to run alone; what the properties except is recorded at the step where it
  happens.
- `MCAttempts_proofs`. A login or refresh that is to open a session has the present
  password or was overtaken by a change; rows of older passwords have a change before its
  `revokeAll`, copies one before the end of its scan (`OldIsAboutToEnd`). The property
  says nothing of requests on their way and so is not inductive. With
  requests one at a time the key in each of the two places is the newest, used or on
  its way there (`KeysFit`), so an older one is dead (`SupersededKeyDies`). Of the
  counters: no time passes between the INCR that makes a key and its EXPIRE, so that
  the EXPIRE of any request sets what is the window of the first attempt in the
  counter, whoever made the key in between (`EndsInTime`); hence `CountsAreRecent`, in
  every interleaving. That limits hold (`LimitsAreKept`) needs to know who is on his
  way: those let through (`Passed`), those who have spent and not counted (`Spenders`)
  and those who have counted one too many and not locked (`Owers`). What is spent is
  counted or belongs to a spender; there is room in what is allowed for all who have
  been let through; and a counter at its limit has a lock that lasts at least as long,
  or an ower for each count beyond (`GateFits`, `LockFits`). As no request is in two of
  the three sets, a request that finds the counter open finds room in `Allowed`. Each
  statement then is one of seven kinds to each counter (`Fits`), and each kind keeps
  `GateFits` (`GateKept`); `HandlersAssumption`, that requests are finitely many, is
  what lets them be counted. The theorems are about the specification of the run, of
  which `PasswordReset` is a part.
- `MCMatching_proofs`. Every request is a list of statements; `Planned` says that they
  are in the order the handlers have them in (`Ordered`) and that what writes into a
  match is followed by a bump. So each statement is `Careful`: it changes neither the
  skills of the CV nor those of the job, or a bump is owed afterwards, or was lost
  (`spoilt`); and nothing that was out of date becomes fresh. As a calculation reads
  the versions before the skills, `SkillInv` is inductive in every interleaving: a
  result with the present versions, in Redis or on its way there, has the skill match
  of the present skills. That gives `FoundSkills`. The property speaks of results in
  Redis only and is not inductive, since it says nothing of those on their way.
  One at a time, what a request has tested still holds when it writes: `Tested` says,
  of each list that is left, which tests are no longer in it and so have passed, and
  what the write relies on (a live category, a free name, another skill for a parent,
  nobody who refers to what is deleted); that a slug is free is the index's part. With it
  the catalogue stays sound (`SeqCore`, `SoundInSequence`).
  Then a step of a request leaves the match as it is or owes a bump (`Aligned`), and
  what a calculation has read is so (`Knows`), so that it saves and stores the match
  there is (`MatchCore`, `MatchInSequence`). These are proved for any number of skills,
  categories, names, requests and calculations, and for any number of requests in a
  behaviour. Assumed are that the null value is no row and no slug (`NoneIsNoRow`) and
  that handlers and calculators are finitely many, which is what lets those in flight
  be counted (`ProcessesAssumption`).

"One at a time" is no guard: the history variable `overlapped` of the MC modules
becomes true when two requests are in flight together and stays so, and each theorem
is about every behaviour up to there. The theorems for `JobLifecycle` and `CvLibrary`
are about `WatchedSpec`, the specification of the run without its bound `Small` and
without fairness, which has more behaviours. Those for `MCMatching` are about its own
`WatchedSpec`, which starts from any sound catalogue and has no bound `Room`:
`RunIsWatched` proves that the behaviours of the run are among its behaviours. The
theorems about events are about `O!Spec`, that is `OutboxQueue` with the constants of
`MCWorkers`.

The type invariants of `JobApplication`, `JobLifecycle`, `OutboxQueue`, `CvAnalysis`
(with the limits of attempts and stalls) and `CvLibrary` are proved and not repeated
in their runs, as are those of `VersionedCache`, `Sessions` and `PasswordReset` as far as
their proofs need them. `TypeOK` of `Sessions`, `Registration`, `Attempts` and
`PasswordReset` has been checked with TLC under the constants of the runs; it costs
more than it says to be kept among their properties.

Only model-checked: liveness (`OverdueIsEnded`, `DispatchReturns`,
`StoredJobSettles`, `AnalysisEnds`, `ClientIsFreeAgain`), which the prover does not
reach; and `OnlyOfferedIsLinkedInSequence`, which needs to know what the sorting and
filtering of an answer, folds over sequences, leave of it: that is an induction over
its items. The queries, the calendar and the score are evaluated on the inputs named
above.

## Where code and documents part

Two runs end in a violation, each a statement of the repository that the
code does not keep: the test on `activeStatuses` that promises a
rejected or withdrawn candidate another application (`application_reapply`), and
the deletion of the oldest token that leaves it usable (`sessions_evicted`).

Met while modelling, and left as they are, because no document promises otherwise
or the models show the bound of the harm:

- Two overlapping status updates can leave the recruiter's table; the last write wins.
- A CV may be deleted between the check and the insert of an application; the
  application then runs with a deleted CV (`RunningApplicationKeepsCv` is checked
  in sequence).
- Two logins side by side exceed the number of devices; expired rows count.
- A cron pass expires a job that was extended after the pass read it; the last
  of two overlapping reviews wins; a saved draft can put an approved job back; two
  saves of a draft can hand it in without a date.
- A repeated registration replaces the password of a user who is not verified and ends
  no session; one whom an administrator has set back to UNVERIFIED may have some.
- A finished analysis is reported as under way until the lock of a minute ends.
- An outbox row whose add failed stays pending: nothing reads the outbox back
  (`enqueueOutboxEvent` has no caller).
- A user verified with a code from send-otp, or made active by an administrator, may
  be left without profile or company (see *Registration*); verify-otp lifts a lock that
  was set after it had read the user; one who registers again under another role keeps
  the role of the first registration and gets the row of the second.
- The pairs in `Gaps`: CV removal does not invalidate applications and
  administrator pages, a failed analysis not the list of CVs, changes of jobs not the
  recommendations, and so on; their entries live ten minutes at most, and a job
  past its date stays in cached lists until the cron pass. The key of the
  administrator's growth series holds the milliseconds of the request, so its entries
  are never found again.
- Two transactions that each set a default CV leave two; two saves of one preview
  that both copy before either deletes make two CVs.
- A worker that fails after `cv_skills` were replaced leaves them changed without an
  increment of the version, and a match found in the cache is of the skills before.
- A skill is deleted without a look at its children, and restored without one at its
  parent. A live skill whose parent is deleted has no place in the grouped list of skills
  (`get-skills.query.ts`), which shows skills without a parent and below them their
  children; nor have two skills of which each was made the parent of the other, for only
  a skill that is its own parent is refused.
- `isSlugTaken` looks at live categories only and the unique slug at all of them: a new
  or renamed category that wants the slug of a deleted one fails at the write, where the
  next candidate would have been free. Of two side by side the second fails likewise.
- An update of a job's category without skills keeps the skills of the old category,
  and so does one of a skill's category.
- The public list accepts a `status`, which replaces "open", and so lists what cannot
  be opened. The recruiter's list without a search text compares an address or a
  salary for equality, and fails when asked for years of experience.
- The top categories count expired and overdue jobs; the administrator's total of
  applications counts those to deleted jobs, the total of favourites marks of deleted
  jobs; the administrator's list of jobs fails while a job is left of a deleted company.
- Recommendations are chosen among the newest 40 of a pool.
- The growth by months and quarters has no bucket for the present one unless it is
  asked for at midnight; by days it begins at the present hour of the first day. With a
  server in UTC the trend loses the last seven hours before a bucket turns, the
  database grouping by the zone of Vietnam. On a leap day the year before begins a
  month late. A date that does not exist is one of the next month.

## Hazards

`PROJECT.json` lists them at their lines with the properties that would notice.
They are of few kinds: a status read before an unconditional write; a statement
that fails after another was committed; a time limit or a retry that meets the
late result of what it gave up; two stores that must agree; an entry stored under a
version read too late; references read before what is deleted by them; a counter
read before it is incremented; a reference made while its target is being deleted.

## Not modelled

Texts, layouts, validation of requests, HTTP, mail, the transport to the AI, the parsers
of files, the schema and start-up have no state of their own. Of the rest is left out:
the blacklist of access tokens, a key that is set and asked for; slugs of jobs, names
with a random ending; columns that one request writes and nothing else depends on
(titles, profiles, a company's texts); the favourite itself, one row under a unique
index; reading free text out of the AI's answer; plain reads of one row. The time to
live of cache entries is not a number: an entry may vanish at any time. What changes
by the passing of time alone is left out of the caches.

## Plan

1. Done: applications, outbox, sessions, jobs, CV analysis, read caches,
   registration, library and storage, attempts and reset, taxonomy and matching,
   queries and series.
2. Done: the proofs of every safety property of the runs but one
   (`OnlyOfferedIsLinkedInSequence`).
3. Models that would add little more: the slugs of jobs, the blacklist of access tokens.
