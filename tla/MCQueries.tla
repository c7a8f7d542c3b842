------------------------------ MODULE MCQueries ------------------------------
(***************************************************************************)
(* What the queries promise one another, evaluated by TLC on every small   *)
(* data base of the kinds below, and the calendar on every day of the      *)
(* years it names.                                                         *)
(***************************************************************************)
EXTENDS JobViews, Analytics

JobStatuses == {"DRAFT", "PENDING", "OPEN", "REJECTED", "CLOSED", "EXPIRED"}

\* Two recruiters with a company each, the second of any condition, and a
\* job seeker; two categories, one inactive; the time is 5.
Base(owner, company) ==
  [now |-> 5,
   users |-> {owner} \cup
     {[id |-> u[1], role |-> u[2], status |-> "ACTIVE", created |-> 1,
       words |-> {u[1]}, deleted |-> FALSE] :
        u \in {<<"u1", "RECRUITER">>, <<"seeker", "JOB_SEEKER">>, <<"admin", "ADMIN">>}},
   profiles |-> {[user |-> "seeker", words |-> {"two"}, deleted |-> FALSE]},
   companies |-> {[id |-> "c1", owner |-> "u1", category |-> "k1", words |-> {"one"}, deleted |-> FALSE],
                  company},
   categories |-> {[id |-> "k1", status |-> "ACTIVE", deleted |-> FALSE],
                   [id |-> "k2", status |-> "INACTIVE", deleted |-> FALSE]},
   skills |-> {[id |-> s, deleted |-> FALSE] : s \in {1, 2}},
   jobs |-> {}, links |-> {}, favourites |-> {}, applications |-> {}]
Owners ==
  [id : {"u2"}, role : {"RECRUITER"}, status : {"ACTIVE", "LOCKED"},
   created : {2}, words : {{"u2"}}, deleted : BOOLEAN]
Companies ==
  [id : {"c2"}, owner : {"u2"}, category : {"k2"}, words : {{"two"}}, deleted : BOOLEAN]
Bases == {Base(o, c) : o \in Owners, c \in Companies}
Quiet == CHOOSE b \in Bases : Cardinality(PublicCompanies(b)) = 2

Job(id, company, category, status, expires, created, deleted) ==
  [id |-> id, company |-> company, category |-> category, status |-> status,
   expires |-> expires, created |-> created,
   updated |-> IF status = "OPEN" THEN created + 2 ELSE created, deleted |-> deleted, salaryMin |-> 1, salaryMax |-> 2,
   address |-> {"ha", "noi"}, words |-> {"job"}]
AnyJobs(id, companies, created) ==
  {Job(id, c, "k1", s, e, created, d) :
     c \in companies, s \in JobStatuses, e \in {Never, 4, 5, 6}, d \in BOOLEAN}
\* Every pair of a job of the second company and another one that is open or
\* not, and every mark and application of the seeker on the first.
Marks == {{}, {[user |-> "seeker", job |-> "j1", created |-> 1]}}
Application(status, deleted) ==
  [id |-> "a1", user |-> "seeker", job |-> "j1", status |-> status,
   schedule |-> 6, created |-> 1, deleted |-> deleted]
Applications ==
  {{}} \cup {{Application(s, d)} :
               s \in ActiveStatus \cup {"REJECTED", "CANCELLED"}, d \in BOOLEAN}
Databases ==
  {[[[b EXCEPT !.jobs = {one, two}] EXCEPT
       !.favourites = m, !.applications = a] EXCEPT
      !.links = {[job |-> j, skill |-> 1, weight |-> 1, deleted |-> FALSE] :
                   j \in {"j1", "j2"}}] :
     b \in Bases, one \in AnyJobs("j1", {"c2"}, 1),
     two \in {Job("j2", "c1", "k2", s, 6, 2, FALSE) : s \in {"OPEN", "DRAFT"}},
     m \in Marks, a \in Applications}
Items(db, user) == Find(db, PublicFilter(db, << >>, user))

\* What is listed, related, recommended or on a company's page can be
\* opened, and none of it is a job the user has marked or applied to.
ListedIsOpened ==
  \A db \in Databases : \A user \in {"seeker", "visitor"} :
    LET open == {j \in db.jobs : Opened(db, j.id) # {}}
        hidden == ExcludedJobIds(db, user)
        lists == {Items(db, user)}
                   \cup {CompanyJobs(db, c.id, user) : c \in db.companies}
                   \cup {RelatedJobs(db, j, user) : j \in open}
                   \cup {ToSet(s) : s \in Recommended(db, user, {1}, "k1", 40, 6)}
    IN  \A list \in lists : list \subseteq {j \in open : j.id \notin hidden}
ASSUME ListedIsOpened

\* A page of the public list drops none of the jobs its total counts, and
\* its pages together show each of them once when no two were created at
\* the same time.
PagesAreWhole ==
  \A db \in Databases :
    LET total == Cardinality(Items(db, "visitor"))
        page(n) == PublicList(db, << >>, "visitor", n, 1)
    IN  /\ Pages(total, 1) = total
        /\ \A n \in 1 .. 2 : \A answer \in page(n) :
             answer.total = total /\ Len(answer.items) = IF n <= total THEN 1 ELSE 0
        /\ \A one \in page(1), two \in page(2) :
             ToSet(one.items) \cup ToSet(two.items) = Items(db, "visitor")
ASSUME PagesAreWhole

\* The number on a company's card is the number of jobs on its page.
CardsCountThePage ==
  \A db \in Databases : \A c \in PublicCompanies(db) :
    OpenJobCount(db, c.id) = Cardinality(CompanyJobs(db, c.id, "visitor"))
ASSUME CardsCountThePage

\* The dashboards agree: an administrator's totals are the sums over the
\* companies, what a recruiter counts is what his lists show, and the top
\* categories count every job the public list has of them.
DashboardsAgree ==
  \A db \in Databases :
    LET mine(c) == RecruiterSummary(db, c)
        admin == JobSummary(db)
        upcoming == [from |-> db.now]
    IN  /\ admin.totalJobs = mine("c1").totalJobs + mine("c2").totalJobs
        /\ admin.totalOpenJobs = mine("c1").openJobs + mine("c2").openJobs
        /\ \A c \in {"c1", "c2"} :
             \A s \in Interviews(db, c, upcoming) :
               mine(c).upcomingInterviews <= Len(s)
        /\ \A k \in ActiveCategories(db) :
             CategoryJobCount(db, k.id) >=
               Cardinality(Find(db, PublicFilter(db, [category |-> k.id], "visitor")))
ASSUME DashboardsAgree

\* Where they part: an overdue or expired job still counts for its category,
\* an application to a deleted job counts for the administrator alone, and a
\* status the visitor asks for replaces "open" and lists what cannot be
\* opened.
WhereViewsPart ==
  /\ \E db \in Databases :
       CategoryJobCount(db, "k1") > 0
         /\ Find(db, PublicFilter(db, [category |-> "k1"], "visitor")) = {}
  /\ \E db \in Databases :
       TotalApplications(db) >
         RecruiterSummary(db, "c1").totalApplications
           + RecruiterSummary(db, "c2").totalApplications
  /\ \E db \in Databases :
       \E j \in Find(db, PublicFilter(db, [status |-> "PENDING"], "visitor")) :
         Opened(db, j.id) = {}
ASSUME WhereViewsPart

\* A search finds the companies a visitor sees, and users by their own
\* words, their profile's or their company's while it is not deleted; the
\* three numbers of the users add up.
SearchesFind ==
  \A db \in Bases :
    /\ FindPublic(db, [q |-> "two", category |-> "k2"]) = PublicCompanies(db) \ WithId(db.companies, "c1")
    /\ \A u \in Live(db.users) : u.id \in {"seeker", "u2"} =>
         (u \in FindUsers(db, [q |-> "two"]) <=>
            u.id = "seeker" \/ WithId(db.companies, "c2") # {})
    /\ FindUsers(db, << >>) = Live(db.users)
    /\ UserSummary(db).totalUsers =
         UserSummary(db).totalRecruiters + UserSummary(db).totalJobSeekers
ASSUME SearchesFind

\* The stream of recent activities shows the newest of all, though it reads
\* only so many of each kind.
ActivitiesAreNewest ==
  LET all(db) ==
        Activity("user", SetToSeq(Live(db.users)), "created")
          \cup Activity("job", SetToSeq(Submitted(db)), "created")
          \cup Activity("review", SetToSeq(Reviewed(db)), "updated")
          \cup Activity("application", SetToSeq(Live(db.applications)), "created")
  IN  \A db \in {d \in Databases :
              /\ d.users = Quiet.users /\ d.companies = Quiet.companies
              /\ d.favourites = {}
              /\ d.applications \subseteq {Application("APPLIED", FALSE)}} :
        \A s \in RecentActivities(db, 1) :
          Len(s) = 1 /\ \A a \in all(db) : a.at <= s[1].at
ASSUME ActivitiesAreNewest

\* New applicants are the rows "applied", and the interviews come in the
\* order of their date.
ListsOfTheRecruiter ==
  \A db \in {[Quiet EXCEPT
                 !.jobs = {Job("j1", "c2", "k1", "OPEN", 6, 1, d)},
                 !.applications =
                   {[id |-> i, user |-> i, job |-> "j1", status |-> r[i][1],
                     schedule |-> r[i][2], created |-> r[i][3], deleted |-> FALSE] :
                      i \in 1 .. 2}] :
               d \in BOOLEAN,
               r \in [1 .. 2 -> ActiveStatus \X {Never, 4, 6} \X {1, 2}]} :
    LET mine == ByCompany(db, "c2", << >>)
    IN  /\ mine = IF Live(db.jobs) = {} THEN {} ELSE db.applications
        /\ \A s \in NewApplicants(db, "c2") :
             ToSet(s) = {a \in mine : a.status = "APPLIED"}
        /\ \A s \in Interviews(db, "c2", [from |-> db.now]) :
             /\ RecruiterSummary(db, "c2").upcomingInterviews <= Len(s)
             /\ \A i, j \in DOMAIN s : i < j => s[i].schedule <= s[j].schedule
ASSUME ListsOfTheRecruiter

\* A recruiter can open each job of his list, as an administrator can each
\* of his, which has no draft; an administrator's list of all jobs fails as
\* long as a job is left of a company that is deleted.
ManagedIsOpened ==
  \A db \in {d \in Databases : d.favourites = {} /\ d.applications = {}} :
    LET admin == Find(db, AdminFilter(<< >>))
    IN  /\ WithId(db.companies, "c2") # {} =>
             \A j \in Find(db, RecruiterFilter(db, << >>, "c2")) :
               ManagedOpened(db, j.id, "u2") = {j}
        /\ \A j \in admin : j.status # "DRAFT" /\ WithId(db.jobs, j.id) = {j}
        /\ ManagedListFails(db, AdminFilter(<< >>)) <=>
             \E j \in admin : j.company = "c2" /\ WithId(db.companies, "c2") = {}
ASSUME ManagedIsOpened

\* The list of a recruiter, which builds no query of its own unless it
\* searches, agrees with one that does on columns; it compares an address or
\* a salary for equality, and fails on the years of experience.
FilterPaths ==
  LET db == [Quiet EXCEPT !.jobs =
               {Job("j1", "c2", "k1", "OPEN", 6, 1, FALSE),
                Job("j2", "c2", "k2", "DRAFT", 6, 2, FALSE)}]
      Mine(dto) == RecruiterFilter(db, dto, "c2")
  IN  /\ \A s \in JobStatuses, k \in {"k1", "k2"} :
           Plain(db, Mine([status |-> s, category |-> k])) =
             Built(db, Mine([status |-> s, category |-> k]))
      /\ Find(db, Mine([address |-> "noi"])) = {}
      /\ Find(db, Mine([address |-> "noi", q |-> "job"])) = db.jobs
      /\ Find(db, Mine([salaryMin |-> 2])) = {}
      /\ Find(db, Mine([salaryMin |-> 2, q |-> "two"])) = db.jobs
      /\ FindFails(Mine([experienceYearsMin |-> 1]))
ASSUME FilterPaths

----------------------------------------------------------------------------
\* Three open jobs of any category and skills.
Weighted(job, weights) ==
  {[job |-> job, skill |-> w[1], weight |-> w[2], deleted |-> FALSE] : w \in weights}
Skilled ==
  {{}, {<<1, 1>>}, {<<2, 1>>}, {<<1, 1>>, <<2, 3>>}, {<<1, 0>>, <<2, 1>>}}
Offers ==
  {[Quiet EXCEPT
      !.jobs = {Job("j1", "c1", k[1], "OPEN", Never, 1, FALSE),
                Job("j2", "c2", k[2], "OPEN", 6, 2, FALSE),
                Job("j3", "c2", k[3], "OPEN", 6, 3, FALSE)},
      !.links = Weighted("j1", w[1]) \cup Weighted("j2", w[2]) \cup Weighted("j3", w[3])] :
     k \in [1 .. 3 -> {"k1", "k2"}], w \in [1 .. 3 -> Skilled]}
Pool(db) ==
  {j \in db.jobs : j.category = "k1" \/ \E l \in SkillsOf(db, j) : l.skill = 1}

\* The jobs recommended for a CV are the best of all that share its category
\* or a skill, while there are at most 40 of each; beyond, the newest are
\* chosen first and a better one may be missed.
RecommendedAreBest ==
  /\ \A db \in Offers : \A s \in Recommended(db, "visitor", {1}, "k1", 40, 2) :
       /\ Len(s) = Min({2, Cardinality(Pool(db))})
       /\ \A i, j \in DOMAIN s : i < j => ~Better(db, {1}, "k1", s[j], s[i])
       /\ \A o \in Pool(db) \ ToSet(s) :
            \A i \in DOMAIN s : ~Better(db, {1}, "k1", o, s[i])
  /\ \E db \in Offers : \E s \in Recommended(db, "visitor", {1}, "k1", 1, 2) :
       \E o \in Pool(db) \ ToSet(s) : Better(db, {1}, "k1", o, s[1])
ASSUME RecommendedAreBest

\* A category that is inactive or deleted recommends by skills alone; no
\* skill and no category recommend nothing.
NothingFromNothing ==
  \A db \in Offers :
    /\ Recommended(db, "visitor", {}, "k2", 40, 6) = {<<>>}
    /\ \A s \in Recommended(db, "visitor", {1}, "k2", 40, 6) :
         \A i \in DOMAIN s : Share(db, s[i], {1})[1] > 0
ASSUME NothingFromNothing

\* The related jobs are the ones with most skills in common, and being
\* related goes both ways.
RelatedAreBest ==
  \A db \in Offers : \A job \in db.jobs :
    /\ \A s \in Related(db, job, "visitor", 1) :
         \A o \in RelatedJobs(db, job, "visitor") :
           Overlap(db, job, s[1]) >= Overlap(db, job, o)
    /\ \A o \in RelatedJobs(db, job, "visitor") :
         job \in RelatedJobs(db, o, "visitor")
ASSUME RelatedAreBest

\* A job's skills are shown heaviest first; one of weight 0 counts as 1 in
\* the share and is shown last.
SkillsInOrder ==
  \A db \in Offers : \A j \in db.jobs : \A s \in ShownSkills(db, j) :
    /\ Len(s) = Cardinality(SkillsOf(db, j))
    /\ \A i \in DOMAIN s : s[i].weight = 0 => i = Len(s)
    /\ SumOf(SkillsOf(db, j)) >= Len(s)
ASSUME SkillsInOrder

\* The category with most jobs comes first, and no inactive one at all.
TopIsMost ==
  \A db \in Offers :
    LET more == [db EXCEPT !.categories = @ \cup
                   {[id |-> "k3", status |-> "ACTIVE", deleted |-> FALSE]}]
    IN  \A s \in TopCategories(more, 2) :
          /\ {s[1].id, s[2].id} = {"k1", "k3"}
          /\ s[1].jobs >= s[2].jobs
ASSUME TopIsMost

\* The favourites' total counts marks of deleted jobs, which no page shows.
FavouritesMayBeShort ==
  /\ \A db \in Databases : \A answer \in FavouriteList(db, "seeker", 1, 10) :
       Len(answer.items) <= answer.total
  /\ \E db \in Databases : \E answer \in FavouriteList(db, "seeker", 1, 10) :
       Len(answer.items) < answer.total
ASSUME FavouritesMayBeShort

----------------------------------------------------------------------------
Years == FirstDay(2024, 1) .. FirstDay(2028, 1)
Noons == {24 * day + 12 : day \in Years}
\* The days around which months, leap days and ISO years turn.
Turns ==
  {FirstDay(y, m) + d : y \in {2024, 2027}, m \in {1, 3, 4, 12}, d \in -1 .. 1}

\* The server's ISO weeks are those of the data base, and a bucket's start is
\* the first day of the bucket.
BucketsAreSound ==
  \A day \in Years :
    /\ GetIsoWeek(day) = SqlBucket(24 * day, "week", 0)
    /\ \A kind \in Kinds \ {"day"} :
         LET start == BucketStart(FormatBucket(day, kind), kind)
         IN  /\ start <= day
             /\ FormatBucket(start, kind) = FormatBucket(day, kind)
             /\ FormatBucket(start - 1, kind) # FormatBucket(day, kind)
ASSUME BucketsAreSound

\* A recruiter's buckets follow one another without a gap up to today's, so
\* that no row of the window is without one when server and data base use
\* one zone.
TrendIsWhole ==
  \A now \in Noons : \A kind \in Kinds \ {"day"} :
    LET b == RecruiterBuckets(now, kind)
    IN  /\ b[Len(b)] = FormatBucket(now \div 24, kind)
        /\ \A i \in 1 .. Len(b) - 1 :
             FormatBucket(BucketStart(b[i + 1], kind) - 1, kind) = b[i]
ASSUME TrendIsWhole

\* A job and an application to it, one created in each hour from -> to, and
\* their sum.
RowsOf(from, to) ==
  {[id |-> t, job |-> "j", company |-> "c", status |-> "OPEN", at |-> t, deleted |-> FALSE] :
     t \in from .. to}
Offer == {[id |-> "j", company |-> "c", deleted |-> FALSE]}
TotalOf(series) == FoldLeft(LAMBDA n, e : n + e.total, 0, series)

\* With a server in UTC (.env.example) rows of the last seven hours before a
\* bucket turns are missing from the trend: the data base puts them in the
\* next one.  Only at such a turn is a row of the last day lost.
TrendLosesTheTurn ==
  \A day \in Turns : \A kind \in Kinds \ {"day"} : \A ahead \in {0, 7} :
    LET now == 24 * day + 23
        turns == FormatBucket(day + 1, kind) # FormatBucket(day, kind)
        total == TotalOf(RecruiterTrend(RowsOf(now - 23, now), Offer, "c", now, kind, ahead))
    IN  total = IF turns THEN 24 - ahead ELSE 24
ASSUME TrendLosesTheTurn

\* The growth by days has a bucket for each row of its window, and begins at
\* the present hour of its first day, which is counted in part.
GrowthByDays ==
  \A day \in {FirstDay(2024, 3), FirstDay(2027, 1) + 1} : \A hour \in {0, 12} :
    LET now == 24 * day + hour
        window == AdminWindow(now, 7)
        rows == RowsOf(window.start - 24, now)
        series == AdminJobGrowth(rows, now, 7, "day", 0)
    IN  /\ \A range \in Ranges :
             DefaultKind(range) = "day" =>
               Len(AdminBuckets(AdminWindow(now, range), "day")) = range
        /\ TotalOf(series) = 24 * 6 + 1
        /\ series[1].total = 24 - hour
        /\ UserGrowth(rows, window, "day", 0) = JobGrowth(rows, window, "day", 0)
        /\ ApplicationGrowth(rows, window, "day", 0) = JobGrowth(rows, window, "day", 0)
ASSUME GrowthByDays

\* The growth by months and quarters has no bucket for the present one
\* unless it is asked for at midnight: the loop compares the hour of the
\* request with the midnight of the last first day.
GrowthLosesThePresent ==
  \A day \in Turns : \A hour \in {0, 12} : \A kind \in {"month", "quarter"} :
    \A range \in Ranges :
      LET window == AdminWindow(24 * day + hour, range)
          buckets == AdminBuckets(window, kind)
          present == FormatBucket(day, kind)
      IN  present \in ToSet(buckets) <=> hour = 0
ASSUME GrowthLosesThePresent

\* On a leap day the year before begins a month late.
LeapDay ==
  /\ YearBefore(FirstDay(2024, 3) - 1) = FirstDay(2023, 3)
  /\ YearBefore(FirstDay(2024, 3) - 2) = FirstDay(2023, 2)
ASSUME LeapDay

\* A deadline given as a date holds for all of that day in Vietnam, and a
\* date that does not exist is one of the next month.
DeadlineIsWholeDay ==
  \A day \in Turns :
    LET input == [form |-> "date", y |-> YearOf(day), m |-> MonthOf(day), d |-> DateOf(day)]
        hours == {24 * day + h - VietnamOffset : h \in 0 .. 23}
    IN  /\ ParseDateTime(input) = Min(hours)
        /\ ParseExpiredAt(input) = Max(hours)
        /\ ParseExpiredAt([form |-> "zoned", at |-> ParseExpiredAt(input)]) = Max(hours)
        /\ ParseExpiredAt([form |-> "text"]) = Refused
ASSUME DeadlineIsWholeDay
ASSUME ParseDateTime([form |-> "date", y |-> 2026, m |-> 2, d |-> 31])
         = ParseDateTime([form |-> "local", y |-> 2026, m |-> 3, d |-> 3, h |-> 0])
=============================================================================
