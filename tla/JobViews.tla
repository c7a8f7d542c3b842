------------------------------ MODULE JobViews ------------------------------
(***************************************************************************)
(* What the lists, details, recommendations and dashboards show of jobs    *)
(* and applications: the queries as operators on the rows of the data base *)
(* at one instant.  A data base is a record                                *)
(*   [now, users, profiles, companies, categories, skills, jobs, links,    *)
(*    favourites, applications]                                            *)
(* of sets of rows; a link gives a job a skill with a weight.  A filter is *)
(* a record with the fields a request gives.  A row's slug is its id.      *)
(***************************************************************************)
EXTENDS Integers, FiniteSets, FiniteSetsExt, SequencesExt, TLC

Never == 0     \* the column expired_at is NULL
NoCategory == "none"

Live(rows) == {r \in rows : ~r.deleted}
WithId(rows, id) == {r \in Live(rows) : r.id = id}
Given(f, field) == field \in DOMAIN f

\* The orders in which the data base may return rows: sorted by Before,
\* rows that tie in any order.
Orders(rows, Before(_, _)) ==
  {s \in SetToSeqs(rows) :
     \A i, j \in DOMAIN s : i < j => ~Before(s[j], s[i])}
Newest(a, b) == a.created > b.created
\* The first place where two ranks differ decides, the larger first.
Ahead(x, y) ==
  \E k \in DOMAIN x : x[k] > y[k] /\ \A i \in 1 .. k - 1 : x[i] = y[i]
Paged(s, page, limit) ==
  SubSeq(s, (page - 1) * limit + 1, Min({page * limit, Len(s)}))
Pages(total, limit) == (total + limit - 1) \div limit

----------------------------------------------------------------------------
\* Companies a visitor sees: of a recruiter who is active.
PublicCompanies(db) ==
  {c \in Live(db.companies) :
     \E u \in Live(db.users) :
        u.id = c.owner /\ u.role = "RECRUITER" /\ u.status = "ACTIVE"}
FindPublic(db, f) ==
  {c \in PublicCompanies(db) :
     /\ Given(f, "q") => f.q \in c.words
     /\ \A k \in DOMAIN f \ {"q"} : c[k] = f[k]}
HasActiveOwner(db, job) == \E c \in PublicCompanies(db) : c.id = job.company

NotExpired(db, job) == job.expires = Never \/ job.expires > db.now
IsOpen(db, job) == job.status = "OPEN" /\ NotExpired(db, job)
SkillsOf(db, job) == {l \in Live(db.links) : l.job = job.id}

\* JobTypeormRepository.find: one of these fields makes it build a query of
\* its own, else BaseTypeormRepository.find compares columns.
UsesBuilder(f) ==
  DOMAIN f \cap {"notExpired", "skillIds", "q", "expiredAtBefore",
                 "excludedStatuses", "excludedJobIds"} # {}
Column == {"status", "company", "category"}
Ranged == {"salaryMin", "salaryMax", "address"}
Built(db, f) ==
  {j \in Live(db.jobs) :
     /\ Given(f, "notExpired") => NotExpired(db, j)
     /\ Given(f, "expiredAtBefore") =>
          j.expires # Never /\ j.expires < f.expiredAtBefore
     /\ Given(f, "activeOwnerOnly") => HasActiveOwner(db, j)
     /\ Given(f, "skillIds") =>
          \E l \in SkillsOf(db, j) : l.skill \in f.skillIds
     /\ Given(f, "salaryMin") => j.salaryMax >= f.salaryMin
     /\ Given(f, "salaryMax") => j.salaryMin <= f.salaryMax
     /\ Given(f, "address") => f.address \in j.address
     /\ Given(f, "excludedStatuses") => j.status \notin f.excludedStatuses
     /\ Given(f, "excludedJobIds") => j.id \notin f.excludedJobIds
     /\ \A k \in DOMAIN f \cap Column : j[k] = f[k]
     /\ Given(f, "q") =>
          \/ f.q \in j.words
          \/ \E c \in WithId(db.companies, j.company) : f.q \in c.words}
\* A field that is no column is an error of the mapper; a column whose field
\* means a range or a part of the text is compared for equality.
PlainFails(f) == DOMAIN f \ (Column \cup Ranged) # {}
Plain(db, f) ==
  {j \in Live(db.jobs) :
     /\ \A k \in DOMAIN f \ {"address"} : j[k] = f[k]
     /\ Given(f, "address") => j.address = {f.address}}
FindFails(f) == ~UsesBuilder(f) /\ PlainFails(f)
Find(db, f) == IF UsesBuilder(f) THEN Built(db, f) ELSE Plain(db, f)

----------------------------------------------------------------------------
ActiveStatus == {"APPLIED", "INTERVIEW", "ACCEPTED"}
\* Jobs a user has marked or applied to are left out of what he is shown.
ExcludedJobIds(db, user) ==
  {f.job : f \in {g \in db.favourites : g.user = user}} \cup
  {a.job : a \in {b \in Live(db.applications) :
                    b.user = user /\ b.status \in ActiveStatus}}
Excluding(ids) == IF ids = {} THEN << >> ELSE [excludedJobIds |-> ids]

PublicFilter(db, dto, user) ==
  dto @@ [status |-> "OPEN", notExpired |-> TRUE, activeOwnerOnly |-> TRUE]
      @@ Excluding(ExcludedJobIds(db, user))
AdminFilter(dto) == dto @@ [excludedStatuses |-> {"DRAFT"}]
RecruiterFilter(db, dto, company) == [company |-> company] @@ dto

\* One page of a list: what was found, then what of it is shown.
List(found, shown, page, limit) ==
  {[items |-> SelectSeq(Paged(s, page, limit), LAMBDA j : j \in shown),
    total |-> Cardinality(found)] : s \in Orders(found, Newest)}
PublicList(db, dto, user, page, limit) ==
  LET found == Find(db, PublicFilter(db, dto, user))
  IN  List(found, {j \in found : HasActiveOwner(db, j)}, page, limit)
\* The lists of administrators and recruiters fail for a job of a company
\* that is deleted.
ManagedListFails(db, filter) ==
  \E j \in Find(db, filter) : WithId(db.companies, j.company) = {}

\* The detail of a job, and the skills it shows in order.
Opened(db, slug) ==
  {j \in WithId(db.jobs, slug) : IsOpen(db, j) /\ HasActiveOwner(db, j)}
ManagedOpened(db, slug, recruiter) ==
  {j \in WithId(db.jobs, slug) :
     \E c \in WithId(db.companies, j.company) : c.owner = recruiter}
ShownSkills(db, job) ==
  Orders({l \in SkillsOf(db, job) : WithId(db.skills, l.skill) # {}},
         LAMBDA a, b : Ahead(<<a.weight, -a.skill>>, <<b.weight, -b.skill>>))

\* The jobs of a company's page, and the number its card shows.
CompanyJobs(db, slug, user) ==
  {j \in Find(db, PublicFilter(db, [company |-> slug], user)) :
     \E c \in PublicCompanies(db) : c.id = slug}
OpenJobCount(db, company) ==
  Cardinality({j \in Live(db.jobs) : j.company = company /\ IsOpen(db, j)})

----------------------------------------------------------------------------
\* Jobs related to one that can be opened, the best first.
Overlap(db, job, other) ==
  Cardinality({l.skill : l \in SkillsOf(db, job)} \cap
              {l.skill : l \in SkillsOf(db, other)})
SameCategory(a, category) ==
  IF category # NoCategory /\ a.category = category THEN 1 ELSE 0
RelatedJobs(db, job, user) ==
  {o \in Live(db.jobs) :
     /\ HasActiveOwner(db, o)
     /\ o.id # job.id
     /\ o.id \notin ExcludedJobIds(db, user)
     /\ IsOpen(db, o)
     /\ Overlap(db, job, o) > 0 \/ SameCategory(o, job.category) = 1}
RelatedRank(db, job, o) ==
  <<Overlap(db, job, o), SameCategory(o, job.category), o.created>>
Related(db, job, user, limit) ==
  {Paged(s, 1, limit) :
     s \in Orders(RelatedJobs(db, job, user),
                  LAMBDA a, b : Ahead(RelatedRank(db, job, a), RelatedRank(db, job, b)))}

\* Jobs recommended for the skills of a CV and the category of its
\* analysis: the newest Cap of each, then the share of the weights the CV
\* has, then the category, then the date.  The share is <<part, whole>>.
WeightOfLink(l) == IF l.weight = 0 THEN 1 ELSE l.weight
SumOf(links) == FoldSet(LAMBDA l, n : n + WeightOfLink(l), 0, links)
Share(db, job, cvSkills) ==
  LET links == SkillsOf(db, job)
  IN  IF links = {} THEN <<0, 1>>
      ELSE <<SumOf({l \in links : l.skill \in cvSkills}), SumOf(links)>>
Better(db, cvSkills, category, a, b) ==
  LET x == Share(db, a, cvSkills)  y == Share(db, b, cvSkills)
  IN  Ahead(<<x[1] * y[2], SameCategory(a, category), a.created>>,
            <<y[1] * x[2], SameCategory(b, category), b.created>>)
ActiveCategory(db, slug) ==
  IF \E c \in WithId(db.categories, slug) : c.status = "ACTIVE" THEN slug ELSE NoCategory
Candidates(db, filter, cap) ==
  {ToSet(Paged(s, 1, cap)) : s \in Orders(Find(db, filter), Newest)}
Recommended(db, user, cvSkills, suggested, cap, limit) ==
  LET category == ActiveCategory(db, suggested)
      ofCategory ==
        IF category = NoCategory THEN {{}}
        ELSE Candidates(db, PublicFilter(db, [category |-> category], user), cap)
      ofSkills ==
        IF cvSkills = {} THEN {{}}
        ELSE Candidates(db, PublicFilter(db, [skillIds |-> cvSkills], user), cap)
      Sorted(jobs) ==
        Orders(jobs, LAMBDA x, y : Better(db, cvSkills, category, x, y))
  IN  {Paged(s, 1, limit) :
         s \in UNION {Sorted(a \cup b) : a \in ofCategory, b \in ofSkills}}

\* The favourites of a user: a mark of a deleted job counts and is not shown.
FavouriteList(db, user, page, limit) ==
  LET marks == {f \in db.favourites : f.user = user}
  IN  {[items |-> SelectSeq(Paged(s, page, limit),
                            LAMBDA f : WithId(db.jobs, f.job) # {}),
        total |-> Cardinality(marks)] : s \in Orders(marks, Newest)}

\* Categories a visitor sees, and the number of jobs of each: open or
\* expired ones, whatever their date.
ActiveCategories(db) == {c \in Live(db.categories) : c.status = "ACTIVE"}
CategoryJobCount(db, category) ==
  Cardinality({j \in Live(db.jobs) :
                 /\ j.category = category
                 /\ j.status \in {"OPEN", "EXPIRED"}
                 /\ HasActiveOwner(db, j)})
TopCategories(db, limit) ==
  {Paged(s, 1, limit) :
     s \in Orders({[id |-> c.id, jobs |-> CategoryJobCount(db, c.id)] :
                     c \in ActiveCategories(db)},
                  LAMBDA a, b : a.jobs > b.jobs)}

----------------------------------------------------------------------------
\* The numbers of the dashboards.
Submitted(db) == {j \in Live(db.jobs) : j.status # "DRAFT"}
JobSummary(db) ==
  [totalJobs |-> Cardinality(Submitted(db)),
   totalOpenJobs |-> Cardinality({j \in Submitted(db) : IsOpen(db, j)}),
   totalPendingJobs |->
     Cardinality({j \in Submitted(db) : j.status = "PENDING"})]
UserSummary(db) ==
  LET users == {u \in Live(db.users) : u.role # "ADMIN"}
      Of(role) == Cardinality({u \in users : u.role = role})
  IN  [totalUsers |-> Cardinality(users),
       totalRecruiters |-> Of("RECRUITER"), totalJobSeekers |-> Of("JOB_SEEKER")]
TotalApplications(db) == Cardinality(Live(db.applications))
\* A search of users looks at their profile and their company too.
FindUsers(db, f) ==
  {u \in Live(db.users) :
     /\ \A k \in DOMAIN f \ {"q"} : u[k] = f[k]
     /\ Given(f, "q") =>
          \/ f.q \in u.words
          \/ \E p \in Live(db.profiles) : p.user = u.id /\ f.q \in p.words
          \/ \E c \in Live(db.companies) : c.owner = u.id /\ f.q \in c.words}

\* The applications of a company: those to a job that is not deleted.
Schedule(f, a) ==
  /\ Given(f, "from") => a.schedule # Never /\ a.schedule >= f.from
  /\ Given(f, "to") => a.schedule # Never /\ a.schedule <= f.to
  /\ Given(f, "scheduledOnly") => a.schedule # Never
ByCompany(db, company, f) ==
  {a \in Live(db.applications) :
     /\ \E j \in WithId(db.jobs, a.job) : j.company = company
     /\ Given(f, "status") => a.status \in f.status
     /\ Given(f, "job") => a.job = f.job
     /\ Schedule(f, a)}
\* Rows without a date come last; equal dates go by creation.
BySchedule(a, b) ==
  LET late(x) == IF x.schedule = Never THEN 1 ELSE 0
  IN  Ahead(<<late(b), b.schedule, b.created>>, <<late(a), a.schedule, a.created>>)
Interviews(db, company, f) ==
  Orders(ByCompany(db, company,
           f @@ [scheduledOnly |-> TRUE,
                 status |-> {"INTERVIEW", "ACCEPTED", "REJECTED"}]),
         BySchedule)
NewApplicants(db, company) ==
  Orders(ByCompany(db, company, [status |-> {"APPLIED"}]), Newest)
RecruiterSummary(db, company) ==
  LET jobs == {j \in Submitted(db) : j.company = company}
      applications == ByCompany(db, company, << >>)
  IN  [totalJobs |-> Cardinality(jobs),
       openJobs |-> Cardinality({j \in jobs : IsOpen(db, j)}),
       totalApplications |-> Cardinality(applications),
       upcomingInterviews |->
         Cardinality({a \in applications :
                        a.status = "INTERVIEW" /\ a.schedule # Never
                          /\ a.schedule >= db.now})]
\* The stream of recent activities: the newest few of each kind, then the
\* newest few of those.
RecentCreated(db, limit) ==
  {Paged(s, 1, limit) : s \in Orders(Submitted(db), Newest)}
Reviewed(db) ==
  {j \in Live(db.jobs) :
     /\ j.status \in {"OPEN", "REJECTED", "CLOSED", "EXPIRED"}
     /\ j.updated > j.created}
RecentReviewed(db, limit) ==
  {Paged(s, 1, limit) :
     s \in Orders(Reviewed(db), LAMBDA a, b : a.updated > b.updated)}
RecentApplications(db, limit) ==
  {Paged(s, 1, limit) : s \in Orders(Live(db.applications), Newest)}
RecentUsers(db, limit) ==
  {Paged(s, 1, limit) : s \in Orders(Live(db.users), Newest)}
Activity(kind, s, time) ==
  {[kind |-> kind, id |-> r.id, at |-> r[time]] : r \in ToSet(s)}
RecentActivities(db, limit) ==
  LET activities ==
        {Activity("user", u, "created") \cup Activity("job", c, "created")
           \cup Activity("review", r, "updated") \cup Activity("application", a, "created") :
           u \in RecentUsers(db, limit), c \in RecentCreated(db, limit),
           r \in RecentReviewed(db, limit), a \in RecentApplications(db, limit)}
  IN  {Paged(s, 1, limit) :
         s \in UNION {Orders(all, LAMBDA a, b : a.at > b.at) : all \in activities}}
=============================================================================
