------------------------------ MODULE Taxonomy ------------------------------
(***************************************************************************)
(* Skills and career categories, their names, slugs and parents, and what  *)
(* refers to them: a job (its category and its skills with weights), a     *)
(* company and the skills of a CV.  A request is the list of the           *)
(* statements it still has to await; each statement is one step, and       *)
(* requests interleave.                                                    *)
(***************************************************************************)
EXTENDS Naturals, Sequences, FiniteSets, SequencesExt

CONSTANTS
  Skills, Categories,   \* ids, of rows there are and of rows there may be
  Names,                \* of both
  Base,                 \* Base[n] is what buildSlugCandidate makes of name n
  Weights,              \* of a skill in a job
  Handlers,
  MaxFaults,            \* bound: statements that fail
  Clear,                \* null, sent for the parent of a skill
  None

ASSUME TaxonomyAssumption ==
  /\ Skills \cap Categories = {} /\ IsFiniteSet(Skills) /\ IsFiniteSet(Categories)
  /\ Base \in [Names -> Range(Base)]
  /\ Weights \subseteq Nat \ {0} /\ MaxFaults \in Nat
  /\ None \notin Skills \cup Categories \cup Names
  /\ Clear \notin Skills \cup {None}

\* The columns of both tables; a category has no category and no parent.
Row == [live : BOOLEAN, name : Names, slug : Range(Base) \X Nat,
        category : Categories \cup {None}, parent : Skills \cup {None}]

ASSUME NoneIsNoRow == None \notin Row /\ None \notin Range(Base) \X Nat

VARIABLES
  row,       \* the rows of both tables: None, or live or deleted with its columns
  jobCat,    \* the category of the job, or None
  needs,     \* job_skills: the weight of a skill, 0 if it has no row, and how
             \* many rows it has had, which says whether an id is still the row
  company,   \* the category of the company, or None
  linked,    \* cv_skills: the skills of the CV
  version,   \* of the details of jobs and CVs in Redis
  req,       \* the requests in flight
  spoilt,    \* a request has ended between its write and its bump
  faults

vars == <<row, jobCat, needs, company, linked, version, req, spoilt, faults>>
rows == <<row, jobCat, needs, company, linked>>

Ids == Skills \cup Categories
Idle == [at |-> "nothing", todo |-> <<>>]   \* nobody at work
Slug(n, k) == <<Base[n], k>>          \* base, base-2, base-3, ...

Live(i) == row[i] # None /\ row[i].live
LiveOf(K) == {i \in K : Live(i)}
Free(K) == {i \in K : row[i] = None}
RowsOf(K) == K \ Free(K)   \* deleted ones too
Needed == {s \in Skills : needs[s].weight > 0}

Named(K, n) == {i \in LiveOf(K) : row[i].name = n}
Slugged(K, g) == {i \in LiveOf(K) : row[i].slug = g}
InCategory(c) == {s \in LiveOf(Skills) : row[s].category = c}

\* What the columns can hold.
TablesOK ==
  /\ row \in [Ids -> Row \cup {None}]
  /\ {jobCat, company} \subseteq Categories \cup {None}
  /\ needs \in [Skills -> [weight : {0} \cup Weights, rows : Nat]]
  /\ linked \subseteq Skills

NoNeed == [weight |-> 0, rows |-> 0]

At(h, step) == req[h] # Idle /\ req[h].todo[1] = step

Begin(h, fields) ==
  /\ req[h] = Idle
  /\ req' = [req EXCEPT ![h] = fields]
  /\ UNCHANGED <<rows, version, spoilt, faults>>

After(r) == IF Len(r.todo) = 1 THEN Idle ELSE [r EXCEPT !.todo = Tail(@)]
Proceed(h) == req' = [req EXCEPT ![h] = After(@)]

\* A request that ends here has written a row and owes the bump for it.
Owes(h) ==
  LET todo == Range(req[h].todo)
  IN  (todo \cap {"bumpJob", "bumpCv"} # {}) /\ todo \cap {"write", "saveJob"} = {}

End(h) ==
  /\ req' = [req EXCEPT ![h] = Idle]
  /\ spoilt' = (spoilt \/ Owes(h))

\* A statement that only tests what it reads.
Test(h, step, ok) ==
  /\ At(h, step)
  /\ IF ok THEN Proceed(h) /\ UNCHANGED spoilt ELSE End(h)
  /\ UNCHANGED <<rows, version, faults>>

-----------------------------------------------------------------------------
\* The requests, with their statements in order.

\* The columns to write; a skill is given the slug it was read with.
Request(K, i, n, c, p, todo) ==
  [kind |-> K, id |-> i, name |-> n, category |-> c, parent |-> p, k |-> 1, todo |-> todo,
   slug |-> IF K = Skills /\ i # None THEN row[i].slug ELSE None]

\* Ids are taken when the row is written: as many as there are to take.
RoomFor(K) ==
  Cardinality({h \in Handlers : req[h] # Idle /\ req[h].id = None /\ req[h].kind = K})
    < Cardinality(Free(K))

CreateSkill(h) ==
  /\ RoomFor(Skills)
  /\ \E n \in Names, c \in Categories, p \in Skills \cup {None} :
       Begin(h, Request(Skills, None, n, c, p,
         <<"name", "category">> \o (IF p = None THEN <<>> ELSE <<"parent">>)
         \o <<"slug", "write">>))

\* What is not sent is None; a null for the parent is not tested.
Sends(n, c, p) ==
  (IF n = None THEN <<>> ELSE <<"name">>) \o (IF c = None THEN <<>> ELSE <<"category">>)
  \o (IF p \in {None, Clear} THEN <<>> ELSE <<"parent">>)

\* No other name is sent.
KeepsName(i, n) == n \in {None, row[i].name}

UpdateSkill_NoBump(h) ==   \* mutant: the cached views are forgotten
  \E i \in LiveOf(Skills), n \in Names \cup {None}, c \in Categories \cup {None},
     p \in Skills \cup {Clear, None} :
    Begin(h, Request(Skills, i, n, c, p,
      Sends(n, c, p) \o (IF KeepsName(i, n) THEN <<>> ELSE <<"slug">>)
      \o <<"write">>))

\* The slug follows a name that has changed.
UpdateSkill(h) ==
  \E i \in LiveOf(Skills), n \in Names \cup {None}, c \in Categories \cup {None},
     p \in Skills \cup {Clear, None} :
    Begin(h, Request(Skills, i, n, c, p,
      Sends(n, c, p) \o (IF KeepsName(i, n) THEN <<>> ELSE <<"slug">>)
      \o <<"write", "bumpJob", "bumpCv">>))

\* Nobody looks for skills that have this one as their parent.
DeleteSkill(h) ==
  \E i \in LiveOf(Skills) :
    Begin(h, Request(Skills, i, None, None, None, <<"uses", "drop">>))

RestoreSkill(h) ==
  \E i \in Skills :
    /\ row[i] # None /\ ~ Live(i)
    /\ Begin(h, Request(Skills, i, row[i].name, row[i].category, None,
                        <<"category", "name", "slugFree", "restore">>))

CreateCategory(h) ==
  /\ RoomFor(Categories)
  /\ \E n \in Names :
       Begin(h, Request(Categories, None, n, None, None, <<"name", "slug", "write">>))

UpdateCategory(h) ==
  \E i \in LiveOf(Categories), n \in Names :
    Begin(h, Request(Categories, i, n, None, None,
      <<"name">> \o (IF n = row[i].name THEN <<>> ELSE <<"slug">>)
      \o <<"write", "bumpJob">>))

DeleteCategory_KeepJobs(h) ==   \* mutant: the jobs of the category are not looked for
  \E i \in LiveOf(Categories) :
    Begin(h, Request(Categories, i, None, None, None, <<"skills", "companies", "drop">>))

DeleteCategory(h) ==
  \E i \in LiveOf(Categories) :
    Begin(h, Request(Categories, i, None, None, None,
                     <<"skills", "companies", "jobs", "drop">>))

RestoreCategory(h) ==
  \E i \in Categories :
    /\ row[i] # None /\ ~ Live(i)
    /\ Begin(h, Request(Categories, i, row[i].name, None, None,
                        <<"name", "slugFree", "restore">>))

\* The company moves to another category, or to none.
UpdateCompany(h) ==
  \E c \in Categories \cup {None} :
    Begin(h, Request({}, None, None, c, None,
      (IF c = None THEN <<>> ELSE <<"category">>) \o <<"saveCompany">>))

\* What a save reads and is sent, with its statements; "ask" is the list of
\* skills, if there is one.  A category of null is taken for one that is not
\* sent, until it is written.
JobSave(c, clears, ask, twice, todo) ==
  [kind |-> {}, id |-> None, name |-> None, category |-> c, clears |-> clears,
   effective |-> IF c = None THEN jobCat ELSE c,
   ask |-> ask, twice |-> twice, had |-> needs, left |-> {},
   todo |-> (IF c = None THEN <<>> ELSE <<"category">>)
            \o (IF ask = None THEN <<>> ELSE <<"askedSkills">>) \o todo]

UpdateJob_BumpFirst(h) ==   \* mutant: the bump comes before the skills
  \E c \in Categories \cup {None}, ask \in [Skills -> {0} \cup Weights] :
    Begin(h, JobSave(c, FALSE, ask, FALSE, <<"saveJob", "bumpJob", "rows", "put", "prune">>))

\* The save of a job with another category, other skills or both; no skills
\* at all is a list too.  A list may name a skill twice.
UpdateJob(h) ==
  \E c \in Categories \cup {None}, ask \in [Skills -> {0} \cup Weights] \cup {None},
     clears \in BOOLEAN, twice \in BOOLEAN :
    /\ clears => c = None
    /\ twice => ask # None /\ \E s \in Skills : ask[s] > 0
    /\ Begin(h, JobSave(c, clears, ask, twice,
         <<"saveJob">> \o (IF ask = None THEN <<>> ELSE <<"rows", "put", "prune">>)
         \o <<"bumpJob">>))

-----------------------------------------------------------------------------
\* The statements that test.

Name(h) == Test(h, "name", Named(req[h].kind, req[h].name) \subseteq {req[h].id})
Category(h) == Test(h, "category", Live(req[h].category))
Parent(h) == Test(h, "parent", req[h].parent # req[h].id /\ Live(req[h].parent))
SlugFree(h) == Test(h, "slugFree",
  Slugged(req[h].kind, row[req[h].id].slug) \subseteq {req[h].id})
Uses(h) == Test(h, "uses", req[h].id \notin Needed \cup linked)
SkillsOf(h) == Test(h, "skills", InCategory(req[h].id) = {})
CompaniesOf(h) == Test(h, "companies", company # req[h].id)
JobsOf(h) == Test(h, "jobs", jobCat # req[h].id)

\* Every skill asked for is live and of the category the job will have.
AskedSkills(h) == Test(h, "askedSkills",
  \A s \in Skills : req[h].ask[s] > 0 =>
    Live(s) /\ (req[h].effective = None \/ row[s].category = req[h].effective))

\* One round of generateUniqueSlug: a candidate that is taken makes way for
\* the next one.
FindSlug(h) ==
  /\ At(h, "slug")
  /\ LET candidate == Slug(req[h].name, req[h].k)
     IN  req' = [req EXCEPT ![h] =
                   IF Slugged(req[h].kind, candidate) \subseteq {req[h].id}
                     THEN [After(@) EXCEPT !.slug = candidate]
                     ELSE [@ EXCEPT !.k = req[h].k + 1]]
  /\ UNCHANGED <<rows, version, spoilt, faults>>

-----------------------------------------------------------------------------
\* The statements that write.

\* The partial unique indices on the name and on the slug of live skills.
SkillRefused(i, new) ==
  new.live /\ \E j \in LiveOf(Skills) \ {i} : row[j].name = new.name \/ row[j].slug = new.slug

\* The unique slug of categories, deleted ones too: what was found free among
\* the live ones may still be refused.  Their names are in no index.
CategoryRefused(i, new) == \E j \in RowsOf(Categories) \ {i} : row[j].slug = new.slug

IndexRefuses(h, new) ==
  IF req[h].kind = Skills THEN SkillRefused(req[h].id, new) ELSE CategoryRefused(req[h].id, new)

\* Columns that are not sent stay; a new slug is the one that was found free.
Columns(h) ==
  LET r == req[h]
      Stays(x) == x = None /\ r.id # None
      Sent(x, column) == IF Stays(x) THEN row[r.id][column] ELSE x
  IN  [live |-> r.id = None \/ row[r.id].live, name |-> Sent(r.name, "name"),
       slug |-> Sent(r.slug, "slug"),
       category |-> IF r.kind = Skills THEN Sent(r.category, "category") ELSE None,
       parent |-> IF r.parent = Clear THEN None ELSE Sent(r.parent, "parent")]

\* The INSERT or the UPDATE, which does not look whether the row is still live.
Write(h) ==
  /\ At(h, "write")
  /\ IF IndexRefuses(h, Columns(h))
       THEN End(h) /\ UNCHANGED row
       ELSE /\ row' = [row EXCEPT ![IF req[h].id = None
                                      THEN CHOOSE i \in Free(req[h].kind) : TRUE
                                      ELSE req[h].id] = Columns(h)]
            /\ Proceed(h)
            /\ UNCHANGED spoilt
  /\ UNCHANGED <<jobCat, needs, company, linked, version, faults>>

SetLive(h, live) ==
  /\ row' = [row EXCEPT ![req[h].id].live = live]
  /\ Proceed(h)
  /\ UNCHANGED <<jobCat, needs, company, linked, version, spoilt, faults>>

Drop(h) == At(h, "drop") /\ SetLive(h, FALSE)

Restore(h) ==
  /\ At(h, "restore")
  /\ IF IndexRefuses(h, [row[req[h].id] EXCEPT !.live = TRUE])
       THEN End(h) /\ UNCHANGED <<rows, version, faults>>
       ELSE SetLive(h, TRUE)

SaveCompany(h) ==
  /\ At(h, "saveCompany")
  /\ company' = req[h].category
  /\ Proceed(h)
  /\ UNCHANGED <<row, jobCat, needs, linked, version, spoilt, faults>>

\* The columns of the job are saved before its skills are looked at.
SaveJob(h) ==
  /\ At(h, "saveJob")
  /\ jobCat' = IF req[h].category = None /\ ~ req[h].clears
                 THEN jobCat ELSE req[h].category
  /\ Proceed(h)
  /\ UNCHANGED <<row, needs, company, linked, version, spoilt, faults>>

\* syncJobSkills refuses a list that names a skill twice, then reads the rows
\* the job has.
ReadRows(h) ==
  /\ At(h, "rows")
  /\ IF req[h].twice
       THEN End(h)
       ELSE /\ req' = [req EXCEPT ![h] = [After(@) EXCEPT !.had = needs,
                                   !.left = {s \in Skills : req[h].ask[s] > 0}]]
            /\ UNCHANGED spoilt
  /\ UNCHANGED <<rows, version, faults>>

\* One skill of the list: a row is made, unless the unique index refuses it,
\* or the weight of the row read before is set, if it was another and that row
\* is still there.
PutSkill(h) ==
  /\ At(h, "put")
  /\ \/ /\ req[h].left = {}
        /\ req' = [req EXCEPT ![h] = [After(@) EXCEPT
             !.left = {s \in Skills : req[h].had[s].weight > 0 /\ req[h].ask[s] = 0}]]
        /\ UNCHANGED <<needs, spoilt>>
     \/ \E s \in req[h].left :
          LET had == req[h].had[s]
              weight == req[h].ask[s]
              now == needs[s]
          IN  IF had.weight = 0 /\ now.weight > 0
              THEN End(h) /\ UNCHANGED needs
              ELSE /\ needs' = [needs EXCEPT ![s] =
                        CASE had.weight = 0 -> [weight |-> weight, rows |-> now.rows + 1]
                          [] /\ had.weight \notin {0, weight}
                             /\ had.rows = now.rows /\ now.weight > 0
                               -> [now EXCEPT !.weight = weight]
                          [] OTHER -> now]
                   /\ req' = [req EXCEPT ![h].left = @ \ {s}]
                   /\ UNCHANGED spoilt
  /\ UNCHANGED <<row, jobCat, company, linked, version, faults>>

\* The rows that were read and not asked for are deleted, one by one.
PruneSkill(h) ==
  /\ At(h, "prune")
  /\ \/ /\ req[h].left = {}
        /\ Proceed(h)
        /\ UNCHANGED needs
     \/ \E s \in req[h].left :
          /\ needs' = IF needs[s].rows = req[h].had[s].rows
                        THEN [needs EXCEPT ![s].weight = 0] ELSE needs
          /\ req' = [req EXCEPT ![h].left = @ \ {s}]
  /\ UNCHANGED <<row, jobCat, company, linked, version, spoilt, faults>>

BumpJob(h) ==
  /\ At(h, "bumpJob")
  /\ version' = [version EXCEPT !.job = @ + 1]
  /\ Proceed(h)
  /\ UNCHANGED <<rows, spoilt, faults>>

BumpCv(h) ==
  /\ At(h, "bumpCv")
  /\ version' = [version EXCEPT !.cv = @ + 1]
  /\ Proceed(h)
  /\ UNCHANGED <<rows, spoilt, faults>>

\* A statement fails, and with it the request.
Abort(h) ==
  /\ req[h] # Idle
  /\ faults < MaxFaults
  /\ faults' = faults + 1
  /\ End(h)
  /\ UNCHANGED <<rows, version>>

-----------------------------------------------------------------------------
Arrive(h) ==
  \/ CreateSkill(h) \/ UpdateSkill(h) \/ DeleteSkill(h) \/ RestoreSkill(h)
  \/ CreateCategory(h) \/ UpdateCategory(h) \/ DeleteCategory(h) \/ RestoreCategory(h)
  \/ UpdateCompany(h) \/ UpdateJob(h)

Statement(h) ==
  \/ Name(h) \/ Category(h) \/ Parent(h) \/ FindSlug(h) \/ SlugFree(h) \/ Uses(h)
  \/ SkillsOf(h) \/ CompaniesOf(h) \/ JobsOf(h) \/ AskedSkills(h)
  \/ Write(h) \/ Drop(h) \/ Restore(h) \/ SaveCompany(h)
  \/ SaveJob(h) \/ ReadRows(h) \/ PutSkill(h) \/ PruneSkill(h)
  \/ BumpJob(h) \/ BumpCv(h) \/ Abort(h)

\* What the unique slug and the foreign key see to: no two categories, live
\* or deleted, have one slug, and the parent of a skill is another skill that
\* is there, live or deleted.
TablesAreWhole ==
  /\ \A i, j \in RowsOf(Categories) : row[i].slug = row[j].slug => i = j
  /\ \A s \in RowsOf(Skills) : row[s].parent \in (RowsOf(Skills) \ {s}) \cup {None}

\* The live categories have different names, which no index sees to, and what
\* a skill, the job and the company have for a category, and the job and the
\* CV for skills, is live, which no foreign key sees to, as a deleted row stays
\* in its table.  Every such reference is checked when it is made and every
\* such use when a row is deleted, in different requests, so that it holds
\* while they run one at a time.  Nothing is said of a parent being live: no
\* deletion looks for children, and no restoration for the parent.
CatalogueIsSound ==
  /\ TablesAreWhole
  /\ \A i, j \in LiveOf(Categories) : row[i].name = row[j].name => i = j
  /\ {row[s].category : s \in LiveOf(Skills)} \cup {jobCat, company}
       \subseteq LiveOf(Categories) \cup {None}
  /\ Needed \cup linked \subseteq LiveOf(Skills)
=============================================================================
