------------------------------ MODULE JobMatch ------------------------------
(***************************************************************************)
(* The match of one CV with one open job: an analysis that replaces what   *)
(* is known of the CV and its skills, calculations that read job, CV,      *)
(* skills and categories one after the other and keep the result in Redis  *)
(* and in a row, and the requests of Taxonomy that change all of these.    *)
(* How an analysis comes to be started and retried is in CvAnalysis.       *)
(***************************************************************************)
EXTENDS Taxonomy, CvMatching

CONSTANTS
  Text,               \* the words of the CV
  Years,              \* of experience the job wants
  Answers,            \* of the provider
  Calculators

VARIABLES
  parsed,    \* the newest row of cv_parsed_data: its status, the category
             \* suggested and the experience
  worker,    \* the analysis at work
  calc,      \* the calculations at work
  cached,    \* the result in Redis, and the versions it is stored under
  match      \* job_matches: the results saved for the CV and the job

matching == <<parsed, worker, calc, cached, match>>
allVars == <<vars, matching>>

NoResult == [score |-> -1]
Entry(job, cv, result) == [job |-> job, cv |-> cv, result |-> result]

SlugOf(c) == IF c # None /\ Live(c) THEN row[c].slug ELSE None
NamesOf(S) == {row[s].name : s \in LiveOf(S)}
WeightsOf(n) == [s \in Skills |-> n[s].weight]

-----------------------------------------------------------------------------
\* The analysis.
WorkerAt(at) == worker # Idle /\ worker.at = at

GiveUp ==
  /\ worker' = Idle
  /\ parsed' = [parsed EXCEPT !.status = "failed"]

\* The row is PROCESSING.
StartAnalysis ==
  /\ worker = Idle
  /\ worker' = [at |-> "request"]
  /\ parsed' = [parsed EXCEPT !.status = "processing"]
  /\ UNCHANGED <<vars, calc, cached, match>>

\* What the provider is offered, from all live skills and from a page of the
\* live categories, which may be more than go on it.
BuildRequest ==
  LET Columned(K) == {row[i] : i \in LiveOf(K)}
      skills == Columned(Skills)
  IN  /\ WorkerAt("request")
      /\ \E known \in SUBSET LiveOf(Categories) : \E top \in Tops(known, skills, Text) :
           \E chosen \in Candidates(skills, top, Text) :
             worker' = [at |-> "answer", tops |-> {row[c].slug : c \in top},
                        offered |-> {s.slug : s \in chosen}]
      /\ UNCHANGED <<vars, parsed, calc, cached, match>>

\* The provider answers, with slugs it was offered or others; an answer that
\* is not refused is put in order and verified.
Answer ==
  /\ WorkerAt("answer")
  /\ \E answer \in Answers, c \in Categories \cup {None} :
       LET found == Normalize([answer EXCEPT !.category = SlugOf(c)])
           verified == Verify(found, worker.offered, worker.tops, None)
       IN  IF ValidAnswer(answer)
           THEN /\ worker' = [at |-> "complete", skill |-> None, offered |-> worker.offered,
                             named |-> {found.skills[i].slug : i \in DOMAIN found.skills},
                             skills |-> verified.skills, category |-> verified.category,
                             months |-> verified.months, listed |-> verified.listed]
                /\ UNCHANGED parsed
           ELSE GiveUp
  /\ UNCHANGED <<vars, calc, cached, match>>

Complete ==
  /\ WorkerAt("complete")
  /\ parsed' = [status |-> "completed", category |-> worker.category,
                months |-> worker.months, listed |-> worker.listed]
  /\ worker' = [worker EXCEPT !.at = "clear"]
  /\ UNCHANGED <<vars, calc, cached, match>>

ClearSkills ==
  /\ WorkerAt("clear")
  /\ linked' = {}
  /\ worker' = [worker EXCEPT !.at = "find"]
  /\ UNCHANGED <<row, jobCat, needs, company, version, req, spoilt, faults,
                 parsed, calc, cached, match>>

\* The next skill of the answer, looked up by its slug among the skills that
\* are live by now; or all are done.
FindSkill ==
  /\ WorkerAt("find")
  /\ worker' =
       IF worker.skills = <<>> THEN [worker EXCEPT !.at = "bump"]
       ELSE LET found == Slugged(Skills, Head(worker.skills).slug)
            IN  IF found = {} THEN [worker EXCEPT !.skills = Tail(@)]
                ELSE [worker EXCEPT !.at = "link", !.skill = CHOOSE s \in found : TRUE]
  /\ UNCHANGED <<vars, parsed, calc, cached, match>>

\* The insert fails if the CV has the skill already.
LinkSkill ==
  /\ WorkerAt("link")
  /\ IF worker.skill \in linked
       THEN GiveUp /\ UNCHANGED linked
       ELSE /\ linked' = linked \cup {worker.skill}
            /\ worker' = [worker EXCEPT !.at = "find", !.skills = Tail(@), !.skill = None]
            /\ UNCHANGED parsed
  /\ UNCHANGED <<row, jobCat, needs, company, version, req, spoilt, faults,
                 calc, cached, match>>

BumpAnalysis ==
  /\ WorkerAt("bump")
  /\ version' = [version EXCEPT !.cv = @ + 1]
  /\ worker' = Idle
  /\ UNCHANGED <<rows, req, spoilt, faults, parsed, calc, cached, match>>

\* A statement fails, the row becomes FAILED and the exception goes on.
FailAnalysis ==
  /\ worker # Idle
  /\ faults < MaxFaults
  /\ faults' = faults + 1
  /\ GiveUp
  /\ UNCHANGED <<rows, version, req, spoilt, calc, cached, match>>

-----------------------------------------------------------------------------
\* The calculation.
CalcAt(k, at) == calc[k] # Idle /\ calc[k].at = at

\* Its memory grows by what a statement reads.
With(memory, what) ==
  [f \in DOMAIN memory \cup DOMAIN what |-> IF f \in DOMAIN what THEN what[f] ELSE memory[f]]

Learn(k, at, what) ==
  /\ calc' = [calc EXCEPT ![k] = With([@ EXCEPT !.at = at], what)]
  /\ UNCHANGED <<vars, parsed, worker, cached, match>>

ReadJob(k) ==
  /\ calc[k] = Idle
  /\ calc' = [calc EXCEPT ![k] = [at |-> "parsed", jobCat |-> jobCat]]
  /\ UNCHANGED <<vars, parsed, worker, cached, match>>

ReadParsed(k) ==
  /\ CalcAt(k, "parsed")
  /\ IF parsed.status = "completed"
       THEN Learn(k, "jobVersion", [parsed |-> parsed])
       ELSE /\ calc' = [calc EXCEPT ![k] = Idle]
            /\ UNCHANGED <<vars, parsed, worker, cached, match>>

ReadJobVersion(k) ==
  CalcAt(k, "jobVersion") /\ Learn(k, "cvVersion", [job |-> version.job])
ReadCvVersion(k) ==
  CalcAt(k, "cvVersion") /\ Learn(k, "cached", [cv |-> version.cv])

Hit(k) == cached.job = calc[k].job /\ cached.cv = calc[k].cv

\* An entry that has ended, or cannot be read, is a miss.
ReadCached(k) ==
  /\ CalcAt(k, "cached")
  /\ \/ Hit(k) /\ Learn(k, "find", [result |-> cached.result, stored |-> TRUE])
     \/ Learn(k, "links", [stored |-> FALSE])

ReadLinks(k) ==
  CalcAt(k, "links") /\ Learn(k, "skills", [has |-> linked, weight |-> WeightsOf(needs)])

\* The live rows of these skills: is one of the CV in the job's category, and
\* which words does the job add to its own.
ReadSkills(k) ==
  /\ CalcAt(k, "skills")
  /\ LET r == calc[k]
         wanted == {s \in Skills : r.weight[s] > 0}
     IN  Learn(k, "category",
           [hasSkill |-> r.jobCat # None /\ InCategory(r.jobCat) \cap r.has # {},
            words |-> NamesOf(wanted)])

Result(jobSlug, cv, has, weight, hasSkill, words) ==
  LET skill == SkillMatch(weight, has)
      category == CategoryMatch(cv.category, jobSlug, hasSkill, None)
      experience == ExperienceMatch(cv.months, cv.listed, Years)
      similarity == Similarity(Text, words)
  IN  [score |-> Total(skill, experience, category, similarity), skill |-> skill,
       category |-> category, experience |-> experience, similarity |-> similarity]

ReadCategory(k) ==
  /\ CalcAt(k, "category")
  /\ LET r == calc[k]
     IN  calc' = [calc EXCEPT ![k] =
           [at |-> "find", job |-> r.job, cv |-> r.cv, stored |-> FALSE,
            result |-> Result(SlugOf(r.jobCat), r.parsed, r.has, r.weight,
                              r.hasSkill, r.words)]]
  /\ UNCHANGED <<vars, parsed, worker, cached, match>>

\* upsertByCvIdAndJobId looks for a row, any of them if there are more.
FindMatch(k) ==
  /\ CalcAt(k, "find")
  /\ \E i \in IF match = <<>> THEN {0} ELSE DOMAIN match :
       Learn(k, "save", [old |-> i])

SaveMatch(k) ==
  /\ CalcAt(k, "save")
  /\ LET r == calc[k]
     IN  /\ match' = IF r.old = 0 THEN Append(match, r.result)
                     ELSE [match EXCEPT ![r.old] = r.result]
         /\ calc' = [calc EXCEPT ![k] = IF r.stored THEN Idle ELSE [@ EXCEPT !.at = "store"]]
  /\ UNCHANGED <<vars, parsed, worker, cached>>

\* Only the entry under the newest versions is ever read again.
StoreResult(k) ==
  /\ CalcAt(k, "store")
  /\ LET r == calc[k]
     IN  /\ cached' = IF r.job >= cached.job /\ r.cv >= cached.cv
                        THEN Entry(r.job, r.cv, r.result) ELSE cached
         /\ calc' = [calc EXCEPT ![k] = Idle]
  /\ UNCHANGED <<vars, parsed, worker, match>>

AbortCalculation(k) ==
  /\ calc[k] # Idle
  /\ faults < MaxFaults
  /\ faults' = faults + 1
  /\ calc' = [calc EXCEPT ![k] = Idle]
  /\ UNCHANGED <<rows, version, req, spoilt, parsed, worker, cached, match>>

-----------------------------------------------------------------------------
Analyse ==
  \/ BuildRequest \/ Answer \/ Complete \/ ClearSkills \/ FindSkill
  \/ LinkSkill \/ BumpAnalysis \/ FailAnalysis

Calculate(k) ==
  \/ ReadParsed(k) \/ ReadJobVersion(k) \/ ReadCvVersion(k) \/ ReadCached(k)
  \/ ReadLinks(k) \/ ReadSkills(k) \/ ReadCategory(k)
  \/ FindMatch(k) \/ SaveMatch(k) \/ StoreResult(k) \/ AbortCalculation(k)

\* The tables hold any sound catalogue, with what refers to it.
Init ==
  /\ TablesOK /\ CatalogueIsSound
  /\ parsed = [status |-> "completed", category |-> None, months |-> 0, listed |-> FALSE]
  /\ worker = Idle
  /\ calc = [k \in Calculators |-> Idle]
  /\ cached = Entry(-1, -1, NoResult)
  /\ match = <<>>
  /\ version = [job |-> 0, cv |-> 0]
  /\ req = [h \in Handlers |-> Idle]
  /\ spoilt = FALSE
  /\ faults = 0

Next ==
  \/ \E h \in Handlers : (Arrive(h) \/ Statement(h)) /\ UNCHANGED matching
  \/ StartAnalysis \/ Analyse
  \/ \E k \in Calculators : ReadJob(k) \/ Calculate(k)

\* What a calculation that met nobody else would come to now.
Current ==
  Result(SlugOf(jobCat), parsed, linked, WeightsOf(needs),
         jobCat # None /\ InCategory(jobCat) \cap linked # {}, NamesOf(Needed))

\* The answer of GetJobMatchQuery: a row there is.
Saved == Range(match)

\* A result in Redis that a calculation would find now.
Found(r) ==
  /\ cached.job = version.job /\ cached.cv = version.cv /\ cached.result = r
  /\ parsed.status = "completed"

\* The result a calculation would find in Redis is the one it would come to,
\* and the one saved, although its key does not say what names, slugs and
\* categories went into it: every request that changes one of them bumps a
\* version.  Job and analysis are read before the versions, so that this
\* needs requests that run one at a time.
FoundMatchIsCurrent ==
  \A r \in {cached.result} : Found(r) => r = Current /\ Saved = {r}

\* Skills and weights are read after the versions and changed before the
\* bumps: whatever overlaps, a match that is found counts the skills the CV
\* and the job have, once nobody owes a bump and all have come to theirs.
FoundSkillMatchIsCurrent ==
  \A r \in {cached.result} :
    Found(r) /\ worker = Idle /\ ~ spoilt /\ (\A h \in Handlers : req[h] # Idle => ~ Owes(h))
      => r.skill = SkillMatch(WeightsOf(needs), linked)
=============================================================================
