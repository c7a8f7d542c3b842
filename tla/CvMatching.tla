----------------------------- MODULE CvMatching -----------------------------
(***************************************************************************)
(* The calculations around the analysis of a CV and the score of a CV for  *)
(* a job, as operators: what the provider is offered, how its answer is    *)
(* put in order and verified, and the score.  Texts are the sets of the    *)
(* words that matter in them; percentages are whole numbers.               *)
(***************************************************************************)
EXTENDS Integers, Sequences, FiniteSets, SequencesExt

CONSTANTS
  MaxTop,          \* categories offered: 5
  MaxCandidates,   \* skills offered: 150
  MaxOthers        \* detected skills kept: 20

ASSUME MatchingAssumption == {MaxTop, MaxCandidates, MaxOthers} \subseteq Nat

Least(m, n) == IF m < n THEN m ELSE n
Bounded(low, high, x) == IF x < low THEN low ELSE IF x > high THEN high ELSE x

-----------------------------------------------------------------------------
\* The request.  A skill is mentioned if its name or its slug is in the text.
Mentioned(skills, text) == {s \in skills : {s.name, s.slug} \cap text # {}}

MentionsOf(c, skills, text) ==
  Cardinality({s \in Mentioned(skills, text) : s.category = c})

\* The categories with the most skills mentioned, those with none left out
\* unless all have none; which of equals is offered is left open.
IsTop(top, categories, skills, text) ==
  LET Count(c) == MentionsOf(c, skills, text)
      hit == {c \in categories : Count(c) > 0}
      from == IF hit = {} THEN categories ELSE hit
  IN  /\ top \subseteq from
      /\ Cardinality(top) = Least(MaxTop, Cardinality(from))
      /\ \A c \in top, d \in from \ top : Count(c) >= Count(d)

Tops(categories, skills, text) ==
  {top \in SUBSET categories : IsTop(top, categories, skills, text)}

\* The skills of those categories, of all if there is none; of them the
\* mentioned ones, all if none is; of them as many as there is room for.
Candidates(skills, top, text) ==
  LET scoped == IF top = {} THEN skills ELSE {s \in skills : s.category \in top}
      hit == Mentioned(scoped, text)
      from == IF hit = {} THEN scoped ELSE hit
  IN  {S \in SUBSET from : Cardinality(S) = Least(MaxCandidates, Cardinality(from))}

-----------------------------------------------------------------------------
\* The answer: lists of skills, detected and matched, a category, a score and
\* the months of each experience.  It is refused unless it has all of these
\* lists.
MustHave == {"matchedSkills", "otherDetectedSkills", "education", "experience",
             "improvementSuggestions", "projects"}
ValidAnswer(answer) == MustHave \subseteq answer.lists

\* Scores and confidences are in hundredths of a percent.  A score between 0
\* and 1 is taken for a fraction; nothing leaves 0 to 100 percent.
NormalizeScore(score) ==
  Bounded(0, 10000, IF score > 0 /\ score <= 100 THEN score * 100 ELSE score)
NormalizeConfidence(confidence) == Bounded(0, 10000, confidence)

\* A duration that is none, or negative, counts for nothing.
NormalizeMonths(months) == IF months < 0 THEN 0 ELSE months

\* An item has a key (the normalised name; if that is not sent, the slug or
\* the name), a slug and a confidence.  Of two items with one key the one with
\* more confidence is kept, in the place of the first.
Keep(kept, item) ==
  LET at == {i \in DOMAIN kept : kept[i].key = item.key}
  IN  IF at = {} THEN Append(kept, item)
      ELSE [i \in DOMAIN kept |->
              IF i \in at /\ item.confidence > kept[i].confidence THEN item ELSE kept[i]]

NormalizeSkills(items) ==
  FoldLeft(Keep, <<>>, [i \in DOMAIN items |->
    [items[i] EXCEPT !.confidence = NormalizeConfidence(@)]])

Normalize(answer) ==
  [skills |-> NormalizeSkills(answer.skills), others |-> NormalizeSkills(answer.others),
   category |-> answer.category, score |-> NormalizeScore(answer.score),
   experience |-> [i \in DOMAIN answer.experience |-> NormalizeMonths(answer.experience[i])]]

Known(item, slugs) == item.slug \in slugs

\* Items without a slug that was offered are no matches; they are put with
\* the other detected skills, as far as there is room.
VerifiedSkills(items, offered) ==
  SelectSeq(items, LAMBDA item : Known(item, offered))
DemotedSkills(items, others, offered) ==
  LET all == others \o SelectSeq(items, LAMBDA item : ~ Known(item, offered))
  IN  SubSeq(all, 1, Least(MaxOthers, Len(all)))

Verify_All(found, offered, tops, none) ==   \* mutant: only flagged, not taken out
  [skills |-> found.skills,
   others |-> DemotedSkills(found.skills, found.others, offered),
   category |-> IF found.category \in tops THEN found.category ELSE none,
   flagged |-> \E i \in DOMAIN found.skills : ~ Known(found.skills[i], offered),
   months |-> FoldLeft(+, 0, found.experience), listed |-> found.experience # <<>>]

Verify(found, offered, tops, none) ==
  [skills |-> VerifiedSkills(found.skills, offered),
   others |-> DemotedSkills(found.skills, found.others, offered),
   category |-> IF found.category \in tops THEN found.category ELSE none,
   flagged |-> \E i \in DOMAIN found.skills : ~ Known(found.skills[i], offered),
   months |-> FoldLeft(+, 0, found.experience), listed |-> found.experience # <<>>]

-----------------------------------------------------------------------------
\* The score of a CV for a job.
Percent(part, whole) == IF whole > 0 THEN (part * 100) \div whole ELSE 0

WeightOf(S, weight) == FoldSet(LAMBDA s, sum : weight[s] + sum, 0, S)

SkillMatch(weight, has) ==
  LET needed == {s \in DOMAIN weight : weight[s] > 0}
  IN  Percent(WeightOf(needed \cap has, weight), WeightOf(needed, weight))

\* None is no slug: nothing suggested, or no such category any more.
CategoryMatch(suggested, slug, hasSkill, none) ==
  CASE suggested # none /\ slug # none /\ suggested = slug -> 100
    [] suggested = none /\ hasSkill                        -> 70
    [] suggested # none /\ slug # none /\ suggested # slug -> 40
    [] OTHER                                               -> 0

ExperienceMatch(months, listed, years) ==
  CASE years <= 0             -> 100
    [] years > 0 /\ months > 0 -> Bounded(0, 100, Percent(months, years * 12))
    [] OTHER                  -> IF listed THEN 50 ELSE 0

Similarity(mine, theirs) == Percent(Cardinality(mine \cap theirs), Cardinality(mine))

Total(skill, experience, category, similarity) ==
  (skill * 55 + experience * 20 + category * 15 + similarity * 10) \div 100
=============================================================================
