----------------------------- MODULE MCMatching -----------------------------
(***************************************************************************)
(* An instance of JobMatch for TLC: two skills, two categories, whose      *)
(* names all make the same slug, one job, one company and one CV.  History *)
(* variables count the requests and say whether two ever overlapped.       *)
(***************************************************************************)
EXTENDS JobMatch

CONSTANTS
  s1, s2, c1, c2, n1, n2,
  MaxRequests   \* bound

ASSUME ProcessesAssumption == IsFiniteSet(Handlers) /\ IsFiniteSet(Calculators)

VARIABLES begun, overlapped
mcVars == <<allVars, begun, overlapped>>

OneBase == [n \in {n1, n2} |-> "base"]
TheText == {n1}

Item(key, k, confidence) == [key |-> key, slug |-> <<"base", k>>, confidence |-> confidence]
Sure(k) == Item(n1, k, 2)

Reply(skills, experience) ==
  [lists |-> MustHave, skills |-> skills, others |-> <<>>, category |-> None,
   score |-> 0, experience |-> experience]

\* Nothing; one skill; both; one twice; a key for two slugs, the better one
\* first or last; a slug nobody has; and an answer without one of the lists.
SomeAnswers ==
  {Reply(<<>>, <<>>), Reply(<<Sure(1)>>, <<-1>>),
   Reply(<<Sure(1), Item(n2, 2, 1)>>, <<12, -1>>), Reply(<<Sure(1), Item(n2, 1, 2)>>, <<>>),
   Reply(<<Item(n1, 2, 1), Sure(1)>>, <<>>), Reply(<<Sure(2), Item(n1, 1, 1)>>, <<12>>),
   Reply(<<Sure(3)>>, <<>>), [Reply(<<Sure(1)>>, <<>>) EXCEPT !.lists = {"matchedSkills"}]}

\* Of the items with one key the surest is kept, the first of equals; keys
\* stay in the order in which they came first.
ASSUME SurestIsKept ==
  \A items \in BoundedSeq({Item(n, k, f) : n \in {n1, n2}, k \in {1, 2}, f \in {1, 2}}, 3) :
    LET kept == NormalizeSkills(items)
        Same(i) == {j \in DOMAIN items : items[j].key = items[i].key}
        Firsts == {i \in DOMAIN items : \A j \in Same(i) : i <= j}
    IN  /\ Len(kept) = Cardinality(Firsts)
        /\ \A i \in Firsts :
             LET place == Cardinality({j \in Firsts : j <= i})
             IN  \E j \in Same(i) :
                   /\ kept[place] = items[j]
                   /\ \A o \in Same(i) : items[o].confidence <= items[j].confidence
                   /\ \A o \in Same(i) : items[o].confidence = items[j].confidence => j <= o

\* What is matched and what is demoted is all there was, in its order, as far
\* as there is room; scores stay percentages.
ASSUME NothingIsLost ==
  /\ \A items \in BoundedSeq({Item(n1, k, f) : k \in {1, 2, 3}, f \in {1, 2}}, 2) :
       \A offered \in SUBSET {<<"base", 1>>, <<"base", 2>>} :
         LET matched == VerifiedSkills(items, offered)
             demoted == DemotedSkills(items, <<>>, offered)
         IN  /\ \A i \in DOMAIN matched : matched[i].slug \in offered
             /\ \A i \in DOMAIN demoted : demoted[i].slug \notin offered
             /\ Len(demoted) = Least(MaxOthers, Len(items) - Len(matched))
  /\ \A score \in {-1, 0, 1, 99, 100, 101, 9999, 10000, 10001} :
       NormalizeScore(score) \in 0..10000

\* Every score is a percentage, and a CV does not lose by a skill more or by
\* more experience.
ASSUME ScoreIsMonotone ==
  \A weight \in [Skills -> {0} \cup Weights], has \in SUBSET Skills, more \in SUBSET Skills,
     months \in {0, 6, 24, 36}, years \in 0..2, listed \in BOOLEAN,
     suggested \in {None, 1, 2}, slug \in {None, 1} :
    LET Score(S, m) ==
          Total(SkillMatch(weight, S), ExperienceMatch(m, listed, years),
                CategoryMatch(suggested, slug, S # {}, None), Similarity({}, {}))
    IN  /\ Score(has, months) \in 0..100
        /\ has \subseteq more => Score(has, months) <= Score(more, months)
        /\ months >= 12 => Score(has, months) <= Score(has, months + 12)

Entered(i, live, n, k, c, p) ==
  i :> [live |-> live, name |-> n, slug |-> <<"base", k>>, category |-> c, parent |-> p]

WatchedInit == Init /\ begun = 0 /\ overlapped = FALSE

\* Two categories and a skill that the CV has too, or that it lacks and that
\* has a child, with the company in the second category; or nothing but a
\* deleted category.
Peopled ==
  /\ \E second \in {s2 :> None, Entered(s2, TRUE, n2, 2, c2, s1)} :
       /\ row = Entered(c1, TRUE, n1, 1, None, None) @@ Entered(c2, TRUE, n2, 2, None, None)
                @@ Entered(s1, TRUE, n1, 1, c1, None) @@ second
       /\ company = IF second[s2] = None THEN None ELSE c2
       /\ linked = IF second[s2] = None THEN {s1} ELSE {}
  /\ jobCat = c1
  /\ needs = [s \in Skills |-> IF s = s1 THEN [weight |-> 1, rows |-> 1] ELSE NoNeed]

Deserted ==
  /\ row = Entered(c1, FALSE, n1, 1, None, None) @@ [i \in Ids |-> None]
  /\ jobCat = None /\ company = None
  /\ needs = [s \in Skills |-> NoNeed]
  /\ linked = {}

MCInit == (Peopled \/ Deserted) /\ WatchedInit

\* Handlers and calculators are alike.
Alike == Permutations(Handlers) \cup Permutations(Calculators)

InFlight ==
  Cardinality({h \in Handlers : req[h] # Idle}) + Cardinality({k \in Calculators : calc[k] # Idle})
  + (IF worker = Idle THEN 0 ELSE 1)

Arrival ==
  \/ \E h \in Handlers : Arrive(h) /\ UNCHANGED matching
  \/ StartAnalysis
  \/ \E k \in Calculators : ReadJob(k)

Step ==
  \/ \E h \in Handlers : Statement(h) /\ UNCHANGED matching
  \/ Analyse
  \/ \E k \in Calculators : Calculate(k)

Arrives ==
  Arrival /\ begun' = begun + 1 /\ overlapped' = (overlapped \/ InFlight' > 1)
Works == Step /\ UNCHANGED <<begun, overlapped>>

\* Any sound catalogue, and requests without a bound.
Watched == Arrives \/ Works
WatchedSpec == WatchedInit /\ [][Watched]_mcVars

\* The bound: two requests in any interleaving, or more one at a time.
Room == begun < 2 \/ (begun < MaxRequests /\ ~ overlapped /\ InFlight = 0)

MCNext == (Room /\ Arrives) \/ Works
MCSpec == MCInit /\ [][MCNext]_mcVars

\* The properties below hold as long as requests run one at a time.  The
\* categories and skills that jobs, companies, CVs and skills have are live,
\* parents apart, which are other skills that are or were there, and the names
\* of live categories and the slugs of all differ.
CatalogueIsSoundInSequence == overlapped \/ CatalogueIsSound

\* Between requests a result in Redis is up to date, unless one that has
\* written did not come to its bump.
FoundMatchIsCurrentInSequence ==
  overlapped \/ spoilt \/ InFlight > 0 \/ FoundMatchIsCurrent

\* A finished analysis has linked the CV to the skills the provider was
\* offered and named, all of them and no others.
OnlyOfferedIsLinkedInSequence ==
  overlapped \/ ~ WorkerAt("bump")
    \/ linked = {s \in LiveOf(Skills) : row[s].slug \in worker.offered \cap worker.named}
=============================================================================
