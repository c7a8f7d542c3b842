------------------------ MODULE MCMatching_proofs ---------------------------
(***************************************************************************)
(* Proofs about MCMatching, for every number of skills, categories, names, *)
(* handlers and calculators, every sound catalogue at first and any number *)
(* of requests (WatchedSpec):                                              *)
(*                                                                         *)
(*  - FoundSkills.  A request either writes nothing a skill match is made  *)
(*    of or owes a bump (Careful), and a calculation reads the versions    *)
(*    before the skills, so that SkillInv, which says of every result with *)
(*    the present versions that it counts the right skills, is kept by     *)
(*    every step, in any interleaving.                                     *)
(*  - SoundInSequence.  One at a time, what the tests of a request have    *)
(*    found still holds when it writes: SeqCore says so of each statement  *)
(*    that is left (Tested), and that makes the catalogue's soundness      *)
(*    inductive.                                                           *)
(*  - MatchInSequence.  From both: what a calculation has read is so       *)
(*    (Knows), and what is saved and what Redis has follow (MatchCore).    *)
(***************************************************************************)
EXTENDS MCMatching, TLAPS, FiniteSetTheorems, SequenceTheorems

----------------------------------------------------------------------------
(* Requests as lists of statements *)

\* The statements that only test.
Tests == {"name", "category", "parent", "slug", "slugFree", "uses", "skills", "companies", "jobs",
          "askedSkills"}
\* The statements of a request.
Steps == Tests \cup {"write", "drop", "restore", "saveCompany", "saveJob", "rows", "put",
                     "prune", "bumpJob", "bumpCv"}

\* What may come after a statement, in the order in which every handler has
\* them.
Follow(s) ==
  CASE s \in Tests     -> Steps
    [] s = "write"     -> {"bumpJob", "bumpCv"}
    [] s = "saveJob"   -> {"rows", "put", "prune", "bumpJob"}
    [] s = "rows"      -> {"put", "prune", "bumpJob"}
    [] s = "put"       -> {"prune", "bumpJob"}
    [] s = "prune"     -> {"bumpJob"}
    [] s = "bumpJob"   -> {"bumpCv"}
    [] OTHER           -> {}

\* Statements in that order.
Ordered(todo) ==
  /\ todo \in Seq(Steps)
  /\ \A i, j \in DOMAIN todo : i < j => todo[j] \in Follow(todo[i])

\* Statements in order stay so when the first is done, and what follows it
\* may.
LEMMA OrderedTail ==
  ASSUME NEW todo, Ordered(todo), todo # <<>>
  PROVE  /\ todo[1] \in Steps /\ todo[1] \in Range(todo)
         /\ Ordered(Tail(todo))
         /\ Range(todo) = {todo[1]} \cup Range(Tail(todo))
         /\ Range(Tail(todo)) \subseteq Follow(todo[1])
         /\ Len(todo) = 1 <=> Tail(todo) = <<>>
<1>1. todo \in Seq(Steps) /\ Len(todo) \in Nat \ {0} /\ DOMAIN todo = 1..Len(todo)
  BY EmptySeq, LenProperties DEF Ordered
<1>2. /\ Tail(todo) \in Seq(Steps) /\ Len(Tail(todo)) = Len(todo) - 1
      /\ DOMAIN Tail(todo) = 1..(Len(todo) - 1)
      /\ \A i \in DOMAIN Tail(todo) : Tail(todo)[i] = todo[i + 1]
  <2>1. Tail(todo) \in Seq(Steps) /\ Len(Tail(todo)) = Len(todo) - 1
        /\ \A i \in 1..Len(Tail(todo)) : Tail(todo)[i] = todo[i + 1]
    BY <1>1, HeadTailProperties
  <2>2. DOMAIN Tail(todo) = 1..Len(Tail(todo))
    BY <2>1, LenProperties
  <2> QED BY <2>1, <2>2
<1>3. todo[1] \in Steps /\ todo[1] \in Range(todo)
  BY <1>1, ElementOfSeq DEF Range
<1>4. Ordered(Tail(todo))
  BY <1>1, <1>2 DEF Ordered
<1>5. Range(todo) = {todo[1]} \cup Range(Tail(todo))
  <2>1. ASSUME NEW i \in 1..Len(todo)
        PROVE  todo[i] \in {todo[1]} \cup Range(Tail(todo))
    <3>1. CASE i = 1
      BY <3>1
    <3>2. CASE i # 1
      <4>1. i - 1 \in DOMAIN Tail(todo) /\ Tail(todo)[i - 1] = todo[i]
        BY <3>2, <1>1, <1>2
      <4> QED BY <4>1 DEF Range
    <3> QED BY <3>1, <3>2
  <2>2. ASSUME NEW i \in DOMAIN Tail(todo)
        PROVE  Tail(todo)[i] \in Range(todo)
    <3>1. i + 1 \in DOMAIN todo /\ Tail(todo)[i] = todo[i + 1]
      BY <1>1, <1>2
    <3> QED BY <3>1 DEF Range
  <2> QED BY <2>1, <2>2, <1>1, <1>3 DEF Range
<1>6. Range(Tail(todo)) \subseteq Follow(todo[1])
  <2>1. ASSUME NEW i \in DOMAIN Tail(todo)
        PROVE  Tail(todo)[i] \in Follow(todo[1])
    <3>1. i + 1 \in DOMAIN todo /\ 1 \in DOMAIN todo /\ 1 < i + 1 /\ Tail(todo)[i] = todo[i + 1]
      BY <1>1, <1>2
    <3> QED BY <3>1 DEF Ordered
  <2> QED BY <2>1 DEF Range
<1>7. Len(todo) = 1 <=> Tail(todo) = <<>>
  <2>1. Tail(todo) # <<>> => Len(Tail(todo)) \in Nat \ {0}
    BY <1>2, EmptySeq
  <2>2. Tail(todo) = <<>> => Len(Tail(todo)) = 0
    BY EmptySeq
  <2> QED BY <2>1, <2>2, <1>1, <1>2
<1> QED BY <1>3, <1>4, <1>5, <1>6, <1>7

\* Statements in order one after the other, when the later may follow the
\* earlier.
LEMMA OrderedConcat ==
  ASSUME NEW s, NEW t, Ordered(s), Ordered(t),
         \A a \in Range(s) : Range(t) \subseteq Follow(a)
  PROVE  /\ Ordered(s \o t) /\ Range(s \o t) = Range(s) \cup Range(t)
         /\ t # <<>> => s \o t # <<>>
<1>1. /\ s \in Seq(Steps) /\ Len(s) \in Nat /\ DOMAIN s = 1..Len(s)
      /\ t \in Seq(Steps) /\ Len(t) \in Nat /\ DOMAIN t = 1..Len(t)
  BY LenProperties DEF Ordered
<1>2. /\ s \o t \in Seq(Steps) /\ Len(s \o t) = Len(s) + Len(t)
      /\ DOMAIN (s \o t) = 1..(Len(s) + Len(t))
      /\ \A i \in 1..(Len(s) + Len(t)) :
           (s \o t)[i] = IF i <= Len(s) THEN s[i] ELSE t[i - Len(s)]
  BY <1>1, ConcatProperties, LenProperties
<1>3. Ordered(s \o t)
  <2>1. ASSUME NEW i \in 1..(Len(s) + Len(t)), NEW j \in 1..(Len(s) + Len(t)), i < j
        PROVE  (s \o t)[j] \in Follow((s \o t)[i])
    <3>1. CASE i <= Len(s)
      <4>1. (s \o t)[i] = s[i] /\ s[i] \in Range(s)
        BY <3>1, <1>1, <1>2 DEF Range
      <4>2. CASE j <= Len(s)
        <5>1. (s \o t)[j] = s[j] /\ i \in DOMAIN s /\ j \in DOMAIN s
          BY <3>1, <4>2, <1>1, <1>2
        <5> QED BY <5>1, <4>1, <2>1 DEF Ordered
      <4>3. CASE ~ (j <= Len(s))
        <5>1. (s \o t)[j] = t[j - Len(s)] /\ j - Len(s) \in DOMAIN t
          BY <4>3, <1>1, <1>2
        <5> QED BY <5>1, <4>1 DEF Range
      <4> QED BY <4>2, <4>3
    <3>2. CASE ~ (i <= Len(s))
      <4>1. (s \o t)[i] = t[i - Len(s)] /\ (s \o t)[j] = t[j - Len(s)]
        BY <3>2, <2>1, <1>1, <1>2
      <4>2. i - Len(s) \in DOMAIN t /\ j - Len(s) \in DOMAIN t /\ i - Len(s) < j - Len(s)
        BY <3>2, <2>1, <1>1
      <4> QED BY <4>1, <4>2 DEF Ordered
    <3> QED BY <3>1, <3>2
  <2> QED BY <2>1, <1>2 DEF Ordered
<1>4. Range(s \o t) = Range(s) \cup Range(t)
  BY <1>1, <1>2, RangeConcatenation
<1>5. t # <<>> => s \o t # <<>>
  BY <1>1, <1>2, EmptySeq
<1> QED BY <1>3, <1>4, <1>5

\* The columns of the two records that requests have: that of the taxonomy,
\* and that of createJob and updateJob; and the statements of each.
RequestFields == {"kind", "id", "name", "category", "parent", "k", "todo", "slug"}
SaveFields == {"kind", "id", "name", "category", "clears", "effective", "ask", "twice",
               "had", "left", "todo"}
SaveSteps == {"category", "askedSkills", "saveJob", "rows", "put", "prune", "bumpJob"}
RequestSteps == Steps \ {"askedSkills", "saveJob", "rows", "put", "prune"}

\* A request has something left to do, in order, and what writes what a
\* match is made of is followed by a bump.
Planned(r) ==
  /\ "todo" \in DOMAIN r
  /\ Ordered(r.todo) /\ r.todo # <<>>
  /\ DOMAIN r = RequestFields \/ DOMAIN r = SaveFields
  /\ DOMAIN r = RequestFields =>
       /\ Range(r.todo) \subseteq RequestSteps
       /\ "write" \in Range(r.todo) /\ r.id # None => "bumpJob" \in Range(r.todo)
  /\ DOMAIN r = SaveFields =>
       /\ Range(r.todo) \subseteq SaveSteps
       /\ Range(r.todo) \cap {"saveJob", "rows", "put", "prune"} # {}
            => "bumpJob" \in Range(r.todo)

\* Every request is planned.
ReqOk ==
  /\ DOMAIN req = Handlers
  /\ \A h \in Handlers : req[h] # Idle => Planned(req[h])

\* What is left of a request after its first statement.
Rest(r) == [r EXCEPT !.todo = Tail(@)]

\* The lists of statements the handlers have are in order.
LEMMA Literals ==
  /\ Ordered(<<>>) /\ Range(<<>>) = {}
  /\ \A s \in Steps : Ordered(<<s>>) /\ Range(<<s>>) = {s}
  /\ LET t == <<"slug", "write">> IN Ordered(t) /\ Range(t) = {"slug", "write"}
  /\ LET t == <<"name", "category">> IN Ordered(t) /\ Range(t) = {"name", "category"}
  /\ LET t == <<"uses", "drop">> IN Ordered(t) /\ Range(t) = {"uses", "drop"}
  /\ LET t == <<"category", "name", "slugFree", "restore">> IN
       Ordered(t) /\ Range(t) = {"category", "name", "slugFree", "restore"}
  /\ LET t == <<"name", "slug", "write">> IN Ordered(t) /\ Range(t) = {"name", "slug", "write"}
  /\ LET t == <<"write", "bumpJob">> IN Ordered(t) /\ Range(t) = {"write", "bumpJob"}
  /\ LET t == <<"write", "bumpJob", "bumpCv">> IN
       Ordered(t) /\ Range(t) = {"write", "bumpJob", "bumpCv"}
  /\ LET t == <<"skills", "companies", "jobs", "drop">> IN
       Ordered(t) /\ Range(t) = {"skills", "companies", "jobs", "drop"}
  /\ LET t == <<"name", "slugFree", "restore">> IN
       Ordered(t) /\ Range(t) = {"name", "slugFree", "restore"}
  /\ LET t == <<"saveJob">> \o <<>> \o <<"bumpJob">> IN
       Ordered(t) /\ Range(t) = {"saveJob", "bumpJob"} /\ t # <<>>
  /\ LET t == <<"saveJob">> \o <<"rows", "put", "prune">> \o <<"bumpJob">> IN
       Ordered(t) /\ Range(t) = {"saveJob", "rows", "put", "prune", "bumpJob"} /\ t # <<>>
<1> USE DEF Ordered, Follow, Tests, Steps, Range
<1>1. Ordered(<<>>) /\ Range(<<>>) = {}
  OBVIOUS
<1>2. \A s \in Steps : Ordered(<<s>>) /\ Range(<<s>>) = {s}
  OBVIOUS
<1>3. /\ LET t == <<"slug", "write">> IN Ordered(t) /\ Range(t) = {"slug", "write"}
      /\ LET t == <<"name", "category">> IN Ordered(t) /\ Range(t) = {"name", "category"}
  OBVIOUS
<1>4. LET t == <<"uses", "drop">> IN Ordered(t) /\ Range(t) = {"uses", "drop"}
  OBVIOUS
<1>5. LET t == <<"category", "name", "slugFree", "restore">> IN
       Ordered(t) /\ Range(t) = {"category", "name", "slugFree", "restore"}
  OBVIOUS
<1>6. LET t == <<"name", "slug", "write">> IN Ordered(t) /\ Range(t) = {"name", "slug", "write"}
  OBVIOUS
<1>7. LET t == <<"write", "bumpJob">> IN Ordered(t) /\ Range(t) = {"write", "bumpJob"}
  OBVIOUS
<1>8. LET t == <<"write", "bumpJob", "bumpCv">> IN
       Ordered(t) /\ Range(t) = {"write", "bumpJob", "bumpCv"}
  OBVIOUS
<1>9. LET t == <<"skills", "companies", "jobs", "drop">> IN
       Ordered(t) /\ Range(t) = {"skills", "companies", "jobs", "drop"}
  OBVIOUS
<1>10. LET t == <<"name", "slugFree", "restore">> IN
       Ordered(t) /\ Range(t) = {"name", "slugFree", "restore"}
  OBVIOUS
<1> HIDE DEF Ordered, Follow, Tests, Steps, Range
<1>11. LET t == <<"saveJob">> \o <<>> \o <<"bumpJob">> IN
       Ordered(t) /\ Range(t) = {"saveJob", "bumpJob"} /\ t # <<>>
  <2>1. /\ Ordered(<<"saveJob">>) /\ Range(<<"saveJob">>) = {"saveJob"}
        /\ Ordered(<<"bumpJob">>) /\ Range(<<"bumpJob">>) = {"bumpJob"} /\ <<"bumpJob">> # <<>>
    BY <1>2 DEF Steps
  <2> DEFINE head == <<"saveJob">> \o <<>>
  <2>2. Ordered(head) /\ Range(head) = {"saveJob"}
    <3>1. \A a \in Range(<<"saveJob">>) : Range(<<>>) \subseteq Follow(a)
      BY <1>1
    <3>2. Ordered(head) /\ Range(head) = Range(<<"saveJob">>) \cup Range(<<>>)
      BY <3>1, <2>1, <1>1, OrderedConcat, Zenon
    <3> QED BY <3>2, <2>1, <1>1
  <2> HIDE DEF head
  <2>3. \A a \in Range(head) : Range(<<"bumpJob">>) \subseteq Follow(a)
    BY <2>1, <2>2 DEF Follow, Tests
  <2>4. Ordered(head \o <<"bumpJob">>) /\ head \o <<"bumpJob">> # <<>>
        /\ Range(head \o <<"bumpJob">>) = Range(head) \cup Range(<<"bumpJob">>)
    BY <2>1, <2>2, <2>3, OrderedConcat, Zenon
  <2>5. Range(head \o <<"bumpJob">>) = {"saveJob", "bumpJob"}
    BY <2>1, <2>2, <2>4
  <2> QED BY <2>4, <2>5 DEF head
<1>12. LET t == <<"saveJob">> \o <<"rows", "put", "prune">> \o <<"bumpJob">> IN
       Ordered(t) /\ Range(t) = {"saveJob", "rows", "put", "prune", "bumpJob"} /\ t # <<>>
  <2>1. /\ Ordered(<<"saveJob">>) /\ Range(<<"saveJob">>) = {"saveJob"}
        /\ Ordered(<<"bumpJob">>) /\ Range(<<"bumpJob">>) = {"bumpJob"} /\ <<"bumpJob">> # <<>>
    BY <1>2 DEF Steps
  <2>2. Ordered(<<"rows", "put", "prune">>)
        /\ Range(<<"rows", "put", "prune">>) = {"rows", "put", "prune"}
    BY DEF Ordered, Range, Follow, Steps, Tests
  <2> DEFINE head == <<"saveJob">> \o <<"rows", "put", "prune">>
  <2>3. Ordered(head) /\ Range(head) = {"saveJob", "rows", "put", "prune"}
    <3>1. \A a \in Range(<<"saveJob">>) : Range(<<"rows", "put", "prune">>) \subseteq Follow(a)
      BY <2>1, <2>2 DEF Follow, Tests
    <3>2. /\ Ordered(head)
          /\ Range(head) = Range(<<"saveJob">>) \cup Range(<<"rows", "put", "prune">>)
      BY <3>1, <2>1, <2>2, OrderedConcat, Zenon
    <3> QED BY <3>2, <2>1, <2>2
  <2> HIDE DEF head
  <2>4. \A a \in Range(head) : Range(<<"bumpJob">>) \subseteq Follow(a)
    BY <2>1, <2>3 DEF Follow, Tests
  <2>5. Ordered(head \o <<"bumpJob">>) /\ head \o <<"bumpJob">> # <<>>
        /\ Range(head \o <<"bumpJob">>) = Range(head) \cup Range(<<"bumpJob">>)
    BY <2>1, <2>3, <2>4, OrderedConcat, Zenon
  <2>6. Range(head \o <<"bumpJob">>) = {"saveJob", "rows", "put", "prune", "bumpJob"}
    BY <2>1, <2>3, <2>5
  <2> QED BY <2>5, <2>6 DEF head
<1> QED BY <1>1, <1>2, <1>3, <1>4, <1>5, <1>6, <1>7, <1>8, <1>9, <1>10, <1>11, <1>12

\* Two records of a request at the same place.
Same(r, q) == DOMAIN r = DOMAIN q /\ r.todo = q.todo /\ r.id = q.id

\* A request is planned whatever its other columns hold.
LEMMA PlannedSame ==
  ASSUME NEW r, NEW q, Planned(q), Same(r, q)
  PROVE  Planned(r) /\ r # Idle
<1>1. "id" \in DOMAIN r /\ r # Idle
  <2>1. DOMAIN Idle = {"at", "todo"}
    BY DEF Idle
  <2> QED BY <2>1 DEF Same, Planned, RequestFields, SaveFields
<1> QED BY <1>1 DEF Same, Planned

\* A request whose first statement is done is over or planned.
LEMMA Advance ==
  ASSUME NEW r, Planned(r)
  PROVE  /\ r.todo[1] \in Steps /\ r.todo[1] \in Range(r.todo)
         /\ Len(r.todo) = 1 => After(r) = Idle /\ Range(r.todo) = {r.todo[1]}
         /\ Len(r.todo) # 1 =>
              /\ After(r) = Rest(r) /\ Rest(r) # Idle /\ Planned(Rest(r))
              /\ DOMAIN Rest(r) = DOMAIN r
              /\ Rest(r).todo = Tail(r.todo)
              /\ \A f \in DOMAIN r : f # "todo" => Rest(r)[f] = r[f]
              /\ Range(r.todo) = {r.todo[1]} \cup Range(Rest(r).todo)
              /\ Range(Rest(r).todo) \subseteq Follow(r.todo[1])
<1>1. /\ r.todo[1] \in Steps /\ r.todo[1] \in Range(r.todo)
      /\ Ordered(Tail(r.todo))
      /\ Range(r.todo) = {r.todo[1]} \cup Range(Tail(r.todo))
      /\ Range(Tail(r.todo)) \subseteq Follow(r.todo[1])
      /\ Len(r.todo) = 1 <=> Tail(r.todo) = <<>>
  BY OrderedTail DEF Planned
<1>2. CASE Len(r.todo) = 1
  <2>1. Range(Tail(r.todo)) = {}
    BY <1>1, <1>2, Literals
  <2> QED BY <1>1, <1>2, <2>1 DEF After
<1>3. CASE Len(r.todo) # 1
  <2>1. /\ After(r) = Rest(r) /\ DOMAIN Rest(r) = DOMAIN r /\ Rest(r).todo = Tail(r.todo)
        /\ \A f \in DOMAIN r : f # "todo" => Rest(r)[f] = r[f]
    BY <1>3 DEF After, Rest, Planned
  <2>2. Rest(r) # Idle
    <3>1. DOMAIN Idle = {"at", "todo"}
      BY DEF Idle
    <3>2. "id" \in DOMAIN Rest(r)
      BY <2>1 DEF Planned, RequestFields, SaveFields
    <3> QED BY <3>1, <3>2
  <2> DEFINE T == Range(r.todo)
             U == Range(Tail(r.todo))
             s == r.todo[1]
  <2>3. T = {s} \cup U /\ U \subseteq Follow(s) /\ s \in Steps
    BY <1>1
  <2>4. Rest(r).id = r.id /\ "todo" \in DOMAIN r
    BY <2>1 DEF Planned, RequestFields, SaveFields
  <2>5. DOMAIN r = RequestFields =>
          /\ U \subseteq RequestSteps
          /\ "write" \in U /\ r.id # None => "bumpJob" \in U
    <3>1. DOMAIN r = RequestFields =>
            /\ T \subseteq RequestSteps
            /\ "write" \in T /\ r.id # None => "bumpJob" \in T
      BY DEF Planned
    <3>2. s = "bumpJob" => "write" \notin U
      BY <2>3 DEF Follow, Tests
    <3> HIDE DEF T, U, s
    <3> QED BY <3>1, <3>2, <2>3
  <2>6. DOMAIN r = SaveFields =>
       /\ U \subseteq SaveSteps
       /\ U \cap {"saveJob", "rows", "put", "prune"} # {} => "bumpJob" \in U
    <3>1. DOMAIN r = SaveFields =>
            /\ T \subseteq SaveSteps
            /\ T \cap {"saveJob", "rows", "put", "prune"} # {} => "bumpJob" \in T
      BY DEF Planned
    <3>2. s = "bumpJob" => U \cap {"saveJob", "rows", "put", "prune"} = {}
      BY <2>3 DEF Follow, Tests
    <3> HIDE DEF T, U, s
    <3> QED BY <3>1, <3>2, <2>3
  <2>7. Planned(Rest(r))
    BY <1>1, <1>3, <2>1, <2>4, <2>5, <2>6 DEF Planned
  <2> QED BY <1>1, <1>3, <2>1, <2>2, <2>7
<1> QED BY <1>2, <1>3

\* The statements that raise a version.
Bumps == {"bumpJob", "bumpCv"}

\* What a step of a request does to its record: it goes on to the next
\* statement, or stays at the one it is at, and other columns may change.
Goes(h, r) ==
  /\ req' = [req EXCEPT ![h] = r]
  /\ \/ r = After(req[h])
     \/ After(req[h]) # Idle /\ Same(r, After(req[h]))
     \/ Same(r, req[h])

\* No bump is to come and none was lost.
Quiet == ~ spoilt /\ \A h \in Handlers : req[h] # Idle => ~ Owes(h)

\* A request that goes on stays planned, and owes its bump until it is
\* there.
LEMMA GoesOn ==
  ASSUME ReqOk, NEW h \in Handlers, req[h] # Idle, NEW r, Goes(h, r)
  PROVE  /\ ReqOk'
         /\ req[h].todo[1] \notin Bumps /\ Owes(h) => req'[h] # Idle /\ Owes(h)'
<1>1. Planned(req[h]) /\ DOMAIN req = Handlers
  BY DEF ReqOk
<1>2. DOMAIN req' = Handlers /\ req'[h] = r /\ \A g \in Handlers : g # h => req'[g] = req[g]
  BY <1>1 DEF Goes
<1>3. CASE r = Idle
  <2>1. After(req[h]) = Idle
    <3>1. ~ Same(r, req[h])
      BY <1>3, <1>1, PlannedSame
    <3>2. After(req[h]) # Idle => ~ Same(r, After(req[h]))
      BY <1>3, <1>1, PlannedSame, Advance
    <3> QED BY <3>1, <3>2, <1>3 DEF Goes
  <2>2. Range(req[h].todo) = {req[h].todo[1]}
    BY <2>1, <1>1, Advance
  <2>3. ReqOk'
    BY <1>2, <1>3 DEF ReqOk, Planned
  <2> QED BY <2>2, <2>3 DEF Owes, Bumps
<1>4. CASE r # Idle /\ Same(r, req[h])
  <2>1. Planned(r)
    BY <1>1, <1>4, PlannedSame
  <2>2. ReqOk'
    BY <1>2, <2>1 DEF ReqOk, Planned
  <2> QED BY <1>2, <1>4, <2>2 DEF Owes, Same
<1>5. CASE r # Idle /\ ~ Same(r, req[h])
  <2>1. /\ After(req[h]) # Idle /\ r.todo = After(req[h]).todo
        /\ Planned(r)
    <3>1. CASE r = After(req[h])
      BY <1>1, <1>5, <3>1, Advance
    <3>2. CASE r # After(req[h])
      <4>1. After(req[h]) # Idle /\ Same(r, After(req[h]))
        BY <3>2, <1>5 DEF Goes
      <4>2. Planned(After(req[h]))
        BY <4>1, <1>1, Advance
      <4> QED BY <4>1, <4>2, PlannedSame DEF Same
    <3> QED BY <3>1, <3>2
  <2>2. ReqOk'
    BY <1>2, <2>1 DEF ReqOk, Planned
  <2>3. Range(req[h].todo) = {req[h].todo[1]} \cup Range(r.todo)
    BY <2>1, <1>1, Advance
  <2>4. ASSUME req[h].todo[1] \notin Bumps, Owes(h)
        PROVE  Owes(h)'
    BY <2>3, <2>4, <1>2 DEF Owes, Bumps
  <2> QED BY <1>2, <1>5, <2>2, <2>4
<1> QED BY <1>3, <1>4, <1>5

\* A request that goes on without a bump silences nothing.
LEMMA QuietGoes ==
  ASSUME ReqOk, NEW h \in Handlers, req[h] # Idle, NEW r, Goes(h, r), spoilt' = spoilt,
         req[h].todo[1] \notin Bumps, Quiet'
  PROVE  Quiet
<1>1. \A g \in Handlers : g # h => req'[g] = req[g]
  BY DEF Goes, ReqOk
<1>2. Owes(h) => req'[h] # Idle /\ Owes(h)'
  BY GoesOn
<1> QED BY <1>1, <1>2 DEF Quiet, Owes

\* A request that ends early, like one that goes on, silences nothing: the
\* bump it owes is lost.
LEMMA Ends ==
  ASSUME ReqOk, NEW h \in Handlers, req[h] # Idle, End(h)
  PROVE  /\ ReqOk'
         /\ Quiet' => Quiet
         /\ Owes(h) => ~ Quiet'
<1>1. DOMAIN req' = Handlers /\ req'[h] = Idle /\ \A g \in Handlers : g # h => req'[g] = req[g]
  BY DEF End, ReqOk
<1>2. ReqOk'
  BY <1>1 DEF ReqOk, Planned
<1>3. Owes(h) => spoilt'
  BY DEF End
<1>4. spoilt => spoilt'
  BY DEF End
<1> QED BY <1>1, <1>2, <1>3, <1>4 DEF Quiet, Owes

\* A request that is at the skills of the job owes the bump for them.
LEMMA SyncOwes ==
  ASSUME ReqOk, NEW h \in Handlers, req[h] # Idle, req[h].todo[1] \in {"put", "prune"}
  PROVE  Owes(h) /\ req[h].todo[1] \notin Bumps
<1>1. Planned(req[h])
  BY DEF ReqOk
<1> DEFINE T == Range(req[h].todo)
           s == req[h].todo[1]
<1>2. s \in T /\ T \ {s} \subseteq Follow(s)
  BY <1>1, Advance
<1>3. DOMAIN req[h] = SaveFields /\ "bumpJob" \in T
  BY <1>1, <1>2 DEF Planned, RequestSteps, Steps, Tests
<1>4. "write" \notin T /\ "saveJob" \notin T
  BY <1>2 DEF Follow, Tests
<1> QED BY <1>3, <1>4 DEF Owes, Bumps

----------------------------------------------------------------------------
(* How requests start *)

\* A statement some requests skip.
Maybe(skip, s) == IF skip THEN {} ELSE {s}
\* The test of a parent that is sent.
ParentTest(p) == IF p \in {None, Clear} THEN {} ELSE {"parent"}

\* A request that starts: its record, and which statements it has.
Starts(h, r, T) ==
  /\ Begin(h, r)
  /\ Planned(r) /\ Range(r.todo) = T

\* The requests about the taxonomy are planned.
LEMMA RequestPlanned ==
  ASSUME NEW K, NEW i, NEW n, NEW c, NEW p, NEW todo,
         Ordered(todo), todo # <<>>, Range(todo) \subseteq RequestSteps,
         "write" \in Range(todo) /\ i # None => "bumpJob" \in Range(todo)
  PROVE  Planned(Request(K, i, n, c, p, todo)) /\ Request(K, i, n, c, p, todo).todo = todo
<1> DEFINE r == Request(K, i, n, c, p, todo)
<1>1. /\ DOMAIN r = RequestFields /\ r.todo = todo /\ r.id = i
  BY DEF Request, RequestFields
<1>2. RequestFields # SaveFields /\ "todo" \in RequestFields
  <2>1. "k" \in RequestFields /\ "k" \notin SaveFields
    BY DEF RequestFields, SaveFields
  <2> QED BY <2>1 DEF RequestFields
<1> HIDE DEF r
<1> QED BY <1>1, <1>2 DEF Planned, r

\* createJob and updateJob are planned, tests that do not apply left out.
LEMMA SavePlanned ==
  ASSUME NEW c, NEW clears, NEW ask, NEW twice, NEW todo,
         Ordered(todo), todo # <<>>, Range(todo) \subseteq SaveSteps, "bumpJob" \in Range(todo)
  PROVE  /\ Planned(JobSave(c, clears, ask, twice, todo))
         /\ Range(JobSave(c, clears, ask, twice, todo).todo)
              = Maybe(c = None, "category") \cup Maybe(ask = None, "askedSkills") \cup Range(todo)
<1> DEFINE r == JobSave(c, clears, ask, twice, todo)
           asked == IF ask = None THEN <<>> ELSE <<"askedSkills">>
           pre == IF c = None THEN <<>> ELSE <<"category">>
<1>1. /\ DOMAIN r = SaveFields /\ r.todo = pre \o asked \o todo
  BY DEF JobSave, SaveFields
<1>2. RequestFields # SaveFields /\ "todo" \in SaveFields
  <2>1. "k" \in RequestFields /\ "k" \notin SaveFields
    BY DEF RequestFields, SaveFields
  <2> QED BY <2>1 DEF SaveFields
<1>3. /\ Ordered(pre) /\ Range(pre) = Maybe(c = None, "category")
      /\ Ordered(asked) /\ Range(asked) = Maybe(ask = None, "askedSkills")
      /\ Range(pre) \subseteq {"category"} /\ Range(asked) \subseteq {"askedSkills"}
  BY Literals DEF Steps, Tests, Maybe
<1> HIDE DEF r, pre, asked
<1>4. /\ Ordered(pre \o asked) /\ Range(pre \o asked) \subseteq {"category", "askedSkills"}
      /\ Range(pre \o asked) = Range(pre) \cup Range(asked)
  <2>1. \A a \in Range(pre) : Range(asked) \subseteq Follow(a)
    BY <1>3 DEF Follow, Tests, Steps
  <2>2. Ordered(pre \o asked) /\ Range(pre \o asked) = Range(pre) \cup Range(asked)
    BY <1>3, <2>1, OrderedConcat, Zenon
  <2> QED BY <2>2, <1>3
<1> DEFINE head == pre \o asked
<1> HIDE DEF head
<1>5. /\ Ordered(head \o todo) /\ head \o todo # <<>>
      /\ Range(head \o todo) \subseteq SaveSteps /\ "bumpJob" \in Range(head \o todo)
      /\ Range(head \o todo) = Range(head) \cup Range(todo)
  <2>1. Ordered(head) /\ Range(head) \subseteq {"category", "askedSkills"}
    BY <1>4 DEF head
  <2>2. \A a \in Range(head) : Range(todo) \subseteq Follow(a)
    BY <2>1 DEF Follow, Tests, Steps, SaveSteps
  <2>3. /\ Ordered(head \o todo) /\ head \o todo # <<>>
        /\ Range(head \o todo) = Range(head) \cup Range(todo)
    BY <2>1, <2>2, OrderedConcat, Zenon
  <2> QED BY <2>3, <2>1 DEF SaveSteps
<1>6. r.todo = head \o todo
  BY <1>1 DEF head
<1>7. Range(r.todo) = Maybe(c = None, "category") \cup Maybe(ask = None, "askedSkills")
                      \cup Range(todo)
  BY <1>3, <1>4, <1>5, <1>6 DEF head
<1>8. Planned(r)
  BY <1>1, <1>2, <1>5, <1>6 DEF Planned
<1> QED BY <1>7, <1>8 DEF r

\* A list of tests, each there or not, before what follows them.
LEMMA TestsBefore ==
  ASSUME NEW s \in Tests, NEW skip \in BOOLEAN, NEW t, Ordered(t), t # <<>>
  PROVE  LET p == (IF skip THEN <<>> ELSE <<s>>) IN
         /\ Ordered(p) /\ Range(p) \subseteq {s}
         /\ Ordered(p \o t) /\ p \o t # <<>> /\ Range(p \o t) = Range(p) \cup Range(t)
<1> DEFINE p == IF skip THEN <<>> ELSE <<s>>
<1>1. Ordered(p) /\ Range(p) \subseteq {s}
  BY Literals DEF Steps
<1>2. \A a \in Range(p) : Range(t) \subseteq Follow(a)
  <2>1. Range(t) \subseteq Steps
    BY RangeOfSeq DEF Ordered
  <2> QED BY <1>1, <2>1 DEF Follow, Tests
<1> HIDE DEF p
<1>3. Ordered(p \o t) /\ p \o t # <<>> /\ Range(p \o t) = Range(p) \cup Range(t)
  BY <1>1, <1>2, OrderedConcat, Zenon
<1> QED BY <1>1, <1>3 DEF p

\* Tests before what follows them.
LEMMA TestsThen ==
  ASSUME NEW x, NEW y, Ordered(x), Ordered(y), Range(x) \subseteq Tests
  PROVE  /\ Ordered(x \o y) /\ Range(x \o y) = Range(x) \cup Range(y)
         /\ y # <<>> => x \o y # <<>>
<1>1. Range(y) \subseteq Steps
  BY RangeOfSeq DEF Ordered
<1>2. \A a \in Tests : Follow(a) = Steps
  BY DEF Follow, Tests
<1>3. \A a \in Range(x) : Range(y) \subseteq Follow(a)
  BY <1>1, <1>2
<1> QED BY <1>3, OrderedConcat, Zenon

\* The statements of createSkill.
LEMMA CreateSkillTodo ==
  ASSUME NEW q \in BOOLEAN
  PROVE  LET t == <<"name", "category">> \o (IF q THEN <<>> ELSE <<"parent">>)
                  \o <<"slug", "write">>
         IN  /\ Ordered(t) /\ t # <<>>
             /\ Range(t) = Maybe(q, "parent") \cup {"name", "category", "slug", "write"}
<1> DEFINE a == <<"name", "category">>
           b == IF q THEN <<>> ELSE <<"parent">>
           t == <<"slug", "write">>
<1>1. /\ Ordered(a) /\ Range(a) = {"name", "category"}
      /\ Ordered(b) /\ Range(b) = Maybe(q, "parent")
      /\ Ordered(t) /\ t # <<>> /\ Range(t) = {"slug", "write"}
  BY Literals DEF Steps, Tests, Maybe
<1>2. Range(a) \subseteq Tests /\ Range(b) \subseteq Tests
  BY <1>1 DEF Maybe, Tests
<1> HIDE DEF a, b, t
<1>3. Ordered(a \o b) /\ Range(a \o b) = Range(a) \cup Range(b)
  BY <1>1, <1>2, TestsThen
<1> DEFINE d == a \o b
<1>4. Ordered(d) /\ Range(d) = Range(a) \cup Range(b) /\ Range(d) \subseteq Tests
  BY <1>2, <1>3
<1> HIDE DEF d
<1>5. Ordered(d \o t) /\ d \o t # <<>> /\ Range(d \o t) = Range(d) \cup Range(t)
  BY <1>1, <1>4, TestsThen
<1>6. Range(d \o t) = Maybe(q, "parent") \cup {"name", "category", "slug", "write"}
  BY <1>1, <1>4, <1>5
<1> QED BY <1>5, <1>6 DEF a, b, d, t

\* The statements of updateSkill, in order and as a set.
UpdateTodo(i, n, c, p) ==
  Sends(n, c, p) \o (IF KeepsName(i, n) THEN <<>> ELSE <<"slug">>)
  \o <<"write", "bumpJob", "bumpCv">>
UpdateSteps(i, n, c, p) ==
  Maybe(n = None, "name") \cup Maybe(c = None, "category")
  \cup ParentTest(p) \cup Maybe(KeepsName(i, n), "slug") \cup {"write", "bumpJob", "bumpCv"}

LEMMA UpdateSkillTodo ==
  ASSUME NEW i, NEW n, NEW c, NEW p
  PROVE  /\ Ordered(UpdateTodo(i, n, c, p)) /\ UpdateTodo(i, n, c, p) # <<>>
         /\ Range(UpdateTodo(i, n, c, p)) = UpdateSteps(i, n, c, p)
<1> DEFINE a == IF n = None THEN <<>> ELSE <<"name">>
           b == IF c = None THEN <<>> ELSE <<"category">>
           e == IF p \in {None, Clear} THEN <<>> ELSE <<"parent">>
           g == IF KeepsName(i, n) THEN <<>> ELSE <<"slug">>
           t == <<"write", "bumpJob", "bumpCv">>
<1>1. /\ Ordered(a) /\ Range(a) = Maybe(n = None, "name")
      /\ Ordered(b) /\ Range(b) = Maybe(c = None, "category")
      /\ Ordered(e) /\ Range(e) = ParentTest(p)
      /\ Ordered(g) /\ Range(g) = Maybe(KeepsName(i, n), "slug")
      /\ Ordered(t) /\ t # <<>> /\ Range(t) = {"write", "bumpJob", "bumpCv"}
  BY Literals DEF Steps, Tests, Maybe, ParentTest
<1>2. /\ Range(a) \subseteq Tests /\ Range(b) \subseteq Tests
      /\ Range(e) \subseteq Tests /\ Range(g) \subseteq Tests
  BY <1>1 DEF Maybe, ParentTest, Tests
<1>3. Sends(n, c, p) = a \o b \o e
  BY DEF Sends
<1> HIDE DEF a, b, e, g, t
<1>4. Ordered(a \o b) /\ Range(a \o b) = Range(a) \cup Range(b)
  BY <1>1, <1>2, TestsThen
<1> DEFINE d == a \o b
<1>5. Ordered(d) /\ Range(d) = Range(a) \cup Range(b) /\ Range(d) \subseteq Tests
  BY <1>2, <1>4
<1> HIDE DEF d
<1>6. Ordered(d \o e) /\ Range(d \o e) = Range(d) \cup Range(e)
  BY <1>1, <1>5, TestsThen
<1> DEFINE f == d \o e
<1>7. Ordered(f) /\ Range(f) = Range(d) \cup Range(e) /\ Range(f) \subseteq Tests
  BY <1>2, <1>5, <1>6
<1> HIDE DEF f
<1>8. Ordered(f \o g) /\ Range(f \o g) = Range(f) \cup Range(g)
  BY <1>1, <1>7, TestsThen
<1> DEFINE o == f \o g
<1>9. Ordered(o) /\ Range(o) = Range(f) \cup Range(g) /\ Range(o) \subseteq Tests
  BY <1>2, <1>7, <1>8
<1> HIDE DEF o
<1>10. Ordered(o \o t) /\ o \o t # <<>> /\ Range(o \o t) = Range(o) \cup Range(t)
  BY <1>1, <1>9, TestsThen
<1>11. Range(o \o t) = UpdateSteps(i, n, c, p)
  BY <1>1, <1>5, <1>7, <1>9, <1>10 DEF UpdateSteps
<1>12. Sends(n, c, p) = f
  BY <1>3 DEF d, f
<1>13. UpdateTodo(i, n, c, p) = o \o t
  BY <1>12 DEF UpdateTodo, g, o, t
<1> QED BY <1>10, <1>11, <1>13, Zenon

\* The statements of updateCategory.
LEMMA UpdateCategoryTodo ==
  ASSUME NEW p \in BOOLEAN
  PROVE  LET t == <<"name">> \o (IF p THEN <<>> ELSE <<"slug">>) \o <<"write", "bumpJob">>
         IN  /\ Ordered(t) /\ t # <<>>
             /\ Range(t) = {"name"} \cup Maybe(p, "slug") \cup {"write", "bumpJob"}
<1> DEFINE a == <<"name">>
           b == IF p THEN <<>> ELSE <<"slug">>
           t == <<"write", "bumpJob">>
<1>1. /\ Ordered(a) /\ Range(a) = {"name"}
      /\ Ordered(b) /\ Range(b) = Maybe(p, "slug")
      /\ Ordered(t) /\ t # <<>> /\ Range(t) = {"write", "bumpJob"}
  BY Literals DEF Steps, Tests, Maybe
<1>2. \A x, y : Range(x) \subseteq Tests /\ Ordered(y) =>
                  \A e \in Range(x) : Range(y) \subseteq Follow(e)
  BY RangeOfSeq DEF Ordered, Follow, Tests
<1>3. Range(a) \subseteq Tests /\ Range(b) \subseteq Tests
  BY <1>1 DEF Maybe, Tests
<1> HIDE DEF a, b, t
<1>4. Ordered(a \o b) /\ Range(a \o b) = Range(a) \cup Range(b)
  <2>1. \A e \in Range(a) : Range(b) \subseteq Follow(e)
    BY <1>1, <1>2, <1>3
  <2> QED BY <1>1, <2>1, OrderedConcat, Zenon
<1> DEFINE d == a \o b
<1>5. Ordered(d) /\ Range(d) = Range(a) \cup Range(b) /\ Range(d) \subseteq Tests
  BY <1>3, <1>4
<1> HIDE DEF d
<1>6. Ordered(d \o t) /\ d \o t # <<>> /\ Range(d \o t) = Range(d) \cup Range(t)
  <2>1. \A e \in Range(d) : Range(t) \subseteq Follow(e)
    BY <1>1, <1>2, <1>5
  <2> QED BY <1>1, <1>5, <2>1, OrderedConcat, Zenon
<1>7. Range(d \o t) = {"name"} \cup Maybe(p, "slug") \cup {"write", "bumpJob"}
  BY <1>1, <1>5, <1>6
<1> QED BY <1>6, <1>7 DEF a, b, d, t

\* The requests as they start, the order of their statements left out.
StartsCreateSkill(h) ==
  /\ RoomFor(Skills)
  /\ \E n \in Names, c \in Categories, p \in Skills \cup {None} : \E todo :
       Starts(h, Request(Skills, None, n, c, p, todo),
              Maybe(p = None, "parent") \cup {"name", "category", "slug", "write"})

UpdatesSkill(h, i, n, c, p) ==
  \E todo : Starts(h, Request(Skills, i, n, c, p, todo), UpdateSteps(i, n, c, p))

StartsUpdateSkill(h) ==
  \E i \in LiveOf(Skills), n \in Names \cup {None}, c \in Categories \cup {None},
     p \in Skills \cup {Clear, None} : UpdatesSkill(h, i, n, c, p)

StartsDeleteSkill(h) ==
  \E i \in LiveOf(Skills) : \E todo :
    Starts(h, Request(Skills, i, None, None, None, todo), {"uses", "drop"})

StartsRestoreSkill(h) ==
  \E i \in Skills : \E todo :
    /\ row[i] # None /\ ~ Live(i)
    /\ Starts(h, Request(Skills, i, row[i].name, row[i].category, None, todo),
              {"category", "name", "slugFree", "restore"})

StartsCreateCategory(h) ==
  /\ RoomFor(Categories)
  /\ \E n \in Names : \E todo :
       Starts(h, Request(Categories, None, n, None, None, todo), {"name", "slug", "write"})

StartsUpdateCategory(h) ==
  \E i \in LiveOf(Categories), n \in Names : \E todo :
    Starts(h, Request(Categories, i, n, None, None, todo),
      {"name"} \cup Maybe(n = row[i].name, "slug") \cup {"write", "bumpJob"})

StartsDeleteCategory(h) ==
  \E i \in LiveOf(Categories) : \E todo :
    Starts(h, Request(Categories, i, None, None, None, todo), {"skills", "companies", "jobs", "drop"})

StartsRestoreCategory(h) ==
  \E i \in Categories : \E todo :
    /\ row[i] # None /\ ~ Live(i)
    /\ Starts(h, Request(Categories, i, row[i].name, None, None, todo), {"name", "slugFree", "restore"})

StartsUpdateCompany(h) ==
  \E c \in Categories \cup {None} : \E todo :
    Starts(h, Request({}, None, None, c, None, todo), Maybe(c = None, "category") \cup {"saveCompany"})

StartsUpdateJob(h) ==
  \E c \in Categories \cup {None}, ask \in [Skills -> {0} \cup Weights] \cup {None},
     clears \in BOOLEAN, twice \in BOOLEAN : \E todo :
    Starts(h, JobSave(c, clears, ask, twice, todo),
      Maybe(c = None, "category") \cup Maybe(ask = None, "askedSkills")
      \cup (IF ask = None THEN {} ELSE {"rows", "put", "prune"}) \cup {"saveJob", "bumpJob"})

\* The requests, each with the statements it starts with.
LEMMA Arrivals ==
  ASSUME NEW h \in Handlers, Arrive(h)
  PROVE  \/ StartsCreateSkill(h) \/ StartsUpdateSkill(h) \/ StartsDeleteSkill(h)
         \/ StartsRestoreSkill(h) \/ StartsCreateCategory(h) \/ StartsUpdateCategory(h)
         \/ StartsDeleteCategory(h) \/ StartsRestoreCategory(h) \/ StartsUpdateCompany(h)
         \/ StartsUpdateJob(h)
<1>1. CASE CreateSkill(h)
  <2>1. PICK n \in Names, c \in Categories, p \in Skills \cup {None} :
          Begin(h, Request(Skills, None, n, c, p,
            <<"name", "category">> \o (IF p = None THEN <<>> ELSE <<"parent">>)
            \o <<"slug", "write">>))
    BY <1>1, Zenon DEF CreateSkill
  <2> DEFINE t == <<"name", "category">> \o (IF p = None THEN <<>> ELSE <<"parent">>)
                  \o <<"slug", "write">>
             T == Maybe(p = None, "parent") \cup {"name", "category", "slug", "write"}
  <2>2. Ordered(t) /\ t # <<>> /\ Range(t) = T
    <3>1. (p = None) \in BOOLEAN
      OBVIOUS
    <3> QED BY <3>1, CreateSkillTodo, Zenon
  <2>3. Begin(h, Request(Skills, None, n, c, p, t))
    BY <2>1, Zenon
  <2>4. T \subseteq RequestSteps
    BY DEF RequestSteps, Steps, Tests, Maybe
  <2> HIDE DEF t, T
  <2>5. Starts(h, Request(Skills, None, n, c, p, t), T)
    BY <2>2, <2>3, <2>4, RequestPlanned DEF Starts
  <2>6. RoomFor(Skills)
    BY <1>1 DEF CreateSkill
  <2> QED BY <2>5, <2>6, Zenon DEF StartsCreateSkill, T
<1>2. CASE UpdateSkill(h)
  <2>1. PICK i \in LiveOf(Skills), n \in Names \cup {None}, c \in Categories \cup {None},
             p \in Skills \cup {Clear, None} :
          Begin(h, Request(Skills, i, n, c, p, UpdateTodo(i, n, c, p)))
    BY <1>2, Zenon DEF UpdateSkill, UpdateTodo
  <2>2. UpdateSteps(i, n, c, p) \subseteq RequestSteps /\ "bumpJob" \in UpdateSteps(i, n, c, p)
    BY DEF RequestSteps, Steps, Tests, UpdateSteps, Maybe, ParentTest
  <2>3. Starts(h, Request(Skills, i, n, c, p, UpdateTodo(i, n, c, p)), UpdateSteps(i, n, c, p))
    BY <2>1, <2>2, UpdateSkillTodo, RequestPlanned DEF Starts
  <2>4. UpdatesSkill(h, i, n, c, p)
    BY <2>3, Zenon DEF UpdatesSkill
  <2> QED BY <2>4, Zenon DEF StartsUpdateSkill
<1>3. CASE DeleteSkill(h)
  <2> DEFINE t == <<"uses", "drop">>
  <2>1. PICK i \in LiveOf(Skills) : Begin(h, Request(Skills, i, None, None, None, t))
    BY <1>3 DEF DeleteSkill
  <2>2. Ordered(t) /\ t # <<>> /\ Range(t) = {"uses", "drop"}
    BY Literals
  <2> HIDE DEF t
  <2>3. Starts(h, Request(Skills, i, None, None, None, t), {"uses", "drop"})
    BY <2>1, <2>2, RequestPlanned DEF Starts, RequestSteps, Steps, Tests
  <2> QED BY <1>3, <2>1, <2>3 DEF StartsDeleteSkill, DeleteSkill
<1>4. CASE RestoreSkill(h)
  <2> DEFINE t == <<"category", "name", "slugFree", "restore">>
  <2>1. PICK i \in Skills : /\ row[i] # None /\ ~ Live(i)
                            /\ Begin(h, Request(Skills, i, row[i].name, row[i].category, None, t))
    BY <1>4 DEF RestoreSkill
  <2>2. Ordered(t) /\ t # <<>> /\ Range(t) = {"category", "name", "slugFree", "restore"}
    BY Literals
  <2> HIDE DEF t
  <2>3. Starts(h, Request(Skills, i, row[i].name, row[i].category, None, t),
               {"category", "name", "slugFree", "restore"})
    BY <2>1, <2>2, RequestPlanned DEF Starts, RequestSteps, Steps, Tests
  <2> QED BY <1>4, <2>1, <2>3 DEF StartsRestoreSkill, RestoreSkill
<1>5. CASE CreateCategory(h)
  <2> DEFINE t == <<"name", "slug", "write">>
  <2>1. PICK n \in Names : Begin(h, Request(Categories, None, n, None, None, t))
    BY <1>5 DEF CreateCategory
  <2>2. Ordered(t) /\ t # <<>> /\ Range(t) = {"name", "slug", "write"}
    BY Literals
  <2> HIDE DEF t
  <2>3. Starts(h, Request(Categories, None, n, None, None, t), {"name", "slug", "write"})
    BY <2>1, <2>2, RequestPlanned DEF Starts, RequestSteps, Steps, Tests
  <2> QED BY <1>5, <2>1, <2>3 DEF StartsCreateCategory, CreateCategory
<1>6. CASE UpdateCategory(h)
  <2>1. PICK i \in LiveOf(Categories), n \in Names :
          Begin(h, Request(Categories, i, n, None, None,
            <<"name">> \o (IF n = row[i].name THEN <<>> ELSE <<"slug">>) \o <<"write", "bumpJob">>))
    BY <1>6, Zenon DEF UpdateCategory
  <2> DEFINE t == <<"name">> \o (IF n = row[i].name THEN <<>> ELSE <<"slug">>)
                  \o <<"write", "bumpJob">>
             T == {"name"} \cup Maybe(n = row[i].name, "slug") \cup {"write", "bumpJob"}
  <2>2. Ordered(t) /\ t # <<>> /\ Range(t) = T
    <3>1. (n = row[i].name) \in BOOLEAN
      OBVIOUS
    <3> QED BY <3>1, UpdateCategoryTodo, Zenon
  <2>3. Begin(h, Request(Categories, i, n, None, None, t))
    BY <2>1, Zenon
  <2>4. T \subseteq RequestSteps /\ "bumpJob" \in T
    BY DEF RequestSteps, Steps, Tests, Maybe
  <2> HIDE DEF t, T
  <2>5. Starts(h, Request(Categories, i, n, None, None, t), T)
    BY <2>2, <2>3, <2>4, RequestPlanned DEF Starts
  <2> QED BY <2>5, Zenon DEF StartsUpdateCategory, T
<1>7. CASE DeleteCategory(h)
  <2> DEFINE t == <<"skills", "companies", "jobs", "drop">>
  <2>1. PICK i \in LiveOf(Categories) : Begin(h, Request(Categories, i, None, None, None, t))
    BY <1>7 DEF DeleteCategory
  <2>2. Ordered(t) /\ t # <<>> /\ Range(t) = {"skills", "companies", "jobs", "drop"}
    BY Literals
  <2> HIDE DEF t
  <2>3. Starts(h, Request(Categories, i, None, None, None, t), {"skills", "companies", "jobs", "drop"})
    BY <2>1, <2>2, RequestPlanned DEF Starts, RequestSteps, Steps, Tests
  <2> QED BY <1>7, <2>1, <2>3 DEF StartsDeleteCategory, DeleteCategory
<1>8. CASE RestoreCategory(h)
  <2> DEFINE t == <<"name", "slugFree", "restore">>
  <2>1. PICK i \in Categories : /\ row[i] # None /\ ~ Live(i)
                                /\ Begin(h, Request(Categories, i, row[i].name, None, None, t))
    BY <1>8 DEF RestoreCategory
  <2>2. Ordered(t) /\ t # <<>> /\ Range(t) = {"name", "slugFree", "restore"}
    BY Literals
  <2> HIDE DEF t
  <2>3. Starts(h, Request(Categories, i, row[i].name, None, None, t), {"name", "slugFree", "restore"})
    BY <2>1, <2>2, RequestPlanned DEF Starts, RequestSteps, Steps, Tests
  <2> QED BY <1>8, <2>1, <2>3 DEF StartsRestoreCategory, RestoreCategory
<1>9. CASE UpdateCompany(h)
  <2>1. PICK c \in Categories \cup {None} :
          Begin(h, Request({}, None, None, c, None,
            (IF c = None THEN <<>> ELSE <<"category">>) \o <<"saveCompany">>))
    BY <1>9, Zenon DEF UpdateCompany
  <2> DEFINE t == (IF c = None THEN <<>> ELSE <<"category">>) \o <<"saveCompany">>
             T == Maybe(c = None, "category") \cup {"saveCompany"}
  <2>2. Ordered(t) /\ t # <<>> /\ Range(t) = T
    <3>1. "category" \in Tests /\ (c = None) \in BOOLEAN
          /\ Ordered(<<"saveCompany">>) /\ Range(<<"saveCompany">>) = {"saveCompany"}
          /\ <<"saveCompany">> # <<>>
      BY Literals DEF Tests, Steps
    <3> DEFINE p == IF c = None THEN <<>> ELSE <<"category">>
    <3>2. Range(p) = Maybe(c = None, "category")
      BY Literals DEF Steps, Tests, Maybe
    <3>3. Ordered(t) /\ t # <<>> /\ Range(t) = Range(p) \cup Range(<<"saveCompany">>)
      BY <3>1, TestsBefore, Zenon
    <3> QED BY <3>1, <3>2, <3>3
  <2>3. Begin(h, Request({}, None, None, c, None, t))
    BY <2>1, Zenon
  <2>4. T \subseteq RequestSteps
    BY DEF RequestSteps, Steps, Tests, Maybe
  <2> HIDE DEF t, T
  <2>5. Starts(h, Request({}, None, None, c, None, t), T)
    BY <2>2, <2>3, <2>4, RequestPlanned DEF Starts
  <2> QED BY <2>5, Zenon DEF StartsUpdateCompany, T
<1>10. CASE UpdateJob(h)
  <2>1. PICK c \in Categories \cup {None}, ask \in [Skills -> {0} \cup Weights] \cup {None},
             clears \in BOOLEAN, twice \in BOOLEAN :
          Begin(h, JobSave(c, clears, ask, twice,
            <<"saveJob">> \o (IF ask = None THEN <<>> ELSE <<"rows", "put", "prune">>)
            \o <<"bumpJob">>))
    BY <1>10, Zenon DEF UpdateJob
  <2> DEFINE t == <<"saveJob">> \o (IF ask = None THEN <<>> ELSE <<"rows", "put", "prune">>)
                  \o <<"bumpJob">>
             U == (IF ask = None THEN {} ELSE {"rows", "put", "prune"}) \cup {"saveJob", "bumpJob"}
  <2>2. Ordered(t) /\ t # <<>> /\ Range(t) = U
    BY Literals
  <2>3. Begin(h, JobSave(c, clears, ask, twice, t))
    BY <2>1, Zenon
  <2>4. U \subseteq SaveSteps /\ "bumpJob" \in U
    BY DEF SaveSteps
  <2> DEFINE T == Maybe(c = None, "category") \cup Maybe(ask = None, "askedSkills")
                  \cup (IF ask = None THEN {} ELSE {"rows", "put", "prune"})
                  \cup {"saveJob", "bumpJob"}
  <2>5. T = Maybe(c = None, "category") \cup Maybe(ask = None, "askedSkills") \cup U
    OBVIOUS
  <2> HIDE DEF t, T, U
  <2>6. Starts(h, JobSave(c, clears, ask, twice, t), T)
    BY <2>2, <2>3, <2>4, <2>5, SavePlanned DEF Starts
  <2> QED BY <2>6, Zenon DEF StartsUpdateJob, T
<1> QED BY <1>1, <1>2, <1>3, <1>4, <1>5, <1>6, <1>7, <1>8, <1>9, <1>10, Zenon DEF Arrive

\* One version is raised.
Bumped == \/ version' = [version EXCEPT !.job = @ + 1]
          \/ version' = [version EXCEPT !.cv = @ + 1]

\* What a step of a request does to the skills of the job and of the CV.
Careful ==
  /\ ReqOk'
  /\ linked' = linked
  /\ \/ Bumped
     \/ version' = version /\ (Quiet' => Quiet /\ needs' = needs)

\* A request that starts writes nothing.
LEMMA ArriveIsCareful ==
  ASSUME ReqOk, NEW h \in Handlers, Arrive(h)
  PROVE  Careful
<1>1. PICK r, T : Starts(h, r, T)
  BY Arrivals DEF StartsCreateSkill, StartsUpdateSkill, UpdatesSkill, StartsDeleteSkill,
     StartsRestoreSkill, StartsCreateCategory, StartsUpdateCategory, StartsDeleteCategory,
     StartsRestoreCategory, StartsUpdateCompany, StartsUpdateJob
<1>2. /\ req[h] = Idle /\ req' = [req EXCEPT ![h] = r] /\ Planned(r)
      /\ needs' = needs /\ linked' = linked /\ version' = version /\ spoilt' = spoilt
  BY <1>1 DEF Starts, Begin, rows
<1>3. DOMAIN req' = Handlers /\ req'[h] = r /\ \A g \in Handlers : g # h => req'[g] = req[g]
  BY <1>2 DEF ReqOk
<1>4. ReqOk'
  BY <1>2, <1>3 DEF ReqOk, Planned
<1>5. Quiet' => Quiet
  BY <1>2, <1>3 DEF Quiet, Owes
<1> QED BY <1>2, <1>4, <1>5 DEF Careful

\* A statement that writes no skill of the job and links none.
LEMMA GoesCarefully ==
  ASSUME ReqOk, NEW h \in Handlers, req[h] # Idle, NEW r, Goes(h, r), spoilt' = spoilt,
         req[h].todo[1] \notin Bumps, version' = version, linked' = linked, needs' = needs
  PROVE  Careful
<1>1. ReqOk'
  BY GoesOn
<1>2. Quiet' => Quiet
  BY QuietGoes
<1> QED BY <1>1, <1>2 DEF Careful

\* So does a request that ends.
LEMMA EndsCarefully ==
  ASSUME ReqOk, NEW h \in Handlers, req[h] # Idle, End(h),
         version' = version, linked' = linked, needs' = needs
  PROVE  Careful
BY Ends DEF Careful

\* Proceed is one way to go on.
LEMMA ProceedGoes ==
  ASSUME NEW h \in Handlers, Proceed(h)
  PROVE  Goes(h, After(req[h]))
BY DEF Proceed, Goes

\* A test writes nothing, whatever comes of it.
LEMMA TestIsCareful ==
  ASSUME ReqOk, NEW h \in Handlers, NEW s, s \notin Bumps, NEW ok \in BOOLEAN, Test(h, s, ok)
  PROVE  Careful
<1>1. /\ req[h] # Idle /\ req[h].todo[1] = s
      /\ version' = version /\ linked' = linked /\ needs' = needs
  BY DEF Test, At, rows
<1>2. CASE ok
  <2>1. Proceed(h) /\ spoilt' = spoilt
    BY <1>2 DEF Test
  <2> QED BY <1>1, <2>1, ProceedGoes, GoesCarefully
<1>3. CASE ~ ok
  BY <1>1, <1>3, EndsCarefully DEF Test
<1> QED BY <1>2, <1>3

\* Every statement is careful: one that writes what a skill match is made
\* of owes a bump afterwards.
LEMMA StatementIsCareful ==
  ASSUME ReqOk, NEW h \in Handlers, Statement(h)
  PROVE  Careful
<1>1. CASE Name(h)
  BY <1>1, TestIsCareful DEF Name, Bumps
<1>2. CASE Category(h)
  <2>1. Live(req[h].category) \in BOOLEAN
    BY DEF Live
  <2> QED BY <1>2, <2>1, TestIsCareful DEF Category, Bumps
<1>3. CASE SlugFree(h)
  BY <1>3, TestIsCareful DEF SlugFree, Bumps
<1>4. CASE Uses(h)
  BY <1>4, TestIsCareful DEF Uses, Bumps
<1>5. CASE SkillsOf(h)
  BY <1>5, TestIsCareful DEF SkillsOf, Bumps
<1>6. CASE CompaniesOf(h)
  BY <1>6, TestIsCareful DEF CompaniesOf, Bumps
<1>7. CASE JobsOf(h)
  BY <1>7, TestIsCareful DEF JobsOf, Bumps
<1>8. CASE AskedSkills(h)
  BY <1>8, TestIsCareful DEF AskedSkills, Bumps
<1>9. CASE FindSlug(h)
  <2>1. /\ req[h] # Idle /\ req[h].todo[1] = "slug" /\ "slug" \notin Bumps
        /\ version' = version /\ linked' = linked /\ needs' = needs /\ spoilt' = spoilt
    BY <1>9 DEF FindSlug, At, rows, Bumps
  <2>2. \/ \E g : req' = [req EXCEPT ![h] = [After(req[h]) EXCEPT !.slug = g]]
        \/ \E n : req' = [req EXCEPT ![h] = [req[h] EXCEPT !.k = n]]
    BY <1>9 DEF FindSlug
  <2>3. ASSUME NEW g, req' = [req EXCEPT ![h] = [After(req[h]) EXCEPT !.slug = g]]
        PROVE  Careful
    <3> DEFINE r == [After(req[h]) EXCEPT !.slug = g]
    <3>1. Goes(h, r)
      <4>1. CASE After(req[h]) = Idle
        <5>1. r = Idle
          BY <4>1 DEF Idle
        <5> QED BY <5>1, <4>1, <2>3 DEF Goes
      <4>2. CASE After(req[h]) # Idle
        <5>1. Same(r, After(req[h]))
          BY DEF Same
        <5> QED BY <5>1, <4>2, <2>3 DEF Goes
      <4> QED BY <4>1, <4>2
    <3> HIDE DEF r
    <3> QED BY <3>1, <2>1, GoesCarefully
  <2>4. ASSUME NEW n, req' = [req EXCEPT ![h] = [req[h] EXCEPT !.k = n]]
        PROVE  Careful
    <3> DEFINE r == [req[h] EXCEPT !.k = n]
    <3>1. Goes(h, r)
      <4>1. Same(r, req[h])
        BY DEF Same
      <4> QED BY <4>1, <2>4 DEF Goes
    <3> HIDE DEF r
    <3> QED BY <3>1, <2>1, GoesCarefully
  <2> QED BY <2>2, <2>3, <2>4
<1>10. CASE Write(h)
  <2>1. /\ req[h] # Idle /\ req[h].todo[1] = "write" /\ "write" \notin Bumps
        /\ version' = version /\ linked' = linked /\ needs' = needs
    BY <1>10 DEF Write, At, Bumps
  <2>2. End(h) \/ (Proceed(h) /\ spoilt' = spoilt)
    BY <1>10 DEF Write
  <2> QED BY <2>1, <2>2, EndsCarefully, ProceedGoes, GoesCarefully
<1>11. CASE Drop(h)
  BY <1>11, ProceedGoes, GoesCarefully DEF Drop, SetLive, At, Bumps
<1>12. CASE Restore(h)
  <2>1. /\ req[h] # Idle /\ req[h].todo[1] = "restore" /\ "restore" \notin Bumps
        /\ version' = version /\ linked' = linked /\ needs' = needs
        /\ End(h) \/ (Proceed(h) /\ spoilt' = spoilt)
    BY <1>12 DEF Restore, At, Bumps, SetLive, rows
  <2> QED BY <2>1, EndsCarefully, ProceedGoes, GoesCarefully
<1>13. CASE SaveCompany(h)
  BY <1>13, ProceedGoes, GoesCarefully DEF SaveCompany, At, Bumps
<1>14. CASE SaveJob(h)
  BY <1>14, ProceedGoes, GoesCarefully DEF SaveJob, At, Bumps
<1>15. CASE ReadRows(h)
  <2>1. /\ req[h] # Idle /\ req[h].todo[1] = "rows" /\ "rows" \notin Bumps
        /\ version' = version /\ linked' = linked /\ needs' = needs
    BY <1>15 DEF ReadRows, At, Bumps, rows
  <2> DEFINE r == [After(req[h]) EXCEPT !.had = needs,
                                        !.left = {s \in Skills : req[h].ask[s] > 0}]
  <2>2. CASE End(h)
    BY <2>1, <2>2, EndsCarefully
  <2>3. CASE req' = [req EXCEPT ![h] = r] /\ spoilt' = spoilt
    <3>1. CASE After(req[h]) = Idle
      <4>1. r = Idle
        BY <3>1 DEF Idle
      <4>2. Goes(h, r)
        BY <4>1, <3>1, <2>3 DEF Goes
      <4> QED BY <4>2, <2>1, <2>3, GoesCarefully
    <3>2. CASE After(req[h]) # Idle
      <4>1. Same(r, After(req[h]))
        BY DEF Same
      <4>2. Goes(h, r)
        BY <4>1, <3>2, <2>3 DEF Goes
      <4> QED BY <4>2, <2>1, <2>3, GoesCarefully
    <3> QED BY <3>1, <3>2
  <2>4. DOMAIN req = Handlers
    BY DEF ReqOk
  <2> QED BY <1>15, <2>2, <2>3, <2>4 DEF ReadRows
<1>16. ASSUME NEW r, Goes(h, r) \/ End(h), spoilt' = spoilt \/ End(h), req[h] # Idle,
              req[h].todo[1] \in {"put", "prune"}, version' = version, linked' = linked
       PROVE  Careful
  <2>1. Owes(h) /\ req[h].todo[1] \notin Bumps
    BY <1>16, SyncOwes
  <2>2. CASE End(h)
    BY <2>1, <2>2, <1>16, Ends DEF Careful
  <2>3. CASE Goes(h, r)
    <3>1. ReqOk' /\ req'[h] # Idle /\ Owes(h)'
      BY <2>1, <2>3, <1>16, GoesOn
    <3>2. ~ Quiet'
      BY <3>1 DEF Quiet
    <3> QED BY <3>1, <3>2, <1>16 DEF Careful
  <2> QED BY <1>16, <2>2, <2>3
<1>17. CASE PutSkill(h)
  <2>1. /\ req[h] # Idle /\ req[h].todo[1] = "put" /\ version' = version /\ linked' = linked
    BY <1>17 DEF PutSkill, At
  <2>2. DOMAIN req = Handlers
    BY DEF ReqOk
  <2>3. ASSUME NEW S, req' = [req EXCEPT ![h] = [After(req[h]) EXCEPT !.left = S]],
               spoilt' = spoilt
        PROVE  Careful
    <3> DEFINE r == [After(req[h]) EXCEPT !.left = S]
    <3>1. Goes(h, r)
      <4>1. CASE After(req[h]) = Idle
        <5>1. r = Idle
          BY <4>1 DEF Idle
        <5> QED BY <5>1, <4>1, <2>3 DEF Goes
      <4>2. CASE After(req[h]) # Idle
        <5>1. Same(r, After(req[h]))
          BY DEF Same
        <5> QED BY <5>1, <4>2, <2>3 DEF Goes
      <4> QED BY <4>1, <4>2
    <3> HIDE DEF r
    <3> QED BY <3>1, <2>1, <2>3, <1>16
  <2>4. ASSUME NEW S, req' = [req EXCEPT ![h] = [req[h] EXCEPT !.left = S]],
               spoilt' = spoilt
        PROVE  Careful
    <3> DEFINE r == [req[h] EXCEPT !.left = S]
    <3>1. Goes(h, r)
      <4>1. Same(r, req[h])
        BY DEF Same
      <4> QED BY <4>1, <2>4 DEF Goes
    <3> HIDE DEF r
    <3> QED BY <3>1, <2>1, <2>4, <1>16
  <2>5. CASE End(h)
    BY <2>5, <2>1, <1>16
  <2>6. \/ End(h)
        \/ \E S : req' = [req EXCEPT ![h] = [After(req[h]) EXCEPT !.left = S]]
                  /\ spoilt' = spoilt
        \/ \E S : req' = [req EXCEPT ![h] = [req[h] EXCEPT !.left = S]] /\ spoilt' = spoilt
    BY <1>17, <2>2 DEF PutSkill
  <2> QED BY <2>3, <2>4, <2>5, <2>6
<1>18. CASE PruneSkill(h)
  <2>1. /\ req[h] # Idle /\ req[h].todo[1] = "prune" /\ version' = version /\ linked' = linked
        /\ spoilt' = spoilt
    BY <1>18 DEF PruneSkill, At
  <2>2. DOMAIN req = Handlers
    BY DEF ReqOk
  <2>3. Proceed(h) \/ \E S : req' = [req EXCEPT ![h] = [req[h] EXCEPT !.left = S]]
    BY <1>18, <2>2 DEF PruneSkill
  <2>4. CASE Proceed(h)
    BY <2>1, <2>4, ProceedGoes, <1>16
  <2>5. ASSUME NEW S, req' = [req EXCEPT ![h] = [req[h] EXCEPT !.left = S]]
        PROVE  Careful
    <3> DEFINE r == [req[h] EXCEPT !.left = S]
    <3>1. Goes(h, r)
      <4>1. Same(r, req[h])
        BY DEF Same
      <4> QED BY <4>1, <2>5 DEF Goes
    <3> HIDE DEF r
    <3> QED BY <3>1, <2>1, <1>16
  <2> QED BY <2>3, <2>4, <2>5
<1>19. CASE BumpJob(h)
  <2>1. ReqOk'
    BY <1>19, ProceedGoes, GoesOn DEF BumpJob, At
  <2> QED BY <1>19, <2>1 DEF BumpJob, Careful, Bumped, rows
<1>20. CASE BumpCv(h)
  <2>1. ReqOk'
    BY <1>20, ProceedGoes, GoesOn DEF BumpCv, At
  <2> QED BY <1>20, <2>1 DEF BumpCv, Careful, Bumped, rows
<1>21. CASE Abort(h)
  BY <1>21, EndsCarefully DEF Abort, rows
<1>22. CASE Parent(h)
  <2>1. (req[h].parent # req[h].id /\ Live(req[h].parent)) \in BOOLEAN
    BY DEF Live
  <2> QED BY <1>22, <2>1, TestIsCareful DEF Parent, Bumps
<1> QED BY <1>1, <1>2, <1>3, <1>4, <1>5, <1>6, <1>7, <1>8, <1>9, <1>10, <1>11, <1>12, <1>13,
           <1>14, <1>15, <1>17, <1>18, <1>19, <1>20, <1>21, <1>22 DEF Statement

\* Nothing has moved since these versions were read, and nobody is to bump them.
Fresh(j, c) ==
  /\ j = version.job /\ c = version.cv /\ parsed.status = "completed" /\ worker = Idle
  /\ Quiet

----------------------------------------------------------------------------
(* Skill matches in every interleaving *)

\* A result that would be found has the skill match of the skills there
\* are.
SkillOf(r) == Fresh(r.job, r.cv) => r.result.skill = SkillMatch(WeightsOf(needs), linked)

\* Where a calculation has read the versions, and where it has its result.
HasJob == {"cvVersion", "cached", "links", "skills", "category", "find", "save", "store"}
HasCv == HasJob \ {"cvVersion"}
HasResult == {"find", "save", "store"}

\* The memory of a calculation.
Good(r) ==
  /\ "at" \in DOMAIN r
  /\ r.at \in HasJob => "job" \in DOMAIN r /\ r.job \in Nat /\ r.job <= version.job
  /\ r.at \in HasCv => "cv" \in DOMAIN r /\ r.cv \in Nat /\ r.cv <= version.cv
  /\ r.at \in {"skills", "category"} =>
       /\ {"has", "weight"} \subseteq DOMAIN r
       /\ Fresh(r.job, r.cv) => r.has = linked /\ r.weight = WeightsOf(needs)
  /\ r.at \in HasResult => "result" \in DOMAIN r /\ SkillOf(r)

\* A calculation at work.
CalcOk(k) == calc[k] # Idle => Good(calc[k])

\* The invariant of skill matches: whatever runs at the same time, a result
\* with the versions there are, in Redis or on its way there, counts the
\* right skills.
SkillInv ==
  /\ ReqOk
  /\ DOMAIN version = {"job", "cv"} /\ version.job \in Nat /\ version.cv \in Nat
  /\ "status" \in DOMAIN parsed /\ (worker # Idle => "at" \in DOMAIN worker)
  /\ cached.job \in Int /\ cached.job <= version.job
  /\ cached.cv \in Int /\ cached.cv <= version.cv
  /\ SkillOf(cached)
  /\ DOMAIN calc = Calculators
  /\ \A k \in Calculators : CalcOk(k)

\* A step after which less is fresh, or the same of the same skills.
Keeps ==
  /\ DOMAIN version' = {"job", "cv"} /\ version'.job \in Nat /\ version'.cv \in Nat
  /\ version.job <= version'.job /\ version.cv <= version'.cv
  /\ \A j, c \in Int : j <= version.job /\ c <= version.cv /\ Fresh(j, c)' =>
       Fresh(j, c) /\ linked' = linked /\ WeightsOf(needs)' = WeightsOf(needs)

\* What a calculation has read stays right, or is no longer fresh.
LEMMA KeepsCalc ==
  ASSUME SkillInv, Keeps, NEW k \in Calculators, UNCHANGED calc[k]
  PROVE  CalcOk(k)'
<1> PICK r : r = calc[k]
  OBVIOUS
<1>1. calc'[k] = r
  OBVIOUS
<1>2. CASE r = Idle
  BY <1>1, <1>2 DEF CalcOk
<1>3. CASE r # Idle
  <2>1. /\ "at" \in DOMAIN r
        /\ r.at \in HasJob => "job" \in DOMAIN r /\ r.job \in Nat /\ r.job <= version.job
        /\ r.at \in HasCv => "cv" \in DOMAIN r /\ r.cv \in Nat /\ r.cv <= version.cv
        /\ r.at \in {"skills", "category"} =>
             /\ {"has", "weight"} \subseteq DOMAIN r
             /\ Fresh(r.job, r.cv) => r.has = linked /\ r.weight = WeightsOf(needs)
        /\ r.at \in HasResult => "result" \in DOMAIN r /\ SkillOf(r)
    BY <1>3 DEF SkillInv, CalcOk, Good
  <2>2. /\ r.at \in HasJob => r.job <= version'.job
        /\ r.at \in HasCv => r.cv <= version'.cv
    <3>1. version.job \in Nat /\ version.cv \in Nat /\ version'.job \in Nat /\ version'.cv \in Nat
          /\ version.job <= version'.job /\ version.cv <= version'.cv
      BY DEF SkillInv, Keeps
    <3> QED BY <2>1, <3>1
  <2>3. ASSUME r.at \in HasCv, Fresh(r.job, r.cv)'
        PROVE  Fresh(r.job, r.cv) /\ linked' = linked /\ WeightsOf(needs)' = WeightsOf(needs)
    <3>1. r.job \in Int /\ r.cv \in Int /\ r.job <= version.job /\ r.cv <= version.cv
      BY <2>1, <2>3 DEF HasCv
    <3> QED BY <2>3, <3>1 DEF Keeps
  <2>4. r.at \in {"skills", "category"} =>
          (Fresh(r.job, r.cv)' => r.has = linked' /\ r.weight = WeightsOf(needs)')
    BY <2>1, <2>3 DEF HasCv, HasJob
  <2>5. r.at \in HasResult => SkillOf(r)'
    BY <2>1, <2>3 DEF HasCv, HasJob, HasResult, SkillOf
  <2> QED BY <1>1, <2>1, <2>2, <2>4, <2>5 DEF CalcOk, Good
<1> QED BY <1>2, <1>3

\* So does what Redis has.
LEMMA KeepsCached ==
  ASSUME SkillInv, Keeps, UNCHANGED cached
  PROVE  /\ cached'.job \in Int /\ cached'.job <= version'.job
         /\ cached'.cv \in Int /\ cached'.cv <= version'.cv
         /\ SkillOf(cached)'
<1> PICK r : r = cached
  OBVIOUS
<1>1. /\ r.job \in Int /\ r.job <= version.job /\ r.cv \in Int /\ r.cv <= version.cv
      /\ SkillOf(r)
  BY DEF SkillInv
<1>2. version.job \in Nat /\ version.cv \in Nat /\ version'.job \in Nat /\ version'.cv \in Nat
      /\ version.job <= version'.job /\ version.cv <= version'.cv
  BY DEF SkillInv, Keeps
<1>3. ASSUME Fresh(r.job, r.cv)'
      PROVE  Fresh(r.job, r.cv) /\ linked' = linked /\ WeightsOf(needs)' = WeightsOf(needs)
  BY <1>1, <1>3 DEF Keeps
<1>4. SkillOf(r)'
  BY <1>1, <1>3 DEF SkillOf
<1>5. cached' = r
  OBVIOUS
<1> QED BY <1>1, <1>2, <1>4, <1>5

\* A step of a request keeps what the calculations and Redis have.
LEMMA CarefulKeeps ==
  ASSUME SkillInv, Careful, UNCHANGED matching
  PROVE  SkillInv'
<1>1. worker' = worker /\ parsed' = parsed /\ calc' = calc /\ cached' = cached
  BY DEF matching
<1>2. DOMAIN version = {"job", "cv"} /\ version.job \in Nat /\ version.cv \in Nat
  BY DEF SkillInv
<1>3. Keeps
  <2>1. CASE Bumped
    <3>1. /\ DOMAIN version' = {"job", "cv"} /\ version'.job \in Nat /\ version'.cv \in Nat
          /\ version.job <= version'.job /\ version.cv <= version'.cv
          /\ version.job < version'.job \/ version.cv < version'.cv
      BY <2>1, <1>2 DEF Bumped
    <3>2. ASSUME NEW j \in Int, NEW c \in Int, j <= version.job, c <= version.cv, Fresh(j, c)'
          PROVE  FALSE
      <4>1. j = version'.job /\ c = version'.cv
        BY <3>2 DEF Fresh
      <4> QED BY <4>1, <3>1, <3>2, <1>2
    <3> QED BY <3>1, <3>2 DEF Keeps
  <2>2. CASE version' = version /\ (Quiet' => Quiet /\ needs' = needs)
    <3>1. ASSUME NEW j \in Int, NEW c \in Int, Fresh(j, c)'
          PROVE  Fresh(j, c) /\ linked' = linked /\ WeightsOf(needs)' = WeightsOf(needs)
      <4>1. Quiet' /\ j = version.job /\ c = version.cv /\ parsed.status = "completed"
            /\ worker = Idle
        BY <3>1, <2>2, <1>1 DEF Fresh
      <4> QED BY <4>1, <2>2 DEF Fresh, Careful, WeightsOf
    <3> QED BY <2>2, <3>1, <1>2 DEF Keeps
  <2> QED BY <2>1, <2>2 DEF Careful
<1>4. /\ cached'.job \in Int /\ cached'.job <= version'.job
      /\ cached'.cv \in Int /\ cached'.cv <= version'.cv
      /\ SkillOf(cached)'
  BY <1>1, <1>3, KeepsCached
<1>5. \A k \in Calculators : CalcOk(k)'
  BY <1>1, <1>3, KeepsCalc
<1> QED BY <1>1, <1>3, <1>4, <1>5 DEF SkillInv, Careful, Keeps

\* Once the analysis has begun nothing is fresh until it has bumped.
LEMMA AnalysisForgets ==
  ASSUME SkillInv, StartAnalysis \/ Analyse
  PROVE  /\ "status" \in DOMAIN parsed' /\ (worker' # Idle => "at" \in DOMAIN worker')
         /\ Keeps
         /\ \A j : \A c \in Int : c <= version.cv => ~ Fresh(j, c)'
         /\ req' = req /\ spoilt' = spoilt /\ calc' = calc /\ cached' = cached
<1>1. /\ DOMAIN version = {"job", "cv"} /\ version.job \in Nat /\ version.cv \in Nat
      /\ "status" \in DOMAIN parsed /\ (worker # Idle => "at" \in DOMAIN worker)
  BY DEF SkillInv
<1>2. /\ req' = req /\ needs' = needs /\ spoilt' = spoilt /\ calc' = calc /\ cached' = cached
  BY DEF StartAnalysis, Analyse, BuildRequest, Answer, Complete, ClearSkills, FindSkill,
     LinkSkill, BumpAnalysis, FailAnalysis, vars, rows, GiveUp
<1>3. \A w : "at" \in DOMAIN w /\ w.at # "nothing" => w # Idle
  BY DEF Idle
<1> DEFINE Stale == \/ worker' # Idle /\ "at" \in DOMAIN worker'
                    \/ worker' = Idle /\ parsed'.status = "failed"
<1>4. /\ "status" \in DOMAIN parsed' /\ (worker' # Idle => "at" \in DOMAIN worker')
      /\ \/ Stale /\ version' = version
         \/ version' = [version EXCEPT !.cv = @ + 1]
  <2>1. ASSUME GiveUp
        PROVE  Stale /\ "status" \in DOMAIN parsed'
    BY <2>1, <1>1 DEF GiveUp
  <2>2. CASE StartAnalysis
    BY <2>2, <1>1, <1>3 DEF StartAnalysis, vars
  <2>3. CASE BuildRequest
    BY <2>3, <1>1, <1>3 DEF BuildRequest, vars
  <2>4. CASE Answer
    <3>1. CASE GiveUp
      BY <2>4, <3>1, <2>1, <1>1 DEF Answer, vars
    <3>2. CASE ~ GiveUp
      <4>1. "at" \in DOMAIN worker' /\ worker'.at = "complete" /\ parsed' = parsed
        BY <2>4, <3>2 DEF Answer
      <4> QED BY <2>4, <4>1, <1>1, <1>3 DEF Answer, vars
    <3> QED BY <3>1, <3>2
  <2>5. CASE Complete
    BY <2>5, <1>1, <1>3 DEF Complete, WorkerAt, vars
  <2>6. CASE ClearSkills
    BY <2>6, <1>1, <1>3 DEF ClearSkills, WorkerAt
  <2>7. CASE FindSkill
    <3>1. \/ worker' = [worker EXCEPT !.at = "bump"]
          \/ \E x : worker' = [worker EXCEPT !.skills = x]
          \/ \E x : worker' = [worker EXCEPT !.at = "link", !.skill = x]
      BY <2>7 DEF FindSkill
    <3>2. "at" \in DOMAIN worker' /\ worker'.at \in {"bump", "link", "find"}
      <4>1. "at" \in DOMAIN worker /\ worker.at = "find"
        BY <2>7, <1>1 DEF FindSkill, WorkerAt
      <4> QED BY <3>1, <4>1
    <3> QED BY <2>7, <3>2, <1>1, <1>3 DEF FindSkill, vars
  <2>8. CASE LinkSkill
    <3>1. CASE GiveUp
      BY <2>8, <3>1, <2>1, <1>1 DEF LinkSkill
    <3>2. CASE ~ GiveUp
      BY <2>8, <3>2, <1>1, <1>3 DEF LinkSkill, WorkerAt
    <3> QED BY <3>1, <3>2
  <2>9. CASE BumpAnalysis
    BY <2>9, <1>1 DEF BumpAnalysis
  <2>10. CASE FailAnalysis
    BY <2>10, <2>1, <1>1 DEF FailAnalysis
  <2> QED BY <2>2, <2>3, <2>4, <2>5, <2>6, <2>7, <2>8, <2>9, <2>10 DEF Analyse
<1>5. CASE Stale /\ version' = version
  <2>1. \A j, c : ~ Fresh(j, c)'
    BY <1>5 DEF Fresh
  <2>2. Keeps
    BY <1>5, <2>1, <1>1 DEF Keeps
  <2> QED BY <1>2, <1>4, <2>1, <2>2
<1>6. CASE version' = [version EXCEPT !.cv = @ + 1]
  <2>1. ASSUME NEW j, NEW c \in Int, c <= version.cv, Fresh(j, c)'
        PROVE  FALSE
    BY <1>6, <2>1, <1>1 DEF Fresh
  <2>2. Keeps
    BY <1>6, <2>1, <1>1 DEF Keeps
  <2> QED BY <1>2, <1>4, <2>1, <2>2
<1> QED BY <1>4, <1>5, <1>6

\* The analysis keeps the invariant, nothing being fresh after it.
LEMMA AnalysisKeeps ==
  ASSUME SkillInv, StartAnalysis \/ Analyse
  PROVE  SkillInv'
<1>1. /\ "status" \in DOMAIN parsed' /\ (worker' # Idle => "at" \in DOMAIN worker')
      /\ Keeps
      /\ req' = req /\ calc' = calc /\ cached' = cached
  BY AnalysisForgets
<1>2. ReqOk' /\ DOMAIN calc' = Calculators
  BY <1>1 DEF SkillInv, ReqOk
<1>3. /\ cached'.job \in Int /\ cached'.job <= version'.job
      /\ cached'.cv \in Int /\ cached'.cv <= version'.cv
      /\ SkillOf(cached)'
  BY <1>1, KeepsCached
<1>4. \A k \in Calculators : CalcOk(k)'
  BY <1>1, KeepsCalc
<1>5. DOMAIN version' = {"job", "cv"} /\ version'.job \in Nat /\ version'.cv \in Nat
  BY <1>1 DEF Keeps
<1> QED BY <1>1, <1>2, <1>3, <1>4, <1>5 DEF SkillInv

\* A step of a calculation that leaves all but its own memory alone.
LEMMA CalcKeeps ==
  ASSUME SkillInv, NEW k \in Calculators, NEW r,
         calc' = [calc EXCEPT ![k] = r], UNCHANGED <<rows, version, req, spoilt, parsed, worker>>,
         r = Idle \/ Good(r),
         cached' = cached \/ ( /\ cached'.job \in Int /\ cached'.job <= version.job
                               /\ cached'.cv \in Int /\ cached'.cv <= version.cv
                               /\ SkillOf(cached') )
  PROVE  SkillInv'
<1>1. /\ needs' = needs /\ linked' = linked /\ version' = version /\ req' = req
      /\ spoilt' = spoilt /\ parsed' = parsed /\ worker' = worker
  BY DEF rows
<1>2. DOMAIN version = {"job", "cv"} /\ version.job \in Nat /\ version.cv \in Nat
  BY DEF SkillInv
<1>3. Quiet' = Quiet /\ WeightsOf(needs)' = WeightsOf(needs)
  BY <1>1 DEF Quiet, Owes, WeightsOf
<1>4. \A j, c : Fresh(j, c)' = Fresh(j, c)
  BY <1>1, <1>3 DEF Fresh
<1>5. Keeps
  BY <1>1, <1>2, <1>3, <1>4 DEF Keeps
<1>6. DOMAIN calc' = Calculators /\ \A g \in Calculators : g # k => calc'[g] = calc[g]
  BY DEF SkillInv
<1>7. \A g \in Calculators : CalcOk(g)'
  <2>1. CalcOk(k)'
    <3>1. Good(r)' = Good(r)
      BY <1>1, <1>3, <1>4 DEF Good, SkillOf
    <3>2. calc'[k] = r
      BY DEF SkillInv
    <3> QED BY <3>1, <3>2 DEF CalcOk
  <2> QED BY <2>1, <1>5, <1>6, KeepsCalc
<1>8. /\ cached'.job \in Int /\ cached'.job <= version'.job
      /\ cached'.cv \in Int /\ cached'.cv <= version'.cv
      /\ SkillOf(cached)'
  <2>1. CASE cached' = cached
    BY <2>1, <1>5, KeepsCached
  <2>2. CASE /\ cached'.job \in Int /\ cached'.job <= version.job
             /\ cached'.cv \in Int /\ cached'.cv <= version.cv
             /\ SkillOf(cached')
    <3> PICK e : e = cached'
      OBVIOUS
    <3>1. SkillOf(e)
      BY <2>2
    <3>2. SkillOf(e)'
      BY <3>1, <1>1, <1>3, <1>4 DEF SkillOf
    <3> QED BY <2>2, <3>2, <1>1
  <2> QED BY <2>1, <2>2
<1>9. ReqOk'
  BY <1>1 DEF SkillInv, ReqOk
<1> QED BY <1>1, <1>6, <1>7, <1>8, <1>9 DEF SkillInv

\* A calculation that has learned something.
Extended(n, r, at, what) ==
  /\ DOMAIN n = DOMAIN what \cup DOMAIN r /\ n.at = at
  /\ \A f \in DOMAIN what : n[f] = what[f]
  /\ \A f \in DOMAIN r : f \notin DOMAIN what /\ f # "at" => n[f] = r[f]

\* Which is what Learn does.
LEMMA Learned ==
  ASSUME NEW what, NEW r, NEW at, "at" \in DOMAIN r, "at" \notin DOMAIN what
  PROVE  Extended(With([r EXCEPT !.at = at], what), r, at, what)
BY DEF With, Extended

\* A calculation keeps the invariant: it reads the versions before the
\* skills.
LEMMA CalculateKeeps ==
  ASSUME SkillInv, NEW k \in Calculators, ReadJob(k) \/ Calculate(k)
  PROVE  SkillInv'
<1> PICK r : r = calc[k]
  OBVIOUS
<1>1. /\ DOMAIN version = {"job", "cv"} /\ version.job \in Nat /\ version.cv \in Nat
      /\ DOMAIN calc = Calculators
  BY DEF SkillInv
<1>2. r # Idle => Good(r)
  BY DEF SkillInv, CalcOk
<1>3. CASE ReadJob(k)
  <2> DEFINE n == [at |-> "parsed", jobCat |-> jobCat]
  <2>1. Good(n)
    BY DEF Good, HasJob, HasCv, HasResult
  <2>2. calc' = [calc EXCEPT ![k] = n] /\ cached' = cached
        /\ UNCHANGED <<rows, version, req, spoilt, parsed, worker>>
    BY <1>3 DEF ReadJob, vars, rows
  <2> HIDE DEF n
  <2> QED BY <2>1, <2>2, CalcKeeps
<1>4. ASSUME NEW n, calc' = [calc EXCEPT ![k] = n], n = Idle \/ Good(n),
             UNCHANGED <<vars, parsed, worker, cached>>
      PROVE  SkillInv'
  BY <1>4, CalcKeeps DEF vars, rows
<1>5. ASSUME NEW at, NEW what, Learn(k, at, what), "at" \notin DOMAIN what, r # Idle,
             \A n : Extended(n, r, at, what) => Good(n)
      PROVE  SkillInv'
  <2> DEFINE n == With([r EXCEPT !.at = at], what)
  <2>1. calc' = [calc EXCEPT ![k] = n] /\ UNCHANGED <<vars, parsed, worker, cached>>
    BY <1>5 DEF Learn
  <2>2. "at" \in DOMAIN r
    BY <1>2, <1>5 DEF Good
  <2>3. Extended(n, r, at, what)
    BY <1>5, <2>2, Learned
  <2> HIDE DEF n
  <2>4. Good(n)
    BY <1>5, <2>3
  <2> QED BY <2>1, <2>4, <1>4
<1>6. CASE ReadParsed(k)
  <2>1. r # Idle /\ r.at = "parsed"
    BY <1>6 DEF ReadParsed, CalcAt
  <2>2. CASE Learn(k, "jobVersion", [parsed |-> parsed])
    <3>1. ASSUME NEW n, Extended(n, r, "jobVersion", [parsed |-> parsed])
          PROVE  Good(n)
      BY <3>1, <2>1, <1>2 DEF Good, HasJob, HasCv, HasResult, Extended
    <3> QED BY <2>1, <2>2, <3>1, <1>5
  <2>3. CASE calc' = [calc EXCEPT ![k] = Idle] /\ UNCHANGED <<vars, parsed, worker, cached, match>>
    BY <2>3, <1>4
  <2> QED BY <1>6, <2>2, <2>3 DEF ReadParsed
<1>7. CASE ReadJobVersion(k)
  <2>1. r # Idle /\ r.at = "jobVersion" /\ Learn(k, "cvVersion", [job |-> version.job])
    BY <1>7 DEF ReadJobVersion, CalcAt
  <2>2. ASSUME NEW n, Extended(n, r, "cvVersion", [job |-> version.job])
        PROVE  Good(n)
    <3>1. n.job = version.job /\ "job" \in DOMAIN n /\ "at" \in DOMAIN n
      BY <2>2, <2>1, <1>2 DEF Good, Extended
    <3> QED BY <3>1, <2>2, <1>1 DEF Good, HasJob, HasCv, HasResult, Extended
  <2> QED BY <2>1, <2>2, <1>5
<1>8. CASE ReadCvVersion(k)
  <2>1. r # Idle /\ r.at = "cvVersion" /\ Learn(k, "cached", [cv |-> version.cv])
    BY <1>8 DEF ReadCvVersion, CalcAt
  <2>2. ASSUME NEW n, Extended(n, r, "cached", [cv |-> version.cv])
        PROVE  Good(n)
    <3>1. "job" \in DOMAIN r /\ r.job \in Nat /\ r.job <= version.job /\ "at" \in DOMAIN r
      BY <2>1, <1>2 DEF Good, HasJob
    <3>2. n.cv = version.cv /\ n.job = r.job /\ {"at", "job", "cv"} \subseteq DOMAIN n
      BY <2>2, <3>1 DEF Extended
    <3> QED BY <3>1, <3>2, <2>2, <1>1 DEF Good, HasJob, HasCv, HasResult, Extended
  <2> QED BY <2>1, <2>2, <1>5
<1>9. CASE ReadCached(k)
  <2>1. r # Idle /\ r.at = "cached"
    BY <1>9 DEF ReadCached, CalcAt
  <2>2. /\ "job" \in DOMAIN r /\ r.job \in Nat /\ r.job <= version.job /\ "at" \in DOMAIN r
        /\ "cv" \in DOMAIN r /\ r.cv \in Nat /\ r.cv <= version.cv
    BY <2>1, <1>2 DEF Good, HasJob, HasCv
  <2>3. CASE Hit(k) /\ Learn(k, "find", [result |-> cached.result, stored |-> TRUE])
    <3> DEFINE what == [result |-> cached.result, stored |-> TRUE]
    <3>1. ASSUME NEW n, Extended(n, r, "find", what)
          PROVE  Good(n)
      <4>1. /\ n.job = r.job /\ n.cv = r.cv /\ n.result = cached.result
            /\ {"at", "job", "cv", "result"} \subseteq DOMAIN n
        BY <3>1, <2>2 DEF Extended
      <4>2. SkillOf(n)
        <5>1. SkillOf(cached) /\ cached.job = r.job /\ cached.cv = r.cv
          BY <2>3 DEF SkillInv, Hit
        <5> QED BY <5>1, <4>1 DEF SkillOf
      <4> QED BY <4>1, <4>2, <3>1, <2>2 DEF Good, HasJob, HasCv, HasResult, Extended
    <3>2. "at" \notin DOMAIN what
      OBVIOUS
    <3>3. Learn(k, "find", what)
      BY <2>3
    <3> HIDE DEF what
    <3> QED BY <2>1, <3>1, <3>2, <3>3, <1>5
  <2>4. CASE Learn(k, "links", [stored |-> FALSE])
    <3> DEFINE what == [stored |-> FALSE]
    <3>1. ASSUME NEW n, Extended(n, r, "links", what)
          PROVE  Good(n)
      <4>1. n.job = r.job /\ n.cv = r.cv /\ {"at", "job", "cv"} \subseteq DOMAIN n
        BY <3>1, <2>2 DEF Extended
      <4> QED BY <4>1, <3>1, <2>2 DEF Good, HasJob, HasCv, HasResult, Extended
    <3>2. "at" \notin DOMAIN what
      OBVIOUS
    <3>3. Learn(k, "links", what)
      BY <2>4
    <3> HIDE DEF what
    <3> QED BY <2>1, <3>1, <3>2, <3>3, <1>5
  <2> QED BY <1>9, <2>3, <2>4 DEF ReadCached
<1>10. CASE ReadLinks(k)
  <2>1. /\ r # Idle /\ r.at = "links"
        /\ Learn(k, "skills", [has |-> linked, weight |-> WeightsOf(needs)])
    BY <1>10 DEF ReadLinks, CalcAt
  <2>2. ASSUME NEW n, Extended(n, r, "skills", [has |-> linked, weight |-> WeightsOf(needs)])
        PROVE  Good(n)
    <3>1. /\ "job" \in DOMAIN r /\ r.job \in Nat /\ r.job <= version.job /\ "at" \in DOMAIN r
          /\ "cv" \in DOMAIN r /\ r.cv \in Nat /\ r.cv <= version.cv
      BY <2>1, <1>2 DEF Good, HasJob, HasCv
    <3>2. /\ n.job = r.job /\ n.cv = r.cv /\ n.has = linked /\ n.weight = WeightsOf(needs)
          /\ {"at", "job", "cv", "has", "weight"} \subseteq DOMAIN n
      BY <2>2, <3>1 DEF Extended
    <3> QED BY <3>1, <3>2, <2>2 DEF Good, HasJob, HasCv, HasResult, Extended
  <2> QED BY <2>1, <2>2, <1>5
<1>11. CASE ReadSkills(k)
  <2>1. r # Idle /\ r.at = "skills"
    BY <1>11 DEF ReadSkills, CalcAt
  <2>2. /\ "job" \in DOMAIN r /\ r.job \in Nat /\ r.job <= version.job /\ "at" \in DOMAIN r
        /\ "cv" \in DOMAIN r /\ r.cv \in Nat /\ r.cv <= version.cv
        /\ "has" \in DOMAIN r /\ "weight" \in DOMAIN r
        /\ Fresh(r.job, r.cv) => r.has = linked /\ r.weight = WeightsOf(needs)
    BY <2>1, <1>2 DEF Good, HasJob, HasCv
  <2>3. PICK x, y : Learn(k, "category", [hasSkill |-> x, words |-> y])
    BY <1>11 DEF ReadSkills
  <2> DEFINE what == [hasSkill |-> x, words |-> y]
  <2>4. ASSUME NEW n, Extended(n, r, "category", what)
        PROVE  Good(n)
    <3>1. /\ n.job = r.job /\ n.cv = r.cv /\ n.has = r.has /\ n.weight = r.weight
          /\ {"at", "job", "cv", "has", "weight"} \subseteq DOMAIN n
      BY <2>4, <2>2 DEF Extended
    <3> QED BY <3>1, <2>4, <2>2 DEF Good, HasJob, HasCv, HasResult, Extended
  <2>5. "at" \notin DOMAIN what
    OBVIOUS
  <2>6. Learn(k, "category", what)
    BY <2>3
  <2> HIDE DEF what
  <2> QED BY <2>1, <2>4, <2>5, <2>6, <1>5
<1>12. CASE ReadCategory(k)
  <2>1. r # Idle /\ r.at = "category"
    BY <1>12 DEF ReadCategory, CalcAt
  <2>2. /\ "job" \in DOMAIN r /\ r.job \in Nat /\ r.job <= version.job
        /\ "cv" \in DOMAIN r /\ r.cv \in Nat /\ r.cv <= version.cv
        /\ Fresh(r.job, r.cv) => r.has = linked /\ r.weight = WeightsOf(needs)
    BY <2>1, <1>2 DEF Good, HasJob, HasCv
  <2> DEFINE result == Result(SlugOf(r.jobCat), r.parsed, r.has, r.weight, r.hasSkill, r.words)
             n == [at |-> "find", job |-> r.job, cv |-> r.cv, stored |-> FALSE, result |-> result]
  <2>3. result.skill = SkillMatch(r.weight, r.has)
    BY DEF Result
  <2>4. calc' = [calc EXCEPT ![k] = n] /\ UNCHANGED <<vars, parsed, worker, cached>>
    BY <1>12 DEF ReadCategory
  <2> HIDE DEF result
  <2>5. SkillOf(n)
    BY <2>2, <2>3 DEF SkillOf
  <2>6. Good(n)
    BY <2>2, <2>5 DEF Good, HasJob, HasCv, HasResult, Extended
  <2> HIDE DEF n
  <2> QED BY <2>4, <2>6, <1>4
<1>13. CASE FindMatch(k)
  <2>1. r # Idle /\ r.at = "find"
    BY <1>13 DEF FindMatch, CalcAt
  <2>2. /\ "job" \in DOMAIN r /\ r.job \in Nat /\ r.job <= version.job /\ "at" \in DOMAIN r
        /\ "cv" \in DOMAIN r /\ r.cv \in Nat /\ r.cv <= version.cv
        /\ "result" \in DOMAIN r /\ SkillOf(r)
    BY <2>1, <1>2 DEF Good, HasJob, HasCv, HasResult, Extended
  <2>3. PICK i : Learn(k, "save", [old |-> i])
    BY <1>13 DEF FindMatch
  <2>4. ASSUME NEW n, Extended(n, r, "save", [old |-> i])
        PROVE  Good(n)
    <3>1. /\ n.job = r.job /\ n.cv = r.cv /\ n.result = r.result
          /\ {"at", "job", "cv", "result"} \subseteq DOMAIN n
      BY <2>4, <2>2 DEF Extended
    <3>2. SkillOf(n)
      BY <3>1, <2>2 DEF SkillOf
    <3> QED BY <3>1, <3>2, <2>4, <2>2 DEF Good, HasJob, HasCv, HasResult, Extended
  <2> QED BY <2>1, <2>3, <2>4, <1>5
<1>14. CASE SaveMatch(k)
  <2>1. r # Idle /\ r.at = "save"
    BY <1>14 DEF SaveMatch, CalcAt
  <2>2. /\ "job" \in DOMAIN r /\ r.job \in Nat /\ r.job <= version.job /\ "at" \in DOMAIN r
        /\ "cv" \in DOMAIN r /\ r.cv \in Nat /\ r.cv <= version.cv
        /\ "result" \in DOMAIN r /\ SkillOf(r)
    BY <2>1, <1>2 DEF Good, HasJob, HasCv, HasResult, Extended
  <2> DEFINE n == [r EXCEPT !.at = "store"]
  <2>3. SkillOf(n)
    BY <2>2 DEF SkillOf
  <2>4. Good(n)
    BY <2>2, <2>3 DEF Good, HasJob, HasCv, HasResult, Extended
  <2>5. /\ calc' = [calc EXCEPT ![k] = n] \/ calc' = [calc EXCEPT ![k] = Idle]
        /\ UNCHANGED <<vars, parsed, worker, cached>>
    BY <1>1, <1>14 DEF SaveMatch
  <2> HIDE DEF n
  <2> QED BY <2>4, <2>5, <1>4
<1>15. CASE StoreResult(k)
  <2>1. r # Idle /\ r.at = "store"
    BY <1>15 DEF StoreResult, CalcAt
  <2>2. /\ r.job \in Nat /\ r.job <= version.job /\ r.cv \in Nat /\ r.cv <= version.cv
        /\ SkillOf(r)
    BY <2>1, <1>2 DEF Good, HasJob, HasCv, HasResult, Extended
  <2> DEFINE e == Entry(r.job, r.cv, r.result)
  <2>3. e.job = r.job /\ e.cv = r.cv /\ SkillOf(e)
    BY <2>2 DEF SkillOf, Entry
  <2>4. /\ cached' = e \/ cached' = cached
        /\ calc' = [calc EXCEPT ![k] = Idle] /\ UNCHANGED <<vars, parsed, worker>>
    BY <1>15 DEF StoreResult
  <2> HIDE DEF e
  <2>5. CASE cached' = cached
    BY <2>4, <2>5, CalcKeeps DEF vars, rows
  <2>6. CASE cached' = e
    <3>1. /\ cached'.job \in Int /\ cached'.job <= version.job
          /\ cached'.cv \in Int /\ cached'.cv <= version.cv
          /\ SkillOf(cached')
      BY <2>2, <2>3, <2>6 DEF SkillOf
    <3> QED BY <2>4, <3>1, CalcKeeps DEF vars, rows
  <2> QED BY <2>4, <2>5, <2>6
<1>16. CASE AbortCalculation(k)
  BY <1>16, CalcKeeps DEF AbortCalculation
<1> QED BY <1>3, <1>6, <1>7, <1>8, <1>9, <1>10, <1>11, <1>12, <1>13, <1>14, <1>15, <1>16
        DEF Calculate

\* The invariant of skill matches holds at first,
LEMMA SkillInit == WatchedInit => SkillInv
<1> SUFFICES ASSUME Init PROVE SkillInv
  BY DEF WatchedInit
<1>1. ReqOk
  BY DEF Init, ReqOk
<1>2. \A k \in Calculators : CalcOk(k)
  BY DEF Init, CalcOk
<1>3. /\ cached.job = -1 /\ cached.cv = -1 /\ version.job = 0 /\ version.cv = 0
      /\ DOMAIN version = {"job", "cv"} /\ worker = Idle /\ "status" \in DOMAIN parsed
      /\ DOMAIN calc = Calculators
  BY DEF Init, Entry
<1>4. SkillOf(cached)
  BY <1>3 DEF SkillOf, Fresh
<1> QED BY <1>1, <1>2, <1>3, <1>4 DEF SkillInv

\* and is kept by every step.
LEMMA SkillStep == SkillInv /\ [Watched]_mcVars => SkillInv'
<1> SUFFICES ASSUME SkillInv, [Watched]_mcVars PROVE SkillInv'
  OBVIOUS
<1>1. ASSUME NEW h \in Handlers, Arrive(h) \/ Statement(h), UNCHANGED matching
      PROVE  SkillInv'
  BY <1>1, ArriveIsCareful, StatementIsCareful, CarefulKeeps DEF SkillInv
<1>2. ASSUME NEW k \in Calculators, ReadJob(k) \/ Calculate(k)
      PROVE  SkillInv'
  BY <1>2, CalculateKeeps
<1>3. CASE StartAnalysis \/ Analyse
  BY <1>3, AnalysisKeeps
<1>4. CASE UNCHANGED mcVars
  <2>1. Careful /\ UNCHANGED matching
    <3>1. /\ req' = req /\ linked' = linked /\ version' = version /\ needs' = needs
          /\ spoilt' = spoilt /\ UNCHANGED matching
      BY <1>4 DEF mcVars, allVars, vars
    <3>2. ReqOk' /\ Quiet' = Quiet
      BY <3>1 DEF SkillInv, ReqOk, Quiet, Owes
    <3> QED BY <3>1, <3>2 DEF Careful
  <2> QED BY <2>1, CarefulKeeps
<1> QED BY <1>1, <1>2, <1>3, <1>4 DEF Watched, Arrives, Works, Arrival, Step

\* Interleaved as they may be, requests, analyses and calculations leave no
\* result to be found in Redis that counts other skills than the CV and the
\* job have, unless a bump is to come or was lost:
\* CalculateJobMatchUseCase reads the versions before the skills, and every
\* writer bumps after it has written.
THEOREM FoundSkills == WatchedSpec => []FoundSkillMatchIsCurrent
<1>1. SkillInv => FoundSkillMatchIsCurrent
  BY DEF SkillInv, FoundSkillMatchIsCurrent, Found, SkillOf, Fresh, Quiet
<1> QED BY SkillInit, SkillStep, <1>1, PTL DEF WatchedSpec

----------------------------------------------------------------------------
(* The catalogue, one request at a time *)

\* At most one request, analysis or calculation is at work.
Alone ==
  /\ \A g, h \in Handlers : req[g] # Idle /\ req[h] # Idle => g = h
  /\ \A k, l \in Calculators : calc[k] # Idle /\ calc[l] # Idle => k = l
  /\ \A h \in Handlers : req[h] # Idle =>
       worker = Idle /\ \A k \in Calculators : calc[k] = Idle
  /\ \A k \in Calculators : calc[k] # Idle => worker = Idle

\* Nothing, or something live.
OpenCategory(c) == c # None => c \in Categories /\ Live(c)

\* Nothing, or another skill that is or was there.
OpenParent(r) == r.parent \in {Clear, None} \/ r.parent \in RowsOf(Skills) \ {r.id}

\* What the statements that test have found, and those that are to come have
\* not, for the statement that writes.
WriteOk(r, T) ==
  /\ r.kind \in {Skills, Categories}
  /\ r.id # None => r.id \in r.kind /\ Live(r.id)
  /\ r.id = None => Free(r.kind) # {} /\ r.name \in Names
  /\ r.name \in Names \cup {None} /\ r.category \in Categories \cup {None} /\ r.k \in Nat
  /\ r.slug \in (Range(Base) \X Nat) \cup {None} /\ r.parent \in Skills \cup {Clear, None}
  /\ r.id = None /\ "slug" \notin T => r.slug # None
  /\ "slug" \in T => r.name \in Names
  /\ r.kind = Skills =>
       /\ r.id = None => r.category # None
       /\ "category" \notin T => OpenCategory(r.category)
       /\ "parent" \notin T => OpenParent(r)
  /\ r.kind = Categories =>
       /\ r.name \in Names
       /\ "name" \notin T => Named(Categories, r.name) \subseteq {r.id}

\* For the statement that deletes.
DropOk(r, T) ==
  /\ r.id \in Ids /\ Live(r.id)
  /\ r.id \in Skills => "uses" \in T \/ r.id \notin Needed \cup linked
  /\ r.id \in Categories =>
       /\ "skills" \in T \/ InCategory(r.id) = {}
       /\ "companies" \in T \/ company # r.id
       /\ "jobs" \in T \/ jobCat # r.id

\* For the one that restores.
RestoreOk(r, T) ==
  /\ r.id \in Ids /\ r.id \in r.kind /\ r.kind \in {Skills, Categories}
  /\ row[r.id] # None /\ ~ Live(r.id) /\ r.name = row[r.id].name
  /\ r.id \in Skills =>
       r.category = row[r.id].category /\ ("category" \in T \/ OpenCategory(r.category))
  /\ r.id \in Categories => "name" \in T \/ Named(Categories, r.name) \subseteq {r.id}

\* For those that make a company or a job refer to a category.
RefersOk(r, T) ==
  r.category \in Categories \cup {None} /\ ("category" \in T \/ OpenCategory(r.category))

\* For those that add and remove the skills of a job.
SyncOk(r, T) ==
  /\ r.ask \in [Skills -> {0} \cup Weights]
  /\ "askedSkills" \in T \/ \A s \in Skills : r.ask[s] > 0 => Live(s)
  /\ "rows" \in T \/ r.left \subseteq {s \in Skills : r.ask[s] > 0}

\* What the statements before it have found holds for the one that relies
\* on it.
Tested(r) ==
  LET T == Range(r.todo) IN
  /\ "write" \in T => WriteOk(r, T)
  /\ "drop" \in T => DropOk(r, T)
  /\ "restore" \in T => RestoreOk(r, T)
  /\ T \cap {"saveCompany", "saveJob"} # {} => RefersOk(r, T)
  /\ "put" \in T => SyncOk(r, T)

\* What the analysis links is a live skill.
WorkerOk ==
  worker # Idle =>
    /\ "at" \in DOMAIN worker
    /\ worker.at \in {"complete", "clear", "find", "link"} => "skill" \in DOMAIN worker
    /\ worker.at = "link" => worker.skill \in LiveOf(Skills)

\* Ids, names and slugs are apart from none.
LEMMA IdsAreNot ==
  /\ None \notin Ids /\ Skills \cap Categories = {} /\ None \notin Row
  /\ None \notin Names /\ None \notin Range(Base) \X Nat /\ None \notin Categories
  /\ None \notin Skills /\ Clear \notin Skills /\ Clear # None
BY TaxonomyAssumption, NoneIsNoRow DEF Ids

\* What a row is.
LEMMA RowOf ==
  ASSUME TablesOK, NEW i \in Ids
  PROVE  /\ Live(i) => row[i] \in Row
         /\ row[i] # None => row[i] \in Row
         /\ Live(i) \in BOOLEAN
BY DEF TablesOK, Live

\* A row that is written with a slug that no other category has, and whose
\* parent is another skill that is there.
LEMMA WholeWrite ==
  ASSUME TablesOK, TablesAreWhole, NEW i \in Ids, NEW c \in Row, row' = [row EXCEPT ![i] = c],
         i \in Categories => \A j \in RowsOf(Categories) : j # i => row[j].slug # c.slug,
         i \in Skills => c.parent \in (RowsOf(Skills) \ {i}) \cup {None}
  PROVE  TablesAreWhole'
<1>1. /\ row'[i] = c /\ c # None
      /\ \A j \in Ids : j # i => row'[j] = row[j]
  BY IdsAreNot DEF TablesOK
<1>2. \A K \in {Skills, Categories} : RowsOf(K)' = RowsOf(K) \cup ({i} \cap K)
  <2>1. \A K \in {Skills, Categories} : K \subseteq Ids
    BY DEF Ids
  <2> QED BY <1>1, <2>1 DEF RowsOf, Free
<1>3. /\ \A a, b \in RowsOf(Categories) : row[a].slug = row[b].slug => a = b
      /\ \A s \in RowsOf(Skills) : row[s].parent \in (RowsOf(Skills) \ {s}) \cup {None}
  BY DEF TablesAreWhole
<1>4. ASSUME NEW a \in RowsOf(Categories)', NEW b \in RowsOf(Categories)', a # b
      PROVE  row'[a].slug # row'[b].slug
  <2>1. a \in Categories /\ b \in Categories /\ a \in Ids /\ b \in Ids
    BY DEF RowsOf, Ids
  <2>2. CASE a = i
    <3>1. b \in RowsOf(Categories)
      BY <1>2, <1>4, <2>2
    <3> QED BY <1>1, <1>4, <2>1, <2>2, <3>1
  <2>3. CASE b = i
    <3>1. a \in RowsOf(Categories)
      BY <1>2, <1>4, <2>3
    <3> QED BY <1>1, <1>4, <2>1, <2>3, <3>1
  <2>4. CASE a # i /\ b # i
    <3>1. a \in RowsOf(Categories) /\ b \in RowsOf(Categories)
      BY <1>2, <2>4
    <3> QED BY <1>1, <1>3, <1>4, <2>1, <2>4, <3>1
  <2> QED BY <2>2, <2>3, <2>4
<1>5. ASSUME NEW s \in RowsOf(Skills)'
      PROVE  row'[s].parent \in (RowsOf(Skills)' \ {s}) \cup {None}
  <2>1. s \in Skills /\ s \in Ids
    BY DEF RowsOf, Ids
  <2>2. CASE s = i
    BY <1>1, <1>2, <2>1, <2>2
  <2>3. CASE s # i
    <3>1. s \in RowsOf(Skills)
      BY <1>2, <2>3
    <3>2. row'[s] = row[s]
      BY <1>1, <2>1, <2>3
    <3> QED BY <1>2, <1>3, <3>1, <3>2
  <2> QED BY <2>2, <2>3
<1> QED BY <1>4, <1>5 DEF TablesAreWhole

\* A row that is written live, with a name that no other live category has.
LEMMA WriteSound ==
  ASSUME TablesOK, CatalogueIsSound, NEW i \in Ids, NEW c \in Row, c.live = TRUE,
         row' = [row EXCEPT ![i] = c], UNCHANGED <<jobCat, needs, company, linked>>,
         i \in Categories => \A j \in LiveOf(Categories) : j # i => row[j].name # c.name,
         i \in Categories => \A j \in RowsOf(Categories) : j # i => row[j].slug # c.slug,
         i \in Skills => c.category \in LiveOf(Categories) \cup {None},
         i \in Skills => c.parent \in (RowsOf(Skills) \ {i}) \cup {None}
  PROVE  TablesOK' /\ CatalogueIsSound'
<1>1. /\ row \in [Ids -> Row \cup {None}] /\ {jobCat, company} \subseteq Categories \cup {None}
      /\ needs \in [Skills -> [weight : {0} \cup Weights, rows : Nat]] /\ linked \subseteq Skills
  BY DEF TablesOK
<1>2. row' \in [Ids -> Row \cup {None}]
  BY <1>1
<1>3. TablesOK'
  BY <1>1, <1>2 DEF TablesOK
<1>4. /\ row'[i] = c /\ c # None
      /\ \A j \in Ids : j # i => row'[j] = row[j]
  BY <1>1, IdsAreNot
<1>5. /\ Live(i)' /\ \A j \in Ids : j # i => Live(j)' = Live(j)
  BY <1>4 DEF Live
<1>6. \A K \in {Skills, Categories} :
        /\ LiveOf(K) \subseteq LiveOf(K)'
        /\ LiveOf(K)' \subseteq LiveOf(K) \cup ({i} \cap K)
  <2>1. \A K \in {Skills, Categories} : K \subseteq Ids
    BY DEF Ids
  <2> QED BY <1>5, <2>1 DEF LiveOf
<1>7. /\ \A a, b \in LiveOf(Categories) :
            row[a].name = row[b].name => a = b
      /\ {row[s].category : s \in LiveOf(Skills)} \cup {jobCat, company}
           \subseteq LiveOf(Categories) \cup {None}
      /\ Needed \cup linked \subseteq LiveOf(Skills)
  BY DEF CatalogueIsSound
<1>8. \A a, b \in LiveOf(Categories)' :
        row'[a].name = row'[b].name => a = b
  <2> SUFFICES ASSUME NEW a \in LiveOf(Categories)', NEW b \in LiveOf(Categories)', a # b
               PROVE  row'[a].name # row'[b].name
    OBVIOUS
  <2>1. a \in Ids /\ b \in Ids /\ a \in Categories /\ b \in Categories
    BY DEF LiveOf, Ids
  <2>2. CASE a = i
    <3>1. b \in LiveOf(Categories)
      BY <1>6, <2>2
    <3> QED BY <3>1, <2>1, <2>2, <1>4
  <2>3. CASE b = i
    <3>1. a \in LiveOf(Categories)
      BY <1>6, <2>3
    <3> QED BY <3>1, <2>1, <2>3, <1>4
  <2>4. CASE a # i /\ b # i
    <3>1. a \in LiveOf(Categories) /\ b \in LiveOf(Categories)
      BY <1>6, <2>4
    <3> QED BY <3>1, <2>1, <2>4, <1>4, <1>7
  <2> QED BY <2>2, <2>3, <2>4
<1>9. \A s \in LiveOf(Skills)' : row'[s].category \in LiveOf(Categories)' \cup {None}
  <2> SUFFICES ASSUME NEW s \in LiveOf(Skills)'
               PROVE  row'[s].category \in LiveOf(Categories) \cup {None}
    BY <1>6
  <2>1. s \in Ids /\ s \in Skills
    BY DEF LiveOf, Ids
  <2>2. CASE s = i
    BY <2>1, <2>2, <1>4
  <2>3. CASE s # i
    <3>1. s \in LiveOf(Skills)
      BY <1>6, <2>3
    <3> QED BY <3>1, <2>1, <2>3, <1>4, <1>7
  <2> QED BY <2>2, <2>3
<1>10. {jobCat', company'} \subseteq LiveOf(Categories)' \cup {None}
  BY <1>6, <1>7
<1>11. Needed' \cup linked' \subseteq LiveOf(Skills)'
  BY <1>6, <1>7 DEF Needed
<1>12. TablesAreWhole'
  BY WholeWrite DEF CatalogueIsSound
<1>13. CatalogueIsSound'
  BY <1>8, <1>9, <1>10, <1>11, <1>12 DEF CatalogueIsSound
<1> QED BY <1>3, <1>13

\* A row that is deleted while nothing refers to it.
LEMMA DropSound ==
  ASSUME TablesOK, CatalogueIsSound, NEW i \in Ids, Live(i),
         row' = [row EXCEPT ![i].live = FALSE], UNCHANGED <<jobCat, needs, company, linked>>,
         i \in Skills => i \notin Needed \cup linked,
         i \in Categories => InCategory(i) = {} /\ company # i /\ jobCat # i
  PROVE  TablesOK' /\ CatalogueIsSound'
<1>1. /\ row \in [Ids -> Row \cup {None}] /\ {jobCat, company} \subseteq Categories \cup {None}
      /\ needs \in [Skills -> [weight : {0} \cup Weights, rows : Nat]] /\ linked \subseteq Skills
  BY DEF TablesOK
<1> DEFINE c == [row[i] EXCEPT !.live = FALSE]
<1>2. c \in Row /\ c.live = FALSE /\ c.slug = row[i].slug /\ c.parent = row[i].parent
  BY RowOf DEF Row
<1>3. row' = [row EXCEPT ![i] = c]
  OBVIOUS
<1> HIDE DEF c
<1>4. row' \in [Ids -> Row \cup {None}] /\ row'[i] = c
      /\ \A j \in Ids : j # i => row'[j] = row[j]
  BY <1>1, <1>2, <1>3
<1>5. TablesOK'
  BY <1>1, <1>4 DEF TablesOK
<1>6. /\ ~ Live(i)' /\ \A j \in Ids : j # i => Live(j)' = Live(j)
  BY <1>2, <1>4 DEF Live
<1>7. \A K \in {Skills, Categories} : LiveOf(K)' = LiveOf(K) \ {i}
  <2>1. \A K \in {Skills, Categories} : K \subseteq Ids
    BY DEF Ids
  <2> QED BY <1>6, <2>1 DEF LiveOf
<1>8. /\ \A a, b \in LiveOf(Categories) :
            row[a].name = row[b].name => a = b
      /\ {row[s].category : s \in LiveOf(Skills)} \cup {jobCat, company}
           \subseteq LiveOf(Categories) \cup {None}
      /\ Needed \cup linked \subseteq LiveOf(Skills)
  BY DEF CatalogueIsSound
<1>9. \A K \in {Skills, Categories} : \A j \in LiveOf(K)' :
        j \in LiveOf(K) /\ j # i /\ row'[j] = row[j]
  BY <1>4, <1>7 DEF LiveOf, Ids
<1>10. \A a, b \in LiveOf(Categories)' :
        row'[a].name = row'[b].name => a = b
  BY <1>8, <1>9
<1>11. \A s \in LiveOf(Skills)' : row'[s].category \in LiveOf(Categories)' \cup {None}
  <2> SUFFICES ASSUME NEW s \in LiveOf(Skills)'
               PROVE  row'[s].category \in LiveOf(Categories)' \cup {None}
    OBVIOUS
  <2>1. s \in LiveOf(Skills) /\ row'[s] = row[s]
    BY <1>9
  <2>2. row[s].category \in LiveOf(Categories) \cup {None}
    BY <1>8, <2>1
  <2>3. row[s].category # i
    <3>1. CASE i \in Categories
      BY <2>1, <3>1 DEF InCategory
    <3>2. CASE i \notin Categories
      <4>1. i # None
        BY IdsAreNot
      <4> QED BY <3>2, <4>1, <2>2 DEF LiveOf
    <3> QED BY <3>1, <3>2
  <2> QED BY <2>1, <2>2, <2>3, <1>7
<1>12. {jobCat', company'} \subseteq LiveOf(Categories)' \cup {None}
  <2>1. i \notin Categories => i \notin LiveOf(Categories)
    BY DEF LiveOf
  <2>2. i # None
    BY IdsAreNot
  <2> QED BY <1>7, <1>8, <2>1, <2>2
<1>13. Needed' \cup linked' \subseteq LiveOf(Skills)'
  <2>1. Needed' = Needed /\ linked' = linked
    BY DEF Needed
  <2>2. i \notin Skills => i \notin LiveOf(Skills)
    BY DEF LiveOf
  <2> QED BY <1>7, <1>8, <2>1, <2>2
<1>14. TablesAreWhole'
  <2>1. TablesAreWhole
    BY DEF CatalogueIsSound
  <2>2. \A K \in {Skills, Categories} : i \in K => i \in RowsOf(K)
    BY DEF RowsOf, Free, Live
  <2>3. i \in Categories => \A j \in RowsOf(Categories) : j # i => row[j].slug # c.slug
    BY <1>2, <2>1, <2>2 DEF TablesAreWhole
  <2>4. i \in Skills => c.parent \in (RowsOf(Skills) \ {i}) \cup {None}
    BY <1>2, <2>1, <2>2 DEF TablesAreWhole
  <2> QED BY <1>2, <1>3, <2>1, <2>3, <2>4, WholeWrite
<1>15. CatalogueIsSound'
  BY <1>10, <1>11, <1>12, <1>13, <1>14 DEF CatalogueIsSound
<1> QED BY <1>5, <1>15

\* What refers to the catalogue moves to what is live.
LEMMA ReferSound ==
  ASSUME TablesOK, CatalogueIsSound, row' = row,
         {jobCat', company'} \subseteq LiveOf(Categories) \cup {None},
         needs' \in [Skills -> [weight : {0} \cup Weights, rows : Nat]],
         Needed' \cup linked' \subseteq LiveOf(Skills)
  PROVE  TablesOK' /\ CatalogueIsSound'
<1>1. LiveOf(Categories)' = LiveOf(Categories) /\ LiveOf(Skills)' = LiveOf(Skills)
  BY DEF LiveOf, Live
<1>2. LiveOf(Categories) \subseteq Categories /\ LiveOf(Skills) \subseteq Skills
  BY DEF LiveOf
<1>3. TablesOK'
  BY <1>2 DEF TablesOK
<1>4. CatalogueIsSound'
  BY <1>1 DEF CatalogueIsSound, TablesAreWhole, RowsOf, Free
<1> QED BY <1>3, <1>4

\* What a test that passed has found.
TestFact(r, s) ==
  /\ s = "name" => Named(r.kind, r.name) \subseteq {r.id}
  /\ s = "category" => Live(r.category)
  /\ s = "parent" => r.parent # r.id /\ Live(r.parent)
  /\ s = "uses" => r.id \notin Needed \cup linked
  /\ s = "skills" => InCategory(r.id) = {}
  /\ s = "companies" => company # r.id
  /\ s = "jobs" => jobCat # r.id
  /\ s = "askedSkills" => \A i \in Skills : r.ask[i] > 0 => Live(i)

\* The statements that write rows.
Writing == {"write", "drop", "restore", "saveCompany", "saveJob", "put"}

\* A request without a statement that writes relies on nothing.
LEMMA Vacuous ==
  ASSUME NEW n, Range(n.todo) \cap Writing = {}
  PROVE  Tested(n) /\ Tested(n)'
BY DEF Tested, Writing

\* What the tests have found is a matter of the rows.
LEMMA TestedStays ==
  ASSUME UNCHANGED rows, NEW n, Tested(n)
  PROVE  Tested(n)'
<1>1. row' = row /\ jobCat' = jobCat /\ needs' = needs /\ company' = company /\ linked' = linked
  BY DEF rows
<1> QED BY <1>1 DEF Tested, WriteOk, DropOk, RestoreOk, RefersOk, SyncOk, OpenCategory,
           OpenParent, RowsOf, Named, InCategory, Needed, Free, LiveOf, Live

\* What is left of a request may rely on what its first statement has found.
LEMMA TestedRest ==
  ASSUME TablesOK, NEW r, Planned(r), Tested(r), Len(r.todo) # 1,
         r.todo[1] \notin {"slug", "rows"}, TestFact(r, r.todo[1])
  PROVE  Tested(Rest(r))
<1> DEFINE s == r.todo[1]
           T == Range(r.todo)
           n == Rest(r)
           U == Range(Rest(r).todo)
<1>1. /\ s \in Steps /\ T = {s} \cup U /\ U \subseteq Follow(s)
      /\ \A f \in DOMAIN r : f # "todo" => n[f] = r[f]
  BY Advance
<1>2. DOMAIN r \in {RequestFields, SaveFields}
  BY DEF Planned
<1>3. /\ DOMAIN r = RequestFields => "put" \notin T
      /\ DOMAIN r = SaveFields => T \cap {"write", "drop", "restore", "saveCompany"} = {}
  BY DEF Planned, RequestSteps, SaveSteps
<1>4. s \notin {"slug", "rows"} /\ TestFact(r, s)
  OBVIOUS
<1>5. /\ "write" \in T => WriteOk(r, T)
      /\ "drop" \in T => DropOk(r, T)
      /\ "restore" \in T => RestoreOk(r, T)
      /\ T \cap {"saveCompany", "saveJob"} # {} => RefersOk(r, T)
      /\ "put" \in T => SyncOk(r, T)
  BY DEF Tested
<1>6. /\ n.kind = r.kind /\ n.id = r.id /\ n.name = r.name /\ n.category = r.category
      /\ DOMAIN r = RequestFields => n.k = r.k /\ n.slug = r.slug /\ n.parent = r.parent
      /\ DOMAIN r = SaveFields => n.ask = r.ask /\ n.left = r.left
  BY <1>1, <1>2 DEF RequestFields, SaveFields
<1> HIDE DEF s, T, n, U
<1>7. s \in Tests \/ U \cap {"write", "drop", "restore", "saveCompany", "saveJob"} = {}
  BY <1>1 DEF Follow, Steps, Tests
<1>8. "write" \in U => WriteOk(n, U)
  <2> SUFFICES ASSUME "write" \in U PROVE WriteOk(n, U)
    OBVIOUS
  <2>1. WriteOk(r, T) /\ DOMAIN r = RequestFields
    BY <1>1, <1>2, <1>3, <1>5
  <2>2. "slug" \in U <=> "slug" \in T
    BY <1>1, <1>4
  <2>3. "category" \in T => "category" \in U \/ Live(r.category)
    BY <1>1, <1>4 DEF TestFact
  <2>4. "name" \in T => "name" \in U \/ Named(r.kind, r.name) \subseteq {r.id}
    BY <1>1, <1>4 DEF TestFact
  <2>5. /\ "category" \in U => "category" \in T
        /\ "parent" \in U => "parent" \in T
    BY <1>1
  <2>6. "parent" \in T /\ "parent" \notin U => OpenParent(r)
    <3>1. r.parent \in Skills \cup {Clear, None}
      BY <2>1 DEF WriteOk
    <3>2. "parent" \in T /\ "parent" \notin U => r.parent # r.id /\ Live(r.parent)
      BY <1>1, <1>4 DEF TestFact
    <3> QED BY <3>1, <3>2 DEF OpenParent, RowsOf, Free, Live
  <2>7. OpenParent(r) => OpenParent(n)
    BY <1>6, <2>1 DEF OpenParent
  <2> QED BY <1>6, <2>1, <2>2, <2>3, <2>4, <2>5, <2>6, <2>7 DEF WriteOk, OpenCategory
<1>9. "drop" \in U => DropOk(n, U)
  <2>1. "drop" \in U => DropOk(r, T)
    BY <1>1, <1>5
  <2> QED BY <1>1, <1>4, <1>6, <2>1 DEF DropOk, TestFact
<1>10. "restore" \in U => RestoreOk(n, U)
  <2> SUFFICES ASSUME "restore" \in U PROVE RestoreOk(n, U)
    OBVIOUS
  <2>1. RestoreOk(r, T)
    BY <1>1, <1>5
  <2>2. "category" \in T => "category" \in U \/ Live(r.category)
    BY <1>1, <1>4 DEF TestFact
  <2>3. "name" \in T => "name" \in U \/ Named(r.kind, r.name) \subseteq {r.id}
    BY <1>1, <1>4 DEF TestFact
  <2>4. row[r.id].category \in Categories \cup {None}
    BY <2>1, RowOf DEF RestoreOk, Row
  <2>5. r.id \in Categories => r.kind = Categories
    BY <2>1, IdsAreNot DEF RestoreOk
  <2> QED BY <1>6, <2>1, <2>2, <2>3, <2>4, <2>5 DEF RestoreOk, OpenCategory
<1>11. U \cap {"saveCompany", "saveJob"} # {} => RefersOk(n, U)
  <2> SUFFICES ASSUME U \cap {"saveCompany", "saveJob"} # {} PROVE RefersOk(n, U)
    OBVIOUS
  <2>1. RefersOk(r, T)
    BY <1>1, <1>5
  <2>2. "category" \in T => "category" \in U \/ Live(r.category)
    BY <1>1, <1>4 DEF TestFact
  <2> QED BY <1>6, <2>1, <2>2 DEF RefersOk, OpenCategory
<1>12. "put" \in U => SyncOk(n, U)
  <2> SUFFICES ASSUME "put" \in U PROVE SyncOk(n, U)
    OBVIOUS
  <2>1. SyncOk(r, T) /\ DOMAIN r = SaveFields
    BY <1>1, <1>2, <1>3, <1>5
  <2>2. "askedSkills" \in T => "askedSkills" \in U \/ \A i \in Skills : r.ask[i] > 0 => Live(i)
    BY <1>1, <1>4 DEF TestFact
  <2>3. "rows" \in T => "rows" \in U
    BY <1>1, <1>4
  <2> QED BY <1>6, <2>1, <2>2, <2>3 DEF SyncOk
<1> QED BY <1>8, <1>9, <1>10, <1>11, <1>12 DEF Tested, n, U

----------------------------------------------------------------------------
(* Statements of a request that is alone *)

\* The catalogue as it is when requests run one at a time.
SeqCore ==
  /\ Alone /\ TablesOK /\ CatalogueIsSound /\ WorkerOk
  /\ \A h \in Handlers : req[h] # Idle => Tested(req[h])

\* A step of a request that nobody else disturbs keeps the catalogue sound,
\* and changes no match unless a bump is to follow.
Aligned == SeqCore' /\ (~ Quiet' \/ Current' = Current)

\* Counted as at most one, requests, analyses and calculations are alone.
LEMMA AloneFromInFlight ==
  ASSUME NEW R, NEW C, NEW w \in BOOLEAN,
         ~ (Cardinality({h \in Handlers : R[h] # Idle})
            + Cardinality({k \in Calculators : C[k] # Idle})
            + (IF w THEN 0 ELSE 1) > 1)
  PROVE  /\ \A g, h \in Handlers : R[g] # Idle /\ R[h] # Idle => g = h
         /\ \A k, l \in Calculators : C[k] # Idle /\ C[l] # Idle => k = l
         /\ \A h \in Handlers : R[h] # Idle => w /\ \A k \in Calculators : C[k] = Idle
         /\ \A k \in Calculators : C[k] # Idle => w
<1> DEFINE A == {h \in Handlers : R[h] # Idle}
           B == {k \in Calculators : C[k] # Idle}
<1>1. IsFiniteSet(A) /\ IsFiniteSet(B) /\ Cardinality(A) \in Nat /\ Cardinality(B) \in Nat
  BY FS_Subset, FS_CardinalityType, ProcessesAssumption
<1>2. \A S : IsFiniteSet(S) => (Cardinality(S) = 0 <=> S = {})
  BY FS_EmptySet
<1>3. \A S : IsFiniteSet(S) /\ Cardinality(S) <= 1 => \A a, b \in S : a = b
  <2> SUFFICES ASSUME NEW S, IsFiniteSet(S), Cardinality(S) <= 1, NEW a \in S, NEW b \in S
               PROVE a = b
    OBVIOUS
  <2>1. Cardinality(S) \in Nat /\ Cardinality(S) # 0
    BY FS_CardinalityType, FS_EmptySet
  <2>2. Cardinality(S) = 1
    BY <2>1
  <2>3. \E x : S = {x}
    BY <2>2, FS_Singleton
  <2> QED BY <2>3
<1>4. Cardinality(A) <= 1 /\ Cardinality(B) <= 1
      /\ (Cardinality(A) # 0 => Cardinality(B) = 0 /\ w)
      /\ (Cardinality(B) # 0 => w)
  BY <1>1
<1>5. /\ \A a, b \in A : a = b
      /\ \A a, b \in B : a = b
  BY <1>1, <1>3, <1>4
<1>6. /\ A # {} => B = {} /\ w
      /\ B # {} => w
  BY <1>1, <1>2, <1>4
<1> QED BY <1>5, <1>6

\* Nothing is sounder or less so as long as no row changes.
LEMMA RowsStay ==
  ASSUME UNCHANGED rows
  PROVE  /\ TablesOK => TablesOK'
         /\ CatalogueIsSound => CatalogueIsSound'
         /\ parsed' = parsed => Current' = Current
<1>1. row' = row /\ jobCat' = jobCat /\ needs' = needs /\ company' = company /\ linked' = linked
  BY DEF rows
<1>2. TablesOK => TablesOK'
  BY <1>1 DEF TablesOK
<1>3. CatalogueIsSound => CatalogueIsSound'
  BY <1>1 DEF CatalogueIsSound, TablesAreWhole, RowsOf, Free, LiveOf, Live, Needed
<1>4. SlugOf(jobCat)' = SlugOf(jobCat) /\ WeightsOf(needs)' = WeightsOf(needs)
      /\ InCategory(jobCat)' = InCategory(jobCat) /\ NamesOf(Needed)' = NamesOf(Needed)
  BY <1>1 DEF SlugOf, WeightsOf, InCategory, NamesOf, Needed, LiveOf, Live
<1>5. parsed' = parsed => Current' = Current
  BY <1>1, <1>4 DEF Current
<1> QED BY <1>2, <1>3, <1>5

\* A row that no match is made of.
LEMMA SameCurrent ==
  ASSUME row \in [Ids -> Row \cup {None}], NEW i \in Ids, NEW c, row' = [row EXCEPT ![i] = c],
         linked \subseteq Skills, jobCat \in Categories \cup {None},
         i \notin Needed \cup linked, jobCat # i,
         UNCHANGED <<jobCat, needs, linked, parsed>>
  PROVE  Current' = Current
<1>1. \A j \in Ids : j # i => row'[j] = row[j] /\ Live(j)' = Live(j)
  BY DEF Live
<1>2. Skills \subseteq Ids /\ Categories \subseteq Ids
  BY DEF Ids
<1>3. SlugOf(jobCat)' = SlugOf(jobCat)
  BY <1>1, <1>2 DEF SlugOf
<1>4. InCategory(jobCat)' \cap linked = InCategory(jobCat) \cap linked
  <2>1. \A s \in linked : s \in Ids /\ s # i /\ s \in Skills
    BY <1>2
  <2> QED BY <1>1, <2>1 DEF InCategory, LiveOf
<1>5. NamesOf(Needed)' = NamesOf(Needed)
  <2>1. Needed' = Needed /\ \A s \in Needed : s \in Ids /\ s # i
    BY <1>2 DEF Needed
  <2>2. LiveOf(Needed)' = LiveOf(Needed)
    BY <1>1, <2>1 DEF LiveOf
  <2>3. \A s \in LiveOf(Needed) : row'[s] = row[s]
    BY <1>1, <2>1 DEF LiveOf
  <2> QED BY <2>2, <2>3 DEF NamesOf
<1>6. WeightsOf(needs)' = WeightsOf(needs)
  BY DEF WeightsOf
<1>7. (jobCat # None /\ InCategory(jobCat) \cap linked # {})'
        = (jobCat # None /\ InCategory(jobCat) \cap linked # {})
  BY <1>4
<1> QED BY <1>3, <1>5, <1>6, <1>7 DEF Current

\* A request goes on alone.
LEMMA AloneGoes ==
  ASSUME SeqCore, DOMAIN req = Handlers, NEW h \in Handlers, req[h] # Idle, NEW n,
         req' = [req EXCEPT ![h] = n], n = Idle \/ Tested(n)',
         TablesOK', CatalogueIsSound', UNCHANGED matching
  PROVE  SeqCore'
<1>1. /\ req'[h] = n /\ \A g \in Handlers : g # h => req'[g] = Idle
      /\ worker' = Idle /\ \A k \in Calculators : calc'[k] = Idle
  BY DEF SeqCore, Alone, matching
<1>2. Alone'
  BY <1>1 DEF Alone
<1>3. WorkerOk'
  BY <1>1 DEF WorkerOk
<1>4. \A g \in Handlers : req'[g] # Idle => Tested(req[g])'
  <2> SUFFICES ASSUME NEW g \in Handlers, req'[g] # Idle PROVE Tested(req[g])'
    OBVIOUS
  <2>1. g = h /\ req'[g] = n /\ Tested(n)'
    BY <1>1
  <2> QED BY <2>1 DEF Tested, WriteOk, DropOk, RestoreOk, RefersOk, SyncOk, OpenParent
<1> QED BY <1>2, <1>3, <1>4 DEF SeqCore

\* A step that leaves the rows alone.
LEMMA AlignedTest ==
  ASSUME SeqCore, DOMAIN req = Handlers, NEW h \in Handlers, req[h] # Idle, NEW n,
         req' = [req EXCEPT ![h] = n], n = Idle \/ Tested(n),
         UNCHANGED rows, UNCHANGED matching
  PROVE  Aligned
<1>1. TablesOK' /\ CatalogueIsSound' /\ Current' = Current
  BY RowsStay DEF SeqCore, matching
<1>2. n = Idle \/ Tested(n)'
  BY TestedStays
<1>3. SeqCore'
  BY <1>1, <1>2, AloneGoes
<1> QED BY <1>1, <1>3 DEF Aligned

\* A test, passed or failed.
LEMMA TestAligned ==
  ASSUME SeqCore, ReqOk, NEW h \in Handlers, NEW s, NEW ok \in BOOLEAN, Test(h, s, ok),
         s \notin {"slug", "rows"}, ok => TestFact(req[h], s), UNCHANGED matching
  PROVE  Aligned
<1> PICK r : r = req[h]
  OBVIOUS
<1>1. /\ r # Idle /\ r.todo[1] = s /\ DOMAIN req = Handlers /\ UNCHANGED rows
      /\ Planned(r) /\ Tested(r) /\ TablesOK
  BY DEF Test, At, rows, ReqOk, SeqCore
<1>2. CASE ok
  <2>1. req' = [req EXCEPT ![h] = After(r)]
    BY <1>2 DEF Test, Proceed
  <2>2. After(r) = Idle \/ Tested(After(r))
    <3>1. CASE Len(r.todo) = 1
      BY <1>1, <3>1, Advance
    <3>2. CASE Len(r.todo) # 1
      <4>1. After(r) = Rest(r)
        BY <1>1, <3>2, Advance
      <4>2. TestFact(r, r.todo[1]) /\ r.todo[1] \notin {"slug", "rows"}
        BY <1>1, <1>2
      <4>3. Tested(Rest(r))
        BY <1>1, <3>2, <4>2, TestedRest
      <4> QED BY <4>1, <4>3
    <3> QED BY <3>1, <3>2
  <2>3. PICK n : n = After(r)
    OBVIOUS
  <2> QED BY <1>1, <2>1, <2>2, <2>3, AlignedTest
<1>3. CASE ~ ok
  <2>1. req' = [req EXCEPT ![h] = Idle]
    BY <1>3 DEF Test, End
  <2> QED BY <1>1, <2>1, AlignedTest
<1> QED BY <1>2, <1>3

\* The candidate that was found free.
LEMMA TestedSlug ==
  ASSUME NEW r, Planned(r), Tested(r), Len(r.todo) # 1, r.todo[1] = "slug"
  PROVE  Tested([Rest(r) EXCEPT !.slug = Slug(r.name, r.k)])
<1> DEFINE g == Slug(r.name, r.k)
           n == [Rest(r) EXCEPT !.slug = Slug(r.name, r.k)]
           T == Range(r.todo)
           U == Range(Rest(r).todo)
<1>1. /\ T = {"slug"} \cup U
      /\ \A f \in DOMAIN r : f # "todo" => Rest(r)[f] = r[f]
      /\ DOMAIN Rest(r) = DOMAIN r
  BY Advance
<1>2. DOMAIN r = RequestFields /\ "put" \notin T /\ "saveJob" \notin T
  BY <1>1 DEF Planned, SaveSteps, RequestSteps
<1>3. /\ "write" \in T => WriteOk(r, T)
      /\ "drop" \in T => DropOk(r, T)
      /\ "restore" \in T => RestoreOk(r, T)
      /\ T \cap {"saveCompany", "saveJob"} # {} => RefersOk(r, T)
  BY DEF Tested
<1>4. /\ n.kind = r.kind /\ n.id = r.id /\ n.name = r.name /\ n.category = r.category
      /\ n.k = r.k /\ n.slug = g /\ n.parent = r.parent /\ Range(n.todo) = U
  BY <1>1, <1>2 DEF RequestFields
<1>5. g = <<Base[r.name], r.k>>
  BY DEF Slug
<1> HIDE DEF T, n, U, g
<1>6. "write" \in U => WriteOk(n, U)
  <2> SUFFICES ASSUME "write" \in U PROVE WriteOk(n, U)
    OBVIOUS
  <2>1. WriteOk(r, T) /\ r.name \in Names /\ r.k \in Nat
    BY <1>1, <1>3 DEF WriteOk
  <2>2. g \in Range(Base) \X Nat
    <3>1. Base[r.name] \in Range(Base)
      BY <2>1, TaxonomyAssumption
    <3> QED BY <3>1, <2>1, <1>5
  <2>3. g # None
    BY <2>2, IdsAreNot
  <2>4. \A s : s # "slug" => (s \in T <=> s \in U)
    BY <1>1
  <2>5. OpenParent(r) => OpenParent(n)
    BY <1>4 DEF OpenParent
  <2> QED BY <1>4, <2>1, <2>2, <2>3, <2>4, <2>5 DEF WriteOk
<1>7. "drop" \in U => DropOk(n, U)
  BY <1>1, <1>3, <1>4 DEF DropOk
<1>8. "restore" \in U => RestoreOk(n, U)
  BY <1>1, <1>3, <1>4 DEF RestoreOk
<1>9. U \cap {"saveCompany", "saveJob"} # {} => RefersOk(n, U)
  BY <1>1, <1>3, <1>4 DEF RefersOk
<1>10. "put" \notin U
  BY <1>1, <1>2
<1> QED BY <1>4, <1>6, <1>7, <1>8, <1>9, <1>10 DEF Tested, n

\* The candidate that was taken.
LEMMA TestedAgain ==
  ASSUME NEW r, Planned(r), Tested(r), r.todo[1] = "slug", NEW m, r.k \in Nat => m \in Nat
  PROVE  Tested([r EXCEPT !.k = m])
<1> DEFINE n == [r EXCEPT !.k = m]
           T == Range(r.todo)
<1>1. "slug" \in T
  BY Advance
<1>2. DOMAIN r = RequestFields /\ "put" \notin T
  BY <1>1 DEF Planned, SaveSteps, RequestSteps
<1>3. /\ "write" \in T => WriteOk(r, T)
      /\ "drop" \in T => DropOk(r, T)
      /\ "restore" \in T => RestoreOk(r, T)
      /\ T \cap {"saveCompany", "saveJob"} # {} => RefersOk(r, T)
  BY DEF Tested
<1>4. /\ n.kind = r.kind /\ n.id = r.id /\ n.name = r.name /\ n.category = r.category
      /\ n.k = m /\ n.slug = r.slug /\ n.parent = r.parent /\ Range(n.todo) = T
  BY <1>2 DEF RequestFields
<1> HIDE DEF T, n
<1>5. "write" \in T => WriteOk(n, T)
  BY <1>3, <1>4 DEF WriteOk, OpenParent
<1>6. "drop" \in T => DropOk(n, T)
  BY <1>3, <1>4 DEF DropOk
<1>7. "restore" \in T => RestoreOk(n, T)
  BY <1>3, <1>4 DEF RestoreOk
<1>8. T \cap {"saveCompany", "saveJob"} # {} => RefersOk(n, T)
  BY <1>3, <1>4 DEF RefersOk
<1> QED BY <1>2, <1>4, <1>5, <1>6, <1>7, <1>8 DEF Tested, n

\* The search for a slug.
LEMMA FindSlugAligned ==
  ASSUME SeqCore, ReqOk, NEW h \in Handlers, FindSlug(h), UNCHANGED matching
  PROVE  Aligned
<1> PICK r : r = req[h]
  OBVIOUS
<1>1. /\ r # Idle /\ r.todo[1] = "slug" /\ DOMAIN req = Handlers /\ UNCHANGED rows
      /\ Planned(r) /\ Tested(r) /\ TablesOK
  BY DEF FindSlug, At, ReqOk, SeqCore
<1>2. CASE Slugged(r.kind, Slug(r.name, r.k)) \subseteq {r.id}
  <2>1. PICK n : n = [After(r) EXCEPT !.slug = Slug(r.name, r.k)]
    OBVIOUS
  <2>2. req' = [req EXCEPT ![h] = n]
    BY <1>2, <2>1 DEF FindSlug
  <2>3. n = Idle \/ Tested(n)
    <3>1. CASE Len(r.todo) = 1
      <4>1. After(r) = Idle
        BY <1>1, <3>1, Advance
      <4> QED BY <4>1, <2>1 DEF Idle
    <3>2. CASE Len(r.todo) # 1
      <4>1. After(r) = Rest(r)
        BY <1>1, <3>2, Advance
      <4> QED BY <4>1, <1>1, <1>2, <2>1, <3>2, TestedSlug
    <3> QED BY <3>1, <3>2
  <2> QED BY <1>1, <2>2, <2>3, AlignedTest
<1>3. CASE ~ (Slugged(r.kind, Slug(r.name, r.k)) \subseteq {r.id})
  <2>1. PICK m : m = r.k + 1
    OBVIOUS
  <2>2. PICK n : n = [r EXCEPT !.k = m]
    OBVIOUS
  <2>3. req' = [req EXCEPT ![h] = n]
    <3>1. req' = [req EXCEPT ![h] = [req[h] EXCEPT !.k = req[h].k + 1]]
      <4>1. ~ (Slugged(req[h].kind, Slug(req[h].name, req[h].k)) \subseteq {req[h].id})
        BY <1>3
      <4> QED BY <4>1 DEF FindSlug
    <3> QED BY <3>1, <2>1, <2>2
  <2>4. Tested(n)
    BY <1>1, <2>1, <2>2, TestedAgain
  <2> QED BY <1>1, <2>3, <2>4, AlignedTest
<1> QED BY <1>2, <1>3

\* The rows of a job as updateJob reads them.
LEMMA ReadRowsAligned ==
  ASSUME SeqCore, ReqOk, NEW h \in Handlers, ReadRows(h), UNCHANGED matching
  PROVE  Aligned
<1> PICK r : r = req[h]
  OBVIOUS
<1>1. /\ r # Idle /\ r.todo[1] = "rows" /\ DOMAIN req = Handlers /\ UNCHANGED rows
      /\ Planned(r) /\ Tested(r) /\ TablesOK
  BY DEF ReadRows, At, ReqOk, SeqCore
<1>2. CASE End(h)
  <2>1. req' = [req EXCEPT ![h] = Idle]
    BY <1>2 DEF End
  <2> QED BY <1>1, <2>1, AlignedTest
<1>3. CASE ~ End(h)
  <2>1. PICK n : n = [After(r) EXCEPT !.had = needs, !.left = {s \in Skills : r.ask[s] > 0}]
    OBVIOUS
  <2>2. req' = [req EXCEPT ![h] = n]
    BY <1>3, <2>1 DEF ReadRows
  <2>3. n = Idle \/ Tested(n)
    <3>1. CASE Len(r.todo) = 1
      <4>1. After(r) = Idle
        BY <1>1, <3>1, Advance
      <4> QED BY <4>1, <2>1 DEF Idle
    <3>2. CASE Len(r.todo) # 1
      <4> DEFINE T == Range(r.todo)
                 U == Range(Rest(r).todo)
      <4>1. /\ After(r) = Rest(r) /\ DOMAIN Rest(r) = DOMAIN r
            /\ \A f \in DOMAIN r : f # "todo" => Rest(r)[f] = r[f]
            /\ T = {"rows"} \cup U /\ U \subseteq Follow("rows")
        BY <1>1, <3>2, Advance
      <4>2. DOMAIN r = SaveFields
        BY <1>1, <4>1 DEF Planned, RequestSteps
      <4>3. n.ask = r.ask /\ n.left = {s \in Skills : r.ask[s] > 0} /\ n.todo = Rest(r).todo
        BY <2>1, <4>1, <4>2 DEF SaveFields
      <4>4. U \subseteq {"put", "prune", "bumpJob"}
        BY <4>1 DEF Follow, Tests
      <4>5. "put" \in U => SyncOk(r, T)
        BY <1>1, <4>1 DEF Tested
      <4> HIDE DEF T, U
      <4>6. "put" \in U => SyncOk(n, U)
        BY <4>1, <4>3, <4>4, <4>5 DEF SyncOk
      <4> QED BY <4>3, <4>4, <4>6 DEF Tested, U
    <3> QED BY <3>1, <3>2
  <2> QED BY <1>1, <2>2, <2>3, AlignedTest
<1> QED BY <1>2, <1>3

\* Saved in the middle of what a bump is to follow.
LEMMA OwesAfter ==
  ASSUME DOMAIN req = Handlers, NEW h \in Handlers, NEW r, r = req[h], r # Idle, Planned(r),
         r.todo[1] \in {"write", "saveJob"}, "bumpJob" \in Range(r.todo),
         req' = [req EXCEPT ![h] = After(r)]
  PROVE  ~ Quiet'
<1>1. Len(r.todo) # 1
  BY Advance
<1> DEFINE U == Range(Rest(r).todo)
<1>2. /\ After(r) = Rest(r) /\ Rest(r) # Idle
      /\ Range(r.todo) = {r.todo[1]} \cup U /\ U \subseteq Follow(r.todo[1])
  BY <1>1, Advance
<1>3. "bumpJob" \in U /\ U \cap {"write", "saveJob"} = {}
  BY <1>2 DEF Follow, Tests
<1>4. req'[h] = Rest(r)
  BY <1>2
<1>5. Owes(h)'
  BY <1>3, <1>4 DEF Owes
<1> QED BY <1>2, <1>4, <1>5 DEF Quiet

\* What is left after a statement that writes a row relies on nothing.
LEMMA AfterWriting ==
  ASSUME NEW r, Planned(r), r.todo[1] \in {"write", "drop", "restore", "saveCompany", "prune"}
  PROVE  After(r) = Idle \/ (Tested(After(r)) /\ Tested(After(r))')
<1>1. CASE Len(r.todo) = 1
  BY <1>1, Advance
<1>2. CASE Len(r.todo) # 1
  <2>1. After(r) = Rest(r) /\ Range(Rest(r).todo) \subseteq Follow(r.todo[1])
    BY <1>2, Advance
  <2>2. Range(After(r).todo) \cap Writing = {}
    BY <2>1 DEF Follow, Tests, Writing
  <2> QED BY <2>2, Vacuous
<1> QED BY <1>1, <1>2

\* A skill or a category is created or updated.
LEMMA WriteAligned ==
  ASSUME SeqCore, ReqOk, NEW h \in Handlers, Write(h), UNCHANGED matching
  PROVE  Aligned
<1> PICK r : r = req[h]
  OBVIOUS
<1>1. /\ r # Idle /\ r.todo[1] = "write" /\ DOMAIN req = Handlers
      /\ UNCHANGED <<jobCat, needs, company, linked, version, faults>>
      /\ Planned(r) /\ Tested(r) /\ TablesOK /\ CatalogueIsSound
  BY DEF Write, At, ReqOk, SeqCore
<1> DEFINE T == Range(r.todo)
<1>2. /\ "write" \in T /\ T \subseteq {"write", "bumpJob", "bumpCv"} /\ DOMAIN r = RequestFields
      /\ (r.id # None => "bumpJob" \in T)
  <2>1. "write" \in T /\ T \subseteq {"write"} \cup Follow("write")
    BY <1>1, Advance
  <2> QED BY <1>1, <2>1 DEF Planned, SaveSteps, Follow, Tests
<1>3. WriteOk(r, T)
  BY <1>1, <1>2 DEF Tested
<1> HIDE DEF T
<1>4. CASE IndexRefuses(h, Columns(h))
  <2>1. req' = [req EXCEPT ![h] = Idle] /\ UNCHANGED rows
    BY <1>1, <1>4 DEF Write, End, rows
  <2> QED BY <1>1, <2>1, AlignedTest
<1>5. CASE ~ IndexRefuses(h, Columns(h))
  <2>1. PICK i : i = IF r.id = None THEN CHOOSE j \in Free(r.kind) : TRUE ELSE r.id
    OBVIOUS
  <2>2. PICK c : c = Columns(h)
    OBVIOUS
  <2>3. PICK n : n = After(r)
    OBVIOUS
  <2>4. /\ row' = [row EXCEPT ![i] = c] /\ req' = [req EXCEPT ![h] = n]
    BY <1>5, <2>1, <2>2, <2>3 DEF Write, Proceed
  <2>5. /\ i \in r.kind /\ i \in Ids /\ (r.id = None => i \in Free(r.kind))
        /\ (r.id # None => i = r.id /\ Live(i))
    BY <1>3, <2>1 DEF WriteOk, Ids, Free
  <2>6. Skills # Categories
    <3>1. i \in Skills \/ i \in Categories
      BY <2>5, <1>3 DEF WriteOk
    <3> QED BY <3>1, IdsAreNot
  <2>7. /\ c.live = (r.id = None \/ row[r.id].live)
        /\ c.name = IF r.name = None /\ r.id # None THEN row[r.id].name ELSE r.name
        /\ c.slug = IF r.slug = None /\ r.id # None THEN row[r.id].slug ELSE r.slug
        /\ c.category = IF r.kind = Skills
                          THEN IF r.category = None /\ r.id # None THEN row[r.id].category
                               ELSE r.category
                          ELSE None
        /\ c.parent = IF r.parent = Clear THEN None
                      ELSE IF r.parent = None /\ r.id # None THEN row[r.id].parent ELSE r.parent
        /\ c = [live |-> c.live, name |-> c.name, slug |-> c.slug, category |-> c.category,
                parent |-> c.parent]
    BY <2>2 DEF Columns
  <2>8. /\ c.live = TRUE
        /\ c.name \in Names /\ c.slug \in Range(Base) \X Nat
        /\ c.category \in Categories \cup {None} /\ c.parent \in Skills \cup {None}
    <3>1. CASE r.id = None
      <4>1. r.name # None /\ r.slug # None /\ (r.kind = Skills => r.category # None)
        BY <1>3, <1>2, <3>1, IdsAreNot DEF WriteOk
      <4> QED BY <1>3, <3>1, <4>1, <2>7 DEF WriteOk
    <3>2. CASE r.id # None
      <4>1. row[r.id] \in Row /\ row[r.id].live = TRUE
        BY <1>1, <2>5, <3>2, RowOf DEF Live, Row
      <4>2. /\ row[r.id].name \in Names /\ row[r.id].slug \in Range(Base) \X Nat
            /\ row[r.id].category \in Categories \cup {None}
            /\ row[r.id].parent \in Skills \cup {None}
        BY <4>1 DEF Row
      <4> QED BY <1>3, <3>2, <4>1, <4>2, <2>7 DEF WriteOk
    <3> QED BY <3>1, <3>2
  <2>9. c \in Row
    BY <2>7, <2>8 DEF Row
  <2>10. ASSUME i \in Categories, NEW j \in Ids, j # i
         PROVE  /\ r.kind = Categories /\ j # r.id
                /\ j \in LiveOf(Categories) => row[j].name # c.name
                /\ j \in RowsOf(Categories) => row[j].slug # c.slug
    <3>1. r.kind = Categories
      BY <2>5, <2>10, <1>3, IdsAreNot DEF WriteOk
    <3>2. r.name \in Names /\ Named(Categories, r.name) \subseteq {r.id}
      BY <1>2, <1>3, <3>1 DEF WriteOk
    <3>3. j # r.id
      BY <2>5, <2>10, IdsAreNot
    <3>4. c.name = r.name
      BY <3>2, <2>7, IdsAreNot
    <3>5. j \in LiveOf(Categories) => row[j].name # r.name
      BY <3>2, <3>3 DEF Named
    <3>6. j \in RowsOf(Categories) => row[j].slug # c.slug
      BY <1>5, <2>2, <2>6, <3>1, <3>3 DEF IndexRefuses, CategoryRefused
    <3> QED BY <3>1, <3>3, <3>4, <3>5, <3>6
  <2>11. i \in Skills => c.category \in LiveOf(Categories) \cup {None}
    <3> SUFFICES ASSUME i \in Skills PROVE c.category \in LiveOf(Categories) \cup {None}
      OBVIOUS
    <3>1. r.kind = Skills
      BY <2>5, <1>3, IdsAreNot DEF WriteOk
    <3>2. r.category \in Categories \cup {None} /\ OpenCategory(r.category)
          /\ (r.id = None => r.category # None)
      BY <1>2, <1>3, <3>1 DEF WriteOk
    <3>3. CASE r.category # None
      BY <3>1, <3>2, <3>3, <2>7 DEF OpenCategory, LiveOf
    <3>4. CASE r.category = None
      <4>1. c.category = row[i].category /\ i \in LiveOf(Skills)
        BY <3>1, <3>2, <3>4, <2>5, <2>7 DEF LiveOf
      <4> QED BY <4>1, <1>1 DEF CatalogueIsSound
    <3> QED BY <3>3, <3>4
  <2>12. i \in Skills => c.parent \in (RowsOf(Skills) \ {i}) \cup {None}
    <3> SUFFICES ASSUME i \in Skills PROVE c.parent \in (RowsOf(Skills) \ {i}) \cup {None}
      OBVIOUS
    <3>1. r.kind = Skills
      BY <2>5, <1>3, IdsAreNot DEF WriteOk
    <3>2. OpenParent(r)
      BY <1>2, <1>3, <3>1 DEF WriteOk
    <3>3. CASE r.parent = Clear
      BY <3>3, <2>7
    <3>4. CASE r.parent = None /\ r.id = None
      BY <3>4, <2>7, IdsAreNot
    <3>5. CASE r.parent = None /\ r.id # None
      <4>1. c.parent = row[i].parent /\ i \in RowsOf(Skills)
        BY <3>5, <2>5, <2>7, IdsAreNot DEF RowsOf, Free, Live
      <4> QED BY <4>1, <1>1 DEF CatalogueIsSound, TablesAreWhole
    <3>6. CASE r.parent \in RowsOf(Skills) \ {r.id}
      <4>1. r.parent \in Skills /\ r.parent \notin {Clear, None}
        BY <3>6, IdsAreNot DEF RowsOf
      <4>2. c.parent = r.parent
        BY <4>1, <2>7
      <4>3. r.parent # i
        BY <3>6, <3>1, <2>5 DEF RowsOf
      <4> QED BY <3>6, <4>2, <4>3
    <3> QED BY <3>2, <3>3, <3>4, <3>5, <3>6 DEF OpenParent
  <2>13. TablesOK' /\ CatalogueIsSound'
    <3>1. /\ i \in Categories => \A j \in LiveOf(Categories) : j # i => row[j].name # c.name
          /\ i \in Categories => \A j \in RowsOf(Categories) : j # i => row[j].slug # c.slug
      BY <2>10 DEF LiveOf, RowsOf, Ids
    <3> QED BY <1>1, <2>4, <2>5, <2>8, <2>9, <3>1, <2>11, <2>12, WriteSound
  <2>14. n = Idle \/ Tested(n)'
    BY <1>1, <2>3, AfterWriting
  <2>15. SeqCore'
    BY <1>1, <2>4, <2>13, <2>14, AloneGoes
  <2>16. CASE r.id = None
    <3>1. ~ Live(i)
      BY <2>5, <2>16 DEF Free, Live
    <3>2. i \notin Needed \cup linked
      BY <3>1, <1>1 DEF CatalogueIsSound, LiveOf
    <3>3. jobCat # i
      BY <3>1, <1>1, <2>5, IdsAreNot DEF CatalogueIsSound, LiveOf
    <3>4. /\ row \in [Ids -> Row \cup {None}] /\ linked \subseteq Skills
          /\ jobCat \in Categories \cup {None}
      BY <1>1 DEF TablesOK
    <3>5. Current' = Current
      BY <1>1, <2>4, <2>5, <3>2, <3>3, <3>4, SameCurrent DEF matching
    <3> QED BY <2>15, <3>5 DEF Aligned
  <2>17. CASE r.id # None
    <3>1. ~ Quiet'
      BY <1>1, <1>2, <2>3, <2>4, <2>17, OwesAfter DEF T
    <3> QED BY <2>15, <3>1 DEF Aligned
  <2> QED BY <2>16, <2>17
<1> QED BY <1>4, <1>5

\* One is deleted.
LEMMA DropAligned ==
  ASSUME SeqCore, ReqOk, NEW h \in Handlers, Drop(h), UNCHANGED matching
  PROVE  Aligned
<1> PICK r : r = req[h]
  OBVIOUS
<1>1. /\ r # Idle /\ r.todo[1] = "drop" /\ DOMAIN req = Handlers
      /\ UNCHANGED <<jobCat, needs, company, linked>>
      /\ Planned(r) /\ Tested(r) /\ TablesOK /\ CatalogueIsSound
      /\ row' = [row EXCEPT ![r.id].live = FALSE]
  BY DEF Drop, SetLive, At, ReqOk, SeqCore
<1> DEFINE T == Range(r.todo)
<1>2. "drop" \in T /\ T \subseteq {"drop"}
  <2>1. "drop" \in T /\ T \subseteq {"drop"} \cup Follow("drop")
    BY <1>1, Advance
  <2> QED BY <2>1 DEF Follow, Tests
<1>3. DropOk(r, T)
  BY <1>1, <1>2 DEF Tested
<1> HIDE DEF T
<1>4. PICK i : i = r.id
  OBVIOUS
<1>5. PICK n : n = After(r)
  OBVIOUS
<1>6. req' = [req EXCEPT ![h] = n] /\ row' = [row EXCEPT ![i].live = FALSE]
  BY <1>1, <1>4, <1>5 DEF Drop, SetLive, Proceed
<1>7. /\ i \in Ids /\ Live(i)
      /\ i \in Skills => i \notin Needed \cup linked
      /\ i \in Categories => InCategory(i) = {} /\ company # i /\ jobCat # i
  BY <1>2, <1>3, <1>4 DEF DropOk
<1>8. TablesOK' /\ CatalogueIsSound'
  BY <1>1, <1>6, <1>7, DropSound
<1>9. n = Idle \/ Tested(n)'
  BY <1>1, <1>5, AfterWriting
<1>10. SeqCore'
  BY <1>1, <1>6, <1>8, <1>9, AloneGoes
<1>11. /\ row \in [Ids -> Row \cup {None}] /\ linked \subseteq Skills
       /\ jobCat \in Categories \cup {None}
  BY <1>1 DEF TablesOK
<1>12. i \notin Needed \cup linked /\ jobCat # i
  <2>1. i \in Categories => i \notin Skills
    BY IdsAreNot
  <2>2. i # None /\ (i \in Skills => i \notin Categories)
    BY <1>7, IdsAreNot
  <2> QED BY <1>7, <1>11, <2>1, <2>2 DEF Needed, Ids
<1>13. PICK c : c = [row[i] EXCEPT !.live = FALSE]
  OBVIOUS
<1>14. row' = [row EXCEPT ![i] = c]
  BY <1>6, <1>13
<1>15. Current' = Current
  BY <1>1, <1>7, <1>11, <1>12, <1>14, SameCurrent DEF matching
<1> QED BY <1>10, <1>15 DEF Aligned

\* One is restored.
LEMMA RestoreAligned ==
  ASSUME SeqCore, ReqOk, NEW h \in Handlers, Restore(h), UNCHANGED matching
  PROVE  Aligned
<1> PICK r : r = req[h]
  OBVIOUS
<1>1. /\ r # Idle /\ r.todo[1] = "restore" /\ DOMAIN req = Handlers
      /\ UNCHANGED <<jobCat, needs, company, linked>>
      /\ Planned(r) /\ Tested(r) /\ TablesOK /\ CatalogueIsSound
  BY DEF Restore, SetLive, At, ReqOk, SeqCore, rows
<1> DEFINE T == Range(r.todo)
<1>2. "restore" \in T /\ T \subseteq {"restore"}
  <2>1. "restore" \in T /\ T \subseteq {"restore"} \cup Follow("restore")
    BY <1>1, Advance
  <2> QED BY <2>1 DEF Follow, Tests
<1>3. RestoreOk(r, T)
  BY <1>1, <1>2 DEF Tested
<1> HIDE DEF T
<1>4. CASE End(h) /\ UNCHANGED rows
  <2>1. req' = [req EXCEPT ![h] = Idle]
    BY <1>4 DEF End
  <2> QED BY <1>1, <1>4, <2>1, AlignedTest
<1>5. CASE SetLive(h, TRUE)
  <2>1. PICK i : i = r.id
    OBVIOUS
  <2>2. PICK n : n = After(r)
    OBVIOUS
  <2>3. PICK c : c = [row[i] EXCEPT !.live = TRUE]
    OBVIOUS
  <2>4. req' = [req EXCEPT ![h] = n] /\ row' = [row EXCEPT ![i] = c]
    BY <1>1, <1>5, <2>1, <2>2, <2>3 DEF SetLive, Proceed
  <2>5. /\ i \in Ids /\ row[i] \in Row /\ ~ Live(i) /\ i \in r.kind
    BY <1>1, <1>3, <2>1, RowOf DEF RestoreOk
  <2>6. /\ c \in Row /\ c.live = TRUE /\ c.name = row[i].name /\ c.slug = row[i].slug
        /\ c.category = row[i].category /\ c.parent = row[i].parent
    BY <2>3, <2>5 DEF Row
  <2>7. ASSUME i \in Categories, NEW j \in LiveOf(Categories), j # i
        PROVE  row[j].name # c.name
    <3>1. Named(Categories, r.name) \subseteq {i} /\ r.name = row[i].name
      BY <1>2, <1>3, <2>1, <2>7 DEF RestoreOk
    <3> QED BY <3>1, <2>6, <2>7 DEF Named
  <2>8. /\ i \in Categories => \A j \in RowsOf(Categories) : j # i => row[j].slug # c.slug
        /\ i \in Skills => c.parent \in (RowsOf(Skills) \ {i}) \cup {None}
    <3>1. \A K \in {Skills, Categories} : i \in K => i \in RowsOf(K)
      BY <2>5, IdsAreNot DEF RowsOf, Free
    <3> QED BY <3>1, <1>1, <2>6 DEF CatalogueIsSound, TablesAreWhole
  <2>9. i \in Skills => c.category \in LiveOf(Categories) \cup {None}
    BY <1>2, <1>3, <2>1, <2>6, <2>5, RowOf DEF RestoreOk, OpenCategory, LiveOf
  <2>10. TablesOK' /\ CatalogueIsSound'
    <3>1. i \in Categories => \A j \in LiveOf(Categories) : j # i => row[j].name # c.name
      BY <2>7
    <3>2. i \in Categories => \A j \in RowsOf(Categories) : j # i => row[j].slug # c.slug
      BY <2>8
    <3>3. i \in Skills => c.parent \in (RowsOf(Skills) \ {i}) \cup {None}
      BY <2>8
    <3> QED BY <1>1, <2>4, <2>5, <2>6, <2>9, <3>1, <3>2, <3>3, WriteSound
  <2>11. n = Idle \/ Tested(n)'
    BY <1>1, <2>2, AfterWriting
  <2>12. SeqCore'
    BY <1>1, <2>4, <2>10, <2>11, AloneGoes
  <2>13. /\ row \in [Ids -> Row \cup {None}] /\ linked \subseteq Skills
         /\ jobCat \in Categories \cup {None}
    BY <1>1 DEF TablesOK
  <2>14. i \notin Needed \cup linked /\ jobCat # i
    BY <2>5, <1>1, IdsAreNot DEF CatalogueIsSound, LiveOf
  <2>15. Current' = Current
    BY <1>1, <2>4, <2>5, <2>13, <2>14, SameCurrent DEF matching
  <2> QED BY <2>12, <2>15 DEF Aligned
<1> QED BY <1>4, <1>5 DEF Restore, rows

\* The category of the company.
LEMMA SaveCompanyAligned ==
  ASSUME SeqCore, ReqOk, NEW h \in Handlers, SaveCompany(h), UNCHANGED matching
  PROVE  Aligned
<1> PICK r : r = req[h]
  OBVIOUS
<1>1. /\ r # Idle /\ r.todo[1] = "saveCompany" /\ DOMAIN req = Handlers
      /\ UNCHANGED <<row, jobCat, needs, linked>> /\ company' = r.category
      /\ Planned(r) /\ Tested(r) /\ TablesOK /\ CatalogueIsSound
  BY DEF SaveCompany, At, ReqOk, SeqCore
<1> DEFINE T == Range(r.todo)
<1>2. "saveCompany" \in T /\ T \subseteq {"saveCompany"}
  <2>1. "saveCompany" \in T /\ T \subseteq {"saveCompany"} \cup Follow("saveCompany")
    BY <1>1, Advance
  <2> QED BY <2>1 DEF Follow, Tests
<1>3. RefersOk(r, T)
  BY <1>1, <1>2 DEF Tested
<1> HIDE DEF T
<1>4. r.category \in LiveOf(Categories) \cup {None}
  BY <1>2, <1>3 DEF RefersOk, OpenCategory, LiveOf
<1>5. TablesOK' /\ CatalogueIsSound'
  <2>1. /\ jobCat \in LiveOf(Categories) \cup {None}
        /\ needs \in [Skills -> [weight : {0} \cup Weights, rows : Nat]]
        /\ Needed' = Needed /\ Needed \cup linked \subseteq LiveOf(Skills)
    BY <1>1 DEF TablesOK, CatalogueIsSound, Needed
  <2> QED BY <1>1, <1>4, <2>1, ReferSound
<1>6. PICK n : n = After(r)
  OBVIOUS
<1>7. req' = [req EXCEPT ![h] = n]
  BY <1>6 DEF SaveCompany, Proceed
<1>8. n = Idle \/ Tested(n)'
  BY <1>1, <1>6, AfterWriting
<1>9. SeqCore'
  BY <1>1, <1>5, <1>7, <1>8, AloneGoes
<1>10. SlugOf(jobCat)' = SlugOf(jobCat) /\ WeightsOf(needs)' = WeightsOf(needs)
       /\ InCategory(jobCat)' = InCategory(jobCat) /\ NamesOf(Needed)' = NamesOf(Needed)
  BY <1>1 DEF SlugOf, WeightsOf, InCategory, NamesOf, Needed, LiveOf, Live
<1>11. Current' = Current
  BY <1>1, <1>10 DEF Current, matching
<1> QED BY <1>9, <1>11 DEF Aligned

\* The category of the job.
LEMMA SaveJobAligned ==
  ASSUME SeqCore, ReqOk, NEW h \in Handlers, SaveJob(h), UNCHANGED matching
  PROVE  Aligned
<1> PICK r : r = req[h]
  OBVIOUS
<1>1. /\ r # Idle /\ r.todo[1] = "saveJob" /\ DOMAIN req = Handlers
      /\ UNCHANGED <<row, company, needs, linked>> /\ jobCat' \in {jobCat, r.category}
      /\ Planned(r) /\ Tested(r) /\ TablesOK /\ CatalogueIsSound
  BY DEF SaveJob, At, ReqOk, SeqCore
<1> DEFINE T == Range(r.todo)
           U == Range(Rest(r).todo)
<1>2. "saveJob" \in T /\ T \subseteq {"saveJob", "rows", "put", "prune", "bumpJob"}
  <2>1. "saveJob" \in T /\ T \subseteq {"saveJob"} \cup Follow("saveJob")
    BY <1>1, Advance
  <2> QED BY <2>1 DEF Follow, Tests
<1>3. DOMAIN r = SaveFields /\ "bumpJob" \in T
  BY <1>1, <1>2 DEF Planned, RequestSteps
<1>4. RefersOk(r, T) /\ ("put" \in T => SyncOk(r, T))
  BY <1>1, <1>2 DEF Tested
<1>5. /\ After(r) = Rest(r) /\ T = {"saveJob"} \cup U
      /\ \A f \in DOMAIN r : f # "todo" => Rest(r)[f] = r[f]
      /\ U \subseteq {"rows", "put", "prune", "bumpJob"}
  <2>1. Len(r.todo) # 1
    BY <1>1, <1>3, Advance
  <2>2. /\ After(r) = Rest(r) /\ T = {"saveJob"} \cup U
        /\ \A f \in DOMAIN r : f # "todo" => Rest(r)[f] = r[f]
        /\ U \subseteq Follow("saveJob")
    BY <1>1, <2>1, Advance
  <2> QED BY <2>2 DEF Follow, Tests
<1>6. r.category \in LiveOf(Categories) \cup {None}
  BY <1>2, <1>4 DEF RefersOk, OpenCategory, LiveOf
<1>7. TablesOK' /\ CatalogueIsSound'
  <2>1. /\ {jobCat, company} \subseteq LiveOf(Categories) \cup {None}
        /\ needs \in [Skills -> [weight : {0} \cup Weights, rows : Nat]]
        /\ Needed' = Needed /\ Needed \cup linked \subseteq LiveOf(Skills)
    BY <1>1 DEF TablesOK, CatalogueIsSound, Needed
  <2> QED BY <1>1, <1>6, <2>1, ReferSound
<1>8. PICK n : n = Rest(r)
  OBVIOUS
<1>9. req' = [req EXCEPT ![h] = n]
  BY <1>5, <1>8 DEF SaveJob, Proceed
<1>10. Tested(n)'
  <2>1. n.ask = r.ask /\ n.left = r.left /\ Range(n.todo) = U
    BY <1>3, <1>5, <1>8 DEF SaveFields
  <2> HIDE DEF T, U
  <2>2. "put" \in U => SyncOk(n, U)
    BY <1>4, <1>5, <2>1 DEF SyncOk
  <2>3. SyncOk(n, U) => SyncOk(n, U)'
    BY <1>1 DEF SyncOk, Live, U
  <2> QED BY <1>5, <2>1, <2>2, <2>3 DEF Tested
<1>11. SeqCore'
  BY <1>1, <1>7, <1>9, <1>10, AloneGoes
<1>12. ~ Quiet'
  BY <1>1, <1>3, <1>5, <1>8, <1>9, OwesAfter
<1> QED BY <1>11, <1>12 DEF Aligned

\* Until its skills are all written, the bump of a job is still to come.
LEMMA StillOwes ==
  ASSUME ReqOk, NEW h \in Handlers, req[h] # Idle, req[h].todo[1] \in {"put", "prune"},
         NEW r, Goes(h, r) \/ End(h)
  PROVE  ~ Quiet'
<1>1. Owes(h) /\ req[h].todo[1] \notin Bumps
  BY SyncOwes
<1>2. CASE End(h)
  BY <1>1, <1>2, Ends
<1>3. CASE Goes(h, r)
  <2>1. req'[h] # Idle /\ Owes(h)'
    BY <1>1, <1>3, GoesOn
  <2> QED BY <2>1 DEF Quiet
<1> QED BY <1>2, <1>3

\* A skill of the job is written.
LEMMA PutSkillAligned ==
  ASSUME SeqCore, ReqOk, NEW h \in Handlers, PutSkill(h), UNCHANGED matching
  PROVE  Aligned
<1> PICK r : r = req[h]
  OBVIOUS
<1>1. /\ r # Idle /\ r.todo[1] = "put" /\ DOMAIN req = Handlers
      /\ UNCHANGED <<row, jobCat, company, linked>>
      /\ Planned(r) /\ Tested(r) /\ TablesOK /\ CatalogueIsSound
  BY DEF PutSkill, At, ReqOk, SeqCore
<1> DEFINE T == Range(r.todo)
           U == Range(Rest(r).todo)
<1>2. "put" \in T /\ T \subseteq {"put", "prune", "bumpJob"}
  <2>1. "put" \in T /\ T \subseteq {"put"} \cup Follow("put")
    BY <1>1, Advance
  <2> QED BY <2>1 DEF Follow, Tests
<1>3. DOMAIN r = SaveFields /\ SyncOk(r, T)
  BY <1>1, <1>2 DEF Planned, RequestSteps, Tested
<1>4. /\ r.ask \in [Skills -> {0} \cup Weights]
      /\ \A s \in r.left : s \in Skills /\ r.ask[s] > 0 /\ Live(s)
  <2> HIDE DEF T
  <2> QED BY <1>2, <1>3 DEF SyncOk
<1>5. ASSUME NEW n, req' = [req EXCEPT ![h] = n], n = Idle \/ Tested(n)',
             Goes(h, n) \/ End(h), TablesOK', CatalogueIsSound'
      PROVE  Aligned
  <2>1. SeqCore'
    BY <1>1, <1>5, AloneGoes
  <2>2. ~ Quiet'
    BY <1>1, <1>5, StillOwes
  <2> QED BY <2>1, <2>2 DEF Aligned
<1>6. CASE needs' = needs /\ End(h)
  <2>1. TablesOK' /\ CatalogueIsSound'
    BY <1>1, <1>6, RowsStay DEF rows
  <2>2. req' = [req EXCEPT ![h] = Idle]
    BY <1>6 DEF End
  <2> QED BY <1>5, <1>6, <2>1, <2>2
<1>7. ASSUME needs' = needs,
             NEW S, req' = [req EXCEPT ![h] = [After(req[h]) EXCEPT !.left = S]]
      PROVE  Aligned
  <2>1. TablesOK' /\ CatalogueIsSound'
    BY <1>1, <1>7, RowsStay DEF rows
  <2>2. PICK n : n = [After(r) EXCEPT !.left = S]
    OBVIOUS
  <2>3. req' = [req EXCEPT ![h] = n]
    BY <1>7, <2>2
  <2>4. n = Idle \/ Tested(n)'
    <3>1. CASE Len(r.todo) = 1
      <4>1. After(r) = Idle
        BY <1>1, <3>1, Advance
      <4> QED BY <4>1, <2>2 DEF Idle
    <3>2. CASE Len(r.todo) # 1
      <4>1. After(r) = Rest(r) /\ U \subseteq Follow("put") /\ "todo" \in DOMAIN Rest(r)
        BY <1>1, <3>2, Advance DEF Planned
      <4>2. n.todo = Rest(r).todo
        BY <2>2, <4>1
      <4>3. Range(n.todo) \cap Writing = {}
        BY <4>1, <4>2 DEF Follow, Tests, Writing
      <4> QED BY <4>3, Vacuous
    <3> QED BY <3>1, <3>2
  <2>5. Goes(h, n)
    <3>1. CASE After(r) = Idle
      BY <3>1, <2>2, <2>3 DEF Goes, Idle
    <3>2. CASE After(r) # Idle
      BY <3>2, <2>2, <2>3 DEF Goes, Same
    <3> QED BY <3>1, <3>2
  <2> QED BY <1>5, <2>1, <2>3, <2>4, <2>5
<1>8. ASSUME NEW s \in r.left, NEW w, req' = [req EXCEPT ![h] = [req[h] EXCEPT !.left = @ \ {s}]],
             needs' = [needs EXCEPT ![s] = w], w \in [weight : {0} \cup Weights, rows : Nat]
      PROVE  Aligned
  <2>1. TablesOK' /\ CatalogueIsSound'
    <3>1. /\ {jobCat, company} \subseteq LiveOf(Categories) \cup {None}
          /\ needs \in [Skills -> [weight : {0} \cup Weights, rows : Nat]]
          /\ Needed \cup linked \subseteq LiveOf(Skills)
      BY <1>1 DEF TablesOK, CatalogueIsSound
    <3>2. s \in LiveOf(Skills)
      BY <1>4, <1>8 DEF LiveOf
    <3>3. /\ needs' \in [Skills -> [weight : {0} \cup Weights, rows : Nat]]
          /\ Needed' \subseteq Needed \cup {s}
      <4>1. \A o \in Skills : o # s => needs'[o] = needs[o]
        BY <1>8, <3>1
      <4>2. needs' \in [Skills -> [weight : {0} \cup Weights, rows : Nat]]
        BY <1>8, <3>1
      <4> QED BY <4>1, <4>2 DEF Needed
    <3> QED BY <1>1, <3>1, <3>2, <3>3, ReferSound
  <2>2. PICK n : n = [r EXCEPT !.left = @ \ {s}]
    OBVIOUS
  <2>3. req' = [req EXCEPT ![h] = n]
    BY <1>8, <2>2
  <2>4. Tested(n)'
    <3>1. n.ask = r.ask /\ n.left = r.left \ {s} /\ Range(n.todo) = T
      BY <1>3, <2>2 DEF SaveFields
    <3> HIDE DEF T
    <3>2. SyncOk(n, T)
      BY <1>3, <3>1 DEF SyncOk
    <3>3. SyncOk(n, T) => SyncOk(n, T)'
      BY <1>1 DEF SyncOk, Live, T
    <3> QED BY <1>2, <3>1, <3>2, <3>3 DEF Tested
  <2>5. Goes(h, n)
    BY <2>2, <2>3 DEF Goes, Same
  <2> QED BY <1>5, <2>1, <2>3, <2>4, <2>5
<1>9. \/ needs' = needs /\ End(h)
      \/ needs' = needs /\ \E S : req' = [req EXCEPT ![h] = [After(req[h]) EXCEPT !.left = S]]
      \/ \E s \in r.left, w \in [weight : {0} \cup Weights, rows : Nat] :
           /\ req' = [req EXCEPT ![h] = [req[h] EXCEPT !.left = @ \ {s}]]
           /\ needs' = [needs EXCEPT ![s] = w]
  <2>1. CASE r.left = {}
    BY <2>1, <1>1 DEF PutSkill
  <2>2. ASSUME NEW s \in r.left,
               r.had[s].weight = 0 /\ needs[s].weight > 0, End(h), UNCHANGED needs
        PROVE  needs' = needs /\ End(h)
    BY <2>2
  <2>3. ASSUME NEW s \in r.left, req' = [req EXCEPT ![h].left = @ \ {s}],
               needs' = [needs EXCEPT ![s] =
                        CASE r.had[s].weight = 0 -> [weight |-> r.ask[s], rows |-> needs[s].rows + 1]
                          [] /\ r.had[s].weight \notin {0, r.ask[s]}
                             /\ r.had[s].rows = needs[s].rows /\ needs[s].weight > 0
                               -> [needs[s] EXCEPT !.weight = r.ask[s]]
                          [] OTHER -> needs[s]]
        PROVE  \E w \in [weight : {0} \cup Weights, rows : Nat] :
                 /\ req' = [req EXCEPT ![h] = [req[h] EXCEPT !.left = @ \ {s}]]
                 /\ needs' = [needs EXCEPT ![s] = w]
    <3>1. s \in Skills /\ needs[s] \in [weight : {0} \cup Weights, rows : Nat]
          /\ r.ask[s] \in {0} \cup Weights
      BY <1>1, <1>4, <2>3 DEF TablesOK
    <3> DEFINE A == [weight |-> r.ask[s], rows |-> needs[s].rows + 1]
               B == [needs[s] EXCEPT !.weight = r.ask[s]]
    <3>2. /\ A \in [weight : {0} \cup Weights, rows : Nat]
          /\ B \in [weight : {0} \cup Weights, rows : Nat]
      BY <3>1
    <3>3. \/ needs' = [needs EXCEPT ![s] = A]
          \/ needs' = [needs EXCEPT ![s] = B]
          \/ needs' = [needs EXCEPT ![s] = needs[s]]
      <4> DEFINE p == r.had[s].weight = 0
                 q == /\ r.had[s].weight \notin {0, r.ask[s]}
                      /\ r.had[s].rows = needs[s].rows /\ needs[s].weight > 0
      <4>1. needs' = [needs EXCEPT ![s] = CASE p -> A [] q -> B [] OTHER -> needs[s]]
        BY <2>3
      <4> HIDE DEF A, B, p, q
      <4>2. (CASE p -> A [] q -> B [] OTHER -> needs[s]) \in {A, B, needs[s]}
        OBVIOUS
      <4> QED BY <4>1, <4>2
    <3> HIDE DEF A, B
    <3> QED BY <3>1, <3>2, <3>3, <2>3
  <2> QED BY <2>1, <2>2, <2>3, <1>1 DEF PutSkill
<1> QED BY <1>6, <1>7, <1>8, <1>9

\* A skill of the job is removed.
LEMMA PruneSkillAligned ==
  ASSUME SeqCore, ReqOk, NEW h \in Handlers, PruneSkill(h), UNCHANGED matching
  PROVE  Aligned
<1> PICK r : r = req[h]
  OBVIOUS
<1>1. /\ r # Idle /\ r.todo[1] = "prune" /\ DOMAIN req = Handlers
      /\ UNCHANGED <<row, jobCat, company, linked>>
      /\ Planned(r) /\ Tested(r) /\ TablesOK /\ CatalogueIsSound
  BY DEF PruneSkill, At, ReqOk, SeqCore
<1>2. TablesOK' /\ CatalogueIsSound'
  <2>1. /\ {jobCat, company} \subseteq LiveOf(Categories) \cup {None}
        /\ needs \in [Skills -> [weight : {0} \cup Weights, rows : Nat]]
        /\ Needed \cup linked \subseteq LiveOf(Skills)
    BY <1>1 DEF TablesOK, CatalogueIsSound
  <2>2. needs' = needs \/ \E s : needs' = [needs EXCEPT ![s].weight = 0]
    BY DEF PruneSkill
  <2>3. needs' \in [Skills -> [weight : {0} \cup Weights, rows : Nat]] /\ Needed' \subseteq Needed
    <3>1. CASE needs' = needs
      BY <3>1, <2>1 DEF Needed
    <3>2. ASSUME NEW s, needs' = [needs EXCEPT ![s].weight = 0]
          PROVE  needs' \in [Skills -> [weight : {0} \cup Weights, rows : Nat]]
                 /\ Needed' \subseteq Needed
      <4>1. \A o \in Skills : needs'[o] = IF o = s THEN [needs[o] EXCEPT !.weight = 0] ELSE needs[o]
        BY <3>2, <2>1
      <4>2. DOMAIN needs' = Skills /\ needs' = [o \in Skills |-> needs'[o]]
        BY <3>2, <2>1
      <4>3. \A o \in Skills : needs'[o] \in [weight : {0} \cup Weights, rows : Nat]
                              /\ (needs'[o].weight > 0 => needs[o].weight > 0)
        <5> SUFFICES ASSUME NEW o \in Skills
                     PROVE  /\ needs'[o] \in [weight : {0} \cup Weights, rows : Nat]
                            /\ (needs'[o].weight > 0 => needs[o].weight > 0)
          OBVIOUS
        <5>1. needs[o] \in [weight : {0} \cup Weights, rows : Nat]
          BY <2>1
        <5>2. CASE o = s
          <6>1. needs'[o] = [needs[o] EXCEPT !.weight = 0]
            BY <4>1, <5>2
          <6>2. needs'[o].weight = 0 /\ needs'[o] \in [weight : {0} \cup Weights, rows : Nat]
            BY <5>1, <6>1
          <6> QED BY <6>2
        <5>3. CASE o # s
          BY <4>1, <5>1, <5>3
        <5> QED BY <5>2, <5>3
      <4> QED BY <4>2, <4>3 DEF Needed
    <3> QED BY <2>2, <3>1, <3>2
  <2> QED BY <1>1, <2>1, <2>3, ReferSound
<1>3. ASSUME NEW n, req' = [req EXCEPT ![h] = n], n = Idle \/ Tested(n)', Goes(h, n)
      PROVE  Aligned
  <2>1. SeqCore'
    BY <1>1, <1>2, <1>3, AloneGoes
  <2>2. ~ Quiet'
    BY <1>1, <1>3, StillOwes
  <2> QED BY <2>1, <2>2 DEF Aligned
<1>4. CASE Proceed(h)
  <2>1. PICK n : n = After(r)
    OBVIOUS
  <2>2. n = Idle \/ Tested(n)'
    BY <1>1, <2>1, AfterWriting
  <2> QED BY <1>3, <1>4, <2>1, <2>2, ProceedGoes DEF Proceed
<1>5. ASSUME NEW s, req' = [req EXCEPT ![h] = [req[h] EXCEPT !.left = @ \ {s}]]
      PROVE  Aligned
  <2>1. PICK n : n = [r EXCEPT !.left = @ \ {s}]
    OBVIOUS
  <2>2. req' = [req EXCEPT ![h] = n]
    BY <1>5, <2>1
  <2>3. Range(r.todo) \cap Writing = {}
    <3>1. Range(r.todo) \subseteq {"prune"} \cup Follow("prune")
      BY <1>1, Advance
    <3> QED BY <3>1 DEF Follow, Tests, Writing
  <2>4. n.todo = r.todo
    BY <2>1 DEF Planned
  <2>5. Tested(n)'
    BY <2>3, <2>4, Vacuous
  <2>6. Goes(h, n)
    BY <2>1, <2>2 DEF Goes, Same
  <2> QED BY <1>3, <2>2, <2>5, <2>6
<1>6. Proceed(h) \/ \E s : req' = [req EXCEPT ![h] = [req[h] EXCEPT !.left = @ \ {s}]]
  BY <1>1 DEF PruneSkill
<1> QED BY <1>4, <1>5, <1>6

\* A bump.
LEMMA GoesAligned ==
  ASSUME SeqCore, ReqOk, NEW h \in Handlers, req[h] # Idle,
         req[h].todo[1] \in Bumps, Proceed(h), UNCHANGED rows, UNCHANGED matching
  PROVE  Aligned
<1> PICK r : r = req[h]
  OBVIOUS
<1>1. Planned(r) /\ Tested(r) /\ TablesOK /\ DOMAIN req = Handlers
  BY DEF ReqOk, SeqCore
<1>2. PICK n : n = After(r)
  OBVIOUS
<1>3. n = Idle \/ Tested(n)
  <2>1. CASE Len(r.todo) = 1
    BY <1>1, <1>2, <2>1, Advance
  <2>2. CASE Len(r.todo) # 1
    <3>1. After(r) = Rest(r)
      BY <1>1, <2>2, Advance
    <3>2. TestFact(r, r.todo[1]) /\ r.todo[1] \notin {"slug", "rows"}
      BY DEF TestFact, Bumps
    <3> QED BY <1>1, <1>2, <2>2, <3>1, <3>2, TestedRest
  <2> QED BY <2>1, <2>2
<1>4. req' = [req EXCEPT ![h] = n]
  BY <1>2 DEF Proceed
<1> QED BY <1>1, <1>3, <1>4, AlignedTest

\* Any statement of a request that is alone.
LEMMA StatementAligned ==
  ASSUME SeqCore, ReqOk, NEW h \in Handlers, Statement(h), UNCHANGED matching
  PROVE  Aligned
<1> PICK r : r = req[h]
  OBVIOUS
<1>1. CASE Name(h)
  <2>1. PICK ok \in BOOLEAN : ok = (Named(r.kind, r.name) \subseteq {r.id})
    OBVIOUS
  <2>2. Test(h, "name", ok) /\ (ok => TestFact(r, "name"))
    BY <1>1, <2>1 DEF Name, TestFact
  <2> QED BY <2>2, TestAligned
<1>2. CASE Category(h)
  <2>1. PICK ok \in BOOLEAN : ok = Live(r.category)
    BY DEF Live
  <2>2. Test(h, "category", ok) /\ (ok => TestFact(r, "category"))
    BY <1>2, <2>1 DEF Category, TestFact
  <2> QED BY <2>2, TestAligned
<1>3. CASE SlugFree(h)
  <2>1. PICK ok \in BOOLEAN : ok = (Slugged(r.kind, row[r.id].slug) \subseteq {r.id})
    OBVIOUS
  <2>2. Test(h, "slugFree", ok) /\ (ok => TestFact(r, "slugFree"))
    BY <1>3, <2>1 DEF SlugFree, TestFact
  <2> QED BY <2>2, TestAligned
<1>4. CASE Uses(h)
  <2>1. PICK ok \in BOOLEAN : ok = (r.id \notin Needed \cup linked)
    OBVIOUS
  <2>2. Test(h, "uses", ok) /\ (ok => TestFact(r, "uses"))
    BY <1>4, <2>1 DEF Uses, TestFact
  <2> QED BY <2>2, TestAligned
<1>5. CASE SkillsOf(h)
  <2>1. PICK ok \in BOOLEAN : ok = (InCategory(r.id) = {})
    OBVIOUS
  <2>2. Test(h, "skills", ok) /\ (ok => TestFact(r, "skills"))
    BY <1>5, <2>1 DEF SkillsOf, TestFact
  <2> QED BY <2>2, TestAligned
<1>6. CASE CompaniesOf(h)
  <2>1. PICK ok \in BOOLEAN : ok = (company # r.id)
    OBVIOUS
  <2>2. Test(h, "companies", ok) /\ (ok => TestFact(r, "companies"))
    BY <1>6, <2>1 DEF CompaniesOf, TestFact
  <2> QED BY <2>2, TestAligned
<1>7. CASE JobsOf(h)
  <2>1. PICK ok \in BOOLEAN : ok = (jobCat # r.id)
    OBVIOUS
  <2>2. Test(h, "jobs", ok) /\ (ok => TestFact(r, "jobs"))
    BY <1>7, <2>1 DEF JobsOf, TestFact
  <2> QED BY <2>2, TestAligned
<1>8. CASE AskedSkills(h)
  <2> DEFINE found == \A s \in Skills : r.ask[s] > 0 =>
                        Live(s) /\ (r.effective = None \/ row[s].category = r.effective)
  <2>1. PICK ok \in BOOLEAN : ok = found
    OBVIOUS
  <2>2. Test(h, "askedSkills", ok)
    BY <1>8, <2>1 DEF AskedSkills
  <2>3. ok => TestFact(r, "askedSkills")
    BY <2>1 DEF TestFact
  <2> QED BY <2>2, <2>3, TestAligned
<1>9. CASE BumpJob(h) \/ BumpCv(h)
  BY <1>9, GoesAligned DEF BumpJob, BumpCv, At, Bumps
<1>10. CASE Abort(h)
  <2>1. req' = [req EXCEPT ![h] = Idle] /\ UNCHANGED rows /\ req[h] # Idle
    BY <1>10 DEF Abort, End, rows
  <2> QED BY <2>1, AlignedTest DEF ReqOk
<1>11. CASE Parent(h)
  <2>1. PICK ok \in BOOLEAN : ok = (r.parent # r.id /\ Live(r.parent))
    BY DEF Live
  <2>2. Test(h, "parent", ok) /\ (ok => TestFact(r, "parent"))
    BY <1>11, <2>1 DEF Parent, TestFact
  <2> QED BY <2>2, TestAligned
<1> QED BY <1>1, <1>2, <1>3, <1>4, <1>5, <1>6, <1>7, <1>8, <1>9, <1>10, <1>11,
           FindSlugAligned, WriteAligned, DropAligned, RestoreAligned, SaveCompanyAligned,
           SaveJobAligned, ReadRowsAligned, PutSkillAligned, PruneSkillAligned DEF Statement

----------------------------------------------------------------------------
(* Steps of requests, calculations and analyses that are alone *)

\* Where there is room there is a free row.
LEMMA RoomIsFree ==
  ASSUME NEW K \in {Skills, Categories}, RoomFor(K)
  PROVE  Free(K) # {}
<1> DEFINE A == {h \in Handlers : req[h] # Idle /\ req[h].id = None /\ req[h].kind = K}
<1>1. IsFiniteSet(A)
  BY FS_Subset, ProcessesAssumption
<1>2. Cardinality(A) \in Nat
  BY <1>1, FS_CardinalityType
<1>3. Cardinality(A) < Cardinality(Free(K))
  BY DEF RoomFor
<1> QED BY <1>2, <1>3, FS_EmptySet

\* What a request that starts relies on.
LEMMA ArriveTested ==
  ASSUME TablesOK, NEW h \in Handlers, Arrive(h)
  PROVE  \E r : /\ req' = [req EXCEPT ![h] = r] /\ r # Idle /\ Tested(r)
                /\ UNCHANGED <<rows, version>> /\ req[h] = Idle
<1>1. ASSUME NEW r, NEW T, Starts(h, r, T), Tested(r)
      PROVE  \E q : req' = [req EXCEPT ![h] = q] /\ q # Idle /\ Tested(q)
                    /\ UNCHANGED <<rows, version>> /\ req[h] = Idle
  <2>1. r # Idle
    BY <1>1, PlannedSame DEF Starts, Same
  <2>2. req' = [req EXCEPT ![h] = r] /\ UNCHANGED <<rows, version>> /\ req[h] = Idle
    BY <1>1 DEF Starts, Begin
  <2> QED BY <1>1, <2>1, <2>2
<1>2. \A i \in Ids : /\ row[i] # None => row[i] \in Row
                     /\ Live(i) => row[i] \in Row
  BY RowOf
<1>3. ASSUME NEW K, NEW i, NEW n, NEW c, NEW p, NEW todo, NEW T,
             Starts(h, Request(K, i, n, c, p, todo), T)
      PROVE  /\ Range(Request(K, i, n, c, p, todo).todo) = T
             /\ Request(K, i, n, c, p, todo).kind = K /\ Request(K, i, n, c, p, todo).id = i
             /\ Request(K, i, n, c, p, todo).name = n
             /\ Request(K, i, n, c, p, todo).category = c
             /\ Request(K, i, n, c, p, todo).parent = p
             /\ Request(K, i, n, c, p, todo).k = 1
             /\ Request(K, i, n, c, p, todo).slug =
                 IF K = Skills /\ i # None THEN row[i].slug ELSE None
  BY <1>3 DEF Starts, Request
<1>4. CASE StartsCreateSkill(h)
  <2>0. PICK n \in Names, c \in Categories, p \in Skills \cup {None} : \E todo :
          Starts(h, Request(Skills, None, n, c, p, todo),
                 Maybe(p = None, "parent") \cup {"name", "category", "slug", "write"})
    BY <1>4 DEF StartsCreateSkill
  <2>1. PICK todo :
          Starts(h, Request(Skills, None, n, c, p, todo),
                 Maybe(p = None, "parent") \cup {"name", "category", "slug", "write"})
    BY <2>0
  <2>2. PICK r : r = Request(Skills, None, n, c, p, todo)
    OBVIOUS
  <2>3. /\ Range(r.todo) = Maybe(p = None, "parent") \cup {"name", "category", "slug", "write"}
        /\ r.kind = Skills /\ r.id = None
        /\ r.name = n /\ r.category = c /\ r.parent = p /\ r.k = 1 /\ r.slug = None
    BY <2>1, <2>2, <1>3
  <2>4. Free(Skills) # {}
    BY <1>4, RoomIsFree DEF StartsCreateSkill
  <2>5. Skills # Categories /\ c # None
    BY <2>4, IdsAreNot DEF Free
  <2>6. /\ {"name", "category", "slug"} \subseteq Range(r.todo)
        /\ "parent" \notin Range(r.todo) => p = None
        /\ Range(r.todo) \cap {"drop", "restore", "saveCompany", "saveJob", "put"} = {}
    BY <2>3 DEF Maybe
  <2> DEFINE T == Range(r.todo)
  <2> HIDE DEF T
  <2>7. WriteOk(r, T)
    BY <2>3, <2>4, <2>5, <2>6 DEF WriteOk, OpenParent, T
  <2>8. Tested(r)
    BY <2>6, <2>7 DEF Tested, T
  <2> QED BY <1>1, <2>1, <2>2, <2>8
<1>5. CASE StartsUpdateSkill(h)
  <2>0. PICK i \in LiveOf(Skills), n \in Names \cup {None}, c \in Categories \cup {None},
             p \in Skills \cup {Clear, None} : UpdatesSkill(h, i, n, c, p)
    BY <1>5, Zenon DEF StartsUpdateSkill
  <2>1. PICK todo :
          Starts(h, Request(Skills, i, n, c, p, todo), UpdateSteps(i, n, c, p))
    BY <2>0, Zenon DEF UpdatesSkill
  <2>2. PICK r : r = Request(Skills, i, n, c, p, todo)
    OBVIOUS
  <2>3. i \in Skills /\ i \in Ids /\ Live(i) /\ i # None /\ Skills # Categories
    BY IdsAreNot DEF LiveOf, Ids
  <2>4. /\ Range(r.todo) = Maybe(n = None, "name") \cup Maybe(c = None, "category")
                           \cup ParentTest(p) \cup Maybe(KeepsName(i, n), "slug")
                           \cup {"write", "bumpJob", "bumpCv"}
        /\ r.kind = Skills /\ r.id = i
        /\ r.name = n /\ r.category = c /\ r.parent = p /\ r.k = 1 /\ r.slug = row[i].slug
    BY <2>1, <2>2, <2>3, <1>3 DEF UpdateSteps
  <2>5. row[i].slug \in Range(Base) \X Nat
    BY <1>2, <2>3 DEF Row
  <2>6. /\ "slug" \in Range(r.todo) => n # None
        /\ "category" \notin Range(r.todo) => c = None
        /\ "parent" \notin Range(r.todo) => p \in {None, Clear}
        /\ Range(r.todo) \cap {"drop", "restore", "saveCompany", "saveJob", "put"} = {}
    <3>1. n = None => KeepsName(i, n)
      BY DEF KeepsName
    <3>2. "slug" \in Range(r.todo) => n # None
      BY <2>4, <3>1 DEF Maybe, ParentTest
    <3>3. "category" \notin Range(r.todo) => c = None
      BY <2>4 DEF Maybe
    <3>4. "parent" \notin Range(r.todo) => p \in {None, Clear}
      BY <2>4 DEF ParentTest
    <3>5. Range(r.todo) \cap {"drop", "restore", "saveCompany", "saveJob", "put"} = {}
      BY <2>4 DEF Maybe, ParentTest
    <3> QED BY <3>2, <3>3, <3>4, <3>5
  <2> DEFINE T == Range(r.todo)
  <2> HIDE DEF T
  <2>7. WriteOk(r, T)
    BY <2>3, <2>4, <2>5, <2>6 DEF WriteOk, OpenCategory, OpenParent, T
  <2>8. Tested(r)
    BY <2>6, <2>7 DEF Tested, T
  <2> QED BY <1>1, <2>1, <2>2, <2>8
<1>6. CASE StartsDeleteSkill(h)
  <2>0. PICK i \in LiveOf(Skills) : \E todo :
          Starts(h, Request(Skills, i, None, None, None, todo), {"uses", "drop"})
    BY <1>6 DEF StartsDeleteSkill
  <2>1. PICK todo :
          Starts(h, Request(Skills, i, None, None, None, todo), {"uses", "drop"})
    BY <2>0
  <2>2. PICK r : r = Request(Skills, i, None, None, None, todo)
    OBVIOUS
  <2>3. i \in Skills /\ i \in Ids /\ Live(i) /\ i \notin Categories
    BY IdsAreNot DEF LiveOf, Ids
  <2>4. Range(r.todo) = {"uses", "drop"} /\ r.id = i
    BY <2>1, <2>2, <1>3
  <2>5. Tested(r)
    BY <2>3, <2>4 DEF Tested, DropOk
  <2> QED BY <1>1, <2>1, <2>2, <2>5
<1>7. CASE StartsRestoreSkill(h)
  <2>0. PICK i \in Skills : \E todo :
          /\ row[i] # None /\ ~ Live(i)
          /\ Starts(h, Request(Skills, i, row[i].name, row[i].category, None, todo),
                    {"category", "name", "slugFree", "restore"})
    BY <1>7 DEF StartsRestoreSkill
  <2>1. PICK todo :
          /\ row[i] # None /\ ~ Live(i)
          /\ Starts(h, Request(Skills, i, row[i].name, row[i].category, None, todo),
                    {"category", "name", "slugFree", "restore"})
    BY <2>0
  <2>2. PICK r : r = Request(Skills, i, row[i].name, row[i].category, None, todo)
    OBVIOUS
  <2>3. i \in Ids /\ i \notin Categories
    BY IdsAreNot DEF Ids
  <2>4. /\ Range(r.todo) = {"category", "name", "slugFree", "restore"} /\ r.kind = Skills
        /\ r.id = i /\ r.name = row[i].name /\ r.category = row[i].category
    BY <2>1, <2>2, <1>3
  <2>5. Tested(r)
    BY <2>1, <2>3, <2>4 DEF Tested, RestoreOk
  <2> QED BY <1>1, <2>1, <2>2, <2>5
<1>8. CASE StartsCreateCategory(h)
  <2>0. PICK n \in Names : \E todo :
          Starts(h, Request(Categories, None, n, None, None, todo), {"name", "slug", "write"})
    BY <1>8 DEF StartsCreateCategory
  <2>1. PICK todo :
          Starts(h, Request(Categories, None, n, None, None, todo), {"name", "slug", "write"})
    BY <2>0
  <2>2. PICK r : r = Request(Categories, None, n, None, None, todo)
    OBVIOUS
  <2>3. /\ Range(r.todo) = {"name", "slug", "write"} /\ r.kind = Categories /\ r.id = None
        /\ r.name = n /\ r.category = None /\ r.parent = None /\ r.k = 1 /\ r.slug = None
    BY <2>1, <2>2, <1>3
  <2>4. Free(Categories) # {}
    BY <1>8, RoomIsFree DEF StartsCreateCategory
  <2>5. Skills # Categories
    BY <2>4, IdsAreNot DEF Free
  <2>6. WriteOk(r, Range(r.todo))
    BY <2>3, <2>4, <2>5 DEF WriteOk
  <2>7. Tested(r)
    BY <2>3, <2>6 DEF Tested
  <2> QED BY <1>1, <2>1, <2>2, <2>7
<1>9. CASE StartsUpdateCategory(h)
  <2>0. PICK i \in LiveOf(Categories), n \in Names : \E todo :
          Starts(h, Request(Categories, i, n, None, None, todo),
            {"name"} \cup Maybe(n = row[i].name, "slug") \cup {"write", "bumpJob"})
    BY <1>9 DEF StartsUpdateCategory
  <2>1. PICK todo :
          Starts(h, Request(Categories, i, n, None, None, todo),
            {"name"} \cup Maybe(n = row[i].name, "slug") \cup {"write", "bumpJob"})
    BY <2>0
  <2>2. PICK r : r = Request(Categories, i, n, None, None, todo)
    OBVIOUS
  <2>3. i \in Categories /\ i \in Ids /\ Live(i) /\ i # None /\ Skills # Categories
    BY IdsAreNot DEF LiveOf, Ids
  <2>4. /\ Range(r.todo) = {"name"} \cup Maybe(n = row[i].name, "slug") \cup {"write", "bumpJob"}
        /\ r.kind = Categories /\ r.id = i
        /\ r.name = n /\ r.category = None /\ r.parent = None /\ r.k = 1 /\ r.slug = None
    BY <2>1, <2>2, <2>3, <1>3
  <2>5. /\ "name" \in Range(r.todo)
        /\ Range(r.todo) \cap {"drop", "restore", "saveCompany", "saveJob", "put"} = {}
    BY <2>4 DEF Maybe
  <2> DEFINE T == Range(r.todo)
  <2> HIDE DEF T
  <2>6. WriteOk(r, T)
    BY <2>3, <2>4, <2>5 DEF WriteOk, T
  <2>7. Tested(r)
    BY <2>5, <2>6 DEF Tested, T
  <2> QED BY <1>1, <2>1, <2>2, <2>7
<1>10. CASE StartsDeleteCategory(h)
  <2>0. PICK i \in LiveOf(Categories) : \E todo :
          Starts(h, Request(Categories, i, None, None, None, todo),
                 {"skills", "companies", "jobs", "drop"})
    BY <1>10 DEF StartsDeleteCategory
  <2>1. PICK todo :
          Starts(h, Request(Categories, i, None, None, None, todo),
                 {"skills", "companies", "jobs", "drop"})
    BY <2>0
  <2>2. PICK r : r = Request(Categories, i, None, None, None, todo)
    OBVIOUS
  <2>3. i \in Categories /\ i \in Ids /\ Live(i) /\ i \notin Skills
    BY IdsAreNot DEF LiveOf, Ids
  <2>4. Range(r.todo) = {"skills", "companies", "jobs", "drop"} /\ r.id = i
    BY <2>1, <2>2, <1>3
  <2>5. Tested(r)
    BY <2>3, <2>4 DEF Tested, DropOk
  <2> QED BY <1>1, <2>1, <2>2, <2>5
<1>11. CASE StartsRestoreCategory(h)
  <2>0. PICK i \in Categories : \E todo :
          /\ row[i] # None /\ ~ Live(i)
          /\ Starts(h, Request(Categories, i, row[i].name, None, None, todo),
                    {"name", "slugFree", "restore"})
    BY <1>11 DEF StartsRestoreCategory
  <2>1. PICK todo :
          /\ row[i] # None /\ ~ Live(i)
          /\ Starts(h, Request(Categories, i, row[i].name, None, None, todo),
                    {"name", "slugFree", "restore"})
    BY <2>0
  <2>2. PICK r : r = Request(Categories, i, row[i].name, None, None, todo)
    OBVIOUS
  <2>3. i \in Ids /\ i \notin Skills
    BY IdsAreNot DEF Ids
  <2>4. /\ Range(r.todo) = {"name", "slugFree", "restore"} /\ r.kind = Categories
        /\ r.id = i /\ r.name = row[i].name
    BY <2>1, <2>2, <1>3
  <2>5. Tested(r)
    BY <2>1, <2>3, <2>4 DEF Tested, RestoreOk
  <2> QED BY <1>1, <2>1, <2>2, <2>5
<1>12. CASE StartsUpdateCompany(h)
  <2>0. PICK c \in Categories \cup {None} : \E todo :
          Starts(h, Request({}, None, None, c, None, todo),
                 Maybe(c = None, "category") \cup {"saveCompany"})
    BY <1>12 DEF StartsUpdateCompany
  <2>1. PICK todo :
          Starts(h, Request({}, None, None, c, None, todo),
                 Maybe(c = None, "category") \cup {"saveCompany"})
    BY <2>0
  <2>2. PICK r : r = Request({}, None, None, c, None, todo)
    OBVIOUS
  <2>3. Range(r.todo) = Maybe(c = None, "category") \cup {"saveCompany"} /\ r.category = c
    BY <2>1, <2>2, <1>3
  <2>4. /\ "category" \in Range(r.todo) \/ c = None
        /\ Range(r.todo) \cap {"write", "drop", "restore", "saveJob", "put"} = {}
    BY <2>3 DEF Maybe
  <2>5. Tested(r)
    BY <2>3, <2>4 DEF Tested, RefersOk, OpenCategory
  <2> QED BY <1>1, <2>1, <2>2, <2>5
<1>13. CASE StartsUpdateJob(h)
  <2>0. PICK c \in Categories \cup {None}, ask \in [Skills -> {0} \cup Weights] \cup {None},
             clears \in BOOLEAN, twice \in BOOLEAN : \E todo :
          Starts(h, JobSave(c, clears, ask, twice, todo),
            Maybe(c = None, "category") \cup Maybe(ask = None, "askedSkills")
            \cup (IF ask = None THEN {} ELSE {"rows", "put", "prune"}) \cup {"saveJob", "bumpJob"})
    BY <1>13 DEF StartsUpdateJob
  <2>1. PICK todo :
          Starts(h, JobSave(c, clears, ask, twice, todo),
            Maybe(c = None, "category") \cup Maybe(ask = None, "askedSkills")
            \cup (IF ask = None THEN {} ELSE {"rows", "put", "prune"}) \cup {"saveJob", "bumpJob"})
    BY <2>0
  <2>2. PICK r : r = JobSave(c, clears, ask, twice, todo)
    OBVIOUS
  <2>3. /\ Range(r.todo) = Maybe(c = None, "category") \cup Maybe(ask = None, "askedSkills")
             \cup (IF ask = None THEN {} ELSE {"rows", "put", "prune"}) \cup {"saveJob", "bumpJob"}
        /\ r.category = c /\ r.ask = ask
    BY <2>1, <2>2 DEF Starts, JobSave
  <2>4. /\ "category" \in Range(r.todo) \/ c = None
        /\ "put" \in Range(r.todo) => ask # None /\ {"askedSkills", "rows"} \subseteq Range(r.todo)
        /\ Range(r.todo) \cap {"write", "drop", "restore", "saveCompany"} = {}
    BY <2>3 DEF Maybe
  <2>5. Tested(r)
    BY <2>3, <2>4 DEF Tested, RefersOk, OpenCategory, SyncOk
  <2> QED BY <1>1, <2>1, <2>2, <2>5
<1> QED BY <1>4, <1>5, <1>6, <1>7, <1>8, <1>9, <1>10, <1>11, <1>12, <1>13, Arrivals

\* At most one is in flight.
LEMMA OneInFlight ==
  ASSUME ~ (InFlight' > 1)
  PROVE  Alone'
<1>1. PICK w \in BOOLEAN : w = (worker' = Idle)
  OBVIOUS
<1>2. ~ (Cardinality({h \in Handlers : req'[h] # Idle})
         + Cardinality({k \in Calculators : calc'[k] # Idle}) + (IF w THEN 0 ELSE 1) > 1)
  BY <1>1 DEF InFlight, Idle
<1>3. /\ \A g, h \in Handlers : req'[g] # Idle /\ req'[h] # Idle => g = h
      /\ \A k, l \in Calculators : calc'[k] # Idle /\ calc'[l] # Idle => k = l
      /\ \A h \in Handlers : req'[h] # Idle => w /\ \A k \in Calculators : calc'[k] = Idle
      /\ \A k \in Calculators : calc'[k] # Idle => w
  BY <1>2, AloneFromInFlight
<1> QED BY <1>1, <1>3 DEF Alone

\* What stays as it is stays sound.
LEMMA RowsStaySound ==
  ASSUME SeqCore, UNCHANGED rows, Alone', WorkerOk',
         \A h \in Handlers : req'[h] # Idle => req'[h] = req[h] \/ Tested(req'[h])
  PROVE  SeqCore'
<1>1. TablesOK' /\ CatalogueIsSound'
  BY RowsStay DEF SeqCore
<1>2. ASSUME NEW h \in Handlers, req'[h] # Idle
      PROVE  Tested(req[h])'
  <2>1. PICK n : n = req'[h]
    OBVIOUS
  <2>2. Tested(n)
    BY <1>2, <2>1 DEF SeqCore
  <2>3. Tested(n)'
    BY <2>2, TestedStays
  <2> QED BY <2>1, <2>3 DEF Tested, WriteOk, DropOk, RestoreOk, RefersOk, SyncOk, OpenParent
<1> QED BY <1>1, <1>2 DEF SeqCore

\* Whatever starts relies on nothing yet.
LEMMA ArrivalSound ==
  ASSUME SeqCore, ReqOk, DOMAIN calc = Calculators, Arrival, Alone'
  PROVE  SeqCore'
<1>1. ASSUME NEW h \in Handlers, Arrive(h), UNCHANGED matching
      PROVE  SeqCore'
  <2>1. PICK r : req' = [req EXCEPT ![h] = r] /\ Tested(r) /\ UNCHANGED <<rows, version>>
    BY <1>1, ArriveTested DEF SeqCore
  <2>2. \A g \in Handlers : req'[g] = req[g] \/ Tested(req'[g])
    BY <2>1 DEF ReqOk
  <2>3. WorkerOk'
    BY <1>1, <2>1 DEF WorkerOk, SeqCore, matching, rows, LiveOf, Live
  <2> QED BY <2>1, <2>2, <2>3, RowsStaySound
<1>2. CASE StartAnalysis
  <2>1. UNCHANGED rows /\ req' = req
    BY <1>2 DEF StartAnalysis, vars, rows
  <2>2. WorkerOk'
    BY <1>2 DEF StartAnalysis, WorkerOk
  <2> QED BY <2>1, <2>2, RowsStaySound
<1>3. ASSUME NEW k \in Calculators, ReadJob(k)
      PROVE  SeqCore'
  <2>1. UNCHANGED rows /\ req' = req /\ worker' = worker
    BY <1>3 DEF ReadJob, vars, rows
  <2>2. WorkerOk'
    BY <2>1 DEF WorkerOk, SeqCore, rows, LiveOf, Live
  <2> QED BY <2>1, <2>2, RowsStaySound
<1> QED BY <1>1, <1>2, <1>3 DEF Arrival

\* A calculation only reads.
LEMMA Calculates ==
  ASSUME DOMAIN calc = Calculators, NEW k \in Calculators, Calculate(k)
  PROVE  /\ calc[k] # Idle
         /\ \A l \in Calculators : l # k => calc'[l] = calc[l]
         /\ UNCHANGED <<rows, version, req, spoilt, parsed, worker>>
<1>1. calc[k] # Idle
  BY DEF Calculate, ReadParsed, ReadJobVersion, ReadCvVersion, ReadCached, ReadLinks, ReadSkills,
     ReadCategory, FindMatch, SaveMatch, StoreResult, AbortCalculation, CalcAt
<1>2. UNCHANGED <<rows, version, req, spoilt, parsed, worker>>
  BY DEF Calculate, ReadParsed, ReadJobVersion, ReadCvVersion, ReadCached, ReadLinks, ReadSkills,
     ReadCategory, FindMatch, SaveMatch, StoreResult, AbortCalculation, Learn, vars, rows
<1>3. \E n : calc' = [calc EXCEPT ![k] = n]
  BY DEF Calculate, ReadParsed, ReadJobVersion, ReadCvVersion, ReadCached, ReadLinks, ReadSkills,
     ReadCategory, FindMatch, SaveMatch, StoreResult, AbortCalculation, Learn
<1> QED BY <1>1, <1>2, <1>3

\* A calculation.
LEMMA CalculateSound ==
  ASSUME SeqCore, DOMAIN calc = Calculators, NEW k \in Calculators, Calculate(k)
  PROVE  SeqCore'
<1>1. /\ calc[k] # Idle /\ \A l \in Calculators : l # k => calc'[l] = calc[l]
      /\ UNCHANGED <<rows, req, worker>>
  BY Calculates
<1>2. worker = Idle /\ (\A h \in Handlers : req[h] = Idle)
      /\ \A l \in Calculators : l # k => calc[l] = Idle
  BY <1>1 DEF SeqCore, Alone
<1>3. Alone' /\ WorkerOk'
  BY <1>1, <1>2 DEF Alone, WorkerOk
<1> QED BY <1>1, <1>2, <1>3, RowsStaySound

\* A step of the analysis.
LEMMA AnalyseSound ==
  ASSUME SeqCore, Analyse
  PROVE  SeqCore'
<1>1. worker # Idle /\ req' = req /\ calc' = calc
  BY DEF Analyse, BuildRequest, Answer, Complete, ClearSkills, FindSkill, LinkSkill,
     BumpAnalysis, FailAnalysis, WorkerAt, vars
<1>2. (\A h \in Handlers : req[h] = Idle) /\ (\A k \in Calculators : calc[k] = Idle)
  BY <1>1 DEF SeqCore, Alone
<1>3. Alone'
  BY <1>1, <1>2 DEF Alone
<1>4. TablesOK /\ CatalogueIsSound /\ WorkerOk
  BY DEF SeqCore
<1>5. ASSUME UNCHANGED rows, WorkerOk'
      PROVE  SeqCore'
  BY <1>1, <1>2, <1>3, <1>5, RowsStaySound
<1>6. ASSUME UNCHANGED <<row, jobCat, needs, company>>, linked' \subseteq LiveOf(Skills), WorkerOk'
      PROVE  SeqCore'
  <2>1. /\ {jobCat, company} \subseteq LiveOf(Categories) \cup {None}
        /\ needs \in [Skills -> [weight : {0} \cup Weights, rows : Nat]]
        /\ Needed' = Needed /\ Needed \cup linked \subseteq LiveOf(Skills)
    BY <1>4, <1>6 DEF TablesOK, CatalogueIsSound, Needed
  <2>2. TablesOK' /\ CatalogueIsSound'
    BY <1>4, <1>6, <2>1, ReferSound
  <2> QED BY <1>1, <1>2, <1>3, <1>6, <2>2 DEF SeqCore
<1>7. CASE BuildRequest
  <2>1. UNCHANGED rows
    BY <1>7 DEF BuildRequest, vars, rows
  <2>2. worker'.at = "answer" /\ "at" \in DOMAIN worker'
    BY <1>7 DEF BuildRequest
  <2> QED BY <1>5, <2>1, <2>2 DEF WorkerOk
<1>8. CASE Answer
  <2>1. UNCHANGED rows
    BY <1>8 DEF Answer, vars, rows
  <2>2. worker' = Idle \/ \E o, n, s, c, m, l :
          worker' = [at |-> "complete", skill |-> None, offered |-> o, named |-> n, skills |-> s,
                     category |-> c, months |-> m, listed |-> l]
    BY <1>8 DEF Answer, GiveUp
  <2> QED BY <1>5, <2>1, <2>2 DEF WorkerOk
<1>9. CASE Complete
  <2>1. UNCHANGED rows
    BY <1>9 DEF Complete, vars, rows
  <2>2. worker' = [worker EXCEPT !.at = "clear"] /\ "at" \in DOMAIN worker
        /\ "skill" \in DOMAIN worker
    BY <1>4, <1>9 DEF Complete, WorkerAt, WorkerOk
  <2> QED BY <1>5, <2>1, <2>2 DEF WorkerOk
<1>10. CASE ClearSkills
  <2>1. UNCHANGED <<row, jobCat, needs, company>> /\ linked' = {}
    BY <1>10 DEF ClearSkills
  <2>2. worker' = [worker EXCEPT !.at = "find"] /\ "at" \in DOMAIN worker
        /\ "skill" \in DOMAIN worker
    BY <1>4, <1>10 DEF ClearSkills, WorkerAt, WorkerOk
  <2> QED BY <1>6, <2>1, <2>2 DEF WorkerOk
<1>11. CASE FindSkill
  <2>1. UNCHANGED rows /\ row' = row
    BY <1>11 DEF FindSkill, vars, rows
  <2>2. "at" \in DOMAIN worker /\ "skill" \in DOMAIN worker /\ worker.at = "find"
    BY <1>4, <1>11 DEF FindSkill, WorkerAt, WorkerOk
  <2>3. \/ worker' = [worker EXCEPT !.at = "bump"]
        \/ worker' = [worker EXCEPT !.skills = Tail(@)]
        \/ \E s \in LiveOf(Skills) : worker' = [worker EXCEPT !.at = "link", !.skill = s]
    <3> DEFINE found == Slugged(Skills, Head(worker.skills).slug)
    <3>1. found # {} => (CHOOSE s \in found : TRUE) \in LiveOf(Skills)
      BY DEF Slugged
    <3> QED BY <1>11, <3>1 DEF FindSkill
  <2>4. LiveOf(Skills)' = LiveOf(Skills)
    BY <2>1 DEF LiveOf, Live
  <2>5. WorkerOk'
    <3>1. CASE worker' = [worker EXCEPT !.at = "bump"]
      BY <2>2, <3>1 DEF WorkerOk
    <3>2. CASE worker' = [worker EXCEPT !.skills = Tail(@)]
      BY <2>2, <3>2 DEF WorkerOk
    <3>3. ASSUME NEW s \in LiveOf(Skills), worker' = [worker EXCEPT !.at = "link", !.skill = s]
          PROVE  WorkerOk'
      BY <2>2, <2>4, <3>3 DEF WorkerOk
    <3> QED BY <2>3, <3>1, <3>2, <3>3
  <2> QED BY <1>5, <2>1, <2>5
<1>12. CASE LinkSkill
  <2>1. UNCHANGED <<row, jobCat, needs, company>>
    BY <1>12 DEF LinkSkill
  <2>2. /\ "at" \in DOMAIN worker /\ "skill" \in DOMAIN worker
        /\ worker.at = "link" /\ worker.skill \in LiveOf(Skills)
    BY <1>4, <1>12 DEF LinkSkill, WorkerAt, WorkerOk
  <2>3. linked' \subseteq LiveOf(Skills)
    BY <1>4, <1>12, <2>2 DEF LinkSkill, CatalogueIsSound
  <2>4. worker' = Idle \/ worker' = [worker EXCEPT !.at = "find", !.skills = Tail(@), !.skill = None]
    BY <1>12 DEF LinkSkill, GiveUp
  <2>5. WorkerOk'
    BY <2>2, <2>4 DEF WorkerOk
  <2> QED BY <1>6, <2>1, <2>3, <2>5
<1>13. CASE BumpAnalysis
  <2>1. UNCHANGED rows /\ worker' = Idle
    BY <1>13 DEF BumpAnalysis, rows
  <2> QED BY <1>5, <2>1 DEF WorkerOk
<1>14. CASE FailAnalysis
  <2>1. UNCHANGED rows /\ worker' = Idle
    BY <1>14 DEF FailAnalysis, GiveUp, rows
  <2> QED BY <1>5, <2>1 DEF WorkerOk
<1> QED BY <1>7, <1>8, <1>9, <1>10, <1>11, <1>12, <1>13, <1>14 DEF Analyse

\* The invariant of the catalogue.
SeqStep == (~ overlapped => SeqCore)

\* The invariant of the catalogue holds at first,
LEMMA InitSound == WatchedInit => SeqStep
<1>1. WatchedInit => SeqCore
  BY DEF WatchedInit, Init, SeqCore, Alone, WorkerOk
<1> QED BY <1>1 DEF SeqStep

\* and is kept by the steps that leave requests apart.
LEMMA SoundStep == SkillInv /\ SeqStep /\ [Watched]_mcVars => SeqStep'
<1> SUFFICES ASSUME SkillInv, SeqStep, [Watched]_mcVars, ~ overlapped' PROVE SeqCore'
  BY DEF SeqStep
<1>1. ReqOk /\ DOMAIN calc = Calculators
  BY DEF SkillInv
<1>2. CASE Arrival /\ overlapped' = (overlapped \/ InFlight' > 1)
  BY <1>1, <1>2, OneInFlight, ArrivalSound DEF SeqStep
<1>3. CASE Step /\ UNCHANGED <<begun, overlapped>>
  <2>1. SeqCore
    BY <1>3 DEF SeqStep
  <2>2. ASSUME NEW h \in Handlers, Statement(h), UNCHANGED matching
        PROVE  SeqCore'
    BY <1>1, <2>1, <2>2, StatementAligned DEF Aligned
  <2>3. ASSUME NEW k \in Calculators, Calculate(k)
        PROVE  SeqCore'
    BY <1>1, <2>1, <2>3, CalculateSound
  <2> QED BY <1>3, <2>1, <2>2, <2>3, AnalyseSound DEF Step
<1>4. CASE UNCHANGED mcVars
  <2>1. /\ overlapped' = overlapped /\ UNCHANGED rows /\ req' = req /\ calc' = calc
        /\ worker' = worker /\ row' = row
    BY <1>4 DEF mcVars, allVars, vars, matching, rows
  <2>2. SeqCore
    BY <2>1 DEF SeqStep
  <2>3. Alone' /\ WorkerOk'
    BY <2>1, <2>2 DEF SeqCore, Alone, WorkerOk, LiveOf, Live
  <2> QED BY <2>1, <2>2, <2>3, RowsStaySound
<1> QED BY <1>2, <1>3, <1>4 DEF Watched, Arrives, Works

\* When requests run one at a time the categories of a job, a company and a
\* skill and the skills of a job and a CV are live, the parent of a skill is
\* another skill that is or was there, and no two live categories have one
\* name, no two of all one slug: each statement of the skill, career category
\* and job use cases may rely on the tests before it, and of slugs on the
\* index.
THEOREM SoundInSequence == WatchedSpec => []CatalogueIsSoundInSequence
<1>1. SkillInv /\ SeqStep => CatalogueIsSoundInSequence
  BY DEF SeqStep, SeqCore, CatalogueIsSoundInSequence
<1> QED BY <1>1, SkillInit, InitSound, SkillStep, SoundStep, PTL DEF WatchedSpec

----------------------------------------------------------------------------
(* Matches, one request at a time *)

\* What a calculation knows is so, and its result is the one it would come to.
Knows(r) ==
  /\ "at" \in DOMAIN r
  /\ r.at \in {"jobVersion", "cvVersion", "cached", "links", "skills", "category"} =>
       "parsed" \in DOMAIN r /\ r.parsed = parsed /\ parsed.status = "completed"
  /\ r.at \in {"parsed", "jobVersion", "cvVersion", "cached", "links", "skills", "category"} =>
       "jobCat" \in DOMAIN r /\ r.jobCat = jobCat
  /\ r.at \in HasJob => "job" \in DOMAIN r /\ r.job = version.job
  /\ r.at \in HasCv => "cv" \in DOMAIN r /\ r.cv = version.cv
  /\ r.at \in {"skills", "category"} =>
       {"has", "weight"} \subseteq DOMAIN r /\ r.has = linked /\ r.weight = WeightsOf(needs)
  /\ r.at = "category" =>
       /\ r.hasSkill = (jobCat # None /\ InCategory(jobCat) \cap linked # {})
       /\ r.words = NamesOf(Needed)
  /\ r.at \in HasResult => "result" \in DOMAIN r /\ r.result = Current
  /\ r.at = "save" => r.old = IF match = <<>> THEN 0 ELSE 1
  /\ r.at = "store" => match = <<r.result>>

\* What is saved and what Redis has, while requests run one at a time.
MatchCore ==
  /\ match = <<>> \/ match = <<match[1]>>
  /\ Fresh(cached.job, cached.cv) => cached.result = Current /\ match = <<cached.result>>
  /\ \A k \in Calculators : calc[k] # Idle => Knows(calc[k])

\* The invariant of matches.
MatchStep == ~ overlapped /\ ~ spoilt => MatchCore

\* A step after which nothing is fresh that was not, and matches are the same.
LEMMA MatchKept ==
  ASSUME MatchCore, UNCHANGED <<cached, match>>,
         Fresh(cached.job, cached.cv)' => Fresh(cached.job, cached.cv) /\ Current' = Current,
         \A k \in Calculators : calc'[k] = Idle
  PROVE  MatchCore'
BY DEF MatchCore

\* Nothing a calculation reads has changed.
Reading == UNCHANGED <<rows, version, req, spoilt, parsed, worker>>

\* A step that leaves the rows alone leaves what a calculation knows so.
LEMMA ReadingKnows ==
  ASSUME Reading
  PROVE  /\ Current' = Current
         /\ \A j, c : Fresh(j, c)' = Fresh(j, c)
         /\ \A n : match' = match /\ Knows(n) => Knows(n)'
<1>1. /\ row' = row /\ jobCat' = jobCat /\ needs' = needs /\ linked' = linked
      /\ version' = version /\ req' = req /\ spoilt' = spoilt /\ parsed' = parsed
      /\ worker' = worker
  BY DEF Reading, rows
<1>2. Current' = Current
  BY <1>1, RowsStay DEF Reading
<1>3. \A j, c : Fresh(j, c)' = Fresh(j, c)
  BY <1>1 DEF Fresh, Quiet, Owes
<1>4. ASSUME NEW n, match' = match, Knows(n)
      PROVE  Knows(n)'
  <2>1. /\ WeightsOf(needs)' = WeightsOf(needs) /\ InCategory(jobCat)' = InCategory(jobCat)
        /\ NamesOf(Needed)' = NamesOf(Needed)
    BY <1>1 DEF WeightsOf, InCategory, NamesOf, Needed, LiveOf, Live
  <2> QED BY <1>1, <1>2, <1>4, <2>1 DEF Knows
<1> QED BY <1>2, <1>3, <1>4

\* A step of the calculation at work that saves nothing.
LEMMA CalcKnows ==
  ASSUME MatchCore, Reading, DOMAIN calc = Calculators, NEW k \in Calculators, NEW n,
         calc' = [calc EXCEPT ![k] = n], n = Idle \/ Knows(n),
         \A l \in Calculators : l # k => calc[l] = Idle,
         UNCHANGED <<cached, match>>
  PROVE  MatchCore'
<1>1. /\ match' = <<>> \/ match' = <<match'[1]>>
      /\ Fresh(cached.job, cached.cv)' => cached'.result = Current' /\ match' = <<cached'.result>>
  BY ReadingKnows DEF MatchCore
<1>2. \A l \in Calculators : calc'[l] # Idle => Knows(calc[l])'
  <2> SUFFICES ASSUME NEW l \in Calculators, calc'[l] # Idle PROVE Knows(calc[l])'
    OBVIOUS
  <2>1. l = k /\ calc'[l] = n
    OBVIOUS
  <2>2. Knows(n)'
    BY <2>1, ReadingKnows
  <2> QED BY <2>1, <2>2 DEF Knows
<1> QED BY <1>1, <1>2 DEF MatchCore

\* Every step of a calculation that is alone: it comes to the match there
\* is, saves it and puts that into Redis.
LEMMA CalculateKnows ==
  ASSUME SeqCore, SkillInv, MatchCore, ~ spoilt, NEW k \in Calculators, Calculate(k)
  PROVE  MatchCore'
<1> PICK r : r = calc[k]
  OBVIOUS
<1>1. /\ DOMAIN calc = Calculators /\ version.job \in Nat /\ version.cv \in Nat
      /\ cached.job \in Int /\ cached.job <= version.job
      /\ cached.cv \in Int /\ cached.cv <= version.cv
  BY DEF SkillInv
<1>2. r # Idle /\ Reading
  BY <1>1, Calculates DEF Reading
<1>3. /\ worker = Idle /\ (\A h \in Handlers : req[h] = Idle)
      /\ \A l \in Calculators : l # k => calc[l] = Idle
  BY <1>2 DEF SeqCore, Alone
<1>4. Quiet
  BY <1>3 DEF Quiet
<1>5. Knows(r)
  BY <1>2 DEF MatchCore
<1>6. ASSUME NEW n, calc' = [calc EXCEPT ![k] = n], n = Idle \/ Knows(n), UNCHANGED <<cached, match>>
      PROVE  MatchCore'
  BY <1>1, <1>2, <1>3, <1>6, CalcKnows
<1>7. ASSUME NEW at, NEW what, Learn(k, at, what), "at" \notin DOMAIN what,
             \A n : Extended(n, r, at, what) => Knows(n)
      PROVE  MatchCore'
  <2> DEFINE n == With([r EXCEPT !.at = at], what)
  <2>1. calc' = [calc EXCEPT ![k] = n] /\ UNCHANGED <<cached, match>>
    BY <1>7 DEF Learn
  <2>2. "at" \in DOMAIN r
    BY <1>5 DEF Knows
  <2>3. Extended(n, r, at, what)
    BY <1>7, <2>2, Learned
  <2>4. PICK m : m = n
    OBVIOUS
  <2> HIDE DEF n
  <2>5. Knows(m)
    BY <1>7, <2>3, <2>4
  <2> QED BY <2>1, <2>4, <2>5, <1>6
<1> DEFINE Basics == {"parsed", "jobVersion", "cvVersion", "cached", "links", "skills", "category"}
<1>8. /\ "at" \in DOMAIN r
      /\ r.at \in Basics => "jobCat" \in DOMAIN r /\ r.jobCat = jobCat
      /\ r.at \in Basics \ {"parsed"} =>
           "parsed" \in DOMAIN r /\ r.parsed = parsed /\ parsed.status = "completed"
      /\ r.at \in HasJob => "job" \in DOMAIN r /\ r.job = version.job
      /\ r.at \in HasCv => "cv" \in DOMAIN r /\ r.cv = version.cv
  BY <1>5 DEF Knows
<1>9. CASE ReadParsed(k)
  <2>1. r.at = "parsed"
    BY <1>9 DEF ReadParsed, CalcAt
  <2>2. CASE parsed.status = "completed"
    <3>1. Learn(k, "jobVersion", [parsed |-> parsed])
      BY <1>9, <2>2 DEF ReadParsed
    <3>2. ASSUME NEW n, Extended(n, r, "jobVersion", [parsed |-> parsed])
          PROVE  Knows(n)
      <4>1. n.parsed = parsed /\ n.jobCat = jobCat /\ {"at", "parsed", "jobCat"} \subseteq DOMAIN n
            /\ n.at = "jobVersion"
        BY <1>8, <2>1, <3>2 DEF Extended
      <4> QED BY <4>1, <2>2 DEF Knows, HasJob, HasCv, HasResult
    <3> QED BY <3>1, <3>2, <1>7
  <2>3. CASE parsed.status # "completed"
    BY <1>9, <2>3, <1>6 DEF ReadParsed
  <2> QED BY <2>2, <2>3
<1>10. CASE ReadJobVersion(k)
  <2>1. r.at = "jobVersion" /\ Learn(k, "cvVersion", [job |-> version.job])
    BY <1>10 DEF ReadJobVersion, CalcAt
  <2>2. ASSUME NEW n, Extended(n, r, "cvVersion", [job |-> version.job])
        PROVE  Knows(n)
    <3>1. /\ n.parsed = r.parsed /\ n.jobCat = r.jobCat /\ n.job = version.job /\ n.at = "cvVersion"
          /\ {"at", "parsed", "jobCat", "job"} \subseteq DOMAIN n
      BY <1>8, <2>1, <2>2 DEF Extended
    <3> QED BY <1>8, <2>1, <3>1 DEF Knows, HasJob, HasCv, HasResult
  <2> QED BY <2>1, <2>2, <1>7
<1>11. CASE ReadCvVersion(k)
  <2>1. r.at = "cvVersion" /\ Learn(k, "cached", [cv |-> version.cv])
    BY <1>11 DEF ReadCvVersion, CalcAt
  <2>2. ASSUME NEW n, Extended(n, r, "cached", [cv |-> version.cv])
        PROVE  Knows(n)
    <3>1. /\ n.parsed = r.parsed /\ n.jobCat = r.jobCat /\ n.job = r.job /\ n.cv = version.cv
          /\ n.at = "cached" /\ {"at", "parsed", "jobCat", "job", "cv"} \subseteq DOMAIN n
      BY <1>8, <2>1, <2>2 DEF Extended, HasJob
    <3> QED BY <1>8, <2>1, <3>1 DEF Knows, HasJob, HasCv, HasResult
  <2> QED BY <2>1, <2>2, <1>7
<1>12. CASE ReadCached(k)
  <2>1. r.at = "cached" /\ r.at \in HasJob /\ r.at \in HasCv
    BY <1>12 DEF ReadCached, CalcAt, HasJob, HasCv
  <2>2. /\ {"at", "parsed", "jobCat", "job", "cv"} \subseteq DOMAIN r /\ r.parsed = parsed
        /\ parsed.status = "completed" /\ r.jobCat = jobCat
        /\ r.job = version.job /\ r.cv = version.cv
    BY <1>8, <2>1
  <2>3. CASE Hit(k) /\ Learn(k, "find", [result |-> cached.result, stored |-> TRUE])
    <3> DEFINE what == [result |-> cached.result, stored |-> TRUE]
    <3>1. cached.result = Current
      <4>1. Fresh(cached.job, cached.cv)
        BY <1>3, <1>4, <2>2, <2>3 DEF Fresh, Hit
      <4> QED BY <4>1 DEF MatchCore
    <3>2. ASSUME NEW n, Extended(n, r, "find", what)
          PROVE  Knows(n)
      <4>1. /\ n.job = r.job /\ n.cv = r.cv /\ n.result = cached.result /\ n.at = "find"
            /\ {"at", "job", "cv", "result"} \subseteq DOMAIN n
        BY <2>2, <3>2 DEF Extended
      <4> QED BY <2>2, <3>1, <4>1 DEF Knows, HasJob, HasCv, HasResult
    <3>3. "at" \notin DOMAIN what /\ Learn(k, "find", what)
      BY <2>3
    <3> HIDE DEF what
    <3> QED BY <3>2, <3>3, <1>7
  <2>4. CASE Learn(k, "links", [stored |-> FALSE])
    <3> DEFINE what == [stored |-> FALSE]
    <3>1. ASSUME NEW n, Extended(n, r, "links", what)
          PROVE  Knows(n)
      <4>1. /\ n.parsed = r.parsed /\ n.jobCat = r.jobCat /\ n.job = r.job /\ n.cv = r.cv
            /\ n.at = "links" /\ {"at", "parsed", "jobCat", "job", "cv"} \subseteq DOMAIN n
        BY <2>2, <3>1 DEF Extended
      <4> QED BY <2>2, <4>1 DEF Knows, HasJob, HasCv, HasResult
    <3>2. "at" \notin DOMAIN what /\ Learn(k, "links", what)
      BY <2>4
    <3> HIDE DEF what
    <3> QED BY <3>1, <3>2, <1>7
  <2> QED BY <1>12, <2>3, <2>4 DEF ReadCached
<1>13. CASE ReadLinks(k)
  <2>1. r.at = "links" /\ Learn(k, "skills", [has |-> linked, weight |-> WeightsOf(needs)])
    BY <1>13 DEF ReadLinks, CalcAt
  <2>2. /\ {"at", "parsed", "jobCat", "job", "cv"} \subseteq DOMAIN r /\ r.parsed = parsed
        /\ parsed.status = "completed" /\ r.jobCat = jobCat
        /\ r.job = version.job /\ r.cv = version.cv
    BY <1>8, <2>1 DEF HasJob, HasCv
  <2> DEFINE what == [has |-> linked, weight |-> WeightsOf(needs)]
  <2>3. ASSUME NEW n, Extended(n, r, "skills", what)
        PROVE  Knows(n)
    <3>1. /\ n.parsed = r.parsed /\ n.jobCat = r.jobCat /\ n.job = r.job /\ n.cv = r.cv
          /\ n.has = linked /\ n.weight = WeightsOf(needs) /\ n.at = "skills"
          /\ {"at", "parsed", "jobCat", "job", "cv", "has", "weight"} \subseteq DOMAIN n
      BY <2>2, <2>3 DEF Extended
    <3> QED BY <2>2, <3>1 DEF Knows, HasJob, HasCv, HasResult
  <2>4. "at" \notin DOMAIN what /\ Learn(k, "skills", what)
    BY <2>1
  <2> HIDE DEF what
  <2> QED BY <2>3, <2>4, <1>7
<1>14. CASE ReadSkills(k)
  <2>1. r.at = "skills"
    BY <1>14 DEF ReadSkills, CalcAt
  <2>2. /\ {"at", "parsed", "jobCat", "job", "cv", "has", "weight"} \subseteq DOMAIN r
        /\ r.parsed = parsed /\ parsed.status = "completed" /\ r.jobCat = jobCat
        /\ r.job = version.job /\ r.cv = version.cv
        /\ r.has = linked /\ r.weight = WeightsOf(needs)
    BY <1>5, <1>8, <2>1 DEF HasJob, HasCv, Knows
  <2> DEFINE x == r.jobCat # None /\ InCategory(r.jobCat) \cap r.has # {}
             y == NamesOf({s \in Skills : r.weight[s] > 0})
             what == [hasSkill |-> x, words |-> y]
  <2>3. Learn(k, "category", what)
    BY <1>14 DEF ReadSkills
  <2>4. /\ x = (jobCat # None /\ InCategory(jobCat) \cap linked # {})
        /\ y = NamesOf(Needed)
    <3>1. {s \in Skills : r.weight[s] > 0} = Needed
      BY <2>2 DEF WeightsOf, Needed
    <3> QED BY <2>2, <3>1
  <2> HIDE DEF x, y
  <2>5. ASSUME NEW n, Extended(n, r, "category", what)
        PROVE  Knows(n)
    <3>1. /\ n.parsed = r.parsed /\ n.jobCat = r.jobCat /\ n.job = r.job /\ n.cv = r.cv
          /\ n.has = linked /\ n.weight = WeightsOf(needs) /\ n.at = "category"
          /\ n.hasSkill = x /\ n.words = y
          /\ {"at", "parsed", "jobCat", "job", "cv", "has", "weight"} \subseteq DOMAIN n
      BY <2>2, <2>5 DEF Extended
    <3> QED BY <2>2, <2>4, <3>1 DEF Knows, HasJob, HasCv, HasResult
  <2>6. "at" \notin DOMAIN what
    OBVIOUS
  <2> HIDE DEF what
  <2> QED BY <2>3, <2>5, <2>6, <1>7
<1>15. CASE ReadCategory(k)
  <2>1. r.at = "category"
    BY <1>15 DEF ReadCategory, CalcAt
  <2>2. /\ r.parsed = parsed /\ r.jobCat = jobCat /\ r.job = version.job /\ r.cv = version.cv
        /\ r.has = linked /\ r.weight = WeightsOf(needs) /\ r.words = NamesOf(Needed)
        /\ r.hasSkill = (jobCat # None /\ InCategory(jobCat) \cap linked # {})
    BY <1>5, <2>1 DEF HasJob, HasCv, Knows
  <2>3. PICK n : n = [at |-> "find", job |-> r.job, cv |-> r.cv, stored |-> FALSE,
                      result |-> Result(SlugOf(r.jobCat), r.parsed, r.has, r.weight,
                                        r.hasSkill, r.words)]
    OBVIOUS
  <2>4. n.result = Current
    BY <2>2, <2>3 DEF Current
  <2>5. /\ n.at = "find" /\ n.job = version.job /\ n.cv = version.cv
        /\ {"at", "job", "cv", "result"} \subseteq DOMAIN n
    BY <2>2, <2>3
  <2>6. Knows(n)
    BY <2>4, <2>5 DEF Knows, HasJob, HasCv, HasResult
  <2>7. calc' = [calc EXCEPT ![k] = n] /\ UNCHANGED <<cached, match>>
    BY <1>15, <2>3 DEF ReadCategory
  <2> QED BY <2>6, <2>7, <1>6
<1>16. r.at \in HasResult =>
         /\ {"at", "job", "cv", "result"} \subseteq DOMAIN r /\ r.result = Current
         /\ r.job = version.job /\ r.cv = version.cv
  BY <1>5 DEF Knows, HasJob, HasCv, HasResult
<1>17. CASE FindMatch(k)
  <2>1. r.at = "find"
    BY <1>17 DEF FindMatch, CalcAt
  <2>2. PICK i \in IF match = <<>> THEN {0} ELSE DOMAIN match : Learn(k, "save", [old |-> i])
    BY <1>17 DEF FindMatch
  <2>3. i = IF match = <<>> THEN 0 ELSE 1
    BY <2>2 DEF MatchCore
  <2>4. ASSUME NEW n, Extended(n, r, "save", [old |-> i])
        PROVE  Knows(n)
    <3>1. /\ n.job = r.job /\ n.cv = r.cv /\ n.result = r.result /\ n.at = "save" /\ n.old = i
          /\ {"at", "job", "cv", "result"} \subseteq DOMAIN n
      BY <1>16, <2>1, <2>4 DEF Extended, HasResult
    <3> QED BY <1>16, <2>1, <2>3, <3>1 DEF Knows, HasJob, HasCv, HasResult
  <2> QED BY <2>2, <2>4, <1>7
<1>18. CASE SaveMatch(k)
  <2>1. r.at = "save"
    BY <1>18 DEF SaveMatch, CalcAt
  <2>2. r.old = (IF match = <<>> THEN 0 ELSE 1) /\ r.result = Current
        /\ r.job = version.job /\ r.cv = version.cv
        /\ {"at", "job", "cv", "result"} \subseteq DOMAIN r
    BY <1>5, <1>16, <2>1 DEF Knows, HasResult
  <2>3. match' = <<r.result>>
    <3>1. match' = IF r.old = 0 THEN Append(match, r.result) ELSE [match EXCEPT ![r.old] = r.result]
      BY <1>18 DEF SaveMatch
    <3>2. CASE match = <<>>
      BY <2>2, <3>1, <3>2
    <3>3. CASE match # <<>>
      <4>1. match = <<match[1]>> /\ r.old = 1
        BY <2>2, <3>3 DEF MatchCore
      <4>2. PICK x : match = <<x>>
        BY <4>1
      <4> QED BY <3>1, <4>1, <4>2
    <3> QED BY <3>2, <3>3
  <2>4. PICK n : n = IF r.stored THEN Idle ELSE [r EXCEPT !.at = "store"]
    OBVIOUS
  <2>5. calc' = [calc EXCEPT ![k] = n] /\ cached' = cached
    BY <1>18, <2>4 DEF SaveMatch
  <2>6. ASSUME n # Idle
        PROVE  Knows(n)'
    <3>1. /\ n.at = "store" /\ n.job = r.job /\ n.cv = r.cv /\ n.result = r.result
          /\ {"at", "job", "cv", "result"} \subseteq DOMAIN n
      BY <2>2, <2>4, <2>6
    <3>2. Current' = Current /\ version' = version
      BY <1>2, ReadingKnows DEF Reading
    <3> QED BY <2>2, <2>3, <3>1, <3>2 DEF Knows, HasJob, HasCv, HasResult
  <2>7. \A l \in Calculators : calc'[l] # Idle => Knows(calc[l])'
    <3> SUFFICES ASSUME NEW l \in Calculators, calc'[l] # Idle PROVE Knows(calc[l])'
      OBVIOUS
    <3>1. l = k /\ calc'[l] = n
      BY <1>1, <1>3, <2>5
    <3> QED BY <3>1, <2>6 DEF Knows
  <2>8. match' = <<match'[1]>>
    BY <2>3
  <2>9. Fresh(cached.job, cached.cv)' => cached'.result = Current' /\ match' = <<cached'.result>>
    <3>1. Current' = Current /\ (Fresh(cached.job, cached.cv)' => Fresh(cached.job, cached.cv))
      BY <1>2, <2>5, ReadingKnows
    <3> QED BY <3>1, <2>2, <2>3, <2>5 DEF MatchCore
  <2> QED BY <2>7, <2>8, <2>9 DEF MatchCore
<1>19. CASE StoreResult(k)
  <2>1. r.at = "store"
    BY <1>19 DEF StoreResult, CalcAt
  <2>2. /\ match = <<r.result>> /\ r.result = Current
        /\ r.job = version.job /\ r.cv = version.cv
    BY <1>5, <1>16, <2>1 DEF Knows, HasResult
  <2>3. cached' = Entry(r.job, r.cv, r.result)
    BY <1>1, <1>19, <2>2 DEF StoreResult
  <2>4. calc' = [calc EXCEPT ![k] = Idle] /\ match' = match
    BY <1>19 DEF StoreResult
  <2>5. \A l \in Calculators : calc'[l] = Idle
    BY <1>1, <1>3, <2>4
  <2>6. cached'.result = Current' /\ match' = <<cached'.result>>
    BY <1>2, <2>2, <2>3, <2>4, ReadingKnows DEF Entry
  <2> QED BY <2>4, <2>5, <2>6 DEF MatchCore
<1>20. CASE AbortCalculation(k)
  BY <1>20, <1>6 DEF AbortCalculation
<1> QED BY <1>9, <1>10, <1>11, <1>12, <1>13, <1>14, <1>15, <1>17, <1>18, <1>19, <1>20
        DEF Calculate

\* A step of a request at which nobody calculates.
LEMMA CarefulMatch ==
  ASSUME SkillInv, MatchCore, Careful, ~ Quiet' \/ Current' = Current, UNCHANGED matching,
         \A k \in Calculators : calc'[k] = Idle
  PROVE  MatchCore'
<1>1. /\ worker' = worker /\ parsed' = parsed /\ cached' = cached /\ match' = match
      /\ DOMAIN version = {"job", "cv"} /\ version.job \in Nat /\ version.cv \in Nat
      /\ cached.job \in Int /\ cached.job <= version.job
      /\ cached.cv \in Int /\ cached.cv <= version.cv
  BY DEF matching, SkillInv
<1>2. PICK j \in Int, c \in Int : j = cached.job /\ c = cached.cv
  BY <1>1
<1>3. CASE Bumped
  <2>1. version.job < version'.job \/ version.cv < version'.cv
    BY <1>1, <1>3 DEF Bumped
  <2>2. version'.job \in Nat /\ version'.cv \in Nat
    BY <1>1, <1>3 DEF Bumped
  <2>3. ~ Fresh(cached.job, cached.cv)'
    BY <1>1, <2>1, <2>2, <1>3 DEF Fresh, Bumped
  <2> QED BY <1>1, <2>3, MatchKept
<1>4. CASE version' = version /\ (Quiet' => Quiet)
  <2>1. Fresh(cached.job, cached.cv)' => Fresh(cached.job, cached.cv) /\ Current' = Current
    BY <1>1, <1>4 DEF Fresh
  <2> QED BY <1>1, <2>1, MatchKept
<1> QED BY <1>3, <1>4 DEF Careful

\* What has been spoilt stays so.
LEMMA SpoiltStays ==
  ASSUME [Watched]_mcVars, spoilt
  PROVE  spoilt'
<1>1. ASSUME NEW h \in Handlers, Arrive(h)
      PROVE  spoilt'
  <2>1. PICK r : Begin(h, r)
    BY <1>1 DEF Arrive, CreateSkill, UpdateSkill, DeleteSkill, RestoreSkill, CreateCategory,
       UpdateCategory, DeleteCategory, RestoreCategory, UpdateCompany, UpdateJob
  <2> QED BY <2>1 DEF Begin
<1>2. ASSUME NEW h \in Handlers, Statement(h)
      PROVE  spoilt'
  BY <1>2 DEF Statement, Name, Category, Parent, FindSlug, SlugFree, Uses, SkillsOf, CompaniesOf, JobsOf,
     AskedSkills, Test, Write, Drop, Restore, SetLive, SaveCompany, SaveJob, ReadRows, PutSkill,
     PruneSkill, BumpJob, BumpCv, Abort, End
<1>3. CASE StartAnalysis \/ Analyse
  BY <1>3 DEF StartAnalysis, Analyse, BuildRequest, Answer, Complete, ClearSkills, FindSkill,
     LinkSkill, BumpAnalysis, FailAnalysis, vars
<1>4. ASSUME NEW k \in Calculators, ReadJob(k) \/ Calculate(k)
      PROVE  spoilt'
  BY <1>4 DEF ReadJob, Calculate, ReadParsed, ReadJobVersion, ReadCvVersion, ReadCached, ReadLinks,
     ReadSkills, ReadCategory, FindMatch, SaveMatch, StoreResult, AbortCalculation, Learn, vars
<1>5. CASE UNCHANGED mcVars
  BY <1>5 DEF mcVars, allVars, vars
<1> QED BY <1>1, <1>2, <1>3, <1>4, <1>5 DEF Watched, Arrives, Works, Arrival, Step

\* A step of the analysis, after which nothing is fresh.
LEMMA AnalysisMatch ==
  ASSUME SkillInv, MatchCore, StartAnalysis \/ Analyse, \A k \in Calculators : calc'[k] = Idle
  PROVE  MatchCore'
<1>1. cached' = cached /\ \A j : \A c \in Int : c <= version.cv => ~ Fresh(j, c)'
  BY AnalysisForgets
<1>2. match' = match
  BY DEF StartAnalysis, Analyse, BuildRequest, Answer, Complete, ClearSkills, FindSkill,
     LinkSkill, BumpAnalysis, FailAnalysis
<1>3. cached.cv \in Int /\ cached.cv <= version.cv
  BY DEF SkillInv
<1>4. ~ Fresh(cached.job, cached.cv)'
  <2>1. PICK j, c : j = cached.job /\ c = cached.cv
    OBVIOUS
  <2>2. ~ Fresh(j, c)'
    BY <1>1, <1>3, <2>1
  <2> QED BY <1>1, <2>1, <2>2 DEF Fresh
<1> QED BY <1>1, <1>2, <1>4, MatchKept

\* The invariant of matches is kept by every step.
LEMMA MatchSteps ==
  SkillInv /\ SeqStep /\ MatchStep /\ [Watched]_mcVars => MatchStep'
<1> SUFFICES ASSUME SkillInv, SeqStep, MatchStep, [Watched]_mcVars, ~ overlapped', ~ spoilt'
             PROVE  MatchCore'
  BY DEF MatchStep
<1>1. ReqOk /\ DOMAIN calc = Calculators /\ ~ spoilt
  BY SpoiltStays DEF SkillInv
<1>2. CASE Arrival /\ overlapped' = (overlapped \/ InFlight' > 1)
  <2>1. ~ overlapped /\ SeqCore /\ MatchCore /\ Alone'
    BY <1>1, <1>2, OneInFlight DEF SeqStep, MatchStep
  <2>2. ASSUME NEW h \in Handlers, Arrive(h), UNCHANGED matching
        PROVE  MatchCore'
    <3>1. PICK r : req' = [req EXCEPT ![h] = r] /\ r # Idle /\ UNCHANGED <<rows, version>>
      BY <2>1, <2>2, ArriveTested DEF SeqCore
    <3>2. req'[h] # Idle
      BY <1>1, <3>1 DEF ReqOk
    <3>3. \A k \in Calculators : calc'[k] = Idle
      BY <2>1, <3>2 DEF Alone
    <3>4. Current' = Current
      BY <2>2, <3>1, RowsStay DEF matching
    <3> QED BY <1>1, <2>1, <2>2, <3>3, <3>4, ArriveIsCareful, CarefulMatch
  <2>3. CASE StartAnalysis
    <3>1. worker' # Idle
      <4>1. worker'.at = "request"
        BY <2>3 DEF StartAnalysis
      <4> QED BY <4>1 DEF Idle
    <3>2. \A k \in Calculators : calc'[k] = Idle
      BY <2>1, <3>1 DEF Alone
    <3> QED BY <2>1, <2>3, <3>2, AnalysisMatch
  <2>4. ASSUME NEW k \in Calculators, ReadJob(k)
        PROVE  MatchCore'
    <3>1. PICK n : n = [at |-> "parsed", jobCat |-> jobCat]
      OBVIOUS
    <3>2. Knows(n) /\ n # Idle
      BY <3>1 DEF Knows, HasJob, HasCv, HasResult, Idle
    <3>3. calc' = [calc EXCEPT ![k] = n] /\ UNCHANGED <<cached, match>> /\ Reading
      BY <2>4, <3>1 DEF ReadJob, vars, rows, Reading
    <3>4. \A l \in Calculators : l # k => calc[l] = Idle
      <4>1. calc'[k] # Idle /\ \A l \in Calculators : l # k => calc'[l] = calc[l]
        BY <1>1, <3>2, <3>3
      <4> QED BY <2>1, <4>1 DEF Alone
    <3> QED BY <1>1, <2>1, <3>2, <3>3, <3>4, CalcKnows
  <2> QED BY <1>2, <2>2, <2>3, <2>4 DEF Arrival
<1>3. CASE Step /\ UNCHANGED <<begun, overlapped>>
  <2>1. SeqCore /\ MatchCore
    BY <1>1, <1>3 DEF SeqStep, MatchStep
  <2>2. ASSUME NEW h \in Handlers, Statement(h), UNCHANGED matching
        PROVE  MatchCore'
    <3>1. req[h] # Idle
      BY <2>2 DEF Statement, Name, Category, Parent, FindSlug, SlugFree, Uses, SkillsOf, CompaniesOf,
         JobsOf, AskedSkills, Test, Write, Drop, Restore, SaveCompany, SaveJob, ReadRows,
         PutSkill, PruneSkill, BumpJob, BumpCv, Abort, At
    <3>2. \A k \in Calculators : calc'[k] = Idle
      BY <2>1, <2>2, <3>1 DEF SeqCore, Alone, matching
    <3>3. Careful /\ (~ Quiet' \/ Current' = Current)
      BY <1>1, <2>1, <2>2, StatementIsCareful, StatementAligned DEF Aligned
    <3> QED BY <2>1, <2>2, <3>2, <3>3, CarefulMatch
  <2>3. CASE Analyse
    <3>1. worker # Idle /\ calc' = calc
      BY <2>3 DEF Analyse, BuildRequest, Answer, Complete, ClearSkills, FindSkill, LinkSkill,
         BumpAnalysis, FailAnalysis, WorkerAt
    <3>2. \A k \in Calculators : calc'[k] = Idle
      BY <2>1, <3>1 DEF SeqCore, Alone
    <3> QED BY <2>1, <2>3, <3>2, AnalysisMatch
  <2>4. ASSUME NEW k \in Calculators, Calculate(k)
        PROVE  MatchCore'
    BY <1>1, <2>1, <2>4, CalculateKnows
  <2> QED BY <1>3, <2>2, <2>3, <2>4 DEF Step
<1>4. CASE UNCHANGED mcVars
  <2>1. /\ overlapped' = overlapped /\ cached' = cached /\ match' = match /\ calc' = calc
        /\ Reading
    BY <1>4 DEF mcVars, allVars, vars, matching, rows, Reading
  <2>2. MatchCore
    BY <1>1, <2>1 DEF MatchStep
  <2>3. \A k \in Calculators : calc'[k] # Idle => Knows(calc[k])'
    <3> SUFFICES ASSUME NEW k \in Calculators, calc'[k] # Idle PROVE Knows(calc[k])'
      OBVIOUS
    <3>1. PICK n : n = calc[k]
      OBVIOUS
    <3>2. Knows(n)'
      BY <2>1, <2>2, <3>1, ReadingKnows DEF MatchCore
    <3> QED BY <2>1, <3>1, <3>2 DEF Knows
  <2>4. Fresh(cached.job, cached.cv)' => cached'.result = Current' /\ match' = <<cached'.result>>
    BY <2>1, <2>2, ReadingKnows DEF MatchCore
  <2> QED BY <2>1, <2>2, <2>3, <2>4 DEF MatchCore
<1> QED BY <1>2, <1>3, <1>4 DEF Watched, Arrives, Works

\* Nothing in flight.
LEMMA NobodyInFlight ==
  ASSUME ~ (InFlight > 0)
  PROVE  worker = Idle /\ \A h \in Handlers : req[h] = Idle
<1> DEFINE A == {h \in Handlers : req[h] # Idle}
           B == {k \in Calculators : calc[k] # Idle}
<1>1. IsFiniteSet(A) /\ IsFiniteSet(B) /\ Cardinality(A) \in Nat /\ Cardinality(B) \in Nat
  BY FS_Subset, FS_CardinalityType, ProcessesAssumption
<1>2. PICK w \in BOOLEAN : w = (worker = Idle)
  OBVIOUS
<1>3. ~ (Cardinality(A) + Cardinality(B) + (IF w THEN 0 ELSE 1) > 0)
  BY <1>2 DEF InFlight, Idle
<1> HIDE DEF A, B
<1>4. Cardinality(A) = 0 /\ w
  BY <1>1, <1>3
<1>5. A = {}
  BY <1>1, <1>4, FS_EmptySet
<1> QED BY <1>2, <1>4, <1>5 DEF A

\* When requests run one at a time and no bump is lost, what Redis has for
\* the versions there are is the match a calculation would come to, and the
\* saved one: every change a match depends on is followed by a bump.
THEOREM MatchInSequence == WatchedSpec => []FoundMatchIsCurrentInSequence
<1>1. WatchedInit => MatchStep
  <2> SUFFICES ASSUME WatchedInit PROVE MatchCore
    BY DEF MatchStep
  <2>1. Init
    BY DEF WatchedInit
  <2>2. /\ cached.job = -1 /\ version.job = 0 /\ match = <<>>
        /\ \A k \in Calculators : calc[k] = Idle
    BY <2>1 DEF Init, Entry
  <2> QED BY <2>2 DEF MatchCore, Fresh
<1>2. SkillInv /\ SeqStep /\ MatchStep => FoundMatchIsCurrentInSequence
  <2> SUFFICES ASSUME MatchCore, ~ spoilt, ~ (InFlight > 0), NEW r \in {cached.result}, Found(r)
               PROVE  r = Current /\ Saved = {r}
    BY DEF MatchStep, FoundMatchIsCurrentInSequence, FoundMatchIsCurrent
  <2>1. Fresh(cached.job, cached.cv)
    BY NobodyInFlight DEF Fresh, Quiet, Found
  <2>2. r = cached.result /\ cached.result = Current /\ match = <<cached.result>>
    BY <2>1 DEF MatchCore
  <2>3. Saved = {r}
    BY <2>2 DEF Saved, Range
  <2> QED BY <2>2, <2>3
<1> QED BY <1>1, <1>2, SkillInit, InitSound, SkillStep, SoundStep, MatchSteps, PTL DEF WatchedSpec

\* The run is about a part of these behaviours.
THEOREM RunIsWatched == MCSpec => WatchedSpec
<1>1. MCInit => WatchedInit
  BY DEF MCInit
<1>2. [MCNext]_mcVars => [Watched]_mcVars
  BY DEF MCNext, Watched
<1> QED BY <1>1, <1>2, PTL DEF MCSpec, WatchedSpec
=============================================================================
