------------------------ MODULE VersionedCache_proofs ------------------------
(***************************************************************************)
(* Proofs about VersionedCache, for every catalogue of queries and         *)
(* commands in which no invalidation is forgotten, and every number of     *)
(* requests, commands and failures.                                        *)
(*                                                                         *)
(* Versions and stamps only grow.  The argument is that whatever is out of *)
(* date lies under a key that is older, in its version or in its stamp,    *)
(* than the key of any request without an excuse.                          *)
(***************************************************************************)
EXTENDS VersionedCache, SequenceTheorems, TLAPS

-----------------------------------------------------------------------------
(* The inductive invariant *)

Reader ==
  [at : {"done", "early", "versioned", "missed", "read"},
   stamp : Nat, version : Nat, stale : BOOLEAN, excused : BOOLEAN]
Handler == [todo : Seq(Groups), done : BOOLEAN, bumps : BOOLEAN]

Typed ==
  /\ query \in DOMAIN Queries
  /\ group \in Shows(query)
  /\ version \in Nat
  /\ stamp \in Nat
  /\ DOMAIN store \subseteq (0..version) \X (0..stamp)
  /\ \A k \in DOMAIN store : store[k] \in BOOLEAN
  /\ readers \in [Readers -> Reader]
  /\ \A r \in Readers : readers[r].version <= version /\ readers[r].stamp <= stamp
  /\ handlers \in [Handlers -> Handler]
  /\ lingers \in BOOLEAN

\* A command that does not invalidate is to change the key, if it has
\* written or will write the group.
WritersSettle ==
  \A h \in Handlers : ~ handlers[h].bumps =>
    /\ Settled(handlers[h].todo, query, group)
    /\ handlers[h].done =>
         \E j \in DOMAIN handlers[h].todo : handlers[h].todo[j] \in Q.stamped

Stale(r) == Running(r) /\ readers[r].stale
Clean(r) == Running(r) /\ ~ readers[r].excused
Versioned(r) == readers[r].at # "early"
Clear == ~ Owed /\ ~ lingers

\* What has gone stale had been read, and is excused; if the group is a part
\* of the key, the key has changed.
StaleIsExcused ==
  \A r \in Readers : Stale(r) =>
    /\ HasRead(r)
    /\ readers[r].excused
    /\ group \in Q.stamped => readers[r].stamp < stamp

\* While nothing is owed or lingers, what is out of date is under an older
\* key than the present one.
StoredIsOlder ==
  \A k \in DOMAIN store : store[k] /\ Clear => k[1] < version \/ k[2] < stamp
ReadIsOlder ==
  \A r \in Readers : Stale(r) /\ Clear =>
    (Versioned(r) /\ readers[r].version < version) \/ readers[r].stamp < stamp

\* The version a request has read, or will read at least; what is out of
\* date is under an older key than that of a request without excuse.
Front(r) == IF Versioned(r) THEN readers[r].version ELSE version
StoredIsBehind ==
  \A r \in Readers : Clean(r) =>
    \A k \in DOMAIN store : store[k] => k[1] < Front(r) \/ k[2] < readers[r].stamp
ReadIsBehind ==
  \A r, s \in Readers : Clean(r) /\ Stale(s) =>
    \/ Versioned(s) /\ readers[s].version < Front(r)
    \/ readers[s].stamp < readers[r].stamp

IInv ==
  /\ Typed
  /\ WritersSettle
  /\ StaleIsExcused
  /\ StoredIsOlder
  /\ ReadIsOlder
  /\ StoredIsBehind
  /\ ReadIsBehind
  /\ AnswersFollowCommands

-----------------------------------------------------------------------------
(* The invariant *)

\* The initial state satisfies it.
LEMMA InitInv == Init => IInv
<1> SUFFICES ASSUME Init PROVE IInv
  OBVIOUS
<1> USE DEF Init
<1>1. Typed
  <2>1. NoReader \in Reader /\ NoHandler \in Handler
    BY DEF NoReader, NoHandler, Reader, Handler
  <2>2. DOMAIN store = {}
    OBVIOUS
  <2>3. /\ readers \in [Readers -> Reader]
        /\ handlers \in [Handlers -> Handler]
    BY <2>1
  <2>4. \A r \in Readers : readers[r].version <= version /\ readers[r].stamp <= stamp
    BY DEF NoReader
  <2> QED
    BY <2>2, <2>3, <2>4 DEF Typed
<1>2. WritersSettle
  BY DEF WritersSettle, NoHandler, Settled
<1>3. /\ StaleIsExcused /\ StoredIsOlder /\ ReadIsOlder
      /\ StoredIsBehind /\ ReadIsBehind
  BY DEF StaleIsExcused, StoredIsOlder, ReadIsOlder, StoredIsBehind,
         ReadIsBehind, Stale, Clean, Running, NoReader
<1>4. AnswersFollowCommands
  BY DEF AnswersFollowCommands, NoReader
<1> QED
  BY <1>1, <1>2, <1>3, <1>4 DEF IInv

\* What is left of the entries is as it was.
LEMMA FindableIsPart ==
  ASSUME NEW entries, NEW v, NEW s, NEW k \in DOMAIN Findable(entries, v, s)
  PROVE  /\ k \in DOMAIN entries
         /\ Findable(entries, v, s)[k] = entries[k]
BY DEF Findable

\* The types, after a step of one request.
LEMMA OneReader ==
  ASSUME Typed, NEW r \in Readers, NEW x \in Reader,
         x.version <= version, x.stamp <= stamp,
         readers' = [readers EXCEPT ![r] = x],
         UNCHANGED <<query, group, version, stamp, handlers, lingers>>,
         DOMAIN store' \subseteq (0..version) \X (0..stamp),
         \A k \in DOMAIN store' : store'[k] \in BOOLEAN
  PROVE  Typed'
<1>1. readers' \in [Readers -> Reader]
  BY DEF Typed
<1>2. \A s \in Readers : readers'[s].version <= version /\ readers'[s].stamp <= stamp
  BY DEF Typed
<1> QED
  BY <1>1, <1>2 DEF Typed

\* What a step leaves as it was when it leaves the commands alone.
LEMMA SameCommands ==
  ASSUME UNCHANGED <<query, group, handlers, lingers>>
  PROVE  /\ Q' = Q
         /\ Owed' <=> Owed
         /\ Clear' <=> Clear
         /\ WritersSettle => WritersSettle'
BY DEF Q, Owed, Clear, WritersSettle

\* A request begins: it has no excuse only if nothing is owed or lingers,
\* and then all that is out of date is under older keys than the present.
LEMMA ReadEarlyStep ==
  ASSUME IInv, NEW r \in Readers, ReadEarly(r) PROVE IInv'
<1> DEFINE x == [NoReader EXCEPT !.at = "early", !.stamp = stamp,
                                 !.excused = Owed \/ lingers]
<1>1. /\ readers' = [readers EXCEPT ![r] = x]
      /\ UNCHANGED <<query, group, version, stamp, store, handlers, lingers>>
  BY DEF ReadEarly
<1>2. Typed /\ WritersSettle
  BY DEF IInv
<1>3. /\ x \in Reader /\ x.at = "early" /\ x.stamp = stamp /\ x.version = 0
      /\ ~ x.stale /\ (x.excused <=> ~ Clear)
  BY <1>2 DEF NoReader, Reader, Typed, Clear
<1>4. Typed'
  <2> HIDE DEF x
  <2>1. x.version <= version /\ x.stamp <= stamp
    BY <1>2, <1>3 DEF Typed
  <2>2. /\ DOMAIN store' \subseteq (0..version) \X (0..stamp)
        /\ \A k \in DOMAIN store' : store'[k] \in BOOLEAN
    BY <1>1, <1>2 DEF Typed
  <2> QED
    BY <1>1, <1>2, <1>3, <2>1, <2>2, OneReader
<1>5. /\ readers'[r] = x
      /\ \A s \in Readers \ {r} : readers'[s] = readers[s]
  BY <1>1, <1>2 DEF Typed
<1>6. Q' = Q /\ (Clear' <=> Clear) /\ WritersSettle'
  BY <1>1, <1>2, SameCommands
<1> HIDE DEF x
<1>7. \A s \in Readers : Stale(s)' =>
        s # r /\ Stale(s) /\ (HasRead(s) => HasRead(s)') /\ (Versioned(s)' <=> Versioned(s))
  BY <1>1, <1>3, <1>5, <1>6 DEF Stale, Running, HasRead, Versioned
<1>8. StaleIsExcused'
  BY <1>1, <1>5, <1>6, <1>7 DEF IInv, StaleIsExcused
<1>9. StoredIsOlder' /\ ReadIsOlder'
  BY <1>1, <1>5, <1>6, <1>7 DEF IInv, StoredIsOlder, ReadIsOlder
<1>10. \A q \in Readers : Clean(q)' =>
         \/ q = r /\ Clear /\ Front(q)' = version /\ readers'[q].stamp = stamp
         \/ q # r /\ Clean(q) /\ Front(q)' = Front(q) /\ readers'[q] = readers[q]
  BY <1>1, <1>3, <1>5 DEF Clean, Running, Front, Versioned
<1>11. StoredIsBehind'
  BY <1>1, <1>10 DEF IInv, StoredIsBehind, StoredIsOlder
<1>12. ReadIsBehind'
  BY <1>5, <1>7, <1>10 DEF IInv, ReadIsBehind, ReadIsOlder
<1>13. AnswersFollowCommands'
  BY <1>3, <1>5 DEF IInv, AnswersFollowCommands
<1> QED
  BY <1>4, <1>6, <1>8, <1>9, <1>11, <1>12, <1>13 DEF IInv

\* A request goes on: it stores nothing but what it has read, under its key,
\* and what it has read, its excuse and its key stay what they were, but for
\* a version that it did not have.
LEMMA RequestStep ==
  ASSUME IInv, NEW r \in Readers, NEW x \in Reader,
         x.version <= version, x.stamp <= stamp,
         readers' = [readers EXCEPT ![r] = x],
         UNCHANGED <<query, group, version, stamp, handlers, lingers>>,
         \A k \in DOMAIN store' :
           \/ k \in DOMAIN store /\ store'[k] = store[k]
           \/ /\ k = Key(r) /\ store'[k] = readers[r].stale
              /\ Running(r) /\ Versioned(r),
         Stale(r)' =>
           /\ Stale(r) /\ HasRead(r)' /\ x.excused
           /\ x.stamp = readers[r].stamp
           /\ Versioned(r) => Versioned(r)' /\ x.version = readers[r].version,
         Clean(r)' =>
           /\ Clean(r) /\ Front(r)' = Front(r)
           /\ x.stamp = readers[r].stamp,
         x.at = "done" => ~ x.stale
  PROVE  IInv'
<1>1. Typed /\ WritersSettle
  BY DEF IInv
<1>2. Typed'
  <2>1. Key(r) \in (0..version) \X (0..stamp) /\ readers[r].stale \in BOOLEAN
    BY <1>1 DEF Typed, Reader, Key
  <2>2. /\ DOMAIN store' \subseteq (0..version) \X (0..stamp)
        /\ \A k \in DOMAIN store' : store'[k] \in BOOLEAN
    BY <1>1, <2>1 DEF Typed
  <2> QED
    BY <1>1, <2>2, OneReader
<1>3. /\ readers'[r] = x
      /\ \A s \in Readers \ {r} : readers'[s] = readers[s]
  BY <1>1 DEF Typed
<1>4. Q' = Q /\ (Clear' <=> Clear) /\ WritersSettle'
  BY <1>1, SameCommands
<1>5. \A s \in Readers : Stale(s)' =>
        /\ Stale(s) /\ HasRead(s)' /\ readers'[s].excused
        /\ readers'[s].stamp = readers[s].stamp
        /\ Versioned(s) => Versioned(s)' /\ readers'[s].version = readers[s].version
  <2> SUFFICES ASSUME NEW s \in Readers, s # r, Stale(s)'
               PROVE  /\ Stale(s) /\ HasRead(s)' /\ readers'[s].excused
                      /\ Versioned(s) => Versioned(s)'
    BY <1>3
  <2>1. readers'[s] = readers[s]
    BY <1>3
  <2>2. Stale(s) /\ (Versioned(s) => Versioned(s)') /\ (HasRead(s) => HasRead(s)')
    BY <1>4, <2>1 DEF Stale, Running, Versioned, HasRead
  <2> QED
    BY <2>1, <2>2 DEF IInv, StaleIsExcused
<1>6. \A q \in Readers : Clean(q)' =>
        /\ Clean(q) /\ Front(q)' = Front(q)
        /\ readers'[q].stamp = readers[q].stamp
  <2> SUFFICES ASSUME NEW q \in Readers, q # r, Clean(q)'
               PROVE  Clean(q) /\ Front(q)' = Front(q)
    BY <1>3
  <2> QED
    BY <1>3 DEF Clean, Running, Front, Versioned
<1>7. StaleIsExcused'
  BY <1>4, <1>5 DEF IInv, StaleIsExcused
<1>8. StoredIsOlder'
  BY <1>4 DEF IInv, StoredIsOlder, ReadIsOlder, Stale, Key
<1>9. ReadIsOlder'
  BY <1>4, <1>5 DEF IInv, ReadIsOlder
<1>10. StoredIsBehind'
  BY <1>6 DEF IInv, StoredIsBehind, ReadIsBehind, Stale, Key
<1>11. ReadIsBehind'
  BY <1>5, <1>6 DEF IInv, ReadIsBehind
<1>12. AnswersFollowCommands'
  BY <1>3 DEF IInv, AnswersFollowCommands
<1> QED
  BY <1>2, <1>4, <1>7, <1>8, <1>9, <1>10, <1>11, <1>12 DEF IInv

\* The counter is read: the key of the request is complete.
LEMMA ReadVersionStep ==
  ASSUME IInv, NEW r \in Readers, ReadVersion(r) PROVE IInv'
<1> DEFINE x == [readers[r] EXCEPT !.at = "versioned", !.version = version]
<1>1. Typed
  BY DEF IInv
<1>2. /\ readers' = [readers EXCEPT ![r] = x]
      /\ readers[r].at = "early"
      /\ UNCHANGED <<query, group, version, stamp, store, handlers, lingers>>
  BY <1>1 DEF ReadVersion, Typed, Reader
<1>3. /\ x \in Reader /\ x.at = "versioned" /\ x.stamp = readers[r].stamp
      /\ x.version = version /\ (x.stale <=> readers[r].stale)
      /\ (x.excused <=> readers[r].excused)
  BY <1>1 DEF Typed, Reader
<1>4. readers'[r] = x
  BY <1>1, <1>2 DEF Typed
<1>5. x.version <= version /\ x.stamp <= stamp
  BY <1>1, <1>3 DEF Typed
<1> HIDE DEF x
<1>6. Stale(r)' =>
        /\ Stale(r) /\ HasRead(r)' /\ x.excused /\ ~ Versioned(r)
  BY <1>2, <1>3, <1>4 DEF IInv, StaleIsExcused, Stale, Running, HasRead, Versioned, Q
<1>7. Clean(r)' => Clean(r) /\ Front(r)' = Front(r)
  BY <1>2, <1>3, <1>4 DEF Clean, Running, Front, Versioned
<1> QED
  BY <1>2, <1>3, <1>5, <1>6, <1>7, RequestStep

\* Redis does not answer: the request looks under version 0, excused.
LEMMA MissVersionStep ==
  ASSUME IInv, NEW r \in Readers, MissVersion(r) PROVE IInv'
<1> DEFINE x == [readers[r] EXCEPT !.at = "versioned", !.version = 0, !.excused = TRUE]
<1>1. Typed
  BY DEF IInv
<1>2. /\ readers' = [readers EXCEPT ![r] = x]
      /\ readers[r].at = "early"
      /\ UNCHANGED <<query, group, version, stamp, store, handlers, lingers>>
  BY <1>1 DEF MissVersion, Typed, Reader
<1>3. /\ x \in Reader /\ x.at = "versioned" /\ x.stamp = readers[r].stamp
      /\ x.version = 0 /\ (x.stale <=> readers[r].stale) /\ x.excused
  BY <1>1 DEF Typed, Reader
<1>4. readers'[r] = x
  BY <1>1, <1>2 DEF Typed
<1>5. x.version <= version /\ x.stamp <= stamp
  BY <1>1, <1>3 DEF Typed
<1> HIDE DEF x
<1>6. Stale(r)' => Stale(r) /\ HasRead(r)' /\ ~ Versioned(r)
  BY <1>2, <1>3, <1>4 DEF IInv, StaleIsExcused, Stale, Running, HasRead, Versioned, Q
<1>7. ~ Clean(r)'
  BY <1>3, <1>4 DEF Clean
<1> QED
  BY <1>2, <1>3, <1>5, <1>6, <1>7, RequestStep

\* What a request that answers leaves of itself.
LEMMA AnsweredReader ==
  ASSUME NEW reader \in Reader, NEW stale \in BOOLEAN
  PROVE  LET x == Answered(reader, stale) IN
         /\ x \in Reader /\ x.at = "done" /\ x.stamp = 0 /\ x.version = 0
         /\ x.stale <=> stale /\ ~ reader.excused
BY DEF Answered, NoReader, Reader

\* A hit: what is stored under the key of a request without excuse is not
\* out of date.
LEMMA HitStep ==
  ASSUME IInv, NEW r \in Readers, Hit(r) PROVE IInv'
<1> DEFINE x == Answered(readers[r], store[Key(r)])
<1>1. Typed
  BY DEF IInv
<1>2. /\ readers' = [readers EXCEPT ![r] = x]
      /\ readers[r].at = "versioned"
      /\ Key(r) \in DOMAIN store
      /\ UNCHANGED <<query, group, version, stamp, store, handlers, lingers>>
  BY <1>1 DEF Hit
<1>3. /\ x \in Reader /\ x.at = "done" /\ x.stamp = 0 /\ x.version = 0
      /\ x.stale <=> store[Key(r)] /\ ~ readers[r].excused
  <2>1. readers[r] \in Reader /\ store[Key(r)] \in BOOLEAN
    BY <1>1, <1>2 DEF Typed
  <2> QED
    BY <2>1, AnsweredReader
<1>4. readers'[r] = x
  BY <1>1, <1>2 DEF Typed
<1>5. x.version <= version /\ x.stamp <= stamp
  BY <1>1, <1>3 DEF Typed
<1> HIDE DEF x
<1>6. ~ x.stale
  <2> SUFFICES ASSUME store[Key(r)], ~ readers[r].excused PROVE FALSE
    BY <1>3
  <2>1. Clean(r) /\ Front(r) = readers[r].version
    BY <1>2 DEF Clean, Running, Front, Versioned
  <2>2. readers[r].version < readers[r].version \/ readers[r].stamp < readers[r].stamp
    BY <1>2, <2>1 DEF IInv, StoredIsBehind, Key
  <2>3. readers[r].version \in Nat /\ readers[r].stamp \in Nat
    BY <1>1 DEF Typed, Reader
  <2> QED
    BY <2>2, <2>3
<1>7. ~ Stale(r)' /\ ~ Clean(r)'
  BY <1>3, <1>4 DEF Stale, Clean, Running
<1> QED
  BY <1>2, <1>3, <1>5, <1>6, <1>7, RequestStep

\* A miss: an entry may be gone, none is new.
LEMMA MissStep ==
  ASSUME IInv, NEW r \in Readers, Miss(r) PROVE IInv'
<1> DEFINE x == [readers[r] EXCEPT !.at = "missed"]
<1>1. Typed
  BY DEF IInv
<1>2. /\ readers' = [readers EXCEPT ![r] = x]
      /\ readers[r].at = "versioned"
      /\ UNCHANGED <<query, group, version, stamp, handlers, lingers>>
      /\ DOMAIN store' \subseteq DOMAIN store
      /\ \A k \in DOMAIN store' : store'[k] = store[k]
  BY DEF Miss
<1>3. /\ x \in Reader /\ x.at = "missed" /\ x.stamp = readers[r].stamp
      /\ x.version = readers[r].version /\ (x.stale <=> readers[r].stale)
      /\ (x.excused <=> readers[r].excused)
  BY <1>1 DEF Typed, Reader
<1>4. readers'[r] = x
  BY <1>1, <1>2 DEF Typed
<1>5. x.version <= version /\ x.stamp <= stamp
  BY <1>1, <1>3 DEF Typed
<1> HIDE DEF x
<1>6. Stale(r)' => Stale(r) /\ HasRead(r)' /\ x.excused /\ Versioned(r)'
  BY <1>2, <1>3, <1>4 DEF IInv, StaleIsExcused, Stale, Running, HasRead, Versioned, Q
<1>7. Clean(r)' => Clean(r) /\ Front(r)' = Front(r)
  BY <1>2, <1>3, <1>4 DEF Clean, Running, Front, Versioned
<1> QED
  BY <1>2, <1>3, <1>5, <1>6, <1>7, RequestStep

\* The rows are read.
LEMMA ReadLateStep ==
  ASSUME IInv, NEW r \in Readers, ReadLate(r) PROVE IInv'
<1> DEFINE x == [readers[r] EXCEPT !.at = "read"]
<1>1. Typed
  BY DEF IInv
<1>2. /\ readers' = [readers EXCEPT ![r] = x]
      /\ readers[r].at = "missed"
      /\ UNCHANGED <<query, group, version, stamp, store, handlers, lingers>>
  BY DEF ReadLate
<1>3. /\ x \in Reader /\ x.at = "read" /\ x.stamp = readers[r].stamp
      /\ x.version = readers[r].version /\ (x.stale <=> readers[r].stale)
      /\ (x.excused <=> readers[r].excused)
  BY <1>1 DEF Typed, Reader
<1>4. readers'[r] = x
  BY <1>1, <1>2 DEF Typed
<1>5. x.version <= version /\ x.stamp <= stamp
  BY <1>1, <1>3 DEF Typed
<1> HIDE DEF x
<1>6. Stale(r)' => Stale(r) /\ HasRead(r)' /\ x.excused /\ Versioned(r)'
  BY <1>2, <1>3, <1>4 DEF IInv, StaleIsExcused, Stale, Running, HasRead, Versioned
<1>7. Clean(r)' => Clean(r) /\ Front(r)' = Front(r)
  BY <1>2, <1>3, <1>4 DEF Clean, Running, Front, Versioned
<1> QED
  BY <1>2, <1>3, <1>5, <1>6, <1>7, RequestStep

\* An answer is stored under the key that was read before it.
LEMMA AnswerStep ==
  ASSUME IInv, NEW r \in Readers, Answer(r) PROVE IInv'
<1> DEFINE x == Answered(readers[r], readers[r].stale)
<1>1. Typed
  BY DEF IInv
<1>2. /\ readers' = [readers EXCEPT ![r] = x]
      /\ readers[r].at = "read"
      /\ UNCHANGED <<query, group, version, stamp, handlers, lingers>>
  BY DEF Answer
<1>3. readers[r] \in Reader
  BY <1>1 DEF Typed
<1>4. /\ x \in Reader /\ x.at = "done" /\ x.stamp = 0 /\ x.version = 0
      /\ x.stale <=> readers[r].stale /\ ~ readers[r].excused
  <2>1. readers[r].stale \in BOOLEAN
    BY <1>3 DEF Reader
  <2> QED
    BY <1>3, <2>1, AnsweredReader
<1>5. readers'[r] = x
  BY <1>1, <1>2 DEF Typed
<1>6. x.version <= version /\ x.stamp <= stamp
  BY <1>1, <1>4 DEF Typed
<1>7. Running(r) /\ Versioned(r)
  BY <1>2 DEF Running, Versioned
<1>8. ASSUME NEW k \in DOMAIN store'
      PROVE  \/ k \in DOMAIN store /\ store'[k] = store[k]
             \/ k = Key(r) /\ store'[k] = readers[r].stale
  <2> DEFINE added == [j \in DOMAIN store \cup {Key(r)} |->
                         IF j = Key(r) THEN readers[r].stale ELSE store[j]]
  <2>1. store' = Findable(added, version, stamp)
    BY DEF Answer
  <2>2. k \in DOMAIN added /\ store'[k] = added[k]
    <3> HIDE DEF added
    <3> QED
      BY <2>1, FindableIsPart
  <2> QED
    BY <2>2
<1> HIDE DEF x
<1>9. ~ x.stale
  BY <1>4, <1>7 DEF IInv, StaleIsExcused, Stale
<1>10. ~ Stale(r)' /\ ~ Clean(r)'
  BY <1>4, <1>5 DEF Stale, Clean, Running
<1> QED
  BY <1>2, <1>4, <1>6, <1>7, <1>8, <1>9, <1>10, RequestStep

\* A command starts, one of the catalogue: it will invalidate the query, or
\* change its key.
LEMMA StartStep ==
  ASSUME NoneForgotten, IInv, NEW h \in Handlers, NEW c \in DOMAIN Commands,
         Start(h, c)
  PROVE  IInv'
<1> DEFINE b == Q.key \in Commands[c].bumps
           x == [todo |-> WritesOf(c), done |-> FALSE, bumps |-> b]
<1>1. Typed
  BY DEF IInv
<1>2. /\ handlers' = [handlers EXCEPT ![h] = x]
      /\ handlers[h] = NoHandler
      /\ UNCHANGED <<query, group, version, stamp, store, readers, lingers>>
  BY DEF Start
<1>3. /\ WritesOf(c) \in Seq(Groups)
      /\ b \/ Settled(WritesOf(c), query, group)
      /\ b \in BOOLEAN
  BY <1>1 DEF NoneForgotten, Typed, WritesOf, Q
<1> HIDE DEF b
<1>4. /\ x \in Handler /\ x.todo = WritesOf(c) /\ ~ x.done
      /\ x.bumps <=> b
  BY <1>3 DEF Handler
<1>5. /\ handlers'[h] = x
      /\ \A g \in Handlers \ {h} : handlers'[g] = handlers[g]
  BY <1>1, <1>2 DEF Typed
<1> HIDE DEF x
<1>6. Typed'
  <2>1. handlers' \in [Handlers -> Handler]
    BY <1>1, <1>2, <1>4 DEF Typed
  <2> QED
    BY <1>1, <1>2, <2>1 DEF Typed
<1>7. Q' = Q
  BY <1>2 DEF Q
<1>8. WritersSettle'
  BY <1>2, <1>3, <1>4, <1>5, <1>7 DEF IInv, WritersSettle
<1>9. Clear' <=> Clear
  BY <1>2, <1>4, <1>5 DEF Clear, Owed, NoHandler
<1>10. /\ \A r \in Readers : Stale(r)' <=> Stale(r)
       /\ \A r \in Readers : Clean(r)' <=> Clean(r)
       /\ \A r \in Readers : Versioned(r)' <=> Versioned(r)
       /\ \A r \in Readers : HasRead(r)' <=> HasRead(r)
       /\ \A r \in Readers : Front(r)' = Front(r)
  BY <1>2, <1>7 DEF Stale, Clean, Running, Versioned, HasRead, Front
<1>11. StaleIsExcused' /\ AnswersFollowCommands'
  BY <1>2, <1>7, <1>10 DEF IInv, StaleIsExcused, AnswersFollowCommands
<1>12. StoredIsOlder' /\ ReadIsOlder'
  BY <1>2, <1>9, <1>10 DEF IInv, StoredIsOlder, ReadIsOlder
<1>13. StoredIsBehind' /\ ReadIsBehind'
  BY <1>2, <1>10 DEF IInv, StoredIsBehind, ReadIsBehind
<1> QED
  BY <1>6, <1>8, <1>11, <1>12, <1>13 DEF IInv

\* A command ends early: what it wrote lingers, unless it has changed the
\* key since.
LEMMA FailStep ==
  ASSUME IInv, NEW h \in Handlers, Fail(h) PROVE IInv'
<1>1. Typed
  BY DEF IInv
<1>2. /\ handlers' = [handlers EXCEPT ![h] = NoHandler]
      /\ lingers' = (lingers \/ handlers[h].done)
      /\ UNCHANGED <<query, group, version, stamp, store, readers>>
  BY DEF Fail
<1>3. /\ handlers'[h] = NoHandler
      /\ \A g \in Handlers \ {h} : handlers'[g] = handlers[g]
  BY <1>1, <1>2 DEF Typed
<1>4. Typed'
  <2>1. NoHandler \in Handler
    BY DEF NoHandler, Handler
  <2>2. handlers' \in [Handlers -> Handler]
    BY <1>1, <1>2, <2>1 DEF Typed
  <2>3. lingers' \in BOOLEAN
    BY <1>1, <1>2 DEF Typed, Handler
  <2> QED
    BY <1>1, <1>2, <2>2, <2>3 DEF Typed
<1>5. Q' = Q
  BY <1>2 DEF Q
<1>6. WritersSettle'
  BY <1>2, <1>3, <1>5 DEF IInv, WritersSettle, NoHandler, Settled
<1>7. Clear' => Clear
  BY <1>2, <1>3 DEF Clear, Owed
<1>8. /\ \A r \in Readers : Stale(r)' <=> Stale(r)
      /\ \A r \in Readers : Clean(r)' <=> Clean(r)
      /\ \A r \in Readers : Versioned(r)' <=> Versioned(r)
      /\ \A r \in Readers : HasRead(r)' <=> HasRead(r)
      /\ \A r \in Readers : Front(r)' = Front(r)
  BY <1>2, <1>5 DEF Stale, Clean, Running, Versioned, HasRead, Front
<1>9. StaleIsExcused' /\ AnswersFollowCommands'
  BY <1>2, <1>5, <1>8 DEF IInv, StaleIsExcused, AnswersFollowCommands
<1>10. StoredIsOlder' /\ ReadIsOlder'
  BY <1>2, <1>7, <1>8 DEF IInv, StoredIsOlder, ReadIsOlder
<1>11. StoredIsBehind' /\ ReadIsBehind'
  BY <1>2, <1>8 DEF IInv, StoredIsBehind, ReadIsBehind
<1> QED
  BY <1>4, <1>6, <1>9, <1>10, <1>11 DEF IInv

\* With its first write a command settles what is left: what changes the key
\* later is still to come.
LEMMA TailSettles ==
  ASSUME NEW todo \in Seq(Groups), todo # <<>>, NEW q, NEW g,
         Settled(todo, q, g)
  PROVE  /\ Settled(Tail(todo), q, g)
         /\ \A j \in DOMAIN todo :
              todo[j] \in Queries[q].stamped /\ Head(todo) \notin Queries[q].stamped
                => j - 1 \in DOMAIN Tail(todo) /\ Tail(todo)[j - 1] = todo[j]
<1>1. /\ Tail(todo) \in Seq(Groups)
      /\ Len(todo) \in Nat \ {0} /\ DOMAIN todo = 1..Len(todo)
      /\ DOMAIN Tail(todo) = 1..(Len(todo) - 1)
      /\ \A i \in 1..(Len(todo) - 1) : Tail(todo)[i] = todo[i + 1]
      /\ Head(todo) = todo[1]
  BY HeadTailProperties, LenProperties
<1>2. \A j \in DOMAIN todo : j # 1 =>
         j - 1 \in DOMAIN Tail(todo) /\ Tail(todo)[j - 1] = todo[j]
  BY <1>1
<1>3. Settled(Tail(todo), q, g)
  <2> SUFFICES ASSUME NEW i \in DOMAIN Tail(todo), Tail(todo)[i] = g
               PROVE  \E j \in DOMAIN Tail(todo) :
                        j >= i /\ Tail(todo)[j] \in Queries[q].stamped
    BY DEF Settled
  <2>1. i + 1 \in DOMAIN todo /\ todo[i + 1] = g
    BY <1>1
  <2>2. PICK j \in DOMAIN todo : j >= i + 1 /\ todo[j] \in Queries[q].stamped
    BY <2>1 DEF Settled
  <2>3. j - 1 >= i /\ j # 1
    BY <1>1, <2>2
  <2> QED
    BY <1>2, <2>2, <2>3
<1> QED
  BY <1>1, <1>2, <1>3

\* A statement writes: what it makes stale is excused, and owed until the
\* command invalidates or changes the key.
LEMMA WriteStep ==
  ASSUME IInv, NEW h \in Handlers, Write(h) PROVE IInv'
<1> DEFINE w == Head(handlers[h].todo)
           own == w = group
           x == [handlers[h] EXCEPT !.todo = Tail(@),
                                    !.done = (@ \/ own) /\ w \notin Q.stamped]
<1>1. Typed /\ handlers[h] \in Handler /\ handlers[h].todo # <<>>
  BY DEF IInv, Typed, Write
<1>2. /\ stamp' = IF w \in Q.stamped THEN stamp + 1 ELSE stamp
      /\ store' = Findable([k \in DOMAIN store |-> store[k] \/ own], version, stamp')
      /\ readers' = [r \in Readers |->
            IF own /\ Running(r)
            THEN [readers[r] EXCEPT !.stale = @ \/ HasRead(r), !.excused = TRUE]
            ELSE readers[r]]
      /\ lingers' = \/ lingers
                    \/ own /\ Unguarded /\ \E r \in Readers : HasRead(r)
      /\ UNCHANGED <<query, group, version>>
  BY DEF Write
<1>3. handlers' = [handlers EXCEPT ![h] = x]
  BY <1>1 DEF Write, Typed, Handler
<1>4. Q' = Q
  BY <1>2 DEF Q
<1> HIDE DEF x, own, w
<1>5. own \in BOOLEAN /\ (own <=> w = group)
  BY DEF own
<1>6. /\ x \in Handler /\ x.todo = Tail(handlers[h].todo)
      /\ x.bumps <=> handlers[h].bumps
      /\ x.done <=> (handlers[h].done \/ own) /\ w \notin Q.stamped
  <2> DEFINE d == (handlers[h].done \/ own) /\ w \notin Q.stamped
  <2>1. /\ Tail(handlers[h].todo) \in Seq(Groups)
        /\ d \in BOOLEAN
    BY <1>1, HeadTailProperties DEF Handler
  <2>2. x = [handlers[h] EXCEPT !.todo = Tail(@), !.done = d]
    BY DEF x
  <2> HIDE DEF d
  <2>3. /\ x \in Handler /\ x.todo = Tail(handlers[h].todo)
        /\ x.bumps <=> handlers[h].bumps
        /\ x.done <=> d
    BY <1>1, <2>1, <2>2 DEF Handler
  <2> QED
    BY <2>3 DEF d
<1>7. /\ handlers'[h] = x
      /\ \A g \in Handlers \ {h} : handlers'[g] = handlers[g]
  BY <1>1, <1>3 DEF Typed
<1>8. /\ stamp \in Nat /\ stamp' \in Nat /\ stamp <= stamp'
      /\ w \in Q.stamped => stamp < stamp'
  <2>1. stamp \in Nat /\ stamp' = IF w \in Q.stamped THEN stamp + 1 ELSE stamp
    BY <1>1, <1>2 DEF Typed
  <2> QED
    BY <2>1
<1>9. \A k \in DOMAIN store' :
        k \in DOMAIN store /\ (store'[k] <=> store[k] \/ own)
  <2> DEFINE written == [k \in DOMAIN store |-> store[k] \/ own]
  <2>1. \A k \in DOMAIN written : written[k] <=> store[k] \/ own
    OBVIOUS
  <2>2. DOMAIN written = DOMAIN store /\ store' = Findable(written, version, stamp')
    BY <1>2
  <2> HIDE DEF written
  <2> QED
    BY <2>1, <2>2, FindableIsPart
<1>10. \A r \in Readers :
         /\ readers'[r].at = readers[r].at
         /\ readers'[r].stamp = readers[r].stamp
         /\ readers'[r].version = readers[r].version
         /\ readers'[r].stale <=> readers[r].stale \/ (own /\ Running(r) /\ HasRead(r))
         /\ readers'[r].excused <=> readers[r].excused \/ (own /\ Running(r))
         /\ readers'[r] \in Reader
  <2> SUFFICES ASSUME NEW r \in Readers
               PROVE  /\ readers'[r].at = readers[r].at
                      /\ readers'[r].stamp = readers[r].stamp
                      /\ readers'[r].version = readers[r].version
                      /\ readers'[r].stale <=>
                           readers[r].stale \/ (own /\ Running(r) /\ HasRead(r))
                      /\ readers'[r].excused <=>
                           readers[r].excused \/ (own /\ Running(r))
                      /\ readers'[r] \in Reader
    OBVIOUS
  <2>1. readers[r] \in Reader
    BY <1>1 DEF Typed
  <2>2. CASE own /\ Running(r)
    <3> DEFINE v == readers[r].stale \/ HasRead(r)
    <3>1. /\ v \in BOOLEAN
          /\ readers'[r] = [readers[r] EXCEPT !.stale = v, !.excused = TRUE]
      BY <1>2, <2>2
    <3> HIDE DEF v
    <3>2. /\ readers'[r] \in Reader
          /\ readers'[r].at = readers[r].at
          /\ readers'[r].stamp = readers[r].stamp
          /\ readers'[r].version = readers[r].version
          /\ readers'[r].stale <=> v
          /\ readers'[r].excused
      BY <2>1, <3>1 DEF Reader
    <3> QED
      BY <2>2, <3>2 DEF v
  <2>3. CASE ~ (own /\ Running(r))
    BY <1>2, <2>1, <2>3
  <2> QED
    BY <2>2, <2>3
<1>11. \A r \in Readers :
         /\ Running(r)' <=> Running(r)
         /\ HasRead(r)' <=> HasRead(r)
         /\ Versioned(r)' <=> Versioned(r)
         /\ Front(r)' = Front(r)
  BY <1>2, <1>4, <1>10 DEF Running, HasRead, Versioned, Front
<1>12. Typed'
  <2>1. /\ readers' \in [Readers -> Reader]
        /\ handlers' \in [Handlers -> Handler]
    BY <1>1, <1>2, <1>3, <1>6, <1>10 DEF Typed
  <2>2. \A r \in Readers :
          readers'[r].version <= version' /\ readers'[r].stamp <= stamp'
    <3> SUFFICES ASSUME NEW r \in Readers
                 PROVE  readers[r].version <= version /\ readers[r].stamp <= stamp'
      BY <1>2, <1>10
    <3>1. readers[r] \in Reader /\ readers[r].version <= version
          /\ readers[r].stamp <= stamp
      BY <1>1 DEF Typed
    <3> QED
      BY <1>8, <3>1 DEF Reader
  <2>3. /\ DOMAIN store' \subseteq (0..version') \X (0..stamp')
        /\ \A k \in DOMAIN store' : store'[k] \in BOOLEAN
    <3>1. DOMAIN store' \subseteq (0..version) \X (0..stamp)
      BY <1>1, <1>9 DEF Typed
    <3>2. 0..stamp \subseteq 0..stamp'
      BY <1>8
    <3>3. \A k \in DOMAIN store' : store'[k] \in BOOLEAN
      <4> DEFINE written == [k \in DOMAIN store |-> store[k] \/ own]
      <4>1. \A k \in DOMAIN written : written[k] \in BOOLEAN
        OBVIOUS
      <4>2. store' = Findable(written, version, stamp')
        BY <1>2
      <4> HIDE DEF written
      <4> QED
        BY <4>1, <4>2, FindableIsPart
    <3> QED
      BY <1>2, <3>1, <3>2, <3>3
  <2>4. lingers' \in BOOLEAN
    BY <1>1, <1>2 DEF Typed
  <2> QED
    BY <1>1, <1>2, <1>8, <2>1, <2>2, <2>3, <2>4 DEF Typed
<1>13. WritersSettle'
  <2> SUFFICES ASSUME ~ x.bumps
               PROVE  /\ Settled(x.todo, query, group)
                      /\ x.done => \E j \in DOMAIN x.todo : x.todo[j] \in Q.stamped
    BY <1>2, <1>4, <1>7 DEF IInv, WritersSettle
  <2>1. /\ handlers[h].todo \in Seq(Groups)
        /\ Settled(handlers[h].todo, query, group)
        /\ handlers[h].done => \E j \in DOMAIN handlers[h].todo :
                                  handlers[h].todo[j] \in Q.stamped
    BY <1>1, <1>6 DEF IInv, WritersSettle, Handler
  <2>2. Settled(x.todo, query, group)
    BY <1>1, <1>6, <2>1, TailSettles
  <2>3. ASSUME x.done PROVE \E j \in DOMAIN x.todo : x.todo[j] \in Q.stamped
    <3>1. w \notin Q.stamped /\ (handlers[h].done \/ own)
      BY <1>6, <2>3
    <3>2. PICK j \in DOMAIN handlers[h].todo : handlers[h].todo[j] \in Q.stamped
      <4>1. CASE handlers[h].done
        BY <2>1, <4>1
      <4>2. CASE own
        <5>1. 1 \in DOMAIN handlers[h].todo /\ handlers[h].todo[1] = group
          BY <1>1, <1>5, <2>1, <4>2, LenProperties DEF w
        <5> QED
          BY <2>1, <5>1 DEF Settled, Q
      <4> QED
        BY <3>1, <4>1, <4>2
    <3> QED
      BY <1>1, <1>6, <2>1, <3>1, <3>2, TailSettles DEF Q, w
  <2> QED
    BY <2>2, <2>3
<1>14. Clear' => (Clear /\ ~ own) \/ stamp < stamp'
  BY <1>2, <1>6, <1>7, <1>8 DEF Clear, Owed
<1>15. StaleIsExcused'
  <2> SUFFICES ASSUME NEW r \in Readers, Stale(r)'
               PROVE  /\ HasRead(r) /\ readers'[r].excused
                      /\ group \in Q.stamped => readers[r].stamp < stamp'
    BY <1>2, <1>4, <1>10, <1>11 DEF StaleIsExcused
  <2>1. Running(r) /\ readers[r].stamp \in Nat /\ readers[r].stamp <= stamp
    BY <1>1, <1>11 DEF Stale, Typed, Reader
  <2>2. CASE Stale(r)
    BY <1>8, <1>10, <2>1, <2>2 DEF IInv, StaleIsExcused
  <2>3. CASE ~ Stale(r)
    BY <1>5, <1>8, <1>10, <2>1, <2>3 DEF Stale
  <2> QED
    BY <2>2, <2>3
<1>16. StoredIsOlder'
  <2> SUFFICES ASSUME NEW k \in DOMAIN store', store'[k], Clear'
               PROVE  k[1] < version \/ k[2] < stamp'
    BY <1>2 DEF StoredIsOlder
  <2>1. k \in DOMAIN store /\ k[2] \in Nat /\ k[2] <= stamp
    BY <1>1, <1>9 DEF Typed
  <2>2. CASE stamp < stamp'
    BY <1>8, <2>1, <2>2
  <2>3. CASE Clear /\ ~ own
    BY <1>8, <1>9, <2>1, <2>3 DEF IInv, StoredIsOlder
  <2> QED
    BY <1>14, <2>2, <2>3
<1>17. ReadIsOlder'
  <2> SUFFICES ASSUME NEW r \in Readers, Stale(r)', Clear'
               PROVE  \/ Versioned(r) /\ readers[r].version < version
                      \/ readers[r].stamp < stamp'
    BY <1>2, <1>10, <1>11 DEF ReadIsOlder
  <2>1. readers[r].stamp \in Nat /\ readers[r].stamp <= stamp
    BY <1>1 DEF Typed, Reader
  <2>2. CASE stamp < stamp'
    BY <1>8, <2>1, <2>2
  <2>3. CASE Clear /\ ~ own
    <3>1. Stale(r)
      BY <1>10, <1>11, <2>3 DEF Stale
    <3> QED
      BY <1>8, <2>1, <2>3, <3>1 DEF IInv, ReadIsOlder
  <2> QED
    BY <1>14, <2>2, <2>3
<1>18. \A r \in Readers : Clean(r)' => Clean(r) /\ ~ own
  BY <1>10, <1>11 DEF Clean
<1>19. StoredIsBehind'
  BY <1>9, <1>10, <1>11, <1>18 DEF IInv, StoredIsBehind
<1>20. ReadIsBehind'
  <2> SUFFICES ASSUME NEW r \in Readers, NEW s \in Readers, Clean(r)', Stale(s)'
               PROVE  \/ Versioned(s) /\ readers[s].version < Front(r)
                      \/ readers[s].stamp < readers[r].stamp
    BY <1>10, <1>11 DEF ReadIsBehind
  <2>1. Clean(r) /\ Stale(s)
    BY <1>10, <1>11, <1>18 DEF Stale
  <2> QED
    BY <2>1 DEF IInv, ReadIsBehind
<1>21. AnswersFollowCommands'
  BY <1>10 DEF IInv, AnswersFollowCommands, Running
<1> QED
  BY <1>12, <1>13, <1>15, <1>16, <1>17, <1>19, <1>20, <1>21 DEF IInv

\* A command ends.  What was read early, before it, is now under an older
\* version, or lingers; what is read late will be read anew.
LEMMA InvalidateStep ==
  ASSUME IInv, NEW h \in Handlers, Invalidate(h) PROVE IInv'
<1> DEFINE bumps == handlers[h].bumps
           deleted == Q.key \in Unversioned
<1>1. Typed /\ handlers[h] \in Handler /\ handlers[h].todo = <<>>
  BY DEF IInv, Typed, Invalidate
<1>2. /\ version' = IF bumps /\ ~ deleted THEN version + 1 ELSE version
      /\ bumps /\ deleted => store' = <<>>
      /\ ~ (bumps /\ deleted) => store' = Findable(store, version', stamp)
      /\ handlers' = [handlers EXCEPT ![h] = NoHandler]
      /\ lingers' = IF bumps THEN MayStoreOld ELSE lingers
      /\ UNCHANGED <<query, group, stamp, readers>>
  BY DEF Invalidate
<1> HIDE DEF bumps, deleted
<1>3. /\ handlers'[h] = NoHandler
      /\ \A g \in Handlers \ {h} : handlers'[g] = handlers[g]
  BY <1>1, <1>2 DEF Typed
<1>4. \A k \in DOMAIN store' :
        ~ (bumps /\ deleted) /\ k \in DOMAIN store /\ store'[k] = store[k]
  <2>1. CASE bumps /\ deleted
    BY <1>2, <2>1
  <2>2. CASE ~ (bumps /\ deleted)
    BY <1>2, <2>2, FindableIsPart
  <2> QED
    BY <2>1, <2>2
<1>5. /\ version \in Nat /\ version' \in Nat /\ version <= version'
      /\ bumps /\ ~ deleted => version < version'
  BY <1>1, <1>2 DEF Typed
<1>6. Typed'
  <2>1. handlers' \in [Handlers -> Handler]
    <3>1. NoHandler \in Handler
      BY DEF NoHandler, Handler
    <3> QED
      BY <1>1, <1>2, <3>1 DEF Typed
  <2>2. \A r \in Readers :
          readers'[r].version <= version' /\ readers'[r].stamp <= stamp'
    BY <1>1, <1>2, <1>5 DEF Typed, Reader
  <2>3. /\ DOMAIN store' \subseteq (0..version') \X (0..stamp')
        /\ \A k \in DOMAIN store' : store'[k] \in BOOLEAN
    <3>1. DOMAIN store' \subseteq (0..version) \X (0..stamp)
      BY <1>1, <1>4 DEF Typed
    <3>2. 0..version \subseteq 0..version'
      BY <1>5
    <3>3. \A k \in DOMAIN store' : store'[k] \in BOOLEAN
      BY <1>1, <1>4 DEF Typed
    <3> QED
      BY <1>2, <3>1, <3>2, <3>3
  <2>4. lingers' \in BOOLEAN
    BY <1>1, <1>2 DEF Typed, MayStoreOld
  <2> QED
    BY <1>1, <1>2, <1>5, <2>1, <2>2, <2>3, <2>4 DEF Typed
<1>7. Q' = Q
  BY <1>2 DEF Q
<1>8. WritersSettle'
  BY <1>2, <1>3, <1>7 DEF IInv, WritersSettle, NoHandler, Settled
<1>9. ~ bumps => ~ handlers[h].done
  BY <1>1 DEF IInv, WritersSettle, bumps
<1>10. ~ bumps /\ Clear' => Clear
  BY <1>2, <1>3, <1>9 DEF Clear, Owed
<1>11. \A r \in Readers :
         /\ readers'[r] = readers[r]
         /\ Stale(r)' <=> Stale(r)
         /\ Clean(r)' <=> Clean(r)
         /\ Versioned(r)' <=> Versioned(r)
         /\ HasRead(r)' <=> HasRead(r)
  BY <1>2, <1>7 DEF Stale, Clean, Running, Versioned, HasRead
<1>12. StaleIsExcused' /\ AnswersFollowCommands'
  BY <1>2, <1>7, <1>11 DEF IInv, StaleIsExcused, AnswersFollowCommands
<1>13. StoredIsOlder'
  <2> SUFFICES ASSUME NEW k \in DOMAIN store', store'[k], Clear'
               PROVE  k[1] < version' \/ k[2] < stamp
    BY <1>2 DEF StoredIsOlder
  <2>1. k \in DOMAIN store /\ store[k] /\ k[1] \in Nat /\ k[1] <= version
    BY <1>1, <1>4 DEF Typed
  <2>2. CASE bumps
    BY <1>4, <1>5, <2>1, <2>2
  <2>3. CASE ~ bumps
    BY <1>5, <1>10, <2>1, <2>3 DEF IInv, StoredIsOlder
  <2> QED
    BY <2>2, <2>3
<1>14. ReadIsOlder'
  <2> SUFFICES ASSUME NEW r \in Readers, Stale(r), Clear'
               PROVE  \/ Versioned(r) /\ readers[r].version < version'
                      \/ readers[r].stamp < stamp
    BY <1>2, <1>11 DEF ReadIsOlder
  <2>1. /\ readers[r].version \in Nat /\ readers[r].version <= version
        /\ HasRead(r) /\ readers[r].stale
        /\ group \in Q.stamped => readers[r].stamp < stamp
    BY <1>1 DEF IInv, StaleIsExcused, Typed, Reader, Stale
  <2>2. CASE ~ bumps
    BY <1>5, <1>10, <2>1, <2>2 DEF IInv, ReadIsOlder
  <2>3. CASE bumps /\ Versioned(r) /\ ~ deleted
    BY <1>5, <2>1, <2>3
  <2>4. CASE bumps /\ (~ Versioned(r) \/ deleted)
    <3>1. ~ MayStoreOld
      BY <1>2, <2>4 DEF Clear
    <3>2. ~ Unguarded
      BY <2>1, <2>4, <3>1 DEF MayStoreOld, Versioned, deleted
    <3>3. ~ Versioned(r) /\ group \notin Q.early
      BY <2>4, <3>2 DEF Unguarded, deleted
    <3>4. group \notin Q.late
      BY <2>1, <3>3 DEF HasRead, Versioned
    <3>5. group \in Q.stamped
      BY <1>1, <3>3, <3>4 DEF Typed, Shows, Q
    <3> QED
      BY <2>1, <3>5
  <2> QED
    BY <2>2, <2>3, <2>4
<1>15. \A r \in Readers :
         Front(r) \in Nat /\ Front(r)' \in Nat /\ Front(r) <= Front(r)'
  BY <1>1, <1>5, <1>11 DEF Front, Typed, Reader
<1>16. StoredIsBehind'
  <2> SUFFICES ASSUME NEW r \in Readers, Clean(r), NEW k \in DOMAIN store', store'[k]
               PROVE  k[1] < Front(r)' \/ k[2] < readers[r].stamp
    BY <1>11 DEF StoredIsBehind
  <2>1. k \in DOMAIN store /\ store[k] /\ k[1] \in Nat
    BY <1>1, <1>4 DEF Typed
  <2>2. k[1] < Front(r) \/ k[2] < readers[r].stamp
    BY <2>1 DEF IInv, StoredIsBehind
  <2> QED
    BY <1>15, <2>1, <2>2
<1>17. ReadIsBehind'
  <2> SUFFICES ASSUME NEW r \in Readers, NEW s \in Readers, Clean(r), Stale(s)
               PROVE  \/ Versioned(s) /\ readers[s].version < Front(r)'
                      \/ readers[s].stamp < readers[r].stamp
    BY <1>11 DEF ReadIsBehind
  <2>1. \/ Versioned(s) /\ readers[s].version < Front(r)
        \/ readers[s].stamp < readers[r].stamp
    BY DEF IInv, ReadIsBehind
  <2>2. readers[s].version \in Nat
    BY <1>1 DEF Typed, Reader
  <2> QED
    BY <1>15, <2>1, <2>2
<1> QED
  BY <1>6, <1>8, <1>12, <1>13, <1>14, <1>16, <1>17 DEF IInv

\* A step of none of them changes nothing.
LEMMA StutterStep == ASSUME IInv, UNCHANGED vars PROVE IInv'
<1>1. UNCHANGED <<query, group, version, stamp, store, readers, handlers, lingers>>
  BY DEF vars
<1>2. Typed' /\ WritersSettle' /\ StaleIsExcused' /\ AnswersFollowCommands'
  BY <1>1 DEF IInv, Typed, WritersSettle, StaleIsExcused, AnswersFollowCommands,
              Stale, Running, HasRead, Q
<1>3. StoredIsOlder' /\ ReadIsOlder'
  BY <1>1 DEF IInv, StoredIsOlder, ReadIsOlder, Stale, Running, Clear, Owed, Versioned
<1>4. StoredIsBehind' /\ ReadIsBehind'
  BY <1>1 DEF IInv, StoredIsBehind, ReadIsBehind, Stale, Clean, Running, Versioned, Front
<1> QED
  BY <1>2, <1>3, <1>4 DEF IInv

\* Every step keeps the invariant, if the catalogue forgets no invalidation.
LEMMA NextInv == ASSUME NoneForgotten, IInv, [Next]_vars PROVE IInv'
<1>1. ASSUME NEW r \in Readers,
             \/ ReadEarly(r) \/ ReadVersion(r) \/ MissVersion(r) \/ Hit(r)
             \/ Miss(r) \/ ReadLate(r) \/ Answer(r)
      PROVE  IInv'
  BY <1>1, ReadEarlyStep, ReadVersionStep, MissVersionStep, HitStep, MissStep,
     ReadLateStep, AnswerStep
<1>2. ASSUME NEW h \in Handlers,
             \/ \E c \in DOMAIN Commands : Start(h, c)
             \/ Write(h) \/ Invalidate(h) \/ Fail(h)
      PROVE  IInv'
  BY <1>2, StartStep, WriteStep, InvalidateStep, FailStep
<1>3. CASE UNCHANGED vars
  BY <1>3, StutterStep
<1> QED
  BY <1>1, <1>2, <1>3 DEF Next

\* The invariant holds in every state, whatever the queries, the commands,
\* and the number of requests and failures.
THEOREM CacheInvariant == ASSUME NoneForgotten PROVE Spec => []IInv
<1>1. Init => IInv
  BY InitInv
<1>2. IInv /\ [Next]_vars => IInv'
  BY NextInv
<1> QED
  BY <1>1, <1>2, PTL DEF Spec

\* Under the present key nothing is out of date but what a running command
\* owes, or what lingers until the next invalidation, if no command forgets
\* an invalidation: the order of the steps of safeGetJson, safeSetJson and
\* bumpVersion is right for any catalogue.
THEOREM CurrentEntriesAreFresh ==
  ASSUME NoneForgotten PROVE Spec => []CurrentEntryIsFresh
<1>1. IInv => CurrentEntryIsFresh
  <2> SUFFICES ASSUME IInv, <<version, stamp>> \in DOMAIN store,
                      store[<<version, stamp>>], Clear
               PROVE  FALSE
    BY DEF CurrentEntryIsFresh, Clear
  <2>1. version < version \/ stamp < stamp
    BY DEF IInv, StoredIsOlder
  <2> QED
    BY <2>1 DEF IInv, Typed
<1> QED
  BY <1>1, CacheInvariant, PTL

\* No request answers with what a command that ended before it began has
\* overwritten.
THEOREM RequestsFollowCommands ==
  ASSUME NoneForgotten PROVE Spec => []AnswersFollowCommands
<1>1. IInv => AnswersFollowCommands
  BY DEF IInv
<1> QED
  BY <1>1, CacheInvariant, PTL
=============================================================================
