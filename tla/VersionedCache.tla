--------------------------- MODULE VersionedCache ---------------------------
(***************************************************************************)
(* The read caches.  A query reads a version counter, makes it a part of   *)
(* the key under which it looks its answer up, and on a miss reads the     *)
(* database and stores the answer under that key.  A command writes the    *)
(* database and then increments the counters of the queries it touches.    *)
(* Nothing is locked: only the order of these steps keeps answers fresh.   *)
(*                                                                         *)
(* A behaviour follows the entries of one query, for no two queries share  *)
(* a key, and in them one group of columns, for an answer is fresh or old  *)
(* in each group by itself.  Of an answer only whether it is out of date   *)
(* in that group is kept.                                                  *)
(***************************************************************************)
EXTENDS Naturals, Sequences

CONSTANTS
  Groups,      \* groups of columns that change together
  Queries,     \* name -> [key, early, stamped, late]
  Commands,    \* name -> [writes, bumps]
  Unversioned, \* keys invalidated by deletion instead of a new version
  Known,       \* name -> groups that are not followed: nothing is claimed of
               \* them, or another query and group stands for them
  Readers,     \* requests that run the query
  Handlers,    \* requests and jobs that run a command
  MaxCommands, \* commands in a behaviour (bound)
  MaxFaults    \* Redis errors, crashes and failing statements (bound)

VARIABLES
  query,    \* the query followed
  group,    \* the group of columns followed, one that it shows
  version,  \* its counter in Redis, 0 while it is missing
  stamp,    \* how often the data changed that are a part of the key
  store,    \* key -> is the stored answer out of date?
  readers,  \* the requests that run the query
  handlers, \* the commands being executed
  lingers,  \* history: may an old answer stay until the next invalidation?
  started,  \* commands so far
  faults    \* failures so far

vars == <<query, group, version, stamp, store, readers, handlers, lingers,
                 started, faults>>

Q == Queries[query]

\* What is followed of a query.
Shows(q) == (Queries[q].early \cup Queries[q].stamped \cup Queries[q].late) \ Known[q]

NoReader == [at |-> "done", stamp |-> 0, version |-> 0,
             stale |-> FALSE, excused |-> FALSE]
NoHandler == [todo |-> <<>>, done |-> FALSE, bumps |-> FALSE]

Init ==
  /\ query \in DOMAIN Queries
  /\ group \in Shows(query)
  /\ version = 0
  /\ stamp = 0
  /\ store = <<>>
  /\ readers = [r \in Readers |-> NoReader]
  /\ handlers = [h \in Handlers |-> NoHandler]
  /\ lingers = FALSE
  /\ started = 0
  /\ faults = 0

Fault == faults < MaxFaults /\ faults' = faults + 1

\* Has a command that has not ended written the group, and not changed the
\* key since?
Owed == \E h \in Handlers : handlers[h].done

----------------------------------------------------------------------------
(* The query *)

Key(r) == <<readers[r].version, readers[r].stamp>>

\* A request that has answered; of the answer it is kept whether it was out
\* of date without an excuse.
Answered(reader, stale) ==
  [NoReader EXCEPT !.stale = stale /\ ~ reader.excused]

Running(r) == readers[r].at # "done"

\* The entries that a request can still find: under version 0, or under what
\* is current after a step or was so when a running request read it.  All
\* others are left out.
Findable(entries, v, s) ==
  LET running == {r \in Readers : Running(r)}
      keys == {k \in DOMAIN entries :
                 /\ k[1] \in {0, v} \cup {readers[r].version : r \in running}
                 /\ k[2] \in {s} \cup {readers[r].stamp : r \in running}}
  IN  [k \in keys |-> entries[k]]

\* What is read before the counter: the row the request is about, and what
\* becomes a part of the key.
ReadEarly(r) ==
  /\ readers[r].at = "done"
  /\ readers' = [readers EXCEPT ![r] =
       [NoReader EXCEPT !.at = "early", !.stamp = stamp,
                        !.excused = Owed \/ lingers]]
  /\ UNCHANGED <<query, group, version, stamp, store, handlers, lingers,
                 started, faults>>

\* getVersion
ReadVersion(r) ==
  /\ readers[r].at = "early"
  /\ readers' = [readers EXCEPT ![r].at = "versioned",
                                ![r].version = version]
  /\ UNCHANGED <<query, group, version, stamp, store, handlers, lingers,
                 started, faults>>

\* getVersion answers 0 when Redis does not: the request sees what was
\* stored under version 0, of any age.
MissVersion(r) ==
  /\ readers[r].at = "early"
  /\ Q.key \notin Unversioned
  /\ Fault
  /\ readers' = [readers EXCEPT ![r].at = "versioned", ![r].version = 0,
                                ![r].excused = TRUE]
  /\ UNCHANGED <<query, group, version, stamp, store, handlers, lingers,
                 started>>

\* safeGetJson finds the answer, which replaces all the request has read.
Hit(r) ==
  /\ readers[r].at = "versioned"
  /\ Key(r) \in DOMAIN store
  /\ readers' = [readers EXCEPT ![r] = Answered(@, store[Key(r)])]
  /\ UNCHANGED <<query, group, version, stamp, store, handlers, lingers,
                 started, faults>>

\* safeGetJson finds nothing, the time to live of the entry having ended
\* perhaps, or fails and answers null.
Miss(r) ==
  /\ readers[r].at = "versioned"
  /\ \/ store' = [k \in DOMAIN store \ {Key(r)} |-> store[k]]
        /\ UNCHANGED faults
     \/ UNCHANGED store /\ Fault
  /\ readers' = [readers EXCEPT ![r].at = "missed"]
  /\ UNCHANGED <<query, group, version, stamp, handlers, lingers,
                 started>>

\* The statements that read the database after the miss, at the first of
\* which every group is read: a later one is never more out of date.
ReadLate(r) ==
  /\ readers[r].at = "missed"
  /\ readers' = [readers EXCEPT ![r].at = "read"]
  /\ UNCHANGED <<query, group, version, stamp, store, handlers, lingers,
                 started, faults>>

\* safeSetJson; one that fails is as one whose entry expires at once.
Answer(r) ==
  /\ readers[r].at = "read"
  /\ store' = Findable([k \in DOMAIN store \cup {Key(r)} |->
                          IF k = Key(r) THEN readers[r].stale ELSE store[k]],
                       version, stamp)
  /\ readers' = [readers EXCEPT ![r] = Answered(@, @.stale)]
  /\ UNCHANGED <<query, group, version, stamp, handlers, lingers, started,
                 faults>>

----------------------------------------------------------------------------
(* The commands *)

\* The writes of a command that are followed: those of the group, and those
\* that change the key around them.  A key that changes alone only makes
\* requests miss.
Seen(c, q, g) ==
  LET writes == Commands[c].writes IN
  IF \E i \in DOMAIN writes : writes[i] = g
  THEN SelectSeq(writes, LAMBDA w : w = g \/ w \in Queries[q].stamped)
  ELSE <<>>
WritesOf(c) == Seen(c, query, group)

Start(h, c) ==
  /\ handlers[h] = NoHandler
  /\ WritesOf(c) # <<>> \/ Q.key \in Commands[c].bumps
  /\ started < MaxCommands
  /\ started' = started + 1
  /\ handlers' = [handlers EXCEPT ![h] =
       [todo |-> WritesOf(c), done |-> FALSE,
        bumps |-> Q.key \in Commands[c].bumps]]
  /\ UNCHANGED <<query, group, version, stamp, store, readers, lingers,
                 faults>>

HasRead(r) ==
  \/ Running(r) /\ group \notin Q.late
  \/ readers[r].at = "read"

\* Is the group read at a point where no version tells that it was changed
\* since?
Unguarded == group \in Q.early \/ Q.key \in Unversioned

\* One committed statement.  If it writes the group it makes stale every
\* stored answer and what running requests have read of it.  A new stamp
\* puts out of reach what is stored under the old ones, but for requests
\* that have read these: with it a command has made up for its writes.
Write(h) ==
  /\ handlers[h].todo # <<>>
  /\ LET written == Head(handlers[h].todo)
         own == written = group
     IN
       /\ stamp' = IF written \in Q.stamped THEN stamp + 1 ELSE stamp
       /\ handlers' = [handlers EXCEPT ![h].todo = Tail(@),
                                       ![h].done =
                                          (@ \/ own) /\ written \notin Q.stamped]
       /\ store' = Findable([k \in DOMAIN store |-> store[k] \/ own],
                            version, stamp')
       /\ readers' = [r \in Readers |->
            IF own /\ Running(r)
            THEN [readers[r] EXCEPT !.stale = @ \/ HasRead(r),
                                    !.excused = TRUE]
            ELSE readers[r]]
       /\ lingers' = \/ lingers
                     \/ own /\ Unguarded /\ \E r \in Readers : HasRead(r)
  /\ UNCHANGED <<query, group, version, started, faults>>

\* Can a request that has read the group before it was written still store
\* that under the key now current?
MayStoreOld ==
  \E r \in Readers :
    readers[r].stale /\ Unguarded /\ HasRead(r)
      /\ (readers[r].at = "early" \/ Q.key \in Unversioned)

Invalidate_Delete(h) ==   \* mutant: deletes the counter
  /\ handlers[h] # NoHandler
  /\ handlers[h].todo = <<>>
  /\ version' = IF handlers[h].bumps THEN 0 ELSE version
  /\ handlers' = [handlers EXCEPT ![h] = NoHandler]
  /\ UNCHANGED <<query, group, stamp, store, readers, lingers, started, faults>>

Invalidate_First(h) ==   \* mutant: bumped before the last write
  /\ handlers[h] # NoHandler
  /\ IF handlers[h].bumps
     THEN /\ version' = version + 1
          /\ handlers' = [handlers EXCEPT ![h].bumps = FALSE, ![h].done = FALSE]
     ELSE /\ handlers[h].todo = <<>>
          /\ UNCHANGED version
          /\ handlers' = [handlers EXCEPT ![h] = NoHandler]
  /\ UNCHANGED <<query, group, stamp, store, readers, lingers, started, faults>>

\* The last statement: bumpVersion or the deletion of the entry, where the
\* command invalidates this query; then it ends.
Invalidate(h) ==
  /\ handlers[h] # NoHandler
  /\ handlers[h].todo = <<>>
  /\ IF handlers[h].bumps /\ Q.key \notin Unversioned
     THEN version' = version + 1
     ELSE UNCHANGED version
  /\ IF handlers[h].bumps /\ Q.key \in Unversioned
     THEN store' = <<>>
     ELSE store' = Findable(store, version', stamp)
  /\ handlers' = [handlers EXCEPT ![h] = NoHandler]
  /\ lingers' = IF handlers[h].bumps THEN MayStoreOld ELSE lingers
  /\ UNCHANGED <<query, group, stamp, readers, started, faults>>

\* A statement throws, the process dies, or Redis refuses the increment,
\* which bumpVersion logs and forgets: what is written stays written.
Fail(h) ==
  /\ handlers[h] # NoHandler
  /\ Fault
  /\ lingers' = (lingers \/ handlers[h].done)
  /\ handlers' = [handlers EXCEPT ![h] = NoHandler]
  /\ UNCHANGED <<query, group, version, stamp, store, readers, started>>

----------------------------------------------------------------------------
Next ==
  \/ \E r \in Readers :
       \/ ReadEarly(r) \/ ReadVersion(r) \/ MissVersion(r) \/ Hit(r)
       \/ Miss(r) \/ ReadLate(r) \/ Answer(r)
  \/ \E h \in Handlers :
       \/ \E c \in DOMAIN Commands : Start(h, c)
       \/ Write(h) \/ Invalidate(h) \/ Fail(h)

Spec == Init /\ [][Next]_vars

----------------------------------------------------------------------------
(* The catalogue *)

\* Each write of the group comes with or before one that changes the key.
Settled(writes, q, g) ==
  \A i \in DOMAIN writes : writes[i] = g =>
    \E j \in DOMAIN writes : j >= i /\ writes[j] \in Queries[q].stamped

\* No command forgets a query: one that writes a group it shows invalidates
\* it, or changes its key afterwards.
NoneForgotten ==
  \A q \in DOMAIN Queries : \A g \in Shows(q) : \A c \in DOMAIN Commands :
    /\ Seen(c, q, g) \in Seq(Groups)
    /\ Queries[q].key \in Commands[c].bumps \/ Settled(Seen(c, q, g), q, g)

----------------------------------------------------------------------------
(* Properties *)

TypeOK ==
  /\ query \in DOMAIN Queries
  /\ group \in Groups
  /\ version \in 0..MaxCommands
  /\ stamp \in Nat
  /\ DOMAIN store \subseteq (0..version) \X (0..stamp)
  /\ \A k \in DOMAIN store : store[k] \in BOOLEAN
  /\ readers \in [Readers ->
       [at : {"done", "early", "versioned", "missed", "read"},
        stamp : 0..stamp, version : 0..version,
        stale : BOOLEAN, excused : BOOLEAN]]
  /\ handlers \in [Handlers ->
       [todo : Seq(Groups), done : BOOLEAN, bumps : BOOLEAN]]
  /\ lingers \in BOOLEAN
  /\ started \in 0..MaxCommands
  /\ faults \in 0..MaxFaults

\* The answer stored under the key that a request would use now is out of
\* date only while a command that wrote is still running: reading the
\* counter before the rows, and incrementing it after the writes, keeps a
\* slow request from storing old rows under a new version.  Excepted is,
\* until the next invalidation, what a failed command left behind and what
\* was written during an unguarded read.
CurrentEntryIsFresh ==
  <<version, stamp>> \in DOMAIN store /\ store[<<version, stamp>>]
    => Owed \/ lingers

\* A request that begins after a command has ended does not answer with
\* what that command overwrote, whether it hits or misses and whatever
\* requests and commands run beside it: an old answer means that a command
\* wrote while the request ran, or had not invalidated when it began.
AnswersFollowCommands ==
  \A r \in Readers :
    readers[r].at = "done" => ~ readers[r].stale
=============================================================================
