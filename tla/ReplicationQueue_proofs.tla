----------------------- MODULE ReplicationQueue_proofs -----------------------
(***************************************************************************)
(* Proofs about ReplicationQueue, for any repositories, sources, workers   *)
(* and bounds.                                                             *)
(*                                                                         *)
(* The invariant has three layers.  TablesMatch says what the SQL          *)
(* statements alone guarantee: a lock is taken exactly while one of its    *)
(* events has a job lock.  It holds whatever happens to the workers.       *)
(* JobsAreOwned says that events in progress belong to one worker's batch; *)
(* it needs that no live worker is taken for dead, which is why the        *)
(* results below assume ~HealthMayFail.  EventsCarryWrites says that       *)
(* updates of a repository are executed oldest first, that the sources of  *)
(* an event and of those after it hold the write it was inserted for, and  *)
(* that a completed one brought it, so the updates that an acknowledgement *)
(* removes are superfluous.                                                *)
(***************************************************************************)
EXTENDS ReplicationQueue, TLAPS, WellFoundedInduction

-----------------------------------------------------------------------------
(* Largest elements *)

\* A bounded set of numbers has a largest element.
LEMMA MaxExists ==
    ASSUME NEW N \in Nat, NEW T \in SUBSET (0 .. N), T # {}
    PROVE  \E n \in T : \A m \in T : m <= n
<1> DEFINE D == {N - n : n \in T}
<1>1. D \subseteq Nat /\ D # {}
  <2>1. PICK n \in T : TRUE
    OBVIOUS
  <2>2. N - n \in D
    OBVIOUS
  <2>3. \A m \in T : N - m \in Nat
    OBVIOUS
  <2> QED
    BY <2>2, <2>3
<1> DEFINE R == OpToRel(<, Nat)
<1>2. IsWellFoundedOn(R, Nat)
  BY NatLessThanWellFounded
<1>3. \A x, y \in Nat : x < y => <<x, y>> \in R
  BY DEF OpToRel
<1> HIDE DEF R
<1>4. PICK x \in D : \A y \in D : ~(<<y, x>> \in R)
  <2> HIDE DEF D
  <2> QED
    BY <1>1, <1>2, WFMin
<1>5. \A y \in D : x <= y
  <2> SUFFICES ASSUME NEW y \in D
               PROVE  x <= y
    OBVIOUS
  <2>1. x \in Nat /\ y \in Nat
    BY <1>1
  <2>2. ~(y < x)
    BY <2>1, <1>3, <1>4
  <2> QED
    BY <2>1, <2>2
<1>6. PICK n \in T : x = N - n
  OBVIOUS
<1>7. ASSUME NEW m \in T
      PROVE  m <= n
  <2>1. x <= N - m
    BY <1>5
  <2> QED
    BY <2>1, <1>6
<1> QED
  BY <1>7

\* No source holds more than the last write.
LEMMA LatestIsLast ==
    ASSUME TablesMatch, NEW l \in Locks
    PROVE  /\ latest[l] \in Nat /\ latest[l] <= MaxWrites
           /\ \A s \in Sources : content[l][s] \in Int /\ content[l][s] <= latest[l]
BY QueueAssumption DEF TablesMatch, ReplicasMatch, GenerationUnknown

\* Giving up events raises gaveUp to what their last attempts covered.
LEMMA GaveUpLast ==
    ASSUME TablesMatch, NEW X \in SUBSET DOMAIN queue, GiveUp(X)
    PROVE  /\ gaveUp' \in [Locks -> 0 .. MaxWrites]
           /\ \A l \in Locks : gaveUp'[l] >= gaveUp[l]
           /\ \A i \in X : gaveUp'[queue[i].lock] >= queue[i].covers
<1>1. ASSUME NEW l \in Locks
      PROVE  /\ gaveUp'[l] \in 0 .. MaxWrites
             /\ gaveUp'[l] >= gaveUp[l]
             /\ \A i \in X \intersect OfLock(l) : gaveUp'[l] >= queue[i].covers
  <2> DEFINE T == {gaveUp[l]} \union {queue[i].covers : i \in X \intersect OfLock(l)}
             P(n) == /\ n >= gaveUp[l]
                     /\ \A i \in X \intersect OfLock(l) : n >= queue[i].covers
  <2>1. T \subseteq 0 .. MaxWrites /\ T # {}
    BY DEF TablesMatch, RowsMatch, ReplicasMatch, Event, OfLock
  <2>2. \E n \in T : \A m \in T : m <= n
    BY <2>1, MaxExists, QueueAssumption
  <2>3. \E n \in T : P(n)
    <3>1. PICK n \in T : \A m \in T : m <= n
      BY <2>2
    <3>2. gaveUp[l] \in T /\ \A i \in X \intersect OfLock(l) : queue[i].covers \in T
      OBVIOUS
    <3>3. \A m \in T : m \in Nat
      BY <2>1, QueueAssumption
    <3> HIDE DEF T
    <3> QED
      BY <3>1, <3>2, <3>3
  <2>4. gaveUp'[l] = CHOOSE n \in T : P(n)
    BY DEF GiveUp
  <2>5. gaveUp'[l] \in T /\ P(gaveUp'[l])
    <3> HIDE DEF T, P
    <3> QED
      BY <2>3, <2>4
  <2> QED
    BY <2>1, <2>5
<1>2. gaveUp' = [l \in Locks |-> gaveUp'[l]]
  BY DEF GiveUp
<1>3. \A i \in X : queue[i].lock \in Locks /\ i \in OfLock(queue[i].lock)
  BY DEF TablesMatch, RowsMatch, ReplicasMatch, Event, OfLock
<1> QED
  BY <1>1, <1>2, <1>3

-----------------------------------------------------------------------------
(* Tables *)

\* A row with the columns that Dequeue and Acknowledge change.
LEMMA TookIsEvent ==
    ASSUME TablesMatch, NEW i \in DOMAIN queue
    PROVE  /\ Took(queue[i]) \in Event
           /\ Took(queue[i]).lock = queue[i].lock
           /\ Took(queue[i]).change = queue[i].change
           /\ Took(queue[i]).source = queue[i].source
           /\ Took(queue[i]).state = "in_progress"
           /\ Took(queue[i]).taken = nextID
           /\ Took(queue[i]).covers = latest[queue[i].lock]
           /\ Took(queue[i]).attempt = IF queue[i].change = "delete_replica"
                                       THEN queue[i].attempt ELSE queue[i].attempt - 1
<1>1. queue[i] \in Event /\ nextID \in Nat
  BY DEF TablesMatch, RowsMatch
<1>2. latest[queue[i].lock] \in Nat
  BY <1>1, LatestIsLast, QueueAssumption DEF Event
<1> DEFINE e == queue[i]
           a == IF e.change = "delete_replica" THEN e.attempt ELSE e.attempt - 1
           e1 == [e EXCEPT !.attempt = a]
           e2 == [e1 EXCEPT !.state = "in_progress"]
           e3 == [e2 EXCEPT !.taken = nextID]
           e4 == [e3 EXCEPT !.covers = latest[e.lock]]
<1>3. a \in Int
  BY <1>1 DEF Event
<1>4. /\ e1 \in Event /\ e1.attempt = a
      /\ e1.lock = e.lock /\ e1.change = e.change /\ e1.source = e.source
  <2> HIDE DEF a
  <2> QED
    BY <1>1, <1>3 DEF Event
<1>5. /\ e2 \in Event /\ e2.attempt = a /\ e2.state = "in_progress"
      /\ e2.lock = e.lock /\ e2.change = e.change /\ e2.source = e.source
  <2> HIDE DEF a, e1
  <2> QED
    BY <1>4 DEF Event
<1>6. /\ e3 \in Event /\ e3.attempt = a /\ e3.state = "in_progress" /\ e3.taken = nextID
      /\ e3.lock = e.lock /\ e3.change = e.change /\ e3.source = e.source
  <2> HIDE DEF a, e2
  <2> QED
    BY <1>1, <1>5 DEF Event
<1>7. /\ e4 \in Event /\ e4.attempt = a /\ e4.state = "in_progress" /\ e4.taken = nextID
      /\ e4.lock = e.lock /\ e4.change = e.change /\ e4.source = e.source
      /\ e4.covers = latest[e.lock]
  <2> HIDE DEF a, e3
  <2> QED
    BY <1>2, <1>6 DEF Event
<1>8. Took(queue[i]) = e4
  BY Zenon DEF Took
<1> HIDE DEF e4
<1> QED
  BY <1>7, <1>8

\* A row that is made ready for another attempt.
LEMMA FailedIsEvent ==
    ASSUME NEW e \in Event
    PROVE  /\ [e EXCEPT !.state = "failed"] \in Event
           /\ [e EXCEPT !.state = "failed"].lock = e.lock
           /\ [e EXCEPT !.state = "failed"].change = e.change
           /\ [e EXCEPT !.state = "failed"].source = e.source
           /\ [e EXCEPT !.state = "failed"].state = "failed"
           /\ [e EXCEPT !.state = "failed"].taken = e.taken
           /\ [e EXCEPT !.state = "failed"].covers = e.covers
           /\ [e EXCEPT !.state = "failed"].attempt = e.attempt
BY DEF Event

\* Enqueue: a duplicate adds no row.
LEMMA EnqueueKeepsRows ==
    ASSUME TablesMatch, NEW l \in Locks, NEW ch \in {"update", "delete_replica"},
           NEW s \in Sources \union {NoSource}, ch = "update" => s \in Sources,
           Enqueue(l, ch, s)
    PROVE  RowsMatch'
<1> DEFINE new == [lock |-> l, change |-> ch, source |-> s, state |-> "ready",
                   attempt |-> Attempts, taken |-> 0, covers |-> 0]
<1>1. CASE Duplicate(l, ch)
  BY <1>1 DEF Enqueue, tables, TablesMatch, RowsMatch
<1>2. CASE ~Duplicate(l, ch)
  <2>1. /\ nextID <= MaxEvents /\ nextID' = nextID + 1
        /\ queue' = [i \in DOMAIN queue \union {nextID} |-> IF i = nextID THEN new ELSE queue[i]]
        /\ acquired' = acquired /\ jobLock' = jobLock
    BY <1>2 DEF Enqueue
  <2>2. new \in Event /\ new.taken = 0 /\ new.covers = 0 /\ new.change = ch /\ new.source = s
    BY QueueAssumption DEF Event
  <2> HIDE DEF new
  <2>3. nextID \in Nat /\ nextID >= 1 /\ nextID \notin DOMAIN queue /\ RowsMatch
    BY DEF TablesMatch, RowsMatch
  <2>4. /\ DOMAIN queue' = DOMAIN queue \union {nextID} /\ queue'[nextID] = new
        /\ \A i \in DOMAIN queue : queue'[i] = queue[i]
    BY <2>1, <2>3
  <2>5. \A i \in DOMAIN queue' :
        /\ queue'[i] \in Event /\ queue'[i].taken <= nextID' /\ queue'[i].covers <= MaxWrites
        /\ queue'[i].change = "update" => queue'[i].source \in Sources
    <3>1. \A i \in DOMAIN queue : queue[i].taken \in Nat
      BY <2>3 DEF RowsMatch, Event
    <3> QED
      BY <2>1, <2>2, <2>3, <2>4, <3>1, QueueAssumption DEF RowsMatch
  <2>6. acquired' = {queue'[i].lock : i \in jobLock'} /\ jobLock' \subseteq DOMAIN queue'
    BY <2>1, <2>3, <2>4 DEF RowsMatch
  <2>7. nextID' \in 1 .. MaxEvents + 1 /\ DOMAIN queue' \subseteq 1 .. nextID' - 1
    BY <2>1, <2>3, <2>4, QueueAssumption DEF RowsMatch
  <2> QED
    BY <2>5, <2>6, <2>7 DEF RowsMatch
<1> QED
  BY <1>1, <1>2

\* Dequeue takes waiting events of repositories whose lock is free, the oldest of each
\* kind.
LEMMA DequeuedAreWaiting ==
    /\ Dequeued \subseteq DOMAIN queue
    /\ \A i \in Dequeued : queue[i].state \in {"ready", "failed"} /\ queue[i].lock \notin acquired
    /\ \A i \in Dequeued, j \in DOMAIN queue :
         queue[j].state \in {"ready", "failed"} /\ queue[j].lock = queue[i].lock
           /\ queue[j].change = queue[i].change
           /\ (\A k \in jobLock : queue[k].lock # queue[j].lock)
         => i <= j
    /\ \A i \in Dequeued : \A k \in jobLock : queue[k].lock # queue[i].lock
BY DEF Dequeued, Candidates, Waiting, WithState

\* Dequeue takes the locks of the repositories whose events it takes.
LEMMA DequeueKeepsRows ==
    ASSUME TablesMatch, NEW w \in Workers, Dequeue(w)
    PROVE  RowsMatch'
<1>1. /\ queue' = [i \in DOMAIN queue |-> IF i \in Dequeued THEN Took(queue[i]) ELSE queue[i]]
      /\ jobLock' = jobLock \union Dequeued
      /\ acquired' = acquired \union {queue[i].lock : i \in Dequeued}
      /\ nextID' = nextID
  BY DEF Dequeue
<1>2. RowsMatch /\ Dequeued \subseteq DOMAIN queue
  BY DequeuedAreWaiting DEF TablesMatch
<1>3. \A i \in DOMAIN queue :
        /\ Took(queue[i]) \in Event /\ Took(queue[i]).taken <= nextID
        /\ Took(queue[i]).covers <= MaxWrites /\ Took(queue[i]).lock = queue[i].lock
        /\ Took(queue[i]).change = "update" => Took(queue[i]).source \in Sources
  <2> SUFFICES ASSUME NEW i \in DOMAIN queue
               PROVE  /\ Took(queue[i]) \in Event /\ Took(queue[i]).taken <= nextID
                      /\ Took(queue[i]).covers <= MaxWrites /\ Took(queue[i]).lock = queue[i].lock
                      /\ Took(queue[i]).change = "update" => Took(queue[i]).source \in Sources
    OBVIOUS
  <2>1. queue[i].lock \in Locks /\ nextID \in Nat
    BY <1>2 DEF RowsMatch, Event
  <2>2. latest[queue[i].lock] <= MaxWrites
    BY <2>1, LatestIsLast, QueueAssumption
  <2> QED
    BY <1>2, <2>1, <2>2, TookIsEvent DEF RowsMatch
<1>4. /\ DOMAIN queue' = DOMAIN queue
      /\ \A i \in DOMAIN queue : queue'[i] = IF i \in Dequeued THEN Took(queue[i]) ELSE queue[i]
  BY <1>1
<1>5. \A i \in DOMAIN queue' :
        /\ queue'[i] \in Event /\ queue'[i].taken <= nextID' /\ queue'[i].covers <= MaxWrites
        /\ queue'[i].change = "update" => queue'[i].source \in Sources
  BY <1>1, <1>2, <1>3, <1>4 DEF RowsMatch
<1>6. acquired' = {queue'[i].lock : i \in jobLock'} /\ jobLock' \subseteq DOMAIN queue'
  BY <1>1, <1>2, <1>3, <1>4 DEF RowsMatch
<1> QED
  BY <1>1, <1>2, <1>4, <1>5, <1>6 DEF RowsMatch

-----------------------------------------------------------------------------
(* Acknowledge and AcknowledgeStale *)

\* What both do: rows D are deleted, the rows of F that are left become failed,
\* and the job locks of R go, with the locks that only they held.
Removes(D, F, R) ==
    /\ queue' = [i \in DOMAIN queue \ D |->
            IF i \in F THEN [queue[i] EXCEPT !.state = "failed"] ELSE queue[i]]
    /\ jobLock' = jobLock \ R
    /\ acquired' = acquired \ Released(R)
    /\ nextID' = nextID

\* The rows that Acknowledge finds, and those it deletes.
Existing(ids) == ids \intersect WithState("in_progress")
Deleted(st, ids) ==
    CASE st = "dead" -> Existing(ids)
      [] st = "completed" -> Existing(ids) \union UNION {Similar(i) : i \in Existing(ids)}
      [] OTHER -> {}

\* Acknowledge and AcknowledgeStale remove rows and job locks.
LEMMA AcknowledgeRemoves ==
    ASSUME NEW st, NEW ids, Acknowledge(st, ids)
    PROVE  Removes(Deleted(st, ids), Existing(ids), Existing(ids) \union Deleted(st, ids))
BY DEF Acknowledge, Removes, Existing, Deleted

\* Stale job locks that have attempts left, and those that have not.
StaleFailed(X) == {i \in X : queue[i].attempt >= 1}
StaleDeleted(X) == {i \in X : queue[i].attempt = 0}

\* AcknowledgeStale deletes the events that have no attempts left.
LEMMA AcknowledgeStaleRemoves ==
    ASSUME NEW X, AcknowledgeStale(X)
    PROVE  Removes(StaleDeleted(X), StaleFailed(X), X) /\ GiveUp(StaleDeleted(X))
BY DEF AcknowledgeStale, Removes, StaleDeleted, StaleFailed

\* The rows that are left.
RowsLeft(D, F) ==
    /\ DOMAIN queue' = DOMAIN queue \ D
    /\ \A i \in DOMAIN queue' :
        /\ queue'[i].lock = queue[i].lock /\ queue'[i].change = queue[i].change
        /\ queue'[i].source = queue[i].source /\ queue'[i].taken = queue[i].taken
        /\ queue'[i].covers = queue[i].covers /\ queue'[i].attempt = queue[i].attempt
        /\ i \in F => queue'[i].state = "failed"
        /\ i \notin F => queue'[i] = queue[i]

\* A lock is released when the last job lock of its repository goes.
LEMMA RemovalKeepsRows ==
    ASSUME TablesMatch, NEW D, NEW F, NEW R, D \subseteq R, Removes(D, F, R)
    PROVE  /\ RowsMatch'
           /\ RowsLeft(D, F)
<1>1. RowsMatch
  BY DEF TablesMatch
<1>2. /\ DOMAIN queue' = DOMAIN queue \ D
      /\ jobLock' = jobLock \ R /\ acquired' = acquired \ Released(R) /\ nextID' = nextID
      /\ \A i \in DOMAIN queue' :
           queue'[i] = IF i \in F THEN [queue[i] EXCEPT !.state = "failed"] ELSE queue[i]
  BY DEF Removes
<1>3. \A i \in DOMAIN queue' :
        /\ queue'[i].lock = queue[i].lock /\ queue'[i].change = queue[i].change
        /\ queue'[i].source = queue[i].source /\ queue'[i].taken = queue[i].taken
        /\ queue'[i].covers = queue[i].covers /\ queue'[i].attempt = queue[i].attempt
        /\ i \in F => queue'[i].state = "failed"
        /\ i \notin F => queue'[i] = queue[i]
        /\ queue'[i] \in Event
  <2> SUFFICES ASSUME NEW i \in DOMAIN queue'
               PROVE  /\ queue'[i].lock = queue[i].lock /\ queue'[i].change = queue[i].change
                      /\ queue'[i].source = queue[i].source /\ queue'[i].taken = queue[i].taken
                      /\ queue'[i].covers = queue[i].covers /\ queue'[i].attempt = queue[i].attempt
                      /\ i \in F => queue'[i].state = "failed"
                      /\ i \notin F => queue'[i] = queue[i]
                      /\ queue'[i] \in Event
    OBVIOUS
  <2>1. queue[i] \in Event
    BY <1>1, <1>2 DEF RowsMatch
  <2>2. CASE i \in F
    <3>1. queue'[i] = [queue[i] EXCEPT !.state = "failed"]
      BY <1>2, <2>2
    <3> QED
      BY <2>1, <2>2, <3>1, FailedIsEvent
  <2>3. CASE i \notin F
    BY <1>2, <2>1, <2>3
  <2> QED
    BY <2>2, <2>3
<1>4. jobLock' \subseteq DOMAIN queue'
  BY <1>1, <1>2 DEF RowsMatch
<1>5. acquired' = {queue'[i].lock : i \in jobLock'}
  <2>1. acquired' = {queue[i].lock : i \in jobLock \ R}
    BY <1>1, <1>2 DEF RowsMatch, Released, OfLock
  <2> QED
    BY <2>1, <1>2, <1>3, <1>4
<1>6. \A i \in DOMAIN queue' :
        /\ queue'[i] \in Event /\ queue'[i].taken <= nextID' /\ queue'[i].covers <= MaxWrites
        /\ queue'[i].change = "update" => queue'[i].source \in Sources
  BY <1>1, <1>2, <1>3 DEF RowsMatch
<1>7. RowsMatch'
  BY <1>1, <1>2, <1>4, <1>5, <1>6 DEF RowsMatch
<1> QED
  BY <1>2, <1>3, <1>7 DEF RowsLeft

-----------------------------------------------------------------------------
(* Batches *)

\* A worker takes the dequeued events into its hands.
LEMMA DequeueKeepsBatches ==
    ASSUME TablesMatch, NEW w \in Workers, Dequeue(w)
    PROVE  /\ BatchesMatch'
           /\ DOMAIN batch[w] = {} /\ DOMAIN batch'[w] = Dequeued
           /\ \A i \in Dequeued : /\ batch'[w][i].event = Took(queue[i])
                                  /\ batch'[w][i].outcome = "todo"
           /\ \A x \in Workers \ {w} : batch'[x] = batch[x]
<1> DEFINE b == [i \in Dequeued |-> [event |-> Took(queue[i]), outcome |-> "todo"]]
<1>1. batch[w] = NoBatch /\ batch' = [batch EXCEPT ![w] = b]
  BY DEF Dequeue
<1>2. DOMAIN batch = Workers /\ BatchesMatch
  BY DEF TablesMatch, BatchesMatch
<1>3. /\ DOMAIN b = Dequeued
      /\ \A i \in Dequeued : b[i] = [event |-> Took(queue[i]), outcome |-> "todo"]
  OBVIOUS
<1> HIDE DEF b
<1>4. DOMAIN batch' = Workers /\ batch'[w] = b /\ \A x \in Workers \ {w} : batch'[x] = batch[x]
  BY <1>1, <1>2
<1>5. \A i \in Dequeued :
        /\ b[i] \in Job /\ b[i].event = Took(queue[i]) /\ b[i].outcome = "todo"
        /\ b[i].event.change = "update" => b[i].event.source \in Sources
  BY <1>3, DequeuedAreWaiting, TookIsEvent DEF Job, Outcomes, TablesMatch, RowsMatch
<1>6. Dequeued \subseteq IDs
  <2>1. DOMAIN queue \subseteq IDs
    BY QueueAssumption DEF TablesMatch, RowsMatch, IDs
  <2> QED
    BY <2>1, DequeuedAreWaiting
<1>7. DOMAIN batch[w] = {}
  BY <1>1 DEF NoBatch
<1>8. BatchesMatch'
  BY <1>2, <1>3, <1>4, <1>5, <1>6 DEF BatchesMatch
<1> QED
  BY <1>3, <1>4, <1>5, <1>7, <1>8

\* The outcome of an event in a batch.
LEMMA BecomesKeepsBatches ==
    ASSUME BatchesMatch, NEW w \in Workers, NEW i \in DOMAIN batch[w], NEW o \in Outcomes,
           Becomes(w, i, o)
    PROVE  /\ BatchesMatch'
           /\ \A x \in Workers : DOMAIN batch'[x] = DOMAIN batch[x]
           /\ \A x \in Workers : \A j \in DOMAIN batch[x] :
                batch'[x][j].event = batch[x][j].event
           /\ \A x \in Workers : \A j \in DOMAIN batch[x] :
                batch'[x][j].outcome = IF x = w /\ j = i THEN o ELSE batch[x][j].outcome
<1> DEFINE r == [batch[w][i] EXCEPT !.outcome = o]
           b == [batch[w] EXCEPT ![i] = r]
<1>1. batch' = [batch EXCEPT ![w] = b]
  BY Zenon DEF Becomes
<1>2. batch[w][i] \in Job /\ DOMAIN batch = Workers
  BY DEF BatchesMatch
<1>3. r \in Job /\ r.outcome = o /\ r.event = batch[w][i].event
  BY <1>2 DEF Job
<1> HIDE DEF r
<1>4. DOMAIN b = DOMAIN batch[w] /\ \A j \in DOMAIN batch[w] : b[j] = IF j = i THEN r ELSE batch[w][j]
  OBVIOUS
<1> HIDE DEF b
<1>5. DOMAIN batch' = Workers /\ batch'[w] = b /\ \A x \in Workers \ {w} : batch'[x] = batch[x]
  BY <1>1, <1>2
<1>6. \A x \in Workers : DOMAIN batch'[x] = DOMAIN batch[x]
  BY <1>4, <1>5
<1>7. \A x \in Workers : \A j \in DOMAIN batch[x] :
        /\ batch'[x][j] \in Job
        /\ batch'[x][j].event = batch[x][j].event
        /\ batch'[x][j].outcome = IF x = w /\ j = i THEN o ELSE batch[x][j].outcome
  BY <1>3, <1>4, <1>5 DEF BatchesMatch
<1>8. BatchesMatch'
  BY <1>5, <1>6, <1>7 DEF BatchesMatch
<1> QED
  BY <1>6, <1>7, <1>8

\* Events leave a batch, when they have been acknowledged or their worker dies.
LEMMA LeavingKeepsBatches ==
    ASSUME BatchesMatch, NEW w \in Workers, NEW ids,
           \/ Forget(w, ids)
           \/ batch' = [batch EXCEPT ![w] = NoBatch] /\ ids = DOMAIN batch[w]
    PROVE  /\ BatchesMatch'
           /\ DOMAIN batch'[w] = DOMAIN batch[w] \ ids
           /\ \A i \in DOMAIN batch'[w] : batch'[w][i] = batch[w][i]
           /\ \A x \in Workers \ {w} : batch'[x] = batch[x]
<1>1. DOMAIN batch = Workers
  BY DEF BatchesMatch
<1>2. /\ DOMAIN batch'[w] = DOMAIN batch[w] \ ids
      /\ \A i \in DOMAIN batch'[w] : batch'[w][i] = batch[w][i]
      /\ DOMAIN batch' = Workers /\ \A x \in Workers \ {w} : batch'[x] = batch[x]
  BY <1>1 DEF Forget, NoBatch
<1> QED
  BY <1>2 DEF BatchesMatch

-----------------------------------------------------------------------------
(* TablesMatch, one action after the other *)

\* The tables are empty at the start.
LEMMA InitTables == Init => TablesMatch
<1> SUFFICES ASSUME Init
             PROVE  TablesMatch
  OBVIOUS
<1>1. DOMAIN NoBatch = {}
  BY DEF NoBatch
<1>2. RowsMatch
  BY <1>1, QueueAssumption DEF Init, RowsMatch
<1>3. BatchesMatch
  BY <1>1 DEF Init, BatchesMatch
<1>4. ReplicasMatch
  BY QueueAssumption DEF Init, ReplicasMatch
<1> QED
  BY <1>2, <1>3, <1>4 DEF TablesMatch

\* A write reaches its source and the up-to-date replicas, and enqueues an update.
LEMMA WriteKeepsTables ==
    ASSUME TablesMatch, NEW l \in Locks, NEW P \in SUBSET Sources, NEW s \in Sources, Write(l, s, P)
    PROVE  /\ TablesMatch'
           /\ \A k \in Locks, x \in Sources :
                /\ content'[k][x] >= content[k][x]
                /\ content[k][x] = GenerationUnknown => content'[k][x] = GenerationUnknown
           /\ content'[l][s] = latest[l] + 1
<1>1. latest[l] \in Nat /\ latest[l] < MaxWrites /\ MaxWrites \in Nat
  BY LatestIsLast, QueueAssumption DEF Write
<1>2. ReplicasMatch
  BY DEF TablesMatch
<1> DEFINE row == [x \in Sources |-> IF x \in P THEN latest[l] + 1 ELSE content[l][x]]
<1>3. content' = [content EXCEPT ![l] = row] /\ latest' = [latest EXCEPT ![l] = latest[l] + 1]
  BY DEF Write
<1>4. row \in [Sources -> Nat \union {GenerationUnknown}]
  BY <1>1, <1>2 DEF ReplicasMatch
<1>5. \A x \in Sources : row[x] = IF x \in P THEN latest[l] + 1 ELSE content[l][x]
  OBVIOUS
<1> HIDE DEF row
<1>6. content' \in [Locks -> [Sources -> Nat \union {GenerationUnknown}]]
  BY <1>2, <1>3, <1>4 DEF ReplicasMatch
<1>7. latest' \in [Locks -> 0 .. MaxWrites] /\ latest'[l] = latest[l] + 1
      /\ \A k \in Locks \ {l} : latest'[k] = latest[k]
  BY <1>1, <1>2, <1>3 DEF ReplicasMatch
<1>8. content'[l] = row /\ \A k \in Locks \ {l} : content'[k] = content[k]
  BY <1>2, <1>3 DEF ReplicasMatch
<1>9. \A k \in Locks, x \in Sources :
        /\ content'[k][x] >= content[k][x] /\ content'[k][x] <= latest'[k]
        /\ content[k][x] = GenerationUnknown => content'[k][x] = GenerationUnknown
  <2> SUFFICES ASSUME NEW k \in Locks, NEW x \in Sources
               PROVE  /\ content'[k][x] >= content[k][x] /\ content'[k][x] <= latest'[k]
                      /\ content[k][x] = GenerationUnknown => content'[k][x] = GenerationUnknown
    OBVIOUS
  <2>1. content[k][x] \in Int /\ content[k][x] <= latest[k] /\ latest[k] \in Nat
    BY LatestIsLast
  <2>2. CASE k = l /\ x \in P
    <3>1. content[l][x] = latest[l] /\ content'[l][x] = latest[l] + 1
      BY <1>5, <1>8, <2>2 DEF Write
    <3> QED
      BY <1>1, <1>7, <2>2, <3>1 DEF GenerationUnknown
  <2>3. CASE k = l /\ x \notin P
    BY <1>1, <1>5, <1>7, <1>8, <2>1, <2>3
  <2>4. CASE k # l
    BY <1>7, <1>8, <2>1, <2>4
  <2> QED
    BY <2>2, <2>3, <2>4
<1>10. inserted' \subseteq Insertion
  <2>1. CASE Duplicate(l, "update")
    BY <1>2, <2>1 DEF Write, ReplicasMatch
  <2>2. CASE ~Duplicate(l, "update")
    <3>1. nextID \in IDs
      BY <2>2, QueueAssumption DEF Write, Enqueue, IDs, TablesMatch, RowsMatch
    <3>2. [id |-> nextID, lock |-> l, source |-> s, write |-> latest[l] + 1] \in Insertion
      BY <1>1, <3>1 DEF Insertion
    <3> QED
      BY <1>2, <2>2, <3>2 DEF Write, ReplicasMatch
  <2> QED
    BY <2>1, <2>2
<1>11. ReplicasMatch'
  BY <1>2, <1>6, <1>7, <1>9, <1>10 DEF Write, ReplicasMatch
<1>12. RowsMatch'
  BY EnqueueKeepsRows DEF Write
<1>13. BatchesMatch'
  BY DEF Write, TablesMatch, BatchesMatch
<1>14. s \in P
  BY DEF Write
<1> QED
  BY <1>5, <1>8, <1>9, <1>11, <1>12, <1>13, <1>14 DEF TablesMatch

\* A source loses the repository, or is back with it.
LEMMA SourceKeepsTables ==
    ASSUME TablesMatch, NEW l \in Locks, NEW s \in Sources,
           SourceVanishes(l, s) \/ SourceReturns(l, s)
    PROVE  TablesMatch'
<1>1. RowsMatch' /\ BatchesMatch'
  BY DEF SourceVanishes, SourceReturns, tables, TablesMatch, RowsMatch, BatchesMatch
<1>2. ReplicasMatch'
  <2>1. lost' \subseteq Locks \X Sources /\ inserted' \subseteq inserted
    BY DEF SourceVanishes, SourceReturns, TablesMatch, ReplicasMatch
  <2> QED
    BY <2>1 DEF SourceVanishes, SourceReturns, TablesMatch, ReplicasMatch
<1> QED
  BY <1>1, <1>2 DEF TablesMatch

\* The reconciler schedules a deletion.
LEMMA ScheduleKeepsTables ==
    ASSUME TablesMatch, NEW l \in Locks, ScheduleDelete(l)
    PROVE  TablesMatch'
<1>1. RowsMatch'
  BY EnqueueKeepsRows DEF ScheduleDelete
<1>2. BatchesMatch' /\ ReplicasMatch'
  BY DEF ScheduleDelete, replicas, TablesMatch, BatchesMatch, ReplicasMatch
<1> QED
  BY <1>1, <1>2 DEF TablesMatch

\* A worker takes a batch.
LEMMA DequeueKeepsTables ==
    ASSUME TablesMatch, NEW w \in Workers, Dequeue(w)
    PROVE  TablesMatch'
<1>1. ReplicasMatch'
  BY DEF Dequeue, replicas, TablesMatch, ReplicasMatch
<1> QED
  BY <1>1, DequeueKeepsRows, DequeueKeepsBatches DEF TablesMatch

\* A worker executes an event, or fails to.
LEMMA ProcessKeepsTables ==
    ASSUME TablesMatch, NEW w \in Workers, NEW i,
           \/ Replicate(w, i) \/ ReplicateInvalid(w, i)
           \/ RemoveRepository(w, i) \/ DeleteReplica(w, i) \/ EventFails(w, i)
    PROVE  TablesMatch'
<1>1. RowsMatch /\ BatchesMatch /\ ReplicasMatch
  BY DEF TablesMatch
<1>2. i \in DOMAIN batch[w]
  BY DEF Replicate, ReplicateInvalid, RemoveRepository, DeleteReplica, EventFails, At
<1>3. RowsMatch'
  BY <1>1 DEF Replicate, ReplicateInvalid, RemoveRepository, DeleteReplica, EventFails, tables, RowsMatch
<1>4. PICK o \in Outcomes : Becomes(w, i, o)
  BY DEF Replicate, ReplicateInvalid, RemoveRepository, DeleteReplica, EventFails, FailedState, Outcomes
<1>5. BatchesMatch'
  BY <1>1, <1>2, <1>4, BecomesKeepsBatches
<1>6. batch[w][i].event.lock \in Locks
  BY <1>1, <1>2 DEF BatchesMatch, Job, Event
<1>7. CASE Replicate(w, i) \/ ReplicateInvalid(w, i)
  <2>1. PICK l, s : l = batch[w][i].event.lock /\ s = batch[w][i].event.source
    OBVIOUS
  <2>2. l \in Locks /\ s \in Sources
    BY <1>1, <1>2, <1>6, <1>7, <2>1 DEF Replicate, ReplicateInvalid, BatchesMatch
  <2>3. content[l][s] \in Nat \union {GenerationUnknown} /\ latest[l] \in Nat
    BY <1>1, <2>2, LatestIsLast DEF ReplicasMatch
  <2>4. CASE Replicate(w, i)
    <3>1. \/ UNCHANGED <<copy, recorded>>
          \/ /\ content[l][s] # GenerationUnknown
             /\ copy' = [copy EXCEPT ![l] = content[l][s]]
             /\ recorded' = recorded \union {l}
      BY <2>1, <2>4 DEF Replicate
    <3>2. UNCHANGED <<latest, content, lost, inserted, gaveUp>> /\ onDisk' \subseteq onDisk \union {l}
      BY <2>1, <2>4 DEF Replicate
    <3>3. copy' \in [Locks -> Nat] /\ recorded' \subseteq Locks
      BY <1>1, <2>2, <2>3, <3>1 DEF ReplicasMatch
    <3>4. ReplicasMatch'
      BY <1>1, <2>2, <3>2, <3>3 DEF ReplicasMatch
    <3> QED
      BY <1>3, <1>5, <3>4 DEF TablesMatch
  <2>5. CASE ReplicateInvalid(w, i)
    <3>1. /\ content' = [content EXCEPT ![l] = [content[l] EXCEPT ![s] = GenerationUnknown]]
          /\ UNCHANGED <<latest, lost, copy, onDisk, recorded, inserted, gaveUp>>
      BY <2>1, <2>5 DEF ReplicateInvalid
    <3> DEFINE row == [content[l] EXCEPT ![s] = GenerationUnknown]
    <3>2. /\ row \in [Sources -> Nat \union {GenerationUnknown}]
          /\ row[s] = GenerationUnknown /\ \A x \in Sources \ {s} : row[x] = content[l][x]
      BY <1>1, <2>2 DEF ReplicasMatch
    <3> HIDE DEF row
    <3>3. /\ content' \in [Locks -> [Sources -> Nat \union {GenerationUnknown}]]
          /\ content'[l] = row /\ \A k \in Locks \ {l} : content'[k] = content[k]
      BY <1>1, <2>2, <3>1, <3>2 DEF ReplicasMatch, row
    <3>4. \A k \in Locks, x \in Sources : content'[k][x] <= latest'[k]
      BY <1>1, <2>2, <2>3, <3>1, <3>2, <3>3 DEF ReplicasMatch, GenerationUnknown
    <3>5. ReplicasMatch'
      BY <1>1, <3>1, <3>3, <3>4 DEF ReplicasMatch
    <3> QED
      BY <1>3, <1>5, <3>5 DEF TablesMatch
  <2> QED
    BY <1>7, <2>4, <2>5
<1>8. CASE ~(Replicate(w, i) \/ ReplicateInvalid(w, i))
  <2>1. ReplicasMatch'
    BY <1>1, <1>6, <1>8 DEF RemoveRepository, DeleteReplica, EventFails, replicas, ReplicasMatch
  <2> QED
    BY <1>3, <1>5, <2>1 DEF TablesMatch
<1> QED
  BY <1>7, <1>8

\* A worker acknowledges the events of its batch that ended in one state.
LEMMA AcknowledgeKeepsTables ==
    ASSUME TablesMatch, NEW w \in Workers, NEW st, AcknowledgeBatch(w, st)
    PROVE  TablesMatch'
<1> DEFINE ids == InState(w, st)
<1>1. Acknowledge(st, ids) /\ Forget(w, ids) /\ UNCHANGED <<replicas, inserted>>
  BY DEF AcknowledgeBatch
<1>2. RowsMatch'
  <2>1. Removes(Deleted(st, ids), Existing(ids), Existing(ids) \union Deleted(st, ids))
    BY <1>1, AcknowledgeRemoves
  <2> QED
    BY <2>1, RemovalKeepsRows
<1>3. BatchesMatch'
  BY <1>1, LeavingKeepsBatches DEF TablesMatch
<1>4. gaveUp' \in [Locks -> 0 .. MaxWrites]
  <2>1. CASE st = "dead"
    <3>1. GiveUp(ids \intersect WithState("in_progress"))
      BY <2>1 DEF AcknowledgeBatch
    <3>2. ids \intersect WithState("in_progress") \in SUBSET DOMAIN queue
      BY DEF WithState
    <3> QED
      BY <3>1, <3>2, GaveUpLast
  <2>2. CASE st # "dead"
    BY <2>2 DEF AcknowledgeBatch, TablesMatch, ReplicasMatch
  <2> QED
    BY <2>1, <2>2
<1>5. ReplicasMatch'
  BY <1>1, <1>4 DEF replicas, TablesMatch, ReplicasMatch
<1> QED
  BY <1>2, <1>3, <1>5 DEF TablesMatch

\* A worker that cannot acknowledge, or crashes, forgets its events.
LEMMA LeavingKeepsTables ==
    ASSUME TablesMatch, NEW w \in Workers, (\E st : AcknowledgeFails(w, st)) \/ Crash(w)
    PROVE  TablesMatch'
<1>1. BatchesMatch'
  <2>1. \E ids : \/ Forget(w, ids)
                 \/ batch' = [batch EXCEPT ![w] = NoBatch] /\ ids = DOMAIN batch[w]
    BY DEF AcknowledgeFails, Crash
  <2> QED
    BY <2>1, LeavingKeepsBatches DEF TablesMatch
<1>2. RowsMatch' /\ ReplicasMatch'
  BY DEF AcknowledgeFails, Crash, tables, replicas, TablesMatch, RowsMatch, ReplicasMatch
<1> QED
  BY <1>1, <1>2 DEF TablesMatch

\* Stale events are acknowledged by another process.
LEMMA StaleKeepsTables ==
    ASSUME TablesMatch, NEW X \in SUBSET jobLock, AcknowledgeStale(X)
    PROVE  TablesMatch'
<1>1. Removes(StaleDeleted(X), StaleFailed(X), X) /\ GiveUp(StaleDeleted(X))
  BY AcknowledgeStaleRemoves
<1>2. StaleDeleted(X) \subseteq X /\ StaleDeleted(X) \in SUBSET DOMAIN queue
  BY DEF StaleDeleted, TablesMatch, RowsMatch
<1>3. RowsMatch'
  BY <1>1, <1>2, RemovalKeepsRows
<1>4. gaveUp' \in [Locks -> 0 .. MaxWrites]
  BY <1>1, <1>2, GaveUpLast
<1>5. BatchesMatch' /\ ReplicasMatch'
  BY <1>4 DEF AcknowledgeStale, replicas, TablesMatch, BatchesMatch, ReplicasMatch
<1> QED
  BY <1>3, <1>5 DEF TablesMatch

\* Every step keeps the tables matching, also when health updates fail.
LEMMA NextKeepsTables == TablesMatch /\ [Next]_vars => TablesMatch'
<1> SUFFICES ASSUME TablesMatch, [Next]_vars
             PROVE  TablesMatch'
  OBVIOUS
<1>1. ASSUME NEW l \in Locks, NEW P \in SUBSET Sources, NEW s \in Sources, Write(l, s, P)
      PROVE  TablesMatch'
  BY <1>1, WriteKeepsTables
<1>2. ASSUME NEW w \in Workers, Process(w) \/ \E i \in IDs : EventFails(w, i)
      PROVE  TablesMatch'
  BY <1>2, ProcessKeepsTables DEF Process
<1>3. ASSUME NEW w \in Workers, Acknowledgements(w)
      PROVE  TablesMatch'
  BY <1>3, AcknowledgeKeepsTables DEF Acknowledgements
<1>4. CASE UNCHANGED vars
  BY <1>4 DEF vars, tables, replicas, TablesMatch, RowsMatch, BatchesMatch, ReplicasMatch
<1> QED
  BY <1>1, <1>2, <1>3, <1>4, ScheduleKeepsTables, DequeueKeepsTables, LeavingKeepsTables,
     SourceKeepsTables, StaleKeepsTables DEF Next

\* Whatever workers do, and although a live worker may lose its job locks to
\* AcknowledgeStale and go on: a lock is taken exactly while an event of its
\* repository has a job lock.
THEOREM LocksOfJobs == Spec => [](acquired = {queue[i].lock : i \in jobLock})
<1>1. TablesMatch => acquired = {queue[i].lock : i \in jobLock}
  BY DEF TablesMatch, RowsMatch
<1> QED
  BY <1>1, InitTables, NextKeepsTables, PTL DEF Spec

-----------------------------------------------------------------------------
(* JobsAreOwned, as long as no live worker loses its health updates *)

\* What Enqueue does to the table of events.
LEMMA EnqueueRows ==
    ASSUME TablesMatch, NEW l \in Locks, NEW ch \in {"update", "delete_replica"},
           NEW s \in Sources \union {NoSource}, Enqueue(l, ch, s)
    PROVE  /\ nextID \notin DOMAIN queue /\ jobLock' = jobLock
           /\ \A i \in DOMAIN queue : i \in DOMAIN queue' /\ queue'[i] = queue[i]
           /\ Duplicate(l, ch) => DOMAIN queue' = DOMAIN queue
           /\ ~Duplicate(l, ch) => DOMAIN queue' = DOMAIN queue \union {nextID}
           /\ nextID \in DOMAIN queue' =>
                /\ queue'[nextID].lock = l /\ queue'[nextID].change = ch
                /\ queue'[nextID].source = s /\ queue'[nextID].state = "ready"
                /\ queue'[nextID].attempt = Attempts
<1>1. nextID \notin DOMAIN queue
  BY DEF TablesMatch, RowsMatch
<1>2. CASE Duplicate(l, ch)
  BY <1>1, <1>2 DEF Enqueue, tables
<1>3. CASE ~Duplicate(l, ch)
  BY <1>1, <1>3 DEF Enqueue
<1> QED
  BY <1>1, <1>2, <1>3

\* Rows that a worker holds do not change, rows may be added, and events may leave
\* batches or fail: every step but Dequeue and the two that acknowledge.
LEMMA RowsStayOwned ==
    ASSUME TablesMatch, TablesMatch', JobsAreOwned, jobLock' = jobLock,
           \A i \in DOMAIN queue : i \in DOMAIN queue' /\ queue'[i] = queue[i],
           \A i \in DOMAIN queue' \ DOMAIN queue :
                queue'[i].state = "ready" /\ queue'[i].attempt >= 1,
           \A x \in Workers : DOMAIN batch'[x] \subseteq DOMAIN batch[x],
           \A x \in Workers : \A i \in DOMAIN batch'[x] :
                /\ batch'[x][i].event = batch[x][i].event
                /\ batch'[x][i].outcome = "failed" =>
                     batch[x][i].outcome = "failed" \/ batch[x][i].event.attempt >= 1
    PROVE  JobsAreOwned'
<1>1. jobLock \subseteq DOMAIN queue
  BY DEF TablesMatch, RowsMatch
<1>2. \A i \in DOMAIN queue' :
        queue'[i].attempt >= (IF queue'[i].state = "in_progress" THEN 0 ELSE 1)
  BY DEF JobsAreOwned
<1>3. jobLock' = WithState("in_progress")'
  BY <1>1 DEF JobsAreOwned, WithState
<1>4. \A w \in Workers : \A i \in DOMAIN batch'[w] :
        /\ i \in jobLock' /\ batch'[w][i].event = queue'[i]
        /\ batch'[w][i].outcome = "failed" => queue'[i].attempt >= 1
  BY <1>1 DEF JobsAreOwned
<1>5. \A w, x \in Workers : \A i \in DOMAIN batch'[w], j \in DOMAIN batch'[x] :
        queue'[i].lock = queue'[j].lock => w = x
  <2>1. \A w \in Workers : \A i \in DOMAIN batch'[w] :
          i \in DOMAIN batch[w] /\ i \in DOMAIN queue
    BY <1>1 DEF JobsAreOwned
  <2> QED
    BY <2>1 DEF JobsAreOwned
<1> QED
  BY <1>2, <1>3, <1>4, <1>5 DEF JobsAreOwned

\* The rows that lose their job locks are deleted or become failed with attempts
\* left, and nobody holds them any more.
LEMMA RemovalStaysOwned ==
    ASSUME TablesMatch, JobsAreOwned, NEW D, NEW F, NEW R, D \subseteq R, F \subseteq R,
           Removes(D, F, R),
           \A i \in R : i \in D \/ (i \in F /\ queue[i].attempt >= 1),
           \A x \in Workers : \A i \in DOMAIN batch'[x] :
                i \in DOMAIN batch[x] /\ i \notin R /\ batch'[x][i] = batch[x][i]
    PROVE  JobsAreOwned'
<1>1. jobLock \subseteq DOMAIN queue /\ jobLock' = jobLock \ R
  BY DEF TablesMatch, RowsMatch, Removes
<1>2. RowsLeft(D, F)
  BY RemovalKeepsRows
<1>3. \A i \in DOMAIN queue' :
        queue'[i].attempt >= (IF queue'[i].state = "in_progress" THEN 0 ELSE 1)
  BY <1>2 DEF RowsLeft, JobsAreOwned
<1>4. jobLock' = WithState("in_progress")'
  BY <1>1, <1>2 DEF RowsLeft, JobsAreOwned, WithState
<1>5. \A w \in Workers : \A i \in DOMAIN batch'[w] :
        /\ i \in jobLock' /\ i \in DOMAIN queue' /\ batch'[w][i].event = queue'[i]
        /\ batch'[w][i].outcome = "failed" => queue'[i].attempt >= 1
  BY <1>1, <1>2 DEF RowsLeft, JobsAreOwned
<1>6. \A w, x \in Workers : \A i \in DOMAIN batch'[w], j \in DOMAIN batch'[x] :
        queue'[i].lock = queue'[j].lock => w = x
  BY <1>2, <1>5 DEF RowsLeft, JobsAreOwned
<1> QED
  BY <1>3, <1>4, <1>5, <1>6 DEF JobsAreOwned

\* Dequeued events are nobody else's: their repositories were not locked.
LEMMA DequeueStaysOwned ==
    ASSUME TablesMatch, JobsAreOwned, NEW w \in Workers, Dequeue(w)
    PROVE  JobsAreOwned'
<1>1. /\ DOMAIN queue' = DOMAIN queue
      /\ \A i \in DOMAIN queue : queue'[i] = IF i \in Dequeued THEN Took(queue[i]) ELSE queue[i]
      /\ jobLock' = jobLock \union Dequeued
  BY DEF Dequeue
<1>2. jobLock \subseteq DOMAIN queue /\ Dequeued \subseteq DOMAIN queue
  BY DequeuedAreWaiting DEF TablesMatch, RowsMatch
<1>3. \A i \in Dequeued :
        /\ queue'[i].state = "in_progress" /\ queue'[i].lock = queue[i].lock
        /\ queue'[i].attempt >= 0
  <2> SUFFICES ASSUME NEW i \in Dequeued
               PROVE  /\ queue'[i].state = "in_progress" /\ queue'[i].lock = queue[i].lock
                      /\ queue'[i].attempt >= 0
    OBVIOUS
  <2>1. queue[i].attempt \in Int /\ queue[i].attempt >= 1
    BY <1>2, DequeuedAreWaiting DEF JobsAreOwned, TablesMatch, RowsMatch, Event
  <2>2. queue'[i] = Took(queue[i]) /\ i \in DOMAIN queue
    BY <1>1, <1>2
  <2> QED
    BY <2>1, <2>2, TookIsEvent
<1>4. \A i \in DOMAIN queue' :
        queue'[i].attempt >= (IF queue'[i].state = "in_progress" THEN 0 ELSE 1)
  BY <1>1, <1>3 DEF JobsAreOwned
<1>5. jobLock' = WithState("in_progress")'
  BY <1>1, <1>2, <1>3 DEF JobsAreOwned, WithState
<1>6. jobLock \intersect Dequeued = {}
  BY DequeuedAreWaiting DEF JobsAreOwned, WithState
<1>7. \A x \in Workers : \A i \in DOMAIN batch'[x] :
        /\ i \in DOMAIN queue /\ i \in jobLock' /\ batch'[x][i].event = queue'[i]
        /\ batch'[x][i].outcome = "failed" => queue'[i].attempt >= 1
        /\ x = w => i \in Dequeued
        /\ x # w => i \in jobLock /\ i \in DOMAIN batch[x]
  <2> SUFFICES ASSUME NEW x \in Workers, NEW i \in DOMAIN batch'[x]
               PROVE  /\ i \in DOMAIN queue /\ i \in jobLock' /\ batch'[x][i].event = queue'[i]
                      /\ batch'[x][i].outcome = "failed" => queue'[i].attempt >= 1
                      /\ x = w => i \in Dequeued
                      /\ x # w => i \in jobLock /\ i \in DOMAIN batch[x]
    OBVIOUS
  <2>1. CASE x = w
    BY <1>1, <1>2, <2>1, DequeueKeepsBatches
  <2>2. CASE x # w
    <3>1. batch'[x] = batch[x]
      BY <2>2, DequeueKeepsBatches
    <3> QED
      BY <1>1, <1>2, <1>6, <2>2, <3>1 DEF JobsAreOwned
  <2> QED
    BY <2>1, <2>2
<1>8. \A i \in DOMAIN queue : queue'[i].lock = queue[i].lock
  BY <1>1, <1>3
<1>9. \A x, y \in Workers : \A i \in DOMAIN batch'[x], j \in DOMAIN batch'[y] :
        queue'[i].lock = queue'[j].lock => x = y
  <2> SUFFICES ASSUME NEW x \in Workers, NEW y \in Workers, NEW i \in DOMAIN batch'[x],
                      NEW j \in DOMAIN batch'[y], queue[i].lock = queue[j].lock, x # y
               PROVE  FALSE
    BY <1>7, <1>8
  <2>1. CASE x = w
    BY <2>1, <1>7, DequeuedAreWaiting
  <2>2. CASE y = w
    BY <2>2, <1>7, DequeuedAreWaiting
  <2>3. CASE x # w /\ y # w
    BY <2>3, <1>7 DEF JobsAreOwned
  <2> QED
    BY <2>1, <2>2, <2>3
<1> QED
  BY <1>4, <1>5, <1>7, <1>9 DEF JobsAreOwned

\* A worker acknowledges its own events only, and finds all of them.
LEMMA AcknowledgeStaysOwned ==
    ASSUME TablesMatch, JobsAreOwned, NEW w \in Workers,
           NEW st \in {"completed", "failed", "dead"}, AcknowledgeBatch(w, st)
    PROVE  /\ JobsAreOwned'
           /\ Existing(InState(w, st)) = InState(w, st)
<1> DEFINE ids == InState(w, st)
<1>1. Acknowledge(st, ids) /\ Forget(w, ids)
  BY DEF AcknowledgeBatch
<1>2. Existing(ids) = ids
  BY DEF Existing, InState, JobsAreOwned
<1>3. Removes(Deleted(st, ids), ids, ids \union Deleted(st, ids))
  BY <1>1, <1>2, AcknowledgeRemoves
<1>4. \A i \in Deleted(st, ids) : i \in ids \/ queue[i].state = "ready"
  BY <1>2 DEF Deleted, Similar, WithState
<1>5. ids \subseteq DOMAIN batch[w]
  BY DEF InState
<1>6. \A i \in ids \union Deleted(st, ids) :
        i \in Deleted(st, ids) \/ (i \in ids /\ queue[i].attempt >= 1)
  <2>1. CASE st = "failed"
    BY <2>1 DEF InState, JobsAreOwned
  <2>2. CASE st # "failed"
    BY <1>2, <2>2 DEF Deleted
  <2> QED
    BY <2>1, <2>2
<1>7. \A x \in Workers : \A i \in DOMAIN batch'[x] :
        i \in DOMAIN batch[x] /\ i \notin ids /\ batch'[x][i] = batch[x][i]
  <2>1. /\ DOMAIN batch'[w] = DOMAIN batch[w] \ ids
        /\ \A i \in DOMAIN batch'[w] : batch'[w][i] = batch[w][i]
        /\ \A x \in Workers \ {w} : batch'[x] = batch[x]
    BY <1>1, LeavingKeepsBatches DEF TablesMatch
  <2> HIDE DEF ids
  <2> QED
    BY <2>1, <1>5 DEF JobsAreOwned
<1>8. \A x \in Workers : \A i \in DOMAIN batch[x] : queue[i].state = "in_progress"
  BY DEF JobsAreOwned, WithState
<1>9. \A x \in Workers : \A i \in DOMAIN batch'[x] :
        i \in DOMAIN batch[x] /\ i \notin ids \union Deleted(st, ids) /\ batch'[x][i] = batch[x][i]
  BY <1>4, <1>7, <1>8
<1> HIDE DEF ids
<1>10. JobsAreOwned'
  BY <1>3, <1>6, <1>9, RemovalStaysOwned
<1> QED
  BY <1>2, <1>10 DEF ids

\* Stale events are in nobody's batch.
LEMMA StaleStaysOwned ==
    ASSUME ~HealthMayFail, TablesMatch, JobsAreOwned, NEW X \in SUBSET jobLock, AcknowledgeStale(X)
    PROVE  JobsAreOwned'
<1>1. Removes(StaleDeleted(X), StaleFailed(X), X)
  BY AcknowledgeStaleRemoves
<1>2. StaleDeleted(X) \subseteq X /\ StaleFailed(X) \subseteq X
  BY DEF StaleDeleted, StaleFailed
<1>3. \A i \in X : i \in StaleDeleted(X) \/ (i \in StaleFailed(X) /\ queue[i].attempt >= 1)
  <2> SUFFICES ASSUME NEW i \in X
               PROVE  queue[i].attempt = 0 \/ queue[i].attempt >= 1
    BY DEF StaleDeleted, StaleFailed
  <2>1. queue[i].attempt \in Int /\ queue[i].attempt >= 0
    BY DEF JobsAreOwned, WithState, TablesMatch, RowsMatch, Event
  <2> QED
    BY <2>1
<1>4. \A x \in Workers : \A i \in DOMAIN batch'[x] :
        i \in DOMAIN batch[x] /\ i \notin X /\ batch'[x][i] = batch[x][i]
  BY DEF AcknowledgeStale, MayBeStale
<1> QED
  BY <1>1, <1>2, <1>3, <1>4, RemovalStaysOwned

\* Every step keeps the ownership of jobs.
LEMMA NextStaysOwned ==
    ASSUME ~HealthMayFail, TablesMatch, JobsAreOwned, [Next]_vars
    PROVE  JobsAreOwned'
<1>1. TablesMatch'
  BY NextKeepsTables
<1>2. ASSUME NEW l \in Locks, NEW P \in SUBSET Sources, NEW s \in Sources,
             Write(l, s, P) \/ ScheduleDelete(l)
      PROVE  JobsAreOwned'
  <2>1. PICK ch \in {"update", "delete_replica"}, t \in Sources \union {NoSource} :
          Enqueue(l, ch, t) /\ batch' = batch
    BY <1>2 DEF Write, ScheduleDelete
  <2>2. \A i \in DOMAIN queue' \ DOMAIN queue :
          queue'[i].state = "ready" /\ queue'[i].attempt >= 1
    BY <2>1, EnqueueRows, QueueAssumption
  <2>3. jobLock' = jobLock /\ \A i \in DOMAIN queue : i \in DOMAIN queue' /\ queue'[i] = queue[i]
    BY <2>1, EnqueueRows
  <2> QED
    BY <1>1, <2>1, <2>2, <2>3, RowsStayOwned
<1>3. ASSUME NEW w \in Workers, NEW i,
             \/ Replicate(w, i) \/ ReplicateInvalid(w, i)
             \/ RemoveRepository(w, i) \/ DeleteReplica(w, i) \/ EventFails(w, i)
      PROVE  JobsAreOwned'
  <2>1. jobLock' = jobLock /\ queue' = queue
    BY <1>3 DEF Replicate, ReplicateInvalid, RemoveRepository, DeleteReplica, EventFails, tables
  <2>2. i \in DOMAIN batch[w] /\ BatchesMatch
    BY <1>3 DEF Replicate, ReplicateInvalid, RemoveRepository, DeleteReplica, EventFails, At, TablesMatch
  <2>3. PICK o \in Outcomes : Becomes(w, i, o) /\ (o = "failed" => batch[w][i].event.attempt >= 1)
    <3>1. batch[w][i].event.attempt \in Int
      BY <2>2 DEF BatchesMatch, Job, Event
    <3>2. CASE EventFails(w, i)
      BY <3>1, <3>2 DEF EventFails, FailedState, Outcomes
    <3>3. CASE ~EventFails(w, i)
      <4>1. \E o \in {"completed", "removed"} : Becomes(w, i, o)
        BY <1>3, <3>3 DEF Replicate, ReplicateInvalid, RemoveRepository, DeleteReplica
      <4> QED
        BY <4>1 DEF Outcomes
    <3> QED
      BY <3>2, <3>3
  <2>4. \A x \in Workers : DOMAIN batch'[x] = DOMAIN batch[x]
    BY <2>2, <2>3, BecomesKeepsBatches
  <2>5. \A x \in Workers : \A j \in DOMAIN batch'[x] :
          /\ batch'[x][j].event = batch[x][j].event
          /\ batch'[x][j].outcome = "failed" =>
               batch[x][j].outcome = "failed" \/ batch[x][j].event.attempt >= 1
    BY <2>2, <2>3, <2>4, BecomesKeepsBatches
  <2> QED
    BY <1>1, <2>1, <2>4, <2>5, RowsStayOwned
<1>4. ASSUME NEW w \in Workers, (\E st : AcknowledgeFails(w, st)) \/ Crash(w)
      PROVE  JobsAreOwned'
  <2>1. PICK ids : \/ Forget(w, ids)
                   \/ batch' = [batch EXCEPT ![w] = NoBatch] /\ ids = DOMAIN batch[w]
    BY <1>4 DEF AcknowledgeFails, Crash
  <2>2. jobLock' = jobLock /\ queue' = queue
    BY <1>4 DEF AcknowledgeFails, Crash, tables
  <2>3. \A x \in Workers : /\ DOMAIN batch'[x] \subseteq DOMAIN batch[x]
                           /\ \A i \in DOMAIN batch'[x] : batch'[x][i] = batch[x][i]
    BY <2>1, LeavingKeepsBatches DEF TablesMatch
  <2> QED
    BY <1>1, <2>2, <2>3, RowsStayOwned
<1>5. CASE UNCHANGED vars
  BY <1>1, <1>5, RowsStayOwned DEF vars, tables
<1>6. ASSUME NEW w \in Workers, Acknowledgements(w)
      PROVE  JobsAreOwned'
  BY <1>6, AcknowledgeStaysOwned DEF Acknowledgements
<1>7. ASSUME NEW l \in Locks, NEW s \in Sources, SourceVanishes(l, s) \/ SourceReturns(l, s)
      PROVE  JobsAreOwned'
  BY <1>1, <1>7, RowsStayOwned DEF SourceVanishes, SourceReturns, tables
<1> QED
  BY <1>2, <1>3, <1>4, <1>5, <1>6, <1>7, DequeueStaysOwned, StaleStaysOwned, QueueAssumption DEF Next, Process

-----------------------------------------------------------------------------
(* EventsCarryWrites *)

\* The event that a worker holds is in progress.  There is no other update of its
\* repository in progress, and no older one.
LEMMA HeldIsOldest ==
    ASSUME TablesMatch, JobsAreOwned, OldestFirst, NEW w \in Workers, NEW i \in DOMAIN batch[w],
           queue[i].change = "update"
    PROVE  /\ i \in DOMAIN queue /\ queue[i].state = "in_progress"
           /\ i \in Updates(queue[i].lock)
           /\ \A j \in Updates(queue[i].lock) : i <= j
           /\ \A x \in Workers : \A j \in DOMAIN batch[x] : j \in Updates(queue[i].lock) => j = i
<1>1. i \in DOMAIN queue /\ queue[i].state = "in_progress" /\ i \in Updates(queue[i].lock)
  BY DEF JobsAreOwned, WithState, Updates, OfLock, OfChange
<1>2. \A j \in Updates(queue[i].lock) : i <= j
  BY <1>1 DEF OldestFirst, Updates, OfLock, OfChange
<1>3. \A x \in Workers : \A j \in DOMAIN batch[x] : j \in Updates(queue[i].lock) => j <= i
  BY <1>1 DEF OldestFirst, Updates, OfLock, OfChange, JobsAreOwned, WithState
<1>4. \A j \in Updates(queue[i].lock) \union {i} : j \in Nat
  BY <1>1, QueueAssumption DEF Updates, OfLock, TablesMatch, RowsMatch
<1> QED
  BY <1>1, <1>2, <1>3, <1>4

\* The numbers in an insertion and in the rows.
LEMMA InsertionNumbers ==
    ASSUME TablesMatch, NEW c \in inserted
    PROVE  /\ c.id \in Nat /\ c.write \in Nat /\ c.lock \in Locks /\ c.source \in Sources
           /\ nextID \in Nat /\ copy[c.lock] \in Nat /\ gaveUp[c.lock] \in Nat
           /\ \A s \in Sources : content[c.lock][s] \in Int /\ content[c.lock][s] <= latest[c.lock]
           /\ latest[c.lock] \in Nat
           /\ \A i \in Updates(c.lock) :
                /\ i \in Nat /\ i \in DOMAIN queue /\ i < nextID /\ queue[i].source \in Sources
                /\ queue[i].lock = c.lock /\ queue[i].change = "update"
                /\ queue[i].taken \in Nat /\ queue[i].taken <= nextID /\ queue[i].covers \in Nat
<1>1. c \in Insertion
  BY DEF TablesMatch, ReplicasMatch
<1>2. c.id \in Nat /\ c.write \in Nat /\ c.lock \in Locks /\ c.source \in Sources
  BY <1>1, QueueAssumption DEF Insertion, IDs
<1>3. nextID \in Nat /\ copy[c.lock] \in Nat /\ gaveUp[c.lock] \in Nat
  BY <1>2, QueueAssumption DEF TablesMatch, RowsMatch, ReplicasMatch
<1>4. /\ latest[c.lock] \in Nat
      /\ \A s \in Sources : content[c.lock][s] \in Int /\ content[c.lock][s] <= latest[c.lock]
  BY <1>2, LatestIsLast
<1>5. \A i \in Updates(c.lock) :
        /\ i \in Nat /\ i \in DOMAIN queue /\ i < nextID /\ queue[i].source \in Sources
        /\ queue[i].lock = c.lock /\ queue[i].change = "update"
        /\ queue[i].taken \in Nat /\ queue[i].taken <= nextID /\ queue[i].covers \in Nat
  BY QueueAssumption DEF Updates, OfLock, OfChange, TablesMatch, RowsMatch, Event
<1> QED
  BY <1>2, <1>3, <1>4, <1>5

\* A write leaves what earlier events are for as it was.
LEMMA WriteKeepsInserted ==
    ASSUME TablesMatch, JobsAreOwned, EventsCarryWrites, NEW l \in Locks, NEW P \in SUBSET Sources,
           NEW s \in Sources, Write(l, s, P), NEW c \in inserted
    PROVE  c.id < nextID' /\ SourcesHold(c)' /\ EventStays(c)' /\ CompletedBrings(c)'
<1>1. /\ Enqueue(l, "update", s) /\ nextID' >= nextID
      /\ UNCHANGED <<batch, lost, copy, onDisk, recorded, gaveUp>>
  BY DEF Write, Enqueue, tables, TablesMatch, RowsMatch
<1>2. /\ \A k \in Locks, x \in Sources :
            /\ content'[k][x] >= content[k][x]
            /\ content[k][x] = GenerationUnknown => content'[k][x] = GenerationUnknown
      /\ content'[l][s] = latest[l] + 1 /\ TablesMatch'
  BY WriteKeepsTables
<1>3. \A k \in Locks, x \in Sources : content'[k][x] \in Int /\ content[k][x] \in Int
  BY <1>2, LatestIsLast DEF TablesMatch, ReplicasMatch, GenerationUnknown
<1>4. /\ nextID \notin DOMAIN queue
      /\ \A i \in DOMAIN queue : i \in DOMAIN queue' /\ queue'[i] = queue[i]
      /\ DOMAIN queue' \subseteq DOMAIN queue \union {nextID}
      /\ nextID \in DOMAIN queue' =>
           /\ queue'[nextID].lock = l /\ queue'[nextID].change = "update"
           /\ queue'[nextID].source = s
  BY <1>1, EnqueueRows
<1>5. /\ c.id \in Nat /\ c.write \in Nat /\ c.lock \in Locks /\ c.source \in Sources
      /\ nextID \in Nat /\ c.id < nextID /\ nextID' \in Nat
      /\ SourcesHold(c) /\ EventStays(c) /\ CompletedBrings(c)
  BY <1>2, InsertionNumbers, QueueAssumption DEF EventsCarryWrites, TablesMatch, RowsMatch
<1>6. /\ Updates(c.lock) \subseteq Updates(c.lock)'
      /\ \A i \in Updates(c.lock)' : i \in Updates(c.lock) \/ (i = nextID /\ c.lock = l)
      /\ \A i \in Updates(c.lock) : i \in DOMAIN queue /\ queue'[i] = queue[i]
  BY <1>4 DEF Updates, OfLock, OfChange
<1>7. SourcesHold(c)'
  <2>1. content'[c.lock][c.source] >= c.write
    BY <1>2, <1>3, <1>5 DEF SourcesHold
  <2>2. ASSUME NEW i \in Updates(c.lock)', i >= c.id
        PROVE  LET n == content'[c.lock][queue'[i].source]
               IN  n = GenerationUnknown \/ n >= c.write
    <3>1. CASE i \in Updates(c.lock)
      <4>1. queue[i].source \in Sources
        BY <3>1, InsertionNumbers
      <4> QED
        BY <1>2, <1>3, <1>5, <1>6, <2>2, <3>1, <4>1 DEF SourcesHold
    <3>2. CASE i = nextID /\ c.lock = l
      <4>1. queue'[i].source = s
        BY <1>4, <2>2, <3>2 DEF Updates, OfLock
      <4>2. content[l][c.source] >= c.write /\ content[l][c.source] <= latest[l] /\ latest[l] \in Nat
        BY <1>5, <3>2, LatestIsLast DEF SourcesHold
      <4> QED
        BY <1>2, <1>3, <1>5, <3>2, <4>1, <4>2
    <3> QED
      BY <1>6, <2>2, <3>1, <3>2
  <2> QED
    BY <1>1, <1>5, <2>1, <2>2 DEF SourcesHold
<1>8. EventStays(c)'
  <2>1. \A i \in Updates(c.lock)' : i <= c.id => c.id \in Updates(c.lock)'
    BY <1>5, <1>6 DEF EventStays
  <2>2. Missing(c.lock, c.write)' => c.id \in Updates(c.lock)'
    BY <1>1, <1>5, <1>6 DEF EventStays, Missing
  <2>3. c.id \in Updates(c.lock)' => c.id \in Updates(c.lock)
    BY <1>5, <1>6
  <2> QED
    BY <1>5, <1>6, <2>1, <2>2, <2>3 DEF EventStays
<1>9. CompletedBrings(c)'
  <2>1. \A w \in Workers : \A j \in InState(w, "completed") : j \in DOMAIN queue
    BY DEF InState, TablesMatch, RowsMatch, JobsAreOwned
  <2>2. \A w : InState(w, "completed")' = InState(w, "completed")
    BY <1>1 DEF InState
  <2> QED
    BY <1>1, <1>4, <1>5, <1>6, <2>1, <2>2 DEF CompletedBrings
<1>10. c.id < nextID'
  BY <1>1, <1>5
<1> QED
  BY <1>7, <1>8, <1>9, <1>10

\* The event of a write carries it.
LEMMA WriteCarries ==
    ASSUME TablesMatch, JobsAreOwned, EventsCarryWrites, NEW l \in Locks, NEW P \in SUBSET Sources,
           NEW s \in Sources, Write(l, s, P)
    PROVE  EventsCarryWrites'
<1>1. /\ Enqueue(l, "update", s) /\ UNCHANGED <<batch, lost>>
      /\ s \in P /\ \A x \in P : <<l, x>> \notin lost
  BY DEF Write
<1>2. content'[l][s] = latest[l] + 1 /\ TablesMatch' /\ latest[l] \in Nat
  BY WriteKeepsTables, LatestIsLast
<1>3. /\ nextID \notin DOMAIN queue /\ nextID \in Nat
      /\ \A i \in DOMAIN queue : i \in Nat /\ i < nextID
      /\ \A i \in DOMAIN queue : queue[i].taken \in Nat /\ queue[i].taken <= nextID
  BY QueueAssumption DEF TablesMatch, RowsMatch, Event
<1>4. CASE Duplicate(l, "update")
  <2>1. queue' = queue /\ inserted' = inserted
    BY <1>1, <1>4 DEF Enqueue, tables, Write
  <2>2. OldestFirst'
    BY <2>1 DEF EventsCarryWrites, OldestFirst, OfChange
  <2> QED
    BY <2>1, <2>2, WriteKeepsInserted DEF EventsCarryWrites
<1>5. CASE ~Duplicate(l, "update")
  <2>1. /\ DOMAIN queue' = DOMAIN queue \union {nextID} /\ nextID' = nextID + 1
        /\ \A i \in DOMAIN queue : queue'[i] = queue[i]
        /\ queue'[nextID].lock = l /\ queue'[nextID].change = "update"
        /\ queue'[nextID].source = s /\ queue'[nextID].state = "ready"
    BY <1>1, <1>5, EnqueueRows DEF Enqueue
  <2>2. PICK c : c = [id |-> nextID, lock |-> l, source |-> s, write |-> latest[l] + 1]
    OBVIOUS
  <2>3. inserted' = inserted \union {c}
    BY <1>5, <2>2 DEF Write
  <2>4. c.id = nextID /\ c.lock = l /\ c.source = s /\ c.write = latest[l] + 1
    BY <2>2
  <2>5. OldestFirst'
    <3>1. \A i \in OfChange("update") : queue[i].lock = l => queue[i].state # "ready"
      BY <1>5 DEF Duplicate, OfLock, OfChange, WithState
    <3>2. OfChange("update")' = OfChange("update") \union {nextID}
      BY <2>1, <1>3 DEF OfChange
    <3>3. \A i \in OfChange("update") : i \in DOMAIN queue /\ queue'[i] = queue[i] /\ i <= nextID
      BY <2>1, <1>3 DEF OfChange
    <3> QED
      BY <2>1, <3>1, <3>2, <3>3, <1>3 DEF EventsCarryWrites, OldestFirst
  <2>6. nextID \in Updates(l)' /\ \A i \in Updates(l)' : i \in DOMAIN queue \/ i = nextID
    BY <2>1 DEF Updates, OfLock, OfChange
  <2>7. SourcesHold(c)'
    <3>1. content'[l][s] >= latest[l] + 1
      BY <1>2
    <3>2. \A i \in Updates(l)' : i >= nextID => i = nextID
      BY <1>3, <2>6
    <3> QED
      BY <1>1, <2>1, <2>4, <3>1, <3>2 DEF SourcesHold
  <2>8. EventStays(c)'
    BY <2>1, <2>4, <2>6 DEF EventStays
  <2>9. CompletedBrings(c)'
    <3>1. \A w \in Workers : \A j \in InState(w, "completed")' : j \in DOMAIN queue
      BY <1>1 DEF InState, TablesMatch, RowsMatch, JobsAreOwned
    <3>2. \A j \in DOMAIN queue : j # nextID /\ ~(nextID < queue'[j].taken)
      BY <1>3, <2>1
    <3> QED
      BY <2>4, <3>1, <3>2 DEF CompletedBrings
  <2>10. c.id < nextID'
    BY <1>3, <2>1, <2>4
  <2> QED
    BY <2>3, <2>5, <2>7, <2>8, <2>9, <2>10, WriteKeepsInserted DEF EventsCarryWrites
<1> QED
  BY <1>4, <1>5

\* Steps that leave updates, replicas and completed events alone; insertions whose
\* source has lost the repository are dropped.
LEMMA SameUpdatesCarry ==
    ASSUME TablesMatch, JobsAreOwned, EventsCarryWrites, nextID' \in Nat, nextID' >= nextID,
           \A i \in DOMAIN queue : i \in DOMAIN queue' /\ queue'[i] = queue[i],
           \A i \in DOMAIN queue' \ DOMAIN queue : queue'[i].change # "update",
           \A w \in Workers : \A j \in DOMAIN batch'[w] : batch'[w][j].outcome = "completed" =>
                j \in DOMAIN batch[w] /\ batch[w][j].outcome = "completed",
           inserted' \subseteq inserted,
           \A c \in inserted' : <<c.lock, c.source>> \notin lost',
           UNCHANGED <<content, copy, recorded, gaveUp>>
    PROVE  EventsCarryWrites'
<1>1. OfChange("update")' = OfChange("update")
  BY DEF OfChange
<1>2. \A k : Updates(k)' = Updates(k)
  BY DEF Updates, OfLock, OfChange
<1>3. \A i \in OfChange("update") : queue'[i] = queue[i]
  BY DEF OfChange
<1>4. OldestFirst'
  BY <1>1, <1>3 DEF EventsCarryWrites, OldestFirst
<1>5. ASSUME NEW c \in inserted'
      PROVE  c.id < nextID' /\ SourcesHold(c)' /\ EventStays(c)' /\ CompletedBrings(c)'
  <2>1. c \in inserted /\ SourcesHold(c) /\ EventStays(c) /\ CompletedBrings(c) /\ c.id < nextID
    BY <1>5 DEF EventsCarryWrites
  <2>2. \A j \in Updates(c.lock) : queue'[j] = queue[j]
    BY <1>3 DEF Updates
  <2>3. \A w \in Workers : \A j \in InState(w, "completed")' : j \in InState(w, "completed")
    BY DEF InState
  <2>4. SourcesHold(c)'
    BY <1>2, <1>5, <2>1, <2>2 DEF SourcesHold
  <2>5. EventStays(c)'
    BY <1>2, <2>1, <2>2 DEF EventStays, Missing
  <2>6. CompletedBrings(c)'
    BY <1>2, <2>1, <2>2, <2>3 DEF CompletedBrings
  <2>7. c.id < nextID'
    BY <2>1, InsertionNumbers
  <2> QED
    BY <2>4, <2>5, <2>6, <2>7
<1> QED
  BY <1>4, <1>5 DEF EventsCarryWrites

\* An attempt covers what was written before it began.
LEMMA DequeueCarries ==
    ASSUME TablesMatch, JobsAreOwned, EventsCarryWrites, NEW w \in Workers, Dequeue(w)
    PROVE  EventsCarryWrites'
<1>1. /\ DOMAIN queue' = DOMAIN queue
      /\ \A i \in DOMAIN queue : queue'[i] = IF i \in Dequeued THEN Took(queue[i]) ELSE queue[i]
      /\ UNCHANGED <<content, copy, recorded, inserted, gaveUp, lost, nextID>>
  BY DEF Dequeue, replicas
<1>2. Dequeued \subseteq DOMAIN queue /\ jobLock \subseteq DOMAIN queue
  BY DequeuedAreWaiting DEF TablesMatch, RowsMatch
<1>3. \A i \in DOMAIN queue :
        /\ queue'[i].lock = queue[i].lock /\ queue'[i].change = queue[i].change
        /\ queue'[i].source = queue[i].source
        /\ i \in Dequeued => /\ queue'[i].state = "in_progress"
                             /\ queue'[i].covers = latest[queue[i].lock]
        /\ i \notin Dequeued => queue'[i] = queue[i]
  BY <1>1, TookIsEvent
<1>4. OfChange("update")' = OfChange("update") /\ \A k : Updates(k)' = Updates(k)
  BY <1>1, <1>3 DEF Updates, OfLock, OfChange
<1>5. OldestFirst'
  <2> SUFFICES ASSUME NEW i \in OfChange("update"), NEW j \in OfChange("update"),
                      queue[i].lock = queue[j].lock
               PROVE  /\ queue'[j].state # "ready" => j <= i
                      /\ queue'[i].state = "ready" /\ queue'[j].state = "ready" => i = j
    BY <1>3, <1>4 DEF OldestFirst, OfChange
  <2>1. i \in DOMAIN queue /\ j \in DOMAIN queue /\ queue[i].change = "update" /\ queue[j].change = "update"
    BY DEF OfChange
  <2>2. CASE j \in Dequeued
    <3>1. i \notin jobLock /\ \A k \in jobLock : queue[k].lock # queue[i].lock
      BY <2>2, DequeuedAreWaiting
    <3>2. queue[i].state \in {"ready", "failed"}
      BY <2>1, <3>1 DEF JobsAreOwned, WithState, TablesMatch, RowsMatch, Event
    <3>3. j <= i
      BY <2>1, <2>2, <3>1, <3>2, DequeuedAreWaiting
    <3> QED
      BY <2>1, <2>2, <3>3, <1>3
  <2>3. CASE j \notin Dequeued
    <3>1. queue'[j] = queue[j]
      BY <2>1, <2>3, <1>3
    <3>2. queue'[i].state = "ready" => queue[i].state = "ready"
      BY <2>1, <1>3
    <3> QED
      BY <3>1, <3>2 DEF EventsCarryWrites, OldestFirst
  <2> QED
    BY <2>2, <2>3
<1>6. ASSUME NEW x \in Workers, NEW j \in InState(x, "completed")'
      PROVE  j \in InState(x, "completed") /\ j \notin Dequeued /\ j \in DOMAIN queue
  <2>1. x # w
    BY <1>6, DequeueKeepsBatches DEF InState
  <2>2. batch'[x] = batch[x]
    BY <2>1, DequeueKeepsBatches
  <2>3. j \in InState(x, "completed")
    BY <1>6, <2>2 DEF InState
  <2>4. j \in jobLock
    BY <2>3 DEF InState, JobsAreOwned
  <2>5. j \notin Dequeued
    BY <2>4, DequeuedAreWaiting
  <2> QED
    BY <2>3, <2>4, <2>5, <1>2
<1>7. ASSUME NEW c \in inserted
      PROVE  SourcesHold(c)' /\ EventStays(c)' /\ CompletedBrings(c)'
  <2>1. SourcesHold(c) /\ EventStays(c) /\ CompletedBrings(c)
    BY DEF EventsCarryWrites
  <2>2. \A i \in Updates(c.lock) : i \in DOMAIN queue /\ queue[i].lock = c.lock
    BY InsertionNumbers
  <2>3. latest[c.lock] >= c.write
    BY <2>1, InsertionNumbers DEF SourcesHold
  <2>4. SourcesHold(c)'
    BY <1>1, <1>3, <1>4, <2>1, <2>2 DEF SourcesHold
  <2>5. EventStays(c)'
    <3>1. c.id \in Updates(c.lock) =>
            /\ queue'[c.id].source = c.source
            /\ queue'[c.id].state = "in_progress" => queue'[c.id].covers >= c.write
      BY <1>3, <2>1, <2>2, <2>3 DEF EventStays
    <3> QED
      BY <1>1, <1>4, <2>1, <3>1 DEF EventStays, Missing
  <2>6. CompletedBrings(c)'
    BY <1>1, <1>3, <1>4, <1>6, <2>1 DEF CompletedBrings
  <2> QED
    BY <2>4, <2>5, <2>6
<1> QED
  BY <1>1, <1>5, <1>7 DEF EventsCarryWrites

\* A completed update brings what its source has, or its source has lost it.
LEMMA ReplicateCarries ==
    ASSUME TablesMatch, JobsAreOwned, EventsCarryWrites, NEW w \in Workers, NEW i,
           Replicate(w, i) \/ ReplicateInvalid(w, i)
    PROVE  EventsCarryWrites'
<1>1. /\ i \in DOMAIN batch[w] /\ Becomes(w, i, "completed")
      /\ UNCHANGED <<queue, nextID, inserted, gaveUp, lost>>
  BY DEF Replicate, ReplicateInvalid, At, tables
<1>2. batch[w][i].event = queue[i] /\ i \in DOMAIN queue
  BY <1>1 DEF JobsAreOwned, TablesMatch, RowsMatch
<1>3. PICK l, s : l = queue[i].lock /\ s = queue[i].source
  OBVIOUS
<1>4. queue[i].change = "update" /\ l \in Locks /\ s \in Sources
  BY <1>2, <1>3 DEF Replicate, ReplicateInvalid, TablesMatch, RowsMatch, Event
<1>5. /\ copy \in [Locks -> Nat] /\ content[l][s] \in Int
      /\ content \in [Locks -> [Sources -> Nat \union {GenerationUnknown}]]
  BY <1>4, LatestIsLast DEF TablesMatch, ReplicasMatch
<1>6. \A k : Updates(k)' = Updates(k)
  BY <1>1 DEF Updates, OfLock, OfChange
<1>7. OldestFirst /\ OldestFirst'
  BY <1>1 DEF EventsCarryWrites, OldestFirst, OfChange
<1>8. \A x \in Workers : \A j \in InState(x, "completed")' :
        j \in DOMAIN batch[x] /\ (j \in InState(x, "completed") \/ j = i)
  <2>1. /\ \A x \in Workers : DOMAIN batch'[x] = DOMAIN batch[x]
        /\ \A x \in Workers : \A j \in DOMAIN batch[x] :
             batch'[x][j].outcome = IF x = w /\ j = i THEN "completed" ELSE batch[x][j].outcome
    BY <1>1, BecomesKeepsBatches DEF TablesMatch, Outcomes
  <2> QED
    BY <2>1 DEF InState
<1>9. i \in Updates(l) /\ \A x \in Workers : \A j \in DOMAIN batch[x] : j \in Updates(l) => j = i
  BY <1>1, <1>3, <1>4, <1>7, HeldIsOldest
<1>10. \/ /\ UNCHANGED <<content, copy, recorded>>
          /\ DowngradeAttempted(l, s) \/ content[l][s] = GenerationUnknown
       \/ /\ content' = content /\ content[l][s] # GenerationUnknown
          /\ copy' = [copy EXCEPT ![l] = content[l][s]] /\ recorded' = recorded \union {l}
       \/ /\ UNCHANGED <<copy, recorded>> /\ <<l, s>> \in lost
          /\ content' = [content EXCEPT ![l] = [content[l] EXCEPT ![s] = GenerationUnknown]]
  BY <1>2, <1>3 DEF Replicate, ReplicateInvalid
<1>11. \A k \in Locks : k # l => copy'[k] = copy[k] /\ (k \in recorded' <=> k \in recorded)
  BY <1>5, <1>10
<1>12. \A k \in Locks, x \in Sources :
         content'[k][x] = content[k][x] \/ (k = l /\ x = s /\ <<l, s>> \in lost
                                            /\ content'[k][x] = GenerationUnknown)
  BY <1>4, <1>5, <1>10
<1>13. ASSUME NEW c \in inserted
       PROVE  SourcesHold(c)' /\ EventStays(c)' /\ CompletedBrings(c)'
  <2>1. SourcesHold(c) /\ EventStays(c) /\ CompletedBrings(c)
    BY DEF EventsCarryWrites
  <2>2. /\ c.id \in Nat /\ c.write \in Nat /\ c.lock \in Locks /\ c.source \in Sources
        /\ \A j \in Updates(c.lock) : j \in Nat /\ queue[j].source \in Sources
    BY InsertionNumbers
  <2>3. SourcesHold(c)'
    <3>1. content'[c.lock][c.source] = content[c.lock][c.source]
      BY <1>12, <2>1, <2>2 DEF SourcesHold
    <3>2. \A j \in Updates(c.lock) :
            \/ content'[c.lock][queue[j].source] = content[c.lock][queue[j].source]
            \/ content'[c.lock][queue[j].source] = GenerationUnknown
      BY <1>12, <2>2
    <3> QED
      BY <1>1, <1>6, <2>1, <3>1, <3>2 DEF SourcesHold
  <2>4. i = c.id /\ c.lock = l => s = c.source
    BY <1>3, <1>9, <2>1 DEF EventStays
  <2>5. Missing(c.lock, c.write)' => c.id \in Updates(c.lock)
    <3> SUFFICES ASSUME Missing(c.lock, c.write)'
                 PROVE  c.id \in Updates(c.lock)
      OBVIOUS
    <3>1. CASE UNCHANGED <<copy, recorded>> \/ c.lock # l
      <4>1. Missing(c.lock, c.write)
        BY <1>1, <1>11, <2>2, <3>1 DEF Missing
      <4> QED
        BY <2>1, <4>1 DEF EventStays
    <3>2. CASE ~(UNCHANGED <<copy, recorded>> \/ c.lock # l)
      <4>1. copy'[l] = content[l][s] /\ content[l][s] # GenerationUnknown /\ c.lock = l
        BY <1>4, <1>5, <1>10, <3>2
      <4>2. ~(content[l][s] >= c.write)
        BY <1>5, <2>2, <4>1 DEF Missing
      <4>3. ~(i >= c.id)
        BY <1>3, <1>9, <2>1, <4>1, <4>2 DEF SourcesHold
      <4> QED
        BY <1>9, <2>1, <2>2, <4>1, <4>3 DEF EventStays
    <3> QED
      BY <3>1, <3>2
  <2>6. EventStays(c)'
    BY <1>1, <1>6, <2>1, <2>5 DEF EventStays
  <2>7. CompletedBrings(c)'
    <3> SUFFICES ASSUME NEW x \in Workers, NEW j \in InState(x, "completed")',
                        j \in Updates(c.lock), c.lock \in recorded',
                        j = c.id \/ (c.id < queue[j].taken /\ queue[j].source = c.source)
                 PROVE  copy'[c.lock] >= c.write
      BY <1>1, <1>6 DEF CompletedBrings
    <3>1. CASE c.lock = l
      <4>1. j = i
        BY <1>8, <1>9, <3>1
      <4>2. s = c.source
        BY <1>3, <2>4, <3>1, <4>1
      <4>3. content[l][s] >= c.write /\ <<l, s>> \notin lost
        BY <2>1, <3>1, <4>2 DEF SourcesHold
      <4>4. content[l][s] # GenerationUnknown
        BY <2>2, <4>3 DEF GenerationUnknown
      <4>5. CASE DowngradeAttempted(l, s) /\ copy' = copy
        BY <1>4, <1>5, <2>2, <3>1, <4>3, <4>5 DEF DowngradeAttempted
      <4>6. CASE copy' = [copy EXCEPT ![l] = content[l][s]]
        BY <1>4, <1>5, <3>1, <4>3, <4>6
      <4> QED
        BY <1>10, <4>3, <4>4, <4>5, <4>6
    <3>2. CASE c.lock # l
      <4>1. j # i
        BY <1>3, <3>2 DEF Updates, OfLock
      <4>2. j \in InState(x, "completed")
        BY <1>8, <4>1
      <4> QED
        BY <1>11, <2>1, <2>2, <3>2, <4>2 DEF CompletedBrings
    <3> QED
      BY <3>1, <3>2
  <2> QED
    BY <2>3, <2>6, <2>7
<1> QED
  BY <1>1, <1>7, <1>13 DEF EventsCarryWrites

\* The replica goes, and with it what was to be replicated to it.
LEMMA DeleteCarries ==
    ASSUME TablesMatch, JobsAreOwned, EventsCarryWrites, NEW w \in Workers, NEW i, DeleteReplica(w, i)
    PROVE  EventsCarryWrites'
<1>1. PICK l : l = batch[w][i].event.lock
  OBVIOUS
<1>2. /\ i \in DOMAIN batch[w] /\ Becomes(w, i, "completed")
      /\ recorded' = recorded \ {l} /\ copy' = [copy EXCEPT ![l] = 0]
      /\ UNCHANGED <<queue, nextID, content, inserted, gaveUp, lost>>
  BY <1>1 DEF DeleteReplica, At, tables
<1>3. /\ l \in Locks /\ l = queue[i].lock /\ copy \in [Locks -> Nat]
  BY <1>1, <1>2 DEF JobsAreOwned, TablesMatch, RowsMatch, ReplicasMatch, Event
<1>4. \A k : Updates(k)' = Updates(k)
  BY <1>2 DEF Updates, OfLock, OfChange
<1>5. OldestFirst'
  BY <1>2 DEF EventsCarryWrites, OldestFirst, OfChange
<1>6. \A x \in Workers : \A j \in InState(x, "completed")' :
        j \in InState(x, "completed") \/ j = i
  <2>1. /\ \A x \in Workers : DOMAIN batch'[x] = DOMAIN batch[x]
        /\ \A x \in Workers : \A j \in DOMAIN batch[x] :
             batch'[x][j].outcome = IF x = w /\ j = i THEN "completed" ELSE batch[x][j].outcome
    BY <1>2, BecomesKeepsBatches DEF TablesMatch, Outcomes
  <2> QED
    BY <2>1 DEF InState
<1>7. ASSUME NEW c \in inserted
      PROVE  SourcesHold(c)' /\ EventStays(c)' /\ CompletedBrings(c)'
  <2>1. SourcesHold(c) /\ EventStays(c) /\ CompletedBrings(c) /\ c.lock \in Locks
    BY InsertionNumbers DEF EventsCarryWrites
  <2>2. SourcesHold(c)'
    BY <1>2, <1>4, <2>1 DEF SourcesHold
  <2>3. c.lock # l => copy'[c.lock] = copy[c.lock] /\ (c.lock \in recorded' <=> c.lock \in recorded)
    BY <1>2, <1>3, <2>1
  <2>4. EventStays(c)'
    <3>1. Missing(c.lock, c.write)' => Missing(c.lock, c.write)
      BY <1>2, <2>3 DEF Missing
    <3> QED
      BY <1>2, <1>4, <2>1, <3>1 DEF EventStays
  <2>5. CompletedBrings(c)'
    <3>1. CASE c.lock = l
      BY <1>2, <3>1 DEF CompletedBrings
    <3>2. CASE c.lock # l
      <4>1. i \notin Updates(c.lock)
        BY <1>3, <3>2 DEF Updates, OfLock
      <4> QED
        BY <1>2, <1>4, <1>6, <2>1, <2>3, <3>2, <4>1 DEF CompletedBrings
    <3> QED
      BY <3>1, <3>2
  <2> QED
    BY <2>2, <2>4, <2>5
<1> QED
  BY <1>2, <1>5, <1>7 DEF EventsCarryWrites

\* Events are removed.  If one of them was inserted for a write, no older update of
\* its repository is left, and the write is replicated or given up.
LEMMA RemovalCarries ==
    ASSUME TablesMatch, JobsAreOwned, EventsCarryWrites,
           NEW D, NEW F \in SUBSET WithState("in_progress"), RowsLeft(D, F),
           \A c \in inserted : c.id \in Updates(c.lock) \intersect D =>
                /\ \A j \in Updates(c.lock) \ D : ~(j <= c.id)
                /\ c.lock \in recorded => copy[c.lock] >= c.write \/ gaveUp'[c.lock] >= c.write,
           \A w \in Workers : \A j \in DOMAIN batch'[w] :
                j \in DOMAIN batch[w] /\ j \notin F /\ batch'[w][j] = batch[w][j],
           UNCHANGED <<nextID, content, copy, recorded, inserted, lost>>,
           gaveUp' \in [Locks -> 0 .. MaxWrites], \A l \in Locks : gaveUp'[l] >= gaveUp[l]
    PROVE  EventsCarryWrites'
<1>1. \A k : Updates(k)' = Updates(k) \ D
  BY DEF RowsLeft, Updates, OfLock, OfChange
<1>2. \A i \in DOMAIN queue' :
        /\ i \in DOMAIN queue /\ queue'[i].lock = queue[i].lock
        /\ queue'[i].change = queue[i].change /\ queue'[i].source = queue[i].source
        /\ queue'[i].taken = queue[i].taken /\ queue'[i].covers = queue[i].covers
  BY DEF RowsLeft
<1>3. \A i \in DOMAIN queue' :
        /\ queue'[i].state = "ready" => queue[i].state = "ready"
        /\ queue[i].state = "ready" => queue'[i].state = "ready"
        /\ queue'[i].state = "in_progress" => queue[i].state = "in_progress"
  BY DEF RowsLeft, WithState
<1>4. OldestFirst'
  <2>1. \A i \in OfChange("update")' : i \in DOMAIN queue' /\ i \in OfChange("update")
    BY <1>2 DEF OfChange
  <2> QED
    BY <2>1, <1>2, <1>3 DEF EventsCarryWrites, OldestFirst
<1>5. ASSUME NEW c \in inserted
      PROVE  SourcesHold(c)' /\ EventStays(c)' /\ CompletedBrings(c)'
  <2>1. SourcesHold(c) /\ EventStays(c) /\ CompletedBrings(c)
    BY DEF EventsCarryWrites
  <2>2. /\ c.id \in Nat /\ c.write \in Nat /\ c.lock \in Locks
        /\ copy[c.lock] \in Nat /\ gaveUp[c.lock] \in Nat /\ gaveUp'[c.lock] \in Nat
        /\ gaveUp'[c.lock] >= gaveUp[c.lock]
    BY InsertionNumbers, QueueAssumption
  <2>3. \A j \in Updates(c.lock)' : j \in Updates(c.lock) /\ j \in DOMAIN queue' /\ j \notin D
    BY <1>1 DEF Updates, OfLock
  <2>4. SourcesHold(c)'
    BY <1>2, <2>1, <2>3 DEF SourcesHold
  <2>5. EventStays(c)'
    <3>1. \A i \in Updates(c.lock)' : i <= c.id => c.id \in Updates(c.lock)'
      BY <1>1, <2>1, <2>3 DEF EventStays
    <3>2. Missing(c.lock, c.write)' => c.id \in Updates(c.lock)'
      <4> SUFFICES ASSUME Missing(c.lock, c.write)'
                   PROVE  c.id \in Updates(c.lock)'
        OBVIOUS
      <4>1. c.lock \in recorded /\ c.write > copy[c.lock] /\ c.write > gaveUp'[c.lock]
        BY DEF Missing
      <4>2. Missing(c.lock, c.write)
        BY <2>2, <4>1 DEF Missing
      <4>3. c.id \in Updates(c.lock)
        BY <2>1, <4>2 DEF EventStays
      <4>4. c.id \notin D
        BY <2>2, <4>1, <4>3
      <4> QED
        BY <1>1, <4>3, <4>4
    <3>3. c.id \in Updates(c.lock)' =>
            /\ queue'[c.id].source = c.source
            /\ queue'[c.id].state = "in_progress" => queue'[c.id].covers >= c.write
      BY <1>2, <1>3, <2>1, <2>3 DEF EventStays
    <3> QED
      BY <3>1, <3>2, <3>3 DEF EventStays
  <2>6. CompletedBrings(c)'
    <3>1. \A w \in Workers : \A j \in InState(w, "completed")' : j \in InState(w, "completed")
      BY DEF InState
    <3> QED
      BY <1>2, <2>1, <2>3, <3>1 DEF CompletedBrings
  <2> QED
    BY <2>4, <2>5, <2>6
<1> QED
  BY <1>4, <1>5 DEF EventsCarryWrites

\* An update in progress is the oldest of its repository.
LEMMA InProgressIsOldest ==
    ASSUME TablesMatch, OldestFirst, NEW l, NEW m \in Updates(l),
           queue[m].state = "in_progress", NEW j \in Updates(l), j <= m
    PROVE  j = m
<1>1. m <= j
  BY DEF OldestFirst, Updates, OfLock, OfChange
<1>2. j \in Nat /\ m \in Nat
  BY QueueAssumption DEF Updates, OfLock, TablesMatch, RowsMatch
<1> QED
  BY <1>1, <1>2

\* What acknowledging a completed update removes has been replicated by it.
LEMMA AcknowledgeCarries ==
    ASSUME TablesMatch, JobsAreOwned, EventsCarryWrites, NEW w \in Workers,
           NEW st \in {"completed", "failed", "dead"}, AcknowledgeBatch(w, st)
    PROVE  EventsCarryWrites'
<1> DEFINE ids == InState(w, st)
           D == Deleted(st, ids)
<1>1. /\ Acknowledge(st, ids) /\ Forget(w, ids)
      /\ UNCHANGED <<nextID, content, copy, recorded, inserted, lost>>
  BY DEF AcknowledgeBatch, Acknowledge, replicas
<1>2. Existing(ids) = ids
  BY AcknowledgeStaysOwned
<1>3. RowsLeft(D, ids)
  <2>1. Removes(D, ids, ids \union D)
    BY <1>1, <1>2, AcknowledgeRemoves
  <2> HIDE DEF D, ids
  <2> QED
    BY <2>1, RemovalKeepsRows
<1>4. ids \in SUBSET WithState("in_progress") /\ ids \subseteq DOMAIN batch[w]
  BY DEF InState, JobsAreOwned
<1>5. /\ gaveUp' \in [Locks -> 0 .. MaxWrites] /\ \A l \in Locks : gaveUp'[l] >= gaveUp[l]
      /\ st = "dead" => \A i \in ids : gaveUp'[queue[i].lock] >= queue[i].covers
  <2>1. CASE st = "dead"
    <3>1. GiveUp(ids)
      BY <1>2, <2>1 DEF AcknowledgeBatch, Existing
    <3>2. ids \in SUBSET DOMAIN queue
      BY <1>4 DEF WithState
    <3> HIDE DEF ids
    <3> QED
      BY <2>1, <3>1, <3>2, GaveUpLast
  <2>2. CASE st # "dead"
    BY <2>2, QueueAssumption DEF AcknowledgeBatch, TablesMatch, ReplicasMatch
  <2> QED
    BY <2>1, <2>2
<1>6. \A x \in Workers : \A j \in DOMAIN batch'[x] :
        j \in DOMAIN batch[x] /\ j \notin ids /\ batch'[x][j] = batch[x][j]
  <2>1. /\ DOMAIN batch'[w] = DOMAIN batch[w] \ ids
        /\ \A i \in DOMAIN batch'[w] : batch'[w][i] = batch[w][i]
        /\ \A x \in Workers \ {w} : batch'[x] = batch[x]
    BY <1>1, LeavingKeepsBatches DEF TablesMatch
  <2> HIDE DEF ids
  <2> QED
    BY <2>1, <1>4 DEF JobsAreOwned
<1>7. OldestFirst
  BY DEF EventsCarryWrites
<1>8. ASSUME NEW c \in inserted, c.id \in Updates(c.lock) \intersect D
      PROVE  /\ \A j \in Updates(c.lock) \ D : ~(j <= c.id)
             /\ c.lock \in recorded => copy[c.lock] >= c.write \/ gaveUp'[c.lock] >= c.write
  <2>1. PICK m, l : m = c.id /\ l = c.lock
    OBVIOUS
  <2>2. EventStays(c) /\ CompletedBrings(c) /\ m \in Updates(l) /\ m \in D
    BY <1>8, <2>1 DEF EventsCarryWrites
  <2>3. /\ m \in DOMAIN queue /\ queue[m].lock = l /\ queue[m].change = "update"
        /\ queue[m].source = c.source /\ l \in Locks /\ c.write \in Nat /\ m \in Nat
        /\ queue[m].covers \in Nat
    BY <2>1, <2>2, InsertionNumbers DEF EventStays
  <2>4. CASE m \in ids
    <3>1. queue[m].state = "in_progress"
      BY <1>4, <2>4 DEF WithState
    <3>2. \A j \in Updates(l) \ D : ~(j <= m)
      BY <1>7, <2>2, <3>1, InProgressIsOldest
    <3>3. CASE st = "dead"
      <4>1. gaveUp'[l] >= queue[m].covers
        BY <1>5, <2>3, <2>4, <3>3
      <4>2. queue[m].covers >= c.write
        BY <2>1, <2>2, <3>1 DEF EventStays
      <4>3. gaveUp'[l] \in Nat
        BY <1>5, <2>3, QueueAssumption
      <4>4. gaveUp'[l] >= c.write
        BY <2>3, <4>1, <4>2, <4>3
      <4> QED
        BY <2>1, <3>2, <4>4
    <3>4. CASE st # "dead"
      <4>1. st = "completed"
        BY <2>2, <3>4 DEF Deleted
      <4>2. l \in recorded => copy[l] >= c.write
        BY <2>1, <2>2, <2>4, <4>1 DEF CompletedBrings
      <4> QED
        BY <2>1, <3>2, <4>2
    <3> QED
      BY <3>3, <3>4
  <2>5. CASE m \notin ids
    <3>1. st = "completed"
      BY <1>2, <2>2, <2>5 DEF Deleted
    <3>2. D = ids \union UNION {Similar(i) : i \in ids}
      BY <1>2, <3>1 DEF Deleted
    <3>3. PICK i \in ids : m \in Similar(i)
      BY <2>2, <2>5, <3>2
    <3>4. /\ queue[m].state = "ready" /\ m < queue[i].taken /\ queue[i].lock = l
          /\ queue[i].change = "update" /\ queue[i].source = queue[m].source
      BY <2>3, <3>3 DEF Similar, WithState
    <3>5. i \in Updates(l) /\ \A j \in Updates(l) : i <= j
      BY <1>4, <1>7, <3>4, HeldIsOldest
    <3>6. ASSUME NEW j \in Updates(l)
          PROVE  j \in {i, m}
      <4>1. CASE queue[j].state = "ready"
        BY <1>7, <2>2, <3>4, <4>1 DEF OldestFirst, Updates, OfLock, OfChange
      <4>2. CASE queue[j].state # "ready"
        <5>1. j <= i /\ i <= j
          BY <1>7, <3>5, <4>2 DEF OldestFirst, Updates, OfLock, OfChange
        <5>2. j \in Nat /\ i \in Nat
          BY <3>5, QueueAssumption DEF Updates, OfLock, TablesMatch, RowsMatch
        <5> QED
          BY <5>1, <5>2
      <4> QED
        BY <4>1, <4>2
    <3>7. Updates(l) \subseteq D
      BY <2>2, <3>2, <3>6
    <3>8. l \in recorded => copy[l] >= c.write
      BY <2>1, <2>2, <2>3, <3>1, <3>4, <3>5 DEF CompletedBrings
    <3> QED
      BY <2>1, <3>7, <3>8
  <2> QED
    BY <2>4, <2>5
<1> HIDE DEF ids, D
<1> QED
  BY <1>1, <1>3, <1>4, <1>5, <1>6, <1>8, RemovalCarries

\* An event that is given up had its write covered by its last attempt.
LEMMA StaleCarries ==
    ASSUME ~HealthMayFail, TablesMatch, JobsAreOwned, EventsCarryWrites,
           NEW X \in SUBSET jobLock, AcknowledgeStale(X)
    PROVE  EventsCarryWrites'
<1> DEFINE D == StaleDeleted(X)
           F == StaleFailed(X)
<1>1. Removes(D, F, X) /\ GiveUp(D)
  BY AcknowledgeStaleRemoves
<1>2. D \subseteq X /\ F \subseteq X /\ X \subseteq WithState("in_progress") /\ D \subseteq DOMAIN queue
  BY DEF StaleDeleted, StaleFailed, JobsAreOwned, WithState
<1>3. \A x \in Workers : \A j \in DOMAIN batch'[x] :
        j \in DOMAIN batch[x] /\ j \notin X /\ batch'[x][j] = batch[x][j]
  BY DEF AcknowledgeStale, MayBeStale
<1>4. UNCHANGED <<nextID, content, copy, recorded, inserted, lost>>
  BY DEF AcknowledgeStale, replicas
<1> HIDE DEF D, F
<1>5. RowsLeft(D, F)
  BY <1>1, <1>2, RemovalKeepsRows
<1>6. /\ gaveUp' \in [Locks -> 0 .. MaxWrites] /\ \A l \in Locks : gaveUp'[l] >= gaveUp[l]
      /\ \A i \in D : gaveUp'[queue[i].lock] >= queue[i].covers
  BY <1>1, <1>2, GaveUpLast
<1>7. ASSUME NEW c \in inserted, c.id \in Updates(c.lock) \intersect D
      PROVE  (\A j \in Updates(c.lock) \ D : ~(j <= c.id)) /\ gaveUp'[c.lock] >= c.write
  <2>1. PICK m, l : m = c.id /\ l = c.lock
    OBVIOUS
  <2>2. EventStays(c) /\ OldestFirst /\ m \in Updates(l) /\ m \in D
    BY <1>7, <2>1 DEF EventsCarryWrites
  <2>3. queue[m].lock = l /\ l \in Locks /\ c.write \in Nat /\ queue[m].covers \in Nat
    BY <2>1, <2>2, InsertionNumbers
  <2>4. queue[m].state = "in_progress"
    BY <1>2, <2>2 DEF WithState
  <2>5. \A j \in Updates(l) \ D : ~(j <= m)
    BY <2>2, <2>4, InProgressIsOldest
  <2>6. queue[m].covers >= c.write /\ gaveUp'[l] >= queue[m].covers
    BY <1>6, <2>1, <2>2, <2>3, <2>4 DEF EventStays
  <2>7. gaveUp'[l] \in Nat
    BY <1>6, <2>3, QueueAssumption
  <2>8. gaveUp'[l] >= c.write
    BY <2>3, <2>6, <2>7
  <2> QED
    BY <2>1, <2>5, <2>8
<1> QED
  BY <1>2, <1>3, <1>4, <1>5, <1>6, <1>7, RemovalCarries

\* Every step keeps the events carrying their writes.
LEMMA NextCarries ==
    ASSUME ~HealthMayFail, TablesMatch, JobsAreOwned, EventsCarryWrites, [Next]_vars
    PROVE  EventsCarryWrites'
<1>0. nextID \in Nat /\ \A c \in inserted : <<c.lock, c.source>> \notin lost
  BY DEF EventsCarryWrites, SourcesHold, TablesMatch, RowsMatch
<1>1. ASSUME NEW l \in Locks, ScheduleDelete(l)
      PROVE  EventsCarryWrites'
  <2>1. /\ Enqueue(l, "delete_replica", NoSource) /\ batch' = batch
        /\ UNCHANGED <<content, copy, recorded, inserted, gaveUp, lost>>
    BY <1>1 DEF ScheduleDelete, replicas
  <2>2. /\ \A i \in DOMAIN queue : i \in DOMAIN queue' /\ queue'[i] = queue[i]
        /\ \A i \in DOMAIN queue' \ DOMAIN queue : queue'[i].change # "update"
    BY <2>1, EnqueueRows
  <2>3. nextID' \in Nat /\ nextID' >= nextID
    BY <1>0, <2>1 DEF Enqueue, tables
  <2> QED
    BY <1>0, <2>1, <2>2, <2>3, SameUpdatesCarry
<1>2. ASSUME NEW w \in Workers, NEW i, RemoveRepository(w, i) \/ EventFails(w, i)
      PROVE  EventsCarryWrites'
  <2>1. UNCHANGED <<queue, nextID, content, copy, recorded, inserted, gaveUp, lost>>
    BY <1>2 DEF RemoveRepository, EventFails, tables, replicas
  <2>2. i \in DOMAIN batch[w] /\ BatchesMatch
    BY <1>2 DEF RemoveRepository, EventFails, At, TablesMatch
  <2>3. PICK o \in Outcomes : Becomes(w, i, o) /\ o # "completed"
    BY <1>2 DEF RemoveRepository, EventFails, FailedState, Outcomes
  <2>4. \A x \in Workers : \A j \in DOMAIN batch'[x] : batch'[x][j].outcome = "completed" =>
          j \in DOMAIN batch[x] /\ batch[x][j].outcome = "completed"
    BY <2>2, <2>3, BecomesKeepsBatches
  <2> QED
    BY <1>0, <2>1, <2>4, SameUpdatesCarry
<1>3. ASSUME NEW w \in Workers, (\E st : AcknowledgeFails(w, st)) \/ Crash(w)
      PROVE  EventsCarryWrites'
  <2>1. PICK ids : \/ Forget(w, ids)
                   \/ batch' = [batch EXCEPT ![w] = NoBatch] /\ ids = DOMAIN batch[w]
    BY <1>3 DEF AcknowledgeFails, Crash
  <2>2. UNCHANGED <<queue, nextID, content, copy, recorded, inserted, gaveUp, lost>>
    BY <1>3 DEF AcknowledgeFails, Crash, tables, replicas
  <2>3. \A x \in Workers : /\ DOMAIN batch'[x] \subseteq DOMAIN batch[x]
                           /\ \A i \in DOMAIN batch'[x] : batch'[x][i] = batch[x][i]
    BY <2>1, LeavingKeepsBatches DEF TablesMatch
  <2> QED
    BY <1>0, <2>2, <2>3, SameUpdatesCarry
<1>4. CASE UNCHANGED vars
  BY <1>0, <1>4, SameUpdatesCarry DEF vars, tables, replicas
<1>5. ASSUME NEW w \in Workers, Acknowledgements(w)
      PROVE  EventsCarryWrites'
  BY <1>5, AcknowledgeCarries DEF Acknowledgements
<1>6. ASSUME NEW w \in Workers, Process(w)
      PROVE  EventsCarryWrites'
  BY <1>2, <1>6, ReplicateCarries, DeleteCarries DEF Process
<1>7. ASSUME NEW l \in Locks, NEW s \in Sources, SourceVanishes(l, s) \/ SourceReturns(l, s)
      PROVE  EventsCarryWrites'
  <2>1. /\ UNCHANGED <<queue, nextID, batch, content, copy, recorded, gaveUp>>
        /\ inserted' \subseteq inserted
    BY <1>7 DEF SourceVanishes, SourceReturns, tables
  <2>2. \A c \in inserted' : <<c.lock, c.source>> \notin lost'
    <3>1. CASE SourceVanishes(l, s)
      <4>1. \A c \in inserted' : c \in inserted /\ (c.lock # l \/ c.source # s)
        BY <3>1 DEF SourceVanishes
      <4>2. \A c \in inserted' : <<c.lock, c.source>> # <<l, s>>
        BY <4>1
      <4>3. lost' = lost \union {<<l, s>>}
        BY <3>1 DEF SourceVanishes
      <4> QED
        BY <1>0, <4>1, <4>2, <4>3
    <3>2. CASE SourceReturns(l, s)
      BY <1>0, <3>2 DEF SourceReturns
    <3> QED
      BY <1>7, <3>1, <3>2
  <2> QED
    BY <1>0, <2>1, <2>2, SameUpdatesCarry
<1> QED
  BY <1>1, <1>2, <1>3, <1>4, <1>5, <1>6, <1>7, WriteCarries, DequeueCarries, StaleCarries DEF Next

-----------------------------------------------------------------------------
(* The safety of the queue *)

\* The invariant holds at the start.
LEMMA InitHolds == Init => IInv
<1> SUFFICES ASSUME Init
             PROVE  IInv
  OBVIOUS
<1>1. TablesMatch
  BY InitTables
<1>2. DOMAIN queue = {} /\ jobLock = {} /\ \A w \in Workers : DOMAIN batch[w] = {}
  BY DEF Init, NoBatch
<1>3. JobsAreOwned
  BY <1>2 DEF JobsAreOwned, WithState
<1>4. OldestFirst
  BY <1>2 DEF OldestFirst, OfChange
<1>5. inserted = {}
  BY DEF Init
<1> QED
  BY <1>1, <1>3, <1>4, <1>5 DEF IInv, EventsCarryWrites

\* Every step keeps the invariant.
LEMMA NextKeeps ==
    ASSUME ~HealthMayFail
    PROVE  IInv /\ [Next]_vars => IInv'
BY NextKeepsTables, NextStaysOwned, NextCarries DEF IInv

\* What the invariant means for the properties that are checked.
LEMMA InvariantImplies ==
    IInv => LocksMatchJobs /\ InProgressIsHeld /\ OneWorkerPerRepository /\ InsertedIsReplicated
<1> SUFFICES ASSUME IInv
             PROVE  LocksMatchJobs /\ InProgressIsHeld /\ OneWorkerPerRepository /\ InsertedIsReplicated
  OBVIOUS
<1>1. TablesMatch /\ JobsAreOwned /\ EventsCarryWrites
  BY DEF IInv
<1>2. LocksMatchJobs
  <2>1. acquired \subseteq Locks
    BY <1>1 DEF TablesMatch, RowsMatch, Event
  <2>2. {latest, copy, gaveUp} \subseteq [Locks -> Nat]
    BY <1>1, QueueAssumption DEF TablesMatch, ReplicasMatch
  <2> QED
    BY <1>1, <2>1, <2>2 DEF LocksMatchJobs, TypeOK, TablesMatch, RowsMatch, BatchesMatch,
                            ReplicasMatch, JobsAreOwned
<1>3. InProgressIsHeld
  BY <1>1 DEF InProgressIsHeld, JobsAreOwned
<1>4. OneWorkerPerRepository
  BY <1>1 DEF OneWorkerPerRepository, JobsAreOwned
<1>5. InsertedIsReplicated
  BY <1>1 DEF InsertedIsReplicated, EventsCarryWrites, EventStays, Pending, Updates, OfLock
<1> QED
  BY <1>2, <1>3, <1>4, <1>5

\* As long as no live worker loses its health updates, and whatever else fails or
\* dies: the tables are well-formed, and a lock is taken exactly while an event of
\* its repository has a job lock.
THEOREM LocksMatchJobsCorrect ==
    ASSUME ~HealthMayFail
    PROVE  Spec => []LocksMatchJobs
BY InitHolds, NextKeeps, InvariantImplies, PTL DEF Spec

\* Under the same condition no event is in progress that nobody will move on.
THEOREM InProgressIsHeldCorrect ==
    ASSUME ~HealthMayFail
    PROVE  Spec => []InProgressIsHeld
BY InitHolds, NextKeeps, InvariantImplies, PTL DEF Spec

\* Under the same condition two workers never process events of one repository at
\* the same time.
THEOREM OneWorkerPerRepositoryCorrect ==
    ASSUME ~HealthMayFail
    PROVE  Spec => []OneWorkerPerRepository
BY InitHolds, NextKeeps, InvariantImplies, PTL DEF Spec

\* Under the same condition a write that got an event of its own and whose primary
\* has kept the repository is on the target, given up after its last attempt, or
\* still has its event: although acknowledging an update removes others that it makes
\* superfluous, and although an update whose source has lost the repository is
\* acknowledged as completed without a copy.
THEOREM InsertedIsReplicatedCorrect ==
    ASSUME ~HealthMayFail
    PROVE  Spec => []InsertedIsReplicated
BY InitHolds, NextKeeps, InvariantImplies, PTL DEF Spec

=============================================================================
