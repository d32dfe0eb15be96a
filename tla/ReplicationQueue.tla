-------------------------- MODULE ReplicationQueue --------------------------
(***************************************************************************)
(* Praefect's persistent replication queue and the workers that process    *)
(* it: internal/praefect/datastore/queue.go and replicator.go.             *)
(*                                                                         *)
(* One target storage.  A lock stands for one repository on that target    *)
(* (virtual storage, target and relative path), a worker for the           *)
(* processing loop of one Praefect instance on that target.  Every method  *)
(* of the queue is one SQL statement and therefore one step; a worker's    *)
(* RPCs to Gitaly, its update of the repository store and its              *)
(* acknowledgements are steps of their own, and a worker may die or lose   *)
(* its health updates between any two of them.                             *)
(***************************************************************************)
EXTENDS Integers, FiniteSets

CONSTANTS
    Locks,          \* repositories replicated to the target storage
    Sources,        \* storages that may serve as source
    Workers,        \* Praefect instances
    Attempts,       \* the attempts a new event starts with
    BatchSize,      \* dequeueBatchSize
    MaxEvents,      \* bound on the events ever enqueued
    MaxWrites,      \* bound on the writes to one repository
    Deletions,      \* whether replicas lose their assignment and get deleted
    HealthMayFail,  \* whether a live worker may lose its health updates
    SourcesMayLag,  \* whether a source may miss writes
    SourcesMayVanish \* whether a source's disk may lose a repository

ASSUME QueueAssumption ==
    /\ IsFiniteSet(Locks) /\ IsFiniteSet(Sources) /\ IsFiniteSet(Workers)
    /\ Sources # {}
    /\ Attempts \in Nat \ {0} /\ BatchSize \in Nat \ {0}
    /\ MaxEvents \in Nat /\ MaxWrites \in Nat
    /\ {Deletions, HealthMayFail, SourcesMayLag, SourcesMayVanish} \subseteq BOOLEAN

VARIABLES
    queue,     \* replication_queue: the rows, by id
    nextID,    \* the id of the next row; also the time an event is created at
    acquired,  \* replication_queue_lock: the locks that are taken
    jobLock,   \* replication_queue_job_lock: ids of events held by a worker
    batch,     \* the events each worker is processing, with its own copy of them
    latest,    \* repositories.generation: the last write to each repository
    content,   \* the last write each source holds, as recorded in the store, or unknown
    lost,      \* the repositories and sources whose disk does not hold the repository
    copy,      \* the last write the target holds, as recorded in the store
    onDisk,    \* repositories present on the target's disk
    recorded,  \* repositories with a record of the target's replica
    inserted,  \* history: the writes that got an event of their own
    gaveUp     \* history: the last write whose replication was given up

tables == <<queue, nextID, acquired, jobLock>>
replicas == <<latest, content, lost, copy, onDisk, recorded>>
vars == <<tables, batch, replicas, inserted, gaveUp>>

IDs == 1 .. MaxEvents
NoSource == "none"

\* The generation of a source without a record.
GenerationUnknown == -1

\* A row.  taken is updated_at as set by Dequeue, counted in created events;
\* covers, which the code does not have, is the last write at that time.
Event ==
    [ lock : Locks, change : {"update", "delete_replica"},
      source : Sources \union {NoSource},
      state : {"ready", "in_progress", "failed"},
      attempt : Int, taken : Nat, covers : Nat ]

\* A worker's copy of an event and what became of it.
Outcomes == {"todo", "removed", "completed", "failed", "dead"}
Job == [event : Event, outcome : Outcomes]

\* A write and the event that was enqueued for it.
Insertion == [id : IDs, lock : Locks, source : Sources, write : Nat]

WithState(st) == {i \in DOMAIN queue : queue[i].state = st}
OfLock(l) == {i \in DOMAIN queue : queue[i].lock = l}
OfChange(ch) == {i \in DOMAIN queue : queue[i].change = ch}

NoBatch == [i \in {} |-> 0]

-----------------------------------------------------------------------------
(* Enqueue *)

Duplicate(l, ch) == OfLock(l) \intersect OfChange(ch) \intersect WithState("ready") # {}

\* A similar event that is ready makes the statement insert nothing, which the
\* callers take for success.
Enqueue(l, ch, s) ==
    IF Duplicate(l, ch)
    THEN UNCHANGED tables
    ELSE /\ nextID <= MaxEvents
         /\ queue' = [i \in DOMAIN queue \union {nextID} |->
                IF i = nextID
                THEN [lock |-> l, change |-> ch, source |-> s, state |-> "ready",
                      attempt |-> Attempts, taken |-> 0, covers |-> 0]
                ELSE queue[i]]
         /\ nextID' = nextID + 1
         /\ UNCHANGED <<acquired, jobLock>>

\* A mutator request whose primary is s reaches the up-to-date sources P but
\* not the target: the coordinator enqueues a job for it.
Write(l, s, P) ==
    /\ latest[l] < MaxWrites
    /\ s \in P /\ \A x \in P : content[l][x] = latest[l] /\ <<l, x>> \notin lost
    /\ SourcesMayLag \/ \A x \in Sources \ P : <<l, x>> \in lost
    /\ latest' = [latest EXCEPT ![l] = @ + 1]
    /\ content' = [content EXCEPT ![l] =
            [x \in Sources |-> IF x \in P THEN latest[l] + 1 ELSE content[l][x]]]
    /\ Enqueue(l, "update", s)
    /\ inserted' = IF Duplicate(l, "update") THEN inserted
                   ELSE inserted \union
                        {[id |-> nextID, lock |-> l, source |-> s, write |-> latest[l] + 1]}
    /\ UNCHANGED <<batch, lost, copy, onDisk, recorded, gaveUp>>

\* The disk of s loses the repository, or is back with it.  The store does not
\* notice, and what was written with s as primary cannot be had from it any more.
SourceVanishes(l, s) ==
    /\ SourcesMayVanish
    /\ <<l, s>> \notin lost
    /\ lost' = lost \union {<<l, s>>}
    /\ inserted' = {c \in inserted : c.lock # l \/ c.source # s}
    /\ UNCHANGED <<tables, batch, latest, content, copy, onDisk, recorded, gaveUp>>

SourceReturns(l, s) ==
    /\ <<l, s>> \in lost
    /\ lost' = lost \ {<<l, s>>}
    /\ UNCHANGED <<tables, batch, latest, content, copy, onDisk, recorded, inserted, gaveUp>>

\* The reconciler finds an unassigned replica that no job refers to.
ScheduleDelete(l) ==
    /\ Deletions
    /\ l \in recorded
    /\ OfLock(l) = {}
    /\ Enqueue(l, "delete_replica", NoSource)
    /\ UNCHANGED <<batch, replicas, inserted, gaveUp>>

-----------------------------------------------------------------------------
(* Dequeue *)

\* Mutant: a taken lock is not looked at.
Waiting_IgnoreLocks == WithState("ready") \union WithState("failed")

\* Events of free locks that wait for a worker.
Waiting ==
    {i \in WithState("ready") \union WithState("failed") :
        /\ queue[i].lock \notin acquired
        /\ \A j \in jobLock : queue[j].lock # queue[i].lock}

\* The oldest of them for each lock and change.
Candidates ==
    {i \in Waiting : \A j \in Waiting :
        queue[j].lock = queue[i].lock /\ queue[j].change = queue[i].change => i <= j}

\* The batch: the oldest candidates.
Dequeued == {i \in Candidates : Cardinality({j \in Candidates : j < i}) < BatchSize}

\* The row as updated by Dequeue.
Took(e) ==
    [e EXCEPT !.attempt = IF e.change = "delete_replica" THEN @ ELSE @ - 1,
              !.state = "in_progress", !.taken = nextID, !.covers = latest[e.lock]]

Dequeue(w) ==
    /\ batch[w] = NoBatch
    /\ Dequeued # {}
    /\ queue' = [i \in DOMAIN queue |-> IF i \in Dequeued THEN Took(queue[i]) ELSE queue[i]]
    /\ jobLock' = jobLock \union Dequeued
    /\ acquired' = acquired \union {queue[i].lock : i \in Dequeued}
    /\ batch' = [batch EXCEPT ![w] =
            [i \in Dequeued |-> [event |-> Took(queue[i]), outcome |-> "todo"]]]
    /\ UNCHANGED <<nextID, replicas, inserted, gaveUp>>

-----------------------------------------------------------------------------
(* handleNode: the events of a batch are processed one after the other *)

\* The worker is processing event i.
At(w, i, o) ==
    /\ i \in DOMAIN batch[w]
    /\ batch[w][i].outcome = o
    /\ \A j \in DOMAIN batch[w] : j < i => batch[w][j].outcome \notin {"todo", "removed"}

Becomes(w, i, o) == batch' = [batch EXCEPT ![w] = [@ EXCEPT ![i].outcome = o]]

\* GetReplicatedGeneration refuses a source that is not ahead of the target, one
\* without a record in particular.
DowngradeAttempted(l, s) == l \in recorded /\ copy[l] >= content[l][s]

\* Replicate, when it succeeds or finds nothing to do.  SetGeneration is skipped
\* when the source has no record.
Replicate(w, i) ==
    /\ At(w, i, "todo")
    /\ LET e == batch[w][i].event
           l == e.lock
       IN /\ e.change = "update"
          /\ \/ /\ DowngradeAttempted(l, e.source)
                /\ UNCHANGED <<copy, onDisk, recorded>>
             \/ /\ ~DowngradeAttempted(l, e.source)
                /\ <<l, e.source>> \notin lost
                /\ onDisk' = onDisk \union {l}
                /\ IF content[l][e.source] = GenerationUnknown
                   THEN UNCHANGED <<copy, recorded>>
                   ELSE /\ copy' = [copy EXCEPT ![l] = content[l][e.source]]
                        /\ recorded' = recorded \union {l}
    /\ Becomes(w, i, "completed")
    /\ UNCHANGED <<tables, latest, content, lost, inserted, gaveUp>>

\* Replicate, when Gitaly answers ErrInvalidSourceRepository: nothing is copied,
\* DeleteInvalidRepository removes the source's record and the event is completed.
ReplicateInvalid(w, i) ==
    /\ At(w, i, "todo")
    /\ LET e == batch[w][i].event
           l == e.lock
       IN /\ e.change = "update"
          /\ ~DowngradeAttempted(l, e.source)
          /\ <<l, e.source>> \in lost
          /\ content' = [content EXCEPT ![l] = [@ EXCEPT ![e.source] = GenerationUnknown]]
    /\ Becomes(w, i, "completed")
    /\ UNCHANGED <<tables, latest, lost, copy, onDisk, recorded, inserted, gaveUp>>

\* Destroy, first half: RemoveRepository on the target.  It fails with NotFound
\* when there is no repository.
RemoveRepository(w, i) ==
    /\ At(w, i, "todo")
    /\ LET e == batch[w][i].event
       IN /\ e.change = "delete_replica"
          /\ e.lock \in onDisk
          /\ onDisk' = onDisk \ {e.lock}
    /\ Becomes(w, i, "removed")
    /\ UNCHANGED <<tables, latest, content, lost, copy, recorded, inserted, gaveUp>>

\* Destroy, second half: the record is deleted, or there was none.
DeleteReplica(w, i) ==
    /\ At(w, i, "removed")
    /\ recorded' = recorded \ {batch[w][i].event.lock}
    /\ copy' = [copy EXCEPT ![batch[w][i].event.lock] = 0]
    /\ Becomes(w, i, "completed")
    /\ UNCHANGED <<tables, latest, content, lost, onDisk, inserted, gaveUp>>

\* Mutant: the last attempt is not the last.
FailedState_OneMore(e) == IF e.attempt < 0 THEN "dead" ELSE "failed"

\* handleNodeEvent: the state of an event whose processing failed.
FailedState(e) == IF e.attempt <= 0 THEN "dead" ELSE "failed"

EventFails(w, i) ==
    /\ At(w, i, "todo") \/ At(w, i, "removed")
    /\ Becomes(w, i, FailedState(batch[w][i].event))
    /\ UNCHANGED <<tables, replicas, inserted, gaveUp>>

-----------------------------------------------------------------------------
(* Acknowledge *)

\* Mutant: a lock is released with the first of its events.
Released_Early(removed) == {queue[i].lock : i \in removed \intersect jobLock}

\* Mutant: the job locks are counted after the removal.
Released_CountAfter(removed) ==
    {l \in {queue[i].lock : i \in removed \intersect jobLock} :
        Cardinality((jobLock \ removed) \intersect OfLock(l))
            = Cardinality(removed \intersect jobLock \intersect OfLock(l))}

\* Locks all of whose job locks are among the removed ones.
Released(removed) ==
    {l \in {queue[i].lock : i \in removed \intersect jobLock} :
        jobLock \intersect OfLock(l) \subseteq removed}

\* Mutant: the source does not matter.
Similar_AnySource(i) ==
    {j \in WithState("ready") :
        /\ j < queue[i].taken
        /\ queue[j].lock = queue[i].lock /\ queue[j].change = queue[i].change}

\* Events that a completed event i makes superfluous.
Similar(i) ==
    {j \in WithState("ready") :
        /\ j < queue[i].taken
        /\ queue[j].lock = queue[i].lock /\ queue[j].change = queue[i].change
        /\ queue[j].source = queue[i].source}

\* Of the given ids, those that are in progress are moved to state st.
Acknowledge(st, ids) ==
    LET existing == ids \intersect WithState("in_progress")
        deleted == CASE st = "dead" -> existing
                     [] st = "completed" -> existing \union UNION {Similar(i) : i \in existing}
                     [] OTHER -> {}
    IN /\ queue' = [i \in DOMAIN queue \ deleted |->
              IF i \in existing THEN [queue[i] EXCEPT !.state = "failed"] ELSE queue[i]]
       /\ jobLock' = jobLock \ (existing \union deleted)
       /\ acquired' = acquired \ Released(existing \union deleted)
       /\ UNCHANGED nextID

\* Updates given up with the removal of the events X.
GiveUp(X) ==
    gaveUp' = [l \in Locks |->
        CHOOSE n \in {gaveUp[l]} \union {queue[i].covers : i \in X \intersect OfLock(l)} :
            /\ n >= gaveUp[l]
            /\ \A i \in X \intersect OfLock(l) : n >= queue[i].covers]

\* handleNode after the loop: one Acknowledge for each state, in any order.
InState(w, st) == {i \in DOMAIN batch[w] : batch[w][i].outcome = st}

Done(w) == InState(w, "todo") \union InState(w, "removed") = {}

Forget(w, ids) ==
    batch' = [batch EXCEPT ![w] = [i \in DOMAIN batch[w] \ ids |-> batch[w][i]]]

AcknowledgeBatch(w, st) ==
    /\ Done(w) /\ InState(w, st) # {}
    /\ Acknowledge(st, InState(w, st))
    /\ Forget(w, InState(w, st))
    /\ IF st = "dead" THEN GiveUp(InState(w, st) \intersect WithState("in_progress")) ELSE UNCHANGED gaveUp
    /\ UNCHANGED <<replicas, inserted>>

\* The database fails the statement; the worker only logs it.
AcknowledgeFails(w, st) ==
    /\ Done(w) /\ InState(w, st) # {}
    /\ Forget(w, InState(w, st))
    /\ UNCHANGED <<tables, replicas, inserted, gaveUp>>

\* The Praefect instance dies and is started again.
Crash(w) ==
    /\ batch[w] # NoBatch
    /\ batch' = [batch EXCEPT ![w] = NoBatch]
    /\ UNCHANGED <<tables, replicas, inserted, gaveUp>>

-----------------------------------------------------------------------------
(* AcknowledgeStale *)

\* Job locks whose triggered_at may be too old: nobody updates it, or the
\* worker's health updates failed.
MayBeStale ==
    IF HealthMayFail THEN jobLock
    ELSE {i \in jobLock : \A w \in Workers : i \notin DOMAIN batch[w]}

AcknowledgeStale(X) ==
    /\ X # {} /\ X \subseteq MayBeStale
    /\ LET deleted == {i \in X : queue[i].attempt = 0}
       IN /\ queue' = [i \in DOMAIN queue \ deleted |->
                IF i \in X /\ queue[i].attempt >= 1
                THEN [queue[i] EXCEPT !.state = "failed"] ELSE queue[i]]
          /\ GiveUp(deleted)
    /\ jobLock' = jobLock \ X
    /\ acquired' = acquired \ Released(X)
    /\ UNCHANGED <<nextID, batch, replicas, inserted>>

-----------------------------------------------------------------------------
Init ==
    /\ queue = NoBatch
    /\ nextID = 1
    /\ acquired = {}
    /\ jobLock = {}
    /\ batch = [w \in Workers |-> NoBatch]
    /\ latest = [l \in Locks |-> 0]
    /\ content = [l \in Locks |-> [s \in Sources |-> 0]]
    /\ lost = {}
    /\ copy = [l \in Locks |-> 0]
    /\ onDisk = Locks
    /\ recorded = Locks
    /\ inserted = {}
    /\ gaveUp = [l \in Locks |-> 0]

Acknowledgements(w) ==
    \E st \in {"completed", "failed", "dead"} : AcknowledgeBatch(w, st)

Process(w) ==
    \E i \in IDs :
        \/ Replicate(w, i) \/ ReplicateInvalid(w, i)
        \/ RemoveRepository(w, i) \/ DeleteReplica(w, i)

Next ==
    \/ \E l \in Locks, P \in SUBSET Sources, s \in Sources : Write(l, s, P)
    \/ \E l \in Locks, s \in Sources : SourceVanishes(l, s) \/ SourceReturns(l, s)
    \/ \E l \in Locks : ScheduleDelete(l)
    \/ \E w \in Workers :
        \/ Dequeue(w)
        \/ Process(w)
        \/ \E i \in IDs : EventFails(w, i)
        \/ Acknowledgements(w)
        \/ \E st \in {"completed", "failed", "dead"} : AcknowledgeFails(w, st)
        \/ Crash(w)
    \/ \E X \in SUBSET jobLock : AcknowledgeStale(X)

Spec == Init /\ [][Next]_vars

\* A worker that has something to do does it, with or without success.
WorkerStep(w) ==
    \/ Dequeue(w)
    \/ Process(w) \/ \E i \in IDs : EventFails(w, i)
    \/ Acknowledgements(w) \/ \E st \in {"completed", "failed", "dead"} : AcknowledgeFails(w, st)

\* ProcessStale's ticker finds every stale job lock in the end.
StaleStep(i) == \E X \in SUBSET jobLock : i \in X /\ AcknowledgeStale(X)

Fairness ==
    /\ \A w \in Workers : WF_vars(WorkerStep(w))
    /\ \A i \in IDs : WF_vars(StaleStep(i))

FairSpec == Spec /\ Fairness

-----------------------------------------------------------------------------
(* Properties *)

\* The shape of the tables and of the workers' batches.  No event has fewer
\* than no attempts left, and one that waits has some.
TypeOK ==
    /\ nextID \in 1 .. MaxEvents + 1
    /\ DOMAIN queue \subseteq 1 .. nextID - 1
    /\ \A i \in DOMAIN queue : queue[i] \in Event
    /\ \A i \in DOMAIN queue :
        queue[i].attempt >= (IF queue[i].state = "in_progress" THEN 0 ELSE 1)
    /\ acquired \subseteq Locks
    /\ jobLock \subseteq DOMAIN queue
    /\ \A w \in Workers : DOMAIN batch[w] \subseteq IDs /\ \A i \in DOMAIN batch[w] : batch[w][i] \in Job
    /\ content \in [Locks -> [Sources -> Nat \union {GenerationUnknown}]]
    /\ {latest, copy, gaveUp} \subseteq [Locks -> Nat]
    /\ lost \subseteq Locks \X Sources /\ inserted \subseteq Insertion
    /\ onDisk \subseteq Locks /\ recorded \subseteq Locks

\* The tables are well-formed, and a lock is taken exactly while some event of
\* its repository is held by a worker: Acknowledge and AcknowledgeStale release
\* it with the last of a batch's events, not before, and never forget it.
LocksMatchJobs ==
    /\ TypeOK
    /\ acquired = {queue[i].lock : i \in jobLock}

\* "The job considered 'in_progress' if it has corresponding entry in the
\* 'replication_queue_job_lock' table": an event that is in progress has one,
\* or at least a worker that will acknowledge it; nothing else moves it on.
InProgressIsHeld ==
    \A i \in WithState("in_progress") :
        i \in jobLock \/ \E w \in Workers : i \in DOMAIN batch[w]

\* "Only one worker is allowed to operate on a given repository at a time."
OneWorkerPerRepository ==
    \A w, x \in Workers : w # x =>
        \A i \in DOMAIN batch[w], j \in DOMAIN batch[x] :
            /\ batch[w][i].outcome \in {"todo", "removed"}
            /\ batch[x][j].outcome \in {"todo", "removed"}
            => batch[w][i].event.lock # batch[x][j].event.lock

\* Event i is in the queue, or at least in the hands of a worker.
Pending(i) == i \in DOMAIN queue \/ \E w \in Workers : i \in InState(w, "todo")

Missing(l, write) == l \in recorded /\ write > copy[l] /\ write > gaveUp[l]

\* A write that got an event of its own, whose primary has kept the repository and
\* that the target has not seen still has its event, unless that used up its
\* attempts: an event is completed without a copy only when its own source lost the
\* repository or the target is not behind it, and events are "similar" and removed
\* with a completed one only if that one replicated what they were for.
InsertedIsReplicated == \A c \in inserted : Missing(c.lock, c.write) => Pending(c.id)

\* "replication jobs will be created and will be executed eventually" (praefect
\* track-repository): when no more requests come in, every update job is
\* executed or used up, whatever fails and whoever dies.  Deletions are tried
\* forever, and as many as fit into a batch that can never succeed keep
\* everything younger from being dequeued.
UpdatesDrain == <>[](OfChange("update") = {})

-----------------------------------------------------------------------------
(* The inductive invariant that the safety properties rest on *)

\* Whatever happens to the workers: the tables have their shape, and a lock is
\* taken exactly while some event of its repository has a job lock.
RowsMatch ==
    /\ nextID \in 1 .. MaxEvents + 1
    /\ DOMAIN queue \subseteq 1 .. nextID - 1
    /\ \A i \in DOMAIN queue :
        /\ queue[i] \in Event /\ queue[i].taken <= nextID /\ queue[i].covers <= MaxWrites
        /\ queue[i].change = "update" => queue[i].source \in Sources
    /\ jobLock \subseteq DOMAIN queue
    /\ acquired = {queue[i].lock : i \in jobLock}

BatchesMatch ==
    /\ DOMAIN batch = Workers
    /\ \A w \in Workers : DOMAIN batch[w] \subseteq IDs
    /\ \A w \in Workers : \A i \in DOMAIN batch[w] :
        /\ batch[w][i] \in Job
        /\ batch[w][i].event.change = "update" => batch[w][i].event.source \in Sources

ReplicasMatch ==
    /\ latest \in [Locks -> 0 .. MaxWrites]
    /\ content \in [Locks -> [Sources -> Nat \union {GenerationUnknown}]]
    /\ \A l \in Locks, s \in Sources : content[l][s] <= latest[l]
    /\ lost \subseteq Locks \X Sources /\ inserted \subseteq Insertion
    /\ copy \in [Locks -> Nat]
    /\ gaveUp \in [Locks -> 0 .. MaxWrites]
    /\ onDisk \subseteq Locks /\ recorded \subseteq Locks

TablesMatch == RowsMatch /\ BatchesMatch /\ ReplicasMatch

\* While no live worker loses its health updates, the job locks are the events
\* in progress, and those of a worker's batch are its own.
JobsAreOwned ==
    /\ \A i \in DOMAIN queue :
        queue[i].attempt >= (IF queue[i].state = "in_progress" THEN 0 ELSE 1)
    /\ jobLock = WithState("in_progress")
    /\ \A w \in Workers : \A i \in DOMAIN batch[w] :
        /\ i \in jobLock /\ batch[w][i].event = queue[i]
        /\ batch[w][i].outcome = "failed" => queue[i].attempt >= 1
    /\ \A w, x \in Workers : \A i \in DOMAIN batch[w], j \in DOMAIN batch[x] :
        queue[i].lock = queue[j].lock => w = x

Updates(l) == OfLock(l) \intersect OfChange("update")

\* Updates of a repository are executed one at a time, oldest first, and at most
\* one of them has not been tried yet.
OldestFirst ==
    \A i, j \in OfChange("update") : queue[i].lock = queue[j].lock =>
        /\ queue[j].state # "ready" => j <= i
        /\ queue[i].state = "ready" /\ queue[j].state = "ready" => i = j

\* Sources that the write c must have reached hold it: the primary of the write, and
\* those of all later events.
SourcesHold(c) ==
    /\ <<c.lock, c.source>> \notin lost /\ content[c.lock][c.source] >= c.write
    /\ \A i \in Updates(c.lock) : i >= c.id =>
          LET n == content[c.lock][queue[i].source] IN n = GenerationUnknown \/ n >= c.write

\* The event of the write c is not removed before an older one, and not while the
\* write is missing; an attempt at it covers the write.
EventStays(c) ==
    /\ \A i \in Updates(c.lock) : i <= c.id => c.id \in Updates(c.lock)
    /\ Missing(c.lock, c.write) => c.id \in Updates(c.lock)
    /\ c.id \in Updates(c.lock) =>
          /\ queue[c.id].source = c.source
          /\ queue[c.id].state = "in_progress" => queue[c.id].covers >= c.write

\* A completed update that is the event of the write c, or makes it superfluous, has
\* brought the write to the target.
CompletedBrings(c) ==
    \A w \in Workers : \A j \in InState(w, "completed") :
        /\ j \in Updates(c.lock) /\ c.lock \in recorded
        /\ j = c.id \/ (c.id < queue[j].taken /\ queue[j].source = c.source)
        => copy[c.lock] >= c.write

\* The events carry the writes that they were inserted for.
EventsCarryWrites ==
    /\ OldestFirst
    /\ \A c \in inserted : c.id < nextID /\ SourcesHold(c) /\ EventStays(c) /\ CompletedBrings(c)

IInv == TablesMatch /\ JobsAreOwned /\ EventsCarryWrites
=============================================================================
