--------------------------- MODULE RepositoryStore ---------------------------
(***************************************************************************)
(* The generations by which Praefect knows which replicas of a repository  *)
(* are up to date: internal/praefect/datastore/repository_store.go, with   *)
(* everybody who reads and writes them concurrently: mutator requests      *)
(* (router_per_repository.go, coordinator.go), the per-repository elector, *)
(* replication jobs (replicator.go), the reconciler and the operator.      *)
(*                                                                         *)
(* One repository.  A method of the store is one SQL statement and one     *)
(* step; a request and a job take several of them, and what they read is   *)
(* old when they use it.  Transactions and ReplicationQueue show how nodes *)
(* agree and how jobs are locked; here a request's transaction is one step *)
(* and a target works on one job at a time.                                *)
(***************************************************************************)
EXTENDS Integers, FiniteSets

CONSTANTS
    Storages,       \* the virtual storage's Gitaly nodes
    Requests,       \* mutator requests, which stand for what they write
    NoStorage,      \* a NULL primary
    MaxFaults,      \* bound on failures of nodes, jobs and statements
    MaxOperations   \* bound on the operator's commands

ASSUME StoreAssumption ==
    /\ IsFiniteSet(Storages) /\ NoStorage \notin Storages
    /\ IsFiniteSet(Requests)
    /\ MaxFaults \in Nat /\ MaxOperations \in Nat

VARIABLES
    exists,      \* whether the repository has its row in repositories
    latest,      \* repositories.generation
    gen,         \* storage_repositories.generation, Unknown without a row
    primary,     \* repositories.primary
    assigned,    \* repository_assignments; empty means every storage
    jobs,        \* replication_queue: what is neither completed nor dead
    onDisk,      \* storages that have the repository
    content,     \* on each of them, the writes that are certainly there
    healthy,     \* healthy_storages
    request,     \* what each request has read and done
    missing,     \* storages that the verifier found without the repository
    doomed,      \* storages that DeleteRepository still removes from disk
    promise,     \* history: the writes recorded up to the latest generation
    overtaken,   \* history: see LatestIsHeld
    faults,      \* failures so far
    operations   \* commands so far

tables == <<exists, latest, gen, primary, assigned>>
disks == <<onDisk, content>>
history == <<promise, overtaken>>
vars == <<tables, jobs, disks, healthy, request, missing, doomed, history, faults, operations>>

Unknown == -1  \* GenerationUnknown

NewRequest == [pc |-> "idle", primary |-> NoStorage, consistent |-> {},
               updated |-> {}, outdated |-> {}]

\* A replication event.  gen is what GetReplicatedGeneration returned.
NewJob(ch, s, t) == [change |-> ch, source |-> s, target |-> t, pc |-> "ready", gen |-> Unknown]

OfChange(ch) == {j \in jobs : j.change = ch}
Targets(ch) == {j.target : j \in OfChange(ch)}

Fault ==
    /\ faults < MaxFaults
    /\ faults' = faults + 1

FaultUnless(fine) == IF fine THEN UNCHANGED faults ELSE Fault

-----------------------------------------------------------------------------
(* What the queries see *)

UpToDate == {s \in Storages : exists /\ gen[s] = latest}

\* GetHostAssignments: without assignments every configured storage is one.
Hosts == IF assigned = {} THEN Storages ELSE assigned

\* The view valid_primaries: unassigned candidates count if no other is left.
ValidPrimaries ==
    LET candidates == (UpToDate \intersect healthy) \ Targets("delete_replica")
    IN  IF candidates \intersect assigned = {} THEN candidates
        ELSE candidates \intersect assigned

\* Enqueue drops a job if a similar one is ready.
Enqueue(js) ==
    jobs' = jobs \union {j \in js :
        ~\E k \in jobs : k.pc = "ready" /\ k.target = j.target /\ k.change = j.change}

-----------------------------------------------------------------------------
(* Creation *)

\* CreateRepository with its replication jobs, for a primary p, secondaries U
\* that committed and O that did not.  Assignments are only stored with a
\* replication factor; otherwise every storage takes part.
CreateRepository(p, U, O, storeAssignments) ==
    /\ ~exists /\ latest = Unknown
    /\ p \notin U \union O /\ U \intersect O = {}
    /\ storeAssignments \/ {p} \union U \union O = Storages
    /\ exists' = TRUE
    /\ latest' = 0
    /\ gen' = [s \in Storages |-> IF s \in U \union {p} THEN 0 ELSE Unknown]
    /\ primary' = p
    /\ assigned' = IF storeAssignments THEN {p} \union U \union O ELSE {}
    /\ onDisk' = U \union {p}
    /\ UNCHANGED content
    /\ Enqueue({NewJob("update", p, t) : t \in O})
    /\ FaultUnless(O = {})
    /\ UNCHANGED <<healthy, request, missing, doomed, history, operations>>

-----------------------------------------------------------------------------
(* Mutator requests *)

Set(r, q) == request' = [request EXCEPT ![r] = q]
Finish(r) == Set(r, [NewRequest EXCEPT !.pc = "done"])

\* The request fails before anything was written: a query or a vote failed.
RequestFails(r) ==
    /\ request[r].pc \in {"elected", "consistent", "routed"}
    /\ Finish(r)
    /\ UNCHANGED <<tables, jobs, disks, healthy, missing, doomed, history, faults, operations>>

\* GetPrimary elects a new primary only if the current one is not valid and
\* another one is.
GetPrimary(r, p) ==
    /\ exists /\ request[r].pc = "idle"
    /\ IF primary \in ValidPrimaries \/ ValidPrimaries = {}
       THEN p = primary
       ELSE p \in ValidPrimaries
    /\ primary' = p
    /\ IF p \in healthy
       THEN Set(r, [request[r] EXCEPT !.pc = "elected", !.primary = p])
       ELSE Finish(r)
    /\ UNCHANGED <<exists, latest, gen, assigned, jobs, disks, healthy, missing, doomed,
                   history, faults, operations>>

\* A primary that is outdated by now makes the repository read-only.
GetConsistentStorages(r) ==
    /\ request[r].pc = "elected"
    /\ IF request[r].primary \in UpToDate
       THEN Set(r, [request[r] EXCEPT !.pc = "consistent", !.consistent = UpToDate])
       ELSE Finish(r)
    /\ UNCHANGED <<tables, jobs, disks, healthy, missing, doomed, history, faults, operations>>

\* Hosts that are consistent and healthy take part, the others get jobs.
GetHostAssignments(r) ==
    LET q == request[r]
        others == Hosts \ {q.primary}
        secondaries == others \intersect q.consistent \intersect healthy
    IN  /\ q.pc = "consistent"
        /\ IF q.primary \in Hosts
           THEN Set(r, [q EXCEPT !.pc = "routed", !.updated = secondaries,
                                 !.outdated = others \ secondaries, !.consistent = {}])
           ELSE Finish(r)
        /\ UNCHANGED <<tables, jobs, disks, healthy, missing, doomed, history, faults, operations>>

\* The primary and the secondaries U commit; the other secondaries failed.
Apply(r, U) ==
    LET q == request[r]
        writers == U \union {q.primary}
    IN  /\ q.pc = "routed"
        /\ U \subseteq q.updated
        /\ writers \subseteq onDisk
        /\ content' = [s \in Storages |->
                IF s \in writers THEN content[s] \union {r} ELSE content[s]]
        /\ Set(r, [q EXCEPT !.pc = "applied", !.updated = U,
                            !.outdated = @ \union (q.updated \ U)])
        /\ FaultUnless(U = q.updated)
        /\ UNCHANGED <<tables, jobs, onDisk, healthy, missing, doomed, history, operations>>

\* Mutant: every storage that took part is incremented, outdated or not.
Incremented_Anyone(q) ==
    {s \in q.updated \union {q.primary} : exists /\ gen[s] # Unknown}

\* The rows that IncrementGeneration updates.
Incremented(q) == (q.updated \union {q.primary}) \intersect UpToDate

IncrementGeneration(r) ==
    LET q == request[r]
    IN  /\ q.pc = "applied"
        /\ IF Incremented(q) = {}
           THEN Finish(r) /\ UNCHANGED <<latest, gen, history>>
           ELSE /\ latest' = latest + 1
                /\ gen' = [s \in Storages |->
                        IF s \in Incremented(q) THEN gen[s] + 1 ELSE gen[s]]
                /\ promise' = promise \union {r}
                /\ overtaken' = (overtaken \/ Incremented(q) \subseteq Targets("delete_replica"))
                /\ Set(r, [q EXCEPT !.pc = "recorded"])
        /\ UNCHANGED <<exists, primary, assigned, jobs, disks, healthy, missing, doomed,
                       faults, operations>>

\* The statement fails, and with it the request; its write stays on disk.
IncrementGenerationFails(r) ==
    /\ request[r].pc = "applied"
    /\ Fault
    /\ Finish(r)
    /\ UNCHANGED <<tables, jobs, disks, healthy, missing, doomed, history, operations>>

\* Jobs are inserted concurrently; if one insertion fails, others may too.
EnqueueJobs(r, T) ==
    /\ request[r].pc = "recorded"
    /\ T \subseteq request[r].outdated
    /\ FaultUnless(T = request[r].outdated)
    /\ Enqueue({NewJob("update", request[r].primary, t) : t \in T})
    /\ Finish(r)
    /\ UNCHANGED <<tables, disks, healthy, missing, doomed, history, operations>>

-----------------------------------------------------------------------------
(* The reconciler *)

\* An unassigned replica that is not newer than any other or any assigned
\* storage, and that no job uses; one deletion at a time.
Deletable(s) ==
    /\ exists /\ gen[s] # Unknown
    /\ assigned # {} /\ s \notin assigned
    /\ \A x \in Storages :
            x \in assigned \/ gen[x] # Unknown => gen[s] <= gen[x]
    /\ ~\E j \in jobs : s \in {j.source, j.target}
    /\ OfChange("delete_replica") = {}

\* Mutant: a host without a record counts as up to date.
Outdated_Recorded ==
    {t \in (Hosts \intersect healthy) \ UpToDate :
        exists /\ gen[t] # Unknown /\ t \notin Targets("update")}

\* Hosts without the latest generation and without an update job.
Outdated == {t \in (Hosts \intersect healthy) \ UpToDate : exists /\ t \notin Targets("update")}

UpdateSources == (UpToDate \intersect healthy) \ Targets("delete_replica")

\* One statement inserts an update job for every outdated host, each from a
\* random source, and at most one deletion.
Reconcile(source, deleted) ==
    LET updates == IF UpdateSources = {} THEN {}
                   ELSE {NewJob("update", source[t], t) : t \in Outdated}
        deletions == {NewJob("delete_replica", NoStorage, s) : s \in deleted}
    IN  /\ Cardinality(healthy) >= 2
        /\ updates \union deletions # {}
        /\ jobs' = jobs \union updates \union deletions
        /\ UNCHANGED <<tables, disks, healthy, request, missing, doomed, history, faults, operations>>

ReconcileSome ==
    \E source \in [Outdated -> IF UpdateSources = {} THEN Storages ELSE UpdateSources] :
        LET unneeded == {s \in healthy : Deletable(s)}
        IN  IF unneeded = {} THEN Reconcile(source, {})
            ELSE \E s \in unneeded : Reconcile(source, {s})

-----------------------------------------------------------------------------
(* Replication jobs *)

\* The lock of a target is held by the job it works on.
Takes(j) == j.pc = "ready" /\ ~\E k \in jobs : k.target = j.target /\ k.pc # "ready"

Advance(j, pc) == jobs' = (jobs \ {j}) \union {[j EXCEPT !.pc = pc]}

\* Acknowledge may remove similar events with the job.
Complete(j) ==
    \E dropped \in SUBSET {k \in jobs : k.pc = "ready" /\ k.change = j.change
                                /\ k.target = j.target /\ k.source = j.source} :
        jobs' = jobs \ (dropped \union {j})

\* Mutant: the target's generation is not looked at.
DowngradeAttempted_Never(j) == FALSE

DowngradeAttempted(j) == gen[j.target] # Unknown /\ gen[j.target] >= gen[j.source]

\* Replicate, first part.
GetReplicatedGeneration(j) ==
    /\ j.change = "update" /\ Takes(j)
    /\ IF DowngradeAttempted(j)
       THEN Complete(j)
       ELSE jobs' = (jobs \ {j}) \union {[j EXCEPT !.pc = "read", !.gen = gen[j.source]]}
    /\ UNCHANGED <<tables, disks, healthy, request, missing, doomed, history, faults, operations>>

\* DeleteInvalidRepository: the repository goes with its last replica.
DeleteInvalidRepository(s) ==
    /\ gen' = [gen EXCEPT ![s] = Unknown]
    /\ IF \E x \in Storages \ {s} : gen[x] # Unknown
       THEN UNCHANGED <<exists, primary, assigned>>
       ELSE exists' = FALSE /\ primary' = NoStorage /\ assigned' = {}
    /\ UNCHANGED latest

\* The copy takes away a write that is applied and not yet recorded.
Overwrites(j, r) ==
    /\ request[r].pc = "applied" /\ j.source \in onDisk
    /\ j.target \in request[r].updated \union {request[r].primary}
    /\ r \notin content[j.source]

\* The source has lost its record since the job read its generation, and another
\* job has brought it back, with what that one's source had.
Returned(j) ==
    /\ exists /\ j.source \in onDisk
    /\ j.gen = latest /\ gen[j.source] < j.gen

\* Replicate, second part: the target mirrors the source, or learns that the
\* source does not have the repository.
ReplicateRepository(j) ==
    /\ j.pc = "read"
    /\ IF j.source \notin onDisk
       THEN /\ DeleteInvalidRepository(j.source)
            /\ Complete(j)
            /\ UNCHANGED disks
       ELSE /\ onDisk' = onDisk \union {j.target}
            /\ content' = [content EXCEPT ![j.target] = content[j.source]]
            /\ Advance(j, "copied")
            /\ UNCHANGED tables
    /\ overtaken' = (overtaken \/ Returned(j) \/ \E r \in Requests : Overwrites(j, r))
    /\ UNCHANGED <<promise, healthy, request, missing, doomed, faults, operations>>

SetsGeneration(j) == j.gen # Unknown /\ exists

\* Replicate, last part.
SetGeneration(j) ==
    /\ j.pc = "copied"
    /\ IF SetsGeneration(j)
       THEN /\ gen' = [gen EXCEPT ![j.target] = j.gen]
            /\ latest' = IF latest < j.gen THEN j.gen ELSE latest
       ELSE UNCHANGED <<gen, latest>>
    /\ Complete(j)
    /\ UNCHANGED <<exists, primary, assigned, disks, healthy, request, missing, doomed,
                   history, faults, operations>>

RemoveRepository(s) ==
    /\ onDisk' = onDisk \ {s}
    /\ content' = [content EXCEPT ![s] = {}]

\* Destroy, first part.  Without the repository RemoveRepository fails and
\* the job is tried again, which changes nothing.
RemoveReplica(j) ==
    /\ j.change = "delete_replica" /\ Takes(j)
    /\ j.target \in onDisk
    /\ RemoveRepository(j.target)
    /\ Advance(j, "removed")
    /\ UNCHANGED <<tables, healthy, request, missing, doomed, history, faults, operations>>

\* Destroy, second part.
DeleteReplica(j) ==
    /\ j.pc = "removed"
    /\ gen' = [gen EXCEPT ![j.target] = Unknown]
    /\ Complete(j)
    /\ UNCHANGED <<exists, latest, primary, assigned, disks, healthy, request, missing, doomed,
                   history, faults, operations>>

\* A job fails or its worker dies: it is tried again, or it is dead, which
\* deletions never are.
JobFails(j) ==
    /\ j.pc # "ready"
    /\ Fault
    /\ \/ jobs' = (jobs \ {j}) \union {[j EXCEPT !.pc = "ready", !.gen = Unknown]}
       \/ j.change = "update" /\ jobs' = jobs \ {j}
    /\ UNCHANGED <<tables, disks, healthy, request, missing, doomed, history, operations>>

-----------------------------------------------------------------------------
(* The metadata verifier *)

\* A healthy replica is leased and its node does not have it.  If the node has
\* it, or cannot say, only the lease is given back.
Verify(s) ==
    /\ gen[s] # Unknown /\ s \in healthy
    /\ s \notin onDisk \union missing
    /\ missing' = missing \union {s}
    /\ UNCHANGED <<tables, jobs, disks, healthy, request, doomed, history, faults, operations>>

\* The record is deleted, whatever became of the replica since; the
\* repository's own record stays.
UpdateMetadata(s) ==
    /\ s \in missing
    /\ missing' = missing \ {s}
    /\ gen' = [gen EXCEPT ![s] = Unknown]
    /\ overtaken' = (overtaken \/ s \in onDisk)
    /\ UNCHANGED <<exists, latest, primary, assigned, jobs, disks, healthy, request, doomed,
                   promise, faults, operations>>

-----------------------------------------------------------------------------
(* The operator and the nodes *)

Command ==
    /\ exists /\ operations < MaxOperations
    /\ operations' = operations + 1

\* praefect accept-dataloss, for a storage that has the repository.
SetAuthoritativeReplica(s) ==
    /\ Command
    /\ s \in onDisk
    /\ latest' = latest + 1
    /\ gen' = [gen EXCEPT ![s] = latest + 1]
    /\ promise' = content[s]
    /\ overtaken' = (overtaken \/ \E j \in jobs :
            j.target = s /\ (j.pc # "ready" \/ j.change = "delete_replica"))
    /\ UNCHANGED <<exists, primary, assigned, jobs, disks, healthy, request, missing, doomed, faults>>

\* Assignments that SetReplicationFactor may choose: the primary is assigned
\* first and never removed.
Reassigned(A, factor) ==
    /\ Cardinality(A) = factor
    /\ A \subseteq assigned \/ assigned \subseteq A
    /\ factor > Cardinality(assigned) => primary \in A
    /\ primary \in assigned => primary \in A

SetReplicationFactor(A) ==
    /\ Command
    /\ A # {} /\ Reassigned(A, Cardinality(A))
    /\ assigned' = A
    /\ UNCHANGED <<exists, latest, gen, primary, jobs, disks, healthy, request, missing, doomed,
                   history, faults>>

\* DeleteRepository: the rows of replicas and assignments go with it.
DeleteRepository ==
    /\ Command
    /\ exists' = FALSE
    /\ gen' = [s \in Storages |-> Unknown]
    /\ primary' = NoStorage
    /\ assigned' = {}
    /\ doomed' = {s \in Storages : gen[s] # Unknown}
    /\ UNCHANGED <<latest, jobs, disks, healthy, request, missing, history, faults>>

\* The handler removes the repository from each storage, if it can.
RemoveDoomed(s) ==
    /\ s \in doomed
    /\ doomed' = doomed \ {s}
    /\ \/ RemoveRepository(s) /\ UNCHANGED faults
       \/ Fault /\ UNCHANGED disks
    /\ UNCHANGED <<tables, jobs, healthy, request, missing, history, operations>>

NodeFails(s) ==
    /\ s \in healthy
    /\ Fault
    /\ healthy' = healthy \ {s}
    /\ UNCHANGED <<tables, jobs, disks, request, missing, doomed, history, operations>>

NodeRecovers(s) ==
    /\ s \notin healthy
    /\ healthy' = healthy \union {s}
    /\ UNCHANGED <<tables, jobs, disks, request, missing, doomed, history, faults, operations>>

-----------------------------------------------------------------------------
Init ==
    /\ exists = FALSE /\ latest = Unknown
    /\ gen = [s \in Storages |-> Unknown]
    /\ primary = NoStorage
    /\ assigned = {}
    /\ jobs = {}
    /\ onDisk = {}
    /\ content = [s \in Storages |-> {}]
    /\ healthy = Storages
    /\ request = [r \in Requests |-> NewRequest]
    /\ missing = {} /\ doomed = {}
    /\ promise = {} /\ overtaken = FALSE
    /\ faults = 0 /\ operations = 0

Step(r) ==
    \/ RequestFails(r)
    \/ \E p \in Storages : GetPrimary(r, p)
    \/ GetConsistentStorages(r)
    \/ GetHostAssignments(r)
    \/ \E U \in SUBSET Storages : Apply(r, U)
    \/ IncrementGeneration(r)
    \/ IncrementGenerationFails(r)
    \/ \E T \in SUBSET Storages : EnqueueJobs(r, T)

Work(j) ==
    \/ GetReplicatedGeneration(j)
    \/ ReplicateRepository(j)
    \/ SetGeneration(j)
    \/ RemoveReplica(j)
    \/ DeleteReplica(j)

Next ==
    \/ \E p \in Storages : \E U, O \in SUBSET Storages : \E a \in BOOLEAN :
            CreateRepository(p, U, O, a)
    \/ \E r \in Requests : Step(r)
    \/ ReconcileSome
    \/ \E j \in jobs : Work(j) \/ JobFails(j)
    \/ \E s \in Storages : Verify(s) \/ UpdateMetadata(s)
    \/ \E s \in Storages : SetAuthoritativeReplica(s)
    \/ \E A \in SUBSET Storages : SetReplicationFactor(A)
    \/ DeleteRepository
    \/ \E s \in Storages : RemoveDoomed(s) \/ NodeFails(s) \/ NodeRecovers(s)

Spec == Init /\ [][Next]_vars

\* The reconciler and the verifier run on tickers, the replication manager's
\* loops never stop, every node comes back, and a request ends.
Fairness ==
    /\ WF_vars(ReconcileSome)
    /\ \A t \in Storages :
        /\ WF_vars(\E j \in jobs : j.target = t /\ j.change = "update" /\ Work(j))
        /\ WF_vars(\E j \in jobs : j.target = t /\ j.change = "delete_replica" /\ Work(j))
        /\ WF_vars(NodeRecovers(t))
        /\ WF_vars(Verify(t) \/ UpdateMetadata(t))
    /\ \A r \in Requests : WF_vars(Step(r) /\ request[r].pc # "idle")

FairSpec == Spec /\ Fairness

-----------------------------------------------------------------------------
(* Properties *)

Holds(s) == s \in onDisk /\ promise \subseteq content[s]

\* A storage that is recorded with the latest generation, from which reads are
\* served and jobs replicate, has every write that IncrementGeneration
\* recorded, whatever ran between the queries of the requests and jobs that
\* put it there.  Excepted are replicas with a deletion job, which are off the
\* disk before they are off the database.
LatestHasRecordedWrites ==
    \A s \in UpToDate \ Targets("delete_replica") : overtaken \/ Holds(s)

\* As long as the repository exists some replica has the latest generation and
\* every recorded write: neither deletion jobs nor late SetGenerations lose
\* the last one.  Five races do, and overtaken records them: a request that was
\* routed before its storages were unassigned and increments only replicas
\* that are already scheduled for deletion; accept-dataloss for a storage that
\* a job is just overwriting or about to delete; a job that overwrites what a
\* request has applied and not yet recorded (GenerationGuarantee); a job whose
\* source was deleted and replicated to again since its generation was read; and
\* the verifier's deletion of the record of a replica that came back since it was
\* found missing.
LatestIsHeld == exists /\ ~overtaken => \E s \in UpToDate : Holds(s)

\* doc/virtual_storage.md: "the generations guarantee that the repository has
\* replicated up the changes that produced a given generation number but might
\* also include later data".  It does not hold: IncrementGeneration compares a
\* replica with the generation that is the latest by then, not with the one the
\* request was routed at, so a replica that was outdated and replicated to in
\* between gets the generation of a write that the job has taken away.
GenerationGuarantee == \A s \in UpToDate : promise \subseteq content[s]

\* A replica's generation never falls: a job does not replace a newer replica
\* by the generation it read before.
NoDowngrade ==
    [][ \A s \in Storages : gen'[s] < gen[s] => gen'[s] = Unknown \/ overtaken ]_vars

\* Once requests, faults and commands are over every host has the latest
\* generation and the recorded writes: the reconciler makes up for jobs that
\* were never inserted or died.
Converges ==
    <>[](exists /\ ~overtaken => \A s \in Hosts : s \in UpToDate /\ Holds(s))

-----------------------------------------------------------------------------
(* The inductive invariant behind LatestHasRecordedWrites, LatestIsHeld and *)
(* NoDowngrade.                                                              *)

Generation == Nat \union {Unknown}

Request == [pc : {"idle", "elected", "consistent", "routed", "applied", "recorded", "done"},
            primary : Storages \union {NoStorage}, consistent : SUBSET Storages,
            updated : SUBSET Storages, outdated : SUBSET Storages]

Job == [change : {"update", "delete_replica"}, source : Storages \union {NoStorage},
        target : Storages, pc : {"ready", "read", "copied", "removed"}, gen : Generation]

StoreTypeOK ==
    /\ exists \in BOOLEAN /\ overtaken \in BOOLEAN
    /\ latest \in Generation /\ gen \in [Storages -> Generation]
    /\ primary \in Storages \union {NoStorage}
    /\ assigned \subseteq Storages /\ onDisk \subseteq Storages
    /\ content \in [Storages -> SUBSET Requests] /\ promise \subseteq Requests
    /\ request \in [Requests -> Request]
    /\ \A r \in Requests : request[r].pc \notin {"idle", "done"} => request[r].primary \in Storages
    /\ jobs \subseteq Job
    /\ \A j \in jobs : IF j.change = "update"
                       THEN j.source \in Storages /\ j.pc # "removed"
                       ELSE j.pc \in {"ready", "removed"}
    /\ missing \subseteq Storages /\ doomed \subseteq Storages /\ healthy \subseteq Storages

\* The repository is created once, and removed from disk as a whole only after it
\* was deleted.
CreatedOnce ==
    /\ latest = Unknown =>
          /\ ~exists /\ jobs = {} /\ promise = {} /\ doomed = {}
          /\ \A r \in Requests : request[r].pc = "idle"
    /\ exists => doomed = {}

\* No replica and no job has a generation beyond the latest.
NoneBeyondLatest ==
    /\ \A s \in Storages : gen[s] <= latest
    /\ \A j \in jobs : j.gen <= latest

\* A target works on one job at a time.
OneJobPerTarget ==
    \A j, k \in jobs : j.target = k.target /\ j.pc # "ready" /\ k.pc # "ready" => j = k

\* Who has a record has the repository, unless a deletion job took it away.
RecordedIsOnDisk ==
    exists => \A s \in Storages :
        gen[s] # Unknown => s \in onDisk \/ s \in Targets("delete_replica")

\* While a job runs its target is older than what the job brings; once it has
\* copied the latest generation the target has all recorded writes.
JobsBringNewer ==
    \A j \in jobs :
        /\ exists /\ j.pc = "copied" => j.target \in onDisk
        /\ ~overtaken /\ j.pc \in {"read", "copied"} =>
              gen[j.target] = Unknown \/ gen[j.target] < j.gen
        /\ exists /\ ~overtaken /\ j.pc = "copied" /\ j.gen = latest =>
              promise \subseteq content[j.target]

\* What a request has applied is on the disks it is going to record.
AppliedIsOnDisk ==
    ~overtaken => \A r \in Requests : request[r].pc = "applied" =>
        \A s \in request[r].updated \union {request[r].primary} :
            s \in onDisk => r \in content[s]

\* A storage with the latest generation has the recorded writes as long as it has
\* the repository.
LatestOnDiskHasWrites ==
    exists /\ ~overtaken =>
        \A s \in UpToDate \intersect onDisk : promise \subseteq content[s]

\* Some storage with the latest generation is not about to be deleted.
LatestIsKept ==
    exists /\ ~overtaken => UpToDate \ Targets("delete_replica") # {}

StoreInv ==
    /\ StoreTypeOK
    /\ CreatedOnce
    /\ NoneBeyondLatest
    /\ OneJobPerTarget
    /\ RecordedIsOnDisk
    /\ JobsBringNewer
    /\ AppliedIsOnDisk
    /\ LatestOnDiskHasWrites
    /\ LatestIsKept
=============================================================================
