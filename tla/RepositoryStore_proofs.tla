----------------------- MODULE RepositoryStore_proofs -----------------------
(***************************************************************************)
(* Proofs about RepositoryStore, for any finite sets of storages and       *)
(* requests and any bounds on faults and commands.                         *)
(*                                                                         *)
(* StoreInv says why stale reads do no harm outside the recorded races: a  *)
(* job's target stays older than what the job brings, so a job never       *)
(* overwrites a replica with the latest generation and never lowers one; a *)
(* replica with a record has the repository unless a deletion job took it; *)
(* and some replica with the latest generation has no deletion job.        *)
(***************************************************************************)
EXTENDS RepositoryStore, TLAPS

Deleted == Targets("delete_replica")

-----------------------------------------------------------------------------
(* Requests and jobs *)

\* What the request's columns are after Set.
LEMMA SetRequest ==
    ASSUME StoreTypeOK, NEW r \in Requests, NEW q \in Request, Set(r, q),
           q.pc \notin {"idle", "done"} => q.primary \in Storages
    PROVE  /\ request' \in [Requests -> Request] /\ request'[r] = q
           /\ \A x \in Requests : x # r => request'[x] = request[x]
           /\ \A x \in Requests : request'[x].pc \notin {"idle", "done"} =>
                 request'[x].primary \in Storages
<1>1. request' = [request EXCEPT ![r] = q] /\ request \in [Requests -> Request]
  BY DEF Set, StoreTypeOK
<1>2. /\ request' \in [Requests -> Request] /\ request'[r] = q
      /\ \A x \in Requests : x # r => request'[x] = request[x]
  BY <1>1
<1> QED
  BY <1>2 DEF StoreTypeOK

\* A request that is over.
LEMMA FinishRequest ==
    ASSUME StoreTypeOK, NEW r \in Requests, Finish(r)
    PROVE  /\ request' \in [Requests -> Request] /\ request'[r].pc = "done"
           /\ \A x \in Requests : x # r => request'[x] = request[x]
           /\ \A x \in Requests : request'[x].pc \notin {"idle", "done"} =>
                 request'[x].primary \in Storages
<1>1. PICK q : q = [NewRequest EXCEPT !.pc = "done"]
  OBVIOUS
<1>2. q \in Request /\ q.pc = "done"
  BY <1>1 DEF NewRequest, Request
<1>3. Set(r, q)
  BY <1>1 DEF Finish
<1> QED
  BY <1>2, <1>3, SetRequest

\* The storages with a deletion job.
LEMMA DeletedAre ==
    /\ \A s : s \in Deleted <=> \E j \in jobs : j.change = "delete_replica" /\ j.target = s
    /\ \A s : s \in Deleted' <=> \E j \in jobs' : j.change = "delete_replica" /\ j.target = s
BY DEF Deleted, Targets, OfChange

\* Steps that leave generations, disks and recorded writes alone.
LEMMA QuietKeeps ==
    ASSUME StoreInv, StoreTypeOK',
           UNCHANGED <<exists, latest, gen, onDisk, content, promise, overtaken, doomed>>,
           latest = Unknown => jobs' = jobs /\ request' = request,
           \A r \in Requests : request'[r].pc = "applied" => request'[r] = request[r],
           \A j \in jobs' : j.gen <= latest,
           OneJobPerTarget',
           \A j \in jobs' : j.pc \in {"read", "copied"} =>
              j \in jobs \/ (j.pc = "read" /\ (gen[j.target] = Unknown \/ gen[j.target] < j.gen)),
           Deleted \subseteq Deleted',
           exists /\ ~overtaken => UpToDate \ Deleted' # {}
    PROVE  StoreInv'
<1>1. CreatedOnce'
  BY DEF StoreInv, CreatedOnce
<1>2. NoneBeyondLatest'
  BY DEF StoreInv, NoneBeyondLatest
<1>3. RecordedIsOnDisk'
  BY DEF StoreInv, RecordedIsOnDisk, Deleted
<1>4. JobsBringNewer'
  BY DEF StoreInv, JobsBringNewer
<1>5. AppliedIsOnDisk'
  BY DEF StoreInv, AppliedIsOnDisk
<1>6. UpToDate' = UpToDate
  BY DEF UpToDate
<1>7. LatestOnDiskHasWrites'
  BY <1>6 DEF StoreInv, LatestOnDiskHasWrites
<1>8. LatestIsKept'
  BY <1>6 DEF LatestIsKept, Deleted
<1> QED
  BY <1>1, <1>2, <1>3, <1>4, <1>5, <1>7, <1>8 DEF StoreInv

\* Steps that also leave the jobs alone.
LEMMA SameJobsKeep ==
    ASSUME StoreInv, StoreTypeOK',
           UNCHANGED <<exists, latest, gen, onDisk, content, promise, overtaken, doomed, jobs>>,
           latest = Unknown => request' = request,
           \A r \in Requests : request'[r].pc = "applied" => request'[r] = request[r]
    PROVE  StoreInv'
<1>1. Deleted' = Deleted
  BY DEF Deleted, Targets, OfChange
<1>2. OneJobPerTarget' /\ \A j \in jobs' : j.gen <= latest
  BY DEF StoreInv, OneJobPerTarget, NoneBeyondLatest
<1>3. exists /\ ~overtaken => UpToDate \ Deleted' # {}
  BY <1>1 DEF StoreInv, LatestIsKept, Deleted
<1> QED
  BY <1>1, <1>2, <1>3, QuietKeeps

-----------------------------------------------------------------------------
(* Requests *)

\* The steps of a request before it has written anything, and its failures.
LEMMA RoutingKeeps ==
    ASSUME StoreInv, NEW r \in Requests,
           \/ RequestFails(r) \/ GetConsistentStorages(r) \/ GetHostAssignments(r)
           \/ IncrementGenerationFails(r) \/ \E p \in Storages : GetPrimary(r, p)
    PROVE  StoreInv'
<1>1. StoreTypeOK /\ request[r] \in Request
  BY DEF StoreInv, StoreTypeOK
<1>2. /\ UNCHANGED <<exists, latest, gen, assigned, onDisk, content, promise, overtaken, doomed,
                     jobs, missing, healthy>>
      /\ primary' \in Storages \union {NoStorage}
      /\ exists \/ request[r].pc # "idle"
  BY <1>1 DEF RequestFails, GetConsistentStorages, GetHostAssignments, IncrementGenerationFails,
              GetPrimary, tables, disks, history, StoreTypeOK
<1>3. latest # Unknown
  BY <1>2 DEF StoreInv, CreatedOnce
<1>4. Finish(r) \/ \E q \in Request : /\ Set(r, q) /\ q.primary \in Storages
                                      /\ q.pc \in {"elected", "consistent", "routed"}
  <2>1. CASE RequestFails(r) \/ IncrementGenerationFails(r)
    BY <2>1 DEF RequestFails, IncrementGenerationFails
  <2>2. CASE \E p \in Storages : GetPrimary(r, p)
    <3>1. PICK p \in Storages : GetPrimary(r, p)
      BY <2>2
    <3>2. PICK q : q = [request[r] EXCEPT !.pc = "elected", !.primary = p]
      OBVIOUS
    <3>3. q \in Request /\ q.primary = p /\ q.pc = "elected"
      BY <1>1, <3>2 DEF Request
    <3> QED
      BY <3>1, <3>2, <3>3 DEF GetPrimary
  <2>3. CASE GetConsistentStorages(r)
    <3>1. PICK q : q = [request[r] EXCEPT !.pc = "consistent", !.consistent = UpToDate]
      OBVIOUS
    <3>2. UpToDate \in SUBSET Storages
      BY DEF UpToDate
    <3>3. q \in Request /\ q.primary = request[r].primary /\ q.pc = "consistent"
      BY <1>1, <3>1, <3>2 DEF Request
    <3>4. request[r].primary \in Storages
      BY <1>1, <2>3 DEF GetConsistentStorages, StoreTypeOK
    <3> QED
      BY <2>3, <3>1, <3>3, <3>4 DEF GetConsistentStorages
  <2>4. CASE GetHostAssignments(r)
    <3> DEFINE others == Hosts \ {request[r].primary}
               secondaries == others \intersect request[r].consistent \intersect healthy
    <3>1. PICK q : q = [request[r] EXCEPT !.pc = "routed", !.updated = secondaries,
                                 !.outdated = others \ secondaries, !.consistent = {}]
      OBVIOUS
    <3>2. secondaries \in SUBSET Storages /\ others \ secondaries \in SUBSET Storages
      BY <1>1 DEF Hosts, StoreTypeOK
    <3>3. Finish(r) \/ Set(r, q)
      BY <2>4, <3>1 DEF GetHostAssignments
    <3> HIDE DEF others, secondaries
    <3>4. q \in Request /\ q.primary = request[r].primary /\ q.pc = "routed"
      BY <1>1, <3>1, <3>2 DEF Request
    <3>5. request[r].primary \in Storages
      BY <1>1, <2>4 DEF GetHostAssignments, StoreTypeOK
    <3> QED
      BY <3>3, <3>4, <3>5
  <2> QED
    BY <2>1, <2>2, <2>3, <2>4
<1>5. /\ request' \in [Requests -> Request]
      /\ \A x \in Requests : request'[x].pc = "applied" => request'[x] = request[x]
      /\ \A x \in Requests : request'[x].pc \notin {"idle", "done"} =>
            request'[x].primary \in Storages
  BY <1>1, <1>4, FinishRequest, SetRequest
<1>6. StoreTypeOK'
  BY <1>1, <1>2, <1>5 DEF StoreTypeOK
<1> QED
  BY <1>2, <1>3, <1>5, <1>6, SameJobsKeep

\* A request that increments no replica's generation.
LEMMA NothingIncrementedKeeps ==
    ASSUME StoreInv, NEW r \in Requests, IncrementGeneration(r), Incremented(request[r]) = {}
    PROVE  StoreInv'
<1>1. /\ UNCHANGED <<exists, latest, gen, primary, assigned, onDisk, content, promise, overtaken,
                     doomed, jobs, missing, healthy>>
      /\ Finish(r) /\ request[r].pc # "idle" /\ StoreTypeOK
  BY DEF IncrementGeneration, disks, history, StoreInv
<1>2. latest # Unknown
  BY <1>1 DEF StoreInv, CreatedOnce
<1>3. /\ request' \in [Requests -> Request]
      /\ \A x \in Requests : request'[x].pc = "applied" => request'[x] = request[x]
      /\ \A x \in Requests : request'[x].pc \notin {"idle", "done"} =>
            request'[x].primary \in Storages
  BY <1>1, FinishRequest
<1>4. StoreTypeOK'
  BY <1>1, <1>3 DEF StoreTypeOK
<1> QED
  BY <1>1, <1>2, <1>3, <1>4, SameJobsKeep

\* The steps of nodes, the verifier's reads and new assignments.
LEMMA SurroundingsKeep ==
    ASSUME StoreInv,
           \/ \E s \in Storages : Verify(s) \/ NodeFails(s) \/ NodeRecovers(s)
           \/ \E A \in SUBSET Storages : SetReplicationFactor(A)
           \/ UNCHANGED vars
    PROVE  StoreInv'
<1>1. /\ UNCHANGED <<exists, latest, gen, primary, onDisk, content, promise, overtaken, doomed,
                     jobs, request>>
      /\ assigned' \subseteq Storages /\ missing' \subseteq Storages /\ healthy' \subseteq Storages
  BY DEF Verify, NodeFails, NodeRecovers, SetReplicationFactor, vars, tables, disks, history,
         StoreInv, StoreTypeOK
<1>2. StoreTypeOK'
  BY <1>1 DEF StoreInv, StoreTypeOK
<1> QED
  BY <1>1, <1>2, SameJobsKeep

-----------------------------------------------------------------------------
(* Jobs that come and jobs that go back *)

\* New jobs, of which a deletion leaves another replica with the latest
\* generation.
LEMMA NewJobsKeep ==
    ASSUME StoreInv, exists \/ latest # Unknown,
           UNCHANGED <<exists, latest, gen, primary, assigned, onDisk, content, promise, overtaken,
                       doomed, missing, healthy>>,
           request' \in [Requests -> Request],
           \A r \in Requests : request'[r].pc = "applied" => request'[r] = request[r],
           \A r \in Requests : request'[r].pc \notin {"idle", "done"} =>
                 request'[r].primary \in Storages,
           jobs \subseteq jobs',
           \A j \in jobs' \ jobs :
              /\ j \in Job /\ j.pc = "ready" /\ j.gen = Unknown
              /\ j.change = "update" => j.source \in Storages,
           exists /\ ~overtaken => UpToDate \ Deleted' # {}
    PROVE  StoreInv'
<1>1. latest # Unknown /\ latest \in Generation
  BY DEF StoreInv, CreatedOnce, StoreTypeOK
<1>2. \A j \in jobs' : j \in jobs \/ (j \in Job /\ j.pc = "ready" /\ j.gen = Unknown)
  OBVIOUS
<1>3. \A j \in jobs' : j.gen <= latest
  BY <1>1, <1>2 DEF StoreInv, NoneBeyondLatest, Generation, Unknown
<1>4. OneJobPerTarget'
  BY <1>2 DEF StoreInv, OneJobPerTarget
<1>5. StoreTypeOK'
  <2>1. jobs' \subseteq Job
    BY <1>2 DEF StoreInv, StoreTypeOK
  <2>2. \A j \in jobs' : IF j.change = "update"
                         THEN j.source \in Storages /\ j.pc # "removed"
                         ELSE j.pc \in {"ready", "removed"}
    BY DEF StoreInv, StoreTypeOK
  <2> QED
    BY <2>1, <2>2 DEF StoreInv, StoreTypeOK
<1>6. Deleted \subseteq Deleted'
  BY DeletedAre
<1>7. \A j \in jobs' : j.pc \in {"read", "copied"} => j \in jobs
  BY <1>2
<1> QED
  BY <1>1, <1>3, <1>4, <1>5, <1>6, <1>7, QuietKeeps

\* The fields of a new job.
LEMMA NewJobIs ==
    ASSUME NEW ch \in {"update", "delete_replica"}, NEW s \in Storages \union {NoStorage},
           NEW t \in Storages, NEW j, j = NewJob(ch, s, t)
    PROVE  /\ j \in Job /\ j.change = ch /\ j.source = s /\ j.target = t
           /\ j.pc = "ready" /\ j.gen = Unknown
BY DEF NewJob, Job, Generation, Unknown

\* A request inserts update jobs for its outdated hosts.
LEMMA EnqueueJobsKeeps ==
    ASSUME StoreInv, NEW r \in Requests, NEW T \in SUBSET Storages, EnqueueJobs(r, T)
    PROVE  StoreInv'
<1>1. StoreTypeOK /\ request[r].primary \in Storages
  BY DEF StoreInv, StoreTypeOK, EnqueueJobs
<1>2. latest # Unknown
  BY DEF StoreInv, CreatedOnce, EnqueueJobs
<1>3. UNCHANGED <<exists, latest, gen, primary, assigned, onDisk, content, promise, overtaken,
                  doomed, missing, healthy>>
  BY DEF EnqueueJobs, tables, disks, history
<1>4. jobs \subseteq jobs' /\ \A j \in jobs' \ jobs :
          \E t \in Storages : j = NewJob("update", request[r].primary, t)
  BY DEF EnqueueJobs, Enqueue
<1>5. \A j \in jobs' \ jobs :
              /\ j \in Job /\ j.pc = "ready" /\ j.gen = Unknown
              /\ j.source \in Storages /\ j.change = "update"
  BY <1>1, <1>4, NewJobIs
<1>6. Deleted' \subseteq Deleted
  BY <1>4, <1>5, DeletedAre
<1>7. exists /\ ~overtaken => UpToDate \ Deleted' # {}
  BY <1>6 DEF StoreInv, LatestIsKept, Deleted
<1>8. /\ request' \in [Requests -> Request]
      /\ \A x \in Requests : request'[x].pc = "applied" => request'[x] = request[x]
      /\ \A x \in Requests : request'[x].pc \notin {"idle", "done"} =>
            request'[x].primary \in Storages
  BY <1>1, FinishRequest DEF EnqueueJobs
<1> QED
  BY <1>2, <1>3, <1>4, <1>5, <1>7, <1>8, NewJobsKeep

\* The reconciler adds update jobs, and at most one deletion job, for a replica that
\* has an assigned one beside it which is no older.
LEMMA ReconcileKeeps ==
    ASSUME StoreInv, ReconcileSome
    PROVE  StoreInv'
<1>0. PICK source \in [Outdated -> IF UpdateSources = {} THEN Storages ELSE UpdateSources] :
        \E deleted \in SUBSET healthy :
          /\ Reconcile(source, deleted)
          /\ deleted = {} \/ \E s \in healthy : Deletable(s) /\ deleted = {s}
  BY DEF ReconcileSome
<1>1. PICK deleted \in SUBSET healthy :
        Reconcile(source, deleted) /\ (deleted = {} \/ \E s \in healthy : Deletable(s) /\ deleted = {s})
  BY <1>0
<1>2. /\ UNCHANGED <<exists, latest, gen, primary, assigned, onDisk, content, promise, overtaken,
                     doomed, missing, request, healthy>>
      /\ jobs \subseteq jobs'
      /\ \A j \in jobs' \ jobs :
            \/ UpdateSources # {} /\ \E t \in Outdated : j = NewJob("update", source[t], t)
            \/ \E s \in deleted : j = NewJob("delete_replica", NoStorage, s)
      /\ jobs' # jobs \/ Outdated # {} \/ deleted # {}
  BY <1>1 DEF Reconcile, tables, disks, history
<1>3. Outdated \subseteq Storages /\ (Outdated # {} => exists) /\ UpdateSources \subseteq Storages
  BY DEF Outdated, Hosts, UpdateSources, UpToDate, StoreInv, StoreTypeOK
<1>4. deleted \subseteq Storages /\ (deleted # {} => exists)
  BY <1>1 DEF Deletable, StoreInv, StoreTypeOK, UpToDate
<1>5. exists
  BY <1>1, <1>3, <1>4 DEF Reconcile
<1>6. \A j \in jobs' \ jobs :
              /\ j \in Job /\ j.pc = "ready" /\ j.gen = Unknown
              /\ j.change = "update" => j.source \in Storages
              /\ j.change = "delete_replica" => j.target \in deleted
  <2> SUFFICES ASSUME NEW j \in jobs' \ jobs
               PROVE  /\ j \in Job /\ j.pc = "ready" /\ j.gen = Unknown
                      /\ j.change = "update" => j.source \in Storages
                      /\ j.change = "delete_replica" => j.target \in deleted
    OBVIOUS
  <2>1. CASE UpdateSources # {} /\ \E t \in Outdated : j = NewJob("update", source[t], t)
    <3>1. PICK t \in Outdated : j = NewJob("update", source[t], t)
      BY <2>1
    <3>2. source[t] \in Storages
      BY <1>3, <2>1
    <3> QED
      BY <1>3, <3>1, <3>2, NewJobIs
  <2>2. CASE \E s \in deleted : j = NewJob("delete_replica", NoStorage, s)
    <3>1. PICK s \in deleted : j = NewJob("delete_replica", NoStorage, s)
      BY <2>2
    <3>2. s \in Storages
      BY <1>4
    <3>3. /\ j \in Job /\ j.pc = "ready" /\ j.gen = Unknown
          /\ j.change = "delete_replica" /\ j.target = s
      BY <3>1, <3>2 DEF NewJob, Job, Generation, Unknown
    <3> QED
      BY <3>3
  <2> QED
    BY <1>2, <2>1, <2>2
<1>7. Deleted' \subseteq Deleted \union deleted
  BY <1>6, DeletedAre
<1>8. ASSUME ~overtaken
      PROVE  UpToDate \ Deleted' # {}
  <2>1. PICK w : w \in UpToDate \ Deleted
    BY <1>5, <1>8 DEF StoreInv, LatestIsKept, Deleted
  <2>2. CASE w \notin deleted
    BY <1>7, <2>1, <2>2
  <2>3. CASE w \in deleted
    <3>1. Deletable(w) /\ deleted = {w}
      BY <1>1, <2>3
    <3>2. PICK x \in assigned : x # w /\ gen[w] <= gen[x]
      BY <3>1 DEF Deletable, StoreInv, StoreTypeOK
    <3>3. x \in Storages /\ gen[x] \in Generation /\ gen[x] <= latest /\ latest \in Generation
      BY DEF StoreInv, StoreTypeOK, NoneBeyondLatest
    <3>4. gen[x] = latest
      BY <2>1, <3>2, <3>3 DEF UpToDate, Generation, Unknown
    <3>5. x \notin Deleted
      BY <3>1, DeletedAre DEF Deletable, OfChange
    <3>6. x \in UpToDate /\ x \notin Deleted'
      BY <1>5, <1>7, <3>1, <3>2, <3>3, <3>4, <3>5 DEF UpToDate
    <3> QED
      BY <3>6
  <2> QED
    BY <2>2, <2>3
<1>9. /\ request' \in [Requests -> Request]
      /\ \A x \in Requests : request'[x].pc \notin {"idle", "done"} =>
            request'[x].primary \in Storages
  BY <1>2 DEF StoreInv, StoreTypeOK
<1> QED
  BY <1>2, <1>5, <1>6, <1>8, <1>9, NewJobsKeep

\* The jobs that are left when one is completed.
LEMMA CompleteIs ==
    ASSUME NEW j \in jobs, Complete(j)
    PROVE  /\ jobs' \subseteq jobs \ {j}
           /\ \A k \in jobs \ jobs' : k = j \/ (k.pc = "ready" /\ k.change = j.change
                                                /\ k.target = j.target)
BY DEF Complete

\* Jobs that replace job j, or that go, and that put no generation in the database.
LEMMA WorkKeeps ==
    ASSUME StoreInv, NEW j \in jobs,
           UNCHANGED <<exists, latest, gen, primary, assigned, onDisk, content, promise, overtaken,
                       doomed, missing, request, healthy>>,
           \/ jobs' \subseteq jobs \ {j}
           \/ \E k \in Job :
                /\ jobs' = (jobs \ {j}) \union {k}
                /\ k.change = j.change /\ k.source = j.source /\ k.target = j.target
                /\ k.pc # "removed" /\ k.gen <= latest
                /\ k.pc = "ready" \/
                     /\ j.change = "update" /\ k.pc = "read"
                     /\ gen[k.target] = Unknown \/ gen[k.target] < k.gen
                     /\ \A x \in jobs : x.target = k.target => x.pc = "ready",
           \A k \in jobs : k.change = "delete_replica" /\ k # j => k \in jobs',
           j.change = "delete_replica" => \E k \in jobs' : k.change = j.change /\ k.target = j.target
    PROVE  StoreInv'
<1>1. jobs \subseteq Job /\ jobs # {}
  BY DEF StoreInv, StoreTypeOK
<1>2. PICK k : /\ jobs' \subseteq (jobs \ {j}) \union {k}
               /\ k \in jobs' =>
                    k \in jobs \/
                    /\ k \in Job
                    /\ k.change = j.change /\ k.source = j.source /\ k.target = j.target
                    /\ k.pc # "removed" /\ k.gen <= latest
                    /\ k.pc = "ready" \/
                         /\ j.change = "update" /\ k.pc = "read"
                         /\ gen[k.target] = Unknown \/ gen[k.target] < k.gen
                         /\ \A x \in jobs : x.target = k.target => x.pc = "ready"
  OBVIOUS
<1>3. StoreTypeOK'
  <2>1. jobs' \subseteq Job
    BY <1>1, <1>2
  <2>2. \A x \in jobs' : IF x.change = "update"
                         THEN x.source \in Storages /\ x.pc # "removed"
                         ELSE x.pc \in {"ready", "removed"}
    BY <1>2 DEF StoreInv, StoreTypeOK
  <2> QED
    BY <2>1, <2>2 DEF StoreInv, StoreTypeOK
<1>4. \A x \in jobs' : x.gen <= latest
  BY <1>2 DEF StoreInv, NoneBeyondLatest
<1>5. OneJobPerTarget'
  BY <1>2 DEF StoreInv, OneJobPerTarget
<1>6. \A x \in jobs' : x.pc \in {"read", "copied"} =>
              x \in jobs \/ (x.pc = "read" /\ (gen[x.target] = Unknown \/ gen[x.target] < x.gen))
  BY <1>2
<1>7. Deleted' \subseteq Deleted
  BY <1>2, DeletedAre
<1>8. Deleted \subseteq Deleted'
  BY DeletedAre
<1>9. exists /\ ~overtaken => UpToDate \ Deleted' # {}
  BY <1>7 DEF StoreInv, LatestIsKept, Deleted
<1>10. latest # Unknown
  BY <1>1 DEF StoreInv, CreatedOnce
<1>11. \A r \in Requests : request'[r].pc = "applied" => request'[r] = request[r]
  OBVIOUS
<1> QED
  BY <1>3, <1>4, <1>5, <1>6, <1>8, <1>9, <1>10, <1>11, QuietKeeps

\* A job goes on only if its target is older than what it has read.
LEMMA GetReplicatedGenerationKeeps ==
    ASSUME StoreInv, NEW j \in jobs, GetReplicatedGeneration(j)
    PROVE  StoreInv'
<1>1. /\ UNCHANGED <<exists, latest, gen, primary, assigned, onDisk, content, promise, overtaken,
                     doomed, missing, request, healthy>>
      /\ j \in Job /\ j.change = "update" /\ j.source \in Storages
  BY DEF GetReplicatedGeneration, tables, disks, history, StoreInv, StoreTypeOK
<1>2. CASE DowngradeAttempted(j)
  <2>1. Complete(j)
    BY <1>2 DEF GetReplicatedGeneration
  <2>2. /\ jobs' \subseteq jobs \ {j}
        /\ \A k \in jobs : k.change = "delete_replica" /\ k # j => k \in jobs'
    BY <1>1, <2>1, CompleteIs
  <2> QED
    BY <1>1, <2>2, WorkKeeps
<1>3. CASE ~DowngradeAttempted(j)
  <2>1. gen[j.source] \in Generation /\ gen[j.target] \in Generation /\ gen[j.source] <= latest
    BY <1>1 DEF StoreInv, StoreTypeOK, NoneBeyondLatest, Job
  <2>2. PICK k : k = [j EXCEPT !.pc = "read", !.gen = gen[j.source]]
    OBVIOUS
  <2>3. /\ k \in Job /\ k.change = j.change /\ k.source = j.source /\ k.target = j.target
        /\ k.pc = "read" /\ k.gen = gen[j.source]
    BY <1>1, <2>1, <2>2 DEF Job
  <2>4. gen[k.target] = Unknown \/ gen[k.target] < k.gen
    BY <1>3, <2>1, <2>3 DEF DowngradeAttempted, Generation, Unknown
  <2>5. \A x \in jobs : x.target = k.target => x.pc = "ready"
    BY <2>3 DEF GetReplicatedGeneration, Takes
  <2>6. jobs' = (jobs \ {j}) \union {k}
    BY <1>3, <2>2 DEF GetReplicatedGeneration
  <2> QED
    BY <1>1, <2>1, <2>3, <2>4, <2>5, <2>6, WorkKeeps
<1> QED
  BY <1>2, <1>3

\* A job that fails is ready again or dead; a deletion is never lost.
LEMMA JobFailsKeeps ==
    ASSUME StoreInv, NEW j \in jobs, JobFails(j)
    PROVE  StoreInv'
<1>1. /\ UNCHANGED <<exists, latest, gen, primary, assigned, onDisk, content, promise, overtaken,
                     doomed, missing, request, healthy>>
      /\ j \in Job
  BY DEF JobFails, tables, disks, history, StoreInv, StoreTypeOK
<1>2. PICK k : k = [j EXCEPT !.pc = "ready", !.gen = Unknown]
  OBVIOUS
<1>3. /\ k \in Job /\ k.change = j.change /\ k.source = j.source /\ k.target = j.target
      /\ k.pc = "ready" /\ k.gen = Unknown
  BY <1>1, <1>2 DEF Job, Generation
<1>4. k.gen <= latest
  BY <1>3 DEF StoreInv, StoreTypeOK, Generation, Unknown
<1>5. jobs' = (jobs \ {j}) \union {k} \/ (j.change = "update" /\ jobs' = jobs \ {j})
  BY <1>2 DEF JobFails
<1> QED
  BY <1>1, <1>3, <1>4, <1>5, WorkKeeps

-----------------------------------------------------------------------------
(* Writes *)

\* The repository is created before there are jobs, requests or recorded writes.
LEMMA CreateKeeps ==
    ASSUME StoreInv, NEW p \in Storages, NEW U \in SUBSET Storages, NEW O \in SUBSET Storages,
           NEW a \in BOOLEAN, CreateRepository(p, U, O, a)
    PROVE  StoreInv'
<1>1. /\ ~exists /\ latest = Unknown /\ jobs = {} /\ promise = {} /\ doomed = {}
      /\ \A r \in Requests : request[r].pc = "idle"
  BY DEF StoreInv, CreatedOnce, CreateRepository
<1>2. /\ exists' = TRUE /\ latest' = 0 /\ primary' = p /\ onDisk' = U \union {p}
      /\ gen' = [s \in Storages |-> IF s \in U \union {p} THEN 0 ELSE Unknown]
      /\ assigned' \subseteq Storages
      /\ UNCHANGED <<content, healthy, request, missing, doomed, promise, overtaken>>
  BY DEF CreateRepository, history
<1>3. \A j \in jobs' : \E t \in Storages : j = NewJob("update", p, t)
  BY <1>1 DEF CreateRepository, Enqueue
<1>4. \A j \in jobs' : /\ j \in Job /\ j.pc = "ready" /\ j.gen = Unknown
                       /\ j.source \in Storages /\ j.change = "update"
  BY <1>3, NewJobIs
<1>5. StoreTypeOK'
  <2>1. gen' \in [Storages -> Generation] /\ latest' \in Generation
    BY <1>2 DEF Generation, Unknown
  <2> QED
    BY <1>2, <1>4, <2>1 DEF StoreInv, StoreTypeOK
<1>6. CreatedOnce'
  BY <1>1, <1>2 DEF CreatedOnce, Unknown
<1>7. NoneBeyondLatest'
  BY <1>2, <1>4 DEF NoneBeyondLatest, Unknown
<1>8. OneJobPerTarget' /\ JobsBringNewer'
  BY <1>4 DEF OneJobPerTarget, JobsBringNewer
<1>9. RecordedIsOnDisk'
  BY <1>2 DEF RecordedIsOnDisk
<1>10. AppliedIsOnDisk'
  BY <1>1, <1>2 DEF AppliedIsOnDisk
<1>11. LatestOnDiskHasWrites'
  BY <1>1, <1>2 DEF LatestOnDiskHasWrites
<1>12. LatestIsKept'
  <2>1. p \in UpToDate'
    BY <1>2 DEF UpToDate
  <2>2. p \notin Deleted'
    BY <1>4, DeletedAre
  <2> QED
    BY <2>1, <2>2 DEF LatestIsKept, Deleted
<1> QED
  BY <1>5, <1>6, <1>7, <1>8, <1>9, <1>10, <1>11, <1>12 DEF StoreInv

\* A request writes to disks, and no disk loses anything.
LEMMA ApplyKeeps ==
    ASSUME StoreInv, NEW r \in Requests, NEW U \in SUBSET Storages, Apply(r, U)
    PROVE  StoreInv'
<1>1. /\ StoreTypeOK /\ request[r] \in Request /\ request[r].pc = "routed"
      /\ request[r].primary \in Storages
  BY DEF StoreInv, StoreTypeOK, Apply
<1>2. /\ UNCHANGED <<exists, latest, gen, primary, assigned, onDisk, promise, overtaken, doomed,
                     jobs, missing, healthy>>
      /\ \A s \in Storages : content[s] \subseteq content'[s]
      /\ \A s \in U \union {request[r].primary} : r \in content'[s]
      /\ content' \in [Storages -> SUBSET Requests]
  BY <1>1 DEF Apply, tables, history, StoreTypeOK
<1>3. PICK q : q = [request[r] EXCEPT !.pc = "applied", !.updated = U,
                            !.outdated = request[r].outdated \union (request[r].updated \ U)]
  OBVIOUS
<1>4. request[r].outdated \union (request[r].updated \ U) \in SUBSET Storages
  BY <1>1 DEF Request
<1>5. /\ q \in Request /\ q.pc = "applied" /\ q.updated = U
      /\ q.primary = request[r].primary
  BY <1>1, <1>3, <1>4 DEF Request
<1>6. Set(r, q)
  BY <1>3 DEF Apply
<1>7. /\ request' \in [Requests -> Request] /\ request'[r] = q
      /\ \A x \in Requests : x # r => request'[x] = request[x]
      /\ \A x \in Requests : request'[x].pc \notin {"idle", "done"} =>
            request'[x].primary \in Storages
  BY <1>1, <1>5, <1>6, SetRequest
<1>8. StoreTypeOK'
  BY <1>1, <1>2, <1>7 DEF StoreTypeOK
<1>9. latest # Unknown
  BY <1>1 DEF StoreInv, CreatedOnce
<1>10. CreatedOnce' /\ NoneBeyondLatest' /\ OneJobPerTarget'
  BY <1>2, <1>9 DEF StoreInv, CreatedOnce, NoneBeyondLatest, OneJobPerTarget
<1>11. UpToDate' = UpToDate /\ Targets("delete_replica")' = Targets("delete_replica")
  BY <1>2 DEF UpToDate, Targets, OfChange
<1>12. RecordedIsOnDisk' /\ LatestIsKept'
  BY <1>2, <1>11 DEF StoreInv, RecordedIsOnDisk, LatestIsKept
<1>13. JobsBringNewer'
  BY <1>1, <1>2 DEF StoreInv, JobsBringNewer, StoreTypeOK, Job
<1>14. LatestOnDiskHasWrites'
  BY <1>2, <1>11 DEF StoreInv, LatestOnDiskHasWrites, UpToDate
<1>15. AppliedIsOnDisk'
  <2> SUFFICES ASSUME ~overtaken, NEW x \in Requests, request'[x].pc = "applied",
                      NEW s \in request'[x].updated \union {request'[x].primary}, s \in onDisk
               PROVE  x \in content'[s]
    BY <1>2 DEF AppliedIsOnDisk
  <2>1. CASE x = r
    BY <1>2, <1>5, <1>7, <2>1
  <2>2. CASE x # r
    <3>1. request'[x] = request[x]
      BY <1>7, <2>2
    <3>2. s \in Storages /\ x \in content[s]
      BY <1>1, <3>1 DEF StoreInv, AppliedIsOnDisk, StoreTypeOK
    <3> QED
      BY <1>2, <3>2
  <2> QED
    BY <2>1, <2>2
<1> QED
  BY <1>8, <1>10, <1>12, <1>13, <1>14, <1>15 DEF StoreInv

\* The generation of a replica that is incremented grows beyond every job's: the
\* target of a running job is none, since what the job brings is newer.
LEMMA IncrementGenerationKeeps ==
    ASSUME StoreInv, NEW r \in Requests, IncrementGeneration(r), Incremented(request[r]) # {}
    PROVE  StoreInv'
<1>1. /\ StoreTypeOK /\ request[r] \in Request /\ request[r].pc = "applied"
      /\ request[r].primary \in Storages
  BY DEF StoreInv, StoreTypeOK, IncrementGeneration
<1>2. PICK I \in SUBSET UpToDate :
        /\ I # {} /\ I \subseteq request[r].updated \union {request[r].primary}
        /\ gen' = [s \in Storages |-> IF s \in I THEN gen[s] + 1 ELSE gen[s]]
        /\ overtaken' = (overtaken \/ I \subseteq Deleted)
  BY DEF IncrementGeneration, Incremented, Deleted
<1>3. /\ latest' = latest + 1 /\ promise' = promise \union {r}
      /\ UNCHANGED <<exists, primary, assigned, jobs, onDisk, content, healthy, missing, doomed>>
      /\ Set(r, [request[r] EXCEPT !.pc = "recorded"])
  BY DEF IncrementGeneration, disks
<1>4. exists /\ latest \in Nat /\ I \subseteq Storages /\ \A s \in I : gen[s] = latest
  BY <1>1, <1>2 DEF UpToDate, StoreInv, CreatedOnce, StoreTypeOK, Generation
<1>5. \A s \in Storages : gen'[s] = IF s \in I THEN latest + 1 ELSE gen[s]
  BY <1>2, <1>4
<1>6. \A s \in Storages : gen[s] \in Generation /\ gen[s] <= latest
  BY <1>1 DEF StoreInv, NoneBeyondLatest, StoreTypeOK
<1>7. PICK q : q = [request[r] EXCEPT !.pc = "recorded"]
  OBVIOUS
<1>8. q \in Request /\ q.pc = "recorded" /\ q.primary = request[r].primary
  BY <1>1, <1>7 DEF Request
<1>9. /\ request' \in [Requests -> Request] /\ request'[r] = q
      /\ \A x \in Requests : x # r => request'[x] = request[x]
      /\ \A x \in Requests : request'[x].pc \notin {"idle", "done"} =>
            request'[x].primary \in Storages
  BY <1>1, <1>3, <1>7, <1>8, SetRequest
<1>10. StoreTypeOK'
  <2>1. gen' \in [Storages -> Generation]
    BY <1>2, <1>4, <1>6 DEF Generation
  <2>2. latest' \in Generation /\ overtaken' \in BOOLEAN
    BY <1>1, <1>2, <1>3, <1>4 DEF Generation, StoreTypeOK
  <2> QED
    BY <1>1, <1>3, <1>9, <2>1, <2>2 DEF StoreTypeOK
<1>11. CreatedOnce'
  BY <1>3, <1>4 DEF StoreInv, CreatedOnce, Unknown
<1>12. \A j \in jobs : j \in Job /\ j.gen \in Generation /\ j.gen <= latest /\ j.target \in Storages
  BY <1>1 DEF StoreInv, NoneBeyondLatest, StoreTypeOK, Job
<1>13. NoneBeyondLatest'
  BY <1>3, <1>4, <1>5, <1>6, <1>12 DEF NoneBeyondLatest, Generation, Unknown
<1>14. OneJobPerTarget'
  BY <1>3 DEF StoreInv, OneJobPerTarget
<1>15. Targets("delete_replica")' = Targets("delete_replica")
  BY <1>3 DEF Targets, OfChange
<1>16. RecordedIsOnDisk'
  BY <1>3, <1>4, <1>5, <1>15 DEF StoreInv, RecordedIsOnDisk, Unknown
<1>17. JobsBringNewer'
  <2> SUFFICES ASSUME NEW j \in jobs
               PROVE  /\ exists /\ j.pc = "copied" => j.target \in onDisk
                      /\ ~overtaken' /\ j.pc \in {"read", "copied"} =>
                            gen'[j.target] = Unknown \/ gen'[j.target] < j.gen
                      /\ j.gen # latest'
    BY <1>3 DEF JobsBringNewer
  <2>1. j.gen # latest' /\ j.gen \in Generation
    BY <1>3, <1>4, <1>12 DEF Generation, Unknown
  <2>2. exists /\ j.pc = "copied" => j.target \in onDisk
    BY DEF StoreInv, JobsBringNewer
  <2>3. ASSUME ~overtaken', j.pc \in {"read", "copied"}
        PROVE  gen'[j.target] = Unknown \/ gen'[j.target] < j.gen
    <3>1. gen[j.target] = Unknown \/ gen[j.target] < j.gen
      BY <1>2, <2>3 DEF StoreInv, JobsBringNewer
    <3>2. gen[j.target] # latest
      BY <1>4, <1>6, <1>12, <3>1 DEF Generation, Unknown
    <3> QED
      BY <1>4, <1>5, <1>12, <3>1, <3>2
  <2> QED
    BY <2>1, <2>2, <2>3
<1>18. AppliedIsOnDisk'
  BY <1>2, <1>3, <1>8, <1>9 DEF StoreInv, AppliedIsOnDisk
<1>19. UpToDate' = I
  <2>1. \A s \in Storages : gen'[s] = latest' <=> s \in I
    BY <1>3, <1>4, <1>5, <1>6 DEF Generation, Unknown
  <2> QED
    BY <1>3, <1>4, <2>1 DEF UpToDate
<1>20. LatestOnDiskHasWrites'
  BY <1>1, <1>2, <1>3, <1>4, <1>19 DEF StoreInv, LatestOnDiskHasWrites, AppliedIsOnDisk
<1>21. LatestIsKept'
  BY <1>2, <1>15, <1>19 DEF LatestIsKept, Deleted
<1> QED
  BY <1>10, <1>11, <1>13, <1>14, <1>16, <1>17, <1>18, <1>20, <1>21 DEF StoreInv

-----------------------------------------------------------------------------
(* Records and replicas that go *)

\* Steps that only delete records, keep one of the latest generation without a
\* deletion job, and end a deletion job with its target's record.
LEMMA RecordsGoKeeps ==
    ASSUME StoreInv, StoreTypeOK', UNCHANGED <<latest, onDisk, content, promise, request>>,
           exists' => exists /\ doomed' = {}, latest = Unknown => doomed' = {},
           overtaken => overtaken',
           \A x \in Storages : gen'[x] = Unknown \/ gen'[x] = gen[x],
           jobs' \subseteq jobs,
           \A k \in jobs \ jobs' : k.change = "delete_replica" => gen'[k.target] = Unknown,
           exists' /\ ~overtaken' => \E w \in UpToDate \ Deleted : gen'[w] = gen[w]
    PROVE  StoreInv'
<1>1. CreatedOnce'
  BY DEF StoreInv, CreatedOnce
<1>2. latest \in Generation /\ (exists => latest # Unknown)
  BY DEF StoreInv, StoreTypeOK, CreatedOnce
<1>3. NoneBeyondLatest'
  BY <1>2 DEF StoreInv, NoneBeyondLatest, Generation, Unknown
<1>4. OneJobPerTarget'
  BY DEF StoreInv, OneJobPerTarget
<1>5. RecordedIsOnDisk'
  <2> SUFFICES ASSUME exists', NEW s \in Storages, gen'[s] # Unknown, s \notin onDisk
               PROVE  s \in Deleted'
    BY DEF RecordedIsOnDisk, Deleted
  <2>1. s \in Deleted
    BY DEF StoreInv, RecordedIsOnDisk, Deleted
  <2> QED
    BY <2>1, DeletedAre
<1>6. JobsBringNewer'
  BY DEF StoreInv, JobsBringNewer, StoreTypeOK, Job
<1>7. AppliedIsOnDisk'
  BY DEF StoreInv, AppliedIsOnDisk
<1>8. exists' => UpToDate' \subseteq UpToDate
  BY <1>2 DEF UpToDate
<1>9. LatestOnDiskHasWrites'
  BY <1>8 DEF StoreInv, LatestOnDiskHasWrites
<1>10. LatestIsKept'
  <2> SUFFICES ASSUME exists', ~overtaken'
               PROVE  \E w : w \in UpToDate' /\ w \notin Deleted'
    BY DEF LatestIsKept, Deleted
  <2>1. PICK w \in UpToDate \ Deleted : gen'[w] = gen[w]
    OBVIOUS
  <2>2. w \in UpToDate'
    BY <2>1 DEF UpToDate
  <2>3. w \notin Deleted'
    BY <2>1, DeletedAre
  <2> QED
    BY <2>2, <2>3
<1> QED
  BY <1>1, <1>3, <1>4, <1>5, <1>6, <1>7, <1>9, <1>10 DEF StoreInv

\* The source of the job does not have the repository, and with its record it must
\* have a deletion job: another replica is kept.
LEMMA InvalidSourceKeeps ==
    ASSUME StoreInv, NEW j \in jobs, ReplicateRepository(j), j.source \notin onDisk
    PROVE  StoreInv'
<1>1. /\ UNCHANGED <<latest, onDisk, content, promise, request, doomed, missing, healthy>>
      /\ DeleteInvalidRepository(j.source) /\ Complete(j) /\ j.pc = "read"
      /\ overtaken' = overtaken
  BY DEF ReplicateRepository, Returned, Overwrites, disks, DeleteInvalidRepository, StoreInv,
         StoreTypeOK
<1>2. StoreTypeOK /\ j.change = "update" /\ j.source \in Storages /\ latest # Unknown
  BY <1>1 DEF StoreInv, StoreTypeOK, CreatedOnce, Job
<1>3. /\ gen' = [gen EXCEPT ![j.source] = Unknown]
      /\ exists' => exists
      /\ exists' \in BOOLEAN /\ primary' \in Storages \union {NoStorage}
      /\ assigned' \subseteq Storages
  BY <1>1, <1>2 DEF DeleteInvalidRepository, StoreTypeOK
<1>4. /\ jobs' \subseteq jobs
      /\ \A k \in jobs \ jobs' : k.change = "update"
  BY <1>1, <1>2, CompleteIs
<1>5. StoreTypeOK'
  <2>1. gen' \in [Storages -> Generation]
    BY <1>2, <1>3 DEF StoreTypeOK, Generation
  <2> QED
    BY <1>1, <1>2, <1>3, <1>4, <2>1 DEF StoreTypeOK
<1>6. \A x \in Storages : gen'[x] = IF x = j.source THEN Unknown ELSE gen[x]
  BY <1>2, <1>3 DEF StoreTypeOK
<1>7. ASSUME exists', ~overtaken'
      PROVE  \E w \in UpToDate \ Deleted : gen'[w] = gen[w]
  <2>1. PICK w : w \in UpToDate \ Deleted
    BY <1>1, <1>3, <1>7 DEF StoreInv, LatestIsKept, Deleted
  <2>2. w \in Storages /\ w \in onDisk
    BY <1>2, <2>1 DEF StoreInv, RecordedIsOnDisk, Deleted, UpToDate
  <2> QED
    BY <1>6, <2>1, <2>2
<1>8. exists' => doomed' = {}
  BY <1>1, <1>3 DEF StoreInv, CreatedOnce
<1> QED
  BY <1>1, <1>2, <1>3, <1>4, <1>5, <1>6, <1>7, <1>8, RecordsGoKeeps

\* The record of a deletion job's target is not the one that is kept.
LEMMA DeleteReplicaKeeps ==
    ASSUME StoreInv, NEW j \in jobs, DeleteReplica(j)
    PROVE  StoreInv'
<1>1. /\ UNCHANGED <<exists, latest, primary, assigned, onDisk, content, promise, overtaken,
                     request, doomed, missing, healthy>>
      /\ Complete(j) /\ j.pc = "removed" /\ gen' = [gen EXCEPT ![j.target] = Unknown]
  BY DEF DeleteReplica, disks, history
<1>2. StoreTypeOK /\ j.change = "delete_replica" /\ j.target \in Storages /\ latest # Unknown
  BY <1>1 DEF StoreInv, StoreTypeOK, CreatedOnce, Job
<1>3. \A x \in Storages : gen'[x] = IF x = j.target THEN Unknown ELSE gen[x]
  BY <1>1, <1>2 DEF StoreTypeOK
<1>4. jobs' \subseteq jobs /\ \A k \in jobs \ jobs' : k.target = j.target
  BY <1>1, CompleteIs
<1>5. StoreTypeOK'
  <2>1. gen' \in [Storages -> Generation]
    BY <1>1, <1>2 DEF StoreTypeOK, Generation
  <2> QED
    BY <1>1, <1>2, <1>4, <2>1 DEF StoreTypeOK
<1>6. ASSUME exists', ~overtaken'
      PROVE  \E w \in UpToDate \ Deleted : gen'[w] = gen[w]
  <2>1. PICK w : w \in UpToDate \ Deleted
    BY <1>1, <1>6 DEF StoreInv, LatestIsKept, Deleted
  <2>2. w \in Storages /\ w # j.target
    BY <1>2, <2>1, DeletedAre DEF UpToDate
  <2> QED
    BY <1>3, <2>1, <2>2
<1>7. exists' => exists /\ doomed' = {}
  BY <1>1 DEF StoreInv, CreatedOnce
<1> QED
  BY <1>1, <1>2, <1>3, <1>4, <1>5, <1>6, <1>7, RecordsGoKeeps

\* The verifier deletes a record: the replica is not there, so it has a deletion
\* job, or it came back and the step is recorded as a race.
LEMMA UpdateMetadataKeeps ==
    ASSUME StoreInv, NEW s \in Storages, UpdateMetadata(s)
    PROVE  StoreInv'
<1>1. /\ UNCHANGED <<exists, latest, primary, assigned, onDisk, content, promise, request, doomed,
                     healthy, jobs>>
      /\ gen' = [gen EXCEPT ![s] = Unknown] /\ overtaken' = (overtaken \/ s \in onDisk)
      /\ missing' \subseteq missing /\ StoreTypeOK
  BY DEF UpdateMetadata, disks, StoreInv
<1>2. \A x \in Storages : gen'[x] = IF x = s THEN Unknown ELSE gen[x]
  BY <1>1 DEF StoreTypeOK
<1>3. StoreTypeOK'
  <2>1. gen' \in [Storages -> Generation] /\ overtaken' \in BOOLEAN
    BY <1>1 DEF StoreTypeOK, Generation
  <2> QED
    BY <1>1, <2>1 DEF StoreTypeOK
<1>4. ASSUME exists', ~overtaken'
      PROVE  \E w \in UpToDate \ Deleted : gen'[w] = gen[w]
  <2>1. PICK w : w \in UpToDate \ Deleted
    BY <1>1, <1>4 DEF StoreInv, LatestIsKept, Deleted
  <2>2. latest # Unknown
    BY <1>1, <1>4 DEF StoreInv, CreatedOnce
  <2>3. w \in Storages /\ w \in onDisk
    BY <1>1, <1>4, <2>1, <2>2 DEF StoreInv, RecordedIsOnDisk, Deleted, UpToDate
  <2> QED
    BY <1>1, <1>2, <1>4, <2>1, <2>3
<1>5. (exists' => exists /\ doomed' = {}) /\ (latest = Unknown => doomed' = {})
  BY <1>1 DEF StoreInv, CreatedOnce
<1> QED
  BY <1>1, <1>2, <1>3, <1>4, <1>5, RecordsGoKeeps

\* The repository goes as a whole.
LEMMA DeleteRepositoryKeeps ==
    ASSUME StoreInv, DeleteRepository
    PROVE  StoreInv'
<1>1. /\ UNCHANGED <<latest, jobs, onDisk, content, promise, overtaken, request, missing, healthy>>
      /\ exists /\ ~exists' /\ exists' \in BOOLEAN /\ assigned' = {} /\ primary' = NoStorage
      /\ gen' = [s \in Storages |-> Unknown] /\ doomed' \subseteq Storages
  BY DEF DeleteRepository, Command, disks, history
<1>2. StoreTypeOK'
  <2>1. gen' \in [Storages -> Generation]
    BY <1>1 DEF Generation
  <2> QED
    BY <1>1, <2>1 DEF StoreInv, StoreTypeOK
<1>3. latest # Unknown
  BY <1>1 DEF StoreInv, CreatedOnce
<1> QED
  BY <1>1, <1>2, <1>3, RecordsGoKeeps

\* Only the replicas of a deleted repository are doomed.
LEMMA RemoveDoomedKeeps ==
    ASSUME StoreInv, NEW s \in Storages, RemoveDoomed(s)
    PROVE  StoreInv'
<1>1. /\ UNCHANGED <<exists, latest, gen, primary, assigned, jobs, promise, overtaken, request,
                     missing, healthy>>
      /\ doomed # {} /\ doomed' \subseteq doomed /\ StoreTypeOK
      /\ \/ onDisk' = onDisk \ {s} /\ content' = [content EXCEPT ![s] = {}]
         \/ UNCHANGED <<onDisk, content>>
  BY DEF RemoveDoomed, RemoveRepository, tables, disks, history, StoreInv
<1>2. ~exists /\ latest # Unknown
  BY <1>1 DEF StoreInv, CreatedOnce
<1>3. StoreTypeOK'
  <2>1. content' \in [Storages -> SUBSET Requests] /\ onDisk' \subseteq Storages
    BY <1>1 DEF StoreTypeOK
  <2> QED
    BY <1>1, <2>1 DEF StoreTypeOK
<1>4. CreatedOnce' /\ RecordedIsOnDisk' /\ LatestOnDiskHasWrites' /\ LatestIsKept'
  BY <1>1, <1>2 DEF CreatedOnce, RecordedIsOnDisk, LatestOnDiskHasWrites, LatestIsKept
<1>5. NoneBeyondLatest' /\ OneJobPerTarget'
  BY <1>1 DEF StoreInv, NoneBeyondLatest, OneJobPerTarget
<1>6. JobsBringNewer'
  BY <1>1, <1>2 DEF StoreInv, JobsBringNewer
<1>7. \A x \in onDisk' : x \in onDisk /\ content'[x] = content[x]
  BY <1>1 DEF StoreTypeOK
<1>8. AppliedIsOnDisk'
  BY <1>1, <1>7 DEF StoreInv, AppliedIsOnDisk
<1> QED
  BY <1>3, <1>4, <1>5, <1>6, <1>8 DEF StoreInv

\* A replica goes from disk while its deletion job still has its record; the lock
\* of the target keeps other jobs away from it.
LEMMA RemoveReplicaKeeps ==
    ASSUME StoreInv, NEW j \in jobs, RemoveReplica(j)
    PROVE  StoreInv'
<1>1. /\ UNCHANGED <<exists, latest, gen, primary, assigned, promise, overtaken, request, missing,
                     healthy, doomed>>
      /\ onDisk' = onDisk \ {j.target} /\ content' = [content EXCEPT ![j.target] = {}]
      /\ jobs' = (jobs \ {j}) \union {[j EXCEPT !.pc = "removed"]}
      /\ j.change = "delete_replica" /\ StoreTypeOK
      /\ \A k \in jobs : k.target = j.target => k.pc = "ready"
  BY DEF RemoveReplica, RemoveRepository, Advance, Takes, tables, history, StoreInv
<1>2. j \in Job /\ latest # Unknown /\ j.gen <= latest
  BY <1>1 DEF StoreInv, StoreTypeOK, CreatedOnce, NoneBeyondLatest
<1>3. PICK k : k = [j EXCEPT !.pc = "removed"]
  OBVIOUS
<1>4. /\ k \in Job /\ k.change = "delete_replica" /\ k.target = j.target /\ k.gen = j.gen
      /\ k.pc = "removed"
  BY <1>1, <1>2, <1>3 DEF Job
<1>5. jobs' = (jobs \ {j}) \union {k}
  BY <1>1, <1>3
<1>6. StoreTypeOK'
  <2>1. content' \in [Storages -> SUBSET Requests] /\ onDisk' \subseteq Storages
    BY <1>1 DEF StoreTypeOK
  <2>2. jobs' \subseteq Job /\ \A x \in jobs' : IF x.change = "update"
                       THEN x.source \in Storages /\ x.pc # "removed"
                       ELSE x.pc \in {"ready", "removed"}
    BY <1>1, <1>4, <1>5 DEF StoreTypeOK
  <2> QED
    BY <1>1, <2>1, <2>2 DEF StoreTypeOK
<1>7. CreatedOnce'
  BY <1>1, <1>2 DEF StoreInv, CreatedOnce
<1>8. NoneBeyondLatest'
  BY <1>1, <1>2, <1>4, <1>5 DEF StoreInv, NoneBeyondLatest
<1>9. OneJobPerTarget'
  BY <1>1, <1>4, <1>5 DEF StoreInv, OneJobPerTarget
<1>10. \A x : x \in Deleted' <=> x \in Deleted
  BY <1>1, <1>4, <1>5, DeletedAre
<1>11. j.target \in Deleted
  BY <1>1, DeletedAre
<1>12. RecordedIsOnDisk'
  BY <1>1, <1>10, <1>11 DEF StoreInv, RecordedIsOnDisk, Deleted
<1>13. \A x \in Storages \ {j.target} : (x \in onDisk' <=> x \in onDisk) /\ content'[x] = content[x]
  BY <1>1 DEF StoreTypeOK
<1>14. JobsBringNewer'
  <2> SUFFICES ASSUME NEW x \in jobs'
               PROVE  /\ exists /\ x.pc = "copied" => x.target \in onDisk'
                      /\ ~overtaken /\ x.pc \in {"read", "copied"} =>
                            gen[x.target] = Unknown \/ gen[x.target] < x.gen
                      /\ exists /\ ~overtaken /\ x.pc = "copied" /\ x.gen = latest =>
                            promise \subseteq content'[x.target]
    BY <1>1 DEF JobsBringNewer
  <2>1. CASE x = k
    BY <1>4, <2>1
  <2>2. CASE x \in jobs
    <3>1. x.pc \in {"read", "copied"} => x.target \in Storages \ {j.target}
      BY <1>1, <2>2 DEF StoreTypeOK, Job
    <3> QED
      BY <1>13, <2>2, <3>1 DEF StoreInv, JobsBringNewer
  <2> QED
    BY <1>5, <2>1, <2>2
<1>15. AppliedIsOnDisk'
  BY <1>1, <1>13 DEF StoreInv, AppliedIsOnDisk, StoreTypeOK
<1>16. UpToDate' = UpToDate
  BY <1>1 DEF UpToDate
<1>17. LatestOnDiskHasWrites'
  BY <1>1, <1>13, <1>16 DEF StoreInv, LatestOnDiskHasWrites, StoreTypeOK
<1>18. LatestIsKept'
  BY <1>1, <1>10, <1>16 DEF StoreInv, LatestIsKept, Deleted
<1> QED
  BY <1>6, <1>7, <1>8, <1>9, <1>12, <1>14, <1>15, <1>17, <1>18 DEF StoreInv

-----------------------------------------------------------------------------
(* Replication *)

\* The target mirrors a source that has the repository.  The target does not have
\* the latest generation, and the source, unless it returned, still has what the
\* job has read.
LEMMA CopyKeeps ==
    ASSUME StoreInv, NEW j \in jobs, ReplicateRepository(j), j.source \in onDisk
    PROVE  StoreInv'
<1>1. /\ UNCHANGED <<exists, latest, gen, primary, assigned, promise, request, missing, healthy,
                     doomed>>
      /\ onDisk' = onDisk \union {j.target}
      /\ content' = [content EXCEPT ![j.target] = content[j.source]]
      /\ jobs' = (jobs \ {j}) \union {[j EXCEPT !.pc = "copied"]}
      /\ overtaken' = (overtaken \/ Returned(j) \/ \E r \in Requests : Overwrites(j, r))
      /\ j.pc = "read" /\ StoreTypeOK
  BY DEF ReplicateRepository, Advance, tables, StoreInv
<1>2. /\ j \in Job /\ latest # Unknown /\ j.gen <= latest
      /\ j.change = "update" /\ j.target \in Storages /\ j.source \in Storages
      /\ j.gen \in Generation /\ latest \in Generation
  BY <1>1 DEF StoreInv, StoreTypeOK, CreatedOnce, NoneBeyondLatest, Job
<1>3. PICK k : k = [j EXCEPT !.pc = "copied"]
  OBVIOUS
<1>4. /\ k \in Job /\ k.change = "update" /\ k.target = j.target /\ k.gen = j.gen
      /\ k.pc = "copied" /\ k.source \in Storages
  BY <1>1, <1>2, <1>3 DEF Job
<1>5. jobs' = (jobs \ {j}) \union {k}
  BY <1>1, <1>3
<1>6. StoreTypeOK'
  <2>1. content' \in [Storages -> SUBSET Requests] /\ onDisk' \subseteq Storages
    BY <1>1, <1>2 DEF StoreTypeOK
  <2>2. jobs' \subseteq Job /\ \A x \in jobs' : IF x.change = "update"
                       THEN x.source \in Storages /\ x.pc # "removed"
                       ELSE x.pc \in {"ready", "removed"}
    BY <1>1, <1>4, <1>5 DEF StoreTypeOK
  <2>3. overtaken' \in BOOLEAN
    BY <1>1 DEF StoreTypeOK, Returned, Overwrites
  <2> QED
    BY <1>1, <2>1, <2>2, <2>3 DEF StoreTypeOK
<1>7. CreatedOnce'
  BY <1>1, <1>2 DEF StoreInv, CreatedOnce
<1>8. NoneBeyondLatest'
  BY <1>1, <1>2, <1>4, <1>5 DEF StoreInv, NoneBeyondLatest
<1>9. OneJobPerTarget'
  BY <1>1, <1>4, <1>5 DEF StoreInv, OneJobPerTarget
<1>10. \A x : x \in Deleted' <=> x \in Deleted
  BY <1>2, <1>4, <1>5, DeletedAre
<1>11. RecordedIsOnDisk'
  BY <1>1, <1>10 DEF StoreInv, RecordedIsOnDisk, Deleted
<1>12. /\ \A x \in Storages \ {j.target} : (x \in onDisk' <=> x \in onDisk) /\ content'[x] = content[x]
       /\ content'[j.target] = content[j.source]
  BY <1>1, <1>2 DEF StoreTypeOK
<1>13. ~overtaken => gen[j.target] = Unknown \/ gen[j.target] < j.gen
  BY <1>1 DEF StoreInv, JobsBringNewer
<1>14. ASSUME exists, ~overtaken', j.gen = latest
       PROVE  promise \subseteq content[j.source]
  <2>1. gen[j.source] \in Generation /\ gen[j.source] <= latest /\ ~(gen[j.source] < latest)
    BY <1>1, <1>2, <1>14 DEF Returned, StoreInv, NoneBeyondLatest, StoreTypeOK
  <2>2. j.source \in UpToDate \intersect onDisk
    BY <1>2, <1>14, <2>1 DEF UpToDate, Generation, Unknown
  <2> QED
    BY <1>1, <1>14, <2>2 DEF StoreInv, LatestOnDiskHasWrites
<1>15. JobsBringNewer'
  <2> SUFFICES ASSUME NEW x \in jobs'
               PROVE  /\ exists /\ x.pc = "copied" => x.target \in onDisk'
                      /\ ~overtaken' /\ x.pc \in {"read", "copied"} =>
                            gen[x.target] = Unknown \/ gen[x.target] < x.gen
                      /\ exists /\ ~overtaken' /\ x.pc = "copied" /\ x.gen = latest =>
                            promise \subseteq content'[x.target]
    BY <1>1 DEF JobsBringNewer
  <2>1. CASE x = k
    BY <1>1, <1>4, <1>12, <1>13, <1>14, <2>1
  <2>2. CASE x \in jobs /\ x # j
    <3>1. x.pc \in {"read", "copied"} => x.target \in Storages \ {j.target}
      BY <1>1, <2>2 DEF StoreInv, OneJobPerTarget, StoreTypeOK, Job
    <3> QED
      BY <1>1, <1>12, <2>2, <3>1 DEF StoreInv, JobsBringNewer
  <2> QED
    BY <1>5, <2>1, <2>2
<1>16. AppliedIsOnDisk'
  <2> SUFFICES ASSUME ~overtaken', NEW r \in Requests, request[r].pc = "applied",
                      NEW s \in request[r].updated \union {request[r].primary}, s \in onDisk'
               PROVE  r \in content'[s]
    BY <1>1 DEF AppliedIsOnDisk
  <2>1. CASE s = j.target
    BY <1>1, <1>12, <2>1 DEF Overwrites
  <2>2. CASE s # j.target
    <3>1. s \in Storages
      BY <1>6 DEF StoreTypeOK
    <3> QED
      BY <1>1, <1>12, <2>2, <3>1 DEF StoreInv, AppliedIsOnDisk
  <2> QED
    BY <2>1, <2>2
<1>17. UpToDate' = UpToDate
  BY <1>1 DEF UpToDate
<1>18. LatestOnDiskHasWrites'
  <2> SUFFICES ASSUME exists, ~overtaken', NEW s \in UpToDate, s \in onDisk'
               PROVE  promise \subseteq content'[s]
    BY <1>1, <1>17 DEF LatestOnDiskHasWrites
  <2>1. s \in Storages /\ gen[s] = latest
    BY DEF UpToDate
  <2>2. s # j.target
    <3>1. gen[j.target] = Unknown \/ gen[j.target] < j.gen
      BY <1>1, <1>13
    <3> QED
      BY <1>2, <2>1, <3>1 DEF Generation, Unknown
  <2> QED
    BY <1>1, <1>12, <2>1, <2>2 DEF StoreInv, LatestOnDiskHasWrites
<1>19. LatestIsKept'
  BY <1>1, <1>10, <1>17 DEF StoreInv, LatestIsKept, Deleted
<1> QED
  BY <1>6, <1>7, <1>8, <1>9, <1>11, <1>15, <1>16, <1>18, <1>19 DEF StoreInv

\* A job brings what it has read: no more than the latest generation, and more
\* than the target has, which is therefore not the replica that is kept.
LEMMA SetGenerationKeeps ==
    ASSUME StoreInv, NEW j \in jobs, SetGeneration(j)
    PROVE  /\ StoreInv'
           /\ ~overtaken => \A s \in Storages : ~(gen'[s] < gen[s])
<1>1. /\ UNCHANGED <<exists, primary, assigned, onDisk, content, promise, overtaken, request,
                     missing, healthy, doomed>>
      /\ Complete(j) /\ j.pc = "copied" /\ StoreTypeOK
  BY DEF SetGeneration, disks, history, StoreInv
<1>2. /\ j \in Job /\ latest # Unknown /\ j.gen <= latest /\ j.gen \in Generation
      /\ latest \in Generation /\ j.change = "update" /\ j.target \in Storages
  BY <1>1 DEF StoreInv, StoreTypeOK, CreatedOnce, NoneBeyondLatest, Job
<1>3. jobs' \subseteq jobs \ {j} /\ \A k \in jobs \ jobs' : k.change = "update"
  BY <1>1, <1>2, CompleteIs
<1>4. \A s \in Storages : gen[s] \in Generation
  BY <1>1 DEF StoreTypeOK
<1>5. CASE ~SetsGeneration(j)
  <2>1. UNCHANGED <<gen, latest>>
    BY <1>5 DEF SetGeneration
  <2>2. \A s \in Storages : ~(gen'[s] < gen[s])
    BY <1>4, <2>1 DEF Generation, Unknown
  <2>3. \A k \in jobs : k.change = "delete_replica" => k \in jobs'
    BY <1>3
  <2>4. StoreInv'
    BY <1>1, <1>2, <1>3, <2>1, <2>3, WorkKeeps
  <2> QED
    BY <2>2, <2>4
<1>6. CASE SetsGeneration(j)
  <2>1. exists /\ gen' = [gen EXCEPT ![j.target] = j.gen] /\ latest' = latest
    BY <1>2, <1>6 DEF SetGeneration, SetsGeneration, Generation, Unknown
  <2>2. \A x \in Storages : gen'[x] = IF x = j.target THEN j.gen ELSE gen[x]
    BY <1>1, <2>1 DEF StoreTypeOK
  <2>3. /\ j.target \in onDisk
        /\ ~overtaken => gen[j.target] = Unknown \/ gen[j.target] < j.gen
        /\ ~overtaken /\ j.gen = latest => promise \subseteq content[j.target]
    BY <1>1, <2>1 DEF StoreInv, JobsBringNewer
  <2>4. StoreTypeOK'
    <3>1. gen' \in [Storages -> Generation]
      BY <1>1, <1>2, <2>1 DEF StoreTypeOK
    <3> QED
      BY <1>1, <1>3, <2>1, <3>1 DEF StoreTypeOK
  <2>5. CreatedOnce'
    BY <1>1, <1>2, <2>1 DEF StoreInv, CreatedOnce
  <2>6. NoneBeyondLatest' /\ OneJobPerTarget'
    BY <1>2, <1>3, <2>1, <2>2 DEF StoreInv, NoneBeyondLatest, OneJobPerTarget
  <2>7. \A x : x \in Deleted' <=> x \in Deleted
    BY <1>3, DeletedAre
  <2>8. RecordedIsOnDisk'
    BY <1>1, <2>1, <2>2, <2>3, <2>7 DEF StoreInv, RecordedIsOnDisk, Deleted
  <2>9. JobsBringNewer'
    <3>1. \A k \in jobs' : k.pc \in {"read", "copied"} =>
              /\ k \in jobs /\ k.target # j.target /\ k.target \in Storages
      BY <1>1, <1>3 DEF StoreInv, OneJobPerTarget, StoreTypeOK, Job
    <3> QED
      BY <1>1, <2>1, <2>2, <3>1 DEF StoreInv, JobsBringNewer
  <2>10. AppliedIsOnDisk'
    BY <1>1 DEF StoreInv, AppliedIsOnDisk
  <2>11. \A s \in UpToDate' : s \in UpToDate \/ (s = j.target /\ j.gen = latest)
    BY <1>1, <2>1, <2>2 DEF UpToDate
  <2>12. LatestOnDiskHasWrites'
    BY <1>1, <2>1, <2>3, <2>11 DEF StoreInv, LatestOnDiskHasWrites
  <2>13. ~overtaken => UpToDate \subseteq UpToDate'
    BY <1>1, <1>2, <2>1, <2>2, <2>3 DEF UpToDate, Generation, Unknown
  <2>14. LatestIsKept'
    BY <1>1, <2>7, <2>13 DEF StoreInv, LatestIsKept, Deleted
  <2>15. ~overtaken => \A s \in Storages : ~(gen'[s] < gen[s])
    BY <1>2, <1>4, <2>2, <2>3 DEF Generation, Unknown
  <2> QED
    BY <2>4, <2>5, <2>6, <2>8, <2>9, <2>10, <2>12, <2>14, <2>15 DEF StoreInv
<1> QED
  BY <1>5, <1>6

\* The operator's choice becomes the only replica with the latest generation.
LEMMA SetAuthoritativeReplicaKeeps ==
    ASSUME StoreInv, NEW s \in Storages, SetAuthoritativeReplica(s)
    PROVE  StoreInv'
<1>1. /\ UNCHANGED <<exists, primary, assigned, jobs, onDisk, content, request, missing, healthy,
                     doomed>>
      /\ exists /\ s \in onDisk /\ latest' = latest + 1
      /\ gen' = [gen EXCEPT ![s] = latest + 1] /\ promise' = content[s]
      /\ overtaken' = (overtaken \/ \E j \in jobs :
            j.target = s /\ (j.pc # "ready" \/ j.change = "delete_replica"))
      /\ StoreTypeOK
  BY DEF SetAuthoritativeReplica, Command, disks, StoreInv
<1>2. latest \in Nat /\ \A x \in Storages : gen[x] \in Generation /\ gen[x] <= latest
  BY <1>1 DEF StoreInv, CreatedOnce, StoreTypeOK, NoneBeyondLatest, Generation
<1>3. \A x \in Storages : gen'[x] = IF x = s THEN latest + 1 ELSE gen[x]
  BY <1>1 DEF StoreTypeOK
<1>4. StoreTypeOK'
  <2>1. gen' \in [Storages -> Generation] /\ latest' \in Generation
    BY <1>1, <1>2 DEF StoreTypeOK, Generation
  <2>2. overtaken' \in BOOLEAN /\ promise' \subseteq Requests
    BY <1>1 DEF StoreTypeOK
  <2> QED
    BY <1>1, <2>1, <2>2 DEF StoreTypeOK
<1>5. CreatedOnce'
  BY <1>1, <1>2 DEF StoreInv, CreatedOnce, Unknown
<1>6. \A j \in jobs : j.gen \in Generation /\ j.gen <= latest /\ j.target \in Storages
  BY <1>1 DEF StoreInv, NoneBeyondLatest, StoreTypeOK, Job
<1>7. NoneBeyondLatest'
  BY <1>1, <1>2, <1>3, <1>6 DEF NoneBeyondLatest, Generation, Unknown
<1>8. OneJobPerTarget'
  BY <1>1 DEF StoreInv, OneJobPerTarget
<1>9. Targets("delete_replica")' = Targets("delete_replica")
  BY <1>1 DEF Targets, OfChange
<1>10. RecordedIsOnDisk'
  BY <1>1, <1>3, <1>9 DEF StoreInv, RecordedIsOnDisk
<1>11. \A j \in jobs : j.gen # latest'
  BY <1>1, <1>2, <1>6 DEF Generation, Unknown
<1>12. JobsBringNewer'
  BY <1>1, <1>3, <1>6, <1>11 DEF StoreInv, JobsBringNewer
<1>13. AppliedIsOnDisk'
  BY <1>1 DEF StoreInv, AppliedIsOnDisk
<1>14. UpToDate' = {s}
  <2>1. \A x \in Storages : gen'[x] = latest' <=> x = s
    BY <1>1, <1>2, <1>3 DEF Generation, Unknown
  <2> QED
    BY <1>1, <2>1 DEF UpToDate
<1>15. LatestOnDiskHasWrites'
  BY <1>1, <1>14 DEF LatestOnDiskHasWrites
<1>16. LatestIsKept'
  <2>1. ~overtaken' => s \notin Deleted
    BY <1>1, DeletedAre
  <2> QED
    BY <1>9, <1>14, <2>1 DEF LatestIsKept, Deleted
<1> QED
  BY <1>4, <1>5, <1>7, <1>8, <1>10, <1>12, <1>13, <1>15, <1>16 DEF StoreInv

-----------------------------------------------------------------------------
(* The theorems *)

\* The empty store satisfies the invariant.
LEMMA StoreInitially == Init => StoreInv
<1> SUFFICES ASSUME Init PROVE StoreInv
  OBVIOUS
<1>1. \A r \in Requests : request[r] = NewRequest
  BY DEF Init
<1>2. NewRequest \in Request /\ NewRequest.pc = "idle"
  BY DEF NewRequest, Request
<1>3. StoreTypeOK
  BY <1>1, <1>2 DEF Init, StoreTypeOK, Generation
<1>4. CreatedOnce
  BY <1>1, <1>2 DEF Init, CreatedOnce
<1>5. NoneBeyondLatest /\ OneJobPerTarget /\ RecordedIsOnDisk /\ JobsBringNewer
  BY DEF Init, NoneBeyondLatest, OneJobPerTarget, RecordedIsOnDisk, JobsBringNewer, Unknown
<1>6. AppliedIsOnDisk
  BY <1>1, <1>2 DEF AppliedIsOnDisk
<1>7. LatestOnDiskHasWrites /\ LatestIsKept
  BY DEF Init, LatestOnDiskHasWrites, LatestIsKept
<1> QED
  BY <1>3, <1>4, <1>5, <1>6, <1>7 DEF StoreInv

\* Every step keeps it.
LEMMA StoreStepKeeps ==
    ASSUME StoreInv, [Next]_vars
    PROVE  StoreInv'
<1>1. CASE \E p \in Storages : \E U, O \in SUBSET Storages : \E a \in BOOLEAN :
              CreateRepository(p, U, O, a)
  BY <1>1, CreateKeeps
<1>2. ASSUME NEW r \in Requests, Step(r)
      PROVE  StoreInv'
  <2>1. CASE \/ RequestFails(r) \/ GetConsistentStorages(r) \/ GetHostAssignments(r)
             \/ IncrementGenerationFails(r) \/ \E p \in Storages : GetPrimary(r, p)
    BY <2>1, RoutingKeeps
  <2>2. CASE \E U \in SUBSET Storages : Apply(r, U)
    BY <2>2, ApplyKeeps
  <2>3. CASE IncrementGeneration(r)
    BY <2>3, IncrementGenerationKeeps, NothingIncrementedKeeps
  <2>4. CASE \E T \in SUBSET Storages : EnqueueJobs(r, T)
    BY <2>4, EnqueueJobsKeeps
  <2> QED
    BY <1>2, <2>1, <2>2, <2>3, <2>4 DEF Step
<1>3. CASE ReconcileSome
  BY <1>3, ReconcileKeeps
<1>4. ASSUME NEW j \in jobs, Work(j) \/ JobFails(j)
      PROVE  StoreInv'
  <2>1. CASE GetReplicatedGeneration(j)
    BY <2>1, GetReplicatedGenerationKeeps
  <2>2. CASE ReplicateRepository(j)
    BY <2>2, InvalidSourceKeeps, CopyKeeps
  <2>3. CASE SetGeneration(j)
    BY <2>3, SetGenerationKeeps
  <2>4. CASE RemoveReplica(j)
    BY <2>4, RemoveReplicaKeeps
  <2>5. CASE DeleteReplica(j)
    BY <2>5, DeleteReplicaKeeps
  <2>6. CASE JobFails(j)
    BY <2>6, JobFailsKeeps
  <2> QED
    BY <1>4, <2>1, <2>2, <2>3, <2>4, <2>5, <2>6 DEF Work
<1>5. ASSUME NEW s \in Storages, \/ Verify(s) \/ UpdateMetadata(s) \/ SetAuthoritativeReplica(s)
                                 \/ RemoveDoomed(s) \/ NodeFails(s) \/ NodeRecovers(s)
      PROVE  StoreInv'
  BY <1>5, SurroundingsKeep, UpdateMetadataKeeps, SetAuthoritativeReplicaKeeps, RemoveDoomedKeeps
<1>6. CASE \E A \in SUBSET Storages : SetReplicationFactor(A)
  BY <1>6, SurroundingsKeep
<1>7. CASE DeleteRepository
  BY <1>7, DeleteRepositoryKeeps
<1>8. CASE UNCHANGED vars
  BY <1>8, SurroundingsKeep
<1> QED
  BY <1>1, <1>2, <1>3, <1>4, <1>5, <1>6, <1>7, <1>8 DEF Next

\* The invariant holds in every state.
LEMMA StoreInvAlways == Spec => []StoreInv
<1>1. StoreInv /\ [Next]_vars => StoreInv'
  BY StoreStepKeeps
<1> QED
  BY <1>1, StoreInitially, PTL DEF Spec

\* A storage with the latest generation and no deletion job has every recorded
\* write on its disk, however requests, jobs, the reconciler, the verifier and the
\* operator interleave, unless one of the races has happened.
THEOREM LatestHasRecordedWritesCorrect == Spec => []LatestHasRecordedWrites
<1>1. StoreInv => LatestHasRecordedWrites
  <2> SUFFICES ASSUME StoreInv, ~overtaken, NEW s \in UpToDate \ Targets("delete_replica")
               PROVE  Holds(s)
    BY DEF LatestHasRecordedWrites
  <2>1. exists /\ s \in Storages /\ gen[s] = latest /\ latest # Unknown
    BY DEF UpToDate, StoreInv, CreatedOnce
  <2>2. s \in onDisk
    BY <2>1 DEF StoreInv, RecordedIsOnDisk
  <2> QED
    BY <2>1, <2>2 DEF Holds, StoreInv, LatestOnDiskHasWrites
<1> QED
  BY <1>1, StoreInvAlways, PTL

\* As long as the repository exists some replica holds the latest generation with
\* all recorded writes: deletion jobs and late SetGenerations never lose the last.
THEOREM LatestIsHeldCorrect == Spec => []LatestIsHeld
<1>1. StoreInv /\ LatestHasRecordedWrites => LatestIsHeld
  BY DEF StoreInv, LatestIsKept, LatestHasRecordedWrites, LatestIsHeld
<1> QED
  BY <1>1, StoreInvAlways, LatestHasRecordedWritesCorrect, PTL

\* No step lowers a replica's generation except by deleting its record: a job that
\* read an old generation never puts it over a newer one.
THEOREM NoDowngradeCorrect == Spec => NoDowngrade
<1>1. ASSUME StoreInv, [Next]_vars, NEW s \in Storages, gen'[s] < gen[s]
      PROVE  gen'[s] = Unknown \/ overtaken
  <2>1. gen[s] \in Generation /\ gen[s] <= latest /\ gen \in [Storages -> Generation]
    BY <1>1 DEF StoreInv, StoreTypeOK, NoneBeyondLatest
  <2>2. CASE UNCHANGED gen
    BY <1>1, <2>1, <2>2 DEF Generation, Unknown
  <2>3. CASE \E p \in Storages : \E U, O \in SUBSET Storages : \E a \in BOOLEAN :
              CreateRepository(p, U, O, a)
    BY <1>1, <2>1, <2>3 DEF CreateRepository, Generation, Unknown
  <2>4. CASE \E r \in Requests : IncrementGeneration(r)
    BY <1>1, <2>1, <2>4 DEF IncrementGeneration, Generation, Unknown
  <2>5. CASE \E j \in jobs : SetGeneration(j)
    BY <1>1, <2>5, SetGenerationKeeps
  <2>6. CASE \E x \in Storages : SetAuthoritativeReplica(x)
    BY <1>1, <2>1, <2>6 DEF SetAuthoritativeReplica, Generation, Unknown, StoreInv, StoreTypeOK
  <2>7. CASE \E x \in Storages \union {NoStorage} : gen' = [gen EXCEPT ![x] = Unknown]
    BY <1>1, <2>1, <2>7 DEF Generation, Unknown
  <2>8. CASE DeleteRepository
    BY <2>8 DEF DeleteRepository
  <2>9. ASSUME NEW j \in jobs
        PROVE  j.source \in Storages \union {NoStorage} /\ j.target \in Storages
    BY <1>1 DEF StoreInv, StoreTypeOK, Job
  <2>10. ASSUME NEW j \in jobs, Work(j) \/ JobFails(j)
         PROVE  gen'[s] = Unknown \/ overtaken
    BY <2>2, <2>5, <2>7, <2>9, <2>10 DEF Work, JobFails, GetReplicatedGeneration,
       ReplicateRepository, DeleteInvalidRepository, RemoveReplica, DeleteReplica, tables
  <2>11. ASSUME NEW r \in Requests, Step(r)
         PROVE  gen'[s] = Unknown \/ overtaken
    BY <2>2, <2>4, <2>11 DEF Step, RequestFails, GetPrimary, GetConsistentStorages,
       GetHostAssignments, Apply, IncrementGenerationFails, EnqueueJobs, tables
  <2>12. ASSUME NEW x \in Storages, Verify(x) \/ UpdateMetadata(x) \/ RemoveDoomed(x)
                                    \/ NodeFails(x) \/ NodeRecovers(x)
         PROVE  gen'[s] = Unknown \/ overtaken
    BY <2>2, <2>7, <2>12 DEF Verify, UpdateMetadata, RemoveDoomed, NodeFails, NodeRecovers, tables
  <2>13. CASE ReconcileSome \/ \E A \in SUBSET Storages : SetReplicationFactor(A)
    BY <2>2, <2>13 DEF ReconcileSome, Reconcile, SetReplicationFactor, tables
  <2>14. CASE UNCHANGED vars
    BY <2>2, <2>14 DEF vars, tables
  <2> QED
    BY <1>1, <2>3, <2>6, <2>8, <2>10, <2>11, <2>12, <2>13, <2>14 DEF Next
<1>2. StoreInv /\ [Next]_vars =>
        [\A s \in Storages : gen'[s] < gen[s] => gen'[s] = Unknown \/ overtaken]_vars
  BY <1>1
<1> QED
  BY <1>2, StoreInvAlways, PTL DEF Spec, NoDowngrade
=============================================================================
