# Gitaly Cluster, GitLab Runner and GitLab Pages in TLA+

The repository holds five programs: Gitaly with its cluster proxy Praefect, GitLab
Runner, GitLab Pages, GitLab Shell and the VS Code extension. This development
models the parts with the hardest state: what **Praefect** does to keep the replicas
of a repository alike (`src/gitaly-master/gitaly-master/internal/praefect`), the
**write-ahead log**, the **stream cache** and the **concurrency limiter** of a Gitaly
node, the job loop of **GitLab Runner** (`src/gitlab-runner-main/`) and the lookup cache
of **GitLab Pages** (`src/gitlab-pages-master/`). Paths below are relative to
`src/gitaly-master/gitaly-master/internal/` unless they start with `src/` or belong to
Runner or Pages.

## 1. Inventory

| Part | State it keeps | Operations | What makes it correct |
|---|---|---|---|
| Reference transactions (`praefect/transactions/`) | per transaction: open, canceled or stopped, and its subtransactions; per subtransaction: voters with vote and result, vote counts, the done channel | RegisterTransaction, VoteTransaction, StopTransaction, CancelTransactionNodeVoter, cancelTransaction | nodes that are told to commit agree, with the primary in the quorum; answers stay true; waiters are released |
| Coordinator and proxy (`praefect/coordinator.go`, `praefect/grpc-proxy/proxy/handler.go`) | per request: the streams, the error of each node, the route, the transaction | mutatorStreamParameters, the proxy's handler, error handlers, transaction finalizer, request finalizer | a replica recorded as up to date has what the primary has, and one that differs gets a replication job |
| Replication queue (`praefect/datastore/queue.go`) | events, a lock per repository and target, job locks with heartbeats | Enqueue, Dequeue, StartHealthUpdate, Acknowledge, AcknowledgeStale | one worker per repository and target; no event is lost or stuck |
| Replicator (`praefect/replicator.go`) | workers and the batch each is processing | processBacklog, handleNode, Replicate, Destroy, ProcessStale | what is recorded agrees with the target's disk; half-done work is finished |
| Repository store (`praefect/datastore/repository_store.go`) | the generation of the repository and of each replica | IncrementGeneration, SetGeneration, GetReplicatedGeneration, SetAuthoritativeReplica, ... | a replica of the latest generation has the latest content |
| Reconciler (`praefect/reconciler/`) | none of its own; reads the store and the queue | reconcile | every assigned replica is brought up to date, every other one removed |
| Primary election, health (`praefect/nodes/`) | the primary of each repository, the health of each node | GetPrimary, the health checks | the primary is healthy, assigned and up to date |
| Router, storage lookup (`praefect/router_per_repository.go`, `praefect/datastore/`) | cached sets of consistent storages | RouteRepositoryMutator, ..., GetConsistentStorages | reads go to up-to-date replicas |
| Verifier, repository cleaner (`praefect/verifier.go`, `praefect/repocleaner/`) | leases in the database | periodic runs | only metadata of replicas that are really gone is removed |
| Write-ahead log (`gitaly/transaction_manager.go`) | the log and the applied index in a key-value store; indexes and waiting proposals in memory | Propose, Run, Stop, initialize | a transaction takes effect at once or never, through crashes; every proposal is answered |
| Stream cache (`streamcache/`, `gitaly/service/hook/pack_objects.go`) | the entry of each key; per entry a file, the positions of writer and readers, the result | FindOrCreate, Write, Close, Read, Wait, clean | a reader gets the whole stream or an error; nobody hangs; a client that leaves disturbs nobody else |
| Concurrency limiter (`middleware/limithandler/concurrency_limiter.go`) | a reference-counted semaphore per key | Limit | the limit holds; tokens and references are given back; every call ends |
| Runner (`commands/multi.go`, `commands/builds_helper.go`) | configuration, workers, counters per token, the signal | feedRunners, processRunner, updateWorkers, updateConfig, resetOneRunnerToken, Stop | limits hold; builds do not share a directory; a graceful shutdown ends |
| Pages (`internal/source/gitlab/cache/`) | the store's entry of each domain, its age and its retrieval | Resolve, Refresh, Retrieve | answers are recent; nobody waits forever; failed refreshes neither hide answers nor keep them forever |
| Catfile cache, disk cache, backchannel, sidechannel, supervisor, housekeeping, hooks, backups, rate limiter | see `PROJECT.json` | | |
| GitLab Shell, VS Code extension | separate programs | | |

How the parts interact. A write arrives at the coordinator, which asks the router for a
primary, secondaries and replication targets, registers a transaction and proxies the
RPC to all nodes of the transaction. The nodes vote over the backchannel; the
transaction manager answers when a quorum is reached or impossible. When all streams
have ended, the finalizer classifies the nodes, increments generations in the
repository store and enqueues replication jobs for the outdated ones. Workers in every
Praefect take jobs from the queue, copy repositories between nodes and set the
target's generation; the reconciler adds jobs for what is still behind or unassigned.

Within a Gitaly node the pack-objects hook looks its request up in the stream cache and
runs git-pack-objects in the limiter, so that readers hold back writers, writers occupy
slots and slots decide whether other readers have something to read. Runner and Pages
only share the GitLab API with the rest.

What is hard here: votes, retractions, stops and cancellations of one transaction run
in different goroutines with three kinds of locks; contexts expire between a decision
and its answer; the finalizer infers from vote states and errors what is on the nodes'
disks; requests and jobs read the store in one statement and act on it in a later one;
a queue shared by several Praefects relies on heartbeats; database statements fail
after disks were changed; the log must recover from a crash at any point; writers and
readers wait for each other on one-element channels; caches are refreshed by whoever
comes first; and a process must stop while its goroutines are anywhere. `PROJECT.json`
lists these hazards at their lines with the properties that cover them.

## 2. Modules and how they correspond to the code

`map` in `PROJECT.json` gives the source lines of each definition.

**`Transactions`** (`praefect/transactions/`, and the weights and threshold of
`Coordinator.registerTransaction`). `registered` is the manager's map entry, `state`
the transaction's state, `subs` its subtransactions, each a record of `vote`,
`result`, `counts` (voteCounts) and `done` (doneCh). `call` is the goroutine of each
RPC; one step is one critical section. `vote` and `collectVotes` do not take the
transaction's lock, so they also run between the two halves of `cancelNodeVoter`
(`FindPending`, `CancelNodeVoter`), which holds it; others wait (`Unlocked`). The
loops of `cancel` and `stop` lock one subtransaction at a time and are one step here,
because votes on other subtransactions commute with them. A context may expire
whenever a call waits (`CollectExpired`), also after the decision. Transactions share
nothing, so one is enough. Left out: identifiers, metrics, logging. `MaxSubs` bounds
the subtransactions; a call that needs one more is held.

**`VotingRounds`** is what a transaction promises to the nodes that vote in it, without
voter tables, counts, signals or calls: a round is decided once, by a quorum of nodes that
committed all earlier rounds; others that did may join; a node is told what was decided;
nothing is decided after the transaction was closed. Under the refinement mapping a
round's choice is the primary's vote if anybody is committed (`Choice`, `Committers`).
Casting the vote that makes the quorum is `Decide`, casting one after it is `Join`,
`collectVotes` is `Tell`, stop and cancel are `Close`, and everything else, retractions
included, is invisible. `VotingKeepsPromise` is the refinement.

**`Coordinator`** extends `Transactions` with one mutator request on an existing
repository: the RPC of each node as the proxy sees it (`rpc`), the content of each
replica (`disk`: the sequence of changes applied), and the finalizers (`phase`,
`gen`, `repoGen`, `jobs`). The Gitaly nodes are external and do what the code relies
on: a node applies a change when it was told to commit it, casts no further vote and
fails when a vote was not answered with a commit, returns only after it applied what
it was told, and may apply or lose the last change when its connection breaks or its
stream is canceled. Errors are as `equalGrpcError` sees them, by code and message: a
lost connection reads as one of `LostMessages`, which do not name the node, so two lost
nodes may or may not report the same error.
`nodeErrors`' mutex makes each error handler one step. A database error may hit each
step of the finalizer (`IncrementGenerationFails`, a subset of the jobs in
`EnqueueJobs`). `kind` is the RPC: voting, in a transaction without voting, or on the
primary only. Only the UpdateRepo change is modelled.

**`ReplicationQueue`** models queue and workers for one target storage. Each method of
the queue is one SQL statement and one step. A lock is a repository on the target, a
worker the processing loop of one Praefect. Row identifiers double as creation times,
and `taken` is `updated_at` as set by Dequeue. `covers`, `inserted` and `gaveUp` are
history. A worker keeps its own copy of the events it dequeued, as the code does, and
may die, fail an event, or fail to acknowledge it. Heartbeats are abstracted to when an
event may be stale: its worker is dead or no longer holds it or, with `HealthMayFail`,
at any time (StartHealthUpdate returns on the first error). With `SourcesMayVanish` the
disk of a source may lose a repository and get it back (external). An update whose source
lost it ends in `ReplicateInvalid` (`replicator.go:82`): nothing is copied, the source's
record is deleted and the event completed. A source without a record has
`GenerationUnknown`, and what is copied from it is not recorded. `Replicate` is one step
here, `Destroy` two (the node's disk, the database). Where one statement deletes and
updates the same row, the deletion is taken to win. Left out: how other jobs bring a lost
source its repository and its record back (`RepositoryStore` has the reconciler), and
writes without an up-to-date source, which the router refuses.

**`ReferenceUpdates`**, **`WriteAheadLog`**, **`ReferenceStore`**. The first has the data:
transactions, their verification and their effect. `WriteAheadLog` models the
TransactionManager: `refs`, `log` and `appliedIndex` are on disk; `appended`,
`applied`, `awaiting` and the position `pc` of Run are in memory. Every database
write and every reference that git writes is a step. `Interrupted` is a crash, Stop,
or Run returning because git or the database failed: memory is lost and every Propose
ends without a result; `Initialize` is the next start. A database write that reports
an error may have happened (`AppendFails(TRUE)`); such an entry is ignored while the
manager runs, overwritten by the next one, or recovered by the next start. Answering
a proposal is part of the deletion's step. `ReferenceStore` is the abstract
specification: no log, no crash, each transaction commits in one step or is refused.
Under the refinement mapping, the logical tips are the references on disk overlaid
with the log entry that is not recorded as applied. At this commit only tests create a
TransactionManager; the model takes one at a time per repository, as its comment
demands.

**`RepositoryStore`** models the generations of one repository with everybody who reads
and writes them at the same time. A method of the store is one SQL statement and one
step; a mutator request is the sequence routing (three queries), transaction,
IncrementGeneration, job insertion; an update job is GetReplicatedGeneration, copy,
SetGeneration; a deletion job removes the replica and then its record; the metadata
verifier looks at the disk and later deletes the record. `request`, the `pc` of a job
and `missing` keep what was read, and all of it may be old when it is used. The
elector (`GetPrimary`), the reconciler (`ReconcileSome`), nodes that become unhealthy,
failing statements and jobs, and the operator's accept-dataloss,
set-replication-factor and remove-repository are actions. A request's transaction is
one step with a nondeterministic set of secondaries that applied it (`Coordinator` has
the detail), and a target works on one job of a kind at a time (`ReplicationQueue` has
the locks). `promise` is history: the writes that the latest generation stands for.
`overtaken` is history too: it records that one of five races happened that the code
does not defend against (see the comment at `LatestIsHeld`); the invariants speak of
the behaviours without them. The fifth (`Returned`) came out of the proof: it needs
three storages, two requests, two faults and a command, more than the run explores. A
job has read the generation of its source; the source is deleted and then replicated to
again by another job from an outdated replica; the first job copies what is there now
and records it under the latest generation.

**`Limiter`**, **`ConcurrencyLimiter`**. The second models `Limit` step by step: look the
semaphore up or create it, enter the queue, take a token or give up, run, give the
tokens back in the code's order, drop the semaphore with the last reference. A
semaphore is named after the caller that created it. `Limiter` is the abstract
specification, a counter of running functions per key, and `ConcurrencyIsLimited` is
the refinement. The comment at `concurrency_limiter.go:119` calls the queue's bound
global; the code, and the model, have one queue per key.

**`StreamCache`**, **`PackObjects`**. Entries, pipes and creating goroutines are named after
the request that created them. The positions of writer and readers are kept apart from
the file's size, because the code updates the writer's later (`SetWritePosition`), and
notifications are tokens in channels of capacity one. A `Read` moves the reader's position
and the shared read cursor in one step; the reader is `sending` after that, until it reads
again, waits or leaves. Files may be removed at any time; a request that finds its
file gone creates a new entry, which is part of `Create`. A failing creator deletes
whatever entry its key has by then; if it is a newer one, this only costs a second run
of git-pack-objects. `PackObjects` composes the cache with the limiter, which is used at
the level of `Limiter`; the configuration without a limiter is not modelled.

**`LookupCache`** (Pages). One domain, since domains share nothing; entries are numbered in
the order of their creation and time is discrete. The goroutine of
`resolveWithBackoff` (`resolver`) and `Retrieve` (`retriever`) are separate processes
that meet on an unbuffered channel. `lookup` stands for every answer that is not a
temporary error, a missing domain included.

**`MultiRunner`** (Runner). Feeder, workers, the starter of workers, the main loop of
`run`, the goroutine that resets tokens, and `Stop` are processes that meet on channels.
Configurations are numbered, so `<<c, r>>` stands for a pointer to a RunnerConfig: a
reload makes new ones, with other limits, while workers and the resetter keep the old. A
reset takes its runner first, asks for the token, writes it into the RunnerConfig it took,
which a reload may have replaced, and saves the current configuration to the `file` that
later reloads read. A reload ends with a send to `configReloaded` (`NotifyReloaded`), which
blocks while that channel is full and its receiver waits for a token. The counters are
kept by token, as in `builds_helper.go`; a job that ends under another token than it
started with is taken off the wrong counter, as in the code. Directories are named after
the abbreviated token (`ShortDescription`), which is taken for unique. Jobs count as jobs
of one project, so RunnerID and ProjectRunnerID are one number. After SIGQUIT feeder and
workers may still exchange a runner in a `select`, but its request is canceled at once.
The health check of runners appears as a runner that is not offered (`SkipRunner`); an
empty list of runners, runners that a reload adds or removes, and the conversion of
signals on Windows are left out.

The `MC*` modules only define constants and symmetry sets.

## 3. Runs

Small sets of model values; every run finishes within a few minutes. Deadlock checking
is off: all these systems may come to rest when all requests, events or proposals
allowed by the bounds are done.

| Run | Shows | Bounds |
|---|---|---|
| `transactions_two_rounds` | `Transactions` implements `VotingRounds`; agreement, with the primary's vote in the quorum behind every commit; counts exact; answers final; settled voters never change; nodes on one path; no commit after closing; waiting only for an open outcome | 2 secondaries (so that a quorum needs one of two), 2 votes, 2 concurrent RPCs, 2 subtransactions |
| `coordinator_voting` | who is recorded as up to date has the primary's content, and who differs has a job, unless it was cut off with the primary's own transport error; secondaries only hold what the primary voted for; a request that is not finalized can go on | 2 secondaries, a replication target, 3 RPCs, 1 vote per node, lost connections read alike, client may go away; or the primary alone with three other replicas |
| `queue_workers` | locks, job locks and states agree; one worker per repository; what is in progress is held; neither the removal of similar events nor an invalid source loses a write whose own source is intact; every update job leaves the queue | 1 repository, 2 sources that may lag or lose it, 2 workers, 2 writes, 3 events, deletions, 2 attempts, batches of 2 |
| `store_races` | a replica at the latest generation has the recorded writes; the last one is not lost; generations do not fall; all hosts catch up | 2 storages, 2 requests, 1 fault, 1 operator's command |
| `limiter` | `ConcurrencyLimiter` implements `Limiter`; tokens and references are held by somebody who gives them back; every call ends | 4 callers, 2 keys, 1 token, a queue of 1 |
| `pack_objects` | success means a complete stream; a client that leaves disturbs nobody; no notification is lost; every request ends | 2 requests for the same or different keys, 2 chunks, 1 slot, 2 faults |
| `log_recovers` | `LogInv`; indexes count the writes; `WriteAheadLog` implements `ReferenceStore`; every Propose returns; what is logged is applied | 2 references, 3 tips, 6 kinds of transaction, 3 proposals, 2 restarts |
| `lookup_cache` | an answer that no failed refresh has kept is served for a bounded time; waiting requests return; outdated entries go | 2 clients, 3 entries, times 0 to 4, timeouts 0, 1 and 1, 2 tries |
| `runner_limits` | jobs stay within the highest limit so far, once per token; builds have directories of their own | 3 workers, a runner whose limit a reload sets to 1 or 2 and whose token is reset once |
| `runner_stops` | a graceful shutdown ends with no worker left | 2 workers, 2 runners, both signals, 1 reload between 1 and 2 workers, requests for a token that fail |

The bounds are chosen so that the interesting cases occur, and each property has a
mutant, a plausible mistake in the mapped code, that its run detects under the same
bounds. `Attempts` is 2 where the code has 3: first failure, last failure and
exhaustion all happen. In `coordinator_voting` `MaxSubs` exceeds `MaxVotes`, since
canceling a voter may create one subtransaction more. `RequestGoesOn` uses ENABLED: some
step that the code takes by itself is possible until the request is finalized. Since a
request has finitely many steps, it is finalized in the end (`RequestCompletes`). Batches of 2 in `queue_workers`
matter: Dequeue takes the oldest events first and deletions never run out of attempts,
so a batch no larger than the number of permanently failing deletions starves what is
behind them. In `limiter` four callers on two keys make a semaphore be dropped and
created again while others wait, and one be refused by a full queue. `MaxConcurrency`
is 1 because a second slot only removes waiting. Three entries in `lookup_cache` are a
retrieval, its refresh and the refresh of that. In `runner_limits` a third worker is what
exceeds a limit of two, and one reload and one reset can come in either order, between any
two steps of a worker. Token resets succeed in `runner_limits` and only fail in
`runner_stops` (`MaxRotations` 0), where it matters how long they take, not what they bring.

Larger instances were checked once: the coordinator with two messages of lost connections,
so that lost nodes may report equal or different errors (1.7 million states);
`RequestCompletes` with one secondary and two votes per node (0.85 million); the queue's
invariants with three writes and four events (0.77 million); the store with two commands under
symmetry (1.3 million), pack objects with three requests for one key and a fault
(2.5 million), and the stream cache composed with the detailed limiter instead of `Limiter`
(3.9 million).

Fairness. `Coordinator` (for `RequestCompletes`; the steps in question are those of `RequestGoesOn`): goroutines of calls, error handlers and finalizers that can
run do run, nodes finish their RPCs, and votes time out, because Gitaly bounds each
vote by a timeout (`gitaly/transaction/manager.go`). One condition for all of them is
enough, as a request has finitely many steps; the same holds for `ConcurrencyLimiter`
(limited functions return; nobody has to give up), `PackObjects` (git-pack-objects
produces output or exits, clients take what they are sent; hanging up and failing are
not fair) and `MultiRunner` (after a signal; requests and builds end). In `MultiRunner`
requests for a new token end too, and a `select` that could receive from `configReloaded`
again and again, between two resets, does so some time (strong fairness: Go chooses at
random among the cases that are ready).
`ReplicationQueue`: each worker and the stale-event loop run, both being endless loops
with tickers; success is not assumed. `RepositoryStore`: reconciler and verifier run on
tickers, each target's jobs are worked on, requests that have begun go on, nodes
recover; `MaxFaults` and `MaxOperations` make disturbances finitely many.
`WriteAheadLog`: Run's goroutine runs and an interrupted manager is started again;
`MaxRestarts` makes interruptions finitely many, without which nothing can be promised.
`LookupCache`: time passes, goroutines that can go on do, and a call of the API ends
once its context has.

## 4. Findings

Runs marked `violation` state what a comment promises and show how the code
departs from it; `PROJECT.json` quotes the lines.

1. `coordinator_unvoted`: for an RPC that never votes, a failing secondary's
   cancellation creates a subtransaction; the finalizer then concludes that the primary
   changed nothing, and a successful write is not replicated.
2. `log_stale_entry`: an applied entry whose deletion was interrupted is taken for the
   end of the log two starts later; the next write is logged under an index that counts
   as applied, is never performed, and its caller waits.

### Known departures

These were met while modelling and have no run of their own. The first seven are
reproduced by TLC if the named definition is checked, with the constants given.

3. `EqualErrorsEqualContent` (`Coordinator`; 1 secondary, a replication target, 1 vote, one
   message of lost connections, 2 RPCs, `MaxSubs` 2): a primary and a secondary are lost
   with the same message, one after and one before it applied the change. `equalGrpcError`
   compares only code and message (`praefect/coordinator.go:981`), and what gRPC says of a
   lost connection does not name the node, so both are recorded at the new generation and
   the secondary gets no job. The comment at `coordinator.go:876` says that "we assume they
   did the same thing and failed in the same controlled way". Cancellation has the same
   effect if the client goes away while a vote is being decided. `LatestHasPrimaryContent`
   and `DivergedHasJob` except exactly the secondaries that ended with the primary's own
   transport error (`CutAlike`).
4. `DocumentedLimit` (`MultiRunner`; one runner with limit 1 and an expiring token, two
   workers, one reset, no reload): the builds of a runner are counted by token
   (`commands/builds_helper.go:78`). A running job is not counted under the token that its
   runner gets meanwhile, and the runner takes a job above its limit. Runner's
   `docs/configuration/advanced-configuration.md:179` says "Limit how many jobs can be
   handled concurrently by this registered runner". `LimitHolds` is the bound that does
   hold.
5. `ReplacedOnlyBySuccess` (`LookupCache`, constants of `lookup_cache`): the comment on
   Refresh (`cache.go:122`) says of an existing successful entry that "it will only be
   replaced if the new resolved entry is successful too". The code replaces it in any case
   (`cache.go:145`), after a temporary error by an entry that keeps the old response and
   has a new time to expire. `OutdatedIsReplaced` is about what the code does, and would
   fail if it did as the comment says: an entry is refreshed once, so one that stayed would
   not be refreshed again before the store drops it.
6. `KeptWithinExpiration` (`LookupCache`; four entries, one client, times 0 to 5): a refresh
   that fails counts the age of the response it keeps from the creation of the entry
   before, even if that entry kept its response itself (`cache.go:142`), so a response is
   kept on and on while the API fails. The comment at `cache.go:125` promises "a maximum
   time of e.expirationTimeout".
7. `NoImpossibleWait` (`Transactions`, constants of `transactions_two_rounds`):
   cancelNodeVoter stops at the first pending subtransaction that is already done
   (`praefect/transactions/subtransaction.go:170`), so a secondary that fails while it
   lags stays outstanding in the current one, whose voters wait until they time out.
   The comment at `transaction.go:292` says that subtransactions "do not wait for an
   impossible quorum due to canceled voters".
8. `GenerationGuarantee` (`RepositoryStore`, three storages, no command): request 2 is routed with
   secondary b; request 1, in which b did not take part, is recorded; request 2 is
   applied on the primary and b; a job copies an older replica over b and sets it to
   the latest generation; IncrementGeneration of request 2 then increments b too
   (`praefect/datastore/repository_store.go:243`). `doc/virtual_storage.md:57` says that
   a replica has "replicated up the changes that produced a given generation number".
9. `ResolverEnds` (`LookupCache`, constants of `lookup_cache`): `resolveWithBackoff`
   sends on an unbuffered channel that nobody receives from once Retrieve's context has
   ended (`retriever.go:87`); the goroutine stays. The comment at `retriever.go:80` wants
   to "avoid leaking the goroutine".
10. Enqueue drops an event if a ready one exists, whatever its source, and Acknowledge
    removes ready events as similar to a retried one. A write without an event of its
    own can so be forgotten by the queue, which is why `InsertedIsReplicated` speaks of
    writes that got one; the reconciler makes up for it (`Converges`).
11. With `HealthMayFail`, a late acknowledgement leads to attempt -1, which
    AcknowledgeStale handles neither as stale nor as exhausted (`InProgressIsHeld`
    fails). With `BatchSize` 1 and two repositories `UpdatesDrain` fails.
12. A deletion whose database step failed never finishes, because the node answers
    NotFound on every retry; the metadata verifier removes the record in the end.

## 5. Proofs

All for every value of the constants, from the named assumptions in the modules only:
finite sets where the code counts (secondaries, callers, requests, storages), model
values that are distinct (a primary that is no secondary, a vote that is not nil, a NULL
that is no storage), natural bounds, a zero OID among the tips and well-formed
transactions. Some theorems have a hypothesis of their own. Each stands for a case in
which the code really departs from the property, and the departure is shown in section 4:

| Hypothesis | Theorems | Without it |
|---|---|---|
| `~DeletesInterrupted` | all of `WriteAheadLog_proofs` | finding 2 |
| `"unvoted" \notin Kinds` | `SecondariesFollowCorrect`, `LatestHasPrimaryContentCorrect`, `DivergedHasJobCorrect` | finding 1 |
| `~HealthMayFail` | all of `ReplicationQueue_proofs` but `LocksOfJobs` | departure 11 |

Each safety invariant is a consequence of an inductive one, which is defined in the
component's own module, was checked by TLC before it was proved, and is proved by one
lemma per action.

**`Coordinator_proofs`**, first part, is about transactions by themselves and proves
`TypeOK`, `CountsExact`, `CommittedHasQuorum`, `ToldIsFinal`, `Agreement`, the action
property `SettledIsFinal`, and that weights and threshold pass newTransaction's
validation. The invariants are not inductive by themselves: that a committed voter has a
quorum needs exact counts, needs that no vote can be retracted once the subtransaction
is done, and `ToldIsFinal` needs that a waiting call's vote is the recorded one. `IInv`
is `TypeOK`, `SubOK` for each subtransaction, `CallOK` for each call and `ToldIsFinal`.
The first layer of the proof shows for each operation on one subtransaction (cast,
retract, settle, close) that it keeps `SubOK` and lets the voter table only `Evolve`:
what is settled stays, and a cast vote stays unless its voter is canceled. The second
layer lifts this to the steps of the calls. `Agreement` follows because any quorum
weighs more than all secondaries together, so it contains the primary, which has one
vote.

`WaitsOnlyForOpenOutcome`, `OnePathForAll` and the action property
`ClosedDecidesNothing` need `PathInv` on top: once there is a majority whoever has voted
has a result, a node that votes in a subtransaction was committed in all earlier ones,
and no call is in a subtransaction of a closed transaction that has undecided voters.

`PromiseKept` is the refinement of `VotingRounds`. On top of `IInv` and `PathInv` it needs
`DecisionInv`: once a subtransaction is done no cast vote in it is undecided and no further
vote can open it again (`DecidedOnce`), whoever supports the vote that has a quorum is
committed, and nobody fails before it is done (`QuorumCommits`). So the set of committed
voters changes only by the vote that makes the quorum, which commits all its supporters at
once and finds nobody committed before, and by later votes, which add their own voter.
That a decider committed all earlier rounds is `PathInv`'s path; that neither a retraction
nor a closing changes the set is `SettledIsFinal`'s argument.

**`Coordinator_proofs`**, second part, is about requests and proves
`SecondariesFollowPrimary`, `LatestHasPrimaryContent` and `DivergedHasJob`. Every step of
the request is a step of `Transactions` or leaves it alone (`RequestTransacts`), so `IInv`
and `PathInv` carry over, and so does the promise: `RequestKeepsPromise` states that the
request with its nodes, handlers and finalizers implements `Transactions` and with it
`VotingRounds`. `CInv` adds how nodes,
votes in flight, error handlers and finalizers depend on each other: a node's votes are
answered or make it fail (`VotesAnswered`, `NodesWaitForVotes`), what is on a disk was
committed (`DisksFollowVotes`), a secondary that reported an error had its voter
canceled (`DroppedAreLeftBehind`), and after the cleanup nothing changes anymore
(`CleanedUp`, `FinalizersMatch`). So a secondary that the finalizer calls updated ended
as the primary did and applied every vote that both committed.

**`ReplicationQueue_proofs`** proves `LocksMatchJobs`, `InProgressIsHeld`,
`OneWorkerPerRepository` and `InsertedIsReplicated`, from an invariant in three layers.
`TablesMatch` is what the SQL statements guarantee by themselves, and `LocksOfJobs`
states its main part without any hypothesis. `JobsAreOwned` says that an event in
progress is in the batch of one worker. `EventsCarryWrites` says that updates of a
repository are executed oldest first, that for each write whose primary kept the
repository the sources of its own and of all later events have the write or no record
(`SourcesHold`), that its event stays as long as the target misses the write
(`EventStays`), and that a completed update of the same source, dequeued after the event
was made, has brought the write (`CompletedBrings`). So an event that is completed without
a copy is not the write's own, and the events that an acknowledgement removes as similar
are superfluous.

**`RepositoryStore_proofs`** proves `LatestHasRecordedWrites`, `LatestIsHeld` and the
action property `NoDowngrade`. `StoreInv` says why what requests and jobs have read may
be old: no generation, read or recorded, is beyond the latest (`NoneBeyondLatest`); the
target of a running job is older than what the job brings, so that a job neither
overwrites nor lowers a replica with the latest generation (`JobsBringNewer`, which
needs the lock of the target, `OneJobPerTarget`); what a request is going to record is
on the disks it records (`AppliedIsOnDisk`); who has a record has the repository or a
deletion job (`RecordedIsOnDisk`); and some replica with the latest generation has no
deletion job (`LatestIsKept`), so that neither a deletion nor a job that finds its
source gone takes the last one.

**`WriteAheadLog_proofs`** proves `Spec => []LogInv` and `Spec => AtomicStore`, the
refinement of `ReferenceStore`. `LogInv` says that the log holds at most the entry after
the last applied one (`LogConsistent`), that an entry counts if and only if its
proposal was logged, and one that does not count still applies to the references as
they are (`EntriesAccounted`), and that a proposal is decided at most once
(`ProposalsAccounted`). Refinement has one lemma per action: storing the entry is the
abstract commit; writing references, recording the index and recovering are invisible;
deleting an entry acknowledges; an interruption is invisible unless it makes an entry
count whose storing had been reported as failed. `IndexCountsWrites` adds that the
number of logged proposals is the last index, in memory or, while the manager is down,
as `initialize` will find it (`LogCounted`).

**`ConcurrencyLimiter_proofs`** proves `TokensAreHeld` and `ConcurrencyIsLimited`, the
refinement of `Limiter`. The counters are compared with the cardinality of the sets of
callers that still have to give something back; what is needed besides is that a caller
that has not left uses the semaphore that the map has for its key
(`SemaphoresAreFound`), so that putConcurrencyLimit finds it and two semaphores of one
key are never in use together. `RunningIsLimited` spells out what `Limiter` comes to: the
functions of a key that run at the same time never exceed `MaxConcurrency`.

**`PackObjects_proofs`** proves `SuccessIsComplete`, `BystandersUnaffected` and
`NoLostWakeup` for the cache under the pack-objects hook. `IInv` relates each entry's
file, cursors and goroutine (`EntriesMatch`), each request's stream to its entry
(`StreamsMatch`) and the index to both (`IndexMatches`); no wake-up is lost because
whoever moves a cursor past the one who waits leaves a token in the same step.
`LimiterUsedCorrectly` (`Spec => Limit!Spec`) closes the composition: the hook's goroutines
are well-behaved callers of the limiter, one call per entry, because a request that has not
been in the cache has no goroutine yet (`StreamsMatch`). `PackObjectsLimited` follows: no
more than `MaxConcurrency` processes of a limiting key run, whatever clients do. TLC checked
both on the instance of `pack_objects` before they were proved.

**`MultiRunner_proofs`** proves `BuildsHaveOwnDirectory` and `LimitHolds`. A counter does
not belong to the jobs that run under its token, since a job may be taken off another
counter than it was added to, and workers compare it with different limits. `IInv` says
that all counters of a runner together know of at least as many builds as workers hold
(`BuildsAreCounted`: a release takes one off at most), that each counter is within the
highest limit so far (`CountersAreLimited`), and that tokens not issued yet are used by
nobody and have counters of zero (`TokensAreIssued`). So the builds fit into a rectangle of
the tokens by the highest limit. `LimitIsDocumented` is the case of one token and one
configuration, in which the limit holds as documented.

**`LookupCache_proofs`** proves `ServedIsRecent`. What the store offers expires, but that
says nothing of when it was answered: a slow refresh may store an entry long after it was
created, and may replace a newer one. `IInv` says that entries are created in order and only
those are retrieved, refreshed or stored (`InOrder`, which is what makes a new entry's number
unused), that an answer is no older than its entry unless a failed refresh carried it over
(`AskedThenAnswered`), and that a retrieval and the refresh that waits for it end within the
retrieval timeout, so that an entry's expiry is bounded by its creation (`EndsInTime`). The
bound of `ServedIsRecent` is the sum of the two timeouts for that reason.

Every other invariant, action property and refinement that a passing run checks is stated by
a theorem. Only model-checked: `RequestGoesOn`, which is about
ENABLED, and liveness (`UpdatesDrain`, `Converges`,
`EveryCallEnds`, `EveryRequestEnds`, `ProposeReturns`, `LoggedIsApplied`,
`ResolveReturns`, `OutdatedIsReplaced`, `ShutdownCompletes`), which are out of the proof
system's reach.

## 6. Not modelled

Database isolation below the statement; git's lock files left behind by a crash;
renaming of repositories and object pools; reads with their cache of consistent
storages; how Praefects agree on a node's health, and the deprecated electors; the
verifier's leases and the repository cleaner; the rate limiter; the catfile and disk
caches, the connections and the supervisor of Gitaly; the wrappers around git commands,
housekeeping and backups; the executors, traces and sessions of Runner; serving, zip
archives and authentication of Pages; GitLab Shell and the VS Code extension. Reasons
are in `PROJECT.json`. Most of the repository's lines are generated protocol code,
request handlers that call git, Docker or Kubernetes, and configuration; they keep no
state that these models could say something about.

## 7. Plan

1. Runner's job trace (`network/trace.go`), Gitaly's catfile cache and Praefect's cache
   of consistent storages.
2. An abstract specification of the repository store, a register whose replicas lag, that
   `RepositoryStore` implements outside the recorded races.
