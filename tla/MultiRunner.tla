----------------------------- MODULE MultiRunner -----------------------------
(***************************************************************************)
(* The process of `gitlab-runner run` (commands/multi.go, with the         *)
(* counters of commands/builds_helper.go).  A feeder offers the configured *)
(* runners to a pool of workers; a worker asks for a job for the runner it *)
(* got, within the runner's limits, and runs it.  The main loop scales the *)
(* pool with the configuration and, after a signal, stops it.              *)
(*                                                                         *)
(* A reload reads a new configuration; who has a runner of an earlier one  *)
(* keeps that, with its limit.  Configurations are numbered, so <<c, r>>   *)
(* stands for a pointer to a RunnerConfig.  A goroutine resets the tokens  *)
(* of runners, in place, and saves them to the file that reloads read.     *)
(***************************************************************************)
EXTENDS Integers, FiniteSets, FiniteSetsExt

CONSTANTS
    NumRunners,             \* [[runners]] of the configuration
    Limits,                 \* the limits of the runners, 0 for none, in the configurations
    Expiring,               \* runners whose tokens expire
    RequestConcurrency,     \* GetRequestConcurrency of each runner
    ConcurrentValues,       \* the values of concurrent in the configurations
    Workers,                \* as many as may be at a time
    Signals,                \* the signals that the process may get
    MaxReloads, MaxRotations \* bounds

ASSUME RunnerAssumption ==
    /\ {NumRunners, RequestConcurrency} \subseteq Nat \ {0}
    /\ {MaxReloads, MaxRotations} \subseteq Nat
    /\ Limits # {} /\ Limits \subseteq [1 .. NumRunners -> Nat]
    /\ Expiring \subseteq 1 .. NumRunners /\ Signals \subseteq {"quit", "term"}
    /\ ConcurrentValues # {} /\ ConcurrentValues \subseteq Nat \ {0}
    /\ IsFiniteSet(Workers) /\ \A n \in ConcurrentValues : n <= Cardinality(Workers)

Runners == 1 .. NumRunners
Configs == 0 .. MaxReloads
Tokens == Runners \X (0 .. MaxRotations)

VARIABLES
    stopSignal,
    stop,           \* where Stop is: none, graceful, forceful, or how it returned
    main,           \* where run is
    currentWorkers,
    starter,        \* whether startWorkers receives
    config,         \* the number of the current configuration
    concurrent,     \* its concurrent
    limit,          \* the limit of each runner in each configuration
    token,          \* the token of each runner in each configuration
    file,           \* the tokens in the configuration file
    issued,         \* how many new tokens each runner has got
    resetter,       \* where resetOneRunnerToken is, with its RunnerConfig
    reloaded,       \* whether configReloaded, of capacity one, is full
    feeder,         \* the runner that feedRunners offers, 0 between two passes
    worker,
    builds,         \* counters of builds_helper, by token
    requests

control == <<stopSignal, stop, main, currentWorkers, starter>>
configuration == <<config, concurrent, limit, token, file, issued>>
resets == <<resetter, reloaded>>
counters == <<builds, requests>>
vars == <<control, configuration, resets, feeder, worker, counters>>

\* A worker that has returned is not told apart from one to come.
\* id is the RunnerID of the build, and its ProjectRunnerID, as if all jobs were
\* of one project; token is the build's, which has a copy of the RunnerConfig.
AtRest(pc) == [pc |-> pc, config |-> 0, runner |-> 0, token |-> 0, id |-> 0]

In(pc) == {w \in Workers : worker[w].pc = pc}
Live == Workers \ In("absent")

Moves(w, pc) == worker' = [worker EXCEPT ![w].pc = pc]

\* The key of the counters of w's runner, at this moment.
Token(w) == <<worker[w].runner, token[worker[w].config][worker[w].runner]>>

-----------------------------------------------------------------------------
(* Feeder *)

\* The outer loop: what is offered is the configuration of this moment.
StartPass ==
    /\ feeder.next = 0 /\ stopSignal = "none"
    /\ feeder' = [config |-> config, next |-> 1]
    /\ UNCHANGED <<control, configuration, resets, worker, counters>>

\* The inner loop does not look at stopSignal.
Advances ==
    feeder' = [feeder EXCEPT !.next = IF @ = NumRunners THEN 0 ELSE @ + 1]

Taken(c, r) == [AtRest("processing") EXCEPT !.config = c, !.runner = r]

\* A worker in its select receives the runner.
feedRunner(w) ==
    /\ feeder.next # 0 /\ worker[w].pc = "idle"
    /\ worker' = [worker EXCEPT ![w] = Taken(feeder.config, feeder.next)]
    /\ Advances
    /\ UNCHANGED <<control, configuration, resets, counters>>

\* The runner is not healthy.
SkipRunner ==
    /\ feeder.next # 0
    /\ Advances
    /\ UNCHANGED <<control, configuration, resets, worker, counters>>

-----------------------------------------------------------------------------
(* Workers *)

\* Mutant: a worker that sees the signal returns.
Looped_Returns == AtRest(IF stopSignal = "none" THEN "idle" ELSE "absent")

\* The head of processRunners' loop: into the select, or to the last receive
\* from stopWorker.
Looped == AtRest(IF stopSignal = "none" THEN "idle" ELSE "stopping")

Loops(w) == worker' = [worker EXCEPT ![w] = Looped]

\* The limit of w's runner in the configuration that w has it from.
LimitOf(w) == limit[worker[w].config][worker[w].runner]

LimitMet(w) == LimitOf(w) > 0 /\ builds[Token(w)] >= LimitOf(w)

\* No executor, or the limit of the runner is met.
NoBuild(w) ==
    /\ worker[w].pc = "processing"
    /\ Loops(w)
    /\ UNCHANGED <<control, configuration, resets, feeder, counters>>

\* Mutant: the limit itself may be exceeded by one.
acquireBuild_OffByOne(w) ==
    /\ worker[w].pc = "processing"
    /\ LimitOf(w) > 0 => builds[Token(w)] <= LimitOf(w)
    /\ Moves(w, "slot")
    /\ builds' = [builds EXCEPT ![Token(w)] = @ + 1]
    /\ UNCHANGED <<control, configuration, resets, feeder, requests>>

acquireBuild(w) ==
    /\ worker[w].pc = "processing" /\ ~LimitMet(w)
    /\ Moves(w, "slot")
    /\ builds' = [builds EXCEPT ![Token(w)] = @ + 1]
    /\ UNCHANGED <<control, configuration, resets, feeder, requests>>

acquireRequest(w) ==
    /\ worker[w].pc = "slot" /\ requests[Token(w)] < RequestConcurrency
    /\ Moves(w, "requesting")
    /\ requests' = [requests EXCEPT ![Token(w)] = @ + 1]
    /\ UNCHANGED <<control, configuration, resets, feeder, builds>>

\* No session, or too many requests.
NoRequest(w) ==
    /\ worker[w].pc = "slot"
    /\ Moves(w, "releasing")
    /\ UNCHANGED <<control, configuration, resets, feeder, counters>>

\* requestJob returns, with a job or without one.  The counter does not fall
\* below zero.
RequestReturns(w) ==
    /\ worker[w].pc = "requesting"
    /\ \E pc \in {"accepted", "releasing"} : Moves(w, pc)
    /\ requests' = [requests EXCEPT ![Token(w)] = IF @ > 0 THEN @ - 1 ELSE 0]
    /\ UNCHANGED <<control, configuration, resets, feeder, builds>>

\* The numbers of the other builds with the same token.
UsedIDs(t) ==
    {worker[v].id : v \in {u \in In("running") : <<worker[u].runner, worker[u].token>> = t}}

\* Mutant: the number of other builds is taken for a free number.
FreeID_Count(t) == Cardinality(UsedIDs(t))

\* addBuild takes the first free one.
FreeID(t) == Min((0 .. Cardinality(UsedIDs(t))) \ UsedIDs(t))

\* w has b to build, and offers its runner to another worker if one happens to
\* be in its select.
requeueRunner(w, b) ==
    \/ worker' = [worker EXCEPT ![w] = b]
    \/ \E v \in In("idle") :
        worker' = [worker EXCEPT ![w] = b, ![v] = Taken(b.config, b.runner)]

\* NewBuild, addBuild and requeueRunner.
StartBuild(w) ==
    /\ worker[w].pc = "accepted"
    /\ requeueRunner(w, [worker[w] EXCEPT !.pc = "running", !.token = Token(w)[2],
                                          !.id = FreeID(Token(w))])
    /\ UNCHANGED <<control, configuration, resets, feeder, counters>>

\* NewBuild fails; or build.Run returns, and removeBuild takes the build away.
BuildEnds(w) ==
    /\ worker[w].pc \in {"accepted", "running"}
    /\ worker' = [worker EXCEPT ![w] =
            [Taken(worker[w].config, worker[w].runner) EXCEPT !.pc = "releasing"]]
    /\ UNCHANGED <<control, configuration, resets, feeder, counters>>

releaseBuild(w) ==
    /\ worker[w].pc = "releasing"
    /\ builds' = [builds EXCEPT ![Token(w)] = IF @ > 0 THEN @ - 1 ELSE 0]
    /\ Loops(w)
    /\ UNCHANGED <<control, configuration, resets, feeder, requests>>

Work(w) ==
    \/ feedRunner(w) \/ NoBuild(w) \/ acquireBuild(w) \/ acquireRequest(w) \/ NoRequest(w)
    \/ RequestReturns(w) \/ StartBuild(w) \/ BuildEnds(w) \/ releaseBuild(w)

-----------------------------------------------------------------------------
(* run *)

\* startWorkers receives once more after the signal.
StartWorker(w) ==
    /\ main = "scaling" /\ currentWorkers < concurrent /\ starter
    /\ worker[w].pc = "absent"
    /\ worker' = [worker EXCEPT ![w] = Looped]
    /\ currentWorkers' = currentWorkers + 1
    /\ starter' = (stopSignal = "none")
    /\ UNCHANGED <<stopSignal, stop, main, configuration, resets, feeder, counters>>

\* A worker receives from stopWorker.
StopWorker(w) ==
    /\ main = "stopping" \/ (main = "scaling" /\ currentWorkers > concurrent)
    /\ currentWorkers > 0
    /\ worker[w].pc \in {"idle", "stopping"}
    /\ worker' = [worker EXCEPT ![w] = AtRest("absent")]
    /\ currentWorkers' = currentWorkers - 1
    /\ UNCHANGED <<stopSignal, stop, main, starter, configuration, resets, feeder, counters>>

Scaled ==
    /\ main = "scaling" /\ currentWorkers = concurrent
    /\ main' = "waiting"
    /\ UNCHANGED <<stopSignal, stop, currentWorkers, starter, configuration, resets, feeder, worker, counters>>

\* updateConfig reads a changed file, with the tokens that were saved in it.
reloadConfig ==
    /\ main = "waiting" /\ config < MaxReloads
    /\ config' = config + 1
    /\ concurrent' \in ConcurrentValues
    /\ \E l \in Limits : limit' = [limit EXCEPT ![config + 1] = l]
    /\ token' = [token EXCEPT ![config + 1] = file]
    /\ main' = "reloaded"
    /\ UNCHANGED <<stopSignal, stop, currentWorkers, starter, file, issued, resets, feeder, worker, counters>>

\* The end of reloadConfig: the send to configReloaded, which blocks while the
\* channel is full.  Then the loop looks at stopSignal.
NotifyReloaded ==
    /\ main = "reloaded" /\ ~reloaded
    /\ reloaded' = TRUE
    /\ main' = IF stopSignal = "none" THEN "scaling" ELSE "stopping"
    /\ UNCHANGED <<stopSignal, stop, currentWorkers, starter, configuration, resetter, feeder, worker, counters>>

\* runInterruptSignal, which interruptRun sends forever, or the loop's look at
\* stopSignal.
Interrupted ==
    /\ main \in {"scaling", "waiting"} /\ stopSignal # "none"
    /\ main' = "stopping"
    /\ UNCHANGED <<stopSignal, stop, currentWorkers, starter, configuration, resets, feeder, worker, counters>>

\* All workers stopped: runFinished is closed.
RunFinished ==
    /\ main = "stopping" /\ currentWorkers = 0
    /\ main' = "finished"
    /\ UNCHANGED <<stopSignal, stop, currentWorkers, starter, configuration, resets, feeder, worker, counters>>

-----------------------------------------------------------------------------
(* resetOneRunnerToken *)

\* getConfig, and into the select.
Waiting(c) == [pc |-> "waiting", config |-> c, runner |-> 0]

\* The time to reset a token has come.
ResetDue(r) ==
    /\ resetter.pc = "waiting"
    /\ resetter' = [resetter EXCEPT !.pc = "resetting", !.runner = r]
    /\ UNCHANGED <<control, configuration, reloaded, feeder, worker, counters>>

\* The select receives from configReloaded: the goroutine starts over.
ReloadSeen ==
    /\ resetter.pc = "waiting" /\ reloaded
    /\ reloaded' = FALSE
    /\ resetter' = Waiting(config)
    /\ UNCHANGED <<control, configuration, feeder, worker, counters>>

\* The request for a new token succeeds.  The token goes into the RunnerConfig that
\* was chosen before the request, which a reload may have replaced since.
ResetToken ==
    /\ resetter.pc = "resetting" /\ issued[resetter.runner] < MaxRotations
    /\ issued' = [issued EXCEPT ![resetter.runner] = @ + 1]
    /\ token' = [token EXCEPT ![resetter.config][resetter.runner] = issued[resetter.runner] + 1]
    /\ resetter' = [resetter EXCEPT !.pc = "saving"]
    /\ UNCHANGED <<control, config, concurrent, limit, file, reloaded, feeder, worker, counters>>

\* The request fails.
ResetFails ==
    /\ resetter.pc = "resetting"
    /\ resetter' = Waiting(config)
    /\ UNCHANGED <<control, configuration, reloaded, feeder, worker, counters>>

\* saveConfig writes the current configuration to the file, or fails.
SaveConfig ==
    /\ resetter.pc = "saving"
    /\ file' \in {token[config], file}
    /\ resetter' = Waiting(config)
    /\ UNCHANGED <<control, config, concurrent, limit, token, issued, reloaded, feeder, worker, counters>>

\* The request returns, and what it brought is saved.
ResetReturns == ResetToken \/ ResetFails \/ SaveConfig

-----------------------------------------------------------------------------
(* Stop *)

Shutdown(s) == IF s = "quit" THEN "graceful" ELSE "forceful"

\* runWait, Stop and handleGracefulShutdown: SIGQUIT waits for the jobs, any
\* other signal aborts them.
Signal(s) ==
    /\ stop \in {"none", "graceful"}
    /\ stopSignal' = s
    /\ stop' = Shutdown(s)
    /\ UNCHANGED <<main, currentWorkers, starter, configuration, resets, feeder, worker, counters>>

\* handleForcefulShutdown: another signal, or the shutdown timeout.
ForcedExit ==
    /\ stop = "forceful"
    /\ stop' = "forced"
    /\ UNCHANGED <<stopSignal, main, currentWorkers, starter, configuration, resets, feeder, worker, counters>>

CleanExit ==
    /\ stop \in {"graceful", "forceful"} /\ main = "finished"
    /\ stop' = "clean"
    /\ UNCHANGED <<stopSignal, main, currentWorkers, starter, configuration, resets, feeder, worker, counters>>

-----------------------------------------------------------------------------
Init ==
    /\ stopSignal = "none" /\ stop = "none"
    /\ main = "scaling" /\ currentWorkers = 0 /\ starter = TRUE
    /\ config = 0 /\ concurrent \in ConcurrentValues
    /\ \E l \in Limits : limit = [c \in Configs |-> l]
    /\ token = [c \in Configs |-> [r \in Runners |-> 0]]
    /\ file = [r \in Runners |-> 0] /\ issued = [r \in Runners |-> 0]
    /\ resetter = Waiting(0) /\ reloaded = TRUE
    /\ feeder = [config |-> 0, next |-> 0]
    /\ worker = [w \in Workers |-> AtRest("absent")]
    /\ builds = [t \in Tokens |-> 0]
    /\ requests = [t \in Tokens |-> 0]

\* What run, its feeder and its workers do by themselves.
Progress ==
    /\ stop \notin {"clean", "forced"}
    /\ \/ StartPass \/ SkipRunner
       \/ Scaled \/ NotifyReloaded \/ Interrupted \/ RunFinished \/ CleanExit
       \/ \E w \in Workers : Work(w) \/ StartWorker(w) \/ StopWorker(w)

\* What resetRunnerTokens does by itself.
ResetProgress == stop \notin {"clean", "forced"} /\ ResetReturns

\* It looks at configReloaded.
ResetRestarts == stop \notin {"clean", "forced"} /\ ReloadSeen

Next ==
    \/ Progress \/ ResetProgress \/ ResetRestarts
    \/ /\ stop \notin {"clean", "forced"}
       /\ \/ reloadConfig
          \/ \E r \in Expiring : ResetDue(r)
          \/ \E s \in Signals : Signal(s)
          \/ ForcedExit

Spec == Init /\ [][Next]_vars

\* Goroutines go on, requests and builds end.  After a signal only finitely many
\* steps of run and its workers are left, so one condition for all of them is enough.
\* A select that could receive from configReloaded again and again does it some time.
FairSpec ==
    /\ Spec
    /\ WF_vars(Progress) /\ WF_vars(ResetProgress) /\ SF_vars(ResetRestarts)

-----------------------------------------------------------------------------
(* Properties *)

Jobs(r) == {w \in In("running") : worker[w].runner = r}

\* The jobs of a runner stay within its limit in some configuration so far, once for
\* each token that it has had.  acquireBuild compares with the limit of the
\* configuration that the worker has the runner from, which a reload may have
\* replaced, and with the counter of the token of this moment, which knows nothing of
\* jobs that were counted for another one; releaseBuild may take from a counter that
\* another job was counted in.
LimitHolds ==
    \A r \in Runners : \E c \in 0 .. config :
        limit[c][r] = 0 \/ Cardinality(Jobs(r)) <= (1 + issued[r]) * limit[c][r]

\* docs/configuration/advanced-configuration.md of the runner, on limit: "Limit how
\* many jobs can be handled concurrently by this registered runner."  A token that is
\* reset under a job breaks it, without any reload.
DocumentedLimit ==
    \A r \in Runners : limit[config][r] > 0 => Cardinality(Jobs(r)) <= limit[config][r]

\* Two builds that run at the same time never share a directory, which is named
\* after the token and the number of the build (ProjectUniqueDir), also when
\* builds end in another order than they started and tokens are reset.
BuildsHaveOwnDirectory ==
    \A v, w \in In("running") :
        v # w /\ worker[v].runner = worker[w].runner /\ worker[v].token = worker[w].token =>
            worker[v].id # worker[w].id

\* A graceful shutdown comes to its end, with no worker left behind, unless a
\* second signal makes it forceful: wherever the workers, the feeder, the
\* starter and the scaling were when the signal came, run finds a receiver for
\* each stopWorker that it sends.
ShutdownCompletes ==
    stop = "graceful" ~> \/ stop \in {"forceful", "forced"}
                         \/ stop = "clean" /\ Live = {}

-----------------------------------------------------------------------------
(* The inductive invariant that the safety properties rest on *)

\* A worker has acquired a build, and not yet released it.
Held == {"slot", "requesting", "accepted", "running", "releasing"}

Holders(r) == {w \in Workers : worker[w].pc \in Held /\ worker[w].runner = r}

\* The builds that the counters of r's tokens know of.
Slots(r) == UNION {{t} \X (1 .. builds[<<r, t>>]) : t \in 0 .. MaxRotations}

TypeOK ==
    /\ config \in Configs
    /\ limit \in [Configs -> Limits]
    /\ token \in [Configs -> [Runners -> 0 .. MaxRotations]]
    /\ {file, issued} \subseteq [Runners -> 0 .. MaxRotations]
    /\ resetter \in [pc : {"waiting", "resetting", "saving"},
                     config : 0 .. config, runner : 0 .. NumRunners]
    /\ resetter.pc # "waiting" => resetter.runner \in Runners
    /\ feeder \in [config : 0 .. config, next : 0 .. NumRunners]
    /\ worker \in [Workers -> [pc : {"absent", "idle", "stopping", "processing"} \union Held,
                               config : 0 .. config, runner : 0 .. NumRunners,
                               token : 0 .. MaxRotations, id : Nat]]
    /\ builds \in [Tokens -> Nat]
    /\ \A w \in Workers : worker[w].pc \in Held \union {"processing"} =>
            worker[w].runner \in Runners

\* Nobody has a token that was not issued, and its counter knows of no builds.
TokensAreIssued ==
    \A r \in Runners :
        /\ file[r] <= issued[r]
        /\ \A c \in Configs : token[c][r] <= issued[r]
        /\ \A t \in 0 .. MaxRotations : t > issued[r] => builds[<<r, t>>] = 0

\* A token's counter has not grown above the highest limit so far.
CountersAreLimited ==
    \A r \in Runners : \E c \in 0 .. config :
        limit[c][r] = 0 \/ \A t \in 0 .. MaxRotations : builds[<<r, t>>] <= limit[c][r]

\* Together the counters of a runner know of all builds, whichever configuration and
\* token they are from.
BuildsAreCounted ==
    \A r \in Runners : /\ IsFiniteSet(Slots(r))
                        /\ Cardinality(Holders(r)) <= Cardinality(Slots(r))

IInv ==
    TypeOK /\ TokensAreIssued /\ CountersAreLimited /\ BuildsAreCounted /\ BuildsHaveOwnDirectory

=============================================================================
