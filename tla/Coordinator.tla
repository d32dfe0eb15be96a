---------------------------- MODULE Coordinator -----------------------------
(***************************************************************************)
(* One mutator request in Praefect's coordinator: the proxied RPCs on the  *)
(* primary and the secondaries, the reference transaction they vote in     *)
(* (module Transactions), the error handlers, and the finalizers that      *)
(* decide which replicas are up to date and record it.                     *)
(*                                                                         *)
(* What a Gitaly node does with its copy of the repository is external to  *)
(* the coordinator and is modelled by what the code relies on: a node      *)
(* applies a change when it was told to commit it, casts no further vote   *)
(* and fails its RPC when a vote was not answered with a commit, returns   *)
(* only after it applied what it was told, and may apply or lose the last  *)
(* change when its connection breaks or its stream is canceled.            *)
(***************************************************************************)
EXTENDS Transactions

CONSTANTS
    ReplicationTargets,  \* replicas left out of the request's transaction
    Kinds,               \* the kinds of RPC that may be requested
    LostMessages,        \* what gRPC may report of a connection that was lost
    ClientMayCancel,     \* whether the client may go away during the request
    MaxVotes             \* bound on the votes a node casts in one RPC

ASSUME TargetsAssumption ==
    IsFiniteSet(ReplicationTargets) /\ ReplicationTargets \intersect Nodes = {}
ASSUME FlagsAssumption ==
    /\ Kinds \subseteq {"voting", "unvoted", "single"}
    /\ ClientMayCancel \in BOOLEAN
    /\ MaxVotes \in Nat

VARIABLES
    kind,      \* the RPC: in a transaction and voting, not voting, or on the primary only
    rpc,       \* the proxy's view of each node's RPC: running, ok or an error
    failing,   \* the error each node's RPC is bound to return, if any
    canceled,  \* who canceled all streams, if anyone: the client, or the primary's error
    disk,      \* the changes each replica holds, in order
    phase,     \* progress of the request's handler and finalizers
    outdated,  \* outdated replicas computed by the transaction finalizer
    gen,       \* storage_repositories.generation of each replica
    repoGen,   \* repositories.generation
    jobs,      \* targets of the replication jobs enqueued
    dbFailed   \* history: a database operation of the finalizer failed

request ==
    <<kind, rpc, failing, canceled, disk, phase, outdated, gen, repoGen, jobs, dbFailed>>
cvars == <<vars, request>>

Replicas == Nodes \union ReplicationTargets

\* shouldUseTransaction, and whether the nodes' handlers vote.
UseTransaction == kind # "single"
VotingRPC == kind = "voting"

\* Nodes the request is proxied to: without a transaction the primary only.
Destinations == IF UseTransaction THEN Nodes ELSE {Primary}

\* Errors as equalGrpcError sees them, by code and message alone.  An application
\* error reads the same on all nodes, and so do a vote that was not answered with
\* a commit and a canceled stream.  A lost connection reads as one of a few messages
\* that do not name the node, so two lost nodes may report the same error or not.
NoError == <<"none">>
AppError == <<"app">>
VoteError == <<"vote">>
CanceledError == <<"canceled">>
InitError == <<"init">>
LostErrors == {<<"lost", m>> : m \in LostMessages}

Running == <<"running">>

-----------------------------------------------------------------------------
(* The nodes *)

\* n has no vote in flight.
NotVoting(n) ==
    \A c \in Calls : call[c].pc \in {"vote", "cast", "collect"} => call[c].node # n

AppliedAll(n) == \A t \in told : t[1] = n => t[2] <= Len(disk[n])

\* The node is at work: its RPC runs, or was canceled and it has not noticed.
AtWork(n) == rpc[n] \in {Running, CanceledError} /\ failing[n] = NoError

\* A node casts its next vote.
NodeVotes(c, n, v) ==
    /\ VotingRPC
    /\ AtWork(n)
    /\ NotVoting(n) /\ AppliedAll(n)
    /\ Len(disk[n]) < MaxVotes
    /\ LookupVote(c, n, v)
    /\ UNCHANGED request

\* A node whose RPC fails in a controlled way asks to stop the transaction.
NodeStops(c, n) ==
    /\ VotingRPC
    /\ AtWork(n)
    /\ NotVoting(n) /\ AppliedAll(n)
    /\ LookupStop(c)
    /\ failing' = [failing EXCEPT ![n] = AppError]
    /\ UNCHANGED <<kind, rpc, canceled, disk, phase, outdated, gen,
                   repoGen, jobs, dbFailed>>

\* A vote of this step's call was answered with something else than a commit.
VoteDenied(c) ==
    call[c].pc \in {"vote", "cast", "collect"} /\ call'[c].pc = "idle" /\ told' = told

\* The server side of a vote, a stop or a voter's cancellation.
ServeCall(c) ==
    /\ CallStep(c) \/ CollectExpired(c)
    /\ failing' = IF VoteDenied(c)
                  THEN [failing EXCEPT ![call[c].node] = VoteError] ELSE failing
    /\ UNCHANGED <<kind, rpc, canceled, disk, phase, outdated, gen,
                   repoGen, jobs, dbFailed>>

\* The node writes the change it was told to commit, also after its
\* connection broke or its stream was canceled.
NodeApplies(n) ==
    /\ \E v \in Votes :
        /\ <<n, Len(disk[n]) + 1, v>> \in told
        /\ disk' = [disk EXCEPT ![n] = Append(@, v)]
    /\ UNCHANGED <<kind, vars, rpc, failing, canceled, phase, outdated, gen,
                   repoGen, jobs, dbFailed>>

\* An RPC that is not part of a transaction, or does not vote, writes at once.
NodeAppliesUnvoted(n, v) ==
    /\ ~VotingRPC
    /\ n \in Destinations
    /\ phase = "proxying" /\ AtWork(n)
    /\ disk[n] = << >>
    /\ disk' = [disk EXCEPT ![n] = <<v>>]
    /\ UNCHANGED <<kind, vars, rpc, failing, canceled, phase, outdated, gen,
                   repoGen, jobs, dbFailed>>

-----------------------------------------------------------------------------
(* The proxy's handler *)

\* The stream of node n ends with e.  An error of the primary cancels all
\* streams; an error of a secondary goes to its error handler.
StreamEnds(n, e) ==
    /\ phase = "proxying"
    /\ rpc[n] = Running
    /\ rpc' = [rpc EXCEPT ![n] = e]
    /\ canceled' = IF canceled = "no" /\ n = Primary /\ e # NoError THEN "primary" ELSE canceled
    /\ UNCHANGED <<kind, vars, failing, disk, phase, outdated, gen,
                   repoGen, jobs, dbFailed>>

NodeSucceeds(n) ==
    /\ failing[n] = NoError /\ NotVoting(n) /\ AppliedAll(n)
    /\ StreamEnds(n, NoError)

NodeFails(n) ==
    /\ NotVoting(n) /\ AppliedAll(n)
    /\ StreamEnds(n, IF failing[n] = NoError THEN AppError ELSE failing[n])

NodeLost(n) == \E e \in LostErrors : StreamEnds(n, e)

NodeCanceled(n) ==
    /\ canceled # "no"
    /\ StreamEnds(n, CanceledError)

\* A stream cannot be opened: the request never reaches any node and every
\* destination's error handler gets the same error.
StreamInitFails ==
    /\ phase = "proxying"
    /\ \A n \in Destinations : rpc[n] = Running /\ disk[n] = << >>
    /\ \A c \in Calls : call[c].pc = "idle"
    /\ subs = << >> /\ state = "open" /\ canceled = "no"
    /\ rpc' = [n \in DOMAIN rpc |-> InitError]
    /\ canceled' = "primary"
    /\ UNCHANGED <<kind, vars, failing, disk, phase, outdated, gen,
                   repoGen, jobs, dbFailed>>

\* The client's stream breaks: all streams are canceled.
ClientCancels ==
    /\ ClientMayCancel
    /\ phase = "proxying" /\ canceled = "no"
    /\ canceled' = "client"
    /\ UNCHANGED <<kind, vars, rpc, failing, disk, phase, outdated, gen,
                   repoGen, jobs, dbFailed>>

\* The error handler of a secondary cancels the node's voter; nodeErrors' lock
\* lets one handler run at a time.
ErrHandler(c, n) ==
    /\ phase = "proxying"
    /\ n \in Secondaries /\ UseTransaction
    /\ rpc[n] \notin {Running, NoError}
    /\ n \notin dropped
    /\ \A d \in Calls : call[d].pc \notin {"drop", "dropping"}
    /\ LookupDrop(c, n)
    /\ UNCHANGED request

\* Mutant: a receive loop does not end when its stream ends with an error.
Proxied_OnlySuccess ==
    \A n \in Destinations \ {Primary} : rpc[n] = NoError

\* All streams have ended and their error handlers have returned.
Proxied ==
    /\ \A n \in Destinations : rpc[n] # Running
    /\ UseTransaction =>
         \A n \in Secondaries : rpc[n] # NoError => n \in dropped

\* reqFinalizer, first finalizer: transactionCleanup.
Cleanup ==
    /\ phase = "proxying" /\ Proxied
    /\ phase' = "finalize"
    /\ IF UseTransaction THEN CancelTransaction ELSE UNCHANGED vars
    /\ UNCHANGED <<kind, rpc, failing, canceled, disk, outdated, gen,
                   repoGen, jobs, dbFailed>>

-----------------------------------------------------------------------------
(* The finalizers *)

\* transaction.DidVote
DidVote(n) == subs # << >> /\ subs[1].vote[n] # NoVote

\* transaction.State for a transaction with subtransactions.
NodeState(n) == subs[Len(subs)].result[n]

\* Mutant: a primary that failed is taken to have changed nothing.
PrimaryDirtied_OnlySuccess ==
    /\ rpc[Primary] = NoError
    /\ ~(Len(subs) = 1 /\ ~DidVote(Primary))

\* First result of getUpdatedAndOutdatedSecondaries.
PrimaryDirtied ==
    /\ ~(Len(subs) = 0 /\ rpc[Primary] # NoError)
    /\ ~(Len(subs) = 1 /\ ~DidVote(Primary))

\* Mutant: committing the last subtransaction is enough, whatever the error.
UpdatedSecondaries_IgnoreErrors ==
    {n \in Secondaries :
        /\ Len(subs) # 0 /\ NodeState(Primary) = "committed"
        /\ NodeState(n) = "committed"}

\* Second result: secondaries that committed the last subtransaction together
\* with the primary and ended with the same error.
UpdatedSecondaries ==
    {n \in Secondaries :
        /\ Len(subs) # 0 /\ NodeState(Primary) = "committed"
        /\ rpc[n] = rpc[Primary]
        /\ NodeState(n) = "committed"}

\* Third result; the request finalizer of a request without transaction takes
\* all secondaries to be outdated.
OutdatedReplicas ==
    ReplicationTargets \union
    (Secondaries \ (IF UseTransaction THEN UpdatedSecondaries ELSE {}))

\* createTransactionFinalizer, up to the call of the request finalizer.
Decide ==
    /\ phase = "finalize"
    /\ IF UseTransaction => PrimaryDirtied
       THEN phase' = "record" /\ outdated' = OutdatedReplicas
       ELSE phase' = "done" /\ UNCHANGED outdated
    /\ UNCHANGED <<kind, vars, rpc, failing, canceled, disk, gen,
                   repoGen, jobs, dbFailed>>

\* The primary and the updated secondaries that are recorded at the
\* repository's generation.
ToIncrement == {n \in Nodes \ outdated : gen[n] = repoGen}

\* newRequestFinalizer: IncrementGeneration for the primary and the updated
\* secondaries.
IncrementGeneration ==
    /\ phase = "record"
    /\ ToIncrement # {}
    /\ gen' = [n \in Replicas |-> IF n \in ToIncrement THEN gen[n] + 1 ELSE gen[n]]
    /\ repoGen' = repoGen + 1
    /\ phase' = "enqueue"
    /\ UNCHANGED <<kind, vars, rpc, failing, canceled, disk, outdated, jobs, dbFailed>>

\* The database cannot be reached, or no replica is at the repository's
\* generation: the finalizer returns before it enqueues.
IncrementGenerationFails ==
    /\ phase = "record"
    /\ dbFailed' = TRUE
    /\ phase' = "done"
    /\ UNCHANGED <<kind, vars, rpc, failing, canceled, disk, outdated, gen, repoGen,
                   jobs>>

\* One goroutine per outdated replica enqueues its job; a failure of one
\* cancels the others.
EnqueueJobs ==
    /\ phase = "enqueue"
    /\ \E X \in SUBSET outdated :
        /\ jobs' = jobs \union X
        /\ dbFailed' = (dbFailed \/ X # outdated)
    /\ phase' = "done"
    /\ UNCHANGED <<kind, vars, rpc, failing, canceled, disk, outdated, gen, repoGen>>

-----------------------------------------------------------------------------
CInit ==
    /\ Init
    /\ kind \in Kinds
    /\ rpc = [n \in Destinations |-> Running]
    /\ failing = [n \in Nodes |-> NoError]
    /\ canceled = "no"
    /\ disk = [n \in Replicas |-> << >>]
    /\ phase = "proxying"
    /\ outdated = {}
    /\ gen = [n \in Replicas |-> IF n \in Nodes THEN 1 ELSE 0]
    /\ repoGen = 1
    /\ jobs = {}
    /\ dbFailed = FALSE

NodeReturns(n) ==
    NodeSucceeds(n) \/ NodeFails(n) \/ NodeCanceled(n)

Finalize ==
    Cleanup \/ Decide \/ IncrementGeneration \/ IncrementGenerationFails \/ EnqueueJobs

CNext ==
    \/ \E c \in Calls :
        \/ \E n \in Nodes, v \in Votes : NodeVotes(c, n, v)
        \/ \E n \in Nodes : NodeStops(c, n)
        \/ \E n \in Nodes : ErrHandler(c, n)
        \/ ServeCall(c)
    \/ \E n \in Nodes : NodeApplies(n)
    \/ \E n \in Nodes, v \in Votes : NodeAppliesUnvoted(n, v)
    \/ \E n \in Destinations : NodeReturns(n) \/ NodeLost(n)
    \/ StreamInitFails
    \/ ClientCancels
    \/ Finalize

CSpec == CInit /\ [][CNext]_cvars

\* As long as a goroutine can go on, some goroutine does: votes time out
\* (Gitaly's transactionTimeout), nodes finish their RPC, error handlers and
\* the finalizer run.
Progress ==
    \/ \E c \in Calls : ServeCall(c)
    \/ \E n \in Nodes : NodeApplies(n)
    \/ \E n \in Destinations : NodeReturns(n)
    \/ \E c \in Calls, n \in Nodes : ErrHandler(c, n)
    \/ Finalize

CFairSpec == CSpec /\ WF_cvars(Progress)

-----------------------------------------------------------------------------
(* Properties *)

\* The request was finalized with the database reachable.
Finalized == phase = "done" /\ ~dbFailed

\* Errors that come from the transport: they cut a node off at any point of its RPC.
CutErrors == LostErrors \union {CanceledError}

\* Node n and the primary were cut off with equal errors.  The code takes them to
\* have done the same; EqualErrorsEqualContent shows that they need not have.
CutAlike(n) ==
    n \in Destinations /\ rpc[n] = rpc[Primary] /\ rpc[n] \in CutErrors

\* After a request every replica recorded at the repository's generation, from
\* which reads are served and from which a primary may be elected, holds what
\* the primary holds (getUpdatedAndOutdatedSecondaries, IncrementGeneration),
\* whichever connections were lost and whether or not the client stayed; all that
\* is left out is a secondary cut off with the same transport error as the primary.
LatestHasPrimaryContent ==
    Finalized => \A n \in Replicas :
        gen[n] = repoGen /\ ~CutAlike(n) => disk[n] = disk[Primary]

\* After a request every replica that differs from the primary, and was not cut off
\* with the same transport error, has a replication job: "if anything goes wrong,
\* we need to create replication jobs to repair state".
DivergedHasJob ==
    Finalized => \A n \in Replicas :
        disk[n] # disk[Primary] /\ ~CutAlike(n) => n \in jobs

\* What getUpdatedAndOutdatedSecondaries says of equal errors: "If both primary and
\* secondary have returned the same error, then we assume they did the same thing
\* and failed in the same controlled way."  A secondary that reports the primary's
\* error and is recorded at the repository's generation holds what the primary holds.
EqualErrorsEqualContent ==
    Finalized => \A n \in Destinations :
        gen[n] = repoGen /\ rpc[n] = rpc[Primary] => disk[n] = disk[Primary]

\* What a secondary wrote in the k-th round is what the primary voted for in
\* that round, whatever happened to either since: "no changes to secondaries
\* would be made without primary being in agreement".
SecondariesFollowPrimary ==
    \A n \in Secondaries : \A k \in 1 .. Len(disk[n]) :
        k <= Len(subs) /\ subs[k].vote[Primary] = disk[n][k]

\* A request that is not finalized can go on by itself, whatever failed on the way and
\* whether or not the client is still there: no handler waits for a vote, a stream or an
\* error handler that waits for it in turn.
RequestGoesOn == phase # "done" => ENABLED Progress

\* So every request is finalized in the end: it has finitely many steps.
RequestCompletes == <>(phase = "done")

\* What getUpdatedAndOutdatedSecondaries says of an RPC that succeeded on the
\* primary without voting: the secondaries that differ get replication jobs.
UnvotedSuccessIsReplicated ==
    Finalized /\ rpc[Primary] = NoError /\ disk[Primary] # << >> =>
        \A n \in Secondaries : disk[n] # disk[Primary] => n \in jobs

-----------------------------------------------------------------------------
(* The inductive invariant behind LatestHasPrimaryContent, DivergedHasJob and *)
(* SecondariesFollowPrimary, for RPCs that vote or do without a transaction. *)

\* How a stream may have ended.
Endings == {NoError, AppError, VoteError, InitError} \union CutErrors

CTypeOK ==
    /\ kind \in {"voting", "single"}
    /\ DOMAIN rpc = Destinations
    /\ \A n \in Destinations : rpc[n] \in {Running} \union Endings
    /\ failing \in [Nodes -> {NoError, AppError, VoteError}]
    /\ canceled \in {"no", "client", "primary"}
    /\ disk \in [Replicas -> Seq(Votes)]
    /\ phase \in {"proxying", "finalize", "record", "enqueue", "done"}
    /\ outdated \subseteq Replicas /\ jobs \subseteq Replicas
    /\ gen \in [Replicas -> Nat] /\ repoGen \in Nat
    /\ dbFailed \in BOOLEAN

Told(n, k) == \E v \in Votes : <<n, k, v>> \in told

Collects(n, k) ==
    \E c \in Calls : call[c].pc = "collect" /\ call[c].node = n /\ call[c].sub = k

\* Every vote that was cast has been answered with a commit, or with an error that
\* makes its node fail, or its call still waits; and it waits while it is undecided.
VotesAnswered ==
    \A k \in 1 .. Len(subs) :
        /\ DecidedOnce(subs[k])
        /\ \A n \in Nodes : subs[k].vote[n] # NoVote =>
              /\ Told(n, k) \/ Collects(n, k) \/ failing[n] = VoteError
              /\ subs[k].result[n] = "undecided" => Collects(n, k)

\* A node has at most one vote in flight, and none once it is bound to fail or its
\* RPC has ended by itself; in the latter case it has also applied all it was told to.
NodesWaitForVotes ==
    /\ \A c, d \in Calls :
          c # d /\ call[c].pc \in {"vote", "cast", "collect"}
                /\ call[d].pc \in {"vote", "cast", "collect"} => call[c].node # call[d].node
    /\ \A n \in Nodes : failing[n] # NoError => NotVoting(n)
    /\ \A n \in Destinations : rpc[n] \in {NoError, AppError, VoteError, InitError} =>
          NotVoting(n) /\ AppliedAll(n)
    /\ \A n \in Destinations : rpc[n] = NoError => failing[n] = NoError
    /\ ~VotingRPC => told = {} /\ \A n \in Nodes : NotVoting(n)

\* What a node has on disk is what it was told to commit.
DisksFollowVotes ==
    \A n \in Replicas :
        /\ VotingRPC =>
              \A k \in 1 .. Len(disk[n]) : n \in Nodes /\ <<n, k, disk[n][k]>> \in told
        /\ ~VotingRPC /\ n # Primary => disk[n] = << >>

\* n has not committed some subtransaction, and never will without another vote.
LeftBehind(n) ==
    \E k \in 1 .. Len(subs) :
        /\ subs[k].result[n] # "committed"
        /\ subs[k].result[n] = "undecided" => subs[k].vote[n] = NoVote

\* Voters are canceled for nodes with an error, one at a time and while the streams
\* are served; a node that reported the error itself is left behind from then on.
DroppedAreLeftBehind ==
    /\ \A c \in Calls : call[c].pc \in {"drop", "dropping"} =>
          /\ phase = "proxying" /\ UseTransaction
          /\ call[c].node \in Secondaries \ dropped
          /\ rpc[call[c].node] \notin {Running, NoError}
          /\ call[c].pc = "dropping" /\ rpc[call[c].node] \in {AppError, VoteError, InitError} =>
                LeftBehind(call[c].node)
    /\ \A c, d \in Calls :
          c # d /\ call[c].pc \in {"drop", "dropping"} => call[d].pc \notin {"drop", "dropping"}
    /\ UseTransaction =>
          \A n \in dropped :
              /\ rpc[n] \notin {Running, NoError}
              /\ rpc[n] \in {AppError, VoteError, InitError} => LeftBehind(n)

\* After the cleanup the subtransactions are what they are.
CleanedUp ==
    phase # "proxying" =>
        /\ Proxied
        /\ UseTransaction =>
              /\ state # "open" /\ ~registered
              /\ \A k \in 1 .. Len(subs) : \A n \in Nodes : subs[k].result[n] # "undecided"

\* createTransactionFinalizer calls the request finalizer.
Dirtied == UseTransaction => PrimaryDirtied

\* Where the finalizers are.
FinalizersMatch ==
    /\ phase \in {"proxying", "finalize", "record"} \/ (phase = "done" /\ ~Dirtied) =>
          repoGen = 1 /\ gen = [n \in Replicas |-> IF n \in Nodes THEN 1 ELSE 0]
    /\ phase \in {"record", "enqueue"} => Dirtied
    /\ phase \in {"record", "enqueue"} \/ (Finalized /\ Dirtied) => outdated = OutdatedReplicas
    /\ phase = "enqueue" \/ (Finalized /\ Dirtied) =>
          \A n \in Replicas : gen[n] = repoGen => n \in Nodes \ outdated
    /\ Finalized /\ Dirtied => outdated \subseteq jobs

CInv ==
    /\ IInv /\ PathInv
    /\ CTypeOK
    /\ VotesAnswered
    /\ NodesWaitForVotes
    /\ DisksFollowVotes
    /\ DroppedAreLeftBehind
    /\ CleanedUp
    /\ FinalizersMatch
=============================================================================
