--------------------------- MODULE WriteAheadLog ----------------------------
(***************************************************************************)
(* Gitaly's TransactionManager (internal/gitaly/transaction_manager.go):   *)
(* the single writer of a repository's references, with a write-ahead log  *)
(* in a key-value store.                                                   *)
(*                                                                         *)
(* Every write to the database, and every write of a reference by git, is  *)
(* a step; between any two of them the process may die, or Run may return  *)
(* because it was stopped or an operation failed.  A new manager then      *)
(* recovers from what is on disk.                                          *)
(***************************************************************************)
EXTENDS ReferenceUpdates, Integers, FiniteSets

CONSTANTS
    Proposals,           \* the calls of Propose
    MaxRestarts,         \* bound on the number of recoveries
    DeletesInterrupted   \* whether a log entry's deletion may be interrupted

ASSUME LogAssumption == MaxRestarts \in Nat /\ DeletesInterrupted \in BOOLEAN

VARIABLES
    refs,          \* the repository: where each reference points on disk
    log,           \* the database: the log entries, by index
    appliedIndex,  \* the database: the applied log index
    pc,            \* progress of Run
    appended,      \* mgr.appendedLogIndex
    applied,       \* mgr.appliedLogIndex
    admitted,      \* the proposal that was received from the admission queue
    awaiting,      \* awaitingTransactions: proposals by index of their entry
    status,        \* progress of each Propose
    request,       \* the transaction of each proposal
    restarts,      \* recoveries so far
    logged,        \* history: proposals that were logged
    performed,     \* history: proposals whose references were all written
    acknowledged,  \* history: proposals answered with success
    refused        \* history: proposals answered with a verification error

disk == <<refs, log, appliedIndex>>
memory == <<pc, appended, applied, admitted, awaiting>>
history == <<logged, performed, acknowledged, refused>>
vars == <<disk, memory, status, request, restarts, history>>

NoProposal == "none"
NoEntries == [i \in {} |-> 0]

\* A log entry: the references to update; the proposal it stems from is a
\* history annotation.
Entry == [refs : SUBSET Refs, new : [Refs -> Tips], proposal : Proposals]

Without(f, i) == [j \in DOMAIN f \ {i} |-> f[j]]
With(f, i, x) == [j \in DOMAIN f \union {i} |-> IF j = i THEN x ELSE f[j]]

-----------------------------------------------------------------------------
(* Propose *)

Propose(p, t) ==
    /\ pc # "down"
    /\ status[p] = "new"
    /\ status' = [status EXCEPT ![p] = "queued"]
    /\ request' = [request EXCEPT ![p] = t]
    /\ UNCHANGED <<disk, memory, restarts, history>>

\* The caller's context ends while it waits; the manager does not notice.
ProposeCanceled(p) ==
    /\ status[p] \in {"queued", "waiting"}
    /\ status' = [status EXCEPT ![p] = "returned"]
    /\ UNCHANGED <<disk, memory, request, restarts, history>>

-----------------------------------------------------------------------------
(* Run *)

\* A proposal is received once the log is applied.
Admit(p) ==
    /\ pc = "run"
    /\ ~(applied < appended)
    /\ status[p] = "queued"
    /\ status' = [status EXCEPT ![p] = "waiting"]
    /\ admitted' = p
    /\ pc' = "admitted"
    /\ UNCHANGED <<disk, appended, applied, awaiting, request, restarts, history>>

\* The result of proposal p is sent: its Propose returns.
Answered(p) == [status EXCEPT ![p] = "returned"]

NewEntry(p) ==
    [refs |-> Verified(refs, request[p]), new |-> request[p].new, proposal |-> p]

\* verifyReferences succeeds and the entry is stored.
AppendLogEntry ==
    /\ pc = "admitted"
    /\ Acceptable(refs, request[admitted])
    /\ log' = With(log, appended + 1, NewEntry(admitted))
    /\ appended' = appended + 1
    /\ awaiting' = With(awaiting, appended + 1, admitted)
    /\ admitted' = NoProposal
    /\ pc' = "run"
    /\ logged' = logged \union {admitted}
    /\ UNCHANGED <<refs, appliedIndex, applied, status, request, restarts,
                   performed, acknowledged, refused>>

\* The database reports an error; the entry may be in the log all the same.
AppendFails(stored) ==
    /\ pc = "admitted"
    /\ Acceptable(refs, request[admitted])
    /\ log' = IF stored THEN With(log, appended + 1, NewEntry(admitted)) ELSE log
    /\ status' = Answered(admitted)
    /\ admitted' = NoProposal
    /\ pc' = "run"
    /\ UNCHANGED <<refs, appliedIndex, appended, applied, awaiting, request, restarts, history>>

VerificationFails ==
    /\ pc = "admitted"
    /\ ~Acceptable(refs, request[admitted])
    /\ refused' = refused \union {admitted}
    /\ status' = Answered(admitted)
    /\ admitted' = NoProposal
    /\ pc' = "run"
    /\ UNCHANGED <<disk, appended, applied, awaiting, request, restarts,
                   logged, performed, acknowledged>>

\* verifyReferencesWithGit or the resolution of a reference fails.
VerificationErrs ==
    /\ pc = "admitted"
    /\ status' = Answered(admitted)
    /\ admitted' = NoProposal
    /\ pc' = "run"
    /\ UNCHANGED <<disk, appended, applied, awaiting, request, restarts, history>>

-----------------------------------------------------------------------------
(* applyLogEntry *)

Applying == log[applied + 1]

ReadLogEntry ==
    /\ pc = "run"
    /\ applied < appended
    /\ applied + 1 \in DOMAIN log
    /\ pc' = "applying"
    /\ UNCHANGED <<disk, appended, applied, admitted, awaiting, status, request, restarts, history>>

\* git update-ref writes the references one by one.
WriteReference(r) ==
    /\ pc = "applying"
    /\ r \in Applying.refs /\ refs[r] # Applying.new[r]
    /\ refs' = [refs EXCEPT ![r] = Applying.new[r]]
    /\ UNCHANGED <<log, appliedIndex, memory, status, request, restarts, history>>

\* Mutant: one written reference is enough.
Committed_Any == Applying.refs # {} => \E r \in Applying.refs : refs[r] = Applying.new[r]

Committed == \A r \in Applying.refs : refs[r] = Applying.new[r]

CommitReferences ==
    /\ pc = "applying"
    /\ Committed
    /\ performed' = performed \union {Applying.proposal}
    /\ pc' = "committed"
    /\ UNCHANGED <<disk, appended, applied, admitted, awaiting, status, request, restarts,
                   logged, acknowledged, refused>>

StoreAppliedLogIndex ==
    /\ pc = "committed"
    /\ appliedIndex' = applied + 1
    /\ pc' = "stored"
    /\ UNCHANGED <<refs, log, appended, applied, admitted, awaiting, status, request, restarts, history>>

\* The entry is deleted and whoever awaits it is told of success.
DeleteLogEntry ==
    /\ pc = "stored"
    /\ log' = Without(log, applied + 1)
    /\ applied' = applied + 1
    /\ pc' = "run"
    /\ IF applied + 1 \in DOMAIN awaiting
       THEN /\ status' = Answered(awaiting[applied + 1])
            /\ acknowledged' = acknowledged \union {awaiting[applied + 1]}
            /\ awaiting' = Without(awaiting, applied + 1)
       ELSE UNCHANGED <<status, acknowledged, awaiting>>
    /\ UNCHANGED <<refs, appliedIndex, appended, admitted, request, restarts,
                   logged, performed, refused>>

-----------------------------------------------------------------------------
(* Interruption and recovery *)

\* The process dies, or Run returns: it was stopped, or git or the database
\* failed.  Every Propose ends without a result.  An entry that was stored
\* although the database reported an error counts as logged from here on.
Interrupted ==
    /\ pc # "down"
    /\ pc = "stored" => DeletesInterrupted
    /\ pc' = "down"
    /\ appended' = 0 /\ applied' = 0
    /\ admitted' = NoProposal
    /\ awaiting' = NoEntries
    /\ status' = [p \in Proposals |->
            IF status[p] \in {"queued", "waiting"} THEN "returned" ELSE status[p]]
    /\ logged' = logged \union {log[i].proposal : i \in {j \in DOMAIN log : j > appliedIndex}}
    /\ UNCHANGED <<disk, request, restarts, performed, acknowledged, refused>>

\* Mutant: without a log entry the log is taken to be new.
LastIndex_Zero ==
    IF DOMAIN log = {} THEN 0 ELSE CHOOSE i \in DOMAIN log : \A j \in DOMAIN log : j <= i

\* Mutant: one too low.
LastIndex_Below == appliedIndex - 1

\* initialize: the index of the last entry in the log.
LastIndex ==
    IF DOMAIN log = {} THEN appliedIndex
    ELSE CHOOSE i \in DOMAIN log : \A j \in DOMAIN log : j <= i

Initialize ==
    /\ pc = "down"
    /\ restarts < MaxRestarts
    /\ restarts' = restarts + 1
    /\ applied' = appliedIndex
    /\ appended' = LastIndex
    /\ pc' = "run"
    /\ UNCHANGED <<disk, admitted, awaiting, status, request, history>>

-----------------------------------------------------------------------------
Init ==
    /\ refs = [r \in Refs |-> ZeroOID]
    /\ log = NoEntries
    /\ appliedIndex = 0
    /\ pc = "run"
    /\ appended = 0 /\ applied = 0
    /\ admitted = NoProposal
    /\ awaiting = NoEntries
    /\ status = [p \in Proposals |-> "new"]
    /\ request = [p \in Proposals |-> NoTransaction]
    /\ restarts = 0
    /\ logged = {} /\ performed = {} /\ acknowledged = {} /\ refused = {}

ProcessTransaction ==
    \/ AppendLogEntry \/ \E stored \in BOOLEAN : AppendFails(stored)
    \/ VerificationFails \/ VerificationErrs

ApplyLogEntry ==
    \/ ReadLogEntry \/ \E r \in Refs : WriteReference(r)
    \/ CommitReferences \/ StoreAppliedLogIndex \/ DeleteLogEntry

Run == ProcessTransaction \/ ApplyLogEntry \/ \E p \in Proposals : Admit(p)

Next ==
    \/ \E p \in Proposals : \/ \E t \in Transactions : Propose(p, t)
                            \/ ProposeCanceled(p)
    \/ Run
    \/ Interrupted
    \/ Initialize

Spec == Init /\ [][Next]_vars

\* The manager's goroutine runs, and an interrupted manager is started again.
FairSpec == Spec /\ WF_vars(Run) /\ WF_vars(Initialize)

-----------------------------------------------------------------------------
(* Properties *)

\* The shape of disk, memory and proposals.
TypeOK ==
    /\ refs \in [Refs -> Tips]
    /\ DOMAIN log \subseteq Nat /\ \A i \in DOMAIN log : log[i] \in Entry
    /\ appliedIndex \in Nat /\ appended \in Nat /\ applied \in Nat
    /\ pc \in {"run", "admitted", "applying", "committed", "stored", "down"}
    /\ admitted \in Proposals \union {NoProposal}
    /\ DOMAIN awaiting \subseteq Nat /\ \A i \in DOMAIN awaiting : awaiting[i] \in Proposals
    /\ status \in [Proposals -> {"new", "queued", "waiting", "returned"}]
    /\ request \in [Proposals -> Transactions \union {NoTransaction}]
    /\ restarts \in Nat
    /\ logged \subseteq Proposals /\ performed \subseteq Proposals
    /\ acknowledged \subseteq Proposals /\ refused \subseteq Proposals

\* The entry that is logged and not yet recorded as applied, if any.
NextIndex == (IF pc = "down" THEN appliedIndex ELSE applied) + 1
IsPending == NextIndex \in DOMAIN log /\ (pc = "down" \/ NextIndex <= appended)

\* Where the references point for those who rely on the log.
LogicalTips ==
    IF IsPending THEN Performed(refs, log[NextIndex].refs, log[NextIndex].new) ELSE refs

Store == INSTANCE ReferenceStore WITH tips <- LogicalTips, committed <- logged

\* p was not decided yet.
Fresh(p) ==
    /\ p \notin logged \union refused
    /\ \A i \in DOMAIN log : log[i].proposal # p

\* How disk and memory agree: at any time the log holds at most the entry after
\* the last applied one; appended and applied tell whether it counts; once git
\* has committed, and until the entry is gone, the references are as it says.
LogConsistent ==
    /\ \A i \in DOMAIN log : i = NextIndex
    /\ pc # "down" =>
        /\ appliedIndex = IF pc = "stored" THEN applied + 1 ELSE applied
        /\ appended \in {applied, applied + 1}
        /\ appended = applied + 1 => applied + 1 \in DOMAIN log
    /\ pc = "admitted" => appended = applied
    /\ pc \in {"applying", "committed", "stored"} => appended = applied + 1
    /\ pc \in {"committed", "stored"} => Committed

\* An entry that counts was logged by a proposal; one that does not, because
\* the database reported an error, still applies to the references as they are,
\* so that it may take effect after a restart.
EntriesAccounted ==
    \A i \in DOMAIN log :
        LET e == log[i]
            t == request[e.proposal]
        IN IF IsPending THEN e.proposal \in logged
           ELSE /\ e.proposal \notin logged \union refused
                /\ t \in Transactions /\ Acceptable(refs, t)
                /\ e.refs = Verified(refs, t) /\ e.new = t.new

\* A proposal is decided at most once, and only a logged one is awaited.
ProposalsAccounted ==
    /\ \A p \in Proposals :
        /\ status[p] = "new" <=> request[p] = NoTransaction
        /\ status[p] \in {"new", "queued"} => Fresh(p)
    /\ pc = "admitted" =>
        /\ admitted \in Proposals
        /\ Fresh(admitted)
        /\ status[admitted] \in {"waiting", "returned"}
    /\ \A i \in DOMAIN awaiting : awaiting[i] \in logged

LogInv == TypeOK /\ LogConsistent /\ EntriesAccounted /\ ProposalsAccounted

\* With its log, the manager implements the store that never crashes: a
\* transaction takes effect as a whole when it is logged, against the tips it
\* was verified with, and neither a half-written git transaction nor a second
\* application of an entry after a restart ever shows.
AtomicStore == Store!Spec

\* "A repository's first log entry starts at index 1 and the log index keeps
\* monotonically increasing from there on without gaps": the index of the last
\* entry is the number of logged writes, across restarts.
IndexCountsWrites ==
    pc # "down" => appended = Cardinality(logged)

\* What makes that inductive: while the manager is down, what it will take for the
\* last index when it starts is their number.
LogCounted ==
    /\ IsFiniteSet(logged)
    /\ Cardinality(logged) = IF pc = "down" THEN LastIndex ELSE appended

\* Every Propose returns, also without its context being canceled, as long as
\* the manager's goroutine runs or Run returns.
ProposeReturns ==
    \A p \in Proposals :
        status[p] = "queued" ~> status[p] = "returned"

\* "Once the write has been logged, it is effectively committed and will be
\* applied to the repository even after restarting."
LoggedIsApplied ==
    \A p \in Proposals : p \in logged ~> p \in performed \/ (pc = "down" /\ restarts = MaxRestarts)
=============================================================================
