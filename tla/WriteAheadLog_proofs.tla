------------------------ MODULE WriteAheadLog_proofs ------------------------
(***************************************************************************)
(* Proofs about WriteAheadLog: as long as the deletion of an applied log   *)
(* entry is not interrupted, disk and memory stay consistent through       *)
(* crashes and restarts, and the manager implements ReferenceStore.        *)
(***************************************************************************)
EXTENDS WriteAheadLog, TLAPS, FiniteSetTheorems

USE TransactionsAssumption, LogAssumption

-----------------------------------------------------------------------------
(* Entries *)

\* The entry that verifyReferences makes of a valid request is well-formed.
LEMMA NewEntryType ==
  ASSUME NEW p \in Proposals, request[p] \in Transactions
  PROVE  NewEntry(p) \in Entry
<1>1. request[p] \in Transaction
  OBVIOUS
<1> QED
  BY <1>1 DEF NewEntry, Entry, Transaction, Verified

\* With a single entry in the log, its index is the last one.
LEMMA LastOfOne ==
  ASSUME appliedIndex \in Nat, DOMAIN log \subseteq {appliedIndex + 1}
  PROVE  DOMAIN log # {} => LastIndex = appliedIndex + 1
<1> SUFFICES ASSUME DOMAIN log # {} PROVE LastIndex = appliedIndex + 1
  OBVIOUS
<1>1. DOMAIN log = {appliedIndex + 1}
  OBVIOUS
<1>2. \E i \in DOMAIN log : \A j \in DOMAIN log : j <= i
  BY <1>1
<1>3. (CHOOSE i \in DOMAIN log : \A j \in DOMAIN log : j <= i) \in DOMAIN log
  BY <1>2, Zenon
<1> QED
  BY <1>1, <1>3 DEF LastIndex

-----------------------------------------------------------------------------
(* The inductive invariant *)

\* A fresh log is consistent (NewTransactionManager on an empty database).
LEMMA LogInvInit == Init => LogInv
  BY DEF Init, LogInv, TypeOK, LogConsistent, EntriesAccounted, ProposalsAccounted,
         NoEntries, NoProposal, NextIndex, IsPending, Fresh

\* A new proposal: nothing was decided about it yet.
LEMMA InvPropose ==
  ASSUME LogInv, NEW p \in Proposals, NEW t \in Transactions, Propose(p, t)
  PROVE  LogInv'
<1> USE DEF LogInv, disk, memory, history, Propose
<1>1. TypeOK'
  BY DEF TypeOK
<1>2. LogConsistent'
  BY DEF LogConsistent, NextIndex, Applying, Committed
<1>3. EntriesAccounted'
  BY DEF EntriesAccounted, ProposalsAccounted, NextIndex, IsPending
<1>4. ProposalsAccounted'
  BY DEF TypeOK, ProposalsAccounted, Fresh
<1> QED
  BY <1>1, <1>2, <1>3, <1>4

\* A caller that stops waiting leaves disk and memory alone.
LEMMA InvProposeCanceled ==
  ASSUME LogInv, NEW p \in Proposals, ProposeCanceled(p)
  PROVE  LogInv'
<1> USE DEF LogInv, disk, memory, history, ProposeCanceled
<1>1. TypeOK'
  BY DEF TypeOK
<1>2. LogConsistent'
  BY DEF LogConsistent, NextIndex, Applying, Committed
<1>3. EntriesAccounted'
  BY DEF EntriesAccounted, NextIndex, IsPending
<1>4. ProposalsAccounted'
  BY DEF ProposalsAccounted, Fresh
<1> QED
  BY <1>1, <1>2, <1>3, <1>4

\* An admitted proposal is undecided, and the log is applied.
LEMMA InvAdmit ==
  ASSUME LogInv, NEW p \in Proposals, Admit(p)
  PROVE  LogInv'
<1> USE DEF LogInv, disk, memory, history, Admit
<1>1. TypeOK'
  BY DEF TypeOK
<1>2. LogConsistent'
  BY DEF TypeOK, LogConsistent, NextIndex
<1>3. EntriesAccounted'
  BY DEF EntriesAccounted, NextIndex, IsPending
<1>4. ProposalsAccounted'
  BY DEF TypeOK, ProposalsAccounted, Fresh
<1> QED
  BY <1>1, <1>2, <1>3, <1>4

\* appendLogEntry: the only entry is the new one, which replaces one that was
\* stored with an error.
LEMMA InvAppendLogEntry ==
  ASSUME LogInv, AppendLogEntry
  PROVE  LogInv'
<1> USE DEF LogInv
<1> DEFINE n == appended + 1
           e == NewEntry(admitted)
<1>1. /\ admitted \in Proposals /\ Fresh(admitted)
      /\ status[admitted] \in {"waiting", "returned"}
      /\ request[admitted] \in Transactions
      /\ appended = applied /\ appliedIndex = applied /\ n \in Nat
  BY DEF AppendLogEntry, TypeOK, LogConsistent, ProposalsAccounted
<1>2. /\ DOMAIN log' = {n} /\ log'[n] = e
      /\ appended' = n /\ applied' = applied /\ pc' = "run"
  <2>1. DOMAIN log \subseteq {n}
    BY <1>1 DEF AppendLogEntry, LogConsistent, NextIndex
  <2> QED
    BY <1>1, <2>1 DEF AppendLogEntry, With
<1>3. /\ DOMAIN awaiting' = DOMAIN awaiting \union {n}
      /\ awaiting'[n] = admitted
      /\ \A i \in DOMAIN awaiting \ {n} : awaiting'[i] = awaiting[i]
  BY DEF AppendLogEntry, With
<1>4. e \in Entry /\ e.proposal = admitted
  BY <1>1, NewEntryType DEF NewEntry
<1>5. TypeOK'
  BY <1>1, <1>2, <1>3, <1>4 DEF AppendLogEntry, TypeOK
<1>6. LogConsistent'
  BY <1>1, <1>2 DEF AppendLogEntry, LogConsistent, NextIndex
<1>7. EntriesAccounted'
  BY <1>1, <1>2, <1>4 DEF AppendLogEntry, EntriesAccounted, IsPending, NextIndex
<1>8. ProposalsAccounted'
  BY <1>1, <1>2, <1>3, <1>4 DEF AppendLogEntry, TypeOK, ProposalsAccounted, Fresh
<1> QED
  BY <1>5, <1>6, <1>7, <1>8

\* appendLogEntry with a database error: the entry, if there is one, still
\* applies to the references, and its index is not taken.
LEMMA InvAppendFails ==
  ASSUME LogInv, NEW stored \in BOOLEAN, AppendFails(stored)
  PROVE  LogInv'
<1> USE DEF LogInv
<1> DEFINE n == appended + 1
           e == NewEntry(admitted)
<1>1. /\ admitted \in Proposals /\ Fresh(admitted)
      /\ status[admitted] \in {"waiting", "returned"}
      /\ request[admitted] \in Transactions
      /\ appended = applied /\ appliedIndex = applied /\ n \in Nat
      /\ DOMAIN log \subseteq {n}
  BY DEF AppendFails, TypeOK, LogConsistent, ProposalsAccounted, NextIndex
<1>2. /\ appended' = appended /\ applied' = applied /\ pc' = "run"
      /\ log' = log \/ (DOMAIN log' = {n} /\ log'[n] = e)
  BY <1>1 DEF AppendFails, With
<1>3. /\ e \in Entry /\ e.proposal = admitted /\ e.new = request[admitted].new
      /\ e.refs = Verified(refs, request[admitted])
  BY <1>1, NewEntryType DEF NewEntry
<1>4. /\ status' = [status EXCEPT ![admitted] = "returned"]
      /\ admitted' = NoProposal
      /\ UNCHANGED <<refs, appliedIndex, awaiting, request, restarts, logged,
                     performed, acknowledged, refused>>
  BY DEF AppendFails, Answered, history
<1>5. TypeOK'
  BY <1>1, <1>2, <1>3, <1>4 DEF TypeOK
<1>6. LogConsistent'
  BY <1>1, <1>2, <1>4 DEF AppendFails, LogConsistent, NextIndex
<1>7. EntriesAccounted'
  <2>1. ~IsPending /\ ~IsPending'
    BY <1>1, <1>2 DEF AppendFails, IsPending, NextIndex, TypeOK
  <2>2. Acceptable(refs, request[admitted])
    BY DEF AppendFails
  <2>3. CASE log' = log
    BY <2>1, <2>3, <1>4 DEF EntriesAccounted, Fresh
  <2>4. CASE DOMAIN log' = {n} /\ log'[n] = e
    BY <2>1, <2>2, <2>4, <1>1, <1>3, <1>4 DEF EntriesAccounted, Fresh
  <2> QED
    BY <2>3, <2>4, <1>2
<1>8. ProposalsAccounted'
  <2>1. \A p \in Proposals : p # admitted /\ Fresh(p) => Fresh(p)'
    BY <1>1, <1>2, <1>3, <1>4 DEF Fresh
  <2> QED
    BY <2>1, <1>1, <1>2, <1>4 DEF TypeOK, ProposalsAccounted
<1> QED
  BY <1>5, <1>6, <1>7, <1>8

\* A refused proposal has no entry.
LEMMA InvVerificationFails ==
  ASSUME LogInv, VerificationFails
  PROVE  LogInv'
<1> USE DEF LogInv, disk, memory, history, VerificationFails
<1>1. TypeOK'
  BY DEF TypeOK, Answered, ProposalsAccounted
<1>2. LogConsistent'
  BY DEF LogConsistent, NextIndex
<1>3. EntriesAccounted'
  BY DEF EntriesAccounted, NextIndex, IsPending
<1>4. ProposalsAccounted'
  BY DEF ProposalsAccounted, Answered, Fresh
<1> QED
  BY <1>1, <1>2, <1>3, <1>4

\* A proposal that could not be verified has no entry.
LEMMA InvVerificationErrs ==
  ASSUME LogInv, VerificationErrs
  PROVE  LogInv'
<1> USE DEF LogInv, disk, memory, history, VerificationErrs
<1>1. TypeOK'
  BY DEF TypeOK, Answered
<1>2. LogConsistent'
  BY DEF LogConsistent, NextIndex
<1>3. EntriesAccounted'
  BY DEF EntriesAccounted, NextIndex, IsPending
<1>4. ProposalsAccounted'
  BY DEF ProposalsAccounted, Answered, Fresh
<1> QED
  BY <1>1, <1>2, <1>3, <1>4

\* applyLogEntry starts with the only entry.
LEMMA InvReadLogEntry ==
  ASSUME LogInv, ReadLogEntry
  PROVE  LogInv'
<1> USE DEF LogInv, disk, memory, history, ReadLogEntry
<1>1. TypeOK'
  BY DEF TypeOK
<1>2. LogConsistent'
  BY DEF TypeOK, LogConsistent, NextIndex
<1>3. EntriesAccounted'
  BY DEF EntriesAccounted, NextIndex, IsPending
<1>4. ProposalsAccounted'
  BY DEF ProposalsAccounted, Fresh
<1> QED
  BY <1>1, <1>2, <1>3, <1>4

\* git writes references only while an entry counts.
LEMMA InvWriteReference ==
  ASSUME LogInv, NEW r \in Refs, WriteReference(r)
  PROVE  LogInv'
<1> USE DEF LogInv, disk, memory, history, WriteReference
<1>1. TypeOK'
  BY DEF TypeOK, LogConsistent, Entry, Applying
<1>2. LogConsistent'
  BY DEF LogConsistent, NextIndex
<1>3. EntriesAccounted'
  BY DEF TypeOK, LogConsistent, EntriesAccounted, NextIndex, IsPending
<1>4. ProposalsAccounted'
  BY DEF ProposalsAccounted, Fresh
<1> QED
  BY <1>1, <1>2, <1>3, <1>4

\* git has committed when all references of the entry are written.
LEMMA InvCommitReferences ==
  ASSUME LogInv, CommitReferences
  PROVE  LogInv'
<1> USE DEF LogInv, disk, memory, history, CommitReferences
<1>1. TypeOK'
  BY DEF TypeOK, LogConsistent, Entry, Applying
<1>2. LogConsistent'
  BY DEF LogConsistent, NextIndex, Applying, Committed
<1>3. EntriesAccounted'
  BY DEF EntriesAccounted, NextIndex, IsPending
<1>4. ProposalsAccounted'
  BY DEF ProposalsAccounted, Fresh
<1> QED
  BY <1>1, <1>2, <1>3, <1>4

\* storeAppliedLogIndex moves the index on disk ahead of the one in memory.
LEMMA InvStoreAppliedLogIndex ==
  ASSUME LogInv, StoreAppliedLogIndex
  PROVE  LogInv'
<1> USE DEF LogInv, disk, memory, history, StoreAppliedLogIndex
<1>1. TypeOK'
  BY DEF TypeOK
<1>2. LogConsistent'
  BY DEF LogConsistent, NextIndex, Applying, Committed
<1>3. EntriesAccounted'
  BY DEF EntriesAccounted, NextIndex, IsPending
<1>4. ProposalsAccounted'
  BY DEF ProposalsAccounted, Fresh
<1> QED
  BY <1>1, <1>2, <1>3, <1>4

\* deleteKey removes the only entry and the indexes agree again.
LEMMA InvDeleteLogEntry ==
  ASSUME LogInv, DeleteLogEntry
  PROVE  LogInv'
<1> USE DEF LogInv
<1> DEFINE n == applied + 1
<1>1. /\ applied \in Nat /\ n \in Nat /\ appended = n /\ appliedIndex = n
      /\ DOMAIN log = {n}
  BY DEF DeleteLogEntry, TypeOK, LogConsistent, NextIndex
<1>2. /\ DOMAIN log' = {} /\ applied' = n /\ pc' = "run"
      /\ UNCHANGED <<refs, appliedIndex, appended, admitted, request, restarts,
                     logged, performed, refused>>
  BY <1>1 DEF DeleteLogEntry, Without
<1>3. /\ DOMAIN awaiting' \subseteq DOMAIN awaiting
      /\ \A i \in DOMAIN awaiting' : awaiting'[i] = awaiting[i]
  BY DEF DeleteLogEntry, Without
<1>4. \/ UNCHANGED <<status, acknowledged>>
      \/ \E p \in logged : /\ status' = [status EXCEPT ![p] = "returned"]
                           /\ acknowledged' = acknowledged \union {p}
  BY DEF DeleteLogEntry, ProposalsAccounted, Answered
<1>5. TypeOK'
  BY <1>1, <1>2, <1>3, <1>4 DEF TypeOK
<1>6. LogConsistent'
  BY <1>1, <1>2 DEF LogConsistent
<1>7. EntriesAccounted'
  BY <1>2 DEF EntriesAccounted
<1>8. ProposalsAccounted'
  <2>1. \A p \in Proposals : Fresh(p) => Fresh(p)'
    BY <1>2 DEF Fresh
  <2>2. \A p \in logged : status[p] \notin {"new", "queued"}
    BY DEF TypeOK, ProposalsAccounted, Fresh
  <2> QED
    BY <2>1, <2>2, <1>2, <1>3, <1>4 DEF TypeOK, ProposalsAccounted
<1> QED
  BY <1>5, <1>6, <1>7, <1>8

\* A crash loses memory; what the log still holds counts from here on.
LEMMA InvInterrupted ==
  ASSUME LogInv, ~DeletesInterrupted, Interrupted
  PROVE  LogInv'
<1> USE DEF LogInv, disk, memory, history, Interrupted
<1>1. TypeOK'
  BY DEF TypeOK, NoEntries, Entry
<1>2. LogConsistent'
  BY DEF LogConsistent, NextIndex
<1>3. EntriesAccounted'
  BY DEF TypeOK, LogConsistent, EntriesAccounted, NextIndex, IsPending
<1>4. ProposalsAccounted'
  BY DEF ProposalsAccounted, Fresh, NoEntries
<1> QED
  BY <1>1, <1>2, <1>3, <1>4

\* initialize rebuilds the indexes from at most one entry.
LEMMA InvInitialize ==
  ASSUME LogInv, Initialize
  PROVE  LogInv'
<1> USE DEF LogInv
<1>1. /\ appliedIndex \in Nat
      /\ DOMAIN log \subseteq {appliedIndex + 1}
  BY DEF Initialize, TypeOK, LogConsistent, NextIndex
<1>2. LastIndex = IF DOMAIN log = {} THEN appliedIndex ELSE appliedIndex + 1
  BY <1>1, LastOfOne DEF LastIndex
<1>3. /\ applied' = appliedIndex /\ appended' = LastIndex /\ pc' = "run"
      /\ restarts' = restarts + 1
      /\ UNCHANGED <<refs, log, appliedIndex, admitted, awaiting, status, request,
                     logged, performed, acknowledged, refused>>
  BY DEF Initialize, disk, history
<1>4. TypeOK'
  BY <1>1, <1>2, <1>3 DEF TypeOK
<1>5. LogConsistent'
  <2>1. DOMAIN log = {} \/ DOMAIN log = {appliedIndex + 1}
    BY <1>1
  <2>2. CASE DOMAIN log = {}
    BY <2>2, <1>1, <1>2, <1>3 DEF LogConsistent
  <2>3. CASE DOMAIN log = {appliedIndex + 1}
    BY <2>3, <1>1, <1>2, <1>3 DEF LogConsistent, NextIndex
  <2> QED
    BY <2>1, <2>2, <2>3
<1>6. EntriesAccounted'
  <2>1. \A i \in DOMAIN log : IsPending /\ IsPending'
    BY <1>1, <1>2, <1>3 DEF Initialize, IsPending, NextIndex
  <2> QED
    BY <2>1, <1>3 DEF EntriesAccounted
<1>7. ProposalsAccounted'
  BY <1>3 DEF ProposalsAccounted, Fresh
<1> QED
  BY <1>4, <1>5, <1>6, <1>7

\* Every step of the manager and its callers keeps the invariant.
LEMMA LogInvStep ==
  ASSUME ~DeletesInterrupted, LogInv, [Next]_vars
  PROVE  LogInv'
<1>1. CASE UNCHANGED vars
  BY <1>1 DEF vars, disk, memory, history, LogInv, TypeOK, LogConsistent,
         EntriesAccounted,
              ProposalsAccounted, NextIndex, IsPending, Fresh, Applying, Committed
<1> QED
  BY <1>1, InvPropose, InvProposeCanceled, InvAdmit, InvAppendLogEntry, InvAppendFails,
     InvVerificationFails, InvVerificationErrs, InvReadLogEntry, InvWriteReference,
     InvCommitReferences, InvStoreAppliedLogIndex, InvDeleteLogEntry, InvInterrupted,
     InvInitialize DEF Next, Run, ProcessTransaction, ApplyLogEntry

\* Through crashes, failed database writes and restarts, disk and memory of the
\* TransactionManager stay consistent, unless a crash hits the moment between
\* the recording of the applied index and the deletion of the entry.
THEOREM LogInvCorrect ==
  ASSUME ~DeletesInterrupted
  PROVE  Spec => []LogInv
  BY LogInvInit, LogInvStep, PTL DEF Spec
-----------------------------------------------------------------------------
(* Refinement *)

\* An empty log maps to the initial store.
LEMMA RefineInit == Init => Store!Init
  BY DEF Init, Store!Init, LogicalTips, IsPending, NextIndex, NoEntries

\* Steps that neither change what the references logically point to nor tell
\* anyone anything are invisible to the store.
LEMMA Invisible ==
  ASSUME LogicalTips' = LogicalTips,
         UNCHANGED <<request, logged, acknowledged, refused>>
  PROVE  UNCHANGED Store!vars
  BY DEF Store!vars

\* Propose is the store's Propose.
LEMMA RefinePropose ==
  ASSUME LogInv, NEW p \in Proposals, NEW t \in Transactions, Propose(p, t)
  PROVE  Store!Next
<1>1. LogicalTips' = LogicalTips
  BY DEF Propose, disk, memory, LogicalTips, IsPending, NextIndex, Performed
<1>2. request[p] = NoTransaction
  BY DEF Propose, LogInv, ProposalsAccounted
<1>3. Store!Propose(p)
  BY <1>1, <1>2 DEF Propose, history, Store!Propose
<1> QED
  BY <1>3 DEF Store!Next

\* A transaction takes effect when its entry is stored.
LEMMA RefineAppendLogEntry ==
  ASSUME LogInv, AppendLogEntry
  PROVE  Store!Next
<1> DEFINE p == admitted
           n == applied + 1
<1>1. /\ p \in Proposals /\ request[p] # NoTransaction /\ p \notin logged \union refused
      /\ appended = applied /\ applied \in Nat
  BY DEF AppendLogEntry, LogInv, TypeOK, LogConsistent, ProposalsAccounted, Fresh
<1>2. LogicalTips = refs
  BY <1>1 DEF AppendLogEntry, LogicalTips, IsPending, NextIndex
<1>3. /\ n \in DOMAIN log' /\ log'[n] = NewEntry(p)
      /\ NextIndex' = n /\ n <= appended' /\ refs' = refs
  BY <1>1 DEF AppendLogEntry, With, NextIndex
<1>4. LogicalTips' = Performed(refs, NewEntry(p).refs, NewEntry(p).new)
  BY <1>3 DEF LogicalTips, IsPending, Performed
<1>5. LogicalTips' = Performed(refs, Verified(refs, request[p]), request[p].new)
  BY <1>4 DEF NewEntry
<1>6. Store!Commit(p)
  BY <1>1, <1>2, <1>5 DEF AppendLogEntry, Store!Commit, Acceptable, Verified, Performed,
     Store!Acceptable, Store!Verified, Store!Performed
<1> QED
  BY <1>1, <1>6 DEF Store!Next

\* A failed verification refuses, against the tips the store shows.
LEMMA RefineVerificationFails ==
  ASSUME LogInv, VerificationFails
  PROVE  Store!Next
<1>1. /\ admitted \in Proposals /\ request[admitted] # NoTransaction
      /\ admitted \notin logged \union refused
      /\ appended = applied /\ applied \in Nat
  BY DEF VerificationFails, LogInv, TypeOK, LogConsistent, ProposalsAccounted, Fresh
<1>2. LogicalTips = refs /\ LogicalTips' = refs
  BY <1>1 DEF VerificationFails, disk, LogicalTips, IsPending, NextIndex
<1>3. Store!Refuse(admitted)
  BY <1>1, <1>2 DEF VerificationFails, Store!Refuse, Acceptable, Verified,
     Store!Acceptable, Store!Verified
<1> QED
  BY <1>1, <1>3 DEF Store!Next

\* An error of the database leaves the store as it is, also when the entry
\* reached the disk: it does not count before a restart.
LEMMA RefineAppendFails ==
  ASSUME LogInv, NEW stored \in BOOLEAN, AppendFails(stored)
  PROVE  UNCHANGED Store!vars
<1>1. appended = applied /\ applied \in Nat
  BY DEF AppendFails, LogInv, TypeOK, LogConsistent
<1>2. LogicalTips = refs /\ LogicalTips' = refs
  BY <1>1 DEF AppendFails, LogicalTips, IsPending, NextIndex
<1> QED
  BY <1>2, Invisible DEF AppendFails, history

\* Writing the references of the entry that is being applied shows nothing new.
LEMMA RefineWriteReference ==
  ASSUME LogInv, NEW r \in Refs, WriteReference(r)
  PROVE  UNCHANGED Store!vars
<1>1. /\ applied + 1 \in DOMAIN log /\ appended = applied + 1 /\ pc = "applying"
      /\ applied \in Nat /\ refs \in [Refs -> Tips]
  BY DEF WriteReference, LogInv, TypeOK, LogConsistent
<1>2. LogicalTips = Performed(refs, Applying.refs, Applying.new)
  BY <1>1 DEF LogicalTips, IsPending, NextIndex, Applying
<1>3. LogicalTips' = Performed(refs', Applying.refs, Applying.new)
  BY <1>1 DEF WriteReference, memory, LogicalTips, IsPending, NextIndex, Applying,
         Performed
<1>4. LogicalTips' = LogicalTips
  BY <1>1, <1>2, <1>3 DEF WriteReference, Performed
<1> QED
  BY <1>4, Invisible DEF WriteReference, history

\* The entry can be deleted because the references are as it says.
LEMMA RefineDeleteLogEntry ==
  ASSUME LogInv, DeleteLogEntry
  PROVE  [Store!Next]_(Store!vars)
<1>1. /\ applied + 1 \in DOMAIN log /\ DOMAIN log = {applied + 1}
      /\ appended = applied + 1 /\ pc = "stored"
      /\ applied \in Nat /\ refs \in [Refs -> Tips] /\ Committed
  BY DEF DeleteLogEntry, LogInv, TypeOK, LogConsistent, NextIndex
<1>2. LogicalTips = Performed(refs, Applying.refs, Applying.new)
  BY <1>1 DEF LogicalTips, IsPending, NextIndex, Applying
<1>3. LogicalTips = refs
  BY <1>1, <1>2 DEF Performed, Committed
<1>4. DOMAIN log' = {}
  BY <1>1 DEF DeleteLogEntry, Without
<1>5. LogicalTips' = LogicalTips
  BY <1>3, <1>4 DEF DeleteLogEntry, LogicalTips, IsPending
<1>6. CASE applied + 1 \in DOMAIN awaiting
  <2> DEFINE p == awaiting[applied + 1]
  <2>1. p \in Proposals /\ p \in logged
    BY <1>6 DEF LogInv, TypeOK, ProposalsAccounted
  <2>2. Store!Acknowledge(p)
    BY <1>5, <1>6, <2>1 DEF DeleteLogEntry, Store!Acknowledge
  <2> QED
    BY <2>1, <2>2 DEF Store!Next
<1>7. CASE applied + 1 \notin DOMAIN awaiting
  BY <1>5, <1>7, Invisible DEF DeleteLogEntry
<1> QED
  BY <1>6, <1>7

\* An interruption is invisible, or makes an entry count whose storing had
\* been reported as failed.
LEMMA RefineInterrupted ==
  ASSUME LogInv, ~DeletesInterrupted, Interrupted
  PROVE  [Store!Next]_(Store!vars)
<1> DEFINE n == applied + 1
           p == log[n].proposal
<1>1. /\ pc \notin {"down", "stored"} /\ appliedIndex = applied /\ applied \in Nat
      /\ DOMAIN log \subseteq {n} /\ NextIndex = n /\ NextIndex' = n
      /\ UNCHANGED <<refs, log, request, acknowledged, refused>>
  BY DEF Interrupted, disk, LogInv, TypeOK, LogConsistent, NextIndex
<1>2. logged' = logged \union {log[i].proposal : i \in DOMAIN log}
  <2>1. {j \in DOMAIN log : j > appliedIndex} = DOMAIN log
    BY <1>1
  <2> QED
    BY <2>1 DEF Interrupted
<1>3. CASE n \notin DOMAIN log
  <2>1. LogicalTips' = LogicalTips /\ logged' = logged
    BY <1>1, <1>2, <1>3 DEF LogicalTips, IsPending
  <2> QED
    BY <1>1, <2>1, Invisible
<1>4. CASE n \in DOMAIN log /\ IsPending
  <2>1. LogicalTips' = LogicalTips
    BY <1>1, <1>4 DEF Interrupted, LogicalTips, IsPending, Performed
  <2>2. logged' = logged
    BY <1>1, <1>2, <1>4 DEF LogInv, EntriesAccounted
  <2> QED
    BY <1>1, <2>1, <2>2, Invisible
<1>5. CASE n \in DOMAIN log /\ ~IsPending
  <2>1. /\ p \in Proposals /\ p \notin logged \union refused
        /\ request[p] \in Transactions /\ Acceptable(refs, request[p])
        /\ log[n].refs = Verified(refs, request[p]) /\ log[n].new = request[p].new
    BY <1>5 DEF LogInv, TypeOK, Entry, EntriesAccounted
  <2>2. LogicalTips = refs
    BY <1>5 DEF LogicalTips
  <2>3. LogicalTips' = Performed(refs, log[n].refs, log[n].new)
    BY <1>1, <1>5 DEF Interrupted, LogicalTips, IsPending, Performed
  <2>4. LogicalTips' = Performed(refs, Verified(refs, request[p]), request[p].new)
    BY <2>1, <2>3
  <2>5. logged' = logged \union {p}
    BY <1>1, <1>2, <1>5
  <2>6. Store!Commit(p)
    BY <1>1, <2>1, <2>2, <2>4, <2>5 DEF Store!Commit, Acceptable, Verified, Performed,
       Store!Acceptable, Store!Verified, Store!Performed
  <2> QED
    BY <2>1, <2>6 DEF Store!Next
<1> QED
  BY <1>3, <1>4, <1>5

\* Recovery reads back exactly what was logged.
LEMMA RefineInitialize ==
  ASSUME LogInv, Initialize
  PROVE  UNCHANGED Store!vars
<1>1. /\ appliedIndex \in Nat /\ DOMAIN log \subseteq {appliedIndex + 1}
      /\ NextIndex = appliedIndex + 1 /\ NextIndex' = appliedIndex + 1
      /\ UNCHANGED <<refs, log, request, logged, acknowledged, refused>>
      /\ pc = "down" /\ pc' = "run"
  BY DEF Initialize, disk, history, LogInv, TypeOK, LogConsistent, NextIndex
<1>2. IsPending' <=> IsPending
  <2>2. appended' = LastIndex
    BY DEF Initialize
  <2>3. appliedIndex + 1 \in DOMAIN log => LastIndex = appliedIndex + 1
    BY <1>1, LastOfOne
  <2> QED
    BY <1>1, <2>2, <2>3 DEF IsPending
<1>3. LogicalTips' = LogicalTips
  BY <1>1, <1>2 DEF LogicalTips, Performed
<1> QED
  BY <1>1, <1>3, Invisible

\* Every step is a step of the store or invisible to it.
LEMMA RefineStep ==
  ASSUME ~DeletesInterrupted, LogInv, [Next]_vars
  PROVE  [Store!Next]_(Store!vars)
<1> DEFINE Same == UNCHANGED <<refs, log, appliedIndex, appended, applied,
                               request, logged, acknowledged, refused>>
<1>1. ASSUME Same, pc # "down", pc' # "down" PROVE UNCHANGED Store!vars
  BY <1>1, Invisible DEF LogicalTips, IsPending, NextIndex, Performed
<1>2. ASSUME NEW p \in Proposals, ProposeCanceled(p) PROVE UNCHANGED Store!vars
  BY <1>2, Invisible DEF ProposeCanceled, disk, memory, history, LogicalTips, IsPending,
     NextIndex, Performed
<1>3. ASSUME NEW p \in Proposals, Admit(p) PROVE UNCHANGED Store!vars
  BY <1>1, <1>3 DEF Admit, disk, history
<1>4. CASE VerificationErrs
  BY <1>1, <1>4 DEF VerificationErrs, disk, history
<1>5. CASE ReadLogEntry
  BY <1>1, <1>5 DEF ReadLogEntry, disk, history
<1>6. CASE CommitReferences
  BY <1>1, <1>6 DEF CommitReferences, disk
<1>7. CASE StoreAppliedLogIndex
  <2>1. LogicalTips' = LogicalTips
    BY <1>7 DEF StoreAppliedLogIndex, LogicalTips, IsPending, NextIndex, Performed
  <2> QED
    BY <1>7, <2>1, Invisible DEF StoreAppliedLogIndex, history
<1>8. CASE UNCHANGED vars
  BY <1>8, Invisible DEF vars, disk, memory, history, LogicalTips, IsPending,
         NextIndex, Performed
<1> QED
  BY <1>2, <1>3, <1>4, <1>5, <1>6, <1>7, <1>8, RefinePropose, RefineAppendLogEntry,
     RefineVerificationFails, RefineAppendFails, RefineWriteReference, RefineDeleteLogEntry,
     RefineInterrupted, RefineInitialize DEF Next, Run, ProcessTransaction, ApplyLogEntry

\* The TransactionManager implements the store that never crashes: Propose's
\* promises hold for every set of references, proposals and transactions and
\* every number of crashes, except for that moment.
THEOREM AtomicStoreCorrect ==
  ASSUME ~DeletesInterrupted
  PROVE  Spec => AtomicStore
<1>1. Init => Store!Init
  BY RefineInit
<1>2. LogInv /\ [Next]_vars => [Store!Next]_(Store!vars)
  BY RefineStep
<1>3. Spec => []LogInv
  BY LogInvCorrect
<1> QED
  BY <1>1, <1>2, <1>3, PTL DEF Spec, AtomicStore, Store!Spec

-----------------------------------------------------------------------------
(* The log index *)

\* A write that is logged gets the next index.
LEMMA CountAppend ==
  ASSUME LogInv, LogCounted, AppendLogEntry
  PROVE  LogCounted'
<1>1. admitted \notin logged /\ appended \in Nat
  BY DEF LogInv, TypeOK, ProposalsAccounted, Fresh, AppendLogEntry
<1>2. Cardinality(logged) = appended /\ IsFiniteSet(logged)
  BY DEF LogCounted, AppendLogEntry
<1>3. /\ IsFiniteSet(logged \union {admitted})
      /\ Cardinality(logged \union {admitted}) = appended + 1
  BY <1>1, <1>2, FS_AddElement
<1> QED
  BY <1>3 DEF LogCounted, AppendLogEntry

\* An entry whose storing was reported as failed has the next index too, and
\* counts when the manager goes down.
LEMMA CountInterrupted ==
  ASSUME LogInv, LogCounted, ~DeletesInterrupted, Interrupted
  PROVE  LogCounted'
<1> DEFINE n == applied + 1
           p == log[n].proposal
<1>1. /\ pc \notin {"down", "stored"} /\ appliedIndex = applied /\ applied \in Nat
      /\ DOMAIN log \subseteq {n} /\ NextIndex = n /\ appended \in {applied, n}
      /\ appended = n => n \in DOMAIN log
      /\ pc' = "down" /\ UNCHANGED <<log, appliedIndex>>
  BY DEF Interrupted, disk, LogInv, TypeOK, LogConsistent, NextIndex
<1>2. logged' = logged \union {log[i].proposal : i \in DOMAIN log}
  <2>1. {j \in DOMAIN log : j > appliedIndex} = DOMAIN log
    BY <1>1
  <2> QED
    BY <2>1 DEF Interrupted
<1>3. Cardinality(logged) = appended /\ IsFiniteSet(logged)
  BY <1>1 DEF LogCounted
<1>4. /\ LastIndex' = LastIndex
      /\ DOMAIN log = {} => LastIndex = applied
      /\ DOMAIN log # {} => LastIndex = n
  <2>1. LastIndex' = LastIndex
    <3>1. log' = log /\ appliedIndex' = appliedIndex
      BY <1>1
    <3> QED
      BY ONLY <3>1 DEF LastIndex
  <2>2. DOMAIN log = {} => LastIndex = applied
    BY <1>1 DEF LastIndex
  <2>3. DOMAIN log # {} => LastIndex = n
    BY <1>1, LastOfOne
  <2> QED
    BY <2>1, <2>2, <2>3
<1>5. CASE n \notin DOMAIN log
  BY <1>1, <1>2, <1>3, <1>4, <1>5 DEF LogCounted
<1>6. CASE n \in DOMAIN log /\ IsPending
  <2>1. logged' = logged /\ appended = n
    BY <1>1, <1>2, <1>6 DEF LogInv, EntriesAccounted, IsPending
  <2> QED
    BY <1>1, <1>3, <1>4, <1>6, <2>1 DEF LogCounted
<1>7. CASE n \in DOMAIN log /\ ~IsPending
  <2>1. p \notin logged /\ appended = applied
    BY <1>1, <1>7 DEF LogInv, EntriesAccounted, IsPending
  <2>2. logged' = logged \union {p}
    BY <1>1, <1>2, <1>7
  <2>3. IsFiniteSet(logged \union {p}) /\ Cardinality(logged \union {p}) = appended + 1
    BY <1>1, <1>3, <2>1, FS_AddElement
  <2> QED
    BY <1>1, <1>4, <1>7, <2>1, <2>2, <2>3 DEF LogCounted
<1> QED
  BY <1>5, <1>6, <1>7

\* No other step logs anything or moves the index.
LEMMA CountStep ==
  ASSUME ~DeletesInterrupted, LogInv, LogCounted, [Next]_vars
  PROVE  LogCounted'
<1>1. ASSUME UNCHANGED <<logged, log, appliedIndex, appended>>, pc = "down" <=> pc' = "down"
      PROVE  LogCounted'
  BY <1>1 DEF LogCounted, LastIndex
<1>2. ASSUME UNCHANGED <<logged, appended>>, pc # "down", pc' # "down"
      PROVE  LogCounted'
  BY <1>2 DEF LogCounted
<1>3. ASSUME NEW p \in Proposals, NEW t \in Transactions, Propose(p, t) PROVE LogCounted'
  BY <1>1, <1>3 DEF Propose, disk, memory, history
<1>4. ASSUME NEW p \in Proposals, ProposeCanceled(p) PROVE LogCounted'
  BY <1>1, <1>4 DEF ProposeCanceled, disk, memory, history
<1>5. ASSUME NEW p \in Proposals, Admit(p) PROVE LogCounted'
  BY <1>2, <1>5 DEF Admit, history
<1>6. ASSUME NEW stored \in BOOLEAN, AppendFails(stored) PROVE LogCounted'
  BY <1>2, <1>6 DEF AppendFails, history
<1>7. CASE VerificationFails \/ VerificationErrs
  BY <1>2, <1>7 DEF VerificationFails, VerificationErrs, history
<1>8. CASE ApplyLogEntry
  BY <1>2, <1>8 DEF ApplyLogEntry, ReadLogEntry, WriteReference, CommitReferences,
     StoreAppliedLogIndex, DeleteLogEntry, memory, history
<1>9. CASE Initialize
  BY <1>9 DEF Initialize, LogCounted, history
<1>10. CASE UNCHANGED vars
  BY <1>1, <1>10 DEF vars, disk, memory, history
<1> QED
  BY <1>3, <1>4, <1>5, <1>6, <1>7, <1>8, <1>9, <1>10, CountAppend, CountInterrupted
     DEF Next, Run, ProcessTransaction

\* The log index starts at 1 and grows by one with every logged write, without
\* gaps, across crashes, failed database writes and restarts, except for that
\* moment.
THEOREM IndexCountsWritesCorrect ==
  ASSUME ~DeletesInterrupted
  PROVE  Spec => []IndexCountsWrites
<1>1. Init => LogCounted
  BY FS_EmptySet DEF Init, LogCounted
<1>2. LogInv /\ LogCounted /\ [Next]_vars => LogCounted'
  BY CountStep
<1>3. LogCounted => IndexCountsWrites
  BY DEF LogCounted, IndexCountsWrites
<1>4. Spec => []LogInv
  BY LogInvCorrect
<1> QED
  BY <1>1, <1>2, <1>3, <1>4, PTL DEF Spec

=============================================================================
