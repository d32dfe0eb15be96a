-------------------------- MODULE PackObjects_proofs --------------------------
(***************************************************************************)
(* Proofs about the stream cache as the pack-objects hook uses it, for any *)
(* number of requests, keys, chunks, slots of the limiter and faults.      *)
(*                                                                         *)
(* The first part is about what goroutines that fill entries do, which     *)
(* leaves the requests where they are; the second about what requests do,  *)
(* which leaves the goroutines where they are.  The last part is about the *)
(* goroutines as callers of the limiter.                                   *)
(***************************************************************************)
EXTENDS PackObjects, TLAPS, FiniteSetTheorems

-----------------------------------------------------------------------------
(* Steps of goroutines *)

\* A step of e's goroutine other than Write and SetWritePosition writes nothing.
LEMMA WritesNothing ==
    ASSUME IInv, NEW e \in Requests, NEW b \in BOOLEAN,
           \/ Spawn(e) \/ Refused(e) \/ WriterWakes(e) \/ WrongCloseOrder(e)
           \/ CreateReturns(e) \/ CreateReturnsError(e)
           \/ Close(e, b) \/ Prune(e) \/ SetError(e)
    PROVE  /\ UNCHANGED <<key, size, wcursor, rcursor, rtoken, readers, abandoned, stream>>
           /\ creator' \in [Requests -> {"none", "starting", "writing", "written", "blocked",
                                 "finished", "failed"} \union Finished]
           /\ \A f \in Requests : creator'[f] = "none" <=> creator[f] = "none"
           /\ \A f \in Requests : creator[f] \in Finished => creator'[f] \in Finished
           /\ \A f \in Requests : f \in closed' => f \in closed \/ creator'[f] \in Finished
           /\ closed \subseteq closed'
           /\ \A f \in Requests : creator'[f] \in {"finished", "succeeded"} => size[f] = Chunks
<1> USE DEF IInv, TypeOK
<1>1. CASE Spawn(e)
  BY <1>1 DEF Spawn, Becomes, pipe, ends, Finished, EntriesMatch
<1>2. CASE Refused(e)
  BY <1>2 DEF Refused, Becomes, pipe, ends, Finished, EntriesMatch
<1>3. CASE WriterWakes(e)
  BY <1>3 DEF WriterWakes, Becomes, pipe, ends, Finished, EntriesMatch
<1>4. CASE WrongCloseOrder(e)
  BY <1>4 DEF WrongCloseOrder, Becomes, pipe, ends, Finished, EntriesMatch
<1>5. CASE CreateReturns(e)
  BY <1>5 DEF CreateReturns, Becomes, pipe, ends, Finished, EntriesMatch
<1>6. CASE CreateReturnsError(e)
  BY <1>6 DEF CreateReturnsError, Becomes, pipe, ends, Finished, EntriesMatch
<1>7. CASE Close(e, b)
  BY <1>7 DEF Close, Becomes, pipe, ends, Finished, EntriesMatch
<1>8. CASE Prune(e)
  BY <1>8 DEF Prune, Becomes, pipe, ends, Finished, EntriesMatch
<1>9. CASE SetError(e)
  BY <1>9 DEF SetError, Becomes, pipe, ends, Finished, EntriesMatch
<1> QED
  BY <1>1, <1>2, <1>3, <1>4, <1>5, <1>6, <1>7, <1>8, <1>9

\* Such steps keep the invariant.  All that is left to look at are the index,
\* which Prune only empties; waiter, which is set last; and blocked writers, of
\* which there is none more.
LEMMA QuietCreatorKeeps ==
    ASSUME IInv, NEW e \in Requests, NEW b \in BOOLEAN,
           \/ Spawn(e) \/ Refused(e) \/ WriterWakes(e) \/ WrongCloseOrder(e)
           \/ CreateReturns(e) \/ CreateReturnsError(e)
           \/ Close(e, b) \/ Prune(e) \/ SetError(e)
    PROVE  IInv'
<1> DEFINE Quiet ==
        /\ UNCHANGED <<key, size, wcursor, rcursor, rtoken, readers, abandoned, stream>>
        /\ creator' \in [Requests -> {"none", "starting", "writing", "written", "blocked",
                              "finished", "failed"} \union Finished]
        /\ \A f \in Requests : creator'[f] = "none" <=> creator[f] = "none"
        /\ \A f \in Requests : creator[f] \in Finished => creator'[f] \in Finished
        /\ \A f \in Requests : f \in closed' => f \in closed \/ creator'[f] \in Finished
        /\ closed \subseteq closed'
        /\ \A f \in Requests : creator'[f] \in {"finished", "succeeded"} => size[f] = Chunks
<1>1. Quiet
  BY WritesNothing
<1>2. /\ index' \in [Keys -> Requests \union {NoEntry}]
      /\ \A k \in Keys : index'[k] \in {index[k], NoEntry}
  BY CacheAssumption DEF IInv, TypeOK, Spawn, Refused, WriterWakes, WrongCloseOrder,
     CreateReturns, CreateReturnsError, Close, Prune, SetError, Pruned
<1>3. /\ waiter' \in [Requests -> {"open", "ok", "error"}]
      /\ \A f \in Requests : waiter'[f] # "open" => creator'[f] = "done"
      /\ \A f \in Requests : waiter'[f] = "ok" => size[f] = Chunks
  BY DEF IInv, TypeOK, EntriesMatch, Spawn, Refused, WriterWakes, WrongCloseOrder,
     CreateReturns, CreateReturnsError, Close, Prune, SetError, Becomes, Finished
<1>4. \A f \in Requests : creator'[f] = "blocked" =>
          creator[f] = "blocked" /\ (f \in wtoken => f \in wtoken')
  BY DEF IInv, TypeOK, Spawn, Refused, WriterWakes, WrongCloseOrder,
     CreateReturns, CreateReturnsError, Close, Prune, SetError, Becomes, pipe
<1> HIDE DEF Quiet
<1>5. TypeOK'
  BY <1>1, <1>2, <1>3 DEF IInv, TypeOK, Quiet
<1>6. IndexMatches'
  BY <1>1, <1>2 DEF IInv, TypeOK, IndexMatches, Quiet
<1>7. EntriesMatch'
  BY <1>1, <1>3 DEF IInv, TypeOK, EntriesMatch, Quiet
<1>8. StreamsMatch'
  BY <1>1 DEF IInv, TypeOK, StreamsMatch, Quiet
<1>9. SuccessIsComplete'
  BY <1>1 DEF IInv, SuccessIsComplete, Quiet
<1>10. NoLostWakeup'
  BY <1>1, <1>4 DEF IInv, NoLostWakeup, Quiet, Ahead, MustWait
<1> QED
  BY <1>5, <1>6, <1>7, <1>8, <1>9, <1>10 DEF IInv

\* Write keeps the invariant: a chunk is only added by a goroutine that has not
\* closed the writer, so nobody waits for its result; and it only blocks while
\* there is something to read.
LEMMA WriteKeeps ==
    ASSUME IInv, NEW e \in Requests, Write(e)
    PROVE  IInv'
<1> USE CacheAssumption DEF IInv, TypeOK, Write, Becomes, ends
<1>1. TypeOK'
  OBVIOUS
<1>2. IndexMatches'
  BY DEF IndexMatches
<1>3. EntriesMatch'
  BY DEF EntriesMatch, Finished
<1>4. StreamsMatch'
  BY DEF StreamsMatch, EntriesMatch, Finished, Reading
<1>5. SuccessIsComplete'
  BY DEF SuccessIsComplete
<1>6. NoLostWakeup'
  BY DEF NoLostWakeup, Ahead, MustWait
<1> QED
  BY <1>1, <1>2, <1>3, <1>4, <1>5, <1>6

\* SetWritePosition keeps the invariant: it tells everybody who can read on.
LEMMA SetWritePositionKeeps ==
    ASSUME IInv, NEW e \in Requests, SetWritePosition(e)
    PROVE  IInv'
<1> USE CacheAssumption DEF IInv, TypeOK, SetWritePosition, Becomes, ends, Position
<1>1. TypeOK'
  OBVIOUS
<1>2. IndexMatches'
  BY DEF IndexMatches
<1>3. EntriesMatch'
  BY DEF EntriesMatch, Finished
<1>4. StreamsMatch'
  BY DEF StreamsMatch
<1>5. SuccessIsComplete'
  BY DEF SuccessIsComplete
<1>6. NoLostWakeup'
  BY DEF NoLostWakeup, Ahead, MustWait, StreamsMatch, Reading
<1> QED
  BY <1>1, <1>2, <1>3, <1>4, <1>5, <1>6

-----------------------------------------------------------------------------
(* Steps of requests *)

Places == {"idle"} \union Reading \union Ended
Streams == [pc : Places, entry : Requests \union {NoEntry}, pos : 0 .. Chunks]

\* A request that moves, or moves on in the file, still has a place and a position.
LEMMA StreamsType ==
    ASSUME NEW s \in [Requests -> Streams], NEW r \in Requests,
           NEW pc \in Places, NEW pos \in 0 .. Chunks
    PROVE  /\ [s EXCEPT ![r].pc = pc] \in [Requests -> Streams]
           /\ [s EXCEPT ![r].pos = pos, ![r].pc = pc] \in [Requests -> Streams]
<1>1. ASSUME NEW t \in [Requests -> Streams]
      PROVE  [t EXCEPT ![r].pc = pc] \in [Requests -> Streams]
  <2>1. [t[r] EXCEPT !.pc = pc] \in Streams
    BY DEF Streams
  <2> QED
    BY <2>1
<1>2. [s EXCEPT ![r].pos = pos] \in [Requests -> Streams]
  <2>1. [s[r] EXCEPT !.pos = pos] \in Streams
    BY DEF Streams
  <2> QED
    BY <2>1
<1>3. [s EXCEPT ![r].pos = pos, ![r].pc = pc] \in [Requests -> Streams]
  <2> DEFINE t == [s EXCEPT ![r].pos = pos]
  <2>1. t \in [Requests -> Streams]
    BY <1>2
  <2>2. [t EXCEPT ![r].pc = pc] \in [Requests -> Streams]
    BY <1>1, <2>1
  <2> QED
    BY <2>2
<1> QED
  BY <1>1, <1>3

\* A hit keeps the invariant: the entry has readers again only if it is not one
\* whose writer has been told that there are none.
LEMMA FindKeeps ==
    ASSUME IInv, NEW r \in Requests, Find(r)
    PROVE  IInv'
<1> USE CacheAssumption DEF IInv, TypeOK, Find, Opens, pipe
<1>1. TypeOK'
  BY DEF Reading
<1>2. IndexMatches'
  BY DEF IndexMatches
<1>3. EntriesMatch'
  BY DEF EntriesMatch, Finished
<1>4. StreamsMatch'
  BY DEF StreamsMatch, IndexMatches, Reading
<1>5. SuccessIsComplete'
  BY DEF SuccessIsComplete
<1>6. NoLostWakeup'
  BY DEF NoLostWakeup, Ahead, MustWait
<1> QED
  BY <1>1, <1>2, <1>3, <1>4, <1>5, <1>6

\* A miss keeps the invariant: r's entry has not been used before.
LEMMA CreateKeeps ==
    ASSUME IInv, NEW r \in Requests, Create(r)
    PROVE  IInv'
<1> USE CacheAssumption DEF IInv, TypeOK, Create, pipe
<1>1. TypeOK'
  BY DEF Reading
<1>2. IndexMatches'
  BY DEF IndexMatches
<1>3. EntriesMatch'
  BY DEF EntriesMatch, Finished, StreamsMatch
<1>4. StreamsMatch'
  BY DEF StreamsMatch, IndexMatches, Reading
<1>5. SuccessIsComplete'
  BY DEF SuccessIsComplete
<1>6. NoLostWakeup'
  BY DEF NoLostWakeup, Ahead, MustWait
<1> QED
  BY <1>1, <1>2, <1>3, <1>4, <1>5, <1>6

\* So does a request for which nothing can be created.
LEMMA CreateFailsKeeps ==
    ASSUME IInv, NEW r \in Requests, CreateFails(r)
    PROVE  IInv'
<1> USE CacheAssumption DEF IInv, TypeOK, CreateFails, pipe, ends
<1>1. TypeOK'
  BY DEF Reading, Ended
<1>2. IndexMatches'
  BY DEF IndexMatches
<1>3. EntriesMatch'
  BY DEF EntriesMatch, Finished
<1>4. StreamsMatch'
  BY DEF StreamsMatch, Reading
<1>5. SuccessIsComplete'
  BY DEF SuccessIsComplete
<1>6. NoLostWakeup'
  BY DEF NoLostWakeup, Ahead, MustWait
<1> QED
  BY <1>1, <1>2, <1>3, <1>4, <1>5, <1>6

\* A reader only blocks while it knows of nothing to read.
LEMMA ReaderBlocksKeeps ==
    ASSUME IInv, NEW r \in Requests, ReaderBlocks(r)
    PROVE  IInv'
<1> USE CacheAssumption DEF IInv, TypeOK, ReaderBlocks, Moves, pipe, ends
<1>1. TypeOK'
  <2>1. stream \in [Requests -> Streams] /\ "blocked" \in Places /\ 0 \in 0 .. Chunks
    BY DEF Streams, Places, Reading
  <2> QED
    BY <2>1, StreamsType DEF Streams, Places
<1>2. IndexMatches'
  BY DEF IndexMatches
<1>3. EntriesMatch'
  BY DEF EntriesMatch, Finished
<1>4. StreamsMatch'
  BY DEF StreamsMatch, Reading
<1>5. SuccessIsComplete'
  BY DEF SuccessIsComplete
<1>6. NoLostWakeup'
  BY DEF NoLostWakeup, Ahead, MustWait
<1> QED
  BY <1>1, <1>2, <1>3, <1>4, <1>5, <1>6

\* One that wakes up uses up its notification, and nobody else's.
LEMMA ReaderWakesKeeps ==
    ASSUME IInv, NEW r \in Requests, ReaderWakes(r)
    PROVE  IInv'
<1> USE CacheAssumption DEF IInv, TypeOK, ReaderWakes, Moves, ends
<1>1. TypeOK'
  BY DEF Reading, Ended
<1>2. IndexMatches'
  BY DEF IndexMatches
<1>3. EntriesMatch'
  BY DEF EntriesMatch, Finished
<1>4. StreamsMatch'
  BY DEF StreamsMatch, Reading
<1>5. SuccessIsComplete'
  BY DEF SuccessIsComplete
<1>6. NoLostWakeup'
  BY DEF NoLostWakeup, Ahead, MustWait
<1> QED
  BY <1>1, <1>2, <1>3, <1>4, <1>5, <1>6

\* Read keeps the invariant: at the end of the file the writer has been closed,
\* because a reader that knows of something to read is not there yet; and a writer
\* that waits for readers is notified when the fastest one has caught up.
LEMMA ReadKeeps ==
    ASSUME IInv, NEW r \in Requests, NEW n \in 0 .. Chunks, Read(r, n)
    PROVE  IInv'
<1> USE CacheAssumption DEF IInv, TypeOK, Read, ends
<1>1. TypeOK'
  <2>1. stream \in [Requests -> Streams] /\ {"waiting", "sending"} \subseteq Places
    BY DEF Streams, Places, Reading
  <2>2. stream[r].entry \in Requests /\ stream[r].pos + n \in 0 .. Chunks
    BY DEF StreamsMatch, Reading
  <2>3. stream' \in [Requests -> Streams]
    <3>1. PICK pc \in {"waiting", "sending"} :
             stream' = [stream EXCEPT ![r].pos = stream[r].pos + n, ![r].pc = pc]
      BY Zenon
    <3>2. pc \in Places
      BY <2>1
    <3>3. [stream EXCEPT ![r].pos = stream[r].pos + n, ![r].pc = pc] \in [Requests -> Streams]
      BY ONLY r \in Requests, <3>2, <2>1, <2>2, StreamsType, Zenon
    <3> QED
      BY <3>1, <3>3, Zenon
  <2>4. rcursor' \in [Requests -> Nat]
    BY <2>2
  <2> QED
    BY <2>3, <2>4 DEF Streams, Places
<1>2. IndexMatches'
  BY DEF IndexMatches
<1>3. EntriesMatch'
  BY DEF EntriesMatch, Finished
<1>4. StreamsMatch'
  BY DEF StreamsMatch, Reading, MustWait, EntriesMatch
<1>5. SuccessIsComplete'
  BY DEF SuccessIsComplete
<1>6. NoLostWakeup'
  BY DEF NoLostWakeup, Ahead, MustWait, Notified, StreamsMatch, EntriesMatch, Finished, Reading
<1> QED
  BY <1>1, <1>2, <1>3, <1>4, <1>5, <1>6

\* Wait keeps the invariant: the result of a closed writer is "ok" only if all
\* chunks are in the file, and r has read what is in the file.
LEMMA WaitKeeps ==
    ASSUME IInv, NEW r \in Requests, Wait(r)
    PROVE  IInv'
<1> USE CacheAssumption DEF IInv, TypeOK, Wait, CloseReader, Moves
<1>1. TypeOK'
  <2>1. stream \in [Requests -> Streams] /\ {"ok", "error"} \subseteq Places
    BY DEF Streams, Places, Ended
  <2>2. stream[r].entry \in Requests
    BY DEF StreamsMatch, Reading
  <2>3. stream' \in [Requests -> Streams]
    <3> DEFINE pc == waiter[stream[r].entry]
    <3>a. pc \in {"ok", "error"} /\ 0 \in 0 .. Chunks
      BY <2>2
    <3>1. pc \in Places /\ 0 \in 0 .. Chunks
      BY ONLY <3>a, <2>1
    <3>2. stream' = [stream EXCEPT ![r].pc = pc]
      BY Zenon
    <3> HIDE DEF pc
    <3>3. [stream EXCEPT ![r].pc = pc] \in [Requests -> Streams]
      BY ONLY r \in Requests, <3>1, <2>1, StreamsType, Zenon
    <3> QED
      BY <3>2, <3>3, Zenon
  <2>4. readers' \in [Requests -> SUBSET Requests]
    BY <2>2
  <2> QED
    BY <2>3, <2>4 DEF Streams, Places
<1>2. IndexMatches'
  BY DEF IndexMatches
<1>3. EntriesMatch'
  BY DEF EntriesMatch, StreamsMatch, Reading
<1>4. StreamsMatch'
  BY DEF StreamsMatch, Reading
<1>5. SuccessIsComplete'
  BY DEF SuccessIsComplete, StreamsMatch, EntriesMatch, Reading
<1>6. NoLostWakeup'
  BY DEF NoLostWakeup, Ahead, MustWait, StreamsMatch, Reading
<1> QED
  BY <1>1, <1>2, <1>3, <1>4, <1>5, <1>6

\* A client that hangs up takes away its own notification, and leaves the entry
\* abandoned only if it was the last.
LEMMA HangUpKeeps ==
    ASSUME IInv, NEW r \in Requests, HangUp(r)
    PROVE  IInv'
<1> USE CacheAssumption DEF IInv, TypeOK, HangUp, CloseReader, NewStream
<1>1. TypeOK'
  <2>1. stream' \in [Requests -> Streams]
    BY DEF Streams, Places, Ended
  <2>2. stream[r].entry \in Requests
    BY DEF StreamsMatch, Reading
  <2>3. readers' \in [Requests -> SUBSET Requests]
    BY <2>2
  <2> QED
    BY <2>1, <2>3 DEF Streams, Places
<1>2. IndexMatches'
  BY DEF IndexMatches
<1>3. EntriesMatch'
  BY DEF EntriesMatch, StreamsMatch, Reading
<1>4. StreamsMatch'
  BY DEF StreamsMatch, Reading
<1>5. SuccessIsComplete'
  BY DEF SuccessIsComplete
<1>6. NoLostWakeup'
  BY DEF NoLostWakeup, Ahead, MustWait
<1> QED
  BY <1>1, <1>2, <1>3, <1>4, <1>5, <1>6

\* The removal of old entries affects nobody who has found one.
LEMMA CleanKeeps ==
    ASSUME IInv, NEW k \in Keys, Clean(k)
    PROVE  IInv'
<1> USE CacheAssumption DEF IInv, TypeOK, Clean, pipe, ends
<1>1. TypeOK'
  BY DEF Reading, Ended
<1>2. IndexMatches'
  BY DEF IndexMatches
<1>3. EntriesMatch'
  BY DEF EntriesMatch, Finished
<1>4. StreamsMatch'
  BY DEF StreamsMatch, Reading
<1>5. SuccessIsComplete'
  BY DEF SuccessIsComplete
<1>6. NoLostWakeup'
  BY DEF NoLostWakeup, Ahead, MustWait
<1> QED
  BY <1>1, <1>2, <1>3, <1>4, <1>5, <1>6

-----------------------------------------------------------------------------
(* The invariant *)

\* The invariant holds of the empty cache.
LEMMA InitHolds == Init => IInv
<1> SUFFICES ASSUME Init PROVE IInv
  OBVIOUS
<1> USE CacheAssumption DEF Init, CacheInit, NewStream
<1>1. TypeOK
  BY DEF TypeOK
<1>2. IndexMatches /\ EntriesMatch
  BY DEF IndexMatches, EntriesMatch
<1>3. StreamsMatch
  BY DEF StreamsMatch, Reading
<1>4. SuccessIsComplete /\ NoLostWakeup
  BY DEF SuccessIsComplete, NoLostWakeup
<1> QED
  BY <1>1, <1>2, <1>3, <1>4 DEF IInv

\* Every step keeps it, faults included.
LEMMA NextKeeps == IInv /\ [Next]_vars => IInv'
<1> SUFFICES ASSUME IInv, [Next]_vars PROVE IInv'
  OBVIOUS
<1>1. ASSUME NEW e \in Requests, Creator(e) PROVE IInv'
  BY <1>1, QuietCreatorKeeps, WriteKeeps, SetWritePositionKeeps DEF Creator
<1>2. ASSUME NEW r \in Requests, Reader(r) PROVE IInv'
  BY <1>2, ReaderBlocksKeeps, ReaderWakesKeeps, WaitKeeps, ReadKeeps DEF Reader
<1>3. CASE Progress
  BY <1>1, <1>2, <1>3 DEF Progress
<1>4. ASSUME NEW r \in Requests, FindOrCreate(r) PROVE IInv'
  BY <1>4, FindKeeps, CreateKeeps DEF FindOrCreate
<1>5. CASE Fault
  BY <1>5, QuietCreatorKeeps, CreateKeeps, CreateFailsKeeps, HangUpKeeps, CleanKeeps DEF Fault
<1>6. CASE UNCHANGED vars
  <2> USE <1>6 DEF IInv, vars, cache, pipe, ends
  <2>1. TypeOK' /\ IndexMatches' /\ EntriesMatch' /\ StreamsMatch'
    BY DEF TypeOK, IndexMatches, EntriesMatch, StreamsMatch
  <2>2. SuccessIsComplete' /\ NoLostWakeup'
    BY DEF SuccessIsComplete, NoLostWakeup, Ahead, MustWait
  <2> QED
    BY <2>1, <2>2
<1> QED
  BY <1>3, <1>4, <1>5, <1>6 DEF Next

\* The invariant holds in every reachable state.
LEMMA InvariantHolds == Spec => []IInv
  BY InitHolds, NextKeeps, PTL DEF Spec

-----------------------------------------------------------------------------
(* Theorems *)

\* However many requests share entries, fail or hang up, and whichever entries
\* are pruned or evicted in the meantime: a request that succeeds has read the
\* complete content of its key.
THEOREM SuccessIsCompleteCorrect == Spec => []SuccessIsComplete
<1>1. IInv => SuccessIsComplete
  BY DEF IInv
<1> QED
  BY <1>1, InvariantHolds, PTL

\* A writer is never told that everybody has gone (errWrongCloseOrder) as long as
\* one request reads from its entry.
THEOREM BystandersUnaffectedCorrect == Spec => []BystandersUnaffected
<1>1. IInv => BystandersUnaffected
  BY DEF IInv, BystandersUnaffected, StreamsMatch, EntriesMatch
<1> QED
  BY <1>1, InvariantHolds, PTL

\* The notifications of the pipe's two cursors are enough, for any number of
\* readers: a writer or a reader that is blocked although it could go on has one.
THEOREM NoLostWakeupCorrect == Spec => []NoLostWakeup
<1>1. IInv => NoLostWakeup
  BY DEF IInv
<1> QED
  BY <1>1, InvariantHolds, PTL

-----------------------------------------------------------------------------
(* The limiter *)

\* Module Limiter counts as this one does.
LEMMA SameCardinality == \A S : Limit!Cardinality(S) = Cardinality(S)
BY DEF Limit!Cardinality, Cardinality

\* The phases of the places of a goroutine.
LEMMA Phases ==
    /\ PhaseOf("none") = "idle" /\ PhaseOf("starting") = "waiting"
    /\ PhaseOf("writing") = "running" /\ PhaseOf("written") = "running"
    /\ PhaseOf("blocked") = "running"
    /\ PhaseOf("finished") = "done" /\ PhaseOf("failed") = "done"
    /\ \A pc \in Finished : PhaseOf(pc) = "done"
BY DEF PhaseOf, Finished

\* A step that takes e's goroutine to pc is a step of e into the phase of pc.
LEMMA Enters ==
    ASSUME IInv, NEW e \in Requests, NEW pc, Becomes(e, pc), UNCHANGED key
    PROVE  Limit!Enters(e, PhaseOf(pc))
BY DEF IInv, TypeOK, Becomes, Limit!Enters

\* A step between places of one phase is nothing that the limiter would notice.
LEMMA SamePhase ==
    ASSUME IInv, NEW e \in Requests, NEW pc, Becomes(e, pc), UNCHANGED key,
           PhaseOf(creator[e]) = PhaseOf(pc)
    PROVE  UNCHANGED <<[f \in Requests |-> PhaseOf(creator[f])],
                       [f \in Requests |-> LimitingKeyOf[key[f]]]>>
BY DEF IInv, TypeOK, Becomes

\* What the goroutine of an entry does is a step of its call of the limiter, or
\* nothing that the limiter would notice.
LEMMA CreatorRefines ==
    ASSUME IInv, NEW e \in Requests, NEW b \in BOOLEAN,
           \/ Spawn(e) \/ Refused(e) \/ Write(e) \/ SetWritePosition(e) \/ WriterWakes(e)
           \/ WrongCloseOrder(e) \/ CreateReturns(e) \/ CreateReturnsError(e)
           \/ Close(e, b) \/ Prune(e) \/ SetError(e)
    PROVE  [Limit!Next]_<<[f \in Requests |-> PhaseOf(creator[f])],
                          [f \in Requests |-> LimitingKeyOf[key[f]]]>>
<1>1. CASE Spawn(e)
  <2>1. Limit!Enters(e, "running")
    BY <1>1, Enters, Phases DEF Spawn
  <2>2. PhaseOf(creator[e]) = "waiting" /\ Limit!MayRun(LimitingKeyOf[key[e]])
    BY <1>1, Phases DEF Spawn
  <2> QED
    BY <2>1, <2>2 DEF Limit!Next, Limit!Admit
<1>2. CASE Refused(e)
  <2>1. Limit!Enters(e, "done") /\ PhaseOf(creator[e]) = "waiting"
    BY <1>2, Enters, Phases DEF Refused
  <2> QED
    BY <2>1 DEF Limit!Next, Limit!Refuse
<1>3. CASE WrongCloseOrder(e) \/ CreateReturns(e) \/ CreateReturnsError(e)
  <2>1. Limit!Enters(e, "done") /\ PhaseOf(creator[e]) = "running"
    BY <1>3, Enters, Phases DEF WrongCloseOrder, CreateReturns, CreateReturnsError
  <2> QED
    BY <2>1 DEF Limit!Next, Limit!Return
<1>4. CASE Write(e) \/ SetWritePosition(e) \/ WriterWakes(e)
  BY <1>4, SamePhase, Phases DEF Write, SetWritePosition, WriterWakes
<1>5. CASE Close(e, b) \/ Prune(e) \/ SetError(e)
  <2>1. creator[e] \in Finished \union {"finished", "failed"} /\ UNCHANGED key
    BY <1>5 DEF Close, Prune, SetError, Finished
  <2>2. \E pc \in Finished : Becomes(e, pc)
    BY <1>5 DEF Close, Prune, SetError, Finished
  <2> QED
    BY <2>1, <2>2, SamePhase, Phases
<1> QED
  BY <1>1, <1>2, <1>3, <1>4, <1>5

\* What requests do is only noticed by the limiter when a new entry is created.
LEMMA RequestRefines ==
    ASSUME IInv, NEW r \in Requests,
           \/ FindOrCreate(r) \/ Create(r) \/ CreateFails(r) \/ HangUp(r) \/ Reader(r)
           \/ \E k \in Keys : Clean(k)
    PROVE  [Limit!Next]_<<[f \in Requests |-> PhaseOf(creator[f])],
                          [f \in Requests |-> LimitingKeyOf[key[f]]]>>
<1>1. CASE Create(r)
  <2>1. Limit!Enters(r, "waiting")
    BY <1>1, Enters, Phases DEF Create, Becomes
  <2>2. PhaseOf(creator[r]) = "idle"
    BY <1>1, Phases DEF IInv, StreamsMatch, Create
  <2> QED
    BY <2>1, <2>2 DEF Limit!Next, Limit!Arrive
<1>2. CASE Find(r) \/ CreateFails(r) \/ HangUp(r) \/ Reader(r) \/ \E k \in Keys : Clean(k)
  <2>1. UNCHANGED <<creator, key>>
    BY <1>2 DEF Find, CreateFails, HangUp, Reader, ReaderBlocks, ReaderWakes, Wait, Read, Clean
  <2> QED
    BY <2>1
<1> QED
  BY <1>1, <1>2 DEF FindOrCreate

\* A step of the hook is a step of Limiter, or nothing that it would notice.
LEMMA StepRefines ==
    ASSUME IInv, [Next]_vars
    PROVE  [Limit!Next]_<<[e \in Requests |-> PhaseOf(creator[e])],
                          [e \in Requests |-> LimitingKeyOf[key[e]]]>>
<1>1. CASE Progress
  BY <1>1, CreatorRefines, RequestRefines DEF Progress, Creator
<1>2. CASE \E r \in Requests : FindOrCreate(r)
  BY <1>2, RequestRefines
<1>3. CASE Fault
  <2>1. CASE \E r \in Requests : \/ Create(r) \/ CreateFails(r) \/ HangUp(r)
                                 \/ Refused(r) \/ CreateReturnsError(r) \/ Close(r, FALSE)
    BY <2>1, CreatorRefines, RequestRefines
  <2>2. CASE \E k \in Keys : Clean(k)
    <3>1. UNCHANGED <<creator, key>>
      BY <2>2 DEF Clean
    <3> QED
      BY <3>1
  <2> QED
    BY <1>3, <2>1, <2>2 DEF Fault
<1>4. CASE UNCHANGED vars
  BY <1>4 DEF vars, cache
<1> QED
  BY <1>1, <1>2, <1>3, <1>4 DEF Next

\* The hook uses the limiter as module Limiter promises, from the arrival of a
\* call to its return, whatever becomes of the clients: every entry is a call of
\* its own, and git-pack-objects runs exactly while the limiter lets it.
THEOREM LimiterUsedCorrectly == Spec => Limit!Spec
<1>1. Init => Limit!Init
  BY Phases, CacheAssumption, PackObjectsAssumption DEF Init, CacheInit, Limit!Init
<1> QED
  BY <1>1, InitHolds, NextKeeps, StepRefines, PTL DEF Spec, Limit!Spec

\* The limiter counts finite sets.
LEMMA RunningIsFinite == \A k : IsFiniteSet(Limit!Running(k))
BY CacheAssumption, FS_Subset DEF Limit!Running

\* No step of Limiter takes the functions of a key beyond the limit.
LEMMA AdmitKeepsLimit ==
    ASSUME IInv, [Limit!Next]_<<[f \in Requests |-> PhaseOf(creator[f])],
                                [f \in Requests |-> LimitingKeyOf[key[f]]]>>,
           NEW k \in LimitingKeys, Cardinality(Limit!Running(k)) <= MaxConcurrency
    PROVE  Cardinality(Limit!Running(k)') <= MaxConcurrency
<1> DEFINE phase(e) == PhaseOf(creator[e])
           lkey(e) == LimitingKeyOf[key[e]]
<1>0. /\ Limit!Running(k) = {e \in Requests : phase(e) = "running" /\ lkey(e) = k}
      /\ Limit!Running(k)' = {e \in Requests : phase(e)' = "running" /\ lkey(e)' = k}
  BY DEF Limit!Running
<1>1. \A S : S \subseteq Limit!Running(k) => Cardinality(S) <= MaxConcurrency
  <2> SUFFICES ASSUME NEW S, S \subseteq Limit!Running(k)
               PROVE  Cardinality(S) <= MaxConcurrency
    OBVIOUS
  <2>1. /\ Cardinality(S) <= Cardinality(Limit!Running(k))
        /\ Cardinality(S) \in Nat /\ Cardinality(Limit!Running(k)) \in Nat
    BY RunningIsFinite, FS_Subset, FS_CardinalityType
  <2> QED
    BY <2>1, PackObjectsAssumption
<1>2. CASE UNCHANGED <<[f \in Requests |-> phase(f)], [f \in Requests |-> lkey(f)]>>
  <2>1. \A e \in Requests : phase(e)' = phase(e) /\ lkey(e)' = lkey(e)
    BY <1>2
  <2> QED
    BY <2>1, <1>0, <1>1
<1>3. ASSUME NEW c \in Requests, NEW p, Limit!Enters(c, p)
      PROVE  \A e \in Requests : /\ phase(e)' = IF e = c THEN p ELSE phase(e)
                                 /\ lkey(e)' = lkey(e)
  BY <1>3 DEF Limit!Enters
<1>4. ASSUME NEW c \in Requests, Limit!Arrive(c) \/ Limit!Refuse(c) \/ Limit!Return(c)
      PROVE  Limit!Running(k)' \subseteq Limit!Running(k)
  <2>1. PICK p \in {"waiting", "done"} : Limit!Enters(c, p)
    BY <1>4 DEF Limit!Arrive, Limit!Refuse, Limit!Return
  <2> QED
    BY <2>1, <1>3, <1>0
<1>5. ASSUME NEW c \in Requests, Limit!Admit(c)
      PROVE  Cardinality(Limit!Running(k)') <= MaxConcurrency
  <2>1. Limit!Enters(c, "running") /\ Limit!MayRun(lkey(c)) /\ phase(c) = "waiting"
    BY <1>5 DEF Limit!Admit
  <2>2. CASE lkey(c) # k
    <3>1. Limit!Running(k)' \subseteq Limit!Running(k)
      BY <2>1, <2>2, <1>3, <1>0
    <3> QED
      BY <3>1, <1>1
  <2>3. CASE lkey(c) = k
    <3>1. Limit!Running(k)' = Limit!Running(k) \union {c} /\ c \notin Limit!Running(k)
      BY <2>1, <2>3, <1>3, <1>0
    <3>2. Cardinality(Limit!Running(k)') = Cardinality(Limit!Running(k)) + 1
      BY <3>1, RunningIsFinite, FS_AddElement
    <3>3. Cardinality(Limit!Running(k)) < MaxConcurrency
      BY <2>1, <2>3, SameCardinality DEF Limit!MayRun
    <3> QED
      BY <3>2, <3>3, RunningIsFinite, FS_CardinalityType, PackObjectsAssumption
  <2> QED
    BY <2>2, <2>3
<1> QED
  BY <1>1, <1>2, <1>4, <1>5 DEF Limit!Next

\* However many clients ask, hang up and fail: never do more than MaxConcurrency
\* git-pack-objects processes run for one repository or user, those included that
\* are blocked because nobody reads what they write.
THEOREM PackObjectsLimited ==
    Spec => [](\A k \in LimitingKeys : Cardinality(Limit!Running(k)) <= MaxConcurrency)
<1> DEFINE Limited == \A k \in LimitingKeys : Cardinality(Limit!Running(k)) <= MaxConcurrency
<1>1. Init => Limited
  <2> SUFFICES ASSUME Init, NEW k \in LimitingKeys
               PROVE  Cardinality(Limit!Running(k)) <= MaxConcurrency
    OBVIOUS
  <2>1. Limit!Running(k) = {}
    BY Phases DEF Init, CacheInit, Limit!Running
  <2> QED
    BY <2>1, FS_EmptySet, PackObjectsAssumption
<1>2. IInv /\ Limited /\ [Next]_vars => Limited'
  BY StepRefines, AdmitKeepsLimit
<1> QED
  BY <1>1, <1>2, InvariantHolds, PTL DEF Spec

=============================================================================
