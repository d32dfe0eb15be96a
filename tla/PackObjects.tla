----------------------------- MODULE PackObjects -----------------------------
(***************************************************************************)
(* The pack-objects hook, internal/gitaly/service/hook/pack_objects.go: it *)
(* looks its request up in the stream cache, and git-pack-objects, which   *)
(* fills the cache's entries, runs in the concurrency limiter.  Readers    *)
(* hold back the writers, writers occupy the slots of the limiter, and the *)
(* limiter decides whether other readers have anything to read.            *)
(*                                                                         *)
(* The limiter is used as module Limiter promises.                         *)
(***************************************************************************)
EXTENDS StreamCache

CONSTANTS
    LimitingKeys,    \* repositories, or users
    LimitingKeyOf,   \* the limiting key that is part of each cache key
    MaxConcurrency,
    MaxFaults        \* bound on the things that go wrong

ASSUME PackObjectsAssumption ==
    /\ LimitingKeyOf \in [Keys -> LimitingKeys]
    /\ MaxConcurrency \in Nat \ {0} /\ MaxFaults \in Nat

VARIABLE faults

vars == <<cache, faults>>

-----------------------------------------------------------------------------
(* runPackObjectsLimited, in the goroutine of entry e *)

PhaseOf(pc) ==
    CASE pc = "none" -> "idle"
      [] pc = "starting" -> "waiting"
      [] pc \in {"writing", "written", "blocked"} -> "running"
      [] OTHER -> "done"

Limit == INSTANCE Limiter WITH
    Callers <- Requests,
    phase <- [e \in Requests |-> PhaseOf(creator[e])],
    limitingKey <- [e \in Requests |-> LimitingKeyOf[key[e]]]

\* Limit calls its function: git-pack-objects starts.
Spawn(e) ==
    /\ creator[e] = "starting" /\ Limit!MayRun(LimitingKeyOf[key[e]])
    /\ Becomes(e, "writing")
    /\ UNCHANGED <<key, index, pipe, ends, waiter, stream>>

\* Limit returns an error, and so does create.  That the client has hung up is
\* no reason: the context is detached from its request.
Refused(e) ==
    /\ creator[e] = "starting"
    /\ Becomes(e, "failed")
    /\ UNCHANGED <<key, index, pipe, ends, waiter, stream>>

-----------------------------------------------------------------------------
Init == CacheInit /\ faults = 0

\* packObjectsHook is called.
FindOrCreate(r) == Find(r) \/ (~Opens(index[key[r]]) /\ Create(r))

\* What goroutines and requests do without anybody's help.
Creator(e) ==
    \/ Spawn(e)
    \/ Write(e) \/ SetWritePosition(e) \/ WriterWakes(e) \/ WrongCloseOrder(e)
    \/ CreateReturns(e) \/ Close(e, TRUE) \/ Prune(e) \/ SetError(e)

Reader(r) ==
    \/ ReaderBlocks(r) \/ ReaderWakes(r) \/ Wait(r)
    \/ \E n \in 0 .. Chunks : Read(r, n)

Progress == /\ \E r \in Requests : Creator(r) \/ Reader(r)
            /\ UNCHANGED faults

\* Clients that hang up, failures, refusals and the removal of old entries.
Fault == /\ faults < MaxFaults /\ faults' = faults + 1
         /\ \/ \E r \in Requests :
                  \/ Create(r) \/ CreateFails(r) \/ HangUp(r)
                  \/ Refused(r) \/ CreateReturnsError(r) \/ Close(r, FALSE)
            \/ \E k \in Keys : Clean(k)

Next == \/ Progress
        \/ (\E r \in Requests : FindOrCreate(r)) /\ UNCHANGED faults
        \/ Fault

Spec == Init /\ [][Next]_vars

\* The Go scheduler runs every goroutine that can go on, git-pack-objects
\* produces output or exits, and clients take what is sent to them; nobody else
\* has to do anything.
FairSpec == Spec /\ WF_vars(Progress)

-----------------------------------------------------------------------------
(* Properties *)

\* Every request that has been let into the cache ends, whoever else hangs up,
\* fails or is refused: nobody waits for a writer that waits for a slot that is
\* held by a writer that waits for a reader that has gone.
EveryRequestEnds ==
    \A r \in Requests : stream[r].pc \in Reading ~> stream[r].pc \in Ended

=============================================================================
