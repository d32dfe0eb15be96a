-------------------------- MODULE ConcurrencyLimiter --------------------------
(***************************************************************************)
(* Limiting concurrent calls per key:                                      *)
(* internal/middleware/limithandler/concurrency_limiter.go.  The semaphore *)
(* of a key is created by the first caller, shared by reference count and  *)
(* dropped by the last one; it is named after the caller that created it.  *)
(* A step is what happens under the mutex or in one channel operation.     *)
(***************************************************************************)
EXTENDS Naturals, FiniteSets

CONSTANTS
    Callers,         \* calls of Limit
    LimitingKeys,
    Nobody,          \* a nil pointer
    MaxConcurrency,  \* maxConcurrencyLimit; 0 would not limit at all
    MaxQueueLength   \* maxQueueLength; 0 is a queue without a bound

ASSUME LimiterAssumption ==
    /\ IsFiniteSet(Callers) /\ Nobody \notin Callers \union LimitingKeys
    /\ MaxConcurrency \in Nat \ {0} /\ MaxQueueLength \in Nat

VARIABLES
    limitsByKey,        \* the semaphore of each key
    refcount,           \* per semaphore
    queueTokens,        \* tokens taken from each semaphore's queue
    concurrencyTokens,  \* tokens taken from each semaphore
    sem,                \* the semaphore each caller uses
    limitingKey,        \* the key that each caller asks for
    call                \* where each caller is in Limit

vars == <<limitsByKey, refcount, queueTokens, concurrencyTokens, sem, limitingKey, call>>

At(c, pc) == call[c] = pc
Goto(c, pc) == call' = [call EXCEPT ![c] = pc]

\* getConcurrencyLimit.
GetConcurrencyLimit(c) ==
    LET k == limitingKey[c]
        s == IF limitsByKey[k] = Nobody THEN c ELSE limitsByKey[k]
    IN  /\ At(c, "idle")
        /\ limitsByKey' = [limitsByKey EXCEPT ![k] = s]
        /\ refcount' = [refcount EXCEPT ![s] = @ + 1]
        /\ sem' = [sem EXCEPT ![c] = s]
        /\ Goto(c, "got")
        /\ UNCHANGED <<queueTokens, concurrencyTokens, limitingKey>>

\* Queue tokens are kept while the function runs.
QueueCapacity == MaxConcurrency + MaxQueueLength

\* acquire, first part: refused if the queue is full.  Without a bound there is
\* no queue, and its tokens are counted for nothing.
Enqueue(c) ==
    /\ At(c, "got")
    /\ IF MaxQueueLength > 0 /\ queueTokens[sem[c]] >= QueueCapacity
       THEN Goto(c, "refused") /\ UNCHANGED queueTokens
       ELSE /\ Goto(c, "queued")
            /\ queueTokens' = [queueTokens EXCEPT ![sem[c]] = @ + 1]
    /\ UNCHANGED <<limitsByKey, refcount, concurrencyTokens, sem, limitingKey>>

\* acquire, second part.
AcquireToken(c) ==
    /\ At(c, "queued")
    /\ concurrencyTokens[sem[c]] < MaxConcurrency
    /\ concurrencyTokens' = [concurrencyTokens EXCEPT ![sem[c]] = @ + 1]
    /\ Goto(c, "running")
    /\ UNCHANGED <<limitsByKey, refcount, queueTokens, sem, limitingKey>>

\* Mutant: the deferred function does not see the error.
GivenBack_Never(s) == queueTokens

\* The queue token goes back if acquire fails.
GivenBack(s) == [queueTokens EXCEPT ![s] = @ - 1]

\* acquire fails: the ticker ticks or the context ends while c is queued.
GiveUp(c) ==
    /\ At(c, "queued")
    /\ queueTokens' = GivenBack(sem[c])
    /\ Goto(c, "refused")
    /\ UNCHANGED <<limitsByKey, refcount, concurrencyTokens, sem, limitingKey>>

\* The limited function has returned: release, queue token first.
ReleaseQueue(c) ==
    /\ At(c, "running")
    /\ queueTokens' = [queueTokens EXCEPT ![sem[c]] = @ - 1]
    /\ Goto(c, "releasing")
    /\ UNCHANGED <<limitsByKey, refcount, concurrencyTokens, sem, limitingKey>>

\* Mutant: only the queue token is released.
Freed_Never(s) == concurrencyTokens

Freed(s) == [concurrencyTokens EXCEPT ![s] = @ - 1]

ReleaseToken(c) ==
    /\ At(c, "releasing")
    /\ concurrencyTokens' = Freed(sem[c])
    /\ Goto(c, "released")
    /\ UNCHANGED <<limitsByKey, refcount, queueTokens, sem, limitingKey>>

\* Mutant: the semaphore is dropped by the first caller that leaves.
Unused_Always(s) == TRUE

\* The caller is the last one that uses the semaphore.
Unused(s) == refcount[s] = 1

\* putConcurrencyLimit finds the key's semaphore again by the key.
PutConcurrencyLimit(c) ==
    LET k == limitingKey[c]
        s == limitsByKey[k]
    IN  /\ At(c, "released") \/ At(c, "refused")
        /\ IF s = Nobody
           THEN Goto(c, "panicked") /\ UNCHANGED <<limitsByKey, refcount>>
           ELSE /\ refcount' = [refcount EXCEPT ![s] = @ - 1]
                /\ limitsByKey' = IF Unused(s) THEN [limitsByKey EXCEPT ![k] = Nobody]
                                  ELSE limitsByKey
                /\ Goto(c, "left")
        /\ UNCHANGED <<queueTokens, concurrencyTokens, sem, limitingKey>>

Init ==
    /\ limitingKey \in [Callers -> LimitingKeys]
    /\ limitsByKey = [k \in LimitingKeys |-> Nobody]
    /\ refcount = [c \in Callers |-> 0]
    /\ queueTokens = [c \in Callers |-> 0]
    /\ concurrencyTokens = [c \in Callers |-> 0]
    /\ sem = [c \in Callers |-> Nobody]
    /\ call = [c \in Callers |-> "idle"]

Call(c) ==
    \/ Enqueue(c) \/ AcquireToken(c)
    \/ ReleaseQueue(c) \/ ReleaseToken(c) \/ PutConcurrencyLimit(c)

Next == \E c \in Callers : GetConcurrencyLimit(c) \/ Call(c) \/ GiveUp(c)

Spec == Init /\ [][Next]_vars

\* The Go scheduler runs every goroutine that can go on, and the limited
\* functions return.  Nobody has to give up.
FairSpec == Spec /\ WF_vars(\E c \in Callers : Call(c))

-----------------------------------------------------------------------------
(* Properties *)

Calls == {"idle", "got", "queued", "running", "refused", "releasing", "released", "left"}

\* Types.  Nobody panics for a semaphore that is not in the map, and no token
\* count is negative.
TypeOK ==
    /\ limitsByKey \in [LimitingKeys -> Callers \union {Nobody}]
    /\ refcount \in [Callers -> Nat]
    /\ queueTokens \in [Callers -> Nat] /\ concurrencyTokens \in [Callers -> Nat]
    /\ sem \in [Callers -> Callers \union {Nobody}]
    /\ limitingKey \in [Callers -> LimitingKeys]
    /\ call \in [Callers -> Calls]

Using(s, pcs) == {c \in Callers : sem[c] = s /\ call[c] \in pcs}

\* Every token and every reference belongs to a caller that still has to give
\* it back, whichever way it leaves, and nothing is kept for a key without callers.
TokensAreHeld ==
    /\ TypeOK
    /\ \A s \in Callers :
         /\ queueTokens[s] = Cardinality(Using(s, {"queued", "running"}))
         /\ concurrencyTokens[s] = Cardinality(Using(s, {"running", "releasing"}))
         /\ refcount[s] = Cardinality(Using(s, Calls \ {"idle", "left"}))
    /\ \A k \in LimitingKeys : limitsByKey[k] # Nobody => refcount[limitsByKey[k]] > 0

\* Where a call is for who waits for it.  The function of a caller that returns
\* its tokens still counts, as its token does.
PhaseOf(pc) ==
    CASE pc = "idle" -> "idle"
      [] pc \in {"got", "queued"} -> "waiting"
      [] pc \in {"running", "releasing"} -> "running"
      [] OTHER -> "done"

Promise == INSTANCE Limiter WITH phase <- [c \in Callers |-> PhaseOf(call[c])]

\* Limit keeps its promise for every key, although semaphores come and go while
\* callers are on their way: no more than MaxConcurrency functions of a key run.
ConcurrencyIsLimited == Promise!Spec

\* What TokensAreHeld rests on.  A caller that has not left uses the semaphore
\* that the map has for its key, so that putConcurrencyLimit finds it again, and
\* the semaphore of a key was created for that key.
SemaphoresAreFound ==
    /\ \A c \in Callers : call[c] \notin {"idle", "left"} =>
         sem[c] # Nobody /\ sem[c] = limitsByKey[limitingKey[c]]
    /\ \A k \in LimitingKeys : limitsByKey[k] # Nobody =>
         /\ limitingKey[limitsByKey[k]] = k
         /\ call[limitsByKey[k]] # "idle"

IInv == TokensAreHeld /\ SemaphoresAreFound

\* Every call ends without anybody giving up, so that all tokens are returned.
EveryCallEnds == \A c \in Callers : call[c] = "got" ~> call[c] = "left"

=============================================================================
