------------------------------- MODULE Limiter -------------------------------
(***************************************************************************)
(* What ConcurrencyLimiter.Limit promises: a call waits, then its function *)
(* runs, unless the call is refused, and never do more than MaxConcurrency *)
(* functions of one key run.                                               *)
(***************************************************************************)
EXTENDS Naturals, FiniteSets

CONSTANTS Callers, LimitingKeys, MaxConcurrency

VARIABLES
    phase,       \* of each caller
    limitingKey  \* of each caller, which does not change

Running(k) == {c \in Callers : phase[c] = "running" /\ limitingKey[c] = k}

Enters(c, p) == /\ phase' = [phase EXCEPT ![c] = p]
                /\ UNCHANGED limitingKey

Arrive(c) == phase[c] = "idle" /\ Enters(c, "waiting")

MayRun(k) == Cardinality(Running(k)) < MaxConcurrency

Admit(c) == phase[c] = "waiting" /\ MayRun(limitingKey[c]) /\ Enters(c, "running")

\* The queue is full or the call has waited for too long.
Refuse(c) == phase[c] = "waiting" /\ Enters(c, "done")

Return(c) == phase[c] = "running" /\ Enters(c, "done")

Init == /\ phase = [c \in Callers |-> "idle"]
        /\ limitingKey \in [Callers -> LimitingKeys]

Next == \E c \in Callers : Arrive(c) \/ Admit(c) \/ Refuse(c) \/ Return(c)

Spec == Init /\ [][Next]_<<phase, limitingKey>>

=============================================================================
