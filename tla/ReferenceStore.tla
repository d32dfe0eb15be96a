--------------------------- MODULE ReferenceStore ---------------------------
(***************************************************************************)
(* What Gitaly's TransactionManager promises to those who propose          *)
(* transactions: every transaction takes effect at once, as a whole and    *)
(* against the tips it was verified with, or never; one that was           *)
(* acknowledged took effect and one that was refused never does.  There    *)
(* is no log here, and nothing crashes.                                    *)
(***************************************************************************)
EXTENDS ReferenceUpdates

CONSTANTS Proposals  \* the calls of Propose

VARIABLES
    tips,          \* where the references point
    request,       \* the transaction of each proposal
    committed,     \* proposals that took effect
    acknowledged,  \* proposals whose caller was told of success
    refused        \* proposals that failed verification

vars == <<tips, request, committed, acknowledged, refused>>

Init ==
    /\ tips = [r \in Refs |-> ZeroOID]
    /\ request = [p \in Proposals |-> NoTransaction]
    /\ committed = {} /\ acknowledged = {} /\ refused = {}

Propose(p) ==
    /\ request[p] = NoTransaction
    /\ \E t \in Transactions : request' = [request EXCEPT ![p] = t]
    /\ UNCHANGED <<tips, committed, acknowledged, refused>>

Commit(p) ==
    /\ request[p] # NoTransaction
    /\ p \notin committed \union refused
    /\ Acceptable(tips, request[p])
    /\ tips' = Performed(tips, Verified(tips, request[p]), request[p].new)
    /\ committed' = committed \union {p}
    /\ UNCHANGED <<request, acknowledged, refused>>

Acknowledge(p) ==
    /\ p \in committed
    /\ acknowledged' = acknowledged \union {p}
    /\ UNCHANGED <<tips, request, committed, refused>>

Refuse(p) ==
    /\ request[p] # NoTransaction
    /\ p \notin committed
    /\ ~Acceptable(tips, request[p])
    /\ refused' = refused \union {p}
    /\ UNCHANGED <<tips, request, committed, acknowledged>>

Next == \E p \in Proposals : Propose(p) \/ Commit(p) \/ Acknowledge(p) \/ Refuse(p)

Spec == Init /\ [][Next]_vars
=============================================================================
