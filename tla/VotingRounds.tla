---------------------------- MODULE VotingRounds ----------------------------
(***************************************************************************)
(* What a reference transaction promises to the nodes that vote in it.     *)
(* The rounds are its subtransactions.  A round is decided once, by a      *)
(* quorum of nodes that committed all earlier rounds; others that did may  *)
(* join it later.  What a node is told is what was decided, and nothing is *)
(* decided once the transaction was stopped or canceled.                   *)
(***************************************************************************)
EXTENDS Naturals

CONSTANTS Nodes, Votes, NoVote, Rounds, Quorums

VARIABLES
    open,       \* the transaction is neither stopped nor canceled
    choice,     \* the vote that each round has decided on, if it has
    committed,  \* the nodes that commit it
    told        \* <<node, round, vote>> for every vote that was answered

CommittedBefore(n, i) == \A j \in Rounds : j < i => n \in committed[j]

Decide(i, v, Q) ==
    /\ open
    /\ choice[i] = NoVote
    /\ \A n \in Q : CommittedBefore(n, i)
    /\ choice' = [choice EXCEPT ![i] = v]
    /\ committed' = [committed EXCEPT ![i] = Q]
    /\ UNCHANGED <<open, told>>

Join(i, n) ==
    /\ open
    /\ choice[i] # NoVote
    /\ CommittedBefore(n, i)
    /\ committed' = [committed EXCEPT ![i] = @ \union {n}]
    /\ UNCHANGED <<open, choice, told>>

Tell(i, n) ==
    /\ n \in committed[i]
    /\ told' = told \union {<<n, i, choice[i]>>}
    /\ UNCHANGED <<open, choice, committed>>

Close == open /\ open' = FALSE /\ UNCHANGED <<choice, committed, told>>

Init ==
    /\ open = TRUE
    /\ choice = [i \in Rounds |-> NoVote]
    /\ committed = [i \in Rounds |-> {}]
    /\ told = {}

Next ==
    \/ \E i \in Rounds :
        \/ \E v \in Votes, Q \in Quorums : Decide(i, v, Q)
        \/ \E n \in Nodes : Join(i, n) \/ Tell(i, n)
    \/ Close

Spec == Init /\ [][Next]_<<open, choice, committed, told>>

=============================================================================
