---------------------------- MODULE Transactions ----------------------------
(***************************************************************************)
(* Reference transactions of Praefect: internal/praefect/transactions.     *)
(*                                                                         *)
(* One registered transaction, the manager's entry for it, and the         *)
(* goroutines ("calls") that serve VoteTransaction, StopTransaction and    *)
(* CancelTransactionNodeVoter.  A step of a call is a critical section of  *)
(* the code: the manager's lock, the transaction's lock (t.lock) and the   *)
(* subtransactions' locks are released between steps and other calls       *)
(* interleave there.  vote() and collectVotes() do not take t.lock, so     *)
(* they also run between the two halves of cancelNodeVoter, which holds    *)
(* it.  The loops of cancel() and stop() lock one subtransaction at a      *)
(* time; they are one step here because a vote on a subtransaction         *)
(* commutes with the closing of another one.  Transactions have unique IDs *)
(* and share nothing, so one transaction is enough.                        *)
(***************************************************************************)
EXTENDS Integers, Sequences, FiniteSets

CONSTANTS
    Primary,      \* storage the request was routed to as primary
    Secondaries,  \* the other storages taking part in the transaction
    Votes,        \* values of voting.Vote (hashes of the intended change)
    NoVote,       \* a nil *voting.Vote
    Calls,        \* goroutines serving RPCs on this transaction
    MaxSubs       \* bound on the number of subtransactions

ASSUME SecondariesAssumption ==
    IsFiniteSet(Secondaries) /\ Primary \notin Secondaries
ASSUME VotesAssumption == Votes # {} /\ NoVote \notin Votes
ASSUME MaxSubsAssumption == MaxSubs \in Nat

VARIABLES
    registered,  \* TRUE while the manager's map holds the transaction
    state,       \* transaction.state
    subs,        \* transaction.subtransactions
    call,        \* where each goroutine is, and its arguments
    told,        \* history: <<node, i, vote>> for every vote whose caller got nil
    dropped      \* history: nodes whose CancelTransactionNodeVoter has run

vars == <<registered, state, subs, call, told, dropped>>

-----------------------------------------------------------------------------
(* Voters, weights and threshold: Coordinator.registerTransaction. *)

Nodes == {Primary} \union Secondaries

SecondaryLen == Cardinality(Secondaries)

\* Voter.Votes of one node.
Weight(n) == IF n = Primary THEN SecondaryLen + 1 ELSE 1

\* Sum of Voter.Votes over a set of nodes.
TotalWeight(X) ==
    Cardinality(X \ {Primary}) + (IF Primary \in X THEN SecondaryLen + 1 ELSE 0)

\* Mutant: half of the secondaries, without the primary's own votes.
Threshold_WithoutPrimary == (SecondaryLen + 1) \div 2

Threshold == SecondaryLen + 1 + (IF SecondaryLen > 1 THEN (SecondaryLen + 1) \div 2 ELSE 0)

Results == {"undecided", "committed", "failed", "canceled", "stopped"}

\* A subtransaction.  done says that doneCh is closed.
Subtransaction ==
    [ result : [Nodes -> Results],
      vote   : [Nodes -> Votes \union {NoVote}],
      counts : [Votes -> Nat],
      done   : BOOLEAN ]

\* A fresh subtransaction in which the nodes of C are already canceled.
NewSubtransaction(C) ==
    [ result |-> [n \in Nodes |-> IF n \in C THEN "canceled" ELSE "undecided"],
      vote   |-> [n \in Nodes |-> NoVote],
      counts |-> [v \in Votes |-> 0],
      done   |-> FALSE ]

-----------------------------------------------------------------------------
(* subtransaction.go *)

Supporters(s, v) == {n \in Nodes : s.vote[n] = v}

\* Voters that may still cast a vote.
Outstanding(s) ==
    {n \in Nodes : s.vote[n] = NoVote /\ s.result[n] = "undecided"}

HasQuorum(s, v) == s.counts[v] >= Threshold

\* The two results of quorumCheck.
MajorityReached(s) == \E v \in Votes : HasQuorum(s, v)

QuorumPossible(s) ==
    \/ MajorityReached(s)
    \/ \E v \in Votes : s.counts[v] + TotalWeight(Outstanding(s)) >= Threshold

\* Mutant: voters are not released when quorum becomes impossible.
Settle_OnlyOnMajority(s) ==
    IF ~MajorityReached(s)
    THEN s
    ELSE [s EXCEPT
            !.result = [n \in Nodes |->
                IF s.result[n] = "undecided" /\ s.vote[n] # NoVote
                THEN IF HasQuorum(s, s.vote[n]) THEN "committed" ELSE "failed"
                ELSE s.result[n]],
            !.done = TRUE]

\* The part of updateVoterState that follows the change of one voter: nothing
\* while the outcome is open; otherwise every undecided voter that has cast a
\* vote is settled and waiters are signalled, once, by closing doneCh.
Settle(s) ==
    IF ~MajorityReached(s) /\ QuorumPossible(s)
    THEN s
    ELSE [s EXCEPT
            !.result = [n \in Nodes |->
                IF s.result[n] = "undecided" /\ s.vote[n] # NoVote
                THEN IF QuorumPossible(s) /\ HasQuorum(s, s.vote[n])
                     THEN "committed" ELSE "failed"
                ELSE s.result[n]],
            !.done = TRUE]

\* updateVoterState(voter, &v), reached from vote().
MayCast(s, n) == s.result[n] = "undecided" /\ s.vote[n] = NoVote

CastVote(s, n, v) ==
    Settle([s EXCEPT
        !.counts = [s.counts EXCEPT ![v] = @ + Weight(n)],
        !.vote   = [s.vote EXCEPT ![n] = v]])

\* Mutant: settled voters may be canceled as well.
MayRetract_Settled(s, n) == s.result[n] # "canceled"

\* updateVoterState(voter, nil), reached from collectVotes and cancelNodeVoter.
MayRetract(s, n) == s.result[n] = "undecided" /\ ~s.done

\* Mutant: the canceled voter's support stays in the counts.
RetractVote_KeepCount(s, n) ==
    Settle([s EXCEPT
        !.result = [s.result EXCEPT ![n] = "canceled"],
        !.vote = [s.vote EXCEPT ![n] = NoVote]])

RetractVote(s, n) ==
    Settle([s EXCEPT
        !.result = [s.result EXCEPT ![n] = "canceled"],
        !.counts = [v \in Votes |->
            IF v = s.vote[n] THEN s.counts[v] - Weight(n) ELSE s.counts[v]],
        !.vote = [s.vote EXCEPT ![n] = NoVote]])

\* Mutant: closing overwrites voters that are settled.
Close_Everyone(s, r) ==
    [s EXCEPT !.result = [n \in Nodes |-> r], !.done = TRUE]

\* Mutant: closing only signals, voters stay undecided.
Close_OnlySignal(s, r) == [s EXCEPT !.done = TRUE]

\* subtransaction.cancel and subtransaction.stop.
Close(s, r) ==
    [s EXCEPT
        !.result = [n \in Nodes |->
            IF s.result[n] = "undecided" THEN r ELSE s.result[n]],
        !.done = TRUE]

IsStopped(s) == \E n \in Nodes : s.result[n] = "stopped"

-----------------------------------------------------------------------------
(* transaction.go *)

\* Mutant: a node that lags behind joins the last subtransaction.
Reached_JumpToLast(n, i) ==
    IF subs # << >> /\ subs[Len(subs)].result[n] # "committed"
    THEN i = Len(subs) ELSE i = Len(subs) + 1

\* getPendingNodeSubtransactions: i is the first subtransaction which n did
\* not commit, or the one after the last if n committed all of them.
Reached(n, i) ==
    /\ i \in 1 .. Len(subs) + 1
    /\ \A j \in 1 .. i - 1 : subs[j].result[n] = "committed"
    /\ i <= Len(subs) => subs[i].result[n] # "committed"

\* createSubtransaction: voters canceled in the last subtransaction stay so.
NextSubtransaction ==
    NewSubtransaction(
        IF subs = << >> THEN {}
        ELSE {n \in Nodes : subs[Len(subs)].result[n] = "canceled"})

-----------------------------------------------------------------------------
PCs == {"idle", "vote", "cast", "collect", "stop", "drop", "dropping"}

Call == [pc : PCs, node : Nodes, vote : Votes \union {NoVote}, sub : Nat]

At(pc, n, v, i) == [pc |-> pc, node |-> n, vote |-> v, sub |-> i]

Idle == At("idle", Primary, NoVote, 0)

Return(c) == call' = [call EXCEPT ![c] = Idle]

\* t.lock is free: nobody is between the two halves of cancelNodeVoter.
Unlocked == \A c \in Calls : call[c].pc # "dropping"

\* Manager: the map lookup under mgr.lock.  An unregistered transaction gives
\* ErrNotFound, which changes nothing.
LookupVote(c, n, v) ==
    /\ call[c].pc = "idle"
    /\ registered
    /\ call' = [call EXCEPT ![c] = At("vote", n, v, 0)]
    /\ UNCHANGED <<registered, state, subs, told, dropped>>

LookupStop(c) ==
    /\ call[c].pc = "idle"
    /\ registered
    /\ call' = [call EXCEPT ![c] = At("stop", Primary, NoVote, 0)]
    /\ UNCHANGED <<registered, state, subs, told, dropped>>

\* Only the error handler of a secondary cancels a voter.
LookupDrop(c, n) ==
    /\ call[c].pc = "idle"
    /\ registered
    /\ n \in Secondaries
    /\ call' = [call EXCEPT ![c] = At("drop", n, NoVote, 0)]
    /\ UNCHANGED <<registered, state, subs, told, dropped>>

\* transaction.vote, first critical section, when it fails: the transaction is
\* closed, or the node did not commit an earlier subtransaction.
RefuseVote(c) ==
    /\ call[c].pc = "vote"
    /\ Unlocked
    /\ \/ state # "open"
       \/ \E i \in 1 .. Len(subs) :
            Reached(call[c].node, i) /\ subs[i].result[call[c].node] # "undecided"
    /\ Return(c)
    /\ UNCHANGED <<registered, state, subs, told, dropped>>

\* getOrCreateSubtransaction when it succeeds.
GetOrCreateSubtransaction(c) ==
    /\ call[c].pc = "vote"
    /\ Unlocked
    /\ state = "open"
    /\ \E i \in 1 .. Len(subs) + 1 :
        /\ Reached(call[c].node, i)
        /\ IF i <= Len(subs)
           THEN subs[i].result[call[c].node] = "undecided" /\ UNCHANGED subs
           ELSE i <= MaxSubs /\ subs' = Append(subs, NextSubtransaction)
        /\ call' = [call EXCEPT ![c] = At("cast", call[c].node, call[c].vote, i)]
    /\ UNCHANGED <<registered, state, told, dropped>>

\* subtransaction.vote: the second critical section.
Vote(c) ==
    /\ call[c].pc = "cast"
    /\ LET i == call[c].sub
           n == call[c].node
       IN IF MayCast(subs[i], n)
          THEN /\ subs' = [subs EXCEPT ![i] = CastVote(@, n, call[c].vote)]
               /\ call' = [call EXCEPT ![c] = At("collect", n, call[c].vote, i)]
          ELSE Return(c) /\ UNCHANGED subs
    /\ UNCHANGED <<registered, state, told, dropped>>

\* collectVotes after doneCh was closed and with a live context: the caller
\* learns the result of its voter.
CollectVotes(c) ==
    /\ call[c].pc = "collect"
    /\ LET i == call[c].sub
           n == call[c].node
       IN /\ subs[i].done
          /\ told' = IF subs[i].result[n] = "committed"
                     THEN told \union {<<n, i, call[c].vote>>} ELSE told
    /\ Return(c)
    /\ UNCHANGED <<registered, state, subs, dropped>>

\* collectVotes when the RPC's context is found expired under the lock, with
\* doneCh closed or not: the caller gets an error whatever its voter's result.
CollectExpired(c) ==
    /\ call[c].pc = "collect"
    /\ LET i == call[c].sub
           n == call[c].node
       IN subs' = IF MayRetract(subs[i], n)
                  THEN [subs EXCEPT ![i] = RetractVote(@, n)] ELSE subs
    /\ Return(c)
    /\ UNCHANGED <<registered, state, told, dropped>>

\* transaction.stop.  The loop ends with an error at the first subtransaction
\* that has a stopped voter and then leaves the transaction's state alone.
Stop(c) ==
    /\ call[c].pc = "stop"
    /\ Unlocked
    /\ subs' = [i \in 1 .. Len(subs) |->
                  IF \E j \in 1 .. i : IsStopped(subs[j])
                  THEN subs[i] ELSE Close(subs[i], "stopped")]
    /\ state' = IF \E j \in 1 .. Len(subs) : IsStopped(subs[j])
                THEN state ELSE "stopped"
    /\ Return(c)
    /\ UNCHANGED <<registered, told, dropped>>

\* transaction.cancelNodeVoter, first half.  If the node did not commit some
\* subtransaction the call fails; if it committed all of them a new one is
\* made, which no other call can see before its voter is canceled.
FindPending(c) ==
    /\ call[c].pc = "drop"
    /\ Unlocked
    /\ LET n == call[c].node
       IN \E i \in 1 .. Len(subs) + 1 :
            /\ Reached(n, i)
            /\ \/ /\ i <= Len(subs)
                  /\ subs[i].result[n] = "undecided"
                  /\ call' = [call EXCEPT ![c] = At("dropping", n, NoVote, i)]
                  /\ UNCHANGED <<subs, dropped>>
               \/ /\ i <= Len(subs)
                  /\ subs[i].result[n] # "undecided"
                  /\ Return(c)
                  /\ dropped' = dropped \union {n}
                  /\ UNCHANGED subs
               \/ /\ i = Len(subs) + 1
                  /\ i <= MaxSubs
                  /\ subs' = Append(subs, RetractVote(NextSubtransaction, n))
                  /\ Return(c)
                  /\ dropped' = dropped \union {n}
    /\ UNCHANGED <<registered, state, told>>

\* Second half: the voter is canceled in the pending subtransactions up to the
\* first that refuses.
CancelNodeVoter(c) ==
    /\ call[c].pc = "dropping"
    /\ LET i == call[c].sub
           n == call[c].node
       IN /\ subs' = [k \in 1 .. Len(subs) |->
                        IF k >= i /\ \A j \in i .. k : MayRetract(subs[j], n)
                        THEN RetractVote(subs[k], n) ELSE subs[k]]
          /\ dropped' = dropped \union {n}
    /\ Return(c)
    /\ UNCHANGED <<registered, state, told>>

\* Manager.cancelTransaction: the coordinator's cleanup of the transaction.
CancelTransaction ==
    /\ registered
    /\ Unlocked
    /\ registered' = FALSE
    /\ state' = "canceled"
    /\ subs' = [i \in 1 .. Len(subs) |-> Close(subs[i], "canceled")]
    /\ UNCHANGED <<call, told, dropped>>

-----------------------------------------------------------------------------
\* RegisterTransaction has just succeeded.
Init ==
    /\ registered = TRUE
    /\ state = "open"
    /\ subs = << >>
    /\ call = [c \in Calls |-> Idle]
    /\ told = {}
    /\ dropped = {}

\* The steps a goroutine takes by itself once it was started.
CallStep(c) ==
    \/ RefuseVote(c)
    \/ GetOrCreateSubtransaction(c)
    \/ Vote(c)
    \/ CollectVotes(c)
    \/ Stop(c)
    \/ FindPending(c)
    \/ CancelNodeVoter(c)

StartCall(c) ==
    \/ \E n \in Nodes, v \in Votes : LookupVote(c, n, v)
    \/ LookupStop(c)
    \/ \E n \in Nodes : LookupDrop(c, n)

Next ==
    \/ \E c \in Calls : StartCall(c) \/ CallStep(c) \/ CollectExpired(c)
    \/ CancelTransaction

Spec == Init /\ [][Next]_vars

-----------------------------------------------------------------------------
(* Properties *)

\* The shape of the state: the subtransactions are well-formed voter tables,
\* and a call that has a subtransaction has an existing one.
TypeOK ==
    /\ registered \in BOOLEAN
    /\ state \in {"open", "canceled", "stopped"}
    /\ subs \in Seq(Subtransaction)
    /\ Len(subs) <= MaxSubs
    /\ call \in [Calls -> Call]
    /\ \A c \in Calls :
        /\ call[c].pc \in {"vote", "cast", "collect"} => call[c].vote \in Votes
        /\ call[c].pc \in {"cast", "collect", "dropping"} => call[c].sub \in 1 .. Len(subs)
    /\ told \subseteq Nodes \X (1 .. MaxSubs) \X Votes
    /\ dropped \subseteq Secondaries

\* voteCounts, which updateVoterState keeps by additions and subtractions, is
\* exactly the weight of the voters that currently support each vote.
CountsExact ==
    \A i \in 1 .. Len(subs) : \A v \in Votes :
        subs[i].counts[v] = TotalWeight(Supporters(subs[i], v))

\* A committed voter is part of a quorum that still stands, and the primary
\* voted for the same thing: "no quorum can be reached without the primary"
\* (registerTransaction), whatever was retracted, canceled or stopped since.
CommittedHasQuorum ==
    \A i \in 1 .. Len(subs) : \A n \in Nodes :
        subs[i].result[n] = "committed" =>
            /\ subs[i].vote[n] \in Votes
            /\ HasQuorum(subs[i], subs[i].vote[n])
            /\ subs[i].vote[Primary] = subs[i].vote[n]

\* Two nodes that were told to commit the same subtransaction were told to
\* commit the same vote: the promise of the transaction type's comment that
\* nodes "agree on the same thing".
Agreement ==
    \A a, b \in told : a[2] = b[2] => a[3] = b[3]

\* What VoteTransaction answered stays true: the voter of a call that got nil
\* remains committed on that vote, and committed all earlier subtransactions.
ToldIsFinal ==
    \A t \in told :
        /\ t[2] \in 1 .. Len(subs)
        /\ subs[t[2]].vote[t[1]] = t[3]
        /\ \A j \in 1 .. t[2] : subs[j].result[t[1]] = "committed"

\* doneCh stays open only while the outcome is open and can still be reached
\* by the voters the subtransaction knows to be outstanding (mustSignalVoters).
WaitsOnlyForOpenOutcome ==
    \A i \in 1 .. Len(subs) :
        ~subs[i].done => ~MajorityReached(subs[i]) /\ QuorumPossible(subs[i])

\* Nodes walk through the same sequence: only the last subtransaction is not
\* done, and one that is undecided for a node leaves all later ones undecided
\* for it ("Nodes after first undecided voter will also be undecided").
OnePathForAll ==
    \A i, j \in 1 .. Len(subs) :
        i < j =>
            /\ subs[i].done
            /\ \A n \in Nodes :
                subs[i].result[n] = "undecided" => subs[j].result[n] = "undecided"

\* A settled voter never changes its mind, and its recorded vote stays.
SettledIsFinal ==
    [][\A i \in 1 .. Len(subs) : \A n \in Nodes :
          subs[i].result[n] # "undecided" =>
              /\ subs'[i].result[n] = subs[i].result[n]
              /\ subs'[i].vote[n] = subs[i].vote[n]]_vars

Committed == {p \in (1 .. Len(subs)) \X Nodes : subs[p[1]].result[p[2]] = "committed"}

\* Once the transaction was stopped or canceled no voter is committed anymore,
\* not even by a call that had passed the check of the transaction's state.
ClosedDecidesNothing ==
    [][state # "open" => Committed' = Committed]_vars

\* Voters "do not wait for an impossible quorum due to canceled voters"
\* (createSubtransaction): while a call waits, the voters other than those
\* whose cancellation the manager was asked for can still make a quorum.  It
\* does not hold: cancelNodeVoter stops at a subtransaction that is done.
NoImpossibleWait ==
    \A c \in Calls :
        LET s == subs[call[c].sub]
        IN call[c].pc = "collect" /\ ~s.done =>
             \E v \in Votes :
                s.counts[v] + TotalWeight(Outstanding(s) \ dropped) >= Threshold

\* The nodes that committed a subtransaction, and the vote that they committed.
Committers(i) == {n \in Nodes : i <= Len(subs) /\ subs[i].result[n] = "committed"}
Choice(i) == IF Committers(i) = {} THEN NoVote ELSE subs[i].vote[Primary]

Promise == INSTANCE VotingRounds WITH
    Rounds <- 1 .. MaxSubs,
    Quorums <- {Q \in SUBSET Nodes : TotalWeight(Q) >= Threshold},
    open <- state = "open",
    choice <- [i \in 1 .. MaxSubs |-> Choice(i)],
    committed <- [i \in 1 .. MaxSubs |-> Committers(i)]

\* The voter tables with their counts, cancellations and signals, used by calls
\* that interleave, keep the promise: each subtransaction is decided once and by a
\* quorum of nodes that committed all earlier ones, late voters only join the
\* decision, answers tell it, and closing ends it.
VotingKeepsPromise == Promise!Spec

-----------------------------------------------------------------------------
(* The inductive invariant behind Agreement and CommittedHasQuorum. *)

\* One subtransaction: the counts are exact, and a committed voter has a quorum
\* in a subtransaction whose votes cannot be retracted anymore.
SubOK(s) ==
    /\ s \in Subtransaction
    /\ \A v \in Votes : s.counts[v] = TotalWeight(Supporters(s, v))
    /\ \A n \in Nodes : s.result[n] = "committed" =>
            s.done /\ s.vote[n] \in Votes /\ HasQuorum(s, s.vote[n])

\* How s may become t: what is settled stays, and a vote that was cast stays
\* unless its voter is canceled.
Evolves(s, t) ==
    \A n \in Nodes :
        /\ s.result[n] # "undecided" =>
              t.result[n] = s.result[n] /\ t.vote[n] = s.vote[n]
        /\ s.vote[n] # NoVote =>
              t.vote[n] = s.vote[n] \/ t.result[n] = "canceled"

\* A call that has a subtransaction committed all earlier ones, and the vote of
\* a call that waits is the recorded one unless its voter was canceled.
CallOK(c) ==
    /\ call[c].pc \in {"vote", "cast", "collect"} => call[c].vote \in Votes
    /\ call[c].pc \in {"drop", "dropping"} => call[c].node \in Secondaries
    /\ call[c].pc \in {"cast", "collect", "dropping"} =>
          call[c].sub \in 1 .. Len(subs)
    /\ call[c].pc \in {"cast", "collect"} =>
          \A j \in 1 .. call[c].sub - 1 : subs[j].result[call[c].node] = "committed"
    /\ call[c].pc = "collect" =>
          \/ subs[call[c].sub].vote[call[c].node] = call[c].vote
          \/ subs[call[c].sub].result[call[c].node] = "canceled"

IInv ==
    /\ TypeOK
    /\ \A i \in 1 .. Len(subs) : SubOK(subs[i])
    /\ \A c \in Calls : CallOK(c)
    /\ ToldIsFinal

-----------------------------------------------------------------------------
(* What WaitsOnlyForOpenOutcome, OnePathForAll and ClosedDecidesNothing need *)
(* on top of that.                                                          *)

\* One subtransaction: as long as it is not done the outcome is open; once there
\* is a majority, whoever has voted has a result, which is not that of a canceled
\* voter; and a voter is only canceled with its vote when all voters are closed.
OutcomeOK(s) ==
    /\ ~s.done => ~MajorityReached(s) /\ QuorumPossible(s)
    /\ MajorityReached(s) =>
          \A n \in Nodes : s.vote[n] # NoVote => s.result[n] \notin {"undecided", "canceled"}
    /\ (\E n \in Nodes : s.result[n] = "canceled" /\ s.vote[n] # NoVote) =>
          \A n \in Nodes : s.result[n] # "undecided"

\* Who votes in a subtransaction, or is about to be canceled in it, committed all
\* earlier ones.
CommittedEarlier(n, i) == \A j \in 1 .. i - 1 : subs[j].result[n] = "committed"

\* Once the transaction is closed no call is in a subtransaction with undecided
\* voters.  Those that cancelNodeVoter still makes have nothing but such voters and
\* canceled ones.
ClosedOK ==
    state # "open" =>
        /\ \A i \in 1 .. Len(subs) : \A n, m \in Nodes :
              subs[i].result[n] = "undecided" => subs[i].vote[m] = NoVote
        /\ \A c \in Calls : call[c].pc \in {"cast", "collect"} =>
              \A n \in Nodes : subs[call[c].sub].result[n] # "undecided"

PathInv ==
    /\ \A i \in 1 .. Len(subs) :
        /\ OutcomeOK(subs[i])
        /\ \A n \in Nodes : subs[i].vote[n] # NoVote => CommittedEarlier(n, i)
    /\ \A c \in Calls : call[c].pc = "dropping" => CommittedEarlier(call[c].node, call[c].sub)
    /\ OnePathForAll
    /\ ClosedOK

-----------------------------------------------------------------------------
(* What VotingKeepsPromise needs on top of that. *)

\* Once a subtransaction is done no vote in it is left undecided, and it will not
\* become open again by another vote.
DecidedOnce(s) ==
    s.done =>
        /\ \A n \in Nodes : s.result[n] = "undecided" => s.vote[n] = NoVote
        /\ \/ MajorityReached(s) \/ ~QuorumPossible(s)
           \/ \A n \in Nodes : s.result[n] # "undecided"

\* Who supports the vote that has a quorum is committed, and nobody fails or is
\* stopped before the subtransaction is done.
QuorumCommits(s) ==
    \A n \in Nodes :
        /\ s.vote[n] # NoVote /\ HasQuorum(s, s.vote[n]) => s.result[n] = "committed"
        /\ s.result[n] \in {"failed", "stopped"} => s.done

DecisionInv == \A i \in 1 .. Len(subs) : DecidedOnce(subs[i]) /\ QuorumCommits(subs[i])
=============================================================================
