------------------------- MODULE Coordinator_proofs -------------------------
(***************************************************************************)
(* Proofs about Transactions and, in the second part, about Coordinator,   *)
(* which extends it, for any finite set of secondaries, any votes, calls   *)
(* and bounds; those about Coordinator for any replication targets and     *)
(* requests that vote or use no transaction.                               *)
(*                                                                         *)
(* Transactions.  The argument has layers.  SubOK is an invariant of one   *)
(* subtransaction; the first lemmas show that each operator of             *)
(* subtransaction.go keeps it and never touches a settled voter (Evolves). *)
(* IInv lifts this to the transaction and adds what the calls in flight    *)
(* and the answers already given rely on.  PathInv says when an outcome is *)
(* open and that all nodes walk through the same subtransactions, which    *)
(* closed transactions do not go on with.  DecisionInv says that the       *)
(* committed voters of a subtransaction are exactly the quorum and those   *)
(* that agreed with it later, so that the voter tables implement           *)
(* VotingRounds.                                                           *)
(*                                                                         *)
(* Coordinator.  Every step of the request is a step of Transactions or    *)
(* leaves it alone, so what is proved there holds here.  CInv adds how     *)
(* nodes, votes in flight, error handlers and finalizers depend on each    *)
(* other: a node's votes are answered or make it fail, a secondary that    *)
(* reported an error was left behind by the cancellation of its voter, and *)
(* after the cleanup nothing changes anymore.  So an updated secondary     *)
(* ended, like the primary, without an error, and has applied what both    *)
(* committed.                                                              *)
(***************************************************************************)
EXTENDS Coordinator, TLAPS, FiniteSetTheorems

-----------------------------------------------------------------------------
(* Weights *)

\* The number of secondaries is a natural number and so is the threshold,
\* which exceeds it.
LEMMA SecondaryLenType ==
    /\ SecondaryLen \in Nat
    /\ Threshold \in Nat
    /\ Threshold > SecondaryLen
<1>1. SecondaryLen \in Nat
  BY SecondariesAssumption, FS_CardinalityType DEF SecondaryLen
<1>2. (SecondaryLen + 1) \div 2 \in Nat
  BY <1>1
<1> QED
  BY <1>1, <1>2 DEF Threshold

\* A set of voters has a finite number of secondaries.
LEMMA SubsetOfNodes ==
    ASSUME NEW X \in SUBSET Nodes
    PROVE  /\ IsFiniteSet(X \ {Primary})
           /\ Cardinality(X \ {Primary}) \in Nat
           /\ Cardinality(X \ {Primary}) <= SecondaryLen
<1>1. X \ {Primary} \in SUBSET Secondaries
  BY DEF Nodes
<1>2. /\ IsFiniteSet(X \ {Primary})
      /\ Cardinality(X \ {Primary}) <= Cardinality(Secondaries)
  BY <1>1, FS_Subset, SecondariesAssumption
<1> QED
  BY <1>2, FS_CardinalityType DEF SecondaryLen

\* Weights are natural numbers and add up.
LEMMA TotalWeightType ==
    ASSUME NEW X \in SUBSET Nodes
    PROVE  TotalWeight(X) \in Nat
BY SubsetOfNodes, SecondaryLenType DEF TotalWeight

\* The weight of a set with one more voter.
LEMMA TotalWeightAdd ==
    ASSUME NEW X \in SUBSET Nodes, NEW n \in Nodes, n \notin X
    PROVE  TotalWeight(X \union {n}) = TotalWeight(X) + Weight(n)
<1> DEFINE Y == X \ {Primary}
<1>1. IsFiniteSet(Y) /\ Cardinality(Y) \in Nat
  BY SubsetOfNodes
<1>2. CASE n = Primary
  <2>1. (X \union {n}) \ {Primary} = Y
    BY <1>2
  <2> QED
    BY <2>1, <1>1, <1>2, SecondaryLenType DEF TotalWeight, Weight
<1>3. CASE n # Primary
  <2>1. (X \union {n}) \ {Primary} = Y \union {n}
    BY <1>3
  <2>2. Cardinality(Y \union {n}) = Cardinality(Y) + 1
    <3>1. n \notin Y
      OBVIOUS
    <3> HIDE DEF Y
    <3> QED
      BY <1>1, <3>1, FS_AddElement
  <2>3. Primary \in X \union {n} <=> Primary \in X
    BY <1>3
  <2> QED
    BY <2>1, <2>2, <2>3, <1>1, <1>3, SecondaryLenType DEF TotalWeight, Weight
<1> QED
  BY <1>2, <1>3

\* The weight of a set with one voter less.
LEMMA TotalWeightRemove ==
    ASSUME NEW X \in SUBSET Nodes, NEW n \in X
    PROVE  TotalWeight(X \ {n}) = TotalWeight(X) - Weight(n)
<1>1. X \ {n} \in SUBSET Nodes /\ n \in Nodes /\ n \notin X \ {n}
  OBVIOUS
<1>2. (X \ {n}) \union {n} = X
  OBVIOUS
<1>3. TotalWeight(X) = TotalWeight(X \ {n}) + Weight(n)
  BY <1>1, <1>2, TotalWeightAdd
<1>4. Weight(n) \in Nat
  BY SecondaryLenType DEF Weight
<1> QED
  BY <1>1, <1>3, <1>4, TotalWeightType

\* More voters have no less weight.
LEMMA TotalWeightMonotonic ==
    ASSUME NEW X \in SUBSET Nodes, NEW Y \in SUBSET X
    PROVE  TotalWeight(Y) <= TotalWeight(X)
<1> DEFINE A == X \ {Primary}
           B == Y \ {Primary}
<1>1. IsFiniteSet(A) /\ Cardinality(A) \in Nat /\ Cardinality(B) \in Nat
  BY SubsetOfNodes
<1>2. B \in SUBSET A
  OBVIOUS
<1>3. Cardinality(B) <= Cardinality(A)
  <2> HIDE DEF A, B
  <2> QED
    BY <1>1, <1>2, FS_Subset
<1> QED
  BY <1>1, <1>3, SecondaryLenType DEF TotalWeight

\* Without the primary no set of voters reaches the threshold: the choice of
\* weights in registerTransaction.
LEMMA QuorumNeedsPrimary ==
    ASSUME NEW X \in SUBSET Nodes, TotalWeight(X) >= Threshold
    PROVE  Primary \in X
BY SubsetOfNodes, SecondaryLenType DEF TotalWeight

\* The weights and the threshold pass the checks of newTransaction: a quorum
\* exists, and two disjoint quorums do not.
THEOREM ThresholdIsValid ==
    /\ Threshold <= TotalWeight(Nodes)
    /\ 2 * Threshold > TotalWeight(Nodes)
<1>1. Nodes \ {Primary} = Secondaries /\ Primary \in Nodes
  BY SecondariesAssumption DEF Nodes
<1>2. TotalWeight(Nodes) = 2 * SecondaryLen + 1
  BY <1>1, SecondaryLenType DEF TotalWeight, SecondaryLen
<1>3. (SecondaryLen + 1) \div 2 <= SecondaryLen \/ SecondaryLen = 0
  BY SecondaryLenType
<1> QED
  BY <1>2, <1>3, SecondaryLenType DEF Threshold

-----------------------------------------------------------------------------
(* One subtransaction *)

\* A quorum for v contains the primary's vote for v.
LEMMA QuorumHasPrimaryVote ==
    ASSUME NEW s, SubOK(s), NEW v \in Votes, HasQuorum(s, v)
    PROVE  s.vote[Primary] = v
<1>1. TotalWeight(Supporters(s, v)) >= Threshold
  BY DEF SubOK, HasQuorum
<1>2. Supporters(s, v) \in SUBSET Nodes
  BY DEF Supporters
<1> QED
  BY <1>1, <1>2, QuorumNeedsPrimary DEF Supporters

\* newSubtransaction.
LEMMA NewSubtransactionOK ==
    ASSUME NEW C
    PROVE  SubOK(NewSubtransaction(C))
<1> DEFINE s == NewSubtransaction(C)
<1>1. s \in Subtransaction
  BY DEF NewSubtransaction, Subtransaction, Results
<1>2. ASSUME NEW v \in Votes
      PROVE  s.counts[v] = TotalWeight(Supporters(s, v))
  <2>1. Supporters(s, v) = {}
    BY VotesAssumption DEF Supporters, NewSubtransaction
  <2>2. TotalWeight({}) = 0
    <3>1. {} \ {Primary} = {}
      OBVIOUS
    <3> QED
      BY <3>1, FS_EmptySet DEF TotalWeight
  <2> QED
    BY <2>1, <2>2 DEF NewSubtransaction
<1>3. ASSUME NEW n \in Nodes
      PROVE  s.result[n] # "committed"
  BY DEF NewSubtransaction
<1> QED
  BY <1>1, <1>2, <1>3 DEF SubOK

\* The trailing part of updateVoterState.
LEMMA SettleOK ==
    ASSUME NEW s, SubOK(s)
    PROVE  /\ SubOK(Settle(s))
           /\ Evolves(s, Settle(s))
           /\ Settle(s).vote = s.vote
<1> DEFINE t == Settle(s)
<1>1. s \in Subtransaction
  BY DEF SubOK
<1>2. CASE ~MajorityReached(s) /\ QuorumPossible(s)
  <2>1. t = s
    BY <1>2 DEF Settle
  <2> QED
    BY <2>1 DEF Evolves
<1>3. CASE ~(~MajorityReached(s) /\ QuorumPossible(s))
  <2> DEFINE r == [n \in Nodes |->
                IF s.result[n] = "undecided" /\ s.vote[n] # NoVote
                THEN IF QuorumPossible(s) /\ HasQuorum(s, s.vote[n])
                     THEN "committed" ELSE "failed"
                ELSE s.result[n]]
  <2>1. t = [s EXCEPT !.result = r, !.done = TRUE]
    BY <1>3 DEF Settle
  <2>2. r \in [Nodes -> Results]
    BY <1>1 DEF Subtransaction, Results
  <2>3. /\ t \in Subtransaction
        /\ t.result = r /\ t.vote = s.vote /\ t.counts = s.counts /\ t.done
    <3> HIDE DEF r, t
    <3> QED
      BY <2>1, <2>2, <1>1 DEF Subtransaction
  <2>4. ASSUME NEW v \in Votes
        PROVE  t.counts[v] = TotalWeight(Supporters(t, v))
    <3>1. Supporters(t, v) = Supporters(s, v)
      BY <2>3 DEF Supporters
    <3> QED
      BY <3>1, <2>3 DEF SubOK
  <2>5. ASSUME NEW n \in Nodes, t.result[n] = "committed"
        PROVE  t.done /\ t.vote[n] \in Votes /\ HasQuorum(t, t.vote[n])
    <3>1. s.vote[n] \in Votes \union {NoVote}
      BY <1>1 DEF Subtransaction
    <3>2. s.vote[n] \in Votes /\ HasQuorum(s, s.vote[n])
      <4>1. r[n] = "committed"
        BY <2>3, <2>5
      <4>2. CASE s.result[n] = "undecided" /\ s.vote[n] # NoVote
        BY <4>1, <4>2, <3>1
      <4>3. CASE ~(s.result[n] = "undecided" /\ s.vote[n] # NoVote)
        BY <4>1, <4>3 DEF SubOK
      <4> QED
        BY <4>2, <4>3
    <3> HIDE DEF t
    <3> QED
      BY <3>2, <2>3 DEF HasQuorum
  <2>6. Evolves(s, t)
    <3> HIDE DEF t
    <3> QED
      BY <2>3 DEF Evolves
  <2> HIDE DEF t
  <2> QED
    BY <2>3, <2>4, <2>5, <2>6 DEF SubOK, t
<1> QED
  BY <1>2, <1>3

\* subtransaction.vote: casting the first vote of an undecided voter.
LEMMA CastVoteOK ==
    ASSUME NEW s, SubOK(s), NEW n \in Nodes, NEW v \in Votes, MayCast(s, n)
    PROVE  /\ SubOK(CastVote(s, n, v))
           /\ Evolves(s, CastVote(s, n, v))
           /\ CastVote(s, n, v).vote[n] = v
<1> DEFINE nc == [s.counts EXCEPT ![v] = @ + Weight(n)]
           nv == [s.vote EXCEPT ![n] = v]
           t  == [s EXCEPT !.counts = nc, !.vote = nv]
<1>1. s \in Subtransaction
  BY DEF SubOK
<1>2. Weight(n) \in Nat
  BY SecondaryLenType DEF Weight
<1>3. /\ t \in Subtransaction
      /\ t.result = s.result /\ t.done = s.done
      /\ t.vote = nv /\ t.counts = nc
  <2>1. nc \in [Votes -> Nat] /\ nv \in [Nodes -> Votes \union {NoVote}]
    BY <1>1, <1>2 DEF Subtransaction
  <2> HIDE DEF nc, nv
  <2> QED
    BY <1>1, <2>1 DEF Subtransaction
<1> HIDE DEF t
<1>4. ASSUME NEW x \in Votes
      PROVE  /\ t.counts[x] = TotalWeight(Supporters(t, x))
             /\ t.counts[x] >= s.counts[x]
  <2>1. Supporters(s, x) \in SUBSET Nodes /\ n \notin Supporters(s, x)
    BY VotesAssumption DEF Supporters, MayCast
  <2>2. s.counts[x] = TotalWeight(Supporters(s, x)) /\ s.counts[x] \in Nat
    BY <1>1 DEF SubOK, Subtransaction
  <2>3. CASE x = v
    <3>1. Supporters(t, x) = Supporters(s, x) \union {n}
      BY <1>1, <1>3, <2>3 DEF Supporters, Subtransaction
    <3>2. t.counts[x] = s.counts[x] + Weight(n)
      BY <1>1, <1>3, <2>3 DEF Subtransaction
    <3> QED
      BY <3>1, <3>2, <2>1, <2>2, <1>2, TotalWeightAdd
  <2>4. CASE x # v
    <3>1. Supporters(t, x) = Supporters(s, x)
      BY <1>1, <1>3, <2>1, <2>4 DEF Supporters, Subtransaction
    <3>2. t.counts[x] = s.counts[x]
      BY <1>1, <1>3, <2>4 DEF Subtransaction
    <3> QED
      BY <3>1, <3>2, <2>2
  <2> QED
    BY <2>3, <2>4
<1>5. ASSUME NEW m \in Nodes, t.result[m] = "committed"
      PROVE  t.done /\ t.vote[m] \in Votes /\ HasQuorum(t, t.vote[m])
  <2>1. s.result[m] = "committed" /\ m # n
    BY <1>3, <1>5 DEF MayCast
  <2>2. s.done /\ s.vote[m] \in Votes /\ s.counts[s.vote[m]] >= Threshold
    BY <2>1 DEF SubOK, HasQuorum
  <2>3. t.vote[m] = s.vote[m]
    BY <1>1, <1>3, <2>1 DEF Subtransaction
  <2>4. t.counts[s.vote[m]] >= s.counts[s.vote[m]]
    BY <1>4, <2>2
  <2>5. t.counts[s.vote[m]] \in Nat /\ s.counts[s.vote[m]] \in Nat
    BY <1>1, <1>3, <2>2 DEF Subtransaction
  <2> QED
    BY <1>3, <2>2, <2>3, <2>4, <2>5, SecondaryLenType DEF HasQuorum
<1>6. SubOK(t)
  BY <1>3, <1>4, <1>5 DEF SubOK
<1>7. Evolves(s, t)
  BY <1>1, <1>3 DEF Evolves, MayCast, Subtransaction
<1>8. CastVote(s, n, v) = Settle(t)
  BY DEF CastVote, t
<1>9. /\ SubOK(Settle(t))
      /\ Evolves(t, Settle(t))
      /\ Settle(t).vote = t.vote
  BY <1>6, SettleOK
<1>10. Evolves(s, Settle(t))
  BY <1>7, <1>9 DEF Evolves
<1>11. t.vote[n] = v
  BY <1>1, <1>3 DEF Subtransaction
<1> QED
  BY <1>8, <1>9, <1>10, <1>11

\* Canceling an undecided voter while the subtransaction is pending: what is there
\* before voters are settled.
LEMMA Retracted ==
    ASSUME NEW s, SubOK(s), NEW n \in Nodes, MayRetract(s, n)
    PROVE  \E t : /\ SubOK(t) /\ RetractVote(s, n) = Settle(t)
                  /\ t.done = s.done
                  /\ t.result[n] = "canceled" /\ t.vote[n] = NoVote
                  /\ \A m \in Nodes : m # n =>
                        t.result[m] = s.result[m] /\ t.vote[m] = s.vote[m]
<1> DEFINE nr == [s.result EXCEPT ![n] = "canceled"]
           nc == [v \in Votes |->
                    IF v = s.vote[n] THEN s.counts[v] - Weight(n) ELSE s.counts[v]]
           nv == [s.vote EXCEPT ![n] = NoVote]
           t  == [s EXCEPT !.result = nr, !.counts = nc, !.vote = nv]
<1>1. s \in Subtransaction /\ ~s.done
  BY DEF SubOK, MayRetract
<1>2. Weight(n) \in Nat
  BY SecondaryLenType DEF Weight
<1>3. ASSUME NEW v \in Votes
      PROVE  /\ nc[v] = TotalWeight({m \in Nodes : nv[m] = v})
             /\ nc[v] \in Nat
  <2>1. Supporters(s, v) \in SUBSET Nodes
    BY DEF Supporters
  <2>2. s.counts[v] = TotalWeight(Supporters(s, v)) /\ s.counts[v] \in Nat
    BY <1>1 DEF SubOK, Subtransaction
  <2>3. CASE v = s.vote[n]
    <3>1. {m \in Nodes : nv[m] = v} = Supporters(s, v) \ {n}
      BY <1>1, VotesAssumption DEF Supporters, Subtransaction
    <3>2. n \in Supporters(s, v)
      BY <2>3 DEF Supporters
    <3>3. nc[v] = s.counts[v] - Weight(n)
      BY <2>3
    <3>4. TotalWeight(Supporters(s, v) \ {n}) \in Nat
      BY <2>1, TotalWeightType
    <3> HIDE DEF nc, nv
    <3> QED
      BY <3>1, <3>2, <3>3, <3>4, <2>1, <2>2, TotalWeightRemove
  <2>4. CASE v # s.vote[n]
    <3>1. {m \in Nodes : nv[m] = v} = Supporters(s, v)
      BY <1>1, <2>4, VotesAssumption DEF Supporters, Subtransaction
    <3>2. nc[v] = s.counts[v]
      BY <2>4
    <3> HIDE DEF nc, nv
    <3> QED
      BY <3>1, <3>2, <2>2
  <2> QED
    BY <2>3, <2>4
<1>4. /\ nr \in [Nodes -> Results]
      /\ nv \in [Nodes -> Votes \union {NoVote}]
      /\ \A m \in Nodes : m # n => nr[m] = s.result[m] /\ nv[m] = s.vote[m]
      /\ nr[n] = "canceled" /\ nv[n] = NoVote
  BY <1>1 DEF Subtransaction, Results
<1>5. nc \in [Votes -> Nat]
  BY <1>3
<1> HIDE DEF nr, nc, nv
<1>6. /\ t \in Subtransaction
      /\ t.result = nr /\ t.vote = nv /\ t.counts = nc /\ t.done = s.done
  BY <1>1, <1>4, <1>5 DEF Subtransaction
<1>7. RetractVote(s, n) = Settle(t)
  BY DEF RetractVote, t, nr, nc, nv
<1> HIDE DEF t
<1>8. SubOK(t)
  <2>1. ASSUME NEW v \in Votes
        PROVE  t.counts[v] = TotalWeight(Supporters(t, v))
    BY <1>3, <1>6 DEF Supporters
  <2>2. ASSUME NEW m \in Nodes
        PROVE  t.result[m] # "committed"
    BY <1>1, <1>4, <1>6 DEF SubOK
  <2> QED
    BY <1>6, <2>1, <2>2 DEF SubOK
<1> QED
  BY <1>4, <1>6, <1>7, <1>8

\* Canceling an undecided voter.
LEMMA RetractVoteOK ==
    ASSUME NEW s, SubOK(s), NEW n \in Nodes, MayRetract(s, n)
    PROVE  /\ SubOK(RetractVote(s, n))
           /\ Evolves(s, RetractVote(s, n))
<1>1. PICK t : /\ SubOK(t) /\ RetractVote(s, n) = Settle(t)
               /\ \A m \in Nodes : m # n =>
                     t.result[m] = s.result[m] /\ t.vote[m] = s.vote[m]
               /\ t.result[n] = "canceled"
  BY Retracted
<1>2. /\ SubOK(Settle(t))
      /\ Evolves(t, Settle(t))
      /\ Settle(t).vote = t.vote
  BY <1>1, SettleOK
<1>3. Evolves(s, t)
  BY <1>1 DEF Evolves, MayRetract
<1>4. Evolves(s, Settle(t))
  BY <1>2, <1>3 DEF Evolves
<1> QED
  BY <1>1, <1>2, <1>4

\* subtransaction.cancel and subtransaction.stop.
LEMMA CloseOK ==
    ASSUME NEW s, SubOK(s), NEW r \in {"canceled", "stopped"}
    PROVE  /\ SubOK(Close(s, r))
           /\ Evolves(s, Close(s, r))
<1> DEFINE nr == [n \in Nodes |->
                    IF s.result[n] = "undecided" THEN r ELSE s.result[n]]
           t  == [s EXCEPT !.result = nr, !.done = TRUE]
<1>1. s \in Subtransaction
  BY DEF SubOK
<1>2. /\ nr \in [Nodes -> Results]
      /\ \A n \in Nodes : s.result[n] # "undecided" => nr[n] = s.result[n]
      /\ \A n \in Nodes : nr[n] = "committed" => s.result[n] = "committed"
  BY <1>1 DEF Subtransaction, Results
<1> HIDE DEF nr
<1>3. /\ t \in Subtransaction
      /\ t.result = nr /\ t.vote = s.vote /\ t.counts = s.counts /\ t.done
  BY <1>1, <1>2 DEF Subtransaction
<1>4. Close(s, r) = t
  BY DEF Close, t, nr
<1> HIDE DEF t
<1>5. \A v \in Votes : Supporters(t, v) = Supporters(s, v)
  BY <1>3 DEF Supporters
<1>6. SubOK(t)
  BY <1>2, <1>3, <1>5 DEF SubOK, HasQuorum
<1>7. Evolves(s, t)
  BY <1>2, <1>3 DEF Evolves
<1> QED
  BY <1>3, <1>4, <1>6, <1>7

-----------------------------------------------------------------------------
(* The transaction *)

\* How a step may change the list of subtransactions.
SubsEvolve ==
    /\ subs' \in Seq(Subtransaction)
    /\ Len(subs) <= Len(subs') /\ Len(subs') <= MaxSubs
    /\ \A i \in 1 .. Len(subs') : SubOK(subs'[i])
    /\ \A i \in 1 .. Len(subs) : Evolves(subs[i], subs'[i])

\* A step that leaves a subtransaction alone is one of its steps.
LEMMA EvolvesReflexive == ASSUME NEW s PROVE Evolves(s, s)
BY DEF Evolves

\* Steps that replace subtransactions.
LEMMA ReplaceEvolves ==
    ASSUME IInv,
           subs' = [i \in 1 .. Len(subs) |-> subs'[i]],
           \A i \in 1 .. Len(subs) : SubOK(subs'[i]) /\ Evolves(subs[i], subs'[i])
    PROVE  SubsEvolve
<1>1. Len(subs) \in Nat /\ Len(subs) <= MaxSubs
  BY DEF IInv, TypeOK
<1>2. \A i \in 1 .. Len(subs) : subs'[i] \in Subtransaction
  BY DEF SubOK
<1>3. subs' \in Seq(Subtransaction) /\ Len(subs') = Len(subs)
  BY <1>1, <1>2
<1> QED
  BY <1>1, <1>3 DEF SubsEvolve

\* Steps that change one subtransaction.
LEMMA UpdateEvolves ==
    ASSUME IInv, NEW i \in 1 .. Len(subs), NEW t, SubOK(t), Evolves(subs[i], t),
           subs' = [subs EXCEPT ![i] = t]
    PROVE  /\ SubsEvolve
           /\ subs'[i] = t
           /\ \A k \in 1 .. Len(subs) : k # i => subs'[k] = subs[k]
<1>1. subs \in Seq(Subtransaction) /\ t \in Subtransaction
  BY DEF IInv, TypeOK, SubOK
<1>2. DOMAIN subs = 1 .. Len(subs)
  BY <1>1
<1>3. /\ subs' = [k \in 1 .. Len(subs) |-> IF k = i THEN t ELSE subs[k]]
      /\ subs'[i] = t
      /\ \A k \in 1 .. Len(subs) : k # i => subs'[k] = subs[k]
  BY <1>2
<1>4. subs' = [k \in 1 .. Len(subs) |-> subs'[k]]
  BY <1>3
<1>5. ASSUME NEW k \in 1 .. Len(subs)
      PROVE  SubOK(subs'[k]) /\ Evolves(subs[k], subs'[k])
  BY <1>3, EvolvesReflexive DEF IInv
<1> QED
  BY <1>3, <1>4, <1>5, ReplaceEvolves

\* Steps that add a subtransaction.
LEMMA AppendEvolves ==
    ASSUME IInv, NEW s, SubOK(s), Len(subs) + 1 <= MaxSubs,
           subs' = Append(subs, s)
    PROVE  SubsEvolve /\ Len(subs') = Len(subs) + 1
<1>1. subs \in Seq(Subtransaction) /\ Len(subs) \in Nat
  BY DEF IInv, TypeOK
<1>2. s \in Subtransaction
  BY DEF SubOK
<1>3. /\ subs' \in Seq(Subtransaction)
      /\ Len(subs') = Len(subs) + 1
      /\ \A i \in 1 .. Len(subs) : subs'[i] = subs[i]
      /\ subs'[Len(subs) + 1] = s
  BY <1>1, <1>2
<1>4. \A i \in 1 .. Len(subs') : SubOK(subs'[i])
  BY <1>1, <1>3 DEF IInv
<1>5. \A i \in 1 .. Len(subs) : Evolves(subs[i], subs'[i])
  BY <1>3, EvolvesReflexive
<1> QED
  BY <1>1, <1>3, <1>4, <1>5 DEF SubsEvolve

\* Steps that leave the subtransactions alone.
LEMMA UnchangedEvolves ==
    ASSUME IInv, subs' = subs
    PROVE  SubsEvolve
BY EvolvesReflexive DEF SubsEvolve, IInv, TypeOK

\* Answers that were given stay true.
LEMMA KeepTold ==
    ASSUME IInv, SubsEvolve, told' = told
    PROVE  ToldIsFinal'
<1> SUFFICES ASSUME NEW t \in told
             PROVE  /\ t[2] \in 1 .. Len(subs')
                    /\ subs'[t[2]].vote[t[1]] = t[3]
                    /\ \A j \in 1 .. t[2] : subs'[j].result[t[1]] = "committed"
  BY DEF ToldIsFinal
<1>1. /\ t[2] \in 1 .. Len(subs)
      /\ subs[t[2]].vote[t[1]] = t[3]
      /\ \A j \in 1 .. t[2] : subs[j].result[t[1]] = "committed"
  BY DEF IInv, ToldIsFinal
<1>2. t[1] \in Nodes
  BY DEF IInv, TypeOK
<1>3. Len(subs) \in Nat /\ Len(subs') \in Nat /\ Len(subs) <= Len(subs')
  BY DEF IInv, TypeOK, SubsEvolve
<1>4. \A j \in 1 .. t[2] :
        /\ subs'[j].result[t[1]] = subs[j].result[t[1]]
        /\ subs'[j].vote[t[1]] = subs[j].vote[t[1]]
  <2> TAKE j \in 1 .. t[2]
  <2>1. j \in 1 .. Len(subs) /\ subs[j].result[t[1]] = "committed"
    BY <1>1, <1>3
  <2>2. Evolves(subs[j], subs'[j])
    BY <2>1 DEF SubsEvolve
  <2> QED
    BY <1>2, <2>1, <2>2 DEF Evolves
<1> QED
  BY <1>1, <1>3, <1>4

\* A call that does not move stays consistent.
LEMMA KeepCall ==
    ASSUME IInv, SubsEvolve, NEW c \in Calls, call'[c] = call[c]
    PROVE  CallOK(c)'
<1>1. CallOK(c) /\ call[c] \in Call
  BY DEF IInv, TypeOK
<1>2. Len(subs) \in Nat /\ Len(subs') \in Nat /\ Len(subs) <= Len(subs')
  BY DEF IInv, TypeOK, SubsEvolve
<1>3. call[c].node \in Nodes /\ call[c].sub \in Nat
  BY <1>1 DEF Call
<1>4. \A j \in 1 .. Len(subs) : Evolves(subs[j], subs'[j])
  BY DEF SubsEvolve
<1>5. ASSUME call[c].pc \in {"cast", "collect"}
      PROVE  \A j \in 1 .. call[c].sub - 1 : subs'[j].result[call[c].node] = "committed"
  BY <1>1, <1>2, <1>3, <1>4, <1>5 DEF CallOK, Evolves
<1>6. ASSUME call[c].pc = "collect"
      PROVE  \/ subs'[call[c].sub].vote[call[c].node] = call[c].vote
             \/ subs'[call[c].sub].result[call[c].node] = "canceled"
  BY <1>1, <1>2, <1>3, <1>4, <1>6, VotesAssumption DEF CallOK, Evolves
<1> QED
  BY <1>1, <1>2, <1>3, <1>5, <1>6 DEF CallOK

\* The shape of every step of one call that gives no answer.
LEMMA CallStepKeepsIInv ==
    ASSUME IInv, SubsEvolve, NEW c \in Calls, NEW x \in Call,
           call' = [call EXCEPT ![c] = x], CallOK(c)',
           registered' = registered, state' \in {"open", "canceled", "stopped"},
           told' = told, dropped' \subseteq Secondaries
    PROVE  IInv' /\ SubsEvolve
<1>1. call \in [Calls -> Call] /\ call' \in [Calls -> Call]
  BY DEF IInv, TypeOK
<1>2. \A d \in Calls : CallOK(d)'
  <2> TAKE d \in Calls
  <2>1. CASE d = c
    BY <2>1
  <2>2. CASE d # c
    BY <1>1, <2>2, KeepCall
  <2> QED
    BY <2>1, <2>2
<1>3. ToldIsFinal'
  BY KeepTold
<1>4. TypeOK'
  BY <1>1, <1>2 DEF IInv, TypeOK, SubsEvolve, CallOK
<1> QED
  BY <1>2, <1>3, <1>4 DEF IInv, SubsEvolve

-----------------------------------------------------------------------------
(* The steps *)

\* A call that returns without an answer and leaves the rest to SubsEvolve.
LEMMA ReturnKeepsIInv ==
    ASSUME IInv, SubsEvolve, NEW c \in Calls, Return(c),
           registered' = registered, state' \in {"open", "canceled", "stopped"},
           told' = told, dropped' \subseteq Secondaries
    PROVE  IInv' /\ SubsEvolve
<1>1. Idle \in Call
  BY DEF Idle, At, Call, PCs, Nodes
<1>2. call \in [Calls -> Call]
  BY DEF IInv, TypeOK
<1>3. call'[c] = Idle
  BY <1>2 DEF Return
<1>4. CallOK(c)'
  BY <1>3 DEF CallOK, Idle, At
<1> QED
  BY <1>1, <1>4, CallStepKeepsIInv DEF Return

\* A registered transaction has no subtransactions.
LEMMA InitIInv == Init => IInv
<1> SUFFICES ASSUME Init PROVE IInv
  OBVIOUS
<1>1. subs = << >> /\ Len(subs) = 0 /\ subs \in Seq(Subtransaction)
  BY DEF Init
<1>2. Idle \in Call
  BY DEF Idle, At, Call, PCs, Nodes
<1>3. \A c \in Calls : call[c].pc = "idle"
  BY DEF Init, Idle, At
<1>4. TypeOK
  BY <1>1, <1>2, <1>3, MaxSubsAssumption DEF Init, TypeOK
<1>5. \A c \in Calls : CallOK(c)
  BY <1>3 DEF CallOK
<1>6. ToldIsFinal
  BY DEF Init, ToldIsFinal
<1> QED
  BY <1>1, <1>4, <1>5, <1>6 DEF IInv

\* Lookups only start a call.
LEMMA StartKeepsIInv ==
    ASSUME IInv, NEW c \in Calls, StartCall(c)
    PROVE  IInv' /\ SubsEvolve
<1>1. subs' = subs /\ registered' = registered /\ state' = state
      /\ told' = told /\ dropped' = dropped
  BY DEF StartCall, LookupVote, LookupStop, LookupDrop
<1>2. SubsEvolve
  BY <1>1, UnchangedEvolves
<1>3. call \in [Calls -> Call]
  BY DEF IInv, TypeOK
<1>4. state' \in {"open", "canceled", "stopped"} /\ dropped' \subseteq Secondaries
  BY <1>1 DEF IInv, TypeOK
<1>5. ASSUME NEW x \in Call, call' = [call EXCEPT ![c] = x],
             x.pc = "vote" => x.vote \in Votes,
             x.pc = "drop" => x.node \in Secondaries,
             x.pc \notin {"cast", "collect", "dropping"}
      PROVE  IInv' /\ SubsEvolve
  <2>1. CallOK(c)'
    BY <1>3, <1>5 DEF CallOK
  <2> QED
    BY <1>1, <1>2, <1>4, <1>5, <2>1, CallStepKeepsIInv
<1>6. ASSUME NEW n \in Nodes, NEW v \in Votes, LookupVote(c, n, v)
      PROVE  IInv' /\ SubsEvolve
  <2>1. At("vote", n, v, 0) \in Call
    BY DEF At, Call, PCs
  <2> QED
    BY <1>5, <1>6, <2>1 DEF LookupVote, At
<1>7. ASSUME LookupStop(c)
      PROVE  IInv' /\ SubsEvolve
  <2>1. At("stop", Primary, NoVote, 0) \in Call
    BY DEF At, Call, PCs, Nodes
  <2> QED
    BY <1>5, <1>7, <2>1 DEF LookupStop, At
<1>8. ASSUME NEW n \in Nodes, LookupDrop(c, n)
      PROVE  IInv' /\ SubsEvolve
  <2>1. At("drop", n, NoVote, 0) \in Call
    BY DEF At, Call, PCs
  <2> QED
    BY <1>5, <1>8, <2>1 DEF LookupDrop, At
<1> QED
  BY <1>6, <1>7, <1>8 DEF StartCall

\* A vote gets the subtransaction it belongs to.
LEMMA GetOrCreateKeepsIInv ==
    ASSUME IInv, NEW c \in Calls, GetOrCreateSubtransaction(c)
    PROVE  IInv' /\ SubsEvolve
<1> DEFINE n == call[c].node
<1>1. /\ call \in [Calls -> Call] /\ Len(subs) \in Nat
      /\ call[c] \in Call /\ call[c].pc = "vote" /\ call[c].vote \in Votes /\ n \in Nodes
  BY DEF IInv, TypeOK, GetOrCreateSubtransaction, Call
<1>2. PICK i \in 1 .. Len(subs) + 1 :
        /\ Reached(n, i)
        /\ IF i <= Len(subs)
           THEN subs[i].result[n] = "undecided" /\ UNCHANGED subs
           ELSE i <= MaxSubs /\ subs' = Append(subs, NextSubtransaction)
        /\ call' = [call EXCEPT ![c] = At("cast", n, call[c].vote, i)]
  BY DEF GetOrCreateSubtransaction
<1>3. SubsEvolve /\ i \in 1 .. Len(subs')
  <2>1. CASE i <= Len(subs)
    BY <1>1, <1>2, <2>1, UnchangedEvolves
  <2>2. CASE ~(i <= Len(subs))
    <3>1. i = Len(subs) + 1 /\ Len(subs) + 1 <= MaxSubs
      BY <1>1, <1>2, <2>2
    <3>2. SubOK(NextSubtransaction)
      BY NewSubtransactionOK DEF NextSubtransaction
    <3> QED
      BY <1>1, <1>2, <2>2, <3>1, <3>2, AppendEvolves
  <2> QED
    BY <2>1, <2>2
<1>4. At("cast", n, call[c].vote, i) \in Call
  BY <1>1 DEF At, Call, PCs
<1>5. CallOK(c)'
  <2>1. call'[c] = At("cast", n, call[c].vote, i)
    BY <1>1, <1>2
  <2>2. \A j \in 1 .. i - 1 : subs[j].result[n] = "committed"
    BY <1>2 DEF Reached
  <2>3. ASSUME NEW j \in 1 .. i - 1
        PROVE  subs'[j].result[n] = "committed"
    <3>1. j \in 1 .. Len(subs)
      BY <1>1
    <3>2. Evolves(subs[j], subs'[j])
      BY <1>3, <3>1 DEF SubsEvolve
    <3> QED
      BY <1>1, <2>2, <3>2 DEF Evolves
  <2> QED
    BY <1>1, <1>3, <2>1, <2>3 DEF CallOK, At
<1> QED
  BY <1>2, <1>3, <1>4, <1>5, CallStepKeepsIInv DEF GetOrCreateSubtransaction, IInv, TypeOK

\* A vote is cast, or not taken by its subtransaction.
LEMMA VoteKeepsIInv ==
    ASSUME IInv, NEW c \in Calls, Vote(c)
    PROVE  IInv' /\ SubsEvolve
<1> DEFINE n == call[c].node
           i == call[c].sub
           v == call[c].vote
<1>1. /\ call \in [Calls -> Call] /\ Len(subs) \in Nat /\ subs \in Seq(Subtransaction)
      /\ call[c] \in Call /\ call[c].pc = "cast" /\ v \in Votes /\ n \in Nodes
      /\ i \in 1 .. Len(subs)
      /\ CallOK(c)
  BY DEF IInv, TypeOK, Vote, Call
<1>2. CASE MayCast(subs[i], n)
  <2>1. /\ subs' = [subs EXCEPT ![i] = CastVote(@, n, v)]
        /\ call' = [call EXCEPT ![c] = At("collect", n, v, i)]
    BY <1>2 DEF Vote
  <2>2. /\ SubOK(CastVote(subs[i], n, v))
        /\ Evolves(subs[i], CastVote(subs[i], n, v))
        /\ CastVote(subs[i], n, v).vote[n] = v
    BY <1>1, <1>2, CastVoteOK DEF IInv
  <2>3. /\ SubsEvolve
        /\ subs'[i] = CastVote(subs[i], n, v)
        /\ \A k \in 1 .. Len(subs) : k # i => subs'[k] = subs[k]
    BY <1>1, <2>1, <2>2, UpdateEvolves
  <2>4. At("collect", n, v, i) \in Call
    BY <1>1 DEF At, Call, PCs
  <2>5. CallOK(c)'
    <3>1. call'[c] = At("collect", n, v, i)
      BY <1>1, <2>1
    <3>2. Len(subs') \in Nat /\ Len(subs) <= Len(subs')
      BY <1>1, <2>3 DEF SubsEvolve
    <3>3. ASSUME NEW j \in 1 .. i - 1
          PROVE  subs'[j].result[n] = "committed"
      <4>1. j \in 1 .. Len(subs) /\ j # i
        BY <1>1
      <4>2. subs[j].result[n] = "committed"
        BY <1>1 DEF CallOK
      <4> QED
        BY <4>1, <4>2, <2>3
    <3> QED
      BY <1>1, <2>2, <2>3, <3>1, <3>2, <3>3 DEF CallOK, At
  <2> QED
    BY <2>1, <2>3, <2>4, <2>5, CallStepKeepsIInv DEF Vote, IInv, TypeOK
<1>3. CASE ~MayCast(subs[i], n)
  <2>1. Return(c) /\ subs' = subs
    BY <1>3 DEF Vote
  <2> QED
    BY <2>1, UnchangedEvolves, ReturnKeepsIInv DEF Vote, IInv, TypeOK
<1> QED
  BY <1>2, <1>3

\* The only step that gives an answer: the vote is the recorded one, since a
\* committed voter was not canceled.
LEMMA CollectVotesKeepsIInv ==
    ASSUME IInv, NEW c \in Calls, CollectVotes(c)
    PROVE  IInv' /\ SubsEvolve
<1> DEFINE n == call[c].node
           i == call[c].sub
           v == call[c].vote
<1>1. /\ call \in [Calls -> Call] /\ Len(subs) \in Nat /\ Len(subs) <= MaxSubs
      /\ call[c] \in Call /\ call[c].pc = "collect" /\ v \in Votes /\ n \in Nodes
      /\ i \in 1 .. Len(subs)
      /\ CallOK(c)
  BY DEF IInv, TypeOK, CollectVotes, Call
<1>2. /\ Return(c) /\ subs' = subs /\ registered' = registered /\ state' = state
      /\ dropped' = dropped
      /\ told' = IF subs[i].result[n] = "committed"
                 THEN told \union {<<n, i, v>>} ELSE told
  BY DEF CollectVotes
<1>3. SubsEvolve
  BY <1>2, UnchangedEvolves
<1>4. Idle \in Call /\ Idle.pc = "idle"
  BY DEF Idle, At, Call, PCs, Nodes
<1>5. call' \in [Calls -> Call]
  BY <1>1, <1>2, <1>4 DEF Return
<1>6. \A d \in Calls : CallOK(d)'
  <2> TAKE d \in Calls
  <2>1. CASE d = c
    <3>1. call'[d] = Idle
      BY <1>1, <1>2, <2>1 DEF Return
    <3> QED
      BY <1>4, <3>1 DEF CallOK
  <2>2. CASE d # c
    BY <1>1, <1>2, <1>3, <2>2, KeepCall DEF Return
  <2> QED
    BY <2>1, <2>2
<1>7. CASE subs[i].result[n] = "committed"
  <2> DEFINE x == <<n, i, v>>
  <2>1. subs[i].vote[n] = v
    BY <1>1, <1>7 DEF CallOK
  <2>2. \A j \in 1 .. i : subs[j].result[n] = "committed"
    BY <1>1, <1>7 DEF CallOK
  <2>3. told' = told \union {x}
    BY <1>2, <1>7
  <2>4. ToldIsFinal'
    <3> SUFFICES ASSUME NEW t \in told \union {x}
                 PROVE  /\ t[2] \in 1 .. Len(subs)
                        /\ subs[t[2]].vote[t[1]] = t[3]
                        /\ \A j \in 1 .. t[2] : subs[j].result[t[1]] = "committed"
      BY <1>2, <2>3 DEF ToldIsFinal
    <3>1. CASE t \in told
      BY <3>1 DEF IInv, ToldIsFinal
    <3>2. CASE t = x
      <4>1. t[1] = n /\ t[2] = i /\ t[3] = v
        BY <3>2
      <4> HIDE DEF x, n, i, v
      <4> QED
        BY <4>1, <1>1, <2>1, <2>2
    <3> QED
      BY <3>1, <3>2
  <2>5. x \in Nodes \X (1 .. MaxSubs) \X Votes
    BY <1>1, MaxSubsAssumption
  <2>6. TypeOK'
    BY <1>2, <1>5, <1>6, <2>3, <2>5 DEF IInv, TypeOK, CallOK
  <2> QED
    BY <1>2, <1>3, <1>6, <2>4, <2>6 DEF IInv, SubOK
<1>8. CASE subs[i].result[n] # "committed"
  BY <1>2, <1>3, <1>8, ReturnKeepsIInv DEF IInv, TypeOK
<1> QED
  BY <1>7, <1>8

\* A call that gives up retracts its vote while it can.
LEMMA CollectExpiredKeepsIInv ==
    ASSUME IInv, NEW c \in Calls, CollectExpired(c)
    PROVE  IInv' /\ SubsEvolve
<1> DEFINE n == call[c].node
           i == call[c].sub
<1>1. n \in Nodes /\ i \in 1 .. Len(subs)
  BY DEF IInv, TypeOK, CollectExpired, Call
<1>2. SubsEvolve
  <2>1. CASE MayRetract(subs[i], n)
    <3>1. subs' = [subs EXCEPT ![i] = RetractVote(subs[i], n)]
      BY <2>1 DEF CollectExpired
    <3>2. SubOK(RetractVote(subs[i], n)) /\ Evolves(subs[i], RetractVote(subs[i], n))
      BY <1>1, <2>1, RetractVoteOK DEF IInv
    <3> QED
      BY <1>1, <3>1, <3>2, UpdateEvolves
  <2>2. CASE ~MayRetract(subs[i], n)
    BY <2>2, UnchangedEvolves DEF CollectExpired
  <2> QED
    BY <2>1, <2>2
<1> QED
  BY <1>2, ReturnKeepsIInv DEF CollectExpired, IInv, TypeOK

\* Stopping closes the subtransactions up to the first stopped one.
LEMMA StopKeepsIInv ==
    ASSUME IInv, NEW c \in Calls, Stop(c)
    PROVE  IInv' /\ SubsEvolve
<1>1. /\ subs' = [i \in 1 .. Len(subs) |->
                     IF \E j \in 1 .. i : IsStopped(subs[j])
                     THEN subs[i] ELSE Close(subs[i], "stopped")]
      /\ Return(c) /\ registered' = registered /\ told' = told /\ dropped' = dropped
      /\ state' \in {"open", "canceled", "stopped"}
  BY DEF Stop, IInv, TypeOK
<1>2. ASSUME NEW i \in 1 .. Len(subs)
      PROVE  SubOK(subs'[i]) /\ Evolves(subs[i], subs'[i])
  <2>1. SubOK(subs[i])
    BY DEF IInv
  <2>2. subs'[i] = subs[i] \/ subs'[i] = Close(subs[i], "stopped")
    BY <1>1
  <2> QED
    BY <2>1, <2>2, CloseOK, EvolvesReflexive
<1>3. SubsEvolve
  BY <1>1, <1>2, ReplaceEvolves
<1> QED
  BY <1>1, <1>3, ReturnKeepsIInv DEF IInv, TypeOK

\* cancelNodeVoter looks for the first subtransaction its node did not commit.
LEMMA FindPendingKeepsIInv ==
    ASSUME IInv, NEW c \in Calls, FindPending(c)
    PROVE  IInv' /\ SubsEvolve
<1> DEFINE n == call[c].node
<1>1. /\ call \in [Calls -> Call] /\ Len(subs) \in Nat /\ n \in Nodes
      /\ call[c].pc = "drop" /\ n \in Secondaries /\ dropped \subseteq Secondaries
      /\ registered' = registered /\ told' = told
      /\ state' \in {"open", "canceled", "stopped"}
  BY DEF IInv, TypeOK, FindPending, Call, CallOK
<1>2. PICK i \in 1 .. Len(subs) + 1 :
        /\ Reached(n, i)
        /\ \/ /\ i <= Len(subs)
              /\ call' = [call EXCEPT ![c] = At("dropping", n, NoVote, i)]
              /\ UNCHANGED <<subs, dropped>>
           \/ /\ Return(c)
              /\ dropped' = dropped \union {n}
              /\ UNCHANGED subs
           \/ /\ i = Len(subs) + 1
              /\ i <= MaxSubs
              /\ subs' = Append(subs, RetractVote(NextSubtransaction, n))
              /\ Return(c)
              /\ dropped' = dropped \union {n}
  BY DEF FindPending
<1>3. CASE /\ i <= Len(subs)
           /\ call' = [call EXCEPT ![c] = At("dropping", n, NoVote, i)]
           /\ UNCHANGED <<subs, dropped>>
  <2>1. SubsEvolve
    BY <1>3, UnchangedEvolves
  <2>2. At("dropping", n, NoVote, i) \in Call
    BY <1>1 DEF At, Call, PCs
  <2>3. call'[c] = At("dropping", n, NoVote, i)
    BY <1>1, <1>3
  <2>4. CallOK(c)'
    BY <1>1, <1>3, <2>3 DEF CallOK, At
  <2> QED
    BY <1>1, <1>3, <2>1, <2>2, <2>4, CallStepKeepsIInv
<1>4. CASE Return(c) /\ dropped' = dropped \union {n} /\ UNCHANGED subs
  BY <1>1, <1>4, UnchangedEvolves, ReturnKeepsIInv
<1>5. CASE /\ i = Len(subs) + 1
           /\ i <= MaxSubs
           /\ subs' = Append(subs, RetractVote(NextSubtransaction, n))
           /\ Return(c)
           /\ dropped' = dropped \union {n}
  <2>1. SubOK(NextSubtransaction)
    BY NewSubtransactionOK DEF NextSubtransaction
  <2>2. MayRetract(NextSubtransaction, n)
    \* The node committed the last subtransaction, so it is not canceled there.
    <3>1. CASE subs = << >>
      BY <1>1, <3>1 DEF NextSubtransaction, NewSubtransaction, MayRetract
    <3>2. CASE subs # << >>
      <4>1. Len(subs) \in 1 .. i - 1
        <5>1. subs \in Seq(Subtransaction)
          BY DEF IInv, TypeOK
        <5>2. Len(subs) # 0
          BY <3>2, <5>1
        <5> QED
          BY <1>1, <1>5, <5>2
      <4>2. subs[Len(subs)].result[n] = "committed"
        BY <1>2, <4>1 DEF Reached
      <4> QED
        BY <1>1, <3>2, <4>2 DEF NextSubtransaction, NewSubtransaction, MayRetract
    <3> QED
      BY <3>1, <3>2
  <2>3. SubOK(RetractVote(NextSubtransaction, n))
    BY <1>1, <2>1, <2>2, RetractVoteOK
  <2>4. SubsEvolve
    BY <1>1, <1>5, <2>3, AppendEvolves
  <2> QED
    BY <1>1, <1>5, <2>4, ReturnKeepsIInv
<1> QED
  BY <1>2, <1>3, <1>4, <1>5

\* cancelNodeVoter cancels the voter in the pending subtransactions.
LEMMA CancelNodeVoterKeepsIInv ==
    ASSUME IInv, NEW c \in Calls, CancelNodeVoter(c)
    PROVE  IInv' /\ SubsEvolve
<1> DEFINE n == call[c].node
           i == call[c].sub
<1>1. n \in Nodes /\ n \in Secondaries /\ dropped \subseteq Secondaries
      /\ i \in 1 .. Len(subs)
  BY DEF IInv, TypeOK, CancelNodeVoter, Call, CallOK
<1>2. /\ subs' = [k \in 1 .. Len(subs) |->
                     IF k >= i /\ \A j \in i .. k : MayRetract(subs[j], n)
                     THEN RetractVote(subs[k], n) ELSE subs[k]]
      /\ Return(c) /\ registered' = registered /\ told' = told
      /\ dropped' = dropped \union {n}
      /\ state' \in {"open", "canceled", "stopped"}
  BY DEF CancelNodeVoter, IInv, TypeOK
<1>3. ASSUME NEW k \in 1 .. Len(subs)
      PROVE  SubOK(subs'[k]) /\ Evolves(subs[k], subs'[k])
  <2>1. SubOK(subs[k])
    BY DEF IInv
  <2>2. CASE k >= i /\ \A j \in i .. k : MayRetract(subs[j], n)
    <3>1. MayRetract(subs[k], n)
      BY <1>1, <2>2
    <3>2. subs'[k] = RetractVote(subs[k], n)
      BY <1>2, <2>2
    <3> QED
      BY <1>1, <2>1, <3>1, <3>2, RetractVoteOK
  <2>3. CASE ~(k >= i /\ \A j \in i .. k : MayRetract(subs[j], n))
    <3>1. subs'[k] = subs[k]
      BY <1>2, <2>3
    <3> QED
      BY <2>1, <3>1, EvolvesReflexive
  <2> QED
    BY <2>2, <2>3
<1>4. SubsEvolve
  BY <1>2, <1>3, ReplaceEvolves
<1> QED
  BY <1>1, <1>2, <1>4, ReturnKeepsIInv

\* The cleanup closes all subtransactions.
LEMMA CancelTransactionKeepsIInv ==
    ASSUME IInv, CancelTransaction
    PROVE  IInv' /\ SubsEvolve
<1>1. /\ subs' = [i \in 1 .. Len(subs) |-> Close(subs[i], "canceled")]
      /\ registered' = FALSE /\ state' = "canceled"
      /\ call' = call /\ told' = told /\ dropped' = dropped
  BY DEF CancelTransaction
<1>2. ASSUME NEW i \in 1 .. Len(subs)
      PROVE  SubOK(subs'[i]) /\ Evolves(subs[i], subs'[i])
  <2>1. SubOK(subs[i])
    BY DEF IInv
  <2> QED
    BY <1>1, <2>1, CloseOK
<1>3. SubsEvolve
  BY <1>1, <1>2, ReplaceEvolves
<1>4. \A c \in Calls : CallOK(c)'
  BY <1>1, <1>3, KeepCall
<1>5. ToldIsFinal'
  BY <1>1, <1>3, KeepTold
<1>6. TypeOK'
  BY <1>1, <1>3, <1>4 DEF IInv, TypeOK, SubsEvolve, CallOK
<1> QED
  BY <1>3, <1>4, <1>5, <1>6 DEF IInv, SubsEvolve

\* Every step keeps the inductive invariant.
LEMMA NextKeepsIInv == IInv /\ [Next]_vars => IInv' /\ SubsEvolve
<1> SUFFICES ASSUME IInv, [Next]_vars PROVE IInv' /\ SubsEvolve
  OBVIOUS
<1>1. ASSUME NEW c \in Calls, StartCall(c)
      PROVE  IInv' /\ SubsEvolve
  BY <1>1, StartKeepsIInv
<1>2. ASSUME NEW c \in Calls, CallStep(c)
      PROVE  IInv' /\ SubsEvolve
  <2>1. CASE RefuseVote(c)
    BY <2>1, UnchangedEvolves, ReturnKeepsIInv DEF RefuseVote, IInv, TypeOK
  <2> QED
    BY <1>2, <2>1, GetOrCreateKeepsIInv, VoteKeepsIInv, CollectVotesKeepsIInv,
       StopKeepsIInv, FindPendingKeepsIInv, CancelNodeVoterKeepsIInv DEF CallStep
<1>3. ASSUME NEW c \in Calls, CollectExpired(c)
      PROVE  IInv' /\ SubsEvolve
  BY <1>3, CollectExpiredKeepsIInv
<1>4. CASE CancelTransaction
  BY <1>4, CancelTransactionKeepsIInv
<1>5. CASE UNCHANGED vars
  <2>1. /\ registered' = registered /\ state' = state /\ subs' = subs
        /\ call' = call /\ told' = told /\ dropped' = dropped
    BY <1>5 DEF vars
  <2>2. SubsEvolve
    BY <2>1, UnchangedEvolves
  <2>3. \A c \in Calls : CallOK(c)'
    BY <2>1, <2>2, KeepCall
  <2>4. ToldIsFinal'
    BY <2>1, <2>2, KeepTold
  <2>5. TypeOK'
    BY <2>1 DEF IInv, TypeOK
  <2> QED
    BY <2>2, <2>3, <2>4, <2>5 DEF IInv, SubsEvolve
<1> QED
  BY <1>1, <1>2, <1>3, <1>4, <1>5 DEF Next

\* The invariant holds in every reachable state.
LEMMA IInvAlways == Spec => []IInv
BY InitIInv, NextKeepsIInv, PTL DEF Spec

-----------------------------------------------------------------------------
(* The results *)

\* Type correctness of the transaction and of the calls on it.
THEOREM TypeCorrect == Spec => []TypeOK
<1>1. IInv => TypeOK
  BY DEF IInv
<1> QED
  BY <1>1, IInvAlways, PTL

\* voteCounts always equals the weight of the current supporters.
THEOREM CountsCorrect == Spec => []CountsExact
<1>1. IInv => CountsExact
  BY DEF IInv, SubOK, CountsExact
<1> QED
  BY <1>1, IInvAlways, PTL

\* A committed voter always has a standing quorum that includes the primary.
THEOREM CommittedCorrect == Spec => []CommittedHasQuorum
<1>1. IInv => CommittedHasQuorum
  <2> SUFFICES ASSUME IInv, NEW i \in 1 .. Len(subs), NEW n \in Nodes,
                      subs[i].result[n] = "committed"
               PROVE  /\ subs[i].vote[n] \in Votes
                      /\ HasQuorum(subs[i], subs[i].vote[n])
                      /\ subs[i].vote[Primary] = subs[i].vote[n]
    BY DEF CommittedHasQuorum
  <2>1. SubOK(subs[i])
    BY DEF IInv
  <2>2. subs[i].vote[n] \in Votes /\ HasQuorum(subs[i], subs[i].vote[n])
    BY <2>1 DEF SubOK
  <2> QED
    BY <2>1, <2>2, QuorumHasPrimaryVote
<1> QED
  BY <1>1, IInvAlways, PTL

\* An answer that was given stays true.
THEOREM ToldCorrect == Spec => []ToldIsFinal
<1>1. IInv => ToldIsFinal
  BY DEF IInv
<1> QED
  BY <1>1, IInvAlways, PTL

\* Nodes that were told to commit agree on what they commit: both were told
\* what the primary voted for.
THEOREM AgreementCorrect == Spec => []Agreement
<1>1. IInv => Agreement
  <2> SUFFICES ASSUME IInv, NEW a \in told, NEW b \in told, a[2] = b[2]
               PROVE  a[3] = b[3]
    BY DEF Agreement
  <2>1. ASSUME NEW t \in told
        PROVE  t[3] = subs[t[2]].vote[Primary]
    <3>1. /\ t[2] \in 1 .. Len(subs)
          /\ subs[t[2]].vote[t[1]] = t[3]
          /\ subs[t[2]].result[t[1]] = "committed"
      BY DEF IInv, ToldIsFinal, TypeOK
    <3>2. t[1] \in Nodes
      BY DEF IInv, TypeOK
    <3>3. SubOK(subs[t[2]])
      BY <3>1 DEF IInv
    <3>4. subs[t[2]].vote[t[1]] \in Votes /\ HasQuorum(subs[t[2]], subs[t[2]].vote[t[1]])
      BY <3>1, <3>2, <3>3 DEF SubOK
    <3> QED
      BY <3>1, <3>3, <3>4, QuorumHasPrimaryVote
  <2> QED
    BY <2>1
<1> QED
  BY <1>1, IInvAlways, PTL

\* No step changes a settled voter: every step lets the subtransactions only
\* evolve.
THEOREM SettledCorrect == Spec => SettledIsFinal
<1> DEFINE Keeps == \A i \in 1 .. Len(subs) : \A n \in Nodes :
                      subs[i].result[n] # "undecided" =>
                        /\ subs'[i].result[n] = subs[i].result[n]
                        /\ subs'[i].vote[n] = subs[i].vote[n]
<1>1. IInv /\ [Next]_vars => [Keeps]_vars
  BY NextKeepsIInv DEF SubsEvolve, Evolves
<1> QED
  BY <1>1, IInvAlways, PTL DEF Spec, SettledIsFinal

-----------------------------------------------------------------------------
(* The outcome of one subtransaction *)

\* Nobody has been canceled and still has a vote.
NoCanceledVotes(s) == \A n \in Nodes : s.result[n] = "canceled" => s.vote[n] = NoVote

\* As long as a voter is undecided.
LEMMA UndecidedMeansNoCanceledVotes ==
    ASSUME NEW s, OutcomeOK(s), NEW n \in Nodes, s.result[n] = "undecided"
    PROVE  NoCanceledVotes(s)
BY DEF OutcomeOK, NoCanceledVotes

\* What the trailing part of updateVoterState does to each voter.
LEMMA SettleFacts ==
    ASSUME NEW s \in Subtransaction
    PROVE  /\ Settle(s).vote = s.vote /\ Settle(s).counts = s.counts
           /\ s.done => Settle(s).done
           /\ ~Settle(s).done => ~MajorityReached(s) /\ QuorumPossible(s) /\ Settle(s) = s
           /\ \A m \in Nodes :
                 \/ Settle(s).result[m] = s.result[m]
                 \/ /\ s.result[m] = "undecided" /\ s.vote[m] # NoVote
                    /\ Settle(s).result[m] \in {"committed", "failed"}
           /\ MajorityReached(s) => \A m \in Nodes :
                 s.vote[m] # NoVote => Settle(s).result[m] # "undecided"
<1>1. CASE ~MajorityReached(s) /\ QuorumPossible(s)
  <2>1. Settle(s) = s
    BY <1>1 DEF Settle
  <2> QED
    BY <1>1, <2>1
<1>2. CASE ~(~MajorityReached(s) /\ QuorumPossible(s))
  <2> DEFINE r == [n \in Nodes |->
                IF s.result[n] = "undecided" /\ s.vote[n] # NoVote
                THEN IF QuorumPossible(s) /\ HasQuorum(s, s.vote[n])
                     THEN "committed" ELSE "failed"
                ELSE s.result[n]]
             t == Settle(s)
  <2>1. t = [s EXCEPT !.result = r, !.done = TRUE]
    BY <1>2 DEF Settle
  <2>2. \A m \in Nodes :
            /\ s.result[m] = "undecided" /\ s.vote[m] # NoVote => r[m] \in {"committed", "failed"}
            /\ ~(s.result[m] = "undecided" /\ s.vote[m] # NoVote) => r[m] = s.result[m]
    OBVIOUS
  <2> HIDE DEF r, t
  <2>3. t.result = r /\ t.vote = s.vote /\ t.counts = s.counts /\ t.done
    BY <2>1 DEF Subtransaction
  <2> QED
    BY <2>2, <2>3 DEF t
<1> QED
  BY <1>1, <1>2

\* A majority depends on the counts.
LEMMA SameMajority ==
    ASSUME NEW s, NEW t, t.counts = s.counts
    PROVE  MajorityReached(t) <=> MajorityReached(s)
BY DEF MajorityReached, HasQuorum

\* mustSignalVoters: after it, who still waits waits for an open outcome.
LEMMA SettleOutcome ==
    ASSUME NEW s \in Subtransaction, NoCanceledVotes(s)
    PROVE  OutcomeOK(Settle(s))
<1> DEFINE t == Settle(s)
<1>1. /\ t.vote = s.vote /\ t.counts = s.counts
      /\ ~t.done => ~MajorityReached(s) /\ QuorumPossible(s) /\ t = s
      /\ \A m \in Nodes :
            \/ t.result[m] = s.result[m]
            \/ t.result[m] \in {"committed", "failed"}
      /\ MajorityReached(s) => \A m \in Nodes :
            s.vote[m] # NoVote => t.result[m] # "undecided"
  BY SettleFacts
<1> HIDE DEF t
<1>2. ~t.done => ~MajorityReached(t) /\ QuorumPossible(t)
  BY <1>1
<1>3. MajorityReached(t) <=> MajorityReached(s)
  BY <1>1, SameMajority
<1>4. \A m \in Nodes : t.result[m] = "canceled" => t.vote[m] = NoVote
  BY <1>1 DEF NoCanceledVotes
<1>5. OutcomeOK(t)
  BY <1>1, <1>2, <1>3, <1>4 DEF OutcomeOK
<1> QED
  BY <1>5 DEF t

\* A vote settles, besides its own voter, only those that have voted.
LEMMA CastVoteOutcome ==
    ASSUME NEW s, SubOK(s), OutcomeOK(s), NEW n \in Nodes, NEW v \in Votes, MayCast(s, n)
    PROVE  /\ OutcomeOK(CastVote(s, n, v))
           /\ s.done => CastVote(s, n, v).done
           /\ \A m \in Nodes : m # n /\ s.vote[m] = NoVote =>
                 /\ CastVote(s, n, v).vote[m] = NoVote
                 /\ CastVote(s, n, v).result[m] = s.result[m]
<1> DEFINE nc == [s.counts EXCEPT ![v] = @ + Weight(n)]
           nv == [s.vote EXCEPT ![n] = v]
           t  == [s EXCEPT !.counts = nc, !.vote = nv]
<1>1. s \in Subtransaction
  BY DEF SubOK
<1>2. Weight(n) \in Nat
  BY SecondaryLenType DEF Weight
<1>3. /\ t \in Subtransaction
      /\ t.result = s.result /\ t.done = s.done
      /\ t.vote = nv
  <2>1. nc \in [Votes -> Nat] /\ nv \in [Nodes -> Votes \union {NoVote}]
    BY <1>1, <1>2 DEF Subtransaction
  <2> HIDE DEF nc, nv
  <2> QED
    BY <1>1, <2>1 DEF Subtransaction
<1>4. CastVote(s, n, v) = Settle(t)
  BY DEF CastVote
<1> HIDE DEF t
<1>5. \A m \in Nodes : m # n => t.vote[m] = s.vote[m]
  BY <1>1, <1>3 DEF Subtransaction
<1>6. NoCanceledVotes(t)
  <2>1. NoCanceledVotes(s) /\ s.result[n] = "undecided"
    BY UndecidedMeansNoCanceledVotes DEF MayCast
  <2> QED
    BY <2>1, <1>3, <1>5 DEF NoCanceledVotes
<1>7. OutcomeOK(Settle(t))
  BY <1>3, <1>6, SettleOutcome
<1>8. /\ Settle(t).vote = t.vote
      /\ t.done => Settle(t).done
      /\ \A m \in Nodes : t.vote[m] = NoVote => Settle(t).result[m] = t.result[m]
  BY <1>3, SettleFacts
<1> QED
  BY <1>3, <1>4, <1>5, <1>7, <1>8

\* So does the cancellation of a voter.
LEMMA RetractVoteOutcome ==
    ASSUME NEW s, SubOK(s), NoCanceledVotes(s), NEW n \in Nodes, MayRetract(s, n)
    PROVE  /\ OutcomeOK(RetractVote(s, n))
           /\ s.done => RetractVote(s, n).done
           /\ \A m \in Nodes : s.vote[m] = NoVote =>
                 /\ RetractVote(s, n).vote[m] = NoVote
                 /\ m # n => RetractVote(s, n).result[m] = s.result[m]
           /\ RetractVote(s, n).result[n] = "canceled"
<1>1. PICK t : /\ SubOK(t) /\ RetractVote(s, n) = Settle(t)
               /\ t.done = s.done
               /\ t.result[n] = "canceled" /\ t.vote[n] = NoVote
               /\ \A m \in Nodes : m # n =>
                     t.result[m] = s.result[m] /\ t.vote[m] = s.vote[m]
  BY Retracted
<1>2. t \in Subtransaction
  BY <1>1 DEF SubOK
<1>3. NoCanceledVotes(t)
  BY <1>1 DEF NoCanceledVotes
<1>4. OutcomeOK(Settle(t))
  BY <1>2, <1>3, SettleOutcome
<1>5. /\ Settle(t).vote = t.vote
      /\ t.done => Settle(t).done
      /\ \A m \in Nodes : t.vote[m] = NoVote => Settle(t).result[m] = t.result[m]
  BY <1>2, SettleFacts
<1> QED
  BY <1>1, <1>4, <1>5

\* Closing leaves nobody undecided, and votes as they are.
LEMMA CloseOutcome ==
    ASSUME NEW s, SubOK(s), OutcomeOK(s), NEW r \in {"canceled", "stopped"}
    PROVE  /\ OutcomeOK(Close(s, r))
           /\ Close(s, r).done /\ Close(s, r).vote = s.vote
           /\ \A n \in Nodes :
                 /\ Close(s, r).result[n] # "undecided"
                 /\ Close(s, r).result[n] = "committed" => s.result[n] = "committed"
<1> DEFINE nr == [n \in Nodes |->
                    IF s.result[n] = "undecided" THEN r ELSE s.result[n]]
           t  == [s EXCEPT !.result = nr, !.done = TRUE]
<1>1. s \in Subtransaction
  BY DEF SubOK
<1>2. \A n \in Nodes : /\ s.result[n] # "undecided" => nr[n] = s.result[n]
                       /\ s.result[n] = "undecided" => nr[n] = r
  OBVIOUS
<1> HIDE DEF nr
<1>3. t.result = nr /\ t.vote = s.vote /\ t.counts = s.counts /\ t.done
  BY <1>1 DEF Subtransaction
<1>4. Close(s, r) = t
  BY DEF Close, t, nr
<1> HIDE DEF t
<1>5. MajorityReached(t) <=> MajorityReached(s)
  BY <1>3, SameMajority
<1>6. OutcomeOK(t)
  BY <1>2, <1>3, <1>5 DEF OutcomeOK
<1> QED
  BY <1>2, <1>3, <1>4, <1>6

\* A new subtransaction has an open outcome if those who are not canceled can
\* reach the threshold.
LEMMA NewSubtransactionOutcome ==
    ASSUME NEW C, TotalWeight(Nodes \ C) >= Threshold
    PROVE  OutcomeOK(NewSubtransaction(C))
<1> DEFINE s == NewSubtransaction(C)
<1>1. /\ \A v \in Votes : s.counts[v] = 0
      /\ \A n \in Nodes : s.vote[n] = NoVote /\ (n \notin C => s.result[n] = "undecided")
      /\ \A n \in Nodes : n \in C => s.result[n] = "canceled"
  BY DEF NewSubtransaction
<1> HIDE DEF s
<1>2. Threshold \in Nat /\ Threshold > 0
  BY SecondaryLenType DEF Threshold
<1>3. ~MajorityReached(s)
  BY <1>1, <1>2 DEF MajorityReached, HasQuorum
<1>4. Outstanding(s) = Nodes \ C
  BY <1>1 DEF Outstanding
<1>5. TotalWeight(Nodes \ C) \in Nat
  BY TotalWeightType
<1>6. QuorumPossible(s)
  <2>1. PICK v \in Votes : TRUE
    BY VotesAssumption
  <2>2. s.counts[v] + TotalWeight(Outstanding(s)) >= Threshold
    BY <1>1, <1>2, <1>4, <1>5
  <2> QED
    BY <2>2 DEF QuorumPossible
<1> QED
  BY <1>1, <1>3, <1>6 DEF OutcomeOK, s

\* Whoever starts the next subtransaction committed the last one.  The voters that
\* made up the quorum there are not canceled, so they can make one again.
LEMMA NextSubtransactionOutcome ==
    ASSUME IInv, PathInv, NEW n \in Nodes,
           subs # << >> => subs[Len(subs)].result[n] = "committed"
    PROVE  OutcomeOK(NextSubtransaction)
<1>1. CASE subs = << >>
  <2>1. Nodes \ {} = Nodes
    OBVIOUS
  <2>2. TotalWeight(Nodes) \in Nat /\ Threshold \in Nat
    BY TotalWeightType, SecondaryLenType DEF Threshold
  <2>3. TotalWeight(Nodes \ {}) >= Threshold
    BY <2>1, <2>2, ThresholdIsValid
  <2> QED
    BY <1>1, <2>3, NewSubtransactionOutcome DEF NextSubtransaction
<1>2. CASE subs # << >>
  <2> DEFINE s == subs[Len(subs)]
             C == {m \in Nodes : s.result[m] = "canceled"}
             v == s.vote[n]
  <2>1. Len(subs) \in 1 .. Len(subs)
    BY <1>2 DEF IInv, TypeOK
  <2>2. SubOK(s) /\ OutcomeOK(s)
    BY <2>1 DEF IInv, PathInv
  <2>3. v \in Votes /\ HasQuorum(s, v)
    BY <1>2, <2>2 DEF SubOK
  <2>4. TotalWeight(Supporters(s, v)) >= Threshold
    BY <2>2, <2>3 DEF SubOK, HasQuorum
  <2>5. Supporters(s, v) \subseteq Nodes \ C
    <3>1. MajorityReached(s)
      BY <2>3 DEF MajorityReached
    <3>2. \A m \in Nodes : s.vote[m] # NoVote => s.result[m] # "canceled"
      BY <2>2, <3>1 DEF OutcomeOK
    <3> HIDE DEF s, v
    <3> QED
      BY <2>3, <3>2, VotesAssumption DEF Supporters
  <2>6. TotalWeight(Supporters(s, v)) <= TotalWeight(Nodes \ C)
    <3> HIDE DEF s, v, C
    <3> QED
      BY <2>5, TotalWeightMonotonic
  <2>7. TotalWeight(Nodes \ C) >= Threshold
    <3>1. TotalWeight(Nodes \ C) \in Nat
      BY TotalWeightType
    <3>2. TotalWeight(Supporters(s, v)) \in Nat
      BY TotalWeightType DEF Supporters
    <3>3. Threshold \in Nat
      BY SecondaryLenType DEF Threshold
    <3> HIDE DEF s, v, C
    <3> QED
      BY <3>1, <3>2, <3>3, <2>4, <2>6
  <2> QED
    BY <1>2, <2>7, NewSubtransactionOutcome DEF NextSubtransaction
<1> QED
  BY <1>1, <1>2

-----------------------------------------------------------------------------
(* One path for all nodes *)

\* No voter is committed that was not before.
NoNewCommits ==
    \A k \in 1 .. Len(subs') : \A m \in Nodes :
        subs'[k].result[m] = "committed" =>
            k \in 1 .. Len(subs) /\ subs[k].result[m] = "committed"

\* What a node committed stays committed.
LEMMA EarlierKept ==
    ASSUME IInv, SubsEvolve, NEW n \in Nodes, NEW i \in 1 .. Len(subs) + 1,
           CommittedEarlier(n, i)
    PROVE  \A j \in 1 .. i - 1 : subs'[j].result[n] = "committed"
<1> TAKE j \in 1 .. i - 1
<1>1. Len(subs) \in Nat
  BY DEF IInv, TypeOK
<1>2. j \in 1 .. Len(subs)
  BY <1>1
<1>3. Evolves(subs[j], subs'[j]) /\ subs[j].result[n] = "committed"
  BY <1>2 DEF SubsEvolve, CommittedEarlier
<1> QED
  BY <1>3 DEF Evolves

\* Steps that change voters of subtransactions which these nodes have reached.
LEMMA ReachedKeepsPath ==
    ASSUME IInv, PathInv, SubsEvolve, Len(subs') = Len(subs),
           \A k \in 1 .. Len(subs) :
              /\ subs[k].done => subs'[k].done
              /\ \A m \in Nodes :
                    \/ CommittedEarlier(m, k)
                    \/ /\ subs'[k].result[m] = subs[k].result[m]
                       /\ subs[k].vote[m] = NoVote => subs'[k].vote[m] = NoVote
    PROVE  /\ \A k \in 1 .. Len(subs') : \A m \in Nodes :
                 subs'[k].vote[m] # NoVote => CommittedEarlier(m, k)'
           /\ OnePathForAll'
<1>1. Len(subs) \in Nat
  BY DEF IInv, TypeOK
<1>2. ASSUME NEW k \in 1 .. Len(subs), NEW m \in Nodes, subs'[k].vote[m] # NoVote
      PROVE  \A j \in 1 .. k - 1 : subs'[j].result[m] = "committed"
  <2>1. CommittedEarlier(m, k)
    BY <1>2 DEF PathInv
  <2>2. k \in 1 .. Len(subs) + 1
    BY <1>1
  <2> QED
    BY <2>1, <2>2, EarlierKept
<1>3. ASSUME NEW i \in 1 .. Len(subs), NEW j \in 1 .. Len(subs), i < j
      PROVE  /\ subs'[i].done
             /\ \A n \in Nodes :
                   subs'[i].result[n] = "undecided" => subs'[j].result[n] = "undecided"
  <2>1. /\ subs[i].done
        /\ \A n \in Nodes : subs[i].result[n] = "undecided" => subs[j].result[n] = "undecided"
    BY <1>3 DEF PathInv, OnePathForAll
  <2>2. ASSUME NEW n \in Nodes, subs'[i].result[n] = "undecided"
        PROVE  subs'[j].result[n] = "undecided"
    <3>1. subs[i].result[n] = "undecided"
      <4>1. Evolves(subs[i], subs'[i])
        BY DEF SubsEvolve
      <4> QED
        BY <2>2, <4>1 DEF Evolves
    <3>2. ~CommittedEarlier(n, j)
      <4>1. i \in 1 .. j - 1
        BY <1>1, <1>3
      <4> QED
        BY <3>1, <4>1 DEF CommittedEarlier
    <3> QED
      BY <2>1, <3>1, <3>2
  <2> QED
    BY <2>1, <2>2
<1> QED
  BY <1>2, <1>3 DEF CommittedEarlier, OnePathForAll

\* Calls that are about to cancel a voter keep what they rely on.
LEMMA DroppersKept ==
    ASSUME IInv, PathInv, SubsEvolve, NEW c \in Calls,
           call[c].pc = "dropping", call'[c] = call[c]
    PROVE  \A j \in 1 .. call'[c].sub - 1 : subs'[j].result[call'[c].node] = "committed"
<1>1. /\ call[c].sub \in 1 .. Len(subs) + 1 /\ call[c].node \in Nodes
      /\ CommittedEarlier(call[c].node, call[c].sub)
  BY DEF IInv, TypeOK, Call, PathInv
<1>2. \A j \in 1 .. call[c].sub - 1 : subs'[j].result[call[c].node] = "committed"
  BY <1>1, EarlierKept
<1> QED
  BY <1>2

\* A call that returns; the others stay where they are.
LEMMA ReturnMoves ==
    ASSUME IInv, NEW c \in Calls, Return(c)
    PROVE  \A d \in Calls : call'[d].pc \in {"cast", "collect", "dropping"} => call'[d] = call[d]
BY DEF IInv, TypeOK, Return, Idle, At

\* Steps that leave the subtransactions and the state alone.
LEMMA QuietKeepsPath ==
    ASSUME IInv, PathInv, UNCHANGED <<subs, state>>,
           \A d \in Calls :
              /\ call'[d].pc \in {"cast", "collect"} => state = "open" \/ call'[d] = call[d]
              /\ call'[d].pc = "dropping" =>
                    \A j \in 1 .. call'[d].sub - 1 : subs[j].result[call'[d].node] = "committed"
    PROVE  PathInv' /\ NoNewCommits
<1>1. ClosedOK'
  BY DEF PathInv, ClosedOK
<1>2. OnePathForAll'
  BY DEF PathInv, OnePathForAll
<1>3. \A d \in Calls : call'[d].pc = "dropping" =>
          \A j \in 1 .. call'[d].sub - 1 : subs'[j].result[call'[d].node] = "committed"
  OBVIOUS
<1>4. \A i \in 1 .. Len(subs') :
        /\ OutcomeOK(subs'[i])
        /\ \A n \in Nodes : subs'[i].vote[n] # NoVote =>
              \A j \in 1 .. i - 1 : subs'[j].result[n] = "committed"
  BY DEF PathInv, CommittedEarlier
<1> QED
  BY <1>1, <1>2, <1>3, <1>4 DEF PathInv, CommittedEarlier, NoNewCommits

\* Steps of which the subtransactions and the calls are known to be as they should.
LEMMA PathInvFrom ==
    ASSUME \A i \in 1 .. Len(subs') :
              /\ OutcomeOK(subs'[i])
              /\ \A n \in Nodes : subs'[i].vote[n] # NoVote =>
                    \A j \in 1 .. i - 1 : subs'[j].result[n] = "committed",
           \A d \in Calls : call'[d].pc = "dropping" =>
              \A j \in 1 .. call'[d].sub - 1 : subs'[j].result[call'[d].node] = "committed",
           OnePathForAll', ClosedOK'
    PROVE  PathInv'
BY DEF PathInv, CommittedEarlier

\* In a closed transaction, steps that give nobody a vote leave it closed.
LEMMA ClosedKept ==
    ASSUME IInv, PathInv, SubsEvolve, state # "open",
           \A k \in 1 .. Len(subs') : \A m \in Nodes :
              k \notin 1 .. Len(subs) \/ subs[k].vote[m] = NoVote => subs'[k].vote[m] = NoVote,
           \A d \in Calls : call'[d].pc \in {"cast", "collect"} => call'[d] = call[d]
    PROVE  ClosedOK'
<1>1. ASSUME NEW k \in 1 .. Len(subs'), NEW n \in Nodes, NEW m \in Nodes,
             subs'[k].result[n] = "undecided"
      PROVE  subs'[k].vote[m] = NoVote
  <2>1. CASE k \in 1 .. Len(subs)
    <3>1. Evolves(subs[k], subs'[k])
      BY <2>1 DEF SubsEvolve
    <3>2. subs[k].result[n] = "undecided"
      BY <1>1, <3>1 DEF Evolves
    <3>3. subs[k].vote[m] = NoVote
      BY <2>1, <3>2 DEF PathInv, ClosedOK
    <3> QED
      BY <3>3
  <2>2. CASE k \notin 1 .. Len(subs)
    BY <2>2
  <2> QED
    BY <2>1, <2>2
<1>2. ASSUME NEW d \in Calls, call'[d].pc \in {"cast", "collect"}, NEW n \in Nodes
      PROVE  subs'[call'[d].sub].result[n] # "undecided"
  <2>1. call'[d] = call[d] /\ call[d].sub \in 1 .. Len(subs)
    BY <1>2 DEF IInv, TypeOK
  <2>2. subs[call[d].sub].result[n] # "undecided"
    BY <1>2, <2>1 DEF PathInv, ClosedOK
  <2>3. Evolves(subs[call[d].sub], subs'[call[d].sub])
    BY <2>1 DEF SubsEvolve
  <2> QED
    BY <2>1, <2>2, <2>3 DEF Evolves
<1> QED
  BY <1>1, <1>2 DEF ClosedOK

\* A new subtransaction, made for a node that committed all others: they are all
\* done, and whoever is undecided in one of them is undecided in the new one.
LEMMA AppendKeepsPath ==
    ASSUME IInv, PathInv, NEW t, SubOK(t), OutcomeOK(t), Len(subs) + 1 <= MaxSubs,
           subs' = Append(subs, t),
           NEW n \in Nodes, CommittedEarlier(n, Len(subs) + 1),
           \A m \in Nodes :
              /\ t.vote[m] = NoVote
              /\ subs # << >> /\ m # n /\ subs[Len(subs)].result[m] = "undecided" =>
                    t.result[m] = "undecided"
    PROVE  /\ \A i \in 1 .. Len(subs') :
                 /\ OutcomeOK(subs'[i])
                 /\ \A m \in Nodes : subs'[i].vote[m] # NoVote =>
                       \A j \in 1 .. i - 1 : subs'[j].result[m] = "committed"
           /\ OnePathForAll'
<1>1. subs \in Seq(Subtransaction) /\ Len(subs) \in Nat /\ t \in Subtransaction
  BY DEF IInv, TypeOK, SubOK
<1>2. /\ Len(subs') = Len(subs) + 1
      /\ \A i \in 1 .. Len(subs) : subs'[i] = subs[i]
      /\ subs'[Len(subs) + 1] = t
  BY <1>1
<1>3. ASSUME NEW i \in 1 .. Len(subs')
      PROVE  /\ OutcomeOK(subs'[i])
             /\ \A m \in Nodes : subs'[i].vote[m] # NoVote =>
                   \A j \in 1 .. i - 1 : subs'[j].result[m] = "committed"
  <2>1. CASE i \in 1 .. Len(subs)
    <3>1. \A j \in 1 .. i - 1 : subs'[j] = subs[j]
      BY <1>1, <1>2, <2>1
    <3>2. OutcomeOK(subs[i]) /\ subs'[i] = subs[i]
      BY <1>2, <2>1 DEF PathInv
    <3>3. \A m \in Nodes : subs[i].vote[m] # NoVote =>
              \A j \in 1 .. i - 1 : subs[j].result[m] = "committed"
      BY <2>1 DEF PathInv, CommittedEarlier
    <3> QED
      BY <3>1, <3>2, <3>3
  <2>2. CASE i = Len(subs) + 1
    BY <1>2, <2>2
  <2> QED
    BY <1>1, <1>2, <2>1, <2>2
<1>4. ASSUME NEW i \in 1 .. Len(subs'), NEW j \in 1 .. Len(subs'), i < j
      PROVE  /\ subs'[i].done
             /\ \A m \in Nodes :
                   subs'[i].result[m] = "undecided" => subs'[j].result[m] = "undecided"
  <2>1. i \in 1 .. Len(subs) /\ subs'[i] = subs[i]
    BY <1>1, <1>2, <1>4
  <2>2. CASE j \in 1 .. Len(subs)
    BY <1>2, <1>4, <2>1, <2>2 DEF PathInv, OnePathForAll
  <2>3. CASE j = Len(subs) + 1
    <3>1. subs[i].result[n] = "committed"
      BY <1>1, <2>1 DEF CommittedEarlier
    <3>2. subs[i].done
      BY <2>1, <3>1 DEF IInv, SubOK
    <3>3. ASSUME NEW m \in Nodes, subs[i].result[m] = "undecided"
          PROVE  t.result[m] = "undecided"
      <4>1. m # n
        BY <3>1, <3>3
      <4>2. subs # << >> /\ Len(subs) \in 1 .. Len(subs)
        BY <1>1, <2>1
      <4>3. subs[Len(subs)].result[m] = "undecided"
        BY <1>1, <2>1, <3>3, <4>2 DEF PathInv, OnePathForAll
      <4> QED
        BY <4>1, <4>2, <4>3
    <3> QED
      BY <1>2, <2>1, <2>3, <3>2, <3>3
  <2> QED
    BY <1>1, <1>2, <2>2, <2>3
<1> QED
  BY <1>3, <1>4 DEF OnePathForAll

\* What the next subtransaction looks like.
LEMMA NextSubtransactionVoters ==
    /\ \A m \in Nodes :
          /\ NextSubtransaction.vote[m] = NoVote
          /\ NextSubtransaction.result[m] \in {"undecided", "canceled"}
          /\ subs # << >> /\ subs[Len(subs)].result[m] # "canceled" =>
                NextSubtransaction.result[m] = "undecided"
    /\ ~NextSubtransaction.done
BY DEF NextSubtransaction, NewSubtransaction

\* getOrCreateSubtransaction.
LEMMA GetOrCreateKeepsPath ==
    ASSUME IInv, PathInv, NEW c \in Calls, GetOrCreateSubtransaction(c)
    PROVE  PathInv'
<1> DEFINE n == call[c].node
<1>1. /\ call \in [Calls -> Call] /\ Len(subs) \in Nat /\ n \in Nodes
      /\ subs \in Seq(Subtransaction) /\ state = "open" /\ state' = "open"
  BY DEF IInv, TypeOK, GetOrCreateSubtransaction, Call
<1>2. PICK i \in 1 .. Len(subs) + 1 :
        /\ Reached(n, i)
        /\ IF i <= Len(subs)
           THEN subs[i].result[n] = "undecided" /\ UNCHANGED subs
           ELSE i <= MaxSubs /\ subs' = Append(subs, NextSubtransaction)
        /\ call' = [call EXCEPT ![c] = At("cast", n, call[c].vote, i)]
  BY DEF GetOrCreateSubtransaction
<1>3. \A d \in Calls : call'[d].pc = "dropping" => call'[d] = call[d]
  BY <1>1, <1>2 DEF At
<1>4. CASE i <= Len(subs)
  <2>1. subs' = subs
    BY <1>2, <1>4
  <2>2. \A d \in Calls : call'[d].pc = "dropping" =>
            \A j \in 1 .. call'[d].sub - 1 : subs[j].result[call'[d].node] = "committed"
    BY <1>3 DEF PathInv, CommittedEarlier
  <2> QED
    BY <1>1, <2>1, <2>2, QuietKeepsPath
<1>5. CASE ~(i <= Len(subs))
  <2>1. i = Len(subs) + 1 /\ Len(subs) + 1 <= MaxSubs /\ subs' = Append(subs, NextSubtransaction)
    BY <1>1, <1>2, <1>5
  <2>2. CommittedEarlier(n, Len(subs) + 1)
    BY <1>2, <2>1 DEF Reached, CommittedEarlier
  <2>3. subs # << >> => subs[Len(subs)].result[n] = "committed"
    BY <1>1, <2>2 DEF CommittedEarlier
  <2>4. SubOK(NextSubtransaction)
    BY NewSubtransactionOK DEF NextSubtransaction
  <2>5. OutcomeOK(NextSubtransaction)
    BY <1>1, <2>3, NextSubtransactionOutcome
  <2>6. SubsEvolve
    BY <2>1, <2>4, AppendEvolves
  <2>7. /\ \A k \in 1 .. Len(subs') :
              /\ OutcomeOK(subs'[k])
              /\ \A m \in Nodes : subs'[k].vote[m] # NoVote =>
                    \A j \in 1 .. k - 1 : subs'[j].result[m] = "committed"
        /\ OnePathForAll'
    BY <1>1, <2>1, <2>2, <2>4, <2>5, NextSubtransactionVoters, AppendKeepsPath
  <2>8. \A d \in Calls : call'[d].pc = "dropping" =>
            \A j \in 1 .. call'[d].sub - 1 : subs'[j].result[call'[d].node] = "committed"
    BY <1>3, <2>6, DroppersKept
  <2>9. ClosedOK'
    BY <1>1 DEF ClosedOK
  <2> QED
    BY <2>7, <2>8, <2>9, PathInvFrom
<1> QED
  BY <1>4, <1>5

\* subtransaction.vote.
LEMMA VoteKeepsPath ==
    ASSUME IInv, PathInv, NEW c \in Calls, Vote(c), SubsEvolve
    PROVE  PathInv' /\ (state # "open" => NoNewCommits)
<1> DEFINE n == call[c].node
           i == call[c].sub
           v == call[c].vote
<1>1. /\ call \in [Calls -> Call] /\ Len(subs) \in Nat /\ subs \in Seq(Subtransaction)
      /\ call[c] \in Call /\ call[c].pc = "cast" /\ v \in Votes /\ n \in Nodes
      /\ i \in 1 .. Len(subs)
      /\ CallOK(c)
  BY DEF IInv, TypeOK, Vote, Call
<1>2. CASE ~MayCast(subs[i], n)
  <2>1. Return(c) /\ subs' = subs /\ state' = state
    BY <1>2 DEF Vote
  <2>2. \A d \in Calls : call'[d].pc \in {"cast", "collect", "dropping"} => call'[d] = call[d]
    BY <2>1, ReturnMoves
  <2> QED
    BY <2>1, <2>2, QuietKeepsPath DEF PathInv, CommittedEarlier
<1>3. CASE MayCast(subs[i], n)
  <2>1. /\ subs' = [subs EXCEPT ![i] = CastVote(@, n, v)]
        /\ call' = [call EXCEPT ![c] = At("collect", n, v, i)]
        /\ state' = state
    BY <1>3 DEF Vote
  <2>2. state = "open"
    BY <1>1, <1>3 DEF PathInv, ClosedOK, MayCast
  <2> DEFINE t == CastVote(subs[i], n, v)
  <2>3. /\ OutcomeOK(t)
        /\ subs[i].done => t.done
        /\ \A m \in Nodes : m # n /\ subs[i].vote[m] = NoVote =>
              t.vote[m] = NoVote /\ t.result[m] = subs[i].result[m]
    BY <1>1, <1>3, CastVoteOutcome DEF IInv, PathInv
  <2>4. /\ Len(subs') = Len(subs)
        /\ \A k \in 1 .. Len(subs) : subs'[k] = IF k = i THEN t ELSE subs[k]
    BY <1>1, <2>1
  <2> HIDE DEF t
  <2>5. ASSUME NEW k \in 1 .. Len(subs)
        PROVE  /\ OutcomeOK(subs'[k])
               /\ subs[k].done => subs'[k].done
               /\ \A m \in Nodes :
                     \/ CommittedEarlier(m, k)
                     \/ /\ subs'[k].result[m] = subs[k].result[m]
                        /\ subs[k].vote[m] = NoVote => subs'[k].vote[m] = NoVote
    <3>1. CASE k # i
      BY <2>4, <3>1 DEF PathInv
    <3>2. CASE k = i
      <4>1. CommittedEarlier(n, i)
        BY <1>1 DEF CallOK, CommittedEarlier
      <4>2. \A m \in Nodes : subs[i].vote[m] # NoVote => CommittedEarlier(m, i)
        BY <1>1 DEF PathInv
      <4> QED
        BY <2>3, <2>4, <3>2, <4>1, <4>2
    <3> QED
      BY <3>1, <3>2
  <2>6. /\ \A k \in 1 .. Len(subs') : \A m \in Nodes :
              subs'[k].vote[m] # NoVote => CommittedEarlier(m, k)'
        /\ OnePathForAll'
    BY <2>4, <2>5, ReachedKeepsPath
  <2>7. \A d \in Calls : call'[d].pc = "dropping" => call'[d] = call[d]
    BY <1>1, <2>1 DEF At
  <2>8. \A d \in Calls : call'[d].pc = "dropping" =>
            \A j \in 1 .. call'[d].sub - 1 : subs'[j].result[call'[d].node] = "committed"
    BY <2>7, DroppersKept
  <2>9. ClosedOK'
    BY <2>1, <2>2 DEF ClosedOK
  <2>10. PathInv'
    BY <2>4, <2>5, <2>6, <2>8, <2>9, PathInvFrom DEF CommittedEarlier
  <2> QED
    BY <2>2, <2>10
<1> QED
  BY <1>2, <1>3

\* A voter is canceled in subtransaction i, which its node has reached.
LEMMA RetractKeepsPath ==
    ASSUME IInv, PathInv, SubsEvolve, NEW c \in Calls, Return(c), UNCHANGED state,
           NEW i \in 1 .. Len(subs), NEW n \in Nodes, MayRetract(subs[i], n),
           CommittedEarlier(n, i),
           Len(subs') = Len(subs), subs'[i] = RetractVote(subs[i], n),
           \A k \in 1 .. Len(subs) : k # i => subs'[k] = subs[k]
    PROVE  PathInv' /\ (state # "open" => NoNewCommits)
<1> DEFINE t == RetractVote(subs[i], n)
<1>1. SubOK(subs[i]) /\ OutcomeOK(subs[i])
  BY DEF IInv, PathInv
<1>2. NoCanceledVotes(subs[i])
  BY <1>1, UndecidedMeansNoCanceledVotes DEF MayRetract
<1>3. /\ OutcomeOK(t)
      /\ subs[i].done => t.done
      /\ \A m \in Nodes : subs[i].vote[m] = NoVote =>
            /\ t.vote[m] = NoVote
            /\ m # n => t.result[m] = subs[i].result[m]
      /\ t.result[n] = "canceled"
  BY <1>1, <1>2, RetractVoteOutcome
<1>4. subs'[i] = t
  OBVIOUS
<1> HIDE DEF t
<1>5. ASSUME NEW k \in 1 .. Len(subs)
      PROVE  /\ OutcomeOK(subs'[k])
             /\ subs[k].done => subs'[k].done
             /\ \A m \in Nodes :
                   \/ CommittedEarlier(m, k)
                   \/ /\ subs'[k].result[m] = subs[k].result[m]
                      /\ subs[k].vote[m] = NoVote => subs'[k].vote[m] = NoVote
  <2>1. CASE k # i
    BY <2>1 DEF PathInv
  <2>2. CASE k = i
    <3>1. \A m \in Nodes : subs[i].vote[m] # NoVote => CommittedEarlier(m, i)
      BY DEF PathInv
    <3> QED
      BY <1>3, <1>4, <2>2, <3>1
  <2> QED
    BY <2>1, <2>2
<1>6. /\ \A k \in 1 .. Len(subs') : \A m \in Nodes :
            subs'[k].vote[m] # NoVote => CommittedEarlier(m, k)'
      /\ OnePathForAll'
  BY <1>5, ReachedKeepsPath
<1>7. \A d \in Calls : call'[d].pc \in {"cast", "collect", "dropping"} => call'[d] = call[d]
  BY ReturnMoves
<1>8. \A d \in Calls : call'[d].pc = "dropping" =>
          \A j \in 1 .. call'[d].sub - 1 : subs'[j].result[call'[d].node] = "committed"
  BY <1>7, DroppersKept
<1>9. \A k \in 1 .. Len(subs) : \A m \in Nodes :
          subs[k].vote[m] = NoVote => subs'[k].vote[m] = NoVote
  BY <1>3, <1>4
<1>10. ClosedOK'
  <2>1. CASE state = "open"
    BY <2>1 DEF ClosedOK
  <2>2. CASE state # "open"
    BY <1>7, <1>9, <2>2, ClosedKept
  <2> QED
    BY <2>1, <2>2
<1>11. PathInv'
  BY <1>5, <1>6, <1>8, <1>10, PathInvFrom DEF CommittedEarlier
<1>12. ASSUME state # "open" PROVE NoNewCommits
  <2>1. \A m \in Nodes : subs[i].vote[m] = NoVote
    BY <1>12 DEF PathInv, ClosedOK, MayRetract
  <2> QED
    BY <1>3, <1>4, <2>1 DEF NoNewCommits
<1> QED
  BY <1>11, <1>12

\* collectVotes with an expired context.
LEMMA CollectExpiredKeepsPath ==
    ASSUME IInv, PathInv, NEW c \in Calls, CollectExpired(c), SubsEvolve
    PROVE  PathInv' /\ (state # "open" => NoNewCommits)
<1> DEFINE n == call[c].node
           i == call[c].sub
<1>1. /\ n \in Nodes /\ i \in 1 .. Len(subs) /\ CommittedEarlier(n, i)
      /\ Len(subs) \in Nat /\ subs \in Seq(Subtransaction)
  BY DEF IInv, TypeOK, CollectExpired, Call, CallOK, CommittedEarlier
<1>2. Return(c) /\ state' = state
  BY DEF CollectExpired
<1>3. CASE MayRetract(subs[i], n)
  <2>1. subs' = [subs EXCEPT ![i] = RetractVote(subs[i], n)]
    BY <1>3 DEF CollectExpired
  <2>2. /\ Len(subs') = Len(subs) /\ subs'[i] = RetractVote(subs[i], n)
        /\ \A k \in 1 .. Len(subs) : k # i => subs'[k] = subs[k]
    BY <1>1, <2>1
  <2> QED
    BY <1>1, <1>2, <1>3, <2>2, RetractKeepsPath
<1>4. CASE ~MayRetract(subs[i], n)
  <2>1. subs' = subs
    BY <1>4 DEF CollectExpired
  <2>2. \A d \in Calls : call'[d].pc \in {"cast", "collect", "dropping"} => call'[d] = call[d]
    BY <1>2, ReturnMoves
  <2> QED
    BY <1>2, <2>1, <2>2, QuietKeepsPath DEF PathInv, CommittedEarlier
<1> QED
  BY <1>3, <1>4

\* cancelNodeVoter, second half: only the last subtransaction is not done, so at
\* most one voter is canceled.
LEMMA CancelNodeVoterKeepsPath ==
    ASSUME IInv, PathInv, NEW c \in Calls, CancelNodeVoter(c), SubsEvolve
    PROVE  PathInv' /\ (state # "open" => NoNewCommits)
<1> DEFINE n == call[c].node
           i == call[c].sub
<1>1. /\ n \in Nodes /\ i \in 1 .. Len(subs) /\ CommittedEarlier(n, i)
      /\ Len(subs) \in Nat /\ subs \in Seq(Subtransaction)
  BY DEF IInv, TypeOK, CancelNodeVoter, Call, PathInv
<1>2. /\ subs' = [k \in 1 .. Len(subs) |->
                     IF k >= i /\ \A j \in i .. k : MayRetract(subs[j], n)
                     THEN RetractVote(subs[k], n) ELSE subs[k]]
      /\ Return(c) /\ state' = state
  BY DEF CancelNodeVoter
<1>3. Len(subs') = Len(subs)
  BY <1>1, <1>2
<1>4. ASSUME NEW k \in 1 .. Len(subs), k # i
      PROVE  subs'[k] = subs[k]
  <2>1. ~(k >= i /\ \A j \in i .. k : MayRetract(subs[j], n))
    <3> SUFFICES ASSUME k >= i, MayRetract(subs[i], n)
                 PROVE  FALSE
      BY <1>1
    <3>1. i < k
      BY <1>1, <1>4
    <3> QED
      BY <1>1, <3>1 DEF PathInv, OnePathForAll, MayRetract
  <2> QED
    BY <1>2, <2>1
<1>5. CASE MayRetract(subs[i], n)
  <2>1. subs'[i] = RetractVote(subs[i], n)
    <3>1. \A j \in i .. i : j = i
      BY <1>1
    <3> QED
      BY <1>1, <1>2, <1>5, <3>1
  <2> QED
    BY <1>1, <1>2, <1>3, <1>4, <1>5, <2>1, RetractKeepsPath
<1>6. CASE ~MayRetract(subs[i], n)
  <2>1. subs'[i] = subs[i]
    <3>1. i \in i .. i
      BY <1>1
    <3> QED
      BY <1>1, <1>2, <1>6, <3>1
  <2>2. subs' = subs
    BY <1>1, <1>2, <1>4, <2>1
  <2>3. \A d \in Calls : call'[d].pc \in {"cast", "collect", "dropping"} => call'[d] = call[d]
    BY <1>2, ReturnMoves
  <2> QED
    BY <1>2, <2>2, <2>3, QuietKeepsPath DEF PathInv, CommittedEarlier
<1> QED
  BY <1>5, <1>6

\* The loops of stop and cancel: subtransactions are closed, in order, from the
\* first on.
LEMMA CloseKeepsPath ==
    ASSUME IInv, PathInv, SubsEvolve, NEW r \in {"canceled", "stopped"},
           Len(subs') = Len(subs),
           \A k \in 1 .. Len(subs) :
              \/ subs'[k] = Close(subs[k], r)
              \/ \A j \in k .. Len(subs) : subs'[j] = subs[j],
           state' = "open" \/ state # "open"
              \/ \A k \in 1 .. Len(subs) : subs'[k] = Close(subs[k], r),
           \A d \in Calls : call'[d].pc \in {"cast", "collect", "dropping"} => call'[d] = call[d]
    PROVE  PathInv' /\ NoNewCommits
<1>1. Len(subs) \in Nat
  BY DEF IInv, TypeOK
<1>2. ASSUME NEW k \in 1 .. Len(subs)
      PROVE  /\ OutcomeOK(Close(subs[k], r))
             /\ Close(subs[k], r).done /\ Close(subs[k], r).vote = subs[k].vote
             /\ \A n \in Nodes :
                   /\ Close(subs[k], r).result[n] # "undecided"
                   /\ Close(subs[k], r).result[n] = "committed" => subs[k].result[n] = "committed"
  BY CloseOutcome DEF IInv, PathInv
<1>3. ASSUME NEW k \in 1 .. Len(subs)
      PROVE  /\ OutcomeOK(subs'[k])
             /\ subs[k].done => subs'[k].done
             /\ subs'[k].vote = subs[k].vote
             /\ \A n \in Nodes :
                   subs'[k].result[n] = "committed" => subs[k].result[n] = "committed"
  <2>1. CASE subs'[k] = Close(subs[k], r)
    BY <1>2, <2>1
  <2>2. CASE \A j \in k .. Len(subs) : subs'[j] = subs[j]
    <3>1. subs'[k] = subs[k]
      BY <1>1, <2>2
    <3> QED
      BY <3>1 DEF PathInv
  <2> QED
    BY <2>1, <2>2
<1>4. ASSUME NEW k \in 1 .. Len(subs), NEW n \in Nodes, subs'[k].vote[n] # NoVote
      PROVE  \A j \in 1 .. k - 1 : subs'[j].result[n] = "committed"
  <2>1. CommittedEarlier(n, k)
    BY <1>3, <1>4 DEF PathInv
  <2>2. k \in 1 .. Len(subs) + 1
    BY <1>1
  <2> QED
    BY <2>1, <2>2, EarlierKept
<1>5. ASSUME NEW i \in 1 .. Len(subs), NEW j \in 1 .. Len(subs), i < j
      PROVE  /\ subs'[i].done
             /\ \A n \in Nodes :
                   subs'[i].result[n] = "undecided" => subs'[j].result[n] = "undecided"
  <2>1. /\ subs[i].done
        /\ \A n \in Nodes : subs[i].result[n] = "undecided" => subs[j].result[n] = "undecided"
    BY <1>5 DEF PathInv, OnePathForAll
  <2>2. CASE subs'[i] = Close(subs[i], r)
    BY <1>2, <2>2
  <2>3. CASE \A k \in i .. Len(subs) : subs'[k] = subs[k]
    <3>1. subs'[i] = subs[i] /\ subs'[j] = subs[j]
      BY <1>1, <1>5, <2>3
    <3> QED
      BY <2>1, <3>1
  <2> QED
    BY <2>2, <2>3
<1>6. OnePathForAll'
  BY <1>5 DEF OnePathForAll
<1>7. \A d \in Calls : call'[d].pc = "dropping" =>
          \A j \in 1 .. call'[d].sub - 1 : subs'[j].result[call'[d].node] = "committed"
  BY DroppersKept
<1>8. ClosedOK'
  <2>1. CASE state' = "open"
    BY <2>1 DEF ClosedOK
  <2>2. CASE state # "open"
    BY <1>3, <2>2, ClosedKept
  <2>3. CASE \A k \in 1 .. Len(subs) : subs'[k] = Close(subs[k], r)
    <3>1. \A k \in 1 .. Len(subs') : \A n \in Nodes : subs'[k].result[n] # "undecided"
      BY <1>2, <2>3
    <3>2. \A d \in Calls : call'[d].pc \in {"cast", "collect"} => call'[d].sub \in 1 .. Len(subs')
      BY DEF IInv, TypeOK
    <3> QED
      BY <3>1, <3>2 DEF ClosedOK
  <2> QED
    BY <2>1, <2>2, <2>3
<1>9. PathInv'
  BY <1>3, <1>4, <1>6, <1>7, <1>8, PathInvFrom
<1> QED
  BY <1>3, <1>9 DEF NoNewCommits

\* transaction.stop.
LEMMA StopKeepsPath ==
    ASSUME IInv, PathInv, NEW c \in Calls, Stop(c), SubsEvolve
    PROVE  PathInv' /\ NoNewCommits
<1>1. /\ subs' = [i \in 1 .. Len(subs) |->
                     IF \E j \in 1 .. i : IsStopped(subs[j])
                     THEN subs[i] ELSE Close(subs[i], "stopped")]
      /\ Return(c)
      /\ (\E j \in 1 .. Len(subs) : IsStopped(subs[j])) => state' = state
  BY DEF Stop
<1>2. Len(subs) \in Nat /\ Len(subs') = Len(subs)
  BY <1>1 DEF IInv, TypeOK
<1>3. \A k \in 1 .. Len(subs) :
         \/ subs'[k] = Close(subs[k], "stopped")
         \/ \A j \in k .. Len(subs) : subs'[j] = subs[j]
  <2> TAKE k \in 1 .. Len(subs)
  <2>1. CASE \E j \in 1 .. k : IsStopped(subs[j])
    <3>1. ASSUME NEW j \in k .. Len(subs) PROVE subs'[j] = subs[j]
      <4>1. j \in 1 .. Len(subs) /\ \E h \in 1 .. j : IsStopped(subs[h])
        BY <1>2, <2>1
      <4> QED
        BY <1>1, <4>1
    <3> QED
      BY <3>1
  <2>2. CASE ~\E j \in 1 .. k : IsStopped(subs[j])
    BY <1>1, <2>2
  <2> QED
    BY <2>1, <2>2
<1>4. state' = "open" \/ state # "open"
         \/ \A k \in 1 .. Len(subs) : subs'[k] = Close(subs[k], "stopped")
  <2>1. CASE \E j \in 1 .. Len(subs) : IsStopped(subs[j])
    BY <1>1, <2>1
  <2>2. CASE ~\E j \in 1 .. Len(subs) : IsStopped(subs[j])
    <3>1. \A k \in 1 .. Len(subs) : ~\E j \in 1 .. k : IsStopped(subs[j])
      BY <1>2, <2>2
    <3> QED
      BY <1>1, <3>1
  <2> QED
    BY <2>1, <2>2
<1>5. \A d \in Calls : call'[d].pc \in {"cast", "collect", "dropping"} => call'[d] = call[d]
  BY <1>1, ReturnMoves
<1> QED
  BY <1>2, <1>3, <1>4, <1>5, CloseKeepsPath

\* Manager.cancelTransaction.
LEMMA CancelTransactionKeepsPath ==
    ASSUME IInv, PathInv, CancelTransaction, SubsEvolve
    PROVE  PathInv' /\ NoNewCommits
<1>1. subs' = [i \in 1 .. Len(subs) |-> Close(subs[i], "canceled")] /\ call' = call
  BY DEF CancelTransaction
<1>2. Len(subs) \in Nat /\ Len(subs') = Len(subs)
  BY <1>1 DEF IInv, TypeOK
<1>3. \A k \in 1 .. Len(subs) : subs'[k] = Close(subs[k], "canceled")
  BY <1>1
<1> QED
  BY <1>1, <1>2, <1>3, CloseKeepsPath

\* cancelNodeVoter, first half.
LEMMA FindPendingKeepsPath ==
    ASSUME IInv, PathInv, NEW c \in Calls, FindPending(c), SubsEvolve
    PROVE  PathInv' /\ NoNewCommits
<1> DEFINE n == call[c].node
<1>1. /\ call \in [Calls -> Call] /\ Len(subs) \in Nat /\ n \in Nodes
      /\ subs \in Seq(Subtransaction) /\ state' = state
  BY DEF IInv, TypeOK, FindPending, Call
<1>2. PICK i \in 1 .. Len(subs) + 1 :
        /\ Reached(n, i)
        /\ \/ /\ i <= Len(subs)
              /\ call' = [call EXCEPT ![c] = At("dropping", n, NoVote, i)]
              /\ UNCHANGED subs
           \/ /\ Return(c)
              /\ UNCHANGED subs
           \/ /\ i = Len(subs) + 1
              /\ i <= MaxSubs
              /\ subs' = Append(subs, RetractVote(NextSubtransaction, n))
              /\ Return(c)
  BY DEF FindPending
<1>3. CommittedEarlier(n, i)
  BY <1>2 DEF Reached, CommittedEarlier
<1>4. CASE /\ call' = [call EXCEPT ![c] = At("dropping", n, NoVote, i)]
           /\ UNCHANGED subs
  <2>1. call'[c] = At("dropping", n, NoVote, i) /\ \A d \in Calls : d # c => call'[d] = call[d]
    BY <1>1, <1>4
  <2>2. ASSUME NEW d \in Calls
        PROVE  /\ call'[d].pc \in {"cast", "collect"} => call'[d] = call[d]
               /\ call'[d].pc = "dropping" =>
                     \A j \in 1 .. call'[d].sub - 1 : subs[j].result[call'[d].node] = "committed"
    <3>1. CASE d = c
      BY <1>3, <2>1, <3>1 DEF At, CommittedEarlier
    <3>2. CASE d # c
      BY <2>1, <3>2 DEF PathInv, CommittedEarlier
    <3> QED
      BY <3>1, <3>2
  <2> QED
    BY <1>1, <1>4, <2>2, QuietKeepsPath
<1>5. CASE Return(c) /\ UNCHANGED subs
  <2>1. \A d \in Calls : call'[d].pc \in {"cast", "collect", "dropping"} => call'[d] = call[d]
    BY <1>5, ReturnMoves
  <2> QED
    BY <1>1, <1>5, <2>1, QuietKeepsPath DEF PathInv, CommittedEarlier
<1>6. CASE /\ i = Len(subs) + 1
           /\ i <= MaxSubs
           /\ subs' = Append(subs, RetractVote(NextSubtransaction, n))
           /\ Return(c)
  <2>1. PICK s : s = NextSubtransaction
    OBVIOUS
  <2>2. /\ \A m \in Nodes :
              /\ s.vote[m] = NoVote
              /\ s.result[m] \in {"undecided", "canceled"}
              /\ subs # << >> /\ subs[Len(subs)].result[m] # "canceled" =>
                    s.result[m] = "undecided"
        /\ ~s.done
    BY <2>1, NextSubtransactionVoters
  <2>3. subs # << >> => subs[Len(subs)].result[n] = "committed"
    BY <1>1, <1>3, <1>6 DEF CommittedEarlier
  <2>4. MayRetract(s, n)
    <3>1. CASE subs = << >>
      BY <1>1, <2>1, <3>1 DEF NextSubtransaction, NewSubtransaction, MayRetract
    <3>2. CASE subs # << >>
      BY <1>1, <2>2, <2>3, <3>2 DEF MayRetract
    <3> QED
      BY <3>1, <3>2
  <2>5. SubOK(s) /\ NoCanceledVotes(s)
    BY <2>1, <2>2, NewSubtransactionOK DEF NextSubtransaction, NoCanceledVotes
  <2>6. PICK t : t = RetractVote(s, n)
    OBVIOUS
  <2>7. /\ OutcomeOK(t) /\ SubOK(t) /\ t.result[n] = "canceled"
        /\ \A m \in Nodes : t.vote[m] = NoVote /\ (m # n => t.result[m] = s.result[m])
    BY <1>1, <2>2, <2>4, <2>5, <2>6, RetractVoteOutcome, RetractVoteOK
  <2>8. subs' = Append(subs, t)
    BY <1>6, <2>1, <2>6
  <2>9. \A m \in Nodes :
          /\ t.vote[m] = NoVote
          /\ subs # << >> /\ m # n /\ subs[Len(subs)].result[m] = "undecided" =>
                t.result[m] = "undecided"
    BY <2>2, <2>7
  <2>10. /\ \A k \in 1 .. Len(subs') :
               /\ OutcomeOK(subs'[k])
               /\ \A m \in Nodes : subs'[k].vote[m] # NoVote =>
                     \A j \in 1 .. k - 1 : subs'[j].result[m] = "committed"
         /\ OnePathForAll'
    BY <1>1, <1>3, <1>6, <2>7, <2>8, <2>9, AppendKeepsPath
  <2>11. \A d \in Calls : call'[d].pc \in {"cast", "collect", "dropping"} => call'[d] = call[d]
    BY <1>6, ReturnMoves
  <2>12. \A d \in Calls : call'[d].pc = "dropping" =>
            \A j \in 1 .. call'[d].sub - 1 : subs'[j].result[call'[d].node] = "committed"
    BY <2>11, DroppersKept
  <2>13. /\ Len(subs') = Len(subs) + 1
         /\ \A k \in 1 .. Len(subs) : subs'[k] = subs[k]
         /\ subs'[Len(subs) + 1] = t
    BY <1>1, <2>7, <2>8 DEF SubOK
  <2>14. \A k \in 1 .. Len(subs') : k \in 1 .. Len(subs) \/ k = Len(subs) + 1
    BY <1>1, <2>13
  <2>15. ClosedOK'
    <3>1. CASE state = "open"
      BY <1>1, <3>1 DEF ClosedOK
    <3>2. CASE state # "open"
      <4>1. \A k \in 1 .. Len(subs') : \A m \in Nodes :
              k \notin 1 .. Len(subs) \/ subs[k].vote[m] = NoVote => subs'[k].vote[m] = NoVote
        BY <2>7, <2>13, <2>14
      <4> QED
        BY <2>11, <3>2, <4>1, ClosedKept
    <3> QED
      BY <3>1, <3>2
  <2>16. NoNewCommits
    <3>1. \A m \in Nodes : t.result[m] # "committed"
      BY <2>2, <2>7
    <3> QED
      BY <2>13, <2>14, <3>1 DEF NoNewCommits
  <2> QED
    BY <2>10, <2>12, <2>15, <2>16, PathInvFrom
<1> QED
  BY <1>2, <1>4, <1>5, <1>6

\* The first state.
LEMMA InitPathInv == Init => PathInv
BY DEF Init, PathInv, OnePathForAll, ClosedOK, Idle, At

\* Every step keeps the path, and commits nobody once the transaction is closed.
LEMMA NextKeepsPath ==
    IInv /\ PathInv /\ [Next]_vars => PathInv' /\ (state # "open" => NoNewCommits)
<1> SUFFICES ASSUME IInv, PathInv, [Next]_vars
             PROVE  PathInv' /\ (state # "open" => NoNewCommits)
  OBVIOUS
<1>1. SubsEvolve
  BY NextKeepsIInv
<1>2. call \in [Calls -> Call]
  BY DEF IInv, TypeOK
<1>3. ASSUME UNCHANGED <<subs, state>>,
             \A d \in Calls : call'[d].pc \in {"cast", "collect", "dropping"} => call'[d] = call[d]
      PROVE  PathInv' /\ NoNewCommits
  BY <1>3, QuietKeepsPath DEF PathInv, CommittedEarlier
<1>4. ASSUME NEW c \in Calls, StartCall(c)
      PROVE  PathInv' /\ NoNewCommits
  <2>1. UNCHANGED <<subs, state>>
    BY <1>4 DEF StartCall, LookupVote, LookupStop, LookupDrop
  <2>2. \A d \in Calls : call'[d].pc \in {"cast", "collect", "dropping"} => call'[d] = call[d]
    BY <1>2, <1>4 DEF StartCall, LookupVote, LookupStop, LookupDrop, At
  <2> QED
    BY <1>3, <2>1, <2>2
<1>5. ASSUME NEW c \in Calls, CallStep(c)
      PROVE  PathInv' /\ (state # "open" => NoNewCommits)
  <2>1. CASE RefuseVote(c) \/ CollectVotes(c)
    <3>1. Return(c) /\ UNCHANGED <<subs, state>>
      BY <2>1 DEF RefuseVote, CollectVotes
    <3> QED
      BY <1>3, <3>1, ReturnMoves
  <2>2. CASE GetOrCreateSubtransaction(c)
    BY <2>2, GetOrCreateKeepsPath DEF GetOrCreateSubtransaction
  <2> QED
    BY <1>1, <1>5, <2>1, <2>2, VoteKeepsPath, StopKeepsPath, FindPendingKeepsPath,
       CancelNodeVoterKeepsPath DEF CallStep
<1>6. ASSUME NEW c \in Calls, CollectExpired(c)
      PROVE  PathInv' /\ (state # "open" => NoNewCommits)
  BY <1>1, <1>6, CollectExpiredKeepsPath
<1>7. CASE CancelTransaction
  BY <1>1, <1>7, CancelTransactionKeepsPath
<1>8. CASE UNCHANGED vars
  BY <1>3, <1>8 DEF vars
<1> QED
  BY <1>4, <1>5, <1>6, <1>7, <1>8 DEF Next

\* Both invariants hold in every reachable state.
LEMMA PathInvAlways == Spec => [](IInv /\ PathInv)
BY InitIInv, NextKeepsIInv, InitPathInv, NextKeepsPath, PTL DEF Spec

\* mustSignalVoters: doneCh stays open only while the outcome is open and can still
\* be reached.
THEOREM WaitsOnlyCorrect == Spec => []WaitsOnlyForOpenOutcome
<1>1. PathInv => WaitsOnlyForOpenOutcome
  BY DEF PathInv, OutcomeOK, WaitsOnlyForOpenOutcome
<1> QED
  BY <1>1, PathInvAlways, PTL

\* All nodes walk through the same sequence of subtransactions, of which only the
\* last is not done.
THEOREM OnePathCorrect == Spec => []OnePathForAll
<1>1. PathInv => OnePathForAll
  BY DEF PathInv
<1> QED
  BY <1>1, PathInvAlways, PTL

\* A call that passed the check of the transaction's state before it was stopped or
\* canceled commits nobody afterwards.
THEOREM ClosedCorrect == Spec => ClosedDecidesNothing
<1>1. ASSUME IInv, PathInv, [Next]_vars, state # "open"
      PROVE  Committed' = Committed
  <2>1. NoNewCommits /\ SubsEvolve
    BY <1>1, NextKeepsPath, NextKeepsIInv
  <2>2. \A k \in 1 .. Len(subs) : \A m \in Nodes :
          subs[k].result[m] = "committed" =>
              k \in 1 .. Len(subs') /\ subs'[k].result[m] = "committed"
    BY <2>1 DEF SubsEvolve, Evolves
  <2>3. Committed' \subseteq Committed
    BY <2>1 DEF Committed, NoNewCommits
  <2>4. Committed \subseteq Committed'
    BY <2>2 DEF Committed
  <2> QED
    BY <2>3, <2>4
<1>2. IInv /\ PathInv /\ [Next]_vars => [state # "open" => Committed' = Committed]_vars
  BY <1>1
<1> QED
  BY <1>2, PathInvAlways, PTL DEF Spec, ClosedDecidesNothing

-----------------------------------------------------------------------------
(* One subtransaction is decided once *)

\* Settling depends on what was there before.
LEMMA SettleDecides ==
    ASSUME NEW s \in Subtransaction,
           ~MajorityReached(s) /\ QuorumPossible(s) => DecidedOnce(s)
    PROVE  DecidedOnce(Settle(s))
<1>1. CASE ~MajorityReached(s) /\ QuorumPossible(s)
  BY <1>1 DEF Settle
<1>2. CASE ~(~MajorityReached(s) /\ QuorumPossible(s))
  <2> DEFINE r == [n \in Nodes |->
                IF s.result[n] = "undecided" /\ s.vote[n] # NoVote
                THEN IF QuorumPossible(s) /\ HasQuorum(s, s.vote[n])
                     THEN "committed" ELSE "failed"
                ELSE s.result[n]]
             t == Settle(s)
  <2>1. t = [s EXCEPT !.result = r, !.done = TRUE]
    BY <1>2 DEF Settle
  <2>2. \A m \in Nodes :
            /\ s.result[m] = "undecided" /\ s.vote[m] # NoVote => r[m] # "undecided"
            /\ ~(s.result[m] = "undecided" /\ s.vote[m] # NoVote) => r[m] = s.result[m]
    OBVIOUS
  <2> HIDE DEF r, t
  <2>3. t.result = r /\ t.vote = s.vote /\ t.counts = s.counts /\ t.done
    BY <2>1 DEF Subtransaction
  <2>4. Outstanding(t) = Outstanding(s)
    BY <2>2, <2>3 DEF Outstanding
  <2>5. MajorityReached(t) <=> MajorityReached(s)
    BY <2>3, SameMajority
  <2>6. QuorumPossible(t) <=> QuorumPossible(s)
    BY <2>3, <2>4, <2>5 DEF QuorumPossible
  <2>7. DecidedOnce(t)
    BY <1>2, <2>2, <2>3, <2>5, <2>6 DEF DecidedOnce
  <2> QED
    BY <2>7 DEF t
<1> QED
  BY <1>1, <1>2

\* A vote takes from the outstanding weight what it adds to a count, so it does not
\* open an outcome again.
LEMMA CastVoteDecides ==
    ASSUME NEW s, SubOK(s), DecidedOnce(s), NEW n \in Nodes, NEW v \in Votes, MayCast(s, n)
    PROVE  /\ DecidedOnce(CastVote(s, n, v))
           /\ CastVote(s, n, v).vote[n] = v
           /\ \A m \in Nodes : m # n => CastVote(s, n, v).vote[m] = s.vote[m]
<1> DEFINE nc == [s.counts EXCEPT ![v] = @ + Weight(n)]
           nv == [s.vote EXCEPT ![n] = v]
           t  == [s EXCEPT !.counts = nc, !.vote = nv]
<1>1. s \in Subtransaction
  BY DEF SubOK
<1>2. Weight(n) \in Nat /\ Threshold \in Nat
  BY SecondaryLenType DEF Weight
<1>3. /\ t \in Subtransaction
      /\ t.result = s.result /\ t.done = s.done
      /\ t.vote = nv /\ t.counts = nc
  <2>1. nc \in [Votes -> Nat] /\ nv \in [Nodes -> Votes \union {NoVote}]
    BY <1>1, <1>2 DEF Subtransaction
  <2> HIDE DEF nc, nv
  <2> QED
    BY <1>1, <2>1 DEF Subtransaction
<1>4. CastVote(s, n, v) = Settle(t)
  BY DEF CastVote
<1> HIDE DEF t
<1>5. t.vote[n] = v /\ \A m \in Nodes : m # n => t.vote[m] = s.vote[m]
  BY <1>1, <1>3 DEF Subtransaction
<1>6. \A w \in Votes : /\ s.counts[w] \in Nat /\ t.counts[w] \in Nat
                       /\ w # v => t.counts[w] = s.counts[w]
                       /\ w = v => t.counts[w] = s.counts[w] + Weight(n)
  BY <1>1, <1>2, <1>3 DEF Subtransaction
<1>7. /\ TotalWeight(Outstanding(s)) \in Nat /\ TotalWeight(Outstanding(t)) \in Nat
      /\ TotalWeight(Outstanding(s)) = TotalWeight(Outstanding(t)) + Weight(n)
  <2>1. Outstanding(s) = Outstanding(t) \union {n} /\ n \notin Outstanding(t)
    BY <1>3, <1>5, VotesAssumption DEF Outstanding, MayCast
  <2>2. Outstanding(s) \in SUBSET Nodes /\ Outstanding(t) \in SUBSET Nodes
    BY DEF Outstanding
  <2> QED
    BY <2>1, <2>2, TotalWeightAdd, TotalWeightType
<1>8. ASSUME s.done, ~MajorityReached(t), QuorumPossible(t) PROVE FALSE
  <2>1. MajorityReached(s) \/ ~QuorumPossible(s)
    BY <1>8 DEF DecidedOnce, MayCast
  <2>2. ~MajorityReached(s)
    BY <1>2, <1>6, <1>8 DEF MajorityReached, HasQuorum
  <2>3. PICK w \in Votes : t.counts[w] + TotalWeight(Outstanding(t)) >= Threshold
    BY <1>8 DEF QuorumPossible
  <2>4. s.counts[w] + TotalWeight(Outstanding(s)) >= Threshold
    BY <1>2, <1>6, <1>7, <2>3
  <2> QED
    BY <2>1, <2>2, <2>4 DEF QuorumPossible
<1>9. ~MajorityReached(t) /\ QuorumPossible(t) => DecidedOnce(t)
  BY <1>3, <1>8 DEF DecidedOnce
<1>10. DecidedOnce(Settle(t)) /\ Settle(t).vote = t.vote
  BY <1>3, <1>9, SettleDecides, SettleFacts
<1> QED
  BY <1>4, <1>5, <1>10

\* A voter is canceled only while the subtransaction is not done.
LEMMA RetractVoteDecides ==
    ASSUME NEW s, SubOK(s), NEW n \in Nodes, MayRetract(s, n)
    PROVE  /\ DecidedOnce(RetractVote(s, n))
           /\ RetractVote(s, n).vote[n] = NoVote
           /\ \A m \in Nodes : m # n => RetractVote(s, n).vote[m] = s.vote[m]
<1>1. PICK t : /\ SubOK(t) /\ RetractVote(s, n) = Settle(t)
               /\ t.done = s.done
               /\ t.result[n] = "canceled" /\ t.vote[n] = NoVote
               /\ \A m \in Nodes : m # n =>
                     t.result[m] = s.result[m] /\ t.vote[m] = s.vote[m]
  BY Retracted
<1>2. DecidedOnce(t) /\ t \in Subtransaction
  BY <1>1 DEF DecidedOnce, MayRetract, SubOK
<1>3. DecidedOnce(Settle(t)) /\ Settle(t).vote = t.vote
  BY <1>2, SettleDecides, SettleFacts
<1> QED
  BY <1>1, <1>3

\* Closing leaves nobody undecided.
LEMMA CloseDecides ==
    ASSUME NEW s, SubOK(s), OutcomeOK(s), NEW r \in {"canceled", "stopped"}
    PROVE  DecidedOnce(Close(s, r)) /\ Close(s, r).vote = s.vote
BY CloseOutcome DEF DecidedOnce

-----------------------------------------------------------------------------
(* A quorum commits *)

\* Two tables with the same votes have the same counts.
LEMMA SameVotesSameQuorums ==
    ASSUME NEW s, SubOK(s), NEW t, SubOK(t), t.vote = s.vote, NEW v \in Votes
    PROVE  HasQuorum(t, v) <=> HasQuorum(s, v)
<1>1. Supporters(t, v) = Supporters(s, v)
  BY DEF Supporters
<1>2. t.counts[v] = s.counts[v]
  BY <1>1 DEF SubOK
<1> QED
  BY <1>2 DEF HasQuorum

\* Whoever is committed, the committed voters are those that agree with the
\* primary, and they are a quorum.
LEMMA CommittersAreQuorum ==
    ASSUME NEW s, SubOK(s), QuorumCommits(s), NEW m \in Nodes, s.result[m] = "committed"
    PROVE  /\ s.vote[Primary] \in Votes
           /\ s.vote[m] = s.vote[Primary]
           /\ HasQuorum(s, s.vote[Primary])
           /\ {n \in Nodes : s.result[n] = "committed"} = Supporters(s, s.vote[Primary])
           /\ TotalWeight({n \in Nodes : s.result[n] = "committed"}) >= Threshold
<1>1. \A n \in Nodes : s.result[n] = "committed" =>
        s.vote[n] \in Votes /\ HasQuorum(s, s.vote[n]) /\ s.vote[n] = s.vote[Primary]
  BY QuorumHasPrimaryVote DEF SubOK
<1>2. \A n \in Nodes : s.vote[n] = s.vote[Primary] => s.result[n] = "committed"
  BY <1>1, VotesAssumption DEF QuorumCommits
<1>3. {n \in Nodes : s.result[n] = "committed"} = Supporters(s, s.vote[Primary])
  BY <1>1, <1>2 DEF Supporters
<1>4. s.counts[s.vote[Primary]] = TotalWeight(Supporters(s, s.vote[Primary]))
  BY <1>1 DEF SubOK
<1> QED
  BY <1>1, <1>3, <1>4 DEF HasQuorum

\* A voter that supports a quorum and was settled before the quorum was there would
\* have been settled while a quorum was possible.
LEMMA CastVoteCommits ==
    ASSUME NEW s, SubOK(s), OutcomeOK(s), DecidedOnce(s), QuorumCommits(s),
           NEW n \in Nodes, NEW v \in Votes, MayCast(s, n)
    PROVE  QuorumCommits(CastVote(s, n, v))
<1> DEFINE nc == [s.counts EXCEPT ![v] = @ + Weight(n)]
           nv == [s.vote EXCEPT ![n] = v]
           t  == [s EXCEPT !.counts = nc, !.vote = nv]
           u  == CastVote(s, n, v)
<1>1. s \in Subtransaction
  BY DEF SubOK
<1>2. Weight(n) \in Nat /\ Threshold \in Nat
  BY SecondaryLenType DEF Weight
<1>3. /\ t \in Subtransaction
      /\ t.result = s.result /\ t.done = s.done
      /\ t.vote = nv /\ t.counts = nc
  <2>1. nc \in [Votes -> Nat] /\ nv \in [Nodes -> Votes \union {NoVote}]
    BY <1>1, <1>2 DEF Subtransaction
  <2> HIDE DEF nc, nv
  <2> QED
    BY <1>1, <2>1 DEF Subtransaction
<1>4. u = Settle(t)
  BY DEF CastVote
<1>5. /\ SubOK(u) /\ u.vote[n] = v
      /\ \A m \in Nodes : s.result[m] # "undecided" => u.result[m] = s.result[m]
  BY CastVoteOK DEF Evolves
<1> HIDE DEF t, u
<1>6. /\ u.vote = t.vote /\ u.counts = t.counts
      /\ ~u.done => u = t
      /\ \A m \in Nodes : m # n => u.vote[m] = s.vote[m]
  BY <1>1, <1>3, <1>4, SettleFacts DEF Subtransaction
<1>7. \A w \in Votes : /\ s.counts[w] \in Nat /\ u.counts[w] \in Nat
                       /\ w # v => u.counts[w] = s.counts[w]
                       /\ w = v => u.counts[w] = s.counts[w] + Weight(n)
  BY <1>1, <1>2, <1>3, <1>6 DEF Subtransaction
<1>8. ASSUME NEW m \in Nodes, u.vote[m] # NoVote, HasQuorum(u, u.vote[m])
      PROVE  u.result[m] = "committed"
  <2> DEFINE w == u.vote[m]
  <2>1. w \in Votes
    BY <1>8, <1>5 DEF SubOK, Subtransaction
  <2>2. u.vote[Primary] = w
    BY <1>5, <1>8, <2>1, QuorumHasPrimaryVote
  <2>3. CASE s.result[m] = "undecided"
    <3>1. HasQuorum(t, t.vote[m]) /\ t.vote[m] = w
      BY <1>6, <1>8 DEF HasQuorum
    <3>2. MajorityReached(t) /\ QuorumPossible(t)
      BY <2>1, <3>1 DEF MajorityReached, QuorumPossible
    <3>3. Settle(t).result[m] = "committed"
      BY <1>3, <2>3, <3>1, <3>2, <1>8 DEF Settle, Subtransaction
    <3> QED
      BY <3>3, <1>4
  <2>4. CASE s.result[m] # "undecided"
    <3>1. m # n /\ s.vote[m] = w
      BY <2>4, <1>6 DEF MayCast
    <3>2. CASE HasQuorum(s, w)
      BY <3>1, <3>2, <2>4, <1>5, <1>8 DEF QuorumCommits
    <3>3. CASE ~HasQuorum(s, w)
      <4>1. w = v
        BY <3>3, <2>1, <1>7, <1>8 DEF HasQuorum
      <4>2. s.result[m] # "committed"
        BY <3>1, <3>3 DEF SubOK
      <4>3. s.result[m] # "canceled"
        BY <3>1, <1>8 DEF OutcomeOK, MayCast
      <4>4. s.result[m] \in {"failed", "stopped"}
        BY <2>4, <4>2, <4>3, <1>1 DEF Subtransaction, Results
      <4>5. MajorityReached(s) \/ ~QuorumPossible(s)
        BY <4>4 DEF QuorumCommits, DecidedOnce, MayCast
      <4>6. CASE MajorityReached(s)
        \* The primary voted for something else.
        <5>1. PICK x \in Votes : HasQuorum(s, x)
          BY <4>6 DEF MajorityReached
        <5>2. s.vote[Primary] = x /\ x # w
          BY <5>1, <3>3, QuorumHasPrimaryVote
        <5>3. Primary # n
          BY <5>2, VotesAssumption DEF MayCast
        <5> QED
          BY <5>2, <5>3, <2>2, <1>6 DEF Nodes
      <4>7. CASE ~QuorumPossible(s)
        <5>1. n \in Outstanding(s) /\ Outstanding(s) \in SUBSET Nodes
          BY DEF Outstanding, MayCast
        <5>2. /\ TotalWeight(Outstanding(s)) \in Nat
              /\ TotalWeight(Outstanding(s) \ {n}) \in Nat
              /\ TotalWeight(Outstanding(s) \ {n}) = TotalWeight(Outstanding(s)) - Weight(n)
          <6>1. Outstanding(s) \ {n} \in SUBSET Nodes
            BY <5>1
          <6> QED
            BY <5>1, <6>1, TotalWeightType, TotalWeightRemove
        <5>3. s.counts[w] + TotalWeight(Outstanding(s)) >= Threshold
          BY <5>2, <4>1, <2>1, <1>2, <1>7, <1>8 DEF HasQuorum
        <5> QED
          BY <5>3, <4>7, <2>1 DEF QuorumPossible
      <4> QED
        BY <4>5, <4>6, <4>7
    <3> QED
      BY <3>2, <3>3
  <2> QED
    BY <2>3, <2>4
<1>9. ASSUME NEW m \in Nodes, u.result[m] \in {"failed", "stopped"}
      PROVE  u.done
  BY <1>9, <1>3, <1>6 DEF QuorumCommits
<1>10. QuorumCommits(u)
  BY <1>8, <1>9 DEF QuorumCommits
<1> QED
  BY <1>10 DEF u

\* Without a voter there are no more quorums than with it.
LEMMA RetractVoteCommits ==
    ASSUME NEW s, SubOK(s), OutcomeOK(s), QuorumCommits(s), NEW n \in Nodes, MayRetract(s, n)
    PROVE  /\ QuorumCommits(RetractVote(s, n))
           /\ \A m \in Nodes : RetractVote(s, n).result[m] # "committed"
<1> DEFINE u == RetractVote(s, n)
<1>1. /\ SubOK(u)
      /\ u.vote[n] = NoVote /\ \A m \in Nodes : m # n => u.vote[m] = s.vote[m]
  BY RetractVoteOK, RetractVoteDecides
<1>2. PICK t : /\ SubOK(t) /\ RetractVote(s, n) = Settle(t)
               /\ t.done = s.done
               /\ t.result[n] = "canceled" /\ t.vote[n] = NoVote
               /\ \A m \in Nodes : m # n =>
                     t.result[m] = s.result[m] /\ t.vote[m] = s.vote[m]
  BY Retracted
<1>3. ~u.done => u = t
  BY <1>2, SettleFacts DEF SubOK
<1> HIDE DEF u
<1>4. ASSUME NEW v \in Votes PROVE ~HasQuorum(u, v)
  <2>1. Supporters(u, v) \in SUBSET Supporters(s, v) /\ Supporters(s, v) \in SUBSET Nodes
    BY <1>1, VotesAssumption DEF Supporters
  <2>2. TotalWeight(Supporters(u, v)) <= TotalWeight(Supporters(s, v))
    BY <2>1, TotalWeightMonotonic
  <2>3. TotalWeight(Supporters(u, v)) \in Nat /\ TotalWeight(Supporters(s, v)) \in Nat
    <3>1. Supporters(u, v) \in SUBSET Nodes
      BY <2>1
    <3> QED
      BY <2>1, <3>1, TotalWeightType
  <2>4. u.counts[v] = TotalWeight(Supporters(u, v)) /\ s.counts[v] = TotalWeight(Supporters(s, v))
    BY <1>1 DEF SubOK
  <2>5. ~HasQuorum(s, v)
    BY DEF MayRetract, OutcomeOK, MajorityReached
  <2>6. Threshold \in Nat
    BY SecondaryLenType
  <2> QED
    BY <2>2, <2>3, <2>4, <2>5, <2>6 DEF HasQuorum
<1>5. \A m \in Nodes : u.result[m] # "committed"
  BY <1>1, <1>4 DEF SubOK
<1>6. \A m \in Nodes : u.result[m] \in {"failed", "stopped"} => u.done
  BY <1>2, <1>3 DEF QuorumCommits, MayRetract
<1>7. \A m \in Nodes : u.vote[m] # NoVote => u.vote[m] \in Votes
  BY <1>1 DEF SubOK, Subtransaction
<1>8. QuorumCommits(u)
  BY <1>4, <1>6, <1>7 DEF QuorumCommits
<1> QED
  BY <1>5, <1>8 DEF u

\* Closing changes no vote.
LEMMA CloseCommits ==
    ASSUME NEW s, SubOK(s), OutcomeOK(s), QuorumCommits(s), NEW r \in {"canceled", "stopped"}
    PROVE  QuorumCommits(Close(s, r))
<1> DEFINE u == Close(s, r)
<1>1. SubOK(u) /\ u.done /\ u.vote = s.vote
      /\ \A m \in Nodes : s.result[m] # "undecided" => u.result[m] = s.result[m]
  BY CloseOK, CloseOutcome DEF Evolves
<1> HIDE DEF u
<1>2. \A m \in Nodes : u.vote[m] # NoVote => u.vote[m] \in Votes
  BY <1>1 DEF SubOK, Subtransaction
<1>3. ASSUME NEW m \in Nodes, u.vote[m] # NoVote, HasQuorum(u, u.vote[m])
      PROVE  u.result[m] = "committed"
  <2>1. HasQuorum(s, s.vote[m]) /\ s.vote[m] # NoVote
    BY <1>1, <1>2, <1>3, SameVotesSameQuorums
  <2> QED
    BY <1>1, <2>1 DEF QuorumCommits
<1>4. QuorumCommits(u)
  BY <1>1, <1>3 DEF QuorumCommits
<1> QED
  BY <1>4 DEF u

\* Nobody has voted yet in a new subtransaction.
LEMMA NewSubtransactionCommits ==
    ASSUME NEW C
    PROVE  /\ DecidedOnce(NewSubtransaction(C)) /\ QuorumCommits(NewSubtransaction(C))
           /\ \A m \in Nodes : NewSubtransaction(C).result[m] # "committed"
BY DEF NewSubtransaction, DecidedOnce, QuorumCommits

\* What a step that casts no vote may do to a subtransaction.
Unvoted(s, t) ==
    \/ t = s
    \/ \E n \in Nodes : MayRetract(s, n) /\ t = RetractVote(s, n)
    \/ \E r \in {"canceled", "stopped"} : t = Close(s, r)

\* It decides nothing.
LEMMA UnvotedCommits ==
    ASSUME NEW s, SubOK(s), OutcomeOK(s), DecidedOnce(s), QuorumCommits(s),
           NEW t, Unvoted(s, t)
    PROVE  /\ DecidedOnce(t) /\ QuorumCommits(t)
           /\ \A m \in Nodes : t.result[m] = "committed" => s.result[m] = "committed"
<1>1. CASE t = s
  BY <1>1
<1>2. ASSUME NEW n \in Nodes, MayRetract(s, n), t = RetractVote(s, n)
      PROVE  /\ DecidedOnce(t) /\ QuorumCommits(t)
             /\ \A m \in Nodes : t.result[m] # "committed"
  BY <1>2, RetractVoteDecides, RetractVoteCommits
<1>3. ASSUME NEW r \in {"canceled", "stopped"}, t = Close(s, r)
      PROVE  /\ DecidedOnce(t) /\ QuorumCommits(t)
             /\ \A m \in Nodes : t.result[m] = "committed" => s.result[m] = "committed"
  BY <1>3, CloseDecides, CloseCommits, CloseOutcome
<1> QED
  BY <1>1, <1>2, <1>3 DEF Unvoted

\* Steps that cast no vote, and make at most one new subtransaction.
LEMMA UnvotedStep ==
    ASSUME IInv, PathInv, DecisionInv, SubsEvolve,
           \A i \in 1 .. Len(subs) : Unvoted(subs[i], subs'[i]),
           \A i \in 1 .. Len(subs') : i \notin 1 .. Len(subs) =>
                /\ DecidedOnce(subs'[i]) /\ QuorumCommits(subs'[i])
                /\ \A m \in Nodes : subs'[i].result[m] # "committed"
    PROVE  DecisionInv' /\ NoNewCommits
<1>1. ASSUME NEW i \in 1 .. Len(subs)
      PROVE  /\ DecidedOnce(subs'[i]) /\ QuorumCommits(subs'[i])
             /\ \A m \in Nodes : subs'[i].result[m] = "committed" => subs[i].result[m] = "committed"
  BY UnvotedCommits DEF IInv, PathInv, DecisionInv
<1>2. DecisionInv'
  BY <1>1 DEF DecisionInv
<1>3. NoNewCommits
  BY <1>1 DEF NoNewCommits
<1> QED
  BY <1>2, <1>3

\* Steps that leave the subtransactions alone.
LEMMA QuietDecides ==
    ASSUME IInv, PathInv, DecisionInv, SubsEvolve, UNCHANGED subs
    PROVE  DecisionInv' /\ NoNewCommits
BY UnvotedStep DEF Unvoted

\* Steps that append a subtransaction.
LEMMA NewRoundDecides ==
    ASSUME IInv, PathInv, DecisionInv, SubsEvolve, NEW s, subs' = Append(subs, s),
           DecidedOnce(s), QuorumCommits(s), \A m \in Nodes : s.result[m] # "committed"
    PROVE  DecisionInv' /\ NoNewCommits
<1>1. subs \in Seq(Subtransaction) /\ Len(subs) \in Nat
  BY DEF IInv, TypeOK
<1>2. /\ Len(subs') = Len(subs) + 1 /\ subs'[Len(subs) + 1] = s
      /\ \A i \in 1 .. Len(subs) : subs'[i] = subs[i]
  <2>1. s \in Subtransaction
    <3>1. subs' \in Seq(Subtransaction) /\ Len(subs') = Len(subs) + 1 /\ subs'[Len(subs) + 1] = s
      BY <1>1 DEF SubsEvolve
    <3> QED
      BY <1>1, <3>1
  <2> QED
    BY <1>1, <2>1
<1>3. \A i \in 1 .. Len(subs') : i \notin 1 .. Len(subs) => subs'[i] = s
  BY <1>1, <1>2
<1> QED
  BY <1>2, <1>3, UnvotedStep DEF Unvoted

\* getOrCreateSubtransaction.
LEMMA GetOrCreateDecides ==
    ASSUME IInv, PathInv, DecisionInv, SubsEvolve, NEW c \in Calls, GetOrCreateSubtransaction(c)
    PROVE  DecisionInv' /\ NoNewCommits
<1>1. UNCHANGED subs \/ subs' = Append(subs, NextSubtransaction)
  BY DEF GetOrCreateSubtransaction
<1> QED
  BY <1>1, QuietDecides, NewRoundDecides, NewSubtransactionCommits DEF NextSubtransaction

\* collectVotes with an expired context.
LEMMA CollectExpiredDecides ==
    ASSUME IInv, PathInv, DecisionInv, SubsEvolve, NEW c \in Calls, CollectExpired(c)
    PROVE  DecisionInv' /\ NoNewCommits
<1> PICK n, i : n = call[c].node /\ i = call[c].sub
  OBVIOUS
<1>1. n \in Nodes /\ i \in 1 .. Len(subs) /\ subs \in Seq(Subtransaction)
  BY DEF IInv, TypeOK, CollectExpired, Call
<1>2. CASE MayRetract(subs[i], n)
  <2>1. subs' = [subs EXCEPT ![i] = RetractVote(subs[i], n)]
    BY <1>2 DEF CollectExpired
  <2>2. /\ Len(subs') = Len(subs) /\ subs'[i] = RetractVote(subs[i], n)
        /\ \A k \in 1 .. Len(subs) : k # i => subs'[k] = subs[k]
    BY <1>1, <2>1
  <2> QED
    BY <1>1, <1>2, <2>2, UnvotedStep DEF Unvoted
<1>3. CASE ~MayRetract(subs[i], n)
  BY <1>3, QuietDecides DEF CollectExpired
<1> QED
  BY <1>2, <1>3

\* Steps that replace subtransactions.
LEMMA ReplaceDecides ==
    ASSUME IInv, PathInv, DecisionInv, SubsEvolve,
           subs' = [i \in 1 .. Len(subs) |-> subs'[i]],
           \A i \in 1 .. Len(subs) : Unvoted(subs[i], subs'[i])
    PROVE  DecisionInv' /\ NoNewCommits
<1>1. Len(subs') = Len(subs)
  BY DEF IInv, TypeOK
<1> QED
  BY <1>1, UnvotedStep

\* cancelNodeVoter.
LEMMA CancelNodeVoterDecides ==
    ASSUME IInv, PathInv, DecisionInv, SubsEvolve, NEW c \in Calls, CancelNodeVoter(c)
    PROVE  DecisionInv' /\ NoNewCommits
<1> PICK n, i : n = call[c].node /\ i = call[c].sub
  OBVIOUS
<1>1. n \in Nodes /\ i \in 1 .. Len(subs)
  BY DEF IInv, TypeOK, CancelNodeVoter, Call
<1>2. subs' = [k \in 1 .. Len(subs) |->
                     IF k >= i /\ \A j \in i .. k : MayRetract(subs[j], n)
                     THEN RetractVote(subs[k], n) ELSE subs[k]]
  BY DEF CancelNodeVoter
<1>3. ASSUME NEW k \in 1 .. Len(subs) PROVE Unvoted(subs[k], subs'[k])
  <2>1. CASE k >= i /\ \A j \in i .. k : MayRetract(subs[j], n)
    <3>1. MayRetract(subs[k], n)
      BY <1>1, <2>1
    <3> QED
      BY <1>1, <1>2, <2>1, <3>1 DEF Unvoted
  <2>2. CASE ~(k >= i /\ \A j \in i .. k : MayRetract(subs[j], n))
    BY <1>2, <2>2 DEF Unvoted
  <2> QED
    BY <2>1, <2>2
<1> QED
  BY <1>2, <1>3, ReplaceDecides

\* cancelNodeVoter, when it makes a subtransaction to cancel the voter in.
LEMMA FindPendingDecides ==
    ASSUME IInv, PathInv, DecisionInv, SubsEvolve, NEW c \in Calls, FindPending(c)
    PROVE  DecisionInv' /\ NoNewCommits
<1> PICK n : n = call[c].node
  OBVIOUS
<1>1. n \in Nodes /\ Len(subs) \in Nat /\ subs \in Seq(Subtransaction)
  BY DEF IInv, TypeOK, FindPending, Call
<1>2. PICK i \in 1 .. Len(subs) + 1 :
        /\ Reached(n, i)
        /\ \/ UNCHANGED subs
           \/ i = Len(subs) + 1 /\ subs' = Append(subs, RetractVote(NextSubtransaction, n))
  BY DEF FindPending
<1>3. CASE i = Len(subs) + 1 /\ subs' = Append(subs, RetractVote(NextSubtransaction, n))
  <2> PICK s : s = NextSubtransaction
    OBVIOUS
  <2>1. SubOK(s) /\ QuorumCommits(s)
    BY NewSubtransactionOK, NewSubtransactionCommits DEF NextSubtransaction
  <2>2. subs # << >> => subs[Len(subs)].result[n] = "committed"
    <3>1. subs # << >> => Len(subs) \in 1 .. i - 1
      BY <1>1, <1>3
    <3> QED
      BY <1>2, <3>1 DEF Reached
  <2>3. OutcomeOK(s)
    BY <1>1, <2>2, NextSubtransactionOutcome
  <2>4. MayRetract(s, n)
    BY <1>1, <2>2 DEF NextSubtransaction, NewSubtransaction, MayRetract
  <2>5. /\ DecidedOnce(RetractVote(s, n)) /\ QuorumCommits(RetractVote(s, n))
        /\ \A m \in Nodes : RetractVote(s, n).result[m] # "committed"
    BY <1>1, <2>1, <2>3, <2>4, RetractVoteDecides, RetractVoteCommits
  <2> QED
    BY <1>3, <2>5, NewRoundDecides
<1> QED
  BY <1>2, <1>3, QuietDecides

\* Every step but a vote.
LEMMA OtherStepsDecide ==
    ASSUME IInv, PathInv, DecisionInv, SubsEvolve, [Next]_vars, ~ \E c \in Calls : Vote(c)
    PROVE  DecisionInv' /\ NoNewCommits
<1>1. ASSUME NEW c \in Calls, StartCall(c) \/ RefuseVote(c) \/ CollectVotes(c)
      PROVE  UNCHANGED subs
  BY <1>1 DEF StartCall, LookupVote, LookupStop, LookupDrop, RefuseVote, CollectVotes
<1>2. ASSUME NEW c \in Calls, Stop(c)
      PROVE  DecisionInv' /\ NoNewCommits
  <2>1. subs' = [i \in 1 .. Len(subs) |->
                     IF \E j \in 1 .. i : IsStopped(subs[j])
                     THEN subs[i] ELSE Close(subs[i], "stopped")]
    BY <1>2 DEF Stop
  <2>2. \A i \in 1 .. Len(subs) : subs'[i] = subs[i] \/ subs'[i] = Close(subs[i], "stopped")
    BY <2>1
  <2> QED
    BY <2>1, <2>2, ReplaceDecides DEF Unvoted
<1>3. CASE CancelTransaction
  <2>1. subs' = [i \in 1 .. Len(subs) |-> Close(subs[i], "canceled")]
    BY <1>3 DEF CancelTransaction
  <2> QED
    BY <2>1, ReplaceDecides DEF Unvoted
<1>4. CASE UNCHANGED vars
  BY <1>4, QuietDecides DEF vars
<1> QED
  BY <1>1, <1>2, <1>3, <1>4, QuietDecides, GetOrCreateDecides, CollectExpiredDecides,
     CancelNodeVoterDecides, FindPendingDecides DEF Next, CallStep

\* A vote is cast in one subtransaction, while the transaction is open and by a node
\* that committed all earlier ones.
LEMMA VoteDecides ==
    ASSUME IInv, PathInv, DecisionInv, SubsEvolve, NEW c \in Calls, Vote(c)
    PROVE  /\ DecisionInv'
           /\ UNCHANGED <<state, told>>
           /\ \/ UNCHANGED subs
              \/ \E i \in 1 .. Len(subs), n \in Nodes, v \in Votes :
                    /\ state = "open"
                    /\ Len(subs') = Len(subs)
                    /\ MayCast(subs[i], n)
                    /\ subs'[i] = CastVote(subs[i], n, v)
                    /\ \A k \in 1 .. Len(subs) : k # i => subs'[k] = subs[k]
<1> PICK n, i, v : n = call[c].node /\ i = call[c].sub /\ v = call[c].vote
  OBVIOUS
<1>1. n \in Nodes /\ i \in 1 .. Len(subs) /\ v \in Votes /\ subs \in Seq(Subtransaction)
      /\ call[c].pc = "cast" /\ UNCHANGED <<state, told>>
  BY DEF IInv, TypeOK, Vote, Call
<1>2. CASE MayCast(subs[i], n)
  <2>1. subs' = [subs EXCEPT ![i] = CastVote(subs[i], n, v)]
    BY <1>2 DEF Vote
  <2>2. /\ Len(subs') = Len(subs) /\ subs'[i] = CastVote(subs[i], n, v)
        /\ \A k \in 1 .. Len(subs) : k # i => subs'[k] = subs[k]
    BY <1>1, <2>1
  <2>3. state = "open"
    BY <1>1, <1>2 DEF PathInv, ClosedOK, MayCast
  <2>4. DecidedOnce(subs'[i]) /\ QuorumCommits(subs'[i])
    BY <1>1, <1>2, <2>2, CastVoteDecides, CastVoteCommits DEF IInv, PathInv, DecisionInv
  <2>5. DecisionInv'
    BY <2>2, <2>4 DEF DecisionInv
  <2> QED
    BY <1>1, <1>2, <2>2, <2>3, <2>5
<1>3. CASE ~MayCast(subs[i], n)
  BY <1>1, <1>3, QuietDecides DEF Vote
<1> QED
  BY <1>2, <1>3

\* Before the first subtransaction nothing is decided.
LEMMA InitDecisionInv == Init => DecisionInv
BY DEF Init, DecisionInv

\* Every step keeps what is decided.
LEMMA NextKeepsDecision == IInv /\ PathInv /\ DecisionInv /\ [Next]_vars => DecisionInv'
BY NextKeepsIInv, OtherStepsDecide, VoteDecides

-----------------------------------------------------------------------------
(* The voter tables implement VotingRounds *)

\* The state of VotingRounds that a transaction is in.
PromiseVars ==
    <<state = "open", [i \in 1 .. MaxSubs |-> Choice(i)], [i \in 1 .. MaxSubs |-> Committers(i)], told>>

\* A vote that is committed is one, and all committed voters have the same.
LEMMA ChoiceIsVote ==
    ASSUME IInv, DecisionInv, NEW i \in 1 .. MaxSubs, NEW m \in Committers(i)
    PROVE  /\ m \in Nodes /\ i \in 1 .. Len(subs) /\ subs[i].result[m] = "committed"
           /\ Choice(i) = subs[i].vote[Primary]
           /\ Choice(i) = subs[i].vote[m]
           /\ Choice(i) \in Votes
<1>1. m \in Nodes /\ i \in 1 .. Len(subs) /\ subs[i].result[m] = "committed"
  BY DEF Committers, IInv, TypeOK
<1>2. Choice(i) = subs[i].vote[Primary]
  BY DEF Choice
<1> QED
  BY <1>1, <1>2, CommittersAreQuorum DEF IInv, DecisionInv

\* A node that is committed stays so, for the same vote.
LEMMA CommittersStay ==
    ASSUME IInv, DecisionInv, SubsEvolve, DecisionInv', IInv', NEW i \in 1 .. MaxSubs
    PROVE  /\ Committers(i) \subseteq Committers(i)'
           /\ Committers(i) # {} => Choice(i)' = Choice(i)
<1>1. ASSUME NEW m \in Committers(i)
      PROVE  m \in Committers(i)' /\ Choice(i)' = Choice(i)
  <2>1. /\ m \in Nodes /\ i \in 1 .. Len(subs) /\ subs[i].result[m] = "committed"
        /\ Choice(i) = subs[i].vote[m]
    BY ChoiceIsVote
  <2>2. /\ subs'[i].result[m] = "committed" /\ subs'[i].vote[m] = subs[i].vote[m]
        /\ i \in 1 .. Len(subs')
    BY <2>1 DEF SubsEvolve, Evolves, IInv, TypeOK
  <2>3. m \in Committers(i)'
    BY <2>1, <2>2 DEF Committers
  <2>4. SubOK(subs'[i]) /\ QuorumCommits(subs'[i])
    BY <2>2 DEF SubsEvolve, DecisionInv
  <2>5. subs'[i].vote[m] = subs'[i].vote[Primary]
    BY <2>1, <2>2, <2>4, CommittersAreQuorum
  <2>6. Choice(i)' = subs'[i].vote[Primary]
    BY <2>3 DEF Choice
  <2> QED
    BY <2>1, <2>2, <2>3, <2>5, <2>6
<1> QED
  BY <1>1

\* Steps that commit nobody leave what was decided alone.
LEMMA NoNewCommitsNoChoice ==
    ASSUME IInv, DecisionInv, SubsEvolve, DecisionInv', IInv', NoNewCommits
    PROVE  /\ [i \in 1 .. MaxSubs |-> Choice(i)]' = [i \in 1 .. MaxSubs |-> Choice(i)]
           /\ [i \in 1 .. MaxSubs |-> Committers(i)]' = [i \in 1 .. MaxSubs |-> Committers(i)]
<1>1. ASSUME NEW i \in 1 .. MaxSubs
      PROVE  Committers(i)' = Committers(i) /\ Choice(i)' = Choice(i)
  <2>1. ASSUME NEW m \in Committers(i)' PROVE m \in Committers(i)
    <3>1. m \in Nodes /\ i \in 1 .. Len(subs') /\ subs'[i].result[m] = "committed"
      BY DEF Committers, IInv, TypeOK
    <3>2. i \in 1 .. Len(subs) /\ subs[i].result[m] = "committed"
      BY <3>1 DEF NoNewCommits
    <3> QED
      BY <3>1, <3>2 DEF Committers
  <2>2. Committers(i)' = Committers(i)
    BY <2>1, CommittersStay
  <2>3. CASE Committers(i) = {}
    BY <2>2, <2>3 DEF Choice
  <2>4. CASE Committers(i) # {}
    BY <2>2, <2>4, CommittersStay
  <2> QED
    BY <2>2, <2>3, <2>4
<1> QED
  BY <1>1

\* collectVotes tells a committed voter what was decided.
LEMMA CollectVotesTells ==
    ASSUME IInv, DecisionInv, NEW c \in Calls, CollectVotes(c),
           [i \in 1 .. MaxSubs |-> Choice(i)]' = [i \in 1 .. MaxSubs |-> Choice(i)],
           [i \in 1 .. MaxSubs |-> Committers(i)]' = [i \in 1 .. MaxSubs |-> Committers(i)]
    PROVE  Promise!Next \/ UNCHANGED PromiseVars
<1> PICK n, i, v : n = call[c].node /\ i = call[c].sub /\ v = call[c].vote
  OBVIOUS
<1>1. /\ n \in Nodes /\ i \in 1 .. Len(subs) /\ i \in 1 .. MaxSubs /\ v \in Votes
      /\ state' = state /\ CallOK(c) /\ call[c].pc = "collect"
  <2>1. n \in Nodes /\ i \in 1 .. Len(subs) /\ v \in Votes
    BY DEF IInv, TypeOK, CollectVotes, Call
  <2>2. Len(subs) \in Nat /\ Len(subs) <= MaxSubs
    BY DEF IInv, TypeOK
  <2> QED
    BY <2>1, <2>2, MaxSubsAssumption DEF IInv, CollectVotes
<1>2. CASE subs[i].result[n] = "committed"
  <2>1. told' = told \union {<<n, i, v>>}
    BY <1>2 DEF CollectVotes
  <2>2. n \in Committers(i)
    BY <1>1, <1>2 DEF Committers
  <2>3. Choice(i) = v
    <3>1. subs[i].vote[n] = v
      BY <1>1, <1>2 DEF CallOK
    <3> QED
      BY <1>1, <2>2, <3>1, ChoiceIsVote
  <2>4. Promise!Tell(i, n)
    BY <1>1, <2>1, <2>2, <2>3 DEF Promise!Tell
  <2> QED
    BY <1>1, <2>4 DEF Promise!Next
<1>3. CASE subs[i].result[n] # "committed"
  <2>1. told' = told
    BY <1>3 DEF CollectVotes
  <2> QED
    BY <1>1, <2>1 DEF PromiseVars
<1> QED
  BY <1>2, <1>3

\* A vote that settles voters decides its subtransaction or joins the decision.
LEMMA VoteKeepsPromise ==
    ASSUME IInv, PathInv, DecisionInv, SubsEvolve, IInv', PathInv', NEW c \in Calls, Vote(c)
    PROVE  Promise!Next \/ UNCHANGED PromiseVars
<1>1. /\ DecisionInv'
      /\ UNCHANGED <<state, told>>
  BY VoteDecides
<1>2. CASE UNCHANGED subs
  <2>1. NoNewCommits
    BY <1>2, QuietDecides
  <2> QED
    BY <1>1, <2>1, NoNewCommitsNoChoice DEF PromiseVars
<1>3. CASE ~UNCHANGED subs
  <2>1. PICK i \in 1 .. Len(subs), n \in Nodes, v \in Votes :
            /\ state = "open"
            /\ Len(subs') = Len(subs)
            /\ MayCast(subs[i], n)
            /\ subs'[i] = CastVote(subs[i], n, v)
            /\ \A k \in 1 .. Len(subs) : k # i => subs'[k] = subs[k]
    BY <1>3, VoteDecides
  <2>2. /\ i \in 1 .. MaxSubs /\ Len(subs) \in Nat /\ MaxSubs \in Nat
    BY MaxSubsAssumption DEF IInv, TypeOK
  <2>3. ASSUME NEW k \in 1 .. MaxSubs, k # i
        PROVE  Committers(k)' = Committers(k) /\ Choice(k)' = Choice(k)
    <3>1. CASE k <= Len(subs)
      <4>1. subs'[k] = subs[k]
        BY <2>1, <2>2, <2>3, <3>1
      <4>2. Committers(k)' = Committers(k)
        BY <2>1, <4>1 DEF Committers
      <4> QED
        BY <4>1, <4>2 DEF Choice
    <3>2. CASE ~(k <= Len(subs))
      <4>1. Committers(k)' = {} /\ Committers(k) = {}
        BY <2>1, <3>2 DEF Committers
      <4> QED
        BY <4>1 DEF Choice
    <3> QED
      BY <3>1, <3>2
  <2>4. /\ Committers(i) = {m \in Nodes : subs[i].result[m] = "committed"}
        /\ Committers(i)' = {m \in Nodes : subs'[i].result[m] = "committed"}
    BY <2>1, <2>2 DEF Committers
  <2>5. ASSUME NEW m \in Committers(i)'
        PROVE  Promise!CommittedBefore(m, i)
    \* Who commits has voted.
    <3>1. m \in Nodes /\ subs'[i].result[m] = "committed"
      BY <2>4, <2>5
    <3>2. subs'[i].vote[m] \in Votes
      BY <3>1 DEF SubsEvolve, SubOK
    <3>3. \A j \in 1 .. i - 1 : subs'[j].result[m] = "committed"
      BY <2>1, <2>2, <3>1, <3>2, VotesAssumption DEF PathInv, CommittedEarlier
    <3>4. \A j \in 1 .. MaxSubs : j < i => m \in Committers(j)
      BY <2>1, <2>2, <3>1, <3>3 DEF Committers
    <3> QED
      BY <2>2, <3>4 DEF Promise!CommittedBefore
  <2>6. SubOK(subs'[i]) /\ QuorumCommits(subs'[i]) /\ SubOK(subs[i]) /\ QuorumCommits(subs[i])
    BY <1>1, <2>1 DEF SubsEvolve, DecisionInv, IInv
  <2>7. CASE Committers(i)' = {}
    <3>1. Committers(i) = {}
      BY <2>2, <2>7, <1>1, CommittersStay
    <3>2. Choice(i)' = Choice(i)
      BY <2>7, <3>1 DEF Choice
    <3>3. \A k \in 1 .. MaxSubs : Committers(k)' = Committers(k) /\ Choice(k)' = Choice(k)
      BY <2>3, <2>7, <3>1, <3>2
    <3> QED
      BY <3>3, <1>1 DEF PromiseVars
  <2>8. CASE Committers(i)' # {} /\ Committers(i) = {}
    <3> DEFINE Q == {m \in Nodes : subs'[i].result[m] = "committed"}
               x == subs'[i].vote[Primary]
    <3>1. PICK m \in Nodes : subs'[i].result[m] = "committed"
      BY <2>4, <2>8
    <3>2. x \in Votes /\ TotalWeight(Q) >= Threshold
      BY <2>6, <3>1, CommittersAreQuorum
    <3>3. Choice(i)' = x /\ Choice(i) = NoVote
      BY <2>8 DEF Choice
    <3>4. /\ [k \in 1 .. MaxSubs |-> Choice(k)]' =
                [[k \in 1 .. MaxSubs |-> Choice(k)] EXCEPT ![i] = x]
          /\ [k \in 1 .. MaxSubs |-> Committers(k)]' =
                [[k \in 1 .. MaxSubs |-> Committers(k)] EXCEPT ![i] = Q]
      BY <2>2, <2>3, <2>4, <3>3
    <3>5. Promise!Decide(i, x, Q)
      BY <1>1, <2>1, <2>2, <2>4, <2>5, <3>3, <3>4 DEF Promise!Decide
    <3>6. Q \in {R \in SUBSET Nodes : TotalWeight(R) >= Threshold}
      BY <3>2
    <3> QED
      BY <2>2, <3>2, <3>5, <3>6 DEF Promise!Next
  <2>9. CASE Committers(i) # {}
    <3>1. PICK m \in Nodes : subs[i].result[m] = "committed"
      BY <2>4, <2>9
    <3>2. m \in Committers(i)' /\ Choice(i)' = Choice(i) /\ Choice(i) \in Votes
      <4>1. m \in Committers(i)
        BY <2>4, <3>1
      <4> QED
        BY <4>1, <2>2, <1>1, CommittersStay, ChoiceIsVote
    <3>3. \A d \in Nodes : d # n => subs'[i].vote[d] = subs[i].vote[d]
      BY <2>1, <2>6, <1>1, CastVoteDecides DEF DecisionInv
    <3>4. ASSUME NEW d \in Committers(i)', d # n
          PROVE  d \in Committers(i)
      \* The quorum of who was committed before is that of d.
      <4>1. d \in Nodes /\ subs'[i].result[d] = "committed"
        BY <2>4, <3>4
      <4>2. m # n
        BY <3>1, <2>1 DEF MayCast
      <4>3. subs'[i].result[m] = "committed"
        BY <2>4, <3>2
      <4>4. subs'[i].vote[d] = subs'[i].vote[m]
        BY <2>6, <4>1, <4>3, CommittersAreQuorum
      <4>5. subs[i].vote[d] = subs[i].vote[m]
        BY <3>1, <3>3, <3>4, <4>1, <4>2, <4>4
      <4>6. HasQuorum(subs[i], subs[i].vote[d]) /\ subs[i].vote[d] # NoVote
        BY <2>6, <3>1, <4>5, VotesAssumption DEF SubOK
      <4>7. subs[i].result[d] = "committed"
        BY <2>6, <4>1, <4>6 DEF QuorumCommits
      <4> QED
        BY <2>4, <4>1, <4>7
    <3>5. Committers(i) \subseteq Committers(i)'
      BY <2>2, <1>1, CommittersStay
    <3>6. CASE n \in Committers(i)'
      <4>1. Committers(i)' = Committers(i) \union {n}
        BY <3>4, <3>5, <3>6
      <4>2. /\ [k \in 1 .. MaxSubs |-> Choice(k)]' = [k \in 1 .. MaxSubs |-> Choice(k)]
            /\ [k \in 1 .. MaxSubs |-> Committers(k)]' =
                  [[k \in 1 .. MaxSubs |-> Committers(k)] EXCEPT ![i] = Committers(i) \union {n}]
        BY <2>2, <2>3, <3>2, <4>1
      <4>3. Promise!Join(i, n)
        BY <1>1, <2>1, <2>2, <2>5, <3>2, <3>6, <4>2, VotesAssumption DEF Promise!Join
      <4> QED
        BY <2>2, <4>3 DEF Promise!Next
    <3>7. CASE n \notin Committers(i)'
      <4>1. Committers(i)' = Committers(i)
        BY <3>4, <3>5, <3>7
      <4>2. \A k \in 1 .. MaxSubs : Committers(k)' = Committers(k) /\ Choice(k)' = Choice(k)
        BY <2>3, <3>2, <4>1
      <4> QED
        BY <4>2, <1>1 DEF PromiseVars
    <3> QED
      BY <3>6, <3>7
  <2> QED
    BY <2>7, <2>8, <2>9
<1> QED
  BY <1>2, <1>3

\* Every step is one of VotingRounds, or nothing that a node would notice.
LEMMA NextKeepsPromise ==
    ASSUME IInv, PathInv, DecisionInv, [Next]_vars
    PROVE  [Promise!Next]_PromiseVars
<1>1. IInv' /\ PathInv' /\ SubsEvolve /\ DecisionInv'
  BY NextKeepsIInv, NextKeepsPath, NextKeepsDecision
<1>2. CASE \E c \in Calls : Vote(c)
  BY <1>1, <1>2, VoteKeepsPromise
<1>3. CASE ~ \E c \in Calls : Vote(c)
  <2>1. /\ [i \in 1 .. MaxSubs |-> Choice(i)]' = [i \in 1 .. MaxSubs |-> Choice(i)]
        /\ [i \in 1 .. MaxSubs |-> Committers(i)]' = [i \in 1 .. MaxSubs |-> Committers(i)]
    BY <1>1, <1>3, OtherStepsDecide, NoNewCommitsNoChoice
  <2>2. CASE \E c \in Calls : CollectVotes(c)
    BY <2>1, <2>2, CollectVotesTells
  <2>3. CASE UNCHANGED <<state, told>>
    BY <2>1, <2>3 DEF PromiseVars
  <2>4. ASSUME told' = told, state' # "open"
        PROVE  Promise!Next \/ UNCHANGED PromiseVars
    <3>1. CASE state = "open"
      BY <2>1, <2>4, <3>1 DEF Promise!Next, Promise!Close
    <3>2. CASE state # "open"
      BY <2>1, <2>4, <3>2 DEF PromiseVars
    <3> QED
      BY <3>1, <3>2
  <2>5. CASE CancelTransaction
    BY <2>4, <2>5 DEF CancelTransaction
  <2>6. CASE \E c \in Calls : Stop(c)
    <3>1. told' = told /\ (state' = state \/ state' = "stopped")
      BY <2>6 DEF Stop
    <3> QED
      BY <2>3, <2>4, <3>1
  <2>7. ASSUME NEW c \in Calls,
               \/ StartCall(c) \/ RefuseVote(c) \/ GetOrCreateSubtransaction(c)
               \/ FindPending(c) \/ CancelNodeVoter(c) \/ CollectExpired(c)
        PROVE  UNCHANGED <<state, told>>
    BY <2>7 DEF StartCall, LookupVote, LookupStop, LookupDrop, RefuseVote,
                GetOrCreateSubtransaction, FindPending, CancelNodeVoter, CollectExpired
  <2>8. CASE UNCHANGED vars
    BY <2>3, <2>8 DEF vars
  <2> QED
    BY <1>3, <2>2, <2>3, <2>5, <2>6, <2>7, <2>8 DEF Next, CallStep
<1> QED
  BY <1>2, <1>3

\* VotingKeepsPromise: a transaction implements VotingRounds, for any nodes, votes,
\* concurrent calls and number of subtransactions.
THEOREM PromiseKept == Spec => VotingKeepsPromise
<1>1. Init => Promise!Init
  <2> SUFFICES ASSUME Init PROVE Promise!Init
    OBVIOUS
  <2>1. \A i \in 1 .. MaxSubs : Committers(i) = {}
    BY MaxSubsAssumption DEF Init, Committers
  <2>2. \A i \in 1 .. MaxSubs : Choice(i) = NoVote
    BY <2>1 DEF Choice
  <2> QED
    BY <2>1, <2>2 DEF Init, Promise!Init
<1>2. IInv /\ PathInv /\ DecisionInv /\ [Next]_vars => [Promise!Next]_PromiseVars
  BY NextKeepsPromise
<1>3. Spec => [](IInv /\ PathInv /\ DecisionInv)
  BY InitIInv, InitPathInv, InitDecisionInv, NextKeepsIInv, NextKeepsPath, NextKeepsDecision, PTL
  DEF Spec
<1> QED
  BY <1>1, <1>2, <1>3, PTL DEF Spec, VotingKeepsPromise, Promise!Spec, PromiseVars

-----------------------------------------------------------------------------
(* The coordinator: what the request does with its transaction *)

\* Every step of the request is a step of the transaction or leaves it alone.
LEMMA RequestTransacts == [CNext]_cvars => [Next]_vars
<1> SUFFICES ASSUME [CNext]_cvars PROVE [Next]_vars
  OBVIOUS
<1>1. CASE \E c \in Calls : \E n \in Nodes, v \in Votes : NodeVotes(c, n, v)
  BY <1>1 DEF NodeVotes, Next, StartCall
<1>2. CASE \E c \in Calls, n \in Nodes : NodeStops(c, n) \/ ErrHandler(c, n)
  BY <1>2 DEF NodeStops, ErrHandler, Next, StartCall
<1>3. CASE \E c \in Calls : ServeCall(c)
  BY <1>3 DEF ServeCall, Next
<1>4. CASE Cleanup
  BY <1>4 DEF Cleanup, Next
<1>5. CASE UNCHANGED vars
  BY <1>5
<1>6. CASE \E n \in Nodes : NodeApplies(n) \/ \E v \in Votes : NodeAppliesUnvoted(n, v)
  BY <1>5, <1>6 DEF NodeApplies, NodeAppliesUnvoted
<1>7. CASE \E n \in Destinations : NodeReturns(n) \/ NodeLost(n)
  BY <1>5, <1>7 DEF NodeReturns, NodeSucceeds, NodeFails, NodeCanceled, NodeLost, StreamEnds
<1>8. CASE StreamInitFails \/ ClientCancels
  BY <1>5, <1>8 DEF StreamInitFails, ClientCancels
<1>9. CASE Decide \/ IncrementGeneration \/ IncrementGenerationFails \/ EnqueueJobs
  BY <1>5, <1>9 DEF Decide, IncrementGeneration, IncrementGenerationFails, EnqueueJobs
<1>10. CASE UNCHANGED cvars
  BY <1>5, <1>10 DEF cvars
<1> QED
  BY <1>1, <1>2, <1>3, <1>4, <1>6, <1>7, <1>8, <1>9, <1>10 DEF CNext, Finalize

\* What is proved about transactions holds for those of a request: it uses its
\* transaction only through the operations of Transactions, and so the nodes of a
\* request are given what VotingRounds promises.
THEOREM RequestKeepsPromise == CSpec => Spec /\ VotingKeepsPromise
<1>1. CInit => Init
  BY DEF CInit
<1>2. CSpec => Spec
  BY <1>1, RequestTransacts, PTL DEF CSpec, Spec
<1> QED
  BY <1>2, PromiseKept

\* Errors are told apart by code and message.
LEMMA ErrorsDiffer ==
    /\ Running # NoError /\ Running # AppError /\ Running # VoteError
    /\ Running # CanceledError /\ Running # InitError
    /\ NoError # AppError /\ NoError # VoteError /\ NoError # CanceledError
    /\ NoError # InitError /\ AppError # VoteError /\ AppError # CanceledError
    /\ AppError # InitError /\ VoteError # CanceledError /\ VoteError # InitError
    /\ CanceledError # InitError
    /\ \A e \in LostErrors : e \notin {Running, NoError, AppError, VoteError, CanceledError, InitError}
BY DEF Running, NoError, AppError, VoteError, CanceledError, InitError, LostErrors

\* The same of the next state.
ToldNext(n, k) == \E v \in Votes : <<n, k, v>> \in told'
CollectsNext(n, k) ==
    \E c \in Calls : call'[c].pc = "collect" /\ call'[c].node = n /\ call'[c].sub = k

\* Steps after which votes are as they were, or accounted for.
LEMMA VotesKept ==
    ASSUME VotesAnswered, SubsEvolve, told \subseteq told',
           \A m \in Nodes : failing[m] = VoteError => failing'[m] = VoteError,
           \A k \in 1 .. Len(subs') : DecidedOnce(subs'[k]),
           \A k \in 1 .. Len(subs') : \A m \in Nodes : subs'[k].vote[m] # NoVote =>
              \/ CollectsNext(m, k)
              \/ /\ ToldNext(m, k) \/ failing'[m] = VoteError
                 /\ subs'[k].result[m] # "undecided"
              \/ /\ k \in 1 .. Len(subs) /\ subs[k].vote[m] # NoVote
                 /\ Collects(m, k) => CollectsNext(m, k)
    PROVE  VotesAnswered'
<1>1. ASSUME NEW k \in 1 .. Len(subs'), NEW m \in Nodes, subs'[k].vote[m] # NoVote
      PROVE  /\ ToldNext(m, k) \/ CollectsNext(m, k) \/ failing'[m] = VoteError
             /\ subs'[k].result[m] = "undecided" => CollectsNext(m, k)
  <2>1. CASE /\ k \in 1 .. Len(subs) /\ subs[k].vote[m] # NoVote
             /\ Collects(m, k) => CollectsNext(m, k)
    <3>1. /\ Told(m, k) \/ Collects(m, k) \/ failing[m] = VoteError
          /\ subs[k].result[m] = "undecided" => Collects(m, k)
      BY <2>1 DEF VotesAnswered
    <3>2. Told(m, k) => ToldNext(m, k)
      BY DEF Told, ToldNext
    <3>3. subs'[k].result[m] = "undecided" => subs[k].result[m] = "undecided"
      BY <2>1 DEF SubsEvolve, Evolves
    <3> QED
      BY <2>1, <3>1, <3>2, <3>3
  <2> QED
    BY <1>1, <2>1
<1> QED
  BY <1>1 DEF VotesAnswered, Told, Collects, ToldNext, CollectsNext

\* Only the vote of a call changes a voter that has none.
NoOtherVotes(c) ==
    \A k \in 1 .. Len(subs) : \A m \in Nodes :
        subs[k].vote[m] = NoVote /\ subs'[k].vote[m] # NoVote =>
            call[c].pc = "cast" /\ call[c].node = m

\* Calls that do not collect votes, in steps that replace or keep subtransactions
\* without adding votes to them.
LEMMA VotesUntouched ==
    ASSUME VotesAnswered, SubsEvolve, told \subseteq told', UNCHANGED failing,
           \A d \in Calls : call[d].pc = "collect" => call'[d] = call[d],
           \A k \in 1 .. Len(subs') : DecidedOnce(subs'[k]),
           \A k \in 1 .. Len(subs') : \A m \in Nodes : subs'[k].vote[m] # NoVote =>
              k \in 1 .. Len(subs) /\ subs[k].vote[m] # NoVote
    PROVE  VotesAnswered' /\ \A c : NoOtherVotes(c)
<1>1. \A m, k : Collects(m, k) => CollectsNext(m, k)
  BY DEF Collects, CollectsNext
<1>2. VotesAnswered'
  BY <1>1, VotesKept
<1>3. \A k \in 1 .. Len(subs) : k \in 1 .. Len(subs')
  BY DEF SubsEvolve
<1> QED
  BY <1>2, <1>3 DEF NoOtherVotes

\* A new subtransaction.
LEMMA AppendDecides ==
    ASSUME IInv, VotesAnswered, NEW t, t \in Subtransaction, DecidedOnce(t),
           \A m \in Nodes : t.vote[m] = NoVote, subs' = Append(subs, t)
    PROVE  /\ \A k \in 1 .. Len(subs') : DecidedOnce(subs'[k])
           /\ \A k \in 1 .. Len(subs') : \A m \in Nodes : subs'[k].vote[m] # NoVote =>
                 k \in 1 .. Len(subs) /\ subs[k].vote[m] # NoVote
<1>1. subs \in Seq(Subtransaction) /\ Len(subs) \in Nat
  BY DEF IInv, TypeOK
<1>2. /\ \A k \in 1 .. Len(subs) : subs'[k] = subs[k]
      /\ subs'[Len(subs) + 1] = t
      /\ \A k \in 1 .. Len(subs') : k \in 1 .. Len(subs) \/ k = Len(subs) + 1
  BY <1>1
<1> QED
  BY <1>2 DEF VotesAnswered

\* Steps that leave the subtransactions alone.
LEMMA SameDecides ==
    ASSUME VotesAnswered, subs' = subs
    PROVE  /\ \A k \in 1 .. Len(subs') : DecidedOnce(subs'[k])
           /\ \A k \in 1 .. Len(subs') : \A m \in Nodes : subs'[k].vote[m] # NoVote =>
                 k \in 1 .. Len(subs) /\ subs[k].vote[m] # NoVote
BY DEF VotesAnswered

\* VoteDenied is about votes only.
LEMMA OthersNotDenied ==
    ASSUME NEW c \in Calls, ServeCall(c), call[c].pc \notin {"vote", "cast", "collect"}
    PROVE  UNCHANGED failing
BY DEF ServeCall, VoteDenied

\* A call that is denied makes its node fail; the others leave failing alone.
LEMMA ServeFails ==
    ASSUME CTypeOK, NEW c \in Calls, ServeCall(c), IInv
    PROVE  /\ \A m \in Nodes : failing[m] = VoteError => failing'[m] = VoteError
           /\ VoteDenied(c) => failing'[call[c].node] = VoteError
           /\ \A m \in Nodes : failing'[m] # failing[m] => m = call[c].node /\ VoteDenied(c)
           /\ failing' \in [Nodes -> {NoError, AppError, VoteError}]
<1>1. call[c].node \in Nodes
  BY DEF IInv, TypeOK, Call
<1>2. failing \in [Nodes -> {NoError, AppError, VoteError}]
  BY DEF CTypeOK
<1>3. CASE VoteDenied(c)
  <2>1. failing' = [failing EXCEPT ![call[c].node] = VoteError]
    BY <1>3 DEF ServeCall
  <2> QED
    BY <1>1, <1>2, <1>3, <2>1
<1>4. CASE ~VoteDenied(c)
  <2>1. failing' = failing
    BY <1>4 DEF ServeCall
  <2> QED
    BY <1>2, <1>4, <2>1
<1> QED
  BY <1>3, <1>4

\* A call whose vote is refused, or not taken by its subtransaction, or not there yet.
LEMMA ServeEarlyVotes ==
    ASSUME CInv, NEW c \in Calls, ServeCall(c), SubsEvolve,
           RefuseVote(c) \/ GetOrCreateSubtransaction(c)
             \/ (Vote(c) /\ ~MayCast(subs[call[c].sub], call[c].node))
    PROVE  VotesAnswered' /\ NoOtherVotes(c)
<1>1. /\ call \in [Calls -> Call] /\ call[c].pc \in {"vote", "cast"} /\ told' = told
      /\ \A d \in Calls : d # c => call'[d] = call[d]
  BY DEF CInv, IInv, TypeOK, RefuseVote, GetOrCreateSubtransaction, Vote, Return
<1>2. /\ \A k \in 1 .. Len(subs') : DecidedOnce(subs'[k])
      /\ \A k \in 1 .. Len(subs') : \A m \in Nodes : subs'[k].vote[m] # NoVote =>
            k \in 1 .. Len(subs) /\ subs[k].vote[m] # NoVote
  <2>1. CASE subs' = subs
    BY <2>1, SameDecides DEF CInv
  <2>2. CASE subs' = Append(subs, NextSubtransaction)
    <3>1. NextSubtransaction \in Subtransaction /\ DecidedOnce(NextSubtransaction)
      BY NewSubtransactionOK, NextSubtransactionVoters DEF NextSubtransaction, SubOK, DecidedOnce
    <3> QED
      BY <2>2, <3>1, NextSubtransactionVoters, AppendDecides DEF CInv
  <2> QED
    BY <2>1, <2>2 DEF RefuseVote, GetOrCreateSubtransaction, Vote
<1>3. \A m, k : Collects(m, k) => CollectsNext(m, k)
  BY <1>1 DEF Collects, CollectsNext
<1>4. \A m \in Nodes : failing[m] = VoteError => failing'[m] = VoteError
  BY ServeFails DEF CInv
<1>5. VotesAnswered'
  BY <1>1, <1>2, <1>3, <1>4, VotesKept DEF CInv
<1>6. \A k \in 1 .. Len(subs) : k \in 1 .. Len(subs')
  BY DEF SubsEvolve
<1> QED
  BY <1>2, <1>5, <1>6 DEF NoOtherVotes

\* A vote is cast: its call waits for the outcome.
LEMMA ServeVote ==
    ASSUME CInv, NEW c \in Calls, ServeCall(c), SubsEvolve, Vote(c),
           MayCast(subs[call[c].sub], call[c].node)
    PROVE  VotesAnswered' /\ NoOtherVotes(c)
<1> DEFINE n == call[c].node
           i == call[c].sub
           v == call[c].vote
<1>1. /\ call \in [Calls -> Call] /\ Len(subs) \in Nat /\ subs \in Seq(Subtransaction)
      /\ call[c].pc = "cast" /\ v \in Votes /\ n \in Nodes
      /\ i \in 1 .. Len(subs) /\ told' = told
  BY DEF CInv, IInv, TypeOK, Vote, Call
<1>2. /\ subs' = [subs EXCEPT ![i] = CastVote(@, n, v)]
      /\ call' = [call EXCEPT ![c] = At("collect", n, v, i)]
  BY DEF Vote
<1>3. PICK t : t = CastVote(subs[i], n, v)
  OBVIOUS
<1>4. DecidedOnce(t) /\ \A m \in Nodes : m # n => t.vote[m] = subs[i].vote[m]
  BY <1>1, <1>3, CastVoteDecides DEF CInv, IInv, VotesAnswered
<1>5. /\ Len(subs') = Len(subs) /\ subs'[i] = t
      /\ \A k \in 1 .. Len(subs) : k # i => subs'[k] = subs[k]
  BY <1>1, <1>2, <1>3
<1>6. CollectsNext(n, i) /\ \A m, k : Collects(m, k) => CollectsNext(m, k)
  <2>1. call'[c] = At("collect", n, v, i) /\ \A d \in Calls : d # c => call'[d] = call[d]
    BY <1>1, <1>2
  <2> QED
    BY <1>1, <2>1 DEF Collects, CollectsNext, At
<1>7. \A k \in 1 .. Len(subs') : DecidedOnce(subs'[k])
  BY <1>4, <1>5 DEF CInv, VotesAnswered
<1>8. \A k \in 1 .. Len(subs) : \A m \in Nodes :
        subs'[k].vote[m] # NoVote => (k = i /\ m = n) \/ subs[k].vote[m] # NoVote
  BY <1>4, <1>5
<1>9. \A m \in Nodes : failing[m] = VoteError => failing'[m] = VoteError
  BY ServeFails DEF CInv
<1>10. VotesAnswered'
  BY <1>1, <1>5, <1>6, <1>7, <1>8, <1>9, VotesKept DEF CInv
<1> QED
  BY <1>1, <1>8, <1>10 DEF NoOtherVotes

\* A call gets its answer.
LEMMA ServeCollectVotes ==
    ASSUME CInv, NEW c \in Calls, ServeCall(c), SubsEvolve, CollectVotes(c)
    PROVE  VotesAnswered' /\ NoOtherVotes(c)
<1> DEFINE n == call[c].node
           i == call[c].sub
           v == call[c].vote
<1>1. /\ call \in [Calls -> Call] /\ Len(subs) \in Nat
      /\ call[c].pc = "collect" /\ v \in Votes /\ n \in Nodes
      /\ i \in 1 .. Len(subs) /\ subs' = subs /\ subs[i].done
      /\ told' = IF subs[i].result[n] = "committed" THEN told \union {<<n, i, v>>} ELSE told
      /\ call' = [call EXCEPT ![c] = Idle]
  BY DEF CInv, IInv, TypeOK, CollectVotes, Call, Return
<1>2. told \subseteq told'
  BY <1>1
<1>3. call'[c].pc = "idle" /\ \A d \in Calls : d # c => call'[d] = call[d]
  BY <1>1 DEF Idle, At
<1>4. \A m, k : Collects(m, k) => CollectsNext(m, k) \/ (m = n /\ k = i)
  BY <1>3 DEF Collects, CollectsNext
<1>5. ToldNext(n, i) \/ failing'[n] = VoteError
  <2>1. CASE subs[i].result[n] = "committed"
    BY <1>1, <2>1 DEF ToldNext
  <2>2. CASE subs[i].result[n] # "committed"
    <3>1. VoteDenied(c)
      BY <1>1, <1>3, <2>2 DEF VoteDenied
    <3> QED
      BY <3>1, ServeFails DEF CInv
  <2> QED
    BY <2>1, <2>2
<1>6. subs'[i].vote[n] # NoVote => subs'[i].result[n] # "undecided"
  BY <1>1 DEF CInv, VotesAnswered, DecidedOnce
<1>7. \A m \in Nodes : failing[m] = VoteError => failing'[m] = VoteError
  BY ServeFails DEF CInv
<1>8. \A k \in 1 .. Len(subs') : DecidedOnce(subs'[k])
  BY <1>1 DEF CInv, VotesAnswered
<1>9. \A k \in 1 .. Len(subs') : \A m \in Nodes : subs'[k].vote[m] # NoVote =>
              \/ CollectsNext(m, k)
              \/ /\ ToldNext(m, k) \/ failing'[m] = VoteError
                 /\ subs'[k].result[m] # "undecided"
              \/ /\ k \in 1 .. Len(subs) /\ subs[k].vote[m] # NoVote
                 /\ Collects(m, k) => CollectsNext(m, k)
  BY <1>1, <1>4, <1>5, <1>6
<1>10. VotesAnswered'
  BY <1>2, <1>7, <1>8, <1>9, VotesKept DEF CInv
<1> QED
  BY <1>1, <1>10 DEF NoOtherVotes

\* A call gives up: its vote is retracted, or it has been decided.
LEMMA ServeCollectExpired ==
    ASSUME CInv, NEW c \in Calls, ServeCall(c), SubsEvolve, CollectExpired(c)
    PROVE  VotesAnswered' /\ NoOtherVotes(c)
<1> DEFINE n == call[c].node
           i == call[c].sub
<1>1. /\ call \in [Calls -> Call] /\ Len(subs) \in Nat /\ subs \in Seq(Subtransaction)
      /\ call[c].pc = "collect" /\ n \in Nodes
      /\ i \in 1 .. Len(subs) /\ told' = told
      /\ call' = [call EXCEPT ![c] = Idle]
  BY DEF CInv, IInv, TypeOK, CollectExpired, Call, Return
<1>2. call'[c].pc = "idle" /\ \A d \in Calls : d # c => call'[d] = call[d]
  BY <1>1 DEF Idle, At
<1>3. \A m, k : Collects(m, k) => CollectsNext(m, k) \/ (m = n /\ k = i)
  BY <1>2 DEF Collects, CollectsNext
<1>4. failing'[n] = VoteError /\ \A m \in Nodes : failing[m] = VoteError => failing'[m] = VoteError
  <2>1. VoteDenied(c)
    BY <1>1, <1>2 DEF VoteDenied
  <2> QED
    BY <2>1, ServeFails DEF CInv
<1>5. CASE MayRetract(subs[i], n)
  <2>1. subs' = [subs EXCEPT ![i] = RetractVote(subs[i], n)]
    BY <1>5 DEF CollectExpired
  <2>2. PICK t : t = RetractVote(subs[i], n)
    OBVIOUS
  <2>3. DecidedOnce(t) /\ t.vote[n] = NoVote /\ \A m \in Nodes : m # n => t.vote[m] = subs[i].vote[m]
    BY <1>1, <1>5, <2>2, RetractVoteDecides DEF CInv, IInv
  <2>4. /\ Len(subs') = Len(subs) /\ subs'[i] = t
        /\ \A k \in 1 .. Len(subs) : k # i => subs'[k] = subs[k]
    BY <1>1, <2>1, <2>2
  <2>5. \A k \in 1 .. Len(subs') : DecidedOnce(subs'[k])
    BY <2>3, <2>4 DEF CInv, VotesAnswered
  <2>6. \A k \in 1 .. Len(subs) : \A m \in Nodes : subs'[k].vote[m] # NoVote =>
          ~(k = i /\ m = n) /\ subs[k].vote[m] # NoVote
    BY <2>3, <2>4
  <2>7. VotesAnswered'
    BY <1>1, <1>3, <1>4, <2>4, <2>5, <2>6, VotesKept DEF CInv
  <2> QED
    BY <2>6, <2>7 DEF NoOtherVotes
<1>6. CASE ~MayRetract(subs[i], n)
  <2>1. subs' = subs
    BY <1>6 DEF CollectExpired
  <2>2. subs[i].vote[n] # NoVote => subs[i].result[n] # "undecided"
    BY <1>1, <1>6 DEF CInv, VotesAnswered, DecidedOnce, MayRetract
  <2>3. \A k \in 1 .. Len(subs') : DecidedOnce(subs'[k])
    BY <2>1 DEF CInv, VotesAnswered
  <2>4. \A k \in 1 .. Len(subs') : \A m \in Nodes : subs'[k].vote[m] # NoVote =>
              \/ CollectsNext(m, k)
              \/ /\ ToldNext(m, k) \/ failing'[m] = VoteError
                 /\ subs'[k].result[m] # "undecided"
              \/ /\ k \in 1 .. Len(subs) /\ subs[k].vote[m] # NoVote
                 /\ Collects(m, k) => CollectsNext(m, k)
    BY <1>3, <1>4, <2>1, <2>2
  <2>5. VotesAnswered'
    BY <1>1, <1>4, <2>3, <2>4, VotesKept DEF CInv
  <2> QED
    BY <2>1, <2>5 DEF NoOtherVotes
<1> QED
  BY <1>5, <1>6

\* Stopping, and the two halves of the cancellation of a voter.
LEMMA ServeOthers ==
    ASSUME CInv, NEW c \in Calls, ServeCall(c), SubsEvolve,
           Stop(c) \/ FindPending(c) \/ CancelNodeVoter(c)
    PROVE  VotesAnswered' /\ NoOtherVotes(c)
<1> DEFINE n == call[c].node
<1>1. /\ call \in [Calls -> Call] /\ Len(subs) \in Nat /\ n \in Nodes
      /\ call[c].pc \in {"stop", "drop", "dropping"} /\ told' = told
      /\ \A d \in Calls : d # c => call'[d] = call[d]
  <2>1. call \in [Calls -> Call] /\ Len(subs) \in Nat /\ n \in Nodes
    BY DEF CInv, IInv, TypeOK, Call
  <2>2. call[c].pc \in {"stop", "drop", "dropping"} /\ told' = told
    BY DEF Stop, FindPending, CancelNodeVoter
  <2>3. Return(c) \/ \E j : call' = [call EXCEPT ![c] = At("dropping", n, NoVote, j)]
    BY DEF Stop, FindPending, CancelNodeVoter
  <2> QED
    BY <2>1, <2>2, <2>3 DEF Return
<1>2. failing' = failing
  BY <1>1, OthersNotDenied
<1>3. \A k \in 1 .. Len(subs) : SubOK(subs[k]) /\ OutcomeOK(subs[k]) /\ DecidedOnce(subs[k])
  BY DEF CInv, IInv, PathInv, VotesAnswered
<1>4. /\ \A k \in 1 .. Len(subs') : DecidedOnce(subs'[k])
      /\ \A k \in 1 .. Len(subs') : \A m \in Nodes : subs'[k].vote[m] # NoVote =>
            k \in 1 .. Len(subs) /\ subs[k].vote[m] # NoVote
  <2>1. CASE Stop(c)
    <3>1. subs' = [i \in 1 .. Len(subs) |->
                     IF \E j \in 1 .. i : IsStopped(subs[j])
                     THEN subs[i] ELSE Close(subs[i], "stopped")]
      BY <2>1 DEF Stop
    <3>2. Len(subs') = Len(subs)
      BY <1>1, <3>1
    <3>3. \A k \in 1 .. Len(subs) : subs'[k] = subs[k] \/ subs'[k] = Close(subs[k], "stopped")
      BY <3>1
    <3> QED
      BY <1>3, <3>2, <3>3, CloseDecides
  <2>2. CASE FindPending(c)
    <3>1. subs' = subs \/ (subs' = Append(subs, RetractVote(NextSubtransaction, n))
                            /\ CommittedEarlier(n, Len(subs) + 1))
      BY <2>2 DEF FindPending, Reached, CommittedEarlier
    <3>2. CASE subs' = subs
      BY <3>2, SameDecides DEF CInv
    <3>3. CASE subs' = Append(subs, RetractVote(NextSubtransaction, n))
               /\ CommittedEarlier(n, Len(subs) + 1)
      <4>1. SubOK(NextSubtransaction)
        BY NewSubtransactionOK DEF NextSubtransaction
      <4>2. MayRetract(NextSubtransaction, n)
        <5>1. CASE subs = << >>
          BY <1>1, <5>1 DEF NextSubtransaction, NewSubtransaction, MayRetract
        <5>2. CASE subs # << >>
          <6>1. subs \in Seq(Subtransaction)
            BY DEF CInv, IInv, TypeOK
          <6>2. subs[Len(subs)].result[n] = "committed"
            BY <1>1, <3>3, <5>2, <6>1 DEF CommittedEarlier
          <6> QED
            BY <1>1, <5>2, <6>2, NextSubtransactionVoters DEF MayRetract
        <5> QED
          BY <5>1, <5>2
      <4>3. PICK t : t = RetractVote(NextSubtransaction, n)
        OBVIOUS
      <4>4. SubOK(t) /\ DecidedOnce(t) /\ \A m \in Nodes : t.vote[m] = NoVote
        BY <1>1, <4>1, <4>2, <4>3, RetractVoteDecides, RetractVoteOK, NextSubtransactionVoters
      <4> QED
        BY <3>3, <4>3, <4>4, AppendDecides DEF SubOK, CInv
    <3> QED
      BY <3>1, <3>2, <3>3
  <2>3. CASE CancelNodeVoter(c)
    <3>1. subs' = [k \in 1 .. Len(subs) |->
                     IF k >= call[c].sub /\ \A j \in call[c].sub .. k : MayRetract(subs[j], n)
                     THEN RetractVote(subs[k], n) ELSE subs[k]]
      BY <2>3 DEF CancelNodeVoter
    <3>2. Len(subs') = Len(subs)
      BY <1>1, <3>1
    <3>3. call[c].sub \in Nat
      BY DEF CInv, IInv, TypeOK, Call
    <3>4. ASSUME NEW k \in 1 .. Len(subs)
          PROVE  subs'[k] = subs[k]
                   \/ (MayRetract(subs[k], n) /\ subs'[k] = RetractVote(subs[k], n))
      BY <3>1, <3>3
    <3> QED
      BY <1>1, <1>3, <3>2, <3>4, RetractVoteDecides
  <2> QED
    BY <2>1, <2>2, <2>3
<1>5. \A d \in Calls : call[d].pc = "collect" => call'[d] = call[d]
  BY <1>1
<1> QED
  BY <1>1, <1>2, <1>4, <1>5, VotesUntouched DEF CInv

\* All calls.
LEMMA ServeKeepsVotes ==
    ASSUME CInv, NEW c \in Calls, ServeCall(c), SubsEvolve
    PROVE  VotesAnswered' /\ NoOtherVotes(c)
BY ServeEarlyVotes, ServeVote, ServeCollectVotes, ServeCollectExpired, ServeOthers
   DEF ServeCall, CallStep

-----------------------------------------------------------------------------
(* Nodes and their calls *)

Voting == {"vote", "cast", "collect"}
Dropping == {"drop", "dropping"}

\* What serving a call does, besides the subtransactions.
LEMMA ServeMoves ==
    ASSUME CInv, NEW c \in Calls, ServeCall(c)
    PROVE  /\ \A d \in Calls : d # c => call'[d] = call[d]
           /\ \/ call'[c].pc = "idle"
              \/ /\ call[c].pc \in Voting /\ call'[c].pc \in Voting
                 /\ call'[c].node = call[c].node
              \/ /\ call[c].pc = "drop" /\ call'[c].pc = "dropping"
                 /\ call'[c].node = call[c].node /\ FindPending(c)
           /\ \/ told' = told
              \/ /\ call[c].pc = "collect" /\ call'[c].pc = "idle"
                 /\ told' = told \union {<<call[c].node, call[c].sub, call[c].vote>>}
           /\ \/ dropped' = dropped
              \/ /\ FindPending(c) \/ CancelNodeVoter(c)
                 /\ call[c].pc \in Dropping /\ call'[c].pc = "idle"
                 /\ dropped' = dropped \union {call[c].node}
           /\ registered' = registered /\ state' \in {state, "stopped"}
           /\ UNCHANGED <<kind, rpc, canceled, disk, phase, outdated, gen, repoGen, jobs, dbFailed>>
<1>1. call \in [Calls -> Call]
  BY DEF CInv, IInv, TypeOK
<1>2. UNCHANGED <<kind, rpc, canceled, disk, phase, outdated, gen, repoGen, jobs, dbFailed>>
  BY DEF ServeCall
<1>3. CASE RefuseVote(c)
  BY <1>1, <1>2, <1>3 DEF RefuseVote, Return, Idle, At
<1>4. CASE GetOrCreateSubtransaction(c)
  BY <1>1, <1>2, <1>4 DEF GetOrCreateSubtransaction, At, Voting
<1>5. CASE Vote(c)
  BY <1>1, <1>2, <1>5 DEF Vote, Return, Idle, At, Voting
<1>6. CASE CollectVotes(c)
  BY <1>1, <1>2, <1>6 DEF CollectVotes, Return, Idle, At
<1>7. CASE CollectExpired(c)
  BY <1>1, <1>2, <1>7 DEF CollectExpired, Return, Idle, At
<1>8. CASE Stop(c)
  BY <1>1, <1>2, <1>8 DEF Stop, Return, Idle, At
<1>9. CASE FindPending(c)
  <2>1. /\ call[c].pc = "drop" /\ registered' = registered /\ state' = state /\ told' = told
    BY <1>9 DEF FindPending
  <2>2. \/ \E i : call' = [call EXCEPT ![c] = At("dropping", call[c].node, NoVote, i)]
                  /\ dropped' = dropped
        \/ Return(c) /\ dropped' = dropped \union {call[c].node}
    BY <1>9 DEF FindPending
  <2> QED
    BY <1>1, <1>2, <1>9, <2>1, <2>2 DEF Return, Idle, At, Dropping
<1>10. CASE CancelNodeVoter(c)
  BY <1>1, <1>2, <1>10 DEF CancelNodeVoter, Return, Idle, At, Dropping
<1> QED
  BY <1>3, <1>4, <1>5, <1>6, <1>7, <1>8, <1>9, <1>10 DEF ServeCall, CallStep

\* Calls of a silent node do not come from nowhere.
LEMMA SilentStays ==
    ASSUME \A d \in Calls : call'[d].pc \in Voting =>
              call[d].pc \in Voting /\ call'[d].node = call[d].node,
           NEW n, NotVoting(n)
    PROVE  NotVoting(n)'
BY DEF NotVoting, Voting

\* Serving a call starts no vote, and a node whose vote is denied has none in flight
\* anymore.
LEMMA ServeKeepsNodes ==
    ASSUME CInv, NEW c \in Calls, ServeCall(c)
    PROVE  NodesWaitForVotes'
<1>0. PICK n : n = call[c].node
  OBVIOUS
<1>1. /\ \A d \in Calls : d # c => call'[d] = call[d]
      /\ \/ call'[c].pc = "idle"
         \/ /\ call[c].pc \in Voting /\ call'[c].pc \in Voting
            /\ call'[c].node = call[c].node
         \/ call'[c].pc = "dropping"
      /\ \/ told' = told
         \/ /\ call[c].pc = "collect" /\ call'[c].pc = "idle"
            /\ told' = told \union {<<call[c].node, call[c].sub, call[c].vote>>}
      /\ kind' = kind /\ rpc' = rpc /\ disk' = disk
  BY ServeMoves
<1>2. \A d \in Calls : call'[d].pc \in Voting =>
          call[d].pc \in Voting /\ call'[d].node = call[d].node
  BY <1>1 DEF Voting
<1>3. \A m : NotVoting(m) => NotVoting(m)'
  BY <1>2, SilentStays
<1>4. \A d, e \in Calls : d # e /\ call'[d].pc \in Voting /\ call'[e].pc \in Voting =>
          call'[d].node # call'[e].node
  BY <1>2 DEF CInv, NodesWaitForVotes, Voting
<1>5. ASSUME VoteDenied(c) PROVE NotVoting(n)' /\ ~NotVoting(n)
  <2>1. call[c].pc \in Voting /\ call'[c].pc = "idle"
    BY <1>5 DEF VoteDenied, Voting
  <2>2. \A d \in Calls : d # c /\ call[d].pc \in Voting => call[d].node # n
    BY <1>0, <2>1 DEF CInv, NodesWaitForVotes, Voting
  <2> QED
    BY <1>0, <1>1, <2>1, <2>2 DEF NotVoting, Voting
<1>6. \A m \in Nodes : failing'[m] # failing[m] => m = n /\ VoteDenied(c)
  BY <1>0, ServeFails DEF CInv
<1>7. \A m \in Nodes : failing'[m] # NoError => NotVoting(m)'
  BY <1>3, <1>5, <1>6 DEF CInv, NodesWaitForVotes
<1>8. ASSUME NEW m, NotVoting(m), AppliedAll(m) PROVE AppliedAll(m)'
  <2>1. ASSUME NEW t \in told', t[1] = m PROVE t[2] <= Len(disk[m])
    <3>1. CASE t \in told
      BY <2>1, <3>1, <1>8 DEF AppliedAll
    <3>2. CASE t = <<call[c].node, call[c].sub, call[c].vote>> /\ call[c].pc = "collect"
      BY <1>8, <2>1, <3>2 DEF NotVoting
    <3> QED
      BY <1>1, <3>1, <3>2
  <2> QED
    BY <1>1, <2>1 DEF AppliedAll
<1>9. Destinations' = Destinations /\ Destinations \subseteq Nodes
  BY <1>1 DEF Destinations, UseTransaction, Nodes
<1>10. \A m \in Destinations : rpc[m] \in {NoError, AppError, VoteError, InitError} =>
          NotVoting(m)' /\ AppliedAll(m)'
  BY <1>3, <1>8 DEF CInv, NodesWaitForVotes
<1>11. \A m \in Destinations : rpc[m] = NoError => failing'[m] = NoError
  BY <1>5, <1>6, <1>9 DEF CInv, NodesWaitForVotes
<1>12. ASSUME ~VotingRPC PROVE told' = {} /\ \A m \in Nodes : NotVoting(m)'
  <2>1. told = {} /\ \A m \in Nodes : NotVoting(m)
    BY <1>12 DEF CInv, NodesWaitForVotes
  <2>2. n \in Nodes
    BY <1>0 DEF CInv, IInv, TypeOK, Call
  <2>3. call[c].pc # "collect"
    BY <1>0, <2>1, <2>2 DEF NotVoting
  <2> QED
    BY <1>1, <1>3, <2>1, <2>3
<1>13. VotingRPC' <=> VotingRPC
  BY <1>1 DEF VotingRPC
<1> QED
  BY <1>1, <1>4, <1>7, <1>9, <1>10, <1>11, <1>12, <1>13 DEF NodesWaitForVotes, Voting

\* Who is left behind stays so as long as it casts no vote.
LEMMA LeftBehindStays ==
    ASSUME IInv, SubsEvolve, NEW n \in Nodes, LeftBehind(n),
           \A k \in 1 .. Len(subs) : subs[k].vote[n] = NoVote => subs'[k].vote[n] = NoVote
    PROVE  LeftBehind(n)'
<1>1. PICK k \in 1 .. Len(subs) :
        /\ subs[k].result[n] # "committed"
        /\ subs[k].result[n] = "undecided" => subs[k].vote[n] = NoVote
  BY DEF LeftBehind
<1>2. k \in 1 .. Len(subs') /\ Evolves(subs[k], subs'[k]) /\ SubOK(subs'[k])
  BY DEF SubsEvolve
<1>3. subs'[k].result[n] # "committed"
  <2>1. CASE subs[k].result[n] = "undecided"
    <3>1. subs'[k].vote[n] \notin Votes
      BY <1>1, <2>1, VotesAssumption
    <3> QED
      BY <1>2, <3>1 DEF SubOK
  <2>2. CASE subs[k].result[n] # "undecided"
    BY <1>1, <1>2, <2>2 DEF Evolves
  <2> QED
    BY <2>1, <2>2
<1>4. subs'[k].result[n] = "undecided" => subs'[k].vote[n] = NoVote
  BY <1>1, <1>2 DEF Evolves
<1> QED
  BY <1>2, <1>3, <1>4 DEF LeftBehind

\* A node that votes no more and has not committed all subtransactions is left behind.
LEMMA SilentIsLeftBehind ==
    ASSUME CInv, NEW n \in Nodes, NotVoting(n), NEW i \in 1 .. Len(subs),
           subs[i].result[n] # "committed"
    PROVE  LeftBehind(n)
<1>1. ~Collects(n, i)
  BY DEF NotVoting, Collects
<1>2. subs[i].result[n] = "undecided" => subs[i].vote[n] = NoVote
  BY <1>1 DEF CInv, VotesAnswered
<1> QED
  BY <1>2 DEF LeftBehind

\* cancelNodeVoter, first half, for a node that votes no more.
LEMMA FindPendingLeavesBehind ==
    ASSUME CInv, NEW c \in Calls, FindPending(c), SubsEvolve,
           NEW n, n = call[c].node, NotVoting(n),
           \A k \in 1 .. Len(subs) : subs[k].vote[n] = NoVote => subs'[k].vote[n] = NoVote
    PROVE  LeftBehind(n)'
<1>1. n \in Nodes /\ Len(subs) \in Nat /\ subs \in Seq(Subtransaction) /\ IInv
  <2>1. IInv /\ subs \in Seq(Subtransaction) /\ call \in [Calls -> Call]
    BY DEF CInv, IInv, TypeOK
  <2>2. call[c].node \in Nodes
    BY <2>1 DEF Call
  <2> QED
    BY <2>1, <2>2
<1>2. PICK i \in 1 .. Len(subs) + 1 :
        /\ Reached(n, i)
        /\ i <= Len(subs) \/ (i = Len(subs) + 1 /\ subs' = Append(subs, RetractVote(NextSubtransaction, n)))
  BY DEF FindPending
<1>3. CASE i <= Len(subs)
  <2>1. i \in 1 .. Len(subs) /\ subs[i].result[n] # "committed"
    BY <1>1, <1>2, <1>3 DEF Reached
  <2>2. LeftBehind(n)
    BY <1>1, <2>1, SilentIsLeftBehind
  <2> QED
    BY <1>1, <2>2, LeftBehindStays
<1>4. CASE i = Len(subs) + 1 /\ subs' = Append(subs, RetractVote(NextSubtransaction, n))
  <2>1. SubOK(NextSubtransaction)
    BY NewSubtransactionOK DEF NextSubtransaction
  <2>2. NoCanceledVotes(NextSubtransaction)
    BY NextSubtransactionVoters DEF NoCanceledVotes
  <2>3. MayRetract(NextSubtransaction, n)
    <3>1. CASE subs = << >>
      BY <1>1, <3>1 DEF NextSubtransaction, NewSubtransaction, MayRetract
    <3>2. CASE subs # << >>
      <4>1. subs[Len(subs)].result[n] = "committed"
        BY <1>1, <1>2, <1>4, <3>2 DEF Reached
      <4> QED
        BY <1>1, <3>2, <4>1, NextSubtransactionVoters DEF MayRetract
    <3> QED
      BY <3>1, <3>2
  <2>4. PICK t : t = RetractVote(NextSubtransaction, n)
    OBVIOUS
  <2>5. t.result[n] = "canceled" /\ SubOK(t)
    BY <1>1, <2>1, <2>2, <2>3, <2>4, RetractVoteOutcome, RetractVoteOK
  <2>6. Len(subs) + 1 \in 1 .. Len(subs') /\ subs'[Len(subs) + 1] = t
    BY <1>1, <1>4, <2>4, <2>5 DEF SubOK
  <2> QED
    BY <2>5, <2>6 DEF LeftBehind
<1> QED
  BY <1>2, <1>3, <1>4

\* Errors that a node reports itself, or that are reported before it has started.
Reported == {AppError, VoteError, InitError}

\* The cancellation of a voter leaves a node that reported an error behind.
LEMMA ServeKeepsDropped ==
    ASSUME CInv, NEW c \in Calls, ServeCall(c), SubsEvolve
    PROVE  DroppedAreLeftBehind'
<1>0. PICK n : n = call[c].node
  OBVIOUS
<1>1. /\ \A d \in Calls : d # c => call'[d] = call[d]
      /\ \/ call'[c].pc = "idle"
         \/ /\ call[c].pc \in Voting /\ call'[c].pc \in Voting
         \/ /\ call[c].pc = "drop" /\ call'[c].pc = "dropping"
            /\ call'[c].node = n /\ FindPending(c)
      /\ \/ dropped' = dropped
         \/ /\ FindPending(c) \/ CancelNodeVoter(c)
            /\ call[c].pc \in Dropping /\ call'[c].pc = "idle"
            /\ dropped' = dropped \union {n}
      /\ kind' = kind /\ rpc' = rpc /\ phase' = phase
  BY <1>0, ServeMoves
<1>2. /\ \A d \in Calls : call[d].pc \in Dropping =>
            /\ phase = "proxying" /\ UseTransaction
            /\ call[d].node \in Secondaries \ dropped
            /\ rpc[call[d].node] \notin {Running, NoError}
            /\ call[d].pc = "dropping" /\ rpc[call[d].node] \in Reported =>
                  LeftBehind(call[d].node)
      /\ \A d, e \in Calls : d # e /\ call[d].pc \in Dropping => call[e].pc \notin Dropping
      /\ UseTransaction => \A m \in dropped :
            rpc[m] \notin {Running, NoError} /\ (rpc[m] \in Reported => LeftBehind(m))
  BY DEF CInv, DroppedAreLeftBehind, Dropping, Reported
<1>3. IInv /\ n \in Nodes /\ dropped \subseteq Secondaries /\ Secondaries \subseteq Nodes
  BY <1>0 DEF CInv, IInv, TypeOK, Call, Nodes
<1>4. ASSUME UseTransaction, NEW m \in Nodes, rpc[m] \in Reported
      PROVE  /\ NotVoting(m)
             /\ \A k \in 1 .. Len(subs) : subs[k].vote[m] = NoVote => subs'[k].vote[m] = NoVote
             /\ LeftBehind(m) => LeftBehind(m)'
  <2>1. NotVoting(m)
    BY <1>4 DEF CInv, NodesWaitForVotes, Destinations, Reported
  <2>2. \A k \in 1 .. Len(subs) : subs[k].vote[m] = NoVote => subs'[k].vote[m] = NoVote
    BY <2>1, ServeKeepsVotes DEF NoOtherVotes, NotVoting
  <2> QED
    BY <1>3, <2>1, <2>2, LeftBehindStays
<1>5. ASSUME FindPending(c) \/ CancelNodeVoter(c)
      PROVE  /\ UseTransaction /\ n \in Secondaries /\ rpc[n] \notin {Running, NoError}
             /\ rpc[n] \in Reported => LeftBehind(n)'
  <2>1. call[c].pc \in Dropping /\ (CancelNodeVoter(c) => call[c].pc = "dropping")
    BY <1>5 DEF FindPending, CancelNodeVoter, Dropping
  <2>2. UseTransaction /\ n \in Secondaries /\ rpc[n] \notin {Running, NoError}
    BY <1>0, <1>2, <2>1
  <2>3. ASSUME rpc[n] \in Reported PROVE LeftBehind(n)'
    <3>1. CASE FindPending(c)
      BY <1>0, <1>3, <1>4, <2>2, <2>3, <3>1, FindPendingLeavesBehind
    <3>2. CASE CancelNodeVoter(c)
      BY <1>0, <1>2, <1>3, <1>4, <2>1, <2>2, <2>3, <3>2
    <3> QED
      BY <1>5, <3>1, <3>2
  <2> QED
    BY <2>2, <2>3
<1>6. ASSUME NEW d \in Calls, call'[d].pc \in Dropping, NEW m, m = call'[d].node
      PROVE  /\ phase = "proxying" /\ UseTransaction
             /\ m \in Secondaries \ dropped'
             /\ rpc[m] \notin {Running, NoError}
             /\ call'[d].pc = "dropping" /\ rpc[m] \in Reported => LeftBehind(m)'
  <2>1. CASE d # c
    <3>1. call'[d] = call[d] /\ call[d].pc \in Dropping /\ m = call[d].node
      BY <1>1, <1>6, <2>1
    <3>2. call[c].pc \notin Dropping
      BY <1>2, <2>1, <3>1
    <3>3. dropped' = dropped
      BY <1>1, <3>2
    <3> QED
      BY <1>2, <1>3, <1>4, <3>1, <3>3
  <2>2. CASE d = c
    <3>1. /\ call[c].pc = "drop" /\ call'[c].pc = "dropping" /\ FindPending(c) /\ m = n
          /\ dropped' = dropped
      BY <1>1, <1>6, <2>2 DEF Dropping, Voting
    <3>2. phase = "proxying" /\ m \in Secondaries \ dropped
      BY <1>0, <1>2, <3>1 DEF Dropping
    <3> QED
      BY <1>5, <3>1, <3>2
  <2> QED
    BY <2>1, <2>2
<1>7. \A d, e \in Calls : d # e /\ call'[d].pc \in Dropping => call'[e].pc \notin Dropping
  <2>1. \A d \in Calls : call'[d].pc \in Dropping => call[d].pc \in Dropping
    BY <1>1 DEF Dropping, Voting
  <2> QED
    BY <1>2, <2>1
<1>8. ASSUME UseTransaction, NEW m \in dropped'
      PROVE  rpc[m] \notin {Running, NoError} /\ (rpc[m] \in Reported => LeftBehind(m)')
  <2>1. CASE m \in dropped
    BY <1>2, <1>3, <1>4, <1>8, <2>1
  <2>2. CASE m = n /\ (FindPending(c) \/ CancelNodeVoter(c))
    BY <1>5, <2>2
  <2> QED
    BY <1>1, <2>1, <2>2
<1>9. UseTransaction' <=> UseTransaction
  BY <1>1 DEF UseTransaction
<1>10. \A d \in Calls : call'[d].pc = "dropping" /\ rpc[call'[d].node] \in Reported =>
          (\A m : m = call'[d].node => LeftBehind(m)')
  BY <1>6 DEF Dropping
<1>11. \A d \in Calls : call'[d].pc \in Dropping =>
          /\ phase = "proxying" /\ UseTransaction
          /\ call'[d].node \in Secondaries \ dropped'
          /\ rpc[call'[d].node] \notin {Running, NoError}
  BY <1>6
<1> QED
  BY <1>1, <1>7, <1>8, <1>9, <1>10, <1>11
     DEF DroppedAreLeftBehind, Dropping, Reported, LeftBehind

-----------------------------------------------------------------------------
(* After the cleanup *)

\* What the finalizers look at is the same in the next state.
SameOutcome ==
    /\ kind' = kind /\ rpc' = rpc
    /\ UseTransaction =>
          /\ Len(subs') = Len(subs)
          /\ \A k \in 1 .. Len(subs) : \A n \in Nodes :
                subs'[k].result[n] = subs[k].result[n] /\ subs'[k].vote[n] = subs[k].vote[n]

\* Then they come to the same verdict.
LEMMA SameVerdict ==
    ASSUME IInv, SubsEvolve, SameOutcome
    PROVE  (Dirtied' <=> Dirtied) /\ OutdatedReplicas' = OutdatedReplicas
<1>1. (UseTransaction' <=> UseTransaction) /\ rpc' = rpc
  BY DEF SameOutcome, UseTransaction
<1>2. CASE ~UseTransaction
  BY <1>1, <1>2 DEF Dirtied, OutdatedReplicas
<1>3. CASE UseTransaction
  <2>1. /\ subs \in Seq(Subtransaction) /\ subs' \in Seq(Subtransaction)
        /\ Len(subs') = Len(subs) /\ Len(subs) \in Nat
        /\ \A k \in 1 .. Len(subs) : \A n \in Nodes :
              subs'[k].result[n] = subs[k].result[n] /\ subs'[k].vote[n] = subs[k].vote[n]
    BY <1>3 DEF IInv, TypeOK, SubsEvolve, SameOutcome
  <2>2. subs' = << >> <=> subs = << >>
    BY <2>1
  <2>3. Primary \in Nodes /\ Secondaries \subseteq Nodes
    BY DEF Nodes
  <2>4. PrimaryDirtied' <=> PrimaryDirtied
    BY <1>1, <2>1, <2>2, <2>3 DEF PrimaryDirtied, DidVote
  <2>5. ASSUME Len(subs) # 0, NEW n \in Nodes
        PROVE  subs'[Len(subs')].result[n] = subs[Len(subs)].result[n]
    BY <2>1, <2>5
  <2>6. UpdatedSecondaries' = UpdatedSecondaries
    BY <1>1, <2>1, <2>3, <2>5 DEF UpdatedSecondaries, NodeState
  <2> QED
    BY <1>1, <2>4, <2>6 DEF Dirtied, OutdatedReplicas
<1> QED
  BY <1>2, <1>3

\* Closed subtransactions do not change.
LEMMA Frozen ==
    ASSUME CInv, phase # "proxying", SubsEvolve, kind' = kind, rpc' = rpc,
           UseTransaction => Len(subs') = Len(subs)
    PROVE  SameOutcome
BY DEF CInv, CleanedUp, SubsEvolve, Evolves, SameOutcome

\* Steps of the others do not disturb the finalizers.
LEMMA FinalizersUndisturbed ==
    ASSUME CInv, SubsEvolve, phase # "proxying" => SameOutcome,
           UNCHANGED <<phase, outdated, gen, repoGen, jobs, dbFailed>>
    PROVE  FinalizersMatch'
<1>1. CASE phase = "proxying"
  BY <1>1 DEF CInv, FinalizersMatch, Finalized
<1>2. CASE phase # "proxying"
  <2>1. (Dirtied' <=> Dirtied) /\ OutdatedReplicas' = OutdatedReplicas
    BY <1>2, SameVerdict DEF CInv
  <2>2. Finalized' <=> Finalized
    BY DEF Finalized
  <2> QED
    BY <2>1, <2>2 DEF CInv, FinalizersMatch
<1> QED
  BY <1>1, <1>2

\* Nor does a late call change anything.
LEMMA ServeAfterCleanup ==
    ASSUME CInv, NEW c \in Calls, ServeCall(c), phase # "proxying", UseTransaction
    PROVE  Len(subs') = Len(subs)
<1>1. state # "open" /\ call[c].pc \notin Dropping /\ Len(subs) \in Nat
  BY DEF CInv, CleanedUp, DroppedAreLeftBehind, Dropping, IInv, TypeOK
<1>2. CASE Vote(c)
  BY <1>1, <1>2 DEF Vote, CInv, IInv, TypeOK
<1>3. CASE CollectExpired(c)
  BY <1>1, <1>3 DEF CollectExpired, CInv, IInv, TypeOK
<1>4. CASE Stop(c)
  BY <1>1, <1>4 DEF Stop
<1>5. CASE RefuseVote(c) \/ CollectVotes(c)
  BY <1>5 DEF RefuseVote, CollectVotes
<1> QED
  BY <1>1, <1>2, <1>3, <1>4, <1>5
     DEF ServeCall, CallStep, GetOrCreateSubtransaction, FindPending, CancelNodeVoter, Dropping

\* The cleanup stays done.
LEMMA CleanedUpStays ==
    ASSUME CInv, SubsEvolve, phase # "proxying", phase' # "proxying", SameOutcome,
           dropped \subseteq dropped', registered' = registered, state' \in {state, "stopped"}
    PROVE  CleanedUp'
<1>1. /\ Proxied
      /\ UseTransaction =>
            /\ state # "open" /\ ~registered
            /\ \A k \in 1 .. Len(subs) : \A n \in Nodes : subs[k].result[n] # "undecided"
  BY DEF CInv, CleanedUp
<1>2. (UseTransaction' <=> UseTransaction) /\ Destinations' = Destinations /\ rpc' = rpc
  BY DEF SameOutcome, UseTransaction, Destinations
<1>3. Proxied'
  BY <1>1, <1>2 DEF Proxied
<1>4. UseTransaction => \A k \in 1 .. Len(subs') : \A n \in Nodes : subs'[k].result[n] # "undecided"
  BY <1>1 DEF SameOutcome
<1> QED
  BY <1>1, <1>2, <1>3, <1>4 DEF CleanedUp

\* Serving a call.
LEMMA ServeKeepsCInv ==
    ASSUME CInv, NEW c \in Calls, ServeCall(c), SubsEvolve, IInv', PathInv'
    PROVE  CInv'
<1>1. /\ told \subseteq told' /\ dropped \subseteq dropped'
      /\ registered' = registered /\ state' \in {state, "stopped"}
      /\ UNCHANGED <<kind, rpc, canceled, disk, phase, outdated, gen, repoGen, jobs, dbFailed>>
  BY ServeMoves
<1>2. CTypeOK'
  <2>1. failing' \in [Nodes -> {NoError, AppError, VoteError}]
    BY ServeFails DEF CInv
  <2>2. Destinations' = Destinations
    BY <1>1 DEF Destinations, UseTransaction
  <2> QED
    BY <1>1, <2>1, <2>2 DEF CInv, CTypeOK
<1>3. DisksFollowVotes'
  <2>1. VotingRPC' <=> VotingRPC
    BY <1>1 DEF VotingRPC
  <2> QED
    BY <1>1, <2>1 DEF CInv, DisksFollowVotes
<1>5. phase # "proxying" => SameOutcome
  BY <1>1, ServeAfterCleanup, Frozen
<1>6. CleanedUp'
  <2>1. CASE phase = "proxying"
    BY <1>1, <2>1 DEF CleanedUp
  <2>2. CASE phase # "proxying"
    BY <1>1, <1>5, <2>2, CleanedUpStays
  <2> QED
    BY <2>1, <2>2
<1>7. FinalizersMatch'
  BY <1>1, <1>5, FinalizersUndisturbed
<1>8. VotesAnswered' /\ NodesWaitForVotes' /\ DroppedAreLeftBehind'
  BY ServeKeepsVotes, ServeKeepsNodes, ServeKeepsDropped
<1> QED
  BY <1>2, <1>3, <1>6, <1>7, <1>8 DEF CInv

-----------------------------------------------------------------------------
(* Steps that leave the subtransactions alone *)

\* No new votes in flight; nodes fail and streams end only when none is left.
LEMMA NodesKept ==
    ASSUME CInv, told' = told, kind' = kind,
           \A d \in Calls : call'[d].pc \in Voting => call'[d] = call[d],
           \A m \in Nodes : failing'[m] # failing[m] => NotVoting(m),
           \A m \in Nodes : Len(disk'[m]) >= Len(disk[m]),
           \A m \in Destinations : rpc'[m] \in {NoError, AppError, VoteError, InitError} =>
              rpc'[m] = rpc[m] \/ (NotVoting(m) /\ AppliedAll(m)),
           \A m \in Destinations : rpc'[m] = NoError => failing'[m] = NoError
    PROVE  NodesWaitForVotes'
<1>1. \A d \in Calls : call'[d].pc \in Voting =>
          call[d].pc \in Voting /\ call'[d].node = call[d].node
  OBVIOUS
<1>2. \A m : NotVoting(m) => NotVoting(m)'
  BY <1>1, SilentStays
<1>3. \A d, e \in Calls : d # e /\ call'[d].pc \in Voting /\ call'[e].pc \in Voting =>
          call'[d].node # call'[e].node
  BY <1>1 DEF CInv, NodesWaitForVotes, Voting
<1>4. ASSUME NEW m \in Nodes, AppliedAll(m) PROVE AppliedAll(m)'
  <2>1. \A t \in told : t[1] = m => t[2] <= Len(disk[m])
    BY <1>4 DEF AppliedAll
  <2>2. Len(disk[m]) \in Nat
    BY DEF CInv, CTypeOK, Replicas
  <2>3. Len(disk'[m]) >= Len(disk[m])
    OBVIOUS
  <2>4. \A t \in told : t[2] \in Nat
    BY DEF CInv, IInv, TypeOK
  <2> QED
    BY <2>1, <2>2, <2>3, <2>4 DEF AppliedAll
<1>5. Destinations' = Destinations /\ Destinations \subseteq Nodes
  BY DEF Destinations, UseTransaction, Nodes
<1>6. \A m \in Destinations : rpc'[m] \in {NoError, AppError, VoteError, InitError} =>
          NotVoting(m)' /\ AppliedAll(m)'
  BY <1>2, <1>4, <1>5 DEF CInv, NodesWaitForVotes
<1>7. \A m \in Nodes : failing'[m] # NoError => NotVoting(m)'
  BY <1>2 DEF CInv, NodesWaitForVotes
<1>8. ~VotingRPC => told' = {} /\ \A m \in Nodes : NotVoting(m)'
  BY <1>2 DEF CInv, NodesWaitForVotes
<1>9. VotingRPC' <=> VotingRPC
  BY DEF VotingRPC
<1> QED
  BY <1>3, <1>5, <1>6, <1>7, <1>8, <1>9 DEF NodesWaitForVotes, Voting

\* No new error handlers; streams that have ended stay so.
LEMMA DroppedKept ==
    ASSUME CInv, subs' = subs, dropped' = dropped, kind' = kind,
           phase' = phase \/ phase # "proxying",
           \A m \in Destinations : rpc'[m] = rpc[m] \/ rpc[m] = Running,
           \A d \in Calls : call'[d].pc \in Dropping => call'[d] = call[d]
    PROVE  DroppedAreLeftBehind'
<1>1. \A m : LeftBehind(m) => LeftBehind(m)'
  BY DEF LeftBehind
<1>2. (UseTransaction' <=> UseTransaction) /\ (UseTransaction => Secondaries \subseteq Destinations)
  BY DEF UseTransaction, Destinations, Nodes
<1>3. dropped \subseteq Secondaries
  BY DEF CInv, IInv, TypeOK
<1>4. ASSUME NEW d \in Calls, call'[d].pc \in Dropping, NEW m, m = call'[d].node
      PROVE  /\ phase' = "proxying" /\ UseTransaction
             /\ m \in Secondaries \ dropped
             /\ rpc'[m] \notin {Running, NoError}
             /\ call'[d].pc = "dropping" /\ rpc'[m] \in Reported => LeftBehind(m)'
  <2>1. call[d].pc \in Dropping /\ m = call[d].node /\ call'[d].pc = call[d].pc
    BY <1>4
  <2>2. /\ phase = "proxying" /\ UseTransaction
        /\ m \in Secondaries \ dropped
        /\ rpc[m] \notin {Running, NoError}
        /\ call[d].pc = "dropping" /\ rpc[m] \in Reported => LeftBehind(m)
    BY <2>1 DEF CInv, DroppedAreLeftBehind, Dropping, Reported
  <2>3. rpc'[m] = rpc[m]
    BY <1>2, <2>2
  <2> QED
    BY <1>1, <2>1, <2>2, <2>3
<1>5. ASSUME UseTransaction, NEW m \in dropped
      PROVE  rpc'[m] \notin {Running, NoError} /\ (rpc'[m] \in Reported => LeftBehind(m)')
  <2>1. rpc[m] \notin {Running, NoError} /\ (rpc[m] \in Reported => LeftBehind(m))
    BY <1>5 DEF CInv, DroppedAreLeftBehind, Reported
  <2> QED
    BY <1>1, <1>2, <1>3, <1>5, <2>1
<1>6. \A d, e \in Calls : d # e /\ call'[d].pc \in Dropping => call'[e].pc \notin Dropping
  BY DEF CInv, DroppedAreLeftBehind, Dropping
<1>7. \A d \in Calls : call'[d].pc = "dropping" /\ rpc'[call'[d].node] \in Reported =>
          (\A m : m = call'[d].node => LeftBehind(m)')
  BY <1>4 DEF Dropping
<1>8. \A d \in Calls : call'[d].pc \in Dropping =>
          /\ phase' = "proxying" /\ UseTransaction
          /\ call'[d].node \in Secondaries \ dropped
          /\ rpc'[call'[d].node] \notin {Running, NoError}
  BY <1>4
<1> QED
  BY <1>2, <1>5, <1>6, <1>7, <1>8 DEF DroppedAreLeftBehind, Dropping, Reported, LeftBehind

\* Calls that collect votes stay where they are.
LEMMA VotesSame ==
    ASSUME CInv, UNCHANGED <<subs, told>>,
           \A m \in Nodes : failing[m] = VoteError => failing'[m] = VoteError,
           \A d \in Calls : call[d].pc = "collect" => call'[d] = call[d]
    PROVE  VotesAnswered'
<1>1. SubsEvolve
  BY UnchangedEvolves DEF CInv
<1>2. \A m, k : Collects(m, k) => CollectsNext(m, k)
  BY DEF Collects, CollectsNext
<1>3. /\ \A k \in 1 .. Len(subs') : DecidedOnce(subs'[k])
      /\ \A k \in 1 .. Len(subs') : \A m \in Nodes : subs'[k].vote[m] # NoVote =>
            k \in 1 .. Len(subs) /\ subs[k].vote[m] # NoVote
  BY SameDecides DEF CInv
<1> QED
  BY <1>1, <1>2, <1>3, VotesKept DEF CInv

\* Steps of calls leave the proxy's view, the disks and the finalizers alone.
LEMMA ProxyUndisturbed ==
    ASSUME CInv, told \subseteq told',
           failing' \in [Nodes -> {NoError, AppError, VoteError}],
           UNCHANGED <<kind, rpc, canceled, disk, phase, outdated, gen, repoGen, jobs, dbFailed>>
    PROVE  CTypeOK' /\ DisksFollowVotes'
<1>1. Destinations' = Destinations /\ (VotingRPC' <=> VotingRPC)
  BY DEF Destinations, UseTransaction, VotingRPC
<1>2. CTypeOK'
  BY <1>1 DEF CInv, CTypeOK
<1>3. DisksFollowVotes'
  BY <1>1 DEF CInv, DisksFollowVotes
<1> QED
  BY <1>2, <1>3

\* A node casts a vote: it had none in flight.
LEMMA NodeVotesKeepsCInv ==
    ASSUME CInv, NEW c \in Calls, NEW n \in Nodes, NEW v \in Votes, NodeVotes(c, n, v),
           IInv', PathInv'
    PROVE  CInv'
<1>1. /\ VotingRPC /\ AtWork(n) /\ NotVoting(n) /\ registered
      /\ call[c].pc = "idle" /\ call' = [call EXCEPT ![c] = At("vote", n, v, 0)]
      /\ UNCHANGED <<registered, state, subs, told, dropped>> /\ UNCHANGED request
  BY DEF NodeVotes, LookupVote
<1>2. UNCHANGED <<kind, rpc, failing, canceled, disk, phase, outdated, gen, repoGen, jobs, dbFailed>>
  BY <1>1 DEF request
<1>3. /\ call'[c].pc = "vote" /\ call'[c].node = n
      /\ \A d \in Calls : d # c => call'[d] = call[d]
  BY <1>1 DEF At, CInv, IInv, TypeOK
<1>4. /\ (UseTransaction' <=> UseTransaction) /\ (VotingRPC' <=> VotingRPC)
      /\ Destinations' = Destinations /\ Destinations = Nodes
  BY <1>1, <1>2 DEF UseTransaction, VotingRPC, Destinations
<1>5. phase = "proxying"
  BY <1>1 DEF CInv, CleanedUp, UseTransaction, VotingRPC
<1>6. VotesAnswered'
  BY <1>1, <1>2, <1>3, VotesSame
<1>7. DroppedAreLeftBehind'
  BY <1>1, <1>2, <1>3, DroppedKept DEF Dropping
<1>8. CTypeOK' /\ DisksFollowVotes' /\ CleanedUp'
  <2>1. failing' \in [Nodes -> {NoError, AppError, VoteError}]
    BY <1>2 DEF CInv, CTypeOK
  <2>2. CTypeOK' /\ DisksFollowVotes'
    BY <1>1, <1>2, <2>1, ProxyUndisturbed
  <2>3. CleanedUp'
    BY <1>2, <1>5 DEF CleanedUp
  <2> QED
    BY <2>2, <2>3
<1>9. FinalizersMatch'
  BY <1>2, <1>5 DEF CInv, FinalizersMatch, Finalized
<1>10. NodesWaitForVotes'
  <2>1. \A m : m # n /\ NotVoting(m) => NotVoting(m)'
    BY <1>3 DEF NotVoting
  <2>2. \A m : AppliedAll(m) => AppliedAll(m)'
    BY <1>1, <1>2 DEF AppliedAll
  <2>3. \A d, e \in Calls : d # e /\ call'[d].pc \in Voting /\ call'[e].pc \in Voting =>
          call'[d].node # call'[e].node
    <3>1. \A d \in Calls : d # c /\ call'[d].pc \in Voting => call'[d].node # n
      BY <1>1, <1>3 DEF NotVoting, Voting
    <3>2. \A d, e \in Calls : d # e /\ d # c /\ e # c /\ call'[d].pc \in Voting
             /\ call'[e].pc \in Voting => call'[d].node # call'[e].node
      BY <1>3 DEF CInv, NodesWaitForVotes, Voting
    <3> QED
      BY <1>3, <3>1, <3>2
  <2>4. failing[n] = NoError /\ rpc[n] \notin {NoError, AppError, VoteError, InitError}
    BY <1>1, ErrorsDiffer DEF AtWork
  <2>5. \A m \in Nodes : failing'[m] # NoError => NotVoting(m)'
    BY <1>2, <2>1, <2>4 DEF CInv, NodesWaitForVotes
  <2>6. \A m \in Destinations : rpc'[m] \in {NoError, AppError, VoteError, InitError} =>
          NotVoting(m)' /\ AppliedAll(m)'
    BY <1>2, <2>1, <2>2, <2>4 DEF CInv, NodesWaitForVotes
  <2>7. \A m \in Destinations : rpc'[m] = NoError => failing'[m] = NoError
    BY <1>2 DEF CInv, NodesWaitForVotes
  <2> QED
    BY <1>1, <1>4, <2>3, <2>5, <2>6, <2>7 DEF NodesWaitForVotes, Voting
<1> QED
  BY <1>6, <1>7, <1>8, <1>9, <1>10 DEF CInv

\* A node asks to stop the transaction.
LEMMA NodeStopsKeepsCInv ==
    ASSUME CInv, NEW c \in Calls, NEW n \in Nodes, NodeStops(c, n), IInv', PathInv'
    PROVE  CInv'
<1>1. /\ VotingRPC /\ AtWork(n) /\ NotVoting(n) /\ registered
      /\ call[c].pc = "idle" /\ call' = [call EXCEPT ![c] = At("stop", Primary, NoVote, 0)]
      /\ failing' = [failing EXCEPT ![n] = AppError]
      /\ UNCHANGED <<registered, state, subs, told, dropped>>
      /\ UNCHANGED <<kind, rpc, canceled, disk, phase, outdated, gen, repoGen, jobs, dbFailed>>
  BY DEF NodeStops, LookupStop
<1>2. call'[c].pc = "stop" /\ \A d \in Calls : d # c => call'[d] = call[d]
  BY <1>1 DEF At, CInv, IInv, TypeOK
<1>3. /\ (UseTransaction' <=> UseTransaction) /\ (VotingRPC' <=> VotingRPC)
      /\ Destinations' = Destinations /\ Destinations = Nodes
  BY <1>1 DEF UseTransaction, VotingRPC, Destinations
<1>4. phase = "proxying"
  BY <1>1 DEF CInv, CleanedUp, UseTransaction, VotingRPC
<1>5. /\ failing' \in [Nodes -> {NoError, AppError, VoteError}]
      /\ failing[n] = NoError /\ \A m \in Nodes : m # n => failing'[m] = failing[m]
  BY <1>1 DEF CInv, CTypeOK, AtWork
<1>6. VotesAnswered'
  BY <1>1, <1>2, <1>5, ErrorsDiffer, VotesSame
<1>7. DroppedAreLeftBehind'
  BY <1>1, <1>2, DroppedKept DEF Dropping
<1>8. CTypeOK' /\ DisksFollowVotes' /\ CleanedUp'
  <2>1. CTypeOK' /\ DisksFollowVotes'
    BY <1>1, <1>5, ProxyUndisturbed
  <2>2. CleanedUp'
    BY <1>1, <1>4 DEF CleanedUp
  <2> QED
    BY <2>1, <2>2
<1>9. FinalizersMatch'
  BY <1>1, <1>4 DEF CInv, FinalizersMatch, Finalized
<1>10. NodesWaitForVotes'
  <2>1. rpc[n] # NoError
    BY <1>1, ErrorsDiffer DEF AtWork
  <2>2. \A m \in Destinations : rpc'[m] = NoError => failing'[m] = NoError
    BY <1>1, <1>3, <1>5, <2>1 DEF CInv, NodesWaitForVotes
  <2>3. \A m \in Nodes : Len(disk'[m]) >= Len(disk[m])
    BY <1>1 DEF CInv, CTypeOK, Replicas
  <2>4. \A d \in Calls : call'[d].pc \in Voting => call'[d] = call[d]
    BY <1>2 DEF Voting
  <2> QED
    BY <1>1, <1>5, <2>2, <2>3, <2>4, NodesKept
<1> QED
  BY <1>6, <1>7, <1>8, <1>9, <1>10 DEF CInv

\* The error handler of a secondary starts to cancel its voter.
LEMMA ErrHandlerKeepsCInv ==
    ASSUME CInv, NEW c \in Calls, NEW n \in Nodes, ErrHandler(c, n), IInv', PathInv'
    PROVE  CInv'
<1>1. /\ phase = "proxying" /\ n \in Secondaries \ dropped /\ UseTransaction
      /\ rpc[n] \notin {Running, NoError}
      /\ \A d \in Calls : call[d].pc \notin Dropping
      /\ call[c].pc = "idle" /\ call' = [call EXCEPT ![c] = At("drop", n, NoVote, 0)]
      /\ UNCHANGED <<registered, state, subs, told, dropped>> /\ UNCHANGED request
  BY DEF ErrHandler, LookupDrop, Dropping
<1>2. UNCHANGED <<kind, rpc, failing, canceled, disk, phase, outdated, gen, repoGen, jobs, dbFailed>>
  BY <1>1 DEF request
<1>3. /\ call'[c].pc = "drop" /\ call'[c].node = n
      /\ \A d \in Calls : d # c => call'[d] = call[d]
  BY <1>1 DEF At, CInv, IInv, TypeOK
<1>4. /\ (UseTransaction' <=> UseTransaction) /\ (VotingRPC' <=> VotingRPC)
      /\ Destinations' = Destinations
  BY <1>1, <1>2 DEF UseTransaction, VotingRPC, Destinations
<1>5. VotesAnswered'
  BY <1>1, <1>2, <1>3, VotesSame
<1>6. CTypeOK' /\ DisksFollowVotes' /\ CleanedUp'
  <2>1. failing' \in [Nodes -> {NoError, AppError, VoteError}]
    BY <1>2 DEF CInv, CTypeOK
  <2>2. CTypeOK' /\ DisksFollowVotes'
    BY <1>1, <1>2, <2>1, ProxyUndisturbed
  <2>3. CleanedUp'
    BY <1>1, <1>2 DEF CleanedUp
  <2> QED
    BY <2>2, <2>3
<1>7. FinalizersMatch'
  BY <1>1, <1>2 DEF CInv, FinalizersMatch, Finalized
<1>8. NodesWaitForVotes'
  <2>1. \A d \in Calls : call'[d].pc \in Voting => call'[d] = call[d]
    BY <1>3 DEF Voting
  <2>2. \A m \in Nodes : Len(disk'[m]) >= Len(disk[m])
    BY <1>2 DEF CInv, CTypeOK, Replicas
  <2>3. \A m \in Destinations : rpc'[m] = NoError => failing'[m] = NoError
    BY <1>2 DEF CInv, NodesWaitForVotes
  <2> QED
    BY <1>1, <1>2, <2>1, <2>2, <2>3, NodesKept
<1>9. DroppedAreLeftBehind'
  <2>1. \A m : LeftBehind(m) => LeftBehind(m)'
    BY <1>1 DEF LeftBehind
  <2>2. \A d \in Calls : call'[d].pc \in Dropping => d = c
    BY <1>1, <1>3
  <2>3. \A m \in dropped : rpc[m] \notin {Running, NoError} /\ (rpc[m] \in Reported => LeftBehind(m)')
    BY <1>1, <2>1 DEF CInv, DroppedAreLeftBehind, Reported
  <2>4. \A d, e \in Calls : d # e /\ call'[d].pc \in Dropping => call'[e].pc \notin Dropping
    BY <2>2
  <2>5. \A d \in Calls : call'[d].pc \in Dropping =>
          /\ phase' = "proxying" /\ UseTransaction
          /\ call'[d].node \in Secondaries \ dropped'
          /\ rpc'[call'[d].node] \notin {Running, NoError}
    BY <1>1, <1>2, <1>3, <2>2
  <2>6. \A d \in Calls : call'[d].pc # "dropping"
    BY <1>3, <2>2 DEF Dropping
  <2> QED
    BY <1>1, <1>2, <1>4, <2>3, <2>4, <2>5, <2>6
       DEF DroppedAreLeftBehind, Dropping, Reported, LeftBehind
<1> QED
  BY <1>5, <1>6, <1>7, <1>8, <1>9 DEF CInv

-----------------------------------------------------------------------------
(* Steps of the proxy and of the finalizers *)

\* Streams that end, disks that grow and finalizers that run leave the transaction,
\* its votes and its error handlers alone.
LEMMA TransactionUndisturbed ==
    ASSUME CInv, UNCHANGED <<vars, kind, failing>>,
           phase' = phase \/ phase # "proxying",
           \A m \in Nodes : Len(disk'[m]) >= Len(disk[m]),
           \A m \in Destinations :
              /\ rpc'[m] = rpc[m] \/ rpc[m] = Running
              /\ rpc'[m] \in {NoError, AppError, VoteError, InitError} =>
                    rpc'[m] = rpc[m] \/ (NotVoting(m) /\ AppliedAll(m))
              /\ rpc'[m] = NoError => failing[m] = NoError
    PROVE  /\ IInv' /\ PathInv' /\ SubsEvolve
           /\ VotesAnswered' /\ NodesWaitForVotes' /\ DroppedAreLeftBehind'
<1>1. UNCHANGED <<registered, state, subs, call, told, dropped>>
  BY DEF vars
<1>2. IInv' /\ PathInv' /\ SubsEvolve
  BY NextKeepsIInv, NextKeepsPath DEF CInv
<1>3. VotesAnswered'
  BY <1>1, VotesSame
<1>4. NodesWaitForVotes'
  BY <1>1, NodesKept
<1>5. DroppedAreLeftBehind'
  BY <1>1, DroppedKept
<1> QED
  BY <1>2, <1>3, <1>4, <1>5

\* While the streams are served nothing is cleaned up or recorded.
LEMMA NothingRecorded ==
    ASSUME CInv, phase = "proxying",
           UNCHANGED <<phase, outdated, gen, repoGen, jobs, dbFailed>>
    PROVE  CleanedUp' /\ FinalizersMatch'
BY DEF CInv, CleanedUp, FinalizersMatch, Finalized

\* A node writes what it was told to commit.
LEMMA NodeAppliesKeepsCInv ==
    ASSUME CInv, NEW n \in Nodes, NodeApplies(n)
    PROVE  CInv'
<1>1. PICK v \in Votes : /\ <<n, Len(disk[n]) + 1, v>> \in told
                         /\ disk' = [disk EXCEPT ![n] = Append(@, v)]
  BY DEF NodeApplies
<1>2. UNCHANGED <<kind, vars, rpc, failing, canceled, phase, outdated, gen, repoGen, jobs, dbFailed>>
  BY DEF NodeApplies
<1>3. UNCHANGED <<registered, state, subs, call, told, dropped>>
  BY <1>2 DEF vars
<1>4. n \in Replicas /\ Nodes \subseteq Replicas /\ disk \in [Replicas -> Seq(Votes)]
  BY DEF Replicas, CInv, CTypeOK
<1>5. /\ disk' \in [Replicas -> Seq(Votes)] /\ disk'[n] = Append(disk[n], v)
      /\ \A m \in Replicas : m # n => disk'[m] = disk[m]
  BY <1>1, <1>4
<1>6. disk[n] \in Seq(Votes) /\ \A m \in Nodes : Len(disk'[m]) >= Len(disk[m])
  <2>1. disk[n] \in Seq(Votes)
    BY <1>4
  <2>2. Len(disk'[n]) = Len(disk[n]) + 1
    BY <1>5, <2>1
  <2>3. \A m \in Nodes : Len(disk[m]) \in Nat
    BY <1>4
  <2>4. \A m \in Nodes : m # n => Len(disk'[m]) = Len(disk[m])
    BY <1>4, <1>5
  <2> QED
    BY <2>1, <2>2, <2>3, <2>4
<1>7. /\ IInv' /\ PathInv' /\ SubsEvolve
      /\ VotesAnswered' /\ NodesWaitForVotes' /\ DroppedAreLeftBehind'
  <2>1. \A m \in Destinations : rpc[m] = NoError => failing[m] = NoError
    BY DEF CInv, NodesWaitForVotes
  <2> QED
    BY <1>2, <1>6, <2>1, TransactionUndisturbed
<1>8. VotingRPC /\ VotingRPC' /\ Destinations' = Destinations
  BY <1>1, <1>2 DEF CInv, NodesWaitForVotes, VotingRPC, Destinations, UseTransaction
<1>9. CTypeOK'
  BY <1>2, <1>5, <1>8 DEF CInv, CTypeOK
<1>11. DisksFollowVotes'
  <2>1. ASSUME NEW m \in Replicas, NEW k \in 1 .. Len(disk'[m])
        PROVE  m \in Nodes /\ <<m, k, disk'[m][k]>> \in told
    <3>1. CASE m # n
      BY <1>5, <1>8, <2>1, <3>1 DEF CInv, DisksFollowVotes
    <3>2. CASE m = n
      <4>1. k \in 1 .. Len(disk[n]) \/ k = Len(disk[n]) + 1
        BY <1>5, <1>6, <2>1, <3>2
      <4>2. CASE k \in 1 .. Len(disk[n])
        <5>1. disk'[n][k] = disk[n][k]
          BY <1>5, <1>6, <4>2
        <5> QED
          BY <1>4, <1>8, <3>2, <4>2, <5>1 DEF CInv, DisksFollowVotes
      <4>3. CASE k = Len(disk[n]) + 1
        <5>1. disk'[n][k] = v
          BY <1>5, <1>6, <4>3
        <5> QED
          BY <1>1, <3>2, <4>3, <5>1
      <4> QED
        BY <4>1, <4>2, <4>3
    <3> QED
      BY <3>1, <3>2
  <2> QED
    BY <1>3, <1>8, <2>1 DEF DisksFollowVotes
<1>12. phase # "proxying" => SameOutcome
  BY <1>2, <1>3, <1>7, Frozen
<1>13. FinalizersMatch'
  BY <1>2, <1>7, <1>12, FinalizersUndisturbed
<1>14. CleanedUp'
  <2>1. CASE phase = "proxying"
    BY <1>2, <2>1 DEF CleanedUp
  <2>2. CASE phase # "proxying"
    BY <1>2, <1>3, <1>7, <1>12, <2>2, CleanedUpStays
  <2> QED
    BY <2>1, <2>2
<1> QED
  BY <1>7, <1>9, <1>11, <1>13, <1>14 DEF CInv

\* Without a transaction only the primary writes.
LEMMA NodeAppliesUnvotedKeepsCInv ==
    ASSUME CInv, NEW n \in Nodes, NEW v \in Votes, NodeAppliesUnvoted(n, v)
    PROVE  CInv'
<1>1. /\ ~VotingRPC /\ n \in Destinations /\ phase = "proxying" /\ disk[n] = << >>
      /\ disk' = [disk EXCEPT ![n] = <<v>>]
      /\ UNCHANGED <<kind, vars, rpc, failing, canceled, phase, outdated, gen, repoGen, jobs, dbFailed>>
  BY DEF NodeAppliesUnvoted
<1>2. n = Primary /\ ~VotingRPC' /\ Destinations' = Destinations
  BY <1>1 DEF CInv, CTypeOK, VotingRPC, Destinations, UseTransaction
<1>3. n \in Replicas /\ Nodes \subseteq Replicas /\ disk \in [Replicas -> Seq(Votes)]
  BY DEF Replicas, CInv, CTypeOK
<1>4. /\ disk' \in [Replicas -> Seq(Votes)] /\ disk'[n] = <<v>>
      /\ \A m \in Replicas : m # n => disk'[m] = disk[m]
  BY <1>1, <1>3
<1>5. \A m \in Nodes : Len(disk'[m]) >= Len(disk[m])
  <2>1. Len(disk'[n]) = 1 /\ Len(disk[n]) = 0
    BY <1>1, <1>4
  <2>2. \A m \in Nodes : Len(disk[m]) \in Nat
    BY <1>3
  <2>3. \A m \in Nodes : m # n => Len(disk'[m]) = Len(disk[m])
    BY <1>3, <1>4
  <2> QED
    BY <2>1, <2>2, <2>3
<1>6. /\ IInv' /\ PathInv' /\ SubsEvolve
      /\ VotesAnswered' /\ NodesWaitForVotes' /\ DroppedAreLeftBehind'
  <2>1. \A m \in Destinations : rpc[m] = NoError => failing[m] = NoError
    BY DEF CInv, NodesWaitForVotes
  <2> QED
    BY <1>1, <1>5, <2>1, TransactionUndisturbed
<1>7. CTypeOK'
  BY <1>1, <1>2, <1>4 DEF CInv, CTypeOK
<1>9. DisksFollowVotes'
  BY <1>1, <1>2, <1>4 DEF CInv, DisksFollowVotes
<1>10. CleanedUp' /\ FinalizersMatch'
  BY <1>1, NothingRecorded
<1> QED
  BY <1>6, <1>7, <1>9, <1>10 DEF CInv

\* A stream ends, with an error only if the node reported it, the connection broke
\* or the streams were canceled.
LEMMA StreamEndsKeepsCInv ==
    ASSUME CInv, NEW n \in Destinations, NEW e \in Endings, StreamEnds(n, e),
           e \in {NoError, AppError, VoteError} => NotVoting(n) /\ AppliedAll(n),
           e = NoError => failing[n] = NoError,
           e # InitError
    PROVE  CInv'
<1>1. /\ phase = "proxying" /\ rpc[n] = Running
      /\ rpc' = [rpc EXCEPT ![n] = e]
      /\ canceled' = IF canceled = "no" /\ n = Primary /\ e # NoError THEN "primary" ELSE canceled
      /\ UNCHANGED <<kind, vars, failing, disk, phase, outdated, gen, repoGen, jobs, dbFailed>>
  BY DEF StreamEnds
<1>2. Destinations' = Destinations /\ (VotingRPC' <=> VotingRPC) /\ DOMAIN rpc = Destinations
  BY <1>1 DEF CInv, CTypeOK, VotingRPC, Destinations, UseTransaction
<1>3. /\ DOMAIN rpc' = Destinations /\ rpc'[n] = e
      /\ \A m \in Destinations : m # n => rpc'[m] = rpc[m]
  BY <1>1, <1>2
<1>4. e # Running
  BY ErrorsDiffer DEF Endings, CutErrors
<1>5. /\ IInv' /\ PathInv' /\ SubsEvolve
      /\ VotesAnswered' /\ NodesWaitForVotes' /\ DroppedAreLeftBehind'
  <2>1. \A m \in Nodes : Len(disk'[m]) >= Len(disk[m])
    BY <1>1 DEF CInv, CTypeOK, Replicas
  <2>2. \A m \in Destinations : rpc'[m] = NoError => failing[m] = NoError
    BY <1>3 DEF CInv, NodesWaitForVotes
  <2>3. \A m \in Destinations :
              /\ rpc'[m] = rpc[m] \/ rpc[m] = Running
              /\ rpc'[m] \in {NoError, AppError, VoteError, InitError} =>
                    rpc'[m] = rpc[m] \/ (NotVoting(m) /\ AppliedAll(m))
    BY <1>1, <1>3
  <2> QED
    BY <1>1, <2>1, <2>2, <2>3, TransactionUndisturbed
<1>6. CTypeOK'
  <2>1. \A m \in Destinations : rpc'[m] \in {Running} \union Endings
    BY <1>3 DEF CInv, CTypeOK
  <2>2. canceled' \in {"no", "client", "primary"}
    BY <1>1 DEF CInv, CTypeOK
  <2> QED
    BY <1>1, <1>2, <1>3, <2>1, <2>2 DEF CInv, CTypeOK
<1>8. DisksFollowVotes'
  BY <1>1, <1>2 DEF CInv, DisksFollowVotes, vars
<1>9. CleanedUp' /\ FinalizersMatch'
  BY <1>1, NothingRecorded
<1> QED
  BY <1>5, <1>6, <1>8, <1>9 DEF CInv

\* The node's own answer, a broken connection and a canceled stream.
LEMMA NodeReturnsKeepsCInv ==
    ASSUME CInv, NEW n \in Destinations, NodeReturns(n) \/ NodeLost(n)
    PROVE  CInv'
<1>1. n \in Nodes /\ failing[n] \in {NoError, AppError, VoteError}
  BY DEF Destinations, Nodes, CInv, CTypeOK
<1>2. CASE NodeSucceeds(n)
  BY <1>2, ErrorsDiffer, StreamEndsKeepsCInv DEF NodeSucceeds, Endings
<1>3. CASE NodeFails(n)
  <2>1. PICK e : e = IF failing[n] = NoError THEN AppError ELSE failing[n]
    OBVIOUS
  <2>2. e \in {AppError, VoteError} /\ NotVoting(n) /\ AppliedAll(n) /\ StreamEnds(n, e)
    BY <1>1, <1>3, <2>1 DEF NodeFails
  <2>3. e \in Endings /\ e # NoError /\ e # InitError
    BY <2>2, ErrorsDiffer DEF Endings
  <2> QED
    BY <2>2, <2>3, StreamEndsKeepsCInv
<1>4. CASE NodeLost(n)
  <2>1. PICK e \in LostErrors : StreamEnds(n, e)
    BY <1>4 DEF NodeLost
  <2>2. e \in Endings /\ e \notin {NoError, AppError, VoteError, InitError}
    BY <2>1, ErrorsDiffer DEF Endings, CutErrors
  <2> QED
    BY <2>1, <2>2, StreamEndsKeepsCInv
<1>5. CASE NodeCanceled(n)
  <2>1. CanceledError \in Endings
    BY DEF Endings, CutErrors
  <2> QED
    BY <1>5, <2>1, ErrorsDiffer, StreamEndsKeepsCInv DEF NodeCanceled
<1> QED
  BY <1>2, <1>3, <1>4, <1>5 DEF NodeReturns

\* No stream was opened: no node has voted or written.
LEMMA StreamInitFailsKeepsCInv ==
    ASSUME CInv, StreamInitFails
    PROVE  CInv'
<1>1. /\ phase = "proxying"
      /\ \A m \in Destinations : rpc[m] = Running
      /\ \A c \in Calls : call[c].pc = "idle"
      /\ subs = << >>
      /\ rpc' = [m \in DOMAIN rpc |-> InitError]
      /\ canceled' = "primary"
      /\ UNCHANGED <<kind, vars, failing, disk, phase, outdated, gen, repoGen, jobs, dbFailed>>
  BY DEF StreamInitFails
<1>2. Destinations' = Destinations /\ (VotingRPC' <=> VotingRPC) /\ DOMAIN rpc = Destinations
  BY <1>1 DEF CInv, CTypeOK, VotingRPC, Destinations, UseTransaction
<1>3. DOMAIN rpc' = Destinations /\ \A m \in Destinations : rpc'[m] = InitError
  BY <1>1, <1>2
<1>4. told = {}
  <2>1. \A t \in told : t[2] \in 1 .. Len(subs)
    BY DEF CInv, IInv, ToldIsFinal
  <2>2. Len(subs) = 0
    BY <1>1
  <2>3. 1 .. 0 = {}
    OBVIOUS
  <2> QED
    BY <2>1, <2>2, <2>3
<1>5. \A m : NotVoting(m) /\ AppliedAll(m)
  BY <1>1, <1>4 DEF NotVoting, AppliedAll
<1>6. /\ IInv' /\ PathInv' /\ SubsEvolve
      /\ VotesAnswered' /\ NodesWaitForVotes' /\ DroppedAreLeftBehind'
  <2>1. \A m \in Nodes : Len(disk'[m]) >= Len(disk[m])
    BY <1>1 DEF CInv, CTypeOK, Replicas
  <2> QED
    BY <1>1, <1>3, <1>5, <2>1, ErrorsDiffer, TransactionUndisturbed
<1>7. CTypeOK'
  <2>1. \A m \in Destinations : rpc'[m] \in {Running} \union Endings
    BY <1>3 DEF Endings
  <2> QED
    BY <1>1, <1>2, <1>3, <2>1 DEF CInv, CTypeOK
<1>9. DisksFollowVotes'
  BY <1>1, <1>2 DEF CInv, DisksFollowVotes, vars
<1>10. CleanedUp' /\ FinalizersMatch'
  BY <1>1, NothingRecorded
<1> QED
  BY <1>6, <1>7, <1>9, <1>10 DEF CInv

\* The client goes away.
LEMMA ClientCancelsKeepsCInv ==
    ASSUME CInv, ClientCancels
    PROVE  CInv'
<1>1. /\ phase = "proxying" /\ canceled' = "client"
      /\ UNCHANGED <<kind, vars, rpc, failing, disk, phase, outdated, gen, repoGen, jobs, dbFailed>>
  BY DEF ClientCancels
<1>2. Destinations' = Destinations /\ (VotingRPC' <=> VotingRPC)
  BY <1>1 DEF VotingRPC, Destinations, UseTransaction
<1>3. /\ IInv' /\ PathInv' /\ SubsEvolve
      /\ VotesAnswered' /\ NodesWaitForVotes' /\ DroppedAreLeftBehind'
  <2>1. \A m \in Nodes : Len(disk'[m]) >= Len(disk[m])
    BY <1>1 DEF CInv, CTypeOK, Replicas
  <2>2. \A m \in Destinations : rpc[m] = NoError => failing[m] = NoError
    BY DEF CInv, NodesWaitForVotes
  <2> QED
    BY <1>1, <2>1, <2>2, TransactionUndisturbed
<1>4. CTypeOK'
  BY <1>1, <1>2 DEF CInv, CTypeOK
<1>6. DisksFollowVotes'
  BY <1>1, <1>2 DEF CInv, DisksFollowVotes, vars
<1>7. CleanedUp' /\ FinalizersMatch'
  BY <1>1, NothingRecorded
<1> QED
  BY <1>3, <1>4, <1>6, <1>7 DEF CInv

\* transactionCleanup: all subtransactions are closed; nobody is left that could
\* cancel a voter.
LEMMA CleanupKeepsCInv ==
    ASSUME CInv, Cleanup, SubsEvolve, IInv', PathInv'
    PROVE  CInv'
<1>1. /\ phase = "proxying" /\ Proxied /\ phase' = "finalize"
      /\ IF UseTransaction THEN CancelTransaction ELSE UNCHANGED vars
      /\ UNCHANGED <<kind, rpc, failing, canceled, disk, outdated, gen, repoGen, jobs, dbFailed>>
  BY DEF Cleanup
<1>2. UNCHANGED <<call, told, dropped>>
  BY <1>1 DEF CancelTransaction, vars
<1>3. /\ Destinations' = Destinations /\ (VotingRPC' <=> VotingRPC)
      /\ (UseTransaction' <=> UseTransaction)
  BY <1>1 DEF VotingRPC, Destinations, UseTransaction
<1>4. \A c \in Calls : call[c].pc \notin Dropping
  BY <1>1 DEF Proxied, CInv, DroppedAreLeftBehind, Dropping
<1>5. Len(subs) \in Nat /\ \A k \in 1 .. Len(subs) :
        SubOK(subs[k]) /\ OutcomeOK(subs[k]) /\ DecidedOnce(subs[k])
  BY DEF CInv, IInv, TypeOK, PathInv, VotesAnswered
<1>6. /\ Len(subs') = Len(subs)
      /\ \A k \in 1 .. Len(subs) :
            /\ DecidedOnce(subs'[k]) /\ subs'[k].vote = subs[k].vote
            /\ UseTransaction => \A m \in Nodes : subs'[k].result[m] # "undecided"
  <2>1. CASE UseTransaction
    <3>1. subs' = [i \in 1 .. Len(subs) |-> Close(subs[i], "canceled")]
      BY <1>1, <2>1 DEF CancelTransaction
    <3>2. Len(subs') = Len(subs) /\ \A k \in 1 .. Len(subs) : subs'[k] = Close(subs[k], "canceled")
      BY <1>5, <3>1
    <3> QED
      BY <1>5, <3>2, CloseDecides, CloseOutcome
  <2>2. CASE ~UseTransaction
    BY <1>1, <1>5, <2>2 DEF vars
  <2> QED
    BY <2>1, <2>2
<1>7. VotesAnswered'
  <2>1. /\ \A k \in 1 .. Len(subs') : DecidedOnce(subs'[k])
        /\ \A k \in 1 .. Len(subs') : \A m \in Nodes : subs'[k].vote[m] # NoVote =>
              k \in 1 .. Len(subs) /\ subs[k].vote[m] # NoVote
    BY <1>6
  <2> QED
    BY <1>1, <1>2, <2>1, VotesUntouched DEF CInv
<1>8. NodesWaitForVotes'
  <2>1. \A m \in Nodes : Len(disk'[m]) >= Len(disk[m])
    BY <1>1 DEF CInv, CTypeOK, Replicas
  <2>2. \A m \in Destinations : rpc[m] = NoError => failing[m] = NoError
    BY DEF CInv, NodesWaitForVotes
  <2> QED
    BY <1>1, <1>2, <2>1, <2>2, NodesKept
<1>9. DroppedAreLeftBehind'
  <2>1. ASSUME UseTransaction, NEW m \in dropped
        PROVE  rpc[m] \notin {Running, NoError} /\ (rpc[m] \in Reported => LeftBehind(m)')
    <3>1. rpc[m] \notin {Running, NoError} /\ (rpc[m] \in Reported => LeftBehind(m))
      BY <2>1 DEF CInv, DroppedAreLeftBehind, Reported
    <3>2. m \in Nodes /\ IInv
      BY <2>1 DEF CInv, IInv, TypeOK, Nodes
    <3> QED
      BY <1>6, <3>1, <3>2, LeftBehindStays
  <2>2. \A c \in Calls : call'[c].pc \notin Dropping
    BY <1>2, <1>4
  <2> QED
    BY <1>1, <1>2, <1>3, <2>1, <2>2 DEF DroppedAreLeftBehind, Dropping, Reported, LeftBehind
<1>10. CTypeOK'
  BY <1>1, <1>3 DEF CInv, CTypeOK
<1>11. DisksFollowVotes'
  BY <1>1, <1>2, <1>3 DEF CInv, DisksFollowVotes
<1>13. CleanedUp'
  <2>1. Proxied'
    BY <1>1, <1>2, <1>3 DEF Proxied
  <2>2. UseTransaction => state' # "open" /\ ~registered'
    BY <1>1 DEF CancelTransaction
  <2> QED
    BY <1>3, <1>6, <2>1, <2>2 DEF CleanedUp
<1>14. FinalizersMatch'
  BY <1>1 DEF CInv, FinalizersMatch, Finalized
<1> QED
  BY <1>7, <1>8, <1>9, <1>10, <1>11, <1>13, <1>14 DEF CInv

\* The finalizers after the cleanup.
LEMMA FinalizerKeepsCInv ==
    ASSUME CInv, Decide \/ IncrementGeneration \/ IncrementGenerationFails \/ EnqueueJobs
    PROVE  CInv'
<1>1. /\ phase \in {"finalize", "record", "enqueue"} /\ phase' \in {"record", "enqueue", "done"}
      /\ UNCHANGED <<kind, vars, rpc, failing, canceled, disk>>
  BY DEF Decide, IncrementGeneration, IncrementGenerationFails, EnqueueJobs
<1>2. UNCHANGED <<registered, state, subs, call, told, dropped>>
  BY <1>1 DEF vars
<1>3. /\ Destinations' = Destinations /\ (VotingRPC' <=> VotingRPC)
  BY <1>1 DEF VotingRPC, Destinations, UseTransaction
<1>4. /\ IInv' /\ PathInv' /\ SubsEvolve
      /\ VotesAnswered' /\ NodesWaitForVotes' /\ DroppedAreLeftBehind'
  <2>1. \A m \in Nodes : Len(disk'[m]) >= Len(disk[m])
    BY <1>1 DEF CInv, CTypeOK, Replicas
  <2>2. \A m \in Destinations : rpc[m] = NoError => failing[m] = NoError
    BY DEF CInv, NodesWaitForVotes
  <2> QED
    BY <1>1, <2>1, <2>2, TransactionUndisturbed
<1>5. SameOutcome
  BY <1>1, <1>2, <1>4, Frozen
<1>6. CleanedUp'
  BY <1>1, <1>2, <1>4, <1>5, CleanedUpStays
<1>7. DisksFollowVotes'
  BY <1>1, <1>2, <1>3 DEF CInv, DisksFollowVotes
<1>9. (Dirtied' <=> Dirtied) /\ OutdatedReplicas' = OutdatedReplicas
  BY <1>4, <1>5, SameVerdict DEF CInv
<1>10. /\ outdated' \subseteq Replicas /\ jobs' \subseteq Replicas
       /\ gen' \in [Replicas -> Nat] /\ repoGen' \in Nat /\ dbFailed' \in BOOLEAN
       /\ FinalizersMatch'
  <2>0. /\ outdated \subseteq Replicas /\ jobs \subseteq Replicas
        /\ gen \in [Replicas -> Nat] /\ repoGen \in Nat /\ dbFailed \in BOOLEAN
    BY DEF CInv, CTypeOK
  <2>1. CASE Decide
    <3>1. /\ phase = "finalize"
          /\ IF Dirtied THEN phase' = "record" /\ outdated' = OutdatedReplicas
                        ELSE phase' = "done" /\ outdated' = outdated
          /\ UNCHANGED <<gen, repoGen, jobs, dbFailed>>
      BY <2>1 DEF Decide, Dirtied
    <3>2. OutdatedReplicas \subseteq Replicas
      BY DEF OutdatedReplicas, Replicas, Nodes
    <3>3. FinalizersMatch'
      BY <1>9, <3>1 DEF CInv, FinalizersMatch, Finalized
    <3> QED
      BY <2>0, <3>1, <3>2, <3>3
  <2>2. CASE IncrementGeneration
    <3>1. /\ phase = "record" /\ phase' = "enqueue"
          /\ gen' = [n \in Replicas |-> IF n \in ToIncrement THEN gen[n] + 1 ELSE gen[n]]
          /\ repoGen' = repoGen + 1
          /\ UNCHANGED <<outdated, jobs, dbFailed>>
      BY <2>2 DEF IncrementGeneration
    <3>2. /\ repoGen = 1 /\ gen = [n \in Replicas |-> IF n \in Nodes THEN 1 ELSE 0]
          /\ Dirtied /\ outdated = OutdatedReplicas
      BY <3>1 DEF CInv, FinalizersMatch
    <3>3. \A n \in Replicas : gen'[n] = repoGen' => n \in ToIncrement
      BY <3>1, <3>2
    <3>4. \A n \in Replicas : gen'[n] = repoGen' => n \in Nodes \ outdated'
      BY <3>1, <3>3 DEF ToIncrement
    <3>5. FinalizersMatch'
      BY <1>9, <3>1, <3>2, <3>4 DEF FinalizersMatch, Finalized
    <3>6. gen' \in [Replicas -> Nat] /\ repoGen' \in Nat
      BY <2>0, <3>1
    <3> QED
      BY <2>0, <3>1, <3>5, <3>6
  <2>3. CASE IncrementGenerationFails
    <3>1. /\ phase = "record" /\ phase' = "done" /\ dbFailed' = TRUE
          /\ UNCHANGED <<outdated, gen, repoGen, jobs>>
      BY <2>3 DEF IncrementGenerationFails
    <3>2. FinalizersMatch'
      BY <1>9, <3>1 DEF CInv, FinalizersMatch, Finalized
    <3> QED
      BY <2>0, <3>1, <3>2
  <2>4. CASE EnqueueJobs
    <3>1. PICK X \in SUBSET outdated :
             jobs' = jobs \union X /\ dbFailed' = (dbFailed \/ X # outdated)
      BY <2>4 DEF EnqueueJobs
    <3>2. /\ phase = "enqueue" /\ phase' = "done"
          /\ UNCHANGED <<outdated, gen, repoGen>>
      BY <2>4 DEF EnqueueJobs
    <3>3. ~dbFailed' => outdated \subseteq jobs'
      BY <3>1
    <3>4. FinalizersMatch'
      BY <1>9, <3>2, <3>3 DEF CInv, FinalizersMatch, Finalized
    <3>5. jobs' \subseteq Replicas /\ dbFailed' \in BOOLEAN
      BY <2>0, <3>1
    <3> QED
      BY <2>0, <3>2, <3>4, <3>5
  <2> QED
    BY <2>1, <2>2, <2>3, <2>4
<1>11. CTypeOK'
  BY <1>1, <1>3, <1>10 DEF CInv, CTypeOK
<1> QED
  BY <1>4, <1>6, <1>7, <1>10, <1>11 DEF CInv

-----------------------------------------------------------------------------
(* The inductive invariant *)

\* A request starts with an open transaction in which nobody has voted.
LEMMA InitCInv ==
    ASSUME "unvoted" \notin Kinds, CInit
    PROVE  CInv
<1>1. /\ Init /\ subs = << >> /\ told = {} /\ dropped = {}
      /\ \A c \in Calls : call[c].pc = "idle"
  BY DEF CInit, Init, Idle, At
<1>2. Len(subs) = 0 /\ 1 .. 0 = {}
  BY <1>1
<1>3. kind \in {"voting", "single"}
  BY FlagsAssumption DEF CInit
<1>4. CTypeOK
  <2>1. << >> \in Seq(Votes)
    OBVIOUS
  <2> QED
    BY <1>3, <2>1 DEF CInit, CTypeOK, Replicas
<1>5. VotesAnswered
  BY <1>2 DEF VotesAnswered
<1>6. NodesWaitForVotes
  BY <1>1, ErrorsDiffer DEF CInit, NodesWaitForVotes, NotVoting
<1>7. DisksFollowVotes
  <2>1. \A n \in Replicas : disk[n] = << >> /\ Len(disk[n]) = 0
    BY DEF CInit
  <2> QED
    BY <1>2, <2>1 DEF DisksFollowVotes
<1>9. DroppedAreLeftBehind
  BY <1>1 DEF DroppedAreLeftBehind
<1>10. CleanedUp /\ FinalizersMatch
  BY DEF CInit, CleanedUp, FinalizersMatch, Finalized
<1> QED
  BY <1>1, <1>4, <1>5, <1>6, <1>7, <1>9, <1>10, InitIInv, InitPathInv DEF CInv

\* Every step of the request keeps the invariant.
LEMMA NextKeepsCInv == CInv /\ [CNext]_cvars => CInv'
<1> SUFFICES ASSUME CInv, [CNext]_cvars PROVE CInv'
  OBVIOUS
<1>1. IInv' /\ PathInv' /\ SubsEvolve
  BY RequestTransacts, NextKeepsIInv, NextKeepsPath DEF CInv
<1>2. CASE \E c \in Calls, n \in Nodes, v \in Votes : NodeVotes(c, n, v)
  BY <1>1, <1>2, NodeVotesKeepsCInv
<1>3. CASE \E c \in Calls, n \in Nodes : NodeStops(c, n)
  BY <1>1, <1>3, NodeStopsKeepsCInv
<1>4. CASE \E c \in Calls, n \in Nodes : ErrHandler(c, n)
  BY <1>1, <1>4, ErrHandlerKeepsCInv
<1>5. CASE \E c \in Calls : ServeCall(c)
  BY <1>1, <1>5, ServeKeepsCInv
<1>6. CASE \E n \in Nodes : NodeApplies(n)
  BY <1>6, NodeAppliesKeepsCInv
<1>7. CASE \E n \in Nodes, v \in Votes : NodeAppliesUnvoted(n, v)
  BY <1>7, NodeAppliesUnvotedKeepsCInv
<1>8. CASE \E n \in Destinations : NodeReturns(n) \/ NodeLost(n)
  BY <1>8, NodeReturnsKeepsCInv
<1>9. CASE StreamInitFails
  BY <1>9, StreamInitFailsKeepsCInv
<1>10. CASE ClientCancels
  BY <1>10, ClientCancelsKeepsCInv
<1>11. CASE Cleanup
  BY <1>1, <1>11, CleanupKeepsCInv
<1>12. CASE Decide \/ IncrementGeneration \/ IncrementGenerationFails \/ EnqueueJobs
  BY <1>12, FinalizerKeepsCInv
<1>13. CASE UNCHANGED cvars
  <2>1. UNCHANGED <<registered, state, subs, call, told, dropped>>
    BY <1>13 DEF cvars, vars
  <2>2. UNCHANGED <<kind, rpc, failing, canceled, disk, phase, outdated, gen, repoGen, jobs, dbFailed>>
    BY <1>13 DEF cvars, request
  <2>3. \A m \in Destinations : rpc[m] = NoError => failing[m] = NoError
    BY DEF CInv, NodesWaitForVotes
  <2>4. \A m \in Nodes : Len(disk'[m]) >= Len(disk[m])
    BY <2>2 DEF CInv, CTypeOK, Replicas
  <2>5. VotesAnswered' /\ NodesWaitForVotes' /\ DroppedAreLeftBehind'
    BY <1>13, <2>2, <2>3, <2>4, TransactionUndisturbed DEF cvars
  <2>6. CTypeOK' /\ DisksFollowVotes'
    <3>1. failing' \in [Nodes -> {NoError, AppError, VoteError}]
      BY <2>2 DEF CInv, CTypeOK
    <3> QED
      BY <2>1, <2>2, <3>1, ProxyUndisturbed
  <2>7. phase # "proxying" => SameOutcome
    BY <1>1, <2>1, <2>2, Frozen
  <2>8. FinalizersMatch'
    BY <1>1, <2>2, <2>7, FinalizersUndisturbed
  <2>9. CleanedUp'
    <3>1. CASE phase = "proxying"
      BY <2>2, <3>1 DEF CleanedUp
    <3>2. CASE phase # "proxying"
      BY <1>1, <2>1, <2>2, <2>7, <3>2, CleanedUpStays
    <3> QED
      BY <3>1, <3>2
  <2> QED
    BY <1>1, <2>5, <2>6, <2>8, <2>9 DEF CInv
<1> QED
  BY <1>2, <1>3, <1>4, <1>5, <1>6, <1>7, <1>8, <1>9, <1>10, <1>11, <1>12, <1>13
     DEF CNext, Finalize

\* The invariant holds in every reachable state.
LEMMA CInvAlways ==
    ASSUME "unvoted" \notin Kinds
    PROVE  CSpec => []CInv
<1>1. CInit => CInv
  BY InitCInv
<1> QED
  BY <1>1, NextKeepsCInv, PTL DEF CSpec

-----------------------------------------------------------------------------
(* What an outcome says about the disks *)

\* Whoever committed a subtransaction voted as the primary did, and committed all
\* earlier ones.
LEMMA CommittedWithPrimary ==
    ASSUME CInv, NEW i \in 1 .. Len(subs), NEW m \in Nodes, subs[i].result[m] = "committed"
    PROVE  /\ subs[i].vote[m] \in Votes /\ subs[i].vote[Primary] = subs[i].vote[m]
           /\ \A k \in 1 .. i : subs[k].result[m] = "committed"
<1>1. SubOK(subs[i]) /\ Len(subs) \in Nat
  BY DEF CInv, IInv, TypeOK
<1>2. subs[i].vote[m] \in Votes /\ HasQuorum(subs[i], subs[i].vote[m])
  BY <1>1 DEF SubOK
<1>3. subs[i].vote[Primary] = subs[i].vote[m]
  BY <1>1, <1>2, QuorumHasPrimaryVote
<1>4. CommittedEarlier(m, i)
  BY <1>2, VotesAssumption DEF CInv, PathInv
<1> QED
  BY <1>1, <1>2, <1>3, <1>4 DEF CommittedEarlier

\* A node that committed the last subtransaction and succeeded has written all votes.
LEMMA CommittedIsApplied ==
    ASSUME CInv, VotingRPC, NEW m \in Nodes, Len(subs) # 0, NodeState(m) = "committed",
           rpc[m] = NoError
    PROVE  /\ Len(disk[m]) = Len(subs)
           /\ \A k \in 1 .. Len(subs) : disk[m][k] = subs[k].vote[Primary]
<1>1. Len(subs) \in Nat /\ Len(subs) \in 1 .. Len(subs) /\ m \in Destinations /\ m \in Replicas
  BY DEF CInv, IInv, TypeOK, VotingRPC, Destinations, UseTransaction, Replicas
<1>2. disk[m] \in Seq(Votes) /\ Len(disk[m]) \in Nat
  BY <1>1 DEF CInv, CTypeOK
<1>3. \A k \in 1 .. Len(subs) : subs[k].result[m] = "committed"
  BY <1>1, CommittedWithPrimary DEF NodeState
<1>4. NotVoting(m) /\ AppliedAll(m) /\ failing[m] # VoteError
  BY <1>1, ErrorsDiffer DEF CInv, NodesWaitForVotes
<1>5. \A k \in 1 .. Len(subs) : subs[k].vote[m] # NoVote /\ subs[k].vote[m] = subs[k].vote[Primary]
  BY <1>3, CommittedWithPrimary, VotesAssumption
<1>6. \A k \in 1 .. Len(subs) : Told(m, k)
  <2>1. \A k : ~Collects(m, k)
    BY <1>4 DEF NotVoting, Collects
  <2> QED
    BY <1>4, <1>5, <2>1 DEF CInv, VotesAnswered
<1>7. Len(subs) <= Len(disk[m])
  <2>1. PICK v \in Votes : <<m, Len(subs), v>> \in told
    BY <1>1, <1>6 DEF Told
  <2> QED
    BY <1>4, <2>1 DEF AppliedAll
<1>8. \A k \in 1 .. Len(disk[m]) : k \in 1 .. Len(subs) /\ subs[k].vote[m] = disk[m][k]
  <2>1. \A k \in 1 .. Len(disk[m]) : <<m, k, disk[m][k]>> \in told
    BY <1>1 DEF CInv, DisksFollowVotes
  <2> QED
    BY <2>1 DEF CInv, IInv, ToldIsFinal
<1>9. Len(disk[m]) <= Len(subs)
  BY <1>1, <1>2, <1>8
<1>10. Len(disk[m]) = Len(subs)
  BY <1>1, <1>2, <1>7, <1>9
<1> QED
  BY <1>5, <1>8, <1>10

\* A secondary that committed the last subtransaction with the primary, got the
\* same error and was not cut off got none: had it reported one, the cancellation of
\* its voter would have left it behind.
LEMMA UpdatedSucceeded ==
    ASSUME CInv, phase # "proxying", UseTransaction,
           NEW n \in UpdatedSecondaries, ~CutAlike(n)
    PROVE  rpc[n] = NoError /\ rpc[Primary] = NoError
<1>1. /\ n \in Secondaries /\ Len(subs) # 0 /\ rpc[n] = rpc[Primary]
      /\ NodeState(n) = "committed"
  BY DEF UpdatedSecondaries
<1>2. Proxied /\ Destinations = Nodes /\ n \in Nodes /\ Primary \in Nodes /\ n # Primary
  BY <1>1, SecondariesAssumption DEF CInv, CleanedUp, Destinations, Nodes
<1>3. rpc[n] # Running /\ rpc[n] \in Endings
  BY <1>1, <1>2 DEF Proxied, CInv, CTypeOK
<1>4. rpc[n] \notin CutErrors
  BY <1>1, <1>2 DEF CutAlike
<1>6. rpc[n] \notin Reported
  <2> SUFFICES ASSUME rpc[n] \in Reported PROVE FALSE
    OBVIOUS
  <2>1. n \in dropped
    BY <1>1, <1>2, ErrorsDiffer DEF Proxied, Reported
  <2>2. LeftBehind(n)
    BY <2>1 DEF CInv, DroppedAreLeftBehind, Reported
  <2>3. Len(subs) \in 1 .. Len(subs)
    BY <1>1 DEF CInv, IInv, TypeOK
  <2>4. \A k \in 1 .. Len(subs) : subs[k].result[n] = "committed"
    BY <1>1, <1>2, <2>3, CommittedWithPrimary DEF NodeState
  <2> QED
    BY <2>2, <2>4 DEF LeftBehind
<1> QED
  BY <1>1, <1>3, <1>4, <1>6 DEF Endings, Reported

\* So it holds what the primary holds.
LEMMA UpdatedHasPrimaryContent ==
    ASSUME CInv, phase # "proxying", UseTransaction,
           NEW n \in UpdatedSecondaries, ~CutAlike(n)
    PROVE  disk[n] = disk[Primary]
<1>1. /\ n \in Nodes /\ Primary \in Nodes /\ Len(subs) # 0
      /\ NodeState(n) = "committed" /\ NodeState(Primary) = "committed"
  BY DEF UpdatedSecondaries, Nodes
<1>2. VotingRPC
  BY DEF CInv, CTypeOK, VotingRPC, UseTransaction
<1>3. rpc[n] = NoError /\ rpc[Primary] = NoError
  BY UpdatedSucceeded
<1>4. /\ Len(disk[n]) = Len(subs) /\ Len(disk[Primary]) = Len(subs)
      /\ \A k \in 1 .. Len(subs) : disk[n][k] = disk[Primary][k]
  BY <1>1, <1>2, <1>3, CommittedIsApplied
<1>5. disk[n] \in Seq(Votes) /\ disk[Primary] \in Seq(Votes)
  BY <1>1 DEF CInv, CTypeOK, Replicas
<1> QED
  BY <1>4, <1>5

\* When the finalizer takes the primary to have changed nothing, no replica has.
LEMMA CleanMeansUntouched ==
    ASSUME CInv, ~Dirtied, NEW n \in Replicas
    PROVE  disk[n] = << >>
<1>1. UseTransaction /\ VotingRPC /\ ~PrimaryDirtied
  BY DEF Dirtied, CInv, CTypeOK, UseTransaction, VotingRPC
<1>2. told = {}
  <2> SUFFICES ASSUME NEW t \in told PROVE FALSE
    OBVIOUS
  <2>1. t[2] \in 1 .. Len(subs) /\ t[1] \in Nodes /\ Len(subs) \in Nat
    BY DEF CInv, IInv, TypeOK, ToldIsFinal
  <2>2. Len(subs) = 1 /\ ~DidVote(Primary)
    BY <1>1, <2>1 DEF PrimaryDirtied
  <2>3. t[2] = 1 /\ subs # << >>
    BY <2>1, <2>2
  <2>4. subs[1].result[t[1]] = "committed"
    BY <2>1, <2>3 DEF CInv, IInv, ToldIsFinal
  <2>5. subs[1].vote[Primary] \in Votes
    BY <2>1, <2>2, <2>4, CommittedWithPrimary
  <2> QED
    BY <2>2, <2>3, <2>5, VotesAssumption DEF DidVote
<1>3. disk[n] \in Seq(Votes) /\ Len(disk[n]) \in Nat
  BY DEF CInv, CTypeOK
<1>4. \A k \in 1 .. Len(disk[n]) : FALSE
  BY <1>1, <1>2 DEF CInv, DisksFollowVotes
<1>5. Len(disk[n]) = 0
  BY <1>3, <1>4
<1> QED
  BY <1>3, <1>5

\* Replicas that are not outdated and were not cut off hold what the primary holds.
LEMMA UpToDateHasPrimaryContent ==
    ASSUME CInv, phase # "proxying", NEW n \in Replicas,
           n \notin OutdatedReplicas, ~CutAlike(n)
    PROVE  disk[n] = disk[Primary]
<1>1. n = Primary \/ (UseTransaction /\ n \in UpdatedSecondaries)
  BY DEF OutdatedReplicas, Replicas, Nodes
<1> QED
  BY <1>1, UpdatedHasPrimaryContent

-----------------------------------------------------------------------------
(* The results *)

\* What a secondary wrote in a round is what the primary voted for in that round,
\* whatever failed since: nothing reaches a secondary without the primary's
\* agreement.
THEOREM SecondariesFollowCorrect ==
    ASSUME "unvoted" \notin Kinds
    PROVE  CSpec => []SecondariesFollowPrimary
<1>1. ASSUME CInv, NEW n \in Secondaries, NEW k \in 1 .. Len(disk[n])
      PROVE  k <= Len(subs) /\ subs[k].vote[Primary] = disk[n][k]
  <2>1. n \in Replicas /\ n \in Nodes /\ n # Primary
    BY SecondariesAssumption DEF Replicas, Nodes
  <2>2. VotingRPC
    <3>1. disk[n] # << >>
      BY <1>1
    <3> QED
      BY <1>1, <2>1, <3>1 DEF CInv, DisksFollowVotes
  <2>3. <<n, k, disk[n][k]>> \in told
    BY <1>1, <2>1, <2>2 DEF CInv, DisksFollowVotes
  <2>4. k \in 1 .. Len(subs) /\ subs[k].vote[n] = disk[n][k] /\ subs[k].result[n] = "committed"
    <3>1. k \in 1 .. Len(subs) /\ k \in 1 .. k
      BY <1>1, <2>3 DEF CInv, IInv, ToldIsFinal
    <3> QED
      BY <1>1, <2>3, <3>1 DEF CInv, IInv, ToldIsFinal
  <2>5. subs[k].vote[Primary] = subs[k].vote[n]
    BY <1>1, <2>1, <2>4, CommittedWithPrimary
  <2> QED
    BY <1>1, <2>4, <2>5 DEF CInv, IInv, TypeOK
<1>2. CInv => SecondariesFollowPrimary
  BY <1>1 DEF SecondariesFollowPrimary
<1> QED
  BY <1>2, CInvAlways, PTL

\* After a request every replica recorded at the repository's generation holds what
\* the primary holds: getUpdatedAndOutdatedSecondaries and IncrementGeneration mark
\* no diverged replica as up to date, whichever connections were lost and whether or
\* not the client stayed, but one that the transport cut off with the primary's error.
THEOREM LatestHasPrimaryContentCorrect ==
    ASSUME "unvoted" \notin Kinds
    PROVE  CSpec => []LatestHasPrimaryContent
<1>1. ASSUME CInv, Finalized, NEW n \in Replicas, gen[n] = repoGen, ~CutAlike(n)
      PROVE  disk[n] = disk[Primary]
  <2>1. phase = "done" /\ Primary \in Replicas
    BY <1>1 DEF Finalized, Replicas, Nodes
  <2>2. CASE Dirtied
    <3>1. outdated = OutdatedReplicas /\ n \notin outdated
      BY <1>1, <2>1, <2>2 DEF CInv, FinalizersMatch
    <3> QED
      BY <1>1, <2>1, <3>1, UpToDateHasPrimaryContent
  <2>3. CASE ~Dirtied
    BY <1>1, <2>1, <2>3, CleanMeansUntouched
  <2> QED
    BY <2>2, <2>3
<1>2. CInv => LatestHasPrimaryContent
  BY <1>1 DEF LatestHasPrimaryContent
<1> QED
  BY <1>2, CInvAlways, PTL

\* After a request every replica that differs from the primary has a replication
\* job, which repairs it, unless the transport cut it off with the primary's error.
THEOREM DivergedHasJobCorrect ==
    ASSUME "unvoted" \notin Kinds
    PROVE  CSpec => []DivergedHasJob
<1>1. ASSUME CInv, Finalized, NEW n \in Replicas, disk[n] # disk[Primary], ~CutAlike(n)
      PROVE  n \in jobs
  <2>1. phase = "done" /\ Primary \in Replicas
    BY <1>1 DEF Finalized, Replicas, Nodes
  <2>2. Dirtied
    BY <1>1, <2>1, CleanMeansUntouched
  <2>3. outdated = OutdatedReplicas /\ outdated \subseteq jobs
    BY <1>1, <2>1, <2>2 DEF CInv, FinalizersMatch
  <2>4. n \in OutdatedReplicas
    BY <1>1, <2>1, UpToDateHasPrimaryContent
  <2> QED
    BY <2>3, <2>4
<1>2. CInv => DivergedHasJob
  BY <1>1 DEF DivergedHasJob
<1> QED
  BY <1>2, CInvAlways, PTL
=============================================================================
