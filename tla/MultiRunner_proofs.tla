-------------------------- MODULE MultiRunner_proofs --------------------------
(***************************************************************************)
(* Proofs about MultiRunner, for any number of runners, workers, limits,   *)
(* values of concurrent, reloads and rotations of tokens.                  *)
(*                                                                         *)
(* A build may be counted under one token and released under another, so   *)
(* no single counter tells how many jobs a runner has.  All counters of a  *)
(* runner together do (BuildsAreCounted), and none of them grows above the *)
(* highest limit so far (CountersAreLimited).                              *)
(***************************************************************************)
EXTENDS MultiRunner, TLAPS, FiniteSetTheorems, WellFoundedInduction

-----------------------------------------------------------------------------
(* Free numbers *)

\* A set of natural numbers has a smallest element.
LEMMA MinExists ==
    ASSUME NEW T \in SUBSET Nat, T # {}
    PROVE  \E x \in T : \A y \in T : x <= y
<1> DEFINE R == OpToRel(<, Nat)
<1>1. IsWellFoundedOn(R, Nat)
  BY NatLessThanWellFounded
<1>2. \A x, y \in Nat : x < y => <<x, y>> \in R
  BY DEF OpToRel
<1> HIDE DEF R
<1>3. PICK x \in T : \A y \in T : ~(<<y, x>> \in R)
  BY <1>1, WFMin
<1>4. \A y \in T : ~(y < x)
  BY <1>2, <1>3
<1> QED
  BY <1>4

\* Min finds it.
LEMMA MinIsSmallest ==
    ASSUME NEW T \in SUBSET Nat, T # {}
    PROVE  Min(T) \in T
<1>1. \E x \in T : \A y \in T : x <= y
  BY MinExists
<1> QED
  BY <1>1 DEF Min

\* The number that addBuild finds is one that no other build of the token has:
\* one of n + 1 numbers is not among n.
LEMMA FreeIDIsFree ==
    ASSUME NEW t
    PROVE  FreeID(t) \in Nat /\ FreeID(t) \notin UsedIDs(t)
<1> DEFINE B == {u \in In("running") : <<worker[u].runner, worker[u].token>> = t}
           U == UsedIDs(t)
           n == Cardinality(U)
<1>1. IsFiniteSet(B)
  <2>1. B \in SUBSET Workers
    BY DEF In
  <2> QED
    BY <2>1, FS_Subset, RunnerAssumption
<1>2. IsFiniteSet(U) /\ n \in Nat
  <2>1. U = {worker[v].id : v \in B}
    BY DEF UsedIDs
  <2> HIDE DEF B, U
  <2> DEFINE f == [v \in B |-> worker[v].id]
  <2>2. U = {f[v] : v \in B}
    BY <2>1
  <2>3. f \in Surjection(B, U)
    BY <2>2 DEF Surjection
  <2> QED
    BY <2>3, <1>1, FS_Surjection, FS_CardinalityType
<1>3. (0 .. n) \ U # {}
  <2>1. SUFFICES ASSUME (0 .. n) \subseteq U PROVE FALSE
    OBVIOUS
  <2>2. Cardinality(0 .. n) = n + 1
    BY <1>2, FS_Interval
  <2>3. Cardinality(0 .. n) <= n
    BY <2>1, <1>2, FS_Subset
  <2> QED
    BY <2>2, <2>3, <1>2
<1>4. Min((0 .. n) \ U) \in (0 .. n) \ U
  <2>1. (0 .. n) \ U \in SUBSET Nat
    BY <1>2
  <2> HIDE DEF n, U
  <2> QED
    BY <2>1, <1>3, MinIsSmallest
<1> QED
  BY <1>2, <1>4 DEF FreeID

-----------------------------------------------------------------------------
(* Steps of workers *)

WorkerStates(n) ==
    [pc : {"absent", "idle", "stopping", "processing"} \union Held,
     config : 0 .. n, runner : 0 .. NumRunners, token : 0 .. MaxRotations, id : Nat]

\* The workers are what TypeOK says.
WorkersOK(f, n) ==
    /\ f \in [Workers -> WorkerStates(n)]
    /\ \A w \in Workers : f[w].pc \in Held \union {"processing"} => f[w].runner \in Runners

\* A worker at rest has a well-formed state.
LEMMA AtRestType ==
    ASSUME NEW n \in Nat
    PROVE  \A pc \in {"absent", "idle", "stopping"} :
              AtRest(pc) \in WorkerStates(n) /\ AtRest(pc).pc = pc
<1>1. 0 \in 0 .. n /\ 0 \in 0 .. NumRunners /\ 0 \in 0 .. MaxRotations /\ 0 \in Nat
  BY RunnerAssumption
<1> QED
  BY <1>1 DEF WorkerStates, AtRest

\* What a worker is that has taken a runner.
LEMMA TakenIs ==
    ASSUME NEW c, NEW r
    PROVE  /\ Taken(c, r) = [pc |-> "processing", config |-> c, runner |-> r, token |-> 0, id |-> 0]
           /\ Taken(c, r).pc = "processing" /\ Taken(c, r).runner = r
<1> DEFINE a == [pc |-> "processing", config |-> c, runner |-> 0, token |-> 0, id |-> 0]
           b == [pc |-> "processing", config |-> c, runner |-> r, token |-> 0, id |-> 0]
<1>1. [AtRest("processing") EXCEPT !.config = c] = a
  BY DEF AtRest
<1>2. [a EXCEPT !.runner = r] = b
  OBVIOUS
<1>3. Taken(c, r) = b
  BY <1>1, <1>2, Zenon DEF Taken
<1>4. b.pc = "processing" /\ b.runner = r
  OBVIOUS
<1> HIDE DEF b
<1>5. Taken(c, r).pc = "processing" /\ Taken(c, r).runner = r
  BY <1>3, <1>4
<1> QED
  BY <1>3, <1>5 DEF b

\* So have one that has taken a runner, and one that is about to release it.
LEMMA TakenType ==
    ASSUME NEW n \in Nat, NEW c \in 0 .. n, NEW r \in Runners
    PROVE  /\ Taken(c, r) \in WorkerStates(n)
           /\ [Taken(c, r) EXCEPT !.pc = "releasing"] \in WorkerStates(n)
           /\ [Taken(c, r) EXCEPT !.pc = "releasing"].pc = "releasing"
           /\ [Taken(c, r) EXCEPT !.pc = "releasing"].runner = r
<1> DEFINE b == [pc |-> "processing", config |-> c, runner |-> r, token |-> 0, id |-> 0]
           d == [pc |-> "releasing", config |-> c, runner |-> r, token |-> 0, id |-> 0]
<1>1. 0 \in 0 .. MaxRotations /\ 0 \in Nat /\ r \in 0 .. NumRunners
  BY RunnerAssumption DEF Runners
<1>2. Taken(c, r) = b
  BY TakenIs
<1>3. [b EXCEPT !.pc = "releasing"] = d
  OBVIOUS
<1>4. b \in WorkerStates(n)
  BY <1>1 DEF WorkerStates
<1>5. d \in WorkerStates(n) /\ d.pc = "releasing" /\ d.runner = r
  BY <1>1 DEF WorkerStates, Held
<1> HIDE DEF b, d
<1> QED
  BY <1>2, <1>3, <1>4, <1>5

\* A worker that has a runner moves on with it.
LEMMA MovesOn ==
    ASSUME NEW n, WorkersOK(worker, n), NEW w \in Workers, NEW pc \in Held,
           worker[w].pc \in Held \union {"processing"}, Moves(w, pc)
    PROVE  /\ WorkersOK(worker', n)
           /\ \A v \in Workers : v # w => worker'[v] = worker[v]
           /\ worker'[w].pc = pc /\ worker'[w].runner = worker[w].runner
<1>1. [worker[w] EXCEPT !.pc = pc] \in WorkerStates(n)
  BY DEF WorkersOK, WorkerStates
<1>2. /\ worker' \in [Workers -> WorkerStates(n)]
      /\ worker'[w] = [worker[w] EXCEPT !.pc = pc]
      /\ \A v \in Workers : v # w => worker'[v] = worker[v]
  BY <1>1 DEF WorkersOK, Moves
<1>3. worker'[w].pc = pc /\ worker'[w].runner = worker[w].runner
  BY <1>2 DEF WorkersOK, WorkerStates
<1> QED
  BY <1>2, <1>3 DEF WorkersOK

\* A worker that gets a new state.
LEMMA GetsState ==
    ASSUME NEW n, WorkersOK(worker, n), NEW w \in Workers, NEW b \in WorkerStates(n),
           b.pc \in Held \union {"processing"} => b.runner \in Runners,
           worker' = [worker EXCEPT ![w] = b]
    PROVE  /\ WorkersOK(worker', n)
           /\ \A v \in Workers : v # w => worker'[v] = worker[v]
           /\ worker'[w] = b
  BY DEF WorkersOK

\* The workers that hold a build are finitely many.
LEMMA HoldersFinite ==
    ASSUME NEW X \in SUBSET Workers
    PROVE  IsFiniteSet(X) /\ Cardinality(X) \in Nat
  BY RunnerAssumption, FS_Subset, FS_CardinalityType

\* A step keeps the counts if it does not touch the counters, and nobody comes to
\* hold a build.
LEMMA CountsKept ==
    ASSUME BuildsAreCounted, UNCHANGED builds,
           \A v \in Workers : worker'[v].pc \in Held =>
               worker[v].pc \in Held /\ worker'[v].runner = worker[v].runner
    PROVE  BuildsAreCounted'
<1> SUFFICES ASSUME NEW r \in Runners
             PROVE  /\ IsFiniteSet(Slots(r))'
                    /\ (Cardinality(Holders(r)) <= Cardinality(Slots(r)))'
  BY DEF BuildsAreCounted
<1> DEFINE X == Holders(r)
           Y == {w \in Workers : worker'[w].pc \in Held /\ worker'[w].runner = r}
           S == Slots(r)
<1>1. X \in SUBSET Workers /\ Y \in SUBSET X /\ Y = Holders(r)' /\ S = Slots(r)'
  BY DEF Holders, Slots
<1>2. IsFiniteSet(S) /\ Cardinality(X) <= Cardinality(S)
  BY DEF BuildsAreCounted
<1> HIDE DEF X, Y, S
<1>3. IsFiniteSet(X) /\ Cardinality(X) \in Nat /\ Cardinality(S) \in Nat
  BY <1>1, <1>2, HoldersFinite, FS_CardinalityType
<1>4. Cardinality(Y) \in Nat /\ Cardinality(Y) <= Cardinality(X)
  BY <1>1, <1>3, FS_Subset, FS_CardinalityType
<1>5. Cardinality(Y) <= Cardinality(S)
  BY <1>2, <1>3, <1>4
<1> QED
  BY <1>1, <1>2, <1>5

\* A step keeps directories apart if nobody starts a build.
LEMMA DirectoriesKept ==
    ASSUME BuildsHaveOwnDirectory,
           \A v \in Workers : worker'[v].pc = "running" => worker'[v] = worker[v]
    PROVE  BuildsHaveOwnDirectory'
  BY DEF BuildsHaveOwnDirectory, In

-----------------------------------------------------------------------------
(* Counters *)

\* Slots, with the counters b.
SlotsOf(b, r) == UNION {{t} \X (1 .. b[<<r, t>>]) : t \in 0 .. MaxRotations}

\* The builds that a runner's counters know of.
LEMMA SlotsMembers ==
    ASSUME NEW b \in [Tokens -> Nat], NEW r \in Runners
    PROVE  /\ \A t, k : <<t, k>> \in SlotsOf(b, r) <=>
                 t \in 0 .. MaxRotations /\ k \in Nat \ {0} /\ k <= b[<<r, t>>]
           /\ \A p \in SlotsOf(b, r) : \E t, k : p = <<t, k>>
<1>1. \A t \in 0 .. MaxRotations : b[<<r, t>>] \in Nat
  BY DEF Tokens
<1>2. \A p : p \in SlotsOf(b, r) <=> \E u \in 0 .. MaxRotations : p \in {u} \X (1 .. b[<<r, u>>])
  BY Zenon DEF SlotsOf
<1>3. \A p : \A u \in 0 .. MaxRotations :
        p \in {u} \X (1 .. b[<<r, u>>]) => \E k : p = <<u, k>>
  OBVIOUS
<1>4. \A t, k : \A u \in 0 .. MaxRotations :
        <<t, k>> \in {u} \X (1 .. b[<<r, u>>]) <=> t = u /\ k \in 1 .. b[<<r, u>>]
  OBVIOUS
<1>5. \A t \in 0 .. MaxRotations : \A k : k \in 1 .. b[<<r, t>>] <=>
        k \in Nat \ {0} /\ k <= b[<<r, t>>]
  BY <1>1
<1>6. ASSUME NEW t, NEW k
      PROVE  <<t, k>> \in SlotsOf(b, r) <=>
                 t \in 0 .. MaxRotations /\ k \in Nat \ {0} /\ k <= b[<<r, t>>]
  <2>1. <<t, k>> \in SlotsOf(b, r) <=> t \in 0 .. MaxRotations /\ k \in 1 .. b[<<r, t>>]
    <3>1. <<t, k>> \in SlotsOf(b, r) <=>
            \E u \in 0 .. MaxRotations : <<t, k>> \in {u} \X (1 .. b[<<r, u>>])
      BY <1>2, Zenon
    <3>2. \A u \in 0 .. MaxRotations :
            <<t, k>> \in {u} \X (1 .. b[<<r, u>>]) <=> t = u /\ k \in 1 .. b[<<r, u>>]
      BY <1>4, Zenon
    <3> QED
      BY <3>1, <3>2, Zenon
  <2> QED
    BY <1>5, <2>1
<1>7. ASSUME NEW p \in SlotsOf(b, r)
      PROVE  \E t, k : p = <<t, k>>
  BY <1>2, <1>3
<1> QED
  BY <1>6, <1>7

\* One counter grows by one.
LEMMA SlotAdded ==
    ASSUME builds \in [Tokens -> Nat], NEW q \in Runners, NEW t \in 0 .. MaxRotations,
           builds' = [builds EXCEPT ![<<q, t>>] = builds[<<q, t>>] + 1]
    PROVE  /\ builds' \in [Tokens -> Nat]
           /\ builds'[<<q, t>>] = builds[<<q, t>>] + 1
           /\ \A r \in Runners, u \in 0 .. MaxRotations :
                 r # q \/ u # t => builds'[<<r, u>>] = builds[<<r, u>>]
           /\ \A r \in Runners : r # q => Slots(r)' = Slots(r)
           /\ \E p : p \notin Slots(q) /\ Slots(q)' = Slots(q) \union {p}
<1>1. <<q, t>> \in Tokens /\ \A r \in Runners, u \in 0 .. MaxRotations : <<r, u>> \in Tokens
  BY DEF Tokens
<1> DEFINE n == builds[<<q, t>>]
<1>2. n \in Nat
  BY <1>1
<1>3. builds' \in [Tokens -> Nat] /\ builds'[<<q, t>>] = n + 1
  BY <1>1, <1>2
<1>4. \A r \in Runners, u \in 0 .. MaxRotations :
         r # q \/ u # t => builds'[<<r, u>>] = builds[<<r, u>>]
  BY <1>1
<1> HIDE DEF n
<1>5. \A r \in Runners : r # q => Slots(r)' = Slots(r)
  BY <1>4 DEF Slots
<1> DEFINE S == Slots(q)
           T == Slots(q)'
<1>0. S = SlotsOf(builds, q) /\ T = SlotsOf(builds', q)
  BY DEF Slots, SlotsOf
<1> HIDE DEF S, T
<1>6. \A u, k : <<u, k>> \in T <=>
         u \in 0 .. MaxRotations /\ k \in Nat \ {0} /\ k <= builds'[<<q, u>>]
  BY <1>3, <1>0, SlotsMembers
<1>7. \A u, k : <<u, k>> \in S <=>
         u \in 0 .. MaxRotations /\ k \in Nat \ {0} /\ k <= builds[<<q, u>>]
  BY <1>0, SlotsMembers
<1>8. <<t, n + 1>> \notin S
  BY <1>2, <1>7 DEF n
<1>9. \A u, k : <<u, k>> \in T <=> <<u, k>> \in S \/ (u = t /\ k = n + 1)
  <2>1. ASSUME NEW k
        PROVE  <<t, k>> \in T <=> <<t, k>> \in S \/ k = n + 1
    BY <1>2, <1>3, <1>6, <1>7 DEF n
  <2>2. \A u, k : u # t => (<<u, k>> \in T <=> <<u, k>> \in S)
    BY <1>4, <1>6, <1>7
  <2> QED
    BY <2>1, <2>2
<1>10. T = S \union {<<t, n + 1>>}
  <2>1. \A p : p \in T => \E u, k : p = <<u, k>>
    BY <1>3, <1>0, SlotsMembers
  <2>2. \A p : p \in S => \E u, k : p = <<u, k>>
    BY <1>0, SlotsMembers
  <2> QED
    BY <1>9, <2>1, <2>2
<1> QED
  BY <1>3, <1>4, <1>5, <1>8, <1>10 DEF n, S, T

\* One counter falls by one, or is zero.
LEMMA SlotRemoved ==
    ASSUME builds \in [Tokens -> Nat], NEW q \in Runners, NEW t \in 0 .. MaxRotations,
           builds' = [builds EXCEPT ![<<q, t>>] =
                        IF builds[<<q, t>>] > 0 THEN builds[<<q, t>>] - 1 ELSE 0]
    PROVE  /\ builds' \in [Tokens -> Nat]
           /\ \A r \in Runners, u \in 0 .. MaxRotations : builds'[<<r, u>>] <= builds[<<r, u>>]
           /\ \A r \in Runners : r # q => Slots(r)' = Slots(r)
           /\ \/ Slots(q)' = Slots(q)
              \/ \E p \in Slots(q) : Slots(q)' = Slots(q) \ {p}
<1>1. <<q, t>> \in Tokens /\ \A r \in Runners, u \in 0 .. MaxRotations : <<r, u>> \in Tokens
  BY DEF Tokens
<1> DEFINE n == builds[<<q, t>>]
<1>2. n \in Nat
  BY <1>1
<1>3. builds' \in [Tokens -> Nat] /\ builds'[<<q, t>>] = (IF n > 0 THEN n - 1 ELSE 0)
  BY <1>1, <1>2
<1>4. \A r \in Runners, u \in 0 .. MaxRotations :
         r # q \/ u # t => builds'[<<r, u>>] = builds[<<r, u>>]
  BY <1>1
<1> HIDE DEF n
<1>5. \A r \in Runners : r # q => Slots(r)' = Slots(r)
  BY <1>4 DEF Slots
<1>6. \A r \in Runners, u \in 0 .. MaxRotations : builds'[<<r, u>>] <= builds[<<r, u>>]
  <2> SUFFICES ASSUME NEW r \in Runners, NEW u \in 0 .. MaxRotations
               PROVE  builds'[<<r, u>>] <= builds[<<r, u>>]
    OBVIOUS
  <2>1. builds[<<r, u>>] \in Nat
    BY <1>1
  <2>2. CASE r = q /\ u = t
    BY <1>2, <1>3, <2>2 DEF n
  <2>3. CASE ~(r = q /\ u = t)
    BY <1>4, <2>1, <2>3
  <2> QED
    BY <2>2, <2>3
<1> DEFINE S == Slots(q)
           T == Slots(q)'
<1>0. S = SlotsOf(builds, q) /\ T = SlotsOf(builds', q)
  BY DEF Slots, SlotsOf
<1> HIDE DEF S, T
<1>7. \A u, k : <<u, k>> \in T <=>
         u \in 0 .. MaxRotations /\ k \in Nat \ {0} /\ k <= builds'[<<q, u>>]
  BY <1>3, <1>0, SlotsMembers
<1>8. \A u, k : <<u, k>> \in S <=>
         u \in 0 .. MaxRotations /\ k \in Nat \ {0} /\ k <= builds[<<q, u>>]
  BY <1>0, SlotsMembers
<1>9. \A u, k : <<u, k>> \in T <=> <<u, k>> \in S /\ ~(u = t /\ k = n)
  <2>1. ASSUME NEW k
        PROVE  <<t, k>> \in T <=> <<t, k>> \in S /\ k # n
    BY <1>2, <1>3, <1>7, <1>8 DEF n
  <2>2. \A u, k : u # t => (<<u, k>> \in T <=> <<u, k>> \in S)
    BY <1>4, <1>7, <1>8
  <2> QED
    BY <2>1, <2>2
<1>10. T = S \ {<<t, n>>}
  <2>1. \A p : p \in T => \E u, k : p = <<u, k>>
    BY <1>3, <1>0, SlotsMembers
  <2>2. \A p : p \in S => \E u, k : p = <<u, k>>
    BY <1>0, SlotsMembers
  <2> QED
    BY <1>9, <2>1, <2>2
<1>11. T = S \/ \E p \in S : T = S \ {p}
  BY <1>10
<1> QED
  BY <1>3, <1>5, <1>6, <1>11 DEF S, T

-----------------------------------------------------------------------------
(* The invariant *)

Resetters(n) ==
    [pc : {"waiting", "resetting", "saving"}, config : 0 .. n, runner : 0 .. NumRunners]

Feeders(n) == [config : 0 .. n, next : 0 .. NumRunners]

\* TypeOK, with the workers apart.
LEMMA TypeOKParts ==
    TypeOK <=>
        /\ config \in Configs
        /\ limit \in [Configs -> Limits]
        /\ token \in [Configs -> [Runners -> 0 .. MaxRotations]]
        /\ {file, issued} \subseteq [Runners -> 0 .. MaxRotations]
        /\ resetter \in Resetters(config)
        /\ resetter.pc # "waiting" => resetter.runner \in Runners
        /\ feeder \in Feeders(config)
        /\ WorkersOK(worker, config)
        /\ builds \in [Tokens -> Nat]
  BY DEF TypeOK, WorkersOK, WorkerStates, Resetters, Feeders

\* What steps of workers leave alone keeps its type.
LEMMA WorkersType ==
    ASSUME TypeOK, UNCHANGED <<configuration, resets>>, feeder' \in Feeders(config),
           WorkersOK(worker', config), builds' \in [Tokens -> Nat]
    PROVE  TypeOK'
<1>1. /\ config' = config /\ limit' = limit /\ token' = token /\ file' = file /\ issued' = issued
      /\ resetter' = resetter
  BY DEF configuration, resets
<1> QED
  BY <1>1, TypeOKParts DEF TypeOK, WorkersOK, WorkerStates, Feeders

\* Steps of workers that leave the counters alone, and after which nobody holds or
\* runs a build who did not before.
LEMMA WorkersKeep ==
    ASSUME IInv, UNCHANGED <<configuration, resets, builds>>, feeder' \in Feeders(config),
           WorkersOK(worker', config),
           \A v \in Workers : worker'[v].pc \in Held =>
               worker[v].pc \in Held /\ worker'[v].runner = worker[v].runner,
           \A v \in Workers : worker'[v].pc = "running" => worker'[v] = worker[v]
    PROVE  IInv'
<1>1. TypeOK'
  BY WorkersType, TypeOKParts DEF IInv
<1>2. TokensAreIssued' /\ CountersAreLimited'
  BY DEF IInv, TokensAreIssued, CountersAreLimited, configuration
<1>3. BuildsAreCounted'
  BY CountsKept DEF IInv
<1>4. BuildsHaveOwnDirectory'
  BY DirectoriesKept DEF IInv
<1> QED
  BY <1>1, <1>2, <1>3, <1>4 DEF IInv

\* Steps of workers that neither acquire nor release a build, nor start one.
LEMMA MovesOnKeeps ==
    ASSUME IInv, NEW w \in Workers, NEW pc \in Held, pc # "running",
           worker[w].pc \in Held, Moves(w, pc),
           UNCHANGED <<configuration, resets, feeder, builds>>
    PROVE  IInv'
<1>1. WorkersOK(worker, config) /\ feeder \in Feeders(config)
  BY TypeOKParts DEF IInv
<1>2. /\ WorkersOK(worker', config)
      /\ \A v \in Workers : v # w => worker'[v] = worker[v]
      /\ worker'[w].pc = pc /\ worker'[w].runner = worker[w].runner
  BY <1>1, MovesOn
<1> QED
  BY <1>1, <1>2, WorkersKeep

\* Steps in which w goes to rest, takes a runner or is about to release a build, and
\* leaves the counters alone.
LEMMA GetsStateKeeps ==
    ASSUME IInv, NEW w \in Workers, NEW b \in WorkerStates(config),
           b.pc \in Held \union {"processing"} => b.runner \in Runners,
           b.pc # "running",
           b.pc \in Held => worker[w].pc \in Held /\ b.runner = worker[w].runner,
           worker' = [worker EXCEPT ![w] = b],
           UNCHANGED <<configuration, resets, builds>>, feeder' \in Feeders(config)
    PROVE  IInv'
<1>1. WorkersOK(worker, config)
  BY TypeOKParts DEF IInv
<1>2. /\ WorkersOK(worker', config)
      /\ \A v \in Workers : v # w => worker'[v] = worker[v]
      /\ worker'[w] = b
  BY <1>1, GetsState
<1> QED
  BY <1>2, WorkersKeep

\* The counter of a worker's runner, at this moment.
LEMMA TokenType ==
    ASSUME TypeOK, TokensAreIssued, NEW w \in Workers, worker[w].runner \in Runners
    PROVE  \E t \in 0 .. MaxRotations :
                /\ Token(w) = <<worker[w].runner, t>> /\ t <= issued[worker[w].runner]
                /\ issued[worker[w].runner] \in Nat
<1>1. worker[w].config \in Configs
  BY TypeOKParts, RunnerAssumption DEF WorkersOK, WorkerStates, Configs
<1>2. token[worker[w].config][worker[w].runner] \in 0 .. MaxRotations
  BY <1>1 DEF TypeOK
<1>3. token[worker[w].config][worker[w].runner] <= issued[worker[w].runner]
  BY <1>1 DEF TokensAreIssued
<1>4. issued[worker[w].runner] \in Nat
  BY RunnerAssumption DEF TypeOK
<1> QED
  BY <1>2, <1>3, <1>4 DEF Token

\* The limits are numbers.
LEMMA LimitType ==
    ASSUME TypeOK, NEW c \in 0 .. config, NEW r \in Runners
    PROVE  c \in Configs /\ limit[c][r] \in Nat
<1>1. c \in Configs
  BY TypeOKParts, RunnerAssumption DEF Configs
<1>2. limit[c] \in [1 .. NumRunners -> Nat]
  BY <1>1, RunnerAssumption DEF TypeOK
<1> QED
  BY <1>1, <1>2 DEF Runners

\* A counter that grows was below the limit that the worker compared it with, so it
\* is still within the highest limit.
LEMMA AcquiredIsLimited ==
    ASSUME TypeOK, CountersAreLimited, NEW q \in Runners, NEW t \in 0 .. MaxRotations,
           NEW d \in 0 .. config, limit[d][q] = 0 \/ builds[<<q, t>>] < limit[d][q],
           builds' \in [Tokens -> Nat], builds'[<<q, t>>] = builds[<<q, t>>] + 1,
           \A r \in Runners, u \in 0 .. MaxRotations :
                r # q \/ u # t => builds'[<<r, u>>] = builds[<<r, u>>],
           UNCHANGED <<config, limit>>
    PROVE  CountersAreLimited'
<1> SUFFICES ASSUME NEW r \in Runners
             PROVE  \E c \in 0 .. config : limit[c][r] = 0 \/
                       \A u \in 0 .. MaxRotations : builds'[<<r, u>>] <= limit[c][r]
  BY DEF CountersAreLimited
<1>1. \A u \in 0 .. MaxRotations : builds[<<r, u>>] \in Nat /\ builds'[<<r, u>>] \in Nat
  BY DEF TypeOK, Tokens
<1>2. PICK c \in 0 .. config : limit[c][r] = 0 \/
         \A u \in 0 .. MaxRotations : builds[<<r, u>>] <= limit[c][r]
  BY DEF CountersAreLimited
<1>3. CASE r # q \/ limit[c][r] = 0
  <2>1. limit[c][r] = 0 \/ \A u \in 0 .. MaxRotations : builds'[<<r, u>>] <= limit[c][r]
    BY <1>2, <1>3
  <2> QED
    BY <2>1
<1>4. CASE r = q /\ limit[d][q] = 0
  BY <1>4
<1>5. CASE r = q /\ limit[d][q] # 0 /\ limit[c][r] # 0
  <2>1. limit[c][q] \in Nat /\ limit[d][q] \in Nat
    BY LimitType
  <2>2. \A u \in 0 .. MaxRotations : builds[<<q, u>>] <= limit[c][q]
    BY <1>2, <1>5
  <2>3. CASE builds[<<q, t>>] + 1 <= limit[c][q]
    <3>1. \A u \in 0 .. MaxRotations : builds'[<<q, u>>] <= limit[c][q]
      BY <2>2, <2>3
    <3> QED
      BY <1>5, <3>1
  <2>4. CASE ~(builds[<<q, t>>] + 1 <= limit[c][q])
    <3>1. limit[c][q] <= limit[d][q] /\ builds[<<q, t>>] + 1 <= limit[d][q]
      BY <1>1, <1>5, <2>1, <2>2, <2>4
    <3>2. ASSUME NEW u \in 0 .. MaxRotations
          PROVE  builds'[<<q, u>>] <= limit[d][q]
      <4>1. CASE u = t
        BY <3>1, <4>1
      <4>2. CASE u # t
        <5>1. builds'[<<q, u>>] = builds[<<q, u>>] /\ builds[<<q, u>>] \in Nat
          BY <1>1, <1>5, <4>2
        <5> QED
          BY <2>1, <2>2, <3>1, <5>1
      <4> QED
        BY <4>1, <4>2
    <3> QED
      BY <1>5, <3>2
  <2> QED
    BY <2>3, <2>4
<1> QED
  BY <1>3, <1>4, <1>5

\* acquireBuild keeps the invariant: the limit is compared with a counter that
\* grows with it.
LEMMA acquireBuildKeeps ==
    ASSUME IInv, NEW w \in Workers, acquireBuild(w)
    PROVE  IInv'
<1>1. PICK q : q = worker[w].runner
  OBVIOUS
<1>2. /\ WorkersOK(worker, config) /\ worker[w].pc = "processing" /\ q \in Runners
      /\ TypeOK /\ TokensAreIssued /\ CountersAreLimited /\ BuildsAreCounted
      /\ builds \in [Tokens -> Nat] /\ feeder \in Feeders(config)
  BY <1>1, TypeOKParts DEF IInv, acquireBuild, WorkersOK
<1>3. /\ WorkersOK(worker', config)
      /\ \A v \in Workers : v # w => worker'[v] = worker[v]
      /\ worker'[w].pc = "slot" /\ worker'[w].runner = q
  BY <1>1, <1>2, MovesOn DEF acquireBuild, Held
<1>4. PICK t \in 0 .. MaxRotations : Token(w) = <<q, t>> /\ t <= issued[q] /\ issued[q] \in Nat
  BY <1>1, <1>2, TokenType
<1>5. UNCHANGED <<configuration, resets, feeder>>
  BY DEF acquireBuild
<1>6. builds' = [builds EXCEPT ![<<q, t>>] = builds[<<q, t>>] + 1]
  BY <1>4 DEF acquireBuild
<1>7. /\ builds' \in [Tokens -> Nat]
      /\ builds'[<<q, t>>] = builds[<<q, t>>] + 1
      /\ \A r \in Runners, u \in 0 .. MaxRotations :
            r # q \/ u # t => builds'[<<r, u>>] = builds[<<r, u>>]
      /\ \A r \in Runners : r # q => Slots(r)' = Slots(r)
      /\ \E p : p \notin Slots(q) /\ Slots(q)' = Slots(q) \union {p}
  BY <1>2, <1>6, SlotAdded
<1>8. TypeOK'
  BY <1>2, <1>3, <1>5, <1>7, WorkersType
<1>9. TokensAreIssued'
  <2> SUFFICES ASSUME NEW r \in Runners
               PROVE  /\ file[r] <= issued[r]
                      /\ \A c \in Configs : token[c][r] <= issued[r]
                      /\ \A u \in 0 .. MaxRotations : u > issued[r] => builds'[<<r, u>>] = 0
    BY <1>5 DEF TokensAreIssued, configuration
  <2>1. \A u \in 0 .. MaxRotations : u > issued[r] => r # q \/ u # t
    BY <1>4
  <2> QED
    BY <1>2, <1>7, <2>1 DEF TokensAreIssued
<1>10. CountersAreLimited'
  <2>1. PICK d : d = worker[w].config
    OBVIOUS
  <2>2. d \in 0 .. config
    BY <1>2, <2>1 DEF WorkersOK, WorkerStates
  <2>3. limit[d][q] = 0 \/ builds[<<q, t>>] < limit[d][q]
    <3>1. limit[d][q] \in Nat /\ builds[<<q, t>>] \in Nat
      BY <1>2, <2>2, LimitType DEF Tokens
    <3>2. ~(limit[d][q] > 0 /\ builds[<<q, t>>] >= limit[d][q])
      BY <1>1, <1>4, <2>1 DEF acquireBuild, LimitMet, LimitOf
    <3> QED
      BY <3>1, <3>2
  <2>4. UNCHANGED <<config, limit>>
    BY <1>5 DEF configuration
  <2> QED
    BY <1>2, <1>7, <2>2, <2>3, <2>4, AcquiredIsLimited
<1>11. BuildsAreCounted'
  <2> SUFFICES ASSUME NEW r \in Runners
               PROVE  /\ IsFiniteSet(Slots(r))'
                      /\ (Cardinality(Holders(r)) <= Cardinality(Slots(r)))'
    BY DEF BuildsAreCounted
  <2> DEFINE X == Holders(r)
             Y == Holders(r)'
             S == Slots(r)
             T == Slots(r)'
  <2>1. X \in SUBSET Workers /\ Y \in SUBSET Workers
    BY DEF Holders
  <2>2. IsFiniteSet(S) /\ Cardinality(X) <= Cardinality(S)
    BY <1>2 DEF BuildsAreCounted
  <2>3. CASE r # q
    <3>1. Y = X /\ T = S
      BY <1>1, <1>2, <1>3, <1>7, <2>3 DEF Holders, Held
    <3> QED
      BY <2>2, <3>1
  <2>4. CASE r = q
    <3>1. w \notin X /\ Y = X \union {w}
      BY <1>1, <1>2, <1>3, <2>4 DEF Holders, Held
    <3>2. PICK p : p \notin S /\ T = S \union {p}
      BY <1>7, <2>4
    <3> HIDE DEF X, Y, S, T
    <3>3. IsFiniteSet(X) /\ Cardinality(X) \in Nat /\ Cardinality(S) \in Nat
      BY <2>1, <2>2, HoldersFinite, FS_CardinalityType
    <3>4. Cardinality(Y) = Cardinality(X) + 1
      BY <3>1, <3>3, FS_AddElement
    <3>5. IsFiniteSet(T) /\ Cardinality(T) = Cardinality(S) + 1
      BY <2>2, <3>2, FS_AddElement
    <3>6. Cardinality(Y) <= Cardinality(T)
      BY <2>2, <3>3, <3>4, <3>5
    <3> QED
      BY <3>5, <3>6 DEF Y, T
  <2> QED
    BY <2>3, <2>4
<1>12. BuildsHaveOwnDirectory'
  BY <1>3, DirectoriesKept DEF IInv
<1> QED
  BY <1>8, <1>9, <1>10, <1>11, <1>12 DEF IInv

\* releaseBuild keeps the invariant: it takes at most one from one of the runner's
\* counters, whichever the build was counted in.
LEMMA releaseBuildKeeps ==
    ASSUME IInv, NEW w \in Workers, releaseBuild(w)
    PROVE  IInv'
<1>1. PICK q : q = worker[w].runner
  OBVIOUS
<1>2. /\ WorkersOK(worker, config) /\ worker[w].pc = "releasing" /\ q \in Runners
      /\ TypeOK /\ TokensAreIssued /\ CountersAreLimited /\ BuildsAreCounted
      /\ builds \in [Tokens -> Nat] /\ feeder \in Feeders(config) /\ config \in Nat
  BY <1>1, TypeOKParts, RunnerAssumption DEF IInv, releaseBuild, WorkersOK, Held, Configs
<1>3. /\ WorkersOK(worker', config)
      /\ \A v \in Workers : v # w => worker'[v] = worker[v]
      /\ worker'[w].pc \notin Held
  <2>1. Looped \in WorkerStates(config) /\ Looped.pc \in {"idle", "stopping"}
    BY <1>2, AtRestType DEF Looped
  <2> QED
    BY <2>1, <1>2, GetsState DEF releaseBuild, Loops, Held
<1>4. PICK t \in 0 .. MaxRotations : Token(w) = <<q, t>> /\ t <= issued[q] /\ issued[q] \in Nat
  BY <1>1, <1>2, TokenType
<1>5. UNCHANGED <<configuration, resets, feeder>>
  BY DEF releaseBuild
<1>6. builds' = [builds EXCEPT ![<<q, t>>] =
                    IF builds[<<q, t>>] > 0 THEN builds[<<q, t>>] - 1 ELSE 0]
  BY <1>4 DEF releaseBuild
<1>7. /\ builds' \in [Tokens -> Nat]
      /\ \A r \in Runners, u \in 0 .. MaxRotations : builds'[<<r, u>>] <= builds[<<r, u>>]
      /\ \A r \in Runners : r # q => Slots(r)' = Slots(r)
      /\ \/ Slots(q)' = Slots(q)
         \/ \E p \in Slots(q) : Slots(q)' = Slots(q) \ {p}
  BY <1>2, <1>6, SlotRemoved
<1>8. \A r \in Runners, u \in 0 .. MaxRotations :
         builds[<<r, u>>] \in Nat /\ builds'[<<r, u>>] \in Nat
  BY <1>2, <1>7 DEF Tokens
<1>9. TypeOK'
  BY <1>2, <1>3, <1>5, <1>7, WorkersType
<1>10. TokensAreIssued'
  <2>1. \A r \in Runners, u \in 0 .. MaxRotations : builds[<<r, u>>] = 0 => builds'[<<r, u>>] = 0
    BY <1>7, <1>8
  <2> QED
    BY <1>2, <1>5, <2>1 DEF TokensAreIssued, configuration
<1>11. CountersAreLimited'
  <2> SUFFICES ASSUME NEW r \in Runners
               PROVE  \E c \in 0 .. config : limit[c][r] = 0 \/
                         \A u \in 0 .. MaxRotations : builds'[<<r, u>>] <= limit[c][r]
    BY <1>5 DEF CountersAreLimited, configuration
  <2>1. PICK c \in 0 .. config : limit[c][r] = 0 \/
           \A u \in 0 .. MaxRotations : builds[<<r, u>>] <= limit[c][r]
    BY <1>2 DEF CountersAreLimited
  <2>2. limit[c][r] \in Nat
    BY <1>2, LimitType
  <2>3. limit[c][r] = 0 \/ \A u \in 0 .. MaxRotations : builds'[<<r, u>>] <= limit[c][r]
    BY <1>7, <1>8, <2>1, <2>2
  <2> QED
    BY <2>3
<1>12. BuildsAreCounted'
  <2> SUFFICES ASSUME NEW r \in Runners
               PROVE  /\ IsFiniteSet(Slots(r))'
                      /\ (Cardinality(Holders(r)) <= Cardinality(Slots(r)))'
    BY DEF BuildsAreCounted
  <2> DEFINE X == Holders(r)
             Y == Holders(r)'
             S == Slots(r)
             T == Slots(r)'
  <2>1. X \in SUBSET Workers /\ Y \in SUBSET Workers
    BY DEF Holders
  <2>2. IsFiniteSet(S) /\ Cardinality(X) <= Cardinality(S)
    BY <1>2 DEF BuildsAreCounted
  <2>3. CASE r # q
    <3>1. Y = X /\ T = S
      BY <1>1, <1>2, <1>3, <1>7, <2>3 DEF Holders, Held
    <3> QED
      BY <2>2, <3>1
  <2>4. CASE r = q
    <3>1. w \in X /\ Y = X \ {w}
      BY <1>1, <1>2, <1>3, <2>4 DEF Holders, Held
    <3>2. T = S \/ \E p \in S : T = S \ {p}
      BY <1>7, <2>4
    <3> HIDE DEF X, Y, S, T
    <3>3. IsFiniteSet(X) /\ Cardinality(X) \in Nat /\ Cardinality(S) \in Nat
      BY <2>1, <2>2, HoldersFinite, FS_CardinalityType
    <3>4. Cardinality(Y) = Cardinality(X) - 1
      BY <3>1, <3>3, FS_RemoveElement
    <3>5. IsFiniteSet(T) /\ (Cardinality(T) = Cardinality(S) \/ Cardinality(T) = Cardinality(S) - 1)
      BY <2>2, <3>2, FS_RemoveElement
    <3>6. Cardinality(Y) <= Cardinality(T)
      BY <2>2, <3>3, <3>4, <3>5
    <3> QED
      BY <3>5, <3>6 DEF Y, T
  <2> QED
    BY <2>3, <2>4
<1>13. BuildsHaveOwnDirectory'
  BY <1>3, DirectoriesKept DEF IInv, Held
<1> QED
  BY <1>9, <1>10, <1>11, <1>12, <1>13 DEF IInv

\* StartBuild keeps the invariant: the build gets a number that no other one with
\* its token has, and w keeps the place that it has acquired.
LEMMA StartBuildKeeps ==
    ASSUME IInv, NEW w \in Workers, StartBuild(w)
    PROVE  IInv'
<1> DEFINE t == Token(w)
           b == [worker[w] EXCEPT !.pc = "running", !.token = t[2], !.id = FreeID(t)]
<1>1. /\ WorkersOK(worker, config) /\ worker[w].pc = "accepted" /\ worker[w].runner \in Runners
      /\ config \in Nat /\ feeder \in Feeders(config)
  BY TypeOKParts, RunnerAssumption DEF IInv, StartBuild, WorkersOK, Held, Configs
<1>2. worker[w] \in WorkerStates(config) /\ worker[w].config \in 0 .. config
  BY <1>1 DEF WorkersOK, WorkerStates
<1>3. t = <<worker[w].runner, t[2]>> /\ t[2] \in 0 .. MaxRotations
  BY <1>1, TokenType DEF IInv
<1>4. FreeID(t) \in Nat /\ FreeID(t) \notin UsedIDs(t)
  BY FreeIDIsFree
<1>5. requeueRunner(w, b) /\ UNCHANGED <<control, configuration, resets, feeder, counters>>
  BY DEF StartBuild
<1> HIDE DEF t
<1>6. /\ b \in WorkerStates(config)
      /\ b.pc = "running" /\ b.token = t[2] /\ b.id = FreeID(t)
      /\ b.config = worker[w].config /\ b.runner = worker[w].runner
  <2> DEFINE x == [worker[w] EXCEPT !.pc = "running"]
             y == [x EXCEPT !.token = t[2]]
             z == [y EXCEPT !.id = FreeID(t)]
  <2>1. /\ x \in WorkerStates(config) /\ x.pc = "running"
        /\ x.config = worker[w].config /\ x.runner = worker[w].runner
    BY <1>2 DEF WorkerStates, Held
  <2> HIDE DEF x
  <2>2. /\ y \in WorkerStates(config) /\ y.pc = "running" /\ y.token = t[2]
        /\ y.config = worker[w].config /\ y.runner = worker[w].runner
    BY <2>1, <1>3 DEF WorkerStates
  <2> HIDE DEF y
  <2>3. /\ z \in WorkerStates(config) /\ z.pc = "running" /\ z.token = t[2] /\ z.id = FreeID(t)
        /\ z.config = worker[w].config /\ z.runner = worker[w].runner
    BY <2>2, <1>4 DEF WorkerStates
  <2> HIDE DEF z
  <2>4. b = z
    BY Zenon DEF x, y, z
  <2> HIDE DEF b
  <2> QED
    BY <2>3, <2>4
<1> HIDE DEF b
<1>7. /\ WorkersOK(worker', config) /\ worker'[w] = b
      /\ \A u \in Workers : u # w => worker'[u] = worker[u] \/ worker'[u].pc = "processing"
  <2>1. CASE worker' = [worker EXCEPT ![w] = b]
    BY <2>1, <1>1, <1>6 DEF WorkersOK
  <2>2. ASSUME NEW v \in In("idle"),
               worker' = [worker EXCEPT ![w] = b, ![v] = Taken(b.config, b.runner)]
        PROVE  /\ WorkersOK(worker', config) /\ worker'[w] = b
               /\ \A u \in Workers :
                     u # w => worker'[u] = worker[u] \/ worker'[u].pc = "processing"
    <3>a. PICK c, r : c = b.config /\ r = b.runner
      OBVIOUS
    <3>b. c \in 0 .. config /\ r \in Runners
      BY <1>1, <1>2, <1>6, <3>a DEF WorkersOK, WorkerStates
    <3> DEFINE d == Taken(c, r)
    <3>1. d \in WorkerStates(config) /\ d.pc = "processing" /\ d.runner \in Runners
      <4>1. d \in WorkerStates(config)
        BY <1>1, <3>b, TakenType
      <4>2. d.pc = "processing" /\ d.runner = r
        BY TakenIs
      <4> QED
        BY <3>b, <4>1, <4>2
    <3> HIDE DEF d
    <3>2. v \in Workers /\ v # w
      BY <1>1 DEF In
    <3>3. worker' = [worker EXCEPT ![w] = b, ![v] = d]
      BY <2>2, <3>a, Zenon DEF d
    <3>4. /\ worker' \in [Workers -> WorkerStates(config)] /\ worker'[w] = b /\ worker'[v] = d
          /\ \A u \in Workers : u # w /\ u # v => worker'[u] = worker[u]
      BY <3>1, <3>2, <3>3, <1>1, <1>6 DEF WorkersOK
    <3> QED
      BY <3>1, <3>2, <3>4, <1>1, <1>6 DEF WorkersOK
  <2> QED
    BY <2>1, <2>2, <1>5 DEF requeueRunner
<1>8. TypeOK'
  BY <1>1, <1>5, <1>7, WorkersType, TypeOKParts DEF IInv, counters
<1>9. TokensAreIssued' /\ CountersAreLimited'
  BY <1>5 DEF IInv, TokensAreIssued, CountersAreLimited, configuration, counters
<1>10. BuildsAreCounted'
  <2>1. \A v \in Workers : worker'[v].pc \in Held =>
            worker[v].pc \in Held /\ worker'[v].runner = worker[v].runner
    BY <1>1, <1>6, <1>7 DEF Held
  <2> QED
    BY <2>1, <1>5, CountsKept DEF IInv, counters
<1>11. BuildsHaveOwnDirectory'
  <2>1. \A u \in Workers : u # w /\ worker'[u].pc = "running" =>
            worker'[u] = worker[u] /\ worker[u].pc = "running"
    BY <1>7
  <2>2. \A u \in Workers :
            /\ worker[u].pc = "running" /\ worker[u].runner = worker[w].runner
            /\ worker[u].token = t[2]
            => worker[u].id # FreeID(t)
    BY <1>3, <1>4 DEF UsedIDs, In
  <2> QED
    BY <2>1, <2>2, <1>6, <1>7 DEF IInv, BuildsHaveOwnDirectory, In
<1> QED
  BY <1>8, <1>9, <1>10, <1>11 DEF IInv

\* Everything else that workers do keeps the invariant.
LEMMA WorkKeeps ==
    ASSUME IInv, NEW w \in Workers, Work(w) \/ StartWorker(w) \/ StopWorker(w)
    PROVE  IInv'
<1>1. /\ WorkersOK(worker, config) /\ feeder \in Feeders(config)
      /\ config \in Nat
  BY TypeOKParts, RunnerAssumption DEF IInv, Configs
<1>2. Looped \in WorkerStates(config) /\ Looped.pc \in {"idle", "stopping"}
  BY <1>1, AtRestType DEF Looped
<1>3. Advances => feeder' \in Feeders(config)
  BY <1>1, RunnerAssumption DEF Advances, Feeders
<1>4. CASE feedRunner(w)
  <2>1. PICK c, r : c = feeder.config /\ r = feeder.next
    OBVIOUS
  <2>2. c \in 0 .. config /\ r \in Runners
    BY <1>1, <1>4, <2>1 DEF feedRunner, Runners, Feeders
  <2>3. PICK b : b = Taken(c, r)
    OBVIOUS
  <2>4. b \in WorkerStates(config) /\ b.pc = "processing" /\ b.runner = r
    <3>1. Taken(c, r) \in WorkerStates(config)
      BY <1>1, <2>2, TakenType
    <3>2. Taken(c, r).pc = "processing" /\ Taken(c, r).runner = r
      BY TakenIs
    <3> QED
      BY <3>1, <3>2, <2>3
  <2>5. worker' = [worker EXCEPT ![w] = b]
    BY <1>4, <2>1, <2>3 DEF feedRunner
  <2> QED
    BY <2>2, <2>4, <2>5, <1>3, <1>4, GetsStateKeeps DEF feedRunner, counters, Held
<1>5. CASE NoBuild(w)
  BY <1>1, <1>2, <1>5, GetsStateKeeps DEF NoBuild, Loops, counters, Held
<1>6. CASE acquireRequest(w)
  BY <1>6, MovesOnKeeps DEF acquireRequest, Held
<1>7. CASE NoRequest(w)
  BY <1>7, MovesOnKeeps DEF NoRequest, counters, Held
<1>8. CASE RequestReturns(w)
  BY <1>8, MovesOnKeeps DEF RequestReturns, Held
<1>9. CASE BuildEnds(w)
  <2>1. PICK c, r : c = worker[w].config /\ r = worker[w].runner
    OBVIOUS
  <2>2. worker[w].pc \in Held /\ c \in 0 .. config /\ r \in Runners
    BY <1>1, <1>9, <2>1 DEF BuildEnds, WorkersOK, WorkerStates, Held
  <2>3. PICK b : b = [Taken(c, r) EXCEPT !.pc = "releasing"]
    OBVIOUS
  <2>4. b \in WorkerStates(config) /\ b.pc = "releasing" /\ b.runner = r
    BY <1>1, <2>2, <2>3, TakenType
  <2>5. worker' = [worker EXCEPT ![w] = b]
    BY <1>9, <2>1, <2>3 DEF BuildEnds
  <2> QED
    BY <1>1, <1>9, <2>1, <2>2, <2>4, <2>5, GetsStateKeeps DEF BuildEnds, counters
<1>10. CASE StartWorker(w)
  BY <1>1, <1>2, <1>10, GetsStateKeeps DEF StartWorker, counters, Held
<1>11. CASE StopWorker(w)
  <2>1. AtRest("absent") \in WorkerStates(config) /\ AtRest("absent").pc = "absent"
    BY <1>1, AtRestType
  <2> QED
    BY <1>1, <1>11, <2>1, GetsStateKeeps DEF StopWorker, counters, Held
<1> QED
  BY <1>4, <1>5, <1>6, <1>7, <1>8, <1>9, <1>10, <1>11,
     acquireBuildKeeps, releaseBuildKeeps, StartBuildKeeps DEF Work

\* Steps that leave the workers and the counters alone: those of run, of Stop and of
\* resetRunnerTokens.
LEMMA OthersKeep ==
    ASSUME IInv, UNCHANGED <<worker, builds>>,
           config' \in Configs, config' >= config,
           limit' \in [Configs -> Limits], \A c \in 0 .. config : limit'[c] = limit[c],
           token' \in [Configs -> [Runners -> 0 .. MaxRotations]],
           {file', issued'} \subseteq [Runners -> 0 .. MaxRotations],
           resetter' \in Resetters(config'),
           resetter'.pc # "waiting" => resetter'.runner \in Runners,
           feeder' \in Feeders(config'),
           TokensAreIssued'
    PROVE  IInv'
<1>1. /\ TypeOK /\ WorkersOK(worker, config) /\ builds \in [Tokens -> Nat] /\ config \in Nat
      /\ config' \in Nat
  BY TypeOKParts, RunnerAssumption DEF IInv, Configs
<1>2. WorkersOK(worker', config')
  <2>1. 0 .. config \subseteq 0 .. config'
    BY <1>1
  <2>2. \A b \in WorkerStates(config) : b \in WorkerStates(config')
    BY <2>1 DEF WorkerStates
  <2> QED
    BY <1>1, <2>2 DEF WorkersOK
<1>3. TypeOK'
  BY <1>1, <1>2 DEF TypeOK, WorkersOK, WorkerStates, Resetters, Feeders
<1>4. CountersAreLimited'
  <2>1. \A c \in 0 .. config : c \in 0 .. config'
    BY <1>1
  <2> QED
    BY <2>1 DEF IInv, CountersAreLimited
<1>5. BuildsAreCounted'
  BY CountsKept DEF IInv
<1>6. BuildsHaveOwnDirectory'
  BY DirectoriesKept DEF IInv
<1> QED
  BY <1>3, <1>4, <1>5, <1>6 DEF IInv

\* Those of them that leave the configurations alone.
LEMMA OthersKeepConfiguration ==
    ASSUME IInv, UNCHANGED <<worker, builds, configuration>>,
           resetter' \in Resetters(config),
           resetter'.pc # "waiting" => resetter'.runner \in Runners,
           feeder' \in Feeders(config)
    PROVE  IInv'
<1>1. UNCHANGED <<config, limit, token, file, issued>>
  BY DEF configuration
<1>2. /\ config \in Configs /\ limit \in [Configs -> Limits]
      /\ token \in [Configs -> [Runners -> 0 .. MaxRotations]]
      /\ {file, issued} \subseteq [Runners -> 0 .. MaxRotations]
      /\ config >= config
  BY TypeOKParts, RunnerAssumption DEF IInv, Configs
<1>3. TokensAreIssued'
  BY <1>1 DEF IInv, TokensAreIssued
<1> QED
  BY <1>1, <1>2, <1>3, OthersKeep

\* A reload takes over the tokens that were saved, and changes no limit of an earlier
\* configuration.
LEMMA reloadConfigKeeps ==
    ASSUME IInv, reloadConfig
    PROVE  IInv'
<1>1. /\ config \in Configs /\ limit \in [Configs -> Limits]
      /\ token \in [Configs -> [Runners -> 0 .. MaxRotations]]
      /\ file \in [Runners -> 0 .. MaxRotations] /\ issued \in [Runners -> 0 .. MaxRotations]
      /\ resetter \in Resetters(config) /\ (resetter.pc # "waiting" => resetter.runner \in Runners)
      /\ feeder \in Feeders(config) /\ TokensAreIssued
  BY TypeOKParts DEF IInv
<1>2. /\ config' = config + 1 /\ config < MaxReloads
      /\ token' = [token EXCEPT ![config + 1] = file]
      /\ UNCHANGED <<file, issued, resetter, feeder, worker, builds>>
  BY DEF reloadConfig, resets, counters
<1>3. PICK l \in Limits : limit' = [limit EXCEPT ![config + 1] = l]
  BY DEF reloadConfig
<1>4. config' \in Configs /\ config' >= config /\ config \in Nat /\ config + 1 \in Configs
  BY <1>1, <1>2, RunnerAssumption DEF Configs
<1>5. limit' \in [Configs -> Limits] /\ \A c \in 0 .. config : limit'[c] = limit[c]
  <2>1. \A c \in 0 .. config : c \in Configs /\ c # config + 1
    BY <1>1, <1>4, RunnerAssumption DEF Configs
  <2> QED
    BY <1>1, <1>3, <1>4, <2>1
<1>6. /\ token' \in [Configs -> [Runners -> 0 .. MaxRotations]]
      /\ \A c \in Configs : token'[c] = token[c] \/ token'[c] = file
  BY <1>1, <1>2, <1>4
<1>7. TokensAreIssued'
  BY <1>1, <1>2, <1>6 DEF TokensAreIssued
<1>8. \A c \in 0 .. config : c \in 0 .. config'
  BY <1>2, <1>4
<1>9. resetter' \in Resetters(config') /\ feeder' \in Feeders(config')
  BY <1>1, <1>2, <1>8 DEF Resetters, Feeders
<1>10. {file', issued'} \subseteq [Runners -> 0 .. MaxRotations]
  BY <1>1, <1>2
<1> QED
  BY <1>1, <1>2, <1>4, <1>5, <1>6, <1>7, <1>9, <1>10, OthersKeep

\* A new token is issued, and may be written into a configuration that is not the
\* current one; or the tokens of the current one are saved.
LEMMA ResetKeeps ==
    ASSUME IInv, ReloadSeen \/ ResetReturns \/ \E r \in Expiring : ResetDue(r)
    PROVE  IInv'
<1>1. /\ config \in Configs /\ limit \in [Configs -> Limits] /\ config \in Nat
      /\ token \in [Configs -> [Runners -> 0 .. MaxRotations]]
      /\ file \in [Runners -> 0 .. MaxRotations] /\ issued \in [Runners -> 0 .. MaxRotations]
      /\ resetter \in Resetters(config) /\ (resetter.pc # "waiting" => resetter.runner \in Runners)
      /\ feeder \in Feeders(config) /\ TokensAreIssued
  BY TypeOKParts, RunnerAssumption DEF IInv, Configs
<1>2. Waiting(config) \in Resetters(config) /\ Waiting(config).pc = "waiting"
  BY <1>1, RunnerAssumption DEF Waiting, Resetters
<1>3. ASSUME NEW r \in Expiring, ResetDue(r) PROVE IInv'
  <2>1. r \in Runners
    BY RunnerAssumption DEF Runners
  <2>2. resetter' \in Resetters(config) /\ resetter'.runner = r
    <3> DEFINE x == [resetter EXCEPT !.pc = "resetting"]
               y == [x EXCEPT !.runner = r]
    <3>1. x \in Resetters(config)
      BY <1>1 DEF Resetters
    <3> HIDE DEF x
    <3>2. y \in Resetters(config) /\ y.runner = r
      BY <3>1, <2>1 DEF Resetters, Runners
    <3> HIDE DEF y
    <3>3. resetter' = y
      BY <1>3, Zenon DEF ResetDue, x, y
    <3> QED
      BY <3>2, <3>3
  <2>3. UNCHANGED <<worker, builds, configuration, feeder>>
    BY <1>3 DEF ResetDue, counters
  <2> QED
    BY <1>1, <2>1, <2>2, <2>3, OthersKeepConfiguration
<1>4. CASE ReloadSeen \/ ResetFails
  BY <1>1, <1>2, <1>4, OthersKeepConfiguration DEF ReloadSeen, ResetFails, counters
<1>5. CASE ResetToken
  <2>1. PICK d, r : d = resetter.config /\ r = resetter.runner
    OBVIOUS
  <2>2. d \in Configs /\ r \in Runners
    BY <1>1, <1>5, <2>1, RunnerAssumption DEF ResetToken, Resetters, Configs
  <2>3. /\ issued[r] < MaxRotations /\ issued' = [issued EXCEPT ![r] = issued[r] + 1]
        /\ token' = [token EXCEPT ![d] = [token[d] EXCEPT ![r] = issued[r] + 1]]
        /\ UNCHANGED <<config, limit, file, feeder, worker, builds>>
    BY <1>5, <2>1 DEF ResetToken, counters
  <2>4. issued[r] \in Nat /\ issued[r] + 1 \in 0 .. MaxRotations
    BY <1>1, <2>2, <2>3, RunnerAssumption
  <2>5. /\ issued' \in [Runners -> 0 .. MaxRotations] /\ issued'[r] = issued[r] + 1
        /\ \A q \in Runners : q # r => issued'[q] = issued[q]
    BY <1>1, <2>2, <2>3, <2>4
  <2>6. /\ token' \in [Configs -> [Runners -> 0 .. MaxRotations]]
        /\ \A c \in Configs, q \in Runners :
              token'[c][q] = token[c][q] \/ (q = r /\ token'[c][q] = issued[r] + 1)
    BY <1>1, <2>2, <2>3, <2>4
  <2>7. TokensAreIssued'
    <3> SUFFICES ASSUME NEW q \in Runners
                 PROVE  /\ file[q] <= issued'[q]
                        /\ \A c \in Configs : token'[c][q] <= issued'[q]
                        /\ \A t \in 0 .. MaxRotations : t > issued'[q] => builds[<<q, t>>] = 0
      BY <2>3 DEF TokensAreIssued
    <3>1. issued[q] \in Nat /\ file[q] \in Nat /\ issued'[q] \in Nat
      BY <1>1, <2>5, RunnerAssumption
    <3>2. issued'[q] >= issued[q] /\ (q = r => issued'[q] = issued[r] + 1)
      BY <2>4, <2>5, <3>1
    <3>3. file[q] <= issued'[q]
      BY <1>1, <3>1, <3>2 DEF TokensAreIssued
    <3>4. ASSUME NEW c \in Configs PROVE token'[c][q] <= issued'[q]
      <4>1. token[c][q] \in Nat /\ token[c][q] <= issued[q]
        BY <1>1, RunnerAssumption DEF TokensAreIssued
      <4> QED
        BY <2>4, <2>6, <3>1, <3>2, <4>1
    <3>5. \A t \in 0 .. MaxRotations : t > issued'[q] => builds[<<q, t>>] = 0
      BY <1>1, <3>1, <3>2 DEF TokensAreIssued
    <3> QED
      BY <3>3, <3>4, <3>5
  <2>8. resetter' \in Resetters(config) /\ resetter'.runner = r
    BY <1>1, <1>5, <2>1 DEF ResetToken, Resetters
  <2>9. {file', issued'} \subseteq [Runners -> 0 .. MaxRotations] /\ config >= config
    BY <1>1, <2>3, <2>5
  <2> QED
    BY <1>1, <2>2, <2>3, <2>6, <2>7, <2>8, <2>9, OthersKeep
<1>6. CASE SaveConfig
  <2>1. /\ file' = token[config] \/ file' = file
        /\ resetter' = Waiting(config)
        /\ UNCHANGED <<config, limit, token, issued, feeder, worker, builds>>
    BY <1>6 DEF SaveConfig, counters
  <2>2. {file', issued'} \subseteq [Runners -> 0 .. MaxRotations] /\ config >= config
    BY <1>1, <2>1
  <2>3. TokensAreIssued'
    BY <1>1, <2>1 DEF TokensAreIssued
  <2> QED
    BY <1>1, <1>2, <2>1, <2>2, <2>3, OthersKeep
<1> QED
  BY <1>3, <1>4, <1>5, <1>6 DEF ResetReturns

\* Every step keeps the invariant.
LEMMA NextKeeps == IInv /\ [Next]_vars => IInv'
<1> SUFFICES ASSUME IInv, [Next]_vars PROVE IInv'
  OBVIOUS
<1>1. /\ config \in Configs /\ config \in Nat /\ feeder \in Feeders(config)
      /\ resetter \in Resetters(config) /\ (resetter.pc # "waiting" => resetter.runner \in Runners)
  BY TypeOKParts, RunnerAssumption DEF IInv, Configs
<1>2. CASE StartPass \/ SkipRunner
  <2>1. feeder' \in Feeders(config)
    BY <1>1, <1>2, RunnerAssumption DEF StartPass, SkipRunner, Advances, Feeders
  <2> QED
    BY <2>1, <1>1, <1>2, OthersKeepConfiguration DEF StartPass, SkipRunner, resets, counters
<1>3. CASE Scaled \/ NotifyReloaded \/ Interrupted \/ RunFinished \/ CleanExit \/ ForcedExit
  BY <1>1, <1>3, OthersKeepConfiguration
     DEF Scaled, NotifyReloaded, Interrupted, RunFinished, CleanExit, ForcedExit, resets, counters
<1>4. ASSUME NEW s, Signal(s) PROVE IInv'
  BY <1>1, <1>4, OthersKeepConfiguration DEF Signal, resets, counters
<1>5. CASE UNCHANGED vars
  BY <1>1, <1>5, OthersKeepConfiguration DEF vars, resets, counters
<1>6. CASE Next
  BY <1>6, <1>2, <1>3, <1>4, WorkKeeps, reloadConfigKeeps, ResetKeeps
     DEF Next, Progress, ResetProgress, ResetRestarts
<1> QED
  BY <1>5, <1>6

\* It holds when the process starts.
LEMMA InitHolds == Init => IInv
<1> SUFFICES ASSUME Init PROVE IInv
  OBVIOUS
<1> USE RunnerAssumption
<1>1. WorkersOK(worker, config) /\ \A w \in Workers : worker[w].pc = "absent"
  BY AtRestType DEF Init, WorkersOK, Held
<1>2. TypeOK
  <2>1. resetter \in Resetters(config) /\ resetter.pc = "waiting" /\ feeder \in Feeders(config)
    BY DEF Init, Waiting, Resetters, Feeders
  <2>2. config \in Configs /\ limit \in [Configs -> Limits] /\ builds \in [Tokens -> Nat]
    BY DEF Init, Configs
  <2>3. /\ token \in [Configs -> [Runners -> 0 .. MaxRotations]]
        /\ {file, issued} \subseteq [Runners -> 0 .. MaxRotations]
    BY DEF Init
  <2> QED
    BY <1>1, <2>1, <2>2, <2>3, TypeOKParts
<1>3. \A r \in Runners, t \in 0 .. MaxRotations : builds[<<r, t>>] = 0
  BY DEF Init, Tokens
<1>4. TokensAreIssued
  BY <1>3 DEF Init, TokensAreIssued
<1>5. CountersAreLimited
  <2> SUFFICES ASSUME NEW r \in Runners
               PROVE  \E c \in 0 .. config : limit[c][r] = 0 \/
                         \A t \in 0 .. MaxRotations : builds[<<r, t>>] <= limit[c][r]
    BY DEF CountersAreLimited
  <2>1. 0 \in 0 .. config
    BY DEF Init
  <2>2. limit[0][r] \in Nat
    BY <1>2, <2>1, LimitType
  <2>3. \A t \in 0 .. MaxRotations : builds[<<r, t>>] <= limit[0][r]
    BY <1>3, <2>2
  <2> QED
    BY <2>1, <2>3
<1>6. BuildsAreCounted
  <2> SUFFICES ASSUME NEW r \in Runners
               PROVE  IsFiniteSet(Slots(r)) /\ Cardinality(Holders(r)) <= Cardinality(Slots(r))
    BY DEF BuildsAreCounted
  <2>1. Holders(r) = {}
    BY <1>1 DEF Holders, Held
  <2>2. Slots(r) = {}
    <3>1. builds \in [Tokens -> Nat] /\ Slots(r) = SlotsOf(builds, r)
      BY DEF Init, Slots, SlotsOf
    <3>2. \A t, k : <<t, k>> \in Slots(r) =>
              t \in 0 .. MaxRotations /\ k \in Nat \ {0} /\ k <= builds[<<r, t>>]
      BY <3>1, SlotsMembers
    <3>4. ASSUME NEW t, NEW k, <<t, k>> \in Slots(r) PROVE FALSE
      <4>1. t \in 0 .. MaxRotations /\ k \in Nat \ {0} /\ k <= builds[<<r, t>>]
        BY <3>2, <3>4
      <4>2. builds[<<r, t>>] = 0
        BY <1>3, <4>1
      <4> QED
        BY <4>1, <4>2
    <3>3. \A p \in Slots(r) : \E t, k : p = <<t, k>>
      BY <3>1, SlotsMembers
    <3> QED
      BY <3>3, <3>4
  <2> QED
    BY <2>1, <2>2, FS_EmptySet
<1>7. BuildsHaveOwnDirectory
  BY <1>1 DEF BuildsHaveOwnDirectory, In
<1> QED
  BY <1>2, <1>4, <1>5, <1>6, <1>7 DEF IInv

\* So it always holds.
LEMMA InvariantHolds == Spec => []IInv
  BY InitHolds, NextKeeps, PTL DEF Spec

-----------------------------------------------------------------------------
(* Theorems *)

\* However many workers ask for jobs, builds end in any order, configurations are
\* reloaded and tokens are reset: two builds that run at the same time never
\* have the same directory.
THEOREM BuildsHaveOwnDirectoryCorrect == Spec => []BuildsHaveOwnDirectory
<1>1. IInv => BuildsHaveOwnDirectory
  BY DEF IInv
<1> QED
  BY <1>1, InvariantHolds, PTL

\* The builds that all counters of a runner know of fill a rectangle at most: the
\* tokens that were issued by the highest limit.
LEMMA InvariantLimits == IInv => LimitHolds
<1> SUFFICES ASSUME IInv, NEW r \in Runners
             PROVE  \E c \in 0 .. config :
                       limit[c][r] = 0 \/ Cardinality(Jobs(r)) <= (1 + issued[r]) * limit[c][r]
  BY DEF LimitHolds
<1>1. TypeOK /\ TokensAreIssued /\ BuildsAreCounted /\ builds \in [Tokens -> Nat]
  BY DEF IInv, TypeOK
<1>2. PICK c \in 0 .. config : limit[c][r] = 0 \/
         \A t \in 0 .. MaxRotations : builds[<<r, t>>] <= limit[c][r]
  BY DEF IInv, CountersAreLimited
<1>3. CASE limit[c][r] = 0
  BY <1>3
<1>4. CASE limit[c][r] # 0
  <2>1. PICK n, m : n = issued[r] /\ m = limit[c][r]
    OBVIOUS
  <2>2. n \in Nat /\ n <= MaxRotations /\ m \in Nat
    <3>1. limit[c][r] \in Nat
      BY <1>1, LimitType
    <3>2. issued[r] \in 0 .. MaxRotations
      BY <1>1 DEF TypeOK
    <3> QED
      BY <2>1, <3>1, <3>2, RunnerAssumption
  <2> DEFINE A == 0 .. n
             B == 1 .. m
             S == Slots(r)
             X == Holders(r)
             J == Jobs(r)
  <2>3. S \subseteq A \X B
    <3>1. S = SlotsOf(builds, r)
      BY DEF Slots, SlotsOf
    <3>2. ASSUME NEW t, NEW k, <<t, k>> \in S
          PROVE  t \in A /\ k \in B
      <4>1. t \in 0 .. MaxRotations /\ k \in Nat \ {0} /\ k <= builds[<<r, t>>]
        BY <1>1, <3>1, <3>2, SlotsMembers
      <4>2. builds[<<r, t>>] \in Nat /\ builds[<<r, t>>] <= m
        BY <1>1, <1>2, <1>4, <2>1, <4>1 DEF Tokens
      <4>3. ~(t > n)
        BY <1>1, <2>1, <4>1 DEF TokensAreIssued
      <4> QED
        BY <2>2, <4>1, <4>2, <4>3, RunnerAssumption
    <3>3. \A p \in S : \E t, k : p = <<t, k>>
      BY <1>1, <3>1, SlotsMembers
    <3> HIDE DEF S, A, B
    <3> QED
      BY <3>2, <3>3
  <2>4. IsFiniteSet(A) /\ Cardinality(A) = n + 1 /\ IsFiniteSet(B) /\ Cardinality(B) = m
    BY <2>2, FS_Interval
  <2>5. J \in SUBSET X /\ X \in SUBSET Workers
    BY DEF Jobs, Holders, In, Held
  <2>6. Cardinality(X) <= Cardinality(S)
    BY <1>1 DEF BuildsAreCounted
  <2> HIDE DEF A, B, S, X, J
  <2>7. IsFiniteSet(A \X B) /\ Cardinality(A \X B) = (n + 1) * m
    BY <2>4, FS_Product
  <2>8. IsFiniteSet(S) /\ Cardinality(S) \in Nat /\ Cardinality(S) <= (n + 1) * m
    BY <2>3, <2>7, FS_Subset, FS_CardinalityType
  <2>9. IsFiniteSet(X) /\ Cardinality(X) \in Nat
    BY <2>5, HoldersFinite
  <2>10. Cardinality(J) \in Nat /\ Cardinality(J) <= Cardinality(X)
    BY <2>5, <2>9, FS_Subset, FS_CardinalityType
  <2>11. (n + 1) * m \in Nat /\ (n + 1) * m = (1 + n) * m
    BY <2>2
  <2>12. Cardinality(J) <= (1 + n) * m
    BY <2>6, <2>8, <2>9, <2>10, <2>11
  <2> QED
    BY <2>1, <2>12 DEF J
<1> QED
  BY <1>3, <1>4

\* However limits change with reloads and tokens are reset under jobs, a runner never
\* has more jobs than its highest limit so far, once for each token it has had.
THEOREM LimitHoldsCorrect == Spec => []LimitHolds
  BY InvariantHolds, InvariantLimits, PTL

\* So the limits of the configuration are kept as documented until it is reloaded, for
\* a runner whose token has not been reset.
THEOREM LimitIsDocumented ==
    Spec => [](config = 0 => \A r \in Runners : issued[r] = 0 /\ limit[0][r] > 0 =>
                                 Cardinality(Jobs(r)) <= limit[0][r])
<1>1. ASSUME IInv, config = 0, NEW r \in Runners, issued[r] = 0, limit[0][r] > 0
      PROVE  Cardinality(Jobs(r)) <= limit[0][r]
  <2>1. PICK c \in 0 .. config :
           limit[c][r] = 0 \/ Cardinality(Jobs(r)) <= (1 + issued[r]) * limit[c][r]
    BY <1>1, InvariantLimits DEF LimitHolds
  <2>2. c = 0 /\ limit[0][r] \in Nat
    BY <1>1, LimitType DEF IInv
  <2>3. (1 + issued[r]) * limit[0][r] = limit[0][r]
    BY <1>1, <2>2
  <2> QED
    BY <1>1, <2>1, <2>2, <2>3
<1> DEFINE Documented == config = 0 => \A r \in Runners : issued[r] = 0 /\ limit[0][r] > 0 =>
                                           Cardinality(Jobs(r)) <= limit[0][r]
<1>2. IInv => Documented
  BY <1>1
<1>3. Spec => []Documented
  BY <1>2, InvariantHolds, PTL
<1> QED
  BY <1>3

=============================================================================
