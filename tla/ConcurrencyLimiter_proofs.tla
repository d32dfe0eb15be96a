---------------------- MODULE ConcurrencyLimiter_proofs ----------------------
(***************************************************************************)
(* Proofs about ConcurrencyLimiter, for any finite set of callers, any     *)
(* keys, any limit and any length of the queue.                            *)
(*                                                                         *)
(* A step moves one caller.  The lemmas of the first part say what that    *)
(* does to the sets of callers that TokensAreHeld counts.                  *)
(***************************************************************************)
EXTENDS ConcurrencyLimiter, TLAPS, FiniteSetTheorems

Active == Calls \ {"idle", "left"}
Queued == {"queued", "running"}
Admitted == {"running", "releasing"}

-----------------------------------------------------------------------------
(* Counting callers *)

\* Using, of any assignment of semaphores and places to callers.
Users(f, g, s, P) == {c \in Callers : f[c] = s /\ g[c] \in P}

\* They are finitely many.
LEMMA UsersAreFinite ==
    ASSUME NEW f, NEW g, NEW s, NEW P
    PROVE  /\ IsFiniteSet(Users(f, g, s, P))
           /\ Cardinality(Users(f, g, s, P)) \in Nat
<1>1. Users(f, g, s, P) \in SUBSET Callers
  BY DEF Users
<1>2. IsFiniteSet(Users(f, g, s, P))
  BY <1>1, FS_Subset, LimiterAssumption
<1> QED
  BY <1>2, FS_CardinalityType

\* n counts the callers of each semaphore that are in P.
Counts(n, f, g, P) ==
    /\ n \in [Callers -> Nat]
    /\ \A s \in Callers : n[s] = Cardinality(Users(f, g, s, P))

\* A caller c moves to pc, with the semaphore u.  It has u already, or had none,
\* so only the callers of u can become more or fewer.
LEMMA CountsFollow ==
    ASSUME NEW f \in [Callers -> Callers \union {Nobody}], NEW g \in [Callers -> Calls],
           NEW c \in Callers, NEW u \in Callers, NEW pc, NEW P,
           "idle" \notin P, u = f[c] \/ g[c] = "idle",
           NEW n, Counts(n, f, g, P), NEW m,
           \/ (g[c] \in P <=> pc \in P) /\ m = n
           \/ g[c] \notin P /\ pc \in P /\ m = [n EXCEPT ![u] = @ + 1]
           \/ g[c] \in P /\ pc \notin P /\ m = [n EXCEPT ![u] = @ - 1]
    PROVE  Counts(m, [f EXCEPT ![c] = u], [g EXCEPT ![c] = pc], P)
<1> DEFINE F == [f EXCEPT ![c] = u]
           G == [g EXCEPT ![c] = pc]
<1>1. ASSUME NEW s \in Callers
      PROVE  m[s] = Cardinality(Users(F, G, s, P)) /\ m[s] \in Nat
  <2> DEFINE X == Users(f, g, s, P)
             Y == Users(F, G, s, P)
  <2>1. /\ IsFiniteSet(X) /\ Cardinality(X) \in Nat
        /\ IsFiniteSet(Y) /\ Cardinality(Y) \in Nat
    BY UsersAreFinite
  <2>2. n \in [Callers -> Nat] /\ n[s] = Cardinality(X)
    BY DEF Counts
  <2>3. CASE s # u \/ (g[c] \in P <=> pc \in P)
    <3>1. Y = X
      BY <2>3 DEF Users
    <3> HIDE DEF X, Y
    <3> QED
      BY <3>1, <2>1, <2>2, <2>3 DEF Y
  <2>4. CASE s = u /\ pc \in P /\ g[c] \notin P
    <3>1. c \notin X /\ Y = X \union {c}
      BY <2>4 DEF Users
    <3> HIDE DEF X, Y
    <3>2. Cardinality(Y) = Cardinality(X) + 1
      BY <3>1, <2>1, FS_AddElement
    <3> QED
      BY <3>2, <2>1, <2>2, <2>4 DEF Y
  <2>5. CASE s = u /\ pc \notin P /\ g[c] \in P
    <3>1. c \in X /\ Y = X \ {c}
      BY <2>5 DEF Users
    <3> HIDE DEF X, Y
    <3>2. Cardinality(Y) = Cardinality(X) - 1
      BY <3>1, <2>1, FS_RemoveElement
    <3> QED
      BY <3>2, <2>1, <2>2, <2>5 DEF Y
  <2> QED
    BY <2>3, <2>4, <2>5
<1>2. m \in [Callers -> Nat]
  <2>1. DOMAIN m = Callers /\ m = [s \in Callers |-> m[s]]
    BY DEF Counts
  <2> QED
    BY <2>1, <1>1
<1> QED
  BY <1>1, <1>2 DEF Counts

-----------------------------------------------------------------------------
(* The steps *)

\* TokensAreHeld in these terms.
LEMMA TokensAreCounted ==
    TokensAreHeld <=>
        /\ TypeOK
        /\ Counts(queueTokens, sem, call, Queued)
        /\ Counts(concurrencyTokens, sem, call, Admitted)
        /\ Counts(refcount, sem, call, Active)
        /\ \A k \in LimitingKeys : limitsByKey[k] # Nobody => refcount[limitsByKey[k]] > 0
BY DEF TokensAreHeld, TypeOK, Counts, Using, Users, Queued, Admitted, Active

\* A caller goes on within Limit, with its semaphore.  What remains to be shown
\* of such a step is what it does to the two kinds of tokens.
LEMMA StaysWithin ==
    ASSUME IInv, NEW c \in Callers, NEW pc \in Active, call[c] \in Active,
           call' = [call EXCEPT ![c] = pc],
           UNCHANGED <<limitsByKey, refcount, sem, limitingKey>>,
           Counts(queueTokens', sem', call', Queued),
           Counts(concurrencyTokens', sem', call', Admitted)
    PROVE  IInv'
<1>1. TokensAreHeld /\ SemaphoresAreFound /\ TypeOK /\ Counts(refcount, sem, call, Active)
  BY TokensAreCounted DEF IInv
<1>2. sem[c] \in Callers /\ "idle" \notin Active /\ Active \subseteq Calls
  BY <1>1 DEF SemaphoresAreFound, TypeOK, Active
<1>3. Counts(refcount', sem', call', Active)
  <2>1. Counts(refcount, [sem EXCEPT ![c] = sem[c]], [call EXCEPT ![c] = pc], Active)
    BY <1>1, <1>2, CountsFollow DEF TypeOK
  <2>2. [sem EXCEPT ![c] = sem[c]] = sem'
    BY <1>1 DEF TypeOK
  <2> QED
    BY <2>1, <2>2
<1>4. TypeOK'
  BY <1>1, <1>2 DEF TypeOK, Counts
<1>5. \A k \in LimitingKeys : limitsByKey'[k] # Nobody => refcount'[limitsByKey'[k]] > 0
  BY <1>1 DEF TokensAreHeld
<1>6. TokensAreHeld'
  BY <1>3, <1>4, <1>5 DEF TokensAreHeld, TypeOK, Counts, Using, Users, Queued, Admitted, Active
<1>7. SemaphoresAreFound'
  BY <1>1, <1>2 DEF SemaphoresAreFound, TypeOK, Active
<1> QED
  BY <1>6, <1>7 DEF IInv

\* What the proofs of the steps use of the invariant.
LEMMA InvariantFacts ==
    ASSUME IInv
    PROVE  /\ TypeOK
           /\ Counts(queueTokens, sem, call, Queued)
           /\ Counts(concurrencyTokens, sem, call, Admitted)
           /\ Counts(refcount, sem, call, Active)
           /\ \A c \in Callers : call[c] \in Active => sem[c] \in Callers
           /\ \A c \in Callers : sem = [sem EXCEPT ![c] = sem[c]]
BY TokensAreCounted DEF IInv, SemaphoresAreFound, TypeOK, Active

\* The places of a call between getting a semaphore and putting it back.
LEMMA PlacesInLimit ==
    /\ {"got", "queued", "running", "refused", "releasing", "released"} = Active
    /\ "idle" \notin Active /\ "idle" \notin Queued /\ "idle" \notin Admitted
BY DEF Active, Queued, Admitted, Calls

\* A call joins its key's queue, or is refused because the queue is full.
LEMMA EnqueueKeeps ==
    ASSUME IInv, NEW c \in Callers, Enqueue(c)
    PROVE  IInv'
<1> DEFINE pc == IF MaxQueueLength > 0 /\ queueTokens[sem[c]] >= QueueCapacity
                 THEN "refused" ELSE "queued"
<1>1. /\ call[c] = "got" /\ call' = [call EXCEPT ![c] = pc]
      /\ queueTokens' = IF pc = "refused" THEN queueTokens
                        ELSE [queueTokens EXCEPT ![sem[c]] = @ + 1]
      /\ UNCHANGED <<limitsByKey, refcount, concurrencyTokens, sem, limitingKey>>
  BY DEF Enqueue, At, Goto
<1>2. pc \in {"refused", "queued"}
  OBVIOUS
<1> HIDE DEF pc
<1>3. call[c] \in Active /\ pc \in Active
  BY <1>1, <1>2, PlacesInLimit
<1>4. Counts(queueTokens', [sem EXCEPT ![c] = sem[c]], [call EXCEPT ![c] = pc], Queued)
  BY <1>1, <1>2, <1>3, InvariantFacts, PlacesInLimit, CountsFollow DEF TypeOK, Queued
<1>5. Counts(concurrencyTokens', [sem EXCEPT ![c] = sem[c]], [call EXCEPT ![c] = pc], Admitted)
  BY <1>1, <1>2, <1>3, InvariantFacts, PlacesInLimit, CountsFollow DEF TypeOK, Admitted
<1> QED
  BY <1>1, <1>3, <1>4, <1>5, InvariantFacts, StaysWithin

\* The other steps within Limit.
LEMMA LimitKeeps ==
    ASSUME IInv, NEW c \in Callers,
           AcquireToken(c) \/ GiveUp(c) \/ ReleaseQueue(c) \/ ReleaseToken(c)
    PROVE  IInv'
<1>1. CASE AcquireToken(c)
  <2>1. /\ call[c] = "queued" /\ call' = [call EXCEPT ![c] = "running"]
        /\ concurrencyTokens' = [concurrencyTokens EXCEPT ![sem[c]] = @ + 1]
        /\ UNCHANGED <<limitsByKey, refcount, queueTokens, sem, limitingKey>>
    BY <1>1 DEF AcquireToken, At, Goto
  <2>2. call[c] \in Active /\ "running" \in Active
    BY <2>1, PlacesInLimit
  <2>3. Counts(queueTokens', [sem EXCEPT ![c] = sem[c]], [call EXCEPT ![c] = "running"], Queued)
    BY <2>1, <2>2, InvariantFacts, PlacesInLimit, CountsFollow DEF TypeOK, Queued
  <2>4. Counts(concurrencyTokens', [sem EXCEPT ![c] = sem[c]], [call EXCEPT ![c] = "running"], Admitted)
    BY <2>1, <2>2, InvariantFacts, PlacesInLimit, CountsFollow DEF TypeOK, Admitted
  <2> QED
    BY <2>1, <2>2, <2>3, <2>4, InvariantFacts, StaysWithin
<1>2. CASE GiveUp(c)
  <2>1. /\ call[c] = "queued" /\ call' = [call EXCEPT ![c] = "refused"]
        /\ queueTokens' = [queueTokens EXCEPT ![sem[c]] = @ - 1]
        /\ UNCHANGED <<limitsByKey, refcount, concurrencyTokens, sem, limitingKey>>
    BY <1>2 DEF GiveUp, GivenBack, At, Goto
  <2>2. call[c] \in Active /\ "refused" \in Active
    BY <2>1, PlacesInLimit
  <2>3. Counts(queueTokens', [sem EXCEPT ![c] = sem[c]], [call EXCEPT ![c] = "refused"], Queued)
    BY <2>1, <2>2, InvariantFacts, PlacesInLimit, CountsFollow DEF TypeOK, Queued
  <2>4. Counts(concurrencyTokens', [sem EXCEPT ![c] = sem[c]], [call EXCEPT ![c] = "refused"], Admitted)
    BY <2>1, <2>2, InvariantFacts, PlacesInLimit, CountsFollow DEF TypeOK, Admitted
  <2> QED
    BY <2>1, <2>2, <2>3, <2>4, InvariantFacts, StaysWithin
<1>3. CASE ReleaseQueue(c)
  <2>1. /\ call[c] = "running" /\ call' = [call EXCEPT ![c] = "releasing"]
        /\ queueTokens' = [queueTokens EXCEPT ![sem[c]] = @ - 1]
        /\ UNCHANGED <<limitsByKey, refcount, concurrencyTokens, sem, limitingKey>>
    BY <1>3 DEF ReleaseQueue, At, Goto
  <2>2. call[c] \in Active /\ "releasing" \in Active
    BY <2>1, PlacesInLimit
  <2>3. Counts(queueTokens', [sem EXCEPT ![c] = sem[c]], [call EXCEPT ![c] = "releasing"], Queued)
    BY <2>1, <2>2, InvariantFacts, PlacesInLimit, CountsFollow DEF TypeOK, Queued
  <2>4. Counts(concurrencyTokens', [sem EXCEPT ![c] = sem[c]], [call EXCEPT ![c] = "releasing"], Admitted)
    BY <2>1, <2>2, InvariantFacts, PlacesInLimit, CountsFollow DEF TypeOK, Admitted
  <2> QED
    BY <2>1, <2>2, <2>3, <2>4, InvariantFacts, StaysWithin
<1>4. CASE ReleaseToken(c)
  <2>1. /\ call[c] = "releasing" /\ call' = [call EXCEPT ![c] = "released"]
        /\ concurrencyTokens' = [concurrencyTokens EXCEPT ![sem[c]] = @ - 1]
        /\ UNCHANGED <<limitsByKey, refcount, queueTokens, sem, limitingKey>>
    BY <1>4 DEF ReleaseToken, Freed, At, Goto
  <2>2. call[c] \in Active /\ "released" \in Active
    BY <2>1, PlacesInLimit
  <2>3. Counts(queueTokens', [sem EXCEPT ![c] = sem[c]], [call EXCEPT ![c] = "released"], Queued)
    BY <2>1, <2>2, InvariantFacts, PlacesInLimit, CountsFollow DEF TypeOK, Queued
  <2>4. Counts(concurrencyTokens', [sem EXCEPT ![c] = sem[c]], [call EXCEPT ![c] = "released"], Admitted)
    BY <2>1, <2>2, InvariantFacts, PlacesInLimit, CountsFollow DEF TypeOK, Admitted
  <2> QED
    BY <2>1, <2>2, <2>3, <2>4, InvariantFacts, StaysWithin
<1> QED
  BY <1>1, <1>2, <1>3, <1>4

\* getConcurrencyLimit: the caller joins the callers of its key's semaphore, or
\* becomes the first one of a new semaphore, which nobody else uses yet.
LEMMA GetKeeps ==
    ASSUME IInv, NEW c \in Callers, GetConcurrencyLimit(c)
    PROVE  IInv'
<1> DEFINE k == limitingKey[c]
           s == IF limitsByKey[k] = Nobody THEN c ELSE limitsByKey[k]
<1>1. /\ call[c] = "idle" /\ call' = [call EXCEPT ![c] = "got"]
      /\ limitsByKey' = [limitsByKey EXCEPT ![k] = s]
      /\ refcount' = [refcount EXCEPT ![s] = @ + 1]
      /\ sem' = [sem EXCEPT ![c] = s]
      /\ UNCHANGED <<queueTokens, concurrencyTokens, limitingKey>>
  BY DEF GetConcurrencyLimit, At, Goto
<1>2. TypeOK /\ TokensAreHeld /\ SemaphoresAreFound
  BY InvariantFacts DEF IInv
<1>3. k \in LimitingKeys /\ s \in Callers /\ s # Nobody
  BY <1>2, LimiterAssumption DEF TypeOK
<1>4. limitsByKey[k] = Nobody \/ limitsByKey[k] = s
  OBVIOUS
<1>5. limitsByKey[k] = Nobody => s = c
  OBVIOUS
<1>6. k = limitingKey[c]
  OBVIOUS
<1> HIDE DEF s, k
<1>7. /\ Counts(queueTokens', sem', call', Queued)
      /\ Counts(concurrencyTokens', sem', call', Admitted)
      /\ Counts(refcount', sem', call', Active)
  <2>1. Counts(queueTokens', [sem EXCEPT ![c] = s], [call EXCEPT ![c] = "got"], Queued)
    BY <1>1, <1>3, InvariantFacts, PlacesInLimit, CountsFollow DEF TypeOK, Queued
  <2>2. Counts(concurrencyTokens', [sem EXCEPT ![c] = s], [call EXCEPT ![c] = "got"], Admitted)
    BY <1>1, <1>3, InvariantFacts, PlacesInLimit, CountsFollow DEF TypeOK, Admitted
  <2>3. Counts(refcount', [sem EXCEPT ![c] = s], [call EXCEPT ![c] = "got"], Active)
    BY <1>1, <1>3, InvariantFacts, PlacesInLimit, CountsFollow DEF TypeOK
  <2> QED
    BY <1>1, <2>1, <2>2, <2>3
<1>8. TypeOK'
  BY <1>1, <1>2, <1>3, <1>7 DEF TypeOK, Counts, Calls
<1>9. \A x \in LimitingKeys : limitsByKey'[x] # Nobody => refcount'[limitsByKey'[x]] > 0
  <2>1. \A d \in Callers : refcount[d] \in Nat
    BY <1>2 DEF TypeOK
  <2> QED
    BY <1>1, <1>2, <1>3, <2>1 DEF TokensAreHeld, TypeOK
<1>10. SemaphoresAreFound'
  <2>1. ASSUME NEW d \in Callers, call'[d] \notin {"idle", "left"}
        PROVE  sem'[d] # Nobody /\ sem'[d] = limitsByKey'[limitingKey'[d]]
    <3>1. CASE d = c
      BY <3>1, <1>1, <1>2, <1>3, <1>6 DEF TypeOK
    <3>2. CASE d # c
      <4>1. sem'[d] = sem[d] /\ call'[d] = call[d] /\ limitingKey'[d] = limitingKey[d]
        BY <3>2, <1>1, <1>2 DEF TypeOK
      <4>2. sem[d] # Nobody /\ sem[d] = limitsByKey[limitingKey[d]]
        BY <4>1, <2>1, <1>2 DEF SemaphoresAreFound
      <4> QED
        BY <4>1, <4>2, <1>1, <1>2, <1>3, <1>4 DEF TypeOK
    <3> QED
      BY <3>1, <3>2
  <2>2. ASSUME NEW x \in LimitingKeys, limitsByKey'[x] # Nobody
        PROVE  limitingKey'[limitsByKey'[x]] = x /\ call'[limitsByKey'[x]] # "idle"
    <3>1. CASE x = k /\ limitsByKey[k] = Nobody
      BY <3>1, <1>1, <1>2, <1>3, <1>5, <1>6 DEF TypeOK
    <3>2. CASE ~(x = k /\ limitsByKey[k] = Nobody)
      <4>1. limitsByKey'[x] = limitsByKey[x] /\ limitsByKey[x] \in Callers
        BY <3>2, <2>2, <1>1, <1>2, <1>3, <1>4 DEF TypeOK
      <4>2. limitingKey[limitsByKey[x]] = x /\ call[limitsByKey[x]] # "idle"
        BY <4>1, <2>2, <1>2 DEF SemaphoresAreFound
      <4> QED
        BY <4>1, <4>2, <1>1, <1>2 DEF TypeOK
    <3> QED
      BY <3>1, <3>2
  <2> QED
    BY <2>1, <2>2 DEF SemaphoresAreFound
<1>11. TokensAreHeld'
  BY <1>7, <1>8, <1>9 DEF TokensAreHeld, TypeOK, Counts, Using, Users, Queued, Admitted, Active
<1> QED
  BY <1>10, <1>11 DEF IInv

\* putConcurrencyLimit: the caller finds its semaphore in the map, and if it drops
\* it, it was the only one that used it.
LEMMA PutKeeps ==
    ASSUME IInv, NEW c \in Callers, PutConcurrencyLimit(c)
    PROVE  IInv'
<1> DEFINE k == limitingKey[c]
           s == limitsByKey[k]
<1>1. TypeOK /\ TokensAreHeld /\ SemaphoresAreFound
  BY InvariantFacts DEF IInv
<1>2. call[c] \in {"released", "refused"} /\ call[c] \in Active
  BY PlacesInLimit DEF PutConcurrencyLimit, At
<1>3. k \in LimitingKeys /\ s \in Callers /\ s # Nobody /\ sem[c] = s
  BY <1>1, <1>2 DEF SemaphoresAreFound, TypeOK
<1>4. /\ call' = [call EXCEPT ![c] = "left"]
      /\ refcount' = [refcount EXCEPT ![s] = @ - 1]
      /\ limitsByKey' = IF refcount[s] = 1 THEN [limitsByKey EXCEPT ![k] = Nobody] ELSE limitsByKey
      /\ UNCHANGED <<queueTokens, concurrencyTokens, sem, limitingKey>>
  BY <1>3 DEF PutConcurrencyLimit, Goto, Unused
<1>5. k = limitingKey[c] /\ s = limitsByKey[k]
  OBVIOUS
<1> HIDE DEF s, k
<1>6. /\ Counts(queueTokens', sem', call', Queued)
      /\ Counts(concurrencyTokens', sem', call', Admitted)
      /\ Counts(refcount', sem', call', Active)
  <2>1. Counts(queueTokens', [sem EXCEPT ![c] = s], [call EXCEPT ![c] = "left"], Queued)
    BY <1>2, <1>3, <1>4, InvariantFacts, PlacesInLimit, CountsFollow DEF TypeOK, Queued
  <2>2. Counts(concurrencyTokens', [sem EXCEPT ![c] = s], [call EXCEPT ![c] = "left"], Admitted)
    BY <1>2, <1>3, <1>4, InvariantFacts, PlacesInLimit, CountsFollow DEF TypeOK, Admitted
  <2>3. Counts(refcount', [sem EXCEPT ![c] = s], [call EXCEPT ![c] = "left"], Active)
    <3>1. "left" \notin Active
      BY DEF Active
    <3> QED
      BY <3>1, <1>2, <1>3, <1>4, InvariantFacts, PlacesInLimit, CountsFollow DEF TypeOK
  <2>4. [sem EXCEPT ![c] = s] = sem'
    BY <1>3, <1>4, InvariantFacts
  <2> QED
    BY <1>4, <2>1, <2>2, <2>3, <2>4
<1>7. TypeOK'
  BY <1>1, <1>3, <1>4, <1>6 DEF TypeOK, Counts, Calls
<1>8. ASSUME refcount[s] = 1, NEW d \in Callers, call[d] \in Active, sem[d] = s
      PROVE  d = c
  <2> DEFINE X == Users(sem, call, s, Active)
  <2>1. Cardinality(X) = 1 /\ IsFiniteSet(X)
    BY <1>3, <1>8, InvariantFacts, UsersAreFinite DEF Counts
  <2>2. c \in X /\ d \in X
    BY <1>2, <1>3, <1>8 DEF Users
  <2> HIDE DEF X
  <2>3. \E x : X = {x}
    BY <2>1, FS_Singleton
  <2> QED
    BY <2>2, <2>3
<1>9. \A x \in LimitingKeys : limitsByKey'[x] # Nobody =>
        limitsByKey'[x] = limitsByKey[x] /\ limitsByKey[x] \in Callers
          /\ (limitsByKey[x] = s => x = k /\ refcount[s] # 1)
  <2> SUFFICES ASSUME NEW x \in LimitingKeys, limitsByKey'[x] # Nobody
               PROVE  limitsByKey'[x] = limitsByKey[x] /\ limitsByKey[x] \in Callers
                        /\ (limitsByKey[x] = s => x = k /\ refcount[s] # 1)
    OBVIOUS
  <2>1. limitsByKey'[x] = limitsByKey[x] /\ limitsByKey[x] \in Callers
    BY <1>1, <1>3, <1>4 DEF TypeOK
  <2>2. limitsByKey[x] = s => x = k
    BY <2>1, <1>1, <1>3, <1>5 DEF SemaphoresAreFound
  <2>3. x = k => refcount[s] # 1
    BY <1>1, <1>3, <1>4 DEF TypeOK
  <2> QED
    BY <2>1, <2>2, <2>3
<1>10. \A x \in LimitingKeys : limitsByKey'[x] # Nobody => refcount'[limitsByKey'[x]] > 0
  <2> SUFFICES ASSUME NEW x \in LimitingKeys, limitsByKey'[x] # Nobody
               PROVE  refcount'[limitsByKey'[x]] > 0
    OBVIOUS
  <2>1. refcount[limitsByKey[x]] \in Nat /\ refcount[limitsByKey[x]] > 0
    BY <1>1, <1>9 DEF TokensAreHeld, TypeOK
  <2>2. CASE limitsByKey[x] = s
    BY <2>1, <2>2, <1>1, <1>3, <1>4, <1>9 DEF TypeOK
  <2>3. CASE limitsByKey[x] # s
    BY <2>1, <2>3, <1>1, <1>3, <1>4, <1>9 DEF TypeOK
  <2> QED
    BY <2>2, <2>3
<1>11. SemaphoresAreFound'
  <2>1. ASSUME NEW d \in Callers, call'[d] \notin {"idle", "left"}
        PROVE  sem'[d] # Nobody /\ sem'[d] = limitsByKey'[limitingKey'[d]]
    <3>1. d # c /\ call[d] = call'[d] /\ call[d] \in Active
      BY <2>1, <1>1, <1>4 DEF TypeOK, Active
    <3>2. sem[d] # Nobody /\ sem[d] = limitsByKey[limitingKey[d]] /\ limitingKey[d] \in LimitingKeys
      BY <3>1, <2>1, <1>1 DEF SemaphoresAreFound, TypeOK
    <3>3. refcount[s] = 1 => limitingKey[d] # k
      BY <3>1, <3>2, <1>5, <1>8
    <3> QED
      BY <3>2, <3>3, <1>1, <1>3, <1>4 DEF TypeOK
  <2>2. ASSUME NEW x \in LimitingKeys, limitsByKey'[x] # Nobody
        PROVE  limitingKey'[limitsByKey'[x]] = x /\ call'[limitsByKey'[x]] # "idle"
    BY <2>2, <1>1, <1>4, <1>9 DEF SemaphoresAreFound, TypeOK
  <2> QED
    BY <2>1, <2>2 DEF SemaphoresAreFound
<1>12. TokensAreHeld'
  BY <1>6, <1>7, <1>10 DEF TokensAreHeld, TypeOK, Counts, Using, Users, Queued, Admitted, Active
<1> QED
  BY <1>11, <1>12 DEF IInv

-----------------------------------------------------------------------------
(* Every token is given back *)

\* Nobody holds a token at the start.
LEMMA InitHolds == Init => IInv
<1> SUFFICES ASSUME Init
             PROVE  IInv
  OBVIOUS
<1>1. TypeOK
  BY DEF Init, TypeOK, Calls
<1>2. \A s \in Callers : Cardinality(Users(sem, call, s, Queued)) = 0
                      /\ Cardinality(Users(sem, call, s, Admitted)) = 0
                      /\ Cardinality(Users(sem, call, s, Active)) = 0
  <2>1. ASSUME NEW s \in Callers, NEW P, "idle" \notin P
        PROVE  Users(sem, call, s, P) = {}
    BY <2>1 DEF Init, Users
  <2> QED
    BY <2>1, PlacesInLimit, FS_EmptySet
<1>3. TokensAreHeld
  BY <1>1, <1>2, TokensAreCounted DEF Init, Counts
<1> QED
  BY <1>3 DEF Init, IInv, SemaphoresAreFound

\* Every step keeps the invariant.
LEMMA NextKeeps == IInv /\ [Next]_vars => IInv'
<1> SUFFICES ASSUME IInv, [Next]_vars
             PROVE  IInv'
  OBVIOUS
<1>1. CASE Next
  <2>1. PICK c \in Callers : GetConcurrencyLimit(c) \/ Call(c) \/ GiveUp(c)
    BY <1>1 DEF Next
  <2> QED
    BY <2>1, GetKeeps, EnqueueKeeps, LimitKeeps, PutKeeps DEF Call
<1>2. CASE UNCHANGED vars
  <2>1. \A s, P : Using(s, P)' = Using(s, P)
    BY <1>2 DEF vars, Using
  <2>2. TypeOK' /\ SemaphoresAreFound'
    BY <1>2 DEF vars, IInv, TokensAreHeld, TypeOK, SemaphoresAreFound
  <2>3. TokensAreHeld'
    BY <1>2, <2>1, <2>2 DEF vars, IInv, TokensAreHeld
  <2> QED
    BY <2>2, <2>3 DEF IInv
<1> QED
  BY <1>1, <1>2

\* Queue tokens, concurrency tokens and references are those of the callers that
\* still have to give them back, however callers leave Limit; no count becomes
\* negative, and putConcurrencyLimit always finds the semaphore it looks for.
THEOREM TokensAreHeldCorrect == Spec => []TokensAreHeld
<1>1. IInv => TokensAreHeld
  BY DEF IInv
<1> QED
  BY <1>1, InitHolds, NextKeeps, PTL DEF Spec

-----------------------------------------------------------------------------
(* The limit *)

\* The functions of a key that run hold tokens of the one semaphore of that key.
LEMMA RunningHoldTokens ==
    ASSUME IInv, NEW c \in Callers, call[c] \in Active
    PROVE  /\ Promise!Running(limitingKey[c]) \subseteq Users(sem, call, sem[c], Admitted)
           /\ Cardinality(Promise!Running(limitingKey[c])) \in Nat
           /\ Cardinality(Promise!Running(limitingKey[c])) <= concurrencyTokens[sem[c]]
<1> DEFINE R == Promise!Running(limitingKey[c])
           U == Users(sem, call, sem[c], Admitted)
<1>1. R \subseteq U
  <2> SUFFICES ASSUME NEW d \in Callers, PhaseOf(call[d]) = "running",
                      limitingKey[d] = limitingKey[c]
               PROVE  sem[d] = sem[c] /\ call[d] \in Admitted
    BY DEF Promise!Running, Users
  <2>1. call[d] \in Admitted
    BY DEF PhaseOf, Admitted
  <2>2. call[d] \in Active
    BY <2>1 DEF Admitted, Active, Calls
  <2> QED
    BY <2>1, <2>2 DEF IInv, SemaphoresAreFound, Active
<1>2. IsFiniteSet(U) /\ Cardinality(U) \in Nat
  BY UsersAreFinite
<1>3. concurrencyTokens[sem[c]] = Cardinality(U)
  BY InvariantFacts DEF Counts
<1> HIDE DEF R, U
<1>4. IsFiniteSet(R) /\ Cardinality(R) <= Cardinality(U)
  BY <1>1, <1>2, FS_Subset
<1>5. Cardinality(R) \in Nat
  BY <1>4, FS_CardinalityType
<1> QED
  BY <1>1, <1>3, <1>4, <1>5 DEF R, U

\* Limiter counts as this module does.
LEMMA SameCardinality == \A S : Promise!Cardinality(S) = Cardinality(S)
BY DEF Promise!Cardinality, Cardinality

\* The phases of the places in Limit.
LEMMA Phases ==
    /\ PhaseOf("idle") = "idle"
    /\ PhaseOf("got") = "waiting" /\ PhaseOf("queued") = "waiting"
    /\ PhaseOf("running") = "running" /\ PhaseOf("releasing") = "running"
    /\ PhaseOf("refused") = "done" /\ PhaseOf("released") = "done"
    /\ PhaseOf("left") = "done" /\ PhaseOf("panicked") = "done"
BY DEF PhaseOf

\* A step is a step of Limiter, or nothing that a caller would notice.
LEMMA StepRefines ==
    ASSUME IInv, [Next]_vars
    PROVE  [Promise!Next]_<<[c \in Callers |-> PhaseOf(call[c])], limitingKey>>
<1>1. TypeOK
  BY InvariantFacts
<1>2. ASSUME NEW c \in Callers, GetConcurrencyLimit(c)
      PROVE  Promise!Arrive(c)
  <2>1. call[c] = "idle" /\ call' = [call EXCEPT ![c] = "got"] /\ UNCHANGED limitingKey
    BY <1>2 DEF GetConcurrencyLimit, At, Goto
  <2>2. Promise!Enters(c, "waiting")
    BY <1>1, <2>1, Phases DEF Promise!Enters, TypeOK
  <2> QED
    BY <2>1, <2>2, Phases DEF Promise!Arrive
<1>3. ASSUME NEW c \in Callers, Enqueue(c)
      PROVE  UNCHANGED <<[d \in Callers |-> PhaseOf(call[d])], limitingKey>> \/ Promise!Refuse(c)
  <2>1. call[c] = "got" /\ UNCHANGED limitingKey
    BY <1>3 DEF Enqueue, At
  <2>2. CASE call' = [call EXCEPT ![c] = "queued"]
    BY <1>1, <2>1, <2>2, Phases DEF TypeOK
  <2>3. CASE call' = [call EXCEPT ![c] = "refused"]
    <3>1. Promise!Enters(c, "done")
      BY <1>1, <2>1, <2>3, Phases DEF Promise!Enters, TypeOK
    <3> QED
      BY <2>1, <3>1, Phases DEF Promise!Refuse
  <2> QED
    BY <1>3, <2>2, <2>3 DEF Enqueue, Goto
<1>4. ASSUME NEW c \in Callers, AcquireToken(c)
      PROVE  Promise!Admit(c)
  <2>1. /\ call[c] = "queued" /\ call' = [call EXCEPT ![c] = "running"]
        /\ concurrencyTokens[sem[c]] < MaxConcurrency /\ UNCHANGED limitingKey
    BY <1>4 DEF AcquireToken, At, Goto
  <2>2. call[c] \in Active /\ sem[c] \in Callers
    BY <2>1, PlacesInLimit, InvariantFacts
  <2>3. concurrencyTokens[sem[c]] \in Nat
    BY <2>2, <1>1 DEF TypeOK
  <2>4. Promise!MayRun(limitingKey[c])
    BY <2>1, <2>2, <2>3, RunningHoldTokens, LimiterAssumption, SameCardinality DEF Promise!MayRun
  <2>5. Promise!Enters(c, "running")
    BY <1>1, <2>1, Phases DEF Promise!Enters, TypeOK
  <2> QED
    BY <2>1, <2>4, <2>5, Phases DEF Promise!Admit
<1>5. ASSUME NEW c \in Callers, GiveUp(c)
      PROVE  Promise!Refuse(c)
  <2>1. call[c] = "queued" /\ call' = [call EXCEPT ![c] = "refused"] /\ UNCHANGED limitingKey
    BY <1>5 DEF GiveUp, At, Goto
  <2>2. Promise!Enters(c, "done")
    BY <1>1, <2>1, Phases DEF Promise!Enters, TypeOK
  <2> QED
    BY <2>1, <2>2, Phases DEF Promise!Refuse
<1>6. ASSUME NEW c \in Callers, ReleaseQueue(c)
      PROVE  UNCHANGED <<[d \in Callers |-> PhaseOf(call[d])], limitingKey>>
  <2>1. call[c] = "running" /\ call' = [call EXCEPT ![c] = "releasing"] /\ UNCHANGED limitingKey
    BY <1>6 DEF ReleaseQueue, At, Goto
  <2> QED
    BY <1>1, <2>1, Phases DEF TypeOK
<1>7. ASSUME NEW c \in Callers, ReleaseToken(c)
      PROVE  Promise!Return(c)
  <2>1. call[c] = "releasing" /\ call' = [call EXCEPT ![c] = "released"] /\ UNCHANGED limitingKey
    BY <1>7 DEF ReleaseToken, At, Goto
  <2>2. Promise!Enters(c, "done")
    BY <1>1, <2>1, Phases DEF Promise!Enters, TypeOK
  <2> QED
    BY <2>1, <2>2, Phases DEF Promise!Return
<1>8. ASSUME NEW c \in Callers, PutConcurrencyLimit(c)
      PROVE  UNCHANGED <<[d \in Callers |-> PhaseOf(call[d])], limitingKey>>
  <2>1. call[c] \in {"released", "refused"} /\ UNCHANGED limitingKey
    BY <1>8 DEF PutConcurrencyLimit, At
  <2>2. \/ call' = [call EXCEPT ![c] = "left"]
        \/ call' = [call EXCEPT ![c] = "panicked"]
    BY <1>8 DEF PutConcurrencyLimit, Goto
  <2> QED
    BY <1>1, <2>1, <2>2, Phases DEF TypeOK
<1>9. CASE Next
  <2>1. PICK c \in Callers : GetConcurrencyLimit(c) \/ Call(c) \/ GiveUp(c)
    BY <1>9 DEF Next
  <2> QED
    BY <2>1, <1>2, <1>3, <1>4, <1>5, <1>6, <1>7, <1>8 DEF Call, Promise!Next
<1>10. CASE UNCHANGED vars
  BY <1>10 DEF vars
<1> QED
  BY <1>9, <1>10

\* Limit implements Limiter: never do more than MaxConcurrency functions of a key
\* run, although their semaphores are created, shared and dropped all the time.
THEOREM LimitCorrect == Spec => ConcurrencyIsLimited
<1>1. Init => Promise!Init
  BY Phases DEF Init, Promise!Init
<1> QED
  BY <1>1, InitHolds, NextKeeps, StepRefines, PTL DEF Spec, ConcurrencyIsLimited, Promise!Spec

\* No step of Limiter takes the functions of a key beyond the limit.
LEMMA AdmitKeepsLimit ==
    ASSUME [Promise!Next]_<<[c \in Callers |-> PhaseOf(call[c])], limitingKey>>,
           NEW k \in LimitingKeys, Cardinality(Promise!Running(k)) <= MaxConcurrency
    PROVE  Cardinality(Promise!Running(k)') <= MaxConcurrency
<1> DEFINE phase(c) == PhaseOf(call[c])
<1>0. /\ Promise!Running(k) = {c \in Callers : phase(c) = "running" /\ limitingKey[c] = k}
      /\ Promise!Running(k)' = {c \in Callers : phase(c)' = "running" /\ limitingKey'[c] = k}
      /\ IsFiniteSet(Promise!Running(k))
  BY LimiterAssumption, FS_Subset DEF Promise!Running
<1>1. \A S : S \subseteq Promise!Running(k) => Cardinality(S) <= MaxConcurrency
  <2> SUFFICES ASSUME NEW S, S \subseteq Promise!Running(k)
               PROVE  Cardinality(S) <= MaxConcurrency
    OBVIOUS
  <2>1. /\ Cardinality(S) <= Cardinality(Promise!Running(k))
        /\ Cardinality(S) \in Nat /\ Cardinality(Promise!Running(k)) \in Nat
    BY <1>0, FS_Subset, FS_CardinalityType
  <2> QED
    BY <2>1, LimiterAssumption
<1>2. CASE UNCHANGED <<[c \in Callers |-> phase(c)], limitingKey>>
  <2>1. \A c \in Callers : phase(c)' = phase(c) /\ limitingKey'[c] = limitingKey[c]
    BY <1>2
  <2> QED
    BY <2>1, <1>0, <1>1
<1>3. ASSUME NEW c \in Callers, NEW p, Promise!Enters(c, p)
      PROVE  \A d \in Callers : /\ phase(d)' = IF d = c THEN p ELSE phase(d)
                                /\ limitingKey'[d] = limitingKey[d]
  BY <1>3 DEF Promise!Enters
<1>4. ASSUME NEW c \in Callers, Promise!Arrive(c) \/ Promise!Refuse(c) \/ Promise!Return(c)
      PROVE  Promise!Running(k)' \subseteq Promise!Running(k)
  <2>1. PICK p \in {"waiting", "done"} : Promise!Enters(c, p)
    BY <1>4 DEF Promise!Arrive, Promise!Refuse, Promise!Return
  <2> QED
    BY <2>1, <1>3, <1>0
<1>5. ASSUME NEW c \in Callers, Promise!Admit(c)
      PROVE  Cardinality(Promise!Running(k)') <= MaxConcurrency
  <2>1. /\ Promise!Enters(c, "running") /\ Promise!MayRun(limitingKey[c])
        /\ phase(c) = "waiting"
    BY <1>5 DEF Promise!Admit
  <2>2. CASE limitingKey[c] # k
    <3>1. Promise!Running(k)' \subseteq Promise!Running(k)
      BY <2>1, <2>2, <1>3, <1>0
    <3> QED
      BY <3>1, <1>1
  <2>3. CASE limitingKey[c] = k
    <3>1. Promise!Running(k)' = Promise!Running(k) \union {c} /\ c \notin Promise!Running(k)
      BY <2>1, <2>3, <1>3, <1>0
    <3>2. Cardinality(Promise!Running(k)') = Cardinality(Promise!Running(k)) + 1
      BY <3>1, <1>0, FS_AddElement
    <3>3. Cardinality(Promise!Running(k)) < MaxConcurrency
      BY <2>1, <2>3, SameCardinality DEF Promise!MayRun
    <3> QED
      BY <3>2, <3>3, <1>0, FS_CardinalityType, LimiterAssumption
  <2> QED
    BY <2>2, <2>3
<1> QED
  BY <1>1, <1>2, <1>4, <1>5 DEF Promise!Next

\* What the promise comes to: at no time do more than MaxConcurrency functions of
\* one key run, from the moment Limit calls one until its token is given back.
THEOREM RunningIsLimited ==
    Spec => [](\A k \in LimitingKeys : Cardinality(Promise!Running(k)) <= MaxConcurrency)
<1> DEFINE Limited == \A k \in LimitingKeys : Cardinality(Promise!Running(k)) <= MaxConcurrency
<1>1. Init => Limited
  <2> SUFFICES ASSUME Init, NEW k \in LimitingKeys
               PROVE  Cardinality(Promise!Running(k)) <= MaxConcurrency
    OBVIOUS
  <2>1. Promise!Running(k) = {}
    BY Phases DEF Init, Promise!Running
  <2> QED
    BY <2>1, FS_EmptySet, LimiterAssumption
<1>2. IInv /\ Limited /\ [Next]_vars => Limited'
  BY StepRefines, AdmitKeepsLimit
<1> QED
  BY <1>1, <1>2, InitHolds, NextKeeps, PTL DEF Spec

=============================================================================
