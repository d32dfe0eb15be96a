------------------------- MODULE LookupCache_proofs -------------------------
(***************************************************************************)
(* Proofs about LookupCache, for any clients, timeouts, number of tries    *)
(* and of entries.                                                         *)
(*                                                                         *)
(* An entry is asked for when it is created and stored at most one         *)
(* retrieval later: Retrieve has a deadline, and nothing waits between its *)
(* end and the replacement of the entry (EndsInTime).  The store forgets   *)
(* it one expiration timeout after that, and the answer is not older than  *)
(* the question (AskedThenAnswered).                                       *)
(***************************************************************************)
EXTENDS LookupCache, TLAPS

\* The timeouts are natural numbers, and there is a first entry.
LEMMA Numbers ==
    /\ RefreshTimeout \in Nat /\ ExpirationTimeout \in Nat /\ RetrievalTimeout \in Nat
    /\ MaxTime \in Nat
    /\ MaxRetries \in Nat \ {0} /\ MaxEntries \in Nat \ {0}
    /\ Entries \subseteq Nat \ {0}
    /\ MaxEntries \in Entries
BY LookupAssumption DEF Entries

\* newCacheEntry finds the first entry that was not created.
LEMMA FreshIsNext ==
    ASSUME TypeOK, InOrder, CanCreate
    PROVE  /\ Fresh \in Entries
           /\ ~Created(Fresh)
           /\ \A f \in Entries : Created(f) <=> f < Fresh
<1>1. PICK n \in 0 .. MaxEntries : \A f \in Entries : Created(f) <=> f <= n
  BY DEF InOrder
<1>2. \A f \in Entries : (entry[f] = NoEntry) <=> ~Created(f)
  BY DEF InOrder, Created, NoEntry
<1>3. ~Created(MaxEntries)
  BY <1>2, Numbers DEF CanCreate
<1>4. n < MaxEntries
  BY <1>1, <1>3, Numbers
<1>5. /\ n + 1 \in Entries
      /\ \A f \in Entries : (entry[f] = NoEntry) <=> (f >= n + 1)
  BY <1>1, <1>2, <1>4, Numbers DEF Entries
<1>6. /\ Fresh \in Entries
      /\ \A f \in Entries : (entry[f] = NoEntry) <=> (f >= Fresh)
  BY <1>5 DEF Fresh
<1>7. \A f \in Entries : f >= Fresh <=> ~(f < Fresh)
  BY <1>6, Numbers
<1> QED
  BY <1>2, <1>6, <1>7, Numbers

\* The domain has no entry before anybody asks for it.
LEMMA InitIInv == Init => IInv
<1> SUFFICES ASSUME Init PROVE IInv
  OBVIOUS
<1>1. TypeOK
  <2>1. NoEntry \in EntryStates
    BY DEF NoEntry, EntryStates
  <2>2. NotCalling("none") \in ResolverStates
    BY DEF NotCalling, ResolverStates
  <2> QED
    BY <2>1, <2>2 DEF Init, TypeOK
<1>2. InOrder
  <2>1. \A f \in Entries : ~Created(f)
    BY DEF Init, Created, NoEntry
  <2>2. \A f \in Entries : Created(f) <=> f <= 0
    BY <2>1, Numbers
  <2>3. 0 \in 0 .. MaxEntries
    BY Numbers
  <2> QED
    BY <2>1, <2>2, <2>3 DEF Init, InOrder, NoEntry, NotCalling
<1>3. AskedThenAnswered
  BY DEF Init, AskedThenAnswered, NoEntry, NotCalling, isResolved, Never
<1>4. EndsInTime
  BY DEF Init, EndsInTime, NoEntry
<1> QED
  BY <1>1, <1>2, <1>3, <1>4 DEF IInv

\* Who waits for what does not matter to the entries.
LEMMA ClientsOnly ==
    ASSUME IInv, UNCHANGED <<now, entry, store, retriever, resolver>>
    PROVE  IInv'
BY DEF IInv, TypeOK, InOrder, AskedThenAnswered, EndsInTime, Created, isResolved, hasTemporaryError

-----------------------------------------------------------------------------
(* A new entry *)

\* An entry is created and its retrieval begins; the entry e that it is to
\* refresh, if any, is marked, and it takes the domain's place in the store at
\* once if there was none.
LEMMA CreateStep ==
    ASSUME IInv, CanCreate, UNCHANGED now, Starts(Fresh),
           NEW e \in {None} \union Entries, e # None => Created(e),
           \/ e = None /\ entry' = [entry EXCEPT ![Fresh] = NewEntry] /\ Stored(Fresh)
           \/ /\ e # None
              /\ entry' = [entry EXCEPT ![e].refreshedBy = Fresh, ![Fresh] = NewEntry]
              /\ UNCHANGED store
    PROVE  IInv'
<1> PICK n : n = Fresh
  OBVIOUS
<1> USE Numbers DEF IInv
<1>1. /\ n \in Entries
      /\ ~Created(n)
      /\ \A f \in Entries : Created(f) <=> f < n
  BY FreshIsNext
<1>2. NewEntry \in EntryStates /\ NewEntry.created = now /\ NewEntry # NoEntry
      /\ NewEntry.original = Never /\ NewEntry.answer = "none" /\ NewEntry.refreshedBy = None
  BY DEF TypeOK, NewEntry, NoEntry, EntryStates, Never, None
<1>3. n # e
  BY <1>1 DEF None
<1>4. /\ entry' \in [Entries -> EntryStates]
      /\ entry'[n] = NewEntry
      /\ \A f \in Entries \ {n} :
            /\ entry'[f].created = entry[f].created
            /\ entry'[f].original = entry[f].original
            /\ entry'[f].answer = entry[f].answer
            /\ entry'[f].answered = entry[f].answered
            /\ f # e => entry'[f] = entry[f]
            /\ f = e => entry'[f].refreshedBy = n
  <2>1. CASE e = None
    BY <2>1, <1>1, <1>2 DEF TypeOK, None
  <2>2. CASE e # None
    <3>1. e \in Entries
      BY <2>2
    <3>2. PICK x : x = [entry[e] EXCEPT !.refreshedBy = n]
      OBVIOUS
    <3>3. x \in EntryStates /\ x.created = entry[e].created /\ x.original = entry[e].original
          /\ x.answer = entry[e].answer /\ x.answered = entry[e].answered /\ x.refreshedBy = n
      BY <3>1, <3>2, <1>1 DEF TypeOK, EntryStates
    <3>4. entry' = [entry EXCEPT ![e] = x, ![n] = NewEntry]
      BY <2>2, <3>2, <1>3 DEF TypeOK
    <3> QED
      BY <3>1, <3>3, <3>4, <1>1, <1>2, <1>3 DEF TypeOK
  <2> QED
    BY <2>1, <2>2
<1>5. PICK r : r = [NotCalling("calling") EXCEPT !.tries = 1]
  OBVIOUS
<1>6. r \in ResolverStates /\ r.pc = "calling"
  BY <1>5 DEF NotCalling, ResolverStates
<1>7. /\ retriever' = [retriever EXCEPT ![n] = "waiting"]
      /\ resolver' = [resolver EXCEPT ![n] = r]
  BY <1>5 DEF Starts
<1>8. \/ e = None /\ store'.entry = n /\ store'.expires = now + ExpirationTimeout /\ store' \in [entry : {None} \union Entries, expires : Nat]
      \/ e # None /\ store' = store
  BY <1>1 DEF Stored, TypeOK
<1>9. TypeOK'
  BY <1>1, <1>4, <1>6, <1>7, <1>8 DEF TypeOK
<1>10. /\ \A f \in Entries \ {n} : Created(f)' <=> Created(f)
       /\ Created(n)'
       /\ \A f \in Entries : Created(f) => Created(f)' /\ f # n
  <2>1. now # Never
    BY DEF TypeOK, Never
  <2> QED
    BY <2>1, <1>1, <1>2, <1>4 DEF Created
<1>11. InOrder'
  <2>1. \A f \in Entries : Created(f)' <=> f <= n
    BY <1>1, <1>10
  <2>2. \A f \in Entries : ~Created(f)' =>
            entry'[f] = NoEntry /\ retriever'[f] = "none" /\ resolver'[f].pc = "none"
    BY <1>1, <1>4, <1>7, <1>10 DEF InOrder, TypeOK
  <2>3. \A f \in Entries : entry'[f].refreshedBy # None => entry'[f].refreshedBy \in Entries
    BY <1>9 DEF TypeOK, EntryStates
  <2>4. \A f \in Entries : entry[f].refreshedBy # None => entry[f].refreshedBy \in Entries
    BY DEF TypeOK, EntryStates
  <2>5. ASSUME NEW f \in Entries, entry'[f].refreshedBy # None
        PROVE  entry'[entry'[f].refreshedBy].created # Never
    <3>1. f # n
      BY <2>5, <1>2, <1>4
    <3>2. CASE f = e
      BY <3>1, <3>2, <1>4, <1>10 DEF Created
    <3>3. CASE f # e
      BY <3>1, <3>3, <2>4, <2>5, <1>4, <1>10 DEF Created, InOrder
    <3> QED
      BY <3>2, <3>3
  <2>6. store'.entry # None => entry'[store'.entry].created # Never
    BY <1>8, <1>10 DEF InOrder, TypeOK, Created
  <2>7. n \in 0 .. MaxEntries
    BY <1>1 DEF Entries
  <2> QED
    BY <2>1, <2>2, <2>5, <2>6, <2>7 DEF InOrder, Created
<1>12. AskedThenAnswered'
  <2>1. \A f \in Entries : entry'[f].created <= now
    BY <1>2, <1>4 DEF AskedThenAnswered, TypeOK
  <2>2. \A f \in Entries : resolver'[f].pc = "sending" =>
            entry'[f].created <= resolver'[f].at /\ resolver'[f].at <= now
    BY <1>4, <1>6, <1>7 DEF AskedThenAnswered, TypeOK
  <2>3. \A f \in Entries : entry'[f].answer # "none" =>
            /\ entry'[f].answered <= now
            /\ entry'[f].original = Never => entry'[f].created <= entry'[f].answered
    BY <1>2, <1>4 DEF AskedThenAnswered, isResolved
  <2> QED
    BY <2>1, <2>2, <2>3 DEF AskedThenAnswered, isResolved
<1>13. EndsInTime'
  <2>1. ASSUME NEW f \in Entries, retriever'[f] = "waiting"
        PROVE  now <= entry'[f].created + RetrievalTimeout
    BY <2>1, <1>1, <1>2, <1>4, <1>7 DEF EndsInTime, TypeOK
  <2>2. ASSUME NEW f \in Entries, entry'[f].refreshedBy # None,
               retriever'[entry'[f].refreshedBy] = "done"
        PROVE  now <= entry'[entry'[f].refreshedBy].created + RetrievalTimeout
    <3> PICK m : m = entry'[f].refreshedBy
      OBVIOUS
    <3>1. m \in Entries /\ m # n
      BY <2>2, <1>7, <1>9 DEF TypeOK, EntryStates
    <3>2. f # n /\ f # e
      BY <3>1, <2>2, <1>2, <1>4
    <3>3. entry[f].refreshedBy = m /\ retriever[m] = "done"
      BY <3>1, <3>2, <2>2, <1>4, <1>7 DEF TypeOK
    <3>4. now <= entry[m].created + RetrievalTimeout
      BY <3>3, <2>2 DEF EndsInTime
    <3> QED
      BY <3>1, <3>4, <1>4
  <2>3. store'.entry # None /\ entry'[store'.entry].original = Never =>
            store'.expires <= entry'[store'.entry].created + RetrievalTimeout + ExpirationTimeout
    <3>1. CASE e = None
      BY <3>1, <1>2, <1>4, <1>8 DEF TypeOK
    <3>2. CASE e # None
      <4>1. store.entry # None => store.entry \in Entries \ {n}
        BY <1>1 DEF TypeOK, InOrder
      <4> QED
        BY <3>2, <4>1, <1>4, <1>8 DEF EndsInTime
    <3> QED
      BY <3>1, <3>2
  <2> QED
    BY <2>1, <2>2, <2>3 DEF EndsInTime
<1> QED
  BY <1>9, <1>11, <1>12, <1>13

-----------------------------------------------------------------------------
(* The other steps *)

\* What a call of the API leaves behind is given now, after it was asked for.
LEMMA GetLookupStep ==
    ASSUME IInv, NEW e \in Entries, NEW a \in Answers, GetLookup(e, a)
    PROVE  IInv'
<1> USE DEF IInv
<1>1. PICK r : resolver' = [resolver EXCEPT ![e] = r]
        /\ \/ r = [resolver[e] EXCEPT !.tries = @ + 1]
           \/ r = [pc |-> "sending", tries |-> 0, at |-> now,
                   answer |-> IF a = "unauthorized" THEN "error" ELSE a]
  BY DEF GetLookup
<1>2. resolver[e].pc = "calling" /\ resolver[e] \in ResolverStates
  BY DEF GetLookup, TypeOK
<1>3. /\ r \in ResolverStates
      /\ r.pc = "sending" => r.at = now
      /\ r.pc # "none"
  <2>1. CASE r = [resolver[e] EXCEPT !.tries = @ + 1]
    BY <2>1, <1>2 DEF ResolverStates
  <2>2. CASE r = [pc |-> "sending", tries |-> 0, at |-> now,
                  answer |-> IF a = "unauthorized" THEN "error" ELSE a]
    <3>1. (IF a = "unauthorized" THEN "error" ELSE a) \in Answers
      BY DEF Answers, Temporary
    <3> QED
      BY <2>2, <3>1 DEF ResolverStates, TypeOK
  <2> QED
    BY <1>1, <2>1, <2>2
<1>4. UNCHANGED <<now, entry, store, retriever>>
  BY DEF GetLookup
<1>5. TypeOK'
  BY <1>1, <1>3, <1>4 DEF TypeOK
<1>6. Created(e)
  BY <1>2 DEF InOrder
<1>7. InOrder'
  BY <1>1, <1>4, <1>6 DEF InOrder, Created, TypeOK
<1>8. AskedThenAnswered'
  <2>1. \A f \in Entries : resolver'[f].pc = "sending" =>
            entry[f].created <= resolver'[f].at /\ resolver'[f].at <= now
    BY <1>1, <1>3 DEF AskedThenAnswered, TypeOK
  <2> QED
    BY <2>1, <1>4 DEF AskedThenAnswered, isResolved
<1>9. EndsInTime'
  BY <1>4 DEF EndsInTime
<1> QED
  BY <1>5, <1>7, <1>8, <1>9

\* A response is set by a retrieval that waits, and was given since the entry
\* was created.
LEMMA SetResponseStep ==
    ASSUME IInv, NEW e \in Entries, NEW a \in Answers \union {"none"}, NEW at \in Nat,
           retriever[e] = "waiting",
           retriever' = [retriever EXCEPT ![e] = "done"],
           entry[e].created <= at, at <= now,
           setResponse(e, a, at),
           \/ UNCHANGED resolver
           \/ resolver' = [resolver EXCEPT ![e] = NotCalling("ended")],
           UNCHANGED <<now, store>>
    PROVE  IInv'
<1> USE DEF IInv
<1>1. PICK x : x = [entry[e] EXCEPT !.answer = a, !.answered = at]
  OBVIOUS
<1>2. entry' = [entry EXCEPT ![e] = x]
  BY <1>1 DEF setResponse, TypeOK
<1>3. /\ x \in EntryStates
      /\ x.created = entry[e].created
      /\ x.original = entry[e].original
      /\ x.refreshedBy = entry[e].refreshedBy
      /\ x.answered = at
  <2>1. entry[e] \in EntryStates
    BY DEF TypeOK
  <2> QED
    BY <2>1, <1>1 DEF EntryStates
<1>4. /\ entry' \in [Entries -> EntryStates]
      /\ \A f \in Entries :
            /\ entry'[f].created = entry[f].created
            /\ entry'[f].original = entry[f].original
            /\ entry'[f].refreshedBy = entry[f].refreshedBy
            /\ f # e => entry'[f] = entry[f]
      /\ entry'[e].answered = at
  BY <1>2, <1>3 DEF TypeOK
<1>5. NotCalling("ended") \in ResolverStates /\ NotCalling("ended").pc = "ended"
  BY DEF NotCalling, ResolverStates
<1>6. /\ resolver' \in [Entries -> ResolverStates]
      /\ \A f \in Entries : f # e => resolver'[f] = resolver[f]
      /\ resolver'[e].pc = "sending" => resolver'[e] = resolver[e]
  BY <1>5 DEF TypeOK
<1>7. TypeOK'
  BY <1>4, <1>6 DEF TypeOK
<1>8. Created(e)
  BY DEF InOrder
<1>9. \A f \in Entries : entry[f].refreshedBy # None => entry[f].refreshedBy \in Entries
  BY DEF TypeOK, EntryStates
<1>10. InOrder'
  <2>1. \A f \in Entries : Created(f)' <=> Created(f)
    BY <1>4 DEF Created
  <2>2. \A f \in Entries : ~Created(f)' =>
            entry'[f] = NoEntry /\ retriever'[f] = "none" /\ resolver'[f].pc = "none"
    BY <1>4, <1>6, <1>8, <2>1 DEF InOrder, TypeOK
  <2>3. \A f \in Entries : entry'[f].refreshedBy # None => entry'[entry'[f].refreshedBy].created # Never
    BY <1>4, <1>9 DEF InOrder, Created
  <2>4. store'.entry # None => entry'[store'.entry].created # Never
    BY <1>4 DEF InOrder, Created, TypeOK
  <2>5. \E n \in 0 .. MaxEntries : \A f \in Entries : Created(f)' <=> f <= n
    BY <2>1 DEF InOrder
  <2> QED
    BY <2>2, <2>3, <2>4, <2>5 DEF InOrder, Created
<1>11. AskedThenAnswered'
  <2>1. \A f \in Entries : entry'[f].answer # "none" =>
            /\ entry'[f].answered <= now
            /\ entry'[f].original = Never => entry'[f].created <= entry'[f].answered
    BY <1>4 DEF AskedThenAnswered, isResolved
  <2>2. \A f \in Entries :
            /\ entry'[f].created <= now
            /\ resolver'[f].pc = "sending" =>
                entry'[f].created <= resolver'[f].at /\ resolver'[f].at <= now
    BY <1>4, <1>6 DEF AskedThenAnswered
  <2> QED
    BY <2>1, <2>2 DEF AskedThenAnswered, isResolved
<1>12. EndsInTime'
  <2>1. \A f \in Entries : retriever'[f] \in {"waiting", "done"} /\ retriever'[f] # retriever[f] => f = e
    BY DEF TypeOK
  <2>2. \A f \in Entries : retriever'[f] = "waiting" => now <= entry'[f].created + RetrievalTimeout
    BY <2>1, <1>4 DEF EndsInTime, TypeOK
  <2>3. ASSUME NEW f \in Entries, entry'[f].refreshedBy # None,
               retriever'[entry'[f].refreshedBy] = "done"
        PROVE  now <= entry'[entry'[f].refreshedBy].created + RetrievalTimeout
    <3> PICK m : m = entry'[f].refreshedBy
      OBVIOUS
    <3>1. m \in Entries /\ entry[f].refreshedBy = m
      BY <2>3, <1>4, <1>9
    <3>2. CASE m = e
      BY <3>1, <3>2, <1>4 DEF EndsInTime
    <3>3. CASE m # e
      <4>1. retriever[m] = "done"
        BY <3>1, <3>3, <2>3 DEF TypeOK
      <4> QED
        BY <4>1, <3>1, <2>3, <1>4 DEF EndsInTime
    <3> QED
      BY <3>2, <3>3
  <2>4. store'.entry # None /\ entry'[store'.entry].original = Never =>
            store'.expires <= entry'[store'.entry].created + RetrievalTimeout + ExpirationTimeout
    BY <1>4 DEF EndsInTime, TypeOK
  <2> QED
    BY <2>2, <2>3, <2>4 DEF EndsInTime
<1> QED
  BY <1>7, <1>10, <1>11, <1>12

\* The end of a refresh: the new entry keeps the answer of the old one or has
\* its own, and takes its place in the store before its retrieval is overdue.
LEMMA RefreshStep ==
    ASSUME IInv, NEW e \in Entries, refreshFunc(e)
    PROVE  IInv'
<1> USE Numbers DEF IInv
<1> PICK n : n = entry[e].refreshedBy
  OBVIOUS
<1>1. /\ n # None /\ retriever[n] = "done" /\ isResolved(n)
      /\ entry' = [entry EXCEPT ![n] = Keep(n, e)] \/ entry' = entry
      /\ store' = [entry |-> n, expires |-> now + ExpirationTimeout]
      /\ retriever' = [retriever EXCEPT ![n] = "replaced"]
      /\ UNCHANGED <<now, client, resolver>>
  BY DEF refreshFunc, ReplaceOrCreate, Stored
<1>2. n \in Entries /\ Created(n) /\ n # 0
  BY <1>1 DEF TypeOK, EntryStates, InOrder, None
<1>3. Created(e)
  BY <1>1 DEF InOrder, NoEntry
<1>4. PICK x : x = Keep(n, e)
  OBVIOUS
<1>5. /\ x \in EntryStates
      /\ x.created = entry[n].created
      /\ x.original # Never
      /\ x.refreshedBy = entry[n].refreshedBy
      /\ x.answer = entry[e].answer
      /\ x.answered = entry[e].answered
  <2>1. entry[n] \in EntryStates /\ entry[e] \in EntryStates
    BY <1>2 DEF TypeOK
  <2> QED
    BY <2>1, <1>3, <1>4 DEF Keep, EntryStates, Created
<1>6. /\ entry' \in [Entries -> EntryStates]
      /\ \A f \in Entries :
            /\ entry'[f].created = entry[f].created
            /\ entry'[f].refreshedBy = entry[f].refreshedBy
            /\ f # n => entry'[f] = entry[f]
      /\ \/ entry'[n] = entry[n]
         \/ /\ entry'[n].original # Never
            /\ entry'[n].answer = entry[e].answer
            /\ entry'[n].answered = entry[e].answered
  BY <1>1, <1>2, <1>4, <1>5 DEF TypeOK
<1>7. TypeOK'
  <2>1. now' \in Nat /\ store' \in [entry : {None} \union Entries, expires : Nat]
    BY <1>1, <1>2 DEF TypeOK
  <2>2. retriever' \in [Entries -> {"none", "waiting", "done", "replaced"}]
    BY <1>1 DEF TypeOK
  <2> QED
    BY <2>1, <2>2, <1>1, <1>6 DEF TypeOK
<1>8. \A f \in Entries : entry[f].refreshedBy # None => entry[f].refreshedBy \in Entries
  BY DEF TypeOK, EntryStates
<1>9. InOrder'
  <2>1. \A f \in Entries : Created(f)' <=> Created(f)
    BY <1>6 DEF Created
  <2>2. \A f \in Entries : ~Created(f)' =>
            entry'[f] = NoEntry /\ retriever'[f] = "none" /\ resolver'[f].pc = "none"
    BY <1>1, <1>2, <1>6, <2>1 DEF InOrder, TypeOK
  <2>3. \A f \in Entries : entry'[f].refreshedBy # None => entry'[entry'[f].refreshedBy].created # Never
    BY <1>6, <1>8 DEF InOrder, Created
  <2>4. store'.entry # None => entry'[store'.entry].created # Never
    BY <1>1, <1>2, <1>6 DEF Created
  <2>5. \E k \in 0 .. MaxEntries : \A f \in Entries : Created(f)' <=> f <= k
    BY <2>1 DEF InOrder
  <2> QED
    BY <2>2, <2>3, <2>4, <2>5 DEF InOrder, Created
<1>10. AskedThenAnswered'
  <2>1. \A f \in Entries : entry'[f].answer # "none" =>
            /\ entry'[f].answered <= now
            /\ entry'[f].original = Never => entry'[f].created <= entry'[f].answered
    BY <1>6 DEF AskedThenAnswered, isResolved
  <2>2. \A f \in Entries :
            /\ entry'[f].created <= now
            /\ resolver'[f].pc = "sending" =>
                entry'[f].created <= resolver'[f].at /\ resolver'[f].at <= now
    BY <1>1, <1>6 DEF AskedThenAnswered
  <2> QED
    BY <2>1, <2>2, <1>1 DEF AskedThenAnswered, isResolved
<1>11. EndsInTime'
  <2>1. now <= entry[n].created + RetrievalTimeout
    BY <1>1 DEF EndsInTime
  <2>2. store'.expires <= entry'[n].created + RetrievalTimeout + ExpirationTimeout
    <3>1. entry[n].created \in Nat /\ now \in Nat
      BY <1>2 DEF TypeOK, EntryStates, Created
    <3> QED
      BY <2>1, <3>1, <1>1, <1>2, <1>6
  <2>3. \A f \in Entries : retriever'[f] \in {"waiting", "done"} => retriever'[f] = retriever[f]
    BY <1>1 DEF TypeOK
  <2>4. \A f \in Entries :
            /\ retriever'[f] = "waiting" => now <= entry'[f].created + RetrievalTimeout
            /\ entry'[f].refreshedBy # None /\ retriever'[entry'[f].refreshedBy] = "done" =>
                now <= entry'[entry'[f].refreshedBy].created + RetrievalTimeout
    <3>1. \A f \in Entries : entry[f].refreshedBy # None /\ retriever'[entry[f].refreshedBy] = "done" =>
              retriever[entry[f].refreshedBy] = "done"
      BY <2>3, <1>8
    <3>2. \A f \in Entries : entry[f].refreshedBy # None =>
              entry'[entry[f].refreshedBy].created = entry[entry[f].refreshedBy].created
      BY <1>6, <1>8
    <3>3. \A f \in Entries : retriever'[f] = "waiting" => retriever[f] = "waiting"
      BY <2>3
    <3> QED
      BY <3>1, <3>2, <3>3, <1>6 DEF EndsInTime
  <2> QED
    BY <2>2, <2>4, <1>1 DEF EndsInTime
<1> QED
  BY <1>7, <1>9, <1>10, <1>11

\* Time passes only while nothing is overdue.
LEMMA TickStep ==
    ASSUME IInv, Tick
    PROVE  IInv'
<1> USE Numbers DEF IInv
<1>1. now' = now + 1 /\ now \in Nat /\ UNCHANGED <<entry, store, retriever, resolver>>
  BY DEF Tick, TypeOK
<1>2. TypeOK'
  BY <1>1 DEF TypeOK
<1>3. InOrder'
  BY <1>1 DEF InOrder, Created
<1>4. \A e \in Entries : entry[e] \in EntryStates /\ resolver[e] \in ResolverStates
  BY DEF TypeOK
<1>5. AskedThenAnswered'
  BY <1>1, <1>4 DEF AskedThenAnswered, isResolved, EntryStates, ResolverStates, Never
<1>6. EndsInTime'
  <2>1. \A e \in Entries : retriever[e] = "waiting" => now + 1 <= entry[e].created + RetrievalTimeout
    <3>1. ASSUME NEW e \in Entries PROVE entry[e].created \in Int
      <4>1. entry[e].created \in Nat \union {Never}
        BY <1>4 DEF EntryStates
      <4> QED
        BY <4>1 DEF Never
    <3>2. \A e \in Entries : retriever[e] = "waiting" => ~(now >= entry[e].created + RetrievalTimeout)
      BY DEF Tick, Expired
    <3> QED
      BY <3>1, <3>2, <1>1
  <2>2. \A e \in Entries : entry[e].refreshedBy # None => retriever[entry[e].refreshedBy] # "done"
    BY DEF Tick
  <2> QED
    BY <2>1, <2>2, <1>1 DEF EndsInTime
<1> QED
  BY <1>2, <1>3, <1>5, <1>6

-----------------------------------------------------------------------------
(* The theorem *)

\* Every step keeps the invariant.
LEMMA NextIInv ==
    ASSUME IInv, [Next]_vars
    PROVE  IInv'
<1>1. ASSUME NEW c \in Clients, ResolveMiss(c)
      PROVE  IInv'
  BY <1>1, CreateStep DEF ResolveMiss
<1>2. ASSUME NEW c \in Clients, ResolveOutdated(c)
      PROVE  IInv'
  <2>1. Loaded \in Entries /\ Created(Loaded) /\ Loaded # None
    BY <1>2, Numbers DEF ResolveOutdated, Loaded, IInv, TypeOK, InOrder
  <2> QED
    BY <1>2, <2>1, CreateStep DEF ResolveOutdated
<1>3. ASSUME NEW c \in Clients, ResolveJoins(c) \/ Returns(c) \/ OriginalContextDone(c)
      PROVE  IInv'
  BY <1>3, ClientsOnly DEF ResolveJoins, Returns, OriginalContextDone
<1>4. ASSUME NEW e \in Entries, Receive(e)
      PROVE  IInv'
  <2> PICK a, at : a = resolver[e].answer /\ at = resolver[e].at
    OBVIOUS
  <2>1. resolver[e].pc = "sending" /\ retriever[e] = "waiting" /\ setResponse(e, a, at)
    BY <1>4 DEF Receive
  <2>2. a \in Answers \union {"none"} /\ at \in Nat \union {Never}
    BY DEF IInv, TypeOK, ResolverStates
  <2>3. entry[e].created <= at /\ at <= now
    BY <2>1 DEF IInv, AskedThenAnswered
  <2>4. entry[e].created \in Nat
    BY <2>1 DEF IInv, TypeOK, EntryStates, InOrder, Created
  <2>5. at \in Nat
    BY <2>2, <2>3, <2>4 DEF Never
  <2> QED
    BY <1>4, <2>1, <2>2, <2>3, <2>5, SetResponseStep DEF Receive
<1>5. ASSUME NEW e \in Entries, RetrievalContextDone(e)
      PROVE  IInv'
  <2>1. "timeout" \in Answers /\ now \in Nat /\ entry[e].created <= now /\ now <= now
    BY DEF Answers, Temporary, IInv, TypeOK, AskedThenAnswered
  <2> QED
    BY <1>5, <2>1, SetResponseStep DEF RetrievalContextDone
<1>6. ASSUME NEW e \in Entries, NEW a \in Answers, GetLookup(e, a)
      PROVE  IInv'
  BY <1>6, GetLookupStep
<1>7. CASE UNCHANGED vars
  BY <1>7, ClientsOnly DEF vars
<1> QED
  BY <1>1, <1>2, <1>3, <1>4, <1>5, <1>6, <1>7, RefreshStep, TickStep DEF Next, Retrieval

\* The invariant bounds the age of what the store offers.
LEMMA IInvServes == IInv => ServedIsRecent
<1> SUFFICES ASSUME IInv, Loaded # None, isResolved(Loaded), entry[Loaded].original = Never
             PROVE  now - entry[Loaded].answered <= ExpirationTimeout + RetrievalTimeout
  BY DEF ServedIsRecent
<1> PICK e : e = Loaded
  OBVIOUS
<1>1. e = store.entry /\ e \in Entries /\ now <= store.expires
  BY DEF Loaded, IInv, TypeOK, None
<1>2. store.expires <= entry[e].created + RetrievalTimeout + ExpirationTimeout
  BY <1>1 DEF IInv, EndsInTime
<1>3. entry[e].created <= entry[e].answered
  BY <1>1 DEF IInv, AskedThenAnswered
<1>4. now \in Int /\ store.expires \in Int /\ entry[e].created \in Int /\ entry[e].answered \in Int
  BY <1>1 DEF IInv, TypeOK, EntryStates, Never
<1> QED
  BY <1>1, <1>2, <1>3, <1>4, Numbers

\* ServedIsRecent: as long as no refresh fails, a request is served an answer
\* that is at most the expiration timeout and one retrieval old, whatever the
\* timeouts and however retrievals and refreshes interleave.
THEOREM ServedIsRecentHolds == Spec => []ServedIsRecent
<1>1. Spec => []IInv
  BY InitIInv, NextIInv, PTL DEF Spec
<1> QED
  BY <1>1, IInvServes, PTL

=============================================================================
