----------------------------- MODULE LookupCache -----------------------------
(***************************************************************************)
(* The cache of domain lookups of GitLab Pages:                            *)
(* internal/source/gitlab/cache (cache.go, entry.go, memstore.go,          *)
(* retriever.go).  Requests for a domain share an entry.  An entry is      *)
(* retrieved once, by the first request that needs it, and refreshed once, *)
(* by a new entry that takes its place; a temporary error does not take    *)
(* the place of an earlier answer.                                         *)
(*                                                                         *)
(* One domain: domains share nothing.  Entries are numbered in the order   *)
(* of their creation.  Time is counted in units in which the timeouts are  *)
(* small; what needs no waiting takes no time.                             *)
(***************************************************************************)
EXTENDS Integers

CONSTANTS
    Clients,
    RefreshTimeout,     \* entryRefreshTimeout
    ExpirationTimeout,  \* CacheExpiry, of the store and of the entries
    RetrievalTimeout,
    MaxRetries,         \* maxRetrievalRetries
    MaxEntries, MaxTime \* bounds

ASSUME LookupAssumption ==
    /\ {RefreshTimeout, ExpirationTimeout, RetrievalTimeout, MaxTime} \subseteq Nat
    /\ {MaxRetries, MaxEntries} \subseteq Nat \ {0}

VARIABLES
    now,
    entry,      \* the entries created so far
    store,      \* the entry of the domain in the memstore and when it expires
    client,     \* the entry that each client waits for
    retriever,  \* where Retrieve and what follows it is, for each entry
    resolver    \* the goroutine of resolveWithBackoff, for each entry

vars == <<now, entry, store, client, retriever, resolver>>

Entries == 1 .. MaxEntries
None == 0
Never == -1

\* What the API answers.  lookup is an answer that is not a temporary error: the
\* domain, or ErrDomainDoesNotExist.  timeout is the error of a context or of the
\* network, unauthorized is an error that is not worth another try.
Temporary == {"error", "unauthorized", "timeout"}
Answers == {"lookup"} \union Temporary

\* answer is the response and answered when the API gave it; original is
\* refreshedOriginalTimestamp.
NoEntry == [created |-> Never, original |-> Never, answer |-> "none", answered |-> Never,
            refreshedBy |-> None]
NewEntry == [NoEntry EXCEPT !.created = now]

NotCalling(pc) == [pc |-> pc, tries |-> 0, answer |-> "none", at |-> Never]

\* newCacheEntry takes the next number.
Fresh == CHOOSE e \in Entries : \A f \in Entries : (entry[f] = NoEntry) <=> (f >= e)
CanCreate == entry[MaxEntries] = NoEntry /\ now + RetrievalTimeout <= MaxTime

-----------------------------------------------------------------------------
(* Entry *)

isResolved(e) == entry[e].answer # "none"

\* The age of an entry, or of the one whose response it has kept.
Since(e) == now - (IF entry[e].original # Never THEN entry[e].original ELSE entry[e].created)

isOutdated(e) == Since(e) > RefreshTimeout
isExpired(e) == Since(e) > ExpirationTimeout
timedOut(e) == entry[e].answer = "timeout"

NeedsRefresh(e) == isResolved(e) /\ (isOutdated(e) \/ timedOut(e))

hasTemporaryError(e) == entry[e].answer \in Temporary

-----------------------------------------------------------------------------
(* memstore *)

\* Mutant: the store does not forget.
Loaded_Always == store.entry

\* What the store has for the domain.
Loaded == IF now > store.expires THEN None ELSE store.entry

Stored(e) == store' = [entry |-> e, expires |-> now + ExpirationTimeout]

-----------------------------------------------------------------------------
(* Resolve *)

\* The first caller of retrieve for e starts Retrieve and its resolver.
Starts(e) ==
    /\ retriever' = [retriever EXCEPT ![e] = "waiting"]
    /\ resolver' = [resolver EXCEPT ![e] = [NotCalling("calling") EXCEPT !.tries = 1]]

\* No entry: the client creates one, has it retrieved and waits for it.
ResolveMiss(c) ==
    /\ client[c] = None /\ Loaded = None /\ CanCreate
    /\ entry' = [entry EXCEPT ![Fresh] = NewEntry]
    /\ Stored(Fresh)
    /\ Starts(Fresh)
    /\ client' = [client EXCEPT ![c] = Fresh]
    /\ UNCHANGED now

\* An entry that is still being retrieved: the client waits too.
ResolveJoins(c) ==
    /\ client[c] = None /\ Loaded # None
    /\ ~isResolved(Loaded)
    /\ client' = [client EXCEPT ![c] = Loaded]
    /\ UNCHANGED <<now, entry, store, retriever, resolver>>

\* An outdated entry: the client gets it, and the first one has it refreshed by
\* a new entry (Refresh, refreshFunc).  An up-to-date entry changes nothing.
ResolveOutdated(c) ==
    /\ client[c] = None /\ Loaded # None /\ CanCreate
    /\ NeedsRefresh(Loaded) /\ entry[Loaded].refreshedBy = None
    /\ entry' = [entry EXCEPT ![Loaded].refreshedBy = Fresh, ![Fresh] = NewEntry]
    /\ Starts(Fresh)
    /\ UNCHANGED <<now, store, client>>

\* The client has its lookup, or it has gone away.
Returns(c) ==
    /\ client[c] # None /\ isResolved(client[c])
    /\ client' = [client EXCEPT ![c] = None]
    /\ UNCHANGED <<now, entry, store, retriever, resolver>>

OriginalContextDone(c) ==
    /\ client[c] # None
    /\ client' = [client EXCEPT ![c] = None]
    /\ UNCHANGED <<now, entry, store, retriever, resolver>>

-----------------------------------------------------------------------------
(* Retriever *)

\* Retrieve is called when its entry is created.
Expired(e) == now >= entry[e].created + RetrievalTimeout

setResponse(e, a, at) == entry' = [entry EXCEPT ![e].answer = a, ![e].answered = at]

\* One call of the API in resolveWithBackoff.  Its context ends with Retrieve's;
\* only errors that are neither final nor due to a context are tried again.
GetLookup(e, a) ==
    /\ resolver[e].pc = "calling"
    /\ Expired(e) => a = "timeout"
    /\ resolver' = [resolver EXCEPT ![e] =
            IF a = "error" /\ resolver[e].tries < MaxRetries
            THEN [resolver[e] EXCEPT !.tries = @ + 1]
            ELSE [pc |-> "sending", tries |-> 0, at |-> now,
                  answer |-> IF a = "unauthorized" THEN "error" ELSE a]]
    /\ UNCHANGED <<now, entry, store, client, retriever>>

\* Retrieve receives the answer.
Receive(e) ==
    /\ retriever[e] = "waiting" /\ resolver[e].pc = "sending"
    /\ retriever' = [retriever EXCEPT ![e] = "done"]
    /\ resolver' = [resolver EXCEPT ![e] = NotCalling("ended")]
    /\ setResponse(e, resolver[e].answer, resolver[e].at)
    /\ UNCHANGED <<now, store, client>>

\* Mutant: the goroutine of retrieve ends without a response.
RetrievalContextDone_NoResponse(e) ==
    /\ retriever[e] = "waiting" /\ Expired(e)
    /\ retriever' = [retriever EXCEPT ![e] = "done"]
    /\ UNCHANGED <<now, entry, store, client, resolver>>

\* Retrieve gives up.
RetrievalContextDone(e) ==
    /\ retriever[e] = "waiting" /\ Expired(e)
    /\ retriever' = [retriever EXCEPT ![e] = "done"]
    /\ setResponse(e, "timeout", now)
    /\ UNCHANGED <<now, store, client, resolver>>

-----------------------------------------------------------------------------
(* refreshFunc, once the new entry n of e has been retrieved *)

\* The new entry with the response of the old one.
Keep(n, e) ==
    [entry[n] EXCEPT !.answer = entry[e].answer, !.answered = entry[e].answered,
                     !.original = entry[e].created]

\* Mutant: without the Delete, an entry that is there is not replaced.
ReplaceOrCreate_Create(n) == IF Loaded # None THEN UNCHANGED store ELSE Stored(n)

ReplaceOrCreate(n) == Stored(n)

refreshFunc(e) ==
    LET n == entry[e].refreshedBy
    IN  /\ n # None /\ retriever[n] = "done" /\ isResolved(n)
        /\ entry' = IF ~isExpired(e) /\ hasTemporaryError(n)
                    THEN [entry EXCEPT ![n] = Keep(n, e)] ELSE entry
        /\ ReplaceOrCreate(n)
        /\ retriever' = [retriever EXCEPT ![n] = "replaced"]
        /\ UNCHANGED <<now, client, resolver>>

-----------------------------------------------------------------------------
\* Time passes when nobody is late: Retrieve gives up in time, and what follows
\* it takes no time.
Tick ==
    /\ now < MaxTime
    /\ \A e \in Entries : retriever[e] = "waiting" => ~Expired(e)
    /\ \A e \in Entries : entry[e].refreshedBy # None => retriever[entry[e].refreshedBy] # "done"
    /\ now' = now + 1
    /\ UNCHANGED <<entry, store, client, retriever, resolver>>

Init ==
    /\ now = 0
    /\ entry = [e \in Entries |-> NoEntry]
    /\ store = [entry |-> None, expires |-> 0]
    /\ client = [c \in Clients |-> None]
    /\ retriever = [e \in Entries |-> "none"]
    /\ resolver = [e \in Entries |-> NotCalling("none")]

Retrieval(e) == Receive(e) \/ RetrievalContextDone(e) \/ refreshFunc(e)

Next ==
    \/ \E c \in Clients :
        \/ ResolveMiss(c) \/ ResolveJoins(c) \/ ResolveOutdated(c)
        \/ Returns(c) \/ OriginalContextDone(c)
    \/ \E e \in Entries : Retrieval(e) \/ (\E a \in Answers : GetLookup(e, a))
    \/ Tick

Spec == Init /\ [][Next]_vars

\* Goroutines that can go on do, a call of the API ends when its context has
\* ended, and time passes.
FairSpec ==
    /\ Spec
    /\ WF_vars(Tick)
    /\ \A c \in Clients : WF_vars(Returns(c))
    /\ \A e \in Entries : WF_vars(Retrieval(e)) /\ WF_vars(Expired(e) /\ GetLookup(e, "timeout"))

-----------------------------------------------------------------------------
(* Properties *)

\* As long as no refresh fails, what the store offers was the API's answer at
\* most the expiration timeout and one retrieval ago, however slowly entries
\* are refreshed and whichever refresh is the last to end.
ServedIsRecent ==
    Loaded # None /\ isResolved(Loaded) /\ entry[Loaded].original = Never =>
        now - entry[Loaded].answered <= ExpirationTimeout + RetrievalTimeout

\* A request that waits for an entry gets it, or gives up: retrieve.Do and the
\* closing of retrieved leave nobody behind.
ResolveReturns == \A c \in Clients : client[c] # None ~> client[c] = None

\* An outdated entry that was asked for does not stay, even if its refresh
\* fails.  Refresh is guarded by a sync.Once of the entry, so an entry that a failed
\* refresh left in the store would not be refreshed again until the store drops it.
\* ReplacedOnlyBySuccess says what the comment on Refresh promises instead.
OutdatedIsReplaced ==
    \A e \in Entries : entry[e].refreshedBy # None ~> store.entry # e

\* cache.go, on Refresh: "If an existing successful entry exists, it will only be
\* replaced if the new resolved entry is successful too."  It does not hold: refreshFunc
\* ends with ReplaceOrCreate in any case, and the response that it keeps gets a new
\* entry, with a new sync.Once and a new time to expire in the store.
ReplacedOnlyBySuccess ==
    [][\A e \in Entries :
        store.entry = e /\ entry[e].answer = "lookup" /\ store'.entry = entry[e].refreshedBy =>
            entry[store'.entry].answer = "lookup"]_vars

\* cache.go: "Errored refreshed Entry responses will not replace the previously
\* successful entry.response for a maximum time of e.expirationTimeout."  A
\* response is kept no longer than that after the API gave it.  It does not
\* hold: refreshFunc takes e.created for the original timestamp even if e has a
\* kept response itself.
KeptWithinExpiration ==
    [][\A e \in Entries :
        entry'[e].original # entry[e].original /\ entry'[e].answer = "lookup" =>
            now - entry'[e].answered <= ExpirationTimeout]_vars

\* retriever.go: "do not retry if there's a context error to avoid leaking the
\* goroutine".  It does not hold: the send has no receiver once Retrieve has
\* given up.
ResolverEnds ==
    \A e \in Entries : resolver[e].pc = "calling" ~> resolver[e].pc = "ended"

-----------------------------------------------------------------------------
(* The inductive invariant behind ServedIsRecent *)

EntryStates ==
    [ created : Nat \union {Never}, original : Nat \union {Never}, answered : Nat \union {Never},
      answer : Answers \union {"none"}, refreshedBy : {None} \union Entries ]
ResolverStates ==
    [ pc : {"none", "calling", "sending", "ended"}, tries : Nat,
      answer : Answers \union {"none"}, at : Nat \union {Never} ]

TypeOK ==
    /\ now \in Nat
    /\ entry \in [Entries -> EntryStates]
    /\ store \in [entry : {None} \union Entries, expires : Nat]
    /\ retriever \in [Entries -> {"none", "waiting", "done", "replaced"}]
    /\ resolver \in [Entries -> ResolverStates]

Created(e) == entry[e].created # Never

\* Entries are created in order, and only those are retrieved, refreshed or
\* stored.
InOrder ==
    /\ \E n \in 0 .. MaxEntries : \A f \in Entries : Created(f) <=> f <= n
    /\ \A e \in Entries :
        /\ ~Created(e) =>
            entry[e] = NoEntry /\ retriever[e] = "none" /\ resolver[e].pc = "none"
        /\ entry[e].refreshedBy # None => Created(entry[e].refreshedBy)
    /\ store.entry # None => Created(store.entry)

\* Nothing is answered before it was asked for, or later than now.
AskedThenAnswered ==
    \A e \in Entries :
        /\ entry[e].created <= now
        /\ resolver[e].pc = "sending" => entry[e].created <= resolver[e].at /\ resolver[e].at <= now
        /\ isResolved(e) =>
            /\ entry[e].answered <= now
            /\ entry[e].original = Never => entry[e].created <= entry[e].answered

\* A retrieval, and the refresh that waits for it, end in time; what the store
\* has was stored by then.
EndsInTime ==
    /\ \A e \in Entries :
        /\ retriever[e] = "waiting" => now <= entry[e].created + RetrievalTimeout
        /\ entry[e].refreshedBy # None /\ retriever[entry[e].refreshedBy] = "done" =>
            now <= entry[entry[e].refreshedBy].created + RetrievalTimeout
    /\ store.entry # None /\ entry[store.entry].original = Never =>
        store.expires <= entry[store.entry].created + RetrievalTimeout + ExpirationTimeout

IInv == TypeOK /\ InOrder /\ AskedThenAnswered /\ EndsInTime

=============================================================================
