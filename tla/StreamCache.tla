----------------------------- MODULE StreamCache -----------------------------
(***************************************************************************)
(* The stream cache of the pack-objects hook: internal/streamcache         *)
(* (cache.go, pipe.go, cursor.go).  Requests with the same key share one   *)
(* entry: a goroutine writes a file, and everybody reads it behind it.     *)
(*                                                                         *)
(* Every request calls FindOrCreate once.  An entry is named after the     *)
(* request that created it, and so are its pipe, its waiter and its        *)
(* creating goroutine.  Contents are counted in chunks.                    *)
(***************************************************************************)
EXTENDS Naturals, FiniteSets

CONSTANTS
    Requests,
    Keys,
    Asked,      \* the ways in which requests ask for keys
    NoEntry,
    Chunks      \* chunks that a successful create writes

ASSUME CacheAssumption ==
    /\ IsFiniteSet(Requests) /\ NoEntry \notin Requests
    /\ Asked \subseteq [Requests -> Keys]
    /\ Chunks \in Nat \ {0}

VARIABLES
    key,        \* what each request asks for
    index,      \* the cache's entry of each key
    size,       \* chunks in each entry's file
    wcursor,    \* position the readers of an entry know of
    rcursor,    \* position of its fastest reader
    readers,    \* subscribers of wcursor: the open readers
    abandoned,  \* entries whose wcursor is done: all readers are closed
    closed,     \* entries whose rcursor is done: the writer is closed
    wtoken,     \* entries whose writer has a notification
    rtoken,     \* requests whose reader has a notification
    creator,    \* where each entry's goroutine is
    waiter,     \* each entry's result
    stream      \* where each request is, in which entry, at which position

pipe == <<size, wcursor, rcursor, wtoken, rtoken>>
ends == <<readers, abandoned, closed>>
cache == <<key, index, pipe, ends, creator, waiter, stream>>

NewStream == [pc |-> "idle", entry |-> NoEntry, pos |-> 0]

Reading == {"reading", "blocked", "sending", "waiting"}
Ended == {"ok", "error", "gone"}

-----------------------------------------------------------------------------
(* FindOrCreate *)

\* Mutant: the entry is not checked for being abandoned.
Opens_Abandoned(e) == e # NoEntry

\* OpenReader succeeds if the pipe is not broken, and the file is still there.
Opens(e) == e # NoEntry /\ ~(e \in abandoned /\ e \notin closed)

\* A hit: r reads from the start.
Find(r) ==
    LET e == index[key[r]]
    IN  /\ stream[r].pc = "idle"
        /\ Opens(e)
        /\ readers' = [readers EXCEPT ![e] = @ \union {r}]
        /\ stream' = [stream EXCEPT ![r] = [pc |-> "reading", entry |-> e, pos |-> 0]]
        /\ UNCHANGED <<key, index, pipe, abandoned, closed, creator, waiter>>

\* A miss, or an entry that cannot be opened: r creates a new one.  RemoveFile,
\* or the filestore's cleanWalk, may have removed the file of any entry; who has
\* it open keeps it, and the first one that cannot open it drops the entry.
Create(r) ==
    /\ stream[r].pc = "idle"
    /\ index' = [index EXCEPT ![key[r]] = r]
    /\ readers' = [readers EXCEPT ![r] = {r}]
    /\ creator' = [creator EXCEPT ![r] = "starting"]
    /\ stream' = [stream EXCEPT ![r] = [pc |-> "reading", entry |-> r, pos |-> 0]]
    /\ UNCHANGED <<key, pipe, abandoned, closed, waiter>>

\* The file or the pipe cannot be created; a broken entry is gone anyway.
CreateFails(r) ==
    /\ stream[r].pc = "idle"
    /\ index' = [index EXCEPT ![key[r]] = NoEntry]
    /\ stream' = [stream EXCEPT ![r].pc = "error"]
    /\ UNCHANGED <<key, pipe, ends, creator, waiter>>

-----------------------------------------------------------------------------
(* The creating goroutine *)

Becomes(e, pc) == creator' = [creator EXCEPT ![e] = pc]

\* Back pressure: no reader has caught up with the last write.
Ahead(e) == wcursor[e] > rcursor[e]

\* Write: the loop's condition and, if it does not hold, the file.
Write(e) ==
    /\ creator[e] = "writing" /\ size[e] < Chunks
    /\ IF Ahead(e)
       THEN Becomes(e, "blocked") /\ UNCHANGED size
       ELSE Becomes(e, "written") /\ size' = [size EXCEPT ![e] = @ + 1]
    /\ UNCHANGED <<key, index, wcursor, rcursor, wtoken, rtoken, ends, waiter, stream>>

\* wcursor counts what has been written.
Position(e) == size[e]

\* Write, last part: all readers are notified.
SetWritePosition(e) ==
    /\ creator[e] = "written"
    /\ wcursor' = [wcursor EXCEPT ![e] = Position(e)]
    /\ rtoken' = rtoken \union readers[e]
    /\ Becomes(e, "writing")
    /\ UNCHANGED <<key, index, size, rcursor, wtoken, ends, waiter, stream>>

\* A blocked Write is notified of a read.
WriterWakes(e) ==
    /\ creator[e] = "blocked" /\ e \in wtoken
    /\ wtoken' = wtoken \ {e}
    /\ Becomes(e, "writing")
    /\ UNCHANGED <<key, index, size, wcursor, rcursor, rtoken, ends, waiter, stream>>

\* A blocked Write sees that nobody is left to read.
WrongCloseOrder(e) ==
    /\ creator[e] = "blocked" /\ e \in abandoned
    /\ Becomes(e, "failed")
    /\ UNCHANGED <<key, index, pipe, ends, waiter, stream>>

\* create returns after the last chunk.
CreateReturns(e) ==
    /\ creator[e] = "writing" /\ size[e] = Chunks
    /\ Becomes(e, "finished")
    /\ UNCHANGED <<key, index, pipe, ends, waiter, stream>>

\* create fails or panics, possibly before it has written anything.
CreateReturnsError(e) ==
    /\ creator[e] = "writing"
    /\ Becomes(e, "failed")
    /\ UNCHANGED <<key, index, pipe, ends, waiter, stream>>

\* Close: the readers have gone before the writer.
CloseFails(e) == e \in abandoned

\* Close, called by runCreate whether or not create was successful; closing the
\* file may fail too.
Close(e, fileClosed) ==
    /\ creator[e] \in {"finished", "failed"}
    /\ closed' = IF CloseFails(e) THEN closed ELSE closed \union {e}
    /\ Becomes(e, IF creator[e] = "finished" /\ ~CloseFails(e) /\ fileClosed
                   THEN "succeeded" ELSE "pruning")
    /\ wtoken' = wtoken \ {e}
    /\ UNCHANGED <<key, index, size, wcursor, rcursor, rtoken, readers, abandoned, waiter,
                   stream>>

\* The key is deleted, whichever entry it has by now.
Pruned(k) == [index EXCEPT ![k] = NoEntry]

Prune(e) ==
    /\ creator[e] = "pruning"
    /\ index' = Pruned(key[e])
    /\ Becomes(e, "pruned")
    /\ UNCHANGED <<key, pipe, ends, waiter, stream>>

SetError(e) ==
    /\ creator[e] \in {"succeeded", "pruned"}
    /\ waiter' = [waiter EXCEPT ![e] = IF creator[e] = "succeeded" THEN "ok" ELSE "error"]
    /\ Becomes(e, "done")
    /\ UNCHANGED <<key, index, pipe, ends, stream>>

-----------------------------------------------------------------------------
(* Readers *)

Moves(r, pc) == stream' = [stream EXCEPT ![r].pc = pc]

\* Mutant: the reader takes what it knows of for everything.
MustWait_Never(r) == FALSE

\* waitReadable: there is nothing new, as far as the reader knows.
MustWait(r) == stream[r].pos >= wcursor[stream[r].entry]

ReaderBlocks(r) ==
    /\ stream[r].pc \in {"reading", "sending"} /\ MustWait(r)
    /\ Moves(r, "blocked")
    /\ UNCHANGED <<key, index, pipe, ends, creator, waiter>>

ReaderWakes(r) ==
    /\ stream[r].pc = "blocked" /\ r \in rtoken
    /\ rtoken' = rtoken \ {r}
    /\ Moves(r, "reading")
    /\ UNCHANGED <<key, index, size, wcursor, rcursor, wtoken, ends, creator, waiter>>

\* Mutant: the writer is not notified.
Notified_Never(e, pos) == wtoken

\* SetPosition of rcursor: the writer is notified if the position grows.
Notified(e, pos) ==
    IF pos > rcursor[e] /\ e \notin closed THEN wtoken \union {e} ELSE wtoken

\* Read: n chunks of those in the file, of which the reader may not know yet,
\* or the end of the file.  WriteTo sends them, as does sendfile.
Read(r, n) ==
    LET e == stream[r].entry
        pos == stream[r].pos + n
    IN  /\ \/ stream[r].pc \in {"reading", "sending"} /\ ~MustWait(r)
           \/ stream[r].pc = "blocked" /\ e \in closed
        /\ pos <= size[e] /\ (n = 0 => pos = size[e])
        /\ stream' = [stream EXCEPT ![r].pos = pos,
                                    ![r].pc = IF n = 0 THEN "waiting" ELSE "sending"]
        /\ rcursor' = [rcursor EXCEPT ![e] = IF pos > @ THEN pos ELSE @]
        /\ wtoken' = Notified(e, pos)
        /\ UNCHANGED <<key, index, size, wcursor, rtoken, ends, creator, waiter>>

\* The reader is closed; the last one leaves the pipe abandoned.
CloseReader(r) ==
    LET e == stream[r].entry
    IN  /\ readers' = [readers EXCEPT ![e] = @ \ {r}]
        /\ abandoned' = IF readers[e] = {r} THEN abandoned \union {e} ELSE abandoned
        /\ rtoken' = rtoken \ {r}

\* Wait has the entry's result, which is the request's.
Wait(r) ==
    LET e == stream[r].entry
    IN  /\ stream[r].pc = "waiting" /\ waiter[e] # "open"
        /\ Moves(r, waiter[e])
        /\ CloseReader(r)
        /\ UNCHANGED <<key, index, size, wcursor, rcursor, wtoken, closed, creator, waiter>>

\* The client hangs up.  The request notices when it sends something or when
\* it waits for the result, but not when it waits for something to read.
HangUp(r) ==
    /\ stream[r].pc \in {"sending", "waiting"}
    /\ stream' = [stream EXCEPT ![r] = [NewStream EXCEPT !.pc = "gone"]]
    /\ CloseReader(r)
    /\ UNCHANGED <<key, index, size, wcursor, rcursor, wtoken, closed, creator, waiter>>

-----------------------------------------------------------------------------
(* Removal of old entries *)

\* clean: an entry that is old enough is evicted, in use or not.
Clean(k) ==
    /\ index[k] # NoEntry
    /\ index' = [index EXCEPT ![k] = NoEntry]
    /\ UNCHANGED <<key, pipe, ends, creator, waiter, stream>>

CacheInit ==
    /\ key \in Asked
    /\ index = [k \in Keys |-> NoEntry]
    /\ size = [e \in Requests |-> 0]
    /\ wcursor = [e \in Requests |-> 0]
    /\ rcursor = [e \in Requests |-> 0]
    /\ readers = [e \in Requests |-> {}]
    /\ abandoned = {} /\ closed = {}
    /\ wtoken = {} /\ rtoken = {}
    /\ creator = [e \in Requests |-> "none"]
    /\ waiter = [e \in Requests |-> "open"]
    /\ stream = [r \in Requests |-> NewStream]

-----------------------------------------------------------------------------
(* Properties *)

\* A request only succeeds with the complete content of its key: the end of the
\* file that a failed or overtaken writer leaves is never taken for the end of
\* the pack.
SuccessIsComplete ==
    \A r \in Requests : stream[r].pc = "ok" =>
        stream[r].pos = Chunks /\ key[stream[r].entry] = key[r]

\* Clients that hang up do not affect the others: as long as a request reads
\* from an entry, its writer is not told that everybody has gone.
BystandersUnaffected ==
    \A r \in Requests : stream[r].pc \in Reading /\ stream[r].entry \in abandoned =>
        stream[r].entry \in closed

\* No notification is lost: who is blocked although it could go on has one.
NoLostWakeup ==
    /\ \A e \in Requests : creator[e] = "blocked" /\ ~Ahead(e) => e \in wtoken
    /\ \A r \in Requests : stream[r].pc = "blocked" /\ ~MustWait(r) =>
            r \in rtoken \/ stream[r].entry \in closed

-----------------------------------------------------------------------------
(* The inductive invariant that the properties rest on *)

Finished == {"succeeded", "pruning", "pruned", "done"}

TypeOK ==
    /\ key \in [Requests -> Keys]
    /\ index \in [Keys -> Requests \union {NoEntry}]
    /\ size \in [Requests -> 0 .. Chunks]
    /\ wcursor \in [Requests -> Nat]
    /\ rcursor \in [Requests -> Nat]
    /\ readers \in [Requests -> SUBSET Requests]
    /\ creator \in [Requests -> {"none", "starting", "writing", "written", "blocked",
                                 "finished", "failed"} \union Finished]
    /\ waiter \in [Requests -> {"open", "ok", "error"}]
    /\ stream \in [Requests -> [pc : {"idle"} \union Reading \union Ended,
                                entry : Requests \union {NoEntry}, pos : 0 .. Chunks]]

\* An entry of the index is somebody's, and has the key it is found under.
IndexMatches ==
    \A k \in Keys : index[k] # NoEntry =>
        creator[index[k]] # "none" /\ key[index[k]] = k

\* What an entry's goroutine has done shows in its file, pipe and waiter.
EntriesMatch ==
    \A e \in Requests :
        /\ wcursor[e] <= size[e]
        /\ creator[e] \in {"finished", "succeeded"} => size[e] = Chunks
        /\ e \in closed => creator[e] \in Finished
        /\ waiter[e] # "open" => creator[e] = "done"
        /\ waiter[e] = "ok" => size[e] = Chunks
        /\ e \in abandoned => creator[e] # "none"
        /\ e \in abandoned \ closed => readers[e] = {}

\* A request that has not been in the cache has no entry, and one that reads is
\* among the readers of an entry of its key.  One that waits for the result has
\* read all that a closed writer has left.
StreamsMatch ==
    \A r \in Requests :
        /\ stream[r].pc = "idle" => creator[r] = "none"
        /\ stream[r].pc \in Reading =>
              /\ stream[r].entry \in Requests
              /\ r \in readers[stream[r].entry]
              /\ creator[stream[r].entry] # "none"
              /\ key[stream[r].entry] = key[r]
        /\ stream[r].pc = "waiting" =>
              stream[r].entry \in closed /\ stream[r].pos = size[stream[r].entry]

IInv ==
    /\ TypeOK /\ IndexMatches /\ EntriesMatch /\ StreamsMatch
    /\ SuccessIsComplete /\ NoLostWakeup

=============================================================================
