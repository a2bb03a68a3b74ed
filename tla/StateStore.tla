----------------------------- MODULE StateStore -----------------------------
(***************************************************************************)
(* The durable state: ChainedStore over DiskStore and GistStore            *)
(* (src/src/agentcore/persistence.py) under its two clients, TaskStore and *)
(* LongTermMemory (src/src/agentcore/memory.py).                           *)
(*                                                                         *)
(* A document is the set of its entries, and the empty set stands for a    *)
(* document that is not there.  Disk accesses do not suspend; a GET of the *)
(* gist, the wait for the gist's lock and a PATCH do, and the actions are  *)
(* the code between them.  A client's save is TaskStore.save or            *)
(* LongTermMemory.remember: load the document, add an entry, store it.     *)
(***************************************************************************)
EXTENDS Naturals, Sequences, FiniteSets

CONSTANTS
    Keys,         \* the mirrored documents
    Clients,      \* concurrent users of the store
    KeyOf,        \* the document of each client
    Cached,       \* clients that load once per process: LongTermMemory, alone
                  \*   with its document
    Entries,      \* bound: what may be written
    WritesOf,     \* bound: the entries each client writes
    ReadsMayFail, \* may a GET of the gist fail?
    DiskMayFail   \* may DiskStore.set fail?

ASSUME ConstantsAssumption ==
    /\ KeyOf \in [Clients -> Keys]
    /\ Cached \subseteq Clients
    /\ \A c \in Cached, d \in Clients : KeyOf[c] = KeyOf[d] => c = d
    /\ WritesOf \in [Clients -> SUBSET Entries]
    /\ ReadsMayFail \in BOOLEAN
    /\ DiskMayFail \in BOOLEAN

VARIABLES
    disk,      \* documents on the local disk
    gist,      \* documents in the gist
    cache,     \* GistStore._cache
    fresh,     \* is the cache filled and less than 30 s old?
    booted,    \* has the startup preflight run?
    lockq,     \* GistStore._lock: its holder, then its waiters
    pc,        \* where each client is
    op,        \* what each client is doing
    got,       \* the gist as a client's GET found it
    body,      \* the document in a client's PATCH
    held,      \* LongTermMemory._cache
    loaded,    \* cached clients whose _cache is set
    blind,     \* history: documents of which some load missed a part
    behind     \* history: documents of which some save or PATCH went wrong since
               \*   the gist was last seen to have caught up with the disk

vars == <<disk, gist, cache, fresh, booted, lockq, pc, op, got, body, held, loaded, blind, behind>>

Docs == SUBSET Entries
NoDoc == {}
NoDocs == [k \in Keys |-> NoDoc]
Ops == [kind : {"load", "save"}, entries : Docs]
NoOp == [kind |-> "load", entries |-> {}]
Stages == {"idle", "waiting", "reading", "answered", "patching", "landed"}

\* Earlier instances have left in the gist any part of what the clients write.
Init ==
    /\ disk = NoDocs
    /\ gist \in {g \in [Keys -> Docs] :
                  \A k \in Keys : g[k] \subseteq
                      UNION {WritesOf[c] : c \in {c \in Clients : KeyOf[c] = k}}}
    /\ cache = NoDocs
    /\ fresh = FALSE
    /\ booted = FALSE
    /\ lockq = <<>>
    /\ pc = [c \in Clients |-> "idle"]
    /\ op = [c \in Clients |-> NoOp]
    /\ got = [c \in Clients |-> NoDocs]
    /\ body = [c \in Clients |-> NoDoc]
    /\ held = [c \in Clients |-> NoDoc]
    /\ loaded = {}
    /\ blind = {}
    /\ behind = {}

-----------------------------------------------------------------------------
\* Mutant: every client keeps what it loaded.
RememberAlways(c, doc) ==
    /\ held' = [held EXCEPT ![c] = doc]
    /\ loaded' = loaded \union {c}

\* LongTermMemory keeps the document for the life of the process.
Remember(c, doc) ==
    /\ held' = IF c \in Cached THEN [held EXCEPT ![c] = doc] ELSE held
    /\ loaded' = loaded \union (Cached \intersect {c})

\* Mutant: the document is replaced by the new entry.
ContinueReplacing(c, o, doc, onDisk) ==
    LET k == KeyOf[c]
    IN  /\ Remember(c, doc \union o.entries)
        /\ op' = [op EXCEPT ![c] = o]
        /\ IF o.kind = "load"
           THEN /\ disk' = [disk EXCEPT ![k] = onDisk]
                /\ UNCHANGED <<pc, body>>
           ELSE /\ disk' = [disk EXCEPT ![k] = o.entries]
                /\ body' = [body EXCEPT ![c] = o.entries]
                /\ pc' = [pc EXCEPT ![c] = "patching"]
        /\ UNCHANGED behind

(***************************************************************************)
(* What follows a load, up to the next suspension: the caller gets doc, or *)
(* adds its entry and stores the result, on disk first.  onDisk is what    *)
(* the load left on the disk.                                              *)
(***************************************************************************)
Continue(c, o, doc, onDisk) ==
    LET k == KeyOf[c]
        new == doc \union o.entries
    IN  /\ Remember(c, new)
        /\ \/ /\ o.kind = "load"
              /\ disk' = [disk EXCEPT ![k] = onDisk]
              /\ pc' = [pc EXCEPT ![c] = "idle"]
              /\ op' = [op EXCEPT ![c] = NoOp]
              /\ UNCHANGED <<body, behind>>
           \/ /\ o.kind = "save"
              /\ disk' = [disk EXCEPT ![k] = new]
              /\ body' = [body EXCEPT ![c] = new]
              /\ pc' = [pc EXCEPT ![c] = "patching"]
              /\ op' = [op EXCEPT ![c] = o]
              /\ UNCHANGED behind
           \/ /\ o.kind = "save" /\ DiskMayFail
              /\ disk' = [disk EXCEPT ![k] = onDisk]
              /\ pc' = [pc EXCEPT ![c] = "idle"]
              /\ op' = [op EXCEPT ![c] = NoOp]
              /\ behind' = behind \union {k}
              /\ UNCHANGED body

\* What the load of a document from the mirror may leave on the disk, which is
\* warmed with it unless there is none.
Warmed(c, doc) ==
    IF doc = NoDoc THEN {disk[KeyOf[c]]}
    ELSE {doc} \union (IF DiskMayFail THEN {disk[KeyOf[c]]} ELSE {})

(***************************************************************************)
(* The mirror answered with docs.  TaskStore.save edits the object it got, *)
(* which is the one in the gist's cache.                                   *)
(***************************************************************************)
ContinueWithMirror(c, o, docs) ==
    LET k == KeyOf[c]
    IN  /\ \E onDisk \in Warmed(c, docs[k]) : Continue(c, o, docs[k], onDisk)
        /\ cache' = IF c \in Cached \/ docs[k] = NoDoc THEN docs
                    ELSE [docs EXCEPT ![k] = @ \union o.entries]

\* A load, and a save of an entry.
Requests(c) == {NoOp} \union {[kind |-> "save", entries |-> {e}] : e \in WritesOf[c]}

\* LongTermMemory has loaded before and goes on with what it keeps.
StartHeld(c, o) ==
    /\ c \in loaded
    /\ Continue(c, o, held[c], disk[KeyOf[c]])
    /\ UNCHANGED <<cache, lockq>>

StartOnDisk(c, o) ==
    /\ c \notin loaded /\ disk[KeyOf[c]] # NoDoc
    /\ Continue(c, o, disk[KeyOf[c]], disk[KeyOf[c]])
    /\ UNCHANGED <<cache, lockq>>

StartInCache(c, o) ==
    /\ c \notin loaded /\ disk[KeyOf[c]] = NoDoc
    /\ lockq = <<>> /\ fresh
    /\ ContinueWithMirror(c, o, cache)
    /\ UNCHANGED lockq

StartAtGist(c, o) ==
    /\ c \notin loaded /\ disk[KeyOf[c]] = NoDoc
    /\ lockq # <<>> \/ ~fresh
    /\ lockq' = Append(lockq, c)
    /\ pc' = [pc EXCEPT ![c] = "waiting"]
    /\ op' = [op EXCEPT ![c] = o]
    /\ UNCHANGED <<disk, cache, body, held, loaded, behind>>

Start(c) ==
    /\ booted
    /\ pc[c] = "idle"
    /\ \E o \in Requests(c) :
          StartHeld(c, o) \/ StartOnDisk(c, o) \/ StartInCache(c, o) \/ StartAtGist(c, o)
    /\ UNCHANGED <<gist, fresh, booted, got, blind>>

\* History: a load ends without what another client has saved since it began.
MissedBy(c, doc) ==
    IF disk[KeyOf[c]] \subseteq doc THEN {} ELSE {KeyOf[c]}

HasLock(c) == lockq # <<>> /\ Head(lockq) = c

\* _fetch under the lock: somebody may have filled the cache meanwhile.
UseCache(c) ==
    /\ pc[c] = "waiting" /\ HasLock(c)
    /\ fresh
    /\ lockq' = Tail(lockq)
    /\ ContinueWithMirror(c, op[c], cache)
    /\ blind' = blind \union MissedBy(c, cache[KeyOf[c]])
    /\ UNCHANGED <<gist, fresh, booted, got>>

SendGet(c) ==
    /\ pc[c] = "waiting" /\ HasLock(c)
    /\ ~fresh
    /\ pc' = [pc EXCEPT ![c] = "reading"]
    /\ UNCHANGED <<disk, gist, cache, fresh, booted, lockq, op, got, body, held, loaded, blind, behind>>

GetServed(c) ==
    /\ pc[c] = "reading"
    /\ pc' = [pc EXCEPT ![c] = "answered"]
    /\ got' = [got EXCEPT ![c] = gist]
    /\ UNCHANGED <<disk, gist, cache, fresh, booted, lockq, op, body, held, loaded, blind, behind>>

(***************************************************************************)
(* The cache gets the whole gist.  It counts as fresh unless it is empty;  *)
(* a gist without these documents may hold others, such as its manifest.   *)
(***************************************************************************)
GetReturns(c) ==
    /\ pc[c] = "answered"
    /\ lockq' = Tail(lockq)
    /\ fresh' \in {TRUE, got[c] # NoDocs}
    /\ got' = [got EXCEPT ![c] = NoDocs]
    /\ ContinueWithMirror(c, op[c], got[c])
    /\ blind' = blind \union MissedBy(c, got[c][KeyOf[c]])
    /\ UNCHANGED <<gist, booted>>

\* Mutant: a GET that fails keeps the lock.
GetFailsLocked(c) ==
    /\ ReadsMayFail
    /\ pc[c] \in {"reading", "answered"}
    /\ got' = [got EXCEPT ![c] = NoDocs]
    /\ blind' = blind \union {KeyOf[c]}
    /\ Continue(c, op[c], NoDoc, disk[KeyOf[c]])
    /\ UNCHANGED <<gist, cache, fresh, booted, lockq>>

\* The GET fails: ChainedStore.get logs it and hands out the default.
GetFails(c) ==
    /\ ReadsMayFail
    /\ pc[c] \in {"reading", "answered"}
    /\ lockq' = Tail(lockq)
    /\ got' = [got EXCEPT ![c] = NoDocs]
    /\ blind' = blind \union {KeyOf[c]}
    /\ Continue(c, op[c], NoDoc, disk[KeyOf[c]])
    /\ UNCHANGED <<gist, cache, fresh, booted>>

-----------------------------------------------------------------------------
(***************************************************************************)
(* GistStore._patch, whose failure ChainedStore.set logs and ignores.      *)
(* PATCHes of one document may land in the wrong order.                    *)
(***************************************************************************)
Settle(c) ==
    /\ pc' = [pc EXCEPT ![c] = "idle"]
    /\ op' = [op EXCEPT ![c] = NoOp]
    /\ body' = [body EXCEPT ![c] = NoDoc]

PatchLands(c) ==
    /\ pc[c] = "patching"
    /\ gist' = [gist EXCEPT ![KeyOf[c]] = body[c]]
    /\ pc' = [pc EXCEPT ![c] = "landed"]
    /\ lockq' = Append(lockq, c)
    /\ behind' = IF body[c] = disk[KeyOf[c]] THEN behind ELSE behind \union {KeyOf[c]}
    /\ UNCHANGED <<disk, cache, fresh, booted, op, got, body, held, loaded, blind>>

\* The cache gets the document and counts as fresh, even if it holds nothing else.
PatchReturns(c) ==
    /\ pc[c] = "landed" /\ HasLock(c)
    /\ lockq' = Tail(lockq)
    /\ cache' = [cache EXCEPT ![KeyOf[c]] = body[c]]
    /\ fresh' = TRUE
    /\ Settle(c)
    /\ behind' = IF body[c] = disk[KeyOf[c]] /\ body[c] = gist[KeyOf[c]]
                 THEN behind \ {KeyOf[c]} ELSE behind
    /\ UNCHANGED <<disk, gist, booted, got, held, loaded, blind>>

\* No PATCH, or no answer to it.
PatchFails(c) ==
    /\ pc[c] = "patching"
    /\ \E g \in {gist[KeyOf[c]], body[c]} : gist' = [gist EXCEPT ![KeyOf[c]] = g]
    /\ Settle(c)
    /\ behind' = behind \union {KeyOf[c]}
    /\ UNCHANGED <<disk, cache, fresh, booted, lockq, got, held, loaded, blind>>

-----------------------------------------------------------------------------
\* Thirty seconds pass.
Age ==
    /\ fresh
    /\ fresh' = FALSE
    /\ UNCHANGED <<disk, gist, cache, booted, lockq, pc, op, got, body, held, loaded, blind, behind>>

\* Mutant: the preflight does not read the gist.
PreflightOffline ==
    /\ ~booted
    /\ booted' = TRUE
    /\ UNCHANGED <<disk, gist, cache, fresh, lockq, pc, op, got, body, held, loaded, blind, behind>>

(***************************************************************************)
(* The startup preflight asks the store for its health, which reads the    *)
(* whole gist.  If that fails the service starts all the same, blind to    *)
(* what is not on the disk.                                                *)
(***************************************************************************)
Preflight ==
    /\ ~booted
    /\ booted' = TRUE
    /\ \/ /\ cache' = gist
          /\ fresh' \in {TRUE, gist # NoDocs}
          /\ UNCHANGED blind
       \/ /\ ReadsMayFail
          /\ blind' = blind \union {k \in Keys : disk[k] = NoDoc}
          /\ UNCHANGED <<cache, fresh>>
    /\ UNCHANGED <<disk, gist, lockq, pc, op, got, body, held, loaded, behind>>

\* A PATCH of the document is under way.
Patching(k) == \E c \in Clients : KeyOf[c] = k /\ pc[c] = "patching"

(***************************************************************************)
(* The process dies, at any point, and a new one starts: on the same disk, *)
(* or, after a spin-down or a deployment, on an empty one.                 *)
(***************************************************************************)
Restart(d) ==
    /\ booted
    /\ booted' = FALSE
    /\ disk' = d
    /\ blind' = {k \in blind : d[k] # NoDoc}
    /\ behind' = {k \in Keys : (k \in behind \/ Patching(k)) /\ d[k] # NoDoc}
    /\ cache' = NoDocs
    /\ fresh' = FALSE
    /\ lockq' = <<>>
    /\ pc' = [c \in Clients |-> "idle"]
    /\ op' = [c \in Clients |-> NoOp]
    /\ got' = [c \in Clients |-> NoDocs]
    /\ body' = [c \in Clients |-> NoDoc]
    /\ held' = [c \in Clients |-> NoDoc]
    /\ loaded' = {}
    /\ UNCHANGED gist

Crash == Restart(disk)
ColdStart == Restart(NoDocs)

\* What the event loop does for a client whose operation is under way.
Advance(c) ==
    \/ UseCache(c) \/ SendGet(c) \/ GetServed(c) \/ GetReturns(c) \/ GetFails(c)
    \/ PatchLands(c) \/ PatchReturns(c) \/ PatchFails(c)

Next ==
    \/ \E c \in Clients : Start(c) \/ Advance(c)
    \/ Age \/ Preflight \/ Crash \/ ColdStart

\* Every request to the gist ends, at the latest by the client's timeout.
Fairness == \A c \in Clients : WF_vars(Advance(c))

Spec == Init /\ [][Next]_vars /\ Fairness

-----------------------------------------------------------------------------
TypeOK ==
    /\ disk \in [Keys -> Docs]
    /\ gist \in [Keys -> Docs]
    /\ cache \in [Keys -> Docs]
    /\ fresh \in BOOLEAN
    /\ booted \in BOOLEAN
    /\ lockq \in Seq(Clients)
    /\ pc \in [Clients -> Stages]
    /\ op \in [Clients -> Ops]
    /\ got \in [Clients -> [Keys -> Docs]]
    /\ body \in [Clients -> Docs]
    /\ held \in [Clients -> Docs]
    /\ loaded \in SUBSET Cached
    /\ blind \in SUBSET Keys
    /\ behind \in SUBSET Keys

\* What the service goes by: the document on the disk, without one the gist's.
Durable(k) == IF disk[k] = NoDoc THEN gist[k] ELSE disk[k]

(***************************************************************************)
(* What is on record is not forgotten: not by a crash at any point, by     *)
(* lost or overtaken PATCHes while the disk is there, by the cache that    *)
(* the documents share, nor by a disk that is wiped ("State recovered from *)
(* the Gist after the local disk is wiped", README.md:30).  Two things are *)
(* left out by name: a document of which some load missed a part, as the   *)
(* saves that follow build on that; and a disk wiped while a PATCH of the  *)
(* document is under way, or before the gist has caught up after a save    *)
(* or PATCH that failed, lost its answer or landed in the wrong order.     *)
(***************************************************************************)
HistorySurvives ==
    [][\A k \in Keys \ (blind \union blind') :
          \/ Durable(k) \subseteq Durable(k)'
          \/ ColdStart /\ (k \in behind \/ Patching(k))]_vars

\* A load that began with an empty disk comes back to a document saved since.
Overtaken(c) ==
    /\ pc[c] \in {"waiting", "reading", "answered"}
    /\ pc'[c] \notin {"waiting", "reading", "answered"}
    /\ disk[KeyOf[c]] # NoDoc

(***************************************************************************)
(* As long as the disk is there, what was once written to it stays, over   *)
(* late answers from the gist, failed writes and crashes.  Only a load     *)
(* that was overtaken by another client's save may undo that save.         *)
(***************************************************************************)
DiskForgetsNothing ==
    [][\A k \in Keys :
          \/ disk[k] \subseteq disk'[k]
          \/ ColdStart
          \/ \E c \in Clients : KeyOf[c] = k /\ Overtaken(c)]_vars

(***************************************************************************)
(* Every load and save returns to its caller, whatever the mirror does     *)
(* ("a mirror failure is logged but never fails the write",                *)
(* persistence.py:385).                                                    *)
(***************************************************************************)
EveryOperationReturns == \A c \in Clients : []<>(pc[c] = "idle")
=============================================================================
