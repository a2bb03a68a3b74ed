--------------------------- MODULE LongTermMemory ---------------------------
(***************************************************************************)
(* The long-term memory: LongTermMemory (src/src/agentcore/memory.py),     *)
(* the tool that the model uses it with (tools/state.py), and the one      *)
(* document that ChainedStore keeps of it, on disk and in the gist.        *)
(*                                                                         *)
(* Every run begins with a recall, which loads the document, before the    *)
(* model can call the tool.  From then on a call suspends only for its     *)
(* PATCH of the gist; the calls of a turn run concurrently, each may be    *)
(* cut off by the registry while it waits, and is then repeated.  A text   *)
(* stands for all its spellings in upper and lower case.                   *)
(***************************************************************************)
EXTENDS Naturals, FiniteSets

CONSTANTS
    Texts,       \* what may be remembered
    Top,         \* importance is 1..Top
    Cap,         \* MAX_MEMORY_ENTRIES
    Calls,       \* bound: calls of the tool that are under way at once
    MaxRestarts  \* bound: restarts of the process

ASSUME ConstantsAssumption ==
    /\ Top \in Nat \ {0} /\ Cap \in Nat \ {0}
    /\ MaxRestarts \in Nat

VARIABLES
    cache,      \* LongTermMemory._cache, if it is loaded
    loaded,     \* is it?
    disk,       \* the document on disk, if there is one
    gist,       \* the document in the gist, if there is one
    sending,    \* the document in each call's PATCH, if one is under way
    promised,   \* history: texts stored with top importance that there was room for
    gone,       \* history: texts that were forgotten, and not remembered again
    blind,      \* history: a load missed what the disk had had last
    restarts    \* counter of MaxRestarts

vars == <<cache, loaded, disk, gist, sending, promised, gone, blind, restarts>>

Entries == [text : Texts, importance : 1..Top]
Docs == SUBSET Entries

\* A document that may be missing is the set of its one value, or empty.
Missing == {}
Stored == {Missing} \union {{d} : d \in Docs}

TextsOf(d) == {e.text : e \in d}

Init ==
    /\ cache = {}
    /\ loaded = FALSE
    /\ disk = Missing
    /\ gist = Missing
    /\ sending = [c \in Calls |-> Missing]
    /\ promised = {}
    /\ gone = {}
    /\ blind = FALSE
    /\ restarts = 0

-----------------------------------------------------------------------------
\* What ChainedStore.get returns, and whether it left it on the disk.
Load(d, left) ==
    /\ cache' = d
    /\ loaded' = TRUE
    /\ disk' = left
    /\ UNCHANGED <<gist, sending, promised, gone, restarts>>

LoadFromDisk ==
    /\ ~ loaded
    /\ \E d \in disk : Load(d, disk)
    /\ UNCHANGED blind

\* The disk may be warmed with the mirror's document, or not.
LoadFromGist ==
    /\ ~ loaded /\ disk = Missing
    /\ \/ \E d \in gist : Load(d, gist) \/ Load(d, Missing)
       \/ gist = Missing /\ Load({}, Missing)
    /\ UNCHANGED blind

\* The GET fails, and the memory counts as empty.
LoadBlindly ==
    /\ ~ loaded /\ disk = Missing
    /\ Load({}, Missing)
    /\ blind' = TRUE

-----------------------------------------------------------------------------
\* Mutant: there is no cap.
KeptAll(d) == {d}

\* Mutant: sorted the wrong way round.
KeptUnimportant(d) ==
    IF Cardinality(d) <= Cap THEN {d}
    ELSE {k \in SUBSET d :
            /\ Cardinality(k) = Cap
            /\ \A e \in k, f \in d \ k : e.importance <= f.importance}

(***************************************************************************)
(* What _persist may keep of d: all if there is room, else the Cap most    *)
(* important ones.  Among equals the date decides, which counts seconds;   *)
(* any of them may go.                                                     *)
(***************************************************************************)
Kept(d) ==
    IF Cardinality(d) <= Cap THEN {d}
    ELSE {k \in SUBSET d :
            /\ Cardinality(k) = Cap
            /\ \A e \in k, f \in d \ k : f.importance <= e.importance}

\* _persist: the cache, the disk unless that fails, then the PATCH begins.
Persist(c, d) ==
    /\ cache' = d
    /\ \/ disk' = {d} /\ sending' = [sending EXCEPT ![c] = {d}]
       \/ UNCHANGED <<disk, sending>>
    /\ UNCHANGED <<loaded, gist, blind, restarts>>

\* Mutant: a text that is there already is added once more.
AddedBlindly(t, i) == cache \union {[text |-> t, importance |-> i]}

\* The entries with text t at importance i: the one that is there is raised.
Added(t, i) ==
    IF t \in TextsOf(cache)
    THEN {IF e.text = t /\ e.importance < i THEN [e EXCEPT !.importance = i] ELSE e : e \in cache}
    ELSE cache \union {[text |-> t, importance |-> i]}

\* The texts there is room for, if d is kept of d0; t only counts once it is on disk.
Promise(t, i, d0, d) ==
    LET named == promised \union (IF i = Top /\ disk' = {d} THEN {t} ELSE {})
        room == Cardinality({e \in d0 : e.importance = Top}) <= Cap
    IN  IF room THEN named ELSE named \intersect TextsOf(d)

Idle(c) == loaded /\ sending[c] = Missing

Remember(c, t, i) ==
    /\ Idle(c)
    /\ \E d \in Kept(Added(t, i)) :
          /\ Persist(c, d)
          /\ promised' = Promise(t, i, Added(t, i), d)
    /\ gone' = gone \ {t}

\* Mutant: only the cache forgets.
ForgetLightly(c, e) ==
    /\ Idle(c)
    /\ cache' = cache \ {e}
    /\ promised' = promised \ {e.text}
    /\ gone' = gone \union {e.text}
    /\ UNCHANGED <<loaded, disk, gist, sending, blind, restarts>>

(***************************************************************************)
(* An id that is not there changes nothing.  If the disk fails the entry   *)
(* is out of the cache all the same, and the next call with its id finds   *)
(* nothing to forget.                                                      *)
(***************************************************************************)
Forget(c, e) ==
    /\ Idle(c)
    /\ Persist(c, cache \ {e})
    /\ promised' = promised \ {e.text}
    /\ gone' = IF disk' = {cache'} THEN gone \union {e.text} ELSE gone

-----------------------------------------------------------------------------
\* The PATCH of a call lands, or fails, or the registry's limit cuts it off.
PatchEnds(c) ==
    /\ sending[c] # Missing
    /\ gist' \in {gist, sending[c]}
    /\ sending' = [sending EXCEPT ![c] = Missing]
    /\ UNCHANGED <<cache, loaded, disk, promised, gone, blind, restarts>>

\* The process dies; a PATCH under way has landed by then, or never will.
Restart(d) ==
    /\ restarts < MaxRestarts
    /\ restarts' = restarts + 1
    /\ cache' = {}
    /\ loaded' = FALSE
    /\ disk' = d
    /\ gist' \in {gist} \union {sending[c] : c \in {c \in Calls : sending[c] # Missing}}
    /\ sending' = [c \in Calls |-> Missing]
    /\ UNCHANGED <<promised, gone>>

Crash == Restart(disk) /\ UNCHANGED blind

\* A wiped disk leaves what is in the gist then.
ColdStart ==
    /\ Restart(Missing)
    /\ blind' = (blind \/ (disk # Missing /\ gist' # disk))

Next ==
    \/ LoadFromDisk \/ LoadFromGist \/ LoadBlindly
    \/ \E c \in Calls :
          \/ \E t \in Texts, i \in 1..Top : Remember(c, t, i)
          \/ \E e \in cache : Forget(c, e)
          \/ PatchEnds(c)
    \/ Crash \/ ColdStart

Spec == Init /\ [][Next]_vars

-----------------------------------------------------------------------------
(***************************************************************************)
(* Every variable holds a value of its type, and no document is over the   *)
(* cap.                                                                    *)
(***************************************************************************)
Small(d) == Cardinality(d) <= Cap

TypeOK ==
    /\ cache \in Docs
    /\ loaded \in BOOLEAN
    /\ disk \in Stored /\ gist \in Stored
    /\ sending \in [Calls -> Stored]
    /\ promised \in SUBSET Texts
    /\ gone \in SUBSET Texts
    /\ blind \in BOOLEAN
    /\ restarts \in 0..MaxRestarts
    /\ Small(cache) /\ \A d \in disk \union gist : Small(d)

Distinct(d) == \A e, f \in d : e.text = f.text => e = f

(***************************************************************************)
(* "De-duplicate near-identical entries rather than accumulating noise"    *)
(* (memory.py:187): also when a call that was cut off is repeated, when    *)
(* calls run concurrently, and when an older document comes back from the  *)
(* gist.                                                                   *)
(***************************************************************************)
OneEntryPerText ==
    /\ Distinct(cache)
    /\ \A d \in disk \union gist : Distinct(d)

\* What the next recall will find.
Memory ==
    IF loaded THEN cache
    ELSE UNION (IF disk # Missing THEN disk ELSE gist)

(***************************************************************************)
(* "knowledge that should outlive this task and survive restarts"          *)
(* (tools/state.py:137): a text of top importance stays until it is        *)
(* forgotten, over other entries, failed writes of any of them and         *)
(* restarts, as long as there is room for all of that importance.  Only a  *)
(* load that missed what was on the disk may lose it.                      *)
(***************************************************************************)
ImportantStays ==
    ~ blind => \A t \in promised : [text |-> t, importance |-> Top] \in Memory

(***************************************************************************)
(* What was forgotten on disk stays forgotten until it is remembered       *)
(* again: over restarts that keep the disk however late and in whatever    *)
(* order the PATCHes arrive, and over a wiped disk if the gist has what    *)
(* was on it.  A gist that has something else then is a document of which  *)
(* the next load misses a part.                                            *)
(***************************************************************************)
ForgottenStays == ~ blind => gone \intersect TextsOf(Memory) = {}
=============================================================================
