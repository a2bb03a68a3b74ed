--------------------------- MODULE AgentRunProofs ---------------------------
(***************************************************************************)
(* What AgentRun guarantees for any set of tasks and any budgets: types,   *)
(* mutual exclusion of the runs, that no task's scratchpad or plan ends up *)
(* in the hands of another, what the records keep through whole-document   *)
(* saves and restarts, the order of the line and the end of every run.     *)
(***************************************************************************)
EXTENDS MCAgentRun, FiniteSetTheorems, TLAPS

USE DEF store

\* A run's own record carries no plan unless the run was given an id.
OwnRecordIsBlank == \A t \in Tasks : t \notin named => record[t].plan = {}

\* A document in which the plan of every task that was given no id is its own.
OwnPlans(doc) == \A t \in Tasks : t \notin named => doc[t].plan \subseteq {t}

\* Every document that there is: on the disk, in the gist, on the way, in the copy.
StorePlans == OwnPlans(stored) /\ OwnPlans(gist) /\ \A doc \in late : OwnPlans(doc)
PlansAreOwn == StorePlans /\ OwnPlans(copy)

\* The inductive invariant of the scratchpad properties.
Inv ==
    /\ TypeOK
    /\ RunsAreSerialised
    /\ ScratchpadIsOwn
    /\ PlansAreOwn
    /\ OwnRecordIsBlank

-----------------------------------------------------------------------------
(***************************************************************************)
(* The types of the values that the actions build.                         *)
(***************************************************************************)
LEMMA RecordTypes ==
    /\ NoRecord \in Records
    /\ FreshRecord \in WrittenRecords
    /\ FreshRecord.status = "running" /\ FreshRecord.plan = {}
    /\ NoRecord.status = "none" /\ NoRecord.plan = {}
    /\ NoRecord \notin WrittenRecords
    /\ WrittenRecords \subseteq Records
    /\ NoDocument \in Documents
    /\ \A o \in Tasks \union {NoTask} : FreshScratchpad(o) \in Scratchpads
    /\ NoTurn \in Turns
    /\ NoResult \in Results /\ NoResult.artifacts = {}
<1>1. NoRecord \in Records
  BY DEF Records
<1>2. FreshRecord \in WrittenRecords
  BY DEF FreshRecord, NoRecord, WrittenRecords, Statuses
<1>3. FreshRecord.status = "running" /\ FreshRecord.plan = {}
  BY DEF FreshRecord, NoRecord
<1>4. NoRecord.status = "none" /\ NoRecord.plan = {}
  BY DEF NoRecord
<1>5. NoRecord \notin WrittenRecords
  BY <1>4 DEF WrittenRecords, Statuses
<1>6. WrittenRecords \subseteq Records
  BY DEF Records
<1>7. NoDocument \in Documents
  BY <1>1 DEF NoDocument, Documents
<1>8. \A o \in Tasks \union {NoTask} : FreshScratchpad(o) \in Scratchpads
  BY DEF FreshScratchpad, Scratchpads
<1>9. NoTurn \in Turns
  BY ConstantsAssumption DEF NoTurn, Turns
<1>10. NoResult \in Results /\ NoResult.artifacts = {}
  BY DEF NoResult, Results
<1> QED BY <1>1, <1>2, <1>3, <1>4, <1>5, <1>6, <1>7, <1>8, <1>9, <1>10

\* Every record has the fields of one.
LEMMA RecordShape ==
    Records \subseteq [status : Statuses \union {"none"}, plan : SUBSET Tasks,
                       progress : BOOLEAN, artifacts : SUBSET Artifacts, updated : Nat]
<1> DEFINE Shape == [status : Statuses \union {"none"}, plan : SUBSET Tasks,
                     progress : BOOLEAN, artifacts : SUBSET Artifacts, updated : Nat]
<1>1. NoRecord \in Shape
  BY DEF NoRecord
<1>2. WrittenRecords \subseteq Shape
  BY DEF WrittenRecords
<1> QED BY <1>1, <1>2 DEF Records

\* Changing a field of a record, a scratchpad or a result.
LEMMA StatusUpdate ==
    ASSUME NEW r \in Records, NEW s \in Statuses
    PROVE  /\ [r EXCEPT !.status = s] \in WrittenRecords
           /\ [r EXCEPT !.status = s].status = s
           /\ [r EXCEPT !.status = s].plan = r.plan
           /\ [r EXCEPT !.status = s].artifacts = r.artifacts
<1>1. r \in [status : Statuses \union {"none"}, plan : SUBSET Tasks,
             progress : BOOLEAN, artifacts : SUBSET Artifacts, updated : Nat]
  BY RecordShape
<1> QED BY <1>1 DEF WrittenRecords

LEMMA PlanUpdate ==
    ASSUME NEW r \in WrittenRecords, NEW p \in SUBSET Tasks
    PROVE  /\ [r EXCEPT !.plan = p] \in WrittenRecords
           /\ [r EXCEPT !.plan = p].plan = p
           /\ [r EXCEPT !.plan = p].status = r.status
           /\ [r EXCEPT !.plan = p].artifacts = r.artifacts
BY DEF WrittenRecords

LEMMA ProgressUpdate ==
    ASSUME NEW r \in WrittenRecords
    PROVE  /\ [r EXCEPT !.progress = TRUE] \in WrittenRecords
           /\ [r EXCEPT !.progress = TRUE].plan = r.plan
           /\ [r EXCEPT !.progress = TRUE].artifacts = r.artifacts
BY DEF WrittenRecords

LEMMA ArtifactsUpdate ==
    ASSUME NEW r \in WrittenRecords, NEW x \in Artifacts
    PROVE  /\ [r EXCEPT !.artifacts = @ \union {x}] \in WrittenRecords
           /\ [r EXCEPT !.artifacts = @ \union {x}].plan = r.plan
           /\ [r EXCEPT !.artifacts = @ \union {x}].artifacts = r.artifacts \union {x}
BY DEF WrittenRecords

LEMMA TouchedRecord ==
    ASSUME NEW r \in WrittenRecords, TypeOK
    PROVE  /\ Touched(r) \in WrittenRecords
           /\ Touched(r).status = r.status
           /\ Touched(r).plan = r.plan
           /\ Touched(r).artifacts = r.artifacts
BY DEF Touched, WrittenRecords, TypeOK

LEMMA ScratchpadUpdate ==
    ASSUME NEW r \in Scratchpads
    PROVE  /\ \A o \in Tasks : [r EXCEPT !.objective = o] \in Scratchpads
           /\ \A p \in SUBSET Tasks : [r EXCEPT !.plan = p] \in Scratchpads
           /\ \A e \in SUBSET Tasks : [r EXCEPT !.entries = e] \in Scratchpads
<1>1. \A o \in Tasks : [r EXCEPT !.objective = o] \in Scratchpads
  BY DEF Scratchpads
<1>2. \A p \in SUBSET Tasks : [r EXCEPT !.plan = p] \in Scratchpads
  BY DEF Scratchpads
<1>3. \A e \in SUBSET Tasks : [r EXCEPT !.entries = e] \in Scratchpads
  BY DEF Scratchpads
<1> QED BY <1>1, <1>2, <1>3

LEMMA ResultUpdate ==
    ASSUME NEW r \in Results
    PROVE  /\ \A v \in Verdicts : [r EXCEPT !.status = v] \in Results
           /\ \A x \in SUBSET Artifacts : [r EXCEPT !.artifacts = x] \in Results
BY DEF Results

LEMMA Fields ==
    /\ \A r \in Records : r.plan \in SUBSET Tasks /\ r.artifacts \in SUBSET Artifacts
    /\ \A r \in Scratchpads : r.plan \in SUBSET Tasks /\ r.entries \in SUBSET Tasks
    /\ \A r \in Results : r.artifacts \in SUBSET Artifacts
BY RecordShape DEF Scratchpads, Results

LEMMA StageTypes ==
    {"idle", "looking", "loading", "opening", "queued", "preparing", "stepping", "model",
     "tools", "reporting", "done", "raised", "lost"} = Stages
BY DEF Stages, Live, Loading, Inside, Over

LEMMA InitType == Init => TypeOK
BY RecordTypes, StageTypes, ConstantsAssumption DEF Init, TypeOK

-----------------------------------------------------------------------------
(***************************************************************************)
(* What a save, the warming of the disk and the copy do to the documents.  *)
(***************************************************************************)
\* A step after which u is mislaid, or what is on record of u is as before.
Unhurt(u) == u \in mislaid' \/ (u \notin mislaid /\ Durable'[u] = Durable[u])

\* The documents and the tasks mislaid have their types.
StoreType ==
    /\ stored' \in Documents /\ gist' \in Documents /\ late' \in SUBSET Documents
    /\ mislaid' \in SUBSET Tasks

LEMMA TrimmedDocument ==
    ASSUME NEW doc \in Documents, doc # NoDocument, NEW new \in Trims(doc)
    PROVE  /\ new \in Documents /\ new # NoDocument
           /\ \A u \in Tasks : new[u] = doc[u] \/ (new[u] = NoRecord /\ u \in CrowdedOut(doc, new))
<1> DEFINE there == {u \in Tasks : doc[u] # NoRecord}
<1>1. CASE new = doc
  BY <1>1
<1>2. ASSUME NEW k \in SUBSET there, Cardinality(k) = MaxRecords,
             \A u \in k, v \in there \ k : doc[u].updated >= doc[v].updated,
             new = [u \in Tasks |-> IF u \in k THEN doc[u] ELSE NoRecord]
      PROVE  /\ new \in Documents /\ new # NoDocument
             /\ \A u \in Tasks : new[u] = doc[u] \/ (new[u] = NoRecord /\ u \in CrowdedOut(doc, new))
  <2>1. k # {}
    BY <1>2, FS_EmptySet, ConstantsAssumption
  <2>2. PICK u \in k : u \in Tasks /\ doc[u] # NoRecord
    BY <2>1
  <2>3. new # NoDocument
    BY <1>2, <2>2 DEF NoDocument
  <2>4. new \in Documents
    BY <1>2, RecordTypes DEF Documents
  <2>5. k = {w \in Tasks : new[w] # NoRecord}
    BY <1>2
  <2>6. ASSUME NEW w \in Tasks, new[w] # doc[w] PROVE new[w] = NoRecord /\ w \in CrowdedOut(doc, new)
    <3>1. w \notin k /\ new[w] = NoRecord /\ doc[w] # NoRecord
      BY <1>2, <2>6
    <3>2. \A v \in k : new[v].updated >= doc[w].updated
      BY <1>2, <3>1
    <3> QED BY <1>2, <2>5, <3>1, <3>2 DEF CrowdedOut
  <2> QED BY <2>3, <2>4, <2>6
<1> QED BY <1>1, <1>2 DEF Trims

\* save(): the others' records are as they were loaded, or trimmed.
LEMMA PutFacts ==
    ASSUME TypeOK, NEW t \in Tasks, NEW r \in WrittenRecords, NEW doc \in Documents,
           NEW astray \in SUBSET Tasks, Put(t, r, doc, astray)
    PROVE  /\ StoreType
           /\ stored' # NoDocument
           /\ Durable' = stored'
           /\ stored'[t] = r \/ (stored'[t] = NoRecord /\ t \in mislaid')
           /\ \A u \in Tasks \ {t} : stored'[u] = doc[u] \/ (stored'[u] = NoRecord /\ u \in mislaid')
           /\ astray \subseteq mislaid'
           /\ gist' \in {gist, stored'} /\ late' \subseteq late \union {stored'}
<1> DEFINE full == [doc EXCEPT ![t] = r]
<1>1. PICK new \in Trims(full) :
        /\ stored' = new
        /\ mislaid' = astray \union CrowdedOut(full, new)
        /\ Send(new)
  BY DEF Put
<1>2. full \in Documents /\ full[t] = r /\ \A u \in Tasks \ {t} : full[u] = doc[u]
  BY RecordTypes DEF Documents
<1>3. full # NoDocument
  BY <1>2, RecordTypes DEF NoDocument
<1> HIDE DEF full
<1>4. /\ new \in Documents /\ new # NoDocument
      /\ \A u \in Tasks : new[u] = full[u] \/ (new[u] = NoRecord /\ u \in CrowdedOut(full, new))
      /\ CrowdedOut(full, new) \subseteq Tasks
  BY <1>2, <1>3, TrimmedDocument DEF CrowdedOut
<1>5. gist' \in {gist, new} /\ late' \subseteq late \union {new}
  BY <1>1 DEF Send
<1>6. StoreType
  BY <1>1, <1>4, <1>5 DEF StoreType, TypeOK
<1>7. Durable' = stored'
  BY <1>1, <1>4 DEF Durable
<1> QED BY <1>1, <1>2, <1>4, <1>5, <1>6, <1>7

\* If the document that was loaded is what is on record of the others, the save
\* does them no harm.
LEMMA PutUnhurt ==
    ASSUME TypeOK, NEW t \in Tasks, NEW r \in WrittenRecords, NEW doc \in Documents,
           NEW astray \in SUBSET Tasks, Put(t, r, doc, astray),
           (mislaid \union Missed(doc)) \ {t} \subseteq astray
    PROVE  \A u \in Tasks \ {t} : Unhurt(u)
<1> SUFFICES ASSUME NEW u \in Tasks \ {t}, u \notin mislaid' PROVE u \notin mislaid /\ Durable'[u] = Durable[u]
  BY DEF Unhurt
<1>1. astray \subseteq mislaid' /\ Durable' = stored' /\ stored'[u] = doc[u]
  BY PutFacts
<1>2. u \notin mislaid /\ u \notin Missed(doc)
  BY <1>1
<1> QED BY <1>1, <1>2 DEF Missed

LEMMA WarmFacts ==
    ASSUME TypeOK, NEW doc \in Documents, Warm(doc), UNCHANGED gist
    PROVE  /\ stored' \in Documents /\ mislaid' \in SUBSET Tasks
           /\ stored # NoDocument => stored' # NoDocument
           /\ stored' \in {doc, stored}
           /\ \A u \in Tasks : Unhurt(u)
<1>1. CASE doc # NoDocument /\ stored' = doc /\ mislaid' = mislaid \union Missed(doc)
  <2>1. Durable' = doc
    BY <1>1 DEF Durable
  <2>2. mislaid' \in SUBSET Tasks
    BY <1>1 DEF TypeOK, Missed
  <2> QED BY <1>1, <2>1, <2>2 DEF Unhurt, Missed
<1>2. CASE UNCHANGED <<stored, mislaid>>
  <2>1. Durable' = Durable
    BY <1>2 DEF Durable
  <2> QED BY <1>2, <2>1 DEF Unhurt, TypeOK
<1> QED BY <1>1, <1>2 DEF Warm

\* What a load that asked the gist may come back with, and what the copy is kept as.
LEMMA AnswerTypes ==
    ASSUME TypeOK
    PROVE  /\ \A doc \in Answers : doc \in Documents /\ doc \in {copy, NoDocument}
           /\ \A doc : KeepCopy(doc) => copy' \in {doc, NoDocument}
           /\ KeepCopy(copy) => copy' \in Documents
<1>1. \A doc \in Answers : doc \in Documents /\ doc \in {copy, NoDocument}
  BY RecordTypes DEF Answers, TypeOK
<1>2. \A doc : KeepCopy(doc) => copy' \in {doc, NoDocument}
  BY DEF KeepCopy
<1>3. ASSUME KeepCopy(copy) PROVE copy' \in Documents
  <2>1. copy' = copy \/ copy' = NoDocument
    BY <1>3 DEF KeepCopy
  <2>2. copy \in Documents /\ NoDocument \in Documents
    BY RecordTypes DEF TypeOK
  <2> QED BY <2>1, <2>2
<1> QED BY <1>1, <1>2, <1>3

\* Nothing is saved.
LEMMA NothingHurt ==
    ASSUME UNCHANGED <<stored, gist, mislaid>>
    PROVE  \A u \in Tasks : Unhurt(u)
BY DEF Unhurt, Durable

-----------------------------------------------------------------------------
(***************************************************************************)
(* The opening of a run.                                                   *)
(***************************************************************************)
\* A record that a run may open with: it is running and has a plan of its own
\* if the run was given no id.
Opens(t, r) == r \in WrittenRecords /\ r.status = "running" /\ (t \in named' \/ r.plan = {})

\* The opening save came back.
Opened(t, r) ==
    /\ pc' = [pc EXCEPT ![t] = "opening"] /\ record' = [record EXCEPT ![t] = r]
    /\ stored' # NoDocument /\ Durable' = stored'
    /\ stored'[t] = r \/ (stored'[t] = NoRecord /\ t \in mislaid')

\* The save waits for its load, or failed.
NotOpened(t, r) ==
    /\ \/ /\ pc' = [pc EXCEPT ![t] = "loading"] /\ record' = [record EXCEPT ![t] = r]
          /\ UNCHANGED <<stored, gist, mislaid>>
       \/ pc' = [pc EXCEPT ![t] = "raised"] /\ record' = [record EXCEPT ![t] = NoRecord]
    /\ stored # NoDocument => stored' # NoDocument
    /\ Unhurt(t)

LEMMA OpeningSaveFacts ==
    ASSUME TypeOK, NEW t \in Tasks, NEW r \in WrittenRecords, NEW doc \in Documents,
           OpeningSave(t, r, doc)
    PROVE  /\ StoreType
           /\ Opened(t, r) \/ NotOpened(t, r)
           /\ \A u \in Tasks \ {t} : Unhurt(u)
<1> DEFINE astray == (mislaid \union Missed(doc)) \ {t}
<1>1. astray \in SUBSET Tasks
  BY DEF TypeOK, Missed
<1>2. CASE /\ Put(t, r, doc, astray)
           /\ record' = [record EXCEPT ![t] = r]
           /\ pc' = [pc EXCEPT ![t] = "opening"]
  <2> HIDE DEF astray
  <2>1. StoreType /\ Opened(t, r)
    BY <1>1, <1>2, PutFacts DEF Opened
  <2>2. \A u \in Tasks \ {t} : Unhurt(u)
    BY <1>1, <1>2, PutUnhurt DEF astray
  <2> QED BY <2>1, <2>2
<1>3. CASE /\ Warm(doc)
           /\ record' = [record EXCEPT ![t] = NoRecord]
           /\ pc' = [pc EXCEPT ![t] = "raised"]
           /\ UNCHANGED <<gist, late>>
  <2>1. /\ stored' \in Documents /\ mislaid' \in SUBSET Tasks
        /\ stored # NoDocument => stored' # NoDocument
        /\ \A u \in Tasks : Unhurt(u)
    BY <1>3, WarmFacts
  <2> QED BY <1>3, <2>1 DEF StoreType, NotOpened, TypeOK
<1> QED BY <1>2, <1>3 DEF OpeningSave

LEMMA OpenFacts ==
    ASSUME TypeOK, NEW t \in Tasks, NEW r, Opens(t, r), Open(t, r)
    PROVE  /\ StoreType
           /\ \E s : Opens(t, s) /\ (Opened(t, s) \/ NotOpened(t, s))
           /\ \A u \in Tasks \ {t} : Unhurt(u)
<1>1. Opens(t, Touched(r)) /\ Touched(r) \in WrittenRecords
  BY TouchedRecord DEF Opens
<1>2. CASE ~AsksGist /\ OpeningSave(t, Touched(r), stored)
  BY <1>1, <1>2, OpeningSaveFacts DEF TypeOK
<1>3. CASE /\ record' = [record EXCEPT ![t] = Touched(r)]
           /\ pc' = [pc EXCEPT ![t] = "loading"]
           /\ UNCHANGED <<stored, gist, late, mislaid>>
  <2>1. \A u \in Tasks : Unhurt(u)
    BY <1>3, NothingHurt
  <2>2. StoreType /\ NotOpened(t, Touched(r))
    BY <1>3, <2>1 DEF StoreType, NotOpened, TypeOK
  <2> QED BY <1>1, <2>1, <2>2
<1> QED BY <1>2, <1>3 DEF Open

LEMMA NamedRecordFacts ==
    ASSUME TypeOK, NEW t \in Tasks, NEW doc \in Documents, t \in named'
    PROVE  Opens(t, NamedRecord(t, doc))
<1>1. doc[t] \in Records
  BY DEF Documents
<1> QED BY <1>1, RecordTypes, StatusUpdate DEF Opens, NamedRecord, Statuses

\* A run that starts or comes back from a load opens with some record, looks its
\* record up first, or fails.
Comes(t) ==
    /\ StoreType
    /\ \/ /\ pc' = [pc EXCEPT ![t] = "looking"]
          /\ UNCHANGED <<record, stored, gist, mislaid>>
       \/ \E r : Opens(t, r) /\ (Opened(t, r) \/ NotOpened(t, r))
    /\ \A u \in Tasks \ {t} : Unhurt(u)

LEMMA StartFacts ==
    ASSUME TypeOK, NEW t \in Tasks, StartFresh(t) \/ StartNamed(t)
    PROVE  /\ Comes(t)
           /\ pc[t] \in Over \union {"idle"}
           /\ named' \in SUBSET Tasks /\ named \subseteq named'
           /\ result' = [result EXCEPT ![t] = NoResult]
           /\ UNCHANGED <<clock, deadline, queue, holder, scratch, reading, step, turn, hint,
                          running>>
           /\ copy' \in {copy, NoDocument}
<1>1. CASE StartFresh(t)
  <2>1. Opens(t, FreshRecord)
    BY RecordTypes DEF Opens
  <2>2. Open(t, FreshRecord)
    BY <1>1 DEF StartFresh
  <2>3. Comes(t)
    BY <2>1, <2>2, OpenFacts DEF Comes
  <2> QED BY <1>1, <2>3, AnswerTypes DEF StartFresh, TypeOK
<1>2. CASE StartNamed(t)
  <2>1. t \in named' /\ named' \in SUBSET Tasks /\ named \subseteq named'
    BY <1>2 DEF StartNamed, TypeOK
  <2>2. Comes(t)
    <3>1. CASE Open(t, NamedRecord(t, stored))
      <4>1. Opens(t, NamedRecord(t, stored))
        BY <2>1, NamedRecordFacts DEF TypeOK
      <4> QED BY <3>1, <4>1, OpenFacts DEF Comes
    <3>2. CASE /\ pc' = [pc EXCEPT ![t] = "looking"]
               /\ UNCHANGED <<record, stored, gist, late, mislaid>>
      BY <3>2, NothingHurt DEF Comes, StoreType, TypeOK
    <3> QED BY <1>2, <3>1, <3>2 DEF StartNamed
  <2>3. pc[t] \in Over \union {"idle"}
    BY <1>2 DEF StartNamed
  <2> QED BY <1>2, <2>1, <2>2, <2>3, AnswerTypes DEF StartNamed
<1> QED BY <1>1, <1>2

\* What a run waits with: a record to open with, or an id.
Waits(t) ==
    /\ pc[t] = "looking" => t \in named
    /\ pc[t] = "loading" => /\ record[t] \in WrittenRecords /\ record[t].status = "running"
                            /\ t \in named \/ record[t].plan = {}

LEMMA LookedUpFacts ==
    ASSUME TypeOK, NEW t \in Tasks, Waits(t), LookedUp(t)
    PROVE  Comes(t) /\ copy' \in {copy, NoDocument}
<1>1. pc[t] = "looking" /\ t \in named /\ named' = named
  BY DEF LookedUp, Waits
<1>2. PICK doc \in Answers :
          \/ OpeningSave(t, Touched(NamedRecord(t, doc)), doc)
          \/ Open(t, NamedRecord(t, doc))
  BY DEF LookedUp
<1>3. doc \in Documents /\ Opens(t, NamedRecord(t, doc))
  BY <1>1, AnswerTypes, NamedRecordFacts
<1>4. Opens(t, Touched(NamedRecord(t, doc)))
  BY <1>1, <1>3, TouchedRecord DEF Opens
<1>5. Comes(t)
  <2>1. CASE OpeningSave(t, Touched(NamedRecord(t, doc)), doc)
    <3> DEFINE r == Touched(NamedRecord(t, doc))
    <3>1. r \in WrittenRecords
      BY <1>4 DEF Opens
    <3>2. OpeningSave(t, r, doc) /\ Opens(t, r)
      BY <2>1, <1>4
    <3> HIDE DEF r
    <3> QED BY <1>3, <3>1, <3>2, OpeningSaveFacts DEF Comes
  <2>2. CASE Open(t, NamedRecord(t, doc))
    BY <1>3, <2>2, OpenFacts DEF Comes
  <2> QED BY <1>2, <2>1, <2>2
<1> QED BY <1>5, AnswerTypes DEF LookedUp

LEMMA LoadedFacts ==
    ASSUME TypeOK, NEW t \in Tasks, Waits(t), Loaded(t)
    PROVE  /\ Comes(t)
           /\ copy' \in {copy, NoDocument, [copy EXCEPT ![t] = record[t]]}
<1>1. pc[t] = "loading" /\ named' = named
  BY DEF Loaded
<1>2. record[t] \in WrittenRecords /\ Opens(t, record[t])
  BY <1>1 DEF Waits, Opens
<1>3. PICK doc \in Answers : OpeningSave(t, record[t], doc) /\ KeepCopy(Edited(t, doc))
  BY DEF Loaded
<1>4. doc \in Documents /\ doc \in {copy, NoDocument}
  BY AnswerTypes
<1>5. Comes(t)
  BY <1>2, <1>3, <1>4, OpeningSaveFacts DEF Comes
<1>6. Edited(t, doc) \in {copy, [copy EXCEPT ![t] = record[t]]}
  BY <1>4 DEF Edited
<1>7. copy' \in {Edited(t, doc), NoDocument}
  BY <1>3, AnswerTypes
<1> QED BY <1>5, <1>6, <1>7

LEMMA ComesType ==
    ASSUME TypeOK, NEW t \in Tasks, Comes(t)
    PROVE  /\ pc' \in [Tasks -> Stages] /\ record' \in [Tasks -> Records] /\ StoreType
           /\ \E to \in {"looking", "loading", "opening", "raised"} : pc' = [pc EXCEPT ![t] = to]
           /\ \A u \in Tasks \ {t} : record'[u] = record[u]
<1>1. StoreType
  BY DEF Comes
<1>2. CASE pc' = [pc EXCEPT ![t] = "looking"] /\ UNCHANGED record
  BY <1>1, <1>2, StageTypes DEF TypeOK
<1>3. ASSUME NEW r \in WrittenRecords, Opened(t, r) \/ NotOpened(t, r)
      PROVE  /\ record' \in [Tasks -> Records]
             /\ \E to \in {"loading", "opening", "raised"} : pc' = [pc EXCEPT ![t] = to]
             /\ \A u \in Tasks \ {t} : record'[u] = record[u]
  <2>1. PICK to \in {"loading", "opening", "raised"}, x \in {r, NoRecord} :
            pc' = [pc EXCEPT ![t] = to] /\ record' = [record EXCEPT ![t] = x]
    BY <1>3 DEF Opened, NotOpened
  <2>2. x \in Records
    BY RecordTypes
  <2> QED BY <2>1, <2>2 DEF TypeOK
<1>4. CASE \E r : Opens(t, r) /\ (Opened(t, r) \/ NotOpened(t, r))
  <2>1. PICK to \in {"loading", "opening", "raised"} : pc' = [pc EXCEPT ![t] = to]
    BY <1>3, <1>4 DEF Opens
  <2>2. pc' \in [Tasks -> Stages]
    BY <2>1, StageTypes DEF TypeOK
  <2> QED BY <1>1, <1>3, <1>4, <2>1, <2>2 DEF Opens
<1> QED BY <1>2, <1>4 DEF Comes

-----------------------------------------------------------------------------
(***************************************************************************)
(* Types, by kind of action.                                               *)
(***************************************************************************)
\* That a run waits with a record or an id is part of the type invariant's step.
WaitsOK == \A t \in Tasks : Waits(t)

LEMMA StartType ==
    ASSUME NEW t \in Tasks, TypeOK, StartFresh(t) \/ StartNamed(t)
    PROVE  TypeOK'
<1>1. Comes(t)
  BY StartFacts
<1>2. pc' \in [Tasks -> Stages] /\ record' \in [Tasks -> Records] /\ StoreType
  BY <1>1, ComesType
<1>3. result' \in [Tasks -> Results]
  BY StartFacts, RecordTypes DEF TypeOK
<1>4. copy' \in Documents
  BY StartFacts, RecordTypes DEF TypeOK
<1> QED BY <1>2, <1>3, <1>4, StartFacts DEF TypeOK, StoreType

LEMMA LoadType ==
    ASSUME NEW t \in Tasks, TypeOK, Waits(t), LookedUp(t) \/ Loaded(t)
    PROVE  TypeOK'
<1>1. Comes(t) /\ copy' \in {copy, NoDocument, [copy EXCEPT ![t] = record[t]]}
  BY LookedUpFacts, LoadedFacts
<1>2. pc' \in [Tasks -> Stages] /\ record' \in [Tasks -> Records] /\ StoreType
  BY <1>1, ComesType
<1>3. copy' \in Documents
  BY <1>1, RecordTypes DEF TypeOK, Documents
<1>4. UNCHANGED <<clock, named, deadline, queue, holder, scratch, reading, step, turn,
                  result, hint, running>>
  BY DEF LookedUp, Loaded
<1> QED BY <1>2, <1>3, <1>4 DEF TypeOK, StoreType

\* Requests that no run waits for.
LEMMA RequestType ==
    ASSUME TypeOK, Fetch \/ LateLands \/ AskToRead \/ Read
    PROVE  TypeOK'
<1>1. CASE Fetch
  BY <1>1 DEF Fetch, TypeOK
<1>2. CASE LateLands
  <2>1. gist' \in Documents /\ late' \in SUBSET Documents /\ mislaid' \in SUBSET Tasks
    BY <1>2 DEF LateLands, TypeOK, Missed
  <2>2. copy' \in Documents
    BY <1>2, AnswerTypes DEF LateLands
  <2> QED BY <1>2, <2>1, <2>2 DEF LateLands, TypeOK
<1>3. CASE AskToRead
  BY <1>3 DEF AskToRead, TypeOK
<1>4. CASE Read
  <2>1. PICK doc \in Answers : Warm(doc)
    BY <1>4 DEF Read
  <2>2. doc \in Documents /\ UNCHANGED gist
    BY <1>4, AnswerTypes DEF Read
  <2>3. stored' \in Documents /\ mislaid' \in SUBSET Tasks
    BY <2>1, <2>2, WarmFacts
  <2>4. copy' \in Documents
    BY <1>4, AnswerTypes DEF Read
  <2>5. reading' \in Nat
    BY <1>4 DEF Read, TypeOK
  <2> QED BY <1>4, <2>3, <2>4, <2>5 DEF Read, TypeOK
<1> QED BY <1>1, <1>2, <1>3, <1>4

\* The way through the lock.
LEMMA QueueType ==
    ASSUME NEW t \in Tasks, TypeOK, Enqueue(t) \/ Acquire(t) \/ Prepare(t)
    PROVE  TypeOK'
<1> USE ConstantsAssumption, StageTypes
<1>1. pc' \in [Tasks -> Stages]
  BY DEF Enqueue, Acquire, Prepare, GoTo, TypeOK
<1>2. CASE Enqueue(t)
  BY <1>1, <1>2 DEF Enqueue, TypeOK
<1>3. CASE Acquire(t)
  <2>1. OpenedScratchpad(t) \in Scratchpads
    BY RecordTypes, ScratchpadUpdate DEF OpenedScratchpad, TypeOK
  <2> QED BY <1>1, <1>3, <2>1 DEF Acquire, TypeOK
<1>4. CASE Prepare(t)
  BY <1>1, <1>4 DEF Prepare, TypeOK, Unfinished
<1> QED BY <1>2, <1>3, <1>4

\* The record that the end of a run saves.
LEMMA FinalRecordFacts ==
    ASSUME TypeOK, NEW t \in Tasks, NEW v \in Verdicts
    PROVE  LET r == Touched(FinalRecord(t, v))
           IN  /\ r \in WrittenRecords
               /\ r.status = RecordedStatus(v)
               /\ r.plan = record[t].plan
               /\ r.artifacts = result[t].artifacts
<1>1. RecordedStatus(v) \in Statuses
  BY DEF RecordedStatus, Verdicts, Statuses
<1>2. result[t].artifacts \in SUBSET Artifacts /\ record[t] \in Records
  BY Fields DEF TypeOK
<1>3. /\ FinalRecord(t, v) \in WrittenRecords
      /\ FinalRecord(t, v).status = RecordedStatus(v)
      /\ FinalRecord(t, v).plan = record[t].plan
      /\ FinalRecord(t, v).artifacts = result[t].artifacts
  <2>1. PICK r \in Records, s \in Statuses, x \in SUBSET Artifacts :
            r = record[t] /\ s = RecordedStatus(v) /\ x = result[t].artifacts
    BY <1>1, <1>2
  <2>2. FinalRecord(t, v) = [r EXCEPT !.status = s, !.artifacts = x]
    BY <2>1 DEF FinalRecord
  <2>3. /\ [r EXCEPT !.status = s, !.artifacts = x] \in WrittenRecords
        /\ [r EXCEPT !.status = s, !.artifacts = x].status = s
        /\ [r EXCEPT !.status = s, !.artifacts = x].plan = r.plan
        /\ [r EXCEPT !.status = s, !.artifacts = x].artifacts = x
    <3>1. r \in [status : Statuses \union {"none"}, plan : SUBSET Tasks,
                 progress : BOOLEAN, artifacts : SUBSET Artifacts, updated : Nat]
      BY RecordShape
    <3> QED BY <3>1 DEF WrittenRecords
  <2> QED BY <2>1, <2>2, <2>3
<1> QED BY <1>3, TouchedRecord

\* The end of a run, whatever its verdict.
LEMMA ConcludeFacts ==
    ASSUME NEW t \in Tasks, NEW v \in Verdicts, TypeOK, Conclude(t, v)
    PROVE  /\ StoreType
           /\ \/ /\ pc' = [pc EXCEPT ![t] = "reporting"]
                 /\ result' = [result EXCEPT ![t].status = v]
                 /\ Put(t, Touched(FinalRecord(t, v)), stored, mislaid \ {t})
              \/ /\ pc' = [pc EXCEPT ![t] = "raised"]
                 /\ result' = [result EXCEPT ![t] = NoResult]
                 /\ UNCHANGED <<stored, gist, late, mislaid>>
           /\ stored # NoDocument => stored' # NoDocument /\ \A u \in Tasks \ {t} : Unhurt(u)
           /\ copy' \in {copy, NoDocument}
<1>1. CASE /\ pc' = [pc EXCEPT ![t] = "reporting"]
           /\ result' = [result EXCEPT ![t].status = v]
           /\ Put(t, Touched(FinalRecord(t, v)), stored, mislaid \ {t})
  <2> DEFINE r == Touched(FinalRecord(t, v))
  <2>1. r \in WrittenRecords /\ Put(t, r, stored, mislaid \ {t})
    BY <1>1, FinalRecordFacts
  <2> HIDE DEF r
  <2>2. mislaid \ {t} \in SUBSET Tasks /\ stored \in Documents
    BY DEF TypeOK
  <2>3. StoreType /\ stored' # NoDocument
    BY <2>1, <2>2, PutFacts
  <2>4. ASSUME stored # NoDocument PROVE \A u \in Tasks \ {t} : Unhurt(u)
    <3>1. Missed(stored) = {}
      BY <2>4 DEF Missed, Durable
    <3> QED BY <2>1, <2>2, <3>1, PutUnhurt
  <2> QED BY <1>1, <2>3, <2>4, AnswerTypes DEF Conclude
<1>2. CASE /\ pc' = [pc EXCEPT ![t] = "raised"]
           /\ result' = [result EXCEPT ![t] = NoResult]
           /\ UNCHANGED <<stored, gist, late, mislaid>>
  <2>1. StoreType
    BY <1>2 DEF StoreType, TypeOK
  <2> QED BY <1>2, <2>1, NothingHurt, AnswerTypes DEF Conclude
<1> QED BY <1>1, <1>2 DEF Conclude

LEMMA ConcludeType ==
    ASSUME NEW t \in Tasks, NEW v \in Verdicts, TypeOK, Conclude(t, v)
    PROVE  TypeOK'
<1>1. StoreType /\ copy' \in Documents
  BY ConcludeFacts, RecordTypes DEF TypeOK
<1>2. pc' \in [Tasks -> Stages]
  BY ConcludeFacts, StageTypes DEF TypeOK
<1>3. result' \in [Tasks -> Results]
  <2>1. [result[t] EXCEPT !.status = v] \in Results
    BY ResultUpdate DEF TypeOK
  <2>2. result' = [result EXCEPT ![t].status = v] \/ result' = [result EXCEPT ![t] = NoResult]
    BY ConcludeFacts
  <2> QED BY <2>1, <2>2, RecordTypes DEF TypeOK
<1>4. /\ record' \in [Tasks -> Records] /\ hint' \in [Tasks -> SUBSET Tasks]
      /\ turn' \in [Tasks -> Turns] /\ step' \in [Tasks -> 0..MaxSteps]
      /\ deadline' \in [Tasks -> Nat] /\ holder' = NoTask
  BY RecordTypes, ConstantsAssumption DEF Conclude, TypeOK
<1>5. UNCHANGED <<clock, named, queue, scratch, reading, running>>
  BY DEF Conclude
<1> QED BY <1>1, <1>2, <1>3, <1>4, <1>5 DEF TypeOK, StoreType

LEMMA EndFacts ==
    ASSUME NEW t \in Tasks,
           \/ StepBudget(t) \/ WallClockBudget(t) \/ ModelFails(t)
           \/ FinalAnswer(t) \/ TurnRefused(t)
    PROVE  pc[t] \in Inside /\ \E v \in Verdicts : Conclude(t, v)
BY DEF StepBudget, WallClockBudget, ModelFails, FinalAnswer, TurnRefused, Inside, Verdicts

\* The steps of the loop that end nothing.
LEMMA LoopType ==
    ASSUME NEW t \in Tasks, TypeOK,
           CallModel(t) \/ EmptyAnswer(t) \/ ToolTurn(t) \/ TurnDone(t) \/ Report(t)
    PROVE  TypeOK'
<1> USE ConstantsAssumption
<1>1. pc' \in [Tasks -> Stages]
  BY StageTypes DEF CallModel, EmptyAnswer, ToolTurn, TurnDone, Report, GoTo, TypeOK
<1>2. CASE CallModel(t)
  BY <1>1, <1>2 DEF CallModel, TypeOK
<1>3. CASE EmptyAnswer(t)
  BY <1>1, <1>3 DEF EmptyAnswer, TypeOK
<1>4. CASE ToolTurn(t)
  <2>1. turn' \in [Tasks -> Turns]
    BY <1>4 DEF ToolTurn, TypeOK, Turns
  <2> QED BY <1>1, <1>4, <2>1 DEF ToolTurn, TypeOK
<1>5. CASE TurnDone(t)
  BY <1>1, <1>5 DEF TurnDone, TypeOK
<1>6. CASE Report(t)
  BY <1>1, <1>6 DEF Report, TypeOK
<1> QED BY <1>2, <1>3, <1>4, <1>5, <1>6

-----------------------------------------------------------------------------
(***************************************************************************)
(* The tools.  Whatever a tool does, it saves nothing, or a record of the  *)
(* task that calls it, with that task's texts and no artifact less.        *)
(***************************************************************************)
MadeByTool(t, r) ==
    /\ r \in WrittenRecords
    /\ r.plan \subseteq stored[t].plan \union Writers \union {t}
    /\ stored[t].artifacts \subseteq r.artifacts

ToolSaves(t) ==
    \/ NoSave /\ (UNCHANGED result \/ stored[t] = NoRecord)
    \/ \E r : /\ MadeByTool(t, r)
              /\ Put(t, r, stored, mislaid)
              /\ UNCHANGED result \/ "deliverable" \in r.artifacts

\* What it does otherwise.
ToolFrame(t) ==
    /\ Calling(t)
    /\ UNCHANGED <<clock, pc, named, deadline, queue, holder, record, reading, step, hint, running>>
    /\ \/ turn' = [turn EXCEPT ![t].left = @ - 1]
       \/ turn' = [turn EXCEPT ![t] = [left |-> @.left - 1, refused |-> TRUE]]
    /\ copy' \in {copy, NoDocument}
    /\ scratch' \in Scratchpads
    /\ scratch'.objective = scratch.objective
    /\ Writers' \subseteq Writers \union {t}
    /\ \/ UNCHANGED result
       \/ result' = [result EXCEPT ![t].artifacts = @ \union {"deliverable"}]

LEMMA NextCallFrame ==
    ASSUME TypeOK, NEW t \in Tasks, Calling(t), NextCall(t), scratch' \in Scratchpads,
           scratch'.objective = scratch.objective, Writers' \subseteq Writers \union {t},
           \/ UNCHANGED result
           \/ result' = [result EXCEPT ![t].artifacts = @ \union {"deliverable"}]
    PROVE  ToolFrame(t)
BY AnswerTypes DEF NextCall, ToolFrame

\* A record that was there is a written one.
LEMMA StoredRecord ==
    ASSUME TypeOK, NEW t \in Tasks
    PROVE  /\ stored[t] \in Records
           /\ stored[t] # NoRecord => stored[t] \in WrittenRecords
           /\ Current(t) \in WrittenRecords
           /\ Current(t).plan \subseteq stored[t].plan
           /\ stored[t].artifacts \subseteq Current(t).artifacts
<1>1. stored[t] \in Records /\ (stored[t] # NoRecord => stored[t] \in WrittenRecords)
  BY DEF TypeOK, Documents, Records
<1>2. CASE stored[t] = NoRecord
  <2>1. Current(t) = [NoRecord EXCEPT !.status = "pending"]
    BY <1>2 DEF Current
  <2>2. /\ [NoRecord EXCEPT !.status = "pending"] \in WrittenRecords
        /\ [NoRecord EXCEPT !.status = "pending"].plan = NoRecord.plan
        /\ [NoRecord EXCEPT !.status = "pending"].artifacts = NoRecord.artifacts
    BY RecordTypes, StatusUpdate DEF Statuses
  <2> QED BY <1>1, <1>2, <2>1, <2>2
<1>3. CASE stored[t] # NoRecord
  BY <1>1, <1>3 DEF Current
<1> QED BY <1>1, <1>2, <1>3

LEMMA SavesRecord ==
    ASSUME TypeOK, NEW t \in Tasks, NEW r, MadeByTool(t, r), Save(t, r), UNCHANGED result
    PROVE  ToolSaves(t)
<1>1. MadeByTool(t, Touched(r))
  BY TouchedRecord DEF MadeByTool
<1>2. Put(t, Touched(r), stored, mislaid) \/ NoSave
  BY DEF Save
<1> QED BY <1>1, <1>2 DEF ToolSaves

LEMMA WorkingMemoryFacts ==
    ASSUME TypeOK, NEW t \in Tasks, NEW new \in Scratchpads, WorkingMemory(t, new),
           new.objective = scratch.objective,
           new.plan \subseteq scratch.plan \union {t},
           new.entries \subseteq scratch.entries \union {t}
    PROVE  ToolFrame(t) /\ ToolSaves(t)
<1>1. scratch' = new /\ UNCHANGED result /\ Calling(t) /\ NextCall(t) /\ CopyPlan(t, new.plan)
  BY DEF WorkingMemory
<1>2. Writers' \subseteq Writers \union {t}
  BY <1>1 DEF Writers
<1>3. ToolFrame(t)
  BY <1>1, <1>2, NextCallFrame
<1>4. CASE stored[t] # NoRecord /\ Save(t, [stored[t] EXCEPT !.plan = new.plan])
  <2>1. PICK s \in WrittenRecords, p \in SUBSET Tasks : s = stored[t] /\ p = new.plan
    BY <1>4, StoredRecord, Fields
  <2>2. /\ [s EXCEPT !.plan = p] \in WrittenRecords
        /\ [s EXCEPT !.plan = p].plan = p
        /\ [s EXCEPT !.plan = p].artifacts = s.artifacts
    BY PlanUpdate
  <2>3. MadeByTool(t, [s EXCEPT !.plan = p])
    BY <2>1, <2>2 DEF MadeByTool, Writers
  <2> QED BY <1>1, <1>3, <1>4, <2>1, <2>3, SavesRecord
<1>5. CASE NoSave
  BY <1>1, <1>3, <1>5 DEF ToolSaves
<1> QED BY <1>1, <1>4, <1>5 DEF CopyPlan

LEMMA TaskStateFacts ==
    ASSUME TypeOK, NEW t \in Tasks, NEW r, MadeByTool(t, r), TaskState(t, r)
    PROVE  ToolFrame(t) /\ ToolSaves(t)
<1>1. Calling(t) /\ Save(t, r) /\ NextCall(t) /\ UNCHANGED <<scratch, result>>
  BY DEF TaskState
<1>2. scratch' \in Scratchpads /\ Writers' \subseteq Writers \union {t}
  BY <1>1 DEF TypeOK, Writers
<1> QED BY <1>1, <1>2, NextCallFrame, SavesRecord

LEMMA CallToolFacts ==
    ASSUME TypeOK, NEW t \in Tasks, CallTool(t)
    PROVE  ToolFrame(t) /\ ToolSaves(t)
<1> DEFINE Goal == ToolFrame(t) /\ ToolSaves(t)
<1>1. ASSUME NEW p \in SUBSET (scratch.plan \union {t}),
             WorkingMemory(t, [scratch EXCEPT !.plan = p])
      PROVE  Goal
  <2>1. /\ [scratch EXCEPT !.plan = p] \in Scratchpads
        /\ [scratch EXCEPT !.plan = p].objective = scratch.objective
        /\ [scratch EXCEPT !.plan = p].plan = p
        /\ [scratch EXCEPT !.plan = p].entries = scratch.entries
    BY DEF TypeOK, Scratchpads
  <2> QED BY <1>1, <2>1, WorkingMemoryFacts
<1>2. ASSUME NEW e \in SUBSET (scratch.entries \union {t}),
             WorkingMemory(t, [scratch EXCEPT !.entries = e])
      PROVE  Goal
  <2>1. /\ [scratch EXCEPT !.entries = e] \in Scratchpads
        /\ [scratch EXCEPT !.entries = e].objective = scratch.objective
        /\ [scratch EXCEPT !.entries = e].plan = scratch.plan
        /\ [scratch EXCEPT !.entries = e].entries = e
    BY DEF TypeOK, Scratchpads
  <2> QED BY <1>2, <2>1, WorkingMemoryFacts
<1>3. PICK c \in WrittenRecords : /\ c = Current(t) /\ c.plan \subseteq stored[t].plan
                                  /\ stored[t].artifacts \subseteq c.artifacts
  BY StoredRecord
<1>4. ASSUME NEW r \in WrittenRecords, r.plan = c.plan, c.artifacts \subseteq r.artifacts,
             TaskState(t, r)
      PROVE  Goal
  <2>1. MadeByTool(t, r)
    BY <1>3, <1>4 DEF MadeByTool
  <2> QED BY <1>4, <2>1, TaskStateFacts
<1>5. CASE SetPlan(t) \/ CompleteStep(t)
  BY <1>1, <1>5 DEF SetPlan, CompleteStep
<1>6. CASE AddEntry(t) \/ ClearBlocker(t)
  BY <1>2, <1>6 DEF AddEntry, ClearBlocker
<1>7. CASE Progress(t)
  BY <1>3, <1>4, <1>7, ProgressUpdate DEF Progress
<1>8. CASE SetStatus(t)
  <2>1. PICK s \in SetStatuses : TaskState(t, [c EXCEPT !.status = s])
    BY <1>3, <1>8 DEF SetStatus
  <2>2. s \in Statuses /\ c \in Records
    BY RecordTypes, ConstantsAssumption DEF Statuses
  <2> QED BY <1>4, <2>1, <2>2, StatusUpdate
<1>9. CASE AddArtifact(t)
  <2>1. TaskState(t, [c EXCEPT !.artifacts = @ \union {"noted"}])
    BY <1>3, <1>9 DEF AddArtifact
  <2>2. "noted" \in Artifacts
    BY DEF Artifacts
  <2> QED BY <1>4, <2>1, <2>2, ArtifactsUpdate
<1>10. CASE WriteArtifact(t)
  <2>1. /\ Calling(t) /\ NextCall(t) /\ UNCHANGED scratch
        /\ \/ UNCHANGED result
           \/ result' = [result EXCEPT ![t].artifacts = @ \union {"deliverable"}]
    BY <1>10 DEF WriteArtifact
  <2>2. ToolFrame(t)
    BY <2>1, NextCallFrame DEF TypeOK, Writers
  <2>3. CASE NoSave /\ (UNCHANGED result \/ stored[t] = NoRecord)
    BY <2>2, <2>3 DEF ToolSaves
  <2>4. CASE /\ stored[t] # NoRecord
             /\ Put(t, Touched([stored[t] EXCEPT !.artifacts = @ \union {"deliverable"}]), stored,
                    mislaid)
    <3>1. PICK s \in WrittenRecords : s = stored[t]
      BY <2>4, StoredRecord
    <3>2. "deliverable" \in Artifacts
      BY DEF Artifacts
    <3> DEFINE r == [s EXCEPT !.artifacts = @ \union {"deliverable"}]
    <3>3. /\ r \in WrittenRecords /\ r.plan = s.plan
          /\ r.artifacts = s.artifacts \union {"deliverable"}
      BY <3>2, ArtifactsUpdate
    <3>4. Put(t, Touched(r), stored, mislaid)
      BY <2>4, <3>1
    <3> HIDE DEF r
    <3>5. MadeByTool(t, Touched(r)) /\ "deliverable" \in Touched(r).artifacts
      BY <3>1, <3>3, TouchedRecord DEF MadeByTool
    <3> QED BY <2>2, <3>4, <3>5 DEF ToolSaves
  <2> QED BY <1>10, <2>3, <2>4 DEF WriteArtifact
<1>11. CASE OtherCall(t)
  <2>1. ToolFrame(t)
    BY <1>11, NextCallFrame DEF OtherCall, TypeOK, Writers
  <2> QED BY <1>11, <2>1 DEF OtherCall, ToolSaves
<1>12. CASE RefusedCall(t)
  BY <1>12 DEF RefusedCall, ToolFrame, ToolSaves, NoSave, TypeOK, Writers
<1> QED BY <1>5, <1>6, <1>7, <1>8, <1>9, <1>10, <1>11, <1>12 DEF CallTool

LEMMA ToolSavesFacts ==
    ASSUME TypeOK, NEW t \in Tasks, ToolSaves(t)
    PROVE  /\ StoreType
           /\ stored # NoDocument => stored' # NoDocument /\ \A u \in Tasks \ {t} : Unhurt(u)
<1>1. CASE NoSave
  BY <1>1, NothingHurt DEF NoSave, StoreType, TypeOK
<1>2. ASSUME NEW r \in WrittenRecords, Put(t, r, stored, mislaid)
      PROVE  /\ StoreType
             /\ stored # NoDocument => stored' # NoDocument /\ \A u \in Tasks \ {t} : Unhurt(u)
  <2>1. mislaid \in SUBSET Tasks /\ stored \in Documents
    BY DEF TypeOK
  <2>2. StoreType /\ stored' # NoDocument
    BY <1>2, <2>1, PutFacts
  <2>3. ASSUME stored # NoDocument PROVE \A u \in Tasks \ {t} : Unhurt(u)
    <3>1. Missed(stored) = {}
      BY <2>3 DEF Missed, Durable
    <3> QED BY <1>2, <2>1, <3>1, PutUnhurt
  <2> QED BY <2>2, <2>3
<1> QED BY <1>1, <1>2 DEF ToolSaves, MadeByTool

LEMMA CallToolType ==
    ASSUME NEW t \in Tasks, TypeOK, CallTool(t)
    PROVE  TypeOK'
<1>1. ToolFrame(t) /\ StoreType
  BY CallToolFacts, ToolSavesFacts
<1>2. turn' \in [Tasks -> Turns]
  <2>1. turn[t] \in Turns /\ turn[t].left > 0
    BY <1>1 DEF ToolFrame, Calling, TypeOK
  <2>2. [turn[t] EXCEPT !.left = @ - 1] \in Turns /\ [left |-> turn[t].left - 1, refused |-> TRUE] \in Turns
    BY <2>1, ConstantsAssumption DEF Turns
  <2> QED BY <1>1, <2>2 DEF ToolFrame, TypeOK
<1>3. result' \in [Tasks -> Results]
  <2>1. [result[t] EXCEPT !.artifacts = @ \union {"deliverable"}] \in Results
    BY ResultUpdate, Fields DEF TypeOK, Artifacts
  <2> QED BY <1>1, <2>1 DEF ToolFrame, TypeOK
<1>4. copy' \in Documents /\ scratch' \in Scratchpads
  BY <1>1, RecordTypes DEF ToolFrame, TypeOK
<1> QED BY <1>1, <1>2, <1>3, <1>4 DEF ToolFrame, TypeOK, StoreType

\* The process restarts.
LEMMA RestartFacts ==
    ASSUME TypeOK, NEW disk \in Documents, Restart(disk)
    PROVE  /\ TypeOK'
           /\ \A t \in Tasks : pc'[t] \in Over \union {"idle"}
           /\ \A u \in Tasks : Unhurt(u)
<1>1. \A t \in Tasks : pc'[t] = IF pc[t] \in Live THEN "lost" ELSE pc[t]
  BY DEF Restart
<1>2. \A t \in Tasks : pc'[t] \in Over \union {"idle"}
  BY <1>1 DEF TypeOK, Stages, Over
<1>3. pc' \in [Tasks -> Stages]
  BY <1>2 DEF Restart, Stages
<1>4. Durable' = IF disk = NoDocument THEN gist ELSE disk
  BY DEF Restart, Durable
<1>5. \A u \in Tasks : Unhurt(u)
  <2>1. mislaid' = mislaid \union Missed(Durable')
    BY <1>4 DEF Restart
  <2> QED BY <2>1 DEF Unhurt, Missed
<1>6. copy' \in Documents /\ mislaid' \in SUBSET Tasks
  BY RecordTypes DEF Restart, TypeOK, Missed
<1>7. result' \in [Tasks -> Results]
  BY RecordTypes DEF Restart, TypeOK
<1>8. TypeOK'
  BY <1>3, <1>6, <1>7, RecordTypes, ConstantsAssumption DEF Restart, TypeOK
<1> QED BY <1>2, <1>5, <1>8

LEMMA RestartsFacts ==
    ASSUME TypeOK, WarmRestart \/ ColdRestart
    PROVE  \E disk \in Documents : Restart(disk)
BY RecordTypes DEF WarmRestart, ColdRestart, TypeOK

\* The request actions and the clock leave the runs where they are.
LEMMA BackgroundFacts ==
    ASSUME TypeOK, Fetch \/ LateLands \/ AskToRead \/ Read \/ Tick \/ UNCHANGED vars
    PROVE  /\ UNCHANGED <<pc, named, deadline, queue, holder, scratch, record, step, turn, result,
                          hint, running>>
           /\ stored # NoDocument => stored' # NoDocument
           /\ \A u \in Tasks : Unhurt(u)
           /\ stored' \in {stored, copy} /\ gist' \in {gist} \union late /\ late' \subseteq late
           /\ copy' \in {copy, gist, NoDocument}
<1>1. CASE Fetch \/ AskToRead \/ Tick \/ UNCHANGED vars
  BY <1>1, NothingHurt DEF Fetch, AskToRead, Tick, vars
<1>2. CASE LateLands
  <2>1. PICK doc \in late :
          /\ gist' = doc /\ late' = late \ {doc} /\ UNCHANGED stored
          /\ mislaid' = IF stored = NoDocument THEN mislaid \union Missed(doc) ELSE mislaid
    BY <1>2 DEF LateLands
  <2>2. CASE stored = NoDocument
    <3>1. Durable' = doc
      BY <2>1, <2>2 DEF Durable
    <3>2. \A u \in Tasks : Unhurt(u)
      BY <2>1, <2>2, <3>1 DEF Unhurt, Missed
    <3> QED BY <1>2, <2>1, <3>2, AnswerTypes DEF LateLands
  <2>3. CASE stored # NoDocument
    <3>1. Durable' = Durable
      BY <2>1, <2>3 DEF Durable
    <3>2. \A u \in Tasks : Unhurt(u)
      BY <2>1, <2>3, <3>1 DEF Unhurt
    <3> QED BY <1>2, <2>1, <3>2, AnswerTypes DEF LateLands
  <2> QED BY <2>2, <2>3
<1>3. CASE Read
  <2>1. PICK doc \in Answers : Warm(doc)
    BY <1>3 DEF Read
  <2>2. doc \in Documents /\ doc \in {copy, NoDocument} /\ UNCHANGED gist
    BY <1>3, AnswerTypes DEF Read
  <2>3. /\ stored # NoDocument => stored' # NoDocument
        /\ stored' \in {doc, stored}
        /\ \A u \in Tasks : Unhurt(u)
    BY <2>1, <2>2, WarmFacts
  <2>4. stored' \in {stored, copy}
    BY <2>1, <2>2 DEF Warm
  <2> QED BY <1>3, <2>2, <2>3, <2>4, AnswerTypes DEF Read
<1> QED BY <1>1, <1>2, <1>3

-----------------------------------------------------------------------------
(***************************************************************************)
(* The types, with what the waiting runs have.                             *)
(***************************************************************************)
LEMMA StepsAside ==
    ASSUME NEW t \in Tasks, TypeOK,
           \/ Enqueue(t) \/ Acquire(t) \/ Prepare(t) \/ CallModel(t) \/ EmptyAnswer(t) \/ ToolTurn(t)
           \/ TurnDone(t) \/ Report(t)
    PROVE  /\ UNCHANGED <<named, record, stored, gist, late, copy, mislaid, result, clock>>
           /\ \E to \in Stages \ (Loading \union {"idle", "opening"}) : pc' = [pc EXCEPT ![t] = to]
           /\ \A u \in Tasks : Unhurt(u)
<1>1. UNCHANGED <<named, record, stored, gist, late, copy, mislaid, result, clock>>
  BY DEF Enqueue, Acquire, Prepare, CallModel, EmptyAnswer, ToolTurn, TurnDone, Report
<1>2. \E to \in {"queued", "preparing", "stepping", "model", "tools", "done"} :
          pc' = [pc EXCEPT ![t] = to]
  BY DEF Enqueue, Acquire, Prepare, CallModel, EmptyAnswer, ToolTurn, TurnDone, Report, GoTo
<1>3. {"queued", "preparing", "stepping", "model", "tools", "done"}
        \subseteq Stages \ (Loading \union {"idle", "opening"})
  BY StageTypes DEF Loading
<1> QED BY <1>1, <1>2, <1>3, NothingHurt

\* The kinds of steps that a run takes by itself.
LEMMA AdvanceKinds ==
    ASSUME NEW t \in Tasks, Advance(t)
    PROVE  \/ LookedUp(t) \/ Loaded(t)
           \/ Enqueue(t) \/ Acquire(t) \/ Prepare(t) \/ CallModel(t) \/ EmptyAnswer(t) \/ ToolTurn(t)
              \/ TurnDone(t) \/ Report(t)
           \/ pc[t] \in Inside /\ \E v \in Verdicts : Conclude(t, v)
           \/ CallTool(t)
BY EndFacts DEF Advance

LEMMA NextKinds ==
    ASSUME [Next]_vars
    PROVE  \/ \E t \in Tasks : StartFresh(t) \/ StartNamed(t) \/ Advance(t)
           \/ Fetch \/ LateLands \/ AskToRead \/ Read \/ Tick \/ UNCHANGED vars
           \/ WarmRestart \/ ColdRestart
BY DEF Next

LEMMA NextType == TypeOK /\ WaitsOK /\ [Next]_vars => TypeOK'
<1> SUFFICES ASSUME TypeOK, WaitsOK, [Next]_vars PROVE TypeOK'
  OBVIOUS
<1>1. ASSUME NEW t \in Tasks, Advance(t)
      PROVE  TypeOK'
  <2>1. Waits(t)
    BY DEF WaitsOK
  <2> QED BY <1>1, <2>1, AdvanceKinds, LoadType, QueueType, LoopType, ConcludeType, CallToolType
<1>2. ASSUME NEW t \in Tasks, StartFresh(t) \/ StartNamed(t)
      PROVE  TypeOK'
  BY <1>2, StartType
<1>3. CASE Fetch \/ LateLands \/ AskToRead \/ Read
  BY <1>3, RequestType
<1>4. CASE Tick
  BY <1>4, ConstantsAssumption DEF Tick, TypeOK
<1>5. CASE UNCHANGED vars
  BY <1>5 DEF vars, TypeOK
<1>6. CASE WarmRestart \/ ColdRestart
  BY <1>6, RestartsFacts, RestartFacts
<1> QED BY <1>1, <1>2, <1>3, <1>4, <1>5, <1>6, NextKinds

\* A run that comes waits with a record or an id.
LEMMA ComesWaits ==
    ASSUME TypeOK, NEW t \in Tasks, Comes(t), t \in named' \/ ~ (pc' = [pc EXCEPT ![t] = "looking"])
    PROVE  Waits(t)'
<1>1. CASE pc' = [pc EXCEPT ![t] = "looking"]
  <2>1. pc'[t] = "looking"
    BY <1>1 DEF TypeOK
  <2> QED BY <1>1, <2>1 DEF Waits
<1>2. ASSUME NEW r, Opens(t, r), Opened(t, r) \/ NotOpened(t, r)
      PROVE  Waits(t)'
  <2>1. CASE pc' = [pc EXCEPT ![t] = "loading"] /\ record' = [record EXCEPT ![t] = r]
    <3>1. pc'[t] = "loading" /\ record'[t] = r
      BY <2>1 DEF TypeOK
    <3> QED BY <1>2, <3>1 DEF Waits, Opens
  <2>2. CASE pc' = [pc EXCEPT ![t] = "opening"] \/ pc' = [pc EXCEPT ![t] = "raised"]
    <3>1. pc'[t] \in {"opening", "raised"}
      BY <2>2 DEF TypeOK
    <3> QED BY <3>1 DEF Waits
  <2> QED BY <1>2, <2>1, <2>2 DEF Opened, NotOpened
<1> QED BY <1>1, <1>2 DEF Comes

LEMMA NextWaits == TypeOK /\ WaitsOK /\ [Next]_vars => WaitsOK'
<1> SUFFICES ASSUME TypeOK, WaitsOK, [Next]_vars, NEW u \in Tasks PROVE Waits(u)'
  BY DEF WaitsOK
<1> USE DEF WaitsOK
<1>1. ASSUME named \subseteq named', pc'[u] = pc[u], record'[u] = record[u]
      PROVE  Waits(u)'
  BY <1>1 DEF Waits
<1>2. ASSUME pc'[u] \notin Loading
      PROVE  Waits(u)'
  BY <1>2 DEF Waits, Loading
<1>3. ASSUME NEW t \in Tasks, StartFresh(t) \/ StartNamed(t) \/ LookedUp(t) \/ Loaded(t)
      PROVE  Waits(u)'
  <2>1. Comes(t) /\ named \subseteq named'
    BY <1>3, StartFacts, LookedUpFacts, LoadedFacts DEF LookedUp, Loaded
  <2>2. t \in named' \/ ~ (pc' = [pc EXCEPT ![t] = "looking"])
    <3>1. CASE StartNamed(t) \/ LookedUp(t)
      BY <3>1 DEF StartNamed, LookedUp, Waits
    <3>2. CASE StartFresh(t) \/ Loaded(t)
      <4>1. ~ (pc' = [pc EXCEPT ![t] = "looking"])
        BY <3>2 DEF StartFresh, Loaded, Open, OpeningSave, TypeOK
      <4> QED BY <4>1
    <3> QED BY <1>3, <3>1, <3>2
  <2>3. CASE u = t
    BY <2>1, <2>2, <2>3, ComesWaits
  <2>4. CASE u # t
    <3>1. pc'[u] = pc[u] /\ record'[u] = record[u]
      BY <2>1, <2>4, ComesType DEF TypeOK
    <3> QED BY <1>1, <2>1, <3>1
  <2> QED BY <2>3, <2>4
<1>4. ASSUME NEW t \in Tasks,
             \/ Enqueue(t) \/ Acquire(t) \/ Prepare(t) \/ CallModel(t) \/ EmptyAnswer(t)
             \/ ToolTurn(t) \/ TurnDone(t) \/ Report(t)
      PROVE  Waits(u)'
  <2>1. PICK to \in Stages \ (Loading \union {"idle", "opening"}) : pc' = [pc EXCEPT ![t] = to]
    BY <1>4, StepsAside
  <2>2. pc'[u] = pc[u] \/ pc'[u] \notin Loading
    BY <2>1 DEF TypeOK
  <2> QED BY <1>1, <1>2, <1>4, <2>2, StepsAside
<1>5. ASSUME NEW t \in Tasks, NEW v, Conclude(t, v)
      PROVE  Waits(u)'
  <2>1. pc'[t] \in {"reporting", "raised"} /\ named' = named
        /\ \A w \in Tasks \ {t} : pc'[w] = pc[w] /\ record'[w] = record[w]
    BY <1>5 DEF Conclude, TypeOK
  <2> QED BY <1>1, <1>2, <2>1 DEF Loading
<1>6. ASSUME NEW t \in Tasks, CallTool(t)
      PROVE  Waits(u)'
  BY <1>1, <1>6, CallToolFacts DEF ToolFrame
<1>7. CASE Fetch \/ LateLands \/ AskToRead \/ Read \/ Tick \/ UNCHANGED vars
  BY <1>1, <1>7, BackgroundFacts
<1>8. CASE WarmRestart \/ ColdRestart
  <2>1. pc'[u] \in Over \union {"idle"}
    BY <1>8, RestartsFacts, RestartFacts
  <2> QED BY <1>2, <2>1 DEF Over, Loading
<1> QED BY <1>3, <1>4, <1>5, <1>6, <1>7, <1>8, NextKinds, AdvanceKinds

LEMMA TypeInvariance == Spec => [](TypeOK /\ WaitsOK)
<1>1. Init => TypeOK /\ WaitsOK
  <2>1. Init => WaitsOK
    BY DEF Init, WaitsOK, Waits
  <2> QED BY <2>1, InitType
<1>2. TypeOK /\ WaitsOK /\ [Next]_vars => (TypeOK /\ WaitsOK)'
  BY NextType, NextWaits
<1> QED BY <1>1, <1>2, PTL DEF Spec

(***************************************************************************)
(* Every variable keeps its type, for every number of tasks and budgets.   *)
(***************************************************************************)
THEOREM TypeCorrect == Spec => []TypeOK
BY TypeInvariance, PTL

-----------------------------------------------------------------------------
(***************************************************************************)
(* The lock.  A step that moves one run between stages of the same side of *)
(* the lock, and leaves the holder alone, keeps the runs serialised.       *)
(***************************************************************************)
LEMMA SameSide ==
    ASSUME NEW t \in Tasks, TypeOK, RunsAreSerialised, UNCHANGED holder,
           NEW to, pc' = [pc EXCEPT ![t] = to],
           to \in Inside <=> pc[t] \in Inside
    PROVE  RunsAreSerialised'
BY DEF TypeOK, RunsAreSerialised

LEMMA ComesSerialised ==
    ASSUME NEW t \in Tasks, TypeOK, RunsAreSerialised, Comes(t), pc[t] \notin Inside,
           UNCHANGED holder
    PROVE  RunsAreSerialised'
<1>1. PICK to \in {"looking", "loading", "opening", "raised"} : pc' = [pc EXCEPT ![t] = to]
  BY ComesType
<1>2. to \notin Inside
  BY DEF Inside
<1> QED BY <1>1, <1>2, SameSide

LEMMA ConcludeSerialised ==
    ASSUME NEW t \in Tasks, NEW v, TypeOK, RunsAreSerialised,
           pc[t] \in Inside, Conclude(t, v)
    PROVE  RunsAreSerialised'
<1>1. pc'[t] \notin Inside /\ \A u \in Tasks \ {t} : pc'[u] = pc[u]
  BY DEF Conclude, TypeOK, Inside
<1>2. \A u \in Tasks \ {t} : pc[u] \notin Inside
  BY DEF RunsAreSerialised
<1>3. holder' = NoTask /\ \A u \in Tasks : u # NoTask
  BY ConstantsAssumption DEF Conclude
<1> QED BY <1>1, <1>2, <1>3 DEF RunsAreSerialised

LEMMA AdvanceSerialised ==
    ASSUME NEW t \in Tasks, TypeOK, WaitsOK, RunsAreSerialised, Advance(t)
    PROVE  RunsAreSerialised'
<1>1. CASE Acquire(t)
  <2>1. \A u \in Tasks : u # NoTask /\ pc[u] \notin Inside
    BY <1>1, ConstantsAssumption DEF Acquire, RunsAreSerialised
  <2>2. pc'[t] \in Inside /\ \A u \in Tasks \ {t} : pc'[u] = pc[u]
    BY <1>1 DEF Acquire, GoTo, TypeOK, Inside
  <2> QED BY <1>1, <2>1, <2>2 DEF Acquire, RunsAreSerialised
<1>2. CASE Enqueue(t) \/ Prepare(t) \/ CallModel(t) \/ EmptyAnswer(t) \/ ToolTurn(t)
           \/ TurnDone(t) \/ Report(t)
  <2>1. PICK to \in Stages : /\ pc' = [pc EXCEPT ![t] = to]
                             /\ to \in Inside <=> pc[t] \in Inside
    BY <1>2, StageTypes DEF Enqueue, Prepare, CallModel, EmptyAnswer, ToolTurn, TurnDone, Report,
                GoTo, Inside
  <2>2. UNCHANGED holder
    BY <1>2 DEF Enqueue, Prepare, CallModel, EmptyAnswer, ToolTurn, TurnDone, Report
  <2> QED BY <2>1, <2>2, SameSide
<1>3. CASE pc[t] \in Inside /\ \E v \in Verdicts : Conclude(t, v)
  BY <1>3, ConcludeSerialised
<1>4. CASE CallTool(t)
  BY <1>4, CallToolFacts DEF ToolFrame, RunsAreSerialised
<1>5. CASE LookedUp(t) \/ Loaded(t)
  <2>1. Comes(t)
    BY <1>5, LookedUpFacts, LoadedFacts DEF WaitsOK
  <2>2. pc[t] \notin Inside /\ UNCHANGED holder
    BY <1>5 DEF LookedUp, Loaded, Inside
  <2> QED BY <2>1, <2>2, ComesSerialised
<1> QED BY <1>1, <1>2, <1>3, <1>4, <1>5, AdvanceKinds

LEMMA NextSerialised == TypeOK /\ WaitsOK /\ RunsAreSerialised /\ [Next]_vars => RunsAreSerialised'
<1> SUFFICES ASSUME TypeOK, WaitsOK, RunsAreSerialised, [Next]_vars PROVE RunsAreSerialised'
  OBVIOUS
<1>1. ASSUME NEW t \in Tasks, StartFresh(t) \/ StartNamed(t)
      PROVE  RunsAreSerialised'
  <2>1. Comes(t) /\ pc[t] \in Over \union {"idle"} /\ UNCHANGED holder
    BY <1>1, StartFacts
  <2>2. pc[t] \notin Inside
    BY <2>1 DEF Over, Inside
  <2> QED BY <2>1, <2>2, ComesSerialised
<1>2. CASE Fetch \/ LateLands \/ AskToRead \/ Read \/ Tick \/ UNCHANGED vars
  BY <1>2, BackgroundFacts DEF RunsAreSerialised
<1>3. CASE WarmRestart \/ ColdRestart
  <2>1. \A t \in Tasks : pc'[t] \notin Inside
    BY <1>3, RestartsFacts, RestartFacts DEF Over, Inside
  <2>2. holder' = NoTask
    BY <1>3 DEF WarmRestart, ColdRestart, Restart
  <2> QED BY <2>1, <2>2, ConstantsAssumption DEF RunsAreSerialised
<1> QED BY <1>1, <1>2, <1>3, AdvanceSerialised, NextKinds

(***************************************************************************)
(* At any time at most one run is between its first and last step, and it  *)
(* is the one that holds the lock (loop.py:150).                           *)
(***************************************************************************)
THEOREM Serialised == Spec => []RunsAreSerialised
<1>1. Init => RunsAreSerialised
  BY ConstantsAssumption DEF Init, RunsAreSerialised, Inside
<1> QED BY <1>1, NextSerialised, TypeInvariance, PTL DEF Spec

-----------------------------------------------------------------------------
(***************************************************************************)
(* The plans in the documents.                                             *)
(***************************************************************************)
\* A document whose records are a task's own new one and those of documents
\* with own plans has own plans.
LEMMA PutKeepsPlans ==
    ASSUME TypeOK, PlansAreOwn, named \subseteq named',
           NEW t \in Tasks, NEW r \in WrittenRecords, t \notin named' => r.plan \subseteq {t},
           NEW doc \in Documents, OwnPlans(doc),
           NEW astray \in SUBSET Tasks, Put(t, r, doc, astray)
    PROVE  StorePlans'
<1>1. OwnPlans(stored)'
  <2> SUFFICES ASSUME NEW u \in Tasks, u \notin named' PROVE stored'[u].plan \subseteq {u}
    BY DEF OwnPlans
  <2>1. stored'[u] = NoRecord \/ stored'[u] = IF u = t THEN r ELSE doc[u]
    BY PutFacts
  <2>2. NoRecord.plan = {}
    BY RecordTypes
  <2> QED BY <2>1, <2>2 DEF OwnPlans
<1>2. gist' \in {gist, stored'} /\ late' \subseteq late \union {stored'}
  BY PutFacts
<1>3. \A d : OwnPlans(d) => \A u \in Tasks : u \notin named' => d[u].plan \subseteq {u}
  BY DEF OwnPlans
<1>4. OwnPlans(gist)'
  BY <1>1, <1>2, <1>3 DEF OwnPlans, PlansAreOwn, StorePlans
<1>5. \A d \in late' : \A u \in Tasks : u \notin named' => d[u].plan \subseteq {u}
  BY <1>1, <1>2, <1>3 DEF OwnPlans, PlansAreOwn, StorePlans
<1> QED BY <1>1, <1>4, <1>5 DEF OwnPlans, StorePlans

LEMMA StorePlansKept ==
    ASSUME StorePlans, named \subseteq named', UNCHANGED <<stored, gist, late>>
    PROVE  StorePlans'
BY DEF StorePlans, OwnPlans

LEMMA OpeningSavePlans ==
    ASSUME TypeOK, PlansAreOwn, named \subseteq named', NEW t \in Tasks, NEW r, Opens(t, r),
           NEW doc \in Documents, OwnPlans(doc), OpeningSave(t, r, doc)
    PROVE  StorePlans'
<1>1. CASE Put(t, r, doc, (mislaid \union Missed(doc)) \ {t})
  <2>1. r \in WrittenRecords /\ (t \notin named' => r.plan \subseteq {t})
    BY DEF Opens
  <2>2. (mislaid \union Missed(doc)) \ {t} \in SUBSET Tasks
    BY DEF TypeOK, Missed
  <2> QED BY <1>1, <2>1, <2>2, PutKeepsPlans
<1>2. CASE Warm(doc) /\ UNCHANGED <<gist, late>>
  <2>1. stored' \in {doc, stored}
    BY <1>2, WarmFacts
  <2> QED BY <1>2, <2>1 DEF PlansAreOwn, StorePlans, OwnPlans
<1> QED BY <1>1, <1>2 DEF OpeningSave

LEMMA OpenPlans ==
    ASSUME TypeOK, PlansAreOwn, named \subseteq named', NEW t \in Tasks, NEW r, Opens(t, r), Open(t, r)
    PROVE  StorePlans'
<1>1. Opens(t, Touched(r))
  BY TouchedRecord DEF Opens
<1>2. CASE OpeningSave(t, Touched(r), stored)
  BY <1>1, <1>2, OpeningSavePlans DEF PlansAreOwn, StorePlans, TypeOK
<1>3. CASE UNCHANGED <<stored, gist, late, mislaid>>
  BY <1>3, StorePlansKept DEF PlansAreOwn
<1> QED BY <1>2, <1>3 DEF Open

\* The answers of the gist have own plans.
LEMMA AnswerPlans ==
    ASSUME PlansAreOwn
    PROVE  OwnPlans(NoDocument) /\ \A doc \in Answers : OwnPlans(doc)
<1>1. OwnPlans(NoDocument)
  BY RecordTypes DEF OwnPlans, NoDocument
<1> QED BY <1>1 DEF PlansAreOwn, Answers

LEMMA ComingPlans ==
    ASSUME TypeOK, WaitsOK, PlansAreOwn, OwnRecordIsBlank, NEW t \in Tasks,
           StartFresh(t) \/ StartNamed(t) \/ LookedUp(t) \/ Loaded(t)
    PROVE  PlansAreOwn'
<1>1. named \subseteq named'
  BY StartFacts DEF LookedUp, Loaded
<1>2. StorePlans'
  <2>1. CASE StartFresh(t)
    <3>1. Opens(t, FreshRecord) /\ Open(t, FreshRecord)
      BY <2>1, RecordTypes DEF Opens, StartFresh
    <3> QED BY <1>1, <3>1, OpenPlans
  <2>2. CASE StartNamed(t)
    <3>1. CASE Open(t, NamedRecord(t, stored))
      <4>1. Opens(t, NamedRecord(t, stored))
        BY <2>2, NamedRecordFacts DEF StartNamed, TypeOK
      <4> QED BY <1>1, <3>1, <4>1, OpenPlans
    <3>2. CASE UNCHANGED <<stored, gist, late>>
      BY <1>1, <3>2, StorePlansKept DEF PlansAreOwn
    <3> QED BY <2>2, <3>1, <3>2 DEF StartNamed
  <2>3. CASE LookedUp(t)
    <3>1. PICK doc \in Answers :
              \/ OpeningSave(t, Touched(NamedRecord(t, doc)), doc)
              \/ Open(t, NamedRecord(t, doc))
      BY <2>3 DEF LookedUp
    <3>2. t \in named'
      BY <2>3 DEF LookedUp, WaitsOK, Waits
    <3>3. doc \in Documents /\ OwnPlans(doc) /\ Opens(t, NamedRecord(t, doc))
      BY <3>2, AnswerTypes, AnswerPlans, NamedRecordFacts
    <3>4. Opens(t, Touched(NamedRecord(t, doc)))
      BY <3>3, TouchedRecord DEF Opens
    <3> QED BY <1>1, <3>1, <3>3, <3>4, OpenPlans, OpeningSavePlans
  <2>4. CASE Loaded(t)
    <3>1. PICK doc \in Answers : OpeningSave(t, record[t], doc)
      BY <2>4 DEF Loaded
    <3>2. doc \in Documents /\ OwnPlans(doc)
      BY AnswerTypes, AnswerPlans
    <3>3. Opens(t, record[t])
      BY <2>4 DEF Loaded, WaitsOK, Waits, Opens
    <3> QED BY <1>1, <3>1, <3>2, <3>3, OpeningSavePlans
  <2> QED BY <2>1, <2>2, <2>3, <2>4
<1>3. OwnPlans(copy)'
  <2>1. copy' \in {copy, NoDocument, [copy EXCEPT ![t] = record[t]]}
    BY StartFacts, LookedUpFacts, LoadedFacts DEF WaitsOK
  <2>2. CASE copy' \in {copy, NoDocument}
    BY <1>1, <2>2, AnswerPlans DEF PlansAreOwn, OwnPlans
  <2>3. CASE copy' = [copy EXCEPT ![t] = record[t]]
    <3>1. ASSUME NEW u \in Tasks, u \notin named'
          PROVE  copy'[u].plan \subseteq {u}
      <4>1. copy'[u] = IF u = t THEN record[t] ELSE copy[u]
        BY <2>3 DEF TypeOK, Documents
      <4> QED BY <1>1, <3>1, <4>1 DEF PlansAreOwn, OwnPlans, OwnRecordIsBlank
    <3> QED BY <3>1 DEF OwnPlans
  <2> QED BY <2>1, <2>2, <2>3
<1> QED BY <1>2, <1>3 DEF PlansAreOwn

\* A run's own record stays blank.
LEMMA ComesBlank ==
    ASSUME TypeOK, NEW t \in Tasks, Comes(t), OwnRecordIsBlank, named \subseteq named'
    PROVE  OwnRecordIsBlank'
<1> SUFFICES ASSUME NEW u \in Tasks, u \notin named' PROVE record'[u].plan = {}
  BY DEF OwnRecordIsBlank
<1>1. u # t => record'[u] = record[u]
  BY ComesType
<1>2. CASE UNCHANGED record
  BY <1>2 DEF OwnRecordIsBlank
<1>3. ASSUME NEW r, Opens(t, r), Opened(t, r) \/ NotOpened(t, r)
      PROVE  record'[t] = r \/ record'[t] = NoRecord
  BY <1>3 DEF Opened, NotOpened, TypeOK
<1>4. u = t /\ ~ UNCHANGED record => record'[t].plan = {}
  BY <1>3, RecordTypes DEF Comes, Opens
<1> QED BY <1>1, <1>2, <1>4 DEF OwnRecordIsBlank

-----------------------------------------------------------------------------
(***************************************************************************)
(* The inductive step of Inv, by kind of action.                           *)
(***************************************************************************)
\* A step that leaves the scratchpad alone and lets no run in.
LEMMA ScratchpadKept ==
    ASSUME ScratchpadIsOwn, named \subseteq named', UNCHANGED scratch,
           \A u \in Tasks : pc'[u] \in Inside => pc[u] \in Inside
    PROVE  ScratchpadIsOwn'
BY DEF ScratchpadIsOwn, Writers

LEMMA ComingInv ==
    ASSUME Inv, WaitsOK, NEW t \in Tasks,
           StartFresh(t) \/ StartNamed(t) \/ LookedUp(t) \/ Loaded(t)
    PROVE  ScratchpadIsOwn' /\ PlansAreOwn' /\ OwnRecordIsBlank'
<1>1. Comes(t) /\ named \subseteq named' /\ UNCHANGED scratch
  BY StartFacts, LookedUpFacts, LoadedFacts DEF LookedUp, Loaded, Inv, WaitsOK
<1>2. PICK to \in {"looking", "loading", "opening", "raised"} : pc' = [pc EXCEPT ![t] = to]
  BY <1>1, ComesType DEF Inv
<1>3. \A u \in Tasks : pc'[u] \in Inside => pc[u] \in Inside
  BY <1>2 DEF Inv, TypeOK, Inside
<1> QED BY <1>1, <1>3, ScratchpadKept, ComingPlans, ComesBlank DEF Inv

LEMMA AcquireInv ==
    ASSUME NEW t \in Tasks, Inv, WaitsOK, Acquire(t)
    PROVE  ScratchpadIsOwn' /\ PlansAreOwn' /\ OwnRecordIsBlank'
<1>1. \A u \in Tasks \ {t} : pc'[u] \notin Inside
  BY AdvanceSerialised DEF Inv, Acquire, Advance, RunsAreSerialised
<1>2. t \notin named => scratch' = FreshScratchpad(t)
  BY DEF Acquire, OpenedScratchpad
<1>3. /\ FreshScratchpad(t).objective = t
      /\ FreshScratchpad(t).plan = {}
      /\ FreshScratchpad(t).entries = {}
  BY DEF FreshScratchpad
<1>4. ScratchpadIsOwn'
  BY <1>1, <1>2, <1>3 DEF ScratchpadIsOwn, Acquire, Writers
<1>5. PlansAreOwn' /\ OwnRecordIsBlank'
  BY DEF Inv, Acquire, PlansAreOwn, StorePlans, OwnPlans, OwnRecordIsBlank
<1> QED BY <1>4, <1>5

LEMMA ConcludeInv ==
    ASSUME NEW t \in Tasks, NEW v \in Verdicts, Inv, pc[t] \in Inside, Conclude(t, v)
    PROVE  ScratchpadIsOwn' /\ PlansAreOwn' /\ OwnRecordIsBlank'
<1>1. \A u \in Tasks : pc'[u] \notin Inside
  <2>1. holder' = NoTask /\ \A u \in Tasks : u # NoTask
    BY ConstantsAssumption DEF Conclude
  <2> QED BY <2>1, ConcludeSerialised DEF Inv, RunsAreSerialised
<1>2. named' = named /\ record'[t] = NoRecord /\ \A u \in Tasks \ {t} : record'[u] = record[u]
  BY DEF Conclude, Inv, TypeOK
<1>3. OwnRecordIsBlank'
  BY <1>2, RecordTypes DEF Inv, OwnRecordIsBlank
<1>4. StorePlans'
  <2>1. CASE Put(t, Touched(FinalRecord(t, v)), stored, mislaid \ {t})
    <3>1. PICK r \in WrittenRecords : r = Touched(FinalRecord(t, v)) /\ r.plan = record[t].plan
      BY FinalRecordFacts DEF Inv
    <3>2. t \notin named' => r.plan \subseteq {t}
      BY <1>2, <3>1 DEF Inv, OwnRecordIsBlank
    <3> QED BY <1>2, <2>1, <3>1, <3>2, PutKeepsPlans DEF Inv, PlansAreOwn, StorePlans, TypeOK
  <2>2. CASE UNCHANGED <<stored, gist, late>>
    BY <1>2, <2>2, StorePlansKept DEF Inv, PlansAreOwn
  <2> QED BY <2>1, <2>2, ConcludeFacts DEF Inv
<1>5. OwnPlans(copy)'
  BY <1>2, ConcludeFacts, AnswerPlans DEF Inv, PlansAreOwn, OwnPlans
<1> QED BY <1>1, <1>3, <1>4, <1>5 DEF ScratchpadIsOwn, PlansAreOwn

LEMMA CallToolInv ==
    ASSUME NEW t \in Tasks, Inv, CallTool(t)
    PROVE  ScratchpadIsOwn' /\ PlansAreOwn' /\ OwnRecordIsBlank'
<1>1. ToolFrame(t) /\ ToolSaves(t)
  BY CallToolFacts DEF Inv
<1>2. pc[t] \in Inside /\ \A u \in Tasks \ {t} : pc[u] \notin Inside
  BY <1>1 DEF ToolFrame, Calling, Inside, Inv, RunsAreSerialised
<1>3. t \notin named => scratch.objective = t /\ Writers \subseteq {t}
  BY <1>2 DEF Inv, ScratchpadIsOwn
<1>4. ScratchpadIsOwn'
  BY <1>1, <1>2, <1>3 DEF ToolFrame, ScratchpadIsOwn
<1>5. StorePlans'
  <2>1. CASE NoSave
    BY <1>1, <2>1, StorePlansKept DEF Inv, PlansAreOwn, ToolFrame, NoSave
  <2>2. ASSUME NEW r, MadeByTool(t, r), Put(t, r, stored, mislaid)
        PROVE  StorePlans'
    <3>1. r \in WrittenRecords /\ (t \notin named' => r.plan \subseteq {t})
      BY <1>1, <1>3, <2>2 DEF MadeByTool, ToolFrame, Inv, PlansAreOwn, StorePlans, OwnPlans
    <3>2. named \subseteq named'
      BY <1>1 DEF ToolFrame
    <3> QED BY <2>2, <3>1, <3>2, PutKeepsPlans DEF Inv, PlansAreOwn, StorePlans, TypeOK
  <2> QED BY <1>1, <2>1, <2>2 DEF ToolSaves
<1>6. OwnPlans(copy)' /\ OwnRecordIsBlank'
  BY <1>1, AnswerPlans DEF ToolFrame, Inv, PlansAreOwn, OwnPlans, OwnRecordIsBlank
<1> QED BY <1>4, <1>5, <1>6 DEF PlansAreOwn

LEMMA AdvanceInv ==
    ASSUME NEW t \in Tasks, Inv, WaitsOK, Advance(t)
    PROVE  ScratchpadIsOwn' /\ PlansAreOwn' /\ OwnRecordIsBlank'
<1>1. CASE Enqueue(t) \/ Prepare(t) \/ CallModel(t) \/ EmptyAnswer(t) \/ ToolTurn(t)
           \/ TurnDone(t) \/ Report(t)
  <2>1. \A u \in Tasks : pc'[u] \in Inside => pc[u] \in Inside
    BY <1>1 DEF Enqueue, Prepare, CallModel, EmptyAnswer, ToolTurn, TurnDone, Report, GoTo,
                Inv, TypeOK, Inside
  <2>2. UNCHANGED <<named, scratch, record, stored, gist, late, copy>>
    BY <1>1 DEF Enqueue, Prepare, CallModel, EmptyAnswer, ToolTurn, TurnDone, Report
  <2>3. PlansAreOwn' /\ OwnRecordIsBlank'
    BY <2>2 DEF Inv, PlansAreOwn, StorePlans, OwnPlans, OwnRecordIsBlank
  <2> QED BY <2>1, <2>2, <2>3, ScratchpadKept DEF Inv
<1> QED BY <1>1, AcquireInv, CallToolInv, ComingInv, ConcludeInv, AdvanceKinds

LEMMA NextInv == Inv /\ WaitsOK /\ [Next]_vars => Inv'
<1> SUFFICES ASSUME Inv, WaitsOK, [Next]_vars PROVE Inv'
  OBVIOUS
<1>1. TypeOK' /\ RunsAreSerialised'
  BY NextType, NextSerialised DEF Inv
<1>2. ScratchpadIsOwn' /\ PlansAreOwn' /\ OwnRecordIsBlank'
  <2>1. CASE Fetch \/ LateLands \/ AskToRead \/ Read \/ Tick \/ UNCHANGED vars
    <3>1. /\ UNCHANGED <<pc, named, scratch, record>>
          /\ stored' \in {stored, copy} /\ gist' \in {gist} \union late /\ late' \subseteq late
          /\ copy' \in {copy, gist, NoDocument}
      BY <2>1, BackgroundFacts DEF Inv
    <3>2. StorePlans'
      BY <3>1 DEF Inv, PlansAreOwn, StorePlans, OwnPlans
    <3>3. OwnPlans(copy)' /\ OwnRecordIsBlank'
      BY <3>1, AnswerPlans DEF Inv, PlansAreOwn, StorePlans, OwnPlans, OwnRecordIsBlank
    <3> QED BY <3>1, <3>2, <3>3, ScratchpadKept DEF Inv, PlansAreOwn
  <2>2. CASE WarmRestart \/ ColdRestart
    <3>1. \A t \in Tasks : pc'[t] \notin Inside
      BY <2>2, RestartsFacts, RestartFacts DEF Over, Inside, Inv
    <3>2. /\ stored' \in {stored, NoDocument} /\ copy' \in {gist, NoDocument}
          /\ UNCHANGED <<named, gist, late>>
          /\ record' = [t \in Tasks |-> NoRecord]
      BY <2>2 DEF WarmRestart, ColdRestart, Restart
    <3>3. PlansAreOwn'
      BY <3>2, AnswerPlans DEF Inv, PlansAreOwn, StorePlans, OwnPlans
    <3>4. OwnRecordIsBlank'
      BY <3>2, RecordTypes DEF OwnRecordIsBlank
    <3> QED BY <3>1, <3>3, <3>4 DEF ScratchpadIsOwn
  <2> QED BY <2>1, <2>2, ComingInv, AdvanceInv, NextKinds
<1> QED BY <1>1, <1>2 DEF Inv

LEMMA InitInv == Init => Inv
<1> SUFFICES ASSUME Init PROVE Inv
  OBVIOUS
<1>1. RunsAreSerialised
  BY ConstantsAssumption DEF Init, RunsAreSerialised, Inside
<1>2. ScratchpadIsOwn
  BY DEF Init, ScratchpadIsOwn, Inside
<1>3. PlansAreOwn /\ OwnRecordIsBlank
  BY RecordTypes DEF Init, PlansAreOwn, StorePlans, OwnPlans, OwnRecordIsBlank, NoDocument
<1> QED BY <1>1, <1>2, <1>3, InitType DEF Inv

LEMMA Invariance == Spec => []Inv
BY InitInv, NextInv, TypeInvariance, PTL DEF Spec

(***************************************************************************)
(* A run that came without an id works on a scratchpad nobody else wrote   *)
(* to (loop.py:224), however many tasks there are and whatever is queued.  *)
(***************************************************************************)
THEOREM ScratchpadStaysOwn == Spec => []ScratchpadIsOwn
<1>1. Inv => ScratchpadIsOwn
  BY DEF Inv
<1> QED BY <1>1, Invariance, PTL

(***************************************************************************)
(* The plan on the durable record of such a task is its own                *)
(* (state.py:125), on the disk and in the gist, whichever documents were   *)
(* loaded, saved over each other and restored.                             *)
(***************************************************************************)
THEOREM PlanStaysOwn == Spec => []PlanIsOwn
<1>1. Inv => PlanIsOwn
  BY DEF Inv, PlansAreOwn, StorePlans, OwnPlans, PlanIsOwn
<1> QED BY <1>1, Invariance, PTL

-----------------------------------------------------------------------------
(***************************************************************************)
(* What the steps do to the record of the run that takes them, and to      *)
(* those of the others.                                                    *)
(***************************************************************************)
\* Once a run is past its load the document is on the disk.
OnDisk == \A t \in Tasks : pc[t] \in Live \ Loading => stored # NoDocument

\* A step of a run does the records of the others no harm, and leaves the
\* others where they are.
LEMMA OthersUnhurt ==
    ASSUME TypeOK, WaitsOK, OnDisk, NEW t \in Tasks, StartFresh(t) \/ StartNamed(t) \/ Advance(t)
    PROVE  /\ stored # NoDocument => stored' # NoDocument
           /\ \A u \in Tasks \ {t} : Unhurt(u) /\ pc'[u] = pc[u] /\ result'[u] = result[u]
<1>1. CASE StartFresh(t) \/ StartNamed(t) \/ LookedUp(t) \/ Loaded(t)
  <2>1. Comes(t)
    BY <1>1, StartFacts, LookedUpFacts, LoadedFacts DEF WaitsOK
  <2>2. \A u \in Tasks \ {t} : Unhurt(u) /\ pc'[u] = pc[u]
    <3>1. PICK to : pc' = [pc EXCEPT ![t] = to]
      BY <2>1, ComesType
    <3>2. \A u \in Tasks \ {t} : pc'[u] = pc[u]
      BY <3>1 DEF TypeOK
    <3> QED BY <2>1, <3>2 DEF Comes
  <2>3. \A u \in Tasks \ {t} : result'[u] = result[u]
    BY <1>1, StartFacts DEF LookedUp, Loaded, TypeOK
  <2>4. stored # NoDocument => stored' # NoDocument
    BY <2>1 DEF Comes, Opened, NotOpened
  <2> QED BY <2>2, <2>3, <2>4
<1>2. CASE Enqueue(t) \/ Acquire(t) \/ Prepare(t) \/ CallModel(t) \/ EmptyAnswer(t)
           \/ ToolTurn(t) \/ TurnDone(t) \/ Report(t)
  <2>1. PICK to \in Stages : pc' = [pc EXCEPT ![t] = to]
    BY <1>2, StepsAside
  <2> QED BY <1>2, <2>1, StepsAside DEF TypeOK
<1>3. ASSUME pc[t] \in Inside, NEW v \in Verdicts, Conclude(t, v)
      PROVE  /\ stored # NoDocument => stored' # NoDocument
             /\ \A u \in Tasks \ {t} : Unhurt(u) /\ pc'[u] = pc[u] /\ result'[u] = result[u]
  <2>1. stored # NoDocument
    BY <1>3 DEF OnDisk, Live, Inside, Loading
  <2>2. stored' # NoDocument /\ \A u \in Tasks \ {t} : Unhurt(u)
    BY <1>3, <2>1, ConcludeFacts
  <2> QED BY <1>3, <2>2 DEF Conclude, TypeOK
<1>4. CASE CallTool(t)
  <2>1. ToolFrame(t) /\ ToolSaves(t)
    BY <1>4, CallToolFacts
  <2>2. stored # NoDocument
    BY <2>1 DEF ToolFrame, Calling, OnDisk, Live, Inside, Loading
  <2>3. stored' # NoDocument /\ \A u \in Tasks \ {t} : Unhurt(u)
    BY <2>1, <2>2, ToolSavesFacts
  <2> QED BY <2>1, <2>3 DEF ToolFrame, TypeOK
<1> QED BY <1>1, <1>2, <1>3, <1>4, AdvanceKinds

\* What a run does to its own record: its opening save, or it is inside, or nothing.
LEMMA OwnWrites ==
    ASSUME TypeOK, WaitsOK, NEW t \in Tasks, StartFresh(t) \/ StartNamed(t) \/ Advance(t)
    PROVE  pc'[t] = "opening" \/ pc[t] \in Inside \/ Unhurt(t)
<1>1. CASE StartFresh(t) \/ StartNamed(t) \/ LookedUp(t) \/ Loaded(t)
  <2>1. Comes(t)
    BY <1>1, StartFacts, LookedUpFacts, LoadedFacts DEF WaitsOK
  <2>2. CASE UNCHANGED <<stored, gist, mislaid>>
    BY <2>2, NothingHurt
  <2>3. ASSUME NEW r, Opened(t, r) PROVE pc'[t] = "opening"
    BY <2>3 DEF Opened, TypeOK
  <2> QED BY <2>1, <2>2, <2>3 DEF Comes, NotOpened
<1>2. CASE CallTool(t)
  BY <1>2, CallToolFacts DEF ToolFrame, Calling, Inside
<1> QED BY <1>1, <1>2, StepsAside, AdvanceKinds

LEMMA NextOnDisk == TypeOK /\ WaitsOK /\ OnDisk /\ [Next]_vars => OnDisk'
<1> SUFFICES ASSUME TypeOK, WaitsOK, OnDisk, [Next]_vars, NEW u \in Tasks, pc'[u] \in Live \ Loading
             PROVE  stored' # NoDocument
  BY DEF OnDisk
<1>1. ASSUME NEW t \in Tasks, StartFresh(t) \/ StartNamed(t) \/ Advance(t)
      PROVE  stored' # NoDocument
  <2>1. CASE pc[u] \in Live \ Loading
    BY <1>1, <2>1, OthersUnhurt DEF OnDisk
  <2>2. CASE pc[u] \notin Live \ Loading
    <3>1. u = t
      BY <1>1, <2>2, OthersUnhurt
    <3>2. CASE StartFresh(t) \/ StartNamed(t) \/ LookedUp(t) \/ Loaded(t)
      <4>1. Comes(t)
        BY <3>2, StartFacts, LookedUpFacts, LoadedFacts DEF WaitsOK
      <4>2. ASSUME NEW r, Opens(t, r), Opened(t, r) \/ NotOpened(t, r)
            PROVE  stored' # NoDocument
        <5>1. pc'[t] \notin {"loading", "raised"}
          BY <3>1 DEF Live, Inside, Loading
        <5> QED BY <4>2, <5>1 DEF Opened, NotOpened, TypeOK
      <4>3. ~ (pc' = [pc EXCEPT ![t] = "looking"])
        BY <3>1 DEF TypeOK, Loading
      <4> QED BY <4>1, <4>2, <4>3 DEF Comes
    <3>3. ~ CallTool(t) /\ pc[t] \notin Inside
      BY <2>2, <3>1, CallToolFacts DEF ToolFrame, Calling, Live, Inside, Loading
    <3>4. CASE Enqueue(t) \/ Acquire(t) \/ Prepare(t) \/ CallModel(t) \/ EmptyAnswer(t)
               \/ ToolTurn(t) \/ TurnDone(t) \/ Report(t)
      <4>1. pc[t] \in {"opening", "queued", "preparing", "stepping", "model", "tools", "reporting"}
        BY <3>4 DEF Enqueue, Acquire, Prepare, CallModel, EmptyAnswer, ToolTurn, TurnDone, Report,
                    GoTo
      <4> QED BY <2>2, <3>1, <4>1 DEF Live, Inside, Loading
    <3> QED BY <1>1, <3>2, <3>3, <3>4, AdvanceKinds
  <2> QED BY <2>1, <2>2
<1>2. CASE Fetch \/ LateLands \/ AskToRead \/ Read \/ Tick \/ UNCHANGED vars
  BY <1>2, BackgroundFacts DEF OnDisk
<1>3. CASE WarmRestart \/ ColdRestart
  BY <1>3, RestartsFacts, RestartFacts DEF Live, Inside, Over
<1> QED BY <1>1, <1>2, <1>3, NextKinds

LEMMA DiskInvariance == Spec => []OnDisk
<1>1. Init => OnDisk
  BY DEF Init, OnDisk, Live, Inside
<1> QED BY <1>1, NextOnDisk, TypeInvariance, PTL DEF Spec

(***************************************************************************)
(* What is on record of a task is changed by its own run only (its opening *)
(* save, its tools and its end: loop.py:208 and 286, state.py:125), or the *)
(* task counts as mislaid: for any number of tasks whose saves store the   *)
(* whole document after loads that wait, any cap and any restarts.         *)
(***************************************************************************)
THEOREM OnlyOwnRunWritesRecord == Spec => OnlyOwnRunWrites
<1> DEFINE Own == \A t \in Tasks : Durable'[t] # Durable[t] =>
                                      pc'[t] = "opening" \/ holder = t \/ t \in mislaid'
<1>1. TypeOK /\ WaitsOK /\ OnDisk /\ RunsAreSerialised /\ [Next]_vars => [Own]_vars
  <2> SUFFICES ASSUME TypeOK, WaitsOK, OnDisk, RunsAreSerialised, [Next]_vars PROVE Own
    OBVIOUS
  <2> SUFFICES ASSUME NEW u \in Tasks, Durable'[u] # Durable[u]
               PROVE  pc'[u] = "opening" \/ holder = u \/ u \in mislaid'
    OBVIOUS
  <2>1. Unhurt(u) => u \in mislaid'
    BY DEF Unhurt
  <2>2. ASSUME NEW t \in Tasks, StartFresh(t) \/ StartNamed(t) \/ Advance(t)
        PROVE  pc'[u] = "opening" \/ holder = u \/ Unhurt(u)
    BY <2>2, OthersUnhurt, OwnWrites DEF RunsAreSerialised
  <2> QED BY <2>1, <2>2, BackgroundFacts, RestartsFacts, RestartFacts, NextKinds
<1> QED BY <1>1, TypeInvariance, DiskInvariance, Serialised, PTL DEF Spec, OnlyOwnRunWrites

-----------------------------------------------------------------------------
\* What the record of t says of its run, while it lasts and when it has ended.
RecordSound(t) ==
    /\ pc[t] \in Loading => result[t].artifacts = {}
    /\ t \notin mislaid /\ pc[t] \in Live \ Loading =>
          Durable[t] # NoRecord /\ result[t].artifacts \subseteq Durable[t].artifacts
    /\ t \notin mislaid /\ pc[t] \in {"reporting", "done"} =>
          /\ result[t].status \in Verdicts
          /\ Durable[t].status = RecordedStatus(result[t].status)
          /\ Durable[t].artifacts = result[t].artifacts

\* The inductive invariant of the properties of the records.
RecordInv == TypeOK /\ WaitsOK /\ OnDisk /\ \A t \in Tasks : RecordSound(t)

\* A run that stays where it is, or goes on from the opening on, unhurt.
LEMMA SoundKept ==
    ASSUME NEW t \in Tasks, RecordSound(t), Unhurt(t), result'[t] = result[t],
           pc'[t] \in Loading => pc[t] \in Loading,
           pc'[t] \in Live \ Loading => pc[t] \in Live \ Loading,
           pc'[t] \in {"reporting", "done"} => pc[t] \in {"reporting", "done"}
    PROVE  RecordSound(t)'
BY DEF RecordSound, Unhurt

\* A run that comes.
LEMMA ComesSound ==
    ASSUME TypeOK, NEW t \in Tasks, Comes(t), result'[t].artifacts = {}
    PROVE  RecordSound(t)'
<1>1. CASE pc' = [pc EXCEPT ![t] = "looking"]
  <2>1. pc'[t] = "looking"
    BY <1>1 DEF TypeOK
  <2> QED BY <2>1 DEF RecordSound, Loading
<1>2. ASSUME NEW r, Opens(t, r), Opened(t, r)
      PROVE  RecordSound(t)'
  <2>1. pc'[t] = "opening" /\ Durable' = stored'
        /\ (stored'[t] = r \/ (stored'[t] = NoRecord /\ t \in mislaid'))
    BY <1>2 DEF Opened, TypeOK
  <2>2. r # NoRecord
    BY <1>2, RecordTypes DEF Opens
  <2> QED BY <2>1, <2>2 DEF RecordSound, Loading
<1>3. ASSUME NEW r, NotOpened(t, r)
      PROVE  RecordSound(t)'
  <2>1. pc'[t] = "loading" \/ pc'[t] = "raised"
    BY <1>3 DEF NotOpened, TypeOK
  <2> QED BY <2>1 DEF RecordSound, Loading, Live, Inside
<1> QED BY <1>1, <1>2, <1>3 DEF Comes

\* The final save: the status of the verdict and the artifacts of the result.
LEMMA ConcludeSound ==
    ASSUME NEW t \in Tasks, NEW v \in Verdicts, TypeOK, Conclude(t, v)
    PROVE  RecordSound(t)'
<1>1. CASE /\ pc' = [pc EXCEPT ![t] = "reporting"]
           /\ result' = [result EXCEPT ![t].status = v]
           /\ Put(t, Touched(FinalRecord(t, v)), stored, mislaid \ {t})
  <2>1. PICK r \in WrittenRecords : /\ r = Touched(FinalRecord(t, v))
                                    /\ r.status = RecordedStatus(v)
                                    /\ r.artifacts = result[t].artifacts
    BY FinalRecordFacts
  <2>2. mislaid \ {t} \in SUBSET Tasks /\ stored \in Documents
    BY DEF TypeOK
  <2>3. /\ Durable' = stored'
        /\ stored'[t] = r \/ (stored'[t] = NoRecord /\ t \in mislaid')
    BY <1>1, <2>1, <2>2, PutFacts
  <2>4. /\ pc'[t] = "reporting"
        /\ result'[t].status = v /\ result'[t].artifacts = result[t].artifacts
    BY <1>1 DEF TypeOK, Results
  <2>5. r # NoRecord
    BY RecordTypes
  <2> QED BY <2>1, <2>3, <2>4, <2>5 DEF RecordSound, Loading
<1>2. CASE pc' = [pc EXCEPT ![t] = "raised"]
  <2>1. pc'[t] = "raised"
    BY <1>2 DEF TypeOK
  <2> QED BY <2>1 DEF RecordSound, Live, Inside, Loading
<1> QED BY <1>1, <1>2, ConcludeFacts

\* The tools change a record without taking an artifact away.
LEMMA CallToolSound ==
    ASSUME NEW t \in Tasks, TypeOK, OnDisk, RecordSound(t), CallTool(t)
    PROVE  RecordSound(t)'
<1>1. ToolFrame(t) /\ ToolSaves(t)
  BY CallToolFacts
<1>2. pc'[t] = "tools" /\ pc[t] = "tools"
  BY <1>1 DEF ToolFrame, Calling
<1>3. stored # NoDocument /\ Durable = stored
  BY <1>2 DEF OnDisk, Live, Inside, Loading, Durable
<1>4. result'[t].artifacts \subseteq result[t].artifacts \union {"deliverable"}
  BY <1>1 DEF ToolFrame, TypeOK, Results
<1> SUFFICES ASSUME t \notin mislaid'
             PROVE  Durable'[t] # NoRecord /\ result'[t].artifacts \subseteq Durable'[t].artifacts
  BY <1>2 DEF RecordSound, Loading
<1>5. t \notin mislaid =>
          stored[t] # NoRecord /\ result[t].artifacts \subseteq stored[t].artifacts
  BY <1>2, <1>3 DEF RecordSound, Live, Inside, Loading
<1>6. CASE NoSave /\ (UNCHANGED result \/ stored[t] = NoRecord)
  <2>1. Durable' = stored /\ t \notin mislaid
    BY <1>3, <1>6 DEF NoSave, Durable
  <2> QED BY <1>5, <1>6, <2>1
<1>7. ASSUME NEW r, MadeByTool(t, r), Put(t, r, stored, mislaid),
             UNCHANGED result \/ "deliverable" \in r.artifacts
      PROVE  Durable'[t] # NoRecord /\ result'[t].artifacts \subseteq Durable'[t].artifacts
  <2>1. mislaid \in SUBSET Tasks /\ stored \in Documents /\ r \in WrittenRecords
    BY <1>7 DEF TypeOK, MadeByTool
  <2>2. Durable' = stored' /\ stored'[t] = r /\ t \notin mislaid
    BY <1>7, <2>1, PutFacts
  <2>3. result[t].artifacts \subseteq r.artifacts /\ r # NoRecord
    BY <1>5, <1>7, <2>2, RecordTypes DEF MadeByTool
  <2> QED BY <1>4, <1>7, <2>2, <2>3
<1> QED BY <1>1, <1>6, <1>7 DEF ToolSaves

LEMMA OwnSound ==
    ASSUME NEW t \in Tasks, RecordInv, StartFresh(t) \/ StartNamed(t) \/ Advance(t)
    PROVE  RecordSound(t)'
<1> USE DEF RecordInv
<1>1. CASE StartFresh(t) \/ StartNamed(t)
  <2>1. Comes(t) /\ result'[t] = NoResult
    BY <1>1, StartFacts DEF TypeOK
  <2> QED BY <2>1, ComesSound, RecordTypes
<1>2. CASE LookedUp(t) \/ Loaded(t)
  <2>1. Comes(t)
    BY <1>2, LookedUpFacts, LoadedFacts DEF WaitsOK
  <2>2. result'[t].artifacts = {}
    BY <1>2 DEF LookedUp, Loaded, RecordSound, Loading
  <2> QED BY <2>1, <2>2, ComesSound
<1>3. CASE Enqueue(t) \/ Acquire(t) \/ Prepare(t) \/ CallModel(t) \/ EmptyAnswer(t)
           \/ ToolTurn(t) \/ TurnDone(t) \/ Report(t)
  <2>1. Unhurt(t) /\ result'[t] = result[t]
    BY <1>3, StepsAside
  <2>2. \/ pc[t] \in Live \ Loading /\ pc'[t] \in {"queued", "preparing", "stepping", "model", "tools"}
        \/ pc[t] = "reporting" /\ pc'[t] = "done"
    BY <1>3 DEF Enqueue, Acquire, Prepare, CallModel, EmptyAnswer, ToolTurn, TurnDone, Report, GoTo,
                TypeOK, Live, Inside, Loading
  <2>3. /\ pc'[t] \in Loading => pc[t] \in Loading
        /\ pc'[t] \in Live \ Loading => pc[t] \in Live \ Loading
        /\ pc'[t] \in {"reporting", "done"} => pc[t] \in {"reporting", "done"}
    BY <2>2 DEF Live, Inside, Loading
  <2> QED BY <2>1, <2>3, SoundKept
<1> QED BY <1>1, <1>2, <1>3, ConcludeSound, CallToolSound, AdvanceKinds

LEMMA RecordStep ==
    ASSUME RecordInv, [Next]_vars
    PROVE  RecordInv'
<1>1. TypeOK' /\ WaitsOK' /\ OnDisk'
  BY NextType, NextWaits, NextOnDisk DEF RecordInv
<1> SUFFICES ASSUME NEW u \in Tasks PROVE RecordSound(u)'
  BY <1>1 DEF RecordInv
<1>2. RecordSound(u)
  BY DEF RecordInv
<1>3. CASE Unhurt(u) /\ pc'[u] = pc[u] /\ result'[u] = result[u]
  BY <1>2, <1>3, SoundKept
<1>4. ASSUME NEW t \in Tasks, StartFresh(t) \/ StartNamed(t) \/ Advance(t)
      PROVE  RecordSound(u)'
  BY <1>3, <1>4, OwnSound, OthersUnhurt DEF RecordInv
<1>5. CASE Fetch \/ LateLands \/ AskToRead \/ Read \/ Tick \/ UNCHANGED vars
  BY <1>3, <1>5, BackgroundFacts DEF RecordInv
<1>6. CASE WarmRestart \/ ColdRestart
  <2>1. Unhurt(u)
    BY <1>6, RestartsFacts, RestartFacts DEF RecordInv
  <2>2. /\ pc'[u] = IF pc[u] \in Live THEN "lost" ELSE pc[u]
        /\ pc[u] = "done" => result'[u] = result[u]
    BY <1>6 DEF WarmRestart, ColdRestart, Restart
  <2>3. CASE pc[u] = "done"
    <3>1. pc'[u] = "done" /\ result'[u] = result[u]
      BY <2>2, <2>3 DEF Live, Inside, Loading
    <3> QED BY <1>2, <2>1, <2>3, <3>1, SoundKept
  <2>4. CASE pc[u] # "done"
    <3>1. pc'[u] \notin Live \union {"reporting", "done"}
      BY <2>2, <2>4 DEF Live, Inside, Loading
    <3> QED BY <3>1 DEF RecordSound, Live
  <2> QED BY <2>3, <2>4
<1> QED BY <1>4, <1>5, <1>6, NextKinds

LEMMA RecordInvariance == Spec => []RecordInv
<1>1. Init => RecordInv
  <2> SUFFICES ASSUME Init PROVE RecordInv
    OBVIOUS
  <2>1. \A t \in Tasks : pc[t] = "idle"
    BY DEF Init
  <2> QED BY <2>1, InitType DEF RecordInv, WaitsOK, Waits, OnDisk, RecordSound, Live, Inside, Loading
<1>2. RecordInv /\ [Next]_vars => RecordInv'
  BY RecordStep
<1> QED BY <1>1, <1>2, PTL DEF Spec

(***************************************************************************)
(* From its opening save on a task is on record while run() is executed,   *)
(* with every deliverable that its result reports (loop.py:208,            *)
(* state.py:305), unless a load that waited, a replaced disk or the cap    *)
(* has mislaid the record.                                                 *)
(***************************************************************************)
THEOREM WorkStaysRecorded == Spec => []WorkIsRecorded
<1>1. RecordInv => WorkIsRecorded
  BY DEF RecordInv, RecordSound, WorkIsRecorded
<1> QED BY <1>1, RecordInvariance, PTL

(***************************************************************************)
(* The record of a task that ran to its end says what the run returned     *)
(* (loop.py:268), in this process and after every restart, unless it was   *)
(* mislaid.                                                                *)
(***************************************************************************)
THEOREM OutcomeStaysRecorded == Spec => []OutcomeIsRecorded
<1>1. RecordInv => OutcomeIsRecorded
  BY DEF RecordInv, RecordSound, OutcomeIsRecorded
<1> QED BY <1>1, RecordInvariance, PTL

-----------------------------------------------------------------------------
(***************************************************************************)
(* The refinement.  The phases of the stages, and the statuses.            *)
(***************************************************************************)
LEMMA Phases ==
    /\ PhaseOf("idle") = "out" /\ PhaseOf("opening") = "accepted" /\ PhaseOf("queued") = "waiting"
    /\ \A s \in Loading : PhaseOf(s) = "coming"
    /\ \A s \in Inside : PhaseOf(s) = "active"
    /\ \A s \in Over \union {"reporting"} : PhaseOf(s) = "over"
    /\ \A s \in Stages : PhaseOf(s) = "active" => s \in Inside
    /\ \A s \in Stages : PhaseOf(s) = "out" => s = "idle"
BY DEF PhaseOf, Loading, Inside, Over, Stages, Live

\* What is on record of a task that a step does not hurt stays, or gets lost.
LEMMA StatusKept ==
    ASSUME NEW u \in Tasks, Unhurt(u)
    PROVE  Status'[u] \in {"lost", Status[u]}
BY DEF Unhurt, Status

LEMMA StatusType ==
    ASSUME TypeOK
    PROVE  Status \in [Tasks -> Service!Words]
<1>1. \A t \in Tasks : Durable[t] \in Records
  BY DEF TypeOK, Documents, Durable
<1>2. \A r \in Records : r.status \in Service!Words
  BY RecordShape DEF Statuses, Service!Words
<1> QED BY <1>1, <1>2 DEF Status, Service!Words

\* A step that records the status s of t and hurts no other.
LEMMA StatusRecorded ==
    ASSUME Status' \in [Tasks -> Service!Words], NEW t \in Tasks, NEW s,
           Status'[t] \in {"lost", s}, \A u \in Tasks \ {t} : Unhurt(u)
    PROVE  Service!Record(t, s)
BY StatusKept DEF Service!Record

\* A step that hurts nobody loses records at most.
LEMMA NothingRecorded ==
    ASSUME Status' \in [Tasks -> Service!Words], NEW t \in Tasks, \A u \in Tasks : Unhurt(u)
    PROVE  Service!Record(t, Status[t])
BY StatusKept, StatusRecorded

LEMMA StoreKept ==
    ASSUME UNCHANGED <<stored, gist, mislaid>>
    PROVE  Status' = Status
BY DEF Status, Durable

LEMMA MappedPhase ==
    ASSUME TypeOK, NEW t \in Tasks, \A u \in Tasks \ {t} : pc'[u] = pc[u]
    PROVE  /\ Phase' = [Phase EXCEPT ![t] = PhaseOf(pc'[t])]
           /\ Phase[t] = PhaseOf(pc[t])
           /\ PhaseOf(pc'[t]) = Phase[t] => Phase' = Phase
BY DEF Phase

\* A run that comes is on its way, accepted or refused.
LEMMA ComesMaps ==
    ASSUME TypeOK, NEW t \in Tasks, Comes(t), Status' \in [Tasks -> Service!Words]
    PROVE  \/ Phase' = [Phase EXCEPT ![t] = "coming"] /\ Status' = Status
           \/ Phase' = [Phase EXCEPT ![t] = "accepted"] /\ Service!Record(t, "running")
           \/ Phase' = [Phase EXCEPT ![t] = "over"] /\ Service!Record(t, Status[t])
<1>1. PICK to \in {"looking", "loading", "opening", "raised"} : pc' = [pc EXCEPT ![t] = to]
  BY ComesType
<1>2. pc'[t] = to /\ \A u \in Tasks \ {t} : pc'[u] = pc[u]
  BY <1>1 DEF TypeOK
<1>3. Phase' = [Phase EXCEPT ![t] = PhaseOf(to)]
  BY <1>2, MappedPhase
<1>4. \A u \in Tasks \ {t} : Unhurt(u)
  BY DEF Comes
<1>5. CASE to \in Loading
  <2>1. UNCHANGED <<stored, gist, mislaid>>
    BY <1>2, <1>5 DEF Comes, Opened, NotOpened, Loading, TypeOK
  <2> QED BY <1>3, <1>5, <2>1, StoreKept, Phases
<1>6. CASE to = "opening"
  <2>1. PICK r : Opens(t, r) /\ Opened(t, r)
    BY <1>2, <1>6 DEF Comes, NotOpened, TypeOK
  <2>2. Status'[t] \in {"lost", "running"}
    BY <2>1 DEF Opens, Opened, Status
  <2>3. Service!Record(t, "running")
    BY <1>4, <2>2, StatusRecorded
  <2>4. Phase' = [Phase EXCEPT ![t] = "accepted"]
    BY <1>3, <1>6, Phases
  <2> QED BY <2>3, <2>4
<1>7. CASE to = "raised"
  <2>1. PICK r : NotOpened(t, r)
    BY <1>2, <1>7 DEF Comes, Opened, TypeOK
  <2>2. \A u \in Tasks : Unhurt(u)
    BY <1>4, <2>1 DEF NotOpened
  <2>3. PhaseOf("raised") = "over"
    BY Phases DEF Over
  <2> QED BY <1>3, <1>7, <2>2, <2>3, NothingRecorded
<1> QED BY <1>5, <1>6, <1>7 DEF Loading

LEMMA SubmitMaps ==
    ASSUME NEW t \in Tasks, TypeOK, Status' \in [Tasks -> Service!Words],
           StartFresh(t) \/ StartNamed(t)
    PROVE  Service!Submit(t)
<1>1. Comes(t) /\ pc[t] \in Over \union {"idle"} /\ queue' = queue
  BY StartFacts
<1>2. Phase[t] \in {"out", "over"}
  BY <1>1, Phases DEF Phase
<1> QED BY <1>1, <1>2, ComesMaps DEF Service!Submit

LEMMA AcceptMaps ==
    ASSUME NEW t \in Tasks, TypeOK, WaitsOK, Status' \in [Tasks -> Service!Words],
           LookedUp(t) \/ Loaded(t)
    PROVE  Service!Accept(t) \/ UNCHANGED Service!vars
<1>1. Comes(t) /\ pc[t] \in Loading /\ queue' = queue
  BY LookedUpFacts, LoadedFacts DEF WaitsOK, LookedUp, Loaded, Loading
<1>2. Phase[t] = "coming" /\ Phase \in [Tasks -> {PhaseOf(s) : s \in Stages}]
  BY <1>1, Phases DEF Phase, TypeOK
<1>3. CASE Phase' = [Phase EXCEPT ![t] = "coming"] /\ Status' = Status
  <2>1. Phase' = Phase
    BY <1>2, <1>3
  <2> QED BY <1>1, <1>3, <2>1 DEF Service!vars
<1> QED BY <1>1, <1>2, <1>3, ComesMaps DEF Service!Accept

\* Conclude is the end of the task, whether its record could be saved or not.
LEMMA EndMaps ==
    ASSUME NEW t \in Tasks, NEW v \in Verdicts, TypeOK, OnDisk,
           Status' \in [Tasks -> Service!Words], Conclude(t, v), pc[t] \in Inside
    PROVE  Service!End(t)
<1>1. Phase[t] = "active" /\ queue' = queue
  BY Phases DEF Conclude, Phase
<1>2. \A u \in Tasks \ {t} : pc'[u] = pc[u] /\ Unhurt(u)
  <2>1. stored # NoDocument
    BY DEF OnDisk, Live, Inside, Loading
  <2> QED BY <2>1, ConcludeFacts DEF Conclude, TypeOK
<1>3. pc'[t] \in {"reporting", "raised"}
  BY DEF Conclude, TypeOK
<1>4. Phase' = [Phase EXCEPT ![t] = "over"]
  BY <1>2, <1>3, MappedPhase, Phases DEF Over
<1>5. CASE UNCHANGED <<stored, gist, late, mislaid>>
  <2>1. Service!Record(t, Status[t])
    BY <1>5, NothingHurt, NothingRecorded
  <2> QED BY <1>1, <1>4, <2>1 DEF Service!End
<1>6. CASE Put(t, Touched(FinalRecord(t, v)), stored, mislaid \ {t})
  <2>1. PICK r \in WrittenRecords : /\ r = Touched(FinalRecord(t, v))
                                    /\ r.status = RecordedStatus(v)
    BY FinalRecordFacts
  <2>2. mislaid \ {t} \in SUBSET Tasks /\ stored \in Documents
    BY DEF TypeOK
  <2>3. /\ Durable' = stored'
        /\ stored'[t] = r \/ (stored'[t] = NoRecord /\ t \in mislaid')
    BY <1>6, <2>1, <2>2, PutFacts
  <2>4. Status'[t] \in {"lost", RecordedStatus(v)}
    BY <2>1, <2>3 DEF Status
  <2>5. Service!Record(t, RecordedStatus(v))
    BY <1>2, <2>4, StatusRecorded
  <2>6. RecordedStatus(v) \in {"running", "completed", "failed", "blocked"}
    BY DEF RecordedStatus, Verdicts
  <2> QED BY <1>1, <1>4, <2>5, <2>6 DEF Service!End
<1> QED BY <1>5, <1>6, ConcludeFacts

\* A tool may change the status of the task that calls it; nothing else shows.
LEMMA WorkMaps ==
    ASSUME NEW t \in Tasks, TypeOK, OnDisk, Status' \in [Tasks -> Service!Words], CallTool(t)
    PROVE  Service!Work(t) \/ UNCHANGED Service!vars
<1>1. ToolFrame(t) /\ ToolSaves(t)
  BY CallToolFacts
<1>2. pc[t] \in Inside /\ pc' = pc /\ queue' = queue
  BY <1>1 DEF ToolFrame, Calling, Inside
<1>3. Phase[t] = "active" /\ Phase' = Phase
  BY <1>2, Phases DEF Phase
<1>4. \A u \in Tasks \ {t} : Unhurt(u)
  BY <1>1, <1>2, ToolSavesFacts DEF OnDisk, Live, Inside, Loading
<1>5. CASE NoSave
  BY <1>2, <1>3, <1>5, StoreKept DEF NoSave, Service!vars
<1>6. ASSUME NEW r, MadeByTool(t, r), Put(t, r, stored, mislaid)
      PROVE  Service!Work(t)
  <2>1. r \in WrittenRecords /\ mislaid \in SUBSET Tasks /\ stored \in Documents
    BY <1>6 DEF MadeByTool, TypeOK
  <2>2. /\ Durable' = stored'
        /\ stored'[t] = r \/ (stored'[t] = NoRecord /\ t \in mislaid')
    BY <1>6, <2>1, PutFacts
  <2>3. Status'[t] \in {"lost", r.status}
    BY <2>2 DEF Status
  <2>4. Service!Record(t, r.status)
    BY <1>4, <2>3, StatusRecorded
  <2>5. r.status \in Statuses
    BY <2>1 DEF WrittenRecords
  <2> QED BY <1>2, <1>3, <2>4, <2>5 DEF Service!Work, Statuses
<1> QED BY <1>1, <1>5, <1>6 DEF ToolSaves

LEMMA AdvanceMaps ==
    ASSUME NEW t \in Tasks, TypeOK, WaitsOK, OnDisk, RunsAreSerialised,
           Status' \in [Tasks -> Service!Words], Advance(t)
    PROVE  Service!Next \/ UNCHANGED Service!vars
<1>1. CASE Enqueue(t)
  <2>1. /\ pc[t] = "opening" /\ pc'[t] = "queued" /\ queue' = Append(queue, t)
        /\ \A u \in Tasks \ {t} : pc'[u] = pc[u]
    BY <1>1 DEF Enqueue, GoTo, TypeOK
  <2>2. Status' = Status
    BY <1>1, StoreKept DEF Enqueue
  <2>3. Service!GetInLine(t)
    BY <2>1, <2>2, MappedPhase, Phases DEF Service!GetInLine
  <2> QED BY <2>3 DEF Service!Next
<1>2. CASE Acquire(t)
  <2>1. /\ pc[t] = "queued" /\ pc'[t] = "preparing"
        /\ \A u \in Tasks \ {t} : pc'[u] = pc[u]
        /\ queue # <<>> /\ Head(queue) = t /\ queue' = Tail(queue) /\ holder = NoTask
    BY <1>2 DEF Acquire, GoTo, TypeOK
  <2>2. Status' = Status
    BY <1>2, StoreKept DEF Acquire
  <2>3. \A u \in Tasks : Phase[u] # "active"
    <3>1. \A u \in Tasks : pc[u] \in Stages /\ pc[u] \notin Inside
      BY <2>1, ConstantsAssumption DEF RunsAreSerialised, TypeOK
    <3> QED BY <3>1, Phases DEF Phase
  <2>4. "preparing" \in Inside
    BY DEF Inside
  <2>5. Service!Begin(t)
    BY <2>1, <2>2, <2>3, <2>4, MappedPhase, Phases DEF Service!Begin
  <2> QED BY <2>5 DEF Service!Next
<1>3. CASE Prepare(t) \/ CallModel(t) \/ EmptyAnswer(t) \/ ToolTurn(t) \/ TurnDone(t) \/ Report(t)
  <2>1. UNCHANGED <<queue, stored, gist, mislaid>>
    BY <1>3 DEF Prepare, CallModel, EmptyAnswer, ToolTurn, TurnDone, Report
  <2>2. \/ pc[t] \in Inside /\ pc'[t] \in Inside
        \/ pc[t] = "reporting" /\ pc'[t] \in Over
    BY <1>3 DEF Prepare, CallModel, EmptyAnswer, ToolTurn, TurnDone, Report, GoTo, TypeOK, Inside, Over
  <2>3. \A u \in Tasks \ {t} : pc'[u] = pc[u]
    BY <1>3 DEF Prepare, CallModel, EmptyAnswer, ToolTurn, TurnDone, Report, GoTo, TypeOK
  <2>4. PhaseOf(pc'[t]) = Phase[t]
    BY <2>2, <2>3, MappedPhase, Phases
  <2>5. Phase' = Phase /\ Status' = Status
    BY <2>1, <2>3, <2>4, MappedPhase, StoreKept
  <2> QED BY <2>1, <2>5 DEF Service!vars
<1>4. ASSUME pc[t] \in Inside, NEW v \in Verdicts, Conclude(t, v)
      PROVE  Service!Next
  BY <1>4, EndMaps DEF Service!Next
<1>5. CASE CallTool(t)
  BY <1>5, WorkMaps DEF Service!Next
<1>6. CASE LookedUp(t) \/ Loaded(t)
  BY <1>6, AcceptMaps DEF Service!Next
<1> QED BY <1>1, <1>2, <1>3, <1>4, <1>5, <1>6, AdvanceKinds

\* What happens between the runs loses records at most, and that is no step at
\* all if there are no tasks.
LEMMA BackgroundMaps ==
    ASSUME TypeOK, Status' \in [Tasks -> Service!Words],
           Fetch \/ LateLands \/ AskToRead \/ Read \/ Tick \/ UNCHANGED vars
    PROVE  Service!Next \/ UNCHANGED Service!vars
<1>1. pc' = pc /\ queue' = queue /\ \A u \in Tasks : Unhurt(u)
  BY BackgroundFacts
<1>2. Phase' = Phase
  BY <1>1 DEF Phase
<1>3. ASSUME NEW t \in Tasks PROVE Service!Next
  <2>1. Service!Record(t, Status[t])
    BY <1>1, NothingRecorded
  <2> QED BY <1>1, <1>2, <2>1 DEF Service!Mislay, Service!Next
<1>4. CASE Tasks = {}
  <2>1. Status' = Status
    BY <1>4 DEF Status
  <2> QED BY <1>1, <1>2, <2>1 DEF Service!vars
<1> QED BY <1>3, <1>4

LEMMA RestartMaps ==
    ASSUME TypeOK, Status' \in [Tasks -> Service!Words], WarmRestart \/ ColdRestart
    PROVE  Service!Restart
<1>1. /\ queue' = <<>>
      /\ pc' = [t \in Tasks |-> IF pc[t] \in Live THEN "lost" ELSE pc[t]]
  BY DEF WarmRestart, ColdRestart, Restart
<1>2. ASSUME NEW t \in Tasks
      PROVE  PhaseOf(pc'[t]) = IF Phase[t] = "out" THEN "out" ELSE "over"
  <2>1. pc[t] \in Stages /\ Phase[t] = PhaseOf(pc[t])
    BY DEF TypeOK, Phase
  <2>2. CASE pc[t] = "idle"
    BY <1>1, <2>1, <2>2, Phases DEF Live, Inside, Loading
  <2>3. CASE pc[t] # "idle"
    <3>1. pc'[t] \in Over
      BY <1>1, <2>1, <2>3 DEF Stages, Over
    <3> QED BY <2>1, <2>3, <3>1, Phases
  <2> QED BY <2>2, <2>3
<1>3. Phase' = [t \in Tasks |-> IF Phase[t] = "out" THEN "out" ELSE "over"]
  BY <1>2 DEF Phase
<1>4. \A u \in Tasks : Unhurt(u)
  BY RestartsFacts, RestartFacts
<1>5. UNCHANGED Status \/ \E t \in Tasks : Service!Record(t, Status[t])
  <2>1. CASE Tasks = {}
    BY <2>1 DEF Status
  <2> QED BY <1>4, <2>1, NothingRecorded
<1> QED BY <1>1, <1>3, <1>5 DEF Service!Restart

(***************************************************************************)
(* Whatever run() does with its lock, its store and its failures is what   *)
(* TaskService allows: tasks are accepted on record, begun one at a time   *)
(* in the order of the line and ended with a status, a restart ends what   *)
(* was going on, and no status changes but by the task itself or by        *)
(* getting lost with the record, until the task writes it again.           *)
(***************************************************************************)
THEOREM RunsKeepTaskService == Spec => KeepsTaskService
<1> DEFINE Typed == Status \in [Tasks -> Service!Words]
<1>1. Init => Service!Init
  <2> SUFFICES ASSUME Init PROVE Service!Init
    OBVIOUS
  <2>1. Phase = [t \in Tasks |-> "out"]
    BY Phases DEF Init, Phase
  <2>2. Status = [t \in Tasks |-> "none"]
    BY RecordTypes DEF Init, Status, Durable, NoDocument
  <2> QED BY <2>1, <2>2 DEF Init, Service!Init
<1>2. TypeOK => Typed
  BY StatusType
<1>3. TypeOK /\ WaitsOK /\ OnDisk /\ RunsAreSerialised /\ Typed' /\ [Next]_vars
        => [Service!Next]_Service!vars
  <2> SUFFICES ASSUME TypeOK, WaitsOK, OnDisk, RunsAreSerialised, Typed', [Next]_vars
               PROVE  Service!Next \/ UNCHANGED Service!vars
    OBVIOUS
  <2>1. ASSUME NEW t \in Tasks, StartFresh(t) \/ StartNamed(t) PROVE Service!Next
    BY <2>1, SubmitMaps DEF Service!Next
  <2>2. CASE WarmRestart \/ ColdRestart
    BY <2>2, RestartMaps DEF Service!Next
  <2> QED BY <2>1, <2>2, AdvanceMaps, BackgroundMaps, NextKinds
<1> QED BY <1>1, <1>2, <1>3, TypeInvariance, DiskInvariance, Serialised, PTL
        DEF Spec, KeepsTaskService
-----------------------------------------------------------------------------
(***************************************************************************)
(* The line before the lock: the queue holds the runs that wait, each of   *)
(* them once.                                                              *)
(***************************************************************************)
WaitersInLine ==
    /\ \A i \in 1..Len(queue) : pc[queue[i]] = "queued"
    /\ \A t \in Tasks : pc[t] = "queued" => \E i \in 1..Len(queue) : queue[i] = t
    /\ \A i, j \in 1..Len(queue) : queue[i] = queue[j] => i = j

\* A run that waits has somebody to wait for, or the first in line may go on.
SomebodyMayGoOn ==
    \A t \in Tasks : pc[t] = "queued" =>
        \/ holder \in Tasks /\ pc[holder] \in Inside
        \/ holder = NoTask /\ queue # <<>> /\ pc[Head(queue)] = "queued"

\* Nobody falls back in the line.
NobodyFallsBack ==
    \A i \in 1..Len(queue) : pc'[queue[i]] = "queued" => \E j \in 1..i : queue'[j] = queue[i]

\* The line when a run joins it, when the first leaves it, and otherwise.
LEMMA Joins ==
    ASSUME NEW t \in Tasks, TypeOK, WaitersInLine, Enqueue(t)
    PROVE  WaitersInLine' /\ NobodyFallsBack
<1>1. /\ queue' = Append(queue, t)
      /\ pc[t] = "opening" /\ pc' = [pc EXCEPT ![t] = "queued"]
  BY DEF Enqueue, GoTo
<1>2. queue \in Seq(Tasks) /\ pc \in [Tasks -> Stages]
  BY DEF TypeOK
<1>3. /\ Len(queue') = Len(queue) + 1
      /\ \A i \in 1..Len(queue) : queue[i] \in Tasks /\ queue'[i] = queue[i]
      /\ queue'[Len(queue) + 1] = t
  BY <1>1, <1>2
<1>4. \A i \in 1..Len(queue) : queue[i] # t
  BY <1>1 DEF WaitersInLine
<1>5. Len(queue) \in Nat
  BY <1>2
<1>6. \A i \in 1..Len(queue') : pc'[queue'[i]] = "queued"
  <2>1. ASSUME NEW i \in 1..Len(queue'), i # Len(queue) + 1
        PROVE  pc'[queue'[i]] = "queued"
    <3>1. i \in 1..Len(queue)
      BY <1>3, <1>5, <2>1
    <3> QED BY <1>1, <1>2, <1>3, <3>1 DEF WaitersInLine
  <2> QED BY <1>1, <1>2, <1>3, <2>1
<1>7. \A u \in Tasks : pc'[u] = "queued" => \E i \in 1..Len(queue') : queue'[i] = u
  <2>1. ASSUME NEW u \in Tasks, pc'[u] = "queued", u # t
        PROVE  \E i \in 1..Len(queue') : queue'[i] = u
    <3>1. PICK i \in 1..Len(queue) : queue[i] = u
      BY <1>1, <1>2, <2>1 DEF WaitersInLine
    <3>2. i \in 1..Len(queue')
      BY <1>3, <1>5
    <3> QED BY <1>3, <3>1, <3>2
  <2>2. Len(queue) + 1 \in 1..Len(queue')
    BY <1>3, <1>5
  <2> QED BY <1>3, <2>1, <2>2
<1>8. \A i, j \in 1..Len(queue') : queue'[i] = queue'[j] => i = j
  <2> SUFFICES ASSUME NEW i \in 1..Len(queue'), NEW j \in 1..Len(queue'),
                      queue'[i] = queue'[j]
               PROVE  i = j
    OBVIOUS
  <2>1. (i \in 1..Len(queue) \/ i = Len(queue) + 1) /\ (j \in 1..Len(queue) \/ j = Len(queue) + 1)
    BY <1>3, <1>5
  <2> QED BY <1>3, <1>4, <2>1 DEF WaitersInLine
<1>9. NobodyFallsBack
  <2>1. \A i \in 1..Len(queue) : i \in 1..i
    BY <1>5
  <2> QED BY <1>3, <2>1 DEF NobodyFallsBack
<1> QED BY <1>6, <1>7, <1>8, <1>9 DEF WaitersInLine

LEMMA Leaves ==
    ASSUME NEW t \in Tasks, TypeOK, WaitersInLine, Acquire(t)
    PROVE  WaitersInLine' /\ NobodyFallsBack
<1>1. /\ queue # <<>> /\ Head(queue) = t /\ queue' = Tail(queue)
      /\ pc[t] = "queued" /\ pc' = [pc EXCEPT ![t] = "preparing"]
  BY DEF Acquire, GoTo
<1>2. queue \in Seq(Tasks) /\ pc \in [Tasks -> Stages]
  BY DEF TypeOK
<1>3. /\ Len(queue) \in Nat \ {0}
      /\ Len(queue') = Len(queue) - 1
      /\ \A i \in 1..Len(queue') : queue'[i] = queue[i + 1]
      /\ queue[1] = t
      /\ \A i \in 1..Len(queue) : queue[i] \in Tasks
  BY <1>1, <1>2
<1>4. \A i \in 1..Len(queue) : queue[i] = t => i = 1
  BY <1>3 DEF WaitersInLine
<1>5. \A i \in 1..Len(queue') : i + 1 \in 1..Len(queue) /\ i + 1 # 1
  BY <1>3
<1>6. \A i \in 1..Len(queue') : pc'[queue'[i]] = "queued"
  BY <1>1, <1>2, <1>3, <1>4, <1>5 DEF WaitersInLine
<1>7. \A i \in 1..Len(queue) : i # 1 => i - 1 \in 1..Len(queue') /\ (i - 1) + 1 = i
  BY <1>3
<1>8. \A u \in Tasks : pc'[u] = "queued" => \E i \in 1..Len(queue') : queue'[i] = u
  <2> SUFFICES ASSUME NEW u \in Tasks, pc'[u] = "queued"
               PROVE  \E i \in 1..Len(queue') : queue'[i] = u
    OBVIOUS
  <2>1. pc[u] = "queued" /\ u # t
    BY <1>1, <1>2
  <2>2. PICK i \in 1..Len(queue) : queue[i] = u
    BY <2>1 DEF WaitersInLine
  <2>3. i # 1
    BY <1>3, <2>1, <2>2
  <2>4. queue'[i - 1] = u /\ i - 1 \in 1..Len(queue')
    BY <1>3, <1>7, <2>2, <2>3
  <2> QED BY <2>4
<1>9. \A i, j \in 1..Len(queue') : queue'[i] = queue'[j] => i = j
  <2> SUFFICES ASSUME NEW i \in 1..Len(queue'), NEW j \in 1..Len(queue'),
                      queue'[i] = queue'[j]
               PROVE  i = j
    OBVIOUS
  <2>1. i + 1 = j + 1
    BY <1>3, <1>5 DEF WaitersInLine
  <2> QED BY <1>3, <2>1
<1>10. NobodyFallsBack
  <2> SUFFICES ASSUME NEW i \in 1..Len(queue), pc'[queue[i]] = "queued"
               PROVE  \E j \in 1..i : queue'[j] = queue[i]
    BY DEF NobodyFallsBack
  <2>1. i # 1
    BY <1>1, <1>2, <1>3
  <2>2. i - 1 \in 1..i
    BY <1>3, <2>1
  <2> QED BY <1>3, <1>7, <2>1, <2>2
<1> QED BY <1>6, <1>8, <1>9, <1>10 DEF WaitersInLine

LEMMA LineKept ==
    ASSUME TypeOK, WaitersInLine, UNCHANGED queue,
           \A t \in Tasks : pc'[t] = "queued" <=> pc[t] = "queued"
    PROVE  WaitersInLine' /\ NobodyFallsBack
<1>1. Len(queue) \in Nat /\ \A i \in 1..Len(queue) : queue[i] \in Tasks /\ i \in 1..i
  BY DEF TypeOK
<1>2. WaitersInLine'
  BY <1>1 DEF WaitersInLine
<1>3. NobodyFallsBack
  BY <1>1 DEF NobodyFallsBack
<1> QED BY <1>2, <1>3

LEMMA ComesInLine ==
    ASSUME NEW t \in Tasks, TypeOK, Comes(t), pc[t] # "queued", UNCHANGED queue
    PROVE  UNCHANGED queue /\ \A u \in Tasks : pc'[u] = "queued" <=> pc[u] = "queued"
<1>1. PICK to \in {"looking", "loading", "opening", "raised"} : pc' = [pc EXCEPT ![t] = to]
  BY ComesType
<1> QED BY <1>1 DEF TypeOK

LEMMA AdvanceInLine ==
    ASSUME NEW t \in Tasks, TypeOK, WaitsOK, WaitersInLine, Advance(t), ~ Enqueue(t), ~ Acquire(t)
    PROVE  UNCHANGED queue /\ \A u \in Tasks : pc'[u] = "queued" <=> pc[u] = "queued"
<1>1. CASE Prepare(t) \/ CallModel(t) \/ EmptyAnswer(t) \/ ToolTurn(t) \/ TurnDone(t) \/ Report(t)
  BY <1>1 DEF Prepare, CallModel, EmptyAnswer, ToolTurn, TurnDone, Report, GoTo, TypeOK
<1>2. CASE pc[t] \in Inside /\ \E v \in Verdicts : Conclude(t, v)
  BY <1>2 DEF Conclude, Inside, TypeOK
<1>3. CASE CallTool(t)
  BY <1>3, CallToolFacts DEF ToolFrame
<1>4. CASE LookedUp(t) \/ Loaded(t)
  BY <1>4, LookedUpFacts, LoadedFacts, ComesInLine DEF WaitsOK, LookedUp, Loaded
<1> QED BY <1>1, <1>2, <1>3, <1>4, AdvanceKinds

LEMMA NextInLine ==
    ASSUME TypeOK, WaitsOK, WaitersInLine, [Next]_vars
    PROVE  WaitersInLine' /\ NobodyFallsBack
<1>1. ASSUME NEW t \in Tasks, StartFresh(t) \/ StartNamed(t)
      PROVE  WaitersInLine' /\ NobodyFallsBack
  <2>1. Comes(t) /\ pc[t] # "queued" /\ UNCHANGED queue
    BY <1>1, StartFacts DEF Over
  <2> QED BY <2>1, ComesInLine, LineKept
<1>2. ASSUME NEW t \in Tasks, Advance(t)
      PROVE  WaitersInLine' /\ NobodyFallsBack
  BY <1>2, Joins, Leaves, LineKept, AdvanceInLine
<1>3. CASE Fetch \/ LateLands \/ AskToRead \/ Read \/ Tick \/ UNCHANGED vars
  <2>1. UNCHANGED <<pc, queue>>
    BY <1>3, BackgroundFacts
  <2> QED BY <2>1, LineKept
<1>4. CASE WarmRestart \/ ColdRestart
  <2>1. queue' = <<>> /\ \A t \in Tasks : pc'[t] # "queued"
    BY <1>4 DEF WarmRestart, ColdRestart, Restart, Live
  <2>2. \A i \in 1..Len(queue) : queue[i] \in Tasks
    BY DEF TypeOK
  <2> QED BY <2>1, <2>2 DEF WaitersInLine, NobodyFallsBack
<1> QED BY <1>1, <1>2, <1>3, <1>4, NextKinds

(***************************************************************************)
(* _run_lock strands nobody (loop.py:224): as long as a run waits, either  *)
(* a run is between its first and its last step and will let go of it, or  *)
(* the lock is free and the first of the line takes it.  The queue holds   *)
(* the waiting runs and no other, through every failure and restart.       *)
(***************************************************************************)
THEOREM NobodyIsStranded == Spec => [](WaitersInLine /\ SomebodyMayGoOn)
<1>1. Init => WaitersInLine
  BY DEF Init, WaitersInLine
<1>2. TypeOK /\ WaitsOK /\ WaitersInLine /\ [Next]_vars => WaitersInLine'
  BY NextInLine
<1>3. TypeOK /\ RunsAreSerialised /\ WaitersInLine => SomebodyMayGoOn
  <2> SUFFICES ASSUME TypeOK, RunsAreSerialised, WaitersInLine,
                      NEW t \in Tasks, pc[t] = "queued"
               PROVE  \/ holder \in Tasks /\ pc[holder] \in Inside
                      \/ holder = NoTask /\ queue # <<>> /\ pc[Head(queue)] = "queued"
    BY DEF SomebodyMayGoOn
  <2>1. CASE holder # NoTask
    BY <2>1 DEF TypeOK, RunsAreSerialised
  <2>2. CASE holder = NoTask
    <3>1. PICK i \in 1..Len(queue) : queue[i] = t
      BY DEF WaitersInLine
    <3>2. queue # <<>> /\ 1 \in 1..Len(queue) /\ Head(queue) = queue[1]
      BY <3>1 DEF TypeOK
    <3> QED BY <2>2, <3>2 DEF WaitersInLine
  <2> QED BY <2>1, <2>2
<1> QED BY <1>1, <1>2, <1>3, TypeInvariance, Serialised, PTL DEF Spec

(***************************************************************************)
(* The lock is handed over in the order in which it was asked for: while a *)
(* run waits, its place in the line never gets worse.                      *)
(***************************************************************************)
THEOREM FirstComeFirstServed == Spec => [][NobodyFallsBack]_vars
<1>1. TypeOK /\ WaitsOK /\ WaitersInLine /\ [Next]_vars => [NobodyFallsBack]_vars
  BY NextInLine
<1>2. Spec => []WaitersInLine
  BY NobodyIsStranded, PTL
<1> QED BY <1>1, <1>2, TypeInvariance, PTL DEF Spec

-----------------------------------------------------------------------------
\* The most steps that one turn of the loop takes: the budgets are checked, the
\* model answers, at most MaxCalls calls are made and their outcomes are read.
TurnSteps == MaxCalls + 3

\* The steps that a run has left.
StepsLeft(t) ==
    LET turns == (MaxSteps - step[t]) * TurnSteps
    IN  IF pc[t] = "looking" THEN MaxSteps * TurnSteps + 7
        ELSE IF pc[t] = "loading" THEN MaxSteps * TurnSteps + 6
        ELSE IF pc[t] = "opening" THEN MaxSteps * TurnSteps + 5
        ELSE IF pc[t] = "queued" THEN MaxSteps * TurnSteps + 4
        ELSE IF pc[t] = "preparing" THEN MaxSteps * TurnSteps + 3
        ELSE IF pc[t] = "stepping" THEN turns + 2
        ELSE IF pc[t] = "model" THEN turns + TurnSteps + 1
        ELSE IF pc[t] = "tools" THEN turns + turn[t].left + 3
        ELSE IF pc[t] = "reporting" THEN 1
        ELSE 0

\* A run's own steps lower it, and those of others never raise it.
RunsDwindle ==
    \A t \in Tasks : pc[t] \in Live =>
        /\ StepsLeft(t) \in Nat /\ StepsLeft(t)' \in Nat
        /\ StepsLeft(t)' <= StepsLeft(t)
        /\ Advance(t) => StepsLeft(t)' < StepsLeft(t)

\* Turns add up.
LEMMA TurnsAddUp ==
    ASSUME NEW s \in 0..MaxSteps
    PROVE  /\ (MaxSteps - s) * TurnSteps \in Nat
           /\ (MaxSteps - s) * TurnSteps <= MaxSteps * TurnSteps
           /\ MaxSteps * TurnSteps \in Nat
           /\ s < MaxSteps => (MaxSteps - (s + 1)) * TurnSteps = (MaxSteps - s) * TurnSteps - TurnSteps
           /\ TurnSteps = MaxCalls + 3 /\ MaxCalls \in Nat
<1>1. MaxSteps \in Nat /\ MaxCalls \in Nat /\ TurnSteps \in Nat /\ TurnSteps = MaxCalls + 3
  BY ConstantsAssumption DEF TurnSteps
<1> DEFINE l == MaxSteps - s
<1>2. l \in Nat /\ MaxSteps = l + s /\ s \in Nat /\ (s < MaxSteps => MaxSteps - (s + 1) = l - 1)
  BY <1>1
<1>3. \A a, b, c \in Nat : /\ (a + b) * c = a * c + b * c
                           /\ a * c \in Nat
                           /\ (a - 1) * c = a * c - c
  OBVIOUS
<1> HIDE DEF l
<1>4. /\ l * TurnSteps \in Nat /\ s * TurnSteps \in Nat
      /\ MaxSteps * TurnSteps = l * TurnSteps + s * TurnSteps
      /\ (l - 1) * TurnSteps = l * TurnSteps - TurnSteps
  BY <1>1, <1>2, <1>3
<1>5. MaxSteps * TurnSteps \in Nat /\ l * TurnSteps <= MaxSteps * TurnSteps
  BY <1>4
<1> QED BY <1>1, <1>2, <1>4, <1>5 DEF l

\* A run whose own stage, step and turn do not change has as much left as before.
LEMMA LeftKept ==
    ASSUME NEW t \in Tasks, pc'[t] = pc[t], step'[t] = step[t], turn'[t] = turn[t]
    PROVE  StepsLeft(t)' = StepsLeft(t)
BY DEF StepsLeft

\* What StepsLeft says at each stage.
LEMMA LeftAt ==
    ASSUME NEW t \in Tasks
    PROVE  LET turns == (MaxSteps - step[t]) * TurnSteps
           IN  /\ pc[t] = "looking" => StepsLeft(t) = MaxSteps * TurnSteps + 7
               /\ pc[t] = "loading" => StepsLeft(t) = MaxSteps * TurnSteps + 6
               /\ pc[t] = "opening" => StepsLeft(t) = MaxSteps * TurnSteps + 5
               /\ pc[t] = "queued" => StepsLeft(t) = MaxSteps * TurnSteps + 4
               /\ pc[t] = "preparing" => StepsLeft(t) = MaxSteps * TurnSteps + 3
               /\ pc[t] = "stepping" => StepsLeft(t) = turns + 2
               /\ pc[t] = "model" => StepsLeft(t) = turns + TurnSteps + 1
               /\ pc[t] = "tools" => StepsLeft(t) = turns + turn[t].left + 3
               /\ pc[t] = "reporting" => StepsLeft(t) = 1
               /\ pc[t] \in {"idle"} \union Over => StepsLeft(t) = 0
BY DEF StepsLeft, Over

LEMMA LeftIsNatural ==
    ASSUME NEW t \in Tasks, TypeOK
    PROVE  /\ StepsLeft(t) \in Nat
           /\ pc[t] \in Inside => StepsLeft(t) > 1
<1>1. step[t] \in 0..MaxSteps /\ turn[t].left \in Nat /\ pc[t] \in Stages
  BY DEF TypeOK, Turns
<1> DEFINE turns == (MaxSteps - step[t]) * TurnSteps
           all == MaxSteps * TurnSteps
<1>2. turns \in Nat /\ all \in Nat /\ TurnSteps \in Nat \ {0}
  BY <1>1, TurnsAddUp
<1>3. /\ pc[t] = "looking" => StepsLeft(t) = all + 7
      /\ pc[t] = "loading" => StepsLeft(t) = all + 6
      /\ pc[t] = "opening" => StepsLeft(t) = all + 5
      /\ pc[t] = "queued" => StepsLeft(t) = all + 4
      /\ pc[t] = "preparing" => StepsLeft(t) = all + 3
      /\ pc[t] = "stepping" => StepsLeft(t) = turns + 2
      /\ pc[t] = "model" => StepsLeft(t) = turns + TurnSteps + 1
      /\ pc[t] = "tools" => StepsLeft(t) = turns + turn[t].left + 3
      /\ pc[t] = "reporting" => StepsLeft(t) = 1
      /\ pc[t] \in {"idle"} \union Over => StepsLeft(t) = 0
  BY LeftAt
<1>4. \/ pc[t] \in {"opening", "queued", "preparing", "stepping"}
      \/ pc[t] \in {"model", "tools", "reporting"}
      \/ pc[t] \in {"looking", "loading"}
      \/ pc[t] \in {"idle"} \union Over
  BY <1>1 DEF Stages, Live, Loading, Inside, Over
<1> HIDE DEF turns, all
<1>5. CASE pc[t] \in {"opening", "queued", "preparing", "stepping"}
  <2>1. \/ StepsLeft(t) = all + 5 \/ StepsLeft(t) = all + 4
        \/ StepsLeft(t) = all + 3 \/ StepsLeft(t) = turns + 2
    BY <1>3, <1>5
  <2>2. StepsLeft(t) \in Nat
    BY <1>2, <2>1
  <2>3. StepsLeft(t) > 1
    BY <1>2, <2>1
  <2> QED BY <2>2, <2>3
<1>6. CASE pc[t] \in {"model", "tools", "reporting"}
  <2>1. CASE pc[t] = "reporting"
    BY <1>3, <2>1 DEF Inside
  <2>2. CASE pc[t] # "reporting"
    <3>1. StepsLeft(t) = turns + TurnSteps + 1 \/ StepsLeft(t) = turns + turn[t].left + 3
      BY <1>3, <1>6, <2>2
    <3>2. StepsLeft(t) \in Nat
      BY <1>1, <1>2, <3>1
    <3>3. StepsLeft(t) > 1
      BY <1>1, <1>2, <3>1
    <3> QED BY <3>2, <3>3
  <2> QED BY <2>1, <2>2
<1>7. CASE pc[t] \in {"idle"} \union Over
  <2>1. pc[t] \notin Inside
    BY <1>7 DEF Inside, Over
  <2> QED BY <1>3, <1>7, <2>1
<1>8. CASE pc[t] \in {"looking", "loading"}
  <2>1. StepsLeft(t) = all + 7 \/ StepsLeft(t) = all + 6
    BY <1>3, <1>8
  <2>2. StepsLeft(t) \in Nat
    BY <1>2, <2>1
  <2> QED BY <1>8, <2>2 DEF Inside
<1> QED BY <1>4, <1>5, <1>6, <1>7, <1>8

\* Where a run goes when it starts, and when it comes back from a load.
LEMMA Arrivals ==
    ASSUME NEW t \in Tasks,
           StartFresh(t) \/ StartNamed(t) \/ LookedUp(t) \/ Loaded(t)
    PROVE  /\ UNCHANGED <<step, turn>>
           /\ \E to \in {"looking", "loading", "opening", "raised"} : pc' = [pc EXCEPT ![t] = to]
           /\ LookedUp(t) => /\ pc[t] = "looking"
                             /\ \E to \in {"loading", "opening", "raised"} : pc' = [pc EXCEPT ![t] = to]
           /\ Loaded(t) => /\ pc[t] = "loading"
                           /\ \E to \in {"opening", "raised"} : pc' = [pc EXCEPT ![t] = to]
<1>1. ASSUME NEW r, NEW doc, OpeningSave(t, r, doc)
      PROVE  \E to \in {"opening", "raised"} : pc' = [pc EXCEPT ![t] = to]
  BY <1>1 DEF OpeningSave
<1>2. ASSUME NEW r, Open(t, r)
      PROVE  \E to \in {"loading", "opening", "raised"} : pc' = [pc EXCEPT ![t] = to]
  <2>1. CASE \E x, doc : OpeningSave(t, x, doc)
    BY <1>1, <2>1
  <2> QED BY <1>2, <2>1 DEF Open
<1>3. CASE StartFresh(t)
  <2>1. UNCHANGED <<step, turn>> /\ Open(t, FreshRecord) /\ pc[t] = "idle"
    BY <1>3 DEF StartFresh
  <2> QED BY <1>2, <2>1 DEF LookedUp, Loaded
<1>4. CASE StartNamed(t)
  <2>1. UNCHANGED <<step, turn>> /\ pc[t] \in Over \union {"idle"}
        /\ (pc' = [pc EXCEPT ![t] = "looking"] \/ Open(t, NamedRecord(t, stored)))
    BY <1>4 DEF StartNamed
  <2> QED BY <1>2, <2>1 DEF LookedUp, Loaded, Over
<1>5. CASE LookedUp(t)
  <2>1. /\ UNCHANGED <<step, turn>> /\ pc[t] = "looking"
        /\ \E doc \in Answers : \/ OpeningSave(t, Touched(NamedRecord(t, doc)), doc)
                                \/ Open(t, NamedRecord(t, doc))
    BY <1>5 DEF LookedUp
  <2>2. \E to \in {"loading", "opening", "raised"} : pc' = [pc EXCEPT ![t] = to]
    BY <1>1, <1>2, <2>1
  <2> QED BY <2>1, <2>2 DEF Loaded
<1>6. CASE Loaded(t)
  <2>1. /\ UNCHANGED <<step, turn>> /\ pc[t] = "loading"
        /\ \E doc \in Answers : OpeningSave(t, record[t], doc)
    BY <1>6 DEF Loaded
  <2> QED BY <1>1, <2>1 DEF LookedUp
<1> QED BY <1>3, <1>4, <1>5, <1>6

\* Every step of a run by itself takes one of those that it has left.
LEMMA AdvanceTakesOne ==
    ASSUME NEW t \in Tasks, TypeOK, TypeOK', Advance(t)
    PROVE  /\ StepsLeft(t)' < StepsLeft(t)
           /\ \A u \in Tasks \ {t} : StepsLeft(u)' = StepsLeft(u)
<1>1. step[t] \in 0..MaxSteps /\ turn[t].left \in 0..MaxCalls /\ pc[t] \in Stages
  BY DEF TypeOK, Turns
<1> DEFINE turns == (MaxSteps - step[t]) * TurnSteps
           all == MaxSteps * TurnSteps
           new == StepsLeft(t)'
<1>2. /\ turns \in Nat /\ all \in Nat /\ turns <= all
      /\ TurnSteps = MaxCalls + 3 /\ MaxCalls \in Nat
  BY <1>1, TurnsAddUp
<1>3. /\ pc[t] = "looking" => StepsLeft(t) = all + 7
      /\ pc[t] = "loading" => StepsLeft(t) = all + 6
      /\ pc[t] = "opening" => StepsLeft(t) = all + 5
      /\ pc[t] = "queued" => StepsLeft(t) = all + 4
      /\ pc[t] = "preparing" => StepsLeft(t) = all + 3
      /\ pc[t] = "stepping" => StepsLeft(t) = turns + 2
      /\ pc[t] = "model" => StepsLeft(t) = turns + TurnSteps + 1
      /\ pc[t] = "tools" => StepsLeft(t) = turns + turn[t].left + 3
      /\ pc[t] = "reporting" => StepsLeft(t) = 1
  BY LeftAt
<1>4. ASSUME step'[t] = step[t]
      PROVE  /\ pc'[t] = "queued" => new = all + 4
             /\ pc'[t] = "preparing" => new = all + 3
             /\ pc'[t] = "stepping" => new = turns + 2
             /\ pc'[t] = "tools" => new = turns + turn'[t].left + 3
  BY <1>4 DEF StepsLeft
<1>5. ASSUME UNCHANGED <<step, turn>>, NEW to \in Stages, pc' = [pc EXCEPT ![t] = to]
      PROVE  pc'[t] = to /\ \A u \in Tasks \ {t} : StepsLeft(u)' = StepsLeft(u)
  BY <1>5, LeftKept DEF TypeOK
<1>6. CASE Enqueue(t) \/ Acquire(t) \/ Prepare(t) \/ EmptyAnswer(t) \/ TurnDone(t) \/ Report(t)
  <2>1. PICK to \in Stages : pc' = [pc EXCEPT ![t] = to]
    BY <1>6 DEF Enqueue, Acquire, Prepare, EmptyAnswer, TurnDone, Report, GoTo,
                Stages, Live, Inside, Over
  <2>2. UNCHANGED <<step, turn>>
    BY <1>6 DEF Enqueue, Acquire, Prepare, EmptyAnswer, TurnDone, Report
  <2>3. \/ pc[t] = "opening" /\ pc'[t] = "queued"
        \/ pc[t] = "queued" /\ pc'[t] = "preparing"
        \/ pc[t] = "preparing" /\ pc'[t] = "stepping"
        \/ pc[t] = "model" /\ pc'[t] = "stepping"
        \/ pc[t] = "tools" /\ pc'[t] = "stepping"
        \/ pc[t] = "reporting" /\ pc'[t] = "done"
    BY <1>6 DEF Enqueue, Acquire, Prepare, EmptyAnswer, TurnDone, Report, GoTo, TypeOK
  <2>4. pc'[t] = "done" => new = 0
    BY DEF StepsLeft
  <2>5. new < StepsLeft(t)
    <3> HIDE DEF turns, all, new
    <3> QED BY <1>1, <1>2, <1>3, <1>4, <2>2, <2>3, <2>4
  <2> QED BY <1>5, <2>1, <2>2, <2>5
<1>7. CASE CallModel(t)
  <2>1. /\ pc[t] = "stepping" /\ pc'[t] = "model" /\ step[t] < MaxSteps
        /\ step'[t] = step[t] + 1 /\ turn' = turn
        /\ \A u \in Tasks \ {t} : pc'[u] = pc[u] /\ step'[u] = step[u]
    BY <1>7 DEF CallModel, GoTo, TypeOK
  <2>2. new = (MaxSteps - (step[t] + 1)) * TurnSteps + TurnSteps + 1
    BY <2>1 DEF StepsLeft
  <2>3. (MaxSteps - (step[t] + 1)) * TurnSteps = turns - TurnSteps
    BY <1>1, <2>1, TurnsAddUp
  <2>4. new < StepsLeft(t)
    <3> HIDE DEF turns, all, new
    <3> QED BY <1>2, <1>3, <2>1, <2>2, <2>3
  <2> QED BY <2>1, <2>4, LeftKept
<1>8. CASE ToolTurn(t)
  <2>1. /\ pc[t] = "model" /\ pc'[t] = "tools" /\ step' = step
        /\ \A u \in Tasks \ {t} : pc'[u] = pc[u] /\ turn'[u] = turn[u]
    BY <1>8 DEF ToolTurn, GoTo, TypeOK
  <2>2. turn'[t].left \in 1..MaxCalls
    BY <1>8 DEF ToolTurn, TypeOK
  <2>3. new < StepsLeft(t)
    <3> HIDE DEF turns, all, new
    <3> QED BY <1>2, <1>3, <1>4, <2>1, <2>2
  <2> QED BY <2>1, <2>3, LeftKept
<1>9. CASE CallTool(t)
  <2>1. /\ pc[t] = "tools" /\ turn[t].left > 0 /\ pc' = pc /\ step' = step
        /\ turn[t] \in Turns
        /\ \/ turn' = [turn EXCEPT ![t].left = @ - 1]
           \/ turn' = [turn EXCEPT ![t] = [left |-> @.left - 1, refused |-> TRUE]]
    BY <1>9, CallToolFacts DEF ToolFrame, Calling, TypeOK
  <2>2. turn'[t].left = turn[t].left - 1 /\ \A u \in Tasks \ {t} : turn'[u] = turn[u]
    <3>1. turn \in [Tasks -> Turns]
      BY DEF TypeOK
    <3>2. CASE turn' = [turn EXCEPT ![t].left = @ - 1]
      BY <2>1, <3>1, <3>2 DEF Turns
    <3>3. CASE turn' = [turn EXCEPT ![t] = [left |-> @.left - 1, refused |-> TRUE]]
      BY <2>1, <3>1, <3>3 DEF Turns
    <3> QED BY <2>1, <3>2, <3>3
  <2>3. new < StepsLeft(t)
    <3> HIDE DEF turns, all, new
    <3> QED BY <1>1, <1>2, <1>3, <1>4, <2>1, <2>2
  <2> QED BY <2>1, <2>2, <2>3, LeftKept
<1>10. CASE pc[t] \in Inside /\ \E v \in Verdicts : Conclude(t, v)
  <2>2. /\ pc'[t] \in {"reporting", "raised"}
        /\ \A u \in Tasks \ {t} : pc'[u] = pc[u] /\ step'[u] = step[u] /\ turn'[u] = turn[u]
    BY <1>10 DEF Conclude, TypeOK
  <2>3. new = 0 \/ new = 1
    BY <2>2 DEF StepsLeft
  <2>4. StepsLeft(t) \in Nat /\ StepsLeft(t) > 1
    BY <1>10, LeftIsNatural
  <2>5. new < StepsLeft(t)
    <3> HIDE DEF new
    <3> QED BY <2>3, <2>4
  <2> QED BY <2>2, <2>5, LeftKept
<1>11. CASE LookedUp(t) \/ Loaded(t)
  <2>1. UNCHANGED <<step, turn>>
    BY <1>11, Arrivals
  <2>2. PICK to \in {"loading", "opening", "raised"} : pc' = [pc EXCEPT ![t] = to]
    BY <1>11, Arrivals
  <2>3. pc'[t] = to /\ \A u \in Tasks \ {t} : pc'[u] = pc[u]
    BY <2>2 DEF TypeOK
  <2>4. /\ to = "loading" => new = all + 6
        /\ to = "opening" => new = all + 5
        /\ to = "raised" => new = 0
    BY <2>1, <2>3 DEF StepsLeft
  <2>5. \/ pc[t] = "looking"
        \/ pc[t] = "loading" /\ to # "loading"
    <3>1. CASE Loaded(t)
      <4>1. PICK other \in {"opening", "raised"} : pc' = [pc EXCEPT ![t] = other]
        BY <3>1, Arrivals
      <4>2. to = other
        BY <2>3, <4>1 DEF TypeOK
      <4> QED BY <3>1, <4>2, Arrivals
    <3> QED BY <1>11, <3>1, Arrivals
  <2>6. new < StepsLeft(t)
    <3> HIDE DEF turns, all, new
    <3>1. CASE pc[t] = "looking"
      BY <1>2, <1>3, <2>2, <2>4, <3>1
    <3>2. CASE pc[t] = "loading" /\ to # "loading"
      BY <1>2, <1>3, <2>2, <2>4, <3>2
    <3> QED BY <2>5, <3>1, <3>2
  <2> QED BY <2>1, <2>3, <2>6, LeftKept
<1> QED BY <1>6, <1>7, <1>8, <1>9, <1>10, <1>11, AdvanceKinds

(***************************************************************************)
(* Every run runs out, whatever the model answers and the tools do: once   *)
(* it has started, each step that the event loop takes for it lowers a     *)
(* number that no step of another run, of the clock or of the process ever *)
(* raises (loop.py:370).                                                   *)
(***************************************************************************)
THEOREM RunsRunOut == Spec => [][RunsDwindle]_vars
<1> DEFINE Natural == \A t \in Tasks : StepsLeft(t) \in Nat
<1>1. TypeOK => Natural
  BY LeftIsNatural
<1>2. ASSUME TypeOK, TypeOK', Natural, Natural', Next, NEW t \in Tasks, pc[t] \in Live
      PROVE  /\ StepsLeft(t)' <= StepsLeft(t)
             /\ Advance(t) => StepsLeft(t)' < StepsLeft(t)
  <2>1. StepsLeft(t) \in Nat /\ StepsLeft(t)' \in Nat
    BY <1>2
  <2>2. ASSUME NEW u \in Tasks, Advance(u)
        PROVE  /\ u = t => StepsLeft(t)' < StepsLeft(t)
               /\ StepsLeft(t)' <= StepsLeft(t)
    <3>1. CASE u = t
      BY <1>2, <2>1, <2>2, <3>1, AdvanceTakesOne
    <3>2. CASE u # t
      <4>1. StepsLeft(t)' = StepsLeft(t)
        BY <1>2, <2>2, <3>2, AdvanceTakesOne
      <4> QED BY <2>1, <3>2, <4>1
    <3> QED BY <3>1, <3>2
  <2>3. ASSUME NEW u \in Tasks, StartFresh(u) \/ StartNamed(u)
        PROVE  StepsLeft(t)' = StepsLeft(t)
    <3>1. u # t
      BY <1>2, <2>3, StartFacts DEF Live, Inside, Loading, Over
    <3>2. PICK to : pc' = [pc EXCEPT ![u] = to]
      BY <2>3, Arrivals
    <3>3. pc'[t] = pc[t] /\ step'[t] = step[t] /\ turn'[t] = turn[t]
      BY <1>2, <2>3, <3>1, <3>2, Arrivals DEF TypeOK
    <3> QED BY <3>3, LeftKept
  <2>4. Fetch \/ LateLands \/ AskToRead \/ Read \/ Tick => StepsLeft(t)' = StepsLeft(t)
    BY <1>2, BackgroundFacts, LeftKept
  <2>5. CASE WarmRestart \/ ColdRestart
    <3>1. pc'[t] = "lost"
      BY <1>2, <2>5 DEF WarmRestart, ColdRestart, Restart
    <3>2. StepsLeft(t)' = 0
      BY <3>1 DEF StepsLeft
    <3> QED BY <2>1, <2>2, <3>2
  <2>6. StepsLeft(t)' <= StepsLeft(t)
    <3>1. CASE StepsLeft(t)' = StepsLeft(t)
      BY <2>1, <3>1
    <3> QED BY <1>2, <2>2, <2>3, <2>4, <2>5, <3>1 DEF Next
  <2> QED BY <2>2, <2>6
<1>3. TypeOK /\ TypeOK' /\ Natural /\ Natural' /\ [Next]_vars => [RunsDwindle]_vars
  BY <1>2 DEF RunsDwindle
<1> QED BY <1>1, <1>3, TypeCorrect, PTL DEF Spec

=============================================================================
