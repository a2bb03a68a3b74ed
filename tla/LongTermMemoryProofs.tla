------------------------ MODULE LongTermMemoryProofs ------------------------
(***************************************************************************)
(* What the long-term memory guarantees for any texts, importances, cap    *)
(* and number of concurrent calls: no text twice, nothing of top           *)
(* importance lost while there is room, nothing forgotten comes back.      *)
(***************************************************************************)
EXTENDS LongTermMemory, FiniteSetTheorems, TLAPS

\* A document that the memory may keep.
Good(d) == d \in Docs /\ IsFiniteSet(d) /\ Small(d) /\ Distinct(d)

\* The documents anywhere are good ones.
Sound ==
    /\ Good(cache)
    /\ \A d \in disk \union gist : Good(d)
    /\ \A c \in Calls : \A d \in sending[c] : Good(d)

\* What a restart of the process would find.
Durable == IF disk # Missing THEN disk ELSE gist

\* Document d has the texts p at top importance, and none of the texts g.
HonestWith(d, p, g) ==
    /\ \A t \in p : [text |-> t, importance |-> Top] \in d
    /\ g \intersect TextsOf(d) = {}

\* A document that has what was promised, and not what was forgotten.
Honest(d) == HonestWith(d, promised, gone)

\* The cache is honest, and so is what a restart would find, if it would find anything.
Faithful ==
    /\ disk = Missing => \A c \in Calls : sending[c] = Missing
    /\ ~ blind => /\ loaded => Honest(cache)
                  /\ Durable # Missing => \A d \in Durable : Honest(d)
                  /\ Durable = Missing => promised = {}

\* The inductive invariant.
Inv == TypeOK /\ Sound /\ Faithful

-----------------------------------------------------------------------------
LEMMA StoredFacts ==
    /\ Missing \in Stored
    /\ \A d \in Docs : {d} \in Stored
    /\ \A s \in Stored : s # Missing => \E d \in Docs : s = {d}
  BY DEF Stored, Missing

\* The empty document.
LEMMA EmptyGood == Good({})
<1>1. IsFiniteSet({}) /\ Cardinality({}) = 0
  BY FS_EmptySet
<1> QED BY <1>1, ConstantsAssumption DEF Good, Docs, Small, Distinct

LEMMA InitInv == Init => Inv
<1> SUFFICES ASSUME Init PROVE Inv
  OBVIOUS
<1>1. Good({})
  BY EmptyGood
<1>2. TypeOK
  <2>1. cache \in Docs /\ Small(cache)
    BY <1>1 DEF Init, Good
  <2>2. disk \in Stored /\ gist \in Stored /\ sending \in [Calls -> Stored]
    BY StoredFacts DEF Init
  <2>3. \A d \in disk \union gist : Small(d)
    BY DEF Init, Missing
  <2>4. loaded \in BOOLEAN /\ blind \in BOOLEAN
    BY DEF Init
  <2>5. promised \in SUBSET Texts /\ gone \in SUBSET Texts
    BY DEF Init
  <2>6. restarts \in 0..MaxRestarts
    BY ConstantsAssumption DEF Init
  <2> QED BY <2>1, <2>2, <2>3, <2>4, <2>5, <2>6 DEF TypeOK
<1>3. Sound
  BY <1>1 DEF Init, Sound, Missing
<1>4. Faithful
  BY DEF Init, Faithful, Durable, Honest, HonestWith
<1> QED BY <1>2, <1>3, <1>4 DEF Inv

-----------------------------------------------------------------------------
\* A text comes once into a good document, and what was there stays.
LEMMA AddedFacts ==
    ASSUME Good(cache), NEW t \in Texts, NEW i \in 1..Top
    PROVE  /\ Added(t, i) \in Docs
           /\ IsFiniteSet(Added(t, i))
           /\ Distinct(Added(t, i))
           /\ TextsOf(Added(t, i)) = TextsOf(cache) \union {t}
           /\ \A e \in cache : e.importance = Top => e \in Added(t, i)
           /\ i = Top => [text |-> t, importance |-> Top] \in Added(t, i)
<1> DEFINE new == [text |-> t, importance |-> i]
<1>1. new \in Entries /\ new.text = t /\ new.importance = i
  BY DEF Entries
<1>2. \A e \in cache : e \in Entries
  BY DEF Good, Docs
<1>3. CASE t \notin TextsOf(cache)
  <2>1. Added(t, i) = cache \union {new}
    BY <1>3 DEF Added
  <2>2. IsFiniteSet(cache \union {new})
    BY FS_AddElement DEF Good
  <2>3. \A e \in cache : e.text # t
    BY <1>3 DEF TextsOf
  <2> QED BY <1>1, <2>1, <2>2, <2>3 DEF Good, Docs, Distinct, TextsOf
<1>4. CASE t \in TextsOf(cache)
  <2> DEFINE raised(e) == IF e.text = t /\ e.importance < i THEN [e EXCEPT !.importance = i] ELSE e
             f == [e \in cache |-> raised(e)]
  <2>1. Added(t, i) = {raised(e) : e \in cache}
    BY <1>4 DEF Added
  <2>2. \A e \in cache : raised(e) \in Entries /\ raised(e).text = e.text
    BY <1>2 DEF Entries
  <2>3. f \in Surjection(cache, Added(t, i))
    BY <2>1 DEF Surjection
  <2>4. IsFiniteSet(Added(t, i))
    BY <2>3, FS_Surjection DEF Good
  <2>5. Added(t, i) \in Docs
    BY <2>1, <2>2 DEF Docs
  <2>6. Distinct(Added(t, i))
    <3> SUFFICES ASSUME NEW x \in Added(t, i), NEW y \in Added(t, i), x.text = y.text
                 PROVE  x = y
      BY DEF Distinct
    <3>1. PICK e1 \in cache : x = raised(e1)
      BY <2>1
    <3>2. PICK e2 \in cache : y = raised(e2)
      BY <2>1
    <3>3. e1.text = e2.text
      BY <2>2, <3>1, <3>2
    <3>4. e1 = e2
      BY <3>3 DEF Good, Distinct
    <3> QED BY <3>1, <3>2, <3>4
  <2>7. TextsOf(Added(t, i)) = TextsOf(cache) \union {t}
    BY <1>4, <2>1, <2>2 DEF TextsOf
  <2>8. \A e \in cache : e.importance = Top => e \in Added(t, i)
    BY <1>2, <2>1, ConstantsAssumption DEF Entries
  <2>9. ASSUME i = Top PROVE [text |-> t, importance |-> Top] \in Added(t, i)
    <3>1. PICK e \in cache : e.text = t
      BY <1>4 DEF TextsOf
    <3>2. raised(e) = [text |-> t, importance |-> Top]
      BY <1>2, <2>9, <3>1, ConstantsAssumption DEF Entries
    <3> QED BY <2>1, <3>2
  <2> QED BY <2>4, <2>5, <2>6, <2>7, <2>8, <2>9
<1> QED BY <1>3, <1>4

\* What is kept of a document is good, and has all of top importance if there is room.
LEMMA KeptFacts ==
    ASSUME NEW d0 \in Docs, IsFiniteSet(d0), Distinct(d0), NEW d \in Kept(d0)
    PROVE  /\ Good(d) /\ d \subseteq d0
           /\ Cardinality({e \in d0 : e.importance = Top}) <= Cap =>
                 \A e \in d0 : e.importance = Top => e \in d
<1>1. d \subseteq d0 /\ Cardinality(d) <= Cap
  BY ConstantsAssumption DEF Kept
<1>2. IsFiniteSet(d)
  BY <1>1, FS_Subset
<1>3. Good(d)
  BY <1>1, <1>2 DEF Good, Docs, Small, Distinct
<1>4. ASSUME Cardinality({e \in d0 : e.importance = Top}) <= Cap,
             NEW f \in d0, f.importance = Top, f \notin d
      PROVE  FALSE
  <2> DEFINE tops == {e \in d0 : e.importance = Top}
  <2>1. Cardinality(d) = Cap /\ \A e \in d : Top <= e.importance
    BY <1>4 DEF Kept
  <2>2. d \union {f} \in SUBSET tops
    <3>1. \A e \in d : e.importance \in 1..Top
      BY <1>1 DEF Docs, Entries
    <3> QED BY <1>1, <1>4, <2>1, <3>1, ConstantsAssumption
  <2>3. IsFiniteSet(tops)
    BY FS_Subset
  <2>4. Cardinality(d \union {f}) <= Cardinality(tops)
    BY <2>2, <2>3, FS_Subset
  <2>5. Cardinality(d \union {f}) = Cap + 1
    BY <1>2, <1>4, <2>1, FS_AddElement
  <2>6. Cardinality(tops) \in Nat
    BY <2>3, FS_CardinalityType
  <2> QED BY <1>4, <2>4, <2>5, <2>6, ConstantsAssumption
<1> QED BY <1>1, <1>3, <1>4

\* A document without one of its entries is good, and has no other less.
LEMMA ForgetFacts ==
    ASSUME Good(cache), NEW e \in cache
    PROVE  /\ Good(cache \ {e})
           /\ \A x \in cache : x.text # e.text => x \in cache \ {e}
           /\ e.text \notin TextsOf(cache \ {e})
<1>1. IsFiniteSet(cache \ {e}) /\ Cardinality(cache \ {e}) <= Cardinality(cache)
      /\ Cardinality(cache \ {e}) \in Nat /\ Cardinality(cache) \in Nat
  BY FS_Subset, FS_CardinalityType DEF Good
<1> QED BY <1>1, ConstantsAssumption DEF Good, Docs, Small, Distinct, TextsOf

LEMMA HonestLess ==
    ASSUME NEW d, NEW p, NEW g, HonestWith(d, p, g), NEW q \in SUBSET p, NEW h \in SUBSET g
    PROVE  HonestWith(d, q, h)
  BY DEF HonestWith

-----------------------------------------------------------------------------
(***************************************************************************)
(* Saving a good document keeps the invariant, if it is honest, and if     *)
(* what the disk had stays honest should the disk fail.                    *)
(***************************************************************************)
LEMMA PersistInv ==
    ASSUME Inv, NEW c \in Calls, Idle(c), NEW d, Good(d), Persist(c, d),
           promised' \in SUBSET Texts, gone' \in SUBSET Texts,
           ~ blind => HonestWith(d, promised', gone'),
           ~ blind /\ disk' # {d} => promised' \subseteq promised /\ gone' \subseteq gone
    PROVE  Inv'
<1>1. cache' = d /\ UNCHANGED <<loaded, gist, blind, restarts>> /\ loaded
  BY DEF Persist, Idle
<1>2. \/ disk' = {d} /\ sending' = [sending EXCEPT ![c] = {d}]
      \/ disk' # {d} /\ disk' = disk /\ sending' = sending
      \/ disk' = {d} /\ disk' = disk /\ sending' = sending
  BY DEF Persist
<1>3. d \in Docs /\ {d} \in Stored /\ Small(d)
  BY StoredFacts DEF Good
<1>4. TypeOK'
  <2>1. disk' \in Stored /\ sending' \in [Calls -> Stored]
    BY <1>2, <1>3 DEF Inv, TypeOK
  <2>2. \A x \in disk' \union gist' : Small(x)
    BY <1>1, <1>2, <1>3 DEF Inv, TypeOK
  <2> QED BY <1>1, <1>3, <2>1, <2>2 DEF Inv, TypeOK, Small
<1>5. Sound'
  <2>1. \A x \in disk' \union gist' : Good(x)
    BY <1>1, <1>2 DEF Inv, Sound
  <2>2. \A b \in Calls : \A x \in sending'[b] : Good(x)
    BY <1>2 DEF Inv, Sound, TypeOK
  <2> QED BY <1>1, <2>1, <2>2 DEF Sound, Good, Small, Distinct
<1>6. ASSUME disk' = Missing PROVE \A b \in Calls : sending'[b] = Missing
  BY <1>2, <1>6 DEF Inv, Faithful, Missing
<1>7. ASSUME ~ blind
      PROVE  /\ Durable' # Missing => \A x \in Durable' : HonestWith(x, promised', gone')
             /\ Durable' = Missing => promised' = {}
  <2>1. CASE disk' = {d}
    BY <1>7, <2>1 DEF Durable, Missing
  <2>2. CASE disk' # {d}
    <3>1. Durable' = Durable
      BY <1>1, <1>2, <2>2 DEF Durable
    <3>2. promised' \subseteq promised /\ gone' \subseteq gone
      BY <1>7, <2>2
    <3>3. Durable # Missing => \A x \in Durable : HonestWith(x, promised, gone)
      BY <1>7 DEF Inv, Faithful, Honest
    <3>4. Durable = Missing => promised = {}
      BY <1>7 DEF Inv, Faithful
    <3> QED BY <3>1, <3>2, <3>3, <3>4, HonestLess
  <2> QED BY <2>1, <2>2
<1>8. Faithful'
  BY <1>1, <1>6, <1>7 DEF Faithful, Honest
<1> QED BY <1>4, <1>5, <1>8 DEF Inv

LEMMA RememberInv ==
    ASSUME Inv, NEW c \in Calls, NEW t \in Texts, NEW i \in 1..Top, Remember(c, t, i)
    PROVE  Inv'
<1> DEFINE d0 == Added(t, i)
<1>1. Idle(c) /\ gone' = gone \ {t}
  BY DEF Remember
<1>2. PICK d \in Kept(d0) : Persist(c, d) /\ promised' = Promise(t, i, d0, d)
  BY DEF Remember
<1>3. /\ d0 \in Docs /\ IsFiniteSet(d0) /\ Distinct(d0)
      /\ TextsOf(d0) = TextsOf(cache) \union {t}
      /\ \A e \in cache : e.importance = Top => e \in d0
      /\ i = Top => [text |-> t, importance |-> Top] \in d0
  BY AddedFacts DEF Inv, Sound
<1>4. /\ Good(d) /\ d \subseteq d0
      /\ Cardinality({e \in d0 : e.importance = Top}) <= Cap =>
            \A e \in d0 : e.importance = Top => e \in d
  BY <1>3, KeptFacts
<1>5. promised' \in SUBSET Texts /\ gone' \in SUBSET Texts
  BY <1>1, <1>2 DEF Promise, Inv, TypeOK
<1>6. disk' # {d} => promised' \subseteq promised /\ gone' \subseteq gone
  BY <1>1, <1>2 DEF Promise
<1>7. ASSUME ~ blind PROVE HonestWith(d, promised', gone')
  <2>1. HonestWith(cache, promised, gone)
    BY <1>1, <1>7 DEF Inv, Faithful, Honest, Idle
  <2>2. ASSUME NEW s \in promised' PROVE [text |-> s, importance |-> Top] \in d0
    BY <1>2, <1>3, <2>1 DEF Promise, HonestWith
  <2>3. ASSUME NEW s \in promised' PROVE [text |-> s, importance |-> Top] \in d
    <3>1. CASE Cardinality({e \in d0 : e.importance = Top}) <= Cap
      BY <1>4, <2>2, <3>1
    <3>2. CASE ~ (Cardinality({e \in d0 : e.importance = Top}) <= Cap)
      <4>1. s \in TextsOf(d)
        BY <1>2, <3>2 DEF Promise
      <4>2. PICK e \in d : e.text = s
        BY <4>1 DEF TextsOf
      <4> QED BY <1>3, <1>4, <2>2, <4>2 DEF Distinct
    <3> QED BY <3>1, <3>2
  <2>4. TextsOf(d) \subseteq TextsOf(d0)
    BY <1>4 DEF TextsOf
  <2> QED BY <1>1, <1>3, <2>1, <2>3, <2>4 DEF HonestWith
<1> HIDE DEF d0
<1> QED BY <1>1, <1>2, <1>4, <1>5, <1>6, <1>7, PersistInv

LEMMA ForgetInv ==
    ASSUME Inv, NEW c \in Calls, NEW e \in cache, Forget(c, e)
    PROVE  Inv'
<1>1. PICK d : d = cache \ {e}
  OBVIOUS
<1>2. /\ Idle(c) /\ Persist(c, d)
      /\ promised' = promised \ {e.text}
      /\ gone' = IF disk' = {d} THEN gone \union {e.text} ELSE gone
  BY <1>1 DEF Forget, Persist
<1>3. /\ Good(d) /\ d \subseteq cache
      /\ \A x \in cache : x.text # e.text => x \in d
      /\ e.text \notin TextsOf(d)
  BY <1>1, ForgetFacts DEF Inv, Sound
<1>4. promised' \in SUBSET Texts /\ gone' \in SUBSET Texts
  <2>1. e.text \in Texts
    BY DEF Inv, TypeOK, Docs, Entries
  <2> QED BY <1>2, <2>1 DEF Inv, TypeOK
<1>5. disk' # {d} => promised' \subseteq promised /\ gone' \subseteq gone
  BY <1>2
<1>6. ASSUME ~ blind PROVE HonestWith(d, promised', gone')
  <2>1. HonestWith(cache, promised, gone)
    BY <1>2, <1>6 DEF Inv, Faithful, Honest, Idle
  <2>2. TextsOf(d) \subseteq TextsOf(cache)
    BY <1>3 DEF TextsOf
  <2>3. \A s \in promised' : [text |-> s, importance |-> Top] \in d
    BY <1>2, <1>3, <2>1 DEF HonestWith
  <2> QED BY <1>2, <1>3, <2>1, <2>2, <2>3 DEF HonestWith
<1> QED BY <1>2, <1>3, <1>4, <1>5, <1>6, PersistInv

-----------------------------------------------------------------------------
\* Loading keeps the invariant, be it from the disk, from the gist or of nothing.
LEMMA LoadInv ==
    ASSUME Inv, LoadFromDisk \/ LoadFromGist \/ LoadBlindly
    PROVE  Inv'
<1>1. Good({})
  BY EmptyGood
<1>2. PICK d, left : Load(d, left) /\ blind' \in {blind, TRUE}
                     /\ \/ d \in disk /\ left = disk /\ blind' = blind
                        \/ disk = Missing /\ d \in gist /\ left \in {gist, Missing} /\ blind' = blind
                        \/ disk = Missing /\ gist = Missing /\ d = {} /\ left = Missing /\ blind' = blind
                        \/ disk = Missing /\ d = {} /\ left = Missing /\ blind' = TRUE
  BY DEF LoadFromDisk, LoadFromGist, LoadBlindly
<1>3. /\ cache' = d /\ loaded' = TRUE /\ disk' = left
      /\ UNCHANGED <<gist, sending, promised, gone, restarts>>
  BY <1>2 DEF Load
<1>4. Good(d) /\ left \in Stored /\ \A x \in left : Good(x)
  BY <1>1, <1>2, StoredFacts DEF Inv, Sound, TypeOK, Missing
<1>5. TypeOK'
  <2>1. d \in Docs /\ Small(d) /\ \A x \in left \union gist : Small(x)
    BY <1>4 DEF Good, Inv, Sound
  <2>2. blind' \in BOOLEAN
    BY <1>2 DEF Inv, TypeOK
  <2> QED BY <1>3, <1>4, <2>1, <2>2 DEF Inv, TypeOK, Small
<1>6. Sound'
  BY <1>3, <1>4 DEF Inv, Sound, Good, Small, Distinct
<1>7. disk' = Missing => \A c \in Calls : sending'[c] = Missing
  BY <1>2, <1>3 DEF Inv, Faithful
<1>8. ASSUME ~ blind'
      PROVE  /\ HonestWith(cache', promised', gone')
             /\ Durable' # Missing => \A x \in Durable' : HonestWith(x, promised', gone')
             /\ Durable' = Missing => promised' = {}
  <2>1. ~ blind
    BY <1>2, <1>8 DEF Inv, TypeOK
  <2>2. /\ Durable # Missing => \A x \in Durable : HonestWith(x, promised, gone)
        /\ Durable = Missing => promised = {}
    BY <2>1 DEF Inv, Faithful, Honest
  <2>3. Durable' = Durable
    BY <1>2, <1>3, <1>8, <2>1 DEF Durable
  <2>4. CASE Durable # Missing
    <3>1. d \in Durable
      BY <1>2, <1>8, <2>1, <2>4 DEF Durable, Missing
    <3> QED BY <1>3, <2>2, <2>3, <2>4, <3>1
  <2>5. CASE Durable = Missing
    <3>1. d = {}
      BY <1>2, <1>8, <2>1, <2>5 DEF Durable, Missing
    <3> QED BY <1>3, <2>2, <2>3, <2>5, <3>1 DEF HonestWith, TextsOf
  <2> QED BY <2>4, <2>5
<1>9. Faithful'
  BY <1>7, <1>8 DEF Faithful, Honest
<1> QED BY <1>5, <1>6, <1>9 DEF Inv

LEMMA PatchInv ==
    ASSUME Inv, NEW c \in Calls, PatchEnds(c)
    PROVE  Inv'
<1>1. /\ sending[c] # Missing /\ gist' \in {gist, sending[c]}
      /\ sending' = [sending EXCEPT ![c] = Missing]
      /\ UNCHANGED <<cache, loaded, disk, promised, gone, blind, restarts>>
  BY DEF PatchEnds
<1>2. sending[c] \in Stored /\ \A d \in sending[c] : Good(d)
  BY DEF Inv, TypeOK, Sound
<1>3. TypeOK'
  <2>1. gist' \in Stored /\ sending' \in [Calls -> Stored]
    BY <1>1, <1>2, StoredFacts DEF Inv, TypeOK
  <2>2. \A d \in disk' \union gist' : Small(d)
    BY <1>1, <1>2 DEF Inv, TypeOK, Good
  <2> QED BY <1>1, <2>1, <2>2 DEF Inv, TypeOK, Small
<1>4. Sound'
  <2>1. \A b \in Calls : \A d \in sending'[b] : Good(d)
    BY <1>1 DEF Inv, TypeOK, Sound, Missing
  <2> QED BY <1>1, <1>2, <2>1 DEF Inv, Sound, Good, Small, Distinct
<1>5. disk # Missing
  BY <1>1 DEF Inv, Faithful
<1>6. Durable' = Durable
  BY <1>1, <1>5 DEF Durable
<1>7. Faithful'
  BY <1>1, <1>5, <1>6 DEF Inv, Faithful, Honest
<1> QED BY <1>3, <1>4, <1>7 DEF Inv

LEMMA RestartInv ==
    ASSUME Inv, Crash \/ ColdStart
    PROVE  Inv'
<1>1. /\ cache' = {} /\ loaded' = FALSE
      /\ gist' \in {gist} \union {sending[c] : c \in {c \in Calls : sending[c] # Missing}}
      /\ sending' = [c \in Calls |-> Missing]
      /\ restarts < MaxRestarts /\ restarts' = restarts + 1
      /\ UNCHANGED <<promised, gone>>
  BY DEF Crash, ColdStart, Restart
<1>2. \/ disk' = disk /\ blind' = blind
      \/ disk' = Missing /\ blind' = (blind \/ (disk # Missing /\ gist' # disk))
  BY DEF Crash, ColdStart, Restart
<1>3. gist' \in Stored /\ \A d \in gist' : Good(d)
  BY <1>1 DEF Inv, TypeOK, Sound
<1>4. disk' \in Stored /\ \A d \in disk' : Good(d)
  BY <1>2, StoredFacts DEF Inv, TypeOK, Sound, Missing
<1>5. TypeOK'
  <2>1. {} \in Docs /\ Small({})
    BY EmptyGood DEF Good
  <2>2. sending' \in [Calls -> Stored] /\ restarts' \in 0..MaxRestarts
    BY <1>1, StoredFacts, ConstantsAssumption DEF Inv, TypeOK
  <2>4. blind' \in BOOLEAN
    BY <1>2, Zenon DEF Inv, TypeOK
  <2>3. \A d \in disk' \union gist' : Small(d)
    BY <1>3, <1>4 DEF Good
  <2> QED BY <1>1, <1>3, <1>4, <2>1, <2>2, <2>3, <2>4 DEF Inv, TypeOK, Small
<1>6. Sound'
  <2>1. Good({})
    BY EmptyGood
  <2> QED BY <1>1, <1>3, <1>4, <2>1 DEF Sound, Good, Small, Distinct, Missing
<1>7. ASSUME ~ blind' PROVE ~ blind /\ Durable' = Durable
  <2>1. ~ blind
    BY <1>2, <1>7 DEF Inv, TypeOK
  <2>2. disk = Missing => gist' = gist
    BY <1>1 DEF Inv, Faithful
  <2> QED BY <1>2, <1>7, <2>1, <2>2 DEF Durable
<1>8. Faithful'
  BY <1>1, <1>7 DEF Inv, Faithful, Honest
<1> QED BY <1>5, <1>6, <1>8 DEF Inv

LEMMA NextInv == Inv /\ [Next]_vars => Inv'
<1> SUFFICES ASSUME Inv, [Next]_vars PROVE Inv'
  OBVIOUS
<1>1. CASE LoadFromDisk \/ LoadFromGist \/ LoadBlindly
  BY <1>1, LoadInv
<1>2. ASSUME NEW c \in Calls, NEW t \in Texts, NEW i \in 1..Top, Remember(c, t, i) PROVE Inv'
  BY <1>2, RememberInv
<1>3. ASSUME NEW c \in Calls, NEW e \in cache, Forget(c, e) PROVE Inv'
  BY <1>3, ForgetInv
<1>4. ASSUME NEW c \in Calls, PatchEnds(c) PROVE Inv'
  BY <1>4, PatchInv
<1>5. CASE Crash \/ ColdStart
  BY <1>5, RestartInv
<1>6. CASE UNCHANGED vars
  BY <1>6 DEF vars, Inv, TypeOK, Sound, Good, Small, Distinct, Faithful, Honest, Durable
<1> QED BY <1>1, <1>2, <1>3, <1>4, <1>5, <1>6 DEF Next

THEOREM Invariance == Spec => []Inv
  BY InitInv, NextInv, PTL DEF Spec

-----------------------------------------------------------------------------
(***************************************************************************)
(* For any texts and any cap: the types, and that no document is over the  *)
(* cap, on disk or in the gist.                                            *)
(***************************************************************************)
THEOREM MemoryTypes == Spec => []TypeOK
<1>1. Inv => TypeOK
  BY DEF Inv
<1> QED BY <1>1, Invariance, PTL

(***************************************************************************)
(* However calls are repeated or run at once, whatever PATCH lands when,   *)
(* no text is twice in the memory, on disk or in the gist.                 *)
(***************************************************************************)
THEOREM TextsStayDistinct == Spec => []OneEntryPerText
<1>1. Inv => OneEntryPerText
  BY DEF Inv, Sound, Good, OneEntryPerText
<1> QED BY <1>1, Invariance, PTL

\* The memory, loaded or not, is honest unless a load was blind.
LEMMA MemoryHonest ==
    ASSUME Inv, ~ blind
    PROVE  \/ HonestWith(Memory, promised, gone)
           \/ promised = {} /\ Memory = {}
<1>1. CASE loaded
  BY <1>1 DEF Inv, Faithful, Honest, Memory
<1>2. CASE ~ loaded
  <2>1. Memory = UNION Durable
    BY <1>2 DEF Memory, Durable
  <2>2. CASE Durable = Missing
    BY <2>1, <2>2 DEF Inv, Faithful, Missing
  <2>3. CASE Durable # Missing
    <3>1. PICK d : Durable = {d}
      BY <2>3, StoredFacts DEF Durable, Inv, TypeOK
    <3>2. Memory = d
      BY <2>1, <3>1
    <3>3. HonestWith(d, promised, gone)
      BY <2>3, <3>1 DEF Inv, Faithful, Honest
    <3> QED BY <3>2, <3>3
  <2> QED BY <2>2, <2>3
<1> QED BY <1>1, <1>2 DEF Inv, TypeOK

(***************************************************************************)
(* A text of top importance that there was room for is in the memory,      *)
(* after whatever failed writes and restarts, unless a load was blind.     *)
(***************************************************************************)
THEOREM ImportantIsKept == Spec => []ImportantStays
<1>1. Inv => ImportantStays
  BY MemoryHonest DEF ImportantStays, HonestWith
<1> QED BY <1>1, Invariance, PTL

(***************************************************************************)
(* A text that was forgotten on disk does not come back, in whatever order *)
(* the PATCHes land while the disk is there, unless a load was blind.      *)
(***************************************************************************)
THEOREM ForgottenIsGone == Spec => []ForgottenStays
<1>1. Inv => ForgottenStays
  BY MemoryHonest DEF ForgottenStays, HonestWith, TextsOf
<1> QED BY <1>1, Invariance, PTL
=============================================================================
