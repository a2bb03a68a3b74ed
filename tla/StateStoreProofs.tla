-------------------------- MODULE StateStoreProofs --------------------------
(***************************************************************************)
(* What the durable state guarantees for any documents, entries and        *)
(* clients: what is on record is lost only by loads that missed a part of  *)
(* it and by a disk that is wiped before the gist has caught up.           *)
(***************************************************************************)
EXTENDS StateStore, SequenceTheorems, TLAPS

Loading(c) == pc[c] \in {"waiting", "reading", "answered"}
Storing(c) == pc[c] \in {"patching", "landed"}

\* Before the preflight nothing is under way.
Quiet == ~ booted => loaded = {} /\ \A c \in Clients : pc[c] = "idle"

\* A GET is sent and read under the lock.
Locked == \A c \in Clients : pc[c] \in {"reading", "answered"} => HasLock(c)

\* A save has something to save; it has put it on the disk before its PATCH.
SavesOK ==
    \A c \in Clients :
        /\ op[c].kind = "save" <=> op[c].entries # NoDoc
        /\ Storing(c) => /\ disk[KeyOf[c]] # NoDoc
                         /\ KeyOf[c] \notin blind => body[c] \subseteq disk[KeyOf[c]]

\* LongTermMemory is alone with its document, and its cache is never behind.
HeldOK ==
    \A c \in Cached :
        /\ Loading(c) => disk[KeyOf[c]] = NoDoc
        /\ c \in loaded => /\ disk[KeyOf[c]] \subseteq held[c]
                           /\ KeyOf[c] \notin blind => gist[KeyOf[c]] \subseteq held[c]

\* A document is on the disk with all that the gist has, or not at all; then the
\* mirror's cache and the answers on their way have all of it.
MirrorOK ==
    \A k \in Keys \ blind :
        /\ disk[k] # NoDoc => gist[k] \subseteq disk[k]
        /\ disk[k] = NoDoc /\ booted => gist[k] \subseteq cache[k]
        /\ disk[k] = NoDoc =>
              \A c \in Clients : pc[c] = "answered" => gist[k] \subseteq got[c][k]

\* The answers on their way hold no more than is on record.  Nor does the mirror's
\* cache, and the gist has all that the disk has or a PATCH is bringing it, unless
\* a save or PATCH went wrong.
CopiesOK ==
    \A k \in Keys \ blind :
        /\ \A c \in Clients : got[c][k] \subseteq Durable(k)
        /\ k \notin behind => /\ cache[k] \subseteq Durable(k)
                              /\ disk[k] \subseteq gist[k] \/ Patching(k)

\* The inductive invariant.
Inv == TypeOK /\ Quiet /\ Locked /\ SavesOK /\ HeldOK /\ MirrorOK /\ CopiesOK

-----------------------------------------------------------------------------
LEMMA NoDocFacts ==
    /\ NoDoc \in Docs /\ NoDocs \in [Keys -> Docs] /\ NoOp \in Ops
    /\ \A k \in Keys : NoDocs[k] = NoDoc
  BY DEF NoDoc, NoDocs, Docs, NoOp, Ops

LEMMA InitInv == Init => Inv
<1> SUFFICES ASSUME Init PROVE Inv
  OBVIOUS
<1>1. TypeOK
  <2>1. lockq \in Seq(Clients)
    BY DEF Init
  <2> QED BY <2>1, NoDocFacts DEF Init, TypeOK, Stages
<1>2. \A c \in Clients : pc[c] = "idle" /\ op[c].kind # "save" /\ op[c].entries = NoDoc
  BY DEF Init, NoOp, NoDoc
<1>3. Quiet /\ Locked /\ SavesOK
  BY <1>2 DEF Init, Quiet, Locked, SavesOK, Storing
<1>4. HeldOK
  BY <1>2, ConstantsAssumption DEF Init, HeldOK, Loading
<1>5. MirrorOK
  BY <1>2, NoDocFacts DEF Init, MirrorOK
<1>6. CopiesOK
  BY NoDocFacts DEF Init, CopiesOK, NoDoc
<1> QED BY <1>1, <1>3, <1>4, <1>5, <1>6 DEF Inv

\* The queue of the lock: whoever holds it goes on holding it while others come.
LEMMA LockFacts ==
    ASSUME lockq \in Seq(Clients)
    PROVE  /\ \A c \in Clients : /\ Append(lockq, c) \in Seq(Clients)
                                 /\ Append(lockq, c) # << >>
                                 /\ lockq # << >> => Head(Append(lockq, c)) = Head(lockq)
           /\ lockq # << >> => Tail(lockq) \in Seq(Clients)
<1>1. ASSUME NEW c \in Clients
      PROVE  /\ Append(lockq, c) \in Seq(Clients)
             /\ Append(lockq, c) # << >>
             /\ lockq # << >> => Head(Append(lockq, c)) = Head(lockq)
  BY AppendProperties, HeadTailAppend
<1>2. lockq # << >> => Tail(lockq) \in Seq(Clients)
  BY HeadTailProperties
<1> QED BY <1>1, <1>2

-----------------------------------------------------------------------------
(***************************************************************************)
(* Every load of client c, and the save that follows it, if what it found  *)
(* is all there is, or the document counts as blind from now on.           *)
(***************************************************************************)
LEMMA ContinueInv ==
    ASSUME Inv, booted, NEW c \in Clients, pc[c] # "patching",
           NEW o \in Ops, o.kind = "save" <=> o.entries # NoDoc,
           NEW doc \in Docs, NEW onDisk \in Docs,
           onDisk = disk[KeyOf[c]] \/ (onDisk = doc /\ doc # NoDoc),
           \/ onDisk = disk[KeyOf[c]] \/ KeyOf[c] \in behind \union blind'
           \/ onDisk \subseteq Durable(KeyOf[c]),
           Continue(c, o, doc, onDisk),
           UNCHANGED <<gist, booted>>,
           blind \subseteq blind', blind' \subseteq Keys,
           KeyOf[c] \notin blind' => gist[KeyOf[c]] \subseteq doc /\ disk[KeyOf[c]] \subseteq doc,
           c \in Cached => disk[KeyOf[c]] \subseteq doc,
           cache' \in [Keys -> Docs], fresh' \in BOOLEAN, lockq' \in Seq(Clients),
           \A j \in Keys \ blind' : disk[j] = NoDoc => gist[j] \subseteq cache'[j],
           \A j \in Keys \ (behind \union blind') :
              cache'[j] \subseteq Durable(j) \/ (j = KeyOf[c] /\ cache'[j] \subseteq Durable(j) \union o.entries),
           got' \in [Clients -> [Keys -> Docs]], \A d \in Clients \ {c} : got'[d] = got[d],
           \A j \in Keys : got'[c][j] \in {got[c][j], NoDoc},
           \A d \in Clients \ {c} : pc[d] \in {"reading", "answered"} => HasLock(d)'
    PROVE  /\ Inv'
           /\ \A j \in Keys : disk[j] \subseteq disk'[j] \/ (j = KeyOf[c] /\ j \in blind')
<1> USE DEF Inv
<1> DEFINE k == KeyOf[c]
           new == doc \union o.entries
<1>1. /\ k \in Keys /\ new \in Docs
      /\ disk \in [Keys -> Docs] /\ gist \in [Keys -> Docs]
  BY ConstantsAssumption DEF TypeOK, Docs, Ops
<1>2. /\ held' = IF c \in Cached THEN [held EXCEPT ![c] = new] ELSE held
      /\ loaded' = loaded \union (Cached \intersect {c})
  BY DEF Continue, Remember
<1>3. PICK stored \in Docs : /\ disk' = [disk EXCEPT ![k] = stored]
                             /\ stored = onDisk \/ (stored = new /\ o.kind = "save")
  BY <1>1 DEF Continue
<1>4. /\ stored = NoDoc => disk[k] = NoDoc
      /\ k \notin blind' => disk[k] \subseteq stored
      /\ c \in Cached => stored \subseteq new
  <2>1. CASE stored = disk[k]
    BY <2>1
  <2>2. CASE stored = doc /\ doc # NoDoc
    BY <2>2
  <2>3. CASE stored = new /\ o.kind = "save"
    <3>1. new # NoDoc
      BY <2>3 DEF NoDoc
    <3> QED BY <2>3, <3>1
  <2> QED BY <1>3, <2>1, <2>2, <2>3
<1>5. /\ \A j \in Keys \ {k} : disk'[j] = disk[j]
      /\ disk'[k] = stored
      /\ \A j \in Keys : disk'[j] = NoDoc => disk[j] = NoDoc
      /\ \A j \in Keys : disk[j] \subseteq disk'[j] \/ (j = k /\ j \in blind')
  BY <1>1, <1>3, <1>4
<1>6. \/ /\ pc' = [pc EXCEPT ![c] = "idle"] /\ op' = [op EXCEPT ![c] = NoOp]
         /\ body' = body
      \/ /\ pc' = [pc EXCEPT ![c] = "patching"] /\ op' = [op EXCEPT ![c] = o]
         /\ body' = [body EXCEPT ![c] = new] /\ stored = new /\ o.kind = "save"
  <2>1. CASE pc' = [pc EXCEPT ![c] = "idle"] /\ op' = [op EXCEPT ![c] = NoOp] /\ body' = body
    BY <2>1
  <2>2. CASE /\ o.kind = "save" /\ disk' = [disk EXCEPT ![k] = new]
             /\ body' = [body EXCEPT ![c] = new]
             /\ pc' = [pc EXCEPT ![c] = "patching"] /\ op' = [op EXCEPT ![c] = o]
    <3>1. disk'[k] = new
      BY <1>1, <2>2
    <3> QED BY <1>5, <2>2, <3>1
  <2> QED BY <2>1, <2>2 DEF Continue
<1>7. \A d \in Clients \ {c} : pc'[d] = pc[d] /\ op'[d] = op[d] /\ body'[d] = body[d]
  BY <1>6 DEF TypeOK
<1>8. TypeOK'
  <2>1. pc' \in [Clients -> Stages] /\ op' \in [Clients -> Ops] /\ body' \in [Clients -> Docs]
    <3>1. "idle" \in Stages /\ "patching" \in Stages
      BY DEF Stages
    <3>2. pc' \in [Clients -> Stages]
      BY <1>6, <3>1 DEF TypeOK
    <3>3. op' \in [Clients -> Ops]
      BY <1>6, NoDocFacts DEF TypeOK
    <3>4. body' \in [Clients -> Docs]
      BY <1>1, <1>6 DEF TypeOK
    <3> QED BY <3>2, <3>3, <3>4
  <2>2. held' \in [Clients -> Docs] /\ loaded' \in SUBSET Cached /\ disk' \in [Keys -> Docs]
    BY <1>1, <1>2, <1>3 DEF TypeOK
  <2>3. behind' \in SUBSET Keys
    BY <1>1 DEF Continue, TypeOK
  <2> QED BY <1>1, <2>1, <2>2, <2>3 DEF TypeOK
<1>9. Quiet'
  BY DEF Quiet
<1>10. Locked'
  BY <1>6, <1>7 DEF Locked, TypeOK
<1>11. SavesOK'
  <2> SUFFICES ASSUME NEW d \in Clients
               PROVE  /\ op'[d].kind = "save" <=> op'[d].entries # NoDoc
                      /\ Storing(d)' => /\ disk'[KeyOf[d]] # NoDoc
                                        /\ KeyOf[d] \notin blind' => body'[d] \subseteq disk'[KeyOf[d]]
    BY DEF SavesOK
  <2>1. CASE d = c
    BY <1>4, <1>5, <1>6, <2>1, NoDocFacts DEF TypeOK, Storing, NoOp, NoDoc
  <2>2. CASE d # c
    <3>1. KeyOf[d] \in Keys
      BY ConstantsAssumption
    <3>2. KeyOf[d] \notin blind' => disk[KeyOf[d]] \subseteq disk'[KeyOf[d]]
      BY <1>5, <3>1
    <3> QED BY <1>5, <1>7, <2>2, <3>1, <3>2 DEF SavesOK, Storing
  <2> QED BY <2>1, <2>2
<1>12. HeldOK'
  <2> SUFFICES ASSUME NEW d \in Cached
               PROVE  /\ Loading(d)' => disk'[KeyOf[d]] = NoDoc
                      /\ d \in loaded' =>
                            /\ disk'[KeyOf[d]] \subseteq held'[d]
                            /\ KeyOf[d] \notin blind' => gist[KeyOf[d]] \subseteq held'[d]
    BY DEF HeldOK
  <2>1. CASE d = c
    <3>1. ~ Loading(d)'
      BY <1>6, <2>1 DEF Loading, TypeOK
    <3>2. held'[d] = new
      BY <1>2, <2>1, ConstantsAssumption DEF TypeOK
    <3> QED BY <1>4, <1>5, <2>1, <3>1, <3>2
  <2>2. CASE d # c
    <3>1. d \in Clients /\ KeyOf[d] \in Keys /\ KeyOf[d] # k
      BY <2>2, ConstantsAssumption
    <3>2. held'[d] = held[d] /\ (d \in loaded' => d \in loaded)
      BY <1>2, <2>2, <3>1 DEF TypeOK
    <3>3. (Loading(d)' <=> Loading(d)) /\ disk'[KeyOf[d]] = disk[KeyOf[d]]
      BY <1>5, <1>7, <2>2, <3>1 DEF Loading
    <3> QED BY <3>1, <3>2, <3>3 DEF HeldOK
  <2> QED BY <2>1, <2>2
<1>13. MirrorOK'
  <2> SUFFICES ASSUME NEW j \in Keys \ blind'
               PROVE  /\ disk'[j] # NoDoc => gist[j] \subseteq disk'[j]
                      /\ disk'[j] = NoDoc => gist[j] \subseteq cache'[j]
                      /\ disk'[j] = NoDoc =>
                            \A d \in Clients : pc'[d] = "answered" => gist[j] \subseteq got'[d][j]
    BY DEF MirrorOK
  <2>1. j \notin blind
    OBVIOUS
  <2>2. disk'[j] # NoDoc => gist[j] \subseteq disk'[j]
    <3>1. CASE j # k
      BY <1>5, <2>1, <3>1 DEF MirrorOK
    <3>2. CASE j = k
      <4>1. CASE stored = disk[k]
        BY <1>5, <2>1, <3>2, <4>1 DEF MirrorOK
      <4>2. CASE stored # disk[k]
        <5>1. doc \subseteq stored
          BY <1>3, <4>2
        <5> QED BY <1>5, <3>2, <5>1
      <4> QED BY <4>1, <4>2
    <3> QED BY <3>1, <3>2
  <2>3. disk'[j] = NoDoc => gist[j] \subseteq cache'[j]
    BY <1>5
  <2>4. ASSUME disk'[j] = NoDoc, NEW d \in Clients, pc'[d] = "answered"
        PROVE  gist[j] \subseteq got'[d][j]
    <3>1. d # c
      BY <1>6, <2>4 DEF TypeOK
    <3> QED BY <1>5, <1>7, <2>1, <2>4, <3>1 DEF MirrorOK
  <2> QED BY <2>2, <2>3, <2>4
<1>14. CopiesOK'
  <2>1. ASSUME NEW j \in Keys \ blind'
        PROVE  /\ j \notin blind
               /\ Durable(j) \subseteq Durable(j)'
               /\ \A d \in Clients : got'[d][j] \subseteq Durable(j)'
    <3>1. j \notin blind /\ gist'[j] = gist[j]
      BY <2>1
    <3>2. Durable(j) \subseteq Durable(j)'
      BY <1>1, <1>5, <1>13, <2>1, <3>1 DEF Durable, MirrorOK, NoDoc
    <3>3. ASSUME NEW d \in Clients PROVE got'[d][j] \subseteq Durable(j)
      BY <3>1 DEF CopiesOK, NoDoc
    <3> QED BY <3>1, <3>2, <3>3
  <2>2. ASSUME NEW j \in Keys \ blind', j # k, j \notin behind'
        PROVE  /\ cache'[j] \subseteq Durable(j)'
               /\ disk'[j] \subseteq gist'[j] \/ Patching(j)'
    <3>1. j \notin behind /\ j \notin blind
      BY <2>1, <2>2 DEF Continue
    <3>2. cache'[j] \subseteq Durable(j)
      BY <2>2, <3>1
    <3>3. Patching(j) => Patching(j)'
      BY <1>7, <2>2 DEF Patching
    <3> QED BY <1>5, <2>1, <2>2, <3>1, <3>2, <3>3 DEF CopiesOK
  <2>3. ASSUME k \notin blind', k \notin behind'
        PROVE  /\ cache'[k] \subseteq Durable(k)'
               /\ disk'[k] \subseteq gist'[k] \/ Patching(k)'
    <3>1. k \notin behind /\ k \notin blind
      BY <2>1, <2>3, <1>1 DEF Continue
    <3>2. cache'[k] \subseteq Durable(k) \union o.entries
      BY <1>1, <2>3, <3>1
    <3>3. CASE /\ o.kind = "load" /\ disk' = [disk EXCEPT ![k] = onDisk]
               /\ pc' = [pc EXCEPT ![c] = "idle"]
      <4>1. Patching(k) => Patching(k)'
        BY <1>7 DEF Patching
      <4>2. cache'[k] \subseteq Durable(k)'
        BY <1>1, <2>1, <2>3, <3>2, <3>3 DEF NoDoc
      <4>3. disk'[k] = onDisk
        BY <1>1, <3>3
      <4>4. disk[k] \subseteq gist[k] \/ Patching(k)
        BY <1>1, <3>1 DEF CopiesOK
      <4>5. onDisk = disk[k] \/ onDisk \subseteq Durable(k)
        BY <2>3, <3>1
      <4>6. Durable(k) = disk[k] \/ Durable(k) = gist[k]
        BY DEF Durable
      <4> QED BY <4>1, <4>2, <4>3, <4>4, <4>5, <4>6
    <3>4. CASE /\ disk' = [disk EXCEPT ![k] = new]
               /\ pc' = [pc EXCEPT ![c] = "patching"]
      <4>1. Patching(k)'
        BY <3>4 DEF Patching, TypeOK
      <4>2. disk'[k] = new
        BY <1>1, <3>4
      <4>3. Durable(k) \union o.entries \subseteq new
        BY <2>3 DEF Durable
      <4>4. new \subseteq Durable(k)'
        BY <4>2 DEF Durable, NoDoc
      <4> QED BY <3>2, <4>1, <4>3, <4>4
    <3> QED BY <2>3, <3>3, <3>4, <1>1 DEF Continue
  <2> QED BY <2>1, <2>2, <2>3, <1>1 DEF CopiesOK
<1> QED BY <1>5, <1>8, <1>9, <1>10, <1>11, <1>12, <1>13, <1>14

\* The same for a load that the mirror answers with docs, which have all of the
\* gist's documents that are not on the disk.
LEMMA MirrorInv ==
    ASSUME Inv, booted, NEW c \in Clients, pc[c] # "patching",
           NEW o \in Ops, o.kind = "save" <=> o.entries # NoDoc,
           NEW docs \in [Keys -> Docs],
           \A j \in Keys \ blind : disk[j] = NoDoc => gist[j] \subseteq docs[j],
           \A j \in Keys \ (behind \union blind) : docs[j] \subseteq Durable(j),
           ContinueWithMirror(c, o, docs),
           UNCHANGED <<gist, booted>>,
           blind' = blind \union MissedBy(c, docs[KeyOf[c]]),
           disk[KeyOf[c]] # NoDoc => c \notin Cached,
           fresh' \in BOOLEAN, lockq' \in Seq(Clients),
           got' \in [Clients -> [Keys -> Docs]], \A d \in Clients \ {c} : got'[d] = got[d],
           \A j \in Keys : got'[c][j] \in {got[c][j], NoDoc},
           \A d \in Clients \ {c} : pc[d] \in {"reading", "answered"} => HasLock(d)'
    PROVE  /\ Inv'
           /\ \A j \in Keys : \/ disk[j] \subseteq disk'[j]
                              \/ j = KeyOf[c] /\ disk[j] # NoDoc /\ j \in blind'
<1> DEFINE k == KeyOf[c]
           doc == docs[k]
<1>1. k \in Keys /\ doc \in Docs /\ disk[k] \in Docs
  BY ConstantsAssumption DEF Inv, TypeOK
<1>2. PICK onDisk \in Docs : /\ onDisk = disk[k] \/ (onDisk = doc /\ doc # NoDoc)
                             /\ Continue(c, o, doc, onDisk)
  BY <1>1 DEF ContinueWithMirror, Warmed
<1>3. /\ cache' \in [Keys -> Docs]
      /\ \A j \in Keys : docs[j] \subseteq cache'[j]
  BY <1>1 DEF ContinueWithMirror, Ops, Docs
<1>4. /\ blind \subseteq blind' /\ blind' \subseteq Keys
      /\ k \notin blind' => disk[k] \subseteq doc
  BY <1>1 DEF MissedBy, Inv, TypeOK
<1>5. k \notin blind' => gist[k] \subseteq doc
  BY <1>1, <1>4 DEF Inv, MirrorOK
<1>6. c \in Cached => disk[k] \subseteq doc
  BY DEF NoDoc
<1>7. \A j \in Keys \ blind' : disk[j] = NoDoc => gist[j] \subseteq cache'[j]
  BY <1>3, <1>4
<1>8. \/ onDisk = disk[k] \/ k \in behind \union blind'
      \/ onDisk \subseteq Durable(k)
  BY <1>1, <1>2, <1>4
<1>9. \A j \in Keys \ (behind \union blind') :
         cache'[j] \subseteq Durable(j) \/ (j = k /\ cache'[j] \subseteq Durable(j) \union o.entries)
  BY <1>1, <1>4 DEF ContinueWithMirror, Ops, Docs
<1>10. /\ Inv'
       /\ \A j \in Keys : disk[j] \subseteq disk'[j] \/ (j = k /\ j \in blind')
  BY <1>1, <1>2, <1>3, <1>4, <1>5, <1>6, <1>7, <1>8, <1>9, ContinueInv
<1>11. disk[k] \subseteq disk'[k] \/ disk[k] # NoDoc
  BY DEF NoDoc
<1> QED BY <1>10, <1>11

-----------------------------------------------------------------------------
\* What is on the disk stays, but for client c whose load was overtaken.
Kept(c) ==
    \A j \in Keys :
        disk[j] \subseteq disk'[j] \/ (j = KeyOf[c] /\ Overtaken(c) /\ j \in blind')

\* Continue leaves the client where no load is under way.
LEMMA ContinueEnds ==
    ASSUME TypeOK, NEW c \in Clients, NEW o, NEW doc, NEW onDisk, Continue(c, o, doc, onDisk)
    PROVE  ~ Loading(c)'
  BY DEF Continue, TypeOK, Loading

LEMMA StartInv ==
    ASSUME Inv, NEW c \in Clients, Start(c)
    PROVE  Inv' /\ Kept(c)
<1> USE DEF Inv
<1>1. /\ booted /\ pc[c] = "idle" /\ UNCHANGED <<gist, fresh, booted, got, blind>>
      /\ KeyOf[c] \in Keys /\ disk[KeyOf[c]] \in Docs /\ held[c] \in Docs
  BY ConstantsAssumption DEF Start, TypeOK
<1>2. PICK o \in Requests(c) :
          StartHeld(c, o) \/ StartOnDisk(c, o) \/ StartInCache(c, o) \/ StartAtGist(c, o)
  BY DEF Start
<1>3. o \in Ops /\ (o.kind = "save" <=> o.entries # NoDoc)
  BY <1>2, ConstantsAssumption DEF Requests, Ops, NoOp, NoDoc, Docs
<1>4. ASSUME UNCHANGED <<cache, lockq>>
      PROVE  /\ cache' \in [Keys -> Docs] /\ fresh' \in BOOLEAN /\ lockq' \in Seq(Clients)
             /\ \A j \in Keys \ blind' : disk[j] = NoDoc => gist[j] \subseteq cache'[j]
             /\ \A j \in Keys \ (behind \union blind') : cache'[j] \subseteq Durable(j)
  BY <1>1, <1>4 DEF TypeOK, MirrorOK, CopiesOK
<1>5. /\ got' \in [Clients -> [Keys -> Docs]] /\ \A d \in Clients \ {c} : got'[d] = got[d]
      /\ \A j \in Keys : got'[c][j] \in {got[c][j], NoDoc}
      /\ pc[c] # "patching" /\ blind \subseteq blind' /\ blind' \subseteq Keys
  BY <1>1 DEF TypeOK
<1>6. ASSUME lockq' = lockq
      PROVE  \A d \in Clients \ {c} : pc[d] \in {"reading", "answered"} => HasLock(d)'
  BY <1>6 DEF Locked, HasLock
<1>7. CASE StartHeld(c, o)
  <2>1. c \in Cached /\ disk[KeyOf[c]] \subseteq held[c]
        /\ (KeyOf[c] \notin blind => gist[KeyOf[c]] \subseteq held[c])
    BY <1>7 DEF StartHeld, TypeOK, HeldOK
  <2>2. Continue(c, o, held[c], disk[KeyOf[c]]) /\ UNCHANGED <<cache, lockq>>
    BY <1>7 DEF StartHeld
  <2>3. Inv' /\ \A j \in Keys : disk[j] \subseteq disk'[j] \/ (j = KeyOf[c] /\ j \in blind')
    BY <1>1, <1>3, <1>4, <1>5, <1>6, <2>1, <2>2, ContinueInv
  <2>4. disk[KeyOf[c]] \subseteq disk'[KeyOf[c]]
    BY <1>1, <2>1, <2>2 DEF Continue, TypeOK
  <2> QED BY <2>3, <2>4 DEF Kept
<1>8. CASE StartOnDisk(c, o)
  <2>1. KeyOf[c] \notin blind => gist[KeyOf[c]] \subseteq disk[KeyOf[c]]
    BY <1>1, <1>8 DEF StartOnDisk, MirrorOK
  <2>2. Continue(c, o, disk[KeyOf[c]], disk[KeyOf[c]]) /\ UNCHANGED <<cache, lockq>>
    BY <1>8 DEF StartOnDisk
  <2>3. Inv' /\ \A j \in Keys : disk[j] \subseteq disk'[j] \/ (j = KeyOf[c] /\ j \in blind')
    BY <1>1, <1>3, <1>4, <1>5, <1>6, <2>1, <2>2, ContinueInv
  <2>4. disk[KeyOf[c]] \subseteq disk'[KeyOf[c]]
    BY <1>1, <2>2 DEF Continue, TypeOK
  <2> QED BY <2>3, <2>4 DEF Kept
<1>9. CASE StartInCache(c, o)
  <2>1. /\ disk[KeyOf[c]] = NoDoc /\ lockq' = lockq
        /\ fresh' \in BOOLEAN /\ lockq' \in Seq(Clients)
    BY <1>1, <1>9 DEF StartInCache, TypeOK
  <2>2. PICK docs \in [Keys -> Docs] :
            /\ ContinueWithMirror(c, o, docs)
            /\ \A j \in Keys \ blind : disk[j] = NoDoc => gist[j] \subseteq docs[j]
            /\ \A j \in Keys \ (behind \union blind) : docs[j] \subseteq Durable(j)
    BY <1>1, <1>9 DEF StartInCache, TypeOK, MirrorOK, CopiesOK
  <2>3. blind' = blind \union MissedBy(c, docs[KeyOf[c]])
    BY <1>1, <2>1 DEF MissedBy, NoDoc
  <2>4. Inv' /\ \A j \in Keys : \/ disk[j] \subseteq disk'[j]
                                \/ j = KeyOf[c] /\ disk[j] # NoDoc /\ j \in blind'
    BY <1>1, <1>3, <1>5, <1>6, <2>1, <2>2, <2>3, MirrorInv
  <2> QED BY <2>1, <2>4 DEF Kept
<1>10. CASE StartAtGist(c, o)
  <2>1. /\ disk[KeyOf[c]] = NoDoc /\ lockq' = Append(lockq, c)
        /\ pc' = [pc EXCEPT ![c] = "waiting"] /\ op' = [op EXCEPT ![c] = o]
        /\ UNCHANGED <<disk, cache, body, held, loaded, behind>>
    BY <1>10 DEF StartAtGist
  <2>2. TypeOK'
    BY <1>1, <1>3, <2>1, LockFacts DEF TypeOK, Stages
  <2>3. Quiet' /\ Locked'
    BY <1>1, <2>1, LockFacts DEF TypeOK, Quiet, Locked, HasLock
  <2>4. SavesOK'
    BY <1>1, <1>3, <2>1 DEF TypeOK, SavesOK, Storing
  <2>5. HeldOK'
    BY <1>1, <2>1, ConstantsAssumption DEF TypeOK, HeldOK, Loading
  <2>6. MirrorOK'
    BY <1>1, <2>1 DEF TypeOK, MirrorOK
  <2>7. CopiesOK'
    BY <1>1, <2>1 DEF TypeOK, CopiesOK, Durable, Patching
  <2> QED BY <2>1, <2>2, <2>3, <2>4, <2>5, <2>6, <2>7 DEF Kept
<1> QED BY <1>2, <1>7, <1>8, <1>9, <1>10

-----------------------------------------------------------------------------
\* The holder passes the lock on; nobody else is at a GET then.
LEMMA HolderLeaves ==
    ASSUME Inv, NEW c \in Clients, HasLock(c), lockq' = Tail(lockq)
    PROVE  /\ lockq' \in Seq(Clients)
           /\ \A d \in Clients \ {c} : pc[d] \in {"reading", "answered"} => HasLock(d)'
<1>1. lockq # << >> /\ lockq \in Seq(Clients)
  BY DEF Inv, TypeOK, HasLock
<1>2. \A d \in Clients \ {c} : pc[d] \notin {"reading", "answered"}
  BY DEF Inv, Locked, HasLock
<1> QED BY <1>1, <1>2, LockFacts

LEMMA LoadReturnsInv ==
    ASSUME Inv, NEW c \in Clients, UseCache(c) \/ GetReturns(c) \/ GetFails(c)
    PROVE  Inv' /\ Kept(c)
<1> USE DEF Inv
<1>1. /\ Loading(c) /\ HasLock(c) /\ lockq' = Tail(lockq) /\ booted /\ UNCHANGED <<gist, booted>>
      /\ KeyOf[c] \in Keys /\ disk[KeyOf[c]] \in Docs
      /\ op[c] \in Ops /\ (op[c].kind = "save" <=> op[c].entries # NoDoc)
      /\ pc[c] # "patching"
  BY ConstantsAssumption
  DEF UseCache, GetReturns, GetFails, Loading, Locked, Quiet, TypeOK, SavesOK
<1>2. /\ lockq' \in Seq(Clients)
      /\ \A d \in Clients \ {c} : pc[d] \in {"reading", "answered"} => HasLock(d)'
  BY <1>1, HolderLeaves
<1>3. disk[KeyOf[c]] # NoDoc => c \notin Cached
  BY <1>1 DEF HeldOK
<1>4. /\ got' \in [Clients -> [Keys -> Docs]] /\ fresh' \in BOOLEAN
      /\ \A d \in Clients \ {c} : got'[d] = got[d]
      /\ \A j \in Keys : got'[c][j] \in {got[c][j], NoDoc}
  <2>1. CASE UNCHANGED <<got, fresh>>
    BY <2>1 DEF TypeOK
  <2>2. CASE got' = [got EXCEPT ![c] = NoDocs]
    <3>1. fresh' \in BOOLEAN
      BY DEF UseCache, GetReturns, GetFails, TypeOK
    <3> QED BY <2>2, <3>1, NoDocFacts DEF TypeOK
  <2> QED BY <2>1, <2>2 DEF UseCache, GetReturns, GetFails
<1>5. CASE UseCache(c) \/ GetReturns(c)
  <2>1. PICK docs \in [Keys -> Docs] :
            /\ ContinueWithMirror(c, op[c], docs)
            /\ blind' = blind \union MissedBy(c, docs[KeyOf[c]])
            /\ \A j \in Keys \ blind : disk[j] = NoDoc => gist[j] \subseteq docs[j]
            /\ \A j \in Keys \ (behind \union blind) : docs[j] \subseteq Durable(j)
    <3>1. CASE UseCache(c)
      BY <1>1, <3>1 DEF UseCache, TypeOK, MirrorOK, CopiesOK
    <3>2. CASE GetReturns(c)
      BY <1>1, <3>2 DEF GetReturns, TypeOK, MirrorOK, CopiesOK
    <3> QED BY <1>5, <3>1, <3>2
  <2>2. Inv' /\ \A j \in Keys : \/ disk[j] \subseteq disk'[j]
                                \/ j = KeyOf[c] /\ disk[j] # NoDoc /\ j \in blind'
    BY <1>1, <1>2, <1>3, <1>4, <2>1, MirrorInv
  <2>3. ~ Loading(c)'
    BY <2>1, ContinueEnds DEF ContinueWithMirror
  <2> QED BY <1>1, <2>2, <2>3 DEF Kept, Overtaken, Loading
<1>6. CASE GetFails(c)
  <2>1. /\ Continue(c, op[c], NoDoc, disk[KeyOf[c]]) /\ UNCHANGED <<gist, cache, fresh, booted>>
        /\ blind' = blind \union {KeyOf[c]}
    BY <1>6 DEF GetFails
  <2>2. /\ blind \subseteq blind' /\ blind' \subseteq Keys /\ KeyOf[c] \in blind'
        /\ c \in Cached => disk[KeyOf[c]] \subseteq NoDoc
        /\ cache' \in [Keys -> Docs]
        /\ \A j \in Keys \ blind' : disk[j] = NoDoc => gist[j] \subseteq cache'[j]
        /\ \A j \in Keys \ (behind \union blind') : cache'[j] \subseteq Durable(j)
    BY <1>1, <1>3, <2>1 DEF TypeOK, MirrorOK, CopiesOK
  <2>3. Inv' /\ \A j \in Keys : disk[j] \subseteq disk'[j] \/ (j = KeyOf[c] /\ j \in blind')
    BY <1>1, <1>2, <1>4, <2>1, <2>2, NoDocFacts, ContinueInv
  <2>4. ~ Loading(c)'
    BY <2>1, ContinueEnds
  <2>5. disk[KeyOf[c]] = NoDoc => disk[KeyOf[c]] \subseteq disk'[KeyOf[c]]
    BY DEF NoDoc
  <2> QED BY <1>1, <2>3, <2>4, <2>5 DEF Kept, Overtaken, Loading
<1> QED BY <1>5, <1>6

\* A GET is sent, and finds what is in the gist then.
LEMMA GetInv ==
    ASSUME Inv, NEW c \in Clients, SendGet(c) \/ GetServed(c)
    PROVE  Inv'
<1> USE DEF Inv
<1>1. CASE SendGet(c)
  <2> USE <1>1 DEF SendGet
  <2>1. TypeOK'
    BY DEF TypeOK, Stages
  <2>2. Quiet' /\ Locked'
    BY DEF TypeOK, Quiet, Locked, HasLock
  <2>3. SavesOK' /\ HeldOK'
    BY ConstantsAssumption DEF TypeOK, SavesOK, Storing, HeldOK, Loading
  <2>4. MirrorOK'
    BY DEF TypeOK, MirrorOK
  <2>5. CopiesOK'
    BY DEF TypeOK, MirrorOK, CopiesOK, Durable, Patching
  <2> QED BY <2>1, <2>2, <2>3, <2>4, <2>5
<1>2. CASE GetServed(c)
  <2> USE <1>2 DEF GetServed
  <2>1. TypeOK'
    BY DEF TypeOK, Stages
  <2>2. Quiet' /\ Locked'
    BY DEF TypeOK, Quiet, Locked, HasLock
  <2>3. SavesOK' /\ HeldOK'
    BY ConstantsAssumption DEF TypeOK, SavesOK, Storing, HeldOK, Loading
  <2>4. MirrorOK'
    BY DEF TypeOK, MirrorOK
  <2>5. CopiesOK'
    BY DEF TypeOK, MirrorOK, CopiesOK, Durable, Patching
  <2> QED BY <2>1, <2>2, <2>3, <2>4, <2>5
<1> QED BY <1>1, <1>2

-----------------------------------------------------------------------------
(***************************************************************************)
(* A PATCH lands or not: what it puts into the gist is on the disk.        *)
(***************************************************************************)
LEMMA PatchInv ==
    ASSUME Inv, NEW c \in Clients, PatchLands(c) \/ PatchReturns(c) \/ PatchFails(c)
    PROVE  Inv' /\ disk' = disk
<1> USE DEF Inv
<1>1. /\ pc[c] \in {"patching", "landed"} /\ KeyOf[c] \in Keys /\ body[c] \in Docs
      /\ disk[KeyOf[c]] # NoDoc
      /\ KeyOf[c] \notin blind => body[c] \subseteq disk[KeyOf[c]]
      /\ UNCHANGED <<disk, booted, got, held, loaded, blind>>
  BY ConstantsAssumption DEF PatchLands, PatchReturns, PatchFails, TypeOK, SavesOK, Storing
<1>2. /\ gist' \in [Keys -> Docs]
      /\ \A k \in Keys \ {KeyOf[c]} : gist'[k] = gist[k]
      /\ gist'[KeyOf[c]] \in {gist[KeyOf[c]], body[c]}
  BY <1>1 DEF PatchLands, PatchReturns, PatchFails, TypeOK
<1>3. /\ pc' \in [Clients -> Stages] /\ op' \in [Clients -> Ops] /\ body' \in [Clients -> Docs]
      /\ \A d \in Clients \ {c} : pc'[d] = pc[d] /\ op'[d] = op[d] /\ body'[d] = body[d]
      /\ \/ pc'[c] = "landed" /\ op'[c] = op[c] /\ body'[c] = body[c]
         \/ pc'[c] = "idle" /\ op'[c] = NoOp
  <2>1. CASE PatchLands(c)
    BY <1>1, <2>1 DEF PatchLands, TypeOK, Stages
  <2>2. CASE Settle(c)
    BY <2>2, NoDocFacts DEF Settle, TypeOK, Stages
  <2> QED BY <2>1, <2>2 DEF PatchReturns, PatchFails
<1>4. /\ cache' \in [Keys -> Docs] /\ fresh' \in BOOLEAN
      /\ \A k \in Keys \ {KeyOf[c]} : cache'[k] = cache[k]
  BY <1>1 DEF PatchLands, PatchReturns, PatchFails, TypeOK
<1>5. /\ lockq' \in Seq(Clients)
      /\ \A d \in Clients : pc[d] \in {"reading", "answered"} => HasLock(d)'
  <2>1. CASE PatchLands(c)
    BY <2>1, LockFacts DEF PatchLands, TypeOK, Locked, HasLock
  <2>2. CASE PatchReturns(c)
    BY <1>1, <2>2, HolderLeaves DEF PatchReturns
  <2>3. CASE PatchFails(c)
    BY <2>3 DEF PatchFails, TypeOK, Locked, HasLock
  <2> QED BY <2>1, <2>2, <2>3
<1>6. TypeOK'
  <2>1. behind' \in SUBSET Keys
    BY <1>1 DEF PatchLands, PatchReturns, PatchFails, TypeOK
  <2> QED BY <1>1, <1>2, <1>3, <1>4, <1>5, <2>1 DEF TypeOK
<1>7. Quiet' /\ Locked'
  BY <1>1, <1>3, <1>5 DEF Quiet, Locked
<1>8. SavesOK'
  BY <1>1, <1>3 DEF SavesOK, Storing, NoOp, NoDoc
<1>9. HeldOK'
  <2> SUFFICES ASSUME NEW d \in Cached
               PROVE  /\ Loading(d)' => disk[KeyOf[d]] = NoDoc
                      /\ d \in loaded =>
                            /\ disk[KeyOf[d]] \subseteq held[d]
                            /\ KeyOf[d] \notin blind => gist'[KeyOf[d]] \subseteq held[d]
    BY <1>1 DEF HeldOK
  <2>1. Loading(d)' => Loading(d)
    BY <1>3, ConstantsAssumption DEF Loading
  <2>2. KeyOf[d] \in Keys
    BY ConstantsAssumption
  <2> QED BY <1>1, <1>2, <2>1, <2>2 DEF HeldOK
<1>10. MirrorOK'
  <2> SUFFICES ASSUME NEW k \in Keys \ blind
               PROVE  /\ disk[k] # NoDoc => gist'[k] \subseteq disk[k]
                      /\ disk[k] = NoDoc /\ booted => gist'[k] \subseteq cache'[k]
                      /\ disk[k] = NoDoc =>
                            \A d \in Clients : pc'[d] = "answered" => gist'[k] \subseteq got[d][k]
    BY <1>1 DEF MirrorOK
  <2>1. CASE k = KeyOf[c]
    BY <1>1, <1>2, <2>1 DEF MirrorOK
  <2>2. CASE k # KeyOf[c]
    BY <1>2, <1>3, <1>4, <2>2 DEF MirrorOK
  <2> QED BY <2>1, <2>2
<1>11. CopiesOK'
  <2>1. ASSUME NEW k \in Keys \ blind
        PROVE  Durable(k) \subseteq Durable(k)'
    BY <1>1, <1>2 DEF Durable
  <2>2. ASSUME NEW k \in Keys \ blind, k # KeyOf[c], k \notin behind'
        PROVE  cache'[k] \subseteq Durable(k)' /\ (disk'[k] \subseteq gist'[k] \/ Patching(k)')
    <3>1. k \notin behind
      BY <2>2 DEF PatchLands, PatchReturns, PatchFails
    <3>2. Patching(k) => Patching(k)'
      BY <1>3, <2>2 DEF Patching
    <3> QED BY <1>1, <1>2, <1>4, <2>1, <2>2, <3>1, <3>2 DEF CopiesOK
  <2>3. ASSUME KeyOf[c] \notin blind, KeyOf[c] \notin behind'
        PROVE  /\ cache'[KeyOf[c]] \subseteq Durable(KeyOf[c])'
               /\ disk'[KeyOf[c]] \subseteq gist'[KeyOf[c]] \/ Patching(KeyOf[c])'
    <3>1. CASE PatchLands(c)
      <4>1. body[c] = disk[KeyOf[c]] /\ KeyOf[c] \notin behind /\ cache' = cache
        BY <2>3, <3>1 DEF PatchLands
      <4>2. gist'[KeyOf[c]] = body[c]
        BY <1>1, <3>1 DEF PatchLands, TypeOK
      <4> QED BY <1>1, <2>1, <2>3, <4>1, <4>2 DEF CopiesOK
    <3>2. CASE PatchReturns(c)
      <4>1. /\ cache'[KeyOf[c]] = body[c] /\ gist' = gist
            /\ \/ body[c] = disk[KeyOf[c]] /\ body[c] = gist[KeyOf[c]]
               \/ KeyOf[c] \notin behind
        BY <1>1, <2>3, <3>2 DEF PatchReturns, TypeOK
      <4>2. Patching(KeyOf[c]) => Patching(KeyOf[c])'
        BY <1>3, <3>2 DEF Patching, PatchReturns
      <4> QED BY <1>1, <2>3, <4>1, <4>2 DEF CopiesOK, Durable
    <3>3. CASE PatchFails(c)
      BY <2>3, <3>3 DEF PatchFails
    <3> QED BY <3>1, <3>2, <3>3
  <2>4. ASSUME NEW k \in Keys \ blind', NEW d \in Clients
        PROVE  got'[d][k] \subseteq Durable(k)'
    BY <1>1, <2>1, <2>4 DEF CopiesOK
  <2> QED BY <1>1, <2>2, <2>3, <2>4 DEF CopiesOK
<1> QED BY <1>1, <1>6, <1>7, <1>8, <1>9, <1>10, <1>11

-----------------------------------------------------------------------------
\* Thirty seconds pass, or the preflight reads the gist or cannot.
LEMMA ClockInv ==
    ASSUME Inv, Age \/ Preflight
    PROVE  Inv'
<1> USE DEF Inv
<1>1. CASE Age
  BY <1>1 DEF Age, TypeOK, Quiet, Locked, HasLock, SavesOK, Storing, HeldOK, Loading, MirrorOK,
              CopiesOK, Durable, Patching
<1>2. CASE Preflight
  <2>1. /\ ~ booted /\ booted' = TRUE
        /\ \/ cache' = gist /\ fresh' \in BOOLEAN /\ blind' = blind
           \/ blind' = blind \union {k \in Keys : disk[k] = NoDoc} /\ UNCHANGED <<cache, fresh>>
        /\ UNCHANGED <<disk, gist, lockq, pc, op, got, body, held, loaded, behind>>
    BY <1>2 DEF Preflight
  <2>2. loaded = {} /\ \A c \in Clients : pc[c] = "idle"
    BY <2>1 DEF Quiet
  <2>3. TypeOK'
    BY <2>1 DEF TypeOK
  <2>4. Quiet' /\ Locked' /\ SavesOK' /\ HeldOK'
    BY <2>1, <2>2, ConstantsAssumption
    DEF Quiet, Locked, HasLock, SavesOK, Storing, HeldOK, Loading
  <2>5. MirrorOK'
    BY <2>1, <2>2 DEF MirrorOK
  <2>6. CopiesOK'
    BY <2>1 DEF CopiesOK, MirrorOK, Durable, Patching
  <2> QED BY <2>3, <2>4, <2>5, <2>6
<1> QED BY <1>1, <1>2

LEMMA RestartInv ==
    ASSUME Inv, Crash \/ ColdStart
    PROVE  Inv'
<1> USE DEF Inv
<1>1. PICK d \in {disk, NoDocs} : Restart(d)
  BY DEF Crash, ColdStart
<1>2. /\ booted' = FALSE /\ disk' = d /\ gist' = gist /\ loaded' = {}
      /\ blind' = {k \in blind : d[k] # NoDoc}
      /\ behind' = {k \in Keys : (k \in behind \/ Patching(k)) /\ d[k] # NoDoc}
      /\ cache' = NoDocs /\ got' = [c \in Clients |-> NoDocs]
      /\ pc' = [c \in Clients |-> "idle"] /\ op' = [c \in Clients |-> NoOp]
  BY <1>1 DEF Restart
<1>3. TypeOK'
  <2>1. << >> \in Seq(Clients)
    OBVIOUS
  <2>2. behind' \in SUBSET Keys /\ blind' \in SUBSET Keys
    BY <1>2 DEF TypeOK
  <2>3. pc' \in [Clients -> Stages] /\ op' \in [Clients -> Ops] /\ got' \in [Clients -> [Keys -> Docs]]
    BY <1>2, NoDocFacts DEF Stages
  <2>4. disk' \in [Keys -> Docs] /\ cache' \in [Keys -> Docs] /\ gist' \in [Keys -> Docs]
    BY <1>2, NoDocFacts DEF TypeOK
  <2>5. body' \in [Clients -> Docs] /\ held' \in [Clients -> Docs]
    BY <1>1, NoDocFacts DEF Restart
  <2> QED BY <1>1, <1>2, <2>1, <2>2, <2>3, <2>4, <2>5 DEF Restart, TypeOK
<1>4. Quiet' /\ Locked' /\ SavesOK' /\ HeldOK'
  BY <1>2, ConstantsAssumption DEF Quiet, Locked, SavesOK, Storing, HeldOK, Loading, NoOp, NoDoc
<1>5. MirrorOK'
  <2> SUFFICES ASSUME NEW k \in Keys, k \notin blind', d[k] # NoDoc
               PROVE  gist[k] \subseteq d[k]
    BY <1>2 DEF MirrorOK
  <2>1. d = disk /\ k \notin blind
    BY <1>2, NoDocFacts
  <2> QED BY <2>1 DEF MirrorOK
<1>6. CopiesOK'
  <2> SUFFICES ASSUME NEW k \in Keys, k \notin blind', k \notin behind', d[k] # NoDoc
               PROVE  d[k] \subseteq gist[k]
    BY <1>2, NoDocFacts DEF CopiesOK, NoDoc
  <2>1. d = disk /\ k \notin blind /\ k \notin behind /\ ~ Patching(k)
    BY <1>2, NoDocFacts
  <2> QED BY <2>1 DEF CopiesOK
<1> QED BY <1>3, <1>4, <1>5, <1>6

LEMMA NextInv == Inv /\ [Next]_vars => Inv'
<1> SUFFICES ASSUME Inv, [Next]_vars PROVE Inv'
  OBVIOUS
<1>1. ASSUME NEW c \in Clients, Start(c) PROVE Inv'
  BY <1>1, StartInv
<1>2. ASSUME NEW c \in Clients, Advance(c) PROVE Inv'
  BY <1>2, LoadReturnsInv, GetInv, PatchInv DEF Advance
<1>3. CASE Age \/ Preflight
  BY <1>3, ClockInv
<1>4. CASE Crash \/ ColdStart
  BY <1>4, RestartInv
<1>5. CASE UNCHANGED vars
  BY <1>5 DEF Inv, vars, TypeOK, Quiet, Locked, HasLock, SavesOK, Storing, HeldOK, Loading, MirrorOK,
              CopiesOK, Durable, Patching
<1> QED BY <1>1, <1>2, <1>3, <1>4, <1>5 DEF Next

\* The invariant holds in every reachable state.
THEOREM Invariance == Spec => []Inv
<1>1. Init => Inv
  BY InitInv
<1>2. Inv /\ [Next]_vars => Inv'
  BY NextInv
<1> QED BY <1>1, <1>2, PTL DEF Spec

(***************************************************************************)
(* Every variable holds a value of its type; the lock's queue is one.      *)
(***************************************************************************)
THEOREM StateStoreTypes == Spec => []TypeOK
<1>1. Inv => TypeOK
  BY DEF Inv
<1> QED BY <1>1, Invariance, PTL

\* A step of Next keeps a document that no load missed a part of, but a disk that
\* is wiped before the gist has caught up.
LEMMA StepKeeps ==
    ASSUME Inv, Inv', Next, NEW k \in Keys \ (blind \union blind')
    PROVE  \/ Durable(k) \subseteq Durable(k)'
           \/ ColdStart /\ (k \in behind \/ Patching(k))
<1>1. CASE disk[k] = NoDoc
  <2>1. gist'[k] = gist[k]
    <3>1. ASSUME NEW c \in Clients, PatchLands(c) \/ PatchFails(c)
          PROVE  gist'[k] = gist[k]
      <4>1. KeyOf[c] # k
        BY <1>1, <3>1 DEF PatchLands, PatchFails, Inv, SavesOK, Storing
      <4> QED BY <3>1, <4>1 DEF PatchLands, PatchFails, Inv, TypeOK
    <3>2. gist' = gist \/ \E c \in Clients : PatchLands(c) \/ PatchFails(c)
      BY DEF Next, Start, Advance, UseCache, SendGet, GetServed, GetReturns, GetFails, PatchReturns,
             Age, Preflight, Crash, ColdStart, Restart
    <3> QED BY <3>1, <3>2
  <2>2. disk'[k] # NoDoc => gist'[k] \subseteq disk'[k]
    BY DEF Inv, MirrorOK
  <2> QED BY <1>1, <2>1, <2>2 DEF Durable
<1>2. CASE disk[k] # NoDoc /\ ColdStart
  <2>1. disk'[k] = NoDoc /\ gist' = gist
    BY <1>2, NoDocFacts DEF ColdStart, Restart
  <2>2. k \notin behind /\ ~ Patching(k) => disk[k] \subseteq gist[k]
    BY DEF Inv, CopiesOK
  <2> QED BY <1>2, <2>1, <2>2 DEF Durable
<1>3. CASE disk[k] # NoDoc /\ ~ ColdStart
  <2>1. ASSUME NEW c \in Clients, Start(c) \/ UseCache(c) \/ GetReturns(c) \/ GetFails(c)
        PROVE  disk[k] \subseteq disk'[k]
    BY <2>1, StartInv, LoadReturnsInv DEF Kept
  <2>2. \/ disk' = disk
        \/ \E c \in Clients : Start(c) \/ UseCache(c) \/ GetReturns(c) \/ GetFails(c)
    BY <1>3 DEF Next, Advance, SendGet, GetServed, PatchLands, PatchReturns, PatchFails,
           Age, Preflight, Crash, Restart
  <2>3. disk[k] \subseteq disk'[k]
    BY <2>1, <2>2
  <2>4. disk'[k] # NoDoc
    BY <1>3, <2>3 DEF NoDoc
  <2> QED BY <1>3, <2>3, <2>4 DEF Durable
<1> QED BY <1>1, <1>2, <1>3

(***************************************************************************)
(* What is on record survives: crashes, a wiped disk, lost and overtaken   *)
(* PATCHes and the shared cache, for a document of which every load found  *)
(* all there was.  Only a wipe that comes before the gist has caught up    *)
(* with the disk loses what the disk alone had (persistence.py:401-428).   *)
(***************************************************************************)
THEOREM RecordedHistorySurvives == Spec => HistorySurvives
<1> DEFINE Survives == \A k \in Keys \ (blind \union blind') :
                          \/ Durable(k) \subseteq Durable(k)'
                          \/ ColdStart /\ (k \in behind \/ Patching(k))
<1>1. Inv /\ Inv' /\ [Next]_vars => [Survives]_vars
  BY StepKeeps
<1> QED BY <1>1, Invariance, PTL DEF Spec, HistorySurvives

(***************************************************************************)
(* What is on the disk stays there, unless a load that was overtaken by    *)
(* another client's save undoes it, or the disk is replaced.               *)
(***************************************************************************)
THEOREM DiskNeverForgets == Spec => DiskForgetsNothing
<1> DEFINE Forgives == \A k \in Keys :
                          \/ disk[k] \subseteq disk'[k]
                          \/ ColdStart
                          \/ \E c \in Clients : KeyOf[c] = k /\ Overtaken(c)
<1>1. Inv /\ [Next]_vars => [Forgives]_vars
  <2> SUFFICES ASSUME Inv, Next PROVE Forgives
    OBVIOUS
  <2>1. ASSUME NEW c \in Clients, Start(c) \/ UseCache(c) \/ GetReturns(c) \/ GetFails(c)
        PROVE  Forgives
    BY <2>1, StartInv, LoadReturnsInv DEF Kept
  <2>2. \/ disk' = disk
        \/ ColdStart
        \/ \E c \in Clients : Start(c) \/ UseCache(c) \/ GetReturns(c) \/ GetFails(c)
    BY DEF Next, Advance, SendGet, GetServed, PatchLands, PatchReturns, PatchFails,
           Age, Preflight, Crash, Restart
  <2> QED BY <2>1, <2>2
<1> QED BY <1>1, Invariance, PTL DEF Spec, DiskForgetsNothing

-----------------------------------------------------------------------------
(***************************************************************************)
(* GistStore._lock.  A line q of the members of W: each of them once.      *)
(***************************************************************************)
InLine(q, W) ==
    /\ {q[i] : i \in 1..Len(q)} = W
    /\ \A i, j \in 1..Len(q) : q[i] = q[j] => i = j

\* Those that hold the lock or wait for it.
AtLock == {c \in Clients : pc[c] \in {"waiting", "reading", "answered", "landed"}}

\* Whose operation is under way may go on by itself, or waits for the holder of
\* the lock, which may.
SomebodyMayGoOn ==
    \A c \in Clients :
        \/ pc[c] \in {"idle", "patching"}
        \/ \E d \in Clients : HasLock(d) /\ d \in AtLock

\* Nobody falls back in the line.
NobodyFallsBack ==
    \A i \in 1..Len(lockq) :
        lockq[i] \in AtLock' => \E j \in 1..i : lockq'[j] = lockq[i]

\* The steps that an operation has left.
StepsLeft(c) ==
    IF pc[c] = "waiting" THEN 5
    ELSE IF pc[c] = "reading" THEN 4
    ELSE IF pc[c] = "answered" THEN 3
    ELSE IF pc[c] = "patching" THEN 2
    ELSE IF pc[c] = "landed" THEN 1
    ELSE 0

\* An operation's own steps lower it, and those of others never raise it.
OperationsDwindle ==
    \A c \in Clients : pc[c] # "idle" =>
        /\ StepsLeft(c) \in 1..5 /\ StepsLeft(c)' \in 0..StepsLeft(c)
        /\ Advance(c) => StepsLeft(c)' # StepsLeft(c)

LEMMA LastJoins ==
    ASSUME NEW S, NEW q \in Seq(S), NEW W, InLine(q, W), NEW c \in S, c \notin W
    PROVE  /\ InLine(Append(q, c), W \union {c})
           /\ \A i \in 1..Len(q) : \E j \in 1..i : Append(q, c)[j] = q[i]
<1> DEFINE r == Append(q, c)
<1>1. /\ Len(q) \in Nat /\ Len(r) = Len(q) + 1
      /\ \A i \in 1..Len(q) : r[i] = q[i]
      /\ r[Len(q) + 1] = c
  BY AppendProperties
<1> HIDE DEF r
<1>2. 1..Len(r) = (1..Len(q)) \union {Len(q) + 1}
  BY <1>1
<1>3. {r[i] : i \in 1..Len(r)} = W \union {c}
  BY <1>1, <1>2 DEF InLine
<1>4. \A i \in 1..Len(q) : q[i] # c
  BY DEF InLine
<1>5. \A i, j \in 1..Len(r) : r[i] = r[j] => i = j
  BY <1>1, <1>2, <1>4 DEF InLine
<1>6. \A i \in 1..Len(q) : i \in 1..i
  BY <1>1
<1> QED BY <1>1, <1>3, <1>5, <1>6 DEF InLine, r

LEMMA FirstLeaves ==
    ASSUME NEW S, NEW q \in Seq(S), NEW W, InLine(q, W), q # << >>
    PROVE  /\ InLine(Tail(q), W \ {Head(q)})
           /\ \A i \in 1..Len(q) : q[i] # Head(q) => \E j \in 1..i : Tail(q)[j] = q[i]
<1> DEFINE r == Tail(q)
           c == Head(q)
<1>1. /\ Len(q) \in Nat \ {0} /\ Len(r) = Len(q) - 1
      /\ \A i \in 1..Len(r) : r[i] = q[i + 1]
      /\ q[1] = c
  BY HeadTailProperties
<1> HIDE DEF r, c
<1>2. \A i \in 1..Len(q) : q[i] = c <=> i = 1
  BY <1>1 DEF InLine
<1>3. \A i \in 1..Len(r) : i + 1 \in 1..Len(q) /\ i + 1 # 1
  BY <1>1
<1>4. \A i \in 1..Len(q) : i # 1 => i - 1 \in 1..Len(r) /\ i - 1 \in 1..i /\ (i - 1) + 1 = i
  BY <1>1
<1>5. \A i \in 1..Len(q) : i # 1 => r[i - 1] = q[i]
  BY <1>1, <1>4
<1>6. {r[i] : i \in 1..Len(r)} = W \ {c}
  <2>1. ASSUME NEW x \in W, x # c PROVE x \in {r[i] : i \in 1..Len(r)}
    <3>1. PICK i \in 1..Len(q) : q[i] = x
      BY DEF InLine
    <3> QED BY <1>2, <1>4, <1>5, <2>1, <3>1
  <2>2. ASSUME NEW i \in 1..Len(r) PROVE r[i] \in W \ {c}
    BY <1>1, <1>2, <1>3 DEF InLine
  <2> QED BY <2>1, <2>2
<1>7. \A i, j \in 1..Len(r) : r[i] = r[j] => i = j
  <2> SUFFICES ASSUME NEW i \in 1..Len(r), NEW j \in 1..Len(r), r[i] = r[j]
               PROVE  i = j
    OBVIOUS
  <2>1. i + 1 = j + 1
    BY <1>1, <1>3 DEF InLine
  <2> QED BY <1>1, <2>1
<1>8. \A i \in 1..Len(q) : q[i] # c => \E j \in 1..i : r[j] = q[i]
  BY <1>2, <1>4, <1>5
<1> QED BY <1>6, <1>7, <1>8 DEF InLine, r, c

\* A step moves one client; it is at the lock afterwards or it is not.
LEMMA AtLockAfter ==
    ASSUME TypeOK, NEW c \in Clients, NEW s, pc' = [pc EXCEPT ![c] = s]
    PROVE  /\ s \in {"waiting", "reading", "answered", "landed"} => AtLock' = AtLock \union {c}
           /\ s \in {"idle", "patching"} => AtLock' = AtLock \ {c}
BY DEF TypeOK, AtLock

\* Joins, leaves, or moves on without touching the line.
LEMMA LineMoves ==
    ASSUME Inv, Next
    PROVE  \/ lockq' = lockq /\ AtLock' = AtLock
           \/ \E c \in Clients \ AtLock : lockq' = Append(lockq, c) /\ AtLock' = AtLock \union {c}
           \/ \E c \in Clients : HasLock(c) /\ lockq' = Tail(lockq) /\ AtLock' = AtLock \ {c}
           \/ lockq' = << >> /\ AtLock' = {}
<1> DEFINE Off == {"idle", "patching"}
<1>1. TypeOK /\ Locked
  BY DEF Inv
<1>2. \A c \in Clients : c \in AtLock <=> pc[c] \in {"waiting", "reading", "answered", "landed"}
  BY DEF AtLock
<1>3. ASSUME NEW c \in Clients, NEW o, NEW doc, NEW onDisk, Continue(c, o, doc, onDisk)
      PROVE  AtLock' = AtLock \ {c}
  <2>1. PICK s \in Off : pc' = [pc EXCEPT ![c] = s]
    BY <1>3 DEF Continue
  <2> QED BY <1>1, <2>1, AtLockAfter
<1>4. ASSUME NEW c \in Clients, Start(c)
      PROVE  \/ lockq' = lockq /\ AtLock' = AtLock
             \/ c \notin AtLock /\ lockq' = Append(lockq, c) /\ AtLock' = AtLock \union {c}
  <2>1. c \notin AtLock
    BY <1>2, <1>4 DEF Start
  <2>2. PICK o : StartHeld(c, o) \/ StartOnDisk(c, o) \/ StartInCache(c, o) \/ StartAtGist(c, o)
    BY <1>4 DEF Start
  <2>3. CASE StartAtGist(c, o)
    BY <1>1, <2>1, <2>3, AtLockAfter DEF StartAtGist
  <2>4. CASE StartHeld(c, o) \/ StartOnDisk(c, o) \/ StartInCache(c, o)
    BY <1>3, <2>1, <2>4 DEF StartHeld, StartOnDisk, StartInCache, ContinueWithMirror
  <2> QED BY <2>2, <2>3, <2>4
<1>5. ASSUME NEW c \in Clients, UseCache(c) \/ GetReturns(c) \/ GetFails(c)
      PROVE  HasLock(c) /\ lockq' = Tail(lockq) /\ AtLock' = AtLock \ {c}
  BY <1>1, <1>3, <1>5 DEF UseCache, GetReturns, GetFails, ContinueWithMirror, Locked
<1>6. ASSUME NEW c \in Clients, PatchReturns(c)
      PROVE  HasLock(c) /\ lockq' = Tail(lockq) /\ AtLock' = AtLock \ {c}
  BY <1>1, <1>6, AtLockAfter DEF PatchReturns, Settle
<1>7. ASSUME NEW c \in Clients, SendGet(c) \/ GetServed(c) \/ PatchFails(c)
      PROVE  lockq' = lockq /\ AtLock' = AtLock
  BY <1>1, <1>2, <1>7, AtLockAfter DEF SendGet, GetServed, PatchFails, Settle
<1>8. ASSUME NEW c \in Clients, PatchLands(c)
      PROVE  c \notin AtLock /\ lockq' = Append(lockq, c) /\ AtLock' = AtLock \union {c}
  BY <1>1, <1>2, <1>8, AtLockAfter DEF PatchLands
<1>9. CASE Age \/ Preflight
  BY <1>9 DEF Age, Preflight, AtLock
<1>10. CASE Crash \/ ColdStart
  BY <1>10 DEF Crash, ColdStart, Restart, AtLock
<1> QED BY <1>4, <1>5, <1>6, <1>7, <1>8, <1>9, <1>10 DEF Next, Advance

LEMMA LineKept ==
    ASSUME Inv, InLine(lockq, AtLock), [Next]_vars
    PROVE  InLine(lockq', AtLock') /\ NobodyFallsBack
<1>1. lockq \in Seq(Clients) /\ AtLock \subseteq Clients
  BY DEF Inv, TypeOK, AtLock
<1>2. \A i \in 1..Len(lockq) : lockq[i] \in AtLock /\ i \in 1..i
  BY <1>1 DEF InLine
<1>3. CASE UNCHANGED vars \/ (lockq' = lockq /\ AtLock' = AtLock)
  <2>1. lockq' = lockq /\ AtLock' = AtLock
    BY <1>3 DEF vars, AtLock
  <2> QED BY <1>2, <2>1 DEF NobodyFallsBack
<1>4. ASSUME NEW c \in Clients \ AtLock, lockq' = Append(lockq, c), AtLock' = AtLock \union {c}
      PROVE  InLine(lockq', AtLock') /\ NobodyFallsBack
  BY <1>1, <1>4, LastJoins DEF NobodyFallsBack
<1>5. ASSUME NEW c \in Clients, HasLock(c), lockq' = Tail(lockq), AtLock' = AtLock \ {c}
      PROVE  InLine(lockq', AtLock') /\ NobodyFallsBack
  BY <1>1, <1>5, FirstLeaves DEF NobodyFallsBack, HasLock
<1>6. CASE lockq' = << >> /\ AtLock' = {}
  BY <1>6 DEF NobodyFallsBack, InLine
<1> QED BY <1>3, <1>4, <1>5, <1>6, LineMoves

(***************************************************************************)
(* The lock of the gist's cache strands nobody (persistence.py:276): the   *)
(* queue holds those that wait, and whoever is at its head is at a step of *)
(* its own, whatever failed before it and however often the process died.  *)
(***************************************************************************)
THEOREM NobodyIsStranded == Spec => [](InLine(lockq, AtLock) /\ SomebodyMayGoOn)
<1>1. Init => InLine(lockq, AtLock)
  BY DEF Init, InLine, AtLock
<1>2. Inv /\ InLine(lockq, AtLock) /\ [Next]_vars => InLine(lockq, AtLock)'
  BY LineKept
<1>3. Inv /\ InLine(lockq, AtLock) => SomebodyMayGoOn
  <2> SUFFICES ASSUME Inv, InLine(lockq, AtLock), NEW c \in Clients, pc[c] \notin {"idle", "patching"}
               PROVE  \E d \in Clients : HasLock(d) /\ d \in AtLock
    BY DEF SomebodyMayGoOn
  <2>1. c \in AtLock
    BY DEF Inv, TypeOK, Stages, AtLock
  <2>2. PICK i \in 1..Len(lockq) : lockq[i] = c
    BY <2>1 DEF InLine
  <2>3. lockq # << >> /\ 1 \in 1..Len(lockq) /\ Head(lockq) = lockq[1]
    BY <2>2, HeadTailProperties DEF Inv, TypeOK
  <2>4. lockq[1] \in AtLock
    BY <2>3 DEF InLine
  <2> QED BY <2>3, <2>4 DEF HasLock, AtLock
<1> QED BY <1>1, <1>2, <1>3, Invariance, PTL DEF Spec

(***************************************************************************)
(* Every load and save is over after five steps of its own, and while it   *)
(* waits for the lock nobody overtakes it (persistence.py:334).            *)
(***************************************************************************)
THEOREM OperationsRunOut == Spec => [][OperationsDwindle /\ NobodyFallsBack]_vars
<1>1. ASSUME Inv, Next, NEW c \in Clients, pc[c] # "idle"
      PROVE  /\ StepsLeft(c) \in 1..5 /\ StepsLeft(c)' \in 0..StepsLeft(c)
             /\ Advance(c) => StepsLeft(c)' # StepsLeft(c)
  <2>1. pc[c] \in Stages /\ c \in DOMAIN pc
    <3>1. pc \in [Clients -> Stages]
      BY <1>1 DEF Inv, TypeOK
    <3> QED BY <3>1
  <2>2. StepsLeft(c) \in 1..5
    BY <1>1, <2>1 DEF StepsLeft, Stages
  <2>3. ASSUME Advance(c)
        PROVE  StepsLeft(c)' \in 0..StepsLeft(c) - 1
    <3>1. CASE UseCache(c) \/ GetReturns(c) \/ GetFails(c)
      <4>1. pc[c] \in {"waiting", "reading", "answered"}
        BY <3>1 DEF UseCache, GetReturns, GetFails
      <4>2. \E o, doc, onDisk : Continue(c, o, doc, onDisk)
        BY <3>1 DEF UseCache, GetReturns, GetFails, ContinueWithMirror
      <4>3. pc'[c] \in {"idle", "patching"}
        BY <2>1, <4>2 DEF Continue
      <4> QED BY <4>1, <4>3 DEF StepsLeft
    <3>2. CASE SendGet(c) \/ GetServed(c)
      BY <2>1, <3>2 DEF SendGet, GetServed, StepsLeft
    <3>3. CASE PatchLands(c) \/ PatchReturns(c) \/ PatchFails(c)
      BY <2>1, <3>3 DEF PatchLands, PatchReturns, PatchFails, Settle, StepsLeft
    <3> QED BY <2>3, <3>1, <3>2, <3>3 DEF Advance
  <2>4. ASSUME NEW d \in Clients \ {c}, Start(d) \/ Advance(d)
        PROVE  StepsLeft(c)' = StepsLeft(c)
    <3>1. pc'[c] = pc[c]
      <4>1. CASE Start(d)
        BY <2>1, <2>4, <4>1 DEF Start, StartHeld, StartOnDisk, StartInCache, StartAtGist,
                  ContinueWithMirror, Continue
      <4>2. CASE Advance(d)
        BY <2>1, <2>4, <4>2 DEF Advance, UseCache, SendGet, GetServed, GetReturns, GetFails,
                  PatchLands, PatchReturns, PatchFails, Settle, ContinueWithMirror, Continue
      <4> QED BY <2>4, <4>1, <4>2
    <3> QED BY <3>1 DEF StepsLeft
  <2>5. ~ Start(c)
    BY <1>1 DEF Start
  <2>6. Age \/ Preflight => StepsLeft(c)' = StepsLeft(c)
    BY DEF Age, Preflight, StepsLeft
  <2>7. Crash \/ ColdStart => StepsLeft(c)' = 0
    BY DEF Crash, ColdStart, Restart, StepsLeft
  <2>8. StepsLeft(c)' \in 0..StepsLeft(c)
    BY <1>1, <2>2, <2>3, <2>4, <2>5, <2>6, <2>7 DEF Next
  <2>9. Advance(c) => StepsLeft(c)' # StepsLeft(c)
    BY <2>2, <2>3
  <2> QED BY <2>2, <2>8, <2>9
<1>2. Inv /\ InLine(lockq, AtLock) /\ [Next]_vars => [OperationsDwindle /\ NobodyFallsBack]_vars
  BY <1>1, LineKept DEF OperationsDwindle
<1> QED BY <1>2, Invariance, NobodyIsStranded, PTL DEF Spec
=============================================================================
