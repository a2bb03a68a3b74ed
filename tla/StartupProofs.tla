--------------------------- MODULE StartupProofs ---------------------------
(***************************************************************************)
(* What Startup guarantees for any number of instances, and any bounds on  *)
(* the account: types, what one failure cannot do, that the cached gist is *)
(* kept, and how many gists there can be.                                  *)
(***************************************************************************)
EXTENDS Startup, FiniteSetTheorems, TLAPS

\* An instance looks for a gist only if it knows none.
Unattached(i) ==
    /\ configured = NoGist
    /\ gistId[i] = NoGist
    /\ idFile[i] = NoGist

\* How many requests may have failed at each stage.
Failures(i) ==
    /\ stage[i] \in {"down", "probing"} => missed[i] = 0
    /\ stage[i] = "probing" => pass[i] = 1
    /\ stage[i] = "listing" =>
          (pass[i] = 1 /\ missed[i] = 0) \/ (pass[i] = 2 /\ missed[i] \in 1..2)
    /\ stage[i] = "creating" =>
          (pass[i] = 1 /\ missed[i] \in 0..1) \/ (pass[i] = 2 /\ missed[i] \in 1..3)
    /\ stage[i] \in {"telegram", "serving"} => gistId[i] # NoGist \/ missed[i] >= 2

\* What is configured, attached and noted agrees.
Agreement(i) ==
    /\ stage[i] \in {"listing", "creating"} => Unattached(i)
    /\ stage[i] = "probing" => gistId[i] = configured
    /\ configured # NoGist => idFile[i] \in {NoGist, configured}
    /\ gistId[i] # NoGist /\ idFile[i] # NoGist => gistId[i] = idFile[i]

\* The inductive invariant of everything but the number of gists.
Inv ==
    /\ TypeOK
    /\ \A i \in Instances : Failures(i) /\ Agreement(i)

Creating == {i \in Instances : stage[i] = "creating"}

(***************************************************************************)
(* A gist that is about to be created counts already: while there is none, *)
(* each instance may create one, and later only those whose list was       *)
(* refused set out to.                                                     *)
(***************************************************************************)
Room == Cardinality(account) + Cardinality(Creating) <= Cardinality(Instances) + blind

-----------------------------------------------------------------------------
LEMMA InitInv == Init => Inv
  BY ConstantsAssumption
  DEF Init, Inv, TypeOK, Failures, Agreement, Gists, NoGist, Stages, Up

LEMMA BootInv ==
    ASSUME Inv, NEW i \in Instances, Boot(i)
    PROVE  Inv'
<1>1. TypeOK'
  BY DEF Inv, TypeOK, Boot, To, Stages, Up, NoGist
<1>2. ASSUME NEW j \in Instances PROVE Failures(j)' /\ Agreement(j)'
  <2>1. Failures(j) /\ Agreement(j)
    BY DEF Inv
  <2> QED BY <2>1 DEF Inv, TypeOK, Failures, Agreement, Unattached, Boot, To
<1> QED BY <1>1, <1>2 DEF Inv

\* What an instance does to itself leaves the others as they are.
LEMMA ProbedInv ==
    ASSUME Inv, NEW i \in Instances, Probed(i)
    PROVE  Inv'
<1>1. TypeOK'
  BY DEF Inv, TypeOK, Probed, Resolve, Attach, To, Stages, Up, NoGist
<1>2. ASSUME NEW j \in Instances PROVE Failures(j)' /\ Agreement(j)'
  <2>1. Failures(j) /\ Agreement(j)
    BY DEF Inv
  <2> QED
    BY <2>1 DEF Inv, TypeOK, Failures, Agreement, Unattached, Probed, Resolve, Attach, To
<1> QED BY <1>1, <1>2 DEF Inv

LEMMA ListInv ==
    ASSUME Inv, NEW i \in Instances, List(i) \/ Create(i)
    PROVE  Inv'
<1>1. TypeOK'
  <2>1. CASE List(i)
    BY <2>1 DEF Inv, TypeOK, List, Attach, To, Stages, Up, NoGist
  <2>2. CASE Create(i)
    BY <2>2 DEF Inv, TypeOK, Create, Attach, To, Stages, Up, NoGist
  <2> QED BY <2>1, <2>2
<1>2. ASSUME NEW j \in Instances PROVE Failures(j)' /\ Agreement(j)'
  <2>1. Failures(j) /\ Agreement(j)
    BY DEF Inv
  <2>2. CASE List(i)
    BY <2>1, <2>2
    DEF Inv, TypeOK, Failures, Agreement, Unattached, List, Attach, To, Gists, NoGist
  <2>3. CASE Create(i)
    BY <2>1, <2>3
    DEF Inv, TypeOK, Failures, Agreement, Unattached, Create, Attach, To, Gists, NoGist
  <2> QED BY <2>2, <2>3
<1> QED BY <1>1, <1>2 DEF Inv

LEMMA MissInv ==
    ASSUME Inv, NEW i \in Instances, ListRefused(i) \/ ListFails(i) \/ CreateFails(i)
    PROVE  Inv'
<1> USE DEF NoGist
<1>1. Failures(i) /\ Agreement(i)
  BY DEF Inv
<1>2. missed[i] \in 0..3
  BY <1>1 DEF Failures, ListRefused, ListFails, CreateFails
<1>3. TypeOK'
  <2>1. CASE ListRefused(i)
    BY <1>2, <2>1, ConstantsAssumption DEF Inv, TypeOK, ListRefused, To, Stages, Up
  <2>2. CASE ListFails(i)
    BY <1>2, <2>2 DEF Inv, TypeOK, ListFails, Miss, To, Stages, Up
  <2>3. CASE CreateFails(i)
    BY <1>2, <2>3 DEF Inv, TypeOK, CreateFails, Miss, To, Stages, Up
  <2> QED BY <2>1, <2>2, <2>3
<1>4. ASSUME NEW j \in Instances PROVE Failures(j)' /\ Agreement(j)'
  <2>1. Failures(j) /\ Agreement(j)
    BY DEF Inv
  <2>2. CASE ListRefused(i)
    BY <2>1, <2>2 DEF Inv, TypeOK, Failures, Agreement, Unattached, ListRefused, To
  <2>3. CASE ListFails(i)
    BY <2>1, <2>3 DEF Inv, TypeOK, Failures, Agreement, Unattached, ListFails, Miss, To
  <2>4. CASE CreateFails(i)
    BY <2>1, <2>4 DEF Inv, TypeOK, Failures, Agreement, Unattached, CreateFails, Miss, To
  <2> QED BY <2>2, <2>3, <2>4
<1> QED BY <1>3, <1>4 DEF Inv

LEMMA EndInv ==
    ASSUME Inv, NEW i \in Instances, ProbeFails(i) \/ StartTelegram(i) \/ Stop(i)
    PROVE  Inv'
<1> USE DEF NoGist
<1>1. TypeOK'
  <2>1. CASE ProbeFails(i) \/ StartTelegram(i)
    BY <2>1 DEF Inv, TypeOK, ProbeFails, StartTelegram, To, Stages, Up
  <2>2. CASE Stop(i)
    BY <2>2 DEF Inv, TypeOK, Stop, To, Stages, Up
  <2> QED BY <2>1, <2>2
<1>2. ASSUME NEW j \in Instances PROVE Failures(j)' /\ Agreement(j)'
  <2>1. Failures(j) /\ Agreement(j)
    BY DEF Inv
  <2>2. CASE ProbeFails(i) \/ StartTelegram(i)
    BY <2>1, <2>2
    DEF Inv, TypeOK, Failures, Agreement, Unattached, ProbeFails, StartTelegram, To
  <2>3. CASE Stop(i)
    BY <2>1, <2>3 DEF Inv, TypeOK, Failures, Agreement, Unattached, Stop, To
  <2> QED BY <2>2, <2>3
<1> QED BY <1>1, <1>2 DEF Inv

LEMMA NextInv == Inv /\ [Next]_vars => Inv'
<1> SUFFICES ASSUME Inv, [Next]_vars PROVE Inv'
  OBVIOUS
<1>1. CASE UNCHANGED vars
  BY <1>1 DEF vars, Inv, TypeOK, Failures, Agreement, Unattached
<1>2. CASE Next
  BY <1>2, BootInv, ProbedInv, ListInv, MissInv, EndInv DEF Next, Advance
<1> QED BY <1>1, <1>2

(***************************************************************************)
(* Every variable keeps its type, and instances only ever use gists of the *)
(* account (persistence.py:161).                                           *)
(***************************************************************************)
THEOREM StartupTypes == Spec => []TypeOK
<1>1. Inv => TypeOK
  BY DEF Inv
<1> QED BY <1>1, InitInv, NextInv, PTL DEF Spec

(***************************************************************************)
(* One failed request during startup never leaves an instance without a    *)
(* gist (runtime.py:197 and 214).                                          *)
(***************************************************************************)
THEOREM FailureIsSurvived == Spec => []OneFailureIsSurvived
<1>1. Inv => OneFailureIsSurvived
  BY DEF Inv, TypeOK, Failures, OneFailureIsSurvived
<1> QED BY <1>1, InitInv, NextInv, PTL DEF Spec

(***************************************************************************)
(* A gist id once noted on a disk is there as long as the disk is          *)
(* (persistence.py:178).                                                   *)
(***************************************************************************)
THEOREM GistIsKept == Spec => KeepsItsGist
<1> DEFINE Kept == \A i \in Instances :
                idFile[i] # NoGist /\ idFile'[i] # NoGist => idFile'[i] = idFile[i]
<1>1. Inv /\ [Next]_vars => [Kept]_vars
  <2> SUFFICES ASSUME Inv, NEW i \in Instances, Boot(i) \/ Advance(i) \/ Stop(i),
                      NEW j \in Instances, idFile[j] # NoGist, idFile'[j] # NoGist
               PROVE  idFile'[j] = idFile[j]
    BY DEF Next
  <2>1. Agreement(i) /\ idFile \in [Instances -> account \union {NoGist}]
    BY DEF Inv, TypeOK
  <2>2. CASE Probed(i)
    BY <2>1, <2>2 DEF Agreement, Probed, Resolve, Attach
  <2>3. CASE List(i) \/ Create(i)
    BY <2>1, <2>3 DEF Agreement, Unattached, List, Create, Attach
  <2>4. CASE Stop(i)
    BY <2>1, <2>4 DEF Stop
  <2>5. CASE Boot(i) \/ ProbeFails(i) \/ ListRefused(i) \/ ListFails(i) \/ CreateFails(i)
             \/ StartTelegram(i)
    BY <2>5 DEF Boot, ProbeFails, ListRefused, ListFails, CreateFails, StartTelegram
  <2> QED BY <2>2, <2>3, <2>4, <2>5 DEF Advance
<1> QED BY <1>1, InitInv, NextInv, PTL DEF Spec, KeepsItsGist
-----------------------------------------------------------------------------
LEMMA Sizes ==
    ASSUME TypeOK
    PROVE  /\ IsFiniteSet(account) /\ Cardinality(account) \in Nat
           /\ IsFiniteSet(Creating) /\ Cardinality(Creating) \in Nat
           /\ Cardinality(Creating) <= Cardinality(Instances)
           /\ Cardinality(Instances) \in Nat
<1>1. IsFiniteSet(Gists)
  BY ConstantsAssumption, FS_Interval DEF Gists
<1>2. account \in SUBSET Gists /\ Creating \in SUBSET Instances
  BY DEF TypeOK, Creating
<1> QED BY <1>1, <1>2, ConstantsAssumption, FS_Subset, FS_CardinalityType

LEMMA InitRoom == Init => Room
<1> SUFFICES ASSUME Init PROVE Room
  OBVIOUS
<1>1. Cardinality(account) \in 0..1
  BY FS_EmptySet, FS_Singleton DEF Init
<1>2. Cardinality(Creating) = 0
  <2>1. Creating = {}
    BY DEF Init, Creating
  <2> QED BY <2>1, FS_EmptySet
<1>3. Cardinality(Instances) >= 1
  BY ConstantsAssumption, FS_EmptySet, FS_CardinalityType
<1>4. Cardinality(Instances) \in Nat
  BY ConstantsAssumption, FS_CardinalityType
<1> QED BY <1>1, <1>2, <1>3, <1>4 DEF Init, Room

\* An instance that creates a gist, or fails to, is no longer about to.
LEMMA CreatedRoom ==
    ASSUME TypeOK, Room, NEW i \in Instances, stage[i] = "creating",
           stage' \in {[stage EXCEPT ![i] = s] : s \in Stages \ {"creating"}},
           account' \in {account, account \union {NewGist}}, blind' = blind
    PROVE  Room'
<1>1. Creating' = Creating \ {i} /\ i \in Creating
  BY DEF Creating, TypeOK
<1>2. Cardinality(Creating') = Cardinality(Creating) - 1
  BY <1>1, Sizes, FS_RemoveElement
<1>3. Cardinality(account') \in {Cardinality(account), Cardinality(account) + 1}
  BY Sizes, FS_AddElement
<1> QED BY <1>2, <1>3, Sizes DEF Room, TypeOK

\* Whoever sets out to create one found none, or was refused the list.
LEMMA ListedRoom ==
    ASSUME TypeOK, Room, NEW i \in Instances,
           \/ List(i) /\ account = {}
           \/ ListRefused(i)
    PROVE  Room'
<1>1. CASE List(i) /\ account = {}
  <2>1. account' = {} /\ blind' = blind
    BY <1>1 DEF List
  <2>2. Cardinality(account') = 0
    BY <2>1, FS_EmptySet
  <2>3. Cardinality(Creating') <= Cardinality(Instances) /\ Cardinality(Creating') \in Nat
    <3>1. Creating' \in SUBSET Instances
      BY DEF Creating
    <3> QED BY <3>1, ConstantsAssumption, FS_Subset, FS_CardinalityType
  <2> QED BY <2>1, <2>2, <2>3, Sizes DEF Room, TypeOK
<1>2. CASE ListRefused(i)
  <2>1. Creating' = Creating \union {i} /\ account' = account /\ blind' = blind + 1
    BY <1>2 DEF ListRefused, To, Creating, TypeOK
  <2>2. Cardinality(Creating') \in {Cardinality(Creating), Cardinality(Creating) + 1}
    BY <2>1, Sizes, FS_AddElement
  <2> QED BY <2>1, <2>2, Sizes DEF Room, TypeOK
<1> QED BY <1>1, <1>2

LEMMA NextRoom == Inv /\ Room /\ [Next]_vars => Room'
<1> SUFFICES ASSUME TypeOK, Room, [Next]_vars PROVE Room'
  BY DEF Inv
<1>1. ASSUME Creating' \subseteq Creating, account' = account, blind' = blind
      PROVE  Room'
  <2>1. Cardinality(Creating') <= Cardinality(Creating) /\ Cardinality(Creating') \in Nat
    BY <1>1, Sizes, FS_Subset, FS_CardinalityType
  <2> QED BY <1>1, <2>1, Sizes DEF Room, TypeOK
<1>2. CASE UNCHANGED vars
  BY <1>1, <1>2 DEF vars, Creating
<1>3. ASSUME NEW i \in Instances,
             Boot(i) \/ Probed(i) \/ ProbeFails(i) \/ ListFails(i) \/ StartTelegram(i)
      PROVE  Room'
  BY <1>1, <1>3 DEF Boot, Probed, Resolve, Attach, ProbeFails, ListFails, Miss, StartTelegram,
                    To, Creating, TypeOK
<1>4. ASSUME NEW i \in Instances, List(i) PROVE Room'
  <2>1. CASE account = {}
    BY <1>4, <2>1, ListedRoom
  <2>2. CASE account # {}
    BY <1>1, <1>4, <2>2 DEF List, Attach, To, Creating, TypeOK
  <2> QED BY <2>1, <2>2
<1>5. ASSUME NEW i \in Instances, ListRefused(i) PROVE Room'
  BY <1>5, ListedRoom
<1>6. ASSUME NEW i \in Instances, Create(i) \/ CreateFails(i) PROVE Room'
  BY <1>6, CreatedRoom DEF Create, CreateFails, Miss, Attach, To, Stages, Up
<1>7. ASSUME NEW i \in Instances, Stop(i) PROVE Room'
  <2>1. CASE stage[i] = "creating"
    BY <1>7, <2>1, CreatedRoom DEF Stop, To, Stages, Up
  <2>2. CASE stage[i] # "creating"
    BY <1>1, <1>7, <2>2 DEF Stop, To, Creating, TypeOK
  <2> QED BY <2>1, <2>2
<1> QED BY <1>2, <1>3, <1>4, <1>5, <1>6, <1>7 DEF Next, Advance

(***************************************************************************)
(* However often instances are deployed, and whatever is lost, the account *)
(* has no more gists than instances that may be up at once and refused     *)
(* lists (persistence.py:185).                                             *)
(***************************************************************************)
THEOREM DuplicatesAreBounded == Spec => []DuplicatesAreExplained
<1>1. Inv /\ Room => DuplicatesAreExplained
  BY Sizes DEF Inv, Room, DuplicatesAreExplained, TypeOK
<1> QED BY <1>1, InitInv, NextInv, InitRoom, NextRoom, PTL DEF Spec

-----------------------------------------------------------------------------
(***************************************************************************)
(* The steps that a startup has left: each pass over the gist is at most   *)
(* one list and one creation, and there are two passes.                    *)
(***************************************************************************)
BootLeft(i) ==
    IF stage[i] = "probing" THEN 6
    ELSE IF stage[i] = "listing" THEN IF pass[i] = 1 THEN 5 ELSE 3
    ELSE IF stage[i] = "creating" THEN IF pass[i] = 1 THEN 4 ELSE 2
    ELSE IF stage[i] = "telegram" THEN 1
    ELSE 0

\* A startup's own steps lower it, and those of other instances leave it alone.
BootsDwindle ==
    \A i \in Instances :
        /\ Advance(i) => BootLeft(i) \in 1..6 /\ BootLeft(i)' \in 0..BootLeft(i) - 1
        /\ \A j \in Instances \ {i} : Boot(j) \/ Advance(j) \/ Stop(j) => BootLeft(i)' = BootLeft(i)

LEMMA AdvanceLowers ==
    ASSUME Inv, NEW i \in Instances, Advance(i)
    PROVE  BootLeft(i) \in 1..6 /\ BootLeft(i)' \in 0..BootLeft(i) - 1
<1>1. i \in DOMAIN stage /\ i \in DOMAIN pass /\ pass[i] \in {1, 2}
  BY DEF Inv, TypeOK
<1>2. CASE Probed(i)
  BY <1>1, <1>2 DEF Probed, Resolve, Attach, To, BootLeft
<1>3. CASE ProbeFails(i)
  BY <1>1, <1>3 DEF ProbeFails, To, BootLeft
<1>4. CASE List(i)
  BY <1>1, <1>4 DEF List, Attach, To, BootLeft
<1>5. CASE ListRefused(i)
  BY <1>1, <1>5 DEF ListRefused, To, BootLeft
<1>6. CASE ListFails(i)
  BY <1>1, <1>6 DEF ListFails, Miss, To, BootLeft
<1>7. CASE Create(i)
  BY <1>1, <1>7 DEF Create, Attach, To, BootLeft
<1>8. CASE CreateFails(i)
  BY <1>1, <1>8 DEF CreateFails, Miss, To, BootLeft
<1>9. CASE StartTelegram(i)
  BY <1>1, <1>9 DEF StartTelegram, To, BootLeft
<1> QED BY <1>2, <1>3, <1>4, <1>5, <1>6, <1>7, <1>8, <1>9 DEF Advance

LEMMA OthersKeep ==
    ASSUME Inv, NEW i \in Instances, NEW j \in Instances \ {i}, Boot(j) \/ Advance(j) \/ Stop(j)
    PROVE  BootLeft(i)' = BootLeft(i)
<1>1. stage'[i] = stage[i] /\ pass'[i] = pass[i]
  BY DEF Inv, TypeOK, Boot, Stop, Advance, Probed, ProbeFails, List, ListRefused, ListFails,
         Create, CreateFails, StartTelegram, Resolve, Attach, Miss, To
<1> QED BY <1>1 DEF BootLeft

(***************************************************************************)
(* Whatever fails, a startup is over after six steps: what healthy and     *)
(* preflight retry is bounded, and no other instance prolongs it           *)
(* (runtime.py:214).                                                       *)
(***************************************************************************)
THEOREM BootsRunOut == Spec => [][BootsDwindle]_vars
<1>1. Inv /\ [Next]_vars => [BootsDwindle]_vars
  BY AdvanceLowers, OthersKeep DEF BootsDwindle
<1> QED BY <1>1, InitInv, NextInv, PTL DEF Spec
=============================================================================
