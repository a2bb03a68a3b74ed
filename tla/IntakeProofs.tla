---------------------------- MODULE IntakeProofs ----------------------------
(***************************************************************************)
(* What the intake guarantees for any updates, senders, limits and numbers *)
(* of deliveries and restarts: an update starts one run unless it was      *)
(* forgotten, and none is dropped before it was handled.                   *)
(***************************************************************************)
EXTENDS Intake, FiniteSetTheorems, SequenceTheorems, TLAPS

Deliveries == 1..MaxDeliveries

\* The deliveries of u that have been accepted and whose run has yet to begin.
Waiting(u) == {n \in Deliveries : stage[<<u, n>>] = "typing"}

\* A delivery of u has been received.
Touched(u) == \E n \in Deliveries : stage[<<u, n>>] \in Active \union Ended \union {"lost"}

\* u is handled, or its handling is under way in this process.
InHand(u) == u \in Handled \/ \E n \in Deliveries : stage[<<u, n>>] \in Active

\* A run that has begun or will is paid for: by an entry of _seen_updates, or
\* by what has taken this entry out.
Counted ==
    \A u \in Updates :
        started[u] + Cardinality(Waiting(u))
            <= (IF u \in seen THEN 1 ELSE 0) + restarts + forgotten[u]

\* With the webhook, what is remembered or dropped has been received.
WebhookOK ==
    mode = "webhook" =>
        /\ poller = "off"
        /\ \A u \in seen \union (Updates \ pending) : Touched(u)

\* With polling, what was dropped is handled; what lies before the offset, and
\* what the batch does not have while there is one, is in hand.
PollingOK ==
    mode = "polling" =>
        /\ \A u \in seen : InHand(u)
        /\ Updates \ pending \subseteq Handled
        /\ \A u \in Updates : u < offset => InHand(u)
        /\ batch # <<>> => \A u \in Updates : InHand(u) \/ \E i \in 1..Len(batch) : batch[i] = u

Sorted == \A i, k \in 1..Len(batch) : i < k => batch[i] < batch[k]

\* The inductive invariant.
Inv == TypeOK /\ Counted /\ WebhookOK /\ PollingOK /\ Sorted

-----------------------------------------------------------------------------
LEMMA WaitingFinite ==
    \A u : IsFiniteSet(Waiting(u)) /\ Cardinality(Waiting(u)) \in Nat
<1> SUFFICES ASSUME NEW u
             PROVE  IsFiniteSet(Waiting(u)) /\ Cardinality(Waiting(u)) \in Nat
  OBVIOUS
<1>1. IsFiniteSet(Deliveries)
  BY FS_Interval, ConstantsAssumption DEF Deliveries
<1>2. Waiting(u) \in SUBSET Deliveries
  BY DEF Waiting
<1> QED BY <1>1, <1>2, FS_Subset, FS_CardinalityType

\* One more in a finite set, or one less.
LEMMA Counting ==
    ASSUME NEW S, NEW n, IsFiniteSet(S)
    PROVE  /\ Cardinality(S) \in Nat
           /\ Cardinality(S \ {n}) \in Nat
           /\ Cardinality(S \ {n}) = IF n \in S THEN Cardinality(S) - 1 ELSE Cardinality(S)
           /\ Cardinality(S \union {n}) \in Nat
           /\ Cardinality(S \union {n}) <= Cardinality(S) + 1
<1>1. Cardinality(S) \in Nat
  BY FS_CardinalityType
<1>2. /\ Cardinality(S \ {n}) \in Nat
      /\ Cardinality(S \ {n}) = IF n \in S THEN Cardinality(S) - 1 ELSE Cardinality(S)
  BY FS_RemoveElement, FS_CardinalityType
<1>3. /\ Cardinality(S \union {n}) \in Nat
      /\ Cardinality(S \union {n}) = IF n \in S THEN Cardinality(S) ELSE Cardinality(S) + 1
  BY FS_AddElement, FS_CardinalityType
<1> QED BY <1>1, <1>2, <1>3

LEMMA InitInv == Init => Inv
<1> SUFFICES ASSUME Init PROVE Inv
  OBVIOUS
<1>1. TypeOK
  <2>1. batch \in Seq(Updates) /\ Cardinality(seen) = 0
    BY FS_EmptySet DEF Init
  <2> QED BY <2>1, ConstantsAssumption DEF Init, TypeOK, NewPoller, Stages
<1>2. \A u \in Updates : Waiting(u) = {}
  BY DEF Init, Waiting, Deliveries, Jobs
<1>3. Counted
  <2>1. \A u \in Updates : Cardinality(Waiting(u)) = 0
    BY <1>2, FS_EmptySet
  <2> QED BY <2>1 DEF Init, Counted
<1>4. WebhookOK /\ PollingOK /\ Sorted
  BY ConstantsAssumption DEF Init, WebhookOK, PollingOK, Sorted, NewPoller
<1> QED BY <1>1, <1>3, <1>4 DEF Inv

-----------------------------------------------------------------------------
\* What was received stays received, and what is in hand is handled or stays so.
LEMMA StageStep ==
    ASSUME TypeOK, NEW j \in Jobs, NEW s \in Active \union Ended \union {"duplicate"},
           To(j, s), stage[j] \in Active \union {"none"},
           stage[j] \in Active => s # "duplicate"
    PROVE  /\ stage' \in [Jobs -> Stages]
           /\ \A u \in Updates : Touched(u) => Touched(u)'
           /\ \A u \in Updates : InHand(u) => InHand(u)'
           /\ Handled \subseteq Handled'
           /\ s # "duplicate" => InHand(j[1])' /\ Touched(j[1])'
<1> USE DEF Touched, InHand, Handled, Deliveries
<1>1. stage' \in [Jobs -> Stages] /\ s \in Stages
  BY DEF TypeOK, To, Stages
<1>2. \A i \in Jobs : stage'[i] = IF i = j THEN s ELSE stage[i]
  BY DEF TypeOK, To
<1>3. \A u \in Updates, n \in 1..MaxDeliveries : <<u, n>> \in Jobs
  BY DEF Jobs
<1>4. \A i \in Jobs : /\ stage[i] \in Ended => stage'[i] \in Ended
                      /\ stage[i] \in Active => stage'[i] \in Active \union Ended
                      /\ stage[i] = "lost" => stage'[i] = "lost"
  BY <1>2 DEF Active, Ended
<1>5. PICK u0 \in Updates, n0 \in 1..MaxDeliveries : j = <<u0, n0>>
  BY DEF Jobs
<1>6. stage'[<<u0, n0>>] = s /\ j[1] = u0
  BY <1>2, <1>5
<1>7. Handled \subseteq Handled'
  BY <1>3, <1>4
<1>8. \A u \in Updates : Touched(u) => Touched(u)'
  BY <1>3, <1>4
<1>9. \A u \in Updates : InHand(u) => InHand(u)'
  BY <1>3, <1>4, <1>7
<1>10. s # "duplicate" => InHand(j[1])' /\ Touched(j[1])'
  BY <1>5, <1>6
<1> QED BY <1>1, <1>7, <1>8, <1>9, <1>10

\* Who waits for a run after a job's stage has changed.
LEMMA WaitingStep ==
    ASSUME TypeOK, NEW u \in Updates, NEW n \in Deliveries, NEW s, To(<<u, n>>, s)
    PROVE  /\ \A v \in Updates \ {u} : Waiting(v)' = Waiting(v)
           /\ s = "typing" => Waiting(u)' = Waiting(u) \union {n}
           /\ s # "typing" => Waiting(u)' = Waiting(u) \ {n}
<1>1. \A v \in Updates, k \in Deliveries :
          /\ <<v, k>> \in Jobs
          /\ stage'[<<v, k>>] = IF v = u /\ k = n THEN s ELSE stage[<<v, k>>]
  BY DEF TypeOK, To, Jobs, Deliveries
<1>2. \A v \in Updates \ {u} : Waiting(v)' = Waiting(v)
  BY <1>1 DEF Waiting
<1>3. s = "typing" => Waiting(u)' = Waiting(u) \union {n}
  BY <1>1 DEF Waiting
<1>4. s # "typing" => Waiting(u)' = Waiting(u) \ {n}
  BY <1>1 DEF Waiting
<1> QED BY <1>2, <1>3, <1>4

-----------------------------------------------------------------------------
\* A job goes on: nothing but its stage, what is charged and the count of runs.
LEMMA AdvanceInv ==
    ASSUME Inv, NEW j \in Jobs, Advance(j)
    PROVE  Inv'
<1> USE DEF Inv
<1>1. UNCHANGED <<mode, poller, pending, offset, batch, seen, forgotten, restarts>>
  BY DEF Advance, Reply, Run, RunEnds
<1>2. PICK u \in Updates, n \in Deliveries : j = <<u, n>>
  BY DEF Jobs, Deliveries
<1>3. stage[j] \in Active
  BY DEF Advance, Reply, Run, RunEnds, Active
<1>4. PICK s \in {"running", "refused", "replying", "over"} : To(j, s)
  BY DEF Advance, Reply, Run, RunEnds
<1>5. /\ stage' \in [Jobs -> Stages]
      /\ \A v \in Updates : Touched(v) => Touched(v)'
      /\ \A v \in Updates : InHand(v) => InHand(v)'
      /\ Handled \subseteq Handled'
  <2>1. s \in Active \union Ended \union {"duplicate"} /\ s # "duplicate"
    BY DEF Active, Ended
  <2> QED BY <1>3, <1>4, <2>1, StageStep
<1>6. TypeOK'
  <2>1. used' \in [Principals -> 0..Limit] /\ started' \in [Updates -> Nat]
    <3>1. CASE Reply(j) \/ RunEnds(j)
      BY <3>1 DEF Reply, RunEnds, TypeOK
    <3>2. CASE Run(j)
      <4>1. From(j) \in Principals
        BY <1>2 DEF From, Principals
      <4>2. WithinRate(From(j)) /\ Charge(From(j)) => used' \in [Principals -> 0..Limit]
        BY <4>1, ConstantsAssumption DEF TypeOK, WithinRate, Charge
      <4>3. started' \in [Updates -> Nat]
        BY <3>2, <1>2 DEF TypeOK, Run
      <4> QED BY <3>2, <4>2, <4>3 DEF Run, TypeOK
    <3> QED BY <3>1, <3>2 DEF Advance
  <2> QED BY <1>1, <1>5, <2>1 DEF TypeOK
<1>7. Counted'
  <2>1. /\ \A v \in Updates \ {u} : Waiting(v)' = Waiting(v)
        /\ Waiting(u)' = Waiting(u) \ {n}
    BY <1>2, <1>4, WaitingStep
  <2>2. Cardinality(Waiting(u)') = IF n \in Waiting(u) THEN Cardinality(Waiting(u)) - 1
                                                     ELSE Cardinality(Waiting(u))
    <3>1. IsFiniteSet(Waiting(u))
      BY WaitingFinite
    <3>2. Cardinality(Waiting(u) \ {n}) = IF n \in Waiting(u) THEN Cardinality(Waiting(u)) - 1
                                                              ELSE Cardinality(Waiting(u))
      BY <3>1, Counting
    <3> QED BY <2>1, <3>2
  <2>3. \A v \in Updates : /\ Cardinality(Waiting(v)) \in Nat
                           /\ started[v] \in Nat /\ forgotten[v] \in Nat /\ restarts \in Nat
    BY WaitingFinite DEF TypeOK
  <2>4. /\ \A v \in Updates \ {u} : started'[v] = started[v]
        /\ \/ started'[u] = started[u]
           \/ n \in Waiting(u) /\ started'[u] = started[u] + 1
    BY <1>2 DEF Advance, Reply, Run, RunEnds, TypeOK, Waiting
  <2>5. started'[u] + Cardinality(Waiting(u)') <= started[u] + Cardinality(Waiting(u))
    BY <2>2, <2>3, <2>4
  <2> QED
    <3> SUFFICES ASSUME NEW v \in Updates
                 PROVE  started'[v] + Cardinality(Waiting(v)')
                            <= (IF v \in seen' THEN 1 ELSE 0) + restarts' + forgotten'[v]
      BY DEF Counted
    <3>1. started[v] + Cardinality(Waiting(v)) <= (IF v \in seen THEN 1 ELSE 0) + restarts + forgotten[v]
      BY DEF Counted
    <3>2. started'[v] + Cardinality(Waiting(v)') <= started[v] + Cardinality(Waiting(v))
      <4>1. CASE v = u
        BY <4>1, <2>5
      <4>2. CASE v # u
        BY <4>2, <2>1, <2>3, <2>4
      <4> QED BY <4>1, <4>2
    <3>3. started'[v] \in Nat /\ Cardinality(Waiting(v)') \in Nat
      <4>1. Cardinality(Waiting(u)') \in Nat
        BY <2>1, WaitingFinite, Counting
      <4> QED BY <1>6, <4>1, <2>1, <2>3 DEF TypeOK
    <3> QED BY <1>1, <2>3, <3>1, <3>2, <3>3
<1>8. WebhookOK' /\ PollingOK' /\ Sorted'
  BY <1>1, <1>5 DEF WebhookOK, PollingOK, Sorted, TypeOK
<1> QED BY <1>6, <1>7, <1>8

-----------------------------------------------------------------------------
\* What every delivery of an update u does.
Delivered(u) ==
    /\ stage' \in [Jobs -> Stages]
    /\ \A v \in Updates : Touched(v) => Touched(v)'
    /\ \A v \in Updates : InHand(v) => InHand(v)'
    /\ Handled \subseteq Handled'
    /\ u \in seen \/ (InHand(u)' /\ Touched(u)')
    /\ seen' \subseteq seen \union {u}
    /\ Cardinality(seen') <= MaxSeen
    /\ used' \in [Principals -> 0..Limit]
    /\ forgotten' \in [Updates -> Nat]

LEMMA DeliveryStep ==
    ASSUME TypeOK, NEW u \in Updates, Deliver(u), UNCHANGED <<started, restarts>>
    PROVE  Delivered(u) /\ (Counted => Counted')
<1>1. PICK n \in NextDelivery(u) : Receive(<<u, n>>)
  BY DEF Deliver
<1> DEFINE j == <<u, n>>
<1>2. j \in Jobs /\ n \in Deliveries /\ stage[j] = "none" /\ j[1] = u
  BY DEF NextDelivery, Jobs, Deliveries
<1>3. PICK s \in {"over", "duplicate", "replying", "typing"} :
          /\ To(j, s)
          /\ s = "duplicate" => u \in seen
          /\ s = "typing" => u \notin seen
          /\ \/ UNCHANGED <<seen, forgotten>> /\ s # "typing"
             \/ /\ u \notin seen
                /\ seen' \in Remembered(u)
                /\ forgotten' = [v \in Updates |->
                      IF v \in (seen \union {u}) \ seen' THEN forgotten[v] + 1 ELSE forgotten[v]]
  BY <1>1, <1>2 DEF Receive
<1>4. /\ stage' \in [Jobs -> Stages]
      /\ \A v \in Updates : Touched(v) => Touched(v)'
      /\ \A v \in Updates : InHand(v) => InHand(v)'
      /\ Handled \subseteq Handled'
      /\ s # "duplicate" => InHand(u)' /\ Touched(u)'
  <2>1. s \in Active \union Ended \union {"duplicate"} /\ "none" \notin Active
    BY DEF Active, Ended
  <2> QED BY <1>2, <1>3, <2>1, StageStep
<1>5. seen' \subseteq seen \union {u} /\ Cardinality(seen') <= MaxSeen
  <2>1. CASE UNCHANGED seen
    BY <2>1 DEF TypeOK
  <2>2. CASE seen' \in Remembered(u)
    <3>1. CASE Cardinality(seen \union {u}) <= MaxSeen
      BY <2>2, <3>1 DEF Remembered
    <3>2. CASE ~ Cardinality(seen \union {u}) <= MaxSeen
      <4>1. seen' \subseteq seen \union {u} /\ Cardinality(seen') = Kept
        BY <2>2, <3>2 DEF Remembered, kSubset
      <4> QED BY <4>1, ConstantsAssumption
    <3> QED BY <3>1, <3>2
  <2> QED BY <1>3, <2>1, <2>2
<1>6. used' \in [Principals -> 0..Limit]
  <2>1. From(j) \in Principals
    BY <1>2 DEF From, Principals
  <2>2. WithinRate(From(j)) /\ Charge(From(j)) => used' \in [Principals -> 0..Limit]
    BY <2>1, ConstantsAssumption DEF TypeOK, WithinRate, Charge
  <2> QED BY <1>1, <2>2 DEF Receive, TypeOK
<1>7. forgotten' \in [Updates -> Nat]
  BY <1>3 DEF TypeOK
<1>8. Counted => Counted'
  <2> SUFFICES ASSUME Counted, NEW v \in Updates
               PROVE  started'[v] + Cardinality(Waiting(v)')
                          <= (IF v \in seen' THEN 1 ELSE 0) + restarts' + forgotten'[v]
    BY DEF Counted
  <2>1. /\ \A w \in Updates \ {u} : Waiting(w)' = Waiting(w)
        /\ s = "typing" => Waiting(u)' = Waiting(u) \union {n}
        /\ s # "typing" => Waiting(u)' = Waiting(u)
    BY <1>2, <1>3, WaitingStep DEF Waiting
  <2>2. /\ started'[v] = started[v] /\ restarts' = restarts
        /\ started[v] \in Nat /\ restarts \in Nat /\ forgotten[v] \in Nat
        /\ Cardinality(Waiting(v)) \in Nat
    BY WaitingFinite DEF TypeOK
  <2>3. started[v] + Cardinality(Waiting(v)) <= (IF v \in seen THEN 1 ELSE 0) + restarts + forgotten[v]
    BY DEF Counted
  <2>4. CASE v = u
    <3>1. CASE UNCHANGED <<seen, forgotten>> /\ s # "typing"
      <4>1. Waiting(v)' = Waiting(v)
        BY <2>1, <2>4, <3>1
      <4> QED BY <2>2, <2>3, <3>1, <4>1
    <3>2. CASE /\ u \notin seen
               /\ forgotten' = [w \in Updates |->
                     IF w \in (seen \union {u}) \ seen' THEN forgotten[w] + 1 ELSE forgotten[w]]
      <4>1. Cardinality(Waiting(v)') \in Nat /\ Cardinality(Waiting(v)') <= Cardinality(Waiting(v)) + 1
        <5>1. IsFiniteSet(Waiting(v))
          BY WaitingFinite
        <5>2. Waiting(v)' = Waiting(v) \/ Waiting(v)' = Waiting(v) \union {n}
          BY <2>1, <2>4
        <5>3. /\ Cardinality(Waiting(v) \union {n}) \in Nat
              /\ Cardinality(Waiting(v) \union {n}) <= Cardinality(Waiting(v)) + 1
          BY <5>1, Counting
        <5>4. CASE Waiting(v)' = Waiting(v)
          BY <2>2, <5>4
        <5>5. CASE Waiting(v)' = Waiting(v) \union {n}
          BY <5>3, <5>5
        <5> QED BY <5>2, <5>4, <5>5
      <4>2. (IF v \in seen' THEN 1 ELSE 0) + forgotten'[v] = forgotten[v] + 1
        BY <2>2, <2>4, <3>2
      <4>3. forgotten'[v] \in Nat
        BY <1>7
      <4> QED BY <2>2, <2>3, <2>4, <3>2, <4>1, <4>2, <4>3
    <3> QED BY <1>3, <3>1, <3>2
  <2>5. CASE v # u
    <3>1. Waiting(v)' = Waiting(v) /\ forgotten'[v] \in Nat
      BY <1>7, <2>1, <2>5
    <3>2. (IF v \in seen' THEN 1 ELSE 0) + forgotten'[v] >= (IF v \in seen THEN 1 ELSE 0) + forgotten[v]
      BY <1>3, <1>5, <2>2, <2>5
    <3> QED BY <2>2, <2>3, <3>1, <3>2
  <2> QED BY <2>4, <2>5
<1>9. u \in seen \/ (InHand(u)' /\ Touched(u)')
  BY <1>3, <1>4
<1> QED BY <1>4, <1>5, <1>6, <1>7, <1>8, <1>9 DEF Delivered

LEMMA WebhookInv ==
    ASSUME Inv, NEW u \in Updates, Webhook(u)
    PROVE  Inv'
<1> USE DEF Inv
<1>1. Delivered(u) /\ Counted'
  BY DeliveryStep DEF Webhook
<1>2. /\ UNCHANGED <<mode, poller, offset, batch, started, restarts>>
      /\ mode = "webhook" /\ pending' \in SUBSET Updates /\ pending \ {u} \subseteq pending'
  BY DEF Webhook, TypeOK
<1>3. TypeOK'
  BY <1>1, <1>2 DEF TypeOK, Delivered
<1>4. WebhookOK'
  BY <1>1, <1>2 DEF WebhookOK, Delivered, TypeOK
<1>5. PollingOK' /\ Sorted'
  BY <1>2 DEF PollingOK, Sorted
<1> QED BY <1>1, <1>3, <1>4, <1>5

LEMMA HandleNextInv ==
    ASSUME Inv, HandleNext
    PROVE  Inv'
<1> USE DEF Inv
<1>0. PICK u \in Updates : u = Head(batch)
  BY HeadTailProperties DEF HandleNext, TypeOK
<1>1. /\ batch \in Seq(Updates) /\ batch # <<>> /\ u = batch[1]
      /\ batch' = Tail(batch) /\ batch' \in Seq(Updates)
      /\ Len(batch') = Len(batch) - 1 /\ Len(batch) \in Nat \ {0}
      /\ \A i \in 1..Len(batch') : batch'[i] = batch[i + 1]
  BY <1>0, HeadTailProperties, EmptySeq, LenProperties DEF HandleNext, TypeOK
<1>2. Delivered(u) /\ Counted'
  BY <1>0, DeliveryStep DEF HandleNext
<1>3. UNCHANGED <<mode, poller, pending, started, restarts>> /\ mode = "polling"
  BY ConstantsAssumption DEF HandleNext, TypeOK, WebhookOK
<1>4. /\ u \in Nat /\ offset \in Nat
      /\ offset' = IF u + 1 > offset THEN u + 1 ELSE offset
  BY <1>0, ConstantsAssumption DEF HandleNext, TypeOK
<1>5. TypeOK'
  <2>1. offset' \in Nat
    BY <1>4
  <2>2. seen' \in SUBSET Updates /\ Cardinality(seen') <= MaxSeen
    BY <1>2 DEF TypeOK, Delivered
  <2> QED BY <1>1, <1>2, <1>3, <2>1, <2>2 DEF TypeOK, Delivered
<1>6. Sorted'
  BY <1>1 DEF Sorted
<1>7. InHand(u)' /\ \A v \in Updates : InHand(v) => InHand(v)'
  BY <1>1, <1>2, <1>3 DEF Delivered, PollingOK
<1>8. \A v \in seen' : InHand(v)'
  BY <1>1, <1>2, <1>3, <1>7 DEF Delivered, PollingOK, TypeOK
<1>9. \A v \in Updates : InHand(v) \/ \E i \in 1..Len(batch) : batch[i] = v
  BY <1>1, <1>3 DEF PollingOK
<1>10. \A v \in Updates : v < offset' => InHand(v)'
  <2> SUFFICES ASSUME NEW v \in Updates, v < offset' PROVE InHand(v)'
    OBVIOUS
  <2>1. v \in Nat
    BY ConstantsAssumption
  <2>2. CASE v < offset
    BY <1>3, <1>7, <2>2 DEF PollingOK
  <2>3. CASE v <= u
    <3>1. InHand(v) \/ v = u
      <4> SUFFICES ASSUME NEW i \in 1..Len(batch), batch[i] = v PROVE v = u
        BY <1>9
      <4>1. i # 1 => u < v
        BY <1>1 DEF Sorted
      <4> QED BY <1>1, <1>4, <2>1, <2>3, <4>1
    <3> QED BY <1>7, <3>1
  <2> QED BY <1>4, <2>1, <2>2, <2>3
<1>11. batch' # <<>> => \A v \in Updates : InHand(v)' \/ \E i \in 1..Len(batch') : batch'[i] = v
  <2> SUFFICES ASSUME NEW v \in Updates, ~ InHand(v)'
               PROVE  \E i \in 1..Len(batch') : batch'[i] = v
    OBVIOUS
  <2>1. PICK i \in 1..Len(batch) : batch[i] = v
    BY <1>7, <1>9
  <2>2. i # 1
    BY <1>1, <1>7, <2>1
  <2>3. i - 1 \in 1..Len(batch') /\ batch'[i - 1] = v
    BY <1>1, <2>1, <2>2
  <2> QED BY <2>3
<1>12. WebhookOK' /\ PollingOK'
  <2>1. Updates \ pending' \subseteq Handled'
    BY <1>2, <1>3 DEF Delivered, PollingOK
  <2> QED BY <1>3, <1>8, <1>10, <1>11, <2>1 DEF WebhookOK, PollingOK
<1> QED BY <1>2, <1>5, <1>6, <1>12

-----------------------------------------------------------------------------
\* An ascending sequence of a finite set has all its elements.
LEMMA AscendingFacts ==
    ASSUME NEW S \in SUBSET Updates, NEW s \in Ascending(S)
    PROVE  /\ s \in Seq(S) /\ s \in Seq(Updates) /\ Len(s) = Cardinality(S)
           /\ \A i, k \in 1..Len(s) : i < k => s[i] < s[k]
           /\ \A u \in S : \E i \in 1..Len(s) : s[i] = u
<1> DEFINE n == Cardinality(S)
<1>1. IsFiniteSet(S) /\ n \in Nat /\ S \subseteq Nat
  BY ConstantsAssumption, FS_Subset, FS_CardinalityType
<1>2. s \in [1..n -> S] /\ \A i, k \in 1..n : i < k => s[i] < s[k]
  BY DEF Ascending
<1>3. s \in Seq(S) /\ s \in Seq(Updates) /\ Len(s) = n
  <2>1. s \in [1..n -> Updates]
    BY <1>2
  <2> QED BY <1>1, <1>2, <2>1, IsASeq, LenProperties
<1>4. \A i, k \in 1..n : s[i] = s[k] => i = k
  <2> SUFFICES ASSUME NEW i \in 1..n, NEW k \in 1..n, s[i] = s[k] PROVE i = k
    OBVIOUS
  <2>1. s[i] \in Nat /\ s[k] \in Nat
    BY <1>1, <1>2
  <2>2. ~ (i < k) /\ ~ (k < i)
    BY <1>2, <2>1
  <2> QED BY <1>1, <2>2
<1>5. s \in Injection(1..n, S)
  BY <1>2, <1>4 DEF Injection, IsInjective
<1>6. Cardinality(1..n) = n
  BY <1>1, FS_Interval
<1>7. s \in Surjection(1..n, S)
  BY <1>1, <1>5, <1>6, FS_Injection
<1> QED BY <1>2, <1>3, <1>7 DEF Surjection

LEMMA PollInv ==
    ASSUME Inv, Poll \/ PollFails
    PROVE  Inv'
<1> USE DEF Inv
<1>1. /\ UNCHANGED <<mode, poller, used, offset, seen, stage, started, forgotten, restarts>>
      /\ mode = "polling" /\ batch = <<>> /\ AtRest
      /\ pending' = {u \in pending : u >= offset} /\ pending' \in SUBSET Updates
      /\ batch' = batch \/ batch' \in Ascending(pending')
  BY ConstantsAssumption DEF Poll, PollFails, TypeOK, WebhookOK
<1>2. \A u \in Updates : InHand(u) => u \in Handled
  BY <1>1 DEF InHand, AtRest, Jobs, Deliveries
<1>3. Updates \ pending' \subseteq Handled
  <2> SUFFICES ASSUME NEW u \in Updates, u \notin pending' PROVE u \in Handled
    OBVIOUS
  <2>1. u \in Nat /\ offset \in Nat
    BY ConstantsAssumption DEF TypeOK
  <2>2. u \notin pending \/ u < offset
    BY <1>1, <2>1
  <2> QED BY <1>1, <1>2, <2>2 DEF PollingOK
<1>4. batch' \in Seq(Updates) /\ Sorted'
  BY <1>1, AscendingFacts DEF TypeOK, Sorted
<1>5. batch' # <<>> => \A u \in Updates : InHand(u) \/ \E i \in 1..Len(batch') : batch'[i] = u
  <2> SUFFICES ASSUME batch' # <<>>, NEW u \in Updates, u \in pending'
               PROVE  \E i \in 1..Len(batch') : batch'[i] = u
    BY <1>3 DEF InHand
  <2>1. PICK S \in SUBSET Updates : S = pending' /\ batch' \in Ascending(S)
    BY <1>1
  <2>2. PICK b \in Ascending(S) : b = batch'
    BY <2>1
  <2>3. \E i \in 1..Len(b) : b[i] = u
    BY <2>1, AscendingFacts
  <2> QED BY <2>2, <2>3
<1>6. \A u : InHand(u)' = InHand(u)
  BY <1>1 DEF InHand, Handled
<1>7. PollingOK'
  <2>1. Handled' = Handled
    BY <1>1 DEF Handled
  <2> QED BY <1>1, <1>3, <1>5, <1>6, <2>1 DEF PollingOK
<1>8. TypeOK' /\ Counted' /\ WebhookOK'
  BY <1>1, <1>4 DEF TypeOK, Counted, Waiting, WebhookOK
<1> QED BY <1>4, <1>7, <1>8

-----------------------------------------------------------------------------
LEMMA RestartInv ==
    ASSUME Inv, Restart
    PROVE  Inv'
<1> USE DEF Inv
<1>1. /\ restarts' = restarts + 1 /\ restarts < MaxRestarts
      /\ offset' = 0 /\ batch' = <<>> /\ seen' = {} /\ poller' = NewPoller(mode)
      /\ used' = [p \in Principals |-> 0]
      /\ stage' = [j \in Jobs |-> IF stage[j] \in Active THEN "lost" ELSE stage[j]]
      /\ UNCHANGED <<mode, pending, started, forgotten>>
  BY DEF Restart
<1>2. \A u \in Updates, n \in Deliveries :
          /\ <<u, n>> \in Jobs
          /\ stage'[<<u, n>>] = IF stage[<<u, n>>] \in Active THEN "lost" ELSE stage[<<u, n>>]
  BY <1>1 DEF Jobs, Deliveries
<1>3. TypeOK'
  <2>1. Cardinality(seen') = 0 /\ batch' \in Seq(Updates)
    BY <1>1, FS_EmptySet
  <2>2. stage' \in [Jobs -> Stages]
    BY <1>1 DEF TypeOK, Stages
  <2>3. restarts' \in 0..MaxRestarts
    BY <1>1, ConstantsAssumption DEF TypeOK
  <2>4. used' \in [Principals -> 0..Limit] /\ MaxSeen >= 0
    BY <1>1, ConstantsAssumption
  <2> QED BY <1>1, <2>1, <2>2, <2>3, <2>4 DEF TypeOK, NewPoller
<1>4. Handled \subseteq Handled'
  BY <1>2 DEF Handled, Active, Ended, Deliveries
<1>5. \A u \in Updates : Touched(u) => Touched(u)'
  BY <1>2 DEF Touched
<1>6. \A u \in Updates : Waiting(u)' = {}
  BY <1>2 DEF Waiting, Active
<1>7. Counted'
  <2> SUFFICES ASSUME NEW u \in Updates
               PROVE  started'[u] + Cardinality(Waiting(u)')
                          <= (IF u \in seen' THEN 1 ELSE 0) + restarts' + forgotten'[u]
    BY DEF Counted
  <2>1. started[u] + Cardinality(Waiting(u)) <= (IF u \in seen THEN 1 ELSE 0) + restarts + forgotten[u]
    BY DEF Counted
  <2>2. /\ started[u] \in Nat /\ forgotten[u] \in Nat /\ restarts \in Nat
        /\ Cardinality(Waiting(u)) \in Nat
    BY WaitingFinite DEF TypeOK
  <2>3. Waiting(u)' = {}
    BY <1>6
  <2>4. Cardinality(Waiting(u)') = 0
    BY <2>3, FS_EmptySet
  <2> QED BY <1>1, <2>1, <2>2, <2>4
<1>8. WebhookOK'
  BY <1>1, <1>5 DEF WebhookOK, NewPoller
<1>9. PollingOK' /\ Sorted'
  BY <1>1, <1>4, ConstantsAssumption DEF PollingOK, Sorted
<1> QED BY <1>3, <1>7, <1>8, <1>9

LEMMA NextInv == Inv /\ [Next]_vars => Inv'
<1> SUFFICES ASSUME Inv, [Next]_vars PROVE Inv'
  OBVIOUS
<1>1. CASE \E u \in Updates : Webhook(u)
  BY <1>1, WebhookInv
<1>2. CASE Poll \/ PollFails
  BY <1>2, PollInv
<1>3. CASE HandleNext
  BY <1>3, HandleNextInv
<1>4. CASE \E j \in Jobs : Advance(j)
  BY <1>4, AdvanceInv
<1>5. CASE Restart
  BY <1>5, RestartInv
<1>6. CASE PollingBegins \/ \E p \in Principals : WindowEnds(p)
  <2>1. /\ UNCHANGED <<mode, pending, offset, batch, seen, stage, started, forgotten, restarts>>
        /\ poller' \in {"off", "starting", "looping", "dead"}
        /\ poller = "off" => poller' = "off"
        /\ used' \in [Principals -> 0..Limit]
    BY <1>6, ConstantsAssumption DEF PollingBegins, WindowEnds, Inv, TypeOK
  <2> QED BY <2>1 DEF Inv, TypeOK, Counted, Waiting, WebhookOK, PollingOK, Sorted, InHand, Handled, Touched
<1>7. CASE UNCHANGED vars
  BY <1>7 DEF vars, Inv, TypeOK, Counted, Waiting, WebhookOK, PollingOK, Sorted, InHand, Handled, Touched
<1> QED BY <1>1, <1>2, <1>3, <1>4, <1>5, <1>6, <1>7 DEF Next

\* The invariant holds in every reachable state.
THEOREM Invariance == Spec => []Inv
<1>1. Init => Inv
  BY InitInv
<1>2. Inv /\ [Next]_vars => Inv'
  BY NextInv
<1> QED BY <1>1, <1>2, PTL DEF Spec

(***************************************************************************)
(* Every variable holds a value of its type, and _seen_updates stays       *)
(* within its bound.                                                       *)
(***************************************************************************)
THEOREM IntakeTypes == Spec => []TypeOK
<1>1. Inv => TypeOK
  BY DEF Inv
<1> QED BY <1>1, Invariance, PTL

(***************************************************************************)
(* handle_update starts one run for an update, however often it comes; one *)
(* more only for each restart and each time the update was forgotten.      *)
(***************************************************************************)
THEOREM UpdatesRunOnce == Spec => []OneRunPerUpdate
<1>1. Inv => OneRunPerUpdate
  <2> SUFFICES ASSUME Inv, NEW u \in Updates
               PROVE  started[u] <= 1 + restarts + forgotten[u]
    BY DEF OneRunPerUpdate
  <2>1. started[u] + Cardinality(Waiting(u)) <= (IF u \in seen THEN 1 ELSE 0) + restarts + forgotten[u]
    BY DEF Inv, Counted
  <2>2. /\ started[u] \in Nat /\ forgotten[u] \in Nat /\ restarts \in Nat
        /\ Cardinality(Waiting(u)) \in Nat
    BY WaitingFinite DEF Inv, TypeOK
  <2> QED BY <2>1, <2>2
<1> QED BY <1>1, Invariance, PTL

(***************************************************************************)
(* An update that Telegram no longer has was handled to its end, or, with  *)
(* the webhook, received by a process that is at it or has died.           *)
(***************************************************************************)
THEOREM NothingIsSkipped == Spec => []DroppedMeansHandled
<1>1. Inv => DroppedMeansHandled
  <2> SUFFICES ASSUME Inv, NEW u \in Updates \ pending
               PROVE  \/ u \in Handled
                      \/ mode = "webhook" /\ \E n \in 1..MaxDeliveries :
                              stage[<<u, n>>] \in Active \union {"lost"}
    BY DEF DroppedMeansHandled
  <2>1. mode \in {"webhook", "polling"}
    BY ConstantsAssumption DEF Inv, TypeOK
  <2>2. CASE mode = "webhook"
    BY <2>2 DEF Inv, WebhookOK, Touched, Handled, Deliveries
  <2>3. CASE mode = "polling"
    BY <2>3 DEF Inv, PollingOK
  <2> QED BY <2>1, <2>2, <2>3
<1> QED BY <1>1, Invariance, PTL

-----------------------------------------------------------------------------
(***************************************************************************)
(* poll_forever skips nothing: between two batches the next getUpdates     *)
(* asks for every update whose handling has not come to an end, and while  *)
(* there is a batch, they are all in it.                                   *)
(***************************************************************************)
UnhandledIsFetched ==
    mode = "polling" /\ AtRest =>
        \A u \in Updates \ Handled :
            IF batch = <<>> THEN u \in pending /\ u >= offset
            ELSE \E i \in 1..Len(batch) : batch[i] = u

(***************************************************************************)
(* Whatever fails or restarts, polling leaves nothing behind: an update    *)
(* that was not handled is asked for with the next getUpdates, or is in    *)
(* the batch at hand (telegram.py:287).                                    *)
(***************************************************************************)
THEOREM PollingLeavesNothing == Spec => []UnhandledIsFetched
<1>1. Inv => UnhandledIsFetched
  <2> SUFFICES ASSUME Inv, mode = "polling", AtRest, NEW u \in Updates \ Handled
               PROVE  IF batch = <<>> THEN u \in pending /\ u >= offset
                      ELSE \E i \in 1..Len(batch) : batch[i] = u
    BY DEF UnhandledIsFetched
  <2>1. \A n \in Deliveries : stage[<<u, n>>] \notin Active
    BY DEF AtRest, Jobs, Deliveries
  <2>2. ~ InHand(u)
    BY <2>1 DEF InHand
  <2>3. u \in Nat /\ offset \in Nat
    BY ConstantsAssumption DEF Inv, TypeOK
  <2> QED BY <2>2, <2>3 DEF Inv, PollingOK
<1> QED BY <1>1, Invariance, PTL
=============================================================================
