-------------------------- MODULE ModelCallProofs --------------------------
(***************************************************************************)
(* What stands behind a call of the model, for any limits: the transcript  *)
(* that it is sent (Conversation), however much was trimmed, and the chain *)
(* of models that are asked (ModelRouter).                                 *)
(***************************************************************************)
EXTENDS Conversation, ModelRouter, SequenceTheorems, FiniteSetTheorems,
        WellFoundedInduction, TLAPS

-----------------------------------------------------------------------------
(***************************************************************************)
(* The transcript.  n messages were appended so far; those in front of     *)
(* what c holds are gone.                                                  *)
(***************************************************************************)
Messages == [id : Nat, kind : Kinds, of : Nat, size : Nat]

Conversations == [messages : Seq(Messages), recap : Seq(SUBSET Nat)]

Gone(c, n) == n - Len(c.messages)

\* The messages are the latest ones, in the order in which they came.
Latest(c, n) ==
    /\ Len(c.messages) <= n
    /\ \A i \in 1..Len(c.messages) :
            c.messages[i].id = Gone(c, n) + i /\ c.messages[i].of <= n

\* The recap is bounded, each summary leads to the next, and until it is full all is there.
Summarised(c, n) ==
    /\ Len(c.recap) <= MaxRecap
    /\ \A i \in 1..Len(c.recap) : c.recap[i] \subseteq 1..Gone(c, n)
    /\ \A i \in 1..Len(c.recap) : \A x \in c.recap[i], y \in 1..Gone(c, n) :
            x <= y => \E j \in i..Len(c.recap) : y \in c.recap[j]
    /\ Len(c.recap) < MaxRecap =>
            \A y \in 1..Gone(c, n) : \E j \in 1..Len(c.recap) : y \in c.recap[j]

\* The call of the result in place j, with nothing but results in between.
CallOf(messages, of, i, j) ==
    /\ messages[i].kind = "calls" /\ messages[i].id = of
    /\ \A k \in (i + 1)..j : messages[k].kind = "tool"

\* Each result has its call, unless that was trimmed before the turn was over.
Exchanges(c, lost) ==
    \A j \in 1..Len(c.messages) :
        c.messages[j].kind = "tool" =>
            \/ c.messages[j].of \in lost
            \/ \E i \in 1..(j - 1) : CallOf(c.messages, c.messages[j].of, i, j)

\* The turn t, if it is still there, is the end of the transcript.
Open(c, t) ==
    t \in Ids(c.messages) =>
        \E i \in 1..Len(c.messages) : CallOf(c.messages, t, i, Len(c.messages))

WellFormed(n, lost, t) ==
    {c \in Conversations :
        Latest(c, n) /\ Summarised(c, n) /\ Exchanges(c, lost) /\ Open(c, t)}

\* The inductive invariant.
Inv ==
    /\ count \in Nat
    /\ conv \in WellFormed(count, cut, turn.id)
    /\ ~ Overfull(conv.messages)
    /\ pc \in {"idle", "stepping", "model", "tools"}
    /\ runs \in 0..MaxRuns
    /\ step \in 0..MaxSteps
    /\ turn \in [id : 0..count, left : 0..MaxCalls]
    /\ cut \subseteq 1..count
    /\ ModelSeesItsStep
    /\ IF pc = "tools"
       THEN turn.left > 0 /\ turn.id \in Ids(conv.messages) \union cut
       ELSE turn = NoTurn

-----------------------------------------------------------------------------
(***************************************************************************)
(* Loops.  The provers have no induction over an operator, but a set with  *)
(* a member that is the least of those outside serves as well.             *)
(***************************************************************************)
LEMMA Least ==
    ASSUME NEW S \in SUBSET Nat, S # {}
    PROVE  \E x \in S : \A y \in S : x <= y
<1> DEFINE Less == OpToRel(<, Nat)
<1>1. IsWellFoundedOn(Less, Nat)
  BY NatLessThanWellFounded
<1>2. \A x, y \in Nat : x < y => <<x, y>> \in Less
  BY DEF OpToRel
<1> HIDE DEF Less
<1>3. PICK x \in S : \A y \in S : <<y, x>> \notin Less
  BY <1>1, WFMin
<1>4. \A y \in S : ~ (y < x)
  BY <1>2, <1>3
<1>5. \A y \in S : x <= y
  BY <1>4
<1> QED BY <1>5

LEMMA Induction ==
    ASSUME NEW S, 0 \in S, \A n \in Nat : n \in S => n + 1 \in S
    PROVE  Nat \subseteq S
<1> SUFFICES ASSUME Nat \ S # {} PROVE FALSE
  OBVIOUS
<1>1. PICK x \in Nat \ S : \A y \in Nat \ S : x <= y
  BY Least
<1>2. x # 0 /\ x - 1 \in Nat /\ (x - 1) + 1 = x /\ ~ (x <= x - 1)
  BY <1>1
<1>3. x - 1 \in S
  BY <1>1, <1>2
<1> QED BY <1>1, <1>2, <1>3

\* The rounds of a loop that starts with c.
Run(c, f, m) == f = [n \in 0..m |-> IF n = 0 THEN c ELSE Round(f[n - 1])]

LEMMA RunExists ==
    ASSUME NEW c, NEW m \in Nat
    PROVE  \E f : Run(c, f, m)
<1> DEFINE S == {k \in Nat : \E f : Run(c, f, k)}
<1>1. 0 \in S
  <2> DEFINE f == [n \in 0..0 |-> c]
  <2>1. Run(c, f, 0)
    BY DEF Run
  <2> QED BY <2>1
<1>2. ASSUME NEW k \in Nat, k \in S
      PROVE  k + 1 \in S
  <2>1. PICK f : Run(c, f, k)
    BY <1>2
  <2> DEFINE g == [n \in 0..(k + 1) |-> IF n = k + 1 THEN Round(f[k]) ELSE f[n]]
  <2>2. \A n \in 0..k : f[n] = IF n = 0 THEN c ELSE Round(f[n - 1])
    BY <2>1 DEF Run
  <2>3. \A n \in 0..(k + 1) : g[n] = IF n = 0 THEN c ELSE Round(g[n - 1])
    <3> SUFFICES ASSUME NEW n \in 0..(k + 1)
                 PROVE  g[n] = IF n = 0 THEN c ELSE Round(g[n - 1])
      OBVIOUS
    <3>1. CASE n = k + 1
      <4>1. g[n - 1] = f[k]
        BY <3>1
      <4> QED BY <3>1, <4>1
    <3>2. CASE n # k + 1
      <4>1. n \in 0..k /\ g[n] = f[n]
        BY <3>2
      <4>2. n # 0 => g[n - 1] = f[n - 1]
        BY <4>1
      <4> QED BY <2>2, <4>1, <4>2
    <3> QED BY <3>1, <3>2
  <2>4. Run(c, g, k + 1)
    <3> DEFINE h == [n \in 0..(k + 1) |-> IF n = 0 THEN c ELSE Round(g[n - 1])]
    <3>1. g = h
      BY <2>3
    <3> QED BY <3>1 DEF Run
  <2> QED BY <2>4
<1> HIDE DEF S
<1>3. m \in S
  BY <1>1, <1>2, Induction
<1> QED BY <1>3 DEF S

LEMMA TrimmedRuns ==
    ASSUME NEW c, Len(c.messages) \in Nat
    PROVE  \E f : Run(c, f, Len(c.messages)) /\ Trimmed(c) = f[Len(c.messages)]
<1> DEFINE f == CHOOSE g : Run(c, g, Len(c.messages))
<1>1. Run(c, f, Len(c.messages))
  BY RunExists
<1>2. Trimmed(c) = f[Len(c.messages)]
  BY DEF Trimmed, Run
<1> QED BY <1>1, <1>2

\* What every round keeps, trimming keeps.
LEMMA TrimmedStays ==
    ASSUME NEW G, NEW c \in G, Len(c.messages) \in Nat,
           \A d \in G : Round(d) \in G
    PROVE  Trimmed(c) \in G
<1> DEFINE m == Len(c.messages)
<1>1. PICK f : Run(c, f, m) /\ Trimmed(c) = f[m]
  BY TrimmedRuns
<1>2. \A n \in 0..m : f[n] = IF n = 0 THEN c ELSE Round(f[n - 1])
  BY <1>1 DEF Run
<1> DEFINE S == {n \in Nat : n <= m => f[n] \in G}
<1>3. 0 \in S
  BY <1>2
<1>4. ASSUME NEW n \in Nat, n \in S
      PROVE  n + 1 \in S
  <2> SUFFICES ASSUME n + 1 <= m PROVE f[n + 1] \in G
    OBVIOUS
  <2>1. f[n + 1] = Round(f[n]) /\ f[n] \in G
    <3>1. n + 1 \in 0..m /\ n + 1 # 0 /\ (n + 1) - 1 = n /\ n <= m
      OBVIOUS
    <3> QED BY <1>2, <1>4, <3>1
  <2> QED BY <2>1
<1> HIDE DEF S
<1>5. m \in S
  BY <1>3, <1>4, Induction
<1> QED BY <1>1, <1>5 DEF S

-----------------------------------------------------------------------------
(***************************************************************************)
(* What goes in a round.                                                   *)
(***************************************************************************)
LEMMA LeastIsMin ==
    ASSUME NEW S \in SUBSET Nat, S # {}
    PROVE  Min(S) \in S /\ \A y \in S : Min(S) <= y
BY Least DEF Min

\* A call goes with all its results, and what is not a result never goes as the last.
LEMMA OldestIsWhole ==
    ASSUME NEW s \in Seq(Messages), Len(s) > 2
    PROVE  /\ Oldest(s) \in 1..Len(s)
           /\ Oldest(s) = Len(s) => s[Len(s)].kind = "tool"
           /\ \A i \in 1..Oldest(s), j \in (Oldest(s) + 1)..Len(s) :
                  s[i].kind = "calls" => \E k \in (i + 1)..j : s[k].kind # "tool"
<1> DEFINE spoken == {i \in 1..(Len(s) - 2) : Assistant(s[i])}
           first == Min(spoken)
           after == {j \in (first + 1)..Len(s) : s[j].kind # "tool"}
<1>0. Len(s) \in Nat
  BY LenProperties
<1>1. CASE spoken = {}
  <2>1. Oldest(s) = Len(s) - 2
    BY <1>1 DEF Oldest
  <2>2. \A i \in 1..(Len(s) - 2) : s[i].kind # "calls"
    BY <1>1 DEF Assistant
  <2> QED BY <1>0, <2>1, <2>2
<1>2. CASE spoken # {}
  <2>1. /\ first \in 1..(Len(s) - 2)
        /\ \A i \in 1..(first - 1) : s[i].kind # "calls"
    <3>1. spoken \in SUBSET Nat
      BY <1>0
    <3>2. first \in spoken /\ \A i \in spoken : first <= i
      BY <1>2, <3>1, LeastIsMin
    <3>3. ASSUME NEW i \in 1..(first - 1), s[i].kind = "calls"
          PROVE  FALSE
      <4>1. i \in 1..(Len(s) - 2) /\ ~ (first <= i)
        BY <1>0, <3>2
      <4>2. i \in spoken
        BY <3>3, <4>1 DEF Assistant
      <4> QED BY <3>2, <4>1, <4>2
    <3> QED BY <3>2, <3>3
  <2> HIDE DEF first
  <2>2. CASE after = {}
    <3>1. Oldest(s) = Len(s)
      BY <1>2, <2>2 DEF Oldest, first
    <3> QED BY <1>0, <2>1, <2>2, <3>1
  <2>3. CASE after # {}
    <3> DEFINE next == Min(after)
    <3>1. Oldest(s) = next - 1
      BY <1>2, <2>3 DEF Oldest, first
    <3>2. next \in after /\ \A j \in after : next <= j
      <4>1. after \in SUBSET Nat
        BY <1>0, <2>1
      <4> QED BY <2>3, <4>1, LeastIsMin
    <3>3. next \in (first + 1)..Len(s) /\ s[next].kind # "tool"
      BY <3>2
    <3> HIDE DEF next, after
    <3>4. ASSUME NEW i \in 1..(next - 1), NEW j \in next..Len(s), s[i].kind = "calls"
          PROVE  \E k \in (i + 1)..j : s[k].kind # "tool"
      <4>1. next \in (i + 1)..j
        BY <1>0, <2>1, <3>3
      <4> QED BY <3>3, <4>1
    <3> QED BY <1>0, <2>1, <3>1, <3>3, <3>4
  <2> QED BY <2>2, <2>3
<1> QED BY <1>1, <1>2

LEMMA Suffix ==
    ASSUME NEW s \in Seq(Messages), NEW n \in 1..Len(s)
    PROVE  LET t == SubSeq(s, n + 1, Len(s))
           IN  /\ t \in Seq(Messages)
               /\ Len(t) = Len(s) - n
               /\ \A i \in 1..Len(t) : t[i] = s[n + i]
<1> DEFINE t == SubSeq(s, n + 1, Len(s))
<1>1. Len(s) \in Nat /\ \A i \in (n + 1)..Len(s) : s[i] \in Messages
  BY LenProperties, ElementOfSeq
<1>2. /\ t \in Seq(Messages)
      /\ Len(t) = IF n + 1 <= Len(s) THEN Len(s) - (n + 1) + 1 ELSE 0
      /\ \A i \in 1..(Len(s) - (n + 1) + 1) : t[i] = s[(n + 1) + i - 1]
  BY <1>1, SubSeqProperties
<1> HIDE DEF t
<1>3. Len(t) = Len(s) - n
  BY <1>1, <1>2
<1>4. \A i \in 1..Len(t) : t[i] = s[n + i]
  BY <1>1, <1>2, <1>3
<1> QED BY <1>2, <1>3, <1>4 DEF t

LEMMA IdsOfPrefix ==
    ASSUME NEW c \in Conversations, NEW n \in Nat, Latest(c, n), NEW k \in 0..Len(c.messages)
    PROVE  Ids(SubSeq(c.messages, 1, k)) = (Gone(c, n) + 1)..(Gone(c, n) + k)
<1> DEFINE s == c.messages
           p == SubSeq(s, 1, k)
<1>1. s \in Seq(Messages)
  BY DEF Conversations
<1>2. Len(s) \in Nat /\ k \in 0..Len(s) /\ \A i \in 1..k : s[i] \in Messages
  BY <1>1, LenProperties, ElementOfSeq
<1>3. /\ p \in Seq(Messages)
      /\ Len(p) = k
      /\ \A i \in 1..k : p[i] = s[i]
  <2>1. /\ p \in Seq(Messages)
        /\ Len(p) = IF 1 <= k THEN k - 1 + 1 ELSE 0
        /\ \A i \in 1..(k - 1 + 1) : p[i] = s[1 + i - 1]
    BY <1>2, SubSeqProperties
  <2> QED BY <1>2, <2>1
<1>4. \A i \in 1..Len(s) : s[i].id = Gone(c, n) + i
  BY DEF Latest
<1>5. Gone(c, n) \in Int
  BY <1>2 DEF Gone
<1> HIDE DEF s, p
<1>6. DOMAIN p = 1..k
  BY <1>3, LenProperties
<1>7. \A i \in 1..k : p[i].id = Gone(c, n) + i
  BY <1>2, <1>3, <1>4
<1>8. Ids(p) = {p[i].id : i \in 1..k}
  BY <1>6 DEF Ids
<1>9. ASSUME NEW x \in Ids(p)
      PROVE  x \in (Gone(c, n) + 1)..(Gone(c, n) + k)
  <2>1. PICK i \in 1..k : x = p[i].id
    BY <1>8
  <2>2. x = Gone(c, n) + i
    BY <1>7, <2>1
  <2> QED BY <1>5, <2>2
<1>10. ASSUME NEW x \in (Gone(c, n) + 1)..(Gone(c, n) + k)
       PROVE  x \in Ids(p)
  <2>1. x - Gone(c, n) \in 1..k /\ x = Gone(c, n) + (x - Gone(c, n))
    BY <1>5
  <2> QED BY <1>7, <1>8, <2>1
<1>11. Ids(p) = (Gone(c, n) + 1)..(Gone(c, n) + k)
  BY <1>9, <1>10
<1> QED BY <1>11 DEF p, s

LEMMA IdsOfAll ==
    ASSUME NEW c \in Conversations, NEW n \in Nat, Latest(c, n)
    PROVE  Ids(c.messages) = (Gone(c, n) + 1)..n
<1>1. c.messages \in Seq(Messages) /\ Len(c.messages) \in Nat
  BY LenProperties DEF Conversations
<1>2. SubSeq(c.messages, 1, Len(c.messages)) = c.messages
  BY <1>1, SubSeqFull
<1>3. Gone(c, n) + Len(c.messages) = n
  BY <1>1 DEF Gone
<1>4. Len(c.messages) \in 0..Len(c.messages)
  BY <1>1
<1> QED BY <1>2, <1>3, <1>4, IdsOfPrefix

\* The latest summaries stay: all, or all but the first.
LEMMA RecapKeepsLatest ==
    ASSUME NEW old \in Seq(SUBSET Nat), NEW new \in SUBSET Nat, Len(old) <= MaxRecap
    PROVE  LET r == Recap(Append(old, new))
           IN  /\ r \in Seq(SUBSET Nat)
               /\ r[Len(r)] = new
               /\ \/ /\ Len(r) = Len(old) + 1 /\ Len(r) <= MaxRecap
                     /\ \A i \in 1..Len(old) : r[i] = old[i]
                  \/ /\ Len(r) = Len(old) /\ Len(r) = MaxRecap
                     /\ \A i \in 1..(Len(old) - 1) : r[i] = old[i + 1]
<1> DEFINE all == Append(old, new)
           r == Recap(all)
<1>0. MaxRecap \in Nat /\ MaxRecap > 0
  BY ConstantsAssumption
<1>1. /\ all \in Seq(SUBSET Nat)
      /\ Len(all) = Len(old) + 1
      /\ \A i \in 1..Len(old) : all[i] = old[i]
      /\ all[Len(old) + 1] = new
  BY AppendProperties
<1>2. Len(old) \in Nat
  BY LenProperties
<1> HIDE DEF all
<1>3. CASE Len(old) + 1 <= MaxRecap
  <2>1. r = all
    BY <1>1, <1>3 DEF Recap
  <2> QED BY <1>1, <1>2, <1>3, <2>1 DEF all
<1>4. CASE ~ (Len(old) + 1 <= MaxRecap)
  <2>1. Len(old) = MaxRecap
    BY <1>0, <1>2, <1>4
  <2>2. r = SubSeq(all, 2, MaxRecap + 1)
    <3>1. Len(all) - MaxRecap + 1 = 2 /\ Len(all) = MaxRecap + 1 /\ ~ (Len(all) <= MaxRecap)
      BY <1>0, <1>1, <2>1
    <3> QED BY <3>1 DEF Recap
  <2>3. \A i \in 2..(MaxRecap + 1) : all[i] \in SUBSET Nat
    BY <1>0, <1>1, <2>1, ElementOfSeq
  <2>4. /\ r \in Seq(SUBSET Nat)
        /\ Len(r) = IF 2 <= MaxRecap + 1 THEN (MaxRecap + 1) - 2 + 1 ELSE 0
        /\ \A i \in 1..((MaxRecap + 1) - 2 + 1) : r[i] = all[2 + i - 1]
    BY <1>0, <2>2, <2>3, SubSeqProperties
  <2> HIDE DEF r
  <2>5. Len(r) = MaxRecap /\ \A i \in 1..MaxRecap : r[i] = all[i + 1]
    BY <1>0, <2>4
  <2>6. r[MaxRecap] = new /\ \A i \in 1..(MaxRecap - 1) : r[i] = old[i + 1]
    BY <1>0, <1>1, <2>1, <2>5
  <2> QED BY <2>1, <2>4, <2>5, <2>6 DEF r, all
<1> QED BY <1>3, <1>4

-----------------------------------------------------------------------------
(***************************************************************************)
(* A round keeps the transcript well-formed.                               *)
(***************************************************************************)
LEMMA DropMessages ==
    ASSUME NEW c \in Conversations, NEW n \in Nat, Latest(c, n), Len(c.messages) > 2
    PROVE  LET d == DropOldest(c)
               o == Oldest(c.messages)
           IN  /\ o \in 1..Len(c.messages)
               /\ d.messages \in Seq(Messages)
               /\ Len(d.messages) = Len(c.messages) - o
               /\ Gone(d, n) = Gone(c, n) + o
               /\ \A i \in 1..Len(d.messages) : d.messages[i] = c.messages[o + i]
               /\ Latest(d, n)
<1> DEFINE d == DropOldest(c)
           o == Oldest(c.messages)
<1>1. c.messages \in Seq(Messages) /\ Len(c.messages) \in Nat
  BY LenProperties DEF Conversations
<1>2. o \in 1..Len(c.messages)
  BY <1>1, OldestIsWhole
<1>3. d.messages = SubSeq(c.messages, o + 1, Len(c.messages))
  BY DEF DropOldest
<1> HIDE DEF o, d
<1>4. /\ d.messages \in Seq(Messages)
      /\ Len(d.messages) = Len(c.messages) - o
      /\ \A i \in 1..Len(d.messages) : d.messages[i] = c.messages[o + i]
  BY <1>1, <1>2, <1>3, Suffix
<1>5. Gone(d, n) = Gone(c, n) + o
  BY <1>1, <1>2, <1>4 DEF Gone
<1>6. Gone(c, n) \in Nat
  BY <1>1 DEF Gone, Latest
<1>7. ASSUME NEW i \in 1..Len(d.messages)
      PROVE  d.messages[i].id = Gone(d, n) + i /\ d.messages[i].of <= n
  <2>1. o + i \in 1..Len(c.messages)
    BY <1>1, <1>2, <1>4
  <2>2. /\ c.messages[o + i].id = Gone(c, n) + (o + i)
        /\ c.messages[o + i].of <= n
    BY <2>1 DEF Latest
  <2>3. (Gone(c, n) + o) + i = Gone(c, n) + (o + i)
    BY <1>1, <1>2, <1>6
  <2> QED BY <1>4, <1>5, <2>2, <2>3
<1>8. Latest(d, n)
  <2>1. Len(c.messages) <= n
    BY DEF Latest
  <2>2. Len(d.messages) <= n
    BY <1>1, <1>2, <1>4, <2>1
  <2> QED BY <1>7, <2>2 DEF Latest
<1> QED BY <1>2, <1>4, <1>5, <1>8 DEF o, d

LEMMA DropSummarises ==
    ASSUME NEW c \in Conversations, NEW n \in Nat, Latest(c, n), Len(c.messages) > 2,
           Summarised(c, n)
    PROVE  DropOldest(c) \in Conversations /\ Summarised(DropOldest(c), n)
<1> DEFINE d == DropOldest(c)
           o == Oldest(c.messages)
           old == c.recap
           new == Ids(SubSeq(c.messages, 1, o))
           g == Gone(c, n)
<1>1. /\ o \in 1..Len(c.messages)
      /\ d.messages \in Seq(Messages)
      /\ Gone(d, n) = g + o
  BY DropMessages
<1>2. Len(c.messages) \in Nat /\ g \in Nat /\ old \in Seq(SUBSET Nat) /\ Len(old) \in Nat
  BY LenProperties DEF Conversations, Gone, Latest
<1>3. new = (g + 1)..(g + o)
  BY <1>1, <1>2, IdsOfPrefix
<1>4. /\ d.recap = Recap(Append(old, new))
      /\ d = [messages |-> d.messages, recap |-> d.recap]
  BY DEF DropOldest
<1>5. Len(old) <= MaxRecap
  BY DEF Summarised
<1>6. new \in SUBSET Nat
  BY <1>1, <1>2, <1>3
<1> DEFINE r == d.recap
<1> HIDE DEF d, o, new, g, old
<1>7. /\ r \in Seq(SUBSET Nat)
      /\ r[Len(r)] = new
      /\ \/ /\ Len(r) = Len(old) + 1 /\ Len(r) <= MaxRecap
            /\ \A i \in 1..Len(old) : r[i] = old[i]
         \/ /\ Len(r) = Len(old) /\ Len(r) = MaxRecap
            /\ \A i \in 1..(Len(old) - 1) : r[i] = old[i + 1]
  BY <1>2, <1>4, <1>5, <1>6, RecapKeepsLatest
<1>8. d \in Conversations
  BY <1>1, <1>4, <1>7 DEF Conversations
<1>9. MaxRecap \in Nat /\ MaxRecap > 0
  BY ConstantsAssumption
<1>10. /\ \A i \in 1..Len(old) : old[i] \subseteq 1..g
       /\ \A i \in 1..Len(old) : \A x \in old[i], y \in 1..g :
              x <= y => \E j \in i..Len(old) : y \in old[j]
       /\ Len(old) < MaxRecap => \A y \in 1..g : \E j \in 1..Len(old) : y \in old[j]
  BY DEF Summarised, old, g
\* what is in the place before s of the old recap is in the new one
<1>11. \E s \in {0, 1} :
          /\ Len(r) = Len(old) + 1 - s
          /\ \A i \in 1..(Len(r) - 1) : r[i] = old[i + s]
          /\ s = 1 <=> Len(old) = MaxRecap
          /\ Len(r) <= MaxRecap
  <2>1. CASE Len(r) = Len(old) + 1 /\ Len(r) <= MaxRecap /\ \A i \in 1..Len(old) : r[i] = old[i]
    BY <1>2, <1>9, <2>1
  <2>2. CASE Len(r) = Len(old) /\ Len(r) = MaxRecap /\ \A i \in 1..(Len(old) - 1) : r[i] = old[i + 1]
    BY <1>2, <1>9, <2>2
  <2> QED BY <1>7, <2>1, <2>2
<1>12. PICK s \in {0, 1} :
          /\ Len(r) = Len(old) + 1 - s
          /\ \A i \in 1..(Len(r) - 1) : r[i] = old[i + s]
          /\ s = 1 <=> Len(old) = MaxRecap
          /\ Len(r) <= MaxRecap
  BY <1>11
<1>13. Len(r) \in Nat /\ Len(r) >= 1
  BY <1>2, <1>9, <1>12
<1> HIDE DEF r
<1>14. \A y \in (g + 1)..(g + o) : y \in r[Len(r)]
  BY <1>3, <1>7
<1>15. ASSUME NEW i \in 1..Len(r)
       PROVE  /\ r[i] \subseteq 1..(g + o)
              /\ \A x \in r[i], y \in 1..(g + o) :
                     x <= y => \E j \in i..Len(r) : y \in r[j]
  <2>1. CASE i = Len(r)
    <3>1. r[i] = (g + 1)..(g + o)
      BY <1>3, <1>7, <2>1
    <3>2. \A x \in r[i], y \in 1..(g + o) : x <= y => y \in r[i]
      BY <1>1, <1>2, <3>1
    <3>3. r[i] \subseteq 1..(g + o)
      BY <1>1, <1>2, <3>1
    <3>4. i \in i..Len(r)
      BY <1>13, <2>1
    <3> QED BY <3>2, <3>3, <3>4
  <2>2. CASE i # Len(r)
    <3>1. i + s \in 1..Len(old) /\ r[i] = old[i + s]
      BY <1>2, <1>12, <1>13, <2>2
    <3>2. ASSUME NEW x \in r[i], NEW y \in 1..g, x <= y
          PROVE  \E j \in i..Len(r) : y \in r[j]
      <4>1. PICK k \in (i + s)..Len(old) : y \in old[k]
        BY <1>10, <3>1, <3>2
      <4>2. /\ k - s \in 1..(Len(r) - 1) /\ k - s \in i..Len(r)
            /\ (k - s) + s = k
        BY <1>2, <1>12, <1>13, <3>1
      <4>3. r[k - s] = old[k]
        BY <1>12, <4>2
      <4> QED BY <4>1, <4>2, <4>3
    <3>3. ASSUME NEW y \in (g + 1)..(g + o)
          PROVE  \E j \in i..Len(r) : y \in r[j]
      <4>1. Len(r) \in i..Len(r)
        BY <1>13
      <4> QED BY <1>14, <4>1
    <3>4. \A y \in 1..(g + o) : y \in 1..g \/ y \in (g + 1)..(g + o)
      BY <1>1, <1>2
    <3>5. r[i] \subseteq 1..g /\ 1..g \subseteq 1..(g + o)
      BY <1>1, <1>2, <1>10, <3>1
    <3> QED BY <3>2, <3>3, <3>4, <3>5
  <2> QED BY <2>1, <2>2
<1>16. ASSUME Len(r) < MaxRecap, NEW y \in 1..(g + o)
       PROVE  \E j \in 1..Len(r) : y \in r[j]
  <2>1. s = 0 /\ Len(old) < MaxRecap
    BY <1>2, <1>9, <1>12, <1>16
  <2>2. CASE y \in 1..g
    <3>1. PICK j \in 1..Len(old) : y \in old[j]
      BY <1>10, <2>1, <2>2
    <3>2. j \in 1..(Len(r) - 1) /\ j + s = j /\ j \in 1..Len(r)
      BY <1>2, <1>12, <2>1
    <3>3. r[j] = old[j]
      BY <1>12, <3>2
    <3> QED BY <3>1, <3>2, <3>3
  <2>3. CASE y \in (g + 1)..(g + o)
    <3>1. Len(r) \in 1..Len(r)
      BY <1>13
    <3> QED BY <1>14, <2>3, <3>1
  <2> QED BY <1>1, <1>2, <2>2, <2>3
<1>17. Summarised(d, n)
  BY <1>1, <1>12, <1>15, <1>16 DEF Summarised, r
<1> QED BY <1>8, <1>17 DEF d

\* What was in front of a result that stays, stays, and a call does not lose its results.
LEMMA DropExchanges ==
    ASSUME NEW c \in Conversations, NEW n \in Nat, Latest(c, n), Len(c.messages) > 2,
           NEW lost, Exchanges(c, lost)
    PROVE  Exchanges(DropOldest(c), lost)
<1> DEFINE d == DropOldest(c)
           o == Oldest(c.messages)
           s == c.messages
           t == d.messages
<1>1. s \in Seq(Messages) /\ Len(s) \in Nat
  BY LenProperties DEF Conversations
<1>2. /\ o \in 1..Len(s)
      /\ Len(t) = Len(s) - o
      /\ \A i \in 1..Len(t) : t[i] = s[o + i]
  BY DropMessages
<1>3. \A i \in 1..o, j \in (o + 1)..Len(s) :
          s[i].kind = "calls" => \E k \in (i + 1)..j : s[k].kind # "tool"
  BY <1>1, OldestIsWhole
<1>4. \A j \in 1..Len(s) :
          s[j].kind = "tool" =>
              \/ s[j].of \in lost
              \/ \E i \in 1..(j - 1) : CallOf(s, s[j].of, i, j)
  BY DEF Exchanges
<1> HIDE DEF d, o, s, t
<1>5. ASSUME NEW j \in 1..Len(t), t[j].kind = "tool", t[j].of \notin lost
      PROVE  \E i \in 1..(j - 1) : CallOf(t, t[j].of, i, j)
  <2>1. o + j \in (o + 1)..Len(s) /\ o + j \in 1..Len(s) /\ t[j] = s[o + j]
    BY <1>1, <1>2
  <2>2. PICK i \in 1..((o + j) - 1) : CallOf(s, s[o + j].of, i, o + j)
    BY <1>4, <1>5, <2>1
  <2>3. ~ (i \in 1..o)
    BY <1>3, <2>1, <2>2 DEF CallOf
  <2>4. i - o \in 1..(j - 1) /\ o + (i - o) = i /\ i - o \in 1..Len(t)
    BY <1>1, <1>2, <2>3
  <2>5. \A k \in ((i - o) + 1)..j : k \in 1..Len(t) /\ o + k \in (i + 1)..(o + j)
    BY <1>1, <1>2, <2>4
  <2>6. CallOf(t, t[j].of, i - o, j)
    BY <1>2, <2>1, <2>2, <2>4, <2>5 DEF CallOf
  <2> QED BY <2>4, <2>6
<1>6. Exchanges(d, lost)
  BY <1>5 DEF Exchanges, t
<1> QED BY <1>6 DEF d

LEMMA DropOpen ==
    ASSUME NEW c \in Conversations, NEW n \in Nat, Latest(c, n), Len(c.messages) > 2,
           NEW t, Open(c, t)
    PROVE  Open(DropOldest(c), t)
<1> DEFINE d == DropOldest(c)
           o == Oldest(c.messages)
           g == Gone(c, n)
<1>1. c.messages \in Seq(Messages) /\ Len(c.messages) \in Nat /\ g \in Nat
  BY LenProperties DEF Conversations, Gone, Latest
<1>2. /\ o \in 1..Len(c.messages)
      /\ d.messages \in Seq(Messages)
      /\ Len(d.messages) = Len(c.messages) - o
      /\ \A i \in 1..Len(d.messages) : d.messages[i] = c.messages[o + i]
  BY DropMessages
<1>3. DOMAIN d.messages = 1..Len(d.messages) /\ DOMAIN c.messages = 1..Len(c.messages)
  BY <1>1, <1>2, LenProperties
<1>4. \A i \in 1..Len(c.messages) : c.messages[i].id = g + i
  BY DEF Latest
<1> HIDE DEF d, o, g
<1>5. SUFFICES ASSUME t \in Ids(d.messages)
               PROVE  \E i \in 1..Len(d.messages) : CallOf(d.messages, t, i, Len(d.messages))
  BY DEF Open, d
<1>6. PICK x \in 1..Len(d.messages) : d.messages[x].id = t
  BY <1>3, <1>5 DEF Ids
<1>7. o + x \in 1..Len(c.messages) /\ c.messages[o + x].id = t
  <2>1. o + x \in 1..Len(c.messages)
    BY <1>1, <1>2
  <2> QED BY <1>2, <1>6, <2>1
<1>8. t \in Ids(c.messages)
  BY <1>3, <1>7 DEF Ids
<1>9. PICK i \in 1..Len(c.messages) : CallOf(c.messages, t, i, Len(c.messages))
  BY <1>8 DEF Open
<1>10. i = o + x
  <2>1. g + i = g + (o + x)
    BY <1>4, <1>7, <1>9 DEF CallOf
  <2> QED BY <1>1, <1>2, <2>1
<1>11. \A k \in (x + 1)..Len(d.messages) :
          k \in 1..Len(d.messages) /\ o + k \in (i + 1)..Len(c.messages)
  BY <1>1, <1>2, <1>10
<1>12. CallOf(d.messages, t, x, Len(d.messages))
  BY <1>2, <1>6, <1>9, <1>10, <1>11 DEF CallOf
<1> QED BY <1>12

\* The last message, if it is no result, stays the last.
Ends(c, last) == Len(c.messages) > 0 /\ c.messages[Len(c.messages)] = last

LEMMA DropEnds ==
    ASSUME NEW c \in Conversations, NEW n \in Nat, Latest(c, n), Len(c.messages) > 2,
           NEW last, last.kind # "tool", Ends(c, last)
    PROVE  Ends(DropOldest(c), last)
<1> DEFINE d == DropOldest(c)
           o == Oldest(c.messages)
<1>1. c.messages \in Seq(Messages) /\ Len(c.messages) \in Nat
  BY LenProperties DEF Conversations
<1>2. /\ o \in 1..Len(c.messages)
      /\ Len(d.messages) = Len(c.messages) - o
      /\ \A i \in 1..Len(d.messages) : d.messages[i] = c.messages[o + i]
  BY DropMessages
<1>3. o # Len(c.messages)
  BY <1>1, OldestIsWhole DEF Ends
<1> HIDE DEF d, o
<1>4. Len(d.messages) \in 1..Len(d.messages) /\ o + Len(d.messages) = Len(c.messages)
  BY <1>1, <1>2, <1>3
<1>5. Ends(d, last)
  BY <1>2, <1>4 DEF Ends
<1> QED BY <1>5 DEF d

LEMMA RoundKeeps ==
    ASSUME NEW n \in Nat, NEW lost, NEW t, NEW c \in WellFormed(n, lost, t)
    PROVE  /\ Round(c) \in WellFormed(n, lost, t)
           /\ \A last : last.kind # "tool" /\ Ends(c, last) => Ends(Round(c), last)
<1>1. /\ c \in Conversations
      /\ Latest(c, n) /\ Summarised(c, n) /\ Exchanges(c, lost) /\ Open(c, t)
  BY DEF WellFormed
<1>2. CASE Overfull(c.messages)
  <2>1. Len(c.messages) > 2 /\ Round(c) = DropOldest(c)
    BY <1>2 DEF Overfull, Round
  <2>2. /\ DropOldest(c) \in Conversations
        /\ Latest(DropOldest(c), n) /\ Summarised(DropOldest(c), n)
    BY <1>1, <2>1, DropMessages, DropSummarises
  <2>3. Exchanges(DropOldest(c), lost) /\ Open(DropOldest(c), t)
    BY <1>1, <2>1, DropExchanges, DropOpen
  <2>4. \A last : last.kind # "tool" /\ Ends(c, last) => Ends(DropOldest(c), last)
    BY <1>1, <2>1, DropEnds
  <2> QED BY <2>1, <2>2, <2>3, <2>4 DEF WellFormed
<1>3. CASE ~ Overfull(c.messages)
  BY <1>3 DEF Round
<1> QED BY <1>2, <1>3

-----------------------------------------------------------------------------
(***************************************************************************)
(* Appending.                                                              *)
(***************************************************************************)
\* Trimming ends within the limits: each round takes a message at least.
LEMMA TrimmedFits ==
    ASSUME NEW n \in Nat, NEW lost, NEW t, NEW c \in WellFormed(n, lost, t)
    PROVE  ~ Overfull(Trimmed(c).messages)
<1> DEFINE m == Len(c.messages)
           W == WellFormed(n, lost, t)
<1>1. ASSUME NEW d \in W
      PROVE  /\ Len(d.messages) \in Nat /\ Round(d) \in W
             /\ Overfull(d.messages) => Len(Round(d).messages) <= Len(d.messages) - 1
             /\ ~ Overfull(d.messages) => Round(d) = d
  <2>1. d \in Conversations /\ Latest(d, n) /\ Len(d.messages) \in Nat
    BY LenProperties DEF WellFormed, Conversations
  <2>2. Round(d) \in W
    BY RoundKeeps
  <2>3. ASSUME Overfull(d.messages)
        PROVE  Len(Round(d).messages) <= Len(d.messages) - 1
    <3>1. Len(d.messages) > 2 /\ Round(d) = DropOldest(d)
      BY <2>3 DEF Overfull, Round
    <3>2. /\ Oldest(d.messages) \in 1..Len(d.messages)
          /\ Len(DropOldest(d).messages) = Len(d.messages) - Oldest(d.messages)
      BY <2>1, <3>1, DropMessages
    <3> QED BY <2>1, <3>1, <3>2
  <2>4. ~ Overfull(d.messages) => Round(d) = d
    BY DEF Round
  <2> QED BY <2>1, <2>2, <2>3, <2>4
<1> HIDE DEF W
<1>2. c \in W /\ m \in Nat
  BY <1>1 DEF W
<1>3. PICK f : Run(c, f, m) /\ Trimmed(c) = f[m]
  BY <1>2, TrimmedRuns
<1>4. \A k \in 0..m : f[k] = IF k = 0 THEN c ELSE Round(f[k - 1])
  BY <1>3 DEF Run
<1> DEFINE S == {k \in Nat : k <= m =>
                    f[k] \in W /\ (Len(f[k].messages) <= m - k \/ ~ Overfull(f[k].messages))}
<1>5. 0 \in S
  <2>1. f[0] = c
    BY <1>2, <1>4
  <2> QED BY <1>2, <2>1
<1>6. ASSUME NEW k \in Nat, k \in S
      PROVE  k + 1 \in S
  <2> SUFFICES ASSUME k + 1 <= m
               PROVE  /\ f[k + 1] \in W
                      /\ \/ Len(f[k + 1].messages) <= m - (k + 1)
                         \/ ~ Overfull(f[k + 1].messages)
    OBVIOUS
  <2>1. f[k + 1] = Round(f[k])
    <3>1. k + 1 \in 0..m /\ k + 1 # 0 /\ (k + 1) - 1 = k
      BY <1>2
    <3> QED BY <1>4, <3>1
  <2>2. f[k] \in W /\ (Len(f[k].messages) <= m - k \/ ~ Overfull(f[k].messages))
    BY <1>2, <1>6
  <2>3. CASE Overfull(f[k].messages)
    <3>1. /\ Len(f[k].messages) \in Nat
          /\ Len(f[k + 1].messages) \in Nat
          /\ Len(f[k + 1].messages) <= Len(f[k].messages) - 1
          /\ f[k + 1] \in W
      BY <1>1, <2>1, <2>2, <2>3
    <3>2. Len(f[k].messages) <= m - k
      BY <2>2, <2>3
    <3> QED BY <1>2, <3>1, <3>2
  <2>4. CASE ~ Overfull(f[k].messages)
    BY <1>1, <2>1, <2>2, <2>4
  <2> QED BY <2>3, <2>4
<1> HIDE DEF S
<1>7. m \in S
  BY <1>2, <1>5, <1>6, Induction
<1>8. f[m] \in W /\ (Len(f[m].messages) <= m - m \/ ~ Overfull(f[m].messages))
  BY <1>2, <1>7 DEF S
<1>9. ~ Overfull(f[m].messages)
  <2>1. Len(f[m].messages) <= 0 => ~ (Len(f[m].messages) > 2)
    BY <1>1, <1>8
  <2> QED BY <1>2, <1>8, <2>1 DEF Overfull
<1> QED BY <1>3, <1>9

\* What message m may follow c, and the turn t that it belongs to or opens.
Follows(c, n, lost, m, t) ==
    /\ m \in Messages /\ m.id = n + 1 /\ m.of \in 0..n
    /\ \/ m.kind # "tool" /\ t = 0
       \/ m.kind = "calls" /\ t = n + 1
       \/ m.kind = "tool" /\ t = m.of /\ Open(c, t) /\ t \in Ids(c.messages) \union lost

LEMMA PushKeeps ==
    ASSUME NEW n \in Nat, NEW lost, NEW u, NEW c \in WellFormed(n, lost, u),
           NEW m, NEW t, Follows(c, n, lost, m, t)
    PROVE  LET d == [c EXCEPT !.messages = Append(@, m)]
           IN  d \in WellFormed(n + 1, lost, t) /\ Ends(d, m)
<1> DEFINE d == [c EXCEPT !.messages = Append(@, m)]
           s == c.messages
           e == Append(s, m)
           l == Len(s)
<1>1. /\ c \in Conversations
      /\ Latest(c, n) /\ Summarised(c, n) /\ Exchanges(c, lost)
  BY DEF WellFormed
<1>2. s \in Seq(Messages) /\ l \in Nat
  BY <1>1, LenProperties DEF Conversations
<1>3. m \in Messages
  BY DEF Follows
<1>4. /\ e \in Seq(Messages)
      /\ Len(e) = l + 1
      /\ \A i \in 1..l : e[i] = s[i]
      /\ e[l + 1] = m
  BY <1>2, <1>3, AppendProperties
<1>5. /\ d.messages = e /\ d.recap = c.recap
      /\ d \in Conversations
  <2>1. c = [messages |-> s, recap |-> c.recap] /\ c.recap \in Seq(SUBSET Nat)
    BY <1>1 DEF Conversations
  <2>2. d = [messages |-> e, recap |-> c.recap]
    BY <1>1 DEF Conversations
  <2> HIDE DEF d, e
  <2> QED BY <1>4, <2>1, <2>2 DEF Conversations
<1> HIDE DEF d, e
<1>6. Gone(d, n + 1) = Gone(c, n) /\ Gone(c, n) \in Nat
  <2>1. Len(d.messages) = l + 1
    BY <1>4, <1>5
  <2>2. Gone(c, n) = n - l /\ l <= n
    BY <1>1 DEF Gone, Latest
  <2>3. Gone(d, n + 1) = (n + 1) - (l + 1)
    BY <2>1 DEF Gone
  <2>4. l \in Nat
    BY <1>2
  <2> HIDE DEF l
  <2> QED BY <2>2, <2>3, <2>4
<1>7. \A i \in 1..(l + 1) : i \in 1..l \/ i = l + 1
  BY <1>2
<1>8. Latest(d, n + 1)
  <2>1. Len(e) <= n + 1
    BY <1>1, <1>2, <1>4 DEF Latest
  <2>2. ASSUME NEW i \in 1..l
        PROVE  e[i].id = Gone(c, n) + i /\ e[i].of <= n + 1
    <3>1. e[i] = s[i] /\ s[i].id = Gone(c, n) + i /\ s[i].of <= n
      BY <1>1, <1>4 DEF Latest
    <3>2. s[i].of \in Nat
      <4>1. s[i] \in Messages
        BY <1>2, ElementOfSeq
      <4> QED BY <4>1 DEF Messages
    <3> QED BY <3>1, <3>2
  <2>3. m.id = Gone(c, n) + (l + 1) /\ m.of <= n + 1
    <3>1. m.id = n + 1 /\ m.of \in 0..n
      BY DEF Follows
    <3>2. Gone(c, n) = n - l
      BY DEF Gone
    <3>3. l \in Nat
      BY <1>2
    <3> HIDE DEF l
    <3> QED BY <3>1, <3>2, <3>3
  <2> QED BY <1>4, <1>5, <1>6, <1>7, <2>1, <2>2, <2>3 DEF Latest
<1>9. Summarised(d, n + 1)
  BY <1>1, <1>5, <1>6 DEF Summarised
<1>10. ASSUME NEW i \in 1..l, NEW x, CallOf(s, x, i, l), m.kind = "tool"
       PROVE  CallOf(e, x, i, l + 1)
  <2>1. \A k \in (i + 1)..(l + 1) : (k \in (i + 1)..l /\ k \in 1..l) \/ k = l + 1
    BY <1>2
  <2> QED BY <1>4, <1>10, <2>1 DEF CallOf
<1>11. DOMAIN s = 1..l /\ DOMAIN e = 1..(l + 1)
  BY <1>2, <1>4, LenProperties
<1>12. \A x \in Ids(e) : x \in Ids(s) \/ x = n + 1
  BY <1>4, <1>7, <1>11 DEF Ids, Follows
<1>13. Exchanges(d, lost)
  <2>1. ASSUME NEW j \in 1..l, e[j].kind = "tool", e[j].of \notin lost
        PROVE  \E i \in 1..(j - 1) : CallOf(e, e[j].of, i, j)
    <3>1. PICK i \in 1..(j - 1) : CallOf(s, s[j].of, i, j)
      BY <1>1, <1>4, <2>1 DEF Exchanges
    <3>2. i \in 1..l /\ \A k \in (i + 1)..j : k \in 1..l
      BY <1>2
    <3>3. CallOf(e, e[j].of, i, j)
      BY <1>4, <3>1, <3>2 DEF CallOf
    <3> QED BY <3>3
  <2>2. ASSUME m.kind = "tool", m.of \notin lost
        PROVE  \E i \in 1..((l + 1) - 1) : CallOf(e, m.of, i, l + 1)
    <3>1. PICK i \in 1..l : CallOf(s, m.of, i, l)
      BY <2>2 DEF Follows, Open
    <3>2. CallOf(e, m.of, i, l + 1) /\ i \in 1..((l + 1) - 1)
      BY <1>2, <1>10, <2>2, <3>1
    <3> QED BY <3>2
  <2> QED BY <1>4, <1>5, <1>7, <2>1, <2>2 DEF Exchanges
<1>14. Open(d, t)
  <2> SUFFICES ASSUME t \in Ids(e)
               PROVE  \E i \in 1..(l + 1) : CallOf(e, t, i, l + 1)
    BY <1>4, <1>5 DEF Open
  <2>1. CASE m.kind # "tool" /\ t = 0
    <3>1. 0 \notin Ids(s)
      <4>1. Ids(s) = (Gone(c, n) + 1)..n
        BY <1>1, IdsOfAll
      <4> QED BY <1>6, <4>1
    <3> QED BY <1>12, <2>1, <3>1
  <2>2. CASE m.kind = "calls" /\ t = n + 1
    <3>1. \A k \in ((l + 1) + 1)..(l + 1) : FALSE
      BY <1>2
    <3>2. CallOf(e, t, l + 1, l + 1)
      BY <1>4, <2>2, <3>1 DEF CallOf, Follows
    <3>3. l + 1 \in 1..(l + 1)
      BY <1>2
    <3> QED BY <3>2, <3>3
  <2>3. CASE m.kind = "tool" /\ t = m.of /\ Open(c, t)
    <3>1. t # n + 1
      BY <2>3 DEF Follows
    <3>2. t \in Ids(s)
      BY <1>12, <3>1
    <3>3. PICK i \in 1..l : CallOf(s, t, i, l)
      BY <2>3, <3>2 DEF Open
    <3>4. CallOf(e, t, i, l + 1) /\ i \in 1..(l + 1)
      BY <1>2, <1>10, <2>3, <3>3
    <3> QED BY <3>4
  <2> QED BY <2>1, <2>2, <2>3 DEF Follows
<1>15. Ends(d, m)
  BY <1>2, <1>4, <1>5 DEF Ends
<1> QED BY <1>5, <1>8, <1>9, <1>13, <1>14, <1>15 DEF WellFormed, d

LEMMA AppendedKeeps ==
    ASSUME NEW n \in Nat, NEW lost, NEW u, NEW c \in WellFormed(n, lost, u),
           NEW m, NEW t, Follows(c, n, lost, m, t)
    PROVE  /\ Appended(c, m) \in WellFormed(n + 1, lost, t)
           /\ ~ Overfull(Appended(c, m).messages)
           /\ m.kind # "tool" => Ends(Appended(c, m), m)
<1> DEFINE d == [c EXCEPT !.messages = Append(@, m)]
           W == WellFormed(n + 1, lost, t)
           E == {x \in W : Ends(x, m)}
<1>1. d \in W /\ Ends(d, m)
  BY PushKeeps
<1>2. Appended(c, m) = Trimmed(d)
  BY DEF Appended
<1> HIDE DEF d
<1>3. Len(d.messages) \in Nat
  BY <1>1, LenProperties DEF WellFormed, Conversations
<1>4. \A x \in W : Round(x) \in W
  BY RoundKeeps
<1>5. Trimmed(d) \in W /\ ~ Overfull(Trimmed(d).messages)
  <2>1. Trimmed(d) \in W
    <3> HIDE DEF W
    <3> QED BY <1>1, <1>3, <1>4, TrimmedStays
  <2> QED BY <1>1, <2>1, TrimmedFits
<1>6. ASSUME m.kind # "tool"
      PROVE  Ends(Trimmed(d), m)
  <2>1. d \in E /\ \A x \in E : Round(x) \in E
    BY <1>1, <1>4, <1>6, RoundKeeps
  <2>2. Trimmed(d) \in E
    <3> HIDE DEF E
    <3> QED BY <1>3, <2>1, TrimmedStays
  <2> QED BY <2>2
<1> QED BY <1>2, <1>5, <1>6

-----------------------------------------------------------------------------
(***************************************************************************)
(* The invariant is inductive.                                             *)
(***************************************************************************)
LEMMA SpeechFollows ==
    ASSUME NEW n \in Nat, NEW c, NEW lost, NEW kind \in Kinds \ {"tool"}, NEW size \in Nat
    PROVE  LET m == Message(n + 1, kind, 0, size)
           IN  /\ m.id = n + 1 /\ m.kind = kind
               /\ kind # "calls" => Follows(c, n, lost, m, 0)
               /\ kind = "calls" => Follows(c, n, lost, m, n + 1)
<1> DEFINE m == Message(n + 1, kind, 0, size)
<1>1. m \in Messages /\ m.id = n + 1 /\ m.kind = kind /\ m.of = 0
  BY DEF Message, Messages, Kinds
<1> HIDE DEF m
<1>2. m.of \in 0..n
  BY <1>1
<1> QED BY <1>1, <1>2 DEF Follows, m

LEMMA ResultFollows ==
    ASSUME NEW n \in Nat, NEW c, NEW lost, NEW t \in 0..n, NEW size \in Nat,
           Open(c, t), t \in Ids(c.messages) \union lost
    PROVE  Follows(c, n, lost, Message(n + 1, "tool", t, size), t)
<1> DEFINE m == Message(n + 1, "tool", t, size)
<1>1. m \in Messages /\ m.id = n + 1 /\ m.kind = "tool" /\ m.of = t
  BY DEF Message, Messages, Kinds
<1> HIDE DEF m
<1> QED BY <1>1 DEF Follows, m

\* A turn may be over, and more may be cut.
LEMMA TurnOver ==
    ASSUME NEW n \in Nat, NEW lost, NEW more, lost \subseteq more, NEW t,
           NEW c \in WellFormed(n, lost, t)
    PROVE  c \in WellFormed(n, more, t) /\ c \in WellFormed(n, more, 0)
<1>1. /\ c \in Conversations /\ Latest(c, n) /\ Summarised(c, n)
      /\ Exchanges(c, lost) /\ Open(c, t)
  BY DEF WellFormed
<1>2. Exchanges(c, more)
  BY <1>1 DEF Exchanges
<1>3. Open(c, 0)
  <2>1. Ids(c.messages) = (Gone(c, n) + 1)..n
    BY <1>1, IdsOfAll
  <2>2. Gone(c, n) \in Nat
    <3>1. Len(c.messages) \in Nat /\ Len(c.messages) <= n
      BY <1>1, LenProperties DEF Conversations, Latest
    <3> QED BY <3>1 DEF Gone
  <2>3. 0 \notin Ids(c.messages)
    BY <2>1, <2>2
  <2> QED BY <2>3 DEF Open
<1> QED BY <1>1, <1>2, <1>3 DEF WellFormed

LEMMA InitInv == Init => Inv
<1> SUFFICES ASSUME Init PROVE Inv
  OBVIOUS
<1>1. conv = [messages |-> << >>, recap |-> << >>] /\ turn = NoTurn /\ cut = {} /\ count = 0
  BY DEF Init
<1>2. conv.messages = << >> /\ conv.recap = << >> /\ conv \in Conversations
  BY <1>1, EmptySeq DEF Conversations
<1>3. Len(conv.messages) = 0 /\ Len(conv.recap) = 0
  BY <1>2, EmptySeq
<1>4. Gone(conv, 0) = 0
  BY <1>3 DEF Gone
<1>5. Latest(conv, 0) /\ Summarised(conv, 0) /\ Exchanges(conv, {})
  BY <1>3, <1>4, ConstantsAssumption DEF Latest, Summarised, Exchanges
<1>6. Open(conv, 0)
  <2>1. DOMAIN conv.messages = {}
    BY <1>2, <1>3, EmptySeq, LenProperties
  <2> QED BY <2>1 DEF Open, Ids
<1>7. ~ Overfull(conv.messages)
  BY <1>3 DEF Overfull
<1>8. turn.id = 0 /\ turn \in [id : 0..count, left : 0..MaxCalls]
  BY <1>1, ConstantsAssumption DEF NoTurn
<1> QED BY <1>1, <1>2, <1>5, <1>6, <1>7, <1>8, ConstantsAssumption
        DEF Inv, Init, WellFormed, ModelSeesItsStep

\* The loop speaks when no turn is open.
LEMMA SpeechInv ==
    ASSUME Inv, pc # "tools",
           NEW kind \in Kinds \ {"tool"}, NEW size \in Nat, Add(kind, 0, size)
    PROVE  /\ count' \in Nat
           /\ conv' \in WellFormed(count', cut, IF kind = "calls" THEN count' ELSE 0)
           /\ ~ Overfull(conv'.messages)
           /\ Ends(conv', Message(count', kind, 0, size))
           /\ cut \subseteq 1..count'
<1>1. /\ count \in Nat /\ count' = count + 1
      /\ conv \in WellFormed(count, cut, turn.id)
      /\ conv' = Appended(conv, Message(count', kind, 0, size))
      /\ cut \subseteq 1..count
  BY DEF Inv, Add
<1> DEFINE m == Message(count + 1, kind, 0, size)
           t == IF kind = "calls" THEN count + 1 ELSE 0
<1>2. m.kind = kind /\ Follows(conv, count, cut, m, t)
  BY <1>1, SpeechFollows
<1> HIDE DEF m, t
<1>3. /\ Appended(conv, m) \in WellFormed(count + 1, cut, t)
      /\ ~ Overfull(Appended(conv, m).messages)
      /\ Ends(Appended(conv, m), m)
  BY <1>1, <1>2, AppendedKeeps
<1>4. conv' = Appended(conv, m)
  BY <1>1 DEF m
<1>5. cut \subseteq 1..(count + 1)
  BY <1>1
<1> QED BY <1>1, <1>3, <1>4, <1>5 DEF m, t

LEMMA LastOfEnds ==
    ASSUME NEW n \in Nat, NEW lost, NEW t, NEW c \in WellFormed(n, lost, t), NEW m, Ends(c, m)
    PROVE  c.messages # << >> /\ Last(c.messages) = m /\ m.id \in Ids(c.messages)
<1>1. c.messages \in Seq(Messages) /\ DOMAIN c.messages = 1..Len(c.messages)
  BY LenProperties DEF WellFormed, Conversations
<1>2. Len(c.messages) \in 1..Len(c.messages)
  BY <1>1, LenProperties DEF Ends
<1>3. c.messages # << >>
  BY <1>2, EmptySeq
<1> QED BY <1>1, <1>2, <1>3 DEF Ends, Last, Ids

LEMMA BeginInv ==
    ASSUME Inv, Begin
    PROVE  Inv'
<1>1. /\ count \in Nat /\ conv \in WellFormed(count, cut, turn.id)
      /\ turn = NoTurn /\ cut \subseteq 1..count
      /\ pc = "idle" /\ runs \in 0..MaxRuns /\ runs < MaxRuns
  BY DEF Inv, Begin
<1> DEFINE first == Message(count + 1, "system", 0, PromptSize)
           second == Message(count + 2, "user", 0, 1)
           c == Appended(conv, first)
<1>2. PromptSize \in Nat /\ 1 \in Nat /\ count + 1 \in Nat /\ (count + 1) + 1 = count + 2
  BY <1>1, ConstantsAssumption
<1>3. Follows(conv, count, cut, first, 0)
  BY <1>1, <1>2, SpeechFollows DEF Kinds
<1>4. c \in WellFormed(count + 1, cut, 0)
  BY <1>1, <1>3, AppendedKeeps
<1>5. Follows(c, count + 1, cut, second, 0)
  <2>1. Follows(c, count + 1, cut, Message((count + 1) + 1, "user", 0, 1), 0)
    <3> HIDE DEF c
    <3> QED BY <1>2, SpeechFollows DEF Kinds
  <2> QED BY <1>2, <2>1
<1>6. conv' = Appended(c, second)
  BY DEF Begin
<1>7. conv' \in WellFormed(count + 2, cut, 0) /\ ~ Overfull(conv'.messages)
  <2> HIDE DEF c, second
  <2>1. /\ Appended(c, second) \in WellFormed((count + 1) + 1, cut, 0)
        /\ ~ Overfull(Appended(c, second).messages)
    BY <1>2, <1>4, <1>5, AppendedKeeps
  <2> QED BY <1>2, <1>6, <2>1
<1> HIDE DEF c, first, second
<1>8. /\ count' = count + 2 /\ pc' = "stepping" /\ runs' = runs + 1 /\ step' = 0
      /\ turn' = turn /\ cut' = cut
  BY DEF Begin
<1>9. /\ count' \in Nat /\ cut' \subseteq 1..count' /\ runs' \in 0..MaxRuns
      /\ step' \in 0..MaxSteps
  BY <1>1, <1>8, ConstantsAssumption
<1>10. turn'.id = 0 /\ turn' \in [id : 0..count', left : 0..MaxCalls]
  BY <1>1, <1>8, <1>9, ConstantsAssumption DEF NoTurn
<1> QED BY <1>1, <1>7, <1>8, <1>9, <1>10 DEF Inv, ModelSeesItsStep

LEMMA StepContextInv ==
    ASSUME Inv, StepContext
    PROVE  Inv'
<1>1. /\ pc # "tools" /\ turn = NoTurn /\ runs \in 0..MaxRuns
      /\ step \in 0..MaxSteps /\ step < MaxSteps
      /\ Add("user", 0, 1) /\ pc' = "model" /\ step' = step + 1
      /\ runs' = runs /\ turn' = turn /\ cut' = cut
  BY DEF Inv, StepContext
<1> DEFINE m == Message(count', "user", 0, 1)
<1>2. /\ count' \in Nat /\ conv' \in WellFormed(count', cut, 0)
      /\ ~ Overfull(conv'.messages) /\ Ends(conv', m) /\ cut \subseteq 1..count'
  BY <1>1, SpeechInv DEF Kinds
<1>3. m.id = count' /\ m.kind = "user"
  BY DEF Message
<1>4. ModelSeesItsStep'
  <2> HIDE DEF m
  <2> QED BY <1>2, <1>3, LastOfEnds DEF ModelSeesItsStep
<1>5. turn'.id = 0 /\ turn' \in [id : 0..count', left : 0..MaxCalls]
  BY <1>1, <1>2, ConstantsAssumption DEF NoTurn
<1>6. step' \in 0..MaxSteps
  BY <1>1, ConstantsAssumption
<1> QED BY <1>1, <1>2, <1>4, <1>5, <1>6 DEF Inv

LEMMA FinalAnswerInv ==
    ASSUME Inv, FinalAnswer
    PROVE  Inv'
<1>1. /\ pc # "tools" /\ turn = NoTurn /\ runs \in 0..MaxRuns /\ step \in 0..MaxSteps
      /\ Add("answer", 0, 1) /\ pc' = "idle"
      /\ runs' = runs /\ step' = step /\ turn' = turn /\ cut' = cut
  BY DEF Inv, FinalAnswer
<1>2. /\ count' \in Nat /\ conv' \in WellFormed(count', cut, 0)
      /\ ~ Overfull(conv'.messages) /\ cut \subseteq 1..count'
  BY <1>1, SpeechInv DEF Kinds
<1>3. turn'.id = 0 /\ turn' \in [id : 0..count', left : 0..MaxCalls]
  BY <1>1, <1>2, ConstantsAssumption DEF NoTurn
<1> QED BY <1>1, <1>2, <1>3 DEF Inv, ModelSeesItsStep

LEMMA ToolCallsInv ==
    ASSUME Inv, ToolCalls
    PROVE  Inv'
<1>1. /\ pc # "tools" /\ runs \in 0..MaxRuns /\ step \in 0..MaxSteps
      /\ Add("calls", 0, 1) /\ pc' = "tools"
      /\ runs' = runs /\ step' = step /\ cut' = cut
  BY DEF Inv, ToolCalls
<1>2. PICK n \in 1..MaxCalls : turn' = [id |-> count + 1, left |-> n]
  BY DEF ToolCalls
<1> DEFINE m == Message(count', "calls", 0, 1)
<1>3. /\ count' \in Nat /\ conv' \in WellFormed(count', cut, count')
      /\ ~ Overfull(conv'.messages) /\ Ends(conv', m) /\ cut \subseteq 1..count'
  BY <1>1, SpeechInv DEF Kinds
<1>4. m.id = count' /\ count' = count + 1
  BY <1>1 DEF Message, Add
<1>5. count' \in Ids(conv'.messages)
  <2> HIDE DEF m
  <2> QED BY <1>3, <1>4, LastOfEnds
<1>6. /\ turn'.id = count' /\ turn'.left > 0
      /\ turn' \in [id : 0..count', left : 0..MaxCalls]
  BY <1>2, <1>3, <1>4, ConstantsAssumption
<1> QED BY <1>1, <1>3, <1>5, <1>6 DEF Inv, ModelSeesItsStep

LEMMA ToolResultInv ==
    ASSUME Inv, NEW refused \in BOOLEAN, ToolResult(refused)
    PROVE  Inv'
<1>1. /\ pc = "tools" /\ runs \in 0..MaxRuns /\ step \in 0..MaxSteps
      /\ runs' = runs /\ step' = step
      /\ cut' = cut \union ({turn.id} \ Ids(conv'.messages))
      /\ count \in Nat /\ conv \in WellFormed(count, cut, turn.id)
      /\ turn \in [id : 0..count, left : 0..MaxCalls] /\ turn.left > 0
      /\ cut \subseteq 1..count /\ turn.id \in Ids(conv.messages) \union cut
  BY DEF Inv, ToolResult
<1> DEFINE t == turn.id
<1>2. PICK size \in ResultSizes : Add("tool", t, size)
  BY DEF ToolResult
<1> DEFINE m == Message(count + 1, "tool", t, size)
<1>3. conv' = Appended(conv, m) /\ count' = count + 1
  BY <1>2 DEF Add
<1>4. t \in 0..count /\ size \in Nat
  BY <1>1, ConstantsAssumption
<1>5. Follows(conv, count, cut, m, t)
  BY <1>1, <1>4, ResultFollows DEF WellFormed
<1>6. conv' \in WellFormed(count', cut, t) /\ ~ Overfull(conv'.messages)
  <2> HIDE DEF m, t
  <2> QED BY <1>1, <1>3, <1>5, AppendedKeeps
<1> HIDE DEF m
<1>7. count' \in Nat
  BY <1>1, <1>3
<1>8. conv' \in WellFormed(count', cut', t) /\ conv' \in WellFormed(count', cut', 0)
  BY <1>1, <1>6, <1>7, TurnOver
<1>9. cut' \subseteq 1..count'
  <2>1. t \in 1..count
    <3>1. Ids(conv.messages) = (Gone(conv, count) + 1)..count /\ Gone(conv, count) \in Nat
      <4>1. conv \in Conversations /\ Latest(conv, count)
        BY <1>1 DEF WellFormed
      <4>2. Len(conv.messages) \in Nat /\ Len(conv.messages) <= count
        BY <4>1, LenProperties DEF Conversations, Latest
      <4>3. Gone(conv, count) \in Nat
        BY <1>1, <4>2 DEF Gone
      <4> QED BY <1>1, <4>1, <4>3, IdsOfAll
    <3> QED BY <1>1, <3>1
  <2> QED BY <1>1, <1>3, <2>1
<1>10. CASE refused \/ turn.left = 1
  <2>1. turn' = NoTurn /\ pc' \in {"idle", "stepping"}
    BY <1>10 DEF ToolResult
  <2>2. turn'.id = 0 /\ turn' \in [id : 0..count', left : 0..MaxCalls]
    BY <1>7, <2>1, ConstantsAssumption DEF NoTurn
  <2> QED BY <1>1, <1>6, <1>7, <1>8, <1>9, <2>1, <2>2 DEF Inv, ModelSeesItsStep
<1>11. CASE ~ (refused \/ turn.left = 1)
  <2>1. turn' = [turn EXCEPT !.left = @ - 1] /\ pc' = "tools"
    BY <1>11 DEF ToolResult
  <2>2. /\ turn'.id = t /\ turn'.left > 0
        /\ turn' \in [id : 0..count', left : 0..MaxCalls]
    BY <1>1, <1>3, <1>11, <2>1, ConstantsAssumption
  <2>3. t \in Ids(conv'.messages) \union cut'
    BY <1>1
  <2> QED BY <1>1, <1>6, <1>7, <1>8, <1>9, <2>1, <2>2, <2>3 DEF Inv, ModelSeesItsStep
<1> QED BY <1>10, <1>11

LEMMA NextInv == Inv /\ [Next]_vars => Inv'
<1> SUFFICES ASSUME Inv, [Next]_vars PROVE Inv'
  OBVIOUS
<1>1. CASE Begin
  BY <1>1, BeginInv
<1>2. CASE StepContext
  BY <1>2, StepContextInv
<1>3. CASE GiveUp \/ EmptyAnswer
  BY <1>3 DEF GiveUp, EmptyAnswer, Inv, ModelSeesItsStep
<1>4. CASE FinalAnswer
  BY <1>4, FinalAnswerInv
<1>5. CASE ToolCalls
  BY <1>5, ToolCallsInv
<1>6. CASE \E refused \in BOOLEAN : ToolResult(refused)
  BY <1>6, ToolResultInv
<1>7. CASE UNCHANGED vars
  BY <1>7 DEF vars, Inv, ModelSeesItsStep
<1> QED BY <1>1, <1>2, <1>3, <1>4, <1>5, <1>6, <1>7 DEF Next

\* The invariant holds in every reachable state.
THEOREM Invariance == Spec => []Inv
BY InitInv, NextInv, PTL DEF Spec

(***************************************************************************)
(* Every variable of the transcript holds a value of its type, for any     *)
(* limits and any number of tasks.                                         *)
(***************************************************************************)
THEOREM TranscriptIsTyped == Spec => []TypeOK
<1>1. Inv => TypeOK
  <2> SUFFICES ASSUME Inv PROVE TypeOK
    OBVIOUS
  <2>1. /\ count \in Nat /\ conv \in Conversations
        /\ Latest(conv, count) /\ Summarised(conv, count)
    BY DEF Inv, WellFormed
  <2>2. /\ conv.messages \in Seq(Messages) /\ conv.recap \in Seq(SUBSET Nat)
        /\ DOMAIN conv.messages = 1..Len(conv.messages)
        /\ DOMAIN conv.recap = 1..Len(conv.recap)
    BY <2>1, LenProperties DEF Conversations
  <2>3. Gone(conv, count) \in Nat /\ Gone(conv, count) + Len(conv.messages) = count
    <3>1. Len(conv.messages) \in Nat /\ Len(conv.messages) <= count
      BY <2>1, <2>2, LenProperties DEF Latest
    <3> QED BY <2>1, <3>1 DEF Gone
  <2>4. ASSUME NEW i \in DOMAIN conv.messages
        PROVE  conv.messages[i] \in [id : 1..count, kind : Kinds, of : 0..count, size : Nat]
    <3>1. conv.messages[i] \in Messages /\ i \in 1..Len(conv.messages)
      BY <2>2, ElementOfSeq
    <3>2. conv.messages[i].id = Gone(conv, count) + i /\ conv.messages[i].of <= count
      BY <2>1, <3>1 DEF Latest
    <3>3. Gone(conv, count) + i \in 1..count
      <4>1. Len(conv.messages) \in Nat
        BY <2>2, LenProperties
      <4> QED BY <2>1, <2>3, <3>1, <4>1
    <3> DEFINE m == conv.messages[i]
    <3>4. m \in Messages /\ m.id \in 1..count /\ m.of <= count
      BY <3>1, <3>2, <3>3
    <3> HIDE DEF m
    <3>5. m \in [id : 1..count, kind : Kinds, of : 0..count, size : Nat]
      BY <2>1, <3>4 DEF Messages
    <3> QED BY <3>5 DEF m
  <2>5. ASSUME NEW i \in DOMAIN conv.recap
        PROVE  conv.recap[i] \subseteq 1..count
    <3>1. conv.recap[i] \subseteq 1..Gone(conv, count)
      BY <2>1, <2>2 DEF Summarised
    <3>2. Gone(conv, count) <= count
      <4>1. Len(conv.messages) \in Nat
        BY <2>2, LenProperties
      <4> QED BY <2>1, <2>3, <4>1
    <3> QED BY <2>1, <2>3, <3>1, <3>2
  <2>6. Len(conv.recap) <= MaxRecap
    BY <2>1 DEF Summarised
  <2> QED BY <2>4, <2>5, <2>6 DEF Inv, TypeOK
<1> QED BY <1>1, Invariance, PTL

(***************************************************************************)
(* Whatever is trimmed to make room for it, the context of the current     *)
(* step is the last message when the model is asked: a message that is no  *)
(* result is never trimmed by its own append.                              *)
(***************************************************************************)
THEOREM ModelIsAskedWithItsStep == Spec => []ModelSeesItsStep
<1>1. Inv => ModelSeesItsStep
  BY DEF Inv
<1> QED BY <1>1, Invariance, PTL

(***************************************************************************)
(* An exchange that was complete leaves the transcript as a whole: a       *)
(* result is orphaned only if its call was trimmed before the turn was     *)
(* over.                                                                   *)
(***************************************************************************)
THEOREM ExchangesGoWhole == Spec => []CompleteExchangesGoWhole
<1>1. Inv => CompleteExchangesGoWhole
  <2> SUFFICES ASSUME Inv, NEW m \in Orphans, m.of \notin cut
               PROVE  FALSE
    BY DEF CompleteExchangesGoWhole
  <2>1. conv \in Conversations /\ Exchanges(conv, cut)
    BY DEF Inv, WellFormed
  <2>2. /\ conv.messages \in Seq(Messages) /\ Len(conv.messages) \in Nat
        /\ DOMAIN conv.messages = 1..Len(conv.messages)
    BY <2>1, LenProperties DEF Conversations
  <2>3. PICK j \in 1..Len(conv.messages) : m = conv.messages[j]
    BY <2>2 DEF Orphans, ToSet
  <2>4. m.kind = "tool" /\ m.of \notin Ids(conv.messages)
    BY DEF Orphans
  <2>5. PICK i \in 1..(j - 1) : CallOf(conv.messages, m.of, i, j)
    BY <2>1, <2>3, <2>4 DEF Exchanges
  <2>6. i \in DOMAIN conv.messages
    BY <2>2
  <2> QED BY <2>4, <2>5, <2>6 DEF CallOf, Ids
<1> QED BY <1>1, Invariance, PTL

\* A set of numbers up to n that holds what is above each of its members.
LEMMA Upwards ==
    ASSUME NEW n \in Nat, NEW S \in SUBSET (1..n),
           \A x \in S, y \in 1..n : x <= y => y \in S
    PROVE  S = (n - Cardinality(S) + 1)..n
<1>1. CASE S = {}
  <2>1. Cardinality(S) = 0
    BY <1>1, FS_EmptySet
  <2>2. (n - 0 + 1)..n = {}
    OBVIOUS
  <2> QED BY <1>1, <2>1, <2>2
<1>2. CASE S # {}
  <2>1. PICK x \in S : \A y \in S : x <= y
    BY <1>2, Least
  <2>2. S = x..n
    <3>1. \A y \in S : y \in x..n
      BY <2>1
    <3>2. \A y \in x..n : y \in 1..n /\ x <= y
      BY <2>1
    <3> QED BY <3>1, <3>2
  <2>3. Cardinality(x..n) = n - x + 1
    BY <2>1, FS_Interval
  <2>4. n - Cardinality(S) + 1 = x
    <3>1. Cardinality(S) = n - x + 1
      BY <2>2, <2>3
    <3> QED BY <2>1, <3>1
  <2> QED BY <2>2, <2>4
<1> QED BY <1>1, <1>2

(***************************************************************************)
(* The transcript and the recap together hold the latest messages without  *)
(* a gap, and every message until the recap is full.                       *)
(***************************************************************************)
THEOREM TranscriptAndRecapMeet == Spec => []NothingFallsBetween
<1>1. Inv => NothingFallsBetween
  <2> SUFFICES ASSUME Inv PROVE NothingFallsBetween
    OBVIOUS
  <2> DEFINE g == Gone(conv, count)
             summed == UNION ToSet(conv.recap)
             kept == Ids(conv.messages) \union summed
  <2>1. /\ count \in Nat /\ conv \in Conversations
        /\ Latest(conv, count) /\ Summarised(conv, count)
    BY DEF Inv, WellFormed
  <2>2. /\ conv.recap \in Seq(SUBSET Nat)
        /\ DOMAIN conv.recap = 1..Len(conv.recap) /\ Len(conv.recap) \in Nat
    BY <2>1, LenProperties DEF Conversations
  <2>3. g \in Nat /\ g <= count
    <3>1. Len(conv.messages) \in Nat /\ Len(conv.messages) <= count
      BY <2>1, LenProperties DEF Conversations, Latest
    <3> QED BY <2>1, <3>1 DEF Gone
  <2>4. Ids(conv.messages) = (g + 1)..count
    BY <2>1, IdsOfAll
  <2>5. \A y : y \in summed <=> \E j \in 1..Len(conv.recap) : y \in conv.recap[j]
    BY <2>2 DEF ToSet
  <2>6. /\ \A y \in summed : y \in 1..g
        /\ \A x \in summed, y \in 1..g : x <= y => y \in summed
        /\ Len(conv.recap) < MaxRecap => \A y \in 1..g : y \in summed
    <3> HIDE DEF g, summed
    <3>1. /\ \A i \in 1..Len(conv.recap) : conv.recap[i] \subseteq 1..g
          /\ \A i \in 1..Len(conv.recap) : \A x \in conv.recap[i], y \in 1..g :
                x <= y => \E j \in i..Len(conv.recap) : y \in conv.recap[j]
          /\ Len(conv.recap) < MaxRecap =>
                \A y \in 1..g : \E j \in 1..Len(conv.recap) : y \in conv.recap[j]
      BY <2>1 DEF Summarised, g
    <3>2. \A i \in 1..Len(conv.recap) : \A j \in i..Len(conv.recap) : j \in 1..Len(conv.recap)
      BY <2>2
    <3>3. \A y \in summed : y \in 1..g
      BY <2>5, <3>1
    <3>4. \A x \in summed, y \in 1..g : x <= y => y \in summed
      BY <2>5, <3>1, <3>2
    <3>5. Len(conv.recap) < MaxRecap => \A y \in 1..g : y \in summed
      BY <2>5, <3>1
    <3> QED BY <3>3, <3>4, <3>5
  <2> HIDE DEF g, summed
  <2>7. \A y \in 1..count : y \in 1..g \/ y \in (g + 1)..count
    BY <2>1, <2>3
  <2>8. /\ kept \in SUBSET (1..count)
        /\ \A x \in kept, y \in 1..count : x <= y => y \in kept
    <3>1. kept \in SUBSET (1..count)
      BY <2>1, <2>3, <2>4, <2>6
    <3>2. ASSUME NEW x \in kept, NEW y \in 1..count, x <= y
          PROVE  y \in kept
      <4>1. CASE y \in (g + 1)..count
        BY <2>4, <4>1
      <4>2. CASE y \in 1..g
        <5>1. x \in 1..count /\ ~ (x \in (g + 1)..count)
          BY <2>1, <2>3, <3>1, <3>2, <4>2
        <5>2. x \in summed
          BY <2>4, <5>1
        <5> QED BY <2>6, <3>2, <4>2, <5>2
      <4> QED BY <2>7, <4>1, <4>2
    <3> QED BY <3>1, <3>2
  <2>9. kept = (count - Cardinality(kept) + 1)..count
    <3> HIDE DEF kept
    <3> QED BY <2>1, <2>8, Upwards
  <2>10. ASSUME Len(conv.recap) < MaxRecap
         PROVE  Cardinality(kept) = count
    <3>1. \A y \in 1..count : y \in kept
      BY <2>4, <2>6, <2>7, <2>10
    <3>2. kept = 1..count
      BY <2>8, <3>1
    <3>3. Cardinality(1..count) = count
      BY <2>1, FS_Interval
    <3> QED BY <3>2, <3>3
  <2> QED BY <2>9, <2>10 DEF NothingFallsBetween, summed
<1> QED BY <1>1, Invariance, PTL

(***************************************************************************)
(* After every append the transcript is within max_messages and max_chars, *)
(* or is down to two messages (memory.py:260-262): the loop comes to an    *)
(* end, and not before.                                                    *)
(***************************************************************************)
THEOREM TranscriptFits == Spec => [](~ Overfull(conv.messages))
<1>1. Inv => ~ Overfull(conv.messages)
  BY DEF Inv
<1> QED BY <1>1, Invariance, PTL

-----------------------------------------------------------------------------
(***************************************************************************)
(* The model chain: a chat that fails has asked every model that it could, *)
(* and one that is cooling down is asked only if all are.                  *)
(***************************************************************************)
RouterTypeOK ==
    /\ clock \in Nat
    /\ disabledUntil \in [Models -> Nat]
    /\ preferred \in Models \union {NoModel}
    /\ phase \in {"idle", "asking", "failed"}
    /\ candidates \in SUBSET Models
    /\ asked \in SUBSET candidates
    /\ model \in Models \union {NoModel}
    /\ attempt \in 0..MaxRetries
    /\ began \in 0..clock

\* The chat asks one of its candidates, and those it leaves out are cooling down.
Walking ==
    phase # "idle" =>
        /\ model \in asked
        /\ phase = "failed" => asked = candidates
        /\ \A m \in Models \ candidates : disabledUntil[m] > began

\* Either what it has yet to ask was usable when it began, or nothing was.
Usable ==
    phase = "asking" =>
        \/ \A m \in (candidates \ asked) \union {model} : disabledUntil[m] <= began
        \/ \A m \in Models : disabledUntil[m] > began

\* The inductive invariant.
RouterInv == RouterTypeOK /\ Walking /\ Usable

-----------------------------------------------------------------------------
LEMMA RouterInitInv == RouterInit => RouterInv
<1> SUFFICES ASSUME RouterInit PROVE RouterInv
  OBVIOUS
<1>1. RouterTypeOK
  BY RouterAssumption DEF RouterInit, RouterTypeOK
<1>2. Walking /\ Usable
  BY DEF RouterInit, Walking, Usable
<1> QED BY <1>1, <1>2 DEF RouterInv

LEMMA ChatRouterInv ==
    ASSUME RouterInv, Chat
    PROVE  RouterInv'
<1> USE DEF RouterInv
<1>1. /\ Order \in SUBSET Models
      /\ \/ \A m \in Models : m \in Order <=> disabledUntil[m] <= clock
         \/ Order = Models /\ \A m \in Models : ~ (disabledUntil[m] <= clock)
  BY DEF Order, Available
<1>2. PICK m \in Order : model' = m /\ asked' = {m}
  BY DEF Chat, First
<1>3. /\ phase' = "asking" /\ candidates' = Order /\ attempt' = 1 /\ began' = clock
      /\ UNCHANGED <<clock, disabledUntil, preferred>>
  BY DEF Chat
<1>4. RouterTypeOK'
  BY <1>1, <1>2, <1>3, RouterAssumption DEF RouterTypeOK
<1>5. Walking'
  BY <1>1, <1>2, <1>3 DEF RouterTypeOK, Walking
<1>6. Usable'
  <2>1. CASE \A n \in Models : n \in Order <=> disabledUntil[n] <= clock
    BY <1>1, <1>2, <1>3, <2>1 DEF Usable
  <2>2. CASE \A n \in Models : ~ (disabledUntil[n] <= clock)
    BY <1>3, <2>2 DEF RouterTypeOK, Usable
  <2> QED BY <1>1, <2>1, <2>2
<1> QED BY <1>4, <1>5, <1>6

\* A model was asked in vain, and may have to rest now.
LEMMA FallBackRouterInv ==
    ASSUME RouterInv, phase = "asking", FallBack,
           UNCHANGED <<clock, preferred, candidates, began>>,
           \/ UNCHANGED disabledUntil
           \/ disabledUntil' = [disabledUntil EXCEPT ![model] = clock + Cooldown]
    PROVE  RouterInv'
<1> USE DEF RouterInv
<1>1. model \in asked /\ model \in Models /\ clock + Cooldown \in Nat /\ clock + Cooldown > began
  BY RouterAssumption DEF RouterTypeOK, Walking
<1>2. /\ disabledUntil' \in [Models -> Nat]
      /\ \A m \in Models : disabledUntil[m] > began => disabledUntil'[m] > began
      /\ \A m \in Models \ {model} : disabledUntil'[m] = disabledUntil[m]
  BY <1>1 DEF RouterTypeOK
<1>3. CASE \E m \in First(candidates \ asked) :
              model' = m /\ asked' = asked \union {m} /\ attempt' = 1 /\ phase' = phase
  <2>1. PICK m \in candidates \ asked : model' = m /\ asked' = asked \union {m}
    BY <1>3 DEF First
  <2>2. RouterTypeOK'
    BY <1>2, <1>3, <2>1, RouterAssumption DEF RouterTypeOK
  <2>3. Walking'
    BY <1>2, <1>3, <2>1 DEF RouterTypeOK, Walking
  <2>4. Usable'
    <3>1. CASE \A n \in Models : disabledUntil[n] > began
      BY <1>2, <3>1 DEF Usable
    <3>2. CASE \A n \in (candidates \ asked) \union {model} : disabledUntil[n] <= began
      <4>1. \A n \in candidates \ asked : n # model /\ disabledUntil'[n] <= began
        BY <1>1, <1>2, <3>2 DEF RouterTypeOK
      <4> QED BY <2>1, <4>1 DEF Usable
    <3> QED BY <3>1, <3>2 DEF Usable
  <2> QED BY <2>2, <2>3, <2>4
<1>4. CASE candidates = asked /\ phase' = "failed" /\ UNCHANGED <<asked, model, attempt>>
  <2>1. RouterTypeOK'
    BY <1>2, <1>4 DEF RouterTypeOK
  <2>2. Walking' /\ Usable'
    BY <1>2, <1>4 DEF RouterTypeOK, Walking, Usable
  <2> QED BY <2>1, <2>2
<1> QED BY <1>3, <1>4 DEF FallBack

LEMMA RouterNextInv == RouterInv /\ [RouterNext]_routerVars => RouterInv'
<1> SUFFICES ASSUME RouterInv, [RouterNext]_routerVars PROVE RouterInv'
  OBVIOUS
<1>1. CASE Chat
  BY <1>1, ChatRouterInv
<1>2. CASE Answered
  <2>1. model \in Models
    BY <1>2 DEF RouterInv, Answered, Walking, RouterTypeOK
  <2> QED BY <1>2, <2>1 DEF RouterInv, Answered, RouterTypeOK, Walking, Usable
<1>3. CASE Retry
  <2>1. RouterTypeOK'
    BY <1>3, RouterAssumption DEF RouterInv, Retry, RouterTypeOK
  <2> QED BY <1>3, <2>1 DEF RouterInv, Retry, Walking, Usable
<1>4. CASE Fails
  BY <1>4, FallBackRouterInv DEF Fails
<1>5. CASE Rejected
  BY <1>5, FallBackRouterInv DEF Rejected
<1>6. CASE Tick
  BY <1>6 DEF RouterInv, Tick, RouterTypeOK, Walking, Usable
<1>7. CASE UNCHANGED routerVars
  BY <1>7 DEF RouterInv, routerVars, RouterTypeOK, Walking, Usable
<1> QED BY <1>1, <1>2, <1>3, <1>4, <1>5, <1>6, <1>7 DEF RouterNext

\* The invariant holds in every reachable state.
THEOREM RouterInvariance == RouterSpec => []RouterInv
<1>1. RouterInit => RouterInv
  BY RouterInitInv
<1>2. RouterInv /\ [RouterNext]_routerVars => RouterInv'
  BY RouterNextInv
<1> QED BY <1>1, <1>2, PTL DEF RouterSpec

(***************************************************************************)
(* A chat that fails has asked all models but those that were cooling down *)
(* when it began, and at least one.                                        *)
(***************************************************************************)
THEOREM ChatsExhaustTheChain == RouterSpec => []FailsOnlyWhenExhausted
<1>1. RouterInv => FailsOnlyWhenExhausted
  BY DEF RouterInv, Walking, FailsOnlyWhenExhausted
<1> QED BY <1>1, RouterInvariance, PTL

(***************************************************************************)
(* No request goes to a model that is cooling down, unless all of them     *)
(* were when the chat began.                                               *)
(***************************************************************************)
THEOREM CoolingModelsRest == RouterSpec => []RejectedRests
<1>1. RouterInv => RejectedRests
  <2> SUFFICES ASSUME RouterInv, phase = "asking", disabledUntil[model] > began
               PROVE  \A m \in Models : disabledUntil[m] > began
    BY DEF RejectedRests
  <2>1. model \in Models /\ disabledUntil[model] \in Nat /\ began \in Nat
    BY DEF RouterInv, RouterTypeOK, Walking
  <2>2. ~ (disabledUntil[model] <= began)
    BY <2>1
  <2>3. Usable
    BY DEF RouterInv
  <2> QED BY <2>2, <2>3 DEF Usable
<1> QED BY <1>1, RouterInvariance, PTL

(***************************************************************************)
(* A chat runs out.  Left is the number of requests it may still make:     *)
(* each step but one of the clock lowers it or ends the chat, in whatever  *)
(* order the models are asked.  Together with fairness this is             *)
(* EveryChatEnds.                                                          *)
(***************************************************************************)
Left == Cardinality(candidates \ asked) * MaxRetries + (MaxRetries - attempt)

LEMMA ModelsFinite == IsFiniteSet(Models)
<1>1. Len(Chain) \in Nat /\ Chain \in [1..Len(Chain) -> Models] /\ DOMAIN Chain = 1..Len(Chain)
  BY RouterAssumption, LenProperties
<1>2. Chain \in Surjection(1..Len(Chain), Models)
  BY <1>1, RouterAssumption DEF Surjection
<1>3. IsFiniteSet(1..Len(Chain))
  BY <1>1, FS_Interval
<1> QED BY <1>2, <1>3, FS_Surjection

THEOREM ChatsRunOut ==
    RouterSpec => [][phase = "asking" /\ phase' = "asking" =>
                        /\ Left \in Nat
                        /\ Left' < Left \/ (Left' = Left /\ clock' # clock)]_routerVars
<1>1. ASSUME RouterInv, phase = "asking", phase' = "asking", RouterNext
      PROVE  /\ Left \in Nat
             /\ Left' < Left \/ (Left' = Left /\ clock' # clock)
  <2> DEFINE rest == candidates \ asked
             n == Cardinality(rest)
  <2>1. /\ IsFiniteSet(rest) /\ n \in Nat
        /\ MaxRetries \in Nat /\ MaxRetries > 0 /\ attempt \in 0..MaxRetries
    <3>1. rest \in SUBSET Models
      BY <1>1 DEF RouterInv, RouterTypeOK
    <3> QED BY <1>1, <3>1, ModelsFinite, FS_Subset, FS_CardinalityType, RouterAssumption
            DEF RouterInv, RouterTypeOK
  <2>2. n * MaxRetries \in Nat /\ Left = n * MaxRetries + (MaxRetries - attempt)
    BY <2>1 DEF Left
  <2>3. Left \in Nat
    <3> DEFINE k == n * MaxRetries
    <3> HIDE DEF k, n
    <3> QED BY <2>1, <2>2
  <2>4. CASE Retry
    <3>1. attempt' = attempt + 1 /\ candidates' = candidates /\ asked' = asked
      BY <2>4 DEF Retry
    <3>2. Left' = n * MaxRetries + (MaxRetries - (attempt + 1))
      BY <3>1 DEF Left
    <3> DEFINE k == n * MaxRetries
    <3>3. k \in Nat /\ Left = k + (MaxRetries - attempt) /\ Left' = k + (MaxRetries - (attempt + 1))
      BY <2>2, <3>2
    <3> HIDE DEF k
    <3> QED BY <2>1, <2>3, <3>3
  <2>5. CASE FallBack /\ candidates' = candidates
    <3>1. PICK m \in rest : asked' = asked \union {m} /\ attempt' = 1
      BY <1>1, <2>5 DEF FallBack, First
    <3>2. Cardinality(rest \ {m}) = n - 1 /\ n >= 1
      <4>1. Cardinality(rest \ {m}) = n - 1
        BY <2>1, <3>1, FS_RemoveElement
      <4>2. n # 0
        <5> HIDE DEF rest
        <5> QED BY <2>1, <3>1, FS_EmptySet
      <4> QED BY <2>1, <4>1, <4>2
    <3>3. candidates' \ asked' = rest \ {m}
      BY <2>5, <3>1
    <3>4. Left' = (n - 1) * MaxRetries + (MaxRetries - 1)
      BY <3>1, <3>2, <3>3 DEF Left
    <3> HIDE DEF n
    <3>5. (n - 1) * MaxRetries = n * MaxRetries - MaxRetries
      BY <2>1
    <3> DEFINE k == n * MaxRetries
    <3>6. /\ k \in Nat /\ Left = k + (MaxRetries - attempt)
          /\ Left' = (k - MaxRetries) + (MaxRetries - 1)
      BY <2>2, <3>4, <3>5
    <3> HIDE DEF k
    <3> QED BY <2>1, <2>3, <3>6
  <2>6. CASE Fails \/ Rejected
    BY <2>3, <2>5, <2>6 DEF Fails, Rejected
  <2>7. CASE Chat \/ Answered
    BY <1>1, <2>7 DEF Chat, Answered
  <2>8. CASE Tick
    <3>1. clock' # clock
      BY <1>1, <2>8 DEF Tick, RouterInv, RouterTypeOK
    <3>2. Left' = Left
      BY <2>8 DEF Tick, Left
    <3> QED BY <2>3, <3>1, <3>2
  <2> QED BY <1>1, <2>3, <2>4, <2>6, <2>7, <2>8 DEF RouterNext
<1>2. RouterInv /\ [RouterNext]_routerVars =>
        [phase = "asking" /\ phase' = "asking" =>
            /\ Left \in Nat
            /\ Left' < Left \/ (Left' = Left /\ clock' # clock)]_routerVars
  BY <1>1
<1> QED BY <1>2, RouterInvariance, PTL DEF RouterSpec
=============================================================================
