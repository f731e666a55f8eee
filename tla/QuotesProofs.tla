------------------------------ MODULE QuotesProofs ------------------------------
(***************************************************************************)
(* Theorems about Quotes, for any number of threads, calls and snapshots.  *)
(*                                                                         *)
(* WindowBound is not inductive: the limiter knows its own slots only.     *)
(* LimiterInv ties them to the requests that were let through: the slots   *)
(* are the newest of those, oldest first, and all others have left the     *)
(* window.                                                                 *)
(*                                                                         *)
(* KnownPriceServed and PricesAreDated are about the answers; QuotesInv    *)
(* says the same of what answers are made from, the two caches, and of a   *)
(* call at each of its steps.                                              *)
(***************************************************************************)
EXTENDS Quotes, SequenceTheorems, FiniteSetTheorems, TLAPS

LEMMA IntervalSize ==
  ASSUME NEW n \in Nat
  PROVE  IsFiniteSet(1 .. n) /\ Cardinality(1 .. n) = n
<1>1. /\ IsFiniteSet(1 .. n)
      /\ Cardinality(1 .. n) = IF 1 > n THEN 0 ELSE n - 1 + 1
  <2>1. 1 \in Int /\ n \in Int
    OBVIOUS
  <2> QED
    BY ONLY <2>1, FS_Interval
<1>2. CASE n = 0
  BY <1>1, <1>2
<1>3. CASE n > 0
  BY <1>1, <1>3
<1> QED
  BY <1>2, <1>3

\* In a sequence of falling ages the expired ones are the first ones: what Prune
\* counts is what it cuts off.
LEMMA ExpiredFirst ==
  ASSUME NEW s \in Seq(0 .. Window),
         \A i, j \in 1 .. Len(s) : i =< j => s[i] >= s[j]
  PROVE  \E k \in 0 .. Len(s) : /\ Prune(s) = SubSeq(s, k + 1, Len(s))
                                /\ \A i \in 1 .. k : s[i] = Window
<1> DEFINE E == {i \in DOMAIN s : s[i] >= Window}
           k == Cardinality(E)
<1>1. DOMAIN s = 1 .. Len(s) /\ Len(s) \in Nat /\ \A i \in 1 .. Len(s) : s[i] \in 0 .. Window
  BY LenProperties, ElementOfSeq
<1>2. IsFiniteSet(1 .. Len(s)) /\ Cardinality(1 .. Len(s)) = Len(s)
  BY <1>1, IntervalSize
<1>3. E \subseteq 1 .. Len(s)
  BY <1>1
<1>4. IsFiniteSet(E) /\ k \in Nat /\ k =< Len(s)
  BY <1>2, <1>3, FS_Subset, FS_CardinalityType
<1>5. ASSUME NEW i \in 1 .. k PROVE s[i] = Window
  <2>1. i \in 1 .. Len(s) /\ i \in Nat /\ i =< k /\ i >= 1
    BY <1>1, <1>4
  <2>2. CASE s[i] >= Window
    BY <2>1, <2>2, <1>1, QuotesAssumption DEF QuotesAssumption
  <2>3. CASE ~(s[i] >= Window)
    <3>1. ASSUME NEW j \in E PROVE j \in 1 .. i - 1
      <4>1. j \in 1 .. Len(s) /\ s[j] >= Window
        BY <3>1, <1>3
      <4>2. ~(i =< j)
        <5>1. SUFFICES ASSUME i =< j PROVE FALSE
          OBVIOUS
        <5>2. s[i] >= s[j]
          BY <5>1, <4>1, <2>1
        <5> QED
          BY <5>2, <4>1, <2>1, <2>3, <1>1, QuotesAssumption DEF QuotesAssumption
      <4> QED
        BY <4>1, <4>2, <2>1
    <3>2. E \subseteq 1 .. i - 1
      BY <3>1
    <3>3. IsFiniteSet(1 .. i - 1) /\ Cardinality(1 .. i - 1) = i - 1
      <4>1. i - 1 \in Nat
        BY <2>1
      <4> QED
        BY <4>1, IntervalSize
    <3>4. k =< i - 1
      BY <3>2, <3>3, FS_Subset
    <3> QED
      BY <3>4, <2>1, <1>4
  <2> QED
    BY <2>2, <2>3
<1>6. Prune(s) = SubSeq(s, k + 1, Len(s))
  <2>1. 1 + k = k + 1
    BY <1>4
  <2> QED
    BY <2>1 DEF Prune
<1>7. k \in 0 .. Len(s)
  BY <1>1, <1>4
<1> HIDE DEF k
<1> QED
  BY <1>5, <1>6, <1>7

-----------------------------------------------------------------------------
(* The limiter                                                             *)

\* What the invariant says of two sequences of ages; with it, what happens to the
\* slots and to the requests let through is a matter of sequences alone.
Tied(open, all) ==
  /\ open \in Seq(0 .. Window) /\ all \in Seq(0 .. Window)
  /\ Len(open) =< Len(all)
  /\ \A i, j \in 1 .. Len(open) : i =< j => open[i] >= open[j]
  /\ \A i \in 1 .. Len(open) : open[i] = all[Len(all) - Len(open) + i]
  /\ \A i \in 1 .. Len(all) - Len(open) : all[i] = Window

LEMMA TiedPrune ==
  ASSUME NEW open, NEW all, Tied(open, all)
  PROVE  Tied(Prune(open), all) /\ Len(Prune(open)) =< Len(open)
<1>1. PICK k \in 0 .. Len(open) : /\ Prune(open) = SubSeq(open, k + 1, Len(open))
                                  /\ \A i \in 1 .. k : open[i] = Window
  BY ExpiredFirst DEF Tied
<1> DEFINE p == SubSeq(open, k + 1, Len(open))
<1>2. /\ open \in Seq(0 .. Window) /\ all \in Seq(0 .. Window)
      /\ Len(open) \in Nat /\ Len(all) \in Nat /\ k \in Nat /\ k =< Len(open)
  BY <1>1, LenProperties DEF Tied
<1>3. /\ p \in Seq(0 .. Window) /\ Len(p) = Len(open) - k
      /\ \A i \in 1 .. Len(open) - k : p[i] = open[k + i]
  <2>1. /\ k + 1 \in Int /\ Len(open) \in Int
        /\ \A i \in k + 1 .. Len(open) : open[i] \in 0 .. Window
    <3>1. \A i \in k + 1 .. Len(open) : i \in 1 .. Len(open)
      BY <1>2
    <3>2. \A i \in 1 .. Len(open) : open[i] \in 0 .. Window
      BY <1>2, ElementOfSeq
    <3>3. k + 1 \in Int /\ Len(open) \in Int
      BY <1>2
    <3> QED
      BY <3>1, <3>2, <3>3
  <2>2. /\ p \in Seq(0 .. Window)
        /\ Len(p) = IF k + 1 =< Len(open) THEN Len(open) - (k + 1) + 1 ELSE 0
        /\ \A i \in 1 .. Len(open) - (k + 1) + 1 : p[i] = open[k + 1 + i - 1]
    BY <2>1, SubSeqProperties
  <2> HIDE DEF p
  <2>3. Len(p) = Len(open) - k /\ Len(open) - (k + 1) + 1 = Len(open) - k
    BY <2>2, <1>2
  <2>4. ASSUME NEW i \in 1 .. Len(open) - k PROVE p[i] = open[k + i]
    <3>1. i \in 1 .. Len(open) - (k + 1) + 1 /\ k + 1 + i - 1 = k + i
      BY <1>2
    <3> QED
      BY <3>1, <2>2
  <2> QED
    BY <2>2, <2>3, <2>4
<1>4. ASSUME NEW i \in 1 .. Len(p), NEW j \in 1 .. Len(p), i =< j PROVE p[i] >= p[j]
  <2>1. k + i \in 1 .. Len(open) /\ k + j \in 1 .. Len(open) /\ k + i =< k + j
    BY <1>2, <1>3, <1>4
  <2> QED
    BY <2>1, <1>3, <1>4 DEF Tied
<1>5. ASSUME NEW i \in 1 .. Len(p) PROVE p[i] = all[Len(all) - Len(p) + i]
  <2>1. k + i \in 1 .. Len(open) /\ Len(all) - Len(open) + (k + i) = Len(all) - Len(p) + i
    <3>1. Len(open) \in Nat /\ Len(all) \in Nat /\ Len(p) = Len(open) - k /\ k \in 0 .. Len(open)
      BY <1>2, <1>3
    <3>2. i \in 1 .. Len(open) - k
      BY <3>1
    <3> HIDE DEF p
    <3> QED
      BY <3>1, <3>2
  <2>2. open[k + i] = all[Len(all) - Len(open) + (k + i)]
    BY <2>1 DEF Tied
  <2> QED
    BY <2>1, <2>2, <1>3
<1>6. ASSUME NEW i \in 1 .. Len(all) - Len(p) PROVE all[i] = Window
  <2>1. CASE i =< Len(all) - Len(open)
    BY <2>1, <1>2 DEF Tied
  <2>2. CASE i > Len(all) - Len(open)
    <3>1. PICK j \in 1 .. k : i = Len(all) - Len(open) + j
      <4>1. i - (Len(all) - Len(open)) \in 1 .. k
        BY <2>2, <1>2, <1>3
      <4> QED
        BY <4>1, <1>2
    <3>2. j \in 1 .. Len(open)
      BY <1>2
    <3> QED
      BY <3>1, <3>2, <1>1 DEF Tied
  <2> QED
    BY <2>1, <2>2, <1>2, <1>3
<1>7. Len(p) =< Len(open) /\ Len(p) =< Len(all)
  BY <1>2, <1>3 DEF Tied
<1> HIDE DEF p
<1>8. Tied(p, all)
  BY <1>2, <1>3, <1>4, <1>5, <1>6, <1>7 DEF Tied
<1> QED
  BY <1>1, <1>7, <1>8 DEF p

\* A request let through takes a slot.
LEMMA TiedAppend ==
  ASSUME NEW open, NEW all, Tied(open, all)
  PROVE  Tied(Append(open, 0), Append(all, 0))
<1> DEFINE a == Append(open, 0)
           b == Append(all, 0)
<1>1. /\ open \in Seq(0 .. Window) /\ all \in Seq(0 .. Window)
      /\ Len(open) \in Nat /\ Len(all) \in Nat /\ Len(open) =< Len(all)
  BY LenProperties DEF Tied
<1>2. Window \in Nat /\ 0 \in 0 .. Window
  BY QuotesAssumption DEF QuotesAssumption
<1>3. /\ a \in Seq(0 .. Window) /\ Len(a) = Len(open) + 1
      /\ \A i \in 1 .. Len(open) : a[i] = open[i]
      /\ a[Len(open) + 1] = 0
  BY <1>1, <1>2, AppendProperties
<1>4. /\ b \in Seq(0 .. Window) /\ Len(b) = Len(all) + 1
      /\ \A i \in 1 .. Len(all) : b[i] = all[i]
      /\ b[Len(all) + 1] = 0
  BY <1>1, <1>2, AppendProperties
<1> HIDE DEF a, b
<1>5. \A i, j \in 1 .. Len(a) : i =< j => a[i] >= a[j]
  <2> SUFFICES ASSUME NEW i \in 1 .. Len(a), NEW j \in 1 .. Len(a), i =< j
               PROVE  a[i] >= a[j]
    OBVIOUS
  <2>1. a[i] \in 0 .. Window
    BY <1>3, ElementOfSeq
  <2>2. CASE j = Len(open) + 1
    BY <2>1, <2>2, <1>2, <1>3
  <2>3. CASE j # Len(open) + 1
    <3>1. i \in 1 .. Len(open) /\ j \in 1 .. Len(open)
      BY <2>3, <1>1, <1>3
    <3> QED
      BY <3>1, <1>3 DEF Tied
  <2> QED
    BY <2>2, <2>3
<1>6. \A i \in 1 .. Len(a) : a[i] = b[Len(b) - Len(a) + i]
  <2> SUFFICES ASSUME NEW i \in 1 .. Len(a) PROVE a[i] = b[Len(b) - Len(a) + i]
    OBVIOUS
  <2>1. Len(b) - Len(a) + i = Len(all) - Len(open) + i
    BY <1>1, <1>3, <1>4
  <2>2. CASE i = Len(open) + 1
    BY <2>1, <2>2, <1>1, <1>3, <1>4
  <2>3. CASE i # Len(open) + 1
    <3>1. i \in 1 .. Len(open) /\ Len(all) - Len(open) + i \in 1 .. Len(all)
      BY <2>3, <1>1, <1>3
    <3> QED
      BY <2>1, <3>1, <1>3, <1>4 DEF Tied
  <2> QED
    BY <2>2, <2>3
<1>7. \A i \in 1 .. Len(b) - Len(a) : b[i] = Window
  <2> SUFFICES ASSUME NEW i \in 1 .. Len(b) - Len(a) PROVE b[i] = Window
    OBVIOUS
  <2>1. i \in 1 .. Len(all) - Len(open) /\ i \in 1 .. Len(all)
    BY <1>1, <1>3, <1>4
  <2> QED
    BY <2>1, <1>4 DEF Tied
<1>8. Tied(a, b)
  BY <1>1, <1>3, <1>4, <1>5, <1>6, <1>7 DEF Tied
<1> QED
  BY <1>8 DEF a, b

\* The oldest request let through is forgotten when no slot stands for it.
LEMMA TiedTail ==
  ASSUME NEW open, NEW all, Tied(open, all), Len(open) < Len(all)
  PROVE  Tied(open, Tail(all)) /\ Len(Tail(all)) = Len(all) - 1
<1> DEFINE n == Tail(all)
<1>1. /\ open \in Seq(0 .. Window) /\ all \in Seq(0 .. Window)
      /\ Len(open) \in Nat /\ Len(all) \in Nat
  BY LenProperties DEF Tied
<1>2. all # << >>
  BY <1>1, EmptySeq
<1>3. n \in Seq(0 .. Window) /\ Len(n) = Len(all) - 1
      /\ \A i \in 1 .. Len(n) : n[i] = all[i + 1]
  BY <1>1, <1>2, HeadTailProperties
<1> HIDE DEF n
<1>4. \A i \in 1 .. Len(open) : open[i] = n[Len(n) - Len(open) + i]
  <2> SUFFICES ASSUME NEW i \in 1 .. Len(open)
               PROVE  open[i] = n[Len(n) - Len(open) + i]
    OBVIOUS
  <2>1. /\ Len(n) - Len(open) + i \in 1 .. Len(n)
        /\ Len(n) - Len(open) + i + 1 = Len(all) - Len(open) + i
    BY <1>1, <1>3
  <2>2. n[Len(n) - Len(open) + i] = all[Len(n) - Len(open) + i + 1]
    BY <2>1, <1>3
  <2> QED
    BY <2>1, <2>2 DEF Tied
<1>5. \A i \in 1 .. Len(n) - Len(open) : n[i] = Window
  <2> SUFFICES ASSUME NEW i \in 1 .. Len(n) - Len(open) PROVE n[i] = Window
    OBVIOUS
  <2>1. i \in 1 .. Len(n) /\ i + 1 \in 1 .. Len(all) - Len(open)
    BY <1>1, <1>3
  <2> QED
    BY <2>1, <1>3 DEF Tied
<1>6. Len(open) =< Len(n)
  BY <1>1, <1>3
<1>7. Tied(open, n)
  BY <1>3, <1>4, <1>5, <1>6 DEF Tied
<1> QED
  BY <1>3, <1>7 DEF n

-----------------------------------------------------------------------------
(* The limiter                                                             *)

LimiterInv ==
  /\ Tied(slots, granted)
  /\ Len(slots) =< MaxRequests /\ Len(granted) =< MaxRequests + 1

LEMMA LimiterInit ==
  ASSUME Init
  PROVE  LimiterInv
<1>1. slots = << >> /\ granted = << >> /\ Len(<< >>) = 0 /\ << >> \in Seq(0 .. Window)
  BY EmptySeq DEF Init
<1> QED
  BY <1>1, QuotesAssumption DEF LimiterInv, Tied, QuotesAssumption

LEMMA LimiterTick ==
  ASSUME LimiterInv, Tick
  PROVE  LimiterInv'
<1>1. /\ slots \in Seq(0 .. Window) /\ granted \in Seq(0 .. Window)
      /\ Len(slots) \in Nat /\ Len(granted) \in Nat
      /\ DOMAIN slots = 1 .. Len(slots) /\ DOMAIN granted = 1 .. Len(granted)
  BY LenProperties DEF LimiterInv, Tied
<1>2. \A a \in 0 .. Window : Older(a, Window) \in 0 .. Window
  BY QuotesAssumption DEF QuotesAssumption, Older
<1>3. \A s \in Seq(0 .. Window) : \A i \in 1 .. Len(s) : s[i] \in 0 .. Window
  BY ElementOfSeq
<1>4. slots' = [i \in 1 .. Len(slots) |-> Older(slots[i], Window)]
  BY <1>1 DEF Tick
<1>5. granted' = [i \in 1 .. Len(granted) |-> Older(granted[i], Window)]
  BY <1>1 DEF Tick
<1>6. /\ slots' \in Seq(0 .. Window) /\ Len(slots') = Len(slots)
      /\ \A i \in 1 .. Len(slots) : slots'[i] = Older(slots[i], Window)
  <2>1. \A i \in 1 .. Len(slots) : Older(slots[i], Window) \in 0 .. Window
    BY <1>1, <1>2, <1>3
  <2> QED
    BY <2>1, <1>1, <1>4, IsASeq, LenProperties
<1>7. /\ granted' \in Seq(0 .. Window) /\ Len(granted') = Len(granted)
      /\ \A i \in 1 .. Len(granted) : granted'[i] = Older(granted[i], Window)
  <2>1. \A i \in 1 .. Len(granted) : Older(granted[i], Window) \in 0 .. Window
    BY <1>1, <1>2, <1>3
  <2> QED
    BY <2>1, <1>1, <1>5, IsASeq, LenProperties
<1>8. \A i, j \in 1 .. Len(slots) : i =< j => slots'[i] >= slots'[j]
  <2> SUFFICES ASSUME NEW i \in 1 .. Len(slots), NEW j \in 1 .. Len(slots), i =< j
               PROVE  slots'[i] >= slots'[j]
    OBVIOUS
  <2>1. slots[i] >= slots[j] /\ slots[i] \in 0 .. Window /\ slots[j] \in 0 .. Window
    BY <1>1, <1>3 DEF LimiterInv, Tied
  <2> QED
    BY <2>1, <1>6, QuotesAssumption DEF QuotesAssumption, Older
<1>9. \A i \in 1 .. Len(slots) : slots'[i] = granted'[Len(granted) - Len(slots) + i]
  <2> SUFFICES ASSUME NEW i \in 1 .. Len(slots)
               PROVE  slots'[i] = granted'[Len(granted) - Len(slots) + i]
    OBVIOUS
  <2>1. Len(granted) - Len(slots) + i \in 1 .. Len(granted)
    BY <1>1 DEF LimiterInv, Tied
  <2>2. slots[i] = granted[Len(granted) - Len(slots) + i]
    BY DEF LimiterInv, Tied
  <2> QED
    BY <2>1, <2>2, <1>6, <1>7
<1>10. \A i \in 1 .. Len(granted) - Len(slots) : granted'[i] = Window
  <2> SUFFICES ASSUME NEW i \in 1 .. Len(granted) - Len(slots)
               PROVE  granted'[i] = Window
    OBVIOUS
  <2>1. i \in 1 .. Len(granted) /\ granted[i] = Window
    BY <1>1 DEF LimiterInv, Tied
  <2> QED
    BY <2>1, <1>7, QuotesAssumption DEF QuotesAssumption, Older
<1> QED
  BY <1>6, <1>7, <1>8, <1>9, <1>10 DEF LimiterInv, Tied

LEMMA LimiterAcquire ==
  ASSUME LimiterInv, NEW t \in Threads, Acquire(t)
  PROVE  LimiterInv'
<1> DEFINE open == Prune(slots)
<1>1. Tied(open, granted) /\ Len(open) =< Len(slots)
  BY TiedPrune DEF LimiterInv
<1>2. /\ open \in Seq(0 .. Window) /\ granted \in Seq(0 .. Window)
      /\ Len(open) \in Nat /\ Len(granted) \in Nat /\ Len(slots) \in Nat
      /\ MaxRequests \in Nat /\ 0 \in 0 .. Window
  BY <1>1, LenProperties, QuotesAssumption DEF Tied, LimiterInv, QuotesAssumption
<1>3. \/ /\ Len(open) < MaxRequests
         /\ slots' = Append(open, 0) /\ granted' = Newest(Append(granted, 0))
      \/ slots' = open /\ granted' = granted
  BY DEF Acquire
<1>4. CASE slots' = open /\ granted' = granted
  BY <1>1, <1>2, <1>4 DEF LimiterInv
<1>5. CASE /\ Len(open) < MaxRequests
           /\ slots' = Append(open, 0) /\ granted' = Newest(Append(granted, 0))
  <2> DEFINE b == Append(granted, 0)
  <2>1. Tied(slots', b) /\ Len(slots') = Len(open) + 1 /\ Len(b) = Len(granted) + 1
    BY <1>1, <1>2, <1>5, TiedAppend, AppendProperties
  <2> HIDE DEF b, open
  <2>2. Len(slots') =< MaxRequests /\ Len(b) =< MaxRequests + 2 /\ Len(b) \in Nat
    BY <2>1, <1>2, <1>5 DEF LimiterInv
  <2>3. CASE Len(b) > MaxRequests + 1
    <3>1. granted' = Tail(b)
      BY <2>3, <1>5 DEF Newest, b
    <3>2. Len(slots') < Len(b)
      BY <2>1, <2>2, <2>3, <1>2
    <3>3. Tied(slots', Tail(b)) /\ Len(Tail(b)) = Len(b) - 1
      BY <2>1, <3>2, TiedTail
    <3> QED
      BY <3>1, <3>3, <2>2, <1>2 DEF LimiterInv
  <2>4. CASE ~(Len(b) > MaxRequests + 1)
    <3>1. granted' = b
      BY <2>4, <1>5 DEF Newest, b
    <3> QED
      BY <3>1, <2>1, <2>2, <2>4, <1>2 DEF LimiterInv
  <2> QED
    BY <2>3, <2>4
<1> QED
  BY <1>3, <1>4, <1>5

\* At most MaxRequests requests are let through to the exchange in any window, for
\* any number of threads and whatever they ask for (twstock_client.py:352-373).
THEOREM QuotesWindowBound == Spec => []WindowBound
<1>1. Init => LimiterInv
  BY LimiterInit
<1>2. LimiterInv /\ [Next]_vars => LimiterInv'
  <2> SUFFICES ASSUME LimiterInv, [Next]_vars PROVE LimiterInv'
    OBVIOUS
  <2>1. CASE UNCHANGED <<slots, granted>>
    BY <2>1 DEF LimiterInv, Tied
  <2>2. CASE Trade
    BY <2>1, <2>2 DEF Trade
  <2>3. CASE Tick
    BY <2>3, LimiterTick
  <2>4. ASSUME NEW t \in Threads, Work(t) PROVE LimiterInv'
    <3>1. CASE Acquire(t)
      BY <3>1, LimiterAcquire
    <3>2. CASE Ask(t)
      BY <2>1, <3>2 DEF Ask
    <3>3. CASE ReadLast(t)
      BY <2>1, <3>3 DEF ReadLast
    <3>4. CASE Store(t)
      BY <2>1, <3>4 DEF Store
    <3> QED
      BY <2>4, <3>1, <3>2, <3>3, <3>4 DEF Work
  <2>5. ASSUME NEW t \in Threads, NEW kind \in Kinds, Start(t, kind) PROVE LimiterInv'
    BY <2>1, <2>5 DEF Start
  <2>6. CASE UNCHANGED vars
    BY <2>1, <2>6 DEF vars
  <2> QED
    BY <2>2, <2>3, <2>4, <2>5, <2>6 DEF Next
<1>3. LimiterInv => WindowBound
  <2> SUFFICES ASSUME LimiterInv, Len(granted) > MaxRequests PROVE granted[1] >= Window
    BY DEF WindowBound
  <2>1. /\ Len(slots) \in Nat /\ Len(granted) \in Nat
        /\ MaxRequests \in Nat /\ Window \in Nat
    BY LenProperties, QuotesAssumption DEF LimiterInv, Tied, QuotesAssumption
  <2>2. 1 \in 1 .. Len(granted) - Len(slots)
    BY <2>1 DEF LimiterInv
  <2> QED
    BY <2>1, <2>2 DEF LimiterInv, Tied
<1> QED
  BY <1>1, <1>2, <1>3, PTL DEF Spec

-----------------------------------------------------------------------------
(* The caches                                                              *)

\* A price is dated, and one of this very snapshot is that snapshot's.
Dated(q) ==
  /\ Priced(q) => q.from = q.price
  /\ q.source = "realtime" => Priced(q) /\ q.time = q.price

CallInv(c, known) ==
  /\ c.pc \in {"slot", "ask"} => c.tries < Attempts
  /\ c.pc \in {"slot", "ask", "read"} => c.quote = {}
  /\ c.pc = "read" => c.payload # 0
  /\ \A q \in c.quote : Dated(q)
  /\ c.known => known
  /\ c.known /\ (c.pc = "store" \/ (c.pc = "answered" /\ c.tries > 0))
       => \A q \in c.quote : Priced(q)

QuotesInv ==
  /\ TypeOK /\ LimiterInv
  /\ \A q \in last : Dated(q) /\ q.source = "realtime"
  /\ \A e \in cache : Dated(e.quote)
  /\ \A t \in Threads : CallInv(thread[t], last # {})

LEMMA OneCall ==
  ASSUME QuotesInv, NEW t \in Threads, NEW c \in Call, Become(t, c),
         last # {} => last' # {}, CallInv(c, (last # {})')
  PROVE  /\ thread' \in [Threads -> Call]
         /\ \A u \in Threads : CallInv(thread'[u], (last # {})')
<1>1. thread \in [Threads -> Call]
  BY DEF QuotesInv, TypeOK
<1>2. thread' \in [Threads -> Call] /\ thread'[t] = c
      /\ \A u \in Threads \ {t} : thread'[u] = thread[u]
  BY <1>1 DEF Become
<1>3. ASSUME NEW u \in Threads \ {t} PROVE CallInv(thread'[u], (last # {})')
  <2>1. CallInv(thread[u], last # {})
    BY DEF QuotesInv
  <2> QED
    BY <1>2, <2>1 DEF CallInv
<1> QED
  BY <1>2, <1>3

LEMMA QuotesTick ==
  ASSUME QuotesInv, Tick
  PROVE  QuotesInv'
<1>1. LimiterInv'
  BY LimiterTick DEF QuotesInv
<1>2. slots' \in Seq(0 .. Window) /\ granted' \in Seq(0 .. Window)
  BY <1>1 DEF LimiterInv, Tied
<1>3. \A e \in cache' : /\ e \in [age : 0 .. TTL + 1, quote : Quote]
                        /\ Dated(e.quote)
  <2> SUFFICES ASSUME NEW e \in cache
               PROVE  LET o == [e EXCEPT !.age = Older(@, TTL + 1)]
                      IN o \in [age : 0 .. TTL + 1, quote : Quote] /\ Dated(o.quote)
    BY DEF Tick
  <2>1. e \in [age : 0 .. TTL + 1, quote : Quote] /\ Dated(e.quote)
    BY DEF QuotesInv, TypeOK
  <2>2. Older(e.age, TTL + 1) \in 0 .. TTL + 1
    BY <2>1, QuotesAssumption DEF Older, QuotesAssumption
  <2>3. [e EXCEPT !.age = Older(@, TTL + 1)] = [age |-> Older(e.age, TTL + 1), quote |-> e.quote]
    BY <2>1
  <2> QED
    BY <2>1, <2>2, <2>3
<1>4. \A t \in Threads : thread'[t] \in Call /\ CallInv(thread'[t], last # {})
  <2> SUFFICES ASSUME NEW t \in Threads
               PROVE  thread'[t] \in Call /\ CallInv(thread'[t], last # {})
    OBVIOUS
  <2>1. thread[t] \in Call /\ CallInv(thread[t], last # {})
    BY DEF QuotesInv, TypeOK
  <2>2. thread'[t] = [thread[t] EXCEPT !.timer = IF @ > 0 THEN @ - 1 ELSE 0]
    BY DEF Tick
  <2> DEFINE n == IF thread[t].timer > 0 THEN thread[t].timer - 1 ELSE 0
  <2>3. n \in 0 .. Window + Delay
    BY <2>1, QuotesAssumption DEF Call, QuotesAssumption
  <2>4. thread'[t] = [thread[t] EXCEPT !.timer = n]
    BY <2>1, <2>2 DEF Call
  <2> HIDE DEF n
  <2> QED
    BY <2>1, <2>3, <2>4 DEF Call, CallInv
<1>5. thread' \in [Threads -> Call]
  BY <1>4 DEF Tick
<1> QED
  BY <1>1, <1>2, <1>3, <1>4, <1>5 DEF QuotesInv, TypeOK, Tick

LEMMA QuotesStart ==
  ASSUME QuotesInv, NEW t \in Threads, NEW kind \in Kinds, Start(t, kind)
  PROVE  QuotesInv'
<1> DEFINE pc == IF Lookup(kind) = {} THEN "slot" ELSE "answered"
           known == last # {}
           c == [pc |-> pc, kind |-> kind, tries |-> 0, timer |-> 0, payload |-> 0,
                 quote |-> Lookup(kind), known |-> known]
<1>1. /\ calls < MaxCalls /\ calls' = calls + 1
      /\ cache' \subseteq cache
      /\ Become(t, c)
      /\ UNCHANGED <<snap, slots, granted, last>>
  BY DEF Start, Fresh
<1>2. Lookup(kind) \in SUBSET Quote /\ \A q \in Lookup(kind) : Dated(q)
  BY DEF Lookup, Fresh, QuotesInv, TypeOK
<1>3. pc \in {"slot", "answered"} /\ (pc = "slot" => Lookup(kind) = {})
  OBVIOUS
<1>4. known \in BOOLEAN
  OBVIOUS
<1>5. known => last' # {}
  BY <1>1
<1> HIDE DEF pc, known
<1>6. /\ c \in Call
      /\ c.pc = pc /\ c.tries = 0 /\ c.quote = Lookup(kind) /\ c.known = known
  <2>2. 0 \in 0 .. Attempts /\ 0 \in 0 .. Window + Delay /\ 0 \in 0 .. MaxSnap
    BY QuotesAssumption DEF QuotesAssumption
  <2>3. pc \in {"idle", "slot", "ask", "read", "store", "answered", "failed"}
    BY <1>3
  <2>4. c \in Call
    BY <1>2, <1>4, <2>2, <2>3, Zenon DEF Call
  <2>5. c.pc = pc /\ c.tries = 0 /\ c.quote = Lookup(kind)
    OBVIOUS
  <2>6. c.known = known
    BY Zenon
  <2> QED
    BY <2>4, <2>5, <2>6
<1> HIDE DEF c
<1>7. CallInv(c, last' # {})
  BY <1>2, <1>3, <1>5, <1>6, QuotesAssumption DEF CallInv, QuotesAssumption
<1>8. last # {} => last' # {}
  BY <1>1
<1>9. /\ thread' \in [Threads -> Call]
      /\ \A u \in Threads : CallInv(thread'[u], (last # {})')
  BY <1>1, <1>6, <1>7, <1>8, OneCall
<1>10. calls' \in 0 .. MaxCalls
  BY <1>1, QuotesAssumption DEF QuotesInv, TypeOK, QuotesAssumption
<1> QED
  BY <1>1, <1>9, <1>10 DEF QuotesInv, TypeOK, LimiterInv, Tied

LEMMA QuotesAcquire ==
  ASSUME QuotesInv, NEW t \in Threads, Acquire(t)
  PROVE  QuotesInv'
<1> DEFINE open == Prune(slots)
<1>1. LimiterInv'
  BY LimiterAcquire DEF QuotesInv
<1>2. slots' \in Seq(0 .. Window) /\ granted' \in Seq(0 .. Window)
  BY <1>1 DEF LimiterInv, Tied
<1>3. thread[t] \in Call /\ CallInv(thread[t], last # {}) /\ thread[t].pc = "slot"
  BY DEF QuotesInv, TypeOK, Acquire, At
<1>4. PICK c : c \in Call /\ CallInv(c, last # {}) /\ Become(t, c)
  <2>1. CASE Become(t, [thread[t] EXCEPT !.pc = "ask"])
    <3>1. [thread[t] EXCEPT !.pc = "ask"] \in Call
      BY <1>3 DEF Call
    <3>2. CallInv([thread[t] EXCEPT !.pc = "ask"], last # {})
      BY <1>3 DEF Call, CallInv
    <3> QED
      BY <2>1, <3>1, <3>2
  <2>2. CASE /\ Len(open) >= MaxRequests
             /\ Become(t, [thread[t] EXCEPT !.timer = Window - Head(open)])
    <3>1. open \in Seq(0 .. Window) /\ Len(open) \in Nat
      BY TiedPrune, LenProperties DEF QuotesInv, LimiterInv, Tied
    <3>2. open # << >>
      BY <2>2, EmptySeq, QuotesAssumption DEF QuotesAssumption
    <3>3. Head(open) \in 0 .. Window
      BY <3>1, <3>2, HeadTailProperties
    <3> HIDE DEF open
    <3>4. Window - Head(open) \in 0 .. Window + Delay
      BY <3>3, QuotesAssumption DEF QuotesAssumption
    <3> DEFINE c == [thread[t] EXCEPT !.timer = Window - Head(open)]
    <3>5. c \in Call
      BY <1>3, <3>4 DEF Call
    <3>6. CallInv(c, last # {})
      BY <1>3 DEF Call, CallInv
    <3> QED
      BY <2>2, <3>5, <3>6
  <2> QED
    BY <2>1, <2>2 DEF Acquire
<1>5. UNCHANGED <<snap, cache, last, calls>>
  BY DEF Acquire
<1>6. /\ thread' \in [Threads -> Call]
      /\ \A u \in Threads : CallInv(thread'[u], (last # {})')
  BY <1>4, <1>5, OneCall
<1> QED
  BY <1>1, <1>2, <1>5, <1>6 DEF QuotesInv, TypeOK

LEMMA QuotesAsk ==
  ASSUME QuotesInv, NEW t \in Threads, Ask(t)
  PROVE  QuotesInv'
<1>1. thread[t] \in Call /\ CallInv(thread[t], last # {}) /\ thread[t].pc = "ask"
  BY DEF QuotesInv, TypeOK, Ask, At
<1>2. PICK answer \in {"priced", "unpriced", "error"} :
        IF thread[t].kind = "history" THEN AskMonth(t, answer) ELSE AskQuote(t, answer)
  BY DEF Ask
<1>3. /\ thread[t].tries \in 0 .. Attempts /\ thread[t].tries < Attempts
      /\ thread[t].quote = {} /\ Attempts \in Nat
  BY <1>1, QuotesAssumption DEF Call, CallInv, QuotesAssumption
<1>4. thread[t].tries + 1 \in 0 .. Attempts
  BY <1>3
<1>5. snap \in 0 .. MaxSnap /\ snap # 0 /\ snap \in 1 .. MaxSnap
  BY QuotesAssumption DEF QuotesInv, TypeOK, QuotesAssumption
<1>6. PICK c : c \in Call /\ CallInv(c, last # {}) /\ Become(t, c)
  <2>1. CASE AskMonth(t, answer)
    <3> DEFINE b == [thread[t] EXCEPT !.tries = @ + 1]
               pc == CASE answer = "error" -> "failed"
                       [] answer # "error" /\ b.tries < Attempts -> "slot"
                       [] OTHER -> "answered"
               c == [b EXCEPT !.pc = pc]
    <3>1. b \in Call /\ b.tries = thread[t].tries + 1 /\ b.quote = {} /\ b.known = thread[t].known
      BY <1>1, <1>3, <1>4 DEF Call
    <3>2. pc \in {"failed", "slot", "answered"} /\ (pc = "slot" => b.tries < Attempts)
      OBVIOUS
    <3>3. Become(t, c)
      BY <2>1 DEF AskMonth
    <3> HIDE DEF b, pc
    <3>4. c \in Call /\ c.pc = pc /\ c.tries = b.tries /\ c.quote = {} /\ c.known = b.known
      BY <3>1, <3>2 DEF Call
    <3> HIDE DEF c
    <3>5. CallInv(c, last # {})
      BY <1>1, <3>1, <3>2, <3>4 DEF CallInv
    <3> QED
      BY <3>3, <3>4, <3>5
  <2>2. CASE AskQuote(t, answer)
    <3> DEFINE b == [thread[t] EXCEPT !.tries = @ + 1,
                                      !.payload = IF answer = "error" THEN @ ELSE snap]
               q == [price |-> snap, time |-> snap, source |-> "realtime", from |-> snap]
               pc == IF b.payload = 0 THEN "failed" ELSE "read"
    <3>1. \/ answer = "priced" /\ Become(t, [b EXCEPT !.pc = "store", !.quote = {q}])
          \/ /\ answer # "priced" /\ b.tries < Attempts
             /\ Become(t, [b EXCEPT !.pc = "slot", !.timer = Delay])
          \/ /\ answer # "priced" /\ b.tries = Attempts
             /\ Become(t, [b EXCEPT !.pc = pc])
      BY <2>2, Zenon DEF AskQuote
    <3>2. /\ b \in Call /\ b.tries = thread[t].tries + 1
          /\ b.quote = {} /\ b.known = thread[t].known
      BY <1>1, <1>3, <1>4, <1>5 DEF Call
    <3>3. q \in Quote /\ Dated(q) /\ Priced(q)
      BY <1>5 DEF Quote, Dated, Priced, Sources
    <3>4. pc \in {"failed", "read"} /\ (pc = "read" => b.payload # 0)
      OBVIOUS
    <3> HIDE DEF b, q, pc
    <3>5. CASE answer = "priced"
      <4> DEFINE c == [b EXCEPT !.pc = "store", !.quote = {q}]
      <4>1. Become(t, c)
        BY <3>1, <3>5
      <4>2. c \in Call /\ c.pc = "store" /\ c.quote = {q} /\ c.known = b.known
        BY <3>2, <3>3 DEF Call
      <4> HIDE DEF c
      <4>3. CallInv(c, last # {})
        BY <1>1, <3>2, <3>3, <4>2 DEF CallInv
      <4> QED
        BY <4>1, <4>2, <4>3
    <3>6. CASE answer # "priced" /\ b.tries < Attempts
      <4> DEFINE c == [b EXCEPT !.pc = "slot", !.timer = Delay]
      <4>1. Become(t, c)
        BY <3>1, <3>2, <3>6, <1>3
      <4>2. Delay \in 0 .. Window + Delay
        BY QuotesAssumption DEF QuotesAssumption
      <4>3. c \in Call /\ c.pc = "slot" /\ c.quote = {} /\ c.known = b.known /\ c.tries = b.tries
        BY <3>2, <4>2 DEF Call
      <4> HIDE DEF c
      <4>4. CallInv(c, last # {})
        BY <1>1, <3>2, <3>6, <4>3 DEF CallInv
      <4> QED
        BY <4>1, <4>3, <4>4
    <3>7. CASE answer # "priced" /\ b.tries = Attempts
      <4> DEFINE c == [b EXCEPT !.pc = pc]
      <4>1. Become(t, c)
        BY <3>1, <3>2, <3>7, <1>3
      <4>2. /\ c \in Call /\ c.pc = pc /\ c.quote = {} /\ c.known = b.known
            /\ c.payload = b.payload
        BY <3>2, <3>4 DEF Call
      <4> HIDE DEF c
      <4>4. CallInv(c, last # {})
        BY <1>1, <3>2, <3>4, <4>2 DEF CallInv
      <4> QED
        BY <4>1, <4>2, <4>4
    <3>8. b.tries < Attempts \/ b.tries = Attempts
      BY <3>2, <1>3
    <3> QED
      BY <3>5, <3>6, <3>7, <3>8
  <2> QED
    BY <1>2, <2>1, <2>2
<1>7. UNCHANGED <<snap, slots, granted, cache, last, calls>>
  BY DEF Ask
<1>8. /\ thread' \in [Threads -> Call]
      /\ \A u \in Threads : CallInv(thread'[u], (last # {})')
  BY <1>6, <1>7, OneCall
<1> QED
  BY <1>7, <1>8 DEF QuotesInv, TypeOK, LimiterInv, Tied

LEMMA QuotesReadLast ==
  ASSUME QuotesInv, NEW t \in Threads, ReadLast(t)
  PROVE  QuotesInv'
<1> DEFINE f == Fallback(thread[t].payload)
           c == [thread[t] EXCEPT !.pc = "store", !.quote = f]
<1>1. thread[t] \in Call /\ CallInv(thread[t], last # {}) /\ thread[t].pc = "read"
  BY DEF QuotesInv, TypeOK, ReadLast, At
<1>2. thread[t].payload \in 1 .. MaxSnap
  BY <1>1, QuotesAssumption DEF Call, CallInv, QuotesAssumption
<1>3. \A q \in last : q \in Quote /\ Dated(q) /\ q.source = "realtime"
  BY DEF QuotesInv, TypeOK
<1>4. \A q \in f : q \in Quote /\ Dated(q) /\ (last # {} => Priced(q))
  <2>1. CASE last = {}
    BY <1>2, <2>1, QuotesAssumption DEF Fallback, Quote, Sources, Dated, Priced, QuotesAssumption
  <2>2. CASE last # {}
    <3> SUFFICES ASSUME NEW q \in last
                 PROVE  LET o == [price |-> q.price, time |-> thread[t].payload,
                                  source |-> "cache", from |-> q.time]
                        IN o \in Quote /\ Dated(o) /\ Priced(o)
      BY <2>2 DEF Fallback
    <3>1. q \in Quote /\ Dated(q) /\ q.source = "realtime"
      BY <1>3
    <3>2. q.price # 0 /\ q.time = q.price /\ q.price \in 0 .. MaxSnap /\ q.time \in 0 .. MaxSnap
      BY <3>1, QuotesAssumption DEF Dated, Priced, Quote, QuotesAssumption
    <3> QED
      BY <1>2, <3>2 DEF Quote, Sources, Dated, Priced
  <2> QED
    BY <2>1, <2>2
<1>5. Become(t, c) /\ UNCHANGED <<snap, slots, granted, cache, last, calls>>
  BY DEF ReadLast
<1> HIDE DEF f
<1>6. c \in Call /\ c.pc = "store" /\ c.quote = f /\ c.known = thread[t].known
  <2>1. f \in SUBSET Quote
    BY <1>4
  <2> QED
    BY <1>1, <2>1 DEF Call
<1> HIDE DEF c
<1>7. CallInv(c, last # {})
  BY <1>1, <1>4, <1>6 DEF CallInv
<1>8. /\ thread' \in [Threads -> Call]
      /\ \A u \in Threads : CallInv(thread'[u], (last # {})')
  BY <1>5, <1>6, <1>7, OneCall
<1> QED
  BY <1>5, <1>8 DEF QuotesInv, TypeOK, LimiterInv, Tied

LEMMA QuotesStore ==
  ASSUME QuotesInv, NEW t \in Threads, Store(t)
  PROVE  QuotesInv'
<1> DEFINE c == [thread[t] EXCEPT !.pc = "answered"]
<1>1. thread[t] \in Call /\ CallInv(thread[t], last # {}) /\ thread[t].pc = "store"
  BY DEF QuotesInv, TypeOK, Store, At
<1>2. PICK q \in thread[t].quote : CacheQuote(q)
  BY DEF Store
<1>3. q \in Quote /\ Dated(q)
  BY <1>1, <1>2 DEF Call, CallInv
<1>4. /\ cache' = {[age |-> 0, quote |-> q]}
      /\ last' = IF q.source = "realtime" THEN {q} ELSE last
  BY <1>2 DEF CacheQuote
<1>5. cache' \in SUBSET [age : 0 .. TTL + 1, quote : Quote]
      /\ \A e \in cache' : Dated(e.quote)
  BY <1>3, <1>4, QuotesAssumption DEF QuotesAssumption
<1>6. /\ last' \in SUBSET Quote /\ (last # {} => last' # {})
      /\ \A p \in last' : Dated(p) /\ p.source = "realtime"
  BY <1>3, <1>4 DEF QuotesInv, TypeOK
<1>7. Become(t, c) /\ UNCHANGED <<snap, slots, granted, calls>>
  BY DEF Store
<1>8. c \in Call /\ c.pc = "answered" /\ c.quote = thread[t].quote /\ c.known = thread[t].known
  BY <1>1 DEF Call
<1> HIDE DEF c
<1>9. CallInv(c, last' # {})
  BY <1>1, <1>6, <1>8 DEF CallInv
<1>10. /\ thread' \in [Threads -> Call]
       /\ \A u \in Threads : CallInv(thread'[u], (last # {})')
  BY <1>6, <1>7, <1>8, <1>9, OneCall
<1> QED
  BY <1>5, <1>6, <1>7, <1>10 DEF QuotesInv, TypeOK, LimiterInv, Tied

LEMMA QuotesInit ==
  ASSUME Init
  PROVE  QuotesInv
<1>1. LimiterInv
  BY LimiterInit
<1>2. NoCall \in Call /\ \A known \in BOOLEAN : CallInv(NoCall, known)
  BY QuotesAssumption DEF NoCall, Call, Kinds, CallInv, QuotesAssumption
<1>3. TypeOK
  BY <1>1, <1>2, QuotesAssumption DEF Init, TypeOK, LimiterInv, Tied, QuotesAssumption
<1> QED
  BY <1>1, <1>2, <1>3 DEF Init, QuotesInv

LEMMA QuotesInductive == Spec => []QuotesInv
<1>1. Init => QuotesInv
  BY QuotesInit
<1>2. QuotesInv /\ [Next]_vars => QuotesInv'
  <2> SUFFICES ASSUME QuotesInv, [Next]_vars
               PROVE  QuotesInv'
    OBVIOUS
  <2>1. CASE Trade
    <3>1. snap' \in 1 .. MaxSnap
      BY <2>1, QuotesAssumption DEF Trade, QuotesInv, TypeOK, QuotesAssumption
    <3> QED
      BY <2>1, <3>1 DEF Trade, QuotesInv, TypeOK, LimiterInv, Tied
  <2>2. CASE Tick
    BY <2>2, QuotesTick
  <2>3. CASE \E t \in Threads : Work(t)
    BY <2>3, QuotesAcquire, QuotesAsk, QuotesReadLast, QuotesStore DEF Work
  <2>4. CASE \E t \in Threads, kind \in Kinds : Start(t, kind)
    BY <2>4, QuotesStart
  <2>5. CASE UNCHANGED vars
    BY <2>5 DEF vars, QuotesInv, TypeOK, LimiterInv, Tied
  <2> QED
    BY <2>1, <2>2, <2>3, <2>4, <2>5 DEF Next
<1> QED
  BY <1>1, <1>2, PTL DEF Spec

\* The limiter, the caches and the calls keep their types.
THEOREM QuotesTypeOK == Spec => []TypeOK
<1>1. QuotesInv => TypeOK
  BY DEF QuotesInv
<1> QED
  BY <1>1, QuotesInductive, PTL

\* A call that began when a price of the code was known, and that reached the
\* exchange, does not answer without a price (twstock_client.py:202-228).
THEOREM QuotesKnownPriceServed == Spec => []KnownPriceServed
<1>1. QuotesInv => KnownPriceServed
  BY DEF QuotesInv, KnownPriceServed, CallInv, At
<1> QED
  BY <1>1, QuotesInductive, PTL

\* A price comes with the time it was traded, however many fallbacks came between
\* (twstock_client.py:204-217, 342-346).
THEOREM QuotesPricesAreDated == Spec => []PricesAreDated
<1>1. QuotesInv => PricesAreDated
  BY DEF QuotesInv, PricesAreDated, CallInv, Dated
<1> QED
  BY <1>1, QuotesInductive, PTL
=================================================================================
