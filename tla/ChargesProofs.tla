----------------------------- MODULE ChargesProofs ----------------------------
(***************************************************************************)
(* Lemmas about the money arithmetic of Charges: integer division, the     *)
(* fee, what a buy costs, and that the sizing function has a value.  The   *)
(* last one needs the largest element of a bounded set of numbers, which   *)
(* comes from the well-foundedness of < on Nat.                            *)
(* And what sums over finite sets are, for the money of an account: what   *)
(* one more, one less or one other summand makes of them.                  *)
(***************************************************************************)
EXTENDS Charges, FiniteSetsExt, FiniteSetTheorems, TLAPS

(* What the provers need to know of integer division.                      *)
LEMMA Division ==
  ASSUME NEW a \in Nat, NEW b \in Nat \ {0}
  PROVE  /\ a \div b \in Nat
         /\ b * (a \div b) <= a
         /\ a < b * ((a \div b) + 1)
  OBVIOUS

(* The fee is a non-negative integer for every amount (never less than     *)
(* one dollar).                                                            *)
LEMMA FeeType ==
  ASSUME NEW amount \in Nat
  PROVE  Fee(amount) \in Nat /\ Fee(amount) >= Unit
  <1> DEFINE dollars == (amount * FeeNum) \div (RateDen * Unit)
  <1>1. amount * FeeNum \in Nat /\ RateDen * Unit \in Nat \ {0}
    BY ChargesAssumption
  <1>2. dollars \in Nat
    BY <1>1, Division
  <1>3. Fee(amount) = Unit * (IF dollars >= 1 THEN dollars ELSE 1)
    BY DEF Fee
  <1>4. CASE dollars >= 1
    <2>1. Fee(amount) = Unit * dollars
      BY <1>3, <1>4
    <2>2. Unit * dollars \in Nat /\ Unit * dollars >= Unit
      BY <1>2, <1>4, ChargesAssumption
    <2>3. QED
      BY <2>1, <2>2
  <1>5. CASE ~(dollars >= 1)
    BY <1>3, <1>5, ChargesAssumption
  <1>6. QED
    BY <1>4, <1>5

(* A buy of shares costs money, even of free ones.                         *)
LEMMA BuyCostType ==
  ASSUME NEW p \in Nat, NEW q \in Nat
  PROVE  BuyCost(p, q) \in Nat /\ BuyCost(p, q) > 0
  <1>1. p * q \in Nat
    OBVIOUS
  <1>2. Fee(p * q) \in Nat /\ Fee(p * q) > 0
    BY <1>1, FeeType, ChargesAssumption
  <1>3. QED
    BY <1>1, <1>2 DEF BuyCost

LEMMA TaxType ==
  ASSUME NEW amount \in Nat
  PROVE  Tax(amount) \in Nat
  <1> DEFINE dollars == (amount * TaxNum) \div (RateDen * Unit)
  <1>1. amount * TaxNum \in Nat /\ RateDen * Unit \in Nat \ {0}
    BY ChargesAssumption
  <1>2. dollars \in Nat
    BY <1>1, Division
  <1>3. QED
    BY <1>2, ChargesAssumption DEF Tax

LEMMA SellProceedsType ==
  ASSUME NEW p \in Nat, NEW q \in Nat
  PROVE  SellProceeds(p, q) \in Int
  <1>1. p * q \in Nat
    OBVIOUS
  <1>2. QED
    BY <1>1, FeeType, TaxType DEF SellProceeds

LEMMA Product ==
  /\ \A a, b \in Nat : a * b \in Nat
  /\ \A a, b \in Nat : b > 0 => a <= a * b
  /\ \A a, b, k \in Nat : a <= b => k * a <= k * b
  /\ \A a, b \in Nat, k \in Nat \ {0} : k * a <= k * b => a <= b
  OBVIOUS

(* A sale of at least two dollars covers its charges when fee and tax      *)
(* together are at most the whole of it, and the tax at most half.  Taiwan *)
(* charges 0.1425% and 0.3%.                                               *)
LEMMA SaleCoversCharges ==
  ASSUME NEW p \in Nat, NEW q \in Nat, p * q >= 2 * Unit,
         FeeNum + TaxNum <= RateDen, 2 * TaxNum <= RateDen
  PROVE  SellProceeds(p, q) >= 0
  <1> DEFINE A == p * q
  <1> DEFINE D == RateDen * Unit
  <1> DEFINE f == (A * FeeNum) \div D
  <1> DEFINE t == (A * TaxNum) \div D
  <1> USE ChargesAssumption
  <1>1. A \in Nat /\ D \in Nat \ {0} /\ A * FeeNum \in Nat /\ A * TaxNum \in Nat
    BY Product
  <1>2. f \in Nat /\ D * f <= A * FeeNum /\ t \in Nat /\ D * t <= A * TaxNum
    BY <1>1, Division
  <1>3. Fee(A) = Unit * (IF f >= 1 THEN f ELSE 1) /\ Tax(A) = Unit * t
    BY DEF Fee, Tax
  <1>4. SellProceeds(p, q) = A - Fee(A) - Tax(A)
    BY DEF SellProceeds
  <1>5. A >= 2 * Unit
    OBVIOUS
  <1> HIDE DEF A, f, t
  <1>6. D * f = RateDen * (Unit * f) /\ D * t = RateDen * (Unit * t)
    BY <1>2
  <1>7. Unit * f \in Nat /\ Unit * t \in Nat
    BY <1>2, Product
  <1>8. CASE f >= 1
    <2>1. A * (FeeNum + TaxNum) <= A * RateDen
      BY <1>1, Product
    <2>2. RateDen * (Unit * f + Unit * t) <= RateDen * A
      BY <1>1, <1>2, <1>6, <1>7, <2>1
    <2>3. Unit * f + Unit * t <= A
      BY <1>1, <1>7, <2>2, Product
    <2>4. QED
      BY <1>1, <1>3, <1>4, <1>7, <1>8, <2>3
  <1>9. CASE ~ (f >= 1)
    <2>1. A * (2 * TaxNum) <= A * RateDen
      BY <1>1, Product
    <2>2. RateDen * (2 * Unit) <= RateDen * A
      BY <1>1, <1>5, Product
    <2>3. RateDen * (Unit + Unit * t) <= RateDen * A
      BY <1>1, <1>2, <1>6, <1>7, <2>1, <2>2
    <2>4. Unit + Unit * t <= A
      BY <1>1, <1>7, <2>3, Product
    <2>5. Fee(A) = Unit
      BY <1>3, <1>9
    <2>6. QED
      BY <1>1, <1>3, <1>4, <1>7, <2>4, <2>5
  <1>10. QED
    BY <1>8, <1>9

-----------------------------------------------------------------------------

(* The pair of a smaller and a larger number is in the library's relation. *)
LEMMA LessThanRelation ==
  ASSUME NEW x \in Nat, NEW y \in Nat, x < y
  PROVE  <<x, y>> \in OpToRel(<, Nat)
  <1>1. <<x, y>>[1] = x /\ <<x, y>>[2] = y /\ <<x, y>> \in Nat \X Nat
    OBVIOUS
  <1>2. <<x, y>> \in { ss \in Nat \X Nat : ss[1] < ss[2] }
    BY <1>1
  <1>3. QED
    BY <1>2, Zenon DEF OpToRel

(* A non-empty set of natural numbers has a least element.                 *)
LEMMA LeastNatural ==
  ASSUME NEW T, T \subseteq Nat, T # {}
  PROVE  \E x \in T : \A y \in T : x <= y
  <1>1. IsWellFoundedOn(OpToRel(<, Nat), Nat)
    BY NatLessThanWellFounded, Zenon
  <1>2. PICK x \in T : \A y \in T : ~ (<<y, x>> \in OpToRel(<, Nat))
    BY <1>1, WFMin, Zenon
  <1>3. ASSUME NEW y \in T PROVE x <= y
    <2>1. y < x => <<y, x>> \in OpToRel(<, Nat)
      BY LessThanRelation, Zenon
    <2>2. y < x \/ x <= y
      OBVIOUS
    <2>3. QED
      BY <1>2, <2>1, <2>2, Zenon
  <1>4. QED
    BY <1>3

(* A non-empty set of natural numbers up to n has a largest one.           *)
LEMMA LargestNatural ==
  ASSUME NEW n \in Nat, NEW S \in SUBSET (0 .. n), S # {}
  PROVE  \E m \in S : \A k \in S : k <= m
  <1> DEFINE gaps == { g \in 0 .. n : n - g \in S }
  <1>1. gaps \subseteq Nat
    OBVIOUS
  <1>2. \A k \in S : n - k \in gaps
    OBVIOUS
  <1>3. gaps # {}
    BY <1>2
  <1>4. PICK g \in gaps : \A h \in gaps : g <= h
    <2> HIDE DEF gaps
    <2> QED
      BY <1>1, <1>3, LeastNatural
  <1>5. n - g \in S /\ \A k \in S : k <= n - g
    BY <1>2, <1>4
  <1>6. QED
    BY <1>5

(* The sizing function always has a value, and it is a natural number.     *)
LEMMA ResolveBuyQuantityType ==
  ASSUME NEW c \in Int, NEW p \in Nat \ {0}, NEW z,
         z.mode \in {FixedShares, CashPercent}, z.quantity \in Nat,
         z.pct \in 1 .. 100
  PROVE  ResolveBuyQuantity(c, p, z) \in Nat
  <1> DEFINE n == Ceiling(c, p, z.pct)
  <1> DEFINE fits == { q \in 1 .. n : Affordable(c, p, z.pct, q) }
  <1>1. CASE z.mode = FixedShares
    BY <1>1 DEF ResolveBuyQuantity
  <1>2. CASE z.mode # FixedShares /\ fits = {}
    BY <1>2 DEF ResolveBuyQuantity
  <1>3. CASE z.mode # FixedShares /\ fits # {}
    <2>1. n \in Int
      <3>1. c * z.pct \in Int /\ 100 * p \in Nat \ {0}
        OBVIOUS
      <3>2. QED
        BY <3>1 DEF Ceiling
    <2>2. n \in Nat
      BY <1>3, <2>1
    <2>3. fits \in SUBSET (0 .. n)
      BY <2>2
    <2>4. \E q \in fits : \A r \in fits : r <= q
      <3> HIDE DEF fits, n
      <3> QED
        BY <1>3, <2>2, <2>3, LargestNatural
    <2>5. (CHOOSE q \in fits : \A r \in fits : r <= q) \in fits
      BY <2>4
    <2>6. ResolveBuyQuantity(c, p, z)
            = CHOOSE q \in fits : \A r \in fits : r <= q
      BY <1>3 DEF ResolveBuyQuantity
    <2>7. QED
      BY <2>3, <2>5, <2>6
  <1>4. QED
    BY <1>1, <1>2, <1>3

-----------------------------------------------------------------------------
(* Sums over finite sets.  The fold of the community modules adds up in    *)
(* the order in which Pick takes the elements.  That its recursion has a   *)
(* solution is an induction on the size of the sets, each fact about the   *)
(* solution one on the sets themselves; both are written with least        *)
(* elements, which the library's well-founded orders have.                 *)

Pick(S) == CHOOSE x \in S : TRUE

(* The sum of f[x] for x in S.                                             *)
Total(f, S) == MapThenSumSet(LAMBDA x : f[x], S)

(* g is the solution of the fold's recursion.                              *)
IsTotal(g, f, S) ==
  g = [s \in SUBSET S |-> IF s = {} THEN 0 ELSE f[Pick(s)] + g[s \ {Pick(s)}]]

LEMMA PickIn == ASSUME NEW S, S # {} PROVE Pick(S) \in S
  BY DEF Pick

(* Among subsets of a finite set there is one that loses its membership in *)
(* T with any of its elements.                                             *)
LEMMA LeastSubset ==
  ASSUME NEW S, IsFiniteSet(S), NEW T, T \subseteq SUBSET S, T # {}
  PROVE  \E s \in T : \A x \in s : s \ {x} \notin T
  <1>1. \A s \in SUBSET S : IsFiniteSet(s) /\ Cardinality(s) \in Nat
    BY FS_Subset, FS_CardinalityType
  <1> DEFINE sizes == {Cardinality(s) : s \in T}
  <1>2. sizes \subseteq Nat /\ sizes # {}
    BY <1>1
  <1>3. PICK s \in T : \A t \in T : Cardinality(s) <= Cardinality(t)
    <2> HIDE DEF sizes
    <2>1. PICK n \in sizes : \A m \in sizes : n <= m
      BY <1>2, LeastNatural
    <2>2. QED
      BY <2>1 DEF sizes
  <1>4. ASSUME NEW x \in s PROVE s \ {x} \notin T
    <2>1. Cardinality(s \ {x}) = Cardinality(s) - 1
      BY <1>1, FS_RemoveElement
    <2>2. QED
      BY <1>1, <1>3, <2>1
  <1>5. QED
    BY <1>3, <1>4

Small(S, n) == {s \in SUBSET S : Cardinality(s) <= n}

IsTotalUpTo(g, f, S, n) ==
  g = [s \in Small(S, n) |-> IF s = {} THEN 0 ELSE f[Pick(s)] + g[s \ {Pick(s)}]]

LEMMA TotalUpToNext ==
  ASSUME NEW S, IsFiniteSet(S), NEW f, NEW n \in Nat, NEW g, IsTotalUpTo(g, f, S, n)
  PROVE  \E h : IsTotalUpTo(h, f, S, n + 1)
  <1> DEFINE h == [s \in Small(S, n + 1) |-> IF s = {} THEN 0 ELSE f[Pick(s)] + g[s \ {Pick(s)}]]
  <1>1. \A s \in SUBSET S : IsFiniteSet(s) /\ Cardinality(s) \in Nat
    BY FS_Subset, FS_CardinalityType
  <1>2. ASSUME NEW s \in Small(S, n + 1), s # {}
        PROVE  s \ {Pick(s)} \in Small(S, n) /\ s \ {Pick(s)} \in Small(S, n + 1)
    <2>1. Pick(s) \in s
      BY <1>2, PickIn
    <2>2. Cardinality(s \ {Pick(s)}) = Cardinality(s) - 1
      BY <1>1, <2>1, FS_RemoveElement DEF Small
    <2>3. QED
      BY <1>1, <2>2 DEF Small
  <1>3. \A s \in Small(S, n) : h[s] = g[s]
    <2>1. \A s \in Small(S, n) : s \in Small(S, n + 1)
      BY <1>1 DEF Small
    <2>2. \A s \in Small(S, n) : g[s] = IF s = {} THEN 0 ELSE f[Pick(s)] + g[s \ {Pick(s)}]
      BY DEF IsTotalUpTo
    <2>3. QED
      BY <2>1, <2>2
  <1>4. \A s \in Small(S, n + 1) : h[s] = IF s = {} THEN 0 ELSE f[Pick(s)] + h[s \ {Pick(s)}]
    <2> TAKE s \in Small(S, n + 1)
    <2>1. CASE s = {}
      BY <2>1
    <2>2. CASE s # {}
      <3>1. h[s] = f[Pick(s)] + g[s \ {Pick(s)}]
        BY <2>2
      <3>2. h[s \ {Pick(s)}] = g[s \ {Pick(s)}]
        BY <2>2, <1>2, <1>3
      <3> HIDE DEF h
      <3>3. QED
        BY <2>2, <3>1, <3>2
    <2>3. QED
      BY <2>1, <2>2
  <1>5. h = [s \in Small(S, n + 1) |-> h[s]]
    OBVIOUS
  <1> HIDE DEF h
  <1>6. h = [s \in Small(S, n + 1) |-> IF s = {} THEN 0 ELSE f[Pick(s)] + h[s \ {Pick(s)}]]
    BY <1>4, <1>5
  <1>7. QED
    BY <1>6 DEF IsTotalUpTo

LEMMA TotalUpTo ==
  ASSUME NEW S, IsFiniteSet(S), NEW f, NEW n \in Nat
  PROVE  \E g : IsTotalUpTo(g, f, S, n)
  <1> DEFINE bad == {m \in Nat : ~ \E g : IsTotalUpTo(g, f, S, m)}
  <1>1. SUFFICES ASSUME bad # {} PROVE FALSE
    OBVIOUS
  <1>2. PICK m \in bad : \A k \in bad : m <= k
    <2> HIDE DEF bad
    <2>1. bad \subseteq Nat
      BY DEF bad
    <2>2. QED
      BY <1>1, <2>1, LeastNatural
  <1>3. CASE m = 0
    <2>1. Small(S, 0) = {{}}
      <3>1. \A s \in SUBSET S : IsFiniteSet(s) /\ Cardinality(s) \in Nat /\ (Cardinality(s) = 0 <=> s = {})
        BY FS_Subset, FS_CardinalityType, FS_EmptySet
      <3>2. QED
        BY <3>1 DEF Small
    <2>2. IsTotalUpTo([s \in Small(S, 0) |-> 0], f, S, 0)
      <3>1. \A s \in Small(S, 0) : s = {}
        BY <2>1
      <3>2. QED
        BY <3>1 DEF IsTotalUpTo
    <2>3. QED
      BY <1>3, <2>2
  <1>4. CASE m # 0
    <2>1. m - 1 \in Nat /\ m - 1 \notin bad
      BY <1>2, <1>4
    <2>2. PICK g : IsTotalUpTo(g, f, S, m - 1)
      BY <2>1
    <2>3. \E h : IsTotalUpTo(h, f, S, (m - 1) + 1)
      BY <2>1, <2>2, TotalUpToNext
    <2>4. (m - 1) + 1 = m
      BY <1>2
    <2>5. QED
      BY <2>3, <2>4
  <1>5. QED
    BY <1>3, <1>4

LEMMA TotalExists ==
  ASSUME NEW S, IsFiniteSet(S), NEW f
  PROVE  \E g : IsTotal(g, f, S)
  <1>1. Cardinality(S) \in Nat /\ \A s \in SUBSET S : Cardinality(s) <= Cardinality(S)
    BY FS_CardinalityType, FS_Subset
  <1>2. Small(S, Cardinality(S)) = SUBSET S
    BY <1>1 DEF Small
  <1>3. PICK g : IsTotalUpTo(g, f, S, Cardinality(S))
    BY <1>1, TotalUpTo
  <1>4. IsTotal(g, f, S)
    BY <1>2, <1>3 DEF IsTotal, IsTotalUpTo
  <1>5. QED
    BY <1>4

LEMMA TotalRec ==
  ASSUME NEW S, NEW f, NEW g, IsTotal(g, f, S), NEW s \in SUBSET S
  PROVE  /\ s = {} => g[s] = 0
         /\ s # {} => /\ Pick(s) \in s
                      /\ g[s] = f[Pick(s)] + g[s \ {Pick(s)}]
  BY PickIn DEF IsTotal

LEMMA TotalInt ==
  ASSUME NEW S, IsFiniteSet(S), NEW f, NEW g, IsTotal(g, f, S),
         NEW u \in SUBSET S, \A x \in u : f[x] \in Int
  PROVE  g[u] \in Int
  <1> DEFINE bad == {s \in SUBSET u : g[s] \notin Int}
  <1>1. SUFFICES ASSUME bad # {} PROVE FALSE
    OBVIOUS
  <1>2. PICK s \in bad : \A x \in s : s \ {x} \notin bad
    <2>1. bad \subseteq SUBSET u
      OBVIOUS
    <2>2. IsFiniteSet(u)
      BY FS_Subset
    <2> HIDE DEF bad
    <2>3. QED
      BY <1>1, <2>1, <2>2, LeastSubset
  <1>3. CASE s = {}
    <2>1. g[s] = 0
      BY <1>3, TotalRec
    <2>2. QED
      BY <2>1, <1>2
  <1>4. CASE s # {}
    <2>1. Pick(s) \in s /\ g[s] = f[Pick(s)] + g[s \ {Pick(s)}]
      BY <1>4, TotalRec
    <2>2. g[s \ {Pick(s)}] \in Int
      BY <1>2, <2>1
    <2>3. f[Pick(s)] \in Int
      BY <2>1
    <2>4. g[s] \in Int
      BY <2>1, <2>2, <2>3
    <2>5. QED
      BY <2>4, <1>2
  <1>5. QED
    BY <1>3, <1>4

(* The order does not matter.                                              *)
LEMMA TotalAny ==
  ASSUME NEW S, IsFiniteSet(S), NEW f, NEW g, IsTotal(g, f, S),
         NEW u \in SUBSET S, \A x \in u : f[x] \in Int, NEW z \in u
  PROVE  g[u] = f[z] + g[u \ {z}]
  <1> DEFINE bad == {s \in SUBSET u : \E x \in s : g[s] # f[x] + g[s \ {x}]}
  <1>1. SUFFICES ASSUME bad # {} PROVE FALSE
    OBVIOUS
  <1>2. PICK s \in bad : \A x \in s : s \ {x} \notin bad
    <2>1. bad \subseteq SUBSET u
      OBVIOUS
    <2>2. IsFiniteSet(u)
      BY FS_Subset
    <2> HIDE DEF bad
    <2>3. QED
      BY <1>1, <2>1, <2>2, LeastSubset
  <1>3. PICK x \in s : g[s] # f[x] + g[s \ {x}]
    OBVIOUS
  <1> DEFINE y == Pick(s)
  <1>4. y \in s /\ g[s] = f[y] + g[s \ {y}]
    BY <1>3, TotalRec
  <1> HIDE DEF y
  <1>5. x # y
    BY <1>3, <1>4
  <1>6. s \ {y} \notin bad /\ s \ {x} \notin bad
    BY <1>2, <1>3, <1>4
  <1>7. g[s \ {y}] = f[x] + g[(s \ {y}) \ {x}]
    BY <1>3, <1>5, <1>6
  <1>8. g[s \ {x}] = f[y] + g[(s \ {x}) \ {y}]
    BY <1>4, <1>5, <1>6
  <1>9. (s \ {y}) \ {x} = (s \ {x}) \ {y}
    OBVIOUS
  <1>10. f[x] \in Int /\ f[y] \in Int
    BY <1>3, <1>4
  <1> DEFINE rest == g[(s \ {x}) \ {y}]
  <1>11. rest \in Int
    BY <1>2, TotalInt
  <1>12. g[s] = f[y] + (f[x] + rest) /\ f[x] + g[s \ {x}] = f[x] + (f[y] + rest)
    BY <1>4, <1>7, <1>8, <1>9
  <1> HIDE DEF rest
  <1>13. QED
    BY <1>3, <1>10, <1>11, <1>12

LEMMA TotalSame ==
  ASSUME NEW S, IsFiniteSet(S), NEW R, NEW f, NEW e, NEW g, NEW h,
         IsTotal(g, f, S), IsTotal(h, e, R),
         NEW u, u \subseteq S, u \subseteq R, \A x \in u : f[x] = e[x]
  PROVE  g[u] = h[u]
  <1> DEFINE bad == {s \in SUBSET u : g[s] # h[s]}
  <1>1. SUFFICES ASSUME bad # {} PROVE FALSE
    OBVIOUS
  <1>2. PICK s \in bad : \A x \in s : s \ {x} \notin bad
    <2>1. bad \subseteq SUBSET u
      OBVIOUS
    <2>2. IsFiniteSet(u)
      BY FS_Subset
    <2> HIDE DEF bad
    <2>3. QED
      BY <1>1, <2>1, <2>2, LeastSubset
  <1>3. s \in SUBSET S /\ s \in SUBSET R
    BY <1>2
  <1>4. CASE s = {}
    <2>1. g[s] = 0 /\ h[s] = 0
      BY <1>3, <1>4, TotalRec
    <2>2. QED
      BY <2>1, <1>2
  <1>5. CASE s # {}
    <2>1. Pick(s) \in s /\ g[s] = f[Pick(s)] + g[s \ {Pick(s)}] /\ h[s] = e[Pick(s)] + h[s \ {Pick(s)}]
      BY <1>3, <1>5, TotalRec
    <2>2. g[s \ {Pick(s)}] = h[s \ {Pick(s)}]
      BY <1>2, <2>1
    <2>3. f[Pick(s)] = e[Pick(s)]
      BY <1>2, <2>1
    <2>4. QED
      BY <1>2, <2>1, <2>2, <2>3
  <1>6. QED
    BY <1>4, <1>5

LEMMA TotalIs ==
  ASSUME NEW S, IsFiniteSet(S), NEW f
  PROVE  \E g : IsTotal(g, f, S) /\ Total(f, S) = g[S]
  <1>1. \E g : IsTotal(g, f, S)
    BY TotalExists
  <1>2. QED
    BY <1>1 DEF IsTotal, Total, MapThenSumSet, MapThenFoldSet, Pick

(* What is used of sums.                                                   *)
LEMMA TotalOf ==
  ASSUME NEW S, IsFiniteSet(S), NEW f, NEW g, IsTotal(g, f, S)
  PROVE  g[S] = Total(f, S)
  <1>1. PICK h : IsTotal(h, f, S) /\ Total(f, S) = h[S]
    BY TotalIs
  <1>2. QED
    BY <1>1, TotalSame

LEMMA SumEmpty == ASSUME NEW f PROVE Total(f, {}) = 0
  <1>1. IsFiniteSet({})
    BY FS_EmptySet
  <1>2. PICK g : IsTotal(g, f, {}) /\ Total(f, {}) = g[{}]
    BY <1>1, TotalIs
  <1>3. QED
    BY <1>2, TotalRec

LEMMA SumType ==
  ASSUME NEW S, IsFiniteSet(S), NEW f, \A x \in S : f[x] \in Int
  PROVE  Total(f, S) \in Int
  <1>1. PICK g : IsTotal(g, f, S) /\ Total(f, S) = g[S]
    BY TotalIs
  <1>2. QED
    BY <1>1, TotalInt

LEMMA SumSame ==
  ASSUME NEW S, IsFiniteSet(S), NEW f, NEW e, \A x \in S : f[x] = e[x]
  PROVE  Total(f, S) = Total(e, S)
  <1>1. PICK g : IsTotal(g, f, S) /\ Total(f, S) = g[S]
    BY TotalIs
  <1>2. PICK h : IsTotal(h, e, S) /\ Total(e, S) = h[S]
    BY TotalIs
  <1>3. QED
    BY <1>1, <1>2, TotalSame

LEMMA SumWithout ==
  ASSUME NEW S, IsFiniteSet(S), NEW f, \A x \in S : f[x] \in Int, NEW x \in S
  PROVE  Total(f, S) = f[x] + Total(f, S \ {x})
  <1>1. PICK g : IsTotal(g, f, S) /\ Total(f, S) = g[S]
    BY TotalIs
  <1>2. IsFiniteSet(S \ {x})
    BY FS_Subset
  <1>3. PICK h : IsTotal(h, f, S \ {x}) /\ Total(f, S \ {x}) = h[S \ {x}]
    BY <1>2, TotalIs
  <1>4. g[S \ {x}] = h[S \ {x}]
    BY <1>1, <1>3, TotalSame
  <1>5. g[S] = f[x] + g[S \ {x}]
    BY <1>1, TotalAny
  <1>6. QED
    BY <1>1, <1>3, <1>4, <1>5

LEMMA SumZero ==
  ASSUME NEW S, IsFiniteSet(S), NEW f, \A x \in S : f[x] = 0
  PROVE  Total(f, S) = 0
  <1> DEFINE bad == {s \in SUBSET S : Total(f, s) # 0}
  <1>1. SUFFICES ASSUME bad # {} PROVE FALSE
    OBVIOUS
  <1>2. PICK s \in bad : \A x \in s : s \ {x} \notin bad
    <2>1. bad \subseteq SUBSET S
      OBVIOUS
    <2> HIDE DEF bad
    <2>2. QED
      BY <1>1, <2>1, LeastSubset
  <1>3. s # {}
    BY <1>2, SumEmpty
  <1>4. PICK x \in s : TRUE
    BY <1>3
  <1>5. IsFiniteSet(s) /\ \A y \in s : f[y] \in Int
    BY <1>2, FS_Subset
  <1>6. Total(f, s) = f[x] + Total(f, s \ {x})
    BY <1>5, SumWithout
  <1>7. Total(f, s \ {x}) = 0 /\ f[x] = 0
    BY <1>2
  <1>8. QED
    BY <1>2, <1>6, <1>7

LEMMA SumWith ==
  ASSUME NEW S, IsFiniteSet(S), NEW x, x \notin S, NEW f, \A y \in S \cup {x} : f[y] \in Int
  PROVE  Total(f, S \cup {x}) = Total(f, S) + f[x]
  <1>1. IsFiniteSet(S \cup {x}) /\ (S \cup {x}) \ {x} = S
    BY FS_AddElement
  <1>2. Total(f, S \cup {x}) = f[x] + Total(f, S)
    BY <1>1, SumWithout
  <1>3. Total(f, S) \in Int
    BY SumType
  <1>4. QED
    BY <1>2, <1>3

LEMMA SumChanged ==
  ASSUME NEW S, IsFiniteSet(S), NEW x \in S, NEW f, NEW e,
         \A y \in S : f[y] \in Int /\ e[y] \in Int,
         \A y \in S \ {x} : f[y] = e[y]
  PROVE  Total(e, S) = Total(f, S) + e[x] - f[x]
  <1>1. IsFiniteSet(S \ {x})
    BY FS_Subset
  <1>2. Total(f, S) = f[x] + Total(f, S \ {x}) /\ Total(e, S) = e[x] + Total(e, S \ {x})
    BY SumWithout
  <1>3. Total(f, S \ {x}) = Total(e, S \ {x}) /\ Total(f, S \ {x}) \in Int
    BY <1>1, SumSame, SumType
  <1>4. QED
    BY <1>2, <1>3
=============================================================================
