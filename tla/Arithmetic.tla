----------------------------- MODULE Arithmetic -----------------------------
(***************************************************************************)
(* Facts about the natural numbers that the proofs share: quotients and    *)
(* remainders, rounding up to an alignment, induction, and functions       *)
(* defined by recursion.                                                   *)
(***************************************************************************)
EXTENDS Integers, TLAPS, FiniteSetTheorems, WellFoundedInduction

-----------------------------------------------------------------------------
(* Induction.  It is stated with sets in place of predicates: a lemma      *)
(* whose parameter is an operator cannot be cited.                         *)

\* A non-empty set of natural numbers has a least element.
LEMMA LeastNumber ==
    ASSUME NEW T, T \subseteq Nat, T # {}
    PROVE  \E x \in T : \A y \in T : x <= y
  <1> DEFINE below(x) == 0..(x - 1)
             U == {below(x) : x \in T}
  <1>1. U \subseteq FiniteSubsetsOf(Nat)
    <2> SUFFICES ASSUME NEW x \in T PROVE below(x) \in FiniteSubsetsOf(Nat)
      OBVIOUS
    <2>1. IsFiniteSet(below(x))
      BY FS_Interval
    <2> QED
      BY <2>1 DEF FiniteSubsetsOf
  <1>2. U # {}
    OBVIOUS
  <1>3. PICK u \in U : \A w \in U : <<w, u>> \notin StrictSubsetOrdering(Nat)
    <2> HIDE DEF U
    <2> QED
      BY <1>1, <1>2, FS_StrictSubsetOrderingWellFounded, WFMin
  <1>4. PICK x \in T : u = below(x)
    OBVIOUS
  <1>5. ASSUME NEW y \in T, ~(x <= y) PROVE FALSE
    <2>1. below(y) \subseteq below(x) /\ y \in below(x) /\ y \notin below(y)
      BY <1>5
    <2>2. <<below(y), below(x)>> \in StrictSubsetOrdering(Nat)
      BY <2>1 DEF StrictSubsetOrdering
    <2> QED
      BY <1>3, <1>4, <2>2
  <1> QED
    BY <1>5

\* Induction: a set that holds 0 and, with a number, the next one holds all.
LEMMA Induction ==
    ASSUME NEW S, 0 \in S, \A n \in Nat : n \in S => n + 1 \in S
    PROVE  Nat \subseteq S
  <1> SUFFICES ASSUME NEW k \in Nat, k \notin S PROVE FALSE
    OBVIOUS
  <1> DEFINE T == {n \in Nat : n \notin S}
  <1>1. PICK x \in T : \A y \in T : x <= y
    <2>1. T \subseteq Nat /\ T # {}
      OBVIOUS
    <2> HIDE DEF T
    <2> QED
      BY <2>1, LeastNumber
  <1>2. x \in Nat \ {0}
    OBVIOUS
  <1>3. x - 1 \in Nat /\ x - 1 \notin T
    BY <1>1, <1>2
  <1> QED
    BY <1>2, <1>3

\* f is given by c on Base, and elsewhere computed by h from its value at the
\* number that p leads to.
IsRecursive(f, V, Base, c, h, p) ==
    /\ f \in [Nat -> V]
    /\ \A n \in Nat : f[n] = IF n \in Base THEN c[n] ELSE h[<<n, f[p[n]]>>]

\* Recursion: if p leads to a smaller number from every one outside Base,
\* there is such a function.
LEMMA Recursion ==
    ASSUME NEW V, NEW Base, NEW c \in [Nat -> V], NEW h \in [Nat \X V -> V],
           NEW p, \A n \in Nat \ Base : p[n] \in 0..(n - 1)
    PROVE  \E f : IsRecursive(f, V, Base, c, h, p)
  <1> DEFINE Eq(g, k) == g[k] = IF k \in Base THEN c[k] ELSE h[<<k, g[p[k]]>>]
             Upto(n, g) == g \in [0..n -> V] /\ \A k \in 0..n : Eq(g, k)
             S == {n \in Nat : \E g : Upto(n, g)}
  <1>1. ASSUME NEW m \in Nat, NEW n \in Nat, NEW g1, NEW g2,
               Upto(m, g1), Upto(n, g2), NEW k \in Nat, k <= m, k <= n
        PROVE  g1[k] = g2[k]
    <2> DEFINE T == {j \in Nat : j <= m /\ j <= n /\ g1[j] # g2[j]}
    <2> SUFFICES ASSUME T # {} PROVE FALSE
      BY <1>1
    <2>1. T \subseteq Nat
      OBVIOUS
    <2>2. PICK j \in T : \A i \in T : j <= i
      <3> HIDE DEF T
      <3> QED
        BY <2>1, LeastNumber
    <2>3. Eq(g1, j) /\ Eq(g2, j)
      BY <1>1
    <2>4. CASE j \in Base
      BY <2>3, <2>4
    <2>5. CASE j \notin Base
      <3>1. p[j] \in Nat /\ p[j] < j
        BY <2>5
      <3>2. p[j] \notin T
        BY <2>2, <3>1
      <3>3. g1[p[j]] = g2[p[j]]
        BY <3>1, <3>2
      <3> QED
        BY <2>3, <2>5, <3>3
    <2> QED
      BY <2>4, <2>5
  <1>2. ASSUME NEW n \in Nat, n = 0 \/ n - 1 \in S PROVE n \in S
    <2>1. PICK g \in [0..(n - 1) -> V] : \A k \in 0..(n - 1) : Eq(g, k)
      <3>1. CASE n = 0
        <4> DEFINE g == [k \in 0..(n - 1) |-> c[0]]
        <4>1. g \in [0..(n - 1) -> V] /\ \A k \in 0..(n - 1) : Eq(g, k)
          BY <3>1
        <4> QED
          BY <4>1
      <3>2. CASE n # 0
        BY <1>2, <3>2
      <3> QED
        BY <3>1, <3>2
    <2> DEFINE e == IF n \in Base THEN c[n] ELSE h[<<n, g[p[n]]>>]
               g1 == [k \in 0..n |-> IF k = n THEN e ELSE g[k]]
    <2>2. e \in V
      OBVIOUS
    <2>3. g1 \in [0..n -> V]
      BY <2>2
    <2>4. ASSUME NEW k \in 0..n PROVE Eq(g1, k)
      <3>1. k \notin Base => g1[p[k]] = g[p[k]]
        <4> SUFFICES ASSUME k \notin Base PROVE g1[p[k]] = g[p[k]]
          OBVIOUS
        <4>1. p[k] \in 0..n /\ p[k] # n
          OBVIOUS
        <4> QED
          BY <4>1
      <3>2. CASE k = n
        <4>1. g1[k] = e
          BY <3>2
        <4> HIDE DEF g1
        <4> QED
          BY <3>1, <3>2, <4>1
      <3>3. CASE k # n
        <4>1. g1[k] = g[k] /\ k \in 0..(n - 1)
          BY <3>3
        <4> HIDE DEF g1
        <4> QED
          BY <2>1, <3>1, <4>1
      <3> QED
        BY <3>2, <3>3
    <2>5. Upto(n, g1)
      <3> HIDE DEF g1, Eq
      <3> QED
        BY <2>3, <2>4
    <2>6. \E gg : Upto(n, gg)
      <3> HIDE DEF g1, Upto
      <3> QED
        BY <2>5
    <2> QED
      BY <2>6
  <1>3. Nat \subseteq S
    <2>1. 0 \in S
      BY <1>2
    <2>2. ASSUME NEW n \in Nat, n \in S PROVE n + 1 \in S
      <3>1. n + 1 \in Nat /\ (n + 1) - 1 = n
        OBVIOUS
      <3> HIDE DEF S
      <3> QED
        BY <1>2, <2>2, <3>1
    <2> HIDE DEF S
    <2> QED
      BY <2>1, <2>2, Induction
  <1> DEFINE G(n) == CHOOSE g : Upto(n, g)
             f == [n \in Nat |-> G(n)[n]]
  <1>4. ASSUME NEW n \in Nat PROVE Upto(n, G(n))
    <2>1. \E g : Upto(n, g)
      BY <1>3
    <2> HIDE DEF Upto
    <2> QED
      BY <2>1
  <1>5. ASSUME NEW n \in Nat, NEW k \in 0..n PROVE f[k] = G(n)[k]
    <2>1. k \in Nat /\ k <= n
      OBVIOUS
    <2>2. G(k)[k] = G(n)[k]
      <3> HIDE DEF Upto, G
      <3> QED
        BY <1>1, <1>4, <2>1
    <2> QED
      BY <2>1, <2>2
  <1>6. ASSUME NEW n \in Nat PROVE f[n] \in V /\ Eq(f, n)
    <2> HIDE DEF G
    <2>1. Upto(n, G(n))
      BY <1>4
    <2>2. f[n] = G(n)[n]
      OBVIOUS
    <2>3. n \notin Base => f[p[n]] = G(n)[p[n]]
      <3> HIDE DEF f
      <3> QED
        BY <1>5
    <2>4. G(n)[n] \in V /\ Eq(G(n), n)
      BY <2>1
    <2> HIDE DEF f
    <2> QED
      BY <2>2, <2>3, <2>4
  <1>7. f \in [Nat -> V]
    <2> HIDE DEF G, Eq
    <2> QED
      BY <1>6
  <1> HIDE DEF f
  <1>8. IsRecursive(f, V, Base, c, h, p)
    BY <1>6, <1>7 DEF IsRecursive
  <1> QED
    BY <1>8

\* f is c at 0 and computed by h from its value at the number before.
CountsUp(f, V, c, h) ==
    /\ f \in [Nat -> V]
    /\ f[0] = c /\ \A n \in Nat \ {0} : f[n] = h[<<n, f[n - 1]>>]

\* There always is such a function.
LEMMA RecursionFromZero ==
    ASSUME NEW V, NEW c \in V, NEW h \in [Nat \X V -> V]
    PROVE  \E f : CountsUp(f, V, c, h)
  <1> DEFINE Base == {0}
             c0 == [n \in Nat |-> c]
             p == [n \in Nat |-> n - 1]
  <1>1. c0 \in [Nat -> V] /\ \A n \in Nat \ Base : p[n] \in 0..(n - 1)
    OBVIOUS
  <1>2. PICK f : IsRecursive(f, V, Base, c0, h, p)
    <2> HIDE DEF Base, c0, p
    <2> QED
      BY <1>1, Recursion
  <1>3. CountsUp(f, V, c, h)
    BY <1>2 DEF IsRecursive, CountsUp
  <1> QED
    BY <1>3

\* f doubles at every number, from 1 at 0.
Doubling(f) == f = [k \in Nat |-> IF k = 0 THEN 1 ELSE 2 * f[k - 1]]

LEMMA DoublingExists == \E f : Doubling(f)
  <1> DEFINE V == Nat \ {0}
             h == [x \in Nat \X V |-> 2 * x[2]]
  <1>1. h \in [Nat \X V -> V] /\ 1 \in V
    OBVIOUS
  <1>2. PICK f : CountsUp(f, V, 1, h)
    <2> HIDE DEF h, V
    <2> QED
      BY <1>1, RecursionFromZero
  <1>3. /\ f \in [Nat -> V] /\ f[0] = 1
        /\ \A k \in Nat \ {0} : f[k] = h[<<k, f[k - 1]>>]
    <2> HIDE DEF h, V
    <2> QED
      BY <1>2 DEF CountsUp
  <1>4. ASSUME NEW k \in Nat \ {0} PROVE f[k] = 2 * f[k - 1]
    <2>1. <<k, f[k - 1]>> \in Nat \X V
      BY <1>3
    <2> QED
      BY <1>3, <2>1
  <1>5. f = [k \in Nat |-> IF k = 0 THEN 1 ELSE 2 * f[k - 1]]
    BY <1>3, <1>4
  <1> QED
    BY <1>5 DEF Doubling

LEMMA DoublingValues ==
    ASSUME NEW f, Doubling(f)
    PROVE  /\ f \in [Nat -> Nat \ {0}] /\ f[0] = 1
           /\ \A k \in Nat \ {0} : f[k] = 2 * f[k - 1]
  <1>1. f[0] = 1 /\ \A k \in Nat \ {0} : f[k] = 2 * f[k - 1]
    BY DEF Doubling
  <1> DEFINE S == {k \in Nat : f[k] \in Nat \ {0}}
  <1>2. 0 \in S
    BY <1>1
  <1>3. ASSUME NEW k \in Nat, k \in S PROVE k + 1 \in S
    <2>1. k + 1 \in Nat \ {0} /\ (k + 1) - 1 = k
      OBVIOUS
    <2>2. f[k + 1] = 2 * f[k]
      BY <1>1, <2>1
    <2> QED
      BY <1>3, <2>1, <2>2
  <1>4. Nat \subseteq S
    <2> HIDE DEF S
    <2> QED
      BY <1>2, <1>3, Induction
  <1>5. DOMAIN f = Nat /\ f = [k \in Nat |-> f[k]]
    BY DEF Doubling
  <1> QED
    BY <1>1, <1>4, <1>5

-----------------------------------------------------------------------------
(* Quotients and remainders. *)

\* Quotient and remainder of an integer.
LEMMA Division ==
    ASSUME NEW m \in Nat \ {0}, NEW x \in Int
    PROVE  /\ x \div m \in Int
           /\ x % m \in 0..(m - 1)
           /\ x = m * (x \div m) + (x % m)
  OBVIOUS

\* The same of a natural number, whose quotient is one too.
LEMMA DivisionNat ==
    ASSUME NEW m \in Nat \ {0}, NEW x \in Nat
    PROVE  /\ x \div m \in Nat
           /\ x % m \in 0..(m - 1)
           /\ x = m * (x \div m) + (x % m)
  OBVIOUS

\* Multiplication by a natural number is monotonic, with a gap.
LEMMA MultipleBelow ==
    ASSUME NEW m \in Nat, NEW j \in Int, NEW k \in Int, k < j
    PROVE  m * k + m <= m * j
  OBVIOUS

\* There is one quotient and one remainder only.
LEMMA DivisionUnique ==
    ASSUME NEW m \in Nat \ {0}, NEW q \in Int, NEW r \in 0..(m - 1)
    PROVE  (m * q + r) \div m = q /\ (m * q + r) % m = r
  <1> DEFINE x == m * q + r
             d == x \div m
             e == x % m
  <1>1. x \in Int
    OBVIOUS
  <1>2. d \in Int /\ e \in 0..(m - 1) /\ x = m * d + e
    BY <1>1, Division
  <1>3. x = m * q + r
    OBVIOUS
  <1> HIDE DEF x, d, e
  <1>4. ~(d < q)
    BY <1>2, <1>3, MultipleBelow
  <1>5. ~(q < d)
    BY <1>2, <1>3, MultipleBelow
  <1>6. d = q
    BY <1>2, <1>4, <1>5
  <1>7. e = r
    BY <1>2, <1>3, <1>6
  <1> QED
    BY <1>6, <1>7 DEF x, d, e

\* A multiple leaves no remainder.
LEMMA MultipleMod ==
    ASSUME NEW m \in Nat \ {0}, NEW k \in Int
    PROVE  (m * k) % m = 0 /\ (m * k) \div m = k
  <1>1. m * k = m * k + 0 /\ 0 \in 0..(m - 1)
    OBVIOUS
  <1> QED
    BY <1>1, DivisionUnique

\* The sum of two aligned addresses is aligned.
LEMMA AlignedSum ==
    ASSUME NEW m \in Nat \ {0}, NEW x \in Int, NEW y \in Int,
           x % m = 0, y % m = 0
    PROVE  (x + y) % m = 0
  <1> DEFINE i == x \div m
             j == y \div m
  <1>1. i \in Int /\ j \in Int /\ x = m * i + 0 /\ y = m * j + 0
    BY Division
  <1> HIDE DEF i, j
  <1> DEFINE k == i + j
  <1>2. k \in Int /\ x + y = m * k
    BY <1>1
  <1> HIDE DEF k
  <1> QED
    BY <1>2, MultipleMod

\* What is a multiple of a multiple of m is one of m.
LEMMA MultipleOfMultiple ==
    ASSUME NEW m \in Nat \ {0}, NEW n \in Nat \ {0}, n % m = 0,
           NEW x \in Int, x % n = 0
    PROVE  x % m = 0
  <1> DEFINE j == n \div m
             k == x \div n
  <1>1. j \in Int /\ n = m * j
    BY Division
  <1>2. k \in Int /\ x = n * k
    BY Division
  <1> HIDE DEF j, k
  <1>3. j * k \in Int /\ x = m * (j * k)
    BY <1>1, <1>2
  <1> QED
    BY <1>3, MultipleMod

\* Rounding up the quotient covers the number, with less than m to spare.
LEMMA CeilingDivision ==
    ASSUME NEW m \in Nat \ {0}, NEW d \in Nat
    PROVE  LET c == (d + m - 1) \div m
           IN  c \in Nat /\ d <= m * c /\ m * c < d + m
  OBVIOUS
=============================================================================
