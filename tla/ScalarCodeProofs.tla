-------------------------- MODULE ScalarCodeProofs --------------------------
(***************************************************************************)
(* What TLAPS proves of the code generated for scalar expressions, for any *)
(* widths of the types that satisfy TypesOK, the code's 8 to 64 among      *)
(* them, and any expressions: operands are canonical, and every step of    *)
(* the code is the step that the language gives the operation.             *)
(***************************************************************************)
EXTENDS ScalarCode, Arithmetic, TLAPS

-----------------------------------------------------------------------------
(* Numbers that leave the same remainder. *)

\* Adding a multiple of m does not change the remainder.
LEMMA MultipleAdded ==
    ASSUME NEW m \in Nat \ {0}, NEW x \in Int, NEW k \in Int
    PROVE  (x + m * k) % m = x % m
  <1> DEFINE q == x \div m
             r == x % m
  <1>1. q \in Int /\ r \in 0..(m - 1) /\ x = m * q + r
    BY Division
  <1> HIDE DEF q, r
  <1> DEFINE j == q + k
  <1>2. j \in Int /\ x + m * k = m * j + r
    BY <1>1
  <1> HIDE DEF j
  <1>3. (m * j + r) % m = r
    BY <1>1, <1>2, DivisionUnique
  <1> QED
    BY <1>2, <1>3 DEF r

LEMMA ModulusAdded ==
    ASSUME NEW m \in Nat \ {0}, NEW x \in Int
    PROVE  (x + m) % m = x % m /\ (x - m) % m = x % m
  <1>1. ASSUME NEW k \in Int, k = 1 PROVE (x + m) % m = x % m
    <2>1. (x + m * k) % m = x % m
      BY MultipleAdded
    <2> QED
      BY <1>1, <2>1
  <1>2. ASSUME NEW k \in Int, k = -1 PROVE (x - m) % m = x % m
    <2>1. (x + m * k) % m = x % m
      BY MultipleAdded
    <2>2. x + m * k = x - m
      BY <1>2
    <2> QED
      BY <2>1, <2>2
  <1> QED
    BY <1>1, <1>2

\* Numbers with the same remainder differ by a multiple.
LEMMA SameRemainder ==
    ASSUME NEW m \in Nat \ {0}, NEW x \in Int, NEW y \in Int, x % m = y % m
    PROVE  \E k \in Int : x = y + m * k
  <1> DEFINE i == x \div m
             j == y \div m
             r == x % m
  <1>1. i \in Int /\ j \in Int /\ r \in Int /\ x = m * i + r /\ y = m * j + r
    BY Division
  <1> HIDE DEF i, j, r
  <1> DEFINE k == i - j
  <1>2. k \in Int /\ x = y + m * k
    BY <1>1
  <1> QED
    BY <1>2

\* A number below m is its own remainder.
LEMMA SmallRemainder ==
    ASSUME NEW m \in Nat \ {0}, NEW x \in 0..(m - 1)
    PROVE  x % m = x
  OBVIOUS

\* Remainders of sums, differences and products depend on the remainders only:
\* either operand can be exchanged.
LEMMA RemainderOfResult ==
    ASSUME NEW m \in Nat \ {0}, NEW x \in Int, NEW y \in Int, NEW u \in Int, x % m = y % m
    PROVE  /\ (x + u) % m = (y + u) % m /\ (x - u) % m = (y - u) % m
           /\ (u - x) % m = (u - y) % m /\ (x * u) % m = (y * u) % m
  <1>1. PICK k \in Int : x = y + m * k
    BY SameRemainder
  <1> DEFINE a == y + u
             b == y - u
             c == u - y
             d == y * u
             i == -k
             j == k * u
  <1>2. /\ a \in Int /\ x + u = a + m * k /\ b \in Int /\ x - u = b + m * k
        /\ c \in Int /\ i \in Int /\ u - x = c + m * i
    BY <1>1
  <1>3. d \in Int /\ j \in Int /\ x * u = d + m * j
    BY <1>1
  <1> HIDE DEF a, b, c, d, i, j
  <1>4. /\ (a + m * k) % m = a % m /\ (b + m * k) % m = b % m
        /\ (c + m * i) % m = c % m /\ (d + m * j) % m = d % m
    BY <1>2, <1>3, MultipleAdded
  <1> QED
    BY <1>2, <1>3, <1>4 DEF a, b, c, d

\* Wrapping to a multiple of m first changes nothing.
LEMMA RemainderOfRemainder ==
    ASSUME NEW m \in Nat \ {0}, NEW n \in Nat \ {0}, NEW d \in Int, n = m * d, NEW x \in Int
    PROVE  (x % n) % m = x % m
  <1> DEFINE q == x \div n
             r == x % n
             k == d * q
  <1>1. q \in Int /\ r \in Int /\ x = n * q + r
    BY ONLY n \in Nat \ {0}, x \in Int, Division
  <1> HIDE DEF q, r
  <1>2. k \in Int /\ x = r + m * k
    BY <1>1
  <1> HIDE DEF k
  <1>3. (r + m * k) % m = r % m
    BY <1>1, <1>2, MultipleAdded
  <1>4. x % m = r % m
    BY <1>2, <1>3
  <1> QED
    BY <1>4 DEF r

-----------------------------------------------------------------------------
(* Powers of two. *)

\* They are what their recursive definition says.
LEMMA TwoToDef ==
    /\ TwoTo \in [Nat -> Nat \ {0}] /\ TwoTo[0] = 1
    /\ \A k \in Nat \ {0} : TwoTo[k] = 2 * TwoTo[k - 1]
  <1>1. PICK f : Doubling(f)
    BY DoublingExists
  <1>2. Doubling(TwoTo)
    BY <1>1 DEF Doubling, TwoTo
  <1> QED
    BY <1>2, DoublingValues

\* A power of two is a multiple of every smaller one.
LEMMA PowersDivide ==
    ASSUME NEW i \in Nat, NEW j \in Nat, i <= j
    PROVE  \E d \in Nat \ {0} : TwoTo[j] = TwoTo[i] * d /\ (i < j => d >= 2)
  <1> DEFINE S == {k \in Nat : \E d \in Nat \ {0} : TwoTo[i + k] = TwoTo[i] * d /\ (k > 0 => d >= 2)}
  <1>1. TwoTo[i] \in Nat
    BY TwoToDef
  <1>2. 0 \in S
    BY <1>1
  <1>3. ASSUME NEW k \in Nat, k \in S PROVE k + 1 \in S
    <2>1. PICK d \in Nat \ {0} : TwoTo[i + k] = TwoTo[i] * d
      BY <1>3
    <2>2. i + (k + 1) \in Nat \ {0} /\ (i + (k + 1)) - 1 = i + k
      OBVIOUS
    <2>3. TwoTo[i + (k + 1)] = 2 * TwoTo[i + k]
      BY <2>2, TwoToDef
    <2>4. 2 * d \in Nat \ {0} /\ 2 * d >= 2 /\ TwoTo[i + (k + 1)] = TwoTo[i] * (2 * d)
      BY <1>1, <2>1, <2>3
    <2> QED
      BY <2>4
  <1>4. Nat \subseteq S
    <2> HIDE DEF S
    <2> QED
      BY <1>2, <1>3, Induction
  <1>5. j - i \in S /\ i + (j - i) = j
    BY <1>4
  <1> QED
    BY <1>5

-----------------------------------------------------------------------------
(* The types. *)

\* No type is wider than the wasm word it lives in.
LEMMA WidthFits ==
    ASSUME NEW t \in Types
    PROVE  /\ Width[t] \in Nat \ {0} /\ Wasm(t) \in Nat \ {0} /\ Width[t] <= Wasm(t)
           /\ Width["i32"] <= Wasm(t)
           /\ Width[t] = Wasm(t) <=> t \in {"i32", "u32", "i64", "u64", "ptr"}
  <1>1. Width \in [Types -> Nat \ {0}] /\ {"u8", "bool", "i32", "i64"} \subseteq Types
    BY TypesOK
  <1>2. Width["i32"] \in Nat \ {0} /\ Width["i64"] \in Nat \ {0} /\ Width["i32"] < Width["i64"]
    BY <1>1, TypesOK
  <1>3. CASE t \in {"i32", "u32", "i64", "u64", "ptr"}
    <2>1. Width[t] = Wasm(t)
      BY <1>3, TypesOK DEF Wasm
    <2> QED
      BY <1>1, <1>2, <1>3, <2>1 DEF Wasm
  <1>4. CASE t \notin {"i32", "u32", "i64", "u64", "ptr"}
    <2>1. Width[t] < Width["i32"] /\ Wasm(t) = Width["i32"]
      BY <1>4, TypesOK DEF Wasm
    <2> QED
      BY <1>1, <1>2, <1>4, <2>1
  <1> QED
    BY <1>3, <1>4

\* The moduli of a type and of its word: both are even, and the first divides
\* the second.
LEMMA ModuliFacts ==
    ASSUME NEW t \in Types
    PROVE  /\ Modulus[t] \in Nat \ {0} /\ WordModulus[t] \in Nat \ {0}
           /\ Modulus[t] \div 2 \in Nat \ {0} /\ Modulus[t] = 2 * (Modulus[t] \div 2)
           /\ WordModulus[t] \div 2 \in Nat \ {0}
           /\ WordModulus[t] = 2 * (WordModulus[t] \div 2)
           /\ \E d \in Nat \ {0} : WordModulus[t] = Modulus[t] * d
           /\ IF t \in {"i32", "u32", "i64", "u64", "ptr"}
              THEN WordModulus[t] = Modulus[t] ELSE WordModulus[t] >= 2 * Modulus[t]
  <1>1. Modulus[t] = TwoTo[Width[t]] /\ WordModulus[t] = TwoTo[Wasm(t)]
    BY DEF Modulus, WordModulus
  <1>2. /\ Width[t] \in Nat \ {0} /\ Wasm(t) \in Nat \ {0} /\ Width[t] <= Wasm(t)
        /\ Width[t] = Wasm(t) <=> t \in {"i32", "u32", "i64", "u64", "ptr"}
    BY WidthFits
  <1>3. ASSUME NEW n \in Nat \ {0}
        PROVE  /\ TwoTo[n] \in Nat \ {0} /\ TwoTo[n] \div 2 \in Nat \ {0}
               /\ TwoTo[n] = 2 * (TwoTo[n] \div 2)
    <2>1. n - 1 \in Nat
      OBVIOUS
    <2>2. TwoTo[n - 1] \in Nat \ {0} /\ TwoTo[n] = 2 * TwoTo[n - 1]
      BY <2>1, TwoToDef
    <2> QED
      BY <2>2
  <1>4. PICK d \in Nat \ {0} : /\ TwoTo[Wasm(t)] = TwoTo[Width[t]] * d
                               /\ Width[t] < Wasm(t) => d >= 2
    BY <1>2, PowersDivide
  <1>5. Width[t] < Wasm(t) => TwoTo[Wasm(t)] >= 2 * TwoTo[Width[t]]
    <2> DEFINE a == TwoTo[Width[t]]
    <2>1. a \in Nat
      BY <1>2, <1>3
    <2> HIDE DEF a
    <2>2. d >= 2 => a * d >= 2 * a
      BY <2>1
    <2> QED
      BY <1>4, <2>2 DEF a
  <1>6. \E e \in Nat \ {0} : WordModulus[t] = Modulus[t] * e
    BY <1>1, <1>4
  <1>7. IF t \in {"i32", "u32", "i64", "u64", "ptr"}
        THEN WordModulus[t] = Modulus[t] ELSE WordModulus[t] >= 2 * Modulus[t]
    BY <1>1, <1>2, <1>5
  <1> QED
    BY <1>1, <1>2, <1>3, <1>6, <1>7

\* A narrower word's modulus divides a wider word's.
LEMMA WordsNest ==
    ASSUME NEW t \in Types, NEW u \in Types, Wasm(u) <= Wasm(t)
    PROVE  \E d \in Nat \ {0} : WordModulus[t] = WordModulus[u] * d
  BY WidthFits, PowersDivide DEF WordModulus

\* The values of a type lie among those that its word can be read as.
LEMMA ValuesFacts ==
    ASSUME NEW t \in Types
    PROVE  /\ MinVal(t) \in Int /\ MaxVal(t) \in Int
           /\ MinVal(t) = IF IsSigned(t) THEN -(Modulus[t] \div 2) ELSE 0
           /\ t # "bool" => MaxVal(t) = MinVal(t) + Modulus[t] - 1
           /\ t = "bool" => MaxVal(t) = 1 /\ ~IsSigned(t) /\ Modulus[t] >= 2
           /\ 0 \in Values(t)
  <1>1. /\ Modulus[t] \in Nat /\ Modulus[t] \div 2 \in Nat \ {0}
        /\ Modulus[t] = 2 * (Modulus[t] \div 2)
    BY ModuliFacts
  <1>2. ~IsSigned("bool")
    BY DEF IsSigned, SignedTypes
  <1>3. MaxVal(t) = IF t = "bool" THEN 1
                    ELSE IF IsSigned(t) THEN Modulus[t] \div 2 - 1 ELSE Modulus[t] - 1
    BY <1>2 DEF MaxVal
  <1>4. MinVal(t) = IF IsSigned(t) THEN -(Modulus[t] \div 2) ELSE 0
    BY DEF MinVal
  <1> QED
    BY <1>1, <1>2, <1>3, <1>4 DEF Values

\* What the instructions of t read words as.
WordValues(t) ==
    LET half == WordModulus[t] \div 2
    IN  IF IsSigned(t) THEN -half..(half - 1) ELSE 0..(WordModulus[t] - 1)

\* Every number of the word is held by one word, which reads as it.
LEMMA WordOfNumber ==
    ASSUME NEW t \in Types, NEW v \in WordValues(t)
    PROVE  Word(t, v) \in Words(t) /\ Number(t, Word(t, v)) = v
  <1> DEFINE m == WordModulus[t]
             h == m \div 2
             w == Word(t, v)
  <1>1. m \in Nat \ {0} /\ h \in Nat \ {0} /\ m = 2 * h
    BY ModuliFacts
  <1>2. v \in Int /\ v >= -h /\ v < m /\ (IsSigned(t) => v < h) /\ (~IsSigned(t) => v >= 0)
    BY <1>1 DEF WordValues
  <1>3. w = v % m /\ Number(t, w) = IF IsSigned(t) /\ 2 * w >= m THEN w - m ELSE w
    BY DEF Word, Number, Read
  <1> HIDE DEF m, h, w
  <1>4. CASE v >= 0
    <2>1. w = v
      BY <1>1, <1>2, <1>3, <1>4, SmallRemainder
    <2> QED
      BY <1>1, <1>2, <1>3, <1>4, <2>1 DEF Words, m, w
  <1>5. CASE v < 0
    <2>1. v + m \in 0..(m - 1)
      BY <1>1, <1>2, <1>5
    <2>2. (v + m) % m = v % m
      BY <1>1, <1>2, ModulusAdded
    <2>3. w = v + m
      BY <1>1, <1>3, <2>1, <2>2, SmallRemainder
    <2> QED
      BY <1>1, <1>2, <1>3, <1>5, <2>1, <2>3 DEF Words, m, w
  <1> QED
    BY <1>2, <1>4, <1>5

\* A word reads as a number of the word, and as one with its remainder.
LEMMA NumberOfWord ==
    ASSUME NEW t \in Types, NEW w \in Words(t)
    PROVE  /\ w \in Nat /\ Word(t, w) = w
           /\ Number(t, w) \in WordValues(t) /\ Number(t, w) \in Int
           /\ Number(t, w) % WordModulus[t] = w
           /\ ~IsSigned(t) => Number(t, w) = w
  <1> DEFINE m == WordModulus[t]
             h == m \div 2
             v == Number(t, w)
  <1>1. m \in Nat \ {0} /\ h \in Nat \ {0} /\ m = 2 * h
    BY ModuliFacts
  <1>2. w \in 0..(m - 1) /\ v = IF IsSigned(t) /\ 2 * w >= m THEN w - m ELSE w
    BY DEF Words, Number, Read
  <1>3. v \in WordValues(t) /\ v \in Int
    BY <1>1, <1>2 DEF WordValues
  <1> HIDE DEF m, h, v
  <1>4. w % m = w
    BY <1>1, <1>2, SmallRemainder
  <1>5. (w - m) % m = w % m
    <2>1. w \in Int
      BY <1>1, <1>2
    <2> QED
      BY <1>1, <2>1, ModulusAdded
  <1>6. v % m = w
    BY <1>2, <1>4, <1>5
  <1> QED
    BY <1>2, <1>3, <1>4, <1>6 DEF m, v, Word

-----------------------------------------------------------------------------
(* Wrapping around, and the code that does it. *)

Numeric == Types \ {"bool"}

\* Wrapping gives the one value of the type that leaves the same remainder.
LEMMA WrapFacts ==
    ASSUME NEW t \in Numeric, NEW x \in Int
    PROVE  /\ Wrap(t, x) \in Values(t) /\ Wrap(t, x) \in Int
           /\ Wrap(t, x) % Modulus[t] = x % Modulus[t]
           /\ x \in Values(t) => Wrap(t, x) = x
           /\ \A y \in Int : x % Modulus[t] = y % Modulus[t] => Wrap(t, x) = Wrap(t, y)
  <1> DEFINE m == Modulus[t]
             a == MinVal(t)
  <1>1. t \in Types /\ t # "bool"
    BY DEF Numeric
  <1>2. m \in Nat \ {0} /\ a \in Int /\ Values(t) = a..(a + m - 1)
    BY <1>1, ModuliFacts, ValuesFacts DEF Values
  <1>3. \A y : Wrap(t, y) = ((y - a) % m) + a
    BY DEF Wrap
  <1> HIDE DEF a, m
  <1>4. (x - a) % m \in 0..(m - 1)
    <2>1. x - a \in Int
      BY <1>2
    <2> QED
      BY <1>2, <2>1, Division
  <1>5. Wrap(t, x) \in Values(t) /\ Wrap(t, x) \in Int
    BY <1>2, <1>3, <1>4
  <1>6. Wrap(t, x) % m = x % m
    <2> DEFINE c == x - a
    <2>1. c \in Int /\ c + a = x
      BY <1>2
    <2> HIDE DEF c
    <2> DEFINE r == c % m
    <2>2. r \in 0..(m - 1) /\ r \in Int
      BY <1>2, <2>1, Division
    <2>3. Wrap(t, x) = r + a
      BY <1>3 DEF c
    <2>4. r % m = c % m
      <3> HIDE DEF r
      <3>1. r % m = r
        BY <1>2, <2>2, SmallRemainder
      <3> QED
        BY <3>1 DEF r
    <2> HIDE DEF r
    <2>5. (r + a) % m = (c + a) % m
      <3>1. m \in Nat \ {0} /\ r \in Int /\ c \in Int /\ a \in Int
        BY <1>2, <2>1, <2>2
      <3> QED
        BY ONLY <3>1, <2>4, RemainderOfResult
    <2> QED
      BY <2>1, <2>3, <2>5
  <1>7. x \in Values(t) => Wrap(t, x) = x
    <2>1. ASSUME x \in Values(t) PROVE (x - a) % m = x - a
      <3>1. x - a \in 0..(m - 1)
        BY <1>2, <2>1
      <3> QED
        BY <1>2, <3>1, SmallRemainder
    <2> QED
      BY <1>2, <1>3, <2>1
  <1>8. ASSUME NEW y \in Int, x % m = y % m PROVE Wrap(t, x) = Wrap(t, y)
    <2>1. (x - a) % m = (y - a) % m
      BY <1>2, <1>8, RemainderOfResult
    <2> QED
      BY <1>3, <2>1
  <1> QED
    BY <1>5, <1>6, <1>7, <1>8 DEF m

\* The values of a type are numbers of its word.
LEMMA ValuesInWord ==
    ASSUME NEW t \in Types
    PROVE  Values(t) \subseteq WordValues(t) /\ WordValues(t) \subseteq Int
  <1> DEFINE m == Modulus[t]
             n == WordModulus[t]
             h == m \div 2
             k == n \div 2
  <1>1. /\ m \in Nat \ {0} /\ n \in Nat \ {0} /\ h \in Nat \ {0} /\ k \in Nat \ {0}
        /\ m = 2 * h /\ n = 2 * k /\ (n = m \/ n >= 2 * m)
    BY ModuliFacts
  <1>2. /\ MinVal(t) = IF IsSigned(t) THEN -h ELSE 0
        /\ t # "bool" => MaxVal(t) = MinVal(t) + m - 1
        /\ t = "bool" => MaxVal(t) = 1 /\ ~IsSigned(t) /\ m >= 2
    BY ValuesFacts
  <1>3. WordValues(t) = IF IsSigned(t) THEN -k..(k - 1) ELSE 0..(n - 1)
    BY DEF WordValues
  <1> HIDE DEF m, n, h, k
  <1>4. h <= k /\ m <= n
    BY <1>1
  <1> QED
    BY <1>1, <1>2, <1>3, <1>4 DEF Values

\* The bits of a type, read by its sign.
LEMMA ReadBits ==
    ASSUME NEW t \in Types, NEW b \in 0..(Modulus[t] - 1)
    PROVE  LET r == Read(IsSigned(t), Modulus[t], b)
           IN  /\ r \in Int /\ r % Modulus[t] = b % Modulus[t]
               /\ t # "bool" => r \in Values(t)
               /\ t = "bool" => r = b
               /\ r \in WordValues(t)
  <1> DEFINE m == Modulus[t]
             h == m \div 2
             r == Read(IsSigned(t), m, b)
  <1>1. m \in Nat \ {0} /\ h \in Nat \ {0} /\ m = 2 * h
    BY ModuliFacts
  <1>2. /\ MinVal(t) = IF IsSigned(t) THEN -h ELSE 0
        /\ t # "bool" => MaxVal(t) = MinVal(t) + m - 1
        /\ t = "bool" => ~IsSigned(t)
    BY ValuesFacts
  <1>3. r = IF IsSigned(t) /\ 2 * b >= m THEN b - m ELSE b
    BY DEF Read
  <1>4. b \in 0..(m - 1) /\ WordModulus[t] \in Nat
    BY ModuliFacts
  <1> HIDE DEF m, h, r
  <1>5. b \in Int
    BY <1>1, <1>4
  <1>6. (b - m) % m = b % m
    BY <1>1, <1>5, ModulusAdded
  <1>7. r \in Int /\ r % m = b % m
    BY <1>1, <1>3, <1>5, <1>6
  <1>8. t # "bool" => r \in Values(t)
    BY <1>1, <1>2, <1>3, <1>4 DEF Values
  <1>9. t = "bool" => r = b
    BY <1>2, <1>3
  <1>10. r \in WordValues(t)
    <2>1. CASE t # "bool"
      BY <1>8, <2>1, ValuesInWord
    <2>2. CASE t = "bool"
      <3>1. WordModulus[t] >= m
        BY <1>1, ModuliFacts DEF m
      <3>2. WordValues(t) = 0..(WordModulus[t] - 1)
        BY <1>2, <2>2 DEF WordValues
      <3> QED
        BY <1>1, <1>4, <1>9, <2>2, <3>1, <3>2
    <2> QED
      BY <2>1, <2>2
  <1> QED
    BY <1>7, <1>8, <1>9, <1>10 DEF r, m

\* Extending the lower bits of a number wraps it to the type; a bool is not
\* changed.
LEMMA ExtendWraps ==
    ASSUME NEW t \in Types, NEW x \in Int
    PROVE  /\ Extend(t, x) \in Words(t)
           /\ t # "bool" => Number(t, Extend(t, x)) = Wrap(t, x)
           /\ t = "bool" /\ x \in 0..1 => Number(t, Extend(t, x)) = x
  <1> DEFINE m == Modulus[t]
             b == x % m
             r == Read(IsSigned(t), m, b)
  <1>1. m \in Nat \ {0}
    BY ModuliFacts
  <1> HIDE DEF m
  <1>2. b \in 0..(m - 1)
    BY <1>1, Division
  <1> HIDE DEF b
  <1>3. /\ r \in Int /\ r % m = b % m /\ r \in WordValues(t)
        /\ t # "bool" => r \in Values(t)
        /\ t = "bool" => r = b
    BY <1>2, ReadBits DEF m
  <1>4. Extend(t, x) = Word(t, r)
    BY DEF Extend, m, b
  <1> HIDE DEF r
  <1>5. Extend(t, x) \in Words(t) /\ Number(t, Extend(t, x)) = r
    BY <1>3, <1>4, WordOfNumber
  <1>6. b % m = x % m
    BY <1>1, <1>2, SmallRemainder DEF b
  <1>7. CASE t # "bool"
    <2>1. t \in Numeric
      BY <1>7 DEF Numeric
    <2>2. Wrap(t, r) = r /\ Wrap(t, r) = Wrap(t, x)
      BY <1>3, <1>6, <1>7, <2>1, WrapFacts DEF m
    <2> QED
      BY <1>5, <1>7, <2>2
  <1>8. CASE t = "bool"
    <2>1. m >= 2
      BY <1>8, ValuesFacts DEF m
    <2>2. x \in 0..1 => b = x
      BY <1>1, <2>1, SmallRemainder DEF b
    <2> QED
      BY <1>3, <1>5, <1>8, <2>2
  <1> QED
    BY <1>7, <1>8

\* A word of a type as wide as its word needs no extension.
LEMMA FullWordWraps ==
    ASSUME NEW t \in {"i32", "u32", "i64", "u64", "ptr"}, t \in Types, NEW x \in Int
    PROVE  Word(t, x) \in Words(t) /\ Number(t, Word(t, x)) = Wrap(t, x)
  <1> DEFINE m == Modulus[t]
             w == Word(t, x)
  <1>1. m \in Nat \ {0} /\ WordModulus[t] = m
    BY ModuliFacts
  <1>2. t \in Numeric
    BY DEF Numeric
  <1>3. w = x % m
    BY <1>1 DEF Word
  <1>4. w \in 0..(m - 1) /\ w \in Words(t)
    BY <1>1, <1>3, Division DEF Words
  <1> HIDE DEF w, m
  <1>5. /\ Number(t, w) \in WordValues(t) /\ Number(t, w) \in Int
        /\ Number(t, w) % m = w
    BY <1>1, <1>4, NumberOfWord DEF m
  <1>6. Number(t, w) \in Values(t)
    <2>1. /\ MinVal(t) = IF IsSigned(t) THEN -(m \div 2) ELSE 0
          /\ MaxVal(t) = MinVal(t) + m - 1
      BY <1>2, ValuesFacts DEF m, Numeric
    <2>2. m = 2 * (m \div 2) /\ m \div 2 \in Nat
      BY ModuliFacts DEF m
    <2> QED
      BY <1>1, <1>5, <2>1, <2>2 DEF WordValues, Values
  <1>7. Wrap(t, Number(t, w)) = Number(t, w) /\ Wrap(t, Number(t, w)) = Wrap(t, x)
    BY <1>2, <1>3, <1>5, <1>6, WrapFacts DEF m
  <1> QED
    BY <1>4, <1>7 DEF w

\* A type that is not narrow fills its word.
LEMMA NarrowTypes ==
    ASSUME NEW t \in Numeric
    PROVE  IsNarrow(t) <=> t \notin {"i32", "u32", "i64", "u64", "ptr"}
  <1>1. t \in Types /\ t # "bool"
    BY DEF Numeric
  <1>2. /\ Width[t] \in Nat /\ Wasm(t) \in Nat /\ Width[t] <= Wasm(t)
        /\ Width[t] = Wasm(t) <=> t \in {"i32", "u32", "i64", "u64", "ptr"}
    BY <1>1, WidthFits
  <1>3. IsInteger(t) <=> t # "ptr"
    BY <1>1 DEF IsInteger
  <1> QED
    BY <1>2, <1>3 DEF IsNarrow

\* A word and what it is the word of have the same remainder.
LEMMA WordRemainder ==
    ASSUME NEW t \in Types, NEW x \in Int
    PROVE  Word(t, x) \in Words(t) /\ Word(t, x) % Modulus[t] = x % Modulus[t]
  <1>1. /\ Modulus[t] \in Nat \ {0} /\ WordModulus[t] \in Nat \ {0}
        /\ \E d \in Int : WordModulus[t] = Modulus[t] * d
    BY ModuliFacts
  <1>2. (x % WordModulus[t]) % Modulus[t] = x % Modulus[t]
    <2> DEFINE m == Modulus[t]
               n == WordModulus[t]
    <2>1. PICK d \in Int : n = m * d
      BY <1>1
    <2>2. m \in Nat \ {0} /\ n \in Nat \ {0}
      BY <1>1
    <2> HIDE DEF m, n
    <2>3. (x % n) % m = x % m
      BY ONLY <2>1, <2>2, x \in Int, RemainderOfRemainder
    <2> QED
      BY <2>3 DEF m, n
  <1>3. x % WordModulus[t] \in 0..(WordModulus[t] - 1)
    BY <1>1, Division
  <1> QED
    BY <1>2, <1>3 DEF Word, Words

\* canon makes of any word the number of its type that the word wraps to.
LEMMA CanonWraps ==
    ASSUME NEW t \in Numeric, NEW x \in Int
    PROVE  /\ Canon(t, Word(t, x)) \in Words(t)
           /\ Number(t, Canon(t, Word(t, x))) = Wrap(t, x)
  <1>1. t \in Types /\ t # "bool"
    BY DEF Numeric
  <1>2. CASE IsNarrow(t)
    <2> DEFINE w == Word(t, x)
    <2>1. w \in Words(t) /\ w % Modulus[t] = x % Modulus[t] /\ w \in Int
      BY <1>1, WordRemainder, NumberOfWord
    <2>2. Canon(t, w) = Extend(t, w)
      BY <1>2 DEF Canon
    <2> HIDE DEF w
    <2>3. Extend(t, w) \in Words(t) /\ Number(t, Extend(t, w)) = Wrap(t, w)
      BY <1>1, <2>1, ExtendWraps
    <2>4. Wrap(t, w) = Wrap(t, x)
      BY <2>1, WrapFacts
    <2> QED
      BY <2>2, <2>3, <2>4 DEF w
  <1>3. CASE ~IsNarrow(t)
    BY <1>1, <1>3, NarrowTypes, FullWordWraps DEF Canon
  <1> QED
    BY <1>2, <1>3

\* Constants are pushed as the number they wrap to, from 64 bits too.
LEMMA PushConstWraps ==
    ASSUME NEW t \in Numeric, NEW x \in Int
    PROVE  /\ PushConst(t, x) \in Words(t) /\ Number(t, PushConst(t, x)) = Wrap(t, x)
           /\ PushConst(t, Uint64(x)) \in Words(t)
           /\ Number(t, PushConst(t, Uint64(x))) = Wrap(t, x)
  <1>1. t \in Types /\ t # "bool" /\ "i64" \in Types
    BY TypesOK DEF Numeric
  <1>2. ASSUME NEW y \in Int
        PROVE  PushConst(t, y) \in Words(t) /\ Number(t, PushConst(t, y)) = Wrap(t, y)
    <2>1. CASE IsNarrow(t)
      BY <1>1, <2>1, ExtendWraps DEF PushConst
    <2>2. CASE ~IsNarrow(t)
      BY <1>1, <2>2, NarrowTypes, FullWordWraps DEF PushConst
    <2> QED
      BY <2>1, <2>2
  <1>3. Modulus["i64"] \in Nat \ {0} /\ Modulus[t] \in Nat \ {0}
    BY <1>1, ModuliFacts
  <1>4. PICK d \in Nat \ {0} : Modulus["i64"] = Modulus[t] * d
    <2>1. Width[t] \in Nat /\ Width["i64"] \in Nat /\ Width[t] <= Width["i64"]
      <3>1. /\ Width[t] \in Nat /\ Wasm(t) \in Nat /\ Width[t] <= Wasm(t)
            /\ Width["i32"] \in Nat /\ Width["i64"] \in Nat /\ Width["i32"] < Width["i64"]
        BY <1>1, WidthFits, TypesOK
      <3> QED
        BY <3>1 DEF Wasm
    <2> QED
      BY <1>1, <2>1, PowersDivide DEF Modulus
  <1>5. Uint64(x) \in Int /\ Uint64(x) % Modulus[t] = x % Modulus[t]
    <2> DEFINE m == Modulus[t]
               n == Modulus["i64"]
    <2>1. m \in Nat \ {0} /\ n \in Nat \ {0} /\ d \in Int /\ n = m * d
      BY <1>3, <1>4
    <2>2. Uint64(x) = x % n
      BY DEF Uint64
    <2> HIDE DEF m, n
    <2>3. (x % n) % m = x % m
      BY ONLY <2>1, x \in Int, RemainderOfRemainder
    <2>4. x % n \in Int
      BY <2>1, Division
    <2> QED
      BY <2>2, <2>3, <2>4 DEF m
  <1>6. Wrap(t, Uint64(x)) = Wrap(t, x)
    BY <1>5, WrapFacts
  <1> QED
    BY <1>2, <1>5, <1>6

-----------------------------------------------------------------------------
(* The numbers of the abstract machine are those of the code. *)

LEMMA SameScalars ==
    /\ Meaning!TwoTo = TwoTo /\ Meaning!Modulus = Modulus
    /\ \A t : Meaning!MinVal(t) = MinVal(t) /\ Meaning!MaxVal(t) = MaxVal(t)
    /\ \A t : Meaning!Values(t) = Values(t)
    /\ \A t, x : Meaning!Wrap(t, x) = Wrap(t, x)
    /\ \A a, b : Meaning!Quotient(a, b) = Quotient(a, b)
    /\ \A a, b : Meaning!Remainder(a, b) = Remainder(a, b)
    /\ \A o, a, b : Meaning!Holds(o, a, b) = Holds(o, a, b)
    /\ Meaning!ArithmeticOps = ArithmeticOps
    /\ Meaning!Equalities = Equalities /\ Meaning!Orders = Orders
  <1>1. Meaning!TwoTo = TwoTo
    BY DEF Meaning!TwoTo, TwoTo
  <1>2. Meaning!Modulus = Modulus
    BY <1>1 DEF Meaning!Modulus, Modulus
  <1>3. \A t : Meaning!IsSigned(t) <=> IsSigned(t)
    BY DEF Meaning!IsSigned, IsSigned, Meaning!SignedTypes, SignedTypes
  <1>4. \A t : Meaning!MinVal(t) = MinVal(t)
    BY <1>2, <1>3 DEF Meaning!MinVal, MinVal
  <1>5. \A t : Meaning!MaxVal(t) = MaxVal(t)
    BY <1>2, <1>3 DEF Meaning!MaxVal, MaxVal
  <1>6. \A t : Meaning!Values(t) = Values(t)
    BY <1>4, <1>5 DEF Meaning!Values, Values
  <1>7. \A t, x : Meaning!Wrap(t, x) = Wrap(t, x)
    BY <1>2, <1>4 DEF Meaning!Wrap, Wrap
  <1>8. \A a, b : Meaning!Quotient(a, b) = Quotient(a, b)
    BY DEF Meaning!Quotient, Quotient, Meaning!Abs, Abs
  <1>9. \A a, b : Meaning!Remainder(a, b) = Remainder(a, b)
    BY <1>8 DEF Meaning!Remainder, Remainder
  <1>10. \A o, a, b : Meaning!Holds(o, a, b) = Holds(o, a, b)
    BY DEF Meaning!Holds, Holds
  <1>11. /\ Meaning!ArithmeticOps = ArithmeticOps
         /\ Meaning!Equalities = Equalities /\ Meaning!Orders = Orders
    BY DEF Meaning!ArithmeticOps, ArithmeticOps, Meaning!Equalities, Equalities,
           Meaning!Orders, Orders
  <1> QED
    BY <1>1, <1>2, <1>4, <1>5, <1>6, <1>7, <1>8, <1>9, <1>10, <1>11

-----------------------------------------------------------------------------
(* One operation at a time: what its instructions leave is canonical and is *)
(* the number that the operation means.                                     *)

\* The words that operands are held in.
IsCanonical(t, w) == w \in Words(t) /\ Number(t, w) \in Values(t)

\* A word and its number leave the same remainder in a type as narrow.
LEMMA NumberRemainder ==
    ASSUME NEW t \in Types, NEW u \in Types, Wasm(u) <= Wasm(t), NEW w \in Words(t)
    PROVE  w % Modulus[u] = Number(t, w) % Modulus[u]
  <1> DEFINE m == Modulus[u]
             n == WordModulus[t]
             v == Number(t, w)
  <1>1. m \in Nat \ {0} /\ n \in Nat \ {0}
    BY ModuliFacts
  <1>2. PICK d \in Nat \ {0} : n = WordModulus[u] * d
    BY WordsNest
  <1>3. PICK e \in Nat \ {0} : WordModulus[u] = m * e
    BY ModuliFacts
  <1>4. v \in Int /\ v % n = w
    BY NumberOfWord
  <1> HIDE DEF m, n, v
  <1>5. e * d \in Int /\ n = m * (e * d)
    BY <1>1, <1>2, <1>3
  <1>6. (v % n) % m = v % m
    BY <1>1, <1>4, <1>5, RemainderOfRemainder
  <1> QED
    BY <1>4, <1>6 DEF m, v

\* What canon leaves of a word is the number that its remainder wraps to.
LEMMA CanonMeans ==
    ASSUME NEW t \in Numeric, NEW x \in Int, NEW y \in Int, x % Modulus[t] = y % Modulus[t]
    PROVE  /\ IsCanonical(t, Canon(t, Word(t, x)))
           /\ Number(t, Canon(t, Word(t, x))) = Wrap(t, y)
  <1>1. /\ Canon(t, Word(t, x)) \in Words(t)
        /\ Number(t, Canon(t, Word(t, x))) = Wrap(t, x)
    BY CanonWraps
  <1>2. Wrap(t, x) = Wrap(t, y) /\ Wrap(t, x) \in Values(t)
    BY WrapFacts
  <1> QED
    BY <1>1, <1>2 DEF IsCanonical

\* The quotient of two numbers of a signed type is one of them but for one case.
LEMMA QuotientFacts ==
    ASSUME NEW a \in Int, NEW b \in Int, b # 0
    PROVE  /\ Quotient(a, b) \in Int /\ Remainder(a, b) \in Int
           /\ \A h \in Nat \ {0} :
                 a \in -h..(h - 1) /\ b \in -h..(h - 1) =>
                     (Quotient(a, b) \notin -h..(h - 1) <=> a = -h /\ b = -1)
  <1> DEFINE n == Abs(a)
             d == Abs(b)
             q == n \div d
             r == n % d
  <1>1. /\ n \in Nat /\ d \in Nat \ {0}
        /\ n = IF a < 0 THEN -a ELSE a
        /\ d = IF b < 0 THEN -b ELSE b
    BY DEF Abs
  <1> HIDE DEF n, d
  <1>2. q \in Nat /\ r \in Nat /\ n = d * q + r
    <2>1. n \in Nat /\ d \in Nat \ {0}
      BY <1>1
    <2> QED
      BY ONLY <2>1, DivisionNat
  <1>3. Quotient(a, b) = IF (a < 0) = (b < 0) THEN q ELSE -q
    BY DEF Quotient, n, d
  <1>4. d = 1 => q = n
    <2> HIDE DEF q, r
    <2>1. ASSUME d = 1 PROVE q = n
      <3>1. r \in 0..(d - 1)
        BY <1>1, DivisionNat DEF r
      <3> QED
        BY <1>1, <1>2, <2>1, <3>1
    <2> QED
      BY <2>1
  <1> HIDE DEF q, r
  <1>5. q <= n /\ (d >= 2 => 2 * q <= n)
    <2>1. d >= 2 => d * q >= 2 * q
      BY <1>1, <1>2
    <2>2. d * q >= q
      BY <1>1, <1>2
    <2>3. d * q \in Nat
      BY <1>1, <1>2
    <2> QED
      BY <1>1, <1>2, <2>1, <2>2, <2>3
  <1>6. Quotient(a, b) \in Int
    BY <1>2, <1>3
  <1>7. Remainder(a, b) \in Int
    <2> DEFINE k == Quotient(a, b)
    <2>1. k \in Int
      BY <1>6
    <2> HIDE DEF k
    <2>2. a - b * k \in Int
      BY <2>1
    <2> QED
      BY <2>2 DEF Remainder, k
  <1>8. ASSUME NEW h \in Nat \ {0}, a \in -h..(h - 1), b \in -h..(h - 1)
        PROVE  Quotient(a, b) \notin -h..(h - 1) <=> a = -h /\ b = -1
    <2>1. n <= h /\ q <= h
      BY <1>1, <1>2, <1>5, <1>8
    <2>2. CASE d >= 2
      <3>1. q < h
        BY <1>1, <1>2, <1>5, <2>1, <2>2
      <3> QED
        BY <1>1, <1>2, <1>3, <2>2, <3>1
    <2>3. CASE d = 1
      <3>1. q = n
        BY <1>4, <2>3
      <3> QED
        BY <1>1, <1>2, <1>3, <1>8, <2>3, <3>1
    <2> QED
      BY <1>1, <2>2, <2>3
  <1> QED
    BY <1>6, <1>7, <1>8

\* A word is zero when its number is.
LEMMA ZeroWord ==
    ASSUME NEW t \in Types, NEW w \in Words(t)
    PROVE  w = 0 <=> Number(t, w) = 0
  <1> DEFINE m == WordModulus[t]
             h == m \div 2
  <1>1. m \in Nat \ {0} /\ m = 2 * h /\ h \in Nat \ {0}
    BY ModuliFacts
  <1> HIDE DEF h
  <1>2. w \in 0..(m - 1)
    BY DEF Words
  <1>3. Number(t, w) = IF IsSigned(t) /\ 2 * w >= m THEN w - m ELSE w
    BY DEF Number, Read
  <1> HIDE DEF m
  <1> QED
    BY <1>1, <1>2, <1>3

\* The instructions of wasm trap when the language says so.
LEMMA TrapsMeans ==
    ASSUME NEW t \in Integers, NEW a, IsCanonical(t, a), NEW b, IsCanonical(t, b), NEW o
    PROVE  Traps(o, t, a, b) <=> Meaning!Undefined(o, t, Number(t, a), Number(t, b))
  <1> DEFINE x == Number(t, a)
             y == Number(t, b)
             m == Modulus[t]
             n == WordModulus[t]
             h == m \div 2
             signedTop == 2 * a = n /\ b = n - 1
  <1>1. t \in Types /\ t # "bool" /\ t # "ptr"
    BY DEF Integers, IsInteger
  <1>2. a \in Words(t) /\ b \in Words(t) /\ x \in Values(t) /\ y \in Values(t)
    BY DEF IsCanonical
  <1>3. /\ m \in Nat \ {0} /\ h \in Nat \ {0} /\ m = 2 * h /\ n \in Nat \ {0}
        /\ n = 2 * (n \div 2) /\ n \div 2 \in Nat \ {0}
        /\ IF t \in {"i32", "u32", "i64", "u64", "ptr"} THEN n = m ELSE n >= 2 * m
    BY <1>1, ModuliFacts
  <1>4. b = 0 <=> y = 0
    BY <1>1, <1>2, ZeroWord
  <1>5. /\ a \in 0..(n - 1) /\ b \in 0..(n - 1) /\ x \in Int /\ y \in Int
        /\ x = IF IsSigned(t) /\ 2 * a >= n THEN a - n ELSE a
        /\ y = IF IsSigned(t) /\ 2 * b >= n THEN b - n ELSE b
    BY <1>1, <1>2, NumberOfWord DEF Words, Number, Read
  <1>6. IsSigned(t) => Values(t) = -h..(h - 1)
    <2>1. /\ MinVal(t) = IF IsSigned(t) THEN -h ELSE 0
          /\ MaxVal(t) = MinVal(t) + m - 1
      BY <1>1, ValuesFacts
    <2> QED
      BY <1>3, <2>1 DEF Values
  <1>7. Traps(o, t, a, b) <=> (o \in {"/", "%"} /\ b = 0) \/ (o = "/" /\ IsSigned(t) /\ signedTop)
    BY DEF Traps
  <1>8. Meaning!Undefined(o, t, x, y)
            <=> \/ o \in {"/", "%"} /\ y = 0
                \/ o = "/" /\ t \in {"i32", "i64"} /\ Quotient(x, y) \notin Values(t)
    BY SameScalars DEF Meaning!Undefined
  <1>9. t \in {"i32", "i64"} => IsSigned(t)
    BY DEF IsSigned, SignedTypes
  <1>10. IsSigned(t) /\ t \notin {"i32", "i64"} => t \notin {"i32", "u32", "i64", "u64", "ptr"}
    BY DEF IsSigned, SignedTypes
  <1> HIDE DEF x, y, m, n, h
  <1>11. ASSUME IsSigned(t), t \notin {"i32", "i64"} PROVE ~signedTop
    <2>1. n >= 2 * m /\ x >= -h
      BY <1>2, <1>3, <1>6, <1>10, <1>11
    <2>2. signedTop => x = -(n \div 2)
      BY <1>3, <1>5, <1>11
    <2> QED
      BY <1>3, <2>1, <2>2
  <1>12. ASSUME t \in {"i32", "i64"}, y # 0
         PROVE  signedTop <=> Quotient(x, y) \notin Values(t)
    <2>1. n = m /\ Values(t) = -h..(h - 1)
      BY <1>3, <1>6, <1>9, <1>12
    <2>2. Quotient(x, y) \notin -h..(h - 1) <=> x = -h /\ y = -1
      BY <1>2, <1>3, <1>5, <1>12, <2>1, QuotientFacts
    <2>3. signedTop <=> x = -h /\ y = -1
      BY <1>3, <1>5, <1>9, <1>12, <2>1
    <2> QED
      BY <2>1, <2>2, <2>3
  <1>13. Traps(o, t, a, b) <=> Meaning!Undefined(o, t, x, y)
    <2> HIDE DEF signedTop
    <2> QED
      BY <1>4, <1>7, <1>8, <1>9, <1>11, <1>12
  <1> QED
    BY <1>13 DEF x, y

\* Arithmetic on words, made canonical, is arithmetic on numbers, wrapped.
LEMMA ArithmeticMeans ==
    ASSUME NEW t \in Integers, NEW a, IsCanonical(t, a), NEW b, IsCanonical(t, b),
           NEW o \in ArithmeticOps, ~Traps(o, t, a, b)
    PROVE  LET w == Canon(t, Instr(o, t, a, b))
           IN  /\ IsCanonical(t, w)
               /\ Number(t, w) = Wrap(t, Meaning!Result(o, Number(t, a), Number(t, b)))
  <1> DEFINE x == Number(t, a)
             y == Number(t, b)
             m == Modulus[t]
  <1>1. t \in Types /\ t \in Numeric
    BY DEF Integers, IsInteger, Numeric
  <1>2. a \in Words(t) /\ b \in Words(t)
    BY DEF IsCanonical
  <1>3. /\ m \in Nat \ {0} /\ a \in Int /\ b \in Int /\ x \in Int /\ y \in Int
        /\ a % m = x % m /\ b % m = y % m
    <2>1. Wasm(t) <= Wasm(t)
      BY <1>1, WidthFits
    <2> QED
      BY <1>1, <1>2, <2>1, ModuliFacts, NumberOfWord, NumberRemainder
  <1> HIDE DEF x, y, m
  <1>4. ASSUME NEW r \in Int, NEW s \in Int, r % m = s % m
        PROVE  /\ IsCanonical(t, Canon(t, Word(t, r)))
               /\ Number(t, Canon(t, Word(t, r))) = Wrap(t, s)
    BY <1>1, <1>4, CanonMeans DEF m
  <1>5. CASE o = "+"
    <2>1. a + b \in Int /\ x + y \in Int /\ (a + b) % m = (x + y) % m
      <3>1. (a + b) % m = (x + b) % m
        BY <1>3, RemainderOfResult
      <3>2. x + b = b + x /\ x + y = y + x
        BY <1>3
      <3>3. (b + x) % m = (y + x) % m
        BY <1>3, RemainderOfResult
      <3> QED
        BY <1>3, <3>1, <3>2, <3>3
    <2>2. Instr(o, t, a, b) = Word(t, a + b) /\ Meaning!Result(o, x, y) = x + y
      BY <1>5 DEF Instr, Meaning!Result
    <2> QED
      BY <1>4, <2>1, <2>2 DEF x, y
  <1>6. CASE o = "-"
    <2>1. a - b \in Int /\ x - y \in Int /\ (a - b) % m = (x - y) % m
      <3>1. (a - b) % m = (x - b) % m
        BY <1>3, RemainderOfResult
      <3>2. (x - b) % m = (x - y) % m
        BY <1>3, RemainderOfResult
      <3> QED
        BY <1>3, <3>1, <3>2
    <2>2. Instr(o, t, a, b) = Word(t, a - b) /\ Meaning!Result(o, x, y) = x - y
      BY <1>6 DEF Instr, Meaning!Result
    <2> QED
      BY <1>4, <2>1, <2>2 DEF x, y
  <1>7. CASE o = "*"
    <2>1. a * b \in Int /\ x * y \in Int /\ (a * b) % m = (x * y) % m
      <3>1. (a * b) % m = (x * b) % m
        BY <1>3, RemainderOfResult
      <3>2. x * b = b * x /\ x * y = y * x
        BY <1>3
      <3>3. (b * x) % m = (y * x) % m
        BY <1>3, RemainderOfResult
      <3> QED
        BY <1>3, <3>1, <3>2, <3>3
    <2>2. Instr(o, t, a, b) = Word(t, a * b) /\ Meaning!Result(o, x, y) = x * y
      BY <1>7 DEF Instr, Meaning!Result
    <2> QED
      BY <1>4, <2>1, <2>2 DEF x, y
  <1>8. ASSUME o \in {"/", "%"} PROVE y # 0
    BY <1>1, <1>2, <1>8, ZeroWord DEF Traps, y
  <1>9. CASE o = "/"
    <2>1. Quotient(x, y) \in Int
      BY <1>3, <1>8, <1>9, QuotientFacts
    <2>2. Instr(o, t, a, b) = Word(t, Quotient(x, y)) /\ Meaning!Result(o, x, y) = Quotient(x, y)
      BY <1>9, SameScalars DEF Instr, Meaning!Result, x, y
    <2> QED
      BY <1>4, <2>1, <2>2 DEF x, y
  <1>10. CASE o = "%"
    <2>1. Remainder(x, y) \in Int
      BY <1>3, <1>8, <1>10, QuotientFacts
    <2>2. Instr(o, t, a, b) = Word(t, Remainder(x, y)) /\ Meaning!Result(o, x, y) = Remainder(x, y)
      BY <1>10, SameScalars DEF Instr, Meaning!Result, x, y
    <2> QED
      BY <1>4, <2>1, <2>2 DEF x, y
  <1> QED
    BY <1>5, <1>6, <1>7, <1>9, <1>10 DEF ArithmeticOps

\* Words of types that are not signed are their numbers.
LEMMA PlainWords ==
    /\ \A w \in 0..1 : IsCanonical("bool", w) /\ Number("bool", w) = w
    /\ \A w : IsCanonical("bool", w) => w \in 0..1
    /\ \A t \in Types : ~IsSigned(t) =>
          \A v \in Values(t) : IsCanonical(t, v) /\ Number(t, v) = v
    /\ "ptr" \in Types => \A w \in Words("ptr") : IsCanonical("ptr", w) /\ Number("ptr", w) = w
  <1>1. ASSUME NEW t \in Types, ~IsSigned(t), NEW v \in Values(t)
        PROVE  IsCanonical(t, v) /\ Number(t, v) = v
    <2>1. v \in WordValues(t)
      BY <1>1, ValuesInWord
    <2>2. v \in Words(t)
      BY <1>1, <2>1 DEF WordValues, Words
    <2>3. Number(t, v) = v
      BY <1>1, <2>2, NumberOfWord
    <2> QED
      BY <1>1, <2>2, <2>3 DEF IsCanonical
  <1>2. "bool" \in Types /\ ~IsSigned("bool") /\ ~IsSigned("ptr")
    BY TypesOK DEF IsSigned, SignedTypes
  <1>3. Values("bool") = 0..1
    BY <1>2, ValuesFacts DEF Values
  <1>4. ASSUME NEW w, IsCanonical("bool", w) PROVE w \in 0..1
    BY <1>2, <1>3, <1>4, NumberOfWord DEF IsCanonical
  <1>5. ASSUME "ptr" \in Types, NEW w \in Words("ptr") PROVE w \in Values("ptr")
    <2>1. /\ Modulus["ptr"] \in Nat \ {0} /\ WordModulus["ptr"] = Modulus["ptr"]
          /\ MinVal("ptr") = 0 /\ MaxVal("ptr") = MinVal("ptr") + Modulus["ptr"] - 1
      BY <1>2, <1>5, ModuliFacts, ValuesFacts
    <2> QED
      BY <1>5, <2>1 DEF Words, Values
  <1> QED
    BY <1>1, <1>2, <1>3, <1>4, <1>5

\* Constants: what the checker lets through is pushed as the number it says,
\* and it lets through all the numbers that the type has.
LEMMA LiteralMeans ==
    ASSUME NEW t \in Integers, NEW v \in Nat, NEW neg \in BOOLEAN
    PROVE  LET n == IF neg THEN -v ELSE v
               w == PushConst(t, IF neg THEN Uint64(-v) ELSE v)
           IN  /\ CheckFit(v, neg, t) <=> n \in Values(t)
               /\ CheckFit(v, neg, t) => IsCanonical(t, w) /\ Number(t, w) = n
  <1> DEFINE n == IF neg THEN -v ELSE v
             w == PushConst(t, IF neg THEN Uint64(-v) ELSE v)
  <1>1. t \in Types /\ t \in Numeric /\ n \in Int
    BY DEF Integers, IsInteger, Numeric
  <1>2. MinVal(t) \in Int /\ MaxVal(t) \in Int /\ 0 \in Values(t)
    BY <1>1, ValuesFacts
  <1>3. CheckFit(v, neg, t) <=> n \in Values(t)
    BY <1>2 DEF CheckFit, Values
  <1>4. w \in Words(t) /\ Number(t, w) = Wrap(t, n)
    <2>1. CASE neg
      <3>1. -v \in Int
        OBVIOUS
      <3> QED
        BY <1>1, <2>1, <3>1, PushConstWraps
    <2>2. CASE ~neg
      BY <1>1, <2>2, PushConstWraps
    <2> QED
      BY <2>1, <2>2
  <1>5. n \in Values(t) => Wrap(t, n) = n
    BY <1>1, WrapFacts
  <1> HIDE DEF n, w
  <1>6. /\ CheckFit(v, neg, t) <=> n \in Values(t)
        /\ CheckFit(v, neg, t) => IsCanonical(t, w) /\ Number(t, w) = n
    BY <1>3, <1>4, <1>5 DEF IsCanonical
  <1> QED
    BY <1>6 DEF n, w

LEMMA FoldedNegationMeans ==
    ASSUME NEW t \in Integers, NEW v \in Nat
    PROVE  LET w == PushConst(t, Uint64(-v))
           IN  IsCanonical(t, w) /\ Number(t, w) = Wrap(t, -v)
  <1>1. t \in Numeric /\ -v \in Int
    BY DEF Integers, IsInteger, Numeric
  <1> QED
    BY <1>1, PushConstWraps, WrapFacts DEF IsCanonical

\* A host's number is the word that it is passed as.
LEMMA ImportMeans ==
    ASSUME NEW t \in Types, NEW v \in Values(t)
    PROVE  IsCanonical(t, Word(t, v)) /\ Number(t, Word(t, v)) = v
  BY ValuesInWord, WordOfNumber DEF IsCanonical

\* Memory: a canonical word comes back as it was stored, and whatever else is
\* stored is read as a number of the type.
LEMMA MemoryMeans ==
    ASSUME NEW t \in Types
    PROVE  /\ \A w \in Words(t) : Store(t, w) \in 0..(Modulus[t] - 1)
           /\ \A w : IsCanonical(t, w) => /\ t = "bool" => Store(t, w) \in 0..1
                                          /\ Number(t, Load(t, Store(t, w))) = Number(t, w)
           /\ \A b \in 0..(Modulus[t] - 1) : (t = "bool" => b \in 0..1) => IsCanonical(t, Load(t, b))
           /\ Number(t, Load(t, 0)) = 0
  <1>1. Modulus[t] \in Nat \ {0}
    BY ModuliFacts
  <1>2. \A w \in Words(t) : w \in Int
    BY NumberOfWord
  <1>3. ASSUME NEW w \in Words(t) PROVE Store(t, w) \in 0..(Modulus[t] - 1)
    BY <1>1, <1>2, Division DEF Store
  <1>4. ASSUME t = "bool", NEW w, IsCanonical(t, w) PROVE Store(t, w) = w /\ w \in 0..1
    <2>1. w \in 0..1 /\ Modulus[t] >= 2
      BY <1>4, PlainWords, ValuesFacts
    <2> QED
      BY <1>1, <2>1, SmallRemainder DEF Store
  <1>5. ASSUME NEW b \in 0..(Modulus[t] - 1), t = "bool" => b \in 0..1
        PROVE  IsCanonical(t, Load(t, b))
    <2>1. b \in Int
      BY <1>1
    <2>2. CASE t = "bool"
      <3>1. Load(t, b) \in Words(t) /\ Number(t, Load(t, b)) = b
        BY <1>5, <2>1, <2>2, ExtendWraps DEF Load
      <3>2. b \in Values(t)
        BY <1>5, <2>2, ValuesFacts DEF Values
      <3> QED
        BY <3>1, <3>2 DEF IsCanonical
    <2>3. CASE t # "bool"
      <3>1. Load(t, b) \in Words(t) /\ Number(t, Load(t, b)) = Wrap(t, b)
        BY <2>1, <2>3, ExtendWraps DEF Load
      <3>2. Wrap(t, b) \in Values(t)
        BY <2>1, <2>3, WrapFacts DEF Numeric
      <3> QED
        BY <3>1, <3>2 DEF IsCanonical
    <2> QED
      BY <2>2, <2>3
  <1>6. ASSUME NEW w, IsCanonical(t, w) PROVE Number(t, Load(t, Store(t, w))) = Number(t, w)
    <2> DEFINE b == Store(t, w)
               v == Number(t, w)
    <2>1. w \in Words(t) /\ w \in Int /\ v \in Values(t) /\ v \in Int
      BY <1>6, NumberOfWord DEF IsCanonical
    <2>2. b \in 0..(Modulus[t] - 1) /\ b \in Int
      BY <1>1, <1>3, <2>1
    <2>3. CASE t = "bool"
      <3>1. b = w /\ w \in 0..1 /\ v = w
        BY <1>4, <1>6, <2>3, PlainWords
      <3> QED
        BY <2>2, <2>3, <3>1, ExtendWraps DEF Load
    <2>4. CASE t # "bool"
      <3>1. t \in Numeric
        BY <2>4 DEF Numeric
      <3>2. b % Modulus[t] = v % Modulus[t]
        <4>1. b % Modulus[t] = b
          BY <1>1, <2>2, SmallRemainder
        <4>2. w % Modulus[t] = v % Modulus[t]
          BY <2>1, NumberRemainder, WidthFits
        <4> QED
          BY <4>1, <4>2 DEF Store
      <3> HIDE DEF b, v
      <3>3. Number(t, Load(t, b)) = Wrap(t, b)
        BY <2>2, <2>4, ExtendWraps DEF Load
      <3>4. Wrap(t, b) = Wrap(t, v) /\ Wrap(t, v) = v
        BY <2>1, <2>2, <3>1, <3>2, WrapFacts
      <3> QED
        BY <3>3, <3>4 DEF b, v
    <2> QED
      BY <2>3, <2>4
  <1>7. Number(t, Load(t, 0)) = 0
    <2>1. CASE t = "bool"
      BY <2>1, ExtendWraps DEF Load
    <2>2. CASE t # "bool"
      BY <2>2, ExtendWraps, WrapFacts, ValuesFacts DEF Load, Numeric
    <2> QED
      BY <2>1, <2>2
  <1> QED
    BY <1>3, <1>4, <1>5, <1>6, <1>7

LEMMA NegateMeans ==
    ASSUME NEW t \in Integers, NEW w, IsCanonical(t, w)
    PROVE  LET r == Canon(t, Word(t, 0 - w))
           IN  IsCanonical(t, r) /\ Number(t, r) = Wrap(t, -Number(t, w))
  <1> DEFINE m == Modulus[t]
             v == Number(t, w)
  <1>1. t \in Types /\ t \in Numeric /\ w \in Words(t)
    BY DEF Integers, IsInteger, Numeric, IsCanonical
  <1>2. m \in Nat \ {0} /\ w \in Int /\ v \in Int /\ w % m = v % m
    BY <1>1, ModuliFacts, NumberOfWord, NumberRemainder, WidthFits
  <1> HIDE DEF m, v
  <1>3. 0 \in Int /\ 0 - w \in Int /\ -v \in Int /\ -v = 0 - v
    BY <1>2
  <1>4. (0 - w) % m = (0 - v) % m
    BY ONLY <1>2, 0 \in Int, RemainderOfResult
  <1> QED
    BY <1>1, <1>3, <1>4, CanonMeans DEF m, v

\* A widening cast extends by the sign of its operand, a narrowing one wraps.
LEMMA CastMeans ==
    ASSUME NEW from \in Types, NEW to \in Types \ {"bool"}, NEW w, IsCanonical(from, w),
           IF IsInteger(to) THEN IsInteger(from) ELSE from = to
    PROVE  LET r == CastOps(from, to, w)
           IN  IsCanonical(to, r) /\ Number(to, r) = Wrap(to, Number(from, w))
  <1> DEFINE v == Number(from, w)
  <1>1. to \in Numeric /\ to \in Types /\ w \in Words(from) /\ v \in Values(from)
    BY DEF Numeric, IsCanonical
  <1>2. v \in Int /\ w \in Int
    BY <1>1, NumberOfWord
  <1>3. CASE from = "ptr"
    <2>1. to = from /\ CastOps(from, to, w) = w
      BY <1>3 DEF IsInteger, CastOps
    <2>2. Wrap(to, v) = v
      BY <1>1, <1>2, <2>1, WrapFacts
    <2> QED
      BY <2>1, <2>2
  <1>4. CASE from # "ptr" /\ Wasm(from) < Wasm(to)
    <2>1. CastOps(from, to, w) = Word(to, v)
      BY <1>4 DEF CastOps
    <2>2. to \in {"i32", "u32", "i64", "u64", "ptr"}
      <3>1. Width["i32"] \in Nat /\ Wasm(from) \in Nat /\ Width["i32"] <= Wasm(from)
        BY WidthFits, TypesOK
      <3> QED
        BY <1>4, <3>1 DEF Wasm
    <2> HIDE DEF v
    <2>3. Word(to, v) \in Words(to) /\ Number(to, Word(to, v)) = Wrap(to, v)
      BY <1>1, <1>2, <2>2, FullWordWraps
    <2>4. Wrap(to, v) \in Values(to)
      BY <1>1, <1>2, WrapFacts
    <2> QED
      BY <2>1, <2>3, <2>4 DEF IsCanonical, v
  <1>5. CASE from # "ptr" /\ ~(Wasm(from) < Wasm(to))
    <2>1. CastOps(from, to, w) = Canon(to, Word(to, w))
      BY <1>5 DEF CastOps
    <2>2. Wasm(to) <= Wasm(from)
      BY <1>1, <1>5, WidthFits
    <2>3. w % Modulus[to] = v % Modulus[to]
      BY <1>1, <2>2, NumberRemainder
    <2> QED
      BY <1>1, <1>2, <2>1, <2>3, CanonMeans
  <1> QED
    BY <1>3, <1>4, <1>5

\* Addresses: a field is as far from its struct as its offset says, and an
\* element from the first as the index and the size say, in either direction.
LEMMA FieldMeans ==
    ASSUME "ptr" \in Types, NEW w, IsCanonical("ptr", w), NEW offset \in Nat
    PROVE  LET r == Word("ptr", w + offset)
           IN  IsCanonical("ptr", r) /\ Number("ptr", r) = Wrap("ptr", Number("ptr", w) + offset)
  <1>1. "ptr" \in Numeric /\ w \in Words("ptr") /\ Number("ptr", w) = w
    BY PlainWords DEF Numeric, IsCanonical
  <1>2. w \in Int /\ w + offset \in Int
    BY <1>1, NumberOfWord
  <1> QED
    BY <1>1, <1>2, FullWordWraps, WrapFacts DEF IsCanonical

LEMMA IndexMeans ==
    ASSUME "ptr" \in Types, NEW a, IsCanonical("ptr", a),
           NEW t \in Integers, NEW b, IsCanonical(t, b), NEW size \in Nat
    PROVE  LET r == Word("ptr", a + Word("ptr", b) * size)
           IN  /\ IsCanonical("ptr", r)
               /\ Number("ptr", r) = Wrap("ptr", Number("ptr", a) + Number(t, b) * size)
  <1> DEFINE m == Modulus["ptr"]
             v == Number(t, b)
             i == Word("ptr", b)
             x == i * size
             y == v * size
  <1>1. /\ t \in Types /\ b \in Words(t)
        /\ "ptr" \in Numeric /\ a \in Words("ptr") /\ Number("ptr", a) = a
    BY PlainWords DEF Integers, Numeric, IsCanonical
  <1>2. m \in Nat \ {0} /\ a \in Int /\ b \in Int /\ v \in Int /\ size \in Int
    BY <1>1, ModuliFacts, NumberOfWord
  <1>3. i \in Words("ptr") /\ i % m = b % m
    BY <1>2, WordRemainder
  <1>4. i \in Int
    BY <1>3, NumberOfWord
  <1>5. b % m = v % m
    <2>1. Wasm("ptr") <= Wasm(t)
      BY <1>1, WidthFits DEF Wasm
    <2> QED
      BY <1>1, <2>1, NumberRemainder
  <1> HIDE DEF m, v, i
  <1>6. x \in Int /\ y \in Int /\ x % m = y % m
    <2>1. i % m = v % m
      BY <1>3, <1>5
    <2>2. (i * size) % m = (v * size) % m
      <3>1. m \in Nat \ {0} /\ i \in Int /\ v \in Int /\ size \in Int
        BY <1>2, <1>4
      <3> QED
        BY ONLY <3>1, <2>1, RemainderOfResult
    <2> QED
      BY <1>2, <1>4, <2>2
  <1> HIDE DEF x, y
  <1>7. a + x \in Int /\ a + y \in Int /\ (a + x) % m = (a + y) % m
    <2>1. (x + a) % m = (y + a) % m
      <3>1. m \in Nat \ {0} /\ x \in Int /\ y \in Int /\ a \in Int
        BY <1>2, <1>6
      <3>2. x % m = y % m
        BY <1>6
      <3> QED
        BY ONLY <3>1, <3>2, RemainderOfResult
    <2>2. a + x = x + a /\ a + y = y + a
      BY <1>2, <1>6
    <2> QED
      BY <1>2, <1>6, <2>1, <2>2
  <1>8. Wrap("ptr", a + x) = Wrap("ptr", a + y) /\ Wrap("ptr", a + x) \in Values("ptr")
    BY <1>1, <1>7, WrapFacts DEF m
  <1>9. /\ Word("ptr", a + x) \in Words("ptr")
        /\ Number("ptr", Word("ptr", a + x)) = Wrap("ptr", a + x)
    BY <1>7, FullWordWraps
  <1> QED
    BY <1>1, <1>8, <1>9 DEF IsCanonical, i, v, x, y

-----------------------------------------------------------------------------
(* The stack of the code and the stack of the language. *)

\* What the abstract machine holds for an operand, and for a stack of them.
NumberOf(o) == Meaning!Val(o.type, Number(o.type, o.word))
Numbers(s) == [i \in DOMAIN s |-> NumberOf(s[i])]

Canonicals == {o \in [type : Types, word : Nat] : IsCanonical(o.type, o.word)}

\* An operand, and the number that stands for it.
LEMMA OperandFacts ==
    /\ \A t \in Types : \A w : IsCanonical(t, w) =>
          /\ Operand(t, w) \in Canonicals
          /\ NumberOf(Operand(t, w)) = Meaning!Val(t, Number(t, w))
    /\ \A o \in Canonicals : /\ o.type \in Types /\ IsCanonical(o.type, o.word)
                             /\ o = Operand(o.type, o.word)
    /\ \A t, v : Meaning!Val(t, v).type = t /\ Meaning!Val(t, v).value = v
  <1>1. ASSUME NEW t \in Types, NEW w, IsCanonical(t, w)
        PROVE  /\ Operand(t, w) \in Canonicals
               /\ NumberOf(Operand(t, w)) = Meaning!Val(t, Number(t, w))
    <2>1. w \in Nat
      BY <1>1, NumberOfWord DEF IsCanonical
    <2>2. Operand(t, w).type = t /\ Operand(t, w).word = w
      BY DEF Operand
    <2>3. Operand(t, w) \in [type : Types, word : Nat]
      BY <2>1 DEF Operand
    <2> QED
      BY <1>1, <2>2, <2>3 DEF Canonicals, NumberOf
  <1>2. ASSUME NEW o \in Canonicals
        PROVE  o.type \in Types /\ IsCanonical(o.type, o.word) /\ o = Operand(o.type, o.word)
    BY DEF Canonicals, Operand
  <1>3. \A t, v : Meaning!Val(t, v).type = t /\ Meaning!Val(t, v).value = v
    BY DEF Meaning!Val
  <1> QED
    BY <1>1, <1>2, <1>3

\* The stacks change in the same way.
LEMMA NumbersFacts ==
    ASSUME NEW s \in Seq(Canonicals)
    PROVE  /\ Len(Numbers(s)) = Len(s) /\ Numbers(<<>>) = <<>>
           /\ Numbers(s) = <<>> <=> s = <<>>
           /\ \A o \in Canonicals : Numbers(Append(s, o)) = Append(Numbers(s), NumberOf(o))
           /\ s # <<>> =>
                 /\ Front(s) \in Seq(Canonicals) /\ Last(s) \in Canonicals
                 /\ Len(Front(s)) = Len(s) - 1
                 /\ Append(Front(s), Last(s)) = s
                 /\ Numbers(Front(s)) = Meaning!Front(Numbers(s))
                 /\ NumberOf(Last(s)) = Meaning!Last(Numbers(s))
           /\ Len(s) > 1 =>
                 /\ s[Len(s) - 1] \in Canonicals
                 /\ NumberOf(s[Len(s) - 1]) = Numbers(s)[Len(Numbers(s)) - 1]
  <1>1. /\ Numbers(s) = [i \in 1..Len(s) |-> NumberOf(s[i])]
        /\ Len(s) \in Nat /\ \A i \in 1..Len(s) : s[i] \in Canonicals
    BY DEF Numbers
  <1> DEFINE V == {NumberOf(o) : o \in Canonicals}
  <1>2. Numbers(s) \in Seq(V) /\ Len(Numbers(s)) = Len(s)
    BY <1>1
  <1>3. Numbers(<<>>) = <<>> /\ (Numbers(s) = <<>> <=> s = <<>>)
    BY <1>1, <1>2 DEF Numbers
  <1>4. ASSUME NEW o \in Canonicals
        PROVE  Numbers(Append(s, o)) = Append(Numbers(s), NumberOf(o))
    <2> DEFINE a == Append(s, o)
               b == Append(Numbers(s), NumberOf(o))
    <2>1. a \in Seq(Canonicals) /\ Len(a) = Len(s) + 1
      OBVIOUS
    <2>2. b \in Seq(V) /\ Len(b) = Len(s) + 1
      BY <1>2
    <2>3. DOMAIN Numbers(a) = DOMAIN b
      BY <1>1, <2>1, <2>2 DEF Numbers
    <2>4. \A i \in 1..(Len(s) + 1) : Numbers(a)[i] = b[i]
      <3> SUFFICES ASSUME NEW i \in 1..(Len(s) + 1) PROVE Numbers(a)[i] = b[i]
        OBVIOUS
      <3>1. Numbers(a)[i] = NumberOf(a[i])
        BY <2>1 DEF Numbers
      <3>2. CASE i = Len(s) + 1
        BY <1>2, <3>1, <3>2
      <3>3. CASE i \in 1..Len(s)
        BY <1>1, <1>2, <3>1, <3>3
      <3> QED
        BY <1>1, <3>2, <3>3
    <2>5. DOMAIN b = 1..(Len(s) + 1) /\ b = [i \in DOMAIN b |-> b[i]]
      <3> HIDE DEF b
      <3> QED
        BY <2>2
    <2>6. Numbers(a) = [i \in DOMAIN a |-> Numbers(a)[i]] /\ DOMAIN a = 1..(Len(s) + 1)
      BY <2>1 DEF Numbers
    <2> HIDE DEF a, b
    <2>7. Numbers(a) = b
      BY <2>4, <2>5, <2>6
    <2> QED
      BY <2>7 DEF a, b
  <1>5. ASSUME s # <<>>
        PROVE  /\ Front(s) \in Seq(Canonicals) /\ Last(s) \in Canonicals
               /\ Len(Front(s)) = Len(s) - 1
               /\ Append(Front(s), Last(s)) = s
               /\ Numbers(Front(s)) = Meaning!Front(Numbers(s))
               /\ NumberOf(Last(s)) = Meaning!Last(Numbers(s))
    <2>1. Len(s) \in Nat /\ Len(s) >= 1
      BY <1>1, <1>5
    <2>2. Last(s) = s[Len(s)] /\ Meaning!Last(Numbers(s)) = Numbers(s)[Len(s)]
      BY <1>2 DEF Last, Meaning!Last
    <2>3. Last(s) \in Canonicals /\ NumberOf(Last(s)) = Meaning!Last(Numbers(s))
      BY <1>1, <2>1, <2>2
    <2>4. /\ Front(s) = [i \in 1..(Len(s) - 1) |-> s[i]]
          /\ Meaning!Front(Numbers(s)) = [i \in 1..(Len(s) - 1) |-> Numbers(s)[i]]
      BY <1>1, <1>2, <2>1 DEF Front, Meaning!Front
    <2>5. Front(s) \in Seq(Canonicals) /\ Len(Front(s)) = Len(s) - 1
      BY <1>1, <2>1, <2>4
    <2>6. Numbers(Front(s)) = Meaning!Front(Numbers(s))
      <3> DEFINE f == Front(s)
      <3>1. DOMAIN f = 1..(Len(s) - 1) /\ \A i \in 1..(Len(s) - 1) : f[i] = s[i]
        BY <2>4
      <3>2. \A i \in 1..(Len(s) - 1) : Numbers(s)[i] = NumberOf(s[i])
        BY <1>1, <2>1
      <3> HIDE DEF f
      <3>3. Numbers(f) = [i \in 1..(Len(s) - 1) |-> NumberOf(s[i])]
        BY <3>1 DEF Numbers
      <3>4. Meaning!Front(Numbers(s)) = [i \in 1..(Len(s) - 1) |-> NumberOf(s[i])]
        BY <2>4, <3>2
      <3> QED
        BY <3>3, <3>4 DEF f
    <2>7. Append(Front(s), Last(s)) = s
      <3> DEFINE a == Append(Front(s), Last(s))
      <3>1. a \in Seq(Canonicals) /\ Len(a) = Len(s)
        BY <2>1, <2>3, <2>5
      <3>2. ASSUME NEW i \in 1..Len(s) PROVE a[i] = s[i]
        <4>1. CASE i = Len(s)
          BY <2>1, <2>2, <2>3, <2>5, <4>1
        <4>2. CASE i \in 1..(Len(s) - 1)
          BY <2>1, <2>3, <2>4, <2>5, <4>2
        <4>3. i = Len(s) \/ i \in 1..(Len(s) - 1)
          BY <2>1
        <4> QED
          BY <4>1, <4>2, <4>3
      <3>3. a = [i \in 1..Len(s) |-> a[i]] /\ s = [i \in 1..Len(s) |-> s[i]]
        <4> HIDE DEF a
        <4> QED
          BY <3>1
      <3> HIDE DEF a
      <3>4. a = s
        BY <3>2, <3>3
      <3> QED
        BY <3>4 DEF a
    <2> QED
      BY <2>3, <2>5, <2>6, <2>7
  <1>6. ASSUME Len(s) > 1
        PROVE  /\ s[Len(s) - 1] \in Canonicals
               /\ NumberOf(s[Len(s) - 1]) = Numbers(s)[Len(Numbers(s)) - 1]
    <2>1. Len(s) - 1 \in 1..Len(s)
      BY <1>1, <1>6
    <2> QED
      BY <1>1, <1>2, <2>1
  <1> QED
    BY <1>2, <1>3, <1>4, <1>5, <1>6

-----------------------------------------------------------------------------
(* The invariant and the steps of the two machines. *)

\* A bool in memory is 0 or 1, whatever its byte could hold: without it the
\* stack would not stay canonical.
IInv ==
    /\ operands \in Seq(Canonicals) /\ Len(operands) <= MaxOperands
    /\ cell \in [type : VarTypes, bits : Nat] /\ cell.bits \in 0..(Modulus[cell.type] - 1)
    /\ cell.type = "bool" => cell.bits \in 0..1
    /\ trapped \in BOOLEAN /\ (trapped => operands = <<>>)

\* The state of the abstract machine.
Stack == Numbers(operands)
Variable == Meaning!Val(cell.type, Number(cell.type, Load(cell.type, cell.bits)))

\* That state, as the refinement mapping writes it.
LEMMA Mapping ==
    /\ [i \in DOMAIN operands |->
           [type |-> operands[i].type,
            value |-> Number(operands[i].type, operands[i].word)]] = Stack
    /\ [i \in DOMAIN operands' |->
           [type |-> operands'[i].type,
            value |-> Number(operands'[i].type, operands'[i].word)]] = Stack'
    /\ [type |-> cell.type, value |-> Number(cell.type, Load(cell.type, cell.bits))]
           = Variable
    /\ [type |-> cell'.type, value |-> Number(cell'.type, Load(cell'.type, cell'.bits))]
           = Variable'
    /\ Meaning!Left = Stack[Len(Stack) - 1] /\ Meaning!Right = Meaning!Last(Stack)
    /\ Meaning!Going <=> ~trapped /\ trapped' = trapped
  <1>1. /\ [i \in DOMAIN operands |->
               [type |-> operands[i].type,
                value |-> Number(operands[i].type, operands[i].word)]] = Stack
        /\ [type |-> cell.type, value |-> Number(cell.type, Load(cell.type, cell.bits))]
               = Variable
    BY DEF Stack, Numbers, NumberOf, Meaning!Val, Variable
  <1>2. /\ [i \in DOMAIN operands' |->
               [type |-> operands'[i].type,
                value |-> Number(operands'[i].type, operands'[i].word)]] = Stack'
        /\ [type |-> cell'.type, value |-> Number(cell'.type, Load(cell'.type, cell'.bits))]
               = Variable'
    BY DEF Stack, Numbers, NumberOf, Meaning!Val, Variable
  <1>3. Meaning!Left = Stack[Len(Stack) - 1] /\ Meaning!Right = Meaning!Last(Stack)
    BY <1>1 DEF Meaning!Left, Meaning!Right
  <1>4. Meaning!Going <=> ~trapped /\ trapped' = trapped
    BY DEF Meaning!Going
  <1> QED
    BY <1>1, <1>2, <1>3, <1>4

\* What the invariant says of the two operands on top.
LEMMA OperandsOnTop ==
    ASSUME IInv
    PROVE  /\ operands # <<>> =>
                 /\ Top \in Canonicals /\ Top.type \in Types /\ IsCanonical(Top.type, Top.word)
                 /\ Top = Operand(Top.type, Top.word)
                 /\ Meaning!Last(Stack) = Meaning!Val(Top.type, Number(Top.type, Top.word))
                 /\ Stack # <<>>
           /\ Len(operands) > 1 =>
                 /\ operands # <<>>
                 /\ Left \in Canonicals /\ Left.type \in Types
                 /\ IsCanonical(Left.type, Left.word)
                 /\ Meaning!Left = Meaning!Val(Left.type, Number(Left.type, Left.word))
                 /\ Meaning!Right = Meaning!Val(Top.type, Number(Top.type, Top.word))
  <1>1. operands \in Seq(Canonicals)
    BY DEF IInv
  <1>2. ASSUME operands # <<>>
        PROVE  /\ Top \in Canonicals /\ Top.type \in Types /\ IsCanonical(Top.type, Top.word)
               /\ Top = Operand(Top.type, Top.word)
               /\ Meaning!Last(Stack) = Meaning!Val(Top.type, Number(Top.type, Top.word))
               /\ Stack # <<>>
    <2>1. Top \in Canonicals /\ NumberOf(Top) = Meaning!Last(Stack) /\ Stack # <<>>
      BY <1>1, <1>2, NumbersFacts DEF Top, Stack
    <2> QED
      BY <2>1, OperandFacts DEF NumberOf
  <1>3. ASSUME Len(operands) > 1
        PROVE  /\ operands # <<>>
               /\ Left \in Canonicals /\ Left.type \in Types
               /\ IsCanonical(Left.type, Left.word)
               /\ Meaning!Left = Meaning!Val(Left.type, Number(Left.type, Left.word))
    <2>1. Left \in Canonicals /\ NumberOf(Left) = Stack[Len(Stack) - 1]
      BY <1>1, <1>3, NumbersFacts DEF Left, Stack
    <2>2. operands # <<>>
      BY <1>1, <1>3
    <2> QED
      BY <2>1, <2>2, OperandFacts, Mapping DEF NumberOf
  <1> QED
    BY <1>2, <1>3, Mapping

\* A step that leaves the variable alone.
LEMMA SameVariable ==
    ASSUME IInv, Going, UNCHANGED cell,
           operands' \in Seq(Canonicals), Len(operands') <= MaxOperands
    PROVE  IInv' /\ Meaning!Going /\ Variable' = Variable
  <1>1. trapped' = trapped /\ ~trapped /\ cell' = cell
    BY DEF Going
  <1>2. IInv'
    BY <1>1 DEF IInv
  <1>3. Variable' = Variable
    BY <1>1 DEF Variable
  <1> QED
    BY <1>1, <1>2, <1>3, Mapping

LEMMA PushStep ==
    ASSUME IInv, Going, UNCHANGED cell, Len(operands) < MaxOperands,
           NEW t \in Types, NEW w, IsCanonical(t, w),
           operands' = Append(operands, Operand(t, w))
    PROVE  /\ IInv' /\ Meaning!Going /\ Variable' = Variable
           /\ Stack' = Append(Stack, Meaning!Val(t, Number(t, w)))
  <1> DEFINE o == Operand(t, w)
  <1>1. o \in Canonicals /\ NumberOf(o) = Meaning!Val(t, Number(t, w))
    BY OperandFacts
  <1>2. /\ operands \in Seq(Canonicals) /\ operands' = Append(operands, o)
        /\ Len(operands) < MaxOperands /\ MaxOperands \in Nat
    BY ConstantsOK DEF IInv
  <1> HIDE DEF o
  <1>3. operands' \in Seq(Canonicals) /\ Len(operands') <= MaxOperands
    BY <1>1, <1>2
  <1>4. Stack' = Append(Stack, NumberOf(o))
    BY <1>1, <1>2, NumbersFacts DEF Stack
  <1> QED
    BY <1>1, <1>2, <1>3, <1>4, SameVariable

LEMMA ReplaceStep ==
    ASSUME IInv, operands # <<>>, Going, UNCHANGED cell,
           NEW t \in Types, NEW w, IsCanonical(t, w),
           operands' = Append(Front(operands), Operand(t, w))
    PROVE  /\ IInv' /\ Meaning!Going /\ Variable' = Variable
           /\ Stack' = Append(Meaning!Front(Stack), Meaning!Val(t, Number(t, w)))
  <1> DEFINE o == Operand(t, w)
             f == Front(operands)
  <1>1. o \in Canonicals /\ NumberOf(o) = Meaning!Val(t, Number(t, w))
    BY OperandFacts
  <1>2. /\ operands \in Seq(Canonicals) /\ operands' = Append(f, o)
        /\ Len(operands) <= MaxOperands /\ MaxOperands \in Nat
    BY ConstantsOK DEF IInv
  <1>3. f \in Seq(Canonicals) /\ Len(f) = Len(operands) - 1 /\ Numbers(f) = Meaning!Front(Stack)
    BY <1>2, NumbersFacts DEF Stack
  <1> HIDE DEF o, f
  <1>4. operands' \in Seq(Canonicals) /\ Len(operands') <= MaxOperands
    BY <1>1, <1>2, <1>3
  <1>5. Stack' = Append(Numbers(f), NumberOf(o))
    BY <1>1, <1>2, <1>3, NumbersFacts DEF Stack
  <1> QED
    BY <1>1, <1>2, <1>3, <1>4, <1>5, SameVariable

LEMMA PopStep ==
    ASSUME IInv, operands # <<>>, Pop
    PROVE  /\ IInv' /\ Meaning!Going /\ Variable' = Variable
           /\ Stack' = Meaning!Front(Stack)
  <1>1. /\ operands \in Seq(Canonicals) /\ operands' = Front(operands)
        /\ Len(operands) <= MaxOperands /\ Going /\ UNCHANGED cell /\ MaxOperands \in Nat
    BY ConstantsOK DEF IInv, Pop
  <1>2. /\ operands' \in Seq(Canonicals) /\ Len(operands') = Len(operands) - 1
        /\ Stack' = Meaning!Front(Stack)
    BY <1>1, NumbersFacts DEF Stack
  <1>3. Len(operands') <= MaxOperands
    BY <1>1, <1>2
  <1> QED
    BY <1>1, <1>2, <1>3, SameVariable

LEMMA ReduceStep ==
    ASSUME IInv, Len(operands) > 1, Going, UNCHANGED cell,
           NEW t \in Types, NEW w, IsCanonical(t, w),
           operands' = Append(Front(Front(operands)), Operand(t, w))
    PROVE  /\ IInv' /\ Meaning!Going /\ Variable' = Variable
           /\ Stack' = Append(Meaning!Front(Meaning!Front(Stack)), Meaning!Val(t, Number(t, w)))
  <1> DEFINE o == Operand(t, w)
             f == Front(operands)
             g == Front(f)
  <1>1. o \in Canonicals /\ NumberOf(o) = Meaning!Val(t, Number(t, w))
    BY OperandFacts
  <1>2. /\ operands \in Seq(Canonicals) /\ operands' = Append(g, o)
        /\ Len(operands) <= MaxOperands /\ MaxOperands \in Nat
    BY ConstantsOK DEF IInv
  <1>3. operands # <<>> /\ Len(operands) \in Nat
    BY <1>2
  <1>4. f \in Seq(Canonicals) /\ Len(f) = Len(operands) - 1 /\ Numbers(f) = Meaning!Front(Stack)
    BY <1>2, <1>3, NumbersFacts DEF Stack
  <1> HIDE DEF o, f
  <1>5. f # <<>>
    BY <1>3, <1>4
  <1>6. g \in Seq(Canonicals) /\ Len(g) = Len(f) - 1 /\ Numbers(g) = Meaning!Front(Numbers(f))
    BY <1>4, <1>5, NumbersFacts
  <1> HIDE DEF g
  <1>7. operands' \in Seq(Canonicals) /\ Len(operands') <= MaxOperands
    BY <1>1, <1>2, <1>3, <1>4, <1>6
  <1>8. Stack' = Append(Numbers(g), NumberOf(o))
    BY <1>1, <1>2, <1>6, NumbersFacts DEF Stack
  <1> QED
    BY <1>1, <1>2, <1>4, <1>6, <1>7, <1>8, SameVariable

\* An operation of the abstract machine on the operand on top, by its kind.
LEMMA OnTopStep ==
    ASSUME Meaning!Going, Stack # <<>>, NEW x, Meaning!Last(Stack) = x,
           NEW o, Stack' = Append(Meaning!Front(Stack), o), Variable' = Variable,
           \/ op'.kind = "neg" /\ o = Meaning!Val(x.type, Wrap(x.type, -x.value))
           \/ op'.kind = "!" /\ o = Meaning!Bool(x.value = 0)
           \/ op'.kind = "as" /\ o = Meaning!Val(op'.type, Wrap(op'.type, x.value))
           \/ op'.kind = "." /\ o = Meaning!Val("ptr", Wrap("ptr", x.value + op'.number))
    PROVE  Meaning!OnTop
  <1>1. \A t, n : Meaning!Wrap(t, n) = Wrap(t, n)
    BY SameScalars
  <1> QED
    BY <1>1, Mapping DEF Meaning!OnTop, Meaning!Is, Meaning!Replace

\* One that leaves the operand, takes it or assigns it.
LEMMA PassStep ==
    ASSUME Meaning!Going, Stack # <<>>, NEW x, Meaning!Last(Stack) = x,
           \/ /\ op'.kind \in {"&&", "||"}
              /\ Variable' = Variable
              /\ IF x.value = (IF op'.kind = "&&" THEN 1 ELSE 0)
                 THEN Stack' = Meaning!Front(Stack) ELSE Stack' = Stack
           \/ op'.kind = "drop" /\ Stack' = Meaning!Front(Stack) /\ Variable' = Variable
           \/ op'.kind = "=" /\ Stack' = Meaning!Front(Stack) /\ Variable' = x
    PROVE  Meaning!OnTop
  BY Mapping DEF Meaning!OnTop, Meaning!Is, Meaning!Pop

-----------------------------------------------------------------------------
(* One lemma per action: it keeps the invariant and is the step of the source. *)

LEMMA LiteralStep ==
    ASSUME IInv, NEW t \in Integers, NEW v \in 0..(Modulus["i64"] - 1), NEW neg \in BOOLEAN,
           Literal(t, v, neg)
    PROVE  IInv' /\ Meaning!Next
  <1> DEFINE n == IF neg THEN -v ELSE v
             w == PushConst(t, IF neg THEN Uint64(-v) ELSE v)
  <1>1. t \in Types /\ v \in Nat
    BY TypesOK, ModuliFacts DEF Integers
  <1>2. IsCanonical(t, w) /\ Number(t, w) = n /\ n \in Values(t)
    BY <1>1, LiteralMeans DEF Literal
  <1>3. /\ Going /\ UNCHANGED cell /\ Len(operands) < MaxOperands
        /\ operands' = Append(operands, Operand(t, w))
        /\ op' = NumberOp("literal", t, n)
    BY DEF Literal, Push
  <1> HIDE DEF n, w
  <1>4. /\ IInv' /\ Meaning!Going /\ Variable' = Variable
        /\ Stack' = Append(Stack, Meaning!Val(t, n))
    BY <1>1, <1>2, <1>3, PushStep
  <1>5. op'.kind = "literal" /\ op'.type = t /\ op'.number = n
    BY <1>3 DEF NumberOp
  <1>6. Meaning!Literal
    BY <1>2, <1>4, <1>5, SameScalars, Mapping DEF Meaning!Literal, Meaning!Is, Meaning!Push
  <1> QED
    BY <1>4, <1>6 DEF Meaning!Next

LEMMA RejectStep ==
    ASSUME IInv, NEW t \in Integers, NEW v \in 0..(Modulus["i64"] - 1), NEW neg \in BOOLEAN,
           Reject(t, v, neg)
    PROVE  IInv' /\ Meaning!Next
  <1> DEFINE n == IF neg THEN -v ELSE v
  <1>1. v \in Nat
    BY TypesOK, ModuliFacts
  <1>2. n \notin Values(t)
    BY <1>1, LiteralMeans DEF Reject
  <1>3. Going /\ operands' = operands /\ cell' = cell /\ op' = NumberOp("rejected", t, n)
    BY DEF Reject
  <1> HIDE DEF n
  <1>4. IInv' /\ Meaning!Going /\ Variable' = Variable /\ Stack' = Stack
    BY <1>3, SameVariable DEF IInv, Stack
  <1>5. op'.kind = "rejected" /\ op'.type = t /\ op'.number = n
    BY <1>3 DEF NumberOp
  <1>6. Meaning!Rejected
    BY <1>2, <1>4, <1>5, SameScalars, Mapping DEF Meaning!Rejected, Meaning!Is
  <1> QED
    BY <1>4, <1>6 DEF Meaning!Next

LEMMA FoldedNegationStep ==
    ASSUME IInv, NEW t \in Integers, NEW v \in 0..(Modulus["i64"] - 1), FoldedNegation(t, v)
    PROVE  IInv' /\ Meaning!Next
  <1> DEFINE w == PushConst(t, Uint64(-v))
  <1>1. t \in Types /\ v \in Nat
    BY TypesOK, ModuliFacts DEF Integers
  <1>2. IsCanonical(t, w) /\ Number(t, w) = Wrap(t, -v)
    BY <1>1, FoldedNegationMeans
  <1>3. /\ Going /\ UNCHANGED cell /\ Len(operands) < MaxOperands
        /\ operands' = Append(operands, Operand(t, w))
        /\ op' = NumberOp("-(n)", t, v)
    BY DEF FoldedNegation, Push
  <1> HIDE DEF w
  <1>4. /\ IInv' /\ Meaning!Going /\ Variable' = Variable
        /\ Stack' = Append(Stack, Meaning!Val(t, Wrap(t, -v)))
    BY <1>1, <1>2, <1>3, PushStep
  <1>5. op'.kind = "-(n)" /\ op'.type = t /\ op'.number = v
    BY <1>3 DEF NumberOp
  <1>6. Meaning!FoldedNegation
    BY <1>4, <1>5, SameScalars, Mapping DEF Meaning!FoldedNegation, Meaning!Is, Meaning!Push
  <1> QED
    BY <1>4, <1>6 DEF Meaning!Next

LEMMA PlainLiteralStep ==
    ASSUME IInv, NEW t \in {"u8", "bool"}, NEW v \in Values(t), PlainLiteral(t, v)
    PROVE  IInv' /\ Meaning!Next
  <1>1. t \in Types /\ ~IsSigned(t)
    BY TypesOK DEF IsSigned, SignedTypes
  <1>2. IsCanonical(t, v) /\ Number(t, v) = v
    BY <1>1, PlainWords
  <1>3. /\ Going /\ UNCHANGED cell /\ Len(operands) < MaxOperands
        /\ operands' = Append(operands, Operand(t, v))
        /\ op' = NumberOp("literal", t, v)
    BY DEF PlainLiteral, Push
  <1>4. /\ IInv' /\ Meaning!Going /\ Variable' = Variable
        /\ Stack' = Append(Stack, Meaning!Val(t, v))
    BY <1>1, <1>2, <1>3, PushStep
  <1>5. op'.kind = "literal" /\ op'.type = t /\ op'.number = v
    BY <1>3 DEF NumberOp
  <1>6. Meaning!Literal
    BY <1>4, <1>5, SameScalars, Mapping DEF Meaning!Literal, Meaning!Is, Meaning!Push
  <1> QED
    BY <1>4, <1>6 DEF Meaning!Next

LEMMA UseVariableStep ==
    ASSUME IInv, UseVariable
    PROVE  IInv' /\ Meaning!Next
  <1> DEFINE t == cell.type
             w == Load(t, cell.bits)
  <1>1. t \in Types /\ cell.bits \in 0..(Modulus[t] - 1) /\ (t = "bool" => cell.bits \in 0..1)
    BY ConstantsOK DEF IInv
  <1>2. IsCanonical(t, w) /\ Meaning!Val(t, Number(t, w)) = Variable
    BY <1>1, MemoryMeans DEF Variable
  <1>3. /\ Going /\ UNCHANGED cell /\ Len(operands) < MaxOperands
        /\ operands' = Append(operands, Operand(t, w))
        /\ op' = Op("variable")
    BY DEF UseVariable, Push
  <1> HIDE DEF t, w
  <1>4. IInv' /\ Meaning!Going /\ Variable' = Variable /\ Stack' = Append(Stack, Variable)
    BY <1>1, <1>2, <1>3, PushStep
  <1>5. op'.kind = "variable"
    BY <1>3 DEF Op
  <1>6. Meaning!UseVariable
    BY <1>4, <1>5, Mapping DEF Meaning!UseVariable, Meaning!Is, Meaning!Push
  <1> QED
    BY <1>4, <1>6 DEF Meaning!Next

LEMMA AddressOfStep ==
    ASSUME IInv, NEW a \in Words("ptr"), AddressOf(a)
    PROVE  IInv' /\ Meaning!Next
  <1>1. /\ "ptr" \in Types /\ Going /\ UNCHANGED cell /\ Len(operands) < MaxOperands
        /\ operands' = Append(operands, Operand("ptr", a))
        /\ op' = NumberOp("&", "ptr", a)
    BY DEF AddressOf, Push
  <1>2. IsCanonical("ptr", a) /\ Number("ptr", a) = a
    BY <1>1, PlainWords
  <1>3. /\ IInv' /\ Meaning!Going /\ Variable' = Variable
        /\ Stack' = Append(Stack, Meaning!Val("ptr", a))
    BY <1>1, <1>2, PushStep
  <1>4. op'.kind = "&" /\ op'.number = a
    BY <1>1 DEF NumberOp
  <1>5. Meaning!AddressOf
    BY <1>3, <1>4, Mapping DEF Meaning!AddressOf, Meaning!Is, Meaning!Push
  <1> QED
    BY <1>3, <1>5 DEF Meaning!Next

LEMMA ImportReturnsStep ==
    ASSUME IInv, NEW t \in Types, NEW v \in Values(t), ImportReturns(t, v)
    PROVE  IInv' /\ Meaning!Next
  <1>1. /\ Going /\ UNCHANGED cell /\ Len(operands) < MaxOperands
        /\ operands' = Append(operands, Operand(t, Word(t, v)))
        /\ op' = TypedOp("import", t)
    BY DEF ImportReturns, Push
  <1>2. IsCanonical(t, Word(t, v)) /\ Number(t, Word(t, v)) = v
    BY ImportMeans
  <1>3. /\ IInv' /\ Meaning!Going /\ Variable' = Variable
        /\ Stack' = Append(Stack, Meaning!Val(t, v))
    BY <1>1, <1>2, PushStep
  <1>4. op'.kind = "import" /\ op'.type = t
    BY <1>1 DEF TypedOp
  <1>5. Meaning!ImportReturns
    BY <1>3, <1>4, SameScalars, Mapping DEF Meaning!ImportReturns, Meaning!Is, Meaning!Push
  <1> QED
    BY <1>3, <1>5 DEF Meaning!Next

LEMMA NegateStep ==
    ASSUME IInv, Negate
    PROVE  IInv' /\ Meaning!Next
  <1> DEFINE t == Top.type
             r == Canon(t, Word(t, 0 - Top.word))
             x == Meaning!Val(t, Number(t, Top.word))
             y == Meaning!Val(t, Number(t, r))
  <1>1. /\ operands # <<>> /\ IsInteger(t) /\ Going /\ UNCHANGED cell
        /\ operands' = Append(Front(operands), Operand(t, r))
        /\ op' = Op("neg")
    BY DEF Negate, Replace
  <1>2. t \in Types /\ IsCanonical(t, Top.word) /\ Meaning!Last(Stack) = x /\ Stack # <<>>
    BY <1>1, OperandsOnTop
  <1>3. IsCanonical(t, r) /\ Number(t, r) = Wrap(t, -Number(t, Top.word))
    BY <1>1, <1>2, NegateMeans DEF Integers
  <1>4. y = Meaning!Val(x.type, Wrap(x.type, -x.value))
    BY <1>3, OperandFacts
  <1> HIDE DEF t, r, x
  <1>5. /\ IInv' /\ Meaning!Going /\ Variable' = Variable
        /\ Stack' = Append(Meaning!Front(Stack), y)
    BY <1>1, <1>2, <1>3, ReplaceStep
  <1>6. op'.kind = "neg"
    BY <1>1 DEF Op
  <1> HIDE DEF y
  <1>7. Meaning!OnTop
    BY <1>2, <1>4, <1>5, <1>6, OnTopStep
  <1> QED
    BY <1>5, <1>7 DEF Meaning!Next

LEMMA NotStep ==
    ASSUME IInv, Not
    PROVE  IInv' /\ Meaning!Next
  <1> DEFINE r == IF Top.word = 0 THEN 1 ELSE 0
             x == Meaning!Val("bool", Number("bool", Top.word))
             y == Meaning!Val("bool", Number("bool", r))
  <1>1. /\ operands # <<>> /\ Top.type = "bool" /\ Going /\ UNCHANGED cell
        /\ operands' = Append(Front(operands), Operand("bool", r))
        /\ op' = Op("!")
    BY DEF Not, Replace
  <1>2. /\ "bool" \in Types /\ IsCanonical("bool", Top.word)
        /\ Meaning!Last(Stack) = x /\ Stack # <<>>
    BY <1>1, OperandsOnTop
  <1>3. r \in 0..1 /\ IsCanonical("bool", r) /\ Number("bool", r) = r
    BY PlainWords
  <1>4. x.value = Top.word
    BY <1>2, PlainWords, OperandFacts
  <1>5. y = Meaning!Bool(x.value = 0)
    BY <1>3, <1>4 DEF Meaning!Bool
  <1> HIDE DEF r, x
  <1>6. /\ IInv' /\ Meaning!Going /\ Variable' = Variable
        /\ Stack' = Append(Meaning!Front(Stack), y)
    BY <1>1, <1>2, <1>3, ReplaceStep
  <1>7. op'.kind = "!"
    BY <1>1 DEF Op
  <1> HIDE DEF y
  <1>8. Meaning!OnTop
    BY <1>2, <1>5, <1>6, <1>7, OnTopStep
  <1> QED
    BY <1>6, <1>8 DEF Meaning!Next

LEMMA CastStep ==
    ASSUME IInv, NEW to \in Types \ {"bool"}, Cast(to)
    PROVE  IInv' /\ Meaning!Next
  <1> DEFINE t == Top.type
             r == CastOps(t, to, Top.word)
             x == Meaning!Val(t, Number(t, Top.word))
             y == Meaning!Val(to, Number(to, r))
  <1>1. /\ operands # <<>> /\ IF IsInteger(to) THEN IsInteger(t) ELSE t = to
        /\ Going /\ UNCHANGED cell
        /\ operands' = Append(Front(operands), Operand(to, r))
        /\ op' = TypedOp("as", to)
    BY DEF Cast, Replace
  <1>2. t \in Types /\ IsCanonical(t, Top.word) /\ Meaning!Last(Stack) = x /\ Stack # <<>>
    BY <1>1, OperandsOnTop
  <1>3. IsCanonical(to, r) /\ Number(to, r) = Wrap(to, Number(t, Top.word))
    BY <1>1, <1>2, CastMeans
  <1>4. y = Meaning!Val(to, Wrap(to, x.value))
    BY <1>3, OperandFacts
  <1> HIDE DEF t, r, x
  <1>5. /\ IInv' /\ Meaning!Going /\ Variable' = Variable
        /\ Stack' = Append(Meaning!Front(Stack), y)
    BY <1>1, <1>2, <1>3, ReplaceStep
  <1>6. op'.kind = "as" /\ op'.type = to
    BY <1>1 DEF TypedOp
  <1> HIDE DEF y
  <1>7. Meaning!OnTop
    BY <1>2, <1>4, <1>5, <1>6, OnTopStep
  <1> QED
    BY <1>5, <1>7 DEF Meaning!Next

LEMMA FieldStep ==
    ASSUME IInv, NEW offset \in Sizes, Field(offset)
    PROVE  IInv' /\ Meaning!Next
  <1> DEFINE r == Word("ptr", Top.word + offset)
             x == Meaning!Val("ptr", Number("ptr", Top.word))
             y == Meaning!Val("ptr", Number("ptr", r))
  <1>1. /\ operands # <<>> /\ Top.type = "ptr" /\ Going /\ UNCHANGED cell
        /\ operands' = Append(Front(operands), Operand("ptr", r))
        /\ op' = NumberOp(".", "ptr", offset)
    BY DEF Field, Replace
  <1>2. /\ "ptr" \in Types /\ IsCanonical("ptr", Top.word)
        /\ Meaning!Last(Stack) = x /\ Stack # <<>>
    BY <1>1, OperandsOnTop
  <1>3. IsCanonical("ptr", r) /\ Number("ptr", r) = Wrap("ptr", Number("ptr", Top.word) + offset)
    BY <1>2, FieldMeans, ConstantsOK
  <1>4. y = Meaning!Val("ptr", Wrap("ptr", x.value + offset))
    BY <1>3, OperandFacts
  <1> HIDE DEF r, x
  <1>5. /\ IInv' /\ Meaning!Going /\ Variable' = Variable
        /\ Stack' = Append(Meaning!Front(Stack), y)
    BY <1>1, <1>2, <1>3, ReplaceStep
  <1>6. op'.kind = "." /\ op'.number = offset
    BY <1>1 DEF NumberOp
  <1> HIDE DEF y
  <1>7. Meaning!OnTop
    BY <1>2, <1>4, <1>5, <1>6, OnTopStep
  <1> QED
    BY <1>5, <1>7 DEF Meaning!Next

\* A bool operand that is put back as it was: by && when false, by || when true.
LEMMA SameTop ==
    ASSUME IInv, operands # <<>>, Top.type = "bool", Going, UNCHANGED cell,
           NEW b, Top.word = b, operands' = Append(Front(operands), Operand("bool", b))
    PROVE  IInv' /\ Meaning!Going /\ Stack' = Stack /\ Variable' = Variable
  <1>1. Top = Operand("bool", b) /\ operands \in Seq(Canonicals)
    BY OperandsOnTop DEF IInv
  <1>2. Append(Front(operands), Top) = operands
    BY <1>1, NumbersFacts DEF Top
  <1>3. operands' = operands
    BY <1>1, <1>2
  <1> QED
    BY <1>3, SameVariable DEF Stack, IInv

LEMMA AndAlsoStep ==
    ASSUME IInv, AndAlso
    PROVE  IInv' /\ Meaning!Next
  <1> DEFINE x == Meaning!Val("bool", Number("bool", Top.word))
  <1>1. operands # <<>> /\ Top.type = "bool" /\ op'.kind = "&&"
    BY DEF AndAlso, Op
  <1>2. IsCanonical("bool", Top.word) /\ Meaning!Last(Stack) = x /\ Stack # <<>>
    BY <1>1, OperandsOnTop
  <1>3. x.value = Top.word /\ Top.word \in 0..1
    BY <1>2, PlainWords, OperandFacts
  <1> HIDE DEF x
  <1>4. CASE Top.word = 0
    <2>1. /\ Going /\ UNCHANGED cell
          /\ operands' = Append(Front(operands), Operand("bool", 0))
      BY <1>4 DEF AndAlso, Replace
    <2>2. IInv' /\ Meaning!Going /\ Stack' = Stack /\ Variable' = Variable
      BY <1>1, <1>4, <2>1, SameTop
    <2>3. Meaning!OnTop
      BY <1>1, <1>2, <1>3, <1>4, <2>2, PassStep
    <2> QED
      BY <2>2, <2>3 DEF Meaning!Next
  <1>5. CASE Top.word = 1
    <2>1. Pop
      BY <1>5 DEF AndAlso
    <2>2. IInv' /\ Meaning!Going /\ Stack' = Meaning!Front(Stack) /\ Variable' = Variable
      BY <1>1, <2>1, PopStep
    <2>3. Meaning!OnTop
      BY <1>1, <1>2, <1>3, <1>5, <2>2, PassStep
    <2> QED
      BY <2>2, <2>3 DEF Meaning!Next
  <1> QED
    BY <1>3, <1>4, <1>5

LEMMA OrElseStep ==
    ASSUME IInv, OrElse
    PROVE  IInv' /\ Meaning!Next
  <1> DEFINE x == Meaning!Val("bool", Number("bool", Top.word))
  <1>1. operands # <<>> /\ Top.type = "bool" /\ op'.kind = "||"
    BY DEF OrElse, Op
  <1>2. IsCanonical("bool", Top.word) /\ Meaning!Last(Stack) = x /\ Stack # <<>>
    BY <1>1, OperandsOnTop
  <1>3. x.value = Top.word /\ Top.word \in 0..1
    BY <1>2, PlainWords, OperandFacts
  <1> HIDE DEF x
  <1>4. CASE Top.word = 1
    <2>1. /\ Going /\ UNCHANGED cell
          /\ operands' = Append(Front(operands), Operand("bool", 1))
      BY <1>4 DEF OrElse, Replace
    <2>2. IInv' /\ Meaning!Going /\ Stack' = Stack /\ Variable' = Variable
      BY <1>1, <1>4, <2>1, SameTop
    <2>3. Meaning!OnTop
      BY <1>1, <1>2, <1>3, <1>4, <2>2, PassStep
    <2> QED
      BY <2>2, <2>3 DEF Meaning!Next
  <1>5. CASE Top.word = 0
    <2>1. Pop
      BY <1>5 DEF OrElse
    <2>2. IInv' /\ Meaning!Going /\ Stack' = Meaning!Front(Stack) /\ Variable' = Variable
      BY <1>1, <2>1, PopStep
    <2>3. Meaning!OnTop
      BY <1>1, <1>2, <1>3, <1>5, <2>2, PassStep
    <2> QED
      BY <2>2, <2>3 DEF Meaning!Next
  <1> QED
    BY <1>3, <1>4, <1>5

LEMMA DropStep ==
    ASSUME IInv, Drop
    PROVE  IInv' /\ Meaning!Next
  <1>1. operands # <<>> /\ Pop /\ op'.kind = "drop"
    BY DEF Drop, Op, IInv
  <1>2. /\ IInv' /\ Meaning!Going /\ Stack' = Meaning!Front(Stack) /\ Variable' = Variable
        /\ Stack # <<>>
    BY <1>1, PopStep, OperandsOnTop
  <1>3. Meaning!OnTop
    BY <1>1, <1>2, PassStep
  <1> QED
    BY <1>2, <1>3 DEF Meaning!Next

LEMMA AssignStep ==
    ASSUME IInv, Assign
    PROVE  IInv' /\ Meaning!Next
  <1> DEFINE t == cell.type
             w == Top.word
             b == Store(t, w)
             x == Meaning!Val(t, Number(t, w))
  <1>1. /\ Len(operands) = 1 /\ Top.type = t /\ Going
        /\ cell' = [cell EXCEPT !.bits = b] /\ operands' = <<>> /\ op' = Op("=")
    BY DEF Assign
  <1>2. operands # <<>> /\ operands \in Seq(Canonicals)
    BY <1>1 DEF IInv
  <1>3. t \in Types /\ IsCanonical(t, w) /\ Meaning!Last(Stack) = x /\ Stack # <<>>
    BY <1>1, <1>2, OperandsOnTop
  <1>4. /\ b \in 0..(Modulus[t] - 1) /\ (t = "bool" => b \in 0..1)
        /\ Number(t, Load(t, b)) = Number(t, w) /\ Modulus[t] \in Nat
    BY <1>3, MemoryMeans, ModuliFacts DEF IsCanonical
  <1>5. cell \in [type : VarTypes, bits : Nat] /\ b \in Nat
    BY <1>4 DEF IInv
  <1> HIDE DEF w, b, x
  <1>6. cell' \in [type : VarTypes, bits : Nat] /\ cell'.type = t /\ cell'.bits = b
    BY <1>1, <1>5
  <1>7. Variable' = x
    BY <1>4, <1>6 DEF Variable, x
  <1>8. Stack' = Meaning!Front(Stack)
    <2> DEFINE f == Front(operands)
    <2>1. f \in Seq(Canonicals) /\ Len(f) = 0 /\ Numbers(f) = Meaning!Front(Stack)
      BY <1>1, <1>2, NumbersFacts DEF Stack
    <2> HIDE DEF f
    <2>2. f = <<>>
      BY <2>1
    <2> QED
      BY <1>1, <2>1, <2>2 DEF Stack
  <1>9. operands' \in Seq(Canonicals) /\ Len(operands') <= MaxOperands
    BY <1>1, ConstantsOK
  <1>10. IInv'
    BY <1>1, <1>4, <1>6, <1>9 DEF IInv, Going
  <1>11. Meaning!Going /\ op'.kind = "="
    BY <1>1, Mapping DEF Going, Op
  <1>12. Meaning!OnTop
    BY <1>3, <1>7, <1>8, <1>11, PassStep
  <1> QED
    BY <1>10, <1>12 DEF Meaning!Next

LEMMA BinaryStep ==
    ASSUME IInv, NEW o \in ArithmeticOps, Binary(o)
    PROVE  IInv' /\ Meaning!Next
  <1> DEFINE t == Top.type
             a == Left.word
             b == Top.word
             r == Canon(t, Instr(o, t, a, b))
             x == Number(t, a)
             y == Number(t, b)
             z == Wrap(t, Meaning!Result(o, x, y))
  <1>1. /\ Len(operands) > 1 /\ Left.type = t /\ IsInteger(t) /\ ~Traps(o, t, a, b)
        /\ Going /\ UNCHANGED cell
        /\ operands' = Append(Front(Front(operands)), Operand(t, r))
        /\ op' = Op(o)
    BY DEF Binary, Pair, Reduce
  <1>2. /\ t \in Types /\ IsCanonical(t, a) /\ IsCanonical(t, b)
        /\ Meaning!Left = Meaning!Val(t, x) /\ Meaning!Right = Meaning!Val(t, y)
    BY <1>1, OperandsOnTop
  <1>3. IsCanonical(t, r) /\ Number(t, r) = z /\ ~Meaning!Undefined(o, t, x, y)
    BY <1>1, <1>2, ArithmeticMeans, TrapsMeans DEF Integers
  <1>4. Meaning!Left.type = t /\ Meaning!Left.value = x /\ Meaning!Right.value = y
    BY <1>2, OperandFacts
  <1>5. op'.kind = o
    BY <1>1 DEF Op
  <1>6. z = Meaning!Wrap(t, Meaning!Result(o, x, y))
    BY SameScalars
  <1> HIDE DEF t, a, b, r, x, y, z
  <1>7. /\ IInv' /\ Meaning!Going /\ Variable' = Variable
        /\ Stack' = Append(Meaning!Front(Meaning!Front(Stack)), Meaning!Val(t, z))
    BY <1>1, <1>2, <1>3, ReduceStep
  <1>8. Meaning!Operate
    BY <1>3, <1>4, <1>5, <1>6, <1>7, SameScalars, Mapping
       DEF Meaning!Operate, Meaning!Is, Meaning!Reduce
  <1> QED
    BY <1>7, <1>8 DEF Meaning!Next

LEMMA TrapStep ==
    ASSUME IInv, NEW o \in ArithmeticOps, Trap(o)
    PROVE  IInv' /\ Meaning!Next
  <1> DEFINE t == Top.type
             a == Left.word
             b == Top.word
             x == Number(t, a)
             y == Number(t, b)
  <1>1. /\ Len(operands) > 1 /\ Left.type = t /\ IsInteger(t) /\ Traps(o, t, a, b)
        /\ ~trapped /\ trapped' = TRUE /\ operands' = <<>> /\ cell' = cell /\ op' = Op(o)
    BY DEF Trap, Pair
  <1>2. /\ t \in Types /\ IsCanonical(t, a) /\ IsCanonical(t, b)
        /\ Meaning!Left = Meaning!Val(t, x) /\ Meaning!Right = Meaning!Val(t, y)
    BY <1>1, OperandsOnTop
  <1>3. Meaning!Undefined(o, t, x, y)
    BY <1>1, <1>2, TrapsMeans DEF Integers
  <1>4. /\ Meaning!Left.type = t /\ Meaning!Left.value = x /\ Meaning!Right.value = y
    BY <1>2, OperandFacts
  <1>5. op'.kind = o
    BY <1>1 DEF Op
  <1> HIDE DEF t, a, b, x, y
  <1>6. IInv'
    <2>1. <<>> \in Seq(Canonicals) /\ Len(<<>>) <= MaxOperands
      BY ConstantsOK
    <2> QED
      BY <1>1, <2>1 DEF IInv
  <1>7. Stack' = <<>> /\ Variable' = Variable
    BY <1>1 DEF Stack, Variable, Numbers
  <1>8. Meaning!Operate
    BY <1>1, <1>3, <1>4, <1>5, <1>7, SameScalars, Mapping DEF Meaning!Operate, Meaning!Is
  <1> QED
    BY <1>6, <1>8 DEF Meaning!Next

LEMMA CompareStep ==
    ASSUME IInv, NEW o \in Equalities \cup Orders, Compare(o)
    PROVE  IInv' /\ Meaning!Next
  <1> DEFINE t == Top.type
             x == Number(t, Left.word)
             y == Number(t, Top.word)
             r == IF Holds(o, x, y) THEN 1 ELSE 0
  <1>1. /\ Len(operands) > 1 /\ Left.type = t /\ Going /\ UNCHANGED cell
        /\ operands' = Append(Front(Front(operands)), Operand("bool", r))
        /\ op' = Op(o)
    BY DEF Compare, Pair, Reduce
  <1>2. Meaning!Left = Meaning!Val(t, x) /\ Meaning!Right = Meaning!Val(t, y)
    BY <1>1, OperandsOnTop
  <1>3. Meaning!Left.value = x /\ Meaning!Right.value = y
    BY <1>2, OperandFacts
  <1>4. r \in 0..1 /\ IsCanonical("bool", r) /\ Number("bool", r) = r /\ "bool" \in Types
    BY PlainWords, TypesOK
  <1>5. Meaning!Val("bool", r) = Meaning!Bool(Meaning!Holds(o, x, y))
    BY SameScalars DEF Meaning!Bool
  <1>6. op'.kind = o
    BY <1>1 DEF Op
  <1> HIDE DEF t, x, y, r
  <1>7. /\ IInv' /\ Meaning!Going /\ Variable' = Variable
        /\ Stack' = Append(Meaning!Front(Meaning!Front(Stack)), Meaning!Val("bool", r))
    BY <1>1, <1>4, ReduceStep
  <1>8. Meaning!Compare
    BY <1>3, <1>5, <1>6, <1>7, SameScalars, Mapping
       DEF Meaning!Compare, Meaning!Is, Meaning!Reduce
  <1> QED
    BY <1>7, <1>8 DEF Meaning!Next

LEMMA IndexStep ==
    ASSUME IInv, NEW size \in Sizes, Index(size)
    PROVE  IInv' /\ Meaning!Next
  <1> DEFINE t == Top.type
             a == Left.word
             b == Top.word
             r == Word("ptr", a + Word("ptr", b) * size)
             x == Number("ptr", a)
             y == Number(t, b)
             z == Wrap("ptr", x + y * size)
  <1>1. /\ Len(operands) > 1 /\ Left.type = "ptr" /\ IsInteger(t) /\ Going /\ UNCHANGED cell
        /\ operands' = Append(Front(Front(operands)), Operand("ptr", r))
        /\ op' = NumberOp("[]", "ptr", size)
    BY DEF Index, Reduce
  <1>2. /\ t \in Types /\ IsCanonical(t, b) /\ "ptr" \in Types /\ IsCanonical("ptr", a)
        /\ Meaning!Left = Meaning!Val("ptr", x) /\ Meaning!Right = Meaning!Val(t, y)
    BY <1>1, OperandsOnTop
  <1>3. IsCanonical("ptr", r) /\ Number("ptr", r) = z
    BY <1>1, <1>2, IndexMeans, ConstantsOK DEF Integers
  <1>4. Meaning!Left.value = x /\ Meaning!Right.value = y
    BY <1>2, OperandFacts
  <1>5. op'.kind = "[]" /\ op'.number = size
    BY <1>1 DEF NumberOp
  <1>6. z = Meaning!Wrap("ptr", x + y * size)
    BY SameScalars
  <1> HIDE DEF t, a, b, r, x, y, z
  <1>7. /\ IInv' /\ Meaning!Going /\ Variable' = Variable
        /\ Stack' = Append(Meaning!Front(Meaning!Front(Stack)), Meaning!Val("ptr", z))
    BY <1>1, <1>2, <1>3, ReduceStep
  <1>8. Meaning!Index
    BY <1>4, <1>5, <1>6, <1>7, Mapping DEF Meaning!Index, Meaning!Is, Meaning!Reduce
  <1> QED
    BY <1>7, <1>8 DEF Meaning!Next

LEMMA EnterStep ==
    ASSUME IInv, NEW t \in VarTypes, NEW w \in Words(t), Enter(t, w)
    PROVE  IInv' /\ Meaning!Next
  <1> DEFINE b == Store(t, w)
             v == Number(t, Load(t, b))
  <1>1. /\ operands = <<>> /\ operands' = <<>> /\ (t = "bool" => w \in Values(t))
        /\ cell' = [type |-> t, bits |-> b] /\ trapped' = FALSE /\ op' = TypedOp("enter", t)
    BY DEF Enter
  <1>2. t \in Types /\ ~IsSigned("bool")
    BY ConstantsOK DEF IsSigned, SignedTypes
  <1>3. b \in 0..(Modulus[t] - 1) /\ Modulus[t] \in Nat
    BY <1>2, MemoryMeans, ModuliFacts
  <1>4. t = "bool" => b \in 0..1
    BY <1>1, <1>2, PlainWords, MemoryMeans
  <1>5. IsCanonical(t, Load(t, b)) /\ v \in Values(t)
    BY <1>2, <1>3, <1>4, MemoryMeans DEF IsCanonical
  <1> HIDE DEF b
  <1>6. b \in Nat /\ cell' \in [type : VarTypes, bits : Nat] /\ cell'.type = t /\ cell'.bits = b
    BY <1>1, <1>3
  <1>7. IInv'
    <2>1. <<>> \in Seq(Canonicals) /\ Len(<<>>) <= MaxOperands
      BY ConstantsOK
    <2> QED
      BY <1>1, <1>3, <1>4, <1>6, <2>1 DEF IInv
  <1>8. Stack' = <<>> /\ Stack = <<>> /\ Variable' = Meaning!Val(t, v)
    BY <1>1, <1>6 DEF Stack, Variable, Numbers
  <1>9. op'.kind = "enter" /\ op'.type = t
    BY <1>1 DEF TypedOp
  <1> HIDE DEF v
  <1>10. Meaning!Enter
    BY <1>1, <1>5, <1>8, <1>9, SameScalars, Mapping DEF Meaning!Enter, Meaning!Is
  <1> QED
    BY <1>7, <1>10 DEF Meaning!Next

-----------------------------------------------------------------------------
(* The theorems. *)

LEMMA InitIInv == Start => IInv /\ Meaning!Start
  <1> SUFFICES ASSUME Start PROVE IInv /\ Meaning!Start
    OBVIOUS
  <1>1. PICK t \in VarTypes : cell = [type |-> t, bits |-> 0]
    BY DEF Start
  <1>2. operands = <<>> /\ trapped = FALSE /\ op.kind = "start"
    BY DEF Start, Op
  <1>3. t \in Types /\ Modulus[t] \in Nat \ {0}
    BY ConstantsOK, ModuliFacts
  <1>4. IInv
    <2>1. <<>> \in Seq(Canonicals) /\ Len(<<>>) <= MaxOperands
      BY ConstantsOK
    <2>2. cell \in [type : VarTypes, bits : Nat] /\ cell.type = t /\ cell.bits = 0
      BY <1>1
    <2>3. 0 \in 0..(Modulus[t] - 1) /\ 0 \in 0..1
      BY <1>3
    <2> QED
      BY <1>2, <2>1, <2>2, <2>3 DEF IInv
  <1>5. Stack = <<>> /\ Variable = Meaning!Val(t, 0)
    BY <1>1, <1>2, <1>3, MemoryMeans DEF Stack, Numbers, Variable
  <1>6. Meaning!Start
    BY <1>2, <1>3, <1>5, Mapping DEF Meaning!Start
  <1> QED
    BY <1>4, <1>6

LEMMA NextIInv == IInv /\ [Next]_vars => IInv' /\ [Meaning!Next]_Meaning!vars
  <1> SUFFICES ASSUME IInv, [Next]_vars PROVE IInv' /\ [Meaning!Next]_Meaning!vars
    OBVIOUS
  <1>1. ASSUME NEW t \in Integers, NEW v \in 0..(Modulus["i64"] - 1), FoldedNegation(t, v)
        PROVE  IInv' /\ Meaning!Next
    BY <1>1, FoldedNegationStep
  <1>2. ASSUME NEW t \in Integers, NEW v \in 0..(Modulus["i64"] - 1), NEW neg \in BOOLEAN,
               Literal(t, v, neg) \/ Reject(t, v, neg)
        PROVE  IInv' /\ Meaning!Next
    BY <1>2, LiteralStep, RejectStep
  <1>3. ASSUME NEW t \in {"u8", "bool"}, NEW v \in Values(t), PlainLiteral(t, v)
        PROVE  IInv' /\ Meaning!Next
    BY <1>3, PlainLiteralStep
  <1>4. ASSUME UseVariable \/ (\E a \in Words("ptr") : AddressOf(a))
                   \/ (\E t \in Types : \E v \in Values(t) : ImportReturns(t, v))
        PROVE  IInv' /\ Meaning!Next
    BY <1>4, UseVariableStep, AddressOfStep, ImportReturnsStep
  <1>5. ASSUME Negate \/ Not \/ AndAlso \/ OrElse \/ Drop \/ Assign
        PROVE  IInv' /\ Meaning!Next
    BY <1>5, NegateStep, NotStep, AndAlsoStep, OrElseStep, DropStep, AssignStep
  <1>6. ASSUME NEW t \in Types \ {"bool"}, Cast(t) PROVE IInv' /\ Meaning!Next
    BY <1>6, CastStep
  <1>7. ASSUME NEW size \in Sizes, Field(size) \/ Index(size) PROVE IInv' /\ Meaning!Next
    BY <1>7, FieldStep, IndexStep
  <1>8. ASSUME NEW o \in ArithmeticOps, Binary(o) \/ Trap(o) PROVE IInv' /\ Meaning!Next
    BY <1>8, BinaryStep, TrapStep
  <1>9. ASSUME NEW o \in Equalities \cup Orders, Compare(o) PROVE IInv' /\ Meaning!Next
    BY <1>9, CompareStep
  <1>10. ASSUME NEW t \in VarTypes, NEW w \in Words(t), Enter(t, w)
         PROVE  IInv' /\ Meaning!Next
    BY <1>10, EnterStep
  <1>11. CASE Next
    <2>1. IInv' /\ Meaning!Next
      BY <1>1, <1>2, <1>3, <1>4, <1>5, <1>6, <1>7, <1>8, <1>9, <1>10, <1>11 DEF Next
    <2> QED
      BY <2>1
  <1>12. CASE UNCHANGED vars
    <2>1. op' = op /\ operands' = operands /\ cell' = cell /\ trapped' = trapped
      BY <1>12 DEF vars
    <2>2. IInv'
      BY <2>1 DEF IInv
    <2>3. Stack' = Stack /\ Variable' = Variable
      BY <2>1 DEF Stack, Variable
    <2>4. UNCHANGED Meaning!vars
      BY <2>1, <2>3, Mapping DEF Meaning!vars
    <2> QED
      BY <2>2, <2>4
  <1> QED
    BY <1>11, <1>12

THEOREM Invariant == Spec => []IInv
  <1>1. Start => IInv
    BY InitIInv
  <1>2. IInv /\ [Next]_vars => IInv'
    BY NextIInv
  <1> QED
    BY <1>1, <1>2, PTL DEF Spec

\* The stack holds words of the types' wasm words, no more of them than it may,
\* the variable fits into its memory, and a trap leaves nothing to evaluate.
THEOREM TypeCorrect == Spec => []TypeOK
  <1>1. IInv => TypeOK
    <2> SUFFICES ASSUME IInv PROVE TypeOK
      OBVIOUS
    <2> DEFINE S == UNION {[type : {t}, word : Words(t)] : t \in Types}
    <2>1. Canonicals \subseteq S
      <3> SUFFICES ASSUME NEW o \in Canonicals PROVE o \in S
        OBVIOUS
      <3>1. o.type \in Types /\ o.word \in Words(o.type) /\ o = Operand(o.type, o.word)
        BY OperandFacts DEF IsCanonical
      <3>2. o \in [type : {o.type}, word : Words(o.type)]
        BY <3>1 DEF Operand
      <3> QED
        BY <3>1, <3>2
    <2> HIDE DEF S
    <2>2. operands \in Seq(S)
      BY <2>1 DEF IInv
    <2>3. cell.type \in VarTypes
      BY DEF IInv
    <2> QED
      BY <2>2, <2>3 DEF IInv, TypeOK, S
  <1> QED
    BY <1>1, Invariant, PTL

\* Every operand is in canonical form, whatever wrapped around, was cast, was cut
\* by memory or came from a host: no comparison, division or widening cast sees
\* stray upper bits (codegen.go:768-771, 832-834).
THEOREM OperandsAreCanonical == Spec => []OperandsCanonical
  <1>1. IInv => OperandsCanonical
    <2> SUFFICES ASSUME IInv, NEW i \in DOMAIN operands
                 PROVE  Number(operands[i].type, operands[i].word) \in Values(operands[i].type)
      BY DEF OperandsCanonical
    <2>1. operands[i] \in Canonicals
      BY DEF IInv
    <2> QED
      BY <2>1, OperandFacts DEF IsCanonical
  <1> QED
    BY <1>1, Invariant, PTL

\* The words, read by the sign of their types, are the numbers the language
\* means: for any widths, any nesting of expressions and any values, each step of
\* the generated code is the step of the source's operation, rejections of
\* literals and traps included.
THEOREM Refinement == Spec => ImplementsEval
  <1>1. Start => IInv /\ Meaning!Start
    BY InitIInv
  <1>2. IInv /\ [Next]_vars => IInv' /\ [Meaning!Next]_Meaning!vars
    BY NextIInv
  <1> QED
    BY <1>1, <1>2, PTL DEF Spec, ImplementsEval, Meaning!Spec
=============================================================================
