---------------------------- MODULE OutputProofs ----------------------------
(***************************************************************************)
(* What TLAPS proves of the module Output, for every width of the integers,*)
(* every itoa buffer with room for them and all NUL-terminated strings:    *)
(* types are correct, printing stays in its buffer, no byte is lost or     *)
(* written twice, and every step is one that AbstractOutput allows.        *)
(***************************************************************************)
EXTENDS Output, Arithmetic, SequenceTheorems, TLAPS

-----------------------------------------------------------------------------
(* The inductive invariant. *)

\* The k bytes that the memory m holds from address a on.
HeldIn(m, a, k) == [i \in 1..k |-> m[a + i - 1]]

\* The k bytes from address a on lie in the itoa buffer or in the strings.
InRange(a, k) ==
    \/ k = 0
    \/ a >= ItoaStart /\ a + k <= ItoaEnd
    \/ a >= ItoaEnd /\ a..(a + k - 1) \subseteq DOMAIN Strings

StringsKept == \A a \in DOMAIN Strings : mem[a] = Strings[a]

\* jaba_print_str looks for the NUL.
Scanning ==
    pc = "scan" =>
        /\ s \in DOMAIN Strings /\ p \in s..End(s)
        /\ out = <<>> /\ text = StringAt(s)

\* jaba_print_int: the digits still to come and those in the buffer are all
\* of them, and those still to come and a sign fit before these.
Converting ==
    /\ pc \in {"digits", "sign"} =>
          v \in Ints /\ out = <<>> /\ text = Decimal(v) /\ p <= ItoaEnd
    /\ pc = "digits" =>
          /\ p >= ItoaStart + 2 /\ n < Power10[p - ItoaStart - 1]
          /\ Digits[n] \o HeldIn(mem, p, ItoaEnd - p) = Digits[Magnitude(v)]
    /\ pc = "sign" =>
          /\ p > ItoaStart
          /\ HeldIn(mem, p, ItoaEnd - p) = Digits[Magnitude(v)]

\* write_all: what the host took and what is left make up the text, where
\* nwritten bytes have been taken and not yet been accounted for.
Writing ==
    /\ pc \in {"write", "host"} => InRange(buf, len)
    /\ (pc = "write" /\ errno # "success") \/ pc = "host" =>
          out \o HeldIn(mem, buf, len) = text
    /\ pc = "host" => iovec = [buf |-> buf, len |-> len]
    /\ errno = "success" =>
          /\ nwritten \in 0..len
          /\ out \o HeldIn(mem, buf + nwritten, len - nwritten) = text

OutTyped == out \in Seq(Bytes)

IInv == TypeOK /\ StringsKept /\ Scanning /\ Converting /\ Writing /\ OutTyped

-----------------------------------------------------------------------------
(* Powers of ten and decimal numerals. *)

\* The powers of ten are what their recursive definition says.
LEMMA Power10Def ==
    /\ Power10 \in [Nat -> Nat] /\ Power10[0] = 1
    /\ \A k \in Nat \ {0} : Power10[k] = 10 * Power10[k - 1]
  <1> DEFINE h == [x \in Nat \X Nat |-> 10 * x[2]]
  <1>1. h \in [Nat \X Nat -> Nat] /\ 1 \in Nat
    OBVIOUS
  <1>2. PICK f : CountsUp(f, Nat, 1, h)
    <2> HIDE DEF h
    <2> QED
      BY <1>1, RecursionFromZero
  <1>3. /\ f \in [Nat -> Nat] /\ f[0] = 1
        /\ \A k \in Nat \ {0} : f[k] = h[<<k, f[k - 1]>>]
    <2> HIDE DEF h
    <2> QED
      BY <1>2 DEF CountsUp
  <1>4. ASSUME NEW k \in Nat \ {0} PROVE f[k] = 10 * f[k - 1]
    <2>1. <<k, f[k - 1]>> \in Nat \X Nat
      BY <1>3
    <2> QED
      BY <1>3, <2>1
  <1>5. f = [k \in Nat |-> IF k = 0 THEN 1 ELSE 10 * f[k - 1]]
    BY <1>3, <1>4
  <1>6. Power10 = [k \in Nat |-> IF k = 0 THEN 1 ELSE 10 * Power10[k - 1]]
    BY <1>5 DEF Power10
  <1> DEFINE S == {k \in Nat : Power10[k] = f[k]}
  <1>7. 0 \in S
    BY <1>3, <1>6
  <1>8. \A k \in Nat : k \in S => k + 1 \in S
    BY <1>3, <1>4, <1>6
  <1>9. Nat \subseteq S
    <2> HIDE DEF S
    <2> QED
      BY <1>7, <1>8, Induction
  <1>10. Power10 = f
    BY <1>3, <1>6, <1>9
  <1> QED
    BY <1>3, <1>4, <1>10

\* The numerals are what their recursive definition says.
LEMMA DigitsDef ==
    /\ \A k \in Nat : Digits[k] \in Seq(Bytes)
    /\ \A k \in 0..9 : Digits[k] = <<Zero + k>>
    /\ \A k \in Nat \ 0..9 :
          Digits[k] = Append(Digits[k \div 10], Zero + (k % 10))
  <1> DEFINE V == Seq(Bytes)
             c == [k \in Nat |-> IF k \in 0..9 THEN <<Zero + k>> ELSE <<>>]
             h == [x \in Nat \X V |-> Append(x[2], Zero + (x[1] % 10))]
             half == [k \in Nat |-> k \div 10]
  <1>1. \A k \in Nat : k % 10 \in 0..9 /\ k \div 10 \in Nat
    OBVIOUS
  <1>2. \A k \in 0..9 : Zero + k \in Bytes
    BY DEF Zero, Bytes
  <1>3. c \in [Nat -> V]
    BY <1>2
  <1>4. h \in [Nat \X V -> V]
    <2>1. ASSUME NEW x \in Nat \X V PROVE Append(x[2], Zero + (x[1] % 10)) \in V
      BY <1>1, <1>2, AppendProperties
    <2> QED
      BY <2>1
  <1>5. \A k \in Nat \ 0..9 : half[k] \in 0..(k - 1)
    OBVIOUS
  <1>6. PICK f : IsRecursive(f, V, 0..9, c, h, half)
    <2> HIDE DEF c, h, half, V
    <2> QED
      BY <1>3, <1>4, <1>5, Recursion
  <1>7. /\ f \in [Nat -> V]
        /\ \A k \in Nat : f[k] = IF k \in 0..9 THEN c[k] ELSE h[<<k, f[half[k]]>>]
    <2> HIDE DEF c, h, half, V
    <2> QED
      BY <1>6 DEF IsRecursive
  <1>8. ASSUME NEW k \in Nat \ 0..9
        PROVE  f[k] = Append(f[k \div 10], Zero + (k % 10))
    <2>1. half[k] = k \div 10 /\ k \div 10 \in Nat /\ k \notin 0..9
      OBVIOUS
    <2>2. f[k \div 10] \in V
      BY <1>7, <2>1
    <2> HIDE DEF V
    <2>3. <<k, f[k \div 10]>> \in Nat \X V
      BY <2>2
    <2>4. h[<<k, f[k \div 10]>>] = Append(f[k \div 10], Zero + (k % 10))
      BY <2>3
    <2> HIDE DEF h, half, c
    <2> QED
      BY <1>7, <2>1, <2>4
  <1>9. ASSUME NEW k \in 0..9 PROVE f[k] = <<Zero + k>>
    <2>1. k \in Nat /\ c[k] = <<Zero + k>>
      OBVIOUS
    <2> HIDE DEF c, h, half, V
    <2> QED
      BY <1>7, <2>1
  <1>10. f = [k \in Nat |-> IF k < 10 THEN <<Zero + k>>
                            ELSE Append(f[k \div 10], Zero + (k % 10))]
    <2> HIDE DEF c, h, half, V
    <2>1. f \in [Nat -> V]
      BY <1>7
    <2>2. \A k \in Nat : f[k] = IF k < 10 THEN <<Zero + k>>
                                ELSE Append(f[k \div 10], Zero + (k % 10))
      <3> TAKE k \in Nat
      <3>1. CASE k \in 0..9
        BY <1>9, <3>1
      <3>2. CASE k \notin 0..9
        <4>1. k \in Nat \ 0..9 /\ ~(k < 10)
          BY <3>2
        <4>2. f[k] = Append(f[k \div 10], Zero + (k % 10))
          BY <1>8, <4>1
        <4> QED
          BY <4>1, <4>2
      <3> QED
        BY <3>1, <3>2
    <2> QED
      BY <2>1, <2>2
  <1>11. Digits = [k \in Nat |-> IF k < 10 THEN <<Zero + k>>
                      ELSE Append(Digits[k \div 10], Zero + (k % 10))]
    <2> HIDE DEF c, h, half, V
    <2> QED
      BY <1>10 DEF Digits
  <1> HIDE DEF c, h, half, V
  <1>12. ASSUME NEW k \in 0..9 PROVE Digits[k] = f[k]
    <2>1. k \in Nat /\ k < 10
      OBVIOUS
    <2>2. Digits[k] = <<Zero + k>>
      BY <1>11, <2>1
    <2> QED
      BY <1>9, <2>2
  <1>13. ASSUME NEW k \in Nat \ 0..9
         PROVE  Digits[k] = Append(Digits[k \div 10], Zero + (k % 10))
    <2>1. k \in Nat /\ ~(k < 10)
      OBVIOUS
    <2> QED
      BY <1>11, <2>1
  <1> DEFINE S == {j \in Nat : \A k \in 0..j : Digits[k] = f[k]}
  <1>14. 0 \in S
    BY <1>12
  <1>15. ASSUME NEW j \in Nat, j \in S PROVE j + 1 \in S
    <2>1. CASE j + 1 < 10
      BY <1>15, <1>12, <2>1
    <2>2. CASE ~(j + 1 < 10)
      <3>1. (j + 1) \div 10 \in 0..j /\ j + 1 \in Nat \ 0..9
        BY <2>2
      <3>2. Digits[(j + 1) \div 10] = f[(j + 1) \div 10]
        BY <1>15, <3>1
      <3>3. Digits[j + 1] = Append(Digits[(j + 1) \div 10], Zero + ((j + 1) % 10))
        BY <1>13, <3>1
      <3>4. Digits[j + 1] = f[j + 1]
        BY <1>8, <3>1, <3>2, <3>3
      <3> QED
        BY <1>15, <3>4
    <2> QED
      BY <2>1, <2>2
  <1>16. Nat \subseteq S
    <2> HIDE DEF S
    <2> QED
      BY <1>14, <1>15, Induction
  <1>17. Digits = f
    <2>1. \A k \in Nat : Digits[k] = f[k]
      BY <1>16
    <2> QED
      BY <1>7, <1>11, <2>1
  <1>18. \A k \in Nat : Digits[k] \in Seq(Bytes)
    BY <1>7, <1>17 DEF V
  <1> QED
    BY <1>8, <1>9, <1>17, <1>18

\* A digit less, and a power of ten less.
LEMMA DigitLess ==
    ASSUME NEW k \in Nat, NEW j \in Nat \ {0}, k < Power10[j]
    PROVE  /\ k \div 10 \in Nat /\ k % 10 \in 0..9
           /\ k \div 10 < Power10[j - 1]
  <1>1. Power10[j] = 10 * Power10[j - 1] /\ Power10[j - 1] \in Nat
    BY Power10Def
  <1>2. k \div 10 \in Nat /\ k % 10 \in 0..9 /\ k = 10 * (k \div 10) + (k % 10)
    OBVIOUS
  <1> QED
    BY <1>1, <1>2

\* A nonzero number below a power of ten has room for another digit.
LEMMA NonzeroPower ==
    ASSUME NEW k \in Nat \ {0}, NEW j \in Nat, k < Power10[j]
    PROVE  j >= 1
  BY Power10Def

\* jaba_print_int works on the absolute value, which fits in an i64.
LEMMA MagnitudeFits ==
    ASSUME NEW i \in Ints
    PROVE  /\ Magnitude(i) \in 0..(Word - 1)
           /\ Magnitude(i) = IF i < 0 THEN -i ELSE i
           /\ Magnitude(i) < Power10[ItoaEnd - ItoaStart - 1]
  <1> DEFINE x == IF i < 0 THEN 0 - i ELSE i
             half == Word \div 2
  <1>1. half \in Nat /\ Word = 2 * half /\ half # 0
    BY ConstantsOK
  <1>2. i \in -half..(half - 1) /\ half < Power10[ItoaEnd - ItoaStart - 1]
    BY ConstantsOK
  <1>3. Power10[ItoaEnd - ItoaStart - 1] \in Nat
    BY Power10Def, ConstantsOK
  <1> HIDE DEF half
  <1>4. x \in 0..half /\ x \in 0..(Word - 1)
    BY <1>1, <1>2
  <1>5. x = Word * 0 + x /\ 0 \in Int /\ Word \in Nat \ {0}
    BY <1>4, ConstantsOK
  <1>6. x % Word = x
    <2> HIDE DEF x
    <2> QED
      BY <1>4, <1>5, DivisionUnique
  <1>7. Magnitude(i) = x
    BY <1>6 DEF Magnitude
  <1>8. x = IF i < 0 THEN -i ELSE i
    BY <1>2
  <1>9. x < Power10[ItoaEnd - ItoaStart - 1]
    <2> HIDE DEF x
    <2> QED
      BY <1>1, <1>2, <1>3, <1>4
  <1> QED
    BY <1>4, <1>7, <1>8, <1>9

\* What is printed of a number: a sign if it is negative, and the digits of
\* its absolute value.
LEMMA DecimalOf ==
    ASSUME NEW i \in Ints
    PROVE  Decimal(i) = IF i < 0 THEN <<Minus>> \o Digits[Magnitude(i)]
                        ELSE Digits[Magnitude(i)]
  BY MagnitudeFits DEF Decimal

-----------------------------------------------------------------------------
(* The bytes held in memory. *)

\* Sequences are equal that have a length and its elements in common.
LEMMA SameSequence ==
    ASSUME NEW S, NEW q \in Seq(S), NEW r \in Seq(S), Len(q) = Len(r),
           \A i \in 1..Len(q) : q[i] = r[i]
    PROVE  q = r
  BY SeqEqual

\* The bytes held are a sequence.
LEMMA HeldSeq ==
    ASSUME NEW m, NEW a \in Nat, NEW k \in Nat,
           \A b \in a..(a + k - 1) : m[b] \in Bytes
    PROVE  /\ HeldIn(m, a, k) \in Seq(Bytes) /\ Len(HeldIn(m, a, k)) = k
           /\ \A i \in 1..k : HeldIn(m, a, k)[i] = m[a + i - 1]
  <1> DEFINE h == [i \in 1..k |-> m[a + i - 1]]
  <1>1. ASSUME NEW i \in 1..k PROVE m[a + i - 1] \in Bytes
    <2>1. a + i - 1 \in a..(a + k - 1)
      OBVIOUS
    <2> QED
      BY <2>1
  <1>2. h \in [1..k -> Bytes]
    BY <1>1
  <1> QED
    BY <1>2 DEF HeldIn

\* One byte is a sequence of one.
LEMMA HeldOne ==
    ASSUME NEW m, NEW a \in Nat, m[a] \in Bytes
    PROVE  HeldIn(m, a, 1) = <<m[a]>>
  <1>1. [i \in 1..1 |-> m[a + i - 1]] = <<m[a]>>
    <2>1. \A i \in 1..1 : a + i - 1 = a
      OBVIOUS
    <2> QED
      BY <2>1
  <1> QED
    BY <1>1 DEF HeldIn

\* A range may be written in two pieces.
LEMMA HeldSplit ==
    ASSUME NEW m, NEW a \in Nat, NEW k \in Nat, NEW j \in 0..k,
           \A b \in a..(a + k - 1) : m[b] \in Bytes
    PROVE  HeldIn(m, a, k) = HeldIn(m, a, j) \o HeldIn(m, a + j, k - j)
  <1> DEFINE q == HeldIn(m, a, k)
             x == HeldIn(m, a, j)
             y == HeldIn(m, a + j, k - j)
  <1>1. q \in Seq(Bytes) /\ Len(q) = k /\ \A i \in 1..k : q[i] = m[a + i - 1]
    BY HeldSeq
  <1>2. x \in Seq(Bytes) /\ Len(x) = j /\ \A i \in 1..j : x[i] = m[a + i - 1]
    <2>1. j \in Nat /\ \A b \in a..(a + j - 1) : m[b] \in Bytes
      OBVIOUS
    <2> QED
      BY <2>1, HeldSeq
  <1>3. /\ y \in Seq(Bytes) /\ Len(y) = k - j
        /\ \A i \in 1..(k - j) : y[i] = m[a + j + i - 1]
    <2>1. /\ a + j \in Nat /\ k - j \in Nat
          /\ \A b \in (a + j)..((a + j) + (k - j) - 1) : m[b] \in Bytes
      OBVIOUS
    <2> QED
      BY <2>1, HeldSeq
  <1> HIDE DEF q, x, y
  <1>4. /\ x \o y \in Seq(Bytes) /\ Len(x \o y) = k
        /\ \A i \in 1..k : (x \o y)[i] = IF i <= j THEN x[i] ELSE y[i - j]
    <2>1. /\ x \o y \in Seq(Bytes) /\ Len(x \o y) = Len(x) + Len(y)
          /\ \A i \in 1..(Len(x) + Len(y)) :
                (x \o y)[i] = IF i <= Len(x) THEN x[i] ELSE y[i - Len(x)]
      BY <1>2, <1>3, ConcatProperties
    <2> QED
      BY <1>2, <1>3, <2>1, SMTT(20)
  <1>5. ASSUME NEW i \in 1..k PROVE q[i] = (x \o y)[i]
    <2>1. CASE i <= j
      <3>1. i \in 1..j
        BY <2>1
      <3>2. x[i] = m[a + i - 1]
        BY <1>2, <3>1
      <3> QED
        BY <1>1, <1>4, <2>1, <3>2
    <2>2. CASE ~(i <= j)
      <3>1. i - j \in 1..(k - j) /\ a + j + (i - j) - 1 = a + i - 1
        BY <2>2
      <3>2. y[i - j] = m[a + j + (i - j) - 1]
        BY <1>3, <3>1
      <3> QED
        BY <1>1, <1>4, <2>2, <3>1, <3>2
    <2> QED
      BY <2>1, <2>2
  <1>6. q = x \o y
    BY <1>1, <1>4, <1>5, SameSequence
  <1> QED
    BY <1>6 DEF q, x, y

\* after is m with x at address b.
Replaced(m, b, x, after) ==
    /\ after \in [Buffer \cup DOMAIN Strings -> Bytes]
    /\ after[b] = x
    /\ \A c \in (Buffer \cup DOMAIN Strings) \ {b} : after[c] = m[c]

\* An assignment to memory does that.
LEMMA ReplacedByExcept ==
    ASSUME NEW m \in [Buffer \cup DOMAIN Strings -> Bytes], NEW x \in Bytes,
           NEW b \in Buffer
    PROVE  Replaced(m, b, x, [m EXCEPT ![b] = x])
  BY DEF Replaced

\* Putting a digit, or the sign, before what is already there.
LEMMA HeldBefore ==
    ASSUME NEW m \in [Buffer \cup DOMAIN Strings -> Bytes], NEW x \in Bytes,
           NEW a \in Nat, a > ItoaStart, a <= ItoaEnd,
           NEW after, Replaced(m, a - 1, x, after)
    PROVE  /\ after \in [Buffer \cup DOMAIN Strings -> Bytes]
           /\ \A b \in DOMAIN Strings : after[b] = m[b]
           /\ HeldIn(after, a - 1, ItoaEnd - (a - 1))
                = <<x>> \o HeldIn(m, a, ItoaEnd - a)
  <1> DEFINE k == ItoaEnd - a
  <1>0. /\ ItoaStart \in Nat /\ ItoaEnd \in Nat
        /\ \A b \in DOMAIN Strings : b \in Nat /\ b >= ItoaEnd
    BY ConstantsOK
  <1>1. /\ k \in Nat /\ a - 1 \in Nat /\ ItoaEnd - (a - 1) = k + 1
        /\ a - 1 \in Buffer /\ a - 1 \notin DOMAIN Strings
    BY <1>0 DEF Buffer
  <1>2. /\ after \in [Buffer \cup DOMAIN Strings -> Bytes] /\ after[a - 1] = x
        /\ \A b \in (Buffer \cup DOMAIN Strings) \ {a - 1} : after[b] = m[b]
    BY <1>1 DEF Replaced
  <1>3. \A b \in DOMAIN Strings : after[b] = m[b]
    BY <1>1, <1>2
  <1>4. after[a - 1] = x /\ \A b \in a..(a + k - 1) : after[b] = m[b] /\ m[b] \in Bytes
    <2>1. \A b \in a..(a + k - 1) : b \in Buffer /\ b # a - 1
      BY <1>0 DEF Buffer
    <2> QED
      BY <1>2, <2>1
  <1> HIDE DEF k
  <1>5. \A b \in (a - 1)..((a - 1) + (k + 1) - 1) : after[b] \in Bytes
    BY <1>1, <1>4
  <1>6. HeldIn(after, a - 1, k + 1)
          = HeldIn(after, a - 1, 1) \o HeldIn(after, (a - 1) + 1, (k + 1) - 1)
    <2> DEFINE c == a - 1
               l == k + 1
    <2>1. c \in Nat /\ l \in Nat /\ 1 \in 0..l
      BY <1>1
    <2>2. \A b \in c..(c + l - 1) : after[b] \in Bytes
      BY <1>5
    <2> HIDE DEF c, l
    <2>3. HeldIn(after, c, l) = HeldIn(after, c, 1) \o HeldIn(after, c + 1, l - 1)
      BY <2>1, <2>2, HeldSplit
    <2> QED
      BY <2>3 DEF c, l
  <1>7. HeldIn(after, a - 1, 1) = <<x>>
    BY <1>1, <1>4, HeldOne
  <1>8. HeldIn(after, (a - 1) + 1, (k + 1) - 1) = HeldIn(m, a, k)
    <2>1. (a - 1) + 1 = a /\ (k + 1) - 1 = k
      BY <1>1
    <2>2. \A i \in 1..k : after[a + i - 1] = m[a + i - 1]
      BY <1>1, <1>4
    <2> QED
      BY <2>1, <2>2 DEF HeldIn
  <1>9. HeldIn(after, a - 1, ItoaEnd - (a - 1)) = <<x>> \o HeldIn(m, a, k)
    BY <1>1, <1>6, <1>7, <1>8
  <1> QED
    BY <1>2, <1>3, <1>9 DEF k

\* A digit moves from the number to the buffer, or is the last one.
LEMMA DigitMoves ==
    ASSUME NEW k \in Nat, NEW q \in Seq(Bytes)
    PROVE  /\ k \div 10 # 0 => Digits[k] \o q
                = Digits[k \div 10] \o (<<Zero + (k % 10)>> \o q)
           /\ k \div 10 = 0 => Digits[k] \o q = <<Zero + (k % 10)>> \o q
  <1>1. /\ k \div 10 \in Nat /\ k % 10 \in 0..9
        /\ k \div 10 # 0 => k \in Nat \ 0..9
        /\ k \div 10 = 0 => k \in 0..9 /\ k % 10 = k
    OBVIOUS
  <1>2. CASE k \div 10 = 0
    BY <1>1, <1>2, DigitsDef
  <1>3. CASE k \div 10 # 0
    <2> DEFINE d == Digits[k \div 10]
               x == Zero + (k % 10)
    <2>1. d \in Seq(Bytes) /\ x \in Bytes /\ Digits[k] = Append(d, x)
      <3>1. d \in Seq(Bytes)
        BY <1>1, DigitsDef
      <3>2. x \in Bytes
        BY <1>1 DEF Zero, Bytes
      <3>3. Digits[k] = Append(d, x)
        BY <1>1, <1>3, DigitsDef
      <3> QED
        BY <3>1, <3>2, <3>3
    <2> HIDE DEF d, x
    <2>2. Append(d, x) = d \o <<x>>
      BY <2>1, AppendIsConcat
    <2>3. <<x>> \in Seq(Bytes)
      BY <2>1
    <2>4. (d \o <<x>>) \o q = d \o (<<x>> \o q)
      BY <2>1, <2>3, ConcatAssociative
    <2>5. Digits[k] \o q = d \o (<<x>> \o q)
      BY <2>1, <2>2, <2>4
    <2> QED
      BY <1>3, <2>5 DEF d, x
  <1> QED
    BY <1>2, <1>3

-----------------------------------------------------------------------------
(* Strings. *)

\* A string ends at the first NUL, and its bytes up to there are in memory.
LEMMA StringEnds ==
    ASSUME NEW a \in DOMAIN Strings
    PROVE  /\ End(a) \in DOMAIN Strings /\ End(a) >= a /\ Strings[End(a)] = 0
           /\ \A b \in a..(End(a) - 1) : Strings[b] # 0
           /\ a..End(a) \subseteq DOMAIN Strings
  <1>1. a \in Nat /\ \A b \in DOMAIN Strings : b \in Nat
    BY ConstantsOK
  <1>2. PICK f \in DOMAIN Strings :
            f >= a /\ Strings[f] = 0 /\ a..f \subseteq DOMAIN Strings
    BY ConstantsOK
  <1> DEFINE T == {e \in DOMAIN Strings : e >= a /\ Strings[e] = 0}
             First(e) == /\ e >= a /\ Strings[e] = 0
                         /\ \A b \in a..(e - 1) : Strings[b] # 0
  <1>3. PICK e \in T : \A x \in T : e <= x
    <2>1. T \subseteq Nat /\ T # {}
      BY <1>1, <1>2
    <2> HIDE DEF T
    <2> QED
      BY <2>1, LeastNumber
  <1>4. e \in Nat /\ e <= f
    BY <1>1, <1>2, <1>3
  <1>5. First(e)
    BY <1>1, <1>2, <1>3, <1>4
  <1>6. \E x \in DOMAIN Strings : First(x)
    BY <1>3, <1>5
  <1>7. End(a) \in DOMAIN Strings /\ First(End(a))
    BY <1>6 DEF End
  <1>8. End(a) \in Nat /\ e <= End(a) /\ ~(e < End(a))
    BY <1>1, <1>3, <1>4, <1>7
  <1>9. End(a) = e
    BY <1>4, <1>8
  <1>10. a..End(a) \subseteq DOMAIN Strings
    BY <1>1, <1>2, <1>4, <1>9
  <1> QED
    BY <1>7, <1>10

\* Initially, nothing is printed.
LEMMA InitIInv == Init => IInv
  <1> SUFFICES ASSUME Init PROVE IInv
    OBVIOUS
  <1> USE DEF Init
  <1>1. \A a \in DOMAIN Strings : a \notin Buffer /\ Strings[a] \in Bytes
    BY ConstantsOK DEF Buffer
  <1>2. mem \in [Buffer \cup DOMAIN Strings -> Bytes]
    BY <1>1 DEF Bytes
  <1>3. StringsKept
    BY <1>1 DEF StringsKept
  <1>4. TypeOK
    <2>1. 0 \in 0..(Word - 1) /\ [buf |-> 0, len |-> 0] \in [buf : Nat, len : Nat]
      BY ConstantsOK
    <2> QED
      BY <1>2, <2>1 DEF TypeOK
  <1>5. Scanning /\ Converting /\ Writing /\ OutTyped
    BY DEF Scanning, Converting, Writing, OutTyped
  <1> QED
    BY <1>3, <1>4, <1>5 DEF IInv

\* jaba_print_str is called.
LEMMA PrintStrIInv ==
    ASSUME IInv, NEW a \in DOMAIN Strings, PrintStr(a)
    PROVE  IInv'
  <1>1. a \in Nat /\ a \in a..End(a)
    <2>1. End(a) \in DOMAIN Strings /\ End(a) >= a
      BY StringEnds
    <2>2. a \in Nat /\ End(a) \in Nat
      BY <2>1, ConstantsOK
    <2> QED
      BY ONLY <2>1, <2>2
  <1> USE DEF IInv, PrintStr, scratch
  <1>2. TypeOK'
    BY <1>1 DEF TypeOK
  <1>3. errno = "none"
    BY DEF TypeOK
  <1>4. StringsKept' /\ Scanning'
    BY <1>1 DEF StringsKept, Scanning
  <1>5. Converting' /\ Writing' /\ OutTyped'
    BY <1>3 DEF Converting, Writing, OutTyped
  <1> QED
    BY <1>2, <1>4, <1>5

\* The NUL is looked for and found.
LEMMA ScanIInv == ASSUME IInv, Scan PROVE IInv'
  <1> USE DEF IInv, Scan, scratch
  <1>1. /\ s \in DOMAIN Strings /\ p \in s..End(s) /\ out = <<>> /\ text = StringAt(s)
        /\ errno = "none" /\ s \in Nat /\ p \in Nat
    BY DEF Scanning, TypeOK
  <1>2. /\ End(s) \in Nat /\ Strings[End(s)] = 0
        /\ s..End(s) \subseteq DOMAIN Strings
        /\ \A b \in s..(End(s) - 1) : Strings[b] # 0
    BY <1>1, StringEnds, ConstantsOK
  <1>3. mem[p] = Strings[p]
    BY <1>1, <1>2 DEF StringsKept
  <1>4. StringsKept' /\ OutTyped'
    BY DEF StringsKept, OutTyped
  <1>5. CASE mem[p] # 0 /\ p' = p + 1 /\ UNCHANGED <<pc, buf, len>>
    <2>1. p' \in s..End(s) /\ p' \in Nat
      BY <1>1, <1>2, <1>3, <1>5
    <2>2. TypeOK'
      BY <1>5, <2>1 DEF TypeOK
    <2>3. Scanning' /\ Converting' /\ Writing'
      BY <1>1, <1>5, <2>1 DEF Scanning, Converting, Writing
    <2> QED
      BY <1>4, <2>2, <2>3
  <1>6. CASE mem[p] = 0 /\ WriteAll(s, p) /\ UNCHANGED p
    <2>1. p = End(s)
      <3>1. Strings[p] = 0
        BY <1>3, <1>6
      <3>2. p \notin s..(End(s) - 1)
        BY <1>2, <3>1
      <3> QED
        BY <1>1, <1>2, <3>2
    <2>2. /\ pc' = "write" /\ buf' = s /\ len' = End(s) - s
      BY <1>6, <2>1 DEF WriteAll
    <2>3. TypeOK'
      BY <1>1, <1>2, <1>6, <2>2 DEF TypeOK
    <2>4. InRange(s, End(s) - s)
      <3>1. s >= ItoaEnd
        BY <1>1, ConstantsOK
      <3>2. s..(s + (End(s) - s) - 1) \subseteq s..End(s)
        BY <1>1, <1>2
      <3> QED
        BY <1>2, <3>1, <3>2 DEF InRange
    <2>5. out \o HeldIn(mem, s, End(s) - s) = text
      <3> DEFINE k == End(s) - s
      <3>1. k \in Nat /\ \A i \in 1..k : s + i - 1 \in s..End(s)
        BY <1>1, <1>2
      <3>2. \A i \in 1..k : mem[s + i - 1] = Strings[s + i - 1]
        BY <1>2, <3>1 DEF StringsKept
      <3>3. HeldIn(mem, s, k) = StringAt(s)
        BY <3>2 DEF HeldIn, StringAt
      <3>4. \A b \in s..(s + k - 1) : mem[b] \in Bytes
        <4>1. s..(s + k - 1) \subseteq s..End(s)
          BY <1>1, <1>2
        <4> QED
          BY <1>2, <4>1 DEF TypeOK
      <3> HIDE DEF k
      <3>5. HeldIn(mem, s, k) \in Seq(Bytes)
        BY <1>1, <3>1, <3>4, HeldSeq
      <3>6. <<>> \o HeldIn(mem, s, k) = HeldIn(mem, s, k)
        BY <3>5, ConcatEmptySeq
      <3> QED
        BY <1>1, <3>3, <3>6 DEF k
    <2>6. Scanning' /\ Converting'
      BY <2>2 DEF Scanning, Converting
    <2>7. Writing'
      BY <1>1, <2>2, <2>4, <2>5 DEF Writing
    <2> QED
      BY <1>4, <2>3, <2>6, <2>7
  <1> QED
    BY <1>5, <1>6

\* jaba_print_int is called.
LEMMA PrintIntIInv ==
    ASSUME IInv, NEW i \in Ints, PrintInt(i)
    PROVE  IInv'
  <1> USE DEF IInv, PrintInt, scratch
  <1>1. errno = "none"
    BY DEF TypeOK
  <1>2. ItoaEnd \in Nat /\ ItoaStart \in Nat /\ ItoaStart + 2 <= ItoaEnd
    BY ConstantsOK
  <1>3. TypeOK'
    BY <1>2, MagnitudeFits DEF TypeOK
  <1>4. StringsKept' /\ OutTyped' /\ Scanning' /\ Writing'
    BY <1>1 DEF StringsKept, OutTyped, Scanning, Writing
  <1>5. Digits[Magnitude(i)] \o HeldIn(mem, ItoaEnd, ItoaEnd - ItoaEnd) = Digits[Magnitude(i)]
    <2>1. ItoaEnd - ItoaEnd = 0
      BY <1>2
    <2>2. HeldIn(mem, ItoaEnd, 0) = <<>>
      BY DEF HeldIn
    <2>3. Digits[Magnitude(i)] \in Seq(Bytes)
      <3> DEFINE m == Magnitude(i)
      <3>1. m \in 0..(Word - 1) /\ Word \in Nat
        BY MagnitudeFits, ConstantsOK
      <3> HIDE DEF m
      <3>2. m \in Nat
        BY ONLY <3>1
      <3>3. Digits[m] \in Seq(Bytes)
        BY ONLY <3>2, DigitsDef
      <3> QED
        BY ONLY <3>3 DEF m
    <2> QED
      BY <2>1, <2>2, <2>3, ConcatEmptySeq
  <1>6. Converting'
    BY <1>2, <1>5, MagnitudeFits DEF Converting
  <1> QED
    BY <1>3, <1>4, <1>6

\* A digit is written.
LEMMA DigitIInv == ASSUME IInv, Digit PROVE IInv'
  <1> USE DEF IInv
  <1>1. /\ pc = "digits" /\ p' = p - 1 /\ n' = n \div 10
        /\ mem' = [mem EXCEPT ![p - 1] = Zero + (n % 10)]
        /\ pc' = IF n' # 0 THEN "digits" ELSE "sign"
        /\ UNCHANGED <<v, s, buf, len, scratch, out, text>>
    BY DEF Digit
  <1>2. /\ ItoaEnd \in Nat /\ ItoaStart \in Nat
        /\ p \in Nat /\ n \in Nat /\ n < Word /\ Word \in Nat /\ errno = "none"
        /\ mem \in [Buffer \cup DOMAIN Strings -> Bytes]
    BY <1>1, ConstantsOK DEF TypeOK
  <1>3. /\ v \in Ints /\ out = <<>> /\ text = Decimal(v) /\ p <= ItoaEnd
        /\ p >= ItoaStart + 2 /\ n < Power10[p - ItoaStart - 1]
        /\ Digits[n] \o HeldIn(mem, p, ItoaEnd - p) = Digits[Magnitude(v)]
    BY <1>1 DEF Converting
  <1> DEFINE j == p - ItoaStart - 1
             x == Zero + (n % 10)
             h == HeldIn(mem, p, ItoaEnd - p)
  <1>4. j \in Nat \ {0} /\ n < Power10[j] /\ j - 1 = p' - ItoaStart - 1
    BY <1>1, <1>2, <1>3
  <1>5. n' \in Nat /\ n % 10 \in 0..9 /\ n' < Power10[j - 1] /\ n' <= n
    <2>1. n \div 10 \in Nat /\ n % 10 \in 0..9 /\ n \div 10 < Power10[j - 1]
      <3> HIDE DEF j
      <3> QED
        BY <1>2, <1>4, DigitLess
    <2>2. n \div 10 <= n
      BY <1>2
    <2> QED
      BY <1>1, <2>1, <2>2
  <1>6. x \in Bytes
    BY <1>5 DEF Zero, Bytes
  <1>7. h \in Seq(Bytes)
    <2>1. ItoaEnd - p \in Nat /\ p \in Nat
      BY <1>2, <1>3
    <2>2. \A b \in p..(p + (ItoaEnd - p) - 1) : mem[b] \in Bytes
      <3>1. p..(p + (ItoaEnd - p) - 1) \subseteq Buffer
        BY <1>2, <1>3 DEF Buffer
      <3> QED
        BY <1>2, <3>1
    <2> QED
      BY <2>1, <2>2, HeldSeq
  <1>8. /\ mem' \in [Buffer \cup DOMAIN Strings -> Bytes]
        /\ \A b \in DOMAIN Strings : mem'[b] = mem[b]
        /\ HeldIn(mem', p', ItoaEnd - p') = <<x>> \o h
    <2>1. p > ItoaStart /\ p <= ItoaEnd
      BY <1>2, <1>3
    <2>2. Replaced(mem, p - 1, x, mem') /\ p' = p - 1
      <3>1. p - 1 \in Buffer /\ mem' = [mem EXCEPT ![p - 1] = x]
        BY <1>1, <1>2, <1>3 DEF Buffer
      <3> HIDE DEF x
      <3>2. Replaced(mem, p - 1, x, [mem EXCEPT ![p - 1] = x])
        BY <1>2, <1>6, <3>1, ReplacedByExcept
      <3> QED
        BY <1>1, <3>1, <3>2
    <2> HIDE DEF x, h
    <2>3. ASSUME NEW m1, Replaced(mem, p - 1, x, m1)
          PROVE  /\ m1 \in [Buffer \cup DOMAIN Strings -> Bytes]
                 /\ \A b \in DOMAIN Strings : m1[b] = mem[b]
                 /\ HeldIn(m1, p - 1, ItoaEnd - (p - 1)) = <<x>> \o h
      BY <1>2, <1>6, <2>1, <2>3, HeldBefore DEF h
    <2> QED
      BY <2>2, <2>3
  <1>9. StringsKept'
    BY <1>8 DEF StringsKept
  <1>10. /\ n' # 0 => Digits[n'] \o HeldIn(mem', p', ItoaEnd - p') = Digits[Magnitude(v)]
         /\ n' = 0 => HeldIn(mem', p', ItoaEnd - p') = Digits[Magnitude(v)]
    <2>1. /\ n \div 10 # 0 => Digits[n] \o h = Digits[n \div 10] \o (<<Zero + (n % 10)>> \o h)
          /\ n \div 10 = 0 => Digits[n] \o h = <<Zero + (n % 10)>> \o h
      <3> HIDE DEF h
      <3> QED
        BY <1>2, <1>7, DigitMoves
    <2> QED
      BY <1>1, <1>3, <1>8, <2>1
  <1>11. p' \in Nat /\ p' > ItoaStart /\ p' <= ItoaEnd
    BY <1>1, <1>2, <1>3
  <1>12. n' # 0 => p' >= ItoaStart + 2 /\ n' < Power10[p' - ItoaStart - 1]
    <2>1. n' # 0 => j - 1 >= 1
      <3> HIDE DEF j
      <3>1. j - 1 \in Nat
        BY <1>4
      <3>2. ASSUME NEW k \in Nat, k < Power10[j - 1], k # 0 PROVE j - 1 >= 1
        BY <3>1, <3>2, NonzeroPower
      <3> QED
        BY <1>5, <3>2
    <2>2. j - 1 = p' - ItoaStart - 1 /\ n' < Power10[j - 1]
      BY <1>4, <1>5
    <2>3. j - 1 >= 1 => p - 1 >= ItoaStart + 2
      BY <1>2
    <2> HIDE DEF j
    <2> QED
      BY <1>1, <2>1, <2>2, <2>3
  <1>13. n' \in 0..(Word - 1)
    BY <1>2, <1>5
  <1>14. TypeOK'
    BY <1>1, <1>2, <1>8, <1>11, <1>13 DEF TypeOK, scratch
  <1>15. Converting'
    BY <1>1, <1>3, <1>10, <1>11, <1>12 DEF Converting
  <1>16. Scanning' /\ Writing' /\ OutTyped'
    BY <1>1, <1>2 DEF Scanning, Writing, OutTyped, scratch
  <1> QED
    BY <1>9, <1>14, <1>15, <1>16

\* The sign is written, if there is one, and write_all is called.
LEMMA SignIInv == ASSUME IInv, Sign PROVE IInv'
  <1> USE DEF IInv
  <1>1. /\ pc = "sign" /\ pc' = "write" /\ buf' = p' /\ len' = ItoaEnd - p'
        /\ UNCHANGED <<v, n, s, scratch, out, text>>
        /\ \/ v < 0 /\ p' = p - 1 /\ mem' = [mem EXCEPT ![p - 1] = Minus]
           \/ v >= 0 /\ p' = p /\ mem' = mem
    BY DEF Sign, WriteAll
  <1>2. /\ ItoaEnd \in Nat /\ ItoaStart \in Nat
        /\ p \in Nat /\ errno = "none"
        /\ mem \in [Buffer \cup DOMAIN Strings -> Bytes]
    BY <1>1, ConstantsOK DEF TypeOK
  <1>3. /\ v \in Ints /\ out = <<>> /\ text = Decimal(v) /\ p <= ItoaEnd
        /\ p > ItoaStart
        /\ HeldIn(mem, p, ItoaEnd - p) = Digits[Magnitude(v)]
    BY <1>1 DEF Converting
  <1>4. Minus \in Bytes /\ v \in Int
    BY <1>3, ConstantsOK DEF Minus, Bytes
  <1>5. /\ mem' \in [Buffer \cup DOMAIN Strings -> Bytes]
        /\ \A b \in DOMAIN Strings : mem'[b] = mem[b]
        /\ HeldIn(mem', p', ItoaEnd - p') = Decimal(v)
        /\ p' \in Nat /\ p' >= ItoaStart /\ p' <= ItoaEnd
    <2>1. CASE v < 0 /\ p' = p - 1 /\ mem' = [mem EXCEPT ![p - 1] = Minus]
      <3>1. /\ mem' \in [Buffer \cup DOMAIN Strings -> Bytes]
            /\ \A b \in DOMAIN Strings : mem'[b] = mem[b]
            /\ HeldIn(mem', p', ItoaEnd - p') = <<Minus>> \o Digits[Magnitude(v)]
        <4>1. ASSUME NEW m1, Replaced(mem, p - 1, Minus, m1)
              PROVE  /\ m1 \in [Buffer \cup DOMAIN Strings -> Bytes]
                     /\ \A b \in DOMAIN Strings : m1[b] = mem[b]
                     /\ HeldIn(m1, p - 1, ItoaEnd - (p - 1))
                          = <<Minus>> \o Digits[Magnitude(v)]
          <5>1. HeldIn(m1, p - 1, ItoaEnd - (p - 1))
                  = <<Minus>> \o HeldIn(mem, p, ItoaEnd - p)
            BY <1>2, <1>3, <1>4, <4>1, HeldBefore, ZenonT(40)
          <5>2. /\ m1 \in [Buffer \cup DOMAIN Strings -> Bytes]
                /\ \A b \in DOMAIN Strings : m1[b] = mem[b]
            <6>1. \A b \in DOMAIN Strings : b # p - 1
              BY <1>2, <1>3, ConstantsOK
            <6> QED
              BY <4>1, <6>1 DEF Replaced
          <5> QED
            BY <1>3, <5>1, <5>2
        <4>2. p - 1 \in Buffer
          BY <1>2, <1>3 DEF Buffer
        <4>3. Replaced(mem, p - 1, Minus, [mem EXCEPT ![p - 1] = Minus])
          BY <1>2, <1>4, <4>2, ReplacedByExcept
        <4> QED
          BY <2>1, <4>1, <4>3
      <3>2. Decimal(v) = <<Minus>> \o Digits[Magnitude(v)]
        BY <1>3, <2>1, DecimalOf
      <3>3. p' \in Nat /\ p' >= ItoaStart /\ p' <= ItoaEnd
        BY <1>2, <1>3, <2>1
      <3> QED
        BY <3>1, <3>2, <3>3
    <2>2. CASE v >= 0 /\ p' = p /\ mem' = mem
      <3>1. Decimal(v) = Digits[Magnitude(v)]
        BY <1>3, <1>4, <2>2, DecimalOf
      <3> QED
        BY <1>2, <1>3, <2>2, <3>1
    <2> QED
      BY <1>1, <2>1, <2>2
  <1>6. /\ ItoaEnd - p' \in Nat /\ p' + (ItoaEnd - p') = ItoaEnd
        /\ p' >= ItoaStart
    <2>1. p' \in Nat /\ p' >= ItoaStart /\ p' <= ItoaEnd
      BY <1>5
    <2>2. ASSUME NEW q \in Nat, q <= ItoaEnd
          PROVE  ItoaEnd - q \in Nat /\ q + (ItoaEnd - q) = ItoaEnd
      BY <1>2, <2>2
    <2> QED
      BY <2>1, <2>2
  <1>7. HeldIn(mem', p', ItoaEnd - p') \in Seq(Bytes)
    <2>1. Magnitude(v) \in Nat /\ Minus \in Bytes
      BY <1>3, <1>4, MagnitudeFits
    <2>2. Digits[Magnitude(v)] \in Seq(Bytes)
      BY <2>1, DigitsDef
    <2>3. <<Minus>> \o Digits[Magnitude(v)] \in Seq(Bytes)
      BY <2>1, <2>2, ConcatProperties
    <2> QED
      BY <1>3, <1>5, <2>2, <2>3, DecimalOf
  <1>8. out \o HeldIn(mem', p', ItoaEnd - p') = text
    BY <1>3, <1>5, <1>7, ConcatEmptySeq
  <1>9. TypeOK'
    BY <1>1, <1>2, <1>5, <1>6 DEF TypeOK, scratch
  <1>10. StringsKept'
    BY <1>5 DEF StringsKept
  <1>11. InRange(p', ItoaEnd - p')
    <2>1. ASSUME NEW q, q + (ItoaEnd - q) = ItoaEnd, q >= ItoaStart
          PROVE  InRange(q, ItoaEnd - q)
      BY <1>2, <2>1 DEF InRange
    <2> QED
      BY <1>6, <2>1
  <1>12. Writing'
    BY <1>1, <1>2, <1>8, <1>11 DEF Writing, scratch
  <1>13. Scanning' /\ Converting' /\ OutTyped'
    BY <1>1 DEF Scanning, Converting, OutTyped
  <1> QED
    BY <1>9, <1>10, <1>12, <1>13

\* The bytes of a range are bytes.
LEMMA RangeBytes ==
    ASSUME TypeOK, NEW a \in Nat, NEW k \in Nat, InRange(a, k)
    PROVE  \A b \in a..(a + k - 1) : mem[b] \in Bytes
  <1>1. mem \in [Buffer \cup DOMAIN Strings -> Bytes]
    BY DEF TypeOK
  <1>2. CASE k = 0
    BY <1>2
  <1>3. CASE a >= ItoaStart /\ a + k <= ItoaEnd
    <2>1. a..(a + k - 1) \subseteq Buffer
      BY <1>3, ConstantsOK DEF Buffer
    <2> QED
      BY <1>1, <2>1
  <1>4. CASE a >= ItoaEnd /\ a..(a + k - 1) \subseteq DOMAIN Strings
    BY <1>1, <1>4
  <1> QED
    BY <1>2, <1>3, <1>4 DEF InRange

\* write_all returns, or calls the host.
LEMMA CallHostIInv == ASSUME IInv, CallHost PROVE IInv'
  <1> USE DEF IInv, scratch
  <1>1. /\ pc = "write" /\ errno = "none" /\ errno' = errno
        /\ UNCHANGED <<mem, v, n, p, s, buf, len, nwritten, out, text>>
        /\ \/ pc' = "idle" /\ iovec' = iovec
           \/ /\ len # 0 /\ pc' = "host" /\ iovec' = [buf |-> buf, len |-> len]
    BY DEF CallHost, Return
  <1>2. InRange(buf, len) /\ out \o HeldIn(mem, buf, len) = text
    BY <1>1 DEF Writing
  <1>3. TypeOK'
    <2>1. iovec' \in [buf : Nat, len : Nat]
      <3>1. buf \in Nat /\ len \in Nat /\ iovec \in [buf : Nat, len : Nat]
        BY DEF TypeOK
      <3> QED
        BY <1>1, <3>1
    <2> QED
      BY <1>1, <2>1 DEF TypeOK
  <1>4. StringsKept' /\ OutTyped' /\ Scanning' /\ Converting'
    BY <1>1 DEF StringsKept, OutTyped, Scanning, Converting
  <1>5. Writing'
    BY <1>1, <1>2 DEF Writing
  <1> QED
    BY <1>3, <1>4, <1>5

\* What the host is given is the whole range that is left.
LEMMA HostRange ==
    ASSUME IInv, pc = "host"
    PROVE  /\ iovec = [buf |-> buf, len |-> len] /\ buf \in Nat /\ len \in Nat
           /\ InRange(buf, len) /\ out \o HeldIn(mem, buf, len) = text
           /\ errno = "none" /\ out \in Seq(Bytes)
           /\ \A b \in buf..(buf + len - 1) : mem[b] \in Bytes
  <1>1. /\ iovec = [buf |-> buf, len |-> len] /\ InRange(buf, len)
        /\ out \o HeldIn(mem, buf, len) = text
    BY DEF IInv, Writing
  <1>2. buf \in Nat /\ len \in Nat /\ errno = "none" /\ out \in Seq(Bytes) /\ TypeOK
    BY DEF IInv, TypeOK, OutTyped
  <1> QED
    BY <1>1, <1>2, RangeBytes

\* The host takes some bytes.
LEMMA HostTakesIInv ==
    ASSUME IInv, NEW k \in Nat, HostTakes(k)
    PROVE  IInv'
  <1> USE DEF IInv
  <1>1. /\ pc = "host" /\ k <= iovec.len
        /\ out' = out \o [i \in 1..k |-> mem[iovec.buf + i - 1]]
        /\ nwritten' = k /\ errno' = "success" /\ pc' = "write"
        /\ UNCHANGED <<mem, v, n, p, s, buf, len, iovec, text>>
    BY DEF HostTakes
  <1>2. /\ iovec = [buf |-> buf, len |-> len] /\ buf \in Nat /\ len \in Nat
        /\ InRange(buf, len) /\ out \o HeldIn(mem, buf, len) = text
        /\ out \in Seq(Bytes)
        /\ \A b \in buf..(buf + len - 1) : mem[b] \in Bytes
    BY <1>1, HostRange
  <1>3. k \in 0..len /\ out' = out \o HeldIn(mem, buf, k)
    BY <1>1, <1>2 DEF HeldIn
  <1>4. HeldIn(mem, buf, k) \in Seq(Bytes)
    <2>1. \A b \in buf..(buf + k - 1) : mem[b] \in Bytes
      BY <1>2, <1>3
    <2> QED
      BY <1>2, <2>1, HeldSeq
  <1>5. HeldIn(mem, buf + k, len - k) \in Seq(Bytes)
    <2> DEFINE c == buf + k
               l == len - k
    <2>1. c \in Nat /\ l \in Nat
      BY <1>2, <1>3
    <2>2. \A b \in c..(c + l - 1) : mem[b] \in Bytes
      BY <1>2, <1>3
    <2> HIDE DEF c, l
    <2>3. HeldIn(mem, c, l) \in Seq(Bytes)
      BY <2>1, <2>2, HeldSeq
    <2> QED
      BY <2>3 DEF c, l
  <1>6. HeldIn(mem, buf, len) = HeldIn(mem, buf, k) \o HeldIn(mem, buf + k, len - k)
    BY <1>2, <1>3, HeldSplit
  <1>7. out' \o HeldIn(mem, buf + k, len - k) = text
    <2> DEFINE x == HeldIn(mem, buf, k)
               y == HeldIn(mem, buf + k, len - k)
    <2>1. x \in Seq(Bytes) /\ y \in Seq(Bytes) /\ out \in Seq(Bytes)
      BY <1>2, <1>4, <1>5
    <2> HIDE DEF x, y
    <2>2. (out \o x) \o y = out \o (x \o y)
      BY <2>1, ConcatAssociative
    <2>3. out \o HeldIn(mem, buf, len) = out \o (x \o y)
      BY <1>6 DEF x, y
    <2>4. out' \o y = (out \o x) \o y
      BY <1>3 DEF x
    <2>5. out' \o y = text
      BY <1>2, <2>2, <2>3, <2>4
    <2> QED
      BY <2>5 DEF y
  <1>8. out' \in Seq(Bytes)
    BY <1>2, <1>3, <1>4, ConcatProperties
  <1>9. TypeOK'
    BY <1>1 DEF TypeOK
  <1>10. Writing'
    BY <1>1, <1>2, <1>3, <1>7 DEF Writing
  <1>11. StringsKept' /\ OutTyped' /\ Scanning' /\ Converting'
    BY <1>1, <1>8 DEF StringsKept, OutTyped, Scanning, Converting
  <1> QED
    BY <1>9, <1>10, <1>11

\* The host fails.
LEMMA HostFailsIInv == ASSUME IInv, HostFails PROVE IInv'
  <1> USE DEF IInv, HostFails
  <1>1. TypeOK'
    BY DEF TypeOK
  <1>2. Writing'
    BY DEF Writing
  <1>3. StringsKept' /\ OutTyped' /\ Scanning' /\ Converting'
    BY DEF StringsKept, OutTyped, Scanning, Converting
  <1> QED
    BY <1>1, <1>2, <1>3

\* write_all gives up, or goes on after the bytes written.
LEMMA AdvanceIInv == ASSUME IInv, Advance PROVE IInv'
  <1> USE DEF IInv
  <1>1. /\ pc = "write" /\ errno # "none" /\ errno' = "none"
        /\ UNCHANGED <<mem, v, n, p, s, iovec, nwritten, out, text>>
        /\ \/ pc' = "idle" /\ buf' = buf /\ len' = len
           \/ /\ errno = "success" /\ pc' = pc
              /\ buf' = buf + nwritten /\ len' = len - nwritten
    BY DEF Advance
  <1>2. buf \in Nat /\ len \in Nat /\ InRange(buf, len)
    BY <1>1 DEF TypeOK, Writing
  <1>3. StringsKept' /\ OutTyped' /\ Scanning' /\ Converting'
    BY <1>1 DEF StringsKept, OutTyped, Scanning, Converting
  <1>4. CASE pc' = "idle" /\ buf' = buf /\ len' = len
    BY <1>1, <1>3, <1>4 DEF TypeOK, Writing
  <1>5. CASE /\ errno = "success" /\ pc' = pc
             /\ buf' = buf + nwritten /\ len' = len - nwritten
    <2>1. /\ nwritten \in 0..len
          /\ out \o HeldIn(mem, buf + nwritten, len - nwritten) = text
      BY <1>5 DEF Writing
    <2>2. /\ buf + nwritten \in Nat /\ len - nwritten \in Nat
          /\ InRange(buf + nwritten, len - nwritten)
      <3> DEFINE a == buf + nwritten
                 k == len - nwritten
      <3>1. a \in Nat /\ k \in Nat /\ a >= buf /\ a + k = buf + len
        BY <1>2, <2>1
      <3>2. len = 0 => k = 0
        <4>1. nwritten \in Int /\ 0 <= nwritten /\ nwritten <= len
          BY <1>2, <2>1
        <4>2. ASSUME len < 1 PROVE len - nwritten = 0
          BY <1>2, <4>1, <4>2
        <4>3. len = 0 => len < 1
          BY <1>2
        <4> QED
          BY <4>2, <4>3
      <3>3. a..(a + k - 1) \subseteq buf..(buf + len - 1)
        BY <1>2, <2>1
      <3>4. ItoaStart \in Nat /\ ItoaEnd \in Nat
        BY ConstantsOK
      <3> HIDE DEF a, k
      <3>5. InRange(a, k)
        BY <1>2, <3>1, <3>2, <3>3, <3>4 DEF InRange
      <3> QED
        BY <3>1, <3>5 DEF a, k
    <2>3. TypeOK'
      BY <1>1, <1>5, <2>2 DEF TypeOK
    <2>4. Writing'
      BY <1>1, <1>5, <2>1, <2>2 DEF Writing
    <2> QED
      BY <1>3, <2>3, <2>4
  <1> QED
    BY <1>1, <1>4, <1>5

\* Every step keeps the invariant.
LEMMA NextIInv == IInv /\ [Next]_vars => IInv'
  <1> SUFFICES ASSUME IInv, [Next]_vars PROVE IInv'
    OBVIOUS
  <1>1. ASSUME NEW a \in DOMAIN Strings, PrintStr(a) PROVE IInv'
    BY <1>1, PrintStrIInv
  <1>2. ASSUME NEW i \in Ints, PrintInt(i) PROVE IInv'
    BY <1>2, PrintIntIInv
  <1>3. ASSUME NEW k \in 0..iovec.len, HostTakes(k) PROVE IInv'
    <2>1. k \in Nat
      BY <1>3 DEF IInv, TypeOK
    <2> QED
      BY <1>3, <2>1, HostTakesIInv
  <1>4. CASE Scan
    BY <1>4, ScanIInv
  <1>5. CASE Digit
    BY <1>5, DigitIInv
  <1>6. CASE Sign
    BY <1>6, SignIInv
  <1>7. CASE CallHost
    BY <1>7, CallHostIInv
  <1>8. CASE HostFails
    BY <1>8, HostFailsIInv
  <1>9. CASE Advance
    BY <1>9, AdvanceIInv
  <1>10. CASE UNCHANGED vars
    <2> USE <1>10 DEF vars, IInv
    <2>1. TypeOK' /\ StringsKept' /\ OutTyped'
      BY DEF TypeOK, StringsKept, OutTyped
    <2>2. Scanning' /\ Converting' /\ Writing'
      BY DEF Scanning, Converting, Writing
    <2> QED
      BY <2>1, <2>2
  <1> QED
    BY <1>1, <1>2, <1>3, <1>4, <1>5, <1>6, <1>7, <1>8, <1>9, <1>10
       DEF Next, Runs, HostAnswers

-----------------------------------------------------------------------------
(* The theorems. *)

\* The inductive invariant holds of every sequence of prints.
THEOREM Invariant == Spec => []IInv
  BY InitIInv, NextIInv, PTL DEF Spec

\* The variables of the runtime have the types of the wasm locals and cells,
\* and fd_write's result is looked at before anything else happens.
THEOREM TypeCorrect == Spec => []TypeOK
  <1>1. IInv => TypeOK
    BY DEF IInv
  <1> QED
    BY <1>1, Invariant, PTL

\* jaba_print_int stays within its buffer for every i64, the most negative
\* one too, no print changes a string, and fd_write is given ranges of the
\* buffer or of the strings only.
THEOREM PrintingStaysInBuffer == Spec => []BufferSafe
  <1>1. IInv => BufferSafe
    <2> SUFFICES ASSUME IInv PROVE BufferSafe
      OBVIOUS
    <2>1. ItoaStart \in Nat /\ ItoaEnd \in Nat
      BY ConstantsOK
    <2>2. p \in Nat /\ StringsKept /\ Converting
      BY DEF IInv, TypeOK
    <2>3. /\ pc \in {"digits", "sign"} => p <= ItoaEnd
          /\ pc = "digits" => p >= ItoaStart + 2
          /\ pc = "sign" => p > ItoaStart
      BY <2>2 DEF Converting
    <2>4. pc \in {"digits", "sign"} => p > ItoaStart
      BY <2>1, <2>2, <2>3
    <2>5. pc \in {"digits", "sign"} => p \in ItoaStart..ItoaEnd
      BY <2>1, <2>2, <2>3, <2>4
    <2>6. /\ pc = "digits" => p > ItoaStart
          /\ pc = "sign" /\ v < 0 => p > ItoaStart
      BY <2>4
    <2>7. ASSUME pc = "host"
          PROVE  iovec.buf..(iovec.buf + iovec.len - 1) \subseteq
                    (IF iovec.buf < ItoaEnd THEN Buffer ELSE DOMAIN Strings)
      <3>1. /\ iovec.buf = buf /\ iovec.len = len /\ buf \in Nat /\ len \in Nat
            /\ InRange(buf, len)
        BY <2>7, HostRange
      <3>2. CASE len = 0
        BY <3>1, <3>2
      <3>3. CASE buf >= ItoaStart /\ buf + len <= ItoaEnd /\ len # 0
        BY <2>1, <3>1, <3>3 DEF Buffer
      <3>4. CASE buf >= ItoaEnd /\ buf..(buf + len - 1) \subseteq DOMAIN Strings
        BY <2>1, <3>1, <3>4
      <3> QED
        BY <3>1, <3>2, <3>3, <3>4 DEF InRange
    <2> QED
      BY <2>2, <2>5, <2>6, <2>7 DEF BufferSafe, StringsKept
  <1> QED
    BY <1>1, Invariant, PTL

\* What the host has taken and what write_all has left make up the text, the
\* string or the decimal numeral, after any short write or failure.
THEOREM NothingLost == Spec => []NothingLostOrRepeated
  <1>1. IInv => NothingLostOrRepeated
    <2> SUFFICES ASSUME IInv PROVE NothingLostOrRepeated
      OBVIOUS
    <2>1. ASSUME pc = "write", errno = "none" PROVE out \o Held(buf, len) = text
      BY <2>1 DEF IInv, Writing, Held, HeldIn
    <2>2. ASSUME pc = "host" PROVE out \o Held(iovec.buf, iovec.len) = text
      <3>1. /\ iovec.buf = buf /\ iovec.len = len
            /\ out \o HeldIn(mem, buf, len) = text
        BY <2>2, HostRange
      <3> QED
        BY <3>1 DEF Held, HeldIn
    <2> QED
      BY <2>1, <2>2 DEF NothingLostOrRepeated
  <1> QED
    BY <1>1, Invariant, PTL

-----------------------------------------------------------------------------
(* Refinement of AbstractOutput. *)

\* The host's bytes and the rest are the text: taking some of the rest is
\* taking the next bytes of the text.
LEMMA TakeNext ==
    ASSUME NEW o \in Seq(Bytes), NEW x \in Seq(Bytes), NEW y \in Seq(Bytes)
    PROVE  /\ Len(o \o (x \o y)) = Len(o) + Len(x) + Len(y)
           /\ o \o x = SubSeq(o \o (x \o y), 1, Len(o) + Len(x))
  <1> DEFINE z == o \o x
             t == z \o y
  <1>1. (o \o x) \o y = o \o (x \o y)
    BY ConcatAssociative
  <1>2. t = o \o (x \o y)
    BY <1>1
  <1>3. z \in Seq(Bytes) /\ Len(z) = Len(o) + Len(x)
    BY ConcatProperties
  <1>4. Len(z) \in Nat /\ Len(y) \in Nat /\ Len(o) \in Nat /\ Len(x) \in Nat
    <2> HIDE DEF z
    <2> QED
      BY <1>3, LenProperties
  <1>5. /\ t \in Seq(Bytes) /\ Len(t) = Len(z) + Len(y)
        /\ \A i \in 1..(Len(z) + Len(y)) :
              t[i] = IF i <= Len(z) THEN z[i] ELSE y[i - Len(z)]
    <2> HIDE DEF z
    <2>1. ASSUME NEW q \in Seq(Bytes)
          PROVE  /\ q \o y \in Seq(Bytes) /\ Len(q \o y) = Len(q) + Len(y)
                 /\ \A i \in 1..(Len(q) + Len(y)) :
                       (q \o y)[i] = IF i <= Len(q) THEN q[i] ELSE y[i - Len(q)]
      BY ConcatProperties
    <2> QED
      BY <1>3, <2>1
  <1> HIDE DEF z, t
  <1> DEFINE u == SubSeq(t, 1, Len(z))
  <1>6. u = [i \in 1..Len(z) |-> t[i]]
    BY <1>4, <1>5
  <1>7. u \in Seq(Bytes) /\ Len(u) = Len(z) /\ \A i \in 1..Len(z) : u[i] = z[i]
    BY <1>3, <1>4, <1>5, <1>6, ElementOfSeq
  <1>8. z = u
    <2> HIDE DEF u
    <2> QED
      BY <1>3, <1>7, SameSequence
  <1>9. o \o x = SubSeq(t, 1, Len(o) + Len(x))
    BY <1>3, <1>8 DEF z
  <1>10. Len(t) = Len(o) + Len(x) + Len(y)
    BY <1>3, <1>5
  <1> QED
    BY <1>2, <1>9, <1>10

\* A print that begins, is at work, was refused or ends.
LEMMA StepImplements ==
    ASSUME IInv, [Next]_vars
    PROVE  [Abstract!Next]_(Abstract!vars)
  <1> USE DEF Abstract!vars, Status
  <1>1. errno \in {"none", "success", "error"} /\ (errno # "none" => pc = "write")
    BY DEF IInv, TypeOK
  <1>2. ASSUME NEW a \in DOMAIN Strings, PrintStr(a) PROVE Abstract!BeginPrint
    BY <1>1, <1>2 DEF PrintStr, scratch, Abstract!BeginPrint
  <1>3. ASSUME NEW i \in Ints, PrintInt(i) PROVE Abstract!BeginPrint
    BY <1>1, <1>3 DEF PrintInt, scratch, Abstract!BeginPrint
  <1>4. CASE Scan
    BY <1>1, <1>4 DEF Scan, WriteAll, scratch
  <1>5. CASE Digit
    BY <1>1, <1>5 DEF Digit, scratch
  <1>6. CASE Sign
    BY <1>1, <1>6 DEF Sign, WriteAll, scratch
  <1>7. CASE CallHost
    <2>1. /\ pc = "write" /\ errno = "none" /\ errno' = errno
          /\ nwritten' = nwritten /\ out' = out /\ text' = text
          /\ (pc' = "idle" /\ len = 0) \/ pc' = "host"
      BY <1>7 DEF CallHost, Return, scratch
    <2>2. CASE pc' = "host"
      BY <2>1, <2>2
    <2>3. CASE pc' = "idle" /\ len = 0
      <3>1. out \o HeldIn(mem, buf, 0) = text
        BY <2>1, <2>3 DEF IInv, Writing
      <3>2. HeldIn(mem, buf, 0) = <<>>
        BY DEF HeldIn
      <3>3. out = text
        BY <3>1, <3>2, ConcatEmptySeq DEF IInv, OutTyped
      <3> QED
        BY <2>1, <2>3, <3>3 DEF Abstract!Next, Abstract!End
    <2> QED
      BY <2>1, <2>2, <2>3
  <1>8. ASSUME NEW k \in 0..iovec.len, HostTakes(k)
        PROVE  [Abstract!Next]_(Abstract!vars)
    <2>1. /\ pc = "host" /\ pc' = "write" /\ errno' = "success" /\ nwritten' = k
          /\ text' = text /\ k <= iovec.len
          /\ out' = out \o [i \in 1..k |-> mem[iovec.buf + i - 1]]
      BY <1>8 DEF HostTakes
    <2>2. /\ iovec = [buf |-> buf, len |-> len] /\ buf \in Nat /\ len \in Nat
          /\ out \o HeldIn(mem, buf, len) = text
          /\ errno = "none" /\ out \in Seq(Bytes)
          /\ \A b \in buf..(buf + len - 1) : mem[b] \in Bytes
      BY <2>1, HostRange
    <2>3. k \in 0..len /\ out' = out \o HeldIn(mem, buf, k)
      BY <2>1, <2>2 DEF HeldIn
    <2>4. CASE k = 0
      <3>1. HeldIn(mem, buf, 0) = <<>>
        BY DEF HeldIn
      <3>2. out' = out
        BY <2>2, <2>3, <2>4, <3>1, ConcatEmptySeq
      <3> QED
        BY <2>1, <2>2, <2>4, <3>2 DEF Abstract!Next, Abstract!Refuse
    <2>5. CASE k # 0
      <3> DEFINE x == HeldIn(mem, buf, k)
                 y == HeldIn(mem, buf + k, len - k)
                 c == buf + k
                 l == len - k
      <3>1. x \in Seq(Bytes) /\ Len(x) = k
        <4>1. \A b \in buf..(buf + k - 1) : mem[b] \in Bytes
          BY <2>2, <2>3
        <4> QED
          BY <2>2, <4>1, HeldSeq
      <3>2. c \in Nat /\ l \in Nat /\ \A b \in c..(c + l - 1) : mem[b] \in Bytes
        BY <2>2, <2>3
      <3>3. y \in Seq(Bytes) /\ Len(y) = l
        <4> HIDE DEF c, l
        <4>1. HeldIn(mem, c, l) \in Seq(Bytes) /\ Len(HeldIn(mem, c, l)) = l
          BY <3>2, HeldSeq
        <4> QED
          BY <4>1 DEF c, l
      <3>4. HeldIn(mem, buf, len) = x \o y
        BY <2>2, <2>3, HeldSplit
      <3> HIDE DEF x, y, c, l
      <3>5. out' = out \o x /\ out \o (x \o y) = text
        BY <2>2, <2>3, <3>4 DEF x
      <3>6. /\ Len(text) = Len(out) + Len(x) + Len(y)
            /\ out \o x = SubSeq(text, 1, Len(out) + Len(x))
        <4>1. /\ Len(out \o (x \o y)) = Len(out) + Len(x) + Len(y)
              /\ out \o x = SubSeq(out \o (x \o y), 1, Len(out) + Len(x))
          <5>1. out \in Seq(Bytes) /\ x \in Seq(Bytes) /\ y \in Seq(Bytes)
            BY <2>2, <3>1, <3>3
          <5> QED
            BY ONLY <5>1, TakeNext
        <4> QED
          BY <3>5, <4>1
      <3>7. Len(out) \in Nat /\ Len(x) \in Nat \ {0} /\ Len(y) \in Nat
        BY <2>2, <2>3, <2>5, <3>1, <3>2, <3>3, LenProperties
      <3>8. Len(out) + Len(x) \in (Len(out) + 1)..Len(text)
        BY <3>6, <3>7
      <3>9. \E j \in (Len(out) + 1)..Len(text) : out' = SubSeq(text, 1, j)
        BY <3>5, <3>6, <3>8
      <3> QED
        BY <2>1, <2>2, <2>5, <3>9 DEF Abstract!Next, Abstract!Take
    <2> QED
      BY <2>4, <2>5
  <1>9. CASE HostFails
    BY <1>1, <1>9 DEF HostFails, Abstract!Next, Abstract!Refuse
  <1>10. CASE Advance
    BY <1>1, <1>10 DEF Advance, Abstract!Next, Abstract!End
  <1>11. CASE UNCHANGED vars
    BY <1>11 DEF vars
  <1> QED
    BY <1>2, <1>3, <1>4, <1>5, <1>6, <1>7, <1>8, <1>9, <1>10, <1>11
       DEF Next, Runs, HostAnswers, Abstract!Next

\* Every behaviour of the runtime is one that AbstractOutput allows, the
\* fairness of ImplementsOutput aside: the host gets prefixes of the text,
\* longer and longer, and a print ends with all of it or after a refusal.
THEOREM Implements == Spec => Abstract!Init /\ [][Abstract!Next]_(Abstract!vars)
  <1>1. Init => Abstract!Init
    BY DEF Init, Abstract!Init, Status
  <1>2. IInv /\ [Next]_vars => [Abstract!Next]_(Abstract!vars)
    BY StepImplements
  <1> QED
    BY <1>1, <1>2, Invariant, PTL DEF Spec
=============================================================================
