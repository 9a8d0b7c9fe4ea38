---------------------------- MODULE LayoutProofs ----------------------------
(***************************************************************************)
(* What TLAPS proves of where things lie: of the struct layout pass, for   *)
(* every list of declarations, every field list and every nesting of       *)
(* arrays and pointers, and of the memory map and the frames, for every    *)
(* program, alignment and size of bytes that satisfy ConstantsOK.          *)
(***************************************************************************)
EXTENDS StructLayout, DataLayout, Arithmetic, SequenceTheorems, TLAPS

-----------------------------------------------------------------------------
(* Sizes and alignments. *)

FieldTypes == [wrap : Seq(Nat \cup {Ptr}), leaf : STRING]

\* Built-in types and pointers have sizes.
LEMMA BasicSizes ==
    /\ \A b \in Builtins : BuiltinSize[b] \in {1, 2, 4, 8}
    /\ PointerSize \in {1, 2, 4, 8} /\ PointerSize \in Nat
  <1>1. /\ \A b \in Builtins : BuiltinSize[b] \in {1, 2, 4, 8}
        /\ PointerSize \in {1, 2, 4, 8}
    BY SizesArePowersOfTwo DEF Builtins
  <1>2. PointerSize \in Nat
    BY <1>1
  <1> QED
    BY <1>1, <1>2

\* The sizes of a type and of what it wraps are what their recursive
\* definition says.
LEMMA SizesDef ==
    ASSUME NEW t \in FieldTypes, NEW ly, LeafSize(t.leaf, ly) \in Nat
    PROVE  LET n == Len(t.wrap)
               size == SizesFrom(t, ly)
           IN  /\ n \in Nat
               /\ \A i \in 1..(n + 1) :
                     /\ size[i] \in Nat
                     /\ size[i] = IF i = n + 1 THEN LeafSize(t.leaf, ly)
                                  ELSE IF t.wrap[i] = Ptr THEN PointerSize
                                  ELSE t.wrap[i] * size[i + 1]
  <1> DEFINE n == Len(t.wrap)
             z == LeafSize(t.leaf, ly)
             w(k) == t.wrap[n + 1 - k]
             H(k, v) == IF k \notin 1..n THEN 0 ELSE IF w(k) = Ptr THEN PointerSize ELSE w(k) * v
             h == [x \in Nat \X Nat |-> H(x[1], x[2])]
  <1>1. t.wrap \in Seq(Nat \cup {Ptr}) /\ n \in Nat /\ z \in Nat
    BY LenProperties DEF FieldTypes
  <1>2. \A i \in 1..n : t.wrap[i] \in Nat \cup {Ptr}
    BY <1>1, ElementOfSeq
  <1> HIDE DEF n, z
  <1>3. ASSUME NEW k \in Nat, NEW v \in Nat PROVE H(k, v) \in Nat
    <2>1. CASE k \notin 1..n
      BY <2>1
    <2>2. CASE k \in 1..n
      <3>1. n + 1 - k \in 1..n
        BY <1>1, <2>2
      <3>2. w(k) \in Nat \cup {Ptr}
        BY <1>2, <3>1
      <3> QED
        BY <2>2, <3>2, BasicSizes
    <2> QED
      BY <2>1, <2>2
  <1>4. h \in [Nat \X Nat -> Nat]
    <2> HIDE DEF H
    <2> QED
      BY <1>3
  <1>5. PICK f : CountsUp(f, Nat, z, h)
    <2> HIDE DEF h
    <2> QED
      BY <1>1, <1>4, RecursionFromZero
  <1>6. f \in [Nat -> Nat] /\ f[0] = z /\ \A k \in Nat \ {0} : f[k] = H(k, f[k - 1])
    <2>1. f \in [Nat -> Nat] /\ f[0] = z /\ \A k \in Nat \ {0} : f[k] = h[<<k, f[k - 1]>>]
      <3> HIDE DEF h
      <3> QED
        BY <1>5 DEF CountsUp
    <2>2. \A k \in Nat \ {0} : h[<<k, f[k - 1]>>] = H(k, f[k - 1])
      <3> TAKE k \in Nat \ {0}
      <3>1. f[k - 1] \in Nat
        BY <2>1
      <3> HIDE DEF H
      <3> QED
        BY <3>1
    <2> HIDE DEF h, H
    <2> QED
      BY <2>1, <2>2
  <1> DEFINE E(g, i) == IF i = n + 1 THEN z
                        ELSE IF t.wrap[i] = Ptr THEN PointerSize ELSE t.wrap[i] * g[i + 1]
             g0 == [i \in 1..(n + 1) |-> f[n + 1 - i]]
             size == SizesFrom(t, ly)
  <1>7. \A i \in 1..(n + 1) : g0[i] = E(g0, i) /\ g0[i] \in Nat
    <2> TAKE i \in 1..(n + 1)
    <2>1. n + 1 - i \in Nat /\ g0[i] = f[n + 1 - i]
      BY <1>1
    <2>2. CASE i = n + 1
      <3>1. n + 1 - i = 0
        BY <1>1, <2>2
      <3> HIDE DEF g0
      <3> QED
        BY <1>1, <1>6, <2>1, <2>2, <3>1
    <2>3. CASE i # n + 1
      <3>1. /\ n + 1 - i \in 1..n /\ n + 1 - (n + 1 - i) = i /\ n + 1 - i - 1 = n + 1 - (i + 1)
            /\ i + 1 \in 1..(n + 1) /\ n + 1 - i # 0
        BY <1>1, <2>3
      <3>2. g0[i + 1] = f[n + 1 - (i + 1)]
        BY <3>1
      <3> HIDE DEF g0
      <3>3. f[n + 1 - i] = IF t.wrap[i] = Ptr THEN PointerSize ELSE t.wrap[i] * f[n + 1 - (i + 1)]
        <4> DEFINE k == n + 1 - i
        <4>1. k \in 1..n /\ k \in Nat \ {0} /\ n + 1 - k = i /\ k - 1 = n + 1 - (i + 1)
          BY <1>1, <3>1
        <4> HIDE DEF k
        <4>2. f[k] = H(k, f[k - 1])
          BY <1>6, <4>1
        <4>3. f[k] = IF w(k) = Ptr THEN PointerSize ELSE w(k) * f[k - 1]
          BY <4>1, <4>2
        <4>4. f[k] = IF t.wrap[i] = Ptr THEN PointerSize ELSE t.wrap[i] * f[n + 1 - (i + 1)]
          BY ONLY <4>1, <4>3
        <4> QED
          BY <4>4 DEF k
      <3> QED
        BY <1>6, <2>1, <2>3, <3>2, <3>3
    <2> QED
      BY <2>2, <2>3
  <1>8. g0 = [i \in 1..(n + 1) |-> E(g0, i)]
    <2> HIDE DEF E
    <2> QED
      BY <1>7
  <1>9. size = CHOOSE g : g = [i \in 1..(n + 1) |-> E(g, i)]
    BY DEF SizesFrom, n, z
  <1>10. size = [i \in 1..(n + 1) |-> E(size, i)]
    <2> HIDE DEF E, g0, size
    <2> QED
      BY <1>8, <1>9
  <1> HIDE DEF size
  <1>11. \A i \in 1..(n + 1) : size[i] = E(size, i)
    BY <1>10
  <1> DEFINE S == {k \in Nat : k <= n => size[n + 1 - k] \in Nat}
  <1>12. 0 \in S
    <2>1. n + 1 - 0 = n + 1 /\ n + 1 \in 1..(n + 1)
      BY <1>1
    <2> QED
      BY <1>1, <1>11, <2>1
  <1>13. \A k \in Nat : k \in S => k + 1 \in S
    <2> SUFFICES ASSUME NEW k \in Nat, k \in S, k + 1 <= n PROVE size[n + 1 - (k + 1)] \in Nat
      OBVIOUS
    <2> DEFINE i == n + 1 - (k + 1)
    <2>1. i \in 1..n /\ i \in 1..(n + 1) /\ i + 1 = n + 1 - k /\ i # n + 1
      BY <1>1
    <2>2. size[n + 1 - k] \in Nat
      BY <1>1
    <2> HIDE DEF i
    <2>3. size[i] = IF t.wrap[i] = Ptr THEN PointerSize ELSE t.wrap[i] * size[i + 1]
      BY <1>11, <2>1
    <2>4. size[i] \in Nat
      BY <1>2, <2>1, <2>2, <2>3, BasicSizes
    <2> QED
      BY <2>4 DEF i
  <1>14. Nat \subseteq S
    <2> HIDE DEF S
    <2> QED
      BY <1>12, <1>13, Induction
  <1>15. ASSUME NEW i \in 1..(n + 1) PROVE size[i] \in Nat
    <2>1. n + 1 - i \in Nat /\ n + 1 - i <= n /\ n + 1 - (n + 1 - i) = i
      BY <1>1
    <2> QED
      BY <1>14, <2>1
  <1> QED
    BY <1>1, <1>11, <1>15 DEF size, n, z

\* The size of a type is a natural number, and is that of a pointer if the
\* last wrapper is one and there is no other.
LEMMA SizeNat ==
    ASSUME NEW t \in FieldTypes, NEW ly, LeafSize(t.leaf, ly) \in Nat
    PROVE  Size(t, ly) \in Nat
  <1> DEFINE n == Len(t.wrap)
             size == SizesFrom(t, ly)
  <1>1. n \in Nat /\ \A i \in 1..(n + 1) : size[i] \in Nat
    BY SizesDef
  <1> HIDE DEF n, size
  <1>2. size[1] \in Nat
    BY <1>1
  <1> QED
    BY <1>2 DEF Size, size

\* A type that does not ask for the layout of its leaf has a size that does not
\* depend on it.
LEMMA SizeIndependent ==
    ASSUME NEW t \in FieldTypes, NEW ly, NEW ly2,
           LeafSize(t.leaf, ly) \in Nat, LeafSize(t.leaf, ly2) \in Nat,
           LeafSize(t.leaf, ly) = LeafSize(t.leaf, ly2)
           \/ \E i \in DOMAIN t.wrap : t.wrap[i] = Ptr /\ ~(i < Len(t.wrap))
    PROVE  Size(t, ly) = Size(t, ly2)
  <1> DEFINE n == Len(t.wrap)
             z == SizesFrom(t, ly)
             z2 == SizesFrom(t, ly2)
  <1>1. /\ n \in Nat
        /\ \A i \in 1..(n + 1) :
              /\ z[i] \in Nat
              /\ z[i] = IF i = n + 1 THEN LeafSize(t.leaf, ly)
                        ELSE IF t.wrap[i] = Ptr THEN PointerSize ELSE t.wrap[i] * z[i + 1]
        /\ \A i \in 1..(n + 1) :
              /\ z2[i] \in Nat
              /\ z2[i] = IF i = n + 1 THEN LeafSize(t.leaf, ly2)
                         ELSE IF t.wrap[i] = Ptr THEN PointerSize ELSE t.wrap[i] * z2[i + 1]
    BY SizesDef
  <1>2. CASE LeafSize(t.leaf, ly) = LeafSize(t.leaf, ly2)
    BY <1>2 DEF Size, SizesFrom
  <1>3. CASE \E i \in DOMAIN t.wrap : t.wrap[i] = Ptr /\ ~(i < Len(t.wrap))
    <2>1. DOMAIN t.wrap = 1..n
      BY LenProperties DEF FieldTypes
    <2>2. n \in 1..n /\ t.wrap[n] = Ptr
      <3>1. PICK i \in 1..n : t.wrap[i] = Ptr /\ ~(i < n)
        BY <1>3, <2>1
      <3>2. i = n
        BY <1>1, <3>1
      <3> QED
        BY <3>1, <3>2
    <2> HIDE DEF n, z, z2
    <2> DEFINE S == {k \in Nat : k < n => z[n - k] = z2[n - k]}
    <2>3. 0 \in S
      <3>1. n - 0 = n /\ n \in 1..(n + 1) /\ n # n + 1
        BY <1>1, <2>2
      <3>2. z[n] = PointerSize /\ z2[n] = PointerSize
        BY <1>1, <2>2, <3>1
      <3> QED
        BY <3>1, <3>2
    <2>4. \A k \in Nat : k \in S => k + 1 \in S
      <3> SUFFICES ASSUME NEW k \in Nat, k \in S, k + 1 < n PROVE z[n - (k + 1)] = z2[n - (k + 1)]
        OBVIOUS
      <3> DEFINE i == n - (k + 1)
      <3>1. i \in 1..(n + 1) /\ i # n + 1 /\ i + 1 = n - k /\ k < n
        BY <1>1
      <3>2. z[n - k] = z2[n - k]
        BY <3>1
      <3> HIDE DEF i
      <3>3. z[i] = z2[i]
        BY <1>1, <3>1, <3>2
      <3> QED
        BY <3>3 DEF i
    <2>5. Nat \subseteq S
      <3> HIDE DEF S
      <3> QED
        BY <2>3, <2>4, Induction
    <2>6. n - 1 \in Nat /\ n - 1 < n /\ n - (n - 1) = 1
      BY <1>1, <2>2
    <2>7. z[1] = z2[1]
      BY <2>5, <2>6
    <2> QED
      BY <2>7 DEF Size, z, z2
  <1> QED
    BY <1>2, <1>3

\* Rounding up to an alignment.
LEMMA AlignedUp ==
    ASSUME NEW m \in Nat, NEW a \in Nat
    PROVE  /\ AlignUp(m, a) \in Nat
           /\ a # 0 => /\ AlignUp(m, a) % a = 0
                       /\ m <= AlignUp(m, a) /\ AlignUp(m, a) < m + a
  <1>1. CASE a = 0
    BY <1>1 DEF AlignUp
  <1>2. CASE a # 0
    <2> DEFINE c == (m + a - 1) \div a
    <2>1. c \in Nat /\ m <= a * c /\ a * c < m + a
      BY <1>2, CeilingDivision
    <2>2. AlignUp(m, a) = c * a
      BY <1>2 DEF AlignUp
    <2> HIDE DEF c
    <2>3. c * a = a * c /\ a * c \in Nat
      BY <2>1
    <2>4. (a * c) % a = 0
      BY <1>2, <2>1, MultipleMod
    <2> QED
      BY <2>1, <2>2, <2>3, <2>4
  <1> QED
    BY <1>1, <1>2

\* The alignments there are.
Alignments == {1, 2, 4, 8}

\* The largest of some alignments is a multiple of each.
LEMMA LargestAlignment ==
    ASSUME NEW A, A \subseteq Alignments \cup {0}
    PROVE  /\ Max({1} \cup A) \in Alignments
           /\ \A a \in A : a # 0 => Max({1} \cup A) % a = 0
  <1> DEFINE S == {1} \cup A
  <1>1. \E x \in S : \A y \in S : x >= y
    <2>1. CASE 8 \in S
      BY <2>1 DEF Alignments
    <2>2. CASE 8 \notin S /\ 4 \in S
      BY <2>2 DEF Alignments
    <2>3. CASE 8 \notin S /\ 4 \notin S /\ 2 \in S
      BY <2>3 DEF Alignments
    <2>4. CASE 8 \notin S /\ 4 \notin S /\ 2 \notin S
      BY <2>4 DEF Alignments
    <2> QED
      BY <2>1, <2>2, <2>3, <2>4
  <1>2. Max(S) \in S /\ \A y \in S : Max(S) >= y
    <2> HIDE DEF S
    <2> QED
      BY <1>1 DEF Max
  <1> DEFINE x == Max(S)
  <1>3. x \in S /\ (\A y \in S : x >= y) /\ 1 \in S /\ A \subseteq S /\ S \subseteq Alignments \cup {0}
    BY <1>2 DEF Alignments
  <1> HIDE DEF x, S
  <1>4. x \in Alignments
    BY <1>3 DEF Alignments
  <1>5. ASSUME NEW a \in A, a # 0 PROVE x % a = 0
    <2>1. a \in Alignments /\ a <= x
      BY <1>3, <1>5 DEF Alignments
    <2>2. \A u \in Alignments : \A v \in Alignments : v <= u => u % v = 0
      BY DEF Alignments
    <2> QED
      BY <1>4, <2>1, <2>2
  <1> QED
    BY <1>4, <1>5 DEF x, S

-----------------------------------------------------------------------------
(* Struct.SetFields. *)

\* What SetFields makes of fields of these sizes and alignments.
SetOK(fields, ly, r) ==
    LET A(i) == Align(fields[i].type, ly)
        Z(i) == Size(fields[i].type, ly)
        End(i) == IF i = 0 THEN 0 ELSE r.fields[i].offset + Z(i)
    IN  /\ DOMAIN r.fields = 1..Len(fields) /\ Len(r.fields) = Len(fields)
        /\ r.size \in Nat /\ r.align \in Alignments
        /\ \A i \in 1..Len(fields) : r.fields[i].type = fields[i].type /\ r.fields[i].offset \in Nat
        /\ \A i \in 1..Len(fields) : A(i) # 0 =>
               /\ r.fields[i].offset % A(i) = 0 /\ End(i - 1) <= r.fields[i].offset
               /\ r.fields[i].offset < End(i - 1) + A(i) /\ r.align % A(i) = 0
        /\ r.size % r.align = 0 /\ End(Len(fields)) <= r.size
        /\ r.size < End(Len(fields)) + r.align

\* That is what it makes, whatever the sizes.
LEMMA SetFieldsOK ==
    ASSUME NEW fields \in Seq(FieldDecls), NEW ly,
           \A i \in 1..Len(fields) : /\ Align(fields[i].type, ly) \in Alignments \cup {0}
                                     /\ Size(fields[i].type, ly) \in Nat
    PROVE  SetOK(fields, ly, SetFields(fields, ly))
  <1> DEFINE n == Len(fields)
             A(i) == Align(fields[i].type, ly)
             Z(i) == Size(fields[i].type, ly)
             H(k, v) == IF k \in 1..n THEN AlignUp(v, A(k)) + Z(k) ELSE 0
             h == [x \in Nat \X Nat |-> H(x[1], x[2])]
             E(g, i) == IF i = 0 THEN 0 ELSE AlignUp(g[i - 1], A(i)) + Z(i)
             end == CHOOSE g : g = [i \in 0..n |-> E(g, i)]
             al == Max({1} \cup {A(i) : i \in DOMAIN fields})
             placed(i) == AlignUp(end[i - 1], A(i))
             r == SetFields(fields, ly)
  <1>1. n \in Nat /\ DOMAIN fields = 1..n
    BY LenProperties
  <1>2. \A i \in 1..n : A(i) \in Alignments \cup {0} /\ A(i) \in Nat /\ Z(i) \in Nat
    BY DEF Alignments
  <1>3. /\ r.fields = [i \in 1..n |-> [name |-> fields[i].name, type |-> fields[i].type, offset |-> placed(i)]]
        /\ r.size = AlignUp(end[n], al) /\ r.align = al
    BY <1>1 DEF SetFields
  <1> HIDE DEF r, n, A, Z
  <1>4. \A k \in Nat : \A v \in Nat : H(k, v) \in Nat
    <2> TAKE k \in Nat
    <2> TAKE v \in Nat
    <2>1. ASSUME k \in 1..n PROVE AlignUp(v, A(k)) \in Nat /\ Z(k) \in Nat
      BY <1>2, <2>1, AlignedUp
    <2>2. ASSUME k \in 1..n PROVE AlignUp(v, A(k)) + Z(k) \in Nat
      BY <2>1, <2>2
    <2> QED
      BY <2>2
  <1>5. h \in [Nat \X Nat -> Nat]
    <2> HIDE DEF H
    <2> QED
      BY <1>4
  <1>6. PICK f : CountsUp(f, Nat, 0, h)
    <2> HIDE DEF h
    <2> QED
      BY <1>5, RecursionFromZero
  <1>7. f \in [Nat -> Nat] /\ f[0] = 0 /\ \A k \in Nat \ {0} : f[k] = H(k, f[k - 1])
    <2>1. f \in [Nat -> Nat] /\ f[0] = 0 /\ \A k \in Nat \ {0} : f[k] = h[<<k, f[k - 1]>>]
      <3> HIDE DEF h
      <3> QED
        BY <1>6 DEF CountsUp
    <2>2. \A k \in Nat \ {0} : h[<<k, f[k - 1]>>] = H(k, f[k - 1])
      <3> TAKE k \in Nat \ {0}
      <3>1. f[k - 1] \in Nat
        BY <2>1
      <3> HIDE DEF H
      <3> QED
        BY <3>1
    <2> HIDE DEF h, H
    <2> QED
      BY <2>1, <2>2
  <1> DEFINE g0 == [i \in 0..n |-> f[i]]
  <1>8. \A i \in 0..n : g0[i] = E(g0, i)
    <2> TAKE i \in 0..n
    <2>1. CASE i = 0
      BY <1>7, <2>1
    <2>2. CASE i # 0
      <3>1. i \in Nat \ {0} /\ i \in 1..n /\ i - 1 \in 0..n
        BY <1>1, <2>2
      <3>2. f[i] = AlignUp(f[i - 1], A(i)) + Z(i)
        BY <1>7, <3>1
      <3> QED
        BY <2>2, <3>1, <3>2
    <2> QED
      BY <2>1, <2>2
  <1>9. g0 = [i \in 0..n |-> E(g0, i)]
    <2> HIDE DEF E
    <2> QED
      BY <1>8
  <1>10. end = [i \in 0..n |-> E(end, i)]
    <2> HIDE DEF E, g0
    <2> QED
      BY <1>9
  <1> HIDE DEF end
  <1>11. end[0] = 0 /\ \A i \in 1..n : end[i] = AlignUp(end[i - 1], A(i)) + Z(i)
    BY <1>1, <1>10
  <1> DEFINE S == {k \in Nat : k <= n => end[k] \in Nat}
  <1>12. \A k \in 0..n : end[k] \in Nat
    <2>1. 0 \in S
      BY <1>11
    <2>2. \A k \in Nat : k \in S => k + 1 \in S
      <3> SUFFICES ASSUME NEW k \in Nat, k \in S, k + 1 <= n PROVE end[k + 1] \in Nat
        OBVIOUS
      <3>1. k + 1 \in 1..n /\ k <= n /\ (k + 1) - 1 = k
        BY <1>1
      <3>2. end[k] \in Nat
        BY <3>1
      <3>3. AlignUp(end[k], A(k + 1)) \in Nat
        BY <1>2, <3>1, <3>2, AlignedUp
      <3> QED
        BY <1>2, <1>11, <3>1, <3>3
    <2> HIDE DEF S
    <2>3. Nat \subseteq S
      BY <2>1, <2>2, Induction
    <2> QED
      BY <1>1, <2>3 DEF S
  <1> HIDE DEF S
  <1>13. \A i \in 1..n : /\ placed(i) \in Nat /\ end[i] = placed(i) + Z(i)
                         /\ A(i) # 0 => /\ placed(i) % A(i) = 0 /\ end[i - 1] <= placed(i)
                                        /\ placed(i) < end[i - 1] + A(i)
    <2> TAKE i \in 1..n
    <2>1. i - 1 \in 0..n /\ end[i - 1] \in Nat /\ A(i) \in Nat
      BY <1>1, <1>2, <1>12
    <2> QED
      BY <1>11, <2>1, AlignedUp
  <1>14. al \in Alignments /\ \A i \in 1..n : A(i) # 0 => al % A(i) = 0
    <2> DEFINE B == {A(i) : i \in 1..n}
    <2>1. B \subseteq Alignments \cup {0} /\ \A i \in 1..n : A(i) \in B
      BY <1>2
    <2>2. al = Max({1} \cup B)
      BY <1>1
    <2> HIDE DEF B, al
    <2>3. Max({1} \cup B) \in Alignments /\ \A a \in B : a # 0 => Max({1} \cup B) % a = 0
      BY <2>1, LargestAlignment
    <2> QED
      BY <2>1, <2>2, <2>3
  <1> HIDE DEF al, placed
  <1>15. /\ r.size \in Nat /\ r.size % al = 0 /\ end[n] <= r.size /\ r.size < end[n] + al
    <2>1. al \in Nat /\ al # 0 /\ end[n] \in Nat
      BY <1>1, <1>12, <1>14 DEF Alignments
    <2>2. /\ AlignUp(end[n], al) \in Nat /\ AlignUp(end[n], al) % al = 0
          /\ end[n] <= AlignUp(end[n], al) /\ AlignUp(end[n], al) < end[n] + al
      BY <2>1, AlignedUp
    <2>3. r.size = AlignUp(end[n], al)
      BY <1>3
    <2> QED
      BY ONLY <2>2, <2>3
  <1>16. /\ DOMAIN r.fields = 1..n /\ Len(r.fields) = n
         /\ \A i \in 1..n : r.fields[i].type = fields[i].type /\ r.fields[i].offset = placed(i)
    <2>1. /\ DOMAIN r.fields = 1..n
          /\ \A i \in 1..n : r.fields[i].type = fields[i].type /\ r.fields[i].offset = placed(i)
      BY <1>3
    <2>2. r.fields \in Seq({r.fields[i] : i \in 1..n}) /\ Len(r.fields) = n
      <3> DEFINE q == r.fields
                 T == {q[i] : i \in 1..n}
      <3>1. q = [i \in 1..n |-> q[i]]
        BY <1>3
      <3> HIDE DEF q
      <3>2. q \in [1..n -> T]
        BY <3>1
      <3> HIDE DEF T
      <3>3. q \in Seq(T) /\ Len(q) = n
        BY <1>1, <3>2, LenProperties, SeqDef
      <3> QED
        BY <3>3 DEF q, T
    <2> QED
      BY <2>1, <2>2
  <1> DEFINE End(i) == IF i = 0 THEN 0 ELSE r.fields[i].offset + Z(i)
  <1>17. \A i \in 0..n : End(i) = end[i]
    BY <1>1, <1>11, <1>13, <1>16
  <1>18. \A i \in 1..n : A(i) # 0 =>
             /\ r.fields[i].offset % A(i) = 0 /\ End(i - 1) <= r.fields[i].offset
             /\ r.fields[i].offset < End(i - 1) + A(i) /\ r.align % A(i) = 0
    <2> SUFFICES ASSUME NEW i \in 1..n, A(i) # 0
                 PROVE  /\ r.fields[i].offset % A(i) = 0 /\ End(i - 1) <= r.fields[i].offset
                        /\ r.fields[i].offset < End(i - 1) + A(i) /\ r.align % A(i) = 0
      OBVIOUS
    <2>1. i - 1 \in 0..n
      BY <1>1
    <2>2. End(i - 1) = end[i - 1] /\ r.fields[i].offset = placed(i) /\ r.align = al
      BY <1>3, <1>16, <1>17, <2>1
    <2> HIDE DEF End
    <2> QED
      BY <1>13, <1>14, <2>2
  <1>19. /\ r.align = al /\ n \in 0..n /\ End(n) = end[n]
    <2> HIDE DEF End
    <2>1. n \in 0..n
      BY <1>1
    <2> QED
      BY <1>3, <1>17, <2>1
  <1> HIDE DEF End
  <1>20. /\ DOMAIN r.fields = 1..n /\ Len(r.fields) = n
         /\ r.size \in Nat /\ r.align \in Alignments
         /\ \A i \in 1..n : r.fields[i].type = fields[i].type /\ r.fields[i].offset \in Nat
         /\ r.size % r.align = 0 /\ End(n) <= r.size /\ r.size < End(n) + r.align
    BY <1>13, <1>14, <1>15, <1>16, <1>19
  <1> QED
    BY <1>18, <1>20 DEF SetOK, End, r, n, A, Z

-----------------------------------------------------------------------------
(* The stack. *)

\* What is left of a stack without its top.
LEMMA Popped ==
    ASSUME NEW S, NEW s \in Seq(S), s # <<>>
    PROVE  /\ Len(s) \in Nat \ {0} /\ s[Len(s)] \in S
           /\ SubSeq(s, 1, Len(s) - 1) \in Seq(S) /\ Len(SubSeq(s, 1, Len(s) - 1)) = Len(s) - 1
           /\ \A k \in 1..(Len(s) - 1) : SubSeq(s, 1, Len(s) - 1)[k] = s[k]
  <1> DEFINE n == Len(s)
  <1>1. n \in Nat \ {0} /\ \A k \in 1..n : s[k] \in S
    BY LenProperties, EmptySeq, ElementOfSeq
  <1> HIDE DEF n
  <1>2. 1 \in Int /\ n - 1 \in Int /\ \A k \in 1..(n - 1) : s[k] \in S
    BY <1>1
  <1>3. /\ SubSeq(s, 1, n - 1) \in Seq(S)
        /\ Len(SubSeq(s, 1, n - 1)) = (IF 1 <= n - 1 THEN (n - 1) - 1 + 1 ELSE 0)
        /\ \A k \in 1..((n - 1) - 1 + 1) : SubSeq(s, 1, n - 1)[k] = s[1 + k - 1]
    BY ONLY <1>2, SubSeqProperties
  <1>4. /\ (IF 1 <= n - 1 THEN (n - 1) - 1 + 1 ELSE 0) = n - 1 /\ (n - 1) - 1 + 1 = n - 1
        /\ \A k \in 1..(n - 1) : 1 + k - 1 = k
        /\ n \in 1..n
    BY <1>1
  <1>5. \A k \in 1..(n - 1) : SubSeq(s, 1, n - 1)[k] = s[k]
    BY ONLY <1>3, <1>4
  <1> QED
    BY <1>1, <1>3, <1>4, <1>5 DEF n

\* s with another element on top.
IsReplaced(s, x, t) ==
    /\ t # <<>> /\ Len(t) = Len(s) /\ t[Len(s)] = x
    /\ \A k \in 1..(Len(s) - 1) : t[k] = s[k]

\* It is what replacing the top makes of it.
LEMMA Replaced ==
    ASSUME NEW S, NEW s \in Seq(S), s # <<>>, NEW x \in S
    PROVE  /\ Append(SubSeq(s, 1, Len(s) - 1), x) \in Seq(S)
           /\ IsReplaced(s, x, Append(SubSeq(s, 1, Len(s) - 1), x))
  <1> DEFINE p == SubSeq(s, 1, Len(s) - 1)
             n == Len(s)
             t == Append(p, x)
  <1>1. n \in Nat \ {0} /\ p \in Seq(S) /\ Len(p) = n - 1 /\ \A k \in 1..(n - 1) : p[k] = s[k]
    BY Popped
  <1> HIDE DEF p, n
  <1>2. t \in Seq(S) /\ Len(t) = (n - 1) + 1 /\ t[(n - 1) + 1] = x /\ \A k \in 1..(n - 1) : t[k] = p[k]
    BY <1>1, AppendProperties
  <1> HIDE DEF t
  <1>3. (n - 1) + 1 = n
    BY <1>1
  <1>4. t # <<>>
    BY <1>1, <1>2, <1>3, EmptySeq
  <1> QED
    BY <1>1, <1>2, <1>3, <1>4 DEF t, p, n, IsReplaced

\* s with an element more.
IsPushed(s, x, t) ==
    /\ t # <<>> /\ Len(t) = Len(s) + 1 /\ t[Len(s) + 1] = x
    /\ \A k \in 1..Len(s) : t[k] = s[k]

\* It is what Append makes of it.
LEMMA Pushed ==
    ASSUME NEW S, NEW s \in Seq(S), NEW x \in S
    PROVE  Append(s, x) \in Seq(S) /\ IsPushed(s, x, Append(s, x))
  <1> DEFINE t == Append(s, x)
  <1>1. Len(s) \in Nat /\ t \in Seq(S) /\ Len(t) = Len(s) + 1 /\ t[Len(s) + 1] = x
        /\ \A k \in 1..Len(s) : t[k] = s[k]
    BY LenProperties, AppendProperties
  <1> HIDE DEF t
  <1>2. t # <<>>
    BY <1>1, EmptySeq
  <1> QED
    BY <1>1, <1>2 DEF t, IsPushed

-----------------------------------------------------------------------------
(* The inductive invariant, of values for the variables. *)

States == {"new", "visiting", "done"}
Kinds == {"containsItself", "duplicateField", "undefinedType", "arrayTooLarge"}
Frames == [d : Structs, i : Nat, asked : BOOLEAN, fields : Seq(FieldDecls)]

\* The i-th field of d is not skipped as a duplicate and asks for the layout of
\* t; some field of s does.
Needs(dc, d, i, t) ==
    /\ \A j \in 1..(i - 1) : dc[d][j].name # dc[d][i].name
    /\ Forced(dc[d][i].type) /\ dc[d][i].type.leaf = t
Edge(dc, s, t) == \E i \in 1..Len(dc[s]) : Needs(dc, s, i, t)
Loop(dc, T) == T # {} /\ \A s \in T : \E t \in T : Edge(dc, s, t)

\* The struct that the field an activation has reached is about.
Asks(dc, x) == dc[x.d][x.i].type.leaf

FrameOK(dc, x) ==
    /\ x.i \in 1..(Len(dc[x.d]) + 1) /\ Len(x.fields) < x.i
    /\ \A j \in 1..Len(x.fields) : x.fields[j].type.leaf \in Structs \cup Builtins
    /\ x.asked => x.i <= Len(dc[x.d]) /\ Needs(dc, x.d, x.i, Asks(dc, x))

Typed(dc, st, ls, ly, er) ==
    /\ dc \in [Structs -> Bodies]
    /\ st \in Seq(Frames) /\ \A k \in 1..Len(st) : FrameOK(dc, st[k])
    /\ ls \in [Structs -> States]
    /\ DOMAIN ly = Structs
    /\ \A s \in Structs : ly[s].size \in Nat /\ ly[s].align \in Alignments \cup {0}
    /\ er \subseteq Kinds \X Structs

\* No struct is active twice, and each was asked for by the one below it.
Nested(dc, st) ==
    /\ \A j, k \in 1..Len(st) : st[j].d = st[k].d => j = k
    /\ \A k \in 1..(Len(st) - 1) : st[k].asked /\ Asks(dc, st[k]) = st[k + 1].d

On(st) == {st[k].d : k \in 1..Len(st)}
Blamed(er) == {s \in Structs : <<"containsItself", s>> \in er}

Marked(st, ls, er) ==
    \A s \in Structs : /\ ls[s] = "visiting" <=> s \in On(st) /\ s \notin Blamed(er)
                       /\ ls[s] = "new" => s \notin On(st) /\ s \notin Blamed(er)

\* As long as no cycle was found: what a struct needs is laid out before it,
\* so that structs laid out do not form one.
Settled(dc, st, ls) ==
    /\ \A s, t \in Structs : ls[s] = "done" /\ Edge(dc, s, t) => ls[t] = "done"
    /\ \A T \in SUBSET Structs : (\A s \in T : ls[s] = "done") => ~Loop(dc, T)
    /\ \A k \in 1..Len(st) : \A i \in 1..(st[k].i - 1) : \A t \in Structs :
          Needs(dc, st[k].d, i, t) => ls[t] = "done"

\* A field's type has a size that will not change.
Known(t, ls) ==
    /\ t \in FieldTypes /\ t.leaf \in Structs \cup Builtins
    /\ Forced(t) => ls[t.leaf] = "done"

\* The fields of a layout, all of known types.
Laid(l, ls) ==
    /\ Len(l.fields) \in Nat /\ DOMAIN l.fields = 1..Len(l.fields)
    /\ \A i \in 1..Len(l.fields) : Known(l.fields[i].type, ls)

\* WellLaidOut, of a layout and the layouts its fields' types refer to.
WellLaid(l, ly) ==
    LET f == l.fields
        Al(i) == Align(f[i].type, ly)
        End(i) == IF i = 0 THEN 0 ELSE f[i].offset + Size(f[i].type, ly)
        Tight(placed, end, al) == placed % al = 0 /\ end <= placed /\ placed < end + al
    IN  /\ l.align \in Alignments
        /\ \A i \in DOMAIN f : Tight(f[i].offset, End(i - 1), Al(i)) /\ l.align % Al(i) = 0
        /\ Tight(l.size, End(Len(f)), l.align)

\* As long as no cycle was found: structs that are done are laid out for the
\* sizes that their fields have now, and these are final; so are those of the
\* fields kept so far.
LaidOut(st, ls, ly) ==
    /\ \A s \in Structs : ls[s] = "done" => WellLaid(ly[s], ly) /\ Laid(ly[s], ls)
    /\ \A k \in 1..Len(st) : \A j \in 1..Len(st[k].fields) : Known(st[k].fields[j].type, ls)

\* As long as nothing was reported no field is left out.
Complete(dc, st, ls, ly) ==
    /\ \A k \in 1..Len(st) : Len(st[k].fields) = st[k].i - 1
    /\ \A s \in Structs : ls[s] = "done" => Len(ly[s].fields) = Len(dc[s])

Core(dc, st, ls, ly, er) ==
    /\ Typed(dc, st, ls, ly, er)
    /\ Nested(dc, st)
    /\ Marked(st, ls, er)
    /\ Blamed(er) # {} => \E T \in SUBSET Structs : Loop(dc, T)
    /\ Blamed(er) = {} => Settled(dc, st, ls) /\ LaidOut(st, ls, ly)
    /\ er = {} => Complete(dc, st, ls, ly)

\* The innermost activation.
Topmost(st) == st[Len(st)]

\* What the innermost activation has asked for is laid out.
Answered(dc, st, ls) == st # <<>> /\ Topmost(st).asked => ls[Asks(dc, Topmost(st))] = "done"

\* The loop of resolve has called layoutStruct for the declarations before nx.
Started(nx, ls) ==
    nx \in 1..(Len(DeclOrder) + 1) /\ \A j \in 1..(nx - 1) : ls[DeclOrder[j]] # "new"

LayoutInv(dc, nx, st, ls, ly, er) ==
    Core(dc, st, ls, ly, er) /\ Answered(dc, st, ls) /\ Started(nx, ls)

-----------------------------------------------------------------------------
(* The call layoutStruct. *)

\* The fields of a declaration.
LEMMA BodyParts ==
    ASSUME NEW dc \in [Structs -> Bodies], NEW d \in Structs
    PROVE  /\ dc[d] \in Seq(FieldDecls) /\ Len(dc[d]) \in Nat /\ DOMAIN dc[d] = 1..Len(dc[d])
           /\ \A i \in 1..Len(dc[d]) : dc[d][i] \in FieldDecls /\ dc[d][i].type \in FieldTypes
  <1>1. dc[d] \in Seq(FieldDecls)
    BY BodiesOK
  <1>2. Len(dc[d]) \in Nat /\ DOMAIN dc[d] = 1..Len(dc[d])
    BY <1>1, LenProperties
  <1>3. \A i \in 1..Len(dc[d]) : dc[d][i] \in FieldDecls
    BY <1>1, ElementOfSeq
  <1>4. \A f \in FieldDecls : f.type \in FieldTypes
    BY DEF FieldDecls, FieldTypes
  <1> QED
    BY <1>1, <1>2, <1>3, <1>4

\* The parts of an activation.
LEMMA FrameParts ==
    ASSUME NEW x \in Frames
    PROVE  /\ x.d \in Structs /\ x.i \in Nat /\ x.asked \in BOOLEAN
           /\ x.fields \in Seq(FieldDecls) /\ Len(x.fields) \in Nat
           /\ \A j \in 1..Len(x.fields) : x.fields[j].type \in FieldTypes
  <1>1. x.d \in Structs /\ x.i \in Nat /\ x.asked \in BOOLEAN /\ x.fields \in Seq(FieldDecls)
    BY DEF Frames
  <1>2. Len(x.fields) \in Nat
    BY <1>1, LenProperties
  <1>3. \A j \in 1..Len(x.fields) : x.fields[j] \in FieldDecls
    BY <1>1, ElementOfSeq
  <1>4. \A f \in FieldDecls : f.type \in FieldTypes
    BY DEF FieldDecls, FieldTypes
  <1> QED
    BY <1>1, <1>2, <1>3, <1>4

\* The activations of a stack.
LEMMA StackParts ==
    ASSUME NEW st \in Seq(Frames)
    PROVE  Len(st) \in Nat /\ DOMAIN st = 1..Len(st) /\ \A k \in 1..Len(st) : st[k] \in Frames
  BY LenProperties, ElementOfSeq

\* A new activation.
LEMMA NewActivation ==
    ASSUME NEW d \in Structs, NEW dc \in [Structs -> Bodies]
    PROVE  LET x == Activation(d)
           IN  /\ x \in Frames /\ FrameOK(dc, x)
               /\ x.d = d /\ x.i = 1 /\ x.asked = FALSE /\ Len(x.fields) = 0
  <1> DEFINE x == Activation(d)
  <1>1. x.d = d /\ x.i = 1 /\ x.asked = FALSE /\ x.fields = <<>>
    BY DEF Activation
  <1>2. <<>> \in Seq(FieldDecls) /\ Len(<<>>) = 0
    BY EmptySeq
  <1>3. x \in Frames
    BY <1>2 DEF Activation, Frames
  <1> HIDE DEF x
  <1>4. Len(dc[d]) \in Nat
    BY BodyParts
  <1>5. FrameOK(dc, x)
    BY <1>1, <1>2, <1>4 DEF FrameOK
  <1> QED
    BY <1>1, <1>2, <1>3, <1>5 DEF x

\* What is said of structs that are done depends on which are.
LEMMA SameDone ==
    ASSUME NEW dc, NEW st, NEW ls, NEW ly, NEW ls2,
           \A s \in Structs : ls2[s] = "done" <=> ls[s] = "done"
    PROVE  /\ Settled(dc, st, ls) => Settled(dc, st, ls2)
           /\ LaidOut(st, ls, ly) => LaidOut(st, ls2, ly)
           /\ Complete(dc, st, ls, ly) => Complete(dc, st, ls2, ly)
  <1>1. Settled(dc, st, ls) => Settled(dc, st, ls2)
    BY DEF Settled
  <1>2. ASSUME NEW t, Known(t, ls) PROVE Known(t, ls2)
    BY <1>2 DEF Known, Forced
  <1>3. LaidOut(st, ls, ly) => LaidOut(st, ls2, ly)
    BY <1>2 DEF LaidOut, Laid
  <1>4. Complete(dc, st, ls, ly) => Complete(dc, st, ls2, ly)
    BY DEF Complete
  <1> QED
    BY <1>1, <1>3, <1>4

\* The struct is new and becomes active.
LEMMA EnterNew ==
    ASSUME NEW dc, NEW c, NEW ls, NEW ly, NEW er, Core(dc, c, ls, ly, er),
           NEW d \in Structs, ls[d] = "new",
           c # <<>> => c[Len(c)].asked /\ Asks(dc, c[Len(c)]) = d,
           NEW ls2 \in [Structs -> States],
           \A s \in Structs : ls2[s] = IF s = d THEN "visiting" ELSE ls[s],
           NEW st2 \in Seq(Frames), IsPushed(c, Activation(d), st2)
    PROVE  Core(dc, st2, ls2, ly, er) /\ Answered(dc, st2, ls2)
  <1> DEFINE n == Len(c)
             x == Activation(d)
  <1>1. /\ Typed(dc, c, ls, ly, er) /\ Nested(dc, c) /\ Marked(c, ls, er)
        /\ Blamed(er) # {} => \E T \in SUBSET Structs : Loop(dc, T)
        /\ Blamed(er) = {} => Settled(dc, c, ls) /\ LaidOut(c, ls, ly)
        /\ er = {} => Complete(dc, c, ls, ly)
    BY DEF Core
  <1>2. /\ c \in Seq(Frames) /\ dc \in [Structs -> Bodies] /\ \A k \in 1..n : FrameOK(dc, c[k])
    BY <1>1 DEF Typed
  <1>3. n \in Nat /\ (c = <<>> <=> n = 0) /\ \A k \in 1..n : c[k] \in Frames
    BY <1>2, StackParts, EmptySeq
  <1>4. x \in Frames /\ FrameOK(dc, x) /\ x.d = d /\ x.i = 1 /\ x.asked = FALSE /\ Len(x.fields) = 0
    BY <1>2, NewActivation
  <1>5. st2 # <<>> /\ Len(st2) = n + 1 /\ st2[n + 1] = x /\ \A k \in 1..n : st2[k] = c[k]
    BY DEF IsPushed
  <1>6. c # <<>> => c[n].asked /\ Asks(dc, c[n]) = d
    OBVIOUS
  <1> HIDE DEF n, x
  <1>7. \A s \in Structs : ls2[s] = "done" <=> ls[s] = "done"
    OBVIOUS
  <1>8. \A k \in 1..(n + 1) : k \in 1..n \/ k = n + 1
    BY <1>3
  <1>9. d \notin On(c) /\ d \notin Blamed(er)
    BY <1>1 DEF Marked
  <1>10. Typed(dc, st2, ls2, ly, er)
    <2>1. \A k \in 1..(n + 1) : FrameOK(dc, st2[k])
      BY <1>2, <1>4, <1>5, <1>8
    <2> QED
      BY <1>1, <1>5, <2>1 DEF Typed
  <1>11. Nested(dc, st2)
    <2>1. \A j \in 1..n : c[j].d # d
      BY <1>9 DEF On, n
    <2>2. ASSUME NEW j \in 1..(n + 1), NEW k \in 1..(n + 1), st2[j].d = st2[k].d PROVE j = k
      BY <1>1, <1>4, <1>5, <1>8, <2>1, <2>2 DEF Nested, n
    <2>3. ASSUME NEW k \in 1..n PROVE st2[k].asked /\ Asks(dc, st2[k]) = st2[k + 1].d
      <3>1. CASE k = n
        BY <1>3, <1>4, <1>5, <1>6, <3>1
      <3>2. CASE k # n
        <4>1. k \in 1..(n - 1) /\ k + 1 \in 1..n
          BY <1>3, <3>2
        <4> QED
          BY <1>1, <1>5, <4>1 DEF Nested, n
      <3> QED
        BY <3>1, <3>2
    <2>4. (n + 1) - 1 = n
      BY <1>3
    <2> QED
      BY <1>5, <2>2, <2>3, <2>4 DEF Nested
  <1>12. Marked(st2, ls2, er)
    <2>1. On(st2) = On(c) \cup {d}
      <3>1. On(st2) \subseteq On(c) \cup {d}
        BY <1>4, <1>5, <1>8 DEF On, n
      <3>2. \A k \in 1..n : k \in 1..(n + 1)
        BY <1>3
      <3>3. n + 1 \in 1..(n + 1)
        BY <1>3
      <3>4. On(c) \subseteq On(st2)
        BY <1>5, <3>2 DEF On, n
      <3>5. d \in On(st2)
        BY <1>4, <1>5, <3>3 DEF On
      <3> QED
        BY <3>1, <3>4, <3>5
    <2> QED
      BY <1>1, <1>9, <2>1 DEF Marked
  <1>13. Blamed(er) = {} => Settled(dc, st2, ls2) /\ LaidOut(st2, ls2, ly)
    <2> SUFFICES ASSUME Blamed(er) = {} PROVE Settled(dc, st2, ls2) /\ LaidOut(st2, ls2, ly)
      OBVIOUS
    <2>1. Settled(dc, c, ls2) /\ LaidOut(c, ls2, ly)
      BY <1>1, <1>7, SameDone
    <2>2. 1..(x.i - 1) = {} /\ 1..Len(x.fields) = {}
      BY <1>4
    <2>3. Settled(dc, st2, ls2)
      BY <1>5, <1>8, <2>1, <2>2 DEF Settled, n
    <2>4. LaidOut(st2, ls2, ly)
      BY <1>5, <1>8, <2>1, <2>2 DEF LaidOut, n
    <2> QED
      BY <2>3, <2>4
  <1>14. er = {} => Complete(dc, st2, ls2, ly)
    <2> SUFFICES ASSUME er = {} PROVE Complete(dc, st2, ls2, ly)
      OBVIOUS
    <2>1. Complete(dc, c, ls2, ly)
      BY <1>1, <1>7, SameDone
    <2>2. Len(x.fields) = x.i - 1
      BY <1>4
    <2> QED
      BY <1>5, <1>8, <2>1, <2>2 DEF Complete, n
  <1>15. Answered(dc, st2, ls2)
    BY <1>4, <1>5 DEF Answered, Topmost
  <1> QED
    BY <1>1, <1>10, <1>11, <1>12, <1>13, <1>14, <1>15 DEF Core

\* The structs from one activation of d to the top, which asks for d again, are
\* a loop.
LEMMA LoopFound ==
    ASSUME NEW dc, NEW c \in Seq(Frames), Nested(dc, c), \A k \in 1..Len(c) : FrameOK(dc, c[k]),
           NEW d \in On(c), c[Len(c)].asked, Asks(dc, c[Len(c)]) = d
    PROVE  \E T \in SUBSET Structs : Loop(dc, T)
  <1> DEFINE n == Len(c)
  <1>1. n \in Nat /\ \A k \in 1..n : c[k] \in Frames /\ c[k].d \in Structs
    BY StackParts, FrameParts
  <1>2. PICK m \in 1..n : c[m].d = d
    BY DEF On
  <1>3. /\ \A k \in 1..(n - 1) : c[k].asked /\ Asks(dc, c[k]) = c[k + 1].d
        /\ c[n].asked /\ Asks(dc, c[n]) = d
    BY DEF Nested
  <1>4. \A k \in 1..n : FrameOK(dc, c[k])
    OBVIOUS
  <1> HIDE DEF n
  <1> DEFINE T == {c[k].d : k \in m..n}
  <1>5. T \subseteq Structs /\ T # {}
    <2>1. m \in m..n /\ m..n \subseteq 1..n
      BY <1>1
    <2> QED
      BY <1>1, <2>1
  <1>6. ASSUME NEW k \in m..n PROVE \E t \in T : Edge(dc, c[k].d, t)
    <2>1. k \in 1..n /\ n \in Nat /\ m \in m..n
      BY <1>1
    <2>2. Asks(dc, c[k]) \in T /\ c[k].asked
      <3>1. CASE k = n
        BY <1>2, <1>3, <2>1, <3>1
      <3>2. CASE k # n
        <4>1. k \in 1..(n - 1) /\ k + 1 \in m..n
          BY <1>1, <3>2
        <4> QED
          BY <1>3, <4>1
      <3> QED
        BY <3>1, <3>2
    <2>3. /\ Needs(dc, c[k].d, c[k].i, Asks(dc, c[k]))
          /\ c[k].i <= Len(dc[c[k].d]) /\ c[k].i \in 1..(Len(dc[c[k].d]) + 1)
      BY <1>4, <2>1, <2>2 DEF FrameOK
    <2>4. c[k].i \in 1..Len(dc[c[k].d])
      BY <2>3
    <2> QED
      BY <2>2, <2>3, <2>4 DEF Edge
  <1>7. Loop(dc, T)
    BY <1>5, <1>6 DEF Loop
  <1> QED
    BY <1>5, <1>7

\* The struct is active already: it is reported, and counts as done.
LEMMA EnterVisiting ==
    ASSUME NEW dc, NEW c, NEW ls, NEW ly, NEW er, Core(dc, c, ls, ly, er),
           NEW d \in Structs, ls[d] = "visiting",
           c # <<>> => c[Len(c)].asked /\ Asks(dc, c[Len(c)]) = d,
           NEW ls2 \in [Structs -> States],
           \A s \in Structs : ls2[s] = IF s = d THEN "done" ELSE ls[s],
           NEW er2, er2 = er \cup {<<"containsItself", d>>}
    PROVE  Core(dc, c, ls2, ly, er2) /\ Answered(dc, c, ls2)
  <1>1. Typed(dc, c, ls, ly, er) /\ Nested(dc, c) /\ Marked(c, ls, er)
    BY DEF Core
  <1>2. c \in Seq(Frames) /\ \A k \in 1..Len(c) : FrameOK(dc, c[k])
    BY <1>1 DEF Typed
  <1>3. d \in On(c)
    BY <1>1 DEF Marked
  <1>4. c # <<>>
    <2>1. Len(c) # 0
      BY <1>3 DEF On
    <2> QED
      BY <2>1, EmptySeq
  <1>5. c[Len(c)].asked /\ Asks(dc, c[Len(c)]) = d
    BY <1>4
  <1>6. \E T \in SUBSET Structs : Loop(dc, T)
    BY <1>1, <1>2, <1>3, <1>5, LoopFound
  <1>7. Blamed(er2) = Blamed(er) \cup {d} /\ Blamed(er2) # {} /\ er2 # {}
    BY DEF Blamed
  <1>8. er2 \subseteq Kinds \X Structs
    BY <1>1 DEF Typed, Kinds
  <1>9. Typed(dc, c, ls2, ly, er2)
    BY <1>1, <1>8 DEF Typed
  <1>10. Marked(c, ls2, er2)
    BY <1>1, <1>3, <1>7 DEF Marked
  <1>11. Answered(dc, c, ls2)
    BY <1>5 DEF Answered, Topmost
  <1> QED
    BY <1>1, <1>6, <1>7, <1>9, <1>10, <1>11 DEF Core

\* What a call layoutStruct(d) makes of the stack, the states and the
\* diagnostics.
Entered(d, c, ls, er, st2, ls2, er2) ==
    \/ /\ ls[d] = "new" /\ ls2 = [ls EXCEPT ![d] = "visiting"]
       /\ st2 = Append(c, Activation(d)) /\ er2 = er
    \/ /\ ls[d] = "visiting" /\ ls2 = [ls EXCEPT ![d] = "done"]
       /\ st2 = c /\ er2 = er \cup {<<"containsItself", d>>}
    \/ /\ ls[d] = "done" /\ ls2 = ls /\ st2 = c /\ er2 = er

\* It keeps the invariant, and whoever called finds d done or d active.
LEMMA EnterOK ==
    ASSUME NEW dc, NEW c, NEW ls, NEW ly, NEW er, Core(dc, c, ls, ly, er),
           NEW d \in Structs,
           c # <<>> => c[Len(c)].asked /\ Asks(dc, c[Len(c)]) = d,
           NEW st2, NEW ls2, NEW er2, Entered(d, c, ls, er, st2, ls2, er2)
    PROVE  /\ Core(dc, st2, ls2, ly, er2) /\ Answered(dc, st2, ls2)
           /\ ls2[d] # "new" /\ \A s \in Structs : ls[s] # "new" => ls2[s] # "new"
  <1>1. ls \in [Structs -> States] /\ c \in Seq(Frames) /\ dc \in [Structs -> Bodies]
    BY DEF Core, Typed
  <1>2. {"new", "visiting", "done"} \subseteq States
    BY DEF States
  <1>3. CASE /\ ls[d] = "new" /\ ls2 = [ls EXCEPT ![d] = "visiting"]
             /\ st2 = Append(c, Activation(d)) /\ er2 = er
    <2>1. /\ ls2 \in [Structs -> States]
          /\ \A s \in Structs : ls2[s] = IF s = d THEN "visiting" ELSE ls[s]
      BY <1>1, <1>2, <1>3
    <2>2. Activation(d) \in Frames
      BY <1>1, NewActivation
    <2>3. st2 \in Seq(Frames) /\ IsPushed(c, Activation(d), st2)
      BY <1>1, <1>3, <2>2, Pushed
    <2>4. \A l2 \in [Structs -> States] : \A s2 \in Seq(Frames) :
              /\ \A s \in Structs : l2[s] = IF s = d THEN "visiting" ELSE ls[s]
              /\ IsPushed(c, Activation(d), s2)
              => Core(dc, s2, l2, ly, er) /\ Answered(dc, s2, l2)
      BY <1>3, EnterNew
    <2>5. Core(dc, st2, ls2, ly, er) /\ Answered(dc, st2, ls2)
      BY ONLY <2>1, <2>3, <2>4
    <2> QED
      BY <1>3, <2>1, <2>5
  <1>4. CASE /\ ls[d] = "visiting" /\ ls2 = [ls EXCEPT ![d] = "done"]
             /\ st2 = c /\ er2 = er \cup {<<"containsItself", d>>}
    <2>1. /\ ls2 \in [Structs -> States]
          /\ \A s \in Structs : ls2[s] = IF s = d THEN "done" ELSE ls[s]
      BY <1>1, <1>2, <1>4
    <2>2. \A l2 \in [Structs -> States] : \A e2 :
              /\ \A s \in Structs : l2[s] = IF s = d THEN "done" ELSE ls[s]
              /\ e2 = er \cup {<<"containsItself", d>>}
              => Core(dc, c, l2, ly, e2) /\ Answered(dc, c, l2)
      BY <1>4, EnterVisiting
    <2>3. er2 = er \cup {<<"containsItself", d>>}
      BY <1>4
    <2>4. Core(dc, c, ls2, ly, er2) /\ Answered(dc, c, ls2)
      BY ONLY <2>1, <2>2, <2>3
    <2> QED
      BY <1>4, <2>1, <2>4
  <1>5. CASE ls[d] = "done" /\ ls2 = ls /\ st2 = c /\ er2 = er
    <2>1. Answered(dc, c, ls)
      BY <1>5 DEF Answered, Topmost
    <2> QED
      BY <1>5, <2>1
  <1> QED
    BY <1>3, <1>4, <1>5 DEF Entered

-----------------------------------------------------------------------------
(* The loop over the fields. *)

\* The innermost activation goes on, to a field that the settled ones precede.
LEMMA ReplacedOK ==
    ASSUME NEW dc, NEW st, NEW ls, NEW ly, NEW er, Core(dc, st, ls, ly, er), st # <<>>,
           NEW y \in Frames, y.d = Topmost(st).d, FrameOK(dc, y),
           Blamed(er) = {} =>
              /\ \A i \in 1..(y.i - 1) : \A t \in Structs : Needs(dc, y.d, i, t) => ls[t] = "done"
              /\ \A j \in 1..Len(y.fields) : Known(y.fields[j].type, ls),
           NEW er2, er2 \subseteq Kinds \X Structs, Blamed(er2) = Blamed(er),
           er2 = {} => er = {} /\ Len(y.fields) = y.i - 1,
           NEW st2 \in Seq(Frames), IsReplaced(st, y, st2)
    PROVE  Core(dc, st2, ls, ly, er2)
  <1> DEFINE n == Len(st)
  <1>1. /\ Typed(dc, st, ls, ly, er) /\ Nested(dc, st) /\ Marked(st, ls, er)
        /\ Blamed(er) # {} => \E T \in SUBSET Structs : Loop(dc, T)
        /\ Blamed(er) = {} => Settled(dc, st, ls) /\ LaidOut(st, ls, ly)
        /\ er = {} => Complete(dc, st, ls, ly)
    BY DEF Core
  <1>2. st \in Seq(Frames) /\ \A k \in 1..n : FrameOK(dc, st[k])
    BY <1>1 DEF Typed
  <1>3. n \in Nat \ {0} /\ \A k \in 1..n : st[k] \in Frames
    BY <1>2, StackParts, EmptySeq
  <1>4. Len(st2) = n /\ st2[n] = y /\ \A k \in 1..(n - 1) : st2[k] = st[k]
    BY DEF IsReplaced
  <1>5. y.d = st[n].d
    BY DEF Topmost
  <1> HIDE DEF n
  <1>6. n \in 1..n /\ \A k \in 1..n : k \in 1..(n - 1) \/ k = n
    BY <1>3
  <1>7. \A k \in 1..n : st2[k].d = st[k].d
    BY <1>4, <1>5, <1>6
  <1>8. Typed(dc, st2, ls, ly, er2)
    <2>1. \A k \in 1..n : FrameOK(dc, st2[k])
      BY <1>2, <1>4, <1>6
    <2> QED
      BY <1>1, <1>4, <2>1 DEF Typed
  <1>9. Nested(dc, st2)
    <2>1. \A j, k \in 1..n : st2[j].d = st2[k].d => j = k
      BY <1>1, <1>7 DEF Nested, n
    <2>2. ASSUME NEW k \in 1..(n - 1) PROVE st2[k].asked /\ Asks(dc, st2[k]) = st2[k + 1].d
      <3>1. k + 1 \in 1..n
        BY <1>3
      <3>2. st[k].asked /\ Asks(dc, st[k]) = st[k + 1].d
        BY <1>1 DEF Nested, n
      <3> QED
        BY <1>4, <1>7, <3>1, <3>2
    <2> QED
      BY <1>4, <2>1, <2>2 DEF Nested
  <1>10. Marked(st2, ls, er2)
    <2>1. On(st2) = On(st)
      BY <1>4, <1>7 DEF On, n
    <2> QED
      BY <1>1, <2>1 DEF Marked
  <1>11. ASSUME Blamed(er2) = {} PROVE Settled(dc, st2, ls) /\ LaidOut(st2, ls, ly)
    <2>1. Settled(dc, st, ls) /\ LaidOut(st, ls, ly)
      BY <1>1, <1>11
    <2>2. /\ \A i \in 1..(y.i - 1) : \A t \in Structs : Needs(dc, y.d, i, t) => ls[t] = "done"
          /\ \A j \in 1..Len(y.fields) : Known(y.fields[j].type, ls)
      BY <1>11
    <2>3. Settled(dc, st2, ls)
      <3>1. ASSUME NEW k \in 1..n, NEW i \in 1..(st2[k].i - 1), NEW t \in Structs,
                   Needs(dc, st2[k].d, i, t)
            PROVE  ls[t] = "done"
        <4>1. CASE k = n
          BY <1>4, <2>2, <3>1, <4>1
        <4>2. CASE k \in 1..(n - 1)
          <5>1. st2[k] = st[k]
            BY <1>4, <4>2
          <5> QED
            BY <2>1, <3>1, <5>1 DEF Settled, n
        <4> QED
          BY <1>6, <4>1, <4>2
      <3> QED
        BY <1>4, <2>1, <3>1 DEF Settled
    <2>4. LaidOut(st2, ls, ly)
      <3>1. ASSUME NEW k \in 1..n, NEW j \in 1..Len(st2[k].fields)
            PROVE  Known(st2[k].fields[j].type, ls)
        <4>1. CASE k = n
          BY <1>4, <2>2, <4>1
        <4>2. CASE k \in 1..(n - 1)
          <5>1. st2[k] = st[k]
            BY <1>4, <4>2
          <5> QED
            BY <2>1, <5>1 DEF LaidOut, n
        <4> QED
          BY <1>6, <4>1, <4>2
      <3> QED
        BY <1>4, <2>1, <3>1 DEF LaidOut
    <2> QED
      BY <2>3, <2>4
  <1>12. ASSUME er2 = {} PROVE Complete(dc, st2, ls, ly)
    <2>1. Complete(dc, st, ls, ly) /\ Len(y.fields) = y.i - 1
      BY <1>1, <1>12
    <2>2. \A k \in 1..n : Len(st2[k].fields) = st2[k].i - 1
      BY <1>4, <1>6, <2>1 DEF Complete, n
    <2> QED
      BY <1>4, <2>1, <2>2 DEF Complete
  <1> QED
    BY <1>1, <1>8, <1>9, <1>10, <1>11, <1>12 DEF Core

\* The field is dealt with: either it is not kept, and a diagnostic says why,
\* or it is kept and has a type that is known.
Passed(dc, x, y, er, er2, ls) ==
    \/ /\ y.fields = x.fields
       /\ er2 # {}
    \/ /\ y.fields = Append(x.fields, dc[x.d][x.i])
       /\ er2 = er
       /\ Known(dc[x.d][x.i].type, ls)

\* The loop goes on to the next field.
LEMMA AdvancedOK ==
    ASSUME NEW dc, NEW st, NEW ls, NEW ly, NEW er, Core(dc, st, ls, ly, er), st # <<>>,
           Topmost(st).i <= Len(dc[Topmost(st).d]),
           \A t \in Structs : Needs(dc, Topmost(st).d, Topmost(st).i, t) => ls[t] = "done",
           NEW y \in Frames, y.d = Topmost(st).d, y.i = Topmost(st).i + 1, ~y.asked,
           NEW er2, er2 \subseteq Kinds \X Structs, Blamed(er2) = Blamed(er),
           Passed(dc, Topmost(st), y, er, er2, ls),
           NEW st2 \in Seq(Frames), IsReplaced(st, y, st2)
    PROVE  Core(dc, st2, ls, ly, er2) /\ Answered(dc, st2, ls)
  <1> DEFINE n == Len(st)
             x == Topmost(st)
  <1>1. /\ Typed(dc, st, ls, ly, er)
        /\ Blamed(er) = {} => Settled(dc, st, ls) /\ LaidOut(st, ls, ly)
        /\ er = {} => Complete(dc, st, ls, ly)
    BY DEF Core
  <1>2. st \in Seq(Frames) /\ dc \in [Structs -> Bodies] /\ \A k \in 1..n : FrameOK(dc, st[k])
    BY <1>1 DEF Typed
  <1>3. n \in 1..n
    BY <1>2, EmptySeq
  <1>4. st[n] = x
    BY DEF Topmost
  <1> HIDE DEF n, x
  <1>5. x \in Frames /\ FrameOK(dc, x)
    BY <1>2, <1>3, <1>4, StackParts DEF n
  <1>6. /\ x.d \in Structs /\ x.i \in Nat /\ x.fields \in Seq(FieldDecls) /\ Len(x.fields) \in Nat
        /\ y.i \in Nat /\ Len(y.fields) \in Nat
    BY <1>5, FrameParts
  <1>7. /\ x.i <= Len(dc[x.d]) /\ y.d = x.d /\ y.i = x.i + 1 /\ ~y.asked
        /\ Passed(dc, x, y, er, er2, ls)
        /\ \A t \in Structs : Needs(dc, x.d, x.i, t) => ls[t] = "done"
    BY DEF x
  <1>8. /\ x.i \in 1..(Len(dc[x.d]) + 1) /\ Len(x.fields) < x.i
        /\ \A j \in 1..Len(x.fields) : x.fields[j].type.leaf \in Structs \cup Builtins
    BY <1>5 DEF FrameOK
  <1>9. Len(dc[x.d]) \in Nat /\ \A i \in 1..Len(dc[x.d]) : dc[x.d][i] \in FieldDecls
    BY <1>2, <1>6, BodyParts
  <1>10. x.i \in 1..Len(dc[x.d]) /\ y.i - 1 = x.i /\ y.i \in 1..(Len(dc[x.d]) + 1)
    BY <1>6, <1>7, <1>8, <1>9
  <1>11. ASSUME y.fields = Append(x.fields, dc[x.d][x.i])
         PROVE  /\ Len(y.fields) = Len(x.fields) + 1
                /\ \A j \in 1..Len(y.fields) :
                      \/ j \in 1..Len(x.fields) /\ y.fields[j] = x.fields[j]
                      \/ y.fields[j] = dc[x.d][x.i]
    <2> DEFINE f == dc[x.d][x.i]
    <2>1. f \in FieldDecls
      BY <1>9, <1>10
    <2> HIDE DEF f
    <2>2. /\ Len(Append(x.fields, f)) = Len(x.fields) + 1
          /\ \A j \in 1..Len(x.fields) : Append(x.fields, f)[j] = x.fields[j]
          /\ Append(x.fields, f)[Len(x.fields) + 1] = f
      BY <1>6, <2>1, AppendProperties
    <2>3. y.fields = Append(x.fields, f)
      BY <1>11 DEF f
    <2>4. Len(y.fields) = Len(x.fields) + 1
      BY ONLY <2>2, <2>3
    <2>5. ASSUME NEW j \in 1..(Len(x.fields) + 1)
          PROVE  (j \in 1..Len(x.fields) /\ y.fields[j] = x.fields[j]) \/ y.fields[j] = f
      <3>1. j \in 1..Len(x.fields) \/ j = Len(x.fields) + 1
        BY <1>6
      <3>2. ASSUME j \in 1..Len(x.fields) PROVE y.fields[j] = x.fields[j]
        BY ONLY <2>2, <2>3, <3>2
      <3>3. ASSUME j = Len(x.fields) + 1 PROVE y.fields[j] = f
        BY ONLY <2>2, <2>3, <3>3
      <3> QED
        BY <3>1, <3>2, <3>3
    <2> QED
      BY <2>4, <2>5 DEF f
  <1>12. FrameOK(dc, y)
    <2>1. CASE y.fields = x.fields
      <3>1. Len(y.fields) < y.i
        BY <1>6, <1>7, <1>8, <2>1
      <3> QED
        BY <1>7, <1>8, <1>10, <2>1, <3>1 DEF FrameOK
    <2>2. CASE y.fields = Append(x.fields, dc[x.d][x.i]) /\ Known(dc[x.d][x.i].type, ls)
      <3>1. dc[x.d][x.i].type.leaf \in Structs \cup Builtins
        BY <2>2 DEF Known
      <3>2. Len(y.fields) < y.i
        BY <1>6, <1>7, <1>8, <1>11, <2>2
      <3>3. \A j \in 1..Len(y.fields) : y.fields[j].type.leaf \in Structs \cup Builtins
        BY <1>8, <1>11, <2>2, <3>1
      <3> QED
        BY <1>7, <1>10, <3>2, <3>3 DEF FrameOK
    <2> QED
      BY <1>7, <2>1, <2>2 DEF Passed
  <1>13. ASSUME Blamed(er) = {}
         PROVE  /\ \A i \in 1..(y.i - 1) : \A t \in Structs : Needs(dc, y.d, i, t) => ls[t] = "done"
                /\ \A j \in 1..Len(y.fields) : Known(y.fields[j].type, ls)
    <2>1. Settled(dc, st, ls) /\ LaidOut(st, ls, ly)
      BY <1>1, <1>13
    <2>2. \A i \in 1..(x.i - 1) : \A t \in Structs : Needs(dc, x.d, i, t) => ls[t] = "done"
      BY <1>3, <1>4, <2>1 DEF Settled, n
    <2>3. \A i \in 1..(y.i - 1) : i \in 1..(x.i - 1) \/ i = x.i
      BY <1>6, <1>7
    <2>4. \A j \in 1..Len(x.fields) : Known(x.fields[j].type, ls)
      BY <1>3, <1>4, <2>1 DEF LaidOut, n
    <2>5. CASE y.fields = x.fields
      BY <1>7, <2>2, <2>3, <2>4, <2>5
    <2>6. CASE y.fields = Append(x.fields, dc[x.d][x.i]) /\ Known(dc[x.d][x.i].type, ls)
      <3>1. \A j \in 1..Len(y.fields) : Known(y.fields[j].type, ls)
        BY <1>11, <2>4, <2>6
      <3> QED
        BY <1>7, <2>2, <2>3, <3>1
    <2> QED
      BY <1>7, <2>5, <2>6 DEF Passed
  <1>14. ASSUME er2 = {} PROVE er = {} /\ Len(y.fields) = y.i - 1
    <2>1. y.fields = Append(x.fields, dc[x.d][x.i]) /\ er = {}
      BY <1>7, <1>14 DEF Passed
    <2>2. Len(x.fields) = x.i - 1
      BY <1>1, <1>3, <1>4, <2>1 DEF Complete, n
    <2>3. Len(y.fields) = Len(x.fields) + 1
      BY <1>11, <2>1
    <2> QED
      BY <1>6, <1>7, <2>1, <2>2, <2>3
  <1>15. Core(dc, st2, ls, ly, er2)
    BY <1>12, <1>13, <1>14, ReplacedOK
  <1>16. Topmost(st2) = y
    BY DEF IsReplaced, Topmost
  <1>17. Answered(dc, st2, ls)
    BY <1>7, <1>16 DEF Answered
  <1> QED
    BY <1>15, <1>17

\* The field asks for a layout.
LEMMA AskedOK ==
    ASSUME NEW dc, NEW st, NEW ls, NEW ly, NEW er, Core(dc, st, ls, ly, er), st # <<>>,
           Topmost(st).i <= Len(dc[Topmost(st).d]),
           Needs(dc, Topmost(st).d, Topmost(st).i, Asks(dc, Topmost(st))),
           NEW y \in Frames, y.d = Topmost(st).d, y.i = Topmost(st).i,
           y.fields = Topmost(st).fields,
           NEW st2 \in Seq(Frames), IsReplaced(st, y, st2)
    PROVE  Core(dc, st2, ls, ly, er)
  <1> DEFINE n == Len(st)
             x == Topmost(st)
  <1>1. /\ Typed(dc, st, ls, ly, er)
        /\ Blamed(er) = {} => Settled(dc, st, ls) /\ LaidOut(st, ls, ly)
        /\ er = {} => Complete(dc, st, ls, ly)
    BY DEF Core
  <1>2. st \in Seq(Frames) /\ er \subseteq Kinds \X Structs /\ \A k \in 1..n : FrameOK(dc, st[k])
    BY <1>1 DEF Typed
  <1>3. n \in 1..n
    BY <1>2, EmptySeq
  <1>4. st[n] = x
    BY DEF Topmost
  <1> HIDE DEF n, x
  <1>5. FrameOK(dc, x)
    BY <1>2, <1>3, <1>4
  <1>6. /\ x.i <= Len(dc[x.d]) /\ y.d = x.d /\ y.i = x.i /\ y.fields = x.fields
        /\ Needs(dc, x.d, x.i, Asks(dc, x))
    BY DEF x
  <1>7. FrameOK(dc, y)
    BY <1>5, <1>6 DEF FrameOK, Asks
  <1>8. ASSUME Blamed(er) = {}
        PROVE  /\ \A i \in 1..(y.i - 1) : \A t \in Structs : Needs(dc, y.d, i, t) => ls[t] = "done"
               /\ \A j \in 1..Len(y.fields) : Known(y.fields[j].type, ls)
    BY <1>1, <1>3, <1>4, <1>6, <1>8 DEF Settled, LaidOut, n
  <1>9. er = {} => er = {} /\ Len(y.fields) = y.i - 1
    BY <1>1, <1>3, <1>4, <1>6 DEF Complete, n
  <1> QED
    BY <1>2, <1>7, <1>8, <1>9, ReplacedOK

-----------------------------------------------------------------------------
(* The end of the loop: SetFields. *)

\* A type that is known has the size and alignment it had when the layout of
\* another struct is recorded.
LEMMA KnownSame ==
    ASSUME NEW ls, NEW d \in Structs, ls[d] # "done", NEW t, Known(t, ls),
           NEW ly, NEW ly2,
           \A s \in Structs : ly[s].size \in Nat /\ ly2[s].size \in Nat,
           \A s \in Structs : s # d => ly2[s] = ly[s]
    PROVE  Size(t, ly2) = Size(t, ly) /\ Align(t, ly2) = Align(t, ly)
  <1>1. t \in FieldTypes /\ t.leaf \in Structs \cup Builtins /\ (Forced(t) => ls[t.leaf] = "done")
    BY DEF Known
  <1>2. LeafSize(t.leaf, ly) \in Nat /\ LeafSize(t.leaf, ly2) \in Nat
    <2>1. \A b \in Builtins : BuiltinSize[b] \in Nat
      BY BasicSizes
    <2> QED
      BY <1>1, <2>1 DEF LeafSize
  <1>3. CASE t.leaf \in Builtins \/ t.leaf # d
    <2>1. LeafSize(t.leaf, ly2) = LeafSize(t.leaf, ly) /\ LeafAlign(t.leaf, ly2) = LeafAlign(t.leaf, ly)
      BY <1>1, <1>3 DEF LeafSize, LeafAlign
    <2>2. Size(t, ly2) = Size(t, ly)
      BY <1>1, <1>2, <2>1, SizeIndependent
    <2>3. Align(t, ly2) = Align(t, ly)
      BY <2>1 DEF Align
    <2> QED
      BY <2>2, <2>3
  <1>4. CASE t.leaf \notin Builtins /\ t.leaf = d
    <2>1. ~Forced(t)
      BY <1>1, <1>4
    <2>2. \E i \in DOMAIN t.wrap : t.wrap[i] = Ptr /\ ~(i < Len(t.wrap))
      BY <1>4, <2>1 DEF Forced
    <2>3. Size(t, ly2) = Size(t, ly)
      BY <1>1, <1>2, <2>2, SizeIndependent
    <2>4. Align(t, ly2) = Align(t, ly)
      BY <2>2 DEF Align
    <2> QED
      BY <2>3, <2>4
  <1> QED
    BY <1>3, <1>4

\* The sizes and alignments of fields of a known leaf are what SetFields takes.
LEMMA FieldSizes ==
    ASSUME NEW t \in FieldTypes, t.leaf \in Structs \cup Builtins, NEW ly,
           \A s \in Structs : ly[s].size \in Nat /\ ly[s].align \in Alignments \cup {0}
    PROVE  Size(t, ly) \in Nat /\ Align(t, ly) \in Alignments \cup {0}
  <1>1. LeafSize(t.leaf, ly) \in Nat /\ LeafAlign(t.leaf, ly) \in Alignments \cup {0}
    BY BasicSizes DEF LeafSize, LeafAlign, Alignments
  <1>2. Size(t, ly) \in Nat
    BY <1>1, SizeNat
  <1>3. Align(t, ly) \in Alignments \cup {0}
    BY <1>1, BasicSizes DEF Align, Alignments
  <1> QED
    BY <1>2, <1>3

\* A known type is aligned.
LEMMA KnownAligned ==
    ASSUME NEW ls, NEW ly, NEW t, Known(t, ls),
           \A s \in Structs : ls[s] = "done" => ly[s].align \in Alignments
    PROVE  Align(t, ly) \in Alignments
  <1>1. t \in FieldTypes /\ t.leaf \in Structs \cup Builtins /\ (Forced(t) => ls[t.leaf] = "done")
    BY DEF Known
  <1>2. CASE \E i \in DOMAIN t.wrap : t.wrap[i] = Ptr
    BY <1>2, BasicSizes DEF Align, Alignments
  <1>3. CASE /\ ~\E i \in DOMAIN t.wrap : t.wrap[i] = Ptr
             /\ t.leaf \in Builtins
    BY <1>3, BasicSizes DEF Align, LeafAlign, Alignments
  <1>4. CASE /\ ~\E i \in DOMAIN t.wrap : t.wrap[i] = Ptr
             /\ t.leaf \notin Builtins
    <2>1. Forced(t)
      BY <1>1, <1>4 DEF Forced
    <2>2. ly[t.leaf].align \in Alignments
      BY <1>1, <1>4, <2>1
    <2> QED
      BY <1>4, <2>2 DEF Align, LeafAlign
  <1> QED
    BY <1>2, <1>3, <1>4

\* Fields of known types stay well laid out when the layout of another struct is recorded.
LEMMA WellLaidSame ==
    ASSUME NEW ls, NEW d \in Structs, ls[d] # "done",
           NEW ly, NEW ly2,
           \A s \in Structs : ly[s].size \in Nat /\ ly2[s].size \in Nat,
           \A s \in Structs : s # d => ly2[s] = ly[s],
           NEW l, Laid(l, ls), WellLaid(l, ly)
    PROVE  WellLaid(l, ly2)
  <1> DEFINE f == l.fields
             n == Len(f)
             End(i, y) == IF i = 0 THEN 0 ELSE f[i].offset + Size(f[i].type, y)
  <1>1. n \in Nat /\ DOMAIN f = 1..n /\ \A i \in 1..n : Known(f[i].type, ls)
    BY DEF Laid
  <1>2. \A i \in 1..n : Size(f[i].type, ly2) = Size(f[i].type, ly) /\ Align(f[i].type, ly2) = Align(f[i].type, ly)
    BY <1>1, KnownSame
  <1>3. \A i \in 0..n : End(i, ly2) = End(i, ly)
    BY <1>1, <1>2
  <1>4. (\A i \in 1..n : i - 1 \in 0..n) /\ n \in 0..n
    BY <1>1
  <1>5. /\ l.align \in Alignments
        /\ \A i \in 1..n :
              LET a == Align(f[i].type, ly)
              IN  /\ f[i].offset % a = 0 /\ End(i - 1, ly) <= f[i].offset
                  /\ f[i].offset < End(i - 1, ly) + a /\ l.align % a = 0
        /\ l.size % l.align = 0 /\ End(n, ly) <= l.size /\ l.size < End(n, ly) + l.align
    BY <1>1 DEF WellLaid
  <1> HIDE DEF End, n
  <1>6. /\ l.align \in Alignments
        /\ \A i \in 1..n :
              LET a == Align(f[i].type, ly2)
              IN  /\ f[i].offset % a = 0 /\ End(i - 1, ly2) <= f[i].offset
                  /\ f[i].offset < End(i - 1, ly2) + a /\ l.align % a = 0
        /\ l.size % l.align = 0 /\ End(n, ly2) <= l.size /\ l.size < End(n, ly2) + l.align
    BY <1>2, <1>3, <1>4, <1>5
  <1> QED
    BY <1>1, <1>6 DEF WellLaid, End, n

\* SetFields lays fields of known types out well.
LEMMA SetFieldsWell ==
    ASSUME NEW fields \in Seq(FieldDecls), NEW ls, NEW ly,
           \A s \in Structs : ly[s].size \in Nat /\ ly[s].align \in Alignments \cup {0},
           \A s \in Structs : ls[s] = "done" => ly[s].align \in Alignments,
           \A j \in 1..Len(fields) : Known(fields[j].type, ls)
    PROVE  /\ Laid(SetFields(fields, ly), ls) /\ WellLaid(SetFields(fields, ly), ly)
           /\ Len(SetFields(fields, ly).fields) = Len(fields)
  <1> DEFINE n == Len(fields)
             r == SetFields(fields, ly)
             A(i) == Align(fields[i].type, ly)
             Z(i) == Size(fields[i].type, ly)
             End(i) == IF i = 0 THEN 0 ELSE r.fields[i].offset + Z(i)
  <1>1. n \in Nat
    BY LenProperties
  <1>2. \A i \in 1..n : /\ Align(fields[i].type, ly) \in Alignments
                        /\ Size(fields[i].type, ly) \in Nat
    <2> TAKE i \in 1..n
    <2>1. Known(fields[i].type, ls)
      OBVIOUS
    <2>2. fields[i].type \in FieldTypes /\ fields[i].type.leaf \in Structs \cup Builtins
      BY <2>1 DEF Known
    <2>3. Align(fields[i].type, ly) \in Alignments
      BY <2>1, KnownAligned
    <2>4. Size(fields[i].type, ly) \in Nat
      BY <2>2, FieldSizes
    <2> QED
      BY <2>3, <2>4
  <1>3. SetOK(fields, ly, r)
    BY <1>2, SetFieldsOK
  <1> HIDE DEF r
  <1>4. /\ DOMAIN r.fields = 1..n /\ Len(r.fields) = n
        /\ \A i \in 1..n : r.fields[i].type = fields[i].type
        /\ r.align \in Alignments
        /\ r.size % r.align = 0 /\ End(n) <= r.size /\ r.size < End(n) + r.align
    BY <1>3 DEF SetOK
  <1>5. \A i \in 1..n : A(i) # 0 =>
               /\ r.fields[i].offset % A(i) = 0 /\ End(i - 1) <= r.fields[i].offset
               /\ r.fields[i].offset < End(i - 1) + A(i) /\ r.align % A(i) = 0
    BY <1>3 DEF SetOK
  <1>6. \A i \in 1..n : A(i) # 0
    BY <1>2 DEF Alignments
  <1>7. Laid(r, ls)
    BY <1>1, <1>4 DEF Laid
  <1> DEFINE E2(i) == IF i = 0 THEN 0 ELSE r.fields[i].offset + Size(r.fields[i].type, ly)
  <1>8. \A i \in 0..n : E2(i) = End(i)
    BY <1>1, <1>4
  <1>9. \A i \in 1..n : Align(r.fields[i].type, ly) = A(i) /\ i - 1 \in 0..n
    BY <1>1, <1>4
  <1> HIDE DEF End, E2, A
  <1>10. /\ \A i \in 1..n :
               LET a == Align(r.fields[i].type, ly)
               IN  /\ r.fields[i].offset % a = 0 /\ E2(i - 1) <= r.fields[i].offset
                   /\ r.fields[i].offset < E2(i - 1) + a /\ r.align % a = 0
         /\ r.size % r.align = 0 /\ E2(n) <= r.size /\ r.size < E2(n) + r.align
    <2>1. n \in 0..n
      BY <1>1
    <2> QED
      BY <1>4, <1>5, <1>6, <1>8, <1>9, <2>1
  <1>11. WellLaid(r, ly)
    BY <1>4, <1>10 DEF WellLaid, E2
  <1> QED
    BY <1>4, <1>7, <1>11 DEF r

\* The innermost activation returns: its struct is done, and laid out by
\* SetFields.
LEMMA FinishedOK ==
    ASSUME NEW dc, NEW st, NEW ls, NEW ly, NEW er, Core(dc, st, ls, ly, er), st # <<>>,
           ~(Topmost(st).i <= Len(dc[Topmost(st).d])),
           NEW ls2 \in [Structs -> States],
           \A s \in Structs : ls2[s] = IF s = Topmost(st).d THEN "done" ELSE ls[s],
           NEW ly2, DOMAIN ly2 = Structs,
           \A s \in Structs : s # Topmost(st).d => ly2[s] = ly[s],
           ly2[Topmost(st).d] = SetFields(Topmost(st).fields, ly),
           NEW st2 \in Seq(Frames), Len(st2) = Len(st) - 1,
           \A k \in 1..(Len(st) - 1) : st2[k] = st[k]
    PROVE  Core(dc, st2, ls2, ly2, er) /\ Answered(dc, st2, ls2)
  <1> DEFINE n == Len(st)
             x == Topmost(st)
             d == x.d
             r == SetFields(x.fields, ly)
  <1>1. /\ Typed(dc, st, ls, ly, er) /\ Nested(dc, st) /\ Marked(st, ls, er)
        /\ Blamed(er) # {} => \E T \in SUBSET Structs : Loop(dc, T)
        /\ Blamed(er) = {} => Settled(dc, st, ls) /\ LaidOut(st, ls, ly)
        /\ er = {} => Complete(dc, st, ls, ly)
    BY DEF Core
  <1>2. /\ st \in Seq(Frames) /\ dc \in [Structs -> Bodies] /\ \A k \in 1..n : FrameOK(dc, st[k])
        /\ \A s \in Structs : ly[s].size \in Nat /\ ly[s].align \in Alignments \cup {0}
    BY <1>1 DEF Typed
  <1>3. n \in Nat \ {0} /\ \A k \in 1..n : st[k] \in Frames
    BY <1>2, StackParts, EmptySeq
  <1>4. st[n] = x /\ Len(st2) = n - 1 /\ \A k \in 1..(n - 1) : st2[k] = st[k]
    BY DEF Topmost
  <1>5. /\ ~(x.i <= Len(dc[d])) /\ ly2[d] = r
        /\ \A s \in Structs : ls2[s] = IF s = d THEN "done" ELSE ls[s]
        /\ \A s \in Structs : s # d => ly2[s] = ly[s]
    OBVIOUS
  <1> HIDE DEF n, x
  <1>6. n \in 1..n /\ (\A k \in 1..n : k \in 1..(n - 1) \/ k = n) /\ (\A k \in 1..(n - 1) : k \in 1..n /\ k # n)
    BY <1>3
  <1>7. x \in Frames /\ FrameOK(dc, x)
    BY <1>2, <1>3, <1>4, <1>6
  <1>8. /\ d \in Structs /\ x.i \in Nat /\ x.fields \in Seq(FieldDecls) /\ Len(x.fields) \in Nat
        /\ \A j \in 1..Len(x.fields) : x.fields[j].type \in FieldTypes
    BY <1>7, FrameParts
  <1>9. Len(dc[d]) \in Nat /\ x.i = Len(dc[d]) + 1
    <2>1. Len(dc[d]) \in Nat /\ x.i \in 1..(Len(dc[d]) + 1)
      BY <1>2, <1>7, <1>8, BodyParts DEF FrameOK
    <2> QED
      BY <1>5, <2>1
  <1>10. d \in On(st)
    BY <1>4, <1>6 DEF On, n
  <1> HIDE DEF d, r
  <1>11. Typed(dc, st2, ls2, ly2, er)
    <2>1. \A k \in 1..(n - 1) : FrameOK(dc, st2[k])
      BY <1>2, <1>4, <1>6
    <2>2. r.size \in Nat /\ r.align \in Alignments
      <3>1. \A j \in 1..Len(x.fields) : x.fields[j].type.leaf \in Structs \cup Builtins
        BY <1>7 DEF FrameOK
      <3>2. \A j \in 1..Len(x.fields) :
                /\ Align(x.fields[j].type, ly) \in Alignments \cup {0}
                /\ Size(x.fields[j].type, ly) \in Nat
        BY <1>2, <1>8, <3>1, FieldSizes
      <3>3. SetOK(x.fields, ly, r)
        BY <1>8, <3>2, SetFieldsOK DEF r
      <3> QED
        BY <3>3 DEF SetOK
    <2>3. \A s \in Structs : ly2[s].size \in Nat /\ ly2[s].align \in Alignments \cup {0}
      BY <1>2, <1>5, <2>2
    <2> QED
      BY <1>1, <1>4, <2>1, <2>3 DEF Typed
  <1>12. Nested(dc, st2)
    <2>1. ASSUME NEW j \in 1..(n - 1), NEW k \in 1..(n - 1), st2[j].d = st2[k].d PROVE j = k
      <3>1. j \in 1..n /\ k \in 1..n /\ st2[j] = st[j] /\ st2[k] = st[k]
        BY <1>4, <1>6
      <3>2. st[j].d = st[k].d
        BY <2>1, <3>1
      <3> QED
        BY <1>1, <3>1, <3>2 DEF Nested, n
    <2>2. ASSUME NEW k \in 1..((n - 1) - 1) PROVE st2[k].asked /\ Asks(dc, st2[k]) = st2[k + 1].d
      <3>1. k \in 1..(n - 1) /\ k + 1 \in 1..(n - 1)
        BY <1>3
      <3> QED
        BY <1>1, <1>4, <3>1 DEF Nested, n
    <2> QED
      BY <1>4, <2>1, <2>2 DEF Nested
  <1>13. Marked(st2, ls2, er)
    <2>1. d \notin On(st2)
      <3>1. ASSUME NEW k \in 1..(n - 1), st2[k].d = d PROVE FALSE
        <4>1. st[k].d = st[n].d /\ k \in 1..n /\ k # n
          BY <1>4, <1>6, <3>1 DEF d
        <4> QED
          BY <1>1, <1>6, <4>1 DEF Nested, n
      <3> QED
        BY <1>4, <3>1 DEF On
    <2>2. \A s : s # d => (s \in On(st2) <=> s \in On(st))
      <3>1. On(st2) \subseteq On(st)
        BY <1>4, <1>6 DEF On, n
      <3>2. ASSUME NEW k \in 1..n, st[k].d # d PROVE st[k].d \in On(st2)
        <4>1. k \in 1..(n - 1)
          BY <1>4, <1>6, <3>2 DEF d
        <4> QED
          BY <1>4, <4>1 DEF On
      <3> QED
        BY <3>1, <3>2 DEF On, n
    <2>3. ls2[d] = "done"
      BY <1>5, <1>8
    <2>4. \A s \in Structs : s # d => ls2[s] = ls[s]
      BY <1>5
    <2> QED
      BY <1>1, <2>1, <2>2, <2>3, <2>4 DEF Marked
  <1>14. \A s \in Structs : ls[s] = "done" => ls2[s] = "done"
    BY <1>5
  <1>15. ASSUME Blamed(er) = {} PROVE Settled(dc, st2, ls2)
    <2>1. Settled(dc, st, ls)
      BY <1>1, <1>15
    <2>2. ls[d] # "done"
      BY <1>1, <1>8, <1>10, <1>15 DEF Marked
    <2>3. \A t \in Structs : Edge(dc, d, t) => ls[t] = "done"
      <3>1. \A i \in 1..(x.i - 1) : \A t \in Structs : Needs(dc, d, i, t) => ls[t] = "done"
        BY <1>4, <1>6, <2>1 DEF Settled, n, d
      <3>2. x.i - 1 = Len(dc[d])
        BY <1>9
      <3> QED
        BY <3>1, <3>2 DEF Edge
    <2>4. \A s, t \in Structs : ls[s] = "done" /\ Edge(dc, s, t) => ls[t] = "done"
      BY <2>1 DEF Settled
    <2>5. \A s \in Structs : ls2[s] = "done" => ls[s] = "done" \/ s = d
      BY <1>5
    <2>6. \A s, t \in Structs : ls2[s] = "done" /\ Edge(dc, s, t) => ls[t] = "done"
      BY <2>3, <2>4, <2>5
    <2>7. ASSUME NEW T \in SUBSET Structs, \A s \in T : ls2[s] = "done", Loop(dc, T) PROVE FALSE
      <3> DEFINE U == T \ {d}
      <3>1. T # {} /\ \A s \in T : \E t \in T : Edge(dc, s, t)
        BY <2>7 DEF Loop
      <3>2. \A s \in T : \E t \in U : Edge(dc, s, t)
        <4> TAKE s \in T
        <4>1. PICK t \in T : Edge(dc, s, t)
          BY <3>1
        <4>2. ls[t] = "done"
          BY <2>6, <2>7, <4>1
        <4>3. t \in U
          BY <2>2, <4>2
        <4> QED
          BY <4>1, <4>3
      <3>3. U # {}
        BY <3>1, <3>2
      <3>4. Loop(dc, U) /\ U \in SUBSET Structs
        BY <3>2, <3>3 DEF Loop
      <3>5. \A s \in U : ls[s] = "done"
        BY <2>5, <2>7
      <3> QED
        BY <2>1, <3>4, <3>5 DEF Settled
    <2>8. ASSUME NEW k \in 1..(n - 1), NEW i \in 1..(st2[k].i - 1), NEW t \in Structs,
                 Needs(dc, st2[k].d, i, t)
          PROVE  ls2[t] = "done"
      <3>1. st2[k] = st[k] /\ k \in 1..n
        BY <1>4, <1>6
      <3>2. ls[t] = "done"
        BY <2>1, <2>8, <3>1 DEF Settled, n
      <3> QED
        BY <1>14, <3>2
    <2> QED
      BY <1>4, <1>14, <2>6, <2>7, <2>8 DEF Settled
  <1>16. ASSUME Blamed(er) = {} PROVE LaidOut(st2, ls2, ly2)
    <2>1. LaidOut(st, ls, ly)
      BY <1>1, <1>16
    <2>2. ls[d] # "done"
      BY <1>1, <1>8, <1>10, <1>16 DEF Marked
    <2>3. \A s \in Structs : ls[s] = "done" => WellLaid(ly[s], ly) /\ Laid(ly[s], ls)
      BY <2>1 DEF LaidOut
    <2>4. \A s \in Structs : ly[s].size \in Nat /\ ly2[s].size \in Nat
      BY <1>2, <1>11 DEF Typed
    <2>5. \A l : Laid(l, ls) /\ WellLaid(l, ly) => WellLaid(l, ly2)
      BY <1>5, <1>8, <2>2, <2>4, WellLaidSame
    <2>6. \A t : Known(t, ls) => Known(t, ls2)
      BY <1>14 DEF Known, Forced
    <2>7. \A l : Laid(l, ls) => Laid(l, ls2)
      BY <2>6 DEF Laid
    <2>8. Laid(r, ls) /\ WellLaid(r, ly)
      <3>1. \A s \in Structs : ls[s] = "done" => ly[s].align \in Alignments
        BY <2>3 DEF WellLaid
      <3>2. \A j \in 1..Len(x.fields) : Known(x.fields[j].type, ls)
        BY <1>4, <1>6, <2>1 DEF LaidOut, n
      <3> QED
        BY <1>2, <1>8, <3>1, <3>2, SetFieldsWell DEF r
    <2>9. ASSUME NEW s \in Structs, ls2[s] = "done" PROVE WellLaid(ly2[s], ly2) /\ Laid(ly2[s], ls2)
      <3>1. CASE s = d
        BY <1>5, <2>5, <2>7, <2>8, <3>1
      <3>2. CASE s # d
        <4>1. ls[s] = "done" /\ ly2[s] = ly[s]
          BY <1>5, <2>9, <3>2
        <4> QED
          BY <2>3, <2>5, <2>7, <4>1
      <3> QED
        BY <3>1, <3>2
    <2>10. ASSUME NEW k \in 1..(n - 1), NEW j \in 1..Len(st2[k].fields)
           PROVE  Known(st2[k].fields[j].type, ls2)
      <3>1. st2[k] = st[k] /\ k \in 1..n
        BY <1>4, <1>6
      <3>2. Known(st[k].fields[j].type, ls)
        BY <2>1, <3>1 DEF LaidOut, n
      <3> QED
        BY <2>6, <3>1, <3>2
    <2> QED
      BY <1>4, <2>9, <2>10 DEF LaidOut
  <1>17. ASSUME er = {} PROVE Complete(dc, st2, ls2, ly2)
    <2>1. Complete(dc, st, ls, ly)
      BY <1>1, <1>17
    <2>2. Len(x.fields) = x.i - 1
      BY <1>4, <1>6, <2>1 DEF Complete, n
    <2>3. Len(r.fields) = Len(x.fields)
      <3>1. \A j \in 1..Len(x.fields) : x.fields[j].type.leaf \in Structs \cup Builtins
        BY <1>7 DEF FrameOK
      <3>2. \A j \in 1..Len(x.fields) :
                /\ Align(x.fields[j].type, ly) \in Alignments \cup {0}
                /\ Size(x.fields[j].type, ly) \in Nat
        BY <1>2, <1>8, <3>1, FieldSizes
      <3>3. SetOK(x.fields, ly, r)
        BY <1>8, <3>2, SetFieldsOK DEF r
      <3> QED
        BY <3>3 DEF SetOK
    <2>4. Len(r.fields) = Len(dc[d])
      BY <1>8, <1>9, <2>2, <2>3
    <2>5. ASSUME NEW s \in Structs, ls2[s] = "done" PROVE Len(ly2[s].fields) = Len(dc[s])
      <3>1. CASE s = d
        BY <1>5, <2>4, <3>1
      <3>2. CASE s # d
        BY <1>5, <2>1, <2>5, <3>2 DEF Complete
      <3> QED
        BY <3>1, <3>2
    <2>6. \A k \in 1..(n - 1) : Len(st2[k].fields) = st2[k].i - 1
      BY <1>4, <1>6, <2>1 DEF Complete, n
    <2> QED
      BY <1>4, <2>5, <2>6 DEF Complete
  <1>18. Answered(dc, st2, ls2)
    <2> SUFFICES ASSUME st2 # <<>>, Topmost(st2).asked PROVE ls2[Asks(dc, Topmost(st2))] = "done"
      BY DEF Answered
    <2>1. Len(st2) \in Nat \ {0}
      BY EmptySeq
    <2>2. n - 1 \in 1..(n - 1) /\ (n - 1) + 1 = n
      BY <1>3, <1>4, <2>1
    <2>3. Topmost(st2) = st[n - 1]
      BY <1>4, <2>2 DEF Topmost
    <2>4. Asks(dc, st[n - 1]) = d
      BY <1>1, <1>4, <2>2 DEF Nested, n, d
    <2> QED
      BY <1>5, <1>8, <2>3, <2>4
  <1> QED
    BY <1>1, <1>11, <1>12, <1>13, <1>15, <1>16, <1>17, <1>18 DEF Core

-----------------------------------------------------------------------------
(* The invariant of the pass. *)

LayoutIInv == LayoutInv(decl, next, stack, layoutState, layout, errs)

\* The names of the declarations.
LEMMA DeclOrderParts ==
    /\ Len(DeclOrder) \in Nat
    /\ Structs = {DeclOrder[j] : j \in 1..Len(DeclOrder)}
    /\ \A j \in 1..Len(DeclOrder) : DeclOrder[j] \in Structs
  <1>1. Len(DeclOrder) \in Nat /\ DOMAIN DeclOrder = 1..Len(DeclOrder)
    BY BodiesOK, LenProperties
  <1> QED
    BY <1>1 DEF Structs

\* It holds before the first declaration.
LEMMA InitInv == Init => LayoutIInv
  <1> SUFFICES ASSUME Init PROVE LayoutIInv
    OBVIOUS
  <1>1. /\ decl \in [Structs -> Bodies] /\ next = 1 /\ stack = <<>> /\ errs = {}
        /\ \A s \in Structs : layoutState[s] = "new"
        /\ layoutState \in [Structs -> States]
        /\ DOMAIN layout = Structs /\ \A s \in Structs : layout[s] = NotLaidOut
    BY DEF Init, States
  <1>2. stack \in Seq(Frames) /\ Len(stack) = 0
    BY <1>1, EmptySeq
  <1>3. 1..Len(stack) = {} /\ 1..(Len(stack) - 1) = {}
    BY <1>2
  <1>4. On(stack) = {} /\ Blamed(errs) = {}
    BY <1>1, <1>3 DEF On, Blamed
  <1>5. Typed(decl, stack, layoutState, layout, errs)
    BY <1>1, <1>2, <1>3 DEF Typed, NotLaidOut
  <1>6. Nested(decl, stack) /\ Marked(stack, layoutState, errs)
    BY <1>1, <1>3, <1>4 DEF Nested, Marked
  <1>7. Settled(decl, stack, layoutState)
    BY <1>1, <1>3 DEF Settled, Loop
  <1>8. LaidOut(stack, layoutState, layout) /\ Complete(decl, stack, layoutState, layout)
    BY <1>1, <1>3 DEF LaidOut, Complete
  <1>9. Core(decl, stack, layoutState, layout, errs)
    BY <1>4, <1>5, <1>6, <1>7, <1>8 DEF Core
  <1>10. Answered(decl, stack, layoutState)
    BY <1>1 DEF Answered
  <1>11. Started(next, layoutState)
    <2>1. 1 \in 1..(Len(DeclOrder) + 1) /\ 1..(1 - 1) = {}
      BY DeclOrderParts
    <2> QED
      BY <1>1, <2>1 DEF Started
  <1> QED
    BY <1>9, <1>10, <1>11 DEF LayoutIInv, LayoutInv

\* The call that resolve makes keeps it.
LEMMA LayOutNextInv == LayoutIInv /\ LayOutNext => LayoutIInv'
  <1> SUFFICES ASSUME LayoutIInv, LayOutNext PROVE LayoutIInv'
    OBVIOUS
  <1> DEFINE d == DeclOrder[next]
  <1>1. /\ Core(decl, stack, layoutState, layout, errs) /\ Started(next, layoutState)
    BY DEF LayoutIInv, LayoutInv
  <1>2. /\ stack = <<>> /\ next <= Len(DeclOrder) /\ next' = next + 1
        /\ decl' = decl /\ layout' = layout
    BY DEF LayOutNext
  <1>3. Entered(d, <<>>, layoutState, errs, stack', layoutState', errs')
    BY DEF LayOutNext, Enter, Report, Entered
  <1>4. next \in 1..Len(DeclOrder) /\ Len(DeclOrder) \in Nat
    BY <1>1, <1>2, DeclOrderParts DEF Started
  <1>5. d \in Structs
    BY <1>4, DeclOrderParts
  <1>6. Core(decl, <<>>, layoutState, layout, errs)
    BY <1>1, <1>2
  <1> HIDE DEF d
  <1>7. /\ Core(decl, stack', layoutState', layout, errs') /\ Answered(decl, stack', layoutState')
        /\ layoutState'[d] # "new" /\ \A s \in Structs : layoutState[s] # "new" => layoutState'[s] # "new"
    BY <1>3, <1>5, <1>6, EnterOK
  <1>8. Started(next + 1, layoutState')
    <2>1. /\ \A j \in 1..(next - 1) : layoutState[DeclOrder[j]] # "new"
      BY <1>1 DEF Started
    <2>2. ASSUME NEW j \in 1..next PROVE layoutState'[DeclOrder[j]] # "new"
      <3>1. j \in 1..(next - 1) \/ j = next
        BY <1>4
      <3>2. DeclOrder[j] \in Structs
        BY <1>4, DeclOrderParts
      <3> QED
        BY <1>7, <2>1, <3>1, <3>2 DEF d
    <2>3. next + 1 \in 1..(Len(DeclOrder) + 1) /\ (next + 1) - 1 = next
      BY <1>4
    <2> QED
      BY <2>2, <2>3 DEF Started
  <1> QED
    BY <1>2, <1>7, <1>8 DEF LayoutIInv, LayoutInv

\* The field that the innermost activation is at.
LEMMA AtTop ==
    ASSUME LayoutIInv, stack # <<>>
    PROVE  /\ Topmost(stack) \in Frames /\ FrameOK(decl, Topmost(stack))
           /\ Top = Topmost(stack) /\ Below = SubSeq(stack, 1, Len(stack) - 1)
           /\ Fields = decl[Topmost(stack).d] /\ Field = decl[Topmost(stack).d][Topmost(stack).i]
           /\ stack \in Seq(Frames) /\ decl \in [Structs -> Bodies] /\ Topmost(stack).d \in Structs
           /\ layoutState \in [Structs -> States] /\ errs \subseteq Kinds \X Structs
  <1>1. /\ stack \in Seq(Frames) /\ decl \in [Structs -> Bodies]
        /\ \A k \in 1..Len(stack) : FrameOK(decl, stack[k])
        /\ layoutState \in [Structs -> States] /\ errs \subseteq Kinds \X Structs
    BY DEF LayoutIInv, LayoutInv, Core, Typed
  <1>2. Len(stack) \in 1..Len(stack)
    BY <1>1, EmptySeq
  <1>3. Topmost(stack) \in Frames /\ FrameOK(decl, Topmost(stack))
    BY <1>1, <1>2, StackParts DEF Topmost
  <1>4. Topmost(stack).d \in Structs
    BY <1>3, FrameParts
  <1> QED
    BY <1>1, <1>3, <1>4 DEF Top, Below, Fields, Field, Topmost

\* The activation at its next field, with the fields it kept before.
LEMMA NextFrame ==
    ASSUME NEW x \in Frames, NEW fs \in Seq(FieldDecls)
    PROVE  LET y == [[x EXCEPT !.i = @ + 1, !.asked = FALSE] EXCEPT !.fields = fs]
           IN  y \in Frames /\ y.d = x.d /\ y.i = x.i + 1 /\ ~y.asked /\ y.fields = fs
  <1> DEFINE y == [[x EXCEPT !.i = @ + 1, !.asked = FALSE] EXCEPT !.fields = fs]
  <1>1. y \in Frames
    <2> DEFINE v == [x EXCEPT !.i = @ + 1]
               w == [v EXCEPT !.asked = FALSE]
    <2>1. v \in Frames
      <3>1. x.i + 1 \in Nat
        BY FrameParts
      <3> QED
        BY <3>1 DEF Frames
    <2> HIDE DEF v
    <2>2. w \in Frames
      BY <2>1 DEF Frames
    <2> HIDE DEF w
    <2>3. [w EXCEPT !.fields = fs] \in Frames
      BY <2>2 DEF Frames
    <2>4. y = [w EXCEPT !.fields = fs]
      BY DEF v, w
    <2> HIDE DEF y
    <2> QED
      BY <2>3, <2>4
  <1>2. ~y.asked
    BY DEF Frames
  <1>3. y.d = x.d /\ y.i = x.i + 1 /\ y.fields = fs
    BY DEF Frames
  <1> QED
    BY <1>1, <1>2, <1>3

\* The activation when its field has asked for a layout.
LEMMA AskedFrame ==
    ASSUME NEW x \in Frames
    PROVE  LET y == [x EXCEPT !.asked = TRUE]
           IN  y \in Frames /\ y.d = x.d /\ y.i = x.i /\ y.asked /\ y.fields = x.fields
  BY DEF Frames

\* What reaches the end of a step of the loop: the field forces nothing, or
\* what it forces is laid out.
LEMMA NothingForced ==
    ASSUME LayoutIInv, stack # <<>>, Topmost(stack).i <= Len(decl[Topmost(stack).d]),
           Topmost(stack).asked \/ Duplicate \/ Undefined \/ ~Forced(Field.type)
    PROVE  \A t \in Structs : Needs(decl, Topmost(stack).d, Topmost(stack).i, t)
                              => layoutState[t] = "done"
  <1> DEFINE x == Topmost(stack)
  <1>1. Top = x /\ Fields = decl[x.d] /\ Field = decl[x.d][x.i]
    BY AtTop
  <1>2. Answered(decl, stack, layoutState)
    BY DEF LayoutIInv, LayoutInv
  <1>3. ASSUME x.asked PROVE layoutState[Asks(decl, x)] = "done"
    BY <1>2, <1>3 DEF Answered
  <1>4. ASSUME Duplicate \/ Undefined \/ ~Forced(Field.type), NEW t \in Structs,
               Needs(decl, x.d, x.i, t)
        PROVE  FALSE
    <2> HIDE DEF x
    <2>1. CASE Duplicate
      BY <1>1, <1>4, <2>1 DEF Duplicate, Needs
    <2>2. CASE Undefined
      BY <1>1, <1>4, <2>2 DEF Undefined, Needs
    <2>3. CASE ~Forced(Field.type)
      BY <1>1, <1>4, <2>3 DEF Needs
    <2> QED
      BY <1>4, <2>1, <2>2, <2>3
  <1> HIDE DEF x
  <1>5. \A t : Needs(decl, x.d, x.i, t) => Asks(decl, x) = t
    BY DEF Needs, Asks
  <1> QED
    BY <1>3, <1>4, <1>5 DEF x

\* A diagnostic that is not of a cycle.
LEMMA Reporting ==
    ASSUME LayoutIInv, NEW d \in Structs, NEW kind \in Kinds, kind # "containsItself",
           NEW er2, er2 = errs \cup {<<kind, d>>}
    PROVE  er2 \subseteq Kinds \X Structs /\ Blamed(er2) = Blamed(errs) /\ er2 # {}
  <1>1. errs \subseteq Kinds \X Structs
    BY DEF LayoutIInv, LayoutInv, Core, Typed
  <1>2. <<kind, d>> \in Kinds \X Structs /\ <<kind, d>> \in er2
    OBVIOUS
  <1>3. er2 \subseteq Kinds \X Structs
    BY <1>1, <1>2
  <1>4. \A s : <<"containsItself", s>> # <<kind, d>>
    OBVIOUS
  <1>5. \A s : <<"containsItself", s>> \in er2 <=> <<"containsItself", s>> \in errs
    BY <1>4
  <1>6. Blamed(er2) = Blamed(errs)
    BY <1>5 DEF Blamed
  <1> QED
    BY <1>2, <1>3, <1>6

\* The invariant, when only the stack and the diagnostics change.
LEMMA StackStep ==
    ASSUME LayoutIInv, UNCHANGED <<decl, next, layoutState, layout>>,
           Core(decl, stack', layoutState, layout, errs'), Answered(decl, stack', layoutState)
    PROVE  LayoutIInv'
  <1>1. Started(next, layoutState)
    BY DEF LayoutIInv, LayoutInv
  <1>2. LayoutInv(decl, next, stack', layoutState, layout, errs')
    BY <1>1 DEF LayoutInv
  <1> QED
    BY <1>2 DEF LayoutIInv

\* A field that is not kept.
LEMMA SkipInv ==
    ASSUME LayoutIInv, AtField, Top.asked \/ Duplicate \/ Undefined \/ ~Forced(Field.type),
           NEW kind \in Kinds, kind # "containsItself",
           stack' = Append(Below, NextField), Report(kind, Top.d),
           UNCHANGED <<decl, next, layoutState, layout>>
    PROVE  LayoutIInv'
  <1> DEFINE x == Topmost(stack)
             y == [[x EXCEPT !.i = @ + 1, !.asked = FALSE] EXCEPT !.fields = x.fields]
  <1>1. /\ x \in Frames /\ Top = x /\ Below = SubSeq(stack, 1, Len(stack) - 1)
        /\ stack # <<>> /\ stack \in Seq(Frames) /\ x.d \in Structs /\ x.i <= Len(decl[x.d])
    BY AtTop DEF AtField
  <1>2. x.fields \in Seq(FieldDecls)
    BY <1>1, FrameParts
  <1>3. y \in Frames /\ y.d = x.d /\ y.i = x.i + 1 /\ ~y.asked /\ y.fields = x.fields
    BY <1>1, <1>2, NextFrame
  <1>4. NextField = y
    <2>1. x = [d |-> x.d, i |-> x.i, asked |-> x.asked, fields |-> x.fields]
      BY <1>1 DEF Frames
    <2> QED
      BY <1>1, <2>1 DEF NextField
  <1>5. \A t \in Structs : Needs(decl, x.d, x.i, t) => layoutState[t] = "done"
    BY <1>1, NothingForced
  <1>6. errs' \subseteq Kinds \X Structs /\ Blamed(errs') = Blamed(errs) /\ errs' # {}
    BY <1>1, Reporting DEF Report
  <1>7. stack' \in Seq(Frames) /\ IsReplaced(stack, y, stack')
    <2>1. /\ Append(SubSeq(stack, 1, Len(stack) - 1), y) \in Seq(Frames)
          /\ IsReplaced(stack, y, Append(SubSeq(stack, 1, Len(stack) - 1), y))
      BY <1>1, <1>3, Replaced
    <2>2. stack' = Append(SubSeq(stack, 1, Len(stack) - 1), y)
      BY <1>1, <1>4
    <2> QED
      BY ONLY <2>1, <2>2
  <1>8. Core(decl, stack, layoutState, layout, errs)
    BY DEF LayoutIInv, LayoutInv
  <1> HIDE DEF y
  <1>9. Passed(decl, x, y, errs, errs', layoutState)
    BY <1>3, <1>6 DEF Passed
  <1>10. Core(decl, stack', layoutState, layout, errs') /\ Answered(decl, stack', layoutState)
    BY ONLY <1>1, <1>3, <1>5, <1>6, <1>7, <1>8, <1>9, AdvancedOK
  <1> QED
    BY <1>10, StackStep

\* The actions that skip a field.
LEMMA SkipsInv == LayoutIInv /\ (SkipDuplicate \/ SkipUndefined \/ SkipTooLarge) => LayoutIInv'
  <1> SUFFICES ASSUME LayoutIInv, SkipDuplicate \/ SkipUndefined \/ SkipTooLarge PROVE LayoutIInv'
    OBVIOUS
  <1>1. /\ "duplicateField" \in Kinds /\ "undefinedType" \in Kinds /\ "arrayTooLarge" \in Kinds
        /\ "duplicateField" # "containsItself" /\ "undefinedType" # "containsItself"
        /\ "arrayTooLarge" # "containsItself"
    BY DEF Kinds
  <1>2. CASE SkipDuplicate
    BY <1>1, <1>2, SkipInv DEF SkipDuplicate
  <1>3. CASE SkipUndefined
    BY <1>1, <1>3, SkipInv DEF SkipUndefined
  <1>4. CASE SkipTooLarge
    BY <1>1, <1>4, SkipInv DEF SkipTooLarge, Resolved
  <1> QED
    BY <1>2, <1>3, <1>4

\* A field that is kept.
LEMMA KeepInv == LayoutIInv /\ KeepField => LayoutIInv'
  <1> SUFFICES ASSUME LayoutIInv, KeepField PROVE LayoutIInv'
    OBVIOUS
  <1> DEFINE x == Topmost(stack)
             f == decl[x.d][x.i]
             fs == Append(x.fields, f)
             y == [[x EXCEPT !.i = @ + 1, !.asked = FALSE] EXCEPT !.fields = fs]
  <1>1. AtField /\ (Top.asked \/ (~Duplicate /\ ~Undefined /\ ~Forced(Field.type)))
    BY DEF KeepField, Resolved
  <1>2. /\ x \in Frames /\ Top = x /\ Below = SubSeq(stack, 1, Len(stack) - 1)
        /\ stack # <<>> /\ stack \in Seq(Frames) /\ x.d \in Structs /\ x.i <= Len(decl[x.d])
        /\ Field = f /\ FrameOK(decl, x) /\ decl \in [Structs -> Bodies]
        /\ errs \subseteq Kinds \X Structs
    BY <1>1, AtTop DEF AtField
  <1>3. x.fields \in Seq(FieldDecls) /\ x.i \in Nat
    BY <1>2, FrameParts
  <1>4. f \in FieldDecls /\ f.type \in FieldTypes
    <2>1. x.i \in 1..Len(decl[x.d])
      BY <1>2 DEF FrameOK
    <2> QED
      BY <1>2, <2>1, BodyParts
  <1>5. fs \in Seq(FieldDecls)
    BY <1>3, <1>4, AppendProperties
  <1>6. y \in Frames /\ y.d = x.d /\ y.i = x.i + 1 /\ ~y.asked /\ y.fields = fs
    BY <1>2, <1>5, NextFrame
  <1>7. [NextField EXCEPT !.fields = Append(@, Field)] = y
    <2>1. x = [d |-> x.d, i |-> x.i, asked |-> x.asked, fields |-> x.fields]
      BY <1>2 DEF Frames
    <2>2. NextField.fields = x.fields
      BY <1>2, <2>1 DEF NextField
    <2> QED
      BY <1>2, <2>2 DEF NextField
  <1>8. \A t \in Structs : Needs(decl, x.d, x.i, t) => layoutState[t] = "done"
    BY <1>1, <1>2, NothingForced
  <1>9. Known(f.type, layoutState)
    <2>1. CASE x.asked
      <3>1. Needs(decl, x.d, x.i, Asks(decl, x))
        BY <1>2, <2>1 DEF FrameOK
      <3>2. Forced(f.type) /\ f.type.leaf = Asks(decl, x)
        BY <3>1 DEF Needs
      <3>3. f.type.leaf \in Structs
        BY <3>2 DEF Forced
      <3>4. layoutState[f.type.leaf] = "done"
        BY <1>8, <3>1, <3>2, <3>3
      <3> QED
        BY <1>4, <3>3, <3>4 DEF Known
    <2>2. CASE ~x.asked
      <3>1. ~Undefined /\ ~Forced(Field.type)
        BY <1>1, <1>2, <2>2
      <3> QED
        BY <1>2, <1>4, <3>1 DEF Undefined, Known
    <2> QED
      BY <2>1, <2>2
  <1>10. stack' \in Seq(Frames) /\ IsReplaced(stack, y, stack')
    <2>1. /\ Append(SubSeq(stack, 1, Len(stack) - 1), y) \in Seq(Frames)
          /\ IsReplaced(stack, y, Append(SubSeq(stack, 1, Len(stack) - 1), y))
      BY <1>2, <1>6, Replaced
    <2>2. stack' = Append(SubSeq(stack, 1, Len(stack) - 1), y)
      BY <1>2, <1>7 DEF KeepField
    <2> QED
      BY ONLY <2>1, <2>2
  <1>11. UNCHANGED <<decl, next, layoutState, layout, errs>>
    BY DEF KeepField
  <1>12. Core(decl, stack, layoutState, layout, errs)
    BY DEF LayoutIInv, LayoutInv
  <1> HIDE DEF y
  <1>13. Passed(decl, x, y, errs, errs, layoutState)
    BY <1>6, <1>9 DEF Passed
  <1> HIDE DEF f, fs
  <1>14. Core(decl, stack', layoutState, layout, errs) /\ Answered(decl, stack', layoutState)
    BY ONLY <1>2, <1>6, <1>8, <1>10, <1>12, <1>13, AdvancedOK
  <1>15. Core(decl, stack', layoutState, layout, errs')
    BY ONLY <1>11, <1>14
  <1> QED
    BY ONLY LayoutIInv, <1>11, <1>14, <1>15, StackStep

\* A field that asks for a layout.
LEMMA ForceInv == LayoutIInv /\ ForceLayout => LayoutIInv'
  <1> SUFFICES ASSUME LayoutIInv, ForceLayout PROVE LayoutIInv'
    OBVIOUS
  <1> DEFINE x == Topmost(stack)
             t == decl[x.d][x.i].type
             y == [x EXCEPT !.asked = TRUE]
             c == Append(SubSeq(stack, 1, Len(stack) - 1), y)
  <1>1. AtField /\ ~Duplicate /\ Forced(Field.type) /\ Enter(Field.type.leaf, Append(Below, [Top EXCEPT !.asked = TRUE]))
        /\ UNCHANGED <<decl, next, layout>>
    BY DEF ForceLayout
  <1>2. /\ x \in Frames /\ Top = x /\ Below = SubSeq(stack, 1, Len(stack) - 1)
        /\ stack # <<>> /\ stack \in Seq(Frames) /\ x.d \in Structs /\ x.i <= Len(decl[x.d])
        /\ Field.type = t /\ Fields = decl[x.d] /\ Field = decl[x.d][x.i]
    BY <1>1, AtTop DEF AtField
  <1>3. y \in Frames /\ y.d = x.d /\ y.i = x.i /\ y.asked /\ y.fields = x.fields
    BY <1>2, AskedFrame
  <1>4. c \in Seq(Frames) /\ IsReplaced(stack, y, c)
    BY <1>2, <1>3, Replaced
  <1>5. Enter(t.leaf, c)
    BY <1>1, <1>2
  <1>6. Needs(decl, x.d, x.i, Asks(decl, x)) /\ Asks(decl, x) = t.leaf /\ t.leaf \in Structs
    <2>1. \A j \in 1..(x.i - 1) : decl[x.d][j].name # decl[x.d][x.i].name
      BY <1>1, <1>2 DEF Duplicate
    <2>2. Forced(t)
      BY <1>1, <1>2
    <2> QED
      BY <2>1, <2>2 DEF Needs, Asks, Forced
  <1>7. Core(decl, stack, layoutState, layout, errs) /\ Started(next, layoutState)
    BY DEF LayoutIInv, LayoutInv
  <1> HIDE DEF y, c, t
  <1>8. Core(decl, c, layoutState, layout, errs)
    BY ONLY <1>2, <1>3, <1>4, <1>6, <1>7, AskedOK
  <1>9. c # <<>> /\ Topmost(c) = y
    BY <1>4 DEF IsReplaced, Topmost
  <1>10. c[Len(c)].asked /\ Asks(decl, c[Len(c)]) = t.leaf
    BY <1>3, <1>6, <1>9 DEF Topmost, Asks
  <1>11. Entered(t.leaf, c, layoutState, errs, stack', layoutState', errs')
    BY <1>5 DEF Enter, Report, Entered
  <1>12. /\ Core(decl, stack', layoutState', layout, errs') /\ Answered(decl, stack', layoutState')
         /\ \A s \in Structs : layoutState[s] # "new" => layoutState'[s] # "new"
    BY ONLY <1>6, <1>8, <1>10, <1>11, EnterOK
  <1>13. Started(next, layoutState')
    <2>1. \A j \in 1..(next - 1) : DeclOrder[j] \in Structs
      BY <1>7, DeclOrderParts DEF Started
    <2> QED
      BY <1>7, <1>12, <2>1 DEF Started
  <1>14. LayoutInv(decl, next, stack', layoutState', layout, errs')
    BY <1>12, <1>13 DEF LayoutInv
  <1> QED
    BY <1>1, <1>14 DEF LayoutIInv

\* The end of the loop.
LEMMA FinishInv == LayoutIInv /\ FinishStruct => LayoutIInv'
  <1> SUFFICES ASSUME LayoutIInv, FinishStruct PROVE LayoutIInv'
    OBVIOUS
  <1> DEFINE x == Topmost(stack)
  <1>1. /\ stack # <<>> /\ Top.i > Len(Fields)
        /\ layout' = [layout EXCEPT ![Top.d] = SetFields(Top.fields, layout)]
        /\ layoutState' = [layoutState EXCEPT ![Top.d] = "done"]
        /\ stack' = Below /\ UNCHANGED <<decl, next, errs>>
    BY DEF FinishStruct
  <1>2. /\ x \in Frames /\ Top = x /\ Below = SubSeq(stack, 1, Len(stack) - 1)
        /\ stack \in Seq(Frames) /\ x.d \in Structs /\ Fields = decl[x.d]
        /\ layoutState \in [Structs -> States] /\ decl \in [Structs -> Bodies]
    BY <1>1, AtTop
  <1>3. x.i \in Nat /\ Len(decl[x.d]) \in Nat
    BY <1>2, FrameParts, BodyParts
  <1>4. ~(x.i <= Len(decl[x.d]))
    BY <1>1, <1>2, <1>3
  <1>5. Core(decl, stack, layoutState, layout, errs) /\ Started(next, layoutState)
    BY DEF LayoutIInv, LayoutInv
  <1>6. DOMAIN layout = Structs
    BY <1>5 DEF Core, Typed
  <1>7. /\ layoutState' \in [Structs -> States]
        /\ \A s \in Structs : layoutState'[s] = IF s = x.d THEN "done" ELSE layoutState[s]
    <2>1. "done" \in States
      BY DEF States
    <2>2. layoutState' = [layoutState EXCEPT ![x.d] = "done"]
      BY <1>1, <1>2
    <2> HIDE DEF x
    <2> QED
      BY <1>2, <2>1, <2>2
  <1>8. /\ DOMAIN layout' = Structs /\ \A s \in Structs : s # x.d => layout'[s] = layout[s]
        /\ layout'[x.d] = SetFields(x.fields, layout)
    <2>1. layout' = [layout EXCEPT ![x.d] = SetFields(x.fields, layout)]
      BY <1>1, <1>2
    <2> HIDE DEF x
    <2> QED
      BY <1>2, <1>6, <2>1
  <1>9. /\ stack' \in Seq(Frames) /\ Len(stack') = Len(stack) - 1
        /\ \A k \in 1..(Len(stack) - 1) : stack'[k] = stack[k]
    <2> DEFINE p == SubSeq(stack, 1, Len(stack) - 1)
    <2>1. /\ p \in Seq(Frames) /\ Len(p) = Len(stack) - 1
          /\ \A k \in 1..(Len(stack) - 1) : p[k] = stack[k]
      BY <1>1, <1>2, Popped
    <2>2. stack' = p
      BY <1>1, <1>2
    <2> HIDE DEF p
    <2> QED
      BY ONLY <2>1, <2>2
  <1>10. Core(decl, stack', layoutState', layout', errs) /\ Answered(decl, stack', layoutState')
    <2> HIDE DEF x
    <2>1. \A l2 \in [Structs -> States] : \A y2 : \A s2 \in Seq(Frames) :
             /\ \A s \in Structs : l2[s] = IF s = x.d THEN "done" ELSE layoutState[s]
             /\ DOMAIN y2 = Structs /\ \A s \in Structs : s # x.d => y2[s] = layout[s]
             /\ y2[x.d] = SetFields(x.fields, layout)
             /\ Len(s2) = Len(stack) - 1
             /\ \A k \in 1..(Len(stack) - 1) : s2[k] = stack[k]
             => Core(decl, s2, l2, y2, errs) /\ Answered(decl, s2, l2)
      <3>1. stack # <<>> /\ Core(decl, stack, layoutState, layout, errs)
        BY <1>1, <1>5
      <3> QED
        BY ONLY <1>4, <3>1, FinishedOK DEF x
    <2> QED
      BY ONLY <1>7, <1>8, <1>9, <2>1
  <1>11. Started(next, layoutState')
    <2>1. \A j \in 1..(next - 1) : DeclOrder[j] \in Structs
      BY <1>5, DeclOrderParts DEF Started
    <2> QED
      BY <1>5, <1>7, <2>1 DEF Started
  <1>12. LayoutInv(decl, next, stack', layoutState', layout', errs)
    BY <1>10, <1>11 DEF LayoutInv
  <1> QED
    BY <1>1, <1>12 DEF LayoutIInv

\* So it is inductive.
LEMMA NextInv == LayoutIInv /\ [Next]_vars => LayoutIInv'
  <1> SUFFICES ASSUME LayoutIInv, [Next]_vars PROVE LayoutIInv'
    OBVIOUS
  <1>1. CASE LayOutNext
    BY <1>1, LayOutNextInv
  <1>2. CASE SkipDuplicate \/ SkipUndefined \/ SkipTooLarge
    BY <1>2, SkipsInv
  <1>3. CASE ForceLayout
    BY <1>3, ForceInv
  <1>4. CASE KeepField
    BY <1>4, KeepInv
  <1>5. CASE FinishStruct
    BY <1>5, FinishInv
  <1>6. CASE UNCHANGED vars
    BY <1>6 DEF vars, LayoutIInv
  <1> QED
    BY <1>1, <1>2, <1>3, <1>4, <1>5, <1>6 DEF Next, Terminated

\* It holds all along.
LEMMA LayoutInvariant == Spec => []LayoutIInv
  BY InitInv, NextInv, PTL DEF Spec

-----------------------------------------------------------------------------
(* What follows. *)

\* The names the properties use are those of the invariant.
LEMMA SameNames ==
    ASSUME LayoutIInv
    PROVE  /\ DOMAIN stack = 1..Len(stack) /\ Len(stack) \in Nat
           /\ OnStack = On(stack) /\ Reported("containsItself") = Blamed(errs)
  <1>1. stack \in Seq(Frames)
    BY DEF LayoutIInv, LayoutInv, Core, Typed
  <1>2. DOMAIN stack = 1..Len(stack) /\ Len(stack) \in Nat
    BY <1>1, StackParts
  <1> QED
    BY <1>2 DEF OnStack, On, Reported, Blamed

\* The pass keeps its state well formed (sema.go, resolve and layoutStruct).
THEOREM TypeCorrect == Spec => []TypeOK
  <1>1. LayoutIInv => TypeOK
    <2> SUFFICES ASSUME LayoutIInv PROVE TypeOK
      OBVIOUS
    <2>1. Typed(decl, stack, layoutState, layout, errs) /\ Started(next, layoutState)
      BY DEF LayoutIInv, LayoutInv, Core
    <2>2. ASSUME NEW k \in DOMAIN stack
          PROVE  /\ stack[k].d \in Structs
                 /\ stack[k].i \in 1..(Len(decl[stack[k].d]) + 1)
                 /\ stack[k].asked \in BOOLEAN
                 /\ Len(stack[k].fields) < stack[k].i
      <3>1. k \in 1..Len(stack)
        BY SameNames
      <3>2. stack[k] \in Frames /\ FrameOK(decl, stack[k])
        BY <2>1, <3>1, StackParts DEF Typed
      <3>3. stack[k].d \in Structs /\ stack[k].asked \in BOOLEAN
        BY <3>2, FrameParts
      <3> QED
        BY <3>2, <3>3 DEF FrameOK
    <2>3. /\ decl \in [Structs -> Bodies]
          /\ layoutState \in [Structs -> {"new", "visiting", "done"}]
          /\ errs \subseteq {"containsItself", "duplicateField", "undefinedType",
                             "arrayTooLarge"} \X Structs
      BY <2>1 DEF Typed, States, Kinds
    <2>4. \A s \in Structs : layout[s].size \in Nat /\ layout[s].align \in Nat
      BY <2>1 DEF Typed, Alignments
    <2>5. next \in 1..(Len(DeclOrder) + 1)
      BY <2>1 DEF Started
    <2> QED
      BY <2>2, <2>3, <2>4, <2>5 DEF TypeOK
  <1> QED
    BY <1>1, LayoutInvariant, PTL

\* No struct is laid out twice at a time: the recursion is never deeper than
\* there are structs, and a struct is in state 1 exactly while it is active,
\* unless it was reported (sema.go:185-196).
THEOREM RecursionIsBounded == Spec => []RecursionBounded
  <1>1. LayoutIInv => RecursionBounded
    <2> SUFFICES ASSUME LayoutIInv PROVE RecursionBounded
      OBVIOUS
    <2> DEFINE n == Len(stack)
    <2>1. /\ Typed(decl, stack, layoutState, layout, errs) /\ Nested(decl, stack)
          /\ Marked(stack, layoutState, errs)
      BY DEF LayoutIInv, LayoutInv, Core
    <2>2. n \in Nat /\ OnStack = On(stack) /\ Reported("containsItself") = Blamed(errs)
      BY SameNames
    <2>3. \A j, k \in 1..n : stack[j].d = stack[k].d => j = k
      BY <2>1 DEF Nested
    <2>4. On(stack) = {stack[k].d : k \in 1..n}
      BY DEF On
    <2> HIDE DEF n
    <2>5. Cardinality(On(stack)) = n
      <3> DEFINE f == [k \in 1..n |-> stack[k].d]
      <3>1. f \in [1..n -> On(stack)]
        BY <2>4
      <3>2. \A j, k \in 1..n : f[j] = f[k] => j = k
        BY <2>3
      <3>3. \A s \in On(stack) : \E k \in 1..n : f[k] = s
        BY <2>4
      <3> HIDE DEF f
      <3>4. f \in Bijection(1..n, On(stack))
        BY <3>1, <3>2, <3>3 DEF Bijection, Injection, Surjection, IsInjective
      <3>5. ExistsBijection(1..n, On(stack))
        BY <3>4 DEF ExistsBijection
      <3> QED
        BY <2>2, <3>5, FS_CountingElements
    <2>6. ASSUME NEW k \in 2..n
          PROVE  LET caller == stack[k - 1]
                     type   == decl[caller.d][caller.i].type
                 IN  caller.asked /\ Forced(type) /\ type.leaf = stack[k].d
      <3>1. k - 1 \in 1..(n - 1) /\ (k - 1) + 1 = k /\ k - 1 \in 1..n
        BY <2>2
      <3>2. stack[k - 1].asked /\ Asks(decl, stack[k - 1]) = stack[k].d
        BY <2>1, <3>1 DEF Nested, n
      <3>3. FrameOK(decl, stack[k - 1])
        BY <2>1, <3>1 DEF Typed, n
      <3>4. Needs(decl, stack[k - 1].d, stack[k - 1].i, Asks(decl, stack[k - 1]))
        BY <3>2, <3>3 DEF FrameOK
      <3> QED
        BY <3>2, <3>4 DEF Needs
    <2>7. \A s \in Structs :
             layoutState[s] = "visiting" <=> s \in OnStack /\ s \notin Reported("containsItself")
      BY <2>1, <2>2 DEF Marked
    <2> QED
      BY <2>2, <2>5, <2>6, <2>7 DEF RecursionBounded, n
  <1> QED
    BY <1>1, LayoutInvariant, PTL

\* Every struct is done when the pass is.
LEMMA AllDone ==
    ASSUME LayoutIInv, Done
    PROVE  \A s \in Structs : layoutState[s] = "done"
  <1>1. stack = <<>> /\ next > Len(DeclOrder)
    BY DEF Done
  <1>2. /\ layoutState \in [Structs -> States] /\ Marked(stack, layoutState, errs)
        /\ Started(next, layoutState)
    BY DEF LayoutIInv, LayoutInv, Core, Typed
  <1>3. On(stack) = {}
    BY <1>1, EmptySeq DEF On
  <1>4. ASSUME NEW s \in Structs PROVE layoutState[s] # "new"
    <2>1. PICK j \in 1..Len(DeclOrder) : s = DeclOrder[j]
      BY DeclOrderParts
    <2>2. j \in 1..(next - 1)
      BY <1>1, <1>2, DeclOrderParts DEF Started
    <2> QED
      BY <1>2, <2>1, <2>2 DEF Started
  <1>5. \A s \in Structs : layoutState[s] # "visiting"
    BY <1>2, <1>3 DEF Marked
  <1> QED
    BY <1>2, <1>4, <1>5 DEF States

\* The edges of the properties are those of the invariant.
LEMMA SameEdges ==
    ASSUME LayoutIInv, NEW s \in Structs, NEW t \in Structs
    PROVE  (Forces(s, t) <=> Edge(decl, s, t)) /\ (Contains(s, t) => Forces(s, t))
  <1>1. decl \in [Structs -> Bodies]
    BY DEF LayoutIInv, LayoutInv, Core, Typed
  <1>2. DOMAIN decl[s] = 1..Len(decl[s])
    BY <1>1, BodyParts
  <1>3. \A ty : ty \in Declared(s) <=> \E i \in 1..Len(decl[s]) :
            /\ \A j \in 1..(i - 1) : decl[s][j].name # decl[s][i].name
            /\ ty = decl[s][i].type
    BY <1>2 DEF Declared
  <1>4. Forces(s, t) <=> Edge(decl, s, t)
    BY <1>3 DEF Forces, Edge, Needs
  <1>5. Contains(s, t) => Forces(s, t)
    BY DEF Contains, Forces, Forced
  <1> QED
    BY <1>4, <1>5

\* A program is rejected for a cycle exactly if its structs cannot be laid out,
\* whatever the order of the declarations (sema.go:185-227).
THEOREM CyclesAreRejected == Spec => []CyclesRejected
  <1>1. LayoutIInv => CyclesRejected
    <2> SUFFICES ASSUME LayoutIInv, Done
                 PROVE  /\ Reported("containsItself") # {}
                             <=> \E T \in SUBSET Structs : Cycle(Forces, T)
                        /\ ~Rejected => \A T \in SUBSET Structs : ~Cycle(Contains, T)
      BY DEF CyclesRejected
    <2>1. Reported("containsItself") = Blamed(errs)
      BY SameNames
    <2>2. /\ Blamed(errs) # {} => \E T \in SUBSET Structs : Loop(decl, T)
          /\ Blamed(errs) = {} => Settled(decl, stack, layoutState)
      BY DEF LayoutIInv, LayoutInv, Core
    <2>3. Blamed(errs) = {} => \A T \in SUBSET Structs : ~Loop(decl, T)
      BY <2>2, AllDone DEF Settled
    <2>4. ASSUME NEW T \in SUBSET Structs
          PROVE  (Cycle(Forces, T) <=> Loop(decl, T)) /\ (Cycle(Contains, T) => Loop(decl, T))
      <3>1. \A s, t \in T : (Forces(s, t) <=> Edge(decl, s, t)) /\ (Contains(s, t) => Forces(s, t))
        BY SameEdges
      <3>2. Cycle(Forces, T) <=> T # {} /\ \A s \in T : \E t \in T : Forces(s, t)
        BY DEF Cycle
      <3>3. Cycle(Contains, T) <=> T # {} /\ \A s \in T : \E t \in T : Contains(s, t)
        BY DEF Cycle
      <3>4. Cycle(Forces, T) <=> Loop(decl, T)
        BY <3>1, <3>2 DEF Loop
      <3>5. Cycle(Contains, T) => Loop(decl, T)
        BY <3>1, <3>3 DEF Loop
      <3> QED
        BY <3>4, <3>5
    <2>5. ~Rejected => Blamed(errs) = {}
      BY DEF Rejected, Blamed
    <2> QED
      BY <2>1, <2>2, <2>3, <2>4, <2>5
  <1> QED
    BY <1>1, LayoutInvariant, PTL

\* The layouts recorded are computed from final sizes, and those of an accepted
\* program hold all its fields (sema.go:198-226, types.go SetFields).
THEOREM LayoutsAreFinal == Spec => []LayoutsFinal
  <1>1. LayoutIInv => LayoutsFinal
    <2> SUFFICES ASSUME LayoutIInv PROVE LayoutsFinal
      OBVIOUS
    <2>1. Reported("containsItself") = Blamed(errs)
      BY SameNames
    <2>2. /\ Blamed(errs) = {} => LaidOut(stack, layoutState, layout)
          /\ errs = {} => Complete(decl, stack, layoutState, layout)
      BY DEF LayoutIInv, LayoutInv, Core
    <2>3. ASSUME Blamed(errs) = {}, NEW s \in Structs, layoutState[s] = "done"
          PROVE  WellLaidOut(s)
      <3>1. WellLaid(layout[s], layout)
        BY <2>2, <2>3 DEF LaidOut
      <3> QED
        BY <3>1 DEF WellLaid, WellLaidOut, Alignments
    <2>4. ASSUME Done, ~Rejected, NEW s \in Structs
          PROVE  Len(layout[s].fields) = Len(decl[s])
      <3>1. Complete(decl, stack, layoutState, layout)
        BY <2>2, <2>4 DEF Rejected
      <3> QED
        BY <2>4, <3>1, AllDone DEF Complete
    <2> QED
      BY <2>1, <2>3, <2>4 DEF LayoutsFinal
  <1> QED
    BY <1>1, LayoutInvariant, PTL

-----------------------------------------------------------------------------
(* The memory map and the frames. *)

\* A slot placed at or after an address is aligned and does not begin before.
LEMMA PlaceAligned ==
    ASSUME NEW t \in Types, NEW n \in Nat
    PROVE  LET p == Place(t, n)
           IN  /\ p = [type |-> t, at |-> p.at]
               /\ p.at \in Nat /\ n <= p.at
               /\ p.at % t.align = 0
  <1>1. t.align \in Nat \ {0}
    BY ConstantsOK
  <1> QED
    BY <1>1, AlignedUp DEF Place

-----------------------------------------------------------------------------
(* The inductive invariant. *)

\* What checkGlobalInit has let through.
Inits ==
    [kind : {"none"}] \cup [kind : {"int"}, val : Ints]
        \cup [kind : {"str"}, val : Literals]

MapTyped ==
    /\ phase \in {"strings", "globals", "laidOut", "emitted"}
    /\ off \in Nat
    /\ Interned \subseteq Literals /\ strOff \in [Interned -> Nat]
    /\ globals \in Seq([type : Types, init : Inits, at : Nat])
    /\ \A i \in DOMAIN globals :
          globals[i].init.kind = "str" => globals[i].init.val \in Interned
    /\ slots \in Seq([type : Types, at : Nat])
    /\ frameOff \in Nat

StringEnd(s) == strOff[s] + Len(s) + 1
End(g) == g.at + g.type.size

\* The cursor is past every literal, and any two are one after the other.
StringsPlaced ==
    /\ StringBase <= off
    /\ \A s \in Interned :
          /\ StringBase <= strOff[s] /\ StringEnd(s) <= off
          /\ \A t \in Interned :
                s # t => StringEnd(s) <= strOff[t] \/ StringEnd(t) <= strOff[s]

\* Literals come first, then the globals in their order, then the cursor.
GlobalsPlaced ==
    /\ phase = "strings" => globals = <<>>
    /\ \A i \in DOMAIN globals :
          /\ StringBase <= globals[i].at /\ globals[i].at % globals[i].type.align = 0
          /\ End(globals[i]) <= off
          /\ \A s \in Interned : StringEnd(s) <= globals[i].at
          /\ \A j \in DOMAIN globals : i < j => End(globals[i]) <= globals[j].at

\* The slots of a frame come one after the other, below its cursor.
SlotsPlaced ==
    \A i \in DOMAIN slots :
        /\ slots[i].at % slots[i].type.align = 0
        /\ End(slots[i]) <= frameOff
        /\ \A j \in DOMAIN slots : i < j => End(slots[i]) <= slots[j].at

\* What the last two phases have set.
Finished ==
    /\ IF phase \in {"laidOut", "emitted"}
       THEN stackTop = AlignUp(off, Alignment) + StackSize /\ heapBase = stackTop
       ELSE stackTop = 0 /\ heapBase = 0
    /\ IF phase = "emitted"
       THEN /\ pages = (heapBase + PageSize - 1) \div PageSize + 1
            /\ segments = {StringSegment(s) : s \in Interned}
                    \cup {GlobalSegment(globals[i]) :
                             i \in {k \in DOMAIN globals : Initialized(globals[k])}}
       ELSE pages = 0 /\ segments = {}

MapIInv == MapTyped /\ StringsPlaced /\ GlobalsPlaced /\ SlotsPlaced /\ Finished
-----------------------------------------------------------------------------
(* The invariant is inductive. *)

USE DEF Interned

\* What the parts of a placed global are, and those of a slot.
LEMMA PartsTyped ==
    ASSUME MapTyped
    PROVE  /\ \A i \in DOMAIN globals :
                /\ globals[i].type \in Types /\ globals[i].init \in Inits
                /\ globals[i].at \in Nat /\ globals[i].type.size \in Nat
           /\ \A i \in DOMAIN slots :
                /\ slots[i].type \in Types
                /\ slots[i].at \in Nat /\ slots[i].type.size \in Nat
           /\ DOMAIN globals \subseteq Int /\ DOMAIN slots \subseteq Int
  <1>1. ASSUME NEW i \in DOMAIN globals
        PROVE  /\ globals[i].type \in Types /\ globals[i].init \in Inits
               /\ globals[i].at \in Nat /\ globals[i].type.size \in Nat
    <2> DEFINE R == [type : Types, init : Inits, at : Nat]
    <2>1. globals \in Seq(R)
      BY DEF MapTyped
    <2> HIDE DEF R
    <2>4. i \in 1..Len(globals)
      BY <2>1, LenProperties
    <2>3. globals[i] \in R
      BY <2>1, <2>4, ElementOfSeq
    <2>2. globals[i].type \in Types /\ globals[i].init \in Inits /\ globals[i].at \in Nat
      BY <2>3 DEF R
    <2> QED
      BY <2>2, ConstantsOK
  <1>2. ASSUME NEW i \in DOMAIN slots
        PROVE  /\ slots[i].type \in Types
               /\ slots[i].at \in Nat /\ slots[i].type.size \in Nat
    <2> DEFINE R == [type : Types, at : Nat]
    <2>1. slots \in Seq(R)
      BY DEF MapTyped
    <2> HIDE DEF R
    <2>4. i \in 1..Len(slots)
      BY <2>1, LenProperties
    <2>3. slots[i] \in R
      BY <2>1, <2>4, ElementOfSeq
    <2>2. slots[i].type \in Types /\ slots[i].at \in Nat
      BY <2>3 DEF R
    <2> QED
      BY <2>2, ConstantsOK
  <1>3. DOMAIN globals \subseteq Int /\ DOMAIN slots \subseteq Int
    <2> DEFINE R == [type : Types, init : Inits, at : Nat]
               Q == [type : Types, at : Nat]
    <2>1. globals \in Seq(R) /\ slots \in Seq(Q)
      BY DEF MapTyped
    <2> HIDE DEF R, Q
    <2> QED
      BY <2>1
  <1> QED
    BY <1>1, <1>2, <1>3

\* Initially nothing is placed.
LEMMA InitMapIInv == DataInit => MapIInv
  <1> SUFFICES ASSUME DataInit PROVE MapIInv
    OBVIOUS
  <1> USE DEF DataInit
  <1>1. Interned = {}
    OBVIOUS
  <1>2. MapTyped
    BY <1>1, ConstantsOK DEF MapTyped
  <1>3. StringsPlaced
    BY <1>1, ConstantsOK DEF StringsPlaced
  <1>4. GlobalsPlaced /\ SlotsPlaced /\ Finished
    BY DEF GlobalsPlaced, SlotsPlaced, Finished
  <1> QED
    BY <1>2, <1>3, <1>4 DEF MapIInv

\* A literal is interned at the cursor, above all the others.
LEMMA InternIInv ==
    ASSUME MapIInv, NEW s \in Literals, Intern(s)
    PROVE  MapIInv'
  <1> USE DEF MapIInv
  <1>1. /\ phase = "strings" /\ phase' = phase /\ s \notin Interned
        /\ strOff' = [l \in Interned \cup {s} |-> IF l = s THEN off ELSE strOff[l]]
        /\ off' = off + Len(s) + 1
        /\ UNCHANGED <<globals, stackTop, heapBase, pages, segments, slots, frameOff>>
    BY DEF Intern, frame
  <1>2. /\ off \in Nat /\ Len(s) \in Nat /\ StringBase \in Nat /\ StringBase <= off
        /\ globals = <<>>
        /\ Interned \subseteq Literals /\ strOff \in [Interned -> Nat]
    BY <1>1, ConstantsOK DEF MapTyped, StringsPlaced, GlobalsPlaced
  <1>3. Interned' = Interned \cup {s} /\ strOff' \in [Interned' -> Nat]
    BY <1>1, <1>2
  <1>4. /\ strOff'[s] = off
        /\ \A t \in Interned : strOff'[t] = strOff[t] /\ t # s
    BY <1>1
  <1>5. MapTyped'
    BY <1>1, <1>2, <1>3 DEF MapTyped
  <1>6. ASSUME NEW t \in Interned
        PROVE  /\ StringEnd(t)' = StringEnd(t) /\ StringEnd(t) \in Nat
               /\ StringEnd(t) <= off
    <2>1. Len(t) \in Nat /\ strOff[t] \in Nat
      BY <1>2, ConstantsOK
    <2> QED
      BY <1>4, <2>1 DEF StringEnd, StringsPlaced
  <1>7. StringEnd(s)' = off'
    BY <1>1, <1>2, <1>4 DEF StringEnd
  <1>8. StringsPlaced'
    <2>1. StringBase <= off' /\ off <= off' /\ off' \in Nat
      BY <1>1, <1>2
    <2>2. ASSUME NEW x \in Interned'
          PROVE  StringBase <= strOff'[x] /\ StringEnd(x)' <= off'
      <3>1. CASE x = s
        BY <1>2, <1>4, <1>7, <2>1, <3>1
      <3>2. CASE x \in Interned
        BY <1>2, <1>4, <1>6, <2>1, <3>2 DEF StringsPlaced
      <3> QED
        BY <1>3, <3>1, <3>2
    <2>3. ASSUME NEW x \in Interned', NEW y \in Interned', x # y
          PROVE  StringEnd(x)' <= strOff'[y] \/ StringEnd(y)' <= strOff'[x]
      <3>1. CASE x = s
        BY <1>3, <1>4, <1>6, <2>3, <3>1
      <3>2. CASE y = s
        BY <1>3, <1>4, <1>6, <2>3, <3>2
      <3>3. CASE x \in Interned /\ y \in Interned
        BY <1>4, <1>6, <2>3, <3>3 DEF StringsPlaced
      <3> QED
        BY <1>3, <3>1, <3>2, <3>3
    <2> QED
      BY <2>1, <2>2, <2>3 DEF StringsPlaced
  <1>9. GlobalsPlaced'
    BY <1>1, <1>2 DEF GlobalsPlaced
  <1>10. SlotsPlaced' /\ Finished'
    BY <1>1 DEF SlotsPlaced, Finished, End
  <1> QED
    BY <1>5, <1>8, <1>9, <1>10

\* Literals stay where they are when the cursor moves up.
LEMMA StringsStay ==
    ASSUME MapIInv, UNCHANGED strOff, off' \in Nat, off <= off'
    PROVE  StringsPlaced'
  <1>1. /\ off \in Nat /\ StringBase \in Nat /\ StringBase <= off
        /\ Interned \subseteq Literals /\ strOff \in [Interned -> Nat]
    BY ConstantsOK DEF MapIInv, MapTyped, StringsPlaced
  <1>2. ASSUME NEW t \in Interned
        PROVE  StringEnd(t) \in Nat
    <2>1. Len(t) \in Nat /\ strOff[t] \in Nat
      BY <1>1, ConstantsOK
    <2> QED
      BY <2>1 DEF StringEnd
  <1>3. \A t : StringEnd(t)' = StringEnd(t)
    BY DEF StringEnd
  <1> QED
    BY <1>1, <1>2, <1>3 DEF MapIInv, StringsPlaced

\* EndStrings only moves the cursor up.
LEMMA EndStringsIInv ==
    ASSUME MapIInv, EndStrings
    PROVE  MapIInv'
  <1> USE DEF MapIInv
  <1>1. /\ phase = "strings" /\ phase' = "globals"
        /\ off' = AlignUp(off, Alignment)
        /\ UNCHANGED <<strOff, globals, stackTop, heapBase, pages, segments, slots, frameOff>>
    BY DEF EndStrings, frame
  <1>2. off \in Nat /\ off' \in Nat /\ off <= off' /\ globals = <<>>
    BY <1>1, AlignedUp, ConstantsOK DEF MapTyped, GlobalsPlaced
  <1>3. MapTyped'
    BY <1>1, <1>2 DEF MapTyped
  <1>4. StringsPlaced'
    BY <1>1, <1>2, StringsStay
  <1>5. GlobalsPlaced' /\ SlotsPlaced' /\ Finished'
    BY <1>1, <1>2 DEF GlobalsPlaced, SlotsPlaced, Finished, End
  <1> QED
    BY <1>3, <1>4, <1>5

\* A global is placed at or above the cursor, past everything placed so far.
LEMMA PlaceGlobalIInv ==
    ASSUME MapIInv, NEW t \in Types, NEW init \in Initializers(t), PlaceGlobal(t, init)
    PROVE  MapIInv'
  <1> USE DEF MapIInv
  <1> DEFINE at == Place(t, off).at
             g == [type |-> t, init |-> init, at |-> at]
             n == Len(globals)
  <1>1. /\ phase = "globals" /\ phase' = phase
        /\ globals' = Append(globals, g)
        /\ off' = at + t.size
        /\ UNCHANGED <<strOff, stackTop, heapBase, pages, segments, slots, frameOff>>
    BY DEF PlaceGlobal, frame
  <1>2. /\ off \in Nat /\ StringBase \in Nat /\ StringBase <= off /\ t.size \in Nat
        /\ Interned \subseteq Literals /\ strOff \in [Interned -> Nat]
    BY ConstantsOK DEF MapTyped, StringsPlaced
  <1>3. at \in Nat /\ off <= at /\ at % t.align = 0
    BY <1>2, PlaceAligned
  <1>4. off' \in Nat /\ off <= off' /\ at <= off'
    BY <1>1, <1>2, <1>3
  <1>5. init \in Inits /\ (init.kind = "str" => init.val \in Interned)
    BY <1>2 DEF Initializers, Inits
  <1> HIDE DEF at
  <1>6. g \in [type : Types, init : Inits, at : Nat] /\ g.init = init /\ g.at = at /\ g.type = t
    BY <1>3, <1>5
  <1> HIDE DEF g
  <1>7. /\ globals' \in Seq([type : Types, init : Inits, at : Nat])
        /\ n \in Nat /\ DOMAIN globals = 1..n /\ DOMAIN globals' = 1..(n + 1)
        /\ globals'[n + 1] = g
        /\ \A i \in 1..n : globals'[i] = globals[i]
    BY <1>1, <1>6 DEF MapTyped
  <1> HIDE DEF n
  <1>8. MapTyped'
    <2>1. ASSUME NEW i \in 1..(n + 1)
          PROVE  globals'[i].init.kind = "str" => globals'[i].init.val \in Interned
      <3>1. CASE i = n + 1
        BY <1>5, <1>6, <1>7, <3>1
      <3>2. CASE i \in 1..n
        BY <1>7, <3>2 DEF MapTyped
      <3> QED
        BY <3>1, <3>2, <1>7
    <2> QED
      BY <1>1, <1>4, <1>7, <2>1 DEF MapTyped
  <1>9. StringsPlaced'
    BY <1>1, <1>4, StringsStay
  <1>10. GlobalsPlaced'
    <2>1. ASSUME NEW s \in Interned
          PROVE  StringEnd(s) \in Nat /\ StringEnd(s)' = StringEnd(s) /\ StringEnd(s) <= at
      <3>1. Len(s) \in Nat /\ strOff[s] \in Nat
        BY <1>2, ConstantsOK
      <3>2. StringEnd(s) <= off
        BY DEF StringsPlaced
      <3> QED
        BY <1>1, <1>2, <1>3, <3>1, <3>2 DEF StringEnd
    <2>2. ASSUME NEW i \in 1..n
          PROVE  /\ globals'[i] = globals[i]
                 /\ End(globals[i]) \in Nat /\ End(globals[i]) <= at /\ End(globals[i]) <= off'
      <3>1. globals[i].at \in Nat /\ globals[i].type.size \in Nat
        BY <1>7, PartsTyped
      <3>2. End(globals[i]) <= off
        BY <1>7 DEF GlobalsPlaced
      <3>3. End(globals[i]) \in Nat
        BY <3>1 DEF End
      <3> QED
        BY <1>2, <1>3, <1>4, <1>7, <3>2, <3>3
    <2>3. End(g) = off'
      BY <1>1, <1>6 DEF End
    <2>4. ASSUME NEW i \in 1..(n + 1)
          PROVE  /\ StringBase <= globals'[i].at
                 /\ globals'[i].at % globals'[i].type.align = 0
                 /\ End(globals'[i]) <= off'
                 /\ \A s \in Interned : StringEnd(s) <= globals'[i].at
      <3>1. CASE i = n + 1
        BY <1>2, <1>3, <1>4, <1>6, <1>7, <2>1, <2>3, <3>1
      <3>2. CASE i \in 1..n
        BY <1>7, <2>2, <3>2 DEF GlobalsPlaced
      <3> QED
        BY <3>1, <3>2, <1>7
    <2>5. ASSUME NEW i \in 1..(n + 1), NEW j \in 1..(n + 1), i < j
          PROVE  End(globals'[i]) <= globals'[j].at
      <3>1. i \in 1..n
        BY <1>7, <2>5
      <3>2. CASE j = n + 1
        BY <1>6, <1>7, <2>2, <3>1, <3>2
      <3>3. CASE j \in 1..n
        BY <1>7, <2>2, <2>5, <3>1, <3>3 DEF GlobalsPlaced
      <3> QED
        BY <3>2, <3>3, <1>7
    <2>6. \A x : End(x)' = End(x)
      BY DEF End
    <2> QED
      BY <1>1, <1>7, <2>1, <2>4, <2>5, <2>6 DEF GlobalsPlaced
  <1>11. SlotsPlaced' /\ Finished'
    BY <1>1 DEF SlotsPlaced, Finished, End
  <1> QED
    BY <1>8, <1>9, <1>10, <1>11

\* EndGlobals and EmitModule place nothing.
LEMMA EndIInv ==
    ASSUME MapIInv, EndGlobals \/ EmitModule
    PROVE  MapIInv'
  <1> USE DEF MapIInv
  <1>1. /\ phase \in {"globals", "laidOut"} /\ phase' \in {"laidOut", "emitted"}
        /\ UNCHANGED <<off, strOff, globals, slots, frameOff>>
    BY DEF EndGlobals, EmitModule, frame
  <1>2. MapTyped'
    BY <1>1 DEF MapTyped
  <1>3. StringsPlaced' /\ GlobalsPlaced' /\ SlotsPlaced'
    BY <1>1 DEF StringsPlaced, GlobalsPlaced, SlotsPlaced, StringEnd, End
  <1>4. Finished'
    <2>1. CASE EndGlobals
      BY <2>1 DEF EndGlobals, Finished
    <2>2. CASE EmitModule
      <3>1. /\ phase = "laidOut" /\ phase' = "emitted"
            /\ pages' = (heapBase + PageSize - 1) \div PageSize + 1
            /\ segments' = {StringSegment(s) : s \in Interned}
                    \cup {GlobalSegment(globals[i]) :
                             i \in {k \in DOMAIN globals : Initialized(globals[k])}}
            /\ UNCHANGED <<off, strOff, globals, stackTop, heapBase>>
        BY <2>2 DEF EmitModule
      <3>2. /\ \A s : StringSegment(s)' = StringSegment(s)
            /\ \A x : GlobalSegment(x)' = GlobalSegment(x)
            /\ \A x : Initialized(x)' = Initialized(x)
        BY <3>1 DEF StringSegment, GlobalSegment, Initialized, ConstBytes, Value
      <3> QED
        BY <3>1, <3>2 DEF Finished
    <2> QED
      BY <2>1, <2>2
  <1> QED
    BY <1>2, <1>3, <1>4

\* After the last phase has begun only the frame changes.
LEMMA FrameIInv ==
    ASSUME MapIInv, phase = "emitted", SlotsPlaced',
           slots' \in Seq([type : Types, at : Nat]), frameOff' \in Nat,
           UNCHANGED <<phase, off, strOff, globals, stackTop, heapBase, pages, segments>>
    PROVE  MapIInv'
  <1> USE DEF MapIInv
  <1>1. MapTyped'
    BY DEF MapTyped
  <1>2. StringsPlaced' /\ GlobalsPlaced'
    BY DEF StringsPlaced, GlobalsPlaced, StringEnd, End
  <1>3. Finished'
    <2>1. /\ \A s : StringSegment(s)' = StringSegment(s)
          /\ \A x : GlobalSegment(x)' = GlobalSegment(x)
          /\ \A x : Initialized(x)' = Initialized(x)
      BY DEF StringSegment, GlobalSegment, Initialized, ConstBytes, Value
    <2> QED
      BY <2>1 DEF Finished
  <1> QED
    BY <1>1, <1>2, <1>3

\* A slot is placed at or above the frame's cursor.
LEMMA AddSlotIInv ==
    ASSUME MapIInv, NEW t \in Types, AddSlot(t)
    PROVE  MapIInv'
  <1> USE DEF MapIInv
  <1> DEFINE p == Place(t, frameOff)
             n == Len(slots)
  <1>1. /\ phase = "emitted"
        /\ slots' = Append(slots, p) /\ frameOff' = p.at + t.size
        /\ UNCHANGED <<phase, off, strOff, globals, stackTop, heapBase, pages, segments>>
    BY DEF AddSlot
  <1>2. frameOff \in Nat /\ t.size \in Nat
    BY ConstantsOK DEF MapTyped
  <1>3. /\ p = [type |-> t, at |-> p.at]
        /\ p.at \in Nat /\ frameOff <= p.at /\ p.at % t.align = 0
    BY <1>2, PlaceAligned
  <1> HIDE DEF p
  <1>4. p \in [type : Types, at : Nat] /\ p.type = t
    <2> DEFINE a == p.at
    <2>1. a \in Nat /\ p = [type |-> t, at |-> a]
      BY <1>3
    <2> HIDE DEF a
    <2> QED
      BY <2>1
  <1>5. /\ slots' \in Seq([type : Types, at : Nat])
        /\ n \in Nat /\ DOMAIN slots = 1..n /\ DOMAIN slots' = 1..(n + 1)
        /\ slots'[n + 1] = p
        /\ \A i \in 1..n : slots'[i] = slots[i]
    BY <1>1, <1>4 DEF MapTyped
  <1>6. frameOff' \in Nat /\ frameOff <= frameOff' /\ End(p) = frameOff'
    BY <1>1, <1>2, <1>3, <1>4 DEF End
  <1> HIDE DEF n
  <1>7. ASSUME NEW i \in 1..n
        PROVE  /\ End(slots[i]) \in Nat /\ End(slots[i]) <= p.at
               /\ End(slots[i]) <= frameOff'
    <2>1. slots[i].at \in Nat /\ slots[i].type.size \in Nat
      BY <1>5, PartsTyped
    <2>2. End(slots[i]) <= frameOff
      BY <1>5 DEF SlotsPlaced
    <2> QED
      BY <1>2, <1>3, <1>6, <2>1, <2>2 DEF End
  <1>8. SlotsPlaced'
    <2>1. ASSUME NEW i \in 1..(n + 1)
          PROVE  /\ slots'[i].at % slots'[i].type.align = 0
                 /\ End(slots'[i]) <= frameOff'
      <3>1. CASE i = n + 1
        BY <1>3, <1>4, <1>5, <1>6, <3>1
      <3>2. CASE i \in 1..n
        BY <1>5, <1>7, <3>2 DEF SlotsPlaced
      <3> QED
        BY <3>1, <3>2, <1>5
    <2>2. ASSUME NEW i \in 1..(n + 1), NEW j \in 1..(n + 1), i < j
          PROVE  End(slots'[i]) <= slots'[j].at
      <3>1. i \in 1..n
        BY <1>5, <2>2
      <3>2. CASE j = n + 1
        BY <1>5, <1>7, <3>1, <3>2
      <3>3. CASE j \in 1..n
        BY <1>5, <2>2, <3>1, <3>3 DEF SlotsPlaced
      <3> QED
        BY <3>2, <3>3, <1>5
    <2>3. \A x : End(x)' = End(x)
      BY DEF End
    <2> QED
      BY <1>5, <2>1, <2>2, <2>3 DEF SlotsPlaced
  <1> QED
    BY <1>1, <1>5, <1>6, <1>8, FrameIInv

\* Every step preserves the invariant.
LEMMA NextMapIInv == MapIInv /\ [DataNext]_dataVars => MapIInv'
  <1> SUFFICES ASSUME MapIInv, [DataNext]_dataVars PROVE MapIInv'
    OBVIOUS
  <1>1. ASSUME NEW s \in Literals, Intern(s) PROVE MapIInv'
    BY <1>1, InternIInv
  <1>2. CASE EndStrings
    BY <1>2, EndStringsIInv
  <1>3. ASSUME NEW t \in Types, NEW init \in Initializers(t), PlaceGlobal(t, init)
        PROVE  MapIInv'
    BY <1>3, PlaceGlobalIInv
  <1>4. CASE EndGlobals \/ EmitModule
    BY <1>4, EndIInv
  <1>5. ASSUME NEW t \in Types, AddSlot(t) PROVE MapIInv'
    BY <1>5, AddSlotIInv
  <1>6. CASE NextFunction
    <2>1. /\ phase = "emitted" /\ slots' = <<>> /\ frameOff' = 0
          /\ UNCHANGED <<phase, off, strOff, globals, stackTop, heapBase, pages, segments>>
      BY <1>6 DEF NextFunction
    <2>2. SlotsPlaced' /\ slots' \in Seq([type : Types, at : Nat]) /\ frameOff' \in Nat
      BY <2>1 DEF SlotsPlaced
    <2> QED
      BY <2>1, <2>2, FrameIInv
  <1>7. CASE UNCHANGED dataVars
    <2>1. UNCHANGED <<phase, off, strOff, globals, stackTop, heapBase, pages, segments>>
      BY <1>7 DEF dataVars
    <2>2. UNCHANGED <<slots, frameOff>>
      BY <1>7 DEF dataVars, frame
    <2> USE DEF MapIInv
    <2>3. MapTyped' /\ StringsPlaced' /\ GlobalsPlaced' /\ SlotsPlaced'
      BY <2>1, <2>2 DEF MapTyped, StringsPlaced, GlobalsPlaced, SlotsPlaced, StringEnd, End
    <2>4. /\ \A s : StringSegment(s)' = StringSegment(s)
          /\ \A x : GlobalSegment(x)' = GlobalSegment(x)
          /\ \A x : Initialized(x)' = Initialized(x)
      BY <2>1 DEF StringSegment, GlobalSegment, Initialized, ConstBytes, Value
    <2>5. Finished'
      BY <2>1, <2>4 DEF Finished
    <2> QED
      BY <2>3, <2>5
  <1> QED
    BY <1>1, <1>2, <1>3, <1>4, <1>5, <1>6, <1>7 DEF DataNext

-----------------------------------------------------------------------------
(* The theorems. *)

\* The inductive invariant holds in every reachable state.
THEOREM MapInvariant == DataSpec => []MapIInv
  <1> QED
    BY InitMapIInv, NextMapIInv, PTL DEF DataSpec

\* For any alignment of its types, the slots of a frame are aligned, share no
\* byte and fit in the frame, whose size keeps the stack pointer aligned.
THEOREM FramesLaidOut == DataSpec => []SlotsApart
  <1>1. ASSUME MapIInv PROVE SlotsApart
    <2>1. frameOff \in Nat /\ Alignment \in Nat \ {0}
      BY <1>1, ConstantsOK DEF MapIInv, MapTyped
    <2>2. frameSize \in Nat /\ frameOff <= frameSize /\ frameSize % Alignment = 0
      BY <2>1, AlignedUp DEF frameSize
    <2>3. ASSUME NEW i \in DOMAIN slots
          PROVE  /\ slots[i].at \in Nat /\ slots[i].type.size \in Nat
                 /\ slots[i].at % slots[i].type.align = 0
                 /\ End(slots[i]) <= frameOff
      BY <1>1, PartsTyped DEF MapIInv, SlotsPlaced
    <2>4. ASSUME NEW i \in DOMAIN slots
          PROVE  slots[i].at + slots[i].type.size <= frameSize
      <3>1. slots[i].at + slots[i].type.size <= frameOff
        BY <2>3 DEF End
      <3> QED
        BY <2>1, <2>2, <2>3, <3>1
    <2>5. ASSUME NEW i \in DOMAIN slots, NEW j \in DOMAIN slots, i # j
          PROVE  GlobalRange(slots[i]) \cap GlobalRange(slots[j]) = {}
      <3>1. i \in Int /\ j \in Int
        BY <1>1, PartsTyped DEF MapIInv
      <3>2. End(slots[i]) <= slots[j].at \/ End(slots[j]) <= slots[i].at
        BY <1>1, <2>5, <3>1 DEF MapIInv, SlotsPlaced
      <3> QED
        BY <2>3, <3>2 DEF End, GlobalRange
    <2> QED
      BY <2>2, <2>3, <2>4, <2>5 DEF SlotsApart
  <1> QED
    BY <1>1, MapInvariant, PTL

\* A literal's range, and a global's, as an interval of numbers.
LEMMA Ends ==
    ASSUME MapIInv
    PROVE  /\ \A s \in Interned : /\ strOff[s] \in Nat /\ Len(s) \in Nat
                                  /\ StringEnd(s) \in Nat
                                  /\ StringRange(s) = strOff[s]..(StringEnd(s) - 1)
           /\ \A i \in DOMAIN globals :
                 /\ globals[i].at \in Nat /\ globals[i].type.size \in Nat
                 /\ End(globals[i]) \in Nat
                 /\ GlobalRange(globals[i]) = globals[i].at..(End(globals[i]) - 1)
           /\ DOMAIN globals \subseteq Int
  <1>1. ASSUME NEW s \in Interned
        PROVE  /\ strOff[s] \in Nat /\ Len(s) \in Nat
               /\ StringEnd(s) \in Nat
               /\ StringRange(s) = strOff[s]..(StringEnd(s) - 1)
    <2>1. s \in Literals /\ strOff[s] \in Nat
      BY DEF MapIInv, MapTyped
    <2>2. Len(s) \in Nat
      BY <2>1, ConstantsOK
    <2> QED
      BY <2>1, <2>2 DEF StringEnd, StringRange
  <1>2. ASSUME NEW i \in DOMAIN globals
        PROVE  /\ globals[i].at \in Nat /\ globals[i].type.size \in Nat
               /\ End(globals[i]) \in Nat
               /\ GlobalRange(globals[i]) = globals[i].at..(End(globals[i]) - 1)
    <2>1. globals[i].at \in Nat /\ globals[i].type.size \in Nat
      BY PartsTyped DEF MapIInv
    <2> QED
      BY <2>1 DEF End, GlobalRange
  <1>3. DOMAIN globals \subseteq Int
    BY PartsTyped DEF MapIInv
  <1> QED
    BY <1>1, <1>2, <1>3

\* Where the literals and globals are, no two share a byte.
LEMMA Apart ==
    ASSUME MapIInv
    PROVE  /\ \A s, t \in Interned : s # t => StringRange(s) \cap StringRange(t) = {}
           /\ \A i, j \in DOMAIN globals :
                 i # j => GlobalRange(globals[i]) \cap GlobalRange(globals[j]) = {}
           /\ \A s \in Interned, i \in DOMAIN globals :
                 StringRange(s) \cap GlobalRange(globals[i]) = {}
  <1>1. ASSUME NEW s \in Interned, NEW t \in Interned, s # t
        PROVE  StringRange(s) \cap StringRange(t) = {}
    <2>1. StringEnd(s) <= strOff[t] \/ StringEnd(t) <= strOff[s]
      BY <1>1 DEF MapIInv, StringsPlaced
    <2> QED
      BY <2>1, Ends
  <1>2. ASSUME NEW i \in DOMAIN globals, NEW j \in DOMAIN globals, i # j
        PROVE  GlobalRange(globals[i]) \cap GlobalRange(globals[j]) = {}
    <2>1. i \in Int /\ j \in Int
      BY Ends
    <2>2. End(globals[i]) <= globals[j].at \/ End(globals[j]) <= globals[i].at
      BY <1>2, <2>1 DEF MapIInv, GlobalsPlaced
    <2> QED
      BY <2>2, Ends
  <1>3. ASSUME NEW s \in Interned, NEW i \in DOMAIN globals
        PROVE  StringRange(s) \cap GlobalRange(globals[i]) = {}
    <2>1. StringEnd(s) <= globals[i].at
      BY DEF MapIInv, GlobalsPlaced
    <2> QED
      BY <2>1, Ends
  <1> QED
    BY <1>1, <1>2, <1>3

\* The stack begins above the data, aligned as the heap is.
LEMMA StackAboveData ==
    ASSUME MapIInv, phase \in {"laidOut", "emitted"}
    PROVE  /\ heapBase = stackTop /\ stackTop \in Nat
           /\ off <= stackTop - StackSize
           /\ stackTop % Alignment = 0
  <1> DEFINE low == AlignUp(off, Alignment)
  <1>1. stackTop = low + StackSize /\ heapBase = stackTop
    BY DEF MapIInv, Finished
  <1>2. off \in Nat /\ Alignment \in Nat \ {0} /\ StackSize \in Nat
    BY ConstantsOK DEF MapIInv, MapTyped
  <1>3. low \in Nat /\ off <= low
    BY <1>2, AlignedUp
  <1>4. low % Alignment = 0 /\ StackSize % Alignment = 0
    BY <1>2, AlignedUp, ConstantsOK
  <1> HIDE DEF low
  <1>5. low \in Int /\ StackSize \in Int
    BY <1>2, <1>3
  <1>6. (low + StackSize) % Alignment = 0
    BY <1>2, <1>4, <1>5, AlignedSum
  <1>7. stackTop % Alignment = 0
    BY <1>1, <1>6
  <1>8. stackTop \in Nat /\ stackTop - StackSize = low
    BY <1>1, <1>2, <1>3
  <1> QED
    BY <1>1, <1>3, <1>7, <1>8

\* For any program, nothing is placed in the runtime's scratch, literals and
\* globals share no byte, and the stack and the heap are above them, aligned.
THEOREM MapLaidOut == DataSpec => []RegionsApart
  <1>1. ASSUME MapIInv PROVE RegionsApart
    <2>1. ASSUME NEW r \in Regions, NEW a \in r PROVE ScratchEnd <= a /\ a < off
      <3>1. /\ ScratchEnd \in Nat /\ StringBase \in Nat /\ ScratchEnd <= StringBase
            /\ off \in Nat
        BY <1>1, ConstantsOK DEF MapIInv, MapTyped
      <3>2. ASSUME NEW s \in Interned, r = StringRange(s) PROVE ScratchEnd <= a /\ a < off
        <4>1. StringBase <= strOff[s] /\ StringEnd(s) <= off
          BY <1>1 DEF MapIInv, StringsPlaced
        <4> QED
          BY <1>1, <3>1, <3>2, <4>1, Ends
      <3>3. ASSUME NEW i \in DOMAIN globals, r = GlobalRange(globals[i])
            PROVE  ScratchEnd <= a /\ a < off
        <4>1. StringBase <= globals[i].at /\ End(globals[i]) <= off
          BY <1>1 DEF MapIInv, GlobalsPlaced
        <4> QED
          BY <1>1, <3>1, <3>3, <4>1, Ends
      <3> QED
        BY <3>2, <3>3 DEF Regions
    <2>2. \A i \in DOMAIN globals : globals[i].at % globals[i].type.align = 0
      BY <1>1 DEF MapIInv, GlobalsPlaced
    <2>3. ASSUME phase \in {"laidOut", "emitted"}
          PROVE  /\ off <= stackTop - StackSize
                 /\ stackTop % Alignment = 0 /\ heapBase % Alignment = 0
                 /\ stackTop <= heapBase
      <3>1. /\ heapBase = stackTop /\ stackTop \in Nat
            /\ off <= stackTop - StackSize /\ stackTop % Alignment = 0
        BY <1>1, <2>3, StackAboveData
      <3>2. stackTop <= heapBase
        BY <3>1
      <3> QED
        BY <3>1, <3>2
    <2> QED
      BY <1>1, <2>1, <2>2, <2>3, Apart DEF RegionsApart
  <1> QED
    BY <1>1, MapInvariant, PTL
-----------------------------------------------------------------------------
(* The bytes of a number. *)

\* The powers of the byte size are what their recursive definition says.
LEMMA PowerDef ==
    /\ Power \in [Nat -> Nat \ {0}] /\ Power[0] = 1
    /\ \A k \in Nat \ {0} : Power[k] = ByteValues * Power[k - 1]
  <1> DEFINE h == [p \in Nat \X (Nat \ {0}) |-> ByteValues * p[2]]
  <1>1. ByteValues \in Nat \ {0}
    BY ConstantsOK
  <1>2. h \in [Nat \X (Nat \ {0}) -> Nat \ {0}] /\ 1 \in Nat \ {0}
    BY <1>1
  <1>3. PICK f : CountsUp(f, Nat \ {0}, 1, h)
    <2> HIDE DEF h
    <2> QED
      BY <1>2, RecursionFromZero
  <1>4. /\ f \in [Nat -> Nat \ {0}] /\ f[0] = 1
        /\ \A n \in Nat \ {0} : f[n] = h[<<n, f[n - 1]>>]
    <2> HIDE DEF h
    <2> QED
      BY <1>3 DEF CountsUp
  <1>5. ASSUME NEW n \in Nat \ {0} PROVE f[n] = ByteValues * f[n - 1]
    <2>1. n - 1 \in Nat
      OBVIOUS
    <2>2. <<n, f[n - 1]>> \in Nat \X (Nat \ {0})
      BY <1>4, <2>1
    <2>3. h[<<n, f[n - 1]>>] = ByteValues * f[n - 1]
      BY <2>2
    <2> QED
      BY <1>4, <2>3
  <1>6. f = [k \in Nat |-> IF k = 0 THEN 1 ELSE ByteValues * f[k - 1]]
    BY <1>4, <1>5
  <1>7. Power = [k \in Nat |-> IF k = 0 THEN 1 ELSE ByteValues * Power[k - 1]]
    BY <1>6 DEF Power
  <1> DEFINE S == {n \in Nat : Power[n] = f[n]}
  <1>8. 0 \in S
    BY <1>4, <1>7
  <1>9. \A n \in Nat : n \in S => n + 1 \in S
    BY <1>4, <1>5, <1>7
  <1>10. Nat \subseteq S
    <2> HIDE DEF S
    <2> QED
      BY <1>8, <1>9, Induction
  <1>11. Power = f
    BY <1>4, <1>7, <1>10
  <1> QED
    BY <1>4, <1>5, <1>11

\* Byte k of v, counted from the least significant; a negative number's are
\* those of its two's complement.
ByteOf(v, k) == (v \div Power[k]) % ByteValues

\* A byte is a byte.
LEMMA ByteOfType ==
    ASSUME NEW v \in Int, NEW k \in Nat
    PROVE  ByteOf(v, k) \in Bytes
  <1>1. Power[k] \in Nat \ {0} /\ ByteValues \in Nat \ {0}
    BY PowerDef, ConstantsOK
  <1>2. v \div Power[k] \in Int
    BY <1>1, Division
  <1> QED
    BY <1>1, <1>2, Division DEF ByteOf, Bytes

\* What a number leaves modulo a power is given by its bytes below it.
LEMMA NextByte ==
    ASSUME NEW v \in Int, NEW k \in Nat
    PROVE  v % Power[k + 1] = (v % Power[k]) + ByteOf(v, k) * Power[k]
  <1> DEFINE p == Power[k]
             q == v \div p
             u == v % p
             d == q \div ByteValues
             b == q % ByteValues
             B == ByteValues
  <1>1. p \in Nat \ {0} /\ B \in Nat \ {0} /\ Power[k + 1] = B * p
    <2>1. k + 1 \in Nat \ {0} /\ (k + 1) - 1 = k
      OBVIOUS
    <2> QED
      BY <2>1, PowerDef, ConstantsOK
  <1>2. ByteOf(v, k) = b
    BY DEF ByteOf
  <1> HIDE DEF p, B
  <1>3. q \in Int /\ u \in 0..(p - 1) /\ v = p * q + u
    BY <1>1, Division
  <1>4. d \in Int /\ b \in 0..(B - 1) /\ q = B * d + b
    <2> HIDE DEF q
    <2> QED
      BY <1>1, <1>3, Division DEF B
  <1> HIDE DEF q, u, d, b
  <1> DEFINE m == B * p
             r == u + b * p
  <1>5. m \in Nat \ {0}
    BY <1>1
  <1>6. r \in 0..(m - 1)
    <2>1. b * p \in Nat
      BY <1>1, <1>4
    <2>2. p * b + p <= p * B
      BY <1>1, <1>4, MultipleBelow
    <2> QED
      BY <1>1, <1>3, <1>4, <2>1, <2>2
  <1>7. v = m * d + r
    <2>1. p * q = p * (B * d) + p * b
      BY <1>1, <1>4
    <2>2. p * (B * d) = (B * p) * d
      BY <1>1, <1>4
    <2> QED
      BY <1>1, <1>3, <1>4, <2>1, <2>2
  <1> HIDE DEF m, r
  <1>8. v % m = r
    BY <1>4, <1>5, <1>6, <1>7, DivisionUnique
  <1> QED
    BY <1>1, <1>2, <1>8 DEF m, r, u, p

\* A load that finds the first n bytes of v reads v, up to a multiple of what
\* n bytes can hold.
LEMMA LoadOfBytes ==
    ASSUME \A x \in Int : Loaded(x) \in Int,
           NEW a \in Int, NEW v \in Int, NEW n \in Nat,
           \A i \in 0..(n - 1) : Loaded(a + i) = ByteOf(v, i)
    PROVE  Load(a, n) = v % Power[n]
  <1> DEFINE h == [p \in Nat \X Int |-> p[2] + Loaded(a + p[1] - 1) * Power[p[1] - 1]]
             h2 == [p \in Nat \X Int |-> IF p[1] = 0 THEN 0 ELSE h[p]]
  <1>1. ASSUME NEW k \in Nat \ {0}, NEW w \in Int
        PROVE  /\ h2[<<k, w>>] = w + Loaded(a + k - 1) * Power[k - 1]
               /\ h2[<<k, w>>] \in Int
    <2>1. k - 1 \in Nat /\ a + k - 1 \in Int /\ k \in Nat /\ k # 0
      OBVIOUS
    <2>2. Loaded(a + k - 1) \in Int /\ Power[k - 1] \in Int
      BY <2>1, PowerDef
    <2>3. <<k, w>> \in Nat \X Int
      OBVIOUS
    <2>4. h2[<<k, w>>] = w + Loaded(a + k - 1) * Power[k - 1]
      BY <2>1, <2>3
    <2> HIDE DEF h2
    <2> QED
      BY <2>2, <2>4
  <1>2. h2 \in [Nat \X Int -> Int]
    <2>1. ASSUME NEW p \in Nat \X Int PROVE h2[p] \in Int
      <3>1. CASE p[1] = 0
        BY <3>1
      <3>2. CASE p[1] # 0
        <4>1. p = <<p[1], p[2]>> /\ p[1] \in Nat \ {0} /\ p[2] \in Int
          BY <3>2
        <4> HIDE DEF h2
        <4> QED
          BY <1>1, <4>1
      <3> QED
        BY <3>1, <3>2
    <2>2. h2 = [p \in Nat \X Int |-> h2[p]]
      OBVIOUS
    <2> HIDE DEF h2
    <2> QED
      BY <2>1, <2>2
  <1> HIDE DEF h2
  <1>25. 0 \in Int
    OBVIOUS
  <1>3. PICK f : CountsUp(f, Int, 0, h2)
    BY <1>2, <1>25, RecursionFromZero
  <1>4. /\ f \in [Nat -> Int] /\ f[0] = 0
        /\ \A k \in Nat \ {0} : f[k] = h2[<<k, f[k - 1]>>]
    BY <1>3 DEF CountsUp
  <1>5. ASSUME NEW k \in Nat \ {0}
        PROVE  f[k] = f[k - 1] + Loaded(a + k - 1) * Power[k - 1]
    <2>1. f[k - 1] \in Int
      BY <1>4
    <2> QED
      BY <1>1, <1>4, <2>1
  <1>6. f = [k \in Nat |-> IF k = 0 THEN 0
                           ELSE f[k - 1] + Loaded(a + k - 1) * Power[k - 1]]
    BY <1>4, <1>5
  <1> DEFINE upTo == CHOOSE g : g = [k \in Nat |->
                        IF k = 0 THEN 0
                        ELSE g[k - 1] + Loaded(a + k - 1) * Power[k - 1]]
  <1>7. Load(a, n) = upTo[n]
    BY DEF Load
  <1>8. upTo = [k \in Nat |-> IF k = 0 THEN 0
                              ELSE upTo[k - 1] + Loaded(a + k - 1) * Power[k - 1]]
    BY <1>6
  <1> HIDE DEF upTo
  <1> DEFINE S == {k \in Nat : k <= n => upTo[k] = v % Power[k]}
  <1>9. 0 \in S
    <2>1. v % 1 = 0
      OBVIOUS
    <2> QED
      BY <1>8, <2>1, PowerDef
  <1>10. ASSUME NEW k \in Nat, k \in S PROVE k + 1 \in S
    <2> SUFFICES ASSUME k + 1 <= n PROVE upTo[k + 1] = v % Power[k + 1]
      OBVIOUS
    <2>1. k \in 0..(n - 1) /\ (k + 1) - 1 = k /\ a + (k + 1) - 1 = a + k /\ k + 1 # 0
      OBVIOUS
    <2>2. upTo[k] = v % Power[k]
      BY <1>10, <2>1
    <2>3. upTo[k + 1] = upTo[k] + Loaded(a + k) * Power[k]
      BY <1>8, <2>1
    <2> QED
      BY <2>1, <2>2, <2>3, NextByte
  <1>11. Nat \subseteq S
    <2> HIDE DEF S
    <2> QED
      BY <1>9, <1>10, Induction
  <1> QED
    BY <1>7, <1>11
-----------------------------------------------------------------------------
(* The data segments. *)

\* A function on 1..n is a sequence of length n.
LEMMA FunctionSeq ==
    ASSUME NEW S, NEW n \in Nat, NEW f \in [1..n -> S]
    PROVE  f \in Seq(S) /\ Len(f) = n
  OBVIOUS

\* The value of an initializer is a number.
LEMMA ValueType ==
    ASSUME MapIInv, NEW k \in DOMAIN globals, globals[k].init.kind # "none"
    PROVE  Value(globals[k].init) \in Int
  <1> DEFINE i == globals[k].init
  <1>1. i \in Inits /\ (i.kind = "str" => i.val \in Interned)
    BY PartsTyped DEF MapIInv, MapTyped
  <1>2. i.kind # "none"
    OBVIOUS
  <1> HIDE DEF i
  <1>3. CASE i.kind = "str"
    <2>1. strOff[i.val] \in Nat
      BY <1>1, <1>3 DEF MapIInv, MapTyped
    <2> QED
      BY <1>3, <2>1 DEF Value, i
  <1>4. CASE i.kind # "str"
    <2>1. i.val \in Ints
      BY <1>1, <1>2, <1>4 DEF Inits
    <2> QED
      BY <1>4, <2>1, ConstantsOK DEF Value, i
  <1> QED
    BY <1>3, <1>4

\* A literal's segment: its bytes and a NUL, over its range.
LEMMA StringSegmentParts ==
    ASSUME MapIInv, NEW s \in Interned
    PROVE  LET g == StringSegment(s)
           IN  /\ g.at = strOff[s] /\ g.at \in Nat
               /\ g.bytes \in Seq(Bytes) /\ Len(g.bytes) = Len(s) + 1
               /\ \A i \in 1..Len(s) : g.bytes[i] = s[i]
               /\ g.bytes[Len(s) + 1] = 0
               /\ g.at..(g.at + Len(g.bytes) - 1) = StringRange(s)
  <1>1. s \in Literals /\ strOff[s] \in Nat
    BY DEF MapIInv, MapTyped
  <1>2. s \in Seq(Bytes) /\ 0 \in Bytes
    BY <1>1, ConstantsOK DEF Bytes
  <1>3. /\ Append(s, 0) \in Seq(Bytes) /\ Len(Append(s, 0)) = Len(s) + 1 /\ Len(s) \in Nat
        /\ \A i \in 1..Len(s) : Append(s, 0)[i] = s[i]
        /\ Append(s, 0)[Len(s) + 1] = 0
    <2> HIDE DEF Bytes
    <2> QED
      BY <1>2
  <1>4. strOff[s]..(strOff[s] + (Len(s) + 1) - 1) = StringRange(s)
    BY <1>1, <1>3 DEF StringRange
  <1> QED
    BY <1>1, <1>3, <1>4 DEF StringSegment

\* An initialized global's segment: the bytes of its value, over its range.
LEMMA GlobalSegmentParts ==
    ASSUME MapIInv, NEW k \in DOMAIN globals, globals[k].init.kind # "none"
    PROVE  LET g == GlobalSegment(globals[k])
           IN  /\ g.at = globals[k].at /\ g.at \in Nat
               /\ g.bytes = ConstBytes(globals[k])
               /\ g.bytes \in Seq(Bytes) /\ Len(g.bytes) = globals[k].type.size
               /\ \A i \in 1..globals[k].type.size :
                     ConstBytes(globals[k])[i] = ByteOf(Value(globals[k].init), i - 1)
               /\ g.at..(g.at + Len(g.bytes) - 1) = GlobalRange(globals[k])
  <1> DEFINE c == ConstBytes(globals[k])
             n == globals[k].type.size
  <1>1. globals[k].at \in Nat /\ n \in Nat
    BY PartsTyped DEF MapIInv
  <1>2. ASSUME NEW i \in 1..n
        PROVE  c[i] = ByteOf(Value(globals[k].init), i - 1) /\ c[i] \in Bytes
    <2>1. c[i] = ByteOf(Value(globals[k].init), i - 1)
      BY DEF ConstBytes, ByteOf
    <2>2. i - 1 \in Nat
      BY <1>1
    <2> HIDE DEF c
    <2> QED
      BY <2>1, <2>2, ValueType, ByteOfType
  <1>3. c = [i \in 1..n |-> c[i]]
    BY DEF ConstBytes
  <1>4. c \in Seq(Bytes) /\ Len(c) = n
    <2> HIDE DEF c, n
    <2>1. c \in [1..n -> Bytes]
      BY <1>2, <1>3
    <2> QED
      BY <1>1, <2>1, FunctionSeq
  <1>5. GlobalSegment(globals[k]).at = globals[k].at /\ GlobalSegment(globals[k]).bytes = c
    BY DEF GlobalSegment
  <1>6. globals[k].at..(globals[k].at + n - 1) = GlobalRange(globals[k])
    BY DEF GlobalRange
  <1> HIDE DEF c
  <1> QED
    BY <1>1, <1>2, <1>4, <1>5, <1>6 DEF c

\* Every segment of the emitted module is of one of the two sorts.
LEMMA SegmentSorts ==
    ASSUME MapIInv, phase = "emitted", NEW g \in segments
    PROVE  \/ \E s \in Interned : g = StringSegment(s)
           \/ \E k \in DOMAIN globals : Initialized(globals[k]) /\ g = GlobalSegment(globals[k])
  BY DEF MapIInv, Finished

\* A segment begins at an address and holds bytes.
LEMMA SegmentType ==
    ASSUME MapIInv, NEW g \in segments
    PROVE  g.at \in Nat /\ g.bytes \in Seq(Bytes)
  <1>1. phase = "emitted"
    BY DEF MapIInv, Finished
  <1>2. ASSUME NEW s \in Interned, g = StringSegment(s)
        PROVE  g.at \in Nat /\ g.bytes \in Seq(Bytes)
    BY <1>2, StringSegmentParts
  <1>3. ASSUME NEW k \in DOMAIN globals, Initialized(globals[k]), g = GlobalSegment(globals[k])
        PROVE  g.at \in Nat /\ g.bytes \in Seq(Bytes)
    BY <1>3, GlobalSegmentParts DEF Initialized
  <1> QED
    BY <1>1, <1>2, <1>3, SegmentSorts

\* What memory holds when the module is instantiated are numbers.
LEMMA LoadedType ==
    ASSUME MapIInv, NEW x \in Int
    PROVE  Loaded(x) \in Int
  <1>1. CASE Covering(x) = {}
    BY <1>1 DEF Loaded
  <1>2. CASE Covering(x) # {}
    <2> DEFINE g == CHOOSE h \in Covering(x) : TRUE
    <2>1. g \in segments /\ x \in g.at..(g.at + Len(g.bytes) - 1)
      <3>1. g \in Covering(x)
        BY <1>2
      <3> HIDE DEF g
      <3> QED
        BY <3>1 DEF Covering
    <2>2. Loaded(x) = g.bytes[x - g.at + 1]
      BY <1>2 DEF Loaded
    <2> HIDE DEF g
    <2>3. g.at \in Nat /\ g.bytes \in Seq(Bytes)
      BY <2>1, SegmentType
    <2> DEFINE b == g.bytes
               i == x - g.at + 1
    <2>4. b \in Seq(Bytes) /\ i \in 1..Len(b)
      BY <2>1, <2>3
    <2> HIDE DEF b, i
    <2>5. b[i] \in Bytes
      BY <2>4, ElementOfSeq
    <2>6. Bytes \subseteq Int
      BY ConstantsOK DEF Bytes
    <2> QED
      BY <2>2, <2>5, <2>6 DEF b, i
  <1> QED
    BY <1>1, <1>2

\* Where one segment covers an address, memory holds its byte.
LEMMA LoadedFrom ==
    ASSUME NEW x, NEW g \in segments, Covering(x) = {g}
    PROVE  Loaded(x) = g.bytes[x - g.at + 1]
  BY DEF Loaded

\* A literal reads as its bytes and a NUL.
LEMMA LoadedString ==
    ASSUME MapIInv, phase = "emitted", NEW s \in Interned, NEW i \in 0..Len(s)
    PROVE  Loaded(strOff[s] + i) = StringSegment(s).bytes[i + 1]
  <1> DEFINE x == strOff[s] + i
             g == StringSegment(s)
  <1>1. /\ strOff[s] \in Nat /\ Len(s) \in Nat /\ x \in StringRange(s)
        /\ g.at = strOff[s] /\ x - g.at + 1 = i + 1
        /\ g.at..(g.at + Len(g.bytes) - 1) = StringRange(s)
    BY StringSegmentParts, Ends DEF StringRange
  <1>2. g \in segments
    BY DEF MapIInv, Finished
  <1> HIDE DEF x, g
  <1>3. g \in Covering(x)
    BY <1>1, <1>2 DEF Covering
  <1>4. ASSUME NEW h \in Covering(x) PROVE h = g
    <2>1. h \in segments /\ x \in h.at..(h.at + Len(h.bytes) - 1)
      BY DEF Covering
    <2>2. ASSUME NEW t \in Interned, h = StringSegment(t) PROVE h = g
      <3>1. x \in StringRange(t)
        BY <2>1, <2>2, StringSegmentParts
      <3>2. t = s
        BY <1>1, <3>1, Apart
      <3> QED
        BY <2>2, <3>2 DEF g
    <2>3. ASSUME NEW k \in DOMAIN globals, Initialized(globals[k]),
                 h = GlobalSegment(globals[k])
          PROVE  h = g
      <3>1. x \in GlobalRange(globals[k])
        BY <2>1, <2>3, GlobalSegmentParts DEF Initialized
      <3> QED
        BY <1>1, <3>1, Apart
    <2> QED
      BY <2>1, <2>2, <2>3, SegmentSorts
  <1>5. Covering(x) = {g}
    BY <1>3, <1>4
  <1> QED
    BY <1>1, <1>2, <1>5, LoadedFrom DEF x, g

\* A global reads as the bytes of its initializer; as zero without one.
LEMMA LoadedGlobal ==
    ASSUME MapIInv, phase = "emitted", NEW k \in DOMAIN globals,
           NEW i \in 0..(globals[k].type.size - 1)
    PROVE  Loaded(globals[k].at + i)
              = IF globals[k].init.kind = "none" THEN 0
                ELSE ByteOf(Value(globals[k].init), i)
  <1> DEFINE x == globals[k].at + i
             g == GlobalSegment(globals[k])
             n == globals[k].type.size
  <1>1. /\ globals[k].at \in Nat /\ n \in Nat /\ i \in Nat
        /\ x \in GlobalRange(globals[k]) /\ x - globals[k].at + 1 = i + 1
        /\ i + 1 \in 1..n /\ (i + 1) - 1 = i
    <2>1. globals[k].at \in Nat /\ n \in Nat
      BY Ends
    <2>2. GlobalRange(globals[k]) = globals[k].at..(globals[k].at + n - 1)
      BY DEF GlobalRange
    <2> QED
      BY <2>1, <2>2
  <1> HIDE DEF x, n
  <1>2. ASSUME NEW h \in Covering(x) PROVE Initialized(globals[k]) /\ h = g
    <2>1. h \in segments /\ x \in h.at..(h.at + Len(h.bytes) - 1)
      BY DEF Covering
    <2>2. ASSUME NEW t \in Interned, h = StringSegment(t) PROVE FALSE
      <3>1. x \in StringRange(t)
        BY <2>1, <2>2, StringSegmentParts
      <3> QED
        BY <1>1, <3>1, Apart
    <2>3. ASSUME NEW j \in DOMAIN globals, Initialized(globals[j]),
                 h = GlobalSegment(globals[j])
          PROVE  Initialized(globals[k]) /\ h = g
      <3>1. x \in GlobalRange(globals[j])
        BY <2>1, <2>3, GlobalSegmentParts DEF Initialized
      <3>2. j = k
        BY <1>1, <3>1, Apart
      <3> QED
        BY <2>3, <3>2
    <2> QED
      BY <2>1, <2>2, <2>3, SegmentSorts
  <1>3. CASE Initialized(globals[k])
    <2>1. globals[k].init.kind # "none"
      BY <1>3 DEF Initialized
    <2>2. /\ g.at = globals[k].at
          /\ g.bytes[i + 1] = ByteOf(Value(globals[k].init), (i + 1) - 1)
          /\ g.at..(g.at + Len(g.bytes) - 1) = GlobalRange(globals[k])
      BY <1>1, <2>1, GlobalSegmentParts DEF n
    <2>3. g \in segments
      BY <1>3 DEF MapIInv, Finished
    <2> HIDE DEF g
    <2>4. Covering(x) = {g}
      <3>1. g \in Covering(x)
        BY <1>1, <2>2, <2>3 DEF Covering
      <3> QED
        BY <1>2, <3>1
    <2>5. Loaded(x) = g.bytes[x - g.at + 1]
      BY <2>3, <2>4, LoadedFrom
    <2> QED
      BY <1>1, <2>1, <2>2, <2>5 DEF x
  <1>4. CASE ~Initialized(globals[k])
    <2>1. Loaded(x) = 0
      BY <1>2, <1>4 DEF Loaded
    <2>2. ASSUME globals[k].init.kind # "none"
          PROVE  ByteOf(Value(globals[k].init), i) = 0
      <3>1. ConstBytes(globals[k])[i + 1] = ByteOf(Value(globals[k].init), (i + 1) - 1)
        BY <1>1, <2>2, GlobalSegmentParts DEF n
      <3>2. ConstBytes(globals[k])[i + 1] = 0
        BY <1>1, <1>4, <2>2 DEF Initialized, n
      <3> QED
        BY <1>1, <3>1, <3>2
    <2> QED
      BY <2>1, <2>2 DEF x
  <1> QED
    BY <1>3, <1>4

\* Zero is written with zero bytes.
LEMMA ZeroBytes ==
    ASSUME NEW k \in Nat
    PROVE  ByteOf(0, k) = 0
  <1>1. ASSUME NEW m \in Nat \ {0} PROVE 0 \div m = 0 /\ 0 % m = 0
    <2>1. m * 0 = 0 /\ 0 \in Int
      OBVIOUS
    <2>2. (m * 0) % m = 0 /\ (m * 0) \div m = 0
      BY <2>1, MultipleMod
    <2> QED
      BY <2>1, <2>2
  <1>2. Power[k] \in Nat \ {0} /\ ByteValues \in Nat \ {0}
    BY PowerDef, ConstantsOK
  <1> QED
    BY <1>1, <1>2 DEF ByteOf

\* A number and what it leaves modulo m differ by a multiple of m.
LEMMA CutToSize ==
    ASSUME NEW m \in Nat \ {0}, NEW v \in Int
    PROVE  ((v % m) - v) % m = 0
  <1> DEFINE q == v \div m
             r == v % m
  <1>1. q \in Int /\ r \in Int /\ v = m * q + r
    BY Division
  <1> HIDE DEF q, r
  <1>2. -q \in Int /\ r - v = m * (-q)
    BY <1>1
  <1>3. (m * (-q)) % m = 0
    BY <1>2, MultipleMod
  <1>4. (r - v) % m = 0
    BY <1>2, <1>3
  <1> QED
    BY <1>4 DEF r

\* A global reads as its initializer, up to a multiple of what it can hold.
LEMMA GlobalReads ==
    ASSUME MapIInv, phase = "emitted", NEW k \in DOMAIN globals
    PROVE  LET g == globals[k] IN
           (Load(g.at, g.type.size) - IF g.init.kind = "none" THEN 0 ELSE Value(g.init))
               % Power[g.type.size] = 0
  <1> DEFINE g == globals[k]
             n == g.type.size
             v == IF g.init.kind = "none" THEN 0 ELSE Value(g.init)
  <1>1. g.at \in Nat /\ g.at \in Int /\ n \in Nat
    BY Ends
  <1>2. v \in Int
    BY ValueType
  <1>3. ASSUME NEW i \in 0..(n - 1) PROVE Loaded(g.at + i) = ByteOf(v, i)
    <2>1. i \in Nat
      BY <1>1
    <2>2. Loaded(g.at + i) = IF g.init.kind = "none" THEN 0 ELSE ByteOf(Value(g.init), i)
      BY <1>3, LoadedGlobal
    <2> QED
      BY <2>1, <2>2, ZeroBytes
  <1>4. \A x \in Int : Loaded(x) \in Int
    BY LoadedType
  <1>5. Power[n] \in Nat \ {0}
    BY <1>1, PowerDef
  <1> DEFINE a == g.at
  <1>6. \A i \in 0..(n - 1) : Loaded(a + i) = ByteOf(v, i)
    BY <1>3
  <1>7. Load(a, n) = v % Power[n]
    <2>1. a \in Int
      BY <1>1
    <2> HIDE DEF a, n, v
    <2> QED
      BY <1>1, <1>2, <1>4, <1>6, <2>1, LoadOfBytes
  <1>8. (Load(a, n) - v) % Power[n] = 0
    <2> HIDE DEF a, n, v
    <2> QED
      BY <1>2, <1>5, <1>7, CutToSize
  <1> QED
    BY <1>8

\* For any program and any byte size, memory starts as the source says:
\* literals with a NUL, globals as their initializers or zero, and all of it,
\* the stack and the first byte of the heap too, inside the memory declared.
THEOREM DataLoaded == DataSpec => []DataInPlace
  <1>1. ASSUME MapIInv PROVE DataInPlace
    <2> SUFFICES ASSUME phase = "emitted" PROVE DataInPlace
      BY DEF DataInPlace
    <2>1. ASSUME NEW s \in Interned
          PROVE  /\ \A i \in DOMAIN s : Loaded(strOff[s] + i - 1) = s[i]
                 /\ Loaded(strOff[s] + Len(s)) = 0
      <3>1. s \in Seq(Bytes) /\ strOff[s] \in Nat
        BY <1>1, ConstantsOK DEF MapIInv, MapTyped, Bytes
      <3>2. Len(s) \in Nat /\ DOMAIN s = 1..Len(s)
        <4> HIDE DEF Bytes
        <4> QED
          BY <3>1, LenProperties
      <3>3. ASSUME NEW i \in DOMAIN s PROVE Loaded(strOff[s] + i - 1) = s[i]
        <4>1. /\ i \in 1..Len(s) /\ i - 1 \in 0..Len(s) /\ (i - 1) + 1 = i
              /\ strOff[s] + i - 1 = strOff[s] + (i - 1)
          BY <3>1, <3>2
        <4>2. Loaded(strOff[s] + (i - 1)) = StringSegment(s).bytes[(i - 1) + 1]
          BY <1>1, <4>1, LoadedString
        <4>3. StringSegment(s).bytes[i] = s[i]
          BY <1>1, <4>1, StringSegmentParts
        <4> QED
          BY <4>1, <4>2, <4>3
      <3>4. Loaded(strOff[s] + Len(s)) = 0
        <4>1. Len(s) \in 0..Len(s)
          BY <3>2
        <4>2. Loaded(strOff[s] + Len(s)) = StringSegment(s).bytes[Len(s) + 1]
          BY <1>1, <4>1, LoadedString
        <4>3. StringSegment(s).bytes[Len(s) + 1] = 0
          BY <1>1, StringSegmentParts
        <4> QED
          BY <4>2, <4>3
      <3> QED
        BY <3>3, <3>4
    <2>2. heapBase < pages * PageSize
      <3>1. heapBase \in Nat /\ PageSize \in Nat \ {0}
        BY <1>1, StackAboveData, ConstantsOK
      <3> DEFINE c == (heapBase + PageSize - 1) \div PageSize
      <3>2. c \in Nat /\ heapBase <= PageSize * c
        BY <3>1, CeilingDivision
      <3>3. pages = c + 1
        BY <1>1 DEF MapIInv, Finished
      <3> HIDE DEF c
      <3>4. pages * PageSize = PageSize * c + PageSize
        BY <3>1, <3>2, <3>3
      <3> QED
        BY <3>1, <3>2, <3>4
    <2> QED
      BY <1>1, <2>1, <2>2, GlobalReads DEF DataInPlace
  <1> QED
    BY <1>1, MapInvariant, PTL

\* Every cursor and place is an address, and every segment a string of bytes.
THEOREM MapTypeCorrect == DataSpec => []DataTypeOK
  <1>1. ASSUME MapIInv PROVE DataTypeOK
    <2>1. \A g \in segments : g.at \in Nat /\ \A i \in DOMAIN g.bytes : g.bytes[i] \in Bytes
      <3>1. ASSUME NEW g \in segments
            PROVE  g.at \in Nat /\ \A i \in DOMAIN g.bytes : g.bytes[i] \in Bytes
        <4> DEFINE b == g.bytes
        <4>1. g.at \in Nat /\ b \in Seq(Bytes)
          BY <1>1, SegmentType
        <4> HIDE DEF b, Bytes
        <4>2. \A i \in DOMAIN b : b[i] \in Bytes
          BY <4>1, ElementOfSeq, LenProperties
        <4> QED
          BY <4>1, <4>2 DEF b
      <3> QED
        BY <3>1
    <2>2. stackTop \in Nat /\ heapBase \in Nat
      <3>1. CASE phase \in {"laidOut", "emitted"}
        BY <1>1, <3>1, StackAboveData
      <3>2. CASE phase \notin {"laidOut", "emitted"}
        BY <1>1, <3>2 DEF MapIInv, Finished
      <3> QED
        BY <3>1, <3>2
    <2>3. pages \in Nat
      <3>1. CASE phase = "emitted"
        <4>1. heapBase \in Nat /\ PageSize \in Nat \ {0}
          BY <2>2, ConstantsOK
        <4> DEFINE c == (heapBase + PageSize - 1) \div PageSize
        <4>2. c \in Nat
          BY <4>1, CeilingDivision
        <4>3. pages = c + 1
          BY <1>1, <3>1 DEF MapIInv, Finished
        <4> HIDE DEF c
        <4> QED
          BY <4>2, <4>3
      <3>2. CASE phase # "emitted"
        BY <1>1, <3>2 DEF MapIInv, Finished
      <3> QED
        BY <3>1, <3>2
    <2>4. /\ phase \in {"strings", "globals", "laidOut", "emitted"}
          /\ off \in Nat /\ off >= StringBase
          /\ Interned \subseteq Literals /\ \A s \in Interned : strOff[s] \in Nat
          /\ frameOff \in Nat
      <3>1. StringBase <= off /\ off \in Nat /\ StringBase \in Nat
        BY <1>1, ConstantsOK DEF MapIInv, MapTyped, StringsPlaced
      <3>2. off >= StringBase
        BY <3>1
      <3> QED
        BY <1>1, <3>2 DEF MapIInv, MapTyped
    <2>5. /\ \A i \in DOMAIN globals : globals[i].type \in Types /\ globals[i].at \in Nat
          /\ \A i \in DOMAIN slots : slots[i].type \in Types /\ slots[i].at \in Nat
      BY <1>1, PartsTyped DEF MapIInv
    <2> QED
      BY <2>1, <2>2, <2>3, <2>4, <2>5 DEF DataTypeOK
  <1> QED
    BY <1>1, MapInvariant, PTL
=============================================================================
