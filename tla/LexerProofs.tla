---------------------------- MODULE LexerProofs ----------------------------
(***************************************************************************)
(* What TLAPS proves of the lexer by itself, for every set of token kinds  *)
(* and every source: the steps of a run of it, from which FrontEndProofs   *)
(* has the theorems of the specification, and that its tokens are the only *)
(* ones that could be.                                                     *)
(*                                                                         *)
(* The invariant says what lies before the place the lexer has reached:    *)
(* tokens that are exact, and nothing but blanks and comments between them *)
(* and after the last.  What begins a token is told by its first           *)
(* character, so that only one scanner's text is to be compared with what  *)
(* a token is.                                                             *)
(***************************************************************************)
EXTENDS Lexer, Arithmetic, SequenceTheorems, FiniteSetTheorems, TLAPS

-----------------------------------------------------------------------------
(* Characters, and the texts of tokens by their places in the source. *)

Chars == STRING \ {"end"}

\* CharAt, of any source.
At(s, i) == IF i <= Len(s) THEN s[i] ELSE "end"

LEMMA BeforeTheEnd ==
    ASSUME NEW s \in Seq(Chars), NEW i \in Nat \ {0}, At(s, i) # "end"
    PROVE  i \in 1..Len(s) /\ At(s, i) = s[i]
  <1>1. Len(s) \in Nat
    BY LenProperties
  <1> QED
    BY <1>1 DEF At

\* What tells the first characters of tokens apart, and what newlines are no
\* part of.
LEMMA CharKinds ==
    /\ Decimals \subseteq DOMAIN Digit /\ "0" \in Decimals
    /\ Letters \subseteq IdentCont /\ Decimals \subseteq IdentCont
    /\ {"x", "X", "end", "\n", "'", "\"", "/", "|"} \cap DOMAIN Digit = {}
    /\ {"end", "\n", "'", "\"", "|"} \cap IdentCont = {}
    /\ Letters \cap (Single \cup Blanks \cup DOMAIN Digit) \cap Decimals = {}
    /\ Letters \cap (Single \cup Blanks \cup Decimals \cup {"|", "'", "\"", "end"}) = {}
    /\ Decimals \cap (Single \cup Blanks \cup {"|", "'", "\"", "end"}) = {}
    /\ "\"" \notin Blanks \cup {"/"}
  BY CharactersOK DEF Decimals, IdentCont, Single, Blanks

\* The characters of a part of a sequence.
LEMMA Piece ==
    ASSUME NEW S, NEW s \in Seq(S), NEW a \in 1..(Len(s) + 1), NEW b \in (a - 1)..Len(s)
    PROVE  LET t == SubSeq(s, a, b)
           IN  /\ t \in Seq(S) /\ Len(t) = b - a + 1 /\ DOMAIN t = 1..(b - a + 1)
               /\ \A i \in 1..(b - a + 1) : t[i] = s[a + i - 1]
               /\ \A k \in a..b : k - a + 1 \in 1..(b - a + 1) /\ t[k - a + 1] = s[k]
  <1> DEFINE t == SubSeq(s, a, b)
  <1>1. Len(s) \in Nat /\ a \in Int /\ b \in Int
    BY LenProperties
  <1>2. \A i \in a..b : s[i] \in S
    BY <1>1, ElementOfSeq
  <1>3. /\ t \in Seq(S)
        /\ Len(t) = IF a <= b THEN b - a + 1 ELSE 0
        /\ \A i \in 1..(b - a + 1) : t[i] = s[a + i - 1]
    BY ONLY <1>1, <1>2, SubSeqProperties
  <1>4. Len(t) = b - a + 1
    BY <1>1, <1>3
  <1>5. DOMAIN t = 1..Len(t)
    BY <1>3, LenProperties
  <1>6. \A k \in a..b : k - a + 1 \in 1..(b - a + 1) /\ t[k - a + 1] = s[k]
    <2> HIDE DEF t
    <2> TAKE k \in a..b
    <2>1. k - a + 1 \in 1..(b - a + 1) /\ a + (k - a + 1) - 1 = k
      BY <1>1
    <2> QED
      BY <1>3, <2>1
  <1> QED
    BY <1>3, <1>4, <1>5, <1>6

\* A part of a part from its third character on.
LEMMA PieceOfPiece ==
    ASSUME NEW S, NEW s \in Seq(S), NEW a \in 1..(Len(s) + 1), NEW b \in (a - 1)..Len(s),
           b >= a + 2
    PROVE  LET t == SubSeq(s, a, b)
           IN  SubSeq(t, 3, Len(t)) = SubSeq(s, a + 2, b)
  <1> DEFINE t == SubSeq(s, a, b)
  <1>1. Len(s) \in Nat /\ a \in Int /\ b \in Int
    BY LenProperties
  <1>2. Len(t) = b - a + 1
    BY Piece
  <1>3. /\ a \in 1..Len(s) /\ b \in 1..Len(s)
        /\ 3 \in 1..(b - a + 1) /\ b - a + 1 \in 1..(b - a + 1)
        /\ a + 3 - 1 = a + 2 /\ a + (b - a + 1) - 1 = b
    BY <1>1
  <1>4. SubSeq(t, 3, b - a + 1) = SubSeq(s, a + 3 - 1, a + (b - a + 1) - 1)
    BY <1>3, SubSeqOfSubSeq
  <1> QED
    BY <1>2, <1>3, <1>4

\* What the text from a to b is as a token, by the places of its characters.
WordFrom(s, a, b) == a <= b /\ s[a] \in Letters /\ \A k \in a..b : s[k] \in IdentCont
HexFrom(s, a, b) ==
    /\ b >= a + 2 /\ s[a] = "0" /\ s[a + 1] \in {"x", "X"}
    /\ \A k \in (a + 2)..b : s[k] \in DOMAIN Digit
    /\ Value(16, SubSeq(s, a + 2, b)) < 2 ^ LitBits
DecimalFrom(s, a, b) ==
    /\ a <= b /\ \A k \in a..b : s[k] \in Decimals
    /\ s[a] = "0" => b = a
    /\ Value(10, SubSeq(s, a, b)) < 2 ^ LitBits
OperatorFrom(s, a, b) ==
    \/ b = a + 1 /\ <<s[a], s[b]>> \in Double
    \/ b = a /\ s[a] \in Single

\* The quote at e is the first from i on that is not escaped, given that what is
\* before i is not a backslash that escapes.
Closes(s, i, e, q) ==
    /\ e \in i..Len(s) /\ s[e] = q
    /\ \E esc \in SUBSET (i..(e - 2)) :
           \A k \in i..(e - 1) :
               /\ k \in esc <=> s[k] = "\\" /\ k - 1 \notin esc
               /\ IF k - 1 \in esc THEN s[k] \in Escapes ELSE s[k] \notin {q, "\n"}

LEMMA WordText ==
    ASSUME NEW s \in Seq(Chars), NEW a \in 1..(Len(s) + 1), NEW b \in (a - 1)..Len(s)
    PROVE  IsWord(SubSeq(s, a, b)) <=> WordFrom(s, a, b)
  <1> DEFINE t == SubSeq(s, a, b)
  <1>1. Len(s) \in Nat /\ a \in Int /\ b \in Int
    BY LenProperties
  <1>2. /\ t \in Seq(Chars) /\ Len(t) = b - a + 1 /\ DOMAIN t = 1..(b - a + 1)
        /\ \A i \in 1..(b - a + 1) : t[i] = s[a + i - 1]
        /\ \A k \in a..b : k - a + 1 \in 1..(b - a + 1) /\ t[k - a + 1] = s[k]
    BY Piece
  <1> HIDE DEF t
  <1>3. t # <<>> <=> a <= b
    BY <1>1, <1>2, EmptySeq
  <1>4. a <= b => t[1] = s[a]
    <2>1. a <= b => a \in a..b /\ a - a + 1 = 1
      BY <1>1
    <2> QED
      BY <1>2, <2>1
  <1>5. ASSUME NEW S
        PROVE  (\A i \in DOMAIN t : t[i] \in S) <=> (\A k \in a..b : s[k] \in S)
    <2>1. \A i \in 1..(b - a + 1) : a + i - 1 \in a..b
      BY <1>1
    <2> QED
      BY <1>2, <2>1
  <1> QED
    BY <1>3, <1>4, <1>5 DEF IsWord, WordFrom, t

LEMMA DecimalText ==
    ASSUME NEW s \in Seq(Chars), NEW a \in 1..(Len(s) + 1), NEW b \in (a - 1)..Len(s)
    PROVE  IsDecimal(SubSeq(s, a, b)) <=> DecimalFrom(s, a, b)
  <1> DEFINE t == SubSeq(s, a, b)
  <1>1. Len(s) \in Nat /\ a \in Int /\ b \in Int
    BY LenProperties
  <1>2. /\ t \in Seq(Chars) /\ Len(t) = b - a + 1 /\ DOMAIN t = 1..(b - a + 1)
        /\ \A i \in 1..(b - a + 1) : t[i] = s[a + i - 1]
        /\ \A k \in a..b : k - a + 1 \in 1..(b - a + 1) /\ t[k - a + 1] = s[k]
    BY Piece
  <1>3. IsDecimal(t) <=> DecimalFrom(s, a, b)
    <2> DEFINE small == Value(10, t) < 2 ^ LitBits
    <2>1. IsDecimal(t) <=> /\ t # <<>> /\ \A i \in DOMAIN t : t[i] \in Decimals
                           /\ t[1] = "0" => Len(t) = 1
                           /\ small
      BY ONLY DEF IsDecimal, small
    <2>2. DecimalFrom(s, a, b) <=> /\ a <= b /\ \A k \in a..b : s[k] \in Decimals
                                   /\ s[a] = "0" => b = a
                                   /\ small
      BY ONLY DEF DecimalFrom, small, t
    <2> HIDE DEF t, small
    <2>3. t # <<>> <=> a <= b
      BY <1>1, <1>2, EmptySeq
    <2>4. a <= b => t[1] = s[a] /\ (Len(t) = 1 <=> b = a)
      <3>1. a <= b => a \in a..b /\ a - a + 1 = 1 /\ (b - a + 1 = 1 <=> b = a)
        BY <1>1
      <3> QED
        BY <1>2, <3>1
    <2>5. (\A i \in DOMAIN t : t[i] \in Decimals) <=> (\A k \in a..b : s[k] \in Decimals)
      <3>1. \A i \in 1..(b - a + 1) : a + i - 1 \in a..b
        BY <1>1
      <3> QED
        BY <1>2, <3>1
    <2> QED
      BY <2>1, <2>2, <2>3, <2>4, <2>5
  <1> QED
    BY <1>3

LEMMA HexText ==
    ASSUME NEW s \in Seq(Chars), NEW a \in 1..(Len(s) + 1), NEW b \in (a - 1)..Len(s)
    PROVE  IsHex(SubSeq(s, a, b)) <=> HexFrom(s, a, b)
  <1> DEFINE t == SubSeq(s, a, b)
  <1>1. Len(s) \in Nat /\ a \in Int /\ b \in Int
    BY LenProperties
  <1>2. /\ t \in Seq(Chars) /\ Len(t) = b - a + 1 /\ DOMAIN t = 1..(b - a + 1)
        /\ \A i \in 1..(b - a + 1) : t[i] = s[a + i - 1]
        /\ \A k \in a..b : k - a + 1 \in 1..(b - a + 1) /\ t[k - a + 1] = s[k]
    BY Piece
  <1>3. Len(t) > 2 <=> b >= a + 2
    BY <1>1, <1>2
  <1>4. CASE b >= a + 2
    <2> DEFINE small == Value(16, SubSeq(s, a + 2, b)) < 2 ^ LitBits
    <2>1. SubSeq(t, 3, Len(t)) = SubSeq(s, a + 2, b)
      BY <1>4, PieceOfPiece
    <2>2. IsHex(t) <=> /\ Len(t) > 2 /\ t[1] = "0" /\ t[2] \in {"x", "X"}
                       /\ \A i \in 3..Len(t) : t[i] \in DOMAIN Digit
                       /\ small
      <3>1. IsHex(t) <=> /\ Len(t) > 2 /\ t[1] = "0" /\ t[2] \in {"x", "X"}
                         /\ \A i \in 3..Len(t) : t[i] \in DOMAIN Digit
                         /\ Value(16, SubSeq(t, 3, Len(t))) < 2 ^ LitBits
        BY ONLY DEF IsHex
      <3> DEFINE w == SubSeq(t, 3, Len(t))
      <3>2. Value(16, w) = Value(16, SubSeq(s, a + 2, b))
        BY <2>1
      <3> QED
        BY ONLY <3>1, <3>2
    <2>3. HexFrom(s, a, b) <=> /\ b >= a + 2 /\ s[a] = "0" /\ s[a + 1] \in {"x", "X"}
                               /\ \A k \in (a + 2)..b : s[k] \in DOMAIN Digit
                               /\ small
      BY ONLY DEF HexFrom, small
    <2> HIDE DEF t, small
    <2>4. t[1] = s[a] /\ t[2] = s[a + 1]
      <3>1. /\ a \in a..b /\ a - a + 1 = 1
            /\ a + 1 \in a..b /\ a + 1 - a + 1 = 2
        BY <1>1, <1>4
      <3> QED
        BY <1>2, <3>1
    <2>5. (\A i \in 3..Len(t) : t[i] \in DOMAIN Digit)
              <=> (\A k \in (a + 2)..b : s[k] \in DOMAIN Digit)
      <3>1. \A i \in 3..Len(t) : i \in 1..(b - a + 1) /\ a + i - 1 \in (a + 2)..b
        BY <1>1, <1>2
      <3>2. \A k \in (a + 2)..b : k \in a..b /\ k - a + 1 \in 3..Len(t)
        BY <1>1, <1>2
      <3> QED
        BY <1>2, <3>1, <3>2
    <2> QED
      BY <1>3, <2>2, <2>3, <2>4, <2>5 DEF t
  <1>5. CASE ~(b >= a + 2)
    BY <1>3, <1>5 DEF IsHex, HexFrom
  <1> QED
    BY <1>4, <1>5

LEMMA OperatorText ==
    ASSUME NEW s \in Seq(Chars), NEW a \in 1..(Len(s) + 1), NEW b \in (a - 1)..Len(s)
    PROVE  IsOperator(SubSeq(s, a, b)) <=> OperatorFrom(s, a, b)
  <1> DEFINE t == SubSeq(s, a, b)
  <1>1. Len(s) \in Nat /\ a \in Int /\ b \in Int
    BY LenProperties
  <1>2. /\ t \in Seq(Chars) /\ Len(t) = b - a + 1 /\ DOMAIN t = 1..(b - a + 1)
        /\ \A i \in 1..(b - a + 1) : t[i] = s[a + i - 1]
        /\ \A k \in a..b : k - a + 1 \in 1..(b - a + 1) /\ t[k - a + 1] = s[k]
    BY Piece
  <1> HIDE DEF t
  <1>3. \A d \in Double : Len(d) = 2
    BY DEF Double
  <1>4. b = a => t[1] = s[a] /\ Len(t) = 1
    BY <1>1, <1>2
  <1>5. CASE b = a + 1
    <2>1. /\ a \in a..b /\ a - a + 1 = 1 /\ b \in a..b /\ b - a + 1 = 2
      BY <1>1, <1>5
    <2>2. t[1] = s[a] /\ t[2] = s[b] /\ Len(t) = 2
      BY <1>2, <2>1
    <2>3. t = <<s[a], s[b]>>
      <3>1. s[a] \in Chars /\ s[b] \in Chars
        BY <1>1, <1>5, ElementOfSeq
      <3>2. <<s[a], s[b]>> \in Seq(Chars) /\ Len(<<s[a], s[b]>>) = 2
            /\ <<s[a], s[b]>>[1] = s[a] /\ <<s[a], s[b]>>[2] = s[b]
        BY <3>1
      <3> DEFINE u == <<s[a], s[b]>>
      <3> HIDE DEF u
      <3>3. u \in Seq(Chars) /\ Len(u) = 2 /\ u[1] = s[a] /\ u[2] = s[b]
        BY <3>2 DEF u
      <3>4. \A i \in 1..Len(t) : t[i] = u[i]
        <4>1. \A i \in 1..2 : i = 1 \/ i = 2
          OBVIOUS
        <4> QED
          BY <2>2, <3>3, <4>1
      <3>5. t = u
        BY ONLY <1>2, <2>2, <3>3, <3>4, SeqEqual
      <3> QED
        BY <3>5 DEF u
    <2>4. IsOperator(t) <=> t \in Double
      BY <2>2 DEF IsOperator
    <2>5. OperatorFrom(s, a, b) <=> <<s[a], s[b]>> \in Double
      BY <1>1, <1>5 DEF OperatorFrom
    <2> QED
      BY <2>3, <2>4, <2>5 DEF t
  <1>6. CASE b # a + 1
    <2>1. Len(t) # 2 /\ (Len(t) = 1 <=> b = a)
      BY <1>1, <1>2, <1>6
    <2>2. t \notin Double
      BY <1>3, <2>1
    <2> QED
      BY <1>4, <1>6, <2>1, <2>2 DEF IsOperator, OperatorFrom, t
  <1> QED
    BY <1>5, <1>6

LEMMA QuotedText ==
    ASSUME NEW s \in Seq(Chars), NEW a \in 1..(Len(s) + 1), NEW b \in (a - 1)..Len(s), NEW q
    PROVE  IsQuoted(SubSeq(s, a, b), q) <=> a < b /\ s[a] = q /\ Closes(s, a + 1, b, q)
  <1> DEFINE t == SubSeq(s, a, b)
             Text(esc) ==
                 /\ \A i \in 2..(Len(t) - 1) :
                        i \in esc <=> t[i] = "\\" /\ i - 1 \notin esc
                 /\ \A i \in 2..(Len(t) - 1) :
                        IF i - 1 \in esc THEN t[i] \in Escapes ELSE t[i] \notin {q, "\n"}
             Marks(esc) ==
                 \A k \in (a + 1)..(b - 1) :
                     /\ k \in esc <=> s[k] = "\\" /\ k - 1 \notin esc
                     /\ IF k - 1 \in esc THEN s[k] \in Escapes ELSE s[k] \notin {q, "\n"}
  <1>1. Len(s) \in Nat /\ a \in Int /\ b \in Int
    BY LenProperties
  <1>2. /\ t \in Seq(Chars) /\ Len(t) = b - a + 1 /\ DOMAIN t = 1..(b - a + 1)
        /\ \A i \in 1..(b - a + 1) : t[i] = s[a + i - 1]
        /\ \A k \in a..b : k - a + 1 \in 1..(b - a + 1) /\ t[k - a + 1] = s[k]
    BY Piece
  <1> HIDE DEF t
  <1>3. Len(t) >= 2 <=> a < b
    BY <1>1, <1>2
  <1>4. CASE a < b
    <2>1. t[1] = s[a] /\ t[Len(t)] = s[b]
      <3>1. /\ a \in a..b /\ a - a + 1 = 1 /\ b \in a..b /\ b - a + 1 = Len(t)
        BY <1>1, <1>2, <1>4
      <3> QED
        BY <1>2, <3>1
    <2>2. ASSUME NEW e1 \in SUBSET (2..(Len(t) - 2)), Text(e1)
          PROVE  \E e2 \in SUBSET ((a + 1)..(b - 2)) : Marks(e2)
      <3> DEFINE e2 == {k \in (a + 1)..(b - 2) : k - a + 1 \in e1}
      <3>1. \A k \in a..(b - 1) : k \in e2 <=> k - a + 1 \in e1
        <4>1. \A k \in a..(b - 1) : k - a + 1 \in 2..(b - a + 1 - 2) => k \in (a + 1)..(b - 2)
          BY <1>1
        <4> QED
          BY <1>2, <4>1
      <3>2. ASSUME NEW k \in (a + 1)..(b - 1)
            PROVE  /\ k \in e2 <=> s[k] = "\\" /\ k - 1 \notin e2
                   /\ IF k - 1 \in e2 THEN s[k] \in Escapes ELSE s[k] \notin {q, "\n"}
        <4> DEFINE i == k - a + 1
        <4>1. i \in 2..(Len(t) - 1) /\ i - 1 = (k - 1) - a + 1 /\ k \in a..b
              /\ k \in a..(b - 1) /\ k - 1 \in a..(b - 1)
          BY <1>1, <1>2
        <4>2. t[i] = s[k]
          BY <1>2, <4>1
        <4>3. (k \in e2 <=> i \in e1) /\ (k - 1 \in e2 <=> i - 1 \in e1)
          BY <3>1, <4>1
        <4> HIDE DEF i, e2
        <4>4. /\ i \in e1 <=> t[i] = "\\" /\ i - 1 \notin e1
              /\ IF i - 1 \in e1 THEN t[i] \in Escapes ELSE t[i] \notin {q, "\n"}
          BY <2>2, <4>1
        <4> QED
          BY ONLY <4>2, <4>3, <4>4
      <3>3. e2 \in SUBSET ((a + 1)..(b - 2))
        OBVIOUS
      <3> HIDE DEF e2
      <3> QED
        BY <3>2, <3>3
    <2>3. ASSUME NEW e2 \in SUBSET ((a + 1)..(b - 2)), Marks(e2)
          PROVE  \E e1 \in SUBSET (2..(Len(t) - 2)) : Text(e1)
      <3> DEFINE e1 == {i \in 2..(Len(t) - 2) : a + i - 1 \in e2}
      <3>1. \A i \in 1..(Len(t) - 1) : i \in e1 <=> a + i - 1 \in e2
        <4>1. \A i \in 1..(b - a + 1 - 1) :
                  a + i - 1 \in (a + 1)..(b - 2) => i \in 2..(b - a + 1 - 2)
          BY <1>1
        <4> QED
          BY <1>2, <4>1
      <3>2. ASSUME NEW i \in 2..(Len(t) - 1)
            PROVE  /\ i \in e1 <=> t[i] = "\\" /\ i - 1 \notin e1
                   /\ IF i - 1 \in e1 THEN t[i] \in Escapes ELSE t[i] \notin {q, "\n"}
        <4> DEFINE k == a + i - 1
        <4>1. k \in (a + 1)..(b - 1) /\ k - 1 = a + (i - 1) - 1 /\ i \in 1..(b - a + 1)
              /\ i \in 1..(Len(t) - 1) /\ i - 1 \in 1..(Len(t) - 1)
          BY <1>1, <1>2
        <4>2. t[i] = s[k]
          BY <1>2, <4>1
        <4>3. (i \in e1 <=> k \in e2) /\ (i - 1 \in e1 <=> k - 1 \in e2)
          BY <3>1, <4>1
        <4> HIDE DEF k, e1
        <4>4. /\ k \in e2 <=> s[k] = "\\" /\ k - 1 \notin e2
              /\ IF k - 1 \in e2 THEN s[k] \in Escapes ELSE s[k] \notin {q, "\n"}
          BY <2>3, <4>1
        <4> QED
          BY ONLY <4>2, <4>3, <4>4
      <3>3. e1 \in SUBSET (2..(Len(t) - 2))
        OBVIOUS
      <3> HIDE DEF e1
      <3> QED
        BY <3>2, <3>3
    <2>4. IsQuoted(t, q) <=> /\ Len(t) >= 2 /\ t[1] = q /\ t[Len(t)] = q
                             /\ \E esc \in SUBSET (2..(Len(t) - 2)) : Text(esc)
      BY DEF IsQuoted
    <2>5. b - 1 \in Int /\ b - 2 \in Int /\ b \in (a + 1)..Len(s)
      BY <1>1, <1>4
    <2>6. Closes(s, a + 1, b, q) <=> /\ b \in (a + 1)..Len(s) /\ s[b] = q
                                     /\ \E esc \in SUBSET ((a + 1)..(b - 2)) : Marks(esc)
      BY DEF Closes
    <2> HIDE DEF Text, Marks
    <2>7. IsQuoted(t, q) <=> a < b /\ s[a] = q /\ Closes(s, a + 1, b, q)
      BY <1>3, <1>4, <2>1, <2>2, <2>3, <2>4, <2>5, <2>6
    <2> QED
      BY <2>7 DEF t
  <1>5. CASE ~(a < b)
    BY <1>3, <1>5 DEF IsQuoted, t
  <1> QED
    BY <1>4, <1>5

\* What a token is that begins at a place: the first character tells.
LEMMA TextsOfKinds ==
    \A t : /\ HasKind(t, "IDENT") <=> IsWord(t) /\ t \notin Keywords
           /\ HasKind(t, "KEYWORD") <=> t \in Keywords
           /\ HasKind(t, "INT") <=> IsHex(t) \/ IsDecimal(t)
           /\ HasKind(t, "CHAR") <=> IsQuoted(t, "'") /\ Len(t) = (IF t[2] = "\\" THEN 4 ELSE 3)
           /\ HasKind(t, "STRING") <=> IsQuoted(t, "\"")
           /\ HasKind(t, "OPERATOR") <=> IsOperator(t)
           /\ HasKind(t, "EOF") <=> t = <<>>
  <1> TAKE t
  <1>1. HasKind(t, "IDENT") <=> IsWord(t) /\ t \notin Keywords
    BY DEF HasKind
  <1>2. HasKind(t, "KEYWORD") <=> t \in Keywords
    BY DEF HasKind
  <1>3. HasKind(t, "INT") <=> IsHex(t) \/ IsDecimal(t)
    BY DEF HasKind
  <1>4. HasKind(t, "CHAR") <=> IsQuoted(t, "'") /\ Len(t) = (IF t[2] = "\\" THEN 4 ELSE 3)
    BY DEF HasKind
  <1>5. HasKind(t, "STRING") <=> IsQuoted(t, "\"")
    BY DEF HasKind
  <1>6. HasKind(t, "OPERATOR") <=> IsOperator(t)
    BY DEF HasKind
  <1>7. HasKind(t, "EOF") <=> t = <<>>
    BY DEF HasKind
  <1> QED
    BY <1>1, <1>2, <1>3, <1>4, <1>5, <1>6, <1>7

\* A character literal from a to b.
CharFrom(s, a, b) ==
    /\ s[a] = "'" /\ Closes(s, a + 1, b, "'")
    /\ b = (IF s[a + 1] = "\\" THEN a + 3 ELSE a + 2)

LEMMA CharText ==
    ASSUME NEW s \in Seq(Chars), NEW a \in 1..(Len(s) + 1), NEW b \in (a - 1)..Len(s)
    PROVE  LET t == SubSeq(s, a, b)
           IN  IsQuoted(t, "'") /\ Len(t) = (IF t[2] = "\\" THEN 4 ELSE 3)
                   <=> CharFrom(s, a, b)
  <1> DEFINE t == SubSeq(s, a, b)
  <1>1. Len(s) \in Nat /\ a \in Int /\ b \in Int
    BY LenProperties
  <1>2. IsQuoted(t, "'") <=> a < b /\ s[a] = "'" /\ Closes(s, a + 1, b, "'")
    BY QuotedText
  <1>3. Closes(s, a + 1, b, "'") => a < b
    BY <1>1 DEF Closes
  <1>4. Len(t) = b - a + 1 /\ \A k \in a..b : t[k - a + 1] = s[k]
    BY Piece
  <1> HIDE DEF t
  <1>5. a < b => t[2] = s[a + 1]
    <2>1. a < b => a + 1 \in a..b /\ a + 1 - a + 1 = 2
      BY <1>1
    <2> QED
      BY <1>4, <2>1
  <1>6. /\ Len(t) = 4 <=> b = a + 3
        /\ Len(t) = 3 <=> b = a + 2
    BY <1>1, <1>4
  <1>7. IsQuoted(t, "'") /\ Len(t) = (IF t[2] = "\\" THEN 4 ELSE 3) <=> CharFrom(s, a, b)
    BY <1>2, <1>3, <1>5, <1>6 DEF CharFrom
  <1> QED
    BY <1>7 DEF t

\* Any token begins with the character its kind begins with.
LEMMA Beginnings ==
    ASSUME NEW s \in Seq(Chars), NEW a \in 1..Len(s), NEW b \in a..Len(s),
           IsToken(SubSeq(s, a, b))
    PROVE  /\ s[a] \in Letters => WordFrom(s, a, b)
           /\ s[a] \in Decimals => HexFrom(s, a, b) \/ DecimalFrom(s, a, b)
           /\ s[a] = "'" => CharFrom(s, a, b)
           /\ s[a] = "\"" => Closes(s, a + 1, b, "\"")
           /\ s[a] \notin Letters \cup Decimals \cup {"'", "\""} => OperatorFrom(s, a, b)
  <1> DEFINE t == SubSeq(s, a, b)
  <1>1. Len(s) \in Nat /\ a \in 1..(Len(s) + 1) /\ b \in (a - 1)..Len(s)
    BY LenProperties
  <1>2. /\ IsWord(t) <=> WordFrom(s, a, b)
        /\ IsDecimal(t) <=> DecimalFrom(s, a, b)
        /\ IsHex(t) <=> HexFrom(s, a, b)
        /\ IsOperator(t) <=> OperatorFrom(s, a, b)
        /\ IsQuoted(t, "\"") <=> a < b /\ s[a] = "\"" /\ Closes(s, a + 1, b, "\"")
        /\ IsQuoted(t, "'") /\ Len(t) = (IF t[2] = "\\" THEN 4 ELSE 3) <=> CharFrom(s, a, b)
    BY <1>1, WordText, DecimalText, HexText, OperatorText, QuotedText, CharText
  <1>3. PICK kind \in TokenKinds \ {"EOF"} : HasKind(t, kind)
    BY DEF IsToken
  <1> HIDE DEF t
  <1>4. kind \in {"IDENT", "KEYWORD", "INT", "CHAR", "STRING", "OPERATOR"}
    BY <1>3 DEF TokenKinds
  <1>5. t \in Keywords => IsWord(t)
    BY CharactersOK
  <1>6. \/ WordFrom(s, a, b) \/ HexFrom(s, a, b) \/ DecimalFrom(s, a, b) \/ CharFrom(s, a, b)
        \/ s[a] = "\"" /\ Closes(s, a + 1, b, "\"")
        \/ OperatorFrom(s, a, b)
    BY <1>2, <1>3, <1>4, <1>5, TextsOfKinds
  <1>7. /\ WordFrom(s, a, b) => s[a] \in Letters
        /\ HexFrom(s, a, b) => s[a] = "0"
        /\ CharFrom(s, a, b) => s[a] = "'"
    BY DEF WordFrom, HexFrom, CharFrom
  <1>8. DecimalFrom(s, a, b) => s[a] \in Decimals
    BY <1>1 DEF DecimalFrom
  <1>9. OperatorFrom(s, a, b) => s[a] \in Single \cup {"|"}
    <2>1. \A x, y : <<x, y>> \in Double => x \in Single \cup {"|"}
      BY DEF Double, Single
    <2> QED
      BY <2>1 DEF OperatorFrom
  <1>10. {"'", "\""} \cap (Single \cup {"|"} \cup Letters \cup Decimals) = {}
    BY CharKinds DEF Single
  <1> QED
    BY <1>6, <1>7, <1>8, <1>9, <1>10, CharKinds

-----------------------------------------------------------------------------
(* Runs of characters, and lines. *)

\* RunEnd, of any source.
Run(s, i, S) == CHOOSE j \in i..(Len(s) + 1) :
                    At(s, j) \notin S /\ \A k \in i..(j - 1) : At(s, k) \in S

LEMMA RunEnds ==
    ASSUME NEW s \in Seq(Chars), NEW i \in 1..(Len(s) + 1), NEW S, "end" \notin S
    PROVE  LET e == Run(s, i, S)
           IN  /\ e \in i..(Len(s) + 1)
               /\ e <= Len(s) => s[e] \notin S
               /\ \A k \in i..(e - 1) : s[k] \in S
  <1> DEFINE T == {j \in i..(Len(s) + 1) : At(s, j) \notin S}
             e == Run(s, i, S)
  <1>1. Len(s) \in Nat /\ i \in Int
    BY LenProperties
  <1>2. Len(s) + 1 \in T
    BY <1>1 DEF At
  <1>3. PICK j \in T : \A y \in T : j <= y
    <2>1. T \subseteq Nat /\ T # {}
      BY <1>1, <1>2
    <2> HIDE DEF T
    <2> QED
      BY <2>1, LeastNumber
  <1>4. \A k \in i..(j - 1) : At(s, k) \in S
    <2> TAKE k \in i..(j - 1)
    <2>1. k \in i..(Len(s) + 1) /\ ~(j <= k)
      BY <1>1, <1>3
    <2> QED
      BY <1>3, <2>1
  <1>5. /\ e \in i..(Len(s) + 1)
        /\ At(s, e) \notin S /\ \A k \in i..(e - 1) : At(s, k) \in S
    BY <1>3, <1>4 DEF Run
  <1> HIDE DEF e
  <1>6. e <= Len(s) => s[e] \notin S
    BY <1>5 DEF At
  <1>7. \A k \in i..(e - 1) : s[k] \in S
    <2> TAKE k \in i..(e - 1)
    <2>1. k <= Len(s)
      BY <1>1, <1>5
    <2> QED
      BY <1>5, <2>1 DEF At
  <1> QED
    BY <1>5, <1>6, <1>7 DEF e

\* The line and the column l, c of place o.
Newlines(s, o) == {k \in 1..(o - 1) : s[k] = "\n"}
Position(s, o, l, c) ==
    /\ l = 1 + Cardinality(Newlines(s, o))
    /\ o - c \in {0} \cup Newlines(s, o)
    /\ \A k \in Newlines(s, o) : k <= o - c

LEMMA PositionParts ==
    ASSUME NEW s, NEW o \in Nat \ {0}, NEW c \in Int, NEW l, Position(s, o, l, c)
    PROVE  l \in Nat \ {0} /\ c \in Nat \ {0} /\ IsFiniteSet(Newlines(s, o))
  <1>1. IsFiniteSet(1..(o - 1))
    BY FS_Interval
  <1>2. IsFiniteSet(Newlines(s, o))
    BY <1>1, FS_Subset DEF Newlines
  <1>3. Cardinality(Newlines(s, o)) \in Nat
    BY <1>2, FS_CardinalityType
  <1>4. l = 1 + Cardinality(Newlines(s, o)) /\ o - c \in {0} \cup Newlines(s, o)
    BY DEF Position
  <1>5. o - c \in 0..(o - 1)
    BY <1>4 DEF Newlines
  <1> QED
    BY <1>2, <1>3, <1>4, <1>5

\* Characters without a newline move the column.
LEMMA MoveAlong ==
    ASSUME NEW s, NEW o \in Nat \ {0}, NEW c \in Int, NEW l, Position(s, o, l, c),
           NEW n \in Nat, \A k \in o..(o + n - 1) : s[k] # "\n"
    PROVE  Position(s, o + n, l, c + n)
  <1>1. Newlines(s, o + n) = Newlines(s, o)
    <2>1. \A k \in 1..(o + n - 1) : k \in 1..(o - 1) \/ k \in o..(o + n - 1)
      OBVIOUS
    <2>2. \A k \in 1..(o - 1) : k \in 1..(o + n - 1)
      OBVIOUS
    <2> QED
      BY <2>1, <2>2 DEF Newlines
  <1>2. o + n - (c + n) = o - c
    OBVIOUS
  <1> QED
    BY <1>1, <1>2 DEF Position

\* A newline begins a line.
LEMMA MoveDown ==
    ASSUME NEW s, NEW o \in Nat \ {0}, NEW c \in Int, NEW l, Position(s, o, l, c), s[o] = "\n"
    PROVE  Position(s, o + 1, l + 1, 1)
  <1> DEFINE before == Newlines(s, o)
             after == Newlines(s, o + 1)
  <1>1. after = before \cup {o} /\ o \notin before
    BY DEF Newlines
  <1>2. IsFiniteSet(before) /\ l = 1 + Cardinality(before) /\ Cardinality(before) \in Nat
    <2>1. IsFiniteSet(before)
      BY PositionParts
    <2> QED
      BY <2>1, FS_CardinalityType DEF Position
  <1>3. \A k \in after : k <= o
    BY DEF Newlines
  <1> HIDE DEF before, after
  <1>4. Cardinality(after) = Cardinality(before) + 1
    BY <1>1, <1>2, FS_AddElement
  <1>5. o + 1 - 1 = o /\ l + 1 = 1 + Cardinality(after) /\ o \in after
    BY <1>1, <1>2, <1>4
  <1> QED
    BY <1>3, <1>5 DEF Position, after

-----------------------------------------------------------------------------
(* Where strings end. *)

\* Step by step, from the front.
LEMMA ClosesAtOnce ==
    ASSUME NEW s \in Seq(Chars), NEW i \in Nat \ {0}, NEW q, q \notin {"\\", "end"}
    PROVE  /\ At(s, i) \in {"end", "\n"} \ {q} => \A e : ~Closes(s, i, e, q)
           /\ At(s, i) = q => \A e : Closes(s, i, e, q) <=> e = i
  <1>1. Len(s) \in Nat
    BY LenProperties
  <1>2. ASSUME NEW e, Closes(s, i, e, q)
        PROVE  i \in 1..Len(s) /\ e \in i..Len(s) /\ (e = i => s[i] = q)
               /\ (e # i => s[i] \notin {q, "\n"})
    <2>1. e \in i..Len(s) /\ s[e] = q
      BY <1>2 DEF Closes
    <2>2. ASSUME e # i PROVE s[i] \notin {q, "\n"}
      <3>1. i \in i..(e - 1) /\ i - 1 \notin i..(e - 2)
        BY <1>1, <2>1, <2>2
      <3> QED
        BY <1>2, <3>1 DEF Closes
    <2> QED
      BY <1>1, <2>1, <2>2
  <1>3. ASSUME At(s, i) = q PROVE Closes(s, i, i, q)
    <2>1. i \in 1..Len(s) /\ s[i] = q
      BY <1>1, <1>3 DEF At
    <2>2. i \in i..Len(s) /\ {} \in SUBSET (i..(i - 2)) /\ ~\E k : k \in i..(i - 1)
      BY <1>1, <2>1
    <2> QED
      BY <2>1, <2>2 DEF Closes
  <1>4. \A e : Closes(s, i, e, q) => s[i] \in Chars /\ At(s, i) = s[i]
    <2> TAKE e
    <2> HAVE Closes(s, i, e, q)
    <2>1. i \in 1..Len(s)
      BY <1>2
    <2> QED
      BY <1>1, <2>1, ElementOfSeq DEF At
  <1> QED
    BY <1>2, <1>3, <1>4 DEF Chars

LEMMA ClosesAfterEscape ==
    ASSUME NEW s \in Seq(Chars), NEW i \in Nat \ {0}, NEW q, q \notin {"\\", "end"},
           At(s, i) = "\\", NEW e
    PROVE  Closes(s, i, e, q) <=> At(s, i + 1) \in Escapes /\ Closes(s, i + 2, e, q)
  <1> DEFINE Marks(esc, m) ==
                 \A k \in m..(e - 1) :
                     /\ k \in esc <=> s[k] = "\\" /\ k - 1 \notin esc
                     /\ IF k - 1 \in esc THEN s[k] \in Escapes ELSE s[k] \notin {q, "\n"}
  <1>1. Len(s) \in Nat
    BY LenProperties
  <1>2. i \in 1..Len(s) /\ s[i] = "\\"
    BY <1>1 DEF At
  <1>3. \A m : Closes(s, m, e, q) <=> /\ e \in m..Len(s) /\ s[e] = q
                                      /\ \E esc \in SUBSET (m..(e - 2)) : Marks(esc, m)
    BY DEF Closes
  <1>4. ASSUME Closes(s, i, e, q) PROVE At(s, i + 1) \in Escapes /\ Closes(s, i + 2, e, q)
    <2>1. e \in i..Len(s) /\ s[e] = q /\ e # i
      BY <1>2, <1>3, <1>4
    <2>2. PICK esc \in SUBSET (i..(e - 2)) : Marks(esc, i)
      BY <1>3, <1>4
    <2>3. i \in esc
      <3>1. i \in i..(e - 1) /\ i - 1 \notin i..(e - 2)
        BY <1>1, <2>1
      <3> QED
        BY <1>2, <2>2, <3>1
    <2>4. i + 1 \in i..(e - 1) /\ i + 1 - 1 = i /\ i + 1 <= Len(s) /\ e \in (i + 2)..Len(s)
      BY <1>1, <2>1, <2>3
    <2>5. s[i + 1] \in Escapes /\ i + 1 \notin esc
      BY <2>2, <2>3, <2>4
    <2> DEFINE rest == esc \ {i}
    <2>6. rest \in SUBSET ((i + 2)..(e - 2))
      <3>1. \A k \in i..(e - 2) : k = i \/ k = i + 1 \/ k \in (i + 2)..(e - 2)
        BY <1>1, <2>1
      <3> QED
        BY <2>5, <3>1
    <2>7. Marks(rest, i + 2)
      <3> TAKE k \in (i + 2)..(e - 1)
      <3>1. k # i /\ k - 1 # i /\ k \in i..(e - 1)
        BY <1>1, <2>1
      <3> QED
        BY <2>2, <3>1
    <2>8. At(s, i + 1) \in Escapes
      BY <2>4, <2>5 DEF At
    <2> HIDE DEF Marks, rest
    <2> QED
      BY <1>3, <2>1, <2>4, <2>6, <2>7, <2>8
  <1>5. ASSUME At(s, i + 1) \in Escapes, Closes(s, i + 2, e, q) PROVE Closes(s, i, e, q)
    <2>1. e \in (i + 2)..Len(s) /\ s[e] = q
      BY <1>3, <1>5
    <2>2. PICK rest \in SUBSET ((i + 2)..(e - 2)) : Marks(rest, i + 2)
      BY <1>3, <1>5
    <2> DEFINE esc == rest \cup {i}
    <2>3. i + 1 <= Len(s) /\ e \in i..Len(s)
      BY <1>1, <2>1
    <2>4. s[i + 1] \in Escapes
      BY <1>5, <2>3 DEF At
    <2>5. i \in esc /\ i - 1 \notin esc /\ i + 1 \notin esc /\ i + 1 - 1 = i
      <3>1. i + 1 # i /\ i - 1 # i /\ i + 1 \notin (i + 2)..(e - 2)
            /\ i - 1 \notin (i + 2)..(e - 2)
        BY <1>1, <2>1
      <3> QED
        BY <3>1
    <2>6. Marks(esc, i)
      <3> SUFFICES ASSUME NEW k \in i..(e - 1)
                   PROVE  /\ k \in esc <=> s[k] = "\\" /\ k - 1 \notin esc
                          /\ IF k - 1 \in esc THEN s[k] \in Escapes ELSE s[k] \notin {q, "\n"}
        OBVIOUS
      <3>1. CASE k = i
        BY <1>2, <2>5, <3>1
      <3>2. CASE k = i + 1
        BY <2>4, <2>5, <3>2
      <3>3. CASE k # i /\ k # i + 1
        <4>1. k \in (i + 2)..(e - 1) /\ k # i /\ k - 1 # i
          BY <1>1, <2>1, <3>3
        <4> QED
          BY <2>2, <4>1
      <3> QED
        BY <3>1, <3>2, <3>3
    <2>7. esc \in SUBSET (i..(e - 2))
      <3>1. i \in i..(e - 2) /\ \A k \in (i + 2)..(e - 2) : k \in i..(e - 2)
        BY <1>1, <2>1
      <3> QED
        BY <3>1
    <2> HIDE DEF Marks, esc
    <2> QED
      BY <1>3, <2>1, <2>3, <2>6, <2>7
  <1> QED
    BY <1>4, <1>5

LEMMA ClosesLater ==
    ASSUME NEW s \in Seq(Chars), NEW i \in Nat \ {0}, NEW q,
           At(s, i) \notin {"\\", "end", "\n", q}, NEW e
    PROVE  Closes(s, i, e, q) <=> Closes(s, i + 1, e, q)
  <1> DEFINE Marks(esc, m) ==
                 \A k \in m..(e - 1) :
                     /\ k \in esc <=> s[k] = "\\" /\ k - 1 \notin esc
                     /\ IF k - 1 \in esc THEN s[k] \in Escapes ELSE s[k] \notin {q, "\n"}
  <1>1. Len(s) \in Nat
    BY LenProperties
  <1>2. i \in 1..Len(s) /\ s[i] \notin {"\\", "\n", q}
    BY <1>1 DEF At
  <1>3. \A m : Closes(s, m, e, q) <=> /\ e \in m..Len(s) /\ s[e] = q
                                      /\ \E esc \in SUBSET (m..(e - 2)) : Marks(esc, m)
    BY DEF Closes
  <1>4. ASSUME Closes(s, i, e, q) PROVE Closes(s, i + 1, e, q)
    <2>1. e \in i..Len(s) /\ s[e] = q /\ e # i
      BY <1>2, <1>3, <1>4
    <2>2. PICK esc \in SUBSET (i..(e - 2)) : Marks(esc, i)
      BY <1>3, <1>4
    <2>3. i \notin esc
      <3>1. i \in i..(e - 1)
        BY <1>1, <2>1
      <3> QED
        BY <1>2, <2>2, <3>1
    <2>4. esc \in SUBSET ((i + 1)..(e - 2))
      <3>1. \A k \in i..(e - 2) : k = i \/ k \in (i + 1)..(e - 2)
        BY <1>1, <2>1
      <3> QED
        BY <2>3, <3>1
    <2>5. Marks(esc, i + 1)
      <3> TAKE k \in (i + 1)..(e - 1)
      <3>1. k \in i..(e - 1)
        BY <1>1, <2>1
      <3> QED
        BY <2>2, <3>1
    <2>6. e \in (i + 1)..Len(s)
      BY <1>1, <2>1
    <2> HIDE DEF Marks
    <2> QED
      BY <1>3, <2>1, <2>4, <2>5, <2>6
  <1>5. ASSUME Closes(s, i + 1, e, q) PROVE Closes(s, i, e, q)
    <2>1. e \in (i + 1)..Len(s) /\ s[e] = q
      BY <1>3, <1>5
    <2>2. PICK esc \in SUBSET ((i + 1)..(e - 2)) : Marks(esc, i + 1)
      BY <1>3, <1>5
    <2>3. i \notin esc /\ i - 1 \notin esc
      <3>1. i \notin (i + 1)..(e - 2) /\ i - 1 \notin (i + 1)..(e - 2)
        BY <1>1, <2>1
      <3> QED
        BY <3>1
    <2>4. Marks(esc, i)
      <3> SUFFICES ASSUME NEW k \in i..(e - 1)
                   PROVE  /\ k \in esc <=> s[k] = "\\" /\ k - 1 \notin esc
                          /\ IF k - 1 \in esc THEN s[k] \in Escapes ELSE s[k] \notin {q, "\n"}
        OBVIOUS
      <3>1. CASE k = i
        BY <1>2, <2>3, <3>1
      <3>2. CASE k # i
        <4>1. k \in (i + 1)..(e - 1)
          BY <1>1, <2>1, <3>2
        <4> QED
          BY <2>2, <4>1
      <3> QED
        BY <3>1, <3>2
    <2>5. esc \in SUBSET (i..(e - 2)) /\ e \in i..Len(s)
      <3>1. \A k \in (i + 1)..(e - 2) : k \in i..(e - 2)
        BY <1>1, <2>1
      <3> QED
        BY <1>1, <2>1, <3>1
    <2> HIDE DEF Marks
    <2> QED
      BY <1>3, <2>1, <2>4, <2>5
  <1> QED
    BY <1>4, <1>5

\* What StringEnd computes from each place on, as a function of the place.
Ends(s, i) == {e \in 1..Len(s) : Closes(s, i, e, "\"")}
IsEnd(s, f) ==
    f = [i \in 1..(Len(s) + 2) |->
            CASE At(s, i) \in {"end", "\n"} -> 0
              [] At(s, i) = "\"" -> i
              [] At(s, i) = "\\" -> IF At(s, i + 1) \in Escapes THEN f[i + 2] ELSE 0
              [] OTHER -> f[i + 1]]

\* The recursive definition of StringEnd defines a function.
LEMMA EndExists ==
    ASSUME NEW s \in Seq(Chars)
    PROVE  \E f : IsEnd(s, f)
  <1> DEFINE first(T) == IF T = {} THEN 0 ELSE CHOOSE e \in T : TRUE
             g == [i \in 1..(Len(s) + 2) |-> first(Ends(s, i))]
             step(i) == CASE At(s, i) \in {"end", "\n"} -> 0
                          [] At(s, i) = "\"" -> i
                          [] At(s, i) = "\\" -> IF At(s, i + 1) \in Escapes THEN g[i + 2] ELSE 0
                          [] OTHER -> g[i + 1]
  <1>1. Len(s) \in Nat
    BY LenProperties
  <1>2. ASSUME NEW i \in 1..(Len(s) + 2) PROVE g[i] = step(i)
    <2>1. i \in Nat \ {0} /\ g[i] = first(Ends(s, i))
      BY <1>1
    <2>2. CASE At(s, i) \in {"end", "\n"}
      <3>1. Ends(s, i) = {}
        BY <2>1, <2>2, ClosesAtOnce DEF Ends
      <3>2. g[i] = 0
        BY <2>1, <3>1
      <3>3. step(i) = 0
        BY <2>2
      <3> QED
        BY <3>2, <3>3
    <2>3. CASE At(s, i) = "\""
      <3>1. i \in 1..Len(s)
        BY <2>1, <2>3, BeforeTheEnd
      <3>2. \A e : Closes(s, i, e, "\"") <=> e = i
        BY <2>1, <2>3, ClosesAtOnce
      <3>3. Ends(s, i) = {i}
        BY ONLY <3>1, <3>2 DEF Ends
      <3>4. g[i] = i
        BY <2>1, <3>3
      <3>5. step(i) = i
        BY <2>3
      <3> QED
        BY <3>4, <3>5
    <2>4. CASE At(s, i) = "\\"
      <3>1. CASE At(s, i + 1) \in Escapes
        <4>1. i + 1 <= Len(s) /\ i + 2 \in 1..(Len(s) + 2)
          <5>0. "end" \notin Escapes
            BY DEF Escapes
          <5>1. i + 1 \in Nat \ {0} /\ At(s, i + 1) # "end"
            BY <2>1, <3>1, <5>0
          <5>2. i + 1 \in 1..Len(s)
            BY <5>1, BeforeTheEnd
          <5> QED
            BY <1>1, <2>1, <5>2
        <4>2. Ends(s, i) = Ends(s, i + 2)
          BY <2>1, <2>4, <3>1, ClosesAfterEscape DEF Ends
        <4>3. g[i] = g[i + 2]
          BY <2>1, <4>1, <4>2
        <4> HIDE DEF g
        <4>4. step(i) = g[i + 2]
          BY <2>4, <3>1
        <4> QED
          BY <4>3, <4>4
      <3>2. CASE At(s, i + 1) \notin Escapes
        <4>1. Ends(s, i) = {}
          BY <2>1, <2>4, <3>2, ClosesAfterEscape DEF Ends
        <4>2. g[i] = 0
          BY <2>1, <4>1
        <4> HIDE DEF g
        <4>3. step(i) = 0
          BY <2>4, <3>2
        <4> QED
          BY <4>2, <4>3
      <3> QED
        BY <3>1, <3>2
    <2>5. CASE At(s, i) \notin {"end", "\n", "\"", "\\"}
      <3>1. i <= Len(s) /\ i + 1 \in 1..(Len(s) + 2)
        <4>1. i \in 1..Len(s)
          BY <2>1, <2>5, BeforeTheEnd
        <4> QED
          BY <1>1, <4>1
      <3>2. Ends(s, i) = Ends(s, i + 1)
        BY <2>1, <2>5, ClosesLater DEF Ends
      <3>3. g[i] = g[i + 1]
        BY <2>1, <3>1, <3>2
      <3> HIDE DEF g
      <3>4. step(i) = g[i + 1]
        BY <2>5
      <3> QED
        BY <3>3, <3>4
    <2> QED
      BY <2>2, <2>3, <2>4, <2>5
  <1>3. g = [i \in 1..(Len(s) + 2) |-> g[i]]
    OBVIOUS
  <1>4. g = [i \in 1..(Len(s) + 2) |-> step(i)]
    <2> HIDE DEF g, step
    <2> QED
      BY <1>2, <1>3
  <1>5. IsEnd(s, g)
    <2> HIDE DEF g
    <2> QED
      BY <1>4 DEF IsEnd
  <1> QED
    BY <1>5

\* From each place on there is one closing quote, or none where it is 0.
LEMMA EndsWhereItCloses ==
    ASSUME NEW s \in Seq(Chars), NEW f, IsEnd(s, f), NEW i \in 1..(Len(s) + 2)
    PROVE  f[i] \in Nat /\ \A e : Closes(s, i, e, "\"") <=> f[i] > 0 /\ e = f[i]
  <1> DEFINE Shut(j, e) == Closes(s, j, e, "\"")
             Right(j) == f[j] \in Nat /\ \A e : Shut(j, e) <=> f[j] > 0 /\ e = f[j]
             S == {n \in Nat : \A j \in 1..(Len(s) + 2) : Len(s) + 2 - j <= n => Right(j)}
  <1>1. Len(s) \in Nat
    BY LenProperties
  <1>2. ASSUME NEW j \in 1..(Len(s) + 2)
        PROVE  /\ At(s, j) \in {"end", "\n"} => f[j] = 0
               /\ At(s, j) = "\"" => f[j] = j
               /\ At(s, j) = "\\" => f[j] = IF At(s, j + 1) \in Escapes THEN f[j + 2] ELSE 0
               /\ At(s, j) \notin {"end", "\n", "\"", "\\"} => f[j] = f[j + 1]
    <2>1. f[j] = CASE At(s, j) \in {"end", "\n"} -> 0
                   [] At(s, j) = "\"" -> j
                   [] At(s, j) = "\\" -> IF At(s, j + 1) \in Escapes THEN f[j + 2] ELSE 0
                   [] OTHER -> f[j + 1]
      BY DEF IsEnd
    <2>2. ASSUME NEW x, NEW a, NEW b,
                 NEW y, y = CASE x \in {"end", "\n"} -> 0
                               [] x = "\"" -> j
                               [] x = "\\" -> a
                               [] OTHER -> b
          PROVE  /\ x \in {"end", "\n"} => y = 0
                 /\ x = "\"" => y = j
                 /\ x = "\\" => y = a
                 /\ x \notin {"end", "\n", "\"", "\\"} => y = b
      BY <2>2
    <2> QED
      BY <2>1, <2>2
  <1>3. ASSUME NEW j \in 1..(Len(s) + 2),
               \A k \in 1..(Len(s) + 2) : k > j => Right(k)
        PROVE  Right(j)
    <2>1. j \in Nat \ {0}
      BY <1>1
    <2>2. CASE At(s, j) \in {"end", "\n"}
      <3>1. f[j] = 0
        BY <1>2, <2>2
      <3>2. \A e : ~Shut(j, e)
        BY <2>1, <2>2, ClosesAtOnce
      <3> HIDE DEF Shut
      <3> QED
        BY ONLY <3>1, <3>2
    <2>3. CASE At(s, j) = "\""
      <3>1. f[j] = j
        BY <1>2, <2>3
      <3>2. \A e : Shut(j, e) <=> e = j
        BY <2>1, <2>3, ClosesAtOnce
      <3> HIDE DEF Shut
      <3> QED
        BY ONLY <2>1, <3>1, <3>2
    <2>4. CASE At(s, j) = "\\" /\ At(s, j + 1) \in Escapes
      <3>1. j + 2 \in 1..(Len(s) + 2) /\ j + 2 > j
        <4>0. "end" \notin Escapes /\ At(s, j + 1) \in Escapes
          BY <2>4 DEF Escapes
        <4>1. j + 1 \in Nat \ {0} /\ At(s, j + 1) # "end"
          BY <2>1, <4>0
        <4>2. j + 1 \in 1..Len(s)
          BY <4>1, BeforeTheEnd
        <4> QED
          BY <1>1, <2>1, <4>2
      <3>2. f[j] = f[j + 2] /\ Right(j + 2)
        BY <1>2, <1>3, <2>4, <3>1
      <3>3. \A e : Shut(j, e) <=> Shut(j + 2, e)
        BY <2>1, <2>4, ClosesAfterEscape
      <3> HIDE DEF Shut
      <3> QED
        BY <3>2, <3>3
    <2>5. CASE At(s, j) = "\\" /\ At(s, j + 1) \notin Escapes
      <3>1. f[j] = 0
        BY <1>2, <2>5
      <3>2. \A e : ~Shut(j, e)
        BY <2>1, <2>5, ClosesAfterEscape
      <3> HIDE DEF Shut
      <3> QED
        BY ONLY <3>1, <3>2
    <2>6. CASE At(s, j) \notin {"end", "\n", "\"", "\\"}
      <3>1. j + 1 \in 1..(Len(s) + 2) /\ j + 1 > j
        <4>1. j \in 1..Len(s)
          BY <2>1, <2>6, BeforeTheEnd
        <4> QED
          BY <1>1, <4>1
      <3>2. f[j] = f[j + 1] /\ Right(j + 1)
        BY <1>2, <1>3, <2>6, <3>1
      <3>3. \A e : Shut(j, e) <=> Shut(j + 1, e)
        BY <2>1, <2>6, ClosesLater
      <3> HIDE DEF Shut
      <3> QED
        BY <3>2, <3>3
    <2> QED
      BY <2>2, <2>3, <2>4, <2>5, <2>6
  <1> HIDE DEF Right
  <1>4. 0 \in S
    <2>1. \A j \in 1..(Len(s) + 2) : Len(s) + 2 - j <= 0 =>
              \A k \in 1..(Len(s) + 2) : ~(k > j)
      BY <1>1
    <2> QED
      BY <1>3, <2>1
  <1>5. ASSUME NEW n \in Nat, n \in S PROVE n + 1 \in S
    <2>1. ASSUME NEW j \in 1..(Len(s) + 2), Len(s) + 2 - j <= n + 1 PROVE Right(j)
      <3>1. \A k \in 1..(Len(s) + 2) : k > j => Len(s) + 2 - k <= n
        BY <1>1, <2>1
      <3>2. \A k \in 1..(Len(s) + 2) : k > j => Right(k)
        BY <1>5, <3>1
      <3> QED
        BY <1>3, <3>2
    <2> QED
      BY <2>1
  <1>6. Nat \subseteq S
    <2> HIDE DEF S
    <2> QED
      BY <1>4, <1>5, Induction
  <1>7. Len(s) + 2 - i \in Nat /\ Len(s) + 2 - i <= Len(s) + 2 - i
    BY <1>1
  <1>8. Right(i)
    <2>1. Len(s) + 2 - i \in S
      BY <1>6, <1>7
    <2>2. \A j \in 1..(Len(s) + 2) : Len(s) + 2 - j <= Len(s) + 2 - i => Right(j)
      BY <2>1
    <2> QED
      BY <1>7, <2>2
  <1> QED
    BY <1>8 DEF Right

\* What StringEnd is.
LEMMA StringEnds ==
    ASSUME src \in Seq(Chars), off \in 1..Len(src)
    PROVE  /\ StringEnd \in Nat
           /\ \A e : Closes(src, off + 1, e, "\"") <=> StringEnd > 0 /\ e = StringEnd
  <1> DEFINE f == CHOOSE end : end = [i \in 1..(Len(src) + 2) |->
                     CASE CharAt(i) \in {"end", "\n"} -> 0
                       [] CharAt(i) = "\"" -> i
                       [] CharAt(i) = "\\" -> IF CharAt(i + 1) \in Escapes THEN end[i + 2] ELSE 0
                       [] OTHER -> end[i + 1]]
  <1>1. StringEnd = f[off + 1]
    BY DEF StringEnd
  <1>2. IsEnd(src, f)
    <2>1. \E h : IsEnd(src, h)
      BY EndExists
    <2>2. \A i : CharAt(i) = At(src, i)
      BY DEF CharAt, At
    <2>3. \A h : IsEnd(src, h) <=>
              h = [i \in 1..(Len(src) + 2) |->
                     CASE CharAt(i) \in {"end", "\n"} -> 0
                       [] CharAt(i) = "\"" -> i
                       [] CharAt(i) = "\\" -> IF CharAt(i + 1) \in Escapes THEN h[i + 2] ELSE 0
                       [] OTHER -> h[i + 1]]
      BY DEF IsEnd, CharAt, At
    <2> QED
      BY <2>1, <2>3
  <1>3. off + 1 \in 1..(Len(src) + 2)
    <2>1. Len(src) \in Nat
      BY LenProperties
    <2> QED
      BY <2>1
  <1> HIDE DEF f
  <1> QED
    BY <1>1, <1>2, <1>3, EndsWhereItCloses

\* Which characters belong to a number, if they come next.
LEMMA NumberGoesOn ==
    ASSUME NEW s \in Seq(Chars), NEW a \in 1..Len(s), NEW b \in a..Len(s), NEW x
    PROVE  /\ HexFrom(s, a, b) => (GoesOn(SubSeq(s, a, b), x) <=> x \in DOMAIN Digit)
           /\ DecimalFrom(s, a, b) =>
                  (GoesOn(SubSeq(s, a, b), x)
                       <=> x \in Decimals \/ (b = a /\ s[a] = "0" /\ x \in {"x", "X"}))
  <1> DEFINE t == SubSeq(s, a, b)
  <1>1. /\ Len(s) \in Nat /\ a \in 1..(Len(s) + 1) /\ b \in (a - 1)..Len(s)
    BY LenProperties
  <1>2. IsHex(t) <=> HexFrom(s, a, b)
    BY <1>1, HexText
  <1>3. Len(t) = b - a + 1 /\ t[1] = s[a] /\ t \in Seq(Chars)
    <2>1. 1 \in 1..(b - a + 1) /\ a + 1 - 1 = a
      BY <1>1
    <2> QED
      BY <1>1, <2>1, Piece
  <1>4. DecimalFrom(s, a, b) => ~HexFrom(s, a, b)
    <2>1. {"x", "X"} \cap Decimals = {}
      BY CharKinds
    <2>2. HexFrom(s, a, b) => a + 1 \in a..b /\ s[a + 1] \in {"x", "X"}
      BY <1>1 DEF HexFrom
    <2> QED
      BY <2>1, <2>2 DEF DecimalFrom
  <1>5. DecimalFrom(s, a, b) => (t = <<"0">> <=> b = a /\ s[a] = "0")
    <2>1. t = <<"0">> => Len(t) = 1 /\ t[1] = "0"
      OBVIOUS
    <2>2. Len(t) = 1 /\ t[1] = "0" => t = <<"0">>
      <3> HIDE DEF t
      <3> SUFFICES ASSUME Len(t) = 1, t[1] = "0" PROVE t = <<"0">>
        OBVIOUS
      <3>1. <<"0">> \in Seq({"0"}) /\ Len(<<"0">>) = 1 /\ <<"0">>[1] = "0"
        OBVIOUS
      <3> QED
        BY <1>3, <3>1, SeqEqual
    <2> HIDE DEF t
    <2> QED
      BY <1>1, <1>3, <2>1, <2>2
  <1> HIDE DEF t
  <1>6. HexFrom(s, a, b) => (GoesOn(t, x) <=> x \in DOMAIN Digit)
    BY <1>2 DEF GoesOn
  <1>7. DecimalFrom(s, a, b) =>
            (GoesOn(t, x) <=> x \in Decimals \/ (b = a /\ s[a] = "0" /\ x \in {"x", "X"}))
    BY <1>2, <1>4, <1>5 DEF GoesOn
  <1> QED
    BY <1>6, <1>7 DEF t

\* The value of a number's text.
LEMMA NumberText ==
    ASSUME NEW s \in Seq(Chars), NEW a \in 1..Len(s), NEW b \in a..Len(s)
    PROVE  /\ HexFrom(s, a, b) =>
                  NumberOf("INT", SubSeq(s, a, b)) = Value(16, SubSeq(s, a + 2, b))
           /\ DecimalFrom(s, a, b) =>
                  NumberOf("INT", SubSeq(s, a, b)) = Value(10, SubSeq(s, a, b))
  <1> DEFINE t == SubSeq(s, a, b)
  <1>1. /\ Len(s) \in Nat /\ a \in 1..(Len(s) + 1) /\ b \in (a - 1)..Len(s)
    BY LenProperties
  <1>2. IsHex(t) <=> HexFrom(s, a, b)
    BY <1>1, HexText
  <1>3. DecimalFrom(s, a, b) => ~HexFrom(s, a, b)
    <2>1. {"x", "X"} \cap Decimals = {}
      BY CharKinds
    <2>2. HexFrom(s, a, b) => a + 1 \in a..b /\ s[a + 1] \in {"x", "X"}
      BY <1>1 DEF HexFrom
    <2> QED
      BY <2>1, <2>2 DEF DecimalFrom
  <1>4. HexFrom(s, a, b) => SubSeq(t, 3, Len(t)) = SubSeq(s, a + 2, b)
    <2>1. HexFrom(s, a, b) => b >= a + 2
      BY DEF HexFrom
    <2> QED
      BY <1>1, <2>1, PieceOfPiece
  <1> HIDE DEF t
  <1>5. HexFrom(s, a, b) => NumberOf("INT", t) = Value(16, SubSeq(s, a + 2, b))
    BY <1>2, <1>4 DEF NumberOf
  <1>6. DecimalFrom(s, a, b) => NumberOf("INT", t) = Value(10, t)
    BY <1>2, <1>3 DEF NumberOf
  <1> QED
    BY <1>5, <1>6 DEF t

-----------------------------------------------------------------------------
(* The invariant of the lexer. *)

\* InComment and Gap, of any source.
Slashes(s, c) == At(s, c) = "/" /\ At(s, c + 1) = "/"
Commented(s, a, i) ==
    \E c \in a..i : Slashes(s, c) /\ \A k \in c..i : At(s, k) \notin {"\n", "end"}
Starts(s, o) == At(s, o) \notin Blanks /\ ~Slashes(s, o)
Apart(s, a, b) ==
    /\ a <= b
    /\ \A k \in a..(b - 1) : At(s, k) \in Blanks \/ Commented(s, a, k)
    /\ At(s, b) \notin Blanks /\ ~Commented(s, a, b)

\* Nothing but blanks and comments from a up to b, and every comment is over.
Skipped(s, a, b) ==
    /\ a <= b
    /\ \A k \in a..(b - 1) : At(s, k) \in Blanks \/ Commented(s, a, k)
    /\ \A c \in a..(b - 1) : Slashes(s, c) => \E k \in c..b : At(s, k) \in {"\n", "end"}

\* TokenExact, of a token t that is the first after place a.
ExactAfter(s, a, t) ==
    /\ Apart(s, a, t.from) /\ t.to <= Len(s) + 1
    /\ HasKind(SubSeq(s, t.from, t.to - 1), t.kind)
    /\ t.kind = "EOF" => t.from > Len(s)
    /\ t.kind # "EOF" => \A e \in t.to..Len(s) : ~IsToken(SubSeq(s, t.from, e))
    /\ t.kind = "INT" => ~GoesOn(SubSeq(s, t.from, t.to - 1), At(s, t.to))
    /\ t.val = NumberOf(t.kind, SubSeq(s, t.from, t.to - 1))
    /\ Position(s, t.from, t.line, t.col)
TokenParts(t) ==
    /\ t \in [kind : TokenKinds, from : Nat, to : Nat, line : Nat, col : Int, val : {t.val}]
    /\ t.from \in 1..t.to

\* Where the i-th token ends.
EndAt(ts, i) == IF i = 0 THEN 1 ELSE ts[i].to
TokensOf(s, ts) ==
    /\ \E S : ts \in Seq(S)
    /\ \A i \in 1..Len(ts) : TokenParts(ts[i]) /\ ExactAfter(s, EndAt(ts, i - 1), ts[i])
    /\ \A i \in 1..Len(ts) : ts[i].kind = "EOF" => i = Len(ts)

\* No token begins at o, but for the front of a number that goes on.
GivesUp(s, o) ==
    \A e \in o..Len(s) :
        IsToken(SubSeq(s, o, e)) =>
            HasKind(SubSeq(s, o, e), "INT") /\ GoesOn(SubSeq(s, o, e), At(s, e + 1))

LexOK(s, o, l, c, ts, lx) ==
    /\ s \in Seq(Chars) /\ o \in 1..(Len(s) + 1) /\ c \in Int /\ Position(s, o, l, c)
    /\ TokensOf(s, ts)
    /\ EndAt(ts, Len(ts)) \in Nat /\ Skipped(s, EndAt(ts, Len(ts)), o)
    /\ lx \in {"no", "ok", "error"}
    /\ lx = "ok" => ts # <<>> /\ ts[Len(ts)].kind = "EOF"
    /\ lx # "ok" => \A i \in 1..Len(ts) : ts[i].kind # "EOF"
    /\ lx = "error" => o <= Len(s) /\ Starts(s, o) /\ GivesUp(s, o)

\* Where blanks and comments end.
LEMMA GapEnds ==
    ASSUME NEW s, NEW a \in Int, NEW b \in Int, Skipped(s, a, b), Starts(s, b)
    PROVE  Apart(s, a, b)
  <1>1. ASSUME Commented(s, a, b) PROVE FALSE
    <2>1. PICK c \in a..b : Slashes(s, c) /\ \A k \in c..b : At(s, k) \notin {"\n", "end"}
      BY <1>1 DEF Commented
    <2>2. c # b
      BY <2>1 DEF Starts
    <2>3. c \in a..(b - 1)
      BY <2>2
    <2> QED
      BY <2>1, <2>3 DEF Skipped
  <1> QED
    BY <1>1 DEF Skipped, Starts, Apart

\* Before anything is read.
LEMMA LexBegins ==
    ASSUME NEW s \in Seq(Chars)
    PROVE  LexOK(s, 1, 1, 1, <<>>, "no")
  <1>1. Len(s) \in Nat
    BY LenProperties
  <1>2. 1 \in 1..(Len(s) + 1) /\ 1 \in Int
    BY <1>1
  <1>3. Newlines(s, 1) = {}
    BY DEF Newlines
  <1>4. Position(s, 1, 1, 1)
    <2>1. Cardinality({}) = 0
      BY FS_EmptySet
    <2> QED
      BY <1>3, <2>1 DEF Position
  <1>5. <<>> \in Seq({}) /\ Len(<<>>) = 0 /\ ~\E i : i \in 1..0
    BY EmptySeq
  <1>6. TokensOf(s, <<>>)
    BY <1>5 DEF TokensOf
  <1>7. EndAt(<<>>, Len(<<>>)) = 1
    BY <1>5 DEF EndAt
  <1>8. Skipped(s, 1, 1)
    BY DEF Skipped
  <1> QED
    BY <1>2, <1>4, <1>5, <1>6, <1>7, <1>8 DEF LexOK

\* One more token.
LEMMA OneMoreToken ==
    ASSUME NEW s, NEW ts, TokensOf(s, ts), \A i \in 1..Len(ts) : ts[i].kind # "EOF",
           NEW t, TokenParts(t), ExactAfter(s, EndAt(ts, Len(ts)), t)
    PROVE  LET u == Append(ts, t)
           IN  /\ TokensOf(s, u) /\ EndAt(u, Len(u)) = t.to
               /\ u # <<>> /\ u[Len(u)] = t
               /\ t.kind # "EOF" => \A i \in 1..Len(u) : u[i].kind # "EOF"
  <1> DEFINE u == Append(ts, t)
  <1>1. PICK S : ts \in Seq(S)
    BY DEF TokensOf
  <1>2. ts \in Seq(S \cup {t})
    <2>1. S \subseteq S \cup {t}
      OBVIOUS
    <2> QED
      BY <1>1, <2>1, SeqMonotonic
  <1>3. /\ u \in Seq(S \cup {t}) /\ Len(u) = Len(ts) + 1 /\ Len(ts) \in Nat
        /\ \A i \in 1..Len(ts) : u[i] = ts[i]
        /\ u[Len(ts) + 1] = t
    <2>1. t \in S \cup {t}
      OBVIOUS
    <2> QED
      BY <1>2, <2>1, AppendProperties, LenProperties
  <1> HIDE DEF u
  <1>4. u # <<>> /\ Len(u) # 0 /\ u[Len(u)] = t
    <2>1. Len(u) # 0
      BY <1>3
    <2> QED
      BY <1>3, <2>1, EmptySeq
  <1>5. \A i \in 0..Len(ts) : EndAt(u, i) = EndAt(ts, i)
    BY <1>3 DEF EndAt
  <1>6. ASSUME NEW i \in 1..Len(u)
        PROVE  /\ TokenParts(u[i]) /\ ExactAfter(s, EndAt(u, i - 1), u[i])
               /\ u[i].kind = "EOF" => i = Len(u)
    <2>1. i - 1 \in 0..Len(ts) /\ (i \in 1..Len(ts) \/ i = Len(ts) + 1)
      BY <1>3
    <2>2. CASE i \in 1..Len(ts)
      <3>1. u[i] = ts[i] /\ EndAt(u, i - 1) = EndAt(ts, i - 1)
        BY <1>3, <1>5, <2>1, <2>2
      <3> QED
        BY <2>2, <3>1 DEF TokensOf
    <2>3. CASE i = Len(ts) + 1
      <3>1. u[i] = t /\ EndAt(u, i - 1) = EndAt(ts, Len(ts)) /\ i = Len(u)
        <4>1. i - 1 = Len(ts)
          BY <1>3, <2>3
        <4> QED
          BY <1>3, <1>5, <2>1, <2>3, <4>1
      <3> QED
        BY <3>1
    <2> QED
      BY <2>1, <2>2, <2>3
  <1>7. TokensOf(s, u)
    BY <1>3, <1>6 DEF TokensOf
  <1>8. EndAt(u, Len(u)) = t.to
    BY <1>4 DEF EndAt
  <1>9. t.kind # "EOF" => \A i \in 1..Len(u) : u[i].kind # "EOF"
    <2>1. \A i \in 1..Len(u) : i \in 1..Len(ts) \/ i = Len(ts) + 1
      BY <1>3
    <2> QED
      BY <1>3, <2>1
  <1> QED
    BY <1>4, <1>7, <1>8, <1>9 DEF u

\* A token is taken whose text is on one line and cannot be longer.
LEMMA TokenTaken ==
    ASSUME NEW s, NEW o, NEW l, NEW c, NEW ts, LexOK(s, o, l, c, ts, "no"), Starts(s, o),
           NEW kind \in TokenKinds \ {"EOF"}, NEW n \in Nat \ {0}, NEW v,
           v = NumberOf(kind, SubSeq(s, o, o + n - 1)),
           o + n <= Len(s) + 1, \A k \in o..(o + n - 1) : s[k] # "\n",
           HasKind(SubSeq(s, o, o + n - 1), kind),
           \A e \in (o + n)..Len(s) : ~IsToken(SubSeq(s, o, e)),
           kind = "INT" => ~GoesOn(SubSeq(s, o, o + n - 1), At(s, o + n))
    PROVE  LexOK(s, o + n, l, c + n,
                 Append(ts, [kind |-> kind, from |-> o, to |-> o + n,
                             line |-> l, col |-> c, val |-> v]), "no")
  <1> DEFINE t == [kind |-> kind, from |-> o, to |-> o + n, line |-> l, col |-> c, val |-> v]
             a == EndAt(ts, Len(ts))
             u == Append(ts, t)
  <1>1. /\ s \in Seq(Chars) /\ o \in 1..(Len(s) + 1) /\ c \in Int /\ Position(s, o, l, c)
        /\ TokensOf(s, ts) /\ a \in Nat /\ Skipped(s, a, o)
        /\ \A i \in 1..Len(ts) : ts[i].kind # "EOF"
    BY DEF LexOK
  <1>2. Len(s) \in Nat
    BY <1>1, LenProperties
  <1>3. o \in Nat \ {0} /\ o + n \in 1..(Len(s) + 1) /\ o + n \in Nat /\ o \in 1..(o + n)
        /\ c + n \in Int
    BY <1>1, <1>2
  <1>4. Position(s, o + n, l, c + n)
    BY <1>1, <1>3, MoveAlong
  <1>5. TokenParts(t)
    <2>1. l \in Nat
      BY <1>1, <1>3, PositionParts
    <2> QED
      BY <1>1, <1>3, <2>1 DEF TokenParts
  <1>6. ExactAfter(s, a, t)
    <2>1. Apart(s, a, o)
      <3> HIDE DEF a
      <3> QED
        BY <1>1, <1>3, GapEnds
    <2> QED
      BY <1>1, <2>1 DEF ExactAfter
  <1>7. t.to = o + n /\ t.kind # "EOF"
    OBVIOUS
  <1> HIDE DEF t, a
  <1>8. /\ TokensOf(s, u) /\ EndAt(u, Len(u)) = o + n
        /\ \A i \in 1..Len(u) : u[i].kind # "EOF"
    <2>1. /\ TokensOf(s, ts) /\ \A i \in 1..Len(ts) : ts[i].kind # "EOF"
          /\ TokenParts(t) /\ ExactAfter(s, EndAt(ts, Len(ts)), t)
      BY <1>1, <1>5, <1>6 DEF a
    <2>2. /\ TokensOf(s, u) /\ EndAt(u, Len(u)) = t.to
          /\ t.kind # "EOF" => \A i \in 1..Len(u) : u[i].kind # "EOF"
      BY ONLY <2>1, OneMoreToken
    <2> QED
      BY ONLY <1>7, <2>2
  <1>9. Skipped(s, o + n, o + n)
    BY <1>3 DEF Skipped
  <1> HIDE DEF u
  <1>10. LexOK(s, o + n, l, c + n, u, "no")
    BY <1>1, <1>3, <1>4, <1>8, <1>9 DEF LexOK
  <1> QED
    BY <1>10 DEF u, t

\* A blank or a comment is passed over.
LEMMA PassedOver ==
    ASSUME NEW s, NEW o, NEW l, NEW c, NEW ts, LexOK(s, o, l, c, ts, "no"),
           NEW p, NEW m, NEW d \in Int, p \in (o + 1)..(Len(s) + 1),
           Position(s, p, m, d),
           \A k \in o..(p - 1) : At(s, k) \in Blanks \/ Commented(s, o, k),
           \A k \in o..(p - 1) : Slashes(s, k) => At(s, p) \in {"\n", "end"}
    PROVE  LexOK(s, p, m, d, ts, "no")
  <1> DEFINE a == EndAt(ts, Len(ts))
  <1>1. /\ s \in Seq(Chars) /\ o \in 1..(Len(s) + 1)
        /\ TokensOf(s, ts) /\ a \in Nat /\ Skipped(s, a, o)
        /\ \A i \in 1..Len(ts) : ts[i].kind # "EOF"
    BY DEF LexOK
  <1> HIDE DEF a
  <1>2. Len(s) \in Nat
    BY <1>1, LenProperties
  <1>3. p \in 1..(Len(s) + 1)
    BY <1>1, <1>2
  <1>4. Skipped(s, a, p)
    <2>1. a <= o /\ a <= p /\ \A k \in a..(p - 1) : k \in a..(o - 1) \/ k \in o..(p - 1)
      BY <1>1, <1>2 DEF Skipped
    <2>2. ASSUME NEW k \in a..(p - 1) PROVE At(s, k) \in Blanks \/ Commented(s, a, k)
      <3>1. k \in o..(p - 1) => At(s, k) \in Blanks \/ Commented(s, a, k)
        <4>1. \A j \in o..k : j \in a..k
          BY <1>1, <1>2, <2>1
        <4> QED
          BY <4>1 DEF Commented
      <3> QED
        BY <1>1, <2>1, <3>1 DEF Skipped
    <2>3. ASSUME NEW k \in a..(p - 1), Slashes(s, k)
          PROVE  \E j \in k..p : At(s, j) \in {"\n", "end"}
      <3>1. CASE k \in o..(p - 1)
        <4>1. p \in k..p
          BY <1>1, <1>2
        <4> QED
          BY <2>3, <3>1, <4>1
      <3>2. CASE k \in a..(o - 1)
        <4>1. PICK j \in k..o : At(s, j) \in {"\n", "end"}
          BY <1>1, <2>3, <3>2 DEF Skipped
        <4>2. j \in k..p
          BY <1>1, <1>2
        <4> QED
          BY <4>1, <4>2
      <3> QED
        BY <2>1, <3>1, <3>2
    <2> QED
      BY <2>1, <2>2, <2>3 DEF Skipped
  <1> QED
    BY <1>1, <1>3, <1>4 DEF LexOK, a

-----------------------------------------------------------------------------
(* The actions of the lexer. *)

LexState == LexOK(src, off, line, col, toks, lexed)
LexStateNext == LexOK(src', off', line', col', toks', lexed')

\* What is known of the source wherever the lexer stands.
LEMMA LexParts ==
    ASSUME LexState
    PROVE  /\ src \in Seq(Chars) /\ off \in 1..(Len(src) + 1) /\ Len(src) \in Nat
           /\ off \in Nat \ {0} /\ col \in Int /\ Position(src, off, line, col)
           /\ \A i : CharAt(i) = At(src, i)
           /\ \A i \in 1..Len(src) : CharAt(i) = src[i] /\ src[i] \in Chars
           /\ \A i \in Nat \ {0} : CharAt(i) # "end" => i \in 1..Len(src)
  <1>1. /\ src \in Seq(Chars) /\ off \in 1..(Len(src) + 1)
        /\ col \in Int /\ Position(src, off, line, col)
    BY DEF LexState, LexOK
  <1>2. Len(src) \in Nat
    BY <1>1, LenProperties
  <1>3. \A i : CharAt(i) = At(src, i)
    BY DEF CharAt, At
  <1>4. \A i \in 1..Len(src) : CharAt(i) = src[i] /\ src[i] \in Chars
    BY <1>1, <1>2, ElementOfSeq DEF CharAt
  <1>5. \A i \in Nat \ {0} : CharAt(i) # "end" => i \in 1..Len(src)
    BY <1>2 DEF CharAt
  <1> QED
    BY <1>1, <1>2, <1>3, <1>4, <1>5

LEMMA EmitOK ==
    ASSUME LexState, lexed = "no", NEW kind \in TokenKinds \ {"EOF"}, NEW n \in Nat \ {0}, NEW v,
           src' = src, lexed' = lexed, off' = off + n,
           IF CharAt(off) = "\n" THEN line' = line + 1 /\ col' = 1
                                 ELSE line' = line /\ col' = col + n,
           toks' = Append(toks, [kind |-> kind, from |-> off, to |-> off + n,
                                 line |-> line, col |-> col, val |-> v]),
           off + n <= Len(src) + 1, \A k \in off..(off + n - 1) : src[k] # "\n",
           HasKind(SubSeq(src, off, off + n - 1), kind),
           \A e \in (off + n)..Len(src) : ~IsToken(SubSeq(src, off, e)),
           Starts(src, off),
           kind = "INT" => ~GoesOn(SubSeq(src, off, off + n - 1), At(src, off + n)),
           v = NumberOf(kind, SubSeq(src, off, off + n - 1))
    PROVE  LexStateNext
  <1>1. CharAt(off) # "\n"
    <2>1. off \in 1..Len(src) /\ off \in off..(off + n - 1)
      BY LexParts
    <2> QED
      BY <2>1, LexParts
  <1>2. line' = line /\ col' = col + n
    BY <1>1
  <1>3. LexOK(src, off + n, line, col + n,
              Append(toks, [kind |-> kind, from |-> off, to |-> off + n,
                            line |-> line, col |-> col, val |-> v]), "no")
    <2>1. LexOK(src, off, line, col, toks, "no")
      BY DEF LexState
    <2> QED
      BY <2>1, TokenTaken
  <1> QED
    BY <1>2, <1>3 DEF LexStateNext

LEMMA LexErrorOK ==
    ASSUME LexState, lexed = "no", LexError, off <= Len(src), Starts(src, off), GivesUp(src, off)
    PROVE  LexStateNext
  BY DEF LexState, LexStateNext, LexError, LexOK

LEMMA SkipBlankOK ==
    ASSUME LexState, lexed = "no", SkipBlank
    PROVE  LexStateNext
  <1>1. /\ CharAt(off) \in Blanks /\ off' = off + 1 /\ UNCHANGED <<src, toks, lexed>>
        /\ IF CharAt(off) = "\n" THEN line' = line + 1 /\ col' = 1
                                 ELSE line' = line /\ col' = col + 1
    BY DEF SkipBlank, Skip
  <1>2. off \in 1..Len(src) /\ src[off] = CharAt(off)
    <2>1. CharAt(off) # "end"
      BY <1>1 DEF Blanks
    <2> QED
      BY <2>1, LexParts
  <1>3. off + 1 \in (off + 1)..(Len(src) + 1) /\ \A k \in off..(off + 1 - 1) : k = off
    BY <1>2, LexParts
  <1>4. LexOK(src, off, line, col, toks, "no")
    BY DEF LexState
  <1>5. Position(src, off + 1, line', col') /\ col' \in Int
    <2>1. CASE CharAt(off) = "\n"
      BY <1>1, <1>2, <2>1, LexParts, MoveDown
    <2>2. CASE CharAt(off) # "\n"
      <3>1. \A k \in off..(off + 1 - 1) : src[k] # "\n"
        BY <1>2, <1>3, <2>2
      <3> QED
        BY <1>1, <2>2, <3>1, LexParts, MoveAlong
    <2> QED
      BY <2>1, <2>2
  <1>6. LexOK(src, off + 1, line', col', toks, "no")
    <2> SUFFICES ASSUME NEW p, p = off + 1 PROVE LexOK(src, p, line', col', toks, "no")
      OBVIOUS
    <2>2. p \in (off + 1)..(Len(src) + 1)
      BY <1>3
    <2>3. Position(src, p, line', col')
      BY <1>5
    <2>4. \A k \in off..(p - 1) : At(src, k) \in Blanks /\ ~Slashes(src, k)
      <3>1. \A k \in off..(p - 1) : k = off
        BY LexParts
      <3>2. At(src, off) \in Blanks /\ ~Slashes(src, off)
        BY <1>1, LexParts DEF Slashes, Blanks
      <3> QED
        BY <3>1, <3>2
    <2>5. \A m, d : d \in Int /\ Position(src, p, m, d) => LexOK(src, p, m, d, toks, "no")
      BY <1>4, <2>2, <2>4, PassedOver
    <2> QED
      BY <1>5, <2>3, <2>5
  <1> QED
    BY <1>1, <1>6 DEF LexStateNext

LEMMA SkipCommentOK ==
    ASSUME LexState, lexed = "no", SkipComment
    PROVE  LexStateNext
  <1> DEFINE S == {CharAt(k) : k \in 1..Len(src)} \ {"\n"}
             e == Run(src, off, S)
             n == e - off
  <1>1. CharAt(off) = "/" /\ CharAt(off + 1) = "/"
    BY DEF SkipComment, AtComment
  <1>2. off \in 1..Len(src) /\ src[off] = "/"
    BY <1>1, LexParts
  <1>3. CommentEnd = e
    BY LexParts DEF CommentEnd, RunEnd, Run
  <1>4. "end" \notin S
    <2>1. \A k \in 1..Len(src) : CharAt(k) # "end"
      BY LexParts DEF Chars
    <2> QED
      BY <2>1
  <1>5. "/" \in S
    BY <1>1, <1>2
  <1>6. /\ e \in off..(Len(src) + 1)
        /\ e <= Len(src) => src[e] \notin S
        /\ \A k \in off..(e - 1) : src[k] \in S
    <2> HIDE DEF S
    <2> QED
      BY <1>4, LexParts, RunEnds
  <1>7. \A k \in off..(e - 1) : src[k] # "\n"
    BY <1>6
  <1>14. At(src, e) \in {"\n", "end"}
    <2>1. CASE e <= Len(src)
      <3>1. e \in 1..Len(src)
        BY <1>6, <2>1, LexParts
      <3>2. CharAt(e) \notin S
        BY <1>6, <2>1, <3>1, LexParts
      <3> QED
        BY <3>1, <3>2, LexParts
    <2>2. CASE ~(e <= Len(src))
      BY <2>2 DEF At
    <2> QED
      BY <2>1, <2>2
  <1> HIDE DEF S, e
  <1>8. /\ off' = off + n /\ UNCHANGED <<src, toks, lexed>>
        /\ line' = line /\ col' = col + n
    <2>1. "/" # "\n"
      OBVIOUS
    <2> QED
      BY <1>1, <1>3, <2>1 DEF SkipComment, Skip
  <1>9. e \in (off + 1)..(Len(src) + 1) /\ n \in Nat /\ off + n = e
    <2>1. e # off
      BY <1>2, <1>5, <1>6
    <2> QED
      BY <1>2, <1>6, <2>1, LexParts
  <1> HIDE DEF n
  <1>10. \A k \in off..(e - 1) : Commented(src, off, k)
    <2> TAKE k \in off..(e - 1)
    <2>1. off \in off..k /\ \A j \in off..k : j \in off..(e - 1) /\ j \in 1..Len(src)
      BY <1>2, <1>9
    <2>2. Slashes(src, off)
      BY <1>1, LexParts DEF Slashes
    <2>3. \A j \in off..k : At(src, j) = src[j] /\ src[j] \in Chars
      BY <2>1, LexParts
    <2> QED
      BY <1>7, <2>1, <2>2, <2>3 DEF Commented, Chars
  <1>11. Position(src, e, line, col + n) /\ col + n \in Int
    <2>1. \A k \in off..(off + n - 1) : src[k] # "\n"
      <3>1. off + n - 1 = e - 1
        BY <1>9, LexParts
      <3> QED
        BY <1>7, <3>1
    <2>2. Position(src, off + n, line, col + n)
      BY <1>9, <2>1, LexParts, MoveAlong
    <2> QED
      BY <1>9, <2>2, LexParts
  <1>12. LexOK(src, off, line, col, toks, "no")
    BY DEF LexState
  <1>13. LexOK(src, e, line, col + n, toks, "no")
    BY <1>9, <1>10, <1>11, <1>12, <1>14, PassedOver
  <1> QED
    BY <1>8, <1>9, <1>13 DEF LexStateNext

LEMMA EndOfFileOK ==
    ASSUME LexState, lexed = "no", EndOfFile
    PROVE  LexStateNext
  <1> DEFINE t == [kind |-> "EOF", from |-> off, to |-> off, line |-> line, col |-> col, val |-> 0]
             a == EndAt(toks, Len(toks))
             u == Append(toks, t)
  <1>1. /\ off > Len(src) /\ toks' = u /\ lexed' = "ok" /\ UNCHANGED <<src, off, line, col>>
    BY DEF EndOfFile
  <1>2. /\ TokensOf(src, toks) /\ a \in Nat /\ Skipped(src, a, off)
        /\ \A i \in 1..Len(toks) : toks[i].kind # "EOF"
    BY DEF LexState, LexOK
  <1>3. TokenParts(t)
    <2>1. line \in Nat /\ col \in Int
      BY LexParts, PositionParts
    <2> QED
      BY <2>1, LexParts DEF TokenParts, TokenKinds
  <1>4. ExactAfter(src, a, t)
    <2>1. SubSeq(src, off, off - 1) = <<>>
      BY LexParts, SubSeqEmpty
    <2>2. HasKind(SubSeq(src, off, off - 1), "EOF")
      BY <2>1, TextsOfKinds
    <2>3. Starts(src, off)
      <3>1. At(src, off) = "end"
        <4>1. ~(off <= Len(src))
          BY <1>1, LexParts
        <4> QED
          BY <4>1 DEF At
      <3> QED
        BY <3>1 DEF Starts, Slashes, Blanks
    <2>4. Apart(src, a, off)
      <3> HIDE DEF a
      <3> QED
        BY <1>2, <2>3, LexParts, GapEnds
    <2>5. NumberOf("EOF", SubSeq(src, off, off - 1)) = 0
      BY DEF NumberOf
    <2> QED
      BY <1>1, <2>2, <2>4, <2>5, LexParts DEF ExactAfter
  <1>5. t.to = off /\ t.kind = "EOF"
    OBVIOUS
  <1> HIDE DEF t, a
  <1>6. TokensOf(src, u) /\ EndAt(u, Len(u)) = off /\ u # <<>> /\ u[Len(u)] = t
    BY <1>2, <1>3, <1>4, <1>5, OneMoreToken DEF a
  <1>7. Skipped(src, off, off)
    BY LexParts DEF Skipped
  <1> HIDE DEF u
  <1>8. LexOK(src, off, line, col, u, "ok")
    BY <1>1, <1>5, <1>6, <1>7, LexParts DEF LexOK
  <1> QED
    BY <1>1, <1>8 DEF LexStateNext

LEMMA WordOK ==
    ASSUME LexState, lexed = "no", Word
    PROVE  LexStateNext
  <1> DEFINE e == Run(src, off, IdentCont)
             n == e - off
             t == SubSeq(src, off, e - 1)
             kind == IF t \in Keywords THEN "KEYWORD" ELSE "IDENT"
  <1>1. CharAt(off) \in Letters
    BY DEF Word
  <1>2. off \in 1..Len(src) /\ src[off] \in Letters
    <2>1. CharAt(off) # "end"
      BY <1>1, CharKinds
    <2> QED
      BY <1>1, <2>1, LexParts
  <1>3. RunEnd(off, IdentCont) = e
    BY LexParts DEF RunEnd, Run
  <1>4. /\ e \in off..(Len(src) + 1)
        /\ e <= Len(src) => src[e] \notin IdentCont
        /\ \A k \in off..(e - 1) : src[k] \in IdentCont
    BY LexParts, RunEnds, CharKinds
  <1> HIDE DEF e
  <1>5. /\ src' = src /\ lexed' = lexed /\ off' = off + n
        /\ IF CharAt(off) = "\n" THEN line' = line + 1 /\ col' = 1
                                 ELSE line' = line /\ col' = col + n
        /\ toks' = Append(toks, [kind |-> kind, from |-> off, to |-> off + n,
                                 line |-> line, col |-> col, val |-> 0])
    BY <1>3 DEF Word, Emit, Skip
  <1>6. e # off
    <2>1. src[off] \in IdentCont /\ off <= Len(src)
      <3>1. Letters \subseteq IdentCont
        BY CharKinds
      <3> QED
        BY <1>2, <3>1, LexParts
    <2> QED
      BY <1>4, <2>1
  <1>7. /\ n \in Nat \ {0} /\ off + n = e /\ off + n - 1 = e - 1
        /\ e - 1 \in off..Len(src) /\ e - 1 \in (off - 1)..Len(src)
    BY <1>2, <1>4, <1>6, LexParts
  <1> HIDE DEF n
  <1>8. WordFrom(src, off, e - 1)
    BY <1>2, <1>4, <1>7 DEF WordFrom
  <1>9. IsWord(t)
    BY <1>7, <1>8, WordText, LexParts
  <1>10. HasKind(t, kind) /\ kind \in TokenKinds \ {"EOF"}
    BY <1>9, TextsOfKinds DEF TokenKinds
  <1> HIDE DEF kind
  <1>11. ASSUME NEW f \in e..Len(src) PROVE ~IsToken(SubSeq(src, off, f))
    <2>1. f \in off..Len(src) /\ e \in off..f /\ e <= Len(src)
      BY <1>4, LexParts
    <2>2. IsToken(SubSeq(src, off, f)) => WordFrom(src, off, f)
      BY <1>2, <2>1, LexParts, Beginnings
    <2> QED
      BY <1>4, <2>1, <2>2 DEF WordFrom
  <1>12. \A k \in off..(e - 1) : src[k] # "\n"
    BY <1>4, CharKinds
  <1>13. off + n <= Len(src) + 1
    BY <1>4, <1>7
  <1>14. Starts(src, off)
    BY <1>1, CharKinds, LexParts DEF Starts, Slashes, Single
  <1>15. kind # "INT" /\ 0 = NumberOf(kind, t)
    BY DEF kind, NumberOf
  <1> QED
    BY <1>5, <1>7, <1>10, <1>11, <1>12, <1>13, <1>14, <1>15, EmitOK

LEMMA HexadecimalOK ==
    ASSUME LexState, lexed = "no", Hexadecimal
    PROVE  LexStateNext
  <1> DEFINE e == Run(src, off + 2, DOMAIN Digit)
             n == e - off
             t == SubSeq(src, off, e - 1)
             v == Value(16, SubSeq(src, off + 2, e - 1))
             good == e > off + 2 /\ v < 2 ^ LitBits
  <1>1. CharAt(off) = "0" /\ CharAt(off + 1) \in {"x", "X"}
    BY DEF Hexadecimal, IsHexMark
  <1>2. /\ off \in 1..Len(src) /\ src[off] = "0"
        /\ off + 1 \in 1..Len(src) /\ src[off + 1] \in {"x", "X"}
    <2>1. off + 1 \in Nat \ {0} /\ CharAt(off) # "end" /\ CharAt(off + 1) # "end"
      BY <1>1, LexParts
    <2> QED
      BY <1>1, <2>1, LexParts
  <1>3. RunEnd(off + 2, DOMAIN Digit) = e
    BY LexParts DEF RunEnd, Run
  <1>4. /\ e \in (off + 2)..(Len(src) + 1)
        /\ e <= Len(src) => src[e] \notin DOMAIN Digit
        /\ \A k \in (off + 2)..(e - 1) : src[k] \in DOMAIN Digit
    <2>1. off + 2 \in 1..(Len(src) + 1)
      BY <1>2, LexParts
    <2> QED
      BY <2>1, LexParts, RunEnds, CharKinds
  <1> HIDE DEF e
  <1>5. n \in Nat \ {0} /\ off + n = e /\ off + n - 1 = e - 1
        /\ e - 1 \in off..Len(src) /\ e - 1 \in (off - 1)..Len(src)
    BY <1>2, <1>4, LexParts
  <1>6. src[off + 1] \notin Decimals
    BY <1>2, CharKinds
  <1>7. ASSUME NEW f \in off..Len(src), IsToken(SubSeq(src, off, f))
        PROVE  HexFrom(src, off, f) \/ f = off
    <2>1. HexFrom(src, off, f) \/ DecimalFrom(src, off, f)
      BY <1>2, <1>7, LexParts, Beginnings, CharKinds
    <2>2. f # off => off + 1 \in off..f
      BY LexParts
    <2> QED
      BY <1>6, <2>1, <2>2 DEF DecimalFrom
  <1>8. ASSUME NEW f \in off..Len(src), HexFrom(src, off, f)
        PROVE  f < e
    <2>1. f >= e => e \in (off + 2)..f /\ e <= Len(src)
      BY <1>4, LexParts
    <2> QED
      BY <1>4, <1>8, <2>1, LexParts DEF HexFrom
  <1>11. Starts(src, off)
    BY <1>1, LexParts DEF Starts, Slashes, Blanks
  <1>9. CASE good
    <2>1. /\ src' = src /\ lexed' = lexed /\ off' = off + n
          /\ IF CharAt(off) = "\n" THEN line' = line + 1 /\ col' = 1
                                   ELSE line' = line /\ col' = col + n
          /\ toks' = Append(toks, [kind |-> "INT", from |-> off, to |-> off + n,
                                   line |-> line, col |-> col, val |-> v])
      BY <1>3, <1>9 DEF Hexadecimal, LexIf, Emit, Skip
    <2>2. HexFrom(src, off, e - 1)
      <3>1. e - 1 >= off + 2
        BY <1>4, <1>9, LexParts
      <3> QED
        BY <1>2, <1>4, <1>9, <3>1 DEF HexFrom
    <2>3. HasKind(t, "INT")
      <3>1. IsHex(t)
        BY <1>5, <2>2, HexText, LexParts
      <3> HIDE DEF t
      <3> QED
        BY <3>1, TextsOfKinds
    <2>8. v = NumberOf("INT", t)
      BY <1>2, <1>5, <2>2, LexParts, NumberText
    <2> HIDE DEF v
    <2>4. ASSUME NEW f \in e..Len(src) PROVE ~IsToken(SubSeq(src, off, f))
      <3>1. f \in off..Len(src) /\ f # off /\ ~(f < e)
        BY <1>4, LexParts
      <3> QED
        BY <1>7, <1>8, <3>1
    <2>5. \A k \in off..(e - 1) : src[k] # "\n"
      <3>1. \A k \in off..(e - 1) : k = off \/ k = off + 1 \/ k \in (off + 2)..(e - 1)
        BY <1>4, LexParts
      <3> QED
        BY <1>2, <1>4, <3>1, CharKinds
    <2>6. off + n <= Len(src) + 1 /\ "INT" \in TokenKinds \ {"EOF"}
      BY <1>4, <1>5 DEF TokenKinds
    <2>7. ~GoesOn(t, At(src, e))
      <3>1. At(src, e) \notin DOMAIN Digit
        <4>1. e <= Len(src) => At(src, e) = src[e]
          BY DEF At
        <4>2. ~(e <= Len(src)) => At(src, e) = "end"
          BY DEF At
        <4> QED
          BY <1>4, <4>1, <4>2, CharKinds
      <3> QED
        BY <1>2, <1>5, <2>2, <3>1, LexParts, NumberGoesOn
    <2> HIDE DEF n
    <2> QED
      BY <1>5, <1>11, <2>1, <2>3, <2>4, <2>5, <2>6, <2>7, <2>8, EmitOK
  <1>10. CASE ~good
    <2>1. LexError
      BY <1>3, <1>10 DEF Hexadecimal, LexIf
    <2>2. ASSUME NEW f \in off..Len(src), IsToken(SubSeq(src, off, f))
          PROVE  /\ HasKind(SubSeq(src, off, f), "INT")
                 /\ GoesOn(SubSeq(src, off, f), At(src, f + 1))
      <3>1. HasKind(SubSeq(src, off, f), "INT")
        <4>1. HexFrom(src, off, f) \/ DecimalFrom(src, off, f)
          BY <1>2, <2>2, LexParts, Beginnings, CharKinds
        <4>2. f \in (off - 1)..Len(src)
          BY LexParts
        <4>3. IsHex(SubSeq(src, off, f)) \/ IsDecimal(SubSeq(src, off, f))
          BY <4>1, <4>2, HexText, DecimalText, LexParts
        <4> QED
          BY <4>3, TextsOfKinds
      <3>2. CASE f = off
        <4>1. At(src, f + 1) = CharAt(off + 1)
          BY <3>2, LexParts
        <4>2. DecimalFrom(src, off, f)
          <5>1. ~HexFrom(src, off, f)
            BY <3>2, LexParts DEF HexFrom
          <5> QED
            BY <1>2, <2>2, <5>1, LexParts, Beginnings, CharKinds
        <4> QED
          BY <1>1, <1>2, <3>1, <3>2, <4>1, <4>2, LexParts, NumberGoesOn
      <3>3. CASE HexFrom(src, off, f)
        <4>1. f < e
          BY <1>8, <3>3
        <4>2. f # e - 1
          <5>1. f = e - 1 => e > off + 2 /\ v < 2 ^ LitBits
            <6>1. f >= off + 2
              BY <3>3 DEF HexFrom
            <6>2. f = e - 1 => e > off + 2
              BY <1>4, <6>1, LexParts
            <6>3. f = e - 1 => v < 2 ^ LitBits
              BY <3>3 DEF HexFrom
            <6> QED
              BY <6>2, <6>3
          <5> QED
            BY <1>10, <5>1
        <4>3. f + 1 \in (off + 2)..(e - 1) /\ f + 1 \in 1..Len(src)
          <5>1. f >= off + 2
            BY <3>3 DEF HexFrom
          <5> QED
            BY <1>4, <4>1, <4>2, <5>1, LexParts
        <4>4. src[f + 1] \in DOMAIN Digit
          BY <1>4, <4>3
        <4>5. At(src, f + 1) = src[f + 1]
          BY <4>3, LexParts
        <4> QED
          BY <1>2, <3>1, <3>3, <4>4, <4>5, LexParts, NumberGoesOn
      <3> QED
        BY <1>7, <2>2, <3>1, <3>2, <3>3
    <2>3. GivesUp(src, off)
      BY <2>2 DEF GivesUp
    <2> QED
      BY <1>2, <1>11, <2>1, <2>3, LexParts, LexErrorOK
  <1> QED
    BY <1>9, <1>10

LEMMA DecimalOK ==
    ASSUME LexState, lexed = "no", Decimal
    PROVE  LexStateNext
  <1> DEFINE e == Run(src, off, Decimals)
             n == e - off
             t == SubSeq(src, off, e - 1)
             v == Value(10, t)
             good == (CharAt(off) = "0" => e = off + 1) /\ v < 2 ^ LitBits
  <1>1. /\ CharAt(off) \in Decimals
        /\ ~(CharAt(off) = "0" /\ CharAt(off + 1) \in {"x", "X"})
    BY DEF Decimal, IsHexMark
  <1>2. off \in 1..Len(src) /\ src[off] \in Decimals /\ CharAt(off) = src[off]
    <2>1. CharAt(off) # "end"
      BY <1>1, CharKinds
    <2> QED
      BY <1>1, <2>1, LexParts
  <1>3. RunEnd(off, Decimals) = e
    BY LexParts DEF RunEnd, Run
  <1>4. /\ e \in off..(Len(src) + 1)
        /\ e <= Len(src) => src[e] \notin Decimals
        /\ \A k \in off..(e - 1) : src[k] \in Decimals
    <2>1. "end" \notin Decimals
      BY CharKinds
    <2> QED
      BY <2>1, LexParts, RunEnds
  <1> HIDE DEF e
  <1>5. e # off
    BY <1>2, <1>4
  <1>6. n \in Nat \ {0} /\ off + n = e /\ off + n - 1 = e - 1
        /\ e - 1 \in off..Len(src) /\ e - 1 \in (off - 1)..Len(src)
    BY <1>2, <1>4, <1>5, LexParts
  <1>7. ASSUME NEW f \in off..Len(src), IsToken(SubSeq(src, off, f))
        PROVE  DecimalFrom(src, off, f) /\ f < e
    <2>1. HexFrom(src, off, f) \/ DecimalFrom(src, off, f)
      BY <1>2, <1>7, LexParts, Beginnings
    <2>2. ~HexFrom(src, off, f)
      <3>1. HexFrom(src, off, f) => off + 1 \in 1..Len(src)
        BY LexParts DEF HexFrom
      <3>2. HexFrom(src, off, f) => CharAt(off + 1) = src[off + 1]
        BY <3>1, LexParts
      <3> QED
        BY <1>1, <1>2, <3>2 DEF HexFrom
    <2>3. DecimalFrom(src, off, f)
      BY <2>1, <2>2
    <2>4. f >= e => e \in off..f /\ e <= Len(src)
      BY <1>4, LexParts
    <2>5. ~(f >= e)
      BY <1>4, <2>3, <2>4 DEF DecimalFrom
    <2> QED
      BY <1>4, <2>3, <2>5, LexParts
  <1>10. Starts(src, off)
    <2>1. CharAt(off) \notin Blanks /\ CharAt(off) # "/"
      BY <1>1, CharKinds DEF Single
    <2> QED
      BY <2>1, LexParts DEF Starts, Slashes
  <1>8. CASE good
    <2>1. /\ src' = src /\ lexed' = lexed /\ off' = off + n
          /\ IF CharAt(off) = "\n" THEN line' = line + 1 /\ col' = 1
                                   ELSE line' = line /\ col' = col + n
          /\ toks' = Append(toks, [kind |-> "INT", from |-> off, to |-> off + n,
                                   line |-> line, col |-> col, val |-> v])
      BY <1>3, <1>8 DEF Decimal, LexIf, Emit, Skip
    <2>2. DecimalFrom(src, off, e - 1)
      <3>1. off <= e - 1 /\ (src[off] = "0" => e - 1 = off)
        BY <1>2, <1>6, <1>8, LexParts
      <3> QED
        BY <1>4, <1>8, <3>1 DEF DecimalFrom
    <2>3. HasKind(t, "INT")
      <3>1. IsDecimal(t)
        BY <1>6, <2>2, DecimalText, LexParts
      <3> HIDE DEF t
      <3> QED
        BY <3>1, TextsOfKinds
    <2>8. v = NumberOf("INT", t)
      BY <1>2, <1>6, <2>2, LexParts, NumberText
    <2> HIDE DEF v
    <2>4. ASSUME NEW f \in e..Len(src) PROVE ~IsToken(SubSeq(src, off, f))
      <3>1. f \in off..Len(src) /\ ~(f < e)
        BY <1>4, LexParts
      <3> QED
        BY <1>7, <3>1
    <2>5. \A k \in off..(e - 1) : src[k] # "\n"
      BY <1>4, CharKinds
    <2>6. off + n <= Len(src) + 1 /\ "INT" \in TokenKinds \ {"EOF"}
      BY <1>4, <1>6 DEF TokenKinds
    <2>7. ~GoesOn(t, At(src, e))
      <3>1. At(src, e) \notin Decimals
        <4>1. e <= Len(src) => At(src, e) = src[e]
          BY DEF At
        <4>2. ~(e <= Len(src)) => At(src, e) = "end"
          BY DEF At
        <4> QED
          BY <1>4, <4>1, <4>2, CharKinds
      <3>2. src[off] = "0" => At(src, e) \notin {"x", "X"}
        <4>1. src[off] = "0" => e = off + 1
          BY <1>2, <1>8
        <4>2. src[off] = "0" => At(src, e) = CharAt(off + 1)
          BY <4>1, LexParts
        <4> QED
          BY <1>1, <1>2, <4>2
      <3> QED
        BY <1>2, <1>6, <2>2, <3>1, <3>2, LexParts, NumberGoesOn
    <2> HIDE DEF n
    <2> QED
      BY <1>6, <1>10, <2>1, <2>3, <2>4, <2>5, <2>6, <2>7, <2>8, EmitOK
  <1>9. CASE ~good
    <2>1. LexError
      BY <1>3, <1>9 DEF Decimal, LexIf
    <2>2. ASSUME NEW f \in off..Len(src), IsToken(SubSeq(src, off, f))
          PROVE  /\ HasKind(SubSeq(src, off, f), "INT")
                 /\ GoesOn(SubSeq(src, off, f), At(src, f + 1))
      <3>1. DecimalFrom(src, off, f) /\ f < e
        BY <1>7, <2>2
      <3>2. HasKind(SubSeq(src, off, f), "INT")
        <4>1. f \in (off - 1)..Len(src)
          BY LexParts
        <4>2. IsDecimal(SubSeq(src, off, f))
          BY <3>1, <4>1, DecimalText, LexParts
        <4> QED
          BY <4>2, TextsOfKinds
      <3>3. f # e - 1
        <4>1. f = e - 1 => v < 2 ^ LitBits /\ (src[off] = "0" => e - 1 = off)
          BY <3>1 DEF DecimalFrom
        <4> HIDE DEF v
        <4>2. e - 1 = off => e = off + 1
          BY <1>4, LexParts
        <4> QED
          BY <1>2, <1>9, <4>1, <4>2
      <3>4. f + 1 \in off..(e - 1) /\ f + 1 \in 1..Len(src)
        BY <1>4, <3>1, <3>3, LexParts
      <3>5. src[f + 1] \in Decimals
        BY <1>4, <3>4
      <3>6. At(src, f + 1) = src[f + 1]
        BY <3>4, LexParts
      <3> QED
        BY <1>2, <3>1, <3>2, <3>5, <3>6, LexParts, NumberGoesOn
    <2>3. GivesUp(src, off)
      BY <2>2 DEF GivesUp
    <2> QED
      BY <1>2, <1>10, <2>1, <2>3, LexParts, LexErrorOK
  <1> QED
    BY <1>8, <1>9

LEMMA CharacterOK ==
    ASSUME LexState, lexed = "no", Character
    PROVE  LexStateNext
  <1> DEFINE z == CharEnd
             n == z + 1 - off
             good == /\ CharAt(off + 1) \notin {"end", "\n", "'"}
                     /\ CharAt(off + 1) = "\\" => CharAt(off + 2) \in Escapes
                     /\ CharAt(z) = "'"
  <1>1. CharAt(off) = "'"
    BY DEF Character
  <1>2. off \in 1..Len(src) /\ src[off] = "'"
    <2>1. CharAt(off) # "end"
      BY <1>1
    <2> QED
      BY <1>1, <2>1, LexParts
  <1>3. z = IF CharAt(off + 1) = "\\" THEN off + 3 ELSE off + 2
    BY DEF CharEnd
  <1> HIDE DEF z
  <1>4. z \in Nat \ {0} /\ off + 1 \in Nat \ {0} /\ off + 2 \in Nat \ {0}
    BY <1>3, LexParts
  <1>5. src[off] \notin Letters \cup Decimals
    BY <1>2, CharKinds
  <1>6. ASSUME NEW f \in off..Len(src), IsToken(SubSeq(src, off, f))
        PROVE  f = z /\ good
    <2>1. CharFrom(src, off, f)
      BY <1>2, <1>6, LexParts, Beginnings
    <2>2. Closes(src, off + 1, f, "'") /\ f = (IF src[off + 1] = "\\" THEN off + 3 ELSE off + 2)
      BY <2>1 DEF CharFrom
    <2>3. off + 1 \in 1..Len(src) /\ f \in 1..Len(src) /\ CharAt(off + 1) = src[off + 1]
          /\ CharAt(f) = src[f] /\ src[off + 1] # "end"
      <3>1. off + 1 \in 1..Len(src) /\ f \in 1..Len(src)
        BY <2>2, LexParts
      <3> QED
        BY <3>1, LexParts DEF Chars
    <2>4. f = z
      BY <1>3, <2>2, <2>3
    <2>5. src[f] = "'"
      BY <2>2 DEF Closes
    <2>6. PICK esc \in SUBSET ((off + 1)..(f - 2)) :
              \A k \in (off + 1)..(f - 1) :
                  /\ k \in esc <=> src[k] = "\\" /\ k - 1 \notin esc
                  /\ IF k - 1 \in esc THEN src[k] \in Escapes ELSE src[k] \notin {"'", "\n"}
      BY <2>2 DEF Closes
    <2>7. off + 1 \in (off + 1)..(f - 1) /\ off + 1 - 1 \notin (off + 1)..(f - 2)
      BY <2>2, LexParts
    <2>8. src[off + 1] \notin {"'", "\n"} /\ (off + 1 \in esc <=> src[off + 1] = "\\")
      BY <2>6, <2>7
    <2>9. ASSUME src[off + 1] = "\\" PROVE CharAt(off + 2) \in Escapes
      <3>1. off + 2 \in (off + 1)..(f - 1) /\ off + 2 - 1 = off + 1 /\ off + 2 \in 1..Len(src)
        BY <2>2, <2>9, LexParts
      <3>2. off + 1 \in esc
        BY <2>8, <2>9
      <3>4. \A k \in (off + 1)..(f - 1) : k - 1 \in esc => src[k] \in Escapes
        BY <2>6
      <3>5. \A k : k = off + 2 => k \in (off + 1)..(f - 1) /\ k - 1 = off + 1
        BY <3>1, LexParts
      <3>6. \A k : k = off + 2 => src[k] \in Escapes
        BY ONLY <3>2, <3>4, <3>5
      <3>7. src[off + 2] \in Escapes
        BY ONLY <3>6
      <3> QED
        BY <3>1, <3>7, LexParts
    <2> QED
      BY <2>3, <2>4, <2>5, <2>8, <2>9
  <1>9. Starts(src, off) /\ off <= Len(src)
    <2>1. CharAt(off) \notin Blanks /\ CharAt(off) # "/"
      BY <1>1 DEF Blanks
    <2> QED
      BY <1>2, <2>1, LexParts DEF Starts, Slashes
  <1>7. CASE good
    <2>1. /\ src' = src /\ lexed' = lexed /\ off' = off + n
          /\ IF CharAt(off) = "\n" THEN line' = line + 1 /\ col' = 1
                                   ELSE line' = line /\ col' = col + n
          /\ toks' = Append(toks, [kind |-> "CHAR", from |-> off, to |-> off + n,
                                   line |-> line, col |-> col, val |-> 0])
      BY <1>7 DEF Character, LexIf, Emit, Skip, z
    <2>2. /\ off + 1 \in 1..Len(src) /\ z \in 1..Len(src)
          /\ CharAt(off + 1) = src[off + 1] /\ CharAt(z) = src[z]
      BY <1>4, <1>7, LexParts
    <2>3. ASSUME src[off + 1] = "\\"
          PROVE  z = off + 3 /\ src[off + 2] \in Escapes
      <3>1. z = off + 3 /\ CharAt(off + 2) \in Escapes
        BY <1>3, <1>7, <2>2, <2>3
      <3>2. off + 2 \in 1..Len(src)
        BY <2>2, <3>1, LexParts
      <3> QED
        BY <3>1, <3>2, LexParts
    <2>4. Closes(src, off + 1, z, "'")
      <3> DEFINE esc == IF src[off + 1] = "\\" THEN {off + 1} ELSE {}
      <3>1. z \in (off + 1)..Len(src) /\ src[z] = "'"
        BY <1>3, <1>7, <2>2, LexParts
      <3>2. esc \in SUBSET ((off + 1)..(z - 2))
        <4>1. src[off + 1] = "\\" => off + 1 \in (off + 1)..(z - 2)
          BY <2>3, LexParts
        <4> QED
          BY <4>1
      <3>3. ASSUME NEW k \in (off + 1)..(z - 1)
            PROVE  /\ k \in esc <=> src[k] = "\\" /\ k - 1 \notin esc
                   /\ IF k - 1 \in esc THEN src[k] \in Escapes ELSE src[k] \notin {"'", "\n"}
        <4>1. k = off + 1 \/ (k = off + 2 /\ src[off + 1] = "\\" /\ k - 1 = off + 1)
          BY <1>3, <2>2, LexParts
        <4>2. CASE k = off + 1
          <5>1. k - 1 # off + 1
            BY <4>2, LexParts
          <5>2. k - 1 \notin esc /\ src[k] \notin {"'", "\n"}
            BY <1>7, <2>2, <4>2, <5>1
          <5> QED
            BY <4>2, <5>2
        <4>3. CASE k = off + 2 /\ src[off + 1] = "\\" /\ k - 1 = off + 1
          <5>1. k \notin esc /\ k - 1 \in esc
            BY <4>3, LexParts
          <5> QED
            BY <2>3, <4>3, <5>1
        <4> QED
          BY <4>1, <4>2, <4>3
      <3> HIDE DEF esc
      <3> QED
        BY <3>1, <3>2, <3>3 DEF Closes
    <2>5. CharFrom(src, off, z)
      BY <1>2, <1>3, <2>2, <2>4 DEF CharFrom
    <2>6. n \in Nat \ {0} /\ off + n = z + 1 /\ off + n - 1 = z
          /\ z \in off..Len(src) /\ z \in (off - 1)..Len(src)
      <3>1. z > off
        BY <1>3, LexParts
      <3>2. off \in Nat \ {0} /\ Len(src) \in Nat /\ z \in 1..Len(src)
        BY <2>2, LexParts
      <3> QED
        BY ONLY <3>1, <3>2 DEF n
    <2>7. HasKind(SubSeq(src, off, z), "CHAR")
      <3> DEFINE t == SubSeq(src, off, z)
      <3>1. IsQuoted(t, "'") /\ Len(t) = (IF t[2] = "\\" THEN 4 ELSE 3)
        BY <2>5, <2>6, CharText, LexParts
      <3> HIDE DEF t
      <3>2. HasKind(t, "CHAR")
        BY <3>1, TextsOfKinds
      <3> QED
        BY <3>2 DEF t
    <2>8. ASSUME NEW f \in (z + 1)..Len(src) PROVE ~IsToken(SubSeq(src, off, f))
      <3>1. f \in off..Len(src) /\ f # z
        BY <2>6, LexParts
      <3> QED
        BY <1>6, <3>1
    <2>9. \A k \in off..z : src[k] # "\n"
      <3>1. \A k \in off..z : k = off \/ k = off + 1 \/ k = z
                              \/ (k = off + 2 /\ src[off + 1] = "\\")
        BY <1>3, <2>2, LexParts
      <3>2. "\n" \notin Escapes
        BY DEF Escapes
      <3> QED
        BY <1>2, <1>7, <2>2, <2>3, <3>1, <3>2
    <2>10. off + n <= Len(src) + 1 /\ "CHAR" \in TokenKinds \ {"EOF"} /\ "CHAR" # "INT"
      BY <2>6, LexParts DEF TokenKinds
    <2>11. \A t : NumberOf("CHAR", t) = 0
      BY DEF NumberOf
    <2> HIDE DEF n
    <2> QED
      BY <1>9, <2>1, <2>6, <2>7, <2>8, <2>9, <2>10, <2>11, EmitOK
  <1>8. CASE ~good
    <2>1. LexError
      BY <1>8 DEF Character, LexIf, z
    <2>2. GivesUp(src, off)
      BY <1>6, <1>8 DEF GivesUp
    <2> QED
      BY <1>9, <2>1, <2>2, LexErrorOK
  <1> QED
    BY <1>7, <1>8

LEMMA StringOK ==
    ASSUME LexState, lexed = "no", String
    PROVE  LexStateNext
  <1> DEFINE z == StringEnd
             n == z + 1 - off
  <1>1. CharAt(off) = "\""
    BY DEF String
  <1>2. off \in 1..Len(src) /\ src[off] = "\""
    <2>1. CharAt(off) # "end"
      BY <1>1
    <2> QED
      BY <1>1, <2>1, LexParts
  <1>3. z \in Nat /\ \A e : Closes(src, off + 1, e, "\"") <=> z > 0 /\ e = z
    BY <1>2, StringEnds, LexParts
  <1>4. \/ z > 0 /\ /\ src' = src /\ lexed' = lexed /\ off' = off + n
                    /\ IF CharAt(off) = "\n" THEN line' = line + 1 /\ col' = 1
                                             ELSE line' = line /\ col' = col + n
                    /\ toks' = Append(toks, [kind |-> "STRING", from |-> off, to |-> off + n,
                                             line |-> line, col |-> col, val |-> 0])
        \/ ~(z > 0) /\ LexError
    BY DEF String, LexIf, Emit, Skip
  <1> HIDE DEF z
  <1>5. src[off] \notin Letters \cup Decimals
    BY <1>2, CharKinds
  <1>6. ASSUME NEW f \in off..Len(src), IsToken(SubSeq(src, off, f))
        PROVE  z > 0 /\ f = z
    BY <1>2, <1>3, <1>6, LexParts, Beginnings
  <1>9. Starts(src, off) /\ off <= Len(src)
    <2>1. CharAt(off) \notin Blanks /\ CharAt(off) # "/"
      BY <1>1, CharKinds
    <2>2. off \in 1..Len(src)
      BY <1>2
    <2> QED
      BY <2>1, <2>2, LexParts DEF Starts, Slashes
  <1>7. CASE z > 0
    <2>1. Closes(src, off + 1, z, "\"")
      BY <1>3, <1>7
    <2>2. z \in (off + 1)..Len(src) /\ src[z] = "\""
      BY <2>1 DEF Closes
    <2>3. n \in Nat \ {0} /\ off + n = z + 1 /\ off + n - 1 = z
          /\ z \in off..Len(src) /\ z \in (off - 1)..Len(src) /\ off < z
      <3>1. off \in Nat \ {0} /\ Len(src) \in Nat /\ z \in (off + 1)..Len(src)
        BY <2>2, LexParts
      <3> QED
        BY ONLY <3>1 DEF n
    <2>4. HasKind(SubSeq(src, off, z), "STRING")
      <3>1. IsQuoted(SubSeq(src, off, z), "\"")
        BY <1>2, <2>1, <2>3, QuotedText, LexParts
      <3> QED
        BY <3>1, TextsOfKinds
    <2>5. ASSUME NEW f \in (z + 1)..Len(src) PROVE ~IsToken(SubSeq(src, off, f))
      <3>1. f \in off..Len(src) /\ f # z
        BY <2>3, LexParts
      <3> QED
        BY <1>6, <3>1
    <2>6. ASSUME NEW k \in off..z PROVE src[k] # "\n"
      <3>1. k = off \/ k = z \/ k \in (off + 1)..(z - 1)
        BY <2>3, LexParts
      <3>2. k \in (off + 1)..(z - 1) => src[k] \in Escapes \/ src[k] \notin {"\"", "\n"}
        BY <2>1 DEF Closes
      <3> QED
        BY <1>2, <2>2, <3>1, <3>2 DEF Escapes
    <2>7. off + n <= Len(src) + 1 /\ "STRING" \in TokenKinds \ {"EOF"} /\ "STRING" # "INT"
      BY <2>3, LexParts DEF TokenKinds
    <2>8. \A t : NumberOf("STRING", t) = 0
      BY DEF NumberOf
    <2> HIDE DEF n
    <2> QED
      BY <1>4, <1>7, <1>9, <2>3, <2>4, <2>5, <2>6, <2>7, <2>8, EmitOK
  <1>8. CASE ~(z > 0)
    <2>1. GivesUp(src, off)
      BY <1>6, <1>8 DEF GivesUp
    <2> QED
      BY <1>4, <1>8, <1>9, <2>1, LexErrorOK
  <1> QED
    BY <1>7, <1>8

LEMMA OperatorOK ==
    ASSUME LexState, lexed = "no", Operator
    PROVE  LexStateNext
  <1> DEFINE pair == <<CharAt(off), CharAt(off + 1)>>
  <1>1. CharAt(off) \notin Blanks \cup Letters \cup Decimals \cup {"'", "\"", "end"}
    BY DEF Operator
  <1>2. off \in 1..Len(src) /\ src[off] = CharAt(off) /\ src[off] # "\n"
        /\ src[off] \notin Letters \cup Decimals \cup {"'", "\""}
    <2>1. off \in 1..Len(src) /\ src[off] = CharAt(off)
      BY <1>1, LexParts
    <2> QED
      BY <1>1, <2>1 DEF Blanks
  <1>8. Starts(src, off) /\ off <= Len(src)
    <2>1. ~(CharAt(off) = "/" /\ CharAt(off + 1) = "/")
      BY DEF Operator, AtComment
    <2>2. CharAt(off) \notin Blanks /\ off \in 1..Len(src)
      BY <1>1, <1>2
    <2> QED
      BY <2>1, <2>2, LexParts DEF Starts, Slashes
  <1>3. ASSUME NEW f \in off..Len(src), IsToken(SubSeq(src, off, f))
        PROVE  OperatorFrom(src, off, f)
    BY <1>2, <1>3, LexParts, Beginnings
  <1>4. ASSUME NEW n \in {1, 2}, OperatorFrom(src, off, off + n - 1), off + n <= Len(src) + 1,
               \A f \in (off + n)..Len(src) : ~OperatorFrom(src, off, f),
               \A k \in off..(off + n - 1) : src[k] # "\n",
               src' = src, lexed' = lexed, off' = off + n,
               IF CharAt(off) = "\n" THEN line' = line + 1 /\ col' = 1
                                     ELSE line' = line /\ col' = col + n,
               toks' = Append(toks, [kind |-> "OPERATOR", from |-> off, to |-> off + n,
                                     line |-> line, col |-> col, val |-> 0])
        PROVE  LexStateNext
    <2>1. n \in Nat \ {0} /\ off + n - 1 \in (off - 1)..Len(src)
      BY <1>4, LexParts
    <2>2. HasKind(SubSeq(src, off, off + n - 1), "OPERATOR")
      <3>1. IsOperator(SubSeq(src, off, off + n - 1))
        BY <1>4, <2>1, OperatorText, LexParts
      <3> QED
        BY <3>1, TextsOfKinds
    <2>3. ASSUME NEW f \in (off + n)..Len(src) PROVE ~IsToken(SubSeq(src, off, f))
      <3>1. f \in off..Len(src)
        BY <2>1, LexParts
      <3> QED
        BY <1>3, <1>4, <3>1
    <2>4. "OPERATOR" \in TokenKinds \ {"EOF"} /\ "OPERATOR" # "INT"
      BY DEF TokenKinds
    <2>5. \A t : NumberOf("OPERATOR", t) = 0
      BY DEF NumberOf
    <2> QED
      BY <1>4, <1>8, <2>1, <2>2, <2>3, <2>4, <2>5, EmitOK
  <1>5. CASE pair \in Double
    <2>1. CharAt(off + 1) \notin {"end", "\n"}
      BY <1>5 DEF Double
    <2>2. off + 1 \in 1..Len(src) /\ src[off + 1] = CharAt(off + 1)
      BY <2>1, LexParts
    <2>3. off + 2 - 1 = off + 1 /\ off + 2 <= Len(src) + 1
          /\ \A k \in off..(off + 2 - 1) : k = off \/ k = off + 1
      BY <2>2, LexParts
    <2>4. OperatorFrom(src, off, off + 2 - 1)
      BY <1>2, <1>5, <2>2, <2>3 DEF OperatorFrom
    <2>5. \A f \in (off + 2)..Len(src) : ~OperatorFrom(src, off, f)
      BY LexParts DEF OperatorFrom
    <2>6. \A k \in off..(off + 2 - 1) : src[k] # "\n"
      BY <1>2, <2>1, <2>2, <2>3
    <2>7. /\ src' = src /\ lexed' = lexed /\ off' = off + 2
          /\ IF CharAt(off) = "\n" THEN line' = line + 1 /\ col' = 1
                                   ELSE line' = line /\ col' = col + 2
          /\ toks' = Append(toks, [kind |-> "OPERATOR", from |-> off, to |-> off + 2,
                                   line |-> line, col |-> col, val |-> 0])
      BY <1>5 DEF Operator, Emit, Skip
    <2> QED
      BY <1>4, <2>3, <2>4, <2>5, <2>6, <2>7
  <1>6. CASE pair \notin Double /\ CharAt(off) \in Single
    <2>1. off + 1 - 1 = off /\ off + 1 <= Len(src) + 1
          /\ \A k \in off..(off + 1 - 1) : k = off
      <3>1. off \in 1..Len(src) /\ Len(src) \in Nat
        BY <1>2, LexParts
      <3> QED
        BY ONLY <3>1
    <2>2. OperatorFrom(src, off, off + 1 - 1)
      BY <1>2, <1>6, <2>1 DEF OperatorFrom
    <2>3. \A f \in (off + 1)..Len(src) : ~OperatorFrom(src, off, f)
      <3> TAKE f \in (off + 1)..Len(src)
      <3>1. f \in 1..Len(src) /\ f # off
        BY LexParts
      <3>2. f = off + 1 => src[f] = CharAt(off + 1)
        BY <3>1, LexParts
      <3> QED
        BY <1>2, <1>6, <3>1, <3>2 DEF OperatorFrom
    <2>4. \A k \in off..(off + 1 - 1) : src[k] # "\n"
      BY <1>2, <2>1
    <2>5. /\ src' = src /\ lexed' = lexed /\ off' = off + 1
          /\ IF CharAt(off) = "\n" THEN line' = line + 1 /\ col' = 1
                                   ELSE line' = line /\ col' = col + 1
          /\ toks' = Append(toks, [kind |-> "OPERATOR", from |-> off, to |-> off + 1,
                                   line |-> line, col |-> col, val |-> 0])
      BY <1>6 DEF Operator, LexIf, Emit, Skip
    <2> QED
      BY <1>4, <2>1, <2>2, <2>3, <2>4, <2>5
  <1>7. CASE pair \notin Double /\ CharAt(off) \notin Single
    <2>1. LexError
      BY <1>7 DEF Operator, LexIf
    <2>2. ASSUME NEW f \in off..Len(src), OperatorFrom(src, off, f) PROVE FALSE
      <3>1. f \in 1..Len(src)
        BY LexParts
      <3>2. f = off + 1 => src[f] = CharAt(off + 1)
        BY <3>1, LexParts
      <3> QED
        BY <1>2, <1>7, <2>2, <3>2 DEF OperatorFrom
    <2>3. GivesUp(src, off)
      BY <1>3, <2>2 DEF GivesUp
    <2> QED
      BY <1>8, <2>1, <2>3, LexErrorOK
  <1> QED
    BY <1>5, <1>6, <1>7

LEMMA LexNextOK ==
    ASSUME LexState, LexNext
    PROVE  LexStateNext
  BY SkipBlankOK, SkipCommentOK, EndOfFileOK, WordOK, HexadecimalOK, DecimalOK, CharacterOK,
     StringOK, OperatorOK DEF LexNext

\* What the invariant says of the tokens is what TokensExact says.
LEMMA ExactTokens ==
    ASSUME LexState
    PROVE  TokensExact
  <1>1. \A i : CharAt(i) = At(src, i)
    BY LexParts
  <1>2. \A a, b : Gap(a, b) <=> Apart(src, a, b)
    <2>1. \A a, b : InComment(a, b) <=> Commented(src, a, b)
      BY <1>1 DEF InComment, Commented, Slashes
    <2> QED
      BY <1>1, <2>1 DEF Gap, Apart
  <1>3. \A i : EndOf(i) = EndAt(toks, i)
    BY DEF EndOf, EndAt
  <1>4. ASSUME NEW i \in DOMAIN toks PROVE TokenExact(i)
    <2>1. i \in 1..Len(toks)
      <3>1. PICK S : toks \in Seq(S)
        BY DEF LexState, LexOK, TokensOf
      <3> QED
        BY <3>1, LenProperties
    <2>2. ExactAfter(src, EndAt(toks, i - 1), toks[i]) /\ (toks[i].kind = "EOF" => i = Len(toks))
      BY <2>1 DEF LexState, LexOK, TokensOf
    <2> QED
      BY <1>1, <1>2, <1>3, <2>2 DEF TokenExact, ExactAfter, Position, Newlines
  <1>5. lexed = "ok" => toks # <<>> /\ toks[Len(toks)].kind = "EOF"
    BY DEF LexState, LexOK
  <1>6. ASSUME lexed = "error"
        PROVE  Gap(EndOf(Len(toks)), off) /\ off <= Len(src) /\ GivesUp(src, off)
    <2>1. /\ off <= Len(src) /\ Starts(src, off) /\ GivesUp(src, off)
          /\ EndAt(toks, Len(toks)) \in Nat /\ Skipped(src, EndAt(toks, Len(toks)), off)
      BY <1>6 DEF LexState, LexOK
    <2>2. Apart(src, EndAt(toks, Len(toks)), off)
      BY <2>1, LexParts, GapEnds
    <2> QED
      BY <1>2, <1>3, <2>1, <2>2
  <1> QED
    BY <1>1, <1>4, <1>5, <1>6 DEF TokensExact, GivesUp

-----------------------------------------------------------------------------
(* No other tokens are as exact. *)

\* A text has one kind.
LEMMA OneKind ==
    ASSUME NEW t \in Seq(Chars), NEW k \in TokenKinds, NEW m \in TokenKinds,
           HasKind(t, k), HasKind(t, m)
    PROVE  k = m
  <1> DEFINE c == t[1]
             p == "'"
             d == "\""
  <1>1. t = <<>> => Len(t) = 0
    OBVIOUS
  <1>2. Len(t) \in Nat /\ DOMAIN t = 1..Len(t)
    BY LenProperties
  <1>3. IsWord(t) => Len(t) # 0 /\ c \in Letters
    BY EmptySeq DEF IsWord
  <1>4. IsHex(t) \/ IsDecimal(t) => Len(t) # 0 /\ c \in Decimals
    <2>1. IsHex(t) => Len(t) # 0 /\ c = "0"
      BY <1>2 DEF IsHex
    <2>2. IsDecimal(t) => Len(t) # 0 /\ 1 \in DOMAIN t
      BY <1>2, EmptySeq DEF IsDecimal
    <2>3. IsDecimal(t) => c \in Decimals
      BY <2>2 DEF IsDecimal
    <2> QED
      BY <2>1, <2>2, <2>3, CharKinds
  <1>5. \A q : IsQuoted(t, q) => Len(t) # 0 /\ c = q
    BY <1>2 DEF IsQuoted
  <1>6. IsOperator(t) => Len(t) # 0 /\ c \in Single \cup {"|"}
    <2>1. \A x, y : <<x, y>> \in Double => x \in Single \cup {"|"}
      BY DEF Double, Single
    <2>2. t \in Double => Len(t) = 2 /\ t = <<t[1], t[2]>>
      BY DEF Double
    <2> QED
      BY <2>1, <2>2 DEF IsOperator
  <1>7. t \in Keywords => IsWord(t)
    BY CharactersOK
  <1> HIDE DEF c
  <1>8. /\ HasKind(t, "IDENT") <=> IsWord(t) /\ t \notin Keywords
        /\ HasKind(t, "KEYWORD") <=> t \in Keywords
        /\ HasKind(t, "INT") <=> IsHex(t) \/ IsDecimal(t)
        /\ HasKind(t, "CHAR") => IsQuoted(t, p)
        /\ HasKind(t, "STRING") => IsQuoted(t, d)
        /\ HasKind(t, "OPERATOR") <=> IsOperator(t)
        /\ HasKind(t, "EOF") <=> t = <<>>
    BY TextsOfKinds
  <1>9. /\ p \notin Single \cup {"|"} \cup Letters \cup Decimals
        /\ d \notin Single \cup {"|"} \cup Letters \cup Decimals /\ p # d
    BY CharKinds DEF Single
  <1> HIDE DEF p, d
  <1>10. /\ Letters \cap (Single \cup Decimals \cup {"|"}) = {}
         /\ Decimals \cap (Single \cup {"|"}) = {}
    BY CharKinds
  <1>11. ASSUME NEW j \in TokenKinds, HasKind(t, j)
         PROVE  /\ j \in {"IDENT", "KEYWORD"} <=> Len(t) # 0 /\ c \in Letters
                /\ j = "KEYWORD" <=> t \in Keywords
                /\ j = "INT" <=> Len(t) # 0 /\ c \in Decimals
                /\ j = "CHAR" <=> Len(t) # 0 /\ c = p
                /\ j = "STRING" <=> Len(t) # 0 /\ c = d
                /\ j = "EOF" <=> Len(t) = 0
    <2>1. j \in {"IDENT", "KEYWORD", "INT", "CHAR", "STRING", "OPERATOR", "EOF"}
      BY DEF TokenKinds
    <2> QED
      BY <1>1, <1>3, <1>4, <1>5, <1>6, <1>7, <1>8, <1>9, <1>10, <1>11, <2>1
  <1>12. k \in {"IDENT", "KEYWORD", "INT", "CHAR", "STRING", "OPERATOR", "EOF"}
         /\ m \in {"IDENT", "KEYWORD", "INT", "CHAR", "STRING", "OPERATOR", "EOF"}
    BY DEF TokenKinds
  <1> QED
    BY <1>9, <1>10, <1>11, <1>12

\* Blanks and comments end in one place.
LEMMA OnePlace ==
    ASSUME NEW s, NEW a \in Int, NEW b \in Int, NEW d \in Int, Apart(s, a, b), Apart(s, a, d)
    PROVE  b = d
  <1>1. ASSUME NEW x \in Int, NEW y \in Int, Apart(s, a, x), Apart(s, a, y) PROVE ~(x < y)
    <2>1. x < y => x \in a..(y - 1)
      BY <1>1 DEF Apart
    <2> QED
      BY <1>1, <2>1 DEF Apart
  <1> QED
    BY <1>1

\* The last newline before a place is one, and so is the column.
LEMMA OneColumn ==
    ASSUME NEW s, NEW o \in Int, NEW l, NEW c \in Int, NEW m, NEW d \in Int,
           Position(s, o, l, c), Position(s, o, m, d)
    PROVE  l = m /\ c = d
  <1>1. l = m
    BY DEF Position
  <1>2. ASSUME NEW x \in Int, NEW y \in Int, NEW n, NEW r, Position(s, o, n, x), Position(s, o, r, y)
        PROVE  o - x <= o - y
    <2>1. \A k \in Newlines(s, o) : k \in Nat /\ k >= 1
      BY DEF Newlines
    <2>2. CASE o - x \in Newlines(s, o)
      BY <1>2, <2>2 DEF Position
    <2>3. CASE o - x = 0
      <3>1. o - y \in {0} \cup Newlines(s, o)
        BY <1>2 DEF Position
      <3> QED
        BY <2>1, <2>3, <3>1
    <2> QED
      BY <1>2, <2>2, <2>3 DEF Position
  <1> QED
    BY <1>1, <1>2

\* The first token after a place is one.
LEMMA OneToken ==
    ASSUME NEW s \in Seq(Chars), NEW a \in Int, NEW t, NEW u,
           TokenParts(t), ExactAfter(s, a, t), TokenParts(u), ExactAfter(s, a, u)
    PROVE  t = u
  <1>1. Len(s) \in Nat
    BY LenProperties
  <1>2. /\ t.from \in Nat \ {0} /\ t.to \in Nat /\ t.from <= t.to /\ t.kind \in TokenKinds
        /\ t.line \in Nat /\ t.col \in Int
        /\ u.from \in Nat \ {0} /\ u.to \in Nat /\ u.from <= u.to /\ u.kind \in TokenKinds
        /\ u.line \in Nat /\ u.col \in Int
    BY DEF TokenParts
  <1>3. t.from = u.from
    BY <1>2, OnePlace DEF ExactAfter
  <1>4. t.line = u.line /\ t.col = u.col
    BY <1>2, <1>3, OneColumn DEF ExactAfter
  <1>5. ASSUME NEW x, TokenParts(x), ExactAfter(s, a, x)
        PROVE  /\ x.from \in Nat \ {0} /\ x.to \in x.from..(Len(s) + 1) /\ x.from \in 1..(Len(s) + 1)
               /\ SubSeq(s, x.from, x.to - 1) \in Seq(Chars)
               /\ x.kind = "EOF" <=> x.from > Len(s)
               /\ x.kind = "EOF" => x.to = x.from
               /\ x.kind # "EOF" => IsToken(SubSeq(s, x.from, x.to - 1)) /\ x.from < x.to
    <2> DEFINE text == SubSeq(s, x.from, x.to - 1)
    <2>1. /\ x.from \in Nat \ {0} /\ x.to \in Nat /\ x.from <= x.to /\ x.to <= Len(s) + 1
          /\ x.kind \in TokenKinds /\ HasKind(text, x.kind)
          /\ x.kind = "EOF" => x.from > Len(s)
      BY <1>5 DEF TokenParts, ExactAfter
    <2>2. x.to \in x.from..(Len(s) + 1) /\ x.from \in 1..(Len(s) + 1)
          /\ x.to - 1 \in (x.from - 1)..Len(s)
      BY <1>1, <2>1
    <2>3. text \in Seq(Chars) /\ Len(text) = x.to - 1 - x.from + 1
      BY <2>2, Piece
    <2>4. x.from = x.to => text = <<>>
      BY <2>1, <2>3, EmptySeq
    <2> HIDE DEF text
    <2>5. x.from = x.to => HasKind(text, "EOF")
      BY <2>4, TextsOfKinds
    <2>6. x.from = x.to => x.kind = "EOF"
      <3>1. "EOF" \in TokenKinds
        BY DEF TokenKinds
      <3> QED
        BY <2>1, <2>3, <2>5, <3>1, OneKind
    <2>7. x.kind # "EOF" => IsToken(text)
      BY <2>1 DEF IsToken
    <2>8. x.from > Len(s) => x.from = x.to
      BY <1>1, <2>2
    <2>9. x.kind = "EOF" => x.from = x.to
      BY <1>1, <2>1, <2>8
    <2> QED
      BY <1>1, <2>1, <2>2, <2>3, <2>6, <2>7, <2>8, <2>9 DEF text
  <1>6. ASSUME NEW x, TokenParts(x), ExactAfter(s, a, x), NEW y, TokenParts(y), ExactAfter(s, a, y),
               x.from = y.from, x.kind # "EOF", y.kind # "EOF"
        PROVE  ~(x.to < y.to)
    <2>1. /\ x.to \in Nat /\ y.to \in Nat /\ y.to <= Len(s) + 1
          /\ IsToken(SubSeq(s, x.from, y.to - 1))
      BY <1>1, <1>5, <1>6
    <2>2. x.to < y.to => y.to - 1 \in x.to..Len(s)
      BY <1>1, <2>1
    <2> QED
      BY <1>6, <2>1, <2>2 DEF ExactAfter
  <1>7. t.kind = "EOF" <=> u.kind = "EOF"
    BY <1>3, <1>5
  <1>8. t.to = u.to
    <2>1. CASE t.kind = "EOF"
      BY <1>3, <1>5, <1>7, <2>1
    <2>2. CASE t.kind # "EOF"
      <3>1. ~(t.to < u.to) /\ ~(u.to < t.to)
        BY <1>3, <1>6, <1>7, <2>2
      <3> QED
        BY <1>2, <3>1
    <2> QED
      BY <2>1, <2>2
  <1>9. t.kind = u.kind
    <2>1. /\ HasKind(SubSeq(s, t.from, t.to - 1), t.kind) /\ HasKind(SubSeq(s, t.from, t.to - 1), u.kind)
          /\ SubSeq(s, t.from, t.to - 1) \in Seq(Chars)
      BY <1>3, <1>5, <1>8 DEF ExactAfter
    <2> QED
      BY <1>2, <2>1, OneKind
  <1>10. t.val = u.val
    BY <1>3, <1>8, <1>9 DEF ExactAfter
  <1> QED
    BY <1>3, <1>4, <1>8, <1>9, <1>10 DEF TokenParts

\* Tokens agree as far as both sequences go.
LEMMA TokensAgree ==
    ASSUME NEW s \in Seq(Chars), NEW ts, NEW us, TokensOf(s, ts), TokensOf(s, us)
    PROVE  \A i \in 1..Len(ts) : i <= Len(us) => ts[i] = us[i]
  <1> DEFINE differ == {i \in 1..Len(ts) : i <= Len(us) /\ ts[i] # us[i]}
  <1>1. Len(ts) \in Nat /\ Len(us) \in Nat
    BY LenProperties DEF TokensOf
  <1>2. ASSUME differ # {} PROVE FALSE
    <2>1. PICK j \in differ : \A i \in differ : j <= i
      <3>1. differ \subseteq Nat
        OBVIOUS
      <3> HIDE DEF differ
      <3> QED
        BY <1>2, <3>1, LeastNumber
    <2>2. j \in 1..Len(ts) /\ j \in 1..Len(us) /\ j \in Nat \ {0}
      BY <1>1, <2>1
    <2>3. j - 1 # 0 => ts[j - 1] = us[j - 1]
      <3>1. j - 1 # 0 => j - 1 \in 1..Len(ts) /\ j - 1 <= Len(us) /\ ~(j <= j - 1)
        BY <1>1, <2>2
      <3> QED
        BY <2>1, <3>1
    <2>4. EndAt(ts, j - 1) = EndAt(us, j - 1)
      BY <2>3 DEF EndAt
    <2>5. EndAt(ts, j - 1) \in Int
      <3>1. j - 1 # 0 => j - 1 \in 1..Len(ts)
        BY <1>1, <2>2
      <3>2. j - 1 # 0 => TokenParts(ts[j - 1])
        BY <3>1 DEF TokensOf
      <3>3. j - 1 # 0 => ts[j - 1].to \in Int
        BY <3>2 DEF TokenParts
      <3> QED
        BY <3>3 DEF EndAt
    <2>6. /\ TokenParts(ts[j]) /\ ExactAfter(s, EndAt(ts, j - 1), ts[j])
          /\ TokenParts(us[j]) /\ ExactAfter(s, EndAt(ts, j - 1), us[j])
      BY <2>2, <2>4 DEF TokensOf
    <2>7. ts[j] = us[j]
      BY <2>5, <2>6, OneToken
    <2> QED
      BY <2>1, <2>7
  <1> QED
    BY <1>2

\* What a lexer has that has ended, with tokens ts, at place o.
Lexed(s, ts, lx, o) ==
    /\ s \in Seq(Chars) /\ TokensOf(s, ts) /\ lx \in {"ok", "error"} /\ o \in Int
    /\ lx = "ok" => ts # <<>> /\ ts[Len(ts)].kind = "EOF"
    /\ lx = "error" => Apart(s, EndAt(ts, Len(ts)), o) /\ o <= Len(s) /\ GivesUp(s, o)

LEMMA NoneIsShorter ==
    ASSUME NEW s, NEW ts, NEW us, NEW lx, NEW my, NEW o, NEW p,
           Lexed(s, ts, lx, o), Lexed(s, us, my, p)
    PROVE  ~(Len(ts) < Len(us))
  <1> SUFFICES ASSUME Len(ts) < Len(us) PROVE FALSE
    OBVIOUS
  <1> DEFINE n == Len(ts)
  <1>1. Len(ts) \in Nat /\ Len(us) \in Nat
    BY LenProperties DEF Lexed, TokensOf
  <1>2. n + 1 \in 1..Len(us) /\ n + 1 - 1 = n /\ (n # 0 => n \in 1..Len(us) /\ n \in 1..Len(ts))
    BY <1>1
  <1>3. n # 0 => ts[n] = us[n]
    BY <1>1, <1>2, TokensAgree DEF Lexed
  <1>4. CASE lx = "ok"
    <2>1. n # 0 /\ ts[n].kind = "EOF"
      <3>1. ts # <<>> /\ ts[n].kind = "EOF"
        BY <1>4 DEF Lexed
      <3>2. PICK S : ts \in Seq(S)
        BY DEF Lexed, TokensOf
      <3> QED
        BY <3>1, <3>2, EmptySeq
    <2>2. us[n].kind = "EOF" /\ n \in 1..Len(us)
      BY <1>2, <1>3, <2>1
    <2>3. n = Len(us)
      BY <2>2 DEF Lexed, TokensOf
    <2> QED
      BY <1>1, <2>3
  <1>5. CASE lx = "error"
    <2> DEFINE u == us[n + 1]
    <2>1. TokenParts(u) /\ ExactAfter(s, EndAt(us, n), u)
      <3>1. \A i \in 1..Len(us) : TokenParts(us[i]) /\ ExactAfter(s, EndAt(us, i - 1), us[i])
        BY DEF Lexed, TokensOf
      <3> HIDE DEF n
      <3> QED
        BY <1>2, <3>1
    <2>2. EndAt(us, n) = EndAt(ts, n) /\ EndAt(ts, n) \in Int
      <3>1. n # 0 => TokenParts(ts[n])
        BY <1>2 DEF Lexed, TokensOf
      <3>2. n # 0 => ts[n].to \in Int
        BY <3>1 DEF TokenParts
      <3> QED
        BY <1>3, <3>2 DEF EndAt
    <2> HIDE DEF u, n
    <2>3. /\ u.from \in Nat \ {0} /\ u.to \in Nat /\ u.from <= u.to /\ u.kind \in TokenKinds
          /\ o \in Int /\ o <= Len(s) /\ Len(s) \in Nat /\ s \in Seq(Chars)
      BY <1>5, <2>1, LenProperties DEF TokenParts, Lexed
    <2>4. u.from = o
      <3>1. Apart(s, EndAt(ts, n), o) /\ Apart(s, EndAt(ts, n), u.from)
        BY <1>5, <2>1, <2>2 DEF Lexed, ExactAfter, n
      <3> QED
        BY <2>2, <2>3, <3>1, OnePlace
    <2> DEFINE text == SubSeq(s, o, u.to - 1)
    <2>5. /\ u.kind # "EOF" /\ HasKind(text, u.kind) /\ u.to <= Len(s) + 1
          /\ u.kind = "INT" => ~GoesOn(text, At(s, u.to))
      BY <2>1, <2>3, <2>4 DEF ExactAfter
    <2>6. u.to - 1 \in (o - 1)..Len(s) /\ o \in 1..(Len(s) + 1) /\ u.to - 1 + 1 = u.to
      BY <2>3, <2>4, <2>5
    <2>7. text \in Seq(Chars) /\ Len(text) = u.to - 1 - o + 1
      BY <2>3, <2>6, Piece
    <2>8. u.to - 1 \in o..Len(s)
      <3>1. u.to - 1 < o => text = <<>>
        BY <2>3, <2>6, <2>7, EmptySeq
      <3> HIDE DEF text
      <3>2. text = <<>> => HasKind(text, "EOF")
        BY TextsOfKinds
      <3>3. "EOF" \in TokenKinds
        BY DEF TokenKinds
      <3>4. text # <<>>
        BY <2>3, <2>5, <2>7, <3>2, <3>3, OneKind
      <3> QED
        BY <2>3, <2>6, <3>1, <3>4
    <2>9. IsToken(text)
      BY <2>3, <2>5 DEF IsToken
    <2>10. HasKind(text, "INT") /\ GoesOn(text, At(s, u.to - 1 + 1))
      BY <1>5, <2>8, <2>9 DEF Lexed, GivesUp
    <2>11. "INT" \in TokenKinds
      BY DEF TokenKinds
    <2> HIDE DEF text
    <2>12. u.kind = "INT"
      BY <2>3, <2>5, <2>7, <2>10, <2>11, OneKind
    <2> QED
      BY <2>5, <2>6, <2>10, <2>12
  <1> QED
    BY <1>4, <1>5 DEF Lexed

LEMMA OneLexing ==
    ASSUME NEW s, NEW ts, NEW us, NEW lx, NEW my, NEW o, NEW p,
           Lexed(s, ts, lx, o), Lexed(s, us, my, p)
    PROVE  ts = us /\ lx = my /\ (lx = "error" => o = p)
  <1> DEFINE n == Len(ts)
  <1>1. Len(ts) \in Nat /\ Len(us) \in Nat /\ Len(s) \in Nat
    BY LenProperties DEF Lexed, TokensOf
  <1>2. Len(us) = n
    BY <1>1, NoneIsShorter
  <1>3. \A i \in 1..n : ts[i] = us[i]
    BY <1>1, <1>2, TokensAgree DEF Lexed
  <1>4. ts = us
    <2>1. PICK S : ts \in Seq(S)
      BY DEF Lexed, TokensOf
    <2>2. PICK R : us \in Seq(R)
      BY DEF Lexed, TokensOf
    <2>3. S \subseteq S \cup R /\ R \subseteq S \cup R
      OBVIOUS
    <2>4. ts \in Seq(S \cup R) /\ us \in Seq(S \cup R)
      BY <2>1, <2>2, <2>3, SeqMonotonic
    <2> QED
      BY <1>2, <1>3, <2>4, SeqEqual
  <1> HIDE DEF n
  <1>5. EndAt(ts, Len(ts)) \in Int
    <2>1. Len(ts) # 0 => Len(ts) \in 1..Len(ts)
      BY <1>1
    <2>2. Len(ts) # 0 => TokenParts(ts[Len(ts)])
      BY <2>1 DEF Lexed, TokensOf
    <2>3. Len(ts) # 0 => ts[Len(ts)].to \in Int
      BY <2>2 DEF TokenParts
    <2> QED
      BY <2>3 DEF EndAt
  <1>6. ASSUME NEW x, NEW y, NEW q, NEW r, Lexed(s, ts, x, q), Lexed(s, ts, y, r)
        PROVE  ~(x = "ok" /\ y = "error")
    <2> SUFFICES ASSUME x = "ok", y = "error" PROVE FALSE
      OBVIOUS
    <2>1. Len(ts) # 0 /\ ts[Len(ts)].kind = "EOF"
      <3>1. PICK S : ts \in Seq(S)
        BY <1>6 DEF Lexed, TokensOf
      <3> QED
        BY <1>6, <3>1, EmptySeq DEF Lexed
    <2>2. Len(ts) \in 1..Len(ts)
      BY <1>1, <2>1
    <2>3. TokenParts(ts[Len(ts)]) /\ ts[Len(ts)].from > Len(s)
      BY <1>6, <2>1, <2>2 DEF Lexed, TokensOf, ExactAfter
    <2>4. EndAt(ts, Len(ts)) > Len(s)
      <3>1. EndAt(ts, Len(ts)) = ts[Len(ts)].to
        BY <2>1 DEF EndAt
      <3> QED
        BY <1>1, <2>3, <3>1 DEF TokenParts
    <2>5. r \in Int /\ r <= Len(s) /\ EndAt(ts, Len(ts)) <= r
      BY <1>6 DEF Lexed, Apart
    <2> QED
      BY <1>1, <1>5, <2>4, <2>5
  <1>7. Lexed(s, ts, lx, o) /\ Lexed(s, ts, my, p)
    BY <1>4
  <1>8. lx = my
    BY <1>6, <1>7 DEF Lexed
  <1>9. lx = "error" => o = p
    <2>1. lx = "error" => /\ Apart(s, EndAt(ts, Len(ts)), o) /\ Apart(s, EndAt(ts, Len(ts)), p)
                          /\ o \in Int /\ p \in Int
      BY <1>7, <1>8 DEF Lexed
    <2> QED
      BY <1>5, <2>1, OnePlace
  <1> QED
    BY <1>4, <1>8, <1>9

\* The types that go with TokensExact.
LexerTypes ==
    /\ src \in Seq(Chars) /\ off \in Int /\ lexed \in {"no", "ok", "error"}
    /\ \E S : toks \in Seq(S)
    /\ \A i \in 1..Len(toks) : TokenParts(toks[i])

\* The lexer has ended, with tokens as TokensExact has them.
ExactlyLexed == LexerTypes /\ TokensExact /\ lexed # "no"

LexedState == Lexed(src, toks, lexed, off)

LEMMA LexedIfExact == ExactlyLexed => LexedState
  <1> SUFFICES ASSUME LexerTypes, TokensExact, lexed # "no"
               PROVE  LexedState
    BY DEF ExactlyLexed
  <1>1. \A i : CharAt(i) = At(src, i)
    BY DEF CharAt, At
  <1>2. \A a, b : Gap(a, b) <=> Apart(src, a, b)
    <2>1. \A a, b : InComment(a, b) <=> Commented(src, a, b)
      BY <1>1 DEF InComment, Commented, Slashes
    <2> QED
      BY <1>1, <2>1 DEF Gap, Apart
  <1>3. \A i : EndOf(i) = EndAt(toks, i)
    BY DEF EndOf, EndAt
  <1>4. ASSUME NEW i \in 1..Len(toks)
        PROVE  /\ TokenParts(toks[i]) /\ ExactAfter(src, EndAt(toks, i - 1), toks[i])
               /\ toks[i].kind = "EOF" => i = Len(toks)
    <2>1. TokenParts(toks[i])
      BY DEF LexerTypes
    <2>2. i \in DOMAIN toks
      <3>1. PICK S : toks \in Seq(S)
        BY DEF LexerTypes
      <3> QED
        BY <3>1, LenProperties
    <2>3. TokenExact(i)
      BY <2>2 DEF TokensExact
    <2> QED
      BY <1>1, <1>2, <1>3, <2>1, <2>3 DEF TokenExact, ExactAfter, Position, Newlines
  <1>5. TokensOf(src, toks)
    BY <1>4 DEF LexerTypes, TokensOf
  <1>6. lexed = "error" => /\ Apart(src, EndAt(toks, Len(toks)), off) /\ off <= Len(src)
                           /\ GivesUp(src, off)
    BY <1>1, <1>2, <1>3 DEF TokensExact, GivesUp
  <1> QED
    BY <1>5, <1>6 DEF LexedState, Lexed, LexerTypes, TokensExact

\* TokensExact leaves nothing open: in any two states in which one source has
\* been lexed as TokensExact says, the tokens are the same, with their kinds,
\* places, lines, columns and values, and so is whether and where the lexer
\* gave up.  It says all that Lex and Next do (lexer.go).
THEOREM TokensAreDetermined ==
    ASSUME ExactlyLexed, ExactlyLexed', src' = src
    PROVE  toks' = toks /\ lexed' = lexed /\ (lexed = "error" => off' = off)
  <1>1. LexedState
    BY LexedIfExact
  <1>2. LexedState'
    BY LexedIfExact, PTL
  <1> QED
    BY <1>1, <1>2, OneLexing DEF LexedState
=============================================================================
