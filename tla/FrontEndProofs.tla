--------------------------- MODULE FrontEndProofs ---------------------------
(***************************************************************************)
(* What TLAPS proves of the front end, for every set of token kinds and    *)
(* files, every nesting of blocks, loops and expressions.                  *)
(*                                                                         *)
(* The parser and the checker are driven by a sequence of items, the calls *)
(* that are still to be made.  The inductive invariant of each says what   *)
(* is known between two items: each needs something of the one before it   *)
(* and leaves something for the next, like instructions that are typed     *)
(* by what they do to the state.                                           *)
(*                                                                         *)
(* The lexer has a module of its own (LexerProofs).                        *)
(***************************************************************************)
EXTENDS FrontEnd, LexerProofs, TLAPS

-----------------------------------------------------------------------------
(* Sequences of items. *)

\* The items s, of the set S, lead from what a says to what b says: R relates
\* an item, what is known before it and what is known after it.
Leads(S, R, s, a, b) ==
    /\ s \in Seq(S)
    /\ \E q : /\ q[1] = a /\ q[Len(s) + 1] = b
              /\ \A i \in 1..Len(s) : <<s[i], q[i], q[i + 1]>> \in R

\* What the head and the tail of a sequence are.
LEMMA HeadTail ==
    ASSUME NEW S, NEW t \in Seq(S), t # <<>>
    PROVE  /\ Head(t) \in S /\ Tail(t) \in Seq(S) /\ Head(t) = t[1]
           /\ Len(t) \in Nat \ {0} /\ Len(Tail(t)) = Len(t) - 1
           /\ \A i \in 1..(Len(t) - 1) : Tail(t)[i] = t[i + 1]
  <1>1. Head(t) \in S /\ Tail(t) \in Seq(S)
    BY HeadTailProperties
  <1>2. Len(t) \in Nat \ {0} /\ Len(Tail(t)) = Len(t) - 1 /\ Head(t) = t[1]
    BY LenProperties, HeadTailProperties, EmptySeq
  <1>3. \A i \in 1..(Len(t) - 1) : Tail(t)[i] = t[i + 1]
    BY <1>2, HeadTailProperties
  <1> QED
    BY <1>1, <1>2, <1>3

\* Items that need no more than a and leave it as it is.
LEMMA LeadsUniform ==
    ASSUME NEW S, NEW R, NEW s \in Seq(S), NEW a,
           \A i \in 1..Len(s) : <<s[i], a, a>> \in R
    PROVE  Leads(S, R, s, a, a)
  <1> DEFINE q == [i \in 1..(Len(s) + 1) |-> a]
  <1>1. Len(s) \in Nat
    BY LenProperties
  <1>2. /\ \A i \in 1..Len(s) : q[i] = a /\ q[i + 1] = a
        /\ q[1] = a /\ q[Len(s) + 1] = a
    BY <1>1
  <1> HIDE DEF q
  <1> QED
    BY <1>2 DEF Leads

\* No item.
LEMMA LeadsEmpty ==
    ASSUME NEW S, NEW R, NEW a
    PROVE  Leads(S, R, <<>>, a, a)
  <1> DEFINE s == <<>>
  <1>1. s \in Seq(S) /\ Len(s) = 0
    BY EmptySeq
  <1> HIDE DEF s
  <1>2. \A i \in 1..Len(s) : <<s[i], a, a>> \in R
    BY <1>1
  <1>3. Leads(S, R, s, a, a)
    BY <1>1, <1>2, LeadsUniform
  <1> QED
    BY <1>3 DEF s

\* One item.
LEMMA LeadsOne ==
    ASSUME NEW S, NEW R, NEW x \in S, NEW a, NEW b, <<x, a, b>> \in R
    PROVE  Leads(S, R, <<x>>, a, b)
  <1> DEFINE q == <<a, b>>
             s == <<x>>
  <1>1. s \in Seq(S) /\ Len(s) = 1 /\ s[1] = x /\ q[1] = a /\ q[1 + 1] = b
    OBVIOUS
  <1> HIDE DEF q, s
  <1>2. \A i \in 1..Len(s) : <<s[i], q[i], q[i + 1]>> \in R
    BY <1>1
  <1>3. q[Len(s) + 1] = b
    BY <1>1
  <1> QED
    BY <1>1, <1>2, <1>3 DEF Leads, s

\* Items before others.
LEMMA LeadsConcat ==
    ASSUME NEW S, NEW R, NEW s, NEW t, NEW a, NEW b, NEW c,
           Leads(S, R, s, a, b), Leads(S, R, t, b, c)
    PROVE  Leads(S, R, s \o t, a, c)
  <1>1. s \in Seq(S) /\ t \in Seq(S)
    BY DEF Leads
  <1>2. PICK p : /\ p[1] = a /\ p[Len(s) + 1] = b
                 /\ \A i \in 1..Len(s) : <<s[i], p[i], p[i + 1]>> \in R
    BY DEF Leads
  <1>3. PICK q : /\ q[1] = b /\ q[Len(t) + 1] = c
                 /\ \A i \in 1..Len(t) : <<t[i], q[i], q[i + 1]>> \in R
    BY DEF Leads
  <1> DEFINE n == Len(s)
             m == Len(t)
             u == s \o t
             r == [i \in 1..(n + m + 1) |-> IF i <= n THEN p[i] ELSE q[i - n]]
  <1>4. /\ n \in Nat /\ m \in Nat /\ u \in Seq(S) /\ Len(u) = n + m
        /\ \A i \in 1..(n + m) : u[i] = IF i <= n THEN s[i] ELSE t[i - n]
    BY <1>1, ConcatProperties, LenProperties
  <1>5. p[n + 1] = b /\ \A i \in 1..n : <<s[i], p[i], p[i + 1]>> \in R
    BY <1>2
  <1>6. q[m + 1] = c /\ \A i \in 1..m : <<t[i], q[i], q[i + 1]>> \in R
    BY <1>3
  <1> HIDE DEF n, m, u
  <1>7. /\ \A i \in 1..n : r[i] = p[i]
        /\ \A j \in 1..(m + 1) : r[n + j] = q[j]
    BY <1>4
  <1> HIDE DEF r
  <1>8. r[n + 1] = b
    BY <1>3, <1>4, <1>7
  <1>9. \A i \in 1..n : r[i + 1] = p[i + 1]
    <2> SUFFICES ASSUME NEW i \in 1..n PROVE r[i + 1] = p[i + 1]
      OBVIOUS
    <2>1. i + 1 \in 1..n \/ i = n
      BY <1>4
    <2> QED
      BY <1>5, <1>7, <1>8, <2>1
  <1>10. ASSUME NEW i \in 1..Len(u) PROVE <<u[i], r[i], r[i + 1]>> \in R
    <2>1. CASE i <= n
      <3>1. i \in 1..n
        BY <1>4, <2>1
      <3>2. u[i] = s[i] /\ r[i] = p[i] /\ r[i + 1] = p[i + 1]
        BY <1>4, <1>7, <1>9, <2>1, <3>1
      <3> QED
        BY <1>5, <3>1, <3>2
    <2>2. CASE ~(i <= n)
      <3> DEFINE j == i - n
      <3>1. j \in 1..m /\ i = n + j /\ i + 1 = n + (j + 1) /\ j + 1 \in 1..(m + 1)
            /\ j \in 1..(m + 1)
        BY <1>4, <2>2
      <3>2. u[i] = t[j]
        BY <1>4, <2>2
      <3> HIDE DEF j
      <3>3. r[i] = q[j] /\ r[i + 1] = q[j + 1]
        BY <1>7, <3>1
      <3> QED
        BY <1>6, <3>1, <3>2, <3>3
    <2> QED
      BY <2>1, <2>2
  <1>11. r[1] = a
    <2>1. CASE n = 0
      BY <1>2, <1>5, <1>8, <2>1
    <2>2. CASE n # 0
      BY <1>2, <1>4, <1>7, <2>2
    <2> QED
      BY <2>1, <2>2
  <1>12. r[Len(u) + 1] = c
    <2>1. m + 1 \in 1..(m + 1) /\ Len(u) + 1 = n + (m + 1)
      BY <1>4
    <2> QED
      BY <1>6, <1>7, <2>1
  <1> QED
    BY <1>4, <1>10, <1>11, <1>12 DEF Leads, u

\* Two items.
LEMMA LeadsTwo ==
    ASSUME NEW S, NEW R, NEW x \in S, NEW y \in S, NEW a, NEW b, NEW c,
           <<x, a, b>> \in R, <<y, b, c>> \in R
    PROVE  Leads(S, R, <<x, y>>, a, c)
  <1>1. Leads(S, R, <<x>>, a, b) /\ Leads(S, R, <<y>>, b, c)
    BY LeadsOne
  <1>2. Leads(S, R, <<x>> \o <<y>>, a, c)
    BY <1>1, LeadsConcat
  <1>3. <<x>> \o <<y>> = <<x, y>>
    <2> DEFINE s == <<x>>
               t == <<y>>
               u == <<x, y>>
    <2>1. /\ s \in Seq(S) /\ t \in Seq(S) /\ Len(s) = 1 /\ Len(t) = 1
          /\ s[1] = x /\ t[1] = y
      OBVIOUS
    <2>2. u \in Seq(S) /\ Len(u) = 2 /\ u[1] = x /\ u[2] = y
      OBVIOUS
    <2> HIDE DEF s, t, u
    <2>3. /\ s \o t \in Seq(S) /\ Len(s \o t) = 1 + 1
          /\ \A i \in 1..(1 + 1) : (s \o t)[i] = IF i <= 1 THEN s[i] ELSE t[i - 1]
      BY <2>1, ConcatProperties
    <2>4. (s \o t)[1] = x /\ (s \o t)[2] = y
      BY <2>1, <2>3
    <2>5. \A i \in 1..Len(s \o t) : (s \o t)[i] = u[i]
      BY <2>2, <2>3, <2>4
    <2>6. s \o t = u
      BY <2>2, <2>3, <2>5, SeqEqual
    <2> QED
      BY <2>6 DEF s, t, u
  <1> QED
    BY <1>2, <1>3

\* Three items.
LEMMA LeadsThree ==
    ASSUME NEW S, NEW R, NEW x \in S, NEW y \in S, NEW z \in S, NEW a, NEW b, NEW c, NEW d,
           <<x, a, b>> \in R, <<y, b, c>> \in R, <<z, c, d>> \in R
    PROVE  Leads(S, R, <<x, y, z>>, a, d)
  <1> DEFINE s == <<x>>
             t == <<y, z>>
             u == <<x, y, z>>
  <1>1. Leads(S, R, s, a, b) /\ Leads(S, R, t, b, d)
    BY LeadsOne, LeadsTwo
  <1>2. /\ s \in Seq(S) /\ t \in Seq(S) /\ Len(s) = 1 /\ Len(t) = 2
        /\ s[1] = x /\ t[1] = y /\ t[2] = z
    OBVIOUS
  <1>3. u \in Seq(S) /\ Len(u) = 3 /\ u[1] = x /\ u[2] = y /\ u[3] = z
    OBVIOUS
  <1> HIDE DEF s, t, u
  <1> DEFINE v == s \o t
  <1>4. /\ v \in Seq(S) /\ Len(v) = Len(s) + Len(t)
        /\ \A i \in 1..(Len(s) + Len(t)) : v[i] = IF i <= Len(s) THEN s[i] ELSE t[i - Len(s)]
    BY <1>2, ConcatProperties
  <1> HIDE DEF v
  <1>5. Len(v) = 3 /\ v[1] = x /\ v[2] = y /\ v[3] = z
    BY <1>2, <1>4
  <1>6. Len(v) = Len(u) /\ \A i \in 1..Len(v) : v[i] = u[i]
    BY <1>3, <1>5
  <1>7. s \o t = u
    BY <1>3, <1>4, <1>6, SeqEqual DEF v
  <1>8. Leads(S, R, s \o t, a, d)
    BY <1>1, LeadsConcat
  <1> QED
    BY <1>7, <1>8 DEF u

\* The first item is worked off.
LEMMA LeadsTail ==
    ASSUME NEW S, NEW R, NEW t, t # <<>>, NEW a, NEW c, Leads(S, R, t, a, c)
    PROVE  \E b : <<Head(t), a, b>> \in R /\ Leads(S, R, Tail(t), b, c)
  <1>1. PICK q : /\ q[1] = a /\ q[Len(t) + 1] = c
                 /\ \A i \in 1..Len(t) : <<t[i], q[i], q[i + 1]>> \in R
    BY DEF Leads
  <1> DEFINE s == Tail(t)
             n == Len(t)
             r == [i \in 1..n |-> q[i + 1]]
  <1>2. t \in Seq(S)
    BY DEF Leads
  <1>3. /\ n \in Nat \ {0} /\ Len(s) = n - 1 /\ Head(t) = t[1] /\ s \in Seq(S)
        /\ \A i \in 1..(n - 1) : s[i] = t[i + 1]
    BY <1>2, HeadTail
  <1>4. r[1] = q[2] /\ \A i \in 1..(n - 1) : r[i] = q[i + 1] /\ r[i + 1] = q[i + 1 + 1]
    BY <1>3
  <1>5. <<Head(t), a, q[2]>> \in R
    BY <1>1, <1>3
  <1>6. r[n] = q[n + 1]
    BY <1>3
  <1>7. q[n + 1] = c /\ \A i \in 1..n : <<t[i], q[i], q[i + 1]>> \in R
    BY <1>1
  <1> HIDE DEF s, r, n
  <1>8. ASSUME NEW i \in 1..Len(s) PROVE <<s[i], r[i], r[i + 1]>> \in R
    <2>1. i + 1 \in 1..n /\ i \in 1..(n - 1)
      BY <1>3
    <2> QED
      BY <1>3, <1>4, <1>7, <2>1
  <1>9. Len(s) + 1 = n
    BY <1>3
  <1>10. Leads(S, R, s, q[2], c)
    BY <1>3, <1>4, <1>6, <1>7, <1>8, <1>9 DEF Leads
  <1> QED
    BY <1>5, <1>10 DEF s

\* Knowing more than is needed does no harm.
LEMMA LeadsStronger ==
    ASSUME NEW S, NEW R, NEW t, NEW a, NEW b, NEW c, Leads(S, R, t, b, c),
           \A x \in S : \A d : <<x, b, d>> \in R => <<x, a, d>> \in R
    PROVE  \/ t = <<>> /\ b = c
           \/ Leads(S, R, t, a, c)
  <1>1. PICK q : /\ q[1] = b /\ q[Len(t) + 1] = c
                 /\ \A i \in 1..Len(t) : <<t[i], q[i], q[i + 1]>> \in R
    BY DEF Leads
  <1> DEFINE n == Len(t)
             r == [i \in 1..(n + 1) |-> IF i = 1 THEN a ELSE q[i]]
  <1>2. t \in Seq(S) /\ n \in Nat
    BY LenProperties DEF Leads
  <1>3. CASE n = 0
    <2>1. t = <<>>
      BY <1>2, <1>3, EmptySeq
    <2> QED
      BY <1>1, <1>3, <2>1
  <1>4. CASE n # 0
    <2>1. /\ r[1] = a /\ \A i \in 1..n : r[i + 1] = q[i + 1]
          /\ \A i \in 1..n : i # 1 => r[i] = q[i]
      BY <1>2
    <2>2. q[n + 1] = c /\ \A i \in 1..n : <<t[i], q[i], q[i + 1]>> \in R
      BY <1>1
    <2>3. \A i \in 1..n : t[i] \in S
      BY <1>2, ElementOfSeq
    <2> HIDE DEF n, r
    <2>4. ASSUME NEW i \in 1..n PROVE <<t[i], r[i], r[i + 1]>> \in R
      <3>1. CASE i = 1
        BY <1>1, <2>1, <2>2, <2>3, <3>1
      <3>2. CASE i # 1
        BY <2>1, <2>2, <3>2
      <3> QED
        BY <3>1, <3>2
    <2>5. n \in 1..n
      BY <1>2, <1>4
    <2>6. r[n + 1] = c
      BY <2>1, <2>2, <2>5
    <2> QED
      BY <1>2, <2>1, <2>4, <2>6 DEF Leads, n
  <1> QED
    BY <1>3, <1>4

\* Nor does a relation that allows more.
LEMMA LeadsMore ==
    ASSUME NEW S, NEW Q, NEW R, Q \subseteq R, NEW t, NEW a, NEW b, Leads(S, Q, t, a, b)
    PROVE  Leads(S, R, t, a, b)
  BY DEF Leads

-----------------------------------------------------------------------------
(* The items of the parser. *)

Contexts == {"cond", "bracket", "plain"}

\* The token kinds that the parser asks for by name.
Kinds ==
    TypeKeywords \cup Literals \cup UnaryOps
    \cup {"FN", "EXTERN", "EXPORT", "STRUCT", "VAR", "IF", "ELSE", "WHILE", "RETURN", "BREAK",
          "CONTINUE", "IDENT", "ASSIGN", "DOT", "COMMA", "SEMI", "COLON", "ARROW", "LPAREN",
          "RPAREN", "LBRACK", "RBRACK", "LBRACE", "RBRACE", "OROR", "ANDAND", "EQ", "NEQ",
          "LT", "LE", "GT", "GE", "PLUS", "SLASH", "PERCENT", "AS"}
Roots == {"none", "Lit", "Ident", "Paren", "StructLit", "Call", "Index", "Field", "Deref",
          "Unary", "Cast", "Binary"}

\* Items with more to them than a name; the rest are words.
Special == {"expr", "infix", "primary", "name", "postfix", "restore", "node", "binary"}
Words == (Calls \cup Kinds \cup Tokens) \ Special
ParserItems ==
    [do : Words]
    \cup [do : {"expr", "infix"}, bp : 1..8, in : Contexts]
    \cup [do : {"primary", "name", "postfix"}, in : Contexts]
    \cup [do : {"restore"}, saved : BOOLEAN]
    \cup [do : {"node"}, root : Roots]
    \cup [do : {"binary"}, bp : 1..7]

\* Calls that are made only where struct literals are allowed.
Unrestricted ==
    {"block", "stmts", "stmt", "if", "else", "elseBranch", "file", "varDecl", "init", "returned",
     "simple", "args", "moreArgs", "inits", "moreInits"}
Finishers == {"cast", "unary", "deref"}

\* What is known between two items: noStructLit, and bounds on the power of the
\* expression returned last, from below, and on that of the current token as an
\* infix operator, from above.
Known == [flag : BOOLEAN, low : 0..9, high : 0..7]
About(flag, low, high) == [flag |-> flag, low |-> low, high |-> high]
Nothing(flag) == About(flag, 0, 7)
Stronger(a, b) == a.flag = b.flag /\ b.low <= a.low /\ a.high <= b.high

ParserNeeds(x, a) ==
    /\ x.do \in {"expr", "infix", "primary", "name", "postfix"} => a.flag = (x.in = "cond")
    /\ x.do \in Unrestricted => a.flag = FALSE
    /\ x.do = "infix" => x.bp <= a.low /\ a.high <= a.low
    /\ x.do = "binary" => x.bp < a.low /\ a.high <= x.bp
    /\ x.do \in {"unary", "deref"} => 8 <= a.low
    /\ x.do = "postfix" => 9 <= a.low

ParserLeaves(x, a) ==
    About(IF x.do = "restore" THEN x.saved ELSE a.flag,
          IF x.do \in {"expr", "infix", "binary"} THEN x.bp
          ELSE IF x.do \in {"primary", "name", "postfix", "node"} THEN 9
          ELSE IF x.do \in {"unary", "deref"} THEN 8
          ELSE IF x.do = "cast" THEN 7
          ELSE IF x.do \in Calls \ {"restore"} THEN 0
          ELSE a.low,
          IF x.do \in {"expr", "infix"} THEN x.bp - 1
          ELSE IF x.do \in {"restore", "node", "binary", "unary", "deref", "cast"} THEN a.high
          ELSE 7)

ParserSteps ==
    {w \in ParserItems \X Known \X Known :
        ParserNeeds(w[1], w[2]) /\ Stronger(ParserLeaves(w[1], w[2]), w[3])}

ParserLeads(s, a, b) == Leads(ParserItems, ParserSteps, s, a, b)

\* The invariant of the parser.
ParserState(flag, expr, token) == About(flag, expr.bp, InfixBP(token))
ParserOK(items, flag, expr, token) ==
    /\ flag \in BOOLEAN /\ expr \in [root : Roots, bp : 0..9]
    /\ \E c : ParserLeads(items, ParserState(flag, expr, token), c)

\* infixBP is a table of seven levels.
LEMMA Levels == \A k : InfixBP(k) \in 0..7
  BY DEF InfixBP

\* What is known of an item by its name.
LEMMA ItemParts ==
    ASSUME NEW x \in ParserItems
    PROVE  /\ x.do \in {"expr", "infix"} => x.bp \in 1..8 /\ x.in \in Contexts
           /\ x.do \in {"primary", "name", "postfix"} => x.in \in Contexts
           /\ x.do = "restore" => x.saved \in BOOLEAN
           /\ x.do = "node" => x.root \in Roots
           /\ x.do = "binary" => x.bp \in 1..7
  <1>1. CASE x \in [do : Words]
    <2>1. x.do \notin Special
      BY <1>1 DEF Words
    <2> QED
      BY <2>1 DEF Special
  <1>2. CASE x \in [do : {"expr", "infix"}, bp : 1..8, in : Contexts]
    <2>1. x.do \in {"expr", "infix"} /\ x.bp \in 1..8 /\ x.in \in Contexts
      BY <1>2
    <2> QED
      BY <2>1
  <1>3. CASE x \in [do : {"primary", "name", "postfix"}, in : Contexts]
    <2>1. x.do \in {"primary", "name", "postfix"} /\ x.in \in Contexts
      BY <1>3
    <2> QED
      BY <2>1
  <1>4. CASE x \in [do : {"restore"}, saved : BOOLEAN]
    <2>1. x.do = "restore" /\ x.saved \in BOOLEAN
      BY <1>4
    <2> QED
      BY <2>1
  <1>5. CASE x \in [do : {"node"}, root : Roots]
    <2>1. x.do = "node" /\ x.root \in Roots
      BY <1>5
    <2> QED
      BY <2>1
  <1>6. CASE x \in [do : {"binary"}, bp : 1..7]
    <2>1. x.do = "binary" /\ x.bp \in 1..7
      BY <1>6
    <2> QED
      BY <2>1
  <1> QED
    BY <1>1, <1>2, <1>3, <1>4, <1>5, <1>6 DEF ParserItems

\* What is known stays of its type.
LEMMA LeavesKnown ==
    ASSUME NEW x \in ParserItems, NEW a \in Known
    PROVE  ParserLeaves(x, a) \in Known
  <1>1. a.flag \in BOOLEAN /\ a.low \in 0..9 /\ a.high \in 0..7
    BY DEF Known
  <1>2. /\ x.do \in {"expr", "infix"} => x.bp \in 1..8
        /\ x.do = "binary" => x.bp \in 1..7
        /\ x.do = "restore" => x.saved \in BOOLEAN
    BY ItemParts
  <1> DEFINE b == ParserLeaves(x, a)
  <1>3. /\ b.flag = IF x.do = "restore" THEN x.saved ELSE a.flag
        /\ b.low = IF x.do \in {"expr", "infix", "binary"} THEN x.bp
                   ELSE IF x.do \in {"primary", "name", "postfix", "node"} THEN 9
                   ELSE IF x.do \in {"unary", "deref"} THEN 8
                   ELSE IF x.do = "cast" THEN 7
                   ELSE IF x.do \in Calls \ {"restore"} THEN 0
                   ELSE a.low
        /\ b.high = IF x.do \in {"expr", "infix"} THEN x.bp - 1
                    ELSE IF x.do \in {"restore", "node", "binary", "unary", "deref", "cast"} THEN a.high
                    ELSE 7
        /\ b = About(b.flag, b.low, b.high)
    BY DEF ParserLeaves, About
  <1> HIDE DEF b
  <1>4. b.flag \in BOOLEAN
    BY <1>1, <1>2, <1>3
  <1>5. b.low \in 0..9
    BY <1>1, <1>2, <1>3
  <1>6. b.high \in 0..7
    BY <1>1, <1>2, <1>3
  <1>7. b \in Known
    BY <1>3, <1>4, <1>5, <1>6 DEF About, Known
  <1> QED
    BY <1>7 DEF b

\* A step of the relation.
LEMMA ParserStep ==
    ASSUME NEW x \in ParserItems, NEW a \in Known, NEW b \in Known
    PROVE  <<x, a, b>> \in ParserSteps <=> ParserNeeds(x, a) /\ Stronger(ParserLeaves(x, a), b)
  BY DEF ParserSteps

\* Whatever an item needs, more will do, and leaves more.
LEMMA StrongerSteps ==
    ASSUME NEW a \in Known, NEW b \in Known, Stronger(a, b),
           NEW x \in ParserItems, NEW d, <<x, b, d>> \in ParserSteps
    PROVE  <<x, a, d>> \in ParserSteps
  <1>1. d \in Known /\ ParserNeeds(x, b) /\ Stronger(ParserLeaves(x, b), d)
    BY DEF ParserSteps
  <1>2. /\ a.flag = b.flag /\ b.low <= a.low /\ a.high <= b.high
        /\ a.low \in 0..9 /\ a.high \in 0..7 /\ b.low \in 0..9 /\ b.high \in 0..7
    BY DEF Stronger, Known
  <1>3. ParserNeeds(x, a)
    <2>1. x.do = "infix" => x.bp \in 1..8
      BY ItemParts
    <2>2. x.do = "binary" => x.bp \in 1..7
      BY ItemParts
    <2> QED
      BY <1>1, <1>2, <2>1, <2>2 DEF ParserNeeds
  <1>4. Stronger(ParserLeaves(x, a), ParserLeaves(x, b))
    <2>1. /\ x.do \in {"expr", "infix"} => x.bp \in 1..8
          /\ x.do = "binary" => x.bp \in 1..7
      BY ItemParts
    <2>2. ParserLeaves(x, a).flag = ParserLeaves(x, b).flag
      BY <1>2 DEF ParserLeaves, About
    <2>3. ParserLeaves(x, b).low <= ParserLeaves(x, a).low
      BY <1>2, <2>1 DEF ParserLeaves, About
    <2>4. ParserLeaves(x, a).high <= ParserLeaves(x, b).high
      BY <1>2, <2>1 DEF ParserLeaves, About
    <2> QED
      BY <2>2, <2>3, <2>4 DEF Stronger
  <1>5. Stronger(ParserLeaves(x, a), d)
    <2>1. ParserLeaves(x, a) \in Known /\ ParserLeaves(x, b) \in Known
      BY LeavesKnown
    <2> HIDE DEF ParserLeaves
    <2> QED
      BY <1>1, <1>4, <2>1 DEF Stronger, Known
  <1> QED
    BY <1>1, <1>3, <1>5, ParserStep

\* What is to be done is fine if it is after less is known.
LEMMA ParserWeaken ==
    ASSUME NEW a \in Known, NEW b \in Known, Stronger(a, b),
           NEW s, NEW c, ParserLeads(s, b, c)
    PROVE  \E d : ParserLeads(s, a, d)
  <1>1. \A x \in ParserItems : \A d : <<x, b, d>> \in ParserSteps => <<x, a, d>> \in ParserSteps
    BY StrongerSteps
  <1>2. CASE s = <<>>
    BY <1>2, LeadsEmpty DEF ParserLeads
  <1>3. CASE s # <<>>
    BY <1>1, <1>3, LeadsStronger DEF ParserLeads
  <1> QED
    BY <1>2, <1>3

\* The item on top can be worked off, and what is left after it.
LEMMA ParserTop ==
    ASSUME NEW items, items # <<>>, NEW a \in Known, NEW c, ParserLeads(items, a, c)
    PROVE  /\ Head(items) \in ParserItems /\ ParserNeeds(Head(items), a)
           /\ ParserLeaves(Head(items), a) \in Known
           /\ \E d : ParserLeads(Tail(items), ParserLeaves(Head(items), a), d)
  <1> DEFINE x == Head(items)
             r == Tail(items)
  <1>1. PICK b : <<x, a, b>> \in ParserSteps /\ ParserLeads(r, b, c)
    BY LeadsTail DEF ParserLeads
  <1> HIDE DEF x, r
  <1>2. x \in ParserItems /\ b \in Known /\ ParserNeeds(x, a) /\ Stronger(ParserLeaves(x, a), b)
    BY <1>1 DEF ParserSteps
  <1>3. ParserLeaves(x, a) \in Known
    BY <1>2, LeavesKnown
  <1>4. \E d : ParserLeads(r, ParserLeaves(x, a), d)
    BY <1>1, <1>2, <1>3, ParserWeaken
  <1> QED
    BY <1>2, <1>3, <1>4 DEF x, r

-----------------------------------------------------------------------------
(* What single items do. *)

\* Words that leave bare knowledge as it is.
Even(flag) == (Words \ Finishers) \ (IF flag THEN Unrestricted ELSE {})

\* A list of names is a list of words.
LEMMA DoWords ==
    ASSUME NEW W, W \subseteq Words, NEW names \in Seq(W)
    PROVE  /\ Do(names) \in Seq(ParserItems) /\ Len(Do(names)) = Len(names)
           /\ \A i \in 1..Len(names) : names[i] \in W /\ Do(names)[i] = [do |-> names[i]]
  <1> DEFINE n == Len(names)
             f == Do(names)
  <1>1. n \in Nat /\ DOMAIN names = 1..n /\ \A i \in 1..n : names[i] \in W
    BY LenProperties, ElementOfSeq
  <1>2. f = [i \in 1..n |-> [do |-> names[i]]]
    BY <1>1 DEF Do
  <1>3. \A i \in 1..n : [do |-> names[i]] \in ParserItems
    BY <1>1 DEF ParserItems
  <1> HIDE DEF n
  <1>4. f \in [1..n -> ParserItems] /\ \A i \in 1..n : f[i] = [do |-> names[i]]
    BY <1>2, <1>3
  <1> HIDE DEF f
  <1>5. f \in Seq(ParserItems)
    BY <1>1, <1>4, SeqDef
  <1>6. Len(f) = n
    BY <1>1, <1>4, <1>5, LenProperties
  <1> QED
    BY <1>1, <1>4, <1>5, <1>6 DEF f, n

\* What is known is of its type.
LEMMA AboutKnown ==
    ASSUME NEW flag \in BOOLEAN, NEW low \in 0..9, NEW high \in 0..7
    PROVE  /\ About(flag, low, high) \in Known
           /\ About(flag, low, high).flag = flag
           /\ About(flag, low, high).low = low /\ About(flag, low, high).high = high
  BY DEF About, Known

\* Tokens are read without an effect on the expression returned last.
LEMMA TokensLead ==
    ASSUME NEW names \in Seq(Kinds), NEW flag \in BOOLEAN, NEW low \in 0..9
    PROVE  ParserLeads(Do(names), About(flag, low, 7), About(flag, low, 7))
  <1> DEFINE a == About(flag, low, 7)
             W == Kinds
  <1>1. /\ W \cap Calls = {} /\ W \cap Special = {} /\ W \cap Finishers = {}
        /\ W \cap Unrestricted = {}
    BY DEF Kinds, TypeKeywords, Literals, UnaryOps, Calls, Special, Finishers, Unrestricted
  <1>2. a \in Known /\ a.flag = flag /\ a.low = low /\ a.high = 7
    BY AboutKnown
  <1>3. W \subseteq Words
    BY <1>1 DEF Words
  <1> HIDE DEF W
  <1>4. ASSUME NEW w \in W PROVE <<[do |-> w], a, a>> \in ParserSteps
    <2> DEFINE x == [do |-> w]
    <2>1. x.do = w /\ x \in ParserItems
      BY <1>3 DEF ParserItems
    <2>2. w \notin Calls /\ w \notin Special /\ w \notin Finishers /\ w \notin Unrestricted
      BY <1>1
    <2> HIDE DEF x, a
    <2>3. ParserNeeds(x, a)
      BY <2>1, <2>2 DEF ParserNeeds, Special, Finishers
    <2>4. ParserLeaves(x, a) = About(flag, low, 7)
      BY <1>2, <2>1, <2>2 DEF ParserLeaves, Special, Finishers
    <2>5. Stronger(ParserLeaves(x, a), a)
      BY <1>2, <2>4 DEF a, Stronger
    <2> QED
      BY <1>2, <2>1, <2>3, <2>5, ParserStep DEF x
  <1> DEFINE f == Do(names)
  <1>5. /\ f \in Seq(ParserItems) /\ Len(f) = Len(names)
        /\ \A i \in 1..Len(names) : names[i] \in W /\ f[i] = [do |-> names[i]]
    BY <1>3, DoWords DEF W
  <1> HIDE DEF f, a
  <1>6. \A i \in 1..Len(f) : <<f[i], a, a>> \in ParserSteps
    BY <1>4, <1>5
  <1>7. ParserLeads(f, a, a)
    BY <1>5, <1>6, LeadsUniform DEF ParserLeads
  <1> QED
    BY <1>7 DEF f, a

\* Declarations, statements and lists leave nothing that an expression needs.
LEMMA EvenLead ==
    ASSUME NEW flag \in BOOLEAN, NEW names \in Seq(Even(flag))
    PROVE  ParserLeads(Do(names), Nothing(flag), Nothing(flag))
  <1> DEFINE a == Nothing(flag)
             W == Even(flag)
  <1>1. /\ W \subseteq Words /\ W \cap Special = {} /\ W \cap Finishers = {}
        /\ flag = TRUE => W \cap Unrestricted = {}
    BY DEF Even, Words
  <1>2. a \in Known /\ a.flag = flag /\ a.low = 0 /\ a.high = 7
    BY AboutKnown DEF Nothing
  <1> HIDE DEF W
  <1>3. ASSUME NEW w \in W PROVE <<[do |-> w], a, a>> \in ParserSteps
    <2> DEFINE x == [do |-> w]
    <2>1. x.do = w /\ x \in ParserItems
      BY <1>1 DEF ParserItems
    <2>2. w \notin Special /\ w \notin Finishers /\ (flag = TRUE => w \notin Unrestricted)
      BY <1>1
    <2> HIDE DEF x, a
    <2>3. ParserNeeds(x, a)
      BY <1>2, <2>1, <2>2 DEF ParserNeeds, Special, Finishers
    <2>4. ParserLeaves(x, a) = About(flag, 0, 7)
      BY <1>2, <2>1, <2>2 DEF ParserLeaves, Special, Finishers
    <2>5. Stronger(ParserLeaves(x, a), a)
      BY <1>2, <2>4 DEF a, Stronger, Nothing
    <2> QED
      BY <1>2, <2>1, <2>3, <2>5, ParserStep DEF x
  <1> DEFINE f == Do(names)
  <1>4. /\ f \in Seq(ParserItems) /\ Len(f) = Len(names)
        /\ \A i \in 1..Len(names) : names[i] \in W /\ f[i] = [do |-> names[i]]
    BY <1>1, DoWords DEF W
  <1> HIDE DEF f, a
  <1>5. \A i \in 1..Len(f) : <<f[i], a, a>> \in ParserSteps
    BY <1>3, <1>4
  <1>6. ParserLeads(f, a, a)
    BY <1>4, <1>5, LeadsUniform DEF ParserLeads
  <1> QED
    BY <1>6 DEF f, a

\* An expression, where it is allowed, is known by its power.
LEMMA ExprLeads ==
    ASSUME NEW bp \in 1..8, NEW in \in Contexts, NEW low \in 0..9, NEW high \in 0..7,
           NEW flag \in BOOLEAN, flag = (in = "cond")
    PROVE  /\ Expr(bp, in) \in ParserItems
           /\ <<Expr(bp, in), About(flag, low, high), About(flag, bp, bp - 1)>>
                \in ParserSteps
           /\ <<Expr(bp, in), About(flag, low, high), Nothing(flag)>>
                \in ParserSteps
  <1> DEFINE x == Expr(bp, in)
             a == About(flag, low, high)
             b == About(flag, bp, bp - 1)
  <1>0. flag \in BOOLEAN
    OBVIOUS
  <1>1. x \in ParserItems /\ x.do = "expr" /\ x.bp = bp /\ x.in = in
    BY DEF ParserItems, Expr
  <1>2. a \in Known /\ a.flag = flag
    BY ONLY <1>0, low \in 0..9, high \in 0..7, AboutKnown
  <1>3. b \in Known /\ b.flag = flag /\ b.low = bp /\ b.high = bp - 1
    <2>1. bp \in 0..9 /\ bp - 1 \in 0..7
      OBVIOUS
    <2> QED
      BY ONLY <1>0, <2>1, AboutKnown
  <1>4. Nothing(flag) \in Known /\ Nothing(flag).flag = flag /\ Nothing(flag).low = 0
        /\ Nothing(flag).high = 7
    <2>1. 0 \in 0..9 /\ 7 \in 0..7
      OBVIOUS
    <2> QED
      BY ONLY <1>0, <2>1, AboutKnown DEF Nothing
  <1>5. ParserNeeds(x, a)
    BY <1>1, <1>2 DEF ParserNeeds, Unrestricted
  <1>6. ParserLeaves(x, a) = b
    BY <1>1, <1>2 DEF ParserLeaves
  <1> HIDE DEF x, a, b
  <1>7. Stronger(b, b) /\ Stronger(b, Nothing(flag))
    BY <1>3, <1>4 DEF Stronger, Known
  <1> QED
    BY <1>1, <1>2, <1>3, <1>4, <1>5, <1>6, <1>7, ParserStep DEF x, a, b

\* A step that leaves exactly what the item says.
LEMMA ExactStep ==
    ASSUME NEW x \in ParserItems, NEW a \in Known, NEW b \in Known,
           ParserNeeds(x, a), ParserLeaves(x, a) = b
    PROVE  <<x, a, b>> \in ParserSteps
  <1>1. Stronger(b, b)
    BY DEF Stronger, Known
  <1> QED
    BY <1>1, ParserStep

\* The loop over infix operators ends with the power it began with.
LEMMA InfixLeads ==
    ASSUME NEW x \in ParserItems, x.do = "infix",
           NEW flag \in BOOLEAN, flag = (x.in = "cond"),
           NEW low \in 0..9, NEW high \in 0..7, x.bp <= low, high <= low
    PROVE  <<x, About(flag, low, high), About(flag, x.bp, x.bp - 1)>> \in ParserSteps
  <1> DEFINE a == About(flag, low, high)
             b == About(flag, x.bp, x.bp - 1)
  <1>1. flag \in BOOLEAN /\ x.bp \in 0..9 /\ x.bp - 1 \in 0..7
    BY ItemParts
  <1>2. a \in Known /\ a.flag = flag /\ a.low = low /\ a.high = high /\ b \in Known
    BY ONLY <1>1, low \in 0..9, high \in 0..7, AboutKnown
  <1>3. ParserNeeds(x, a)
    BY <1>2 DEF ParserNeeds, Unrestricted
  <1>4. ParserLeaves(x, a) = b
    BY <1>2 DEF ParserLeaves
  <1> QED
    BY <1>2, <1>3, <1>4, ExactStep

\* What is read of a primary or postfix expression binds tightest.
LEMMA OperandLeads ==
    ASSUME NEW x \in ParserItems, x.do \in {"primary", "name", "postfix"},
           NEW flag \in BOOLEAN, flag = (x.in = "cond"),
           NEW low \in 0..9, NEW high \in 0..7, x.do = "postfix" => low = 9
    PROVE  <<x, About(flag, low, high), About(flag, 9, 7)>> \in ParserSteps
  <1> DEFINE a == About(flag, low, high)
             b == About(flag, 9, 7)
  <1>1. flag \in BOOLEAN /\ 9 \in 0..9 /\ 7 \in 0..7
    OBVIOUS
  <1>2. a \in Known /\ a.flag = flag /\ a.low = low /\ a.high = high /\ b \in Known
    BY ONLY <1>1, low \in 0..9, high \in 0..7, AboutKnown
  <1>3. ParserNeeds(x, a)
    BY <1>2 DEF ParserNeeds, Unrestricted
  <1>4. ParserLeaves(x, a) = b
    BY <1>2 DEF ParserLeaves
  <1> QED
    BY <1>2, <1>3, <1>4, ExactStep

\* The flag comes back; the expression is still the one returned last.
LEMMA RestoreLeads ==
    ASSUME NEW flag \in BOOLEAN, NEW saved \in BOOLEAN, NEW low \in 0..9, NEW high \in 0..7
    PROVE  /\ [do |-> "restore", saved |-> saved] \in ParserItems
           /\ <<[do |-> "restore", saved |-> saved], About(flag, low, high), About(saved, low, high)>>
                \in ParserSteps
  <1> DEFINE x == [do |-> "restore", saved |-> saved]
             a == About(flag, low, high)
             b == About(saved, low, high)
  <1>1. x \in ParserItems /\ x.do = "restore" /\ x.saved = saved
    BY DEF ParserItems
  <1>2. a \in Known /\ a.flag = flag /\ a.low = low /\ a.high = high /\ b \in Known
    BY AboutKnown
  <1> HIDE DEF x
  <1>3. ParserNeeds(x, a)
    BY <1>1, <1>2 DEF ParserNeeds, Unrestricted
  <1>4. ParserLeaves(x, a) = b
    BY <1>1, <1>2 DEF ParserLeaves
  <1>5. <<x, a, b>> \in ParserSteps
    BY <1>1, <1>2, <1>3, <1>4, ExactStep
  <1> QED
    BY <1>1, <1>5 DEF x

\* A primary or postfix expression is returned.
LEMMA NodeLeads ==
    ASSUME NEW root \in Roots, NEW flag \in BOOLEAN, NEW low \in 0..9, NEW high \in 0..7
    PROVE  /\ Node(root) \in ParserItems
           /\ <<Node(root), About(flag, low, high), About(flag, 9, high)>> \in ParserSteps
  <1> DEFINE x == Node(root)
             a == About(flag, low, high)
             b == About(flag, 9, high)
  <1>1. x \in ParserItems /\ x.do = "node"
    BY DEF ParserItems, Node
  <1>2. a \in Known /\ a.flag = flag /\ a.low = low /\ a.high = high /\ b \in Known
    <2>1. 9 \in 0..9
      OBVIOUS
    <2> QED
      BY <2>1, AboutKnown
  <1> HIDE DEF x
  <1>3. ParserNeeds(x, a)
    BY <1>1, <1>2 DEF ParserNeeds, Unrestricted
  <1>4. ParserLeaves(x, a) = b
    BY <1>1, <1>2 DEF ParserLeaves
  <1>5. <<x, a, b>> \in ParserSteps
    BY <1>1, <1>2, <1>3, <1>4, ExactStep
  <1> QED
    BY <1>1, <1>5 DEF x

\* So is a binary one, whose power is that of its operator.
LEMMA BinaryLeads ==
    ASSUME NEW bp \in 1..7, NEW flag \in BOOLEAN, NEW low \in 0..9, NEW high \in 0..7,
           bp < low, high <= bp
    PROVE  /\ [do |-> "binary", bp |-> bp] \in ParserItems
           /\ <<[do |-> "binary", bp |-> bp], About(flag, low, high), About(flag, bp, high)>>
                \in ParserSteps
  <1> DEFINE x == [do |-> "binary", bp |-> bp]
             a == About(flag, low, high)
             b == About(flag, bp, high)
  <1>1. x \in ParserItems /\ x.do = "binary" /\ x.bp = bp
    BY DEF ParserItems
  <1>2. a \in Known /\ a.flag = flag /\ a.low = low /\ a.high = high /\ b \in Known
    <2>1. bp \in 0..9
      OBVIOUS
    <2> QED
      BY <2>1, AboutKnown
  <1> HIDE DEF x
  <1>3. ParserNeeds(x, a)
    BY <1>1, <1>2 DEF ParserNeeds, Unrestricted
  <1>4. ParserLeaves(x, a) = b
    BY <1>1, <1>2 DEF ParserLeaves
  <1>5. <<x, a, b>> \in ParserSteps
    BY <1>1, <1>2, <1>3, <1>4, ExactStep
  <1> QED
    BY <1>1, <1>5 DEF x

\* And one of a prefix operator, or a cast.
LEMMA FinishLeads ==
    ASSUME NEW word \in Finishers, NEW flag \in BOOLEAN, NEW low \in 0..9, NEW high \in 0..7,
           word # "cast" => 8 <= low
    PROVE  /\ [do |-> word] \in ParserItems
           /\ <<[do |-> word], About(flag, low, high),
                About(flag, IF word = "cast" THEN 7 ELSE 8, high)>> \in ParserSteps
  <1> DEFINE x == [do |-> word]
             bp == IF word = "cast" THEN 7 ELSE 8
             a == About(flag, low, high)
             b == About(flag, bp, high)
  <1>1. x \in ParserItems /\ x.do = word
    BY DEF ParserItems, Words, Calls, Special, Finishers
  <1>2. a \in Known /\ a.flag = flag /\ a.low = low /\ a.high = high /\ b \in Known
    <2>1. bp \in 0..9
      OBVIOUS
    <2> HIDE DEF bp
    <2> QED
      BY <2>1, AboutKnown
  <1> HIDE DEF x
  <1>3. ParserNeeds(x, a)
    BY <1>1, <1>2 DEF ParserNeeds, Unrestricted, Finishers
  <1>4. ParserLeaves(x, a) = b
    BY <1>1, <1>2 DEF ParserLeaves, Finishers
  <1>5. <<x, a, b>> \in ParserSteps
    BY <1>1, <1>2, <1>3, <1>4, ExactStep
  <1> QED
    BY <1>1, <1>5 DEF x

-----------------------------------------------------------------------------
(* The steps of the parser. *)

\* What the invariant says of the item on top.
LEMMA ParserHead ==
    ASSUME NEW items, items # <<>>, NEW flag, NEW expr, NEW token,
           ParserOK(items, flag, expr, token)
    PROVE  /\ flag \in BOOLEAN /\ expr \in [root : Roots, bp : 0..9] /\ expr.bp \in 0..9
           /\ InfixBP(token) \in 0..7
           /\ ParserState(flag, expr, token) \in Known
           /\ Head(items) \in ParserItems
           /\ ParserNeeds(Head(items), ParserState(flag, expr, token))
           /\ ParserLeaves(Head(items), ParserState(flag, expr, token)) \in Known
           /\ \E d : ParserLeads(Tail(items),
                                 ParserLeaves(Head(items), ParserState(flag, expr, token)), d)
  <1>1. flag \in BOOLEAN /\ expr \in [root : Roots, bp : 0..9]
    BY DEF ParserOK
  <1>2. expr.bp \in 0..9
    BY <1>1
  <1>3. ParserState(flag, expr, token) \in Known
    BY <1>1, <1>2, Levels, AboutKnown DEF ParserState
  <1>4. PICK c : ParserLeads(items, ParserState(flag, expr, token), c)
    BY DEF ParserOK
  <1> QED
    BY <1>1, <1>2, <1>3, <1>4, Levels, ParserTop

\* Items before the rest, for a state of which at least a is known.
LEMMA ParserDone ==
    ASSUME NEW flag \in BOOLEAN, NEW expr \in [root : Roots, bp : 0..9], NEW token,
           NEW a \in Known, NEW b, NEW d, NEW s, NEW t,
           a.flag = flag, a.low <= expr.bp, InfixBP(token) <= a.high,
           ParserLeads(s, a, b), ParserLeads(t, b, d)
    PROVE  ParserOK(s \o t, flag, expr, token)
  <1> DEFINE now == ParserState(flag, expr, token)
  <1>1. expr.bp \in 0..9
    OBVIOUS
  <1>2. now \in Known /\ now.flag = flag /\ now.low = expr.bp /\ now.high = InfixBP(token)
    BY <1>1, Levels, AboutKnown DEF ParserState
  <1>3. Stronger(now, a)
    BY <1>2 DEF Stronger
  <1>4. ParserLeads(s \o t, a, d)
    BY LeadsConcat DEF ParserLeads
  <1> HIDE DEF now
  <1>5. \E e : ParserLeads(s \o t, now, e)
    BY <1>2, <1>3, <1>4, ParserWeaken
  <1> QED
    BY <1>5 DEF ParserOK, now

\* The rest, for a state of which at least a is known.
LEMMA ParserRest ==
    ASSUME NEW flag \in BOOLEAN, NEW expr \in [root : Roots, bp : 0..9], NEW token,
           NEW a \in Known, NEW d, NEW t,
           a.flag = flag, a.low <= expr.bp, InfixBP(token) <= a.high,
           ParserLeads(t, a, d)
    PROVE  ParserOK(t, flag, expr, token)
  <1> DEFINE now == ParserState(flag, expr, token)
  <1>1. expr.bp \in 0..9
    OBVIOUS
  <1>2. now \in Known /\ now.flag = flag /\ now.low = expr.bp /\ now.high = InfixBP(token)
    BY <1>1, Levels, AboutKnown DEF ParserState
  <1>3. Stronger(now, a)
    BY <1>2 DEF Stronger
  <1> HIDE DEF now
  <1>4. \E e : ParserLeads(t, now, e)
    BY <1>2, <1>3, ParserWeaken
  <1> QED
    BY <1>4 DEF ParserOK, now

\* Nothing is left to do.
LEMMA ParserEmpty ==
    ASSUME NEW token PROVE ParserOK(<<>>, FALSE, NoExpr, token)
  <1>1. NoExpr \in [root : Roots, bp : 0..9]
    BY DEF NoExpr, Roots
  <1> QED
    BY <1>1, LeadsEmpty DEF ParserOK, ParserLeads

\* A call of the grammar around expressions: what it makes way for leaves no
\* more behind than it does itself.
LEMMA ExpandEven ==
    ASSUME ParserOK(todo, noStructLit, ret, tok), todo # <<>>,
           Head(todo).do \in Calls \ (Special \cup Finishers),
           NEW s, ParserLeads(s, Nothing(noStructLit), Nothing(noStructLit)), Expand(s)
    PROVE  ParserOK(todo', noStructLit', ret', tok')
  <1> DEFINE x == Head(todo)
             a == ParserState(noStructLit, ret, tok)
             b == Nothing(noStructLit)
             t == Tail(todo)
  <1>1. /\ noStructLit \in BOOLEAN /\ ret \in [root : Roots, bp : 0..9] /\ ret.bp \in 0..9
        /\ a \in Known /\ InfixBP(tok) \in 0..7
    BY ParserHead
  <1>2. PICK d : ParserLeads(t, ParserLeaves(x, a), d)
    BY ParserHead
  <1>3. ParserLeaves(x, a) = b
    <2>1. a.flag = noStructLit
      BY DEF ParserState, About
    <2> HIDE DEF a
    <2> QED
      BY <2>1 DEF ParserLeaves, Nothing, Special, Finishers
  <1>4. b \in Known /\ b.flag = noStructLit /\ b.low = 0 /\ b.high = 7
    BY <1>1, AboutKnown DEF Nothing
  <1> HIDE DEF x, a, b, t
  <1>5. ParserOK(s \o t, noStructLit, ret, tok)
    <2>1. ParserLeads(s, b, b) /\ ParserLeads(t, b, d)
      BY <1>2, <1>3 DEF b
    <2>2. b.low <= ret.bp /\ InfixBP(tok) <= b.high
      BY <1>1, <1>4
    <2> QED
      BY <1>1, <1>4, <2>1, <2>2, ParserDone
  <1>6. todo' = s \o t /\ noStructLit' = noStructLit /\ ret' = ret /\ tok' = tok
    BY DEF Expand, t
  <1> QED
    BY <1>5, <1>6

\* Names only.
LEMMA ExpandDo ==
    ASSUME ParserOK(todo, noStructLit, ret, tok), todo # <<>>,
           Head(todo).do \in Calls \ (Special \cup Finishers),
           NEW names \in Seq(Even(noStructLit)), Expand(Do(names))
    PROVE  ParserOK(todo', noStructLit', ret', tok')
  <1>1. noStructLit \in BOOLEAN
    BY ParserHead
  <1>2. ParserLeads(Do(names), Nothing(noStructLit), Nothing(noStructLit))
    BY <1>1, EvenLead
  <1> QED
    BY <1>2, ExpandEven

\* Or nothing.
LEMMA ExpandNothing ==
    ASSUME ParserOK(todo, noStructLit, ret, tok), todo # <<>>,
           Head(todo).do \in Calls \ (Special \cup Finishers), Expand(<<>>)
    PROVE  ParserOK(todo', noStructLit', ret', tok')
  <1>1. ParserLeads(<<>>, Nothing(noStructLit), Nothing(noStructLit))
    BY LeadsEmpty DEF ParserLeads
  <1> QED
    BY <1>1, ExpandEven

\* An error leaves nothing to do.
LEMMA ErrorOK ==
    ASSUME ParseError
    PROVE  ParserOK(todo', noStructLit', ret', tok')
  BY ParserEmpty DEF ParseError

\* The words that are even.
LEMMA EvenWords ==
    /\ \A flag : Kinds \cup {"params", "moreParams", "fields", "result", "type", "length", "cond",
                             "value"} \subseteq Even(flag)
    /\ Unrestricted \subseteq Even(FALSE)
  BY DEF Even, Words, Kinds, TypeKeywords, Literals, UnaryOps, Calls, Special, Finishers,
         Unrestricted

\* Items of a kind that do not take a struct literal's brace for a block's.
LEMMA UnrestrictedFlag ==
    ASSUME ParserOK(todo, noStructLit, ret, tok), todo # <<>>, Head(todo).do \in Unrestricted
    PROVE  noStructLit = FALSE /\ Head(todo).do \in Calls \ (Special \cup Finishers)
  <1> DEFINE a == ParserState(noStructLit, ret, tok)
  <1>1. ParserNeeds(Head(todo), a)
    BY ParserHead
  <1>2. a.flag = noStructLit
    BY DEF ParserState, About
  <1> HIDE DEF a
  <1>3. noStructLit = FALSE
    BY <1>1, <1>2 DEF ParserNeeds
  <1>4. Unrestricted \subseteq Calls \ (Special \cup Finishers)
    BY DEF Unrestricted, Calls, Special, Finishers
  <1> QED
    BY <1>3, <1>4

\* Declarations.
LEMMA FileOK ==
    ASSUME ParserOK(todo, noStructLit, ret, tok), File
    PROVE  ParserOK(todo', noStructLit', ret', tok')
  <1>1. todo # <<>> /\ Head(todo).do = "file"
    BY DEF File, Doing
  <1>2. noStructLit = FALSE /\ Head(todo).do \in Calls \ (Special \cup Finishers)
    BY <1>1, UnrestrictedFlag DEF Unrestricted
  <1> DEFINE W == Even(FALSE)
  <1>3. {"FN", "IDENT", "LPAREN", "params", "RPAREN", "result", "block", "file", "EXTERN", "SEMI",
         "EXPORT", "STRUCT", "LBRACE", "fields", "RBRACE", "varDecl"} \subseteq W
    <2>1. {"FN", "IDENT", "LPAREN", "RPAREN", "EXTERN", "SEMI", "EXPORT", "STRUCT", "LBRACE",
           "RBRACE"} \subseteq Kinds
      BY DEF Kinds
    <2>2. {"block", "file", "varDecl"} \subseteq Unrestricted
      BY DEF Unrestricted
    <2>3. Kinds \cup {"params", "result", "fields"} \cup Unrestricted \subseteq W
      BY EvenWords
    <2> HIDE DEF W
    <2> QED
      BY <2>1, <2>2, <2>3
  <1>4. ASSUME NEW names \in Seq(W), Expand(Do(names))
        PROVE  ParserOK(todo', noStructLit', ret', tok')
    BY <1>1, <1>2, <1>4, ExpandDo
  <1> HIDE DEF W
  <1>5. Signature \in Seq(W)
    BY <1>3 DEF Signature
  <1>6. /\ <<"block", "file">> \in Seq(W) /\ <<"EXTERN">> \in Seq(W) /\ <<"EXPORT">> \in Seq(W)
        /\ <<"SEMI", "file">> \in Seq(W) /\ <<"varDecl", "file">> \in Seq(W)
        /\ <<"STRUCT", "IDENT", "LBRACE", "fields", "RBRACE", "file">> \in Seq(W)
    BY <1>3
  <1>7. \A p, q, r \in Seq(W) : p \o q \in Seq(W) /\ p \o q \o r \in Seq(W)
    BY ConcatProperties
  <1>8. CASE tok = "EOF"
    <2>1. UNCHANGED <<tok, todo, noStructLit, ret>>
      BY <1>8 DEF File
    <2> QED
      BY <2>1
  <1>9. CASE tok = "FN"
    <2>1. Expand(Do(Signature \o <<"block", "file">>))
      BY <1>9 DEF File
    <2> QED
      BY <1>4, <1>5, <1>6, <1>7, <2>1
  <1>10. CASE tok = "EXTERN"
    <2>1. Expand(Do(<<"EXTERN">> \o Signature \o <<"SEMI", "file">>))
      BY <1>10 DEF File
    <2> QED
      BY <1>4, <1>5, <1>6, <1>7, <2>1
  <1>11. CASE tok = "EXPORT"
    <2>1. Expand(Do(<<"EXPORT">> \o Signature \o <<"block", "file">>))
      BY <1>11 DEF File
    <2> QED
      BY <1>4, <1>5, <1>6, <1>7, <2>1
  <1>12. CASE tok = "STRUCT"
    <2>1. Expand(Do(<<"STRUCT", "IDENT", "LBRACE", "fields", "RBRACE", "file">>))
      BY <1>12 DEF File
    <2> QED
      BY <1>4, <1>6, <2>1
  <1>13. CASE tok = "VAR"
    <2>1. Expand(Do(<<"varDecl", "file">>))
      BY <1>13 DEF File
    <2> QED
      BY <1>4, <1>6, <2>1
  <1>14. CASE tok \notin {"EOF", "FN", "EXTERN", "EXPORT", "STRUCT", "VAR"}
    <2>1. ParseError
      BY <1>14 DEF File
    <2> QED
      BY <2>1, ErrorOK
  <1> QED
    BY <1>8, <1>9, <1>10, <1>11, <1>12, <1>13, <1>14

\* What is made of names wherever struct literals may be.
LEMMA ListsOK ==
    ASSUME ParserOK(todo, noStructLit, ret, tok),
           Params \/ Inits \/ Fields \/ Result \/ VarDecl \/ Length
    PROVE  ParserOK(todo', noStructLit', ret', tok')
  <1> DEFINE W == Even(noStructLit)
             OK == ParserOK(todo', noStructLit', ret', tok')
  <1>1. {"IDENT", "COLON", "type", "moreParams", "COMMA", "fields", "ARROW", "INT"} \subseteq W
    BY EvenWords DEF Kinds, Literals
  <1>2. ASSUME todo # <<>>, Head(todo).do \in {"params", "fields", "result", "length"}
        PROVE  Head(todo).do \in Calls \ (Special \cup Finishers)
    BY <1>2 DEF Calls, Special, Finishers
  <1>3. ASSUME todo # <<>>, Head(todo).do \in {"inits", "varDecl"}
        PROVE  /\ Head(todo).do \in Calls \ (Special \cup Finishers)
               /\ {"IDENT", "COLON", "value", "moreInits", "VAR", "type", "init", "SEMI"} \subseteq W
    <2>1. noStructLit = FALSE /\ Head(todo).do \in Calls \ (Special \cup Finishers)
      BY <1>3, UnrestrictedFlag DEF Unrestricted
    <2>2. {"IDENT", "COLON", "VAR", "SEMI"} \subseteq Kinds
      BY DEF Kinds
    <2>3. {"moreInits", "init"} \subseteq Unrestricted
      BY DEF Unrestricted
    <2>4. Kinds \cup {"value", "type"} \cup Unrestricted \subseteq W
      BY <2>1, EvenWords
    <2> HIDE DEF W
    <2> QED
      BY <2>1, <2>2, <2>3, <2>4
  <1>4. ASSUME NEW names \in Seq(W), todo # <<>>, Head(todo).do \in Calls \ (Special \cup Finishers),
               Expand(Do(names))
        PROVE  OK
    BY <1>4, ExpandDo
  <1> HIDE DEF W, OK
  <1>5. /\ <<"IDENT", "COLON", "type", "moreParams">> \in Seq(W)
        /\ <<"IDENT", "COLON", "type", "COMMA", "fields">> \in Seq(W)
        /\ <<"ARROW", "type">> \in Seq(W) /\ <<"INT">> \in Seq(W)
    BY <1>1
  <1>6. ASSUME Params PROVE OK
    <2>1. todo # <<>> /\ Head(todo).do = "params"
      BY <1>6 DEF Params, Doing
    <2>2. Expand(<<>>) \/ Expand(Do(<<"IDENT", "COLON", "type", "moreParams">>))
      BY <1>6 DEF Params
    <2> QED
      BY <1>2, <1>4, <1>5, <2>1, <2>2, ExpandNothing DEF OK
  <1>7. ASSUME Fields PROVE OK
    <2>1. todo # <<>> /\ Head(todo).do = "fields"
      BY <1>7 DEF Fields, Doing
    <2>2. Expand(<<>>) \/ Expand(Do(<<"IDENT", "COLON", "type", "COMMA", "fields">>))
      BY <1>7 DEF Fields
    <2> QED
      BY <1>2, <1>4, <1>5, <2>1, <2>2, ExpandNothing DEF OK
  <1>8. ASSUME Result PROVE OK
    <2>1. todo # <<>> /\ Head(todo).do = "result"
      BY <1>8 DEF Result, Doing
    <2>2. Expand(<<>>) \/ Expand(Do(<<"ARROW", "type">>))
      BY <1>8 DEF Result
    <2> QED
      BY <1>2, <1>4, <1>5, <2>1, <2>2, ExpandNothing DEF OK
  <1>9. ASSUME Length PROVE OK
    <2>1. todo # <<>> /\ Head(todo).do = "length"
      BY <1>9 DEF Length, Doing
    <2>2. Expand(Do(<<"INT">>)) \/ ParseError
      BY <1>9 DEF Length
    <2> QED
      BY <1>2, <1>4, <1>5, <2>1, <2>2, ErrorOK DEF OK
  <1>10. ASSUME Inits PROVE OK
    <2>1. todo # <<>> /\ Head(todo).do = "inits"
      BY <1>10 DEF Inits, Doing
    <2>2. Expand(<<>>) \/ Expand(Do(<<"IDENT", "COLON", "value", "moreInits">>))
      BY <1>10 DEF Inits
    <2>3. /\ Head(todo).do \in Calls \ (Special \cup Finishers)
          /\ {"IDENT", "COLON", "value", "moreInits"} \subseteq W
      BY <1>3, <2>1
    <2>4. <<"IDENT", "COLON", "value", "moreInits">> \in Seq(W)
      BY <2>3
    <2> QED
      BY <1>4, <2>1, <2>2, <2>3, <2>4, ExpandNothing DEF OK
  <1>11. ASSUME VarDecl PROVE OK
    <2>1. todo # <<>> /\ Head(todo).do = "varDecl"
      BY <1>11 DEF VarDecl, Doing
    <2>2. Expand(Do(<<"VAR", "IDENT", "COLON", "type", "init", "SEMI">>))
      BY <1>11 DEF VarDecl
    <2>3. /\ Head(todo).do \in Calls \ (Special \cup Finishers)
          /\ {"VAR", "IDENT", "COLON", "type", "init", "SEMI"} \subseteq W
      BY <1>3, <2>1
    <2>4. <<"VAR", "IDENT", "COLON", "type", "init", "SEMI">> \in Seq(W)
      BY <2>3
    <2> QED
      BY <1>4, <2>1, <2>2, <2>3, <2>4
  <1>12. OK
    BY <1>6, <1>7, <1>8, <1>9, <1>10, <1>11
  <1> QED
    BY <1>12 DEF OK

\* A whole expression, of any power, is even where its context is the flag's.
LEMMA ExprEven ==
    ASSUME NEW flag \in BOOLEAN, NEW in \in Contexts, flag = (in = "cond")
    PROVE  ParserLeads(<<Expr(1, in)>>, Nothing(flag), Nothing(flag))
  <1>1. 0 \in 0..9 /\ 7 \in 0..7 /\ 1 \in 1..8
    OBVIOUS
  <1>2. /\ Expr(1, in) \in ParserItems
        /\ <<Expr(1, in), About(flag, 0, 7), Nothing(flag)>> \in ParserSteps
    BY <1>1, ExprLeads
  <1> QED
    BY <1>2, LeadsOne DEF ParserLeads, Nothing

\* Where no condition is read, an expression after names and before others.
LEMMA ExpandExpr ==
    ASSUME ParserOK(todo, noStructLit, ret, tok), todo # <<>>,
           Head(todo).do \in Unrestricted,
           NEW p \in Seq(Even(FALSE)), NEW q \in Seq(Even(FALSE)), NEW in \in {"plain", "bracket"},
           \/ Expand(Do(p) \o <<Expr(1, in)>>)
           \/ Expand(<<Expr(1, in)>> \o Do(q))
           \/ Expand(Do(p) \o <<Expr(1, in)>> \o Do(q))
    PROVE  ParserOK(todo', noStructLit', ret', tok')
  <1>1. noStructLit = FALSE /\ Head(todo).do \in Calls \ (Special \cup Finishers)
    BY UnrestrictedFlag
  <1> DEFINE b == Nothing(FALSE)
             e == <<Expr(1, in)>>
  <1>2. ParserLeads(Do(p), b, b) /\ ParserLeads(Do(q), b, b)
    BY EvenLead
  <1>3. ParserLeads(e, b, b)
    <2>1. in \in Contexts /\ FALSE = (in = "cond")
      BY DEF Contexts
    <2> QED
      BY <2>1, ExprEven
  <1> HIDE DEF b, e
  <1>4. \A s, t : ParserLeads(s, b, b) /\ ParserLeads(t, b, b) => ParserLeads(s \o t, b, b)
    BY LeadsConcat DEF ParserLeads
  <1>5. /\ ParserLeads(Do(p) \o e, b, b) /\ ParserLeads(e \o Do(q), b, b)
        /\ ParserLeads(Do(p) \o e \o Do(q), b, b)
    BY <1>2, <1>3, <1>4
  <1>6. \A s : ParserLeads(s, b, b) /\ Expand(s) => ParserOK(todo', noStructLit', ret', tok')
    BY <1>1, ExpandEven DEF b
  <1> QED
    BY <1>5, <1>6 DEF e

\* Lists, types and initializers.
LEMMA MoreListsOK ==
    ASSUME ParserOK(todo, noStructLit, ret, tok), Args \/ More \/ VarInit \/ Type
    PROVE  ParserOK(todo', noStructLit', ret', tok')
  <1> DEFINE W == Even(noStructLit)
             OK == ParserOK(todo', noStructLit', ret', tok')
  <1>1. {"COMMA", "params", "STAR", "type", "LBRACK", "length", "RBRACK"} \subseteq W
        /\ TypeKeywords \cup {"IDENT"} \subseteq W
    BY EvenWords DEF Kinds, UnaryOps
  <1>2. ASSUME todo # <<>>, Head(todo).do \in {"moreParams", "type"}
        PROVE  Head(todo).do \in Calls \ (Special \cup Finishers)
    BY <1>2 DEF Calls, Special, Finishers
  <1>3. ASSUME todo # <<>>, Head(todo).do \in {"moreArgs", "moreInits", "args", "init"}
        PROVE  /\ Head(todo).do \in Calls \ (Special \cup Finishers)
               /\ Head(todo).do \in Unrestricted
               /\ {"args", "inits", "moreArgs"} \subseteq W
    <2>1. Head(todo).do \in Unrestricted
      BY <1>3 DEF Unrestricted
    <2>2. noStructLit = FALSE /\ Head(todo).do \in Calls \ (Special \cup Finishers)
      BY <1>3, <2>1, UnrestrictedFlag
    <2> QED
      BY <2>1, <2>2, EvenWords DEF Unrestricted
  <1>4. ASSUME NEW names \in Seq(W), todo # <<>>, Head(todo).do \in Calls \ (Special \cup Finishers),
               Expand(Do(names))
        PROVE  OK
    BY <1>4, ExpandDo
  <1> HIDE DEF W, OK
  <1>5. <<"COMMA", "params">> \in Seq(W) /\ <<"STAR", "type">> \in Seq(W)
        /\ <<"LBRACK", "length", "RBRACK", "type">> \in Seq(W)
    BY <1>1
  <1>6. \A k \in TypeKeywords \cup {"IDENT"} : <<k>> \in Seq(W)
    BY <1>1
  <1>7. ASSUME Args PROVE OK
    <2>1. todo # <<>> /\ Head(todo).do = "args"
      BY <1>7 DEF Args, Doing
    <2>2. Head(todo).do \in Calls \ (Special \cup Finishers) /\ Head(todo).do \in Unrestricted
      BY <1>3, <2>1
    <2>3. Expand(<<>>) \/ Expand(<<Expr(1, "bracket")>> \o Do(<<"moreArgs">>))
      BY <1>7 DEF Args
    <2>4. ASSUME Expand(<<Expr(1, "bracket")>> \o Do(<<"moreArgs">>)) PROVE OK
      <3>1. "moreArgs" \in Even(FALSE)
        BY EvenWords DEF Unrestricted
      <3>2. \A V : "moreArgs" \in V => <<"moreArgs">> \in Seq(V)
        OBVIOUS
      <3>3. <<"moreArgs">> \in Seq(Even(FALSE))
        BY <3>1, <3>2
      <3> QED
        BY <2>1, <2>2, <2>4, <3>3, ExpandExpr DEF OK
    <2> QED
      BY <2>1, <2>2, <2>3, <2>4, ExpandNothing DEF OK
  <1>8. ASSUME VarInit PROVE OK
    <2>1. todo # <<>> /\ Head(todo).do = "init"
      BY <1>8 DEF VarInit, Doing
    <2>2. Head(todo).do \in Calls \ (Special \cup Finishers) /\ Head(todo).do \in Unrestricted
      BY <1>3, <2>1
    <2>3. Expand(<<>>) \/ Expand(Do(<<"ASSIGN">>) \o <<Expr(1, "plain")>>)
      BY <1>8 DEF VarInit
    <2>4. ASSUME Expand(Do(<<"ASSIGN">>) \o <<Expr(1, "plain")>>) PROVE OK
      <3>1. "ASSIGN" \in Even(FALSE)
        BY EvenWords DEF Kinds
      <3>2. \A V : "ASSIGN" \in V => <<"ASSIGN">> \in Seq(V)
        OBVIOUS
      <3>3. <<"ASSIGN">> \in Seq(Even(FALSE))
        BY <3>1, <3>2
      <3> QED
        BY <2>1, <2>2, <2>4, <3>3, ExpandExpr DEF OK
    <2> QED
      BY <2>1, <2>2, <2>3, <2>4, ExpandNothing DEF OK
  <1>9. ASSUME More PROVE OK
    <2>1. ASSUME Doing("moreParams"), Expand(Do(<<"COMMA", "params">>)) \/ Expand(<<>>) PROVE OK
      <3>1. todo # <<>> /\ Head(todo).do = "moreParams"
        BY <2>1 DEF Doing
      <3> QED
        BY <1>2, <1>4, <1>5, <2>1, <3>1, ExpandNothing DEF OK
    <2>2. ASSUME NEW next_ \in {"args", "inits"},
                 Doing("moreArgs") \/ Doing("moreInits"),
                 Expand(Do(<<"COMMA", next_>>)) \/ Expand(<<>>)
          PROVE  OK
      <3>1. todo # <<>> /\ Head(todo).do \in {"moreArgs", "moreInits"}
        BY <2>2 DEF Doing
      <3>2. /\ Head(todo).do \in Calls \ (Special \cup Finishers)
            /\ {"args", "inits"} \subseteq W
        BY <1>3, <3>1
      <3>3. <<"COMMA", next_>> \in Seq(W)
        BY <1>1, <3>2
      <3> QED
        BY <1>4, <2>2, <3>1, <3>2, <3>3, ExpandNothing DEF OK
    <2>3. \/ Doing("moreParams") /\ (Expand(Do(<<"COMMA", "params">>)) \/ Expand(<<>>))
          \/ Doing("moreArgs") /\ (Expand(Do(<<"COMMA", "args">>)) \/ Expand(<<>>))
          \/ Doing("moreInits") /\ (Expand(Do(<<"COMMA", "inits">>)) \/ Expand(<<>>))
      BY <1>9 DEF More
    <2> QED
      BY <2>1, <2>2, <2>3
  <1>10. ASSUME Type PROVE OK
    <2>1. todo # <<>> /\ Head(todo).do = "type"
      BY <1>10 DEF Type, Doing
    <2>2. \/ tok \in TypeKeywords \cup {"IDENT"} /\ Expand(Do(<<tok>>))
          \/ Expand(Do(<<"STAR", "type">>))
          \/ Expand(Do(<<"LBRACK", "length", "RBRACK", "type">>))
          \/ ParseError
      BY <1>10 DEF Type
    <2> QED
      BY <1>2, <1>4, <1>5, <1>6, <2>1, <2>2, ErrorOK DEF OK
  <1>11. OK
    BY <1>7, <1>8, <1>9, <1>10
  <1> QED
    BY <1>11 DEF OK

\* Statements.
LEMMA StatementsOK ==
    ASSUME ParserOK(todo, noStructLit, ret, tok),
           Block \/ Stmts \/ Stmt \/ If \/ Else \/ Returned \/ Simple
    PROVE  ParserOK(todo', noStructLit', ret', tok')
  <1> DEFINE W == Even(FALSE)
             OK == ParserOK(todo', noStructLit', ret', tok')
             K == {"block", "stmts", "stmt", "if", "else", "elseBranch", "returned", "simple"}
  <1>1. {"LBRACE", "stmts", "RBRACE", "stmt", "varDecl", "if", "WHILE", "cond", "block", "RETURN",
         "returned", "BREAK", "CONTINUE", "SEMI", "simple", "IF", "else", "ELSE", "elseBranch",
         "ASSIGN"} \subseteq W
    <2>1. {"LBRACE", "RBRACE", "WHILE", "RETURN", "BREAK", "CONTINUE", "SEMI", "IF", "ELSE", "ASSIGN"}
              \subseteq Kinds
      BY DEF Kinds
    <2>2. {"stmts", "stmt", "varDecl", "if", "block", "returned", "simple", "else", "elseBranch"}
              \subseteq Unrestricted
      BY DEF Unrestricted
    <2>3. Kinds \cup {"cond"} \cup Unrestricted \subseteq W
      BY EvenWords
    <2> HIDE DEF W
    <2> QED
      BY <2>1, <2>2, <2>3
  <1>2. ASSUME todo # <<>>, Head(todo).do \in K
        PROVE  /\ Head(todo).do \in Calls \ (Special \cup Finishers)
               /\ Head(todo).do \in Unrestricted /\ noStructLit = FALSE
    <2>1. Head(todo).do \in Unrestricted
      BY <1>2 DEF Unrestricted
    <2> QED
      BY <1>2, <2>1, UnrestrictedFlag
  <1>3. ASSUME NEW names \in Seq(W), todo # <<>>, Head(todo).do \in K, Expand(Do(names))
        PROVE  OK
    BY <1>2, <1>3, ExpandDo
  <1>4. ASSUME NEW p \in Seq(W), NEW q \in Seq(W), todo # <<>>, Head(todo).do \in K,
               \/ Expand(<<Expr(1, "plain")>> \o Do(q))
               \/ Expand(Do(p) \o <<Expr(1, "plain")>> \o Do(q))
        PROVE  OK
    BY <1>2, <1>4, ExpandExpr
  <1>5. ASSUME todo # <<>>, Head(todo).do \in K, Expand(<<>>) PROVE OK
    BY <1>2, <1>5, ExpandNothing
  <1> HIDE DEF W, OK
  <1>6. /\ <<"LBRACE", "stmts">> \in Seq(W) /\ <<"RBRACE">> \in Seq(W)
        /\ <<"stmt", "stmts">> \in Seq(W) /\ <<"varDecl">> \in Seq(W) /\ <<"if">> \in Seq(W)
        /\ <<"WHILE", "cond", "block">> \in Seq(W) /\ <<"RETURN", "returned">> \in Seq(W)
        /\ <<"BREAK", "SEMI">> \in Seq(W) /\ <<"CONTINUE", "SEMI">> \in Seq(W)
    BY <1>1
  <1>7. /\ <<"block">> \in Seq(W) /\ <<"simple">> \in Seq(W) /\ <<"SEMI">> \in Seq(W)
        /\ <<"IF", "cond", "block", "else">> \in Seq(W) /\ <<"ELSE", "elseBranch">> \in Seq(W)
        /\ <<"ASSIGN">> \in Seq(W)
    BY <1>1
  <1>8. ASSUME Block PROVE OK
    <2>1. todo # <<>> /\ Head(todo).do \in K /\ Expand(Do(<<"LBRACE", "stmts">>))
      BY <1>8 DEF Block, Doing
    <2> QED
      BY <1>3, <1>6, <2>1
  <1>9. ASSUME Stmts PROVE OK
    <2>1. todo # <<>> /\ Head(todo).do \in K
      BY <1>9 DEF Stmts, Doing
    <2>2. Expand(Do(<<"RBRACE">>)) \/ ParseError \/ Expand(Do(<<"stmt", "stmts">>))
      BY <1>9 DEF Stmts
    <2> QED
      BY <1>3, <1>6, <2>1, <2>2, ErrorOK DEF OK
  <1>10. ASSUME Stmt PROVE OK
    <2>1. todo # <<>> /\ Head(todo).do \in K
      BY <1>10 DEF Stmt, Doing
    <2>2. \/ Expand(Do(<<"varDecl">>)) \/ Expand(Do(<<"if">>))
          \/ Expand(Do(<<"WHILE", "cond", "block">>)) \/ Expand(Do(<<"RETURN", "returned">>))
          \/ Expand(Do(<<"BREAK", "SEMI">>)) \/ Expand(Do(<<"CONTINUE", "SEMI">>))
          \/ Expand(Do(<<"block">>))
          \/ Expand(<<Expr(1, "plain")>> \o Do(<<"simple">>))
      BY <1>10 DEF Stmt
    <2> QED
      BY <1>3, <1>4, <1>6, <1>7, <2>1, <2>2
  <1>11. ASSUME If PROVE OK
    <2>1. todo # <<>> /\ Head(todo).do \in K /\ Expand(Do(<<"IF", "cond", "block", "else">>))
      BY <1>11 DEF If, Doing
    <2> QED
      BY <1>3, <1>7, <2>1
  <1>12. ASSUME Else PROVE OK
    <2>1. todo # <<>> /\ Head(todo).do \in K
      BY <1>12 DEF Else, Doing
    <2>2. \/ Expand(Do(<<"ELSE", "elseBranch">>)) \/ Expand(<<>>)
          \/ Expand(Do(<<"if">>)) \/ Expand(Do(<<"block">>))
      BY <1>12 DEF Else
    <2> QED
      BY <1>3, <1>5, <1>6, <1>7, <2>1, <2>2
  <1>13. ASSUME Returned PROVE OK
    <2>1. todo # <<>> /\ Head(todo).do \in K
      BY <1>13 DEF Returned, Doing
    <2>2. \/ Expand(<<>> \o Do(<<"SEMI">>))
          \/ Expand(<<Expr(1, "plain")>> \o Do(<<"SEMI">>))
      BY <1>13 DEF Returned
    <2>3. <<>> \o Do(<<"SEMI">>) = Do(<<"SEMI">>)
      <3>1. Do(<<"SEMI">>) \in Seq(ParserItems)
        <4>1. W \subseteq Words
          BY DEF W, Even
        <4> QED
          BY <1>7, <4>1, DoWords
      <3> QED
        BY <3>1, ConcatEmptySeq
    <2> QED
      BY <1>3, <1>4, <1>7, <2>1, <2>2, <2>3
  <1>14. ASSUME Simple PROVE OK
    <2>1. todo # <<>> /\ Head(todo).do \in K
      BY <1>14 DEF Simple, Doing
    <2>2. \/ Expand(Do(<<"ASSIGN">>) \o <<Expr(1, "plain")>> \o Do(<<"SEMI">>))
          \/ Expand(Do(<<"SEMI">>))
          \/ ParseError
      BY <1>14 DEF Simple
    <2> QED
      BY <1>3, <1>4, <1>7, <2>1, <2>2, ErrorOK DEF OK
  <1>15. OK
    BY <1>8, <1>9, <1>10, <1>11, <1>12, <1>13, <1>14
  <1> QED
    BY <1>15 DEF OK

\* A call is replaced, the flag set; the expression returned last is as it was.
LEMMA Entered ==
    ASSUME ParserOK(todo, noStructLit, ret, tok), todo # <<>>,
           NEW flag \in BOOLEAN, NEW low \in 0..9, NEW high \in 0..7,
           low <= ret.bp, InfixBP(tok) <= high,
           NEW s, NEW b, ParserLeads(s, About(flag, low, high), b),
           b = ParserLeaves(Head(todo), ParserState(noStructLit, ret, tok)),
           Enter(flag, s)
    PROVE  ParserOK(todo', noStructLit', ret', tok')
  <1> DEFINE a == About(flag, low, high)
             t == Tail(todo)
             c == ParserLeaves(Head(todo), ParserState(noStructLit, ret, tok))
  <1>1. ret \in [root : Roots, bp : 0..9] /\ \E d : ParserLeads(t, c, d)
    BY ParserHead
  <1>2. a \in Known /\ a.flag = flag /\ a.low = low /\ a.high = high
    BY ONLY flag \in BOOLEAN, low \in 0..9, high \in 0..7, AboutKnown
  <1>3. ParserLeads(s, a, c)
    OBVIOUS
  <1>4. flag \in BOOLEAN /\ a.low <= ret.bp /\ InfixBP(tok) <= a.high
    BY <1>2
  <1>5. todo' = s \o t /\ noStructLit' = flag /\ ret' = ret /\ tok' = tok
    BY DEF Enter
  <1> HIDE DEF a, t, c
  <1>6. ParserOK(s \o t, flag, ret, tok)
    BY ONLY <1>1, <1>2, <1>3, <1>4, ParserDone
  <1> QED
    BY ONLY <1>5, <1>6

\* Expanding is entering with the flag as it is.
LEMMA Expanded ==
    ASSUME NEW s, Expand(s)
    PROVE  Enter(noStructLit, s)
  BY DEF Expand, Enter

\* What the invariant says of the parts of the state.
LEMMA StateParts ==
    ASSUME ParserOK(todo, noStructLit, ret, tok), todo # <<>>
    PROVE  /\ noStructLit \in BOOLEAN /\ ret \in [root : Roots, bp : 0..9] /\ ret.bp \in 0..9
           /\ InfixBP(tok) \in 0..7 /\ Head(todo) \in ParserItems
           /\ ParserNeeds(Head(todo), About(noStructLit, ret.bp, InfixBP(tok)))
           /\ ParserLeaves(Head(todo), ParserState(noStructLit, ret, tok))
                = ParserLeaves(Head(todo), About(noStructLit, ret.bp, InfixBP(tok)))
           /\ Head(todo).do \in {"expr", "infix", "primary", "name", "postfix"} =>
                 Head(todo).in \in Contexts /\ noStructLit = (Head(todo).in = "cond")
  <1> DEFINE x == Head(todo)
             a == About(noStructLit, ret.bp, InfixBP(tok))
  <1>1. /\ noStructLit \in BOOLEAN /\ ret \in [root : Roots, bp : 0..9] /\ ret.bp \in 0..9
        /\ InfixBP(tok) \in 0..7 /\ x \in ParserItems /\ ParserNeeds(x, a)
    BY ParserHead DEF ParserState
  <1>2. a.flag = noStructLit
    BY DEF About
  <1> HIDE DEF x, a
  <1>3. x.do \in {"expr", "infix", "primary", "name", "postfix"} => x.in \in Contexts
    BY <1>1, ItemParts
  <1>4. x.do \in {"expr", "infix", "primary", "name", "postfix"} => a.flag = (x.in = "cond")
    BY <1>1 DEF ParserNeeds
  <1>5. x.do \in {"expr", "infix", "primary", "name", "postfix"} =>
            x.in \in Contexts /\ noStructLit = (x.in = "cond")
    BY <1>2, <1>3, <1>4
  <1> QED
    BY <1>1, <1>5 DEF x, a, ParserState

\* Conditions, and the values of a struct literal's fields.
LEMMA ConditionOK ==
    ASSUME ParserOK(todo, noStructLit, ret, tok), Cond \/ RestoreFlag \/ FieldValue
    PROVE  ParserOK(todo', noStructLit', ret', tok')
  <1> DEFINE x == Head(todo)
             f == noStructLit
             r == [do |-> "restore", saved |-> f]
             c == ParserLeaves(x, ParserState(noStructLit, ret, tok))
  <1>1. todo # <<>>
    BY DEF Cond, RestoreFlag, FieldValue, Doing
  <1>2. /\ f \in BOOLEAN /\ ret.bp \in 0..9 /\ InfixBP(tok) \in 0..7 /\ x \in ParserItems
        /\ c = ParserLeaves(x, About(f, ret.bp, InfixBP(tok)))
    BY <1>1, StateParts
  <1>3. 0 \in 0..9 /\ 7 \in 0..7 /\ 1 \in 1..8 /\ 0 <= ret.bp /\ InfixBP(tok) <= 7
    BY <1>2
  <1>4. ASSUME NEW flag \in BOOLEAN, NEW in \in Contexts, flag = (in = "cond")
        PROVE  ParserLeads(<<Expr(1, in), r>>, About(flag, 0, 7), Nothing(f))
    <2>1. /\ Expr(1, in) \in ParserItems
          /\ <<Expr(1, in), About(flag, 0, 7), About(flag, 0, 7)>> \in ParserSteps
      BY <1>3, <1>4, ExprLeads DEF Nothing
    <2>2. r \in ParserItems /\ <<r, About(flag, 0, 7), About(f, 0, 7)>> \in ParserSteps
      BY <1>2, <1>3, RestoreLeads
    <2> QED
      BY <2>1, <2>2, LeadsTwo DEF ParserLeads, Nothing
  <1>5. ASSUME x.do \in {"cond", "value"} PROVE c = Nothing(f)
    BY <1>2, <1>5 DEF ParserLeaves, Nothing, About, Calls
  <1>6. "cond" \in Contexts /\ "bracket" \in Contexts /\ TRUE = ("cond" = "cond")
        /\ FALSE = ("bracket" = "cond") /\ TRUE \in BOOLEAN /\ FALSE \in BOOLEAN
    BY DEF Contexts
  <1>7. ASSUME Cond PROVE ParserOK(todo', noStructLit', ret', tok')
    <2>1. x.do = "cond" /\ Enter(TRUE, <<Expr(1, "cond"), r>>)
      BY <1>7 DEF Cond, Doing, Restore
    <2>2. ParserLeads(<<Expr(1, "cond"), r>>, About(TRUE, 0, 7), c)
      BY <1>4, <1>5, <1>6, <2>1
    <2> HIDE DEF r
    <2> QED
      BY <1>1, <1>3, <1>6, <2>1, <2>2, Entered
  <1>8. ASSUME FieldValue PROVE ParserOK(todo', noStructLit', ret', tok')
    <2>1. x.do = "value" /\ Enter(FALSE, <<Expr(1, "bracket"), r>>)
      BY <1>8 DEF FieldValue, Doing, Restore
    <2>2. ParserLeads(<<Expr(1, "bracket"), r>>, About(FALSE, 0, 7), c)
      BY <1>4, <1>5, <1>6, <2>1
    <2> HIDE DEF r
    <2> QED
      BY <1>1, <1>3, <1>6, <2>1, <2>2, Entered
  <1>9. ASSUME RestoreFlag PROVE ParserOK(todo', noStructLit', ret', tok')
    <2>1. x.do = "restore" /\ Enter(x.saved, <<>>)
      BY <1>9 DEF RestoreFlag, Doing
    <2>2. x.saved \in BOOLEAN
      BY <1>2, <2>1, ItemParts
    <2>3. c = About(x.saved, ret.bp, InfixBP(tok))
      BY <1>2, <2>1 DEF ParserLeaves, About
    <2>4. ParserLeads(<<>>, About(x.saved, ret.bp, InfixBP(tok)), c)
      BY <2>3, LeadsEmpty DEF ParserLeads
    <2>5. ret.bp <= ret.bp /\ InfixBP(tok) <= InfixBP(tok)
      BY <1>2
    <2> QED
      BY <1>1, <1>2, <2>1, <2>2, <2>4, <2>5, Entered
  <1> QED
    BY <1>7, <1>8, <1>9

\* What stands in brackets, after an operand or by itself, is read with the
\* flag off and leaves the flag as it was and a postfix expression.
LEMMA Bracketed ==
    ASSUME NEW f \in BOOLEAN, NEW root \in Roots
    PROVE  LET r == [do |-> "restore", saved |-> f]
           IN  /\ ParserLeads(<<r, Node(root)>>, Nothing(FALSE), About(f, 9, 7))
               /\ ParserLeads(<<Expr(1, "bracket"), r, Node(root)>>, Nothing(FALSE), About(f, 9, 7))
  <1> DEFINE r == [do |-> "restore", saved |-> f]
             e == Expr(1, "bracket")
             n == Node(root)
  <1>1. 0 \in 0..9 /\ 7 \in 0..7 /\ 1 \in 1..8 /\ FALSE \in BOOLEAN /\ "bracket" \in Contexts
        /\ FALSE = ("bracket" = "cond")
    BY DEF Contexts
  <1>2. e \in ParserItems /\ <<e, Nothing(FALSE), Nothing(FALSE)>> \in ParserSteps
    BY <1>1, ExprLeads DEF Nothing
  <1>3. r \in ParserItems /\ <<r, Nothing(FALSE), About(f, 0, 7)>> \in ParserSteps
    BY <1>1, RestoreLeads DEF Nothing
  <1>4. n \in ParserItems /\ <<n, About(f, 0, 7), About(f, 9, 7)>> \in ParserSteps
    BY <1>1, NodeLeads
  <1> HIDE DEF r, e, n
  <1>5. /\ ParserLeads(<<r, n>>, Nothing(FALSE), About(f, 9, 7))
        /\ ParserLeads(<<e, r, n>>, Nothing(FALSE), About(f, 9, 7))
    BY <1>2, <1>3, <1>4, LeadsTwo, LeadsThree DEF ParserLeads
  <1> QED
    BY <1>5 DEF r, e, n

\* Pieces one after the other.
LEMMA Pieces ==
    ASSUME NEW s, NEW t, NEW a, NEW b, NEW c, ParserLeads(s, a, b), ParserLeads(t, b, c)
    PROVE  ParserLeads(s \o t, a, c)
  BY LeadsConcat DEF ParserLeads

\* One token.
LEMMA TokenLeads ==
    ASSUME NEW k \in Kinds, NEW flag \in BOOLEAN, NEW low \in 0..9
    PROVE  ParserLeads(Do(<<k>>), About(flag, low, 7), About(flag, low, 7))
  <1>1. <<k>> \in Seq(Kinds)
    OBVIOUS
  <1> QED
    BY <1>1, TokensLead

\* Calls, indices and selections.
LEMMA PostfixOK ==
    ASSUME ParserOK(todo, noStructLit, ret, tok), Postfix
    PROVE  ParserOK(todo', noStructLit', ret', tok')
  <1> DEFINE x == Head(todo)
             f == noStructLit
             r == [do |-> "restore", saved |-> f]
             c == ParserLeaves(x, ParserState(noStructLit, ret, tok))
             p == About(f, 9, 7)
             OK == ParserOK(todo', noStructLit', ret', tok')
  <1>1. todo # <<>> /\ x.do = "postfix"
    BY DEF Postfix, Doing
  <1>2. /\ f \in BOOLEAN /\ ret.bp \in 0..9 /\ InfixBP(tok) \in 0..7 /\ x \in ParserItems
        /\ c = ParserLeaves(x, About(f, ret.bp, InfixBP(tok)))
        /\ f = (x.in = "cond")
    BY <1>1, StateParts
  <1>3. ret.bp = 9 /\ c = p
    <2>1. 9 <= ret.bp
      BY <1>1, StateParts DEF ParserNeeds, About
    <2> QED
      BY <1>1, <1>2, <2>1 DEF ParserLeaves, About
  <1>4. 0 \in 0..9 /\ 9 \in 0..9 /\ 7 \in 0..7 /\ FALSE \in BOOLEAN
    OBVIOUS
  <1>5. ParserLeads(<<x>>, p, p)
    <2>1. <<x, About(f, 9, 7), About(f, 9, 7)>> \in ParserSteps
      BY <1>1, <1>2, <1>4, OperandLeads
    <2> QED
      BY <1>2, <2>1, LeadsOne DEF ParserLeads
  <1>6. /\ ParserLeads(Do(<<"RPAREN">>), p, p) /\ ParserLeads(Do(<<"RBRACK">>), p, p)
        /\ ParserLeads(Do(<<"LBRACK">>), Nothing(FALSE), Nothing(FALSE))
    <2>1. "RPAREN" \in Kinds /\ "RBRACK" \in Kinds /\ "LBRACK" \in Kinds
      BY DEF Kinds
    <2> QED
      BY <1>2, <1>4, <2>1, TokenLeads DEF Nothing
  <1>7. ParserLeads(Do(<<"LPAREN", "args">>), Nothing(FALSE), Nothing(FALSE))
    <2>1. "LPAREN" \in Even(FALSE) /\ "args" \in Even(FALSE)
      BY EvenWords DEF Kinds, Unrestricted
    <2>2. \A V : "LPAREN" \in V /\ "args" \in V => <<"LPAREN", "args">> \in Seq(V)
      OBVIOUS
    <2>3. <<"LPAREN", "args">> \in Seq(Even(FALSE))
      BY <2>1, <2>2
    <2> QED
      BY <2>3, EvenLead
  <1>8. ParserLeads(Do(<<"DOT", "IDENT">>), p, p)
    <2>1. <<"DOT", "IDENT">> \in Seq(Kinds)
      <3>1. "DOT" \in Kinds /\ "IDENT" \in Kinds
        BY DEF Kinds
      <3> QED
        BY <3>1
    <2> QED
      BY <1>2, <1>4, <2>1, TokensLead
  <1>9. /\ ParserLeads(<<r, Node("Call")>>, Nothing(FALSE), p)
        /\ ParserLeads(<<Expr(1, "bracket"), r, Node("Index")>>, Nothing(FALSE), p)
    <2>1. "Call" \in Roots /\ "Index" \in Roots
      BY DEF Roots
    <2> QED
      BY <1>2, <2>1, Bracketed
  <1>10. ParserLeads(<<Node("Field")>>, p, p)
    <2>1. "Field" \in Roots
      BY DEF Roots
    <2>2. Node("Field") \in ParserItems /\ <<Node("Field"), p, p>> \in ParserSteps
      BY <1>2, <1>4, <2>1, NodeLeads
    <2> QED
      BY <2>2, LeadsOne DEF ParserLeads
  <1>11. ASSUME NEW s, ParserLeads(s, Nothing(FALSE), p), Enter(FALSE, s) PROVE OK
    <2>1. ParserLeads(s, About(FALSE, 0, 7), c)
      BY <1>3, <1>11 DEF Nothing
    <2>2. 0 <= ret.bp /\ InfixBP(tok) <= 7
      BY <1>2
    <2> QED
      BY <1>1, <1>4, <1>11, <2>1, <2>2, Entered
  <1>12. ASSUME NEW s, ParserLeads(s, p, p), Expand(s) PROVE OK
    <2>1. ParserLeads(s, About(f, 9, 7), c)
      BY <1>3, <1>12
    <2>2. 9 <= ret.bp /\ InfixBP(tok) <= 7
      BY <1>2, <1>3
    <2>3. Enter(f, s)
      BY <1>12, Expanded
    <2> QED
      BY <1>1, <1>2, <1>4, <2>1, <2>2, <2>3, Entered
  <1>13. /\ ParserLeads(Do(<<"LPAREN", "args">>) \o <<r, Node("Call")>> \o Do(<<"RPAREN">>) \o <<x>>,
                        Nothing(FALSE), p)
         /\ ParserLeads(Do(<<"LBRACK">>) \o <<Expr(1, "bracket"), r, Node("Index")>>
                        \o Do(<<"RBRACK">>) \o <<x>>, Nothing(FALSE), p)
         /\ ParserLeads(<<Node("Field")>> \o Do(<<"DOT", "IDENT">>) \o <<x>>, p, p)
         /\ ParserLeads(<<>>, p, p)
    <2> HIDE DEF r, x, p
    <2>1. ParserLeads(<<>>, p, p)
      BY LeadsEmpty DEF ParserLeads
    <2>2. ParserLeads(<<Node("Field")>> \o Do(<<"DOT", "IDENT">>) \o <<x>>, p, p)
      BY <1>5, <1>8, <1>10, Pieces
    <2>3. ParserLeads(Do(<<"LPAREN", "args">>) \o <<r, Node("Call")>>, Nothing(FALSE), p)
      BY <1>7, <1>9, Pieces
    <2>4. ParserLeads(Do(<<"LBRACK">>) \o <<Expr(1, "bracket"), r, Node("Index")>>,
                      Nothing(FALSE), p)
      BY <1>6, <1>9, Pieces
    <2>5. \A s : ParserLeads(s, Nothing(FALSE), p) =>
                     /\ ParserLeads(s \o Do(<<"RPAREN">>) \o <<x>>, Nothing(FALSE), p)
                     /\ ParserLeads(s \o Do(<<"RBRACK">>) \o <<x>>, Nothing(FALSE), p)
      BY <1>5, <1>6, Pieces
    <2> QED
      BY <2>1, <2>2, <2>3, <2>4, <2>5
  <1>14. \/ Enter(FALSE, Do(<<"LPAREN", "args">>) \o <<r, Node("Call")>> \o Do(<<"RPAREN">>) \o <<x>>)
         \/ Enter(FALSE, Do(<<"LBRACK">>) \o <<Expr(1, "bracket"), r, Node("Index")>>
                         \o Do(<<"RBRACK">>) \o <<x>>)
         \/ Expand(<<Node("Field")>> \o Do(<<"DOT", "IDENT">>) \o <<x>>)
         \/ Expand(<<>>)
         \/ ParseError
    BY DEF Postfix, Restore
  <1> HIDE DEF x, r, p, OK
  <1>15. OK
    BY <1>11, <1>12, <1>13, <1>14, ErrorOK DEF OK
  <1> QED
    BY <1>15 DEF OK

\* Literals, names and parentheses.
LEMMA PrimaryOK ==
    ASSUME ParserOK(todo, noStructLit, ret, tok), Primary \/ Name
    PROVE  ParserOK(todo', noStructLit', ret', tok')
  <1> DEFINE x == Head(todo)
             f == noStructLit
             r == [do |-> "restore", saved |-> f]
             c == ParserLeaves(x, ParserState(noStructLit, ret, tok))
             p == About(f, 9, 7)
             b == Nothing(f)
             OK == ParserOK(todo', noStructLit', ret', tok')
  <1>1. todo # <<>> /\ x.do \in {"primary", "name"}
    BY DEF Primary, Name, Doing
  <1>2. /\ f \in BOOLEAN /\ ret.bp \in 0..9 /\ InfixBP(tok) \in 0..7 /\ x \in ParserItems
        /\ c = ParserLeaves(x, About(f, ret.bp, InfixBP(tok)))
        /\ x.in \in Contexts /\ f = (x.in = "cond")
    BY <1>1, StateParts
  <1>3. c = p
    BY <1>1, <1>2 DEF ParserLeaves, About
  <1>4. 0 \in 0..9 /\ 9 \in 0..9 /\ 7 \in 0..7 /\ FALSE \in BOOLEAN
    OBVIOUS
  <1>5. \A root \in Roots : ParserLeads(<<Node(root)>>, b, p)
    <2> SUFFICES ASSUME NEW root \in Roots PROVE ParserLeads(<<Node(root)>>, b, p)
      OBVIOUS
    <2>1. Node(root) \in ParserItems /\ <<Node(root), About(f, 0, 7), p>> \in ParserSteps
      BY <1>2, <1>4, NodeLeads
    <2> QED
      BY <2>1, LeadsOne DEF ParserLeads, Nothing
  <1>6. \A k \in Kinds : /\ ParserLeads(Do(<<k>>), p, p) /\ ParserLeads(Do(<<k>>), b, b)
                         /\ ParserLeads(Do(<<k>>), Nothing(FALSE), Nothing(FALSE))
    BY <1>2, <1>4, TokenLeads DEF Nothing
  <1>7. ASSUME NEW s, ParserLeads(s, Nothing(FALSE), p), Enter(FALSE, s) PROVE OK
    <2>1. ParserLeads(s, About(FALSE, 0, 7), c)
      BY <1>3, <1>7 DEF Nothing
    <2>2. 0 <= ret.bp /\ InfixBP(tok) <= 7
      BY <1>2
    <2> QED
      BY <1>1, <1>4, <1>7, <2>1, <2>2, Entered
  <1>8. ASSUME NEW s, ParserLeads(s, b, p), Expand(s) PROVE OK
    <2>1. ParserLeads(s, About(f, 0, 7), c)
      BY <1>3, <1>8 DEF Nothing
    <2>2. 0 <= ret.bp /\ InfixBP(tok) <= 7
      BY <1>2
    <2>3. Enter(f, s)
      BY <1>8, Expanded
    <2> QED
      BY <1>1, <1>2, <1>4, <2>1, <2>2, <2>3, Entered
  <1>9. /\ Literals \cup {"IDENT", "LPAREN", "RPAREN", "RBRACE"} \subseteq Kinds
        /\ {"Lit", "Paren", "StructLit", "Ident"} \subseteq Roots
    BY DEF Kinds, Roots
  <1>10. ASSUME Primary PROVE OK
    <2>1. x.do = "primary"
      BY <1>10 DEF Primary, Doing
    <2>2. ParserLeads(<<Expr(1, "bracket"), r, Node("Paren")>>, Nothing(FALSE), p)
      BY <1>2, <1>9, Bracketed
    <2>3. ParserLeads(Do(<<"LPAREN">>) \o <<Expr(1, "bracket"), r, Node("Paren")>>
                      \o Do(<<"RPAREN">>), Nothing(FALSE), p)
      <3> HIDE DEF p, r
      <3> QED
        BY <1>6, <1>9, <2>2, Pieces
    <2>4. ParserLeads(Do(<<"IDENT">>) \o <<[do |-> "name", in |-> x.in]>>, b, p)
      <3> DEFINE y == [do |-> "name", in |-> x.in]
      <3>1. y \in ParserItems /\ y.do = "name" /\ y.in = x.in
        BY <1>2 DEF ParserItems
      <3> HIDE DEF y
      <3>2. <<y, About(f, 0, 7), p>> \in ParserSteps
        BY <1>2, <1>4, <3>1, OperandLeads
      <3>3. ParserLeads(<<y>>, b, p)
        BY <3>1, <3>2, LeadsOne DEF ParserLeads, Nothing
      <3> HIDE DEF b, p
      <3>4. ParserLeads(Do(<<"IDENT">>) \o <<y>>, b, p)
        BY <1>6, <1>9, <3>3, Pieces
      <3> QED
        BY <3>4 DEF y
    <2>5. \A k \in Literals : ParserLeads(<<Node("Lit")>> \o Do(<<k>>), b, p)
      <3> HIDE DEF b, p
      <3> QED
        BY <1>5, <1>6, <1>9, Pieces
    <2>6. \/ tok \in Literals /\ Expand(<<Node("Lit")>> \o Do(<<tok>>))
          \/ Expand(Do(<<"IDENT">>) \o <<[do |-> "name", in |-> x.in]>>)
          \/ Enter(FALSE, Do(<<"LPAREN">>) \o <<Expr(1, "bracket"), r, Node("Paren")>>
                          \o Do(<<"RPAREN">>))
          \/ ParseError
      BY <1>10 DEF Primary, Restore, Operand
    <2> HIDE DEF x, r, p, b, OK
    <2> QED
      BY <1>7, <1>8, <2>3, <2>4, <2>5, <2>6, ErrorOK DEF OK
  <1>11. ASSUME Name PROVE OK
    <2>1. \/ /\ f = FALSE
             /\ Expand(Do(<<"LBRACE", "inits">>) \o <<Node("StructLit")>> \o Do(<<"RBRACE">>))
          \/ Expand(<<Node("Ident")>>)
      BY <1>2, <1>11 DEF Name
    <2>2. ASSUME f = FALSE
          PROVE  ParserLeads(Do(<<"LBRACE", "inits">>) \o <<Node("StructLit")>> \o Do(<<"RBRACE">>),
                             b, p)
      <3>1. "LBRACE" \in Even(FALSE) /\ "inits" \in Even(FALSE)
        BY EvenWords DEF Kinds, Unrestricted
      <3>2. \A V : "LBRACE" \in V /\ "inits" \in V => <<"LBRACE", "inits">> \in Seq(V)
        OBVIOUS
      <3>3. <<"LBRACE", "inits">> \in Seq(Even(FALSE))
        BY <3>1, <3>2
      <3>4. ParserLeads(Do(<<"LBRACE", "inits">>), b, b)
        BY <2>2, <3>3, EvenLead
      <3> HIDE DEF b, p
      <3> QED
        BY <1>5, <1>6, <1>9, <3>4, Pieces
    <2>3. ParserLeads(<<Node("Ident")>>, b, p)
      BY <1>5, <1>9
    <2> HIDE DEF x, r, p, b, OK
    <2> QED
      BY <1>8, <2>1, <2>2, <2>3
  <1> HIDE DEF OK
  <1>12. OK
    BY <1>10, <1>11
  <1> QED
    BY <1>12 DEF OK

\* A node is returned, of the power the item announced.
LEMMA BuildOK ==
    ASSUME ParserOK(todo, noStructLit, ret, tok), Build
    PROVE  ParserOK(todo', noStructLit', ret', tok')
  <1> DEFINE x == Head(todo)
             f == noStructLit
             t == Tail(todo)
             high == InfixBP(tok)
             a == ParserState(noStructLit, ret, tok)
             c == ParserLeaves(x, a)
  <1>1. todo # <<>> /\ x.do \in {"deref", "unary", "cast", "binary", "node"}
    BY DEF Build, Doing
  <1>2. /\ f \in BOOLEAN /\ ret.bp \in 0..9 /\ high \in 0..7 /\ x \in ParserItems
        /\ c = ParserLeaves(x, About(f, ret.bp, high))
    BY <1>1, StateParts
  <1>3. PICK d : ParserLeads(t, c, d)
    BY <1>1, ParserHead
  <1>4. ASSUME NEW root \in Roots, NEW bp \in 0..9, Return(root, bp), c = About(f, bp, high)
        PROVE  ParserOK(todo', noStructLit', ret', tok')
    <2> DEFINE e == [root |-> root, bp |-> bp]
    <2>1. e \in [root : Roots, bp : 0..9] /\ e.bp = bp
      OBVIOUS
    <2>2. /\ todo' = t /\ noStructLit' = f /\ ret' = e /\ tok' = tok
      BY <1>4 DEF Return
    <2>3. c \in Known /\ c.flag = f /\ c.low = bp /\ c.high = high
      BY <1>2, <1>4, AboutKnown
    <2>4. bp <= bp /\ high <= high
      BY <1>2
    <2> HIDE DEF e, t, c
    <2>5. c.low <= e.bp /\ InfixBP(tok) <= c.high
      BY <2>1, <2>3, <2>4
    <2>6. ParserOK(t, f, e, tok)
      BY ONLY <1>2, <1>3, <2>1, <2>3, <2>5, ParserRest
    <2> QED
      BY ONLY <2>2, <2>6
  <1>5. InfixBP("AS") = 7
    BY DEF InfixBP
  <1>6. CASE x.do \in {"deref", "unary"}
    <2>1. c = About(f, 8, high)
      BY <1>2, <1>6 DEF ParserLeaves, About
    <2>2. Return("Deref", 8) \/ Return("Unary", 8)
      BY <1>6 DEF Build, Doing, UnaryBP
    <2>3. "Deref" \in Roots /\ "Unary" \in Roots /\ 8 \in 0..9
      BY DEF Roots
    <2> QED
      BY <1>4, <2>1, <2>2, <2>3
  <1>7. CASE x.do = "cast"
    <2>1. c = About(f, 7, high)
      BY <1>2, <1>7 DEF ParserLeaves, About
    <2>2. Return("Cast", 7)
      BY <1>5, <1>7 DEF Build, Doing
    <2>3. "Cast" \in Roots /\ 7 \in 0..9
      BY DEF Roots
    <2> QED
      BY <1>4, <2>1, <2>2, <2>3
  <1>8. CASE x.do = "binary"
    <2>1. c = About(f, x.bp, high) /\ x.bp \in 0..9
      BY <1>2, <1>8, ItemParts DEF ParserLeaves, About
    <2>2. Return("Binary", x.bp)
      BY <1>8 DEF Build, Doing
    <2>3. "Binary" \in Roots
      BY DEF Roots
    <2> QED
      BY <1>4, <2>1, <2>2, <2>3
  <1>9. CASE x.do = "node"
    <2>1. c = About(f, 9, high) /\ x.root \in Roots
      BY <1>2, <1>9, ItemParts DEF ParserLeaves, About
    <2>2. Return(x.root, 9)
      BY <1>9 DEF Build, Doing, PostfixBP
    <2> QED
      BY <1>4, <2>1, <2>2
  <1> QED
    BY <1>1, <1>6, <1>7, <1>8, <1>9

\* Infix operators are tokens that the parser knows by name.
LEMMA InfixKinds == \A k : InfixBP(k) # 0 => k \in Kinds
  BY DEF InfixBP, Kinds, UnaryOps

\* The loop of parseExprBP.
LEMMA InfixOK ==
    ASSUME ParserOK(todo, noStructLit, ret, tok), Infix
    PROVE  ParserOK(todo', noStructLit', ret', tok')
  <1> DEFINE x == Head(todo)
             f == noStructLit
             low == ret.bp
             bp == InfixBP(tok)
             c == ParserLeaves(x, ParserState(noStructLit, ret, tok))
             p == About(f, x.bp, x.bp - 1)
             a == About(f, low, 7)
             OK == ParserOK(todo', noStructLit', ret', tok')
  <1>1. todo # <<>> /\ x.do = "infix"
    BY DEF Infix, Doing
  <1>2. /\ f \in BOOLEAN /\ low \in 0..9 /\ bp \in 0..7 /\ x \in ParserItems
        /\ c = ParserLeaves(x, About(f, low, bp))
        /\ x.in \in Contexts /\ f = (x.in = "cond")
    BY <1>1, StateParts
  <1>3. c = p /\ x.bp \in 1..8 /\ x.bp <= low /\ bp <= low
    <2>1. x.bp \in 1..8
      BY <1>1, <1>2, ItemParts
    <2>2. x.bp <= low /\ bp <= low
      BY <1>1, StateParts DEF ParserNeeds, About
    <2> QED
      BY <1>1, <1>2, <2>1, <2>2 DEF ParserLeaves, About
  <1>4. 0 \in 0..9 /\ 7 \in 0..9 /\ 7 \in 0..7 /\ low <= low /\ bp <= 7
    BY <1>2
  <1>5. CASE bp = 0 \/ bp < x.bp
    <2>1. Enter(f, <<>>)
      <3>1. Expand(<<>>)
        BY <1>5 DEF Infix
      <3> QED
        BY <3>1, Expanded
    <2>2. ParserLeads(<<>>, p, c)
      BY <1>3, LeadsEmpty DEF ParserLeads
    <2>3. x.bp \in 0..9 /\ x.bp - 1 \in 0..7 /\ x.bp <= ret.bp /\ InfixBP(tok) <= x.bp - 1
      BY <1>2, <1>3, <1>5
    <2> QED
      BY <1>1, <1>2, <2>1, <2>2, <2>3, Entered
  <1>6. ASSUME NEW s, ParserLeads(s, a, p), Expand(s) PROVE OK
    <2>1. ParserLeads(s, a, c)
      BY <1>3, <1>6
    <2>2. Enter(f, s)
      BY <1>6, Expanded
    <2> QED
      BY <1>1, <1>2, <1>4, <2>1, <2>2, Entered
  <1>7. \A l \in 0..9, h \in 0..7 : x.bp <= l /\ h <= l => <<x, About(f, l, h), p>> \in ParserSteps
    BY <1>1, <1>2, InfixLeads
  <1>8. CASE bp # 0 /\ ~(bp < x.bp) /\ tok = "AS"
    <2> DEFINE w == <<"AS", "type", "cast">>
               z == [do |-> "cast"]
    <2>1. bp = 7 /\ x.bp <= 7
      BY <1>2, <1>3, <1>8 DEF InfixBP
    <2>2. Expand(Do(w) \o <<x>>)
      BY <1>1, <1>8 DEF Infix
    <2>3. Do(w) = Do(<<"AS", "type">>) \o <<z>>
      <3> DEFINE v == <<"AS", "type">>
      <3>1. {"AS", "type"} \subseteq Words /\ "cast" \in Words
        BY DEF Words, Kinds, Calls, Special
      <3>2. \A V : "AS" \in V /\ "type" \in V /\ "cast" \in V =>
                /\ v \in Seq(V) /\ Len(v) = 2 /\ v[1] = "AS" /\ v[2] = "type"
                /\ w \in Seq(V) /\ Len(w) = 3 /\ w[1] = "AS" /\ w[2] = "type" /\ w[3] = "cast"
        OBVIOUS
      <3> HIDE DEF v, w
      <3>3. /\ v \in Seq(Words) /\ Len(v) = 2 /\ v[1] = "AS" /\ v[2] = "type"
            /\ w \in Seq(Words) /\ Len(w) = 3 /\ w[1] = "AS" /\ w[2] = "type" /\ w[3] = "cast"
        BY <3>1, <3>2
      <3>4. /\ Do(v) \in Seq(ParserItems) /\ Len(Do(v)) = 2
            /\ Do(v)[1] = [do |-> "AS"] /\ Do(v)[2] = [do |-> "type"]
            /\ Do(w) \in Seq(ParserItems) /\ Len(Do(w)) = 3
            /\ Do(w)[1] = [do |-> "AS"] /\ Do(w)[2] = [do |-> "type"] /\ Do(w)[3] = z
        BY <3>3, DoWords
      <3>5. z \in ParserItems
        BY <3>1 DEF ParserItems
      <3> DEFINE s == Do(v)
                 u == <<z>>
                 y == Do(w)
      <3>6. u \in Seq(ParserItems) /\ Len(u) = 1 /\ u[1] = z
        BY <3>5
      <3> HIDE DEF s, u, y, z
      <3>7. /\ s \o u \in Seq(ParserItems) /\ Len(s \o u) = Len(s) + Len(u)
            /\ \A i \in 1..(Len(s) + Len(u)) :
                   (s \o u)[i] = IF i <= Len(s) THEN s[i] ELSE u[i - Len(s)]
        BY <3>4, <3>6, ConcatProperties DEF s
      <3>8. /\ Len(s \o u) = 3 /\ (s \o u)[1] = y[1] /\ (s \o u)[2] = y[2] /\ (s \o u)[3] = y[3]
            /\ Len(y) = 3 /\ y \in Seq(ParserItems)
        BY <3>4, <3>6, <3>7 DEF s, y
      <3>9. \A i \in 1..Len(y) : y[i] = (s \o u)[i]
        BY <3>8
      <3>10. y = s \o u
        BY <3>7, <3>8, <3>9, SeqEqual
      <3> QED
        BY <3>10 DEF s, u, y, v
    <2>4. ParserLeads(Do(<<"AS", "type">>), Nothing(f), Nothing(f))
      <3>1. "AS" \in Even(f) /\ "type" \in Even(f)
        BY EvenWords DEF Kinds
      <3>2. \A V : "AS" \in V /\ "type" \in V => <<"AS", "type">> \in Seq(V)
        OBVIOUS
      <3>3. <<"AS", "type">> \in Seq(Even(f))
        BY <3>1, <3>2
      <3> QED
        BY <1>2, <3>3, EvenLead
    <2>5. ParserLeads(<<z>>, Nothing(f), About(f, 7, 7))
      <3>1. "cast" \in Finishers
        BY DEF Finishers
      <3>2. z \in ParserItems
            /\ <<z, About(f, 0, 7), About(f, IF "cast" = "cast" THEN 7 ELSE 8, 7)>> \in ParserSteps
        BY <1>2, <1>4, <3>1, FinishLeads
      <3>3. <<z, About(f, 0, 7), About(f, 7, 7)>> \in ParserSteps
        BY <3>2
      <3> QED
        BY <3>2, <3>3, LeadsOne DEF ParserLeads, Nothing
    <2>6. ParserLeads(<<x>>, About(f, 7, 7), p)
      <3>1. <<x, About(f, 7, 7), p>> \in ParserSteps
        BY <1>4, <1>7, <2>1
      <3> QED
        BY <1>2, <3>1, LeadsOne DEF ParserLeads
    <2>7. ParserLeads(Do(w) \o <<x>>, Nothing(f), p)
      <3> HIDE DEF p, z, w
      <3> QED
        BY <2>3, <2>4, <2>5, <2>6, Pieces
    <2>8. Enter(f, Do(w) \o <<x>>)
      BY <2>2, Expanded
    <2>9. ParserLeads(Do(w) \o <<x>>, About(f, 0, 7), c)
      BY <1>3, <2>7 DEF Nothing
    <2>10. 0 <= ret.bp
      BY <1>2
    <2> QED
      BY <1>1, <1>2, <1>4, <2>8, <2>9, <2>10, Entered
  <1>9. CASE bp # 0 /\ ~(bp < x.bp) /\ tok # "AS"
    <2> DEFINE e == Expr(bp + 1, x.in)
               y == [do |-> "binary", bp |-> bp]
    <2>1. Expand(Do(<<tok>>) \o <<e, y, x>>)
      BY <1>1, <1>9 DEF Infix
    <2>2. ParserLeads(Do(<<tok>>), a, a)
      BY <1>2, <1>9, InfixKinds, TokenLeads
    <2>3. bp + 1 \in 1..8 /\ bp + 1 \in 0..9 /\ bp \in 1..7 /\ bp \in 0..9 /\ bp \in 0..7
          /\ (bp + 1) - 1 = bp /\ bp < bp + 1 /\ bp <= bp /\ x.bp <= bp
      BY <1>2, <1>3, <1>9
    <2>4. e \in ParserItems /\ <<e, a, About(f, bp + 1, bp)>> \in ParserSteps
      <3>1. e \in ParserItems /\ <<e, a, About(f, bp + 1, (bp + 1) - 1)>> \in ParserSteps
        BY <1>2, <1>4, <2>3, ExprLeads
      <3> QED
        BY <2>3, <3>1
    <2>5. y \in ParserItems /\ <<y, About(f, bp + 1, bp), About(f, bp, bp)>> \in ParserSteps
      BY <1>2, <2>3, BinaryLeads
    <2>6. <<x, About(f, bp, bp), p>> \in ParserSteps
      BY <1>7, <2>3
    <2>7. ParserLeads(<<e, y, x>>, a, p)
      BY <1>2, <2>4, <2>5, <2>6, LeadsThree DEF ParserLeads
    <2>8. ParserLeads(Do(<<tok>>) \o <<e, y, x>>, a, p)
      <3> HIDE DEF a, p, e, y
      <3> QED
        BY <2>2, <2>7, Pieces
    <2> QED
      BY <1>6, <2>1, <2>8
  <1> QED
    BY <1>5, <1>8, <1>9

\* An expression begins: an operator before an operand, or a primary and what
\* follows it, then the loop.
LEMMA ParseExprBPOK ==
    ASSUME ParserOK(todo, noStructLit, ret, tok), ParseExprBP
    PROVE  ParserOK(todo', noStructLit', ret', tok')
  <1> DEFINE x == Head(todo)
             f == noStructLit
             t == Tail(todo)
             c == ParserLeaves(x, ParserState(noStructLit, ret, tok))
             p == About(f, x.bp, x.bp - 1)
             l == [do |-> "infix", bp |-> x.bp, in |-> x.in]
             OK == ParserOK(todo', noStructLit', ret', tok')
  <1>1. todo # <<>> /\ x.do = "expr"
    BY DEF ParseExprBP, Doing
  <1>2. /\ f \in BOOLEAN /\ ret.bp \in 0..9 /\ InfixBP(tok) \in 0..7 /\ x \in ParserItems
        /\ c = ParserLeaves(x, About(f, ret.bp, InfixBP(tok)))
        /\ x.in \in Contexts /\ f = (x.in = "cond")
    BY <1>1, StateParts
  <1>3. c = p /\ x.bp \in 1..8
    BY <1>1, <1>2, ItemParts DEF ParserLeaves, About
  <1>4. 0 \in 0..9 /\ 8 \in 0..9 /\ 9 \in 0..9 /\ 7 \in 0..7 /\ 8 \in 1..8 /\ 8 - 1 = 7
    OBVIOUS
  <1>5. PICK d : ParserLeads(t, c, d)
    BY <1>1, ParserHead
  <1>6. ASSUME NEW low \in 8..9
        PROVE  ParserLeads(<<l>>, About(f, low, 7), p)
    <2>1. l \in ParserItems /\ l.do = "infix" /\ l.bp = x.bp /\ l.in = x.in
      BY <1>2, <1>3 DEF ParserItems
    <2>2. low \in 0..9 /\ x.bp <= low /\ 7 <= low
      BY <1>3, <1>6
    <2> HIDE DEF l
    <2>3. <<l, About(f, low, 7), About(f, l.bp, l.bp - 1)>> \in ParserSteps
      BY <1>2, <1>4, <2>1, <2>2, InfixLeads
    <2> QED
      BY <2>1, <2>3, LeadsOne DEF ParserLeads
  <1>7. ASSUME NEW s, ParserLeads(s, Nothing(f), p)
        PROVE  ParserOK(s \o t, f, NoExpr, tok)
    <2>1. NoExpr \in [root : Roots, bp : 0..9] /\ NoExpr.bp = 0
      BY DEF NoExpr, Roots
    <2>2. Nothing(f) \in Known /\ Nothing(f).flag = f /\ Nothing(f).low = 0 /\ Nothing(f).high = 7
      <3>1. f \in BOOLEAN
        BY <1>2
      <3>2. \A g \in BOOLEAN : /\ Nothing(g) \in Known /\ Nothing(g).flag = g
                               /\ Nothing(g).low = 0 /\ Nothing(g).high = 7
        BY ONLY <1>4, AboutKnown DEF Nothing
      <3> QED
        BY ONLY <3>1, <3>2
    <2>3. Nothing(f).low <= NoExpr.bp /\ InfixBP(tok) <= Nothing(f).high
      BY <1>2, <2>1, <2>2
    <2>4. ParserLeads(t, p, d)
      BY <1>3, <1>5
    <2>5. ParserLeads(s, Nothing(f), p)
      BY <1>7
    <2> HIDE DEF t, p
    <2> QED
      BY ONLY <1>2, <2>1, <2>2, <2>3, <2>4, <2>5, ParserDone
  <1>8. ASSUME tok \in UnaryOps PROVE OK
    <2> DEFINE word == IF tok = "STAR" THEN "deref" ELSE "unary"
               e == Expr(8, x.in)
               z == [do |-> word]
    <2>1. ParserLeads(Do(<<tok>>), Nothing(f), Nothing(f))
      <3>1. tok \in Kinds
        BY <1>8 DEF Kinds
      <3> QED
        BY <1>2, <1>4, <3>1, TokenLeads DEF Nothing
    <2>2. ParserLeads(<<e>>, Nothing(f), About(f, 8, 7))
      <3>1. e \in ParserItems /\ <<e, About(f, 0, 7), About(f, 8, 8 - 1)>> \in ParserSteps
        BY <1>2, <1>4, ExprLeads
      <3>2. <<e, About(f, 0, 7), About(f, 8, 7)>> \in ParserSteps
        BY <1>4, <3>1
      <3> QED
        BY <3>1, <3>2, LeadsOne DEF ParserLeads, Nothing
    <2>3. Do(<<word>>) = <<z>>
      <3>1. \A w : Do(<<w>>) = <<[do |-> w]>>
        BY DEF Do
      <3> QED
        BY <3>1
    <2>4. ParserLeads(<<z>>, About(f, 8, 7), About(f, 8, 7))
      <3>1. word \in Finishers /\ word # "cast"
        BY DEF Finishers
      <3> HIDE DEF word
      <3>2. word # "cast" => 8 <= 8
        OBVIOUS
      <3>3. z \in ParserItems
            /\ <<z, About(f, 8, 7), About(f, IF word = "cast" THEN 7 ELSE 8, 7)>> \in ParserSteps
        BY <1>2, <1>4, <3>1, <3>2, FinishLeads
      <3>4. <<z, About(f, 8, 7), About(f, 8, 7)>> \in ParserSteps
        BY <3>1, <3>3
      <3> QED
        BY <3>3, <3>4, LeadsOne DEF ParserLeads
    <2>5. ParserLeads(<<l>>, About(f, 8, 7), p)
      BY <1>6
    <2>6. ParserLeads(Do(<<tok>>) \o <<e>> \o Do(<<word>>) \o <<l>>, Nothing(f), p)
      <3> HIDE DEF e, z, l, p, word
      <3>1. ParserLeads(Do(<<word>>), About(f, 8, 7), About(f, 8, 7))
        BY <2>3, <2>4
      <3>2. ParserLeads(Do(<<tok>>) \o <<e>>, Nothing(f), About(f, 8, 7))
        BY <2>1, <2>2, Pieces
      <3>3. ParserLeads(Do(<<tok>>) \o <<e>> \o Do(<<word>>), Nothing(f), About(f, 8, 7))
        BY <3>1, <3>2, Pieces
      <3> QED
        BY <2>5, <3>3, Pieces
    <2>7. /\ todo' = Do(<<tok>>) \o <<e>> \o Do(<<word>>) \o <<l>> \o t
          /\ ret' = NoExpr /\ UNCHANGED <<tok, noStructLit>>
      BY <1>8 DEF ParseExprBP, Loop, UnaryBP
    <2> HIDE DEF e, z, l, p, word, t, OK
    <2>8. ParserOK((Do(<<tok>>) \o <<e>> \o Do(<<word>>) \o <<l>>) \o t, f, NoExpr, tok)
      BY ONLY <1>7, <2>6
    <2> QED
      BY ONLY <2>7, <2>8 DEF OK
  <1>9. ASSUME tok \notin UnaryOps PROVE OK
    <2> DEFINE y == [do |-> "primary", in |-> x.in]
               z == [do |-> "postfix", in |-> x.in]
    <2>1. /\ y \in ParserItems /\ y.do = "primary" /\ y.in = x.in
          /\ z \in ParserItems /\ z.do = "postfix" /\ z.in = x.in
      BY <1>2 DEF ParserItems
    <2>2. /\ todo' = <<y, z>> \o <<l>> \o t
          /\ ret' = NoExpr /\ UNCHANGED <<tok, noStructLit>>
      BY <1>9 DEF ParseExprBP, Loop, Operand
    <2> HIDE DEF y, z
    <2>3. /\ <<y, About(f, 0, 7), About(f, 9, 7)>> \in ParserSteps
          /\ <<z, About(f, 9, 7), About(f, 9, 7)>> \in ParserSteps
      BY <1>2, <1>4, <2>1, OperandLeads
    <2>4. ParserLeads(<<y, z>>, Nothing(f), About(f, 9, 7))
      BY <2>1, <2>3, LeadsTwo DEF ParserLeads, Nothing
    <2>5. ParserLeads(<<l>>, About(f, 9, 7), p)
      BY <1>6
    <2>6. ParserLeads(<<y, z>> \o <<l>>, Nothing(f), p)
      <3> HIDE DEF l, p
      <3> QED
        BY <2>4, <2>5, Pieces
    <2> HIDE DEF l, p, t, OK
    <2>7. ParserOK((<<y, z>> \o <<l>>) \o t, f, NoExpr, tok)
      BY ONLY <1>7, <2>6
    <2> QED
      BY ONLY <2>2, <2>7 DEF OK
  <1> HIDE DEF OK
  <1>10. OK
    BY <1>8, <1>9
  <1> QED
    BY <1>10 DEF OK

\* A token that is expected, and the choice of the one after it.
LEMMA ExpectTokenOK ==
    ASSUME ParserOK(todo, noStructLit, ret, tok), ExpectToken
    PROVE  ParserOK(todo', noStructLit', ret', tok')
  <1> DEFINE x == Head(todo)
             t == Tail(todo)
             c == ParserLeaves(x, ParserState(noStructLit, ret, tok))
             a == About(noStructLit, ret.bp, 7)
  <1>1. todo # <<>> /\ x.do \in Tokens
    BY DEF ExpectToken
  <1>2. /\ noStructLit \in BOOLEAN /\ ret.bp \in 0..9 /\ InfixBP(tok) \in 0..7
        /\ ret \in [root : Roots, bp : 0..9]
        /\ c = ParserLeaves(x, About(noStructLit, ret.bp, InfixBP(tok)))
    BY <1>1, StateParts
  <1>3. c = a
    <2>1. x.do \notin Calls
      BY <1>1, TokensOK
    <2>2. x.do \notin {"restore", "expr", "infix", "binary", "primary", "name", "postfix", "node",
                       "unary", "deref", "cast"}
      BY <2>1 DEF Calls
    <2> HIDE DEF x
    <2>3. ParserLeaves(x, About(noStructLit, ret.bp, InfixBP(tok))) = a
      BY <2>1, <2>2 DEF ParserLeaves, About
    <2> QED
      BY <1>2, <2>3 DEF x
  <1>4. PICK d : ParserLeads(t, c, d)
    BY <1>1, ParserHead
  <1>5. CASE ParseError
    BY <1>5, ErrorOK
  <1>6. CASE todo' = t /\ UNCHANGED <<noStructLit, ret>>
    <2>1. a \in Known /\ a.flag = noStructLit /\ a.low = ret.bp /\ a.high = 7
      BY <1>2, AboutKnown
    <2>2. a.low <= ret.bp /\ InfixBP(tok') <= a.high
      BY <1>2, <2>1, Levels
    <2>3. ParserLeads(t, a, d)
      BY <1>3, <1>4
    <2> HIDE DEF a, t
    <2>4. ParserOK(t, noStructLit, ret, tok')
      BY ONLY <1>2, <2>1, <2>2, <2>3, ParserRest
    <2> QED
      BY <1>6, <2>4
  <1> QED
    BY <1>5, <1>6 DEF ExpectToken

\* Whatever the parser does, what is left to do can be done.
LEMMA ParserNextOK ==
    ASSUME ParserOK(todo, noStructLit, ret, tok), ParseNext
    PROVE  ParserOK(todo', noStructLit', ret', tok')
  BY ExpectTokenOK, FileOK, ListsOK, MoreListsOK, StatementsOK, ConditionOK, ParseExprBPOK,
     InfixOK, BuildOK, PostfixOK, PrimaryOK
     DEF ParseNext


-----------------------------------------------------------------------------
(* The parser within the front end. *)

\* The inductive invariant: what is left to do can be done, and the parser
\* begins with struct literals allowed.
ParserInv(stg, items, flag, expr, token) ==
    /\ ParserOK(items, flag, expr, token)
    /\ stg = "lex" => flag = FALSE

\* The front end begins with nothing to do.
LEMMA ParserInvInit ==
    ASSUME Init
    PROVE  ParserInv(stage, todo, noStructLit, ret, tok)
  BY ParserEmpty DEF Init, ParserInv

\* A file is the first thing to be parsed.
LEMMA StartParserOK ==
    ASSUME ParserInv(stage, todo, noStructLit, ret, tok), StartParser
    PROVE  ParserOK(todo', noStructLit', ret', tok')
  <1>1. /\ stage = "lex" /\ todo' = Do(<<"file">>) /\ UNCHANGED <<noStructLit, ret>>
    BY DEF StartParser
  <1>2. noStructLit = FALSE /\ ret \in [root : Roots, bp : 0..9] /\ ret.bp \in 0..9
    <2>1. noStructLit = FALSE /\ ret \in [root : Roots, bp : 0..9]
      BY <1>1 DEF ParserInv, ParserOK
    <2> QED
      BY <2>1
  <1>3. ParserLeads(Do(<<"file">>), Nothing(FALSE), Nothing(FALSE))
    <2>1. "file" \in Even(FALSE)
      BY EvenWords DEF Unrestricted
    <2>2. \A V : "file" \in V => <<"file">> \in Seq(V)
      OBVIOUS
    <2>3. <<"file">> \in Seq(Even(FALSE)) /\ FALSE \in BOOLEAN
      BY <2>1, <2>2
    <2> QED
      BY <2>3, EvenLead
  <1>4. Nothing(FALSE) \in Known /\ Nothing(FALSE).flag = FALSE
        /\ Nothing(FALSE).low = 0 /\ Nothing(FALSE).high = 7
    <2>1. \A g \in BOOLEAN : /\ Nothing(g) \in Known /\ Nothing(g).flag = g
                             /\ Nothing(g).low = 0 /\ Nothing(g).high = 7
      BY ONLY AboutKnown DEF Nothing
    <2> QED
      BY ONLY <2>1
  <1> DEFINE n == Nothing(FALSE)
             s == Do(<<"file">>)
  <1> HIDE DEF n, s
  <1>5. n \in Known /\ n.flag = FALSE /\ n.low = 0 /\ n.high = 7 /\ ParserLeads(s, n, n)
    BY ONLY <1>3, <1>4 DEF n, s
  <1>6. \A token : ParserOK(s, FALSE, ret, token)
    <2> TAKE token
    <2>1. n.low <= ret.bp /\ InfixBP(token) <= n.high
      BY ONLY <1>2, <1>5, Levels
    <2>2. FALSE \in BOOLEAN
      OBVIOUS
    <2> QED
      BY ONLY <1>2, <1>5, <2>1, <2>2, ParserRest
  <1>7. ParserOK(Do(<<"file">>), FALSE, ret, tok')
    BY ONLY <1>6 DEF s
  <1> QED
    BY ONLY <1>1, <1>2, <1>7

\* Every step of the front end keeps what the parser has to do doable.
LEMMA ParserInvNext ==
    ASSUME ParserInv(stage, todo, noStructLit, ret, tok), [Next]_vars
    PROVE  ParserInv(stage', todo', noStructLit', ret', tok')
  <1> DEFINE OK == ParserInv(stage', todo', noStructLit', ret', tok')
  <1> HIDE DEF OK
  <1>1. ASSUME UNCHANGED <<todo, noStructLit, ret, tok>>, stage' = stage PROVE OK
    BY <1>1 DEF OK
  <1>2. ASSUME UNCHANGED <<todo, noStructLit, ret, tok>>, stage' # "lex" PROVE OK
    BY <1>2 DEF OK, ParserInv
  <1>3. ASSUME ParseIdle, stage' # "lex" PROVE OK
    <2>1. todo' = <<>> /\ noStructLit' = FALSE /\ ret' = NoExpr
      BY <1>3 DEF ParseIdle
    <2>2. ParserOK(todo', noStructLit', ret', tok')
      BY <2>1, ParserEmpty
    <2> QED
      BY <1>3, <2>2 DEF OK, ParserInv
  <1>4. CASE UNCHANGED vars
    BY <1>1, <1>4 DEF vars, parseVars, OK
  <1>5. CASE Lex
    BY <1>1, <1>5 DEF Lex, parseVars, OK
  <1>6. CASE StartParser
    <2>1. stage' # "lex"
      BY <1>6 DEF StartParser
    <2>2. ParserOK(todo', noStructLit', ret', tok')
      BY <1>6, StartParserOK
    <2> QED
      BY <2>1, <2>2 DEF OK, ParserInv
  <1>7. CASE Parse
    <2>1. stage = "parse" /\ stage' = stage /\ ParseNext
      BY <1>7 DEF Parse
    <2>2. ParserOK(todo', noStructLit', ret', tok')
      BY <2>1, ParserNextOK DEF ParserInv
    <2> QED
      BY <2>1, <2>2 DEF OK, ParserInv
  <1>8. CASE StartChecker
    <2>1. ParseIdle /\ stage' = "check"
      BY <1>8 DEF StartChecker
    <2> QED
      BY <1>3, <2>1 DEF OK
  <1>9. CASE Check
    <2>1. UNCHANGED <<stage, parseVars>>
      BY <1>9 DEF Check
    <2> QED
      BY <1>1, <2>1 DEF parseVars, OK
  <1>10. CASE StartGenerator
    <2>1. stage' = "generate" /\ UNCHANGED parseVars
      BY <1>10 DEF StartGenerator
    <2> QED
      BY <1>2, <2>1 DEF parseVars, OK
  <1>11. CASE Fail
    BY <1>3, <1>11 DEF Fail, OK
  <1>12. CASE Ended
    BY <1>1, <1>12 DEF Ended, vars, parseVars, OK
  <1> QED
    BY <1>4, <1>5, <1>6, <1>7, <1>8, <1>9, <1>10, <1>11, <1>12 DEF Next, OK

\* Struct literals are suppressed where the grammar says so and nowhere else:
\* every function of the parser that sets noStructLit puts it back, on every
\* path, before whatever follows it is read (parsePrimary, parseCond and the
\* others of parser.go).
THEOREM NoStructLitIsExact == Spec => []NoStructLitExact
  <1>1. Init => ParserInv(stage, todo, noStructLit, ret, tok)
    BY ParserInvInit
  <1>2. ParserInv(stage, todo, noStructLit, ret, tok) /\ [Next]_vars
            => ParserInv(stage, todo, noStructLit, ret, tok)'
    BY ParserInvNext
  <1>3. ParserInv(stage, todo, noStructLit, ret, tok) => NoStructLitExact
    <2> SUFFICES ASSUME ParserOK(todo, noStructLit, ret, tok), todo # <<>>
                 PROVE  NoStructLitExact
      BY DEF ParserInv, NoStructLitExact
    <2> DEFINE x == Head(todo)
    <2>1. x.do \in {"expr", "infix", "primary", "name", "postfix"} =>
              noStructLit = (x.in = "cond")
      BY StateParts
    <2>2. x.do \in Unrestricted => noStructLit = FALSE
      BY UnrestrictedFlag
    <2>3. {"block", "stmts", "stmt", "if", "else", "file", "varDecl", "returned", "simple",
           "inits"} \subseteq Unrestricted
      BY DEF Unrestricted
    <2> HIDE DEF x
    <2>4. CASE x.do \in {"expr", "primary", "name", "postfix", "infix"}
      BY <2>1, <2>4 DEF NoStructLitExact, x
    <2>5. CASE x.do \in {"block", "stmts", "stmt", "if", "else", "file", "varDecl", "returned",
                         "simple", "inits"}
      BY <2>2, <2>3, <2>5 DEF NoStructLitExact, x
    <2>6. CASE ~(\/ x.do \in {"expr", "primary", "name", "postfix", "infix"}
                 \/ x.do \in {"block", "stmts", "stmt", "if", "else", "file", "varDecl",
                              "returned", "simple", "inits"})
      BY <2>6 DEF NoStructLitExact, x
    <2> QED
      BY <2>4, <2>5, <2>6
  <1> QED
    BY <1>1, <1>2, <1>3, PTL DEF Spec

\* The tree of every expression is one of the layered grammar's: the power that
\* the loop of parseExprBP passes down, and the power of the operator that ends
\* it, keep each operand from taking more or less than its level.
THEOREM NodesAreGrammatical == Spec => []NodesGrammatical
  <1>1. Init => ParserInv(stage, todo, noStructLit, ret, tok)
    BY ParserInvInit
  <1>2. ParserInv(stage, todo, noStructLit, ret, tok) /\ [Next]_vars
            => ParserInv(stage, todo, noStructLit, ret, tok)'
    BY ParserInvNext
  <1>3. ParserInv(stage, todo, noStructLit, ret, tok) => NodesGrammatical
    <2> SUFFICES ASSUME ParserOK(todo, noStructLit, ret, tok) PROVE NodesGrammatical
      BY DEF ParserInv
    <2>1. ASSUME todo # <<>>
          PROVE  /\ ret.bp \in 0..9 /\ InfixBP(tok) \in 0..7
                 /\ Head(todo).do = "binary" => Head(todo).bp \in 1..7
                 /\ ParserNeeds(Head(todo), About(noStructLit, ret.bp, InfixBP(tok)))
      BY <2>1, StateParts, ItemParts
    <2> DEFINE x == Head(todo)
               a == About(noStructLit, ret.bp, InfixBP(tok))
    <2>2. a.low = ret.bp /\ a.high = InfixBP(tok)
      BY DEF About
    <2> HIDE DEF x, a
    <2>3. ASSUME todo # <<>>
          PROVE  /\ x.do = "infix" => InfixBP(tok) <= ret.bp
                 /\ x.do = "binary" => x.bp < ret.bp
                 /\ x.do \in {"unary", "deref"} => 8 <= ret.bp
                 /\ x.do = "postfix" => 9 <= ret.bp
      BY <2>1, <2>2, <2>3 DEF ParserNeeds, x, a
    <2>4. Doing("infix") => ret.bp >= InfixBP(tok)
      BY <2>1, <2>3 DEF Doing, x
    <2>5. Doing("binary") => ret.bp > Head(todo).bp
      BY <2>1, <2>3 DEF Doing, x
    <2>6. Doing("unary") \/ Doing("deref") => ret.bp >= 8
      BY <2>1, <2>3 DEF Doing, x
    <2>7. Doing("postfix") => ret.bp = 9
      BY <2>1, <2>3 DEF Doing, x
    <2> QED
      BY <2>4, <2>5, <2>6, <2>7 DEF NodesGrammatical, UnaryBP, PostfixBP
  <1> QED
    BY <1>1, <1>2, <1>3, PTL DEF Spec

-----------------------------------------------------------------------------
(* Declarations and types. *)

\* A type or the lack of one, and what a scope may be.
TypesNil == TypeExprs \cup {NoType}
Scopes == UNION {[D -> TypesNil] : D \in SUBSET Names}

\* A type is missing only after an error.
Fine(t, er) == t = NoType => er
Got(t, er) == IF t = NoType /\ ~er THEN 0 ELSE 1

\* KindOf, IsType and IsStruct of a file and its global names.
KindIn(name, ds, gl) == IF name \in DOMAIN gl THEN ds[gl[name]].kind ELSE "none"
TypeIn(te, ds, gl) == te.leaf \in ScalarTypes \/ KindIn(te.leaf, ds, gl) = "struct"
StructIn(t, ds, gl) == t.wrap = <<>> /\ KindIn(t.leaf, ds, gl) = "struct"

\* No type is nil.
LEMMA TypesAreTypes ==
    /\ \A t \in TypeExprs : t # NoType /\ t.wrap \in Seq(Int) /\ t.leaf \in Names /\ t \in TypesNil
    /\ NoType \in TypesNil /\ NoType.wrap = <<>> /\ NoType.leaf = "nil"
    /\ "nil" \notin Names
  <1>1. NoType.leaf = "nil" /\ NoType.wrap = <<>>
    BY DEF NoType, Named
  <1>2. "nil" \notin Names
    BY DEF Names
  <1>3. \A t \in TypeExprs : t.wrap \in Seq(Int) /\ t.leaf \in Names
    BY DEF TypeExprs
  <1> QED
    BY <1>1, <1>2, <1>3 DEF TypesNil

\* A name as a type.
LEMMA NamedType ==
    ASSUME NEW name \in Names
    PROVE  Named(name) \in TypeExprs /\ Named(name).wrap = <<>> /\ Named(name).leaf = name
  <1>1. <<>> \in Seq(Int)
    OBVIOUS
  <1> QED
    BY <1>1 DEF Named, TypeExprs

\* The types that the checker names.
LEMMA KnownTypes ==
    /\ Bool \in TypeExprs /\ Named("i32") \in TypeExprs /\ Named("u8") \in TypeExprs
    /\ \A t \in TypeExprs : PtrTo(t) \in TypeExprs
    /\ PtrTo(Named("u8")) \in TypeExprs
  <1>1. "bool" \in Names /\ "i32" \in Names /\ "u8" \in Names
    BY FilesOK
  <1>2. Bool \in TypeExprs /\ Named("i32") \in TypeExprs /\ Named("u8") \in TypeExprs
    BY <1>1, NamedType DEF Bool
  <1>3. ASSUME NEW t \in TypeExprs PROVE PtrTo(t) \in TypeExprs
    <2>1. <<Ptr>> \in Seq(Int)
      BY DEF Ptr
    <2>2. t.wrap \in Seq(Int)
      BY TypesAreTypes
    <2>3. <<Ptr>> \o t.wrap \in Seq(Int)
      BY <2>1, <2>2, ConcatProperties
    <2> DEFINE w == <<Ptr>> \o t.wrap
    <2> HIDE DEF w
    <2>4. [t EXCEPT !.wrap = w] \in TypeExprs
      BY <2>3 DEF TypeExprs, w
    <2> QED
      BY <2>4 DEF PtrTo, w
  <1> QED
    BY <1>2, <1>3

\* What a pointer points to, or an array is made of.
LEMMA Unwrapped ==
    ASSUME NEW t \in TypesNil, t.wrap # <<>>
    PROVE  t \in TypeExprs /\ [t EXCEPT !.wrap = Tail(@)] \in TypeExprs
  <1>1. t \in TypeExprs
    BY TypesAreTypes DEF TypesNil
  <1>2. t.wrap \in Seq(Int)
    BY <1>1, TypesAreTypes
  <1>3. Tail(t.wrap) \in Seq(Int)
    BY <1>2, HeadTailProperties
  <1> DEFINE w == Tail(t.wrap)
  <1> HIDE DEF w
  <1>4. [t EXCEPT !.wrap = w] \in TypeExprs
    BY <1>1, <1>3 DEF TypeExprs, w
  <1> QED
    BY <1>1, <1>4 DEF w

\* The parts of a declaration.
LEMMA DeclParts ==
    ASSUME NEW d \in Declarations
    PROVE  /\ d.name \in Names /\ d.kind \in {"func", "var", "struct"}
           /\ d.kind = "func" => d.params \in Seq(NamedTypes) /\ d.ret \in TypesNil
           /\ d.kind = "var" => d.type \in TypeExprs
           /\ d.kind = "struct" => d.fields \in Seq(NamedTypes)
  <1> DEFINE F == [kind : {"func"}, name : Names, form : {"plain", "export", "extern"},
                   params : Seq(NamedTypes), ret : TypeExprs \cup {NoType}]
             V == [kind : {"var"}, name : Names, type : TypeExprs,
                   init : {"none", "int", "string", "bool", "expression"}]
             S == [kind : {"struct"}, name : Names, fields : Seq(NamedTypes)]
  <1>1. CASE d \in F
    <2>1. d.kind = "func" /\ d.name \in Names /\ d.params \in Seq(NamedTypes)
          /\ d.ret \in TypeExprs \cup {NoType}
      BY <1>1
    <2> QED
      BY <2>1 DEF TypesNil
  <1>2. CASE d \in V
    <2>1. d.kind = "var" /\ d.name \in Names /\ d.type \in TypeExprs
      BY <1>2
    <2> QED
      BY <2>1
  <1>3. CASE d \in S
    <2>1. d.kind = "struct" /\ d.name \in Names /\ d.fields \in Seq(NamedTypes)
      BY <1>3
    <2> QED
      BY <2>1
  <1> QED
    BY <1>1, <1>2, <1>3 DEF Declarations

\* The parts of a parameter or a field.
LEMMA NamedTypeParts ==
    ASSUME NEW s \in Seq(NamedTypes), NEW i \in DOMAIN s
    PROVE  s[i] \in NamedTypes /\ s[i].name \in Names /\ s[i].type \in TypeExprs
  <1>1. DOMAIN s = 1..Len(s) /\ s \in [1..Len(s) -> NamedTypes]
    BY LenProperties
  <1>2. s[i] \in NamedTypes
    BY <1>1
  <1> QED
    BY <1>2 DEF NamedTypes

\* An untyped literal has a type.
LEMMA LitTypes ==
    ASSUME NEW want \in TypesNil
    PROVE  LitType(want) \in TypeExprs
  <1>1. CASE IsInteger(want)
    <2>1. want.leaf \in ScalarTypes
      BY <1>1 DEF IsInteger
    <2>2. want # NoType
      BY <2>1, FilesOK, TypesAreTypes
    <2> QED
      BY <1>1, <2>2 DEF LitType, TypesNil
  <1>2. CASE ~IsInteger(want)
    BY <1>2, KnownTypes DEF LitType
  <1> QED
    BY <1>1, <1>2

-----------------------------------------------------------------------------
(* The items of the checker. *)

Forms == {"any", "lit", "nonlit", "notInt", "litNotInt", "place", "lvalue"}
PlainItems == {"block", "endFunc", "else", "cond", "loop", "endLoop", "assign", "call", "neg", "not",
               "addr", "deref", "bool", "base"}
InitsItems == [do : {"inits"}, type : TypeExprs, given : SUBSET Names]
CheckerItems ==
    [do : PlainItems]
    \cup [do : {"expr"}, want : TypesNil, form : Forms]
    \cup [do : {"use", "cast", "index"}, type : TypesNil]
    \cup [do : {"declare"}, name : LocalNames, type : TypesNil]
    \cup [do : {"stmts"}, outer : Seq(Scopes)]
    \cup [do : {"verdict"}, bad : BOOLEAN]
    \cup [do : {"second"}, op : {"arith", "order", "equal"}, first : {"lit", "nonlit"},
          form : {"lit", "nonlit"}]
    \cup [do : {"pair"}, op : {"arith", "order", "equal"}, type : TypesNil, adopts : BOOLEAN]
    \cup [do : {"called"}, type : TypesNil, value : BOOLEAN]
    \cup [do : {"field"}, name : FieldNames]
    \cup InitsItems

\* Items that return a type, and those that look at the one returned to them.
Producers ==
    {"expr", "neg", "not", "addr", "deref", "second", "pair", "bool", "cast", "base", "index",
     "field", "inits"}
Consumers ==
    {"neg", "not", "addr", "deref", "second", "pair", "cast", "cond", "use", "assign", "base",
     "index", "field"}
EndItems == {"stmts", "endLoop", "endFunc"}

\* What is known between two items: whether the type returned last is missing
\* only after an error (1) or not even that (0), the scopes around the block,
\* the loops around it, and whether the function has come to its end.
CheckerKnown == [got : 0..1, outer : Seq(Scopes), loops : Nat, ended : 0..1]
K(g, o, l) == [got |-> g, outer |-> o, loops |-> l, ended |-> 0]

CheckerNeeds(x, a, ds, gl, er) ==
    /\ x.do \in Consumers => a.got = 1
    /\ x.do \in {"declare", "index", "pair"} => Fine(x.type, er)
    /\ x.do = "inits" => StructIn(x.type, ds, gl)
    /\ x.do = "stmts" => x.outer = a.outer /\ a.outer # <<>>
    /\ x.do = "endLoop" => a.loops > 0
    /\ x.do = "endFunc" => a.outer = <<>> /\ a.loops = 0

CheckerLeaves(x, a) ==
    [got |-> IF x.do \in Producers THEN 1
             ELSE IF x.do = "called" THEN IF x.value THEN 1 ELSE 0
             ELSE 0,
     outer |-> IF x.do = "stmts" THEN Front(a.outer) ELSE a.outer,
     loops |-> IF x.do = "endLoop" THEN a.loops - 1 ELSE a.loops,
     ended |-> IF x.do = "endFunc" THEN 1 ELSE 0]

AtLeast(a, b) == b.got <= a.got /\ b.outer = a.outer /\ b.loops = a.loops /\ b.ended = a.ended

CheckerSteps(ds, gl, er) ==
    {w \in CheckerItems \X CheckerKnown \X CheckerKnown :
        CheckerNeeds(w[1], w[2], ds, gl, er) /\ AtLeast(CheckerLeaves(w[1], w[2]), w[3])}

CheckerLeads(ds, gl, er, s, a, b) == Leads(CheckerItems, CheckerSteps(ds, gl, er), s, a, b)

\* What is known of an item by its name.
LEMMA CheckerItemParts ==
    ASSUME NEW x \in CheckerItems
    PROVE  /\ x.do = "expr" => x.want \in TypesNil /\ x.form \in Forms
           /\ x.do \in {"use", "cast", "index", "declare", "pair", "called"} => x.type \in TypesNil
           /\ x.do = "declare" => x.name \in LocalNames
           /\ x.do = "stmts" => x.outer \in Seq(Scopes)
           /\ x.do = "second" => /\ x.op \in {"arith", "order", "equal"}
                                 /\ x.first \in {"lit", "nonlit"} /\ x.form \in {"lit", "nonlit"}
           /\ x.do = "called" => x.value \in BOOLEAN
           /\ x.do = "verdict" => x.bad \in BOOLEAN
           /\ x.do = "inits" => x \in InitsItems /\ x.type \in TypeExprs
  <1>1. CASE x \in [do : PlainItems]
    <2>1. x.do \in PlainItems
      BY <1>1
    <2> QED
      BY <2>1 DEF PlainItems
  <1>2. CASE x \in [do : {"expr"}, want : TypesNil, form : Forms]
    <2>1. x.do = "expr" /\ x.want \in TypesNil /\ x.form \in Forms
      BY <1>2
    <2> QED
      BY <2>1
  <1>3. CASE x \in [do : {"use", "cast", "index"}, type : TypesNil]
    <2>1. x.do \in {"use", "cast", "index"} /\ x.type \in TypesNil
      BY <1>3
    <2> QED
      BY <2>1
  <1>4. CASE x \in [do : {"declare"}, name : LocalNames, type : TypesNil]
    <2>1. x.do = "declare" /\ x.name \in LocalNames /\ x.type \in TypesNil
      BY <1>4
    <2> QED
      BY <2>1
  <1>5. CASE x \in [do : {"stmts"}, outer : Seq(Scopes)]
    <2>1. x.do = "stmts" /\ x.outer \in Seq(Scopes)
      BY <1>5
    <2> QED
      BY <2>1
  <1>6. CASE x \in [do : {"verdict"}, bad : BOOLEAN]
    <2>1. x.do = "verdict" /\ x.bad \in BOOLEAN
      BY <1>6
    <2> QED
      BY <2>1
  <1>7. CASE x \in [do : {"second"}, op : {"arith", "order", "equal"}, first : {"lit", "nonlit"},
                    form : {"lit", "nonlit"}]
    <2>1. /\ x.do = "second" /\ x.op \in {"arith", "order", "equal"}
          /\ x.first \in {"lit", "nonlit"} /\ x.form \in {"lit", "nonlit"}
      BY <1>7
    <2> QED
      BY <2>1
  <1>8. CASE x \in [do : {"pair"}, op : {"arith", "order", "equal"}, type : TypesNil,
                    adopts : BOOLEAN]
    <2>1. x.do = "pair" /\ x.type \in TypesNil
      BY <1>8
    <2> QED
      BY <2>1
  <1>9. CASE x \in [do : {"called"}, type : TypesNil, value : BOOLEAN]
    <2>1. x.do = "called" /\ x.type \in TypesNil /\ x.value \in BOOLEAN
      BY <1>9
    <2> QED
      BY <2>1
  <1>10. CASE x \in [do : {"field"}, name : FieldNames]
    <2>1. x.do = "field"
      BY <1>10
    <2> QED
      BY <2>1
  <1>11. CASE x \in InitsItems
    <2>1. x.do = "inits" /\ x.type \in TypeExprs
      BY <1>11 DEF InitsItems
    <2> QED
      BY <1>11, <2>1
  <1> QED
    BY <1>1, <1>2, <1>3, <1>4, <1>5, <1>6, <1>7, <1>8, <1>9, <1>10, <1>11 DEF CheckerItems

\* What is known is of its type.
LEMMA KnownParts ==
    ASSUME NEW g \in 0..1, NEW o \in Seq(Scopes), NEW l \in Nat
    PROVE  /\ K(g, o, l) \in CheckerKnown /\ K(g, o, l).got = g /\ K(g, o, l).outer = o
           /\ K(g, o, l).loops = l /\ K(g, o, l).ended = 0
  BY DEF K, CheckerKnown

\* What an item other than the end of a block, a loop or a function leaves.
LEMMA PlainLeaves ==
    ASSUME NEW x \in CheckerItems, x.do \notin EndItems,
           NEW g \in 0..1, NEW o \in Seq(Scopes), NEW l \in Nat
    PROVE  \E h \in 0..1 : /\ CheckerLeaves(x, K(g, o, l)) = K(h, o, l)
                           /\ h = 1 => x.do \in Producers \/ (x.do = "called" /\ x.value)
                           /\ x.do \in Producers => h = 1
  <1> DEFINE h == IF x.do \in Producers THEN 1
                  ELSE IF x.do = "called" THEN IF x.value THEN 1 ELSE 0
                  ELSE 0
             a == K(g, o, l)
  <1>1. /\ h \in 0..1
        /\ h = 1 => x.do \in Producers \/ (x.do = "called" /\ x.value)
        /\ x.do \in Producers => h = 1
    OBVIOUS
  <1>2. CheckerLeaves(x, a) = [got |-> h, outer |-> a.outer, loops |-> a.loops, ended |-> 0]
    BY DEF CheckerLeaves, EndItems
  <1>3. a.outer = o /\ a.loops = l
    BY KnownParts
  <1>4. CheckerLeaves(x, a) = K(h, o, l)
    BY <1>2, <1>3 DEF K
  <1> HIDE DEF h
  <1> QED
    BY <1>1, <1>4

\* A step of an item other than the end of a block, a loop or a function.
LEMMA PlainStep ==
    ASSUME NEW ds, NEW gl, NEW er, NEW x \in CheckerItems, x.do \notin EndItems,
           NEW g \in 0..1, NEW h \in 0..1, NEW o \in Seq(Scopes), NEW l \in Nat,
           x.do \in Consumers => g = 1,
           x.do \in {"declare", "index", "pair"} => Fine(x.type, er),
           x.do = "inits" => StructIn(x.type, ds, gl),
           h = 1 => x.do \in Producers \/ (x.do = "called" /\ x.value)
    PROVE  <<x, K(g, o, l), K(h, o, l)>> \in CheckerSteps(ds, gl, er)
  <1> DEFINE a == K(g, o, l)
             b == K(h, o, l)
             c == CheckerLeaves(x, a)
  <1>1. /\ a \in CheckerKnown /\ a.got = g /\ a.outer = o /\ a.loops = l
        /\ b \in CheckerKnown /\ b.got = h /\ b.outer = o /\ b.loops = l /\ b.ended = 0
    BY KnownParts
  <1> HIDE DEF a, b
  <1>2. CheckerNeeds(x, a, ds, gl, er)
    BY <1>1 DEF CheckerNeeds, EndItems
  <1>3. c.outer = o /\ c.loops = l /\ c.ended = 0 /\ h <= c.got
    BY <1>1 DEF CheckerLeaves, EndItems
  <1> HIDE DEF c
  <1>4. AtLeast(c, b)
    BY <1>1, <1>3 DEF AtLeast
  <1> QED
    BY <1>1, <1>2, <1>4 DEF CheckerSteps, a, b, c

-----------------------------------------------------------------------------
(* The walk. *)

\* What is known as an item is reached.
Here(sc, lp, gt, er) == K(Got(gt, er), Front(sc), lp)

\* The invariant of the walk through a function's body.
WalkOK(ds, ps, nx, gl, sc, lp, wk, gt, er) ==
    /\ gt \in TypesNil /\ er \in BOOLEAN /\ sc \in Seq(Scopes) /\ lp \in Nat
    /\ \A i \in 1..Len(sc) : \A name \in DOMAIN sc[i] : Fine(sc[i][name], er)
    /\ wk = <<>> => sc = <<>> /\ lp = 0
    /\ wk # <<>> => /\ ps = "bodies" /\ sc # <<>>
                    /\ \E c : /\ CheckerLeads(ds, gl, er, wk, Here(sc, lp, gt, er), c)
                              /\ c.ended = 1

\* All but the last scope.
LEMMA FrontParts ==
    ASSUME NEW S, NEW s \in Seq(S), s # <<>>
    PROVE  /\ Front(s) \in Seq(S) /\ Len(s) \in Nat \ {0} /\ Len(Front(s)) = Len(s) - 1
           /\ \A i \in 1..(Len(s) - 1) : Front(s)[i] = s[i]
  <1>1. Len(s) \in Nat \ {0}
    BY LenProperties, EmptySeq
  <1> DEFINE n == Len(s)
  <1>2. \A i \in 1..(n - 1) : s[i] \in S
    BY <1>1, ElementOfSeq
  <1>3. n \in Nat \ {0} /\ Front(s) = SubSeq(s, 1, n - 1)
    BY <1>1 DEF Front
  <1> HIDE DEF n
  <1>4. /\ SubSeq(s, 1, n - 1) \in Seq(S)
        /\ Len(SubSeq(s, 1, n - 1)) = (IF 1 <= n - 1 THEN (n - 1) - 1 + 1 ELSE 0)
        /\ \A i \in 1..((n - 1) - 1 + 1) : SubSeq(s, 1, n - 1)[i] = s[1 + i - 1]
    <2>1. 1 \in Int /\ n - 1 \in Int
      BY <1>3
    <2> QED
      BY ONLY <1>2, <2>1, SubSeqProperties
  <1> DEFINE f == SubSeq(s, 1, n - 1)
  <1> HIDE DEF f
  <1>5. f \in Seq(S) /\ Len(f) = n - 1
    BY <1>3, <1>4 DEF f
  <1>6. \A i \in 1..(n - 1) : f[i] = s[i]
    <2> TAKE i \in 1..(n - 1)
    <2>1. i \in 1..((n - 1) - 1 + 1) /\ 1 + i - 1 = i
      BY <1>3
    <2> QED
      BY <1>4, <2>1 DEF f
  <1> QED
    BY <1>3, <1>5, <1>6 DEF f, n

\* What the type returned last says.
LEMMA GotParts ==
    ASSUME NEW t, NEW er \in BOOLEAN
    PROVE  Got(t, er) \in 0..1 /\ (Got(t, er) = 1 <=> Fine(t, er))
  BY DEF Got, Fine

\* Knowing more than is needed does no harm.
LEMMA CheckerWeaken ==
    ASSUME NEW ds, NEW gl, NEW er, NEW a \in CheckerKnown, NEW b \in CheckerKnown, AtLeast(a, b),
           NEW s, NEW c, CheckerLeads(ds, gl, er, s, b, c)
    PROVE  \E d : CheckerLeads(ds, gl, er, s, a, d) /\ d.ended = c.ended
  <1>1. /\ b.got <= a.got /\ b.outer = a.outer /\ b.loops = a.loops /\ b.ended = a.ended
        /\ a.got \in 0..1 /\ b.got \in 0..1
    BY DEF AtLeast, CheckerKnown
  <1>2. ASSUME NEW x \in CheckerItems, NEW d, <<x, b, d>> \in CheckerSteps(ds, gl, er)
        PROVE  <<x, a, d>> \in CheckerSteps(ds, gl, er)
    <2>1. /\ d \in CheckerKnown /\ CheckerNeeds(x, b, ds, gl, er) /\ AtLeast(CheckerLeaves(x, b), d)
      BY <1>2 DEF CheckerSteps
    <2>2. CheckerLeaves(x, a) = CheckerLeaves(x, b)
      BY <1>1 DEF CheckerLeaves
    <2>3. CheckerNeeds(x, a, ds, gl, er)
      BY <1>1, <2>1 DEF CheckerNeeds
    <2> QED
      BY <2>1, <2>2, <2>3 DEF CheckerSteps
  <1>3. \A x \in CheckerItems : \A d : <<x, b, d>> \in CheckerSteps(ds, gl, er)
                                          => <<x, a, d>> \in CheckerSteps(ds, gl, er)
    BY <1>2
  <1>4. (s = <<>> /\ b = c) \/ CheckerLeads(ds, gl, er, s, a, c)
    BY <1>3, LeadsStronger DEF CheckerLeads
  <1>5. CASE s = <<>> /\ b = c
    <2>1. CheckerLeads(ds, gl, er, s, a, a)
      BY <1>5, LeadsEmpty DEF CheckerLeads
    <2> QED
      BY <1>1, <1>5, <2>1
  <1> QED
    BY <1>4, <1>5

\* An error makes nothing impossible.
LEMMA CheckerMore ==
    ASSUME NEW ds, NEW gl, NEW er \in BOOLEAN, NEW er2 \in BOOLEAN, er => er2,
           NEW s, NEW a, NEW b, CheckerLeads(ds, gl, er, s, a, b)
    PROVE  CheckerLeads(ds, gl, er2, s, a, b)
  <1>1. ASSUME NEW x, NEW y, CheckerNeeds(x, y, ds, gl, er)
        PROVE  CheckerNeeds(x, y, ds, gl, er2)
    BY <1>1 DEF CheckerNeeds, Fine
  <1>2. CheckerSteps(ds, gl, er) \subseteq CheckerSteps(ds, gl, er2)
    BY <1>1 DEF CheckerSteps
  <1> QED
    BY <1>2, LeadsMore DEF CheckerLeads

\* The item on top, and what is left when it has been worked off.
LEMMA WalkTop ==
    ASSUME NEW ds, NEW ps, NEW nx, NEW gl, NEW sc, NEW lp, NEW wk, NEW gt, NEW er,
           WalkOK(ds, ps, nx, gl, sc, lp, wk, gt, er), wk # <<>>
    PROVE  /\ ps = "bodies" /\ gt \in TypesNil /\ er \in BOOLEAN /\ sc \in Seq(Scopes) /\ sc # <<>>
           /\ lp \in Nat /\ Front(sc) \in Seq(Scopes)
           /\ \A i \in 1..Len(sc) : \A name \in DOMAIN sc[i] : Fine(sc[i][name], er)
           /\ Head(wk) \in CheckerItems
           /\ CheckerNeeds(Head(wk), Here(sc, lp, gt, er), ds, gl, er)
           /\ CheckerLeaves(Head(wk), Here(sc, lp, gt, er)) \in CheckerKnown
           /\ \E d : /\ CheckerLeads(ds, gl, er, Tail(wk),
                                     CheckerLeaves(Head(wk), Here(sc, lp, gt, er)), d)
                     /\ d.ended = 1
  <1>1. /\ ps = "bodies" /\ gt \in TypesNil /\ er \in BOOLEAN /\ sc \in Seq(Scopes) /\ sc # <<>>
        /\ lp \in Nat
        /\ \A i \in 1..Len(sc) : \A name \in DOMAIN sc[i] : Fine(sc[i][name], er)
    BY DEF WalkOK
  <1>2. Front(sc) \in Seq(Scopes)
    BY <1>1, FrontParts
  <1> DEFINE a == Here(sc, lp, gt, er)
             x == Head(wk)
             t == Tail(wk)
  <1>3. PICK c : CheckerLeads(ds, gl, er, wk, a, c) /\ c.ended = 1
    BY DEF WalkOK
  <1>4. /\ a \in CheckerKnown /\ a.got \in 0..1 /\ a.outer = Front(sc) /\ a.loops = lp
    <2>1. Got(gt, er) \in 0..1
      BY <1>1, GotParts
    <2>2. a = K(Got(gt, er), Front(sc), lp)
      BY DEF Here
    <2> HIDE DEF a
    <2>3. /\ K(Got(gt, er), Front(sc), lp) \in CheckerKnown
          /\ K(Got(gt, er), Front(sc), lp).got = Got(gt, er)
          /\ K(Got(gt, er), Front(sc), lp).outer = Front(sc)
          /\ K(Got(gt, er), Front(sc), lp).loops = lp
      BY ONLY <1>1, <1>2, <2>1, KnownParts
    <2> QED
      BY <2>1, <2>2, <2>3
  <1>5. PICK b : <<x, a, b>> \in CheckerSteps(ds, gl, er) /\ CheckerLeads(ds, gl, er, t, b, c)
    BY <1>3, LeadsTail DEF CheckerLeads
  <1> HIDE DEF x, t, a
  <1> DEFINE e == CheckerLeaves(x, a)
  <1>6. x \in CheckerItems /\ b \in CheckerKnown /\ CheckerNeeds(x, a, ds, gl, er) /\ AtLeast(e, b)
    BY <1>5 DEF CheckerSteps
  <1>7. e \in CheckerKnown
    <2>1. x.do = "stmts" => Front(a.outer) \in Seq(Scopes)
      BY <1>2, <1>4, <1>6, FrontParts DEF CheckerNeeds
    <2>2. x.do = "endLoop" => a.loops - 1 \in Nat
      BY <1>1, <1>4, <1>6 DEF CheckerNeeds
    <2>3. a.outer \in Seq(Scopes) /\ a.loops \in Nat
      BY <1>1, <1>2, <1>4
    <2>4. e.got \in 0..1 /\ e.ended \in 0..1
      BY DEF CheckerLeaves
    <2>5. e.outer \in Seq(Scopes)
      BY <2>1, <2>3 DEF CheckerLeaves
    <2>6. e.loops \in Nat
      BY <2>2, <2>3 DEF CheckerLeaves
    <2>7. e = [got |-> e.got, outer |-> e.outer, loops |-> e.loops, ended |-> e.ended]
      BY DEF CheckerLeaves
    <2> HIDE DEF e
    <2> QED
      BY <2>4, <2>5, <2>6, <2>7 DEF CheckerKnown
  <1> HIDE DEF e
  <1>8. \E d : CheckerLeads(ds, gl, er, t, e, d) /\ d.ended = 1
    BY <1>3, <1>5, <1>6, <1>7, CheckerWeaken
  <1> QED
    BY <1>1, <1>2, <1>6, <1>7, <1>8 DEF e, x, t, a

\* The items before the rest are not the last.
LEMMA NotLast ==
    ASSUME NEW ds, NEW gl, NEW er, NEW s, NEW a, NEW d,
           CheckerLeads(ds, gl, er, s, a, d), a.ended = 0, d.ended = 1
    PROVE  s # <<>>
  <1> SUFFICES ASSUME s = <<>> PROVE FALSE
    OBVIOUS
  <1>1. Len(s) = 0
    BY EmptySeq
  <1>2. PICK q : q[1] = a /\ q[Len(s) + 1] = d
    BY DEF CheckerLeads, Leads
  <1> QED
    BY <1>1, <1>2

\* Items before the rest.
LEMMA WalkDone ==
    ASSUME NEW ds, NEW ps, NEW nx, NEW gl, NEW sc, NEW lp, NEW gt, NEW er,
           ps = "bodies", sc \in Seq(Scopes), sc # <<>>, lp \in Nat, gt \in TypesNil,
           er \in BOOLEAN, \A i \in 1..Len(sc) : \A name \in DOMAIN sc[i] : Fine(sc[i][name], er),
           NEW s, NEW t, NEW c, NEW d,
           CheckerLeads(ds, gl, er, s, Here(sc, lp, gt, er), c),
           CheckerLeads(ds, gl, er, t, c, d), d.ended = 1
    PROVE  WalkOK(ds, ps, nx, gl, sc, lp, s \o t, gt, er)
  <1> DEFINE a == Here(sc, lp, gt, er)
  <1>1. a.ended = 0
    BY FrontParts, GotParts, KnownParts DEF Here
  <1>2. CheckerLeads(ds, gl, er, s \o t, a, d)
    BY LeadsConcat DEF CheckerLeads
  <1> DEFINE u == s \o t
  <1> HIDE DEF a, u
  <1>3. u # <<>>
    BY <1>1, <1>2, NotLast DEF u
  <1> QED
    BY <1>2, <1>3 DEF WalkOK, a, u

\* The item on top makes way for others, and whatever is returned is a type.
LEMMA WalkPush ==
    ASSUME NEW ds, NEW ps, NEW nx, NEW gl, NEW sc, NEW lp, NEW wk, NEW gt, NEW er,
           WalkOK(ds, ps, nx, gl, sc, lp, wk, gt, er), wk # <<>>,
           NEW gt2 \in TypesNil, NEW er2 \in BOOLEAN, er => er2, NEW s, NEW b \in CheckerKnown,
           CheckerLeads(ds, gl, er2, s, Here(sc, lp, gt2, er2), b),
           AtLeast(b, CheckerLeaves(Head(wk), Here(sc, lp, gt, er)))
    PROVE  WalkOK(ds, ps, nx, gl, sc, lp, s \o Tail(wk), gt2, er2)
  <1> DEFINE c == CheckerLeaves(Head(wk), Here(sc, lp, gt, er))
             t == Tail(wk)
  <1>1. /\ ps = "bodies" /\ er \in BOOLEAN /\ sc \in Seq(Scopes) /\ sc # <<>> /\ lp \in Nat
        /\ \A i \in 1..Len(sc) : \A name \in DOMAIN sc[i] : Fine(sc[i][name], er)
        /\ c \in CheckerKnown
        /\ \E d : CheckerLeads(ds, gl, er, t, c, d) /\ d.ended = 1
    BY WalkTop
  <1>2. AtLeast(b, c)
    OBVIOUS
  <1> HIDE DEF c, t
  <1>3. PICK d : CheckerLeads(ds, gl, er, t, c, d) /\ d.ended = 1
    BY <1>1
  <1>4. CheckerLeads(ds, gl, er2, t, c, d)
    BY <1>1, <1>3, CheckerMore
  <1>5. PICK e : CheckerLeads(ds, gl, er2, t, b, e) /\ e.ended = 1
    BY <1>1, <1>2, <1>3, <1>4, CheckerWeaken
  <1>6. \A i \in 1..Len(sc) : \A name \in DOMAIN sc[i] : Fine(sc[i][name], er2)
    BY <1>1 DEF Fine
  <1>7. WalkOK(ds, ps, nx, gl, sc, lp, s \o t, gt2, er2)
    BY <1>1, <1>5, <1>6, WalkDone
  <1> QED
    BY <1>7 DEF t

-----------------------------------------------------------------------------
(* The steps of the walk. *)

\* The first n declarations are those that the global names stand for.
Indexed(ds, gl, n) ==
    /\ DOMAIN gl = {ds[i].name : i \in 1..n}
    /\ \A i \in 1..n : gl[ds[i].name] = i

\* The walk is through the body of the declaration that has been reached.
BodyOK(ds, nx, wk) == wk # <<>> => HasBody(ds[nx])

\* What the walk through a body relies on, and what it leaves.
Sound ==
    /\ decls \in Seq(Declarations) /\ Indexed(decls, global, Len(decls)) /\ next \in 1..Len(decls)
    /\ WalkOK(decls, pass, next, global, scopes, loops, walk, got, errs)
    /\ BodyOK(decls, next, walk)
After == WalkOK(decls', pass', next', global', scopes', loops', walk', got', errs')
Walking(s, a, b) == CheckerLeads(decls, global, errs, s, a, b)

\* A global name stands for a declaration of that name.
LEMMA GlobalName ==
    ASSUME NEW ds \in Seq(Declarations), NEW gl, Indexed(ds, gl, Len(ds)), NEW name \in DOMAIN gl
    PROVE  /\ gl[name] \in 1..Len(ds) /\ ds[gl[name]] \in Declarations /\ ds[gl[name]].name = name
           /\ name \in Names /\ KindIn(name, ds, gl) = ds[gl[name]].kind
  <1>1. PICK i \in 1..Len(ds) : name = ds[i].name
    BY DEF Indexed
  <1>2. gl[name] = i
    BY <1>1 DEF Indexed
  <1>3. ds[i] \in Declarations
    BY ElementOfSeq
  <1> QED
    BY <1>1, <1>2, <1>3, DeclParts DEF KindIn

\* The fields of a struct are of types.
LEMMA StructFields ==
    ASSUME NEW ds \in Seq(Declarations), NEW gl, Indexed(ds, gl, Len(ds)), NEW name,
           KindIn(name, ds, gl) = "struct"
    PROVE  name \in DOMAIN gl /\ name \in Names /\ ds[gl[name]].fields \in Seq(NamedTypes)
  <1>1. name \in DOMAIN gl
    BY DEF KindIn
  <1> QED
    BY <1>1, GlobalName, DeclParts

\* The item on top makes way for others.
LEMMA Pushed ==
    ASSUME Sound, walk # <<>>, NEW s, Push(s), Keep, got' \in TypesNil, errs' \in BOOLEAN,
           errs => errs', NEW b \in CheckerKnown,
           CheckerLeads(decls, global, errs', s, Here(scopes, loops, got', errs'), b),
           AtLeast(b, CheckerLeaves(Top, Here(scopes, loops, got, errs)))
    PROVE  After
  <1>1. WalkOK(decls, pass, next, global, scopes, loops, s \o Tail(walk), got', errs')
    BY WalkPush DEF Sound, Top
  <1> QED
    BY <1>1 DEF After, Push, Keep

\* What is known as the item on top is reached, and what it leaves.
LEMMA TopParts ==
    ASSUME Sound, walk # <<>>, Top.do \notin EndItems
    PROVE  /\ Top \in CheckerItems /\ got \in TypesNil /\ errs \in BOOLEAN
           /\ Front(scopes) \in Seq(Scopes) /\ loops \in Nat /\ Got(got, errs) \in 0..1
           /\ Top.do \in Consumers => Fine(got, errs)
           /\ Top.do \in {"declare", "index", "pair"} => Fine(Top.type, errs)
           /\ Top.do = "inits" => StructIn(Top.type, decls, global)
           /\ \E h \in 0..1 : /\ CheckerLeaves(Top, Here(scopes, loops, got, errs))
                                   = K(h, Front(scopes), loops)
                              /\ h = 1 => Top.do \in Producers \/ (Top.do = "called" /\ Top.value)
                              /\ Top.do \in Producers => h = 1
  <1> DEFINE x == Head(walk)
             a == K(Got(got, errs), Front(scopes), loops)
  <1>1. /\ x \in CheckerItems /\ got \in TypesNil /\ errs \in BOOLEAN
        /\ Front(scopes) \in Seq(Scopes) /\ loops \in Nat
        /\ CheckerNeeds(x, a, decls, global, errs)
    BY WalkTop DEF Sound, Here
  <1>2. Got(got, errs) \in 0..1 /\ (Got(got, errs) = 1 <=> Fine(got, errs))
    BY <1>1, GotParts
  <1>3. a.got = Got(got, errs)
    BY DEF K
  <1>4. x.do \notin EndItems
    BY DEF Top
  <1>5. \E h \in 0..1 : /\ CheckerLeaves(x, K(Got(got, errs), Front(scopes), loops))
                             = K(h, Front(scopes), loops)
                        /\ h = 1 => x.do \in Producers \/ (x.do = "called" /\ x.value)
                        /\ x.do \in Producers => h = 1
    BY <1>1, <1>2, <1>4, PlainLeaves
  <1> HIDE DEF x, a
  <1>6. /\ x.do \in Consumers => Fine(got, errs)
        /\ x.do \in {"declare", "index", "pair"} => Fine(x.type, errs)
        /\ x.do = "inits" => StructIn(x.type, decls, global)
    BY <1>1, <1>2, <1>3 DEF CheckerNeeds
  <1> QED
    BY <1>1, <1>2, <1>5, <1>6 DEF Top, Here, x

\* The item on top ends with a type.
LEMMA Yielded ==
    ASSUME Sound, walk # <<>>, Top.do \notin EndItems, NEW t \in TypesNil, NEW bad \in BOOLEAN,
           Yield(t, bad),
           Top.do \in Producers \/ (Top.do = "called" /\ Top.value) => Fine(t, errs \/ bad)
    PROVE  After
  <1>1. got' = t /\ errs' = (errs \/ bad) /\ Push(<<>>) /\ Keep
    BY DEF Yield
  <1>2. /\ Front(scopes) \in Seq(Scopes) /\ loops \in Nat /\ errs \in BOOLEAN
    BY TopParts
  <1>3. PICK h \in 0..1 : /\ CheckerLeaves(Top, Here(scopes, loops, got, errs))
                               = K(h, Front(scopes), loops)
                          /\ h = 1 => Top.do \in Producers \/ (Top.do = "called" /\ Top.value)
    BY TopParts
  <1>4. got' \in TypesNil /\ errs' \in BOOLEAN /\ (errs => errs') /\ (h = 1 => Fine(got', errs'))
    BY <1>1, <1>2, <1>3
  <1>5. ASSUME NEW g \in TypesNil, NEW er \in BOOLEAN, h = 1 => Fine(g, er)
        PROVE  \E d : /\ CheckerLeads(decls, global, er, <<>>, Here(scopes, loops, g, er), d)
                      /\ AtLeast(d, K(h, Front(scopes), loops)) /\ d \in CheckerKnown
    <2>1. Got(g, er) \in 0..1 /\ h <= Got(g, er)
      BY <1>5, GotParts
    <2> DEFINE a == K(Got(g, er), Front(scopes), loops)
               b == K(h, Front(scopes), loops)
    <2>2. /\ a \in CheckerKnown /\ a.got = Got(g, er) /\ a.outer = Front(scopes)
          /\ a.loops = loops /\ a.ended = 0
      BY ONLY <1>2, <2>1, KnownParts
    <2>3. b.got = h /\ b.outer = Front(scopes) /\ b.loops = loops /\ b.ended = 0
      BY ONLY <1>2, h \in 0..1, KnownParts
    <2> HIDE DEF a, b
    <2>4. AtLeast(a, b)
      BY <2>1, <2>2, <2>3 DEF AtLeast
    <2>5. CheckerLeads(decls, global, er, <<>>, a, a)
      BY LeadsEmpty DEF CheckerLeads
    <2> QED
      BY <2>2, <2>4, <2>5 DEF Here, a, b
  <1>6. PICK d \in CheckerKnown :
            /\ CheckerLeads(decls, global, errs', <<>>, Here(scopes, loops, got', errs'), d)
            /\ AtLeast(d, K(h, Front(scopes), loops))
    BY <1>4, <1>5
  <1>7. AtLeast(d, CheckerLeaves(Top, Here(scopes, loops, got, errs)))
    BY <1>3, <1>6
  <1> QED
    BY <1>1, <1>2, <1>4, <1>6, <1>7, Pushed

\* The item on top returns nil, for a reason that is reported.
LEMMA Rejected ==
    ASSUME Sound, walk # <<>>, Top.do \notin EndItems, Reject
    PROVE  After
  <1>1. NoType \in TypesNil /\ TRUE \in BOOLEAN
    BY TypesAreTypes
  <1>2. \A b \in BOOLEAN : b => Fine(NoType, errs \/ b)
    BY DEF Fine
  <1>3. Fine(NoType, errs \/ TRUE)
    BY DEF Fine
  <1> QED
    BY <1>1, <1>3, Yielded DEF Reject

\* The item on top makes way for others that return a type, or do not.
LEMMA Visited ==
    ASSUME Sound, walk # <<>>, Top.do \notin EndItems, NEW s, Visit(s),
           Walking(s, K(Got(got, errs), Front(scopes), loops), K(1, Front(scopes), loops))
           \/ (/\ Top.do \notin Producers \cup {"called"}
               /\ Walking(s, K(Got(got, errs), Front(scopes), loops), K(0, Front(scopes), loops)))
    PROVE  After
  <1>1. got' = got /\ errs' = errs /\ Push(s) /\ Keep
    BY DEF Visit
  <1>2. /\ Front(scopes) \in Seq(Scopes) /\ loops \in Nat /\ errs \in BOOLEAN /\ got \in TypesNil
    BY TopParts
  <1>3. PICK h \in 0..1 : /\ CheckerLeaves(Top, Here(scopes, loops, got, errs))
                               = K(h, Front(scopes), loops)
                          /\ h = 1 => Top.do \in Producers \/ (Top.do = "called" /\ Top.value)
    BY TopParts
  <1>4. PICK j \in 0..1 : /\ Walking(s, Here(scopes, loops, got, errs), K(j, Front(scopes), loops))
                          /\ h <= j
    <2>1. CASE Walking(s, K(Got(got, errs), Front(scopes), loops), K(1, Front(scopes), loops))
      <3>1. 1 \in 0..1 /\ h <= 1
        BY <1>3
      <3> QED
        BY <2>1, <3>1 DEF Here
    <2>2. CASE /\ Top.do \notin Producers \cup {"called"}
               /\ Walking(s, K(Got(got, errs), Front(scopes), loops), K(0, Front(scopes), loops))
      <3>1. 0 \in 0..1 /\ h <= 0
        BY <1>3, <2>2
      <3> QED
        BY <2>2, <3>1 DEF Here
    <2> QED
      BY <2>1, <2>2
  <1> DEFINE a == K(j, Front(scopes), loops)
             b == K(h, Front(scopes), loops)
  <1>5. /\ a \in CheckerKnown /\ a.got = j /\ a.outer = Front(scopes) /\ a.loops = loops /\ a.ended = 0
        /\ b.got = h /\ b.outer = Front(scopes) /\ b.loops = loops /\ b.ended = 0
    BY ONLY <1>2, h \in 0..1, j \in 0..1, KnownParts
  <1>6. Walking(s, Here(scopes, loops, got, errs), a)
    BY <1>4
  <1>7. CheckerLeaves(Top, Here(scopes, loops, got, errs)) = b
    BY <1>3
  <1> HIDE DEF a, b
  <1>8. AtLeast(a, b)
    BY <1>4, <1>5 DEF AtLeast
  <1>9. CheckerLeads(decls, global, errs', s, Here(scopes, loops, got', errs'), a)
    BY <1>1, <1>6 DEF Walking
  <1> QED
    BY <1>1, <1>2, <1>5, <1>7, <1>8, <1>9, Pushed

-----------------------------------------------------------------------------
(* The items, one by one. *)

\* Two items of the checker.
LEMMA CheckerTwo ==
    ASSUME NEW ds, NEW gl, NEW er, NEW x \in CheckerItems, NEW y \in CheckerItems,
           NEW a, NEW b, NEW c,
           <<x, a, b>> \in CheckerSteps(ds, gl, er), <<y, b, c>> \in CheckerSteps(ds, gl, er)
    PROVE  CheckerLeads(ds, gl, er, <<x, y>>, a, c)
  BY LeadsTwo DEF CheckerLeads

\* One item of the checker.
LEMMA CheckerOne ==
    ASSUME NEW ds, NEW gl, NEW er, NEW x \in CheckerItems, NEW a, NEW b,
           <<x, a, b>> \in CheckerSteps(ds, gl, er)
    PROVE  CheckerLeads(ds, gl, er, <<x>>, a, b)
  BY LeadsOne DEF CheckerLeads

\* An expression returns a type.
LEMMA ExprStep ==
    ASSUME NEW ds, NEW gl, NEW er, NEW g \in 0..1, NEW o \in Seq(Scopes), NEW l \in Nat,
           NEW want \in TypesNil, NEW form \in Forms
    PROVE  /\ ExprOf(want, form) \in CheckerItems
           /\ <<ExprOf(want, form), K(g, o, l), K(1, o, l)>> \in CheckerSteps(ds, gl, er)
  <1> DEFINE x == ExprOf(want, form)
  <1>1. x \in CheckerItems /\ x.do = "expr"
    BY DEF ExprOf, CheckerItems
  <1>2. /\ x.do \notin EndItems /\ x.do \notin Consumers /\ x.do \in Producers
        /\ x.do \notin {"declare", "index", "pair"} /\ x.do # "inits" /\ 1 \in 0..1
    BY <1>1 DEF EndItems, Consumers, Producers
  <1> HIDE DEF x
  <1>3. <<x, K(g, o, l), K(1, o, l)>> \in CheckerSteps(ds, gl, er)
    BY <1>1, <1>2, PlainStep
  <1> QED
    BY <1>1, <1>3 DEF x

\* Whatever its form.
LEMMA WantingStep ==
    ASSUME NEW ds, NEW gl, NEW er, NEW g \in 0..1, NEW o \in Seq(Scopes), NEW l \in Nat,
           NEW want \in TypesNil
    PROVE  /\ Wanting(want) \in CheckerItems
           /\ <<Wanting(want), K(g, o, l), K(1, o, l)>> \in CheckerSteps(ds, gl, er)
  <1>1. "any" \in Forms
    BY DEF Forms
  <1>2. Wanting(want) = ExprOf(want, "any")
    BY DEF Wanting, ExprOf
  <1> QED
    BY <1>1, <1>2, ExprStep

\* Items that are no more than a name: those that look at a type and return
\* one, those that only look at one, one that only returns one, and the rest.
LEMMA ItemStep ==
    ASSUME NEW ds, NEW gl, NEW er, NEW g \in 0..1, NEW o \in Seq(Scopes), NEW l \in Nat,
           NEW name \in PlainItems \ EndItems
    PROVE  /\ Item(name) \in CheckerItems
           /\ name \in {"neg", "not", "addr", "deref", "base"} =>
                 <<Item(name), K(1, o, l), K(1, o, l)>> \in CheckerSteps(ds, gl, er)
           /\ name \in {"cond", "assign"} =>
                 <<Item(name), K(1, o, l), K(0, o, l)>> \in CheckerSteps(ds, gl, er)
           /\ name = "bool" =>
                 <<Item(name), K(g, o, l), K(1, o, l)>> \in CheckerSteps(ds, gl, er)
           /\ name \in {"block", "else", "loop", "call"} =>
                 <<Item(name), K(g, o, l), K(0, o, l)>> \in CheckerSteps(ds, gl, er)
  <1> DEFINE x == Item(name)
  <1>1. x \in CheckerItems /\ x.do = name
    BY DEF Item, CheckerItems
  <1>2. /\ name \notin EndItems /\ name \notin {"declare", "index", "pair"} /\ name # "inits"
        /\ 0 \in 0..1 /\ 1 \in 0..1 /\ 0 # 1
    BY DEF EndItems, PlainItems
  <1>3. /\ name \in {"neg", "not", "addr", "deref", "base", "bool"} => name \in Producers
        /\ name \in {"bool", "block", "else", "loop", "call"} => name \notin Consumers
    BY DEF Producers, Consumers
  <1> HIDE DEF x
  <1>4. name \in {"neg", "not", "addr", "deref", "base"} =>
            <<x, K(1, o, l), K(1, o, l)>> \in CheckerSteps(ds, gl, er)
    BY <1>1, <1>2, <1>3, PlainStep
  <1>5. name \in {"cond", "assign"} => <<x, K(1, o, l), K(0, o, l)>> \in CheckerSteps(ds, gl, er)
    BY <1>1, <1>2, PlainStep
  <1>6. name = "bool" => <<x, K(g, o, l), K(1, o, l)>> \in CheckerSteps(ds, gl, er)
    BY <1>1, <1>2, <1>3, PlainStep
  <1>7. name \in {"block", "else", "loop", "call"} =>
            <<x, K(g, o, l), K(0, o, l)>> \in CheckerSteps(ds, gl, er)
    BY <1>1, <1>2, <1>3, PlainStep
  <1> QED
    BY <1>1, <1>4, <1>5, <1>6, <1>7 DEF x

\* A value comes to a place of a type, to a cast or as an index.
LEMMA TypedStep ==
    ASSUME NEW ds, NEW gl, NEW er, NEW o \in Seq(Scopes), NEW l \in Nat, NEW t \in TypesNil,
           NEW name \in {"use", "cast", "index"}
    PROVE  /\ Typed(name, t) \in CheckerItems
           /\ name = "use" => <<Typed(name, t), K(1, o, l), K(0, o, l)>> \in CheckerSteps(ds, gl, er)
           /\ name = "cast" \/ (name = "index" /\ Fine(t, er)) =>
                 <<Typed(name, t), K(1, o, l), K(1, o, l)>> \in CheckerSteps(ds, gl, er)
  <1> DEFINE x == Typed(name, t)
  <1>1. x \in CheckerItems /\ x.do = name /\ x.type = t
    BY DEF Typed, CheckerItems
  <1>2. /\ name \notin EndItems /\ name # "inits" /\ name \notin {"declare", "pair"}
        /\ 0 \in 0..1 /\ 1 \in 0..1 /\ 0 # 1 /\ "index" # "cast" /\ "use" # "index"
    BY DEF EndItems
  <1>3. name \in {"cast", "index"} => name \in Producers
    BY DEF Producers
  <1> HIDE DEF x
  <1>4. name = "use" => <<x, K(1, o, l), K(0, o, l)>> \in CheckerSteps(ds, gl, er)
    BY <1>1, <1>2, PlainStep
  <1>5. name = "cast" \/ (name = "index" /\ Fine(t, er)) =>
            <<x, K(1, o, l), K(1, o, l)>> \in CheckerSteps(ds, gl, er)
    BY <1>1, <1>2, <1>3, PlainStep
  <1> QED
    BY <1>1, <1>4, <1>5 DEF x

\* A verdict, which is reported.
LEMMA VerdictStep ==
    ASSUME NEW ds, NEW gl, NEW er, NEW g \in 0..1, NEW o \in Seq(Scopes), NEW l \in Nat,
           NEW bad \in BOOLEAN
    PROVE  /\ Verdict(bad) \in CheckerItems
           /\ <<Verdict(bad), K(g, o, l), K(0, o, l)>> \in CheckerSteps(ds, gl, er)
  <1> DEFINE x == Verdict(bad)
  <1>1. x \in CheckerItems /\ x.do = "verdict"
    BY DEF Verdict, CheckerItems
  <1>2. /\ x.do \notin EndItems /\ x.do \notin Consumers
        /\ x.do \notin {"declare", "index", "pair"} /\ x.do # "inits" /\ 0 \in 0..1 /\ 0 # 1
    BY <1>1 DEF EndItems, Consumers
  <1> HIDE DEF x
  <1>3. <<x, K(g, o, l), K(0, o, l)>> \in CheckerSteps(ds, gl, er)
    BY <1>1, <1>2, PlainStep
  <1> QED
    BY <1>1, <1>3 DEF x

\* A variable is declared, of a type unless there was an error.
LEMMA DeclareStep ==
    ASSUME NEW ds, NEW gl, NEW er, NEW g \in 0..1, NEW o \in Seq(Scopes), NEW l \in Nat,
           NEW name \in LocalNames, NEW t \in TypesNil, Fine(t, er)
    PROVE  /\ [do |-> "declare", name |-> name, type |-> t] \in CheckerItems
           /\ <<[do |-> "declare", name |-> name, type |-> t], K(g, o, l), K(0, o, l)>>
                  \in CheckerSteps(ds, gl, er)
  <1> DEFINE x == [do |-> "declare", name |-> name, type |-> t]
  <1>1. x \in CheckerItems /\ x.do = "declare" /\ x.type = t
    BY DEF CheckerItems
  <1>2. x.do \notin EndItems /\ x.do \notin Consumers /\ x.do # "inits" /\ 0 \in 0..1 /\ 0 # 1
    BY <1>1 DEF EndItems, Consumers
  <1> HIDE DEF x
  <1>3. <<x, K(g, o, l), K(0, o, l)>> \in CheckerSteps(ds, gl, er)
    BY <1>1, <1>2, PlainStep
  <1> QED
    BY <1>1, <1>3 DEF x

\* The second of two operands.
SecondItem(op, first, form) == [do |-> "second", op |-> op, first |-> first, form |-> form]

\* It looks at a type and returns one.
LEMMA SecondStep ==
    ASSUME NEW ds, NEW gl, NEW er, NEW o \in Seq(Scopes), NEW l \in Nat,
           NEW op \in {"arith", "order", "equal"},
           NEW first \in {"lit", "nonlit"}, NEW form \in {"lit", "nonlit"}
    PROVE  /\ SecondItem(op, first, form) \in CheckerItems
           /\ <<SecondItem(op, first, form), K(1, o, l), K(1, o, l)>> \in CheckerSteps(ds, gl, er)
  <1> DEFINE x == SecondItem(op, first, form)
  <1>1. x \in CheckerItems /\ x.do = "second"
    BY DEF CheckerItems, SecondItem
  <1>2. "second" \notin EndItems /\ "second" \in Producers /\ 1 \in 0..1
    BY DEF EndItems, Producers
  <1> HIDE DEF x
  <1>3. <<x, K(1, o, l), K(1, o, l)>> \in CheckerSteps(ds, gl, er)
    BY <1>1, <1>2, PlainStep
  <1> QED
    BY <1>1, <1>3 DEF x

\* The pair of two operands.
PairItem(op, t, adopts) == [do |-> "pair", op |-> op, type |-> t, adopts |-> adopts]

\* It looks at the second type, knows the first and returns one.
LEMMA PairStep ==
    ASSUME NEW ds, NEW gl, NEW er, NEW o \in Seq(Scopes), NEW l \in Nat,
           NEW op \in {"arith", "order", "equal"}, NEW t \in TypesNil, Fine(t, er),
           NEW adopts \in BOOLEAN
    PROVE  /\ PairItem(op, t, adopts) \in CheckerItems
           /\ <<PairItem(op, t, adopts), K(1, o, l), K(1, o, l)>> \in CheckerSteps(ds, gl, er)
  <1> DEFINE y == PairItem(op, t, adopts)
  <1>1. y \in CheckerItems /\ y.do = "pair" /\ y.type = t
    BY DEF CheckerItems, PairItem
  <1>2. "pair" \notin EndItems /\ "pair" \in Producers /\ 1 \in 0..1
    BY DEF EndItems, Producers
  <1> HIDE DEF y
  <1>3. <<y, K(1, o, l), K(1, o, l)>> \in CheckerSteps(ds, gl, er)
    BY <1>1, <1>2, PlainStep
  <1> QED
    BY <1>1, <1>3 DEF y

\* A function has been called, for a value or as a statement.
LEMMA CalledStep ==
    ASSUME NEW ds, NEW gl, NEW er, NEW g \in 0..1, NEW o \in Seq(Scopes), NEW l \in Nat,
           NEW t \in TypesNil, NEW value \in BOOLEAN
    PROVE  /\ [do |-> "called", type |-> t, value |-> value] \in CheckerItems
           /\ \E h \in 0..1 : /\ value => h = 1
                              /\ <<[do |-> "called", type |-> t, value |-> value],
                                   K(g, o, l), K(h, o, l)>> \in CheckerSteps(ds, gl, er)
  <1> DEFINE x == [do |-> "called", type |-> t, value |-> value]
  <1>1. x \in CheckerItems /\ x.do = "called" /\ x.value = value
    BY DEF CheckerItems
  <1>2. /\ x.do \notin EndItems /\ x.do \notin Consumers /\ x.do # "inits"
        /\ x.do \notin {"declare", "index", "pair"} /\ 0 \in 0..1 /\ 1 \in 0..1 /\ 0 # 1
    BY <1>1 DEF EndItems, Consumers
  <1> HIDE DEF x
  <1>3. value => <<x, K(g, o, l), K(1, o, l)>> \in CheckerSteps(ds, gl, er)
    BY <1>1, <1>2, PlainStep
  <1>4. <<x, K(g, o, l), K(0, o, l)>> \in CheckerSteps(ds, gl, er)
    BY <1>1, <1>2, PlainStep
  <1>5. \E h \in 0..1 : (value => h = 1) /\ <<x, K(g, o, l), K(h, o, l)>> \in CheckerSteps(ds, gl, er)
    BY <1>2, <1>3, <1>4
  <1> QED
    BY <1>1, <1>5 DEF x

\* A field is selected, and a struct literal's fields are given.
LEMMA FieldSteps ==
    ASSUME NEW ds, NEW gl, NEW er, NEW g \in 0..1, NEW o \in Seq(Scopes), NEW l \in Nat,
           NEW name \in FieldNames, NEW t \in TypeExprs, NEW given \in SUBSET Names
    PROVE  /\ [do |-> "field", name |-> name] \in CheckerItems
           /\ <<[do |-> "field", name |-> name], K(1, o, l), K(1, o, l)>> \in CheckerSteps(ds, gl, er)
           /\ [do |-> "inits", type |-> t, given |-> given] \in CheckerItems
           /\ StructIn(t, ds, gl) =>
                 <<[do |-> "inits", type |-> t, given |-> given], K(g, o, l), K(1, o, l)>>
                     \in CheckerSteps(ds, gl, er)
  <1> DEFINE x == [do |-> "field", name |-> name]
             y == [do |-> "inits", type |-> t, given |-> given]
  <1>1. x \in CheckerItems /\ x.do = "field"
    BY DEF CheckerItems
  <1>2. y \in CheckerItems /\ y.do = "inits" /\ y.type = t
    BY DEF CheckerItems, InitsItems
  <1>3. /\ "field" \notin EndItems /\ "inits" \notin EndItems /\ "inits" \notin Consumers
        /\ "field" \in Producers /\ "inits" \in Producers /\ 1 \in 0..1
    BY DEF EndItems, Producers, Consumers
  <1> HIDE DEF x, y
  <1>4. <<x, K(1, o, l), K(1, o, l)>> \in CheckerSteps(ds, gl, er)
    BY <1>1, <1>3, PlainStep
  <1>5. StructIn(t, ds, gl) => <<y, K(g, o, l), K(1, o, l)>> \in CheckerSteps(ds, gl, er)
    BY <1>2, <1>3, PlainStep
  <1> QED
    BY <1>1, <1>2, <1>4, <1>5 DEF x, y

-----------------------------------------------------------------------------
(* Names and leaves. *)

\* Of a set of numbers up to n one is the greatest.
LEMMA GreatestNumber ==
    ASSUME NEW n \in Nat, NEW S, S \subseteq 1..n, S # {}
    PROVE  \E m \in S : \A j \in S : j <= m
  <1> DEFINE T == {n - i : i \in S}
  <1>1. T \subseteq Nat /\ T # {}
    <2>1. ASSUME NEW i \in S PROVE n - i \in Nat
      <3>1. i \in 1..n
        OBVIOUS
      <3> QED
        BY <3>1
    <2> QED
      BY <2>1
  <1>2. PICK k \in T : \A j \in T : k <= j
    BY <1>1, LeastNumber
  <1>3. PICK m \in S : k = n - m
    BY <1>2
  <1>4. ASSUME NEW j \in S PROVE j <= m
    <2>1. n - j \in T
      OBVIOUS
    <2>2. n - m <= n - j /\ j \in 1..n /\ m \in 1..n
      BY <1>2, <1>3, <2>1
    <2> QED
      BY <2>2
  <1> QED
    BY <1>4

\* What a name means has a type if it is a variable's, or an error was reported.
LEMMA LookupOK ==
    ASSUME Sound, walk # <<>>, NEW name
    PROVE  /\ Lookup(name).type \in TypesNil
           /\ Lookup(name).kind = "var" => Fine(Lookup(name).type, errs)
           /\ Lookup(name).kind \in {"func", "struct"} =>
                 KindIn(name, decls, global) = Lookup(name).kind
  <1> DEFINE in == {i \in DOMAIN scopes : name \in DOMAIN scopes[i]}
             m == CHOOSE i \in in : \A j \in in : j <= i
  <1>1. /\ scopes \in Seq(Scopes) /\ decls \in Seq(Declarations)
        /\ Indexed(decls, global, Len(decls))
        /\ \A i \in 1..Len(scopes) : \A k \in DOMAIN scopes[i] : Fine(scopes[i][k], errs)
    BY DEF Sound, WalkOK
  <1>2. KindOf(name) = KindIn(name, decls, global)
    BY DEF KindOf, KindIn
  <1>3. CASE in # {}
    <2>1. DOMAIN scopes = 1..Len(scopes) /\ Len(scopes) \in Nat
      BY <1>1, LenProperties
    <2>2. \E i \in in : \A j \in in : j <= i
      <3>1. in \subseteq 1..Len(scopes)
        BY <2>1
      <3> HIDE DEF in
      <3> QED
        BY <1>3, <2>1, <3>1, GreatestNumber
    <2>3. m \in in
      <3> HIDE DEF in
      <3> QED
        BY <2>2
    <2>4. m \in 1..Len(scopes) /\ name \in DOMAIN scopes[m]
      BY <2>1, <2>3
    <2>5. Lookup(name) = [kind |-> "var", type |-> scopes[m][name]]
      BY <1>3 DEF Lookup
    <2> HIDE DEF m, in
    <2>6. scopes[m] \in Scopes
      BY <1>1, <2>4, ElementOfSeq
    <2>7. scopes[m][name] \in TypesNil
      BY <2>4, <2>6 DEF Scopes
    <2>8. Fine(scopes[m][name], errs)
      BY <1>1, <2>4
    <2>9. Lookup(name).kind = "var" /\ Lookup(name).type = scopes[m][name]
      BY <2>5
    <2> QED
      BY <2>7, <2>8, <2>9
  <1>4. CASE in = {}
    <2>1. /\ Lookup(name).kind = KindIn(name, decls, global)
          /\ Lookup(name).type = IF KindIn(name, decls, global) = "var" THEN decls[global[name]].type
                                 ELSE NoType
      BY <1>2, <1>4 DEF Lookup
    <2>2. ASSUME KindIn(name, decls, global) = "var"
          PROVE  decls[global[name]].type \in TypeExprs
      <3>1. name \in DOMAIN global
        BY <2>2 DEF KindIn
      <3> QED
        BY <1>1, <2>2, <3>1, GlobalName, DeclParts
    <2>3. CASE KindIn(name, decls, global) = "var"
      BY <2>1, <2>2, <2>3, TypesAreTypes DEF Fine
    <2>4. CASE KindIn(name, decls, global) # "var"
      BY <2>1, <2>4, TypesAreTypes
    <2> QED
      BY <2>3, <2>4
  <1> QED
    BY <1>3, <1>4

\* What is known where an expression begins.
LEMMA ExprParts ==
    ASSUME Sound, AtItem("expr")
    PROVE  /\ walk # <<>> /\ Top.do = "expr" /\ Top.do \notin EndItems /\ Top.do \in Producers
           /\ Top.want \in TypesNil /\ Top.form \in Forms /\ got \in TypesNil /\ errs \in BOOLEAN
           /\ Front(scopes) \in Seq(Scopes) /\ loops \in Nat /\ Got(got, errs) \in 0..1
  <1>1. walk # <<>> /\ Top.do = "expr"
    BY DEF AtItem
  <1>2. Top.do \notin EndItems /\ Top.do \in Producers
    BY <1>1 DEF EndItems, Producers
  <1> QED
    BY <1>1, <1>2, TopParts, CheckerItemParts

\* An expression that is a type as it stands.
LEMMA LeafYielded ==
    ASSUME Sound, AtItem("expr"), NEW t \in TypesNil, NEW bad \in BOOLEAN, Yield(t, bad),
           Fine(t, errs \/ bad)
    PROVE  After
  BY ExprParts, Yielded

\* Literals and names.
LEMMA LeavesOK ==
    ASSUME Sound, CheckIntLit \/ CheckOtherLit \/ CheckIdent
    PROVE  After
  <1>1. AtItem("expr")
    BY DEF CheckIntLit, CheckNumber, CheckOtherLit, CheckIdent, AtExpr
  <1>2. \A t \in TypeExprs : \A b \in BOOLEAN : t \in TypesNil /\ Fine(t, errs \/ b)
    BY TypesAreTypes DEF Fine
  <1>3. CASE CheckIntLit
    <2>1. PICK v, neg : Yield(LitType(Top.want), ~Fits(v, neg, LitType(Top.want)))
      BY <1>3 DEF CheckIntLit, CheckNumber
    <2>2. LitType(Top.want) \in TypeExprs
      BY <1>1, ExprParts, LitTypes
    <2> DEFINE bad == ~Fits(v, neg, LitType(Top.want))
    <2>3. bad \in BOOLEAN
      OBVIOUS
    <2>4. Yield(LitType(Top.want), bad)
      BY <2>1
    <2> HIDE DEF bad
    <2> QED
      BY <1>1, <1>2, <2>2, <2>3, <2>4, LeafYielded
  <1>4. CASE CheckOtherLit
    <2>1. PICK t \in {Named("u8"), PtrTo(Named("u8")), Bool} : Yield(t, FALSE)
      BY <1>4 DEF CheckOtherLit
    <2>2. t \in TypeExprs /\ FALSE \in BOOLEAN
      BY KnownTypes
    <2>3. Fine(t, errs \/ FALSE) /\ t \in TypesNil
      BY <2>2, TypesAreTypes DEF Fine
    <2> QED
      BY <1>1, <2>1, <2>2, <2>3, LeafYielded
  <1>5. CASE CheckIdent
    <2>1. PICK name : Yield(Lookup(name).type, Lookup(name).kind # "var")
      BY <1>5 DEF CheckIdent
    <2>2. Lookup(name).type \in TypesNil /\ (Lookup(name).kind = "var" => Fine(Lookup(name).type, errs))
      BY <1>1, ExprParts, LookupOK
    <2> DEFINE bad == Lookup(name).kind # "var"
               t == Lookup(name).type
    <2>3. bad \in BOOLEAN /\ t \in TypesNil
      BY <2>2
    <2>4. Fine(t, errs \/ bad)
      BY <2>2 DEF Fine
    <2>5. Yield(t, bad)
      BY <2>1
    <2> HIDE DEF t, bad
    <2> QED
      BY <1>1, <2>3, <2>4, <2>5, LeafYielded
  <1> QED
    BY <1>3, <1>4, <1>5

\* Any item that looks at the type returned to it, and returns one.
LEMMA OperatorParts ==
    ASSUME Sound, NEW name \in Producers \cap Consumers, AtItem(name)
    PROVE  /\ walk # <<>> /\ Top.do = name /\ Top.do \notin EndItems /\ Top.do \in Producers
           /\ got \in TypesNil /\ errs \in BOOLEAN /\ Fine(got, errs) /\ Top \in CheckerItems
           /\ Front(scopes) \in Seq(Scopes) /\ loops \in Nat /\ Got(got, errs) = 1
           /\ Top.do \in {"declare", "index", "pair"} => Fine(Top.type, errs)
  <1>1. walk # <<>> /\ Top.do = name
    BY DEF AtItem
  <1>2. Top.do \notin EndItems /\ Top.do \in Producers /\ Top.do \in Consumers
    BY <1>1 DEF EndItems, Producers
  <1>3. Fine(got, errs) /\ errs \in BOOLEAN
    BY <1>1, <1>2, TopParts
  <1>4. Got(got, errs) = 1
    BY <1>3, GotParts
  <1> QED
    BY <1>1, <1>2, <1>3, <1>4, TopParts

\* It ends.
LEMMA OperatorYielded ==
    ASSUME Sound, NEW name \in Producers \cap Consumers, AtItem(name),
           NEW t \in TypesNil, NEW bad \in BOOLEAN, Yield(t, bad), Fine(t, errs \/ bad)
    PROVE  After
  BY OperatorParts, Yielded

-----------------------------------------------------------------------------
(* Operators. *)

\* An expression makes way for items that return a type.
LEMMA ExprVisited ==
    ASSUME Sound, AtItem("expr"), NEW s, Visit(s),
           Walking(s, K(Got(got, errs), Front(scopes), loops), K(1, Front(scopes), loops))
    PROVE  After
  BY ExprParts, Visited

\* One expression, and an item that looks at its type and returns one.
LEMMA OperandLead ==
    ASSUME Sound, AtItem("expr"), NEW want \in TypesNil, NEW form \in Forms, NEW y \in CheckerItems,
           <<y, K(1, Front(scopes), loops), K(1, Front(scopes), loops)>>
               \in CheckerSteps(decls, global, errs)
    PROVE  /\ Walking(<<ExprOf(want, form), y>>, K(Got(got, errs), Front(scopes), loops),
                      K(1, Front(scopes), loops))
           /\ Walking(<<Wanting(want), y>>, K(Got(got, errs), Front(scopes), loops),
                      K(1, Front(scopes), loops))
  <1> DEFINE o == Front(scopes)
             g == Got(got, errs)
             x == ExprOf(want, form)
             z == Wanting(want)
             a == K(g, o, loops)
             b == K(1, o, loops)
  <1>1. o \in Seq(Scopes) /\ loops \in Nat /\ g \in 0..1
    BY ExprParts
  <1>2. x \in CheckerItems /\ <<x, a, b>> \in CheckerSteps(decls, global, errs)
    BY <1>1, ExprStep
  <1>3. z \in CheckerItems /\ <<z, a, b>> \in CheckerSteps(decls, global, errs)
    BY <1>1, WantingStep
  <1> HIDE DEF x, z, a, b
  <1>4. <<y, b, b>> \in CheckerSteps(decls, global, errs)
    BY DEF b
  <1>5. Walking(<<x, y>>, a, b) /\ Walking(<<z, y>>, a, b)
    BY <1>2, <1>3, <1>4, CheckerTwo DEF Walking
  <1> QED
    BY <1>5 DEF x, z, a, b

\* Parentheses, and operators before an operand.
LEMMA UnaryOK ==
    ASSUME Sound, CheckParen \/ CheckUnary
    PROVE  After
  <1>1. AtItem("expr")
    BY DEF CheckParen, CheckUnary, AtExpr
  <1> DEFINE o == Front(scopes)
             a == K(Got(got, errs), o, loops)
             b == K(1, o, loops)
  <1>2. /\ o \in Seq(Scopes) /\ loops \in Nat /\ Got(got, errs) \in 0..1
        /\ Top.want \in TypesNil /\ Top.form \in Forms /\ NoType \in TypesNil
    BY <1>1, ExprParts, TypesAreTypes
  <1>3. \A name \in {"neg", "not", "addr", "deref"} :
            /\ Item(name) \in CheckerItems
            /\ <<Item(name), b, b>> \in CheckerSteps(decls, global, errs)
    <2>1. {"neg", "not", "addr", "deref"} \subseteq PlainItems \ EndItems /\ 1 \in 0..1
      BY DEF PlainItems, EndItems
    <2> QED
      BY <1>2, <2>1, ItemStep
  <1>4. ASSUME NEW want \in TypesNil, NEW form \in Forms, NEW name \in {"neg", "not", "addr", "deref"}
        PROVE  /\ Walking(<<ExprOf(want, form), Item(name)>>, a, b)
               /\ Walking(<<Wanting(want), Item(name)>>, a, b)
    BY <1>1, <1>3, OperandLead
  <1>5. ASSUME NEW form \in Forms, Visit(<<ExprOf(Top.want, form)>>) PROVE After
    <2>1. /\ ExprOf(Top.want, form) \in CheckerItems
          /\ <<ExprOf(Top.want, form), a, b>> \in CheckerSteps(decls, global, errs)
      BY <1>2, ExprStep
    <2>2. Walking(<<ExprOf(Top.want, form)>>, a, b)
      BY <2>1, CheckerOne DEF Walking
    <2> QED
      BY <1>1, <1>5, <2>2, ExprVisited
  <1>6. ASSUME NEW want \in TypesNil, NEW form \in Forms, NEW name \in {"neg", "not", "addr", "deref"},
               Visit(<<ExprOf(want, form), Item(name)>>) \/ Visit(<<Wanting(want), Item(name)>>)
        PROVE  After
    BY <1>1, <1>4, <1>6, ExprVisited
  <1>7. CASE CheckParen
    <2> DEFINE f == IF Top.form = "notInt" THEN "any" ELSE "lit"
    <2>1. f \in Forms
      BY DEF Forms
    <2>2. Visit(<<ExprOf(Top.want, f)>>)
      BY <1>7 DEF CheckParen
    <2> HIDE DEF f
    <2> QED
      BY <1>5, <2>1, <2>2
  <1>8. CASE CheckUnary
    <2> DEFINE f == CASE Top.form = "any" -> "notInt"
                      [] Top.form = "lit" -> "litNotInt"
                      [] OTHER -> Top.form
    <2>1. f \in Forms
      BY <1>2 DEF Forms
    <2>2. \/ Visit(<<ExprOf(Top.want, f), Item("neg")>>)
          \/ Visit(<<Wanting(NoType), Item("not")>>)
          \/ Visit(<<ExprOf(NoType, "place"), Item("addr")>>)
          \/ Reject
          \/ Visit(<<Wanting(NoType), Item("deref")>>)
      BY <1>8 DEF CheckUnary
    <2> HIDE DEF f
    <2>3. "place" \in Forms
      BY DEF Forms
    <2>4. CASE Visit(<<ExprOf(Top.want, f), Item("neg")>>)
      BY <1>2, <1>6, <2>1, <2>4
    <2>5. CASE Visit(<<Wanting(NoType), Item("not")>>)
      BY <1>2, <1>6, <2>5
    <2>6. CASE Visit(<<ExprOf(NoType, "place"), Item("addr")>>)
      BY <1>2, <1>6, <2>3, <2>6
    <2>7. CASE Reject
      BY <1>1, <2>7, ExprParts, Rejected
    <2>8. CASE Visit(<<Wanting(NoType), Item("deref")>>)
      BY <1>2, <1>6, <2>8
    <2> QED
      BY <2>2, <2>4, <2>5, <2>6, <2>7, <2>8
  <1> QED
    BY <1>7, <1>8

\* An operator before an operand, when the operand's type has come back.
LEMMA FinishUnaryOK ==
    ASSUME Sound, FinishUnary
    PROVE  After
  <1>1. {"neg", "not", "addr", "deref"} \subseteq Producers \cap Consumers
    BY DEF Producers, Consumers
  <1>2. CASE AtItem("neg") /\ Yield(IF IsInteger(got) THEN got ELSE NoType,
                                    got # NoType /\ ~IsInteger(got))
    <2> DEFINE t == IF IsInteger(got) THEN got ELSE NoType
               bad == got # NoType /\ ~IsInteger(got)
    <2>1. got \in TypesNil /\ Fine(got, errs)
      BY <1>1, <1>2, OperatorParts
    <2>2. t \in TypesNil /\ bad \in BOOLEAN /\ Fine(t, errs \/ bad)
      BY <2>1, TypesAreTypes DEF Fine
    <2>3. Yield(t, bad)
      BY <1>2
    <2> HIDE DEF t, bad
    <2> QED
      BY <1>1, <1>2, <2>2, <2>3, OperatorYielded
  <1>3. CASE AtItem("not") /\ Yield(IF got \in {Bool, NoType} THEN Bool ELSE NoType,
                                    got \notin {Bool, NoType})
    <2> DEFINE t == IF got \in {Bool, NoType} THEN Bool ELSE NoType
               bad == got \notin {Bool, NoType}
    <2>1. t \in TypesNil /\ bad \in BOOLEAN
      BY KnownTypes, TypesAreTypes
    <2>2. Fine(t, errs \/ bad)
      BY KnownTypes, TypesAreTypes DEF Fine
    <2>3. Yield(t, bad)
      BY <1>3
    <2> HIDE DEF t, bad
    <2> QED
      BY <1>1, <1>3, <2>1, <2>2, <2>3, OperatorYielded
  <1>4. CASE AtItem("addr") /\ Yield(IF got = NoType THEN got ELSE PtrTo(got), FALSE)
    <2> DEFINE t == IF got = NoType THEN got ELSE PtrTo(got)
    <2>1. got \in TypesNil /\ Fine(got, errs)
      BY <1>1, <1>4, OperatorParts
    <2>2. got # NoType => PtrTo(got) \in TypeExprs
      BY <2>1, KnownTypes DEF TypesNil
    <2>3. t \in TypesNil /\ Fine(t, errs \/ FALSE) /\ FALSE \in BOOLEAN
      BY <2>1, <2>2, TypesAreTypes DEF Fine
    <2>4. Yield(t, FALSE)
      BY <1>4
    <2> HIDE DEF t
    <2> QED
      BY <1>1, <1>4, <2>3, <2>4, OperatorYielded
  <1>5. CASE AtItem("deref") /\ IF IsPointer(got) THEN Yield([got EXCEPT !.wrap = Tail(@)], FALSE)
                                ELSE Yield(NoType, got # NoType)
    <2>1. got \in TypesNil /\ Fine(got, errs)
      BY <1>1, <1>5, OperatorParts
    <2>2. CASE IsPointer(got)
      <3> DEFINE t == [got EXCEPT !.wrap = Tail(@)]
      <3>1. t \in TypeExprs
        BY <2>1, <2>2, Unwrapped DEF IsPointer
      <3>2. Yield(t, FALSE)
        BY <1>5, <2>2
      <3> HIDE DEF t
      <3>3. t \in TypesNil /\ Fine(t, errs \/ FALSE) /\ FALSE \in BOOLEAN
        BY <3>1, TypesAreTypes DEF Fine
      <3> QED
        BY <1>1, <1>5, <3>2, <3>3, OperatorYielded
    <2>3. CASE ~IsPointer(got)
      <3> DEFINE bad == got # NoType
      <3>1. NoType \in TypesNil /\ bad \in BOOLEAN /\ Fine(NoType, errs \/ bad)
        BY <2>1, TypesAreTypes DEF Fine
      <3>2. Yield(NoType, bad)
        BY <1>5, <2>3
      <3> HIDE DEF bad
      <3> QED
        BY <1>1, <1>5, <3>1, <3>2, OperatorYielded
    <2> QED
      BY <2>2, <2>3
  <1> QED
    BY <1>2, <1>3, <1>4, <1>5 DEF FinishUnary

\* && and ||.
LEMMA LogicalOK ==
    ASSUME Sound, CheckLogical
    PROVE  After
  <1> DEFINE s == <<Wanting(NoType), Item("cond"), Wanting(NoType), Item("cond"), Item("bool")>>
  <1>1. CASE AtItem("expr") /\ Visit(s)
    <2> DEFINE o == Front(scopes)
               a == K(Got(got, errs), o, loops)
               b == K(1, o, loops)
               c == K(0, o, loops)
               x == Wanting(NoType)
               y == Item("cond")
               z == Item("bool")
               p == <<x, y>>
               q == <<x, y, z>>
    <2>1. /\ o \in Seq(Scopes) /\ loops \in Nat /\ Got(got, errs) \in 0..1 /\ NoType \in TypesNil
          /\ 0 \in 0..1
      BY <1>1, ExprParts, TypesAreTypes
    <2>2. x \in CheckerItems /\ <<x, a, b>> \in CheckerSteps(decls, global, errs)
      BY <2>1, WantingStep
    <2>3. x \in CheckerItems /\ <<x, c, b>> \in CheckerSteps(decls, global, errs)
      BY <2>1, WantingStep
    <2>4. "cond" \in PlainItems \ EndItems /\ "bool" \in PlainItems \ EndItems
      BY DEF PlainItems, EndItems
    <2>5. y \in CheckerItems /\ <<y, b, c>> \in CheckerSteps(decls, global, errs)
      BY <2>1, <2>4, ItemStep
    <2>6. z \in CheckerItems /\ <<z, c, b>> \in CheckerSteps(decls, global, errs)
      BY <2>1, <2>4, ItemStep
    <2>7. \A V : x \in V /\ y \in V /\ z \in V =>
              /\ p \in Seq(V) /\ Len(p) = 2 /\ p[1] = x /\ p[2] = y
              /\ q \in Seq(V) /\ Len(q) = 3 /\ q[1] = x /\ q[2] = y /\ q[3] = z
              /\ s \in Seq(V) /\ Len(s) = 5 /\ s[1] = x /\ s[2] = y /\ s[3] = x /\ s[4] = y /\ s[5] = z
      OBVIOUS
    <2> HIDE DEF a, b, c, x, y, z, s
    <2>8. Walking(p, a, c)
      BY <2>2, <2>5, CheckerTwo DEF Walking
    <2>9. Walking(q, c, b)
      BY <2>3, <2>5, <2>6, LeadsThree DEF Walking, CheckerLeads
    <2> HIDE DEF p, q
    <2>10. /\ p \in Seq(CheckerItems) /\ Len(p) = 2 /\ p[1] = x /\ p[2] = y
           /\ q \in Seq(CheckerItems) /\ Len(q) = 3 /\ q[1] = x /\ q[2] = y /\ q[3] = z
           /\ s \in Seq(CheckerItems) /\ Len(s) = 5 /\ s[1] = x /\ s[2] = y /\ s[3] = x /\ s[4] = y
           /\ s[5] = z
      BY <2>2, <2>5, <2>6, <2>7
    <2> DEFINE u == p \o q
    <2>11. /\ u \in Seq(CheckerItems) /\ Len(u) = Len(p) + Len(q)
           /\ \A i \in 1..(Len(p) + Len(q)) : u[i] = IF i <= Len(p) THEN p[i] ELSE q[i - Len(p)]
      BY <2>10, ConcatProperties
    <2>12. Walking(u, a, b)
      BY <2>8, <2>9, LeadsConcat DEF Walking, CheckerLeads
    <2> HIDE DEF u
    <2>13. Len(u) = 5 /\ u[1] = x /\ u[2] = y /\ u[3] = x /\ u[4] = y /\ u[5] = z
      BY <2>10, <2>11
    <2>14. \A i \in 1..Len(s) : s[i] = u[i]
      BY <2>10, <2>13
    <2>15. s = u
      BY <2>10, <2>11, <2>13, <2>14, SeqEqual
    <2>16. Walking(s, a, b)
      BY <2>12, <2>15
    <2> QED
      BY <1>1, <2>16, ExprVisited DEF a, b
  <1>2. CASE AtItem("bool") /\ Yield(Bool, FALSE)
    <2>1. walk # <<>> /\ Top.do = "bool"
      BY <1>2 DEF AtItem
    <2>2. Top.do \notin EndItems
      BY <2>1 DEF EndItems
    <2>3. Bool \in TypesNil /\ FALSE \in BOOLEAN /\ Fine(Bool, errs \/ FALSE)
      BY KnownTypes, TypesAreTypes DEF Fine
    <2> QED
      BY <1>2, <2>1, <2>2, <2>3, Yielded
  <1> QED
    BY <1>1, <1>2 DEF CheckLogical, AtExpr

\* The operands of an operator, the untyped literal last.
LEMMA OperandsOK ==
    ASSUME Sound, CheckOperandPair \/ SecondOperand
    PROVE  After
  <1> DEFINE o == Front(scopes)
             b == K(1, o, loops)
  <1>1. CASE CheckOperandPair
    <2>1. AtItem("expr")
      BY <1>1 DEF CheckOperandPair, AtExpr
    <2>2. PICK op \in {"arith", "order", "equal"}, x \in {"lit", "nonlit"}, y \in {"lit", "nonlit"} :
              Visit(<<ExprOf(IF op = "arith" /\ IsInteger(Top.want) THEN Top.want ELSE NoType,
                             IF x = "lit" /\ y = "nonlit" THEN y ELSE x),
                      [do |-> "second", op |-> op,
                       first |-> IF x = "lit" /\ y = "nonlit" THEN y ELSE x,
                       form |-> IF x = "lit" /\ y = "nonlit" THEN x ELSE y]>>)
      BY <1>1 DEF CheckOperandPair
    <2> DEFINE want == IF op = "arith" /\ IsInteger(Top.want) THEN Top.want ELSE NoType
               first == IF x = "lit" /\ y = "nonlit" THEN y ELSE x
               second == IF x = "lit" /\ y = "nonlit" THEN x ELSE y
               z == SecondItem(op, first, second)
    <2>3. want \in TypesNil
      BY <2>1, ExprParts, TypesAreTypes
    <2>4. first \in {"lit", "nonlit"} /\ second \in {"lit", "nonlit"}
      OBVIOUS
    <2>5. {"lit", "nonlit"} \subseteq Forms
      BY DEF Forms
    <2>6. o \in Seq(Scopes) /\ loops \in Nat
      BY <2>1, ExprParts
    <2>7. Visit(<<ExprOf(want, first), z>>)
      BY <2>2 DEF SecondItem
    <2> HIDE DEF want, first, second
    <2>8. z \in CheckerItems /\ <<z, b, b>> \in CheckerSteps(decls, global, errs)
      BY <2>4, <2>6, SecondStep
    <2> HIDE DEF z
    <2>9. first \in Forms
      BY <2>4, <2>5
    <2>10. Walking(<<ExprOf(want, first), z>>, K(Got(got, errs), o, loops), b)
      BY <2>1, <2>3, <2>8, <2>9, OperandLead
    <2> QED
      BY <2>1, <2>7, <2>10, ExprVisited
  <1>2. CASE SecondOperand
    <2>1. AtItem("second") /\ "second" \in Producers \cap Consumers
      BY <1>2 DEF SecondOperand, Producers, Consumers
    <2>2. /\ walk # <<>> /\ Top.do = "second" /\ Top.do \notin EndItems /\ Top.do \in Producers
          /\ Top \in CheckerItems /\ got \in TypesNil /\ errs \in BOOLEAN /\ Fine(got, errs)
          /\ o \in Seq(Scopes) /\ loops \in Nat /\ Got(got, errs) = 1
      BY <2>1, OperatorParts
    <2> DEFINE x == ExprOf(got, Top.form)
               adopts == Top.first # Top.form
               y == PairItem(Top.op, got, adopts)
    <2>3. /\ Top.op \in {"arith", "order", "equal"} /\ Top.first \in {"lit", "nonlit"}
          /\ Top.form \in {"lit", "nonlit"} /\ adopts \in BOOLEAN
      BY <2>2, CheckerItemParts
    <2>4. {"lit", "nonlit"} \subseteq Forms /\ 1 \in 0..1
      BY DEF Forms
    <2>5. x \in CheckerItems /\ <<x, b, b>> \in CheckerSteps(decls, global, errs)
      BY <2>2, <2>3, <2>4, ExprStep
    <2>6. Visit(<<x, y>>)
      BY <1>2 DEF SecondOperand, PairItem
    <2> HIDE DEF adopts
    <2>7. y \in CheckerItems /\ <<y, b, b>> \in CheckerSteps(decls, global, errs)
      BY <2>2, <2>3, PairStep
    <2> HIDE DEF x, y
    <2>8. Walking(<<x, y>>, b, b)
      BY <2>5, <2>7, CheckerTwo DEF Walking
    <2>9. Walking(<<x, y>>, K(Got(got, errs), o, loops), b)
      BY <2>2, <2>8
    <2> QED
      BY <2>2, <2>6, <2>9, Visited
  <1> QED
    BY <1>1, <1>2

\* The pair, when both types are known.
LEMMA FinishBinaryOK ==
    ASSUME Sound, FinishBinary
    PROVE  After
  <1>1. AtItem("pair") /\ "pair" \in Producers \cap Consumers
    BY DEF FinishBinary, Producers, Consumers
  <1>2. /\ got \in TypesNil /\ Fine(got, errs) /\ Fine(Top.type, errs) /\ errs \in BOOLEAN
    BY <1>1, OperatorParts DEF AtItem
  <1> DEFINE both == got # NoType /\ Top.type # NoType
             defined == CASE Top.op = "equal" -> IsInteger(got) \/ got = Bool \/ IsPointer(got)
                          [] OTHER -> IsInteger(got)
             good == both /\ got = Top.type /\ defined
             t == IF ~good THEN NoType ELSE IF Top.op = "arith" THEN got ELSE Bool
             bad == both /\ ~good
  <1>3. Yield(t, bad)
    BY DEF FinishBinary
  <1> HIDE DEF defined
  <1>4. t \in TypesNil /\ bad \in BOOLEAN
    BY <1>2, KnownTypes, TypesAreTypes
  <1>5. Fine(t, errs \/ bad)
    BY <1>2, KnownTypes, TypesAreTypes DEF Fine
  <1> HIDE DEF t, bad
  <1> QED
    BY <1>1, <1>3, <1>4, <1>5, OperatorYielded

\* A cast.
LEMMA CastOK ==
    ASSUME Sound, CheckCast
    PROVE  After
  <1> DEFINE o == Front(scopes)
             b == K(1, o, loops)
  <1>1. CASE AtItem("expr") /\ \E te \in LocalTypes : Visit(<<Wanting(NoType), Typed("cast", te)>>)
    <2>1. PICK te \in LocalTypes : Visit(<<Wanting(NoType), Typed("cast", te)>>)
      BY <1>1
    <2>2. te \in TypesNil /\ NoType \in TypesNil
      BY FilesOK, TypesAreTypes
    <2>3. o \in Seq(Scopes) /\ loops \in Nat /\ "cast" \in {"use", "cast", "index"}
      BY <1>1, ExprParts
    <2>4. /\ Typed("cast", te) \in CheckerItems
          /\ <<Typed("cast", te), b, b>> \in CheckerSteps(decls, global, errs)
      BY <2>2, <2>3, TypedStep
    <2>5. "any" \in Forms
      BY DEF Forms
    <2>6. Walking(<<Wanting(NoType), Typed("cast", te)>>, K(Got(got, errs), o, loops), b)
      BY <1>1, <2>2, <2>4, <2>5, OperandLead
    <2> QED
      BY <1>1, <2>1, <2>6, ExprVisited
  <1>2. CASE /\ AtItem("cast")
             /\ LET tt == TypeOf(Top.type)
                    good == (IsInteger(got) /\ IsInteger(tt)) \/ (IsPointer(got) /\ IsPointer(tt))
                IN  Yield(IF good THEN tt ELSE NoType, tt = NoType \/ (got # NoType /\ ~good))
    <2>1. AtItem("cast") /\ "cast" \in Producers \cap Consumers
      BY <1>2 DEF Producers, Consumers
    <2>2. got \in TypesNil /\ Fine(got, errs) /\ errs \in BOOLEAN /\ Top \in CheckerItems
          /\ Top.do = "cast"
      BY <2>1, OperatorParts
    <2>3. Top.type \in TypesNil
      BY <2>2, CheckerItemParts
    <2> DEFINE tt == TypeOf(Top.type)
               good == (IsInteger(got) /\ IsInteger(tt)) \/ (IsPointer(got) /\ IsPointer(tt))
               t == IF good THEN tt ELSE NoType
               bad == tt = NoType \/ (got # NoType /\ ~good)
    <2>4. tt \in TypesNil
      BY <2>3, TypesAreTypes DEF TypeOf
    <2>5. Yield(t, bad)
      BY <1>2
    <2> HIDE DEF tt
    <2>6. t \in TypesNil /\ bad \in BOOLEAN
      BY <2>4, TypesAreTypes
    <2>7. Fine(t, errs \/ bad)
      BY <2>2 DEF Fine
    <2> HIDE DEF t, bad
    <2> QED
      BY <2>1, <2>5, <2>6, <2>7, OperatorYielded
  <1> QED
    BY <1>1, <1>2 DEF CheckCast, AtExpr

\* A value where its type is known, a condition, a verdict: nothing is returned.
LEMMA EndsOK ==
    ASSUME Sound, Use \/ CheckCond \/ Report
    PROVE  After
  <1>1. ASSUME NEW name \in {"use", "cond", "verdict"}, AtItem(name), NEW bad \in BOOLEAN,
               Yield(NoType, bad)
        PROVE  After
    <2>1. walk # <<>> /\ Top.do = name
      BY <1>1 DEF AtItem
    <2>2. Top.do \notin EndItems /\ Top.do \notin Producers /\ Top.do # "called"
      BY <2>1 DEF EndItems, Producers
    <2>3. NoType \in TypesNil
      BY TypesAreTypes
    <2> QED
      BY <1>1, <2>1, <2>2, <2>3, Yielded
  <1>2. CASE Use
    <2> DEFINE bad == got # NoType /\ Top.type # NoType /\ got # Top.type
    <2>1. AtItem("use") /\ Yield(NoType, bad) /\ bad \in BOOLEAN
      BY <1>2 DEF Use
    <2> HIDE DEF bad
    <2> QED
      BY <1>1, <2>1
  <1>3. CASE CheckCond
    <2> DEFINE bad == got # NoType /\ got # Bool
    <2>1. AtItem("cond") /\ Yield(NoType, bad) /\ bad \in BOOLEAN
      BY <1>3 DEF CheckCond
    <2> HIDE DEF bad
    <2> QED
      BY <1>1, <2>1
  <1>4. CASE Report
    <2>1. AtItem("verdict") /\ Yield(NoType, Top.bad)
      BY <1>4 DEF Report
    <2>2. Top.bad \in BOOLEAN
      <3>1. walk # <<>> /\ Top.do = "verdict"
        BY <2>1 DEF AtItem
      <3>2. Top \in CheckerItems
        BY <3>1, TopParts DEF EndItems
      <3> QED
        BY <3>1, <3>2, CheckerItemParts
    <2> QED
      BY <1>1, <2>1, <2>2
  <1> QED
    BY <1>2, <1>3, <1>4

\* An assignment's right side.
LEMMA AssignOK ==
    ASSUME Sound, Assign
    PROVE  After
  <1>1. walk # <<>> /\ Top.do = "assign" /\ Visit(<<Wanting(got), Typed("use", got)>>)
    BY DEF Assign, AtItem
  <1>2. Top.do \notin EndItems /\ Top.do \notin Producers \cup {"called"}
    BY <1>1 DEF EndItems, Producers
  <1> DEFINE o == Front(scopes)
             a == K(Got(got, errs), o, loops)
             b == K(1, o, loops)
             c == K(0, o, loops)
             x == Wanting(got)
             y == Typed("use", got)
  <1>3. o \in Seq(Scopes) /\ loops \in Nat /\ got \in TypesNil /\ Got(got, errs) \in 0..1
        /\ "use" \in {"use", "cast", "index"}
    BY <1>1, <1>2, TopParts
  <1>4. x \in CheckerItems /\ <<x, a, b>> \in CheckerSteps(decls, global, errs)
    BY <1>3, WantingStep
  <1>5. y \in CheckerItems /\ <<y, b, c>> \in CheckerSteps(decls, global, errs)
    BY <1>3, TypedStep
  <1> HIDE DEF x, y, a, b, c
  <1>6. Walking(<<x, y>>, a, c)
    BY <1>4, <1>5, CheckerTwo DEF Walking
  <1> QED
    BY <1>1, <1>2, <1>6, Visited DEF x, y, a, b, c

-----------------------------------------------------------------------------
(* Calls, elements and fields. *)

\* An error alone changes nothing of what is to be done.
LEMMA Reported ==
    ASSUME Sound, walk # <<>>, errs' = TRUE, Keep, UNCHANGED <<walk, got>>
    PROVE  After
  <1> DEFINE a == Here(scopes, loops, got, errs)
             b == Here(scopes, loops, got, TRUE)
  <1>1. /\ pass = "bodies" /\ got \in TypesNil /\ errs \in BOOLEAN /\ scopes \in Seq(Scopes)
        /\ scopes # <<>> /\ loops \in Nat /\ Front(scopes) \in Seq(Scopes)
    BY WalkTop DEF Sound
  <1>2. PICK c : CheckerLeads(decls, global, errs, walk, a, c) /\ c.ended = 1
    BY DEF Sound, WalkOK
  <1>3. CheckerLeads(decls, global, TRUE, walk, a, c)
    BY <1>1, <1>2, CheckerMore
  <1>4. Got(got, errs) \in 0..1 /\ Got(got, TRUE) = 1 /\ 1 \in 0..1
    BY <1>1, GotParts DEF Got
  <1>5. a \in CheckerKnown /\ b \in CheckerKnown /\ AtLeast(b, a)
    <2>1. \A g \in 0..1 : LET k == K(g, Front(scopes), loops) IN
              k \in CheckerKnown /\ k.got = g /\ k.outer = Front(scopes) /\ k.loops = loops /\ k.ended = 0
      BY ONLY <1>1, KnownParts
    <2>2. a = K(Got(got, errs), Front(scopes), loops) /\ b = K(1, Front(scopes), loops)
      BY <1>4 DEF Here
    <2> HIDE DEF a, b
    <2>3. /\ a \in CheckerKnown /\ a.got = Got(got, errs) /\ a.outer = Front(scopes)
          /\ a.loops = loops /\ a.ended = 0
      BY <1>4, <2>1, <2>2
    <2>4. /\ b \in CheckerKnown /\ b.got = 1 /\ b.outer = Front(scopes)
          /\ b.loops = loops /\ b.ended = 0
      BY <1>4, <2>1, <2>2
    <2> QED
      BY <1>4, <2>3, <2>4 DEF AtLeast
  <1> HIDE DEF a, b
  <1>6. ASSUME NEW er, er = TRUE
        PROVE  \E d : CheckerLeads(decls, global, er, walk, b, d) /\ d.ended = 1
    <2>1. CheckerLeads(decls, global, er, walk, a, c)
      BY <1>3, <1>6
    <2> QED
      BY <1>2, <1>5, <2>1, CheckerWeaken
  <1>7. \E d : CheckerLeads(decls, global, TRUE, walk, b, d) /\ d.ended = 1
    BY <1>6
  <1>8. WalkOK(decls, pass, next, global, scopes, loops, walk, got, TRUE)
    BY <1>1, <1>7 DEF WalkOK, b, Fine
  <1> QED
    BY <1>8 DEF After, Keep

\* Arguments, each for a parameter.
LEMMA ArgumentsLead ==
    ASSUME NEW ds, NEW gl, NEW er, NEW g \in 0..1, NEW o \in Seq(Scopes), NEW l \in Nat,
           NEW p \in Seq(NamedTypes)
    PROVE  \E j \in 0..1 :
               CheckerLeads(ds, gl, er,
                            [i \in 1..(2 * Len(p)) |->
                                IF i % 2 = 1 THEN Wanting(p[(i + 1) \div 2].type)
                                ELSE Typed("use", p[(i + 1) \div 2].type)],
                            K(g, o, l), K(j, o, l))
  <1> DEFINE n == Len(p)
             s == [i \in 1..(2 * n) |->
                      IF i % 2 = 1 THEN Wanting(p[(i + 1) \div 2].type)
                      ELSE Typed("use", p[(i + 1) \div 2].type)]
             j == IF n = 0 THEN g ELSE 0
             q == [i \in 1..(2 * n + 1) |->
                      IF i = 1 THEN K(g, o, l) ELSE IF i % 2 = 1 THEN K(0, o, l) ELSE K(1, o, l)]
  <1>1. n \in Nat /\ DOMAIN p = 1..n
    BY LenProperties
  <1>2. \A i \in 1..(2 * n) : (i + 1) \div 2 \in 1..n
    BY <1>1
  <1>3. \A i \in Nat : (i % 2 = 1 => (i + 1) % 2 # 1) /\ (i % 2 # 1 => (i + 1) % 2 = 1)
    OBVIOUS
  <1>4. \A i \in 1..(2 * n) : p[(i + 1) \div 2].type \in TypesNil
    BY <1>1, <1>2, NamedTypeParts, TypesAreTypes
  <1> HIDE DEF n
  <1>5. ASSUME NEW i \in 1..(2 * n)
        PROVE  s[i] \in CheckerItems /\ <<s[i], q[i], q[i + 1]>> \in CheckerSteps(ds, gl, er)
    <2> DEFINE t == p[(i + 1) \div 2].type
    <2>1. t \in TypesNil
      BY <1>4
    <2>2. 0 \in 0..1 /\ 1 \in 0..1 /\ "use" \in {"use", "cast", "index"}
      OBVIOUS
    <2>3. i \in Nat /\ i # 0 /\ i + 1 # 1 /\ i \in 1..(2 * n + 1) /\ i + 1 \in 1..(2 * n + 1)
      BY <1>1
    <2> HIDE DEF t
    <2>4. /\ Wanting(t) \in CheckerItems
          /\ <<Wanting(t), K(g, o, l), K(1, o, l)>> \in CheckerSteps(ds, gl, er)
          /\ <<Wanting(t), K(0, o, l), K(1, o, l)>> \in CheckerSteps(ds, gl, er)
      BY <2>1, <2>2, WantingStep
    <2>5. /\ Typed("use", t) \in CheckerItems
          /\ <<Typed("use", t), K(1, o, l), K(0, o, l)>> \in CheckerSteps(ds, gl, er)
      BY <2>1, <2>2, TypedStep
    <2>6. CASE i % 2 = 1
      <3>1. s[i] = Wanting(t) /\ q[i] \in {K(g, o, l), K(0, o, l)} /\ q[i + 1] = K(1, o, l)
        BY <1>3, <2>3, <2>6 DEF t
      <3> QED
        BY <2>4, <3>1
    <2>7. CASE i % 2 # 1
      <3>1. i # 1
        BY <2>7
      <3>2. s[i] = Typed("use", t) /\ q[i] = K(1, o, l) /\ q[i + 1] = K(0, o, l)
        BY <1>3, <2>3, <2>7, <3>1 DEF t
      <3> QED
        BY <2>5, <3>2
    <2> QED
      BY <2>6, <2>7
  <1>6. 2 * n \in Nat /\ j \in 0..1
    BY <1>1
  <1>7. s \in [1..(2 * n) -> CheckerItems]
    BY <1>5
  <1>8. s \in Seq(CheckerItems) /\ Len(s) = 2 * n
    <2> HIDE DEF s
    <2>1. s \in Seq(CheckerItems)
      BY <1>6, <1>7
    <2> QED
      BY <1>6, <1>7, <2>1, LenProperties
  <1>9. q[1] = K(g, o, l) /\ q[2 * n + 1] = K(j, o, l)
    <2>1. q[1] = K(g, o, l)
      BY <1>1
    <2>2. n # 0 => 2 * n + 1 # 1 /\ (2 * n + 1) % 2 = 1
      BY <1>1
    <2> QED
      BY <1>1, <2>1, <2>2
  <1> HIDE DEF s, q, j
  <1>10. CheckerLeads(ds, gl, er, s, K(g, o, l), K(j, o, l))
    BY <1>5, <1>8, <1>9 DEF CheckerLeads, Leads
  <1> QED
    BY <1>6, <1>10 DEF s, n

\* The item on top makes way for others, with an error.
LEMMA VisitedBadly ==
    ASSUME Sound, walk # <<>>, Top.do \notin EndItems, NEW s, Push(s), errs' = TRUE, Keep,
           UNCHANGED got, NEW j \in 0..1, Top.do \in Producers \cup {"called"} => j = 1,
           \A er \in BOOLEAN : er =>
               CheckerLeads(decls, global, er, s, K(1, Front(scopes), loops),
                            K(j, Front(scopes), loops))
    PROVE  After
  <1>1. /\ Front(scopes) \in Seq(Scopes) /\ loops \in Nat /\ errs \in BOOLEAN /\ got \in TypesNil
    BY TopParts
  <1>2. PICK h \in 0..1 : /\ CheckerLeaves(Top, Here(scopes, loops, got, errs))
                               = K(h, Front(scopes), loops)
                          /\ h = 1 => Top.do \in Producers \/ (Top.do = "called" /\ Top.value)
    BY TopParts
  <1>3. h <= j
    BY <1>2
  <1> DEFINE a == K(j, Front(scopes), loops)
             b == K(h, Front(scopes), loops)
  <1>4. /\ a \in CheckerKnown /\ a.got = j /\ a.outer = Front(scopes) /\ a.loops = loops /\ a.ended = 0
        /\ b.got = h /\ b.outer = Front(scopes) /\ b.loops = loops /\ b.ended = 0
    BY ONLY <1>1, h \in 0..1, j \in 0..1, KnownParts
  <1>5. \A g : \A er \in BOOLEAN : er =>
            CheckerLeads(decls, global, er, s, Here(scopes, loops, g, er), a)
    <2> TAKE g
    <2> TAKE er \in BOOLEAN
    <2>1. er => Got(g, er) = 1
      BY DEF Got
    <2> QED
      BY <2>1 DEF Here
  <1>6. CheckerLeaves(Top, Here(scopes, loops, got, errs)) = b
    BY <1>2
  <1> HIDE DEF a, b
  <1>7. AtLeast(a, b)
    BY <1>3, <1>4 DEF AtLeast
  <1>8. errs' \in BOOLEAN /\ errs' /\ got' \in TypesNil
    BY <1>1
  <1>9. CheckerLeads(decls, global, errs', s, Here(scopes, loops, got', errs'), a)
    BY ONLY <1>5, <1>8
  <1>10. AtLeast(a, CheckerLeaves(Top, Here(scopes, loops, got, errs)))
    BY <1>6, <1>7
  <1> QED
    BY <1>4, <1>8, <1>9, <1>10, Pushed

\* A function's parameters and its result.
LEMMA FunctionParts ==
    ASSUME Sound, walk # <<>>, NEW name, Lookup(name).kind = "func"
    PROVE  /\ decls[global[name]].params \in Seq(NamedTypes)
           /\ decls[global[name]].ret \in TypesNil
  <1>1. KindIn(name, decls, global) = "func"
    BY LookupOK
  <1>2. name \in DOMAIN global
    BY <1>1 DEF KindIn
  <1>3. decls \in Seq(Declarations) /\ Indexed(decls, global, Len(decls))
    BY DEF Sound
  <1> QED
    BY <1>1, <1>2, <1>3, GlobalName, DeclParts

\* A call, and its end.
LEMMA CallOK ==
    ASSUME Sound, CheckCall \/ Called
    PROVE  After
  <1> DEFINE o == Front(scopes)
             k(g) == K(g, o, loops)
  <1>1. CASE CheckCall
    <2>1. walk # <<>> /\ Top.do \in {"expr", "call"}
      BY <1>1 DEF CheckCall, AtExpr, AtItem
    <2>2. Top.do \notin EndItems /\ (Top.do # "expr" => Top.do \notin Producers \cup {"called"})
      BY <2>1 DEF EndItems, Producers
    <2>3. o \in Seq(Scopes) /\ loops \in Nat /\ Got(got, errs) \in 0..1
      BY <2>1, <2>2, TopParts
    <2> DEFINE f(name) == decls[global[name]]
               called(name) == [do |-> "called", type |-> f(name).ret, value |-> Top.do = "expr"]
               arguments(name) ==
                   [i \in 1..(2 * Len(f(name).params)) |->
                       IF i % 2 = 1 THEN Wanting(f(name).params[(i + 1) \div 2].type)
                       ELSE Typed("use", f(name).params[(i + 1) \div 2].type)]
    <2>4. PICK name, arity :
              IF Lookup(name).kind # "func" THEN arity /\ Reject
              ELSE IF ~arity THEN /\ Push(<<called(name)>>)
                                  /\ errs' = TRUE
                                  /\ Keep /\ UNCHANGED got
              ELSE Visit(arguments(name) \o <<called(name)>>)
      BY <1>1 DEF CheckCall
    <2>5. CASE Lookup(name).kind # "func"
      BY <2>1, <2>2, <2>4, <2>5, Rejected
    <2>6. ASSUME Lookup(name).kind = "func"
          PROVE  /\ f(name).params \in Seq(NamedTypes) /\ f(name).ret \in TypesNil
                 /\ (Top.do = "expr") \in BOOLEAN
      BY <2>1, <2>6, FunctionParts
    <2> DEFINE y == called(name)
               s == arguments(name)
               value == Top.do = "expr"
    <2>7. ASSUME Lookup(name).kind = "func", NEW g \in 0..1, NEW er
          PROVE  \E h \in 0..1 : /\ value => h = 1
                                 /\ CheckerLeads(decls, global, er, <<y>>, k(g), k(h))
      <3> DEFINE t == f(name).ret
      <3>1. t \in TypesNil /\ value \in BOOLEAN
        BY <2>6, <2>7
      <3>2. y = [do |-> "called", type |-> t, value |-> value]
        OBVIOUS
      <3> HIDE DEF t, value, y, s, f, k
      <3>3. /\ y \in CheckerItems
            /\ \E h \in 0..1 : (value => h = 1)
                               /\ <<y, K(g, o, loops), K(h, o, loops)>> \in CheckerSteps(decls, global, er)
        BY <2>3, <2>7, <3>1, <3>2, CalledStep
      <3>4. PICK h \in 0..1 : (value => h = 1)
                              /\ <<y, K(g, o, loops), K(h, o, loops)>> \in CheckerSteps(decls, global, er)
        BY <3>3
      <3>5. CheckerLeads(decls, global, er, <<y>>, K(g, o, loops), K(h, o, loops))
        BY <3>3, <3>4, CheckerOne
      <3> QED
        BY <3>4, <3>5 DEF k
    <2>8. CASE Lookup(name).kind = "func" /\ ~arity
      <3>1. Push(<<y>>) /\ errs' = TRUE /\ Keep /\ UNCHANGED got
        BY <2>4, <2>8
      <3> HIDE DEF y, s, f
      <3>2. Lookup(name).kind = "func" /\ 1 \in 0..1
        BY <2>8
      <3>3. CASE value
        <4>1. \A er \in BOOLEAN : er => CheckerLeads(decls, global, er, <<y>>, k(1), k(1))
          BY <2>7, <3>2, <3>3
        <4> QED
          BY <2>1, <2>2, <3>1, <3>2, <4>1, VisitedBadly
      <3>4. CASE ~value
        <4>1. Top.do \notin Producers \cup {"called"}
          BY <2>2, <3>4
        <4>2. PICK h \in 0..1 : CheckerLeads(decls, global, TRUE, <<y>>, k(1), k(h))
          BY <2>7, <3>2
        <4>3. \A er \in BOOLEAN : er => CheckerLeads(decls, global, er, <<y>>, k(1), k(h))
          BY <4>2
        <4> QED
          BY <2>1, <2>2, <3>1, <4>1, <4>3, VisitedBadly
      <3> QED
        BY <3>3, <3>4
    <2>9. CASE Lookup(name).kind = "func" /\ arity
      <3>1. Visit(s \o <<y>>)
        BY <2>4, <2>9
      <3>2. \E j \in 0..1 : CheckerLeads(decls, global, errs, s, k(Got(got, errs)), k(j))
        <4> DEFINE p == f(name).params
        <4>1. p \in Seq(NamedTypes)
          BY <2>6, <2>9
        <4>2. s = [i \in 1..(2 * Len(p)) |->
                      IF i % 2 = 1 THEN Wanting(p[(i + 1) \div 2].type)
                      ELSE Typed("use", p[(i + 1) \div 2].type)]
          OBVIOUS
        <4> HIDE DEF p, s, y, f
        <4> QED
          BY <2>3, <4>1, <4>2, ArgumentsLead
      <3> HIDE DEF y, s, f
      <3>3. PICK j \in 0..1 : CheckerLeads(decls, global, errs, s, k(Got(got, errs)), k(j))
        BY <3>2
      <3>4. PICK h \in 0..1 : (value => h = 1) /\ CheckerLeads(decls, global, errs, <<y>>, k(j), k(h))
        BY <2>7, <2>9
      <3>5. Walking(s \o <<y>>, k(Got(got, errs)), k(h))
        BY <3>3, <3>4, LeadsConcat DEF Walking, CheckerLeads
      <3>6. h = 1 \/ (h = 0 /\ Top.do \notin Producers \cup {"called"})
        BY <2>2, <3>4
      <3> QED
        BY <2>1, <2>2, <3>1, <3>5, <3>6, Visited
    <2> QED
      BY <2>5, <2>8, <2>9
  <1>2. CASE Called
    <2>1. walk # <<>> /\ Top.do = "called" /\ Yield(Top.type, Top.value /\ Top.type = NoType)
      BY <1>2 DEF Called, AtItem
    <2>2. Top.do \notin EndItems /\ Top.do \notin Producers
      BY <2>1 DEF EndItems, Producers
    <2>3. Top.type \in TypesNil /\ Top.value \in BOOLEAN
      BY <2>1, <2>2, TopParts, CheckerItemParts
    <2> DEFINE bad == Top.value /\ Top.type = NoType
               t == Top.type
    <2>4. bad \in BOOLEAN /\ t \in TypesNil /\ (Top.value => Fine(t, errs \/ bad)) /\ Yield(t, bad)
      BY <2>1, <2>3 DEF Fine
    <2> HIDE DEF bad, t
    <2> QED
      BY <2>1, <2>2, <2>4, Yielded
  <1> QED
    BY <1>1, <1>2

\* An element of an array.
LEMMA IndexOK ==
    ASSUME Sound, CheckIndex
    PROVE  After
  <1> DEFINE o == Front(scopes)
             b == K(1, o, loops)
  <1>1. CASE AtItem("expr") /\ Visit(<<Wanting(NoType), Item("base")>>)
    <2>1. o \in Seq(Scopes) /\ loops \in Nat /\ NoType \in TypesNil
      BY <1>1, ExprParts, TypesAreTypes
    <2>2. "base" \in PlainItems \ EndItems /\ 1 \in 0..1 /\ "any" \in Forms
      BY DEF PlainItems, EndItems, Forms
    <2>3. Item("base") \in CheckerItems /\ <<Item("base"), b, b>> \in CheckerSteps(decls, global, errs)
      BY <2>1, <2>2, ItemStep
    <2>4. Walking(<<Wanting(NoType), Item("base")>>, K(Got(got, errs), o, loops), b)
      BY <1>1, <2>1, <2>2, <2>3, OperandLead
    <2> QED
      BY <1>1, <2>4, ExprVisited
  <1>2. CASE AtItem("base") /\ Visit(<<Wanting(NoType), Typed("index", got)>>)
    <2>1. AtItem("base") /\ "base" \in Producers \cap Consumers
      BY <1>2 DEF Producers, Consumers
    <2>2. /\ walk # <<>> /\ Top.do \notin EndItems
          /\ got \in TypesNil /\ Fine(got, errs)
          /\ o \in Seq(Scopes) /\ loops \in Nat /\ Got(got, errs) = 1
      BY <2>1, OperatorParts
    <2> DEFINE x == Wanting(NoType)
               y == Typed("index", got)
    <2>3. NoType \in TypesNil /\ 1 \in 0..1 /\ "index" \in {"use", "cast", "index"}
      BY TypesAreTypes
    <2>4. x \in CheckerItems /\ <<x, b, b>> \in CheckerSteps(decls, global, errs)
      BY <2>2, <2>3, WantingStep
    <2>5. y \in CheckerItems /\ <<y, b, b>> \in CheckerSteps(decls, global, errs)
      BY <2>2, <2>3, TypedStep
    <2>6. Visit(<<x, y>>)
      BY <1>2
    <2> HIDE DEF x, y
    <2>7. Walking(<<x, y>>, b, b)
      BY <2>4, <2>5, CheckerTwo DEF Walking
    <2>8. Walking(<<x, y>>, K(Got(got, errs), o, loops), b)
      BY <2>2, <2>7
    <2> QED
      BY <2>2, <2>6, <2>8, Visited
  <1>3. CASE /\ AtItem("index")
             /\ LET bad == got # NoType /\ ~IsInteger(got)
                IN  IF Top.type.wrap # <<>> THEN Yield([Top.type EXCEPT !.wrap = Tail(@)], bad)
                    ELSE Yield(NoType, bad \/ Top.type # NoType)
    <2>1. AtItem("index") /\ "index" \in Producers \cap Consumers
      BY <1>3 DEF Producers, Consumers
    <2>2. /\ errs \in BOOLEAN /\ Fine(Top.type, errs) /\ Top \in CheckerItems /\ Top.do = "index"
      BY <2>1, OperatorParts
    <2>3. Top.type \in TypesNil
      BY <2>2, CheckerItemParts
    <2> DEFINE bad == got # NoType /\ ~IsInteger(got)
               t == [Top.type EXCEPT !.wrap = Tail(@)]
               bad2 == bad \/ Top.type # NoType
    <2>4. CASE Top.type.wrap # <<>>
      <3>1. Yield(t, bad) /\ bad \in BOOLEAN
        BY <1>3, <2>4
      <3>2. t \in TypeExprs
        BY <2>3, <2>4, Unwrapped
      <3> HIDE DEF t, bad
      <3>3. t \in TypesNil /\ Fine(t, errs \/ bad)
        BY <3>2, TypesAreTypes DEF Fine
      <3> QED
        BY <2>1, <3>1, <3>3, OperatorYielded
    <2>5. CASE ~(Top.type.wrap # <<>>)
      <3>1. Yield(NoType, bad2) /\ bad2 \in BOOLEAN
        BY <1>3, <2>5
      <3>2. NoType \in TypesNil /\ Fine(NoType, errs \/ bad2)
        BY <2>2, TypesAreTypes DEF Fine
      <3> HIDE DEF bad2
      <3> QED
        BY <2>1, <3>1, <3>2, OperatorYielded
    <2> QED
      BY <2>4, <2>5
  <1> QED
    BY <1>1, <1>2, <1>3 DEF CheckIndex, AtExpr

\* The fields of a struct type.
LEMMA FieldsParts ==
    ASSUME Sound, NEW t, IsStruct(t)
    PROVE  FieldsOf(t) \in Seq(NamedTypes) /\ t.leaf \in DOMAIN global /\ t.leaf \in Names
  <1>1. KindIn(t.leaf, decls, global) = "struct"
    BY DEF IsStruct, KindOf, KindIn
  <1>2. decls \in Seq(Declarations) /\ Indexed(decls, global, Len(decls))
    BY DEF Sound
  <1> QED
    BY <1>1, <1>2, StructFields DEF FieldsOf

\* A field of a struct.
LEMMA FieldOK ==
    ASSUME Sound, CheckField
    PROVE  After
  <1> DEFINE o == Front(scopes)
             b == K(1, o, loops)
             st == IF got.wrap = <<Ptr>> THEN Named(got.leaf) ELSE got
  <1>1. PICK name \in FieldNames :
            \/ AtExpr(Places) /\ Visit(<<Wanting(NoType), [do |-> "field", name |-> name]>>)
            \/ /\ AtItem("field")
               /\ IF IsStruct(st) /\ \E i \in DOMAIN FieldsOf(st) : FieldsOf(st)[i].name = name
                  THEN Yield((CHOOSE fd \in Range(FieldsOf(st)) : fd.name = name).type, FALSE)
                  ELSE Yield(NoType, got # NoType)
    BY DEF CheckField
  <1>2. CASE AtItem("expr") /\ Visit(<<Wanting(NoType), [do |-> "field", name |-> name]>>)
    <2>1. o \in Seq(Scopes) /\ loops \in Nat /\ NoType \in TypesNil /\ "any" \in Forms /\ 1 \in 0..1
      BY <1>2, ExprParts, TypesAreTypes DEF Forms
    <2> DEFINE y == [do |-> "field", name |-> name]
    <2>2. Bool \in TypeExprs /\ {} \in SUBSET Names
      BY KnownTypes
    <2>3. y \in CheckerItems /\ <<y, b, b>> \in CheckerSteps(decls, global, errs)
      BY <2>1, <2>2, FieldSteps
    <2>4. Visit(<<Wanting(NoType), y>>)
      BY <1>2
    <2> HIDE DEF y
    <2>5. Walking(<<Wanting(NoType), y>>, K(Got(got, errs), o, loops), b)
      BY <1>2, <2>1, <2>3, OperandLead
    <2> QED
      BY <1>2, <2>4, <2>5, ExprVisited
  <1>3. CASE /\ AtItem("field")
             /\ IF IsStruct(st) /\ \E i \in DOMAIN FieldsOf(st) : FieldsOf(st)[i].name = name
                THEN Yield((CHOOSE fd \in Range(FieldsOf(st)) : fd.name = name).type, FALSE)
                ELSE Yield(NoType, got # NoType)
    <2>1. AtItem("field") /\ "field" \in Producers \cap Consumers
      BY <1>3 DEF Producers, Consumers
    <2>2. errs \in BOOLEAN /\ Fine(got, errs)
      BY <2>1, OperatorParts
    <2> HIDE DEF st
    <2>3. CASE IsStruct(st) /\ \E i \in DOMAIN FieldsOf(st) : FieldsOf(st)[i].name = name
      <3> DEFINE fs == FieldsOf(st)
                 fd == CHOOSE x \in Range(fs) : x.name = name
                 t == fd.type
      <3>1. fs \in Seq(NamedTypes)
        BY <2>3, FieldsParts
      <3>2. PICK i \in DOMAIN fs : fs[i].name = name
        BY <2>3
      <3>3. Yield(t, FALSE)
        BY <1>3, <2>3
      <3> HIDE DEF fs
      <3>4. fs[i] \in Range(fs) /\ fs[i].name = name
        BY <3>2 DEF Range
      <3>5. fd \in Range(fs)
        BY <3>4
      <3> HIDE DEF fd
      <3>6. PICK k \in DOMAIN fs : fd = fs[k]
        BY <3>5 DEF Range
      <3>7. t \in TypeExprs
        BY <3>1, <3>6, NamedTypeParts
      <3> HIDE DEF t
      <3>8. t \in TypesNil /\ Fine(t, errs \/ FALSE) /\ FALSE \in BOOLEAN
        BY <3>7, TypesAreTypes DEF Fine
      <3> QED
        BY <2>1, <3>3, <3>8, OperatorYielded
    <2>4. CASE ~(IsStruct(st) /\ \E i \in DOMAIN FieldsOf(st) : FieldsOf(st)[i].name = name)
      <3> DEFINE bad == got # NoType
      <3>1. Yield(NoType, bad) /\ bad \in BOOLEAN
        BY <1>3, <2>4
      <3>2. NoType \in TypesNil /\ Fine(NoType, errs \/ bad)
        BY <2>2, TypesAreTypes DEF Fine
      <3> HIDE DEF bad
      <3> QED
        BY <2>1, <3>1, <3>2, OperatorYielded
    <2> QED
      BY <2>3, <2>4
  <1> QED
    BY <1>1, <1>2, <1>3 DEF AtExpr

\* A struct literal begins.
LEMMA StructLitOK ==
    ASSUME Sound, CheckStructLit
    PROVE  After
  <1> DEFINE o == Front(scopes)
  <1>1. AtItem("expr")
    BY DEF CheckStructLit, AtExpr
  <1>2. /\ walk # <<>> /\ Top.do \notin EndItems /\ o \in Seq(Scopes) /\ loops \in Nat
        /\ Got(got, errs) \in 0..1
    BY <1>1, ExprParts
  <1>3. PICK name \in LocalNames \cup DOMAIN global :
            IF Lookup(name).kind # "struct" THEN Reject
            ELSE Visit(<<[do |-> "inits", type |-> Named(name), given |-> {}]>>)
    BY DEF CheckStructLit
  <1>4. CASE Lookup(name).kind # "struct"
    BY <1>2, <1>3, <1>4, Rejected
  <1>5. CASE ~(Lookup(name).kind # "struct")
    <2>1. KindIn(name, decls, global) = "struct"
      BY <1>2, <1>5, LookupOK
    <2>2. name \in Names
      <3>1. decls \in Seq(Declarations) /\ Indexed(decls, global, Len(decls))
        BY DEF Sound
      <3> QED
        BY <2>1, <3>1, StructFields
    <2> DEFINE t == Named(name)
               x == [do |-> "inits", type |-> t, given |-> {}]
    <2>3. t \in TypeExprs /\ StructIn(t, decls, global)
      BY <2>1, <2>2, NamedType DEF StructIn
    <2>4. Visit(<<x>>)
      BY <1>3, <1>5
    <2> HIDE DEF t
    <2>5. {} \in SUBSET Names
      OBVIOUS
    <2>6. x \in CheckerItems
      <3>1. x \in InitsItems
        BY <2>3, <2>5 DEF InitsItems
      <3> QED
        BY <3>1 DEF CheckerItems
    <2>7. <<x, K(Got(got, errs), o, loops), K(1, o, loops)>> \in CheckerSteps(decls, global, errs)
      <3>1. x.do = "inits" /\ x.type = t /\ "inits" \notin EndItems /\ "inits" \notin Consumers
            /\ "inits" \in Producers /\ 1 \in 0..1
        BY DEF EndItems, Producers, Consumers
      <3> HIDE DEF x
      <3> QED
        BY <1>2, <2>3, <2>6, <3>1, PlainStep
    <2> HIDE DEF x
    <2>8. Walking(<<x>>, K(Got(got, errs), o, loops), K(1, o, loops))
      BY <2>6, <2>7, CheckerOne DEF Walking
    <2> QED
      BY <1>1, <2>4, <2>8, ExprVisited
  <1> QED
    BY <1>4, <1>5

\* The fields of a struct literal that are still to come.
LEMMA InitsStep ==
    ASSUME NEW ds, NEW gl, NEW er, NEW g \in 0..1, NEW o \in Seq(Scopes), NEW l \in Nat,
           NEW x \in InitsItems, StructIn(x.type, ds, gl)
    PROVE  x \in CheckerItems /\ <<x, K(g, o, l), K(1, o, l)>> \in CheckerSteps(ds, gl, er)
  <1>1. x \in CheckerItems
    BY DEF CheckerItems
  <1>2. x.do = "inits" /\ "inits" \notin EndItems /\ "inits" \notin Consumers
        /\ "inits" \in Producers /\ 1 \in 0..1
    BY DEF InitsItems, EndItems, Producers, Consumers
  <1> QED
    BY <1>1, <1>2, PlainStep

\* A field is given, one that does not exist, one that is given already, or
\* there are no more.
LEMMA InitsOK ==
    ASSUME Sound, CheckInits
    PROVE  After
  <1> DEFINE o == Front(scopes)
             b == K(1, o, loops)
             fields == FieldsOf(Top.type)
             given(i) == [Top EXCEPT !.given = @ \cup {fields[i].name}]
  <1>1. walk # <<>> /\ Top.do = "inits"
    BY DEF CheckInits, AtItem
  <1>2. Top.do \notin EndItems /\ Top.do \in Producers
    BY <1>1 DEF EndItems, Producers
  <1>3. /\ Top \in InitsItems /\ Top.type \in TypeExprs /\ StructIn(Top.type, decls, global)
        /\ o \in Seq(Scopes) /\ loops \in Nat /\ Got(got, errs) \in 0..1 /\ errs \in BOOLEAN
        /\ NoType \in TypesNil
    BY <1>1, <1>2, TopParts, CheckerItemParts, TypesAreTypes
  <1>4. fields \in Seq(NamedTypes)
    <2>1. IsStruct(Top.type)
      BY <1>3 DEF IsStruct, StructIn, KindOf, KindIn
    <2> QED
      BY <2>1, FieldsParts
  <1>5. \/ Yield(Top.type, Cardinality(Top.given) < Len(fields))
        \/ Push(<<Wanting(NoType), Top>>) /\ errs' = TRUE /\ Keep /\ UNCHANGED got
        \/ errs' = TRUE /\ Keep /\ UNCHANGED <<walk, got>>
        \/ \E i \in DOMAIN fields :
              Visit(<<Wanting(fields[i].type), Typed("use", fields[i].type), given(i)>>)
    BY DEF CheckInits
  <1> HIDE DEF fields
  <1>6. CASE Yield(Top.type, Cardinality(Top.given) < Len(fields))
    <2> DEFINE bad == Cardinality(Top.given) < Len(fields)
               t == Top.type
    <2>1. Yield(t, bad) /\ bad \in BOOLEAN /\ t \in TypesNil
      BY <1>3, <1>6, TypesAreTypes
    <2>2. Fine(t, errs \/ bad)
      BY <1>3, TypesAreTypes DEF Fine
    <2> HIDE DEF bad, t
    <2> QED
      BY <1>1, <1>2, <2>1, <2>2, Yielded
  <1>7. CASE Push(<<Wanting(NoType), Top>>) /\ errs' = TRUE /\ Keep /\ UNCHANGED got
    <2> DEFINE x == Wanting(NoType)
               y == Top
    <2>1. ASSUME NEW er \in BOOLEAN
          PROVE  CheckerLeads(decls, global, er, <<x, y>>, b, b)
      <3>1. 1 \in 0..1
        OBVIOUS
      <3>2. x \in CheckerItems /\ <<x, b, b>> \in CheckerSteps(decls, global, er)
        BY <1>3, <3>1, WantingStep
      <3>3. y \in CheckerItems /\ <<y, b, b>> \in CheckerSteps(decls, global, er)
        BY <1>3, <3>1, InitsStep
      <3> HIDE DEF x, y, b
      <3> QED
        BY <3>2, <3>3, CheckerTwo
    <2>2. Push(<<x, y>>) /\ errs' = TRUE /\ Keep /\ UNCHANGED got
      BY <1>7
    <2> HIDE DEF x, y
    <2>3. \A er \in BOOLEAN : er => CheckerLeads(decls, global, er, <<x, y>>, b, b)
      BY <2>1
    <2>4. 1 \in 0..1
      OBVIOUS
    <2> QED
      BY <1>1, <1>2, <2>2, <2>3, <2>4, VisitedBadly
  <1>8. CASE errs' = TRUE /\ Keep /\ UNCHANGED <<walk, got>>
    BY <1>1, <1>8, Reported
  <1>9. ASSUME NEW i \in DOMAIN fields,
               Visit(<<Wanting(fields[i].type), Typed("use", fields[i].type), given(i)>>)
        PROVE  After
    <2> DEFINE t == fields[i].type
               x == Wanting(t)
               y == Typed("use", t)
               z == given(i)
               a == K(Got(got, errs), o, loops)
               c == K(0, o, loops)
    <2>1. t \in TypesNil /\ fields[i].name \in Names
      BY <1>4, <1>9, NamedTypeParts, TypesAreTypes
    <2>2. z \in InitsItems /\ z.type = Top.type
      BY <1>3, <2>1 DEF InitsItems
    <2>3. Visit(<<x, y, z>>)
      BY <1>9
    <2> HIDE DEF t, given, b
    <2>4. 1 \in 0..1 /\ 0 \in 0..1 /\ "use" \in {"use", "cast", "index"}
      OBVIOUS
    <2>5. x \in CheckerItems /\ <<x, a, b>> \in CheckerSteps(decls, global, errs)
      BY <1>3, <2>1, WantingStep DEF b
    <2>6. y \in CheckerItems /\ <<y, b, c>> \in CheckerSteps(decls, global, errs)
      BY <1>3, <2>1, <2>4, TypedStep DEF b
    <2> HIDE DEF z
    <2>7. z \in CheckerItems /\ <<z, c, b>> \in CheckerSteps(decls, global, errs)
      BY <1>3, <2>2, <2>4, InitsStep DEF b
    <2> HIDE DEF x, y, a, c
    <2>8. Walking(<<x, y, z>>, a, b)
      BY <2>5, <2>6, <2>7, LeadsThree DEF Walking, CheckerLeads
    <2> QED
      BY <1>1, <1>2, <2>3, <2>8, Visited DEF a, b
  <1> QED
    BY <1>5, <1>6, <1>7, <1>8, <1>9

-----------------------------------------------------------------------------
(* Scopes and loops. *)

\* The item on top makes way for others, among other scopes and loops.
LEMMA Replaced ==
    ASSUME Sound, walk # <<>>, NEW sc \in Seq(Scopes), sc # <<>>, NEW lp \in Nat,
           NEW gt \in TypesNil, NEW er \in BOOLEAN, errs => er,
           \A i \in 1..Len(sc) : \A name \in DOMAIN sc[i] : Fine(sc[i][name], er),
           NEW s, NEW b \in CheckerKnown, CheckerLeads(decls, global, er, s, Here(sc, lp, gt, er), b),
           AtLeast(b, CheckerLeaves(Top, Here(scopes, loops, got, errs)))
    PROVE  WalkOK(decls, pass, next, global, sc, lp, s \o Tail(walk), gt, er)
  <1> DEFINE c == CheckerLeaves(Head(walk), Here(scopes, loops, got, errs))
             t == Tail(walk)
  <1>1. /\ pass = "bodies" /\ errs \in BOOLEAN /\ c \in CheckerKnown
        /\ \E d : CheckerLeads(decls, global, errs, t, c, d) /\ d.ended = 1
    BY WalkTop DEF Sound
  <1>2. AtLeast(b, c)
    BY DEF Top
  <1> HIDE DEF c, t
  <1>3. PICK d : CheckerLeads(decls, global, errs, t, c, d) /\ d.ended = 1
    BY <1>1
  <1>4. CheckerLeads(decls, global, er, t, c, d)
    BY <1>1, <1>3, CheckerMore
  <1>5. PICK e : CheckerLeads(decls, global, er, t, b, e) /\ e.ended = 1
    BY <1>1, <1>2, <1>3, <1>4, CheckerWeaken
  <1>6. WalkOK(decls, pass, next, global, sc, lp, s \o t, gt, er)
    BY <1>1, <1>5, WalkDone
  <1> QED
    BY <1>6 DEF t

\* What is known among other scopes and loops, when nothing is to be done there.
LEMMA ReplacedByNone ==
    ASSUME Sound, walk # <<>>, NEW sc \in Seq(Scopes), sc # <<>>, NEW lp \in Nat,
           NEW gt \in TypesNil, NEW er \in BOOLEAN, errs => er,
           \A i \in 1..Len(sc) : \A name \in DOMAIN sc[i] : Fine(sc[i][name], er),
           CheckerLeaves(Top, Here(scopes, loops, got, errs)) = K(0, Front(sc), lp)
    PROVE  WalkOK(decls, pass, next, global, sc, lp, <<>> \o Tail(walk), gt, er)
  <1> DEFINE b == Here(sc, lp, gt, er)
             c == K(0, Front(sc), lp)
  <1>1. Front(sc) \in Seq(Scopes) /\ Got(gt, er) \in 0..1 /\ 0 \in 0..1
    BY FrontParts, GotParts
  <1>2. /\ b \in CheckerKnown /\ b.got = Got(gt, er) /\ b.outer = Front(sc) /\ b.loops = lp
        /\ b.ended = 0
    BY ONLY <1>1, lp \in Nat, KnownParts DEF Here
  <1>3. c.got = 0 /\ c.outer = Front(sc) /\ c.loops = lp /\ c.ended = 0
    BY ONLY <1>1, lp \in Nat, KnownParts
  <1> HIDE DEF b, c
  <1>4. AtLeast(b, c)
    BY <1>1, <1>2, <1>3 DEF AtLeast
  <1>5. CheckerLeads(decls, global, er, <<>>, b, b)
    BY LeadsEmpty DEF CheckerLeads
  <1>6. AtLeast(b, CheckerLeaves(Top, Here(scopes, loops, got, errs)))
    BY <1>4 DEF c
  <1> QED
    BY <1>2, <1>5, <1>6, Replaced DEF b

\* A variable is declared in the innermost scope.
Declared(sc, x, t) == [sc EXCEPT ![Len(sc)] = Extend(@, x, t)]

\* It is of a type, and the other scopes are as they were.
LEMMA DeclaredScopes ==
    ASSUME NEW sc \in Seq(Scopes), sc # <<>>, NEW er \in BOOLEAN,
           \A i \in 1..Len(sc) : \A name \in DOMAIN sc[i] : Fine(sc[i][name], er),
           NEW x \in Names, NEW t \in TypesNil, Fine(t, er),
           NEW new, new = Declared(sc, x, t)
    PROVE  /\ new \in Seq(Scopes) /\ new # <<>> /\ Front(new) = Front(sc)
           /\ \A i \in 1..Len(new) : \A name \in DOMAIN new[i] : Fine(new[i][name], er)
  <1> DEFINE n == Len(sc)
             f == Extend(sc[n], x, t)
  <1>1. n \in Nat \ {0} /\ DOMAIN sc = 1..n /\ \A i \in 1..n : sc[i] \in Scopes
    BY FrontParts, LenProperties, ElementOfSeq
  <1>2. n \in 1..n
    BY <1>1
  <1>3. PICK D \in SUBSET Names : sc[n] \in [D -> TypesNil]
    BY <1>1, <1>2 DEF Scopes
  <1>4. f = [y \in D \cup {x} |-> IF y = x THEN t ELSE sc[n][y]]
    BY <1>3 DEF Extend
  <1>5. f \in Scopes
    <2>1. D \cup {x} \in SUBSET Names
      OBVIOUS
    <2>2. f \in [D \cup {x} -> TypesNil]
      BY <1>3, <1>4
    <2> HIDE DEF f
    <2> QED
      BY <2>1, <2>2 DEF Scopes
  <1>6. \A y \in DOMAIN f : Fine(f[y], er)
    <2>1. \A y \in D : Fine(sc[n][y], er)
      BY <1>2, <1>3
    <2>2. DOMAIN f = D \cup {x} /\ \A y \in D \cup {x} : f[y] = IF y = x THEN t ELSE sc[n][y]
      BY <1>4
    <2> HIDE DEF f
    <2> QED
      BY <2>1, <2>2
  <1>7. new = [sc EXCEPT ![n] = f]
    BY DEF Declared
  <1> HIDE DEF f, n
  <1>8. /\ DOMAIN new = 1..n
        /\ new[n] = f /\ \A i \in 1..n : i # n => new[i] = sc[i]
    BY <1>1, <1>2, <1>7
  <1>9. \A i \in 1..n : new[i] \in Scopes
    BY <1>1, <1>5, <1>8
  <1>10. new \in [1..n -> Scopes]
    BY <1>7, <1>8, <1>9
  <1>11. new \in Seq(Scopes) /\ Len(new) = n
    <2>1. new \in Seq(Scopes)
      BY <1>1, <1>10
    <2> QED
      BY <1>1, <1>8, <2>1, LenProperties
  <1>12. new # <<>>
    BY <1>1, <1>11, EmptySeq
  <1>13. \A i \in 1..Len(new) : \A name \in DOMAIN new[i] : Fine(new[i][name], er)
    <2> TAKE i \in 1..Len(new)
    <2>1. i \in 1..n
      BY <1>11
    <2>2. CASE i = n
      BY <1>6, <1>8, <2>2
    <2>3. CASE i # n
      <3>1. new[i] = sc[i] /\ i \in 1..Len(sc)
        BY <1>8, <2>1, <2>3 DEF n
      <3> QED
        BY <3>1
    <2> QED
      BY <2>2, <2>3
  <1>14. Front(new) = Front(sc)
    <2> DEFINE p == Front(new)
               q == Front(sc)
    <2>1. p \in Seq(Scopes) /\ Len(p) = n - 1 /\ \A i \in 1..(n - 1) : p[i] = new[i]
      BY <1>11, <1>12, FrontParts
    <2>2. q \in Seq(Scopes) /\ Len(q) = n - 1 /\ \A i \in 1..(n - 1) : q[i] = sc[i]
      BY FrontParts DEF n
    <2>3. \A i \in 1..(n - 1) : i \in 1..n /\ i # n
      BY <1>1
    <2> HIDE DEF p, q
    <2>4. \A i \in 1..Len(p) : p[i] = q[i]
      BY <1>8, <2>1, <2>2, <2>3
    <2>5. p = q
      BY <2>1, <2>2, <2>4, SeqEqual
    <2> QED
      BY <2>5 DEF p, q
  <1> QED
    BY <1>11, <1>12, <1>13, <1>14

\* A local variable.
LEMMA DeclareLocalOK ==
    ASSUME Sound, DeclareLocal
    PROVE  After
  <1>1. walk # <<>> /\ Top.do = "declare" /\ Push(<<>>) /\ UNCHANGED <<decls, pass, next, global, loops, got>>
    BY DEF DeclareLocal, AtItem
  <1>2. Top.do \notin EndItems /\ Top.do \notin Producers \cup {"called"}
    BY <1>1 DEF EndItems, Producers
  <1>3. /\ got \in TypesNil /\ errs \in BOOLEAN /\ loops \in Nat /\ scopes \in Seq(Scopes)
        /\ scopes # <<>>
        /\ \A i \in 1..Len(scopes) : \A name \in DOMAIN scopes[i] : Fine(scopes[i][name], errs)
    BY <1>1, WalkTop DEF Sound
  <1>4. /\ Top.type \in TypesNil /\ Top.name \in Names /\ Fine(Top.type, errs)
        /\ CheckerLeaves(Top, Here(scopes, loops, got, errs)) = K(0, Front(scopes), loops)
    <2>1. Top \in CheckerItems /\ Fine(Top.type, errs)
      BY <1>1, <1>2, TopParts
    <2>2. Top.type \in TypesNil /\ Top.name \in LocalNames
      BY <1>1, <2>1, CheckerItemParts
    <2>3. \E h \in 0..1 : /\ CheckerLeaves(Top, Here(scopes, loops, got, errs))
                                   = K(h, Front(scopes), loops)
                          /\ h = 1 => Top.do \in Producers \/ (Top.do = "called" /\ Top.value)
      BY <1>1, <1>2, TopParts
    <2>4. CheckerLeaves(Top, Here(scopes, loops, got, errs)) = K(0, Front(scopes), loops)
      BY <1>2, <2>3
    <2> QED
      BY <2>1, <2>2, <2>4, FilesOK
  <1>5. CASE Top.name \in DOMAIN Last(scopes)
    <2>1. errs' = TRUE /\ scopes' = scopes
      BY <1>5 DEF DeclareLocal
    <2>2. \A i \in 1..Len(scopes) : \A name \in DOMAIN scopes[i] : Fine(scopes[i][name], TRUE)
      BY DEF Fine
    <2>3. \A er \in BOOLEAN : er => /\ errs => er
                                    /\ \A i \in 1..Len(scopes) :
                                          \A name \in DOMAIN scopes[i] : Fine(scopes[i][name], er)
      BY <2>2
    <2>4. \A er \in BOOLEAN : er =>
              WalkOK(decls, pass, next, global, scopes, loops, <<>> \o Tail(walk), got, er)
      BY ONLY Sound, <1>1, <1>3, <1>4, <2>3, ReplacedByNone
    <2>5. WalkOK(decls, pass, next, global, scopes, loops, <<>> \o Tail(walk), got, TRUE)
      BY <2>4
    <2> QED
      BY <1>1, <2>1, <2>5 DEF After, Push
  <1>6. CASE ~(Top.name \in DOMAIN Last(scopes))
    <2>1. errs' = errs /\ scopes' = Declared(scopes, Top.name, Top.type)
      BY <1>6 DEF DeclareLocal, Declared
    <2>2. ASSUME NEW sc, sc = Declared(scopes, Top.name, Top.type)
          PROVE  WalkOK(decls, pass, next, global, sc, loops, <<>> \o Tail(walk), got, errs)
      <3>1. /\ sc \in Seq(Scopes) /\ sc # <<>> /\ Front(sc) = Front(scopes)
            /\ \A i \in 1..Len(sc) : \A name \in DOMAIN sc[i] : Fine(sc[i][name], errs)
        BY ONLY <1>3, <1>4, <2>2, DeclaredScopes
      <3>2. CheckerLeaves(Top, Here(scopes, loops, got, errs)) = K(0, Front(sc), loops)
        BY <1>4, <3>1
      <3> QED
        BY ONLY Sound, <1>1, <1>3, <3>1, <3>2, ReplacedByNone
    <2>3. WalkOK(decls, pass, next, global, scopes', loops, <<>> \o Tail(walk), got, errs)
      BY <2>1, <2>2
    <2> QED
      BY <1>1, <2>1, <2>3 DEF After, Push
  <1> QED
    BY <1>5, <1>6

\* A scope more, inside the others.
Opened(sc, x, new) ==
    /\ new \in Seq(Scopes) /\ new # <<>> /\ Front(new) = sc /\ Len(new) = Len(sc) + 1
    /\ new[Len(sc) + 1] = x /\ \A i \in 1..Len(sc) : new[i] = sc[i]

\* It comes last.
LEMMA AppendedScopes ==
    ASSUME NEW sc \in Seq(Scopes), NEW x \in Scopes
    PROVE  Opened(sc, x, Append(sc, x))
  <1> DEFINE n == Len(sc)
             new == Append(sc, x)
             p == Front(new)
  <1>1. n \in Nat
    BY LenProperties
  <1>2. /\ new \in Seq(Scopes) /\ Len(new) = n + 1 /\ new[n + 1] = x
        /\ \A i \in 1..n : new[i] = sc[i]
    BY AppendProperties
  <1> HIDE DEF new
  <1>3. new # <<>>
    BY <1>1, <1>2, EmptySeq
  <1>4. p \in Seq(Scopes) /\ Len(p) = n /\ \A i \in 1..n : p[i] = new[i]
    <2>1. p \in Seq(Scopes) /\ Len(p) = (n + 1) - 1 /\ \A i \in 1..((n + 1) - 1) : p[i] = new[i]
      BY <1>2, <1>3, FrontParts
    <2>2. (n + 1) - 1 = n
      BY <1>1
    <2> QED
      BY <2>1, <2>2
  <1> HIDE DEF p
  <1>5. \A i \in 1..Len(p) : p[i] = sc[i]
    BY <1>2, <1>4
  <1>6. p = sc
    BY <1>4, <1>5, SeqEqual
  <1> QED
    BY <1>2, <1>3, <1>6 DEF p, new, Opened

\* A block begins.
LEMMA CheckBlockOK ==
    ASSUME Sound, CheckBlock
    PROVE  After
  <1>1. /\ walk # <<>> /\ Top.do = "block" /\ scopes' = Append(scopes, <<>>)
        /\ Push(<<[do |-> "stmts", outer |-> scopes]>>)
        /\ UNCHANGED <<decls, pass, next, global, loops, got, errs>>
    BY DEF CheckBlock, AtItem
  <1>2. Top.do \notin EndItems /\ Top.do \notin Producers \cup {"called"}
    BY <1>1 DEF EndItems, Producers
  <1>3. /\ got \in TypesNil /\ errs \in BOOLEAN /\ loops \in Nat /\ scopes \in Seq(Scopes)
        /\ scopes # <<>> /\ Front(scopes) \in Seq(Scopes)
        /\ \A i \in 1..Len(scopes) : \A name \in DOMAIN scopes[i] : Fine(scopes[i][name], errs)
    BY <1>1, WalkTop DEF Sound
  <1>4. CheckerLeaves(Top, Here(scopes, loops, got, errs)) = K(0, Front(scopes), loops)
    <2>1. \E h \in 0..1 : /\ CheckerLeaves(Top, Here(scopes, loops, got, errs))
                                   = K(h, Front(scopes), loops)
                          /\ h = 1 => Top.do \in Producers \/ (Top.do = "called" /\ Top.value)
      BY <1>1, <1>2, TopParts
    <2> QED
      BY <1>2, <2>1
  <1>5. <<>> \in Scopes /\ DOMAIN <<>> = {}
    <2>1. <<>> \in [{} -> TypesNil]
      OBVIOUS
    <2>2. {} \in SUBSET Names
      OBVIOUS
    <2> QED
      BY <2>1, <2>2 DEF Scopes
  <1> DEFINE x == [do |-> "stmts", outer |-> scopes]
             c == K(0, Front(scopes), loops)
  <1>6. x \in CheckerItems /\ x.do = "stmts" /\ x.outer = scopes
    BY <1>3 DEF CheckerItems
  <1>7. Got(got, errs) \in 0..1 /\ 0 \in 0..1
    BY <1>3, GotParts
  <1>8. /\ c \in CheckerKnown /\ c.got = 0 /\ c.outer = Front(scopes) /\ c.loops = loops
        /\ c.ended = 0
    BY ONLY <1>3, <1>7, KnownParts
  <1> HIDE DEF x, c
  <1>9. ASSUME NEW sc, sc = Append(scopes, <<>>)
        PROVE  WalkOK(decls, pass, next, global, sc, loops, <<x>> \o Tail(walk), got, errs)
    <2>1. /\ sc \in Seq(Scopes) /\ sc # <<>> /\ Front(sc) = scopes /\ Len(sc) = Len(scopes) + 1
          /\ sc[Len(scopes) + 1] = <<>> /\ \A i \in 1..Len(scopes) : sc[i] = scopes[i]
      <3>1. \A y \in Scopes : Opened(scopes, y, Append(scopes, y))
        BY <1>3, AppendedScopes
      <3>2. Opened(scopes, <<>>, sc)
        BY <1>5, <1>9, <3>1
      <3> QED
        BY <3>2 DEF Opened
    <2>2. \A i \in 1..Len(sc) : \A name \in DOMAIN sc[i] : Fine(sc[i][name], errs)
      <3>1. Len(scopes) \in Nat
        BY <1>3, LenProperties
      <3> TAKE i \in 1..Len(sc)
      <3>2. CASE i \in 1..Len(scopes)
        BY <1>3, <2>1, <3>2
      <3>3. CASE i = Len(scopes) + 1
        BY <1>5, <2>1, <3>3
      <3> QED
        BY <2>1, <3>1, <3>2, <3>3
    <2> DEFINE a == K(Got(got, errs), scopes, loops)
               e == CheckerLeaves(x, a)
    <2>3. a \in CheckerKnown /\ a.outer = scopes /\ a.loops = loops
      BY ONLY <1>3, <1>7, KnownParts
    <2>4. Here(sc, loops, got, errs) = a
      BY <2>1 DEF Here
    <2> HIDE DEF a
    <2>5. CheckerNeeds(x, a, decls, global, errs)
      <3>1. "stmts" \notin Consumers
        BY DEF Consumers
      <3> QED
        BY <1>3, <1>6, <2>3, <3>1 DEF CheckerNeeds
    <2>6. e.got = 0 /\ e.outer = Front(scopes) /\ e.loops = loops /\ e.ended = 0
      <3>1. "stmts" \notin Producers
        BY DEF Producers
      <3> QED
        BY <1>6, <2>3, <3>1 DEF CheckerLeaves
    <2> HIDE DEF e
    <2>7. AtLeast(e, c)
      BY <1>8, <2>6 DEF AtLeast
    <2>8. <<x, a, c>> \in CheckerSteps(decls, global, errs)
      BY <1>6, <1>8, <2>3, <2>5, <2>7 DEF CheckerSteps, e
    <2>9. CheckerLeads(decls, global, errs, <<x>>, Here(sc, loops, got, errs), c)
      BY <1>6, <2>4, <2>8, CheckerOne
    <2>10. AtLeast(c, CheckerLeaves(Top, Here(scopes, loops, got, errs)))
      BY <1>4, <1>8 DEF AtLeast, c
    <2> QED
      BY ONLY Sound, <1>1, <1>3, <1>8, <2>1, <2>2, <2>9, <2>10, Replaced
  <1>10. WalkOK(decls, pass, next, global, scopes', loops, <<x>> \o Tail(walk), got, errs)
    BY <1>1, <1>9
  <1> QED
    BY <1>1, <1>10 DEF After, Push, x

\* A block ends.
LEMMA EndBlockOK ==
    ASSUME Sound, EndBlock
    PROVE  After
  <1>1. /\ walk # <<>> /\ Top.do = "stmts" /\ scopes' = Front(scopes) /\ got' = NoType /\ Push(<<>>)
        /\ UNCHANGED <<decls, pass, next, global, loops, errs>>
    BY DEF EndBlock, AtItem
  <1> DEFINE a == Here(scopes, loops, got, errs)
             e == CheckerLeaves(Top, a)
  <1>2. /\ got \in TypesNil /\ errs \in BOOLEAN /\ loops \in Nat /\ scopes \in Seq(Scopes)
        /\ scopes # <<>> /\ Front(scopes) \in Seq(Scopes)
        /\ \A i \in 1..Len(scopes) : \A name \in DOMAIN scopes[i] : Fine(scopes[i][name], errs)
        /\ CheckerNeeds(Top, a, decls, global, errs)
    BY <1>1, WalkTop DEF Sound, Top
  <1>3. Got(got, errs) \in 0..1
    BY <1>2, GotParts
  <1>4. a.outer = Front(scopes) /\ a.loops = loops
    BY ONLY <1>2, <1>3, KnownParts DEF Here
  <1> HIDE DEF a
  <1>5. Front(scopes) # <<>>
    BY <1>1, <1>2, <1>4 DEF CheckerNeeds
  <1>6. e = K(0, Front(Front(scopes)), loops)
    <2>1. "stmts" \notin Producers
      BY DEF Producers
    <2> QED
      BY <1>1, <1>4, <2>1 DEF CheckerLeaves, K
  <1> HIDE DEF e
  <1>7. ASSUME NEW sc, sc = Front(scopes)
        PROVE  WalkOK(decls, pass, next, global, sc, loops, <<>> \o Tail(walk), NoType, errs)
    <2>1. \A i \in 1..Len(sc) : \A name \in DOMAIN sc[i] : Fine(sc[i][name], errs)
      <3>1. /\ Len(scopes) \in Nat \ {0} /\ Len(sc) = Len(scopes) - 1
            /\ \A i \in 1..(Len(scopes) - 1) : sc[i] = scopes[i]
        BY <1>2, <1>7, FrontParts
      <3> TAKE i \in 1..Len(sc)
      <3>2. i \in 1..Len(scopes) /\ sc[i] = scopes[i]
        BY <3>1
      <3> QED
        BY <1>2, <3>2
    <2>2. CheckerLeaves(Top, Here(scopes, loops, got, errs)) = K(0, Front(sc), loops)
      BY <1>6, <1>7 DEF e, a
    <2>3. NoType \in TypesNil /\ sc \in Seq(Scopes) /\ sc # <<>>
      BY <1>2, <1>5, <1>7, TypesAreTypes
    <2> QED
      BY ONLY Sound, <1>1, <1>2, <2>1, <2>2, <2>3, ReplacedByNone
  <1>8. WalkOK(decls, pass, next, global, scopes', loops, <<>> \o Tail(walk), NoType, errs)
    BY <1>1, <1>7
  <1> QED
    BY <1>1, <1>8 DEF After, Push

\* What the item on top leaves if it does not return anything.
LEMMA LeavesNothing ==
    ASSUME Sound, walk # <<>>, Top.do \notin EndItems, Top.do \notin Producers \cup {"called"}
    PROVE  CheckerLeaves(Top, Here(scopes, loops, got, errs)) = K(0, Front(scopes), loops)
  <1>1. \E h \in 0..1 : /\ CheckerLeaves(Top, Here(scopes, loops, got, errs))
                               = K(h, Front(scopes), loops)
                        /\ h = 1 => Top.do \in Producers \/ (Top.do = "called" /\ Top.value)
    BY TopParts
  <1> QED
    BY <1>1

\* A loop begins.
LEMMA LoopOK ==
    ASSUME Sound, AtItem("loop"), loops' = loops + 1, Push(<<Item("block"), Item("endLoop")>>),
           UNCHANGED <<decls, pass, next, global, scopes, got, errs>>
    PROVE  After
  <1>1. walk # <<>> /\ Top.do = "loop"
    BY DEF AtItem
  <1>2. Top.do \notin EndItems /\ Top.do \notin Producers \cup {"called"}
    BY <1>1 DEF EndItems, Producers
  <1>3. /\ got \in TypesNil /\ errs \in BOOLEAN /\ loops \in Nat /\ scopes \in Seq(Scopes)
        /\ scopes # <<>> /\ Front(scopes) \in Seq(Scopes)
        /\ \A i \in 1..Len(scopes) : \A name \in DOMAIN scopes[i] : Fine(scopes[i][name], errs)
    BY <1>1, WalkTop DEF Sound
  <1>4. CheckerLeaves(Top, Here(scopes, loops, got, errs)) = K(0, Front(scopes), loops)
    BY <1>1, <1>2, LeavesNothing
  <1> DEFINE o == Front(scopes)
             x == Item("block")
             y == Item("endLoop")
             c == K(0, o, loops)
  <1>5. Got(got, errs) \in 0..1 /\ 0 \in 0..1 /\ "block" \in PlainItems \ EndItems
    BY <1>3, GotParts DEF PlainItems, EndItems
  <1>6. ASSUME NEW lp, lp = loops + 1
        PROVE  WalkOK(decls, pass, next, global, scopes, lp, <<x, y>> \o Tail(walk), got, errs)
    <2>1. lp \in Nat /\ lp > 0 /\ lp - 1 = loops
      BY <1>3, <1>6
    <2> DEFINE a == K(Got(got, errs), o, lp)
               b == K(0, o, lp)
               e == CheckerLeaves(y, b)
    <2>2. x \in CheckerItems /\ <<x, a, b>> \in CheckerSteps(decls, global, errs)
      BY <1>3, <1>5, <2>1, ItemStep
    <2>3. y \in CheckerItems /\ y.do = "endLoop"
      BY DEF Item, CheckerItems, PlainItems
    <2>4. b \in CheckerKnown /\ b.outer = o /\ b.loops = lp
      BY ONLY <1>3, <1>5, <2>1, KnownParts
    <2>5. c \in CheckerKnown /\ c.got = 0 /\ c.outer = o /\ c.loops = loops /\ c.ended = 0
      BY ONLY <1>3, <1>5, KnownParts
    <2> HIDE DEF x, y, a, b, c
    <2>6. "endLoop" \notin Consumers /\ "endLoop" \notin Producers
      BY DEF Consumers, Producers
    <2>7. CheckerNeeds(y, b, decls, global, errs)
      BY <2>1, <2>3, <2>4, <2>6 DEF CheckerNeeds
    <2>8. e.got = 0 /\ e.outer = o /\ e.loops = loops /\ e.ended = 0
      BY <2>1, <2>3, <2>4, <2>6 DEF CheckerLeaves
    <2> HIDE DEF e
    <2>9. AtLeast(e, c)
      BY <2>5, <2>8 DEF AtLeast
    <2>10. <<y, b, c>> \in CheckerSteps(decls, global, errs)
      BY <2>3, <2>4, <2>5, <2>7, <2>9 DEF CheckerSteps, e
    <2>11. CheckerLeads(decls, global, errs, <<x, y>>, a, c)
      BY <2>2, <2>3, <2>10, CheckerTwo
    <2>12. CheckerLeads(decls, global, errs, <<x, y>>, Here(scopes, lp, got, errs), c)
      BY <2>11 DEF Here, a
    <2>13. AtLeast(c, CheckerLeaves(Top, Here(scopes, loops, got, errs)))
      BY <1>4, <2>5 DEF AtLeast, c
    <2> QED
      BY ONLY Sound, <1>1, <1>3, <2>1, <2>5, <2>12, <2>13, Replaced
  <1>7. WalkOK(decls, pass, next, global, scopes, loops', <<x, y>> \o Tail(walk), got, errs)
    BY <1>6
  <1> QED
    BY <1>7 DEF After, Push

\* A loop ends.
LEMMA EndLoopOK ==
    ASSUME Sound, AtItem("endLoop"), loops' = loops - 1, Push(<<>>),
           UNCHANGED <<decls, pass, next, global, scopes, got, errs>>
    PROVE  After
  <1>1. walk # <<>> /\ Top.do = "endLoop"
    BY DEF AtItem
  <1> DEFINE a == Here(scopes, loops, got, errs)
             e == CheckerLeaves(Top, a)
  <1>2. /\ got \in TypesNil /\ errs \in BOOLEAN /\ loops \in Nat /\ scopes \in Seq(Scopes)
        /\ scopes # <<>> /\ Front(scopes) \in Seq(Scopes)
        /\ \A i \in 1..Len(scopes) : \A name \in DOMAIN scopes[i] : Fine(scopes[i][name], errs)
        /\ CheckerNeeds(Top, a, decls, global, errs)
    BY <1>1, WalkTop DEF Sound, Top
  <1>3. Got(got, errs) \in 0..1
    BY <1>2, GotParts
  <1>4. a.outer = Front(scopes) /\ a.loops = loops
    BY ONLY <1>2, <1>3, KnownParts DEF Here
  <1> HIDE DEF a
  <1>5. loops > 0
    BY <1>1, <1>2, <1>4 DEF CheckerNeeds
  <1>6. e = K(0, Front(scopes), loops - 1)
    <2>1. "endLoop" \notin Producers
      BY DEF Producers
    <2> QED
      BY <1>1, <1>4, <2>1 DEF CheckerLeaves, K
  <1> HIDE DEF e
  <1>7. ASSUME NEW lp, lp = loops - 1
        PROVE  WalkOK(decls, pass, next, global, scopes, lp, <<>> \o Tail(walk), got, errs)
    <2>1. CheckerLeaves(Top, Here(scopes, loops, got, errs)) = K(0, Front(scopes), lp)
      BY <1>6, <1>7 DEF e, a
    <2>2. lp \in Nat
      BY <1>2, <1>5, <1>7
    <2> QED
      BY ONLY Sound, <1>1, <1>2, <2>1, <2>2, ReplacedByNone
  <1>8. WalkOK(decls, pass, next, global, scopes, loops', <<>> \o Tail(walk), got, errs)
    BY <1>7
  <1> QED
    BY <1>8 DEF After, Push

\* Either.
LEMMA CountLoopOK ==
    ASSUME Sound, CountLoop
    PROVE  After
  BY LoopOK, EndLoopOK DEF CountLoop

-----------------------------------------------------------------------------
(* Statements. *)

\* The first item and the others.
LEMMA HeadAndTail ==
    ASSUME NEW S, NEW t \in Seq(S), t # <<>>
    PROVE  t = <<Head(t)>> \o Tail(t)
  <1> DEFINE p == <<Head(t)>>
             q == Tail(t)
             u == p \o q
  <1>1. /\ Head(t) \in S /\ q \in Seq(S) /\ Head(t) = t[1] /\ Len(t) \in Nat \ {0}
        /\ Len(q) = Len(t) - 1 /\ \A i \in 1..(Len(t) - 1) : q[i] = t[i + 1]
    BY HeadTail
  <1>2. p \in Seq(S) /\ Len(p) = 1 /\ p[1] = Head(t)
    BY <1>1
  <1> HIDE DEF p, q
  <1>3. /\ u \in Seq(S) /\ Len(u) = Len(p) + Len(q)
        /\ \A i \in 1..(Len(p) + Len(q)) : u[i] = IF i <= Len(p) THEN p[i] ELSE q[i - Len(p)]
    BY <1>1, <1>2, ConcatProperties
  <1> HIDE DEF u
  <1>4. Len(u) = Len(t)
    BY <1>1, <1>2, <1>3
  <1>5. ASSUME NEW i \in 1..Len(u) PROVE u[i] = t[i]
    <2>1. i \in 1..(Len(p) + Len(q))
      BY <1>3
    <2>2. CASE i = 1
      BY <1>1, <1>2, <1>3, <2>1, <2>2
    <2>3. CASE i # 1
      <3>1. i - 1 \in 1..(Len(t) - 1) /\ ~(i <= 1) /\ (i - 1) + 1 = i
        BY <1>1, <1>4, <2>3
      <3>2. u[i] = q[i - 1]
        BY <1>2, <1>3, <2>1, <3>1
      <3> QED
        BY <1>1, <3>1, <3>2
    <2> QED
      BY <2>2, <2>3
  <1>6. u = t
    BY <1>3, <1>4, <1>5, SeqEqual
  <1> QED
    BY <1>6 DEF u, p, q

\* A block goes on with a statement.
LEMMA Stated ==
    ASSUME Sound, AtItem("stmts"), NEW s, walk' = s \o walk, got' = NoType, Keep,
           errs' \in BOOLEAN, errs => errs', NEW j \in 0..1,
           \A g \in 0..1 : CheckerLeads(decls, global, errs', s, K(g, Front(scopes), loops),
                                        K(j, Front(scopes), loops))
    PROVE  After
  <1>1. walk # <<>> /\ Top.do = "stmts"
    BY DEF AtItem
  <1> DEFINE o == Front(scopes)
             x == Head(walk)
             t == Tail(walk)
             a == Here(scopes, loops, got, errs)
             e == CheckerLeaves(x, a)
             c == K(j, o, loops)
  <1>2. /\ got \in TypesNil /\ errs \in BOOLEAN /\ loops \in Nat /\ scopes \in Seq(Scopes)
        /\ scopes # <<>> /\ o \in Seq(Scopes) /\ pass = "bodies"
        /\ \A i \in 1..Len(scopes) : \A name \in DOMAIN scopes[i] : Fine(scopes[i][name], errs)
        /\ x \in CheckerItems /\ CheckerNeeds(x, a, decls, global, errs) /\ e \in CheckerKnown
        /\ \E d : CheckerLeads(decls, global, errs, t, e, d) /\ d.ended = 1
    BY <1>1, WalkTop DEF Sound
  <1>3. Got(got, errs) \in 0..1
    BY <1>2, GotParts
  <1>4. a.outer = o /\ a.loops = loops
    BY ONLY <1>2, <1>3, KnownParts DEF Here
  <1>5. c \in CheckerKnown /\ c.outer = o /\ c.loops = loops
    BY ONLY <1>2, j \in 0..1, KnownParts
  <1>6. walk = <<x>> \o t
    <2>1. walk \in Seq(CheckerItems)
      BY <1>1 DEF Sound, WalkOK, CheckerLeads, Leads
    <2> QED
      BY <1>1, <2>1, HeadAndTail
  <1>7. x.do = "stmts"
    BY <1>1 DEF Top
  <1> HIDE DEF x, t, a, c
  <1>8. \A er : <<x, c, e>> \in CheckerSteps(decls, global, er)
    <2>1. "stmts" \notin Consumers /\ "stmts" \notin Producers
      BY DEF Consumers, Producers
    <2>2. \A er : CheckerNeeds(x, c, decls, global, er)
      BY <1>2, <1>4, <1>5, <1>7, <2>1 DEF CheckerNeeds
    <2>3. CheckerLeaves(x, c) = e
      BY <1>4, <1>5, <1>7, <2>1 DEF CheckerLeaves
    <2> HIDE DEF e
    <2>4. AtLeast(e, e)
      BY <1>2 DEF AtLeast, CheckerKnown
    <2> QED
      BY <1>2, <1>5, <2>2, <2>3, <2>4 DEF CheckerSteps
  <1> HIDE DEF e
  <1>9. PICK d : CheckerLeads(decls, global, errs, t, e, d) /\ d.ended = 1
    BY <1>2
  <1>10. ASSUME NEW er \in BOOLEAN, errs => er
         PROVE  CheckerLeads(decls, global, er, <<x>> \o t, c, d)
    <2>1. CheckerLeads(decls, global, er, t, e, d)
      BY <1>2, <1>9, <1>10, CheckerMore
    <2>2. CheckerLeads(decls, global, er, <<x>>, c, e)
      BY <1>2, <1>8, CheckerOne
    <2> QED
      BY <2>1, <2>2, LeadsConcat DEF CheckerLeads
  <1>11. ASSUME NEW er \in BOOLEAN, errs => er, NEW w, w = walk,
                CheckerLeads(decls, global, er, s, K(Got(NoType, er), o, loops), c)
         PROVE  WalkOK(decls, pass, next, global, scopes, loops, s \o w, NoType, er)
    <2>1. CheckerLeads(decls, global, er, w, c, d)
      BY <1>6, <1>10, <1>11
    <2>2. CheckerLeads(decls, global, er, s, Here(scopes, loops, NoType, er), c)
      BY <1>11 DEF Here
    <2>3. NoType \in TypesNil
      BY TypesAreTypes
    <2>4. \A i \in 1..Len(scopes) : \A name \in DOMAIN scopes[i] : Fine(scopes[i][name], er)
      BY <1>2, <1>11 DEF Fine
    <2> QED
      BY <1>2, <1>9, <1>11, <2>1, <2>2, <2>3, <2>4, WalkDone
  <1>12. \A er \in BOOLEAN : Got(NoType, er) \in 0..1
    BY GotParts
  <1>13. WalkOK(decls, pass, next, global, scopes, loops, s \o walk, NoType, errs')
    BY <1>11, <1>12 DEF c
  <1> QED
    BY <1>13 DEF After, Keep

\* Four items.
LEMMA LeadsFour ==
    ASSUME NEW S, NEW R, NEW w \in S, NEW x \in S, NEW y \in S, NEW z \in S,
           NEW a, NEW b, NEW c, NEW d, NEW e,
           <<w, a, b>> \in R, <<x, b, c>> \in R, <<y, c, d>> \in R, <<z, d, e>> \in R
    PROVE  Leads(S, R, <<w, x, y, z>>, a, e)
  <1> DEFINE s == <<w>>
             t == <<x, y, z>>
             u == <<w, x, y, z>>
             v == s \o t
  <1>1. Leads(S, R, s, a, b) /\ Leads(S, R, t, b, e)
    BY LeadsOne, LeadsThree
  <1>2. /\ s \in Seq(S) /\ t \in Seq(S) /\ Len(s) = 1 /\ Len(t) = 3
        /\ s[1] = w /\ t[1] = x /\ t[2] = y /\ t[3] = z
    OBVIOUS
  <1>3. u \in Seq(S) /\ Len(u) = 4 /\ u[1] = w /\ u[2] = x /\ u[3] = y /\ u[4] = z
    OBVIOUS
  <1> HIDE DEF s, t, u
  <1>4. /\ v \in Seq(S) /\ Len(v) = Len(s) + Len(t)
        /\ \A i \in 1..(Len(s) + Len(t)) : v[i] = IF i <= Len(s) THEN s[i] ELSE t[i - Len(s)]
    BY <1>2, ConcatProperties
  <1> HIDE DEF v
  <1>5. Len(v) = 4 /\ v[1] = w /\ v[2] = x /\ v[3] = y /\ v[4] = z
    BY <1>2, <1>4
  <1>6. Len(v) = Len(u) /\ \A i \in 1..Len(v) : v[i] = u[i]
    BY <1>3, <1>5
  <1>7. s \o t = u
    BY <1>3, <1>4, <1>6, SeqEqual DEF v
  <1>8. Leads(S, R, s \o t, a, e)
    BY <1>1, LeadsConcat
  <1> QED
    BY <1>7, <1>8 DEF u

\* An if, and a while.
LEMMA CompoundLeads ==
    ASSUME NEW ds, NEW gl, NEW er, NEW g \in 0..1, NEW o \in Seq(Scopes), NEW l \in Nat
    PROVE  /\ CheckerLeads(ds, gl, er, <<Item("block")>>, K(g, o, l), K(0, o, l))
           /\ CheckerLeads(ds, gl, er,
                           <<Wanting(NoType), Item("cond"), Item("block"), Item("else")>>,
                           K(g, o, l), K(0, o, l))
           /\ CheckerLeads(ds, gl, er, <<Wanting(NoType), Item("cond"), Item("loop")>>,
                           K(g, o, l), K(0, o, l))
           /\ CheckerLeads(ds, gl, er, <<Item("call")>>, K(g, o, l), K(0, o, l))
  <1> DEFINE w == Wanting(NoType)
             x == Item("cond")
             y == Item("block")
             z == Item("else")
             v == Item("loop")
             u == Item("call")
             a == K(g, o, l)
             b == K(1, o, l)
             c == K(0, o, l)
  <1>1. /\ NoType \in TypesNil /\ 0 \in 0..1
        /\ {"cond", "block", "else", "loop", "call"} \subseteq PlainItems \ EndItems
    BY TypesAreTypes DEF PlainItems, EndItems
  <1>2. w \in CheckerItems /\ <<w, a, b>> \in CheckerSteps(ds, gl, er)
    BY <1>1, WantingStep
  <1>3. x \in CheckerItems /\ <<x, b, c>> \in CheckerSteps(ds, gl, er)
    BY <1>1, ItemStep
  <1>4. y \in CheckerItems /\ <<y, c, c>> \in CheckerSteps(ds, gl, er)
        /\ <<y, a, c>> \in CheckerSteps(ds, gl, er)
    BY <1>1, ItemStep
  <1>5. z \in CheckerItems /\ <<z, c, c>> \in CheckerSteps(ds, gl, er)
    BY <1>1, ItemStep
  <1>6. v \in CheckerItems /\ <<v, c, c>> \in CheckerSteps(ds, gl, er)
    BY <1>1, ItemStep
  <1>7. u \in CheckerItems /\ <<u, a, c>> \in CheckerSteps(ds, gl, er)
    BY <1>1, ItemStep
  <1> HIDE DEF u, v, w, x, y, z, a, b, c
  <1>8. /\ CheckerLeads(ds, gl, er, <<y>>, a, c) /\ CheckerLeads(ds, gl, er, <<u>>, a, c)
    BY <1>4, <1>7, CheckerOne
  <1>9. CheckerLeads(ds, gl, er, <<w, x, y, z>>, a, c)
    BY <1>2, <1>3, <1>4, <1>5, LeadsFour DEF CheckerLeads
  <1>10. CheckerLeads(ds, gl, er, <<w, x, v>>, a, c)
    BY <1>2, <1>3, <1>6, LeadsThree DEF CheckerLeads
  <1> QED
    BY <1>8, <1>9, <1>10 DEF u, v, w, x, y, z, a, b, c

\* An expression that is assigned to, or a value that is returned.
LEMMA ValueLeads ==
    ASSUME NEW ds, NEW gl, NEW er, NEW g \in 0..1, NEW o \in Seq(Scopes), NEW l \in Nat,
           NEW t \in TypesNil
    PROVE  /\ CheckerLeads(ds, gl, er, <<ExprOf(NoType, "lvalue"), Item("assign")>>,
                           K(g, o, l), K(0, o, l))
           /\ CheckerLeads(ds, gl, er, <<Wanting(t), Typed("use", t)>>, K(g, o, l), K(0, o, l))
  <1> DEFINE w == ExprOf(NoType, "lvalue")
             x == Item("assign")
             y == Wanting(t)
             z == Typed("use", t)
             a == K(g, o, l)
             b == K(1, o, l)
             c == K(0, o, l)
  <1>1. /\ NoType \in TypesNil /\ 0 \in 0..1 /\ "assign" \in PlainItems \ EndItems
        /\ "lvalue" \in Forms /\ "use" \in {"use", "cast", "index"}
    BY TypesAreTypes DEF PlainItems, EndItems, Forms
  <1>2. w \in CheckerItems /\ <<w, a, b>> \in CheckerSteps(ds, gl, er)
    BY <1>1, ExprStep
  <1>3. x \in CheckerItems /\ <<x, b, c>> \in CheckerSteps(ds, gl, er)
    BY <1>1, ItemStep
  <1>4. y \in CheckerItems /\ <<y, a, b>> \in CheckerSteps(ds, gl, er)
    BY WantingStep
  <1>5. z \in CheckerItems /\ <<z, b, c>> \in CheckerSteps(ds, gl, er)
    BY <1>1, TypedStep
  <1> HIDE DEF w, x, y, z, a, b, c
  <1> QED
    BY <1>2, <1>3, <1>4, <1>5, CheckerTwo DEF w, x, y, z, a, b, c

\* A statement that reports nothing.
LEMMA StatementOK ==
    ASSUME Sound, NEW s, Statement(s), NEW j \in 0..1,
           \A g \in 0..1 : \A er : CheckerLeads(decls, global, er, s, K(g, Front(scopes), loops),
                                        K(j, Front(scopes), loops))
    PROVE  After
  <1>1. /\ AtItem("stmts") /\ walk' = s \o walk /\ got' = NoType /\ Keep /\ errs' = errs
    BY DEF Statement
  <1>2. errs \in BOOLEAN
    BY DEF Sound, WalkOK
  <1>3. errs' \in BOOLEAN /\ (errs => errs')
    BY <1>1, <1>2
  <1>4. \A g \in 0..1 : CheckerLeads(decls, global, errs', s, K(g, Front(scopes), loops),
                                     K(j, Front(scopes), loops))
    OBVIOUS
  <1> QED
    BY ONLY Sound, j \in 0..1, <1>1, <1>3, <1>4, Stated

\* The scopes and the loops at a statement.
LEMMA StatementParts ==
    ASSUME Sound, walk # <<>>
    PROVE  Front(scopes) \in Seq(Scopes) /\ loops \in Nat /\ 0 \in 0..1 /\ errs \in BOOLEAN
  BY WalkTop DEF Sound

\* A block, an if and a while; what comes after a then.
LEMMA CompoundOK ==
    ASSUME Sound, CheckCompound \/ CheckElse
    PROVE  After
  <1>1. walk # <<>>
    BY DEF CheckCompound, CheckElse, Statement, AtItem
  <1> DEFINE o == Front(scopes)
             k(g) == K(g, o, loops)
             s == <<Item("block")>>
             t == <<Wanting(NoType), Item("cond"), Item("block"), Item("else")>>
             u == <<Wanting(NoType), Item("cond"), Item("loop")>>
  <1>2. o \in Seq(Scopes) /\ loops \in Nat /\ 0 \in 0..1
    BY <1>1, StatementParts
  <1>3. \A g \in 0..1 : \A er : /\ CheckerLeads(decls, global, er, s, k(g), k(0))
                                /\ CheckerLeads(decls, global, er, t, k(g), k(0))
                                /\ CheckerLeads(decls, global, er, u, k(g), k(0))
    BY ONLY <1>2, CompoundLeads
  <1>4. CASE CheckCompound
    <2>1. Statement(s) \/ Statement(t) \/ Statement(u)
      BY <1>4 DEF CheckCompound
    <2> HIDE DEF s, t, u
    <2> QED
      BY <1>2, <1>3, <2>1, StatementOK
  <1>5. CASE CheckElse
    <2>1. walk # <<>> /\ Top.do = "else" /\ (Visit(<<>>) \/ Visit(s) \/ Visit(t))
      BY <1>5 DEF CheckElse, AtItem
    <2>2. Top.do \notin EndItems /\ Top.do \notin Producers \cup {"called"}
      BY <2>1 DEF EndItems, Producers
    <2>3. Got(got, errs) \in 0..1
      BY <2>1, <2>2, TopParts
    <2>4. CASE Visit(s)
      <3> HIDE DEF s, t, u
      <3>1. Walking(s, k(Got(got, errs)), k(0))
        BY <1>3, <2>3 DEF Walking
      <3> QED
        BY <2>1, <2>2, <2>4, <3>1, Visited
    <2>5. CASE Visit(t)
      <3> HIDE DEF s, t, u
      <3>1. Walking(t, k(Got(got, errs)), k(0))
        BY <1>3, <2>3 DEF Walking
      <3> QED
        BY <2>1, <2>2, <2>5, <3>1, Visited
    <2>6. CASE Visit(<<>>)
      <3>1. /\ got' = got /\ errs' = errs /\ Push(<<>>) /\ Keep
        BY <2>6 DEF Visit
      <3>2. /\ got \in TypesNil /\ errs \in BOOLEAN /\ loops \in Nat /\ scopes \in Seq(Scopes)
            /\ scopes # <<>>
            /\ \A i \in 1..Len(scopes) : \A name \in DOMAIN scopes[i] : Fine(scopes[i][name], errs)
        BY <1>1, WalkTop DEF Sound
      <3>3. CheckerLeaves(Top, Here(scopes, loops, got, errs)) = K(0, Front(scopes), loops)
        BY <2>1, <2>2, LeavesNothing
      <3>4. WalkOK(decls, pass, next, global, scopes, loops, <<>> \o Tail(walk), got, errs)
        BY ONLY Sound, <1>1, <3>2, <3>3, ReplacedByNone
      <3> QED
        BY <3>1, <3>4 DEF After, Push, Keep
    <2> QED
      BY <2>1, <2>4, <2>5, <2>6
  <1> QED
    BY <1>4, <1>5

\* Assignments, calls, break and continue.
LEMMA SimpleOK ==
    ASSUME Sound, CheckSimple \/ CheckBranch
    PROVE  After
  <1>1. walk # <<>>
    BY DEF CheckSimple, CheckBranch, Statement, AtItem
  <1> DEFINE o == Front(scopes)
             k(g) == K(g, o, loops)
             s == <<ExprOf(NoType, "lvalue"), Item("assign")>>
             t == <<Item("call")>>
             u == <<Verdict(loops = 0)>>
  <1>2. o \in Seq(Scopes) /\ loops \in Nat /\ 0 \in 0..1 /\ NoType \in TypesNil
    BY <1>1, StatementParts, TypesAreTypes
  <1>3. \A g \in 0..1 : \A er : /\ CheckerLeads(decls, global, er, s, k(g), k(0))
                                /\ CheckerLeads(decls, global, er, t, k(g), k(0))
    BY ONLY <1>2, CompoundLeads, ValueLeads
  <1>4. \A g \in 0..1 : \A er : CheckerLeads(decls, global, er, u, k(g), k(0))
    <2> DEFINE bad == loops = 0
               x == Verdict(bad)
    <2>1. bad \in BOOLEAN
      OBVIOUS
    <2> HIDE DEF bad
    <2>2. \A g \in 0..1 : \A er : x \in CheckerItems /\ <<x, k(g), k(0)>> \in CheckerSteps(decls, global, er)
      BY <1>2, <2>1, VerdictStep
    <2> HIDE DEF x
    <2>3. \A g \in 0..1 : \A er : CheckerLeads(decls, global, er, <<x>>, k(g), k(0))
      BY <2>2, CheckerOne
    <2> QED
      BY <2>3 DEF x, bad
  <1>5. Statement(s) \/ Statement(t) \/ Statement(u)
    BY DEF CheckSimple, CheckBranch
  <1> HIDE DEF s, t, u
  <1> QED
    BY <1>2, <1>3, <1>4, <1>5, StatementOK

\* A return.
LEMMA ReturnOK ==
    ASSUME Sound, CheckReturn
    PROVE  After
  <1>1. walk # <<>>
    BY DEF CheckReturn, Statement, AtItem
  <1> DEFINE o == Front(scopes)
             k(g) == K(g, o, loops)
             r == decls[next].ret
  <1>2. o \in Seq(Scopes) /\ loops \in Nat /\ 0 \in 0..1
    BY <1>1, StatementParts
  <1>3. r \in TypesNil
    <2>1. HasBody(decls[next]) /\ decls \in Seq(Declarations) /\ next \in 1..Len(decls)
      BY <1>1 DEF Sound, BodyOK
    <2>2. decls[next].kind = "func" /\ decls[next] \in Declarations
      BY <2>1, ElementOfSeq DEF HasBody
    <2> QED
      BY <2>2, DeclParts
  <1>4. ASSUME NEW bad \in BOOLEAN
        PROVE  \A g \in 0..1 : \A er : CheckerLeads(decls, global, er, <<Verdict(bad)>>, k(g), k(0))
    <2>1. \A g \in 0..1 : \A er : /\ Verdict(bad) \in CheckerItems
                                  /\ <<Verdict(bad), k(g), k(0)>> \in CheckerSteps(decls, global, er)
      BY <1>2, <1>4, VerdictStep
    <2> QED
      BY <2>1, CheckerOne
  <1>5. \A g \in 0..1 : \A er :
            CheckerLeads(decls, global, er, <<Wanting(r), Typed("use", r)>>, k(g), k(0))
    <2> HIDE DEF r
    <2> QED
      BY ONLY <1>2, <1>3, ValueLeads
  <1>6. \/ \E bad \in BOOLEAN : Statement(<<Verdict(bad)>>)
        \/ Statement(<<Wanting(r), Typed("use", r)>>)
    BY DEF CheckReturn
  <1> HIDE DEF r, k
  <1>7. ASSUME NEW bad \in BOOLEAN, Statement(<<Verdict(bad)>>) PROVE After
    <2> DEFINE s == <<Verdict(bad)>>
    <2>1. Statement(s) /\ \A g \in 0..1 : \A er : CheckerLeads(decls, global, er, s, k(g), k(0))
      BY <1>4, <1>7
    <2> HIDE DEF s
    <2> QED
      BY <1>2, <2>1, StatementOK DEF k
  <1>8. CASE Statement(<<Wanting(r), Typed("use", r)>>)
    <2> DEFINE s == <<Wanting(r), Typed("use", r)>>
    <2>1. Statement(s) /\ \A g \in 0..1 : \A er : CheckerLeads(decls, global, er, s, k(g), k(0))
      BY <1>5, <1>8
    <2> HIDE DEF s
    <2> QED
      BY <1>2, <2>1, StatementOK DEF k
  <1> QED
    BY <1>6, <1>7, <1>8

\* A variable is declared when its initializer has been checked.
LEMMA VarDeclOK ==
    ASSUME Sound, CheckVarDecl
    PROVE  After
  <1> DEFINE o == Front(scopes)
             k(g) == K(g, o, loops)
             declare(name, t) == [do |-> "declare", name |-> name, type |-> t]
             value(t) == <<Wanting(t), Typed("use", t)>>
  <1>1. PICK name \in LocalNames, te \in LocalTypes, init \in BOOLEAN :
            /\ AtItem("stmts")
            /\ walk' = (IF init /\ TypeOf(te) # NoType THEN value(TypeOf(te)) ELSE <<>>)
                       \o <<declare(name, TypeOf(te))>> \o walk
            /\ errs' = (errs \/ TypeOf(te) = NoType)
            /\ got' = NoType
            /\ Keep
    BY DEF CheckVarDecl
  <1>2. walk # <<>>
    BY <1>1 DEF AtItem
  <1>3. o \in Seq(Scopes) /\ loops \in Nat /\ 0 \in 0..1 /\ errs \in BOOLEAN
    BY <1>2, StatementParts
  <1> DEFINE t == TypeOf(te)
             x == declare(name, t)
             v == IF init /\ t # NoType THEN value(t) ELSE <<>>
             s == v \o <<x>>
  <1>4. t \in TypesNil
    BY FilesOK, TypesAreTypes DEF TypeOf
  <1>5. walk' = s \o walk /\ errs' = (errs \/ t = NoType)
    BY <1>1
  <1>6. ASSUME NEW er, Fine(t, er), NEW g \in 0..1
        PROVE  CheckerLeads(decls, global, er, s, k(g), k(0))
    <2>1. \A j \in 0..1 : x \in CheckerItems /\ <<x, k(j), k(0)>> \in CheckerSteps(decls, global, er)
      <3> HIDE DEF t
      <3> QED
        BY <1>3, <1>4, <1>6, DeclareStep
    <2> HIDE DEF x, t
    <2>2. \A j \in 0..1 : CheckerLeads(decls, global, er, <<x>>, k(j), k(0))
      BY <2>1, CheckerOne
    <2>3. \E j \in 0..1 : CheckerLeads(decls, global, er, v, k(g), k(j))
      <3>1. CASE init /\ t # NoType
        <4>1. CheckerLeads(decls, global, er, value(t), k(g), k(0))
          BY <1>3, <1>4, <1>6, ValueLeads
        <4>2. v = value(t)
          BY <3>1
        <4> HIDE DEF value, v
        <4> QED
          BY <1>3, <4>1, <4>2
      <3>2. CASE ~(init /\ t # NoType)
        <4>1. CheckerLeads(decls, global, er, <<>>, k(g), k(g))
          BY LeadsEmpty DEF CheckerLeads
        <4>2. v = <<>>
          BY <3>2
        <4> HIDE DEF v
        <4> QED
          BY <1>6, <4>1, <4>2
      <3> QED
        BY <3>1, <3>2
    <2> HIDE DEF v, k
    <2>4. PICK j \in 0..1 : CheckerLeads(decls, global, er, v, k(g), k(j))
      BY <2>3
    <2>5. CheckerLeads(decls, global, er, <<x>>, k(j), k(0))
      BY <2>2
    <2> QED
      BY <2>4, <2>5, LeadsConcat DEF CheckerLeads
  <1>7. errs' \in BOOLEAN /\ (errs => errs') /\ Fine(t, errs')
    BY <1>3, <1>5 DEF Fine
  <1> HIDE DEF s, t
  <1>8. \A er : Fine(t, er) => \A g \in 0..1 : CheckerLeads(decls, global, er, s, k(g), k(0))
    BY <1>6
  <1>9. \A g \in 0..1 : CheckerLeads(decls, global, errs', s, k(g), k(0))
    BY ONLY <1>7, <1>8
  <1> QED
    BY ONLY Sound, <1>1, <1>3, <1>5, <1>7, <1>9, Stated

-----------------------------------------------------------------------------
(* Name resolution. *)

\* The first n declarations mention no type that does not exist; main is what
\* the runtime calls; and no export has a name of the module's own.
Exist(ds, gl, n) == \A i \in 1..n : \A te \in Mentioned(ds[i]) : TypeIn(te, ds, gl)
MainIn(ds, gl) == "main" \in DOMAIN gl /\ IsMain(ds[gl["main"]])
ExportsIn(ds) ==
    \A i \in 1..Len(ds) : ds[i].kind = "func" /\ ds[i].form = "export" =>
                             ds[i].name \notin {"memory", "_start"}

\* What each pass has found out, unless it has reported an error.
ResolveOK(ds, ps, nx, gl, er) ==
    /\ ds \in Seq(Declarations) /\ er \in BOOLEAN
    /\ ps \in {"declare", "signatures", "main", "exports", "bodies", "done"}
    /\ ps \in {"declare", "signatures", "bodies"} => nx \in 1..Len(ds)
    /\ ps \in {"main", "exports"} => nx = 1
    /\ ps = "declare" /\ ~er => Indexed(ds, gl, nx - 1)
    /\ ps = "signatures" /\ ~er => Indexed(ds, gl, Len(ds)) /\ Exist(ds, gl, nx - 1)
    /\ ps \in {"main", "exports"} /\ ~er => Indexed(ds, gl, Len(ds)) /\ Exist(ds, gl, Len(ds))
    /\ ps = "exports" /\ ~er => MainIn(ds, gl)
    /\ ps = "bodies" => /\ Indexed(ds, gl, Len(ds)) /\ Exist(ds, gl, Len(ds))
                        /\ MainIn(ds, gl) /\ ExportsIn(ds)

\* The checker, while it runs.
CheckOK(ds, ps, nx, gl, sc, lp, wk, gt, er) ==
    ResolveOK(ds, ps, nx, gl, er) /\ WalkOK(ds, ps, nx, gl, sc, lp, wk, gt, er) /\ BodyOK(ds, nx, wk)

Checking == CheckOK(decls, pass, next, global, scopes, loops, walk, got, errs)
Checking2 == CheckOK(decls', pass', next', global', scopes', loops', walk', got', errs')

\* There is no walk.
LEMMA NoWalk ==
    ASSUME NEW ds, NEW ps, NEW nx, NEW gl, NEW gt \in TypesNil, NEW er \in BOOLEAN
    PROVE  /\ WalkOK(ds, ps, nx, gl, <<>>, 0, <<>>, gt, er)
           /\ BodyOK(ds, nx, <<>>)
  <1> DEFINE sc == <<>>
  <1>1. sc \in Seq(Scopes) /\ Len(sc) = 0 /\ sc = <<>>
    BY EmptySeq
  <1> HIDE DEF sc
  <1>2. WalkOK(ds, ps, nx, gl, sc, 0, <<>>, gt, er)
    BY <1>1 DEF WalkOK
  <1> QED
    BY <1>1, <1>2 DEF BodyOK

\* Between two bodies, and before the first one.
LEMMA BetweenBodies ==
    ASSUME Checking, walk = <<>> \/ pass # "bodies"
    PROVE  walk = <<>> /\ scopes = <<>> /\ loops = 0 /\ got \in TypesNil /\ errs \in BOOLEAN
  BY DEF Checking, CheckOK, WalkOK

\* One more name is declared.
LEMMA IndexedMore ==
    ASSUME NEW ds, NEW gl, NEW n \in Nat \ {0}, Indexed(ds, gl, n - 1), ds[n].name \notin DOMAIN gl
    PROVE  Indexed(ds, Extend(gl, ds[n].name, n), n)
  <1> DEFINE f == Extend(gl, ds[n].name, n)
  <1>1. 1..n = 1..(n - 1) \cup {n} /\ n \notin 1..(n - 1)
    OBVIOUS
  <1>2. /\ DOMAIN gl = {ds[i].name : i \in 1..(n - 1)}
        /\ \A i \in 1..(n - 1) : gl[ds[i].name] = i
    BY DEF Indexed
  <1>3. /\ DOMAIN f = DOMAIN gl \cup {ds[n].name}
        /\ f[ds[n].name] = n /\ \A y \in DOMAIN gl : f[y] = gl[y]
    BY DEF Extend
  <1> HIDE DEF f
  <1>4. DOMAIN f = {ds[i].name : i \in 1..n}
    BY <1>1, <1>2, <1>3
  <1>5. ASSUME NEW i \in 1..n PROVE f[ds[i].name] = i
    <2>1. CASE i = n
      BY <1>3, <2>1
    <2>2. CASE i \in 1..(n - 1)
      <3>1. ds[i].name \in DOMAIN gl
        BY <1>2, <2>2
      <3> QED
        BY <1>2, <1>3, <2>2, <3>1
    <2> QED
      BY <1>1, <2>1, <2>2
  <1> QED
    BY <1>4, <1>5 DEF Indexed, f

\* One more declaration mentions no type that does not exist.
LEMMA ExistMore ==
    ASSUME NEW ds, NEW gl, NEW n \in Nat \ {0}, Exist(ds, gl, n - 1),
           \A te \in Mentioned(ds[n]) : TypeIn(te, ds, gl)
    PROVE  Exist(ds, gl, n)
  <1>1. \A i \in 1..n : i = n \/ i \in 1..(n - 1)
    OBVIOUS
  <1> QED
    BY <1>1 DEF Exist

\* The next declaration, or the next pass.
LEMMA Advanced ==
    ASSUME NEW after, Advances(after), next \in 1..Len(decls), decls \in Seq(Declarations)
    PROVE  \/ next < Len(decls) /\ next' = next + 1 /\ pass' = pass /\ next + 1 \in 1..Len(decls)
           \/ next = Len(decls) /\ next' = 1 /\ pass' = after
  <1>1. Len(decls) \in Nat
    BY LenProperties
  <1>2. \A n \in 1..Len(decls) : n < Len(decls) \/ n = Len(decls)
    BY <1>1
  <1>3. \A n \in 1..Len(decls) : n < Len(decls) => n + 1 \in 1..Len(decls)
    BY <1>1
  <1> QED
    BY <1>2, <1>3 DEF Advances

\* A pass that does not walk.
LEMMA Resolved ==
    ASSUME Checking, pass # "bodies", Resolving, ResolveOK(decls, pass', next', global', errs')
    PROVE  Checking2
  <1>1. walk = <<>> /\ scopes = <<>> /\ loops = 0 /\ got \in TypesNil
    BY BetweenBodies
  <1>2. errs' \in BOOLEAN
    BY DEF ResolveOK
  <1>3. \A ps, nx, gl : \A er \in BOOLEAN : /\ WalkOK(decls, ps, nx, gl, <<>>, 0, <<>>, got, er)
                                            /\ BodyOK(decls, nx, <<>>)
    BY <1>1, NoWalk
  <1>4. /\ decls' = decls /\ scopes' = <<>> /\ loops' = 0 /\ walk' = <<>> /\ got' = got
    BY <1>1 DEF Resolving
  <1>5. /\ WalkOK(decls, pass', next', global', <<>>, 0, <<>>, got, errs')
        /\ BodyOK(decls, next', <<>>)
    BY <1>2, <1>3
  <1>6. /\ WalkOK(decls', pass', next', global', scopes', loops', walk', got', errs')
        /\ BodyOK(decls', next', walk') /\ ResolveOK(decls', pass', next', global', errs')
    BY <1>4, <1>5
  <1> QED
    BY <1>6 DEF Checking2, CheckOK

\* Global names.
LEMMA DeclareGlobalOK ==
    ASSUME Checking, DeclareGlobal
    PROVE  Checking2
  <1>1. pass = "declare" /\ Advances("signatures") /\ Resolving
    BY DEF DeclareGlobal
  <1>2. /\ ResolveOK(decls, pass, next, global, errs) /\ decls \in Seq(Declarations)
        /\ errs \in BOOLEAN /\ next \in 1..Len(decls)
        /\ ~errs => Indexed(decls, global, next - 1)
    BY <1>1 DEF Checking, CheckOK, ResolveOK
  <1>3. /\ errs' \in BOOLEAN
        /\ ~errs' => Indexed(decls, global', next)
    <2>1. CASE decls[next].name \in DOMAIN global
      BY <2>1 DEF DeclareGlobal
    <2>2. CASE ~(decls[next].name \in DOMAIN global)
      <3>1. errs' = errs /\ global' = Extend(global, decls[next].name, next)
        BY <2>2 DEF DeclareGlobal
      <3>2. next \in Nat \ {0}
        BY <1>2
      <3>3. ~errs => Indexed(decls, Extend(global, decls[next].name, next), next)
        BY <1>2, <2>2, <3>2, IndexedMore
      <3> QED
        BY <1>2, <3>1, <3>3
    <2> QED
      BY <2>1, <2>2
  <1>4. ResolveOK(decls, pass', next', global', errs')
    <2>1. CASE next < Len(decls) /\ next' = next + 1 /\ pass' = pass /\ next + 1 \in 1..Len(decls)
      <3>1. pass' = "declare" /\ next' \in 1..Len(decls) /\ next' = next + 1
        BY <1>1, <2>1
      <3>2. \A n \in 1..Len(decls) : (n + 1) - 1 = n
        OBVIOUS
      <3>3. ~errs' => Indexed(decls, global', (next + 1) - 1)
        BY <1>2, <1>3, <3>2
      <3> QED
        BY <1>2, <1>3, <3>1, <3>3 DEF ResolveOK
    <2>2. CASE next = Len(decls) /\ next' = 1 /\ pass' = "signatures"
      <3>1. Exist(decls, global', 1 - 1)
        BY DEF Exist
      <3>2. 1 \in 1..Len(decls)
        BY <1>2, <2>2
      <3>3. ~errs' => Indexed(decls, global', Len(decls))
        BY <1>3, <2>2
      <3> QED
        BY <1>2, <1>3, <2>2, <3>1, <3>2, <3>3 DEF ResolveOK
    <2> QED
      BY <1>1, <1>2, <2>1, <2>2, Advanced
  <1> QED
    BY <1>1, <1>4, Resolved

\* Signatures.
LEMMA ResolveSignatureOK ==
    ASSUME Checking, ResolveSignature
    PROVE  Checking2
  <1>1. /\ pass = "signatures" /\ Advances("main") /\ Resolving /\ global' = global
        /\ errs' = (errs \/ \E te \in Mentioned(decls[next]) : ~IsType(te))
    BY DEF ResolveSignature
  <1>2. /\ ResolveOK(decls, pass, next, global, errs) /\ decls \in Seq(Declarations)
        /\ errs \in BOOLEAN /\ next \in 1..Len(decls)
        /\ ~errs => Indexed(decls, global, Len(decls)) /\ Exist(decls, global, next - 1)
    BY <1>1 DEF Checking, CheckOK, ResolveOK
  <1>3. \A te : IsType(te) <=> TypeIn(te, decls, global)
    BY DEF IsType, TypeIn, KindOf, KindIn
  <1>4. /\ errs' \in BOOLEAN
        /\ ~errs' => Indexed(decls, global, Len(decls)) /\ Exist(decls, global, next)
    <2>1. errs' \in BOOLEAN
      BY <1>1
    <2>2. next \in Nat \ {0}
      BY <1>2
    <2>3. ~errs' => ~errs /\ \A te \in Mentioned(decls[next]) : TypeIn(te, decls, global)
      BY <1>1, <1>2, <1>3
    <2>4. ~errs' => Exist(decls, global, next)
      BY <1>2, <2>2, <2>3, ExistMore
    <2> QED
      BY <1>2, <2>1, <2>3, <2>4
  <1>5. ResolveOK(decls, pass', next', global, errs')
    <2>1. CASE next < Len(decls) /\ next' = next + 1 /\ pass' = pass /\ next + 1 \in 1..Len(decls)
      <3>1. pass' = "signatures" /\ next' \in 1..Len(decls) /\ next' = next + 1
        BY <1>1, <2>1
      <3>2. \A n \in 1..Len(decls) : (n + 1) - 1 = n
        OBVIOUS
      <3>3. ~errs' => Exist(decls, global, (next + 1) - 1)
        BY <1>2, <1>4, <3>2
      <3> QED
        BY <1>2, <1>4, <3>1, <3>3 DEF ResolveOK
    <2>2. CASE next = Len(decls) /\ next' = 1 /\ pass' = "main"
      <3>1. ~errs' => Exist(decls, global, Len(decls))
        BY <1>4, <2>2
      <3> QED
        BY <1>2, <1>4, <2>2, <3>1 DEF ResolveOK
    <2> QED
      BY <1>1, <1>2, <2>1, <2>2, Advanced
  <1> QED
    BY <1>1, <1>5, Resolved

\* The main function.
LEMMA CheckMainOK ==
    ASSUME Checking, CheckMain
    PROVE  Checking2
  <1>1. /\ pass = "main" /\ pass' = "exports" /\ Resolving /\ global' = global /\ next' = next
        /\ errs' = (errs \/ "main" \notin DOMAIN global \/ ~IsMain(decls[global["main"]]))
    BY DEF CheckMain
  <1>2. /\ decls \in Seq(Declarations) /\ errs \in BOOLEAN /\ next = 1
        /\ ~errs => Indexed(decls, global, Len(decls)) /\ Exist(decls, global, Len(decls))
    BY <1>1 DEF Checking, CheckOK, ResolveOK
  <1>3. errs' \in BOOLEAN /\ (~errs' => ~errs /\ MainIn(decls, global))
    BY <1>1, <1>2 DEF MainIn
  <1>4. ResolveOK(decls, pass', next', global', errs')
    BY <1>1, <1>2, <1>3 DEF ResolveOK
  <1> QED
    BY <1>1, <1>4, Resolved

\* The exports.
LEMMA CheckExportsOK ==
    ASSUME Checking, CheckExports
    PROVE  Checking2
  <1>1. /\ pass = "exports" /\ Resolving /\ global' = global /\ next' = next
        /\ pass' = IF errs' THEN "done" ELSE "bodies"
        /\ errs' = (errs \/ \E i \in DOMAIN decls :
                                /\ decls[i].kind = "func" /\ decls[i].form = "export"
                                /\ decls[i].name \in {"memory", "_start"})
    BY DEF CheckExports
  <1>2. /\ decls \in Seq(Declarations) /\ errs \in BOOLEAN /\ next = 1
        /\ ~errs => /\ Indexed(decls, global, Len(decls)) /\ Exist(decls, global, Len(decls))
                    /\ MainIn(decls, global)
    BY <1>1 DEF Checking, CheckOK, ResolveOK
  <1>3. DOMAIN decls = 1..Len(decls) /\ Len(decls) \in Nat
    BY <1>2, LenProperties
  <1>4. errs' \in BOOLEAN /\ (~errs' => ~errs /\ ExportsIn(decls))
    <2>1. errs' \in BOOLEAN /\ (~errs' => ~errs)
      BY <1>1, <1>2
    <2>2. ~errs' => ExportsIn(decls)
      BY <1>1, <1>3 DEF ExportsIn
    <2> QED
      BY <2>1, <2>2
  <1>5. Indexed(decls, global, Len(decls)) /\ MainIn(decls, global) => 1 \in 1..Len(decls)
    <2>1. ASSUME Indexed(decls, global, Len(decls)), "main" \in DOMAIN global
          PROVE  1 \in 1..Len(decls)
      <3>1. PICK i \in 1..Len(decls) : decls[i].name = "main"
        BY <2>1 DEF Indexed
      <3> QED
        BY <1>3
    <2> QED
      BY <2>1 DEF MainIn
  <1>6. ResolveOK(decls, pass', next', global', errs')
    <2>1. CASE errs'
      BY <1>1, <1>2, <1>4, <2>1 DEF ResolveOK
    <2>2. CASE ~errs'
      BY <1>1, <1>2, <1>4, <1>5, <2>2 DEF ResolveOK
    <2> QED
      BY <2>1, <2>2
  <1> QED
    BY <1>1, <1>6, Resolved

-----------------------------------------------------------------------------
(* Functions. *)

\* What is known of the passes while bodies are walked through.
LEMMA BodiesParts ==
    ASSUME Checking, pass = "bodies"
    PROVE  /\ decls \in Seq(Declarations) /\ next \in 1..Len(decls) /\ errs \in BOOLEAN
           /\ decls[next] \in Declarations /\ got \in TypesNil
           /\ Indexed(decls, global, Len(decls)) /\ Exist(decls, global, Len(decls))
           /\ MainIn(decls, global) /\ ExportsIn(decls)
  <1>1. /\ decls \in Seq(Declarations) /\ next \in 1..Len(decls) /\ errs \in BOOLEAN
        /\ Indexed(decls, global, Len(decls)) /\ Exist(decls, global, Len(decls))
        /\ MainIn(decls, global) /\ ExportsIn(decls) /\ got \in TypesNil
    BY DEF Checking, CheckOK, ResolveOK, WalkOK
  <1> QED
    BY <1>1, ElementOfSeq

\* The bodies go on, or are done.
LEMMA BodiesGoOn ==
    ASSUME Checking, pass = "bodies", NEW ps, NEW nx, NEW er \in BOOLEAN,
           (ps = "bodies" /\ nx \in 1..Len(decls)) \/ ps = "done"
    PROVE  ResolveOK(decls, ps, nx, global, er)
  BY BodiesParts DEF ResolveOK

\* The outermost scope of a function.
LEMMA ParameterScope ==
    ASSUME NEW p \in Seq(NamedTypes), NEW er,
           NEW f, f = [n \in {p[i].name : i \in DOMAIN p} |->
                          p[CHOOSE i \in DOMAIN p : p[i].name = n].type]
    PROVE  f \in Scopes /\ \A n \in DOMAIN f : Fine(f[n], er)
  <1> DEFINE D == {p[i].name : i \in DOMAIN p}
             c(n) == CHOOSE i \in DOMAIN p : p[i].name = n
  <1>1. ASSUME NEW n \in D
        PROVE  n \in Names /\ p[c(n)].type \in TypeExprs
    <2>1. PICK i \in DOMAIN p : n = p[i].name
      OBVIOUS
    <2>2. c(n) \in DOMAIN p
      BY <2>1
    <2> HIDE DEF c
    <2> QED
      BY <2>1, <2>2, NamedTypeParts
  <1>2. D \in SUBSET Names
    BY <1>1
  <1>3. f = [n \in D |-> p[c(n)].type]
    OBVIOUS
  <1> HIDE DEF D, c
  <1>4. DOMAIN f = D /\ \A n \in D : f[n] \in TypeExprs
    BY <1>1, <1>3
  <1>5. f \in [D -> TypesNil]
    BY <1>1, <1>3, TypesAreTypes
  <1>6. f \in Scopes
    BY <1>2, <1>5 DEF Scopes
  <1> QED
    BY <1>4, <1>6, TypesAreTypes DEF Fine

\* A function's body begins.
LEMMA CheckFuncOK ==
    ASSUME Checking, CheckFunc
    PROVE  Checking2
  <1> DEFINE p == decls[next].params
             f == [n \in {p[i].name : i \in DOMAIN p} |->
                      p[CHOOSE i \in DOMAIN p : p[i].name = n].type]
             x == Item("block")
             y == Item("endFunc")
             none == <<>>
  <1>1. /\ pass = "bodies" /\ walk = <<>> /\ HasBody(decls[next])
        /\ walk' = <<x, y>> /\ scopes' = <<f>>
        /\ errs' = (errs \/ \E i, j \in DOMAIN p : i < j /\ p[i].name = p[j].name)
        /\ UNCHANGED <<decls, pass, next, global, loops, got>>
    BY DEF CheckFunc
  <1>2. /\ decls \in Seq(Declarations) /\ next \in 1..Len(decls) /\ errs \in BOOLEAN
        /\ decls[next] \in Declarations /\ got \in TypesNil /\ loops = 0
    BY <1>1, BodiesParts, BetweenBodies
  <1>3. p \in Seq(NamedTypes)
    BY <1>1, <1>2, DeclParts DEF HasBody
  <1>4. \A er : f \in Scopes /\ \A n \in DOMAIN f : Fine(f[n], er)
    <2> DEFINE h == f
    <2>1. h = [n \in {p[i].name : i \in DOMAIN p} |->
                  p[CHOOSE i \in DOMAIN p : p[i].name = n].type]
      OBVIOUS
    <2> HIDE DEF h, p
    <2>2. \A er : h \in Scopes /\ \A n \in DOMAIN h : Fine(h[n], er)
      BY ONLY <1>3, <2>1, ParameterScope
    <2> QED
      BY <2>2 DEF h
  <1>5. errs' \in BOOLEAN
    BY <1>1, <1>2
  <1> HIDE DEF f, p
  <1>6. \E sc : sc = <<f>>
    OBVIOUS
  <1>7. PICK sc : sc = <<f>>
    BY <1>6
  <1>8. /\ sc \in Seq(Scopes) /\ sc # <<>> /\ Len(sc) = 1 /\ sc[1] = f
    <2>1. f \in Scopes
      BY <1>4
    <2> QED
      BY <1>7, <2>1
  <1>9. Front(sc) = none /\ none \in Seq(Scopes)
    <2>1. Front(sc) \in Seq(Scopes) /\ Len(Front(sc)) = 0
      BY <1>8, FrontParts
    <2>2. Front(sc) = <<>>
      BY <2>1, EmptySeq
    <2> QED
      BY <2>1, <2>2
  <1> HIDE DEF none
  <1>10. ASSUME NEW er \in BOOLEAN
         PROVE  WalkOK(decls, pass, next, global, sc, 0, <<x, y>>, got, er)
    <2> DEFINE a == K(Got(got, er), none, 0)
               b == K(0, none, 0)
               c == CheckerLeaves(y, b)
    <2>1. Got(got, er) \in 0..1 /\ 0 \in 0..1 /\ 0 \in Nat /\ "block" \in PlainItems \ EndItems
      BY <1>10, GotParts DEF PlainItems, EndItems
    <2>2. x \in CheckerItems /\ <<x, a, b>> \in CheckerSteps(decls, global, er)
      BY <1>9, <2>1, ItemStep
    <2>3. y \in CheckerItems /\ y.do = "endFunc"
      BY DEF Item, CheckerItems, PlainItems
    <2>4. b \in CheckerKnown /\ b.got = 0 /\ b.outer = none /\ b.loops = 0
      BY ONLY <1>9, <2>1, KnownParts
    <2> HIDE DEF x, y, a, b
    <2>5. "endFunc" \notin Consumers /\ "endFunc" \notin Producers
      BY DEF Consumers, Producers
    <2>6. CheckerNeeds(y, b, decls, global, er)
      BY <2>3, <2>4, <2>5 DEF CheckerNeeds, none
    <2>7. c = [got |-> 0, outer |-> none, loops |-> 0, ended |-> 1]
      BY <2>3, <2>4, <2>5 DEF CheckerLeaves
    <2>8. c \in CheckerKnown /\ AtLeast(c, c) /\ c.ended = 1
      BY <1>9, <2>7 DEF CheckerKnown, AtLeast
    <2>9. <<y, b, c>> \in CheckerSteps(decls, global, er)
      BY <2>3, <2>4, <2>6, <2>8 DEF CheckerSteps
    <2> HIDE DEF c
    <2>10. CheckerLeads(decls, global, er, <<x, y>>, a, c)
      BY <2>2, <2>3, <2>9, CheckerTwo
    <2>11. Here(sc, 0, got, er) = a
      BY <1>9 DEF Here, a
    <2>12. \A i \in 1..Len(sc) : \A n \in DOMAIN sc[i] : Fine(sc[i][n], er)
      <3> TAKE i \in 1..Len(sc)
      <3>1. i = 1
        BY <1>8
      <3> QED
        BY <1>4, <1>8, <3>1
    <2> DEFINE w == <<x, y>>
    <2>13. w # <<>>
      OBVIOUS
    <2> HIDE DEF w
    <2>14. CheckerLeads(decls, global, er, w, Here(sc, 0, got, er), c)
      BY <2>10, <2>11 DEF w
    <2>15. WalkOK(decls, pass, next, global, sc, 0, w, got, er)
      BY <1>1, <1>2, <1>8, <2>8, <2>12, <2>13, <2>14 DEF WalkOK
    <2> QED
      BY <2>15 DEF w
  <1>11. WalkOK(decls, pass, next, global, scopes', loops', walk', got, errs')
    BY <1>1, <1>2, <1>5, <1>7, <1>10
  <1>12. ResolveOK(decls, pass, next, global, errs')
    BY <1>1, <1>2, <1>5, BodiesGoOn
  <1>13. BodyOK(decls, next, walk')
    BY <1>1 DEF BodyOK
  <1> QED
    BY <1>1, <1>11, <1>12, <1>13 DEF Checking2, CheckOK

\* A function's body ends.
LEMMA EndFuncOK ==
    ASSUME Checking, EndFunc
    PROVE  Checking2
  <1>1. /\ pass = "bodies" /\ walk # <<>> /\ Top.do = "endFunc" /\ walk' = <<>> /\ scopes' = <<>>
        /\ got' = NoType /\ Advances("done") /\ UNCHANGED <<decls, global, loops, errs>>
    BY DEF EndFunc, AtItem
  <1>2. decls \in Seq(Declarations) /\ next \in 1..Len(decls) /\ errs \in BOOLEAN
    BY <1>1, BodiesParts
  <1>3. loops = 0
    <2> DEFINE a == Here(scopes, loops, got, errs)
    <2>1. /\ CheckerNeeds(Head(walk), a, decls, global, errs) /\ got \in TypesNil
          /\ Front(scopes) \in Seq(Scopes) /\ loops \in Nat
      BY <1>1, WalkTop DEF Checking, CheckOK
    <2>2. Got(got, errs) \in 0..1
      BY <1>2, GotParts
    <2>3. a.loops = loops
      BY ONLY <2>1, <2>2, KnownParts DEF Here
    <2> HIDE DEF a
    <2> QED
      BY <1>1, <2>1, <2>3 DEF CheckerNeeds, Top
  <1>4. ResolveOK(decls, pass', next', global, errs)
    <2>1. (pass' = "bodies" /\ next' \in 1..Len(decls)) \/ pass' = "done"
      <3>1. CASE next < Len(decls) /\ next' = next + 1 /\ pass' = pass /\ next + 1 \in 1..Len(decls)
        BY <1>1, <3>1
      <3>2. CASE next = Len(decls) /\ next' = 1 /\ pass' = "done"
        BY <3>2
      <3> QED
        BY <1>1, <1>2, <3>1, <3>2, Advanced
    <2>2. \A ps, nx : (ps = "bodies" /\ nx \in 1..Len(decls)) \/ ps = "done"
                          => ResolveOK(decls, ps, nx, global, errs)
      BY <1>1, <1>2, BodiesGoOn
    <2> QED
      BY <2>1, <2>2
  <1>5. NoType \in TypesNil
    BY TypesAreTypes
  <1>6. \A ps, nx : /\ WalkOK(decls, ps, nx, global, <<>>, 0, <<>>, NoType, errs)
                    /\ BodyOK(decls, nx, <<>>)
    BY <1>2, <1>5, NoWalk
  <1>7. /\ WalkOK(decls, pass', next', global, scopes', loops, walk', got', errs)
        /\ BodyOK(decls, next', walk')
    BY <1>1, <1>3, <1>6
  <1> QED
    BY <1>1, <1>4, <1>7 DEF Checking2, CheckOK

\* A declaration without a body.
LEMMA CheckNoBodyOK ==
    ASSUME Checking, CheckNoBody
    PROVE  Checking2
  <1>1. /\ pass = "bodies" /\ walk = <<>> /\ Advances("done")
        /\ UNCHANGED <<decls, global, scopes, loops, walk, got>>
    BY DEF CheckNoBody
  <1>2. /\ decls \in Seq(Declarations) /\ next \in 1..Len(decls) /\ errs \in BOOLEAN
        /\ scopes = <<>> /\ loops = 0 /\ got \in TypesNil
    BY <1>1, BodiesParts, BetweenBodies
  <1>3. errs' \in BOOLEAN
    BY <1>2 DEF CheckNoBody
  <1>4. ResolveOK(decls, pass', next', global, errs')
    <2>1. (pass' = "bodies" /\ next' \in 1..Len(decls)) \/ pass' = "done"
      <3>1. CASE next < Len(decls) /\ next' = next + 1 /\ pass' = pass /\ next + 1 \in 1..Len(decls)
        BY <1>1, <3>1
      <3>2. CASE next = Len(decls) /\ next' = 1 /\ pass' = "done"
        BY <3>2
      <3> QED
        BY <1>1, <1>2, <3>1, <3>2, Advanced
    <2>2. \A er \in BOOLEAN : \A ps, nx : (ps = "bodies" /\ nx \in 1..Len(decls)) \/ ps = "done"
                                              => ResolveOK(decls, ps, nx, global, er)
      BY <1>1, BodiesGoOn
    <2> QED
      BY <1>3, <2>1, <2>2
  <1>5. \A er \in BOOLEAN : \A ps, nx : /\ WalkOK(decls, ps, nx, global, <<>>, 0, <<>>, got, er)
                                        /\ BodyOK(decls, nx, <<>>)
    BY <1>2, NoWalk
  <1>6. /\ WalkOK(decls, pass', next', global, scopes, loops, walk, got, errs')
        /\ BodyOK(decls, next', walk)
    BY <1>1, <1>2, <1>3, <1>5
  <1> QED
    BY <1>1, <1>4, <1>6 DEF Checking2, CheckOK

-----------------------------------------------------------------------------
(* The checker as a whole. *)

\* The steps of the walk through a body.
WalkNext ==
    \/ CheckBlock \/ EndBlock \/ CheckCompound \/ CheckElse \/ CountLoop
    \/ CheckVarDecl \/ DeclareLocal \/ CheckSimple \/ Assign \/ CheckReturn \/ CheckBranch
    \/ Report \/ Use \/ CheckCond
    \/ CheckIntLit \/ CheckOtherLit \/ CheckIdent \/ CheckParen \/ CheckUnary \/ FinishUnary
    \/ CheckLogical \/ CheckOperandPair \/ SecondOperand \/ FinishBinary \/ CheckCast
    \/ CheckCall \/ Called \/ CheckIndex \/ CheckField \/ CheckStructLit \/ CheckInits

\* Each keeps the invariant of the walk.
LEMMA WalkNextOK ==
    ASSUME Sound, WalkNext
    PROVE  After
  <1>1. CASE CheckBlock \/ EndBlock \/ CheckCompound \/ CheckElse \/ CountLoop
    BY <1>1, CheckBlockOK, EndBlockOK, CompoundOK, CountLoopOK
  <1>2. CASE CheckVarDecl \/ DeclareLocal \/ CheckSimple \/ Assign \/ CheckReturn \/ CheckBranch
    BY <1>2, VarDeclOK, DeclareLocalOK, SimpleOK, AssignOK, ReturnOK
  <1>3. CASE Report \/ Use \/ CheckCond
    BY <1>3, EndsOK
  <1>4. CASE CheckIntLit \/ CheckOtherLit \/ CheckIdent
    BY <1>4, LeavesOK
  <1>5. CASE CheckParen \/ CheckUnary \/ FinishUnary \/ CheckLogical
    BY <1>5, UnaryOK, FinishUnaryOK, LogicalOK
  <1>6. CASE CheckOperandPair \/ SecondOperand \/ FinishBinary \/ CheckCast
    BY <1>6, OperandsOK, FinishBinaryOK, CastOK
  <1>7. CASE CheckCall \/ Called \/ CheckIndex \/ CheckField \/ CheckStructLit \/ CheckInits
    BY <1>7, CallOK, IndexOK, FieldOK, StructLitOK, InitsOK
  <1> QED
    BY <1>1, <1>2, <1>3, <1>4, <1>5, <1>6, <1>7 DEF WalkNext

\* Whatever visits, returns or states changes no declaration.
LEMMA VisitKeeps ==
    /\ \A s : Visit(s) => Keep
    /\ \A t, bad : Yield(t, bad) => Keep
    /\ Reject => Keep
    /\ \A s : Statement(s) => Keep /\ AtItem("stmts")
  BY DEF Visit, Yield, Reject, Statement

\* No step of the walk changes declarations, and each works on an item.
LEMMA WalkNextKeeps ==
    ASSUME WalkNext
    PROVE  walk # <<>> /\ UNCHANGED <<decls, pass, next, global>>
  <1> DEFINE Kept == UNCHANGED <<decls, pass, next, global>>
             OK == walk # <<>> /\ Kept
  <1>1. Keep => Kept
    BY DEF Keep
  <1>2. \A name : AtItem(name) => walk # <<>>
    BY DEF AtItem
  <1>3. \A forms : AtExpr(forms) => walk # <<>>
    BY <1>2 DEF AtExpr
  <1>4. CASE CheckBlock \/ EndBlock \/ CountLoop \/ DeclareLocal
    BY <1>2, <1>4 DEF CheckBlock, EndBlock, CountLoop, DeclareLocal
  <1>5. CASE CheckCompound \/ CheckSimple \/ CheckReturn \/ CheckBranch
    <2>1. \E s : Statement(s)
      BY <1>5 DEF CheckCompound, CheckSimple, CheckReturn, CheckBranch
    <2> QED
      BY <1>1, <1>2, <2>1, VisitKeeps
  <1>6. CASE CheckElse \/ Assign \/ SecondOperand
    BY <1>1, <1>2, <1>6, VisitKeeps DEF CheckElse, Assign, SecondOperand
  <1>7. CASE CheckVarDecl
    BY <1>1, <1>2, <1>7 DEF CheckVarDecl
  <1>8. CASE Report \/ Use \/ CheckCond \/ FinishBinary \/ Called
    <2>1. \E t, bad : Yield(t, bad)
      BY <1>8 DEF Report, Use, CheckCond, FinishBinary, Called
    <2>2. \E name : AtItem(name)
      BY <1>8 DEF Report, Use, CheckCond, FinishBinary, Called
    <2> QED
      BY <1>1, <1>2, <2>1, <2>2, VisitKeeps
  <1>9. CASE CheckIntLit \/ CheckOtherLit \/ CheckIdent
    <2>1. \E t, bad : Yield(t, bad)
      BY <1>9 DEF CheckIntLit, CheckNumber, CheckOtherLit, CheckIdent
    <2>2. \E forms : AtExpr(forms)
      BY <1>9 DEF CheckIntLit, CheckNumber, CheckOtherLit, CheckIdent
    <2> QED
      BY <1>1, <1>3, <2>1, <2>2, VisitKeeps
  <1>10. CASE CheckParen \/ CheckUnary \/ CheckOperandPair
    <2>1. (\E s : Visit(s)) \/ Reject
      BY <1>10 DEF CheckParen, CheckUnary, CheckOperandPair
    <2>2. \E forms : AtExpr(forms)
      BY <1>10 DEF CheckParen, CheckUnary, CheckOperandPair
    <2> QED
      BY <1>1, <1>3, <2>1, <2>2, VisitKeeps
  <1>11. CASE FinishUnary
    <2>1. \E t, bad : Yield(t, bad)
      BY <1>11 DEF FinishUnary
    <2>2. \E name : AtItem(name)
      BY <1>11 DEF FinishUnary
    <2> QED
      BY <1>1, <1>2, <2>1, <2>2, VisitKeeps
  <1>12. CASE CheckLogical \/ CheckCast
    <2>1. (\E s : Visit(s)) \/ \E t, bad : Yield(t, bad)
      BY <1>12 DEF CheckLogical, CheckCast
    <2>2. (\E forms : AtExpr(forms)) \/ \E name : AtItem(name)
      BY <1>12 DEF CheckLogical, CheckCast
    <2> QED
      BY <1>1, <1>2, <1>3, <2>1, <2>2, VisitKeeps
  <1>13. CASE CheckCall
    <2>1. Reject \/ Keep \/ \E s : Visit(s)
      BY <1>13 DEF CheckCall
    <2>2. (\E forms : AtExpr(forms)) \/ \E name : AtItem(name)
      BY <1>13 DEF CheckCall
    <2> QED
      BY <1>1, <1>2, <1>3, <2>1, <2>2, VisitKeeps
  <1>14. CASE CheckIndex \/ CheckField
    <2>1. (\E s : Visit(s)) \/ \E t, bad : Yield(t, bad)
      BY <1>14 DEF CheckIndex, CheckField
    <2>2. (\E forms : AtExpr(forms)) \/ \E name : AtItem(name)
      BY <1>14 DEF CheckIndex, CheckField
    <2> QED
      BY <1>1, <1>2, <1>3, <2>1, <2>2, VisitKeeps
  <1>15. CASE CheckStructLit
    <2>1. Reject \/ \E s : Visit(s)
      BY <1>15 DEF CheckStructLit
    <2>2. \E forms : AtExpr(forms)
      BY <1>15 DEF CheckStructLit
    <2> QED
      BY <1>1, <1>3, <2>1, <2>2, VisitKeeps
  <1>16. CASE CheckInits
    <2>1. AtItem("inits") /\ (Keep \/ (\E s : Visit(s)) \/ \E t, bad : Yield(t, bad))
      BY <1>16 DEF CheckInits
    <2> QED
      BY <1>1, <1>2, <2>1, VisitKeeps
  <1> HIDE DEF OK
  <1> QED
    BY <1>4, <1>5, <1>6, <1>7, <1>8, <1>9, <1>10, <1>11, <1>12, <1>13, <1>14, <1>15, <1>16
       DEF WalkNext, OK

\* A step of the walk.
LEMMA WalkingOK ==
    ASSUME Checking, WalkNext
    PROVE  Checking2
  <1>1. walk # <<>> /\ UNCHANGED <<decls, pass, next, global>>
    BY WalkNextKeeps
  <1>2. pass = "bodies" /\ BodyOK(decls, next, walk)
        /\ WalkOK(decls, pass, next, global, scopes, loops, walk, got, errs)
    BY <1>1 DEF Checking, CheckOK, WalkOK
  <1>3. decls \in Seq(Declarations) /\ next \in 1..Len(decls) /\ Indexed(decls, global, Len(decls))
    BY <1>2, BodiesParts
  <1>4. Sound
    BY <1>2, <1>3 DEF Sound
  <1>5. After
    BY <1>4, WalkNextOK
  <1>6. errs' \in BOOLEAN
    BY <1>5 DEF After, WalkOK
  <1>7. ResolveOK(decls, pass, next, global, errs')
    BY <1>2, <1>3, <1>6, BodiesGoOn
  <1>8. BodyOK(decls, next, walk')
    BY <1>1, <1>2 DEF BodyOK
  <1> QED
    BY <1>1, <1>5, <1>7, <1>8 DEF Checking2, CheckOK, After

\* A step of the checker.
LEMMA CheckNextOK ==
    ASSUME Checking, CheckNext
    PROVE  Checking2
  <1>1. \/ DeclareGlobal \/ ResolveSignature \/ CheckMain \/ CheckExports
        \/ CheckFunc \/ EndFunc \/ CheckNoBody \/ WalkNext
    BY DEF CheckNext, WalkNext
  <1> QED
    BY <1>1, DeclareGlobalOK, ResolveSignatureOK, CheckMainOK, CheckExportsOK, CheckFuncOK,
       EndFuncOK, CheckNoBodyOK, WalkingOK

\* The inductive invariant: the checker while it runs, and its initial state
\* before and after.
CheckerInv(stg, ds, ps, nx, gl, sc, lp, wk, gt, er) ==
    /\ stg = "check" => CheckOK(ds, ps, nx, gl, sc, lp, wk, gt, er)
    /\ stg # "check" => /\ ds = <<>> /\ ps = "declare" /\ nx = 1 /\ gl = <<>> /\ sc = <<>>
                        /\ lp = 0 /\ wk = <<>> /\ gt = NoType /\ er = FALSE

\* It holds initially.
LEMMA CheckerInvInit ==
    ASSUME Init
    PROVE  CheckerInv(stage, decls, pass, next, global, scopes, loops, walk, got, errs)
  BY DEF Init, CheckerInv

\* A file is given to the checker.
LEMMA StartCheckerOK ==
    ASSUME CheckerInv(stage, decls, pass, next, global, scopes, loops, walk, got, errs), StartChecker
    PROVE  Checking2
  <1>1. /\ stage = "parse" /\ decls' \in Files
        /\ pass' = IF decls' = <<>> THEN "main" ELSE "declare"
        /\ UNCHANGED <<next, global, scopes, loops, walk, got, errs>>
    BY DEF StartChecker
  <1>2. /\ next' = 1 /\ global' = <<>> /\ scopes' = <<>> /\ loops' = 0 /\ walk' = <<>>
        /\ got' = NoType /\ errs' = FALSE
    BY <1>1 DEF CheckerInv
  <1>3. decls' \in Seq(Declarations)
    BY <1>1, FilesOK
  <1>4. ASSUME NEW ds \in Seq(Declarations), NEW ps, ps = IF ds = <<>> THEN "main" ELSE "declare"
        PROVE  ResolveOK(ds, ps, 1, <<>>, FALSE)
    <2>1. Len(ds) \in Nat /\ (ds = <<>> <=> Len(ds) = 0)
      BY LenProperties, EmptySeq
    <2> DEFINE gl == <<>>
    <2>2. DOMAIN gl = {}
      OBVIOUS
    <2> HIDE DEF gl
    <2>3. Indexed(ds, gl, 0) /\ Exist(ds, gl, 0)
      BY <2>2 DEF Indexed, Exist
    <2>4. CASE ds = <<>>
      <3>1. ps = "main" /\ Len(ds) = 0
        BY <1>4, <2>1, <2>4
      <3>2. ResolveOK(ds, ps, 1, gl, FALSE)
        BY <2>3, <3>1 DEF ResolveOK
      <3> QED
        BY <3>2 DEF gl
    <2>5. CASE ds # <<>>
      <3>1. ps = "declare" /\ 1 \in 1..Len(ds) /\ 1 - 1 = 0
        BY <1>4, <2>1, <2>5
      <3>2. ResolveOK(ds, ps, 1, gl, FALSE)
        BY <2>3, <3>1 DEF ResolveOK
      <3> QED
        BY <3>2 DEF gl
    <2> QED
      BY <2>4, <2>5
  <1>5. ResolveOK(decls', pass', next', global', errs')
    BY <1>1, <1>2, <1>3, <1>4
  <1>6. NoType \in TypesNil /\ FALSE \in BOOLEAN
    BY TypesAreTypes
  <1>7. \A ds, ps, nx, gl : /\ WalkOK(ds, ps, nx, gl, <<>>, 0, <<>>, NoType, FALSE)
                            /\ BodyOK(ds, nx, <<>>)
    <2>1. \A ds, ps, nx, gl : \A gt \in TypesNil : \A er \in BOOLEAN :
              WalkOK(ds, ps, nx, gl, <<>>, 0, <<>>, gt, er) /\ BodyOK(ds, nx, <<>>)
      BY ONLY NoWalk
    <2> QED
      BY <1>6, <2>1
  <1>8. /\ WalkOK(decls', pass', next', global', scopes', loops', walk', got', errs')
        /\ BodyOK(decls', next', walk')
    BY <1>2, <1>7
  <1> QED
    BY <1>5, <1>8 DEF Checking2, CheckOK

\* Every step keeps the invariant.
LEMMA CheckerInvNext ==
    ASSUME CheckerInv(stage, decls, pass, next, global, scopes, loops, walk, got, errs), [Next]_vars
    PROVE  CheckerInv(stage', decls', pass', next', global', scopes', loops', walk', got', errs')
  <1> DEFINE OK == CheckerInv(stage', decls', pass', next', global', scopes', loops', walk', got', errs')
  <1>1. ASSUME stage' = stage, UNCHANGED checkVars PROVE OK
    BY <1>1 DEF checkVars
  <1>2. ASSUME stage # "check", stage' # "check", UNCHANGED checkVars PROVE OK
    BY <1>2 DEF checkVars, CheckerInv
  <1>3. ASSUME CheckIdle, stage' # "check" PROVE OK
    BY <1>3 DEF CheckIdle, CheckerInv
  <1>4. ASSUME Checking2, stage' = "check" PROVE OK
    BY <1>4 DEF Checking2, CheckerInv
  <1>5. CASE UNCHANGED vars
    BY <1>1, <1>5 DEF vars, OK
  <1>6. CASE Lex \/ Parse
    BY <1>1, <1>6 DEF Lex, Parse, OK
  <1>7. CASE StartParser
    <2>1. stage = "lex" /\ stage' = "parse" /\ UNCHANGED checkVars
      BY <1>7 DEF StartParser
    <2> QED
      BY <1>2, <2>1 DEF OK
  <1>8. CASE StartChecker
    <2>1. stage' = "check"
      BY <1>8 DEF StartChecker
    <2> QED
      BY <1>4, <1>8, <2>1, StartCheckerOK DEF OK
  <1>9. CASE Check
    <2>1. stage = "check" /\ stage' = stage /\ CheckNext
      BY <1>9 DEF Check
    <2>2. Checking
      BY <2>1 DEF Checking, CheckerInv
    <2> QED
      BY <1>4, <2>1, <2>2, CheckNextOK DEF OK
  <1>10. CASE StartGenerator
    <2>1. stage' = "generate" /\ CheckIdle
      BY <1>10 DEF StartGenerator
    <2> QED
      BY <1>3, <2>1 DEF OK
  <1>11. CASE Fail
    <2>1. stage' = "failed" /\ CheckIdle
      BY <1>11 DEF Fail
    <2> QED
      BY <1>3, <2>1 DEF OK
  <1>12. CASE Ended
    BY <1>1, <1>12 DEF Ended, vars, OK
  <1> QED
    BY <1>5, <1>6, <1>7, <1>8, <1>9, <1>10, <1>11, <1>12 DEF Next, OK

\* It holds at every step.
LEMMA CheckerInvariant ==
    Spec => []CheckerInv(stage, decls, pass, next, global, scopes, loops, walk, got, errs)
  <1>1. Init => CheckerInv(stage, decls, pass, next, global, scopes, loops, walk, got, errs)
    BY CheckerInvInit
  <1>2. CheckerInv(stage, decls, pass, next, global, scopes, loops, walk, got, errs) /\ [Next]_vars
            => CheckerInv(stage, decls, pass, next, global, scopes, loops, walk, got, errs)'
    BY CheckerInvNext
  <1> QED
    BY <1>1, <1>2, PTL DEF Spec

\* What resolve establishes before any body is checked, in a file of any
\* length: a name means one declaration, main has the signature that the
\* runtime's start calls, no type is unknown, and no export collides with the
\* module's own two (resolve and Check of sema.go).
THEOREM BodiesAreResolved == Spec => []ResolvedRight
  <1>1. CheckerInv(stage, decls, pass, next, global, scopes, loops, walk, got, errs) => ResolvedRight
    <2> SUFFICES ASSUME CheckerInv(stage, decls, pass, next, global, scopes, loops, walk, got, errs),
                        pass = "bodies"
                 PROVE  /\ \A i, j \in DOMAIN decls : decls[i].name = decls[j].name => i = j
                        /\ \E i \in DOMAIN decls : decls[i].name = "main" /\ IsMain(decls[i])
                        /\ \A i \in DOMAIN decls :
                               /\ \A te \in Mentioned(decls[i]) : IsType(te)
                               /\ decls[i].kind = "func" /\ decls[i].form = "export" =>
                                      decls[i].name \notin {"memory", "_start"}
      BY DEF ResolvedRight
    <2>1. Checking
      BY DEF CheckerInv, Checking
    <2>2. /\ decls \in Seq(Declarations) /\ Indexed(decls, global, Len(decls))
          /\ Exist(decls, global, Len(decls)) /\ MainIn(decls, global) /\ ExportsIn(decls)
      BY <2>1, BodiesParts
    <2>3. DOMAIN decls = 1..Len(decls)
      BY <2>2, LenProperties
    <2>4. \A i, j \in DOMAIN decls : decls[i].name = decls[j].name => i = j
      BY <2>2, <2>3 DEF Indexed
    <2>5. \E i \in DOMAIN decls : decls[i].name = "main" /\ IsMain(decls[i])
      <3>1. global["main"] \in 1..Len(decls) /\ decls[global["main"]].name = "main"
        BY <2>2, GlobalName DEF MainIn
      <3> QED
        BY <2>2, <2>3, <3>1 DEF MainIn
    <2>6. \A te : IsType(te) <=> TypeIn(te, decls, global)
      BY DEF IsType, TypeIn, KindOf, KindIn
    <2>7. \A i \in DOMAIN decls : \A te \in Mentioned(decls[i]) : IsType(te)
      BY <2>2, <2>3, <2>6 DEF Exist
    <2>8. \A i \in DOMAIN decls : decls[i].kind = "func" /\ decls[i].form = "export" =>
                                      decls[i].name \notin {"memory", "_start"}
      BY <2>2, <2>3 DEF ExportsIn
    <2> QED
      BY <2>4, <2>5, <2>7, <2>8
  <1> QED
    BY <1>1, CheckerInvariant, PTL

\* Wherever checkExpr and its helpers look at the type of an operand and find
\* nil, an error has been reported: that is why they may return nil in turn
\* without a word, and why an accepted program has no expression without a type.
THEOREM NilIsReported == Spec => []NilMeansError
  <1>1. CheckerInv(stage, decls, pass, next, global, scopes, loops, walk, got, errs) => NilMeansError
    <2> SUFFICES ASSUME CheckerInv(stage, decls, pass, next, global, scopes, loops, walk, got, errs),
                        NEW name \in Consumers, AtItem(name), got = NoType
                 PROVE  errs
      BY DEF NilMeansError, Consumers
    <2>1. walk # <<>> /\ Top.do = name
      BY DEF AtItem
    <2>2. Checking
      BY <2>1 DEF CheckerInv, Checking
    <2> DEFINE a == Here(scopes, loops, got, errs)
    <2>3. /\ CheckerNeeds(Head(walk), a, decls, global, errs) /\ errs \in BOOLEAN
          /\ got \in TypesNil /\ Front(scopes) \in Seq(Scopes) /\ loops \in Nat
      BY <2>1, <2>2, WalkTop DEF Checking, CheckOK
    <2>4. Got(got, errs) \in 0..1 /\ (Got(got, errs) = 1 <=> Fine(got, errs))
      BY <2>3, GotParts
    <2>5. a.got = Got(got, errs)
      BY ONLY <2>3, <2>4, KnownParts DEF Here
    <2> HIDE DEF a
    <2>6. a.got = 1
      BY <2>1, <2>3 DEF CheckerNeeds, Top
    <2> QED
      BY <2>4, <2>5, <2>6 DEF Fine
  <1> QED
    BY <1>1, CheckerInvariant, PTL

-----------------------------------------------------------------------------
(* Scopes and loops. *)

\* The items of one kind among the first k.
Number(wk, name, k) == Cardinality({i \in 1..k : wk[i].do = name})

\* They are counted one at a time.
LEMMA Counted ==
    ASSUME NEW wk, NEW name, NEW k \in Nat
    PROVE  /\ Number(wk, name, 0) = 0
           /\ Number(wk, name, k) \in Nat
           /\ Number(wk, name, k + 1) = IF wk[k + 1].do = name THEN Number(wk, name, k) + 1
                                        ELSE Number(wk, name, k)
  <1> DEFINE F(j) == {i \in 1..j : wk[i].do = name}
  <1>1. F(0) = {} /\ Cardinality({}) = 0
    BY FS_EmptySet
  <1>2. F(k) \in SUBSET (1..k)
    OBVIOUS
  <1>3. IsFiniteSet(1..k)
    BY FS_Interval
  <1>4. IsFiniteSet(F(k))
    <2> HIDE DEF F
    <2> QED
      BY <1>2, <1>3, FS_Subset
  <1>5. Cardinality(F(k)) \in Nat
    BY <1>4, FS_CardinalityType
  <1>6. k + 1 \notin F(k)
    OBVIOUS
  <1>7. CASE wk[k + 1].do = name
    <2>1. F(k + 1) = F(k) \cup {k + 1}
      BY <1>7
    <2>2. Cardinality(F(k) \cup {k + 1}) = Cardinality(F(k)) + 1
      <3> HIDE DEF F
      <3> QED
        BY <1>4, <1>6, FS_AddElement
    <2> QED
      BY <1>1, <1>5, <1>7, <2>1, <2>2 DEF Number
  <1>8. CASE wk[k + 1].do # name
    <2>1. F(k + 1) = F(k)
      BY <1>8
    <2> QED
      BY <1>1, <1>5, <1>8, <2>1 DEF Number
  <1> QED
    BY <1>7, <1>8

\* The first elements of a sequence, and those without the last of them.
LEMMA FirstElements ==
    ASSUME NEW S, NEW s \in Seq(S), NEW m \in 1..Len(s)
    PROVE  /\ SubSeq(s, 1, m) # <<>> /\ Front(SubSeq(s, 1, m)) = SubSeq(s, 1, m - 1)
           /\ SubSeq(s, 1, 0) = <<>>
  <1> DEFINE n == Len(s)
             p == SubSeq(s, 1, m)
             r == SubSeq(s, 1, m - 1)
  <1>1. n \in Nat /\ m \in Nat \ {0} /\ m <= n
    BY LenProperties
  <1>2. \A i \in 1..n : s[i] \in S
    BY ElementOfSeq
  <1> HIDE DEF n
  <1>3. \A j \in 0..n : /\ SubSeq(s, 1, j) \in Seq(S) /\ Len(SubSeq(s, 1, j)) = j
                        /\ \A i \in 1..j : SubSeq(s, 1, j)[i] = s[i]
    <2> TAKE j \in 0..n
    <2>1. 1 \in Int /\ j \in Int /\ (\A i \in 1..j : s[i] \in S)
      BY <1>1, <1>2
    <2>2. /\ SubSeq(s, 1, j) \in Seq(S)
          /\ Len(SubSeq(s, 1, j)) = (IF 1 <= j THEN j - 1 + 1 ELSE 0)
          /\ \A i \in 1..(j - 1 + 1) : SubSeq(s, 1, j)[i] = s[1 + i - 1]
      BY ONLY <2>1, SubSeqProperties
    <2>3. (IF 1 <= j THEN j - 1 + 1 ELSE 0) = j /\ j - 1 + 1 = j /\ \A i \in 1..j : 1 + i - 1 = i
      BY <1>1
    <2> QED
      BY ONLY <2>2, <2>3
  <1>4. m \in 0..n /\ m - 1 \in 0..n /\ 0 \in 0..n
    BY <1>1
  <1>5. /\ p \in Seq(S) /\ Len(p) = m /\ r \in Seq(S) /\ Len(r) = m - 1
        /\ \A i \in 1..(m - 1) : p[i] = s[i] /\ r[i] = s[i]
    <2>1. \A i \in 1..(m - 1) : i \in 1..m
      BY <1>1
    <2> QED
      BY <1>3, <1>4, <2>1
  <1>6. SubSeq(s, 1, 0) = <<>>
    BY <1>3, <1>4, EmptySeq
  <1> HIDE DEF p, r
  <1>7. p # <<>>
    BY <1>1, <1>5, EmptySeq
  <1>8. Front(p) \in Seq(S) /\ Len(Front(p)) = m - 1 /\ \A i \in 1..(m - 1) : Front(p)[i] = p[i]
    BY <1>5, <1>7, FrontParts
  <1>9. Front(p) = r
    BY <1>5, <1>8, SeqEqual
  <1> QED
    BY <1>6, <1>7, <1>9 DEF p, r

\* What is known after the first k items of a walk that started with the
\* scopes sc and lp loops, in terms of the blocks and loops ended by them.
Nested(sc, lp, wk, q, k) ==
    /\ Number(wk, "stmts", k) \in 0..(Len(sc) - 1)
    /\ q[k + 1].outer = SubSeq(sc, 1, Len(sc) - 1 - Number(wk, "stmts", k))
    /\ q[k + 1].loops = lp - Number(wk, "endLoop", k)

\* One more item.
LEMMA NestedMore ==
    ASSUME NEW ds, NEW gl, NEW er, NEW sc \in Seq(Scopes), NEW lp \in Nat, NEW wk, NEW q,
           NEW k \in Nat, Len(sc) \in Nat, Nested(sc, lp, wk, q, k),
           <<wk[k + 1], q[k + 1], q[k + 2]>> \in CheckerSteps(ds, gl, er)
    PROVE  /\ Nested(sc, lp, wk, q, k + 1)
           /\ wk[k + 1].do = "stmts" =>
                  wk[k + 1].outer = SubSeq(sc, 1, Len(sc) - Number(wk, "stmts", k + 1))
           /\ q[k + 2].ended = 1 => /\ Number(wk, "stmts", k + 1) = Len(sc) - 1
                                    /\ Number(wk, "endLoop", k + 1) = lp
  <1> DEFINE x == wk[k + 1]
             a == q[k + 1]
             b == q[k + 2]
             n == Number(wk, "stmts", k)
             m == Number(wk, "endLoop", k)
             n1 == Number(wk, "stmts", k + 1)
             m1 == Number(wk, "endLoop", k + 1)
             L == Len(sc)
  <1>1. /\ x \in CheckerItems /\ a \in CheckerKnown /\ b \in CheckerKnown
        /\ CheckerNeeds(x, a, ds, gl, er) /\ AtLeast(CheckerLeaves(x, a), b)
    BY DEF CheckerSteps
  <1>2. n1 = (IF x.do = "stmts" THEN n + 1 ELSE n) /\ n \in Nat
    BY Counted
  <1>3. m1 = (IF x.do = "endLoop" THEN m + 1 ELSE m) /\ m \in Nat
    BY Counted
  <1>4. n \in 0..(L - 1) /\ a.outer = SubSeq(sc, 1, L - 1 - n) /\ a.loops = lp - m /\ L \in Nat
    BY DEF Nested
  <1>5. k + 1 + 1 = k + 2
    OBVIOUS
  <1>6. Nested(sc, lp, wk, q, k + 1) <=> /\ n1 \in 0..(L - 1)
                                         /\ b.outer = SubSeq(sc, 1, L - 1 - n1)
                                         /\ b.loops = lp - m1
    BY <1>5 DEF Nested
  <1>7. \A j \in 1..L : /\ SubSeq(sc, 1, j) # <<>> /\ Front(SubSeq(sc, 1, j)) = SubSeq(sc, 1, j - 1)
                        /\ SubSeq(sc, 1, 0) = <<>>
    BY FirstElements
  <1> HIDE DEF x, a, b, n, m, n1, m1, L
  <1>8. /\ b.outer = (IF x.do = "stmts" THEN Front(a.outer) ELSE a.outer)
        /\ b.loops = (IF x.do = "endLoop" THEN a.loops - 1 ELSE a.loops)
        /\ b.ended = (IF x.do = "endFunc" THEN 1 ELSE 0)
    BY <1>1 DEF AtLeast, CheckerLeaves
  <1>9. /\ x.do = "stmts" => x.outer = a.outer /\ a.outer # <<>>
        /\ x.do = "endFunc" => a.outer = <<>> /\ a.loops = 0
    BY <1>1 DEF CheckerNeeds
  <1>10. SubSeq(sc, 1, 0) = <<>>
    <2>1. 1 \in 1..L
      BY <1>2, <1>4
    <2> QED
      BY <1>7, <2>1
  <1>11. b.loops = lp - m1
    BY <1>3, <1>4, <1>8
  <1>12. CASE x.do = "stmts"
    <2>1. L - 1 - n # 0
      BY <1>4, <1>9, <1>10, <1>12
    <2>2. L - 1 - n \in 1..L /\ n1 \in 0..(L - 1) /\ L - 1 - n - 1 = L - 1 - n1 /\ L - 1 - n = L - n1
      BY <1>2, <1>4, <1>12, <2>1
    <2>3. b.outer = SubSeq(sc, 1, L - 1 - n - 1)
      BY <1>4, <1>7, <1>8, <1>12, <2>2
    <2>4. x.outer = SubSeq(sc, 1, L - n1)
      BY <1>4, <1>9, <1>12, <2>2
    <2>5. b.ended = 0
      BY <1>8, <1>12
    <2>6. Nested(sc, lp, wk, q, k + 1)
      BY <1>6, <1>11, <2>2, <2>3
    <2> QED
      BY <2>4, <2>5, <2>6 DEF x, b, L, n1
  <1>13. CASE x.do # "stmts"
    <2>1. n1 = n /\ b.outer = a.outer
      BY <1>2, <1>8, <1>13
    <2>2. Nested(sc, lp, wk, q, k + 1)
      BY <1>4, <1>6, <1>11, <2>1
    <2>3. ASSUME b.ended = 1 PROVE n1 = L - 1 /\ m1 = lp
      <3>1. x.do = "endFunc"
        BY <1>8, <2>3
      <3>2. a.outer = <<>> /\ lp - m = 0 /\ m1 = m
        BY <1>3, <1>4, <1>9, <3>1
      <3>3. L - 1 - n \notin 1..L
        BY <1>4, <1>7, <3>2
      <3> QED
        BY <1>3, <1>4, <2>1, <3>2, <3>3
    <2> QED
      BY <1>13, <2>2, <2>3 DEF x, b, L, n1, m1
  <1> QED
    BY <1>12, <1>13

\* While a body is walked through the scopes are those of its blocks, and the
\* loops counted those it is in.
LEMMA WalkNests ==
    ASSUME NEW ds, NEW ps, NEW nx, NEW gl, NEW sc, NEW lp, NEW wk, NEW gt, NEW er,
           WalkOK(ds, ps, nx, gl, sc, lp, wk, gt, er), wk # <<>>
    PROVE  /\ wk \in Seq(CheckerItems)
           /\ Len(sc) = Number(wk, "stmts", Len(wk)) + 1
           /\ \A i \in 1..Len(wk) : wk[i].do = "stmts" =>
                  wk[i].outer = SubSeq(sc, 1, Len(sc) - Number(wk, "stmts", i))
           /\ lp = Number(wk, "endLoop", Len(wk))
  <1>1. sc \in Seq(Scopes) /\ sc # <<>> /\ lp \in Nat /\ gt \in TypesNil /\ er \in BOOLEAN
    BY DEF WalkOK
  <1>2. PICK c : CheckerLeads(ds, gl, er, wk, Here(sc, lp, gt, er), c) /\ c.ended = 1
    BY DEF WalkOK
  <1>3. wk \in Seq(CheckerItems) /\ Len(wk) \in Nat \ {0}
    BY <1>2, LenProperties, EmptySeq DEF CheckerLeads, Leads
  <1>4. PICK q : /\ q[1] = Here(sc, lp, gt, er) /\ q[Len(wk) + 1] = c
                 /\ \A i \in 1..Len(wk) : <<wk[i], q[i], q[i + 1]>> \in CheckerSteps(ds, gl, er)
    BY <1>2 DEF CheckerLeads, Leads
  <1>5. /\ Front(sc) \in Seq(Scopes) /\ Front(sc) = SubSeq(sc, 1, Len(sc) - 1)
        /\ Len(sc) \in Nat \ {0}
    BY <1>1, FrontParts DEF Front
  <1>6. q[1].outer = Front(sc) /\ q[1].loops = lp
    <2> DEFINE g == Got(gt, er)
               o == Front(sc)
    <2>1. g \in 0..1 /\ o \in Seq(Scopes) /\ lp \in Nat
      BY <1>1, <1>5, GotParts
    <2>2. q[1] = K(g, o, lp)
      BY <1>4 DEF Here
    <2> HIDE DEF g, o
    <2>3. K(g, o, lp).outer = o /\ K(g, o, lp).loops = lp
      BY ONLY <2>1, KnownParts
    <2> QED
      BY ONLY <2>2, <2>3 DEF o
  <1> DEFINE W(k) == Nested(sc, lp, wk, q, k)
             S == {k \in Nat : k <= Len(wk) => W(k)}
  <1>7. W(0)
    <2>1. Number(wk, "stmts", 0) = 0 /\ Number(wk, "endLoop", 0) = 0
      BY Counted
    <2>2. Len(sc) - 1 - 0 = Len(sc) - 1 /\ lp - 0 = lp /\ 0 + 1 = 1 /\ 0 \in 0..(Len(sc) - 1)
      BY <1>1, <1>5
    <2> QED
      BY <1>5, <1>6, <2>1, <2>2 DEF Nested
  <1>8. ASSUME NEW k \in Nat, k + 1 <= Len(wk), W(k)
        PROVE  /\ W(k + 1)
               /\ wk[k + 1].do = "stmts" =>
                      wk[k + 1].outer = SubSeq(sc, 1, Len(sc) - Number(wk, "stmts", k + 1))
               /\ q[k + 2].ended = 1 => /\ Number(wk, "stmts", k + 1) = Len(sc) - 1
                                        /\ Number(wk, "endLoop", k + 1) = lp
    <2>1. k + 1 \in 1..Len(wk) /\ k + 1 + 1 = k + 2
      BY <1>3, <1>8
    <2>2. <<wk[k + 1], q[k + 1], q[k + 2]>> \in CheckerSteps(ds, gl, er)
      BY <1>4, <2>1
    <2> QED
      BY <1>1, <1>5, <1>8, <2>2, NestedMore
  <1>9. \A k \in Nat : k <= Len(wk) => W(k)
    <2>1. 0 \in S
      BY <1>7
    <2>2. \A k \in Nat : k \in S => k + 1 \in S
      <3> SUFFICES ASSUME NEW k \in Nat, k \in S, k + 1 <= Len(wk) PROVE W(k + 1)
        OBVIOUS
      <3>1. k <= Len(wk)
        BY <1>3
      <3> HIDE DEF W
      <3>2. W(k)
        BY <3>1
      <3> QED
        BY <1>8, <3>2
    <2> HIDE DEF S
    <2>3. Nat \subseteq S
      BY <2>1, <2>2, Induction
    <2> QED
      BY <2>3 DEF S
  <1> HIDE DEF W
  <1>10. ASSUME NEW i \in 1..Len(wk)
         PROVE  /\ wk[i].do = "stmts" =>
                      wk[i].outer = SubSeq(sc, 1, Len(sc) - Number(wk, "stmts", i))
                /\ q[i + 1].ended = 1 => /\ Number(wk, "stmts", i) = Len(sc) - 1
                                         /\ Number(wk, "endLoop", i) = lp
    <2> DEFINE k == i - 1
    <2>1. k \in Nat /\ k + 1 <= Len(wk) /\ k <= Len(wk) /\ k + 1 = i /\ k + 2 = i + 1
      BY <1>3
    <2> HIDE DEF k
    <2>2. W(k)
      BY <1>9, <2>1
    <2> QED
      BY <1>8, <2>1, <2>2
  <1>11. Number(wk, "stmts", Len(wk)) = Len(sc) - 1 /\ Number(wk, "endLoop", Len(wk)) = lp
    <2>1. Len(wk) \in 1..Len(wk)
      BY <1>3
    <2> QED
      BY <1>2, <1>4, <1>10, <2>1
  <1> QED
    BY <1>3, <1>5, <1>10, <1>11

\* However deeply blocks and loops are nested, and whatever errors were
\* reported on the way, the scopes are those of the blocks the walk is in, a
\* block restores the ones around it, and the loops counted are those it is in
\* (checkBlock, checkStmt and the loop depth of sema.go).
THEOREM ScopesAreNested == Spec => []ScopesNest
  <1>1. CheckerInv(stage, decls, pass, next, global, scopes, loops, walk, got, errs) => ScopesNest
    <2> SUFFICES ASSUME CheckerInv(stage, decls, pass, next, global, scopes, loops, walk, got, errs)
                 PROVE  /\ walk # <<>> => Len(scopes) = Number(walk, "stmts", Len(walk)) + 1
                        /\ \A i \in DOMAIN walk : walk[i].do = "stmts" =>
                               walk[i].outer = SubSeq(scopes, 1, Len(scopes) - Number(walk, "stmts", i))
                        /\ loops = Cardinality({i \in DOMAIN walk : walk[i].do = "endLoop"})
      BY DEF ScopesNest, Number
    <2>1. CASE walk = <<>>
      <3>1. loops = 0
        BY <2>1 DEF CheckerInv, CheckOK, WalkOK
      <3>2. DOMAIN walk = {} /\ {i \in DOMAIN walk : walk[i].do = "endLoop"} = {}
        BY <2>1
      <3> QED
        BY <2>1, <3>1, <3>2, FS_EmptySet
    <2>2. CASE walk # <<>>
      <3>1. WalkOK(decls, pass, next, global, scopes, loops, walk, got, errs)
        BY <2>2 DEF CheckerInv, CheckOK
      <3>2. /\ walk \in Seq(CheckerItems)
            /\ Len(scopes) = Number(walk, "stmts", Len(walk)) + 1
            /\ \A i \in 1..Len(walk) : walk[i].do = "stmts" =>
                   walk[i].outer = SubSeq(scopes, 1, Len(scopes) - Number(walk, "stmts", i))
            /\ loops = Number(walk, "endLoop", Len(walk))
        BY <2>2, <3>1, WalkNests
      <3>3. DOMAIN walk = 1..Len(walk)
        BY <3>2, LenProperties
      <3> QED
        BY <3>2, <3>3 DEF Number
    <2> QED
      BY <2>1, <2>2
  <1> QED
    BY <1>1, CheckerInvariant, PTL

-----------------------------------------------------------------------------
(* Types and literals. *)

\* A type that exists, or the lack of one.
ExistsIn(t, ds, gl) == t = NoType \/ TypeIn(t, ds, gl)

\* What is known of any item that is still to be worked off: a type it passes
\* on exists, a place a value goes to has one unless there was an error, and an
\* untyped literal comes second.
ItemFine(x, ds, gl, er) ==
    /\ x.do \in {"called", "index", "declare"} => ExistsIn(x.type, ds, gl)
    /\ x.do = "use" => Fine(x.type, er)
    /\ x.do = "second" /\ x.first = "lit" => x.form = "lit"
Adopts(x) == x.do = "pair" /\ x.adopts
ItemTame(x, ds, gl, er) == ItemFine(x, ds, gl, er) /\ ~Adopts(x)

\* A literal that is to adopt the type of the first operand is being checked,
\* with that type wanted, under nothing but signs; and returns it if both are
\* integers.
IsLit(x) == x.do = "expr" /\ x.form \in UntypedLits
PairAdopts(wk, gt, i) ==
    Adopts(wk[i]) =>
        /\ \A j \in 1..(i - 1) :
              wk[j].do = "neg" \/ (j = 1 /\ IsLit(wk[1]) /\ wk[1].want = wk[i].type)
        /\ wk[1].do # "expr" /\ IsInteger(wk[i].type) /\ IsInteger(gt) => gt = wk[i].type

ItemsFine(wk, gt, ds, gl, er) ==
    \A i \in 1..Len(wk) : ItemFine(wk[i], ds, gl, er) /\ PairAdopts(wk, gt, i)
ItemsTame(wk, ds, gl, er) ==
    wk \in Seq(CheckerItems) /\ \A i \in 1..Len(wk) : ItemTame(wk[i], ds, gl, er)
ScopesExist(sc, ds, gl) == \A i \in 1..Len(sc) : \A n \in DOMAIN sc[i] : ExistsIn(sc[i][n], ds, gl)

\* What is known beside CheckOK.
AnnotatedOK(ds, ps, nx, gl, sc, wk, gt, er) ==
    /\ ds \in Files
    /\ ExistsIn(gt, ds, gl) /\ ScopesExist(sc, ds, gl)
    /\ ItemsFine(wk, gt, ds, gl, er)
    /\ ps = "done" => nx = 1
    /\ ps = "declare" => gt = NoType
    /\ \A name \in DOMAIN gl : ds[gl[name]].name = name

\* The elements of a concatenation.
LEMMA ConcatElements ==
    ASSUME NEW S, NEW s \in Seq(S), NEW T, NEW t \in Seq(T)
    PROVE  /\ Len(s) \in Nat /\ Len(t) \in Nat /\ Len(s \o t) = Len(s) + Len(t)
           /\ \A i \in 1..Len(s) : (s \o t)[i] = s[i]
           /\ \A i \in 1..Len(t) : (s \o t)[Len(s) + i] = t[i]
  <1>1. s \in Seq(S \cup T) /\ t \in Seq(S \cup T)
    OBVIOUS
  <1>2. Len(s) \in Nat /\ Len(t) \in Nat
    BY LenProperties
  <1> DEFINE u == s \o t
  <1>3. /\ Len(u) = Len(s) + Len(t)
        /\ \A i \in 1..(Len(s) + Len(t)) : u[i] = IF i <= Len(s) THEN s[i] ELSE t[i - Len(s)]
    BY <1>1, ConcatProperties
  <1> HIDE DEF u
  <1>4. ASSUME NEW i \in 1..Len(s) PROVE u[i] = s[i]
    <2>1. i \in 1..(Len(s) + Len(t)) /\ i <= Len(s)
      BY <1>2
    <2> QED
      BY <1>3, <2>1
  <1>5. ASSUME NEW i \in 1..Len(t) PROVE u[Len(s) + i] = t[i]
    <2>1. Len(s) + i \in 1..(Len(s) + Len(t)) /\ ~(Len(s) + i <= Len(s)) /\ Len(s) + i - Len(s) = i
      BY <1>2
    <2> QED
      BY <1>3, <2>1
  <1> QED
    BY <1>2, <1>3, <1>4, <1>5 DEF u

\* Where what is to be done next is neither a sign nor such a literal, no pair
\* further on waits for one.
LEMMA NoneDeeper ==
    ASSUME NEW ds, NEW gl, NEW er, NEW gt, NEW wk \in Seq(CheckerItems), wk # <<>>,
           ItemsFine(wk, gt, ds, gl, er), Head(wk).do # "neg", ~IsLit(Head(wk))
    PROVE  ItemsTame(Tail(wk), ds, gl, er)
  <1> DEFINE t == Tail(wk)
  <1>1. /\ t \in Seq(CheckerItems) /\ Head(wk) = wk[1] /\ Len(wk) \in Nat \ {0}
        /\ Len(t) = Len(wk) - 1 /\ \A i \in 1..(Len(wk) - 1) : t[i] = wk[i + 1]
    BY HeadTail
  <1> HIDE DEF t
  <1>2. ASSUME NEW i \in 1..Len(t) PROVE ItemTame(t[i], ds, gl, er)
    <2>1. /\ t[i] = wk[i + 1] /\ i + 1 \in 1..Len(wk) /\ 1 \in 1..(i + 1 - 1)
      BY <1>1
    <2>2. ItemFine(wk[i + 1], ds, gl, er) /\ PairAdopts(wk, gt, i + 1)
      BY <2>1 DEF ItemsFine
    <2>3. ~Adopts(wk[i + 1])
      <3>1. wk[1].do # "neg" /\ ~IsLit(wk[1])
        BY <1>1
      <3> QED
        BY <2>1, <2>2, <3>1 DEF PairAdopts
    <2> QED
      BY <2>1, <2>2, <2>3 DEF ItemTame
  <1> QED
    BY <1>1, <1>2 DEF ItemsTame, t

\* Other items come before those, or none.
LEMMA TameWalk ==
    ASSUME NEW ds, NEW gl, NEW er, NEW er2, er => er2, NEW gt, NEW S, NEW s \in Seq(S),
           \A x \in S : ItemTame(x, ds, gl, er2), NEW t, ItemsTame(t, ds, gl, er)
    PROVE  ItemsFine(s \o t, gt, ds, gl, er2)
  <1> DEFINE u == s \o t
  <1>1. /\ Len(s) \in Nat /\ Len(t) \in Nat /\ Len(u) = Len(s) + Len(t)
        /\ \A i \in 1..Len(s) : u[i] = s[i]
        /\ \A i \in 1..Len(t) : u[Len(s) + i] = t[i]
    BY ConcatElements DEF ItemsTame
  <1> HIDE DEF u
  <1>2. \A i \in 1..Len(s) : ItemTame(s[i], ds, gl, er2)
    BY ElementOfSeq
  <1>3. \A i \in 1..Len(t) : ItemTame(t[i], ds, gl, er2)
    BY DEF ItemsTame, ItemTame, ItemFine, Fine
  <1>4. ASSUME NEW i \in 1..Len(u) PROVE ItemTame(u[i], ds, gl, er2)
    <2>1. CASE i \in 1..Len(s)
      BY <1>1, <1>2, <2>1
    <2>2. CASE i \notin 1..Len(s)
      <3>1. i - Len(s) \in 1..Len(t) /\ Len(s) + (i - Len(s)) = i
        BY <1>1, <2>2
      <3> QED
        BY <1>1, <1>3, <3>1
    <2> QED
      BY <2>1, <2>2
  <1> QED
    BY <1>4 DEF ItemsFine, ItemTame, PairAdopts, u

\* Items about no type are of no concern.
LEMMA OtherItems ==
    ASSUME NEW x, x.do \notin {"called", "index", "declare", "use", "second", "pair"}
    PROVE  \A ds, gl, er : ItemTame(x, ds, gl, er)
  BY DEF ItemTame, ItemFine, Adopts

\* The rest of what the checker is given to do.
LEMMA TameItems ==
    ASSUME NEW ds, NEW gl, NEW er
    PROVE  /\ \A want, form : ItemTame(ExprOf(want, form), ds, gl, er)
           /\ \A want : ItemTame(Wanting(want), ds, gl, er)
           /\ \A name \in PlainItems : ItemTame(Item(name), ds, gl, er)
           /\ \A bad : ItemTame(Verdict(bad), ds, gl, er)
           /\ \A t : ItemTame(Typed("cast", t), ds, gl, er)
           /\ \A t : Fine(t, er) => ItemTame(Typed("use", t), ds, gl, er)
           /\ \A t : ExistsIn(t, ds, gl) => ItemTame(Typed("index", t), ds, gl, er)
           /\ \A name, t : ExistsIn(t, ds, gl) =>
                 ItemTame([do |-> "declare", name |-> name, type |-> t], ds, gl, er)
           /\ \A outer : ItemTame([do |-> "stmts", outer |-> outer], ds, gl, er)
           /\ \A op, x, y : (x = "lit" => y = "lit") => ItemTame(SecondItem(op, x, y), ds, gl, er)
           /\ \A t, v : ExistsIn(t, ds, gl) =>
                 ItemTame([do |-> "called", type |-> t, value |-> v], ds, gl, er)
           /\ \A name : ItemTame([do |-> "field", name |-> name], ds, gl, er)
           /\ \A t, given : ItemTame([do |-> "inits", type |-> t, given |-> given], ds, gl, er)
  <1> USE DEF ItemTame, ItemFine, Adopts
  <1>1. \A want, form : ItemTame(ExprOf(want, form), ds, gl, er)
    BY DEF ExprOf
  <1>2. \A want : ItemTame(Wanting(want), ds, gl, er)
    BY DEF Wanting
  <1>3. \A name \in PlainItems : ItemTame(Item(name), ds, gl, er)
    BY DEF Item, PlainItems
  <1>4. \A bad : ItemTame(Verdict(bad), ds, gl, er)
    BY DEF Verdict
  <1>5. /\ \A t : ItemTame(Typed("cast", t), ds, gl, er)
        /\ \A t : Fine(t, er) => ItemTame(Typed("use", t), ds, gl, er)
        /\ \A t : ExistsIn(t, ds, gl) => ItemTame(Typed("index", t), ds, gl, er)
    BY DEF Typed
  <1>6. \A name, t : ExistsIn(t, ds, gl) =>
            ItemTame([do |-> "declare", name |-> name, type |-> t], ds, gl, er)
    OBVIOUS
  <1>7. \A outer : ItemTame([do |-> "stmts", outer |-> outer], ds, gl, er)
    OBVIOUS
  <1>8. \A op, x, y : (x = "lit" => y = "lit") => ItemTame(SecondItem(op, x, y), ds, gl, er)
    BY DEF SecondItem
  <1>9. \A t, v : ExistsIn(t, ds, gl) =>
            ItemTame([do |-> "called", type |-> t, value |-> v], ds, gl, er)
    OBVIOUS
  <1>10. \A name : ItemTame([do |-> "field", name |-> name], ds, gl, er)
    OBVIOUS
  <1>11. \A t, given : ItemTame([do |-> "inits", type |-> t, given |-> given], ds, gl, er)
    OBVIOUS
  <1> QED
    BY <1>1, <1>2, <1>3, <1>4, <1>5, <1>6, <1>7, <1>8, <1>9, <1>10, <1>11

\* Short sequences.
LEMMA ShortSequences ==
    \A a, b, c, d :
        /\ <<>> \in Seq({a}) /\ <<a>> \in Seq({a}) /\ <<a, b>> \in Seq({a, b})
        /\ <<a, b, c>> \in Seq({a, b, c}) /\ <<a, b, c, d>> \in Seq({a, b, c, d})
        /\ <<a, b, a, b, c>> \in Seq({a, b, c})
  OBVIOUS

\* The literal is another in its parentheses or under its sign.
LEMMA LitGoesOn ==
    ASSUME NEW ds, NEW gl, NEW er, NEW gt, NEW wk \in Seq(CheckerItems), wk # <<>>,
           ItemsFine(wk, gt, ds, gl, er), IsLit(Head(wk)),
           NEW x, IsLit(x), x.want = Head(wk).want, NEW y, y.do = "neg",
           NEW s \in {<<x>>, <<x, y>>}
    PROVE  ItemsFine(s \o Tail(wk), gt, ds, gl, er)
  <1> DEFINE t == Tail(wk)
             u == s \o t
  <1>1. /\ t \in Seq(CheckerItems) /\ Head(wk) = wk[1] /\ Len(wk) \in Nat \ {0}
        /\ Len(t) = Len(wk) - 1 /\ \A i \in 1..(Len(wk) - 1) : t[i] = wk[i + 1]
    BY HeadTail
  <1>2. s \in Seq({x, y}) /\ (Len(s) = 1 \/ Len(s) = 2) /\ s[1] = x /\ (Len(s) = 2 => s[2] = y)
    <2>1. CASE s = <<x>>
      BY <2>1, ShortSequences
    <2>2. CASE s = <<x, y>>
      BY <2>2, ShortSequences
    <2> QED
      BY <2>1, <2>2
  <1>3. /\ Len(t) \in Nat /\ Len(u) = Len(s) + Len(t)
        /\ \A i \in 1..Len(s) : u[i] = s[i]
        /\ \A i \in 1..Len(t) : u[Len(s) + i] = t[i]
    BY <1>1, <1>2, ConcatElements
  <1> HIDE DEF t, u
  <1>8. /\ 1 \in 1..Len(s) /\ (Len(s) = 2 => 2 \in 1..Len(s))
        /\ \A i \in 1..Len(s) : i = 1 \/ (i = 2 /\ Len(s) = 2)
    <2>1. \A n : n = 1 \/ n = 2 => /\ 1 \in 1..n /\ (n = 2 => 2 \in 1..n)
                                   /\ \A i \in 1..n : i = 1 \/ (i = 2 /\ n = 2)
      OBVIOUS
    <2>2. Len(s) = 1 \/ Len(s) = 2
      BY <1>2
    <2> QED
      BY ONLY <2>1, <2>2
  <1>4. u[1] = x /\ (Len(s) = 2 => u[2] = y)
    BY ONLY <1>2, <1>3, <1>8
  <1>5. ItemTame(x, ds, gl, er) /\ ItemTame(y, ds, gl, er)
    BY OtherItems DEF IsLit
  <1>6. ASSUME NEW i \in 1..Len(u) PROVE ItemFine(u[i], ds, gl, er) /\ PairAdopts(u, gt, i)
    <2>1. CASE i \in 1..Len(s)
      <3>1. u[i] = x \/ u[i] = y
        BY ONLY <1>4, <1>8, <2>1
      <3> QED
        BY <1>5, <3>1 DEF ItemTame, PairAdopts
    <2>2. CASE i \notin 1..Len(s)
      <3> DEFINE k == i - Len(s)
      <3>1. k \in 1..Len(t) /\ Len(s) + k = i /\ k + 1 \in 1..Len(wk) /\ k \in 1..(Len(wk) - 1)
            /\ 1 \in 1..(k + 1 - 1)
        <4>1. \A a, b \in Nat : \A m \in 1..(a + b) : m \notin 1..a =>
                 /\ m - a \in 1..b /\ a + (m - a) = m /\ m - a + 1 \in 1..(b + 1)
                 /\ 1 \in 1..(m - a + 1 - 1)
          OBVIOUS
        <4>2. Len(s) \in Nat /\ Len(t) \in Nat /\ i \in 1..(Len(s) + Len(t))
          BY <1>2, <1>3
        <4>3. k \in 1..Len(t) /\ Len(s) + k = i /\ k + 1 \in 1..(Len(t) + 1) /\ 1 \in 1..(k + 1 - 1)
          BY ONLY <2>2, <4>1, <4>2
        <4>4. Len(t) + 1 = Len(wk) /\ Len(t) = Len(wk) - 1
          BY <1>1
        <4> QED
          BY ONLY <4>3, <4>4
      <3>2. u[i] = wk[k + 1]
        BY <1>1, <1>3, <3>1
      <3>3. ItemFine(wk[k + 1], ds, gl, er) /\ PairAdopts(wk, gt, k + 1)
        BY <3>1 DEF ItemsFine
      <3>4. ASSUME Adopts(u[i])
            PROVE  \A j \in 1..(i - 1) :
                      u[j].do = "neg" \/ (j = 1 /\ IsLit(u[1]) /\ u[1].want = u[i].type)
        <4> TAKE j \in 1..(i - 1)
        <4>1. \A m \in 1..(k + 1 - 1) :
                 wk[m].do = "neg" \/ (m = 1 /\ IsLit(wk[1]) /\ wk[1].want = wk[k + 1].type)
          BY <3>2, <3>3, <3>4 DEF PairAdopts
        <4>2. wk[1].want = u[i].type
          BY <1>1, <3>1, <3>2, <4>1 DEF IsLit
        <4>3. CASE j = 1
          BY <1>1, <1>4, <4>2, <4>3
        <4>4. CASE j # 1 /\ j \in 1..Len(s)
          BY ONLY <1>4, <1>8, <4>4, y.do = "neg"
        <4>5. CASE j # 1 /\ j \notin 1..Len(s)
          <5> DEFINE m == j - Len(s)
          <5>1. m \in 1..Len(t) /\ Len(s) + m = j /\ m + 1 \in 1..(k + 1 - 1) /\ m + 1 # 1
                /\ m \in 1..(Len(wk) - 1)
            BY <1>1, <1>2, <1>3, <3>1, <4>5
          <5>2. u[j] = wk[m + 1]
            BY <1>1, <1>3, <5>1
          <5> QED
            BY <4>1, <5>1, <5>2
        <4> QED
          BY <4>3, <4>4, <4>5
      <3>5. u[1].do = "expr"
        BY <1>4 DEF IsLit
      <3> QED
        BY <3>2, <3>3, <3>4, <3>5 DEF PairAdopts
    <2> QED
      BY <2>1, <2>2
  <1> QED
    BY <1>6 DEF ItemsFine, u, t

\* The literal returns the type that is wanted if it can, and a sign passes it
\* on: no pair waits for more.
LEMMA LitReturns ==
    ASSUME NEW ds, NEW gl, NEW er, NEW er2, er => er2, NEW gt, NEW wk \in Seq(CheckerItems), wk # <<>>,
           ItemsFine(wk, gt, ds, gl, er), NEW new,
           \/ IsLit(Head(wk)) /\ new = LitType(Head(wk).want)
           \/ Head(wk).do = "neg" /\ new = IF IsInteger(gt) THEN gt ELSE NoType
    PROVE  ItemsFine(Tail(wk), new, ds, gl, er2)
  <1> DEFINE t == Tail(wk)
  <1>1. /\ t \in Seq(CheckerItems) /\ Head(wk) = wk[1] /\ Len(wk) \in Nat \ {0}
        /\ Len(t) = Len(wk) - 1 /\ \A i \in 1..(Len(wk) - 1) : t[i] = wk[i + 1]
    BY HeadTail
  <1> HIDE DEF t
  <1>2. ~IsInteger(NoType)
    BY FilesOK, TypesAreTypes DEF IsInteger
  <1>3. ASSUME NEW i \in 1..Len(t) PROVE ItemFine(t[i], ds, gl, er2) /\ PairAdopts(t, new, i)
    <2>1. t[i] = wk[i + 1] /\ i + 1 \in 1..Len(wk) /\ 1 \in 1..(i + 1 - 1)
      BY <1>1
    <2>2. ItemFine(wk[i + 1], ds, gl, er) /\ PairAdopts(wk, gt, i + 1)
      BY <2>1 DEF ItemsFine
    <2>3. ItemFine(t[i], ds, gl, er2)
      BY <2>1, <2>2 DEF ItemFine, Fine
    <2>4. ASSUME Adopts(t[i])
          PROVE  /\ \A j \in 1..(i - 1) : t[j].do = "neg"
                 /\ IsInteger(t[i].type) /\ IsInteger(new) => new = t[i].type
      <3>1. \A m \in 1..(i + 1 - 1) :
               wk[m].do = "neg" \/ (m = 1 /\ IsLit(wk[1]) /\ wk[1].want = wk[i + 1].type)
        BY <2>1, <2>2, <2>4 DEF PairAdopts
      <3>2. ASSUME NEW j \in 1..(i - 1) PROVE t[j].do = "neg"
        <4>1. j + 1 \in 1..(i + 1 - 1) /\ j + 1 # 1 /\ j \in 1..(Len(wk) - 1)
          BY <1>1
        <4> QED
          BY <1>1, <3>1, <4>1
      <3>3. CASE IsLit(Head(wk)) /\ new = LitType(Head(wk).want)
        <4>1. Head(wk).want = t[i].type
          BY <1>1, <2>1, <3>1, <3>3 DEF IsLit
        <4> QED
          BY <3>2, <3>3, <4>1 DEF LitType
      <3>4. CASE Head(wk).do = "neg" /\ new = IF IsInteger(gt) THEN gt ELSE NoType
        <4>1. IsInteger(t[i].type) /\ IsInteger(gt) => gt = t[i].type
          BY <1>1, <2>1, <2>2, <2>4, <3>4 DEF PairAdopts
        <4> QED
          BY <1>2, <3>2, <3>4, <4>1
      <3> QED
        BY <3>3, <3>4
    <2> QED
      BY <2>3, <2>4 DEF PairAdopts
  <1> QED
    BY <1>3 DEF ItemsFine, t

\* The second operand is a literal that adopts the type of the first, or not.
LEMMA SecondBegins ==
    ASSUME NEW ds, NEW gl, NEW er, NEW gt, NEW t, ItemsTame(t, ds, gl, er),
           NEW op, NEW type, NEW adopts, NEW form, adopts => form = "lit"
    PROVE  ItemsFine(<<ExprOf(type, form), PairItem(op, type, adopts)>> \o t, gt, ds, gl, er)
  <1> DEFINE x == ExprOf(type, form)
             y == PairItem(op, type, adopts)
             s == <<x, y>>
             u == s \o t
  <1>1. x.do = "expr" /\ x.want = type /\ x.form = form
    BY DEF ExprOf
  <1>2. y.do = "pair" /\ y.type = type /\ y.adopts = adopts
    BY DEF PairItem
  <1> HIDE DEF x, y
  <1>3. s \in Seq({x, y}) /\ Len(s) = 2 /\ s[1] = x /\ s[2] = y
    OBVIOUS
  <1> HIDE DEF s
  <1>7. t \in Seq(CheckerItems)
    BY DEF ItemsTame
  <1>8. s \in Seq({x, y})
    BY <1>3
  <1>4. /\ Len(t) \in Nat /\ Len(u) = Len(s) + Len(t)
        /\ \A i \in 1..Len(s) : u[i] = s[i]
        /\ \A i \in 1..Len(t) : u[Len(s) + i] = t[i]
    BY ONLY <1>7, <1>8, ConcatElements
  <1> HIDE DEF u
  <1>5. u[1] = x /\ u[2] = y /\ Len(u) = 2 + Len(t) /\ \A i \in 1..Len(t) : u[2 + i] = t[i]
    BY <1>3, <1>4
  <1>6. ASSUME NEW i \in 1..Len(u) PROVE ItemFine(u[i], ds, gl, er) /\ PairAdopts(u, gt, i)
    <2>1. CASE i = 1
      BY <1>1, <1>5, <2>1 DEF ItemFine, PairAdopts, Adopts
    <2>2. CASE i = 2
      <3>1. ItemFine(y, ds, gl, er)
        BY <1>2 DEF ItemFine
      <3>2. adopts => IsLit(x)
        BY <1>1 DEF IsLit, UntypedLits
      <3>3. \A j \in 1..(2 - 1) : j = 1
        OBVIOUS
      <3> QED
        BY <1>1, <1>2, <1>5, <2>2, <3>1, <3>2, <3>3 DEF PairAdopts, Adopts
    <2>3. CASE i # 1 /\ i # 2
      <3>1. i - 2 \in 1..Len(t) /\ 2 + (i - 2) = i
        BY <1>4, <1>5, <2>3
      <3>2. ItemTame(u[i], ds, gl, er)
        BY <1>5, <3>1 DEF ItemsTame
      <3> QED
        BY <3>2 DEF ItemTame, PairAdopts
    <2> QED
      BY <2>1, <2>2, <2>3
  <1> QED
    BY <1>6 DEF ItemsFine, u, s, x, y

\* It holds of the checker's state, now and next.
Annotated == AnnotatedOK(decls, pass, next, global, scopes, walk, got, errs)
Annotated2 == AnnotatedOK(decls', pass', next', global', scopes', walk', got', errs')

\* What is known in the middle of a walk.
LEMMA AnnotatedParts ==
    ASSUME Checking, Annotated, walk # <<>>
    PROVE  /\ Sound /\ pass = "bodies" /\ walk \in Seq(CheckerItems) /\ errs \in BOOLEAN
           /\ got \in TypesNil /\ scopes \in Seq(Scopes) /\ scopes # <<>>
           /\ decls \in Files /\ decls \in Seq(Declarations)
           /\ Indexed(decls, global, Len(decls)) /\ Exist(decls, global, Len(decls))
           /\ Top \in CheckerItems /\ ItemFine(Top, decls, global, errs)
           /\ ExistsIn(got, decls, global) /\ ScopesExist(scopes, decls, global)
           /\ ItemsFine(walk, got, decls, global, errs)
  <1>1. /\ BodyOK(decls, next, walk)
        /\ WalkOK(decls, pass, next, global, scopes, loops, walk, got, errs)
    BY DEF Checking, CheckOK
  <1>2. /\ pass = "bodies" /\ errs \in BOOLEAN /\ got \in TypesNil /\ scopes \in Seq(Scopes)
        /\ scopes # <<>>
    BY <1>1 DEF WalkOK
  <1>3. /\ decls \in Seq(Declarations) /\ next \in 1..Len(decls)
        /\ Indexed(decls, global, Len(decls)) /\ Exist(decls, global, Len(decls))
    BY <1>2, BodiesParts
  <1>4. Sound
    BY <1>1, <1>3 DEF Sound
  <1>5. walk \in Seq(CheckerItems)
    BY <1>1, WalkNests
  <1>6. /\ decls \in Files /\ ExistsIn(got, decls, global) /\ ScopesExist(scopes, decls, global)
        /\ ItemsFine(walk, got, decls, global, errs)
    BY DEF Annotated, AnnotatedOK
  <1>7. Top = walk[1] /\ Top \in CheckerItems /\ 1 \in 1..Len(walk)
    BY <1>5, HeadTail DEF Top
  <1>8. ItemFine(Top, decls, global, errs)
    BY <1>6, <1>7 DEF ItemsFine
  <1> QED
    BY <1>2, <1>3, <1>4, <1>5, <1>6, <1>7, <1>8

\* A step of the walk.
LEMMA AnnotatedStep ==
    ASSUME Checking, Annotated, walk # <<>>, UNCHANGED <<decls, pass, next, global>>,
           ExistsIn(got', decls, global), ScopesExist(scopes', decls, global),
           ItemsFine(walk', got', decls, global, errs')
    PROVE  Annotated2
  <1>1. pass' = "bodies"
    BY AnnotatedParts
  <1>2. decls \in Files /\ \A name \in DOMAIN global : decls[global[name]].name = name
    BY DEF Annotated, AnnotatedOK
  <1>3. AnnotatedOK(decls, "bodies", next, global, scopes', walk', got', errs')
    BY <1>2 DEF AnnotatedOK
  <1> QED
    BY <1>1, <1>3 DEF Annotated2

\* What is on top is neither a sign nor a literal that is to adopt a type.
Plain == walk # <<>> /\ Top.do # "neg" /\ ~IsLit(Top)

\* No pair further on waits for a literal.
LEMMA PlainRest ==
    ASSUME Checking, Annotated, Plain
    PROVE  /\ ItemsTame(Tail(walk), decls, global, errs)
           /\ Top.do # "pair" => ItemsTame(walk, decls, global, errs)
  <1>1. /\ walk \in Seq(CheckerItems) /\ ItemFine(Top, decls, global, errs) /\ Top = Head(walk)
        /\ ItemsFine(walk, got, decls, global, errs) /\ Head(walk).do # "neg" /\ ~IsLit(Head(walk))
    BY AnnotatedParts DEF Plain, Top
  <1>2. ItemsTame(Tail(walk), decls, global, errs)
    BY <1>1, NoneDeeper DEF Plain
  <1>3. ASSUME Top.do # "pair" PROVE ItemsTame(walk, decls, global, errs)
    <2>1. ItemTame(Head(walk), decls, global, errs)
      BY <1>1, <1>3 DEF ItemTame, Adopts
    <2>2. /\ Head(walk) = walk[1] /\ Len(walk) \in Nat \ {0} /\ Len(Tail(walk)) = Len(walk) - 1
          /\ \A i \in 1..(Len(walk) - 1) : Tail(walk)[i] = walk[i + 1]
      BY <1>1, HeadTail DEF Plain
    <2>3. ASSUME NEW i \in 1..Len(walk) PROVE ItemTame(walk[i], decls, global, errs)
      <3>1. CASE i = 1
        BY <2>1, <2>2, <3>1
      <3>2. CASE i # 1
        <4>1. i - 1 \in 1..Len(Tail(walk)) /\ i - 1 \in 1..(Len(walk) - 1) /\ (i - 1) + 1 = i
          BY <2>2, <3>2
        <4> QED
          BY <1>2, <2>2, <4>1 DEF ItemsTame
      <3> QED
        BY <3>1, <3>2
    <2> QED
      BY <1>1, <2>3 DEF ItemsTame
  <1> QED
    BY <1>2, <1>3

\* It makes way for others, or returns a type.
LEMMA TamePush ==
    ASSUME Checking, Annotated, Plain, NEW S, NEW s \in Seq(S),
           \A x \in S : ItemTame(x, decls, global, errs'), Push(s),
           UNCHANGED <<decls, pass, next, global>>, errs => errs',
           ExistsIn(got', decls, global), ScopesExist(scopes', decls, global)
    PROVE  Annotated2
  <1>1. ItemsTame(Tail(walk), decls, global, errs) /\ walk # <<>>
    BY PlainRest DEF Plain
  <1>2. \A er, gt : (errs => er) /\ (\A x \in S : ItemTame(x, decls, global, er))
            => ItemsFine(s \o Tail(walk), gt, decls, global, er)
    BY <1>1, TameWalk
  <1>3. ItemsFine(s \o Tail(walk), got', decls, global, errs')
    BY <1>2
  <1> QED
    BY <1>1, <1>3, AnnotatedStep DEF Push

\* It makes way for others and no more.
LEMMA TameVisit ==
    ASSUME Checking, Annotated, Plain, NEW S, NEW s \in Seq(S),
           \A x \in S : ItemTame(x, decls, global, errs), Visit(s)
    PROVE  Annotated2
  <1>1. /\ Push(s) /\ got' = got /\ errs' = errs /\ scopes' = scopes
        /\ UNCHANGED <<decls, pass, next, global>>
    BY DEF Visit, Keep
  <1>2. ExistsIn(got, decls, global) /\ ScopesExist(scopes, decls, global)
    BY AnnotatedParts DEF Plain
  <1>3. /\ ExistsIn(got', decls, global) /\ ScopesExist(scopes', decls, global)
        /\ \A x \in S : ItemTame(x, decls, global, errs')
    BY <1>1, <1>2
  <1> QED
    BY <1>1, <1>3, TamePush

\* It returns a type that exists, or nil.
LEMMA TameYield ==
    ASSUME Checking, Annotated, Plain, NEW t, ExistsIn(t, decls, global), NEW bad, Yield(t, bad)
    PROVE  Annotated2
  <1> DEFINE s == <<>>
             S == {}
  <1>1. /\ Push(s) /\ got' = t /\ errs' = (errs \/ bad) /\ scopes' = scopes
        /\ UNCHANGED <<decls, pass, next, global>>
    BY DEF Yield, Keep
  <1>2. ScopesExist(scopes, decls, global)
    BY AnnotatedParts DEF Plain
  <1>3. /\ ExistsIn(got', decls, global) /\ ScopesExist(scopes', decls, global)
        /\ \A x \in S : ItemTame(x, decls, global, errs')
    BY <1>1, <1>2
  <1>4. s \in Seq(S)
    OBVIOUS
  <1> HIDE DEF s, S
  <1> QED
    BY <1>1, <1>3, <1>4, TamePush

\* It returns nil, for a reason that is reported.
LEMMA TameReject ==
    ASSUME Checking, Annotated, Plain, Reject
    PROVE  Annotated2
  BY TameYield DEF Reject, ExistsIn

\* A block goes on with a statement.
LEMMA TameStatement ==
    ASSUME Checking, Annotated, AtItem("stmts"), NEW S, NEW s \in Seq(S),
           \A x \in S : ItemTame(x, decls, global, errs'), walk' = s \o walk,
           Keep, errs => errs', got' = NoType
    PROVE  Annotated2
  <1>1. walk # <<>> /\ Top.do = "stmts" /\ Plain
    BY DEF AtItem, Plain, IsLit
  <1>2. ItemsTame(walk, decls, global, errs)
    BY <1>1, PlainRest
  <1>3. \A er, gt : (errs => er) /\ (\A x \in S : ItemTame(x, decls, global, er))
            => ItemsFine(s \o walk, gt, decls, global, er)
    BY <1>2, TameWalk
  <1>4. ItemsFine(s \o walk, got', decls, global, errs')
    BY <1>3
  <1>5. scopes' = scopes /\ UNCHANGED <<decls, pass, next, global>>
    BY DEF Keep
  <1>6. ScopesExist(scopes, decls, global)
    BY <1>1, AnnotatedParts
  <1>7. ScopesExist(scopes', decls, global) /\ ExistsIn(got', decls, global)
    BY <1>5, <1>6 DEF ExistsIn
  <1> QED
    BY <1>1, <1>4, <1>5, <1>7, AnnotatedStep

\* Where an item is plain.
LEMMA PlainItem ==
    /\ \A name : AtItem(name) /\ name \notin {"neg", "expr"} => Plain /\ Top.do = name /\ walk # <<>>
    /\ \A forms : AtExpr(forms) /\ forms \cap UntypedLits = {} => Plain /\ Top.do = "expr"
    /\ AtItem("expr") /\ Top.form \notin UntypedLits => Plain
    /\ General \cap UntypedLits = {} /\ Places \cap UntypedLits = {}
  <1>1. \A name : AtItem(name) /\ name \notin {"neg", "expr"} => Plain /\ Top.do = name /\ walk # <<>>
    BY DEF AtItem, Plain, IsLit
  <1>2. \A forms : AtExpr(forms) /\ forms \cap UntypedLits = {} => Plain /\ Top.do = "expr"
    BY DEF AtExpr, AtItem, Plain, IsLit
  <1>3. AtItem("expr") /\ Top.form \notin UntypedLits => Plain
    BY DEF AtItem, Plain, IsLit
  <1>4. General \cap UntypedLits = {} /\ Places \cap UntypedLits = {}
    BY DEF General, Places, UntypedLits
  <1> QED
    BY <1>1, <1>2, <1>3, <1>4

-----------------------------------------------------------------------------
(* Types that exist. *)

\* The types of literals and of what is computed.
LEMMA ComputedTypes ==
    ASSUME NEW ds, NEW gl
    PROVE  /\ ExistsIn(NoType, ds, gl) /\ ExistsIn(Bool, ds, gl) /\ ExistsIn(Named("u8"), ds, gl)
           /\ ExistsIn(PtrTo(Named("u8")), ds, gl)
           /\ \A want : ExistsIn(LitType(want), ds, gl)
           /\ \A t \in TypesNil : \A w : ExistsIn(t, ds, gl) =>
                 t = NoType \/ ExistsIn([t EXCEPT !.wrap = w], ds, gl)
           /\ \A t \in TypesNil : ExistsIn(t, ds, gl) => t = NoType \/ ExistsIn(PtrTo(t), ds, gl)
  <1>1. ASSUME NEW t \in TypesNil, NEW w PROVE [t EXCEPT !.wrap = w].leaf = t.leaf
    <2>1. CASE t \in TypeExprs
      BY <2>1 DEF TypeExprs
    <2>2. CASE t = NoType
      BY <2>2 DEF NoType, Named
    <2> QED
      BY <2>1, <2>2 DEF TypesNil
  <1>2. \A t \in TypesNil : \A w : ExistsIn(t, ds, gl) => t = NoType \/ ExistsIn([t EXCEPT !.wrap = w], ds, gl)
    BY <1>1 DEF ExistsIn, TypeIn
  <1>3. ASSUME NEW t \in TypesNil, ExistsIn(t, ds, gl), t # NoType PROVE ExistsIn(PtrTo(t), ds, gl)
    <2> DEFINE w == <<Ptr>> \o t.wrap
    <2>1. PtrTo(t) = [t EXCEPT !.wrap = w]
      BY DEF PtrTo
    <2> HIDE DEF w
    <2> QED
      BY <1>2, <1>3, <2>1
  <1>4. {"bool", "u8", "i32"} \subseteq ScalarTypes
    BY FilesOK
  <1>5. /\ ExistsIn(NoType, ds, gl) /\ ExistsIn(Bool, ds, gl) /\ ExistsIn(Named("u8"), ds, gl)
        /\ ExistsIn(Named("i32"), ds, gl)
    BY <1>4 DEF ExistsIn, TypeIn, Bool, Named
  <1>6. ExistsIn(PtrTo(Named("u8")), ds, gl)
    <2>1. Named("u8") \in TypesNil /\ Named("u8") # NoType
      BY KnownTypes, TypesAreTypes
    <2> QED
      BY <1>3, <1>5, <2>1
  <1>7. \A want : ExistsIn(LitType(want), ds, gl)
    BY <1>5 DEF LitType, IsInteger, ExistsIn, TypeIn
  <1> QED
    BY <1>2, <1>3, <1>5, <1>6, <1>7

\* The type of a name, of a type expression, of a call, and of a field.
LEMMA LookupExists ==
    ASSUME Checking, Annotated, walk # <<>>, NEW name
    PROVE  ExistsIn(Lookup(name).type, decls, global)
  <1> DEFINE in == {i \in DOMAIN scopes : name \in DOMAIN scopes[i]}
             m == CHOOSE i \in in : \A j \in in : j <= i
  <1>1. /\ Sound /\ scopes \in Seq(Scopes) /\ decls \in Seq(Declarations)
        /\ Indexed(decls, global, Len(decls)) /\ Exist(decls, global, Len(decls))
        /\ ScopesExist(scopes, decls, global)
    BY AnnotatedParts
  <1>2. KindOf(name) = KindIn(name, decls, global)
    BY DEF KindOf, KindIn
  <1>3. CASE in # {}
    <2>1. DOMAIN scopes = 1..Len(scopes) /\ Len(scopes) \in Nat
      BY <1>1, LenProperties
    <2>2. \E i \in in : \A j \in in : j <= i
      <3>1. in \subseteq 1..Len(scopes)
        BY <2>1
      <3> HIDE DEF in
      <3> QED
        BY <1>3, <2>1, <3>1, GreatestNumber
    <2>3. m \in in
      <3> HIDE DEF in
      <3> QED
        BY <2>2
    <2>4. m \in 1..Len(scopes) /\ name \in DOMAIN scopes[m]
      BY <2>1, <2>3
    <2>5. Lookup(name) = [kind |-> "var", type |-> scopes[m][name]]
      BY <1>3 DEF Lookup
    <2> HIDE DEF m, in
    <2> QED
      BY <1>1, <2>4, <2>5 DEF ScopesExist
  <1>4. CASE in = {}
    <2>1. /\ Lookup(name).type = IF KindIn(name, decls, global) = "var" THEN decls[global[name]].type
                                 ELSE NoType
      BY <1>2, <1>4 DEF Lookup
    <2>2. ASSUME KindIn(name, decls, global) = "var"
          PROVE  TypeIn(decls[global[name]].type, decls, global)
      <3>1. name \in DOMAIN global
        BY <2>2 DEF KindIn
      <3>2. global[name] \in 1..Len(decls) /\ decls[global[name]].kind = "var"
        BY <1>1, <2>2, <3>1, GlobalName
      <3>3. decls[global[name]].type \in Mentioned(decls[global[name]])
        BY <3>2 DEF Mentioned
      <3> QED
        BY <1>1, <3>2, <3>3 DEF Exist
    <2> QED
      BY <2>1, <2>2 DEF ExistsIn
  <1> QED
    BY <1>3, <1>4

\* typeOf returns a type that exists, or nil.
LEMMA TypeOfExists ==
    \A te : ExistsIn(TypeOf(te), decls, global)
  <1>1. \A te : IsType(te) <=> TypeIn(te, decls, global)
    BY DEF IsType, TypeIn, KindOf, KindIn
  <1> QED
    BY <1>1 DEF TypeOf, ExistsIn

\* The parameters and the result of a function that has been declared.
LEMMA FunctionExists ==
    ASSUME NEW ds \in Seq(Declarations), NEW gl, Exist(ds, gl, Len(ds)), NEW i \in 1..Len(ds),
           ds[i].kind = "func"
    PROVE  /\ ExistsIn(ds[i].ret, ds, gl)
           /\ \A k \in DOMAIN ds[i].params : ExistsIn(ds[i].params[k].type, ds, gl)
  <1>1. Mentioned(ds[i]) = {ds[i].params[k].type : k \in DOMAIN ds[i].params}
                               \cup ({ds[i].ret} \ {NoType})
    BY DEF Mentioned
  <1>2. \A te \in Mentioned(ds[i]) : TypeIn(te, ds, gl)
    BY DEF Exist
  <1> QED
    BY <1>1, <1>2 DEF ExistsIn

\* Struct layout found the structs that fields are made of.
LEMMA FieldExists ==
    ASSUME Checking, Annotated, walk # <<>>, NEW t, IsStruct(t), NEW k \in DOMAIN FieldsOf(t)
    PROVE  ExistsIn(FieldsOf(t)[k].type, decls, global) /\ FieldsOf(t)[k].type # NoType
  <1>1. /\ Sound /\ decls \in Files /\ decls \in Seq(Declarations)
        /\ Indexed(decls, global, Len(decls))
    BY AnnotatedParts
  <1>2. KindIn(t.leaf, decls, global) = "struct"
    BY DEF IsStruct, KindOf, KindIn
  <1>3. t.leaf \in DOMAIN global
    BY <1>2 DEF KindIn
  <1> DEFINE i == global[t.leaf]
             te == FieldsOf(t)[k].type
  <1>4. i \in 1..Len(decls) /\ decls[i].kind = "struct" /\ FieldsOf(t) = decls[i].fields
    BY <1>1, <1>2, <1>3, GlobalName DEF FieldsOf
  <1>5. DOMAIN decls = 1..Len(decls)
    BY <1>1, LenProperties
  <1> HIDE DEF i
  <1>6. \/ te.leaf \in ScalarTypes
        \/ \E j \in DOMAIN decls : decls[j].kind = "struct" /\ decls[j].name = te.leaf
    <2>1. k \in DOMAIN decls[i].fields /\ te = decls[i].fields[k].type
      BY <1>4
    <2> HIDE DEF te
    <2> QED
      BY <1>1, <1>4, <1>5, <2>1, FilesOK
  <1>7. TypeIn(te, decls, global)
    <2>1. CASE te.leaf \in ScalarTypes
      BY <2>1 DEF TypeIn
    <2>2. CASE \E j \in DOMAIN decls : decls[j].kind = "struct" /\ decls[j].name = te.leaf
      <3>1. PICK j \in 1..Len(decls) : decls[j].kind = "struct" /\ decls[j].name = te.leaf
        BY <1>5, <2>2
      <3>2. te.leaf \in DOMAIN global /\ global[te.leaf] = j
        BY <1>1, <3>1 DEF Indexed
      <3>3. KindIn(te.leaf, decls, global) = "struct"
        BY <3>1, <3>2 DEF KindIn
      <3> QED
        BY <3>3 DEF TypeIn
    <2> QED
      BY <1>6, <2>1, <2>2
  <1>8. te \in TypeExprs
    <2>1. FieldsOf(t) \in Seq(NamedTypes)
      BY <1>1, FieldsParts
    <2> QED
      BY <2>1, NamedTypeParts
  <1> QED
    BY <1>7, <1>8, TypesAreTypes DEF ExistsIn

-----------------------------------------------------------------------------
(* The steps of the walk, once more. *)

\* Literals.
LEMMA LiteralsAnnotated ==
    ASSUME Checking, Annotated, CheckIntLit \/ CheckParen
    PROVE  Annotated2
  <1>1. AtItem("expr") /\ walk # <<>> /\ Top.do = "expr"
    BY DEF CheckIntLit, CheckNumber, CheckParen, AtExpr, AtItem
  <1>2. /\ walk \in Seq(CheckerItems) /\ ItemsFine(walk, got, decls, global, errs)
        /\ ExistsIn(got, decls, global) /\ ScopesExist(scopes, decls, global)
    BY <1>1, AnnotatedParts
  <1>3. \A want : ExistsIn(LitType(want), decls, global)
    BY ComputedTypes
  <1>4. ~IsLit(Top) => Plain
    BY <1>1 DEF Plain
  <1>5. CASE CheckIntLit
    <2>1. PICK v, neg : Yield(LitType(Top.want), ~Fits(v, neg, LitType(Top.want)))
      BY <1>5 DEF CheckIntLit, CheckNumber
    <2> DEFINE bad == ~Fits(v, neg, LitType(Top.want))
               t == LitType(Head(walk).want)
    <2>2. Yield(t, bad)
      BY <2>1 DEF Top
    <2>3. ExistsIn(t, decls, global)
      BY <1>3
    <2> HIDE DEF bad
    <2>4. CASE IsLit(Top)
      <3>1. \A er : (errs => er) => ItemsFine(Tail(walk), t, decls, global, er)
        BY <1>1, <1>2, <2>4, LitReturns DEF Top
      <3>2. /\ got' = t /\ walk' = <<>> \o Tail(walk) /\ errs' = (errs \/ bad) /\ scopes' = scopes
            /\ UNCHANGED <<decls, pass, next, global>>
        BY <2>2 DEF Yield, Push, Keep
      <3>3. walk' = Tail(walk)
        <4>1. Tail(walk) \in Seq(CheckerItems)
          BY <1>1, <1>2, HeadTail
        <4> QED
          BY <3>2, <4>1, ConcatEmptySeq
      <3> HIDE DEF t
      <3>4. ItemsFine(walk', got', decls, global, errs')
        BY <3>1, <3>2, <3>3
      <3>5. ExistsIn(got', decls, global) /\ ScopesExist(scopes', decls, global)
        BY <1>2, <2>3, <3>2
      <3> QED
        BY <1>1, <3>2, <3>4, <3>5, AnnotatedStep
    <2>5. CASE ~IsLit(Top)
      <3> HIDE DEF t
      <3> QED
        BY <1>4, <2>2, <2>3, <2>5, TameYield
    <2> QED
      BY <2>4, <2>5
  <1>6. CASE CheckParen
    <2> DEFINE x == ExprOf(Top.want, IF Top.form = "notInt" THEN "any" ELSE "lit")
               s == <<x>>
    <2>1. Visit(s) /\ Top.form \in {"notInt", "litNotInt"}
      BY <1>6 DEF CheckParen, AtExpr
    <2>2. CASE IsLit(Top)
      <3>1. Top.form # "notInt"
        BY <2>2 DEF IsLit, UntypedLits
      <3>2. x.do = "expr" /\ x.form = "lit" /\ x.want = Head(walk).want
        BY <3>1 DEF ExprOf, Top
      <3>3. IsLit(x)
        BY <3>2 DEF IsLit, UntypedLits
      <3> HIDE DEF x
      <3>4. Item("neg").do = "neg"
        BY DEF Item
      <3>5. ItemsFine(s \o Tail(walk), got, decls, global, errs)
        BY <1>1, <1>2, <2>2, <3>2, <3>3, <3>4, LitGoesOn DEF Top
      <3> HIDE DEF s
      <3>6. /\ got' = got /\ walk' = s \o Tail(walk) /\ errs' = errs /\ scopes' = scopes
            /\ UNCHANGED <<decls, pass, next, global>>
        BY <2>1 DEF Visit, Push, Keep
      <3>7. /\ ItemsFine(walk', got', decls, global, errs')
            /\ ExistsIn(got', decls, global) /\ ScopesExist(scopes', decls, global)
        BY <1>2, <3>5, <3>6
      <3> QED
        BY <1>1, <3>6, <3>7, AnnotatedStep
    <2>3. CASE ~IsLit(Top)
      <3>1. ItemTame(x, decls, global, errs)
        BY TameItems
      <3> HIDE DEF x
      <3>2. s \in Seq({x}) /\ \A y \in {x} : ItemTame(y, decls, global, errs)
        BY <3>1, ShortSequences
      <3> HIDE DEF s
      <3> QED
        BY <1>4, <2>1, <2>3, <3>2, TameVisit
    <2> QED
      BY <2>2, <2>3
  <1> QED
    BY <1>5, <1>6

\* Two or three items that are tame.
LEMMA TameVisits ==
    ASSUME Checking, Annotated, Plain, NEW x, ItemTame(x, decls, global, errs),
           NEW y, ItemTame(y, decls, global, errs), NEW z, ItemTame(z, decls, global, errs),
           \/ Visit(<<x>>) \/ Visit(<<x, y>>) \/ Visit(<<x, y, z>>) \/ Visit(<<x, y, x, y, z>>)
    PROVE  Annotated2
  <1>1. /\ <<x>> \in Seq({x, y, z}) /\ <<x, y>> \in Seq({x, y, z}) /\ <<x, y, z>> \in Seq({x, y, z})
        /\ <<x, y, x, y, z>> \in Seq({x, y, z})
    OBVIOUS
  <1>2. \A i \in {x, y, z} : ItemTame(i, decls, global, errs)
    OBVIOUS
  <1>3. ASSUME NEW s \in Seq({x, y, z}), Visit(s) PROVE Annotated2
    BY <1>2, <1>3, TameVisit
  <1> QED
    BY <1>1, <1>3

\* Literals that have a type, and names.
LEMMA LeavesAnnotated ==
    ASSUME Checking, Annotated, CheckOtherLit \/ CheckIdent
    PROVE  Annotated2
  <1>1. Plain /\ walk # <<>>
    BY PlainItem DEF CheckOtherLit, CheckIdent, Plain
  <1>2. CASE CheckOtherLit
    <2>1. PICK t \in {Named("u8"), PtrTo(Named("u8")), Bool} : Yield(t, FALSE)
      BY <1>2 DEF CheckOtherLit
    <2>2. ExistsIn(t, decls, global)
      BY ComputedTypes
    <2> QED
      BY <1>1, <2>1, <2>2, TameYield
  <1>3. CASE CheckIdent
    <2>1. PICK name : Yield(Lookup(name).type, Lookup(name).kind # "var")
      BY <1>3 DEF CheckIdent
    <2>2. ExistsIn(Lookup(name).type, decls, global)
      BY <1>1, LookupExists
    <2> DEFINE t == Lookup(name).type
               bad == Lookup(name).kind # "var"
    <2>3. Yield(t, bad) /\ ExistsIn(t, decls, global)
      BY <2>1, <2>2
    <2> HIDE DEF t, bad
    <2> QED
      BY <1>1, <2>3, TameYield
  <1> QED
    BY <1>2, <1>3

\* Operators before an operand.
LEMMA UnaryAnnotated ==
    ASSUME Checking, Annotated, CheckUnary
    PROVE  Annotated2
  <1> DEFINE f == CASE Top.form = "any" -> "notInt"
                    [] Top.form = "lit" -> "litNotInt"
                    [] OTHER -> Top.form
             y == Item("neg")
             x == ExprOf(Top.want, f)
             s == <<x, y>>
  <1>1. /\ \A name \in PlainItems : ItemTame(Item(name), decls, global, errs)
        /\ ItemTame(x, decls, global, errs)
        /\ ItemTame(Wanting(NoType), decls, global, errs)
        /\ ItemTame(ExprOf(NoType, "place"), decls, global, errs)
    BY TameItems
  <1>2. {"neg", "not", "addr", "deref"} \subseteq PlainItems
    BY DEF PlainItems
  <1>3. \/ AtExpr(General \cup UntypedLits) /\ Visit(s)
        \/ AtExpr(General) /\ Visit(<<Wanting(NoType), Item("not")>>)
        \/ AtExpr(General) /\ Visit(<<ExprOf(NoType, "place"), Item("addr")>>)
        \/ AtExpr(General) /\ Reject
        \/ AtExpr(Places) /\ Visit(<<Wanting(NoType), Item("deref")>>)
    BY DEF CheckUnary
  <1>4. CASE AtExpr(General \cup UntypedLits) /\ Visit(s)
    <2>1. walk # <<>> /\ Top.do = "expr"
      BY <1>4 DEF AtExpr, AtItem
    <2>2. CASE IsLit(Top)
      <3>1. f \in UntypedLits
        BY <2>2 DEF IsLit, UntypedLits
      <3>2. x.do = "expr" /\ x.form \in UntypedLits /\ x.want = Head(walk).want
        BY <3>1 DEF ExprOf, Top
      <3>3. IsLit(x)
        BY <3>2 DEF IsLit
      <3>4. y.do = "neg"
        BY DEF Item
      <3>5. /\ walk \in Seq(CheckerItems) /\ ItemsFine(walk, got, decls, global, errs)
            /\ ExistsIn(got, decls, global) /\ ScopesExist(scopes, decls, global)
        BY <2>1, AnnotatedParts
      <3> HIDE DEF x, y
      <3>6. ItemsFine(s \o Tail(walk), got, decls, global, errs)
        BY <2>1, <2>2, <3>2, <3>3, <3>4, <3>5, LitGoesOn DEF Top
      <3> HIDE DEF s
      <3>7. /\ got' = got /\ walk' = s \o Tail(walk) /\ errs' = errs /\ scopes' = scopes
            /\ UNCHANGED <<decls, pass, next, global>>
        BY <1>4 DEF Visit, Push, Keep
      <3>8. /\ ItemsFine(walk', got', decls, global, errs')
            /\ ExistsIn(got', decls, global) /\ ScopesExist(scopes', decls, global)
        BY <3>5, <3>6, <3>7
      <3> QED
        BY <2>1, <3>7, <3>8, AnnotatedStep
    <2>3. CASE ~IsLit(Top)
      <3>1. Plain
        BY <2>1, <2>3 DEF Plain
      <3>2. ItemTame(y, decls, global, errs)
        BY <1>1, <1>2
      <3> HIDE DEF x, y
      <3> QED
        BY <1>1, <1>4, <3>1, <3>2, TameVisits
    <2> QED
      BY <2>2, <2>3
  <1> HIDE DEF s, x, y, f
  <1>5. ASSUME AtExpr(General) \/ AtExpr(Places), NEW a, ItemTame(a, decls, global, errs),
               NEW name \in {"not", "addr", "deref"}, Visit(<<a, Item(name)>>)
        PROVE  Annotated2
    <2>1. Plain
      BY <1>5, PlainItem
    <2> DEFINE b == Item(name)
    <2>2. ItemTame(b, decls, global, errs) /\ Visit(<<a, b>>)
      BY <1>1, <1>2, <1>5
    <2> HIDE DEF b
    <2> QED
      BY <1>5, <2>1, <2>2, TameVisits
  <1>6. CASE AtExpr(General) /\ Reject
    BY <1>6, PlainItem, TameReject
  <1> QED
    BY <1>1, <1>3, <1>4, <1>5, <1>6

\* An operator ends.
LEMMA FinishUnaryAnnotated ==
    ASSUME Checking, Annotated, FinishUnary
    PROVE  Annotated2
  <1>1. walk # <<>>
    BY DEF FinishUnary, AtItem
  <1>2. /\ walk \in Seq(CheckerItems) /\ ItemsFine(walk, got, decls, global, errs)
        /\ got \in TypesNil
        /\ ExistsIn(got, decls, global) /\ ScopesExist(scopes, decls, global)
    BY <1>1, AnnotatedParts
  <1>3. /\ ExistsIn(NoType, decls, global) /\ ExistsIn(Bool, decls, global)
        /\ \A w : got = NoType \/ ExistsIn([got EXCEPT !.wrap = w], decls, global)
        /\ got = NoType \/ ExistsIn(PtrTo(got), decls, global)
    BY <1>2, ComputedTypes
  <1>4. CASE AtItem("neg") /\ \E bad : Yield(IF IsInteger(got) THEN got ELSE NoType, bad)
    <2> DEFINE t == IF IsInteger(got) THEN got ELSE NoType
    <2>1. PICK bad : Yield(t, bad)
      BY <1>4
    <2>2. Head(walk).do = "neg"
      BY <1>4 DEF AtItem, Top
    <2>3. \A er : (errs => er) => ItemsFine(Tail(walk), t, decls, global, er)
      BY <1>1, <1>2, <2>2, LitReturns
    <2>4. ExistsIn(t, decls, global)
      BY <1>2, <1>3
    <2> HIDE DEF t
    <2>5. /\ got' = t /\ walk' = <<>> \o Tail(walk) /\ errs' = (errs \/ bad) /\ scopes' = scopes
          /\ UNCHANGED <<decls, pass, next, global>>
      BY <2>1 DEF Yield, Push, Keep
    <2>6. walk' = Tail(walk)
      <3>1. Tail(walk) \in Seq(CheckerItems)
        BY <1>1, <1>2, HeadTail
      <3> QED
        BY <2>5, <3>1, ConcatEmptySeq
    <2>7. ItemsFine(walk', got', decls, global, errs')
      BY <2>3, <2>5, <2>6
    <2>8. ExistsIn(got', decls, global) /\ ScopesExist(scopes', decls, global)
      BY <1>2, <2>4, <2>5
    <2> QED
      BY <1>1, <2>5, <2>7, <2>8, AnnotatedStep
  <1>5. ASSUME AtItem("not") \/ AtItem("addr") \/ AtItem("deref"),
               NEW t, ExistsIn(t, decls, global), NEW bad, Yield(t, bad)
        PROVE  Annotated2
    <2>1. Plain
      BY <1>5, PlainItem
    <2> QED
      BY <1>5, <2>1, TameYield
  <1>6. CASE AtItem("not") /\ \E bad : Yield(IF got \in {Bool, NoType} THEN Bool ELSE NoType, bad)
    <2>1. ExistsIn(IF got \in {Bool, NoType} THEN Bool ELSE NoType, decls, global)
      BY <1>3
    <2> QED
      BY <1>5, <1>6, <2>1
  <1>7. CASE AtItem("addr") /\ Yield(IF got = NoType THEN got ELSE PtrTo(got), FALSE)
    <2>1. ExistsIn(IF got = NoType THEN got ELSE PtrTo(got), decls, global)
      BY <1>3
    <2> QED
      BY <1>5, <1>7, <2>1
  <1>8. CASE /\ AtItem("deref")
             /\ IF IsPointer(got) THEN Yield([got EXCEPT !.wrap = Tail(@)], FALSE)
                ELSE Yield(NoType, got # NoType)
    <2>1. CASE IsPointer(got)
      <3>1. got # NoType
        BY <2>1, TypesAreTypes DEF IsPointer
      <3> DEFINE w == Tail(got.wrap)
                 t == [got EXCEPT !.wrap = w]
      <3>2. ExistsIn(t, decls, global)
        <4> HIDE DEF w
        <4> QED
          BY <1>3, <3>1
      <3>3. Yield(t, FALSE)
        BY <1>8, <2>1
      <3> HIDE DEF t
      <3> QED
        BY <1>5, <1>8, <3>2, <3>3
    <2>2. CASE ~IsPointer(got)
      BY <1>3, <1>5, <1>8, <2>2
    <2> QED
      BY <2>1, <2>2
  <1>9. \/ AtItem("neg") /\ \E bad : Yield(IF IsInteger(got) THEN got ELSE NoType, bad)
        \/ AtItem("not") /\ \E bad : Yield(IF got \in {Bool, NoType} THEN Bool ELSE NoType, bad)
        \/ AtItem("addr") /\ Yield(IF got = NoType THEN got ELSE PtrTo(got), FALSE)
        \/ /\ AtItem("deref")
           /\ IF IsPointer(got) THEN Yield([got EXCEPT !.wrap = Tail(@)], FALSE)
              ELSE Yield(NoType, got # NoType)
    BY DEF FinishUnary
  <1> QED
    BY <1>4, <1>6, <1>7, <1>8, <1>9

\* Operators with two operands.
LEMMA LogicalAnnotated ==
    ASSUME Checking, Annotated, CheckLogical \/ CheckOperandPair
    PROVE  Annotated2
  <1>1. CASE AtItem("bool") /\ Yield(Bool, FALSE)
    <2>1. ExistsIn(Bool, decls, global)
      BY ComputedTypes
    <2> QED
      BY <1>1, <2>1, PlainItem, TameYield
  <1>2. CASE /\ AtExpr(General)
             /\ Visit(<<Wanting(NoType), Item("cond"), Wanting(NoType), Item("cond"), Item("bool")>>)
    <2> DEFINE x == Wanting(NoType)
               y == Item("cond")
               z == Item("bool")
    <2>1. {"cond", "bool"} \subseteq PlainItems
      BY DEF PlainItems
    <2>2. /\ ItemTame(x, decls, global, errs) /\ ItemTame(y, decls, global, errs)
          /\ ItemTame(z, decls, global, errs)
      BY <2>1, TameItems
    <2>3. Plain /\ Visit(<<x, y, x, y, z>>)
      BY <1>2, PlainItem
    <2> HIDE DEF x, y, z
    <2> QED
      BY <2>2, <2>3, TameVisits
  <1>3. CASE CheckOperandPair
    <2>1. PICK op \in {"arith", "order", "equal"}, x \in {"lit", "nonlit"}, y \in {"lit", "nonlit"} :
              LET want == IF op = "arith" /\ IsInteger(Top.want) THEN Top.want ELSE NoType
                  swap == x = "lit" /\ y = "nonlit"
                  first == IF swap THEN y ELSE x
                  second == IF swap THEN x ELSE y
              IN  /\ AtExpr(General)
                  /\ Visit(<<ExprOf(want, first),
                             [do |-> "second", op |-> op, first |-> first, form |-> second]>>)
      BY <1>3 DEF CheckOperandPair
    <2> DEFINE want == IF op = "arith" /\ IsInteger(Top.want) THEN Top.want ELSE NoType
               swap == x = "lit" /\ y = "nonlit"
               first == IF swap THEN y ELSE x
               second == IF swap THEN x ELSE y
               a == ExprOf(want, first)
               b == SecondItem(op, first, second)
    <2>2. AtExpr(General) /\ Visit(<<a, b>>)
      BY <2>1 DEF SecondItem
    <2>3. first = "lit" => second = "lit"
      OBVIOUS
    <2> HIDE DEF want, first, second
    <2>4. ItemTame(a, decls, global, errs) /\ ItemTame(b, decls, global, errs)
      BY <2>3, TameItems
    <2>5. Plain
      BY <2>2, PlainItem
    <2> HIDE DEF a, b
    <2> QED
      BY <2>2, <2>4, <2>5, TameVisits
  <1> QED
    BY <1>1, <1>2, <1>3 DEF CheckLogical

\* The second operand, and what the operator returns.
LEMMA BinaryAnnotated ==
    ASSUME Checking, Annotated, SecondOperand \/ FinishBinary
    PROVE  Annotated2
  <1>1. CASE SecondOperand
    <2>1. Plain /\ walk # <<>> /\ Top.do = "second"
      BY <1>1, PlainItem DEF SecondOperand
    <2>2. Top \in CheckerItems /\ ItemFine(Top, decls, global, errs)
          /\ ExistsIn(got, decls, global) /\ ScopesExist(scopes, decls, global)
      BY <2>1, AnnotatedParts
    <2>3. Top.first \in {"lit", "nonlit"} /\ Top.form \in {"lit", "nonlit"}
      BY <2>1, <2>2, CheckerItemParts
    <2> DEFINE adopts == Top.first # Top.form
               op == Top.op
               form == Top.form
               s == <<ExprOf(got, form), PairItem(op, got, adopts)>>
    <2>4. adopts => form = "lit"
      BY <2>1, <2>2, <2>3 DEF ItemFine
    <2>5. ItemsTame(Tail(walk), decls, global, errs)
      BY <2>1, PlainRest
    <2>6. Visit(s)
      BY <1>1 DEF SecondOperand, PairItem
    <2> HIDE DEF adopts, op, form
    <2>7. ItemsFine(s \o Tail(walk), got, decls, global, errs)
      BY <2>4, <2>5, SecondBegins
    <2> HIDE DEF s
    <2>8. /\ got' = got /\ walk' = s \o Tail(walk) /\ errs' = errs /\ scopes' = scopes
          /\ UNCHANGED <<decls, pass, next, global>>
      BY <2>6 DEF Visit, Push, Keep
    <2>9. /\ ItemsFine(walk', got', decls, global, errs')
          /\ ExistsIn(got', decls, global) /\ ScopesExist(scopes', decls, global)
      BY <2>2, <2>7, <2>8
    <2> QED
      BY <2>1, <2>8, <2>9, AnnotatedStep
  <1>2. CASE FinishBinary
    <2>1. AtItem("pair")
      BY <1>2 DEF FinishBinary
    <2>2. Plain /\ walk # <<>>
      BY <2>1, PlainItem
    <2>3. PICK t \in {NoType, got, Bool} : \E bad : Yield(t, bad)
      BY <1>2 DEF FinishBinary
    <2>4. ExistsIn(t, decls, global)
      BY <2>2, AnnotatedParts, ComputedTypes
    <2> QED
      BY <2>2, <2>3, <2>4, TameYield
  <1> QED
    BY <1>1, <1>2

\* A cast.
LEMMA CastAnnotated ==
    ASSUME Checking, Annotated, CheckCast
    PROVE  Annotated2
  <1>1. CASE AtExpr(General) /\ \E te \in LocalTypes : Visit(<<Wanting(NoType), Typed("cast", te)>>)
    <2>1. PICK te : Visit(<<Wanting(NoType), Typed("cast", te)>>)
      BY <1>1
    <2> DEFINE x == Wanting(NoType)
               y == Typed("cast", te)
    <2>2. ItemTame(x, decls, global, errs) /\ ItemTame(y, decls, global, errs)
      BY TameItems
    <2>3. Plain /\ Visit(<<x, y>>)
      BY <1>1, <2>1, PlainItem
    <2> HIDE DEF x, y
    <2> QED
      BY <2>2, <2>3, TameVisits
  <1>2. CASE AtItem("cast") /\ \E good, bad : Yield(IF good THEN TypeOf(Top.type) ELSE NoType, bad)
    <2>1. PICK good, bad : Yield(IF good THEN TypeOf(Top.type) ELSE NoType, bad)
      BY <1>2
    <2> DEFINE t == IF good THEN TypeOf(Top.type) ELSE NoType
    <2>2. ExistsIn(t, decls, global)
      BY TypeOfExists, ComputedTypes
    <2>3. Plain /\ Yield(t, bad)
      BY <1>2, <2>1, PlainItem
    <2> HIDE DEF t
    <2> QED
      BY <2>2, <2>3, TameYield
  <1> QED
    BY <1>1, <1>2 DEF CheckCast

\* The arguments of a call.
LEMMA TameArguments ==
    ASSUME NEW ds, NEW gl, NEW er, NEW p \in Seq(NamedTypes)
    PROVE  \E S : /\ [i \in 1..(2 * Len(p)) |-> IF i % 2 = 1 THEN Wanting(p[(i + 1) \div 2].type)
                                                ELSE Typed("use", p[(i + 1) \div 2].type)] \in Seq(S)
                  /\ \A x \in S : ItemTame(x, ds, gl, er)
  <1> DEFINE n == Len(p)
             s == [i \in 1..(2 * n) |->
                      IF i % 2 = 1 THEN Wanting(p[(i + 1) \div 2].type)
                      ELSE Typed("use", p[(i + 1) \div 2].type)]
             S == {s[i] : i \in 1..(2 * n)}
  <1>1. n \in Nat /\ DOMAIN p = 1..n
    BY LenProperties
  <1>2. \A i \in 1..(2 * n) : (i + 1) \div 2 \in 1..n
    BY <1>1
  <1>3. 2 * n \in Nat
    BY <1>1
  <1> HIDE DEF n
  <1>4. ASSUME NEW i \in 1..(2 * n) PROVE ItemTame(s[i], ds, gl, er)
    <2> DEFINE t == p[(i + 1) \div 2].type
    <2>1. Fine(t, er)
      BY <1>1, <1>2, NamedTypeParts, TypesAreTypes DEF Fine
    <2>2. s[i] = Wanting(t) \/ s[i] = Typed("use", t)
      OBVIOUS
    <2> HIDE DEF t, s
    <2> QED
      BY <2>1, <2>2, TameItems
  <1>5. s \in [1..(2 * n) -> S]
    OBVIOUS
  <1>6. \A x \in S : ItemTame(x, ds, gl, er)
    BY <1>4
  <1> HIDE DEF s, S
  <1>7. s \in Seq(S)
    BY <1>3, <1>5
  <1> QED
    BY <1>6, <1>7 DEF s, n

\* A call, and its end.
LEMMA CallAnnotated ==
    ASSUME Checking, Annotated, CheckCall \/ Called
    PROVE  Annotated2
  <1>1. CASE Called
    <2>1. Plain /\ walk # <<>> /\ Top.do = "called" /\ \E bad : Yield(Top.type, bad)
      BY <1>1, PlainItem DEF Called
    <2>2. ExistsIn(Top.type, decls, global)
      BY <2>1, AnnotatedParts DEF ItemFine
    <2> DEFINE t == Top.type
    <2>3. PICK bad : Yield(t, bad)
      BY <2>1
    <2>4. ExistsIn(t, decls, global)
      BY <2>2
    <2> HIDE DEF t
    <2> QED
      BY <2>1, <2>3, <2>4, TameYield
  <1>2. CASE CheckCall
    <2> DEFINE f(name) == decls[global[name]]
               c(name) == [do |-> "called", type |-> f(name).ret, value |-> Top.do = "expr"]
               arguments(name) ==
                   [i \in 1..(2 * Len(f(name).params)) |->
                       IF i % 2 = 1 THEN Wanting(f(name).params[(i + 1) \div 2].type)
                       ELSE Typed("use", f(name).params[(i + 1) \div 2].type)]
    <2>1. PICK name, arity :
              IF Lookup(name).kind # "func" THEN arity /\ Reject
              ELSE IF ~arity THEN /\ Push(<<c(name)>>)
                                  /\ errs' = TRUE
                                  /\ Keep /\ UNCHANGED got
              ELSE Visit(arguments(name) \o <<c(name)>>)
      BY <1>2 DEF CheckCall
    <2>6. AtExpr(General) \/ AtItem("call")
      BY <1>2 DEF CheckCall
    <2>2. Plain /\ walk # <<>>
      BY <2>6, PlainItem DEF Plain
    <2>3. /\ Sound /\ decls \in Seq(Declarations) /\ Indexed(decls, global, Len(decls))
          /\ Exist(decls, global, Len(decls))
          /\ ExistsIn(got, decls, global) /\ ScopesExist(scopes, decls, global)
      BY <2>2, AnnotatedParts
    <2>4. CASE Lookup(name).kind # "func"
      <3>1. Reject
        BY <2>1, <2>4
      <3> QED
        BY <2>2, <3>1, TameReject
    <2>5. CASE Lookup(name).kind = "func"
      <3>1. KindIn(name, decls, global) = "func"
        BY <2>2, <2>3, <2>5, LookupOK
      <3>2. name \in DOMAIN global
        BY <3>1 DEF KindIn
      <3>3. global[name] \in 1..Len(decls) /\ decls[global[name]].kind = "func"
        BY <2>3, <3>1, <3>2, GlobalName
      <3>4. f(name).params \in Seq(NamedTypes) /\ ExistsIn(f(name).ret, decls, global)
        BY <2>2, <2>3, <2>5, <3>3, FunctionParts, FunctionExists
      <3>5. \A er : ItemTame(c(name), decls, global, er)
        <4>1. \A er : \A t, v : ExistsIn(t, decls, global) =>
                 ItemTame([do |-> "called", type |-> t, value |-> v], decls, global, er)
          BY TameItems
        <4> DEFINE v1 == Top.do = "expr"
                   t1 == f(name).ret
        <4> HIDE DEF v1, t1
        <4>2. \A er : ExistsIn(t1, decls, global) =>
                 ItemTame([do |-> "called", type |-> t1, value |-> v1], decls, global, er)
          BY <4>1
        <4> QED
          BY <3>4, <4>2 DEF v1, t1
      <3>6. PICK S : arguments(name) \in Seq(S) /\ \A x \in S : ItemTame(x, decls, global, errs)
        <4> DEFINE p == f(name).params
        <4>1. p \in Seq(NamedTypes)
          BY <3>4
        <4> HIDE DEF p
        <4>2. \E S : /\ [i \in 1..(2 * Len(p)) |-> IF i % 2 = 1 THEN Wanting(p[(i + 1) \div 2].type)
                                                ELSE Typed("use", p[(i + 1) \div 2].type)] \in Seq(S)
                     /\ \A x \in S : ItemTame(x, decls, global, errs)
          BY <4>1, TameArguments
        <4> QED
          BY <4>2 DEF p
      <3>7. /\ ~arity => Push(<<c(name)>>) /\ errs' = TRUE /\ Keep /\ UNCHANGED got
            /\ arity => Visit(arguments(name) \o <<c(name)>>)
        BY <2>1, <2>5
      <3> HIDE DEF c, arguments
      <3>8. <<c(name)>> \in Seq({c(name)})
        BY ShortSequences
      <3>9. CASE ~arity
        <4> DEFINE s == <<c(name)>>
                   T == {c(name)}
        <4>1. /\ Push(s) /\ errs' = TRUE /\ got' = got /\ scopes' = scopes
              /\ UNCHANGED <<decls, pass, next, global>>
          BY <3>7, <3>9 DEF Keep
        <4>2. s \in Seq(T) /\ \A x \in T : ItemTame(x, decls, global, TRUE)
          BY <3>5, <3>8
        <4> HIDE DEF s, T
        <4>3. /\ errs => errs'
              /\ \A x \in T : ItemTame(x, decls, global, errs')
              /\ ExistsIn(got', decls, global) /\ ScopesExist(scopes', decls, global)
          BY <2>3, <4>1, <4>2
        <4> QED
          BY <2>2, <4>1, <4>2, <4>3, TamePush
      <3>10. CASE arity
        <4> DEFINE s == arguments(name) \o <<c(name)>>
                   T == S \cup {c(name)}
        <4>1. Visit(s)
          BY <3>7, <3>10
        <4>2. arguments(name) \in Seq(T) /\ <<c(name)>> \in Seq(T)
          BY <3>6, <3>8
        <4>3. s \in Seq(T)
          <5> HIDE DEF T
          <5> QED
            BY <4>2, ConcatProperties
        <4>4. \A x \in T : ItemTame(x, decls, global, errs)
          BY <3>5, <3>6
        <4> HIDE DEF s, T
        <4> QED
          BY <2>2, <4>1, <4>3, <4>4, TameVisit
      <3> QED
        BY <3>9, <3>10
    <2> QED
      BY <2>4, <2>5
  <1> QED
    BY <1>1, <1>2

\* An element of an array.
LEMMA IndexAnnotated ==
    ASSUME Checking, Annotated, CheckIndex
    PROVE  Annotated2
  <1>1. CASE AtExpr(Places) /\ Visit(<<Wanting(NoType), Item("base")>>)
    <2> DEFINE x == Wanting(NoType)
               y == Item("base")
    <2>1. "base" \in PlainItems
      BY DEF PlainItems
    <2>2. ItemTame(x, decls, global, errs) /\ ItemTame(y, decls, global, errs)
      BY <2>1, TameItems
    <2>3. Plain /\ Visit(<<x, y>>)
      BY <1>1, PlainItem
    <2> HIDE DEF x, y
    <2> QED
      BY <2>2, <2>3, TameVisits
  <1>2. CASE AtItem("base") /\ Visit(<<Wanting(NoType), Typed("index", got)>>)
    <2> DEFINE x == Wanting(NoType)
               y == Typed("index", got)
    <2>1. Plain /\ walk # <<>> /\ Visit(<<x, y>>)
      BY <1>2, PlainItem
    <2>2. ExistsIn(got, decls, global)
      BY <2>1, AnnotatedParts
    <2>3. ItemTame(x, decls, global, errs) /\ ItemTame(y, decls, global, errs)
      BY <2>2, TameItems
    <2> HIDE DEF x, y
    <2> QED
      BY <2>1, <2>3, TameVisits
  <1>3. CASE /\ AtItem("index")
             /\ \E bad : IF Top.type.wrap # <<>> THEN Yield([Top.type EXCEPT !.wrap = Tail(@)], bad)
                         ELSE Yield(NoType, bad)
    <2> DEFINE u == Top.type
               w == Tail(u.wrap)
               t == [u EXCEPT !.wrap = w]
    <2>1. Plain /\ walk # <<>> /\ Top.do = "index"
      BY <1>3, PlainItem
    <2>2. PICK bad : IF u.wrap # <<>> THEN Yield(t, bad) ELSE Yield(NoType, bad)
      BY <1>3
    <2>3. Top \in CheckerItems /\ ExistsIn(u, decls, global)
      BY <2>1, AnnotatedParts DEF ItemFine
    <2>4. u \in TypesNil
      BY <2>1, <2>3, CheckerItemParts
    <2> HIDE DEF u, w
    <2>5. ASSUME u.wrap # <<>> PROVE ExistsIn(t, decls, global)
      <3>1. u # NoType
        BY <2>5, TypesAreTypes
      <3> QED
        BY <2>3, <2>4, <3>1, ComputedTypes
    <2>6. ExistsIn(NoType, decls, global)
      BY ComputedTypes
    <2> HIDE DEF t
    <2> QED
      BY <2>1, <2>2, <2>5, <2>6, TameYield
  <1>4. \/ AtExpr(Places) /\ Visit(<<Wanting(NoType), Item("base")>>)
        \/ AtItem("base") /\ Visit(<<Wanting(NoType), Typed("index", got)>>)
        \/ /\ AtItem("index")
           /\ \E bad : IF Top.type.wrap # <<>> THEN Yield([Top.type EXCEPT !.wrap = Tail(@)], bad)
                       ELSE Yield(NoType, bad)
    BY DEF CheckIndex
  <1> QED
    BY <1>1, <1>2, <1>3, <1>4

\* A field of a struct.
LEMMA FieldAnnotated ==
    ASSUME Checking, Annotated, CheckField
    PROVE  Annotated2
  <1> DEFINE st == IF got.wrap = <<Ptr>> THEN Named(got.leaf) ELSE got
  <1>1. PICK name \in FieldNames :
            \/ AtExpr(Places) /\ Visit(<<Wanting(NoType), [do |-> "field", name |-> name]>>)
            \/ /\ AtItem("field")
               /\ IF IsStruct(st) /\ \E i \in DOMAIN FieldsOf(st) : FieldsOf(st)[i].name = name
                  THEN Yield((CHOOSE fd \in Range(FieldsOf(st)) : fd.name = name).type, FALSE)
                  ELSE Yield(NoType, got # NoType)
    BY DEF CheckField
  <1>2. CASE AtExpr(Places) /\ Visit(<<Wanting(NoType), [do |-> "field", name |-> name]>>)
    <2> DEFINE x == Wanting(NoType)
               y == [do |-> "field", name |-> name]
    <2>1. ItemTame(x, decls, global, errs) /\ ItemTame(y, decls, global, errs)
      BY TameItems
    <2>2. Plain /\ Visit(<<x, y>>)
      BY <1>2, PlainItem
    <2> HIDE DEF x, y
    <2> QED
      BY <2>1, <2>2, TameVisits
  <1>3. CASE /\ AtItem("field")
             /\ IF IsStruct(st) /\ \E i \in DOMAIN FieldsOf(st) : FieldsOf(st)[i].name = name
                THEN Yield((CHOOSE fd \in Range(FieldsOf(st)) : fd.name = name).type, FALSE)
                ELSE Yield(NoType, got # NoType)
    <2>1. Plain /\ walk # <<>>
      BY <1>3, PlainItem
    <2> HIDE DEF st
    <2>2. CASE IsStruct(st) /\ \E i \in DOMAIN FieldsOf(st) : FieldsOf(st)[i].name = name
      <3> DEFINE fs == FieldsOf(st)
                 fd == CHOOSE x \in Range(fs) : x.name = name
                 t == fd.type
      <3>1. \A k \in DOMAIN fs : ExistsIn(fs[k].type, decls, global)
        BY <2>1, <2>2, FieldExists
      <3>2. PICK i \in DOMAIN fs : fs[i].name = name
        BY <2>2
      <3>3. Yield(t, FALSE)
        BY <1>3, <2>2
      <3> HIDE DEF fs
      <3>4. fs[i] \in Range(fs) /\ fs[i].name = name
        BY <3>2 DEF Range
      <3>5. fd \in Range(fs)
        BY <3>4
      <3> HIDE DEF fd
      <3>6. PICK k \in DOMAIN fs : fd = fs[k]
        BY <3>5 DEF Range
      <3>7. ExistsIn(t, decls, global)
        BY <3>1, <3>6
      <3> HIDE DEF t
      <3> QED
        BY <2>1, <3>3, <3>7, TameYield
    <2>3. CASE ~(IsStruct(st) /\ \E i \in DOMAIN FieldsOf(st) : FieldsOf(st)[i].name = name)
      <3>1. Yield(NoType, got # NoType) /\ ExistsIn(NoType, decls, global)
        BY <1>3, <2>3, ComputedTypes
      <3> DEFINE bad == got # NoType
      <3>2. Yield(NoType, bad)
        BY <3>1
      <3> HIDE DEF bad
      <3> QED
        BY <2>1, <3>1, <3>2, TameYield
    <2> QED
      BY <2>2, <2>3
  <1> QED
    BY <1>1, <1>2, <1>3

\* A struct literal, and its fields.
LEMMA StructLitAnnotated ==
    ASSUME Checking, Annotated, CheckStructLit
    PROVE  Annotated2
  <1>1. PICK name : IF Lookup(name).kind # "struct" THEN Reject
                    ELSE Visit(<<[do |-> "inits", type |-> Named(name), given |-> {}]>>)
    BY DEF CheckStructLit
  <1>2. Plain
    BY PlainItem DEF CheckStructLit
  <1> DEFINE x == [do |-> "inits", type |-> Named(name), given |-> {}]
  <1>3. ItemTame(x, decls, global, errs) /\ (Reject \/ Visit(<<x>>))
    BY <1>1, TameItems
  <1> HIDE DEF x
  <1> QED
    BY <1>2, <1>3, TameReject, TameVisits

\* The fields of a struct literal.
LEMMA InitsAnnotated ==
    ASSUME Checking, Annotated, CheckInits
    PROVE  Annotated2
  <1> DEFINE st == Top.type
             fields == FieldsOf(st)
             given(i) == [Top EXCEPT !.given = @ \cup {fields[i].name}]
  <1>1. AtItem("inits")
    BY DEF CheckInits
  <1>2. Plain /\ walk # <<>> /\ Top.do = "inits"
    BY <1>1, PlainItem
  <1>3. /\ Sound /\ Top \in CheckerItems /\ walk \in Seq(CheckerItems)
        /\ ExistsIn(got, decls, global) /\ ScopesExist(scopes, decls, global)
    BY <1>2, AnnotatedParts
  <1>4. StructIn(st, decls, global) /\ Top \in InitsItems
    <2>1. "inits" \notin EndItems
      BY DEF EndItems
    <2> QED
      BY <1>2, <1>3, <2>1, TopParts, CheckerItemParts
  <1>5. IsStruct(st)
    BY <1>4 DEF IsStruct, StructIn, KindOf, KindIn
  <1>6. \A ds, gl, er : ItemTame(Top, ds, gl, er)
    BY <1>2, OtherItems
  <1>7. \/ \E bad : Yield(st, bad)
        \/ Push(<<Wanting(NoType), Top>>) /\ errs' = TRUE /\ Keep /\ UNCHANGED got
        \/ errs' = TRUE /\ Keep /\ UNCHANGED <<walk, got>>
        \/ \E i \in DOMAIN fields :
               Visit(<<Wanting(fields[i].type), Typed("use", fields[i].type), given(i)>>)
    BY DEF CheckInits
  <1> HIDE DEF fields, st
  <1>8. CASE \E bad : Yield(st, bad)
    <2>1. ExistsIn(st, decls, global)
      BY <1>4 DEF StructIn, ExistsIn, TypeIn
    <2> QED
      BY <1>2, <1>8, <2>1, TameYield
  <1>9. CASE Push(<<Wanting(NoType), Top>>) /\ errs' = TRUE /\ Keep /\ UNCHANGED got
    <2> DEFINE x == Wanting(NoType)
               y == Top
               S == {x, y}
               s == <<x, y>>
    <2>1. s \in Seq(S)
      BY ShortSequences
    <2>2. \A er : \A i \in S : ItemTame(i, decls, global, er)
      BY <1>6, TameItems
    <2>3. /\ Push(s) /\ errs' = TRUE /\ got' = got /\ scopes' = scopes
          /\ UNCHANGED <<decls, pass, next, global>>
      BY <1>9 DEF Keep
    <2> HIDE DEF s, S, x, y
    <2>4. /\ errs => errs'
          /\ \A i \in S : ItemTame(i, decls, global, errs')
          /\ ExistsIn(got', decls, global) /\ ScopesExist(scopes', decls, global)
      BY <1>3, <2>2, <2>3
    <2> QED
      BY <1>2, <2>1, <2>3, <2>4, TamePush
  <1>10. CASE errs' = TRUE /\ Keep /\ UNCHANGED <<walk, got>>
    <2>1. ItemsTame(walk, decls, global, errs)
      BY <1>2, PlainRest
    <2>2. ASSUME NEW er, errs => er, NEW gt PROVE ItemsFine(walk, gt, decls, global, er)
      <3> DEFINE s == <<>>
                 S == {}
      <3>1. s \in Seq(S) /\ \A i \in S : ItemTame(i, decls, global, er)
        OBVIOUS
      <3>2. s \o walk = walk
        BY <1>3, ConcatEmptySeq
      <3> HIDE DEF s, S
      <3> QED
        BY <2>1, <2>2, <3>1, <3>2, TameWalk
    <2>3. /\ errs' = TRUE /\ got' = got /\ walk' = walk /\ scopes' = scopes
          /\ UNCHANGED <<decls, pass, next, global>>
      BY <1>10 DEF Keep
    <2>4. ItemsFine(walk, got, decls, global, TRUE)
      BY <2>2
    <2>5. /\ ItemsFine(walk', got', decls, global, errs')
          /\ ExistsIn(got', decls, global) /\ ScopesExist(scopes', decls, global)
      BY <1>3, <2>3, <2>4
    <2> QED
      BY <1>2, <2>3, <2>5, AnnotatedStep
  <1>11. ASSUME NEW i \in DOMAIN fields,
                Visit(<<Wanting(fields[i].type), Typed("use", fields[i].type), given(i)>>)
         PROVE  Annotated2
    <2> DEFINE t == fields[i].type
               x == Wanting(t)
               y == Typed("use", t)
               z == given(i)
    <2>1. t # NoType
      BY <1>2, <1>5, FieldExists DEF fields
    <2>2. z.do = "inits"
      <3>1. z.do = Top.do
        BY <1>4 DEF InitsItems
      <3> QED
        BY <1>2, <3>1
    <2>3. Visit(<<x, y, z>>)
      BY <1>11
    <2> HIDE DEF z, t
    <2>4. ItemTame(z, decls, global, errs)
      BY <2>2, OtherItems
    <2>5. ItemTame(x, decls, global, errs) /\ ItemTame(y, decls, global, errs)
      BY <2>1, TameItems DEF Fine
    <2> HIDE DEF x, y
    <2> QED
      BY <1>2, <2>3, <2>4, <2>5, TameVisits
  <1> QED
    BY <1>7, <1>8, <1>9, <1>10, <1>11


-----------------------------------------------------------------------------
(* Blocks and statements, once more. *)

\* The scopes that are left when a block ends.
LEMMA ScopesExistLess ==
    ASSUME NEW ds, NEW gl, NEW sc \in Seq(Scopes), sc # <<>>, ScopesExist(sc, ds, gl),
           NEW new, new = Front(sc)
    PROVE  ScopesExist(new, ds, gl)
  <1>1. /\ Len(sc) \in Nat \ {0} /\ Len(new) = Len(sc) - 1
        /\ \A i \in 1..(Len(sc) - 1) : new[i] = sc[i]
    BY FrontParts
  <1>2. ASSUME NEW i \in 1..Len(new) PROVE i \in 1..Len(sc) /\ new[i] = sc[i]
    BY <1>1
  <1> QED
    BY <1>2 DEF ScopesExist

\* An empty scope more.
LEMMA ScopesExistMore ==
    ASSUME NEW ds, NEW gl, NEW sc \in Seq(Scopes), ScopesExist(sc, ds, gl),
           NEW new, new = Append(sc, <<>>)
    PROVE  ScopesExist(new, ds, gl)
  <1> DEFINE x == <<>>
  <1>1. x \in Scopes /\ DOMAIN x = {}
    <2>1. x \in [{} -> TypesNil] /\ {} \in SUBSET Names
      OBVIOUS
    <2> QED
      BY <2>1 DEF Scopes
  <1>2. new = Append(sc, x)
    OBVIOUS
  <1> HIDE DEF x
  <1>3. Opened(sc, x, new) /\ Len(sc) \in Nat
    BY <1>1, <1>2, AppendedScopes, LenProperties
  <1>4. ASSUME NEW i \in 1..Len(new) PROVE \A n \in DOMAIN new[i] : ExistsIn(new[i][n], ds, gl)
    <2>1. CASE i \in 1..Len(sc)
      BY <1>3, <2>1 DEF Opened, ScopesExist
    <2>2. CASE i = Len(sc) + 1
      BY <1>1, <1>3, <2>2 DEF Opened
    <2> QED
      BY <1>3, <2>1, <2>2 DEF Opened
  <1> QED
    BY <1>4 DEF ScopesExist

\* A local variable has a type that exists.
LEMMA ScopesExistDeclared ==
    ASSUME NEW ds, NEW gl, NEW sc \in Seq(Scopes), sc # <<>>, ScopesExist(sc, ds, gl),
           NEW x, NEW t, ExistsIn(t, ds, gl), NEW new, new = Declared(sc, x, t)
    PROVE  ScopesExist(new, ds, gl)
  <1> DEFINE n == Len(sc)
             f == Extend(sc[n], x, t)
  <1>1. n \in Nat \ {0} /\ DOMAIN sc = 1..n
    BY FrontParts, LenProperties
  <1>2. n \in 1..n
    BY <1>1
  <1>3. new = [sc EXCEPT ![n] = f]
    BY DEF Declared
  <1>4. \A y \in DOMAIN f : ExistsIn(f[y], ds, gl)
    <2>1. DOMAIN f = DOMAIN sc[n] \cup {x} /\ \A y \in DOMAIN f : f[y] = IF y = x THEN t ELSE sc[n][y]
      BY DEF Extend
    <2>2. \A y \in DOMAIN sc[n] : ExistsIn(sc[n][y], ds, gl)
      BY <1>2 DEF ScopesExist
    <2> HIDE DEF f, n
    <2> QED
      BY <2>1, <2>2
  <1> HIDE DEF f, n
  <1>5. DOMAIN new = 1..n /\ new[n] = f /\ \A i \in 1..n : i # n => new[i] = sc[i]
    BY <1>1, <1>2, <1>3
  <1>6. \A i \in 1..n : \A y \in DOMAIN new[i] : ExistsIn(new[i][y], ds, gl)
    <2> TAKE i \in 1..n
    <2>1. CASE i = n
      BY <1>4, <1>5, <2>1
    <2>2. CASE i # n
      <3>1. new[i] = sc[i] /\ i \in 1..Len(sc)
        BY <1>5, <2>2 DEF n
      <3> QED
        BY <3>1 DEF ScopesExist
    <2> QED
      BY <2>1, <2>2
  <1>7. Len(new) = n
    <2>1. \A i \in 1..n : sc[i] \in Scopes
      BY ElementOfSeq DEF n
    <2>2. sc \in [1..n -> Scopes]
      BY <1>1, <2>1
    <2>3. new \in [1..n -> Scopes \cup {f}]
      BY <1>3, <2>2
    <2>4. new \in Seq(Scopes \cup {f})
      BY <1>1, <2>3
    <2> QED
      BY <1>1, <1>5, <2>4, LenProperties
  <1> QED
    BY <1>6, <1>7 DEF ScopesExist

\* A block begins, and ends.
LEMMA BlocksAnnotated ==
    ASSUME Checking, Annotated, CheckBlock \/ EndBlock
    PROVE  Annotated2
  <1>1. Plain /\ walk # <<>>
    BY PlainItem DEF CheckBlock, EndBlock
  <1>2. /\ scopes \in Seq(Scopes) /\ scopes # <<>> /\ ScopesExist(scopes, decls, global)
        /\ ExistsIn(got, decls, global)
    BY <1>1, AnnotatedParts
  <1>3. CASE CheckBlock
    <2> DEFINE x == [do |-> "stmts", outer |-> scopes]
               s == <<x>>
    <2>1. /\ scopes' = Append(scopes, <<>>) /\ Push(s) /\ got' = got /\ errs' = errs
          /\ UNCHANGED <<decls, pass, next, global>>
      BY <1>3 DEF CheckBlock
    <2>2. ItemTame(x, decls, global, errs)
      BY TameItems
    <2> HIDE DEF x
    <2>3. s \in Seq({x}) /\ \A y \in {x} : ItemTame(y, decls, global, errs')
      BY <2>1, <2>2, ShortSequences
    <2> HIDE DEF s
    <2>4. \A new : new = Append(scopes, <<>>) => ScopesExist(new, decls, global)
      BY <1>2, ScopesExistMore
    <2>5. ScopesExist(scopes', decls, global) /\ ExistsIn(got', decls, global) /\ (errs => errs')
      BY <1>2, <2>1, <2>4
    <2> QED
      BY <1>1, <2>1, <2>3, <2>5, TamePush
  <1>4. CASE EndBlock
    <2> DEFINE s == <<>>
               S == {}
    <2>1. /\ scopes' = Front(scopes) /\ Push(s) /\ got' = NoType /\ errs' = errs
          /\ UNCHANGED <<decls, pass, next, global>>
      BY <1>4 DEF EndBlock
    <2>2. s \in Seq(S) /\ \A y \in S : ItemTame(y, decls, global, errs')
      OBVIOUS
    <2> HIDE DEF s, S
    <2>3. \A new : new = Front(scopes) => ScopesExist(new, decls, global)
      BY <1>2, ScopesExistLess
    <2>4. ScopesExist(scopes', decls, global) /\ ExistsIn(got', decls, global) /\ (errs => errs')
      BY <2>1, <2>3 DEF ExistsIn
    <2> QED
      BY <1>1, <2>1, <2>2, <2>4, TamePush
  <1> QED
    BY <1>3, <1>4

\* A local variable.
LEMMA DeclareLocalAnnotated ==
    ASSUME Checking, Annotated, DeclareLocal
    PROVE  Annotated2
  <1> DEFINE s == <<>>
             S == {}
  <1>1. /\ Plain /\ walk # <<>> /\ Top.do = "declare"
    BY PlainItem DEF DeclareLocal
  <1>2. /\ scopes \in Seq(Scopes) /\ scopes # <<>> /\ ScopesExist(scopes, decls, global)
        /\ ExistsIn(got, decls, global) /\ ExistsIn(Top.type, decls, global)
    BY <1>1, AnnotatedParts DEF ItemFine
  <1>3. /\ Push(s) /\ got' = got /\ (errs => errs') /\ UNCHANGED <<decls, pass, next, global>>
        /\ scopes' = scopes \/ scopes' = Declared(scopes, Top.name, Top.type)
    BY DEF DeclareLocal, Declared
  <1>4. s \in Seq(S) /\ \A y \in S : ItemTame(y, decls, global, errs')
    OBVIOUS
  <1> HIDE DEF s, S
  <1>5. \A new : new = Declared(scopes, Top.name, Top.type) => ScopesExist(new, decls, global)
    BY <1>2, ScopesExistDeclared
  <1>6. ScopesExist(scopes', decls, global) /\ ExistsIn(got', decls, global)
    BY <1>2, <1>3, <1>5
  <1> QED
    BY <1>1, <1>3, <1>4, <1>6, TamePush

\* A statement of up to four parts.
LEMMA TameStatements ==
    ASSUME Checking, Annotated, NEW x, ItemTame(x, decls, global, errs),
           NEW y, ItemTame(y, decls, global, errs), NEW z, ItemTame(z, decls, global, errs),
           NEW u, ItemTame(u, decls, global, errs),
           \/ Statement(<<x>>) \/ Statement(<<x, y>>) \/ Statement(<<x, y, z>>)
           \/ Statement(<<x, y, z, u>>)
    PROVE  Annotated2
  <1> DEFINE S == {x, y, z, u}
  <1>1. /\ <<x>> \in Seq(S) /\ <<x, y>> \in Seq(S) /\ <<x, y, z>> \in Seq(S)
        /\ <<x, y, z, u>> \in Seq(S)
    OBVIOUS
  <1>2. \A i \in S : ItemTame(i, decls, global, errs)
    OBVIOUS
  <1> HIDE DEF S
  <1>3. ASSUME NEW s \in Seq(S), Statement(s) PROVE Annotated2
    <2>1. /\ AtItem("stmts") /\ walk' = s \o walk /\ got' = NoType /\ Keep /\ errs' = errs
      BY <1>3 DEF Statement
    <2>2. /\ (errs => errs') /\ \A i \in S : ItemTame(i, decls, global, errs')
      BY <1>2, <2>1
    <2> QED
      BY <2>1, <2>2, TameStatement
  <1> QED
    BY <1>1, <1>3

\* Those that keep no type.
LEMMA StatementsAnnotated ==
    ASSUME Checking, Annotated, CheckCompound \/ CheckSimple \/ CheckBranch
    PROVE  Annotated2
  <1>1. /\ \A want, form : ItemTame(ExprOf(want, form), decls, global, errs)
        /\ \A want : ItemTame(Wanting(want), decls, global, errs)
        /\ \A name \in PlainItems : ItemTame(Item(name), decls, global, errs)
        /\ \A bad : ItemTame(Verdict(bad), decls, global, errs)
    BY TameItems
  <1>2. {"block", "cond", "else", "loop", "assign", "call"} \subseteq PlainItems
    BY DEF PlainItems
  <1> DEFINE b == Item("block")
             w == Wanting(NoType)
             c == Item("cond")
             e == Item("else")
             l == Item("loop")
             x == ExprOf(NoType, "lvalue")
             a == Item("assign")
             i == Item("call")
             v == Verdict(loops = 0)
  <1>3. /\ ItemTame(b, decls, global, errs) /\ ItemTame(w, decls, global, errs)
        /\ ItemTame(c, decls, global, errs) /\ ItemTame(e, decls, global, errs)
        /\ ItemTame(l, decls, global, errs) /\ ItemTame(x, decls, global, errs)
        /\ ItemTame(a, decls, global, errs) /\ ItemTame(i, decls, global, errs)
        /\ ItemTame(v, decls, global, errs)
    BY <1>1, <1>2
  <1>4. \/ Statement(<<b>>) \/ Statement(<<w, c, b, e>>) \/ Statement(<<w, c, l>>)
        \/ Statement(<<x, a>>) \/ Statement(<<i>>) \/ Statement(<<v>>)
    BY DEF CheckCompound, CheckSimple, CheckBranch
  <1> HIDE DEF b, w, c, e, l, x, a, i, v
  <1> QED
    BY <1>3, <1>4, TameStatements

\* A return has the type of the function.
LEMMA ReturnAnnotated ==
    ASSUME Checking, Annotated, CheckReturn
    PROVE  Annotated2
  <1> DEFINE r == decls[next].ret
             w == Wanting(r)
             u == Typed("use", r)
             v == Verdict(r # NoType)
             y == Verdict(TRUE)
  <1>1. \/ Statement(<<v>>)
        \/ Statement(<<y>>)
        \/ r # NoType /\ Statement(<<w, u>>)
    BY DEF CheckReturn
  <1>2. /\ ItemTame(w, decls, global, errs) /\ ItemTame(v, decls, global, errs)
        /\ ItemTame(y, decls, global, errs)
    BY TameItems
  <1>3. r # NoType => ItemTame(u, decls, global, errs)
    <2>1. r # NoType => Fine(r, errs)
      BY DEF Fine
    <2> HIDE DEF r
    <2> QED
      BY <2>1, TameItems
  <1> HIDE DEF r, w, u, v, y
  <1> QED
    BY <1>1, <1>2, <1>3, TameStatements

\* The parts of an if and a while.
LEMMA CompoundAnnotated ==
    ASSUME Checking, Annotated, CheckElse \/ CountLoop
    PROVE  Annotated2
  <1> DEFINE w == Wanting(NoType)
             c == Item("cond")
             b == Item("block")
             e == Item("else")
             l == Item("endLoop")
             none == <<>>
             one == <<b>>
             all == <<w, c, b, e>>
             loop == <<b, l>>
             S == {w, c, b, e, l}
  <1>1. Plain /\ walk # <<>>
    BY PlainItem DEF CheckElse, CountLoop
  <1>2. \A x \in S : ItemTame(x, decls, global, errs)
    <2>1. {"block", "cond", "else", "endLoop"} \subseteq PlainItems
      BY DEF PlainItems
    <2>2. /\ \A want : ItemTame(Wanting(want), decls, global, errs)
          /\ \A name \in PlainItems : ItemTame(Item(name), decls, global, errs)
      BY TameItems
    <2> QED
      BY <2>1, <2>2
  <1> HIDE DEF w, c, b, e, l
  <1>3. none \in Seq(S) /\ one \in Seq(S) /\ all \in Seq(S) /\ loop \in Seq(S)
    OBVIOUS
  <1>4. CASE CheckElse
    <2>1. Visit(none) \/ Visit(one) \/ Visit(all)
      BY <1>4 DEF CheckElse, w, c, b, e
    <2> HIDE DEF none, one, all, S
    <2> QED
      BY <1>1, <1>2, <1>3, <2>1, TameVisit
  <1>5. CASE CountLoop
    <2>1. /\ Push(loop) \/ Push(none)
          /\ scopes' = scopes /\ got' = got /\ errs' = errs /\ UNCHANGED <<decls, pass, next, global>>
      BY <1>5 DEF CountLoop, b, l
    <2>2. ScopesExist(scopes, decls, global) /\ ExistsIn(got, decls, global)
      BY <1>1, AnnotatedParts
    <2>3. /\ ScopesExist(scopes', decls, global) /\ ExistsIn(got', decls, global) /\ (errs => errs')
          /\ \A x \in S : ItemTame(x, decls, global, errs')
      BY <1>2, <2>1, <2>2
    <2> HIDE DEF none, loop, S
    <2> QED
      BY <1>1, <1>3, <2>1, <2>3, TamePush
  <1> QED
    BY <1>4, <1>5

\* A variable is declared when its initializer has been checked, which has its
\* type.
LEMMA VarDeclAnnotated ==
    ASSUME Checking, Annotated, CheckVarDecl
    PROVE  Annotated2
  <1> DEFINE declare(name, t) == [do |-> "declare", name |-> name, type |-> t]
             value(t) == <<Wanting(t), Typed("use", t)>>
  <1>1. PICK name \in LocalNames, te \in LocalTypes, init \in BOOLEAN :
            /\ AtItem("stmts")
            /\ walk' = (IF init /\ TypeOf(te) # NoType THEN value(TypeOf(te)) ELSE <<>>)
                       \o <<declare(name, TypeOf(te))>> \o walk
            /\ errs' = (errs \/ TypeOf(te) = NoType)
            /\ got' = NoType
            /\ Keep
    BY DEF CheckVarDecl
  <1> DEFINE t == TypeOf(te)
             x == declare(name, t)
             w == Wanting(t)
             u == Typed("use", t)
             none == <<>>
             both == <<w, u>>
             v == IF init /\ t # NoType THEN both ELSE none
             one == <<x>>
             s == v \o one
             S == IF init /\ t # NoType THEN {x, w, u} ELSE {x}
  <1>2. walk' = s \o walk /\ (errs => errs')
    BY <1>1
  <1>3. ExistsIn(t, decls, global)
    BY TypeOfExists
  <1>4. ItemTame(x, decls, global, errs')
    <2> HIDE DEF t
    <2> QED
      BY <1>3, TameItems
  <1>5. ItemTame(w, decls, global, errs')
    BY TameItems
  <1>6. t # NoType => ItemTame(u, decls, global, errs')
    <2>1. t # NoType => Fine(t, errs')
      BY DEF Fine
    <2> HIDE DEF t
    <2> QED
      BY <2>1, TameItems
  <1> HIDE DEF t, x, w, u
  <1>7. \A y \in S : ItemTame(y, decls, global, errs')
    BY <1>4, <1>5, <1>6
  <1>8. s \in Seq(S)
    <2>1. ASSUME init /\ t # NoType PROVE v \in Seq(S) /\ one \in Seq(S)
      <3>1. v = both /\ S = {x, w, u}
        BY <2>1
      <3>2. both \in Seq({x, w, u}) /\ one \in Seq({x, w, u})
        OBVIOUS
      <3> QED
        BY <3>1, <3>2
    <2>2. ASSUME ~(init /\ t # NoType) PROVE v \in Seq(S) /\ one \in Seq(S)
      <3>1. v = none /\ S = {x}
        BY <2>2
      <3>2. none \in Seq({x}) /\ one \in Seq({x})
        OBVIOUS
      <3> QED
        BY <3>1, <3>2
    <2>3. v \in Seq(S) /\ one \in Seq(S)
      BY <2>1, <2>2
    <2> HIDE DEF v, one, S
    <2> QED
      BY <2>3, ConcatProperties
  <1> HIDE DEF s, S
  <1> QED
    BY <1>1, <1>2, <1>7, <1>8, TameStatement

\* An assignment goes on with the value, where the place has a type.
LEMMA AssignAnnotated ==
    ASSUME Checking, Annotated, Assign
    PROVE  Annotated2
  <1>1. AtItem("assign") /\ Visit(<<Wanting(got), Typed("use", got)>>)
    BY DEF Assign
  <1>2. Plain /\ Top.do = "assign" /\ walk # <<>>
    BY <1>1, PlainItem
  <1>3. Fine(got, errs)
    <2>1. Sound
      BY <1>2, AnnotatedParts
    <2>2. Top.do \notin EndItems /\ Top.do \in Consumers
      BY <1>2 DEF EndItems, Consumers
    <2> QED
      BY <1>2, <2>1, <2>2, TopParts
  <1> DEFINE w == Wanting(got)
             u == Typed("use", got)
  <1>4. ItemTame(w, decls, global, errs) /\ ItemTame(u, decls, global, errs)
    BY <1>3, TameItems
  <1>5. Visit(<<w, u>>)
    BY <1>1
  <1> HIDE DEF w, u
  <1> QED
    BY <1>2, <1>4, <1>5, TameVisits

\* What returns nothing.
LEMMA EndsAnnotated ==
    ASSUME Checking, Annotated, Report \/ Use \/ CheckCond
    PROVE  Annotated2
  <1>1. Plain
    BY PlainItem DEF Report, Use, CheckCond
  <1>2. \E bad : Yield(NoType, bad)
    BY DEF Report, Use, CheckCond
  <1>3. ExistsIn(NoType, decls, global)
    BY DEF ExistsIn
  <1> QED
    BY <1>1, <1>2, <1>3, TameYield

-----------------------------------------------------------------------------
(* Types and literals of the checker as a whole. *)

\* There is nothing to be done, and no variable.
LEMMA NothingAnnotated ==
    ASSUME NEW ds \in Files, NEW ps, NEW nx, NEW gl, NEW gt, NEW er, ExistsIn(gt, ds, gl),
           ps = "done" => nx = 1, ps = "declare" => gt = NoType,
           \A name \in DOMAIN gl : ds[gl[name]].name = name
    PROVE  AnnotatedOK(ds, ps, nx, gl, <<>>, <<>>, gt, er)
  <1> DEFINE e == <<>>
  <1>1. Len(e) = 0
    BY EmptySeq
  <1> HIDE DEF e
  <1>2. ScopesExist(e, ds, gl) /\ ItemsFine(e, gt, ds, gl, er)
    BY <1>1 DEF ScopesExist, ItemsFine
  <1>3. AnnotatedOK(ds, ps, nx, gl, e, e, gt, er)
    BY <1>2 DEF AnnotatedOK
  <1> QED
    BY <1>3 DEF e

\* Where the next declaration or the next pass begins.
LEMMA PassGoesOn ==
    ASSUME NEW after, Advances(after)
    PROVE  \/ pass' = pass /\ next' = next + 1
           \/ pass' = after /\ next' = 1
  BY DEF Advances

\* Names are declared, and looked at.
LEMMA ResolveAnnotated ==
    ASSUME Checking, Annotated,
           DeclareGlobal \/ ResolveSignature \/ CheckMain \/ CheckExports
    PROVE  Annotated2
  <1>1. Resolving /\ pass \in {"declare", "signatures", "main", "exports"}
    BY DEF DeclareGlobal, ResolveSignature, CheckMain, CheckExports
  <1>2. walk = <<>> /\ scopes = <<>>
    BY <1>1, BetweenBodies
  <1>3. decls' = decls /\ scopes' = <<>> /\ walk' = <<>> /\ got' = got
    BY <1>1, <1>2 DEF Resolving
  <1>4. /\ decls \in Files /\ ExistsIn(got, decls, global) /\ (pass = "declare" => got = NoType)
        /\ \A name \in DOMAIN global : decls[global[name]].name = name
    BY DEF Annotated, AnnotatedOK
  <1>5. ASSUME NEW ps, NEW nx, NEW gl, NEW er, ExistsIn(got, decls, gl),
               ps = "done" => nx = 1, ps = "declare" => got = NoType,
               \A name \in DOMAIN gl : decls[gl[name]].name = name,
               ps = pass', nx = next', gl = global', er = errs'
        PROVE  Annotated2
    <2>1. AnnotatedOK(decls, ps, nx, gl, <<>>, <<>>, got, er)
      BY <1>4, <1>5, NothingAnnotated
    <2>2. AnnotatedOK(decls', pass', next', global', scopes', walk', got', errs')
      BY <1>3, <1>5, <2>1
    <2> QED
      BY <2>2 DEF Annotated2
  <1>6. CASE DeclareGlobal
    <2>1. /\ pass = "declare" /\ Advances("signatures")
          /\ global' = global \/ global' = Extend(global, decls[next].name, next)
      BY <1>6 DEF DeclareGlobal
    <2>2. pass' \in {"declare", "signatures"}
      BY <2>1, PassGoesOn
    <2>3. \A gl : ExistsIn(got, decls, gl)
      BY <1>4, <2>1 DEF ExistsIn
    <2>4. ASSUME NEW gl, gl = Extend(global, decls[next].name, next)
          PROVE  \A name \in DOMAIN gl : decls[gl[name]].name = name
      BY <1>4, <2>4 DEF Extend
    <2>5. \A name \in DOMAIN global' : decls[global'[name]].name = name
      BY <1>4, <2>1, <2>4
    <2>6. pass' # "done" /\ got = NoType /\ ExistsIn(got, decls, global')
      BY <1>4, <2>1, <2>2, <2>3
    <2> QED
      BY <1>5, <2>5, <2>6
  <1>7. CASE ResolveSignature \/ CheckMain \/ CheckExports
    <2>1. global' = global
      BY <1>7 DEF ResolveSignature, CheckMain, CheckExports
    <2>2. pass' # "declare" /\ (pass' = "done" => next' = 1)
      <3>1. CASE ResolveSignature
        <4>1. pass = "signatures" /\ Advances("main")
          BY <3>1 DEF ResolveSignature
        <4> QED
          BY <4>1, PassGoesOn
      <3>2. CASE CheckMain
        BY <3>2 DEF CheckMain
      <3>3. CASE CheckExports
        <4>1. pass = "exports" /\ next' = next /\ pass' \in {"done", "bodies"}
          BY <3>3 DEF CheckExports
        <4>2. next = 1
          BY <4>1 DEF Checking, CheckOK, ResolveOK
        <4> QED
          BY <4>1, <4>2
      <3> QED
        BY <1>7, <3>1, <3>2, <3>3
    <2>3. /\ ExistsIn(got, decls, global')
          /\ \A name \in DOMAIN global' : decls[global'[name]].name = name
      BY <1>4, <2>1
    <2> QED
      BY <1>5, <2>2, <2>3
  <1> QED
    BY <1>6, <1>7

\* A body begins with the parameters, whose types exist.
LEMMA CheckFuncAnnotated ==
    ASSUME Checking, Annotated, CheckFunc
    PROVE  Annotated2
  <1> DEFINE p == decls[next].params
             c(n) == CHOOSE i \in DOMAIN p : p[i].name = n
             f == [n \in {p[i].name : i \in DOMAIN p} |-> p[c(n)].type]
             x == Item("block")
             y == Item("endFunc")
             s == <<x, y>>
             none == <<>>
  <1>1. /\ pass = "bodies" /\ HasBody(decls[next]) /\ walk' = s /\ scopes' = <<f>>
        /\ UNCHANGED <<decls, pass, next, global, got>>
    BY DEF CheckFunc
  <1>2. /\ decls \in Seq(Declarations) /\ next \in 1..Len(decls)
        /\ Exist(decls, global, Len(decls)) /\ decls[next].kind = "func"
    BY <1>1, BodiesParts DEF HasBody
  <1>3. /\ decls \in Files /\ ExistsIn(got, decls, global)
        /\ \A name \in DOMAIN global : decls[global[name]].name = name
    BY DEF Annotated, AnnotatedOK
  <1>4. \A n \in DOMAIN f : ExistsIn(f[n], decls, global)
    <2>1. \A k \in DOMAIN p : ExistsIn(p[k].type, decls, global)
      BY <1>2, FunctionExists
    <2>2. ASSUME NEW n \in {p[i].name : i \in DOMAIN p} PROVE c(n) \in DOMAIN p
      OBVIOUS
    <2> HIDE DEF p, c
    <2> QED
      BY <2>1, <2>2
  <1> HIDE DEF f
  <1>5. ASSUME NEW sc, sc = <<f>> PROVE ScopesExist(sc, decls, global)
    <2>1. Len(sc) = 1 /\ sc[1] = f
      BY <1>5
    <2>2. \A i \in 1..1 : i = 1
      OBVIOUS
    <2> QED
      BY <1>4, <2>1, <2>2 DEF ScopesExist
  <1>6. \A er : ItemTame(x, decls, global, er) /\ ItemTame(y, decls, global, er)
    <2>1. {"block", "endFunc"} \subseteq PlainItems
      BY DEF PlainItems
    <2>2. \A er : \A name \in PlainItems : ItemTame(Item(name), decls, global, er)
      BY TameItems
    <2> QED
      BY <2>1, <2>2
  <1> HIDE DEF x, y
  <1>7. s \in Seq({x, y})
    BY ShortSequences
  <1> HIDE DEF s
  <1>8. \A er : ItemsTame(none, decls, global, er)
    <2>1. none \in Seq(CheckerItems) /\ Len(none) = 0
      BY EmptySeq
    <2> HIDE DEF none
    <2> QED
      BY <2>1 DEF ItemsTame
  <1>9. s \o none = s
    BY <1>7, ConcatEmptySeq
  <1> HIDE DEF none
  <1>10. \A er : ItemsFine(s \o none, got, decls, global, er)
    <2> TAKE er
    <2>1. (er => er) /\ \A i \in {x, y} : ItemTame(i, decls, global, er)
      BY <1>6
    <2> QED
      BY <1>7, <1>8, <2>1, TameWalk
  <1>11. \A er : ItemsFine(s, got, decls, global, er)
    BY <1>9, <1>10
  <1>12. \A sc, er : sc = <<f>> => AnnotatedOK(decls, "bodies", next, global, sc, s, got, er)
    BY <1>3, <1>5, <1>11 DEF AnnotatedOK
  <1>13. AnnotatedOK(decls', pass', next', global', scopes', walk', got', errs')
    BY <1>1, <1>12
  <1> QED
    BY <1>13 DEF Annotated2

\* A body ends, or there is none.
LEMMA FunctionAnnotated ==
    ASSUME Checking, Annotated, EndFunc \/ CheckNoBody
    PROVE  Annotated2
  <1>1. /\ pass = "bodies" /\ Advances("done") /\ decls' = decls /\ global' = global
        /\ got' \in {got, NoType} /\ walk' = <<>> /\ scopes' = <<>>
    <2>1. CASE EndFunc
      BY <2>1 DEF EndFunc, AtItem
    <2>2. CASE CheckNoBody
      <3>1. walk = <<>> /\ walk' = walk /\ scopes' = scopes
        BY <2>2 DEF CheckNoBody
      <3>2. scopes = <<>>
        BY <3>1, BetweenBodies
      <3> QED
        BY <2>2, <3>1, <3>2 DEF CheckNoBody
    <2> QED
      BY <2>1, <2>2
  <1>2. /\ decls \in Files /\ ExistsIn(got, decls, global)
        /\ \A name \in DOMAIN global : decls[global[name]].name = name
    BY DEF Annotated, AnnotatedOK
  <1>3. pass' # "declare" /\ (pass' = "done" => next' = 1)
    BY <1>1, PassGoesOn
  <1>4. ExistsIn(got', decls, global)
    BY <1>1, <1>2 DEF ExistsIn
  <1>5. \A ps, nx, gt, er : ExistsIn(gt, decls, global) /\ ps # "declare" /\ (ps = "done" => nx = 1)
            => AnnotatedOK(decls, ps, nx, global, <<>>, <<>>, gt, er)
    BY <1>2, NothingAnnotated
  <1>6. AnnotatedOK(decls, pass', next', global, <<>>, <<>>, got', errs')
    BY <1>3, <1>4, <1>5
  <1>7. AnnotatedOK(decls', pass', next', global', scopes', walk', got', errs')
    BY <1>1, <1>6
  <1> QED
    BY <1>7 DEF Annotated2

\* A step of the checker.
LEMMA CheckNextAnnotated ==
    ASSUME Checking, Annotated, CheckNext
    PROVE  Annotated2
  <1>1. CASE DeclareGlobal \/ ResolveSignature \/ CheckMain \/ CheckExports
    BY <1>1, ResolveAnnotated
  <1>2. CASE CheckFunc \/ EndFunc \/ CheckNoBody
    BY <1>2, CheckFuncAnnotated, FunctionAnnotated
  <1>3. CASE CheckBlock \/ EndBlock \/ CheckCompound \/ CheckElse \/ CountLoop
    BY <1>3, BlocksAnnotated, StatementsAnnotated, CompoundAnnotated
  <1>4. CASE CheckVarDecl \/ DeclareLocal \/ CheckSimple \/ Assign \/ CheckReturn \/ CheckBranch
    BY <1>4, VarDeclAnnotated, DeclareLocalAnnotated, StatementsAnnotated, AssignAnnotated,
       ReturnAnnotated
  <1>5. CASE Report \/ Use \/ CheckCond
    BY <1>5, EndsAnnotated
  <1>6. CASE CheckIntLit \/ CheckOtherLit \/ CheckIdent \/ CheckParen
    BY <1>6, LiteralsAnnotated, LeavesAnnotated
  <1>7. CASE CheckUnary \/ FinishUnary \/ CheckLogical \/ CheckOperandPair
    BY <1>7, UnaryAnnotated, FinishUnaryAnnotated, LogicalAnnotated
  <1>8. CASE SecondOperand \/ FinishBinary \/ CheckCast \/ CheckCall \/ Called
    BY <1>8, BinaryAnnotated, CastAnnotated, CallAnnotated
  <1>9. CASE CheckIndex \/ CheckField \/ CheckStructLit \/ CheckInits
    BY <1>9, IndexAnnotated, FieldAnnotated, StructLitAnnotated, InitsAnnotated
  <1> QED
    BY <1>1, <1>2, <1>3, <1>4, <1>5, <1>6, <1>7, <1>8, <1>9 DEF CheckNext

\* The inductive invariant, with CheckerInv.
AnnotatedInv(stg, ds, ps, nx, gl, sc, wk, gt, er) ==
    stg = "check" => AnnotatedOK(ds, ps, nx, gl, sc, wk, gt, er)
CheckerState == CheckerInv(stage, decls, pass, next, global, scopes, loops, walk, got, errs)
AnnotatedState == AnnotatedInv(stage, decls, pass, next, global, scopes, walk, got, errs)

\* A file is given to the checker.
LEMMA StartAnnotated ==
    ASSUME CheckerState, StartChecker
    PROVE  Annotated2
  <1>1. /\ stage = "parse" /\ decls' \in Files
        /\ pass' = IF decls' = <<>> THEN "main" ELSE "declare"
        /\ UNCHANGED <<next, global, scopes, loops, walk, got, errs>>
    BY DEF StartChecker
  <1>2. /\ next' = 1 /\ global' = <<>> /\ scopes' = <<>> /\ walk' = <<>> /\ got' = NoType
    BY <1>1 DEF CheckerInv, CheckerState
  <1> DEFINE gl == <<>>
  <1>3. DOMAIN gl = {}
    OBVIOUS
  <1> HIDE DEF gl
  <1>4. \A ds \in Files : \A ps, er : AnnotatedOK(ds, ps, 1, gl, <<>>, <<>>, NoType, er)
    <2>1. \A ds : ExistsIn(NoType, ds, gl)
      BY DEF ExistsIn
    <2> QED
      BY <1>3, <2>1, NothingAnnotated
  <1>5. AnnotatedOK(decls', pass', 1, gl, <<>>, <<>>, NoType, errs')
    BY <1>1, <1>4
  <1>6. AnnotatedOK(decls', pass', next', global', scopes', walk', got', errs')
    BY <1>2, <1>5 DEF gl
  <1> QED
    BY <1>6 DEF Annotated2

\* Every step keeps it.
LEMMA AnnotatedInvNext ==
    ASSUME CheckerState, AnnotatedState, [Next]_vars
    PROVE  AnnotatedInv(stage', decls', pass', next', global', scopes', walk', got', errs')
  <1> DEFINE OK == AnnotatedInv(stage', decls', pass', next', global', scopes', walk', got', errs')
  <1>1. ASSUME stage' = stage, UNCHANGED checkVars PROVE OK
    BY <1>1 DEF checkVars, AnnotatedState
  <1>2. ASSUME stage' # "check" PROVE OK
    BY <1>2 DEF AnnotatedInv
  <1>3. ASSUME Annotated2 PROVE OK
    BY <1>3 DEF Annotated2, AnnotatedInv
  <1>4. CASE UNCHANGED vars \/ Ended
    BY <1>1, <1>4 DEF Ended, vars, OK
  <1>5. CASE Lex \/ Parse
    BY <1>1, <1>5 DEF Lex, Parse, OK
  <1>6. CASE StartParser \/ StartGenerator \/ Fail
    <2>1. stage' # "check"
      BY <1>6 DEF StartParser, StartGenerator, Fail
    <2> QED
      BY <1>2, <2>1 DEF OK
  <1>7. CASE StartChecker
    BY <1>3, <1>7, StartAnnotated DEF OK
  <1>8. CASE Check
    <2>1. stage = "check" /\ CheckNext
      BY <1>8 DEF Check
    <2>2. Checking /\ Annotated
      BY <2>1 DEF Checking, CheckerInv, Annotated, AnnotatedInv, CheckerState, AnnotatedState
    <2> QED
      BY <1>3, <2>1, <2>2, CheckNextAnnotated DEF OK
  <1> QED
    BY <1>4, <1>5, <1>6, <1>7, <1>8 DEF Next, OK

\* It holds at every step.
LEMMA AnnotatedInvariant ==
    Spec => [](CheckerState /\ AnnotatedState)
  <1>1. Init => CheckerState /\ AnnotatedState
    <2>1. ASSUME Init PROVE CheckerState
      BY <2>1, CheckerInvInit DEF CheckerState
    <2>2. ASSUME Init PROVE AnnotatedState
      BY <2>2 DEF Init, AnnotatedState, AnnotatedInv
    <2> QED
      BY <2>1, <2>2
  <1>2. CheckerState /\ AnnotatedState /\ [Next]_vars => CheckerState' /\ AnnotatedState'
    <2>1. ASSUME CheckerState, AnnotatedState, [Next]_vars PROVE CheckerState'
      BY <2>1, CheckerInvNext DEF CheckerState
    <2>2. ASSUME CheckerState, AnnotatedState, [Next]_vars PROVE AnnotatedState'
      BY <2>2, AnnotatedInvNext DEF AnnotatedState
    <2> QED
      BY <2>1, <2>2
  <1> QED
    BY <1>1, <1>2, PTL DEF Spec

\* No declaration has the name of a scalar type.
LEMMA ScalarsAreNoStructs ==
    ASSUME Checking, Annotated, pass = "bodies", NEW t, t.leaf \in ScalarTypes
    PROVE  ~IsStruct(t)
  <1>1. /\ decls \in Seq(Declarations) /\ Indexed(decls, global, Len(decls)) /\ decls \in Files
    BY BodiesParts DEF Annotated, AnnotatedOK
  <1>2. ASSUME KindIn(t.leaf, decls, global) = "struct" PROVE FALSE
    <2>1. t.leaf \in DOMAIN global
      BY <1>2 DEF KindIn
    <2>2. global[t.leaf] \in 1..Len(decls) /\ decls[global[t.leaf]].name = t.leaf
      BY <1>1, <2>1, GlobalName
    <2>3. \A i \in 1..Len(decls) : decls[i].name \notin ScalarTypes
      <3>1. DOMAIN decls = 1..Len(decls)
        BY <1>1, LenProperties
      <3> QED
        BY <1>1, <3>1, FilesOK
    <2> QED
      BY <2>2, <2>3
  <1> QED
    BY <1>2 DEF IsStruct, KindOf, KindIn

\* Only FinishBinary works on a pair, and only Use on a value that has come.
LEMMA WhoseItem ==
    ASSUME CheckNext
    PROVE  (AtItem("pair") => FinishBinary) /\ (AtItem("use") => Use)
  <1> SUFFICES ASSUME walk # <<>>, pass = "bodies", NEW name \in {"pair", "use"}, Top.do = name
               PROVE  (name = "pair" => FinishBinary) /\ (name = "use" => Use)
    BY DEF AtItem
  <1>1. \A other : AtItem(other) => other = name
    BY DEF AtItem
  <1>2. \A forms : ~AtExpr(forms)
    BY <1>1 DEF AtExpr
  <1>3. ~(DeclareGlobal \/ ResolveSignature \/ CheckMain \/ CheckExports)
    BY DEF DeclareGlobal, ResolveSignature, CheckMain, CheckExports
  <1>4. ~(CheckFunc \/ CheckNoBody \/ EndFunc)
    BY <1>1 DEF CheckFunc, EndFunc, CheckNoBody
  <1>5. \A s : ~Statement(s)
    BY <1>1 DEF Statement
  <1>6. ~(CheckBlock \/ EndBlock \/ CheckElse \/ CountLoop \/ DeclareLocal \/ Assign)
    BY <1>1 DEF CheckBlock, EndBlock, CheckElse, CountLoop, DeclareLocal, Assign
  <1>7. ~(CheckCompound \/ CheckSimple \/ CheckReturn \/ CheckBranch \/ CheckVarDecl)
    BY <1>1, <1>5 DEF CheckCompound, CheckSimple, CheckReturn, CheckBranch, CheckVarDecl
  <1>8. ~(Report \/ CheckCond)
    BY <1>1 DEF Report, CheckCond
  <1>9. ~(CheckIntLit \/ CheckOtherLit \/ CheckIdent \/ CheckParen \/ CheckUnary \/ CheckOperandPair)
    BY <1>2 DEF CheckIntLit, CheckNumber, CheckOtherLit, CheckIdent, CheckParen, CheckUnary, CheckOperandPair
  <1>10. ~(FinishUnary \/ CheckLogical \/ SecondOperand \/ CheckCast)
    BY <1>1, <1>2 DEF FinishUnary, CheckLogical, SecondOperand, CheckCast
  <1>11. ~(CheckCall \/ Called \/ CheckIndex \/ CheckField \/ CheckStructLit \/ CheckInits)
    BY <1>1, <1>2 DEF CheckCall, Called, CheckIndex, CheckField, CheckStructLit, CheckInits
  <1>12. FinishBinary \/ Use
    BY <1>3, <1>4, <1>6, <1>7, <1>8, <1>9, <1>10, <1>11 DEF CheckNext
  <1>13. ~(name = "pair" /\ Use) /\ ~(name = "use" /\ FinishBinary)
    BY <1>1 DEF Use, FinishBinary
  <1> QED
    BY <1>12, <1>13

\* The range of a scalar type has 0 in it.
LEMMA RangesHaveZero ==
    ASSUME NEW t \in ScalarTypes
    PROVE  N!MinVal(t) \in Int /\ N!MinVal(t) <= 0 /\ N!MaxVal(t) \in Nat
  <1>1. PICK f : Doubling(f)
    BY DoublingExists
  <1>2. Doubling(N!TwoTo)
    BY <1>1 DEF Doubling, N!TwoTo
  <1>3. Width[t] - 1 \in Nat /\ Width[t] \in Nat \ {0}
    BY FilesOK
  <1> DEFINE half == N!TwoTo[Width[t] - 1]
  <1>4. half \in Nat \ {0} /\ N!Modulus[t] = 2 * half
    BY <1>2, <1>3, DoublingValues DEF N!Modulus
  <1> HIDE DEF half
  <1>5. N!Modulus[t] \div 2 = half
    BY <1>4
  <1> QED
    BY <1>4, <1>5 DEF N!MinVal, N!MaxVal

\* A literal that is not reported is a number of the type it takes (checkFit).
LEMMA NumberInRange ==
    ASSUME NEW v \in Magnitudes, NEW neg \in BOOLEAN, CheckNumber(v, neg), ~errs'
    PROVE  IsInteger(got') /\ (IF neg THEN -v ELSE v) \in N!Values(got'.leaf)
  <1> DEFINE t == LitType(Top.want)
  <1>1. got' = t /\ Fits(v, neg, t)
    BY DEF CheckNumber, Yield
  <1>2. IsInteger(t) /\ t.leaf \in ScalarTypes
    BY FilesOK DEF LitType, IsInteger, Named
  <1> HIDE DEF t
  <1>3. N!MinVal(t.leaf) \in Int /\ N!MinVal(t.leaf) <= 0 /\ N!MaxVal(t.leaf) \in Nat
    BY <1>2, RangesHaveZero
  <1>4. v \in Nat
    BY FilesOK
  <1> QED
    BY <1>1, <1>2, <1>3, <1>4 DEF Fits, N!Values

\* While there is something to be worked off, only the checker goes on.
LEMMA CheckerGoesOn ==
    ASSUME CheckerState, AnnotatedState, [Next]_vars, walk # <<>>
    PROVE  Checking /\ Annotated /\ pass = "bodies" /\ (CheckNext \/ UNCHANGED checkVars)
  <1>1. stage = "check"
    BY DEF CheckerState, CheckerInv
  <1>2. Checking /\ Annotated
    BY <1>1 DEF Checking, CheckerInv, Annotated, AnnotatedInv, CheckerState, AnnotatedState
  <1>3. pass = "bodies"
    BY <1>2 DEF Checking, CheckOK, WalkOK
  <1>4. CASE UNCHANGED vars
    BY <1>2, <1>3, <1>4 DEF vars
  <1>5. CASE Next
    <2>1. ~(Lex \/ StartParser \/ Parse \/ StartChecker \/ StartGenerator \/ Fail \/ Ended)
      BY <1>1, <1>3 DEF Lex, StartParser, Parse, StartChecker, StartGenerator, Fail, Ended
    <2>2. Check
      BY <1>5, <2>1 DEF Next
    <2> QED
      BY <1>2, <1>3, <2>2 DEF Check
  <1> QED
    BY <1>4, <1>5

\* What checkOperandPair and checkAssignable leave to the code generator, for
\* every program: if no error is reported at an operator, its operands have one
\* and the same type, an integer's, or a scalar's for == and !=; a literal has
\* taken the type of the integer beside it, whichever came first; and a value is
\* of the type of the variable, parameter, field or result it goes to
\* (checkBinary, checkExprWant and their callers in sema.go); and the number of a
\* literal is one of the type it took (checkFit).  A literal adopts a
\* type through signs and parentheses only, and no statement or operator comes
\* between it and the pair that waits for it.
THEOREM AnnotationsAreSound == Spec => AnnotationsSound
  <1>1. ASSUME CheckerState, AnnotatedState, [Next]_vars, walk # <<>>, ~UNCHANGED checkVars
        PROVE  /\ AtItem("pair") /\ Top.adopts /\ IsInteger(Top.type) /\ IsInteger(got)
                      => got = Top.type
               /\ AtItem("pair") /\ ~errs' =>
                      /\ got = Top.type
                      /\ Top.op # "equal" => IsInteger(got)
                      /\ ~IsStruct(got) /\ (got.wrap # <<>> => IsPointer(got))
               /\ AtItem("use") /\ ~errs' => got = Top.type /\ got # NoType
    <2>1. Checking /\ Annotated /\ pass = "bodies" /\ CheckNext
      BY <1>1, CheckerGoesOn
    <2>2. /\ Sound /\ ItemFine(Top, decls, global, errs) /\ walk \in Seq(CheckerItems)
          /\ ItemsFine(walk, got, decls, global, errs) /\ errs \in BOOLEAN
      BY <1>1, <2>1, AnnotatedParts
    <2>3. ASSUME AtItem("pair"), Top.adopts, IsInteger(Top.type), IsInteger(got)
          PROVE  got = Top.type
      <3>1. Top = walk[1] /\ 1 \in 1..Len(walk)
        BY <1>1, <2>2, HeadTail DEF Top
      <3>2. PairAdopts(walk, got, 1) /\ walk[1].do = "pair" /\ Adopts(walk[1])
        BY <2>2, <2>3, <3>1 DEF ItemsFine, AtItem, Adopts
      <3> QED
        BY <2>3, <3>1, <3>2 DEF PairAdopts
    <2>4. AtItem("pair") \/ AtItem("use") => Fine(got, errs)
      <3>1. ASSUME NEW name \in {"pair", "use"}, Top.do = name PROVE Fine(got, errs)
        <4>1. Top.do \notin EndItems /\ Top.do \in Consumers
          BY <3>1 DEF EndItems, Consumers
        <4> QED
          BY <1>1, <2>2, <4>1, TopParts
      <3> QED
        BY <3>1 DEF AtItem
    <2>5. ASSUME AtItem("pair"), ~errs'
          PROVE  /\ got = Top.type /\ (Top.op # "equal" => IsInteger(got))
                 /\ ~IsStruct(got) /\ (got.wrap # <<>> => IsPointer(got))
      <3> DEFINE both == got # NoType /\ Top.type # NoType
                 defined == CASE Top.op = "equal" -> IsInteger(got) \/ got = Bool \/ IsPointer(got)
                              [] OTHER -> IsInteger(got)
                 good == both /\ got = Top.type /\ defined
      <3>1. \E t : Yield(t, both /\ ~good)
        <4>1. FinishBinary
          BY <2>1, <2>5, WhoseItem
        <4> QED
          BY <4>1 DEF FinishBinary
      <3>2. errs' = (errs \/ (both /\ ~good))
        BY <3>1 DEF Yield
      <3>3. Fine(Top.type, errs)
        <4>1. Top.do = "pair"
          BY <2>5 DEF AtItem
        <4>2. Top.do \notin EndItems
          BY <4>1 DEF EndItems
        <4> QED
          BY <1>1, <2>2, <4>1, <4>2, TopParts
      <3>4. both
        BY <2>2, <2>4, <2>5, <3>2, <3>3 DEF Fine
      <3>5. good
        BY <2>5, <3>2, <3>4
      <3>6. \/ IsInteger(got)
            \/ Top.op = "equal" /\ (got = Bool \/ IsPointer(got))
        BY <3>5
      <3>7. "bool" \in ScalarTypes
        BY FilesOK
      <3>8. CASE IsInteger(got)
        BY <2>1, <3>5, <3>8, ScalarsAreNoStructs DEF IsInteger
      <3>9. CASE Top.op = "equal" /\ got = Bool
        <4>1. got.leaf \in ScalarTypes /\ got.wrap = <<>>
          BY <3>7, <3>9 DEF Bool, Named
        <4> QED
          BY <2>1, <3>5, <3>9, <4>1, ScalarsAreNoStructs
      <3>10. CASE Top.op = "equal" /\ IsPointer(got)
        BY <3>5, <3>10 DEF IsPointer, IsStruct
      <3> QED
        BY <3>6, <3>8, <3>9, <3>10
    <2>6. ASSUME AtItem("use"), ~errs' PROVE got = Top.type /\ got # NoType
      <3>1. Use
        BY <2>1, <2>6, WhoseItem
      <3>2. errs' = (errs \/ (got # NoType /\ Top.type # NoType /\ got # Top.type))
        BY <3>1 DEF Use, Yield
      <3>3. Fine(Top.type, errs) /\ Fine(got, errs)
        BY <2>2, <2>4, <2>6 DEF ItemFine, AtItem
      <3> QED
        BY <2>2, <2>6, <3>2, <3>3 DEF Fine
    <2> QED
      BY <2>3, <2>5, <2>6
  <1>2. ASSUME CheckerState, AnnotatedState, [Next]_vars
        PROVE  [/\ AtItem("pair") /\ Top.adopts /\ IsInteger(Top.type) /\ IsInteger(got) => got = Top.type
                /\ AtItem("pair") /\ ~errs' =>
                       /\ got = Top.type
                       /\ Top.op # "equal" => IsInteger(got)
                       /\ ~IsStruct(got) /\ (got.wrap # <<>> => IsPointer(got))
                /\ AtItem("use") /\ ~errs' => got = Top.type /\ got # NoType
                /\ \A v \in Magnitudes, neg \in BOOLEAN :
                       CheckNumber(v, neg) /\ ~errs' =>
                           /\ IsInteger(got')
                           /\ (IF neg THEN -v ELSE v) \in N!Values(got'.leaf)]_checkVars
    <2>1. AtItem("pair") \/ AtItem("use") => walk # <<>>
      BY DEF AtItem
    <2> QED
      BY <1>1, <1>2, <2>1, NumberInRange
  <1> QED
    BY <1>2, AnnotatedInvariant, PTL DEF Spec, AnnotationsSound
-----------------------------------------------------------------------------
(* The lexer within the front end. *)

\* The front end begins with a source and nothing read of it.
LEMMA LexStateInit ==
    ASSUME Init
    PROVE  LexState
  <1>1. src \in Sources /\ off = 1 /\ line = 1 /\ col = 1 /\ toks = <<>> /\ lexed = "no"
    BY DEF Init, LexInit
  <1>2. src \in Seq(Chars)
    BY <1>1, CharactersOK DEF Chars
  <1>3. LexOK(src, 1, 1, 1, <<>>, "no")
    BY <1>2, LexBegins
  <1> QED
    BY <1>1, <1>3 DEF LexState

\* Every step of the front end keeps what is known of the lexer.
LEMMA LexStateKept ==
    ASSUME LexState, [Next]_vars
    PROVE  LexStateNext
  <1>1. ASSUME UNCHANGED lexVars PROVE LexStateNext
    BY <1>1 DEF lexVars, LexState, LexStateNext
  <1>2. ASSUME LexIdle PROVE LexStateNext
    <2>1. \A C : <<>> \in Seq(C)
      BY EmptySeq
    <2>2. LexOK(<<>>, 1, 1, 1, <<>>, "no")
      BY <2>1, LexBegins
    <2> QED
      BY <1>2, <2>2 DEF LexIdle, LexStateNext
  <1>3. CASE UNCHANGED vars \/ Ended
    BY <1>1, <1>3 DEF vars, Ended
  <1>4. CASE Lex
    BY <1>4, LexNextOK DEF Lex
  <1>5. CASE StartParser \/ Fail
    BY <1>2, <1>5 DEF StartParser, Fail
  <1>6. CASE Parse \/ StartChecker \/ Check \/ StartGenerator
    BY <1>1, <1>6 DEF Parse, StartChecker, Check, StartGenerator
  <1> QED
    BY <1>3, <1>4, <1>5, <1>6 DEF Next

\* It holds at every step.
LEMMA LexInvariant == Spec => []LexState
  <1>1. Init => LexState
    BY LexStateInit
  <1>2. LexState /\ [Next]_vars => LexState'
    BY LexStateKept DEF LexState, LexStateNext
  <1> QED
    BY <1>1, <1>2, PTL DEF Spec

\* The lexer cuts a source of any length, over any letters and keywords, into
\* the longest tokens there are, with nothing but blanks and comments between
\* them; each token has its line and column, and an error is reported only
\* where no token begins (Next, skipSpaceAndComments and their scanners in
\* lexer.go).
THEOREM TokensAreExact == Spec => []TokensExact
  <1>1. LexState => TokensExact
    BY ExactTokens
  <1> QED
    BY <1>1, LexInvariant, PTL

\* They are as TokensAreDetermined takes them to be.
LEMMA TokensAreTyped == Spec => []LexerTypes
  <1>1. LexState => LexerTypes
    BY LexParts DEF LexState, LexOK, TokensOf, LexerTypes
  <1> QED
    BY <1>1, LexInvariant, PTL

-----------------------------------------------------------------------------
(* The values that the variables may have. *)

Stages == {"lex", "parse", "check", "generate", "failed"}
TokenState == stage \in Stages /\ tok \in Tokens /\ parsed \in {"no", "ok", "error"}

\* A parse function moves on to a token that may follow, or not at all.
LEMMA ParserTokens ==
    ASSUME TokenState, ParseNext
    PROVE  tok' \in Tokens /\ parsed' \in {"no", "ok", "error"}
  <1>1. "EOF" \in Tokens
    BY TokensOK
  <1>2. ASSUME UNCHANGED tok, parsed' = parsed \/ parsed' = "ok"
        PROVE  tok' \in Tokens /\ parsed' \in {"no", "ok", "error"}
    BY <1>2 DEF TokenState
  <1>3. ASSUME tok' \in Following, parsed' = parsed
        PROVE  tok' \in Tokens /\ parsed' \in {"no", "ok", "error"}
    <2>1. Following \subseteq Tokens
      BY <1>1 DEF Following
    <2> QED
      BY <1>3, <2>1 DEF TokenState
  <1>4. ASSUME tok' = "EOF", parsed' = "error"
        PROVE  tok' \in Tokens /\ parsed' \in {"no", "ok", "error"}
    BY <1>1, <1>4
  <1>5. CASE ExpectToken
    BY <1>3, <1>4, <1>5 DEF ExpectToken, ParseError
  <1>6. CASE File
    BY <1>2, <1>4, <1>6 DEF File, Expand, ParseError
  <1>7. CASE Params \/ Args \/ Inits \/ More \/ Fields \/ Result \/ VarDecl \/ VarInit
    BY <1>2, <1>7 DEF Params, Args, Inits, More, Fields, Result, VarDecl, VarInit, Expand
  <1>8. CASE Type \/ Length
    BY <1>2, <1>4, <1>8 DEF Type, Length, Expand, ParseError
  <1>9. CASE Block \/ Stmts \/ Stmt \/ If \/ Else \/ Returned \/ Simple
    BY <1>2, <1>4, <1>9 DEF Block, Stmts, Stmt, If, Else, Returned, Simple, Expand, ParseError
  <1>10. CASE Cond \/ RestoreFlag \/ FieldValue
    BY <1>2, <1>10 DEF Cond, RestoreFlag, FieldValue, Enter
  <1>11. CASE ParseExprBP \/ Build
    BY <1>2, <1>11 DEF ParseExprBP, Build, Return
  <1>12. CASE Infix \/ Name
    BY <1>2, <1>12 DEF Infix, Name, Expand
  <1>13. CASE Postfix
    BY <1>2, <1>4, <1>13 DEF Postfix, Expand, Enter, ParseError
  <1>14. CASE Primary
    BY <1>2, <1>4, <1>14 DEF Primary, Expand, Enter, ParseError
  <1> QED
    BY <1>5, <1>6, <1>7, <1>8, <1>9, <1>10, <1>11, <1>12, <1>13, <1>14 DEF ParseNext

\* The token is always one that is in use.
LEMMA TokenInvariant == Spec => []TokenState
  <1>1. "EOF" \in Tokens
    BY TokensOK
  <1>2. Init => TokenState
    BY <1>1 DEF Init, TokenState, Stages
  <1>3. ASSUME TokenState, [Next]_vars PROVE TokenState'
    <2>1. ASSUME stage' \in Stages, tok' \in Tokens, parsed' \in {"no", "ok", "error"}
          PROVE  TokenState'
      BY <2>1 DEF TokenState
    <2>2. CASE UNCHANGED vars \/ Ended \/ Lex \/ Check
      BY <1>3, <2>1, <2>2 DEF vars, Ended, Lex, Check, parseVars, TokenState
    <2>3. CASE StartParser
      BY <1>3, <2>1, <2>3 DEF StartParser, TokenState, Stages
    <2>4. CASE Parse
      BY <1>3, <2>1, <2>4, ParserTokens DEF Parse, TokenState
    <2>5. CASE StartChecker \/ Fail
      BY <1>1, <2>1, <2>5 DEF StartChecker, Fail, ParseIdle, Stages
    <2>6. CASE StartGenerator
      BY <1>3, <2>1, <2>6 DEF StartGenerator, parseVars, TokenState, Stages
    <2> QED
      BY <1>3, <2>2, <2>3, <2>4, <2>5, <2>6 DEF Next
  <1> QED
    BY <1>2, <1>3, PTL DEF Spec

\* What the lexer's variables may be.
LEMMA LexTypes ==
    ASSUME LexState
    PROVE  /\ lexed \in {"no", "ok", "error"}
           /\ off \in 1..(Len(src) + 1) /\ line \in Nat \ {0} /\ col \in Nat \ {0}
           /\ \A i \in DOMAIN toks : toks[i].kind \in TokenKinds /\ toks[i].from \in 1..toks[i].to
  <1>1. lexed \in {"no", "ok", "error"}
    BY DEF LexState, LexOK
  <1>2. line \in Nat \ {0} /\ col \in Nat \ {0}
    BY LexParts, PositionParts
  <1>3. ASSUME NEW i \in DOMAIN toks PROVE TokenParts(toks[i])
    <2>1. PICK S : toks \in Seq(S)
      BY DEF LexState, LexOK, TokensOf
    <2>2. i \in 1..Len(toks)
      BY <2>1, LenProperties
    <2> QED
      BY <2>2 DEF LexState, LexOK, TokensOf
  <1> QED
    BY <1>1, <1>2, <1>3, LexParts DEF TokenParts

\* What the checker's variables may be.
LEMMA CheckerTypes ==
    ASSUME CheckerState, AnnotatedState
    PROVE  /\ pass \in {"declare", "signatures", "main", "exports", "bodies", "done"}
           /\ decls # <<>> => next \in DOMAIN decls
           /\ \A name \in DOMAIN global : decls[global[name]].name = name
           /\ loops \in Nat /\ errs \in BOOLEAN
           /\ got = NoType \/ IsType(got)
  <1>1. CASE stage # "check"
    <2>1. /\ decls = <<>> /\ pass = "declare" /\ global = <<>> /\ loops = 0 /\ got = NoType
          /\ errs = FALSE
      BY <1>1 DEF CheckerState, CheckerInv
    <2>2. \A g : g = <<>> => DOMAIN g = {}
      OBVIOUS
    <2> QED
      BY <2>1, <2>2
  <1>2. CASE stage = "check"
    <2>1. /\ ResolveOK(decls, pass, next, global, errs)
          /\ WalkOK(decls, pass, next, global, scopes, loops, walk, got, errs)
          /\ AnnotatedOK(decls, pass, next, global, scopes, walk, got, errs)
      BY <1>2 DEF CheckerState, CheckerInv, CheckOK, AnnotatedState, AnnotatedInv
    <2>2. pass \in {"declare", "signatures", "main", "exports", "bodies", "done"}
      BY <2>1 DEF ResolveOK
    <2>3. decls # <<>> => next \in DOMAIN decls
      <3>1. decls \in Seq(Declarations)
        BY <2>1 DEF ResolveOK
      <3>2. /\ Len(decls) \in Nat /\ DOMAIN decls = 1..Len(decls)
            /\ decls # <<>> => Len(decls) # 0
        BY <3>1, LenProperties, EmptySeq
      <3>3. pass \in {"declare", "signatures", "bodies"} => next \in 1..Len(decls)
        BY <2>1 DEF ResolveOK
      <3>4. pass \in {"main", "exports", "done"} => next = 1
        BY <2>1 DEF ResolveOK, AnnotatedOK
      <3> QED
        BY <2>2, <3>2, <3>3, <3>4
    <2>4. \A name \in DOMAIN global : decls[global[name]].name = name
      BY <2>1 DEF AnnotatedOK
    <2>5. loops \in Nat /\ errs \in BOOLEAN
      BY <2>1 DEF WalkOK
    <2>6. got = NoType \/ IsType(got)
      BY <2>1 DEF AnnotatedOK, ExistsIn, TypeIn, KindIn, IsType, KindOf
    <2> QED
      BY <2>2, <2>3, <2>4, <2>5, <2>6
  <1> QED
    BY <1>1, <1>2

\* Between any two steps of the front end, however long the source and however
\* deep what is being parsed and checked: the lexer is within its source, at a
\* line and column, and holds tokens that are pieces of it; the declaration to
\* be resolved next exists, every global name leads to a declaration of that
\* name, and an expression's type, if it has one, is a type of the file
\* (lexer.go, parser.go, sema.go).
THEOREM TypeCorrect == Spec => []TypeOK
  <1>1. ASSUME LexState, TokenState, ParserInv(stage, todo, noStructLit, ret, tok),
               CheckerState, AnnotatedState
        PROVE  TypeOK
    <2>1. /\ stage \in Stages /\ tok \in Tokens /\ parsed \in {"no", "ok", "error"}
      BY <1>1 DEF TokenState
    <2>2. noStructLit \in BOOLEAN /\ ret.bp \in 0..PostfixBP
      BY <1>1 DEF ParserInv, ParserOK, PostfixBP
    <2> QED
      BY <1>1, <2>1, <2>2, LexTypes, CheckerTypes DEF TypeOK, Stages
  <1>2. Spec => []ParserInv(stage, todo, noStructLit, ret, tok)
    <2>1. Init => ParserInv(stage, todo, noStructLit, ret, tok)
      BY ParserInvInit
    <2>2. ParserInv(stage, todo, noStructLit, ret, tok) /\ [Next]_vars
              => ParserInv(stage, todo, noStructLit, ret, tok)'
      BY ParserInvNext
    <2> QED
      BY <2>1, <2>2, PTL DEF Spec
  <1> QED
    BY <1>1, <1>2, LexInvariant, TokenInvariant, AnnotatedInvariant, PTL
=============================================================================
