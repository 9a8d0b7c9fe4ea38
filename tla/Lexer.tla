------------------------------- MODULE Lexer --------------------------------
(***************************************************************************)
(* The lexer (internal/lexer/lexer.go): one pass over the source with two  *)
(* characters of lookahead.  Lex is a sequence of steps; each skips one    *)
(* blank or comment, or is a call of Next that returns a token or the      *)
(* error that ends the run.  Decoded characters and strings are left out.  *)
(***************************************************************************)
EXTENDS Integers, Sequences, FiniteSets, SequencesExt

CONSTANTS
    Sources,    \* the source texts: sequences of characters
    Letters,    \* the characters an identifier may begin with
    Keywords,   \* the spellings of keywords among them
    Digit,      \* hexadecimal digit -> its value
    LitBits     \* width of a literal's value: 64 in the code

VARIABLES
    src,
    off,        \* where the next character is, from 1
    line, col,
    toks,       \* [kind, from, to, line, col, val]; the text is src[from..to-1]
    lexed       \* "no", then "ok" or "error"

lexVars == <<src, off, line, col, toks, lexed>>

-----------------------------------------------------------------------------

Decimals == {"0", "1", "2", "3", "4", "5", "6", "7", "8", "9"} \cap DOMAIN Digit
IdentCont == Letters \cup Decimals
Blanks == {" ", "\t", "\r", "\n"}
Escapes == {"n", "t", "r", "0", "\\", "'", "\""}

\* The characters that are a token, and the pairs that are one token.
Single == {"+", "-", "*", "/", "%", "=", "!", "<", ">", "&", ".", ",", ";", ":",
           "(", ")", "[", "]", "{", "}"}
Double == {<<"-", ">">>, <<"=", "=">>, <<"!", "=">>, <<"<", "=">>, <<">", "=">>,
           <<"&", "&">>, <<"|", "|">>}

\* peek and peek2.
CharAt(i) == IF i <= Len(src) THEN src[i] ELSE "end"

\* The first place from i on whose character is not in S.
RunEnd(i, S) == CHOOSE j \in i..(Len(src) + 1) :
                    CharAt(j) \notin S /\ \A k \in i..(j - 1) : CharAt(k) \in S

\* A line ends only where a blank does: no token holds a newline.
Skip(n) ==
    /\ off' = off + n
    /\ IF CharAt(off) = "\n" THEN line' = line + 1 /\ col' = 1
                         ELSE line' = line /\ col' = col + n

Emit(kind, n, val) ==
    /\ toks' = Append(toks, [kind |-> kind, from |-> off, to |-> off + n,
                             line |-> line, col |-> col, val |-> val])
    /\ Skip(n)
    /\ UNCHANGED <<src, lexed>>

LexError == lexed' = "error" /\ UNCHANGED <<src, off, line, col, toks>>

LexIf(ok, kind, n, val) == IF ok THEN Emit(kind, n, val) ELSE LexError

-----------------------------------------------------------------------------
(* skipSpaceAndComments. *)

AtComment == CharAt(off) = "/" /\ CharAt(off + 1) = "/"

SkipBlank ==
    /\ CharAt(off) \in Blanks
    /\ Skip(1)
    /\ UNCHANGED <<src, toks, lexed>>

\* Mutant: the comment takes the newline along.
CommentEndPastLine ==
    LET e == RunEnd(off, {CharAt(k) : k \in 1..Len(src)} \ {"\n"})
    IN  IF e <= Len(src) THEN e + 1 ELSE e

\* Mutant: a slash ends a comment.
CommentEndAtSlash == RunEnd(off, {CharAt(k) : k \in 1..Len(src)} \ {"\n", "/"})

CommentEnd == RunEnd(off, {CharAt(k) : k \in 1..Len(src)} \ {"\n"})

SkipComment ==
    /\ AtComment
    /\ Skip(CommentEnd - off)
    /\ UNCHANGED <<src, toks, lexed>>

-----------------------------------------------------------------------------
(* Next. *)

EndOfFile ==
    /\ off > Len(src)
    /\ toks' = Append(toks, [kind |-> "EOF", from |-> off, to |-> off,
                             line |-> line, col |-> col, val |-> 0])
    /\ lexed' = "ok"
    /\ UNCHANGED <<src, off, line, col>>

Word ==
    /\ CharAt(off) \in Letters
    /\ LET e == RunEnd(off, IdentCont)
       IN  Emit(IF SubSeq(src, off, e - 1) \in Keywords THEN "KEYWORD" ELSE "IDENT",
                e - off, 0)

\* ParseUint, before it is compared with what LitBits bits hold.
Value(base, digits) == FoldLeft(LAMBDA v, d : v * base + Digit[d], 0, digits)

IsHexMark == CharAt(off) = "0" /\ CharAt(off + 1) \in {"x", "X"}

Hexadecimal ==
    /\ IsHexMark
    /\ LET e == RunEnd(off + 2, DOMAIN Digit)
           v == Value(16, SubSeq(src, off + 2, e - 1))
       IN  LexIf(e > off + 2 /\ v < 2 ^ LitBits, "INT", e - off, v)

Decimal ==
    /\ CharAt(off) \in Decimals /\ ~IsHexMark
    /\ LET e == RunEnd(off, Decimals)
           v == Value(10, SubSeq(src, off, e - 1))
       IN  LexIf((CharAt(off) = "0" => e = off + 1) /\ v < 2 ^ LitBits, "INT", e - off, v)

\* Where what the character literal's first quote opens ends: the place of the
\* second quote, if the literal is as it should be.
CharEnd == IF CharAt(off + 1) = "\\" THEN off + 3 ELSE off + 2

Character ==
    /\ CharAt(off) = "'"
    /\ LexIf(/\ CharAt(off + 1) \notin {"end", "\n", "'"}
             /\ CharAt(off + 1) = "\\" => CharAt(off + 2) \in Escapes
             /\ CharAt(CharEnd) = "'",
             "CHAR", CharEnd + 1 - off, 0)

\* Mutant: the backslash is skipped, what it escapes is not.
StringEndUnescaped ==
    LET end[i \in 1..(Len(src) + 2)] ==
            CASE CharAt(i) \in {"end", "\n"} -> 0
              [] CharAt(i) = "\"" -> i
              [] OTHER -> end[i + 1]
    IN  end[off + 1]

\* lexString and escape: the place of the closing quote, 0 if there is none.
StringEnd ==
    LET end[i \in 1..(Len(src) + 2)] ==
            CASE CharAt(i) \in {"end", "\n"} -> 0
              [] CharAt(i) = "\"" -> i
              [] CharAt(i) = "\\" -> IF CharAt(i + 1) \in Escapes THEN end[i + 2] ELSE 0
              [] OTHER -> end[i + 1]
    IN  end[off + 1]

String ==
    /\ CharAt(off) = "\""
    /\ LexIf(StringEnd > 0, "STRING", StringEnd + 1 - off, 0)

Operator ==
    /\ CharAt(off) \notin Blanks \cup Letters \cup Decimals \cup {"'", "\"", "end"}
    /\ ~AtComment
    /\ IF <<CharAt(off), CharAt(off + 1)>> \in Double THEN Emit("OPERATOR", 2, 0)
       ELSE LexIf(CharAt(off) \in Single, "OPERATOR", 1, 0)

-----------------------------------------------------------------------------

LexInit ==
    /\ src \in Sources
    /\ off = 1 /\ line = 1 /\ col = 1
    /\ toks = <<>>
    /\ lexed = "no"

LexNext ==
    /\ lexed = "no"
    /\ \/ SkipBlank
       \/ SkipComment
       \/ EndOfFile
       \/ Word
       \/ Hexadecimal
       \/ Decimal
       \/ Character
       \/ String
       \/ Operator

-----------------------------------------------------------------------------
(* What a token is, without reference to how it is found. *)

IsWord(s) == s # <<>> /\ s[1] \in Letters /\ \A i \in DOMAIN s : s[i] \in IdentCont
IsHex(s) ==
    /\ Len(s) > 2 /\ s[1] = "0" /\ s[2] \in {"x", "X"}
    /\ \A i \in 3..Len(s) : s[i] \in DOMAIN Digit
    /\ Value(16, SubSeq(s, 3, Len(s))) < 2 ^ LitBits
IsDecimal(s) ==
    /\ s # <<>> /\ \A i \in DOMAIN s : s[i] \in Decimals
    /\ s[1] = "0" => Len(s) = 1
    /\ Value(10, s) < 2 ^ LitBits
\* Between the quotes, every backslash that is not itself escaped escapes.
IsQuoted(s, q) ==
    /\ Len(s) >= 2 /\ s[1] = q /\ s[Len(s)] = q
    /\ \E esc \in SUBSET (2..(Len(s) - 2)) :
           /\ \A i \in 2..(Len(s) - 1) :
                  i \in esc <=> s[i] = "\\" /\ i - 1 \notin esc
           /\ \A i \in 2..(Len(s) - 1) :
                  IF i - 1 \in esc THEN s[i] \in Escapes ELSE s[i] \notin {q, "\n"}
IsOperator(s) == s \in Double \/ (Len(s) = 1 /\ s[1] \in Single)

HasKind(s, kind) ==
    CASE kind = "IDENT" -> IsWord(s) /\ s \notin Keywords
      [] kind = "KEYWORD" -> s \in Keywords
      [] kind = "INT" -> IsHex(s) \/ IsDecimal(s)
      [] kind = "CHAR" -> IsQuoted(s, "'") /\ Len(s) = (IF s[2] = "\\" THEN 4 ELSE 3)
      [] kind = "STRING" -> IsQuoted(s, "\"")
      [] kind = "OPERATOR" -> IsOperator(s)
      [] kind = "EOF" -> s = <<>>

\* isDigit, isHexDigit, isIdentStart and isIdentCont keep letters, digits and the
\* characters with a meaning of their own apart, and keywords are words; "end" is
\* no character.
ASSUME CharactersOK ==
    /\ Sources \subseteq Seq(STRING \ {"end"})
    /\ DOMAIN Digit \subseteq {"0", "1", "2", "3", "4", "5", "6", "7", "8", "9",
                             "a", "b", "c", "d", "e", "f", "A", "B", "C", "D", "E", "F"}
    /\ "0" \in DOMAIN Digit
    /\ Letters \cap (Blanks \cup Decimals \cup Single \cup {"|", "'", "\"", "\\", "end"}) = {}
    /\ \A w \in Keywords : w \in Seq(IdentCont) /\ IsWord(w)

TokenKinds == {"IDENT", "KEYWORD", "INT", "CHAR", "STRING", "OPERATOR", "EOF"}
IsToken(s) == \E k \in TokenKinds \ {"EOF"} : HasKind(s, k)

\* A number's text s is one that c would belong to, if it came next.
GoesOn(s, c) ==
    c \in IF IsHex(s) THEN DOMAIN Digit
           ELSE Decimals \cup IF s = <<"0">> THEN {"x", "X"} ELSE {}

\* The number that a text of this kind stands for.
NumberOf(kind, s) ==
    IF kind # "INT" THEN 0
    ELSE IF IsHex(s) THEN Value(16, SubSeq(s, 3, Len(s))) ELSE Value(10, s)

\* A comment that begins at a or later goes on at i.
InComment(a, i) ==
    \E c \in a..i : /\ CharAt(c) = "/" /\ CharAt(c + 1) = "/"
                    /\ \A k \in c..i : CharAt(k) \notin {"\n", "end"}

\* There are blanks and comments from a on, and at b something else.
Gap(a, b) ==
    /\ a <= b
    /\ \A k \in a..(b - 1) : CharAt(k) \in Blanks \/ InComment(a, k)
    /\ CharAt(b) \notin Blanks /\ ~InComment(a, b)

\* Where the i-th token ends.
EndOf(i) == IF i = 0 THEN 1 ELSE toks[i].to

\* Only blanks and comments lie between token i and the one before, its own
\* text is the longest that is a token, and the last is the end of the file.
TokenExact(i) ==
    LET t == toks[i]
        text == SubSeq(src, t.from, t.to - 1)
        newlines == {k \in 1..(t.from - 1) : src[k] = "\n"}
    IN  /\ Gap(EndOf(i - 1), t.from) /\ t.to <= Len(src) + 1
        /\ HasKind(text, t.kind)
        /\ t.kind = "EOF" => t.from > Len(src) /\ i = Len(toks)
        /\ t.kind # "EOF" => \A e \in t.to..Len(src) : ~IsToken(SubSeq(src, t.from, e))
        /\ t.kind = "INT" => ~GoesOn(text, CharAt(t.to))
        /\ t.val = NumberOf(t.kind, text)
        /\ t.line = 1 + Cardinality(newlines)
        /\ t.from - t.col \in {0} \cup newlines
        /\ \A k \in newlines : k <= t.from - t.col

\* Tokens, blanks and comments tile the source: every token is a longest one
\* and knows its line, its column and, if it is a number, its value, and the
\* lexer gives up only where what is left begins with no token (the front of a
\* number that goes on is none).  One sequence of tokens at most is such.
TokensExact ==
    /\ \A i \in DOMAIN toks : TokenExact(i)
    /\ lexed = "ok" => toks # <<>> /\ toks[Len(toks)].kind = "EOF"
    /\ lexed = "error" =>
           /\ Gap(EndOf(Len(toks)), off) /\ off <= Len(src)
           /\ \A e \in off..Len(src) :
                  LET s == SubSeq(src, off, e)
                  IN  IsToken(s) => HasKind(s, "INT") /\ GoesOn(s, CharAt(e + 1))
=============================================================================
