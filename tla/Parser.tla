------------------------------- MODULE Parser -------------------------------
(***************************************************************************)
(* The parser (internal/parser/parser.go): recursive descent for           *)
(* declarations and statements, a Pratt loop for expressions, one token of *)
(* lookahead.                                                              *)
(*                                                                         *)
(* todo is the continuation, what the active calls of parse functions      *)
(* still have to do, innermost first: an item named like a token kind      *)
(* expects that token, the others are calls, or the rest of one after the  *)
(* call it waits for.  Tokens are chosen as they are read, and of a tree   *)
(* only what its root is remains.                                          *)
(***************************************************************************)
EXTENDS Integers, Sequences, SequencesExt

CONSTANTS
    Tokens,         \* the kinds of tokens in use, the end of the file among them
    MaxOpen         \* bound on nesting: with more open a source has no more tokens

\* The parse functions, and what is left of them after a call they make.
Calls == {"file", "params", "moreParams", "fields", "result", "varDecl", "init", "type", "length",
          "block", "stmts", "stmt", "if", "else", "elseBranch", "cond", "restore", "returned",
          "simple", "expr", "primary", "name", "postfix", "infix", "args", "moreArgs", "inits",
          "moreInits", "value", "node", "cast", "unary", "deref", "binary"}

ASSUME TokensOK == "EOF" \in Tokens /\ Tokens \cap Calls = {}

VARIABLES
    tok,            \* the current token
    todo,
    noStructLit,
    ret,            \* the expression returned last: its root and the root's power
    parsed          \* "no", then "ok" or "error"

parseVars == <<tok, todo, noStructLit, ret, parsed>>

-----------------------------------------------------------------------------

TypeKeywords == {"I8", "I16", "I32", "I64", "U8", "U16", "U32", "U64", "BOOL"}
Literals == {"INT", "ZERO", "CHAR", "STRING", "TRUE", "FALSE"}
UnaryOps == {"MINUS", "NOT", "AMP", "STAR"}
Lvalues == {"Ident", "Field", "Index", "Deref"}

\* infixBP; 0 for the tokens that are not in it.
InfixBP(k) ==
    CASE k = "OROR" -> 1
      [] k = "ANDAND" -> 2
      [] k \in {"EQ", "NEQ"} -> 3
      [] k \in {"LT", "LE", "GT", "GE"} -> 4
      [] k \in {"PLUS", "MINUS"} -> 5
      [] k \in {"STAR", "SLASH", "PERCENT"} -> 6
      [] k = "AS" -> 7
      [] OTHER -> 0
UnaryBP == 8
PostfixBP == 9

NoExpr == [root |-> "none", bp |-> 0]

\* Items. An expression's know what encloses them ("cond", "bracket" or
\* "plain"): the code does not, it has noStructLit.
Do(names) == [i \in DOMAIN names |-> [do |-> names[i]]]
Expr(bp, in) == [do |-> "expr", bp |-> bp, in |-> in]
Operand(name) == [do |-> name, in |-> Head(todo).in]
Loop == [do |-> "infix", bp |-> Head(todo).bp, in |-> Head(todo).in]
Node(root) == [do |-> "node", root |-> root]
Restore == [do |-> "restore", saved |-> noStructLit]

Doing(name) == todo # <<>> /\ Head(todo).do = name

\* The item on top makes way for others.
Expand(items) == todo' = items \o Tail(todo) /\ UNCHANGED <<tok, noStructLit, ret, parsed>>

Enter(flag, items) ==
    /\ noStructLit' = flag
    /\ todo' = items \o Tail(todo)
    /\ UNCHANGED <<tok, ret, parsed>>

\* errorf: the panic leaves all calls at once.
ParseError ==
    /\ parsed' = "error"
    /\ tok' = "EOF" /\ todo' = <<>> /\ noStructLit' = FALSE /\ ret' = NoExpr

\* cur and next. A zero is an integer literal as well.
Is(kind) == tok = kind \/ (kind = "INT" /\ tok = "ZERO")

Opens == {"stmts", "restore", "binary", "unary", "deref"}

\* The tokens that what is to be read next does not reject: all others are
\* one error there, and the end of the file stands for them.
Accepted(item) ==
    CASE item.do = "INT" -> {"INT", "ZERO"}
      [] item.do \in Tokens \ {"INT"} -> {item.do}
      [] item.do = "length" -> {"INT", "ZERO"}
      [] item.do = "type" -> TypeKeywords \cup {"IDENT", "STAR", "LBRACK"}
      [] item.do = "expr" -> UnaryOps \cup Literals \cup {"IDENT", "LPAREN"}
      [] OTHER -> Tokens

Following ==
    IF Len(SelectSeq(todo, LAMBDA i : i.do \in Opens)) > MaxOpen THEN {"EOF"}
    ELSE {"EOF"} \cup (Tokens \cap Accepted(todo[2]))

ExpectToken ==
    /\ todo # <<>> /\ Head(todo).do \in Tokens
    /\ IF Is(Head(todo).do)
       THEN /\ tok' \in Following
            /\ todo' = Tail(todo)
            /\ UNCHANGED <<noStructLit, ret, parsed>>
       ELSE ParseError

-----------------------------------------------------------------------------
(* Declarations and types. *)

Signature == <<"FN", "IDENT", "LPAREN", "params", "RPAREN", "result">>

File ==
    /\ Doing("file")
    /\ CASE tok = "EOF" -> parsed' = "ok" /\ UNCHANGED <<tok, todo, noStructLit, ret>>
         [] tok = "FN" -> Expand(Do(Signature \o <<"block", "file">>))
         [] tok = "EXTERN" -> Expand(Do(<<"EXTERN">> \o Signature \o <<"SEMI", "file">>))
         [] tok = "EXPORT" -> Expand(Do(<<"EXPORT">> \o Signature \o <<"block", "file">>))
         [] tok = "STRUCT" ->
                Expand(Do(<<"STRUCT", "IDENT", "LBRACE", "fields", "RBRACE", "file">>))
         [] tok = "VAR" -> Expand(Do(<<"varDecl", "file">>))
         [] OTHER -> ParseError

\* The loops over lists: up to the closing token, or to an element that no
\* comma follows; struct fields end in a comma.
Params ==
    /\ Doing("params")
    /\ Expand(IF tok = "RPAREN" THEN <<>>
              ELSE Do(<<"IDENT", "COLON", "type", "moreParams">>))

Args ==
    /\ Doing("args")
    /\ Expand(IF tok = "RPAREN" THEN <<>>
              ELSE <<Expr(1, "bracket")>> \o Do(<<"moreArgs">>))

Inits ==
    /\ Doing("inits")
    /\ Expand(IF tok = "RBRACE" THEN <<>>
              ELSE Do(<<"IDENT", "COLON", "value", "moreInits">>))

More ==
    \E l \in {<<"moreParams", "params">>, <<"moreArgs", "args">>, <<"moreInits", "inits">>} :
        /\ Doing(l[1])
        /\ Expand(IF tok = "COMMA" THEN Do(<<"COMMA", l[2]>>) ELSE <<>>)

Fields ==
    /\ Doing("fields")
    /\ Expand(IF tok = "RBRACE" THEN <<>>
              ELSE Do(<<"IDENT", "COLON", "type", "COMMA", "fields">>))

Result ==
    /\ Doing("result")
    /\ Expand(IF tok = "ARROW" THEN Do(<<"ARROW", "type">>) ELSE <<>>)

VarDecl ==
    /\ Doing("varDecl")
    /\ Expand(Do(<<"VAR", "IDENT", "COLON", "type", "init", "SEMI">>))

VarInit ==
    /\ Doing("init")
    /\ Expand(IF tok = "ASSIGN" THEN Do(<<"ASSIGN">>) \o <<Expr(1, "plain")>> ELSE <<>>)

Type ==
    /\ Doing("type")
    /\ CASE tok \in TypeKeywords \cup {"IDENT"} -> Expand(Do(<<tok>>))
         [] tok = "STAR" -> Expand(Do(<<"STAR", "type">>))
         [] tok = "LBRACK" -> Expand(Do(<<"LBRACK", "length", "RBRACK", "type">>))
         [] OTHER -> ParseError

Length ==
    /\ Doing("length")
    /\ IF tok = "INT" THEN Expand(Do(<<"INT">>)) ELSE ParseError

-----------------------------------------------------------------------------
(* Statements. *)

Block ==
    /\ Doing("block")
    /\ Expand(Do(<<"LBRACE", "stmts">>))

Stmts ==
    /\ Doing("stmts")
    /\ CASE tok = "RBRACE" -> Expand(Do(<<"RBRACE">>))
         [] tok = "EOF" -> ParseError
         [] OTHER -> Expand(Do(<<"stmt", "stmts">>))

Stmt ==
    /\ Doing("stmt")
    /\ Expand(CASE tok = "VAR" -> Do(<<"varDecl">>)
                [] tok = "IF" -> Do(<<"if">>)
                [] tok = "WHILE" -> Do(<<"WHILE", "cond", "block">>)
                [] tok = "RETURN" -> Do(<<"RETURN", "returned">>)
                [] tok \in {"BREAK", "CONTINUE"} -> Do(<<tok, "SEMI">>)
                [] tok = "LBRACE" -> Do(<<"block">>)
                [] OTHER -> <<Expr(1, "plain")>> \o Do(<<"simple">>))

If ==
    /\ Doing("if")
    /\ Expand(Do(<<"IF", "cond", "block", "else">>))

Else ==
    \/ Doing("else") /\ Expand(IF tok = "ELSE" THEN Do(<<"ELSE", "elseBranch">>) ELSE <<>>)
    \/ Doing("elseBranch") /\ Expand(Do(<<IF tok = "IF" THEN "if" ELSE "block">>))

Returned ==
    /\ Doing("returned")
    /\ Expand((IF tok = "SEMI" THEN <<>> ELSE <<Expr(1, "plain")>>) \o Do(<<"SEMI">>))

\* An assignment or a call, decided after its first expression.
Simple ==
    /\ Doing("simple")
    /\ CASE tok = "ASSIGN" /\ ret.root \in Lvalues ->
                Expand(Do(<<"ASSIGN">>) \o <<Expr(1, "plain")>> \o Do(<<"SEMI">>))
         [] tok # "ASSIGN" /\ ret.root = "Call" -> Expand(Do(<<"SEMI">>))
         [] OTHER -> ParseError

\* Mutant: the flag is left set after a condition.
CondKept ==
    /\ Doing("cond")
    /\ Enter(TRUE, <<Expr(1, "cond")>>)

Cond ==
    /\ Doing("cond")
    /\ Enter(TRUE, <<Expr(1, "cond"), Restore>>)

RestoreFlag ==
    /\ Doing("restore")
    /\ Enter(Head(todo).saved, <<>>)

-----------------------------------------------------------------------------
(* Expressions. *)

ParseExprBP ==
    /\ Doing("expr")
    /\ todo' = (IF tok \in UnaryOps
                THEN Do(<<tok>>) \o <<Expr(UnaryBP, Head(todo).in)>>
                     \o Do(<<IF tok = "STAR" THEN "deref" ELSE "unary">>)
                ELSE <<Operand("primary"), Operand("postfix")>>)
               \o <<Loop>> \o Tail(todo)
    /\ ret' = NoExpr
    /\ UNCHANGED <<tok, noStructLit, parsed>>

\* Mutant: the right operand may begin with an operator of the same power.
InfixRightAssociative ==
    LET bp == InfixBP(tok) IN
    /\ Doing("infix")
    /\ IF bp = 0 \/ bp < Head(todo).bp THEN Expand(<<>>)
       ELSE IF tok = "AS" THEN Expand(Do(<<"AS", "type", "cast">>) \o <<Head(todo)>>)
       ELSE Expand(Do(<<tok>>) \o
                   <<Expr(bp, Head(todo).in), [do |-> "binary", bp |-> bp], Head(todo)>>)

\* The loop of parseExprBP.
Infix ==
    LET bp == InfixBP(tok) IN
    /\ Doing("infix")
    /\ IF bp = 0 \/ bp < Head(todo).bp THEN Expand(<<>>)
       ELSE IF tok = "AS" THEN Expand(Do(<<"AS", "type", "cast">>) \o <<Head(todo)>>)
       ELSE Expand(Do(<<tok>>) \o
                   <<Expr(bp + 1, Head(todo).in), [do |-> "binary", bp |-> bp], Head(todo)>>)

Return(root, bp) ==
    /\ ret' = [root |-> root, bp |-> bp]
    /\ todo' = Tail(todo)
    /\ UNCHANGED <<tok, noStructLit, parsed>>

Build ==
    \/ Doing("deref") /\ Return("Deref", UnaryBP)
    \/ Doing("unary") /\ Return("Unary", UnaryBP)
    \/ Doing("cast") /\ Return("Cast", InfixBP("AS"))
    \/ Doing("binary") /\ Return("Binary", Head(todo).bp)
    \/ Doing("node") /\ Return(Head(todo).root, PostfixBP)

Postfix ==
    /\ Doing("postfix")
    /\ CASE tok = "LPAREN" ->
                IF ret.root = "Ident"
                THEN Enter(FALSE, Do(<<"LPAREN", "args">>) \o <<Restore, Node("Call")>>
                                  \o Do(<<"RPAREN">>) \o <<Head(todo)>>)
                ELSE ParseError
         [] tok = "LBRACK" ->
                Enter(FALSE, Do(<<"LBRACK">>) \o <<Expr(1, "bracket"), Restore, Node("Index")>>
                             \o Do(<<"RBRACK">>) \o <<Head(todo)>>)
         [] tok = "DOT" -> Expand(<<Node("Field")>> \o Do(<<"DOT", "IDENT">>) \o <<Head(todo)>>)
         [] OTHER -> Expand(<<>>)

Primary ==
    /\ Doing("primary")
    /\ CASE tok \in Literals -> Expand(<<Node("Lit")>> \o Do(<<tok>>))
         [] tok = "IDENT" -> Expand(Do(<<"IDENT">>) \o <<Operand("name")>>)
         [] tok = "LPAREN" ->
                Enter(FALSE, Do(<<"LPAREN">>) \o <<Expr(1, "bracket"), Restore, Node("Paren")>>
                             \o Do(<<"RPAREN">>))
         [] OTHER -> ParseError

\* A brace after a name begins a struct literal, but not in a condition.
Name ==
    /\ Doing("name")
    /\ Expand(IF tok = "LBRACE" /\ ~noStructLit
              THEN Do(<<"LBRACE", "inits">>) \o <<Node("StructLit")>> \o Do(<<"RBRACE">>)
              ELSE <<Node("Ident")>>)

FieldValue ==
    /\ Doing("value")
    /\ Enter(FALSE, <<Expr(1, "bracket"), Restore>>)

-----------------------------------------------------------------------------

ParseNext ==
    /\ parsed = "no"
    /\ \/ ExpectToken
       \/ File \/ Params \/ Args \/ Inits \/ More \/ Fields \/ Result \/ VarDecl \/ VarInit
       \/ Type \/ Length
       \/ Block \/ Stmts \/ Stmt \/ If \/ Else \/ Returned \/ Simple
       \/ Cond \/ RestoreFlag
       \/ ParseExprBP \/ Infix \/ Build \/ Postfix \/ Primary \/ Name \/ FieldValue

-----------------------------------------------------------------------------

\* Struct literals are suppressed exactly between an `if` or `while` and the
\* body, outside of brackets there: nowhere else in an expression, and never
\* where a statement, a declaration or a type is read.
NoStructLitExact ==
    todo # <<>> =>
        noStructLit = CASE Head(todo).do \in {"expr", "primary", "name", "postfix", "infix"} ->
                               Head(todo).in = "cond"
                        [] Head(todo).do \in {"block", "stmts", "stmt", "if", "else", "file",
                                              "varDecl", "returned", "simple", "inits"} -> FALSE
                        [] OTHER -> noStructLit

\* Every node obeys the layered grammar, which leaves each token sequence one
\* tree: a left operand binds at least as tightly as its operator, a right one
\* more tightly, an operand of a prefix operator is a prefix or postfix
\* expression, and what is called, indexed or selected from is a postfix one.
NodesGrammatical ==
    /\ Doing("infix") /\ InfixBP(tok) >= Head(todo).bp => ret.bp >= InfixBP(tok)
    /\ Doing("binary") => ret.bp > Head(todo).bp
    /\ Doing("unary") \/ Doing("deref") => ret.bp >= UnaryBP
    /\ Doing("postfix") => ret.bp = PostfixBP
=============================================================================
