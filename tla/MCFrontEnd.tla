----------------------------- MODULE MCFrontEnd -----------------------------
(***************************************************************************)
(* FrontEnd with sources of up to four characters, every construct of the  *)
(* grammar two deep, and files of a main function beside a struct, a       *)
(* function or a variable named x.                                         *)
(***************************************************************************)
EXTENDS FrontEnd

MCChars == {"f", "x", "0", "1", " ", "\n", "/", "'", "\"", "\\", "=", "|"}
MCSources == UNION {[1..n -> MCChars] : n \in 0..4}
MCLetters == {"f", "x"}
MCKeywords == {<<"f", "x">>}
MCDigit == [d \in {"0", "1", "f"} |-> CASE d = "0" -> 0 [] d = "1" -> 1 [] d = "f" -> 15]

\* One operator of each of three levels, one keyword for each kind of statement.
MCTokens ==
    {"EOF", "IDENT", "INT", "ZERO", "FN", "EXTERN", "EXPORT", "STRUCT", "VAR", "IF", "ELSE",
     "WHILE", "RETURN", "BREAK", "MINUS", "STAR", "AS", "ASSIGN", "DOT", "COMMA", "SEMI",
     "COLON", "ARROW", "LPAREN", "RPAREN", "LBRACK", "RBRACK", "LBRACE", "RBRACE"}

I32 == Named("i32")
I64 == Named("i64")
X == Named("x")
Param(name, type) == [name |-> name, type |-> type]
Func(name, form, params, result) ==
    [kind |-> "func", name |-> name, form |-> form, params |-> params, ret |-> result]
Var(name, type, init) == [kind |-> "var", name |-> name, type |-> type, init |-> init]
Struct(name, fields) == [kind |-> "struct", name |-> name, fields |-> fields]

Main == Func("main", "plain", <<>>, I32)

\* main beside another declaration, a duplicate, a forbidden export or a type
\* that does not exist among them; and main as it may not be.
MCFiles ==
    {<<Main, d>> : d \in {Struct("x", <<Param("f", I64), Param("g", PtrTo(X))>>),
                          Func("x", "export", <<Param("x", I64)>>, NoType),
                          Func("x", "extern", <<Param("a", I32), Param("b", PtrTo(I32))>>, Bool),
                          Func("_start", "export", <<>>, NoType),
                          Func("main", "plain", <<>>, I32),
                          Var("x", [wrap |-> <<2>>, leaf |-> "i64"], "none"),
                          Var("x", I64, "bool"),
                          Var("x", Bool, "expression"), Var("y", X, "none")}}
    \cup {<<Func("main", form, params, result)>> :
              form \in {"export", "extern"},
              params \in {<<>>, <<Param("a", I32)>>},
              result \in {I32, NoType}}
    \cup {<<Var("x", I64, "int"), Main>>, <<Var("main", I32, "none")>>, <<Struct("x", <<>>)>>, <<>>}

MCScalarTypes == {"u8", "i32", "i64", "bool"}
MCWidth == [t \in MCScalarTypes |-> CASE t = "i32" -> 3 [] t = "i64" -> 4 [] OTHER -> 2]
MCLocalTypes == {I64, PtrTo(X)}
=============================================================================
