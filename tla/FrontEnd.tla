------------------------------ MODULE FrontEnd ------------------------------
(***************************************************************************)
(* The front end of the compiler (internal/compile/compile.go): each stage *)
(* runs on the result of the one before it, and the first error ends the   *)
(* run.  What is passed on is chosen anew, any tokens after any source     *)
(* that lexes, any file after any tokens that parse, so that the stages    *)
(* are explored one after the other and not for each other's inputs.       *)
(***************************************************************************)
EXTENDS Lexer, Parser, Checker

VARIABLE stage  \* "lex", "parse", "check", then "generate" or "failed"

vars == <<stage, lexVars, parseVars, checkVars>>

-----------------------------------------------------------------------------

LexIdle == src' = <<>> /\ off' = 1 /\ line' = 1 /\ col' = 1 /\ toks' = <<>> /\ lexed' = "no"
ParseIdle ==
    /\ tok' = "EOF" /\ todo' = <<>> /\ noStructLit' = FALSE /\ ret' = NoExpr
    /\ parsed' = "no"
CheckIdle ==
    /\ decls' = <<>> /\ pass' = "declare" /\ next' = 1 /\ global' = <<>>
    /\ scopes' = <<>> /\ loops' = 0 /\ walk' = <<>> /\ got' = NoType /\ errs' = FALSE

Init ==
    /\ stage = "lex"
    /\ LexInit
    /\ tok = "EOF" /\ todo = <<>> /\ noStructLit = FALSE /\ ret = NoExpr /\ parsed = "no"
    /\ decls = <<>> /\ pass = "declare" /\ next = 1 /\ global = <<>>
    /\ scopes = <<>> /\ loops = 0 /\ walk = <<>> /\ got = NoType /\ errs = FALSE

Lex == stage = "lex" /\ LexNext /\ UNCHANGED <<stage, parseVars, checkVars>>

StartParser ==
    /\ stage = "lex" /\ lexed = "ok"
    /\ stage' = "parse"
    /\ tok' \in Tokens /\ todo' = Do(<<"file">>)
    /\ LexIdle /\ UNCHANGED <<noStructLit, ret, parsed, checkVars>>

Parse == stage = "parse" /\ ParseNext /\ UNCHANGED <<stage, lexVars, checkVars>>

StartChecker ==
    /\ stage = "parse" /\ parsed = "ok"
    /\ stage' = "check"
    /\ decls' \in Files
    /\ pass' = IF decls' = <<>> THEN "main" ELSE "declare"
    /\ ParseIdle
    /\ UNCHANGED <<lexVars, next, global, scopes, loops, walk, got, errs>>

Check == stage = "check" /\ CheckNext /\ UNCHANGED <<stage, lexVars, parseVars>>

\* Code generation follows, which other modules are about.
StartGenerator ==
    /\ stage = "check" /\ pass = "done" /\ ~errs
    /\ stage' = "generate"
    /\ CheckIdle /\ UNCHANGED <<lexVars, parseVars>>

\* The command reports the error and exits with status 1.
Fail ==
    /\ \/ stage = "lex" /\ lexed = "error"
       \/ stage = "parse" /\ parsed = "error"
       \/ stage = "check" /\ pass = "done" /\ errs
    /\ stage' = "failed"
    /\ LexIdle /\ ParseIdle /\ CheckIdle

Ended == stage \in {"generate", "failed"} /\ UNCHANGED vars

Next ==
    \/ Lex \/ StartParser \/ Parse \/ StartChecker \/ Check \/ StartGenerator \/ Fail
    \/ Ended

\* A stage is a sequential Go function: it goes on as long as it can.
Spec == Init /\ [][Next]_vars /\ WF_vars(Next)

-----------------------------------------------------------------------------

\* The values that the variables of the three stages may have.
TypeOK ==
    /\ stage \in {"lex", "parse", "check", "generate", "failed"}
    /\ lexed \in {"no", "ok", "error"}
    /\ off \in 1..(Len(src) + 1) /\ line \in Nat \ {0} /\ col \in Nat \ {0}
    /\ \A i \in DOMAIN toks : toks[i].kind \in TokenKinds /\ toks[i].from \in 1..toks[i].to
    /\ tok \in Tokens /\ noStructLit \in BOOLEAN /\ parsed \in {"no", "ok", "error"}
    /\ ret.bp \in 0..PostfixBP
    /\ pass \in {"declare", "signatures", "main", "exports", "bodies", "done"}
    /\ decls # <<>> => next \in DOMAIN decls
    /\ \A name \in DOMAIN global : decls[global[name]].name = name
    /\ loops \in Nat /\ errs \in BOOLEAN
    /\ got = NoType \/ IsType(got)

\* No stage hangs: every source is lexed to its end or to an error, and the
\* parser, which does not move past the end of the file, comes back from it
\* out of every loop.
StagesEnd == []<>~(stage = "lex" \/ (stage = "parse" /\ tok = "EOF"))
=============================================================================
