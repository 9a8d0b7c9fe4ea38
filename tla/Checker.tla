------------------------------- MODULE Checker ------------------------------
(***************************************************************************)
(* Name resolution and the type checker (internal/sema/sema.go).  The file *)
(* is a list of declarations; statements and expressions are chosen while  *)
(* the checker walks them.  walk is what its active calls still have to    *)
(* do, innermost first: nodes to visit, and what is done with a type when  *)
(* it comes back.  Errors are collected and the walk goes on.  Struct      *)
(* layout, the middle of resolve, is StructLayout; sizes play no role here.*)
(*                                                                         *)
(* Types are written as in Types, NoType is nil.  A parenthesised node is  *)
(* its operand, except where the code asks what the operand is.            *)
(***************************************************************************)
EXTENDS Integers, Sequences, FiniteSets, SequencesExt

CONSTANTS
    Files,          \* sequences of declarations, whose structs can be laid out
    ScalarTypes, Width,
    Magnitudes,     \* of integer literals
    LocalNames,     \* names of local variables and of whatever they may hide
    FieldNames,     \* names that are asked of structs
    LocalTypes,     \* type expressions in function bodies
    MaxScopes,      \* bounds on the nesting of blocks and of expressions: there
    MaxDepth        \* are no statements, or only leaves, beyond them

VARIABLES
    decls,
    pass,           \* "declare", "signatures", "main", "exports", "bodies", "done"
    next,           \* the declaration the pass has reached
    global,         \* name -> its declaration
    scopes,         \* of the function: name -> type of a variable, innermost last
    loops,
    walk,
    got,            \* the type returned last
    errs            \* something has been reported

checkVars == <<decls, pass, next, global, scopes, loops, walk, got, errs>>

N == INSTANCE Scalars WITH Types <- ScalarTypes

-----------------------------------------------------------------------------

Ptr == -1
Named(leaf) == [wrap |-> <<>>, leaf |-> leaf]
NoType == Named("nil")
Bool == Named("bool")
PtrTo(t) == [t EXCEPT !.wrap = <<Ptr>> \o @]

\* What a file is made of; the names of scalar types are keywords, and structs
\* that can be laid out have fields of types that exist.
Names == STRING \ {"nil"}
TypeExprs == [wrap : Seq(Int), leaf : Names]
NamedTypes == [name : Names, type : TypeExprs]
Declarations ==
    [kind : {"func"}, name : Names, form : {"plain", "export", "extern"},
     params : Seq(NamedTypes), ret : TypeExprs \cup {NoType}]
    \cup [kind : {"var"}, name : Names, type : TypeExprs,
          init : {"none", "int", "string", "bool", "expression"}]
    \cup [kind : {"struct"}, name : Names, fields : Seq(NamedTypes)]

ASSUME FilesOK ==
    /\ {"u8", "bool", "i32"} \subseteq ScalarTypes /\ ScalarTypes \subseteq Names
    /\ Magnitudes \subseteq Nat /\ Width \in [ScalarTypes -> Nat \ {0}]
    /\ LocalNames \subseteq Names /\ LocalTypes \subseteq TypeExprs
    /\ Files \subseteq Seq(Declarations)
    /\ \A file \in Files : \A i \in DOMAIN file : file[i].name \notin ScalarTypes
    /\ \A file \in Files : \A i \in DOMAIN file : file[i].kind = "struct" =>
          \A k \in DOMAIN file[i].fields :
              \/ file[i].fields[k].type.leaf \in ScalarTypes
              \/ \E j \in DOMAIN file : /\ file[j].kind = "struct"
                                         /\ file[j].name = file[i].fields[k].type.leaf

IsInteger(t) == t.wrap = <<>> /\ t.leaf \in ScalarTypes \ {"bool"}
IsPointer(t) == t.wrap # <<>> /\ t.wrap[1] = Ptr
KindOf(name) == IF name \in DOMAIN global THEN decls[global[name]].kind ELSE "none"
IsStruct(t) == t.wrap = <<>> /\ KindOf(t.leaf) = "struct"

\* An untyped literal takes the type its context wants if it can.
LitType(want) == IF IsInteger(want) THEN want ELSE Named("i32")

\* typeOf; a type expression is written like the type it denotes.  Local names
\* do not hide types.
IsType(te) == te.leaf \in ScalarTypes \/ KindOf(te.leaf) = "struct"
TypeOf(te) == IF IsType(te) THEN te ELSE NoType

\* lookup: [kind, type], a local variable before anything global.
Lookup(name) ==
    LET in == {i \in DOMAIN scopes : name \in DOMAIN scopes[i]}
    IN  IF in # {} THEN [kind |-> "var", type |-> scopes[CHOOSE i \in in : \A j \in in : j <= i][name]]
        ELSE [kind |-> KindOf(name),
              type |-> IF KindOf(name) = "var" THEN decls[global[name]].type ELSE NoType]

FieldsOf(t) == decls[global[t.leaf]].fields
Extend(f, x, v) == [y \in DOMAIN f \cup {x} |-> IF y = x THEN v ELSE f[y]]

-----------------------------------------------------------------------------
(* resolve. *)

Resolving == UNCHANGED <<decls, scopes, loops, walk, got>>

\* Mutant: the loop goes one too far.
AdvancesPast(after) ==
    IF next <= Len(decls) THEN next' = next + 1 /\ pass' = pass
    ELSE next' = 1 /\ pass' = after

\* The loop of a pass over the declarations, and what follows it.
Advances(after) ==
    IF next < Len(decls) THEN next' = next + 1 /\ pass' = pass
    ELSE next' = 1 /\ pass' = after

\* Mutant: the last declaration of a name wins, silently.
DeclareGlobalOver ==
    /\ pass = "declare"
    /\ global' = Extend(global, decls[next].name, next)
    /\ Advances("signatures")
    /\ Resolving /\ UNCHANGED errs

DeclareGlobal ==
    /\ pass = "declare"
    /\ IF decls[next].name \in DOMAIN global
       THEN errs' = TRUE /\ global' = global
       ELSE errs' = errs /\ global' = Extend(global, decls[next].name, next)
    /\ Advances("signatures")
    /\ Resolving

Mentioned(d) ==
    CASE d.kind = "func" -> {d.params[i].type : i \in DOMAIN d.params} \cup ({d.ret} \ {NoType})
      [] d.kind = "var" -> {d.type}
      [] OTHER -> {}

ResolveSignature ==
    /\ pass = "signatures"
    /\ errs' = (errs \/ \E te \in Mentioned(decls[next]) : ~IsType(te))
    /\ Advances("main")
    /\ Resolving /\ UNCHANGED global

IsMain(d) ==
    /\ d.kind = "func" /\ d.form # "extern"
    /\ d.params = <<>> /\ d.ret = Named("i32")

CheckMain ==
    /\ pass = "main"
    /\ errs' = (errs \/ "main" \notin DOMAIN global \/ ~IsMain(decls[global["main"]]))
    /\ pass' = "exports"
    /\ Resolving /\ UNCHANGED <<next, global>>

\* Check goes on to the bodies only if nothing has been reported.
CheckExports ==
    /\ pass = "exports"
    /\ errs' = (errs \/ \E i \in DOMAIN decls : /\ decls[i].kind = "func" /\ decls[i].form = "export"
                                                /\ decls[i].name \in {"memory", "_start"})
    /\ pass' = IF errs' THEN "done" ELSE "bodies"
    /\ Resolving /\ UNCHANGED <<next, global>>

-----------------------------------------------------------------------------
(* The walk. *)

Top == Head(walk)
AtItem(name) == pass = "bodies" /\ walk # <<>> /\ Top.do = name

Keep == UNCHANGED <<decls, pass, next, global, scopes, loops>>
Push(items) == walk' = items \o Tail(walk)

\* The active call makes others, or ends, or ends and returns a type.
Visit(items) == Push(items) /\ Keep /\ UNCHANGED <<got, errs>>
Yield(t, bad) == got' = t /\ errs' = (errs \/ bad) /\ Push(<<>>) /\ Keep
Reject == Yield(NoType, TRUE)

\* A node still to be chosen: the type its context wants, and what is known of
\* its form.
Wanting(want) == [do |-> "expr", want |-> want, form |-> "any"]
ExprOf(want, form) == [do |-> "expr", want |-> want, form |-> form]
Item(name) == [do |-> name]
Verdict(bad) == [do |-> "verdict", bad |-> bad]
Typed(name, t) == [do |-> name, type |-> t]

HasBody(d) == d.kind = "func" /\ d.form # "extern"

CheckFunc ==
    LET params == decls[next].params IN
    /\ pass = "bodies" /\ walk = <<>> /\ HasBody(decls[next])
    /\ walk' = <<Item("block"), Item("endFunc")>>
    /\ scopes' = <<[n \in {params[i].name : i \in DOMAIN params} |->
                        params[CHOOSE i \in DOMAIN params : params[i].name = n].type]>>
    /\ errs' = (errs \/ \E i, j \in DOMAIN params : i < j /\ params[i].name = params[j].name)
    /\ UNCHANGED <<decls, pass, next, global, loops, got>>

EndFunc ==
    /\ AtItem("endFunc")
    /\ walk' = <<>> /\ scopes' = <<>> /\ got' = NoType
    /\ Advances("done")
    /\ UNCHANGED <<decls, global, loops, errs>>

\* Externs, structs, and variables: an initializer is a literal, of the type of
\* the variable.
ConstType(d) ==
    CASE d.init = "int" -> LitType(d.type)
      [] d.init = "string" -> PtrTo(Named("u8"))
      [] d.init = "bool" -> Bool

CheckNoBody ==
    LET d == decls[next] IN
    /\ pass = "bodies" /\ walk = <<>> /\ ~HasBody(d)
    /\ errs' = (errs \/ (d.kind = "var" /\ d.init # "none"
                            /\ (d.init = "expression" \/ ConstType(d) # d.type)))
    /\ Advances("done")
    /\ UNCHANGED <<decls, global, scopes, loops, walk, got>>

-----------------------------------------------------------------------------
(* Statements. *)

\* A block remembers the scopes around it, for ScopesNest only.
CheckBlock ==
    /\ AtItem("block")
    /\ scopes' = Append(scopes, <<>>)
    /\ Push(<<[do |-> "stmts", outer |-> scopes]>>)
    /\ UNCHANGED <<decls, pass, next, global, loops, got, errs>>

\* Mutant: the scope of a block stays.
EndBlockKeepsScope ==
    /\ AtItem("stmts")
    /\ Visit(<<>>)

EndBlock ==
    /\ AtItem("stmts")
    /\ scopes' = Front(scopes)
    /\ got' = NoType
    /\ Push(<<>>)
    /\ UNCHANGED <<decls, pass, next, global, loops, errs>>

\* The next statement of a block.  A bound: no statement follows the one with
\* the first error, which nothing takes back.
Statement(items) ==
    /\ AtItem("stmts") /\ ~errs
    /\ walk' = items \o walk
    /\ got' = NoType
    /\ Keep /\ UNCHANGED errs

CheckCompound ==
    /\ Len(scopes) < MaxScopes
    /\ \/ Statement(<<Item("block")>>)
       \/ Statement(<<Wanting(NoType), Item("cond"), Item("block"), Item("else")>>)
       \/ Statement(<<Wanting(NoType), Item("cond"), Item("loop")>>)

CheckElse ==
    /\ AtItem("else")
    /\ \/ Visit(<<>>)
       \/ Visit(<<Item("block")>>)
       \/ Visit(<<Wanting(NoType), Item("cond"), Item("block"), Item("else")>>)

CountLoop ==
    /\ \/ AtItem("loop") /\ loops' = loops + 1 /\ Push(<<Item("block"), Item("endLoop")>>)
       \/ AtItem("endLoop") /\ loops' = loops - 1 /\ Push(<<>>)
    /\ UNCHANGED <<decls, pass, next, global, scopes, got, errs>>

\* The initializer is checked before its variable is declared.
CheckVarDecl ==
    \E name \in LocalNames, te \in LocalTypes, init \in BOOLEAN :
        LET t == TypeOf(te)
            declare == [do |-> "declare", name |-> name, type |-> t]
        IN  /\ AtItem("stmts") /\ ~errs
            /\ walk' = (IF init /\ t # NoType THEN <<Wanting(t), Typed("use", t)>> ELSE <<>>)
                       \o <<declare>> \o walk
            /\ errs' = (errs \/ t = NoType)
            /\ got' = NoType
            /\ Keep

\* Mutant: variables are declared in the function's outermost scope.
DeclareLocalOutside ==
    /\ AtItem("declare")
    /\ scopes' = [scopes EXCEPT ![1] = Extend(@, Top.name, Top.type)]
    /\ Push(<<>>)
    /\ UNCHANGED <<decls, pass, next, global, loops, got, errs>>

DeclareLocal ==
    /\ AtItem("declare")
    /\ IF Top.name \in DOMAIN Last(scopes)
       THEN errs' = TRUE /\ scopes' = scopes
       ELSE errs' = errs /\ scopes' = [scopes EXCEPT ![Len(scopes)] = Extend(@, Top.name, Top.type)]
    /\ Push(<<>>)
    /\ UNCHANGED <<decls, pass, next, global, loops, got>>

CheckSimple ==
    \/ Statement(<<ExprOf(NoType, "lvalue"), Item("assign")>>)
    \/ Statement(<<Item("call")>>)

Assign ==
    /\ AtItem("assign")
    /\ Visit(<<Wanting(got), Typed("use", got)>>)

CheckReturn ==
    LET ret == decls[next].ret IN
    \/ Statement(<<Verdict(ret # NoType)>>)
    \/ Statement(IF ret = NoType THEN <<Verdict(TRUE)>> ELSE <<Wanting(ret), Typed("use", ret)>>)

\* break and continue.
CheckBranch == Statement(<<Verdict(loops = 0)>>)

Report ==
    /\ AtItem("verdict")
    /\ Yield(NoType, Top.bad)

\* A value comes to where its type is known: an initializer, the right side of
\* an assignment, a returned value, an argument, a field of a literal.
Use ==
    /\ AtItem("use")
    /\ Yield(NoType, got # NoType /\ Top.type # NoType /\ got # Top.type)

CheckCond ==
    /\ AtItem("cond")
    /\ Yield(NoType, got # NoType /\ got # Bool)

-----------------------------------------------------------------------------
(* Expressions: the node is chosen, and its operands are visited. *)

\* The forms a node may have where only literals ("lit"), no literal
\* ("nonlit"), or no bare integer ("notInt", "litNotInt") is meant, or a place
\* ("lvalue"; "place" where parentheses around it are allowed too).
AtExpr(forms) == AtItem("expr") /\ Top.form \in forms
General == {"any", "nonlit", "notInt"}
Places == General \cup {"place", "lvalue"}
UntypedLits == {"lit", "litNotInt"}

\* The operators whose operands are being visited.
Compound ==
    Len(SelectSeq(walk, LAMBDA i :
        i.do \in {"neg", "not", "addr", "deref", "second", "pair", "bool", "cast", "called",
                  "base", "index", "field", "inits"})) < MaxDepth

Fits(v, neg, t) == IF neg THEN -v >= N!MinVal(t.leaf) ELSE v <= N!MaxVal(t.leaf)

NumberForms(neg) == {"any", "lit"} \cup IF neg THEN {"notInt", "litNotInt"} ELSE {}

\* Mutant: a negated literal is not looked at.
CheckNumberNotNegated(v, neg) ==
    /\ AtExpr(NumberForms(neg))
    /\ Yield(LitType(Top.want), ~neg /\ ~Fits(v, neg, LitType(Top.want)))

\* The literal v, or the literal -v.
CheckNumber(v, neg) ==
    /\ AtExpr(NumberForms(neg))
    /\ Yield(LitType(Top.want), ~Fits(v, neg, LitType(Top.want)))

CheckIntLit == \E v \in Magnitudes, neg \in BOOLEAN : CheckNumber(v, neg)

CheckOtherLit ==
    /\ AtExpr(General)
    /\ \E t \in {Named("u8"), PtrTo(Named("u8")), Bool} : Yield(t, FALSE)

CheckIdent ==
    \E name \in LocalNames \cup DOMAIN global :
        LET obj == Lookup(name) IN
        /\ AtExpr(Places)
        /\ Yield(obj.type, obj.kind # "var")

\* -(5) is not the literal -5, though untyped as well.
CheckParen ==
    /\ AtExpr({"notInt", "litNotInt"})
    /\ Visit(<<ExprOf(Top.want, IF Top.form = "notInt" THEN "any" ELSE "lit")>>)

CheckUnary ==
    /\ Compound
    /\ \/ /\ AtExpr(General \cup UntypedLits)
          /\ Visit(<<ExprOf(Top.want, CASE Top.form = "any" -> "notInt"
                                       [] Top.form = "lit" -> "litNotInt"
                                       [] OTHER -> Top.form), Item("neg")>>)
       \/ AtExpr(General) /\ Visit(<<Wanting(NoType), Item("not")>>)
       \/ AtExpr(General) /\ Visit(<<ExprOf(NoType, "place"), Item("addr")>>)
       \/ AtExpr(General) /\ Reject  \* the address of anything else
       \/ AtExpr(Places) /\ Visit(<<Wanting(NoType), Item("deref")>>)

FinishUnary ==
    \/ AtItem("neg") /\ Yield(IF IsInteger(got) THEN got ELSE NoType,
                              got # NoType /\ ~IsInteger(got))
    \/ AtItem("not") /\ Yield(IF got \in {Bool, NoType} THEN Bool ELSE NoType,
                              got \notin {Bool, NoType})
    \/ AtItem("addr") /\ Yield(IF got = NoType THEN got ELSE PtrTo(got), FALSE)
    \/ AtItem("deref") /\ IF IsPointer(got) THEN Yield([got EXCEPT !.wrap = Tail(@)], FALSE)
                          ELSE Yield(NoType, got # NoType)

CheckLogical ==
    \/ /\ AtExpr(General) /\ Compound
       /\ Visit(<<Wanting(NoType), Item("cond"), Wanting(NoType), Item("cond"), Item("bool")>>)
    \/ AtItem("bool") /\ Yield(Bool, FALSE)

\* Mutant: the left operand always comes first.
CheckOperandPairLeftFirst ==
    \E op \in {"arith", "order", "equal"}, x, y \in {"lit", "nonlit"} :
        /\ AtExpr(General) /\ Compound
        /\ Visit(<<ExprOf(IF op = "arith" /\ IsInteger(Top.want) THEN Top.want ELSE NoType, x),
                   [do |-> "second", op |-> op, first |-> x, form |-> y]>>)

\* checkOperandPair: an untyped literal comes after an operand that is none.
CheckOperandPair ==
    \E op \in {"arith", "order", "equal"}, x, y \in {"lit", "nonlit"} :
        LET want == IF op = "arith" /\ IsInteger(Top.want) THEN Top.want ELSE NoType
            swap == x = "lit" /\ y = "nonlit"
            first == IF swap THEN y ELSE x
            second == IF swap THEN x ELSE y
        IN  /\ AtExpr(General) /\ Compound
            /\ Visit(<<ExprOf(want, first),
                       [do |-> "second", op |-> op, first |-> first, form |-> second]>>)

SecondOperand ==
    /\ AtItem("second")
    /\ Visit(<<ExprOf(got, Top.form),
               [do |-> "pair", op |-> Top.op, type |-> got,
                adopts |-> Top.first # Top.form]>>)

FinishBinary ==
    LET both == got # NoType /\ Top.type # NoType
        defined == CASE Top.op = "equal" -> IsInteger(got) \/ got = Bool \/ IsPointer(got)
                     [] OTHER -> IsInteger(got)
        good == both /\ got = Top.type /\ defined
    IN  /\ AtItem("pair")
        /\ Yield(IF ~good THEN NoType ELSE IF Top.op = "arith" THEN got ELSE Bool,
                 both /\ ~good)

CheckCast ==
    \/ /\ AtExpr(General) /\ Compound
       /\ \E te \in LocalTypes : Visit(<<Wanting(NoType), Typed("cast", te)>>)
    \/ /\ AtItem("cast")
       /\ LET tt == TypeOf(Top.type)
              good == (IsInteger(got) /\ IsInteger(tt)) \/ (IsPointer(got) /\ IsPointer(tt))
          IN  Yield(IF good THEN tt ELSE NoType,
                    tt = NoType \/ (got # NoType /\ ~good))

\* Mutant: a call of a function without a result is a value like any other.
CalledSilently ==
    /\ AtItem("called")
    /\ Yield(Top.type, FALSE)

Called ==
    /\ AtItem("called")
    /\ Yield(Top.type, Top.value /\ Top.type = NoType)

\* checkCall, for a value or as a statement.
CheckCall ==
    \E name \in LocalNames \cup DOMAIN global, arity \in BOOLEAN :
        LET f == decls[global[name]]
            called == <<[do |-> "called", type |-> f.ret, value |-> Top.do = "expr"]>>
            of(i) == f.params[(i + 1) \div 2].type
            arguments == [i \in 1..(2 * Len(f.params)) |->
                              IF i % 2 = 1 THEN Wanting(of(i)) ELSE Typed("use", of(i))]
        IN  /\ (AtExpr(General) /\ Compound) \/ AtItem("call")
            /\ IF Lookup(name).kind # "func" THEN arity /\ Reject
               ELSE IF ~arity THEN /\ Push(called)
                                   /\ errs' = TRUE
                                   /\ Keep /\ UNCHANGED got
               ELSE Visit(arguments \o called)

CheckIndex ==
    \/ AtExpr(Places) /\ Compound /\ Visit(<<Wanting(NoType), Item("base")>>)
    \/ AtItem("base") /\ Visit(<<Wanting(NoType), Typed("index", got)>>)
    \/ /\ AtItem("index")
       /\ LET bad == got # NoType /\ ~IsInteger(got)
          IN  IF Top.type.wrap # <<>> THEN Yield([Top.type EXCEPT !.wrap = Tail(@)], bad)
              ELSE Yield(NoType, bad \/ Top.type # NoType)

\* A field of a struct, or of the struct that a pointer points to.
CheckField ==
    \E name \in FieldNames :
        \/ AtExpr(Places) /\ Compound /\ Visit(<<Wanting(NoType), [do |-> "field", name |-> name]>>)
        \/ /\ AtItem("field") /\ Top.name = name
           /\ LET st == IF got.wrap = <<Ptr>> THEN Named(got.leaf) ELSE got
              IN  IF IsStruct(st) /\ \E i \in DOMAIN FieldsOf(st) : FieldsOf(st)[i].name = name
                  THEN Yield((CHOOSE fd \in Range(FieldsOf(st)) : fd.name = name).type, FALSE)
                  ELSE Yield(NoType, got # NoType)

CheckStructLit ==
    \E name \in LocalNames \cup DOMAIN global :
        /\ AtExpr(General) /\ Compound
        /\ IF Lookup(name).kind # "struct" THEN Reject
           ELSE Visit(<<[do |-> "inits", type |-> Named(name), given |-> {}]>>)

\* The loop over the fields that are given, and the check that all are.
CheckInits ==
    LET fields == FieldsOf(Top.type)
        given(i) == [Top EXCEPT !.given = @ \cup {fields[i].name}]
    IN  /\ AtItem("inits")
        /\ \/ Yield(Top.type, Cardinality(Top.given) < Len(fields))
           \/ /\ Push(<<Wanting(NoType), Top>>)     \* there is no such field
              /\ errs' = TRUE
              /\ Keep /\ UNCHANGED got
           \/ \E i \in DOMAIN fields :
                  IF fields[i].name \in Top.given
                  THEN errs' = TRUE /\ Keep /\ UNCHANGED <<walk, got>>
                  ELSE Visit(<<Wanting(fields[i].type), Typed("use", fields[i].type), given(i)>>)

-----------------------------------------------------------------------------

CheckNext ==
    \/ DeclareGlobal \/ ResolveSignature \/ CheckMain \/ CheckExports
    \/ CheckFunc \/ EndFunc \/ CheckNoBody
    \/ CheckBlock \/ EndBlock \/ CheckCompound \/ CheckElse \/ CountLoop
    \/ CheckVarDecl \/ DeclareLocal \/ CheckSimple \/ Assign \/ CheckReturn \/ CheckBranch
    \/ Report \/ Use \/ CheckCond
    \/ CheckIntLit \/ CheckOtherLit \/ CheckIdent \/ CheckParen \/ CheckUnary \/ FinishUnary
    \/ CheckLogical \/ CheckOperandPair \/ SecondOperand \/ FinishBinary \/ CheckCast
    \/ CheckCall \/ Called \/ CheckIndex \/ CheckField \/ CheckStructLit \/ CheckInits

-----------------------------------------------------------------------------

\* When bodies are checked every name means one thing, main is what the runtime
\* calls, every type exists, and no two exports of the module have one name.
ResolvedRight ==
    pass = "bodies" =>
        /\ \A i, j \in DOMAIN decls : decls[i].name = decls[j].name => i = j
        /\ \E i \in DOMAIN decls : decls[i].name = "main" /\ IsMain(decls[i])
        /\ \A i \in DOMAIN decls :
               /\ \A te \in Mentioned(decls[i]) : IsType(te)
               /\ decls[i].kind = "func" /\ decls[i].form = "export" =>
                      decls[i].name \notin {"memory", "_start"}

\* The scopes are those of the blocks the walk is in, and a block leaves the
\* ones around it alone; loops counts the loops it is in, so that a break that
\* is accepted has a loop to leave.
ScopesNest ==
    LET Blocks(k) == Cardinality({i \in 1..k : walk[i].do = "stmts"})
    IN  /\ walk # <<>> => Len(scopes) = Blocks(Len(walk)) + 1
        /\ \A i \in DOMAIN walk : walk[i].do = "stmts" =>
              walk[i].outer = SubSeq(scopes, 1, Len(scopes) - Blocks(i))
        /\ loops = Cardinality({i \in DOMAIN walk : walk[i].do = "endLoop"})

\* A nil result means an error was already reported: where the type of an
\* operand is looked at, it is missing only in a program that is rejected.
NilMeansError ==
    \A name \in {"neg", "not", "addr", "deref", "second", "pair", "cast", "cond", "use",
                 "assign", "base", "index", "field"} :
        AtItem(name) /\ got = NoType => errs

\* What the code generator takes for granted in an accepted program.  The
\* operands of an operator have one type: an integer, or any scalar where they
\* are compared for equality.  An untyped literal has the type of an integer on
\* the other side, whichever side that is.  A value has the type of the place it
\* goes to.  A literal's number, the sign included, is one of the type it takes.
AnnotationsSound ==
    [][/\ AtItem("pair") /\ Top.adopts /\ IsInteger(Top.type) /\ IsInteger(got) => got = Top.type
       /\ AtItem("pair") /\ ~errs' =>
              /\ got = Top.type
              /\ Top.op # "equal" => IsInteger(got)
              /\ ~IsStruct(got) /\ (got.wrap # <<>> => IsPointer(got))
       /\ AtItem("use") /\ ~errs' => got = Top.type /\ got # NoType
       /\ \A v \in Magnitudes, neg \in BOOLEAN :
              CheckNumber(v, neg) /\ ~errs' =>
                  /\ IsInteger(got')
                  /\ (IF neg THEN -v ELSE v) \in N!Values(got'.leaf)]_checkVars
=============================================================================
