--------------------------- MODULE AggregateCalls ---------------------------
(***************************************************************************)
(* Structs and arrays by value, as the generated code passes, returns and  *)
(* copies them (internal/codegen/codegen.go: emitFunc, genStmt, genStore,  *)
(* genCall, genAddr).                                                      *)
(*                                                                         *)
(* An expression of aggregate type is compiled to an address: of a         *)
(* variable, or of the frame temp its call or struct literal has for       *)
(* itself.  An aggregate argument is that address, and the callee copies   *)
(* from it; a result is written through a hidden pointer to the caller's   *)
(* temp.  The model runs every program over one aggregate type: an         *)
(* activation's statements, and the expressions in them, are chosen freely *)
(* step by step.  Beside mem, what memory holds, env records what the      *)
(* language says each variable's value is.                                 *)
(*                                                                         *)
(* An address is <<d, s>>: slot s of the frame at depth d of the call      *)
(* stack, with depth 0 for the globals.  ShadowStack shows that frames of  *)
(* live activations do not overlap; the frame of a returned call is        *)
(* claimed, with whatever it holds, by the next call at that depth.        *)
(***************************************************************************)
EXTENDS Integers, Sequences, FiniteSets

CONSTANTS
    Values,         \* of the aggregate type
    Zero,           \* the value of zeroed memory
    Params,         \* a frame's parameter slots, a sequence
    Locals,         \* its slots of declared variables
    Temps,          \* its slots of calls and struct literals
    Globals,
    MaxDepth        \* bound: depth of calls

ParamSlots == {Params[i] : i \in DOMAIN Params}
Undeclared == "undeclared"

ASSUME ConstantsOK ==
    /\ Zero \in Values /\ Undeclared \notin Values
    /\ Params \in Seq(ParamSlots)
    /\ Temps \cap (ParamSlots \cup Locals) = {}
    /\ MaxDepth \in Nat \ {0}

VARIABLES
    mem,            \* address -> the value memory holds there
    env,            \* variable's address -> its value, or Undeclared
    acts            \* the activations, main first

vars == <<mem, env, acts>>

VarsAt(d) == {d} \X (ParamSlots \cup Locals)
TempsAt(d) == {d} \X Temps
GlobalVars == {0} \X Globals
Depths == 1..MaxDepth

Variables == GlobalVars \cup UNION {VarsAt(d) : d \in Depths}
Addresses == Variables \cup UNION {TempsAt(d) : d \in Depths}

\* An activation evaluates one statement at a time.  todo is what is left to
\* do with the expressions being evaluated, innermost last; each call and
\* literal of the statement has a temp of its own, and used are those taken.
NewActivation(ret) == [todo |-> <<>>, used |-> {}, ret |-> ret]
NoResult == <<0, "none">>

Init ==
    /\ mem = [a \in Addresses |-> Zero]
    /\ env = [a \in Variables |-> IF a \in GlobalVars THEN Zero ELSE Undeclared]
    /\ acts = <<NewActivation(NoResult)>>

-----------------------------------------------------------------------------
Depth == Len(acts)
Top == acts[Depth]

\* Variables an expression can name, or reach through a pointer it was given.
Reachable == {a \in Variables : env[a] # Undeclared}

\* A task: what to do with the operand being evaluated, and where.  An
\* operand is the address genAddr leaves on the wasm stack; val, a history
\* field, is the value the expression had.
Task(kind, at) == [kind |-> kind, at |-> at, operands |-> <<>>]
Operand(a, v) == [addr |-> a, val |-> v]

AtStatement == Top.todo = <<>>
Current == Top.todo[Len(Top.todo)]
Enclosing == SubSeq(Top.todo, 1, Len(Top.todo) - 1)

\* The code being run expects an aggregate expression next.
WantsOperand ==
    /\ ~AtStatement
    /\ \/ Current.kind \in {"assign", "return", "discard"}
       \/ Current.kind = "literal" /\ Current.operands = <<>>
       \/ Current.kind = "call" /\ Len(Current.operands) < Len(Params)

SetTodo(todo) == acts' = [acts EXCEPT ![Depth].todo = todo]

-----------------------------------------------------------------------------
\* Mutant: the slot is not zero-filled.
DeclareUnfilled(l) ==
    /\ AtStatement
    /\ env' = [env EXCEPT ![<<Depth, l>>] = Zero]
    /\ UNCHANGED <<mem, acts>>

\* VarDecl without initializer: memory.fill of the slot.
Declare(l) ==
    /\ AtStatement
    /\ mem' = [mem EXCEPT ![<<Depth, l>>] = Zero]
    /\ env' = [env EXCEPT ![<<Depth, l>>] = Zero]
    /\ UNCHANGED acts

\* VarDecl with initializer, and assignment: the address of the target comes
\* first; then the value, and memory.copy (genStore).
BeginAssign(a) ==
    /\ AtStatement
    /\ a \in Reachable \/ a \in {Depth} \X Locals
    /\ acts' = [acts EXCEPT ![Depth].todo = <<Task("assign", a)>>, ![Depth].used = {}]
    /\ UNCHANGED <<mem, env>>

\* A call as a statement.
BeginDiscard ==
    /\ AtStatement
    /\ acts' = [acts EXCEPT ![Depth].todo = <<Task("discard", NoResult)>>, ![Depth].used = {}]
    /\ UNCHANGED <<mem, env>>

\* return of an aggregate: the hidden pointer comes first.
BeginReturn ==
    /\ AtStatement /\ Depth > 1
    /\ acts' = [acts EXCEPT ![Depth].todo = <<Task("return", Top.ret)>>, ![Depth].used = {}]
    /\ UNCHANGED <<mem, env>>

\* A store to a variable that is no aggregate assignment: to one of its
\* fields or elements, or through a pointer by a function that a scalar
\* argument or field calls in the middle of an expression.
Mutate(a, v) ==
    /\ a \in Reachable
    /\ ~AtStatement => Current.kind # "done"
    /\ mem' = [mem EXCEPT ![a] = v]
    /\ env' = [env EXCEPT ![a] = v]
    /\ UNCHANGED acts

\* Mutant: a nested call or literal may share the temp of the one around it.
OpenShared(kind, t) ==
    /\ WantsOperand
    /\ kind = "call" => Depth < MaxDepth
    /\ acts' = [acts EXCEPT ![Depth].todo = Append(@, Task(kind, <<Depth, t>>)),
                            ![Depth].used = @ \cup {<<Depth, t>>}]
    /\ UNCHANGED <<mem, env>>

\* An aggregate call or struct literal begins; the call's hidden pointer is
\* the first thing it pushes.
Open(kind, t) ==
    /\ WantsOperand
    /\ <<Depth, t>> \notin Top.used
    /\ kind = "call" => Depth < MaxDepth
    /\ acts' = [acts EXCEPT ![Depth].todo = Append(@, Task(kind, <<Depth, t>>)),
                            ![Depth].used = @ \cup {<<Depth, t>>}]
    /\ UNCHANGED <<mem, env>>

\* What the code does with the operand o once it is on the wasm stack.  An
\* argument just stays there; a literal's field and an assignment's value
\* are copied at once.
Deliver(o, todo) ==
    LET task == todo[Len(todo)]
        rest == SubSeq(todo, 1, Len(todo) - 1)
        kept == [task EXCEPT !.operands = Append(@, o)]
    IN  \/ /\ task.kind = "call"
           /\ SetTodo(Append(rest, kept))
           /\ UNCHANGED <<mem, env>>
        \/ /\ task.kind = "literal"
           /\ SetTodo(Append(rest, kept))
           /\ mem' = [mem EXCEPT ![task.at] = mem[o.addr]]
           /\ UNCHANGED env
        \/ /\ task.kind = "assign"
           /\ SetTodo(rest)
           /\ mem' = [mem EXCEPT ![task.at] = mem[o.addr]]
           /\ env' = [env EXCEPT ![task.at] = o.val]
        \/ /\ task.kind = "discard"
           /\ SetTodo(rest)
           /\ UNCHANGED <<mem, env>>

\* The task a finished call or literal leaves: its temp is the operand.
Finished(task, v) == [kind |-> "done", at |-> task.at,
                      operands |-> <<Operand(task.at, v)>>]

\* return: memory.copy through the hidden pointer, epilogue, return.
ReturnOperand(o) ==
    LET caller == acts[Depth - 1].todo
        call   == caller[Len(caller)]
    IN  /\ mem' = [mem EXCEPT ![Top.ret] = mem[o.addr]]
        /\ env' = [a \in Variables |-> IF a \in VarsAt(Depth) THEN Undeclared ELSE env[a]]
        /\ acts' = [SubSeq(acts, 1, Depth - 1) EXCEPT
                        ![Depth - 1].todo[Len(caller)] = Finished(call, o.val)]

\* genAddr of a variable, field, element or *p.
UseVariable(a) ==
    /\ WantsOperand /\ a \in Reachable
    /\ LET o == Operand(a, env[a])
       IN  \/ Current.kind # "return" /\ Deliver(o, Top.todo)
           \/ Current.kind = "return" /\ ReturnOperand(o)

\* genAddr of a call or literal that is finished: the address of its temp.
UseResult ==
    /\ ~AtStatement /\ Current.kind = "done"
    /\ LET o == Current.operands[1]
           outer == Enclosing[Len(Enclosing)]
       IN  \/ outer.kind # "return" /\ Deliver(o, Enclosing)
           \/ outer.kind = "return" /\ ReturnOperand(o)

\* The literal's fields are stored: an aggregate one by Deliver, or scalars,
\* which make up the value v.
FinishLiteral ==
    /\ ~AtStatement /\ Current.kind = "literal" /\ Current.operands # <<>>
    /\ SetTodo(Append(Enclosing, Finished(Current, Current.operands[1].val)))
    /\ UNCHANGED <<mem, env>>

StoreScalars(v) ==
    /\ ~AtStatement /\ Current.kind = "literal" /\ Current.operands = <<>>
    /\ SetTodo(Append(Enclosing, Finished(Current, v)))
    /\ mem' = [mem EXCEPT ![Current.at] = v]
    /\ UNCHANGED env

\* What the language gives the parameter for the operand o of a call made
\* now: a variable's value, or that of the temp.
Passed(o) == IF o.addr \in Variables THEN env[o.addr] ELSE o.val

\* Mutant: the callee takes its own frame's temp for the hidden pointer.
InvokeUnlinked ==
    /\ ~AtStatement /\ Current.kind = "call"
    /\ Len(Current.operands) = Len(Params)
    /\ acts' = Append(acts, NewActivation(<<Depth + 1, Current.at[2]>>))
    /\ UNCHANGED <<mem, env>>

\* call, and the callee's prologue: it copies each parameter into its frame.
Invoke ==
    /\ ~AtStatement /\ Current.kind = "call"
    /\ Len(Current.operands) = Len(Params)
    /\ LET callee(a) == a[1] = Depth + 1
           arg(a) == Current.operands[CHOOSE i \in DOMAIN Params : Params[i] = a[2]]
           copied(a) == callee(a) /\ a[2] \in ParamSlots
       IN  /\ mem' = [a \in Addresses |-> IF copied(a) THEN mem[arg(a).addr] ELSE mem[a]]
           /\ env' = [a \in Variables |-> IF copied(a) THEN Passed(arg(a)) ELSE env[a]]
    /\ acts' = Append(acts, NewActivation(Current.at))

Next ==
    \/ \E l \in Locals : Declare(l)
    \/ \E a \in Variables : BeginAssign(a) \/ UseVariable(a)
    \/ \E a \in Variables, v \in Values : Mutate(a, v)
    \/ \E v \in Values : StoreScalars(v)
    \/ \E t \in Temps : Open("call", t) \/ Open("literal", t)
    \/ BeginDiscard \/ BeginReturn
    \/ UseResult \/ FinishLiteral \/ Invoke

Spec == Init /\ [][Next]_vars

-----------------------------------------------------------------------------
(* What copying must guarantee. *)

TypeOK ==
    /\ mem \in [Addresses -> Values]
    /\ env \in [Variables -> Values \cup {Undeclared}]
    /\ Depth \in Depths
    /\ \A d \in 1..Depth :
          /\ acts[d].used \subseteq TempsAt(d)
          /\ d > 1 => acts[d].ret \in acts[d - 1].used
          /\ \A k \in DOMAIN acts[d].todo :
                acts[d].todo[k].kind \in {"assign", "return", "discard", "call",
                                          "literal", "done"}

\* Memory holds for every variable in scope, of every live activation, the
\* value the language gives it: no copy is missed, a callee that changes its
\* parameter leaves the caller's variable alone, a declared variable does
\* not inherit what an earlier call left in its slot, and a value built from
\* the variable it is assigned to is complete before it is stored.
VariablesHold == \A a \in Reachable : mem[a] = env[a]

Pending ==
    UNION {UNION {{acts[d].todo[k].operands[i] : i \in DOMAIN acts[d].todo[k].operands}
                    : k \in {j \in DOMAIN acts[d].todo : acts[d].todo[j].kind # "literal"}}
              : d \in DOMAIN acts}

\* The result of a call, or a literal, is intact in its temp until it is
\* used, whatever other calls, literals and stores the rest of the
\* expression evaluates in between.
ResultsIntact ==
    \A o \in Pending : o.addr \notin Variables => mem[o.addr] = o.val

\* Claim of codegen.go:17-20: copying in the callee "preserves by-value
\* semantics".  When the call instruction is reached, the address pushed for
\* each argument still holds the value the argument was evaluated to.
ArgumentsByValue ==
    ~AtStatement /\ Current.kind = "call" /\ Len(Current.operands) = Len(Params)
        => \A i \in DOMAIN Params :
              mem[Current.operands[i].addr] = Current.operands[i].val
=============================================================================
