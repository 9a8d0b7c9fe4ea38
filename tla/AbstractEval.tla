---------------------------- MODULE AbstractEval ----------------------------
(***************************************************************************)
(* What scalar expressions mean: operands are numbers of their types, kept *)
(* on a stack while the rest of an expression is evaluated; one variable   *)
(* stands for the memory.  Arithmetic wraps around, a division by zero     *)
(* traps, and so does a quotient that the wasm type of the operands cannot *)
(* hold.  The source chooses the operation of a step: op, the input of the *)
(* machine.                                                                *)
(***************************************************************************)
EXTENDS Scalars, Sequences, SequencesExt

VARIABLES op,           \* [kind, type, number], the last two where they mean something
          operands,     \* [type, value], the last one on top
          variable,     \* [type, value]
          trapped

vars == <<op, operands, variable, trapped>>

Val(t, v) == [type |-> t, value |-> v]
Bool(b) == Val("bool", IF b THEN 1 ELSE 0)

Start ==
    /\ op.kind = "start"
    /\ operands = <<>> /\ trapped = FALSE
    /\ \E t \in Types : variable = Val(t, 0)

Is(kinds) == op'.kind \in kinds
Going == ~trapped /\ UNCHANGED trapped
Push(o) == operands' = Append(operands, o) /\ UNCHANGED variable

\* A literal with its sign is the number it says, if its type has it.
Literal ==
    /\ Is({"literal"}) /\ Going
    /\ op'.number \in Values(op'.type)
    /\ Push(Val(op'.type, op'.number))

\* The compiler rejects exactly the others.
Rejected ==
    /\ Is({"rejected"}) /\ Going
    /\ op'.number \notin Values(op'.type)
    /\ UNCHANGED <<operands, variable>>

\* -(n) is the negation of n.
FoldedNegation ==
    /\ Is({"-(n)"}) /\ Going
    /\ Push(Val(op'.type, Wrap(op'.type, -op'.number)))

UseVariable == Is({"variable"}) /\ Going /\ Push(variable)

ImportReturns ==
    /\ Is({"import"}) /\ Going
    /\ \E v \in Values(op'.type) : Push(Val(op'.type, v))

\* Whatever has a place in memory can be pointed to.
AddressOf == Is({"&"}) /\ Going /\ Push(Val("ptr", op'.number))

-----------------------------------------------------------------------------
\* The operand on top is replaced, consumed or assigned.
Replace(o) == operands' = Append(Front(operands), o) /\ UNCHANGED variable
Pop == operands' = Front(operands) /\ UNCHANGED variable

OnTop ==
    /\ Going /\ operands # <<>>
    /\ LET x == Last(operands) IN
          \/ Is({"neg"}) /\ Replace(Val(x.type, Wrap(x.type, -x.value)))
          \/ Is({"!"}) /\ Replace(Bool(x.value = 0))
          \/ Is({"as"}) /\ Replace(Val(op'.type, Wrap(op'.type, x.value)))
          \/ Is({"."}) /\ Replace(Val("ptr", Wrap("ptr", x.value + op'.number)))
          \* The right operand is evaluated, in place of the left, or not.
          \/ Is({"&&"}) /\ IF x.value = 1 THEN Pop ELSE UNCHANGED <<operands, variable>>
          \/ Is({"||"}) /\ IF x.value = 0 THEN Pop ELSE UNCHANGED <<operands, variable>>
          \/ Is({"drop"}) /\ Pop
          \/ Is({"="}) /\ variable' = x /\ operands' = Front(operands)

-----------------------------------------------------------------------------
\* The two operands on top, of one type, give way to a result.
Left == operands[Len(operands) - 1]
Right == Last(operands)
Reduce(o) == operands' = Append(Front(Front(operands)), o) /\ UNCHANGED variable

Result(o, a, b) ==
    CASE o = "+" -> a + b
      [] o = "-" -> a - b
      [] o = "*" -> a * b
      [] o = "/" -> Quotient(a, b)
      [] o = "%" -> Remainder(a, b)

Undefined(o, t, a, b) ==
    \/ o \in {"/", "%"} /\ b = 0
    \/ o = "/" /\ t \in {"i32", "i64"} /\ Quotient(a, b) \notin Values(t)

Operate ==
    /\ Is(ArithmeticOps) /\ ~trapped
    /\ IF Undefined(op'.kind, Left.type, Left.value, Right.value)
       THEN trapped' = TRUE /\ operands' = <<>> /\ UNCHANGED variable
       ELSE /\ Reduce(Val(Left.type, Wrap(Left.type,
                          Result(op'.kind, Left.value, Right.value))))
            /\ UNCHANGED trapped

Compare ==
    /\ Is(Equalities \cup Orders) /\ Going
    /\ Reduce(Bool(Holds(op'.kind, Left.value, Right.value)))

\* p[i] is i elements away from p, in either direction.
Index ==
    /\ Is({"[]"}) /\ Going
    /\ Reduce(Val("ptr", Wrap("ptr", Left.value + Right.value * op'.number)))

\* The host calls a function; the variable is then its parameter.
Enter ==
    /\ Is({"enter"}) /\ operands = <<>>
    /\ operands' = <<>> /\ trapped' = FALSE
    /\ \E v \in Values(op'.type) : variable' = Val(op'.type, v)

Next ==
    \/ Literal \/ Rejected \/ FoldedNegation \/ UseVariable \/ ImportReturns \/ AddressOf
    \/ OnTop \/ Operate \/ Compare \/ Index \/ Enter

Spec == Start /\ [][Next]_vars
=============================================================================
