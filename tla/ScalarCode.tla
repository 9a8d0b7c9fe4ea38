----------------------------- MODULE ScalarCode -----------------------------
(***************************************************************************)
(* The code generated for scalar expressions (internal/codegen/codegen.go: *)
(* genExpr, genBinary, genAddr, load, store, pushConst, canon, castOps)    *)
(* and the check of literals that precedes it (internal/sema/sema.go:      *)
(* checkFit).  A place in memory is the address that genAddr computes for  *)
(* it; what is there is modelled for one variable only.                    *)
(*                                                                         *)
(* wasm has words of two widths, here unsigned numbers.  A narrow type     *)
(* lives in the narrower of them, sign- or zero-extended; arithmetic does  *)
(* not keep that form and canon restores it.  An instruction is what it    *)
(* does to the operand stack, which holds the words and, for the checker's *)
(* conditions, the types of the expressions under evaluation.              *)
(***************************************************************************)
EXTENDS Scalars, Sequences, SequencesExt

CONSTANTS
    VarTypes,       \* of the variable: a bound on the types that reach memory
    Sizes,          \* of elements, and offsets of fields
    MaxOperands     \* bound on the operands waiting at one time

ASSUME ConstantsOK ==
    VarTypes \subseteq Types /\ Sizes \subseteq Nat /\ MaxOperands \in Nat \ {0}

VARIABLES
    op,         \* the operation of the source that the last step evaluated
    operands,   \* wasm's stack: [type, word]
    cell,       \* the variable: [type, bits], the bits as they lie in memory
    trapped

vars == <<op, operands, cell, trapped>>

-----------------------------------------------------------------------------
(* The instructions. *)

\* Wasm, as the number of bits.
Wasm(t) == IF t \in {"i64", "u64"} THEN Width["i64"] ELSE Width["i32"]
WordModulus == [t \in Types |-> TwoTo[Wasm(t)]]
Words(t) == 0..(WordModulus[t] - 1)
Word(t, x) == x % WordModulus[t]

\* One of m bit patterns read as the instructions that are signed, or not, do.
Read(signed, m, w) == IF signed /\ 2 * w >= m THEN w - m ELSE w
Number(t, w) == Read(IsSigned(t), WordModulus[t], w)

IsNarrow(t) == IsInteger(t) /\ Width[t] < Wasm(t)

\* load8_s, load8_u, extend8_s, and 255 and the like: the lower bits, extended.
Extend(t, w) == Word(t, Read(IsSigned(t), Modulus[t], w % Modulus[t]))

Load(t, bits) == Extend(t, bits)
Store(t, w) == w % Modulus[t]

Canon(t, w) == IF IsNarrow(t) THEN Extend(t, w) ELSE w

\* v is a uint64.
PushConst(t, v) == IF IsNarrow(t) THEN Extend(t, v) ELSE Word(t, v)

\* Mutant: widening extends by the sign of the target.
CastOpsByTarget(from, to, w) ==
    IF Wasm(from) < Wasm(to) THEN Word(to, Read(IsSigned(to), WordModulus[from], w))
    ELSE Canon(to, Word(to, w))

\* Mutant: a narrowing cast leaves the upper half of the word.
CastOpsUnwrapped(from, to, w) ==
    IF Wasm(from) < Wasm(to) THEN Word(to, Number(from, w)) ELSE Canon(to, w)

CastOps(from, to, w) ==
    IF from = "ptr" THEN w
    ELSE IF Wasm(from) < Wasm(to) THEN Word(to, Number(from, w))
    ELSE Canon(to, Word(to, w))

\* i32.div_s and the like; the traps are in Traps.
Instr(o, t, a, b) ==
    CASE o = "+" -> Word(t, a + b)
      [] o = "-" -> Word(t, a - b)
      [] o = "*" -> Word(t, a * b)
      [] o = "/" -> Word(t, Quotient(Number(t, a), Number(t, b)))
      [] o = "%" -> Word(t, Remainder(Number(t, a), Number(t, b)))

Traps(o, t, a, b) ==
    \/ o \in {"/", "%"} /\ b = 0
    \/ /\ o = "/" /\ IsSigned(t)
       /\ 2 * a = WordModulus[t] /\ b = WordModulus[t] - 1
-----------------------------------------------------------------------------
(* Literals. *)

Uint64(x) == x % Modulus["i64"]

CheckFit(v, neg, t) ==
    IF neg THEN v <= (IF MinVal(t) < 0 THEN -(MinVal(t) + 1) + 1 ELSE 0)
    ELSE v <= MaxVal(t)

Integers == {t \in Types : IsInteger(t)}

Op(k) == [kind |-> k]
TypedOp(k, t) == [kind |-> k, type |-> t]
NumberOp(k, t, n) == [kind |-> k, type |-> t, number |-> n]

Operand(t, w) == [type |-> t, word |-> w]

Start ==
    /\ op = Op("start")
    /\ operands = <<>> /\ trapped = FALSE
    /\ \E t \in VarTypes : cell = [type |-> t, bits |-> 0]

Going == ~trapped /\ UNCHANGED trapped
Push(t, w) ==
    /\ Going /\ Len(operands) < MaxOperands
    /\ operands' = Append(operands, Operand(t, w))
    /\ UNCHANGED cell

\* n or -n, at the type the context wants.
Literal(t, v, neg) ==
    /\ CheckFit(v, neg, t)
    /\ Push(t, PushConst(t, IF neg THEN Uint64(-v) ELSE v))
    /\ op' = NumberOp("literal", t, IF neg THEN -v ELSE v)

\* The check looks at nothing else: one state of the stack is enough.
Reject(t, v, neg) ==
    /\ operands = <<>> /\ ~CheckFit(v, neg, t)
    /\ Going /\ UNCHANGED <<operands, cell>>
    /\ op' = NumberOp("rejected", t, IF neg THEN -v ELSE v)

\* -(n): n is checked, its negation is folded into a constant.
FoldedNegation(t, v) ==
    /\ CheckFit(v, FALSE, t)
    /\ Push(t, PushConst(t, Uint64(-v)))
    /\ op' = NumberOp("-(n)", t, v)

\* Characters and bools are pushed as they are.
PlainLiteral(t, v) ==
    /\ t \in {"u8", "bool"} /\ v \in Values(t)
    /\ Push(t, v)
    /\ op' = NumberOp("literal", t, v)

UseVariable ==
    /\ Push(cell.type, Load(cell.type, cell.bits))
    /\ op' = Op("variable")

\* The address of a variable, a string or a temp.
AddressOf(a) ==
    /\ "ptr" \in Types
    /\ Push("ptr", a)
    /\ op' = NumberOp("&", "ptr", a)

\* A host's result is used as it comes; w is any number of t, as a word.
ImportReturns(t, v) ==
    /\ v \in Values(t)
    /\ Push(t, Word(t, v))
    /\ op' = TypedOp("import", t)

-----------------------------------------------------------------------------
(* Operations on the operand on top. *)

Top == Last(operands)

Replace(t, w) ==
    /\ Going
    /\ operands' = Append(Front(operands), Operand(t, w))
    /\ UNCHANGED cell
Pop == Going /\ operands' = Front(operands) /\ UNCHANGED cell

Negate ==
    /\ operands # <<>> /\ IsInteger(Top.type)
    /\ Replace(Top.type, Canon(Top.type, Word(Top.type, 0 - Top.word)))
    /\ op' = Op("neg")

Not ==
    /\ operands # <<>> /\ Top.type = "bool"
    /\ Replace("bool", IF Top.word = 0 THEN 1 ELSE 0)
    /\ op' = Op("!")

Cast(to) ==
    /\ operands # <<>> /\ IF IsInteger(to) THEN IsInteger(Top.type) ELSE Top.type = to
    /\ Replace(to, CastOps(Top.type, to, Top.word))
    /\ op' = TypedOp("as", to)

\* The field of the struct at an address.
Field(offset) ==
    /\ operands # <<>> /\ Top.type = "ptr"
    /\ Replace("ptr", Word("ptr", Top.word + offset))
    /\ op' = NumberOp(".", "ptr", offset)

\* if ... else i32.const 0: with a true left operand the right one follows.
AndAlso ==
    /\ operands # <<>> /\ Top.type = "bool"
    /\ IF Top.word # 0 THEN Pop ELSE Replace("bool", 0)
    /\ op' = Op("&&")

OrElse ==
    /\ operands # <<>> /\ Top.type = "bool"
    /\ IF Top.word # 0 THEN Replace("bool", 1) ELSE Pop
    /\ op' = Op("||")

\* The end of the statement: the value is stored, or it is dropped, which
\* stands for all that use it up: a condition, a return, an argument.
Drop == Len(operands) = 1 /\ Pop /\ op' = Op("drop")

Assign ==
    /\ Len(operands) = 1 /\ Top.type = cell.type
    /\ Going
    /\ cell' = [cell EXCEPT !.bits = Store(cell.type, Top.word)]
    /\ operands' = <<>>
    /\ op' = Op("=")

-----------------------------------------------------------------------------
(* genBinary. *)

Left == operands[Len(operands) - 1]
Pair == Len(operands) > 1 /\ Left.type = Top.type
Reduce(t, w) ==
    /\ Going
    /\ operands' = Append(Front(Front(operands)), Operand(t, w))
    /\ UNCHANGED cell

\* Mutant: a quotient is taken to be in canonical form.
BinaryPlainQuotient(o) ==
    /\ Pair /\ IsInteger(Top.type) /\ ~Traps(o, Top.type, Left.word, Top.word)
    /\ LET w == Instr(o, Top.type, Left.word, Top.word)
       IN  Reduce(Top.type, IF o = "/" THEN w ELSE Canon(Top.type, w))
    /\ op' = Op(o)

Binary(o) ==
    /\ Pair /\ IsInteger(Top.type) /\ ~Traps(o, Top.type, Left.word, Top.word)
    /\ Reduce(Top.type, Canon(Top.type, Instr(o, Top.type, Left.word, Top.word)))
    /\ op' = Op(o)

\* A trap abandons the whole evaluation.
Trap(o) ==
    /\ Pair /\ IsInteger(Top.type) /\ Traps(o, Top.type, Left.word, Top.word)
    /\ ~trapped /\ trapped' = TRUE
    /\ operands' = <<>> /\ UNCHANGED cell
    /\ op' = Op(o)

Compare(o) ==
    /\ Pair /\ (IsInteger(Top.type) \/ o \in Equalities)
    /\ Reduce("bool",
              IF Holds(o, Number(Top.type, Left.word), Number(Top.type, Top.word))
              THEN 1 ELSE 0)
    /\ op' = Op(o)

\* Mutant: the index is cut to its type's width and loses its sign.
IndexUnsigned(size) ==
    /\ Len(operands) > 1 /\ Left.type = "ptr" /\ IsInteger(Top.type)
    /\ Reduce("ptr", Word("ptr", Left.word + (Top.word % Modulus[Top.type]) * size))
    /\ op' = NumberOp("[]", "ptr", size)

\* The index as an i32, times the size of an element.
Index(size) ==
    /\ Len(operands) > 1 /\ Left.type = "ptr" /\ IsInteger(Top.type)
    /\ Reduce("ptr", Word("ptr", Left.word + Word("ptr", Top.word) * size))
    /\ op' = NumberOp("[]", "ptr", size)

\* A call by the host spills the parameter into its slot: an integer may be
\* any word, a bool must be 0 or 1.
Enter(t, w) ==
    /\ operands = <<>>
    /\ t = "bool" => w \in Values(t)
    /\ cell' = [type |-> t, bits |-> Store(t, w)]
    /\ trapped' = FALSE /\ UNCHANGED operands
    /\ op' = TypedOp("enter", t)

Next ==
    \/ \E t \in Integers, v \in 0..(Modulus["i64"] - 1) :
          \/ FoldedNegation(t, v)
          \/ \E neg \in BOOLEAN : Literal(t, v, neg) \/ Reject(t, v, neg)
    \/ \E t \in {"u8", "bool"} : \E v \in Values(t) : PlainLiteral(t, v)
    \/ UseVariable
    \/ \E a \in Words("ptr") : AddressOf(a)
    \/ \E t \in Types : \E v \in Values(t) : ImportReturns(t, v)
    \/ Negate \/ Not \/ AndAlso \/ OrElse \/ Drop \/ Assign
    \/ \E t \in Types \ {"bool"} : Cast(t)
    \/ \E size \in Sizes : Field(size) \/ Index(size)
    \/ \E o \in ArithmeticOps : Binary(o) \/ Trap(o)
    \/ \E o \in Equalities \cup Orders : Compare(o)
    \/ \E t \in VarTypes : \E w \in Words(t) : Enter(t, w)

Spec == Start /\ [][Next]_vars

-----------------------------------------------------------------------------
(* What the code must guarantee. *)

TypeOK ==
    /\ operands \in Seq(UNION {[type : {t}, word : Words(t)] : t \in Types})
    /\ Len(operands) <= MaxOperands
    /\ cell.type \in VarTypes /\ cell.bits \in 0..(Modulus[cell.type] - 1)
    /\ trapped \in BOOLEAN /\ (trapped => operands = <<>>)

\* Whatever wraps around, is cast, cut by memory or passed by a host, every
\* operand is held in canonical form: it is the extension of a number of its
\* type, and never a word with stray upper bits, which comparisons, divisions
\* and widening casts would see (codegen.go:768-771, 832-834).
OperandsCanonical ==
    \A i \in DOMAIN operands :
        Number(operands[i].type, operands[i].word) \in Values(operands[i].type)

\* The words, read by the sign of their types, are the numbers the language
\* means: every step of the code is the step of the source's operation.
Meaning ==
    INSTANCE AbstractEval WITH
        operands <- [i \in DOMAIN operands |->
                        [type |-> operands[i].type,
                         value |-> Number(operands[i].type, operands[i].word)]],
        variable <- [type |-> cell.type,
                     value |-> Number(cell.type, Load(cell.type, cell.bits))]
ImplementsEval == Meaning!Spec
=============================================================================
