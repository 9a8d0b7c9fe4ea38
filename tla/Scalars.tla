------------------------------ MODULE Scalars -------------------------------
(***************************************************************************)
(* The scalar types of JabaScript and their numbers                        *)
(* (internal/types/types.go).                                              *)
(***************************************************************************)
EXTENDS Integers

CONSTANTS
    Types,      \* the scalar types in use: names out of AllTypes
    Width       \* the bits of a value of each type: 8 to 64 in the code

SignedTypes == {"i8", "i16", "i32", "i64"}
UnsignedTypes == {"u8", "u16", "u32", "u64"}
AllTypes == SignedTypes \cup UnsignedTypes \cup {"bool", "ptr"}

\* "ptr" stands for every pointer type: its values are addresses, that are added
\* to without looking at a sign.
\*
\* "u8" is the type of character literals and as wide as a bool in memory;
\* "i32" and "i64" give the widths of wasm's own two types.
ASSUME TypesOK ==
    /\ {"u8", "bool", "i32", "i64"} \subseteq Types /\ Types \subseteq AllTypes
    /\ Width \in [Types -> Nat \ {0}]
    /\ Width["bool"] = Width["u8"]
    /\ Width["i32"] < Width["i64"]
    /\ \A t \in Types \ {"u32", "i64", "u64", "ptr"} : t # "i32" => Width[t] < Width["i32"]
    /\ "ptr" \in Types => Width["ptr"] = Width["i32"]
    /\ "u32" \in Types => Width["u32"] = Width["i32"]
    /\ "u64" \in Types => Width["u64"] = Width["i64"]

\* The powers of two; a recursive function, as the proofs need their definition.
TwoTo[n \in Nat] == IF n = 0 THEN 1 ELSE 2 * TwoTo[n - 1]

IsInteger(t) == t \notin {"bool", "ptr"}
IsSigned(t) == t \in SignedTypes

\* As many numbers as a type's bits can tell apart.
Modulus == [t \in Types |-> TwoTo[Width[t]]]

\* MinMax, and the values a type has.
MinVal(t) == IF IsSigned(t) THEN -(Modulus[t] \div 2) ELSE 0
MaxVal(t) == CASE t = "bool" -> 1
            [] IsSigned(t) -> Modulus[t] \div 2 - 1
            [] OTHER -> Modulus[t] - 1
Values(t) == MinVal(t)..MaxVal(t)

\* The number of an integer type that x wraps around to.
Wrap(t, x) == ((x - MinVal(t)) % Modulus[t]) + MinVal(t)

\* Division that rounds towards zero, and its remainder.
Abs(a) == IF a < 0 THEN -a ELSE a
Quotient(a, b) == IF (a < 0) = (b < 0) THEN Abs(a) \div Abs(b) ELSE -(Abs(a) \div Abs(b))
Remainder(a, b) == a - b * Quotient(a, b)

ArithmeticOps == {"+", "-", "*", "/", "%"}
Equalities == {"==", "!="}
Orders == {"<", "<=", ">", ">="}

Holds(op, a, b) ==
    CASE op = "==" -> a = b
      [] op = "!=" -> a # b
      [] op = "<" -> a < b
      [] op = "<=" -> a <= b
      [] op = ">" -> a > b
      [] op = ">=" -> a >= b
=============================================================================
