------------------------------ MODULE Rounding ------------------------------
(***************************************************************************)
(* Rounding up to an alignment (AlignUp of internal/types/types.go), which *)
(* layouts of structs, frames and memory have in common.                   *)
(***************************************************************************)
EXTENDS Integers

\* (n + a - 1) &^ (a - 1) for a power of two a; the mask is all ones, and
\* the result 0, when a is the alignment 0 of a struct not laid out yet.
AlignUp(n, a) == IF a = 0 THEN 0 ELSE ((n + a - 1) \div a) * a
=============================================================================
