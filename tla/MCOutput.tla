------------------------------ MODULE MCOutput ------------------------------
(***************************************************************************)
(* Output with 8-bit integers, an itoa buffer that just holds "-128", and  *)
(* the strings "ab", its suffixes and "c" right above it.                  *)
(***************************************************************************)
EXTENDS Output

MCWord == 256
MCInts == {-128, -127, -100, -10, -9, -1, 0, 9, 10, 127}
MCStrings == [a \in 8..12 |-> <<97, 98, 0, 99, 0>>[a - 7]]
=============================================================================
