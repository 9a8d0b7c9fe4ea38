---------------------------- MODULE MCScalarCode ----------------------------
(***************************************************************************)
(* ScalarCode with types of 2 to 5 bits: narrow ones of either sign, one   *)
(* between them and the words, and words of two widths.  op is the input   *)
(* of the step that has been taken and is left out of the view.            *)
(***************************************************************************)
EXTENDS ScalarCode

MCTypes == {"i8", "u8", "i16", "i32", "u32", "i64", "u64", "bool", "ptr"}
MCWidth ==
    [t \in MCTypes |->
        CASE t \in {"i8", "u8", "bool"} -> 2
          [] t = "i16" -> 3
          [] t \in {"i32", "u32", "ptr"} -> 4
          [] OTHER -> 5]

MCVarTypes == {"i8", "u8", "bool"}

Relevant == <<operands, cell, trapped>>
=============================================================================
