--------------------------- MODULE MCStructLayout ---------------------------
(***************************************************************************)
(* Programs of three structs for StructLayout.  The field lists cover      *)
(* every way to mention a struct (by value, behind a pointer, in an array, *)
(* an array of pointers, a pointer to an array), fields that need padding, *)
(* and each diagnostic; the declarations being interchangeable, all orders *)
(* of a program are among them.                                            *)
(***************************************************************************)
EXTENDS StructLayout

MCDeclOrder == <<"A", "B", "C">>
MCBuiltinSize == [u8 |-> 1, i32 |-> 4]

T(wrap, leaf) == [wrap |-> wrap, leaf |-> leaf]
F(name, type) == [name |-> name, type |-> type]

ValueTypes == {T(<<>>, s) : s \in Structs}
StructTypes ==
    ValueTypes \cup {T(w, s) : w \in {<<2>>, <<Ptr>>, <<Ptr, 2>>, <<2, Ptr>>}, s \in Structs}

MCBodies ==
    {<<>>, <<F("x", T(<<>>, "i32"))>>, <<F("x", T(<<3, 3>>, "i32"))>>}
    \cup {<<F("x", T(<<>>, "u8")), F("y", t)>> : t \in StructTypes}
    \cup {<<F("x", T(<<>>, s)), F("y", T(<<>>, "u8")), F("z", T(<<>>, "i32"))>> :
             s \in {"B", "C"}}
    \cup {<<F("x", T(<<>>, "A")), F("y", T(<<2>>, "B"))>>,
          <<F("x", T(<<>>, "u8")), F("x", T(<<>>, "A"))>>,
          <<F("x", T(<<2>>, "nosuch")), F("x", T(<<>>, "B"))>>}
=============================================================================
