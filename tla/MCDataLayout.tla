---------------------------- MODULE MCDataLayout ----------------------------
(***************************************************************************)
(* DataLayout at a small scale: bytes of 16 values, pointers of 2 bytes,   *)
(* regions aligned to 4, and every order of three literals, one of them    *)
(* empty and one with a NUL inside, and of globals of every alignment.     *)
(***************************************************************************)
EXTENDS DataLayout

MCLiterals == {<<>>, <<7>>, <<7, 0, 9>>}

T(size, align, kind) == [size |-> size, align |-> align, kind |-> kind]
MCTypes == {T(1, 1, "int"), T(2, 2, "int"), T(4, 4, "int"), T(2, 2, "string"),
            T(3, 1, "other"), T(6, 2, "other"), T(0, 1, "other")}

MCInts == {-8, -1, 0, 1, 208}
=============================================================================
