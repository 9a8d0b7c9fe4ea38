------------------------------- MODULE Types -------------------------------
(***************************************************************************)
(* Sizes, alignments and struct layout of JabaScript types                 *)
(* (internal/types/types.go).                                              *)
(*                                                                         *)
(* A type is written [wrap |-> w, leaf |-> l]: its constructors from the   *)
(* outside in, each an array length or Ptr, around a named type.  The      *)
(* source's "*[4]S" is [wrap |-> <<Ptr, 4>>, leaf |-> "S"].  The leaf is a *)
(* built-in type or a struct; what is known of a struct's layout is the    *)
(* argument layout, because types.Struct is filled in while the checker is *)
(* still running (a struct not laid out yet has size and alignment 0).     *)
(***************************************************************************)
EXTENDS Integers, Sequences, FiniteSetsExt, Rounding

CONSTANTS
    BuiltinSize,    \* name of each built-in type -> its size in bytes
    PointerSize     \* size of a pointer

ASSUME SizesArePowersOfTwo ==
    /\ \A b \in DOMAIN BuiltinSize : BuiltinSize[b] \in {1, 2, 4, 8}
    /\ PointerSize \in {1, 2, 4, 8}

Builtins == DOMAIN BuiltinSize

\* The wrapper that is not an array length.
Ptr == -1

NotLaidOut == [fields |-> <<>>, size |-> 0, align |-> 0]

LeafSize(leaf, layout) ==
    IF leaf \in Builtins THEN BuiltinSize[leaf] ELSE layout[leaf].size

LeafAlign(leaf, layout) ==
    IF leaf \in Builtins THEN BuiltinSize[leaf] ELSE layout[leaf].align

\* SizesFrom(t, layout)[i] is the size of t without its i - 1 outer wrappers.
SizesFrom(t, layout) ==
    LET n == Len(t.wrap)
        size[i \in 1..(n + 1)] ==
            IF i = n + 1 THEN LeafSize(t.leaf, layout)
            ELSE IF t.wrap[i] = Ptr THEN PointerSize
            ELSE t.wrap[i] * size[i + 1]
    IN  size

Size(t, layout) == SizesFrom(t, layout)[1]

\* Arrays are aligned like their elements, so the outermost pointer decides.
Align(t, layout) ==
    IF \E i \in DOMAIN t.wrap : t.wrap[i] = Ptr
    THEN PointerSize
    ELSE LeafAlign(t.leaf, layout)

\* Struct.SetFields: the fields in order, each at the next multiple of its
\* alignment; the struct's size is rounded up to its largest alignment.
SetFields(fields, layout) ==
    LET A(i) == Align(fields[i].type, layout)
        end[i \in 0..Len(fields)] ==
            IF i = 0 THEN 0
            ELSE AlignUp(end[i - 1], A(i)) + Size(fields[i].type, layout)
        align == Max({1} \cup {A(i) : i \in DOMAIN fields})
    IN  [fields |-> [i \in DOMAIN fields |->
                        [name   |-> fields[i].name,
                         type   |-> fields[i].type,
                         offset |-> AlignUp(end[i - 1], A(i))]],
         size   |-> AlignUp(end[Len(fields)], align),
         align  |-> align]
=============================================================================
