---------------------------- MODULE AbstractHeap ----------------------------
(***************************************************************************)
(* What the runtime promises of malloc and free, whatever allocator it     *)
(* embeds: a block is aligned, lies in the heap part of memory and shares  *)
(* no byte with a block that is still live; memory never shrinks; and an   *)
(* allocation that cannot be served traps and changes nothing.             *)
(***************************************************************************)
EXTENDS Integers

CONSTANTS
    Base,           \* first address of the heap
    Alignment       \* of every block, in bytes

VARIABLES
    live,           \* blocks allocated and not freed: [ptr, len]
    size,           \* bytes of memory
    trapped         \* did the last call trap?

vars == <<live, size, trapped>>

Disjoint(b, c) == b.ptr + b.len <= c.ptr \/ c.ptr + c.len <= b.ptr

Init ==
    /\ live = {}
    /\ size \in Nat /\ size >= Base
    /\ trapped = FALSE

\* The block b may be handed out once memory has sz bytes.
Usable(b, sz) ==
    /\ b.ptr \in Nat /\ b.len \in Nat
    /\ Base <= b.ptr /\ b.ptr + b.len <= sz
    /\ b.ptr % Alignment = 0
    /\ \A c \in live : Disjoint(b, c)

Malloc ==
    /\ size' \in Nat /\ size' >= size
    /\ \E b \in live' : Usable(b, size') /\ live' = live \cup {b}
    /\ trapped' = FALSE

MallocTraps ==
    /\ trapped' = TRUE
    /\ UNCHANGED <<live, size>>

Free ==
    /\ \E b \in live : live' = live \ {b}
    /\ trapped' = FALSE
    /\ UNCHANGED size

Grow ==
    /\ size' \in Nat /\ size' > size
    /\ UNCHANGED <<live, trapped>>

Next == Malloc \/ MallocTraps \/ Free \/ Grow

Spec == Init /\ [][Next]_vars
=============================================================================
