------------------------------ MODULE BumpHeap ------------------------------
(***************************************************************************)
(* The bump allocator of the embedded runtime ($rt_malloc and $rt_free in  *)
(* internal/codegen/runtime.go) over the linear memory the module declares *)
(* (emitModule in internal/codegen/codegen.go).                            *)
(*                                                                         *)
(* The allocator computes with i32s: every sum is taken modulo 2^32, the   *)
(* size of a memory of MaxPages pages.  The four constants are parameters  *)
(* so that the model can be checked at a small scale; the code has         *)
(* PageSize = MaxPages = 65536 and Alignment = 16.  A wasm instance is     *)
(* single-threaded, so a call of malloc is one step; between two calls the *)
(* host may grow the exported memory, and it may refuse a memory.grow.     *)
(***************************************************************************)
EXTENDS Integers

CONSTANTS
    PageSize,       \* bytes of a wasm page
    MaxPages,       \* most pages a memory can have
    Alignment,      \* of the blocks returned
    HeapBase        \* where the heap starts: the top of the shadow stack

\* Data, and the pages the module declares, fit in memory, or no engine
\* would accept the module; HeapBase is rounded up to 16 by layoutData.
ASSUME ConstantsOK ==
    /\ Alignment \in Nat \ {0}
    /\ PageSize \in Nat \ {0} /\ PageSize % Alignment = 0
    /\ MaxPages \in Nat \ {0}
    /\ HeapBase \in Nat \ {0} /\ HeapBase % Alignment = 0
    /\ HeapBase <= (MaxPages - 1) * PageSize

VARIABLES
    heap,           \* the global $__heap: where the next block starts
    pages,          \* memory.size
    live,           \* history: blocks returned and not freed, [ptr, len]
    last            \* history: the last call, its argument and outcome

vars == <<heap, pages, live, last>>

Word == PageSize * MaxPages
U32 == 0..(Word - 1)

\* emitModule: (heapBase + 0xffff) / 0x10000 + 1
InitPages == (HeapBase + PageSize - 1) \div PageSize + 1

Init ==
    /\ heap = HeapBase
    /\ pages = InitPages
    /\ live = {}
    /\ last = [op |-> "start", n |-> 0, outcome |-> "none"]

-----------------------------------------------------------------------------
\* Mutant: rounded up to two alignments.
RoundTwice(n) == Alignment * (((n + 2 * Alignment - 1) % Word) \div Alignment)

\* (n + 15) & -16, of an i32
RoundUp(n) == Alignment * (((n + Alignment - 1) % Word) \div Alignment)

\* Mutant: the sum is not one of 32 bits.
EndUnwrapped(n) == heap + RoundUp(n)

\* i32.add of the cursor and the rounded size
End(n) == (heap + RoundUp(n)) % Word

\* memory.size << 16: 0 when memory has all of its MaxPages pages
MemorySize == (pages * PageSize) % Word

\* Mutants: the last, partial page is not counted; one page too many.
ShortDown(n) == ((End(n) - MemorySize) % Word) \div PageSize
ShortPlusOne(n) == ((End(n) - MemorySize + PageSize - 1) % Word) \div PageSize + 1

\* the pages malloc asks for when End(n) is beyond MemorySize
Short(n) == ((End(n) - MemorySize + PageSize - 1) % Word) \div PageSize

\* Mutants: the sum is not checked; the rounded size is not checked.
TooLargeSizeOnly(n) == RoundUp(n) < n
TooLargeSumOnly(n) == End(n) < heap

TooLarge(n) == RoundUp(n) < n \/ End(n) < heap
Fits(n) == End(n) <= MemorySize

Outcome(op, n, o) == last' = [op |-> op, n |-> n, outcome |-> o]

\* Mutant: the cursor is left at the end of the bytes asked for.
ReturnUnrounded(n) ==
    /\ heap' = (heap + n) % Word
    /\ live' = live \cup {[ptr |-> heap, len |-> n]}
    /\ Outcome("malloc", n, "returned")

Return(n) ==
    /\ heap' = End(n)
    /\ live' = live \cup {[ptr |-> heap, len |-> n]}
    /\ Outcome("malloc", n, "returned")

\* unreachable: the call traps and what it would have assigned last, the
\* cursor, keeps its value
Trap(n, why) ==
    /\ Outcome("malloc", n, why)
    /\ UNCHANGED <<heap, pages, live>>

MallocTooLarge(n) == TooLarge(n) /\ Trap(n, "too large")

MallocFits(n) ==
    /\ ~TooLarge(n) /\ Fits(n)
    /\ Return(n)
    /\ UNCHANGED pages

MallocGrows(n) ==
    /\ ~TooLarge(n) /\ ~Fits(n)
    /\ pages + Short(n) <= MaxPages
    /\ pages' = pages + Short(n)
    /\ Return(n)

\* Mutant: the cursor is set before memory.grow is known to succeed.
MallocOutOfMemoryMoved(n) ==
    /\ ~TooLarge(n) /\ ~Fits(n)
    /\ Short(n) > 0
    /\ heap' = End(n)
    /\ Outcome("malloc", n, "out of memory")
    /\ UNCHANGED <<pages, live>>

\* memory.grow returns -1: beyond the limit, or refused by the host, which
\* can refuse any growth but that by 0 pages
MallocOutOfMemory(n) ==
    /\ ~TooLarge(n) /\ ~Fits(n)
    /\ Short(n) > 0
    /\ Trap(n, "out of memory")

\* $rt_free has an empty body: only the program's view of what is live changes
Free(b) ==
    /\ live' = live \ {b}
    /\ Outcome("free", 0, "returned")
    /\ UNCHANGED <<heap, pages>>

\* the memory is exported: the host can grow it between two calls
HostGrows(k) ==
    /\ pages + k <= MaxPages
    /\ pages' = pages + k
    /\ UNCHANGED <<heap, live, last>>

Next ==
    \/ \E n \in U32 : \/ MallocTooLarge(n) \/ MallocFits(n)
                      \/ MallocGrows(n) \/ MallocOutOfMemory(n)
    \/ \E b \in live : Free(b)
    \/ \E k \in 1..MaxPages : HostGrows(k)

Spec == Init /\ [][Next]_vars

-----------------------------------------------------------------------------
(* What the allocator must guarantee. *)

TypeOK ==
    /\ heap \in U32
    /\ pages \in InitPages..MaxPages
    /\ \A b \in live : b.ptr \in U32 /\ b.len \in U32
    /\ last.n \in U32
    /\ last.outcome \in {"none", "returned", "too large", "out of memory"}

\* The cursor never leaves the heap: it is aligned, at or above the top of
\* the shadow stack and within the memory there is.
CursorInHeap ==
    /\ heap % Alignment = 0
    /\ HeapBase <= heap /\ heap <= pages * PageSize

Disjoint(b, c) == b.ptr + b.len <= c.ptr \/ c.ptr + c.len <= b.ptr

\* Each live block is aligned, lies in the heap below the cursor, and shares
\* no byte with another, although both sums that place it can wrap around.
BlocksApart ==
    /\ \A b \in live :
          /\ b.ptr % Alignment = 0
          /\ HeapBase <= b.ptr /\ b.ptr + b.len <= heap
    /\ \A b, c \in live : b # c => Disjoint(b, c)

\* "silently move the heap cursor backwards" (runtime.go:151) never happens:
\* not by a call that returns, and a call that traps moves nothing.
NeverBackwards ==
    [][heap' >= heap /\ (last'.outcome # "returned" => heap' = heap)]_vars

\* malloc grows memory only for a block that does not fit, and by no page
\* more than that block needs.
GrowsOnlyAsNeeded ==
    [][heap' # heap /\ pages' # pages =>
          /\ heap' > pages * PageSize
          /\ heap' > (pages' - 1) * PageSize]_vars

\* The "too large" trap is no false alarm: the block really ends at or past
\* the end of the 32-bit address space.
TooLargeOnlyPastTheEnd ==
    last.outcome = "too large" => heap + last.n + Alignment > Word

\* The allocator keeps the promises of AbstractHeap.
Abstract == INSTANCE AbstractHeap WITH
    Base <- HeapBase,
    size <- pages * PageSize,
    trapped <- last.outcome \in {"too large", "out of memory"}

ImplementsHeap == Abstract!Spec

\* Claim of runtime.go:143-144 and :190: malloc runs out of memory only when
\* the heap outruns the memory there is.
OutOfMemoryOnlyWhenOutrun ==
    [][last'.outcome = "out of memory" /\ UNCHANGED pages =>
          heap + RoundUp(last'.n) > pages * PageSize]_vars
=============================================================================
