----------------------------- MODULE DataLayout -----------------------------
(***************************************************************************)
(* The memory map of an emitted module (internal/codegen/codegen.go:       *)
(* layoutData, emitModule, constBytes, and the frame layout of emitFunc).  *)
(*                                                                         *)
(* One cursor, off, runs upwards from stringBase: over the string          *)
(* literals, each stored once, then over the globals; the shadow stack and *)
(* the heap follow.  emitModule turns strings and initialized globals into *)
(* data segments and declares the memory.  The frame of each function is   *)
(* laid out by a cursor of its own.  The program is chosen freely step by  *)
(* step: a literal, a global or a frame slot at a time.                    *)
(***************************************************************************)
EXTENDS Integers, Sequences, FiniteSets, Rounding

CONSTANTS
    Literals,       \* values of the program's string literals: byte sequences
    Types,          \* [size, align, kind] of globals and slots: "int" (of either
                    \* sign, char and bool included), "string" (*u8) or "other"
    Ints,           \* values of the integer, character and bool initializers
    ByteValues,     \* of a byte, 256 in the code
    ScratchEnd,     \* end of the runtime's scratch, 96
    StringBase,     \* 1024
    Alignment,      \* of the map's regions and of frames, 16
    StackSize,      \* 1 MiB
    PageSize,       \* of a wasm page, 65536
    MaxGlobals, MaxSlots    \* bounds

ASSUME ConstantsOK ==
    /\ \A t \in Types : /\ t.size \in Nat /\ t.align \in Nat \ {0}
                        /\ Alignment % t.align = 0
    /\ ByteValues \in Nat \ {0}
    /\ \A s \in Literals : s \in Seq(0..(ByteValues - 1))
    /\ Ints \subseteq Int
    /\ Alignment \in Nat \ {0} /\ PageSize \in Nat \ {0} /\ StackSize \in Nat
    /\ ScratchEnd \in Nat /\ StringBase \in Nat /\ ScratchEnd <= StringBase
    /\ StackSize % Alignment = 0
    /\ MaxGlobals \in Nat /\ MaxSlots \in Nat

VARIABLES
    phase,          \* "strings", "globals", "laidOut" or "emitted"
    off,            \* layoutData's cursor
    strOff,         \* interned literal -> its address
    globals,        \* the globals in order: [type, init, at]
    stackTop, heapBase,
    pages,          \* of the memory declared
    segments,       \* the data segments: [at, bytes]
    slots,          \* of the frame being laid out: [type, at]
    frameOff        \* the frame's cursor

frame == <<slots, frameOff>>
dataVars == <<phase, off, strOff, globals, stackTop, heapBase, pages, segments, frame>>

\* 256 to the k, by which v >> (8 * k) divides.
Power[k \in Nat] == IF k = 0 THEN 1 ELSE ByteValues * Power[k - 1]

DataInit ==
    /\ phase = "strings"
    /\ off = StringBase
    /\ strOff = <<>> /\ globals = <<>>
    /\ stackTop = 0 /\ heapBase = 0 /\ pages = 0
    /\ segments = {}
    /\ slots = <<>> /\ frameOff = 0

-----------------------------------------------------------------------------
Interned == DOMAIN strOff

\* Mutant: no room for the NUL.
InternUnterminated(s) ==
    /\ phase = "strings" /\ s \notin Interned
    /\ strOff' = [l \in Interned \cup {s} |-> IF l = s THEN off ELSE strOff[l]]
    /\ off' = off + Len(s)
    /\ UNCHANGED <<phase, globals, stackTop, heapBase, pages, segments, frame>>

\* A literal met for the first time; another of the same value shares it.
Intern(s) ==
    /\ phase = "strings" /\ s \notin Interned
    /\ strOff' = [l \in Interned \cup {s} |-> IF l = s THEN off ELSE strOff[l]]
    /\ off' = off + Len(s) + 1
    /\ UNCHANGED <<phase, globals, stackTop, heapBase, pages, segments, frame>>

EndStrings ==
    /\ phase = "strings"
    /\ phase' = "globals"
    /\ off' = AlignUp(off, Alignment)
    /\ UNCHANGED <<strOff, globals, stackTop, heapBase, pages, segments, frame>>

\* checkFit, over the signed and the unsigned type of a size.
FitsIn(v, size) == -Power[size] <= 2 * v /\ v < Power[size]

\* What checkGlobalInit accepts: nothing, an integer that fits the type, or
\* a string for a pointer to bytes.
Initializers(t) ==
    {[kind |-> "none"]}
    \cup {[kind |-> "int", val |-> v] : v \in {i \in Ints : t.kind = "int" /\ FitsIn(i, t.size)}}
    \cup {[kind |-> "str", val |-> s] : s \in {l \in Interned : t.kind = "string"}}

\* Mutant: the cursor is not aligned.
PlaceUnaligned(t, at) == [type |-> t, at |-> at]

\* The slot for a t at or after address at.
Place(t, at) == [type |-> t, at |-> AlignUp(at, t.align)]

PlaceGlobal(t, init) ==
    /\ phase = "globals" /\ Len(globals) < MaxGlobals
    /\ LET g == Place(t, off)
       IN  /\ globals' = Append(globals, [type |-> t, init |-> init, at |-> g.at])
           /\ off' = g.at + t.size
    /\ UNCHANGED <<phase, strOff, stackTop, heapBase, pages, segments, frame>>

EndGlobals ==
    /\ phase = "globals"
    /\ phase' = "laidOut"
    /\ stackTop' = AlignUp(off, Alignment) + StackSize
    /\ heapBase' = stackTop'
    /\ UNCHANGED <<off, strOff, globals, pages, segments, frame>>

-----------------------------------------------------------------------------
\* constBytes: the initializer as size bytes, least significant first; a
\* negative number in two's complement, a string as its address.
Value(init) == IF init.kind = "str" THEN strOff[init.val] ELSE init.val

\* Mutant: the digits are not cut to a byte.
ConstBytesWhole(g) ==
    [i \in 1..g.type.size |-> Value(g.init) \div Power[i - 1]]

ConstBytes(g) ==
    [i \in 1..g.type.size |-> (Value(g.init) \div Power[i - 1]) % ByteValues]

\* Mutant: allZero looks at the first byte only.
InitializedFirstByte(g) ==
    g.init.kind # "none" /\ g.type.size > 0 /\ ConstBytes(g)[1] # 0

Initialized(g) ==
    g.init.kind # "none" /\ \E i \in 1..g.type.size : ConstBytes(g)[i] # 0

StringSegment(s) == [at |-> strOff[s], bytes |-> Append(s, 0)]
GlobalSegment(g) == [at |-> g.at, bytes |-> ConstBytes(g)]

\* (heapBase + 0xffff) / 0x10000 + 1 pages, and the data segments: the order
\* in which they are written does not matter, no two being at one place.
EmitModule ==
    /\ phase = "laidOut"
    /\ phase' = "emitted"
    /\ pages' = (heapBase + PageSize - 1) \div PageSize + 1
    /\ segments' = {StringSegment(s) : s \in Interned}
                    \cup {GlobalSegment(globals[i]) :
                             i \in {k \in DOMAIN globals : Initialized(globals[k])}}
    /\ UNCHANGED <<off, strOff, globals, stackTop, heapBase, frame>>

\* emitFunc: a slot for a parameter, local or temp.
AddSlot(t) ==
    /\ phase = "emitted" /\ Len(slots) < MaxSlots
    /\ slots' = Append(slots, Place(t, frameOff))
    /\ frameOff' = Place(t, frameOff).at + t.size
    /\ UNCHANGED <<phase, off, strOff, globals, stackTop, heapBase, pages, segments>>

\* The size of the frame, and the next function.
frameSize == AlignUp(frameOff, Alignment)

NextFunction ==
    /\ phase = "emitted" /\ slots # <<>>
    /\ slots' = <<>> /\ frameOff' = 0
    /\ UNCHANGED <<phase, off, strOff, globals, stackTop, heapBase, pages, segments>>

DataNext ==
    \/ \E s \in Literals : Intern(s)
    \/ EndStrings
    \/ \E t \in Types : \E init \in Initializers(t) : PlaceGlobal(t, init)
    \/ EndGlobals \/ EmitModule
    \/ \E t \in Types : AddSlot(t)
    \/ NextFunction

DataSpec == DataInit /\ [][DataNext]_dataVars

-----------------------------------------------------------------------------
(* What the memory map must guarantee. *)

Bytes == 0..(ByteValues - 1)

DataTypeOK ==
    /\ phase \in {"strings", "globals", "laidOut", "emitted"}
    /\ off \in Nat /\ off >= StringBase
    /\ Interned \subseteq Literals /\ \A s \in Interned : strOff[s] \in Nat
    /\ \A i \in DOMAIN globals : globals[i].type \in Types /\ globals[i].at \in Nat
    /\ stackTop \in Nat /\ heapBase \in Nat /\ pages \in Nat
    /\ \A g \in segments : g.at \in Nat /\ \A i \in DOMAIN g.bytes : g.bytes[i] \in Bytes
    /\ \A i \in DOMAIN slots : slots[i].type \in Types /\ slots[i].at \in Nat
    /\ frameOff \in Nat

StringRange(s) == strOff[s]..(strOff[s] + Len(s))
GlobalRange(g) == g.at..(g.at + g.type.size - 1)

\* The regions of the map, each a set of addresses: every literal with its
\* NUL, every global, and, once laid out, the stack.
Regions ==
    {StringRange(s) : s \in Interned}
    \cup {GlobalRange(globals[i]) : i \in DOMAIN globals}

\* Nothing is placed in the runtime's scratch, no two of the literals and
\* globals share a byte, and the stack and the heap begin above all of them,
\* at multiples of 16; globals are aligned (codegen.go:8-15, 124-155).
RegionsApart ==
    /\ \A s, t \in Interned : s # t => StringRange(s) \cap StringRange(t) = {}
    /\ \A i, j \in DOMAIN globals :
          i # j => GlobalRange(globals[i]) \cap GlobalRange(globals[j]) = {}
    /\ \A s \in Interned, i \in DOMAIN globals :
          StringRange(s) \cap GlobalRange(globals[i]) = {}
    /\ \A r \in Regions : \A a \in r : ScratchEnd <= a /\ a < off
    /\ \A i \in DOMAIN globals : globals[i].at % globals[i].type.align = 0
    /\ phase \in {"laidOut", "emitted"} =>
          /\ off <= stackTop - StackSize
          /\ stackTop % Alignment = 0 /\ heapBase % Alignment = 0
          /\ stackTop <= heapBase

\* The byte at a when the module is instantiated: of a data segment that
\* covers a, or zero.
Covering(a) == {g \in segments : a \in g.at..(g.at + Len(g.bytes) - 1)}
Loaded(a) ==
    IF Covering(a) = {} THEN 0
    ELSE LET g == CHOOSE h \in Covering(a) : TRUE IN g.bytes[a - g.at + 1]

\* What a load of n bytes at a gives, least significant byte first.
Load(a, n) ==
    LET upTo[k \in Nat] ==
            IF k = 0 THEN 0
            ELSE upTo[k - 1] + Loaded(a + k - 1) * Power[k - 1]
    IN  upTo[n]

\* A program starts with its data in place: a literal reads as its bytes and
\* a NUL, a global as its initializer, up to a multiple of what its type can
\* hold, or as zero; and all of it, the stack and the first byte of the heap
\* included, lies in the memory the module declares (codegen.go:190-221).
DataInPlace ==
    phase = "emitted" =>
        /\ \A s \in Interned :
              /\ \A i \in DOMAIN s : Loaded(strOff[s] + i - 1) = s[i]
              /\ Loaded(strOff[s] + Len(s)) = 0
        /\ \A k \in DOMAIN globals : LET g == globals[k] IN
              (Load(g.at, g.type.size) - IF g.init.kind = "none" THEN 0 ELSE Value(g.init))
                  % Power[g.type.size] = 0
        /\ heapBase < pages * PageSize

\* The slots of a frame are aligned, share no byte and fit in the frame, and
\* its size keeps $__sp a multiple of 16, which is what makes the alignment
\* of an offset that of the address (codegen.go:319-347).
SlotsApart ==
    /\ \A i \in DOMAIN slots :
          /\ slots[i].at % slots[i].type.align = 0
          /\ slots[i].at + slots[i].type.size <= frameSize
    /\ \A i, j \in DOMAIN slots :
          i # j => GlobalRange(slots[i]) \cap GlobalRange(slots[j]) = {}
    /\ frameSize % Alignment = 0
=============================================================================
