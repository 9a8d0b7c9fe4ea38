----------------------------- MODULE ShadowStack -----------------------------
(***************************************************************************)
(* The shadow stack of a running module: $__sp and the frames that the     *)
(* prologues and epilogues of internal/codegen/codegen.go (emitFunc,       *)
(* emitEpilogue) carve out of linear memory.                               *)
(*                                                                         *)
(* acts is the engine's call stack.  Its first activation is the host,     *)
(* which calls exported functions ($_start among them, which only calls    *)
(* main); a function may call another, or an imported host function, and   *)
(* that one may call exports again.  A trap, or an exception thrown by the *)
(* host, unwinds the wasm activations down to the nearest host activation, *)
(* which may catch it and go on using the instance; nothing runs on the    *)
(* way, so $__sp keeps the value it had.  Addresses are plain integers:    *)
(* the i32 of the code is sp modulo 2^32.                                  *)
(***************************************************************************)
EXTENDS Integers, Sequences

CONSTANTS
    Functions,      \* functions defined in the file
    Frame,          \* function -> its frame size, fixed by the compiler
    StackTop,       \* initial $__sp
    StackSize,      \* bytes set aside for the stack
    MaxDepth,       \* activations the engine allows before it traps
    LowestSp        \* bound: sp is not followed below this address

ASSUME StackConstantsOK ==
    /\ Frame \in [Functions -> Nat] /\ "host" \notin Functions
    /\ StackTop \in Nat /\ StackSize \in Nat
    /\ MaxDepth \in Nat \ {0}
    /\ LowestSp \in Int /\ LowestSp <= StackTop

VARIABLES
    sp,             \* the global $__sp
    acts            \* activations, outermost first

stackVars == <<sp, acts>>

IsHost(a) == a.fn = "host"
Size(f) == IF f = "host" THEN 0 ELSE Frame[f]
Top == acts[Len(acts)]
Callers == SubSeq(acts, 1, Len(acts) - 1)

\* An activation of f entered when $__sp is s.  Two fields are history: entry
\* is s, and astray tells that a trap or exception has abandoned calls made
\* by this activation since, so that $__sp may be off.
Activation(f, s) ==
    [fn |-> f, fp |-> s - Size(f), entry |-> s, astray |-> FALSE]

StackInit ==
    /\ sp = StackTop
    /\ acts = <<Activation("host", StackTop)>>

-----------------------------------------------------------------------------
\* Mutant: a callee without a frame of its own.
CallUnframed(f) ==
    /\ Len(acts) < MaxDepth
    /\ acts' = Append(acts, Activation(f, sp))
    /\ UNCHANGED sp

\* Mutant: the prologue sets $__fp before it subtracts the frame's size.
CallTeesEarly(f) ==
    /\ Len(acts) < MaxDepth
    /\ sp - Frame[f] >= LowestSp
    /\ acts' = Append(acts, [Activation(f, sp) EXCEPT !.fp = sp])
    /\ sp' = sp - Frame[f]

\* The prologue of f: $__fp = $__sp = $__sp - frameSize.  The caller is the
\* function, or the host, on top.
Call(f) ==
    /\ Len(acts) < MaxDepth
    /\ sp - Frame[f] >= LowestSp
    /\ acts' = Append(acts, Activation(f, sp))
    /\ sp' = sp - Frame[f]

\* An extern fn: host functions have no frame in linear memory.
CallImport ==
    /\ ~IsHost(Top) /\ Len(acts) < MaxDepth
    /\ acts' = Append(acts, Activation("host", sp))
    /\ UNCHANGED sp

ImportReturns ==
    /\ IsHost(Top) /\ Len(acts) > 1
    /\ acts' = [Callers EXCEPT ![Len(acts) - 1].astray = @ \/ Top.astray]
    /\ UNCHANGED sp

\* Mutant: the epilogue adds to the stack pointer, not to the frame pointer.
ReturnRelative ==
    /\ ~IsHost(Top)
    /\ sp' = sp + Size(Top.fn)
    /\ acts' = Callers

\* The epilogue: $__sp = $__fp + frameSize, then return.
FunctionReturns ==
    /\ ~IsHost(Top)
    /\ sp' = Top.fp + Size(Top.fn)
    /\ acts' = Callers

\* The top activation, and those it was called by, are abandoned up to the
\* nearest activation of the host, which goes on.
Unwind ==
    \E h \in 1..(Len(acts) - 1) :
        /\ IsHost(acts[h])
        /\ \A i \in (h + 1)..(Len(acts) - 1) : ~IsHost(acts[i])
        /\ acts' = [SubSeq(acts, 1, h) EXCEPT ![h].astray = TRUE]

\* A trap anywhere in the body, the engine's stack limit included.
FunctionTraps ==
    /\ ~IsHost(Top)
    /\ Unwind
    /\ UNCHANGED sp

\* A value-returning function that falls off its end: the epilogue, then
\* unreachable.
FallOff ==
    /\ ~IsHost(Top)
    /\ sp' = Top.fp + Size(Top.fn)
    /\ Unwind

\* An imported function throws through the wasm frames that called it
\* (proc_exit never returns, so _start ends this way).
ImportThrows ==
    /\ IsHost(Top) /\ Len(acts) > 1
    /\ Unwind
    /\ UNCHANGED sp

StackNext ==
    \/ \E f \in Functions : Call(f)
    \/ CallImport \/ ImportReturns \/ ImportThrows
    \/ FunctionReturns \/ FunctionTraps \/ FallOff

StackSpec == StackInit /\ [][StackNext]_stackVars

-----------------------------------------------------------------------------
(* What calls and returns must guarantee. *)

Activations ==
    [fn : Functions \cup {"host"}, fp : Int, entry : Int, astray : BOOLEAN]

\* $__sp is an address that no epilogue raises above the top of the stack, where
\* the heap begins; the host's activation is outermost.
StackTypeOK ==
    /\ sp \in Int /\ sp <= StackTop
    /\ acts \in Seq(Activations) /\ Len(acts) >= 1
    /\ IsHost(acts[1])

\* No call writes over a frame that is still in use: the frames of the live
\* activations follow each other downwards without sharing a byte, and the
\* next one starts below them all, whatever trapped calls left behind.
FramesApart ==
    /\ \A i, j \in DOMAIN acts :
          i < j => acts[j].fp + Size(acts[j].fn) <= acts[i].fp
    /\ \A i \in DOMAIN acts : sp <= acts[i].fp

\* What a trap leaks stays in the activation that survives it: where no
\* calls of activation i were abandoned, $__sp is at i's own frame whenever
\* i runs, and was when i made the call it waits for.
LeakContained ==
    /\ ~Top.astray => sp = Top.fp
    /\ \A i \in 1..(Len(acts) - 1) :
          ~acts[i].astray => acts[i + 1].entry = acts[i].fp

\* The epilogue repairs it: when a function returns, its caller finds $__sp
\* where it left it, even if calls made in between trapped and were caught.
SpRestored == [][FunctionReturns => sp' = Top.entry]_stackVars

\* Claim of codegen.go:9-15: the shadow stack occupies the StackSize bytes
\* below stackTop, above the globals; so every frame lies there.
FramesInStack ==
    \A i \in DOMAIN acts : acts[i].fp >= StackTop - StackSize
=============================================================================
