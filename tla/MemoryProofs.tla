---------------------------- MODULE MemoryProofs ----------------------------
(***************************************************************************)
(* Proofs about the linear memory of a running module: the shadow stack    *)
(* for any functions, frame sizes, depth of calls and sequence of traps    *)
(* that the host catches; the bump allocator for every page size, memory   *)
(* size, alignment and heap base that satisfy ConstantsOK, the code's      *)
(* 65536, 65536 and 16 among them; and both at once.                       *)
(***************************************************************************)
EXTENDS ShadowStack, BumpHeap, Arithmetic, SequenceTheorems, TLAPS

-----------------------------------------------------------------------------
(* The shadow stack. *)

\* The frame an activation claimed lies right below what its caller left.
EntryAbove == \A i \in DOMAIN acts : acts[i].entry = acts[i].fp + Size(acts[i].fn)

\* The outermost host starts at the top of the stack.
HostAtTop == acts[1].fp = StackTop

StackIInv == StackTypeOK /\ EntryAbove /\ HostAtTop /\ FramesApart /\ LeakContained

\* Frame sizes are natural numbers, and the host has no frame.
LEMMA SizeNat ==
    ASSUME NEW f \in Functions \cup {"host"}
    PROVE  Size(f) \in Nat /\ Size("host") = 0 /\ (f \in Functions => Size(f) = Frame[f])
  BY StackConstantsOK DEF Size

\* The activations as a function on 1..Len(acts).
LEMMA ActsFacts ==
    ASSUME StackTypeOK
    PROVE  /\ Len(acts) \in Nat \ {0} /\ DOMAIN acts = 1..Len(acts)
           /\ sp \in Int
           /\ \A i \in 1..Len(acts) :
                 /\ acts[i] \in Activations
                 /\ acts[i].fp \in Int /\ acts[i].entry \in Int
                 /\ acts[i].astray \in BOOLEAN
                 /\ acts[i].fn \in Functions \cup {"host"}
                 /\ Size(acts[i].fn) \in Nat
  <1>1. acts \in Seq(Activations) /\ Len(acts) >= 1 /\ sp \in Int
    BY DEF StackTypeOK
  <1>2. Len(acts) \in Nat \ {0} /\ DOMAIN acts = 1..Len(acts)
    BY <1>1, LenProperties
  <1>3. ASSUME NEW i \in 1..Len(acts) PROVE acts[i] \in Activations
    BY <1>1, <1>2, LenProperties
  <1> QED
    BY <1>1, <1>2, <1>3, SizeNat DEF Activations

\* With the host's activation alone on the stack the invariant holds.
LEMMA StackInitIInv == StackInit => StackIInv
  <1> SUFFICES ASSUME StackInit PROVE StackIInv
    OBVIOUS
  <1> DEFINE a == Activation("host", StackTop)
  <1>1. sp = StackTop /\ acts = <<a>> /\ StackTop \in Int
    BY StackConstantsOK DEF StackInit
  <1>2. a.fn = "host" /\ a.fp = StackTop /\ a.entry = StackTop /\ a \in Activations
    BY <1>1, SizeNat DEF Activation, Activations
  <1> HIDE DEF a
  <1>3. Len(acts) = 1 /\ DOMAIN acts = {1} /\ acts[1] = a /\ acts \in Seq(Activations)
    BY <1>1, <1>2
  <1>4. Size("host") = 0
    BY SizeNat
  <1>5. StackTypeOK
    BY <1>1, <1>2, <1>3 DEF StackTypeOK, IsHost
  <1>6. EntryAbove
    BY <1>1, <1>2, <1>3, <1>4 DEF EntryAbove
  <1>7. FramesApart
    BY <1>1, <1>2, <1>3 DEF FramesApart
  <1>8. LeakContained
    BY <1>1, <1>2, <1>3 DEF LeakContained, Top
  <1>9. HostAtTop
    BY <1>2, <1>3 DEF HostAtTop
  <1> QED
    BY <1>5, <1>6, <1>7, <1>8, <1>9 DEF StackIInv

\* A new activation claims the bytes right below $__sp.
LEMMA PushIInv ==
    ASSUME StackIInv, NEW f \in Functions \cup {"host"},
           acts' = Append(acts, Activation(f, sp)), sp' = sp - Size(f)
    PROVE  StackIInv'
  <1> DEFINE n == Len(acts)
             a == Activation(f, sp)
  <1>1. /\ n \in Nat \ {0} /\ DOMAIN acts = 1..n /\ sp \in Int
        /\ \A i \in 1..n : /\ acts[i].fp \in Int /\ acts[i].entry \in Int
                           /\ Size(acts[i].fn) \in Nat
    BY ActsFacts DEF StackIInv
  <1>2. Size(f) \in Nat
    BY SizeNat
  <1>3. /\ a \in Activations /\ a.fn = f /\ a.fp = sp - Size(f) /\ a.entry = sp
        /\ a.astray = FALSE
    BY <1>1, <1>2 DEF Activation, Activations
  <1> HIDE DEF a
  <1>4. /\ acts' \in Seq(Activations) /\ Len(acts') = n + 1
        /\ DOMAIN acts' = 1..(n + 1)
        /\ \A i \in 1..n : acts'[i] = acts[i]
        /\ acts'[n + 1] = a
    BY <1>1, <1>3 DEF a, StackIInv, StackTypeOK
  <1>5. StackTypeOK'
    <2>1. sp' \in Int /\ sp' <= StackTop
      BY <1>1, <1>2, StackConstantsOK DEF StackIInv, StackTypeOK
    <2> QED
      BY <1>1, <1>4, <2>1 DEF StackIInv, StackTypeOK, IsHost
  <1>6. EntryAbove'
    <2> SUFFICES ASSUME NEW i \in 1..(n + 1)
                 PROVE  acts'[i].entry = acts'[i].fp + Size(acts'[i].fn)
      BY <1>4 DEF EntryAbove
    <2>1. CASE i \in 1..n
      BY <1>1, <1>4, <2>1 DEF StackIInv, EntryAbove
    <2>2. CASE i = n + 1
      BY <1>1, <1>2, <1>3, <1>4, <2>2
    <2> QED
      BY <1>1, <2>1, <2>2
  <1>7. FramesApart'
    <2>1. ASSUME NEW i \in 1..(n + 1) PROVE sp' <= acts'[i].fp
      <3>1. CASE i \in 1..n
        <4>1. sp <= acts[i].fp
          BY <1>1, <3>1 DEF StackIInv, FramesApart
        <4> QED
          BY <1>1, <1>2, <1>4, <3>1, <4>1
      <3>2. CASE i = n + 1
        BY <1>1, <1>2, <1>3, <1>4, <3>2
      <3> QED
        BY <1>1, <3>1, <3>2
    <2>2. ASSUME NEW i \in 1..(n + 1), NEW j \in 1..(n + 1), i < j
          PROVE  acts'[j].fp + Size(acts'[j].fn) <= acts'[i].fp
      <3>1. CASE j \in 1..n
        <4>1. i \in 1..n
          BY <1>1, <2>2, <3>1
        <4> QED
          BY <1>1, <1>4, <2>2, <3>1, <4>1 DEF StackIInv, FramesApart
      <3>2. CASE j = n + 1
        <4>1. i \in 1..n
          BY <1>1, <2>2, <3>2
        <4>2. sp <= acts[i].fp
          BY <1>1, <4>1 DEF StackIInv, FramesApart
        <4> QED
          BY <1>1, <1>2, <1>3, <1>4, <3>2, <4>1, <4>2
      <3> QED
        BY <1>1, <3>1, <3>2
    <2> QED
      BY <1>4, <2>1, <2>2 DEF FramesApart
  <1>8. LeakContained'
    <2>1. sp' = acts'[n + 1].fp
      BY <1>3, <1>4
    <2>2. ASSUME NEW i \in 1..n, ~acts'[i].astray
          PROVE  acts'[i + 1].entry = acts'[i].fp
      <3>1. CASE i = n
        <4>1. sp = acts[n].fp
          BY <1>4, <2>2, <3>1 DEF StackIInv, LeakContained, Top
        <4> QED
          BY <1>3, <1>4, <3>1, <4>1
      <3>2. CASE i \in 1..(n - 1)
        <4>1. i \in 1..n /\ i + 1 \in 1..n
          BY <1>1, <3>2
        <4>2. acts'[i] = acts[i] /\ acts'[i + 1] = acts[i + 1]
          BY <1>4, <4>1
        <4>3. acts[i + 1].entry = acts[i].fp
          BY <2>2, <3>2, <4>2 DEF StackIInv, LeakContained
        <4> QED
          BY <4>2, <4>3
      <3>3. i = n \/ i \in 1..(n - 1)
        <4>1. n \in Nat /\ i \in 1..n
          BY <1>1, <2>2
        <4> HIDE DEF n
        <4> QED
          BY <4>1
      <3> QED
        BY <3>1, <3>2, <3>3
    <2>3. Len(acts') = n + 1 /\ (n + 1) - 1 = n
      BY <1>1, <1>4
    <2> QED
      BY <2>1, <2>2, <2>3 DEF LeakContained, Top
  <1>9. HostAtTop'
    <2>1. 1 \in 1..n
      BY <1>1
    <2> QED
      BY <1>4, <2>1 DEF StackIInv, HostAtTop
  <1> QED
    BY <1>5, <1>6, <1>7, <1>8, <1>9 DEF StackIInv

\* Activations above h are gone, h goes on, perhaps astray now; $__sp is at
\* most h's frame pointer, and is equal to it if h is not astray.
LEMMA CutIInv ==
    ASSUME StackIInv, NEW h \in 1..Len(acts),
           acts' \in Seq(Activations), Len(acts') = h,
           \A i \in 1..(h - 1) : acts'[i] = acts[i],
           acts'[h].fn = acts[h].fn, acts'[h].fp = acts[h].fp,
           acts'[h].entry = acts[h].entry,
           sp' \in Int, sp' <= acts[h].fp,
           ~acts'[h].astray => sp' = acts[h].fp
    PROVE  StackIInv'
  <1>1. /\ Len(acts) \in Nat \ {0} /\ DOMAIN acts = 1..Len(acts)
        /\ \A i \in 1..Len(acts) : /\ acts[i].fp \in Int
                                   /\ Size(acts[i].fn) \in Nat
    BY ActsFacts DEF StackIInv
  <1>2. h \in Nat \ {0} /\ DOMAIN acts' = 1..h
    BY <1>1
  <1>3. ASSUME NEW i \in 1..h
        PROVE  /\ i \in 1..Len(acts)
               /\ acts'[i].fn = acts[i].fn /\ acts'[i].fp = acts[i].fp
               /\ acts'[i].entry = acts[i].entry
    <2>1. i = h \/ i \in 1..(h - 1)
      BY <1>2
    <2> QED
      BY <1>1, <2>1
  <1>4. StackTypeOK'
    <2>1. StackTop \in Int /\ acts[1].fp = StackTop
      BY StackConstantsOK DEF StackIInv, HostAtTop
    <2>2. acts[h].fp <= StackTop
      <3>1. CASE h = 1
        BY <2>1, <3>1
      <3>2. CASE 1 < h
        <4>1. 1 \in DOMAIN acts /\ h \in DOMAIN acts
          BY <1>1
        <4>2. acts[h].fp + Size(acts[h].fn) <= acts[1].fp
          BY <3>2, <4>1 DEF StackIInv, FramesApart
        <4> QED
          BY <1>1, <2>1, <4>2
      <3> QED
        BY <1>2, <3>1, <3>2
    <2>3. sp' <= StackTop
      BY <1>1, <2>1, <2>2
    <2> QED
      BY <1>1, <1>2, <1>3, <2>3 DEF StackIInv, StackTypeOK, IsHost
  <1>5. EntryAbove'
    BY <1>1, <1>2, <1>3 DEF StackIInv, EntryAbove
  <1>6. FramesApart'
    <2>1. ASSUME NEW i \in 1..h PROVE sp' <= acts'[i].fp
      <3>1. CASE i = h
        BY <1>3, <3>1
      <3>2. CASE i \in 1..(h - 1)
        <4>1. i \in 1..Len(acts) /\ i < h
          BY <1>2, <1>3, <3>2
        <4>2. acts[h].fp + Size(acts[h].fn) <= acts[i].fp
          BY <1>1, <4>1 DEF StackIInv, FramesApart
        <4>3. acts[h].fp \in Int /\ acts[i].fp \in Int /\ Size(acts[h].fn) \in Nat
          BY <1>1, <4>1
        <4> QED
          BY <1>3, <4>2, <4>3
      <3> QED
        BY <1>2, <3>1, <3>2
    <2>2. ASSUME NEW i \in 1..h, NEW j \in 1..h, i < j
          PROVE  acts'[j].fp + Size(acts'[j].fn) <= acts'[i].fp
      BY <1>1, <1>3, <2>2 DEF StackIInv, FramesApart
    <2> QED
      BY <1>2, <2>1, <2>2 DEF FramesApart
  <1>7. LeakContained'
    <2>1. ~acts'[h].astray => sp' = acts'[h].fp
      OBVIOUS
    <2>2. ASSUME NEW i \in 1..(h - 1), ~acts'[i].astray
          PROVE  acts'[i + 1].entry = acts'[i].fp
      <3>1. i \in 1..(Len(acts) - 1) /\ i + 1 \in 1..h
        BY <1>1, <1>2
      <3>2. acts'[i] = acts[i]
        OBVIOUS
      <3>3. acts'[i + 1].entry = acts[i + 1].entry
        BY <1>3, <3>1
      <3>4. acts[i + 1].entry = acts[i].fp
        BY <2>2, <3>1, <3>2 DEF StackIInv, LeakContained
      <3> QED
        BY <3>2, <3>3, <3>4
    <2> QED
      BY <2>1, <2>2 DEF LeakContained, Top
  <1>8. HostAtTop'
    <2>1. 1 \in 1..h
      BY <1>2
    <2> QED
      BY <1>3, <2>1 DEF StackIInv, HostAtTop
  <1> QED
    BY <1>4, <1>5, <1>6, <1>7, <1>8 DEF StackIInv

\* Leaving out the top activation leaves the others as they are.
LEMMA CallersFacts ==
    ASSUME StackTypeOK, Len(acts) > 1
    PROVE  /\ Callers \in Seq(Activations) /\ Len(Callers) = Len(acts) - 1
           /\ \A i \in 1..(Len(acts) - 1) : Callers[i] = acts[i]
  <1>1. Len(acts) \in Nat /\ \A i \in 1..Len(acts) : acts[i] \in Activations
    BY ActsFacts
  <1>2. \A i \in 1..(Len(acts) - 1) : acts[i] \in Activations
    BY <1>1
  <1> QED
    BY <1>1, <1>2, SubSeqProperties DEF Callers

\* Replacing one activation leaves the others as they are.
LEMMA ReplaceOne ==
    ASSUME NEW S, NEW s \in Seq(S), NEW h \in 1..Len(s), NEW e \in S
    PROVE  LET t == [s EXCEPT ![h] = e]
           IN  /\ t \in Seq(S) /\ Len(t) = Len(s) /\ t[h] = e
               /\ \A i \in 1..(h - 1) : t[i] = s[i]
  BY LenProperties, ExceptSeq

\* Only the host's activation is outermost.
LEMMA WasmHasCaller ==
    ASSUME StackTypeOK, ~IsHost(Top)
    PROVE  Len(acts) > 1
  BY ActsFacts DEF StackTypeOK, Top

\* The frame below the top one leaves room for it, and if it is not astray
\* it is where the top activation started.
LEMMA BelowTop ==
    ASSUME StackIInv, Len(acts) > 1
    PROVE  LET k == Len(acts) - 1
           IN  /\ k \in 1..Len(acts)
               /\ Top.fp \in Int /\ Size(Top.fn) \in Nat /\ acts[k].fp \in Int
               /\ Top.entry = Top.fp + Size(Top.fn)
               /\ Top.entry <= acts[k].fp
               /\ ~acts[k].astray => Top.entry = acts[k].fp
  <1> DEFINE n == Len(acts)
             k == n - 1
  <1>1. n \in Nat /\ DOMAIN acts = 1..n /\ n \in 1..n /\ k \in 1..n /\ k < n /\ k + 1 = n
    BY ActsFacts DEF StackIInv
  <1>2. /\ acts[n].fp \in Int /\ Size(acts[n].fn) \in Nat /\ acts[k].fp \in Int
    BY <1>1, ActsFacts DEF StackIInv
  <1>3. acts[n].entry = acts[n].fp + Size(acts[n].fn)
    BY <1>1 DEF StackIInv, EntryAbove
  <1>4. acts[n].fp + Size(acts[n].fn) <= acts[k].fp
    BY <1>1 DEF StackIInv, FramesApart
  <1>5. ~acts[k].astray => acts[k + 1].entry = acts[k].fp
    <2>1. k \in 1..(Len(acts) - 1)
      BY <1>1
    <2> QED
      BY <2>1 DEF StackIInv, LeakContained
  <1> QED
    BY <1>1, <1>2, <1>3, <1>4, <1>5 DEF Top

\* The epilogue of a function that returns keeps the invariant.
LEMMA ReturnIInv == ASSUME StackIInv, FunctionReturns PROVE StackIInv'
  <1> DEFINE k == Len(acts) - 1
  <1>1. Len(acts) > 1
    BY WasmHasCaller DEF StackIInv, FunctionReturns
  <1>2. /\ acts' \in Seq(Activations) /\ Len(acts') = k
        /\ \A i \in 1..k : acts'[i] = acts[i]
    BY <1>1, CallersFacts DEF StackIInv, FunctionReturns
  <1>3. sp' = Top.fp + Size(Top.fn)
    BY DEF FunctionReturns
  <1>4. /\ k \in 1..Len(acts) /\ Top.fp \in Int /\ Size(Top.fn) \in Nat
        /\ acts[k].fp \in Int /\ Top.entry = Top.fp + Size(Top.fn)
        /\ Top.entry <= acts[k].fp
        /\ ~acts[k].astray => Top.entry = acts[k].fp
    BY <1>1, BelowTop
  <1>5. acts'[k] = acts[k] /\ \A i \in 1..(k - 1) : acts'[i] = acts[i]
    BY <1>2, <1>4
  <1>6. sp' \in Int /\ sp' <= acts[k].fp
    BY <1>3, <1>4
  <1>7. ~acts'[k].astray => sp' = acts[k].fp
    BY <1>3, <1>4, <1>5
  <1>8. /\ k \in 1..Len(acts) /\ acts'[k].fn = acts[k].fn
        /\ acts'[k].fp = acts[k].fp /\ acts'[k].entry = acts[k].entry
    BY <1>4, <1>5
  <1> HIDE DEF k
  <1> QED
    BY <1>2, <1>5, <1>6, <1>7, <1>8, CutIInv

\* An unwound stack: whatever frame is on top, $__sp is no higher than the
\* frame of the activation that goes on.
LEMMA UnwindIInv ==
    ASSUME StackIInv, Unwind, sp' = sp \/ sp' = Top.fp + Size(Top.fn)
    PROVE  StackIInv'
  <1> DEFINE n == Len(acts)
  <1>1. n \in Nat \ {0} /\ DOMAIN acts = 1..n /\ sp \in Int
    BY ActsFacts DEF StackIInv
  <1>2. PICK h \in 1..(n - 1) : acts' = [SubSeq(acts, 1, h) EXCEPT ![h].astray = TRUE]
    BY DEF Unwind
  <1>3. h \in 1..n /\ h < n /\ n \in 1..n
    <2>1. n \in Nat \ {0} /\ h \in 1..(n - 1)
      BY <1>1, <1>2
    <2> HIDE DEF n
    <2> QED
      BY <2>1
  <1>4. /\ SubSeq(acts, 1, h) \in Seq(Activations) /\ Len(SubSeq(acts, 1, h)) = h
        /\ \A i \in 1..h : SubSeq(acts, 1, h)[i] = acts[i]
        /\ \A i \in 1..h : acts[i] \in Activations
    <2>1. ASSUME NEW i \in 1..h
          PROVE  acts[i] \in Activations
      <3>1. n \in Nat /\ h \in 1..n /\ i \in 1..h
        BY <1>1, <1>3
      <3>2. i \in 1..n
        <4> HIDE DEF n
        <4> QED
          BY <3>1
      <3> QED
        BY <3>2, ActsFacts DEF StackIInv
    <2> QED
      BY <1>1, <1>3, <2>1, SubSeqProperties
  <1> DEFINE below == SubSeq(acts, 1, h)
             b == [below[h] EXCEPT !.astray = TRUE]
  <1>5. h \in 1..h /\ below[h] = acts[h] /\ acts[h] \in Activations
    BY <1>1, <1>3, <1>4
  <1>6. /\ b \in Activations /\ b.fn = acts[h].fn /\ b.fp = acts[h].fp
        /\ b.entry = acts[h].entry /\ b.astray = TRUE
    BY <1>5 DEF Activations
  <1> HIDE DEF b
  <1>7. acts' = [below EXCEPT ![h] = b]
    BY <1>2 DEF b
  <1> HIDE DEF below
  <1>8. /\ acts' \in Seq(Activations) /\ Len(acts') = h /\ acts'[h] = b
        /\ \A i \in 1..(h - 1) : acts'[i] = below[i]
    <2>1. below \in Seq(Activations) /\ Len(below) = h /\ h \in 1..Len(below)
      BY <1>4, <1>5 DEF below
    <2> QED
      BY <1>3, <1>6, <1>7, <2>1, ReplaceOne
  <1>9. \A i \in 1..(h - 1) : acts'[i] = acts[i]
    BY <1>3, <1>4, <1>8 DEF below
  <1>10. sp' \in Int /\ sp' <= acts[h].fp
    <2>1. CASE sp' = sp
      BY <1>1, <1>3, <2>1 DEF StackIInv, FramesApart
    <2>2. CASE sp' = Top.fp + Size(Top.fn)
      <3>1. acts[n].fp + Size(acts[n].fn) <= acts[h].fp
        BY <1>1, <1>3 DEF StackIInv, FramesApart
      <3>2. acts[n].fp \in Int /\ Size(acts[n].fn) \in Nat
        BY <1>3, ActsFacts DEF StackIInv
      <3> QED
        BY <2>2, <3>1, <3>2 DEF Top
    <2> QED
      BY <2>1, <2>2
  <1> HIDE DEF n
  <1> QED
    BY <1>3, <1>6, <1>8, <1>9, <1>10, CutIInv DEF n

\* A host function that returns keeps the invariant: what calls it made
\* and abandoned is passed on to its caller's history.
LEMMA ImportReturnsIInv == ASSUME StackIInv, ImportReturns PROVE StackIInv'
  <1> DEFINE k == Len(acts) - 1
  <1>1. Len(acts) > 1 /\ IsHost(Top) /\ sp' = sp
        /\ acts' = [Callers EXCEPT ![k].astray = @ \/ Top.astray]
    BY DEF ImportReturns
  <1>2. /\ Callers \in Seq(Activations) /\ Len(Callers) = k
        /\ \A i \in 1..k : Callers[i] = acts[i]
    BY <1>1, CallersFacts DEF StackIInv
  <1>3. /\ k \in 1..Len(acts) /\ Top.fp \in Int /\ Size(Top.fn) \in Nat
        /\ acts[k].fp \in Int /\ Top.entry = Top.fp + Size(Top.fn)
        /\ Top.entry <= acts[k].fp
        /\ ~acts[k].astray => Top.entry = acts[k].fp
    BY <1>1, BelowTop
  <1>4. acts[k] \in Activations /\ k \in 1..k /\ Callers[k] = acts[k] /\ Len(acts) \in Nat
    <2>1. Len(acts) \in Nat /\ k \in 1..k
      BY <1>1, <1>3, ActsFacts DEF StackIInv
    <2> QED
      BY <1>2, <1>3, <2>1, ActsFacts DEF StackIInv
  <1>5. Top.astray \in BOOLEAN /\ sp \in Int /\ sp <= acts[k].fp
    <2>1. Len(acts) \in 1..Len(acts)
      BY <1>1, <1>4
    <2> QED
      BY <1>3, <2>1, ActsFacts DEF StackIInv, FramesApart, Top
  <1> DEFINE b == [Callers[k] EXCEPT !.astray = @ \/ Top.astray]
  <1>6. /\ b \in Activations /\ b.fn = acts[k].fn /\ b.fp = acts[k].fp
        /\ b.entry = acts[k].entry /\ b.astray = (acts[k].astray \/ Top.astray)
    BY <1>4, <1>5 DEF Activations
  <1>7. acts' = [Callers EXCEPT ![k] = b]
    BY <1>1
  <1> HIDE DEF b
  <1>8. /\ acts' \in Seq(Activations) /\ Len(acts') = k /\ acts'[k] = b
        /\ \A i \in 1..(k - 1) : acts'[i] = Callers[i]
    BY <1>2, <1>4, <1>6, <1>7, ReplaceOne
  <1>10. \A i \in 1..(k - 1) : acts'[i] = acts[i]
    BY <1>2, <1>4, <1>8
  <1>9. ~acts'[k].astray => sp' = acts[k].fp
    <2>1. SUFFICES ASSUME ~acts[k].astray, ~Top.astray PROVE sp = acts[k].fp
      BY <1>1, <1>6, <1>8
    <2>2. sp = Top.fp
      BY <2>1 DEF StackIInv, LeakContained
    <2>3. Size(Top.fn) = 0
      BY <1>1, SizeNat DEF IsHost
    <2>4. Top.entry = acts[k].fp /\ Top.fp \in Int /\ Top.entry = Top.fp + Size(Top.fn)
      BY <1>3, <2>1
    <2> QED
      BY <2>2, <2>3, <2>4
  <1> HIDE DEF k
  <1> QED
    BY <1>1, <1>3, <1>5, <1>6, <1>8, <1>9, <1>10, CutIInv

\* One step per action: no call, return, trap or exception breaks the
\* invariant.
LEMMA StackNextIInv == StackIInv /\ [StackNext]_stackVars => StackIInv'
  <1> SUFFICES ASSUME StackIInv, [StackNext]_stackVars PROVE StackIInv'
    OBVIOUS
  <1>1. ASSUME NEW f \in Functions, Call(f) PROVE StackIInv'
    <2>1. sp' = sp - Size(f)
      BY <1>1, SizeNat DEF Call
    <2> QED
      BY <1>1, <2>1, PushIInv DEF Call
  <1>2. CASE CallImport
    <2>1. sp' = sp - Size("host")
      BY <1>2, SizeNat, ActsFacts DEF CallImport, StackIInv
    <2> QED
      BY <1>2, <2>1, PushIInv DEF CallImport
  <1>3. CASE ImportReturns
    BY <1>3, ImportReturnsIInv
  <1>4. CASE ImportThrows
    BY <1>4, UnwindIInv DEF ImportThrows
  <1>5. CASE FunctionReturns
    BY <1>5, ReturnIInv
  <1>6. CASE FunctionTraps
    BY <1>6, UnwindIInv DEF FunctionTraps
  <1>7. CASE FallOff
    BY <1>7, UnwindIInv DEF FallOff
  <1>8. CASE UNCHANGED stackVars
    BY <1>8 DEF stackVars, StackIInv, StackTypeOK, EntryAbove, HostAtTop, FramesApart,
                LeakContained, IsHost, Top
  <1> QED
    BY <1>1, <1>2, <1>3, <1>4, <1>5, <1>6, <1>7, <1>8 DEF StackNext

-----------------------------------------------------------------------------
\* The inductive invariant holds in every reachable state of the stack.
THEOREM StackInvariant == StackSpec => []StackIInv
  BY StackInitIInv, StackNextIInv, PTL DEF StackSpec

\* $__sp is never above the top of the stack, whatever the epilogues of functions
\* that trapped, returned or fell off their end added to it (emitEpilogue), and
\* acts is a stack of activations on a host's.
THEOREM StackTypeCorrect == StackSpec => []StackTypeOK
  <1>1. StackIInv => StackTypeOK
    BY DEF StackIInv
  <1> QED
    BY <1>1, StackInvariant, PTL

\* However calls nest, trap, throw and are caught, no two live frames share
\* a byte and the next frame is below them all.
THEOREM FramesNeverOverlap == StackSpec => []FramesApart
  <1>1. StackIInv => FramesApart
    BY DEF StackIInv
  <1> QED
    BY <1>1, StackInvariant, PTL

\* The stack space a trap leaks is out of reach only of the activation that
\* caught the trap.
THEOREM LeaksContained == StackSpec => []LeakContained
  <1>1. StackIInv => LeakContained
    BY DEF StackIInv
  <1> QED
    BY <1>1, StackInvariant, PTL

\* Returning gives the caller the $__sp it had, leaks of the callee included.
THEOREM ReturnRestores == StackSpec => SpRestored
  <1>1. ASSUME StackIInv, FunctionReturns PROVE sp' = Top.entry
    <2>1. Len(acts) > 1
      BY <1>1, WasmHasCaller DEF StackIInv, FunctionReturns
    <2> QED
      BY <1>1, <2>1, BelowTop DEF FunctionReturns
  <1>2. StackIInv => [FunctionReturns => sp' = Top.entry]_stackVars
    BY <1>1
  <1> QED
    BY <1>2, StackInvariant, PTL DEF StackSpec, SpRestored

-----------------------------------------------------------------------------
(* Arithmetic. *)

\* Multiplying by a natural number keeps the order of two page counts.
LEMMA TimesMonotonic ==
    ASSUME NEW m \in Nat, NEW j \in Nat, NEW k \in Nat, j <= k
    PROVE  j * m \in Nat /\ k * m \in Nat /\ j * m <= k * m
  <1>1. CASE j = k
    BY <1>1
  <1>2. CASE j < k
    <2>1. m * j + m <= m * k
      BY <1>2, MultipleBelow
    <2> QED
      BY <2>1
  <1> QED
    BY <1>1, <1>2

\* A sum that fits in 32 bits is not changed by wrapping around.
LEMMA ModSmall ==
    ASSUME NEW m \in Nat \ {0}, NEW x \in Nat, x < m
    PROVE  x % m = x
  OBVIOUS

\* A sum of two 32-bit numbers that does not fit wraps around once.
LEMMA ModOnce ==
    ASSUME NEW m \in Nat \ {0}, NEW x \in Nat, m <= x, x < 2 * m
    PROVE  x % m = x - m
  OBVIOUS

-----------------------------------------------------------------------------
(* The constants. *)

\* Pages below the limit leave room for one more.
LEMMA PageFits ==
    ASSUME NEW p \in Nat, p < MaxPages
    PROVE  p * PageSize + PageSize <= Word
  <1>1. PageSize \in Nat /\ MaxPages \in Nat
    BY ConstantsOK
  <1>2. PageSize * p + PageSize <= PageSize * MaxPages
    BY <1>1, MultipleBelow
  <1> QED
    BY <1>1, <1>2 DEF Word

\* The address space is not empty and holds a page at least.
LEMMA WordPositive == Word \in Nat \ {0} /\ PageSize <= Word
  <1>1. PageSize \in Nat \ {0} /\ MaxPages \in Nat \ {0}
    BY ConstantsOK
  <1>2. 0 * PageSize + PageSize <= Word
    BY <1>1, PageFits
  <1>3. Word \in Nat
    BY <1>1 DEF Word
  <1> QED
    BY <1>1, <1>2, <1>3

\* The module is declared with room for the heap's first byte, within the
\* limit of the address space.
LEMMA InitialMemory ==
    /\ InitPages \in Nat /\ 1 <= InitPages /\ InitPages <= MaxPages
    /\ HeapBase <= InitPages * PageSize
    /\ HeapBase < Word
  <1> DEFINE c == (HeapBase + PageSize - 1) \div PageSize
  <1>1. /\ PageSize \in Nat \ {0} /\ MaxPages \in Nat \ {0} /\ HeapBase \in Nat \ {0}
        /\ HeapBase <= (MaxPages - 1) * PageSize
    BY ConstantsOK
  <1>2. c \in Nat /\ HeapBase <= PageSize * c /\ PageSize * c < HeapBase + PageSize
    BY <1>1, CeilingDivision
  <1>3. (MaxPages - 1) * PageSize + PageSize = PageSize * MaxPages
    BY <1>1
  <1>4. c < MaxPages
    <2>1. SUFFICES ASSUME MaxPages <= c PROVE FALSE
      BY <1>1, <1>2
    <2>2. PageSize * MaxPages <= PageSize * c
      <3>1. CASE MaxPages = c
        BY <1>1, <1>2, <3>1
      <3>2. CASE MaxPages < c
        <4>1. PageSize * MaxPages + PageSize <= PageSize * c
          BY <1>1, <1>2, <3>2, MultipleBelow
        <4> QED
          BY <1>1, <1>2, <4>1
      <3> QED
        BY <1>1, <1>2, <2>1, <3>1, <3>2
    <2> QED
      BY <1>1, <1>2, <1>3, <2>2
  <1>5. InitPages = c + 1
    BY DEF InitPages
  <1>6. InitPages * PageSize = PageSize * c + PageSize
    BY <1>1, <1>2, <1>5
  <1>7. HeapBase < Word
    BY <1>1, <1>3, WordPositive DEF Word
  <1> QED
    BY <1>1, <1>2, <1>4, <1>5, <1>6, <1>7

-----------------------------------------------------------------------------
(* What malloc computes. *)

\* Rounding wraps or it covers n with less than an alignment to spare; what
\* it gives is aligned either way.
LEMMA Rounding ==
    ASSUME NEW n \in U32
    PROVE  /\ RoundUp(n) \in U32
           /\ RoundUp(n) % Alignment = 0
           /\ RoundUp(n) < n + Alignment
           /\ n + Alignment <= Word => n <= RoundUp(n)
  <1> DEFINE x == (n + Alignment - 1) % Word
  <1>1. Alignment \in Nat \ {0} /\ Word \in Nat \ {0} /\ n \in Nat /\ n < Word
    BY ConstantsOK, WordPositive DEF U32
  <1>2. n + Alignment - 1 \in Nat
    BY <1>1
  <1>3. x \in 0..(Word - 1) /\ x <= n + Alignment - 1
    <2>1. x \in 0..(Word - 1)
      BY <1>1, <1>2, DivisionNat
    <2>2. CASE n + Alignment - 1 < Word
      BY <1>1, <1>2, <2>1, <2>2, ModSmall
    <2>3. CASE ~(n + Alignment - 1 < Word)
      BY <1>1, <1>2, <2>1, <2>3
    <2> QED
      BY <2>1, <2>2, <2>3
  <1>7. n + Alignment <= Word => x = n + Alignment - 1
    BY <1>1, <1>2, ModSmall
  <1> DEFINE k == x \div Alignment
  <1>5. RoundUp(n) = Alignment * k
    BY DEF RoundUp
  <1> HIDE DEF x
  <1>4. k \in Nat /\ x = Alignment * k + (x % Alignment) /\ x % Alignment \in 0..(Alignment - 1)
    <2>1. x \in Nat
      BY <1>1, <1>3
    <2> QED
      BY <1>1, <2>1, DivisionNat
  <1> HIDE DEF k
  <1>6. (Alignment * k) % Alignment = 0
    <2>1. k \in Int
      BY <1>4
    <2> QED
      BY <1>1, <2>1, MultipleMod
  <1>8. Alignment * k \in Nat
    BY <1>1, <1>4
  <1> DEFINE y == Alignment * k
             r == x % Alignment
  <1>9. y \in Nat /\ r \in 0..(Alignment - 1) /\ x = y + r
    BY <1>4, <1>8
  <1>10. RoundUp(n) = y /\ y % Alignment = 0
    BY <1>5, <1>6
  <1> HIDE DEF y, r
  <1> QED
    BY <1>1, <1>3, <1>7, <1>9, <1>10 DEF U32

\* An accepted sum did not wrap: the block of n bytes fits below it.
LEMMA EndOfBlock ==
    ASSUME TypeOK, NEW n \in U32, ~TooLarge(n)
    PROVE  /\ End(n) = heap + RoundUp(n)
           /\ End(n) \in U32
           /\ heap + n <= End(n)
  <1>1. Word \in Nat \ {0} /\ heap \in 0..(Word - 1) /\ n \in 0..(Word - 1)
    BY WordPositive DEF TypeOK, U32
  <1>2. RoundUp(n) \in 0..(Word - 1)
    BY Rounding DEF U32
  <1>3. ~(RoundUp(n) < n) /\ ~(End(n) < heap)
    BY DEF TooLarge
  <1>4. heap + RoundUp(n) < Word
    <2>1. SUFFICES ASSUME Word <= heap + RoundUp(n) PROVE FALSE
      BY <1>1, <1>2
    <2>2. End(n) = heap + RoundUp(n) - Word
      BY <1>1, <1>2, <2>1, ModOnce DEF End
    <2> QED
      BY <1>1, <1>2, <1>3, <2>2
  <1>5. End(n) = heap + RoundUp(n)
    BY <1>1, <1>2, <1>4, ModSmall DEF End
  <1> QED
    BY <1>1, <1>2, <1>3, <1>4, <1>5 DEF U32

\* memory.size is between the pages declared and the limit.
LEMMA PagesInRange ==
    ASSUME TypeOK
    PROVE  /\ pages \in Nat \ {0} /\ InitPages <= pages /\ pages <= MaxPages
           /\ MaxPages \in Nat /\ InitPages \in Nat
  <1>1. pages \in InitPages..MaxPages
    BY DEF TypeOK
  <1>2. MaxPages \in Nat
    BY ConstantsOK
  <1> QED
    BY <1>1, <1>2, InitialMemory

\* memory.size << 16 is the size of memory, unless memory is at its limit.
LEMMA MemorySizeWraps ==
    ASSUME TypeOK
    PROVE  /\ pages \in Nat \ {0} /\ pages * PageSize \in Nat
           /\ pages < MaxPages =>
                 MemorySize = pages * PageSize /\ pages * PageSize + PageSize <= Word
           /\ pages = MaxPages => MemorySize = 0 /\ pages * PageSize = Word
  <1>1. Word \in Nat \ {0} /\ PageSize \in Nat \ {0} /\ MaxPages \in Nat \ {0}
    BY ConstantsOK, WordPositive
  <1>2. pages \in Nat \ {0}
    BY PagesInRange
  <1>3. ASSUME pages < MaxPages
        PROVE  MemorySize = pages * PageSize /\ pages * PageSize + PageSize <= Word
    <2>1. pages * PageSize + PageSize <= Word
      BY <1>2, <1>3, PageFits
    <2>2. pages * PageSize \in Nat
      BY <1>1, <1>2
    <2>3. pages * PageSize < Word
      BY <1>1, <2>1, <2>2
    <2> QED
      BY <1>1, <2>1, <2>2, <2>3, ModSmall DEF MemorySize
  <1>4. ASSUME pages = MaxPages
        PROVE  MemorySize = 0 /\ pages * PageSize = Word
    <2>1. pages * PageSize = Word
      BY <1>1, <1>4 DEF Word
    <2>2. Word % Word = 0
      BY <1>1, ModOnce
    <2> QED
      BY <2>1, <2>2 DEF MemorySize
  <1> QED
    BY <1>1, <1>2, <1>3, <1>4

\* When malloc takes a block to fit (end <= memory.size << 16), it does,
\* even if the product wrapped around to 0.
LEMMA FitsInMemory ==
    ASSUME TypeOK, NEW n \in U32, ~TooLarge(n), Fits(n)
    PROVE  End(n) <= pages * PageSize
  <1>1. End(n) \in Nat /\ Word \in Nat
    BY EndOfBlock, WordPositive DEF U32
  <1>2. End(n) <= MemorySize
    BY DEF Fits
  <1>3. pages <= MaxPages /\ pages \in Nat /\ MaxPages \in Nat
    BY PagesInRange
  <1> QED
    BY <1>1, <1>2, <1>3, MemorySizeWraps

\* The pages malloc grows by, when it can, are enough and no more than that.
LEMMA GrowthSuffices ==
    ASSUME TypeOK, NEW n \in U32, ~TooLarge(n), ~Fits(n), pages + Short(n) <= MaxPages
    PROVE  /\ Short(n) \in Nat
           /\ End(n) <= (pages + Short(n)) * PageSize
           /\ Short(n) # 0 => /\ pages * PageSize < End(n)
                              /\ (pages + Short(n) - 1) * PageSize < End(n)
  <1>1. Word \in Nat \ {0} /\ PageSize \in Nat \ {0} /\ MaxPages \in Nat \ {0}
    BY ConstantsOK, WordPositive
  <1>2. pages \in Nat \ {0} /\ pages <= MaxPages /\ pages * PageSize \in Nat
    BY <1>1, PagesInRange
  <1>3. End(n) \in Nat /\ End(n) < Word
    BY <1>1, EndOfBlock DEF U32
  <1> DEFINE short == Short(n)
  <1>4. MemorySize \in Nat /\ MemorySize < End(n)
    <2>1. MemorySize \in Nat
      BY <1>1, <1>2, MemorySizeWraps
    <2> QED
      BY <1>3, <2>1 DEF Fits
  <1>5. Short(n) \in Nat
    <2> DEFINE d == (End(n) - MemorySize + PageSize - 1)
    <2>1. d \in Nat
      BY <1>1, <1>3, <1>4
    <2>2. d % Word \in Nat
      BY <1>1, <2>1, DivisionNat
    <2>3. (d % Word) \div PageSize \in Nat
      BY <1>1, <2>2, DivisionNat
    <2> QED
      BY <2>3 DEF Short
  <1>6. CASE pages = MaxPages
    <2>1. Short(n) = 0
      BY <1>1, <1>5, <1>6
    <2>2. pages * PageSize = Word
      BY <1>6, MemorySizeWraps
    <2> QED
      BY <1>1, <1>2, <1>3, <2>1, <2>2
  <1>7. CASE pages < MaxPages
    <2>1. MemorySize = pages * PageSize /\ pages * PageSize + PageSize <= Word
      BY <1>7, MemorySizeWraps
    <2> DEFINE d == End(n) - MemorySize
    <2>2. d \in Nat /\ d + PageSize - 1 \in Nat /\ d + PageSize - 1 < Word
      BY <1>1, <1>2, <1>3, <1>4, <2>1
    <2>3. Short(n) = (d + PageSize - 1) \div PageSize
      BY <1>1, <2>2, ModSmall DEF Short
    <2>4. d <= PageSize * Short(n) /\ PageSize * Short(n) < d + PageSize
      BY <1>1, <2>2, <2>3, CeilingDivision
    <2>5. /\ (pages + Short(n)) * PageSize = pages * PageSize + PageSize * Short(n)
          /\ (pages + Short(n) - 1) * PageSize
                = pages * PageSize + PageSize * Short(n) - PageSize
      BY <1>1, <1>2, <1>5
    <2>6. PageSize * Short(n) \in Nat
      BY <1>1, <1>5
    <2> HIDE DEF d
    <2>7. d = End(n) - pages * PageSize
      BY <2>1 DEF d
    <2> QED
      BY <1>1, <1>2, <1>3, <1>4, <1>5, <2>1, <2>4, <2>5, <2>6, <2>7
  <1> QED
    BY <1>1, <1>2, <1>6, <1>7

-----------------------------------------------------------------------------
(* The inductive invariant. *)

\* BlocksApart alone is not inductive: the next block is apart from the live
\* ones because the cursor is beyond them all, inside memory, and aligned.
IInv == TypeOK /\ CursorInHeap /\ BlocksApart /\ TooLargeOnlyPastTheEnd

\* What the invariant says of one block.
LEMMA BlockInHeap ==
    ASSUME TypeOK, BlocksApart, NEW b \in live
    PROVE  /\ b.ptr \in Nat /\ b.len \in Nat /\ b.ptr % Alignment = 0
           /\ HeapBase <= b.ptr /\ b.ptr + b.len <= heap
  <1>1. Word \in Nat
    BY WordPositive
  <1>2. b.ptr \in U32 /\ b.len \in U32
    BY DEF TypeOK
  <1> QED
    BY <1>1, <1>2 DEF BlocksApart, U32

\* The module as instantiated satisfies the invariant.
LEMMA InitIInv == Init => IInv
  <1> SUFFICES ASSUME Init PROVE IInv
    OBVIOUS
  <1> USE DEF Init
  <1>1. HeapBase \in Nat \ {0} /\ HeapBase % Alignment = 0 /\ MaxPages \in Nat
    BY ConstantsOK
  <1>2. TypeOK
    BY <1>1, InitialMemory, WordPositive DEF TypeOK, U32
  <1>3. CursorInHeap
    BY <1>1, InitialMemory DEF CursorInHeap
  <1>4. BlocksApart
    BY DEF BlocksApart
  <1>5. TooLargeOnlyPastTheEnd
    BY DEF TooLargeOnlyPastTheEnd
  <1> QED
    BY <1>2, <1>3, <1>4, <1>5 DEF IInv

\* What the two ways for malloc to return have in common: the new block lies
\* between the old cursor and the new one, and the new one in memory.
LEMMA Returns ==
    ASSUME IInv, NEW n \in U32, MallocFits(n) \/ MallocGrows(n)
    PROVE  /\ heap' = heap + RoundUp(n) /\ heap' \in U32
           /\ heap + n <= heap'
           /\ pages' \in Nat /\ pages <= pages' /\ pages' <= MaxPages
           /\ heap' <= pages' * PageSize
           /\ live' = live \cup {[ptr |-> heap, len |-> n]}
           /\ last' = [op |-> "malloc", n |-> n, outcome |-> "returned"]
  <1>1. TypeOK
    BY DEF IInv
  <1>2. ~TooLarge(n) /\ Return(n)
    BY DEF MallocFits, MallocGrows
  <1>3. /\ heap' = heap + RoundUp(n) /\ heap' \in U32
        /\ heap + n <= heap' /\ heap' = End(n)
    BY <1>1, <1>2, EndOfBlock DEF Return
  <1>4. /\ pages' \in Nat /\ pages <= pages' /\ pages' <= MaxPages
        /\ heap' <= pages' * PageSize
    <2>1. pages \in Nat /\ pages <= MaxPages
      BY <1>1, PagesInRange
    <2>2. CASE MallocFits(n)
      BY <1>1, <1>2, <1>3, <2>1, <2>2, FitsInMemory DEF MallocFits
    <2>3. CASE MallocGrows(n)
      <3>1. ~Fits(n) /\ pages + Short(n) <= MaxPages /\ pages' = pages + Short(n)
        BY <2>3 DEF MallocGrows
      <3> QED
        BY <1>1, <1>2, <1>3, <2>1, <3>1, GrowthSuffices
    <2> QED
      BY <2>2, <2>3
  <1> QED
    BY <1>2, <1>3, <1>4 DEF Return, Outcome

\* A malloc that returns, with or without memory.grow, keeps the invariant.
LEMMA MallocReturnsIInv ==
    ASSUME IInv, NEW n \in U32, MallocFits(n) \/ MallocGrows(n)
    PROVE  IInv'
  <1> DEFINE new == [ptr |-> heap, len |-> n]
  <1>1. /\ heap' = heap + RoundUp(n) /\ heap' \in U32
        /\ heap + n <= heap'
        /\ pages' \in Nat /\ pages <= pages' /\ pages' <= MaxPages
        /\ heap' <= pages' * PageSize
        /\ live' = live \cup {new}
        /\ last' = [op |-> "malloc", n |-> n, outcome |-> "returned"]
    BY Returns
  <1>2. TypeOK /\ CursorInHeap /\ BlocksApart
    BY DEF IInv
  <1>3. /\ Alignment \in Nat \ {0} /\ HeapBase \in Nat /\ Word \in Nat
        /\ InitPages \in Nat /\ MaxPages \in Nat
    BY ConstantsOK, WordPositive, InitialMemory
  <1>4. heap \in U32 /\ new.ptr = heap /\ new.len = n
    BY <1>2 DEF TypeOK
  <1>5. TypeOK'
    <2>1. pages' \in InitPages..MaxPages
      <3>1. InitPages <= pages /\ pages \in Nat
        BY <1>2, PagesInRange
      <3> QED
        BY <1>1, <1>3, <3>1
    <2>2. \A b \in live' : b.ptr \in U32 /\ b.len \in U32
      BY <1>1, <1>2, <1>4 DEF TypeOK
    <2> QED
      BY <1>1, <2>1, <2>2 DEF TypeOK, U32, Word, InitPages
  <1>6. CursorInHeap'
    <2>1. heap % Alignment = 0 /\ HeapBase <= heap /\ heap \in Nat
      BY <1>2, <1>3, <1>4 DEF CursorInHeap, U32
    <2>2. RoundUp(n) \in Nat /\ RoundUp(n) % Alignment = 0
      BY <1>3, Rounding DEF U32
    <2>3. heap' % Alignment = 0
      BY <1>1, <1>3, <2>1, <2>2, AlignedSum
    <2> QED
      BY <1>1, <1>3, <2>1, <2>2, <2>3 DEF CursorInHeap
  <1>7. BlocksApart'
    <2>1. heap \in Nat /\ n \in Nat /\ heap' \in Nat /\ heap <= heap'
      BY <1>1, <1>3, <1>4 DEF U32
    <2>2. ASSUME NEW b \in live
          PROVE  /\ b.ptr % Alignment = 0 /\ b.ptr \in Nat /\ b.len \in Nat
                 /\ HeapBase <= b.ptr /\ b.ptr + b.len <= heap
      BY <1>2, BlockInHeap
    <2>3. new.ptr % Alignment = 0 /\ HeapBase <= new.ptr
      BY <1>2, <1>4 DEF CursorInHeap
    <2>4. ASSUME NEW b \in live'
          PROVE  b.ptr % Alignment = 0 /\ HeapBase <= b.ptr /\ b.ptr + b.len <= heap'
      <3>1. CASE b \in live
        BY <1>3, <2>1, <2>2, <3>1
      <3>2. CASE b = new
        BY <1>1, <1>4, <2>3, <3>2
      <3> QED
        BY <1>1, <3>1, <3>2
    <2>5. ASSUME NEW b \in live', NEW c \in live', b # c
          PROVE  Disjoint(b, c)
      <3>1. CASE b \in live /\ c \in live
        BY <1>2, <2>5, <3>1 DEF BlocksApart
      <3>2. CASE b = new /\ c \in live
        BY <1>4, <2>1, <2>2, <3>2 DEF Disjoint
      <3>3. CASE b \in live /\ c = new
        BY <1>4, <2>1, <2>2, <3>3 DEF Disjoint
      <3> QED
        BY <1>1, <2>5, <3>1, <3>2, <3>3
    <2> QED
      BY <2>4, <2>5 DEF BlocksApart, Disjoint
  <1>8. TooLargeOnlyPastTheEnd'
    BY <1>1 DEF TooLargeOnlyPastTheEnd
  <1> QED
    BY <1>5, <1>6, <1>7, <1>8 DEF IInv

\* The trap "allocation too large" keeps the invariant, and was justified.
LEMMA MallocTooLargeIInv ==
    ASSUME IInv, NEW n \in U32, MallocTooLarge(n)
    PROVE  IInv'
  <1> DEFINE r == RoundUp(n)
  <1>1. /\ UNCHANGED <<heap, pages, live>> /\ TooLarge(n)
        /\ last' = [op |-> "malloc", n |-> n, outcome |-> "too large"]
    BY DEF MallocTooLarge, Trap, Outcome
  <1>2. TypeOK' /\ CursorInHeap' /\ BlocksApart'
    BY <1>1 DEF IInv, TypeOK, CursorInHeap, BlocksApart, Disjoint, U32, Word, InitPages
  <1>3. heap + n + Alignment > Word
    <2>1. /\ Word \in Nat \ {0} /\ Alignment \in Nat \ {0}
          /\ heap \in 0..(Word - 1) /\ n \in 0..(Word - 1)
      BY ConstantsOK, WordPositive DEF IInv, TypeOK, U32
    <2>2. /\ r \in 0..(Word - 1) /\ r < n + Alignment
          /\ n + Alignment <= Word => n <= r
      BY Rounding DEF U32
    <2>3. CASE r < n
      BY <2>1, <2>2, <2>3
    <2>4. CASE End(n) < heap
      <3>1. Word <= heap + r
        <4>1. SUFFICES ASSUME heap + r < Word PROVE FALSE
          BY <2>1, <2>2
        <4>2. End(n) = heap + r
          BY <2>1, <2>2, <4>1, ModSmall DEF End
        <4> QED
          BY <2>1, <2>2, <2>4, <4>2
      <3> QED
        BY <2>1, <2>2, <3>1
    <2> QED
      BY <1>1, <2>3, <2>4 DEF TooLarge
  <1>4. TooLargeOnlyPastTheEnd'
    BY <1>1, <1>3 DEF TooLargeOnlyPastTheEnd, Word
  <1> QED
    BY <1>2, <1>4 DEF IInv

\* One step per action: what the allocator's invariant is, no step breaks.
LEMMA NextIInv == IInv /\ [Next]_vars => IInv'
  <1> SUFFICES ASSUME IInv, [Next]_vars PROVE IInv'
    OBVIOUS
  <1> USE DEF IInv
  <1>1. ASSUME NEW n \in U32, MallocTooLarge(n) PROVE IInv'
    BY <1>1, MallocTooLargeIInv
  <1>2. ASSUME NEW n \in U32, MallocFits(n) \/ MallocGrows(n) PROVE IInv'
    BY <1>2, MallocReturnsIInv
  <1>3. ASSUME NEW n \in U32, MallocOutOfMemory(n) PROVE IInv'
    BY <1>3 DEF MallocOutOfMemory, Trap, Outcome, TypeOK, CursorInHeap, BlocksApart,
                Disjoint, TooLargeOnlyPastTheEnd, U32, Word, InitPages
  <1>4. ASSUME NEW b \in live, Free(b) PROVE IInv'
    <2>1. 0 \in U32
      BY WordPositive DEF U32
    <2> QED
      BY <1>4, <2>1 DEF Free, Outcome, TypeOK, CursorInHeap, BlocksApart,
                Disjoint, TooLargeOnlyPastTheEnd, U32, Word, InitPages
  <1>5. ASSUME NEW k \in 1..MaxPages, HostGrows(k) PROVE IInv'
    <2>1. /\ pages' = pages + k /\ pages' <= MaxPages /\ UNCHANGED <<heap, live, last>>
      BY <1>5 DEF HostGrows
    <2>2. /\ PageSize \in Nat \ {0} /\ InitPages \in Nat /\ MaxPages \in Nat
          /\ pages \in Nat /\ InitPages <= pages
          /\ pages * PageSize \in Nat /\ heap \in Nat
      <3>1. Word \in Nat /\ PageSize \in Nat \ {0}
        BY ConstantsOK, WordPositive
      <3>2. heap \in U32
        BY DEF TypeOK
      <3> QED
        BY <3>1, <3>2, PagesInRange, MemorySizeWraps DEF U32
    <2>3. pages * PageSize <= pages' * PageSize
      BY <2>1, <2>2
    <2>4. pages' \in InitPages..MaxPages
      BY <2>1, <2>2
    <2>5. TypeOK'
      BY <2>1, <2>4 DEF TypeOK, U32, Word, InitPages
    <2>6. CursorInHeap'
      BY <2>1, <2>2, <2>3 DEF CursorInHeap
    <2>7. BlocksApart' /\ TooLargeOnlyPastTheEnd'
      BY <2>1 DEF BlocksApart, Disjoint, TooLargeOnlyPastTheEnd, Word
    <2> QED
      BY <2>5, <2>6, <2>7
  <1>6. CASE UNCHANGED vars
    BY <1>6 DEF vars, TypeOK, CursorInHeap, BlocksApart,
                Disjoint, TooLargeOnlyPastTheEnd, U32, Word, InitPages
  <1> QED
    BY <1>1, <1>2, <1>3, <1>4, <1>5, <1>6 DEF Next

-----------------------------------------------------------------------------
(* The theorems. *)

\* The inductive invariant holds in every reachable state of the allocator.
THEOREM Invariant == Spec => []IInv
  <1> QED
    BY InitIInv, NextIInv, PTL DEF Spec

\* Cursor, pages and blocks stay 32-bit addresses within the page limit.
THEOREM TypeCorrect == Spec => []TypeOK
  <1>1. IInv => TypeOK
    BY DEF IInv
  <1> QED
    BY <1>1, Invariant, PTL

\* The cursor stays aligned, at or above the heap's base and inside the memory
\* that is present, whatever the sums in malloc do.
THEOREM CursorSafe == Spec => []CursorInHeap
  <1>1. IInv => CursorInHeap
    BY DEF IInv
  <1> QED
    BY <1>1, Invariant, PTL

\* For any page size, limit and alignment, malloc hands out aligned blocks
\* inside the heap that never share a byte with a live one.
THEOREM AllocationSafe == Spec => [](CursorInHeap /\ BlocksApart)
  <1>1. IInv => CursorInHeap /\ BlocksApart
    BY DEF IInv
  <1> QED
    BY <1>1, Invariant, PTL

\* The "too large" trap is taken only when the address space really ends.
THEOREM TooLargeJustified == Spec => []TooLargeOnlyPastTheEnd
  <1>1. IInv => TooLargeOnlyPastTheEnd
    BY DEF IInv
  <1> QED
    BY <1>1, Invariant, PTL

\* A step that is no return of malloc leaves the cursor alone.
LEMMA CursorSteps ==
    ASSUME IInv, [Next]_vars
    PROVE  \/ UNCHANGED heap
           \/ \E n \in U32 : MallocFits(n) \/ MallocGrows(n)
  BY DEF Next, vars, MallocTooLarge, MallocOutOfMemory, Trap, Free, HostGrows

\* No sum that wraps, and no call that traps, moves the cursor backwards.
THEOREM CursorMonotonic == Spec => NeverBackwards
  <1>1. ASSUME IInv, [Next]_vars
        PROVE  [heap' >= heap /\ (last'.outcome # "returned" => heap' = heap)]_vars
    <2>1. Word \in Nat /\ heap \in U32
      BY <1>1, WordPositive DEF IInv, TypeOK
    <2>2. CASE UNCHANGED heap
      BY <2>1, <2>2 DEF U32
    <2>3. ASSUME NEW n \in U32, MallocFits(n) \/ MallocGrows(n)
          PROVE  heap' >= heap /\ last'.outcome = "returned"
      BY <1>1, <2>1, <2>3, Returns DEF U32
    <2> QED
      BY <1>1, <2>2, <2>3, CursorSteps
  <1> QED
    BY <1>1, Invariant, PTL DEF Spec, NeverBackwards

\* malloc asks the host for no page more than the block needs.
THEOREM GrowthMinimal == Spec => GrowsOnlyAsNeeded
  <1>1. ASSUME IInv, [Next]_vars
        PROVE  [heap' # heap /\ pages' # pages =>
                   /\ heap' > pages * PageSize
                   /\ heap' > (pages' - 1) * PageSize]_vars
    <2>1. SUFFICES ASSUME heap' # heap, pages' # pages
                   PROVE  heap' > pages * PageSize /\ heap' > (pages' - 1) * PageSize
      OBVIOUS
    <2>2. PICK n \in U32 : MallocGrows(n)
      BY <1>1, <2>1, CursorSteps DEF MallocFits
    <2>3. /\ ~TooLarge(n) /\ ~Fits(n) /\ pages + Short(n) <= MaxPages
          /\ pages' = pages + Short(n) /\ heap' = End(n)
      BY <2>2 DEF MallocGrows, Return
    <2>4. TypeOK /\ pages \in Nat
      BY <1>1, PagesInRange DEF IInv
    <2>5. Short(n) # 0
      BY <2>1, <2>3, <2>4
    <2> QED
      BY <2>3, <2>4, <2>5, GrowthSuffices
  <1> QED
    BY <1>1, Invariant, PTL DEF Spec, GrowsOnlyAsNeeded

\* A call that returns is a step of the abstract malloc: the block it hands
\* out is usable, and memory has not shrunk.
LEMMA ReturnRefines ==
    ASSUME IInv, NEW n \in U32, MallocFits(n) \/ MallocGrows(n)
    PROVE  Abstract!Malloc
  <1> DEFINE new == [ptr |-> heap, len |-> n]
  <1>1. /\ heap + n <= heap' /\ heap' \in U32
        /\ pages' \in Nat /\ pages <= pages'
        /\ heap' <= pages' * PageSize
        /\ live' = live \cup {new}
        /\ last' = [op |-> "malloc", n |-> n, outcome |-> "returned"]
    BY Returns
  <1>2. TypeOK /\ CursorInHeap /\ BlocksApart
    BY DEF IInv
  <1>3. /\ PageSize \in Nat /\ HeapBase \in Nat /\ Word \in Nat /\ pages \in Nat
        /\ heap \in Nat /\ n \in Nat /\ heap' \in Nat
    <2>1. Word \in Nat /\ heap \in U32
      BY <1>2, WordPositive DEF TypeOK
    <2> QED
      BY <1>1, <1>2, <2>1, ConstantsOK, PagesInRange DEF U32
  <1>4. pages' * PageSize \in Nat /\ pages' * PageSize >= pages * PageSize
    <2>1. pages' \in Nat /\ pages <= pages'
      BY <1>1
    <2> QED
      BY <1>3, <2>1, TimesMonotonic
  <1>5. new.ptr = heap /\ new.len = n /\ new \in live'
    BY <1>1
  <1>6. Abstract!Usable(new, pages' * PageSize)
    <2>1. HeapBase <= heap /\ heap % Alignment = 0
      BY <1>2 DEF CursorInHeap
    <2>2. heap + n <= pages' * PageSize
      <3>1. heap + n <= heap' /\ heap' <= pages' * PageSize
        BY <1>1
      <3> QED
        BY <1>3, <1>4, <3>1
    <2>3. ASSUME NEW c \in live PROVE Abstract!Disjoint(new, c)
      <3>1. c.ptr \in Nat /\ c.len \in Nat /\ c.ptr + c.len <= heap
        BY <1>2, BlockInHeap
      <3> QED
        BY <1>5, <3>1 DEF Abstract!Disjoint
    <2> QED
      BY <1>3, <1>5, <2>1, <2>2, <2>3 DEF Abstract!Usable
  <1>7. (last'.outcome \in {"too large", "out of memory"}) = FALSE
    BY <1>1
  <1> HIDE DEF new
  <1> QED
    BY <1>1, <1>4, <1>5, <1>6, <1>7 DEF Abstract!Malloc

\* A call of malloc that traps is a trapping allocation of AbstractHeap.
LEMMA TrapRefines ==
    ASSUME NEW n \in U32, MallocTooLarge(n) \/ MallocOutOfMemory(n)
    PROVE  Abstract!MallocTraps
  <1>1. /\ last'.outcome = "too large" \/ last'.outcome = "out of memory"
        /\ UNCHANGED <<live, pages>>
    <2>1. CASE MallocTooLarge(n)
      BY <2>1 DEF MallocTooLarge, Trap, Outcome
    <2>2. CASE MallocOutOfMemory(n)
      BY <2>2 DEF MallocOutOfMemory, Trap, Outcome
    <2> QED
      BY <2>1, <2>2
  <1>2. (last'.outcome \in {"too large", "out of memory"}) = TRUE
    BY <1>1
  <1> QED
    BY <1>1, <1>2 DEF Abstract!MallocTraps

\* The bump allocator implements the abstract heap: every step is one of its
\* steps, or changes nothing it can see.
THEOREM Refinement == Spec => ImplementsHeap
  <1>1. Init => Abstract!Init
    <2> SUFFICES ASSUME Init PROVE Abstract!Init
      OBVIOUS
    <2>1. /\ HeapBase \in Nat /\ PageSize \in Nat /\ InitPages \in Nat
          /\ HeapBase <= InitPages * PageSize
      BY ConstantsOK, InitialMemory
    <2>2. /\ InitPages * PageSize \in Nat /\ pages = InitPages /\ live = {}
          /\ (last.outcome \in {"too large", "out of memory"}) = FALSE
      BY <2>1 DEF Init
    <2> QED
      BY <2>1, <2>2 DEF Abstract!Init
  <1>2. IInv /\ [Next]_vars => [Abstract!Next]_(Abstract!vars)
    <2> SUFFICES ASSUME IInv, [Next]_vars
                 PROVE  Abstract!Next \/ UNCHANGED Abstract!vars
      OBVIOUS
    <2>1. ASSUME NEW n \in U32, MallocTooLarge(n) \/ MallocOutOfMemory(n)
          PROVE  Abstract!Next
      BY <2>1, TrapRefines DEF Abstract!Next
    <2>2. ASSUME NEW n \in U32, MallocFits(n) \/ MallocGrows(n)
          PROVE  Abstract!Next
      BY <2>2, ReturnRefines DEF Abstract!Next
    <2>3. ASSUME NEW b \in live, Free(b) PROVE Abstract!Next
      BY <2>3 DEF Free, Outcome, Abstract!Free, Abstract!Next
    <2>4. ASSUME NEW k \in 1..MaxPages, HostGrows(k) PROVE Abstract!Next
      <3>1. pages \in Nat /\ k \in Nat \ {0} /\ PageSize \in Nat \ {0}
        BY ConstantsOK, PagesInRange DEF IInv
      <3>2. pages' = pages + k /\ UNCHANGED <<live, last>>
        BY <2>4 DEF HostGrows
      <3>3. /\ pages' * PageSize = pages * PageSize + k * PageSize
            /\ pages * PageSize \in Nat /\ k * PageSize \in Nat \ {0}
        BY <3>1, <3>2
      <3>4. pages' * PageSize \in Nat /\ pages' * PageSize > pages * PageSize
        BY <3>3
      <3> QED
        BY <3>2, <3>4 DEF Abstract!Grow, Abstract!Next
    <2>5. CASE UNCHANGED vars
      BY <2>5 DEF vars, Abstract!vars
    <2> QED
      BY <2>1, <2>2, <2>3, <2>4, <2>5 DEF Next
  <1> QED
    BY <1>1, <1>2, Invariant, PTL DEF Spec, ImplementsHeap, Abstract!Spec

-----------------------------------------------------------------------------
(* The stack and the heap in one memory. *)

\* Every frame, and the next one too, ends at or below the top of the stack.
LEMMA FramesBelowTop ==
    ASSUME StackIInv, NEW i \in DOMAIN acts
    PROVE  acts[i].fp + Size(acts[i].fn) <= StackTop /\ sp <= StackTop
  <1>1. /\ Len(acts) \in Nat \ {0} /\ DOMAIN acts = 1..Len(acts)
        /\ acts[i].fp \in Int /\ Size(acts[i].fn) \in Nat
    BY ActsFacts DEF StackIInv
  <1>2. 1 \in DOMAIN acts /\ acts[1].fp = StackTop
    BY <1>1 DEF StackIInv, HostAtTop
  <1>3. CASE i = 1
    <2>1. Size(acts[1].fn) = 0
      BY SizeNat DEF StackIInv, StackTypeOK, IsHost
    <2> QED
      BY <1>1, <1>2, <1>3, <2>1 DEF StackIInv, FramesApart
  <1>4. CASE 1 < i
    BY <1>1, <1>2, <1>4 DEF StackIInv, FramesApart
  <1> QED
    BY <1>1, <1>3, <1>4

\* Frames, the next one included, lie below every block the program holds.
FramesBelowBlocks ==
    /\ \A b \in live : \A i \in DOMAIN acts : acts[i].fp + Size(acts[i].fn) <= b.ptr
    /\ \A b \in live : sp <= b.ptr

\* $__sp and $__heap start at one address (codegen.go:153-154) and move apart:
\* no frame of a function shares a byte with a block of malloc that is not freed,
\* in whatever order calls, traps, allocations and the host's grows come.
\* Addresses of frames are plain integers here: a stack pointer below 0, which
\* wraps around to the far end of memory, is not covered.
THEOREM StackAndHeapApart ==
    ASSUME StackTop = HeapBase
    PROVE  StackSpec /\ Spec => []FramesBelowBlocks
  <1>1. StackIInv /\ IInv => FramesBelowBlocks
    <2> SUFFICES ASSUME StackIInv, IInv PROVE FramesBelowBlocks
      OBVIOUS
    <2>1. Len(acts) \in Nat \ {0} /\ DOMAIN acts = 1..Len(acts)
      BY ActsFacts DEF StackIInv
    <2>2. 1 \in DOMAIN acts
      BY <2>1
    <2>3. ASSUME NEW b \in live, NEW i \in DOMAIN acts
          PROVE  acts[i].fp + Size(acts[i].fn) <= b.ptr /\ sp <= b.ptr
      <3>1. b.ptr \in Nat /\ HeapBase <= b.ptr
        BY BlockInHeap DEF IInv
      <3>2. acts[i].fp \in Int /\ Size(acts[i].fn) \in Nat /\ sp \in Int
        BY <2>1, ActsFacts DEF StackIInv
      <3>3. acts[i].fp + Size(acts[i].fn) <= StackTop /\ sp <= StackTop
        BY FramesBelowTop
      <3> QED
        BY <3>1, <3>2, <3>3, ConstantsOK
    <2> QED
      BY <2>2, <2>3 DEF FramesBelowBlocks
  <1> QED
    BY <1>1, StackInvariant, Invariant, PTL
=============================================================================
