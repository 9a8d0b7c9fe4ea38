------------------------ MODULE AggregateCallsProofs ------------------------
(***************************************************************************)
(* Proofs about aggregates by value, for any values, parameters, locals,   *)
(* temps, globals and depth of calls: every variable holds the value the   *)
(* language gives it, and every result stays intact until it is used.      *)
(***************************************************************************)
EXTENDS AggregateCalls, TLAPS, SequenceTheorems

-----------------------------------------------------------------------------
(* The inductive invariant.  Its parts are operators of the memory, the    *)
(* environment and the activation they are about.                          *)

Operands == [addr : Addresses, val : Values]
Statements == {"assign", "return", "discard"}
Kinds == Statements \cup {"call", "literal", "done"}
Places == Addresses \cup {NoResult}
Tasks == [kind : Kinds, at : Places, operands : Seq(Operands)]
Activations == [todo : Seq(Tasks), used : SUBSET Addresses, ret : Places]

Typed ==
    /\ mem \in [Addresses -> Values]
    /\ env \in [Variables -> Values \cup {Undeclared}]
    /\ acts \in Seq(Activations) /\ Depth \in Depths

\* Nothing is declared in a frame that is not in use.
ScopesEnd(e, depth) == \A a \in Variables : a[1] > depth => e[a] = Undeclared

\* Memory and environment agree on every declared variable.
Agree(m, e) == \A a \in Variables : e[a] # Undeclared => m[a] = e[a]

\* A variable that an activation at depth d can name as long as it runs.
InScope(e, d, a) == a \in Variables /\ a[1] <= d /\ e[a] # Undeclared

\* A task of the activation at depth d.  An operand on the wasm stack is the
\* address of a variable that stays in scope, or of a temp that is taken.
TaskOK(e, d, used, t) ==
    /\ t.kind \in Statements => t.operands = <<>>
    /\ t.kind = "assign" => t.at \in Variables /\ t.at[1] <= d
    /\ t.kind = "return" => d > 1
    /\ t.kind \notin Statements => t.at \in used
    /\ t.kind = "call" =>
          /\ d < MaxDepth
          /\ \A i \in DOMAIN t.operands :
                \/ InScope(e, d, t.operands[i].addr)
                \/ t.operands[i].addr \in used \ {t.at}
    /\ t.kind = "done" => Len(t.operands) = 1 /\ t.operands[1].addr = t.at

\* A task whose operand is being evaluated.
Waiting(t) == t.kind # "done" /\ (t.kind = "literal" => t.operands = <<>>)

\* Task k may write its temp while task j waits.
Unshared(j, k) ==
    /\ j.at # k.at
    /\ j.kind = "call" => \A i \in DOMAIN j.operands : j.operands[i].addr # k.at

\* The tasks of a statement: the statement itself, then calls and literals.
TodoOK(e, d, used, todo) ==
    /\ \A k \in DOMAIN todo :
          /\ TaskOK(e, d, used, todo[k])
          /\ k = 1 <=> todo[k].kind \in Statements
          /\ k < Len(todo) => Waiting(todo[k])
    /\ \A j, k \in DOMAIN todo : j > 1 /\ k > 1 /\ j # k => Unshared(todo[j], todo[k])

\* Memory holds the results a task waits with, and the one it has made.
Intact(m, t) ==
    /\ t.kind = "call" =>
          \A i \in DOMAIN t.operands :
              t.operands[i].addr \notin Variables => m[t.operands[i].addr] = t.operands[i].val
    /\ t.kind \in {"literal", "done"} /\ t.operands # <<>> => m[t.at] = t.operands[1].val

ActivationOK(m, e, d, act) ==
    /\ act.used \subseteq TempsAt(d)
    /\ TodoOK(e, d, act.used, act.todo)
    /\ \A k \in DOMAIN act.todo : Intact(m, act.todo[k])

\* The innermost task is the call whose result goes to ret.
WaitsFor(todo, ret) ==
    /\ todo # <<>>
    /\ todo[Len(todo)].kind = "call" /\ todo[Len(todo)].at = ret

IInv ==
    /\ Typed /\ ScopesEnd(env, Depth) /\ Agree(mem, env)
    /\ \A d \in 1..Depth : ActivationOK(mem, env, d, acts[d])
    /\ \A d \in 1..(Depth - 1) : WaitsFor(acts[d].todo, acts[d + 1].ret)

-----------------------------------------------------------------------------
(* Addresses, sequences and records. *)

\* Variables and temps have addresses of their own, and the frames of
\* different depths too.
LEMMA AddressFacts ==
    /\ Variables \subseteq Addresses
    /\ \A a \in Variables : a[1] \in Int
    /\ \A d \in Depths :
          /\ d \in Nat \ {0}
          /\ TempsAt(d) \subseteq Addresses /\ TempsAt(d) \cap Variables = {}
          /\ VarsAt(d) \subseteq Variables
          /\ \A a \in VarsAt(d) : a[1] = d
          /\ \A a \in TempsAt(d) : a[1] = d
  <1>1. Variables \subseteq Addresses
    BY DEF Addresses
  <1>2. MaxDepth \in Nat \ {0}
    BY ConstantsOK
  <1>3. \A a \in Variables : a[1] \in Int
    BY <1>2 DEF Variables, GlobalVars, VarsAt, Depths
  <1>4. ASSUME NEW d \in Depths
        PROVE  /\ d \in Nat \ {0}
               /\ TempsAt(d) \subseteq Addresses
               /\ VarsAt(d) \subseteq Variables
               /\ \A a \in VarsAt(d) : a[1] = d
               /\ \A a \in TempsAt(d) : a[1] = d
    <2>1. d \in Nat \ {0}
      BY <1>2 DEF Depths
    <2>2. TempsAt(d) \subseteq Addresses
      BY DEF Addresses
    <2>3. VarsAt(d) \subseteq Variables
      BY DEF Variables
    <2> QED
      BY <2>1, <2>2, <2>3 DEF VarsAt, TempsAt
  <1>5. ASSUME NEW d \in Depths, NEW a \in TempsAt(d), a \in Variables PROVE FALSE
    <2>1. a[1] = d /\ a[2] \in Temps /\ d \in Nat \ {0}
      BY <1>4 DEF TempsAt
    <2>2. a \notin GlobalVars
      BY <2>1 DEF GlobalVars
    <2>3. PICK c \in Depths : a \in VarsAt(c)
      BY <1>5, <2>2 DEF Variables
    <2>4. a[2] \in ParamSlots \cup Locals
      BY <2>3 DEF VarsAt
    <2> QED
      BY <2>1, <2>4, ConstantsOK
  <1> QED
    BY <1>1, <1>3, <1>4, <1>5

\* What is left of a sequence without its last element.
LEMMA Front ==
    ASSUME NEW S, NEW s \in Seq(S), s # <<>>
    PROVE  LET f == SubSeq(s, 1, Len(s) - 1)
           IN  /\ Len(s) \in Nat \ {0} /\ DOMAIN s = 1..Len(s)
               /\ f \in Seq(S) /\ Len(f) = Len(s) - 1 /\ DOMAIN f = 1..(Len(s) - 1)
               /\ \A i \in 1..(Len(s) - 1) : f[i] = s[i]
               /\ s[Len(s)] \in S
  <1> DEFINE n == Len(s)
             f == SubSeq(s, 1, n - 1)
  <1>1. n \in Nat \ {0} /\ DOMAIN s = 1..n
    BY EmptySeq, LenProperties
  <1>2. \A i \in 1..n : s[i] \in S
    BY ElementOfSeq
  <1>3. f \in Seq(S) /\ Len(f) = n - 1 /\ \A i \in 1..(n - 1) : f[i] = s[i]
    BY <1>1, <1>2
  <1>4. DOMAIN f = 1..(n - 1)
    <2> HIDE DEF f
    <2> QED
      BY <1>3, LenProperties
  <1> HIDE DEF n, f
  <1>5. s[n] \in S
    BY <1>1, <1>2
  <1> QED
    BY <1>1, <1>3, <1>4, <1>5 DEF n, f

\* Appending, and the domain of what it gives.
LEMMA Appended ==
    ASSUME NEW S, NEW s \in Seq(S), NEW x \in S
    PROVE  LET t == Append(s, x)
           IN  /\ t \in Seq(S) /\ Len(s) \in Nat /\ Len(t) = Len(s) + 1
               /\ DOMAIN s = 1..Len(s) /\ DOMAIN t = 1..(Len(s) + 1)
               /\ \A i \in 1..Len(s) : t[i] = s[i]
               /\ t[Len(s) + 1] = x
  <1> DEFINE t == Append(s, x)
  <1>1. /\ t \in Seq(S) /\ Len(t) = Len(s) + 1
        /\ \A i \in 1..Len(s) : t[i] = s[i]
        /\ t[Len(s) + 1] = x
    BY AppendProperties
  <1>2. Len(s) \in Nat /\ DOMAIN s = 1..Len(s)
    BY LenProperties
  <1>3. DOMAIN t = 1..Len(t)
    <2> HIDE DEF t
    <2> QED
      BY <1>1, LenProperties
  <1> QED
    BY <1>1, <1>2, <1>3

\* Replacing the last element is appending to what is before it.
LEMMA ReplaceLast ==
    ASSUME NEW S, NEW s \in Seq(S), s # <<>>, NEW x \in S
    PROVE  [s EXCEPT ![Len(s)] = x] = Append(SubSeq(s, 1, Len(s) - 1), x)
  <1> DEFINE n == Len(s)
             f == SubSeq(s, 1, n - 1)
             g == Append(f, x)
             h == [s EXCEPT ![n] = x]
  <1>1. /\ n \in Nat \ {0} /\ DOMAIN s = 1..n
        /\ f \in Seq(S) /\ Len(f) = n - 1 /\ DOMAIN f = 1..(n - 1)
        /\ \A i \in 1..(n - 1) : f[i] = s[i]
    BY Front
  <1> HIDE DEF f
  <1>2. /\ g \in Seq(S) /\ Len(g) = n /\ g[n] = x
        /\ \A i \in 1..(n - 1) : g[i] = f[i]
    <2> HIDE DEF n
    <2>1. /\ g \in Seq(S) /\ Len(g) = Len(f) + 1 /\ g[Len(f) + 1] = x
          /\ \A i \in 1..Len(f) : g[i] = f[i]
      BY <1>1, Appended
    <2>2. Len(f) + 1 = n /\ Len(f) = n - 1
      BY <1>1
    <2> HIDE DEF g
    <2> QED
      BY <2>1, <2>2
  <1>3. /\ h \in Seq(S) /\ Len(h) = n
        /\ \A i \in 1..n : h[i] = IF i = n THEN x ELSE s[i]
    BY <1>1, ExceptSeq
  <1> HIDE DEF g, h, n
  <1>4. \A i \in 1..n : h[i] = g[i]
    BY <1>1, <1>2, <1>3
  <1>5. h = g
    BY <1>2, <1>3, <1>4, SeqEqual
  <1> QED
    BY <1>5 DEF f, g, h, n

\* The fields of a task, an operand and an activation.
LEMMA RecordParts ==
    /\ \A t \in Tasks : /\ t.kind \in Kinds /\ t.at \in Places
                        /\ t.operands \in Seq(Operands)
    /\ \A o \in Operands : o.addr \in Addresses /\ o.val \in Values
    /\ \A c \in Activations : /\ c.todo \in Seq(Tasks) /\ c.used \subseteq Addresses
                              /\ c.ret \in Places
  <1>1. \A t \in Tasks : /\ t.kind \in Kinds /\ t.at \in Places
                         /\ t.operands \in Seq(Operands)
    BY DEF Tasks
  <1>2. \A o \in Operands : o.addr \in Addresses /\ o.val \in Values
    BY DEF Operands
  <1>3. \A c \in Activations : /\ c.todo \in Seq(Tasks) /\ c.used \subseteq Addresses
                               /\ c.ret \in Places
    BY DEF Activations
  <1> QED
    BY <1>1, <1>2, <1>3

-----------------------------------------------------------------------------
(* The tasks of a statement. *)

\* The tasks around the innermost one: they all wait, and do not share its
\* temp.
LEMMA FrontOK ==
    ASSUME NEW e, NEW d, NEW used, NEW todo \in Seq(Tasks),
           todo # <<>>, TodoOK(e, d, used, todo)
    PROVE  LET rest == SubSeq(todo, 1, Len(todo) - 1)
               last == todo[Len(todo)]
           IN  /\ TodoOK(e, d, used, rest)
               /\ \A k \in DOMAIN rest : Waiting(rest[k])
               /\ TaskOK(e, d, used, last)
               /\ Len(todo) = 1 <=> last.kind \in Statements
               /\ last.kind \notin Statements =>
                     /\ rest # <<>>
                     /\ \A k \in DOMAIN rest :
                           k > 1 => Unshared(rest[k], last) /\ Unshared(last, rest[k])
  <1> DEFINE n == Len(todo)
             rest == SubSeq(todo, 1, n - 1)
             last == todo[n]
  <1>1. /\ n \in Nat \ {0} /\ DOMAIN todo = 1..n
        /\ rest \in Seq(Tasks) /\ Len(rest) = n - 1 /\ DOMAIN rest = 1..(n - 1)
        /\ \A k \in 1..(n - 1) : rest[k] = todo[k]
    BY Front
  <1>2. /\ \A k \in 1..n :
              /\ TaskOK(e, d, used, todo[k])
              /\ k = 1 <=> todo[k].kind \in Statements
              /\ k < n => Waiting(todo[k])
        /\ \A j, k \in 1..n : j > 1 /\ k > 1 /\ j # k => Unshared(todo[j], todo[k])
    BY <1>1 DEF TodoOK
  <1> HIDE DEF n, rest
  <1>3. 1..(n - 1) \subseteq 1..n /\ n \in 1..n /\ \A k \in 1..(n - 1) : k < n /\ k # n
    BY <1>1
  <1>4. \A k \in 1..(n - 1) : k < Len(rest) => k < n
    BY <1>1
  <1>5. TodoOK(e, d, used, rest)
    BY <1>1, <1>2, <1>3, <1>4 DEF TodoOK
  <1>6. \A k \in DOMAIN rest : Waiting(rest[k])
    BY <1>1, <1>2, <1>3
  <1>7. TaskOK(e, d, used, last) /\ (n = 1 <=> last.kind \in Statements)
    BY <1>2, <1>3
  <1>8. ASSUME last.kind \notin Statements
        PROVE  /\ rest # <<>>
               /\ \A k \in DOMAIN rest :
                     k > 1 => Unshared(rest[k], last) /\ Unshared(last, rest[k])
    <2>1. n > 1 /\ Len(rest) # 0
      BY <1>1, <1>7, <1>8
    <2>2. rest # <<>>
      BY <2>1
    <2> QED
      BY <1>1, <1>2, <1>3, <2>1, <2>2
  <1> QED
    BY <1>5, <1>6, <1>7, <1>8 DEF n, rest

\* A task goes on top of tasks that wait and share nothing with it.
LEMMA AppendOK ==
    ASSUME NEW e, NEW d, NEW used, NEW rest \in Seq(Tasks), rest # <<>>,
           TodoOK(e, d, used, rest), \A k \in DOMAIN rest : Waiting(rest[k]),
           NEW t \in Tasks, TaskOK(e, d, used, t), t.kind \notin Statements,
           \A k \in DOMAIN rest : k > 1 => Unshared(rest[k], t) /\ Unshared(t, rest[k])
    PROVE  TodoOK(e, d, used, Append(rest, t))
  <1> DEFINE n == Len(rest)
             todo == Append(rest, t)
  <1>1. /\ n \in Nat \ {0} /\ DOMAIN rest = 1..n
        /\ DOMAIN todo = 1..(n + 1) /\ Len(todo) = n + 1
        /\ \A k \in 1..n : todo[k] = rest[k]
        /\ todo[n + 1] = t
    BY Appended, EmptySeq
  <1>2. /\ \A k \in 1..n : TaskOK(e, d, used, rest[k]) /\ (k = 1 <=> rest[k].kind \in Statements)
        /\ \A j, k \in 1..n : j > 1 /\ k > 1 /\ j # k => Unshared(rest[j], rest[k])
    BY <1>1 DEF TodoOK
  <1> HIDE DEF n, todo
  <1>3. ASSUME NEW k \in 1..(n + 1)
        PROVE  /\ TaskOK(e, d, used, todo[k])
               /\ k = 1 <=> todo[k].kind \in Statements
               /\ k < n + 1 => Waiting(todo[k])
    <2>1. CASE k = n + 1
      BY <1>1, <2>1
    <2>2. CASE k # n + 1
      <3>1. k \in 1..n
        BY <1>1, <2>2
      <3> QED
        BY <1>1, <1>2, <3>1
    <2> QED
      BY <2>1, <2>2
  <1>4. ASSUME NEW j \in 1..(n + 1), NEW k \in 1..(n + 1), j > 1, k > 1, j # k
        PROVE  Unshared(todo[j], todo[k])
    <2>1. (j \in 1..n \/ j = n + 1) /\ (k \in 1..n \/ k = n + 1)
      BY <1>1
    <2> QED
      BY <1>1, <1>2, <1>4, <2>1
  <1> QED
    BY <1>1, <1>3, <1>4 DEF TodoOK, todo

\* What memory holds is intact for all the tasks if it is for each.
LEMMA AppendIntact ==
    ASSUME NEW m, NEW rest \in Seq(Tasks), NEW t \in Tasks,
           \A k \in DOMAIN rest : Intact(m, rest[k]), Intact(m, t)
    PROVE  \A k \in DOMAIN Append(rest, t) : Intact(m, Append(rest, t)[k])
  <1> DEFINE n == Len(rest)
             todo == Append(rest, t)
  <1>1. /\ n \in Nat /\ DOMAIN rest = 1..n /\ DOMAIN todo = 1..(n + 1)
        /\ \A k \in 1..n : todo[k] = rest[k]
        /\ todo[n + 1] = t
    BY Appended
  <1> HIDE DEF n, todo
  <1>2. ASSUME NEW k \in 1..(n + 1) PROVE Intact(m, todo[k])
    <2>1. k \in 1..n \/ k = n + 1
      BY <1>1
    <2> QED
      BY <1>1, <2>1
  <1> QED
    BY <1>1, <1>2 DEF todo

\* Where memory is unchanged and no variable goes out of scope, an activation
\* is as it was.
LEMMA ActivationStays ==
    ASSUME NEW m, NEW e, NEW m1, NEW e1, NEW d \in Depths, NEW act \in Activations,
           ActivationOK(m, e, d, act),
           \A a \in TempsAt(d) : m1[a] = m[a],
           \A a : InScope(e, d, a) => InScope(e1, d, a)
    PROVE  ActivationOK(m1, e1, d, act)
  <1> DEFINE todo == act.todo
             used == act.used
  <1>1. used \subseteq TempsAt(d) /\ TodoOK(e, d, used, todo)
        /\ \A k \in DOMAIN todo : Intact(m, todo[k])
    BY DEF ActivationOK
  <1>2. todo \in Seq(Tasks)
    BY RecordParts
  <1> HIDE DEF todo, used
  <1>3. ASSUME NEW k \in DOMAIN todo
        PROVE  TaskOK(e, d, used, todo[k]) /\ TaskOK(e1, d, used, todo[k])
    <2>1. TaskOK(e, d, used, todo[k])
      BY <1>1 DEF TodoOK
    <2> QED
      BY <2>1 DEF TaskOK
  <1>4. TodoOK(e1, d, used, todo)
    BY <1>1, <1>3 DEF TodoOK
  <1>5. ASSUME NEW k \in DOMAIN todo PROVE Intact(m1, todo[k])
    <2> DEFINE t == todo[k]
    <2>1. TaskOK(e, d, used, t) /\ Intact(m, t)
      BY <1>1, <1>3
    <2> HIDE DEF t
    <2>2. t.kind = "call" =>
            \A i \in DOMAIN t.operands :
               t.operands[i].addr \notin Variables => t.operands[i].addr \in TempsAt(d)
      BY <1>1, <2>1 DEF TaskOK, InScope
    <2>3. t.kind \in {"literal", "done"} => t.at \in TempsAt(d)
      BY <1>1, <2>1 DEF TaskOK, Statements
    <2>4. Intact(m1, t)
      BY <2>1, <2>2, <2>3 DEF Intact
    <2> QED
      BY <2>4 DEF t
  <1> QED
    BY <1>1, <1>4, <1>5 DEF ActivationOK, todo, used

-----------------------------------------------------------------------------
(* Steps that change the activation on top only. *)

\* The activation on top under the invariant.
LEMMA TopParts ==
    ASSUME IInv
    PROVE  /\ Depth \in Depths /\ Depth \in Nat \ {0} /\ DOMAIN acts = 1..Depth
           /\ Top \in Activations
           /\ Top.todo \in Seq(Tasks) /\ Top.ret \in Places
           /\ Top.used \subseteq TempsAt(Depth)
           /\ TodoOK(env, Depth, Top.used, Top.todo)
           /\ \A k \in DOMAIN Top.todo : Intact(mem, Top.todo[k])
  <1>1. acts \in Seq(Activations) /\ Depth \in Depths /\ Depth \in Nat \ {0}
    BY AddressFacts DEF IInv, Typed
  <1>2. DOMAIN acts = 1..Depth /\ Depth \in 1..Len(acts)
    BY <1>1, LenProperties DEF Depth
  <1>3. Top \in Activations
    BY <1>1, <1>2, ElementOfSeq DEF Top
  <1>4. ActivationOK(mem, env, Depth, Top)
    BY <1>1 DEF IInv, Top
  <1> QED
    BY <1>1, <1>2, <1>3, <1>4, RecordParts DEF ActivationOK

\* What a step that changes the activation on top has to do.
LEMMA TopStep ==
    ASSUME IInv, NEW A \in Activations, A.ret = Top.ret,
           acts' = [acts EXCEPT ![Depth] = A],
           mem' \in [Addresses -> Values],
           env' \in [Variables -> Values \cup {Undeclared}],
           ScopesEnd(env', Depth), Agree(mem', env'),
           \A d \in 1..(Depth - 1) : \A act \in Activations :
              ActivationOK(mem, env, d, act) => ActivationOK(mem', env', d, act),
           ActivationOK(mem', env', Depth, A)
    PROVE  IInv'
  <1> DEFINE n == Depth
  <1>1. n \in Depths /\ n \in Nat \ {0} /\ n = Len(acts) /\ acts \in Seq(Activations)
    BY TopParts DEF IInv, Typed, Depth
  <1>3. /\ acts' \in Seq(Activations) /\ Len(acts') = n
        /\ \A d \in 1..n : acts'[d] = IF d = n THEN A ELSE acts[d]
    <2>1. n \in 1..Len(acts) /\ acts' = [acts EXCEPT ![n] = A]
      BY <1>1
    <2> DEFINE b == [acts EXCEPT ![n] = A]
    <2> HIDE DEF n
    <2>2. /\ b \in Seq(Activations) /\ Len(b) = Len(acts)
          /\ \A d \in 1..Len(acts) : b[d] = IF d = n THEN A ELSE acts[d]
      BY <1>1, <2>1, ExceptSeq
    <2> HIDE DEF b
    <2>3. acts' = b
      BY <2>1 DEF b
    <2> QED
      BY <1>1, <2>2, <2>3
  <1>4. Depth' = n
    BY <1>3 DEF Depth
  <1>6. /\ \A d \in 1..n : ActivationOK(mem, env, d, acts[d])
        /\ \A d \in 1..(n - 1) : WaitsFor(acts[d].todo, acts[d + 1].ret)
        /\ \A d \in 1..n : acts[d] \in Activations
    BY <1>1, ElementOfSeq DEF IInv
  <1>7. A.ret = acts[n].ret
    BY DEF Top
  <1> HIDE DEF n
  <1>8. Typed'
    BY <1>1, <1>3, <1>4 DEF Typed
  <1>9. ASSUME NEW d \in 1..n PROVE ActivationOK(mem', env', d, acts'[d])
    <2>1. CASE d = n
      BY <1>3, <2>1 DEF n
    <2>2. CASE d # n
      <3>1. d \in 1..(n - 1) /\ acts'[d] = acts[d]
        BY <1>1, <1>3, <2>2
      <3> QED
        BY <1>6, <3>1 DEF n
    <2> QED
      BY <2>1, <2>2
  <1>10. ASSUME NEW d \in 1..(n - 1) PROVE WaitsFor(acts'[d].todo, acts'[d + 1].ret)
    <2>1. d \in 1..n /\ d + 1 \in 1..n /\ d # n
      BY <1>1
    <2>2. acts'[d] = acts[d] /\ acts'[d + 1].ret = acts[d + 1].ret
      BY <1>3, <1>7, <2>1
    <2> QED
      BY <1>6, <2>2
  <1>11. ScopesEnd(env', n) /\ Agree(mem', env')
    BY DEF n
  <1> QED
    BY <1>4, <1>8, <1>9, <1>10, <1>11 DEF IInv

\* A store to a variable in scope, which memory and environment follow.
LEMMA WriteVariable ==
    ASSUME IInv, NEW x \in Variables, x[1] <= Depth, NEW v \in Values,
           mem' = [mem EXCEPT ![x] = v], env' = [env EXCEPT ![x] = v]
    PROVE  /\ mem' \in [Addresses -> Values]
           /\ env' \in [Variables -> Values \cup {Undeclared}]
           /\ ScopesEnd(env', Depth) /\ Agree(mem', env')
           /\ \A d \in Depths : \A a : InScope(env, d, a) => InScope(env', d, a)
           /\ \A d \in Depths : \A act \in Activations :
                 ActivationOK(mem, env, d, act) => ActivationOK(mem', env', d, act)
  <1>1. /\ mem \in [Addresses -> Values] /\ env \in [Variables -> Values \cup {Undeclared}]
        /\ ScopesEnd(env, Depth) /\ Agree(mem, env) /\ x \in Addresses
        /\ x[1] \in Int /\ Depth \in Nat \ {0}
    BY TopParts, AddressFacts DEF IInv, Typed
  <1>2. /\ mem' \in [Addresses -> Values]
        /\ env' \in [Variables -> Values \cup {Undeclared}]
    BY <1>1
  <1>3. \A a \in Addresses : mem'[a] = IF a = x THEN v ELSE mem[a]
    BY <1>1
  <1>4. \A a \in Variables : env'[a] = IF a = x THEN v ELSE env[a]
    BY <1>1
  <1>5. ScopesEnd(env', Depth)
    <2> SUFFICES ASSUME NEW a \in Variables, a[1] > Depth PROVE env'[a] = Undeclared
      BY DEF ScopesEnd
    <2>1. a # x
      BY <1>1
    <2> QED
      BY <1>1, <1>4, <2>1 DEF ScopesEnd
  <1>6. Agree(mem', env')
    BY <1>1, <1>3, <1>4, AddressFacts DEF Agree
  <1>7. v # Undeclared
    BY ConstantsOK
  <1>8. \A d \in Depths : \A a : InScope(env, d, a) => InScope(env', d, a)
    BY <1>4, <1>7 DEF InScope
  <1>9. \A d \in Depths : \A a \in TempsAt(d) : mem'[a] = mem[a]
    BY <1>3, AddressFacts
  <1>10. ASSUME NEW d \in Depths, NEW act \in Activations, ActivationOK(mem, env, d, act)
         PROVE  ActivationOK(mem', env', d, act)
    BY <1>8, <1>9, <1>10, ActivationStays
  <1> QED
    BY <1>2, <1>5, <1>6, <1>8, <1>10

\* The activation on top with other tasks and other temps taken.
TopWith(todo, used) == [todo |-> todo, used |-> used, ret |-> Top.ret]

\* What the actions write about it is such an activation.
LEMMA TopSet ==
    ASSUME IInv, NEW todo \in Seq(Tasks), NEW used \in SUBSET TempsAt(Depth)
    PROVE  /\ TopWith(todo, used) \in Activations
           /\ TopWith(todo, used).todo = todo
           /\ TopWith(todo, used).used = used
           /\ TopWith(todo, used).ret = Top.ret
           /\ [acts EXCEPT ![Depth].todo = todo, ![Depth].used = used]
                 = [acts EXCEPT ![Depth] = TopWith(todo, used)]
           /\ [acts EXCEPT ![Depth].todo = todo]
                 = [acts EXCEPT ![Depth] = TopWith(todo, Top.used)]
  <1> DEFINE n == Depth
             A == TopWith(todo, used)
  <1>1. /\ n \in 1..Len(acts) /\ acts \in Seq(Activations) /\ DOMAIN acts = 1..Len(acts)
        /\ acts[n] = Top /\ Top \in Activations
        /\ Len(acts) = n
    BY TopParts DEF IInv, Typed, Depth, Top
  <1>2. A \in Activations /\ A.todo = todo /\ A.used = used /\ A.ret = Top.ret
    BY TopParts, AddressFacts DEF Activations, TopWith
  <1>3. ASSUME NEW c \in Activations
        PROVE  /\ [c EXCEPT !.todo = todo] = [todo |-> todo, used |-> c.used, ret |-> c.ret]
               /\ [c EXCEPT !.used = used] = [todo |-> c.todo, used |-> used, ret |-> c.ret]
    BY DEF Activations
  <1> DEFINE B == TopWith(todo, Top.used)
  <1>4. B \in Activations /\ B.todo = todo /\ B.ret = Top.ret
    BY TopParts, AddressFacts DEF Activations, TopWith
  <1>5. [Top EXCEPT !.todo = todo] = B
    BY <1>1, <1>3 DEF TopWith
  <1>6. [B EXCEPT !.used = used] = A
    <2> HIDE DEF B
    <2> QED
      BY <1>3, <1>4 DEF TopWith
  <1> HIDE DEF A, B, n
  <1>7. /\ [acts EXCEPT ![n].todo = todo, ![n].used = used] = [acts EXCEPT ![n] = A]
        /\ [acts EXCEPT ![n].todo = todo] = [acts EXCEPT ![n] = B]
    <2>1. [acts[n] EXCEPT !.todo = todo] = B /\ n \in DOMAIN acts
      BY <1>1, <1>5
    <2> QED
      BY <1>1, <1>6, <2>1
  <1> QED
    BY <1>2, <1>7 DEF A, B, n
-----------------------------------------------------------------------------
(* The actions. *)

\* What is reachable is in scope for the activation on top.
LEMMA ReachableInScope ==
    ASSUME IInv, NEW a \in Reachable
    PROVE  InScope(env, Depth, a) /\ mem[a] = env[a] /\ env[a] \in Values
  <1>1. a \in Variables /\ env[a] # Undeclared /\ a[1] \in Int /\ Depth \in Int
    BY TopParts, AddressFacts DEF Reachable
  <1>2. ~(a[1] > Depth)
    BY <1>1 DEF IInv, ScopesEnd
  <1>3. a[1] <= Depth
    BY <1>1, <1>2
  <1>4. mem[a] = env[a] /\ env[a] \in Values
    BY <1>1 DEF IInv, Agree, Typed
  <1> QED
    BY <1>1, <1>3, <1>4 DEF InScope

\* A store to a variable between two steps of the evaluation.
LEMMA StoreIInv ==
    ASSUME IInv, NEW x \in Variables, x[1] <= Depth, NEW v \in Values,
           mem' = [mem EXCEPT ![x] = v], env' = [env EXCEPT ![x] = v], acts' = acts
    PROVE  IInv'
  <1>1. /\ mem' \in [Addresses -> Values]
        /\ env' \in [Variables -> Values \cup {Undeclared}]
        /\ ScopesEnd(env', Depth) /\ Agree(mem', env')
        /\ \A d \in Depths : \A act \in Activations :
              ActivationOK(mem, env, d, act) => ActivationOK(mem', env', d, act)
    BY WriteVariable
  <1>2. Depth \in Depths /\ Depth \in Nat \ {0} /\ 1..(Depth - 1) \subseteq Depths
    BY TopParts, ConstantsOK DEF Depths
  <1>3. ActivationOK(mem, env, Depth, Top) /\ Top \in Activations
    BY <1>2, TopParts DEF IInv, Top
  <1>4. acts' = [acts EXCEPT ![Depth] = Top]
    <2>1. acts \in Seq(Activations)
      BY DEF IInv, Typed
    <2> QED
      BY <2>1, LenProperties DEF Top
  <1> QED
    BY <1>1, <1>2, <1>3, <1>4, TopStep

\* A declaration without initializer.
LEMMA DeclareIInv == ASSUME IInv, NEW l \in Locals, Declare(l) PROVE IInv'
  <1> DEFINE x == <<Depth, l>>
  <1>1. Depth \in Depths /\ Depth \in Nat
    BY TopParts
  <1>2. x \in VarsAt(Depth)
    BY DEF VarsAt
  <1>3. x \in Variables /\ x[1] <= Depth
    BY <1>1, <1>2, AddressFacts
  <1>4. mem' = [mem EXCEPT ![x] = Zero] /\ env' = [env EXCEPT ![x] = Zero] /\ acts' = acts
    BY DEF Declare
  <1> HIDE DEF x
  <1> QED
    BY <1>3, <1>4, StoreIInv, ConstantsOK

\* A store that is no aggregate assignment.
LEMMA MutateIInv ==
    ASSUME IInv, NEW a \in Variables, NEW v \in Values, Mutate(a, v)
    PROVE  IInv'
  <1>1. /\ a \in Reachable /\ mem' = [mem EXCEPT ![a] = v]
        /\ env' = [env EXCEPT ![a] = v] /\ acts' = acts
    BY DEF Mutate
  <1>2. a[1] <= Depth
    BY <1>1, ReachableInScope DEF InScope
  <1> QED
    BY <1>1, <1>2, StoreIInv

\* A step that neither writes memory nor changes a scope.
LEMMA QuietStep ==
    ASSUME IInv, UNCHANGED <<mem, env>>, NEW A \in Activations, A.ret = Top.ret,
           acts' = [acts EXCEPT ![Depth] = A], ActivationOK(mem, env, Depth, A)
    PROVE  IInv'
  <1>1. /\ mem' = mem /\ env' = env
        /\ mem \in [Addresses -> Values] /\ env \in [Variables -> Values \cup {Undeclared}]
        /\ ScopesEnd(env, Depth) /\ Agree(mem, env)
    BY DEF IInv, Typed
  <1> QED
    BY <1>1, TopStep

\* The tasks of a statement that begins.
LEMMA BeginIInv ==
    ASSUME IInv, UNCHANGED <<mem, env>>, NEW kind \in Statements, NEW at \in Places,
           kind = "assign" => at \in Variables /\ at[1] <= Depth,
           kind = "return" => Depth > 1,
           acts' = [acts EXCEPT ![Depth].todo = <<Task(kind, at)>>, ![Depth].used = {}]
    PROVE  IInv'
  <1> DEFINE t == Task(kind, at)
             todo == <<t>>
             A == TopWith(todo, {})
  <1>1. /\ t \in Tasks /\ t.kind = kind /\ t.at = at /\ t.operands = <<>>
    BY DEF Task, Tasks, Kinds
  <1>2. todo \in Seq(Tasks) /\ DOMAIN todo = {1} /\ Len(todo) = 1 /\ todo[1] = t
    <2> HIDE DEF t
    <2> QED
      BY <1>1
  <1> HIDE DEF todo, t
  <1>3. /\ A \in Activations /\ A.todo = todo /\ A.used = {} /\ A.ret = Top.ret
        /\ acts' = [acts EXCEPT ![Depth] = A]
    <2>1. {} \in SUBSET TempsAt(Depth)
      OBVIOUS
    <2> QED
      BY <1>2, <2>1, TopSet, ZenonT(40) DEF todo, t
  <1> HIDE DEF A
  <1>4. TaskOK(env, Depth, {}, t)
    BY <1>1 DEF TaskOK, Statements
  <1>5. TodoOK(env, Depth, {}, todo)
    BY <1>1, <1>2, <1>4 DEF TodoOK
  <1>6. Intact(mem, t)
    BY <1>1 DEF Intact, Statements
  <1>7. ActivationOK(mem, env, Depth, A)
    BY <1>2, <1>3, <1>5, <1>6 DEF ActivationOK
  <1> QED
    BY <1>3, <1>7, QuietStep

\* The targets of an assignment are variables that stay in scope.
LEMMA BeginAssignIInv ==
    ASSUME IInv, NEW a \in Variables, BeginAssign(a)
    PROVE  IInv'
  <1>1. a[1] <= Depth
    <2>1. CASE a \in Reachable
      BY <2>1, ReachableInScope DEF InScope
    <2>2. CASE a \in {Depth} \X Locals
      BY <2>2, TopParts
    <2> QED
      BY <2>1, <2>2 DEF BeginAssign
  <1>2. a \in Places /\ "assign" \in Statements /\ "assign" # "return"
    BY AddressFacts DEF Places, Statements
  <1> QED
    BY <1>1, <1>2, BeginIInv DEF BeginAssign

\* A call as a statement, and a return.
LEMMA BeginDiscardIInv == ASSUME IInv, BeginDiscard PROVE IInv'
  <1>1. /\ NoResult \in Places /\ "discard" \in Statements
        /\ "discard" # "return" /\ "discard" # "assign"
    BY DEF Places, Statements
  <1> QED
    BY <1>1, BeginIInv DEF BeginDiscard

\* A return begins with the tasks of the value returned.
LEMMA BeginReturnIInv == ASSUME IInv, BeginReturn PROVE IInv'
  <1>1. /\ Top.ret \in Places /\ "return" \in Statements /\ "return" # "assign"
    BY TopParts DEF Statements
  <1> QED
    BY <1>1, BeginIInv DEF BeginReturn

\* The code being run expects an operand: the innermost task waits.
LEMMA WantsOperandWaits ==
    ASSUME IInv, WantsOperand
    PROVE  /\ Top.todo # <<>>
           /\ \A k \in DOMAIN Top.todo : Waiting(Top.todo[k])
  <1>1. Top.todo # <<>>
    BY DEF WantsOperand, AtStatement
  <1>2. Waiting(Current)
    BY DEF WantsOperand, Waiting
  <1> DEFINE todo == Top.todo
  <1>3. Len(todo) \in Nat /\ DOMAIN todo = 1..Len(todo)
    BY TopParts, LenProperties
  <1>4. \A k \in DOMAIN todo : k < Len(todo) => Waiting(todo[k])
    BY TopParts DEF TodoOK
  <1>5. todo[Len(todo)] = Current
    BY DEF Current
  <1> HIDE DEF todo
  <1>6. \A k \in DOMAIN todo : Waiting(todo[k])
    BY <1>2, <1>3, <1>4, <1>5
  <1> QED
    BY <1>1, <1>6 DEF todo

\* With more temps taken, tasks are as they were.
LEMMA MoreTaken ==
    ASSUME NEW e, NEW d, NEW used, NEW more, used \subseteq more, NEW todo,
           TodoOK(e, d, used, todo)
    PROVE  TodoOK(e, d, more, todo)
  <1>1. ASSUME NEW t, TaskOK(e, d, used, t) PROVE TaskOK(e, d, more, t)
    BY <1>1 DEF TaskOK
  <1> QED
    BY <1>1 DEF TodoOK

\* A call or literal begins: its temp is none of those taken, and so none
\* that a task waits with.
LEMMA OpenIInv ==
    ASSUME IInv, NEW kind \in {"call", "literal"}, NEW s \in Temps, Open(kind, s)
    PROVE  IInv'
  <1> DEFINE x == <<Depth, s>>
             t == Task(kind, x)
             todo == Top.todo
             used == Top.used \cup {x}
             new == Append(todo, t)
             A == TopWith(new, used)
  <1>1. /\ Depth \in Depths /\ Depth \in Nat \ {0}
        /\ todo \in Seq(Tasks) /\ TodoOK(env, Depth, Top.used, todo)
        /\ Top.used \subseteq TempsAt(Depth)
        /\ \A k \in DOMAIN todo : Intact(mem, todo[k])
    BY TopParts
  <1>2. x \in TempsAt(Depth) /\ x \notin Top.used /\ WantsOperand
    BY DEF TempsAt, Open
  <1>3. x \in Addresses /\ x \notin Variables
    BY <1>1, <1>2, AddressFacts
  <1>4. todo # <<>> /\ \A k \in DOMAIN todo : Waiting(todo[k])
    BY <1>2, WantsOperandWaits
  <1> HIDE DEF x
  <1>5. t \in Tasks /\ t.kind = kind /\ t.at = x /\ t.operands = <<>>
    BY <1>3 DEF Task, Tasks, Kinds, Places
  <1>6. kind = "call" => Depth < MaxDepth
    <2>1. MaxDepth \in Nat
      BY ConstantsOK
    <2> QED
      BY DEF Open
  <1> HIDE DEF t, todo
  <1>7. TodoOK(env, Depth, used, todo)
    BY <1>1, MoreTaken
  <1>8. TaskOK(env, Depth, used, t)
    BY <1>5, <1>6 DEF TaskOK, Statements
  <1>9. ASSUME NEW k \in DOMAIN todo, k > 1
        PROVE  Unshared(todo[k], t) /\ Unshared(t, todo[k])
    <2>1. TaskOK(env, Depth, Top.used, todo[k]) /\ todo[k].kind \notin Statements
      BY <1>1, <1>9 DEF TodoOK
    <2>2. todo[k].at \in Top.used
      BY <2>1 DEF TaskOK
    <2>3. todo[k].kind = "call" =>
             \A i \in DOMAIN todo[k].operands : todo[k].operands[i].addr # x
      BY <1>2, <1>3, <2>1 DEF TaskOK, InScope
    <2> QED
      BY <1>2, <1>5, <2>2, <2>3 DEF Unshared
  <1>10. TodoOK(env, Depth, used, new)
    <2>1. t.kind \notin Statements
      BY <1>5 DEF Statements
    <2> HIDE DEF used
    <2> QED
      BY <1>1, <1>4, <1>5, <1>7, <1>8, <1>9, <2>1, AppendOK
  <1>11. \A k \in DOMAIN new : Intact(mem, new[k])
    <2>1. Intact(mem, t)
      BY <1>5 DEF Intact
    <2> QED
      BY <1>1, <1>5, <2>1, AppendIntact
  <1>12. new \in Seq(Tasks)
    BY <1>1, <1>5
  <1>13. used \in SUBSET TempsAt(Depth)
    BY <1>1, <1>2
  <1>14. /\ acts' = [acts EXCEPT ![Depth].todo = new, ![Depth].used = used]
         /\ UNCHANGED <<mem, env>>
    <2>1. [acts EXCEPT ![Depth].todo = Append(@, Task(kind, <<Depth, s>>)),
                       ![Depth].used = @ \cup {<<Depth, s>>}]
            = [acts EXCEPT ![Depth].todo = new, ![Depth].used = used]
      BY DEF t, x, todo, Top
    <2> QED
      BY <2>1 DEF Open
  <1> HIDE DEF new, used
  <1>15. /\ A \in Activations /\ A.todo = new /\ A.used = used /\ A.ret = Top.ret
         /\ acts' = [acts EXCEPT ![Depth] = A]
    BY <1>12, <1>13, <1>14, TopSet
  <1> HIDE DEF A
  <1>16. ActivationOK(mem, env, Depth, A)
    BY <1>10, <1>11, <1>13, <1>15 DEF ActivationOK
  <1> QED
    BY <1>14, <1>15, <1>16, QuietStep

\* A task with one more operand.
LEMMA KeptTask ==
    ASSUME NEW t \in Tasks, NEW o \in Operands
    PROVE  LET kept == [t EXCEPT !.operands = Append(@, o)]
           IN  /\ kept \in Tasks /\ kept.kind = t.kind /\ kept.at = t.at
               /\ kept.operands = Append(t.operands, o)
               /\ t.operands \in Seq(Operands)
  <1>1. t.operands \in Seq(Operands)
    BY RecordParts
  <1>2. Append(t.operands, o) \in Seq(Operands)
    BY <1>1, AppendProperties
  <1> DEFINE new == Append(t.operands, o)
  <1> HIDE DEF new
  <1>3. new \in Seq(Operands)
    BY <1>2 DEF new
  <1>4. LET kept == [t EXCEPT !.operands = new]
        IN  /\ kept \in Tasks /\ kept.kind = t.kind /\ kept.at = t.at /\ kept.operands = new
    BY <1>3 DEF Tasks
  <1> QED
    BY <1>1, <1>4 DEF new

\* The innermost task makes way for one with the same temp, which is all that
\* may have been written.
LEMMA ReplaceOK ==
    ASSUME NEW m, NEW m1, NEW e, NEW d \in Depths, NEW used \in SUBSET TempsAt(d),
           NEW todo \in Seq(Tasks), todo # <<>>, TodoOK(e, d, used, todo),
           \A k \in DOMAIN todo : Intact(m, todo[k]),
           todo[Len(todo)].kind \notin Statements,
           NEW t \in Tasks, t.at = todo[Len(todo)].at, t.kind \notin Statements,
           TaskOK(e, d, used, t), Intact(m1, t),
           t.kind = "call" => \A i \in DOMAIN t.operands : \A k \in 2..(Len(todo) - 1) :
                                 t.operands[i].addr # todo[k].at,
           \A a \in Addresses : a # t.at => m1[a] = m[a]
    PROVE  LET new == Append(SubSeq(todo, 1, Len(todo) - 1), t)
           IN  /\ new \in Seq(Tasks) /\ TodoOK(e, d, used, new)
               /\ \A k \in DOMAIN new : Intact(m1, new[k])
  <1> DEFINE n == Len(todo)
             rest == SubSeq(todo, 1, n - 1)
             last == todo[n]
  <1>1. /\ n \in Nat \ {0} /\ DOMAIN todo = 1..n
        /\ rest \in Seq(Tasks) /\ DOMAIN rest = 1..(n - 1)
        /\ \A k \in 1..(n - 1) : rest[k] = todo[k]
    BY Front
  <1>2. /\ TodoOK(e, d, used, rest) /\ \A k \in DOMAIN rest : Waiting(rest[k])
        /\ rest # <<>>
        /\ \A k \in DOMAIN rest :
              k > 1 => Unshared(rest[k], last) /\ Unshared(last, rest[k])
    BY FrontOK
  <1> HIDE DEF rest, n
  <1>3. ASSUME NEW k \in DOMAIN rest, k > 1
        PROVE  Unshared(rest[k], t) /\ Unshared(t, rest[k])
    <2>1. Unshared(rest[k], last) /\ Unshared(last, rest[k])
      BY <1>2, <1>3
    <2>2. k \in 2..(n - 1) /\ rest[k] = todo[k]
      BY <1>1, <1>3
    <2>3. t.kind = "call" => \A i \in DOMAIN t.operands : t.operands[i].addr # rest[k].at
      BY <2>2 DEF n
    <2>4. t.at = last.at
      BY DEF n
    <2> QED
      BY <2>1, <2>3, <2>4 DEF Unshared
  <1>4. ASSUME NEW k \in DOMAIN rest PROVE Intact(m1, rest[k])
    <2> DEFINE r == rest[k]
    <2>1. Intact(m, r)
      BY <1>1
    <2>2. /\ TaskOK(e, d, used, r) /\ Waiting(r)
          /\ k = 1 <=> r.kind \in Statements
      BY <1>2 DEF TodoOK
    <2>3. k > 1 => Unshared(r, t)
      BY <1>3
    <2>4. k = 1 \/ k > 1
      BY <1>1
    <2> HIDE DEF r
    <2>5. ASSUME k = 1 PROVE Intact(m1, r)
      BY <2>2, <2>5 DEF Intact, Statements
    <2>6. ASSUME k > 1 PROVE Intact(m1, r)
      <3>1. used \subseteq Addresses
        BY AddressFacts
      <3>2. r.kind = "call" =>
               \A i \in DOMAIN r.operands :
                  r.operands[i].addr \notin Variables =>
                     r.operands[i].addr \in Addresses /\ r.operands[i].addr # t.at
        BY <2>2, <2>3, <2>6, <3>1 DEF TaskOK, InScope, Unshared
      <3>3. r.kind = "literal" => r.operands = <<>>
        BY <2>2 DEF Waiting
      <3>4. r.kind # "done"
        BY <2>2 DEF Waiting
      <3> QED
        BY <2>1, <3>2, <3>3, <3>4 DEF Intact
    <2>7. Intact(m1, r)
      BY <2>4, <2>5, <2>6
    <2> QED
      BY <2>7 DEF r
  <1>5. TodoOK(e, d, used, Append(rest, t))
    BY <1>1, <1>2, <1>3, AppendOK
  <1>6. \A k \in DOMAIN Append(rest, t) : Intact(m1, Append(rest, t)[k])
    BY <1>1, <1>4, AppendIntact
  <1>7. Append(rest, t) \in Seq(Tasks)
    BY <1>1, AppendProperties
  <1> QED
    BY <1>5, <1>6, <1>7 DEF rest, n

\* A store to a temp leaves variables alone, and the frames at other depths.
LEMMA WriteTemp ==
    ASSUME IInv, NEW D \in Depths, NEW x \in TempsAt(D), NEW v \in Values,
           mem' = [mem EXCEPT ![x] = v]
    PROVE  /\ mem' \in [Addresses -> Values]
           /\ mem'[x] = v
           /\ \A a \in Addresses : a # x => mem'[a] = mem[a]
           /\ \A a \in Variables : mem'[a] = mem[a]
           /\ \A d \in Depths : d # D => \A a \in TempsAt(d) : mem'[a] = mem[a]
  <1>1. mem \in [Addresses -> Values] /\ x \in Addresses /\ x \notin Variables
    BY AddressFacts DEF IInv, Typed
  <1>2. /\ mem' \in [Addresses -> Values] /\ mem'[x] = v
        /\ \A a \in Addresses : a # x => mem'[a] = mem[a]
    BY <1>1
  <1>3. \A a \in Variables : mem'[a] = mem[a]
    BY <1>1, <1>2, AddressFacts
  <1>4. ASSUME NEW d \in Depths, d # D, NEW a \in TempsAt(d) PROVE mem'[a] = mem[a]
    <2>1. a[1] = d /\ x[1] = D /\ a \in Addresses
      BY AddressFacts
    <2> QED
      BY <1>2, <1>4, <2>1
  <1> QED
    BY <1>2, <1>3, <1>4

\* A step that replaces the innermost of some tasks of the activation on top,
\* and may write its temp.
LEMMA ReplaceStep ==
    ASSUME IInv, NEW todo \in Seq(Tasks), todo # <<>>,
           TodoOK(env, Depth, Top.used, todo), \A k \in DOMAIN todo : Intact(mem, todo[k]),
           todo[Len(todo)].kind \notin Statements,
           NEW t \in Tasks, t.at = todo[Len(todo)].at, t.kind \notin Statements,
           TaskOK(env, Depth, Top.used, t),
           t.kind = "call" => \A i \in DOMAIN t.operands : \A k \in 2..(Len(todo) - 1) :
                                 t.operands[i].addr # todo[k].at,
           NEW v \in Values, mem' = [mem EXCEPT ![t.at] = v], env' = env,
           Intact(mem', t),
           acts' = [acts EXCEPT ![Depth].todo = Append(SubSeq(todo, 1, Len(todo) - 1), t)]
    PROVE  IInv'
  <1> DEFINE new == Append(SubSeq(todo, 1, Len(todo) - 1), t)
             A == TopWith(new, Top.used)
  <1>1. Depth \in Depths /\ Depth \in Nat \ {0} /\ Top.used \in SUBSET TempsAt(Depth)
    BY TopParts
  <1>2. t.at \in TempsAt(Depth)
    BY <1>1 DEF TaskOK
  <1>3. /\ mem' \in [Addresses -> Values]
        /\ \A a \in Addresses : a # t.at => mem'[a] = mem[a]
        /\ \A a \in Variables : mem'[a] = mem[a]
        /\ \A d \in Depths : d # Depth => \A a \in TempsAt(d) : mem'[a] = mem[a]
    BY <1>1, <1>2, WriteTemp
  <1>4. /\ new \in Seq(Tasks) /\ TodoOK(env, Depth, Top.used, new)
        /\ \A k \in DOMAIN new : Intact(mem', new[k])
    <2> HIDE DEF A
    <2> DEFINE used == Top.used
               d == Depth
    <2>1. d \in Depths /\ used \in SUBSET TempsAt(d)
      BY <1>1
    <2>2. TodoOK(env, d, used, todo) /\ TaskOK(env, d, used, t)
      OBVIOUS
    <2> HIDE DEF used, d
    <2>3. ASSUME NEW m1, \A a \in Addresses : a # t.at => m1[a] = mem[a], Intact(m1, t)
          PROVE  /\ new \in Seq(Tasks) /\ TodoOK(env, d, used, new)
                 /\ \A k \in DOMAIN new : Intact(m1, new[k])
      BY <2>1, <2>2, <2>3, ReplaceOK
    <2> QED
      BY <1>3, <2>3 DEF used, d
  <1>5. acts' = [acts EXCEPT ![Depth].todo = new]
    OBVIOUS
  <1> HIDE DEF new
  <1>6. /\ A \in Activations /\ A.todo = new /\ A.used = Top.used /\ A.ret = Top.ret
        /\ acts' = [acts EXCEPT ![Depth] = A]
    BY <1>1, <1>4, <1>5, TopSet, ZenonT(40)
  <1> HIDE DEF A
  <1>7. ActivationOK(mem', env', Depth, A)
    BY <1>1, <1>4, <1>6 DEF ActivationOK
  <1>8. /\ env \in [Variables -> Values \cup {Undeclared}]
        /\ ScopesEnd(env, Depth) /\ Agree(mem, env)
    BY DEF IInv, Typed
  <1>9. Agree(mem', env')
    BY <1>3, <1>8 DEF Agree
  <1>10. ASSUME NEW d \in 1..(Depth - 1), NEW act \in Activations,
                ActivationOK(mem, env, d, act)
         PROVE  ActivationOK(mem', env', d, act)
    <2>1. d \in Depths /\ d # Depth
      BY <1>1, ConstantsOK DEF Depths
    <2>2. \A a : InScope(env, d, a) => InScope(env', d, a)
      OBVIOUS
    <2>3. \A a \in TempsAt(d) : mem'[a] = mem[a]
      BY <1>3, <2>1
    <2>4. ASSUME NEW m1, NEW e1, \A a \in TempsAt(d) : m1[a] = mem[a],
                 \A a : InScope(env, d, a) => InScope(e1, d, a)
          PROVE  ActivationOK(m1, e1, d, act)
      BY <1>10, <2>1, <2>4, ActivationStays
    <2> QED
      BY <2>2, <2>3, <2>4
  <1> QED
    BY <1>3, <1>6, <1>7, <1>8, <1>9, <1>10, TopStep

\* The task that remains of a call or literal that is finished.
LEMMA FinishedTask ==
    ASSUME NEW d \in Depths, NEW used \in SUBSET TempsAt(d), NEW e, NEW m,
           NEW t \in Tasks, t.at \in used, NEW v \in Values, m[t.at] = v
    PROVE  LET f == Finished(t, v)
           IN  /\ f \in Tasks /\ f.at = t.at /\ f.kind = "done" /\ f.kind \notin Statements
               /\ TaskOK(e, d, used, f) /\ Intact(m, f)
  <1> DEFINE o == Operand(t.at, v)
             f == Finished(t, v)
  <1>1. t.at \in Addresses /\ t.at \in Places
    BY AddressFacts DEF Places
  <1>2. o \in Operands /\ o.addr = t.at /\ o.val = v
    BY <1>1 DEF Operand, Operands
  <1>3. f = [kind |-> "done", at |-> t.at, operands |-> <<o>>]
    BY DEF Finished
  <1> HIDE DEF o
  <1>4. <<o>> \in Seq(Operands) /\ Len(<<o>>) = 1 /\ <<o>>[1] = o
    BY <1>2
  <1>5. f \in Tasks /\ f.at = t.at /\ f.kind = "done" /\ f.operands = <<o>>
    BY <1>1, <1>3, <1>4 DEF Tasks, Kinds
  <1> HIDE DEF f
  <1>6. TaskOK(e, d, used, f)
    BY <1>2, <1>4, <1>5 DEF TaskOK, Statements
  <1>7. Intact(m, f)
    BY <1>2, <1>4, <1>5 DEF Intact
  <1>8. f.kind \notin Statements
    BY <1>5 DEF Statements
  <1> QED
    BY <1>5, <1>6, <1>7, <1>8 DEF f

\* The literal's fields are stored, one operand or scalars.
LEMMA LiteralIInv ==
    ASSUME IInv, ~AtStatement, Current.kind = "literal", NEW v \in Values,
           SetTodo(Append(Enclosing, Finished(Current, v))),
           mem' = [mem EXCEPT ![Current.at] = v], env' = env
    PROVE  IInv'
  <1> DEFINE todo == Top.todo
             f == Finished(Current, v)
             d == Depth
             used == Top.used
  <1>1. /\ todo \in Seq(Tasks) /\ todo # <<>> /\ TodoOK(env, d, used, todo)
        /\ \A k \in DOMAIN todo : Intact(mem, todo[k])
        /\ d \in Depths /\ used \in SUBSET TempsAt(d)
    BY TopParts DEF AtStatement
  <1>2. /\ Current = todo[Len(todo)] /\ Current \in Tasks
        /\ TaskOK(env, d, used, Current)
    BY <1>1, Front, FrontOK DEF Current
  <1>3. Current.kind \notin Statements /\ Current.at \in used
    BY <1>2 DEF Statements, TaskOK
  <1>4. mem'[Current.at] = v
    <2>1. mem \in [Addresses -> Values] /\ Current.at \in Addresses
      BY <1>1, <1>3, AddressFacts DEF IInv, Typed
    <2> QED
      BY <2>1
  <1> HIDE DEF d, used
  <1>5. ASSUME NEW m, NEW e, NEW c \in Tasks, c.at \in used, m[c.at] = v
        PROVE  LET g == Finished(c, v)
               IN  /\ g \in Tasks /\ g.at = c.at /\ g.kind = "done" /\ g.kind \notin Statements
                   /\ TaskOK(e, d, used, g) /\ Intact(m, g)
    <2>1. v \in Values /\ d \in Depths /\ used \in SUBSET TempsAt(d)
      BY <1>1
    <2>2. Finished(c, v) \in Tasks
      BY <1>5, <2>1, FinishedTask
    <2>3. TaskOK(e, d, used, Finished(c, v))
      BY <1>5, <2>1, FinishedTask
    <2>4. Intact(m, Finished(c, v))
      BY <1>5, <2>1, FinishedTask
    <2>5. Finished(c, v).at = c.at /\ Finished(c, v).kind = "done"
      BY <1>5, <2>1, FinishedTask
    <2>6. Finished(c, v).kind \notin Statements
      BY <1>5, <2>1, FinishedTask
    <2> QED
      BY <2>1, <2>2, <2>3, <2>4, <2>5, <2>6
  <1>6. /\ f \in Tasks /\ f.at = Current.at /\ f.kind = "done" /\ f.kind \notin Statements
        /\ TaskOK(env, d, used, f) /\ Intact(mem', f)
    BY <1>2, <1>3, <1>4, <1>5
  <1>7. acts' = [acts EXCEPT ![Depth].todo = Append(SubSeq(todo, 1, Len(todo) - 1), f)]
    BY DEF SetTodo, Enclosing
  <1> HIDE DEF todo, f
  <1>8. TodoOK(env, Depth, Top.used, todo) /\ TaskOK(env, Depth, Top.used, f)
    BY <1>1, <1>6 DEF d, used
  <1>9. f.at = todo[Len(todo)].at /\ todo[Len(todo)].kind \notin Statements
    BY <1>2, <1>3, <1>6
  <1>10. f.kind # "call" /\ mem' = [mem EXCEPT ![f.at] = v]
    BY <1>6
  <1> QED
    BY <1>1, <1>6, <1>7, <1>8, <1>9, <1>10, ReplaceStep

\* The scalar fields of a literal are stored one after the other.
LEMMA StoreScalarsIInv ==
    ASSUME IInv, NEW v \in Values, StoreScalars(v)
    PROVE  IInv'
  BY LiteralIInv DEF StoreScalars

LEMMA FinishLiteralIInv == ASSUME IInv, FinishLiteral PROVE IInv'
  <1> DEFINE v == Current.operands[1].val
  <1>1. /\ ~AtStatement /\ Current.kind = "literal" /\ Current.operands # <<>>
        /\ SetTodo(Append(Enclosing, Finished(Current, v)))
        /\ mem' = mem /\ env' = env
    BY DEF FinishLiteral
  <1>2. /\ Top.todo \in Seq(Tasks) /\ Top.todo # <<>>
        /\ TodoOK(env, Depth, Top.used, Top.todo)
        /\ \A k \in DOMAIN Top.todo : Intact(mem, Top.todo[k])
        /\ Depth \in Depths /\ Top.used \subseteq TempsAt(Depth)
    BY <1>1, TopParts DEF AtStatement
  <1>3. Current \in Tasks /\ TaskOK(env, Depth, Top.used, Current)
    BY <1>2, Front, FrontOK DEF Current
  <1>4. Intact(mem, Current)
    <2> DEFINE todo == Top.todo
    <2>1. Len(todo) \in DOMAIN todo
      BY <1>2, Front
    <2> QED
      BY <1>2, <2>1 DEF Current
  <1>5. Current.at \in Addresses
    BY <1>1, <1>2, <1>3, AddressFacts DEF TaskOK, Statements
  <1>6. v \in Values
    <2> DEFINE s == Current.operands
    <2>1. s \in Seq(Operands) /\ s # <<>>
      BY <1>1, <1>3, RecordParts
    <2> HIDE DEF s
    <2>2. 1 \in 1..Len(s)
      BY <2>1, EmptySeq
    <2>3. s[1] \in Operands
      BY <2>1, <2>2, ElementOfSeq
    <2> QED
      BY <2>3, RecordParts DEF s
  <1>7. mem[Current.at] = v
    BY <1>1, <1>4 DEF Intact
  <1> HIDE DEF v
  <1>8. mem' = [mem EXCEPT ![Current.at] = v]
    <2>1. mem \in [Addresses -> Values]
      BY DEF IInv, Typed
    <2>2. ASSUME NEW x \in Addresses PROVE mem = [mem EXCEPT ![x] = mem[x]]
      BY <2>1
    <2> QED
      BY <1>1, <1>5, <1>7, <2>2
  <1> QED
    BY <1>1, <1>6, <1>8, LiteralIInv

\* An operand that is on the wasm stack: what memory holds at its address is
\* the value it had, and the address stays good for the tasks that wait.
Ready(o, todo) ==
    /\ o \in Operands /\ mem[o.addr] = o.val
    /\ \/ InScope(env, Depth, o.addr)
       \/ /\ o.addr \in Top.used
          /\ \A k \in 2..Len(todo) : o.addr # todo[k].at

\* Tasks of the activation on top that wait, the innermost for an operand.
Await(todo) ==
    /\ todo \in Seq(Tasks) /\ todo # <<>>
    /\ TodoOK(env, Depth, Top.used, todo)
    /\ \A k \in DOMAIN todo : Intact(mem, todo[k]) /\ Waiting(todo[k])

\* The operand of an assignment or of a call statement ends the statement.
LEMMA EndStatement ==
    ASSUME IInv, NEW todo, Await(todo)
    PROVE  LET rest == SubSeq(todo, 1, Len(todo) - 1)
               A == TopWith(rest, Top.used)
           IN  /\ A \in Activations /\ A.ret = Top.ret
               /\ [acts EXCEPT ![Depth].todo = rest] = [acts EXCEPT ![Depth] = A]
               /\ ActivationOK(mem, env, Depth, A)
  <1> DEFINE rest == SubSeq(todo, 1, Len(todo) - 1)
             A == TopWith(rest, Top.used)
  <1>1. /\ todo \in Seq(Tasks) /\ todo # <<>> /\ TodoOK(env, Depth, Top.used, todo)
        /\ \A k \in DOMAIN todo : Intact(mem, todo[k])
        /\ Top.used \in SUBSET TempsAt(Depth)
    BY TopParts DEF Await
  <1>2. /\ rest \in Seq(Tasks) /\ DOMAIN rest \subseteq DOMAIN todo
        /\ \A k \in DOMAIN rest : rest[k] = todo[k]
    <2>1. /\ Len(todo) \in Nat \ {0} /\ DOMAIN todo = 1..Len(todo)
          /\ rest \in Seq(Tasks) /\ DOMAIN rest = 1..(Len(todo) - 1)
          /\ \A i \in 1..(Len(todo) - 1) : rest[i] = todo[i]
      BY <1>1, Front
    <2> HIDE DEF rest
    <2> QED
      BY <2>1
  <1>3. TodoOK(env, Depth, Top.used, rest)
    BY <1>1, FrontOK
  <1> HIDE DEF rest
  <1>4. /\ A \in Activations /\ A.todo = rest /\ A.used = Top.used /\ A.ret = Top.ret
        /\ [acts EXCEPT ![Depth].todo = rest] = [acts EXCEPT ![Depth] = A]
    BY <1>1, <1>2, TopSet
  <1> HIDE DEF A
  <1>5. ActivationOK(mem, env, Depth, A)
    BY <1>1, <1>2, <1>3, <1>4 DEF ActivationOK
  <1> QED
    BY <1>4, <1>5 DEF A, rest

\* An argument stays on the wasm stack until the call is made.
LEMMA DeliverArgument ==
    ASSUME IInv, NEW todo, Await(todo), NEW o, Ready(o, todo),
           todo[Len(todo)].kind = "call",
           SetTodo(Append(SubSeq(todo, 1, Len(todo) - 1),
                          [todo[Len(todo)] EXCEPT !.operands = Append(@, o)])),
           UNCHANGED <<mem, env>>
    PROVE  IInv'
  <1> DEFINE n == Len(todo)
             t == todo[n]
             kept == [t EXCEPT !.operands = Append(@, o)]
             used == Top.used
  <1>1. /\ todo \in Seq(Tasks) /\ todo # <<>> /\ TodoOK(env, Depth, used, todo)
        /\ \A k \in DOMAIN todo : Intact(mem, todo[k])
        /\ o \in Operands /\ mem[o.addr] = o.val
        /\ Depth \in Depths /\ used \in SUBSET TempsAt(Depth)
    BY TopParts DEF Await, Ready
  <1>2. n \in Nat \ {0} /\ n \in DOMAIN todo /\ t \in Tasks
    BY <1>1, Front
  <1>3. TaskOK(env, Depth, used, t) /\ Intact(mem, t) /\ t.kind \notin Statements /\ n # 1
    BY <1>1, <1>2 DEF TodoOK, Statements
  <1>4. /\ kept \in Tasks /\ kept.kind = "call" /\ kept.at = t.at
        /\ kept.operands = Append(t.operands, o) /\ t.operands \in Seq(Operands)
    BY <1>1, <1>2, KeptTask
  <1>5. /\ acts' = [acts EXCEPT ![Depth].todo = Append(SubSeq(todo, 1, n - 1), kept)]
        /\ mem' = mem /\ env' = env
    BY DEF SetTodo
  <1>6. \A k \in 2..(n - 1) : Unshared(t, todo[k])
    <2>1. \A k \in 2..(n - 1) : k \in DOMAIN todo /\ k > 1 /\ k # n /\ n > 1
      BY <1>1, <1>2, <1>3, LenProperties
    <2> QED
      BY <1>1, <1>2, <2>1 DEF TodoOK
  <1> DEFINE s == t.operands
             l == Len(s)
             s1 == Append(s, o)
  <1>7. /\ l \in Nat /\ DOMAIN s = 1..l /\ DOMAIN s1 = 1..(l + 1)
        /\ \A i \in 1..l : s1[i] = s[i]
        /\ s1[l + 1] = o
    BY <1>1, <1>4, Appended
  <1> HIDE DEF l, s1
  <1>8. \A i \in DOMAIN s1 : (i \in DOMAIN s /\ s1[i] = s[i]) \/ s1[i] = o
    BY <1>7
  <1>9. kept.operands = s1
    BY <1>4 DEF s1
  <1> HIDE DEF kept
  <1>10. \/ InScope(env, Depth, o.addr)
         \/ o.addr \in used /\ \A k \in 2..n : o.addr # todo[k].at
    BY DEF Ready
  <1>12. \A k \in 2..n : todo[k].at \notin Variables
    <2>1. ASSUME NEW k \in 2..n PROVE todo[k].at \in used
      <3>1. k \in DOMAIN todo /\ k # 1
        BY <1>1, <1>2, LenProperties
      <3> QED
        BY <1>1, <3>1 DEF TodoOK, TaskOK
    <2> QED
      BY <1>1, <2>1, AddressFacts
  <1>13. ASSUME NEW k \in 2..n PROVE o.addr # todo[k].at
    <2>1. CASE InScope(env, Depth, o.addr)
      <3>1. o.addr \in Variables
        BY <2>1 DEF InScope
      <3> QED
        BY <1>12, <3>1
    <2>2. CASE ~InScope(env, Depth, o.addr)
      BY <1>10, <2>2
    <2> QED
      BY <2>1, <2>2
  <1>14. n \in 2..n
    <2>1. n \in Nat /\ n # 0 /\ n # 1
      BY <1>2, <1>3
    <2> HIDE DEF n
    <2> QED
      BY <2>1
  <1> HIDE DEF n, t, used
  <1>15. TaskOK(env, Depth, used, kept)
    <2>1. t.kind = "call" /\ t.at \in used /\ Depth < MaxDepth
      BY <1>3 DEF TaskOK, t, n
    <2>2. \A i \in DOMAIN s : InScope(env, Depth, s[i].addr) \/ s[i].addr \in used \ {t.at}
      BY <1>3, <2>1 DEF TaskOK
    <2>3. InScope(env, Depth, o.addr) \/ o.addr \in used \ {t.at}
      BY <1>10, <1>13, <1>14 DEF t
    <2>4. \A i \in DOMAIN s1 : InScope(env, Depth, s1[i].addr) \/ s1[i].addr \in used \ {t.at}
      BY <1>8, <2>2, <2>3
    <2> QED
      BY <1>4, <1>9, <2>1, <2>4 DEF TaskOK, Statements
  <1>16. Intact(mem, kept)
    <2>1. \A i \in DOMAIN s : s[i].addr \notin Variables => mem[s[i].addr] = s[i].val
      BY <1>3 DEF Intact, t, n
    <2> QED
      BY <1>1, <1>4, <1>8, <1>9, <2>1 DEF Intact
  <1>17. \A i \in DOMAIN s1 : \A k \in 2..(n - 1) : s1[i].addr # todo[k].at
    <2>1. t.kind = "call" /\ \A k \in 2..(n - 1) : k \in 2..n
      BY <1>2 DEF t, n
    <2>2. \A i \in DOMAIN s : \A k \in 2..(n - 1) : s[i].addr # todo[k].at
      BY <1>6, <2>1 DEF Unshared
    <2> QED
      BY <1>8, <1>13, <2>1, <2>2
  <1>18. mem' = [mem EXCEPT ![kept.at] = mem[kept.at]] /\ mem[kept.at] \in Values
    <2>1. mem \in [Addresses -> Values]
      BY DEF IInv, Typed
    <2>2. kept.at \in Addresses
      BY <1>1, <1>4, <1>15, AddressFacts DEF TaskOK, Statements
    <2> QED
      BY <1>5, <2>1, <2>2
  <1> DEFINE v == mem[kept.at]
  <1>19. /\ kept.at = todo[Len(todo)].at /\ todo[Len(todo)].kind \notin Statements
         /\ kept.kind \notin Statements
         /\ TodoOK(env, Depth, Top.used, todo) /\ TaskOK(env, Depth, Top.used, kept)
         /\ acts' = [acts EXCEPT ![Depth].todo = Append(SubSeq(todo, 1, Len(todo) - 1), kept)]
         /\ v \in Values /\ mem' = [mem EXCEPT ![kept.at] = v] /\ env' = env
         /\ Intact(mem', kept)
    BY <1>1, <1>3, <1>4, <1>5, <1>15, <1>16, <1>18 DEF n, t, used, Statements
  <1>20. kept.kind = "call" => \A i \in DOMAIN kept.operands : \A k \in 2..(Len(todo) - 1) :
                                  kept.operands[i].addr # todo[k].at
    BY <1>9, <1>17 DEF n
  <1> HIDE DEF v
  <1> QED
    BY <1>1, <1>4, <1>19, <1>20, ReplaceStep

\* A literal copies its aggregate field at once.
LEMMA DeliverField ==
    ASSUME IInv, NEW todo, Await(todo), NEW o, Ready(o, todo),
           todo[Len(todo)].kind = "literal",
           SetTodo(Append(SubSeq(todo, 1, Len(todo) - 1),
                          [todo[Len(todo)] EXCEPT !.operands = Append(@, o)])),
           mem' = [mem EXCEPT ![todo[Len(todo)].at] = mem[o.addr]], env' = env
    PROVE  IInv'
  <1> DEFINE n == Len(todo)
             t == todo[n]
             kept == [t EXCEPT !.operands = Append(@, o)]
             used == Top.used
  <1>1. /\ todo \in Seq(Tasks) /\ todo # <<>> /\ TodoOK(env, Depth, used, todo)
        /\ \A k \in DOMAIN todo : Intact(mem, todo[k]) /\ Waiting(todo[k])
        /\ o \in Operands /\ mem[o.addr] = o.val /\ o.val \in Values
        /\ Depth \in Depths /\ used \in SUBSET TempsAt(Depth)
    BY TopParts, RecordParts DEF Await, Ready
  <1>2. n \in Nat \ {0} /\ n \in DOMAIN todo /\ t \in Tasks
    BY <1>1, Front
  <1>3. TaskOK(env, Depth, used, t) /\ t.kind \notin Statements /\ t.operands = <<>>
    BY <1>1, <1>2 DEF TodoOK, Statements, Waiting
  <1>4. /\ kept \in Tasks /\ kept.kind = "literal" /\ kept.at = t.at
        /\ kept.operands = Append(t.operands, o)
    BY <1>1, <1>2, KeptTask
  <1>5. kept.operands = <<o>>
    BY <1>3, <1>4
  <1>6. /\ acts' = [acts EXCEPT ![Depth].todo = Append(SubSeq(todo, 1, n - 1), kept)]
        /\ mem' = [mem EXCEPT ![kept.at] = o.val] /\ env' = env
    BY <1>1, <1>4 DEF SetTodo
  <1> HIDE DEF kept
  <1>7. TaskOK(env, Depth, used, kept)
    BY <1>3, <1>4 DEF TaskOK, Statements
  <1>8. Intact(mem', kept)
    <2>1. kept.at \in Addresses /\ mem \in [Addresses -> Values]
      BY <1>1, <1>4, <1>7, AddressFacts DEF TaskOK, Statements, IInv, Typed
    <2>2. mem'[kept.at] = o.val
      BY <1>6, <2>1
    <2> QED
      BY <1>4, <1>5, <2>2 DEF Intact
  <1> DEFINE v == o.val
  <1>9. /\ kept.at = todo[Len(todo)].at /\ todo[Len(todo)].kind \notin Statements
        /\ kept.kind \notin Statements /\ kept.kind # "call"
        /\ TodoOK(env, Depth, Top.used, todo) /\ TaskOK(env, Depth, Top.used, kept)
        /\ acts' = [acts EXCEPT ![Depth].todo = Append(SubSeq(todo, 1, Len(todo) - 1), kept)]
        /\ v \in Values /\ mem' = [mem EXCEPT ![kept.at] = v]
    BY <1>1, <1>3, <1>4, <1>6, <1>7 DEF n, t, used, Statements
  <1> HIDE DEF v
  <1> QED
    BY <1>1, <1>4, <1>8, <1>9, ReplaceStep

\* An assignment copies its value; variable and memory agree on it.
LEMMA DeliverValue ==
    ASSUME IInv, NEW todo, Await(todo), NEW o, Ready(o, todo),
           todo[Len(todo)].kind = "assign",
           SetTodo(SubSeq(todo, 1, Len(todo) - 1)),
           mem' = [mem EXCEPT ![todo[Len(todo)].at] = mem[o.addr]],
           env' = [env EXCEPT ![todo[Len(todo)].at] = o.val]
    PROVE  IInv'
  <1> DEFINE x == todo[Len(todo)].at
             v == o.val
             A == TopWith(SubSeq(todo, 1, Len(todo) - 1), Top.used)
  <1>1. /\ A \in Activations /\ A.ret = Top.ret
        /\ acts' = [acts EXCEPT ![Depth] = A]
        /\ ActivationOK(mem, env, Depth, A)
    BY EndStatement DEF SetTodo
  <1>2. TaskOK(env, Depth, Top.used, todo[Len(todo)])
    BY FrontOK DEF Await
  <1>3. x \in Variables /\ x[1] <= Depth
    BY <1>2 DEF TaskOK
  <1>4. o \in Operands /\ mem[o.addr] = v /\ v \in Values
    BY RecordParts DEF Ready
  <1>5. mem' = [mem EXCEPT ![x] = v] /\ env' = [env EXCEPT ![x] = v]
    BY <1>4
  <1> HIDE DEF x, v, A
  <1>6. /\ mem' \in [Addresses -> Values]
        /\ env' \in [Variables -> Values \cup {Undeclared}]
        /\ ScopesEnd(env', Depth) /\ Agree(mem', env')
        /\ \A d \in Depths : \A act \in Activations :
              ActivationOK(mem, env, d, act) => ActivationOK(mem', env', d, act)
    BY <1>3, <1>4, <1>5, WriteVariable
  <1>7. Depth \in Depths /\ 1..(Depth - 1) \subseteq Depths
    BY TopParts, ConstantsOK DEF Depths
  <1> QED
    BY <1>1, <1>6, <1>7, TopStep

\* The operand goes to the innermost of the tasks that wait.
LEMMA DeliverIInv ==
    ASSUME IInv, NEW todo, Await(todo), NEW o, Ready(o, todo), Deliver(o, todo)
    PROVE  IInv'
  <1> DEFINE n == Len(todo)
             rest == SubSeq(todo, 1, n - 1)
             kept == [todo[n] EXCEPT !.operands = Append(@, o)]
  <1>1. CASE /\ todo[n].kind = "call" /\ SetTodo(Append(rest, kept))
             /\ UNCHANGED <<mem, env>>
    BY <1>1, DeliverArgument
  <1>2. CASE /\ todo[n].kind = "literal" /\ SetTodo(Append(rest, kept))
             /\ mem' = [mem EXCEPT ![todo[n].at] = mem[o.addr]] /\ UNCHANGED env
    BY <1>2, DeliverField
  <1>3. CASE /\ todo[n].kind = "assign" /\ SetTodo(rest)
             /\ mem' = [mem EXCEPT ![todo[n].at] = mem[o.addr]]
             /\ env' = [env EXCEPT ![todo[n].at] = o.val]
    BY <1>3, DeliverValue
  <1>4. CASE todo[n].kind = "discard" /\ SetTodo(rest) /\ UNCHANGED <<mem, env>>
    <2> DEFINE A == TopWith(rest, Top.used)
    <2>1. /\ A \in Activations /\ A.ret = Top.ret
          /\ acts' = [acts EXCEPT ![Depth] = A]
          /\ ActivationOK(mem, env, Depth, A)
      BY <1>4, EndStatement DEF SetTodo
    <2> HIDE DEF A
    <2> QED
      BY <1>4, <2>1, QuietStep
  <1> QED
    BY <1>1, <1>2, <1>3, <1>4 DEF Deliver

-----------------------------------------------------------------------------
(* Calls. *)

\* return: the callee's activation and variables are gone, the result is in
\* the temp that its caller's innermost call has for it.
LEMMA ReturnIInv ==
    ASSUME IInv, NEW o \in Operands, mem[o.addr] = o.val, Depth > 1, ReturnOperand(o)
    PROVE  IInv'
  <1> DEFINE D == Depth - 1
             todo == acts[D].todo
             used == acts[D].used
             n == Len(todo)
             x == Top.ret
             f == Finished(todo[n], o.val)
             new == [todo EXCEPT ![n] = f]
             B == [todo |-> new, used |-> used, ret |-> acts[D].ret]
  <1>1. /\ Depth \in Depths /\ Depth \in Nat \ {0} /\ Depth = Len(acts)
        /\ acts \in Seq(Activations) /\ DOMAIN acts = 1..Depth
        /\ mem \in [Addresses -> Values] /\ env \in [Variables -> Values \cup {Undeclared}]
        /\ ScopesEnd(env, Depth) /\ Agree(mem, env)
    BY TopParts DEF IInv, Typed, Depth
  <1>2. /\ D \in 1..Depth /\ D \in Nat /\ D \in 1..(Depth - 1) /\ D + 1 = Depth
        /\ 1..Depth \subseteq Depths /\ D \in Depths /\ D # Depth
    BY <1>1, ConstantsOK DEF Depths
  <1>3. acts[D] \in Activations /\ ActivationOK(mem, env, D, acts[D])
    <2>1. acts[D] \in Activations
      BY <1>1, <1>2, ElementOfSeq
    <2> QED
      BY <1>2, <2>1 DEF IInv
  <1>4. WaitsFor(todo, x)
    <2>1. \A d \in 1..(Depth - 1) : WaitsFor(acts[d].todo, acts[d + 1].ret)
      BY DEF IInv
    <2>2. WaitsFor(acts[D].todo, acts[D + 1].ret)
      BY <1>2, <2>1
    <2> QED
      BY <1>2, <2>2 DEF Top
  <1>5. /\ todo \in Seq(Tasks) /\ todo # <<>> /\ TodoOK(env, D, used, todo)
        /\ \A k \in DOMAIN todo : Intact(mem, todo[k])
        /\ used \in SUBSET TempsAt(D) /\ acts[D].ret \in Places
        /\ todo[n].kind = "call" /\ todo[n].at = x
    BY <1>3, <1>4, RecordParts DEF ActivationOK, WaitsFor
  <1>6. n \in Nat \ {0} /\ DOMAIN todo = 1..n /\ todo[n] \in Tasks
        /\ TaskOK(env, D, used, todo[n]) /\ todo[n].kind \notin Statements
    BY <1>5, Front, FrontOK DEF Statements
  <1>7. x \in used /\ x \in TempsAt(D)
    BY <1>5, <1>6 DEF TaskOK
  <1>8. o.val \in Values /\ mem' = [mem EXCEPT ![x] = o.val]
    BY RecordParts DEF ReturnOperand
  <1>9. /\ mem' \in [Addresses -> Values] /\ mem'[x] = o.val
        /\ \A a \in Addresses : a # x => mem'[a] = mem[a]
        /\ \A a \in Variables : mem'[a] = mem[a]
        /\ \A d \in Depths : d # D => \A a \in TempsAt(d) : mem'[a] = mem[a]
    <2> HIDE DEF D, x
    <2> DEFINE v == o.val
    <2>1. v \in Values /\ mem' = [mem EXCEPT ![x] = v] /\ D \in Depths /\ x \in TempsAt(D)
      BY <1>2, <1>7, <1>8
    <2> HIDE DEF v
    <2>2. /\ mem' \in [Addresses -> Values] /\ mem'[x] = v
          /\ \A a \in Addresses : a # x => mem'[a] = mem[a]
      BY <1>1, <2>1, AddressFacts
    <2>3. \A a \in Variables : mem'[a] = mem[a]
      BY <2>1, WriteTemp
    <2>4. \A d \in Depths : d # D => \A a \in TempsAt(d) : mem'[a] = mem[a]
      BY <2>1, WriteTemp
    <2> QED
      BY <2>2, <2>3, <2>4 DEF v
  <1>10. \A a \in Variables : env'[a] = IF a \in VarsAt(Depth) THEN Undeclared ELSE env[a]
    BY DEF ReturnOperand
  <1>11. env' \in [Variables -> Values \cup {Undeclared}]
    <2>1. env' = [a \in Variables |-> IF a \in VarsAt(Depth) THEN Undeclared ELSE env[a]]
      BY DEF ReturnOperand
    <2> QED
      BY <1>1, <2>1
  <1>12. acts' = [SubSeq(acts, 1, D) EXCEPT ![D].todo[n] = f]
    BY DEF ReturnOperand
  <1>13. ASSUME NEW d \in 1..(Depth - 1), NEW a, InScope(env, d, a)
         PROVE  InScope(env', d, a)
    <2>1. a \in Variables /\ a[1] \in Int /\ a[1] <= d /\ env[a] # Undeclared
      BY <1>13, AddressFacts DEF InScope
    <2>2. a[1] # Depth
      BY <1>1, <2>1
    <2>3. a \notin VarsAt(Depth)
      BY <1>1, <2>2, AddressFacts
    <2> QED
      BY <1>10, <2>1, <2>3 DEF InScope
  <1> HIDE DEF D, x
  <1>14. /\ f \in Tasks /\ f.at = x /\ f.kind = "done" /\ f.kind \notin Statements
         /\ TaskOK(env, D, used, f) /\ Intact(mem', f)
    <2> DEFINE v == o.val
               t == todo[n]
               u == used
    <2>1. v \in Values /\ D \in Depths /\ u \in SUBSET TempsAt(D) /\ t \in Tasks
          /\ t.at \in u /\ t.at = x /\ mem'[x] = v
      BY <1>2, <1>5, <1>6, <1>7, <1>8, <1>9
    <2> HIDE DEF v, t, u, todo, n, used
    <2>2. ASSUME NEW m, m[t.at] = v
          PROVE  /\ Finished(t, v) \in Tasks
                 /\ TaskOK(env, D, u, Finished(t, v)) /\ Intact(m, Finished(t, v))
      <3>1. Finished(t, v) \in Tasks
        BY <2>1, <2>2, FinishedTask
      <3>2. TaskOK(env, D, u, Finished(t, v))
        BY <2>1, <2>2, FinishedTask
      <3>3. Intact(m, Finished(t, v))
        BY <2>1, <2>2, FinishedTask
      <3> QED
        BY <3>1, <3>2, <3>3
    <2>3. Finished(t, v).at = x /\ Finished(t, v).kind = "done"
      BY <2>1 DEF Finished
    <2>4. Finished(t, v).kind \notin Statements
      BY <2>3 DEF Statements
    <2> QED
      BY <2>1, <2>2, <2>3, <2>4 DEF v, t, u
  <1> HIDE DEF f
  <1>15. new = Append(SubSeq(todo, 1, n - 1), f) /\ f.kind # "call" /\ f.at = todo[n].at
    BY <1>5, <1>14, ReplaceLast
  <1>16. /\ new \in Seq(Tasks) /\ TodoOK(env, D, used, new)
         /\ \A k \in DOMAIN new : Intact(mem', new[k])
    <2> DEFINE u == used
               s == todo
               w == Append(SubSeq(s, 1, Len(s) - 1), f)
    <2>1. /\ s \in Seq(Tasks) /\ s # <<>> /\ TodoOK(env, D, u, s)
          /\ \A k \in DOMAIN s : Intact(mem, s[k])
          /\ u \in SUBSET TempsAt(D) /\ D \in Depths
          /\ s[Len(s)].kind \notin Statements
          /\ f \in Tasks /\ f.at = s[Len(s)].at /\ f.kind \notin Statements /\ f.kind # "call"
          /\ TaskOK(env, D, u, f)
      BY <1>2, <1>5, <1>6, <1>14, <1>15
    <2> HIDE DEF u, s
    <2>2. ASSUME NEW m, \A a \in Addresses : a # f.at => m[a] = mem[a], Intact(m, f)
          PROVE  /\ w \in Seq(Tasks) /\ TodoOK(env, D, u, w)
                 /\ \A k \in DOMAIN w : Intact(m, w[k])
      BY <2>1, <2>2, ReplaceOK, ZenonT(40)
    <2>3. new = w
      BY <1>15 DEF s
    <2>4. \A a \in Addresses : a # f.at => mem'[a] = mem[a]
      BY <1>9, <1>14
    <2> HIDE DEF w, new
    <2> QED
      BY <1>14, <2>2, <2>3, <2>4 DEF u
  <1> HIDE DEF new
  <1>17. B \in Activations /\ B.todo = new /\ B.used = used /\ B.ret = acts[D].ret
    BY <1>2, <1>5, <1>16, AddressFacts DEF Activations
  <1>18. /\ acts' \in Seq(Activations) /\ Len(acts') = D
         /\ \A d \in 1..D : acts'[d] = IF d = D THEN B ELSE acts[d]
    <2> DEFINE low == SubSeq(acts, 1, D)
    <2>1. /\ low \in Seq(Activations) /\ Len(low) = D
          /\ \A d \in 1..D : low[d] = acts[d]
      BY <1>1, Front DEF D
    <2>2. D \in 1..D /\ DOMAIN low = 1..D
      <3> HIDE DEF low
      <3> QED
        BY <1>2, <2>1, LenProperties
    <2> HIDE DEF low
    <2>3. acts' = [low EXCEPT ![D].todo[n] = f]
      BY <1>12 DEF low
    <2>4. [acts[D] EXCEPT !.todo[n] = f] = B
      <3>1. ASSUME NEW c \in Activations, NEW i, NEW g
            PROVE  [c EXCEPT !.todo[i] = g]
                     = [todo |-> [c.todo EXCEPT ![i] = g], used |-> c.used, ret |-> c.ret]
        BY DEF Activations
      <3> QED
        BY <1>3, <3>1 DEF new
    <2> HIDE DEF B
    <2>5. acts' = [low EXCEPT ![D] = B]
      BY <2>1, <2>2, <2>3, <2>4
    <2> DEFINE b == [low EXCEPT ![D] = B]
    <2>6. /\ b \in Seq(Activations) /\ Len(b) = Len(low)
          /\ \A d \in 1..Len(low) : b[d] = IF d = D THEN B ELSE low[d]
      BY <1>17, <2>1, <2>2, ExceptSeq
    <2> HIDE DEF b
    <2>7. acts' = b
      BY <2>5 DEF b
    <2> QED
      BY <2>1, <2>6, <2>7
  <1> HIDE DEF B, todo, n, used
  <1>19. Depth' = D
    BY <1>18 DEF Depth
  <1>20. Typed'
    BY <1>2, <1>9, <1>11, <1>18, <1>19 DEF Typed
  <1>21. ScopesEnd(env', D)
    <2> SUFFICES ASSUME NEW a \in Variables, a[1] > D PROVE env'[a] = Undeclared
      BY DEF ScopesEnd
    <2>1. a[1] \in Int
      BY AddressFacts
    <2>2. CASE a[1] > Depth
      BY <1>1, <1>10, <2>2 DEF ScopesEnd
    <2>3. CASE a[1] = Depth
      <3>1. PICK d \in {0} \cup Depths : a[1] = d /\ (d # 0 => a \in VarsAt(d))
        BY AddressFacts DEF Variables, GlobalVars
      <3> QED
        BY <1>1, <1>10, <2>3, <3>1
    <2> QED
      BY <1>1, <1>2, <2>1, <2>2, <2>3
  <1>22. Agree(mem', env')
    BY <1>1, <1>9, <1>10 DEF Agree
  <1>23. ASSUME NEW d \in 1..D PROVE ActivationOK(mem', env', d, acts'[d])
    <2>1. d \in Depths /\ d \in 1..Depth /\ d \in 1..(Depth - 1)
      BY <1>1, <1>2
    <2>2. \A a : InScope(env, d, a) => InScope(env', d, a)
      BY <1>13, <2>1
    <2>3. CASE d = D
      <3>2. ASSUME NEW m, ActivationOK(m, env, d, B) PROVE ActivationOK(m, env', d, B)
        BY <1>17, <2>1, <2>2, <3>2, ActivationStays
      <3>3. ActivationOK(mem', env, d, B)
        BY <1>5, <1>16, <1>17, <2>3 DEF ActivationOK
      <3> QED
        BY <1>18, <2>3, <3>2, <3>3
    <2>4. CASE d # D
      <3>1. acts'[d] = acts[d] /\ acts[d] \in Activations /\ ActivationOK(mem, env, d, acts[d])
        BY <1>1, <1>18, <2>1, <2>4, ElementOfSeq DEF IInv
      <3>2. \A a \in TempsAt(d) : mem'[a] = mem[a]
        BY <1>9, <2>1, <2>4
      <3>3. ASSUME NEW c \in Activations, NEW m, NEW e, ActivationOK(mem, env, d, c),
                   \A a \in TempsAt(d) : m[a] = mem[a],
                   \A a : InScope(env, d, a) => InScope(e, d, a)
            PROVE  ActivationOK(m, e, d, c)
        BY <2>1, <3>3, ActivationStays
      <3>4. ActivationOK(mem', env', d, acts[d])
        BY <2>2, <3>1, <3>2, <3>3
      <3> QED
        BY <3>1, <3>4
    <2> QED
      BY <2>3, <2>4
  <1>24. ASSUME NEW d \in 1..(D - 1) PROVE WaitsFor(acts'[d].todo, acts'[d + 1].ret)
    <2>1. d \in 1..D /\ d # D /\ d + 1 \in 1..D /\ d \in 1..(Depth - 1)
      BY <1>1, <1>2
    <2>2. acts'[d] = acts[d] /\ acts'[d + 1].ret = acts[d + 1].ret
      BY <1>17, <1>18, <2>1
    <2> QED
      BY <2>1, <2>2 DEF IInv
  <1> QED
    BY <1>19, <1>20, <1>21, <1>22, <1>23, <1>24 DEF IInv

\* call, and the callee's copies of its parameters: each is of a variable in
\* scope or of a result that is intact, so memory and language agree.
LEMMA InvokeIInv == ASSUME IInv, Invoke PROVE IInv'
  <1> DEFINE d0 == Depth + 1
             ops == Current.operands
             arg(a) == ops[CHOOSE i \in DOMAIN Params : Params[i] = a[2]]
             copied(a) == a[1] = d0 /\ a[2] \in ParamSlots
             B == NewActivation(Current.at)
             todo == Top.todo
  <1>1. /\ Depth \in Depths /\ Depth \in Nat \ {0} /\ Depth = Len(acts)
        /\ acts \in Seq(Activations)
        /\ mem \in [Addresses -> Values] /\ env \in [Variables -> Values \cup {Undeclared}]
        /\ ScopesEnd(env, Depth) /\ Agree(mem, env)
    BY TopParts DEF IInv, Typed, Depth
  <1>2. /\ todo \in Seq(Tasks) /\ todo # <<>> /\ TodoOK(env, Depth, Top.used, todo)
        /\ \A k \in DOMAIN todo : Intact(mem, todo[k])
        /\ Top.used \in SUBSET TempsAt(Depth)
        /\ Current = todo[Len(todo)] /\ Current.kind = "call" /\ Len(ops) = Len(Params)
    BY TopParts DEF Invoke, AtStatement, Current
  <1>3. Len(todo) \in DOMAIN todo /\ Current \in Tasks
    BY <1>2, Front
  <1>4. TaskOK(env, Depth, Top.used, Current) /\ Intact(mem, Current)
    BY <1>2, <1>3 DEF TodoOK
  <1>5. Depth < MaxDepth /\ Current.at \in Top.used /\ Current.at \in Places
    BY <1>2, <1>3, <1>4, RecordParts DEF TaskOK, Statements
  <1>6. d0 \in Depths /\ 1..Depth \subseteq Depths /\ d0 \in Nat /\ MaxDepth \in Nat
    BY <1>1, <1>5, ConstantsOK DEF Depths
  <1>7. ops \in Seq(Operands) /\ DOMAIN ops = DOMAIN Params
    <2>1. ops \in Seq(Operands)
      BY <1>3, RecordParts
    <2>2. DOMAIN Params = 1..Len(Params)
      BY ConstantsOK, LenProperties
    <2>3. DOMAIN ops = 1..Len(ops)
      <3> HIDE DEF ops
      <3> QED
        BY <2>1, LenProperties
    <2> QED
      BY <1>2, <2>1, <2>2, <2>3
  <1>8. /\ mem' = [a \in Addresses |-> IF copied(a) THEN mem[arg(a).addr] ELSE mem[a]]
        /\ env' = [a \in Variables |-> IF copied(a) THEN Passed(arg(a)) ELSE env[a]]
        /\ acts' = Append(acts, B)
    BY DEF Invoke
  <1>9. ASSUME NEW i \in DOMAIN ops
        PROVE  LET o == ops[i]
               IN  /\ o.addr \in Addresses /\ mem[o.addr] = Passed(o) /\ Passed(o) \in Values
    <2> DEFINE o == ops[i]
    <2>1. o \in Operands
      <3> HIDE DEF ops
      <3> QED
        BY <1>7, ElementOfSeq, LenProperties
    <2>2. InScope(env, Depth, o.addr) \/ o.addr \in Top.used
      BY <1>2, <1>4 DEF TaskOK
    <2>3. o.addr \notin Variables => mem[o.addr] = o.val
      BY <1>2, <1>4 DEF Intact
    <2> HIDE DEF o
    <2>4. o.addr \in Addresses /\ o.val \in Values
      BY <2>1, RecordParts
    <2>5. ASSUME InScope(env, Depth, o.addr)
          PROVE  mem[o.addr] = Passed(o) /\ Passed(o) \in Values
      <3>1. o.addr \in Variables /\ env[o.addr] # Undeclared
        BY <2>5 DEF InScope
      <3>2. Passed(o) = env[o.addr] /\ mem[o.addr] = env[o.addr]
        BY <1>1, <3>1 DEF Passed, Agree
      <3> QED
        BY <1>1, <2>4, <3>2
    <2>6. ASSUME o.addr \in Top.used
          PROVE  mem[o.addr] = Passed(o) /\ Passed(o) \in Values
      <3>1. o.addr \notin Variables
        BY <1>1, <1>2, <2>6, AddressFacts
      <3> QED
        BY <2>3, <2>4, <3>1 DEF Passed
    <2> QED
      BY <2>2, <2>4, <2>5, <2>6 DEF o
  <1>10. ASSUME NEW a, copied(a)
         PROVE  /\ mem[arg(a).addr] = Passed(arg(a)) /\ Passed(arg(a)) \in Values
    <2> DEFINE i == CHOOSE i \in DOMAIN Params : Params[i] = a[2]
    <2>1. i \in DOMAIN ops
      BY <1>7, <1>10 DEF ParamSlots
    <2> HIDE DEF i
    <2>2. mem[ops[i].addr] = Passed(ops[i]) /\ Passed(ops[i]) \in Values
      BY <1>9, <2>1
    <2> QED
      BY <2>2 DEF i
  <1>15. \A a : copied(a) => a[1] = d0
    OBVIOUS
  <1> HIDE DEF copied, arg, d0, ops
  <1>11. \A a \in Addresses : mem'[a] = IF copied(a) THEN mem[arg(a).addr] ELSE mem[a]
    BY <1>8
  <1>12. \A a \in Variables : env'[a] = IF copied(a) THEN Passed(arg(a)) ELSE env[a]
    BY <1>8
  <1>13. mem' \in [Addresses -> Values] /\ env' \in [Variables -> Values \cup {Undeclared}]
    <2>1. ASSUME NEW a \in Addresses PROVE mem'[a] \in Values
      BY <1>1, <1>10, <1>11
    <2>2. ASSUME NEW a \in Variables PROVE env'[a] \in Values \cup {Undeclared}
      BY <1>1, <1>10, <1>12
    <2>3. /\ mem' = [a \in Addresses |-> mem'[a]]
          /\ env' = [a \in Variables |-> env'[a]]
      BY <1>8
    <2> QED
      BY <2>1, <2>2, <2>3
  <1>14. Agree(mem', env')
    <2> SUFFICES ASSUME NEW a \in Variables, env'[a] # Undeclared PROVE mem'[a] = env'[a]
      BY DEF Agree
    <2>1. a \in Addresses
      BY AddressFacts
    <2>2. CASE copied(a)
      BY <1>10, <1>11, <1>12, <2>1, <2>2
    <2>3. CASE ~copied(a)
      BY <1>1, <1>11, <1>12, <2>1, <2>3 DEF Agree
    <2> QED
      BY <2>2, <2>3
  <1>16. ScopesEnd(env', d0)
    <2> SUFFICES ASSUME NEW a \in Variables, a[1] > d0 PROVE env'[a] = Undeclared
      BY DEF ScopesEnd
    <2>1. a[1] \in Int /\ a[1] # d0 /\ a[1] > Depth
      BY <1>1, <1>6, AddressFacts DEF d0
    <2> QED
      BY <1>1, <1>12, <1>15, <2>1 DEF ScopesEnd
  <1>17. B \in Activations /\ B.todo = <<>> /\ B.used = {} /\ B.ret = Current.at
    BY <1>5 DEF NewActivation, Activations
  <1> HIDE DEF B
  <1>18. /\ acts' \in Seq(Activations) /\ Len(acts') = d0
         /\ \A d \in 1..Depth : acts'[d] = acts[d]
         /\ acts'[d0] = B
    <2> DEFINE b == Append(acts, B)
    <2>1. /\ b \in Seq(Activations) /\ Len(b) = Len(acts) + 1
          /\ \A i \in 1..Len(acts) : b[i] = acts[i]
          /\ b[Len(acts) + 1] = B
      BY <1>1, <1>17, Appended
    <2>2. acts' = b
      BY <1>8
    <2> HIDE DEF b
    <2> QED
      BY <1>1, <2>1, <2>2 DEF d0
  <1>19. Depth' = d0
    BY <1>18 DEF Depth
  <1>20. Typed'
    BY <1>6, <1>13, <1>18, <1>19 DEF Typed
  <1>21. ASSUME NEW d \in 1..d0 PROVE ActivationOK(mem', env', d, acts'[d])
    <2>1. CASE d = d0
      BY <1>17, <1>18, <2>1 DEF ActivationOK, TodoOK
    <2>2. CASE d # d0
      <3>1. d \in 1..Depth /\ d \in Depths
        BY <1>1, <1>6, <2>2 DEF d0
      <3>2. acts'[d] = acts[d] /\ acts[d] \in Activations /\ ActivationOK(mem, env, d, acts[d])
        BY <1>1, <1>18, <3>1, ElementOfSeq DEF IInv
      <3>3. \A a \in TempsAt(d) : mem'[a] = mem[a]
        BY <1>11, <1>15, <2>2, <3>1, AddressFacts
      <3>4. ASSUME NEW a, InScope(env, d, a) PROVE InScope(env', d, a)
        <4>1. a \in Variables /\ a[1] \in Int /\ a[1] <= d /\ env[a] # Undeclared
          BY <3>4, AddressFacts DEF InScope
        <4>2. a[1] # d0
          BY <1>1, <3>1, <4>1 DEF d0
        <4> QED
          BY <1>12, <1>15, <4>1, <4>2 DEF InScope
      <3>5. ASSUME NEW c \in Activations, NEW m, NEW e, ActivationOK(mem, env, d, c),
                   \A a \in TempsAt(d) : m[a] = mem[a],
                   \A a : InScope(env, d, a) => InScope(e, d, a)
            PROVE  ActivationOK(m, e, d, c)
        BY <3>1, <3>5, ActivationStays
      <3>6. ActivationOK(mem', env', d, acts[d])
        BY <3>2, <3>3, <3>4, <3>5
      <3> QED
        BY <3>2, <3>6
    <2> QED
      BY <2>1, <2>2
  <1>22. ASSUME NEW d \in 1..(d0 - 1) PROVE WaitsFor(acts'[d].todo, acts'[d + 1].ret)
    <2>1. d \in 1..Depth
      BY <1>1, <1>22 DEF d0
    <2>2. CASE d = Depth
      <3>1. acts'[d + 1] = B /\ acts'[d].todo = todo
        BY <1>18, <2>1, <2>2 DEF d0, Top
      <3> QED
        BY <1>2, <1>17, <3>1 DEF WaitsFor
    <2>3. CASE d # Depth
      <3>1. d \in 1..(Depth - 1) /\ d + 1 \in 1..Depth
        BY <1>1, <2>1, <2>3
      <3>2. acts'[d] = acts[d] /\ acts'[d + 1] = acts[d + 1]
        BY <1>18, <2>1, <3>1
      <3> QED
        BY <3>1, <3>2 DEF IInv
    <2> QED
      BY <2>2, <2>3
  <1> QED
    BY <1>14, <1>16, <1>19, <1>20, <1>21, <1>22 DEF IInv

-----------------------------------------------------------------------------
(* Operands that are ready, and the whole step. *)

\* The innermost task of a return is that of a function that was called.
LEMMA ReturnIsCallee ==
    ASSUME IInv, NEW k \in DOMAIN Top.todo, Top.todo[k].kind = "return"
    PROVE  Depth > 1
  BY TopParts DEF TodoOK, TaskOK

\* A variable as an operand.
LEMMA UseVariableIInv ==
    ASSUME IInv, NEW a \in Variables, UseVariable(a)
    PROVE  IInv'
  <1> DEFINE o == Operand(a, env[a])
             todo == Top.todo
  <1>1. InScope(env, Depth, a) /\ mem[a] = env[a] /\ env[a] \in Values
    BY ReachableInScope DEF UseVariable
  <1>2. /\ WantsOperand
        /\ \/ Current.kind # "return" /\ Deliver(o, todo)
           \/ Current.kind = "return" /\ ReturnOperand(o)
    BY DEF UseVariable
  <1>3. o \in Operands /\ o.addr = a /\ o.val = env[a]
    BY <1>1, AddressFacts DEF Operand, Operands
  <1>4. /\ todo \in Seq(Tasks) /\ todo # <<>> /\ TodoOK(env, Depth, Top.used, todo)
        /\ \A k \in DOMAIN todo : Intact(mem, todo[k])
        /\ \A k \in DOMAIN todo : Waiting(todo[k])
    BY <1>2, TopParts, WantsOperandWaits
  <1> HIDE DEF o
  <1>5. CASE Current.kind # "return" /\ Deliver(o, todo)
    <2>1. Await(todo)
      BY <1>4 DEF Await
    <2>2. Ready(o, todo)
      BY <1>1, <1>3 DEF Ready
    <2> HIDE DEF todo
    <2> QED
      BY <1>5, <2>1, <2>2, DeliverIInv
  <1>6. CASE Current.kind = "return" /\ ReturnOperand(o)
    <2>1. Len(todo) \in DOMAIN todo
      BY <1>4, Front
    <2>2. Depth > 1
      BY <1>6, <2>1, ReturnIsCallee DEF Current
    <2> QED
      BY <1>1, <1>3, <1>6, <2>2, ReturnIInv
  <1> QED
    BY <1>2, <1>5, <1>6

\* The result of a call or literal as an operand: it is intact in its temp,
\* and no task that waits has that temp.
LEMMA UseResultIInv == ASSUME IInv, UseResult PROVE IInv'
  <1> DEFINE todo == Top.todo
             n == Len(todo)
             o == Current.operands[1]
             used == Top.used
  <1>1. /\ todo \in Seq(Tasks) /\ todo # <<>> /\ TodoOK(env, Depth, used, todo)
        /\ \A k \in DOMAIN todo : Intact(mem, todo[k])
        /\ Current.kind = "done" /\ Current = todo[n]
    BY TopParts DEF UseResult, AtStatement, Current
  <1>2. /\ Current \in Tasks /\ TaskOK(env, Depth, used, Current)
        /\ n \in Nat \ {0} /\ DOMAIN todo = 1..n
        /\ Enclosing \in Seq(Tasks) /\ Len(Enclosing) = n - 1 /\ DOMAIN Enclosing = 1..(n - 1)
        /\ \A k \in 1..(n - 1) : Enclosing[k] = todo[k]
    BY <1>1, Front, FrontOK DEF Enclosing
  <1>3. Current.kind \notin Statements
    BY <1>1 DEF Statements
  <1>4. /\ TodoOK(env, Depth, used, Enclosing)
        /\ \A k \in DOMAIN Enclosing : Waiting(Enclosing[k])
        /\ Enclosing # <<>>
        /\ \A k \in DOMAIN Enclosing : k > 1 => Unshared(Enclosing[k], Current)
    BY <1>1, <1>3, FrontOK DEF Enclosing
  <1>5. Len(Current.operands) = 1 /\ o.addr = Current.at /\ Current.at \in used
    BY <1>1, <1>2, <1>3 DEF TaskOK
  <1>6. o \in Operands
    <2> DEFINE s == Current.operands
    <2>1. s \in Seq(Operands) /\ 1 \in 1..Len(s)
      BY <1>2, <1>5, RecordParts
    <2> HIDE DEF s
    <2>2. s[1] \in Operands
      BY <2>1, ElementOfSeq
    <2> QED
      BY <2>2 DEF s
  <1>7. mem[o.addr] = o.val
    <2>1. Intact(mem, Current) /\ Current.operands # <<>>
      BY <1>1, <1>2, <1>5
    <2> QED
      BY <1>1, <1>5, <2>1 DEF Intact
  <1>8. \/ Enclosing[Len(Enclosing)].kind # "return" /\ Deliver(o, Enclosing)
        \/ Enclosing[Len(Enclosing)].kind = "return" /\ ReturnOperand(o)
    BY DEF UseResult
  <1> HIDE DEF o, n
  <1>9. CASE Deliver(o, Enclosing)
    <2>1. Await(Enclosing)
      <3>1. \A k \in DOMAIN Enclosing : Intact(mem, Enclosing[k])
        BY <1>1, <1>2
      <3> QED
        BY <1>2, <1>4, <3>1 DEF Await
    <2>2. Ready(o, Enclosing)
      <3>1. \A k \in 2..Len(Enclosing) : o.addr # Enclosing[k].at
        <4>1. \A k \in 2..Len(Enclosing) : k \in DOMAIN Enclosing /\ k > 1
          BY <1>2
        <4> QED
          BY <1>4, <1>5, <4>1 DEF Unshared
      <3> QED
        BY <1>5, <1>6, <1>7, <3>1 DEF Ready
    <2> QED
      BY <1>9, <2>1, <2>2, DeliverIInv
  <1>10. CASE Enclosing[Len(Enclosing)].kind = "return" /\ ReturnOperand(o)
    <2>1. Len(Enclosing) \in DOMAIN todo /\ Enclosing[Len(Enclosing)] = todo[Len(Enclosing)]
      <3>1. n - 1 # 0
        BY <1>2, <1>4
      <3> QED
        BY <1>2, <3>1
    <2>2. Depth > 1
      BY <1>10, <2>1, ReturnIsCallee
    <2> QED
      BY <1>6, <1>7, <1>10, <2>2, ReturnIInv
  <1> QED
    BY <1>8, <1>9, <1>10

\* A program starts in main, with zeroed memory and the globals zero.
LEMMA InitIInv == Init => IInv
  <1> SUFFICES ASSUME Init PROVE IInv
    OBVIOUS
  <1> DEFINE B == NewActivation(NoResult)
  <1>1. B \in Activations /\ B.todo = <<>> /\ B.used = {}
    BY DEF NewActivation, Activations, Places
  <1> HIDE DEF B
  <1>2. acts \in Seq(Activations) /\ Len(acts) = 1 /\ acts[1] = B
    BY <1>1 DEF Init, B
  <1>3. Depth = 1 /\ 1 \in Depths
    BY <1>2, ConstantsOK DEF Depth, Depths
  <1>4. \A a \in Variables : env[a] = IF a \in GlobalVars THEN Zero ELSE Undeclared
    BY DEF Init
  <1>5. \A a \in Variables : mem[a] = Zero
    BY AddressFacts DEF Init
  <1>6. Typed
    BY <1>2, <1>3, ConstantsOK DEF Init, Typed
  <1>7. ScopesEnd(env, Depth)
    BY <1>3, <1>4 DEF ScopesEnd, GlobalVars
  <1>8. Agree(mem, env)
    BY <1>4, <1>5 DEF Agree
  <1>9. \A d \in 1..Depth : ActivationOK(mem, env, d, acts[d])
    BY <1>1, <1>2, <1>3 DEF ActivationOK, TodoOK
  <1>10. 1..(Depth - 1) = {}
    BY <1>3
  <1> QED
    BY <1>6, <1>7, <1>8, <1>9, <1>10 DEF IInv

\* Every step keeps the invariant.
LEMMA NextIInv == IInv /\ [Next]_vars => IInv'
  <1> SUFFICES ASSUME IInv, [Next]_vars PROVE IInv'
    OBVIOUS
  <1>1. ASSUME NEW l \in Locals, Declare(l) PROVE IInv'
    BY <1>1, DeclareIInv
  <1>2. ASSUME NEW a \in Variables, BeginAssign(a) PROVE IInv'
    BY <1>2, BeginAssignIInv
  <1>3. ASSUME NEW a \in Variables, UseVariable(a) PROVE IInv'
    BY <1>3, UseVariableIInv
  <1>4. ASSUME NEW a \in Variables, NEW v \in Values, Mutate(a, v) PROVE IInv'
    BY <1>4, MutateIInv
  <1>5. ASSUME NEW v \in Values, StoreScalars(v) PROVE IInv'
    BY <1>5, StoreScalarsIInv
  <1>6. ASSUME NEW t \in Temps, Open("call", t) \/ Open("literal", t) PROVE IInv'
    <2>1. "call" \in {"call", "literal"} /\ "literal" \in {"call", "literal"}
      OBVIOUS
    <2> QED
      BY <1>6, <2>1, OpenIInv
  <1>7. CASE BeginDiscard
    BY <1>7, BeginDiscardIInv
  <1>8. CASE BeginReturn
    BY <1>8, BeginReturnIInv
  <1>9. CASE UseResult
    BY <1>9, UseResultIInv
  <1>10. CASE FinishLiteral
    BY <1>10, FinishLiteralIInv
  <1>11. CASE Invoke
    BY <1>11, InvokeIInv
  <1>12. CASE UNCHANGED vars
    BY <1>12 DEF vars, IInv, Typed, Depth
  <1> QED
    BY <1>1, <1>2, <1>3, <1>4, <1>5, <1>6, <1>7, <1>8, <1>9, <1>10, <1>11, <1>12 DEF Next

\* The inductive invariant holds of every program.
THEOREM Invariant == Spec => []IInv
  BY InitIInv, NextIInv, PTL DEF Spec

\* Memory and variables have values, the stack of calls stays within its
\* bound, temps belong to their frame, and the hidden result pointer of every
\* call is a temp that its caller has taken.
THEOREM TypeCorrect == Spec => []TypeOK
  <1>1. ASSUME IInv PROVE TypeOK
    <2>1. acts \in Seq(Activations) /\ Len(acts) = Depth /\ Depth \in Nat
      BY <1>1, TopParts DEF IInv, Typed, Depth
    <2>2. ASSUME NEW d \in 1..Depth
          PROVE  /\ acts[d].todo \in Seq(Tasks) /\ acts[d].used \subseteq TempsAt(d)
                 /\ TodoOK(env, d, acts[d].used, acts[d].todo)
      <3>1. acts[d] \in Activations
        BY <2>1, ElementOfSeq
      <3> QED
        BY <1>1, <3>1, RecordParts DEF IInv, ActivationOK
    <2>3. ASSUME NEW d \in 1..Depth, d > 1 PROVE acts[d].ret \in acts[d - 1].used
      <3> DEFINE todo == acts[d - 1].todo
      <3>1. d - 1 \in 1..Depth /\ d - 1 \in 1..(Depth - 1) /\ (d - 1) + 1 = d
        BY <2>1, <2>3
      <3>2. WaitsFor(todo, acts[d].ret)
        <4>1. \A c \in 1..(Depth - 1) : WaitsFor(acts[c].todo, acts[c + 1].ret)
          BY <1>1 DEF IInv
        <4>2. WaitsFor(acts[d - 1].todo, acts[(d - 1) + 1].ret)
          BY <3>1, <4>1
        <4> QED
          BY <3>1, <4>2
      <3>3. todo \in Seq(Tasks) /\ TodoOK(env, d - 1, acts[d - 1].used, todo)
        BY <2>2, <3>1
      <3>4. TaskOK(env, d - 1, acts[d - 1].used, todo[Len(todo)])
        BY <3>2, <3>3, FrontOK DEF WaitsFor
      <3> QED
        BY <3>2, <3>4 DEF WaitsFor, TaskOK, Statements
    <2>4. ASSUME NEW d \in 1..Depth, NEW k \in DOMAIN acts[d].todo
          PROVE  acts[d].todo[k].kind \in {"assign", "return", "discard", "call",
                                           "literal", "done"}
      <3> DEFINE todo == acts[d].todo
      <3>1. todo \in Seq(Tasks)
        BY <2>2
      <3> HIDE DEF todo
      <3>2. \A j \in DOMAIN todo : todo[j] \in Tasks
        BY <3>1, ElementOfSeq, LenProperties
      <3>3. todo[k].kind \in Kinds
        BY <3>2, RecordParts DEF todo
      <3> QED
        BY <3>3 DEF Kinds, Statements, todo
    <2> QED
      BY <1>1, <2>2, <2>3, <2>4 DEF TypeOK, IInv, Typed
  <1> QED
    BY <1>1, Invariant, PTL

\* Memory holds for every variable in scope, of every live activation, the
\* value the language gives it.
THEOREM VariablesRight == Spec => []VariablesHold
  <1>1. ASSUME IInv PROVE VariablesHold
    BY <1>1 DEF IInv, Agree, VariablesHold, Reachable
  <1> QED
    BY <1>1, Invariant, PTL

\* The result of a call or literal is intact in its temp until it is used.
THEOREM ResultsKept == Spec => []ResultsIntact
  <1>1. ASSUME IInv PROVE ResultsIntact
    <2> SUFFICES ASSUME NEW o \in Pending, o.addr \notin Variables
                 PROVE  mem[o.addr] = o.val
      BY DEF ResultsIntact
    <2>1. PICK d \in DOMAIN acts : \E k \in DOMAIN acts[d].todo :
             /\ acts[d].todo[k].kind # "literal"
             /\ \E i \in DOMAIN acts[d].todo[k].operands : o = acts[d].todo[k].operands[i]
      BY DEF Pending
    <2>2. PICK k \in DOMAIN acts[d].todo :
             /\ acts[d].todo[k].kind # "literal"
             /\ \E i \in DOMAIN acts[d].todo[k].operands : o = acts[d].todo[k].operands[i]
      BY <2>1
    <2> DEFINE t == acts[d].todo[k]
    <2>3. PICK i \in DOMAIN t.operands : o = t.operands[i]
      BY <2>2
    <2>4. d \in 1..Depth /\ acts[d] \in Activations
      BY <1>1, TopParts, ElementOfSeq DEF IInv, Typed, Depth
    <2>5. /\ TodoOK(env, d, acts[d].used, acts[d].todo)
          /\ \A j \in DOMAIN acts[d].todo : Intact(mem, acts[d].todo[j])
      BY <1>1, <2>4 DEF IInv, ActivationOK
    <2>6. TaskOK(env, d, acts[d].used, t) /\ Intact(mem, t)
      BY <2>5 DEF TodoOK
    <2>7. t \in Tasks
      <3> DEFINE todo == acts[d].todo
      <3>1. todo \in Seq(Tasks)
        BY <2>4, RecordParts
      <3> HIDE DEF todo
      <3>2. \A j \in DOMAIN todo : todo[j] \in Tasks
        BY <3>1, ElementOfSeq, LenProperties
      <3> QED
        BY <3>2 DEF todo
    <2>8. t.kind # "literal" /\ t.kind \in Kinds /\ t.operands \in Seq(Operands)
      BY <2>2, <2>7, RecordParts
    <2> HIDE DEF t
    <2>9. CASE t.kind \in Statements
      BY <2>3, <2>6, <2>9 DEF TaskOK
    <2>10. CASE t.kind = "call"
      BY <2>3, <2>6, <2>10 DEF Intact
    <2>11. CASE t.kind = "done"
      <3>1. Len(t.operands) = 1 /\ t.operands[1].addr = t.at
        BY <2>6, <2>11 DEF TaskOK
      <3>2. DOMAIN t.operands = 1..Len(t.operands)
        BY <2>8, LenProperties
      <3>3. i = 1 /\ t.operands # <<>>
        BY <2>3, <3>1, <3>2
      <3> QED
        BY <2>3, <2>6, <2>11, <3>1, <3>3 DEF Intact
    <2> QED
      BY <2>8, <2>9, <2>10, <2>11 DEF Kinds
  <1> QED
    BY <1>1, Invariant, PTL
=============================================================================
