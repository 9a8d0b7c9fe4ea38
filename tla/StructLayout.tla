---------------------------- MODULE StructLayout ----------------------------
(***************************************************************************)
(* The struct layout pass of the checker (internal/sema/sema.go: resolve,  *)
(* layoutStruct, ensureLaidOut, typeOf).                                   *)
(*                                                                         *)
(* Struct declarations may come in any order, so laying one out forces the *)
(* layout of the structs it needs the size of: a depth-first search whose  *)
(* Go call stack is the variable stack.  A frame is one activation of      *)
(* layoutStruct: the struct d, the field i its loop has reached, whether   *)
(* the layout that field forces has been asked for, and the fields kept so *)
(* far.  The declared field types are the variable decl, chosen freely at  *)
(* the start and never changed.                                            *)
(***************************************************************************)
EXTENDS Types, FiniteSets

CONSTANTS
    DeclOrder,      \* the struct declarations of the file, in order
    Bodies,         \* the field lists a declaration may have
    MaxArray        \* largest array size, and length, in bytes

\* A field of a declaration.
FieldDecls == [name : STRING, type : [wrap : Seq(Nat \cup {Ptr}), leaf : STRING]]

ASSUME BodiesOK == DeclOrder \in Seq(STRING) /\ Bodies \subseteq Seq(FieldDecls)

VARIABLES
    decl,           \* struct -> its declared fields
    next,           \* position in DeclOrder of resolve's loop
    stack,          \* activations of layoutStruct, outermost first
    layoutState,    \* struct -> "new", "visiting" or "done"
    layout,         \* struct -> the fields, size and align recorded for it
    errs            \* the diagnostics: <<kind, struct>>

vars == <<decl, next, stack, layoutState, layout, errs>>

Structs == {DeclOrder[i] : i \in DOMAIN DeclOrder}

\* Mutant: arrays do not ask for the layout of their element.
ForcedByValueOnly(t) == t.leaf \in Structs \ Builtins /\ t.wrap = <<>>

\* A field whose type forces the layout of its leaf: a struct held by value
\* (ensureLaidOut of the field), or the innermost array's element (typeOf
\* needs its size), whatever wraps that array.  A name that is built in never
\* means a struct.
Forced(t) ==
    /\ t.leaf \in Structs \ Builtins
    /\ \A i \in DOMAIN t.wrap : t.wrap[i] = Ptr => i < Len(t.wrap)

\* typeOf: an array longer, or larger, than MaxArray has no type.
TooLarge(t) ==
    \E i \in DOMAIN t.wrap :
        /\ t.wrap[i] # Ptr
        /\ \/ t.wrap[i] > MaxArray
           \/ t.wrap[i] * SizesFrom(t, layout)[i + 1] > MaxArray

\* Mutant: the loop starts one field early.
ActivationEarly(d) == [d |-> d, i |-> 0, asked |-> FALSE, fields |-> <<>>]

Activation(d) == [d |-> d, i |-> 1, asked |-> FALSE, fields |-> <<>>]

Init ==
    /\ decl \in [Structs -> Bodies]
    /\ next = 1
    /\ stack = <<>>
    /\ layoutState = [s \in Structs |-> "new"]
    /\ layout = [s \in Structs |-> NotLaidOut]
    /\ errs = {}

-----------------------------------------------------------------------------
Top == stack[Len(stack)]
Below == SubSeq(stack, 1, Len(stack) - 1)
Fields == decl[Top.d]
Field == Fields[Top.i]

\* The loop of the innermost activation is at a field it has yet to finish.
AtField == stack # <<>> /\ Top.i <= Len(Fields)

Duplicate == \E j \in 1..(Top.i - 1) : Fields[j].name = Field.name
Undefined == Field.type.leaf \notin Structs \cup Builtins

NextField == [Top EXCEPT !.i = @ + 1, !.asked = FALSE]

Report(kind, d) == errs' = errs \cup {<<kind, d>>}

\* Mutant: state 1 is never recorded.
EnterUnmarked(d, callers) ==
    \/ /\ layoutState[d] = "new"
       /\ stack' = Append(callers, Activation(d))
       /\ UNCHANGED <<layoutState, errs>>
    \/ /\ layoutState[d] # "new"
       /\ stack' = callers
       /\ UNCHANGED <<layoutState, errs>>

\* Mutant: a struct being visited is taken for one that is done.
EnterUnreported(d, callers) ==
    \/ /\ layoutState[d] = "new"
       /\ layoutState' = [layoutState EXCEPT ![d] = "visiting"]
       /\ stack' = Append(callers, Activation(d))
       /\ UNCHANGED errs
    \/ /\ layoutState[d] # "new"
       /\ stack' = callers
       /\ UNCHANGED <<layoutState, errs>>

\* The call layoutStruct(d), made with the frames `callers` on the stack.
Enter(d, callers) ==
    \/ /\ layoutState[d] = "new"
       /\ layoutState' = [layoutState EXCEPT ![d] = "visiting"]
       /\ stack' = Append(callers, Activation(d))
       /\ UNCHANGED errs
    \/ /\ layoutState[d] = "visiting"
       /\ layoutState' = [layoutState EXCEPT ![d] = "done"]
       /\ stack' = callers
       /\ Report("containsItself", d)
    \/ /\ layoutState[d] = "done"
       /\ stack' = callers
       /\ UNCHANGED <<layoutState, errs>>

\* resolve's loop over the declarations calls layoutStruct for the next one.
LayOutNext ==
    /\ stack = <<>>
    /\ next <= Len(DeclOrder)
    /\ next' = next + 1
    /\ Enter(DeclOrder[next], <<>>)
    /\ UNCHANGED <<decl, layout>>

SkipDuplicate ==
    /\ AtField /\ ~Top.asked
    /\ Duplicate
    /\ stack' = Append(Below, NextField)
    /\ Report("duplicateField", Top.d)
    /\ UNCHANGED <<decl, next, layoutState, layout>>

SkipUndefined ==
    /\ AtField /\ ~Top.asked
    /\ ~Duplicate /\ Undefined
    /\ stack' = Append(Below, NextField)
    /\ Report("undefinedType", Top.d)
    /\ UNCHANGED <<decl, next, layoutState, layout>>

\* Mutant: the field asks again when the struct it forced is laid out.
ForceLayoutAgain ==
    /\ AtField
    /\ ~Duplicate /\ Forced(Field.type)
    /\ Enter(Field.type.leaf, stack)
    /\ UNCHANGED <<decl, next, layout>>

\* The field's type needs the size of a struct: descend into it, unless it
\* is laid out already or, being visited, closes a cycle.
ForceLayout ==
    /\ AtField /\ ~Top.asked
    /\ ~Duplicate /\ Forced(Field.type)
    /\ Enter(Field.type.leaf, Append(Below, [Top EXCEPT !.asked = TRUE]))
    /\ UNCHANGED <<decl, next, layout>>

\* The field's type is resolved: its size is known if it needed one.
Resolved ==
    /\ AtField
    /\ Top.asked \/ (~Duplicate /\ ~Undefined /\ ~Forced(Field.type))

SkipTooLarge ==
    /\ Resolved
    /\ TooLarge(Field.type)
    /\ stack' = Append(Below, NextField)
    /\ Report("arrayTooLarge", Top.d)
    /\ UNCHANGED <<decl, next, layoutState, layout>>

KeepField ==
    /\ Resolved
    /\ ~TooLarge(Field.type)
    /\ stack' = Append(Below, [NextField EXCEPT !.fields = Append(@, Field)])
    /\ UNCHANGED <<decl, next, layoutState, layout, errs>>

\* The loop is over: SetFields, state 2, return to the caller.
FinishStruct ==
    /\ stack # <<>> /\ Top.i > Len(Fields)
    /\ layout' = [layout EXCEPT ![Top.d] = SetFields(Top.fields, layout)]
    /\ layoutState' = [layoutState EXCEPT ![Top.d] = "done"]
    /\ stack' = Below
    /\ UNCHANGED <<decl, next, errs>>

Done == next > Len(DeclOrder) /\ stack = <<>>

\* resolve goes on to the signatures.
Terminated == Done /\ UNCHANGED vars

Next ==
    \/ LayOutNext
    \/ SkipDuplicate \/ SkipUndefined \/ SkipTooLarge
    \/ ForceLayout
    \/ KeepField
    \/ FinishStruct
    \/ Terminated

\* The pass is a sequential Go function: it keeps running until it returns.
Spec == Init /\ [][Next]_vars /\ WF_vars(Next)
-----------------------------------------------------------------------------
(* What the pass must guarantee. *)

\* The fields of s that the loop does not skip as duplicates.
Declared(s) == {decl[s][i].type : i \in {k \in DOMAIN decl[s] :
                    \A j \in 1..(k - 1) : decl[s][j].name # decl[s][k].name}}

\* Some field of s makes layoutStruct(s) call layoutStruct(t).
Forces(s, t) == \E ty \in Declared(s) : ty.leaf = t /\ Forced(ty)

\* s holds a t inside itself: only arrays stand between the field and t.
Contains(s, t) ==
    \E ty \in Declared(s) :
        ty.leaf = t /\ t \notin Builtins /\ \A i \in DOMAIN ty.wrap : ty.wrap[i] # Ptr

\* Every member of a non-empty set leads to a member: the set has a cycle.
Cycle(Edge(_, _), T) == T # {} /\ \A s \in T : \E t \in T : Edge(s, t)

OnStack == {stack[k].d : k \in DOMAIN stack}
Reported(kind) == {s \in Structs : <<kind, s>> \in errs}
Rejected == errs # {}

TypeOK ==
    /\ decl \in [Structs -> Bodies]
    /\ next \in 1..(Len(DeclOrder) + 1)
    /\ \A k \in DOMAIN stack :
          /\ stack[k].d \in Structs
          /\ stack[k].i \in 1..(Len(decl[stack[k].d]) + 1)
          /\ stack[k].asked \in BOOLEAN
          /\ Len(stack[k].fields) < stack[k].i
    /\ layoutState \in [Structs -> {"new", "visiting", "done"}]
    /\ \A s \in Structs : layout[s].size \in Nat /\ layout[s].align \in Nat
    /\ errs \subseteq {"containsItself", "duplicateField", "undefinedType",
                      "arrayTooLarge"} \X Structs

\* The recursion is bounded by the number of structs: no struct has two
\* activations at a time, each activation was asked for by the field its
\* caller is at, and a struct is in state 1 exactly while it is active,
\* unless a cycle through it has been reported (state 1 is the only thing
\* that stops layoutStruct from recursing for ever).
RecursionBounded ==
    /\ Cardinality(OnStack) = Len(stack)
    /\ \A k \in 2..Len(stack) :
          LET caller == stack[k - 1]
              type   == decl[caller.d][caller.i].type
          IN  caller.asked /\ Forced(type) /\ type.leaf = stack[k].d
    /\ \A s \in Structs :
          layoutState[s] = "visiting"
              <=> s \in OnStack /\ s \notin Reported("containsItself")

\* s is laid out correctly for the sizes its fields have now: fields are
\* aligned, in order, apart and without needless padding, and elements of an
\* array of s stay aligned.
WellLaidOut(s) ==
    LET f == layout[s].fields
        Al(i) == Align(f[i].type, layout)
        End(i) == IF i = 0 THEN 0 ELSE f[i].offset + Size(f[i].type, layout)
        Tight(off, end, al) == off % al = 0 /\ end <= off /\ off < end + al
    IN  /\ layout[s].align \in {1, 2, 4, 8}
        /\ \A i \in DOMAIN f :
              /\ Tight(f[i].offset, End(i - 1), Al(i))
              /\ layout[s].align % Al(i) = 0
        /\ Tight(layout[s].size, End(Len(f)), layout[s].align)

\* A struct's recorded layout is computed from final sizes, whatever the
\* order of the declarations: while no cycle is reported, every struct in
\* state 2 is well laid out for the sizes its fields' types have by then and
\* ever after (a size read before the other struct's SetFields would be 0),
\* and an accepted program's structs have all their fields.
LayoutsFinal ==
    /\ Reported("containsItself") = {} =>
          \A s \in Structs : layoutState[s] = "done" => WellLaidOut(s)
    /\ Done /\ ~Rejected =>
          \A s \in Structs : Len(layout[s].fields) = Len(decl[s])

\* The verdict on cycles does not depend on where the search starts: a
\* program is rejected for one exactly if laying its structs out has no
\* end, so an accepted program holds no struct inside itself.
CyclesRejected ==
    Done =>
        /\ Reported("containsItself") # {}
              <=> \E T \in SUBSET Structs : Cycle(Forces, T)
        /\ ~Rejected => \A T \in SUBSET Structs : ~Cycle(Contains, T)

\* The pass comes to an end on every program, cyclic ones included.
Termination == <>Done

\* Claim of sema.go:187-189 and of the diagnostic it gives: a struct is
\* reported to contain itself by value only if it does; "pointers
\* deliberately stop the recursion".
BlamedOnlyForCycles ==
    Reported("containsItself") # {} =>
        \E T \in SUBSET Structs : Cycle(Contains, T)
=============================================================================
