# A specification of the JabaScript compiler

JabaScript is a small statically typed language. Its compiler, written in Go,
turns a source file into one WebAssembly text module that contains the
program's functions and a runtime (allocator, printing). This directory models
what is hard to get right in it: the front end from characters to checked types,
the compiler passes whose result depends on an order, and the *behaviour of the modules it emits*, at run time, with a host
that calls them, is called by them, refuses, traps and re-enters.

Paths below are relative to the repository (`src/` here).

## 1. The system

| Part | Source | State it keeps | Operations | What makes it correct |
|---|---|---|---|---|
| lexer | `internal/lexer` | offset, line, column | `Next` | every byte belongs to one token, comment or gap; tokens are the longest possible and know their place; the first error ends the run |
| parser | `internal/parser` | one token of lookahead, `noStructLit` | one method per construct, a Pratt loop for binary operators; the first error leaves all of them at once (a panic that `Parse` recovers) | precedence and associativity; `noStructLit` restored on every way out; loops end at the end of the file |
| syntax tree, walker | `internal/ast`, `codegen/walk.go` | none | `inspect` | visits every literal and call once |
| struct layout | `sema.go` (`resolve`, `layoutStruct`, `ensureLaidOut`, `typeOf`), `types.go` (`SetFields`) | per struct: new / visiting / done; its fields, size, alignment; diagnostics | one recursive search | ends; same verdict whatever the order of declarations; no layout from a size not yet known |
| name resolution | `sema.go` (rest of `resolve`) | globals, signatures, diagnostics | one pass each for names and signatures, then `main` and the exports | duplicates reported, every type known and `main` callable before bodies are checked |
| expression and statement checker | `sema.go` (`checkBodies`, `checkStmt`, `checkExpr`...) | scopes, loop count, annotations on nodes, diagnostics | recursive descent that goes on after errors | scopes and loops balanced; literals get the type of their context; a missing type means a reported error; accepted programs are what the code generator expects |
| data layout, emission | `codegen.go` (`layoutData`, `emitModule`, `constBytes`) | cursor, addresses of strings and globals, stack top, heap base | one pass | regions apart, memory large enough, data in place at start |
| frames and calls | `codegen.go` (`emitFunc`, `emitEpilogue`) | at run time: `$__sp`, `$__fp` of each activation | prologue, epilogue, trap | frames of live calls never overlap; `$__sp` restored |
| aggregates by value | `codegen.go` (`genStmt`, `genStore`, `genCall`, `genAddr`) | at run time: frame slots and temps | copy in, copy out, hidden result pointer | a variable holds the value the language gives it |
| scalar code | `codegen.go` (`genExpr`, `genBinary`, `load`, `store`, `canon`, `castOps`, `pushConst`), `sema.go` (`checkFit`) | at run time: operand stack | one code sequence per operator | words stay canonical and mean what the source means |
| allocator | `runtime.go` (`$rt_malloc`, `$rt_free`) | `$__heap`, pages of memory | malloc, free | blocks disjoint, in memory; no 32-bit sum moves the cursor back |
| printing | `runtime.go` (`$rt_jaba_print_str`, `..._int`, `$rt_write_all`) | scratch cells, itoa buffer | print a string, print a number | each byte once and in order; ends |
| pipeline, command line | `internal/compile`, `cmd/jabac` | none | lex, parse, check, generate, write | no stage runs after an error; every stage ends |

How they interact. The passes run one after the other on one tree; each leaves
annotations for the next (types and objects on nodes, sizes on structs). The
emitted functions and the runtime share one linear memory: scratch, strings,
globals, shadow stack, heap, in that order, and two wasm globals, `$__sp` and
`$__heap`. The host shares the memory as well (it is exported), is called
(`fd_write`, `extern fn`s), and calls exported functions, also while one of
its own functions runs.

What is hard. Nothing in the compiler is concurrent; its difficulty is in orders
(which struct is laid out first, which operand is evaluated when) and in
machine arithmetic (sums that wrap, narrow types in wide words). At run time
there are several actors: the program, the runtime, the host; calls can be
abandoned half-way by a trap, `fd_write` can write a part and fail later,
`memory.grow` can be refused, the host can re-enter.

`PROJECT.json` lists each such hazard at its line with the properties that
would notice it going wrong.

## 2. Modules

| Module | Models | Used by |
|---|---|---|
| `Lexer` | characters to tokens | `FrontEnd`, `LexerProofs` |
| `Parser` | tokens to declarations, statements, expressions | `FrontEnd` |
| `Checker` | name resolution and the checker of statements and expressions | `FrontEnd` |
| `FrontEnd` | the three stages one after the other, `compile.Compile` | `MCFrontEnd`, `FrontEndProofs` |
| `Rounding` | `AlignUp` | `Types`, `DataLayout` |
| `Types` | sizes and alignments, `SetFields` | `StructLayout` |
| `StructLayout` | the struct layout pass, one action per way round its loop | `MCStructLayout`, `LayoutProofs` |
| `DataLayout` | memory map, data segments, frame slots | `MCDataLayout`, `LayoutProofs` |
| `ShadowStack` | calls, returns, traps, host re-entry | `MCShadowStack`, `MemoryProofs` |
| `AggregateCalls` | structs and arrays by value at run time | `MCAggregateCalls`, `AggregateCallsProofs` |
| `Scalars` | scalar types and their numbers | `AbstractEval`, `ScalarCode`, `Checker` |
| `AbstractEval` | what scalar expressions mean | `ScalarCode` (refinement) |
| `ScalarCode` | the code generated for them | `MCScalarCode`, `ScalarCodeProofs` |
| `AbstractHeap` | what an allocator promises | `BumpHeap` (refinement) |
| `BumpHeap` | `$rt_malloc`, `$rt_free` | `MCBumpHeap`, `MemoryProofs` |
| `AbstractOutput` | what printing promises | `Output` (refinement) |
| `Output` | the print functions and `$rt_write_all` | `MCOutput`, `OutputProofs` |
| `Arithmetic` | nothing of the code: lemmas on least numbers, induction, recursion, division, alignment | the proof modules |
| `LexerProofs`, `FrontEndProofs`, `AggregateCallsProofs`, `ScalarCodeProofs`, `OutputProofs` | theorems about the module each is named after (section 4) | |
| `LayoutProofs` | theorems about `StructLayout` and about `DataLayout` | |
| `MemoryProofs` | theorems about `ShadowStack`, about `BumpHeap`, and about the two side by side | |

An operator or action whose comment begins with "Mutant" is a wrong variant of
the definition that follows it: a bug one could write in the code at that place.
No specification uses it; it documents, for each property, a mistake that the
property notices.

### Lexer

`off`, `line`, `col` are the fields of the Go struct, `toks` what `Lex` has
collected. A step is one blank or one comment of `skipSpaceAndComments`, or one
call of `Next` that returns a token or the error that ends the run. A token keeps its
place in the source instead of its text. What a token *is* is defined a second
time at the end of the module, without reference to how it is found; `TokensExact`
compares the two. It admits one sequence of tokens for a source, with their
kinds, places, lines, columns and numbers, and one place to give up: this is
proved (`TokensAreDetermined`), so it says all there is to say of the lexer.

### Parser

`todo` is Go's call stack as a continuation: what the active `parse...` methods
still have to do, innermost first. An item that is the name of a token kind is
an `expect`; the others are calls, or the rest of a method after a call it
waits for. Tokens are chosen when they are read, which makes one behaviour of
every token sequence. The code has one flag, `noStructLit`; the items for
expressions also know what really encloses them (`in`), and
`NoStructLitExact` says that the flag agrees. Of the tree only the root of the
expression returned last remains, with the binding power of its operator:
enough to say that each node built obeys the layered grammar. Tokens that are
an error wherever the next item is reached are represented by one, the end
of the file.

### Checker

Declarations are given (`decls`), statements and expressions are chosen as the
checker walks them; `walk` is its call stack, as in `Parser`, and `got` the type
that came back last, `NoType` for nil. `want` is on the item. `form` says what is
known of a node that is still to be chosen (an untyped literal, anything but
one, a place), because the code asks that before it visits it: `isUntypedLit`,
`isAddressable`, the parser's promise of an lvalue. Errors set `errs` and the
walk goes on. A type is its structure, so that `Same` is equality.

### FrontEnd

`stage` is the stage of `Compile` that runs. The tokens that the parser gets
are not those that the lexer made but any; so with the file. That hands on more
than the stages can produce, and makes the state space a sum and not a
product. A stage that is over is put back to its initial values. A file without
declarations has no names to resolve and goes straight to the check for `main`.

### StructLayout

`stack` is the Go call stack of `layoutStruct`; an element is an activation with
the position of its field loop, and `asked` tells that the struct its field
needs has been asked for. `layoutState` is the `layoutState` map (0, 1, 2 are
`"new"`, `"visiting"`, `"done"`), `layout` what `SetFields` has recorded,
`errs` the diagnostics. `Enter` and `ForceLayout` are the recursion, `Report`
the cycle, `Skip...` the early `continue`s, `KeepField` and `FinishStruct` the
normal path, `LayOutNext` the loop in `resolve`. A field's type is the list of
its wrappers (`*` or an array length) around a leaf. `BodiesOK` says that field
lists are lists of such fields. A struct that is named like a built-in type is
declared, but the name keeps meaning the built-in type, as in `typeOf`.

### DataLayout

`off` is the cursor of `layoutData`; `Intern` and `PlaceGlobal` are the two loop
bodies, `EndStrings` and `EndGlobals` what follows the loops, `EmitModule` the
memory declaration and the data segments, `AddSlot` the closure `slot` of
`emitFunc`. The program is chosen freely, one literal, global or slot at a time:
this stands for the walk over the tree. The parts of the specification (`DataInit`, `DataNext`,
`DataSpec`) have names of their own, so that the module can be extended together with `StructLayout`.

### ShadowStack

`sp` is `$__sp`; `acts` is the engine's stack of activations, the host's
included. `Call` is the prologue, `FunctionReturns` the epilogue, `CallImport` and
`ImportReturns` the host's functions, `FunctionTraps`, `FallOff` and `ImportThrows` the
three ways to unwind, after which the nearest host activation goes on. Addresses
are integers here and i32s in the code; the two agree as long as `sp` stays
positive. The names of the module's parts (`StackInit`, `StackSpec`...) are its own, so that
it can be extended together with `BumpHeap`.

### AggregateCalls

`mem` maps an address, a slot of the frame at some depth, to an aggregate's
value; `env` is what the language says each variable's value is. An activation
has a stack `todo` of the expressions under evaluation: assignments, returns,
calls, literals. Programs are chosen step by step, so that every nesting of
calls, literals, assignments through pointers and returns (up to the bounds) is
among the behaviours. `Invoke` is `call` and the callee's prologue,
`Deliver` and `ReturnOperand` the `memory.copy`s.

### ScalarCode and AbstractEval

A wasm word is an unsigned number; an operand is a word and its static type.
`Modulus` and `WordModulus` are how many bit patterns a type and its wasm word have.
Each action is the instruction sequence of one source operation, with the wraps
and the extensions it contains. `op` names that operation and is the input both
machines share, so that the refinement compares like with like: the code for
`+` has to compute a sum. The refinement mapping reads each word by the sign of
its type. `ptr` stands for all pointer types: its words are addresses, and `AddressOf`, `Field`
and `Index` are what `genAddr` computes, an index being scaled as a 32-bit word
whatever type it has. What lies in memory is modelled for one variable; the
others would behave alike.

### BumpHeap and AbstractHeap

`heap` and `pages` are `$__heap` and `memory.size`. `malloc` is one step, as wasm is
single-threaded, and is split by outcome (`MallocTooLarge`, `MallocFits`,
`MallocGrows`, `MallocOutOfMemory`) with every sum modulo the address space.
`HostGrows` is a host using the exported memory. `live` and `last` are history.
The abstract heap hands out blocks that are disjoint from the live ones and in
memory, never shrinks memory, and after a failed call leaves everything alone.

### Output and AbstractOutput

`pc` is the place reached in the runtime; the locals and scratch cells have
their names. `Scan`, `Digit`, `Sign` are the loops, `CallHost` and `Advance`
the two halves of `$rt_write_all`'s loop, and `HostTakes` and `HostFails` are
`fd_write` taking `k` bytes or failing. `nwritten` keeps its old value when
`fd_write` fails. The abstract specification has only the text, what was sent,
and a status.

## 3. Runs

| Run | States | Bounds and why they are enough | Shows |
|---|---|---|---|
| `front_end` | 495,060 | sources of up to four of twelve characters: a comment with something after it, an escape between quotes, a hexadecimal number with two digits, literals of 4 bits that overflow. Tokens of 29 kinds, one operator of each of three binding powers, with three open blocks, brackets or operators: a condition in a block, a bracket in a condition, an operand on either side of an operator. Twenty files of one or two declarations; three scopes (parameters, body, a nested block), one operator in each expression, no further statement after the one with the first error (in the code the walk goes on, and nothing takes the error back) | tokens tile the source; trees obey the grammar; the struct literal flag is right; scopes and loops balance; an accepted program has the types that the code generator assumes; lexer and parser end |
| `struct_layout` | 175,628 | every program of three structs over the field lists: 3 structs make cycles of length 1 to 3 and a chain hanging from a cycle; the field lists have every wrapper and every diagnostic | the pass ends, recursion is bounded, layouts come from final sizes, exactly the programs without end are rejected |
| `data_layout` | 525,588 | bytes of 16 values, alignment 4, pages of 16 bytes; three literals (empty, with a NUL inside), two globals, two slots: two items at a time are all that an overlap needs, and heap bases on and off page boundaries occur | regions and slots apart and aligned; memory covers the heap's first byte; data reads back |
| `shadow_stack` | 253,854 | five activations, frames of three sizes, one of them 0 | frames of live calls never overlap, leaks after a caught trap are contained and repaired on return; no epilogue raises `$__sp` into the heap |
| `aggregate_calls` | about 350,000 | two values, two parameters, one local, three temps per frame, two frames, four nested tasks; the smallest in which a call has another call and a literal as arguments | variables hold their values; results survive until used |
| `scalar_code` | 170,320 | types of 2, 3, 4 and 5 bits: narrow of both signs, one between narrow and word, words of both widths; every value of each, every address of a 16-byte memory, elements of 1 and 3 bytes, so that an index can step outside it at either end; two operands | narrow integers canonical; the code refines the meaning, of values and of addresses |
| `bump_heap` | 18,681 | 16-byte address space, 4 pages, alignment 2, two live blocks: each sum can wrap, memory can be full | allocator safe, growth minimal, refines the abstract heap |
| `output` | 115,175 | itoa buffer of 4 bytes, exactly what an i64 of 256 values needs with its sign; numbers around 0, powers of ten and both extremes; strings of length 0 to 2; any sequence of prints | each byte once and in order; every print ends |

`CHECK_DEADLOCK FALSE` is set for `aggregate_calls` only: a frame of the model
has three temps for whatever program is chosen, so a statement that wants a
fourth stops, where the compiler would have laid out a larger frame.
`aggregate_calls` and `scalar_code` have a VIEW; it leaves out fields that no
guard reads (history, and the input `op`).

Four runs end in a counterexample; each is about a sentence in the code's
comments:

- `struct_layout_blame`: `struct S { p: *[4]S }` is rejected as containing itself
  by value, although "pointers deliberately stop the recursion"
  (`sema.go:188-189`): `typeOf` asks for the layout of any array's element.
- `bump_heap_oom`: with all 65536 pages present, `memory.size << 16` is 0 and
  `malloc` traps although the block fits (`runtime.go:176`).
- `shadow_stack_leak`: a host that catches traps and calls again leaks one frame
  each time; no check stops the stack at its lower end (`codegen.go:379`).
- `aggregate_args_by_value`: in `f(x, g(&x))` the callee copies `x` after `g` has
  changed it (`codegen.go:684`), while a scalar in its place would have been
  read before.

One more thing seen while modelling and not checked: a host function declared
to return a narrow type has its result used as it comes (`codegen.go:695`), so
canonical form (`codegen.go:770`) is then up to the host. `ScalarCode` assumes a
host that returns canonical words, and bools that are 0 or 1.

### Fairness

- `StructLayout`: weak fairness of `Next`. The pass is a sequential Go function; it
  runs as long as it has a step.
- `Output`: weak fairness of `Runs` (the engine runs the function that was called)
  and of `HostAnswers` (`fd_write` returns, with whatever result). Nothing says
  that anybody prints, or that the host takes any bytes.
- `FrontEnd`: weak fairness of `Next`. Each stage is a sequential Go function that
  the one before has returned to. Nothing says that the source ends while the
  parser reads: `StagesEnd` is about the lexer, whose source is finite, and about the
  parser from the end of the file on.
- The other modules have safety properties only and no fairness.

## 4. Proofs

The runs check small instances; the theorems of the seven `...Proofs` modules hold
for every value of the constants that the named assumptions (listed below)
allow. Each module follows one pattern: an invariant that is inductive (`Init`
implies it, one lemma per action shows that the action keeps it), and the
properties derived from it.

Data that the models compute by recursion (decimal digits, sizes of nested types,
the bytes of a number, the end of a string) is reasoned about by induction. `Arithmetic`
states induction and recursion with sets and functions in place of predicates,
starting from the fact that a set of natural numbers has a least one, so that
they can be cited: `Induction` is about a set that contains 0 and successors,
`Recursion` says that a function that refers to itself at smaller numbers exists.
A recursive function of a model gets a lemma of that kind first (`Power10Def`,
`DigitsDef`, `SizesDef`).

### What is proved, and why it holds

**`MemoryProofs`**, of the allocator: `TypeOK`, `CursorInHeap`, `BlocksApart`,
`TooLargeOnlyPastTheEnd`, `NeverBackwards`, `GrowsOnlyAsNeeded`, and that it
implements `AbstractHeap`. The inductive invariant is
`TypeOK /\ CursorInHeap /\ BlocksApart /\ TooLargeOnlyPastTheEnd`: that blocks are
apart is not inductive by itself, the cursor has to be above all of them, in
memory and aligned. The core of the argument is arithmetic: a sum accepted by
the code's two comparisons did not wrap (`EndOfBlock`); a block that is taken to
fit does fit although the memory size may have wrapped to 0 (`FitsInMemory`);
the pages asked for are enough and no more (`GrowthSuffices`).

Of the shadow stack: `StackTypeOK`, `FramesApart`, `LeakContained` and `SpRestored`,
for any functions and frame sizes and any history of traps and re-entry. The
inductive invariant is those three with `EntryAbove`, which
relates an activation's frame pointer to the `$__sp` it was entered
with (that is what makes the epilogue, which computes from `$__fp`, restore it), and
`HostAtTop`, that the outermost activation is the host's at the top of the stack. `StackTypeOK`
includes that `$__sp` is never above that, where the heap begins; it is not inductive by itself, as an
epilogue adds to `$__fp` whatever its frame's size is.

Of both: `StackAndHeapApart`. `layoutData` ends the stack and begins the heap
at one address (`codegen.go:153-154`); from there frames go down and blocks up. The theorem takes the
conjunction of the two specifications, any interleaving of their steps, and no invariant beyond theirs:
frames lie one below another from `StackTop`, blocks one above another from
`HeapBase`. As `ShadowStack` does, it takes `$__sp` to be an integer; frames leaked
until it wraps around below 0 would come out at the top of memory.

**`ScalarCodeProofs`**: `TypeOK`, `OperandsCanonical`, and that the code implements
`AbstractEval` (`ImplementsEval`), for any widths of the types and any sequence of
operations. The inductive invariant `IInv` says that each operand is a word that stands for a
number of its type, that the bits of a variable fit its type, and that a
bool *in memory* is 0 or 1, which nothing in `load` ensures: without it a bool just
loaded would not be canonical. Each action has a lemma that gives the
invariant and the step of `AbstractEval` together, because a word is known
to stand for the right number only if the operands did. The argument is one about remainders: a
word and the number it stands for leave the same remainder modulo the type's
`Modulus`, so do sum, difference and product computed with either, and
a canonical word is the only one of its remainder (`RemainderOfResult`). Quotients do not
respect remainders; there the operands are in canonical form and the result is within
range, except for MIN / -1, which wasm traps on at full width and `canon`
wraps around at a narrow one.

**`LayoutProofs`**, of the memory map: `DataTypeOK`, `RegionsApart`, `DataInPlace` and `SlotsApart`, for
any literals, globals and slots and any size of a byte. `RegionsApart` speaks of
every pair of items and is not inductive: the invariant (`StringsPlaced`,
`GlobalsPlaced`, `SlotsPlaced`, `Finished`) says that items lie one after another below
the cursor, and what the last two phases made of it. That memory reads back what
the source says is an induction on the bytes of a number and of a literal.

**`AggregateCallsProofs`**: `TypeOK`, `VariablesHold` and `ResultsIntact`, for any
number of values, parameters, locals, temps and frames and any nesting of calls and literals.
The invariant says of each activation what the code generator relies on: an
operand that waits is the address of a variable that stays in scope, or of a
temp that was taken for it (`TaskOK`); no task still to run writes into a temp
that another holds (`Unshared`); what a temp holds is what was computed
(`Intact`); and between two frames, the innermost task of the caller is the call
whose result pointer the callee has (`WaitsFor`). Without the last, a return
could write anywhere.

**`OutputProofs`**: `TypeOK`, `BufferSafe`, `NothingLostOrRepeated`, and that each step is one of
`AbstractOutput` or a stutter, for any (even) number of integers and all
strings. `Converting` is the loop invariant of the digit loop: the digits still
to come, followed by those already in the buffer, are the numeral of the magnitude,
and there is room for them and a sign. This includes the most negative number,
whose magnitude is not a number of its type. `Writing` is that of `$rt_write_all`: what the host
took and what is left make up the text, after any short write or failure.

**`FrontEndProofs`**: `TokensExact` of the lexer, `NoStructLitExact` and
`NodesGrammatical` of the parser, `ResolvedRight`, `ScopesNest`, `NilMeansError` and
`AnnotationsSound` of the checker, for any source, tokens and files and any depth of
nesting; and `TypeOK` of the three together, which follows from their invariants and needs
of its own only that the parser's token is one in use.

Parser and checker are each a stack of items still to do.
Items are given types, like instructions: each needs something of what is known
before it, and leaves something for the next (`Leads`). For the parser what is
known is the flag, and bounds on the power of the operator last seen and the
expression last read; for the checker it is whether a missing type has been
reported. An action takes one item and puts back a sequence that leads from the
same to the same. The names and declarations that `resolve` has gone through
(`ResolveOK`) and the nesting of scopes and loops have invariants of their own.
`AnnotationsSound` looks at the moment a type is handed back; its invariant
(`AnnotatedState`) looks ahead: every type in a scope, in a signature or in an
item still to do exists, and an item that has given a literal the type it is to
have has nothing above it but signs, which pass that very type on
and hand it back (`LiteralsAnnotated`). That a literal's number is one of the type it took
needs no invariant, only that every integer type's range has 0 in it (`RangesHaveZero`):
`CheckNumber` compares a bare literal with the upper end of the range and a negated one with the lower.

**`LexerProofs`**, of the lexer by itself: the steps of a run, from which
`FrontEndProofs` has `TokensExact` for the three stages, and `TokensAreDetermined`.
The lexer's invariant (`LexOK`) says of what lies before `off` all that `TokensExact` says of
it, and that no more than blanks and whole comments lie between the last token and `off`
(`Skipped`). That a token is the *longest*
text that is one needs to know of every longer text that it is of no kind at all: the first
character leaves one kind only (`Beginnings`), and a run of characters ends at the first that
is not of its set (`RunEnds`). Where a string ends is defined by recursion over the rest of
the source, and what a quoted text is by the set of characters that escape the next one; that
the two mean the same place, and that there is no second one, is an induction from the end of
the source (`EndExists`, `EndsWhereItCloses`). Line and column are counts of the newlines before
`off`: no token holds one (`MoveAlong`), and a blank that is one begins a line
(`MoveDown`). `TokensAreDetermined` takes any two sequences that are exact for one source and
looks at the first token in which they differ: blanks and comments from one place on
end in one place (`OnePlace`), of two longest tokens neither is longer, and a text has
one kind (`OneKind`, `OneToken`). A sequence that stops earlier would give up where the other
has a token (`NoneIsShorter`).

**`LayoutProofs`**, of the struct layout pass: `TypeOK`, `RecursionBounded`, `LayoutsFinal` and
`CyclesRejected`, for any declarations in any order and any nesting of arrays and
pointers. `CyclesRejected` compares the diagnostics with the *declarations*: a
cycle was reported exactly if some structs each need another's layout. One half
is `Nested`: each struct on the stack was asked for by the one below it, so a struct met
twice closes a loop. The other is `Settled`: as long as nothing was reported,
what a struct that is done needs is done too, and no set of such structs is a
loop; once the pass has ended every struct is done. `LaidOut` says that while
that is so, a layout refers to final sizes only; `Complete`, that without errors no
field is missing.

### From which assumptions

Constants are assumed to be what the code makes of them; TLC evaluates every
assumption in the runs.

- `ConstantsOK` of `BumpHeap`: pages are multiples of the alignment, the heap starts
  aligned and with a page to spare below the end of the address space.
- `StackConstantsOK` of `ShadowStack`: frame sizes are natural numbers, the host has no frame.
- `ConstantsOK` of `DataLayout`: alignments of types divide that of the regions,
  literals are made of bytes, the scratch area ends where the strings begin or before.
- `ConstantsOK` of `AggregateCalls`: temps are neither parameters nor locals; the zero
  value is a value.
- `ConstantsOK` of `Output`: integers are those of the word; the itoa buffer has
  room for the digits of the largest magnitude and a sign (`runtime.go` reserves more); every
  string ends with a NUL.
- `SizesArePowersOfTwo` of `Types`, `BodiesOK` of `StructLayout`: sizes of built-in types are 1, 2, 4
  or 8; field lists are sequences of fields.
- `CharactersOK` of `Lexer`: digits are among the hexadecimal ones and 0 is one of them; no letter is
  a digit, a blank or a character with a meaning of its own (`lexer.go:97-104`); keywords are words.
- `TokensOK` of `Parser`, `FilesOK` of `Checker`: the end of the file is a token and the names
  of the parser's methods are not; types that files use are declared, as
  `StructLayout` is about those that are not, and no declaration has the name of a scalar type:
  those are keywords (`token.go:78-95`); the numbers of literals are natural, as their sign is an operator's
  (`sema.go:523`), and a scalar type has at least one bit. `TypesOK` of `Scalars`: the widths of the scalar types.

### What the proofs changed

Attempts that failed showed places where a model said something other than
intended. The powers of two of `Scalars` were written with `^`, which the prover has no
rules for; they are a recursive function now, with the same values. `Infix` of `Parser` and the grammar's definition of what is accepted
after an operand were `CASE`s whose arms overlapped, so that TLC took the first and
the semantics of TLA+ either. `FrontEnd` handed a file without declarations to a
pass that looks at the first one. In `StructLayout` a struct could take the name of a
built-in type and be waited for under it. `TokensExact` held, but did not determine the
tokens: it admitted a token taken out of a comment, an end of the file before
the end, giving up in front of a blank, and did not say what `08` and `0x` are, whose first
character is a number by itself. It now asks for the gap between two tokens to be a
gap of the whole way (`Gap`), for a number not to go on (`GoesOn`), and for its value.

### What is not proved

Every invariant and every action property of the passing runs is proved. Liveness under
fairness is beyond the prover and model-checked only: `Termination`, `PrintsEnd` and `StagesEnd`, and
the fairness that `ImplementsOutput` has in addition to `Implements`.

## 5. Not modelled

In the front end: the values of characters and strings, the spelling of
numbers and names beyond the lexer, the syntax tree below the root of the
expression at hand, the text and the order of diagnostics. `Checker` takes structs as
laid out; the errors of that pass, array sizes among them, are `StructLayout`'s,
and whether a number fits a global is `DataLayout`'s. In the code generator:
statements' control flow (`if`, `while`, `break`), which maps one to one to wasm
blocks; what lies behind a pointer, other than a variable; addresses of
temps that outlive their statement; the traversal of `inspect`; the text of the
emitted module. Of the command: flags, reading and writing files, running
wasmtime. Examples and build files have no state. Sizes are not limited by the
compiler except for arrays, so a program can be laid out beyond 4 GiB; no model
goes there.

## 6. Plan

Done, in this order: `StructLayout`, `BumpHeap` with its proofs, `ShadowStack` with
its proofs, `AggregateCalls`, `Output`, `DataLayout`, `ScalarCode`, then `Lexer`,
`Parser` and `Checker` with `FrontEnd`.

Next, in order of what matters most:

1. `DataLayout`, `ShadowStack` and `BumpHeap` composed over one memory, as
   `StackAndHeapApart` does for the last two.
2. The control flow of statements, and the lifetime of temps in `AggregateCalls`.
3. The values of characters and strings in `Lexer`, which code generation writes into data
   segments.
