# Formal models of libwasm

libwasm loads a WebAssembly module, compiles its functions to x86-64 code the
first time they are called and runs them. These TLA+ modules model the parts of
it where a mistake would be hard to see and hard to test; TLC checks them on
small instances and TLAPS proves the main results for all instances. Paths
below are relative to `src/src/lib/` unless they say otherwise.

## 1. Inventory

| Component | Where | State it keeps | Operations |
|---|---|---|---|
| JIT compiler and function vector | `JitWriter.cpp`, `JitWriter.h` | the code plane and its write position (`m_pexecPlaneCur`), the function vector at its start, page protections | `CompileFn`, `SafePushCode`, `ExternCallFn`, `ProtectForRuntime`, `UnprotectRuntime`, the `extern "C"` `CompileFn` |
| Generated code | emitted by `JitWriter.cpp` | registers rax (top operand), rdi (operand stack), rbx (locals), rsi (memory), rcx; saved rdi on the native stack; `m_vecoperand`, `m_veclocals` | one code sequence per opcode; blocks, branches, calls |
| Assembly runtime | `layer/posix/optemplates.asm` (and `win32`) | `ExecutionControlBlock`: stack to restore, heap size, tables | `ExternCallFnASM`, `Trap`, `WasmToC`, `CallIndirectShim`, `BranchTable`, `GrowMemoryOp`, unsigned conversions |
| Canonical function types | `WasmContext.cpp`, `wasm_types.h` | `m_vecfn_types`, `m_vecfn_entries` | the loop of `LoadModule`, `ITypeCanonicalFromIType`, `operator==` |
| Module loader | `WasmContext.cpp` | every table of the module | `load_section` and one loader per section, `LinkImports`, `InitializeMemory`, `CallFunction` |
| Linear memory | `JitWriter.cpp`, `ExecutionControlBlock.h` | `cbHeap`, `initial_size`, the reserved plane | loads, stores, `GrowMemory`, the write-back after a call |
| Builtins and C re-entry | `rt_callbacks.cpp` | none | `CReentryFn` (which drops the builtin's result), `IBuiltinFromName`, three builtins |
| LEB128 and buffers | `safe_access.cpp`, `safe_access.h`, `numeric_cast.h` | position in a payload or in the file | `safe_read_buffer`, `safe_copy_buffer`, `fread_struct` |
| Initialiser expressions | `ExpressionService.cpp` | none | `CbEatExpression` (of a module), `CchEatExpression` (of a script) |
| Pages | `layer/*/pagealloc.cpp` | reservations | `ReservePages`, `ProtectRange` |
| Hosts | `src/src/runtime/main.cpp`, `src/src/testhost/testhost.cpp` | one context; the test host also the state of its reader of scripts and three globals | load a module, call exports, one at a time; read a script, process its commands |

**How they interact.** A host calls `WasmContext::LoadModule`, which reads the
sections through the readers of numbers and expressions, links the imports to
builtins, rewrites the type of every function to the first equal one and runs the
start function. It then calls `WasmContext::CallFunction`, which calls
`ExternCallFn`. That compiles the function if its slot is null, makes the plane
executable and enters `ExternCallFnASM`. Generated code calls another function
directly through its slot (no test), an imported one through `WasmToC`, and any
function in the table through `CallIndirectShim`, which compares canonical type
indices and may call back into the compiler. All activations keep their operands
and locals in two vectors of `JitWriter`; memory is a plane reserved at the first
call, whose size lives in the module's tables between calls and in the control
block during one. A trap restores the stack saved at entry and returns 0, which
`ExternCallFn` turns into an exception.

There is one thread. What is hard is order rather than parallelism: compilation
happens in the middle of execution, exceptions meet frames they cannot cross,
every path through a body must leave two stacks as every other path does, the
sections of a file come in any order and are hardly compared with each other, two
copies of one size or one cursor must agree, and what a call or a trap leaves
behind in registers, cells, pages and globals is there for the next one.

**What makes each component correct.**

- *Compiler:* running code is compiled to the end together with all it calls;
  slots never change once filled; the plane is never writable and executable at
  the same time; no function lies inside another; compilation ends; a caller
  cannot tell that it happened.
- *Generated code:* operations get their operands in order; branches and blocks
  keep the operands around them; the native stack is balanced at every `ret`; an
  activation cannot reach the operands and locals of another, finds its parameters
  in order and its other locals zero.
- *Canonical types:* two entries have equal indices exactly when their types are
  equal.
- *Loader:* every entry names a type; nothing runs before imports are linked;
  imports have the first indices; no resize loses part of a segment; a file is
  loaded whole or refused (which is not so: section 3).
- *Linear memory:* its two sizes are one; it never shrinks, never passes its
  maximum, and what it has not reached is zero.
- *LEB128, expressions:* what is decoded is what was encoded (with one exception:
  section 3); bytes after a value belong to the next one.
- *Test host:* the blocks it processes are the commands of the script, an assertion
  is about its own values, and it ends well with the scripts that are whole (not for
  every way to write a comment or a verb: section 2).

The hazards, each with its line and the properties aimed at it, are listed in
`PROJECT.json` under `hazards`.

## 2. Modules

| Module | Models |
|---|---|
| `WasmCalls` | what a caller is promised: calls, returns, traps, no compiler |
| `JitLifecycle` | lazy compilation, slots, page protections, the entry from the host, the shim; implements `WasmCalls` |
| `WasmStack` | what one activation of a function does, as bytecode: blocks, each with its operands |
| `JitFrames` | what the emitted code does to rax, rcx, the operand memory and the native stack inside one activation; implements `WasmStack` |
| `WasmActivations` | what calls mean: each activation with operands and locals of its own |
| `CallFrames` | rdi, rbx and the two vectors over calls, returns, traps and builtins; implements `WasmActivations` |
| `WasmMemory` | what a program is promised of its memory |
| `LinearMemory` | the two sizes of the memory, the plane, growth, loads and stores; implements `WasmMemory` |
| `CanonicalTypes` | the rewriting of `m_vecfn_entries` |
| `ModuleLoader` | `LoadModule`, every section, linking and `CallFunction` |
| `Decoder` | the readers of numbers and `CbEatExpression`, byte by byte |
| `TestScript` | the test host: its reader of scripts and its commands |
| `*Proofs` | the theorems about `JitLifecycle`, `JitFrames`, `CallFrames`, `LinearMemory`, `CanonicalTypes`, `ModuleLoader`, `Decoder` and `TestScript` |
| `MC*` | instances for TLC |

The modules divide the program by what they leave open. `JitLifecycle` knows which
functions run and whether they are compiled, and nothing of operands; `CallFrames`
knows operands and locals across calls, and nothing of blocks; `JitFrames` knows one
activation with all its blocks; `LinearMemory` knows the memory under any program.
`ModuleLoader` uses the first equal type where `CanonicalTypes` shows that the scan
finds it, and leaves to `Decoder` how a number is read. An abstract module never
mentions registers, cells, slots or files: it is written from what WebAssembly
means, with each weak point of the program that a caller can see added by name.

### JitLifecycle

`slot` is the function vector, `cur` the write position in chunks, `rx` the pages
that are read-execute, `cstack` the activations of the recursive `CompileFn`,
`nstack` the native call stack, `pc` what the thread is doing. A body is a
record: the functions it calls directly in order, the types of its indirect
calls, its size in chunks and whether it is malformed. A chunk is one
`SafePushCode`, so a body can fail after any part of it was written.

`ExternCall`, `Enter` and `Leave` are the three pieces of `ExternCallFn` around
`CompileFn` and `ExternCallFnASM`. `Emit`, `CompileCallee`, `CompileReturn` and
`CompileThrow` are the steps of `CompileFn`, which fills its slot first
(`StartCompile`). `DirectCall`, `IndirectCall`, `NativeReturn`, `ReentryThrow` and
`RunOff` are what running code may do. What a body does between two calls is
left out. A crash (a jump through a null slot, running into code that was never
finished) is `pc = "crashed"`, an exception in frames that cannot be unwound is
`"terminated"`.

After a failed compilation the slot stays filled, and nothing is promised from
then on: `WasmCalls` has `tainted` and `GoWrong` for it, because that is what the
code does. Likewise `Die` allows the process to end in an import that the host
calls directly: `WasmToC` expects the function's number in rcx, which only a call
site in generated code sets, so that an exported import finds any number there.

### JitFrames

The machine is one record `m`: `rax`, `rcx`, `stk` (the cells of this activation
below rdi) and `msp` (the rdi each open block pushed). There is one operator per
method of `JitWriter` that emits code, and one action per group of opcodes that
share a shape. The bytecode is not fixed in advance: a step decodes any
instruction a validated function may have next, so that a run covers every body
within the bounds and every path through it. After a branch the instructions up
to its target are decoded and not executed; that is what `jump` holds, and it is
where the code's fixups are resolved. A loop that is re-entered may decode
another body the second time: more behaviours than the program has, none fewer.

`Apply` stands for what an operation computes and is left open; the instance gives
it a function that tells the operands and their order apart. `effect` shows what
an instruction handed to locals, globals, memory or a callee, so that passing the
wrong operand is seen. Cells at or above rdi are forgotten: an instruction that
reads one (`DoubleCompare`) gets `Junk`, of which nothing is promised.

Five constructs do not do what bytecode means: `store` leaves its value on the
operand stack, `f64_compare` reads its first operand one cell too high (and `f64.lt`
runs into `f64.gt`), `void_else` is an `if` without a result whose first arm joins
the end with one operand too many, `value_loop` is a loop with a result, where each
branch back leaves one operand more, and `mixed_table` is a `br_table` whose default
is the function's own label, by which every target is treated as one with a result.
`Constructs` names the ones the bytecode may use. The refinement is checked with
none of them; put any one into `MCJitFrames.cfg` and `ImplementsWasm` fails with a
short example of it. One run has them all, and the frame theorems of section 4 hold
with all of them.

`WasmStack` is written independently of the machine: `frames` holds the operands of
each open block. The refinement mapping is `Frames(m)`, which cuts the operand
memory at the saved positions and drops the cell `EnterBlock` pushed.

### CallFrames

The machine here is rax, rdi, rbx and the two vectors as arrays of cells, `op` and
`loc`. A frame of `stack` is what an activation has on the native stack: the rdi its
caller pushed, the number of locals the caller gives back, and the rdi its own
prologue pushed; `base`, rbx at its entry, is history. `Passed` is `CallIfn` up to
the call (rbx past the caller's locals, the arguments stored from the last to the
first, the cell of rax pushed), `FnPrologue` zeroes the locals that are no
parameters, `AfterCall` is what follows the call. Instructions other than calls are
the few that touch operands and locals, and bytecode may have any that is valid
next. A trap goes back to the host from any depth with every register as it is, and
nothing clears a cell, ever: what a function finds in one is what the prologue and
the call wrote, or what somebody left. Where a cell beyond a vector would be used
the model stops (`"overrun"`): the code tests nothing there.

`WasmActivations` is a stack of records with operands and locals. Four weak points
are in it by name: a parameter the host does not pass may be anything, and so may
what a builtin reads beyond the parameters its import declares (nothing compares the
two); an import returns 0, whatever its builtin did; and the process may die, which
stands for the missing test of the two vectors and the native stack.

### LinearMemory

`memTypes[1].initial_size` is the size between calls, in pages and 32 bits; `cbHeap`
the size during a call, in bytes. `heap` is the plane, reserved and filled from
`vecmem` (the data segments) at the first call. `ExternCall`, `Return` and `Trap` are
`ExternCallFn` around the native call: only a return writes the size back. A 32-bit
word has `WordSize` values and the products of 32-bit numbers wrap where the code's
do. `GrowMemory` has its three outcomes: refused, extended, or the `Verify` that
throws into assembly frames. `LoadMem` and `StoreMem` take effective addresses modulo
the word and do not look at `cbHeap`, because the code does not.

A program may therefore reach outside its memory without a trap. `InBounds` says
whether it does: `GrownPagesAreZero` and the refinement are about programs that keep
inside (with `InBounds = FALSE` both fail at once); the other properties hold
either way. `WasmMemory` admits two more weak points: a trap may take back the pages
its call had grown, and the process ends when memory would reach four gigabytes or
when a module without a memory has grown one.

### ModuleLoader

The state is the vectors of `WasmContext`, and each step reads whatever may come next
in a file: a section of any kind, in any order and any number of times, an entry, the
end. `section` and `nread` are where `load_section` is. A payload that ends inside an
entry (`Truncated`, an exception no host catches) is another thing than a file that
ends (`EndOfFile`, by which `load_section` takes it as the proper end of the module,
even inside a section). Checks are the code's: an entry must name a type when it is
pushed, an element must lie in the table, the rest is taken as it is. Sizes wrap: a
data segment whose end wraps past both tests writes beyond the image (`"crashed"`),
and so may `back()` of an empty body. The table takes `maximum_size` even when the limits
set none, a value the step chooses freely. `placed`, `written`, `declared`, `ordered`
and `whole` are history, for the properties.

### CanonicalTypes

`types`, `declared` and `entries` are the vectors; `cur` is the loop of
`LoadModule`; `scanning`, `idx` and `itrType` are inside
`ITypeCanonicalFromIType`, whose index changes during the scan. A type is a record
with the field `operator==` ignores when there is no result.

### Decoder

A step reads one byte, whatever it is: a group of bits and a flag that says whether
another follows. `ret` and `shift` are the code's, with the width of the type: what is
shifted past it is lost, or, where C++ leaves it undefined (`fread_struct` beyond its
width, the sign mask of a `varint64`), one of the results x86-64 compilers give.
`cb` is what is left of a payload and `cbData` the copy of it in the caller of
`CbEatExpression`, which is told afterwards how much was eaten. `field` is history:
the bytes of the number, of which `Meaning` says what LEB128 means by them.

Powers of two, sums and the or of two words (`Pow2`, `Total`, `BitOr`) are recursive
functions over a set rather than library operators, because the proofs need what they
compute for every argument. `OperatorsAssumption` in `MCDecoder` has TLC compare them
with `^` and with the library's or, for every word of the instance.

### TestScript

The variables are those of `main` in the test host, with a verb as one character of
the script. Each step reads a character that the script may go on with (`MayFollow`),
or finds the end of the file, which may come anywhere (`EndOfScript`). A reader of the
format beside the host's own (`text`, `open`) says as history which blocks are open,
which command is due, and whether a file that ends here is a whole script or one that
was cut. `ProcessCommand` is what a command does to the context and the two globals an
assertion compares.

`Syntax` names five things that scripts may contain and the host does not handle. The
properties are checked and proved without them; with one of them in
`MCTestScript.cfg` TLC refutes a property in a few steps:

| `Syntax` | What the host does |
|---|---|
| `spaced_verb` | White space or a line comment between a parenthesis and its verb, as in `comments.wast:13-15`, makes the verb empty (`testhost.cpp:286-291`). The host takes the command for a constant, which `CchEatExpression` refuses, and terminates: `CommandsAreBlocks` fails. |
| `block_comment` | A block comment, as in `comments.wast:24`, is a block with an empty verb and is processed as a command: `CommandsAreBlocks` fails. |
| `semicolon_in_comment` | A semicolon ends a line comment (`testhost.cpp:301`), and the rest of the line, as in `comments.wast:17`, is read as code: `CommandsAreBlocks` fails. |
| `escaped_backslash` | The quote after an escaped backslash does not end a string: `CommandsAreBlocks` fails. |
| `comment_at_end` | A script that is whole but ends in a line comment without a line break fails the assert at `testhost.cpp:351`: `EndsCleanly` fails. Without this member no file of the model ends in such a comment outside of all blocks (`MayEnd`). |

`comments.wast` is a test of the repository that the host cannot run for the first three.
A block comment within another, or between white space and a verb, is not modelled.

## 3. Runs

| Run | What it shows |
|---|---|
| `lifecycle` | every assignment of six bodies (leaf, cycle, shared callee, callee twice, indirect sites, malformed) to three functions, one builtin, a table with a function of each of two types, an import and an entry out of range: all properties of `JitLifecycle` and the refinement of `WasmCalls` |
| `canonical_types` | every four types over four signatures and every two functions: equal indices are equal types, and the scan ends |
| `frames` | every body of up to three nested blocks and five cells: the refinement of `WasmStack` |
| `frames_all_constructs` | the same with the five constructs allowed and four cells: operands go wrong, saved frames and return addresses do not |
| `frames_store` | *violation:* a store leaves its value on the operand stack |
| `calls` | two functions that call each other, themselves and a builtin, directly and through the table, entered by a host with any number of arguments, with traps at every depth: the refinement of `WasmActivations` |
| `memory` | calls, growth, accesses inside the memory, returns and traps in any order under limits below, at and above the 32-bit boundary: the refinement of `WasmMemory` |
| `loader` | every file of at most four entries in sections of any order and number: what the loader promises of entries, imports and segments |
| `loader_cut_file` | *violation:* a file that ends inside a section is loaded without the rest of it, though the comment at `WasmContext.cpp:339` takes an end between two sections for granted |
| `decoder` | every sequence of reads from every payload of up to six bytes |
| `decoder_sign` | *violation:* a negative `varint64` of more bytes than an `int` has room for is extended from the wrong bit |
| `script` | every script of commands, strings and line comments nested up to four deep, whole or cut anywhere: what is processed, what an assertion compares, and how `main` ends |

**Bounds.**

- `lifecycle`: `MaxDepth = 3` native frames, an entry, a callee and a callee compiled
  from within it; a fourth frame repeats the third. `PlaneMax = 9` chunks of two to
  a page: some assignments fit, some run out in the middle of a body, and pages
  are shared by functions.
- `canonical_types`: four types are the fewest in which an adopted index is
  replaced again and the scan goes on.
- `frames`: `MaxBlocks = 3` lets a branch leave a block in between, `MaxArgs = 2` lets
  arguments be swapped, and `MaxCells = 5` leaves operands below and inside the
  innermost of three frames. Three values let a condition be false and the operands
  of a `select` differ.
- `calls`: `MaxDepth = 3` activations, so that a callee has one above and one below it.
  One function has a parameter, a further local and a result, the other a local and no
  result, so that a missing reset of either register or of a local shows. The builtin
  reads three cells and its import declares two parameters. Five cells in each vector
  are reached: runs stop at the end of both. The host passes up to two arguments,
  which is one too many for either function and too few for the first.
- `memory`: a word of six values and pages of two bytes make three pages the four
  gigabytes, while `initial_size` counts to five and its products wrap. A load takes one
  or two bytes, so one can straddle the end of a page. `InBounds = TRUE` (section 2).
- `loader`: a word of four values and pages of two bytes, so that a segment's end wraps;
  two signatures, which are only ever compared and therefore symmetric; two builtins
  and a name that is none. Four entries (`MaxEntries`) hold two types and a function with
  an import before or after it, or two segments of up to two cells (`MaxSegment`), of
  which the second may overlap, precede or extend the first. One entry is enough to be
  cut off (`loader_cut_file`).
- `decoder`: groups of two bits, an `int` of five bits in three bytes and a `long` of nine
  in five, so that both end inside their last group as 32 and 64 do in groups of seven.
  Payloads of six bytes hold a number of one byte more than the longest allowed, or an
  expression and the number after it.
- `script`: four open parentheses reach an argument of an `invoke` inside an assertion and
  one more inside a module; two values tell a result from an expectation.

**Deadlock** is not checked: a finished load, a host that has called all it may within
a bound, an overrun, a payload read to its end, a finished script and a process that has
ended have no next step.

**Fairness.** `JitLifecycle` assumes weak fairness of `CompileStep` only: `CompileFn`
is sequential C++ that waits for nothing. Nothing is assumed of the host or of
generated code, which may loop. `CanonicalTypes` assumes weak fairness of its two
steps, for the same reason. The other modules assume none: what they would wait for is
a host, a program or a file.

## 4. Proofs

All theorems are checked by TLAPS for every value of the constants that meets the
named assumptions of each module (`ModuleAssumption`, `FramesAssumption`,
`CallFramesAssumption`, `MemoryAssumption`, `SizesAssumption`, `LoaderAssumption`,
`DecoderAssumption`, `ScriptAssumption`): sizes
are natural numbers, a body names functions and types that exist (`CompileFn`
verifies the index of each `call`), parameters are locals, a word is a whole number of
pages, `Apply` of cells is a cell and of values a value. Bounds such as `MaxDepth` are
arbitrary. Every component has its type invariant as a theorem (`TypeOKAlways`,
`HostTypes`), from the invariants below.

- **`CanonicalTypesProofs`.** `PrefixCanonicalAlways`, `IndexEqualityAlways`. The
  invariant adds `ScanInvariant`: during the scan `idx` is the smallest index at or
  above the iterator whose type equals the declared one. It is needed because
  `idx`, the type being compared with, changes while the loop runs; that this is
  harmless is where `operator==` must be transitive (`SameTypeEquivalence`).
- **`JitLifecycleProofs`.** `WriteXorExecuteAlways`, `RunningCodeIsLinkedAlways`,
  `SlotsAreFilledOnceAlways`, `CodeIsContiguousAlways` and `LazyCompilationIsInvisible`
  (the refinement `Spec => Calls!CSpec`). `RunningCodeIsLinked` is far from inductive:
  that every callee of a running function is compiled follows from what the whole stack
  of `CompileFn` activations has still to do. `IInv` says that (`CompileStackInv`,
  `LinkInv`): only the innermost activation has code left to emit, the others have
  their callees up to `next` linked, and every finished function without an
  activation has all callees linked. `SlotInv` and `NativeInv` tie the function
  vector and the native stack to it. The refinement maps each step to a step of
  `WasmCalls` or a stutter, action by action. `CodeIsContiguous` needs `LayoutInv`: the
  function being emitted has the end of the plane to itself, the activations around it
  have emitted all of theirs, finished code lies below `cur`, and two functions begin
  at the same place only where the plane is full, so that neither has code.
  `CompilerDescendsAlways` is the reason why `CompilationEnds`: a step of `CompileFn`
  fills a null slot, or else ends an activation, or else comes to the next callee, or else
  emits code, and there are finitely many of each (`CalleesToGo` and `ChunksToGo` are
  natural numbers, by `CompileStackInv`). The guards of the four steps leave out no state
  inside the compiler, so fairness turns this into termination; that last inference
  is about `ENABLED` and is left to TLC.
- **`JitFramesProofs`.** `FramesNestAlways` and `ReturnIsBalancedAlways`: on every path
  through every body, whatever constructs it uses, the native stack holds one rdi
  per open block, in order, each above the operands around its block, and is empty
  at every return. The invariant is the conjunction of the two with `TypeOK` and is
  inductive; its order is stated between all pairs of frames, because a branch
  jumps over several. The argument goes through `Straight` (straight-line code
  within the operands of the innermost block keeps the frames) and one lemma each
  for `PushRdi`, `PopRdi`, `EnterBlock`, `LeaveBlock` and the branches.
  `CodeImplementsWasm`, in the second half of the module: under `Constructs = {}` generated code
  implements `WasmStack`, for bodies, nesting and paths of any size within the bounds
  that the constants name; with any one of the constructs it does not (section 3). To
  `IInv` it adds `BlocksInv`: the outermost block is the function's,
  and for every other the type byte that is pushed says whether the block has a result.
  The first ties what the outermost label carries to the function's own type, the second
  is what lets a branch decide by the byte whether a value goes with it. `Row` is rax put
  behind the operand memory, so that `Frames` cuts one sequence; `Agree`, `Spans`,
  `Leaves` and `Carries` say which part of it an instruction keeps. One lemma says what
  each of `EnterBlock`, `LeaveBlock` and several of them in a row do to the frames
  (`EnteredFrames`, `LeftFrames`, `LeaveIs`), straight-line code is one lemma, and each
  remaining action has one that names the step of `WasmStack` it is.
- **`CallFramesProofs`.** `FramesAreDisjointAlways` and `ImplementsActivationsAlways` (the
  refinement of `WasmActivations`). The invariant says of the whole stack that frames
  nest (`Nested`: each lies above the operands its caller keeps and the locals its caller
  owns), that the registers are those of the last one, and that every cell the mapping
  reads is a value. `Acts` is the mapping as a function of the machine and the frames,
  so that a lemma can say which cells it does not look at; what a step writes lies
  above them for all activations but the last (`OuterKept`). There is one lemma per
  action, which gives the invariant and the step of `WasmActivations` together.
- **`LinearMemoryProofs`.** `AddressableHeapAlways`, `MaximumRespectedAlways`,
  `MemoryNeverShrinksAlways`, `GrownPagesAreZeroAlways` and `TwoSizesAreOneMemory` (the
  refinement of `WasmMemory`). The invariant, `HeapInv`, is that during a call `cbHeap` is a
  whole number of pages, below the word and no less than at entry; without it the
  division that writes a size back would lose a part of a page.
  `PagesOrdered`, `PagesOfBytes` and `WrappedPages` are the arithmetic. The last two
  theorems assume `InBounds`.
- **`ModuleLoaderProofs`.** `EntriesNameTypesAlways`, `NothingRunsBeforeLinkingAlways`,
  `ImportsComeFirstAlways` and `SegmentsAreKeptAlways`, by an invariant that adds how
  far linking has come (`LinkInv`), which sections an ordered file can already have had
  (`OrderInv`) and that entries, names and types grow together (`NamesInv`). What a
  resize and an overwritten range keep of a sequence is stated once, in
  `HoldsResized` and `HoldsOverwritten`.
- **`TestScriptProofs`.** `BlocksAreProcessed`, `AssertionsJudgeTheirOwn`,
  `MainEndsCleanly` and `HostTypes`, for scripts of any length and any nesting. All four
  assume `Syntax = {}`: with one of its members in a script the first or the third is false
  (section 2). `MainEndsCleanly` is about a file that ends
  anywhere: the asserts hold if and only if the script was whole. That they fail for
  every other file needs that an open block always has a command on the host's stack
  or is inside one that has.
  The host counts parentheses, marks with one flag whether it goes into what opens, and
  keeps verbs in a stack of its own; what it should do depends on every open block.
  `CommandInv` relates the two: its commands are the open blocks down to the first it
  does not read, and `fNestCmd` says whether there is one (`NestingIs`). `ScriptInv` is
  what the format adds: what is not read stands outermost, and nothing but a constant
  follows the `invoke` of an `assert_return`. With that, `OwnInv` shows why two globals
  are enough: from the end of that `invoke` to the end of the assertion no other command
  can set them. `ReadCases` splits a character into what it does to the script, the lemma
  of each action into what the host makes of it.

- **`DecoderProofs`.** `NumbersMeanTheirBytesAlways`, `FieldsAreWholeAlways`,
  `CallerFollowsAlways` and `TypeOKAlways`, for groups and words of any width and payloads
  of any length. The proofs need what sums and powers are for every argument, so they
  begin with induction as a statement about sets (`Induction`, from the library's theorem
  that a set with a well-founded relation has a minimal element) and with the existence of
  a function that goes on as another one says (`Recursion`, by gluing together functions
  on `0 .. n`). From these follow `PowerAdds`, `TotalAppend` and `TotalBelow`, and
  from those that one more byte adds `Term` to what a number means (`UnsignedAppend`) and
  that n bytes mean less than the power at n groups (`UnsignedBelow`).
  The invariant says that within a number `ret` is what the bytes so far mean, modulo the
  width (`ReadInv`): for a payload always, for a file as long as `fread_struct` has read no
  more bytes than the type needs. It is not enough that this holds at the end, because the
  shift of each byte depends on how many came before. `SizesInv` says that a byte is either
  read or left, `CursorInv` by how much the caller of `CbEatExpression` is behind.
  The end of a number has two cases: a negative one that fills the word differs from its
  unsigned value by a multiple of the word (`WholeWord`), and of a shorter one the or with
  the sign mask is the sum, since the bits below the mask are all it has (`ShortWord`).
  The case that is left out, a `varint64` of more groups than an `int` has room for, is
  the one that `decoder_sign` refutes.

**Only model-checked:** the liveness properties `CompilationEnds` and `Terminates`, which
are out of the prover's reach. Every other property of a passing run is the conclusion of
a theorem.

## 5. Not modelled, and the plan

Left to do:

1. `JitFrames` and `CallFrames` in one module. They meet in the call, which is one step
   that consumes arguments for the first and the whole of the second.
2. `CchEatExpression`, the initialiser expressions of scripts, whose digits `TestScript`
   takes as a value.

Not modelled:

- The Windows runtime (`layer/win32`) has the same entry points under another calling
  convention; the models follow the posix file.
- What a builtin does outside the process. `CallFrames` has what it reads and that its
  result is dropped.
- Instruction encodings (the bytes of x86 code), floating-point arithmetic and the
  conversions of unsigned numbers: `Apply` stands for all that an operation computes.
- Operating-system calls: `ReservePages` and `ProtectRange` succeed. Where the system
  refuses they throw `bad_alloc`, which no host catches.
- Disassembly output and the content of the test scripts.
