# Verification of shader-compiler

TLA+ models of the shader compiler and of the runtime that executes what it compiles, with the
TLC runs that check them and TLAPS proofs about them. Source paths are relative to the
repository. The manifest `PROJECT.json` maps every definition that models code to its lines.

## 1. The system

A GLSL-like source is compiled to LLVM IR for RISC-V (`irgen_riscv`) or to SPIR-V
(`irgen_spirv`). The RISC-V module is linked with a software rasterizer; the SPIR-V module runs
on Vulkan.

    source -> lexer -> parser -> AST -> sema -> LLVM IR -+-> trampolines + packetizer -> opt, sincos -> runtime
                                                        +-> SPIR-V emitter -> Vulkan

| Component | State | Operations | What makes it hard | What makes it correct |
|---|---|---|---|---|
| Lexer (`src/frontend/lexer`) | position in the source | next token | longest match, end of input, comments | every character is consumed once; always ends in EOF |
| Parser (`src/frontend/parser`) | current token, error flag | one function per construct; `synchronize()` after an error | recovery | progress after an error; an erroneous program is never accepted; precedence |
| Types (`ast_context`, `type.h`) | tables of uniqued types | `getVectorTy`, `getArrayTy`, ... | types are compared by pointer | equal types are one object |
| Sema (`sema.cpp`) | scopes, struct graph, error count | 4 passes | scoping, const roots, cycles of structs, implicit conversions | a cyclic struct is always reported; no const is written; one type per expression |
| Code generation (`ast.cpp`, `codegen_state`, helpers) | builder, `NamedValues`, break/continue stacks | `codegen()` per node | terminated blocks, one flat table of variables | one terminator per block; names mean what sema resolved; out variables are stored on every return |
| Packetizer (`emit_fs_packet.h`) | `mask_`, `la_`, `em_`, `live_`, sets of the divergence analysis | `emitStmt` and one function per expression | predication of nested control flow, cached masks | each lane runs as the scalar code does |
| Trampolines (`emit_trampolines.h`) | slot offsets | `vs_invoke`, `fs_invoke`, `cs_invoke`, `cs_dispatch_row` | layout of f32 and f64 regions | slots are disjoint and inside the declared totals |
| SPIR-V emitter (`emit_spirv_from_ir.h`) | ids, block order | types, constants, structured control flow | merge blocks and loop headers | every selection and loop has its merge; ids are unique |
| Sincos pass (`sincos_opt.cpp`) | pairs by argument | rewrite | keys that go stale while rewriting | a value's uses stay dominated; the rewritten call has a live argument |
| Rasterizer (`pipeline_runtime.cpp`) | static depth buffer, setups and bins; tile and batch of each thread | `render_pipeline` | OpenMP threads without locks, dynamic tiles, deferred batches | the image of an in-order renderer; no data race |
| Texture sampler (`tex_inline.cpp`) | slot tables | sample, load, store | clamping | texel indices stay inside the slot |
| Drivers (`main_lib_*.cpp`) | the phase | parse, sema, codegen, emit, verify, write | failure of a phase | nothing is written after a failure |

Components interact by calls: the driver calls the phases in order, the host calls
`render_pipeline`, which calls the compiled `vs_invoke`/`fs_invoke` or, when `SHADER_PACKET` is
set and the shader was packetized, `vs_packet`/`fs_packet`. State shared between threads exists
only in the rasterizer. Nothing is persisted and no messages are exchanged, so crash recovery
and unreliable delivery do not arise. The driver, the parser, sema and code generation are one thread: their hazards
are orders of calls, state left over from an earlier call, and recovery after an error.

## 2. Modules

| Module | Role |
|---|---|
| `ScalarLanes` | abstract: every lane of a packet runs the program the way one scalar invocation does |
| `PacketMasks` | the masks of the packetizer; implements `ScalarLanes` |
| `MCPacketMasks` | lane symmetry for TLC |
| `PacketMasksProofs` | inductive invariant of the masks and its consequences; the masks implement `ScalarLanes`, step by step |
| `Uniformity` | the divergence analysis of the packetizer, and the runs it makes promises about |
| `MCUniformity` | the shaders for TLC |
| `UniformityProofs` | what the analysis keeps scalar is uniform, and nothing else could stay |
| `StructCycles` | sema's search for recursive structs and its walk over the types of stage variables |
| `MCStructCycles` | the programs for TLC |
| `StructCyclesProofs` | the search misses no cycle and reports nothing without one; the walk finds every double |
| `InOrderRaster` | abstract: each pixel takes the fragments of a draw in submission order |
| `TileRaster` | `render_pipeline`; implements `InOrderRaster` |
| `MCTileRaster` | framebuffer and scene for TLC |
| `TileRasterProofs` | absence of data races, types, what the bins and scans hold; the rasterizer implements `InOrderRaster`, step by step; the finished picture |
| `Parser` | the recursive-descent parser with its recovery |
| `MCParser` | the files for TLC, and what a tree should be |
| `ParserProofs` | an accepted file was read in full; type correctness; constructs advance |
| `Blocks` | code generation of functions, statements and expressions; runs the blocks next to the statements |
| `SpirvBlocks` | extends `Blocks`: merge blocks and block order of the SPIR-V |
| `MCSpirvBlocks` | the functions for TLC |
| `BlocksProofs` | every block of a generated function ends in its only terminator; where branches and phis may lead |
| `SpirvBlocksProofs` | the SPIR-V has each block once, in order, and every block it names |
| `StageInterface` | locations, bindings, offsets and slots, from sema through both backends |
| `MCStageInterface` | the shaders for TLC |
| `StageInterfaceProofs` | locations, bindings and uniforms stay apart; sema and both backends agree; rows run in full |

### 2.1 `PacketMasks` and `ScalarLanes`

The packetizer emits code that runs all lanes of a packet through both arms of an `if` and
through a loop as long as any lane wants another iteration; a store is
`select(effMask(), new, old)`. The C++ members `mask_`, `la_` and `em_` say which run-time mask
the emitter refers to while it walks the AST. The module executes the emitted code: `mask`, `em`
and `live` are the run-time values of those members at the current point, and `frames` is the
recursion of `emitStmt` that fixes which masks are restored later. A frame is an arm of an `if`
(`saved` = the C++ local `saved`, `act` = its mask), a loop (`act` = content of `la`, `saved` =
`enterMask`), an iteration (`act` = content of `em`, `saved` = `body.base`), or the two frames of
a loop that the divergence analysis proved uniform.

There is no fixed program: at every statement any statement may come next and every condition
takes any value on any lane, so a run covers all programs up to a nesting depth. An increment
and a condition have no state of their own here; `EndBody` and `StartBody` set the masks they
run under. Jumping over an arm that no lane wants (`emitMaskedArm`) is a shortcut for an arm in
which nothing executes: `IdleArmStaysIdle` is the property that makes it sound.

`ScalarLanes` is taken from the scalar code generator (`ast.cpp`): `break` branches to the block
on top of `BreakStack`, `continue` to the latch, `discard` does not return. Because the program
is structured, a lane's position is the set of open scopes it is inside. The refinement maps a
lane of `PacketMasks` to the frames whose mask it is in; `ImplementsScalar` then says that under
the masks every live lane executes exactly the statements its scalar invocation executes.
The variable `stmt` names the last statement in both modules, so that a step of one kind cannot
be matched by a step of another.

Properties: `TypeOK`; `MaskInv` (the masks held by the emitter are those its frames stand for,
each frame restores its encloser's masks, masks nest); `ExitedLanesIdle` (no lane executes in an
iteration it left); `IdleArmStaysIdle`; `ImplementsScalar`.

**The restriction `ExitsBeforeLoop = FALSE`.** `emitLoop` starts a nested masked loop under
`mask_`, not under `effMask()`. If a lane has executed `break` or `continue` in the enclosing
iteration, it is active again in the nested loop:

    for (...) {                   // lanes 0 and 1
        if (cond) continue;       // lane 0 leaves the iteration
        for (...) { x = x + 1; }  // emitted code runs this for lane 0 too
    }

The constant `ExitsBeforeLoop` says whether such programs are included. With `TRUE` the run
`packet_masks_exits` violates `ExitedLanesIdle` (a finding in `PROJECT.json`);
ARCHITECTURE.md:98 promises that packets are bit-identical to the scalar path. With `FALSE`,
`EnterLoop` additionally requires `Eff = mask`, and everything else is checked and proved for
that class of programs.

### 2.2 `Uniformity`

`analyzeUniformity` scans the shader until a pass finds no further local that depends on the
lane. `PacketEmitter` then keeps the other locals in scalar slots, written without a blend from
lane 0, and emits a uniform loop without a mask, its exit branch taken by lane 0. The module
models whole shaders as data: a sequence of statements in source order with the nesting as indices.
In `phase = "scan"` a step is a statement of the scan (`ScanAssign`, `ScanLoop`, `ScanOther`) or the end of a pass (`EndScan`);
`divergentVars`, `uniformLoops` and `changed` are the C++ variables, and `DivergentCF` recovers the
parameter `divergentCF` from where the statement stands. In `phase = "run"` the
lanes execute the shader packet after packet as their scalar invocations do: `inside` and `chosen` are the
lanes in each `if` and loop, and a value is abstracted to whether it is the same in all lanes (`same`). A condition that reads only such
values sends all lanes one way; any other sends any of them any way.

Properties: `TypeOK`; `UniformLocals` (a scalar slot can hold the local); `UniformLoopsConverge`
(lane 0 speaks for all); `ScalarSlotsWrittenByAll` (no blend is needed); `LeastSolution` (the result is the
least solution of the data-flow equations, stated as equations over a set and not as a scan, so it does not
depend on the order of marks, and nothing is vectorised for nothing); `AnalysisReturns`.

### 2.3 `TileRaster` and `InOrderRaster`

A call of `render_pipeline` is: a parallel loop over vertices (or packets of vertices), the
master's clearing of the buffers and of the per-thread bins, a parallel loop that sets triangles
up and bins them, and a parallel loop over tiles. `phase` is the loop; `todo` holds what is left
of each thread's chunk of a statically scheduled loop; `setups` and `bins` are `threadSetups`
and `threadBins`; `tile`, `work` and `batch` are a tile-pass thread's tile, the fragments its
scan has still to reach, and the batch waiting for `fs_packet`. One step is one vertex call, one
triangle, one fragment, or the start or end of a tile. These are the points between which a
thread touches only its own data, except `zbuf` and `rgb_out`, which is what `NoSharedPixel` is about.
`vsPacketMode` and `packetMode` are independent because one stage may have been packetized and
the other not. In packet mode the depth is written when the fragment is tested, the colour when
the batch is flushed, and a fragment reported dead leaves the colour; in scalar mode there is no
report, and every fragment writes.

Geometry is data: a triangle is given by its bounding box, covered pixels, depths and the pixels
its fragments discard at. `TriangleOK` states what the source's arithmetic guarantees of them.
The colour of a pixel is the draw and triangle that wrote it.

`InOrderRaster` is a renderer with one step per fragment in which pixels are independent and
each takes its fragments in submission order: `pending` holds, per pixel, the triangles still to be
applied, and a step takes the smallest. The refinement maps a pixel's colour to what it
will show once the batches that hold its fragments are flushed (`AbsColour`), and the
fragments still to come to those its tile's scan has not reached (`AbsPending`). What a flush shows at a
pixel is the last fragment of the batch there that `fs_packet` did not report dead (`Kept`, `Flushed`).

Properties: `TypeOK` (a batch never holds `PACKET_W` fragments between steps, bins point into
their thread's setups); `NoSharedPixel` (no data race); `ReadsShaded` (setup reads only vertices that
were shaded); `FinalImage` (in a finished picture each pixel has the least depth of all its fragments since the buffers were
cleared, and the colour of the last one that, when it came, was in front of those before it and was not discarded); `ImplementsInOrder`; `DrawsFinish` (a draw that starts returns).

### 2.4 `StructCycles`

The passes of `sema.cpp` that follow struct declarations. A program is data: the fields of each struct, each of a
struct type or a builtin, maybe an array, and the struct type of an interpolated stage variable. `deps` is
`structDependencies_`; `stack` is the recursion of `hasCycleFrom` (a frame is a struct and the dependencies it has still to look at), `visited` and `onStack` its
parameters; `calls` is the recursion of `typeContainsDouble`. A step looks at one dependency or field, or starts or ends a
call. Names in hash sets come in any order. A call that returns true makes all its callers return true, which is one step
(`FoundCycle`, `FoundDouble`).

A set of structs is a cycle (`IsCore`) if every member depends on a member. This says "goes round" without paths.

Properties: `TypeOK`; `SearchInv` (what a search has left behind leads to no cycle; its stack is a
path); `NoCycleLeft` (every cycle goes through a reported struct); `ReportsJustified`; `DoubleFound` (the walk finds a double exactly if one is inside, against a closure over sets of
structs); `RunReturns`.

**Two findings.** `buildDependencies` compares the whole spelling of a field's type with the names of structs, and the
spelling of an array has its size in it. `struct A { A a[2]; };` is therefore accepted: the run `struct_arrays` violates
`CyclesDetected`. `struct_cycles` has arrays only of structs that contain no struct. And `run()` goes on after a recursive
struct was reported; if an interpolated stage variable has that type, `typeContainsDouble` recurses for
ever: the run `struct_walk` violates `WalkEnds`. `MaxDepth` stops the model there, one call after the walk has
come back to a struct it is in; `struct_cycles` has only stage variables from whose type no cycle is reached. The comment at sema.h:42, "reports each cycle once", holds or not by
the order of a hash set: with `struct A { B b; }; struct B { B b; };` both are reported if A is searched first. It is not counted as a finding.

### 2.5 `Parser`

The C++ call stack is the sequence `todo`: what the active parse functions have left to do, a token they insist on, a
parse function they will call, or a step (`#...`) that builds a node from `vals`. A parse function is a production, an
operator from the current token and the next to what it does first; `Match` takes a token, `Call` unfolds a production, and
`Build` makes a node. `prec` holds `exprPrecedence` of the active calls of `parseBinOpRHS`. What
happens after an error is `Failing`: a null node goes up through all callers, except in `parseFor`, which ignores a failed
initialisation (`FailInit`); then `ParseProgram` skips (`SyncFrom`, `FirstOf`) in one of five ways. A token stands for all
that the parser treats alike.

Properties: `TypeOK`; `TreeIsParse` (a node's tokens are those it was read from, and operators group as their levels say, against a
grammar that does not use minimum precedences); `AcceptedMeansUsed` (nothing is skipped in silence, apart from `}` that close nothing, which the
code does skip so); `ConstructsAdvance`; `ParserReturns`.

### 2.6 `Blocks` and `SpirvBlocks`

A function is a tree of statements. `Functions` are the functions that are compiled, `Statements` and `Expressions` the trees they are made of:
`SyntaxAssumption` says that each has the fields of its class in `ast.h` and that what it holds is again one of them. One shape the parser
accepts is left out: a `for` that begins with a jump (`for (break; ...)`). The code emits a branch after the jump (`ast.cpp:1843`), and `verifyFunction` refuses the function
(`ast.cpp:1714`). The increment of a `for` is an expression or a store
(`Steps`; `parser.cpp:900`). In phase `codegen` one step is what `codegen()` of a node does between two calls of `codegen()` of its children: `todo` holds the
nodes and the rests of nodes under way, `frames` their C++ locals (the block numbers they
keep across a call), `cur` the insertion point, `breaks` and `conts` the two stacks, `namedValues` the flat table. Blocks
are numbered as they are made, with the names that code generation gives them, and `of` records the block they are entered from first: the block of the fork they belong to, for the header of a loop the block before it. `FunctionEnd` adds what is missing at the end: the copies of out
variables, a return, or a refusal.

In phase `run` two readings of the function go side by side. `Read` follows the source: `cont` is what is left to do, `env` the scopes as sema
opens and closes them. `Execute` follows the blocks: `pc`, `from`, and `mem` with one alloca per name. Both
meet at what can be seen: a leaf or an operation evaluated (with the value of the variable it reads and of its last operand), `discard`, and the
return (with its value and what the caller sees of the out variable). `RunsAsWritten` says that the
next such event is the same for both; `See` then gives it one arbitrary value for both, and likewise the variable that a
call or a store to a part writes. Values are booleans and `++` works on integers of one bit, which is enough for two values to differ.

`SpirvBlocks` continues after code generation: `AnalyzeCFG` finds selection merges, loop merges and continue targets
from names of successors. `Descend` and `Retreat` are the calls and returns of `dfs`: `path` holds the calls that are open, `post` is `postorder`, and
the set `seen` is both together. `EmitFunction` then writes the blocks in reverse postorder with their merge instructions. The forks are compared with the blocks
code generation made for them (`OwnJoin`).

Properties: `TypeOK`; `EveryBlockEnds`; `RunsAsWritten`; `RecognisedMergesAreJoins`; `WrittenInOrder`.

**A finding, and the shapes `Recognised` leaves out.** If the then arm opens with an `if` without `else`, the search through the then block's
successors meets the inner `ifend` first: the run `nested_if` violates `MergesAreJoins`. `Recognised` describes the functions for which the search does find
the right blocks: of two arms, the first leads straight to the join, or the second does and the first does not come to another merge first; a loop's condition and increment
are one block each. With `&&`, `||` or `?:` in a loop's condition the header has no successor named `for.end` and gets no
`OpLoopMerge`. The latch of a loop that never comes round is named by its header but not written, because it is not reached; `WrittenInOrder`
excepts it. `WrittenInOrder` does not depend on `Recognised`: it holds of every function, also where the merge blocks are the wrong ones.

**What the instances leave out.** An entry function with an out variable and an early `return` loses the copy of the variable (`ast.cpp:1585`), and a
declaration that hides an outer variable overwrites it (`ast.cpp:1031`, one table for all scopes). `RunsAsWritten` would be violated by either;
both are listed under "hazards". Compound assignment to an element is not modelled: `makeCompoundAssign` uses the node of `a[i]` for
the load and for the store, so that an index with effects is evaluated twice.

**What `RunsAsWritten` leaves out.** A store `m[i].x = e` to a column of a matrix visits its index twice: `lvalueAddr` makes an address that only the
struct case uses (`ast.cpp:749`), then `MatrixColumnAssigner` visits the index again (`assignment_helpers.cpp:80`). `Visits` is that order, and the blocks
of the model have the index twice. Where the index only reads (`Pure`) that changes nothing: the statements evaluate it once for its value and are allowed to look at it
again (`Evaluated`). Where it has an effect, as in `m[i++].x = e`, the blocks do not do what the statement says. Such functions are among the
instances, for the other properties; `RunsAsWritten` leaves them out by name (`PureIndexes`), and without `PureIndexes` TLC finds it violated.

### 2.7 `StageInterface`

One compilation, phase by phase, of a shader that is a sequence of declarations with one entry function. `reserved` is what
`checkStageVarLocations` gives each variable (the backends do not read it); `globals`, `ins`, `outs`, the parameters (`params`) and the
fields of the output struct (`results`) of the entry function, and its `allocas` are what code generation leaves. For SPIR-V, `placed` collects the decorations: offsets of the push-constant block, bindings of
buffers and samplers, locations of inputs and outputs, and which alloca was taken for the shadow of which input. For RISC-V, `moves` collects what a trampoline copies between scalars of a variable and
slots of the float and double regions, `sizes` what the module announces to the runtime. Then a host calls `cs_dispatch_row`
for a row of any width up to `MaxWidth`. `at` is the loop variable of each phase and `counter` its counter (`nextAuto`, `inputLoc`, `offset`, `binding`). A
type is the order of its scalars, its columns if it is a matrix, its elements if it is an array of vectors, size and alignment. Sema's count of locations
(`LocationSlots`) and the emitter's (`SpvLocationSlots`) are two operators, as they are two functions in the code.

Properties: `TypeOK`; `LocationsDisjoint`; `InterfaceAsReserved` (sema and the SPIR-V emitter count separately, in different orders, and agree where one variable takes as many locations for both); `BindingsApart`; `UniformsApart`;
`PackedInOrder` (a scalar's slot is the number of scalars of its region before it, on every route a value takes); `RowRuns`.

**Restrictions.** The first two are about `Conventional` shaders: the SPIR-V emitter takes vector allocas with names that start with `v` for the outputs of a
vertex shader, only `FragColor` for the output of a fragment shader, and only what is declared before the entry function. Names are distinct, alignments are powers of two,
and there is one entry function.

Arrays of vectors: sema's `locationSlots` counts one location for `in vec2 v[2]` and `spvLocationSlots` two, although sema.cpp:1046 says that they must be in
sync. The instances have such inputs and outputs, and both properties would be violated by them: TLC finds `InterfaceAsReserved` violated without its hypothesis
`SlotsAgree`, and `LocationsDisjoint` violated by `in vec2 a[2]; layout(location = 1) in float b;`, which sema accepts. `InterfaceAsReserved` is therefore about directions
without an array of vectors, `LocationsDisjoint` about those and about directions without an explicit location, where the emitter's own counter keeps arrays apart.

Names of the runtime: a uniform, buffer or sampler that is not read is skipped by the emitter if its name contains `_layout`, `_output_floats`,
`_varying_floats` or `_total_floats` (`emit_spirv_from_ir.h:571-587`). `KindOf` gives such a global no kind (`Hidden`; the set `LayoutNames` says which names those are), so
it gets neither member nor binding. The instances have them, and `BindingsApart` demands a binding of every declared buffer and sampler except these; without
that exception TLC finds it violated.

Explicit and positional bindings, or buffers and samplers, may share a binding; `BindingsApart` speaks of one kind with positional bindings only.

**A finding.** `isShadowAllocaForArg` strips all digits from the end of a name, the programmer's included: the run `shadow_digits` has an input `uv` and
a variable `uv2` of its type, and violates `ShadowsAreParams`.

## 3. Runs

| Run | Bounds | Shows |
|---|---|---|
| `packet_masks` | 2 lanes, 5 open frames | all five properties of `PacketMasks` |
| `packet_masks_exits` | same, `ExitsBeforeLoop = TRUE` | the violation described in 2.1 |
| `uniformity` | 2 lanes, 2 locals, all 5,984 shaders of three statements and 4 longer ones | all six properties of `Uniformity` |
| `tile_raster` | 3 x 3 pixels, `TILE` 2, `PACKET_W` 3, 2 threads, 2 draws | all six properties of `TileRaster` |
| `struct_cycles` | 3 structs, all 512 dependency graphs, with and without arrays | all six properties of `StructCycles` |
| `struct_arrays` | the same graphs, fields arrays or not | the violation of `CyclesDetected` in 2.4 |
| `struct_walk` | all graphs, any stage variable, recursion up to 4 | the violation of `WalkEnds` in 2.4 |
| `parser` | 13 files, each with one token removed, replaced or added in every place, and all expressions of four operands over four operators; `MaxErrors` 2 | all five properties of `Parser` |
| `blocks` | 1,042 functions | all five properties of `Blocks` and `SpirvBlocks` |
| `nested_if` | two-armed ifs with an if in the first arm | the violation in 2.6 |
| `stage_io` | 3,506 shaders, `MaxVaryings` 7, `MaxWidth` 4 | all seven properties of `StageInterface` |
| `shadow_digits` | two shaders | the violation in 2.7 |

*Why the bounds are enough.* Two lanes are one that takes a branch and one that does not; lanes
never exchange values, so a third behaves as one of the two. Five frames are a loop with an
iteration, an `if` in it and a nested loop with its iteration, or an `if` around two nested
loops: every pair of constructs nests in every order, and the counterexample of 2.1 needs four. The proofs cover
every depth and any number of lanes.

Three statements are a loop with its increment, a nested loop, or an exit under an `if`; two locals let one spoil
the other. The longer shaders have what three statements cannot: a loop that turns divergent only in a later
pass and takes an inner loop with it, a chain of marks against source order, a masked loop with exits inside a
uniform one. The proofs cover every shader.

A 3 x 3 framebuffer with 2 x 2 tiles has a full tile and the three kinds of partial tile. The scene has
triangles that span several tiles, overlap, tie in depth, lie beyond the far plane, are culled, reach outside
the framebuffer, and discard fragments that hide others; a tile gives a batch more than `PACKET_W`
fragments, and less. Four and five vertices leave a padded last packet. Two draws exercise
`clear` and accumulation, and the second is followed by the first again, so what static buffers
keep from an earlier draw is seen. Two threads are every conflict a pair of threads can have;
`NoSharedPixel` is proved for any number.

Three structs have every shape of a cycle and of a way into one: a cycle of one, two or three, two that share a
struct, a struct that leads to a cycle and is in none, and a diamond with its second way to a visited struct. The proofs cover any number of structs.

The files of `parser` between them take every branch of every parse function. One wrong token reaches every error path from every place it can be reported at; three operators are
what it takes for levels to rise and fall again. `ReadInFull` holds for every file.

The functions of `blocks` put every jump (`break`, `continue`, `return`, `discard`) and a store in each arm of an `if`, after it, in a loop and in a loop in a loop, for entry
functions, void functions and functions with a value; the conditions nest every operator that has blocks in every other; and
expressions with short circuits, choices, calls with out arguments, `++` and element reads stand as stored value, as index and as the function's result. A third
level of loops adds nothing: the stacks are used at their top only.

The shaders of `stage_io` mix explicit and positional locations of scalars, vectors and matrices in two inputs and three outputs: an explicit one before, inside and after a
matrix. The types `Float`, `Double` and a record of both have every order of the two regions; three uniforms have every pair of a smaller alignment before a larger. Rows of 0 to 4
invocations are proved to stand for all.

*Fairness.* `TileRaster` assumes weak fairness of each thread and of the master. OpenMP's
threads run until the barrier of their loop and never wait for one another inside it, so a thread whose step is
possible eventually takes it; nothing obliges the host to start another draw, so `BeginDraw` has none. `Uniformity`
assumes weak fairness of the scan, which is a call that runs until it returns. `StructCycles` and `Parser` likewise: their steps are one call of `run()` and of `ParseProgram()`. `PacketMasks`
states no liveness: whether a loop ends is up to conditions, which the module leaves free.

*Schedule.* `schedule(static)` is modelled as contiguous chunks of any sizes, ascending with
the thread number. The OpenMP standard leaves chunk sizes open; the ascending order
is what implementations do, and `FinalImage` depends on it.

Deadlock checking is on in every run but `parser`, whose model stops when `ParseProgram` has returned. Each property of a passing run has a mutant in the
module (an operator named in `PROJECT.json`, preceded by a comment that starts with "Mutant of") that changes
the code the way a plausible bug would and violates the property.

## 4. Proofs

`PacketMasksProofs`, for any set of lanes, any depth, under `~ExitsBeforeLoop`:

- `MasksCoherent` (`[]MaskInv`), `TypeCorrect` (`[]TypeOK`), `ExitedLanes`
  (`[]ExitedLanesIdle`), `IdleArms` (`[]IdleArmStaysIdle`).
- The inductive invariant is `IInv == TypeOK /\ MaskInv`. Neither `ExitedLanesIdle` nor
  `IdleArmStaysIdle` is inductive: both say something about every open frame, but a step changes only the masks
  of the top frame or, for `break` and `continue`, of the innermost iteration far below it.
  `WellFormed` relates the frames: `Linked` (a frame's mask is part of the one it restores, which is
  the encloser's), `PointersInnermost` (above the iteration that `em_` names stand only arms),
  `Nested` (who is inside a frame is inside its enclosers) and `IdleEmpty`.
- Argument: opening a frame (`PushWellFormed`), closing one (`PopWellFormed`), changing the top
  one (`ReplaceWellFormed`) and leaving an iteration (`ExitWellFormed`) keep `WellFormed`; each
  action is one of these. `ExitWellFormed` removes the executing lanes from the iteration and all
  arms above it at once, since they share the iteration's `em`. `EnterLoop` is the step that
  needs the assumption: the loop frame's mask must be part of what is inside its encloser.
- `PacketImplementsScalar` (`Spec => ImplementsScalar`). The refinement maps a lane to the frames whose mask it is in, so a step of the emitted code is a
  step of all lanes at once: pushing, popping or replacing the top frame adds, removes or replaces one abstract scope for the lanes it holds
  (`InsidePush`, `InsidePop`, `InsideReplace`, `ScopesPush`), and a `break` or `continue` removes the innermost iteration and all above it (`ExitWithin`).
- It rests on `IInv` and one more invariant, `TakenInv`: the mask of a then arm is the saved mask cut with the condition. Without it the
  lanes that take the else arm could not be told from the frame that is left.

`UniformityProofs`, for any lanes and locals and every shader that nests properly
(`ShadersAssumption`):

- `LocalsUniform`, `LoopsConverge`, `SlotsWrittenByAll`, `TypeCorrect`.
- The scan's invariant: in a pass that has marked nothing yet, every statement seen is `Settled`
  (an unmarked local has a uniform value in uniform control flow; a uniform loop has a uniform condition, no exits and a
  uniform encloser). `ScanSettles` is the step that matters: the verdict on a statement depends only
  on the statement it stands in, which comes before it, so no later step of the pass unsettles it.
  When a pass ends unchanged, all statements are settled.
- The run's invariant: unmarked locals are the same in all lanes, and lanes are `Together`: every uniform loop that control is in
  holds all lanes. `AfterOutside` says that control never enters a statement sideways;
  `AllActive` that a statement in no `if` and no divergent loop is executed by all; `ExitKeeps`
  that break and continue only empty ifs and divergent loops.
- `LeastFound` (`[]LeastSolution`). `LeastInv`: nothing was given up that some solution of the equations keeps, which is why the result is
  the least; and in a pass that has marked nothing, what is still taken for uniform satisfies the equations for the statements
  seen. The second half is one step because a pass looks at what is outside a statement first (`EnclosingUp`, `UnderOutside`): no induction over the nesting is needed.

`TileRasterProofs`, for every framebuffer and tile size, packet width, number of threads and
scene:

- `NoRace` (`[]NoSharedPixel`), from `RaceInv`: a tile is untaken or in one thread's hands, and
  a thread's remaining and batched fragments lie in its tile. The second half is why the flush
  at the end of a tile is not only about completeness: a batch that outlived its tile
  would write to pixels another thread owns.
- `TilesDisjoint`: a pixel lies in one tile (integer division with partial edge tiles).
- `VerticesShaded` (`[]ReadsShaded`): `VertexInv` says that a vertex is shaded or in a chunk of some thread that has not come to it, so that behind the
  barrier all are shaded; the chunks cover the loop whatever their sizes (`SplitsCover`), and a vertex is in the step that its quotient by `PACKET_W` names.
- `RasterTypes` (`[]TypeOK`), from `RasterInv == RaceInv /\ VertexInv /\ BinInv /\ ScanInv /\ BufferTypes`.
- `BinInv` is about order and completeness: thread after thread and setup after setup the triangles come in submission order (`Passed`, `Sorted`), each
  that is not culled is set up by one thread (`SetUp`) and is in the bin of every tile its box meets (`Binned`). It is inductive only
  with `Chunks`: a thread's chunk ends where the next one starts.
- `RasterImplementsInOrder` (`Spec => ImplementsInOrder`). A pixel is in one tile (`TileOfPixel`), and a triangle that covers it was put in that
  tile's bins (`BoxCoversTile`), so a scan that takes a tile has all its pixels' fragments (`ScanComplete`) and no others (`ScanSound`) in order (`ScanOrder`).
  The fragment a scan reaches is therefore the smallest pending one of its pixel (`NextFragment`). Its colour shows at once, or through the one batch that
  holds fragments of the pixel (`OneBatch`); flushing a batch changes nothing that is shown (`NewBatch`).
- `PictureInOrder` (`[]FinalImage`). `FinalImage` says what a picture is by all fragments at once and without an order of steps, so it is independent of
  `InOrderRaster`. The invariant `PictureInv` says it of the fragments a pixel has taken so far (`Taken`), and that the pending ones come later
  than all of them. It speaks of the abstract state only, so the refinement leaves three steps to look at; `TakesOne` is the one that matters: a fragment that comes after
  all others is in front of them exactly if it is nearer than the depth buffer says, and then the latest.

`StructCyclesProofs`, for every finite set of structs and every program, arrays and recursive structs included:

- `Complete` (`[]NoCycleLeft`), `Justified` (`[]ReportsJustified`), `SearchSound` (`[]SearchInv`), `TypeCorrect`, and
  `CyclicRejected`: a program with a cyclic dependency graph does not pass without a report.
- The invariant: `FramesInv` says that the stack is a path of distinct structs and that what a frame has looked at is finished or on top of it; the finished structs are `Harmless`, that is closed and without
  a cycle; `GraphInv` says that every struct searched from lies in some harmless set.
- Argument: a struct that is left joins the finished ones (`JoinHarmless`); a search that ends has shown its finished structs harmless; taking
  dependencies away from a reported struct harms nothing (`ShrinkHarmless`), so that earlier searches stay valid although the graph shrinks under them; when every struct is in a harmless
  set, no cycle is left (`HarmlessAcyclic`). For `Justified`, the frames of a search that finds a cycle are themselves a cycle.
- `DoubleReported` (`[]DoubleFound`). The recursion of the walk needs no induction: the `Clean` structs are the members of any closed set of structs without a
  double, and a struct all of whose fields are clean is clean (`CleanJoins`). `WalkInv` says of every frame that the struct is `Inside` the stage
  variable's type and that the fields it is done with hold no double, except that one of them may be the struct of the frame above.

`ParserProofs`, for every set of files and every limit on errors:

- `ReadInFull` (`[]AcceptedMeansUsed`). The invariant `UseInv`: as long as no error was counted, every token before `pos` (in a construct: before its `start`) is in a
  construct of the program or is a stray brace (`NothingLost`, `Covered`). It is inductive because whatever skips tokens has counted an error first: `AbandonCounts`, `Failed`; what
  is accepted covers its tokens (`AcceptCovers`), and the steps inside a construct only move on.
- `TypeCorrect` (`[]TypeOK`). That `exprPrecedence` is popped as often as pushed is not visible in one state: it depends on what `todo` still holds. So
  `ParseInv` says that `todo` is `Balanced`: read word by word, each changes the number of open levels as it `Fits`, from the length of `prec` to none, and
  the words that stand for statements and declarations are met with none open (`Ground`), where a failed `for` initialiser may forget them all. One lemma per
  group of parse functions shows that a production is as good as the word it replaces (`Good`, `CallGood`, from `Carries`). The end of the input is taken
  by nothing (`MatchTakes`), so that the parser never reads past it.
- `Advance` (`ConstructsAdvance`). As long as a construct has taken no token, what is left to do is bound to take one (`Opening`, kept by `CallOpening` and
  `SilentStep`): so an accepted construct is not empty. A construct that fails at its first token did not begin with `fn`, `@` or `struct`
  (`KeywordTaken`), and any other token `synchronize()` passes (`SyncMoves`).

`BlocksProofs`, for every set of functions and syntax trees:

- `BlocksEnd` (`[]EveryBlockEnds`). Which blocks are open is not visible in `blocks` alone: a construct begins several and ends them steps later, with
  any number of constructs inside it in between, or leaves one for the construct around it. So `Underway` keeps a `Ledger`: every block that is not ended has an
  owner, the insertion point or one of the `frames`, and each frame owns what its construct still has to end at the `Stages` it has come to (`Owns`).
- The other half is that what is left to do brings each construct there: `todo` is a `Path`, word by word, from the stages that the frames
  are at to none (`Fits`: what a node or the rest of one does to the stages, `Shift`). A jump ends the insertion block, which is then not the ledger's
  to end; what follows it in a list is not generated (`Loose`, `Known`), and the `BrIfOpen` of the construct around it must see that.
- One lemma per handler (`Kept...`) shows that it turns a ledger into a ledger (`HandedOver`, `Moved`) and keeps the path. `IfEnd` is the hard one: it
  ends all arms that fell through at once (`CloseAll`) or none. `EndOfFunction` is where path and ledger run out together: only
  the insertion block can be open, and `FunctionEnd` ends it; `CopyOuts` puts its copies before the terminator (`CopyOutsEnds`).
- The invariant, `EndsInv`, says more of the finished blocks, for the next module: they are `Sound`. A branch goes to a block that is begun further up
  (`Under`: `of` leads there), into a loop's header only from before the loop or from what its latch comes to, and a phi names blocks that are reached
  whenever its own block is (`Follows`). While code is generated, a branch or phi that is still to come names a block kept in a C++ local or on the
  break and continue stacks, so `Tied` says of every frame where its blocks were begun (`Stands`), that the insertion block lies within its
  construct (`Place`), and `Exits` that the two stacks have one entry for each loop whose body is under way. Operators are the case that needs
  the order of the frames: nothing that jumps may stand inside an operand (`Firm`, `Choosing`), or the phi would name a block that is not reached.

`SpirvBlocksProofs`, for the same functions:

- `WordsAreInOrder` (`[]WrittenInOrder`). The invariant is `WordsInv == EndsInv /\ SearchInv`. `Searched` is what the depth-first search keeps: a block
  is called for once, is returned from after all its targets were called for, and the block that begins it is above it on the path or is returned
  from later. `SearchDescends` needs `Under` for it: a target is begun by a block that the one branching to it leads up to by `of`, and all those
  are on the path. At the end of the search the path is empty, so reversing `post` puts every block after the one that begins it, and all
  targets are written (`WordsInOrder`).
- `Found` is what `analyzeCFG` gets from names alone: merge blocks lie one or two edges from the header, and a continue target branches to its
  header. That makes every merge block one that is written, and a continue target too if the loop's own latch is, since it then is the block before
  the loop or `Follows` the latch (`MergeClosed`); it does not make them the right ones, which is `RecognisedMergesAreJoins`.

`StageInterfaceProofs`, for every set of shaders and whatever the types, arrays of vectors with the exclusions of 2.7:

- `SemaKeepsLocationsApart`: without an error no two declarations of one direction overlap in sema's table, and each has all its locations.
  Overlap of two ranges has to be found by trying the locations of one against the entries (`OneByOne`); `ReservedInv` adds that locations are
  natural numbers, which the counter of the pass must be for positional ones.
- `UniformsNeverOverlap` (`[]UniformsApart`): every member ends at or before the running offset (`BlockInv`), and rounding up to an
  alignment never goes back (`AlignUpForward`, from the named assumption that alignments are powers of two).
- `RowsRunInFull` (`[]RowRuns`): the invocations so far are 0, 1, ... and, while the row is running, fewer than its width (`RowInv`).
- `PlacesAsReserved` (`[]InterfaceAsReserved`) and `PlacesApart` (`[]LocationsDisjoint`). Sema counts over declarations, the SPIR-V emitter over the parameters
  and the allocas of the entry function, which hold builtins and locals too. What both are compared with is a function of the declarations: `Pos` is the
  counter after the first n of them, `Entries` what they occupy. `TableInv` says that sema's counter and table are those of the declarations it has passed;
  `CodegenInv` that the parameters and allocas `Follow` the declarations, that is list those of their direction in the same order, with
  only `Foreign` ones before, between and after; `PlacedInv` that the emitter's are those of the declarations it has `Passed`. Both functions are defined for either
  count (`Slots`): `TableInv` speaks of sema's, `PlacedInv` of the emitter's, for all types, and `SlotsAgree` makes the two equal (`TablesAgree`). `PlacesApart` then follows
  from `SemaKeepsLocationsApart`; in a direction without explicit locations it follows from the emitter's counter alone (`CountedApart`), arrays of vectors included.
- `PacksInOrder` (`[]PackedInOrder`): at any point the offsets are the numbers of scalars of their region passed (`Leaves`), whether they are counted scalar by
  scalar or variable by variable (`PackInv`). It needs `CountAll` of a list to be the sum over its variables, shown by cardinalities of sets of scalars.
- `BindsApart` (`[]BindingsApart`): a positional binding is below the running counter of its kind, which then passes it (`BindInv`). It claims a binding for
  every declared buffer and sampler that is not `Hidden`.
- `InterfaceTypes` (`[]TypeOK`), with `CountInv` for the counters.

Only model-checked, and why:

- `DrawsFinish`, `AnalysisReturns`, `RunReturns` and `ParserReturns`: liveness under fairness is beyond the proof system.
- `TreeIsParse`, `RunsAsWritten` and `RecognisedMergesAreJoins` are about recursions over trees: what a parse of the tokens is, what a statement does, how
  its first block goes on (`Opening`, `Recognised`). They would need inductions over data.
- `TypeOK` of `Blocks`: for code generation, `EndsInv` states more of the blocks and the stacks. For the run it would take
  `RunsAsWritten`: `See` moves the run of the blocks on with the event that the run of the statements has come to, and only that both have come to the same
  one says that there is such a place in the block.

## 5. Not modelled

- A `discard` inside a loop: `live_` is an SSA value that then does not dominate the loop's
  exit, and the module fails verification in the driver before it can run.
- Vectorised expressions, interpolation, edge functions, filtering, matrix builtins: floating
  point, no control.
- In `PacketMasks`, the uniformity analysis: `EnterUniformLoop` takes its result (only loops that no
  `if` and no masked loop encloses) and that its verdict is right (one condition for all lanes), which is what
  `Uniformity` shows.
- In `Uniformity`, outputs (always divergent) and `discard` (a packet goes on for discarded lanes).
- Depth and framebuffer of changing size (`render_pipeline` then resets the depth but not the
  colour), framebuffers wider than `int16_t`, index buffers that point outside the vertex buffer.
- In `StructCycles`, a second struct of the same name (reported, and dropped) and the passes between the search and the walk, which read struct
  declarations without following their fields.
- In `Blocks`, the values of operators, builtins and constructors, the checks of LLVM types that a function which passed sema does not fail, parameters apart from one out
  variable, and the shapes named in 2.6.
- In `SpirvBlocks`, ids, types, constants, and how single instructions are translated.
- In `StageInterface`, several entry functions, the host's side of the interface (what it binds where).
- The lexer, the uniquing of types, const roots and implicit conversions, texture sampling, the sincos pass: see the plan.
- Test hosts, Vulkan runners, scripts, shaders, assets and vendored code.

## 6. Plan

What is left, in the order of what it would add:

1. `SincosPairs`: the rewriting of chained pairs over every map order (`sincos_opt.cpp:68`).
2. `PacketProgram`: programs as data under the emitted masks, with conditions: lanes that have discarded and keep a packet iterating, the value of `live_`
   after a loop that discards.
3. Compound assignment to elements in `Blocks`, with an index that has effects; it is expected to violate `RunsAsWritten` (see the hazards).
4. `TypeContext`: uniquing of types; proof that equal descriptions give one object. `Scanner`: every character is consumed once.
5. `TexSampler`: clamping of texel indices.
6. Proofs: `RunsAsWritten` for the statements alone, without the operators that make blocks, as a first step to `TypeOK` of `Blocks`.
