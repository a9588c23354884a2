--------------------------- MODULE StageInterface ---------------------------
(***************************************************************************)
(* One compilation of a shader by irgen_spirv or irgen_riscv, as far as    *)
(* its interface goes: the locations sema reserves for stage variables,    *)
(* the globals and the entry function of code generation, then either the  *)
(* bindings, offsets and locations of the SPIR-V or the slots that the     *)
(* trampolines of the flat ABI move values to and from.                    *)
(*                                                                         *)
(* A type is a record: leaves are its scalars in the order in which the    *)
(* recursions over it reach them ("d" a double, "f" any other); cols is 0  *)
(* unless it is a matrix, vecs 0 unless it is an array of so many vectors; *)
(* size and align are in bytes, align being that of a block member;        *)
(* floatVec says that it is a vector of floats.                            *)
(***************************************************************************)
EXTENDS Integers, Sequences, FiniteSets

CONSTANTS
  Shaders,       \* [stage, target, decls, locals, unread]
  VNames,        \* names that start with v
  LayoutNames,   \* names with _layout, _output_floats, _varying_floats or _total_floats in them
  Base,          \* a name -> the name without the digits it ends in
  MaxVaryings,   \* PIPELINE_MAX_VARYINGS
  MaxWidth       \* bound: widest row that is dispatched

Type == [leaves : Seq({"f", "d"}), cols : Nat, vecs : Nat, size : Nat, align : Nat \ {0},
         floatVec : BOOLEAN]
Variable(kinds) == [kind : kinds, name : STRING, type : Type, loc : Int]
Declaration == Variable({"in", "out", "uniform", "buffer", "sampler", "entry"})

\* Every type has scalars, and an alignment that is a power of two; a shader has one entry
\* function, and nothing else in it has the name of one of its stage variables.
ASSUME ShadersAssumption == \A s \in Shaders : s.decls \in Seq(Declaration) /\ s.locals \in Seq(Variable({"local"}))
ASSUME NamesAssumption ==
  \A s \in Shaders :
    /\ \A i \in DOMAIN s.decls : s.decls[i].type.leaves # <<>> /\ \E n \in 0 .. 12 : s.decls[i].type.align = 2 ^ n
    /\ Cardinality({i \in DOMAIN s.decls : s.decls[i].kind = "entry"}) = 1
    /\ \A i, j \in DOMAIN s.decls : s.decls[i].kind \in {"in", "out"} /\ i # j => s.decls[i].name # s.decls[j].name
    /\ \A i \in DOMAIN s.decls, j \in DOMAIN s.locals : s.decls[i].name # s.locals[j].name
ASSUME BoundsAssumption == MaxVaryings \in Nat /\ MaxWidth \in Nat

VARIABLES
  shader, phase,
  at,            \* the declaration, parameter or variable that is next in this phase
  reserved,      \* used of checkStageVarLocations: what each declaration was given
  counter,       \* nextAuto, inputLoc, outLoc, binding, offset: the counter of the phase
  errors,        \* errorCount_
  ins, outs,     \* StageInputVars, StageOutputVars
  globals,       \* globals of the module, in order
  params,        \* parameters of the entry function that are stage inputs (paramTys)
  results,       \* fields of its output struct (outVarTypes)
  allocas,       \* its allocas, in the order in which they were made (those of its
                 \* parameters, of the outputs, of the body's variables)
  placed,        \* decorations: where the SPIR-V puts what
  sizes,         \* vs_input_floats, fs_output_doubles, ...: slots of each region, for the runtime
  moves,         \* what the trampoline moves: [dir, var, leaf, region, slot], var being
                 \* the number of a parameter or field
  leaf, fOff, dOff,   \* the leaf that is next, and the next slot of each region
  width, ran     \* cs_dispatch_row: its argument, and the invocations so far
semaVars == <<reserved, errors>>
codegenVars == <<ins, outs, globals, params, results, allocas>>
spirvVars == <<placed>>
flatVars == <<sizes, moves, leaf, fOff, dOff>>
rowVars == <<width, ran>>
vars == <<shader, phase, at, counter, semaVars, codegenVars, spirvVars, flatVars, rowVars>>

-----------------------------------------------------------------------------
Decls == shader.decls
Node == Decls[at]
Elems(s) == {s[i] : i \in DOMAIN s}
Overlap(a, m, b, n) == a < b + n /\ b < a + m

\* Locations a stage variable takes: as sema counts them, and as the SPIR-V emitter does.
LocationSlots(t) == IF t.cols > 0 THEN t.cols ELSE 1
SpvLocationSlots(t) == IF t.cols > 0 THEN t.cols ELSE IF t.vecs > 0 THEN t.vecs ELSE 1

\* typeFloatCount and typeDoubleCount
CountOf(t, region) == Cardinality({i \in DOMAIN t.leaves : t.leaves[i] = region})
\* Sum of the floats, or doubles, of a sequence of variables.
Scalars(vs) == UNION {{i} \X DOMAIN vs[i].type.leaves : i \in DOMAIN vs}
CountAll(vs, region) == Cardinality({p \in Scalars(vs) : vs[p[1]].type.leaves[p[2]] = region})

\* Mutant of Begin: elements are counted from zero.
BeginAtZero(p) == phase' = p /\ at' = 0 /\ counter' = 0

\* The next phase starts at its first element with its counter at zero.
Begin(p) == phase' = p /\ at' = 1 /\ counter' = 0
Pass == at' = at + 1 /\ UNCHANGED <<phase, counter>>
Stop(p) == phase' = p /\ UNCHANGED <<at, counter>>

-----------------------------------------------------------------------------
(* Semantic analysis. *)

Checking(dir) == phase = IF dir = "in" THEN "sema in" ELSE "sema out"
Location(d) == IF d.loc >= 0 THEN d.loc ELSE counter
Entry(name, loc, slots) == [name |-> name, loc |-> loc, slots |-> slots]

\* The k-th location of d is another variable's.
Taken(dir, d, k) == \E r \in reserved[dir] : r.name # d.name /\ Overlap(Location(d) + k, 1, r.loc, r.slots)

\* Mutant of Collides: only the first location is compared.
CollidesAtFirst(dir, d) == Taken(dir, d, 0)

Collides(dir, d) == \E k \in 0 .. LocationSlots(d.type) - 1 : Taken(dir, d, k)

\* Locations are taken one by one up to the first that is another's.
Given(dir, d) == Cardinality({k \in 0 .. LocationSlots(d.type) - 1 : \A j \in 0 .. k : ~Taken(dir, d, j)})

\* checkDir: a variable of the direction is given locations ...
ReserveLocations(dir) ==
  /\ Checking(dir) /\ at \in DOMAIN Decls /\ Node.kind = dir
  /\ errors' = IF Collides(dir, Node) THEN errors + 1 ELSE errors
  /\ reserved' = [reserved EXCEPT ![dir] = @ \cup {Entry(Node.name, Location(Node), Given(dir, Node))}]
  /\ counter' = IF Node.loc >= 0 THEN counter ELSE counter + LocationSlots(Node.type)
  /\ at' = at + 1
  /\ UNCHANGED <<shader, phase, codegenVars, spirvVars, flatVars, rowVars>>

\* ... and everything else is passed over.
SkipDeclaration(dir) ==
  /\ Checking(dir) /\ at \in DOMAIN Decls /\ Node.kind # dir
  /\ Pass
  /\ UNCHANGED <<shader, semaVars, codegenVars, spirvVars, flatVars, rowVars>>

\* checkStageVarTypes: the two ends of an interpolated variable.
Interpolated(d) == \/ shader.stage = "vertex" /\ d.kind = "out"
                   \/ shader.stage = "fragment" /\ d.kind = "in"
Doubles == {d \in Elems(Decls) : Interpolated(d) /\ "d" \in Elems(d.type.leaves)}

NextCheck ==
  /\ phase = "sema in" /\ at \notin DOMAIN Decls
  /\ Begin("sema out")
  /\ UNCHANGED <<shader, semaVars, codegenVars, spirvVars, flatVars, rowVars>>

SemaEnd ==
  /\ phase = "sema out" /\ at \notin DOMAIN Decls
  /\ errors' = errors + Cardinality(Doubles)
  /\ IF errors' > 0 THEN Stop("failed") ELSE Begin("codegen")
  /\ UNCHANGED <<shader, reserved, codegenVars, spirvVars, flatVars, rowVars>>

-----------------------------------------------------------------------------
(* Code generation, declaration by declaration. *)

Declaring(kinds) == phase = "codegen" /\ at \in DOMAIN Decls /\ Node.kind \in kinds
Alloca(v, of) == [name |-> v.name, type |-> v.type, loc |-> v.loc, of |-> of]
Vec4 == [leaves |-> <<"f", "f", "f", "f">>, cols |-> 0, vecs |-> 0, size |-> 16, align |-> 16,
         floatVec |-> TRUE]

DeclareStageVar ==
  /\ Declaring({"in", "out"})
  /\ ins' = IF Node.kind = "in" THEN Append(ins, Node) ELSE ins
  /\ outs' = IF Node.kind = "out" THEN Append(outs, Node) ELSE outs
  /\ Pass
  /\ UNCHANGED <<shader, semaVars, globals, params, results, allocas, spirvVars, flatVars, rowVars>>

\* A uniform or sampler that is there must be of the same type; a buffer just keeps its global.
Clash(old) == Node.kind # "buffer" /\ \E g \in old : g.type # Node.type

\* A binding replaces the one that was recorded.
Bind(old) == [i \in DOMAIN globals |->
                IF globals[i] \in old THEN [globals[i] EXCEPT !.loc = Node.loc] ELSE globals[i]]

DeclareGlobal ==
  /\ Declaring({"uniform", "sampler", "buffer"})
  /\ LET old == {g \in Elems(globals) : g.name = Node.name}
     IN  /\ IF Clash(old) THEN Stop("failed") ELSE Pass
         /\ globals' = IF old = {} THEN Append(globals, Node)
                       ELSE IF Node.loc >= 0 THEN Bind(old) ELSE globals
  /\ UNCHANGED <<shader, semaVars, ins, outs, params, results, allocas, spirvVars, flatVars, rowVars>>

\* The entry point sees the stage variables declared so far: inputs are parameters with an
\* alloca each, outputs allocas; the variables of the body come last. A compute shader has neither.
Position == [name |-> "gl_Position", type |-> Vec4, loc |-> -1]

GenerateEntry ==
  /\ Declaring({"entry"})
  /\ LET all(vs, of) == [i \in DOMAIN vs |-> Alloca(vs[i], of)]
         builtin == IF shader.stage = "vertex" THEN <<Alloca(Position, "out")>> ELSE <<>>
     IN  /\ params' = IF shader.stage = "compute" THEN <<>> ELSE all(ins, "in")
         /\ results' = IF shader.stage = "compute" THEN <<>> ELSE builtin \o all(outs, "out")
         /\ allocas' = params' \o results' \o all(shader.locals, "local")
  /\ Pass
  /\ UNCHANGED <<shader, semaVars, ins, outs, globals, spirvVars, flatVars, rowVars>>

\* The drivers part here.
CodegenEnd ==
  /\ phase = "codegen" /\ at \notin DOMAIN Decls
  /\ Begin(IF shader.target = "spirv" THEN "uniforms" ELSE "trampoline")
  /\ UNCHANGED <<shader, semaVars, codegenVars, spirvVars, flatVars, rowVars>>

-----------------------------------------------------------------------------
(* SPIR-V: uniforms in one push-constant block, buffers and samplers at bindings. *)

\* isUniformGlobal, isSamplerGlobal, isSSBOGlobal: a sampler is known by the calls that read it;
\* anything else with a name like those of the runtime's constants is taken for one of them.
ReadAsSampler(g) == g.kind = "sampler" /\ g.name \notin shader.unread
Hidden(g) == g.name \in LayoutNames /\ ~ReadAsSampler(g)
KindOf(g) == IF Hidden(g) THEN "none"
             ELSE IF g.kind = "sampler" /\ ~ReadAsSampler(g) THEN "buffer" ELSE g.kind

Visiting(p, kind) == phase = p /\ at \in DOMAIN globals /\ KindOf(globals[at]) = kind
Put(where, item) == placed' = [placed EXCEPT ![where] = @ \cup {item}]

\* (n + a - 1) & ~(a - 1), for a power of two
AlignUp(n, a) == ((n + a - 1) \div a) * a
Member(g, offset) == [name |-> g.name, offset |-> offset, size |-> g.type.size]

\* Mutant of AnalyzeUniform: the padding before a member is forgotten in the offset.
AnalyzeUniformUnpadded ==
  /\ Visiting("uniforms", "uniform")
  /\ Put("uniforms", Member(globals[at], AlignUp(counter, globals[at].type.align)))
  /\ counter' = counter + globals[at].type.size
  /\ at' = at + 1
  /\ UNCHANGED <<shader, phase, semaVars, codegenVars, flatVars, rowVars>>

AnalyzeUniform ==
  /\ Visiting("uniforms", "uniform")
  /\ LET offset == AlignUp(counter, globals[at].type.align)
     IN  Put("uniforms", Member(globals[at], offset)) /\ counter' = offset + globals[at].type.size
  /\ at' = at + 1
  /\ UNCHANGED <<shader, phase, semaVars, codegenVars, flatVars, rowVars>>

\* Mutant of Bound: explicit bindings are not looked at.
BoundInOrder(g) == counter

Bound(g) == IF g.loc >= 0 THEN g.loc ELSE counter

Resource(kind) == IF kind = "buffer" THEN "buffers" ELSE "samplers"
AnalyzeResource(kind) ==
  /\ Visiting(Resource(kind), kind)
  /\ Put("bindings", [name |-> globals[at].name, kind |-> kind, binding |-> Bound(globals[at])])
  /\ counter' = IF globals[at].loc >= 0 THEN counter ELSE counter + 1
  /\ at' = at + 1
  /\ UNCHANGED <<shader, phase, semaVars, codegenVars, flatVars, rowVars>>

AnalyzeBuffer == AnalyzeResource("buffer")
AnalyzeSampler == AnalyzeResource("sampler")

SkipGlobal ==
  /\ \/ \E k \in {"none", "buffer", "sampler"} : Visiting("uniforms", k)
     \/ \E k \in {"none", "uniform", "sampler"} : Visiting("buffers", k)
     \/ \E k \in {"none", "uniform", "buffer"} : Visiting("samplers", k)
  /\ Pass
  /\ UNCHANGED <<shader, semaVars, codegenVars, spirvVars, flatVars, rowVars>>

AnalysisEnd ==
  /\ at \notin DOMAIN globals
  /\ \/ phase = "uniforms" /\ Begin("buffers")
     \/ phase = "buffers" /\ Begin("samplers")
     \/ phase = "samplers" /\ Begin("inputs")
  /\ UNCHANGED <<shader, semaVars, codegenVars, spirvVars, flatVars, rowVars>>

-----------------------------------------------------------------------------
(* SPIR-V: stage variables at locations (emitStageIO). *)

\* Mutant of Advance: a matrix takes a location more than it has columns.
AdvanceTooFar(a) ==
  IF a.loc >= 0 THEN counter
  ELSE counter + SpvLocationSlots(a.type) + (IF SpvLocationSlots(a.type) > 1 THEN 1 ELSE 0)

Advance(a) == IF a.loc >= 0 THEN counter ELSE counter + SpvLocationSlots(a.type)

At(a, positional) == IF a.loc >= 0 THEN a.loc ELSE positional

DeclareInput ==
  /\ phase = "inputs" /\ at \in DOMAIN params
  /\ Put("in", Entry(params[at].name, At(params[at], counter), SpvLocationSlots(params[at].type)))
  /\ counter' = Advance(params[at])
  /\ at' = at + 1
  /\ UNCHANGED <<shader, phase, semaVars, codegenVars, flatVars, rowVars>>

InputsEnd ==
  /\ phase = "inputs" /\ at \notin DOMAIN params
  /\ Begin("outputs")
  /\ UNCHANGED <<shader, semaVars, codegenVars, spirvVars, flatVars, rowVars>>

\* What an alloca is goes by its name. It is taken for that of an input of its type whose name
\* it has but for digits (isShadowAllocaForArg) ...
ShadowOf(a) == {p \in Elems(params) : p.name = Base[a.name] /\ p.type = a.type}

\* ... for an output if it is called FragColor, or if it is a float vector or a matrix in a
\* vertex shader and starts with v.
IsVarying(a) == /\ shader.stage = "vertex" /\ a.name \in VNames
                /\ a.type.floatVec \/ a.type.cols > 0
IsColor(a) == a.name = "FragColor" /\ a.of # "in"

\* The alloca of an input is not called like the input any more: no location is recorded for it.
Renamed(a) == IF a.of = "in" THEN [a EXCEPT !.loc = -1] ELSE a

\* The allocas stand in the block last one first, and are gone through from the end.
DeclareOutput ==
  /\ phase = "outputs" /\ at \in DOMAIN allocas
  /\ LET a == Renamed(allocas[at])
         slots == SpvLocationSlots(a.type)
         out == IF IsVarying(a) THEN {Entry(a.name, At(a, counter), slots)}
                ELSE IF IsColor(a) THEN {Entry(a.name, At(a, 0), slots)} ELSE {}
     IN  /\ placed' = [placed EXCEPT !["out"] = @ \cup out,
                                     !["shadows"] = @ \cup {<<a.name, p.name>> : p \in ShadowOf(a)}]
         /\ counter' = IF IsVarying(a) THEN Advance(a) ELSE counter
  /\ at' = at + 1
  /\ UNCHANGED <<shader, phase, semaVars, codegenVars, flatVars, rowVars>>

OutputsEnd ==
  /\ phase = "outputs" /\ at \notin DOMAIN allocas
  /\ Stop("written")
  /\ UNCHANGED <<shader, semaVars, codegenVars, spirvVars, flatVars, rowVars>>

-----------------------------------------------------------------------------
(* RISC-V: trampolines between the entry function and the flat ABI. *)

\* The position is not a varying.
VaryingFloats == CountAll(Tail(results), "f")
Sizes(inF, inD, outF, outD) == [in |-> [f |-> inF, d |-> inD], out |-> [f |-> outF, d |-> outD]]

\* A vertex shader with too many varyings is refused; a fragment shader without outputs and a
\* compute shader move nothing. How many varyings a fragment shader reads is not announced.
Trampoline ==
  /\ phase = "trampoline"
  /\ CASE shader.stage = "vertex" ->
            IF VaryingFloats > MaxVaryings THEN Stop("failed") /\ UNCHANGED sizes
            ELSE /\ Begin("load")
                 /\ sizes' = Sizes(CountAll(params, "f"), CountAll(params, "d"), CountAll(results, "f"), 0)
       [] shader.stage = "fragment" ->
            IF results = <<>> THEN Stop("written") /\ UNCHANGED sizes
            ELSE /\ Begin("load")
                 /\ sizes' = Sizes(0, 0, CountAll(results, "f"), CountAll(results, "d"))
       [] OTHER -> Stop("written") /\ UNCHANGED sizes
  /\ UNCHANGED <<shader, semaVars, codegenVars, spirvVars, moves, leaf, fOff, dOff, rowVars>>

Moving(p, list) == phase = p /\ at \in DOMAIN list
IsLast(v) == leaf = Len(v.type.leaves)
Move(dir, v, region, slot) ==
  /\ moves' = moves \cup {[dir |-> dir, var |-> at, leaf |-> leaf, region |-> region, slot |-> slot]}
  /\ IF IsLast(v) THEN leaf' = 1 /\ at' = at + 1 ELSE leaf' = leaf + 1 /\ at' = at
  /\ UNCHANGED <<shader, phase, counter, semaVars, codegenVars, spirvVars, sizes, rowVars>>

\* loadValueSplit and flattenValueSplit: each region has its running offset.
MoveSplit(dir, v) ==
  IF v.type.leaves[leaf] = "d"
  THEN Move(dir, v, "d", dOff) /\ dOff' = dOff + 1 /\ UNCHANGED fOff
  ELSE Move(dir, v, "f", fOff) /\ fOff' = fOff + 1 /\ UNCHANGED dOff

LoadSplit(v) == MoveSplit("in", v)
StoreSplit(v) == MoveSplit("out", v)

LoadAttribute ==
  /\ Moving("load", params) /\ shader.stage = "vertex"
  /\ LoadSplit(params[at])

\* Mutant of LoadVarying: the base moves on by one variable, not by its floats.
LoadVaryingByOne ==
  /\ Moving("load", params) /\ shader.stage = "fragment"
  /\ Move("in", params[at], "f", fOff + leaf - 1)
  /\ fOff' = IF IsLast(params[at]) THEN fOff + 1 ELSE fOff
  /\ UNCHANGED dOff

\* loadFieldFromFlat: every variable is read from a base of its own.
LoadVarying ==
  /\ Moving("load", params) /\ shader.stage = "fragment"
  /\ Move("in", params[at], "f", fOff + leaf - 1)
  /\ fOff' = IF IsLast(params[at]) THEN fOff + CountOf(params[at].type, "f") ELSE fOff
  /\ UNCHANGED dOff

LoadEnd ==
  /\ phase = "load" /\ at \notin DOMAIN params
  /\ Begin("store") /\ fOff' = 0 /\ dOff' = 0
  /\ UNCHANGED <<shader, semaVars, codegenVars, spirvVars, sizes, moves, leaf, rowVars>>

\* flattenField: one region, whatever the type of the leaf.
StoreVarying ==
  /\ Moving("store", results) /\ shader.stage = "vertex"
  /\ Move("out", results[at], "f", fOff)
  /\ fOff' = fOff + 1 /\ UNCHANGED dOff

StoreOutput ==
  /\ Moving("store", results) /\ shader.stage = "fragment"
  /\ StoreSplit(results[at])

StoreEnd ==
  /\ phase = "store" /\ at \notin DOMAIN results
  /\ Stop("written")
  /\ UNCHANGED <<shader, semaVars, codegenVars, spirvVars, flatVars, rowVars>>

-----------------------------------------------------------------------------
(* cs_dispatch_row of the compiled compute shader, called by a host for a row of some width. *)

Dispatch ==
  /\ phase = "written" /\ shader.stage = "compute" /\ shader.target = "riscv"
  /\ \E w \in 0 .. MaxWidth : width' = w
  /\ ran' = <<>>
  /\ Stop("row")
  /\ UNCHANGED <<shader, semaVars, codegenVars, spirvVars, flatVars>>

\* Mutant of Invoke: the bound is compared with the invocation that has run.
InvokeTooMany ==
  /\ phase = "row"
  /\ ran' = Append(ran, Len(ran))
  /\ IF Len(ran) < width THEN Stop("row") ELSE Stop("done")
  /\ UNCHANGED <<shader, semaVars, codegenVars, spirvVars, flatVars, width>>

\* The bound is tested after the call.
Invoke ==
  /\ phase = "row"
  /\ ran' = Append(ran, Len(ran))
  /\ IF Len(ran) + 1 < width THEN Stop("row") ELSE Stop("done")
  /\ UNCHANGED <<shader, semaVars, codegenVars, spirvVars, flatVars, width>>

-----------------------------------------------------------------------------
Init ==
  /\ shader \in Shaders
  /\ phase = "sema in" /\ at = 1 /\ counter = 0 /\ errors = 0
  /\ reserved = [d \in {"in", "out"} |-> {}]
  /\ ins = <<>> /\ outs = <<>> /\ globals = <<>>
  /\ params = <<>> /\ results = <<>> /\ allocas = <<>>
  /\ placed = [w \in {"uniforms", "bindings", "in", "out", "shadows"} |-> {}]
  /\ sizes = Sizes(0, 0, 0, 0) /\ moves = {} /\ leaf = 1 /\ fOff = 0 /\ dOff = 0
  /\ width = 0 /\ ran = <<>>

Sema == (\E d \in {"in", "out"} : ReserveLocations(d) \/ SkipDeclaration(d)) \/ NextCheck \/ SemaEnd
Codegen == DeclareStageVar \/ DeclareGlobal \/ GenerateEntry \/ CodegenEnd
Spirv == \/ AnalyzeUniform \/ AnalyzeBuffer \/ AnalyzeSampler
         \/ SkipGlobal \/ AnalysisEnd
         \/ DeclareInput \/ InputsEnd \/ DeclareOutput \/ OutputsEnd
Flat == \/ Trampoline \/ LoadAttribute \/ LoadVarying \/ LoadEnd
        \/ StoreVarying \/ StoreOutput \/ StoreEnd
Row == Dispatch \/ Invoke

Finished == phase \in {"failed", "written", "done"} /\ UNCHANGED vars

Next == Sema \/ Codegen \/ Spirv \/ Flat \/ Row \/ Finished
Spec == Init /\ [][Next]_vars
-----------------------------------------------------------------------------
(* Properties. *)

Phases == {"sema in", "sema out", "codegen", "uniforms", "buffers", "samplers", "inputs", "outputs",
           "trampoline", "load", "store", "failed", "written", "row", "done"}

\* Type invariant: phases, counters that are natural numbers, and the shape of what is collected.
TypeOK ==
  /\ phase \in Phases
  /\ at \in Nat \ {0} /\ counter \in Nat /\ errors \in Nat
  /\ leaf \in Nat \ {0} /\ fOff \in Nat /\ dOff \in Nat /\ width \in 0 .. MaxWidth
  /\ \A d \in {"in", "out"}, r \in {"f", "d"} : sizes[d][r] \in Nat
  /\ \A m \in moves : m.dir \in {"in", "out"} /\ m.region \in {"f", "d"} /\ m.slot \in Nat

SpirvWritten == phase = "written" /\ shader.target = "spirv"

\* The stage variables of this shader are where the SPIR-V emitter looks for them: outputs have the
\* names it goes by and nothing else does, and all are declared before the entry function.
Conventional ==
  /\ shader.stage \in {"vertex", "fragment"}
  /\ \A i, j \in DOMAIN Decls : Decls[i].kind = "entry" /\ j > i => Decls[j].kind \notin {"in", "out"}
  /\ \A a \in Elems(allocas) :
       /\ (a.of = "out" /\ a.name # "gl_Position") <=> (IsVarying(a) \/ IsColor(a))
       /\ a.name = "FragColor" => shader.stage = "fragment"
  /\ \A i \in DOMAIN Decls : Decls[i].name # "gl_Position"

\* Sema and the emitter count the same locations for every variable of the direction: none is an
\* array of vectors, of which the emitter counts the elements (emit_spirv_from_ir.h:278) and sema
\* one location (sema.cpp:1048).
SlotsAgree(d) ==
  \A v \in Elems(Decls) : v.kind = d => LocationSlots(v.type) = SpvLocationSlots(v.type)
Positional(d) == \A v \in Elems(Decls) : v.kind = d => v.loc < 0

\* A location is never given to two inputs, or two outputs, of a shader that was accepted: the
\* columns of a matrix do not run into the next variable, whichever of the two has its location
\* from layout(location = n) (checkStageVarLocations, emitStageIO). Arrays of vectors are left
\* out where a variable of their direction has an explicit location: sema accepts
\* `in vec2 v[2]; layout(location = 1) in vec2 w;`, and v has location 1 too. How many locations
\* a variable has is what the emitter counts: one for an array of anything else, or a struct.
LocationsDisjoint ==
  SpirvWritten /\ Conventional =>
    \A d \in {"in", "out"} : SlotsAgree(d) \/ Positional(d) =>
      \A x, y \in placed[d] : x # y => ~Overlap(x.loc, x.slots, y.loc, y.slots)

\* The backend puts every stage variable where sema reserved room for it, although it counts over
\* parameters and allocas, last alloca first, and sema over declarations: the two allocators stay
\* in step (the comment at sema.cpp:1232), except for arrays of vectors, whose slots the two count
\* differently although sema's count "must sync" (sema.cpp:1046): a direction with one is left out.
InterfaceAsReserved ==
  SpirvWritten /\ Conventional => \A d \in {"in", "out"} : SlotsAgree(d) => placed[d] = reserved[d]

OfKind(k) == {g \in Elems(globals) : KindOf(g) = k}
Placed(g) == {b \in placed["bindings"] : b.name = g.name}

\* Every declared buffer and sampler has one binding, the declared one if it has one, except those
\* with a name that isSSBOGlobal takes for a constant of the runtime (emit_spirv_from_ir.h:584),
\* which have none unless they are read as samplers; among those of a kind that are all
\* positional, no two share one (analyzeSSBOs, analyzeSamplers).
BindingsApart ==
  SpirvWritten =>
    /\ \A g \in Elems(globals) : g.kind \in {"buffer", "sampler"} /\ ~Hidden(g) =>
         \E b \in Placed(g) : Placed(g) = {b} /\ (g.loc >= 0 => b.binding = g.loc)
    /\ \A k \in {"buffer", "sampler"} : (\A g \in OfKind(k) : g.loc < 0) =>
         \A b, c \in placed["bindings"] : b.kind = k /\ c.kind = k /\ b # c => b.binding # c.binding

\* Members of the push-constant block do not overlap, whatever padding their alignments make
\* necessary, while the block is laid out and after it (analyzeUniforms).
UniformsApart ==
  \A x, y \in placed["uniforms"] : x # y => ~Overlap(x.offset, x.size, y.offset, y.size)

Leaves(list, i, l, region) ==
  Cardinality({p \in Scalars(list) : /\ p[1] < i \/ (p[1] = i /\ p[2] < l)
                                     /\ list[p[1]].type.leaves[p[2]] = region})
Moved(dir) == IF dir = "in" THEN params ELSE results
InRegion(dir, region) == Cardinality({m \in moves : m.dir = dir /\ m.region = region})

\* Packing: the slot of a scalar is the number of scalars of its region that are declared before
\* it, on either side of the ABI, so that an array, a matrix or a double in front displaces what
\* follows by as many slots as the other stage and the host count for it; and what a trampoline
\* moves is what the module announces to the runtime that allocates the regions.
PackedInOrder ==
  /\ \A m \in moves :
       /\ m.region = Moved(m.dir)[m.var].type.leaves[m.leaf]
       /\ m.slot = Leaves(Moved(m.dir), m.var, m.leaf, m.region)
  /\ phase = "written" /\ moves # {} =>
       \A d \in {"in", "out"}, r \in {"f", "d"} :
         /\ InRegion(d, r) = CountAll(Moved(d), r)
         /\ d = "out" \/ shader.stage = "vertex" => InRegion(d, r) = sizes[d][r]

\* A row of at least one invocation runs each of its invocations once, in order (cs_dispatch_row).
RowRuns == phase = "done" /\ width > 0 => ran = [i \in 1 .. width |-> i - 1]

\* "Param shadows are external Input globals": what the SPIR-V takes for the alloca of an input is
\* the alloca of that input, and not a variable of the body or an output (isShadowAllocaForArg).
ShadowsAreParams ==
  \A s \in placed["shadows"] : \E a \in Elems(allocas) : a.of = "in" /\ a.name = s[1] /\ s[1] = s[2]
=============================================================================
