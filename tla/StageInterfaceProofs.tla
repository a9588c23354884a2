------------------------ MODULE StageInterfaceProofs ------------------------
(***************************************************************************)
(* For every set of shaders: what sema accepts has disjoint locations, and *)
(* the backend puts every stage variable where sema reserved room for it,  *)
(* in a direction whose types sema and the backend count alike (arrays of  *)
(* vectors they do not: sema.cpp:1048, emit_spirv_from_ir.h:278); bindings *)
(* and the members of the push-constant block are apart; what the          *)
(* trampolines move is packed in order; a row runs all of it.              *)
(***************************************************************************)
EXTENDS StageInterface, FiniteSetTheorems, SequenceTheorems, TLAPS

(* Padding never moves a member back. *)
LEMMA AlignUpForward ==
  ASSUME NEW n \in Nat, NEW a \in Nat \ {0}
  PROVE  AlignUp(n, a) \in Nat /\ AlignUp(n, a) >= n
<1> DEFINE q == (n + a - 1) \div a
           r == (n + a - 1) % a
<1>1. n + a - 1 \in Nat  OBVIOUS
<1>2. q \in Nat /\ r \in 0 .. a - 1 /\ n + a - 1 = a * q + r  BY <1>1
<1>3. AlignUp(n, a) = q * a  BY DEF AlignUp
<1> HIDE DEF q, r
<1>4. q * a \in Nat /\ q * a = a * q  BY <1>2
<1> QED BY <1>2, <1>3, <1>4

(* A declaration is one of the shader's. *)
LEMMA NodeIsDeclaration ==
  ASSUME shader \in Shaders, at \in DOMAIN Decls
  PROVE  Node \in Declaration
<1>1. Decls \in Seq(Declaration)  BY ShadersAssumption DEF Decls
<1> QED BY <1>1, ElementOfSeq DEF Node

-----------------------------------------------------------------------------
(* Sema. *)

\* Location ranges apart: those of different variables, while no error has been counted.
ReservedApart ==
  errors = 0 => \A d \in {"in", "out"} : \A x, y \in reserved[d] :
                  x.name # y.name => ~Overlap(x.loc, x.slots, y.loc, y.slots)

ReservedInv ==
  /\ shader \in Shaders /\ errors \in Nat
  /\ phase \in {"sema in", "sema out"} => counter \in Nat
  /\ DOMAIN reserved = {"in", "out"}
  /\ errors = 0 => \A d \in {"in", "out"} : \A x \in reserved[d] : x.loc \in Nat /\ x.slots \in Nat \ {0}
  /\ ReservedApart

(* Trying the locations one by one finds every overlap. *)
LEMMA OneByOne ==
  ASSUME NEW l \in Nat, NEW n \in Nat \ {0}, NEW m \in Nat, NEW k \in Nat \ {0},
         Overlap(l, n, m, k)
  PROVE  \E i \in 0 .. n - 1 : Overlap(l + i, 1, m, k)
<1>1. CASE m <= l
  <2>1. 0 \in 0 .. n - 1 /\ Overlap(l + 0, 1, m, k)  BY <1>1 DEF Overlap
  <2> QED BY <2>1
<1>2. CASE m > l
  <2>1. m - l \in 0 .. n - 1 /\ Overlap(l + (m - l), 1, m, k)  BY <1>2 DEF Overlap
  <2> QED BY <2>1
<1> QED BY <1>1, <1>2

LEMMA SlotsPositive ==
  ASSUME NEW t \in Type
  PROVE  LocationSlots(t) \in Nat \ {0} /\ SpvLocationSlots(t) \in Nat \ {0}
BY DEF LocationSlots, SpvLocationSlots, Type

(* Without a collision a variable is given all of its locations. *)
LEMMA AllGiven ==
  ASSUME NEW dir, NEW d \in Declaration, ~Collides(dir, d)
  PROVE  Given(dir, d) = LocationSlots(d.type)
<1> DEFINE n == LocationSlots(d.type)
<1>1. n \in Nat \ {0}
  <2>1. d.type \in Type  BY DEF Declaration, Variable
  <2> QED BY <2>1, SlotsPositive
<1>2. \A k \in 0 .. n - 1 : ~Taken(dir, d, k)  BY DEF Collides
<1> HIDE DEF n
<1>3. {k \in 0 .. n - 1 : \A j \in 0 .. k : ~Taken(dir, d, j)} = 0 .. n - 1
  <2>1. \A k \in 0 .. n - 1 : \A j \in 0 .. k : j \in 0 .. n - 1  BY <1>1
  <2> QED BY <1>2, <2>1
<1>4. Cardinality(0 .. n - 1) = n
  BY <1>1, FS_Interval
<1> QED BY <1>3, <1>4 DEF Given, n

LEMMA ReserveKeeps ==
  ASSUME ReservedInv, NEW dir \in {"in", "out"}, ReserveLocations(dir)
  PROVE  ReservedInv'
<1> DEFINE new == Entry(Node.name, Location(Node), Given(dir, Node))
           slots == LocationSlots(Node.type)
<1>1. Node \in Declaration /\ at \in DOMAIN Decls
  BY NodeIsDeclaration DEF ReservedInv, ReserveLocations
<1>2. Node.loc \in Int /\ slots \in Nat \ {0}
  <2>1. Node.type \in Type /\ Node.loc \in Int  BY <1>1 DEF Declaration, Variable
  <2> QED BY <2>1, SlotsPositive
<1>. counter \in Nat /\ UNCHANGED <<shader, phase>>
  BY DEF ReserveLocations, Checking, ReservedInv
<1>3. Location(Node) \in Nat  BY <1>2 DEF Location
<1>4. counter' \in Nat
  <2> HIDE DEF slots
  <2>1. counter' = IF Node.loc >= 0 THEN counter ELSE counter + slots  BY DEF ReserveLocations, slots
  <2> QED BY <1>2, <2>1
<1>5. /\ errors' \in Nat /\ (errors' = 0 => errors = 0 /\ ~Collides(dir, Node))
  <2>1. errors' = IF Collides(dir, Node) THEN errors + 1 ELSE errors  BY DEF ReserveLocations
  <2>2. errors \in Nat  BY DEF ReservedInv
  <2> QED BY <2>1, <2>2
<1>6. /\ DOMAIN reserved' = {"in", "out"}
      /\ \A d \in {"in", "out"} : reserved'[d] = IF d = dir THEN reserved[d] \cup {new} ELSE reserved[d]
  <2>1. reserved' = [reserved EXCEPT ![dir] = @ \cup {new}]  BY DEF ReserveLocations
  <2>2. DOMAIN reserved = {"in", "out"}  BY DEF ReservedInv
  <2> HIDE DEF new
  <2> QED BY <2>1, <2>2
<1>7. new.name = Node.name /\ new.loc = Location(Node) /\ new.slots = Given(dir, Node)  BY DEF Entry
<1>8. ASSUME errors' = 0 PROVE new.slots = slots
  BY <1>1, <1>5, <1>7, <1>8, AllGiven
<1>9. ASSUME errors' = 0, NEW r \in reserved[dir], r.name # new.name
      PROVE  ~Overlap(new.loc, new.slots, r.loc, r.slots) /\ ~Overlap(r.loc, r.slots, new.loc, new.slots)
  <2>1. r.loc \in Nat /\ r.slots \in Nat \ {0}  BY <1>5, <1>9 DEF ReservedInv
  <2>2. \A i \in 0 .. slots - 1 : ~Overlap(Location(Node) + i, 1, r.loc, r.slots)
    BY <1>5, <1>7, <1>9 DEF Collides, Taken
  <2> HIDE DEF slots, new
  <2>3. ~Overlap(Location(Node), slots, r.loc, r.slots)
    BY <1>2, <1>3, <2>1, <2>2, OneByOne
  <2> QED BY <1>7, <1>8, <1>9, <2>3 DEF Overlap
<1> HIDE DEF new, slots
<1>10. ReservedApart'
  <2>1. SUFFICES ASSUME errors' = 0, NEW d \in {"in", "out"}, NEW x \in reserved'[d], NEW y \in reserved'[d],
                        x.name # y.name
                 PROVE  ~Overlap(x.loc, x.slots, y.loc, y.slots)
    BY DEF ReservedApart, Overlap
  <2>2. CASE x \in reserved[d] /\ y \in reserved[d]
    BY <1>5, <2>1, <2>2 DEF ReservedInv, ReservedApart
  <2>3. CASE x = new
    BY <1>6, <1>9, <2>1, <2>2, <2>3
  <2>4. CASE y = new
    BY <1>6, <1>9, <2>1, <2>2, <2>4
  <2> QED BY <1>6, <2>1, <2>2, <2>3, <2>4
<1>11. ASSUME errors' = 0, NEW d \in {"in", "out"}, NEW x \in reserved'[d]
       PROVE  x.loc \in Nat /\ x.slots \in Nat \ {0}
  BY <1>2, <1>3, <1>5, <1>6, <1>7, <1>8, <1>11 DEF ReservedInv
<1>12. shader' \in Shaders  BY DEF ReservedInv
<1> QED BY <1>4, <1>5, <1>6, <1>10, <1>11, <1>12 DEF ReservedInv

LEMMA DoublesFinite ==
  ASSUME shader \in Shaders
  PROVE  IsFiniteSet(Doubles) /\ Cardinality(Doubles) \in Nat
<1>1. Decls \in Seq(Declaration)  BY ShadersAssumption DEF Decls
<1>2. IsFiniteSet(DOMAIN Decls)
  <2>1. DOMAIN Decls = 1 .. Len(Decls) /\ Len(Decls) \in Nat  BY <1>1
  <2> QED BY <2>1, FS_Interval
<1>3. IsFiniteSet(Elems(Decls))
  <2> DEFINE f == [i \in DOMAIN Decls |-> Decls[i]]
  <2>1. f \in Surjection(DOMAIN Decls, Elems(Decls))  BY DEF Surjection, Elems
  <2> QED BY <1>2, <2>1, FS_Surjection
<1>4. Doubles \subseteq Elems(Decls)  BY DEF Doubles
<1> QED BY <1>3, <1>4, FS_Subset, FS_CardinalityType

\* The steps that leave sema's table alone.
LEMMA ReservedFrame ==
  ASSUME ReservedInv, UNCHANGED <<shader, reserved>>,
         errors' \in Nat, errors' = 0 => errors = 0,
         phase' \in {"sema in", "sema out"} => counter' \in Nat
  PROVE  ReservedInv'
BY DEF ReservedInv, ReservedApart

LEMMA ReservedStep == ReservedInv /\ [Next]_vars => ReservedInv'
<1> SUFFICES ASSUME ReservedInv, [Next]_vars PROVE ReservedInv'
  OBVIOUS
<1>1. ASSUME NEW d \in {"in", "out"}, ReserveLocations(d) PROVE ReservedInv'
  BY <1>1, ReserveKeeps
<1>2. ASSUME NEW d \in {"in", "out"}, SkipDeclaration(d) PROVE ReservedInv'
  BY <1>2, ReservedFrame DEF SkipDeclaration, Pass, semaVars, ReservedInv
<1>3. CASE NextCheck
  BY <1>3, ReservedFrame DEF NextCheck, Begin, semaVars, ReservedInv
<1>4. CASE SemaEnd
  <2>1. Cardinality(Doubles) \in Nat  BY DoublesFinite DEF ReservedInv
  <2>2. errors' \in Nat /\ (errors' = 0 => errors = 0)
    <3>1. errors' = errors + Cardinality(Doubles)  BY <1>4 DEF SemaEnd
    <3>2. errors \in Nat  BY DEF ReservedInv
    <3> QED BY <2>1, <3>1, <3>2
  <2>3. phase' \in {"failed", "codegen"} /\ UNCHANGED <<shader, reserved>>
    BY <1>4 DEF SemaEnd, Stop, Begin
  <2> QED BY <2>2, <2>3, ReservedFrame
<1>5. CASE Codegen
  BY <1>5, ReservedFrame DEF Codegen, DeclareStageVar, DeclareGlobal, GenerateEntry, CodegenEnd, Declaring,
     Pass, Stop, Begin, semaVars, ReservedInv
<1>6. CASE Spirv
  BY <1>6, ReservedFrame DEF Spirv, AnalyzeUniform, AnalyzeBuffer, AnalyzeSampler, AnalyzeResource, Visiting, Resource, SkipGlobal, AnalysisEnd,
     DeclareInput, InputsEnd, DeclareOutput, OutputsEnd, Pass, Stop, Begin, semaVars, ReservedInv
<1>7. CASE Flat
  BY <1>7, ReservedFrame DEF Flat, Trampoline, LoadAttribute, LoadVarying, LoadEnd, StoreVarying, StoreOutput,
     StoreEnd, Moving, Move, MoveSplit, LoadSplit, StoreSplit, Stop, Begin, semaVars, ReservedInv
<1>8. CASE Row
  BY <1>8, ReservedFrame DEF Row, Dispatch, Invoke, Stop, semaVars, ReservedInv
<1>9. CASE UNCHANGED vars
  BY <1>9, ReservedFrame DEF vars, semaVars, ReservedInv
<1> QED BY <1>1, <1>2, <1>3, <1>4, <1>5, <1>6, <1>7, <1>8, <1>9 DEF Next, Sema, Finished

LEMMA ReservedInit == Init => ReservedInv
<1> SUFFICES ASSUME Init PROVE ReservedInv
  OBVIOUS
<1>1. shader \in Shaders /\ errors = 0 /\ counter = 0 /\ reserved = [d \in {"in", "out"} |-> {}]
  BY DEF Init
<1> QED BY <1>1 DEF ReservedInv, ReservedApart

\* As long as sema has not complained, no two stage variables of a direction share a location,
\* whatever mixture of explicit and positional ones it has seen: the test is made against all the
\* locations of a matrix, and against all those before (checkStageVarLocations).
THEOREM SemaKeepsLocationsApart == Spec => []ReservedApart
<1>1. ReservedInv => ReservedApart
  BY DEF ReservedInv
<1> QED BY <1>1, ReservedInit, ReservedStep, PTL DEF Spec

-----------------------------------------------------------------------------
(* The push-constant block. *)

BlockInv ==
  /\ shader \in Shaders /\ globals \in Seq(Declaration)
  /\ "uniforms" \in DOMAIN placed
  /\ \A x \in placed["uniforms"] : x.offset \in Nat /\ x.size \in Nat
  /\ phase \in {"sema in", "sema out", "codegen"} => placed["uniforms"] = {}
  /\ phase = "uniforms" => /\ counter \in Nat
                           /\ \A x \in placed["uniforms"] : x.offset + x.size <= counter
  /\ UniformsApart

(* A new member starts at or after the running offset, hence after every other member. *)
LEMMA AnalyzeUniformKeeps == BlockInv /\ AnalyzeUniform => BlockInv'
<1> SUFFICES ASSUME BlockInv, AnalyzeUniform PROVE BlockInv'
  OBVIOUS
<1> DEFINE t == globals[at].type
           offset == AlignUp(counter, t.align)
           new == Member(globals[at], offset)
<1>1. phase = "uniforms" /\ at \in DOMAIN globals
  BY DEF AnalyzeUniform, Visiting
<1>2. t.size \in Nat /\ t.align \in Nat \ {0}
  <2>1. globals[at] \in Declaration  BY <1>1, ElementOfSeq DEF BlockInv
  <2> QED BY <2>1 DEF Declaration, Variable, Type
<1>3. counter \in Nat  BY <1>1 DEF BlockInv
<1>4. offset \in Nat /\ offset >= counter  BY <1>2, <1>3, AlignUpForward
<1>5. new.offset = offset /\ new.size = t.size  BY DEF Member
<1>6. placed' = [placed EXCEPT !["uniforms"] = @ \cup {new}] /\ counter' = offset + t.size
  BY DEF AnalyzeUniform, Put
<1>7. UNCHANGED <<shader, globals, phase>>
  BY DEF AnalyzeUniform, codegenVars
<1> HIDE DEF t, offset, new
<1>8. "uniforms" \in DOMAIN placed' /\ placed'["uniforms"] = placed["uniforms"] \cup {new}
  BY <1>6 DEF BlockInv
<1>9. \A x \in placed["uniforms"] : x.offset \in Nat /\ x.size \in Nat /\ x.offset + x.size <= counter
  BY <1>1 DEF BlockInv
<1>10. \A x \in placed'["uniforms"] : x.offset \in Nat /\ x.size \in Nat /\ x.offset + x.size <= counter'
  BY <1>2, <1>3, <1>4, <1>5, <1>6, <1>8, <1>9
<1>11. UniformsApart'
  <2>1. \A x \in placed["uniforms"] : /\ ~Overlap(x.offset, x.size, new.offset, new.size)
                                    /\ ~Overlap(new.offset, new.size, x.offset, x.size)
    BY <1>2, <1>3, <1>4, <1>5, <1>9 DEF Overlap
  <2>2. UniformsApart  BY DEF BlockInv
  <2> QED BY <1>8, <2>1, <2>2 DEF UniformsApart, Overlap
<1>12. counter' \in Nat  BY <1>2, <1>4, <1>6
<1> QED BY <1>1, <1>7, <1>8, <1>10, <1>11, <1>12 DEF BlockInv

\* The steps that leave the block alone.
LEMMA BlockFrame ==
  ASSUME BlockInv, shader' = shader, globals' \in Seq(Declaration),
         "uniforms" \in DOMAIN placed', placed'["uniforms"] = placed["uniforms"],
         phase' \in {"sema in", "sema out", "codegen"} => phase \in {"sema in", "sema out", "codegen"},
         phase' = "uniforms" => \/ phase = "uniforms" /\ counter' = counter
                                \/ phase = "codegen" /\ counter' = 0
  PROVE  BlockInv'
<1>1. UniformsApart'
  <2>1. UniformsApart  BY DEF BlockInv
  <2> QED BY <2>1 DEF UniformsApart, Overlap
<1>2. ASSUME phase' = "uniforms"
      PROVE  counter' \in Nat /\ \A x \in placed'["uniforms"] : x.offset + x.size <= counter'
  <2>1. CASE phase = "uniforms" /\ counter' = counter
    BY <2>1 DEF BlockInv
  <2>2. CASE phase = "codegen" /\ counter' = 0
    <3>1. placed'["uniforms"] = {}  BY <2>2 DEF BlockInv
    <3> QED BY <2>2, <3>1
  <2> QED BY <1>2, <2>1, <2>2
<1>3. ASSUME phase' \in {"sema in", "sema out", "codegen"} PROVE placed'["uniforms"] = {}
  BY <1>3 DEF BlockInv
<1>4. \A x \in placed'["uniforms"] : x.offset \in Nat /\ x.size \in Nat
  BY DEF BlockInv
<1>5. shader' \in Shaders  BY DEF BlockInv
<1> QED BY <1>1, <1>2, <1>3, <1>4, <1>5 DEF BlockInv

LEMMA BlockStays ==
  ASSUME BlockInv, UNCHANGED <<shader, phase, counter, globals, placed>>
  PROVE  BlockInv'
BY DEF BlockInv, UniformsApart, Overlap

LEMMA PutElsewhere ==
  ASSUME BlockInv, NEW w \in {"bindings", "in", "out"}, NEW item, Put(w, item)
  PROVE  "uniforms" \in DOMAIN placed' /\ placed'["uniforms"] = placed["uniforms"]
BY DEF Put, BlockInv

LEMMA GlobalsStay ==
  ASSUME BlockInv, DeclareGlobal
  PROVE  globals' \in Seq(Declaration)
<1>1. Node \in Declaration
  BY NodeIsDeclaration DEF DeclareGlobal, Declaring, BlockInv
<1>2. globals \in Seq(Declaration)  BY DEF BlockInv
<1> DEFINE old == {g \in Elems(globals) : g.name = Node.name}
           bound == Bind(old)
<1>3. globals' \in {Append(globals, Node), bound, globals}
  BY DEF DeclareGlobal
<1>4. bound \in Seq(Declaration)
  <2>1. DOMAIN globals = 1 .. Len(globals) /\ Len(globals) \in Nat  BY <1>2
  <2>2. \A i \in DOMAIN globals : globals[i] \in Declaration  BY <1>2, ElementOfSeq
  <2>3. Node.loc \in Int  BY <1>1 DEF Declaration, Variable
  <2>4. \A g \in Declaration : [g EXCEPT !.loc = Node.loc] \in Declaration
    BY <2>3 DEF Declaration, Variable
  <2>5. bound \in [1 .. Len(globals) -> Declaration]  BY <2>1, <2>2, <2>4 DEF Bind
  <2> QED BY <2>1, <2>5, SeqDef
<1> HIDE DEF bound
<1> QED BY <1>1, <1>2, <1>3, <1>4, AppendProperties

LEMMA BlockStep == BlockInv /\ [Next]_vars => BlockInv'
<1> SUFFICES ASSUME BlockInv, [Next]_vars PROVE BlockInv'
  OBVIOUS
<1>0. globals \in Seq(Declaration) /\ "uniforms" \in DOMAIN placed  BY DEF BlockInv
<1>1. CASE Sema
  BY <1>0, <1>1, BlockFrame DEF Sema, ReserveLocations, SkipDeclaration, NextCheck, SemaEnd, Checking,
     Pass, Begin, Stop, codegenVars, spirvVars
<1>2. CASE DeclareStageVar \/ GenerateEntry \/ CodegenEnd
  BY <1>0, <1>2, BlockFrame DEF DeclareStageVar, GenerateEntry, CodegenEnd, Declaring,
     Pass, Begin, codegenVars, spirvVars
<1>3. CASE DeclareGlobal
  <2>1. globals' \in Seq(Declaration)  BY <1>3, GlobalsStay
  <2>2. phase = "codegen" /\ phase' \in {"failed", "codegen"} /\ UNCHANGED <<shader, placed>>
    BY <1>3 DEF DeclareGlobal, Declaring, Pass, Stop, spirvVars
  <2> QED BY <1>0, <2>1, <2>2, BlockFrame
<1>4. CASE AnalyzeUniform
  BY <1>4, AnalyzeUniformKeeps
<1>5. ASSUME NEW k \in {"buffer", "sampler"}, AnalyzeResource(k) PROVE BlockInv'
  <2>1. phase \in {"buffers", "samplers"} /\ UNCHANGED <<shader, phase, globals>>
    BY <1>5 DEF AnalyzeResource, Visiting, Resource, codegenVars
  <2>2. "uniforms" \in DOMAIN placed' /\ placed'["uniforms"] = placed["uniforms"]
    BY <1>5, PutElsewhere DEF AnalyzeResource
  <2> QED BY <1>0, <2>1, <2>2, BlockFrame
<1>6. CASE SkipGlobal \/ AnalysisEnd
  <2>1. UNCHANGED <<shader, globals, placed>>
    BY <1>6 DEF SkipGlobal, AnalysisEnd, codegenVars, spirvVars
  <2>2. CASE SkipGlobal
    <3>1. UNCHANGED <<phase, counter>>  BY <2>2 DEF SkipGlobal, Pass
    <3> QED BY <2>1, <3>1, BlockStays
  <2>3. CASE AnalysisEnd
    <3>1. phase' \in {"buffers", "samplers", "inputs"}  BY <2>3 DEF AnalysisEnd, Begin
    <3> QED BY <1>0, <2>1, <3>1, BlockFrame
  <2> QED BY <1>6, <2>2, <2>3
<1>7. CASE DeclareInput
  <2>1. phase = "inputs" /\ UNCHANGED <<shader, phase, globals>>
    BY <1>7 DEF DeclareInput, codegenVars
  <2>2. "uniforms" \in DOMAIN placed' /\ placed'["uniforms"] = placed["uniforms"]
    BY <1>7, PutElsewhere DEF DeclareInput
  <2> QED BY <1>0, <2>1, <2>2, BlockFrame
<1>8. CASE DeclareOutput
  <2>1. phase = "outputs" /\ UNCHANGED <<shader, phase, globals>>
    BY <1>8 DEF DeclareOutput, codegenVars
  <2>2. PICK out, shadows : placed' = [placed EXCEPT !["out"] = @ \cup out, !["shadows"] = @ \cup shadows]
    BY <1>8 DEF DeclareOutput
  <2>3. "uniforms" \in DOMAIN placed' /\ placed'["uniforms"] = placed["uniforms"]
    BY <1>0, <2>2
  <2> QED BY <1>0, <2>1, <2>3, BlockFrame
<1>9. CASE InputsEnd \/ OutputsEnd
  BY <1>0, <1>9, BlockFrame DEF InputsEnd, OutputsEnd, Begin, Stop, codegenVars, spirvVars
<1>10. CASE Flat
  BY <1>0, <1>10, BlockFrame DEF Flat, Trampoline, LoadAttribute, LoadVarying, LoadEnd, StoreVarying, StoreOutput,
     StoreEnd, Moving, Move, MoveSplit, LoadSplit, StoreSplit, Stop, Begin, codegenVars, spirvVars
<1>11. CASE Row
  BY <1>0, <1>11, BlockFrame DEF Row, Dispatch, Invoke, Stop, codegenVars, spirvVars
<1>12. CASE UNCHANGED vars
  <2>1. UNCHANGED <<shader, phase, counter, globals, placed>>
    BY <1>12 DEF vars, codegenVars, spirvVars
  <2> QED BY <2>1, BlockStays
<1> QED BY <1>1, <1>2, <1>3, <1>4, <1>5, <1>6, <1>7, <1>8, <1>9, <1>10, <1>11, <1>12
     DEF Next, Codegen, Spirv, AnalyzeBuffer, AnalyzeSampler, Finished

LEMMA BlockInit == Init => BlockInv
<1>1. SUFFICES ASSUME Init PROVE BlockInv
  OBVIOUS
<1>2. /\ shader \in Shaders /\ globals = <<>> /\ phase = "sema in"
      /\ placed = [w \in {"uniforms", "bindings", "in", "out", "shadows"} |-> {}]
  BY <1>1 DEF Init
<1>3. placed["uniforms"] = {} /\ "uniforms" \in DOMAIN placed  BY <1>2
<1>4. <<>> \in Seq(Declaration)  OBVIOUS
<1>5. UniformsApart  BY <1>3 DEF UniformsApart
<1> QED BY <1>2, <1>3, <1>4, <1>5 DEF BlockInv

\* The members of the push-constant block never overlap, however many uniforms of whatever sizes
\* and alignments a shader declares (analyzeUniforms).
THEOREM UniformsNeverOverlap == Spec => []UniformsApart
<1>1. BlockInv => UniformsApart
  BY DEF BlockInv
<1> QED BY <1>1, BlockInit, BlockStep, PTL DEF Spec

-----------------------------------------------------------------------------
(* The row of compute invocations. *)

UpTo(n) == [i \in 1 .. n |-> i - 1]

RowInv ==
  /\ width \in Nat
  /\ phase = "row" => /\ ran \in Seq(Int) /\ ran = UpTo(Len(ran))
                      /\ width > 0 => Len(ran) < width
  /\ RowRuns

LEMMA InvokeKeeps == RowInv /\ Invoke => RowInv'
<1> SUFFICES ASSUME RowInv, Invoke PROVE RowInv'
  OBVIOUS
<1> DEFINE n == Len(ran)
<1>1. phase = "row" /\ ran \in Seq(Int) /\ ran = UpTo(n) /\ width \in Nat /\ (width > 0 => n < width)
  <2>1. phase = "row"  BY DEF Invoke
  <2> QED BY <2>1 DEF RowInv
<1>2. n \in Nat  BY <1>1
<1>3. ran' = Append(ran, n) /\ width' = width
  BY DEF Invoke
<1>4. ran' \in Seq(Int) /\ Len(ran') = n + 1 /\ ran' = UpTo(n + 1)
  <2>1. ran' \in Seq(Int) /\ Len(ran') = n + 1  BY <1>1, <1>2, <1>3, AppendProperties
  <2>2. \A i \in 1 .. n : ran'[i] = i - 1
    <3>1. \A i \in 1 .. n : ran'[i] = ran[i]  BY <1>1, <1>2, <1>3, AppendProperties
    <3>2. \A i \in 1 .. n : ran[i] = i - 1  BY <1>1 DEF UpTo
    <3> QED BY <3>1, <3>2
  <2>3. ran'[n + 1] = n  BY <1>1, <1>2, <1>3, AppendProperties
  <2> HIDE DEF n
  <2>4. \A i \in 1 .. n + 1 : ran'[i] = i - 1  BY <1>2, <2>2, <2>3
  <2>5. ran' = [i \in 1 .. n + 1 |-> ran'[i]]  BY <2>1
  <2> QED BY <2>1, <2>4, <2>5 DEF UpTo
<1> HIDE DEF n
<1>5. CASE n + 1 < width
  <2>1. phase' = "row"  BY <1>5 DEF Invoke, Stop, n
  <2> QED BY <1>1, <1>3, <1>4, <1>5, <2>1 DEF RowInv, RowRuns
<1>6. CASE ~(n + 1 < width)
  <2>1. phase' = "done"  BY <1>6 DEF Invoke, Stop, n
  <2>2. width > 0 => n + 1 = width  BY <1>1, <1>2, <1>6
  <2> QED BY <1>1, <1>3, <1>4, <2>1, <2>2 DEF RowInv, RowRuns, UpTo
<1> QED BY <1>5, <1>6

\* The steps that neither start a row nor run it.
LEMMA RowFrame ==
  ASSUME RowInv, UNCHANGED rowVars, phase' \notin {"row", "done"} \/ phase' = phase
  PROVE  RowInv'
BY DEF RowInv, RowRuns, rowVars

LEMMA RowStep == RowInv /\ [Next]_vars => RowInv'
<1> SUFFICES ASSUME RowInv, [Next]_vars PROVE RowInv'
  OBVIOUS
<1>1. CASE Sema
  BY <1>1, RowFrame DEF Sema, ReserveLocations, SkipDeclaration, NextCheck, SemaEnd, Pass, Begin, Stop
<1>2. CASE Codegen
  BY <1>2, RowFrame DEF Codegen, DeclareStageVar, DeclareGlobal, GenerateEntry, CodegenEnd, Pass, Stop, Begin
<1>3. CASE Spirv
  BY <1>3, RowFrame DEF Spirv, AnalyzeUniform, AnalyzeBuffer, AnalyzeSampler, AnalyzeResource, SkipGlobal, AnalysisEnd, DeclareInput, InputsEnd,
     DeclareOutput, OutputsEnd, Pass, Stop, Begin
<1>4. CASE Flat
  BY <1>4, RowFrame DEF Flat, Trampoline, LoadAttribute, LoadVarying, LoadEnd, StoreVarying, StoreOutput,
     StoreEnd, Move, MoveSplit, LoadSplit, StoreSplit, Stop, Begin, flatVars
<1>5. CASE Dispatch
  <2>1. width' \in Nat /\ ran' = <<>> /\ phase' = "row"
    BY <1>5, BoundsAssumption DEF Dispatch, Stop
  <2>2. <<>> \in Seq(Int) /\ Len(<<>>) = 0 /\ <<>> = UpTo(0)  BY DEF UpTo
  <2> QED BY <2>1, <2>2 DEF RowInv, RowRuns
<1>6. CASE Invoke
  BY <1>6, InvokeKeeps
<1>7. CASE UNCHANGED vars
  <2>1. UNCHANGED rowVars /\ phase' = phase  BY <1>7 DEF vars
  <2> QED BY <2>1, RowFrame
<1> QED BY <1>1, <1>2, <1>3, <1>4, <1>5, <1>6, <1>7 DEF Next, Row, Finished

\* A row of any width of at least one runs each of its invocations once and in order: the test
\* after the call neither drops the last one nor adds one (cs_dispatch_row).
THEOREM RowsRunInFull == Spec => []RowRuns
<1>1. Init => RowInv
  <2>1. SUFFICES ASSUME Init PROVE RowInv
    OBVIOUS
  <2>2. phase = "sema in" /\ width = 0  BY <2>1 DEF Init
  <2>3. RowRuns  BY <2>2 DEF RowRuns
  <2> QED BY <2>2, <2>3 DEF RowInv
<1>2. RowInv => RowRuns
  BY DEF RowInv
<1> QED BY <1>1, <1>2, RowStep, PTL DEF Spec

-----------------------------------------------------------------------------
(* The scalars of a sequence of variables, one after the other. *)

\* A parameter or a field of the output struct. (The provers do not know a literal for a STRING.)
Slot == [name : STRING \cup {"gl_Position"}, type : {t \in Type : t.leaves # <<>>},
         loc : Int, of : {"in", "out"}]

\* Those before leaf l of variable a.
Upto(list, a, l) == {p \in Scalars(list) : p[1] < a \/ (p[1] = a /\ p[2] < l)}

\* The variable and the leaf that come after leaf l of variable a.
LastLeaf(list, a, l) == l = Len(list[a].type.leaves)
AfterVar(list, a, l) == IF LastLeaf(list, a, l) THEN a + 1 ELSE a
AfterLeaf(list, a, l) == IF LastLeaf(list, a, l) THEN 1 ELSE l + 1

LEMMA ScalarsAre ==
  ASSUME NEW list \in Seq(Slot)
  PROVE  /\ Len(list) \in Nat /\ DOMAIN list = 1 .. Len(list)
         /\ \A i \in DOMAIN list : /\ Len(list[i].type.leaves) \in Nat \ {0}
                                   /\ DOMAIN list[i].type.leaves = 1 .. Len(list[i].type.leaves)
                                   /\ \A j \in DOMAIN list[i].type.leaves : list[i].type.leaves[j] \in {"f", "d"}
         /\ \A p : p \in Scalars(list) <=> \E i \in DOMAIN list : \E j \in DOMAIN list[i].type.leaves : p = <<i, j>>
         /\ IsFiniteSet(Scalars(list))
<1>1. Len(list) \in Nat /\ DOMAIN list = 1 .. Len(list)
  BY LenProperties
<1>2. ASSUME NEW i \in DOMAIN list
      PROVE  /\ Len(list[i].type.leaves) \in Nat \ {0}
             /\ DOMAIN list[i].type.leaves = 1 .. Len(list[i].type.leaves)
             /\ \A j \in DOMAIN list[i].type.leaves : list[i].type.leaves[j] \in {"f", "d"}
  <2>1. list[i] \in Slot  BY <1>1, ElementOfSeq
  <2>2. PICK s : s = list[i].type.leaves  OBVIOUS
  <2>3. s \in Seq({"f", "d"}) /\ s # <<>>  BY <2>1, <2>2 DEF Slot, Type
  <2>4. Len(s) \in Nat \ {0} /\ DOMAIN s = 1 .. Len(s)
    BY <2>3, EmptySeq, LenProperties
  <2>5. \A j \in DOMAIN s : s[j] \in {"f", "d"}  BY <2>3, <2>4, ElementOfSeq
  <2> QED BY <2>2, <2>4, <2>5
<1>3. \A p : p \in Scalars(list) <=> \E i \in DOMAIN list : \E j \in DOMAIN list[i].type.leaves : p = <<i, j>>
  BY DEF Scalars
<1>4. IsFiniteSet(Scalars(list))
  <2> DEFINE f == [i \in DOMAIN list |-> {i} \X DOMAIN list[i].type.leaves]
             T == {{i} \X DOMAIN list[i].type.leaves : i \in DOMAIN list}
  <2>1. f \in Surjection(DOMAIN list, T)  BY DEF Surjection
  <2>2. IsFiniteSet(DOMAIN list)  BY <1>1, FS_Interval
  <2>3. \A i \in DOMAIN list : IsFiniteSet({i} \X DOMAIN list[i].type.leaves)
    <3> SUFFICES ASSUME NEW i \in DOMAIN list PROVE IsFiniteSet({i} \X DOMAIN list[i].type.leaves)
      OBVIOUS
    <3>1. IsFiniteSet({i})  BY FS_Singleton
    <3>2. IsFiniteSet(DOMAIN list[i].type.leaves)  BY <1>2, FS_Interval
    <3> QED BY <3>1, <3>2, FS_Product
  <2> HIDE DEF f
  <2>4. IsFiniteSet(T)  BY <2>1, <2>2, FS_Surjection
  <2>5. \A t \in T : IsFiniteSet(t)  BY <2>3
  <2> HIDE DEF T
  <2>6. IsFiniteSet(UNION T)  BY <2>4, <2>5, FS_UNION
  <2> QED BY <2>6 DEF Scalars, T
<1> QED BY <1>1, <1>2, <1>3, <1>4

LEMMA LeavesAre ==
  ASSUME NEW list \in Seq(Slot), NEW a, NEW l, NEW r
  PROVE  /\ Leaves(list, a, l, r) = Cardinality({p \in Upto(list, a, l) : list[p[1]].type.leaves[p[2]] = r})
         /\ IsFiniteSet({p \in Upto(list, a, l) : list[p[1]].type.leaves[p[2]] = r})
         /\ Leaves(list, a, l, r) \in Nat /\ CountAll(list, r) \in Nat
<1>1. {p \in Upto(list, a, l) : list[p[1]].type.leaves[p[2]] = r}
      = {p \in Scalars(list) : /\ p[1] < a \/ (p[1] = a /\ p[2] < l)
                               /\ list[p[1]].type.leaves[p[2]] = r}
  BY DEF Upto
<1>2. /\ {p \in Upto(list, a, l) : list[p[1]].type.leaves[p[2]] = r} \in SUBSET Scalars(list)
      /\ {p \in Scalars(list) : list[p[1]].type.leaves[p[2]] = r} \in SUBSET Scalars(list)
  BY DEF Upto
<1>3. /\ IsFiniteSet({p \in Upto(list, a, l) : list[p[1]].type.leaves[p[2]] = r})
      /\ IsFiniteSet({p \in Scalars(list) : list[p[1]].type.leaves[p[2]] = r})
  BY <1>2, ScalarsAre, FS_Subset
<1> QED BY <1>1, <1>3, FS_CardinalityType DEF Leaves, CountAll

LEMMA UptoNext ==
  ASSUME NEW list \in Seq(Slot), NEW a \in DOMAIN list, NEW l \in DOMAIN list[a].type.leaves
  PROVE  /\ Upto(list, AfterVar(list, a, l), AfterLeaf(list, a, l)) = Upto(list, a, l) \cup {<<a, l>>}
         /\ <<a, l>> \notin Upto(list, a, l)
<1>1. PICK n \in Nat \ {0} : n = Len(list[a].type.leaves) /\ l \in 1 .. n /\ DOMAIN list[a].type.leaves = 1 .. n
  BY ScalarsAre
<1>2. a \in Nat  BY ScalarsAre
<1>3. <<a, l>> \in Scalars(list)  BY ScalarsAre
<1>4. ASSUME NEW p \in Scalars(list)
      PROVE  /\ p[1] \in Nat /\ p[2] \in Nat /\ p[2] >= 1 /\ (p[1] = a => p[2] <= n)
             /\ (p[1] = a /\ p[2] = l => p = <<a, l>>)
  <2>1. PICK i \in DOMAIN list : \E j \in DOMAIN list[i].type.leaves : p = <<i, j>>
    BY ScalarsAre
  <2>2. PICK j \in DOMAIN list[i].type.leaves : p = <<i, j>>
    BY <2>1
  <2>3. DOMAIN list[i].type.leaves = 1 .. Len(list[i].type.leaves) /\ Len(list[i].type.leaves) \in Nat /\ i \in Nat
    BY ScalarsAre
  <2> QED BY <1>1, <2>2, <2>3
<1>5. PICK b, m : /\ b = AfterVar(list, a, l) /\ m = AfterLeaf(list, a, l)
                  /\ IF l = n THEN b = a + 1 /\ m = 1 ELSE b = a /\ m = l + 1
  BY <1>1 DEF AfterVar, AfterLeaf, LastLeaf
<1>6. ASSUME NEW p \in Scalars(list)
      PROVE  (p[1] < b \/ (p[1] = b /\ p[2] < m)) <=> (p[1] < a \/ (p[1] = a /\ p[2] < l) \/ p = <<a, l>>)
  <2>1. PICK x \in Nat, y \in Nat : x = p[1] /\ y = p[2]  BY <1>4
  <2>2. y >= 1 /\ (x = a => y <= n) /\ (x = a /\ y = l => p = <<a, l>>) /\ (p = <<a, l>> => x = a /\ y = l)
    BY <1>4, <2>1
  <2>3. (x < b \/ (x = b /\ y < m)) <=> (x < a \/ (x = a /\ y < l) \/ (x = a /\ y = l))
    BY <1>1, <1>2, <1>5, <2>2
  <2> QED BY <2>1, <2>2, <2>3
<1>7. Upto(list, b, m) = Upto(list, a, l) \cup {<<a, l>>}
  BY <1>3, <1>6 DEF Upto
<1>8. <<a, l>> \notin Upto(list, a, l)
  BY <1>1, <1>2 DEF Upto
<1> QED BY <1>5, <1>7, <1>8

LEMMA LeavesNext ==
  ASSUME NEW list \in Seq(Slot), NEW a \in DOMAIN list, NEW l \in DOMAIN list[a].type.leaves, NEW r
  PROVE  Leaves(list, AfterVar(list, a, l), AfterLeaf(list, a, l), r)
           = Leaves(list, a, l, r) + (IF list[a].type.leaves[l] = r THEN 1 ELSE 0)
<1>0. PICK b, m : b = AfterVar(list, a, l) /\ m = AfterLeaf(list, a, l)
  OBVIOUS
<1> DEFINE S == {p \in Upto(list, a, l) : list[p[1]].type.leaves[p[2]] = r}
           T == {p \in Upto(list, b, m) : list[p[1]].type.leaves[p[2]] = r}
<1>1. Leaves(list, a, l, r) = Cardinality(S) /\ IsFiniteSet(S) /\ Leaves(list, a, l, r) \in Nat
  BY LeavesAre
<1>5. Leaves(list, b, m, r) = Cardinality(T)
  BY LeavesAre
<1>2. Upto(list, b, m) = Upto(list, a, l) \cup {<<a, l>>} /\ <<a, l>> \notin Upto(list, a, l)
  BY <1>0, UptoNext
<1>3. CASE list[a].type.leaves[l] = r
  <2>1. T = S \cup {<<a, l>>} /\ <<a, l>> \notin S  BY <1>2, <1>3
  <2> HIDE DEF S, T
  <2>2. Cardinality(T) = Cardinality(S) + 1  BY <1>1, <2>1, FS_AddElement
  <2> QED BY <1>0, <1>1, <1>3, <1>5, <2>2
<1>4. CASE list[a].type.leaves[l] # r
  <2>1. T = S  BY <1>2, <1>4
  <2> HIDE DEF S, T
  <2> QED BY <1>0, <1>1, <1>4, <1>5, <2>1
<1> QED BY <1>3, <1>4

LEMMA LeavesStart ==
  ASSUME NEW list \in Seq(Slot), NEW r
  PROVE  Upto(list, 1, 1) = {} /\ Leaves(list, 1, 1, r) = 0
<1>1. Upto(list, 1, 1) = {}
  <2> SUFFICES ASSUME NEW p \in Upto(list, 1, 1) PROVE FALSE
    OBVIOUS
  <2>1. PICK i \in DOMAIN list : \E j \in DOMAIN list[i].type.leaves : p = <<i, j>>
    BY ScalarsAre DEF Upto
  <2>2. PICK j \in DOMAIN list[i].type.leaves : p = <<i, j>>
    BY <2>1
  <2>3. i \in Nat /\ i >= 1 /\ j \in Nat /\ j >= 1
    <3>1. j \in 1 .. Len(list[i].type.leaves) /\ i \in 1 .. Len(list)  BY ScalarsAre
    <3> QED BY <3>1
  <2> QED BY <2>2, <2>3 DEF Upto
<1>2. {p \in Upto(list, 1, 1) : list[p[1]].type.leaves[p[2]] = r} = {}
  BY <1>1
<1> QED BY <1>1, <1>2, LeavesAre, FS_EmptySet

LEMMA UptoEnd ==
  ASSUME NEW list \in Seq(Slot)
  PROVE  Upto(list, Len(list) + 1, 1) = Scalars(list)
<1> SUFFICES ASSUME NEW p \in Scalars(list) PROVE p[1] < Len(list) + 1
  BY DEF Upto
<1>1. PICK i \in DOMAIN list : p[1] = i
  BY ScalarsAre
<1> QED BY <1>1, ScalarsAre

-----------------------------------------------------------------------------
(* What code generation collects. *)

\* The declarations of a direction before the n-th, in their order.
Listed(decls, list, dir, n) ==
  /\ list \in Seq(Declaration)
  /\ \A i \in DOMAIN list : \E j \in DOMAIN decls : j < n /\ decls[j].kind = dir /\ list[i] = decls[j]
  /\ \A j \in DOMAIN decls : j < n /\ decls[j].kind = dir => \E i \in DOMAIN list : list[i] = decls[j]
  /\ \A i, k \in DOMAIN list, j, l \in DOMAIN decls :
       i < k /\ list[i] = decls[j] /\ list[k] = decls[l] => j < l

AllocasOf(vs, of) == [i \in DOMAIN vs |-> Alloca(vs[i], of)]
Builtin == IF shader.stage = "vertex" THEN <<Alloca(Position, "out")>> ELSE <<>>

\* The entry function stands at e, and saw those lists of stage variables.
EntryGenerated(e, inl, outl) ==
  /\ Decls[e].kind = "entry"
  /\ Listed(Decls, inl, "in", e) /\ Listed(Decls, outl, "out", e)
  /\ params = IF shader.stage = "compute" THEN <<>> ELSE AllocasOf(inl, "in")
  /\ results = IF shader.stage = "compute" THEN <<>> ELSE Builtin \o AllocasOf(outl, "out")
  /\ allocas = params \o results \o AllocasOf(shader.locals, "local")

InSema == {"sema in", "sema out"}
Unread == InSema \cup {"codegen", "failed"}

CodegenInv ==
  /\ shader \in Shaders
  /\ phase \in InSema => ins = <<>> /\ outs = <<>>
  /\ phase = "codegen" => /\ at \in 1 .. Len(Decls) + 1
                          /\ Listed(Decls, ins, "in", at) /\ Listed(Decls, outs, "out", at)
                          /\ \A n \in DOMAIN Decls : n < at /\ Decls[n].kind = "entry" =>
                               \E e \in DOMAIN Decls : e < at /\ \E inl, outl : EntryGenerated(e, inl, outl)
  /\ phase \notin Unread => \E e \in DOMAIN Decls : \E inl, outl : EntryGenerated(e, inl, outl)
  /\ phase \notin InSema \cup {"failed"} => errors = 0 /\ Doubles = {}

LEMMA DeclsAre ==
  ASSUME shader \in Shaders
  PROVE  /\ Decls \in Seq(Declaration) /\ Len(Decls) \in Nat /\ DOMAIN Decls = 1 .. Len(Decls)
         /\ \A i \in DOMAIN Decls : Decls[i] \in Declaration /\ Decls[i].type.leaves # <<>>
         /\ \E e \in DOMAIN Decls : Decls[e].kind = "entry"
         /\ \A i, j \in DOMAIN Decls : Decls[i].kind \in {"in", "out"} /\ i # j => Decls[i].name # Decls[j].name
<1>1. Decls \in Seq(Declaration)  BY ShadersAssumption DEF Decls
<1>2. Len(Decls) \in Nat /\ DOMAIN Decls = 1 .. Len(Decls)  BY <1>1, LenProperties
<1>3. \A i \in DOMAIN Decls : Decls[i] \in Declaration  BY <1>1, <1>2, ElementOfSeq
<1>4. \A i \in DOMAIN Decls : Decls[i].type.leaves # <<>>  BY NamesAssumption DEF Decls
<1>5. \E e \in DOMAIN Decls : Decls[e].kind = "entry"
  <2>1. Cardinality({e \in DOMAIN Decls : Decls[e].kind = "entry"}) = 1  BY NamesAssumption DEF Decls
  <2>2. {e \in DOMAIN Decls : Decls[e].kind = "entry"} # {}  BY <2>1, FS_EmptySet
  <2> QED BY <2>2
<1>6. \A i, j \in DOMAIN Decls : Decls[i].kind \in {"in", "out"} /\ i # j => Decls[i].name # Decls[j].name
  BY NamesAssumption DEF Decls
<1> QED BY <1>1, <1>2, <1>3, <1>4, <1>5, <1>6

\* One more declaration is looked at: it is of the direction or it is not.
LEMMA ListedAppend ==
  ASSUME shader \in Shaders, NEW n \in DOMAIN Decls, NEW dir \in {"in", "out"}, NEW list,
         Listed(Decls, list, dir, n), Decls[n].kind = dir
  PROVE  Listed(Decls, Append(list, Decls[n]), dir, n + 1)
<1> DEFINE more == Append(list, Decls[n])
<1>1. list \in Seq(Declaration) /\ Decls[n] \in Declaration /\ n \in Nat /\ \A j \in DOMAIN Decls : j \in Nat
  BY DeclsAre DEF Listed
<1>2. /\ more \in Seq(Declaration) /\ Len(list) \in Nat /\ DOMAIN list = 1 .. Len(list)
      /\ DOMAIN more = 1 .. Len(list) + 1 /\ more[Len(list) + 1] = Decls[n]
      /\ \A i \in DOMAIN list : i \in DOMAIN more /\ more[i] = list[i]
  <2>1. /\ more \in Seq(Declaration) /\ Len(more) = Len(list) + 1 /\ Len(list) \in Nat /\ DOMAIN list = 1 .. Len(list)
        /\ more[Len(list) + 1] = Decls[n] /\ \A i \in 1 .. Len(list) : more[i] = list[i]
    BY <1>1, AppendProperties, LenProperties
  <2>2. DOMAIN more = 1 .. Len(more)  BY <2>1, LenProperties
  <2> QED BY <2>1, <2>2
<1> HIDE DEF more
<1>3. \A i \in DOMAIN more : (i \in DOMAIN list /\ more[i] = list[i]) \/ (i = Len(list) + 1 /\ more[i] = Decls[n])
  <2>1. \A i \in DOMAIN more : i \in DOMAIN list \/ i = Len(list) + 1
    BY ONLY <1>2
  <2> QED BY ONLY <1>2, <2>1
<1>4. \A i \in DOMAIN more : \E j \in DOMAIN Decls : j < n + 1 /\ Decls[j].kind = dir /\ more[i] = Decls[j]
  <2> SUFFICES ASSUME NEW i \in DOMAIN more
               PROVE  \E j \in DOMAIN Decls : j < n + 1 /\ Decls[j].kind = dir /\ more[i] = Decls[j]
    OBVIOUS
  <2>1. CASE i \in DOMAIN list /\ more[i] = list[i]
    <3>1. PICK j \in DOMAIN Decls : j < n /\ Decls[j].kind = dir /\ list[i] = Decls[j]
      BY <2>1 DEF Listed
    <3>2. j < n + 1  BY <1>1, <3>1
    <3> QED BY <2>1, <3>1, <3>2
  <2>2. CASE more[i] = Decls[n]
    BY <1>1, <2>2
  <2> QED BY <1>3, <2>1, <2>2
<1>5. \A j \in DOMAIN Decls : j < n + 1 /\ Decls[j].kind = dir => \E i \in DOMAIN more : more[i] = Decls[j]
  <2> SUFFICES ASSUME NEW j \in DOMAIN Decls, j < n + 1, Decls[j].kind = dir
               PROVE  \E i \in DOMAIN more : more[i] = Decls[j]
    OBVIOUS
  <2>1. j < n \/ j = n  BY <1>1
  <2>2. CASE j < n
    <3>1. PICK i \in DOMAIN list : list[i] = Decls[j]  BY <2>2 DEF Listed
    <3> QED BY <1>2, <3>1
  <2>3. CASE j = n
    <3>1. Len(list) + 1 \in DOMAIN more  BY <1>2
    <3> QED BY <1>2, <2>3, <3>1
  <2> QED BY <2>1, <2>2, <2>3
<1>6. ASSUME NEW i \in DOMAIN more, NEW k \in DOMAIN more, NEW j \in DOMAIN Decls, NEW l \in DOMAIN Decls,
             i < k, more[i] = Decls[j], more[k] = Decls[l]
      PROVE  j < l
  <2>1. i \in DOMAIN list /\ more[i] = list[i]  BY <1>2, <1>3, <1>6
  <2>2. CASE k \in DOMAIN list /\ more[k] = list[k]
    BY <1>6, <2>1, <2>2 DEF Listed
  <2>3. CASE more[k] = Decls[n]
    <3>1. PICK m \in DOMAIN Decls : m < n /\ Decls[m].kind = dir /\ list[i] = Decls[m]
      BY <2>1 DEF Listed
    <3>2. j = m /\ l = n  BY <1>6, <2>1, <2>3, <3>1, DeclsAre
    <3> QED BY <3>1, <3>2
  <2> QED BY <1>3, <2>2, <2>3
<1> QED BY <1>2, <1>4, <1>5, <1>6 DEF Listed, more

LEMMA ListedSame ==
  ASSUME shader \in Shaders, NEW n \in Nat, NEW m \in Nat, n <= m, NEW dir, NEW list,
         Listed(Decls, list, dir, n), \A j \in DOMAIN Decls : n <= j /\ j < m => Decls[j].kind # dir
  PROVE  Listed(Decls, list, dir, m)
<1>1. \A j \in DOMAIN Decls : j \in Nat  BY DeclsAre
<1>2. \A j \in DOMAIN Decls : (j < n => j < m) /\ (j < m => j < n \/ Decls[j].kind # dir)
  BY <1>1
<1>3. \A i \in DOMAIN list : \E j \in DOMAIN Decls : j < m /\ Decls[j].kind = dir /\ list[i] = Decls[j]
  BY <1>2 DEF Listed
<1> QED BY <1>2, <1>3 DEF Listed

LEMMA NothingListed == ASSUME shader \in Shaders, NEW dir PROVE Listed(Decls, <<>>, dir, 1)
<1>1. <<>> \in Seq(Declaration) /\ DOMAIN <<>> = {}  OBVIOUS
<1>2. \A j \in DOMAIN Decls : ~(j < 1)  BY DeclsAre
<1> QED BY <1>1, <1>2 DEF Listed

\* What the predicates on lists and on the entry function read.
LEMMA GeneratedFrame ==
  ASSUME UNCHANGED <<shader, params, results, allocas>>
  PROVE  /\ Decls' = Decls /\ Doubles' = Doubles
         /\ \A e, inl, outl : EntryGenerated(e, inl, outl)' <=> EntryGenerated(e, inl, outl)
<1>1. Decls' = Decls  BY DEF Decls
<1>2. Doubles' = Doubles  BY DEF Doubles, Interpolated, Decls
<1>3. \A e, inl, outl : EntryGenerated(e, inl, outl)' <=> EntryGenerated(e, inl, outl)
  BY <1>1 DEF EntryGenerated, Builtin
<1> QED BY <1>1, <1>2, <1>3

LEMMA CodegenFrame ==
  ASSUME CodegenInv, UNCHANGED <<shader, codegenVars>>,
         phase' \in InSema => phase \in InSema,
         phase' = "codegen" => phase = "codegen" /\ at' = at,
         phase' \notin Unread => phase \notin Unread,
         phase' \notin InSema \cup {"failed"} => phase \notin InSema \cup {"failed"} /\ errors' = errors
  PROVE  CodegenInv'
<1>1. UNCHANGED <<shader, ins, outs, params, results, allocas>>
  BY DEF codegenVars
<1>2. /\ Decls' = Decls /\ Doubles' = Doubles
      /\ \A e, inl, outl : EntryGenerated(e, inl, outl)' <=> EntryGenerated(e, inl, outl)
  BY <1>1, GeneratedFrame
<1>3. shader' \in Shaders /\ (phase' \in InSema => ins' = <<>> /\ outs' = <<>>)
  BY <1>1 DEF CodegenInv
<1>4. ASSUME phase' = "codegen"
      PROVE  /\ at' \in 1 .. Len(Decls') + 1
             /\ Listed(Decls', ins', "in", at') /\ Listed(Decls', outs', "out", at')
             /\ \A n \in DOMAIN Decls' : n < at' /\ Decls'[n].kind = "entry" =>
                  \E e \in DOMAIN Decls' : e < at' /\ \E inl, outl : EntryGenerated(e, inl, outl)'
  BY <1>1, <1>2, <1>4 DEF CodegenInv
<1>5. phase' \notin Unread => \E e \in DOMAIN Decls' : \E inl, outl : EntryGenerated(e, inl, outl)'
  BY <1>2 DEF CodegenInv
<1>6. phase' \notin InSema \cup {"failed"} => errors' = 0 /\ Doubles' = {}
  BY <1>2 DEF CodegenInv
<1> QED BY <1>3, <1>4, <1>5, <1>6 DEF CodegenInv

LEMMA SemaEndCodegen ==
  ASSUME CodegenInv, errors \in Nat, SemaEnd
  PROVE  CodegenInv'
<1>1. shader \in Shaders /\ UNCHANGED <<shader, ins, outs, params, results, allocas>> /\ phase \in InSema
  BY DEF CodegenInv, SemaEnd, codegenVars, InSema
<1>2. /\ Decls' = Decls /\ Doubles' = Doubles
  BY <1>1, GeneratedFrame
<1>3. CASE errors' > 0
  <2>1. phase' = "failed"  BY <1>3 DEF SemaEnd, Stop
  <2> QED BY <1>1, <2>1 DEF CodegenInv, InSema, Unread
<1>4. CASE ~(errors' > 0)
  <2>1. phase' = "codegen" /\ at' = 1  BY <1>4 DEF SemaEnd, Begin
  <2>2. errors' = errors + Cardinality(Doubles)  BY DEF SemaEnd
  <2>3. Cardinality(Doubles) \in Nat /\ IsFiniteSet(Doubles)  BY <1>1, DoublesFinite
  <2>4. errors' = 0 /\ Cardinality(Doubles) = 0  BY <1>4, <2>2, <2>3
  <2>5. Doubles = {}  BY <2>3, <2>4, FS_EmptySet
  <2>6. ins' = <<>> /\ outs' = <<>>  BY <1>1 DEF CodegenInv
  <2>7. \A dir : Listed(Decls, <<>>, dir, 1)  BY <1>1, NothingListed
  <2>8. Len(Decls) \in Nat /\ \A n \in DOMAIN Decls : ~(n < 1)  BY <1>1, DeclsAre
  <2>9. at' \in 1 .. Len(Decls') + 1 /\ Listed(Decls', ins', "in", at') /\ Listed(Decls', outs', "out", at')
    BY <1>2, <2>1, <2>6, <2>7, <2>8
  <2>10. \A n \in DOMAIN Decls' : ~(n < at')
    BY <1>2, <2>1, <2>8
  <2> QED BY <1>1, <1>2, <2>1, <2>4, <2>5, <2>9, <2>10 DEF CodegenInv, InSema, Unread
<1> QED BY <1>3, <1>4

\* One declaration of code generation: the lists grow by it, or stay.
LEMMA DeclareCodegen ==
  ASSUME CodegenInv, DeclareStageVar \/ DeclareGlobal \/ GenerateEntry
  PROVE  CodegenInv'
<1>1. /\ shader \in Shaders /\ shader' = shader /\ errors' = errors
      /\ phase = "codegen" /\ at \in DOMAIN Decls /\ phase' \in {"codegen", "failed"}
      /\ (phase' = "codegen" => at' = at + 1)
  BY DEF CodegenInv, DeclareStageVar, DeclareGlobal, GenerateEntry, Declaring, Pass, Stop, semaVars
<1>2. /\ Listed(Decls, ins, "in", at) /\ Listed(Decls, outs, "out", at) /\ errors = 0 /\ Doubles = {}
      /\ \A n \in DOMAIN Decls : n < at /\ Decls[n].kind = "entry" =>
           \E e \in DOMAIN Decls : e < at /\ \E inl, outl : EntryGenerated(e, inl, outl)
  BY <1>1 DEF CodegenInv, InSema
<1>3. Len(Decls) \in Nat /\ DOMAIN Decls = 1 .. Len(Decls) /\ at \in Nat
  BY <1>1, DeclsAre
<1>4. Decls' = Decls /\ Doubles' = Doubles
  BY <1>1 DEF Decls, Doubles, Interpolated
<1>5. Listed(Decls, ins', "in", at + 1) /\ Listed(Decls, outs', "out", at + 1)
  <2>1. ASSUME NEW dir \in {"in", "out"}, NEW list, Listed(Decls, list, dir, at), Decls[at].kind = dir
        PROVE  Listed(Decls, Append(list, Node), dir, at + 1)
    BY <1>1, <2>1, ListedAppend DEF Node
  <2>2. ASSUME NEW dir \in {"in", "out"}, NEW list, Listed(Decls, list, dir, at), Decls[at].kind # dir
        PROVE  Listed(Decls, list, dir, at + 1)
    <3>1. \A j \in DOMAIN Decls : at <= j /\ j < at + 1 => j = at
      BY <1>3
    <3> QED BY <1>1, <1>3, <2>2, <3>1, ListedSame
  <2>3. /\ ins' = IF Decls[at].kind = "in" THEN Append(ins, Node) ELSE ins
        /\ outs' = IF Decls[at].kind = "out" THEN Append(outs, Node) ELSE outs
    BY DEF DeclareStageVar, DeclareGlobal, GenerateEntry, Declaring, Node
  <2> QED BY <1>2, <2>1, <2>2, <2>3
<1>6. ASSUME NEW n \in DOMAIN Decls, n < at + 1, Decls[n].kind = "entry"
      PROVE  \E e \in DOMAIN Decls : e < at + 1 /\ \E inl, outl : EntryGenerated(e, inl, outl)'
  <2>1. CASE GenerateEntry
    <3>1. /\ Decls[at].kind = "entry"
          /\ params' = IF shader.stage = "compute" THEN <<>> ELSE AllocasOf(ins, "in")
          /\ results' = IF shader.stage = "compute" THEN <<>> ELSE Builtin \o AllocasOf(outs, "out")
          /\ allocas' = params' \o results' \o AllocasOf(shader.locals, "local")
      BY <2>1 DEF GenerateEntry, Declaring, Node, AllocasOf, Builtin
    <3>2. PICK e, inl, outl : e = at /\ inl = ins /\ outl = outs
      OBVIOUS
    <3>3. EntryGenerated(e, inl, outl)'
      BY <1>1, <1>2, <1>4, <3>1, <3>2 DEF EntryGenerated, Builtin
    <3>4. e \in DOMAIN Decls /\ e < at + 1  BY <1>1, <1>3, <3>2
    <3> QED BY <3>3, <3>4
  <2>2. CASE ~GenerateEntry
    <3>1. UNCHANGED <<params, results, allocas>> /\ Decls[at].kind # "entry"
      BY <2>2 DEF DeclareStageVar, DeclareGlobal, Declaring, Node
    <3>2. n < at  BY <1>3, <1>6, <3>1
    <3>3. PICK e \in DOMAIN Decls : e < at /\ \E inl, outl : EntryGenerated(e, inl, outl)
      BY <1>2, <1>6, <3>2
    <3>4. e < at + 1  BY <1>3, <3>3
    <3>5. \A inl, outl : EntryGenerated(e, inl, outl)' <=> EntryGenerated(e, inl, outl)
      BY <1>1, <3>1, GeneratedFrame
    <3> QED BY <3>3, <3>4, <3>5
  <2> QED BY <2>1, <2>2
<1>7. at + 1 \in 1 .. Len(Decls) + 1  BY <1>1, <1>3
<1>8. CASE phase' = "failed"
  BY <1>1, <1>8 DEF CodegenInv, InSema, Unread
<1>9. CASE phase' = "codegen"
  <2>1. at' = at + 1  BY <1>1, <1>9
  <2>2. Listed(Decls', ins', "in", at') /\ Listed(Decls', outs', "out", at')
    BY <1>4, <1>5, <2>1
  <2>3. \A n \in DOMAIN Decls' : n < at' /\ Decls'[n].kind = "entry" =>
           \E e \in DOMAIN Decls' : e < at' /\ \E inl, outl : EntryGenerated(e, inl, outl)'
    BY <1>4, <1>6, <2>1
  <2> QED BY <1>1, <1>2, <1>4, <1>7, <1>9, <2>1, <2>2, <2>3 DEF CodegenInv, InSema, Unread
<1> QED BY <1>1, <1>8, <1>9

LEMMA CodegenStep == CodegenInv /\ ReservedInv /\ [Next]_vars => CodegenInv'
<1> SUFFICES ASSUME CodegenInv, ReservedInv, [Next]_vars PROVE CodegenInv'
  OBVIOUS
<1>1. CASE \E d \in {"in", "out"} : ReserveLocations(d) \/ SkipDeclaration(d)
  <2>1. phase \in InSema /\ phase' = phase /\ UNCHANGED <<shader, codegenVars>>
    BY <1>1 DEF ReserveLocations, SkipDeclaration, Checking, Pass, InSema
  <2> QED BY <2>1, CodegenFrame DEF InSema, Unread
<1>2. CASE NextCheck
  <2>1. phase \in InSema /\ phase' \in InSema /\ UNCHANGED <<shader, codegenVars>>
    BY <1>2 DEF NextCheck, Begin, InSema
  <2> QED BY <2>1, CodegenFrame DEF InSema, Unread
<1>3. CASE SemaEnd
  BY <1>3, SemaEndCodegen DEF ReservedInv
<1>4. CASE DeclareStageVar \/ DeclareGlobal \/ GenerateEntry
  BY <1>4, DeclareCodegen
<1>5. CASE CodegenEnd
  <2>1. /\ phase = "codegen" /\ phase' \in {"uniforms", "trampoline"} /\ at \notin DOMAIN Decls
        /\ UNCHANGED <<shader, codegenVars, errors>>
    BY <1>5 DEF CodegenEnd, Begin, semaVars
  <2>2. PICK e \in DOMAIN Decls : Decls[e].kind = "entry"
    BY DeclsAre DEF CodegenInv
  <2>3. e < at
    <3>1. at \in 1 .. Len(Decls) + 1 /\ Len(Decls) \in Nat /\ DOMAIN Decls = 1 .. Len(Decls)
      BY <2>1, DeclsAre DEF CodegenInv
    <3> QED BY <2>1, <3>1
  <2>4. PICK m \in DOMAIN Decls : \E inl, outl : EntryGenerated(m, inl, outl)
    BY <2>1, <2>2, <2>3 DEF CodegenInv
  <2>5. UNCHANGED <<shader, ins, outs, params, results, allocas>>  BY <2>1 DEF codegenVars
  <2>6. /\ Decls' = Decls /\ Doubles' = Doubles
        /\ \A q, inl, outl : EntryGenerated(q, inl, outl)' <=> EntryGenerated(q, inl, outl)
    BY <2>5, GeneratedFrame
  <2>7. \E q \in DOMAIN Decls' : \E inl, outl : EntryGenerated(q, inl, outl)'
    BY <2>4, <2>6
  <2>8. errors' = 0 /\ Doubles' = {} /\ shader' \in Shaders
    BY <2>1, <2>6 DEF CodegenInv, InSema
  <2> QED BY <2>1, <2>7, <2>8 DEF CodegenInv, InSema, Unread
<1>6. CASE Spirv \/ Flat \/ Row \/ UNCHANGED vars
  <2>1. UNCHANGED <<shader, codegenVars, errors>>
    BY <1>6 DEF Spirv, AnalyzeUniform, AnalyzeBuffer, AnalyzeSampler, AnalyzeResource, SkipGlobal, AnalysisEnd,
       DeclareInput, InputsEnd, DeclareOutput, OutputsEnd, Flat, Trampoline, LoadAttribute, LoadVarying, LoadEnd,
       StoreVarying, StoreOutput, StoreEnd, Move, MoveSplit, LoadSplit, StoreSplit, Row, Dispatch, Invoke,
       semaVars, vars
  <2>2. \/ phase' = phase /\ at' = at
        \/ phase \notin Unread /\ phase' \notin InSema \cup {"codegen"}
    <3>1. CASE Spirv
      BY <3>1 DEF Spirv, AnalyzeUniform, AnalyzeBuffer, AnalyzeSampler, AnalyzeResource, Visiting, Resource, SkipGlobal,
         AnalysisEnd, DeclareInput, InputsEnd, DeclareOutput, OutputsEnd, Pass, Begin, Stop, Unread, InSema
    <3>2. CASE Flat
      BY <3>2 DEF Flat, Trampoline, LoadAttribute, LoadVarying, LoadEnd, Moving,
         StoreVarying, StoreOutput, StoreEnd, Move, MoveSplit, LoadSplit, StoreSplit, Begin, Stop, Unread, InSema
    <3>3. CASE Row \/ UNCHANGED vars
      BY <3>3 DEF Row, Dispatch, Invoke, Stop, vars, Unread, InSema
    <3> QED BY <1>6, <3>1, <3>2, <3>3
  <2> QED BY <2>1, <2>2, CodegenFrame DEF Unread, InSema
<1> QED BY <1>1, <1>2, <1>3, <1>4, <1>5, <1>6 DEF Next, Sema, Codegen, Finished

LEMMA CodegenInit == Init => CodegenInv
BY DEF Init, CodegenInv, InSema, Unread

\* What is declared is a variable with scalars; nothing that is interpolated is a double.
AllFloat(list) == \A i \in DOMAIN list : \A j \in DOMAIN list[i].type.leaves : list[i].type.leaves[j] = "f"

LEMMA ListedSlots ==
  ASSUME shader \in Shaders, NEW list, NEW dir \in {"in", "out"}, NEW n, Listed(Decls, list, dir, n)
  PROVE  /\ AllocasOf(list, dir) \in Seq(Slot)
         /\ Doubles = {} /\ (\A d \in Declaration : d.kind = dir => Interpolated(d)) => AllFloat(AllocasOf(list, dir))
<1> DEFINE all == AllocasOf(list, dir)
<1>1. Len(list) \in Nat /\ DOMAIN list = 1 .. Len(list)
  BY LenProperties DEF Listed
<1>2. ASSUME NEW i \in DOMAIN list
      PROVE  /\ all[i] \in Slot /\ all[i].type = list[i].type
             /\ list[i] \in Declaration /\ list[i].kind = dir /\ list[i] \in Elems(Decls)
  <2>1. PICK j \in DOMAIN Decls : Decls[j].kind = dir /\ list[i] = Decls[j]
    BY DEF Listed
  <2>2. list[i] \in Declaration /\ list[i].type.leaves # <<>>  BY <2>1, DeclsAre
  <2>3. all[i] = Alloca(list[i], dir)  BY DEF AllocasOf
  <2>4. Alloca(list[i], dir) \in Slot /\ Alloca(list[i], dir).type = list[i].type
    BY <2>2 DEF Alloca, Slot, Declaration, Variable
  <2> QED BY <2>1, <2>2, <2>3, <2>4 DEF Elems
<1>3. all = [i \in 1 .. Len(list) |-> all[i]]
  BY <1>1 DEF AllocasOf
<1>4. DOMAIN all = DOMAIN list
  BY DEF AllocasOf
<1> HIDE DEF all
<1>5. all \in [1 .. Len(list) -> Slot]
  BY <1>1, <1>2, <1>3
<1>6. all \in Seq(Slot)
  BY <1>1, <1>5, SeqDef
<1>7. ASSUME Doubles = {}, \A d \in Declaration : d.kind = dir => Interpolated(d)
      PROVE  AllFloat(all)
  <2> SUFFICES ASSUME NEW i \in DOMAIN list, NEW j \in DOMAIN all[i].type.leaves
               PROVE  all[i].type.leaves[j] = "f"
    BY <1>4 DEF AllFloat
  <2>1. list[i] \in Elems(Decls) /\ Interpolated(list[i])  BY <1>2, <1>7
  <2>2. "d" \notin Elems(list[i].type.leaves)  BY <1>7, <2>1 DEF Doubles
  <2>3. all[i].type.leaves[j] # "d"  BY <1>2, <2>2 DEF Elems
  <2>4. all[i].type.leaves[j] \in {"f", "d"}  BY <1>4, <1>6, ScalarsAre
  <2> QED BY <2>3, <2>4
<1> QED BY <1>6, <1>7 DEF all

LEMMA InterfaceTyped ==
  ASSUME CodegenInv, phase \notin Unread
  PROVE  /\ params \in Seq(Slot) /\ results \in Seq(Slot)
         /\ shader.stage = "fragment" => AllFloat(params)
         /\ shader.stage = "vertex" => AllFloat(results)
<1>1. shader \in Shaders /\ Doubles = {}
  BY DEF CodegenInv, Unread
<1>2. PICK e \in DOMAIN Decls : \E inl, outl : EntryGenerated(e, inl, outl)
  BY DEF CodegenInv
<1>3. PICK inl, outl : EntryGenerated(e, inl, outl)
  BY <1>2
<1>4. /\ params = IF shader.stage = "compute" THEN <<>> ELSE AllocasOf(inl, "in")
      /\ results = IF shader.stage = "compute" THEN <<>> ELSE Builtin \o AllocasOf(outl, "out")
      /\ Listed(Decls, inl, "in", e) /\ Listed(Decls, outl, "out", e)
  BY <1>3 DEF EntryGenerated
<1>5. AllocasOf(inl, "in") \in Seq(Slot) /\ AllocasOf(outl, "out") \in Seq(Slot)
  BY <1>1, <1>4, ListedSlots
<1>6. /\ shader.stage = "fragment" => AllFloat(AllocasOf(inl, "in"))
      /\ shader.stage = "vertex" => AllFloat(AllocasOf(outl, "out"))
  <2>1. \A d \in Declaration : shader.stage = "fragment" /\ d.kind = "in" => Interpolated(d)
    BY DEF Interpolated
  <2>2. \A d \in Declaration : shader.stage = "vertex" /\ d.kind = "out" => Interpolated(d)
    BY DEF Interpolated
  <2> QED BY <1>1, <1>4, <2>1, <2>2, ListedSlots
<1>7. \A S : <<>> \in Seq(S)  OBVIOUS
<1>8. Builtin \in Seq(Slot) /\ (shader.stage = "vertex" => Len(Builtin) = 1 /\ Builtin[1].type = Vec4)
  <2>1. CASE shader.stage = "vertex"
    <3>1. Vec4 \in Type /\ Vec4.leaves # <<>>
      <4>1. <<"f", "f", "f", "f">> \in Seq({"f", "d"}) /\ <<"f", "f", "f", "f">> # <<>>
        OBVIOUS
      <4>2. Vec4 \in Type /\ Vec4.leaves = <<"f", "f", "f", "f">>
        BY <4>1 DEF Vec4, Type
      <4> QED BY <4>1, <4>2
    <3>2. Alloca(Position, "out") \in Slot /\ Alloca(Position, "out").type = Vec4
      <4>1. PICK p : p = Alloca(Position, "out")  OBVIOUS
      <4>2. p = [name |-> "gl_Position", type |-> Vec4, loc |-> -1, of |-> "out"]
        BY <4>1 DEF Alloca, Position
      <4>3. Vec4 \in {t \in Type : t.leaves # <<>>} /\ -1 \in Int  BY <3>1
      <4>4. p.type = Vec4  BY <4>2
      <4>5. p \in Slot  BY ONLY <4>2, <4>3 DEF Slot
      <4> QED BY <4>1, <4>4, <4>5
    <3>3. Builtin = <<Alloca(Position, "out")>>  BY <2>1 DEF Builtin
    <3> HIDE DEF Alloca, Slot
    <3> QED BY <3>2, <3>3
  <2>2. CASE shader.stage # "vertex"
    BY <1>7, <2>2 DEF Builtin
  <2> QED BY <2>1, <2>2
<1>9. Builtin \o AllocasOf(outl, "out") \in Seq(Slot)
  BY <1>5, <1>8, ConcatProperties
<1>10. ASSUME shader.stage = "vertex" PROVE AllFloat(results)
  <2>1. PICK a : a = AllocasOf(outl, "out")  OBVIOUS
  <2>2. results = Builtin \o a /\ a \in Seq(Slot) /\ AllFloat(a)  BY <1>4, <1>5, <1>6, <1>10, <2>1
  <2>3. /\ DOMAIN results = 1 .. 1 + Len(a) /\ Len(a) \in Nat /\ DOMAIN a = 1 .. Len(a)
        /\ \A i \in 1 .. 1 + Len(a) : results[i] = IF i <= 1 THEN Builtin[i] ELSE a[i - 1]
    <3>1. Builtin \in Seq(Slot) /\ Len(Builtin) = 1  BY <1>8, <1>10
    <3>2. PICK b : b = Builtin  OBVIOUS
    <3>3. /\ b \o a \in Seq(Slot) /\ Len(b \o a) = 1 + Len(a)
          /\ \A i \in 1 .. 1 + Len(a) : (b \o a)[i] = IF i <= 1 THEN b[i] ELSE a[i - 1]
      <4>1. b \in Seq(Slot) /\ a \in Seq(Slot) /\ Len(b) = 1  BY <2>2, <3>1, <3>2
      <4>2. /\ b \o a \in Seq(Slot) /\ Len(b \o a) = Len(b) + Len(a)
            /\ \A i \in 1 .. Len(b) + Len(a) : (b \o a)[i] = IF i <= Len(b) THEN b[i] ELSE a[i - Len(b)]
        BY ONLY <4>1, ConcatProperties
      <4> QED BY ONLY <4>1, <4>2
    <3>4. results = b \o a  BY <2>2, <3>2
    <3>5. DOMAIN results = 1 .. Len(results) /\ Len(a) \in Nat /\ DOMAIN a = 1 .. Len(a)
      BY <2>2, <3>3, <3>4, LenProperties
    <3> QED BY <3>2, <3>3, <3>4, <3>5
  <2>4. \A i \in DOMAIN results : results[i].type = Vec4 \/ \E k \in DOMAIN a : results[i] = a[k]
    <3> SUFFICES ASSUME NEW i \in DOMAIN results
                 PROVE  results[i].type = Vec4 \/ \E k \in DOMAIN a : results[i] = a[k]
      OBVIOUS
    <3>1. CASE i = 1
      BY <1>8, <1>10, <2>3, <3>1
    <3>2. CASE i # 1
      <4>1. i - 1 \in DOMAIN a /\ results[i] = a[i - 1]  BY <2>3, <3>2
      <4> QED BY <4>1
    <3> QED BY <3>1, <3>2
  <2>5. \A j \in DOMAIN Vec4.leaves : Vec4.leaves[j] = "f"
    BY DEF Vec4
  <2> QED BY <2>2, <2>4, <2>5 DEF AllFloat
<1>11. params \in Seq(Slot) /\ results \in Seq(Slot)
  BY <1>4, <1>5, <1>7, <1>9
<1>12. ASSUME shader.stage = "fragment" PROVE AllFloat(params)
  BY <1>4, <1>6, <1>12
<1> QED BY <1>10, <1>11, <1>12

-----------------------------------------------------------------------------
(* What the trampolines move. *)

\* The move of a scalar, and those of the scalars before leaf l of variable a.
MoveOf(dir, list, p) ==
  [dir |-> dir, var |-> p[1], leaf |-> p[2], region |-> list[p[1]].type.leaves[p[2]],
   slot |-> Leaves(list, p[1], p[2], list[p[1]].type.leaves[p[2]])]
MovesTo(dir, list, a, l) == {MoveOf(dir, list, p) : p \in Upto(list, a, l)}
AllMoves(dir, list) == {MoveOf(dir, list, p) : p \in Scalars(list)}

\* A leaf of a variable, or the end.
AtLeaf(list, a, l) ==
  a \in 1 .. Len(list) + 1 /\ IF a \in DOMAIN list THEN l \in DOMAIN list[a].type.leaves ELSE l = 1

Loading ==
  /\ shader.stage \in {"vertex", "fragment"} /\ AtLeaf(params, at, leaf)
  /\ moves = MovesTo("in", params, at, leaf)
  /\ IF shader.stage = "vertex"
     THEN fOff = Leaves(params, at, leaf, "f") /\ dOff = Leaves(params, at, leaf, "d")
     ELSE fOff + (leaf - 1) = Leaves(params, at, leaf, "f")
Storing ==
  /\ shader.stage \in {"vertex", "fragment"} /\ AtLeaf(results, at, leaf)
  /\ moves = AllMoves("in", params) \cup MovesTo("out", results, at, leaf)
  /\ fOff = Leaves(results, at, leaf, "f")
  /\ shader.stage = "fragment" => dOff = Leaves(results, at, leaf, "d")
AllMoved == moves = AllMoves("in", params) \cup AllMoves("out", results)

SizesAnnounced ==
  \A r \in {"f", "d"} : /\ sizes["out"][r] = CountAll(results, r)
                        /\ shader.stage = "vertex" => sizes["in"][r] = CountAll(params, r)

PackInv ==
  /\ fOff \in Nat /\ dOff \in Nat /\ leaf \in Nat \ {0}
  /\ phase \in Unread \cup {"trampoline"} => moves = {} /\ leaf = 1
  /\ phase = "trampoline" => fOff = 0 /\ dOff = 0
  /\ phase \in Unread => fOff = 0 /\ dOff = 0
  /\ phase = "load" => Loading
  /\ phase = "store" => Storing
  /\ phase \notin {"load", "store"} => moves = {} \/ AllMoved
  /\ phase \in {"load", "store"} \/ moves # {} => SizesAnnounced

LEMMA AtLeafFacts ==
  ASSUME NEW list \in Seq(Slot), NEW a, NEW l, AtLeaf(list, a, l)
  PROVE  /\ a \in Nat \ {0} /\ l \in Nat \ {0}
         /\ (a \notin DOMAIN list => a = Len(list) + 1 /\ l = 1)
BY ScalarsAre DEF AtLeaf

LEMMA AtLeafStart == ASSUME NEW list \in Seq(Slot) PROVE AtLeaf(list, 1, 1)
<1>1. 1 \in 1 .. Len(list) + 1  BY ScalarsAre
<1>2. 1 \in DOMAIN list => 1 \in DOMAIN list[1].type.leaves
  <2> SUFFICES ASSUME 1 \in DOMAIN list PROVE 1 \in DOMAIN list[1].type.leaves
    OBVIOUS
  <2>1. PICK n \in Nat \ {0} : DOMAIN list[1].type.leaves = 1 .. n  BY ScalarsAre
  <2> QED BY <2>1
<1> QED BY <1>1, <1>2 DEF AtLeaf

LEMMA AtLeafNext ==
  ASSUME NEW list \in Seq(Slot), NEW a \in DOMAIN list, NEW l \in DOMAIN list[a].type.leaves
  PROVE  AtLeaf(list, AfterVar(list, a, l), AfterLeaf(list, a, l))
<1>1. PICK n \in Nat \ {0} : DOMAIN list[a].type.leaves = 1 .. n /\ n = Len(list[a].type.leaves)
  BY ScalarsAre
<1>2. Len(list) \in Nat /\ DOMAIN list = 1 .. Len(list)
  BY ScalarsAre
<1>3. CASE l = n
  <2>1. AfterVar(list, a, l) = a + 1 /\ AfterLeaf(list, a, l) = 1
    BY <1>1, <1>3 DEF AfterVar, AfterLeaf, LastLeaf
  <2>2. a + 1 \in 1 .. Len(list) + 1  BY <1>2
  <2>3. a + 1 \in DOMAIN list => 1 \in DOMAIN list[a + 1].type.leaves
    <3> SUFFICES ASSUME a + 1 \in DOMAIN list PROVE 1 \in DOMAIN list[a + 1].type.leaves
      OBVIOUS
    <3>1. PICK m \in Nat \ {0} : DOMAIN list[a + 1].type.leaves = 1 .. m  BY ScalarsAre
    <3> QED BY <3>1
  <2> QED BY <2>1, <2>2, <2>3 DEF AtLeaf
<1>4. CASE l # n
  <2>1. AfterVar(list, a, l) = a /\ AfterLeaf(list, a, l) = l + 1
    BY <1>1, <1>4 DEF AfterVar, AfterLeaf, LastLeaf
  <2>2. a \in 1 .. Len(list) + 1 /\ l + 1 \in DOMAIN list[a].type.leaves  BY <1>1, <1>2, <1>4
  <2> QED BY <2>1, <2>2 DEF AtLeaf
<1> QED BY <1>3, <1>4

LEMMA MovesNext ==
  ASSUME NEW dir, NEW list \in Seq(Slot), NEW a \in DOMAIN list, NEW l \in DOMAIN list[a].type.leaves
  PROVE  MovesTo(dir, list, AfterVar(list, a, l), AfterLeaf(list, a, l))
           = MovesTo(dir, list, a, l) \cup {MoveOf(dir, list, <<a, l>>)}
BY UptoNext DEF MovesTo

LEMMA MovesEnds ==
  ASSUME NEW dir, NEW list \in Seq(Slot)
  PROVE  MovesTo(dir, list, 1, 1) = {} /\ MovesTo(dir, list, Len(list) + 1, 1) = AllMoves(dir, list)
BY LeavesStart, UptoEnd DEF MovesTo, AllMoves

\* A move to the slot that the running offset names, as the scalar's place in the list says.
LEMMA MoveStep ==
  ASSUME NEW dir, NEW list \in Seq(Slot), NEW r, NEW s, AtLeaf(list, at, leaf), at \in DOMAIN list,
         Move(dir, list[at], r, s),
         r = list[at].type.leaves[leaf], s = Leaves(list, at, leaf, r)
  PROVE  /\ at' = AfterVar(list, at, leaf) /\ leaf' = AfterLeaf(list, at, leaf)
         /\ AtLeaf(list, at', leaf')
         /\ moves' = moves \cup {MoveOf(dir, list, <<at, leaf>>)}
         /\ MovesTo(dir, list, at', leaf') = MovesTo(dir, list, at, leaf) \cup {MoveOf(dir, list, <<at, leaf>>)}
         /\ \A q \in {"f", "d"} : /\ Leaves(list, at', leaf', q) \in Nat /\ Leaves(list, at, leaf, q) \in Nat
                                  /\ Leaves(list, at', leaf', q) = Leaves(list, at, leaf, q) + (IF r = q THEN 1 ELSE 0)
<1>1. PICK a, l, b, m : /\ a = at /\ l = leaf /\ b = AfterVar(list, a, l) /\ m = AfterLeaf(list, a, l)
                        /\ at' = b /\ leaf' = m
  BY DEF Move, IsLast, AfterVar, AfterLeaf, LastLeaf
<1>2. a \in DOMAIN list /\ l \in DOMAIN list[a].type.leaves /\ r = list[a].type.leaves[l]
  BY <1>1 DEF AtLeaf
<1>3. AtLeaf(list, b, m)
  BY <1>1, <1>2, AtLeafNext
<1>4. moves' = moves \cup {MoveOf(dir, list, <<a, l>>)}
  BY <1>1 DEF Move, MoveOf
<1>5. MovesTo(dir, list, b, m) = MovesTo(dir, list, a, l) \cup {MoveOf(dir, list, <<a, l>>)}
  BY <1>1, <1>2, MovesNext
<1>6. \A q \in {"f", "d"} : /\ Leaves(list, b, m, q) \in Nat /\ Leaves(list, a, l, q) \in Nat
                            /\ Leaves(list, b, m, q) = Leaves(list, a, l, q) + (IF r = q THEN 1 ELSE 0)
  <2> SUFFICES ASSUME NEW q
               PROVE  /\ Leaves(list, b, m, q) \in Nat /\ Leaves(list, a, l, q) \in Nat
                      /\ Leaves(list, b, m, q) = Leaves(list, a, l, q) + (IF r = q THEN 1 ELSE 0)
    OBVIOUS
  <2>1. Leaves(list, b, m, q) \in Nat  BY LeavesAre
  <2>2. Leaves(list, a, l, q) \in Nat  BY LeavesAre
  <2>3. Leaves(list, b, m, q) = Leaves(list, a, l, q) + (IF r = q THEN 1 ELSE 0)
    BY <1>1, <1>2, LeavesNext
  <2> QED BY <2>1, <2>2, <2>3
<1> QED BY <1>1, <1>3, <1>4, <1>5, <1>6

\* What the moves of a list's end depend on.
LEMMA PackFrame ==
  ASSUME PackInv, UNCHANGED <<shader, params, results, moves, leaf, fOff, dOff, sizes>>,
         \/ phase' = phase /\ at' = at
         \/ /\ phase \notin {"load", "store"} /\ phase' \notin {"load", "store"}
            /\ phase' \in Unread \cup {"trampoline"} => phase \in Unread \cup {"trampoline"}
  PROVE  PackInv'
<1>1. SizesAnnounced' <=> SizesAnnounced  BY DEF SizesAnnounced
<1>2. AllMoved' <=> AllMoved  BY DEF AllMoved, AllMoves
<1>3. phase' = phase /\ at' = at => (Loading' <=> Loading) /\ (Storing' <=> Storing)
  BY DEF Loading, Storing
<1>4. phase \in Unread \cup {"trampoline"} => fOff = 0 /\ dOff = 0
  BY DEF PackInv
<1>5. /\ fOff' \in Nat /\ dOff' \in Nat /\ leaf' \in Nat \ {0}
      /\ phase' \in Unread \cup {"trampoline"} => moves' = {} /\ leaf' = 1 /\ fOff' = 0 /\ dOff' = 0
  BY <1>4 DEF PackInv
<1>6. phase' \notin {"load", "store"} => moves' = {} \/ AllMoved'
  BY <1>2 DEF PackInv
<1>7. phase' \in {"load", "store"} \/ moves' # {} => SizesAnnounced'
  BY <1>1 DEF PackInv
<1>8. (phase' = "load" => Loading') /\ (phase' = "store" => Storing')
  BY <1>3 DEF PackInv
<1> QED BY <1>5, <1>6, <1>7, <1>8 DEF PackInv

LEMMA TrampolinePacks ==
  ASSUME CodegenInv, PackInv, Trampoline
  PROVE  PackInv'
<1>1. /\ phase = "trampoline" /\ UNCHANGED <<shader, params, results, moves, leaf, fOff, dOff>>
  BY DEF Trampoline, codegenVars
<1>2. /\ params \in Seq(Slot) /\ results \in Seq(Slot) /\ (shader.stage = "vertex" => AllFloat(results))
      /\ moves = {} /\ leaf = 1 /\ fOff = 0 /\ dOff = 0
  BY <1>1, InterfaceTyped DEF PackInv, Unread, InSema
<1>3. phase' \in {"failed", "written"} \/ (phase' = "load" /\ at' = 1)
  BY DEF Trampoline, Begin, Stop
<1>4. CASE phase' \in {"failed", "written"}
  BY <1>1, <1>2, <1>4 DEF PackInv, Unread, InSema
<1>5. CASE phase' = "load" /\ at' = 1
  <2>1. SizesAnnounced'
    <3>1. CASE shader.stage = "vertex"
      <4>1. sizes' = Sizes(CountAll(params, "f"), CountAll(params, "d"), CountAll(results, "f"), 0)
        BY <1>5, <3>1 DEF Trampoline, Stop
      <4>2. CountAll(results, "d") = 0
        <5>1. {p \in Scalars(results) : results[p[1]].type.leaves[p[2]] = "d"} = {}
          <6> SUFFICES ASSUME NEW p \in Scalars(results), results[p[1]].type.leaves[p[2]] = "d" PROVE FALSE
            OBVIOUS
          <6>1. PICK i \in DOMAIN results : \E j \in DOMAIN results[i].type.leaves : p = <<i, j>>
            BY <1>2, ScalarsAre
          <6> QED BY <1>2, <3>1, <6>1 DEF AllFloat
        <5> QED BY <5>1, FS_EmptySet DEF CountAll
      <4>3. \A r \in {"f", "d"} : sizes'["out"][r] = CountAll(results, r) /\ sizes'["in"][r] = CountAll(params, r)
        BY <4>1, <4>2 DEF Sizes
      <4> QED BY <1>1, <4>3 DEF SizesAnnounced
    <3>2. CASE shader.stage # "vertex"
      <4>1. sizes' = Sizes(0, 0, CountAll(results, "f"), CountAll(results, "d"))
        BY <1>5, <3>2 DEF Trampoline, Stop
      <4>2. \A r \in {"f", "d"} : sizes'["out"][r] = CountAll(results, r)
        BY <4>1 DEF Sizes
      <4> QED BY <1>1, <3>2, <4>2 DEF SizesAnnounced
    <3> QED BY <3>1, <3>2
  <2>2. Loading'
    <3>1. shader.stage \in {"vertex", "fragment"}
      BY <1>5 DEF Trampoline, Stop
    <3>2. AtLeaf(params, 1, 1) /\ MovesTo("in", params, 1, 1) = {} /\ \A r : Leaves(params, 1, 1, r) = 0
      BY <1>2, AtLeafStart, MovesEnds, LeavesStart
    <3> QED BY <1>1, <1>2, <1>5, <3>1, <3>2 DEF Loading
  <2> QED BY <1>1, <1>2, <1>5, <2>1, <2>2 DEF PackInv, Unread, InSema
<1> QED BY <1>3, <1>4, <1>5

LEMMA LoadPacks ==
  ASSUME CodegenInv, PackInv, LoadAttribute \/ LoadVarying
  PROVE  PackInv'
<1>1. /\ phase = "load" /\ phase' = phase /\ at \in DOMAIN params
      /\ UNCHANGED <<shader, params, results, sizes>>
  BY DEF LoadAttribute, LoadVarying, Moving, Move, LoadSplit, MoveSplit, codegenVars
<1>2. /\ params \in Seq(Slot) /\ (shader.stage = "fragment" => AllFloat(params))
      /\ Loading /\ SizesAnnounced /\ fOff \in Nat /\ dOff \in Nat
  BY <1>1, InterfaceTyped DEF PackInv, Unread, InSema
<1>3. PICK r : r = params[at].type.leaves[leaf]  OBVIOUS
<1>4. AtLeaf(params, at, leaf) /\ leaf \in DOMAIN params[at].type.leaves /\ r \in {"f", "d"}
  BY <1>1, <1>2, <1>3, ScalarsAre DEF Loading, AtLeaf
<1>5. PICK s : Move("in", params[at], r, s) /\ s = Leaves(params, at, leaf, r)
  <2>1. CASE LoadAttribute
    <3>1. shader.stage = "vertex" /\ fOff = Leaves(params, at, leaf, "f") /\ dOff = Leaves(params, at, leaf, "d")
      BY <1>2, <2>1 DEF LoadAttribute, Loading
    <3>2. IF r = "d" THEN Move("in", params[at], "d", dOff) ELSE Move("in", params[at], "f", fOff)
      BY <1>3, <2>1 DEF LoadAttribute, LoadSplit, MoveSplit
    <3> QED BY <1>4, <3>1, <3>2
  <2>2. CASE LoadVarying
    <3>1. shader.stage = "fragment" /\ r = "f"
      BY <1>1, <1>2, <1>3, <1>4, <2>2 DEF LoadVarying, AllFloat
    <3>2. Move("in", params[at], "f", fOff + leaf - 1)  BY <2>2 DEF LoadVarying
    <3>3. fOff + (leaf - 1) = Leaves(params, at, leaf, "f")  BY <1>2, <3>1 DEF Loading
    <3>4. leaf \in Nat  BY <1>2, <1>4, AtLeafFacts
    <3>5. fOff + leaf - 1 = fOff + (leaf - 1)  BY <1>2, <3>4
    <3> QED BY <3>1, <3>2, <3>3, <3>5
  <2> QED BY <2>1, <2>2
<1>6. /\ AtLeaf(params, at', leaf')
      /\ at' = AfterVar(params, at, leaf) /\ leaf' = AfterLeaf(params, at, leaf)
      /\ moves' = moves \cup {MoveOf("in", params, <<at, leaf>>)}
      /\ MovesTo("in", params, at', leaf') = MovesTo("in", params, at, leaf) \cup {MoveOf("in", params, <<at, leaf>>)}
      /\ \A q \in {"f", "d"} : /\ Leaves(params, at', leaf', q) \in Nat /\ Leaves(params, at, leaf, q) \in Nat
                               /\ Leaves(params, at', leaf', q) = Leaves(params, at, leaf, q) + (IF r = q THEN 1 ELSE 0)
  BY <1>1, <1>2, <1>3, <1>4, <1>5, MoveStep
<1>7. moves' = MovesTo("in", params, at', leaf')
  BY <1>2, <1>6 DEF Loading
<1>8. /\ fOff' \in Nat /\ dOff' \in Nat
      /\ IF shader.stage = "vertex"
         THEN fOff' = Leaves(params, at', leaf', "f") /\ dOff' = Leaves(params, at', leaf', "d")
         ELSE fOff' + (leaf' - 1) = Leaves(params, at', leaf', "f")
  <2>1. CASE LoadAttribute
    <3>1. shader.stage = "vertex" /\ fOff = Leaves(params, at, leaf, "f") /\ dOff = Leaves(params, at, leaf, "d")
      BY <1>2, <2>1 DEF LoadAttribute, Loading
    <3>2. IF r = "d" THEN dOff' = dOff + 1 /\ fOff' = fOff ELSE fOff' = fOff + 1 /\ dOff' = dOff
      BY <1>3, <2>1 DEF LoadAttribute, LoadSplit, MoveSplit
    <3>3. fOff' = Leaves(params, at', leaf', "f") /\ dOff' = Leaves(params, at', leaf', "d")
      BY <1>4, <1>6, <3>1, <3>2
    <3> QED BY <1>6, <3>1, <3>3
  <2>2. CASE LoadVarying
    <3>1. shader.stage = "fragment" /\ r = "f" /\ AllFloat(params)
      BY <1>1, <1>2, <1>3, <1>4, <2>2 DEF LoadVarying, AllFloat
    <3>2. fOff + (leaf - 1) = Leaves(params, at, leaf, "f")  BY <1>2, <3>1 DEF Loading
    <3>3. leaf \in Nat /\ dOff' = dOff  BY <1>2, <1>4, <2>2, AtLeafFacts DEF LoadVarying
    <3>4. PICK n \in Nat : n = Len(params[at].type.leaves) /\ DOMAIN params[at].type.leaves = 1 .. n
      BY <1>1, <1>2, ScalarsAre
    <3>5. CASE leaf = n
      <4>1. fOff' = fOff + CountOf(params[at].type, "f") /\ leaf' = 1
        BY <1>6, <2>2, <3>4, <3>5 DEF LoadVarying, IsLast, AfterLeaf, LastLeaf
      <4>2. {i \in DOMAIN params[at].type.leaves : params[at].type.leaves[i] = "f"} = 1 .. n
        BY <1>1, <3>1, <3>4 DEF AllFloat
      <4>3. Cardinality(1 .. n) = n
        <5>1. Cardinality(1 .. n) = IF 1 > n THEN 0 ELSE n - 1 + 1  BY FS_Interval
        <5>2. n \in Nat  BY <3>4
        <5> QED BY ONLY <5>1, <5>2
      <4>4. CountOf(params[at].type, "f") = n  BY <4>2, <4>3 DEF CountOf
      <4>5. fOff' = fOff + n  BY <4>1, <4>4
      <4>6. Leaves(params, at', leaf', "f") = fOff + (n - 1) + 1
        BY <1>6, <3>1, <3>2, <3>5
      <4> QED BY <1>2, <3>1, <3>3, <3>4, <4>1, <4>5, <4>6
    <3>6. CASE leaf # n
      <4>1. fOff' = fOff /\ leaf' = leaf + 1
        BY <1>6, <2>2, <3>4, <3>6 DEF LoadVarying, IsLast, AfterLeaf, LastLeaf
      <4>2. Leaves(params, at', leaf', "f") = fOff + (leaf - 1) + 1
        BY <1>6, <3>1, <3>2
      <4> QED BY <1>2, <3>1, <3>3, <4>1, <4>2
    <3> QED BY <3>5, <3>6
  <2> QED BY <2>1, <2>2
<1>9. Loading'
  BY <1>1, <1>2, <1>6, <1>7, <1>8 DEF Loading
<1>10. SizesAnnounced'
  BY <1>1, <1>2 DEF SizesAnnounced
<1>11. leaf' \in Nat \ {0}
  BY <1>2, <1>6, AtLeafFacts
<1> QED BY <1>1, <1>8, <1>9, <1>10, <1>11 DEF PackInv, Unread, InSema

LEMMA LoadEndPacks ==
  ASSUME CodegenInv, PackInv, LoadEnd
  PROVE  PackInv'
<1>1. /\ phase = "load" /\ phase' = "store" /\ at \notin DOMAIN params /\ at' = 1 /\ fOff' = 0 /\ dOff' = 0
      /\ UNCHANGED <<shader, params, results, sizes, moves, leaf>>
  BY DEF LoadEnd, Begin, codegenVars
<1>2. /\ params \in Seq(Slot) /\ results \in Seq(Slot) /\ Loading /\ SizesAnnounced
  BY <1>1, InterfaceTyped DEF PackInv, Unread, InSema
<1>3. at = Len(params) + 1 /\ leaf = 1 /\ moves = AllMoves("in", params)
  <2>1. at = Len(params) + 1 /\ leaf = 1
    BY <1>1, <1>2, AtLeafFacts DEF Loading
  <2>2. MovesTo("in", params, Len(params) + 1, 1) = AllMoves("in", params)
    BY <1>2, MovesEnds
  <2> QED BY <1>2, <2>1, <2>2 DEF Loading
<1>4. /\ AtLeaf(results, 1, 1) /\ MovesTo("out", results, 1, 1) = {}
      /\ Leaves(results, 1, 1, "f") = 0 /\ Leaves(results, 1, 1, "d") = 0
  BY <1>2, AtLeafStart, MovesEnds, LeavesStart
<1>5. Storing'
  BY <1>1, <1>2, <1>3, <1>4 DEF Storing, Loading
<1>6. SizesAnnounced'
  BY <1>1, <1>2 DEF SizesAnnounced
<1> QED BY <1>1, <1>3, <1>5, <1>6 DEF PackInv, Unread, InSema

LEMMA StorePacks ==
  ASSUME CodegenInv, PackInv, StoreVarying \/ StoreOutput
  PROVE  PackInv'
<1>1. /\ phase = "store" /\ phase' = phase /\ at \in DOMAIN results
      /\ UNCHANGED <<shader, params, results, sizes>>
  BY DEF StoreVarying, StoreOutput, Moving, Move, StoreSplit, MoveSplit, codegenVars
<1>2. /\ results \in Seq(Slot) /\ (shader.stage = "vertex" => AllFloat(results))
      /\ Storing /\ SizesAnnounced /\ fOff \in Nat /\ dOff \in Nat
  BY <1>1, InterfaceTyped DEF PackInv, Unread, InSema
<1>3. PICK r : r = results[at].type.leaves[leaf]  OBVIOUS
<1>4. AtLeaf(results, at, leaf) /\ leaf \in DOMAIN results[at].type.leaves /\ r \in {"f", "d"}
  BY <1>1, <1>2, <1>3, ScalarsAre DEF Storing, AtLeaf
<1>5. fOff = Leaves(results, at, leaf, "f") /\ (shader.stage = "fragment" => dOff = Leaves(results, at, leaf, "d"))
  BY <1>2 DEF Storing
<1>6. CASE StoreVarying
  <2>1. shader.stage = "vertex" /\ r = "f"
    BY <1>1, <1>2, <1>3, <1>4, <1>6 DEF StoreVarying, AllFloat
  <2>2. Move("out", results[at], "f", fOff) /\ fOff' = fOff + 1 /\ dOff' = dOff
    BY <1>6 DEF StoreVarying
  <2> QED
    <3>1. /\ AtLeaf(results, at', leaf')
          /\ moves' = moves \cup {MoveOf("out", results, <<at, leaf>>)}
          /\ MovesTo("out", results, at', leaf') = MovesTo("out", results, at, leaf) \cup {MoveOf("out", results, <<at, leaf>>)}
          /\ Leaves(results, at', leaf', "f") = Leaves(results, at, leaf, "f") + 1
      BY <1>1, <1>2, <1>3, <1>4, <1>5, <2>1, <2>2, MoveStep
    <3>2. Storing'
      BY <1>1, <1>2, <1>5, <2>1, <2>2, <3>1 DEF Storing
    <3>3. leaf' \in Nat \ {0} /\ fOff' \in Nat /\ dOff' \in Nat
      BY <1>2, <2>2, <3>1, AtLeafFacts
    <3>4. SizesAnnounced'
      BY <1>1, <1>2 DEF SizesAnnounced
    <3> QED BY <1>1, <3>2, <3>3, <3>4 DEF PackInv, Unread, InSema
<1>7. CASE StoreOutput
  <2>1. shader.stage = "fragment"
    BY <1>7 DEF StoreOutput
  <2>2. IF r = "d" THEN Move("out", results[at], "d", dOff) /\ dOff' = dOff + 1 /\ fOff' = fOff
                   ELSE Move("out", results[at], "f", fOff) /\ fOff' = fOff + 1 /\ dOff' = dOff
    BY <1>3, <1>7 DEF StoreOutput, StoreSplit, MoveSplit
  <2>3. PICK s : Move("out", results[at], r, s) /\ s = Leaves(results, at, leaf, r)
    BY <1>4, <1>5, <2>1, <2>2
  <2>4. /\ AtLeaf(results, at', leaf')
        /\ moves' = moves \cup {MoveOf("out", results, <<at, leaf>>)}
        /\ MovesTo("out", results, at', leaf') = MovesTo("out", results, at, leaf) \cup {MoveOf("out", results, <<at, leaf>>)}
        /\ \A q \in {"f", "d"} : /\ Leaves(results, at', leaf', q) \in Nat /\ Leaves(results, at, leaf, q) \in Nat
                                 /\ Leaves(results, at', leaf', q) = Leaves(results, at, leaf, q) + (IF r = q THEN 1 ELSE 0)
    BY <1>1, <1>2, <1>3, <1>4, <2>3, MoveStep
  <2>5. fOff' = Leaves(results, at', leaf', "f") /\ dOff' = Leaves(results, at', leaf', "d")
    BY <1>4, <1>5, <2>1, <2>2, <2>4
  <2>6. Storing'
    BY <1>1, <1>2, <2>4, <2>5 DEF Storing
  <2>7. leaf' \in Nat \ {0} /\ fOff' \in Nat /\ dOff' \in Nat
    BY <1>2, <2>4, <2>5, AtLeafFacts
  <2>8. SizesAnnounced'
    BY <1>1, <1>2 DEF SizesAnnounced
  <2> QED BY <1>1, <2>6, <2>7, <2>8 DEF PackInv, Unread, InSema
<1> QED BY <1>6, <1>7

LEMMA StoreEndPacks ==
  ASSUME CodegenInv, PackInv, StoreEnd
  PROVE  PackInv'
<1>1. /\ phase = "store" /\ phase' = "written" /\ at \notin DOMAIN results
      /\ UNCHANGED <<shader, params, results, sizes, moves, leaf, fOff, dOff>>
  BY DEF StoreEnd, Stop, codegenVars, flatVars
<1>2. results \in Seq(Slot) /\ Storing /\ SizesAnnounced
  BY <1>1, InterfaceTyped DEF PackInv, Unread, InSema
<1>3. at = Len(results) + 1 /\ leaf = 1
  BY <1>1, <1>2, AtLeafFacts DEF Storing
<1>4. AllMoved
  <2>1. MovesTo("out", results, Len(results) + 1, 1) = AllMoves("out", results)
    BY <1>2, MovesEnds
  <2> QED BY <1>2, <1>3, <2>1 DEF Storing, AllMoved
<1>5. AllMoved' /\ SizesAnnounced'
  BY <1>1, <1>2, <1>4 DEF AllMoved, AllMoves, SizesAnnounced
<1> QED BY <1>1, <1>5 DEF PackInv, Unread, InSema

LEMMA PackStep == CodegenInv /\ PackInv /\ [Next]_vars => PackInv'
<1> SUFFICES ASSUME CodegenInv, PackInv, [Next]_vars PROVE PackInv'
  OBVIOUS
<1>1. CASE Sema
  <2>1. /\ UNCHANGED <<shader, params, results, moves, leaf, fOff, dOff, sizes>>
        /\ phase \in InSema /\ phase' \in Unread
    BY <1>1 DEF Sema, ReserveLocations, SkipDeclaration, NextCheck, SemaEnd, Checking, Pass, Begin, Stop,
       codegenVars, flatVars, InSema, Unread
  <2> QED BY <2>1, PackFrame DEF Unread, InSema
<1>2. CASE Codegen
  <2>1. /\ UNCHANGED <<shader, moves, leaf, fOff, dOff>> /\ phase = "codegen"
        /\ phase' \in {"codegen", "failed", "uniforms", "trampoline"}
    BY <1>2 DEF Codegen, DeclareStageVar, DeclareGlobal, GenerateEntry, CodegenEnd, Declaring, Pass, Begin, Stop, flatVars
  <2>2. moves = {} /\ leaf = 1 /\ fOff = 0 /\ dOff = 0
    BY <2>1 DEF PackInv, Unread
  <2> QED BY <2>1, <2>2 DEF PackInv, Unread, InSema
<1>3. CASE Spirv \/ Row \/ UNCHANGED vars
  <2>1. UNCHANGED <<shader, params, results, moves, leaf, fOff, dOff, sizes>>
    BY <1>3 DEF Spirv, AnalyzeUniform, AnalyzeBuffer, AnalyzeSampler, AnalyzeResource, SkipGlobal, AnalysisEnd,
       DeclareInput, InputsEnd, DeclareOutput, OutputsEnd, Row, Dispatch, Invoke, codegenVars, flatVars, vars
  <2>2. \/ phase' = phase /\ at' = at
        \/ /\ phase \notin Unread \cup {"trampoline", "load", "store"}
           /\ phase' \notin Unread \cup {"trampoline", "load", "store"}
    <3>1. CASE Spirv
      BY <3>1 DEF Spirv, AnalyzeUniform, AnalyzeBuffer, AnalyzeSampler, AnalyzeResource, Visiting, Resource, SkipGlobal,
         AnalysisEnd, DeclareInput, InputsEnd, DeclareOutput, OutputsEnd, Pass, Begin, Stop, Unread, InSema
    <3>2. CASE Row \/ UNCHANGED vars
      BY <3>2 DEF Row, Dispatch, Invoke, Stop, vars, Unread, InSema
    <3> QED BY <1>3, <3>1, <3>2
  <2> QED BY <2>1, <2>2, PackFrame DEF Unread, InSema
<1>4. CASE Flat
  BY <1>4, TrampolinePacks, LoadPacks, LoadEndPacks, StorePacks, StoreEndPacks DEF Flat
<1> QED BY <1>1, <1>2, <1>3, <1>4 DEF Next, Finished

\* Each scalar of a region is one move of that region.
LEMMA MovesCounted ==
  ASSUME NEW dir, NEW list \in Seq(Slot), NEW r
  PROVE  Cardinality({m \in AllMoves(dir, list) : m.region = r}) = CountAll(list, r)
<1> DEFINE S == {p \in Scalars(list) : list[p[1]].type.leaves[p[2]] = r}
           T == {m \in AllMoves(dir, list) : m.region = r}
           f == [p \in S |-> MoveOf(dir, list, p)]
<1>1. IsFiniteSet(S)
  <2>1. S \in SUBSET Scalars(list) /\ IsFiniteSet(Scalars(list))  BY ScalarsAre
  <2> QED BY <2>1, FS_Subset
<1>2. f \in [S -> T]
  BY DEF AllMoves, MoveOf
<1>3. \A m \in T : \E p \in S : f[p] = m
  <2> SUFFICES ASSUME NEW m \in T PROVE \E p \in S : f[p] = m
    OBVIOUS
  <2>1. PICK p \in Scalars(list) : m = MoveOf(dir, list, p)  BY DEF AllMoves
  <2>2. MoveOf(dir, list, p).region = list[p[1]].type.leaves[p[2]]  BY DEF MoveOf
  <2>3. p \in S  BY <2>1, <2>2
  <2> QED BY <2>1, <2>3
<1>4. \A p, q \in S : f[p] = f[q] => p = q
  <2> SUFFICES ASSUME NEW p \in S, NEW q \in S, f[p] = f[q] PROVE p = q
    OBVIOUS
  <2>1. MoveOf(dir, list, p) = MoveOf(dir, list, q)  OBVIOUS
  <2>2. p[1] = q[1] /\ p[2] = q[2]  BY <2>1 DEF MoveOf
  <2>3. (\E i, j : p = <<i, j>>) /\ (\E i, j : q = <<i, j>>)  BY ScalarsAre
  <2> QED BY <2>2, <2>3
<1> HIDE DEF S, T, f
<1>5. f \in Bijection(S, T)
  BY <1>2, <1>3, <1>4 DEF Bijection, Injection, Surjection, IsInjective
<1>6. ExistsBijection(S, T)
  BY <1>5 DEF ExistsBijection
<1>7. Cardinality(T) = Cardinality(S)
  BY <1>1, <1>6, FS_Bijection
<1> QED BY <1>7 DEF S, T, CountAll

LEMMA PackedWhenMoved == CodegenInv /\ PackInv => PackedInOrder
<1> SUFFICES ASSUME CodegenInv, PackInv PROVE PackedInOrder
  OBVIOUS
<1>1. ASSUME NEW m \in moves
      PROVE  /\ m.region = Moved(m.dir)[m.var].type.leaves[m.leaf]
             /\ m.slot = Leaves(Moved(m.dir), m.var, m.leaf, m.region)
  <2>1. \/ \E p : m = MoveOf("in", params, p)
        \/ \E p : m = MoveOf("out", results, p)
    BY DEF PackInv, Loading, Storing, AllMoved, AllMoves, MovesTo
  <2>2. CASE \E p : m = MoveOf("in", params, p)
    BY <2>2 DEF MoveOf, Moved
  <2>3. CASE \E p : m = MoveOf("out", results, p)
    BY <2>3 DEF MoveOf, Moved
  <2> QED BY <2>1, <2>2, <2>3
<1>2. ASSUME phase = "written", moves # {}, NEW d \in {"in", "out"}, NEW r \in {"f", "d"}
      PROVE  /\ InRegion(d, r) = CountAll(Moved(d), r)
             /\ d = "out" \/ shader.stage = "vertex" => InRegion(d, r) = sizes[d][r]
  <2>1. AllMoved /\ SizesAnnounced /\ Moved(d) \in Seq(Slot)
    BY <1>2, InterfaceTyped DEF PackInv, Unread, InSema, Moved
  <2>2. {m \in moves : m.dir = d /\ m.region = r} = {m \in AllMoves(d, Moved(d)) : m.region = r}
    <3>1. \A dir, list : \A m \in AllMoves(dir, list) : m.dir = dir  BY DEF AllMoves, MoveOf
    <3>2. \A m : m \in moves <=> m \in AllMoves("in", params) \/ m \in AllMoves("out", results)
      BY <2>1 DEF AllMoved
    <3>3. \A m : m \in moves /\ m.dir = d <=> m \in AllMoves(d, Moved(d))
      BY <3>1, <3>2 DEF Moved
    <3> QED BY <3>3
  <2>3. InRegion(d, r) = CountAll(Moved(d), r)
    BY <2>1, <2>2, MovesCounted DEF InRegion
  <2> QED BY <2>1, <2>3 DEF SizesAnnounced, Moved
<1> QED BY <1>1, <1>2 DEF PackedInOrder

LEMMA PackInit == Init => PackInv
<1> SUFFICES ASSUME Init PROVE PackInv
  OBVIOUS
<1>1. phase = "sema in" /\ moves = {} /\ leaf = 1 /\ fOff = 0 /\ dOff = 0
  BY DEF Init
<1>2. phase # "trampoline" /\ phase # "load" /\ phase # "store" /\ phase \notin {"load", "store"}
  BY <1>1
<1>3. fOff \in Nat /\ dOff \in Nat /\ leaf \in Nat \ {0}
  <2>1. fOff = 0 /\ dOff = 0 /\ leaf = 1  BY <1>1
  <2>2. 0 \in Nat /\ 1 \in Nat \ {0}  OBVIOUS
  <2> QED BY ONLY <2>1, <2>2
<1> QED BY ONLY <1>1, <1>2, <1>3 DEF PackInv

\* For every shader, with any number of stage variables of any types: every scalar goes to the
\* slot that its place among the scalars of its region says, on either side of the ABI, whether
\* the trampoline counts scalar by scalar or a variable at a time; and what moves is what is announced.
THEOREM PacksInOrder == Spec => []PackedInOrder
<1>1. Init => ReservedInv /\ CodegenInv /\ PackInv
  BY ReservedInit, CodegenInit, PackInit
<1>2. ReservedInv /\ CodegenInv /\ PackInv /\ [Next]_vars => (ReservedInv /\ CodegenInv /\ PackInv)'
  BY ReservedStep, CodegenStep, PackStep
<1>3. ReservedInv /\ CodegenInv /\ PackInv => PackedInOrder
  BY PackedWhenMoved
<1> QED BY <1>1, <1>2, <1>3, PTL DEF Spec

-----------------------------------------------------------------------------
(* The bindings of buffers and samplers. *)

\* Global i has been visited in the phase for its kind.
Visited(kind, i) ==
  \/ kind = "buffer" /\ (phase # "buffers" \/ i < at)
  \/ kind = "sampler" /\ phase # "buffers" /\ (phase # "samplers" \/ i < at)

\* b was made for global i; a positional one that is still being counted is below the counter.
BindingOf(b, i) ==
  /\ b.kind = KindOf(globals[i]) /\ b.name = globals[i].name
  /\ globals[i].loc >= 0 => b.binding = globals[i].loc
  /\ globals[i].loc < 0 /\ phase = Resource(b.kind) => b.binding \in Int /\ b.binding < counter

NoneExplicit(kind) == \A i \in DOMAIN globals : KindOf(globals[i]) = kind => globals[i].loc < 0

BindingsMade ==
  /\ \A b \in placed["bindings"] : \E i \in DOMAIN globals : Visited(b.kind, i) /\ BindingOf(b, i)
  /\ \A i \in DOMAIN globals : Visited(KindOf(globals[i]), i) => \E b \in placed["bindings"] : b.name = globals[i].name
  /\ \A b, c \in placed["bindings"] : b.name = c.name => b = c
  /\ \A b, c \in placed["bindings"] : b.kind = c.kind /\ b # c /\ NoneExplicit(b.kind) => b.binding # c.binding

Counting == {"uniforms", "buffers", "samplers"}
Analyzed == {"buffers", "samplers", "inputs", "outputs"}

BindInv ==
  /\ globals \in Seq(Declaration) /\ DOMAIN placed = {"uniforms", "bindings", "in", "out", "shadows"}
  /\ \A i, j \in DOMAIN globals : globals[i].name = globals[j].name => i = j
  /\ phase \in InSema \cup {"codegen", "uniforms"} => placed["bindings"] = {}
  /\ phase \in Counting => at \in 1 .. Len(globals) + 1
  /\ phase \in {"buffers", "samplers"} => counter \in Nat
  /\ phase \in {"trampoline", "load", "store"} => shader.target # "spirv"
  /\ phase \in Analyzed \/ SpirvWritten => BindingsMade

LEMMA BoundApart == BindInv => BindingsApart
<1> SUFFICES ASSUME BindInv, SpirvWritten PROVE
               /\ \A g \in Elems(globals) : g.kind \in {"buffer", "sampler"} /\ ~Hidden(g) =>
                    \E b \in Placed(g) : Placed(g) = {b} /\ (g.loc >= 0 => b.binding = g.loc)
               /\ \A k \in {"buffer", "sampler"} : (\A g \in OfKind(k) : g.loc < 0) =>
                    \A b, c \in placed["bindings"] : b.kind = k /\ c.kind = k /\ b # c => b.binding # c.binding
  BY DEF BindingsApart
<1>1. BindingsMade /\ phase = "written"
  BY DEF BindInv, SpirvWritten
<1>2. ASSUME NEW g \in Elems(globals), g.kind \in {"buffer", "sampler"}, ~Hidden(g)
      PROVE  \E b \in Placed(g) : Placed(g) = {b} /\ (g.loc >= 0 => b.binding = g.loc)
  <2>1. PICK i \in DOMAIN globals : g = globals[i]
    BY DEF Elems
  <2>2. PICK k \in {"buffer", "sampler"} : k = KindOf(g)
    BY <1>2 DEF KindOf
  <2>3. Visited(k, i)
    BY <1>1 DEF Visited
  <2>4. PICK b \in placed["bindings"] : b.name = globals[i].name
    BY <1>1, <2>1, <2>2, <2>3 DEF BindingsMade
  <2>5. PICK j \in DOMAIN globals : BindingOf(b, j)
    BY <1>1 DEF BindingsMade
  <2>6. i = j
    BY <2>4, <2>5 DEF BindingOf, BindInv
  <2>7. Placed(g) = {b}
    BY <1>1, <2>1, <2>4 DEF Placed, BindingsMade
  <2>8. g.loc >= 0 => b.binding = g.loc
    BY <2>1, <2>5, <2>6 DEF BindingOf
  <2> QED BY <2>7, <2>8
<1>3. ASSUME NEW k \in {"buffer", "sampler"}, \A g \in OfKind(k) : g.loc < 0
      PROVE  \A b, c \in placed["bindings"] : b.kind = k /\ c.kind = k /\ b # c => b.binding # c.binding
  <2>1. NoneExplicit(k)
    BY <1>3 DEF NoneExplicit, OfKind, Elems
  <2> QED BY <1>1, <2>1 DEF BindingsMade
<1> QED BY <1>2, <1>3

\* What the bindings depend on.
LEMMA BindFrame ==
  ASSUME BindInv, UNCHANGED <<shader, globals>>,
         DOMAIN placed' = DOMAIN placed, placed'["bindings"] = placed["bindings"],
         phase' = phase /\ at' = at /\ counter' = counter
  PROVE  BindInv'
<1>1. \A i : KindOf(globals[i])' = KindOf(globals[i])  BY DEF KindOf, Hidden, ReadAsSampler
<1>2. BindingsMade' <=> BindingsMade
  <2>1. \A b, i : BindingOf(b, i)' <=> BindingOf(b, i)  BY <1>1 DEF BindingOf
  <2>2. \A b, i : Visited(b, i)' <=> Visited(b, i)  BY DEF Visited
  <2>3. \A b : NoneExplicit(b)' <=> NoneExplicit(b)  BY <1>1 DEF NoneExplicit
  <2>4. \A i \in DOMAIN globals : Visited(KindOf(globals[i]), i)' <=> Visited(KindOf(globals[i]), i)
    BY <1>1 DEF Visited
  <2> QED BY <2>1, <2>2, <2>3, <2>4 DEF BindingsMade
<1>3. SpirvWritten' <=> SpirvWritten  BY DEF SpirvWritten
<1> QED BY <1>2, <1>3 DEF BindInv

\* The steps at which no bindings are being made.
LEMMA BindOutside ==
  ASSUME BindInv, UNCHANGED <<shader, globals>>,
         DOMAIN placed' = DOMAIN placed, placed'["bindings"] = placed["bindings"],
         phase' \in InSema \cup {"codegen", "uniforms"} => phase \in InSema \cup {"codegen", "uniforms"},
         phase' \notin {"buffers", "samplers"},
         phase' = "uniforms" => at' \in 1 .. Len(globals) + 1,
         phase' \in {"trampoline", "load", "store"} => shader.target # "spirv",
         phase' \in {"inputs", "outputs"} \/ SpirvWritten' => phase \in {"inputs", "outputs"} \/ SpirvWritten
  PROVE  BindInv'
<1>1. \A i : KindOf(globals[i])' = KindOf(globals[i])  BY DEF KindOf, Hidden, ReadAsSampler
<1>2. ASSUME phase' \in Analyzed \/ SpirvWritten'
      PROVE  BindingsMade'
  <2>1. phase' \in {"inputs", "outputs", "written"} /\ phase \in {"inputs", "outputs", "written"}
    BY <1>2 DEF Analyzed, SpirvWritten
  <2>2. BindingsMade
    BY <1>2 DEF BindInv, Analyzed, SpirvWritten
  <2>3. \A kind, i : (Visited(kind, i)' <=> kind \in {"buffer", "sampler"}) /\ (Visited(kind, i) <=> kind \in {"buffer", "sampler"})
    BY <2>1 DEF Visited
  <2>4. \A b, i : BindingOf(b, i)' <=> BindingOf(b, i)
    BY <1>1, <2>1 DEF BindingOf, Resource
  <2>5. \A kind : NoneExplicit(kind)' <=> NoneExplicit(kind)
    BY <1>1 DEF NoneExplicit
  <2>6. \A i \in DOMAIN globals : Visited(KindOf(globals[i]), i)' <=> Visited(KindOf(globals[i]), i)
    BY <1>1, <2>1, <2>3 DEF Visited
  <2> QED BY <2>2, <2>3, <2>4, <2>5, <2>6 DEF BindingsMade
<1> QED BY <1>2 DEF BindInv, Counting, InSema

LEMMA GlobalsNamedApart ==
  ASSUME BindInv, BlockInv, DeclareGlobal
  PROVE  /\ globals' \in Seq(Declaration)
         /\ \A i, j \in DOMAIN globals' : globals'[i].name = globals'[j].name => i = j
<1>1. globals' \in Seq(Declaration)  BY GlobalsStay
<1>2. /\ globals \in Seq(Declaration) /\ DOMAIN globals = 1 .. Len(globals) /\ Len(globals) \in Nat
      /\ \A i, j \in DOMAIN globals : globals[i].name = globals[j].name => i = j
  BY LenProperties DEF BindInv
<1> DEFINE old == {g \in Elems(globals) : g.name = Node.name}
<1>3. globals' = IF old = {} THEN Append(globals, Node)
                 ELSE IF Node.loc >= 0 THEN Bind(old) ELSE globals
  BY DEF DeclareGlobal
<1>4. CASE old = {}
  <2>1. globals' = Append(globals, Node)  BY <1>3, <1>4
  <2>2. \A i \in DOMAIN globals : globals[i].name # Node.name  BY <1>4 DEF Elems
  <2>3. Node \in Declaration
    BY NodeIsDeclaration DEF DeclareGlobal, Declaring, BlockInv
  <2>4. /\ Len(globals') = Len(globals) + 1 /\ globals'[Len(globals) + 1] = Node
        /\ \A i \in 1 .. Len(globals) : globals'[i] = globals[i]
    BY <1>2, <2>1, <2>3, AppendProperties
  <2>5. DOMAIN globals' = 1 .. Len(globals) + 1
    BY <1>1, <2>4, LenProperties
  <2>6. \A i \in DOMAIN globals' : i \in DOMAIN globals \/ i = Len(globals) + 1
    BY <1>2, <2>5
  <2> QED BY <1>1, <1>2, <2>2, <2>4, <2>6
<1>5. CASE old # {} /\ Node.loc >= 0
  <2>1. globals' = Bind(old)  BY <1>3, <1>5
  <2>2. ASSUME NEW i \in DOMAIN globals PROVE Bind(old)[i].name = globals[i].name
    <3>1. globals[i] \in Declaration  BY <1>2, ElementOfSeq
    <3>2. [globals[i] EXCEPT !.loc = Node.loc].name = globals[i].name  BY <3>1 DEF Declaration, Variable
    <3> HIDE DEF old
    <3> QED BY <3>2 DEF Bind
  <2>3. DOMAIN Bind(old) = DOMAIN globals  BY DEF Bind
  <2> HIDE DEF old
  <2> QED BY <1>1, <1>2, <2>1, <2>2, <2>3
<1>6. CASE old # {} /\ ~(Node.loc >= 0)
  BY <1>1, <1>2, <1>3, <1>6
<1> QED BY <1>4, <1>5, <1>6

\* One more global has been visited.
LEMMA VisitedNext ==
  ASSUME phase \in {"buffers", "samplers"}, at \in Nat, phase' = phase, at' = at + 1,
         NEW kind, NEW i \in Nat
  PROVE  Visited(kind, i)' <=> Visited(kind, i) \/ (kind \in {"buffer", "sampler"} /\ phase = Resource(kind) /\ i = at)
<1>1. i < at + 1 <=> i < at \/ i = at  OBVIOUS
<1> QED BY <1>1 DEF Visited, Resource

LEMMA ResourceBinds ==
  ASSUME BindInv, NEW kind \in {"buffer", "sampler"}, AnalyzeResource(kind)
  PROVE  BindInv'
<1> DEFINE new == [name |-> globals[at].name, kind |-> kind, binding |-> Bound(globals[at])]
<1>1. /\ phase = Resource(kind) /\ at \in DOMAIN globals /\ KindOf(globals[at]) = kind
      /\ UNCHANGED <<shader, phase, globals>> /\ at' = at + 1
      /\ placed' = [placed EXCEPT !["bindings"] = @ \cup {new}]
      /\ counter' = IF globals[at].loc >= 0 THEN counter ELSE counter + 1
  BY DEF AnalyzeResource, Visiting, Put, codegenVars
<1>2. /\ globals \in Seq(Declaration) /\ DOMAIN globals = 1 .. Len(globals) /\ Len(globals) \in Nat
      /\ counter \in Nat /\ BindingsMade /\ phase \in {"buffers", "samplers"}
      /\ \A i, j \in DOMAIN globals : globals[i].name = globals[j].name => i = j
  BY <1>1, LenProperties DEF BindInv, Resource, Analyzed
<1>3. at \in Nat /\ at' \in 1 .. Len(globals) + 1 /\ \A i \in DOMAIN globals : i \in Nat
  BY <1>1, <1>2
<1>4. \A i \in DOMAIN globals : globals[i].loc \in Int
  <2>1. \A i \in DOMAIN globals : globals[i] \in Declaration  BY <1>2, ElementOfSeq
  <2> QED BY <2>1 DEF Declaration, Variable
<1>5. counter' \in Nat /\ counter' >= counter /\ (globals[at].loc < 0 => counter' = counter + 1)
  BY <1>1, <1>2, <1>4
<1>6. DOMAIN placed' = DOMAIN placed /\ placed'["bindings"] = placed["bindings"] \cup {new}
  <2>1. "bindings" \in DOMAIN placed  BY DEF BindInv
  <2> QED BY <1>1, <2>1
<1>7. /\ new.name = globals[at].name /\ new.kind = kind
      /\ globals[at].loc >= 0 => new.binding = globals[at].loc
      /\ globals[at].loc < 0 => new.binding = counter
  BY <1>1, <1>4 DEF Bound
<1> HIDE DEF new
<1>8. \A i : KindOf(globals[i])' = KindOf(globals[i])  BY <1>1 DEF KindOf, Hidden, ReadAsSampler
<1>9. \A k : \A i \in DOMAIN globals :
        Visited(k, i)' <=> Visited(k, i) \/ (k \in {"buffer", "sampler"} /\ phase = Resource(k) /\ i = at)
  BY <1>1, <1>2, <1>3, VisitedNext
<1>10. ~Visited(kind, at)
  BY <1>1, <1>3 DEF Visited, Resource
<1>11. ASSUME NEW b \in placed'["bindings"]
       PROVE  \E i \in DOMAIN globals : Visited(b.kind, i)' /\ BindingOf(b, i)'
  <2>1. CASE b = new
    <3>1. PICK n \in DOMAIN globals : n = at  BY <1>1
    <3>2. b.kind = kind /\ b.name = globals[n].name  BY <1>7, <2>1, <3>1
    <3>3. Visited(b.kind, n)'  BY <1>1, <1>9, <3>1, <3>2
    <3>4. globals[n].loc >= 0 => b.binding = globals[n].loc
      BY <1>7, <2>1, <3>1
    <3>5. globals[n].loc < 0 => b.binding \in Int /\ b.binding < counter'
      <4>1. globals[at].loc < 0 => b.binding = counter /\ counter' = counter + 1  BY <1>5, <1>7, <2>1
      <4> QED BY <1>2, <3>1, <4>1
    <3>6. BindingOf(b, n)'
      BY <1>1, <1>8, <3>1, <3>2, <3>4, <3>5 DEF BindingOf
    <3> QED BY <3>3, <3>6
  <2>2. CASE b \in placed["bindings"]
    <3>1. PICK i \in DOMAIN globals : Visited(b.kind, i) /\ BindingOf(b, i)
      BY <1>2, <2>2 DEF BindingsMade
    <3>2. BindingOf(b, i)'
      BY <1>1, <1>2, <1>5, <1>8, <3>1 DEF BindingOf
    <3> QED BY <1>9, <3>1, <3>2
  <2> QED BY <1>6, <2>1, <2>2
<1>12. ASSUME NEW i \in DOMAIN globals, Visited(KindOf(globals[i]), i)'
       PROVE  \E b \in placed'["bindings"] : b.name = globals[i].name
  <2>1. Visited(KindOf(globals[i]), i) \/ i = at
    <3>1. PICK k : k = KindOf(globals[i])  OBVIOUS
    <3>2. Visited(k, i)'  BY <1>1, <1>8, <1>12, <3>1 DEF Visited
    <3> QED BY <1>9, <3>1, <3>2
  <2> QED BY <1>2, <1>6, <1>7, <2>1 DEF BindingsMade
<1>13. ASSUME NEW c \in placed["bindings"]
       PROVE  /\ c.name # new.name
              /\ c.kind = kind /\ NoneExplicit(kind) => c.binding # new.binding
  <2>1. PICK j \in DOMAIN globals : Visited(c.kind, j) /\ BindingOf(c, j)
    BY <1>2 DEF BindingsMade
  <2>2. j # at
    BY <1>1, <1>10, <2>1 DEF BindingOf
  <2>3. c.name # new.name
    BY <1>1, <1>2, <1>7, <2>1, <2>2 DEF BindingOf
  <2>4. ASSUME c.kind = kind, NoneExplicit(kind) PROVE c.binding # new.binding
    <3>1. globals[j].loc < 0 /\ globals[at].loc < 0
      BY <1>1, <2>1, <2>4 DEF NoneExplicit, BindingOf
    <3>2. c.binding < counter /\ c.binding \in Int
      BY <1>1, <2>1, <2>4, <3>1 DEF BindingOf
    <3> QED BY <1>2, <1>7, <3>1, <3>2
  <2> QED BY <2>3, <2>4
<1>14. \A k : NoneExplicit(k)' <=> NoneExplicit(k)
  BY <1>1, <1>8 DEF NoneExplicit
<1>15. \A b, c \in placed'["bindings"] : b.name = c.name => b = c
  BY <1>2, <1>6, <1>13 DEF BindingsMade
<1>16. \A b, c \in placed'["bindings"] : b.kind = c.kind /\ b # c /\ NoneExplicit(b.kind)' => b.binding # c.binding
  BY <1>2, <1>6, <1>7, <1>13, <1>14 DEF BindingsMade
<1>17. BindingsMade'
  BY <1>1, <1>11, <1>12, <1>15, <1>16 DEF BindingsMade
<1>18. phase' \notin InSema \cup {"codegen", "uniforms", "trampoline", "load", "store"}
  BY <1>1, <1>2 DEF InSema
<1> QED BY <1>1, <1>2, <1>3, <1>5, <1>6, <1>17, <1>18 DEF BindInv

LEMMA SkipBinds ==
  ASSUME BindInv, SkipGlobal
  PROVE  BindInv'
<1>1. /\ phase \in Counting /\ at \in DOMAIN globals /\ at' = at + 1
      /\ UNCHANGED <<shader, phase, counter, globals, placed>>
      /\ ~(KindOf(globals[at]) \in {"buffer", "sampler"} /\ phase = Resource(KindOf(globals[at])))
  BY DEF SkipGlobal, Visiting, Pass, Resource, Counting, codegenVars, spirvVars
<1>2. /\ DOMAIN globals = 1 .. Len(globals) /\ Len(globals) \in Nat
      /\ (phase # "uniforms" => counter \in Nat /\ BindingsMade)
  BY <1>1, LenProperties DEF BindInv, Counting, Analyzed
<1>3. at \in Nat /\ at' \in 1 .. Len(globals) + 1 /\ \A i \in DOMAIN globals : i \in Nat
  BY <1>1, <1>2
<1>4. ASSUME phase # "uniforms" PROVE BindingsMade'
  <2>1. phase \in {"buffers", "samplers"}  BY <1>1, <1>4 DEF Counting
  <2>2. \A i : KindOf(globals[i])' = KindOf(globals[i])  BY <1>1 DEF KindOf, Hidden, ReadAsSampler
  <2>3. \A k : \A i \in DOMAIN globals :
          Visited(k, i)' <=> Visited(k, i) \/ (k \in {"buffer", "sampler"} /\ phase = Resource(k) /\ i = at)
    BY <1>1, <1>3, <2>1, VisitedNext
  <2>4. \A b, i : BindingOf(b, i)' <=> BindingOf(b, i)
    BY <1>1, <2>2 DEF BindingOf
  <2>5. \A k : NoneExplicit(k)' <=> NoneExplicit(k)
    BY <1>1, <2>2 DEF NoneExplicit
  <2>6. ASSUME NEW i \in DOMAIN globals, Visited(KindOf(globals[i]), i)' PROVE Visited(KindOf(globals[i]), i)
    <3>1. PICK k : k = KindOf(globals[i])  OBVIOUS
    <3>2. Visited(k, i)'  BY <1>1, <2>2, <2>6, <3>1 DEF Visited
    <3> QED BY <1>1, <2>3, <3>1, <3>2
  <2>7. \A b \in placed'["bindings"] : \E i \in DOMAIN globals' : Visited(b.kind, i)' /\ BindingOf(b, i)'
    BY <1>1, <1>2, <1>4, <2>3, <2>4 DEF BindingsMade
  <2>8. \A i \in DOMAIN globals' : Visited(KindOf(globals[i]), i)' => \E b \in placed'["bindings"] : b.name = globals'[i].name
    BY <1>1, <1>2, <1>4, <2>6 DEF BindingsMade
  <2>9. \A b, c \in placed'["bindings"] : b.kind = c.kind /\ b # c /\ NoneExplicit(b.kind)' => b.binding # c.binding
    BY <1>1, <1>2, <1>4, <2>5 DEF BindingsMade
  <2>10. \A b, c \in placed'["bindings"] : b.name = c.name => b = c
    BY <1>1, <1>2, <1>4 DEF BindingsMade
  <2> QED BY <2>7, <2>8, <2>9, <2>10 DEF BindingsMade
<1>5. phase' \in Counting  BY <1>1
<1> QED BY <1>1, <1>2, <1>3, <1>4, <1>5 DEF BindInv, Counting, Analyzed, InSema, SpirvWritten

LEMMA AnalysisEndBinds ==
  ASSUME BindInv, AnalysisEnd
  PROVE  BindInv'
<1>1. /\ at \notin DOMAIN globals /\ at' = 1 /\ counter' = 0
      /\ UNCHANGED <<shader, globals, placed>>
      /\ \/ phase = "uniforms" /\ phase' = "buffers"
         \/ phase = "buffers" /\ phase' = "samplers"
         \/ phase = "samplers" /\ phase' = "inputs"
  BY DEF AnalysisEnd, Begin, codegenVars, spirvVars
<1>2. /\ DOMAIN globals = 1 .. Len(globals) /\ Len(globals) \in Nat
      /\ at \in 1 .. Len(globals) + 1
      /\ (phase = "uniforms" => placed["bindings"] = {})
      /\ (phase # "uniforms" => BindingsMade)
  BY <1>1, LenProperties DEF BindInv, Counting, Analyzed
<1>3. \A i \in DOMAIN globals : i < at /\ ~(i < 1)
  BY <1>1, <1>2
<1>4. \A i : KindOf(globals[i])' = KindOf(globals[i])  BY <1>1 DEF KindOf, Hidden, ReadAsSampler
<1>5. \A k : NoneExplicit(k)' <=> NoneExplicit(k)
  BY <1>1, <1>4 DEF NoneExplicit
<1>6. BindingsMade'
  <2>1. CASE phase = "uniforms"
    <3>1. placed'["bindings"] = {}  BY <1>1, <1>2, <2>1
    <3>2. \A i \in DOMAIN globals' : ~Visited(KindOf(globals[i]), i)'
      BY <1>1, <1>3, <2>1 DEF Visited
    <3> QED BY <3>1, <3>2 DEF BindingsMade
  <2>2. CASE phase # "uniforms"
    <3>1. \A k : \A i \in DOMAIN globals : Visited(k, i)' <=> Visited(k, i)
      BY <1>1, <1>3, <2>2 DEF Visited
    <3>2. \A b : \A i \in DOMAIN globals : Visited(b.kind, i) /\ BindingOf(b, i) => BindingOf(b, i)'
      BY <1>1, <1>3, <1>4, <2>2 DEF BindingOf, Visited, Resource
    <3>3. ASSUME NEW i \in DOMAIN globals, Visited(KindOf(globals[i]), i)' PROVE Visited(KindOf(globals[i]), i)
      <4>1. PICK k : k = KindOf(globals[i])  OBVIOUS
      <4>2. Visited(k, i)'  BY <1>1, <1>4, <3>3, <4>1 DEF Visited
      <4> QED BY <3>1, <4>1, <4>2
    <3>4. \A b \in placed'["bindings"] : \E i \in DOMAIN globals' : Visited(b.kind, i)' /\ BindingOf(b, i)'
      BY <1>1, <1>2, <2>2, <3>1, <3>2 DEF BindingsMade
    <3>5. \A i \in DOMAIN globals' : Visited(KindOf(globals[i]), i)' => \E b \in placed'["bindings"] : b.name = globals'[i].name
      BY <1>1, <1>2, <2>2, <3>3 DEF BindingsMade
    <3>6. \A b, c \in placed'["bindings"] : b.kind = c.kind /\ b # c /\ NoneExplicit(b.kind)' => b.binding # c.binding
      BY <1>1, <1>2, <2>2, <1>5 DEF BindingsMade
    <3>7. \A b, c \in placed'["bindings"] : b.name = c.name => b = c
      BY <1>1, <1>2, <2>2 DEF BindingsMade
    <3> QED BY <3>4, <3>5, <3>6, <3>7 DEF BindingsMade
  <2> QED BY <2>1, <2>2
<1>7. phase' \in {"buffers", "samplers", "inputs"} /\ 1 \in 1 .. Len(globals) + 1 /\ 0 \in Nat
  BY <1>1, <1>2
<1> QED BY <1>1, <1>6, <1>7 DEF BindInv, Counting, Analyzed, InSema, SpirvWritten

LEMMA BindStep == BindInv /\ BlockInv /\ [Next]_vars => BindInv'
<1> SUFFICES ASSUME BindInv, BlockInv, [Next]_vars PROVE BindInv'
  OBVIOUS
<1>0. Len(globals) \in Nat /\ 1 \in 1 .. Len(globals) + 1
  BY LenProperties DEF BindInv
<1>1. CASE Sema
  <2>1. /\ UNCHANGED <<shader, globals, placed>>
        /\ phase \in InSema /\ phase' \in Unread
    BY <1>1 DEF Sema, ReserveLocations, SkipDeclaration, NextCheck, SemaEnd, Checking, Pass, Begin, Stop,
       codegenVars, spirvVars, InSema, Unread
  <2> QED BY <2>1, BindOutside DEF InSema, Unread, SpirvWritten
<1>2. CASE DeclareStageVar \/ GenerateEntry \/ CodegenEnd
  <2>1. /\ UNCHANGED <<shader, globals, placed>> /\ phase = "codegen"
        /\ phase' \in {"codegen", "uniforms", "trampoline"}
        /\ (phase' = "uniforms" => at' = 1) /\ (phase' = "trampoline" => shader.target # "spirv")
    BY <1>2 DEF DeclareStageVar, GenerateEntry, CodegenEnd, Declaring, Pass, Begin, spirvVars, codegenVars
  <2> QED BY <1>0, <2>1, BindOutside DEF InSema, SpirvWritten
<1>3. CASE DeclareGlobal
  <2>1. phase = "codegen" /\ phase' \in {"codegen", "failed"} /\ UNCHANGED placed
    BY <1>3 DEF DeclareGlobal, Declaring, Pass, Stop, spirvVars
  <2> QED BY <1>3, <2>1, GlobalsNamedApart DEF BindInv, InSema, Counting, Analyzed, SpirvWritten
<1>4. CASE AnalyzeUniform
  <2>1. /\ phase = "uniforms" /\ phase' = phase /\ UNCHANGED <<shader, globals>> /\ at \in DOMAIN globals /\ at' = at + 1
        /\ \E new : placed' = [placed EXCEPT !["uniforms"] = @ \cup {new}]
    BY <1>4 DEF AnalyzeUniform, Visiting, Put, codegenVars
  <2>2. DOMAIN placed' = DOMAIN placed /\ placed'["bindings"] = placed["bindings"]
    BY <2>1 DEF BindInv
  <2>3. at' \in 1 .. Len(globals) + 1
    <3>1. DOMAIN globals = 1 .. Len(globals)  BY LenProperties DEF BindInv
    <3> QED BY <1>0, <2>1, <3>1
  <2> QED BY <2>1, <2>2, <2>3, BindOutside DEF InSema, SpirvWritten
<1>5. CASE AnalyzeBuffer \/ AnalyzeSampler
  BY <1>5, ResourceBinds DEF AnalyzeBuffer, AnalyzeSampler
<1>6. CASE SkipGlobal \/ AnalysisEnd
  BY <1>6, SkipBinds, AnalysisEndBinds
<1>7. CASE DeclareInput \/ InputsEnd \/ DeclareOutput \/ OutputsEnd
  <2>1. /\ phase \in {"inputs", "outputs"} /\ phase' \in {"inputs", "outputs", "written"} /\ UNCHANGED <<shader, globals>>
    BY <1>7 DEF DeclareInput, InputsEnd, DeclareOutput, OutputsEnd, Begin, Stop, codegenVars
  <2>2. DOMAIN placed' = DOMAIN placed /\ placed'["bindings"] = placed["bindings"]
    <3>1. CASE DeclareInput
      <4>1. \E new : placed' = [placed EXCEPT !["in"] = @ \cup {new}]  BY <3>1 DEF DeclareInput, Put
      <4> QED BY <4>1 DEF BindInv
    <3>2. CASE DeclareOutput
      <4>1. \E out, shadows : placed' = [placed EXCEPT !["out"] = @ \cup out, !["shadows"] = @ \cup shadows]
        BY <3>2 DEF DeclareOutput
      <4> QED BY <4>1 DEF BindInv
    <3>3. CASE InputsEnd \/ OutputsEnd
      BY <3>3 DEF InputsEnd, OutputsEnd, spirvVars
    <3> QED BY <1>7, <3>1, <3>2, <3>3
  <2> QED BY <2>1, <2>2, BindOutside DEF InSema, SpirvWritten
<1>8. CASE Flat
  <2>1. /\ UNCHANGED <<shader, globals, placed>> /\ phase \in {"trampoline", "load", "store"}
        /\ phase' \in {"failed", "load", "store", "written"}
    BY <1>8 DEF Flat, Trampoline, LoadAttribute, LoadVarying, LoadEnd, Moving, StoreVarying, StoreOutput,
       StoreEnd, Move, MoveSplit, LoadSplit, StoreSplit, Begin, Stop, codegenVars, spirvVars
  <2>2. shader.target # "spirv"  BY <2>1 DEF BindInv
  <2> QED BY <2>1, <2>2, BindOutside DEF InSema, SpirvWritten
<1>9. CASE Row
  <2>1. UNCHANGED <<shader, globals, placed>> /\ phase' \in {"row", "done"}
    BY <1>9 DEF Row, Dispatch, Invoke, Stop, codegenVars, spirvVars
  <2> QED BY <2>1, BindOutside DEF InSema, SpirvWritten
<1>10. CASE UNCHANGED vars
  <2>1. UNCHANGED <<shader, globals, placed, phase, at, counter>>
    BY <1>10 DEF vars, codegenVars, spirvVars
  <2> QED BY <2>1, BindFrame
<1> QED BY <1>1, <1>2, <1>3, <1>4, <1>5, <1>6, <1>7, <1>8, <1>9, <1>10 DEF Next, Codegen, Spirv, Finished

LEMMA BindInit == Init => BindInv
<1> SUFFICES ASSUME Init PROVE BindInv
  OBVIOUS
<1>1. /\ globals = <<>> /\ phase = "sema in"
      /\ placed = [w \in {"uniforms", "bindings", "in", "out", "shadows"} |-> {}]
  BY DEF Init
<1>2. globals \in Seq(Declaration) /\ DOMAIN globals = {}
  <2>1. <<>> \in Seq(Declaration) /\ DOMAIN <<>> = {}  OBVIOUS
  <2> QED BY <1>1, <2>1
<1>3. placed["bindings"] = {} /\ DOMAIN placed = {"uniforms", "bindings", "in", "out", "shadows"}  BY <1>1
<1> QED BY <1>1, <1>2, <1>3 DEF BindInv, InSema, Counting, Analyzed, SpirvWritten

\* However many buffers and samplers are declared, more than once, with or without a binding, each
\* global declared a buffer or a sampler gets one binding, its own if it has one, and positional ones
\* of a kind never share one (analyzeSSBOs, analyzeSamplers). A name that isSSBOGlobal takes for one of
\* the runtime's constants (emit_spirv_from_ir.h:584-587) is outside of what is claimed.
THEOREM BindsApart == Spec => []BindingsApart
<1>1. Init => BlockInv /\ BindInv
  BY BlockInit, BindInit
<1>2. BlockInv /\ BindInv /\ [Next]_vars => (BlockInv /\ BindInv)'
  BY BlockStep, BindStep
<1>3. BlockInv /\ BindInv => BindingsApart
  BY BoundApart
<1> QED BY <1>1, <1>2, <1>3, PTL DEF Spec

-----------------------------------------------------------------------------
(* Sema's counter and the backend's. *)

\* Locations of a type, for sema or for the backend.
Slots(who, t) == IF who = "sema" THEN LocationSlots(t) ELSE SpvLocationSlots(t)

LEMMA SlotsAre ==
  ASSUME NEW t
  PROVE  Slots("sema", t) = LocationSlots(t) /\ Slots("spirv", t) = SpvLocationSlots(t)
BY DEF Slots

\* The locations counted for declarations of a direction before the n-th, and how many they are.
Counted(who, decls, dir, n) ==
  UNION {{j} \X (1 .. Slots(who, decls[j].type)) :
           j \in {k \in DOMAIN decls : k < n /\ decls[k].kind = dir /\ decls[k].loc < 0}}
Pos(who, decls, dir, n) == Cardinality(Counted(who, decls, dir, n))

\* Where the j-th declaration belongs, and the declarations of a direction before the n-th.
EntryAt(who, decls, dir, j) ==
  Entry(decls[j].name, IF decls[j].loc >= 0 THEN decls[j].loc ELSE Pos(who, decls, dir, j), Slots(who, decls[j].type))
Entries(who, decls, dir, n) == {EntryAt(who, decls, dir, j) : j \in {k \in DOMAIN decls : k < n /\ decls[k].kind = dir}}

LEMMA DeclSlots ==
  ASSUME NEW who, shader \in Shaders, NEW j \in DOMAIN Decls
  PROVE  /\ j \in Nat /\ Decls[j].loc \in Int
         /\ Slots(who, Decls[j].type) \in Nat \ {0}
<1>1. Decls[j] \in Declaration /\ j \in Nat  BY DeclsAre
<1>2. Decls[j].loc \in Int /\ Decls[j].type \in Type  BY <1>1 DEF Declaration, Variable
<1> QED BY <1>1, <1>2, SlotsPositive DEF Slots

LEMMA CountedFinite ==
  ASSUME NEW who, shader \in Shaders, NEW dir, NEW n
  PROVE  IsFiniteSet(Counted(who, Decls, dir, n)) /\ Pos(who, Decls, dir, n) \in Nat
<1> DEFINE D == {k \in DOMAIN Decls : k < n /\ Decls[k].kind = dir /\ Decls[k].loc < 0}
           f == [j \in D |-> {j} \X (1 .. Slots(who, Decls[j].type))]
           T == {{j} \X (1 .. Slots(who, Decls[j].type)) : j \in D}
<1>1. IsFiniteSet(D)
  <2>1. IsFiniteSet(DOMAIN Decls)
    <3>1. DOMAIN Decls = 1 .. Len(Decls) /\ Len(Decls) \in Nat  BY DeclsAre
    <3> QED BY <3>1, FS_Interval
  <2>2. D \in SUBSET DOMAIN Decls  OBVIOUS
  <2> QED BY <2>1, <2>2, FS_Subset
<1>2. \A j \in D : IsFiniteSet({j} \X (1 .. Slots(who, Decls[j].type)))
  <2> SUFFICES ASSUME NEW j \in D PROVE IsFiniteSet({j} \X (1 .. Slots(who, Decls[j].type)))
    OBVIOUS
  <2>1. Slots(who, Decls[j].type) \in Nat  BY DeclSlots
  <2>2. IsFiniteSet(1 .. Slots(who, Decls[j].type))
    BY <2>1, FS_Interval
  <2>3. IsFiniteSet({j})
    BY FS_Singleton
  <2> QED BY <2>2, <2>3, FS_Product
<1> HIDE DEF D
<1>3. f \in Surjection(D, T)  BY DEF Surjection
<1>4. \A t \in T : IsFiniteSet(t)  BY <1>2
<1> HIDE DEF f, T
<1>5. IsFiniteSet(UNION T)
  BY <1>1, <1>3, <1>4, FS_Surjection, FS_UNION
<1>6. Counted(who, Decls, dir, n) = UNION T  BY DEF T, D, Counted
<1> QED BY <1>5, <1>6, FS_CardinalityType DEF Pos

LEMMA CountedNothing ==
  ASSUME NEW who, shader \in Shaders, NEW dir
  PROVE  Pos(who, Decls, dir, 1) = 0 /\ Entries(who, Decls, dir, 1) = {}
<1>1. {k \in DOMAIN Decls : k < 1} = {}  BY DeclsAre
<1>2. Counted(who, Decls, dir, 1) = {}  BY <1>1 DEF Counted
<1> QED BY <1>1, <1>2, FS_EmptySet DEF Pos, Entries

\* Only declarations of the direction matter.
LEMMA CountedSame ==
  ASSUME NEW who, shader \in Shaders, NEW dir, NEW n, NEW m,
         \A j \in DOMAIN Decls : Decls[j].kind = dir => (j < n <=> j < m)
  PROVE  Pos(who, Decls, dir, n) = Pos(who, Decls, dir, m) /\ Entries(who, Decls, dir, n) = Entries(who, Decls, dir, m)
<1>1. Counted(who, Decls, dir, n) = Counted(who, Decls, dir, m)
  <2>1. {k \in DOMAIN Decls : k < n /\ Decls[k].kind = dir /\ Decls[k].loc < 0}
        = {k \in DOMAIN Decls : k < m /\ Decls[k].kind = dir /\ Decls[k].loc < 0}
    OBVIOUS
  <2> QED BY <2>1 DEF Counted
<1>2. {k \in DOMAIN Decls : k < n /\ Decls[k].kind = dir} = {k \in DOMAIN Decls : k < m /\ Decls[k].kind = dir}
  OBVIOUS
<1> QED BY <1>1, <1>2 DEF Pos, Entries

LEMMA CountedNext ==
  ASSUME NEW who, shader \in Shaders, NEW n \in DOMAIN Decls, NEW dir, Decls[n].kind = dir
  PROVE  /\ Pos(who, Decls, dir, n + 1) = Pos(who, Decls, dir, n) + (IF Decls[n].loc >= 0 THEN 0 ELSE Slots(who, Decls[n].type))
         /\ Entries(who, Decls, dir, n + 1) = Entries(who, Decls, dir, n) \cup {EntryAt(who, Decls, dir, n)}
<1>1. \A j \in DOMAIN Decls : j < n + 1 <=> j < n \/ j = n
  BY DeclsAre
<1>2. Entries(who, Decls, dir, n + 1) = Entries(who, Decls, dir, n) \cup {EntryAt(who, Decls, dir, n)}
  <2>1. {k \in DOMAIN Decls : k < n + 1 /\ Decls[k].kind = dir} = {k \in DOMAIN Decls : k < n /\ Decls[k].kind = dir} \cup {n}
    BY <1>1
  <2> QED BY <2>1 DEF Entries
<1> DEFINE S == {n} \X (1 .. Slots(who, Decls[n].type))
           D(m) == {k \in DOMAIN Decls : k < m /\ Decls[k].kind = dir /\ Decls[k].loc < 0}
<1>3. PICK m \in Nat : m = Slots(who, Decls[n].type) /\ n \in Nat /\ Decls[n].loc \in Int  BY DeclSlots
<1>4. CASE Decls[n].loc >= 0
  <2>1. D(n + 1) = D(n)  BY <1>1, <1>3, <1>4
  <2>2. Counted(who, Decls, dir, n + 1) = Counted(who, Decls, dir, n)  BY <2>1 DEF Counted
  <2>3. Pos(who, Decls, dir, n + 1) = Pos(who, Decls, dir, n) /\ Pos(who, Decls, dir, n) \in Nat  BY <2>2, CountedFinite DEF Pos
  <2> QED BY <1>2, <1>4, <2>3
<1>5. CASE ~(Decls[n].loc >= 0)
  <2>1. D(n + 1) = D(n) \cup {n}  BY <1>1, <1>3, <1>5
  <2>2. Counted(who, Decls, dir, n + 1) = Counted(who, Decls, dir, n) \cup S
    <3>1. \A p : p \in Counted(who, Decls, dir, n + 1) <=> \E j \in D(n + 1) : p \in {j} \X (1 .. Slots(who, Decls[j].type))
      BY DEF Counted
    <3>2. \A p : p \in Counted(who, Decls, dir, n) <=> \E j \in D(n) : p \in {j} \X (1 .. Slots(who, Decls[j].type))
      BY DEF Counted
    <3> HIDE DEF D
    <3> QED BY <2>1, <3>1, <3>2
  <2>3. Counted(who, Decls, dir, n) \cap S = {}
    <3>1. \A p \in Counted(who, Decls, dir, n) : p[1] < n  BY DEF Counted
    <3>2. \A p \in S : p[1] = n  OBVIOUS
    <3> HIDE DEF S
    <3> QED BY <1>3, <3>1, <3>2
  <2>4. IsFiniteSet(S) /\ Cardinality(S) = m
    <3>1. IsFiniteSet(1 .. m)  BY <1>3, FS_Interval
    <3>2. Cardinality(1 .. m) = m
      <4>1. Cardinality(1 .. m) = IF 1 > m THEN 0 ELSE m - 1 + 1  BY FS_Interval
      <4>2. m \in Nat  BY <1>3
      <4> QED BY ONLY <4>1, <4>2
    <3>3. IsFiniteSet({n}) /\ Cardinality({n}) = 1  BY FS_Singleton
    <3>4. IsFiniteSet({n} \X (1 .. m)) /\ Cardinality({n} \X (1 .. m)) = 1 * m
      BY <3>1, <3>2, <3>3, FS_Product
    <3> QED BY <1>3, <3>4
  <2> HIDE DEF S
  <2>5. PICK C : C = Counted(who, Decls, dir, n) /\ IsFiniteSet(C) /\ Cardinality(C) \in Nat
    BY CountedFinite DEF Pos
  <2>6. Cardinality(C \cup S) = Cardinality(C) + Cardinality(S) - Cardinality(C \cap S)
    BY <2>4, <2>5, FS_Union
  <2>7. Cardinality(C \cap S) = 0  BY <2>3, <2>5, FS_EmptySet
  <2>8. Pos(who, Decls, dir, n + 1) = Cardinality(C) + m
    <3>1. Pos(who, Decls, dir, n + 1) = Cardinality(C \cup S)  BY <2>2, <2>5 DEF Pos
    <3>2. Cardinality(C \cup S) = Cardinality(C) + m - 0  BY <2>4, <2>6, <2>7
    <3> QED BY <1>3, <2>5, <3>1, <3>2
  <2>9. Pos(who, Decls, dir, n) = Cardinality(C)  BY <2>5 DEF Pos
  <2> QED BY <1>2, <1>3, <1>5, <2>8, <2>9
<1> QED BY <1>4, <1>5

\* An entry says which declaration it is for.
LEMMA EntriesNamed ==
  ASSUME NEW who, shader \in Shaders, NEW dir \in {"in", "out"}, NEW n,
         NEW x \in Entries(who, Decls, dir, n), NEW y \in Entries(who, Decls, dir, n), x.name = y.name
  PROVE  x = y
<1>1. PICK j \in DOMAIN Decls : Decls[j].kind = dir /\ x = EntryAt(who, Decls, dir, j)  BY DEF Entries
<1>2. PICK k \in DOMAIN Decls : Decls[k].kind = dir /\ y = EntryAt(who, Decls, dir, k)  BY DEF Entries
<1>3. x.name = Decls[j].name /\ y.name = Decls[k].name  BY <1>1, <1>2 DEF EntryAt, Entry
<1>4. j = k  BY <1>1, <1>2, <1>3, DeclsAre
<1> QED BY <1>1, <1>2, <1>4

\* Sema has reserved, for every declaration it has passed, the place it belongs to.
Filled(dir, n) == reserved[dir] = Entries("sema", Decls, dir, n)

TableInv ==
  /\ phase \in InSema => at \in 1 .. Len(Decls) + 1
  /\ phase = "sema in" /\ errors = 0 => Filled("in", at) /\ counter = Pos("sema", Decls, "in", at) /\ reserved["out"] = {}
  /\ phase = "sema out" /\ errors = 0 =>
       Filled("in", Len(Decls) + 1) /\ Filled("out", at) /\ counter = Pos("sema", Decls, "out", at)
  /\ phase \notin InSema \cup {"failed"} => Filled("in", Len(Decls) + 1) /\ Filled("out", Len(Decls) + 1)

LEMMA ReserveFills ==
  ASSUME ReservedInv, NEW dir \in {"in", "out"}, ReserveLocations(dir), errors' = 0,
         Filled(dir, at), counter = Pos("sema", Decls, dir, at)
  PROVE  /\ errors = 0 /\ reserved' = [reserved EXCEPT ![dir] = Entries("sema", Decls, dir, at + 1)]
         /\ counter' = Pos("sema", Decls, dir, at + 1)
<1>1. /\ shader \in Shaders /\ at \in DOMAIN Decls /\ Node = Decls[at] /\ Node.kind = dir /\ errors \in Nat
      /\ errors' = IF Collides(dir, Node) THEN errors + 1 ELSE errors
      /\ reserved' = [reserved EXCEPT ![dir] = @ \cup {Entry(Node.name, Location(Node), Given(dir, Node))}]
      /\ counter' = IF Node.loc >= 0 THEN counter ELSE counter + LocationSlots(Node.type)
  BY DEF ReservedInv, ReserveLocations, Node
<1>2. errors = 0 /\ ~Collides(dir, Node)  BY <1>1
<1>3. Given(dir, Node) = LocationSlots(Node.type)  BY <1>1, <1>2, AllGiven, DeclsAre
<1>4. Entry(Node.name, Location(Node), Given(dir, Node)) = EntryAt("sema", Decls, dir, at)
  BY <1>1, <1>3, SlotsAre DEF EntryAt, Location
<1>5. PICK n \in DOMAIN Decls : n = at  BY <1>1
<1>6. /\ Pos("sema", Decls, dir, n + 1) = Pos("sema", Decls, dir, n) + (IF Decls[n].loc >= 0 THEN 0 ELSE LocationSlots(Decls[n].type))
      /\ Entries("sema", Decls, dir, n + 1) = Entries("sema", Decls, dir, n) \cup {EntryAt("sema", Decls, dir, n)}
      /\ Pos("sema", Decls, dir, n) \in Nat
  BY <1>1, <1>5, CountedNext, CountedFinite, SlotsAre
<1>7. reserved[dir] \cup {Entry(Node.name, Location(Node), Given(dir, Node))} = Entries("sema", Decls, dir, n + 1)
  BY <1>4, <1>5, <1>6 DEF Filled
<1>8. reserved' = [reserved EXCEPT ![dir] = Entries("sema", Decls, dir, n + 1)]
  BY <1>1, <1>7
<1>9. counter' = Pos("sema", Decls, dir, n + 1)
  BY <1>1, <1>5, <1>6
<1> QED BY <1>2, <1>5, <1>8, <1>9

LEMMA TableStep == ReservedInv /\ CodegenInv /\ TableInv /\ [Next]_vars => TableInv'
<1> SUFFICES ASSUME ReservedInv, CodegenInv, TableInv, [Next]_vars PROVE TableInv'
  OBVIOUS
<1>1. /\ shader \in Shaders /\ DOMAIN reserved = {"in", "out"} /\ errors \in Nat
      /\ Len(Decls) \in Nat /\ DOMAIN Decls = 1 .. Len(Decls)
  BY DeclsAre DEF ReservedInv
<1>2. PICK n \in Nat : n = Len(Decls)  BY <1>1
<1>3. at \in DOMAIN Decls => /\ at + 1 \in 1 .. Len(Decls) + 1
                            /\ \A j \in DOMAIN Decls : (j < at + 1 => j < at \/ j = at) /\ (j < at => j < at + 1)
  <2>1. at \in 1 .. n => at + 1 \in 1 .. n + 1
                        /\ \A j \in 1 .. n : (j < at + 1 => j < at \/ j = at) /\ (j < at => j < at + 1)
    BY ONLY <1>2
  <2> QED BY ONLY <1>1, <1>2, <2>1
<1>4. phase \in InSema /\ at \notin DOMAIN Decls => at = Len(Decls) + 1
  <2>1. at \in 1 .. n + 1 /\ at \notin 1 .. n => at = n + 1
    BY ONLY <1>2
  <2>2. phase \in InSema => at \in 1 .. Len(Decls) + 1  BY DEF TableInv
  <2> QED BY ONLY <1>1, <1>2, <2>1, <2>2
<1>5. shader' = shader => Decls' = Decls  BY DEF Decls
<1>6. ASSUME NEW dir \in {"in", "out"}, ReserveLocations(dir) PROVE TableInv'
  <2>1. /\ phase = (IF dir = "in" THEN "sema in" ELSE "sema out") /\ phase' = phase /\ shader' = shader
        /\ at \in DOMAIN Decls /\ at' = at + 1
        /\ errors' = IF Collides(dir, Node) THEN errors + 1 ELSE errors
    BY <1>6 DEF ReserveLocations, Checking
  <2>2. at' \in 1 .. Len(Decls) + 1 /\ Decls' = Decls /\ (errors' = 0 => errors = 0)
    <3>1. errors' \in {errors, errors + 1} /\ errors \in Nat  BY <1>1, <2>1
    <3>2. errors' = 0 => errors = 0  BY ONLY <3>1
    <3> QED BY <1>3, <1>5, <2>1, <3>2
  <2>3. ASSUME errors' = 0
        PROVE  reserved' = [reserved EXCEPT ![dir] = Entries("sema", Decls, dir, at + 1)] /\ counter' = Pos("sema", Decls, dir, at + 1)
    <3>1. Filled(dir, at) /\ counter = Pos("sema", Decls, dir, at)  BY <2>1, <2>2, <2>3 DEF TableInv
    <3> QED BY <1>6, <2>3, <3>1, ReserveFills
  <2>4. CASE dir = "in"
    <3>1. ASSUME errors' = 0
          PROVE  reserved'["in"] = Entries("sema", Decls, "in", at + 1) /\ reserved'["out"] = {}
      <4>1. reserved["out"] = {}  BY <2>1, <2>2, <2>4, <3>1 DEF TableInv
      <4> QED BY <1>1, <2>3, <2>4, <3>1, <4>1
    <3> QED BY <2>1, <2>2, <2>3, <2>4, <3>1 DEF TableInv, Filled, InSema
  <2>5. CASE dir = "out"
    <3>1. ASSUME errors' = 0
          PROVE  reserved'["out"] = Entries("sema", Decls, "out", at + 1) /\ reserved'["in"] = Entries("sema", Decls, "in", Len(Decls) + 1)
      <4>1. reserved["in"] = Entries("sema", Decls, "in", Len(Decls) + 1)  BY <2>1, <2>2, <2>5, <3>1 DEF TableInv, Filled
      <4> QED BY <1>1, <2>3, <2>5, <3>1, <4>1
    <3> QED BY <2>1, <2>2, <2>3, <2>5, <3>1 DEF TableInv, Filled, InSema
  <2> QED BY <2>4, <2>5
<1>7. ASSUME NEW dir \in {"in", "out"}, SkipDeclaration(dir) PROVE TableInv'
  <2>1. /\ phase = (IF dir = "in" THEN "sema in" ELSE "sema out") /\ at \in DOMAIN Decls /\ at' = at + 1
        /\ UNCHANGED <<shader, phase, counter, reserved, errors>> /\ Decls[at].kind # dir
    BY <1>7 DEF SkipDeclaration, Checking, Pass, semaVars, Node
  <2>2. at' \in 1 .. Len(Decls) + 1 /\ Decls' = Decls
    BY <1>3, <1>5, <2>1
  <2>3. Pos("sema", Decls, dir, at) = Pos("sema", Decls, dir, at + 1) /\ Entries("sema", Decls, dir, at) = Entries("sema", Decls, dir, at + 1)
    <3>1. \A j \in DOMAIN Decls : Decls[j].kind = dir => (j < at <=> j < at + 1)
      BY <1>3, <2>1
    <3> QED BY <1>1, <3>1, CountedSame
  <2> QED BY <2>1, <2>2, <2>3 DEF TableInv, Filled, InSema
<1>8. CASE NextCheck
  <2>1. /\ phase = "sema in" /\ at \notin DOMAIN Decls /\ phase' = "sema out" /\ at' = 1 /\ counter' = 0
        /\ UNCHANGED <<shader, reserved, errors>>
    BY <1>8 DEF NextCheck, Begin, semaVars
  <2>2. at = Len(Decls) + 1 /\ Decls' = Decls
    BY <1>4, <1>5, <2>1 DEF InSema
  <2>4. 1 \in 1 .. Len(Decls) + 1
    BY ONLY <1>1
  <2>3. Pos("sema", Decls, "out", 1) = 0 /\ Entries("sema", Decls, "out", 1) = {}  BY <1>1, CountedNothing
  <2> QED BY <2>1, <2>2, <2>3, <2>4 DEF TableInv, Filled, InSema
<1>9. CASE SemaEnd
  <2>1. /\ phase = "sema out" /\ at \notin DOMAIN Decls /\ phase' \in {"failed", "codegen"}
        /\ UNCHANGED <<shader, reserved>>
        /\ errors' = errors + Cardinality(Doubles) /\ (phase' = "codegen" => ~(errors' > 0))
    BY <1>9 DEF SemaEnd, Begin, Stop
  <2>2. at = Len(Decls) + 1 /\ Decls' = Decls
    BY <1>1, <1>4, <1>5, <2>1 DEF InSema
  <2>3. phase' = "codegen" => errors = 0
    <3>1. Cardinality(Doubles) \in Nat  BY <1>1, DoublesFinite
    <3>2. PICK m \in Nat : m = Cardinality(Doubles) /\ errors' = errors + m  BY <2>1, <3>1
    <3>3. ~(errors' > 0) => errors = 0
      <4>1. errors \in Nat  BY <1>1
      <4> QED BY ONLY <3>2, <4>1
    <3> QED BY <2>1, <3>3
  <2> QED BY <2>1, <2>2, <2>3 DEF TableInv, Filled, InSema
<1>10. CASE Codegen \/ Spirv \/ Flat \/ Row \/ UNCHANGED vars
  <2>1. UNCHANGED <<shader, reserved, errors>>
    BY <1>10 DEF Codegen, DeclareStageVar, DeclareGlobal, GenerateEntry, CodegenEnd,
       Spirv, AnalyzeUniform, AnalyzeBuffer, AnalyzeSampler, AnalyzeResource, SkipGlobal, AnalysisEnd,
       DeclareInput, InputsEnd, DeclareOutput, OutputsEnd, Flat, Trampoline, LoadAttribute, LoadVarying, LoadEnd,
       StoreVarying, StoreOutput, StoreEnd, Move, MoveSplit, LoadSplit, StoreSplit, Row, Dispatch, Invoke,
       semaVars, vars
  <2>2. \/ UNCHANGED <<phase, at, counter>>
        \/ phase \notin InSema \cup {"failed"} /\ phase' \notin InSema
    <3>1. CASE Spirv
      BY <3>1 DEF Spirv, AnalyzeUniform, AnalyzeBuffer, AnalyzeSampler, AnalyzeResource, Visiting, Resource, SkipGlobal,
         AnalysisEnd, DeclareInput, InputsEnd, DeclareOutput, OutputsEnd, Pass, Begin, Stop, InSema
    <3>2. CASE Flat
      BY <3>2 DEF Flat, Trampoline, LoadAttribute, LoadVarying, LoadEnd, Moving,
         StoreVarying, StoreOutput, StoreEnd, Move, MoveSplit, LoadSplit, StoreSplit, Begin, Stop, InSema
    <3>3. CASE Row \/ UNCHANGED vars
      BY <3>3 DEF Row, Dispatch, Invoke, Stop, vars, InSema
    <3>4. CASE Codegen
      BY <3>4 DEF Codegen, DeclareStageVar, DeclareGlobal, GenerateEntry, CodegenEnd, Declaring, Pass, Stop, Begin, InSema
    <3> QED BY <1>10, <3>1, <3>2, <3>3, <3>4
  <2>3. Decls' = Decls  BY <2>1 DEF Decls
  <2> QED BY <2>1, <2>2, <2>3 DEF TableInv, Filled, InSema
<1> QED BY <1>6, <1>7, <1>8, <1>9, <1>10 DEF Next, Sema, Finished

LEMMA TableInit == Init => TableInv
<1> SUFFICES ASSUME Init PROVE TableInv
  OBVIOUS
<1>1. /\ shader \in Shaders /\ phase = "sema in" /\ at = 1 /\ counter = 0
      /\ reserved = [d \in {"in", "out"} |-> {}]
  BY DEF Init
<1>2. Len(Decls) \in Nat  BY <1>1, DeclsAre
<1>3. Pos("sema", Decls, "in", 1) = 0 /\ Entries("sema", Decls, "in", 1) = {}  BY <1>1, CountedNothing
<1>4. 1 \in 1 .. Len(Decls) + 1  BY <1>2
<1>5. reserved["in"] = {} /\ reserved["out"] = {}  BY <1>1
<1> QED BY <1>1, <1>3, <1>4, <1>5 DEF TableInv, Filled, InSema

-----------------------------------------------------------------------------
(* The backend goes through parameters and allocas. *)

\* The parameters, or the allocas, that stand for declarations of a direction are those of all of
\* them, in their order.
Stands(a, dir) == a.of = dir /\ a.name # "gl_Position"
Follows(decls, list, dir) ==
  /\ \A i \in DOMAIN list : Stands(list[i], dir) =>
       \E j \in DOMAIN decls : decls[j].kind = dir /\ list[i] = Alloca(decls[j], dir)
  /\ \A j \in DOMAIN decls : decls[j].kind = dir => \E i \in DOMAIN list : list[i] = Alloca(decls[j], dir)
  /\ \A i, k \in DOMAIN list, j, l \in DOMAIN decls :
       i < k /\ decls[j].kind = dir /\ decls[l].kind = dir /\ list[i] = Alloca(decls[j], dir) /\ list[k] = Alloca(decls[l], dir)
       => j < l

\* Before the a-th of a list stand the declarations before the n-th.
Passed(decls, list, dir, a, n) ==
  /\ n \in 1 .. Len(decls) + 1
  /\ \A i \in DOMAIN list, j \in DOMAIN decls :
       decls[j].kind = dir /\ list[i] = Alloca(decls[j], dir) => (i < a <=> j < n)

LEMMA PassedStart ==
  ASSUME shader \in Shaders, NEW list, DOMAIN list \subseteq Nat \ {0}, NEW dir
  PROVE  Passed(Decls, list, dir, 1, 1)
<1>1. 1 \in 1 .. Len(Decls) + 1  BY DeclsAre
<1>2. (\A i \in DOMAIN list : ~(i < 1)) /\ (\A j \in DOMAIN Decls : ~(j < 1))  BY DeclsAre
<1> QED BY <1>1, <1>2 DEF Passed

LEMMA PassedEnd ==
  ASSUME NEW who, shader \in Shaders, NEW dir, NEW list, NEW a, \A i \in DOMAIN list : i < a,
         Follows(Decls, list, dir), NEW n, Passed(Decls, list, dir, a, n)
  PROVE  Entries(who, Decls, dir, n) = Entries(who, Decls, dir, Len(Decls) + 1)
<1>1. \A j \in DOMAIN Decls : j < Len(Decls) + 1  BY DeclsAre
<1>2. \A j \in DOMAIN Decls : Decls[j].kind = dir => j < n  BY DEF Follows, Passed
<1> QED BY <1>1, <1>2, CountedSame

\* Declaration j is the first that is not counted before the n-th.
NextEntry(who, dir, n, j) ==
  /\ Pos(who, Decls, dir, j) = Pos(who, Decls, dir, n)
  /\ Entries(who, Decls, dir, j + 1) = Entries(who, Decls, dir, n) \cup {EntryAt(who, Decls, dir, j)}
  /\ Pos(who, Decls, dir, j + 1) = Pos(who, Decls, dir, n) + (IF Decls[j].loc >= 0 THEN 0 ELSE Slots(who, Decls[j].type))

\* A variable that stands for a declaration: the next one of its direction.
LEMMA PassedNext ==
  ASSUME shader \in Shaders, NEW dir \in {"in", "out"}, NEW list, NEW a \in DOMAIN list, DOMAIN list \subseteq Nat,
         Follows(Decls, list, dir), NEW n, Passed(Decls, list, dir, a, n), Stands(list[a], dir)
  PROVE  \E j \in DOMAIN Decls :
           /\ Decls[j].kind = dir /\ list[a] = Alloca(Decls[j], dir)
           /\ Passed(Decls, list, dir, a + 1, j + 1)
           /\ NextEntry("spirv", dir, n, j)
<1>1. PICK j \in DOMAIN Decls : Decls[j].kind = dir /\ list[a] = Alloca(Decls[j], dir)
  BY DEF Follows
<1>2. PICK N \in Nat : N = Len(Decls) /\ DOMAIN Decls = 1 .. N /\ n \in 1 .. N + 1
  BY DeclsAre DEF Passed
<1>3. \A i \in DOMAIN list : i \in Nat  OBVIOUS
<1>4. \A x \in DOMAIN Decls, y \in DOMAIN Decls : /\ x < y \/ x = y \/ y < x
                                                  /\ x < y + 1 <=> x < y \/ x = y
                                                  /\ ~(x < y /\ y < x) /\ ~(x < x)
  BY <1>2
<1>5. \A x \in DOMAIN list, y \in DOMAIN list : /\ x < y \/ x = y \/ y < x
                                                /\ x < y + 1 <=> x < y \/ x = y
                                                /\ ~(x < y /\ y < x) /\ ~(x < x)
  BY <1>3
<1>6. \A x, y \in DOMAIN Decls : Decls[x].kind = dir /\ Decls[y].kind = dir /\ Alloca(Decls[x], dir) = Alloca(Decls[y], dir) => x = y
  <2> SUFFICES ASSUME NEW x \in DOMAIN Decls, NEW y \in DOMAIN Decls, Decls[x].kind = dir, Decls[y].kind = dir,
                      Alloca(Decls[x], dir) = Alloca(Decls[y], dir)
               PROVE  x = y
    OBVIOUS
  <2>1. Decls[x].name = Decls[y].name  BY DEF Alloca
  <2> QED BY <2>1, DeclsAre
<1>7. ASSUME NEW i \in DOMAIN list, NEW k \in DOMAIN Decls, Decls[k].kind = dir, list[i] = Alloca(Decls[k], dir)
      PROVE  (i < a <=> k < j) /\ (i = a <=> k = j)
  <2>1. (i < a => k < j) /\ (a < i => j < k)
    BY <1>1, <1>7 DEF Follows
  <2>2. i = a => k = j  BY <1>1, <1>6, <1>7
  <2> QED BY <1>4, <1>5, <2>1, <2>2
<1>8. ASSUME NEW k \in DOMAIN Decls, Decls[k].kind = dir PROVE k < n <=> k < j
  <2>1. PICK i \in DOMAIN list : list[i] = Alloca(Decls[k], dir)  BY <1>8 DEF Follows
  <2>2. i < a <=> k < n  BY <1>8, <2>1 DEF Passed
  <2>3. i < a <=> k < j  BY <1>7, <1>8, <2>1
  <2> QED BY <2>2, <2>3
<1>9. NextEntry("spirv", dir, n, j)
  <2>1. Pos("spirv", Decls, dir, n) = Pos("spirv", Decls, dir, j) /\ Entries("spirv", Decls, dir, n) = Entries("spirv", Decls, dir, j)
    BY <1>8, CountedSame
  <2>2. /\ Pos("spirv", Decls, dir, j + 1) = Pos("spirv", Decls, dir, j) + (IF Decls[j].loc >= 0 THEN 0 ELSE Slots("spirv", Decls[j].type))
        /\ Entries("spirv", Decls, dir, j + 1) = Entries("spirv", Decls, dir, j) \cup {EntryAt("spirv", Decls, dir, j)}
    BY <1>1, CountedNext
  <2> QED BY <2>1, <2>2 DEF NextEntry
<1>10. Passed(Decls, list, dir, a + 1, j + 1)
  <2>1. j + 1 \in 1 .. Len(Decls) + 1  BY <1>2
  <2>2. \A i \in DOMAIN list, k \in DOMAIN Decls :
          Decls[k].kind = dir /\ list[i] = Alloca(Decls[k], dir) => (i < a + 1 <=> k < j + 1)
    BY <1>4, <1>5, <1>7
  <2> QED BY <2>1, <2>2 DEF Passed
<1> QED BY <1>1, <1>9, <1>10

\* Any other is passed over.
LEMMA PassedOver ==
  ASSUME shader \in Shaders, NEW dir \in {"in", "out"}, NEW list, NEW a \in DOMAIN list, DOMAIN list \subseteq Nat,
         NEW n, Passed(Decls, list, dir, a, n), ~Stands(list[a], dir),
         \A j \in DOMAIN Decls : Decls[j].name # "gl_Position"
  PROVE  Passed(Decls, list, dir, a + 1, n)
<1>1. \A i \in DOMAIN list : i < a + 1 <=> i < a \/ i = a
  OBVIOUS
<1>2. \A j \in DOMAIN Decls : list[a] # Alloca(Decls[j], dir)
  BY DEF Stands, Alloca
<1> QED BY <1>1, <1>2 DEF Passed

\* What an alloca can be.
Storage == [name : STRING \cup {"gl_Position"}, type : Type, loc : Int, of : {"in", "out", "local"}]
LocalAllocas == AllocasOf(shader.locals, "local")

LEMMA LocalsTyped ==
  ASSUME shader \in Shaders
  PROVE  LocalAllocas \in Seq(Storage) /\ \A i \in DOMAIN LocalAllocas : LocalAllocas[i].of = "local"
<1>1. shader.locals \in Seq(Variable({"local"}))  BY ShadersAssumption
<1>2. PICK s : s = shader.locals  OBVIOUS
<1>3. /\ s \in Seq(Variable({"local"})) /\ Len(s) \in Nat /\ DOMAIN s = 1 .. Len(s)
      /\ \A i \in DOMAIN s : s[i] \in Variable({"local"})
  <2>1. s \in Seq(Variable({"local"})) /\ Len(s) \in Nat /\ DOMAIN s = 1 .. Len(s)
    BY <1>1, <1>2, LenProperties
  <2>2. \A i \in DOMAIN s : s[i] \in Variable({"local"})  BY <2>1, ElementOfSeq
  <2> QED BY <2>1, <2>2
<1>4. ASSUME NEW i \in DOMAIN s
      PROVE  Alloca(s[i], "local") \in Storage /\ Alloca(s[i], "local").of = "local"
  <2>1. s[i] \in Variable({"local"})  BY <1>3
  <2> QED BY <2>1 DEF Alloca, Storage, Variable
<1>5. LocalAllocas = [i \in 1 .. Len(s) |-> Alloca(s[i], "local")]
  BY <1>2, <1>3 DEF LocalAllocas, AllocasOf
<1>6. LocalAllocas \in [1 .. Len(s) -> Storage]
  BY <1>3, <1>4, <1>5
<1>7. LocalAllocas \in Seq(Storage)
  BY <1>3, <1>6, SeqDef
<1> QED BY <1>3, <1>4, <1>5, <1>7

LEMMA SlotsAreStorage == \A s : s \in Seq(Slot) => s \in Seq(Storage)
<1> SUFFICES ASSUME NEW s \in Seq(Slot) PROVE s \in Seq(Storage)
  OBVIOUS
<1>1. Slot \subseteq Storage  BY DEF Slot, Storage
<1>2. Len(s) \in Nat /\ DOMAIN s = 1 .. Len(s)  BY LenProperties
<1>3. s \in [1 .. Len(s) -> Slot]  BY <1>2, SeqDef
<1>4. s \in [1 .. Len(s) -> Storage]  BY <1>1, <1>3
<1> QED BY <1>2, <1>4, SeqDef

LEMMA AllocasTyped ==
  ASSUME CodegenInv, phase \notin Unread
  PROVE  /\ params \in Seq(Storage) /\ results \in Seq(Storage) /\ allocas \in Seq(Storage)
         /\ Len(allocas) \in Nat /\ DOMAIN allocas = 1 .. Len(allocas)
         /\ allocas = params \o results \o LocalAllocas
<1>1. shader \in Shaders /\ params \in Seq(Storage) /\ results \in Seq(Storage)
  BY InterfaceTyped, SlotsAreStorage DEF CodegenInv
<1>2. PICK e \in DOMAIN Decls : \E inl, outl : EntryGenerated(e, inl, outl)
  BY DEF CodegenInv
<1>3. allocas = params \o results \o LocalAllocas
  BY <1>2 DEF EntryGenerated, LocalAllocas
<1>4. LocalAllocas \in Seq(Storage)  BY <1>1, LocalsTyped
<1>5. PICK b, c : b = params \o results /\ c = b \o LocalAllocas  OBVIOUS
<1>6. b \in Seq(Storage)  BY <1>1, <1>5, ConcatProperties
<1>7. c \in Seq(Storage)  BY <1>4, <1>5, <1>6, ConcatProperties
<1>8. allocas \in Seq(Storage)  BY <1>3, <1>5, <1>7
<1> QED BY <1>1, <1>3, <1>8, LenProperties

\* What does not stand for a declaration of the direction may come before and after.
Foreign(list, dir) == \A i \in DOMAIN list : ~Stands(list[i], dir)

LEMMA FollowsBefore ==
  ASSUME NEW S, NEW pre \in Seq(S), NEW list \in Seq(S), NEW dir, Foreign(pre, dir), Follows(Decls, list, dir),
         \A j \in DOMAIN Decls : Decls[j].name # "gl_Position"
  PROVE  Follows(Decls, pre \o list, dir)
<1> DEFINE all == pre \o list
<1>1. PICK m \in Nat, n \in Nat : /\ m = Len(pre) /\ n = Len(list) /\ DOMAIN pre = 1 .. m /\ DOMAIN list = 1 .. n
                                  /\ DOMAIN all = 1 .. m + n
                                  /\ \A i \in 1 .. m + n : all[i] = IF i <= m THEN pre[i] ELSE list[i - m]
  <2>1. /\ all \in Seq(S) /\ Len(all) = Len(pre) + Len(list)
        /\ \A i \in 1 .. Len(pre) + Len(list) : all[i] = IF i <= Len(pre) THEN pre[i] ELSE list[i - Len(pre)]
    BY ConcatProperties
  <2> HIDE DEF all
  <2>2. /\ DOMAIN all = 1 .. Len(all)
        /\ Len(pre) \in Nat /\ DOMAIN pre = 1 .. Len(pre) /\ Len(list) \in Nat /\ DOMAIN list = 1 .. Len(list)
    BY <2>1, LenProperties
  <2> QED BY <2>1, <2>2
<1> HIDE DEF all
<1>2. ASSUME NEW i \in DOMAIN all, Stands(all[i], dir)
      PROVE  i - m \in DOMAIN list /\ all[i] = list[i - m]
  <2>1. CASE i <= m
    <3>1. i \in DOMAIN pre /\ all[i] = pre[i]  BY <1>1, <2>1
    <3> QED BY <1>2, <3>1 DEF Foreign
  <2>2. CASE ~(i <= m)
    BY <1>1, <2>2
  <2> QED BY <2>1, <2>2
<1>3. \A i \in DOMAIN list : i + m \in DOMAIN all /\ all[i + m] = list[i]
  <2> SUFFICES ASSUME NEW i \in DOMAIN list PROVE i + m \in DOMAIN all /\ all[i + m] = list[i]
    OBVIOUS
  <2>1. i + m \in 1 .. m + n /\ ~(i + m <= m) /\ (i + m) - m = i  BY <1>1
  <2> QED BY <1>1, <2>1
<1>4. \A j \in DOMAIN Decls : Stands(Alloca(Decls[j], dir), dir)
  BY DEF Stands, Alloca
<1>5. \A i \in DOMAIN all : Stands(all[i], dir) =>
        \E j \in DOMAIN Decls : Decls[j].kind = dir /\ all[i] = Alloca(Decls[j], dir)
  BY <1>2 DEF Follows
<1>6. \A j \in DOMAIN Decls : Decls[j].kind = dir => \E i \in DOMAIN all : all[i] = Alloca(Decls[j], dir)
  <2> SUFFICES ASSUME NEW j \in DOMAIN Decls, Decls[j].kind = dir PROVE \E i \in DOMAIN all : all[i] = Alloca(Decls[j], dir)
    OBVIOUS
  <2>1. PICK i \in DOMAIN list : list[i] = Alloca(Decls[j], dir)  BY DEF Follows
  <2> QED BY <1>3, <2>1
<1>7. ASSUME NEW i \in DOMAIN all, NEW k \in DOMAIN all, NEW j \in DOMAIN Decls, NEW l \in DOMAIN Decls,
             i < k, Decls[j].kind = dir, Decls[l].kind = dir, all[i] = Alloca(Decls[j], dir), all[k] = Alloca(Decls[l], dir)
      PROVE  j < l
  <2>1. Stands(all[i], dir) /\ Stands(all[k], dir)  BY <1>4, <1>7
  <2>2. PICK x \in DOMAIN list, y \in DOMAIN list : x = i - m /\ y = k - m /\ all[i] = list[x] /\ all[k] = list[y]
    BY <1>2, <2>1
  <2>3. x < y  BY <1>1, <1>7, <2>2
  <2> QED BY <1>7, <2>2, <2>3 DEF Follows
<1> QED BY <1>5, <1>6, <1>7 DEF Follows, all

LEMMA FollowsAfter ==
  ASSUME NEW S, NEW list \in Seq(S), NEW post \in Seq(S), NEW dir, Foreign(post, dir), Follows(Decls, list, dir),
         \A j \in DOMAIN Decls : Decls[j].name # "gl_Position"
  PROVE  Follows(Decls, list \o post, dir)
<1> DEFINE all == list \o post
<1>1. PICK m \in Nat, n \in Nat : /\ m = Len(list) /\ n = Len(post) /\ DOMAIN list = 1 .. m /\ DOMAIN post = 1 .. n
                                  /\ DOMAIN all = 1 .. m + n
                                  /\ \A i \in 1 .. m + n : all[i] = IF i <= m THEN list[i] ELSE post[i - m]
  <2>1. /\ all \in Seq(S) /\ Len(all) = Len(list) + Len(post)
        /\ \A i \in 1 .. Len(list) + Len(post) : all[i] = IF i <= Len(list) THEN list[i] ELSE post[i - Len(list)]
    BY ConcatProperties
  <2> HIDE DEF all
  <2>2. /\ DOMAIN all = 1 .. Len(all)
        /\ Len(list) \in Nat /\ DOMAIN list = 1 .. Len(list) /\ Len(post) \in Nat /\ DOMAIN post = 1 .. Len(post)
    BY <2>1, LenProperties
  <2> QED BY <2>1, <2>2
<1> HIDE DEF all
<1>2. ASSUME NEW i \in DOMAIN all, Stands(all[i], dir)
      PROVE  i \in DOMAIN list /\ all[i] = list[i]
  <2>1. CASE i <= m
    BY <1>1, <2>1
  <2>2. CASE ~(i <= m)
    <3>1. i - m \in DOMAIN post /\ all[i] = post[i - m]  BY <1>1, <2>2
    <3> QED BY <1>2, <3>1 DEF Foreign
  <2> QED BY <2>1, <2>2
<1>3. \A i \in DOMAIN list : i \in DOMAIN all /\ all[i] = list[i]
  BY <1>1
<1>4. \A j \in DOMAIN Decls : Stands(Alloca(Decls[j], dir), dir)
  BY DEF Stands, Alloca
<1>5. \A i \in DOMAIN all : Stands(all[i], dir) =>
        \E j \in DOMAIN Decls : Decls[j].kind = dir /\ all[i] = Alloca(Decls[j], dir)
  BY <1>2 DEF Follows
<1>6. \A j \in DOMAIN Decls : Decls[j].kind = dir => \E i \in DOMAIN all : all[i] = Alloca(Decls[j], dir)
  BY <1>3 DEF Follows
<1>7. \A i, k \in DOMAIN all, j, l \in DOMAIN Decls :
        i < k /\ Decls[j].kind = dir /\ Decls[l].kind = dir /\ all[i] = Alloca(Decls[j], dir) /\ all[k] = Alloca(Decls[l], dir)
        => j < l
  BY <1>2, <1>4 DEF Follows
<1> QED BY <1>5, <1>6, <1>7 DEF Follows, all

LEMMA ListedFollows ==
  ASSUME shader \in Shaders, NEW dir \in {"in", "out"}, NEW e \in DOMAIN Decls, Decls[e].kind = "entry",
         \A i, j \in DOMAIN Decls : Decls[i].kind = "entry" /\ j > i => Decls[j].kind \notin {"in", "out"},
         NEW list, Listed(Decls, list, dir, e)
  PROVE  Follows(Decls, AllocasOf(list, dir), dir)
<1> DEFINE all == AllocasOf(list, dir)
<1>1. DOMAIN all = DOMAIN list /\ \A i \in DOMAIN list : all[i] = Alloca(list[i], dir)
  BY DEF AllocasOf
<1> HIDE DEF all
<1>2. \A j \in DOMAIN Decls : Decls[j].kind = dir => j < e
  <2> SUFFICES ASSUME NEW j \in DOMAIN Decls, Decls[j].kind = dir PROVE j < e
    OBVIOUS
  <2>1. j # e /\ ~(j > e)  OBVIOUS
  <2>2. j \in Nat /\ e \in Nat  BY DeclsAre
  <2> QED BY <2>1, <2>2
<1>3. \A i \in DOMAIN list : \E j \in DOMAIN Decls : Decls[j].kind = dir /\ list[i] = Decls[j]
  BY DEF Listed
<1>4. ASSUME NEW i \in DOMAIN list, NEW j \in DOMAIN Decls, Decls[j].kind = dir, all[i] = Alloca(Decls[j], dir)
      PROVE  list[i] = Decls[j]
  <2>1. PICK k \in DOMAIN Decls : Decls[k].kind = dir /\ list[i] = Decls[k]  BY <1>3
  <2>2. Alloca(Decls[k], dir) = Alloca(Decls[j], dir)  BY <1>1, <1>4, <2>1
  <2>3. Decls[k].name = Decls[j].name  BY <2>2 DEF Alloca
  <2>4. k = j  BY <2>1, <2>3, <1>4, DeclsAre
  <2> QED BY <2>1, <2>4
<1>5. \A i \in DOMAIN all : \E j \in DOMAIN Decls : Decls[j].kind = dir /\ all[i] = Alloca(Decls[j], dir)
  BY <1>1, <1>3
<1>6. \A j \in DOMAIN Decls : Decls[j].kind = dir => \E i \in DOMAIN all : all[i] = Alloca(Decls[j], dir)
  BY <1>1, <1>2 DEF Listed
<1>7. \A i, k \in DOMAIN all, j, l \in DOMAIN Decls :
        i < k /\ Decls[j].kind = dir /\ Decls[l].kind = dir /\ all[i] = Alloca(Decls[j], dir) /\ all[k] = Alloca(Decls[l], dir)
        => j < l
  BY <1>1, <1>4 DEF Listed
<1> QED BY <1>5, <1>6, <1>7 DEF Follows, all

LEMMA InterfaceFollows ==
  ASSUME CodegenInv, phase \notin Unread, Conventional
  PROVE  /\ Follows(Decls, params, "in") /\ Follows(Decls, allocas, "out")
         /\ \A i \in DOMAIN params : Stands(params[i], "in")
         /\ \A j \in DOMAIN Decls : Decls[j].name # "gl_Position"
<1>1. /\ shader \in Shaders /\ shader.stage # "compute"
      /\ \A i, j \in DOMAIN Decls : Decls[i].kind = "entry" /\ j > i => Decls[j].kind \notin {"in", "out"}
      /\ \A j \in DOMAIN Decls : Decls[j].name # "gl_Position"
  BY DEF CodegenInv, Conventional
<1>2. PICK e \in DOMAIN Decls : \E inl, outl : EntryGenerated(e, inl, outl)
  BY DEF CodegenInv
<1>3. PICK inl, outl : EntryGenerated(e, inl, outl)
  BY <1>2
<1>4. PICK ia, oa : ia = AllocasOf(inl, "in") /\ oa = AllocasOf(outl, "out")
  OBVIOUS
<1>5. /\ params = ia /\ results = Builtin \o oa /\ Decls[e].kind = "entry"
      /\ Listed(Decls, inl, "in", e) /\ Listed(Decls, outl, "out", e)
  BY <1>1, <1>3, <1>4 DEF EntryGenerated
<1>6. Follows(Decls, ia, "in") /\ Follows(Decls, oa, "out")
  BY <1>1, <1>4, <1>5, ListedFollows
<1>7. ia \in Seq(Storage) /\ oa \in Seq(Storage)
  BY <1>1, <1>4, <1>5, ListedSlots, SlotsAreStorage
<1>8. \A i \in DOMAIN ia : ia[i].of = "in" /\ \E j \in DOMAIN Decls : ia[i].name = Decls[j].name
  BY <1>4, <1>5 DEF AllocasOf, Alloca, Listed
<1>9. Builtin \in Seq(Storage) /\ Foreign(Builtin, "out")
  <2>1. CASE shader.stage = "vertex"
    <3>1. Builtin = <<Alloca(Position, "out")>>  BY <2>1 DEF Builtin
    <3>2. PICK p : p = Alloca(Position, "out")  OBVIOUS
    <3>3. p.name = "gl_Position" /\ p \in Storage
      <4>1. p = [name |-> "gl_Position", type |-> Vec4, loc |-> -1, of |-> "out"]
        BY <3>2 DEF Alloca, Position
      <4>2. Vec4 \in Type
        <5>1. <<"f", "f", "f", "f">> \in Seq({"f", "d"})  OBVIOUS
        <5> QED BY <5>1 DEF Vec4, Type
      <4>3. -1 \in Int  OBVIOUS
      <4> QED BY ONLY <4>1, <4>2, <4>3 DEF Storage
    <3>4. Builtin = <<p>>  BY <3>1, <3>2
    <3>5. <<p>> \in Seq(Storage)  BY <3>3
    <3>6. DOMAIN <<p>> = {1} /\ <<p>>[1] = p  OBVIOUS
    <3> QED BY <3>3, <3>4, <3>5, <3>6 DEF Foreign, Stands
  <2>2. CASE shader.stage # "vertex"
    <3>1. Builtin = <<>>  BY <2>2 DEF Builtin
    <3>2. <<>> \in Seq(Storage) /\ DOMAIN <<>> = {}  OBVIOUS
    <3> QED BY <3>1, <3>2 DEF Foreign
  <2> QED BY <2>1, <2>2
<1>10. Follows(Decls, results, "out")
  BY <1>1, <1>5, <1>6, <1>7, <1>9, FollowsBefore
<1>11. results \in Seq(Storage) /\ allocas = params \o results \o LocalAllocas
  BY AllocasTyped
<1>12. PICK b : b = params \o results  OBVIOUS
<1>13. Foreign(params, "out")
  BY <1>5, <1>8 DEF Foreign, Stands
<1>14. Follows(Decls, b, "out") /\ b \in Seq(Storage)
  <2>1. b \in Seq(Storage)  BY <1>5, <1>7, <1>11, <1>12, ConcatProperties
  <2>2. Follows(Decls, params \o results, "out")
    BY <1>1, <1>5, <1>7, <1>10, <1>11, <1>13, FollowsBefore
  <2> QED BY <1>12, <2>1, <2>2
<1>15. Foreign(LocalAllocas, "out") /\ LocalAllocas \in Seq(Storage)
  BY <1>1, LocalsTyped DEF Foreign, Stands
<1>16. Follows(Decls, b \o LocalAllocas, "out")
  BY <1>1, <1>14, <1>15, FollowsAfter
<1>17. \A i \in DOMAIN params : Stands(params[i], "in")
  BY <1>1, <1>5, <1>8 DEF Stands
<1> QED BY <1>1, <1>5, <1>6, <1>11, <1>12, <1>16, <1>17

InputsPlaced ==
  \E n : /\ Passed(Decls, params, "in", at, n)
         /\ placed["in"] = Entries("spirv", Decls, "in", n) /\ counter = Pos("spirv", Decls, "in", n)
OutputsPlaced ==
  /\ placed["in"] = Entries("spirv", Decls, "in", Len(Decls) + 1)
  /\ \E n : /\ Passed(Decls, allocas, "out", at, n)
            /\ placed["out"] = Entries("spirv", Decls, "out", n)
            /\ shader.stage = "vertex" => counter = Pos("spirv", Decls, "out", n)
AllPlaced == \A d \in {"in", "out"} : placed[d] = Entries("spirv", Decls, d, Len(Decls) + 1)

PlacedInv ==
  /\ phase \in InSema \cup {"codegen"} \cup Counting => placed["in"] = {} /\ placed["out"] = {}
  /\ phase = "inputs" => at \in 1 .. Len(params) + 1 /\ placed["out"] = {} /\ (Conventional => InputsPlaced)
  /\ phase = "outputs" => at \in 1 .. Len(allocas) + 1 /\ (Conventional => OutputsPlaced)
  /\ SpirvWritten /\ Conventional => AllPlaced

\* Where the backend puts a variable that stands for a declaration.
LEMMA EntryOfAlloca ==
  ASSUME shader \in Shaders, NEW dir, NEW j \in DOMAIN Decls, NEW a, a = Alloca(Decls[j], dir), NEW c, c = Pos("spirv", Decls, dir, j)
  PROVE  /\ Entry(a.name, At(a, c), SpvLocationSlots(a.type)) = EntryAt("spirv", Decls, dir, j)
         /\ c + (IF Decls[j].loc >= 0 THEN 0 ELSE Slots("spirv", Decls[j].type))
            = IF a.loc >= 0 THEN c ELSE c + SpvLocationSlots(a.type)
<1>1. a.name = Decls[j].name /\ a.type = Decls[j].type /\ a.loc = Decls[j].loc
  BY DEF Alloca
<1>2. c \in Nat  BY CountedFinite
<1> QED BY <1>1, <1>2, SlotsAre DEF EntryAt, At

LEMMA InputPlaces ==
  ASSUME CodegenInv, PlacedInv, DOMAIN placed = {"uniforms", "bindings", "in", "out", "shadows"}, DeclareInput
  PROVE  PlacedInv'
<1>1. /\ phase = "inputs" /\ phase' = phase /\ at \in DOMAIN params /\ at' = at + 1
      /\ UNCHANGED <<shader, params, allocas>>
      /\ placed' = [placed EXCEPT !["in"] = @ \cup {Entry(params[at].name, At(params[at], counter), SpvLocationSlots(params[at].type))}]
      /\ counter' = IF params[at].loc >= 0 THEN counter ELSE counter + SpvLocationSlots(params[at].type)
  BY DEF DeclareInput, Put, Advance, codegenVars
<1>2. phase \notin Unread /\ shader \in Shaders  BY <1>1 DEF Unread, InSema, CodegenInv
<1>3. DOMAIN params = 1 .. Len(params) /\ Len(params) \in Nat /\ placed["out"] = {} /\ (Conventional => InputsPlaced)
  BY <1>1, <1>2, InterfaceTyped, LenProperties DEF PlacedInv
<1>4. at' \in 1 .. Len(params) + 1 /\ DOMAIN params \subseteq Nat  BY <1>1, <1>3
<1>5. placed'["out"] = {}  BY <1>1, <1>3
<1>6. ASSUME Conventional PROVE InputsPlaced'
  <2>1. PICK n : /\ Passed(Decls, params, "in", at, n)
                 /\ placed["in"] = Entries("spirv", Decls, "in", n) /\ counter = Pos("spirv", Decls, "in", n)
    BY <1>3, <1>6 DEF InputsPlaced
  <2>2. PICK a \in DOMAIN params : a = at  BY <1>1
  <2>3. Follows(Decls, params, "in") /\ Stands(params[a], "in")
    BY <1>2, <1>6, InterfaceFollows
  <2>4. PICK j \in DOMAIN Decls :
           /\ Decls[j].kind = "in" /\ params[a] = Alloca(Decls[j], "in")
           /\ Passed(Decls, params, "in", a + 1, j + 1)
           /\ NextEntry("spirv", "in", n, j)
    BY <1>2, <1>4, <2>1, <2>2, <2>3, PassedNext
  <2>5. /\ Entry(params[a].name, At(params[a], counter), SpvLocationSlots(params[a].type)) = EntryAt("spirv", Decls, "in", j)
        /\ counter + (IF Decls[j].loc >= 0 THEN 0 ELSE Slots("spirv", Decls[j].type))
           = IF params[a].loc >= 0 THEN counter ELSE counter + SpvLocationSlots(params[a].type)
    BY <1>2, <2>1, <2>4, EntryOfAlloca DEF NextEntry
  <2>6. placed'["in"] = Entries("spirv", Decls, "in", j + 1)
    <3>1. placed'["in"] = placed["in"] \cup {Entry(params[a].name, At(params[a], counter), SpvLocationSlots(params[a].type))}
      BY <1>1, <2>2
    <3> QED BY <2>1, <2>4, <2>5, <3>1 DEF NextEntry
  <2>7. counter' = Pos("spirv", Decls, "in", j + 1)
    BY <1>1, <2>1, <2>2, <2>4, <2>5 DEF NextEntry
  <2>8. Decls' = Decls  BY <1>1 DEF Decls
  <2>9. PICK k : k = j + 1 /\ Passed(Decls, params, "in", a + 1, k)  BY <2>4
  <2> QED BY <1>1, <2>2, <2>6, <2>7, <2>8, <2>9 DEF InputsPlaced
<1>7. Conventional' => Conventional
  BY <1>1 DEF Conventional, IsVarying, IsColor, Decls
<1> QED BY <1>1, <1>4, <1>5, <1>6, <1>7 DEF PlacedInv, InSema, Counting, SpirvWritten

LEMMA OutputPlaces ==
  ASSUME CodegenInv, PlacedInv, DOMAIN placed = {"uniforms", "bindings", "in", "out", "shadows"}, DeclareOutput
  PROVE  PlacedInv'
<1> DEFINE b == Renamed(allocas[at])
           out == IF IsVarying(b) THEN {Entry(b.name, At(b, counter), SpvLocationSlots(b.type))}
                  ELSE IF IsColor(b) THEN {Entry(b.name, At(b, 0), SpvLocationSlots(b.type))} ELSE {}
<1>1. /\ phase = "outputs" /\ phase' = phase /\ at \in DOMAIN allocas /\ at' = at + 1
      /\ UNCHANGED <<shader, params, allocas>>
      /\ \E shadows : placed' = [placed EXCEPT !["out"] = @ \cup out, !["shadows"] = @ \cup shadows]
      /\ counter' = IF IsVarying(b) THEN Advance(b) ELSE counter
  BY DEF DeclareOutput, codegenVars
<1>2. phase \notin Unread /\ shader \in Shaders  BY <1>1 DEF Unread, InSema, CodegenInv
<1>3. /\ allocas \in Seq(Storage) /\ DOMAIN allocas = 1 .. Len(allocas) /\ Len(allocas) \in Nat
      /\ (Conventional => OutputsPlaced)
  BY <1>1, <1>2, AllocasTyped DEF PlacedInv
<1>4. at' \in 1 .. Len(allocas) + 1 /\ DOMAIN allocas \subseteq Nat  BY <1>1, <1>3
<1>5. placed'["in"] = placed["in"] /\ placed'["out"] = placed["out"] \cup out
  <2> HIDE DEF out
  <2> QED BY <1>1
<1>6. PICK a \in DOMAIN allocas : a = at  BY <1>1
<1>7. /\ allocas[a] \in Storage /\ b.name = allocas[a].name /\ b.type = allocas[a].type /\ b.of = allocas[a].of
      /\ (allocas[a].of # "in" => b = allocas[a])
  <2>1. allocas[a] \in Storage  BY <1>3, ElementOfSeq
  <2> QED BY <1>6, <2>1 DEF Renamed, Storage
<1> HIDE DEF b
<1>8. (IsVarying(b) <=> IsVarying(allocas[a])) /\ (IsColor(b) <=> IsColor(allocas[a]))
  BY <1>7 DEF IsVarying, IsColor
<1>9. ASSUME Conventional PROVE OutputsPlaced'
  <2>1. PICK n : /\ Passed(Decls, allocas, "out", at, n)
                 /\ placed["out"] = Entries("spirv", Decls, "out", n)
                 /\ shader.stage = "vertex" => counter = Pos("spirv", Decls, "out", n)
    BY <1>3, <1>9 DEF OutputsPlaced
  <2>2. placed["in"] = Entries("spirv", Decls, "in", Len(Decls) + 1) /\ Decls' = Decls
    BY <1>1, <1>3, <1>9 DEF OutputsPlaced, Decls
  <2>3. Follows(Decls, allocas, "out") /\ \A j \in DOMAIN Decls : Decls[j].name # "gl_Position"
    BY <1>2, <1>9, InterfaceFollows
  <2>4. /\ shader.stage \in {"vertex", "fragment"}
        /\ \A i \in DOMAIN allocas : /\ Stands(allocas[i], "out") <=> IsVarying(allocas[i]) \/ IsColor(allocas[i])
                                     /\ allocas[i].name = "FragColor" => shader.stage = "fragment"
    BY <1>9 DEF Conventional, Stands, Elems
  <2>5. CASE ~Stands(allocas[a], "out")
    <3>1. ~IsVarying(b) /\ ~IsColor(b)  BY <1>8, <2>4, <2>5
    <3>2. placed'["out"] = placed["out"] /\ counter' = counter  BY <1>1, <1>5, <3>1
    <3>3. Passed(Decls, allocas, "out", a + 1, n)
      BY <1>2, <1>4, <1>6, <2>1, <2>3, <2>5, PassedOver
    <3> QED BY <1>1, <1>5, <1>6, <2>1, <2>2, <3>2, <3>3 DEF OutputsPlaced
  <2>6. CASE Stands(allocas[a], "out")
    <3>1. PICK j \in DOMAIN Decls :
           /\ Decls[j].kind = "out" /\ allocas[a] = Alloca(Decls[j], "out")
           /\ Passed(Decls, allocas, "out", a + 1, j + 1)
           /\ NextEntry("spirv", "out", n, j)
      BY <1>2, <1>4, <1>6, <2>1, <2>3, <2>6, PassedNext
    <3>2. b = allocas[a]
      BY <1>7, <2>6 DEF Stands
    <3>3. out = {EntryAt("spirv", Decls, "out", j)} /\ (shader.stage = "vertex" => counter' = Pos("spirv", Decls, "out", j + 1))
      <4>1. CASE shader.stage = "vertex"
        <5>1. IsVarying(b)
          BY <1>8, <2>4, <2>6, <4>1 DEF IsColor
        <5>2. /\ Entry(b.name, At(b, counter), SpvLocationSlots(b.type)) = EntryAt("spirv", Decls, "out", j)
              /\ counter + (IF Decls[j].loc >= 0 THEN 0 ELSE Slots("spirv", Decls[j].type))
                 = IF b.loc >= 0 THEN counter ELSE counter + SpvLocationSlots(b.type)
          BY <1>2, <2>1, <3>1, <3>2, <4>1, EntryOfAlloca DEF NextEntry
        <5>3. counter' = IF b.loc >= 0 THEN counter ELSE counter + SpvLocationSlots(b.type)
          BY <1>1, <5>1 DEF Advance
        <5> QED BY <2>1, <3>1, <4>1, <5>1, <5>2, <5>3 DEF NextEntry
      <4>2. CASE shader.stage = "fragment"
        <5>1. ~IsVarying(b) /\ IsColor(b)
          BY <1>8, <2>4, <2>6, <4>2 DEF IsVarying
        <5>2. Pos("spirv", Decls, "out", j) = 0
          <6>1. ASSUME NEW k \in DOMAIN Decls, Decls[k].kind = "out" PROVE k = j
            <7>1. PICK i \in DOMAIN allocas : allocas[i] = Alloca(Decls[k], "out")  BY <2>3, <6>1 DEF Follows
            <7>2. Stands(allocas[i], "out")  BY <2>3, <7>1 DEF Stands, Alloca
            <7>3. IsColor(allocas[i])  BY <2>4, <4>2, <7>2 DEF IsVarying
            <7>4. Decls[k].name = "FragColor"  BY <7>1, <7>3 DEF IsColor, Alloca
            <7>5. Decls[j].name = "FragColor"  BY <3>1, <3>2, <5>1 DEF IsColor, Alloca
            <7> QED BY <1>2, <3>1, <6>1, <7>4, <7>5, DeclsAre
          <6>2. \A k \in DOMAIN Decls : Decls[k].kind = "out" => ~(k < j) /\ ~(k < 1)
            <7>1. \A k \in DOMAIN Decls : ~(k < 1) /\ ~(k < k)  BY <1>2, DeclsAre
            <7> QED BY <6>1, <7>1
          <6> QED BY <1>2, <6>2, CountedSame, CountedNothing
        <5>3. Entry(b.name, At(b, 0), SpvLocationSlots(b.type)) = EntryAt("spirv", Decls, "out", j)
          BY <1>2, <3>1, <3>2, <5>2, EntryOfAlloca
        <5> QED BY <4>2, <5>1, <5>3
      <4> QED BY <2>4, <4>1, <4>2
    <3> HIDE DEF out
    <3>4. placed'["out"] = Entries("spirv", Decls, "out", j + 1)
      BY <1>5, <2>1, <3>1, <3>3 DEF NextEntry
    <3>5. PICK k : k = j + 1 /\ Passed(Decls, allocas, "out", a + 1, k)  BY <3>1
    <3> QED BY <1>1, <1>5, <1>6, <2>2, <3>3, <3>4, <3>5 DEF OutputsPlaced
  <2> QED BY <2>5, <2>6
<1>10. Conventional' => Conventional
  BY <1>1 DEF Conventional, IsVarying, IsColor, Decls
<1> QED BY <1>1, <1>4, <1>9, <1>10 DEF PlacedInv, InSema, Counting, SpirvWritten

\* The steps that leave locations alone.
LEMMA PlacedFrame ==
  ASSUME PlacedInv, UNCHANGED <<shader, params, allocas>>,
         placed'["in"] = placed["in"], placed'["out"] = placed["out"],
         \/ UNCHANGED <<phase, at, counter>>
         \/ /\ phase' \notin {"inputs", "outputs"} /\ ~SpirvWritten'
            /\ phase' \in InSema \cup {"codegen"} \cup Counting => phase \in InSema \cup {"codegen"} \cup Counting
  PROVE  PlacedInv'
<1>1. Decls' = Decls  BY DEF Decls
<1>2. Conventional' <=> Conventional  BY <1>1 DEF Conventional, IsVarying, IsColor
<1>3. CASE UNCHANGED <<phase, at, counter>>
  <2>1. (InputsPlaced' <=> InputsPlaced) /\ (OutputsPlaced' <=> OutputsPlaced) /\ (AllPlaced' <=> AllPlaced)
    BY <1>1, <1>3 DEF InputsPlaced, OutputsPlaced, AllPlaced
  <2>2. SpirvWritten' <=> SpirvWritten  BY <1>3 DEF SpirvWritten
  <2> QED BY <1>2, <1>3, <2>1, <2>2 DEF PlacedInv
<1>4. CASE /\ phase' \notin {"inputs", "outputs"} /\ ~SpirvWritten'
           /\ phase' \in InSema \cup {"codegen"} \cup Counting => phase \in InSema \cup {"codegen"} \cup Counting
  BY <1>4 DEF PlacedInv
<1> QED BY <1>3, <1>4

LEMMA InputsStart ==
  ASSUME CodegenInv, PlacedInv, AnalysisEnd
  PROVE  PlacedInv'
<1>1. /\ phase \in Counting /\ phase' \in {"buffers", "samplers", "inputs"} /\ at' = 1 /\ counter' = 0
      /\ UNCHANGED <<shader, params, allocas, placed>>
  BY DEF AnalysisEnd, Begin, codegenVars, spirvVars, Counting
<1>2. placed["in"] = {} /\ placed["out"] = {} /\ phase \notin Unread /\ shader \in Shaders
  BY <1>1 DEF PlacedInv, Unread, InSema, Counting, CodegenInv
<1>3. Len(params) \in Nat /\ DOMAIN params = 1 .. Len(params)
  BY <1>2, InterfaceTyped, LenProperties
<1>4. 1 \in 1 .. Len(params) + 1 /\ DOMAIN params \subseteq Nat \ {0}
  BY <1>3
<1>5. /\ Passed(Decls, params, "in", 1, 1)
      /\ Pos("spirv", Decls, "in", 1) = 0 /\ Entries("spirv", Decls, "in", 1) = {}
  BY <1>2, <1>4, PassedStart, CountedNothing
<1>6. Decls' = Decls  BY <1>1 DEF Decls
<1>7. InputsPlaced'
  BY <1>1, <1>2, <1>5, <1>6 DEF InputsPlaced
<1> QED BY <1>1, <1>2, <1>4, <1>7 DEF PlacedInv, SpirvWritten, InSema, Counting

LEMMA OutputsStart ==
  ASSUME CodegenInv, PlacedInv, InputsEnd
  PROVE  PlacedInv'
<1>1. /\ phase = "inputs" /\ phase' = "outputs" /\ at \notin DOMAIN params /\ at' = 1 /\ counter' = 0
      /\ UNCHANGED <<shader, params, allocas, placed>>
  BY DEF InputsEnd, Begin, codegenVars, spirvVars
<1>2. placed["out"] = {} /\ phase \notin Unread /\ shader \in Shaders
  BY <1>1 DEF PlacedInv, Unread, InSema, CodegenInv
<1>3. Len(params) \in Nat /\ DOMAIN params = 1 .. Len(params) /\ at \in 1 .. Len(params) + 1
  BY <1>1, <1>2, InterfaceTyped, LenProperties DEF PlacedInv
<1>4. Len(allocas) \in Nat /\ DOMAIN allocas = 1 .. Len(allocas)
  BY <1>2, AllocasTyped
<1>5. 1 \in 1 .. Len(allocas) + 1 /\ DOMAIN allocas \subseteq Nat \ {0}
  BY <1>4
<1>6. \A i \in DOMAIN params : i < at
  BY <1>1, <1>3
<1>7. Decls' = Decls  BY <1>1 DEF Decls
<1>8. Conventional' => Conventional
  BY <1>1 DEF Conventional, IsVarying, IsColor, Decls
<1>9. ASSUME Conventional PROVE OutputsPlaced'
  <2>1. PICK n : Passed(Decls, params, "in", at, n) /\ placed["in"] = Entries("spirv", Decls, "in", n)
    BY <1>1, <1>9 DEF PlacedInv, InputsPlaced
  <2>2. Entries("spirv", Decls, "in", n) = Entries("spirv", Decls, "in", Len(Decls) + 1)
    BY <1>2, <1>6, <1>9, <2>1, InterfaceFollows, PassedEnd
  <2>3. /\ Passed(Decls, allocas, "out", 1, 1)
        /\ Pos("spirv", Decls, "out", 1) = 0 /\ Entries("spirv", Decls, "out", 1) = {}
    BY <1>2, <1>5, PassedStart, CountedNothing
  <2> QED BY <1>1, <1>2, <1>7, <2>1, <2>2, <2>3 DEF OutputsPlaced
<1> QED BY <1>1, <1>2, <1>5, <1>8, <1>9 DEF PlacedInv, SpirvWritten, InSema, Counting

LEMMA OutputsFinish ==
  ASSUME CodegenInv, PlacedInv, OutputsEnd
  PROVE  PlacedInv'
<1>1. /\ phase = "outputs" /\ phase' = "written" /\ at \notin DOMAIN allocas
      /\ UNCHANGED <<shader, params, allocas, placed>>
  BY DEF OutputsEnd, Stop, codegenVars, spirvVars
<1>2. phase \notin Unread /\ shader \in Shaders
  BY <1>1 DEF Unread, InSema, CodegenInv
<1>3. Len(allocas) \in Nat /\ DOMAIN allocas = 1 .. Len(allocas) /\ at \in 1 .. Len(allocas) + 1
  BY <1>1, <1>2, AllocasTyped DEF PlacedInv
<1>4. \A i \in DOMAIN allocas : i < at
  BY <1>1, <1>3
<1>5. Decls' = Decls  BY <1>1 DEF Decls
<1>6. Conventional' => Conventional
  BY <1>1 DEF Conventional, IsVarying, IsColor, Decls
<1>7. ASSUME Conventional PROVE AllPlaced'
  <2>1. PICK n : Passed(Decls, allocas, "out", at, n) /\ placed["out"] = Entries("spirv", Decls, "out", n)
    BY <1>1, <1>7 DEF PlacedInv, OutputsPlaced
  <2>2. Entries("spirv", Decls, "out", n) = Entries("spirv", Decls, "out", Len(Decls) + 1)
    BY <1>2, <1>4, <1>7, <2>1, InterfaceFollows, PassedEnd
  <2>3. placed["in"] = Entries("spirv", Decls, "in", Len(Decls) + 1)
    BY <1>1, <1>7 DEF PlacedInv, OutputsPlaced
  <2> QED BY <1>1, <1>5, <2>1, <2>2, <2>3 DEF AllPlaced
<1> QED BY <1>1, <1>6, <1>7 DEF PlacedInv, SpirvWritten, InSema, Counting

LEMMA PlacedStep == CodegenInv /\ BindInv /\ PlacedInv /\ [Next]_vars => PlacedInv'
<1> SUFFICES ASSUME CodegenInv, BindInv, PlacedInv, [Next]_vars PROVE PlacedInv'
  OBVIOUS
<1>1. DOMAIN placed = {"uniforms", "bindings", "in", "out", "shadows"}
  BY DEF BindInv
<1>2. CASE Sema
  <2>1. UNCHANGED <<shader, params, allocas, placed>> /\ phase \in InSema /\ phase' \in Unread
    BY <1>2 DEF Sema, ReserveLocations, SkipDeclaration, NextCheck, SemaEnd, Checking, Pass, Begin, Stop,
       codegenVars, spirvVars, InSema, Unread
  <2> QED BY <2>1, PlacedFrame DEF InSema, Unread, SpirvWritten, Counting
<1>3. CASE Codegen
  <2>1. /\ UNCHANGED <<shader, placed>> /\ phase = "codegen"
        /\ phase' \in {"codegen", "failed", "uniforms", "trampoline"}
    BY <1>3 DEF Codegen, DeclareStageVar, DeclareGlobal, GenerateEntry, CodegenEnd, Declaring, Pass, Begin, Stop, spirvVars
  <2> QED BY <2>1 DEF PlacedInv, InSema, SpirvWritten, Counting
<1>4. CASE AnalyzeUniform \/ AnalyzeBuffer \/ AnalyzeSampler \/ SkipGlobal
  <2>1. UNCHANGED <<shader, params, allocas>> /\ phase \in Counting /\ phase' = phase
    BY <1>4 DEF AnalyzeUniform, AnalyzeBuffer, AnalyzeSampler, AnalyzeResource, Visiting, Resource, SkipGlobal, Pass,
       codegenVars, Counting
  <2>2. placed'["in"] = placed["in"] /\ placed'["out"] = placed["out"]
    <3>1. CASE AnalyzeUniform
      <4>1. \E new : placed' = [placed EXCEPT !["uniforms"] = @ \cup {new}]  BY <3>1 DEF AnalyzeUniform, Put
      <4> QED BY <1>1, <4>1
    <3>2. CASE AnalyzeBuffer \/ AnalyzeSampler
      <4>1. \E new : placed' = [placed EXCEPT !["bindings"] = @ \cup {new}]
        BY <3>2 DEF AnalyzeBuffer, AnalyzeSampler, AnalyzeResource, Put
      <4> QED BY <1>1, <4>1
    <3>3. CASE SkipGlobal
      BY <3>3 DEF SkipGlobal, spirvVars
    <3> QED BY <1>4, <3>1, <3>2, <3>3
  <2> QED BY <2>1, <2>2, PlacedFrame DEF Counting, SpirvWritten
<1>5. CASE AnalysisEnd \/ DeclareInput \/ InputsEnd \/ DeclareOutput \/ OutputsEnd
  BY <1>1, <1>5, InputsStart, InputPlaces, OutputsStart, OutputPlaces, OutputsFinish
<1>6. CASE Flat
  <2>1. /\ UNCHANGED <<shader, params, allocas, placed>> /\ phase \in {"trampoline", "load", "store"}
        /\ phase' \in {"failed", "load", "store", "written"}
    BY <1>6 DEF Flat, Trampoline, LoadAttribute, LoadVarying, LoadEnd, Moving, StoreVarying, StoreOutput,
       StoreEnd, Move, MoveSplit, LoadSplit, StoreSplit, Begin, Stop, codegenVars, spirvVars
  <2>2. shader.target # "spirv"  BY <2>1 DEF BindInv
  <2> QED BY <2>1, <2>2, PlacedFrame DEF InSema, Counting, SpirvWritten
<1>7. CASE Row
  <2>1. UNCHANGED <<shader, params, allocas, placed>> /\ phase' \in {"row", "done"}
    BY <1>7 DEF Row, Dispatch, Invoke, Stop, codegenVars, spirvVars
  <2> QED BY <2>1, PlacedFrame DEF InSema, Counting, SpirvWritten
<1>8. CASE UNCHANGED vars
  <2>1. UNCHANGED <<shader, params, allocas, placed, phase, at, counter>>
    BY <1>8 DEF vars, codegenVars, spirvVars
  <2> QED BY <2>1, PlacedFrame
<1> QED BY <1>2, <1>3, <1>4, <1>5, <1>6, <1>7, <1>8 DEF Next, Spirv, Finished

LEMMA PlacedInit == Init => PlacedInv
<1> SUFFICES ASSUME Init PROVE PlacedInv
  OBVIOUS
<1>1. phase = "sema in" /\ placed = [w \in {"uniforms", "bindings", "in", "out", "shadows"} |-> {}]
  BY DEF Init
<1>2. placed["in"] = {} /\ placed["out"] = {}  BY <1>1
<1> QED BY <1>1, <1>2 DEF PlacedInv, SpirvWritten

\* All that the interface depends on.
InterfaceInv == ReservedInv /\ CodegenInv /\ TableInv /\ BlockInv /\ BindInv /\ PlacedInv

LEMMA InterfaceInductive ==
  /\ Init => InterfaceInv
  /\ InterfaceInv /\ [Next]_vars => InterfaceInv'
<1>1. Init => InterfaceInv
  BY ReservedInit, CodegenInit, TableInit, BlockInit, BindInit, PlacedInit DEF InterfaceInv
<1>2. InterfaceInv /\ [Next]_vars => InterfaceInv'
  BY ReservedStep, CodegenStep, TableStep, BlockStep, BindStep, PlacedStep DEF InterfaceInv
<1> QED BY <1>1, <1>2

\* Where the two count the same for every variable of a direction, they have the same table.
LEMMA TablesAgree ==
  ASSUME shader \in Shaders, NEW dir, SlotsAgree(dir), NEW n
  PROVE  Entries("spirv", Decls, dir, n) = Entries("sema", Decls, dir, n)
<1>1. \A j \in DOMAIN Decls : Decls[j].kind = dir => Slots("spirv", Decls[j].type) = Slots("sema", Decls[j].type)
  BY SlotsAre DEF SlotsAgree, Elems
<1>2. ASSUME NEW m PROVE Pos("spirv", Decls, dir, m) = Pos("sema", Decls, dir, m)
  <2> DEFINE D == {k \in DOMAIN Decls : k < m /\ Decls[k].kind = dir /\ Decls[k].loc < 0}
  <2>1. \A j \in D : {j} \X (1 .. Slots("spirv", Decls[j].type)) = {j} \X (1 .. Slots("sema", Decls[j].type))
    BY <1>1
  <2> HIDE DEF D
  <2>2. {{j} \X (1 .. Slots("spirv", Decls[j].type)) : j \in D} = {{j} \X (1 .. Slots("sema", Decls[j].type)) : j \in D}
    BY <2>1
  <2>3. Counted("spirv", Decls, dir, m) = Counted("sema", Decls, dir, m)
    BY <2>2 DEF Counted, D
  <2> QED BY <2>3 DEF Pos
<1>3. \A j \in DOMAIN Decls : Decls[j].kind = dir => EntryAt("spirv", Decls, dir, j) = EntryAt("sema", Decls, dir, j)
  BY <1>1, <1>2 DEF EntryAt
<1> QED BY <1>3 DEF Entries

LEMMA PlacedAsReserved == InterfaceInv => InterfaceAsReserved
<1> SUFFICES ASSUME InterfaceInv, SpirvWritten, Conventional, NEW d \in {"in", "out"}, SlotsAgree(d)
             PROVE  placed[d] = reserved[d]
  BY DEF InterfaceAsReserved
<1>1. placed[d] = Entries("spirv", Decls, d, Len(Decls) + 1)
  BY DEF InterfaceInv, PlacedInv, AllPlaced
<1>2. reserved[d] = Entries("sema", Decls, d, Len(Decls) + 1)
  BY DEF InterfaceInv, TableInv, Filled, SpirvWritten, InSema
<1>3. shader \in Shaders  BY DEF InterfaceInv, CodegenInv
<1> QED BY <1>1, <1>2, <1>3, TablesAgree

\* A counter is past all that was counted for an earlier declaration ...
LEMMA CountedOn ==
  ASSUME NEW who, shader \in Shaders, NEW dir, NEW j \in DOMAIN Decls, NEW k \in DOMAIN Decls, j < k,
         Decls[j].kind = dir, Decls[j].loc < 0
  PROVE  Pos(who, Decls, dir, j) + Slots(who, Decls[j].type) <= Pos(who, Decls, dir, k)
<1>1. \A i \in DOMAIN Decls : i < j + 1 => i < k
  BY DeclsAre
<1>2. Counted(who, Decls, dir, j + 1) \in SUBSET Counted(who, Decls, dir, k)
  BY <1>1 DEF Counted
<1>3. Pos(who, Decls, dir, j + 1) <= Pos(who, Decls, dir, k)
  BY <1>2, CountedFinite, FS_Subset DEF Pos
<1>4. ~(Decls[j].loc >= 0)  BY DeclSlots
<1>5. Pos(who, Decls, dir, j + 1) = Pos(who, Decls, dir, j) + Slots(who, Decls[j].type)
  BY <1>4, CountedNext
<1> QED BY <1>3, <1>5

\* ... so where nothing has an explicit location, nothing is given twice, whatever is counted.
LEMMA CountedApart ==
  ASSUME NEW who, shader \in Shaders, NEW dir, \A i \in DOMAIN Decls : Decls[i].kind = dir => Decls[i].loc < 0, NEW n,
         NEW x \in Entries(who, Decls, dir, n), NEW y \in Entries(who, Decls, dir, n), x # y
  PROVE  ~Overlap(x.loc, x.slots, y.loc, y.slots)
<1>1. PICK j \in DOMAIN Decls : Decls[j].kind = dir /\ x = EntryAt(who, Decls, dir, j)  BY DEF Entries
<1>2. PICK k \in DOMAIN Decls : Decls[k].kind = dir /\ y = EntryAt(who, Decls, dir, k)  BY DEF Entries
<1>3. /\ Decls[j].loc < 0 /\ Decls[k].loc < 0 /\ ~(Decls[j].loc >= 0) /\ ~(Decls[k].loc >= 0)
      /\ j \in Nat /\ k \in Nat /\ j # k
  BY <1>1, <1>2, DeclSlots
<1>4. PICK p \in Nat : p = Pos(who, Decls, dir, j)  BY CountedFinite
<1>5. PICK q \in Nat : q = Pos(who, Decls, dir, k)  BY CountedFinite
<1>6. PICK m \in Nat : m = Slots(who, Decls[j].type)  BY DeclSlots
<1>7. PICK l \in Nat : l = Slots(who, Decls[k].type)  BY DeclSlots
<1>8. (j < k => p + m <= q) /\ (k < j => q + l <= p)
  BY <1>1, <1>2, <1>3, <1>4, <1>5, <1>6, <1>7, CountedOn
<1>9. x.loc = p /\ x.slots = m /\ y.loc = q /\ y.slots = l
  BY <1>1, <1>2, <1>3, <1>4, <1>5, <1>6, <1>7 DEF EntryAt, Entry
<1>10. p + m <= q \/ q + l <= p
  BY <1>3, <1>8
<1> QED BY <1>9, <1>10 DEF Overlap

LEMMA ReservedDisjoint == InterfaceInv => LocationsDisjoint
<1> SUFFICES ASSUME InterfaceInv, SpirvWritten, Conventional, NEW d \in {"in", "out"}, SlotsAgree(d) \/ Positional(d),
                    NEW x \in placed[d], NEW y \in placed[d], x # y
             PROVE  ~Overlap(x.loc, x.slots, y.loc, y.slots)
  BY DEF LocationsDisjoint
<1>1. placed[d] = Entries("spirv", Decls, d, Len(Decls) + 1) /\ shader \in Shaders
  BY DEF InterfaceInv, PlacedInv, AllPlaced, CodegenInv
<1>2. CASE SlotsAgree(d)
  <2>1. placed[d] = reserved[d]
    BY <1>2, PlacedAsReserved DEF InterfaceAsReserved
  <2>2. x.name # y.name
    BY <1>1, EntriesNamed
  <2>3. errors = 0 /\ ReservedApart
    BY DEF InterfaceInv, CodegenInv, ReservedInv, SpirvWritten, InSema
  <2> QED BY <2>1, <2>2, <2>3 DEF ReservedApart
<1>3. CASE Positional(d)
  <2>1. \A i \in DOMAIN Decls : Decls[i].kind = d => Decls[i].loc < 0
    BY <1>3 DEF Positional, Elems
  <2> QED BY <1>1, <2>1, CountedApart
<1> QED BY <1>2, <1>3

\* The two allocators stay in step, for every shader that keeps to the conventions and in every
\* direction without an array of vectors: the backend, which counts over parameters and over
\* allocas of all sorts, puts every stage variable where sema, which counts over declarations,
\* reserved room for it (checkStageVarLocations, emitStageIO). Of an array of vectors the two
\* count different numbers of locations (emit_spirv_from_ir.h:278, sema.cpp:1048), so that the
\* theorem would not hold without SlotsAgree.
THEOREM PlacesAsReserved == Spec => []InterfaceAsReserved
BY InterfaceInductive, PlacedAsReserved, PTL DEF Spec

\* No location of such a shader that was accepted is given to two inputs, or to two outputs, in a
\* direction without an array of vectors, or in one in which no variable has an explicit location:
\* there the backend's own counter keeps arrays apart too.
THEOREM PlacesApart == Spec => []LocationsDisjoint
BY InterfaceInductive, ReservedDisjoint, PTL DEF Spec

-----------------------------------------------------------------------------
(* Types. *)

CountInv ==
  /\ phase \in Phases
  /\ at \in Nat \ {0} /\ counter \in Nat /\ width \in 0 .. MaxWidth
  /\ \A d \in {"in", "out"}, r \in {"f", "d"} : sizes[d][r] \in Nat

LEMMA MovesTyped ==
  ASSUME CodegenInv, PackInv
  PROVE  \A m \in moves : m.dir \in {"in", "out"} /\ m.region \in {"f", "d"} /\ m.slot \in Nat
<1> SUFFICES ASSUME NEW m \in moves PROVE m.dir \in {"in", "out"} /\ m.region \in {"f", "d"} /\ m.slot \in Nat
  OBVIOUS
<1>1. params \in Seq(Slot) /\ results \in Seq(Slot)
  BY InterfaceTyped DEF PackInv
<1>2. \E d \in {"in", "out"} : \E list \in {params, results} : \E p \in Scalars(list) : m = MoveOf(d, list, p)
  BY DEF PackInv, Loading, Storing, AllMoved, AllMoves, MovesTo, Upto
<1>3. PICK d \in {"in", "out"}, list \in {params, results} : \E p \in Scalars(list) : m = MoveOf(d, list, p)
  BY <1>2
<1>4. PICK p \in Scalars(list) : m = MoveOf(d, list, p)
  BY <1>3
<1>5. list \in Seq(Slot)  BY <1>1
<1>6. list[p[1]].type.leaves[p[2]] \in {"f", "d"}
  <2>1. PICK i \in DOMAIN list : \E j \in DOMAIN list[i].type.leaves : p = <<i, j>>
    BY <1>5, ScalarsAre
  <2> QED BY <1>5, <2>1, ScalarsAre
<1>7. Leaves(list, p[1], p[2], list[p[1]].type.leaves[p[2]]) \in Nat
  BY <1>5, LeavesAre
<1> QED BY <1>4, <1>6, <1>7 DEF MoveOf

\* A counter goes on by the locations of a variable, an offset by the size of a member.
LEMMA AdvanceNat ==
  ASSUME counter \in Nat, NEW a, a.type \in Type
  PROVE  (IF a.loc >= 0 THEN counter ELSE counter + SpvLocationSlots(a.type)) \in Nat
<1>1. PICK n \in Nat : n = SpvLocationSlots(a.type)  BY SlotsPositive
<1> QED BY <1>1

\* The steps of which counting is not much.
LEMMA CountFrame ==
  ASSUME CountInv, phase' \in Phases, UNCHANGED <<width, sizes>>,
         \/ UNCHANGED <<at, counter>>
         \/ at' = at + 1 /\ counter' \in Nat
         \/ at' = 1 /\ counter' = 0
  PROVE  CountInv'
<1>1. at' \in Nat \ {0} /\ counter' \in Nat
  BY DEF CountInv
<1> QED BY <1>1 DEF CountInv

LEMMA UniformCounts ==
  ASSUME BlockInv, AnalyzeUniform
  PROVE  counter' \in Nat
<1>1. phase = "uniforms" /\ at \in DOMAIN globals /\ phase' = "uniforms"
  BY DEF AnalyzeUniform, Visiting
<1> QED BY <1>1, AnalyzeUniformKeeps DEF BlockInv

LEMMA ReserveCounts ==
  ASSUME ReservedInv, NEW dir \in {"in", "out"}, ReserveLocations(dir)
  PROVE  counter' \in Nat
<1>1. phase' \in InSema
  BY DEF ReserveLocations, Checking, InSema
<1> QED BY <1>1, ReserveKeeps DEF ReservedInv, InSema

LEMMA TrampolineCounts ==
  ASSUME CodegenInv, CountInv, Trampoline
  PROVE  CountInv'
<1>1. params \in Seq(Slot) /\ results \in Seq(Slot)
  BY InterfaceTyped DEF Trampoline, Unread, InSema
<1>2. \A r : CountAll(params, r) \in Nat /\ CountAll(results, r) \in Nat
  BY <1>1, LeavesAre
<1>3. /\ width' = width
      /\ \/ phase' \in {"failed", "written"} /\ UNCHANGED <<at, counter>>
         \/ phase' = "load" /\ at' = 1 /\ counter' = 0
  BY DEF Trampoline, Begin, Stop, rowVars
<1>4. ASSUME NEW d \in {"in", "out"}, NEW r \in {"f", "d"} PROVE sizes'[d][r] \in Nat
  <2>1. \/ sizes' = sizes
        \/ \E a, b, c, e \in Nat : sizes' = Sizes(a, b, c, e)
    BY <1>2 DEF Trampoline
  <2>2. \A a, b, c, e \in Nat : Sizes(a, b, c, e)[d][r] \in Nat
    BY DEF Sizes
  <2> QED BY <2>1, <2>2 DEF CountInv
<1>5. at' \in Nat \ {0} /\ counter' \in Nat
  <2>1. UNCHANGED <<at, counter>> \/ (at' = 1 /\ counter' = 0)  BY <1>3
  <2>2. at \in Nat \ {0} /\ counter \in Nat  BY DEF CountInv
  <2> QED BY ONLY <2>1, <2>2
<1>6. phase' \in Phases
  BY <1>3 DEF Phases
<1> QED BY <1>3, <1>4, <1>5, <1>6 DEF CountInv

LEMMA CountStep == InterfaceInv /\ CountInv /\ [Next]_vars => CountInv'
<1> SUFFICES ASSUME InterfaceInv, CountInv, [Next]_vars PROVE CountInv'
  OBVIOUS
<1>1. /\ ReservedInv /\ CodegenInv /\ BlockInv /\ phase \in Phases /\ at \in Nat \ {0} /\ counter \in Nat
      /\ "failed" \in Phases
  BY DEF InterfaceInv, CountInv, Phases
<1>2. CASE Sema
  <2>1. ASSUME NEW d \in {"in", "out"}, ReserveLocations(d) PROVE CountInv'
    BY <1>1, <2>1, ReserveCounts, CountFrame DEF ReserveLocations, flatVars, rowVars
  <2>2. ASSUME NEW d \in {"in", "out"}, SkipDeclaration(d) PROVE CountInv'
    BY <1>1, <2>2, CountFrame DEF SkipDeclaration, Pass, flatVars, rowVars
  <2>3. CASE NextCheck \/ SemaEnd
    <3>1. phase' \in Phases /\ UNCHANGED <<width, sizes>>
      BY <2>3 DEF NextCheck, SemaEnd, Begin, Stop, flatVars, rowVars, Phases
    <3> QED BY <2>3, <3>1, CountFrame DEF NextCheck, SemaEnd, Begin, Stop
  <2> QED BY <1>2, <2>1, <2>2, <2>3 DEF Sema
<1>3. CASE Codegen
  <2>1. phase' \in Phases /\ UNCHANGED <<width, sizes>>
    BY <1>1, <1>3 DEF Codegen, DeclareStageVar, DeclareGlobal, GenerateEntry, CodegenEnd, Pass, Begin, Stop, flatVars, rowVars, Phases
  <2>2. UNCHANGED <<at, counter>> \/ (at' = at + 1 /\ counter' \in Nat) \/ (at' = 1 /\ counter' = 0)
    BY <1>1, <1>3 DEF Codegen, DeclareStageVar, DeclareGlobal, GenerateEntry, CodegenEnd, Pass, Begin, Stop
  <2> QED BY <2>1, <2>2, CountFrame
<1>4. CASE Spirv
  <2>1. phase' \in Phases /\ UNCHANGED <<width, sizes>>
    BY <1>1, <1>4 DEF Spirv, AnalyzeUniform, AnalyzeBuffer, AnalyzeSampler, AnalyzeResource, SkipGlobal, AnalysisEnd,
       DeclareInput, InputsEnd, DeclareOutput, OutputsEnd, Pass, Begin, Stop, flatVars, rowVars, Phases
  <2>2. CASE AnalyzeUniform
    BY <1>1, <2>1, <2>2, UniformCounts, CountFrame DEF AnalyzeUniform
  <2>3. CASE AnalyzeBuffer \/ AnalyzeSampler
    <3>1. at' = at + 1 /\ counter' \in {counter, counter + 1}
      BY <2>3 DEF AnalyzeBuffer, AnalyzeSampler, AnalyzeResource
    <3>2. counter' \in Nat  BY ONLY <1>1, <3>1
    <3> QED BY <2>1, <3>1, <3>2, CountFrame
  <2>4. CASE SkipGlobal \/ AnalysisEnd \/ InputsEnd \/ OutputsEnd
    <3>1. UNCHANGED <<at, counter>> \/ (at' = at + 1 /\ counter' \in Nat) \/ (at' = 1 /\ counter' = 0)
      BY <1>1, <2>4 DEF SkipGlobal, AnalysisEnd, InputsEnd, OutputsEnd, Pass, Begin, Stop
    <3> QED BY <2>1, <3>1, CountFrame
  <2>5. CASE DeclareInput
    <3>1. at \in DOMAIN params /\ params \in Seq(Slot)
      BY <1>1, <2>5, InterfaceTyped DEF DeclareInput, Unread, InSema
    <3>2. params[at].type \in Type
      <4>1. params[at] \in Slot  BY <3>1, ScalarsAre, ElementOfSeq
      <4> QED BY <4>1 DEF Slot
    <3>3. at' = at + 1 /\ counter' \in Nat
      BY <1>1, <2>5, <3>2, AdvanceNat DEF DeclareInput, Advance
    <3> QED BY <2>1, <3>3, CountFrame
  <2>6. CASE DeclareOutput
    <3>1. at \in DOMAIN allocas /\ allocas \in Seq(Storage) /\ DOMAIN allocas = 1 .. Len(allocas)
      BY <1>1, <2>6, AllocasTyped DEF DeclareOutput, Unread, InSema
    <3>2. Renamed(allocas[at]).type \in Type
      <4>1. allocas[at] \in Storage  BY <3>1, ElementOfSeq
      <4> QED BY <4>1 DEF Storage, Renamed
    <3>3. at' = at + 1 /\ counter' \in Nat
      <4>1. counter' = counter \/ counter' = Advance(Renamed(allocas[at]))
        BY <2>6 DEF DeclareOutput
      <4>2. Advance(Renamed(allocas[at])) \in Nat
        BY <1>1, <3>2, AdvanceNat DEF Advance
      <4> QED BY <1>1, <2>6, <4>1, <4>2 DEF DeclareOutput
    <3> QED BY <2>1, <3>3, CountFrame
  <2> QED BY <1>4, <2>2, <2>3, <2>4, <2>5, <2>6 DEF Spirv
<1>5. CASE Flat
  <2>1. CASE Trampoline
    BY <1>1, <2>1, TrampolineCounts
  <2>2. CASE ~Trampoline
    <3>1. phase' \in Phases /\ UNCHANGED <<width, sizes>>
      BY <1>1, <1>5, <2>2 DEF Flat, LoadAttribute, LoadVarying, LoadEnd, StoreVarying, StoreOutput,
         StoreEnd, Move, MoveSplit, LoadSplit, StoreSplit, Begin, Stop, flatVars, rowVars, Phases
    <3>2. UNCHANGED <<at, counter>> \/ (at' = at + 1 /\ counter' \in Nat) \/ (at' = 1 /\ counter' = 0)
      BY <1>1, <1>5, <2>2 DEF Flat, LoadAttribute, LoadVarying, LoadEnd, StoreVarying, StoreOutput,
         StoreEnd, Move, MoveSplit, LoadSplit, StoreSplit, Begin, Stop
    <3> QED BY <3>1, <3>2, CountFrame
  <2> QED BY <2>1, <2>2
<1>6. CASE Row
  <2>1. UNCHANGED <<at, counter, sizes>> /\ phase' \in Phases /\ width' \in 0 .. MaxWidth
    BY <1>6 DEF Row, Dispatch, Invoke, Stop, flatVars, Phases, CountInv
  <2> QED BY <2>1 DEF CountInv
<1>7. CASE UNCHANGED vars
  BY <1>1, <1>7, CountFrame DEF vars, flatVars, rowVars
<1> QED BY <1>2, <1>3, <1>4, <1>5, <1>6, <1>7 DEF Next, Finished

\* Counters never leave the natural numbers and what is collected keeps its shape, whatever a
\* shader declares: paddings, column counts and the leaves of nested types only ever add.
THEOREM InterfaceTypes == Spec => []TypeOK
<1> DEFINE All == InterfaceInv /\ PackInv /\ CountInv
<1>1. Init => All
  <2>1. Init => CountInv
    <3> SUFFICES ASSUME Init PROVE CountInv
      OBVIOUS
    <3>1. phase = "sema in" /\ at = 1 /\ counter = 0 /\ width = 0 /\ sizes = Sizes(0, 0, 0, 0)
      BY DEF Init
    <3>2. \A d \in {"in", "out"}, r \in {"f", "d"} : Sizes(0, 0, 0, 0)[d][r] = 0
      BY DEF Sizes
    <3>3. width \in 0 .. MaxWidth
      <4>1. MaxWidth \in Nat /\ width = 0  BY <3>1, BoundsAssumption
      <4> QED BY ONLY <4>1
    <3>4. phase \in Phases  BY <3>1 DEF Phases
    <3>5. at \in Nat \ {0} /\ counter \in Nat
      <4>1. at = 1 /\ counter = 0  BY <3>1
      <4> QED BY ONLY <4>1
    <3>6. \A d \in {"in", "out"}, r \in {"f", "d"} : sizes[d][r] \in Nat
      <4>1. \A d \in {"in", "out"}, r \in {"f", "d"} : sizes[d][r] = 0  BY <3>1, <3>2
      <4> QED BY ONLY <4>1
    <3> QED BY ONLY <3>3, <3>4, <3>5, <3>6 DEF CountInv
  <2> QED BY <2>1, InterfaceInductive, PackInit
<1>2. All /\ [Next]_vars => All'
  BY InterfaceInductive, PackStep, CountStep DEF InterfaceInv
<1>3. All => TypeOK
  <2> SUFFICES ASSUME All PROVE TypeOK
    OBVIOUS
  <2>1. /\ phase \in Phases /\ at \in Nat \ {0} /\ counter \in Nat /\ width \in 0 .. MaxWidth
        /\ \A d \in {"in", "out"}, r \in {"f", "d"} : sizes[d][r] \in Nat
    BY DEF CountInv
  <2>2. errors \in Nat  BY DEF InterfaceInv, ReservedInv
  <2>3. leaf \in Nat \ {0} /\ fOff \in Nat /\ dOff \in Nat  BY DEF PackInv
  <2>4. \A m \in moves : m.dir \in {"in", "out"} /\ m.region \in {"f", "d"} /\ m.slot \in Nat
    BY MovesTyped DEF InterfaceInv
  <2> QED BY <2>1, <2>2, <2>3, <2>4 DEF TypeOK
<1> QED BY <1>1, <1>2, <1>3, PTL DEF Spec
=============================================================================
