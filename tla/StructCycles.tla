---------------------------- MODULE StructCycles ----------------------------
(***************************************************************************)
(* Struct declarations in the semantic analysis (sema.cpp): the dependency *)
(* graph, the depth-first search for cycles, and the walk over the fields  *)
(* of a stage variable's type that follows whatever the search has found.  *)
(*                                                                         *)
(* The sets of names are hash sets and the order of fields is up to the    *)
(* program, so both are gone through in any order.                         *)
(***************************************************************************)
EXTENDS Integers, Sequences, FiniteSets

CONSTANTS
  Structs,             \* names of declared structs
  Programs,            \* what is compiled
  NoVar,               \* there is no interpolated stage variable
  MaxDepth             \* bound on the recursion of typeContainsDouble

(* A field's type is a struct or a builtin, or an array of one. *)
Field == [of : Structs \cup {"float", "double"}, array : BOOLEAN]

(* A program: the fields of each struct, and the struct type of a stage
   variable that is interpolated. *)
Program == [fields : [Structs -> SUBSET Field], stageVar : Structs \cup {NoVar}]

ASSUME StructsAssumption == IsFiniteSet(Structs) /\ Structs \cap {"float", "double"} = {}
ASSUME ProgramsAssumption == NoVar \notin Structs /\ Programs \subseteq Program
ASSUME DepthAssumption == MaxDepth \in Nat /\ MaxDepth > Cardinality(Structs)

VARIABLES
  program,
  phase,               \* "cycles" (pass 3), "types" (pass 6), "done"
  deps,                \* structDependencies_
  pending,             \* names detectCycles has still to search from
  stack,               \* frames of hasCycleFrom: name, dependencies not yet seen
  visited, onStack,
  reported,            \* structs reported as recursive
  calls,               \* frames of typeContainsDouble: name, fields not yet seen
  double               \* result of typeContainsDouble

search == <<stack, visited, onStack>>
vars == <<program, phase, deps, pending, search, reported, calls, double>>

Frames(X) == [name : Structs, left : SUBSET X]
Frame(name, left) == [name |-> name, left |-> left]
Top(s) == s[Len(s)]
Rest(s) == SubSeq(s, 1, Len(s) - 1)
Push(s, frame) == Append(s, frame)
Took(s, x) == [s EXCEPT ![Len(s)].left = @ \ {x}]

TypeOK ==
  /\ program \in Program
  /\ phase \in {"cycles", "types", "done"}
  /\ deps \in [Structs -> SUBSET Structs]
  /\ pending \subseteq Structs
  /\ stack \in Seq(Frames(Structs))
  /\ visited \subseteq Structs /\ onStack \subseteq visited
  /\ reported \subseteq Structs
  /\ calls \in Seq(Frames(Field))
  /\ double \in BOOLEAN

(* buildDependencies compares the whole spelling of a field's type with the
   names of structs, so that an array of structs is no dependency. *)
Dependencies(p) ==
  [s \in Structs |-> {f.of : f \in {g \in p.fields[s] : g.of \in Structs /\ ~g.array}}]

Init ==
  /\ program \in Programs
  /\ phase = "cycles"
  /\ deps = Dependencies(program)
  /\ pending = Structs
  /\ stack = <<>> /\ visited = {} /\ onStack = {}
  /\ reported = {}
  /\ calls = <<>> /\ double = FALSE

----------------------------------------------------------------------------
(* detectCycles and hasCycleFrom. *)

StartSearch ==
  /\ phase = "cycles" /\ stack = <<>>
  /\ \E name \in pending :
       /\ pending' = pending \ {name}
       /\ stack' = <<Frame(name, deps[name])>>
       /\ visited' = {name} /\ onStack' = {name}
  /\ UNCHANGED <<program, phase, deps, reported, calls, double>>

(* The dependency of the top frame that is looked at next. *)
Looking(dep) == stack # <<>> /\ dep \in Top(stack).left

(* Mutant of Descend: what is descended into is not marked as visited. *)
DescendUnmarked(dep) ==
  /\ Looking(dep) /\ dep \notin visited
  /\ stack' = Push(Took(stack, dep), Frame(dep, deps[dep]))
  /\ onStack' = onStack \cup {dep}
  /\ UNCHANGED <<program, phase, deps, pending, visited, reported, calls, double>>

(* Mutant of Descend: the result of the first call is returned, and the other
   dependencies are not looked at. *)
DescendReturnsResult(dep) ==
  /\ Looking(dep) /\ dep \notin visited
  /\ stack' = Push([stack EXCEPT ![Len(stack)].left = {}], Frame(dep, deps[dep]))
  /\ visited' = visited \cup {dep} /\ onStack' = onStack \cup {dep}
  /\ UNCHANGED <<program, phase, deps, pending, reported, calls, double>>

Descend(dep) ==
  /\ Looking(dep) /\ dep \notin visited
  /\ stack' = Push(Took(stack, dep), Frame(dep, deps[dep]))
  /\ visited' = visited \cup {dep} /\ onStack' = onStack \cup {dep}
  /\ UNCHANGED <<program, phase, deps, pending, reported, calls, double>>

SkipVisited(dep) ==
  /\ Looking(dep) /\ dep \in visited \ onStack
  /\ stack' = Took(stack, dep)
  /\ UNCHANGED <<program, phase, deps, pending, visited, onStack, reported, calls, double>>

(* Mutant of FoundCycle: the struct stays in the graph. *)
FoundCycleKeepsDeps(dep) ==
  /\ Looking(dep) /\ dep \in onStack
  /\ reported' = reported \cup {stack[1].name}
  /\ stack' = <<>> /\ visited' = {} /\ onStack' = {}
  /\ UNCHANGED <<program, phase, deps, pending, calls, double>>

(* Mutant of FoundCycle: the struct is searched again and not taken out. *)
FoundCycleSearchesAgain(dep) ==
  /\ Looking(dep) /\ dep \in onStack
  /\ reported' = reported \cup {stack[1].name}
  /\ pending' = pending \cup {stack[1].name}
  /\ stack' = <<>> /\ visited' = {} /\ onStack' = {}
  /\ UNCHANGED <<program, phase, deps, calls, double>>

(* A cycle: every call returns true, the struct that the search began at is
   reported and taken out of the graph. *)
FoundCycle(dep) ==
  /\ Looking(dep) /\ dep \in onStack
  /\ reported' = reported \cup {stack[1].name}
  /\ deps' = [deps EXCEPT ![stack[1].name] = {}]
  /\ stack' = <<>> /\ visited' = {} /\ onStack' = {}
  /\ UNCHANGED <<program, phase, pending, calls, double>>

(* Mutant of Leave: the struct stays on the stack. *)
LeaveStaysOnStack ==
  /\ stack # <<>> /\ Top(stack).left = {}
  /\ stack' = Rest(stack)
  /\ UNCHANGED <<program, phase, deps, pending, visited, onStack, reported, calls, double>>

(* hasCycleFrom returns false. *)
Leave ==
  /\ stack # <<>> /\ Top(stack).left = {}
  /\ onStack' = onStack \ {Top(stack).name}
  /\ stack' = Rest(stack)
  /\ UNCHANGED <<program, phase, deps, pending, visited, reported, calls, double>>

----------------------------------------------------------------------------
(* checkStageVarTypes and typeContainsDouble; the passes before it leave the
   structs alone. *)

CheckStageVar ==
  /\ phase = "cycles" /\ pending = {} /\ stack = <<>>
  /\ IF program.stageVar = NoVar
     THEN phase' = "done" /\ calls' = calls
     ELSE /\ phase' = "types"
          /\ calls' = <<Frame(program.stageVar, program.fields[program.stageVar])>>
  /\ UNCHANGED <<program, deps, pending, search, reported, double>>

LookingAt(f) == phase = "types" /\ calls # <<>> /\ f \in Top(calls).left

EnterField(f) ==
  /\ LookingAt(f) /\ f.of \in Structs /\ Len(calls) < MaxDepth
  /\ calls' = Push(Took(calls, f), Frame(f.of, program.fields[f.of]))
  /\ UNCHANGED <<program, phase, deps, pending, search, reported, double>>

(* Mutant of FoundDouble: the result of a nested call is dropped. *)
FoundDoubleInnermost(f) ==
  /\ LookingAt(f) /\ f.of = "double"
  /\ IF Len(calls) = 1 THEN double' = TRUE /\ calls' = <<>>
     ELSE double' = double /\ calls' = Rest(calls)
  /\ UNCHANGED <<program, phase, deps, pending, search, reported>>

(* Every call returns true. *)
FoundDouble(f) ==
  /\ LookingAt(f) /\ f.of = "double"
  /\ double' = TRUE /\ calls' = <<>>
  /\ UNCHANGED <<program, phase, deps, pending, search, reported>>

SkipField(f) ==
  /\ LookingAt(f) /\ f.of = "float"
  /\ calls' = Took(calls, f)
  /\ UNCHANGED <<program, phase, deps, pending, search, reported, double>>

LeaveStruct ==
  /\ phase = "types" /\ calls # <<>> /\ Top(calls).left = {}
  /\ calls' = Rest(calls)
  /\ UNCHANGED <<program, phase, deps, pending, search, reported, double>>

Return ==
  /\ phase = "types" /\ calls = <<>>
  /\ phase' = "done"
  /\ UNCHANGED <<program, deps, pending, search, reported, calls, double>>

Search ==
  \/ StartSearch \/ Leave
  \/ \E dep \in Structs : Descend(dep) \/ SkipVisited(dep) \/ FoundCycle(dep)
Check ==
  \/ CheckStageVar \/ LeaveStruct \/ Return
  \/ \E f \in Field : EnterField(f) \/ FoundDouble(f) \/ SkipField(f)

(* run has returned, or its recursion is deeper than is followed here. *)
Stopped == (phase = "done" \/ Len(calls) = MaxDepth) /\ UNCHANGED vars

Next == Search \/ Check \/ Stopped

(* The passes are calls that run until they return. *)
Spec == Init /\ [][Next]_vars /\ WF_vars(Search \/ Check)
----------------------------------------------------------------------------
(* Structs on which the graph g goes round: no struct outside the set is
   needed to follow dependencies for ever. *)
IsCore(g, S) == S # {} /\ \A s \in S : g[s] \cap S # {}
Cyclic(g) == \E S \in SUBSET Structs : IsCore(g, S)

(* What a struct is made of, arrays included. *)
Contents(p) == [s \in Structs |-> {f.of : f \in p.fields[s]} \cap Structs]

(* The depth-first search: what it has left behind depends on nothing it has
   not left behind, and goes round nowhere; the stack is a path. *)
Finished == visited \ onStack
SearchInv ==
  /\ onStack = {stack[i].name : i \in DOMAIN stack}
  /\ \A s \in Finished : deps[s] \subseteq Finished
  /\ ~\E S \in SUBSET Finished : IsCore(deps, S)
  /\ \A i \in 1 .. Len(stack) - 1 : stack[i + 1].name \in deps[stack[i].name]

(* When pass 3 has ended no cycle is left but those through a reported
   struct: what is reported accounts for every cycle. *)
NoCycleLeft == pending = {} /\ stack = <<>> => ~Cyclic(deps)

(* A struct is only reported if a cycle can be reached from it, whatever
   order hash sets are in. *)
ReportsJustified ==
  LET g == Dependencies(program) IN
  \A s \in reported : \E S \in SUBSET Structs : s \in S /\ IsCore(g, S)

(* An error is reported if a struct contains itself, directly, through other
   structs or in arrays ("cyclic field dependencies are detected"). *)
CyclesDetected ==
  pending = {} /\ stack = <<>> /\ Cyclic(Contents(program)) => reported # {}

(* The walk over a stage variable's type does not come back to a struct it is
   in, so run returns. *)
WalkEnds ==
  \A i, j \in DOMAIN calls : calls[i].name = calls[j].name => i = j

(* The walk finds a double exactly if one is inside. *)
DoubleFound ==
  LET g == Contents(program) IN
  phase = "done" /\ program.stageVar # NoVar =>
    (double <=>
      \A S \in SUBSET Structs :
        program.stageVar \in S /\ (\A s \in S : g[s] \subseteq S) =>
          \E s \in S : \E f \in program.fields[s] : f.of = "double")

(* "the error count is returned by run()". *)
RunReturns == phase = "cycles" ~> phase = "done"
=============================================================================
