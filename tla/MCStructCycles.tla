--------------------------- MODULE MCStructCycles ---------------------------
(***************************************************************************)
(* Model checking of StructCycles: all graphs of three structs.            *)
(***************************************************************************)
EXTENDS StructCycles

CONSTANTS A, B, C

MCStructs == {A, B, C}
Plain(of) == [of |-> of, array |-> FALSE]
Arrays(of) == [of |-> of, array |-> TRUE]

(* Every struct contains any of the three; one may hold a double. *)
Graphs3 ==
  {[s \in MCStructs |-> {Plain(t) : t \in g[s]} \cup IF s = d THEN {Plain("double")} ELSE {Plain("float")}] :
     g \in [MCStructs -> SUBSET MCStructs], d \in {B, NoVar}}

(* Arrays of structs that contain no struct; a stage variable of a type from
   which no cycle is reached. *)
Leaf(fields, s) == \A f \in fields[s] : f.of \notin MCStructs
Walkable(fields, s) ==
  ~\E S \in SUBSET MCStructs : s \in S /\ \A t \in S : \E f \in fields[t] : f.of \in S
WithArrays(fields) ==
  {fields} \cup
  {[s \in MCStructs |-> {IF f.of \in MCStructs /\ Leaf(fields, f.of) THEN Arrays(f.of) ELSE f : f \in fields[s]}]}

MCPrograms ==
  {[fields |-> fields, stageVar |-> v] : fields \in UNION {WithArrays(g) : g \in Graphs3}, v \in {A, NoVar}}
MCSound == {p \in MCPrograms : p.stageVar = NoVar \/ Walkable(p.fields, p.stageVar)}

(* A struct that contains an array of itself, or of one that contains it. *)
MCArrays ==
  {[fields |-> [s \in MCStructs |-> {[of |-> t, array |-> a] : t \in g[s]}], stageVar |-> NoVar] :
     g \in [MCStructs -> SUBSET MCStructs], a \in BOOLEAN}
=============================================================================
