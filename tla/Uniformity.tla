----------------------------- MODULE Uniformity -----------------------------
(***************************************************************************)
(* The divergence analysis of the packetizer (emit_fs_packet.h), and the   *)
(* runs of a packet that it makes promises about.                          *)
(*                                                                         *)
(* analyzeUniformity repeats a scan of the shader until no local is newly  *)
(* found to depend on the lane; PacketEmitter then keeps the other locals  *)
(* in scalar slots and lets lane 0 decide how often a uniform loop runs.   *)
(* Here a state is a point of the scan or, once it has ended, of a run of  *)
(* the shader in which every lane executes what its scalar invocation      *)
(* does.  Values are abstracted to whether they are the same in all lanes. *)
(*                                                                         *)
(* A shader is the sequence of its statements in the order of the source.  *)
(* Statement n holds the statements n + 1 .. last; an expression is the    *)
(* set of the names it reads.  Assignments to outputs and discards change  *)
(* nothing of what follows and are left out.                               *)
(***************************************************************************)
EXTENDS Integers, Sequences

CONSTANTS
  Lanes,
  Locals,              \* local variables
  PerLane,             \* names that differ from lane to lane: varyings, outputs,
                       \* gl_FragCoord, gl_VertexID; also stands for every
                       \* kind of expression the analysis does not know
  Shaders              \* the shaders that are compiled

(* Statement: kind; var and reads of an assignment, reads of a condition;
   last statement inside; the statement that it stands in, or 0, and the part
   of it. *)
Kinds == {"assign", "if", "loop", "break", "continue"}
Parts == {"then", "else", "body", "incr"}
Statement == [kind : Kinds, var : Locals, reads : SUBSET (Locals \cup PerLane),
              last : Nat, up : Nat, part : Parts]

(* The statements that statement s of shader p is in, and the loop that a
   break or continue at s belongs to. *)
Enclosing(p, s) == {n \in 1 .. s - 1 : s <= p[n].last}
IsLoopOf(p, n, s) ==
  /\ n \in Enclosing(p, s) /\ p[n].kind = "loop"
  /\ \A m \in Enclosing(p, s) : p[m].kind = "loop" => m <= n

(* Statements nest; parts are in order; an increment is an assignment that
   ends its loop; break and continue stand in a loop. *)
ShaderOK(p) ==
  /\ p \in Seq(Statement)
  /\ \A s \in DOMAIN p :
       LET up == p[s].up IN
       /\ p[s].last \in s .. Len(p)
       /\ p[s].kind \notin {"if", "loop"} => p[s].last = s
       /\ \A n \in Enclosing(p, s) : n <= up /\ p[s].last <= p[n].last
       /\ up # 0 => up \in Enclosing(p, s)
       /\ p[s].part \in IF up = 0 THEN {"body"}
                        ELSE IF p[up].kind = "if" THEN {"then", "else"}
                        ELSE {"body", "incr"}
       /\ p[s].part = "incr" => p[s].kind = "assign" /\ s = p[up].last
       /\ p[s].part = "then" =>
            \A n \in 1 .. s - 1 : p[n].up = up => p[n].part # "else"
       /\ p[s].kind \in {"break", "continue"} => \E n \in 1 .. s - 1 : IsLoopOf(p, n, s)

ASSUME NamesAssumption == Lanes # {} /\ Locals \cap PerLane = {}
ASSUME ShadersAssumption == \A p \in Shaders : ShaderOK(p)

VARIABLES
  shader,
  phase,               \* "scan" (analyzeUniformity) or "run"
  at,                  \* the next statement to scan or to execute
  divergentVars,
  uniformLoops,
  changed,
  same,                \* locals whose value is the same in all lanes
  inside,              \* [statement -> lanes that have entered the `if` or the
                       \* loop and not left it]
  chosen,              \* [statement -> lanes in "then", or in the iteration]
  looping              \* loops that have begun

scanVars == <<divergentVars, uniformLoops, changed>>
runVars == <<same, inside, chosen, looping>>
vars == <<shader, phase, at, scanVars, runVars>>

Stmt == shader[at]
Loops == {n \in DOMAIN shader : shader[n].kind = "loop"}

TypeOK ==
  /\ shader \in Shaders
  /\ phase \in {"scan", "run"}
  /\ at \in 1 .. Len(shader) + 1
  /\ divergentVars \subseteq Locals
  /\ uniformLoops \subseteq Loops
  /\ changed \in BOOLEAN
  /\ same \subseteq Locals
  /\ inside \in [DOMAIN shader -> SUBSET Lanes]
  /\ chosen \in [DOMAIN shader -> SUBSET Lanes]
  /\ looping \subseteq Loops

Init ==
  /\ shader \in Shaders
  /\ phase = "scan" /\ at = 1
  /\ divergentVars = {} /\ uniformLoops = {} /\ changed = FALSE
  /\ same = Locals
  /\ inside = [n \in DOMAIN shader |-> {}]
  /\ chosen = [n \in DOMAIN shader |-> {}]
  /\ looping = {}

----------------------------------------------------------------------------
(* The scan. *)

IsUniformExpr(reads) == reads \cap (PerLane \cup divergentVars) = {}

(* Mutant of HasBreakOrContinue: exits are not looked for. *)
NoExitsFound(n) == FALSE

(* break or continue in the body, not counting those of nested loops. *)
HasBreakOrContinue(n) ==
  \E s \in DOMAIN shader :
    shader[s].kind \in {"break", "continue"} /\ IsLoopOf(shader, n, s)

(* Mutant of DivergentCF: only an `if` counts as divergent control flow. *)
DivergentUnderIfOnly(s) == shader[s].up # 0 /\ shader[shader[s].up].kind = "if"

(* The parameter of scanUniformity: under an `if`, or in a loop that is not
   uniform. *)
DivergentCF(s) ==
  shader[s].up # 0 /\ shader[s].up \notin uniformLoops

(* Mutant of ScanAssign: the names read are marked, not the one assigned. *)
ScanAssignMarksReads ==
  /\ phase = "scan" /\ at <= Len(shader) /\ Stmt.kind = "assign"
  /\ IF DivergentCF(at) \/ ~IsUniformExpr(Stmt.reads)
     THEN /\ divergentVars' = divergentVars \cup Stmt.reads
          /\ changed' = (changed \/ ~(Stmt.reads \subseteq divergentVars))
     ELSE UNCHANGED <<divergentVars, changed>>
  /\ at' = at + 1
  /\ UNCHANGED <<shader, phase, uniformLoops, runVars>>

ScanAssign ==
  /\ phase = "scan" /\ at <= Len(shader) /\ Stmt.kind = "assign"
  /\ IF DivergentCF(at) \/ ~IsUniformExpr(Stmt.reads)
     THEN /\ divergentVars' = divergentVars \cup {Stmt.var}
          /\ changed' = (changed \/ Stmt.var \notin divergentVars)
     ELSE UNCHANGED <<divergentVars, changed>>
  /\ at' = at + 1
  /\ UNCHANGED <<shader, phase, uniformLoops, runVars>>

(* Mutant of ScanLoop: a loop once taken for uniform is not given up. *)
ScanLoopNeverErases ==
  /\ phase = "scan" /\ at <= Len(shader) /\ Stmt.kind = "loop"
  /\ uniformLoops' =
       IF ~DivergentCF(at) /\ IsUniformExpr(Stmt.reads) /\ ~HasBreakOrContinue(at)
       THEN uniformLoops \cup {at} ELSE uniformLoops
  /\ at' = at + 1
  /\ UNCHANGED <<shader, phase, divergentVars, changed, runVars>>

ScanLoop ==
  /\ phase = "scan" /\ at <= Len(shader) /\ Stmt.kind = "loop"
  /\ uniformLoops' =
       IF ~DivergentCF(at) /\ IsUniformExpr(Stmt.reads) /\ ~HasBreakOrContinue(at)
       THEN uniformLoops \cup {at} ELSE uniformLoops \ {at}
  /\ at' = at + 1
  /\ UNCHANGED <<shader, phase, divergentVars, changed, runVars>>

ScanOther ==
  /\ phase = "scan" /\ at <= Len(shader) /\ Stmt.kind \notin {"assign", "loop"}
  /\ at' = at + 1
  /\ UNCHANGED <<shader, phase, scanVars, runVars>>

(* Mutant of EndScan: one pass is taken to be enough. *)
EndScanAfterOnePass ==
  /\ phase = "scan" /\ at > Len(shader)
  /\ phase' = "run" /\ changed' = FALSE /\ at' = 1
  /\ UNCHANGED <<shader, divergentVars, uniformLoops, runVars>>

(* Mutant of EndScan: changed is not reset. *)
EndScanKeepsChanged ==
  /\ phase = "scan" /\ at > Len(shader)
  /\ phase' = IF changed THEN "scan" ELSE "run"
  /\ at' = 1
  /\ UNCHANGED <<shader, divergentVars, uniformLoops, changed, runVars>>

EndScan ==
  /\ phase = "scan" /\ at > Len(shader)
  /\ phase' = IF changed THEN "scan" ELSE "run"
  /\ changed' = FALSE
  /\ at' = 1
  /\ UNCHANGED <<shader, divergentVars, uniformLoops, runVars>>

----------------------------------------------------------------------------
(* A run of the shader. *)

(* The lanes that execute statement s. *)
Active(s) ==
  LET up == shader[s].up
  IN  IF up = 0 THEN Lanes
      ELSE CASE shader[s].part = "incr" -> inside[up]
             [] shader[s].part = "else" -> inside[up] \ chosen[up]
             [] OTHER -> chosen[up]

(* Where control is after statement s and all that it holds: back at the
   loop that ends there, or at the next statement. *)
After(s) ==
  LET ends == {n \in Enclosing(shader, s) :
                 shader[n].kind = "loop" /\ shader[n].last = shader[s].last}
  IN  IF ends = {} THEN {shader[s].last + 1} ELSE {n \in ends : \A m \in ends : m <= n}

(* The conditions that the lanes of `active` can meet: all alike if every
   name read is. *)
Outcomes(active, reads) ==
  IF reads \subseteq same THEN {{}, active} ELSE SUBSET active

Running(kind) == phase = "run" /\ at <= Len(shader) /\ Stmt.kind = kind

Assign ==
  /\ Running("assign")
  /\ IF Active(at) = {} THEN same' = same
     ELSE IF Active(at) = Lanes /\ Stmt.reads \subseteq same
     THEN same' = same \cup {Stmt.var}
     ELSE same' \in {same \cup {Stmt.var}, same \ {Stmt.var}}
  /\ at' \in After(at)
  /\ UNCHANGED <<shader, phase, scanVars, inside, chosen, looping>>

If ==
  /\ Running("if")
  /\ inside' = [inside EXCEPT ![at] = Active(at)]
  /\ \E taken \in Outcomes(Active(at), Stmt.reads) :
       chosen' = [chosen EXCEPT ![at] = taken]
  /\ IF Stmt.last = at THEN at' \in After(at) ELSE at' = at + 1
  /\ UNCHANGED <<shader, phase, scanVars, same, looping>>

(* The header of a loop: from above, or from the end of an iteration. *)
Loop ==
  /\ Running("loop")
  /\ LET arriving == IF at \in looping THEN inside[at] ELSE Active(at) IN
     \E staying \in Outcomes(arriving, Stmt.reads) :
       /\ inside' = [inside EXCEPT ![at] = staying]
       /\ chosen' = [chosen EXCEPT ![at] = staying]
       /\ IF staying = {}
          THEN looping' = looping \ {at} /\ at' \in After(at)
          ELSE /\ looping' = looping \cup {at}
               /\ at' = IF Stmt.last = at THEN at ELSE at + 1
  /\ UNCHANGED <<shader, phase, scanVars, same>>

(* The lanes that execute a break or continue leave the iteration and the
   ifs they are in; those of a break leave the loop. *)
Exit ==
  /\ Running("break") \/ Running("continue")
  /\ \E loop \in 1 .. at - 1 :
       LET out  == Active(at)
           left == {n \in Enclosing(shader, at) : n > loop}
       IN  /\ IsLoopOf(shader, loop, at)
           /\ chosen' = [n \in DOMAIN shader |->
                           IF n \in left \cup {loop} THEN chosen[n] \ out
                           ELSE chosen[n]]
           /\ inside' = [n \in DOMAIN shader |->
                           IF n \in left \/ (n = loop /\ Stmt.kind = "break")
                           THEN inside[n] \ out ELSE inside[n]]
  /\ at' \in After(at)
  /\ UNCHANGED <<shader, phase, scanVars, same, looping>>

(* The next packet starts with zeroed locals. *)
NextPacket ==
  /\ phase = "run" /\ at > Len(shader)
  /\ at' = 1
  /\ same' = Locals
  /\ UNCHANGED <<shader, phase, scanVars, inside, chosen, looping>>

Scan == ScanAssign \/ ScanLoop \/ ScanOther \/ EndScan
Next == Scan \/ Assign \/ If \/ Loop \/ Exit \/ NextPacket

(* analyzeUniformity runs until it returns. *)
Spec == Init /\ [][Next]_vars /\ WF_vars(Scan)
----------------------------------------------------------------------------
(* A local that stays out of divergentVars has one value in all lanes
   whenever the shader runs: a scalar slot can hold it, and lane 0 is
   representative of it. *)
UniformLocals == phase = "run" => Locals \ divergentVars \subseteq same

(* "every lane runs every iteration": the lanes leave a uniform loop together,
   so that a branch on lane 0's condition is right for all of them. *)
UniformLoopsConverge ==
  phase = "run" => \A n \in uniformLoops : inside[n] \in {{}, Lanes}

(* "the mask is all-ones here and no blend is needed": a scalar slot is only
   ever written by all lanes at once. *)
ScalarSlotsWrittenByAll ==
  Running("assign") /\ Stmt.var \notin divergentVars => Active(at) = Lanes

(* The data-flow problem, as equations over a set D of divergent locals. *)
UniformUnder(D) ==
  {n \in Loops : \A e \in Enclosing(shader, n) \cup {n} :
                   /\ shader[e].kind = "loop"
                   /\ shader[e].reads \cap (PerLane \cup D) = {}
                   /\ ~\E s \in DOMAIN shader :
                        shader[s].kind \in {"break", "continue"} /\ IsLoopOf(shader, e, s)}

Closed(D) ==
  \A s \in DOMAIN shader :
    shader[s].kind = "assign" /\ shader[s].var \notin D =>
      /\ shader[s].reads \cap (PerLane \cup D) = {}
      /\ Enclosing(shader, s) \subseteq UniformUnder(D)

(* The result is the least solution whatever order locals are found in: no
   local is given up that need not be, and none kept that may not. *)
LeastSolution ==
  phase = "run" =>
    /\ Closed(divergentVars)
    /\ \A D \in SUBSET Locals : Closed(D) => divergentVars \subseteq D
    /\ uniformLoops = UniformUnder(divergentVars)

(* "It only ever grows over a finite set of names, so the loop terminates." *)
AnalysisReturns == phase = "scan" ~> phase = "run"
=============================================================================
