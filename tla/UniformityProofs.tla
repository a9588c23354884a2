-------------------------- MODULE UniformityProofs --------------------------
(***************************************************************************)
(* Proofs about Uniformity: what the analysis leaves uniform is uniform in *)
(* every run, for every set of lanes and locals and every shader.          *)
(***************************************************************************)
EXTENDS Uniformity, TLAPS

(* What one pass that marks nothing leaves true of a statement it has seen. *)
Settled(s) ==
  /\ shader[s].kind = "assign" /\ shader[s].var \notin divergentVars =>
       IsUniformExpr(shader[s].reads) /\ ~DivergentCF(s)
  /\ s \in uniformLoops =>
       /\ IsUniformExpr(shader[s].reads) /\ ~DivergentCF(s)
       /\ ~HasBreakOrContinue(s)

NotRunYet ==
  /\ same = Locals /\ looping = {}
  /\ inside = [n \in DOMAIN shader |-> {}]
  /\ chosen = [n \in DOMAIN shader |-> {}]

ScanInv ==
  phase = "scan" =>
    /\ NotRunYet
    /\ ~changed => \A s \in 1 .. at - 1 : Settled(s)

(* All lanes are in the uniform loops that control is in, and no other lanes
   are in any uniform loop. *)
Together ==
  /\ \A n \in uniformLoops : inside[n] \in {{}, Lanes} /\ chosen[n] = inside[n]
  /\ \A n \in uniformLoops :
       n \in looping \/ n \in Enclosing(shader, at) => inside[n] = Lanes

RunInv ==
  phase = "run" =>
    /\ \A s \in 1 .. Len(shader) : Settled(s)
    /\ Locals \ divergentVars \subseteq same
    /\ Together

IInv == TypeOK /\ ScanInv /\ RunInv

----------------------------------------------------------------------------
(* Shape of a shader. *)

LEMMA Shape ==
  ASSUME NEW p \in Shaders
  PROVE  /\ Len(p) \in Nat /\ DOMAIN p = 1 .. Len(p)
         /\ \A s \in 1 .. Len(p) :
              /\ p[s].var \in Locals
              /\ p[s].reads \subseteq Locals \cup PerLane
              /\ p[s].last \in Nat /\ s <= p[s].last /\ p[s].last <= Len(p)
              /\ p[s].up = 0 \/ p[s].up \in Enclosing(p, s)
              /\ \A n \in Enclosing(p, s) : n \in 1 .. s - 1 /\ p[s].last <= p[n].last
<1>1. ShaderOK(p)
  BY ShadersAssumption
<1>2. p \in Seq(Statement)
  BY <1>1 DEF ShaderOK
<1>3. Len(p) \in Nat /\ DOMAIN p = 1 .. Len(p)
  BY <1>2
<1>4. ASSUME NEW s \in 1 .. Len(p)
      PROVE  /\ p[s].var \in Locals
             /\ p[s].reads \subseteq Locals \cup PerLane
             /\ p[s].last \in Nat
  <2>1. p[s] \in Statement
    BY <1>2
  <2> QED
    BY <2>1 DEF Statement
<1>5. ASSUME NEW s \in 1 .. Len(p)
      PROVE  /\ s <= p[s].last /\ p[s].last <= Len(p)
             /\ p[s].up = 0 \/ p[s].up \in Enclosing(p, s)
             /\ \A n \in Enclosing(p, s) : n \in 1 .. s - 1 /\ p[s].last <= p[n].last
  BY <1>1, <1>3, <1>4 DEF ShaderOK, Enclosing
<1> QED
  BY <1>3, <1>4, <1>5

(* Inside a loop a statement is in the body or it is the increment. *)
LEMMA PartOfLoop ==
  ASSUME NEW p \in Shaders, NEW s \in 1 .. Len(p),
         p[s].up # 0, p[p[s].up].kind = "loop"
  PROVE  p[s].part \in {"body", "incr"}
<1>1. ShaderOK(p) /\ s \in DOMAIN p
  BY ShadersAssumption, Shape
<1> QED
  BY <1>1 DEF ShaderOK

(* Control never enters a statement sideways. *)
LEMMA AfterOutside ==
  ASSUME TypeOK, NEW s \in 1 .. Len(shader), NEW t \in After(s)
  PROVE  /\ t \in 1 .. Len(shader) + 1
         /\ Enclosing(shader, t) \subseteq Enclosing(shader, s)
<1> DEFINE ends == {n \in Enclosing(shader, s) :
                      shader[n].kind = "loop" /\ shader[n].last = shader[s].last}
<1>1. shader \in Shaders
  BY DEF TypeOK
<1>2. /\ Len(shader) \in Nat
      /\ \A q \in 1 .. Len(shader) :
           /\ shader[q].last \in Nat /\ q <= shader[q].last /\ shader[q].last <= Len(shader)
           /\ \A n \in Enclosing(shader, q) :
                n \in 1 .. q - 1 /\ shader[q].last <= shader[n].last
  BY <1>1, Shape
<1>3. CASE ends = {}
  <2>1. t = shader[s].last + 1
    BY <1>3 DEF After
  <2>2. ASSUME NEW n \in Enclosing(shader, t) PROVE n \in Enclosing(shader, s)
    <3>1. n \in 1 .. shader[s].last /\ shader[s].last + 1 <= shader[n].last
      BY <1>2, <2>1, <2>2 DEF Enclosing
    <3>2. n \in 1 .. Len(shader)
      BY <1>2, <3>1
    <3>3. ~(s < n)
      <4>1. SUFFICES ASSUME s < n PROVE FALSE
        OBVIOUS
      <4>2. s \in Enclosing(shader, n)
        BY <3>1, <4>1 DEF Enclosing
      <4>3. shader[n].last <= shader[s].last
        BY <1>2, <3>2, <4>2
      <4> QED
        BY <1>2, <3>1, <3>2, <4>3
    <3>4. n # s
      BY <1>2, <3>1
    <3> QED
      BY <1>2, <3>1, <3>2, <3>3, <3>4 DEF Enclosing
  <2> QED
    BY <1>2, <2>1, <2>2
<1>4. CASE ends # {}
  <2>1. t \in Enclosing(shader, s)
    BY <1>4 DEF After
  <2>2. t \in 1 .. s - 1 /\ s <= shader[t].last
    BY <1>2, <2>1 DEF Enclosing
  <2>3. ASSUME NEW n \in Enclosing(shader, t) PROVE n \in Enclosing(shader, s)
    <3>1. n \in 1 .. t - 1 /\ shader[t].last <= shader[n].last
      BY <1>2, <2>2, <2>3
    <3> QED
      BY <1>2, <2>2, <3>1 DEF Enclosing
  <2> QED
    BY <1>2, <2>2, <2>3
<1> QED
  BY <1>3, <1>4

(* Going into a statement adds only that statement. *)
LEMMA NextInside ==
  ASSUME TypeOK, NEW s \in 1 .. Len(shader)
  PROVE  Enclosing(shader, s + 1) \subseteq Enclosing(shader, s) \cup {s}
<1>1. \A n \in 1 .. Len(shader) : shader[n].last \in Nat
  BY Shape DEF TypeOK
<1>2. Len(shader) \in Nat
  BY Shape DEF TypeOK
<1> QED
  BY <1>1, <1>2 DEF Enclosing

----------------------------------------------------------------------------
(* The scan. *)

LEMMA InitIInv == Init => IInv
<1> SUFFICES ASSUME Init PROVE IInv
  OBVIOUS
<1>1. Len(shader) \in Nat
  BY Shape DEF Init
<1>2. TypeOK
  <2>1. /\ inside \in [DOMAIN shader -> SUBSET Lanes]
        /\ chosen \in [DOMAIN shader -> SUBSET Lanes]
    BY DEF Init
  <2>2. at \in 1 .. Len(shader) + 1
    BY <1>1 DEF Init
  <2> QED
    BY <2>1, <2>2 DEF Init, TypeOK
<1> QED
  BY <1>2 DEF Init, IInv, ScanInv, RunInv, NotRunYet

LEMMA ScanKeepsType ==
  ASSUME TypeOK, Scan
  PROVE  TypeOK'
<1>1. /\ Len(shader) \in Nat /\ DOMAIN shader = 1 .. Len(shader)
      /\ \A s \in 1 .. Len(shader) : shader[s].var \in Locals
  BY Shape DEF TypeOK
<1>2. CASE ScanAssign
  <2>1. Stmt.var \in Locals
    BY <1>1, <1>2 DEF ScanAssign, TypeOK, Stmt
  <2>2. divergentVars' \subseteq Locals
    BY <2>1, <1>2 DEF ScanAssign, TypeOK
  <2>3. changed' \in BOOLEAN
    <3>1. CASE changed' = (changed \/ Stmt.var \notin divergentVars)
      BY <3>1
    <3>2. CASE changed' = changed
      BY <3>2 DEF TypeOK
    <3> QED
      BY <3>1, <3>2, <1>2 DEF ScanAssign
  <2>4. at' \in 1 .. Len(shader) + 1
    BY <1>1, <1>2 DEF ScanAssign, TypeOK
  <2> QED
    BY <1>2, <2>2, <2>3, <2>4 DEF ScanAssign, TypeOK, Loops, runVars
<1>3. CASE ScanLoop
  <2>1. at \in Loops
    BY <1>1, <1>3 DEF ScanLoop, TypeOK, Stmt, Loops
  <2> QED
    BY <1>1, <1>3, <2>1 DEF ScanLoop, TypeOK, Loops, runVars
<1>4. CASE ScanOther
  BY <1>1, <1>4 DEF ScanOther, TypeOK, Loops, runVars, scanVars
<1>5. CASE EndScan
  <2>1. phase' \in {"scan", "run"} /\ changed' \in BOOLEAN
    BY <1>5 DEF EndScan
  <2>2. at' \in 1 .. Len(shader) + 1
    BY <1>1, <1>5 DEF EndScan
  <2> QED
    BY <1>5, <2>1, <2>2 DEF EndScan, TypeOK, Loops, runVars
<1> QED
  BY <1>2, <1>3, <1>4, <1>5 DEF Scan

(* A scan step that marks nothing keeps settled what is, because the verdict
   on a statement depends only on the one it stands in, which comes first;
   and it settles the statement it looks at. *)
LEMMA ScanSettles ==
  ASSUME IInv, ScanAssign \/ ScanLoop \/ ScanOther, ~changed'
  PROVE  \A s \in 1 .. at : Settled(s)'
<1> USE DEF IInv
<1>1. /\ phase = "scan" /\ at \in 1 .. Len(shader) /\ shader' = shader
      /\ Len(shader) \in Nat /\ DOMAIN shader = 1 .. Len(shader)
      /\ \A s \in 1 .. Len(shader) :
           shader[s].up = 0 \/ shader[s].up \in 1 .. s - 1
  BY Shape DEF ScanAssign, ScanLoop, ScanOther, TypeOK
<1>2. divergentVars' = divergentVars /\ ~changed
  <2>1. CASE ScanAssign
    BY <2>1 DEF ScanAssign, TypeOK
  <2>2. CASE ScanLoop \/ ScanOther
    BY <2>2 DEF ScanLoop, ScanOther, scanVars
  <2> QED
    BY <2>1, <2>2
<1>3. \A n \in 1 .. Len(shader) : n # at => (n \in uniformLoops' <=> n \in uniformLoops)
  BY DEF ScanAssign, ScanLoop, ScanOther, scanVars
<1>4. ASSUME NEW s \in 1 .. at PROVE DivergentCF(s)' <=> DivergentCF(s)
  BY <1>1, <1>3 DEF DivergentCF
<1>5. \A s : HasBreakOrContinue(s)' <=> HasBreakOrContinue(s)
  BY <1>1 DEF HasBreakOrContinue, IsLoopOf
<1>6. ASSUME NEW s \in 1 .. at - 1 PROVE Settled(s)'
  <2>1. Settled(s)
    BY <1>1, <1>2 DEF ScanInv
  <2>2. s \in uniformLoops' <=> s \in uniformLoops
    BY <1>1, <1>3
  <2> QED
    BY <1>1, <1>2, <1>4, <1>5, <2>1, <2>2 DEF Settled, IsUniformExpr
<1>7. ASSUME NEW s \in {at} PROVE Settled(s)'
  <2> s = at /\ s \in 1 .. at
    BY <1>1
  <2>1. CASE ScanAssign
    <3>1. s \notin uniformLoops'
      BY <1>1, <2>1 DEF ScanAssign, TypeOK, Loops, Stmt
    <3>2. shader[s].var \notin divergentVars =>
            IsUniformExpr(shader[s].reads) /\ ~DivergentCF(s)
      BY <1>2, <2>1 DEF ScanAssign, Stmt
    <3> QED
      BY <1>1, <1>2, <1>4, <3>1, <3>2 DEF Settled, IsUniformExpr
  <2>2. CASE ScanLoop
    <3>1. shader[s].kind # "assign"
      BY <2>2 DEF ScanLoop, Stmt
    <3>2. s \in uniformLoops' =>
            IsUniformExpr(shader[s].reads) /\ ~DivergentCF(s) /\ ~HasBreakOrContinue(s)
      BY <2>2 DEF ScanLoop, Stmt
    <3> QED
      BY <1>1, <1>2, <1>4, <1>5, <3>1, <3>2 DEF Settled, IsUniformExpr
  <2>3. CASE ScanOther
    <3>1. shader[s].kind # "assign" /\ s \notin uniformLoops'
      BY <1>1, <2>3 DEF ScanOther, TypeOK, Loops, Stmt, scanVars
    <3> QED
      BY <1>1, <3>1 DEF Settled
  <2> QED
    BY <2>1, <2>2, <2>3
<1> QED
  BY <1>1, <1>6, <1>7

LEMMA ScanKeeps ==
  ASSUME IInv, Scan
  PROVE  IInv'
<1>1. TypeOK'
  BY ScanKeepsType DEF IInv
<1>2. phase = "scan" /\ NotRunYet /\ NotRunYet'
  BY DEF Scan, ScanAssign, ScanLoop, ScanOther, EndScan, runVars, IInv, ScanInv, NotRunYet
<1>3. CASE ScanAssign \/ ScanLoop \/ ScanOther
  <2>1. phase' = "scan" /\ at' = at + 1
    BY <1>3 DEF ScanAssign, ScanLoop, ScanOther
  <2>2. at \in Nat
    BY DEF IInv, TypeOK
  <2>3. ~changed' => \A s \in 1 .. at : Settled(s)'
    BY <1>3, ScanSettles
  <2> QED
    BY <1>1, <1>2, <2>1, <2>2, <2>3 DEF IInv, ScanInv, RunInv
<1>4. CASE EndScan /\ changed
  BY <1>1, <1>2, <1>4 DEF EndScan, IInv, ScanInv, RunInv
<1>5. CASE EndScan /\ ~changed
  <2>1. /\ Len(shader) \in Nat /\ DOMAIN shader = 1 .. Len(shader)
    BY Shape DEF IInv, TypeOK
  <2>2. at \in Nat /\ at > Len(shader)
    BY <1>5 DEF EndScan, IInv, TypeOK
  <2>3. /\ phase' = "run" /\ at' = 1
        /\ shader' = shader /\ divergentVars' = divergentVars /\ uniformLoops' = uniformLoops
    BY <1>5 DEF EndScan
  <2>4. \A s \in 1 .. Len(shader) : Settled(s)
    BY <1>2, <1>5, <2>1, <2>2 DEF IInv, ScanInv
  <2>5. \A s \in 1 .. Len(shader) : Settled(s)'
    BY <2>3, <2>4 DEF Settled, IsUniformExpr, DivergentCF, HasBreakOrContinue, IsLoopOf
  <2>6. Together'
    <3>1. Enclosing(shader, 1) = {}
      BY DEF Enclosing
    <3>2. uniformLoops \subseteq DOMAIN shader
      BY DEF IInv, TypeOK, Loops
    <3> QED
      BY <1>2, <2>3, <3>1, <3>2 DEF NotRunYet, Together
  <2> QED
    BY <1>1, <1>2, <2>3, <2>5, <2>6 DEF IInv, ScanInv, RunInv, NotRunYet
<1> QED
  BY <1>3, <1>4, <1>5 DEF Scan

----------------------------------------------------------------------------
(* A run. *)

Run == Assign \/ If \/ Loop \/ Exit \/ NextPacket

(* What the settled analysis says of the statement that is executed next. *)
LEMMA AtStatement ==
  ASSUME IInv, phase = "run", at <= Len(shader)
  PROVE  /\ at \in 1 .. Len(shader) /\ DOMAIN shader = 1 .. Len(shader)
         /\ Len(shader) \in Nat
         /\ Stmt.last \in Nat /\ at <= Stmt.last /\ Stmt.last <= Len(shader)
         /\ Stmt.var \in Locals
         /\ Settled(at) /\ Together
         /\ Locals \ divergentVars \subseteq same
         /\ IsUniformExpr(Stmt.reads) => Stmt.reads \subseteq same
<1>1. at \in 1 .. Len(shader) /\ Len(shader) \in Nat
  BY Shape DEF IInv, TypeOK
<1>2. /\ DOMAIN shader = 1 .. Len(shader)
      /\ Stmt.last \in Nat /\ at <= Stmt.last /\ Stmt.last <= Len(shader)
      /\ Stmt.var \in Locals
      /\ Stmt.reads \subseteq Locals \cup PerLane
  BY <1>1, Shape DEF IInv, TypeOK, Stmt
<1>3. Settled(at) /\ Together /\ Locals \ divergentVars \subseteq same
  BY <1>1 DEF IInv, RunInv
<1>4. IsUniformExpr(Stmt.reads) => Stmt.reads \subseteq same
  BY <1>2, <1>3 DEF IsUniformExpr
<1> QED
  BY <1>1, <1>2, <1>3, <1>4

(* A statement that stands in no `if` and in no divergent loop is executed by
   all lanes. *)
LEMMA AllActive ==
  ASSUME IInv, phase = "run", at <= Len(shader), ~DivergentCF(at)
  PROVE  Active(at) = Lanes
<1>1. at \in 1 .. Len(shader) /\ Together
  BY AtStatement
<1>2. CASE shader[at].up = 0
  BY <1>2 DEF Active
<1>3. CASE shader[at].up # 0
  <2> DEFINE n == shader[at].up
  <2>1. n \in uniformLoops /\ n \in Enclosing(shader, at)
    BY <1>1, <1>3, Shape DEF DivergentCF, IInv, TypeOK
  <2>2. inside[n] = Lanes /\ chosen[n] = Lanes
    BY <1>1, <2>1 DEF Together
  <2>3. shader[n].kind = "loop"
    BY <2>1 DEF IInv, TypeOK, Loops
  <2>4. shader[at].part \in {"body", "incr"}
    BY <1>1, <1>3, <2>3, PartOfLoop DEF IInv, TypeOK
  <2> QED
    BY <1>3, <2>2, <2>4 DEF Active
<1> QED
  BY <1>2, <1>3

(* Statements stay settled, and lanes together, if neither the analysis nor
   the lanes in uniform loops change and no uniform loop is entered. *)
LEMMA RunKeeps ==
  ASSUME IInv, phase = "run", TypeOK',
         UNCHANGED <<shader, phase, scanVars>>,
         Locals \ divergentVars \subseteq same',
         \A n \in uniformLoops :
           /\ inside'[n] \in {{}, Lanes} /\ chosen'[n] = inside'[n]
           /\ n \in looping' \/ n \in Enclosing(shader, at') => inside'[n] = Lanes
  PROVE  IInv'
<1>1. \A s \in 1 .. Len(shader) : Settled(s)'
  BY DEF IInv, RunInv, Settled, IsUniformExpr, DivergentCF, HasBreakOrContinue, IsLoopOf, scanVars
<1>2. Together'
  BY DEF Together, scanVars
<1> QED
  BY <1>1, <1>2 DEF IInv, ScanInv, RunInv, scanVars

LEMMA AssignKeeps ==
  ASSUME IInv, Assign
  PROVE  IInv'
<1>1. phase = "run" /\ at <= Len(shader) /\ Stmt.kind = "assign"
  BY DEF Assign, Running
<1>2. /\ at \in 1 .. Len(shader) /\ Stmt.var \in Locals /\ Settled(at) /\ Together
      /\ Locals \ divergentVars \subseteq same
      /\ IsUniformExpr(Stmt.reads) => Stmt.reads \subseteq same
  BY <1>1, AtStatement
<1>3. /\ at' \in 1 .. Len(shader) + 1
      /\ Enclosing(shader, at') \subseteq Enclosing(shader, at)
  BY <1>2, AfterOutside DEF Assign, IInv
<1>4. same' = same \/ same' = same \cup {Stmt.var} \/ same' = same \ {Stmt.var}
  BY DEF Assign
<1>5. TypeOK'
  <2>1. same' \subseteq Locals
    BY <1>2, <1>4 DEF IInv, TypeOK
  <2> QED
    BY <1>3, <2>1 DEF Assign, IInv, TypeOK, Loops, scanVars
<1>6. Locals \ divergentVars \subseteq same'
  <2>1. CASE Stmt.var \in divergentVars
    BY <1>2, <1>4, <2>1
  <2>2. CASE Stmt.var \notin divergentVars
    <3>1. IsUniformExpr(Stmt.reads) /\ ~DivergentCF(at)
      BY <1>1, <1>2, <2>2 DEF Settled, Stmt
    <3>2. Active(at) = Lanes /\ Stmt.reads \subseteq same
      BY <1>1, <1>2, <3>1, AllActive
    <3>3. same' = same \/ same' = same \cup {Stmt.var}
      BY <3>2 DEF Assign
    <3> QED
      BY <1>2, <3>3
  <2> QED
    BY <2>1, <2>2
<1>7. \A n \in uniformLoops :
        /\ inside'[n] \in {{}, Lanes} /\ chosen'[n] = inside'[n]
        /\ n \in looping' \/ n \in Enclosing(shader, at') => inside'[n] = Lanes
  BY <1>2, <1>3 DEF Assign, Together
<1> QED
  BY <1>1, <1>5, <1>6, <1>7, RunKeeps DEF Assign

LEMMA IfKeeps ==
  ASSUME IInv, If
  PROVE  IInv'
<1>1. phase = "run" /\ at <= Len(shader) /\ Stmt.kind = "if"
  BY DEF If, Running
<1>2. /\ at \in 1 .. Len(shader) /\ Len(shader) \in Nat /\ Together
      /\ DOMAIN shader = 1 .. Len(shader)
      /\ Stmt.last \in Nat /\ at <= Stmt.last /\ Stmt.last <= Len(shader)
      /\ Locals \ divergentVars \subseteq same
  BY <1>1, AtStatement
<1>3. at \notin uniformLoops /\ uniformLoops \subseteq DOMAIN shader
  BY <1>1 DEF IInv, TypeOK, Loops, Stmt
<1>4. /\ at' \in 1 .. Len(shader) + 1
      /\ Enclosing(shader, at') \subseteq Enclosing(shader, at) \cup {at}
  <2>1. CASE at' \in After(at)
    BY <1>2, <2>1, AfterOutside DEF IInv
  <2>2. CASE at' = at + 1
    BY <1>2, <2>2, NextInside DEF IInv
  <2> QED
    BY <2>1, <2>2 DEF If
<1>5. PICK taken \in Outcomes(Active(at), Stmt.reads) :
        chosen' = [chosen EXCEPT ![at] = taken]
  BY DEF If
<1>6. Active(at) \subseteq Lanes /\ taken \subseteq Lanes
  <2>1. Active(at) \subseteq Lanes
    <3>1. shader[at].up = 0 \/ shader[at].up \in DOMAIN shader
      BY <1>2, Shape DEF IInv, TypeOK
    <3> QED
      BY <3>1 DEF Active, IInv, TypeOK
  <2> QED
    BY <1>5, <2>1 DEF Outcomes
<1>7. TypeOK'
  BY <1>2, <1>4, <1>5, <1>6 DEF If, IInv, TypeOK, Loops, scanVars
<1>8. \A n \in uniformLoops :
        /\ inside'[n] \in {{}, Lanes} /\ chosen'[n] = inside'[n]
        /\ n \in looping' \/ n \in Enclosing(shader, at') => inside'[n] = Lanes
  <2>1. \A n \in uniformLoops : inside'[n] = inside[n] /\ chosen'[n] = chosen[n]
    BY <1>3, <1>5 DEF If, IInv, TypeOK
  <2> QED
    BY <1>2, <1>3, <1>4, <2>1 DEF If, Together
<1> QED
  BY <1>1, <1>2, <1>7, <1>8, RunKeeps DEF If

LEMMA LoopKeeps ==
  ASSUME IInv, Loop
  PROVE  IInv'
<1>1. phase = "run" /\ at <= Len(shader) /\ Stmt.kind = "loop"
  BY DEF Loop, Running
<1>2. /\ at \in 1 .. Len(shader) /\ Len(shader) \in Nat /\ Together /\ Settled(at)
      /\ DOMAIN shader = 1 .. Len(shader)
      /\ Stmt.last \in Nat /\ at <= Stmt.last /\ Stmt.last <= Len(shader)
      /\ Locals \ divergentVars \subseteq same
      /\ IsUniformExpr(Stmt.reads) => Stmt.reads \subseteq same
  BY <1>1, AtStatement
<1> DEFINE arriving == IF at \in looping THEN inside[at] ELSE Active(at)
<1>3. PICK staying \in Outcomes(arriving, Stmt.reads) :
        /\ inside' = [inside EXCEPT ![at] = staying]
        /\ chosen' = [chosen EXCEPT ![at] = staying]
        /\ IF staying = {}
           THEN looping' = looping \ {at} /\ at' \in After(at)
           ELSE /\ looping' = looping \cup {at}
                /\ at' = IF Stmt.last = at THEN at ELSE at + 1
  BY DEF Loop
<1> HIDE DEF arriving
<1>4. arriving \subseteq Lanes /\ staying \subseteq Lanes
  <2>1. Active(at) \subseteq Lanes
    <3>1. shader[at].up = 0 \/ shader[at].up \in DOMAIN shader
      BY <1>2, Shape DEF IInv, TypeOK
    <3> QED
      BY <3>1 DEF Active, IInv, TypeOK
  <2>2. arriving \subseteq Lanes
    BY <1>2, <2>1 DEF arriving, IInv, TypeOK
  <2> QED
    BY <1>3, <2>2 DEF Outcomes
<1>5. /\ at' \in 1 .. Len(shader) + 1
      /\ Enclosing(shader, at') \subseteq Enclosing(shader, at) \cup {at}
      /\ staying = {} => at \notin Enclosing(shader, at') /\ at \notin looping'
  <2>1. CASE staying = {}
    <3>1. at \notin Enclosing(shader, at)
      BY <1>2 DEF Enclosing
    <3>2. at' \in After(at) /\ at \notin looping'
      BY <1>3, <2>1
    <3> QED
      BY <1>2, <3>1, <3>2, AfterOutside DEF IInv
  <2>2. CASE staying # {}
    <3>1. at' = at \/ (at' = at + 1 /\ Stmt.last # at)
      BY <1>3, <2>2
    <3> QED
      BY <1>2, <2>2, <3>1, NextInside DEF IInv
  <2> QED
    BY <2>1, <2>2
<1>6. TypeOK'
  <2>1. at \in Loops /\ looping' \subseteq Loops
    BY <1>1, <1>2, <1>3 DEF Loops, Stmt, IInv, TypeOK
  <2>2. /\ inside' \in [DOMAIN shader -> SUBSET Lanes]
        /\ chosen' \in [DOMAIN shader -> SUBSET Lanes]
    BY <1>3, <1>4 DEF IInv, TypeOK
  <2> QED
    BY <1>5, <2>1, <2>2 DEF Loop, IInv, TypeOK, Loops, scanVars
(* A uniform loop is reached by all lanes, and all or none of them go on. *)
<1>7. at \in uniformLoops => staying \in {{}, Lanes}
  <2> SUFFICES ASSUME at \in uniformLoops PROVE staying \in {{}, Lanes}
    OBVIOUS
  <2>1. IsUniformExpr(Stmt.reads) /\ ~DivergentCF(at)
    BY <1>2 DEF Settled, Stmt
  <2>2. arriving = Lanes
    BY <1>1, <1>2, <2>1, AllActive DEF arriving, Together
  <2> QED
    BY <1>2, <1>3, <2>1, <2>2 DEF Outcomes
<1>8. ASSUME NEW n \in uniformLoops
      PROVE  /\ inside'[n] \in {{}, Lanes} /\ chosen'[n] = inside'[n]
             /\ n \in looping' \/ n \in Enclosing(shader, at') => inside'[n] = Lanes
  <2>1. inside \in [DOMAIN shader -> SUBSET Lanes] /\ chosen \in [DOMAIN shader -> SUBSET Lanes]
        /\ at \in DOMAIN shader /\ n \in DOMAIN shader
    BY <1>2 DEF IInv, TypeOK, Loops
  <2>2. CASE n = at
    <3>1. inside'[n] = staying /\ chosen'[n] = staying
      BY <1>3, <2>1, <2>2
    <3> QED
      BY <1>5, <1>7, <2>2, <3>1
  <2>3. CASE n # at
    <3>1. inside'[n] = inside[n] /\ chosen'[n] = chosen[n]
      BY <1>3, <2>1, <2>3
    <3>2. n \in looping' => n \in looping
      BY <1>3, <2>3
    <3> QED
      BY <1>2, <1>5, <2>3, <3>1, <3>2 DEF Together
  <2> QED
    BY <2>2, <2>3
<1> QED
  BY <1>1, <1>2, <1>6, <1>8, RunKeeps DEF Loop

(* The loop of a break or continue is not uniform, and what else the lanes
   leave are ifs. *)
LEMMA ExitKeeps ==
  ASSUME IInv, Exit
  PROVE  IInv'
<1>1. phase = "run" /\ at <= Len(shader) /\ Stmt.kind \in {"break", "continue"}
  BY DEF Exit, Running
<1>2. /\ at \in 1 .. Len(shader) /\ Together /\ DOMAIN shader = 1 .. Len(shader)
      /\ Len(shader) \in Nat /\ Locals \ divergentVars \subseteq same
  BY <1>1, AtStatement
<1> DEFINE out == Active(at)
           left(loop) == {n \in Enclosing(shader, at) : n > loop}
<1>3. PICK loop \in 1 .. at - 1 :
        /\ IsLoopOf(shader, loop, at)
        /\ chosen' = [n \in DOMAIN shader |->
                        IF n \in left(loop) \cup {loop} THEN chosen[n] \ out ELSE chosen[n]]
        /\ inside' = [n \in DOMAIN shader |->
                        IF n \in left(loop) \/ (n = loop /\ Stmt.kind = "break")
                        THEN inside[n] \ out ELSE inside[n]]
  BY DEF Exit
<1> HIDE DEF out
<1>4. /\ at' \in 1 .. Len(shader) + 1
      /\ Enclosing(shader, at') \subseteq Enclosing(shader, at)
  BY <1>2, AfterOutside DEF Exit, IInv
<1>5. TypeOK'
  <2>1. /\ inside' \in [DOMAIN shader -> SUBSET Lanes]
        /\ chosen' \in [DOMAIN shader -> SUBSET Lanes]
    BY <1>3 DEF IInv, TypeOK
  <2> QED
    BY <1>4, <2>1 DEF Exit, IInv, TypeOK, Loops, scanVars
<1>6. ASSUME NEW n \in uniformLoops
      PROVE  n \notin left(loop) /\ n # loop /\ n \in DOMAIN shader
  <2>1. n \in DOMAIN shader /\ shader[n].kind = "loop"
    BY DEF IInv, TypeOK, Loops
  <2>2. ~HasBreakOrContinue(n)
    BY <1>1, <1>2, <2>1 DEF IInv, RunInv, Settled
  <2>3. n # loop
    BY <1>1, <1>2, <1>3, <2>2 DEF HasBreakOrContinue, Stmt
  <2>4. n \notin left(loop)
    BY <1>2, <1>3, <2>1 DEF IsLoopOf
  <2> QED
    BY <2>1, <2>3, <2>4
<1>7. \A n \in uniformLoops : inside'[n] = inside[n] /\ chosen'[n] = chosen[n]
  BY <1>3, <1>6
<1>8. \A n \in uniformLoops :
        /\ inside'[n] \in {{}, Lanes} /\ chosen'[n] = inside'[n]
        /\ n \in looping' \/ n \in Enclosing(shader, at') => inside'[n] = Lanes
  BY <1>2, <1>4, <1>7 DEF Exit, Together
<1> QED
  BY <1>1, <1>2, <1>5, <1>8, RunKeeps DEF Exit

LEMMA NextPacketKeeps ==
  ASSUME IInv, NextPacket
  PROVE  IInv'
<1>1. phase = "run" /\ Together
  BY DEF NextPacket, IInv, RunInv
<1>2. Enclosing(shader, 1) = {}
  BY DEF Enclosing
<1>3. TypeOK'
  <2>1. Len(shader) \in Nat
    BY Shape DEF IInv, TypeOK
  <2> QED
    BY <2>1 DEF NextPacket, IInv, TypeOK, Loops, scanVars
<1> QED
  BY <1>1, <1>2, <1>3, RunKeeps DEF NextPacket, Together

----------------------------------------------------------------------------
LEMMA NextKeeps == IInv /\ [Next]_vars => IInv'
<1> SUFFICES ASSUME IInv, [Next]_vars PROVE IInv'
  OBVIOUS
<1>1. CASE Scan
  BY <1>1, ScanKeeps
<1>2. CASE Assign
  BY <1>2, AssignKeeps
<1>3. CASE If
  BY <1>3, IfKeeps
<1>4. CASE Loop
  BY <1>4, LoopKeeps
<1>5. CASE Exit
  BY <1>5, ExitKeeps
<1>6. CASE NextPacket
  BY <1>6, NextPacketKeeps
<1>7. CASE UNCHANGED vars
  BY <1>7 DEF vars, scanVars, runVars, IInv, TypeOK, ScanInv, RunInv, NotRunYet, Together,
              Settled, IsUniformExpr, DivergentCF, HasBreakOrContinue, IsLoopOf, Loops
<1> QED
  BY <1>1, <1>2, <1>3, <1>4, <1>5, <1>6, <1>7 DEF Next

LEMMA InductiveInvariant == Spec => []IInv
<1> QED
  BY InitIInv, NextKeeps, PTL DEF Spec

(* The analysis and the run it describes are type correct for every shader:
   uniformLoops_ holds loops only and divergentVars_ locals only. *)
THEOREM TypeCorrect == Spec => []TypeOK
<1>1. IInv => TypeOK
  BY DEF IInv
<1> QED
  BY <1>1, InductiveInvariant, PTL

(* A local that analyzeUniformity leaves out of divergentVars_ has one value
   in all lanes whenever the shader runs. *)
THEOREM LocalsUniform == Spec => []UniformLocals
<1>1. IInv => UniformLocals
  BY DEF IInv, RunInv, UniformLocals
<1> QED
  BY <1>1, InductiveInvariant, PTL

(* The lanes leave a loop in uniformLoops_ together: emitUniformLoop may
   branch on the condition of lane 0 and leave mask_ alone. *)
THEOREM LoopsConverge == Spec => []UniformLoopsConverge
<1>1. IInv => UniformLoopsConverge
  BY DEF IInv, RunInv, Together, UniformLoopsConverge
<1> QED
  BY <1>1, InductiveInvariant, PTL

(* The store to a scalar slot in emitStmt needs no blend: no lane is masked
   off where a uniform local is assigned. *)
THEOREM SlotsWrittenByAll == Spec => []ScalarSlotsWrittenByAll
<1>1. IInv => ScalarSlotsWrittenByAll
  <2> SUFFICES ASSUME IInv, Running("assign"), Stmt.var \notin divergentVars
               PROVE  Active(at) = Lanes
    BY DEF ScalarSlotsWrittenByAll
  <2>1. phase = "run" /\ at <= Len(shader) /\ Stmt.kind = "assign"
    BY DEF Running
  <2>2. Settled(at)
    BY <2>1, AtStatement
  <2> QED
    BY <2>1, <2>2, AllActive DEF Settled, Stmt
<1> QED
  BY <1>1, InductiveInvariant, PTL

----------------------------------------------------------------------------
(* The result is the least solution.  The equations ask for all that a loop is
   inside; the scan looks at the statement around only.  They agree because a
   pass looks at what is outside first. *)

(* The conditions on a loop that do not depend on what it is inside. *)
ConvergesUnder(D, n) ==
  /\ shader[n].kind = "loop"
  /\ shader[n].reads \cap (PerLane \cup D) = {}
  /\ ~HasBreakOrContinue(n)

LEMMA EnclosingUp ==
  ASSUME shader \in Shaders, NEW s \in 1 .. Len(shader)
  PROVE  /\ shader[s].up = 0 => Enclosing(shader, s) = {}
         /\ shader[s].up # 0 =>
              /\ shader[s].up \in Enclosing(shader, s)
              /\ shader[s].up \in 1 .. Len(shader) /\ shader[s].up < s
              /\ Enclosing(shader, s) =
                   Enclosing(shader, shader[s].up) \cup {shader[s].up}
<1> DEFINE up == shader[s].up
<1>1. /\ Len(shader) \in Nat /\ DOMAIN shader = 1 .. Len(shader)
      /\ \A q \in 1 .. Len(shader) :
           /\ shader[q].last \in Nat /\ q <= shader[q].last
           /\ \A n \in Enclosing(shader, q) : n \in 1 .. q - 1 /\ shader[q].last <= shader[n].last
  BY Shape
<1>2. ShaderOK(shader)
  BY ShadersAssumption
<1>3. /\ \A n \in Enclosing(shader, s) : n <= up
      /\ up # 0 => up \in Enclosing(shader, s)
  BY <1>1, <1>2 DEF ShaderOK
<1>4. ASSUME up = 0 PROVE Enclosing(shader, s) = {}
  BY <1>1, <1>3, <1>4
<1>5. ASSUME up # 0
      PROVE  /\ up \in 1 .. Len(shader) /\ up < s
             /\ Enclosing(shader, s) = Enclosing(shader, up) \cup {up}
  <2>1. up \in 1 .. s - 1 /\ up \in 1 .. Len(shader) /\ s <= shader[up].last
    BY <1>1, <1>3, <1>5 DEF Enclosing
  <2>2. ASSUME NEW n \in Enclosing(shader, s), n # up PROVE n \in Enclosing(shader, up)
    <3>1. n \in 1 .. s - 1 /\ s <= shader[n].last /\ n <= up /\ n \in 1 .. Len(shader)
      BY <1>1, <1>3, <2>2 DEF Enclosing
    <3>2. n \in 1 .. up - 1 /\ up <= shader[n].last
      BY <1>1, <2>1, <2>2, <3>1
    <3> QED BY <3>2 DEF Enclosing
  <2>3. ASSUME NEW n \in Enclosing(shader, up) PROVE n \in Enclosing(shader, s)
    <3>1. n \in 1 .. up - 1 /\ shader[up].last <= shader[n].last
      BY <1>1, <2>1, <2>3
    <3>2. n \in 1 .. s - 1 /\ s <= shader[n].last
      BY <1>1, <2>1, <3>1
    <3> QED BY <3>2 DEF Enclosing
  <2> QED BY <1>3, <1>5, <2>1, <2>2, <2>3
<1> QED BY <1>3, <1>4, <1>5

LEMMA UnderOutside ==
  ASSUME shader \in Shaders, NEW s \in 1 .. Len(shader), NEW D
  PROVE  Enclosing(shader, s) \subseteq UniformUnder(D)
           <=> shader[s].up = 0 \/ shader[s].up \in UniformUnder(D)
<1>1. CASE shader[s].up = 0
  BY <1>1, EnclosingUp
<1>2. CASE shader[s].up # 0
  <2> DEFINE up == shader[s].up
  <2>1. /\ up \in Enclosing(shader, s) /\ up \in 1 .. Len(shader)
        /\ Enclosing(shader, s) = Enclosing(shader, up) \cup {up}
    BY <1>2, EnclosingUp
  <2>2. ASSUME up \in UniformUnder(D), NEW n \in Enclosing(shader, up)
        PROVE  n \in UniformUnder(D)
    <3>1. n \in 1 .. Len(shader) /\ Enclosing(shader, n) \subseteq Enclosing(shader, up)
      <4>1. /\ Len(shader) \in Nat
            /\ \A q \in 1 .. Len(shader) :
                 /\ shader[q].last \in Nat
                 /\ \A m \in Enclosing(shader, q) : m \in 1 .. q - 1 /\ shader[q].last <= shader[m].last
        BY Shape
      <4>2. n \in 1 .. up - 1 /\ n \in 1 .. Len(shader) /\ up <= shader[n].last
        BY <2>1, <2>2, <4>1 DEF Enclosing
      <4>3. ASSUME NEW m \in Enclosing(shader, n) PROVE m \in Enclosing(shader, up)
        <5>1. m \in 1 .. n - 1 /\ shader[n].last <= shader[m].last
          BY <4>1, <4>2, <4>3
        <5>2. m \in 1 .. up - 1 /\ up <= shader[m].last
          BY <2>1, <4>1, <4>2, <5>1
        <5> QED BY <5>2 DEF Enclosing
      <4> QED BY <4>2, <4>3
    <3>2. DOMAIN shader = 1 .. Len(shader)
      BY Shape
    <3> QED BY <2>2, <3>1, <3>2 DEF UniformUnder, Loops
  <2> QED BY <1>2, <2>1, <2>2
<1> QED BY <1>1, <1>2

LEMMA UnderLoop ==
  ASSUME shader \in Shaders, NEW n \in 1 .. Len(shader), NEW D
  PROVE  n \in UniformUnder(D) <=>
           ConvergesUnder(D, n) /\ (shader[n].up = 0 \/ shader[n].up \in UniformUnder(D))
<1>1. DOMAIN shader = 1 .. Len(shader)
  BY Shape
<1>2. \A e : HasBreakOrContinue(e) <=>
        \E s \in DOMAIN shader : shader[s].kind \in {"break", "continue"} /\ IsLoopOf(shader, e, s)
  BY DEF HasBreakOrContinue
<1>3. n \in UniformUnder(D) <=> n \in Loops /\ \A e \in Enclosing(shader, n) \cup {n} : ConvergesUnder(D, e)
  BY <1>2 DEF UniformUnder, ConvergesUnder
<1>4. n \in UniformUnder(D) => ConvergesUnder(D, n) /\ Enclosing(shader, n) \subseteq UniformUnder(D)
  <2>1. SUFFICES ASSUME n \in UniformUnder(D) PROVE Enclosing(shader, n) \subseteq UniformUnder(D)
    BY <1>3
  <2>2. CASE shader[n].up = 0
    BY <2>2, EnclosingUp
  <2>3. CASE shader[n].up # 0
    <3> DEFINE up == shader[n].up
    <3>1. up \in 1 .. Len(shader) /\ Enclosing(shader, n) = Enclosing(shader, up) \cup {up}
      BY <2>3, EnclosingUp
    <3>2. up \in UniformUnder(D)
      BY <1>1, <1>3, <2>1, <3>1 DEF UniformUnder, Loops
    <3> QED BY <3>2, UnderOutside
  <2> QED BY <2>2, <2>3
<1>5. ConvergesUnder(D, n) /\ Enclosing(shader, n) \subseteq UniformUnder(D) => n \in UniformUnder(D)
  BY <1>1, <1>2, <1>3 DEF UniformUnder, ConvergesUnder, Loops
<1> QED BY <1>4, <1>5, UnderOutside

(* In this pass, or in the last one, the scan has come to statement n. *)
Seen(n) == phase = "run" \/ n < at

(* Nothing is given up that a solution keeps; and what a pass that marks
   nothing takes for uniform satisfies the equations. *)
LeastInv ==
  /\ \A D \in SUBSET Locals : Closed(D) =>
       /\ divergentVars \subseteq D
       /\ \A n \in UniformUnder(D) : Seen(n) => n \in uniformLoops
  /\ ~changed \/ phase = "run" =>
       \A n \in uniformLoops : Seen(n) => n \in UniformUnder(divergentVars)

LEMMA InitLeast == Init => LeastInv
<1> SUFFICES ASSUME Init PROVE LeastInv
  OBVIOUS
<1>1. \A D : UniformUnder(D) \subseteq 1 .. Len(shader) /\ Len(shader) \in Nat
  BY Shape DEF Init, UniformUnder, Loops
<1> QED BY <1>1 DEF Init, LeastInv, Seen

(* What the equations say of a shader does not change. *)
LEMMA EquationsKept ==
  ASSUME UNCHANGED shader, NEW D
  PROVE  UniformUnder(D)' = UniformUnder(D) /\ (Closed(D)' <=> Closed(D))
<1>1. UniformUnder(D)' = UniformUnder(D)
  BY DEF UniformUnder, Loops
<1> QED BY <1>1 DEF Closed

(* The verdict of the scan on the statement it looks at is that of a solution. *)
LEMMA OutsideSeen ==
  ASSUME IInv, LeastInv, phase = "scan", at \in 1 .. Len(shader),
         NEW D \in SUBSET Locals, Closed(D),
         shader[at].up = 0 \/ shader[at].up \in UniformUnder(D)
  PROVE  ~DivergentCF(at)
<1>1. shader[at].up # 0 => shader[at].up < at
  BY EnclosingUp DEF IInv, TypeOK
<1> QED BY <1>1 DEF LeastInv, Seen, DivergentCF

LEMMA MarkLeast ==
  ASSUME IInv, LeastInv, ScanAssign, NEW D \in SUBSET Locals, Closed(D)
  PROVE  divergentVars' \subseteq D
<1>1. /\ phase = "scan" /\ at \in 1 .. Len(shader) /\ shader[at].kind = "assign"
      /\ shader \in Shaders /\ DOMAIN shader = 1 .. Len(shader)
  BY Shape DEF ScanAssign, IInv, TypeOK, Stmt
<1>2. divergentVars \subseteq D
  BY DEF LeastInv
<1>3. CASE shader[at].var \in D
  BY <1>2, <1>3 DEF ScanAssign, Stmt
<1>4. CASE shader[at].var \notin D
  <2>1. shader[at].reads \cap (PerLane \cup D) = {} /\ Enclosing(shader, at) \subseteq UniformUnder(D)
    BY <1>1, <1>4 DEF Closed
  <2>2. ~DivergentCF(at)
    BY <1>1, <2>1, UnderOutside, OutsideSeen
  <2>3. IsUniformExpr(shader[at].reads)
    BY <1>2, <2>1 DEF IsUniformExpr
  <2> QED BY <1>2, <2>2, <2>3 DEF ScanAssign, Stmt
<1> QED BY <1>3, <1>4

LEMMA ScanLeast ==
  ASSUME IInv, LeastInv, ScanAssign \/ ScanLoop \/ ScanOther
  PROVE  LeastInv'
<1>1. /\ phase = "scan" /\ phase' = "scan" /\ at \in 1 .. Len(shader) /\ at' = at + 1
      /\ shader' = shader /\ shader \in Shaders /\ DOMAIN shader = 1 .. Len(shader)
  BY Shape DEF ScanAssign, ScanLoop, ScanOther, IInv, TypeOK
<1>2. \A n \in 1 .. Len(shader) : n # at => (n \in uniformLoops' <=> n \in uniformLoops)
  BY DEF ScanAssign, ScanLoop, ScanOther, scanVars
<1>3. \A n \in 1 .. Len(shader) : Seen(n)' <=> Seen(n) \/ n = at
  BY <1>1 DEF Seen
<1>4. at \in uniformLoops' <=>
        ~DivergentCF(at) /\ ConvergesUnder(divergentVars, at)
  <2>1. CASE ScanLoop
    BY <1>1, <2>1 DEF ScanLoop, Stmt, ConvergesUnder, IsUniformExpr
  <2>2. CASE ScanAssign \/ ScanOther
    <3>1. shader[at].kind # "loop" /\ uniformLoops' = uniformLoops
      BY <2>2 DEF ScanAssign, ScanOther, Stmt, scanVars
    <3>2. at \notin uniformLoops
      BY <3>1 DEF IInv, TypeOK, Loops
    <3> QED BY <3>1, <3>2 DEF ConvergesUnder
  <2> QED BY <2>1, <2>2
<1>5. ASSUME NEW D \in SUBSET Locals, Closed(D)'
      PROVE  /\ divergentVars' \subseteq D
             /\ \A n \in UniformUnder(D)' : Seen(n)' => n \in uniformLoops'
  <2>1. Closed(D) /\ UniformUnder(D)' = UniformUnder(D)
    BY <1>1, <1>5, EquationsKept
  <2>2. divergentVars' \subseteq D
    <3>1. CASE ScanAssign
      BY <2>1, <3>1, MarkLeast
    <3>2. CASE ScanLoop \/ ScanOther
      BY <2>1, <3>2 DEF LeastInv, ScanLoop, ScanOther, scanVars
    <3> QED BY <3>1, <3>2
  <2>3. ASSUME NEW n \in UniformUnder(D), Seen(n)' PROVE n \in uniformLoops'
    <3>1. n \in 1 .. Len(shader)
      BY <1>1 DEF UniformUnder, Loops
    <3>2. CASE n # at
      BY <1>2, <1>3, <2>1, <2>3, <3>1, <3>2 DEF LeastInv
    <3>3. CASE n = at
      <4>1. ConvergesUnder(D, at) /\ (shader[at].up = 0 \/ shader[at].up \in UniformUnder(D))
        BY <1>1, <2>3, <3>3, UnderLoop
      <4>2. ~DivergentCF(at)
        BY <1>1, <2>1, <4>1, OutsideSeen
      <4>3. ConvergesUnder(divergentVars, at)
        BY <2>1, <4>1 DEF ConvergesUnder, LeastInv
      <4> QED BY <1>4, <3>3, <4>2, <4>3
    <3> QED BY <3>2, <3>3
  <2> QED BY <2>1, <2>2, <2>3
<1>6. ASSUME ~changed', NEW n \in uniformLoops', Seen(n)'
      PROVE  n \in UniformUnder(divergentVars)'
  <2>1. divergentVars' = divergentVars /\ ~changed
    <3>1. CASE ScanAssign
      BY <1>6, <3>1 DEF ScanAssign, IInv, TypeOK
    <3>2. CASE ScanLoop \/ ScanOther
      BY <1>6, <3>2 DEF ScanLoop, ScanOther, scanVars
    <3> QED BY <3>1, <3>2
  <2>2. PICK D : D = divergentVars
    OBVIOUS
  <2>3. UniformUnder(divergentVars)' = UniformUnder(D)
    <3>1. UniformUnder(D)' = UniformUnder(D)
      BY <1>1, EquationsKept
    <3>2. UniformUnder(divergentVars)' = UniformUnder(D)'
      BY <2>1, <2>2 DEF UniformUnder
    <3> QED BY <3>1, <3>2
  <2>4. n \in 1 .. Len(shader)
    <3>1. uniformLoops \subseteq 1 .. Len(shader)
      BY <1>1 DEF IInv, TypeOK, Loops
    <3> QED BY <1>1, <1>6, <3>1 DEF ScanAssign, ScanLoop, ScanOther, scanVars
  <2>5. CASE n # at
    BY <1>2, <1>3, <1>6, <2>1, <2>2, <2>3, <2>4, <2>5 DEF LeastInv
  <2>6. CASE n = at
    <3>1. ~DivergentCF(at) /\ ConvergesUnder(D, at)
      BY <1>4, <1>6, <2>2, <2>6
    <3>2. shader[at].up # 0 => shader[at].up < at
      BY <1>1, EnclosingUp
    <3>3. shader[at].up = 0 \/ shader[at].up \in UniformUnder(D)
      BY <2>1, <2>2, <3>1, <3>2 DEF DivergentCF, LeastInv, Seen
    <3> QED BY <1>1, <2>3, <2>6, <3>1, <3>3, UnderLoop
  <2> QED BY <2>5, <2>6
<1> QED BY <1>1, <1>5, <1>6 DEF LeastInv

LEMMA EndScanLeast ==
  ASSUME IInv, LeastInv, EndScan
  PROVE  LeastInv'
<1>1. /\ UNCHANGED <<shader, divergentVars, uniformLoops>> /\ at > Len(shader) /\ at' = 1
      /\ changed = FALSE \/ phase' = "scan"
  BY DEF EndScan, IInv, TypeOK
<1>2. Len(shader) \in Nat /\ DOMAIN shader = 1 .. Len(shader) /\ at \in Nat
  BY Shape DEF IInv, TypeOK
<1>3. \A n \in 1 .. Len(shader) : Seen(n) /\ (Seen(n)' => ~changed)
  BY <1>1, <1>2 DEF Seen
<1>4. PICK D : D = divergentVars
  OBVIOUS
<1>5. UniformUnder(divergentVars)' = UniformUnder(divergentVars)
  BY <1>1 DEF UniformUnder, Loops
<1>6. uniformLoops \subseteq 1 .. Len(shader) /\ \A E : UniformUnder(E) \subseteq 1 .. Len(shader)
  BY <1>2 DEF IInv, TypeOK, Loops, UniformUnder
<1>7. ASSUME NEW E \in SUBSET Locals, Closed(E)'
      PROVE  /\ divergentVars' \subseteq E
             /\ \A n \in UniformUnder(E)' : Seen(n)' => n \in uniformLoops'
  <2>1. Closed(E) /\ UniformUnder(E)' = UniformUnder(E)
    BY <1>1, <1>7, EquationsKept
  <2> QED BY <1>1, <1>3, <1>6, <2>1 DEF LeastInv
<1>8. \A n \in uniformLoops' : Seen(n)' => n \in UniformUnder(divergentVars)'
  BY <1>1, <1>3, <1>5, <1>6 DEF LeastInv
<1> QED BY <1>7, <1>8 DEF LeastInv

LEMMA NextLeast == IInv /\ LeastInv /\ [Next]_vars => LeastInv'
<1> SUFFICES ASSUME IInv, LeastInv, [Next]_vars PROVE LeastInv'
  OBVIOUS
<1>1. CASE ScanAssign \/ ScanLoop \/ ScanOther
  BY <1>1, ScanLeast
<1>2. CASE EndScan
  BY <1>2, EndScanLeast
<1>3. CASE Run \/ UNCHANGED vars
  <2>1. UNCHANGED <<shader, scanVars, phase>> /\ (phase = "run" \/ UNCHANGED at)
    BY <1>3 DEF Run, Assign, If, Loop, Exit, NextPacket, Running, vars
  <2>2. \A n : Seen(n)' <=> Seen(n)
    BY <2>1 DEF Seen
  <2>3. UniformUnder(divergentVars)' = UniformUnder(divergentVars)
    BY <2>1 DEF UniformUnder, Loops, scanVars
  <2>4. \A E : UniformUnder(E)' = UniformUnder(E) /\ (Closed(E)' <=> Closed(E))
    BY <2>1, EquationsKept
  <2> QED BY <2>1, <2>2, <2>3, <2>4 DEF LeastInv, scanVars
<1> QED BY <1>1, <1>2, <1>3 DEF Next, Scan, Run

(* What the analysis settles on satisfies the data-flow equations, and no set
   of locals that satisfies them is smaller: the order in which
   analyzeUniformity finds locals and gives loops up does not matter. *)
THEOREM LeastFound == Spec => []LeastSolution
<1>1. IInv /\ LeastInv => LeastSolution
  <2> SUFFICES ASSUME IInv, LeastInv, phase = "run" PROVE LeastSolution
    BY DEF LeastSolution
  <2>1. /\ shader \in Shaders /\ DOMAIN shader = 1 .. Len(shader) /\ divergentVars \in SUBSET Locals
        /\ \A s \in 1 .. Len(shader) : Settled(s)
    BY Shape DEF IInv, TypeOK, RunInv
  <2>2. uniformLoops \subseteq UniformUnder(divergentVars)
    BY DEF LeastInv, Seen
  <2>3. Closed(divergentVars)
    <3> SUFFICES ASSUME NEW s \in DOMAIN shader, shader[s].kind = "assign", shader[s].var \notin divergentVars
                 PROVE  /\ shader[s].reads \cap (PerLane \cup divergentVars) = {}
                        /\ Enclosing(shader, s) \subseteq UniformUnder(divergentVars)
      BY DEF Closed
    <3>1. IsUniformExpr(shader[s].reads) /\ ~DivergentCF(s)
      BY <2>1 DEF Settled
    <3>2. shader[s].up = 0 \/ shader[s].up \in UniformUnder(divergentVars)
      BY <2>2, <3>1 DEF DivergentCF
    <3> QED BY <2>1, <3>1, <3>2, UnderOutside DEF IsUniformExpr
  <2>4. UniformUnder(divergentVars) \subseteq uniformLoops
    BY <2>1, <2>3 DEF LeastInv, Seen
  <2> QED BY <2>2, <2>3, <2>4 DEF LeastSolution, LeastInv
<1>2. Spec => []LeastInv
  BY InitLeast, NextLeast, InductiveInvariant, PTL DEF Spec
<1> QED BY <1>1, <1>2, InductiveInvariant, PTL
=============================================================================
