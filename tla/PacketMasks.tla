---------------------------- MODULE PacketMasks ----------------------------
(***************************************************************************)
(* Execution masks of the SPMD packetizer (emit_fs_packet.h).              *)
(*                                                                         *)
(* PacketEmitter turns a shader's statements into straight vector code in  *)
(* which a store is select(effMask(), new, old).  This module executes the *)
(* emitted code: a state is a point of the emitted function together with  *)
(* the run-time value of every mask the emitter refers to there.  Which    *)
(* values those are (mask_, la_, em_) is fixed by the C++ recursion of     *)
(* emitStmt, so the recursion is kept as a stack of frames, one per open   *)
(* `if` arm, loop and loop iteration.  The program is not fixed: at every  *)
(* statement any statement may come next, and every condition takes any    *)
(* value on any lane.                                                      *)
(*                                                                         *)
(* A discard inside a loop is left out: live_ is an SSA value, so one that *)
(* is redefined in a loop body does not dominate the exit and the module   *)
(* is rejected by the verifier before it can run.                          *)
(***************************************************************************)
EXTENDS Integers, Sequences

CONSTANTS
  Lanes,               \* the kW lanes of a packet
  MaxDepth,            \* bound: open frames (nesting depth of the program)
  ExitsBeforeLoop      \* may a lane have left the enclosing iteration (break,
                       \* continue) when a nested masked loop is entered?

ASSUME LanesAssumption == Lanes # {}
ASSUME MaxDepthAssumption == MaxDepth \in Nat
ASSUME ExitsAssumption == ExitsBeforeLoop \in BOOLEAN

VARIABLES
  mask,                \* mask_, the structural mask
  em,                  \* em_: the body frame whose act it is, 0 when null
  frames,              \* emitStmt's recursion, outermost first
  live,                \* live_
  stmt                 \* the statement whose code was passed last

vars == <<mask, em, frames, live, stmt>>

Statements == {"start", "if", "else", "endif", "loop", "body", "endbody", "exit",
               "break", "continue", "discard"}
Kinds == {"then", "else", "loop", "body", "uloop", "ubody"}

(* saved: mask_ to restore (arm, loop); "body.base" (body)
   cond : condMask of an `if`
   act  : mask of an arm; content of `la` (loop) and of `em` (body)
   em   : em_ when the frame was opened (savedEm of a loop)
   idle : no lane was executing when the arm was entered *)
Frame == [kind : Kinds, saved : SUBSET Lanes, cond : SUBSET Lanes,
          act : SUBSET Lanes, em : Nat, idle : BOOLEAN]

Top == frames[Len(frames)]
Pop == SubSeq(frames, 1, Len(frames) - 1)
TopIs(kinds) == frames # <<>> /\ Top.kind \in kinds
Room(n) == Len(frames) + n <= MaxDepth

(* Mutant of EffOf: em_ is not consulted. *)
EffOfStructural(fs, m, e) == m

(* effMask() under structural mask m: em_ is read only if it is not null. *)
EffOf(fs, m, e) == IF e = 0 THEN m ELSE m \cap fs[e].act
Eff == EffOf(frames, mask, em)

(* In a loop frame only the condition and the increment are evaluated. *)
AtStatement == ~TopIs({"loop", "uloop"})

TypeOK ==
  /\ mask \in SUBSET Lanes
  /\ live \in SUBSET Lanes
  /\ frames \in Seq(Frame)
  /\ em \in 0 .. Len(frames)
  /\ stmt \in Statements

Init ==
  /\ mask = Lanes
  /\ em = 0
  /\ frames = <<>>
  /\ live = Lanes
  /\ stmt = "start"

----------------------------------------------------------------------------
(* `if`: the arm runs under saved & cond, the other arm under saved & ~cond. *)

(* The or-reduce on which emitMaskedArm branches over an arm worth it. *)
NoLaneWants(arm) == EffOf(frames, arm, em) = {}

IfThen(c) ==
  /\ AtStatement /\ Room(1)
  /\ frames' = Append(frames,
       [kind |-> "then", saved |-> mask, cond |-> c, act |-> mask \cap c,
        em |-> em, idle |-> NoLaneWants(mask \cap c)])
  /\ mask' = mask \cap c
  /\ UNCHANGED <<em, live>>
  /\ stmt' = "if"

(* Mutant of IfElse: the else mask is not cut by the enclosing one. *)
IfElseUnmasked ==
  /\ TopIs({"then"})
  /\ LET arm == Lanes \ Top.cond IN
       /\ frames' = [frames EXCEPT ![Len(frames)] =
                       [@ EXCEPT !.kind = "else", !.act = arm,
                                 !.idle = NoLaneWants(arm)]]
       /\ mask' = arm
  /\ UNCHANGED <<em, live>>
  /\ stmt' = "else"

IfElse ==
  /\ TopIs({"then"})
  /\ LET arm == Top.saved \ Top.cond IN
       /\ frames' = [frames EXCEPT ![Len(frames)] =
                       [@ EXCEPT !.kind = "else", !.act = arm,
                                 !.idle = NoLaneWants(arm)]]
       /\ mask' = arm
  /\ UNCHANGED <<em, live>>
  /\ stmt' = "else"

(* End of an arm.  Jumping over an arm that no lane wants (emitMaskedArm) is
   the same step taken at once: IdleArmStaysIdle is what makes it sound. *)
EndIf ==
  /\ TopIs({"then", "else"})
  /\ frames' = Pop
  /\ mask' = Top.saved
  /\ UNCHANGED <<em, live>>
  /\ stmt' = "endif"

----------------------------------------------------------------------------
(* Masked loops. *)

EnterLoop ==
  /\ AtStatement /\ Room(2)
  /\ ExitsBeforeLoop \/ Eff = mask
  /\ frames' = Append(frames,
       [kind |-> "loop", saved |-> mask, cond |-> {}, act |-> mask,
        em |-> em, idle |-> FALSE])
  /\ em' = 0
  /\ UNCHANGED <<mask, live>>
  /\ stmt' = "loop"

(* Header: na = active & cond is stored to `la`; the body starts with `em`
   and mask_ loaded from it. *)
StartBody(c) ==
  /\ TopIs({"loop"})
  /\ LET na == Top.act \cap c IN
       /\ na # {}
       /\ frames' = Append([frames EXCEPT ![Len(frames)].act = na],
            [kind |-> "body", saved |-> na, cond |-> {}, act |-> na,
             em |-> em, idle |-> FALSE])
       /\ mask' = na
  /\ em' = Len(frames) + 1
  /\ UNCHANGED live
  /\ stmt' = "body"

(* Mutant of ExitLoop: mask_ is not restored. *)
ExitLoopKeepsMask(c) ==
  /\ TopIs({"loop"})
  /\ Top.act \cap c = {}
  /\ frames' = Pop
  /\ em' = Top.em
  /\ UNCHANGED <<mask, live>>
  /\ stmt' = "exit"

(* Header with no lane left: to the exit block, where the enclosing mask_,
   la_ and em_ are the current ones again. *)
ExitLoop(c) ==
  /\ TopIs({"loop"})
  /\ Top.act \cap c = {}
  /\ frames' = Pop
  /\ mask' = Top.saved
  /\ em' = Top.em
  /\ UNCHANGED live
  /\ stmt' = "exit"

(* Mutant of EndBody: em_ is not nulled for the increment and the header. *)
EndBodyKeepsEm ==
  /\ TopIs({"body"})
  /\ frames' = Pop
  /\ mask' = frames[Len(frames) - 1].act
  /\ UNCHANGED <<em, live>>
  /\ stmt' = "endbody"

(* End of the body: the increment runs with em_ null and mask_ loaded from
   `la`, and so does the header after it. *)
EndBody ==
  /\ TopIs({"body"})
  /\ frames' = Pop
  /\ mask' = frames[Len(frames) - 1].act
  /\ em' = 0
  /\ UNCHANGED live
  /\ stmt' = "endbody"

BreakStmt ==
  /\ AtStatement /\ em # 0
  /\ frames' = [frames EXCEPT ![em].act = @ \ Eff, ![em - 1].act = @ \ Eff]
  /\ UNCHANGED <<mask, em, live>>
  /\ stmt' = "break"

(* Mutant of ContinueStmt: the lane leaves the loop, not the iteration. *)
ContinueLeavesLoop ==
  /\ AtStatement /\ em # 0
  /\ frames' = [frames EXCEPT ![em].act = @ \ Eff, ![em - 1].act = @ \ Eff]
  /\ UNCHANGED <<mask, em, live>>
  /\ stmt' = "continue"

ContinueStmt ==
  /\ AtStatement /\ em # 0
  /\ frames' = [frames EXCEPT ![em].act = @ \ Eff]
  /\ UNCHANGED <<mask, em, live>>
  /\ stmt' = "continue"

DiscardStmt ==
  /\ AtStatement
  /\ \A k \in DOMAIN frames : frames[k].kind \in {"then", "else"}
  /\ live' = live \ Eff
  /\ UNCHANGED <<mask, em, frames>>
  /\ stmt' = "discard"

----------------------------------------------------------------------------
(* Loops that the divergence analysis proved to have one trip count for all
   lanes.  It only accepts a loop that no `if` and no masked loop encloses;
   the branch takes lane 0's condition, which is every lane's. *)

EnterUniformLoop ==
  /\ AtStatement /\ Room(2)
  /\ \A k \in DOMAIN frames : frames[k].kind \in {"uloop", "ubody"}
  /\ frames' = Append(frames,
       [kind |-> "uloop", saved |-> mask, cond |-> {}, act |-> mask,
        em |-> em, idle |-> FALSE])
  /\ UNCHANGED <<mask, em, live>>
  /\ stmt' = "loop"

StartUniformBody ==
  /\ TopIs({"uloop"})
  /\ frames' = Append(frames, [Top EXCEPT !.kind = "ubody"])
  /\ UNCHANGED <<mask, em, live>>
  /\ stmt' = "body"

EndUniformBody ==
  /\ TopIs({"ubody"})
  /\ frames' = Pop
  /\ UNCHANGED <<mask, em, live>>
  /\ stmt' = "endbody"

ExitUniformLoop ==
  /\ TopIs({"uloop"})
  /\ frames' = Pop
  /\ UNCHANGED <<mask, em, live>>
  /\ stmt' = "exit"

----------------------------------------------------------------------------
Next ==
  \/ \E c \in SUBSET Lanes : IfThen(c) \/ StartBody(c) \/ ExitLoop(c)
  \/ IfElse \/ EndIf
  \/ EnterLoop \/ EndBody \/ BreakStmt \/ ContinueStmt \/ DiscardStmt
  \/ EnterUniformLoop \/ StartUniformBody \/ EndUniformBody \/ ExitUniformLoop

Spec == Init /\ [][Next]_vars

----------------------------------------------------------------------------
(* The masks that frame k of a stack fs stands for: mask_ and em_ while it is
   the top frame, and the lanes inside it, which are those of its mask that
   have not left the iteration it stands in. *)
Arms == {"then", "else"}

MaskAt(fs, k) ==
  IF k = 0 THEN Lanes
  ELSE IF fs[k].kind = "body" THEN fs[k].saved ELSE fs[k].act

PtrAt(fs, k) ==
  IF k = 0 \/ fs[k].kind = "loop" THEN 0
  ELSE IF fs[k].kind = "body" THEN k ELSE fs[k].em

Inside(fs, k) ==
  IF fs[k].kind \in Arms THEN EffOf(fs, fs[k].act, fs[k].em) ELSE fs[k].act

(* No lane executes anything inside an iteration that it has left by break
   or continue, at any nesting depth ("bit-identical to the scalar path",
   ARCHITECTURE.md, of the packet dispatch). *)
ExitedLanesIdle ==
  \A k \in DOMAIN frames :
    frames[k].kind = "body" => Eff \subseteq frames[k].act

(* "An all-false mask here stays all-false throughout the arm": from the
   entry of an arm that no lane wants to its end nothing executes on any
   lane, which is why emitMaskedArm may jump over it. *)
IdleArmStaysIdle ==
  \A k \in DOMAIN frames : frames[k].idle => Eff = {}

----------------------------------------------------------------------------
(* Inductive strengthening of the three invariants above. *)

(* A frame restores what its encloser had, a mask is a part of the one it was
   derived from, and an iteration stands right inside its loop. *)
Linked(fs) ==
  \A k \in DOMAIN fs :
    /\ fs[k].act \subseteq fs[k].saved
    /\ fs[k].kind \in {"uloop", "ubody"} => fs[k].act = fs[k].saved
    /\ fs[k].em = PtrAt(fs, k - 1)
    /\ IF fs[k].kind = "body"
       THEN k > 1 /\ fs[k - 1].kind = "loop"
       ELSE fs[k].saved = MaskAt(fs, k - 1)

(* em_ names the innermost iteration: above it stand only arms, opened
   under that very em_. *)
PointersInnermost(fs) ==
  \A k \in DOMAIN fs :
    LET e == PtrAt(fs, k) IN
      e # 0 => /\ e \in 1 .. k
               /\ fs[e].kind = "body"
               /\ \A i \in (e + 1) .. k : fs[i].kind \in Arms /\ fs[i].em = e

IdleEmpty(fs) ==
  \A k \in DOMAIN fs :
    fs[k].idle => fs[k].kind \in Arms /\ Inside(fs, k) = {}

(* Scoping of masks: whoever is inside a frame is inside every frame that
   encloses it.  break, continue, the else mask and the loop entry each
   change one level only, and no store anywhere re-establishes the nesting. *)
Nested(fs) ==
  \A j, k \in DOMAIN fs : j <= k => Inside(fs, k) \subseteq Inside(fs, j)

WellFormed(fs) ==
  Linked(fs) /\ PointersInnermost(fs) /\ IdleEmpty(fs) /\ Nested(fs)

(* The masks the emitter holds are those its frames stand for. *)
MaskInv ==
  /\ mask = MaskAt(frames, Len(frames))
  /\ em = PtrAt(frames, Len(frames))
  /\ WellFormed(frames)

----------------------------------------------------------------------------
(* The abstract state: which open scopes each lane is inside. *)
ScopeOf(kind) ==
  CASE kind = "uloop" -> "loop"
    [] kind = "ubody" -> "body"
    [] OTHER -> kind

AbsScopes == [k \in 1 .. Len(frames) |->
                [kind |-> ScopeOf(frames[k].kind), taken |-> frames[k].cond]]
AbsWithin == [l \in Lanes |->
                {k \in DOMAIN frames : l \in live \cap Inside(frames, k)}]

Scalar == INSTANCE ScalarLanes
            WITH scopes <- AbsScopes, within <- AbsWithin, gone <- Lanes \ live

(* The masked code runs every live lane exactly through the statements that
   the scalar code of that lane runs, in the same order. *)
ImplementsScalar == Scalar!Spec
============================================================================
