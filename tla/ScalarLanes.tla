---------------------------- MODULE ScalarLanes ----------------------------
(***************************************************************************)
(* What the packetizer promises: every lane of a packet runs the shader    *)
(* the way the scalar code generator makes one invocation run it.          *)
(*                                                                         *)
(* The program is structured, so a lane's position is given by the         *)
(* scopes that are open around the current statement: an arm of an `if`,   *)
(* a loop, one iteration (body) of a loop.  `within[l]` is the set of the  *)
(* open scopes lane l is inside.  A lane executes the current statement    *)
(* when it is inside all of them; a lane outside one waits at the point    *)
(* where the scalar code has branched to: merge block, latch or exit.      *)
(***************************************************************************)
EXTENDS Integers, Sequences

CONSTANT Lanes        \* the invocations that one packet carries

VARIABLES
  scopes,             \* the open scopes, outermost first
  within,             \* [Lanes -> set of the scopes the lane is inside]
  gone,               \* lanes that have executed `discard`
  stmt                \* what the program did last

scalarVars == <<scopes, within, gone, stmt>>

(* A scope: its kind and, for an arm, the lanes its condition holds for.
   kind is one of "then", "else", "loop", "body". *)
Scope(kind, taken) == [kind |-> kind, taken |-> taken]

(* The lanes that execute the current statement. *)
Running == {l \in Lanes \ gone : within[l] = 1 .. Len(scopes)}

(* Statements stand in a function, arm or body: in a loop scope that has no
   open body only the condition and the increment are evaluated. *)
AtStatement == scopes = <<>> \/ scopes[Len(scopes)].kind # "loop"

(* The scope that BreakStack.back() and ContinueStack.back() belong to. *)
InLoop == \E k \in DOMAIN scopes : scopes[k].kind = "loop"
InnermostLoop == CHOOSE k \in DOMAIN scopes :
                   /\ scopes[k].kind = "loop"
                   /\ \A j \in DOMAIN scopes : scopes[j].kind = "loop" => j <= k

Open(scope, entering) ==
  /\ scopes' = Append(scopes, scope)
  /\ within' = [l \in Lanes |-> IF l \in entering
                                THEN within[l] \cup {Len(scopes) + 1}
                                ELSE within[l]]

Close ==
  /\ scopes' = SubSeq(scopes, 1, Len(scopes) - 1)
  /\ within' = [l \in Lanes |-> within[l] \ {Len(scopes)}]

Init ==
  /\ scopes = <<>>
  /\ within = [l \in Lanes |-> {}]
  /\ gone = {}
  /\ stmt = "start"

(* CondBr(cond, then, else): the lanes of `taken` branch to "then". *)
BranchThen(taken) ==
  /\ AtStatement
  /\ Open(Scope("then", taken), Running \cap taken)
  /\ UNCHANGED gone
  /\ stmt' = "if"

(* The lanes that took "then" have branched to the merge block; those that
   had branched to "else" run it now. *)
BranchElse ==
  /\ scopes # <<>> /\ scopes[Len(scopes)].kind = "then"
  /\ LET n == Len(scopes) IN
       /\ scopes' = [scopes EXCEPT ![n].kind = "else"]
       /\ within' = [l \in Lanes |->
                       IF l \notin gone /\ within[l] = 1 .. (n - 1)
                       THEN within[l] \cup {n} ELSE within[l] \ {n}]
  /\ UNCHANGED gone
  /\ stmt' = "else"

MergeArms ==
  /\ scopes # <<>> /\ scopes[Len(scopes)].kind \in {"then", "else"}
  /\ Close
  /\ UNCHANGED gone
  /\ stmt' = "endif"

EnterLoop ==
  /\ AtStatement
  /\ Open(Scope("loop", {}), Running)
  /\ UNCHANGED gone
  /\ stmt' = "loop"

(* Loop header: the lanes of `again` branch to the body, the other ones that
   are still in the loop to its exit.  A packet keeps iterating for lanes
   that are gone, so `again` may hold no running lane. *)
Iterate(again) ==
  /\ scopes # <<>> /\ scopes[Len(scopes)].kind = "loop"
  /\ LET n    == Len(scopes)
         stay == Running \cap again
     IN  /\ scopes' = Append(scopes, Scope("body", {}))
         /\ within' = [l \in Lanes |-> IF l \in stay THEN within[l] \cup {n + 1}
                                                     ELSE within[l] \ {n}]
  /\ UNCHANGED gone
  /\ stmt' = "body"

(* No lane wants another iteration: all of them meet at the exit block. *)
ExitLoop ==
  /\ scopes # <<>> /\ scopes[Len(scopes)].kind = "loop"
  /\ Close
  /\ UNCHANGED gone
  /\ stmt' = "exit"

(* End of the body: the latch, which `continue` branches to as well. *)
Latch ==
  /\ scopes # <<>> /\ scopes[Len(scopes)].kind = "body"
  /\ Close
  /\ UNCHANGED gone
  /\ stmt' = "endbody"

BreakStmt ==
  /\ InLoop /\ AtStatement
  /\ within' = [l \in Lanes |-> IF l \in Running
                                THEN 1 .. (InnermostLoop - 1) ELSE within[l]]
  /\ UNCHANGED <<scopes, gone>>
  /\ stmt' = "break"

ContinueStmt ==
  /\ InLoop /\ AtStatement
  /\ within' = [l \in Lanes |-> IF l \in Running
                                THEN 1 .. InnermostLoop ELSE within[l]]
  /\ UNCHANGED <<scopes, gone>>
  /\ stmt' = "continue"

(* The call that drops the fragment does not return. *)
DiscardStmt ==
  /\ AtStatement
  /\ gone' = gone \cup Running
  /\ within' = [l \in Lanes |-> IF l \in Running THEN {} ELSE within[l]]
  /\ UNCHANGED scopes
  /\ stmt' = "discard"

Next ==
  \/ \E c \in SUBSET Lanes : BranchThen(c) \/ Iterate(c)
  \/ BranchElse \/ MergeArms
  \/ EnterLoop \/ ExitLoop \/ Latch
  \/ BreakStmt \/ ContinueStmt \/ DiscardStmt

Spec == Init /\ [][Next]_scalarVars
============================================================================
