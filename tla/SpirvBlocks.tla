---------------------------- MODULE SpirvBlocks ----------------------------
(***************************************************************************)
(* From basic blocks to structured SPIR-V (emit_spirv_from_ir.h): each     *)
(* conditional branch is found its merge block by the names of the blocks  *)
(* around it, and the blocks are written in reverse postorder.             *)
(*                                                                         *)
(* The function comes from Blocks, with the names codegen gives them, and  *)
(* is run there after it was written.                                      *)
(***************************************************************************)
EXTENDS Blocks

\* merges: selectionMerge, loopMerge and loopContinue, functions from header to block.
\* path, post: the active calls of the depth-first search, and the blocks it has returned from.
\* words: the blocks written, [label, merge, code]; merge is <<>> without an instruction.

-----------------------------------------------------------------------------
(* The graph of the blocks. *)

Targets(b) == IF Last(blocks[b].code).op \in {"br", "condbr"} THEN Last(blocks[b].code).arg ELSE <<>>
Forks(b) == Last(blocks[b].code).op = "condbr"
Preds(b) == {p \in DOMAIN blocks : b \in Range(Targets(p))}
Named(b, names) == blocks[b].name \in names

\* The blocks reached from the entry without passing through b, in as many rounds as there
\* are blocks.
ReachedWithout(b) ==
  FoldLeft(LAMBDA seen, i : seen \cup ((UNION {Range(Targets(x)) : x \in seen}) \ {b}), {1}, blocks)
\* As LLVM has it: what is out of reach is dominated by anything.
Dominates(a, b) == a = b \/ a = 1 \/ b \notin ReachedWithout(a)

-----------------------------------------------------------------------------
(* analyzeCFG. *)

LoopHeaders == {b \in DOMAIN blocks : Named(b, {"for.cond", "while.cond"}) /\ Forks(b)}
Selections == {b \in DOMAIN blocks : ~Named(b, {"for.cond", "while.cond"}) /\ Forks(b)}
IsMerge(b) == Named(b, {"ifend", "logical.merge", "ternary.merge"})

LoopEnds(h) == {b \in Range(Targets(h)) : Named(b, {"for.end", "while.end"})}
Latches(h) == {p \in Preds(h) \ {h} : Dominates(h, p)}

\* Mutant of Joins: a fork whose arms both lie inside is not looked for through its arms.
JoinsBeside(h) == <<Targets(h)[2], Targets(h)[1]>>

\* Where h may merge, in the order in which candidates are tried.
Joins(h) ==
  LET t == Targets(h)[1]
      f == Targets(h)[2]
  IN  <<f, t>> \o Targets(t) \o Targets(f)
FirstJoin(h) ==
  CHOOSE i \in DOMAIN Joins(h) : IsMerge(Joins(h)[i]) /\ \A j \in 1 .. i - 1 : ~IsMerge(Joins(h)[j])

Merges ==
  [selection |-> [h \in {s \in Selections : \E b \in Range(Joins(s)) : IsMerge(b)} |->
                   Joins(h)[FirstJoin(h)]],
   loop |-> [h \in {l \in LoopHeaders : LoopEnds(l) # {}} |-> CHOOSE b \in LoopEnds(h) : TRUE],
   continue |-> [h \in {l \in LoopHeaders : Latches(l) # {}} |-> CHOOSE b \in Latches(h) : TRUE]]

AnalyzeCFG ==
  /\ phase = "emitted"
  /\ merges' = Merges
  /\ phase' = "analyzed"
  /\ UNCHANGED <<fn, genVars, cfgVars, refVars, path, post, words>>

-----------------------------------------------------------------------------
(* emitFunction and emitTerminator. *)

\* dfs has been called for the blocks on its path and for those it has returned from.
Visited == Range(path) \cup Range(post)

\* dfs calls itself for the first successor it has not been called for, ...
Descend ==
  /\ phase = "analyzed" /\ path # <<>>
  /\ LET ahead == Targets(Last(path))
     IN  \E i \in DOMAIN ahead :
           /\ ahead[i] \notin Visited /\ \A j \in 1 .. i - 1 : ahead[j] \in Visited
           /\ path' = Append(path, ahead[i])
  /\ UNCHANGED <<fn, phase, genVars, cfgVars, refVars, merges, post, words>>

\* ... and returns when there is none.
Retreat ==
  /\ phase = "analyzed" /\ path # <<>>
  /\ Range(Targets(Last(path))) \subseteq Visited
  /\ path' = Front(path) /\ post' = Append(post, Last(path))
  /\ UNCHANGED <<fn, phase, genVars, cfgVars, refVars, merges, words>>

\* Mutant of Order: the blocks as the search finished them.
OrderFinished == post

Order == Reverse(post)

Merge(b) ==
  IF b \in DOMAIN merges.loop
  THEN <<merges.loop[b],
         IF b \in DOMAIN merges.continue THEN merges.continue[b] ELSE merges.loop[b]>>
  ELSE IF b \in DOMAIN merges.selection THEN <<merges.selection[b]>> ELSE <<>>

Word(b) == [label |-> b, merge |-> IF Forks(b) THEN Merge(b) ELSE <<>>, code |-> blocks[b].code]

EmitFunction ==
  /\ phase = "analyzed" /\ path = <<>>
  /\ words' = [i \in DOMAIN Order |-> Word(Order[i])]
  /\ phase' = "run"
  /\ UNCHANGED <<fn, genVars, cfgVars, refVars, merges, path, post>>

SpirvInit ==
  /\ Init
  /\ merges = [selection |-> <<>>, loop |-> <<>>, continue |-> <<>>]
  /\ path = <<1>> /\ post = <<>> /\ words = <<>>

Next ==
  \/ Codegen \/ AnalyzeCFG \/ Descend \/ Retreat \/ EmitFunction
  \/ Read \/ Execute \/ See \/ Finished
Spec == SpirvInit /\ [][Next]_vars

-----------------------------------------------------------------------------
(* Which functions analyzeCFG is made for. *)

\* How the first block of a statement goes on: "straight" to what follows it, to a
\* "merge" of something inside it, or to any other block ("away").
Opening[n \in Statements] ==
  LET first(parts) == LET bends == SelectSeq(parts, LAMBDA p : Opening[p] # "straight")
                      IN  IF bends = <<>> THEN "straight" ELSE Opening[Head(bends)]
      then(parts, k) == IF first(parts) = "straight" THEN k ELSE first(parts)
  IN  CASE n.k \in {"and", "or"} -> then(<<n.kids[1]>>, "merge")
        [] n.k = "ternary" -> then(<<n.kids[1]>>, "away")
        [] n.k = "if" -> then(<<n.cond>>, IF Len(n.arms) = 1 THEN "merge" ELSE "away")
        [] n.k \in {"while", "for"} -> then(n.init, "away")
        [] n.k = "return" -> then(n.e, "away")
        [] n.k \in {"break", "continue", "discard"} -> "away"
        [] OTHER -> first(Parts(n))

\* Of two arms the first goes straight to the join, or the second does and the first does
\* not come to a merge first; the condition and the increment of a loop are one block each.
Recognised[n \in Statements] ==
  LET join(a, b) == Opening[a] = "straight" \/ (Opening[a] = "away" /\ Opening[b] = "straight")
  IN  /\ n.k = "if" /\ Len(n.arms) = 2 => join(n.arms[1], n.arms[2])
      /\ n.k = "ternary" => join(n.kids[2], n.kids[3])
      /\ n.k \in {"while", "for"} => \A p \in Range(n.cond \o n.inc) : Opening[p] = "straight"
      /\ \A p \in Range(Parts(n)) : Recognised[p]

-----------------------------------------------------------------------------
(* Properties. *)

\* The moment after EmitFunction.
Written == phase = "run" /\ cont = <<fn.body>>
Labels == {w.label : w \in Range(words)}

\* The block codegen made for control to come together after the fork at the end of h.
OwnJoin(h) ==
  LET named(names) == {b \in DOMAIN blocks : blocks[b].of = h /\ Named(b, names)}
  IN  named(IF Named(h, {"for.cond", "while.cond"}) THEN {"for.end", "while.end"}
            ELSE {"ifend", "logical.merge", "ternary.merge"})

\* The block that the body of the loop with header h comes round to.
OwnLatch(h) == {b \in DOMAIN blocks : blocks[b].of = h /\ Named(b, {"for.inc", "while.latch"})}

\* Every fork that is written has a merge instruction, which names the block that codegen
\* made for its own construct and no other: an inner construct's merge block is not taken
\* for the outer one's, and a loop's continue target is the block continue branches to.
MergesAreJoins ==
  Written => \A w \in Range(words) :
    LET h == w.label
    IN  Forks(h) =>
          /\ w.merge # <<>> /\ w.merge[1] \in OwnJoin(h)
          /\ Named(h, {"for.cond", "while.cond"}) =>
               w.merge[2] \in OwnLatch(h)

\* The same, for the functions analyzeCFG recognises.
RecognisedMergesAreJoins == Recognised[fn.body] => MergesAreJoins

\* What is written is written once and in an order in which a block comes after the block
\* that control comes to it through, a loop's header after the block before the loop and any
\* other after the fork it belongs to; and every block named by a branch, by a phi or by a
\* merge instruction is written too.  A loop whose body never comes round is the exception:
\* its latch is not reached and not written, but the header names a continue target.
WrittenInOrder ==
  Written =>
    /\ \A i, j \in DOMAIN words : words[i].label = words[j].label => i = j
    /\ \A i \in DOMAIN words : LET h == blocks[words[i].label].of
                               IN  h = 0 \/ \E j \in 1 .. i - 1 : words[j].label = h
    /\ \A w \in Range(words) :
         /\ Range(Targets(w.label)) \subseteq Labels
         /\ \A i \in Range(w.code) : i.op = "phi" => \A in \in Range(i.arg) : in[1] \in Labels
         /\ w.merge # <<>> =>
              /\ w.merge[1] \in Labels
              /\ \A m \in Range(w.merge) : m \in Labels \/ OwnLatch(w.label) \cap Labels = {}
=============================================================================
