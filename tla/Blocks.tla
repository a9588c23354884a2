------------------------------- MODULE Blocks -------------------------------
(***************************************************************************)
(* Code generation of functions and statements (ast.cpp), and what the     *)
(* generated basic blocks do when they run, next to what the function says *)
(* when it is read statement by statement in the scopes of sema.           *)
(*                                                                         *)
(* In phase "codegen" the recursion of codegen() is the sequence todo:     *)
(* nodes still to be generated and the rest of nodes under way, whose C++  *)
(* locals are in frames.  In phase "run" pc walks through the blocks and   *)
(* cont, env through the function.  A value is a boolean; it is used right *)
(* after it was computed, so one register (acc, val) holds it.             *)
(***************************************************************************)
EXTENDS Integers, Sequences, SequencesExt

CONSTANTS
  Functions,                \* what is compiled
  Expressions, Statements,  \* the syntax trees that functions are made of
  Names                     \* names of variables

-----------------------------------------------------------------------------
(* Syntax trees.  kids are an expression's operands in the order of evaluation; v is the
   variable that is read or written, "none" if there is none. *)

Lists(S, sizes) == {s \in Seq(S) : Len(s) \in sizes}
NoneOrName == Names \cup {"none"}

Leaves == [k : {"leaf"}, id : STRING, reads : NoneOrName]
ShortCircuits == [k : {"and", "or"}, kids : Lists(Expressions, {2})]
Ternaries == [k : {"ternary"}, kids : Lists(Expressions, {3})]
Increments == [k : {"incr"}, v : Names, prefix : BOOLEAN]

\* Of a store to a part of a variable the operands are indices, then the value; of
\* m[i][j] = e the second index comes last.  m[i].x = e is a column.
Operations == {"not", "apply", "access", "call", "member", "element", "column"}
Columns == [k : {"column"}, id : STRING, v : Names, kids : Lists(Expressions, {2})]
Applications == [k : Operations \ {"column"}, id : STRING, v : NoneOrName, kids : Seq(Expressions)] \cup Columns

Stores == [k : {"decl", "set"}, v : Names, e : Expressions]
Arrays == [k : {"array"}, id : STRING, v : Names, kids : Seq(Expressions)]
BlockNodes == [k : {"block"}, body : Seq(Statements)]
Ifs == [k : {"if"}, cond : Expressions, arms : Lists(Statements, {1, 2})]
Jumps == [k : {"break", "continue", "discard"}]
Returns == [k : {"return"}, e : Lists(Expressions, {0, 1})]

\* What a for begins with ends no block: one that begins with a jump is refused by
\* verifyFunction, and is left out.  Between iterations it has an expression or a store.
Headers == {s \in Statements : s \notin BlockNodes \cup Jumps \cup Returns}
Steps == Statements \cap (Expressions \cup Stores)
Loops == [k : {"while", "for"}, init : Lists(Headers, {0, 1}), cond : Lists(Expressions, {0, 1}),
          inc : Lists(Steps, {0, 1}), body : Statements]

\* What a node is made of, in the order in which it is written.
Parts(n) ==
  CASE n.k \in Operations \cup {"array", "and", "or", "ternary"} -> n.kids
    [] n.k \in {"decl", "set"} -> <<n.e>>
    [] n.k = "block" -> n.body
    [] n.k = "if" -> <<n.cond>> \o n.arms
    [] n.k \in {"while", "for"} -> n.init \o n.cond \o n.inc \o <<n.body>>
    [] n.k = "return" -> n.e
    [] OTHER -> <<>>

ASSUME SyntaxAssumption ==
  /\ Expressions \subseteq Leaves \cup ShortCircuits \cup Ternaries \cup Increments \cup Applications
  /\ Statements \subseteq Expressions \cup Stores \cup Arrays \cup BlockNodes \cup Ifs \cup Jumps
                            \cup Returns \cup Loops
ASSUME FunctionsAssumption ==
  Functions \subseteq [kind : {"entry", "void", "value"}, out : NoneOrName,
                      body : Statements \cap BlockNodes]

VARIABLES
  fn, phase,
  blocks,     \* the function's basic blocks: [name, of, code]; of is the block they are entered from first
  cur,        \* insertion block
  todo, frames,
  breaks, conts,   \* BreakStack, ContinueStack
  namedValues,     \* one alloca per name in it
  pc,         \* block and instruction that runs next
  from,       \* block that control came from
  acc, mem, outp,  \* the last value; the allocas; what the caller sees of the out variable
  cont,       \* what the function still has to do
  env, val,        \* scopes, innermost first; the last value
  merges, path, post, words    \* the function in SPIR-V: written by SpirvBlocks
genVars == <<blocks, cur, todo, frames, breaks, conts, namedValues>>
cfgVars == <<pc, from, acc, mem, outp>>
refVars == <<cont, env, val>>
spirvVars == <<merges, path, post, words>>
vars == <<fn, phase, genVars, cfgVars, refVars, spirvVars>>

-----------------------------------------------------------------------------
(* Blocks and instructions. *)

Ins(op, arg) == [op |-> op, arg |-> arg]
Br(b) == Ins("br", <<b>>)
CondBr(t, f) == Ins("condbr", <<t, f>>)
Terminators == {"br", "condbr", "ret", "unreachable"}
BasicBlock(name, of) == [name |-> name, of |-> of, code |-> <<>>]
Emit(bs, b, ins) == [bs EXCEPT ![b].code = @ \o ins]
Terminated(bs, b) == bs[b].code # <<>> /\ Last(bs[b].code).op \in Terminators
BrIfOpen(bs, b, to) == IF Terminated(bs, b) THEN bs ELSE Emit(bs, b, <<Br(to)>>)

Item(k, n) == [k |-> k, n |-> n]        \* the rest of node n, at point k
Node == Head(todo)
Generating(k) == phase = "codegen" /\ todo # <<>> /\ Node.k = k

\* The usual end of a step: the code so far, the insertion block, what comes next.
Goto(bs, b, items) ==
  /\ blocks' = bs /\ cur' = b /\ todo' = items \o Tail(todo)
  /\ UNCHANGED <<fn, phase, cfgVars, refVars, spirvVars>>
Fail ==
  /\ phase' = "failed"
  /\ UNCHANGED <<fn, genVars, cfgVars, refVars, spirvVars>>

-----------------------------------------------------------------------------
(* Expressions. *)

\* A leaf reads a variable, or its value is anything.
Leaf ==
  /\ Generating("leaf")
  /\ IF Node.reads = "none" \/ Node.reads \in namedValues
     THEN /\ Goto(Emit(blocks, cur, <<Ins("eval", Node)>>), cur, <<>>)
          /\ UNCHANGED <<frames, breaks, conts, namedValues>>
     ELSE Fail

ShortCircuit ==
  /\ \/ Generating("and") \/ Generating("or")
  /\ Goto(blocks, cur, <<Node.kids[1], Item("rhs", Node), Node.kids[2], Item("merge", Node)>>)
  /\ UNCHANGED <<frames, breaks, conts, namedValues>>

ShortCircuitRhs ==
  /\ Generating("rhs")
  /\ LET rhs == Len(blocks) + 1
         merge == rhs + 1
         bs == blocks \o <<BasicBlock("logical.rhs", cur), BasicBlock("logical.merge", cur)>>
     IN  /\ Goto(Emit(bs, cur, <<IF Node.n.k = "and" THEN CondBr(rhs, merge)
                                                     ELSE CondBr(merge, rhs)>>), rhs, <<>>)
         /\ frames' = <<[lhs |-> cur, merge |-> merge]>> \o frames
  /\ UNCHANGED <<breaks, conts, namedValues>>

ShortCircuitMerge ==
  /\ Generating("merge")
  /\ LET f == Head(frames)
         phi == Ins("phi", <<<<f.lhs, IF Node.n.k = "and" THEN "false" ELSE "true">>,
                             <<cur, "value">>>>)
     IN  Goto(Emit(Emit(blocks, cur, <<Br(f.merge)>>), f.merge, <<phi>>), f.merge, <<>>)
  /\ frames' = Tail(frames)
  /\ UNCHANGED <<breaks, conts, namedValues>>

Ternary ==
  /\ Generating("ternary")
  /\ Goto(blocks, cur, <<Node.kids[1], Item("arms", Node), Node.kids[2], Item("else arm", Node),
                         Node.kids[3], Item("join", Node)>>)
  /\ UNCHANGED <<frames, breaks, conts, namedValues>>

TernaryArms ==
  /\ Generating("arms")
  /\ LET b == Len(blocks)
         bs == blocks \o <<BasicBlock("ternary.then", cur), BasicBlock("ternary.else", cur),
                           BasicBlock("ternary.merge", cur)>>
     IN  /\ Goto(Emit(bs, cur, <<CondBr(b + 1, b + 2)>>), b + 1, <<>>)
         /\ frames' = <<[first |-> b, thenEnd |-> 0]>> \o frames
  /\ UNCHANGED <<breaks, conts, namedValues>>

TernaryElseArm ==
  /\ Generating("else arm")
  /\ Goto(blocks, Head(frames).first + 2, <<>>)
  /\ frames' = [frames EXCEPT ![1].thenEnd = cur]
  /\ UNCHANGED <<breaks, conts, namedValues>>

TernaryJoin ==
  /\ Generating("join")
  /\ LET f == Head(frames)
         merge == f.first + 3
         phi == Ins("phi", <<<<f.thenEnd, "value">>, <<cur, "value">>>>)
     IN  Goto(Emit(Emit(Emit(blocks, f.thenEnd, <<Br(merge)>>), cur, <<Br(merge)>>), merge, <<phi>>),
              merge, <<>>)
  /\ frames' = Tail(frames)
  /\ UNCHANGED <<breaks, conts, namedValues>>

\* The operands in the order in which they are visited.  A column's index is visited for the
\* address that lvalueAddr makes and nobody uses, and by MatrixColumnAssigner again.
Visits(n) == IF n.k = "column" THEN <<n.kids[1]>> \o n.kids ELSE n.kids

Operands ==
  /\ \E k \in Operations : Generating(k)
  /\ Goto(blocks, cur, Visits(Node) \o <<Item("operate", Node)>>)
  /\ UNCHANGED <<frames, breaks, conts, namedValues>>
Operating(k) == Generating("operate") /\ Node.n.k = k

UnaryNot ==
  /\ Operating("not")
  /\ Goto(Emit(blocks, cur, <<Ins("not", <<>>)>>), cur, <<>>)
  /\ UNCHANGED <<frames, breaks, conts, namedValues>>

Binary ==
  /\ Operating("apply")
  /\ Goto(Emit(blocks, cur, <<Ins("operate", Node.n)>>), cur, <<>>)
  /\ UNCHANGED <<frames, breaks, conts, namedValues>>

\* An operation on a variable, which must be known.
OnVariable ==
  IF Node.n.v \in namedValues
  THEN /\ Goto(Emit(blocks, cur, <<Ins("operate", Node.n)>>), cur, <<>>)
       /\ UNCHANGED <<frames, breaks, conts, namedValues>>
  ELSE Fail

\* a[i] as a value.
MatrixAccess == Operating("access") /\ OnVariable

\* A call of a user's function; v is the variable passed for its out or inout parameter.
Call ==
  /\ Operating("call")
  /\ IF Node.n.v = "none"
     THEN /\ Goto(Emit(blocks, cur, <<Ins("operate", Node.n)>>), cur, <<>>)
          /\ UNCHANGED <<frames, breaks, conts, namedValues>>
     ELSE OnVariable

\* Stores to a part of a variable: v.x = e, a[i] = e, m[i].x = e.
MemberAssignment == Operating("member") /\ OnVariable
MatrixAssignment == Operating("element") /\ OnVariable
MatrixColumn == Operating("column") /\ OnVariable

\* ++ and --, before or after the variable.
IncrDecr ==
  /\ Generating("incr")
  /\ IF Node.v \in namedValues
     THEN /\ Goto(Emit(blocks, cur, <<Ins("incr", Node)>>), cur, <<>>)
          /\ UNCHANGED <<frames, breaks, conts, namedValues>>
     ELSE Fail

-----------------------------------------------------------------------------
(* Statements. *)

\* A declaration, or an assignment to a name that must be known.
Assignment ==
  /\ \/ Generating("decl") \/ Generating("set")
  /\ Goto(blocks, cur, <<Node.e, Item("store", Node)>>)
  /\ UNCHANGED <<frames, breaks, conts, namedValues>>

AssignmentStore ==
  /\ Generating("store")
  /\ IF Node.n.k = "set" /\ Node.n.v \notin namedValues
     THEN Fail
     ELSE /\ Goto(Emit(blocks, cur, <<Ins("store", Node.n.v)>>), cur, <<>>)
          /\ namedValues' = namedValues \cup {Node.n.v}
          /\ UNCHANGED <<frames, breaks, conts>>

\* An array is as if its elements were one value; without an initialiser it is zero.
Elements(n) == [n EXCEPT !.k = "apply", !.v = "none"]
ArrayDecl ==
  /\ Generating("array")
  /\ IF Node.kids = <<>>
     THEN Goto(Emit(blocks, cur, <<Ins("false", <<>>)>>), cur, <<Item("store", Node)>>)
     ELSE Goto(blocks, cur, <<Elements(Node), Item("store", Node)>>)
  /\ namedValues' = namedValues \cup {Node.v}
  /\ UNCHANGED <<frames, breaks, conts>>

\* The statements after one that ends the block are dropped.
Block ==
  /\ Generating("block")
  /\ Goto(blocks, cur, IF Node.body = <<>> \/ Terminated(blocks, cur)
                       THEN <<>>
                       ELSE <<Head(Node.body), [Node EXCEPT !.body = Tail(@)]>>)
  /\ UNCHANGED <<frames, breaks, conts, namedValues>>

If ==
  /\ Generating("if")
  /\ Goto(blocks, cur, <<Node.cond, Item("then", Node)>>)
  /\ UNCHANGED <<frames, breaks, conts, namedValues>>

IfThen ==
  /\ Generating("then")
  /\ LET s == Node.n
         b == Len(blocks)
         end == b + Len(s.arms) + 1
         bs == blocks \o <<BasicBlock("then", cur)>>
                 \o (IF Len(s.arms) = 2 THEN <<BasicBlock("else", cur)>> ELSE <<>>)
                 \o <<BasicBlock("ifend", cur)>>
     IN  /\ Goto(Emit(bs, cur, <<CondBr(b + 1, b + 2)>>), b + 1, <<s.arms[1], Item("else", s)>>)
         /\ frames' = <<[else |-> b + 2, end |-> end, ends |-> {}]>> \o frames
  /\ UNCHANGED <<breaks, conts, namedValues>>

IfElse ==
  /\ Generating("else")
  /\ LET two == Len(Node.n.arms) = 2
     IN  Goto(blocks, IF two THEN Head(frames).else ELSE cur,
              (IF two THEN <<Node.n.arms[2]>> ELSE <<>>) \o <<Item("ifend", Node.n)>>)
  /\ frames' = [frames EXCEPT ![1].ends = {cur}]
  /\ UNCHANGED <<breaks, conts, namedValues>>

IfEnd ==
  /\ Generating("ifend")
  /\ LET f == Head(frames)
         open == {b \in f.ends \cup {cur} : ~Terminated(blocks, b)}
     IN  Goto([b \in DOMAIN blocks |-> IF b \in open THEN [blocks[b] EXCEPT !.code = Append(@, Br(f.end))]
                                                     ELSE blocks[b]], f.end, <<>>)
  /\ frames' = Tail(frames)
  /\ UNCHANGED <<breaks, conts, namedValues>>

While ==
  /\ Generating("while")
  /\ Goto(blocks, cur, <<Item("header", Node)>>)
  /\ UNCHANGED <<frames, breaks, conts, namedValues>>

For ==
  /\ Generating("for")
  /\ Goto(blocks, cur, Node.init \o <<Item("header", Node)>>)
  /\ UNCHANGED <<frames, breaks, conts, namedValues>>

BlockNames(k) == IF k = "while" THEN <<"while.cond", "while.body", "while.latch", "while.end">>
                                ELSE <<"for.cond", "for.body", "for.inc", "for.end">>

LoopHeader ==
  /\ Generating("header")
  /\ LET s == Node.n
         h == Len(blocks) + 1
         bs == blocks \o [i \in 1 .. 4 |-> BasicBlock(BlockNames(s.k)[i], IF i = 1 THEN cur ELSE h)]
     IN  /\ Goto(IF s.cond = <<>> THEN Emit(Emit(bs, cur, <<Br(h)>>), h, <<Ins("true", <<>>)>>)
                                  ELSE Emit(bs, cur, <<Br(h)>>),
                 h, s.cond \o <<Item("body", s), s.body, Item("latch", s)>>)
         /\ frames' = <<[header |-> h]>> \o frames
  /\ UNCHANGED <<breaks, conts, namedValues>>

LoopBody ==
  /\ Generating("body")
  /\ LET h == Head(frames).header
     IN  /\ Goto(Emit(blocks, cur, <<CondBr(h + 1, h + 3)>>), h + 1, <<>>)
         /\ breaks' = <<h + 3>> \o breaks /\ conts' = <<h + 2>> \o conts
  /\ UNCHANGED <<frames, namedValues>>

\* Mutant of LoopLatch: the body is taken not to end in a jump of its own.
LoopLatchAlways ==
  /\ Generating("latch")
  /\ LET h == Head(frames).header
     IN  Goto(Emit(blocks, cur, <<Br(h + 2)>>), h + 2, Node.n.inc \o <<Item("back", Node.n)>>)
  /\ breaks' = Tail(breaks) /\ conts' = Tail(conts)
  /\ UNCHANGED <<frames, namedValues>>

\* Mutant of LoopLatch: ContinueStack is not popped.
LoopLatchKeepsContinue ==
  /\ Generating("latch")
  /\ LET h == Head(frames).header
     IN  Goto(BrIfOpen(blocks, cur, h + 2), h + 2, Node.n.inc \o <<Item("back", Node.n)>>)
  /\ breaks' = Tail(breaks)
  /\ UNCHANGED <<frames, conts, namedValues>>

LoopLatch ==
  /\ Generating("latch")
  /\ LET h == Head(frames).header
     IN  Goto(BrIfOpen(blocks, cur, h + 2), h + 2, Node.n.inc \o <<Item("back", Node.n)>>)
  /\ breaks' = Tail(breaks) /\ conts' = Tail(conts)
  /\ UNCHANGED <<frames, namedValues>>

LoopBack ==
  /\ Generating("back")
  /\ LET h == Head(frames).header
     IN  Goto(BrIfOpen(blocks, cur, h), h + 3, <<>>)
  /\ frames' = Tail(frames)
  /\ UNCHANGED <<breaks, conts, namedValues>>

Break ==
  /\ Generating("break")
  /\ IF breaks = <<>> THEN Fail
     ELSE /\ Goto(Emit(blocks, cur, <<Br(Head(breaks))>>), cur, <<>>)
          /\ UNCHANGED <<frames, breaks, conts, namedValues>>

\* Mutant of Continue: control goes to the condition and not to the latch.
ContinueToHeader ==
  /\ Generating("continue")
  /\ IF conts = <<>> THEN Fail
     ELSE /\ Goto(Emit(blocks, cur, <<Br(Head(conts) - 2)>>), cur, <<>>)
          /\ UNCHANGED <<frames, breaks, conts, namedValues>>

Continue ==
  /\ Generating("continue")
  /\ IF conts = <<>> THEN Fail
     ELSE /\ Goto(Emit(blocks, cur, <<Br(Head(conts))>>), cur, <<>>)
          /\ UNCHANGED <<frames, breaks, conts, namedValues>>

Discard ==
  /\ Generating("discard")
  /\ Goto(Emit(blocks, cur, <<Ins("discard", <<>>), Ins("unreachable", <<>>)>>), cur, <<>>)
  /\ UNCHANGED <<frames, breaks, conts, namedValues>>

Return ==
  /\ Generating("return")
  /\ IF (fn.kind = "value") = (Node.e = <<>>) THEN Fail
     ELSE /\ Goto(blocks, cur, Node.e \o <<Item("ret", Node)>>)
          /\ UNCHANGED <<frames, breaks, conts, namedValues>>

ReturnValue ==
  /\ Generating("ret")
  /\ Goto(Emit(blocks, cur, <<Ins("ret", <<>>)>>), cur, <<>>)
  /\ UNCHANGED <<frames, breaks, conts, namedValues>>

\* allPathsReturn: of a block only the last statement is looked at.
AllPathsReturn[s \in Statements] ==
  CASE s.k = "block" -> s.body # <<>> /\ AllPathsReturn[Last(s.body)]
    [] s.k = "return" -> TRUE
    [] s.k = "if" -> Len(s.arms) = 2 /\ \A i \in 1 .. 2 : AllPathsReturn[s.arms[i]]
    [] OTHER -> FALSE

\* An entry point stores its out variables where its body falls off the end, ...
EntryEnd ==
  IF fn.out = "none" THEN <<Ins("ret", <<>>)>> ELSE <<Ins("copy", fn.out), Ins("ret", <<>>)>>

\* ... any other function at every return.
CopyOuts(bs) ==
  [b \in DOMAIN bs |->
    IF fn.out # "none" /\ bs[b].code # <<>> /\ Last(bs[b].code).op = "ret"
    THEN [bs[b] EXCEPT !.code = Front(@) \o <<Ins("copy", fn.out), Ins("ret", <<>>)>>]
    ELSE bs[b]]

FunctionEnd ==
  /\ phase = "codegen" /\ todo = <<>>
  /\ LET open == ~Terminated(blocks, cur)
         end == CASE fn.kind = "entry" -> EntryEnd
                  [] fn.kind = "void" -> <<Ins("ret", <<>>)>>
                  [] OTHER -> <<Ins("unreachable", <<>>)>>
         bs == IF open THEN Emit(blocks, cur, end) ELSE blocks
     IN  IF open /\ fn.kind = "value" /\ ~AllPathsReturn[fn.body]
         THEN Fail            \* Missing return terminator
         ELSE /\ blocks' = IF fn.kind = "entry" THEN bs ELSE CopyOuts(bs)
              /\ phase' = "emitted"
              /\ UNCHANGED <<fn, cur, todo, frames, breaks, conts, namedValues, cfgVars, refVars, spirvVars>>

-----------------------------------------------------------------------------
(* The function as written: what a step of cont stands for. *)

\* Where the scopes that are in sight have v: env is searched from the innermost out.
ScopeOf(v) == SelectInSeq(env, LAMBDA scope : v \in DOMAIN scope)
Lookup(v) == env[ScopeOf(v)][v]

\* An expression that changes nothing: it may be evaluated again.
Pure[e \in Expressions] ==
  CASE e.k = "leaf" -> e.reads # "none"
    [] e.k \in {"and", "or", "ternary", "not", "apply", "access"} -> \A kid \in Range(e.kids) : Pure[kid]
    [] OTHER -> FALSE

\* What the operands of an operation stand for: each is evaluated once, or may be looked at again.
Evaluated(n) == IF n.k = "column" /\ Pure[n.kids[1]] THEN Visits(n) ELSE n.kids

Meaning(n) ==
  CASE n.k \in {"and", "or"} -> <<n.kids[1], Item("rest", n)>>
    [] n.k = "rest" -> IF val = (n.n.k = "and") THEN <<n.n.kids[2]>> ELSE <<>>
    [] n.k = "ternary" -> <<n.kids[1], Item("choose", n)>>
    [] n.k = "choose" -> <<n.n.kids[IF val THEN 2 ELSE 3]>>
    [] n.k \in Operations -> Evaluated(n) \o <<Item(IF n.k = "not" THEN "negate" ELSE "operate", n)>>
    [] n.k \in {"decl", "set"} -> <<n.e, Item("assign", n)>>
    [] n.k = "array" -> <<IF n.kids = <<>> THEN Item("zero", n) ELSE Elements(n), Item("assign", n)>>
    [] n.k = "block" -> n.body \o <<Item("leave", Len(env))>>
    [] n.k = "if" -> <<n.cond, Item("branch", n)>>
    [] n.k = "branch" -> IF val THEN <<n.n.arms[1]>> ELSE Tail(n.n.arms)
    [] n.k = "while" -> <<Item("iterate", n), Item("exit", Len(env))>>
    [] n.k = "for" -> n.init \o <<Item("iterate", n), Item("exit", Len(env))>>
    [] n.k = "iterate" -> n.n.cond \o <<Item("again", n.n)>>
    [] n.k = "again" -> IF n.n.cond = <<>> \/ val
                        THEN <<n.n.body, Item("latch", Len(env))>> \o n.n.inc \o <<Item("iterate", n.n)>>
                        ELSE <<>>
    [] n.k = "return" -> n.e \o <<Item("ret", <<>>)>>
    [] OTHER -> <<>>
From(k) == SubSeq(cont, SelectInSeq(cont, LAMBDA i : i.k = k), Len(cont))   \* out of what lies inside
Visible == cont # <<>> => Head(cont).k \in {"leaf", "operate", "ret", "discard"}

\* One step of the reading that nobody sees: scopes are entered and left as sema does.
Read ==
  /\ phase = "run" /\ ~Visible
  /\ LET n == Head(cont)
     IN  /\ cont' = CASE n.k = "break" -> From("exit")
                     [] n.k = "continue" -> From("latch")
                     [] OTHER -> Meaning(n) \o Tail(cont)
         /\ env' = CASE n.k \in {"block", "for"} -> <<<<>>>> \o env
                    [] n.k \in {"leave", "latch", "exit"} -> SubSeq(env, Len(env) - n.n + 1, Len(env))
                    [] n.k = "assign" ->
                         LET i == IF n.n.k = "set" THEN ScopeOf(n.n.v) ELSE 1
                         IN  [env EXCEPT ![i] = (n.n.v :> val) @@ @]
                    [] n.k = "incr" -> [env EXCEPT ![ScopeOf(n.v)][n.v] = ~@]
                    [] OTHER -> env
         /\ val' = CASE n.k = "negate" -> ~val
                    [] n.k = "zero" -> FALSE
                    [] n.k = "incr" -> (n.prefix # Lookup(n.v))
                    [] OTHER -> val
  /\ UNCHANGED <<fn, phase, genVars, cfgVars, spirvVars>>

-----------------------------------------------------------------------------
(* The blocks as they run. *)

Instruction == blocks[pc[1]].code[pc[2]]
Silent == Instruction.op \in {"store", "phi", "true", "false", "not", "incr", "copy", "br", "condbr"}

Incoming == (CHOOSE i \in Range(Instruction.arg) : i[1] = from)[2]
Execute ==
  /\ phase = "run" /\ Visible /\ Silent
  /\ LET i == Instruction
         target == IF i.op = "br" \/ acc THEN i.arg[1] ELSE i.arg[2]
     IN  /\ IF i.op \in {"br", "condbr"}
            THEN pc' = <<target, 1>> /\ from' = pc[1]
            ELSE pc' = [pc EXCEPT ![2] = @ + 1] /\ UNCHANGED from
         /\ acc' = CASE i.op \in {"true", "false"} -> (i.op = "true")
                    [] i.op = "not" -> ~acc
                    [] i.op = "incr" -> (i.arg.prefix # mem[i.arg.v])
                    [] i.op = "phi" -> IF Incoming = "value" THEN acc ELSE Incoming = "true"
                    [] OTHER -> acc
         /\ mem' = CASE i.op = "store" -> [mem EXCEPT ![i.arg] = acc]
                    [] i.op = "incr" -> [mem EXCEPT ![i.arg.v] = ~@]
                    [] OTHER -> mem
         /\ outp' = IF i.op = "copy" THEN mem[i.arg] ELSE outp
  /\ UNCHANGED <<fn, phase, genVars, refVars, spirvVars>>

\* What is seen next: a leaf or an operation evaluated with what it reads, or the end with what
\* is returned and what the out variable holds; <<>> where there is no such value.
Seen(k, what, value, out) == [k |-> k, what |-> what, value |-> value, out |-> out]
NextSeen ==
  LET i == Instruction
  IN  CASE i.op = "eval" -> Seen("leaf", i.arg.id, IF i.arg.reads = "none" THEN <<>> ELSE <<mem[i.arg.reads]>>, <<>>)
        [] i.op = "operate" -> Seen("operate", i.arg.id, IF i.arg.v = "none" THEN <<>> ELSE <<mem[i.arg.v]>>,
                                    IF i.arg.kids = <<>> THEN <<>> ELSE <<acc>>)
        [] i.op = "ret" -> Seen("ret", "", IF fn.kind = "value" THEN <<acc>> ELSE <<>>,
                                IF fn.out = "none" THEN <<>> ELSE <<outp>>)
        [] OTHER -> Seen(i.op, "", <<>>, <<>>)
NextMeant ==
  LET n == IF cont = <<>> THEN Item("ret", <<>>) ELSE Head(cont)
  IN  CASE n.k = "leaf" -> Seen("leaf", n.id, IF n.reads = "none" THEN <<>> ELSE <<Lookup(n.reads)>>, <<>>)
        [] n.k = "operate" -> Seen("operate", n.n.id, IF n.n.v = "none" THEN <<>> ELSE <<Lookup(n.n.v)>>,
                                   IF n.n.kids = <<>> THEN <<>> ELSE <<val>>)
        [] n.k = "ret" -> Seen("ret", "", IF fn.kind = "value" THEN <<val>> ELSE <<>>,
                               IF fn.out = "none" THEN <<>> ELSE <<env[Len(env)][fn.out]>>)
        [] OTHER -> Seen(n.k, "", <<>>, <<>>)

\* Both come to it: what is evaluated has one value for both, and so has the variable it
\* writes; anything else is the end, and so is a difference, after which nothing is compared.
See ==
  /\ phase = "run" /\ Visible /\ ~Silent
  /\ IF NextSeen = NextMeant /\ NextMeant.k \in {"leaf", "operate"}
     THEN /\ \E x \in IF NextMeant.k = "operate" \/ NextMeant.value = <<>> THEN BOOLEAN ELSE Range(NextMeant.value) :
               acc' = x /\ val' = x
          /\ IF Head(cont).k = "operate" /\ Head(cont).n.k \in {"call", "member", "element", "column"}
                /\ Head(cont).n.v # "none"
             THEN LET v == Head(cont).n.v
                  IN  \E y \in BOOLEAN : mem' = [mem EXCEPT ![v] = y] /\ env' = [env EXCEPT ![ScopeOf(v)][v] = y]
             ELSE UNCHANGED <<mem, env>>
          /\ pc' = [pc EXCEPT ![2] = @ + 1] /\ cont' = Tail(cont)
          /\ UNCHANGED phase
     ELSE /\ phase' = "done"
          /\ UNCHANGED <<acc, val, pc, cont, mem, env>>
  /\ UNCHANGED <<fn, genVars, from, outp, spirvVars>>

-----------------------------------------------------------------------------
InScope == IF fn.out = "none" THEN <<>> ELSE fn.out :> FALSE

Init ==
  /\ fn \in Functions /\ phase = "codegen"
  /\ blocks = <<BasicBlock("entry", 0)>> /\ cur = 1
  /\ todo = <<fn.body>> /\ frames = <<>> /\ breaks = <<>> /\ conts = <<>>
  /\ namedValues = DOMAIN InScope
  /\ pc = <<1, 1>> /\ from = 0 /\ acc = FALSE /\ mem = [v \in Names |-> FALSE] /\ outp = FALSE
  /\ cont = <<fn.body>> /\ env = <<InScope>> /\ val = FALSE

Codegen ==
  \/ Leaf \/ ShortCircuit \/ ShortCircuitRhs \/ ShortCircuitMerge
  \/ Ternary \/ TernaryArms \/ TernaryElseArm \/ TernaryJoin
  \/ Operands \/ UnaryNot \/ Binary \/ MatrixAccess \/ Call
  \/ MemberAssignment \/ MatrixAssignment \/ MatrixColumn \/ IncrDecr
  \/ Assignment \/ AssignmentStore \/ ArrayDecl \/ Block
  \/ If \/ IfThen \/ IfElse \/ IfEnd
  \/ While \/ For \/ LoopHeader \/ LoopBody \/ LoopLatch \/ LoopBack
  \/ Break \/ Continue \/ Discard \/ Return \/ ReturnValue \/ FunctionEnd

\* The driver stops at a function that failed.
Finished == phase \in {"failed", "done"} /\ UNCHANGED vars

-----------------------------------------------------------------------------
(* Properties. *)

\* Type invariant: the insertion block and the targets on the stacks are blocks, the
\* two stacks and the scopes are as deep as each other, and a name has one alloca.
TypeOK ==
  /\ phase \in {"codegen", "emitted", "analyzed", "failed", "run", "done"}
  /\ cur \in DOMAIN blocks
  /\ Range(breaks) \cup Range(conts) \subseteq DOMAIN blocks /\ Len(breaks) = Len(conts)
  /\ namedValues \subseteq Names /\ DOMAIN mem = Names
  /\ pc[1] \in DOMAIN blocks /\ from \in 0 .. Len(blocks)
  /\ {acc, val, outp} \subseteq BOOLEAN /\ Range(mem) \subseteq BOOLEAN
  /\ Len(env) >= 1

\* Once a function is generated each of its blocks ends in one terminator and has none
\* before (what verifyFunction asks): also the blocks that a jump in an arm or in a
\* loop body, or code after it, leaves without a way in.
EveryBlockEnds ==
  phase \in {"emitted", "analyzed", "run", "done"} =>
    \A b \in DOMAIN blocks : \E n \in 1 .. Len(blocks[b].code) :
      {i \in DOMAIN blocks[b].code : blocks[b].code[i].op \in Terminators} = {n} /\ n = Len(blocks[b].code)

\* No store to a column of a matrix has an index with effects.
PureIndexes[n \in Statements] ==
  /\ n.k = "column" => Pure[n.kids[1]]
  /\ \A p \in Range(Parts(n)) : PureIndexes[p]

\* The blocks of a function do what the function says: they evaluate the same leaves in
\* the same order, each on the values its variables have in the scopes of the source,
\* discard where it discards, and return when it returns, with its value and with the
\* out variable's value handed to the caller.  Functions with m[i++].x = e are left out: their
\* blocks evaluate the index twice (MemberAssignmentExprAST::codegen).
RunsAsWritten ==
  phase = "run" /\ Visible /\ ~Silent /\ PureIndexes[fn.body] => NextSeen = NextMeant
=============================================================================
