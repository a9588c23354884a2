---------------------------- MODULE MCUniformity ----------------------------
(***************************************************************************)
(* Model checking of Uniformity: all shaders of three statements, and some *)
(* longer ones.                                                            *)
(***************************************************************************)
EXTENDS Uniformity

CONSTANTS x, y, v

MCLocals == {x, y}
MCPerLane == {v}

Node(kind, var, reads, last, up, part) ==
  [kind |-> kind, var |-> var, reads |-> reads, last |-> last, up |-> up, part |-> part]

(* The statements that can follow the statements q in a shader of n. *)
Following(q, n) ==
  LET s == Len(q) + 1
      open == {m \in 1 .. Len(q) : s <= q[m].last}
      up == IF open = {} THEN 0 ELSE CHOOSE m \in open : \A o \in open : o <= m
      end == IF up = 0 THEN n ELSE q[up].last
      parts == IF up = 0 THEN {"body"}
               ELSE IF q[up].kind = "if" THEN {"then", "else"} ELSE {"body", "incr"}
  IN  {Node("assign", var, reads, s, up, part) :
         var \in MCLocals, reads \in {{}, {x}, {y}, {v}}, part \in parts}
      \cup {Node(kind, x, reads, last, up, part) :
         kind \in {"if", "loop"}, reads \in {{x}, {v}}, last \in s .. end, part \in parts}
      \cup {Node(kind, x, {}, s, up, part) : kind \in {"break", "continue"}, part \in parts}

Extended(starts) == UNION {{Append(q, c) : c \in Following(q, 3)} : q \in starts}
AllOfThree == {p \in Extended(Extended(Extended({<<>>}))) : ShaderOK(p)}

Set(var, reads, s, up, part) == Node("assign", var, reads, s, up, part)
While(reads, last, up) == Node("loop", x, reads, last, up, "body")

(* Two nested loops whose outer condition turns divergent in the increment;
   the same with the inner condition; a chain that takes a pass per local; a
   uniform loop around a masked one with exits in both arms of an `if`. *)
Longer == {
  <<Set(x, {}, 1, 0, "body"), While({x}, 5, 0), While({y}, 4, 2),
    Set(y, {}, 4, 3, "body"), Set(x, {y, v}, 5, 2, "incr")>>,
  <<While({x}, 4, 0), While({y}, 3, 1), Set(y, {}, 3, 2, "incr"), Set(x, {y}, 4, 1, "incr")>>,
  <<While({}, 4, 0), Set(x, {y}, 2, 1, "body"), Set(y, {x}, 3, 1, "body"),
    Set(y, {v}, 4, 1, "incr")>>,
  <<While({x}, 7, 0), While({}, 6, 1), Node("if", x, {v}, 5, 2, "body"),
    Node("break", x, {}, 4, 3, "then"), Node("continue", x, {}, 5, 3, "else"),
    Set(y, {}, 6, 2, "incr"), Set(x, {}, 7, 1, "incr")>>}

MCShaders == AllOfThree \cup Longer
=============================================================================
