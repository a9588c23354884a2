------------------------------ MODULE MCParser ------------------------------
(***************************************************************************)
(* Model checking of Parser: programs that between them take every branch  *)
(* of the grammar, everything one wrong token makes of them, and all       *)
(* expressions of four operands.                                           *)
(***************************************************************************)
EXTENDS Parser

Programs == {
  <<"@", "entry", "@", "stage", "(", "vertex", ")", "@", "workgroup_size", "(", "1", ",",
    "2", ")", "fn", "void", "x", "(", ")", "{", "}", "@", "stage", "(", "compute", ")", "@",
    "entry", "fn", "x", "y", "(", ")", "{", "}">>,
  <<"layout", "(", "binding", "=", "1", ",", "std430", ")", "readonly", "buffer", "x", "y",
    "[", "]", ";", "layout", "(", "location", "=", "1", ")", "in", "type", "x", ";">>,
  <<"layout", "uniform", "type", "x", "[", "2", "]", ";", "out", "x", "y", ";">>,
  <<"struct", "x", "{", "type", "y", ";", "type", "x", "[", "1", "]", ";", "}", ";">>,
  <<"fn", "type", "y", "(", "type", "x", ",", "inout", "y", "x", ")", "{", "return", "x",
    ";", "return", ";", "discard", ";", "}", "}">>,
  <<"while", "(", "x", ")", "{", "break", ";", "uniform", "x", "y", ";", "}">>,
  <<"for", "(", "x", "=", "1", ";", "x", "<", "2", ";", "x", "++", ")", "x", ".", "y", "=",
    "1", ";">>,
  <<"for", "(", ";", ";", "x", "op=", "1", ")", "{", "}">>,
  <<"for", "(", "const", "type", "x", "=", "1", ";", ";", "++", "x", ")", "continue", ";">>,
  <<"if", "(", "x", ")", "x", "op=", "1", ";", "else", "type", "(", "1", ",", "x", ")", ";">>,
  <<"type", "x", "[", "2", "]", "=", "{", "1", ",", "x", "}", ";", "x", "y", ";">>,
  <<"x", "[", "1", "]", "[", "2", "]", "++", "*", "y", ";", "x", "(", ")", ";">>,
  <<"(", "x", "+", "y", ")", "*", "++", "x", ".", "y", ";", "true", "||", "(", "x", ")", ";">>}

Wrong == {"x", "type", "1", "(", ")", "}", ",", ";", "+", "!", "fn", "@", "out"}
Mutated ==
  UNION {{RemoveAt(p, i), ReplaceAt(p, i, t), InsertAt(p, i, t)} :
           <<p, i, t>> \in UNION {{p} \X (DOMAIN p) \X Wrong : p \in Programs}}

Operands == {<<"+", "x">>, <<"(", "x", "+", "y", ")">>, <<"x", "++">>, <<"++", "x">>}
Operators == {"||", "<", "+", "*"}
Expression(o, a, i) ==   \* operators o; operand i is a, the others are variables
  LET Operand(j) == IF j = i THEN a ELSE <<"y">>
  IN  <<"x", "=">> \o Operand(0) \o <<o[1]>> \o Operand(1) \o <<o[2]>> \o Operand(2)
        \o <<o[3]>> \o Operand(3) \o <<";">>
Expressions ==
  {Expression(o, a, i) : o \in [1 .. 3 -> Operators], a \in Operands, i \in 0 .. 4}
  \cup {<<"x", "=", "x", o, "y", "?", "x", "?", "1", ":", "2", p, "x", ":", "y", "?", "1",
          ":", "2", ";">> : o \in Operators, p \in Operators}

MCInputs == Programs \cup Mutated \cup Expressions
-----------------------------------------------------------------------------
(* What a node stands for, written from the language and not from the parser. *)

\* The tokens of a tree, with the parentheses that were around it.
RECURSIVE Unparse(_)
Unparse(n) ==
  LET k(i) == Unparse(n.kids[i])
      List == [i \in DOMAIN n.kids |-> IF i = 1 THEN k(i) ELSE <<",">> \o k(i)]
      bare == CASE n.op \in {"var", "literal"} -> <<n.tok>>
                [] n.op = "binary" -> k(1) \o <<n.tok>> \o k(2)
                [] n.op = "unary" -> <<n.tok>> \o k(1)
                [] n.op = "postfix" -> Append(k(1), n.tok)
                [] n.op = "ternary" -> k(1) \o <<"?">> \o k(2) \o <<":">> \o k(3)
                [] n.op = "call" -> <<n.tok, "(">> \o FlattenSeq(List) \o <<")">>
                [] n.op = "member" -> k(1) \o <<".", n.tok>>
                [] n.op = "index" -> k(1) \o FlattenSeq(
                     [i \in 1 .. Len(n.kids) - 1 |-> <<"[">> \o k(i + 1) \o <<"]">>])
  IN  [i \in 1 .. n.parens |-> "("] \o bare \o [i \in 1 .. n.parens |-> ")"]

\* How tightly a node binds; an operand binds at least as tightly as its place asks.
Tightness(n) == CASE n.parens > 0 -> 60 [] n.op = "ternary" -> 0
                  [] n.op = "binary" -> Levels[n.tok] [] n.op = "unary" -> 50 [] OTHER -> 60

RECURSIVE Grouped(_)
Grouped(n) ==
  /\ \A i \in DOMAIN n.kids : Grouped(n.kids[i])
  /\ CASE n.op = "binary" -> /\ Tightness(n.kids[1]) >= Levels[n.tok]
                             /\ Tightness(n.kids[2]) > Levels[n.tok]
       [] n.op = "unary" -> Tightness(n.kids[1]) >= 50
       [] n.op = "ternary" -> Tightness(n.kids[1]) > 0
       [] n.op \in {"member", "index", "postfix"} -> Tightness(n.kids[1]) >= 60
       [] OTHER -> TRUE

(* A tree stands for the tokens from its position on, neither more nor fewer
   than were read for it, and groups them by precedence, to the left among
   operators of one level and to the right in ?: (parseBinOpRHS). *)
TreeIsParse ==
  vals # <<>> /\ Last(vals).op \notin {"op", "arguments", "field"} =>
    LET n == Last(vals)
    IN  Grouped(n) /\ Unparse(n) = SubSeq(input, n.at, n.at + Len(Unparse(n)) - 1)
=============================================================================
