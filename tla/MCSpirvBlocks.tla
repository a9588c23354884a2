--------------------------- MODULE MCSpirvBlocks ---------------------------
(* Functions with every jump in every arm of an if, in loops and in loops within loops. *)
EXTENDS SpirvBlocks

E(id) == [k |-> "leaf", id |-> id, reads |-> "none"]
R(id, v) == [k |-> "leaf", id |-> id, reads |-> v]
Do(body) == [k |-> "block", body |-> body]
IfThenElse(c, s, t) == [k |-> "if", cond |-> c, arms |-> <<s, t>>]
IfOnly(c, s) == [k |-> "if", cond |-> c, arms |-> <<s>>]
WhileDo(c, s) == [k |-> "while", init |-> <<>>, cond |-> <<c>>, inc |-> <<>>, body |-> s]
ForDo(i, c, n, s) == [k |-> "for", init |-> i, cond |-> c, inc |-> n, body |-> s]
Decl(v, e) == [k |-> "decl", v |-> v, e |-> e]
Set(v, e) == [k |-> "set", v |-> v, e |-> e]
Op(k, kids) == [k |-> k, kids |-> kids]
Act(k, id, v, kids) == [k |-> k, id |-> id, v |-> v, kids |-> kids]
Incr(v, prefix) == [k |-> "incr", v |-> v, prefix |-> prefix]
Jump(k) == [k |-> k]
Ret(kind) == [k |-> "return", e |-> IF kind = "value" THEN <<E("result")>> ELSE <<>>]

\* What may stand in an arm: early returns of an entry point lose its outputs, see README.
Slots(kind, jumps) ==
  {E("do"), Set("o", E("put"))} \cup {Jump(k) : k \in jumps \cup {"discard"}}
    \cup (IF kind = "entry" THEN {} ELSE {Ret(kind)})
Kinds == {"entry", "void", "value"}
Fn(kind, body) == [kind |-> kind, out |-> "o", body |-> Do(body)]

IfElseIn(kind) ==
  {Fn(kind, <<Decl("x", E("a")), IfThenElse(R("if", "x"), Do(<<s>>), Do(<<Set("x", E("b")), t>>)), u>>) :
     s, t, u \in Slots(kind, {})}
InWhile(kind) ==
  {Fn(kind, <<Decl("x", E("a")),
              WhileDo(R("while", "x"), Do(<<IfThenElse(E("if"), s, Do(<<t, Set("x", E("b"))>>)), u>>)),
              R("after", "x")>>
            \o (IF kind = "value" THEN <<Ret(kind)>> ELSE <<>>)) :
     s, t \in Slots(kind, {"break", "continue"}), u \in {E("do"), Jump("break"), Jump("continue")}}
InFor(kind) ==
  {Fn(kind, <<ForDo(<<Decl("i", E("start"))>>, <<R("more", "i")>>, <<Set("i", E("step"))>>,
                Do(<<Decl("x", E("a")),
                     ForDo(<<>>, <<>>, n, Do(<<IfOnly(R("if", "x"), s), Set("x", R("not", "i"))>>)),
                     IfOnly(E("last"), t)>>))>>
            \o (IF kind = "value" THEN <<Ret(kind)>> ELSE <<>>)) :
     s, t \in Slots(kind, {"break", "continue"}), n \in {<<>>, <<E("tick")>>}}
Conditions ==
  {Op("and", <<E("p"), E("q")>>), Op("or", <<E("p"), Op("and", <<E("q"), E("r")>>)>>),
   Op("ternary", <<E("p"), E("q"), Op("or", <<E("r"), E("s")>>)>>)}
Operators ==
  {Fn("value", <<Decl("x", c), IfThenElse(d, Do(<<Set("o", R("x", "x"))>>), IfOnly(c, Ret("value"))),
                 WhileDo(l, Do(<<IfOnly(d, Jump("break"))>>)),
                 Ret("value")>>) : c, d \in Conditions, l \in {E("l")} \cup Conditions}
\* Every operation around, inside and after a short circuit or a choice, in a loop.
Values ==
  {Act("not", "", "none", <<R("x", "x")>>), Act("apply", "plus", "none", <<R("x", "x"), Incr("x", FALSE)>>),
   Op("and", <<Incr("x", TRUE), Act("call", "f", "x", <<R("y", "i")>>)>>),
   Act("call", "g", "none", <<Op("or", <<R("x", "x"), Incr("i", FALSE)>>), R("y", "i")>>),
   Op("ternary", <<Act("access", "x[i]", "x", <<R("i", "i")>>), Act("call", "f", "i", <<>>), R("z", "i")>>)}
\* Indices, of which a store to a column evaluates those that it may, and those that it may not, twice.
Indices == {R("j", "i"), Act("access", "x[j]", "x", <<R("j", "i")>>), Op("and", <<R("j", "i"), R("x", "x")>>),
            Op("ternary", <<R("x", "x"), R("j", "i"), Act("not", "", "none", <<R("j", "i")>>)>>)}
Changes ==
  {Act("member", "x.y", "x", <<v>>) : v \in Values} \cup {Act("element", "element", "x", <<v, R("e", "i")>>) : v \in Values}
    \cup {Act("column", "column", "x", <<i, v>>) : i \in Indices, v \in Values}
    \cup {Act("column", "column", "x", <<v, R("e", "i")>>) : v \in Values}
Updates ==
  {Fn("value", <<Decl("i", E("a")), Act("array", "new", "x", init),
                 WhileDo(Act("not", "", "none", <<R("done", "i")>>),
                         Do(<<c, Act("array", "again", "y", <<>>), Set("i", v), Act("element", "y[]", "y", <<R("e", "x")>>),
                              Set("o", Act("access", "y", "y", <<R("j", "i")>>))>>)),
                 [k |-> "return", e |-> <<v>>]>>) : v \in Values, c \in Changes, init \in {<<>>, <<E("b"), E("c")>>}}
NestedIf ==
  {Fn("void", <<IfThenElse(E("a"), Do(<<IfOnly(E("b"), s)>>), Do(<<t>>))>>) : s, t \in Slots("void", {})}
MCNested == {f \in NestedIf : \A arm \in Range(f.body.body[1].arms) : Parts(arm)[1].k # "discard"}

MCNames == {"x", "y", "i", "o"}
MCFunctions == UNION {IfElseIn(k) \cup InWhile(k) \cup InFor(k) : k \in Kinds} \cup Operators \cup Updates \cup NestedIf

RECURSIVE Trees(_)
Trees(n) == {n} \cup UNION {Trees(p) : p \in Range(Parts(n))}
MCStatements == UNION {Trees(f.body) : f \in MCFunctions}
MCExpressions == {n \in MCStatements : n.k \in Operations \cup {"leaf", "and", "or", "ternary", "incr"}}
============================================================================
