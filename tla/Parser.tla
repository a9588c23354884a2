------------------------------- MODULE Parser -------------------------------
(***************************************************************************)
(* The recursive-descent parser (parser.cpp).  The C++ call stack is the   *)
(* sequence todo of what the active parse functions have left to do: a     *)
(* token they insist on, a parse function they will call, or a construct-  *)
(* or step ("#...") that builds a node.  Each parse function is a produc-  *)
(* tion: what it does next as a function of Cur (c) and Next (n).          *)
(*                                                                         *)
(* A token is named by its spelling; one token stands for the tokens that  *)
(* the parser treats alike: "type" for the builtin type names, "+" for     *)
(* + and -, "<" for the comparisons, "++" for ++ and --, "!" for ! and ~,  *)
(* "op=" for the compound assignments, "1" and "2" for the integers that   *)
(* may be array sizes and "1.5" for the numbers that may not.              *)
(***************************************************************************)
EXTENDS Integers, Sequences, SequencesExt

CONSTANTS
  Inputs,     \* the token sequences to be parsed (without the end of input)
  MaxErrors   \* kMaxErrors

Idents == {"x", "y", "layout", "binding", "location", "std430", "workgroup_size"}
Stages == {"vertex", "fragment", "compute"}
At == "@"
Lbrace == "{"
Rbrace == "}"
Semicolon == ";"
Comma == ","
Sizes == {"1", "2"}                      \* integers in 1..65536
Numbers == Sizes \cup {"1.5"}
Levels == [t \in {"||", "&&", "|", "^", "&", "<", "<<", "+", "*"} |->
  CASE t = "||" -> 5 [] t = "&&" -> 6 [] t = "|" -> 7 [] t = "^" -> 8 [] t = "&" -> 9
    [] t = "<" -> 10 [] t = "<<" -> 15 [] t = "+" -> 20 [] t = "*" -> 40]

\* The token kinds; "unknown" is also a malformed number.
Tokens == Idents \cup Stages \cup Numbers \cup DOMAIN Levels \cup
  {"if", "else", "while", "for", "break", "continue", "return", "discard", "type", "true",
   "void", "fn", "struct", "uniform", "const", "buffer", "readonly", "writeonly", "in", "out",
   "inout", "stage", "entry", "=", "op=", "++", "!", "(", ")", "[", "]", ".", "@", "?", ":",
   "unknown", Lbrace, Rbrace, Comma, Semicolon}

ASSUME InputsAssumption == Inputs \subseteq Seq(Tokens)
ASSUME MaxErrorsAssumption == MaxErrors \in Nat \ {0}

VARIABLES
  input,     \* the source file
  pos,       \* position of Cur
  mode,      \* "top": the loop of ParseProgram; "parse": in a construct; "done"
  ctx,       \* in a construct: its attributes, a function with attributes, or another
  start,     \* position at which the construct began
  todo,      \* what the active parse functions have left to do
  vals,      \* nodes they have built so far
  prec,      \* exprPrecedence of the active calls of parseBinOpRHS
  attrs,     \* isEntry and stage of the attributes read
  entries,   \* entryByStage
  errs,      \* errorCount_
  program    \* the constructs accepted, as ranges of positions
vars == <<input, pos, mode, ctx, start, todo, vals, prec, attrs, entries, errs, program>>

-----------------------------------------------------------------------------
(* Tokens and nodes. *)

TokenAt(p) == IF p <= Len(input) THEN input[p] ELSE "eof"
Cur == TokenAt(pos)
Peek == TokenAt(pos + 1)

Precedence(t) == IF t \in DOMAIN Levels THEN Levels[t] ELSE -1

\* What a parse function insists on: a token, or one of a class.
Matches(s, t) ==
  CASE s = "ident" -> t \in Idents
    [] s = "typename" -> t = "type" \/ t \in Idents
    [] s = "rettype" -> t \in {"type", "void"} \/ t \in Idents
    [] s = "size" -> t \in Sizes
    [] OTHER -> s = t

\* A node: its class, its token, its children, the position stamped on it, and the
\* parentheses around it, of which the code keeps no trace.
Node(op, tok, kids, at) ==
  [op |-> op, tok |-> tok, kids |-> kids, at |-> at, parens |-> 0]
LValues == {"var", "member", "index"}
Class == [s \in {"#var", "#literal", "#op", "#field"} |->
  CASE s = "#var" -> "var" [] s = "#literal" -> "literal" [] s = "#op" -> "op"
    [] s = "#field" -> "field"]

-----------------------------------------------------------------------------
(* Expressions. *)

ParseExpression == <<"#level", "Unary", "Rhs", "Ternary">>

ParseTernary(c) == IF c = "?" THEN <<"?", "Expr", ":", "Expr", "#ternary">> ELSE <<>>

ParseUnary(c) ==
  CASE c = "++" -> <<"#op", c, "Unary", "#prefix">>
    [] c \in {"+", "!"} -> <<"#op", c, "Unary", "#unary">>
    [] OTHER -> <<"Primary">>

\* parseBinOpRHS: an operator below the minimum ends this subexpression ...
ParseBinOpRHS(c) ==
  IF Precedence(c) < Head(prec) THEN <<"#return">> ELSE <<"#op", c, "Unary", "RhsTail">>

\* ... and one that binds tighter than the last takes its right operand.
ParseBinOpTail(c) ==
  LET op == vals[Len(vals) - 1].tok
  IN  IF Precedence(op) < Precedence(c) THEN <<"#raise", "Rhs", "#binary", "Rhs">>
                                        ELSE <<"#binary", "Rhs">>

ParsePrimary(c) ==
  CASE c \in Idents -> <<"#var", c, "Call", "Postfix">>
    [] c = "type" -> <<"#var", c, "(", "#call", "Args", "Postfix">>
    [] c \in Numbers \cup {"true"} -> <<"#literal", c, "Postfix">>
    [] c = "(" -> <<"#op", "(", "Expr", ")", "#paren", "Postfix">>
    [] OTHER -> <<"#fail">>

ParseCall(c) == IF c = "(" THEN <<"(", "#call", "Args">> ELSE <<>>
ParseArgs(c) == IF c = ")" THEN <<")", "#endcall">> ELSE <<"Expr", "#arg", "MoreArgs">>
ParseMoreArgs(c) == IF c = ")" THEN <<")", "#endcall">> ELSE <<Comma, "Expr", "#arg", "MoreArgs">>

ParsePostfix(c) ==
  CASE c = "." -> <<".", "ident", "#member", "Postfix">>
    [] c = "[" -> <<"[", "Expr", "]", "Index2">>
    [] c = "++" -> <<"++", "#postfix", "Postfix">>
    [] OTHER -> <<>>
ParseIndex2(c) ==
  IF c = "[" THEN <<"[", "Expr", "]", "#index2", "Postfix">> ELSE <<"#index", "Postfix">>

-----------------------------------------------------------------------------
(* Statements. *)

ParseReturn == <<"return", "ReturnValue">>
ParseWhile == <<"while", "(", "Expr", "#drop", ")", "Statement">>
ParseFor == <<"for", "(", "ForInit", "ForCond", Semicolon, "ForInc", ")", "Statement">>
ParseIf == <<"if", "(", "Expr", "#drop", ")", "Statement", "Else">>
ParseJump(c) == <<c, Semicolon>>
ParseExprStatement == <<"Expr", Semicolon, "#drop">>

ParseStatement(c, n) ==
  CASE c = "struct" -> <<"Struct">>
    [] c = "uniform" -> <<"Uniform">>
    [] c = "return" -> ParseReturn
    [] c = "while" -> ParseWhile
    [] c = "for" -> ParseFor
    [] c \in {"break", "continue", "discard"} -> ParseJump(c)
    [] c = "if" -> ParseIf
    [] c = Lbrace -> <<"Block">>
    [] c \in Numbers \cup {"++", "(", "true"} -> ParseExprStatement
    [] c = "const" \/ (c \in Idents /\ n \in Idents) \/ (c = "type" /\ n # "(") -> <<"VarDecl">>
    [] c \in Idents /\ n \notin Idents -> <<"Primary", "AssignStatement">>
    [] c = "type" /\ n = "(" -> ParseExprStatement
    [] OTHER -> <<"#fail">>

ParseBlock == <<Lbrace, "BlockRest">>
ParseBlockRest(c) == IF c \in {Rbrace, "eof"} THEN <<Rbrace>> ELSE <<"Statement", "BlockRest">>
ParseElse(c) == IF c = "else" THEN <<c, "Statement">> ELSE <<>>
ParseReturnValue(c) == IF c = Semicolon THEN <<Semicolon>> ELSE <<"Expr", Semicolon, "#drop">>

\* The initialiser is the one call whose failure is not passed on.
ParseForInit(c) == IF c = Semicolon THEN <<Semicolon>> ELSE <<"Statement", "Catch">>
ParseForCond(c) == IF c = Semicolon THEN <<>> ELSE <<"Expr", "#drop">>
ParseForInc(c) ==
  CASE c = ")" -> <<>>
    [] c \in Idents -> <<"Primary", "Assign">>
    [] OTHER -> <<"Expr", "#drop">>

\* parseAssignmentOrExprStatement after its left-hand side; semi is consumeSemi.
ParseAssign(c, semi) ==
  IF c \in {"=", "op="}
  THEN <<c, "Expr">> \o semi \o <<"#lvalue">>
  ELSE <<"#level", "Rhs", "Ternary">> \o semi \o <<"#drop">>

ParseVarDecl(c) ==
  (IF c = "const" THEN <<c>> ELSE <<>>) \o <<"typename", "ident", "VarRest">>
ParseVarRest(c) ==
  CASE c = "[" -> <<"[", "#op", "size", "]", "ArrayInit">>
    [] c = Semicolon -> <<Semicolon>>
    [] c = "=" -> <<"=", "Expr", Semicolon, "#drop">>
    [] OTHER -> <<"#fail">>
ParseArrayInit(c) ==
  CASE c = Semicolon -> <<Semicolon, "#drop">>
    [] c = "=" -> <<"=", Lbrace, "Elements">>
    [] OTHER -> <<"#fail">>
ParseElements(c) ==
  IF c = Rbrace THEN <<Rbrace, "#count", Semicolon>> ELSE <<"Expr", "MoreElements">>
ParseMoreElements(c) ==
  IF c = Rbrace THEN <<Rbrace, "#count", Semicolon>> ELSE <<Comma, "Expr", "MoreElements">>

-----------------------------------------------------------------------------
(* Declarations. *)

ParseStruct == <<"struct", "ident", Lbrace, "Fields">>
ParseFields(c) ==
  IF c = Rbrace THEN <<Rbrace, Semicolon, "#drop">>
             ELSE <<"typename", "#field", "ident", "ArraySuffix", Semicolon, "Fields">>
ParseArraySuffix(c) == IF c = "[" THEN <<"[", "size", "]">> ELSE <<>>
ParseUniform == <<"uniform", "typename", "ident", "ArraySuffix", Semicolon>>
ParseStageVar(c) == <<c, "typename", "ident", "ArraySuffix", Semicolon>>
ParseStorageBuffer(c) ==
  (IF c \in {"readonly", "writeonly"} THEN <<c>> ELSE <<>>)
    \o <<"buffer", "typename", "ident", "Unsized", Semicolon>>
ParseUnsized(c) == IF c = "[" THEN <<"[", "]">> ELSE <<>>

ParseFunction == <<"fn", "rettype", "ident", "(", "Params">>
ParseParams(c) == IF c = ")" THEN <<")", "Block">> ELSE <<"Param">>
ParseParam(c) ==
  (IF c \in {"in", "out", "inout"} THEN <<c>> ELSE <<>>) \o <<"typename", "ident", "MoreParams">>
ParseMoreParams(c) == IF c = ")" THEN <<")", "Block">> ELSE <<Comma, "Param">>

ParseFunctionAttrs(c) == IF c = "@" THEN <<"@", "Attr">> ELSE <<"#attrs">>
ParseAttr(c) ==
  CASE c = "entry" -> <<"entry", "#entry", "Attrs">>
    [] c = "stage" -> <<"stage", "(", "#stage", ")", "Attrs">>
    [] c = "workgroup_size" -> <<c, "(", "size", "Dim", "Dim", ")", "Attrs">>
    [] OTHER -> <<"#fail">>
ParseDim(c) == IF c = Comma THEN <<Comma, "size">> ELSE <<>>

ParseLayout(c) == IF c = "(" THEN <<"(", "Qualifiers", "LayoutDecl">> ELSE <<"LayoutDecl">>

\* Mutant of ParseQualifiers: a token that is no qualifier is not passed over.
ParseQualifiersStaying(c) ==
  CASE c = ")" -> <<")">>
    [] c = "eof" -> <<>>
    [] c \in Idents -> <<c, "Value", "Qualifiers">>
    [] c = Comma -> <<c, "Qualifiers">>
    [] OTHER -> <<"#report", "Qualifiers">>

ParseQualifiers(c) ==
  CASE c = ")" -> <<")">>
    [] c = "eof" -> <<>>
    [] c \in {"binding", "location"} -> <<c, "Value", "Qualifiers">>
    [] c \in {"std430", Comma} -> <<c, "Qualifiers">>
    [] c \in Idents \ {"binding", "location", "std430"} -> <<"#report", c, "Value", "Qualifiers">>
    [] OTHER -> <<"#report", c, "Qualifiers">>
ParseValue(c) == IF c = "=" THEN <<"=", "Slot">> ELSE <<>>
ParseSlot(c) == IF c \in Numbers THEN <<c>> ELSE <<>>
ParseLayoutDecl(c) ==
  CASE c = "uniform" -> <<"Uniform">>
    [] c \in {"in", "out"} -> <<"StageVar">>
    [] c \in {"readonly", "writeonly", "buffer"} -> <<"StorageBuffer">>
    [] OTHER -> <<"#report", "#skip">>

\* What ParseProgram calls for a construct that begins with c.
Dispatch(c) ==
  CASE c = "@" -> <<"Attrs">>
    [] c = "fn" -> <<"Function">>
    [] c \in {"in", "out"} -> <<"StageVar">>
    [] c = "layout" -> <<"layout", "Layout">>
    [] OTHER -> <<"Statement">>     \* parseStatement also takes uniform and struct

Production(s) ==
  CASE s = "Expr" -> ParseExpression [] s = "Ternary" -> ParseTernary(Cur)
    [] s = "Unary" -> ParseUnary(Cur) [] s = "Rhs" -> ParseBinOpRHS(Cur)
    [] s = "RhsTail" -> ParseBinOpTail(Cur) [] s = "Primary" -> ParsePrimary(Cur)
    [] s = "Call" -> ParseCall(Cur) [] s = "Args" -> ParseArgs(Cur)
    [] s = "MoreArgs" -> ParseMoreArgs(Cur) [] s = "Postfix" -> ParsePostfix(Cur)
    [] s = "Index2" -> ParseIndex2(Cur)
    [] s = "Statement" -> ParseStatement(Cur, Peek) [] s = "Block" -> ParseBlock
    [] s = "BlockRest" -> ParseBlockRest(Cur) [] s = "Else" -> ParseElse(Cur)
    [] s = "ReturnValue" -> ParseReturnValue(Cur) [] s = "ForInit" -> ParseForInit(Cur)
    [] s = "ForCond" -> ParseForCond(Cur) [] s = "ForInc" -> ParseForInc(Cur)
    [] s = "AssignStatement" -> ParseAssign(Cur, <<Semicolon>>)
    [] s = "Assign" -> ParseAssign(Cur, <<>>)
    [] s = "VarDecl" -> ParseVarDecl(Cur) [] s = "VarRest" -> ParseVarRest(Cur)
    [] s = "ArrayInit" -> ParseArrayInit(Cur) [] s = "Elements" -> ParseElements(Cur)
    [] s = "MoreElements" -> ParseMoreElements(Cur)
    [] s = "Struct" -> ParseStruct [] s = "Fields" -> ParseFields(Cur)
    [] s = "ArraySuffix" -> ParseArraySuffix(Cur) [] s = "Uniform" -> ParseUniform
    [] s = "StageVar" -> ParseStageVar(Cur) [] s = "StorageBuffer" -> ParseStorageBuffer(Cur)
    [] s = "Unsized" -> ParseUnsized(Cur) [] s = "Function" -> ParseFunction
    [] s = "Params" -> ParseParams(Cur) [] s = "Param" -> ParseParam(Cur)
    [] s = "MoreParams" -> ParseMoreParams(Cur) [] s = "Attrs" -> ParseFunctionAttrs(Cur)
    [] s = "Attr" -> ParseAttr(Cur) [] s = "Dim" -> ParseDim(Cur)
    [] s = "Layout" -> ParseLayout(Cur) [] s = "Qualifiers" -> ParseQualifiers(Cur)
    [] s = "Value" -> ParseValue(Cur) [] s = "Slot" -> ParseSlot(Cur)
    [] s = "LayoutDecl" -> ParseLayoutDecl(Cur)
    [] OTHER -> <<>>

NonTerminals ==
  {"Expr", "Ternary", "Unary", "Rhs", "RhsTail", "Primary", "Call", "Args", "MoreArgs",
   "Postfix", "Index2", "Statement", "Block", "BlockRest", "Else", "ReturnValue", "ForInit",
   "ForCond", "ForInc", "AssignStatement", "Assign", "VarDecl", "VarRest", "ArrayInit", "Elements",
   "MoreElements", "Struct", "Fields", "ArraySuffix", "Uniform", "StageVar",
   "StorageBuffer", "Unsized", "Function", "Params", "Param", "MoreParams", "Attrs", "Attr",
   "Dim", "Layout", "Qualifiers", "Value", "Slot", "LayoutDecl"}
Builders == {"#var", "#literal", "#op", "#binary", "#prefix", "#unary", "#ternary", "#paren",
             "#call", "#arg", "#endcall", "#member", "#index", "#index2", "#postfix",
             "#field", "#count", "#lvalue", "#drop"}
LevelSteps == {"#level", "#raise", "#return"}
AttrSteps == {"#entry", "#stage"}
Steps == Builders \cup LevelSteps \cup AttrSteps
           \cup {"#attrs", "#report", "#skip", "#fail", "Catch"}

-----------------------------------------------------------------------------
(* The steps of a construct. *)

Top(k) == vals[Len(vals) - k]
Pop(k) == SubSeq(vals, 1, Len(vals) - k)
Next1 == Head(todo)
Parsing == mode = "parse" /\ todo # <<>>

\* The nodes after the building step s.
Built(s) ==
  CASE s \in {"#var", "#literal", "#op", "#field"} ->
         Append(vals, Node(Class[s], Cur, <<>>, pos))
    [] s = "#binary" ->
         Append(Pop(3), Node("binary", Top(1).tok, <<Top(2), Top(0)>>, Top(2).at))
    [] s \in {"#prefix", "#unary"} ->
         Append(Pop(2), Node("unary", Top(1).tok, <<Top(0)>>, Top(1).at))
    [] s = "#ternary" ->
         Append(Pop(3), Node("ternary", "?", <<Top(2), Top(1), Top(0)>>, Top(2).at))
    [] s = "#paren" -> Append(Pop(2), [Top(0) EXCEPT !.at = Top(1).at, !.parens = @ + 1])
    [] s = "#call" -> Append(Pop(1), [Top(0) EXCEPT !.op = "arguments"])
    [] s = "#arg" -> Append(Pop(2), [Top(1) EXCEPT !.kids = Append(@, Top(0))])
    [] s = "#endcall" -> Append(Pop(1), [Top(0) EXCEPT !.op = "call"])
    [] s = "#member" -> Append(Pop(1), Node("member", TokenAt(pos - 1), <<Top(0)>>, Top(0).at))
    [] s = "#index" -> Append(Pop(2), Node("index", "[", <<Top(1), Top(0)>>, Top(1).at))
    [] s = "#index2" ->
         Append(Pop(3), Node("index", "[", <<Top(2), Top(1), Top(0)>>, Top(2).at))
    [] s = "#postfix" -> Append(Pop(1), Node("postfix", "++", <<Top(0)>>, Top(0).at))
    [] OTHER -> <<>>

\* A step that logs an error and returns null instead.
Refused(s) ==
  \/ s = "#fail"
  \/ s \in {"#prefix", "#postfix"} /\ Top(0).op \notin LValues
  \/ s = "#lvalue" /\ vals[1].op \notin LValues
  \/ s = "#count" /\ Len(vals) - 1 # (IF vals[1].tok = "1" THEN 1 ELSE 2)
  \/ s = "#field" /\ (Cur \notin Idents \/ \E i \in DOMAIN vals : vals[i].tok = Cur)
  \/ s = "#entry" /\ "entry" \in attrs
  \/ s = "#stage" /\ (Cur \notin Stages \/ attrs \cap Stages # {})
  \/ s = "#attrs" /\ "entry" \in attrs /\ attrs \cap Stages = {}

\* error(): counts to one above kMaxErrors and no further.
Reported(e) == IF e <= MaxErrors THEN e + 1 ELSE e

Match ==
  /\ Parsing /\ Next1 \notin NonTerminals \cup Steps
  /\ Matches(Next1, Cur)
  /\ pos' = pos + 1
  /\ todo' = Tail(todo)
  /\ UNCHANGED <<input, mode, ctx, start, vals, prec, attrs, entries, errs, program>>

Call ==
  /\ Parsing /\ Next1 \in NonTerminals
  /\ todo' = Production(Next1) \o Tail(todo)
  /\ UNCHANGED <<input, pos, mode, ctx, start, vals, prec, attrs, entries, errs, program>>

Build ==
  /\ Parsing /\ Next1 \in Builders
  /\ ~Refused(Next1)
  /\ vals' = Built(Next1)
  /\ todo' = Tail(todo)
  /\ UNCHANGED <<input, pos, mode, ctx, start, prec, attrs, entries, errs, program>>

\* Mutant of Level: the right operand also takes operators of the same level.
LevelNotRaised ==
  /\ Parsing /\ Next1 \in LevelSteps
  /\ prec' = CASE Next1 = "#level" -> <<0>> \o prec
               [] Next1 = "#raise" -> <<Precedence(Top(1).tok)>> \o prec
               [] OTHER -> Tail(prec)
  /\ todo' = Tail(todo)
  /\ UNCHANGED <<input, pos, mode, ctx, start, vals, attrs, entries, errs, program>>

Level ==
  /\ Parsing /\ Next1 \in LevelSteps
  /\ prec' = CASE Next1 = "#level" -> <<0>> \o prec
               [] Next1 = "#raise" -> <<Precedence(Top(1).tok) + 1>> \o prec
               [] OTHER -> Tail(prec)
  /\ todo' = Tail(todo)
  /\ UNCHANGED <<input, pos, mode, ctx, start, vals, attrs, entries, errs, program>>

ReadAttr ==
  /\ Parsing /\ Next1 \in AttrSteps
  /\ ~Refused(Next1)
  /\ attrs' = attrs \cup {IF Next1 = "#entry" THEN "entry" ELSE Cur}
  /\ pos' = IF Next1 = "#stage" THEN pos + 1 ELSE pos
  /\ todo' = Tail(todo)
  /\ UNCHANGED <<input, mode, ctx, start, vals, prec, entries, errs, program>>

\* An error that is reported and survived (a layout qualifier).
Report ==
  /\ Parsing /\ Next1 = "#report"
  /\ errs' = Reported(errs)
  /\ todo' = Tail(todo)
  /\ UNCHANGED <<input, pos, mode, ctx, start, vals, prec, attrs, entries, program>>

\* The for initialiser returned a node.
PassCatch ==
  /\ Parsing /\ Next1 = "Catch"
  /\ todo' = Tail(todo)
  /\ UNCHANGED <<input, pos, mode, ctx, start, vals, prec, attrs, entries, errs, program>>

-----------------------------------------------------------------------------
(* ParseProgram, and what it does with a construct that failed. *)

\* The first position from p on at which one of the tokens ts is.
FirstOf(ts, p) ==
  CHOOSE q \in p .. Len(input) + 1 :
    /\ TokenAt(q) \in ts \cup {"eof"}
    /\ \A r \in p .. q - 1 : TokenAt(r) \notin ts

\* Mutant of SyncFrom: the end of the input is passed over like a ; or a }.
SyncFromPastEnd(p) ==
  LET q == FirstOf({Semicolon, Rbrace, "fn", "struct", "@"}, p)
  IN  IF TokenAt(q) \in {Semicolon, Rbrace, "eof"} THEN q + 1 ELSE q

\* synchronize(): past the next ; or }, or before the next fn, struct or @.
SyncFrom(p) ==
  LET q == FirstOf({Semicolon, Rbrace, "fn", "struct", "@"}, p)
  IN  IF TokenAt(q) \in {Semicolon, Rbrace} THEN q + 1 ELSE q

\* Mutant of Abandon: nothing is skipped.
AbandonInPlace(e, p) ==
  /\ errs' = IF e = 0 THEN Reported(e) ELSE e
  /\ pos' = p
  /\ mode' = IF e >= MaxErrors THEN "done" ELSE "top"
  /\ todo' = <<>> /\ vals' = <<>> /\ prec' = <<>>
  /\ UNCHANGED <<input, ctx, start, attrs, entries, program>>

\* The failed construct ends: after e errors, at position p.
Abandon(e, p) ==
  /\ errs' = IF e = 0 THEN Reported(e) ELSE e
  /\ pos' = SyncFrom(p)
  /\ mode' = IF e >= MaxErrors THEN "done" ELSE "top"
  /\ todo' = <<>> /\ vals' = <<>> /\ prec' = <<>>
  /\ UNCHANGED <<input, ctx, start, attrs, entries, program>>

Failing ==
  /\ Parsing
  /\ \/ Next1 \notin NonTerminals \cup Steps /\ ~Matches(Next1, Cur)
     \/ Next1 \in Steps /\ Refused(Next1)

\* A failed for initialiser is forgotten and the loop header parsed on.
FailInit ==
  /\ Failing /\ Contains(todo, "Catch")
  /\ errs' = Reported(errs)
  /\ todo' = SubSeq(todo, SelectInSeq(todo, LAMBDA s : s = "Catch") + 1, Len(todo))
  /\ vals' = <<>> /\ prec' = <<>>
  /\ UNCHANGED <<input, pos, mode, ctx, start, attrs, entries, program>>

FailConstruct ==
  /\ Failing /\ ~Contains(todo, "Catch") /\ ctx # "attrs"
  /\ Abandon(IF ctx = "attributed" THEN Reported(Reported(errs)) ELSE Reported(errs), pos)

\* Bad attributes: the number of errors is not looked at.
FailAttrs ==
  /\ Failing /\ ctx = "attrs"
  /\ errs' = Reported(errs)
  /\ pos' = SyncFrom(pos)
  /\ mode' = "top" /\ todo' = <<>>
  /\ UNCHANGED <<input, ctx, start, vals, prec, attrs, entries, program>>

\* layout(...) before something else: past the next ; and then past another.
SkipLayout ==
  /\ Parsing /\ Next1 = "#skip"
  /\ LET q == FirstOf({Semicolon}, pos)
     IN  Abandon(errs, IF TokenAt(q) = Semicolon THEN q + 1 ELSE q)

\* Mutant of NotAFunction: the attributes are forgotten without an error.
NotAFunctionSilent ==
  /\ Parsing /\ Next1 = "#attrs" /\ ~Refused("#attrs") /\ Cur # "fn"
  /\ pos' = FirstOf({"fn"}, pos)
  /\ mode' = "top" /\ todo' = <<>>
  /\ UNCHANGED <<input, ctx, start, vals, prec, attrs, entries, errs, program>>

\* Attributes before something that is no function are forgotten.
NotAFunction ==
  /\ Parsing /\ Next1 = "#attrs" /\ ~Refused("#attrs") /\ Cur # "fn"
  /\ errs' = Reported(errs)
  /\ pos' = FirstOf({"fn"}, pos)
  /\ mode' = "top" /\ todo' = <<>>
  /\ UNCHANGED <<input, ctx, start, vals, prec, attrs, entries, program>>

AttributedFunction ==
  /\ Parsing /\ Next1 = "#attrs" /\ ~Refused("#attrs") /\ Cur = "fn"
  /\ ctx' = "attributed"
  /\ todo' = <<"Function">>
  /\ UNCHANGED <<input, pos, mode, start, vals, prec, attrs, entries, errs, program>>

\* A second entry point is an error, and kept.
Accept ==
  /\ mode = "parse" /\ todo = <<>>
  /\ LET isEntry == ctx = "attributed" /\ "entry" \in attrs
     IN  /\ errs' = IF isEntry /\ entries # {} THEN Reported(errs) ELSE errs
         /\ entries' = IF isEntry /\ entries = {} THEN attrs \cap Stages ELSE entries
  /\ program' = Append(program, <<start, pos - 1>>)
  /\ mode' = "top"
  /\ UNCHANGED <<input, pos, ctx, start, todo, vals, prec, attrs>>

Begin ==
  /\ mode = "top" /\ Cur \notin {"eof", Rbrace}
  /\ mode' = "parse"
  /\ ctx' = IF Cur = At THEN "attrs" ELSE "plain"
  /\ start' = pos
  /\ todo' = Dispatch(Cur)
  /\ vals' = <<>> /\ prec' = <<>> /\ attrs' = {}
  /\ UNCHANGED <<input, pos, entries, errs, program>>

\* A } between the constructs is passed over, errors or none.
StrayBrace ==
  /\ mode = "top" /\ Cur = Rbrace
  /\ pos' = pos + 1
  /\ UNCHANGED <<input, mode, ctx, start, todo, vals, prec, attrs, entries, errs, program>>

EndOfInput ==
  /\ mode = "top" /\ Cur = "eof"
  /\ mode' = "done"
  /\ UNCHANGED <<input, pos, ctx, start, todo, vals, prec, attrs, entries, errs, program>>

Init ==
  /\ input \in Inputs
  /\ pos = 1 /\ start = 1
  /\ mode = "top" /\ ctx = "plain"
  /\ todo = <<>> /\ vals = <<>> /\ prec = <<>> /\ program = <<>>
  /\ attrs = {} /\ entries = {}
  /\ errs = 0

Next ==
  \/ Match \/ Call \/ Build \/ Level \/ ReadAttr \/ Report \/ PassCatch
  \/ FailInit \/ FailConstruct \/ FailAttrs \/ SkipLayout \/ NotAFunction
  \/ AttributedFunction \/ Accept \/ Begin \/ StrayBrace \/ EndOfInput

Spec == Init /\ [][Next]_vars
FairSpec == Spec /\ WF_vars(Next)

\* ParseProgram() of the file: nothing when there was an error.
Result == IF errs > 0 THEN <<>> ELSE program
-----------------------------------------------------------------------------
(* Properties *)

TypeOK ==
  /\ pos \in 1 .. Len(input) + 1 /\ start \in 1 .. pos
  /\ mode \in {"top", "parse", "done"} /\ ctx \in {"plain", "attrs", "attributed"}
  /\ mode # "parse" => todo = <<>>
  /\ \A i \in DOMAIN prec : prec[i] \in 0 .. 41
  /\ \A i \in DOMAIN program : program[i][2] < pos
  /\ attrs \subseteq {"entry"} \cup Stages /\ entries \subseteq Stages
  /\ errs \in 0 .. MaxErrors + 1

(* What recovery leaves out is never left out in silence: when a file is
   accepted, every token is in a construct of the program, apart from } that
   close nothing (ParseProgram). *)
AcceptedMeansUsed ==
  mode = "done" /\ errs = 0 =>
    \A p \in DOMAIN input :
      input[p] = Rbrace \/ \E i \in DOMAIN Result : p \in Result[i][1] .. Result[i][2]

(* A construct, failed or not, leaves the parser further on in the file, so
   that the loop of ParseProgram goes round at most once per token. *)
ConstructsAdvance == [][mode = "parse" /\ mode' # "parse" => pos' > start]_vars

(* ParseProgram returns, whatever the file holds. *)
ParserReturns == <>(mode = "done")
=============================================================================
