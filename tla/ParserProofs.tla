---------------------------- MODULE ParserProofs ----------------------------
(***************************************************************************)
(* A file that is accepted was read in full, the parser's records stay     *)
(* well formed, and no construct leaves the parser where it found it:      *)
(* proofs for every set of inputs and every limit on errors.               *)
(***************************************************************************)
EXTENDS Parser, SequenceTheorems, FiniteSetTheorems, WellFoundedInduction, TLAPS

\* Every token up to position n is in a construct of the program, or a }.
Covered(n) ==
  \A p \in DOMAIN input :
    p <= n => input[p] = Rbrace \/ \E i \in DOMAIN program : p \in program[i][1] .. program[i][2]

\* While nothing was reported, what lies behind the parser is accounted for; in a
\* construct, what lies before its start.
NothingLost ==
  /\ pos \in Nat \ {0} /\ start \in Nat \ {0} /\ start <= pos
  /\ program \in Seq(Int \X Int)
  /\ mode = "top" => Covered(pos - 1)
  /\ mode = "parse" => Covered(start - 1)
  /\ mode = "done" => Covered(pos - 1) /\ pos > Len(input)

InputOK ==
  /\ Len(input) \in Nat /\ DOMAIN input = 1 .. Len(input)
  /\ \A p \in DOMAIN input : input[p] # "eof"

UseInv ==
  /\ InputOK
  /\ mode \in {"top", "parse", "done"}
  /\ errs \in Nat
  /\ errs = 0 => NothingLost

\* An error counts, at the limit too.
LEMMA ReportCounts == ASSUME NEW e \in Nat PROVE Reported(e) \in Nat /\ Reported(e) > 0
  BY MaxErrorsAssumption DEF Reported

\* The steps within a construct only move on.
LEMMA MoveOn ==
  ASSUME UseInv, mode = "parse", mode' = mode, errs' = errs,
         UNCHANGED <<input, start, program>>, pos' = pos \/ pos' = pos + 1
  PROVE  UseInv'
<1>1. Covered(start - 1)' <=> Covered(start - 1)  BY DEF Covered
<1>. QED  BY <1>1 DEF UseInv, InputOK, NothingLost

\* A step that leaves an error behind has nothing more to show.
LEMMA Failed ==
  ASSUME UseInv, input' = input, mode' \in {"top", "parse", "done"}, errs' \in Nat, errs' > 0
  PROVE  UseInv'
  BY DEF UseInv, InputOK

\* An abandoned construct is an error, if not its own then ParseProgram's.
LEMMA AbandonCounts ==
  ASSUME UseInv, NEW e \in Nat, NEW p, Abandon(e, p)
  PROVE  UseInv'
<1>1. errs' \in Nat /\ errs' > 0  BY ReportCounts DEF Abandon
<1>2. input' = input /\ mode' \in {"top", "parse", "done"}  BY DEF Abandon
<1>. QED  BY <1>1, <1>2, Failed

LEMMA AcceptCovers == ASSUME UseInv, Accept PROVE UseInv'
<1>1. errs' \in Nat /\ (errs' = 0 => errs = 0)
  <2>1. errs \in Nat /\ Reported(errs) \in Nat /\ Reported(errs) > 0
    BY ReportCounts DEF UseInv
  <2>2. errs' = errs \/ errs' = Reported(errs)  BY DEF Accept
  <2>. QED  BY <2>1, <2>2
<1>2. ASSUME errs' = 0 PROVE NothingLost'
  <2>1. NothingLost /\ mode = "parse" /\ mode' = "top"  BY <1>1, <1>2 DEF UseInv, Accept
  <2>2. program' \in Seq(Int \X Int)  BY <2>1 DEF Accept, NothingLost
  <2>3. Covered(pos - 1)'
    <3>. SUFFICES ASSUME NEW p \in DOMAIN input, p <= pos - 1, input[p] # Rbrace
                  PROVE  \E i \in DOMAIN program' : p \in program'[i][1] .. program'[i][2]
      BY DEF Covered, Accept
    <3>0. p \in Nat /\ p > 0  BY DEF UseInv, InputOK
    <3>1. CASE p <= start - 1
      <4>1. PICK i \in DOMAIN program : p \in program[i][1] .. program[i][2]
        BY <3>1, <2>1 DEF NothingLost, Covered
      <4>2. i \in DOMAIN program' /\ program'[i] = program[i]
        BY <2>1, <4>1 DEF Accept, NothingLost
      <4>. QED  BY <4>1, <4>2
    <3>2. CASE p > start - 1
      <4>1. /\ Len(program) + 1 \in DOMAIN program'
            /\ program'[Len(program) + 1] = <<start, pos - 1>>
        BY <2>1 DEF Accept, NothingLost
      <4>2. p \in start .. pos - 1  BY <3>0, <3>2, <2>1 DEF NothingLost
      <4>. QED  BY <4>1, <4>2
    <3>. QED  BY <3>0, <3>1, <3>2, <2>1 DEF NothingLost
  <2>. QED  BY <2>1, <2>2, <2>3 DEF NothingLost, Accept
<1>. QED  BY <1>1, <1>2 DEF UseInv, InputOK, Accept

\* The end of the input is no token.
LEMMA TokenWords == Tokens \cap (NonTerminals \cup Steps \cup {"eof"}) = {}
<1>. DEFINE Punctuation == {Lbrace, Rbrace, Comma, Semicolon}
            Letters == Tokens \ Punctuation
<1>1. Punctuation \cap NonTerminals = {}
  BY Zenon DEF Lbrace, Rbrace, Comma, Semicolon, NonTerminals
<1>2. Punctuation \cap (Steps \cup {"eof"}) = {}
  BY Zenon DEF Lbrace, Rbrace, Comma, Semicolon, Steps, Builders, LevelSteps, AttrSteps
<1>3. Letters \cap NonTerminals = {}
  BY DEF Tokens, Idents, Stages, Numbers, Sizes, Levels, NonTerminals
<1>4. Letters \cap (Steps \cup {"eof"}) = {}
  BY DEF Tokens, Idents, Stages, Numbers, Sizes, Levels, Steps, Builders, LevelSteps, AttrSteps
<1>. QED  BY <1>1, <1>2, <1>3, <1>4

LEMMA InitUse == Init => UseInv
<1>. SUFFICES ASSUME Init PROVE UseInv
  OBVIOUS
<1>1. input \in Seq(Tokens)  BY InputsAssumption DEF Init
<1>2. InputOK  BY <1>1, TokenWords DEF InputOK
<1>3. <<>> \in Seq(Int \X Int)  OBVIOUS
<1>4. Covered(0)  BY <1>2 DEF Covered, InputOK
<1>. QED  BY <1>2, <1>3, <1>4 DEF Init, UseInv, NothingLost

LEMMA NextUse == UseInv /\ [Next]_vars => UseInv'
<1>. SUFFICES ASSUME UseInv, [Next]_vars PROVE UseInv'
  OBVIOUS
<1>. USE DEF Parsing
<1>1. CASE Match  BY <1>1, MoveOn DEF Match
<1>2. CASE Call  BY <1>2, MoveOn DEF Call
<1>3. CASE Build  BY <1>3, MoveOn DEF Build
<1>4. CASE Level  BY <1>4, MoveOn DEF Level
<1>5. CASE ReadAttr  BY <1>5, MoveOn DEF ReadAttr
<1>6. CASE Report  BY <1>6, ReportCounts, Failed DEF Report, UseInv
<1>7. CASE PassCatch  BY <1>7, MoveOn DEF PassCatch
<1>8. CASE FailInit  BY <1>8, ReportCounts, Failed DEF FailInit, Failing, UseInv
<1>9. CASE FailConstruct
  <2>1. Reported(errs) \in Nat /\ Reported(Reported(errs)) \in Nat  BY ReportCounts DEF UseInv
  <2>2. PICK e \in Nat : Abandon(e, pos)  BY <1>9, <2>1 DEF FailConstruct
  <2>. QED  BY <2>2, AbandonCounts
<1>10. CASE FailAttrs  BY <1>10, ReportCounts, Failed DEF FailAttrs, UseInv
<1>11. CASE SkipLayout
  <2>1. PICK p : Abandon(errs, p)  BY <1>11 DEF SkipLayout
  <2>. QED  BY <2>1, AbandonCounts DEF UseInv
<1>12. CASE NotAFunction  BY <1>12, ReportCounts, Failed DEF NotAFunction, UseInv
<1>13. CASE AttributedFunction  BY <1>13, MoveOn DEF AttributedFunction
<1>14. CASE Accept  BY <1>14, AcceptCovers
<1>15. CASE Begin
  <2>1. Covered(pos - 1)' <=> Covered(pos - 1)  BY <1>15 DEF Begin, Covered
  <2>. QED  BY <1>15, <2>1 DEF Begin, UseInv, InputOK, NothingLost
<1>16. CASE StrayBrace
  <2>1. pos \in DOMAIN input => input[pos] = Rbrace
    BY <1>16 DEF StrayBrace, Cur, TokenAt, UseInv, InputOK
  <2>2. ASSUME errs = 0 PROVE Covered(pos - 1)'
    <3>1. \A p \in DOMAIN input : p \in Nat /\ (p <= pos => p <= pos - 1 \/ p = pos)
      BY <1>16, <2>2 DEF UseInv, InputOK, NothingLost
    <3>2. Covered(pos - 1)  BY <1>16, <2>2 DEF StrayBrace, UseInv, NothingLost
    <3>3. Covered(pos)  BY <2>1, <3>1, <3>2 DEF Covered
    <3>4. UNCHANGED <<input, program>> /\ pos' - 1 = pos
      BY <1>16, <2>2 DEF StrayBrace, UseInv, NothingLost
    <3>. QED  BY <3>3, <3>4 DEF Covered
  <2>. QED  BY <1>16, <2>2 DEF StrayBrace, UseInv, InputOK, NothingLost
<1>17. CASE EndOfInput
  <2>1. errs = 0 => pos > Len(input)
    BY <1>17 DEF EndOfInput, Cur, TokenAt, UseInv, InputOK, NothingLost
  <2>2. Covered(pos - 1)' <=> Covered(pos - 1)  BY <1>17 DEF EndOfInput, Covered
  <2>. QED  BY <1>17, <2>1, <2>2 DEF EndOfInput, UseInv, InputOK, NothingLost
<1>18. CASE UNCHANGED vars
  BY <1>18 DEF vars, UseInv, InputOK, NothingLost, Covered
<1>. QED
  BY <1>1, <1>2, <1>3, <1>4, <1>5, <1>6, <1>7, <1>8, <1>9, <1>10, <1>11, <1>12, <1>13,
     <1>14, <1>15, <1>16, <1>17, <1>18 DEF Next

(* Every token of a file that ParseProgram accepts is in one of the constructs
   it returns, apart from } that close nothing: recovery never drops anything
   without an error that makes the caller drop everything. *)
THEOREM ReadInFull == Spec => []AcceptedMeansUsed
<1>1. UseInv => AcceptedMeansUsed
  <2>. SUFFICES ASSUME UseInv, mode = "done", errs = 0, NEW p \in DOMAIN input
                PROVE  \/ input[p] = Rbrace
                       \/ \E i \in DOMAIN Result : p \in Result[i][1] .. Result[i][2]
    BY DEF AcceptedMeansUsed
  <2>1. Result = program  BY DEF Result
  <2>2. p \in Nat /\ p <= pos - 1  BY DEF UseInv, InputOK, NothingLost
  <2>. QED  BY <2>1, <2>2 DEF UseInv, NothingLost, Covered
<1>. QED  BY <1>1, InitUse, NextUse, PTL DEF Spec

-----------------------------------------------------------------------------
(* The words of todo.  Expressions leave prec as they find it, apart from the
   steps that push and pop it; whatever may hold a statement is on the ground,
   that is outside all expressions. *)

Spelled == Tokens \cup {"ident", "typename", "rettype", "size"}
ExprWords == {"Ternary", "Unary", "Primary", "Call", "Args", "MoreArgs", "Postfix", "Index2"}
Plain == Spelled \cup Builders \cup ExprWords \cup {"Expr", "#fail"}
Pushes == {"#level", "#raise"}
Pops == {"Rhs", "RhsTail", "#return"}
Ground == (NonTerminals \ (ExprWords \cup {"Expr", "Rhs", "RhsTail"})) \cup {"Catch", "#attrs"}
Lower == Plain \cup (Ground \ {"StageVar", "Catch"}) \cup AttrSteps \cup {"#report", "#skip"}
Words == Lower \cup Pushes \cup Pops \cup {"StageVar", "Catch"}

LEMMA WordClasses ==
  /\ "eof" \notin Words
  /\ Plain \cap (Pushes \cup Pops \cup Ground) = {}
  /\ Lower \cap (Pushes \cup Pops \cup {"StageVar", "Catch"}) = {}
  /\ Pushes \cap (Pops \cup Ground) = {} /\ Pops \cap Ground = {}
  /\ AttrSteps \cap (Pushes \cup Pops \cup Ground) = {}
<1>. USE TokenWords DEF NonTerminals, Steps, Builders, LevelSteps, AttrSteps, Words, Lower, Plain,
       Spelled, ExprWords, Pushes, Pops, Ground
<1>1. "eof" \notin Words
  OBVIOUS
<1>2. Plain \cap (Pushes \cup Pops \cup Ground) = {}
  OBVIOUS
<1>3. Lower \cap (Pushes \cup Pops \cup {"StageVar", "Catch"}) = {}
  OBVIOUS
<1>4. Pushes \cap (Pops \cup Ground) = {} /\ Pops \cap Ground = {}
  OBVIOUS
<1>5. AttrSteps \cap (Pushes \cup Pops \cup Ground) = {}
  OBVIOUS
<1>. QED  BY ONLY <1>1, <1>2, <1>3, <1>4, <1>5

LEMMA Productions ==
  /\ Production("Expr") = ParseExpression
  /\ Production("Ternary") = ParseTernary(Cur)
  /\ Production("Unary") = ParseUnary(Cur)
  /\ Production("Rhs") = ParseBinOpRHS(Cur)
  /\ Production("RhsTail") = ParseBinOpTail(Cur)
  /\ Production("Primary") = ParsePrimary(Cur)
  /\ Production("Call") = ParseCall(Cur)
  /\ Production("Args") = ParseArgs(Cur)
  /\ Production("MoreArgs") = ParseMoreArgs(Cur)
  /\ Production("Postfix") = ParsePostfix(Cur)
  /\ Production("Index2") = ParseIndex2(Cur)
  /\ Production("Statement") = ParseStatement(Cur, Peek)
  /\ Production("Block") = ParseBlock
  /\ Production("BlockRest") = ParseBlockRest(Cur)
  /\ Production("Else") = ParseElse(Cur)
  /\ Production("ReturnValue") = ParseReturnValue(Cur)
  /\ Production("ForInit") = ParseForInit(Cur)
  /\ Production("ForCond") = ParseForCond(Cur)
  /\ Production("ForInc") = ParseForInc(Cur)
  /\ Production("AssignStatement") = ParseAssign(Cur, <<Semicolon>>)
  /\ Production("Assign") = ParseAssign(Cur, <<>>)
  /\ Production("VarDecl") = ParseVarDecl(Cur)
  /\ Production("VarRest") = ParseVarRest(Cur)
  /\ Production("ArrayInit") = ParseArrayInit(Cur)
  /\ Production("Elements") = ParseElements(Cur)
  /\ Production("MoreElements") = ParseMoreElements(Cur)
  /\ Production("Struct") = ParseStruct
  /\ Production("Fields") = ParseFields(Cur)
  /\ Production("ArraySuffix") = ParseArraySuffix(Cur)
  /\ Production("Uniform") = ParseUniform
  /\ Production("StageVar") = ParseStageVar(Cur)
  /\ Production("StorageBuffer") = ParseStorageBuffer(Cur)
  /\ Production("Unsized") = ParseUnsized(Cur)
  /\ Production("Function") = ParseFunction
  /\ Production("Params") = ParseParams(Cur)
  /\ Production("Param") = ParseParam(Cur)
  /\ Production("MoreParams") = ParseMoreParams(Cur)
  /\ Production("Attrs") = ParseFunctionAttrs(Cur)
  /\ Production("Attr") = ParseAttr(Cur)
  /\ Production("Dim") = ParseDim(Cur)
  /\ Production("Layout") = ParseLayout(Cur)
  /\ Production("Qualifiers") = ParseQualifiers(Cur)
  /\ Production("Value") = ParseValue(Cur)
  /\ Production("Slot") = ParseSlot(Cur)
  /\ Production("LayoutDecl") = ParseLayoutDecl(Cur)
BY DEF Production

\* The words that productions are written with.
LEMMA PlainWords ==
  /\ Idents \subseteq Plain /\ Numbers \subseteq Plain /\ Tokens \subseteq Plain
  /\ {Comma, "#arg", "#call", "#endcall", "#fail", "#index", "#index2", "#literal", "#member",
      "#op", "#paren", "#postfix", "#prefix", "#ternary", "#unary", "#var", "(", ")", "++", ".",
      ":", "?", "Args", "Call", "Expr", "Index2", "MoreArgs", "Postfix", "Primary", "Unary", "[",
      "]", "ident"} \subseteq Plain
BY DEF Plain, Spelled, Builders, ExprWords, Tokens

LEMMA ExprProductions ==
  ASSUME NEW c \in Tokens \cup {"eof"}
  PROVE  /\ ParseTernary(c) \in Seq(Plain)
         /\ ParseUnary(c) \in Seq(Plain)
         /\ ParsePrimary(c) \in Seq(Plain)
         /\ ParseCall(c) \in Seq(Plain)
         /\ ParseArgs(c) \in Seq(Plain)
         /\ ParseMoreArgs(c) \in Seq(Plain)
         /\ ParsePostfix(c) \in Seq(Plain)
         /\ ParseIndex2(c) \in Seq(Plain)
<1>1. ParseTernary(c) \in Seq(Plain)
  BY PlainWords DEF ParseTernary
<1>2. ParseUnary(c) \in Seq(Plain)
  BY PlainWords DEF ParseUnary
<1>3. ParsePrimary(c) \in Seq(Plain)
  BY PlainWords DEF ParsePrimary
<1>4. ParseCall(c) \in Seq(Plain)
  BY PlainWords DEF ParseCall
<1>5. ParseArgs(c) \in Seq(Plain)
  BY PlainWords DEF ParseArgs
<1>6. ParseMoreArgs(c) \in Seq(Plain)
  BY PlainWords DEF ParseMoreArgs
<1>7. ParsePostfix(c) \in Seq(Plain)
  BY PlainWords DEF ParsePostfix
<1>8. ParseIndex2(c) \in Seq(Plain)
  BY PlainWords DEF ParseIndex2
<1> QED BY <1>1, <1>2, <1>3, <1>4, <1>5, <1>6, <1>7, <1>8

LEMMA StatementWords ==
  /\ Idents \subseteq Lower /\ Numbers \subseteq Lower /\ Tokens \subseteq Lower
  /\ {Lbrace, Rbrace, Semicolon, "#drop", "#fail", "Assign", "AssignStatement", "Block",
      "BlockRest", "Expr", "Primary", "Statement", "Struct", "Uniform", "VarDecl"} \subseteq Lower
BY DEF Lower, Plain, Spelled, Builders, ExprWords, Ground, NonTerminals, AttrSteps, Tokens

LEMMA StatementKinds ==
  /\ ParseReturn \in Seq(Lower) /\ ParseWhile \in Seq(Lower) /\ ParseFor \in Seq(Lower)
  /\ ParseIf \in Seq(Lower) /\ ParseExprStatement \in Seq(Lower)
  /\ \A j \in Tokens : ParseJump(j) \in Seq(Lower)
<1>. {"return", "ReturnValue", "while", "for", "if", "(", ")", "ForInit", "ForCond", "ForInc",
       "Else"} \subseteq Lower
  BY DEF Lower, Plain, Spelled, ExprWords, Ground, NonTerminals, Tokens
<1>. QED
  BY StatementWords DEF ParseReturn, ParseWhile, ParseFor, ParseIf, ParseExprStatement, ParseJump

LEMMA StatementProductions ==
  ASSUME NEW c \in Tokens \cup {"eof"}, NEW n
  PROVE  /\ ParseStatement(c, n) \in Seq(Lower)
         /\ ParseBlock \in Seq(Lower)
         /\ ParseBlockRest(c) \in Seq(Lower)
         /\ ParseElse(c) \in Seq(Lower)
         /\ ParseReturnValue(c) \in Seq(Lower)
         /\ ParseForCond(c) \in Seq(Lower)
         /\ ParseForInc(c) \in Seq(Lower)
<1>1. ParseStatement(c, n) \in Seq(Lower)
  <2>. DEFINE Calls == {<<"Struct">>, <<"Uniform">>, <<"Block">>, <<"VarDecl">>,
                        <<"Primary", "AssignStatement">>, <<"#fail">>}
              Kinds == {ParseReturn, ParseWhile, ParseFor, ParseIf, ParseExprStatement}
                         \cup {ParseJump(j) : j \in Tokens}
  <2>1. ParseStatement(c, n) \in Calls \cup Kinds  BY DEF ParseStatement
  <2>2. Calls \subseteq Seq(Lower)  BY StatementWords
  <2>3. Kinds \subseteq Seq(Lower)  BY StatementKinds
  <2>. QED  BY ONLY <2>1, <2>2, <2>3
<1>2. ParseBlock \in Seq(Lower)
  BY StatementWords DEF ParseBlock
<1>3. ParseBlockRest(c) \in Seq(Lower)
  BY StatementWords DEF ParseBlockRest
<1>4. ParseElse(c) \in Seq(Lower)
  BY StatementWords DEF ParseElse
<1>5. ParseReturnValue(c) \in Seq(Lower)
  BY StatementWords DEF ParseReturnValue
<1>6. ParseForCond(c) \in Seq(Lower)
  BY StatementWords DEF ParseForCond
<1>7. ParseForInc(c) \in Seq(Lower)
  BY StatementWords DEF ParseForInc
<1> QED BY <1>1, <1>2, <1>3, <1>4, <1>5, <1>6, <1>7

LEMMA VarDeclWords ==
  /\ Idents \subseteq Lower /\ Numbers \subseteq Lower /\ Tokens \subseteq Lower
  /\ {Comma, Lbrace, Rbrace, Semicolon, "#count", "#drop", "#fail", "#op", "=", "ArrayInit",
      "Elements", "Expr", "MoreElements", "VarRest", "[", "]", "ident", "size", "typename"}
       \subseteq Lower
BY DEF Lower, Plain, Spelled, Builders, ExprWords, Ground, NonTerminals, AttrSteps, Tokens

LEMMA VarDeclProductions ==
  ASSUME NEW c \in Tokens \cup {"eof"}, NEW n
  PROVE  /\ ParseVarDecl(c) \in Seq(Lower)
         /\ ParseVarRest(c) \in Seq(Lower)
         /\ ParseArrayInit(c) \in Seq(Lower)
         /\ ParseElements(c) \in Seq(Lower)
         /\ ParseMoreElements(c) \in Seq(Lower)
<1>1. ParseVarDecl(c) \in Seq(Lower)
  BY VarDeclWords DEF ParseVarDecl
<1>2. ParseVarRest(c) \in Seq(Lower)
  BY VarDeclWords DEF ParseVarRest
<1>3. ParseArrayInit(c) \in Seq(Lower)
  BY VarDeclWords DEF ParseArrayInit
<1>4. ParseElements(c) \in Seq(Lower)
  BY VarDeclWords DEF ParseElements
<1>5. ParseMoreElements(c) \in Seq(Lower)
  BY VarDeclWords DEF ParseMoreElements
<1> QED BY <1>1, <1>2, <1>3, <1>4, <1>5

LEMMA DeclarationWords ==
  /\ Idents \subseteq Lower /\ Numbers \subseteq Lower /\ Tokens \subseteq Lower
  /\ {Comma, Lbrace, Rbrace, Semicolon, "#drop", "#field", "(", ")", "ArraySuffix", "Block",
      "Fields", "MoreParams", "Param", "Params", "Unsized", "[", "]", "buffer", "fn", "ident",
      "rettype", "size", "struct", "typename", "uniform"} \subseteq Lower
BY DEF Lower, Plain, Spelled, Builders, ExprWords, Ground, NonTerminals, AttrSteps, Tokens

LEMMA DeclarationProductions ==
  ASSUME NEW c \in Tokens \cup {"eof"}, NEW n
  PROVE  /\ ParseStruct \in Seq(Lower)
         /\ ParseFields(c) \in Seq(Lower)
         /\ ParseArraySuffix(c) \in Seq(Lower)
         /\ ParseUniform \in Seq(Lower)
         /\ ParseStorageBuffer(c) \in Seq(Lower)
         /\ ParseUnsized(c) \in Seq(Lower)
         /\ ParseFunction \in Seq(Lower)
         /\ ParseParams(c) \in Seq(Lower)
         /\ ParseParam(c) \in Seq(Lower)
         /\ ParseMoreParams(c) \in Seq(Lower)
<1>1. ParseStruct \in Seq(Lower)
  BY DeclarationWords DEF ParseStruct
<1>2. ParseFields(c) \in Seq(Lower)
  BY DeclarationWords DEF ParseFields
<1>3. ParseArraySuffix(c) \in Seq(Lower)
  BY DeclarationWords DEF ParseArraySuffix
<1>4. ParseUniform \in Seq(Lower)
  BY DeclarationWords DEF ParseUniform
<1>5. ParseStorageBuffer(c) \in Seq(Lower)
  BY DeclarationWords DEF ParseStorageBuffer
<1>6. ParseUnsized(c) \in Seq(Lower)
  BY DeclarationWords DEF ParseUnsized
<1>7. ParseFunction \in Seq(Lower)
  BY DeclarationWords DEF ParseFunction
<1>8. ParseParams(c) \in Seq(Lower)
  BY DeclarationWords DEF ParseParams
<1>9. ParseParam(c) \in Seq(Lower)
  BY DeclarationWords DEF ParseParam
<1>10. ParseMoreParams(c) \in Seq(Lower)
  BY DeclarationWords DEF ParseMoreParams
<1> QED BY <1>1, <1>2, <1>3, <1>4, <1>5, <1>6, <1>7, <1>8, <1>9, <1>10

LEMMA AttributeWords ==
  /\ Idents \subseteq Lower /\ Numbers \subseteq Lower /\ Tokens \subseteq Lower
  /\ {Comma, "#attrs", "#entry", "#fail", "#report", "#stage", "(", ")", "=", "@", "Attr",
      "Attrs", "Dim", "LayoutDecl", "Qualifiers", "Slot", "Value", "entry", "size", "stage"}
       \subseteq Lower
BY DEF Lower, Plain, Spelled, Builders, ExprWords, Ground, NonTerminals, AttrSteps, Tokens

LEMMA AttributeProductions ==
  ASSUME NEW c \in Tokens \cup {"eof"}, NEW n
  PROVE  /\ ParseFunctionAttrs(c) \in Seq(Lower)
         /\ ParseAttr(c) \in Seq(Lower)
         /\ ParseDim(c) \in Seq(Lower)
         /\ ParseLayout(c) \in Seq(Lower)
         /\ ParseQualifiers(c) \in Seq(Lower)
         /\ ParseValue(c) \in Seq(Lower)
         /\ ParseSlot(c) \in Seq(Lower)
<1>1. ParseFunctionAttrs(c) \in Seq(Lower)
  BY AttributeWords DEF ParseFunctionAttrs
<1>2. ParseAttr(c) \in Seq(Lower)
  BY AttributeWords DEF ParseAttr
<1>3. ParseDim(c) \in Seq(Lower)
  BY AttributeWords DEF ParseDim
<1>4. ParseLayout(c) \in Seq(Lower)
  BY AttributeWords DEF ParseLayout
<1>5. ParseQualifiers(c) \in Seq(Lower)
  BY AttributeWords DEF ParseQualifiers
<1>6. ParseValue(c) \in Seq(Lower)
  BY AttributeWords DEF ParseValue
<1>7. ParseSlot(c) \in Seq(Lower)
  BY AttributeWords DEF ParseSlot
<1> QED BY <1>1, <1>2, <1>3, <1>4, <1>5, <1>6, <1>7

-----------------------------------------------------------------------------
(* The levels of exprPrecedence that a sequence of words goes through. *)

\* Word w is met with m levels open, and n are open after it.
Fits(w, m, n) ==
  /\ w \in Pushes => n = m + 1
  /\ w \in Pops => m = n + 1
  /\ w \notin Pushes \cup Pops => n = m
  /\ w \in Ground => m = 0

Depth(s, d) ==
  /\ d \in [1 .. Len(s) + 1 -> Nat] /\ d[Len(s) + 1] = 0
  /\ \A i \in 1 .. Len(s) : Fits(s[i], d[i], d[i + 1])

\* With n levels open, s closes them all.
Balanced(s, n) == \E d : Depth(s, d) /\ d[1] = n

LEMMA BalancedNat == ASSUME NEW s \in Seq(Words), NEW n, Balanced(s, n) PROVE n \in Nat
<1>1. PICK d : Depth(s, d) /\ d[1] = n  BY DEF Balanced
<1>2. Len(s) \in Nat /\ 1 \in 1 .. Len(s) + 1  OBVIOUS
<1>. QED  BY <1>1, <1>2 DEF Depth

LEMMA BalancedEmpty == Balanced(<<>>, 0)
<1>1. Depth(<<>>, [i \in 1 .. 1 |-> 0])  BY DEF Depth
<1>. QED  BY <1>1 DEF Balanced

\* What is left of s after its first k words is balanced.
LEMMA Suffix ==
  ASSUME NEW s \in Seq(Words), NEW d, Depth(s, d), NEW k \in 0 .. Len(s)
  PROVE  Balanced(SubSeq(s, k + 1, Len(s)), d[k + 1])
<1>. DEFINE t == SubSeq(s, k + 1, Len(s))
            e == [i \in 1 .. Len(t) + 1 |-> d[i + k]]
<1>1. Len(s) \in Nat /\ k \in Nat /\ k <= Len(s)  OBVIOUS
<1>2. Len(t) = Len(s) - k /\ \A i \in 1 .. Len(t) : t[i] = s[i + k]  BY <1>1
<1>3. \A i \in 1 .. Len(t) + 1 : i + k \in 1 .. Len(s) + 1  BY <1>1, <1>2
<1>4. e \in [1 .. Len(t) + 1 -> Nat]  BY <1>3 DEF Depth
<1>5. e[Len(t) + 1] = 0  BY <1>1, <1>2 DEF Depth
<1>6. ASSUME NEW i \in 1 .. Len(t) PROVE Fits(t[i], e[i], e[i + 1])
  <2>1. i + k \in 1 .. Len(s) /\ e[i] = d[i + k] /\ e[i + 1] = d[i + k + 1]  BY <1>1, <1>2
  <2>. QED  BY <1>2, <2>1 DEF Depth
<1>7. e[1] = d[k + 1]  BY <1>1, <1>2
<1>. HIDE DEF t, e
<1>8. Depth(t, e)  BY <1>4, <1>5, <1>6 DEF Depth
<1>. QED  BY <1>7, <1>8 DEF Balanced, t

LEMMA TailBalanced ==
  ASSUME NEW s \in Seq(Words), s # <<>>, NEW m, Balanced(s, m)
  PROVE  \E n \in Nat : Balanced(Tail(s), n) /\ Fits(Head(s), m, n)
<1>1. PICK d : Depth(s, d) /\ d[1] = m  BY DEF Balanced
<1>2. Len(s) \in Nat /\ 1 <= Len(s)  OBVIOUS
<1>3. Tail(s) = SubSeq(s, 2, Len(s))  BY <1>2
<1>4. Balanced(SubSeq(s, 1 + 1, Len(s)), d[1 + 1])  BY <1>1, <1>2, Suffix
<1>5. d[2] \in Nat /\ Fits(Head(s), m, d[2])  BY <1>1, <1>2 DEF Depth
<1>6. PICK n : n = d[2]  OBVIOUS
<1>7. n \in Nat /\ Fits(Head(s), m, n)  BY <1>5, <1>6
<1>8. Balanced(Tail(s), n)
  <2>1. 1 + 1 = 2  OBVIOUS
  <2>2. Balanced(SubSeq(s, 2, Len(s)), d[2])  BY ONLY <1>4, <2>1, Zenon
  <2>. QED  BY ONLY <2>2, <1>3, <1>6, Zenon
<1>. QED  BY <1>7, <1>8

LEMMA ConsBalanced ==
  ASSUME NEW t \in Seq(Words), NEW w \in Words, NEW m \in Nat, NEW n, Balanced(t, n), Fits(w, m, n)
  PROVE  Balanced(<<w>> \o t, m)
<1>1. PICK d : Depth(t, d) /\ d[1] = n  BY DEF Balanced
<1>. DEFINE s == <<w>> \o t
            e == [i \in 1 .. Len(s) + 1 |-> IF i = 1 THEN m ELSE d[i - 1]]
<1>2. Len(t) \in Nat  OBVIOUS
<1>3. Len(s) = Len(t) + 1 /\ s[1] = w /\ \A i \in 2 .. Len(s) : s[i] = t[i - 1]  BY <1>2
<1>. HIDE DEF s
<1>4. \A i \in 2 .. Len(s) + 1 : e[i] = d[i - 1] /\ e[i] \in Nat
  <2>. SUFFICES ASSUME NEW i \in 2 .. Len(s) + 1 PROVE e[i] = d[i - 1] /\ e[i] \in Nat
    OBVIOUS
  <2>1. i \in 1 .. Len(s) + 1 /\ i # 1 /\ i - 1 \in 1 .. Len(t) + 1  BY <1>2, <1>3
  <2>. QED  BY <2>1, <1>1 DEF Depth
<1>5. e[1] = m  BY <1>2, <1>3
<1>6. e \in [1 .. Len(s) + 1 -> Nat] /\ e[Len(s) + 1] = 0  BY <1>1, <1>2, <1>3 DEF Depth
<1>. HIDE DEF e
<1>7. ASSUME NEW i \in 1 .. Len(s) PROVE Fits(s[i], e[i], e[i + 1])
  <2>1. CASE i = 1
    <3>1. e[2] = d[1]  BY <1>2, <1>3, <1>4
    <3>. QED  BY <2>1, <3>1, <1>1, <1>3, <1>5
  <2>2. CASE i # 1
    <3>1. i - 1 \in 1 .. Len(t) /\ e[i] = d[i - 1] /\ e[i + 1] = d[(i - 1) + 1] /\ s[i] = t[i - 1]
      BY <1>2, <1>3, <1>4, <2>2
    <3>2. PICK j \in 1 .. Len(t) : j = i - 1  BY <3>1
    <3>3. Fits(t[j], d[j], d[j + 1])  BY <1>1 DEF Depth
    <3>. QED  BY <3>1, <3>2, <3>3
  <2>. QED  BY <2>1, <2>2
<1>8. Depth(s, e)  BY <1>6, <1>7 DEF Depth
<1>. QED  BY <1>5, <1>8 DEF Balanced, s

\* Words that leave the levels alone, on the ground only if n = 0.
LEMMA PrefixBalanced ==
  ASSUME NEW p \in Seq(Words), NEW t \in Seq(Words), NEW n \in Nat, Balanced(t, n),
         \A i \in 1 .. Len(p) : p[i] \notin Pushes \cup Pops /\ (p[i] \in Ground => n = 0)
  PROVE  Balanced(p \o t, n)
<1>1. PICK d : Depth(t, d) /\ d[1] = n  BY DEF Balanced
<1>. DEFINE s == p \o t
            e == [i \in 1 .. Len(s) + 1 |-> IF i <= Len(p) THEN n ELSE d[i - Len(p)]]
<1>2. Len(t) \in Nat /\ Len(p) \in Nat  OBVIOUS
<1>3. /\ Len(s) = Len(p) + Len(t) /\ \A i \in 1 .. Len(p) : s[i] = p[i]
      /\ \A i \in Len(p) + 1 .. Len(s) : s[i] = t[i - Len(p)]
  BY <1>2
<1>. HIDE DEF s
<1>4. \A i \in 1 .. Len(s) + 1 : i <= Len(p) => e[i] = n  OBVIOUS
<1>5. \A i \in 1 .. Len(s) + 1 :
        i > Len(p) => e[i] = d[i - Len(p)] /\ i - Len(p) \in 1 .. Len(t) + 1 /\ e[i] \in Nat
  <2>. SUFFICES ASSUME NEW i \in 1 .. Len(s) + 1, i > Len(p)
                PROVE  e[i] = d[i - Len(p)] /\ i - Len(p) \in 1 .. Len(t) + 1 /\ e[i] \in Nat
    OBVIOUS
  <2>1. ~(i <= Len(p)) /\ i - Len(p) \in 1 .. Len(t) + 1  BY <1>2, <1>3
  <2>. QED  BY <2>1, <1>1 DEF Depth
<1>6. e \in [1 .. Len(s) + 1 -> Nat]  BY <1>1, <1>2, <1>3, <1>5 DEF Depth
<1>. HIDE DEF e
<1>7. e[Len(s) + 1] = 0
  <2>1. PICK j : j = Len(s) + 1  OBVIOUS
  <2>2. e[j] = d[j - Len(p)] /\ j - Len(p) = Len(t) + 1  BY <2>1, <1>2, <1>3, <1>5
  <2>. QED  BY <2>1, <2>2, <1>1 DEF Depth
<1>8. \A i \in 1 .. Len(p) + 1 : e[i] = n
  <2>1. \A i \in 1 .. Len(p) + 1 : i <= Len(p) \/ (i > Len(p) /\ i - Len(p) = 1)  BY <1>2
  <2>2. \A i \in 1 .. Len(p) + 1 : i \in 1 .. Len(s) + 1  BY <1>2, <1>3
  <2>. QED  BY <2>1, <2>2, <1>1, <1>4, <1>5
<1>9. ASSUME NEW i \in 1 .. Len(s) PROVE Fits(s[i], e[i], e[i + 1])
  <2>1. CASE i <= Len(p)
    <3>1. i \in 1 .. Len(p) /\ e[i] = n /\ e[i + 1] = n /\ s[i] = p[i]  BY <2>1, <1>2, <1>3, <1>8
    <3>. QED  BY <3>1 DEF Fits
  <2>2. CASE i > Len(p)
    <3>1. PICK j \in 1 .. Len(t) : j = i - Len(p)  BY <2>2, <1>2, <1>3
    <3>2. e[i] = d[j] /\ s[i] = t[j]  BY <3>1, <2>2, <1>2, <1>3, <1>5
    <3>3. e[i + 1] = d[j + 1]
      <4>1. i + 1 \in 1 .. Len(s) + 1 /\ i + 1 > Len(p) /\ (i + 1) - Len(p) = j + 1
        BY <3>1, <2>2, <1>2, <1>3
      <4>2. PICK k \in 1 .. Len(s) + 1 : k = i + 1  BY <4>1
      <4>. QED  BY <4>1, <4>2, <1>5
    <3>. QED  BY <3>2, <3>3, <1>1 DEF Depth
  <2>. QED  BY <2>1, <2>2, <1>2
<1>10. Depth(s, e) /\ e[1] = n  BY <1>2, <1>6, <1>7, <1>8, <1>9 DEF Depth
<1>. QED  BY <1>10 DEF Balanced, s

\* Before what closes n levels, p makes something that closes m.
Carries(p, m, n) == \A t \in Seq(Words) : Balanced(t, n) => Balanced(p \o t, m)

LEMMA CarriesWord ==
  ASSUME NEW w \in Words, NEW m \in Nat, NEW n \in Nat, Fits(w, m, n)
  PROVE  <<w>> \in Seq(Words) /\ Carries(<<w>>, m, n)
BY ConsBalanced DEF Carries

LEMMA CarriesPlain ==
  ASSUME NEW p \in Seq(Plain), NEW n \in Nat
  PROVE  p \in Seq(Words) /\ Carries(p, n, n)
<1>1. p \in Seq(Words)  BY DEF Words, Lower
<1>2. \A i \in 1 .. Len(p) : p[i] \notin Pushes \cup Pops /\ p[i] \notin Ground
  BY WordClasses
<1>. QED  BY <1>1, <1>2, PrefixBalanced DEF Carries

LEMMA CarriesLower ==
  ASSUME NEW p \in Seq(Lower)
  PROVE  p \in Seq(Words) /\ Carries(p, 0, 0)
<1>1. p \in Seq(Words)  BY DEF Words
<1>2. \A i \in 1 .. Len(p) : p[i] \notin Pushes \cup Pops  BY WordClasses
<1>. QED  BY <1>1, <1>2, PrefixBalanced DEF Carries

LEMMA CarriesBoth ==
  ASSUME NEW p \in Seq(Words), NEW q \in Seq(Words), NEW m, NEW k, NEW n,
         Carries(p, m, k), Carries(q, k, n)
  PROVE  p \o q \in Seq(Words) /\ Carries(p \o q, m, n)
<1>. SUFFICES ASSUME NEW t \in Seq(Words), Balanced(t, n) PROVE Balanced((p \o q) \o t, m)
  BY DEF Carries
<1>1. q \o t \in Seq(Words) /\ Balanced(q \o t, k)  BY DEF Carries
<1>2. Balanced(p \o (q \o t), m)  BY <1>1 DEF Carries
<1>3. p \o (q \o t) = (p \o q) \o t  OBVIOUS
<1>. QED  BY <1>2, <1>3

\* A subexpression: a level that is pushed first and popped by Rhs.
LEMMA CarriesLevel ==
  ASSUME NEW q \in Seq(Plain), NEW r \in Seq(Plain), NEW n \in Nat, NEW w \in Pushes
  PROVE  LET p == <<w>> \o (q \o (<<"Rhs">> \o r))
         IN  p \in Seq(Words) /\ Carries(p, n, n)
<1>1. PICK k \in Nat : k = n + 1  OBVIOUS
<1>2. w \in Words /\ Fits(w, n, k) /\ "Rhs" \in Words /\ Fits("Rhs", k, n)
  BY <1>1, WordClasses DEF Words, Fits, Pushes, Pops
<1>3. <<w>> \in Seq(Words) /\ Carries(<<w>>, n, k)  BY <1>2, CarriesWord
<1>4. <<"Rhs">> \in Seq(Words) /\ Carries(<<"Rhs">>, k, n)  BY <1>2, CarriesWord
<1>5. q \in Seq(Words) /\ Carries(q, k, k) /\ r \in Seq(Words) /\ Carries(r, n, n)
  BY CarriesPlain
<1>6. <<"Rhs">> \o r \in Seq(Words) /\ Carries(<<"Rhs">> \o r, k, n)
  BY <1>4, <1>5, CarriesBoth
<1>7. q \o (<<"Rhs">> \o r) \in Seq(Words) /\ Carries(q \o (<<"Rhs">> \o r), k, n)
  BY ONLY <1>5, <1>6, CarriesBoth
<1>. QED  BY ONLY <1>3, <1>7, CarriesBoth

-----------------------------------------------------------------------------
(* What each parse function leaves to do, where c is the current token. *)

Good(s, p, c) ==
  /\ p \in Seq(Words)
  /\ s # "ForInit" => \A i \in 1 .. Len(p) : p[i] # "Catch"
  /\ \A i \in 1 .. Len(p) : p[i] = "StageVar" => i = 1 /\ c \in {"in", "out"}
  /\ \A m, n \in Nat : Fits(s, m, n) => Carries(p, m, n)

LEMMA PlainGood ==
  ASSUME NEW s \in NonTerminals \ Pops, NEW p \in Seq(Plain), NEW c
  PROVE  Good(s, p, c)
<1>1. s \notin Pushes
  BY DEF Pushes, NonTerminals
<1>2. \A i \in 1 .. Len(p) : p[i] \notin {"Catch", "StageVar"}
  <2>1. "Catch" \in Ground /\ "StageVar" \in Ground  BY DEF Ground, NonTerminals, ExprWords
  <2>. QED  BY <2>1, WordClasses
<1>3. \A m, n \in Nat : Fits(s, m, n) => m = n  BY <1>1 DEF Fits
<1>. QED  BY <1>2, <1>3, CarriesPlain DEF Good

LEMMA LowerGood ==
  ASSUME NEW s \in NonTerminals \cap Ground, NEW p \in Seq(Lower), NEW c
  PROVE  Good(s, p, c)
<1>1. \A i \in 1 .. Len(p) : p[i] \notin {"Catch", "StageVar"}  BY WordClasses
<1>2. \A m, n \in Nat : Fits(s, m, n) => m = 0 /\ n = 0  BY WordClasses DEF Fits
<1>3. 0 \in Nat  OBVIOUS
<1>. QED  BY <1>1, <1>2, <1>3, CarriesLower DEF Good

\* An expression, and the rest of one after its first operand.
LEMMA LevelGood ==
  ASSUME NEW s \in NonTerminals \ Pops, NEW c, NEW q \in Seq(Plain), NEW r \in Seq(Plain)
  PROVE  Good(s, <<"#level">> \o (q \o (<<"Rhs">> \o r)), c)
<1>. DEFINE p == <<"#level">> \o (q \o (<<"Rhs">> \o r))
<1>1. s \notin Pushes /\ "#level" \in Pushes
  BY DEF Pushes, NonTerminals
<1>2. \A m, n \in Nat : Fits(s, m, n) => m = n  BY <1>1 DEF Fits
<1>3. p \in Seq(Words) /\ \A n \in Nat : Carries(p, n, n)
  <2>1. 0 \in Nat  OBVIOUS
  <2>. QED  BY <1>1, <2>1, CarriesLevel
<1>4. \A i \in 1 .. Len(p) : p[i] \notin {"Catch", "StageVar"}
  <2>1. \A i \in 1 .. Len(p) : p[i] \in Plain \cup {"#level", "Rhs"}  OBVIOUS
  <2>2. {"Catch", "StageVar"} \cap (Plain \cup {"#level", "Rhs"}) = {}
    <3>1. {"Catch", "StageVar"} \subseteq Ground  BY DEF Ground, NonTerminals, ExprWords
    <3>2. {"#level", "Rhs"} \subseteq Pushes \cup Pops  BY DEF Pushes, Pops
    <3>. QED  BY <3>1, <3>2, WordClasses
  <2>. QED  BY <2>1, <2>2
<1>. HIDE DEF p
<1>. QED  BY <1>2, <1>3, <1>4 DEF Good, p

\* The parse functions that only call on those of statements and declarations.
Outer == {"Statement", "Block", "BlockRest", "Else", "ReturnValue", "ForCond", "ForInc",
          "VarDecl", "VarRest", "ArrayInit", "Elements", "MoreElements", "Struct", "Fields",
          "ArraySuffix", "Uniform", "StorageBuffer", "Unsized", "Function", "Params", "Param",
          "MoreParams", "Attrs", "Attr", "Dim", "Layout", "Qualifiers", "Value", "Slot"}

LEMMA ParseFunctions ==
  NonTerminals = ExprWords \cup Outer
    \cup {"Expr", "Rhs", "RhsTail", "Assign", "AssignStatement", "StageVar", "ForInit",
           "LayoutDecl"}
BY DEF NonTerminals, ExprWords, Outer

LEMMA ExprGood ==
  ASSUME NEW s \in ExprWords, Cur \in Tokens \cup {"eof"}
  PROVE  Good(s, Production(s), Cur)
<1>1. Production(s) \in Seq(Plain)
  BY Productions, ExprProductions DEF ExprWords
<1>2. s \in NonTerminals \ Pops  BY DEF ExprWords, NonTerminals, Pops
<1>. QED  BY <1>1, <1>2, PlainGood

LEMMA OuterGood ==
  ASSUME NEW s \in Outer, Cur \in Tokens \cup {"eof"}
  PROVE  Good(s, Production(s), Cur)
<1>. DEFINE L == Seq(Lower)
<1>1. Production(s) \in L
  <2>. HIDE DEF L
  <2>1. CASE s \in {"Statement", "Block", "BlockRest", "Else", "ReturnValue", "ForCond", "ForInc"}
    BY <2>1, Productions, StatementProductions DEF L
  <2>2. CASE s \in {"VarDecl", "VarRest", "ArrayInit", "Elements", "MoreElements"}
    BY <2>2, Productions, VarDeclProductions DEF L
  <2>3. CASE s \in {"Struct", "Fields", "ArraySuffix", "Uniform", "StorageBuffer", "Unsized",
                  "Function", "Params", "Param", "MoreParams"}
    BY <2>3, Productions, DeclarationProductions DEF L
  <2>4. CASE s \in {"Attrs", "Attr", "Dim", "Layout", "Qualifiers", "Value", "Slot"}
    BY <2>4, Productions, AttributeProductions DEF L
  <2>. QED  BY <2>1, <2>2, <2>3, <2>4 DEF Outer
<1>2. s \in NonTerminals \cap Ground  BY DEF Outer, NonTerminals, Ground, ExprWords
<1>. QED  BY <1>1, <1>2, LowerGood

LEMMA ExpressionGood == Good("Expr", ParseExpression, Cur)
<1>1. <<"Unary">> \in Seq(Plain) /\ <<"Ternary">> \in Seq(Plain)  BY DEF Plain, ExprWords
<1>2. ParseExpression = <<"#level">> \o (<<"Unary">> \o (<<"Rhs">> \o <<"Ternary">>))
  BY DEF ParseExpression
<1>3. "Expr" \in NonTerminals \ Pops  BY DEF NonTerminals, Pops
<1>. QED  BY <1>1, <1>2, <1>3, LevelGood

LEMMA AssignGood ==
  ASSUME NEW s \in {"Assign", "AssignStatement"}, NEW c \in Tokens \cup {"eof"},
         NEW semi, semi = <<>> \/ semi = <<Semicolon>>
  PROVE  Good(s, ParseAssign(c, semi), c)
<1>0. s \in NonTerminals \ Pops /\ s \in Ground
  BY DEF NonTerminals, Pops, Ground, ExprWords
<1>1. semi \in Seq(Plain) /\ <<"Ternary">> \in Seq(Plain) /\ <<"#drop">> \in Seq(Plain)
  <2>1. Semicolon \in Tokens  BY DEF Tokens
  <2>2. {"Ternary", "#drop"} \subseteq Plain  BY DEF Plain, ExprWords, Builders
  <2>3. <<>> \in Seq(Plain) /\ <<Semicolon>> \in Seq(Plain)  BY <2>1, PlainWords
  <2>4. semi \in Seq(Plain)  BY ONLY <2>3, semi = <<>> \/ semi = <<Semicolon>>, Zenon
  <2>. QED  BY <2>2, <2>4
<1>2. CASE c \in {"=", "op="}
  <2>1. c \in Tokens  BY <1>2 DEF Tokens
  <2>2. <<c, "Expr">> \in Seq(Plain) /\ <<"#lvalue">> \in Seq(Plain)
    BY <2>1, PlainWords DEF Plain, Builders
  <2>3. <<c, "Expr">> \o semi \o <<"#lvalue">> \in Seq(Plain)  BY <1>1, <2>2
  <2>. QED  BY <1>0, <1>2, <2>3, PlainGood DEF ParseAssign
<1>3. CASE c \notin {"=", "op="}
  <2>. DEFINE r == <<"Ternary">> \o semi \o <<"#drop">>
  <2>1. r \in Seq(Plain) /\ <<>> \in Seq(Plain)  BY <1>1
  <2>2. Good(s, <<"#level">> \o (<<>> \o (<<"Rhs">> \o r)), c)  BY <1>0, <2>1, LevelGood
  <2>3. ParseAssign(c, semi) = <<"#level", "Rhs", "Ternary">> \o semi \o <<"#drop">>
    BY <1>3 DEF ParseAssign
  <2>4. <<"#level", "Rhs", "Ternary">> \o semi \o <<"#drop">>
         = <<"#level">> \o (<<>> \o (<<"Rhs">> \o r))
    OBVIOUS
  <2>. QED  BY <2>2, <2>3, <2>4
<1>. QED  BY <1>2, <1>3

LEMMA RhsGood ==
  ASSUME Cur \in Tokens \cup {"eof"}, Head(prec) \in Nat
  PROVE  Good("Rhs", ParseBinOpRHS(Cur), Cur)
<1>1. \A m, n \in Nat : Fits("Rhs", m, n) => m = n + 1  BY DEF Fits, Pops
<1>2. CASE Precedence(Cur) < Head(prec)
  <2>1. ParseBinOpRHS(Cur) = <<"#return">>  BY <1>2 DEF ParseBinOpRHS
  <2>2. "#return" \in Words  BY DEF Words, Pops
  <2>3. \A m, n \in Nat : m = n + 1 => Fits("#return", m, n)  BY WordClasses DEF Fits, Pops
  <2>4. \A m, n \in Nat : m = n + 1 => Carries(<<"#return">>, m, n)  BY <2>2, <2>3, CarriesWord
  <2>. QED  BY <1>1, <2>1, <2>2, <2>4 DEF Good
<1>3. CASE ~(Precedence(Cur) < Head(prec))
  <2>1. Cur \in Tokens  BY <1>3 DEF Precedence, Tokens
  <2>2. ParseBinOpRHS(Cur) = <<"#op", Cur, "Unary">> \o <<"RhsTail">>  BY <1>3 DEF ParseBinOpRHS
  <2>3. <<"#op", Cur, "Unary">> \in Seq(Plain)  BY <2>1, PlainWords
  <2>4. "RhsTail" \in Words  BY DEF Words, Pops
  <2>5. \A m, n \in Nat : m = n + 1 => Fits("RhsTail", m, n)  BY WordClasses DEF Fits, Pops
  <2>6. \A m, n \in Nat : m = n + 1 => Carries(<<"RhsTail">>, m, n)  BY <2>4, <2>5, CarriesWord
  <2>. DEFINE a == <<"#op", Cur, "Unary">>
  <2>. HIDE DEF a
  <2>10. a \in Seq(Words) /\ \A m \in Nat : Carries(a, m, m)
    <3>1. 0 \in Nat /\ a \in Seq(Plain)  BY <2>3 DEF a
    <3>. QED  BY <3>1, CarriesPlain
  <2>11. <<"RhsTail">> \in Seq(Words)  BY <2>4
  <2>7. \A m, n \in Nat : m = n + 1 => Carries(ParseBinOpRHS(Cur), m, n)
    <3>. SUFFICES ASSUME NEW m \in Nat, NEW n \in Nat, m = n + 1
                  PROVE  Carries(a \o <<"RhsTail">>, m, n)
      BY <2>2 DEF a
    <3>1. Carries(a, m, m) /\ Carries(<<"RhsTail">>, m, n)  BY <2>6, <2>10
    <3>. QED  BY ONLY <3>1, <2>10, <2>11, CarriesBoth, Zenon
  <2>8. ParseBinOpRHS(Cur) \in Seq(Words)  BY <2>2, <2>10, <2>11 DEF a
  <2>9. \A i \in 1 .. Len(ParseBinOpRHS(Cur)) : ParseBinOpRHS(Cur)[i] \notin {"Catch", "StageVar"}
    <3>1. "Catch" \notin Plain /\ "StageVar" \notin Plain
      BY WordClasses DEF Ground, NonTerminals, ExprWords
    <3>. QED  BY <2>2, <2>3, <3>1
  <2>. QED  BY <1>1, <2>7, <2>8, <2>9 DEF Good
<1>. QED  BY <1>2, <1>3

LEMMA TailGood == Good("RhsTail", ParseBinOpTail(Cur), Cur)
<1>1. \A m, n \in Nat : Fits("RhsTail", m, n) => m = n + 1  BY DEF Fits, Pops
<1>2. "Rhs" \in Words /\ "#raise" \in Pushes  BY DEF Words, Pushes, Pops
<1>3. \A m, n \in Nat : m = n + 1 => Fits("Rhs", m, n)  BY WordClasses DEF Fits, Pops
<1>4. \A m, n \in Nat : m = n + 1 => Carries(<<"Rhs">>, m, n)  BY <1>2, <1>3, CarriesWord
<1>5. <<"#binary">> \in Seq(Plain) /\ <<>> \in Seq(Plain)  BY DEF Plain, Builders
<1>. DEFINE p == <<"#binary">> \o <<"Rhs">>
            l == <<"#raise">> \o (<<>> \o (<<"Rhs">> \o <<"#binary">>))
            q == l \o <<"Rhs">>
<1>6. ParseBinOpTail(Cur) \in {p, q}  BY DEF ParseBinOpTail
<1>7. p \in Seq(Words) /\ \A m, n \in Nat : m = n + 1 => Carries(p, m, n)
  <2>1. <<"#binary">> \in Seq(Words) /\ \A m \in Nat : Carries(<<"#binary">>, m, m)
    <3>1. 0 \in Nat  OBVIOUS
    <3>. QED  BY <1>5, <3>1, CarriesPlain
  <2>2. <<"Rhs">> \in Seq(Words)  BY <1>2
  <2>. HIDE DEF p
  <2>3. p \in Seq(Words)  BY <1>2, <2>1 DEF p
  <2>. QED  BY <1>4, <2>1, <2>2, <2>3, CarriesBoth DEF p
<1>8. q \in Seq(Words) /\ \A m, n \in Nat : m = n + 1 => Carries(q, m, n)
  <2>1. l \in Seq(Words) /\ \A m \in Nat : Carries(l, m, m)
    <3>1. 0 \in Nat  OBVIOUS
    <3>. QED  BY <1>2, <1>5, <3>1, CarriesLevel
  <2>2. <<"Rhs">> \in Seq(Words)  BY <1>2
  <2>. HIDE DEF l
  <2>3. q \in Seq(Words)  BY <2>1, <2>2
  <2>. QED  BY <1>4, <2>1, <2>2, <2>3, CarriesBoth
<1>9. \A i \in 1 .. Len(ParseBinOpTail(Cur)) : ParseBinOpTail(Cur)[i] \notin {"Catch", "StageVar"}
  BY DEF ParseBinOpTail
<1>. HIDE DEF p, q
<1>. QED  BY <1>1, <1>6, <1>7, <1>8, <1>9 DEF Good

LEMMA StageVarGood ==
  ASSUME NEW c \in {"in", "out"}
  PROVE  Good("StageVar", ParseStageVar(c), c)
<1>1. {c, "typename", "ident", "ArraySuffix", Semicolon} \subseteq Lower
  BY DEF Lower, Plain, Spelled, Tokens, Ground, NonTerminals, ExprWords
<1>2. ParseStageVar(c) \in Seq(Lower)  BY <1>1 DEF ParseStageVar
<1>3. "StageVar" \in NonTerminals \cap Ground  BY DEF NonTerminals, Ground, ExprWords
<1>. QED  BY <1>2, <1>3, LowerGood

\* The words of the ground that may not stand everywhere.
LEMMA GroundGood ==
  ASSUME NEW s \in NonTerminals \cap Ground, NEW c, NEW w \in Ground
  PROVE  /\ (w # "Catch" /\ (w = "StageVar" => c \in {"in", "out"})) => Good(s, <<w>>, c)
         /\ w \in Lower /\ s = "ForInit" => Good(s, <<w, "Catch">>, c)
<1>1. Ground \subseteq Words /\ "Catch" \in Ground  BY DEF Words, Lower, Ground
<1>2. Ground \cap (Pushes \cup Pops) = {}  BY WordClasses
<1>3. \A m, n \in Nat : Fits(s, m, n) => m = 0 /\ n = 0  BY <1>2 DEF Fits
<1>4. ASSUME NEW v \in Ground PROVE <<v>> \in Seq(Words) /\ Carries(<<v>>, 0, 0)
  <2>1. Fits(v, 0, 0)  BY <1>2 DEF Fits
  <2>. QED  BY <1>1, <2>1, CarriesWord
<1>5. (w # "Catch" /\ (w = "StageVar" => c \in {"in", "out"})) => Good(s, <<w>>, c)
  BY <1>3, <1>4 DEF Good
<1>6. <<w, "Catch">> = <<w>> \o <<"Catch">>  OBVIOUS
<1>7. <<w, "Catch">> \in Seq(Words) /\ Carries(<<w, "Catch">>, 0, 0)
  <2>1. <<w>> \in Seq(Words) /\ Carries(<<w>>, 0, 0)  BY <1>4
  <2>2. <<"Catch">> \in Seq(Words) /\ Carries(<<"Catch">>, 0, 0)  BY <1>1, <1>4
  <2>3. /\ <<w>> \o <<"Catch">> \in Seq(Words)
        /\ Carries(<<w>> \o <<"Catch">>, 0, 0)
    BY ONLY <2>1, <2>2, CarriesBoth, Zenon
  <2>. QED  BY ONLY <2>3, <1>6, Zenon
<1>8. w \in Lower => w # "StageVar"  BY WordClasses
<1>9. w \in Lower /\ s = "ForInit" => Good(s, <<w, "Catch">>, c)
  BY <1>3, <1>7, <1>8 DEF Good
<1>. QED  BY <1>5, <1>9

\* Every production.
LEMMA CallGood ==
  ASSUME NEW s \in NonTerminals, Cur \in Tokens \cup {"eof"},
         s = "StageVar" => Cur \in {"in", "out"}, s = "Rhs" => Head(prec) \in Nat
  PROVE  Good(s, Production(s), Cur)
<1>1. CASE s \in ExprWords  BY <1>1, ExprGood
<1>2. CASE s \in Outer  BY <1>2, OuterGood
<1>3. CASE s = "Expr"  BY <1>3, ExpressionGood, Productions
<1>4. CASE s = "Rhs"  BY <1>4, RhsGood, Productions
<1>5. CASE s = "RhsTail"  BY <1>5, TailGood, Productions
<1>6. CASE s \in {"Assign", "AssignStatement"}  BY <1>6, AssignGood, Productions
<1>7. CASE s = "StageVar"  BY <1>7, StageVarGood, Productions
<1>8. CASE s = "ForInit"
  <2>1. s \in NonTerminals \cap Ground /\ "Statement" \in Ground \cap Lower
    BY <1>8 DEF NonTerminals, Ground, ExprWords, Lower
  <2>2. <<Semicolon>> \in Seq(Lower)  BY StatementWords
  <2>3. ParseForInit(Cur) \in {<<Semicolon>>, <<"Statement", "Catch">>}  BY DEF ParseForInit
  <2>. QED  BY <1>8, <2>1, <2>2, <2>3, LowerGood, GroundGood, Productions
<1>9. CASE s = "LayoutDecl"
  <2>1. s \in NonTerminals \cap Ground /\ {"Uniform", "StageVar", "StorageBuffer"} \subseteq Ground
    BY <1>9 DEF NonTerminals, Ground, ExprWords
  <2>2. <<"#report", "#skip">> \in Seq(Lower)  BY DEF Lower
  <2>3. \/ ParseLayoutDecl(Cur) \in {<<"Uniform">>, <<"StorageBuffer">>, <<"#report", "#skip">>}
        \/ ParseLayoutDecl(Cur) = <<"StageVar">> /\ Cur \in {"in", "out"}
    BY DEF ParseLayoutDecl
  <2>. QED  BY <1>9, <2>1, <2>2, <2>3, LowerGood, GroundGood, Productions
<1>. QED  BY <1>1, <1>2, <1>3, <1>4, <1>5, <1>6, <1>7, <1>8, <1>9, ParseFunctions

-----------------------------------------------------------------------------
(* Positions. *)

LEMMA TokenIs ==
  ASSUME input \in Seq(Tokens), NEW p \in 1 .. Len(input) + 1
  PROVE  TokenAt(p) \in Tokens \cup {"eof"} /\ (TokenAt(p) = "eof" <=> p = Len(input) + 1)
<1>1. Len(input) \in Nat  OBVIOUS
<1>2. p <= Len(input) => TokenAt(p) \in Tokens  BY <1>1 DEF TokenAt
<1>3. ~(p <= Len(input)) => TokenAt(p) = "eof" /\ p = Len(input) + 1  BY <1>1 DEF TokenAt
<1>. QED  BY <1>1, <1>2, <1>3, TokenWords

LEMMA LeastNat ==
  ASSUME NEW S \in SUBSET Nat, S # {}
  PROVE  \E m \in S : \A k \in S : m <= k
<1> DEFINE T == {0 .. n : n \in S}
<1>1. ASSUME NEW n \in S PROVE 0 .. n \in FiniteSubsetsOf(Nat)
  <2>1. IsFiniteSet(0 .. n)  BY FS_Interval
  <2> QED BY <2>1 DEF FiniteSubsetsOf
<1>2. T \subseteq FiniteSubsetsOf(Nat) /\ T # {}
  BY <1>1
<1>3. PICK x \in T : \A y \in T : ~ (<<y, x>> \in StrictSubsetOrdering(Nat))
  <2> HIDE DEF T
  <2> QED BY <1>2, WFMin, FS_StrictSubsetOrderingWellFounded
<1>4. PICK m \in S : x = 0 .. m
  BY <1>3
<1>5. ASSUME NEW k \in S, ~(m <= k) PROVE FALSE
  <2>1. 0 .. k \subseteq 0 .. m /\ m \in 0 .. m /\ m \notin 0 .. k
    BY <1>5
  <2>2. <<0 .. k, x>> \in StrictSubsetOrdering(Nat)
    <3>1. 0 .. k \in SUBSET Nat /\ x \in SUBSET Nat /\ 0 .. k \subseteq x /\ 0 .. k # x
      BY <1>4, <2>1
    <3> QED BY <3>1 DEF StrictSubsetOrdering
  <2>3. 0 .. k \in T
    OBVIOUS
  <2> QED BY <1>3, <2>2, <2>3
<1> QED BY <1>5

LEMMA FirstIs ==
  ASSUME input \in Seq(Tokens), NEW p \in 1 .. Len(input) + 1, NEW ts
  PROVE  LET q == FirstOf(ts, p)
         IN  /\ q \in p .. Len(input) + 1 /\ TokenAt(q) \in ts \cup {"eof"}
             /\ \A r \in p .. q - 1 : TokenAt(r) \notin ts
<1>. DEFINE S == {q \in p .. Len(input) + 1 : TokenAt(q) \in ts \cup {"eof"}}
<1>1. Len(input) \in Nat  OBVIOUS
<1>2. Len(input) + 1 \in S
  <2>1. PICK e \in 1 .. Len(input) + 1 : e = Len(input) + 1  BY <1>1
  <2>2. TokenAt(e) = "eof"  BY <2>1, TokenIs
  <2>. QED  BY <1>1, <2>1, <2>2
<1>3. S \in SUBSET Nat  BY <1>1
<1>4. PICK q \in S : \A r \in S : q <= r  BY <1>2, <1>3, LeastNat
<1>5. \A r \in p .. q - 1 : TokenAt(r) \notin ts
  <2>1. \A r \in p .. q - 1 : r \in p .. Len(input) + 1 /\ ~(q <= r)  BY <1>1, <1>4
  <2>. QED  BY <1>4, <2>1
<1>. QED  BY <1>4, <1>5 DEF FirstOf

SyncTokens == {Semicolon, Rbrace, "fn", "struct", "@"}

LEMMA SyncMoves ==
  ASSUME input \in Seq(Tokens), NEW p \in 1 .. Len(input) + 1
  PROVE  /\ SyncFrom(p) \in p .. Len(input) + 1
         /\ TokenAt(p) \notin {"fn", "struct", "@", "eof"} => SyncFrom(p) > p
<1>1. PICK q : q = FirstOf(SyncTokens, p)  OBVIOUS
<1>2. /\ q \in p .. Len(input) + 1 /\ TokenAt(q) \in SyncTokens \cup {"eof"}
      /\ \A r \in p .. q - 1 : TokenAt(r) \notin SyncTokens
  BY <1>1, FirstIs
<1>3. Len(input) \in Nat  OBVIOUS
<1>4. SyncFrom(p) = IF TokenAt(q) \in {Semicolon, Rbrace} THEN q + 1 ELSE q
  BY <1>1 DEF SyncFrom, SyncTokens
<1>5. TokenAt(q) \in {Semicolon, Rbrace} => q <= Len(input)
  <2>1. Semicolon # "eof" /\ Rbrace # "eof"  BY TokenWords DEF Tokens
  <2>2. q \in 1 .. Len(input) + 1  BY <1>2, <1>3
  <2>3. TokenAt(q) \in {Semicolon, Rbrace} => q # Len(input) + 1  BY <2>1, <2>2, TokenIs
  <2>. QED  BY <2>2, <2>3, <1>3
<1>6. SyncFrom(p) \in p .. Len(input) + 1
  BY <1>2, <1>3, <1>4, <1>5
<1>7. ASSUME TokenAt(p) \notin {"fn", "struct", "@", "eof"} PROVE SyncFrom(p) > p
  <2>1. q = p => TokenAt(q) \in {Semicolon, Rbrace}  BY <1>2, <1>7 DEF SyncTokens
  <2>. QED  BY <1>2, <1>3, <1>4, <2>1
<1>. QED  BY <1>6, <1>7

-----------------------------------------------------------------------------
(* What a construct begins with. *)

\* Words that are not done with before a token is taken.
Eats == Spelled \cup {"Statement", "Struct", "Uniform", "VarDecl", "Block", "Expr", "Unary",
                      "Primary", "StageVar", "#fail"}
Silent == {"#level", "#op", "#var", "#literal"}

Opens(s) ==
  \/ s # <<>> /\ s[1] \in Eats
  \/ Len(s) > 1 /\ s[1] \in Silent /\ s[2] \in Eats

\* What is left to do while no token of the construct, which begins with c, was taken.
Opening(s, c) ==
  /\ c \notin {"eof", Rbrace}
  /\ \A i \in 1 .. Len(s) : s[i] # "Catch"
  /\ c = "fn" => s = <<"Function">> \/ s = ParseFunction
  /\ c = "@" => s = <<"Attrs">> \/ s = <<"@", "Attr">>
  /\ c = "struct" => s = <<"Statement">> \/ s = <<"Struct">> \/ s = ParseStruct
  /\ c \notin {"fn", "@", "struct"} => Opens(s)

LEMMA OpensMore ==
  ASSUME NEW s \in Seq(Words), NEW t \in Seq(Words), Opens(s)
  PROVE  Opens(s \o t)
<1>1. Len(s) \in Nat /\ Len(t) \in Nat /\ Len(s \o t) = Len(s) + Len(t)  OBVIOUS
<1>2. \A i \in 1 .. Len(s) : (s \o t)[i] = s[i]  OBVIOUS
<1>3. CASE s # <<>> /\ s[1] \in Eats
  <2>1. Len(s) >= 1 /\ (s \o t)[1] = s[1]  BY <1>1, <1>2, <1>3
  <2>2. s \o t # <<>>  BY <1>1, <2>1
  <2>. QED  BY <1>3, <2>1, <2>2 DEF Opens
<1>4. CASE Len(s) > 1 /\ s[1] \in Silent /\ s[2] \in Eats
  <2>1. (s \o t)[1] = s[1] /\ (s \o t)[2] = s[2] /\ Len(s \o t) > 1  BY <1>1, <1>2, <1>4
  <2>. QED  BY <1>4, <2>1 DEF Opens
<1>. QED  BY <1>3, <1>4 DEF Opens

LEMMA EatsTokens ==
  Tokens \subseteq Eats
    /\ {"typename", "ident", "Statement", "Struct", "Uniform", "VarDecl", "Block", "Expr", "Unary",
        "Primary", "StageVar", "#fail"} \subseteq Eats
    /\ {Lbrace, "struct", "uniform", "return", "while", "for", "if", "const", "("} \subseteq Tokens
BY DEF Eats, Spelled, Tokens

LEMMA StatementOpens == ASSUME NEW c \in Tokens, NEW n PROVE Opens(ParseStatement(c, n))
<1>. DEFINE Calls == {<<"Struct">>, <<"Uniform">>, <<"Block">>, <<"VarDecl">>,
                      <<"Primary", "AssignStatement">>, <<"#fail">>}
            Kinds == {ParseReturn, ParseWhile, ParseFor, ParseIf, ParseExprStatement}
                       \cup {ParseJump(j) : j \in Tokens}
<1>1. ParseStatement(c, n) \in Calls \cup Kinds  BY DEF ParseStatement
<1>2. \A s \in Calls : Opens(s)  BY EatsTokens DEF Opens
<1>3. \A s \in Kinds : Opens(s)
  BY EatsTokens DEF Opens, ParseReturn, ParseWhile, ParseFor, ParseIf, ParseExprStatement, ParseJump
<1>. QED  BY ONLY <1>1, <1>2, <1>3

LEMMA EatsOpens ==
  ASSUME NEW s \in Eats, s \in NonTerminals, Cur \in Tokens, s = "StageVar" => Cur \in {"in", "out"}
  PROVE  Opens(Production(s))
<1>0. s \in {"Statement", "Struct", "Uniform", "VarDecl", "Block", "Expr", "Unary", "Primary",
            "StageVar"}
  BY TokenWords DEF Eats, Spelled, NonTerminals
<1>1. CASE s = "Statement"  BY <1>1, StatementOpens, Productions
<1>2. CASE s \in {"Struct", "Uniform", "Block"}
  <2>1. Opens(ParseStruct)  BY EatsTokens DEF ParseStruct, Opens
  <2>2. Opens(ParseUniform)  BY EatsTokens DEF ParseUniform, Opens
  <2>3. Opens(ParseBlock)  BY EatsTokens DEF ParseBlock, Opens
  <2>. QED  BY <1>2, <2>1, <2>2, <2>3, Productions
<1>3. CASE s = "VarDecl"  BY <1>3, EatsTokens, Productions DEF ParseVarDecl, Opens
<1>4. CASE s = "Expr"  BY <1>4, EatsTokens, Productions DEF ParseExpression, Opens, Silent
<1>5. CASE s = "Unary"
  <2>1. \/ ParseUnary(Cur) = <<"#op", Cur, "Unary", "#prefix">>
        \/ ParseUnary(Cur) = <<"#op", Cur, "Unary", "#unary">>
        \/ ParseUnary(Cur) = <<"Primary">>
    BY DEF ParseUnary
  <2>2. Opens(<<"#op", Cur, "Unary", "#prefix">>) /\ Opens(<<"#op", Cur, "Unary", "#unary">>)
    BY EatsTokens DEF Opens, Silent
  <2>3. Opens(<<"Primary">>)  BY EatsTokens DEF Opens
  <2>. QED  BY <1>5, <2>1, <2>2, <2>3, Productions
<1>6. CASE s = "Primary"
  <2>1. \/ ParsePrimary(Cur) = <<"#var", Cur, "Call", "Postfix">>
        \/ ParsePrimary(Cur) = <<"#var", Cur, "(", "#call", "Args", "Postfix">>
        \/ ParsePrimary(Cur) = <<"#literal", Cur, "Postfix">>
        \/ ParsePrimary(Cur) = <<"#op", "(", "Expr", ")", "#paren", "Postfix">>
        \/ ParsePrimary(Cur) = <<"#fail">>
    BY DEF ParsePrimary
  <2>2. /\ Opens(<<"#var", Cur, "Call", "Postfix">>)
        /\ Opens(<<"#var", Cur, "(", "#call", "Args", "Postfix">>)
        /\ Opens(<<"#literal", Cur, "Postfix">>)
    BY EatsTokens DEF Opens, Silent
  <2>3. Opens(<<"#op", "(", "Expr", ")", "#paren", "Postfix">>) /\ Opens(<<"#fail">>)
    BY EatsTokens DEF Opens, Silent
  <2>. QED  BY <1>6, <2>1, <2>2, <2>3, Productions
<1>7. CASE s = "StageVar"  BY <1>7, EatsTokens, Productions DEF ParseStageVar, Opens
<1>. QED  BY <1>0, <1>1, <1>2, <1>3, <1>4, <1>5, <1>6, <1>7

\* The first step of a construct is none that ends it.
LEMMA SilentStep ==
  ASSUME NEW s \in Seq(Words), NEW c, Opening(s, c), s # <<>>, Head(s) \in Steps, Head(s) # "#fail"
  PROVE  Head(s) \in Silent /\ Opening(Tail(s), c)
<1>1. {"Function", "fn", "Attrs", "@", "Statement", "Struct", "struct"} \cap Steps = {}
  BY DEF Steps, Builders, LevelSteps, AttrSteps
<1>2. Eats \cap Steps = {"#fail"}
  BY TokenWords DEF Eats, Spelled, Steps, Builders, LevelSteps, AttrSteps
<1>3. c \notin {"fn", "@", "struct"}
  BY <1>1 DEF Opening, ParseFunction, ParseStruct
<1>4. Len(s) > 1 /\ s[1] \in Silent /\ s[2] \in Eats
  BY <1>2, <1>3 DEF Opening, Opens
<1>5. Tail(s) # <<>> /\ Tail(s)[1] = s[2] /\ Len(Tail(s)) = Len(s) - 1
  <2>1. Len(s) \in Nat /\ Len(s) > 1  BY <1>4
  <2>2. Tail(s) = SubSeq(s, 2, Len(s))  BY <2>1
  <2>3. Len(Tail(s)) = Len(s) - 1 /\ Tail(s)[1] = s[2]  BY <2>1, <2>2
  <2>. QED  BY <2>1, <2>3
<1>6. \A i \in 1 .. Len(Tail(s)) : Tail(s)[i] # "Catch"
  BY <1>5 DEF Opening
<1>. QED  BY <1>3, <1>4, <1>5, <1>6 DEF Opening, Opens

-----------------------------------------------------------------------------
(* The invariant.  Inside a construct, todo is made of words that take no end
   of input and closes the levels that are open; before the first token of the
   construct is taken, it is bound to take one. *)

InConstruct ==
  /\ todo \in Seq(Words)
  /\ \A i \in 1 .. Len(todo) : todo[i] = "StageVar" => i = 1 /\ Cur \in {"in", "out"}
  /\ Balanced(todo, Len(prec))
  /\ pos = start => Opening(todo, Cur)

ParseInv ==
  /\ input \in Seq(Tokens) /\ TypeOK
  /\ prec \in Seq(0 .. 41) /\ program \in Seq(Nat \X Int)
  /\ mode = "parse" => InConstruct

LEMMA InitParse == Init => ParseInv
<1>. SUFFICES ASSUME Init PROVE ParseInv
  OBVIOUS
<1>1. input \in Seq(Tokens)  BY InputsAssumption DEF Init
<1>2. Len(input) \in Nat  BY <1>1
<1>3. TypeOK
  BY <1>2, MaxErrorsAssumption DEF Init, TypeOK
<1>. QED  BY <1>1, <1>3 DEF Init, ParseInv

LEMMA ReportBound == ASSUME NEW e \in 0 .. MaxErrors + 1 PROVE Reported(e) \in 0 .. MaxErrors + 1
BY MaxErrorsAssumption DEF Reported

LEMMA CurIs ==
  ASSUME ParseInv
  PROVE  /\ pos \in Nat /\ start \in Nat /\ 1 <= start /\ start <= pos /\ pos <= Len(input) + 1
         /\ Len(input) \in Nat /\ pos \in 1 .. Len(input) + 1
         /\ Cur \in Tokens \cup {"eof"} /\ (Cur = "eof" <=> pos = Len(input) + 1)
<1>1. Len(input) \in Nat  BY DEF ParseInv
<1>2. pos \in 1 .. Len(input) + 1  BY DEF ParseInv, TypeOK
<1>3. Cur \in Tokens \cup {"eof"} /\ (Cur = "eof" <=> pos = Len(input) + 1)
  BY <1>2, TokenIs DEF ParseInv, Cur
<1>. QED  BY <1>1, <1>2, <1>3 DEF ParseInv, TypeOK

LEMMA Entries == ASSUME NEW S, NEW p \in Seq(S) PROVE \A i \in DOMAIN p : p[i] \in S
BY LenProperties, ElementOfSeq

\* The parts of TypeOK that change slowly.
LEMMA KeepTypes ==
  ASSUME ParseInv, input' = input, pos' \in pos .. Len(input) + 1, start' = start,
         program' = program, mode' \in {"top", "parse", "done"}, mode' # "parse" => todo' = <<>>,
         ctx' \in {"plain", "attrs", "attributed"}, prec' \in Seq(0 .. 41),
         attrs' \subseteq {"entry"} \cup Stages, entries' = entries, errs' \in 0 .. MaxErrors + 1
  PROVE  /\ input' \in Seq(Tokens) /\ TypeOK'
         /\ prec' \in Seq(0 .. 41) /\ program' \in Seq(Nat \X Int)
<1>1. pos \in Nat /\ start \in Nat /\ 1 <= start /\ start <= pos /\ Len(input) \in Nat  BY CurIs
<1>2. pos' \in Nat /\ pos <= pos' /\ pos' <= Len(input) + 1  BY <1>1
<1>3. pos' \in 1 .. Len(input') + 1 /\ start' \in 1 .. pos'  BY <1>1, <1>2
<1>4. \A i \in DOMAIN prec' : prec'[i] \in 0 .. 41
  BY ONLY Entries, prec' \in Seq(0 .. 41), Zenon
<1>5. \A i \in DOMAIN program' : program'[i][2] < pos'
  <2>1. \A i \in DOMAIN program : program[i][2] < pos /\ program[i][2] \in Int
    BY DEF ParseInv, TypeOK
  <2>. QED  BY <2>1, <1>1, <1>2
<1>. QED  BY <1>3, <1>4, <1>5 DEF ParseInv, TypeOK

\* A step that leaves the construct.
LEMMA Leave ==
  ASSUME ParseInv, input' = input, pos' \in pos .. Len(input) + 1, start' = start,
         program' = program, mode' \in {"top", "done"}, todo' = <<>>, ctx' = ctx,
         prec' \in {prec, <<>>}, attrs' = attrs, entries' = entries,
         errs' \in 0 .. MaxErrors + 1
  PROVE  ParseInv'
<1>1. prec' \in Seq(0 .. 41)
  <2>1. prec \in Seq(0 .. 41) /\ <<>> \in Seq(0 .. 41)  BY DEF ParseInv
  <2>. QED  BY ONLY <2>1, prec' \in {prec, <<>>}, Zenon
<1>2. ctx' \in {"plain", "attrs", "attributed"} /\ attrs' \subseteq {"entry"} \cup Stages
  BY DEF ParseInv, TypeOK
<1>. QED  BY <1>1, <1>2, KeepTypes DEF ParseInv

\* A step inside it that is done with the next word.
LEMMA DropHead ==
  ASSUME ParseInv, mode = "parse", todo # <<>>, todo' = Tail(todo), mode' = mode, input' = input,
         pos' \in pos .. Len(input) + 1, pos' = pos => Head(todo) \in Steps \ {"#fail"},
         start' = start, program' = program, ctx' = ctx, prec' \in Seq(0 .. 41),
         Fits(Head(todo), Len(prec), Len(prec')), attrs' \subseteq {"entry"} \cup Stages,
         entries' = entries, errs' \in 0 .. MaxErrors + 1
  PROVE  ParseInv'
<1>1. InConstruct  BY DEF ParseInv
<1>2. ctx' \in {"plain", "attrs", "attributed"}  BY DEF ParseInv, TypeOK
<1>3. todo' \in Seq(Words)  BY <1>1 DEF InConstruct
<1>4. \A i \in 1 .. Len(todo') : todo'[i] # "StageVar"
  <2>1. todo \in Seq(Words) /\ Len(todo) \in Nat /\ Len(todo) >= 1  BY <1>1 DEF InConstruct
  <2>2. Tail(todo) = SubSeq(todo, 2, Len(todo))  BY <2>1
  <2>. SUFFICES ASSUME NEW i \in 1 .. Len(todo') PROVE todo'[i] # "StageVar"
    OBVIOUS
  <2>3. Len(todo') = Len(todo) - 1 /\ todo'[i] = todo[i + 1]  BY <2>1, <2>2
  <2>4. i + 1 \in 1 .. Len(todo) /\ i + 1 # 1  BY <2>1, <2>3
  <2>. QED  BY <2>3, <2>4, <1>1 DEF InConstruct
<1>5. Balanced(todo', Len(prec'))
  <2>1. PICK n \in Nat : Balanced(Tail(todo), n) /\ Fits(Head(todo), Len(prec), n)
    BY <1>1, TailBalanced DEF InConstruct
  <2>2. Len(prec) \in Nat /\ Len(prec') \in Nat  BY DEF ParseInv
  <2>3. Len(prec') = n  BY <2>1, <2>2 DEF Fits
  <2>. QED  BY <2>1, <2>3
<1>6. pos' = start' => Opening(todo', Cur')
  <2>. SUFFICES ASSUME pos' = start' PROVE Opening(todo', Cur')
    OBVIOUS
  <2>1. pos' = pos /\ pos = start  BY CurIs
  <2>2. Opening(todo, Cur)  BY <1>1, <2>1 DEF InConstruct
  <2>3. Opening(Tail(todo), Cur)  BY <1>1, <2>1, <2>2, SilentStep DEF InConstruct
  <2>4. Cur' = Cur  BY <2>1 DEF Cur, TokenAt
  <2>. QED  BY <2>3, <2>4
<1>7. mode' \in {"top", "parse", "done"} /\ mode' = "parse"  OBVIOUS
<1>8. InConstruct'  BY <1>3, <1>4, <1>5, <1>6 DEF InConstruct
<1>. QED  BY <1>2, <1>7, <1>8, KeepTypes DEF ParseInv

LEMMA MatchTakes ==
  ASSUME NEW w \in Spelled, NEW c \in Tokens \cup {"eof"}, Matches(w, c)
  PROVE  c # "eof"
<1>1. "eof" \notin Idents \cup Sizes \cup {"type", "void"}  BY TokenWords DEF Tokens, Numbers
<1>2. CASE w \in {"ident", "typename", "rettype", "size"}  BY <1>1, <1>2 DEF Matches
<1>3. CASE w \notin {"ident", "typename", "rettype", "size"}
  <2>1. w = c /\ w \in Tokens  BY <1>3 DEF Matches, Spelled
  <2>. QED  BY <2>1, TokenWords
<1>. QED  BY <1>2, <1>3

LEMMA TakenWords == Words \ (NonTerminals \cup Steps) \subseteq Spelled
BY DEF Words, Lower, Plain, Pushes, Pops, ExprWords, Ground, NonTerminals, Steps, Builders,
       LevelSteps, AttrSteps

LEMMA FlatHead ==
  ASSUME ParseInv, mode = "parse", todo # <<>>, Head(todo) \notin Pushes \cup Pops
  PROVE  Fits(Head(todo), Len(prec), Len(prec))
<1>1. PICK n \in Nat : Fits(Head(todo), Len(prec), n)
  BY TailBalanced DEF ParseInv, InConstruct
<1>. QED  BY <1>1 DEF Fits

LEMMA MatchParse == ASSUME ParseInv, Match PROVE ParseInv'
<1>1. mode = "parse" /\ todo # <<>> /\ todo \in Seq(Words)
  BY DEF Match, Parsing, ParseInv, InConstruct
<1>2. Head(todo) \in Words  BY <1>1
<1>3. Head(todo) \in Spelled  BY <1>2, TakenWords DEF Match, Next1
<1>4. Head(todo) \notin Pushes \cup Pops  BY <1>3, WordClasses DEF Plain
<1>5. Cur # "eof"  BY <1>3, CurIs, MatchTakes DEF Match, Next1
<1>6. pos' \in pos .. Len(input) + 1 /\ pos' # pos  BY <1>5, CurIs DEF Match
<1>7. prec \in Seq(0 .. 41) /\ attrs \subseteq {"entry"} \cup Stages /\ errs \in 0 .. MaxErrors + 1
  BY DEF ParseInv, TypeOK
<1>8. /\ todo' = Tail(todo) /\ prec' = prec
      /\ UNCHANGED <<mode, input, start, program, ctx, attrs, entries, errs>>
  BY DEF Match
<1>. QED  BY <1>1, <1>4, <1>6, <1>7, <1>8, FlatHead, DropHead

LEMMA BuildParse ==
  ASSUME ParseInv, Build \/ Report \/ PassCatch
  PROVE  ParseInv'
<1>1. mode = "parse" /\ todo # <<>>  BY DEF Build, Report, PassCatch, Parsing
<1>2. Head(todo) \in Builders \cup {"#report", "Catch"}  BY DEF Build, Report, PassCatch, Next1
<1>3. Head(todo) \in Steps \ {"#fail"}  BY <1>2 DEF Steps, Builders
<1>4. Head(todo) \notin Pushes \cup Pops  BY <1>2 DEF Builders, Pushes, Pops
<1>5. pos' \in pos .. Len(input) + 1 /\ pos' = pos  BY CurIs DEF Build, Report, PassCatch
<1>6. prec \in Seq(0 .. 41) /\ attrs \subseteq {"entry"} \cup Stages  BY DEF ParseInv, TypeOK
<1>7. errs' \in 0 .. MaxErrors + 1
  BY ReportBound DEF Build, Report, PassCatch, ParseInv, TypeOK
<1>8. /\ todo' = Tail(todo) /\ prec' = prec
      /\ UNCHANGED <<mode, input, start, program, ctx, attrs, entries>>
  BY DEF Build, Report, PassCatch
<1>. QED  BY <1>1, <1>3, <1>4, <1>5, <1>6, <1>7, <1>8, FlatHead, DropHead

LEMMA PrecedenceBound == \A t : Precedence(t) \in -1 .. 40
<1>1. \A t \in DOMAIN Levels : Levels[t] \in 5 .. 40
  BY DEF Levels
<1>. QED  BY <1>1 DEF Precedence

LEMMA LevelParse == ASSUME ParseInv, Level PROVE ParseInv'
<1>1. mode = "parse" /\ todo # <<>> /\ Head(todo) \in LevelSteps
  BY DEF Level, Parsing, Next1
<1>2. prec \in Seq(0 .. 41) /\ Len(prec) \in Nat  BY DEF ParseInv
<1>3. PICK n \in Nat : Fits(Head(todo), Len(prec), n)
  BY <1>1, TailBalanced DEF ParseInv, InConstruct
<1>4. prec' \in Seq(0 .. 41) /\ Len(prec') = n
  <2>1. CASE Head(todo) = "#level"
    <3>1. prec' = <<0>> \o prec /\ n = Len(prec) + 1
      BY <1>3, <2>1 DEF Level, Next1, Fits, Pushes
    <3>. QED  BY <1>2, <3>1
  <2>2. CASE Head(todo) = "#raise"
    <3>1. prec' = <<Precedence(Top(1).tok) + 1>> \o prec /\ n = Len(prec) + 1
      BY <1>3, <2>2 DEF Level, Next1, Fits, Pushes
    <3>2. PICK l \in 0 .. 41 : l = Precedence(Top(1).tok) + 1  BY PrecedenceBound
    <3>. QED  BY <1>2, <3>1, <3>2
  <2>3. CASE Head(todo) = "#return"
    <3>1. prec' = Tail(prec) /\ Len(prec) = n + 1
      BY <1>3, <2>3 DEF Level, Next1, Fits, Pops
    <3>2. prec # <<>>  BY <1>2, <3>1
    <3>. QED  BY <1>2, <3>1, <3>2
  <2>. QED  BY <1>1, <2>1, <2>2, <2>3 DEF LevelSteps
<1>5. Head(todo) \in Steps \ {"#fail"}  BY <1>1 DEF Steps, LevelSteps
<1>6. pos' \in pos .. Len(input) + 1 /\ pos' = pos  BY CurIs DEF Level
<1>7. attrs \subseteq {"entry"} \cup Stages /\ errs \in 0 .. MaxErrors + 1  BY DEF ParseInv, TypeOK
<1>8. todo' = Tail(todo) /\ UNCHANGED <<mode, input, start, program, ctx, attrs, entries, errs>>
  BY DEF Level
<1>. QED  BY <1>1, <1>3, <1>4, <1>5, <1>6, <1>7, <1>8, DropHead

LEMMA ReadAttrParse == ASSUME ParseInv, ReadAttr PROVE ParseInv'
<1>1. mode = "parse" /\ todo # <<>> /\ Head(todo) \in AttrSteps
  BY DEF ReadAttr, Parsing, Next1
<1>2. Head(todo) \in Steps \ {"#fail"} /\ Head(todo) \notin Pushes \cup Pops
  BY <1>1, WordClasses DEF Steps, AttrSteps
<1>3. Head(todo) = "#stage" => Cur \in Stages /\ Cur # "eof"
  <2>1. "eof" \notin Stages  BY TokenWords DEF Tokens
  <2>. QED  BY <2>1 DEF ReadAttr, Refused, Next1
<1>4. pos' \in pos .. Len(input) + 1  BY <1>3, CurIs DEF ReadAttr, Next1
<1>5. attrs' \subseteq {"entry"} \cup Stages
  BY <1>1, <1>3 DEF ReadAttr, Next1, AttrSteps, ParseInv, TypeOK
<1>6. prec \in Seq(0 .. 41) /\ errs \in 0 .. MaxErrors + 1  BY DEF ParseInv, TypeOK
<1>7. /\ todo' = Tail(todo) /\ prec' = prec
      /\ UNCHANGED <<mode, input, start, program, ctx, entries, errs>>
  BY DEF ReadAttr
<1>. QED  BY <1>1, <1>2, <1>4, <1>5, <1>6, <1>7, FlatHead, DropHead

LEMMA LaterWords ==
  ASSUME ParseInv, mode = "parse", todo # <<>>
  PROVE  /\ Tail(todo) \in Seq(Words) /\ Head(todo) \in Words
         /\ \A i \in 1 .. Len(Tail(todo)) : Tail(todo)[i] # "StageVar"
         /\ (\A i \in 1 .. Len(todo) : todo[i] # "Catch")
              => \A i \in 1 .. Len(Tail(todo)) : Tail(todo)[i] # "Catch"
<1>1. todo \in Seq(Words) /\ Len(todo) \in Nat /\ Len(todo) >= 1  BY DEF ParseInv, InConstruct
<1>2. Tail(todo) = SubSeq(todo, 2, Len(todo))  BY <1>1
<1>3. /\ Len(Tail(todo)) = Len(todo) - 1
      /\ \A i \in 1 .. Len(Tail(todo)) : Tail(todo)[i] = todo[i + 1]
  BY <1>1, <1>2
<1>4. \A i \in 1 .. Len(Tail(todo)) : i + 1 \in 1 .. Len(todo) /\ i + 1 # 1  BY <1>1, <1>3
<1>5. \A i \in 1 .. Len(Tail(todo)) : Tail(todo)[i] # "StageVar"
  BY <1>3, <1>4 DEF ParseInv, InConstruct
<1>6. Tail(todo) \in Seq(Words) /\ Head(todo) \in Words  BY <1>1
<1>. QED  BY <1>3, <1>4, <1>5, <1>6

LEMMA HeadOf == ASSUME NEW S, NEW s \in Seq(S), s # <<>> PROVE Head(s) \in S
OBVIOUS

LEMMA HeadGood ==
  ASSUME ParseInv, mode = "parse", todo # <<>>, Head(todo) \in NonTerminals
  PROVE  Good(Head(todo), Production(Head(todo)), Cur)
<1>1. todo \in Seq(Words) /\ 1 \in 1 .. Len(todo) /\ Head(todo) = todo[1]
  BY DEF ParseInv, InConstruct
<1>2. Head(todo) = "StageVar" => Cur \in {"in", "out"}
  BY <1>1 DEF ParseInv, InConstruct
<1>3. Head(todo) = "Rhs" => Head(prec) \in Nat
  <2>1. PICK n \in Nat : Fits(Head(todo), Len(prec), n)
    BY TailBalanced DEF ParseInv, InConstruct
  <2>2. prec \in Seq(0 .. 41)  BY DEF ParseInv
  <2>3. Head(todo) = "Rhs" => Len(prec) = n + 1  BY <2>1 DEF Fits, Pops
  <2>. SUFFICES ASSUME Head(todo) = "Rhs" PROVE Head(prec) \in Nat
    OBVIOUS
  <2>4. prec # <<>>  BY <2>2, <2>3
  <2>5. Head(prec) \in 0 .. 41  BY ONLY <2>2, <2>4, HeadOf, Zenon
  <2>6. \A h \in 0 .. 41 : h \in Nat  OBVIOUS
  <2>. QED  BY ONLY <2>5, <2>6, Zenon
<1>. QED  BY <1>2, <1>3, CurIs, CallGood

LEMMA CallOpening ==
  ASSUME ParseInv, mode = "parse", todo # <<>>, Head(todo) \in NonTerminals, pos = start
  PROVE  Opening(Production(Head(todo)) \o Tail(todo), Cur)
<1>. DEFINE s == Head(todo)
            t == Tail(todo)
            p == Production(s)
<1>. SUFFICES Opening(p \o t, Cur)  OBVIOUS
<1>1. Opening(todo, Cur) /\ todo \in Seq(Words)  BY DEF ParseInv, InConstruct
<1>2. Good(s, p, Cur)  BY HeadGood
<1>3. t \in Seq(Words)  BY LaterWords
<1>4. Len(todo) \in Nat /\ Len(todo) >= 1 /\ s = todo[1]  BY <1>1
<1>5. /\ "fn" \notin NonTerminals /\ "@" \notin NonTerminals /\ "struct" \notin NonTerminals
      /\ Silent \cap NonTerminals = {}
  BY DEF NonTerminals, Silent
<1>6. CASE Cur = "fn"
  <2>1. todo = <<"Function">>  BY <1>1, <1>5, <1>6 DEF Opening, ParseFunction
  <2>2. p \o t = ParseFunction  BY <2>1, Productions DEF ParseFunction
  <2>3. \A i \in 1 .. Len(ParseFunction) : ParseFunction[i] # "Catch"  BY DEF ParseFunction
  <2>4. "fn" # Rbrace  BY Zenon DEF Rbrace
  <2>. HIDE DEF s, t, p
  <2>. QED  BY <1>6, <2>2, <2>3, <2>4 DEF Opening
<1>7. CASE Cur = "@"
  <2>1. todo = <<"Attrs">>  BY <1>1, <1>5, <1>7 DEF Opening
  <2>2. p = <<"@", "Attr">>  BY <2>1, <1>7, Productions DEF ParseFunctionAttrs
  <2>3. p \o t = <<"@", "Attr">>  BY <2>1, <2>2
  <2>4. "@" # Rbrace  BY Zenon DEF Rbrace
  <2>. HIDE DEF s, t, p
  <2>. QED  BY <1>7, <2>3, <2>4 DEF Opening
<1>8. CASE Cur = "struct"
  <2>1. todo = <<"Statement">> \/ todo = <<"Struct">>  BY <1>1, <1>5, <1>8 DEF Opening, ParseStruct
  <2>2. todo = <<"Statement">> => p \o t = <<"Struct">>
    <3>1. "struct" \notin Idents \cup Numbers  BY DEF Idents, Numbers, Sizes
    <3>2. "struct" # Lbrace  BY Zenon DEF Lbrace
    <3>3. ParseStatement("struct", Peek) = <<"Struct">>  BY ONLY <3>1, <3>2 DEF ParseStatement
    <3>. QED  BY <3>3, <1>8, Productions
  <2>3. todo = <<"Struct">> => p \o t = ParseStruct  BY Productions DEF ParseStruct
  <2>4. \A i \in 1 .. Len(ParseStruct) : ParseStruct[i] # "Catch"
    <3>1. Lbrace # "Catch"  BY Zenon DEF Lbrace
    <3>. QED  BY <3>1 DEF ParseStruct
  <2>5. "struct" # Rbrace  BY Zenon DEF Rbrace
  <2>. HIDE DEF s, t, p
  <2>6. \A i \in 1 .. Len(p \o t) : (p \o t)[i] # "Catch"
    <3>1. CASE todo = <<"Statement">>
      <4>1. PICK q : q = p \o t  OBVIOUS
      <4>2. q = <<"Struct">>  BY <4>1, <3>1, <2>2
      <4>3. \A i \in 1 .. Len(q) : q[i] # "Catch"  BY ONLY <4>2
      <4>. QED  BY <4>1, <4>3
    <3>2. CASE todo = <<"Struct">>  BY <3>2, <2>3, <2>4
    <3>. QED  BY <2>1, <3>1, <3>2
  <2>. QED  BY <1>8, <2>1, <2>2, <2>3, <2>5, <2>6 DEF Opening
<1>9. CASE Cur \notin {"fn", "@", "struct"}
  <2>1. s \in Eats  BY <1>1, <1>4, <1>5, <1>9 DEF Opening, Opens
  <2>2. s # "ForInit"
    <3>1. "ForInit" \notin Eats  BY TokenWords DEF Eats, Spelled, NonTerminals
    <3>. QED  BY <2>1, <3>1
  <2>3. Cur \in Tokens  BY <1>1, CurIs DEF Opening
  <2>4. s = "StageVar" => Cur \in {"in", "out"}  BY <1>4 DEF ParseInv, InConstruct
  <2>5. Opens(p)  BY <2>1, <2>3, <2>4, EatsOpens
  <2>. HIDE DEF s, t, p
  <2>6. p \in Seq(Words) /\ \A i \in 1 .. Len(p) : p[i] # "Catch"  BY <1>2, <2>2 DEF Good
  <2>7. Opens(p \o t)  BY <1>3, <2>5, <2>6, OpensMore
  <2>8. \A i \in 1 .. Len(t) : t[i] # "Catch"  BY <1>1, LaterWords DEF Opening, t
  <2>9. \A i \in 1 .. Len(p \o t) : (p \o t)[i] # "Catch"  BY <1>3, <2>6, <2>8
  <2>. QED  BY <1>1, <1>9, <2>7, <2>9 DEF Opening
<1>. QED  BY <1>6, <1>7, <1>8, <1>9

LEMMA CallParse == ASSUME ParseInv, Call PROVE ParseInv'
<1>. DEFINE s == Head(todo)
            t == Tail(todo)
            p == Production(s)
<1>1. mode = "parse" /\ todo # <<>> /\ s \in NonTerminals /\ todo' = p \o t
  BY DEF Call, Parsing, Next1
<1>2. Good(s, p, Cur)  BY <1>1, HeadGood
<1>3. t \in Seq(Words) /\ \A i \in 1 .. Len(t) : t[i] # "StageVar"  BY <1>1, LaterWords
<1>4. PICK n \in Nat : Balanced(t, n) /\ Fits(s, Len(prec), n)
  BY <1>1, TailBalanced DEF ParseInv, InConstruct
<1>5. Len(prec) \in Nat /\ prec \in Seq(0 .. 41)  BY DEF ParseInv
<1>6. pos = start => Opening(todo', Cur)  BY <1>1, CallOpening
<1>7. UNCHANGED <<input, pos, mode, ctx, start, prec, attrs, entries, errs, program>> /\ Cur' = Cur
  BY DEF Call, Cur, TokenAt
<1>. HIDE DEF s, t, p
<1>8. p \in Seq(Words) /\ \A i \in 1 .. Len(p) : p[i] = "StageVar" => i = 1 /\ Cur \in {"in", "out"}
  BY <1>2 DEF Good
<1>9. todo' \in Seq(Words)  BY <1>1, <1>3, <1>8
<1>10. ASSUME NEW i \in 1 .. Len(todo'), todo'[i] = "StageVar" PROVE i = 1 /\ Cur \in {"in", "out"}
  <2>1. Len(p) \in Nat /\ Len(t) \in Nat  BY <1>3, <1>8
  <2>2. CASE i <= Len(p)
    <3>1. i \in 1 .. Len(p) /\ p[i] = "StageVar"  BY <1>1, <1>3, <1>8, <1>10, <2>2
    <3>. QED  BY <1>8, <3>1
  <2>3. CASE ~(i <= Len(p))
    <3>1. i - Len(p) \in 1 .. Len(t) /\ t[i - Len(p)] = "StageVar"
      BY <1>1, <1>3, <1>8, <1>10, <2>1, <2>3
    <3>. QED  BY <1>3, <3>1
  <2>. QED  BY <2>2, <2>3
<1>11. Balanced(todo', Len(prec))
  <2>1. Carries(p, Len(prec), n)  BY <1>2, <1>4, <1>5 DEF Good
  <2>. QED  BY <1>1, <1>3, <1>4, <2>1 DEF Carries
<1>12. InConstruct'  BY <1>6, <1>7, <1>9, <1>10, <1>11 DEF InConstruct
<1>13. /\ pos' \in pos .. Len(input) + 1 /\ ctx' \in {"plain", "attrs", "attributed"}
       /\ attrs' \subseteq {"entry"} \cup Stages /\ errs' \in 0 .. MaxErrors + 1
  BY <1>7, CurIs DEF ParseInv, TypeOK
<1>. QED  BY <1>1, <1>5, <1>7, <1>12, <1>13, KeepTypes DEF ParseInv

LEMMA CatchAt ==
  ASSUME NEW s \in Seq(Words), Contains(s, "Catch")
  PROVE  /\ SelectInSeq(s, LAMBDA w : w = "Catch") \in 1 .. Len(s)
         /\ s[SelectInSeq(s, LAMBDA w : w = "Catch")] = "Catch"
<1>. DEFINE I == {i \in 1 .. Len(s) : s[i] = "Catch"}
            k == SelectInSeq(s, LAMBDA w : w = "Catch")
<1>1. I # {} /\ I \in SUBSET Nat  BY DEF Contains
<1>2. \E m \in I : \A i \in I : m <= i  BY <1>1, LeastNat
<1>3. k = Min(I)  BY <1>1 DEF SelectInSeq
<1>4. Min(I) \in I  BY <1>2 DEF Min
<1>. QED  BY <1>3, <1>4

LEMMA FailInitParse == ASSUME ParseInv, FailInit PROVE ParseInv'
<1>1. PICK k : k = SelectInSeq(todo, LAMBDA s : s = "Catch")  OBVIOUS
<1>2. mode = "parse" /\ todo \in Seq(Words) /\ Len(todo) \in Nat
  BY DEF FailInit, Failing, Parsing, ParseInv, InConstruct
<1>3. k \in 1 .. Len(todo) /\ todo[k] = "Catch"  BY <1>1, <1>2, CatchAt DEF FailInit
<1>4. todo' = SubSeq(todo, k + 1, Len(todo)) /\ prec' = <<>>  BY <1>1 DEF FailInit
<1>5. todo' \in Seq(Words)  BY <1>2, <1>3, <1>4
<1>6. Balanced(todo', 0)
  <2>1. PICK d : Depth(todo, d)  BY <1>2 DEF ParseInv, InConstruct, Balanced
  <2>2. Balanced(todo', d[k + 1])  BY <1>2, <1>3, <1>4, <2>1, Suffix
  <2>3. Fits(todo[k], d[k], d[k + 1])  BY <1>3, <2>1 DEF Depth
  <2>4. "Catch" \in Ground /\ "Catch" \notin Pushes \cup Pops  BY WordClasses DEF Ground
  <2>5. d[k + 1] = 0  BY <1>3, <2>3, <2>4 DEF Fits
  <2>. QED  BY <2>2, <2>5
<1>7. \A i \in 1 .. Len(todo') : todo'[i] # "StageVar"
  <2>1. \A i \in 1 .. Len(todo') : todo'[i] = todo[k + i] /\ k + i \in 1 .. Len(todo) /\ k + i # 1
    BY <1>2, <1>3, <1>4
  <2>. QED  BY <1>2, <2>1 DEF ParseInv, InConstruct
<1>8. pos # start  BY <1>2, <1>3 DEF ParseInv, InConstruct, Opening
<1>9. UNCHANGED <<input, pos, mode, ctx, start, attrs, entries, program>> /\ errs' = Reported(errs)
  BY DEF FailInit
<1>10. InConstruct'  BY <1>4, <1>5, <1>6, <1>7, <1>8, <1>9 DEF InConstruct
<1>11. /\ pos' \in pos .. Len(input) + 1 /\ ctx' \in {"plain", "attrs", "attributed"}
       /\ attrs' \subseteq {"entry"} \cup Stages /\ errs' \in 0 .. MaxErrors + 1
       /\ prec' \in Seq(0 .. 41) /\ mode' = "parse"
  BY <1>2, <1>4, <1>9, CurIs, ReportBound DEF ParseInv, TypeOK
<1>. QED  BY <1>9, <1>10, <1>11, KeepTypes DEF ParseInv

\* Wherever a construct is abandoned, the parser does not go back.
LEMMA AbandonParse ==
  ASSUME ParseInv, NEW e \in 0 .. MaxErrors + 1, NEW p \in pos .. Len(input) + 1, Abandon(e, p)
  PROVE  ParseInv'
<1>1. p \in 1 .. Len(input) + 1 /\ p \in Nat /\ pos <= p  BY CurIs
<1>2. SyncFrom(p) \in p .. Len(input) + 1  BY <1>1, SyncMoves DEF ParseInv
<1>3. pos' \in pos .. Len(input) + 1  BY <1>1, <1>2, CurIs DEF Abandon
<1>4. errs' \in 0 .. MaxErrors + 1  BY ReportBound DEF Abandon
<1>5. mode' \in {"top", "done"} /\ prec' \in {prec, <<>>} /\ todo' = <<>>
        /\ UNCHANGED <<input, start, program, ctx, attrs, entries>>
  BY DEF Abandon
<1>. QED  BY <1>3, <1>4, <1>5, Leave

LEMMA FailConstructParse ==
  ASSUME ParseInv, FailConstruct \/ SkipLayout \/ FailAttrs \/ NotAFunction
  PROVE  ParseInv'
<1>1. errs \in 0 .. MaxErrors + 1  BY DEF ParseInv, TypeOK
<1>2. /\ pos \in pos .. Len(input) + 1 /\ pos \in 1 .. Len(input) + 1 /\ input \in Seq(Tokens)
      /\ Len(input) \in Nat
  BY CurIs DEF ParseInv
<1>3. CASE FailConstruct
  <2>1. Reported(errs) \in 0 .. MaxErrors + 1 /\ Reported(Reported(errs)) \in 0 .. MaxErrors + 1
    BY <1>1, ReportBound
  <2>. QED  BY <1>2, <1>3, <2>1, AbandonParse DEF FailConstruct
<1>4. CASE SkipLayout
  <2>1. PICK q : q = FirstOf({Semicolon}, pos)  OBVIOUS
  <2>2. q \in pos .. Len(input) + 1  BY <1>2, <2>1, FirstIs
  <2>3. TokenAt(q) = Semicolon => q # Len(input) + 1
    <3>1. Semicolon # "eof"  BY TokenWords DEF Tokens
    <3>2. q \in 1 .. Len(input) + 1  BY <1>2, <2>2
    <3>. QED  BY <1>2, <3>1, <3>2, TokenIs
  <2>4. PICK p : p = IF TokenAt(q) = Semicolon THEN q + 1 ELSE q  OBVIOUS
  <2>5. p \in pos .. Len(input) + 1  BY <1>2, <2>2, <2>3, <2>4
  <2>6. Abandon(errs, p)  BY <1>4, <2>1, <2>4 DEF SkipLayout
  <2>. QED  BY <1>1, <2>5, <2>6, AbandonParse
<1>5. CASE FailAttrs
  <2>1. pos' \in pos .. Len(input) + 1  BY <1>2, <1>5, SyncMoves DEF FailAttrs
  <2>2. errs' \in 0 .. MaxErrors + 1  BY <1>1, <1>5, ReportBound DEF FailAttrs
  <2>3. mode' = "top" /\ todo' = <<>>
          /\ UNCHANGED <<input, start, program, prec, ctx, attrs, entries>>
    BY <1>5 DEF FailAttrs
  <2>. QED  BY <2>1, <2>2, <2>3, Leave
<1>6. CASE NotAFunction
  <2>1. pos' \in pos .. Len(input) + 1  BY <1>2, <1>6, FirstIs DEF NotAFunction
  <2>2. errs' \in 0 .. MaxErrors + 1  BY <1>1, <1>6, ReportBound DEF NotAFunction
  <2>3. mode' = "top" /\ todo' = <<>>
          /\ UNCHANGED <<input, start, program, prec, ctx, attrs, entries>>
    BY <1>6 DEF NotAFunction
  <2>. QED  BY <2>1, <2>2, <2>3, Leave
<1>. QED  BY <1>3, <1>4, <1>5, <1>6

LEMMA AttributedFunctionParse == ASSUME ParseInv, AttributedFunction PROVE ParseInv'
<1>1. /\ mode = "parse" /\ todo # <<>> /\ Head(todo) = "#attrs" /\ todo' = <<"Function">>
      /\ ctx' = "attributed"
      /\ UNCHANGED <<input, pos, mode, start, prec, attrs, entries, errs, program>>
  BY DEF AttributedFunction, Parsing, Next1
<1>2. Len(prec) = 0
  <2>1. PICK n \in Nat : Fits(Head(todo), Len(prec), n)
    BY <1>1, TailBalanced DEF ParseInv, InConstruct
  <2>2. "#attrs" \in Ground  BY DEF Ground
  <2>. QED  BY <1>1, <2>1, <2>2 DEF Fits
<1>3. pos # start
  <2>1. "#attrs" \in Steps /\ "#attrs" \notin Silent  BY DEF Steps, Silent
  <2>. QED  BY <1>1, <2>1, SilentStep DEF ParseInv, InConstruct
<1>4. "Function" \in Ground /\ "Function" \in Words /\ "Function" \notin Pushes \cup Pops
  BY WordClasses DEF Ground, NonTerminals, Words, Lower, ExprWords
<1>5. Balanced(<<"Function">>, 0)
  <2>1. Fits("Function", 0, 0)  BY <1>4 DEF Fits
  <2>2. <<>> \in Seq(Words) /\ 0 \in Nat  OBVIOUS
  <2>3. Balanced(<<"Function">> \o <<>>, 0)
    BY ONLY <1>4, <2>1, <2>2, BalancedEmpty, ConsBalanced, Zenon
  <2>4. <<"Function">> \o <<>> = <<"Function">>  OBVIOUS
  <2>. QED  BY ONLY <2>3, <2>4
<1>6. InConstruct'
  <2>1. todo' \in Seq(Words)  BY <1>1, <1>4
  <2>2. \A i \in 1 .. Len(todo') : todo'[i] # "StageVar"  BY <1>1
  <2>. QED  BY <1>1, <1>2, <1>3, <1>5, <2>1, <2>2 DEF InConstruct
<1>7. /\ pos' \in pos .. Len(input) + 1 /\ attrs' \subseteq {"entry"} \cup Stages
      /\ errs' \in 0 .. MaxErrors + 1 /\ prec' \in Seq(0 .. 41) /\ mode' = "parse"
  BY <1>1, CurIs DEF ParseInv, TypeOK
<1>. QED  BY <1>1, <1>6, <1>7, KeepTypes DEF ParseInv

LEMMA AcceptParse == ASSUME ParseInv, Accept PROVE ParseInv'
<1>1. /\ mode' = "top" /\ todo' = <<>> /\ program' = Append(program, <<start, pos - 1>>)
      /\ UNCHANGED <<input, pos, ctx, start, prec, attrs>>
  BY DEF Accept
<1>2. /\ input \in Seq(Tokens) /\ prec \in Seq(0 .. 41) /\ program \in Seq(Nat \X Int)
      /\ pos \in 1 .. Len(input) + 1 /\ start \in 1 .. pos /\ pos \in Nat /\ start \in Nat
      /\ \A i \in DOMAIN prec : prec[i] \in 0 .. 41
      /\ \A i \in DOMAIN program : program[i][2] < pos
      /\ ctx \in {"plain", "attrs", "attributed"} /\ attrs \subseteq {"entry"} \cup Stages
      /\ entries \subseteq Stages /\ errs \in 0 .. MaxErrors + 1
  BY CurIs DEF ParseInv, TypeOK
<1>3. errs' \in 0 .. MaxErrors + 1  BY <1>2, ReportBound DEF Accept
<1>4. entries' \subseteq Stages  BY <1>2 DEF Accept
<1>5. PICK r : r = <<start, pos - 1>>  OBVIOUS
<1>6. r \in Nat \X Int /\ r[2] < pos  BY <1>2, <1>5
<1>7. program' \in Seq(Nat \X Int) /\ \A i \in DOMAIN program' : program'[i][2] < pos
  <2>1. program' = Append(program, r)  BY <1>1, <1>5
  <2>2. /\ program' \in Seq(Nat \X Int) /\ Len(program) \in Nat
        /\ DOMAIN program' = 1 .. Len(program) + 1 /\ DOMAIN program = 1 .. Len(program)
        /\ program'[Len(program) + 1] = r
        /\ \A i \in 1 .. Len(program) : program'[i] = program[i]
    BY <1>2, <1>6, <2>1
  <2>3. ASSUME NEW i \in DOMAIN program' PROVE program'[i][2] < pos
    <3>1. i \in 1 .. Len(program) \/ i = Len(program) + 1  BY <2>2
    <3>2. i \in 1 .. Len(program) => program'[i] = program[i] /\ program[i][2] < pos
      BY <1>2, <2>2
    <3>3. i = Len(program) + 1 => program'[i] = r  BY <2>2
    <3>. QED  BY ONLY <3>1, <3>2, <3>3, <1>6
  <2>. QED  BY <2>2, <2>3
<1>. QED  BY <1>1, <1>2, <1>3, <1>4, <1>7 DEF ParseInv, TypeOK

\* What ParseProgram calls is about to take the token it was called for.
LEMMA DispatchOpens ==
  ASSUME NEW c \in Tokens \ {Rbrace}
  PROVE  /\ Dispatch(c) \in Seq(Words) /\ Balanced(Dispatch(c), 0) /\ Opening(Dispatch(c), c)
         /\ \A i \in 1 .. Len(Dispatch(c)) :
              Dispatch(c)[i] = "StageVar" => i = 1 /\ c \in {"in", "out"}
<1>. DEFINE p == Dispatch(c)
<1>1. \/ c = "@" /\ p = <<"Attrs">>
      \/ c = "fn" /\ p = <<"Function">>
      \/ c \in {"in", "out"} /\ p = <<"StageVar">>
      \/ c \notin {"@", "fn", "struct"} /\ p = <<"layout", "Layout">>
      \/ c \notin {"@", "fn"} /\ p = <<"Statement">>
  BY DEF Dispatch
<1>2. /\ {"Attrs", "Function", "StageVar", "Layout", "Statement"} \subseteq Words \cap Ground
      /\ "layout" \in Words /\ "layout" \in Spelled
  BY DEF Ground, NonTerminals, Words, Lower, Plain, Spelled, Tokens, Idents, ExprWords
<1>3. ("layout" \notin Pushes \cup Pops) /\ \A w \in Ground : w \notin Pushes \cup Pops
  BY <1>2, WordClasses DEF Plain
<1>4. p \in Seq(Words)
  <2>1. \A w \in Words : <<w>> \in Seq(Words)  OBVIOUS
  <2>2. <<"layout", "Layout">> \in Seq(Words)  BY <1>2
  <2>. QED  BY ONLY <1>1, <1>2, <2>1, <2>2
<1>5. \A i \in 1 .. Len(p) : p[i] \notin Pushes \cup Pops /\ p[i] # "Catch"
  BY <1>1, <1>2, <1>3
<1>6. \A i \in 1 .. Len(p) : p[i] = "StageVar" => i = 1 /\ c \in {"in", "out"}
  <2>1. p = <<"StageVar">> => \A i \in 1 .. Len(p) : i = 1  OBVIOUS
  <2>2. p \in {<<"Attrs">>, <<"Function">>, <<"layout", "Layout">>, <<"Statement">>}
          => \A i \in 1 .. Len(p) : p[i] # "StageVar"
    OBVIOUS
  <2>3. c \in {"in", "out"} \/ p # <<"StageVar">>  BY <1>1
  <2>. QED  BY ONLY <1>1, <2>1, <2>2, <2>3
<1>7. c \notin {"fn", "@", "struct"} => Opens(p)
  BY <1>1, <1>2, EatsTokens DEF Opens, Eats
<1>8. c # "eof"  BY TokenWords
<1>. HIDE DEF p
<1>9. Balanced(p, 0)
  <2>1. <<>> \in Seq(Words) /\ 0 \in Nat /\ \A i \in 1 .. Len(p) : p[i] \in Ground => 0 = 0  OBVIOUS
  <2>2. Balanced(p \o <<>>, 0)
    BY ONLY <1>4, <1>5, <2>1, BalancedEmpty, PrefixBalanced, Zenon
  <2>3. p \o <<>> = p  BY <1>4
  <2>. QED  BY ONLY <2>2, <2>3
<1>10. Opening(p, c)  BY <1>1, <1>5, <1>7, <1>8 DEF Opening
<1>. QED  BY <1>4, <1>6, <1>9, <1>10 DEF p

LEMMA BeginParse == ASSUME ParseInv, Begin PROVE ParseInv'
<1>1. /\ mode' = "parse" /\ todo' = Dispatch(Cur) /\ start' = pos /\ prec' = <<>> /\ attrs' = {}
      /\ ctx' \in {"plain", "attrs", "attributed"}
      /\ UNCHANGED <<input, pos, entries, errs, program>>
  BY DEF Begin
<1>2. Cur \in Tokens \ {Rbrace}  BY CurIs DEF Begin
<1>3. Cur' = Cur  BY <1>1 DEF Cur, TokenAt
<1>4. Len(prec') = 0 /\ prec' \in Seq(0 .. 41) /\ DOMAIN prec' = {}  BY <1>1
<1>5. PICK p : p = Dispatch(Cur)  OBVIOUS
<1>6. /\ p \in Seq(Words) /\ Balanced(p, 0) /\ Opening(p, Cur)
      /\ \A i \in 1 .. Len(p) : p[i] = "StageVar" => i = 1 /\ Cur \in {"in", "out"}
  BY <1>2, <1>5, DispatchOpens
<1>7. todo' = p  BY <1>1, <1>5
<1>8. InConstruct'  BY <1>3, <1>4, <1>6, <1>7 DEF InConstruct
<1>9. TypeOK'
  <2>1. pos \in 1 .. Len(input) + 1 /\ pos \in 1 .. pos  BY CurIs
  <2>2. entries \subseteq Stages /\ errs \in 0 .. MaxErrors + 1 
          /\ \A i \in DOMAIN program : program[i][2] < pos
    BY DEF ParseInv, TypeOK
  <2>3. \A i \in DOMAIN prec' : prec'[i] \in 0 .. 41  BY <1>4
  <2>. QED  BY <1>1, <2>1, <2>2, <2>3 DEF TypeOK
<1>. QED  BY <1>1, <1>4, <1>8, <1>9 DEF ParseInv

LEMMA TopParse == ASSUME ParseInv, StrayBrace \/ EndOfInput PROVE ParseInv'
<1>1. /\ mode = "top" /\ mode' \in {"top", "done"} /\ pos' \in {pos, pos + 1}
      /\ pos' = pos + 1 => Cur = Rbrace
      /\ UNCHANGED <<input, ctx, start, todo, prec, attrs, entries, errs, program>>
  <2>1. pos \in Nat  BY CurIs
  <2>. QED  BY <2>1 DEF StrayBrace, EndOfInput
<1>2. Rbrace # "eof"  BY TokenWords DEF Tokens
<1>3. pos' \in pos .. Len(input) + 1  BY <1>1, <1>2, CurIs
<1>4. todo' = <<>> /\ errs' \in 0 .. MaxErrors + 1  BY <1>1 DEF ParseInv, TypeOK
<1>. QED  BY <1>1, <1>3, <1>4, Leave

LEMMA NextParse == ASSUME ParseInv, [Next]_vars PROVE ParseInv'
<1>1. CASE UNCHANGED vars
  BY <1>1 DEF vars, ParseInv, TypeOK, InConstruct, Cur, TokenAt
<1>2. CASE Match  BY <1>2, MatchParse
<1>3. CASE Call  BY <1>3, CallParse
<1>4. CASE Build \/ Report \/ PassCatch  BY <1>4, BuildParse
<1>5. CASE Level  BY <1>5, LevelParse
<1>6. CASE ReadAttr  BY <1>6, ReadAttrParse
<1>7. CASE FailInit  BY <1>7, FailInitParse
<1>8. CASE FailConstruct \/ SkipLayout \/ FailAttrs \/ NotAFunction  BY <1>8, FailConstructParse
<1>9. CASE AttributedFunction  BY <1>9, AttributedFunctionParse
<1>10. CASE Accept  BY <1>10, AcceptParse
<1>11. CASE Begin  BY <1>11, BeginParse
<1>12. CASE StrayBrace \/ EndOfInput  BY <1>12, TopParse
<1>. QED
  BY <1>1, <1>2, <1>3, <1>4, <1>5, <1>6, <1>7, <1>8, <1>9, <1>10, <1>11, <1>12 DEF Next

LEMMA ParseInvHolds == Spec => []ParseInv
<1>1. Init => ParseInv  BY InitParse
<1>2. ParseInv /\ [Next]_vars => ParseInv'  BY NextParse
<1>. QED  BY <1>1, <1>2, PTL DEF Spec

(* Whatever the file holds, the parser's records stay well formed: it never reads past
   the end of the file, every accepted construct lies behind it, an open level of
   exprPrecedence is an operator's or one above it, and no more errors are counted than
   one above kMaxErrors. *)
THEOREM TypeCorrect == Spec => []TypeOK
<1>1. ParseInv => TypeOK  BY DEF ParseInv
<1>. QED  BY <1>1, ParseInvHolds, PTL

-----------------------------------------------------------------------------
(* A construct advances. *)

\* Nothing fails at the token a construct was called for.
LEMMA KeywordTaken ==
  ASSUME ParseInv, Failing, pos = start
  PROVE  Cur \notin {"fn", "@", "struct", "eof"}
<1>1. Opening(todo, Cur) /\ Failing /\ Head(todo) = todo[1]
  BY DEF ParseInv, InConstruct, Failing, Parsing
<1>2. {"Function", "Attrs", "Statement", "Struct"} \subseteq NonTerminals \ Steps
  BY DEF NonTerminals, Steps, Builders, LevelSteps, AttrSteps
<1>3. {"fn", "@", "struct"} \cap Steps = {}
  BY DEF Steps, Builders, LevelSteps, AttrSteps
<1>4. Matches("fn", "fn") /\ Matches("@", "@") /\ Matches("struct", "struct")
  BY DEF Matches
<1>5. Head(todo) \notin {"Function", "Attrs", "Statement", "Struct"}
  BY <1>1, <1>2 DEF Failing, Next1
<1>6. \A k \in {"fn", "@", "struct"} : Head(todo) = k => Cur # k
  BY <1>1, <1>3, <1>4 DEF Failing, Next1
<1>7. Cur = "fn" => FALSE
  BY <1>1, <1>5, <1>6 DEF Opening, ParseFunction
<1>8. Cur = "@" => FALSE
  BY <1>1, <1>5, <1>6 DEF Opening
<1>9. Cur = "struct" => FALSE
  BY <1>1, <1>5, <1>6 DEF Opening, ParseStruct
<1>. QED  BY <1>1, <1>7, <1>8, <1>9 DEF Opening

LEMMA EndStepAdvances ==
  ASSUME ParseInv, Parsing, Next1 \in {"#attrs", "#skip"}
  PROVE  pos > start
<1>1. Next1 \in Steps \ ({"#fail"} \cup Silent)  BY DEF Steps, Silent
<1>2. pos # start  BY <1>1, SilentStep DEF ParseInv, InConstruct, Parsing, Next1
<1>. QED  BY <1>2, CurIs

LEMMA NextAdvances ==
  ASSUME ParseInv, Next, mode = "parse", mode' # "parse"
  PROVE  pos' > start
<1>1. /\ pos \in Nat /\ start \in Nat /\ start <= pos /\ input \in Seq(Tokens) /\ Len(input) \in Nat
      /\ pos \in 1 .. Len(input) + 1
  BY CurIs DEF ParseInv
<1>2. /\ SyncFrom(pos) \in pos .. Len(input) + 1
      /\ Cur \notin {"fn", "struct", "@", "eof"} => SyncFrom(pos) > pos
  BY <1>1, SyncMoves DEF Cur
<1>3. CASE FailConstruct \/ FailAttrs
  <2>1. pos' = SyncFrom(pos) /\ Failing  BY <1>3 DEF FailConstruct, FailAttrs, Abandon
  <2>. QED  BY <1>1, <1>2, <2>1, KeywordTaken
<1>4. CASE SkipLayout
  <2>1. pos > start  BY <1>4, EndStepAdvances DEF SkipLayout
  <2>2. PICK q : q = FirstOf({Semicolon}, pos)  OBVIOUS
  <2>3. q \in pos .. Len(input) + 1  BY <1>1, <2>2, FirstIs
  <2>4. TokenAt(q) = Semicolon => q # Len(input) + 1
    <3>1. Semicolon # "eof"  BY TokenWords DEF Tokens
    <3>2. q \in 1 .. Len(input) + 1  BY <1>1, <2>3
    <3>. QED  BY <3>1, <3>2, TokenIs, <1>1
  <2>5. PICK p : p = IF TokenAt(q) = Semicolon THEN q + 1 ELSE q  OBVIOUS
  <2>6. p \in pos .. Len(input) + 1 /\ p \in 1 .. Len(input) + 1  BY <1>1, <2>3, <2>4, <2>5
  <2>7. SyncFrom(p) \in p .. Len(input) + 1  BY <1>1, <2>6, SyncMoves
  <2>8. pos' = SyncFrom(p)  BY <1>4, <2>2, <2>5 DEF SkipLayout, Abandon
  <2>. QED  BY <1>1, <2>1, <2>6, <2>7, <2>8
<1>5. CASE NotAFunction
  <2>1. pos > start  BY <1>5, EndStepAdvances DEF NotAFunction
  <2>2. pos' \in pos .. Len(input) + 1  BY <1>1, <1>5, FirstIs DEF NotAFunction
  <2>. QED  BY <1>1, <2>1, <2>2
<1>6. CASE Accept
  <2>1. todo = <<>> /\ pos' = pos  BY <1>6 DEF Accept
  <2>2. ~Opening(<<>>, Cur)  BY DEF Opening, Opens, ParseFunction, ParseStruct
  <2>3. pos # start  BY <2>1, <2>2 DEF ParseInv, InConstruct
  <2>. QED  BY <1>1, <2>1, <2>3
<1>. QED
  BY <1>3, <1>4, <1>5, <1>6
  DEF Next, Match, Call, Build, Level, ReadAttr, Report, PassCatch, FailInit, AttributedFunction,
      Begin, StrayBrace, EndOfInput

(* Whatever the file holds, a construct leaves the parser further on than it began: one
   that is accepted took a token, and recovery from one that failed at its first token
   passes that token, because nothing fails at the fn, struct or @ that synchronize()
   stops before.  So the loop of ParseProgram goes round at most once per token. *)
THEOREM Advance == Spec => ConstructsAdvance
<1>1. ASSUME ParseInv, [Next]_vars
      PROVE  [mode = "parse" /\ mode' # "parse" => pos' > start]_vars
  BY <1>1, NextAdvances
<1>. QED  BY <1>1, ParseInvHolds, PTL DEF Spec, ConstructsAdvance
=============================================================================
