---------------------------- MODULE BlocksProofs ----------------------------
(***************************************************************************)
(* Whatever a function is made of, each of its blocks ends in one          *)
(* terminator when codegen is through, and every branch and phi names a    *)
(* block that lies where it should (Sound): proofs for every set of        *)
(* functions and of syntax trees.                                          *)
(*                                                                         *)
(* The inductive invariant, EndsInv, has three parts while code is         *)
(* generated (Underway).  The Ledger says who will end each block that is  *)
(* open: whoever emits next, or a construct under way, whose frame has it. *)
(* The Path says that todo, item by item, brings each of these constructs  *)
(* to its end.  The Ties say where the blocks a frame will name were begun *)
(* and that control, if it gets to the construct, gets to them.  One lemma *)
(* for each action (Kept...) shows that it keeps all three; when todo is   *)
(* empty, only the insertion block is left to end.                         *)
(***************************************************************************)
EXTENDS SpirvBlocks, SequenceTheorems, TLAPS

-----------------------------------------------------------------------------
(* Blocks: open, or ended by their only terminator. *)

Labelled ==
  {"entry", "logical.rhs", "logical.merge", "ternary.then", "ternary.else", "ternary.merge",
   "then", "else", "ifend", "while.cond", "while.body", "while.latch", "while.end",
   "for.cond", "for.body", "for.inc", "for.end"}
Block3(S) == [name : Labelled, of : Nat, code : Seq(S)]
Code(bs) == \E S : bs \in Seq(Block3(S))

Ends(i) == i.op \in Terminators
Open(bs, b) == \A i \in DOMAIN bs[b].code : ~Ends(bs[b].code[i])
Ended(bs, b) ==
  /\ Len(bs[b].code) >= 1
  /\ \A i \in DOMAIN bs[b].code : Ends(bs[b].code[i]) <=> i = Len(bs[b].code)

\* Instructions that leave a block open, and such that end it.
Plain(ins) == (\E S : ins \in Seq(S)) /\ \A i \in DOMAIN ins : ~Ends(ins[i])
Closing(ins) ==
  /\ \E S : ins \in Seq(S)
  /\ Len(ins) >= 1 /\ \A i \in DOMAIN ins : Ends(ins[i]) <=> i = Len(ins)

\* From bs to bs2: the blocks of E were ended, n new ones begun, the others are as before.
Turned(bs, bs2, E, n) ==
  /\ Code(bs) /\ Code(bs2)
  /\ n \in Nat /\ Len(bs2) = Len(bs) + n
  /\ \A b \in E : Ended(bs2, b)
  /\ \A b \in DOMAIN bs : b \notin E => (Open(bs, b) => Open(bs2, b)) /\ (Ended(bs, b) => Ended(bs2, b))
  /\ \A b \in DOMAIN bs2 : b > Len(bs) => Open(bs2, b)

LEMMA CodeDomain == ASSUME NEW bs, Code(bs) PROVE Len(bs) \in Nat /\ DOMAIN bs = 1 .. Len(bs)
  BY LenProperties DEF Code

LEMMA CodeOf ==
  ASSUME NEW bs, Code(bs), NEW b \in DOMAIN bs
  PROVE  /\ \E S : bs[b].code \in Seq(S)
         /\ Len(bs[b].code) \in Nat /\ DOMAIN bs[b].code = 1 .. Len(bs[b].code)
<1>1. PICK S : bs \in Seq(Block3(S))  BY DEF Code
<1>2. bs[b] \in Block3(S)  BY <1>1, CodeDomain, ElementOfSeq
<1>3. bs[b].code \in Seq(S)  BY <1>2 DEF Block3
<1>. QED  BY <1>3, LenProperties

\* A block that is open has no terminator yet, one that is ended has.
LEMMA OpenOrTerminated ==
  ASSUME NEW bs, Code(bs), NEW b \in DOMAIN bs
  PROVE  (Open(bs, b) => ~Terminated(bs, b)) /\ (Ended(bs, b) => Terminated(bs, b))
<1>. DEFINE c == bs[b].code
<1>1. PICK S : c \in Seq(S)  BY CodeOf
<1>2. Len(c) \in Nat /\ DOMAIN c = 1 .. Len(c)  BY CodeOf
<1>3. c # <<>> <=> Len(c) >= 1  BY <1>1, <1>2, EmptySeq
<1>. QED  BY <1>2, <1>3 DEF Open, Ended, Terminated, Ends, Last

LEMMA EmitCode ==
  ASSUME NEW bs, Code(bs), NEW b \in DOMAIN bs, NEW T, NEW ins \in Seq(T)
  PROVE  /\ Code(Emit(bs, b, ins))
         /\ Len(Emit(bs, b, ins)) = Len(bs) /\ DOMAIN Emit(bs, b, ins) = DOMAIN bs
         /\ Emit(bs, b, ins)[b].code = bs[b].code \o ins
         /\ \A d \in DOMAIN bs : d # b => Emit(bs, b, ins)[d] = bs[d]
<1>1. PICK S : bs \in Seq(Block3(S))  BY DEF Code
<1>. DEFINE U == S \cup T
<1>2. Len(bs) \in Nat /\ DOMAIN bs = 1 .. Len(bs)  BY CodeDomain
<1>3. bs[b] \in Block3(S)  BY <1>1, <1>2, ElementOfSeq
<1>4. bs[b].code \in Seq(U) /\ ins \in Seq(U)
  <2>1. bs[b].code \in Seq(S)  BY <1>3 DEF Block3
  <2>. QED  BY <2>1, SeqMonotonic
<1>5. bs[b].code \o ins \in Seq(U)  BY <1>4, ConcatProperties
<1>. DEFINE e == [bs[b] EXCEPT !.code = @ \o ins]
<1>6. e \in Block3(U) /\ e.code = bs[b].code \o ins  BY <1>3, <1>5 DEF Block3
<1>7. bs \in Seq(Block3(U))
  <2>1. Block3(S) \subseteq Block3(U)
    <3>1. \A s \in Seq(S) : s \in Seq(U)  BY SeqMonotonic
    <3>. QED  BY <3>1 DEF Block3
  <2>. QED  BY <1>1, <2>1, SeqMonotonic
<1>8. Emit(bs, b, ins) = [bs EXCEPT ![b] = e]  BY DEF Emit
<1>9. Emit(bs, b, ins) \in Seq(Block3(U)) /\ Len(Emit(bs, b, ins)) = Len(bs)
  BY <1>2, <1>6, <1>7, <1>8, ExceptSeq
<1>10. DOMAIN Emit(bs, b, ins) = DOMAIN bs  BY <1>2, <1>9, LenProperties
<1>. QED  BY <1>2, <1>6, <1>7, <1>8, <1>9, <1>10, LenProperties DEF Code

\* What comes after the code that was there.
LEMMA EmitParts ==
  ASSUME NEW bs, Code(bs), NEW b \in DOMAIN bs, NEW T, NEW ins \in Seq(T),
         NEW i \in DOMAIN Emit(bs, b, ins)[b].code
  PROVE  /\ Len(Emit(bs, b, ins)[b].code) = Len(bs[b].code) + Len(ins)
         /\ i \in 1 .. Len(bs[b].code) + Len(ins)
         /\ i \in DOMAIN bs[b].code => Emit(bs, b, ins)[b].code[i] = bs[b].code[i]
         /\ i \notin DOMAIN bs[b].code =>
              /\ i - Len(bs[b].code) \in DOMAIN ins
              /\ Emit(bs, b, ins)[b].code[i] = ins[i - Len(bs[b].code)]
<1>. DEFINE c == bs[b].code
<1>1. PICK S : c \in Seq(S)  BY CodeOf
<1>2. Len(c) \in Nat /\ DOMAIN c = 1 .. Len(c) /\ Len(ins) \in Nat /\ DOMAIN ins = 1 .. Len(ins)
  BY <1>1, LenProperties
<1>3. c \in Seq(S \cup T) /\ ins \in Seq(S \cup T)  BY <1>1, SeqMonotonic
<1>4. Emit(bs, b, ins)[b].code = c \o ins  BY EmitCode
<1>. HIDE DEF c
<1>5. /\ c \o ins \in Seq(S \cup T) /\ Len(c \o ins) = Len(c) + Len(ins)
      /\ \A j \in 1 .. Len(c) + Len(ins) :
           (c \o ins)[j] = IF j <= Len(c) THEN c[j] ELSE ins[j - Len(c)]
  BY <1>3, ConcatProperties
<1>6. DOMAIN (c \o ins) = 1 .. Len(c) + Len(ins)  BY <1>5, LenProperties
<1>. QED  BY <1>2, <1>4, <1>5, <1>6 DEF c

LEMMA EmitPlain ==
  ASSUME NEW bs, Code(bs), NEW b \in DOMAIN bs, Open(bs, b), NEW ins, Plain(ins)
  PROVE  Turned(bs, Emit(bs, b, ins), {}, 0)
<1>1. PICK T : ins \in Seq(T)  BY DEF Plain
<1>. DEFINE e == Emit(bs, b, ins)
<1>2. /\ Code(e) /\ Len(e) = Len(bs) /\ DOMAIN e = DOMAIN bs /\ Len(bs) \in Nat
      /\ DOMAIN bs = 1 .. Len(bs) /\ \A d \in DOMAIN bs : d # b => e[d] = bs[d]
  BY <1>1, EmitCode, CodeDomain
<1>3. Open(e, b)
  <2>. SUFFICES ASSUME NEW i \in DOMAIN e[b].code PROVE ~Ends(e[b].code[i])  BY DEF Open
  <2>1. /\ i \in DOMAIN bs[b].code => e[b].code[i] = bs[b].code[i]
        /\ i \notin DOMAIN bs[b].code =>
             i - Len(bs[b].code) \in DOMAIN ins /\ e[b].code[i] = ins[i - Len(bs[b].code)]
    BY <1>1, EmitParts
  <2>. QED  BY <2>1 DEF Open, Plain
<1>4. ~Ended(bs, b)
  <2>1. Len(bs[b].code) \in Nat /\ DOMAIN bs[b].code = 1 .. Len(bs[b].code)  BY CodeOf
  <2>. QED  BY <2>1 DEF Open, Ended
<1>. HIDE DEF e
<1>. QED  BY <1>2, <1>3, <1>4 DEF Turned, Open, Ended, e

LEMMA EmitClosing ==
  ASSUME NEW bs, Code(bs), NEW b \in DOMAIN bs, Open(bs, b), NEW ins, Closing(ins)
  PROVE  Turned(bs, Emit(bs, b, ins), {b}, 0)
<1>1. PICK T : ins \in Seq(T)  BY DEF Closing
<1>. DEFINE e == Emit(bs, b, ins)
<1>2. /\ Code(e) /\ Len(e) = Len(bs) /\ DOMAIN e = DOMAIN bs /\ Len(bs) \in Nat
      /\ DOMAIN bs = 1 .. Len(bs) /\ \A d \in DOMAIN bs : d # b => e[d] = bs[d]
  BY <1>1, EmitCode, CodeDomain
<1>3. Len(bs[b].code) \in Nat /\ DOMAIN bs[b].code = 1 .. Len(bs[b].code)  BY CodeOf
<1>4. Len(ins) \in Nat /\ DOMAIN ins = 1 .. Len(ins) /\ Len(ins) >= 1
  BY <1>1, LenProperties DEF Closing
<1>5. Len(e[b].code) = Len(bs[b].code) + Len(ins)
      /\ DOMAIN e[b].code = 1 .. Len(bs[b].code) + Len(ins)
  <2>1. Code(e) /\ b \in DOMAIN e  BY <1>2
  <2>2. Len(e[b].code) \in Nat /\ DOMAIN e[b].code = 1 .. Len(e[b].code)  BY <2>1, CodeOf
  <2>3. PICK S : bs[b].code \in Seq(S)  BY CodeOf
  <2>4. bs[b].code \in Seq(S \cup T) /\ ins \in Seq(S \cup T)  BY <1>1, <2>3, SeqMonotonic
  <2>5. Len(bs[b].code \o ins) = Len(bs[b].code) + Len(ins)  BY <2>4, ConcatProperties
  <2>6. e[b].code = bs[b].code \o ins  BY <1>1, EmitCode
  <2>. QED  BY <2>2, <2>5, <2>6
<1>6. Ended(e, b)
  <2>. SUFFICES ASSUME NEW i \in DOMAIN e[b].code
                PROVE  Ends(e[b].code[i]) <=> i = Len(e[b].code)
    BY <1>3, <1>4, <1>5 DEF Ended
  <2>1. /\ i \in DOMAIN bs[b].code => e[b].code[i] = bs[b].code[i]
        /\ i \notin DOMAIN bs[b].code =>
             i - Len(bs[b].code) \in DOMAIN ins /\ e[b].code[i] = ins[i - Len(bs[b].code)]
    BY <1>1, EmitParts
  <2>2. i \in 1 .. Len(bs[b].code) + Len(ins)  BY <1>5
  <2>. HIDE DEF e
  <2>3. CASE i \in DOMAIN bs[b].code  BY <2>1, <2>2, <2>3, <1>3, <1>4, <1>5 DEF Open
  <2>4. CASE i \notin DOMAIN bs[b].code
    <3>. DEFINE j == i - Len(bs[b].code)
    <3>1. j \in DOMAIN ins /\ e[b].code[i] = ins[j]  BY <2>1, <2>4
    <3>2. Ends(ins[j]) <=> j = Len(ins)  BY <3>1 DEF Closing
    <3>. QED  BY <3>1, <3>2, <2>2, <1>3, <1>4, <1>5
  <2>. QED  BY <2>3, <2>4
<1>. HIDE DEF e
<1>. QED  BY <1>2, <1>6 DEF Turned, Open, Ended, e

\* Blocks that are begun are empty.
LEMMA NewBlocks ==
  ASSUME NEW bs, Code(bs), NEW new \in Seq(Block3({})), \A i \in DOMAIN new : new[i].code = <<>>
  PROVE  Turned(bs, bs \o new, {}, Len(new))
<1>1. PICK S : bs \in Seq(Block3(S))  BY DEF Code
<1>2. Block3({}) \subseteq Block3(S)
  <2>1. \A s \in Seq({}) : s \in Seq(S)  BY SeqMonotonic
  <2>. QED  BY <2>1 DEF Block3
<1>3. new \in Seq(Block3(S))  BY <1>2, SeqMonotonic
<1>4. /\ bs \o new \in Seq(Block3(S)) /\ Len(bs \o new) = Len(bs) + Len(new)
      /\ \A i \in 1 .. Len(bs) + Len(new) :
           (bs \o new)[i] = IF i <= Len(bs) THEN bs[i] ELSE new[i - Len(bs)]
  BY <1>1, <1>3, ConcatProperties
<1>5. Len(bs) \in Nat /\ DOMAIN bs = 1 .. Len(bs) /\ Len(new) \in Nat /\ DOMAIN new = 1 .. Len(new)
      /\ DOMAIN (bs \o new) = 1 .. Len(bs) + Len(new)
  BY <1>1, <1>4, LenProperties
<1>6. Code(bs \o new)  BY <1>4 DEF Code
<1>7. ASSUME NEW b \in DOMAIN (bs \o new), b > Len(bs) PROVE Open(bs \o new, b)
  <2>1. (bs \o new)[b] = new[b - Len(bs)] /\ b - Len(bs) \in DOMAIN new  BY <1>4, <1>5, <1>7
  <2>. QED  BY <2>1 DEF Open
<1>8. ASSUME NEW b \in DOMAIN bs PROVE (bs \o new)[b] = bs[b]  BY <1>4, <1>5
<1>. QED  BY <1>4, <1>5, <1>6, <1>7, <1>8 DEF Turned, Open, Ended

LEMMA TurnedTwice ==
  ASSUME NEW a, NEW b, NEW c, NEW E, NEW F, NEW n, NEW m,
         Turned(a, b, E, n), Turned(b, c, F, m), E \subseteq DOMAIN b, F \subseteq DOMAIN a
  PROVE  Turned(a, c, E \cup F, n + m)
<1>1. /\ Len(a) \in Nat /\ DOMAIN a = 1 .. Len(a) /\ Len(b) \in Nat /\ DOMAIN b = 1 .. Len(b)
      /\ Len(c) \in Nat /\ DOMAIN c = 1 .. Len(c)
  BY CodeDomain DEF Turned
<1>. QED  BY <1>1 DEF Turned

LEMMA TurnedNone == ASSUME NEW bs, Code(bs) PROVE Turned(bs, bs, {}, 0)
  BY CodeDomain DEF Turned

-----------------------------------------------------------------------------
(* Who will end an open block: the insertion block is ended by what comes next, any other  *)
(* belongs to one of the constructs under way, whose frames are numbered from the outside. *)

ShortCircuitFrame == [lhs : Nat, merge : Nat]
TernaryFrame == [first : Nat, thenEnd : Nat]
IfFrame == [else : Nat, end : Nat, ends : SUBSET Nat]
LoopFrame == [header : Nat]
Frames == ShortCircuitFrame \cup TernaryFrame \cup IfFrame \cup LoopFrame

\* How far a construct has come: in its right operand; its first or second arm ("two" and
\* "one" are the first of two arms, or the only one); its condition, body or increment.
Stages == {"rhs", "then", "join", "two", "one", "arm2", "cond", "body", "inc"}

\* The open blocks O of a construct at stage s.
Owns(s, f, O, bs) ==
  \/ s = "rhs" /\ f \in ShortCircuitFrame /\ O = {f.merge}
  \/ s = "then" /\ f \in TernaryFrame /\ O = {f.first + 2, f.first + 3}
  \/ s = "join" /\ f \in TernaryFrame /\ O = {f.thenEnd, f.first + 3} /\ f.thenEnd # f.first + 3
  \/ s = "two" /\ f \in IfFrame /\ O = {f.else, f.end} /\ f.else # f.end
  \/ s = "one" /\ f \in IfFrame /\ O = {f.end}
  \/ s = "arm2" /\ f \in IfFrame /\ f.end \in O /\ f.end \notin f.ends /\ O \subseteq {f.end} \cup f.ends
     /\ f.ends \subseteq DOMAIN bs /\ \A b \in f.ends : b \in O \/ Ended(bs, b)
  \/ s = "cond" /\ f \in LoopFrame /\ O = {f.header + 1, f.header + 2, f.header + 3}
  \/ s = "body" /\ f \in LoopFrame /\ O = {f.header + 2, f.header + 3}
  \/ s = "inc" /\ f \in LoopFrame /\ O = {f.header + 3}

Owners(bs, fr) == [DOMAIN bs -> 0 .. Len(fr)]
Of(own, l) == {b \in DOMAIN own : own[b] = l}

Ledger(bs, c, fr, st, own) ==
  /\ Code(bs) /\ fr \in Seq(Frames) /\ st \in Seq(Stages) /\ Len(st) = Len(fr)
  /\ own \in [DOMAIN bs -> 0 .. Len(fr)]
  /\ c \in DOMAIN bs /\ own[c] = 0
  /\ \A b \in DOMAIN bs :
       /\ Open(bs, b) \/ Ended(bs, b)
       /\ own[b] > 0 => Open(bs, b)
       /\ own[b] = 0 /\ b # c => Ended(bs, b)
  /\ \A l \in 1 .. Len(fr) : Owns(st[Len(fr) + 1 - l], fr[Len(fr) + 1 - l], Of(own, l), bs)

\* What a construct owns does not depend on the blocks of others.
LEMMA OwnsStill ==
  ASSUME NEW s, NEW f, NEW O, NEW bs, NEW bs2, NEW E, NEW n,
         Owns(s, f, O, bs), Turned(bs, bs2, E, n), E \cap O = {}
  PROVE  Owns(s, f, O, bs2)
<1>1. DOMAIN bs \subseteq DOMAIN bs2  BY CodeDomain DEF Turned
<1>2. ASSUME NEW b \in DOMAIN bs, Ended(bs, b) PROVE Ended(bs2, b)  BY <1>2 DEF Turned
<1>. QED  BY <1>1, <1>2 DEF Owns

\* A step of the construct in the innermost frame, or one that begins a construct: k frames
\* further out stay, O2 is what the innermost construct owns now, if there is one, and the
\* other blocks that nobody further out owns have been ended, but for c2.
Free(bs, own, k, b) == b \notin DOMAIN bs \/ own[b] = 0 \/ own[b] > k
HandedOver(bs, fr, st, own, bs2, c2, fr2, st2, E, k, O2) ==
  /\ k \in Nat /\ k <= Len(fr)
  /\ fr2 \in Seq(Frames) /\ st2 \in Seq(Stages) /\ Len(st2) = Len(fr2)
  /\ \A l \in 1 .. k : /\ fr2[Len(fr2) + 1 - l] = fr[Len(fr) + 1 - l]
                       /\ st2[Len(fr2) + 1 - l] = st[Len(fr) + 1 - l]
  /\ \/ Len(fr2) = k /\ O2 = {}
     \/ Len(fr2) = k + 1 /\ Owns(st2[1], fr2[1], O2, bs2)
  /\ O2 \subseteq DOMAIN bs2 /\ c2 \in DOMAIN bs2 /\ c2 \notin O2
  /\ \A b \in O2 : Free(bs, own, k, b) /\ Open(bs2, b)
  /\ Free(bs, own, k, c2) /\ (Open(bs2, c2) \/ Ended(bs2, c2))
  /\ \A b \in E : b \in DOMAIN bs /\ Free(bs, own, k, b)
  /\ \A b \in DOMAIN bs2 : Free(bs, own, k, b) => b \in O2 \/ b = c2 \/ Ended(bs2, b)

LEMMA Regroup ==
  ASSUME NEW bs, NEW c, NEW fr, NEW st, NEW own, Ledger(bs, c, fr, st, own),
         NEW bs2, NEW E, NEW n, Turned(bs, bs2, E, n),
         NEW c2, NEW fr2, NEW st2, NEW k, NEW O2,
         HandedOver(bs, fr, st, own, bs2, c2, fr2, st2, E, k, O2)
  PROVE  \E own2 : Ledger(bs2, c2, fr2, st2, own2)
<1>a. /\ k \in Nat /\ k <= Len(fr)
      /\ fr2 \in Seq(Frames) /\ st2 \in Seq(Stages) /\ Len(st2) = Len(fr2)
      /\ Len(fr2) \in {k, k + 1} /\ (Len(fr2) = k => O2 = {})
      /\ (Len(fr2) = k + 1 => Owns(st2[1], fr2[1], O2, bs2))
      /\ O2 \subseteq DOMAIN bs2 /\ c2 \in DOMAIN bs2 /\ c2 \notin O2
  BY DEF HandedOver
<1>b. \A l \in 1 .. k : /\ fr2[Len(fr2) + 1 - l] = fr[Len(fr) + 1 - l]
                        /\ st2[Len(fr2) + 1 - l] = st[Len(fr) + 1 - l]
  BY DEF HandedOver
<1>c. /\ \A b \in O2 : Open(bs2, b)
      /\ Open(bs2, c2) \/ Ended(bs2, c2)
      /\ \A b \in O2 \cup {c2} : b \in DOMAIN bs => own[b] = 0 \/ own[b] > k
      /\ \A b \in E : b \in DOMAIN bs /\ (own[b] = 0 \/ own[b] > k)
      /\ \A b \in DOMAIN bs2 : (b \notin DOMAIN bs \/ own[b] = 0 \/ own[b] > k)
                                 => b \in O2 \/ b = c2 \/ Ended(bs2, b)
  BY DEF HandedOver, Free
<1>. USE <1>a, <1>b, <1>c
<1>. DEFINE Outer(b) == b \in DOMAIN bs /\ own[b] \in 1 .. k
            own2 == [b \in DOMAIN bs2 |-> IF Outer(b) THEN own[b] ELSE IF b \in O2 THEN k + 1 ELSE 0]
<1>1. /\ Len(bs) \in Nat /\ DOMAIN bs = 1 .. Len(bs)
      /\ Len(bs2) \in Nat /\ DOMAIN bs2 = 1 .. Len(bs2) /\ DOMAIN bs \subseteq DOMAIN bs2
  BY CodeDomain DEF Turned
<1>2. own \in [DOMAIN bs -> 0 .. Len(fr)] /\ Len(fr) \in Nat /\ Len(fr2) \in Nat
  BY LenProperties DEF Ledger
<1>3. own2 \in [DOMAIN bs2 -> 0 .. Len(fr2)]
  <2>. SUFFICES ASSUME NEW b \in DOMAIN bs2 PROVE own2[b] \in 0 .. Len(fr2)  OBVIOUS
  <2>. QED  BY <1>2
<1>4. own2[c2] = 0  BY <1>2
<1>5. ASSUME NEW b \in DOMAIN bs2
      PROVE  /\ Open(bs2, b) \/ Ended(bs2, b)
             /\ own2[b] > 0 => Open(bs2, b)
             /\ own2[b] = 0 /\ b # c2 => Ended(bs2, b)
  <2>1. CASE Outer(b)
    <3>1. own2[b] = own[b]  BY <2>1
    <3>6. own[b] > 0 /\ own[b] \in 1 .. k  BY <2>1, <1>2
    <3>2. Open(bs, b)  BY <2>1, <3>6 DEF Ledger
    <3>3. b \notin E  BY <3>6
    <3>4. Open(bs2, b)  BY <2>1, <3>2, <3>3 DEF Turned
    <3>. QED  BY <3>1, <3>4, <3>6
  <2>2. CASE ~Outer(b)
    <3>1. b \notin DOMAIN bs \/ own[b] = 0 \/ own[b] > k  BY <2>2, <1>2
    <3>2. b \in O2 \/ b = c2 \/ Ended(bs2, b)  BY <3>1
    <3>3. own2[b] = IF b \in O2 THEN k + 1 ELSE 0  BY <2>2
    <3>. QED  BY <3>2, <3>3
  <2>. QED  BY <2>1, <2>2
<1>6. ASSUME NEW l \in 1 .. Len(fr2)
      PROVE  Owns(st2[Len(fr2) + 1 - l], fr2[Len(fr2) + 1 - l], Of(own2, l), bs2)
  <2>1. CASE l <= k
    <3>1. Of(own2, l) = Of(own, l)
      <4>1. ASSUME NEW b \in DOMAIN bs2, own2[b] = l PROVE b \in DOMAIN own /\ own[b] = l
        BY <2>1, <4>1, <1>2
      <4>2. ASSUME NEW b \in DOMAIN bs, own[b] = l PROVE b \in DOMAIN bs2 /\ own2[b] = l
        BY <2>1, <4>2, <1>1, <1>2
      <4>. QED  BY <4>1, <4>2, <1>2, <1>3 DEF Of
    <3>2. l \in 1 .. Len(fr)  BY <2>1, <1>2
    <3>3. Owns(st[Len(fr) + 1 - l], fr[Len(fr) + 1 - l], Of(own, l), bs)  BY <3>2 DEF Ledger
    <3>4. E \cap Of(own, l) = {}
      <4>. SUFFICES ASSUME NEW b \in E, b \in Of(own, l) PROVE FALSE  OBVIOUS
      <4>1. own[b] = l /\ (own[b] = 0 \/ own[b] > k)  BY DEF Of
      <4>. QED  BY <4>1, <2>1, <1>2
    <3>5. Owns(st[Len(fr) + 1 - l], fr[Len(fr) + 1 - l], Of(own, l), bs2)  BY <3>3, <3>4, OwnsStill
    <3>6. fr2[Len(fr2) + 1 - l] = fr[Len(fr) + 1 - l] /\ st2[Len(fr2) + 1 - l] = st[Len(fr) + 1 - l]
      BY <2>1, <1>2
    <3>. QED  BY <3>1, <3>5, <3>6
  <2>2. CASE l > k
    <3>1. l = k + 1 /\ Len(fr2) = k + 1 /\ Len(fr2) + 1 - l = 1  BY <2>2, <1>2
    <3>2. Of(own2, l) = O2
      <4>1. ASSUME NEW b \in DOMAIN bs2, own2[b] = k + 1 PROVE b \in O2  BY <4>1
      <4>2. ASSUME NEW b \in O2 PROVE b \in DOMAIN bs2 /\ own2[b] = k + 1
        <5>1. b \in DOMAIN bs => own[b] = 0 \/ own[b] > k  OBVIOUS
        <5>2. b \in DOMAIN bs => own[b] \in 0 .. Len(fr)  BY <1>2
        <5>3. ~Outer(b)  BY <5>1, <5>2, <1>2
        <5>4. own2[b] = IF Outer(b) THEN own[b] ELSE IF b \in O2 THEN k + 1 ELSE 0  OBVIOUS
        <5>. HIDE DEF own2, Outer
        <5>. QED  BY <5>3, <5>4
      <4>. QED  BY <3>1, <4>1, <4>2, <1>3 DEF Of
    <3>3. Owns(st2[1], fr2[1], O2, bs2)  BY <3>1
    <3>. QED  BY <3>1, <3>2, <3>3, Zenon
  <2>. QED  BY <2>1, <2>2, <1>2
<1>. HIDE DEF own2
<1>7. Ledger(bs2, c2, fr2, st2, own2)  BY <1>3, <1>4, <1>5, <1>6 DEF Ledger, Turned
<1>. QED  BY <1>7

LEMMA LedgerTypes ==
  ASSUME NEW bs, NEW c, NEW fr, NEW st, NEW own, Ledger(bs, c, fr, st, own)
  PROVE  /\ Len(bs) \in Nat /\ DOMAIN bs = 1 .. Len(bs) /\ Len(fr) \in Nat /\ Len(st) = Len(fr)
         /\ own \in [DOMAIN bs -> 0 .. Len(fr)] /\ c \in DOMAIN bs
         /\ Open(bs, c) \/ Ended(bs, c)
         /\ fr = <<>> <=> st = <<>> /\ fr # <<>> => Len(fr) >= 1
<1>1. fr \in Seq(Frames) /\ st \in Seq(Stages) /\ Code(bs)  BY DEF Ledger
<1>2. Len(fr) \in Nat /\ (fr # <<>> <=> Len(fr) >= 1) /\ (st # <<>> <=> Len(st) >= 1)
  BY <1>1, EmptySeq, LenProperties
<1>. QED  BY <1>1, <1>2, CodeDomain DEF Ledger

\* The innermost construct owns open blocks, and not the insertion block.
LEMMA Innermost ==
  ASSUME NEW bs, NEW c, NEW fr, NEW st, NEW own, Ledger(bs, c, fr, st, own), st # <<>>
  PROVE  /\ Owns(st[1], fr[1], Of(own, Len(fr)), bs)
         /\ Of(own, Len(fr)) \subseteq DOMAIN bs /\ c \notin Of(own, Len(fr))
         /\ \A b \in Of(own, Len(fr)) : Open(bs, b) /\ own[b] = Len(fr)
<1>1. Len(fr) \in Nat /\ Len(fr) >= 1 /\ own \in [DOMAIN bs -> 0 .. Len(fr)]  BY LedgerTypes
<1>2. Len(fr) + 1 - Len(fr) = 1 /\ Len(fr) \in 1 .. Len(fr)  BY <1>1
<1>3. Owns(st[1], fr[1], Of(own, Len(fr)), bs)
  <2>1. Owns(st[Len(fr) + 1 - Len(fr)], fr[Len(fr) + 1 - Len(fr)], Of(own, Len(fr)), bs)
    BY <1>2 DEF Ledger
  <2>. QED  BY <1>2, <2>1
<1>4. ASSUME NEW b \in Of(own, Len(fr))
      PROVE  b \in DOMAIN bs /\ own[b] = Len(fr) /\ own[b] > 0  BY <1>1 DEF Of
<1>. QED  BY <1>1, <1>3, <1>4 DEF Ledger

\* Code is written to the insertion block, which may be ended by it.
LEMMA Write ==
  ASSUME NEW bs, NEW c, NEW fr, NEW st, NEW own, Ledger(bs, c, fr, st, own),
         NEW bs2, NEW E, Turned(bs, bs2, E, 0), E \subseteq {c}
  PROVE  \E own2 : Ledger(bs2, c, fr, st, own2)
<1>1. /\ Len(bs) \in Nat /\ DOMAIN bs = 1 .. Len(bs) /\ Len(fr) \in Nat /\ Len(st) = Len(fr)
      /\ own \in [DOMAIN bs -> 0 .. Len(fr)] /\ c \in DOMAIN bs /\ own[c] = 0
  BY LedgerTypes DEF Ledger
<1>2. fr \in Seq(Frames) /\ st \in Seq(Stages)  BY DEF Ledger
<1>3. DOMAIN bs2 = DOMAIN bs  BY <1>1, CodeDomain DEF Turned
<1>4. Open(bs2, c) \/ Ended(bs2, c)  BY <1>1 DEF Turned, Ledger
<1>5. ASSUME NEW b \in DOMAIN bs2, b \notin DOMAIN bs \/ own[b] = 0 \/ own[b] > Len(fr)
      PROVE  b = c \/ Ended(bs2, b)
  <2>1. own[b] = 0 /\ b \in DOMAIN bs  BY <1>1, <1>3, <1>5
  <2>. QED  BY <2>1 DEF Ledger, Turned
<1>. DEFINE k == Len(fr)
            O2 == {}
<1>6. k \in Nat /\ k <= Len(fr) /\ Len(fr) \in {k, k + 1} /\ O2 \subseteq DOMAIN bs2 /\ c \notin O2
      /\ c \in DOMAIN bs2 /\ Len(fr) # k + 1
  BY <1>1, <1>3
<1>7. \A b \in O2 \cup {c} : b \in DOMAIN bs => own[b] = 0 \/ own[b] > k  BY <1>1
<1>8. \A b \in E : b \in DOMAIN bs /\ (own[b] = 0 \/ own[b] > k)  BY <1>1
<1>9. HandedOver(bs, fr, st, own, bs2, c, fr, st, E, k, O2)
  BY <1>1, <1>2, <1>4, <1>5, <1>6, <1>7, <1>8 DEF HandedOver, Free
<1>. QED  BY <1>9, Regroup

\* A construct ends the insertion block, begins n blocks and goes on in one of them.
LEMMA Begin ==
  ASSUME NEW bs, NEW c, NEW fr, NEW st, NEW own, Ledger(bs, c, fr, st, own),
         NEW bs2, NEW n, Turned(bs, bs2, {c}, n), NEW f \in Frames, NEW s \in Stages,
         NEW c2, NEW O2, O2 \cup {c2} = Len(bs) + 1 .. Len(bs) + n, c2 \notin O2,
         Owns(s, f, O2, bs2)
  PROVE  \E own2 : Ledger(bs2, c2, <<f>> \o fr, <<s>> \o st, own2)
<1>1. /\ Len(bs) \in Nat /\ DOMAIN bs = 1 .. Len(bs) /\ Len(fr) \in Nat /\ Len(st) = Len(fr)
      /\ own \in [DOMAIN bs -> 0 .. Len(fr)] /\ c \in DOMAIN bs /\ own[c] = 0
  BY LedgerTypes DEF Ledger
<1>2. fr \in Seq(Frames) /\ st \in Seq(Stages)  BY DEF Ledger
<1>. DEFINE k == Len(fr)
            fr2 == <<f>> \o fr
            st2 == <<s>> \o st
<1>3. /\ fr2 \in Seq(Frames) /\ st2 \in Seq(Stages) /\ Len(fr2) = k + 1 /\ Len(st2) = k + 1
      /\ fr2[1] = f /\ st2[1] = s
      /\ \A i \in 2 .. k + 1 : fr2[i] = fr[i - 1] /\ st2[i] = st[i - 1]
  <2>1. <<f>> \in Seq(Frames) /\ Len(<<f>>) = 1 /\ <<s>> \in Seq(Stages) /\ Len(<<s>>) = 1  OBVIOUS
  <2>2. \A i \in 1 .. 1 + k : fr2[i] = IF i <= 1 THEN <<f>>[i] ELSE fr[i - 1]
    BY <1>1, <1>2, <2>1, ConcatProperties
  <2>3. \A i \in 1 .. 1 + k : st2[i] = IF i <= 1 THEN <<s>>[i] ELSE st[i - 1]
    BY <1>1, <1>2, <2>1, ConcatProperties
  <2>4. fr2 \in Seq(Frames) /\ st2 \in Seq(Stages) /\ Len(fr2) = 1 + k /\ Len(st2) = 1 + k
    BY <1>1, <1>2, <2>1, ConcatProperties
  <2>5. <<f>>[1] = f /\ <<s>>[1] = s  OBVIOUS
  <2>6. k \in Nat  BY <1>1
  <2>. HIDE DEF fr2, st2, k
  <2>7. fr2[1] = f /\ st2[1] = s
    <3>1. 1 \in 1 .. 1 + k /\ 1 <= 1  BY <2>6
    <3>2. fr2[1] = <<f>>[1]  BY <2>2, <3>1, Zenon
    <3>3. st2[1] = <<s>>[1]  BY <2>3, <3>1, Zenon
    <3>. QED  BY <2>5, <3>2, <3>3
  <2>8. ASSUME NEW i \in 2 .. k + 1 PROVE fr2[i] = fr[i - 1] /\ st2[i] = st[i - 1]
    <3>1. i \in 1 .. 1 + k /\ ~(i <= 1)  BY <2>6
    <3>. QED  BY <2>2, <2>3, <3>1
  <2>. QED  BY <2>4, <2>6, <2>7, <2>8
<1>. HIDE DEF fr2, st2
<1>4. \A l \in 1 .. k : /\ fr2[Len(fr2) + 1 - l] = fr[Len(fr) + 1 - l]
                        /\ st2[Len(fr2) + 1 - l] = st[Len(fr) + 1 - l]
  <2>. SUFFICES ASSUME NEW l \in 1 .. k
                PROVE  /\ fr2[k + 2 - l] = fr[k + 1 - l] /\ st2[k + 2 - l] = st[k + 1 - l]
    BY <1>1, <1>3
  <2>1. k + 2 - l \in 2 .. k + 1 /\ (k + 2 - l) - 1 = k + 1 - l  BY <1>1
  <2>. QED  BY <1>3, <2>1
<1>5. DOMAIN bs2 = 1 .. Len(bs) + n /\ n \in Nat  BY <1>1, CodeDomain DEF Turned
<1>6. /\ O2 \subseteq DOMAIN bs2 /\ c2 \in DOMAIN bs2
      /\ \A b \in O2 \cup {c2} : b \notin DOMAIN bs /\ Open(bs2, b)
  <2>1. \A b \in O2 \cup {c2} : b \in Len(bs) + 1 .. Len(bs) + n  OBVIOUS
  <2>2. \A b \in Len(bs) + 1 .. Len(bs) + n : b \in DOMAIN bs2 /\ b \notin DOMAIN bs /\ b > Len(bs)
    BY <1>1, <1>5
  <2>3. \A b \in DOMAIN bs2 : b > Len(bs) => Open(bs2, b)  BY DEF Turned
  <2>. QED  BY <2>1, <2>2, <2>3
<1>7. ASSUME NEW b \in DOMAIN bs2, b \notin DOMAIN bs \/ own[b] = 0 \/ own[b] > k
      PROVE  b \in O2 \/ b = c2 \/ Ended(bs2, b)
  <2>1. CASE b \notin DOMAIN bs
    <3>1. b \in Len(bs) + 1 .. Len(bs) + n  BY <1>1, <1>5, <2>1
    <3>. QED  BY <3>1
  <2>2. CASE b \in DOMAIN bs
    <3>1. own[b] = 0  BY <1>1, <1>7, <2>2
    <3>2. b = c \/ Ended(bs, b)  BY <2>2, <3>1 DEF Ledger
    <3>. QED  BY <2>2, <3>2 DEF Turned
  <2>. QED  BY <2>1, <2>2
<1>8. \A b \in {c} : b \in DOMAIN bs /\ (own[b] = 0 \/ own[b] > k)  BY <1>1
<1>9. k \in Nat /\ k <= Len(fr) /\ Len(fr2) \in {k, k + 1} /\ Len(fr2) # k /\ Len(st2) = Len(fr2)
      /\ Open(bs2, c2) /\ \A b \in O2 : Open(bs2, b)
  BY <1>1, <1>3, <1>6
<1>10. Owns(st2[1], fr2[1], O2, bs2)  BY <1>3
<1>11. \A b \in O2 \cup {c2} : b \in DOMAIN bs => own[b] = 0 \/ own[b] > k  BY <1>6
<1>. HIDE DEF k
<1>12. HandedOver(bs, fr, st, own, bs2, c2, fr2, st2, {c}, k, O2)
  BY <1>3, <1>4, <1>6, <1>7, <1>8, <1>9, <1>10, <1>11 DEF HandedOver, Free
<1>13. \E own2 : Ledger(bs2, c2, fr2, st2, own2)  BY <1>12, Regroup
<1>. QED  BY <1>13 DEF fr2, st2

\* The innermost construct, which owns O, ends the blocks of E and goes on in c2; O2 is left.
Moved(bs, c, O, bs2, E, c2, O2) ==
  /\ Turned(bs, bs2, E, 0) /\ E \subseteq O \cup {c}
  /\ c2 \notin O2 /\ c2 \in O \cup {c} /\ O2 \subseteq O \cup {c}
  /\ \A b \in O2 : Open(bs2, b)
  /\ \A b \in O \cup {c} : b \in O2 \/ b = c2 \/ Ended(bs2, b)

\* A step on the way through a construct.
LEMMA GoOn ==
  ASSUME NEW bs, NEW c, NEW fr, NEW st, NEW own, Ledger(bs, c, fr, st, own), st # <<>>,
         NEW bs2, NEW E, NEW c2, NEW O2, Moved(bs, c, Of(own, Len(fr)), bs2, E, c2, O2),
         NEW f \in Frames, NEW s \in Stages, Owns(s, f, O2, bs2)
  PROVE  \E own2 : Ledger(bs2, c2, [fr EXCEPT ![1] = f], <<s>> \o Tail(st), own2)
<1>. DEFINE O == Of(own, Len(fr))
<1>m. /\ Turned(bs, bs2, E, 0) /\ E \subseteq O \cup {c}
      /\ c2 \notin O2 /\ c2 \in O \cup {c} /\ O2 \subseteq O \cup {c}
      /\ \A b \in O2 : Open(bs2, b)
      /\ \A b \in O \cup {c} : b \in O2 \/ b = c2 \/ Ended(bs2, b)
  BY DEF Moved
<1>. USE <1>m
<1>1. /\ Len(bs) \in Nat /\ DOMAIN bs = 1 .. Len(bs) /\ Len(fr) \in Nat /\ Len(st) = Len(fr)
      /\ own \in [DOMAIN bs -> 0 .. Len(fr)] /\ c \in DOMAIN bs /\ own[c] = 0
  BY LedgerTypes DEF Ledger
<1>2. fr \in Seq(Frames) /\ st \in Seq(Stages)  BY DEF Ledger
<1>. DEFINE k == Len(fr) - 1
            fr2 == [fr EXCEPT ![1] = f]
            st2 == <<s>> \o Tail(st)
<1>3. k \in Nat /\ Len(fr) = k + 1  BY <1>1, LedgerTypes
<1>4. fr2 \in Seq(Frames) /\ Len(fr2) = k + 1 /\ fr2[1] = f /\ \A i \in 2 .. k + 1 : fr2[i] = fr[i]
  <2>1. 1 \in 1 .. Len(fr)  BY <1>3
  <2>2. /\ fr2 \in Seq(Frames) /\ Len(fr2) = Len(fr)
        /\ \A j \in 1 .. Len(fr) : fr2[j] = IF j = 1 THEN f ELSE fr[j]
    BY <1>2, <2>1, ExceptSeq
  <2>. HIDE DEF fr2, k
  <2>. QED  BY <1>3, <2>1, <2>2
<1>5. st2 \in Seq(Stages) /\ Len(st2) = k + 1 /\ st2[1] = s /\ \A i \in 2 .. k + 1 : st2[i] = st[i]
  <2>1. /\ Tail(st) \in Seq(Stages) /\ Len(Tail(st)) = k
        /\ \A i \in 1 .. Len(Tail(st)) : Tail(st)[i] = st[i + 1]
    BY <1>1, <1>2, <1>3, HeadTailProperties
  <2>2. <<s>> \in Seq(Stages) /\ Len(<<s>>) = 1 /\ <<s>>[1] = s  OBVIOUS
  <2>3. /\ st2 \in Seq(Stages) /\ Len(st2) = 1 + k
        /\ \A i \in 1 .. 1 + k : st2[i] = IF i <= 1 THEN <<s>>[i] ELSE Tail(st)[i - 1]
    BY <2>1, <2>2, ConcatProperties
  <2>. HIDE DEF st2, k
  <2>4. st2[1] = s
    <3>1. 1 \in 1 .. 1 + k  BY <1>3
    <3>. QED  BY <2>2, <2>3, <3>1
  <2>5. ASSUME NEW i \in 2 .. k + 1 PROVE st2[i] = st[i]
    <3>1. i \in 1 .. 1 + k /\ ~(i <= 1) /\ i - 1 \in 1 .. k /\ (i - 1) + 1 = i  BY <1>3
    <3>. QED  BY <2>1, <2>3, <3>1
  <2>. QED  BY <1>3, <2>3, <2>4, <2>5
<1>. HIDE DEF fr2, st2, k
<1>6. \A l \in 1 .. k : /\ fr2[Len(fr2) + 1 - l] = fr[Len(fr) + 1 - l]
                        /\ st2[Len(fr2) + 1 - l] = st[Len(fr) + 1 - l]
  <2>. SUFFICES ASSUME NEW l \in 1 .. k
                PROVE  /\ fr2[k + 2 - l] = fr[k + 2 - l] /\ st2[k + 2 - l] = st[k + 2 - l]
    BY <1>3, <1>4
  <2>1. k + 2 - l \in 2 .. k + 1  BY <1>3
  <2>. QED  BY <1>4, <1>5, <2>1
<1>7. /\ O \subseteq DOMAIN bs /\ \A b \in O \cup {c} : b \in DOMAIN bs /\ (own[b] = 0 \/ own[b] > k)
  <2>1. ASSUME NEW b \in O PROVE b \in DOMAIN bs /\ own[b] = k + 1  BY <1>1, <1>3 DEF Of
  <2>. QED  BY <1>1, <1>3, <2>1
<1>8. DOMAIN bs2 = DOMAIN bs  BY <1>1, CodeDomain DEF Turned
<1>9. ASSUME NEW b \in DOMAIN bs2, Free(bs, own, k, b)
      PROVE  b \in O2 \/ b = c2 \/ Ended(bs2, b)
  <2>1. b \in DOMAIN bs /\ (own[b] = 0 \/ own[b] = k + 1)  BY <1>1, <1>3, <1>8, <1>9 DEF Free
  <2>2. CASE b \in O \cup {c}  BY <2>2
  <2>3. CASE b \notin O \cup {c}
    <3>1. own[b] = 0  BY <1>1, <1>3, <2>1, <2>3 DEF Of
    <3>2. Ended(bs, b)  BY <2>1, <2>3, <3>1 DEF Ledger
    <3>. QED  BY <2>1, <2>3, <3>2 DEF Turned
  <2>. QED  BY <2>2, <2>3
<1>10. Open(bs2, c2) \/ Ended(bs2, c2)
  <2>1. Open(bs, c2) \/ Ended(bs, c2)  BY <1>7 DEF Ledger
  <2>. QED  BY <1>7, <2>1 DEF Turned
<1>11. HandedOver(bs, fr, st, own, bs2, c2, fr2, st2, E, k, O2)
  BY <1>3, <1>4, <1>5, <1>6, <1>7, <1>8, <1>9, <1>10 DEF HandedOver, Free
<1>12. \E own2 : Ledger(bs2, c2, fr2, st2, own2)  BY <1>11, Regroup
<1>. QED  BY <1>12 DEF fr2, st2

\* The last step of a construct.
LEMMA Finish ==
  ASSUME NEW bs, NEW c, NEW fr, NEW st, NEW own, Ledger(bs, c, fr, st, own), st # <<>>,
         NEW bs2, NEW E, NEW c2, Moved(bs, c, Of(own, Len(fr)), bs2, E, c2, {}), c2 # c
  PROVE  \E own2 : Ledger(bs2, c2, Tail(fr), Tail(st), own2)
<1>. DEFINE O == Of(own, Len(fr))
<1>m. /\ Turned(bs, bs2, E, 0) /\ E \subseteq O \cup {c} /\ c2 \in O
      /\ \A b \in O \cup {c} : b = c2 \/ Ended(bs2, b)
  BY DEF Moved
<1>. USE <1>m
<1>1. /\ Len(bs) \in Nat /\ DOMAIN bs = 1 .. Len(bs) /\ Len(fr) \in Nat /\ Len(st) = Len(fr)
      /\ own \in [DOMAIN bs -> 0 .. Len(fr)] /\ c \in DOMAIN bs /\ own[c] = 0
  BY LedgerTypes DEF Ledger
<1>2. fr \in Seq(Frames) /\ st \in Seq(Stages) /\ fr # <<>>  BY LedgerTypes DEF Ledger
<1>. DEFINE k == Len(fr) - 1
            fr2 == Tail(fr)
            st2 == Tail(st)
<1>3. k \in Nat /\ Len(fr) = k + 1  BY <1>1, LedgerTypes
<1>4. /\ fr2 \in Seq(Frames) /\ Len(fr2) = k /\ \A i \in 1 .. k : fr2[i] = fr[i + 1]
      /\ st2 \in Seq(Stages) /\ Len(st2) = k /\ \A i \in 1 .. k : st2[i] = st[i + 1]
  BY <1>1, <1>2, <1>3, HeadTailProperties
<1>. HIDE DEF fr2, st2, k
<1>6. \A l \in 1 .. k : /\ fr2[Len(fr2) + 1 - l] = fr[Len(fr) + 1 - l]
                        /\ st2[Len(fr2) + 1 - l] = st[Len(fr) + 1 - l]
  <2>. SUFFICES ASSUME NEW l \in 1 .. k
                PROVE  /\ fr2[k + 1 - l] = fr[k + 2 - l] /\ st2[k + 1 - l] = st[k + 2 - l]
    BY <1>3, <1>4
  <2>1. k + 1 - l \in 1 .. k /\ (k + 1 - l) + 1 = k + 2 - l  BY <1>3
  <2>. QED  BY <1>4, <2>1
<1>7. /\ O \subseteq DOMAIN bs /\ \A b \in O \cup {c} : b \in DOMAIN bs /\ (own[b] = 0 \/ own[b] > k)
  <2>1. ASSUME NEW b \in O PROVE b \in DOMAIN bs /\ own[b] = k + 1  BY <1>1, <1>3 DEF Of
  <2>. QED  BY <1>1, <1>3, <2>1
<1>8. DOMAIN bs2 = DOMAIN bs  BY <1>1, CodeDomain DEF Turned
<1>9. ASSUME NEW b \in DOMAIN bs2, Free(bs, own, k, b) PROVE b = c2 \/ Ended(bs2, b)
  <2>1. b \in DOMAIN bs /\ (own[b] = 0 \/ own[b] = k + 1)  BY <1>1, <1>3, <1>8, <1>9 DEF Free
  <2>2. CASE b \in O \cup {c}  BY <2>2
  <2>3. CASE b \notin O \cup {c}
    <3>1. own[b] = 0  BY <1>1, <1>3, <2>1, <2>3 DEF Of
    <3>2. Ended(bs, b)  BY <2>1, <2>3, <3>1 DEF Ledger
    <3>. QED  BY <2>1, <2>3, <3>2 DEF Turned
  <2>. QED  BY <2>2, <2>3
<1>10. Open(bs2, c2) \/ Ended(bs2, c2)
  <2>1. Open(bs, c2) \/ Ended(bs, c2)  BY <1>7 DEF Ledger
  <2>. QED  BY <1>7, <2>1 DEF Turned
<1>11. HandedOver(bs, fr, st, own, bs2, c2, fr2, st2, E, k, {})
  BY <1>3, <1>4, <1>6, <1>7, <1>8, <1>9, <1>10 DEF HandedOver, Free
<1>12. \E own2 : Ledger(bs2, c2, fr2, st2, own2)  BY <1>11, Regroup
<1>. QED  BY <1>12 DEF fr2, st2

-----------------------------------------------------------------------------
(* How blocks lie to each other: the block that begins one, the blocks one names. *)

Has(bs, b, i) == b \in DOMAIN bs /\ \E k \in DOMAIN bs[b].code : bs[b].code[k] = i
Branching(i) == i.op \in {"br", "condbr"}
Jump(i) == (\E t : i = Br(t)) \/ (\E t, f : i = CondBr(t, f))
Edge(bs, b, t) == \E i : Has(bs, b, i) /\ Branching(i) /\ t \in Range(i.arg)

Rooted(bs, C) == \A b \in DOMAIN bs : b \in C => bs[b].of \in C
Ahead(bs, C) == \A b, t : b \in C /\ Edge(bs, b, t) => t \in C

\* a is among the blocks that lead up to b, each begun by the one before; b is reached
\* wherever a and what leads up to it are.
Under(bs, b, a) == \A C : Rooted(bs, C) /\ b \in C => a \in C
Follows(bs, a, b) == \A C : Rooted(bs, C) /\ Ahead(bs, C) /\ a \in C => b \in C

LEMMA JumpBranches == ASSUME NEW i, Jump(i) PROVE Branching(i) /\ i.op # "phi"
  BY DEF Jump, Branching, Br, CondBr, Ins

LEMMA UnderSelf == ASSUME NEW bs, NEW b PROVE Under(bs, b, b) /\ Follows(bs, b, b)
  BY DEF Under, Follows

LEMMA UnderOf ==
  ASSUME NEW bs, NEW b \in DOMAIN bs
  PROVE  Under(bs, b, bs[b].of) /\ Follows(bs, b, bs[b].of)
  BY DEF Under, Follows, Rooted

LEMMA UnderTrans ==
  ASSUME NEW bs, NEW a, NEW b, NEW c, Under(bs, a, b), Under(bs, b, c) PROVE Under(bs, a, c)
  BY DEF Under

LEMMA FollowsTrans ==
  ASSUME NEW bs, NEW a, NEW b, NEW c, Follows(bs, a, b), Follows(bs, b, c) PROVE Follows(bs, a, c)
  BY DEF Follows

LEMMA EdgeFrom == ASSUME NEW bs, NEW a, NEW b, Edge(bs, a, b) PROVE a \in DOMAIN bs
  BY DEF Edge, Has

LEMMA FollowsEdge ==
  ASSUME NEW bs, NEW a, NEW b, Edge(bs, a, b) PROVE Follows(bs, a, b)
  BY DEF Follows, Ahead

\* From bs to bs2 code was written: N holds what is new, with the block it is in.
Wrote(bs, bs2, N) ==
  /\ \A b \in DOMAIN bs : b \in DOMAIN bs2 /\ bs2[b].of = bs[b].of /\ bs2[b].name = bs[b].name
  /\ \A b, i : Has(bs, b, i) => Has(bs2, b, i)
  /\ \A b, i : Has(bs2, b, i) => Has(bs, b, i) \/ <<b, i>> \in N
  /\ \A b, i : <<b, i>> \in N => Has(bs2, b, i)

LEMMA EdgeStill ==
  ASSUME NEW bs, NEW bs2, NEW N, Wrote(bs, bs2, N), NEW a, NEW b, Edge(bs, a, b)
  PROVE  Edge(bs2, a, b)
  BY DEF Edge, Wrote

LEMMA UnderStill ==
  ASSUME NEW bs, NEW bs2, NEW N, Wrote(bs, bs2, N), NEW a, NEW b, Under(bs, a, b)
  PROVE  Under(bs2, a, b)
<1>1. ASSUME NEW C, Rooted(bs2, C) PROVE Rooted(bs, C)  BY <1>1 DEF Rooted, Wrote
<1>. QED  BY <1>1 DEF Under

LEMMA FollowsStill ==
  ASSUME NEW bs, NEW bs2, NEW N, Wrote(bs, bs2, N), NEW a, NEW b, Follows(bs, a, b)
  PROVE  Follows(bs2, a, b)
<1>1. ASSUME NEW C, Rooted(bs2, C) PROVE Rooted(bs, C)  BY <1>1 DEF Rooted, Wrote
<1>2. ASSUME NEW C, Ahead(bs2, C) PROVE Ahead(bs, C)  BY <1>2, EdgeStill DEF Ahead
<1>. QED  BY <1>1, <1>2 DEF Follows

LEMMA WroteTwice ==
  ASSUME NEW a, NEW b, NEW c, NEW N, NEW M, Wrote(a, b, N), Wrote(b, c, M)
  PROVE  Wrote(a, c, N \cup M)
  BY DEF Wrote

LEMMA WroteNone == ASSUME NEW bs PROVE Wrote(bs, bs, {})
  BY DEF Wrote

\* What is appended to the code of a block.
Pairs(b, ins) == {<<b, ins[k]>> : k \in DOMAIN ins}

LEMMA EmitWrote ==
  ASSUME NEW bs, Code(bs), NEW b \in DOMAIN bs, NEW T, NEW ins \in Seq(T)
  PROVE  Wrote(bs, Emit(bs, b, ins), Pairs(b, ins)) /\ DOMAIN Emit(bs, b, ins) = DOMAIN bs
<1>. DEFINE e == Emit(bs, b, ins)
            d == bs[b].code
<1>1. DOMAIN e = DOMAIN bs /\ \A x \in DOMAIN bs : x # b => e[x] = bs[x]  BY EmitCode
<1>2. /\ Len(d) \in Nat /\ DOMAIN d = 1 .. Len(d) /\ Len(ins) \in Nat /\ DOMAIN ins = 1 .. Len(ins)
  BY CodeOf, LenProperties
<1>3. DOMAIN e[b].code = 1 .. Len(d) + Len(ins)
  <2>1. Code(e) /\ b \in DOMAIN e  BY <1>1, EmitCode
  <2>2. DOMAIN e[b].code = 1 .. Len(e[b].code)  BY <2>1, CodeOf
  <2>3. PICK S : d \in Seq(S)  BY CodeOf
  <2>4. d \in Seq(S \cup T) /\ ins \in Seq(S \cup T)  BY <2>3, SeqMonotonic
  <2>5. e[b].code = d \o ins  BY EmitCode
  <2>6. Len(d \o ins) = Len(d) + Len(ins)  BY <2>4, ConcatProperties
  <2>. QED  BY <2>2, <2>5, <2>6
<1>4. \A i \in 1 .. Len(d) + Len(ins) :
         /\ i \in DOMAIN d => e[b].code[i] = d[i]
         /\ i \notin DOMAIN d => i - Len(d) \in DOMAIN ins /\ e[b].code[i] = ins[i - Len(d)]
  BY <1>3, EmitParts
<1>5. e[b].of = bs[b].of /\ e[b].name = bs[b].name
  <2>1. e[b] = [bs[b] EXCEPT !.code = @ \o ins]
    <3>1. e = [bs EXCEPT ![b].code = @ \o ins]  BY DEF Emit
    <3>. QED  BY <3>1
  <2>2. PICK S : bs \in Seq(Block3(S))  BY DEF Code
  <2>3. bs[b] \in Block3(S)  BY <2>2, CodeDomain, ElementOfSeq
  <2>. QED  BY <2>1, <2>3 DEF Block3
<1>. HIDE DEF e
<1>6. ASSUME NEW x, NEW i, Has(bs, x, i) PROVE Has(e, x, i)
  <2>1. CASE x # b  BY <1>1, <1>6, <2>1 DEF Has
  <2>2. CASE x = b
    <3>1. PICK k \in DOMAIN d : d[k] = i  BY <1>6, <2>2 DEF Has
    <3>2. k \in 1 .. Len(d) + Len(ins) /\ e[b].code[k] = i  BY <1>2, <1>4, <3>1
    <3>. QED  BY <1>1, <1>3, <2>2, <3>2 DEF Has
  <2>. QED  BY <2>1, <2>2
<1>7. ASSUME NEW x, NEW i, Has(e, x, i) PROVE Has(bs, x, i) \/ <<x, i>> \in Pairs(b, ins)
  <2>1. CASE x # b  BY <1>1, <1>7, <2>1 DEF Has
  <2>2. CASE x = b
    <3>1. PICK k \in 1 .. Len(d) + Len(ins) : e[b].code[k] = i  BY <1>3, <1>7, <2>2 DEF Has
    <3>2. CASE k \in DOMAIN d  BY <1>4, <2>2, <3>1, <3>2 DEF Has
    <3>3. CASE k \notin DOMAIN d  BY <1>4, <2>2, <3>1, <3>3 DEF Pairs
    <3>. QED  BY <3>2, <3>3
  <2>. QED  BY <2>1, <2>2
<1>8. ASSUME NEW x, NEW i, <<x, i>> \in Pairs(b, ins) PROVE Has(e, x, i)
  <2>1. PICK k \in DOMAIN ins : x = b /\ i = ins[k]  BY <1>8 DEF Pairs
  <2>. DEFINE j == Len(d) + k
  <2>2. j \in 1 .. Len(d) + Len(ins) /\ j \notin DOMAIN d /\ j - Len(d) = k  BY <1>2, <2>1
  <2>3. e[b].code[j] = ins[k]  BY <1>4, <2>2
  <2>. QED  BY <1>1, <1>3, <2>1, <2>2, <2>3 DEF Has
<1>9. \A x \in DOMAIN bs : x \in DOMAIN e /\ e[x].of = bs[x].of /\ e[x].name = bs[x].name
  BY <1>1, <1>5
<1>10. Wrote(bs, e, Pairs(b, ins))  BY <1>6, <1>7, <1>8, <1>9 DEF Wrote
<1>. QED  BY <1>1, <1>10 DEF e

\* Blocks that are begun.
LEMMA NewWrote ==
  ASSUME NEW bs, Code(bs), NEW new \in Seq(Block3({})), \A i \in DOMAIN new : new[i].code = <<>>
  PROVE  /\ Wrote(bs, bs \o new, {})
         /\ DOMAIN (bs \o new) = 1 .. Len(bs) + Len(new)
         /\ \A i \in 1 .. Len(new) : (bs \o new)[Len(bs) + i] = new[i]
<1>1. PICK S : bs \in Seq(Block3(S))  BY DEF Code
<1>2. Block3({}) \subseteq Block3(S)
  <2>1. \A s \in Seq({}) : s \in Seq(S)  BY SeqMonotonic
  <2>. QED  BY <2>1 DEF Block3
<1>3. new \in Seq(Block3(S))  BY <1>2, SeqMonotonic
<1>. DEFINE e == bs \o new
<1>4. /\ e \in Seq(Block3(S)) /\ Len(e) = Len(bs) + Len(new)
      /\ \A i \in 1 .. Len(bs) + Len(new) : e[i] = IF i <= Len(bs) THEN bs[i] ELSE new[i - Len(bs)]
  BY <1>1, <1>3, ConcatProperties
<1>5. /\ Len(bs) \in Nat /\ DOMAIN bs = 1 .. Len(bs) /\ Len(new) \in Nat /\ DOMAIN new = 1 .. Len(new)
      /\ DOMAIN e = 1 .. Len(bs) + Len(new)
  BY <1>1, <1>4, LenProperties
<1>. HIDE DEF e
<1>6. \A b \in DOMAIN bs : b \in DOMAIN e /\ e[b] = bs[b]  BY <1>4, <1>5
<1>7. ASSUME NEW i \in 1 .. Len(new) PROVE e[Len(bs) + i] = new[i]  BY <1>4, <1>5
<1>8. ASSUME NEW b \in DOMAIN e, b \notin DOMAIN bs PROVE e[b].code = <<>>
  <2>1. b - Len(bs) \in DOMAIN new /\ e[b] = new[b - Len(bs)]  BY <1>4, <1>5, <1>8
  <2>. QED  BY <2>1
<1>9. ASSUME NEW b, NEW i, Has(e, b, i) PROVE Has(bs, b, i)
  <2>1. b \in DOMAIN bs  BY <1>8, <1>9 DEF Has
  <2>. QED  BY <1>6, <1>9, <2>1 DEF Has
<1>10. ASSUME NEW b, NEW i, Has(bs, b, i) PROVE Has(e, b, i)  BY <1>6, <1>10 DEF Has
<1>11. Wrote(bs, e, {})  BY <1>6, <1>9, <1>10 DEF Wrote
<1>. QED  BY <1>5, <1>7, <1>11 DEF e

Headings == {"for.cond", "while.cond"}
LatchNames == {"for.inc", "while.latch"}

\* A branch goes to a block that is begun further up, into a loop from before it or from what
\* its latch comes to; a phi names blocks that are reached with it.
Apt(bs, b, i) ==
  /\ Branching(i) => Jump(i)
  /\ Branching(i) => \A t \in Range(i.arg) :
       /\ t \in DOMAIN bs /\ Under(bs, b, bs[t].of)
       /\ bs[t].name \in Headings => b = bs[t].of \/ Follows(bs, t + 2, b)
  /\ i.op = "phi" => \A in \in Range(i.arg) : in[1] \in DOMAIN bs /\ Follows(bs, b, in[1])

Sound(bs) ==
  /\ 1 \in DOMAIN bs /\ bs[1].of = 0
  /\ \A b, i : Has(bs, b, i) => Apt(bs, b, i)
  /\ \A b \in DOMAIN bs : bs[b].name \in LatchNames => b = bs[b].of + 2

LEMMA AptStill ==
  ASSUME NEW bs, NEW bs2, NEW N, Wrote(bs, bs2, N), NEW b, NEW i, Apt(bs, b, i)
  PROVE  Apt(bs2, b, i)
<1>1. ASSUME Branching(i), NEW t \in Range(i.arg)
      PROVE  /\ t \in DOMAIN bs2 /\ Under(bs2, b, bs2[t].of)
             /\ bs2[t].name \in Headings => b = bs2[t].of \/ Follows(bs2, t + 2, b)
  <2>1. /\ t \in DOMAIN bs /\ Under(bs, b, bs[t].of)
        /\ bs[t].name \in Headings => b = bs[t].of \/ Follows(bs, t + 2, b)
    BY <1>1 DEF Apt
  <2>2. t \in DOMAIN bs2 /\ bs2[t].of = bs[t].of /\ bs2[t].name = bs[t].name  BY <2>1 DEF Wrote
  <2>. QED  BY <2>1, <2>2, UnderStill, FollowsStill
<1>2. ASSUME i.op = "phi", NEW in \in Range(i.arg)
      PROVE  in[1] \in DOMAIN bs2 /\ Follows(bs2, b, in[1])
  <2>1. in[1] \in DOMAIN bs /\ Follows(bs, b, in[1])  BY <1>2 DEF Apt
  <2>. QED  BY <2>1, FollowsStill DEF Wrote
<1>3. Branching(i) => Jump(i)  BY DEF Apt
<1>. QED  BY <1>1, <1>2, <1>3 DEF Apt

LEMMA SoundStill ==
  ASSUME NEW bs, NEW bs2, NEW N, Wrote(bs, bs2, N), Sound(bs),
         \A b, i : <<b, i>> \in N => Apt(bs2, b, i),
         \A b \in DOMAIN bs2 : b \in DOMAIN bs \/ (bs2[b].name \in LatchNames => b = bs2[b].of + 2)
  PROVE  Sound(bs2)
<1>1. ASSUME NEW b, NEW i, Has(bs2, b, i) PROVE Apt(bs2, b, i)
  <2>1. CASE Has(bs, b, i)  BY <2>1, AptStill DEF Sound
  <2>2. CASE <<b, i>> \in N  BY <2>2
  <2>. QED  BY <1>1, <2>1, <2>2 DEF Wrote
<1>2. ASSUME NEW b \in DOMAIN bs2, bs2[b].name \in LatchNames PROVE b = bs2[b].of + 2
  <2>1. CASE b \in DOMAIN bs  BY <1>2, <2>1 DEF Sound, Wrote
  <2>2. CASE b \notin DOMAIN bs  BY <1>2, <2>2
  <2>. QED  BY <2>1, <2>2
<1>3. 1 \in DOMAIN bs2 /\ bs2[1].of = 0  BY DEF Sound, Wrote
<1>. QED  BY <1>1, <1>2, <1>3 DEF Sound

\* What is neither a branch nor a phi does not matter.
SameLinks(bs, bs2) ==
  /\ DOMAIN bs2 = DOMAIN bs
  /\ \A b \in DOMAIN bs : bs2[b].of = bs[b].of /\ bs2[b].name = bs[b].name
  /\ \A b, i : Branching(i) \/ i.op = "phi" => (Has(bs2, b, i) <=> Has(bs, b, i))

LEMMA SoundSame ==
  ASSUME NEW bs, NEW bs2, SameLinks(bs, bs2), Sound(bs) PROVE Sound(bs2)
<1>1. \A a, b : Edge(bs2, a, b) <=> Edge(bs, a, b)  BY DEF Edge, SameLinks
<1>2. \A C : (Rooted(bs2, C) <=> Rooted(bs, C)) /\ (Ahead(bs2, C) <=> Ahead(bs, C))
  BY <1>1 DEF Rooted, Ahead, SameLinks
<1>3. ASSUME NEW a, NEW b
      PROVE  (Under(bs, a, b) => Under(bs2, a, b)) /\ (Follows(bs, a, b) => Follows(bs2, a, b))
  BY <1>2 DEF Under, Follows
<1>4. ASSUME NEW b, NEW i, Has(bs2, b, i) PROVE Apt(bs2, b, i)
  <2>1. ASSUME Branching(i) \/ i.op = "phi" PROVE Apt(bs, b, i)  BY <1>4, <2>1 DEF Sound, SameLinks
  <2>2. ASSUME Branching(i), NEW t \in Range(i.arg)
        PROVE  /\ t \in DOMAIN bs2 /\ Under(bs2, b, bs2[t].of)
               /\ bs2[t].name \in Headings => b = bs2[t].of \/ Follows(bs2, t + 2, b)
    <3>1. /\ t \in DOMAIN bs /\ Under(bs, b, bs[t].of)
          /\ bs[t].name \in Headings => b = bs[t].of \/ Follows(bs, t + 2, b)
      BY <2>1, <2>2 DEF Apt
    <3>2. t \in DOMAIN bs2 /\ bs2[t].of = bs[t].of /\ bs2[t].name = bs[t].name
      BY <3>1 DEF SameLinks
    <3>. QED  BY <3>1, <3>2, <1>3
  <2>3. ASSUME i.op = "phi", NEW in \in Range(i.arg)
        PROVE  in[1] \in DOMAIN bs2 /\ Follows(bs2, b, in[1])
    <3>1. in[1] \in DOMAIN bs /\ Follows(bs, b, in[1])  BY <2>1, <2>3 DEF Apt
    <3>. QED  BY <3>1, <1>3 DEF SameLinks
  <2>4. Branching(i) => Jump(i)  BY <2>1 DEF Apt
  <2>. QED  BY <2>2, <2>3, <2>4 DEF Apt
<1>. QED  BY <1>4 DEF Sound, SameLinks

-----------------------------------------------------------------------------
(* The constructs under way and where control is. *)

\* In an operand or an increment nothing stands that control would not come out of: an
\* operator's blocks may come within them, those of a statement may not.
Choosing == {"rhs", "then", "join"}
Firm == Choosing \cup {"inc"}
Relaxed(st) == \A l \in DOMAIN st : st[l] \notin Firm

\* The block that begins those of a construct, and the one that its part begins with.
Anchor(bs, s, f) ==
  CASE s = "rhs" -> f.lhs
    [] s \in {"then", "join"} -> bs[f.first + 3].of
    [] s \in {"two", "one", "arm2"} -> bs[f.end].of
    [] OTHER -> f.header
Base(bs, s, f) == IF s = "inc" THEN f.header + 2 ELSE Anchor(bs, s, f)

Begun(bs, a, b) == b \in DOMAIN bs /\ bs[b].of = a /\ bs[b].name \notin Headings
Stands(bs, s, f) ==
  LET a == Anchor(bs, s, f)
  IN  /\ s = "rhs" => Begun(bs, a, f.merge) /\ Edge(bs, a, f.merge)
      /\ s = "then" => Begun(bs, a, f.first + 2) /\ Begun(bs, a, f.first + 3) /\ Edge(bs, a, f.first + 2)
      /\ s = "join" => /\ Begun(bs, a, f.first + 3)
                       /\ Under(bs, f.thenEnd, a) /\ Follows(bs, a, f.thenEnd)
      /\ s = "two" => Begun(bs, a, f.else)
      /\ s \in {"two", "one", "arm2"} => Begun(bs, a, f.end)
      /\ s = "arm2" => \A b \in f.ends : Under(bs, b, a)
      /\ s \in {"cond", "body", "inc"} =>
           a \in DOMAIN bs /\ \A i \in 1 .. 3 : Begun(bs, a, a + i)

\* x lies in a construct.
Place(bs, s, f, x) ==
  Under(bs, x, Anchor(bs, s, f)) /\ (s \in Firm => Follows(bs, Base(bs, s, f), x))

\* Frames and stages numbered from the outside.
At(seq, l) == seq[Len(seq) + 1 - l]

Tied(bs, c, fr, st) ==
  /\ Sound(bs)
  /\ \A l \in 1 .. Len(fr) :
       /\ Stands(bs, At(st, l), At(fr, l)) /\ Place(bs, At(st, l), At(fr, l), c)
       /\ \A m \in 1 .. Len(fr) : l < m =>
            /\ Place(bs, At(st, l), At(fr, l), Anchor(bs, At(st, m), At(fr, m)))
            /\ At(st, l) \in Firm => At(st, m) \in Choosing

LEMMA StandsStill ==
  ASSUME NEW bs, NEW bs2, NEW N, Wrote(bs, bs2, N), NEW s \in Stages, NEW f, Stands(bs, s, f)
  PROVE  /\ Anchor(bs2, s, f) = Anchor(bs, s, f) /\ Base(bs2, s, f) = Base(bs, s, f)
         /\ Stands(bs2, s, f)
<1>. DEFINE a == Anchor(bs, s, f)
<1>0. \A b : b \in DOMAIN bs => b \in DOMAIN bs2 /\ bs2[b].of = bs[b].of /\ bs2[b].name = bs[b].name
  BY DEF Wrote
<1>1. Anchor(bs2, s, f) = a
  <2>1. CASE s = "rhs"  BY <2>1 DEF Anchor
  <2>2. CASE s \in {"then", "join"}
    <3>1. f.first + 3 \in DOMAIN bs  BY <2>2 DEF Stands, Begun
    <3>. QED  BY <2>2, <3>1, <1>0 DEF Anchor
  <2>3. CASE s \in {"two", "one", "arm2"}
    <3>1. f.end \in DOMAIN bs  BY <2>3 DEF Stands, Begun
    <3>. QED  BY <2>3, <3>1, <1>0 DEF Anchor
  <2>4. CASE s \in {"cond", "body", "inc"}  BY <2>4 DEF Anchor
  <2>. QED  BY <2>1, <2>2, <2>3, <2>4 DEF Stages
<1>2. \A b : Begun(bs, a, b) => Begun(bs2, a, b)  BY <1>0 DEF Begun
<1>3. \A b : Edge(bs, a, b) => Edge(bs2, a, b)  BY EdgeStill
<1>4. \A b : Under(bs, b, a) => Under(bs2, b, a)  BY UnderStill
<1>5. \A b : Follows(bs, a, b) => Follows(bs2, a, b)  BY FollowsStill
<1>6. a \in DOMAIN bs => a \in DOMAIN bs2  BY <1>0
<1>7. Base(bs2, s, f) = Base(bs, s, f)  BY <1>1 DEF Base
<1>. HIDE DEF a
<1>8. Stands(bs2, s, f)
  <2>. SUFFICES
        /\ s = "rhs" => Begun(bs2, a, f.merge) /\ Edge(bs2, a, f.merge)
        /\ s = "then" => Begun(bs2, a, f.first + 2) /\ Begun(bs2, a, f.first + 3) /\ Edge(bs2, a, f.first + 2)
        /\ s = "join" => /\ Begun(bs2, a, f.first + 3)
                         /\ Under(bs2, f.thenEnd, a) /\ Follows(bs2, a, f.thenEnd)
        /\ s = "two" => Begun(bs2, a, f.else)
        /\ s \in {"two", "one", "arm2"} => Begun(bs2, a, f.end)
        /\ s = "arm2" => \A b \in f.ends : Under(bs2, b, a)
        /\ s \in {"cond", "body", "inc"} =>
             a \in DOMAIN bs2 /\ \A i \in 1 .. 3 : Begun(bs2, a, a + i)
    BY <1>1 DEF Stands
  <2>1. /\ s = "rhs" => Begun(bs, a, f.merge) /\ Edge(bs, a, f.merge)
        /\ s = "then" => Begun(bs, a, f.first + 2) /\ Begun(bs, a, f.first + 3) /\ Edge(bs, a, f.first + 2)
        /\ s = "join" => /\ Begun(bs, a, f.first + 3)
                         /\ Under(bs, f.thenEnd, a) /\ Follows(bs, a, f.thenEnd)
        /\ s = "two" => Begun(bs, a, f.else)
        /\ s \in {"two", "one", "arm2"} => Begun(bs, a, f.end)
        /\ s = "arm2" => \A b \in f.ends : Under(bs, b, a)
        /\ s \in {"cond", "body", "inc"} =>
             a \in DOMAIN bs /\ \A i \in 1 .. 3 : Begun(bs, a, a + i)
    BY DEF Stands, a
  <2>. QED  BY <2>1, <1>2, <1>3, <1>4, <1>5, <1>6
<1>. QED  BY <1>1, <1>7, <1>8 DEF a

LEMMA PlaceStill ==
  ASSUME NEW bs, NEW bs2, NEW N, Wrote(bs, bs2, N), NEW s \in Stages, NEW f, Stands(bs, s, f),
         NEW x, Place(bs, s, f, x)
  PROVE  Place(bs2, s, f, x)
  BY StandsStill, UnderStill, FollowsStill DEF Place

\* What lies in what lies in a construct lies in it.
LEMMA PlaceOn ==
  ASSUME NEW bs, NEW s, NEW f, NEW x, NEW y, Place(bs, s, f, x), Under(bs, y, x),
         s \in Firm => Follows(bs, x, y)
  PROVE  Place(bs, s, f, y)
  BY UnderTrans, FollowsTrans DEF Place

\* k frames further out stay, and control comes to c2 out of v, which lies in them all.
Retied(bs, fr, st, bs2, c2, fr2, st2, k, v) ==
  /\ k \in Nat /\ k <= Len(fr)
  /\ fr \in Seq(Frames) /\ st \in Seq(Stages) /\ Len(st) = Len(fr)
  /\ fr2 \in Seq(Frames) /\ st2 \in Seq(Stages) /\ Len(st2) = Len(fr2)
  /\ \A l \in 1 .. k : At(fr2, l) = At(fr, l) /\ At(st2, l) = At(st, l)
  /\ Sound(bs2)
  /\ \A l \in 1 .. k : Place(bs, At(st, l), At(fr, l), v)
  /\ Under(bs2, c2, v) /\ \A l \in 1 .. k : At(st, l) \in Firm => Follows(bs2, v, c2)
  /\ \/ Len(fr2) = k
     \/ /\ Len(fr2) = k + 1
        /\ Stands(bs2, st2[1], fr2[1]) /\ Place(bs2, st2[1], fr2[1], c2)
        /\ Under(bs2, Anchor(bs2, st2[1], fr2[1]), v)
        /\ \A l \in 1 .. k : At(st, l) \in Firm =>
             st2[1] \in Choosing /\ Follows(bs2, v, Anchor(bs2, st2[1], fr2[1]))

LEMMA Retie ==
  ASSUME NEW bs, NEW c, NEW fr, NEW st, Tied(bs, c, fr, st),
         NEW bs2, NEW N, Wrote(bs, bs2, N), NEW c2, NEW fr2, NEW st2, NEW k, NEW v,
         Retied(bs, fr, st, bs2, c2, fr2, st2, k, v)
  PROVE  Tied(bs2, c2, fr2, st2)
<1>1. /\ k \in Nat /\ k <= Len(fr)
      /\ fr \in Seq(Frames) /\ st \in Seq(Stages) /\ Len(st) = Len(fr)
      /\ fr2 \in Seq(Frames) /\ st2 \in Seq(Stages) /\ Len(st2) = Len(fr2)
      /\ Sound(bs2) /\ Under(bs2, c2, v) /\ Len(fr2) \in {k, k + 1}
  BY DEF Retied
<1>2. Len(fr) \in Nat /\ Len(fr2) \in Nat  BY <1>1, LenProperties
<1>3. ASSUME NEW l \in 1 .. k
      PROVE  /\ At(st2, l) = At(st, l) /\ At(fr2, l) = At(fr, l) /\ At(st, l) \in Stages
             /\ l \in 1 .. Len(fr) /\ Stands(bs, At(st, l), At(fr, l))
             /\ Stands(bs2, At(st2, l), At(fr2, l)) /\ Place(bs2, At(st2, l), At(fr2, l), v)
             /\ At(st, l) \in Firm => Follows(bs2, v, c2)
             /\ Anchor(bs2, At(st2, l), At(fr2, l)) = Anchor(bs, At(st, l), At(fr, l))
  <2>1. l \in 1 .. Len(fr) /\ Len(st) + 1 - l \in 1 .. Len(st)  BY <1>1, <1>2
  <2>2. At(st, l) \in Stages  BY <1>1, <2>1, ElementOfSeq DEF At
  <2>3. At(st2, l) = At(st, l) /\ At(fr2, l) = At(fr, l) /\ Place(bs, At(st, l), At(fr, l), v)
        /\ (At(st, l) \in Firm => Follows(bs2, v, c2))
    BY DEF Retied
  <2>4. Stands(bs, At(st, l), At(fr, l))  BY <2>1 DEF Tied
  <2>. QED  BY <2>1, <2>2, <2>3, <2>4, StandsStill, PlaceStill
<1>4. ASSUME NEW l \in 1 .. k
      PROVE  Stands(bs2, At(st2, l), At(fr2, l)) /\ Place(bs2, At(st2, l), At(fr2, l), c2)
  BY <1>1, <1>3, PlaceOn
<1>5. ASSUME NEW l \in 1 .. k, NEW m \in 1 .. k, l < m
      PROVE  /\ Place(bs2, At(st2, l), At(fr2, l), Anchor(bs2, At(st2, m), At(fr2, m)))
             /\ At(st2, l) \in Firm => At(st2, m) \in Choosing
  <2>1. /\ Place(bs, At(st, l), At(fr, l), Anchor(bs, At(st, m), At(fr, m)))
        /\ At(st, l) \in Firm => At(st, m) \in Choosing
    BY <1>3, <1>5 DEF Tied
  <2>. QED  BY <2>1, <1>3, PlaceStill
<1>6. CASE Len(fr2) = k  BY <1>1, <1>4, <1>5, <1>6 DEF Tied
<1>7. CASE Len(fr2) = k + 1
  <2>. DEFINE s == st2[1]
              f == fr2[1]
  <2>1. /\ Stands(bs2, s, f) /\ Place(bs2, s, f, c2)
        /\ Under(bs2, Anchor(bs2, s, f), v)
        /\ \A l \in 1 .. k : At(st, l) \in Firm => s \in Choosing /\ Follows(bs2, v, Anchor(bs2, s, f))
    BY <1>1, <1>7 DEF Retied
  <2>2. At(st2, k + 1) = s /\ At(fr2, k + 1) = f
    <3>1. Len(fr2) + 1 - (k + 1) = 1  BY <1>1, <1>7
    <3>. QED  BY <1>1, <3>1 DEF At
  <2>. HIDE DEF s, f
  <2>3. ASSUME NEW l \in 1 .. k
        PROVE  /\ Place(bs2, At(st2, l), At(fr2, l), Anchor(bs2, s, f))
               /\ At(st2, l) \in Firm => s \in Choosing
    BY <1>3, <2>1, PlaceOn
  <2>4. ASSUME NEW l \in 1 .. k + 1
        PROVE  Stands(bs2, At(st2, l), At(fr2, l)) /\ Place(bs2, At(st2, l), At(fr2, l), c2)
    <3>1. l \in 1 .. k \/ l = k + 1  BY <1>1
    <3>. QED  BY <3>1, <1>4, <2>1, <2>2
  <2>5. ASSUME NEW l \in 1 .. k + 1, NEW m \in 1 .. k + 1, l < m
        PROVE  /\ Place(bs2, At(st2, l), At(fr2, l), Anchor(bs2, At(st2, m), At(fr2, m)))
               /\ At(st2, l) \in Firm => At(st2, m) \in Choosing
    <3>1. l \in 1 .. k /\ (m \in 1 .. k \/ m = k + 1)  BY <1>1, <2>5
    <3>2. CASE m \in 1 .. k  BY <3>1, <3>2, <2>5, <1>5
    <3>3. CASE m = k + 1  BY <3>1, <3>3, <2>2, <2>3
    <3>. QED  BY <3>1, <3>2, <3>3
  <2>. QED  BY <1>1, <1>7, <2>4, <2>5 DEF Tied
<1>. QED  BY <1>1, <1>6, <1>7

LEMMA PushLevels ==
  ASSUME NEW S, NEW seq \in Seq(S), NEW x \in S
  PROVE  /\ <<x>> \o seq \in Seq(S) /\ Len(<<x>> \o seq) = Len(seq) + 1 /\ (<<x>> \o seq)[1] = x
         /\ \A l \in 1 .. Len(seq) : At(<<x>> \o seq, l) = At(seq, l)
<1>. DEFINE u == <<x>> \o seq
            one == <<x>>
            n == Len(seq)
<1>1. one \in Seq(S) /\ Len(one) = 1 /\ one[1] = x /\ n \in Nat  BY LenProperties
<1>2. u = one \o seq  OBVIOUS
<1>. HIDE DEF u, one, n
<1>3. /\ u \in Seq(S) /\ Len(u) = 1 + n
      /\ \A i \in 1 .. 1 + n : u[i] = IF i <= 1 THEN one[i] ELSE seq[i - 1]
  <2>1. /\ one \o seq \in Seq(S) /\ Len(one \o seq) = Len(one) + Len(seq)
        /\ \A i \in 1 .. Len(one) + Len(seq) :
             (one \o seq)[i] = IF i <= Len(one) THEN one[i] ELSE seq[i - Len(one)]
    BY <1>1, ConcatProperties
  <2>. QED  BY ONLY <2>1, <1>1, <1>2 DEF n
<1>4. u[1] = x
  <2>1. 1 \in 1 .. 1 + n  BY <1>1
  <2>. QED  BY <2>1, <1>1, <1>3
<1>5. ASSUME NEW l \in 1 .. n PROVE At(u, l) = At(seq, l)
  <2>. DEFINE i == n + 2 - l
  <2>1. i \in 1 .. 1 + n /\ ~(i <= 1) /\ i - 1 = n + 1 - l /\ i = Len(u) + 1 - l  BY <1>1, <1>3
  <2>2. u[i] = seq[i - 1]  BY <2>1, <1>3
  <2>. HIDE DEF i
  <2>. QED  BY <2>1, <2>2 DEF At, n
<1>. QED  BY <1>1, <1>3, <1>4, <1>5 DEF u, n

LEMMA ChangeLevels ==
  ASSUME NEW S, NEW seq \in Seq(S), seq # <<>>, NEW x \in S
  PROVE  /\ [seq EXCEPT ![1] = x] \in Seq(S) /\ Len([seq EXCEPT ![1] = x]) = Len(seq)
         /\ [seq EXCEPT ![1] = x][1] = x
         /\ \A l \in 1 .. Len(seq) - 1 : At([seq EXCEPT ![1] = x], l) = At(seq, l)
<1>. DEFINE u == [seq EXCEPT ![1] = x]
            n == Len(seq)
<1>1. n \in Nat /\ n >= 1  BY EmptySeq, LenProperties
<1>2. 1 \in 1 .. n  BY <1>1
<1>3. u \in Seq(S) /\ Len(u) = n /\ \A i \in 1 .. n : u[i] = IF i = 1 THEN x ELSE seq[i]
  BY <1>2, ExceptSeq
<1>. HIDE DEF u
<1>4. ASSUME NEW l \in 1 .. n - 1 PROVE At(u, l) = At(seq, l)
  <2>1. n + 1 - l \in 1 .. n /\ n + 1 - l # 1  BY <1>1
  <2>2. u[n + 1 - l] = seq[n + 1 - l]  BY <2>1, <1>3
  <2>. QED  BY <2>2, <1>3 DEF At
<1>. QED  BY <1>2, <1>3, <1>4 DEF u

LEMMA TailLevels ==
  ASSUME NEW S, NEW seq \in Seq(S), seq # <<>>
  PROVE  /\ Tail(seq) \in Seq(S) /\ Len(Tail(seq)) = Len(seq) - 1 /\ Len(seq) >= 1 /\ Len(seq) \in Nat
         /\ \A l \in 1 .. Len(seq) - 1 : At(Tail(seq), l) = At(seq, l)
         /\ seq[1] \in S /\ At(seq, Len(seq)) = seq[1]
<1>. DEFINE u == Tail(seq)
            n == Len(seq)
<1>1. n \in Nat /\ n >= 1  BY EmptySeq, LenProperties
<1>2. u \in Seq(S) /\ Len(u) = n - 1 /\ \A i \in 1 .. n - 1 : u[i] = seq[i + 1]
  BY <1>1, HeadTailProperties
<1>3. seq[1] \in S
  <2>1. 1 \in 1 .. n  BY <1>1
  <2>. QED  BY <2>1, ElementOfSeq
<1>4. At(seq, n) = seq[1]
  <2>1. n + 1 - n = 1  BY <1>1
  <2>. QED  BY <2>1 DEF At
<1>. HIDE DEF u, n
<1>5. ASSUME NEW l \in 1 .. n - 1 PROVE At(u, l) = At(seq, l)
  <2>1. n - l \in 1 .. n - 1 /\ (n - l) + 1 = n + 1 - l /\ (n - 1) + 1 - l = n - l  BY <1>1
  <2>2. u[n - l] = seq[n + 1 - l]  BY <2>1, <1>2
  <2>3. At(u, l) = u[n - l]  BY <2>1, <1>2 DEF At
  <2>4. At(seq, l) = seq[n + 1 - l]  BY DEF At, n
  <2>. QED  BY <2>2, <2>3, <2>4
<1>. QED  BY <1>1, <1>2, <1>3, <1>4, <1>5 DEF u, n

Framed(fr, st) == fr \in Seq(Frames) /\ st \in Seq(Stages) /\ Len(st) = Len(fr)

LEMMA FramedPush ==
  ASSUME NEW fr, NEW st, Framed(fr, st), NEW f \in Frames, NEW s \in Stages
  PROVE  Framed(<<f>> \o fr, <<s>> \o st)
<1>1. fr \in Seq(Frames) /\ <<f>> \in Seq(Frames) /\ Len(<<f>>) = 1  BY DEF Framed
<1>2. st \in Seq(Stages) /\ <<s>> \in Seq(Stages) /\ Len(<<s>>) = 1  BY DEF Framed
<1>3. <<f>> \o fr \in Seq(Frames) /\ Len(<<f>> \o fr) = Len(<<f>>) + Len(fr)
  BY ONLY <1>1, ConcatProperties
<1>4. <<s>> \o st \in Seq(Stages) /\ Len(<<s>> \o st) = Len(<<s>>) + Len(st)
  BY ONLY <1>2, ConcatProperties
<1>5. Len(st) = Len(fr)  BY DEF Framed
<1>. QED  BY ONLY <1>1, <1>2, <1>3, <1>4, <1>5 DEF Framed

LEMMA TiedOuter ==
  ASSUME NEW bs, NEW c, NEW fr, NEW st, Framed(fr, st), Tied(bs, c, fr, st), st # <<>>
  PROVE  /\ Len(fr) - 1 \in Nat /\ Len(fr) - 1 <= Len(fr)
         /\ Stands(bs, st[1], fr[1]) /\ Place(bs, st[1], fr[1], c) /\ st[1] \in Stages
         /\ \A l \in 1 .. Len(fr) - 1 :
              /\ Place(bs, At(st, l), At(fr, l), Anchor(bs, st[1], fr[1]))
              /\ At(st, l) \in Firm => st[1] \in Choosing
<1>. DEFINE n == Len(fr)
<1>1. /\ n \in Nat /\ n >= 1 /\ Len(st) = n /\ st[1] \in Stages /\ At(st, n) = st[1] /\ At(fr, n) = fr[1]
  <2>1. fr \in Seq(Frames) /\ st \in Seq(Stages) /\ Len(st) = n  BY DEF Framed
  <2>2. Len(st) >= 1 /\ Len(st) \in Nat /\ st[1] \in Stages /\ At(st, Len(st)) = st[1]
    BY <2>1, TailLevels
  <2>3. fr # <<>>  BY <2>1, <2>2, EmptySeq
  <2>4. At(fr, n) = fr[1]  BY <2>1, <2>3, TailLevels
  <2>. QED  BY <2>1, <2>2, <2>4
<1>2. \A l \in 1 .. n :
       /\ Stands(bs, At(st, l), At(fr, l)) /\ Place(bs, At(st, l), At(fr, l), c)
       /\ \A m \in 1 .. n : l < m =>
            /\ Place(bs, At(st, l), At(fr, l), Anchor(bs, At(st, m), At(fr, m)))
            /\ At(st, l) \in Firm => At(st, m) \in Choosing
  BY DEF Tied
<1>3. n \in 1 .. n /\ \A l \in 1 .. n - 1 : l \in 1 .. n /\ l < n  BY <1>1
<1>. HIDE DEF n
<1>4. ASSUME NEW l \in 1 .. n - 1
      PROVE  /\ Place(bs, At(st, l), At(fr, l), Anchor(bs, st[1], fr[1]))
             /\ At(st, l) \in Firm => st[1] \in Choosing
  BY <1>1, <1>2, <1>3
<1>. QED  BY <1>1, <1>2, <1>3, <1>4 DEF n

\* Code is written and no construct goes on.
LEMMA TieStays ==
  ASSUME NEW bs, NEW c, NEW fr, NEW st, Framed(fr, st), Tied(bs, c, fr, st),
         NEW bs2, NEW N, Wrote(bs, bs2, N), Sound(bs2)
  PROVE  Tied(bs2, c, fr, st)
<1>1. Len(fr) \in Nat  BY LenProperties DEF Framed
<1>2. Under(bs2, c, c) /\ Follows(bs2, c, c)  BY UnderSelf
<1>3. Retied(bs, fr, st, bs2, c, fr, st, Len(fr), c)
  BY <1>1, <1>2 DEF Retied, Framed, Tied
<1>. QED  BY <1>3, Retie

\* A construct is begun.
LEMMA TieBegin ==
  ASSUME NEW bs, NEW c, NEW fr, NEW st, Framed(fr, st), Tied(bs, c, fr, st),
         NEW bs2, NEW N, Wrote(bs, bs2, N), Sound(bs2),
         NEW f \in Frames, NEW s \in Stages, NEW c2, s \in Choosing \/ Relaxed(st),
         Under(bs2, c2, c), Follows(bs2, c, c2), Stands(bs2, s, f), Place(bs2, s, f, c2),
         Under(bs2, Anchor(bs2, s, f), c), Follows(bs2, c, Anchor(bs2, s, f))
  PROVE  Tied(bs2, c2, <<f>> \o fr, <<s>> \o st)
<1>. DEFINE k == Len(fr)
            fr2 == <<f>> \o fr
            st2 == <<s>> \o st
<1>1. k \in Nat /\ fr \in Seq(Frames) /\ st \in Seq(Stages) /\ Len(st) = k
  BY LenProperties DEF Framed
<1>2. /\ fr2 \in Seq(Frames) /\ Len(fr2) = k + 1 /\ fr2[1] = f
      /\ \A l \in 1 .. k : At(fr2, l) = At(fr, l)
  BY <1>1, PushLevels
<1>3. /\ st2 \in Seq(Stages) /\ Len(st2) = k + 1 /\ st2[1] = s
      /\ \A l \in 1 .. k : At(st2, l) = At(st, l)
  BY <1>1, PushLevels
<1>4. \A l \in 1 .. k : Place(bs, At(st, l), At(fr, l), c)  BY DEF Tied
<1>5. ASSUME NEW l \in 1 .. k, At(st, l) \in Firm PROVE s \in Choosing
  <2>1. Len(st) + 1 - l \in DOMAIN st  BY <1>1
  <2>2. ~Relaxed(st)  BY <2>1, <1>5 DEF Relaxed, At
  <2>. QED  BY <2>2
<1>. HIDE DEF fr2, st2
<1>6. Retied(bs, fr, st, bs2, c2, fr2, st2, k, c)
  BY <1>1, <1>2, <1>3, <1>4, <1>5 DEF Retied
<1>7. Tied(bs2, c2, fr2, st2)  BY <1>6, Retie
<1>. QED  BY <1>7 DEF fr2, st2

\* The innermost construct goes on.
LEMMA TieGoesOn ==
  ASSUME NEW bs, NEW c, NEW fr, NEW st, Framed(fr, st), Tied(bs, c, fr, st), st # <<>>,
         NEW bs2, NEW N, Wrote(bs, bs2, N), Sound(bs2),
         NEW f \in Frames, NEW s \in Stages, NEW c2, NEW v, v = Anchor(bs, st[1], fr[1]),
         Under(bs2, c2, v), st[1] \in Choosing => s \in Choosing /\ Follows(bs2, v, c2),
         Stands(bs2, s, f), Place(bs2, s, f, c2), Anchor(bs2, s, f) = v
  PROVE  Tied(bs2, c2, [fr EXCEPT ![1] = f], <<s>> \o Tail(st))
<1>. DEFINE k == Len(fr) - 1
            fr2 == [fr EXCEPT ![1] = f]
            st2 == <<s>> \o Tail(st)
<1>0. fr \in Seq(Frames) /\ st \in Seq(Stages) /\ Len(st) = Len(fr)  BY DEF Framed
<1>1. /\ k \in Nat /\ k <= Len(fr)
      /\ \A l \in 1 .. k : /\ Place(bs, At(st, l), At(fr, l), v)
                           /\ At(st, l) \in Firm => st[1] \in Choosing
  BY TiedOuter
<1>2. Len(fr) = k + 1 /\ fr # <<>>  BY <1>0, <1>1, LenProperties
<1>3. /\ fr2 \in Seq(Frames) /\ Len(fr2) = k + 1 /\ fr2[1] = f
      /\ \A l \in 1 .. k : At(fr2, l) = At(fr, l)
  BY <1>0, <1>2, ChangeLevels
<1>4. /\ Tail(st) \in Seq(Stages) /\ Len(Tail(st)) = k
      /\ \A l \in 1 .. k : At(Tail(st), l) = At(st, l)
  BY <1>0, <1>2, TailLevels
<1>5. /\ st2 \in Seq(Stages) /\ Len(st2) = k + 1 /\ st2[1] = s
      /\ \A l \in 1 .. k : At(st2, l) = At(Tail(st), l)
  <2>. DEFINE tl == Tail(st)
  <2>1. tl \in Seq(Stages) /\ Len(tl) = k  BY <1>4
  <2>. HIDE DEF tl, k
  <2>2. /\ <<s>> \o tl \in Seq(Stages) /\ Len(<<s>> \o tl) = Len(tl) + 1 /\ (<<s>> \o tl)[1] = s
        /\ \A l \in 1 .. Len(tl) : At(<<s>> \o tl, l) = At(tl, l)
    BY <2>1, PushLevels
  <2>. QED  BY <2>1, <2>2 DEF tl
<1>6. Under(bs2, v, v) /\ Follows(bs2, v, v)  BY UnderSelf
<1>. HIDE DEF fr2, st2, k
<1>7. Retied(bs, fr, st, bs2, c2, fr2, st2, k, v)
  BY <1>0, <1>1, <1>2, <1>3, <1>4, <1>5, <1>6 DEF Retied
<1>8. Tied(bs2, c2, fr2, st2)  BY <1>7, Retie
<1>. QED  BY <1>8 DEF fr2, st2

\* The innermost construct is through.
LEMMA TieEnds ==
  ASSUME NEW bs, NEW c, NEW fr, NEW st, Framed(fr, st), Tied(bs, c, fr, st), st # <<>>,
         NEW bs2, NEW N, Wrote(bs, bs2, N), Sound(bs2),
         NEW c2, NEW v, v = Anchor(bs, st[1], fr[1]),
         Under(bs2, c2, v), st[1] \in Choosing => Follows(bs2, v, c2)
  PROVE  Tied(bs2, c2, Tail(fr), Tail(st))
<1>. DEFINE k == Len(fr) - 1
            fr2 == Tail(fr)
            st2 == Tail(st)
<1>0. fr \in Seq(Frames) /\ st \in Seq(Stages) /\ Len(st) = Len(fr)  BY DEF Framed
<1>1. /\ k \in Nat /\ k <= Len(fr)
      /\ \A l \in 1 .. k : /\ Place(bs, At(st, l), At(fr, l), v)
                           /\ At(st, l) \in Firm => st[1] \in Choosing
  BY TiedOuter
<1>2. Len(fr) = k + 1 /\ fr # <<>>  BY <1>0, <1>1, LenProperties
<1>3. /\ fr2 \in Seq(Frames) /\ Len(fr2) = k
      /\ \A l \in 1 .. k : At(fr2, l) = At(fr, l)
  BY <1>0, <1>2, TailLevels
<1>4. /\ st2 \in Seq(Stages) /\ Len(st2) = k
      /\ \A l \in 1 .. k : At(st2, l) = At(st, l)
  BY <1>0, <1>2, TailLevels
<1>. HIDE DEF fr2, st2, k
<1>7. Retied(bs, fr, st, bs2, c2, fr2, st2, k, v)
  BY <1>0, <1>1, <1>3, <1>4 DEF Retied
<1>8. Tied(bs2, c2, fr2, st2)  BY <1>7, Retie
<1>. QED  BY <1>8 DEF fr2, st2

\* BreakStack and ContinueStack have an entry for each loop whose body is under way.
Exits(fr, st, br, cn) ==
  /\ br \in Seq(Nat) /\ cn \in Seq(Nat) /\ Len(cn) = Len(br)
  /\ \E lev \in [1 .. Len(br) -> 1 .. Len(fr)] :
       /\ \A i \in 1 .. Len(br) :
            /\ At(st, lev[i]) = "body"
            /\ At(br, i) = At(fr, lev[i]).header + 3 /\ At(cn, i) = At(fr, lev[i]).header + 2
       /\ \A i, j \in 1 .. Len(br) : i < j => lev[i] < lev[j]
       /\ \A l \in 1 .. Len(fr) : At(st, l) = "body" => \E i \in 1 .. Len(br) : lev[i] = l

\* The loops whose bodies are under way are the same.
SameBodies(fr, st, fr2, st2) ==
  /\ \A l \in 1 .. Len(fr) : At(st, l) = "body" =>
       l \in 1 .. Len(fr2) /\ At(st2, l) = "body" /\ At(fr2, l).header = At(fr, l).header
  /\ \A l \in 1 .. Len(fr2) : At(st2, l) = "body" => l \in 1 .. Len(fr) /\ At(st, l) = "body"

LEMMA ExitsStay ==
  ASSUME NEW fr, NEW st, NEW br, NEW cn, Exits(fr, st, br, cn), NEW fr2, NEW st2,
         SameBodies(fr, st, fr2, st2)
  PROVE  Exits(fr2, st2, br, cn)
<1>1. PICK lev \in [1 .. Len(br) -> 1 .. Len(fr)] :
       /\ \A i \in 1 .. Len(br) :
            /\ At(st, lev[i]) = "body"
            /\ At(br, i) = At(fr, lev[i]).header + 3 /\ At(cn, i) = At(fr, lev[i]).header + 2
       /\ \A i, j \in 1 .. Len(br) : i < j => lev[i] < lev[j]
       /\ \A l \in 1 .. Len(fr) : At(st, l) = "body" => \E i \in 1 .. Len(br) : lev[i] = l
  BY DEF Exits
<1>2. ASSUME NEW i \in 1 .. Len(br)
      PROVE  /\ lev[i] \in 1 .. Len(fr2) /\ At(st2, lev[i]) = "body"
             /\ At(br, i) = At(fr2, lev[i]).header + 3 /\ At(cn, i) = At(fr2, lev[i]).header + 2
  <2>1. lev[i] \in 1 .. Len(fr) /\ At(st, lev[i]) = "body"  BY <1>1
  <2>2. /\ lev[i] \in 1 .. Len(fr2) /\ At(st2, lev[i]) = "body"
        /\ At(fr2, lev[i]).header = At(fr, lev[i]).header
    BY <2>1 DEF SameBodies
  <2>. QED  BY <2>2, <1>1
<1>3. lev \in [1 .. Len(br) -> 1 .. Len(fr2)]  BY <1>1, <1>2
<1>4. ASSUME NEW l \in 1 .. Len(fr2), At(st2, l) = "body" PROVE \E i \in 1 .. Len(br) : lev[i] = l
  <2>1. l \in 1 .. Len(fr) /\ At(st, l) = "body"  BY <1>4 DEF SameBodies
  <2>. QED  BY <2>1, <1>1
<1>5. br \in Seq(Nat) /\ cn \in Seq(Nat) /\ Len(cn) = Len(br)  BY DEF Exits
<1>. QED  BY <1>1, <1>2, <1>3, <1>4, <1>5 DEF Exits

\* A construct that is not the body of a loop is begun, goes on or ends.
LEMMA ExitsBegin ==
  ASSUME NEW fr, NEW st, Framed(fr, st), NEW br, NEW cn, Exits(fr, st, br, cn),
         NEW f \in Frames, NEW s \in Stages \ {"body"}
  PROVE  Exits(<<f>> \o fr, <<s>> \o st, br, cn)
<1>. DEFINE k == Len(fr)
            fr2 == <<f>> \o fr
            st2 == <<s>> \o st
<1>1. k \in Nat /\ fr \in Seq(Frames) /\ st \in Seq(Stages) /\ Len(st) = k
  BY LenProperties DEF Framed
<1>2. Len(fr2) = k + 1 /\ \A l \in 1 .. k : At(fr2, l) = At(fr, l)  BY <1>1, PushLevels
<1>3. Len(st2) = k + 1 /\ st2[1] = s /\ \A l \in 1 .. k : At(st2, l) = At(st, l)
  BY <1>1, PushLevels
<1>4. At(st2, k + 1) = s
  <2>1. Len(st2) + 1 - (k + 1) = 1  BY <1>1, <1>3
  <2>. QED  BY <2>1, <1>3 DEF At
<1>. HIDE DEF fr2, st2, k
<1>5. \A l \in 1 .. k + 1 : l \in 1 .. k \/ l = k + 1  BY <1>1
<1>6. \A l \in 1 .. k : l \in 1 .. k + 1  BY <1>1
<1>7. SameBodies(fr, st, fr2, st2)  BY <1>1, <1>2, <1>3, <1>4, <1>5, <1>6 DEF SameBodies, k
<1>8. Exits(fr2, st2, br, cn)  BY <1>7, ExitsStay
<1>. QED  BY <1>8 DEF fr2, st2

LEMMA ExitsGoOn ==
  ASSUME NEW fr, NEW st, Framed(fr, st), NEW br, NEW cn, Exits(fr, st, br, cn),
         st # <<>>, st[1] # "body", NEW f \in Frames, NEW s \in Stages \ {"body"}
  PROVE  Exits([fr EXCEPT ![1] = f], <<s>> \o Tail(st), br, cn)
<1>. DEFINE k == Len(fr)
            fr2 == [fr EXCEPT ![1] = f]
            tl == Tail(st)
            st2 == <<s>> \o tl
<1>1. /\ k \in Nat /\ fr \in Seq(Frames) /\ st \in Seq(Stages) /\ Len(st) = k
  BY LenProperties DEF Framed
<1>2. /\ tl \in Seq(Stages) /\ Len(tl) = k - 1 /\ k >= 1 /\ At(st, k) = st[1]
      /\ \A l \in 1 .. k - 1 : At(tl, l) = At(st, l)
  BY <1>1, TailLevels
<1>3. fr # <<>>  BY <1>1, <1>2, EmptySeq
<1>4. Len(fr2) = k /\ \A l \in 1 .. k - 1 : At(fr2, l) = At(fr, l)
  <2>1. fr \in Seq(Frames) /\ fr # <<>> /\ f \in Frames  BY <1>1, <1>3
  <2>2. /\ [fr EXCEPT ![1] = f] \in Seq(Frames) /\ Len([fr EXCEPT ![1] = f]) = Len(fr)
        /\ [fr EXCEPT ![1] = f][1] = f
        /\ \A l \in 1 .. Len(fr) - 1 : At([fr EXCEPT ![1] = f], l) = At(fr, l)
    BY ONLY <2>1, ChangeLevels
  <2>. QED  BY <2>2
<1>. HIDE DEF tl, fr2
<1>5. Len(st2) = (k - 1) + 1 /\ st2[1] = s /\ \A l \in 1 .. k - 1 : At(st2, l) = At(tl, l)
  <2>1. /\ <<s>> \o tl \in Seq(Stages) /\ Len(<<s>> \o tl) = Len(tl) + 1 /\ (<<s>> \o tl)[1] = s
        /\ \A l \in 1 .. Len(tl) : At(<<s>> \o tl, l) = At(tl, l)
    BY <1>2, PushLevels
  <2>. QED  BY <2>1, <1>2
<1>6. At(st2, k) = s
  <2>1. Len(st2) + 1 - k = 1  BY <1>1, <1>5
  <2>. QED  BY <2>1, <1>5 DEF At
<1>. HIDE DEF st2, k
<1>7. \A l \in 1 .. k : l \in 1 .. k - 1 \/ l = k  BY <1>1
<1>8. SameBodies(fr, st, fr2, st2)
  BY <1>1, <1>2, <1>4, <1>5, <1>6, <1>7 DEF SameBodies, k
<1>9. Exits(fr2, st2, br, cn)  BY <1>8, ExitsStay
<1>. QED  BY <1>9 DEF fr2, st2, tl

LEMMA ExitsEnd ==
  ASSUME NEW fr, NEW st, Framed(fr, st), NEW br, NEW cn, Exits(fr, st, br, cn),
         st # <<>>, st[1] # "body"
  PROVE  Exits(Tail(fr), Tail(st), br, cn)
<1>. DEFINE k == Len(fr)
            fr2 == Tail(fr)
            st2 == Tail(st)
<1>1. /\ k \in Nat /\ fr \in Seq(Frames) /\ st \in Seq(Stages) /\ Len(st) = k
  BY LenProperties DEF Framed
<1>2. k >= 1 /\ At(st, k) = st[1] /\ \A l \in 1 .. k - 1 : At(st2, l) = At(st, l)
  BY <1>1, TailLevels
<1>3. fr # <<>>  BY <1>1, <1>2, EmptySeq
<1>4. Len(fr2) = k - 1 /\ \A l \in 1 .. k - 1 : At(fr2, l) = At(fr, l)  BY <1>1, <1>3, TailLevels
<1>. HIDE DEF fr2, st2, k
<1>5. \A l \in 1 .. k : l \in 1 .. k - 1 \/ l = k  BY <1>1
<1>6. \A l \in 1 .. k - 1 : l \in 1 .. k  BY <1>1
<1>7. SameBodies(fr, st, fr2, st2)  BY <1>1, <1>2, <1>4, <1>5, <1>6 DEF SameBodies, k
<1>8. Exits(fr2, st2, br, cn)  BY <1>7, ExitsStay
<1>. QED  BY <1>8 DEF fr2, st2


\* The body of a loop is begun: the loop's end and latch are pushed.
LEMMA ExitsEnter ==
  ASSUME NEW fr, NEW st, Framed(fr, st), NEW br, NEW cn, Exits(fr, st, br, cn),
         st # <<>>, st[1] = "cond", NEW h \in Nat, h = fr[1].header
  PROVE  Exits(fr, <<"body">> \o Tail(st), <<h + 3>> \o br, <<h + 2>> \o cn)
<1>. DEFINE k == Len(fr)
            n == Len(br)
            tl == Tail(st)
            st2 == <<"body">> \o tl
            br2 == <<h + 3>> \o br
            cn2 == <<h + 2>> \o cn
<1>1. /\ k \in Nat /\ fr \in Seq(Frames) /\ st \in Seq(Stages) /\ Len(st) = k
  BY LenProperties DEF Framed
<1>2. /\ tl \in Seq(Stages) /\ Len(tl) = k - 1 /\ k >= 1 /\ At(st, k) = "cond"
      /\ \A l \in 1 .. k - 1 : At(tl, l) = At(st, l)
  BY <1>1, TailLevels
<1>3. fr # <<>>  BY <1>1, <1>2, EmptySeq
<1>4. At(fr, k) = fr[1]  BY <1>1, <1>3, TailLevels
<1>. HIDE DEF tl
<1>5. Len(st2) = (k - 1) + 1 /\ st2[1] = "body" /\ \A l \in 1 .. k - 1 : At(st2, l) = At(tl, l)
  <2>0. "body" \in Stages  BY DEF Stages
  <2>1. /\ <<"body">> \o tl \in Seq(Stages) /\ Len(<<"body">> \o tl) = Len(tl) + 1
        /\ (<<"body">> \o tl)[1] = "body"
        /\ \A l \in 1 .. Len(tl) : At(<<"body">> \o tl, l) = At(tl, l)
    BY <1>2, <2>0, PushLevels
  <2>. QED  BY <2>1, <1>2
<1>6. At(st2, k) = "body"
  <2>1. Len(st2) + 1 - k = 1  BY <1>1, <1>5
  <2>. QED  BY <2>1, <1>5 DEF At
<1>7. br \in Seq(Nat) /\ cn \in Seq(Nat) /\ Len(cn) = n /\ n \in Nat  BY LenProperties DEF Exits
<1>8. /\ br2 \in Seq(Nat) /\ Len(br2) = n + 1 /\ br2[1] = h + 3
      /\ \A i \in 1 .. n : At(br2, i) = At(br, i)
  <2>1. br \in Seq(Nat) /\ h + 3 \in Nat  BY <1>7
  <2>2. /\ <<h + 3>> \o br \in Seq(Nat) /\ Len(<<h + 3>> \o br) = Len(br) + 1
        /\ (<<h + 3>> \o br)[1] = h + 3
        /\ \A i \in 1 .. Len(br) : At(<<h + 3>> \o br, i) = At(br, i)
    BY ONLY <2>1, PushLevels
  <2>. QED  BY <2>2
<1>9. /\ cn2 \in Seq(Nat) /\ Len(cn2) = n + 1 /\ cn2[1] = h + 2
      /\ \A i \in 1 .. n : At(cn2, i) = At(cn, i)
  <2>1. cn \in Seq(Nat) /\ h + 2 \in Nat  BY <1>7
  <2>2. /\ <<h + 2>> \o cn \in Seq(Nat) /\ Len(<<h + 2>> \o cn) = Len(cn) + 1
        /\ (<<h + 2>> \o cn)[1] = h + 2
        /\ \A i \in 1 .. Len(cn) : At(<<h + 2>> \o cn, i) = At(cn, i)
    BY ONLY <2>1, PushLevels
  <2>. QED  BY <2>2, <1>7
<1>10. At(br2, n + 1) = h + 3 /\ At(cn2, n + 1) = h + 2
  <2>. HIDE DEF br2, cn2, n, st2
  <2>1. Len(br2) + 1 - (n + 1) = 1 /\ Len(cn2) + 1 - (n + 1) = 1  BY <1>7, <1>8, <1>9
  <2>. QED  BY <2>1, <1>8, <1>9 DEF At
<1>11. PICK lev \in [1 .. n -> 1 .. k] :
       /\ \A i \in 1 .. n :
            /\ At(st, lev[i]) = "body"
            /\ At(br, i) = At(fr, lev[i]).header + 3 /\ At(cn, i) = At(fr, lev[i]).header + 2
       /\ \A i, j \in 1 .. n : i < j => lev[i] < lev[j]
       /\ \A l \in 1 .. k : At(st, l) = "body" => \E i \in 1 .. n : lev[i] = l
  BY DEF Exits
<1>. DEFINE lev2 == [i \in 1 .. n + 1 |-> IF i = n + 1 THEN k ELSE lev[i]]
<1>. HIDE DEF st2, br2, cn2, k, n
<1>12. \A i \in 1 .. n + 1 : i \in 1 .. n \/ i = n + 1  BY <1>7
<1>13. ASSUME NEW i \in 1 .. n PROVE lev[i] \in 1 .. k - 1 /\ lev2[i] = lev[i] /\ i \in 1 .. n + 1
  <2>1. lev[i] \in 1 .. k /\ lev[i] # k  BY <1>2, <1>11
  <2>. QED  BY <2>1, <1>1, <1>7
<1>14. lev2[n + 1] = k /\ n + 1 \in 1 .. n + 1  BY <1>7
<1>15. lev2 \in [1 .. n + 1 -> 1 .. k]  BY <1>1, <1>2, <1>7, <1>12, <1>13
<1>. HIDE DEF lev2
<1>16. \A i \in 1 .. n + 1 :
         /\ At(st2, lev2[i]) = "body"
         /\ At(br2, i) = At(fr, lev2[i]).header + 3 /\ At(cn2, i) = At(fr, lev2[i]).header + 2
  <2>1. ASSUME NEW i \in 1 .. n
        PROVE  /\ At(st2, lev2[i]) = "body"
               /\ At(br2, i) = At(fr, lev2[i]).header + 3 /\ At(cn2, i) = At(fr, lev2[i]).header + 2
    <3>1. lev2[i] = lev[i] /\ lev[i] \in 1 .. k - 1  BY <1>13
    <3>2. At(st2, lev[i]) = At(st, lev[i])  BY <3>1, <1>2, <1>5
    <3>3. At(br2, i) = At(br, i) /\ At(cn2, i) = At(cn, i)  BY <1>8, <1>9
    <3>4. /\ At(st, lev[i]) = "body"
          /\ At(br, i) = At(fr, lev[i]).header + 3 /\ At(cn, i) = At(fr, lev[i]).header + 2
      BY <1>11
    <3>. QED  BY ONLY <3>1, <3>2, <3>3, <3>4
  <2>2. /\ At(st2, k) = "body"
        /\ At(br2, n + 1) = At(fr, k).header + 3 /\ At(cn2, n + 1) = At(fr, k).header + 2
    BY <1>4, <1>6, <1>10
  <2>. QED  BY <2>1, <2>2, <1>12, <1>14
<1>17. ASSUME NEW i \in 1 .. n + 1, NEW j \in 1 .. n + 1, i < j PROVE lev2[i] < lev2[j]
  <2>1. i \in 1 .. n  BY <1>7, <1>17
  <2>2. CASE j = n + 1  BY <1>1, <1>13, <1>14, <2>1, <2>2
  <2>3. CASE j \in 1 .. n  BY <1>11, <1>13, <1>17, <2>1, <2>3
  <2>. QED  BY <1>12, <2>2, <2>3
<1>18. ASSUME NEW l \in 1 .. k, At(st2, l) = "body" PROVE \E i \in 1 .. n + 1 : lev2[i] = l
  <2>1. CASE l = k  BY <1>14, <2>1
  <2>2. CASE l # k
    <3>1. l \in 1 .. k - 1  BY <1>1, <2>2
    <3>2. At(st, l) = "body"  BY <1>2, <1>5, <1>18, <3>1
    <3>. QED  BY <1>11, <1>13, <3>2
  <2>. QED  BY <2>1, <2>2
<1>19. Exits(fr, st2, br2, cn2)
  <2>1. /\ br2 \in Seq(Nat) /\ cn2 \in Seq(Nat) /\ Len(br2) = n + 1 /\ Len(cn2) = n + 1 /\ k = Len(fr)
    BY <1>8, <1>9 DEF k
  <2>2. \A i, j \in 1 .. n + 1 : i < j => lev2[i] < lev2[j]  BY <1>17
  <2>3. \A l \in 1 .. k : At(st2, l) = "body" => \E i \in 1 .. n + 1 : lev2[i] = l  BY <1>18
  <2>. QED  BY ONLY <2>1, <2>2, <2>3, <1>15, <1>16 DEF Exits
<1>. QED  BY <1>19 DEF st2, tl, br2, cn2

\* The body is through: they are popped.
LEMMA ExitsLeave ==
  ASSUME NEW fr, NEW st, Framed(fr, st), NEW br, NEW cn, Exits(fr, st, br, cn),
         st # <<>>, st[1] = "body"
  PROVE  Exits(fr, <<"inc">> \o Tail(st), Tail(br), Tail(cn))
<1>. DEFINE k == Len(fr)
            n == Len(br)
            tl == Tail(st)
            st2 == <<"inc">> \o tl
            br2 == Tail(br)
            cn2 == Tail(cn)
<1>1. /\ k \in Nat /\ fr \in Seq(Frames) /\ st \in Seq(Stages) /\ Len(st) = k
  BY LenProperties DEF Framed
<1>2. /\ tl \in Seq(Stages) /\ Len(tl) = k - 1 /\ k >= 1 /\ At(st, k) = "body"
      /\ \A l \in 1 .. k - 1 : At(tl, l) = At(st, l)
  BY <1>1, TailLevels
<1>. HIDE DEF tl
<1>5. Len(st2) = (k - 1) + 1 /\ st2[1] = "inc" /\ \A l \in 1 .. k - 1 : At(st2, l) = At(tl, l)
  <2>0. "inc" \in Stages  BY DEF Stages
  <2>1. /\ <<"inc">> \o tl \in Seq(Stages) /\ Len(<<"inc">> \o tl) = Len(tl) + 1
        /\ (<<"inc">> \o tl)[1] = "inc"
        /\ \A l \in 1 .. Len(tl) : At(<<"inc">> \o tl, l) = At(tl, l)
    BY <1>2, <2>0, PushLevels
  <2>. QED  BY <2>1, <1>2
<1>6. At(st2, k) = "inc"
  <2>1. Len(st2) + 1 - k = 1  BY <1>1, <1>5
  <2>. QED  BY <2>1, <1>5 DEF At
<1>7. br \in Seq(Nat) /\ cn \in Seq(Nat) /\ Len(cn) = n /\ n \in Nat  BY LenProperties DEF Exits
<1>8. PICK lev \in [1 .. n -> 1 .. k] :
       /\ \A i \in 1 .. n :
            /\ At(st, lev[i]) = "body"
            /\ At(br, i) = At(fr, lev[i]).header + 3 /\ At(cn, i) = At(fr, lev[i]).header + 2
       /\ \A i, j \in 1 .. n : i < j => lev[i] < lev[j]
       /\ \A l \in 1 .. k : At(st, l) = "body" => \E i \in 1 .. n : lev[i] = l
  BY DEF Exits
<1>9. PICK i \in 1 .. n : lev[i] = k
  <2>1. k \in 1 .. k  BY <1>1, <1>2
  <2>. QED  BY <2>1, <1>2, <1>8
<1>10. i = n /\ n >= 1 /\ n \in 1 .. n
  <2>1. n \in 1 .. n /\ lev[n] \in 1 .. k  BY <1>7, <1>8, <1>9
  <2>2. i < n => lev[i] < lev[n]  BY <2>1, <1>8
  <2>3. ~(i < n)  BY <2>1, <2>2, <1>9, <1>1
  <2>. QED  BY <2>1, <2>3, <1>7
<1>11. br # <<>> /\ cn # <<>>  BY <1>7, <1>10, EmptySeq
<1>12. br2 \in Seq(Nat) /\ Len(br2) = n - 1 /\ \A j \in 1 .. n - 1 : At(br2, j) = At(br, j)
  BY <1>7, <1>11, TailLevels
<1>13. cn2 \in Seq(Nat) /\ Len(cn2) = n - 1 /\ \A j \in 1 .. n - 1 : At(cn2, j) = At(cn, j)
  BY <1>7, <1>11, TailLevels
<1>. DEFINE lev2 == [j \in 1 .. n - 1 |-> lev[j]]
<1>. HIDE DEF st2, br2, cn2, k, n
<1>14. ASSUME NEW j \in 1 .. n - 1
       PROVE  lev[j] \in 1 .. k - 1 /\ lev2[j] = lev[j] /\ j \in 1 .. n /\ lev[j] \in 1 .. k
  <2>1. j \in 1 .. n /\ j < n  BY <1>7
  <2>2. lev[j] \in 1 .. k /\ lev[j] < k  BY <2>1, <1>8, <1>9, <1>10
  <2>. QED  BY <2>1, <2>2, <1>1
<1>15. lev2 \in [1 .. n - 1 -> 1 .. k]  BY <1>14
<1>16. \A j \in 1 .. n - 1 :
         /\ At(st2, lev2[j]) = "body"
         /\ At(br2, j) = At(fr, lev2[j]).header + 3 /\ At(cn2, j) = At(fr, lev2[j]).header + 2
  BY <1>2, <1>5, <1>8, <1>12, <1>13, <1>14
<1>17. \A a, b \in 1 .. n - 1 : a < b => lev2[a] < lev2[b]  BY <1>8, <1>14
<1>18. ASSUME NEW l \in 1 .. k, At(st2, l) = "body" PROVE \E j \in 1 .. n - 1 : lev2[j] = l
  <2>1. l \in 1 .. k - 1  BY <1>1, <1>6, <1>18
  <2>2. At(st, l) = "body"  BY <1>2, <1>5, <1>18, <2>1
  <2>3. PICK j \in 1 .. n : lev[j] = l  BY <1>8, <2>2
  <2>4. j # n  BY <2>1, <2>3, <1>9, <1>10, <1>1
  <2>5. j \in 1 .. n - 1  BY <2>4, <1>7
  <2>. QED  BY <2>3, <2>5
<1>. HIDE DEF lev2
<1>19. Exits(fr, st2, br2, cn2)
  <2>1. /\ br2 \in Seq(Nat) /\ cn2 \in Seq(Nat) /\ Len(br2) = n - 1 /\ Len(cn2) = n - 1 /\ k = Len(fr)
    BY <1>12, <1>13 DEF k
  <2>3. \A l \in 1 .. k : At(st2, l) = "body" => \E j \in 1 .. n - 1 : lev2[j] = l  BY <1>18
  <2>. QED  BY ONLY <2>1, <2>3, <1>15, <1>16, <1>17 DEF Exits
<1>. QED  BY <1>19 DEF st2, tl, br2, cn2

\* Where a jump goes: to the end or the latch of a loop around it.
LEMMA ExitsHead ==
  ASSUME NEW fr, NEW st, NEW br, NEW cn, Exits(fr, st, br, cn), br # <<>> \/ cn # <<>>
  PROVE  \E l \in 1 .. Len(fr) : /\ At(st, l) = "body"
                                 /\ Head(br) = At(fr, l).header + 3 /\ Head(cn) = At(fr, l).header + 2
<1>. DEFINE n == Len(br)
<1>1. br \in Seq(Nat) /\ cn \in Seq(Nat) /\ Len(cn) = n /\ n \in Nat  BY LenProperties DEF Exits
<1>2. n >= 1 /\ br # <<>> /\ cn # <<>>  BY <1>1, EmptySeq
<1>3. Head(br) = br[1] /\ Head(cn) = cn[1]  BY <1>1, <1>2, HeadTailProperties
<1>4. At(br, n) = br[1] /\ At(cn, n) = cn[1]  BY <1>1, <1>2, TailLevels
<1>5. PICK lev \in [1 .. n -> 1 .. Len(fr)] : \A i \in 1 .. n :
            /\ At(st, lev[i]) = "body"
            /\ At(br, i) = At(fr, lev[i]).header + 3 /\ At(cn, i) = At(fr, lev[i]).header + 2
  BY DEF Exits
<1>6. n \in 1 .. n  BY <1>1, <1>2
<1>7. lev[n] \in 1 .. Len(fr)  BY <1>5, <1>6
<1>. QED  BY <1>3, <1>4, <1>5, <1>6, <1>7

-----------------------------------------------------------------------------
(* What is still to be generated, and the constructs under way before and after each item. *)

RestOf(k, N) == [k : {k}, n : N]

\* What is generated in an open block and leaves control in an open block.
Straight ==
  Leaves \cup ShortCircuits \cup Ternaries \cup Increments \cup Applications \cup Stores \cup Arrays
    \cup Ifs \cup Loops \cup RestOf("operate", Applications) \cup RestOf("store", Stores \cup Arrays)
    \cup RestOf("then", Ifs) \cup RestOf("header", Loops)
Leaving == Jumps \cup Returns \cup RestOf("ret", Returns)
Shifts ==
  RestOf("rhs", ShortCircuits) \cup RestOf("merge", ShortCircuits)
    \cup RestOf("arms", Ternaries) \cup RestOf("else arm", Ternaries) \cup RestOf("join", Ternaries)
    \cup RestOf("else", Ifs) \cup RestOf("ifend", Ifs)
    \cup RestOf("body", Loops) \cup RestOf("latch", Loops) \cup RestOf("back", Loops)
Things == Straight \cup Leaving \cup BlockNodes \cup Shifts

\* The stages of the constructs under way, innermost first, and what is known of the
\* insertion block: it is open, anything, or the one that the only arm of an if came to.
State(st, mode) == [st |-> st, mode |-> mode]
States == [st : Seq(Stages), mode : {"open", "any", "joined"}]

Loose == {"open", "any"}
FirstArm(n) == IF Len(n.arms) = 2 THEN "two" ELSE "one"
Shift(t, p, q) ==
  \/ t.k = "rhs" /\ p.mode = "open" /\ q = State(<<"rhs">> \o p.st, "open")
  \/ t.k = "merge" /\ p = State(<<"rhs">> \o q.st, "open") /\ q.mode \in Loose
  \/ t.k = "arms" /\ p.mode = "open" /\ q = State(<<"then">> \o p.st, "open")
  \/ t.k = "else arm" /\ \E st \in Seq(Stages) : p = State(<<"then">> \o st, "open")
                                               /\ q = State(<<"join">> \o st, "open")
  \/ t.k = "join" /\ p = State(<<"join">> \o q.st, "open") /\ q.mode \in Loose
  \/ t.k = "else" /\ p.st = <<FirstArm(t.n)>> \o q.st /\ p.mode \in Loose /\ q.mode \in Loose
  \/ t.k = "ifend" /\ p.st = <<"arm2">> \o q.st /\ p.mode \in Loose /\ q.mode \in Loose
  \/ t.k = "ifend" /\ p = State(<<"one">> \o q.st, "joined") /\ q.mode \in Loose
  \/ t.k = "body" /\ \E st \in Seq(Stages) : p = State(<<"cond">> \o st, "open")
                                           /\ q = State(<<"body">> \o st, "open")
  \/ t.k = "latch" /\ p.st = <<"body">> \o q.st /\ p.mode \in Loose /\ q.mode \in Loose
  \/ t.k = "back" /\ p = State(<<"inc">> \o q.st, "open") /\ q.mode \in Loose

\* Where statements are generated no operand and no increment is under way.
Bulky == {"if", "while", "for", "then", "header", "block", "else"}
Light == {t \in Straight : t.k \notin Bulky}

Fits(t, p, q) ==
  /\ t.k \in Bulky => Relaxed(p.st)
  /\ \/ t \in Straight /\ p.mode = "open" /\ q.st = p.st /\ q.mode \in Loose
     \/ t \in Leaving /\ p.mode = "open" /\ q.st = p.st /\ q.mode = "any"
     \/ t \in BlockNodes /\ p.mode \in Loose /\ q.st = p.st /\ q.mode = "any"
     \/ t \in Shifts /\ Shift(t, p, q)

Path(seq, s, e) ==
  /\ seq \in Seq(Things)
  /\ \E P \in [1 .. Len(seq) + 1 -> States] :
       /\ P[1] = s /\ P[Len(seq) + 1] = e
       /\ \A i \in 1 .. Len(seq) : Fits(seq[i], P[i], P[i + 1])

LEMMA PathEmpty == ASSUME NEW s \in States PROVE Path(<<>>, s, s)
<1>. DEFINE P == [i \in 1 .. 1 |-> s]
<1>1. P \in [1 .. Len(<<>>) + 1 -> States] /\ P[1] = s /\ P[Len(<<>>) + 1] = s  OBVIOUS
<1>2. <<>> \in Seq(Things) /\ \A i \in 1 .. Len(<<>>) : Fits(<<>>[i], P[i], P[i + 1])  OBVIOUS
<1>. QED  BY <1>1, <1>2 DEF Path

LEMMA PathEnds == ASSUME NEW seq, NEW s, NEW e, Path(seq, s, e) PROVE s \in States /\ e \in States
<1>1. Len(seq) \in Nat  BY LenProperties DEF Path
<1>. QED  BY <1>1 DEF Path

LEMMA PathOver == ASSUME NEW s, NEW e, Path(<<>>, s, e) PROVE s = e
  BY DEF Path

LEMMA PathOne ==
  ASSUME NEW t, NEW s \in States, NEW e \in States, Fits(t, s, e)
  PROVE  Path(<<t>>, s, e)
<1>1. t \in Things  BY DEF Fits, Things
<1>. DEFINE seq == <<t>>
            P == [i \in 1 .. 2 |-> IF i = 1 THEN s ELSE e]
<1>2. seq \in Seq(Things) /\ Len(seq) = 1 /\ seq[1] = t  BY <1>1
<1>3. P \in [1 .. 2 -> States] /\ P[1] = s /\ P[2] = e  OBVIOUS
<1>. HIDE DEF seq, P
<1>4. Path(seq, s, e)  BY <1>2, <1>3 DEF Path
<1>. QED  BY <1>4 DEF seq

LEMMA PathConcat ==
  ASSUME NEW a, NEW b, NEW s, NEW m, NEW e, Path(a, s, m), Path(b, m, e)
  PROVE  Path(a \o b, s, e)
<1>1. a \in Seq(Things) /\ b \in Seq(Things)  BY DEF Path
<1>2. PICK P \in [1 .. Len(a) + 1 -> States] :
        /\ P[1] = s /\ P[Len(a) + 1] = m
        /\ \A i \in 1 .. Len(a) : Fits(a[i], P[i], P[i + 1])
  BY DEF Path
<1>3. PICK Q \in [1 .. Len(b) + 1 -> States] :
        /\ Q[1] = m /\ Q[Len(b) + 1] = e
        /\ \A i \in 1 .. Len(b) : Fits(b[i], Q[i], Q[i + 1])
  BY DEF Path
<1>. DEFINE n == Len(a)
            c == a \o b
            R == [i \in 1 .. n + Len(b) + 1 |-> IF i <= n + 1 THEN P[i] ELSE Q[i - n]]
<1>4. n \in Nat /\ Len(b) \in Nat  BY <1>1, LenProperties
<1>5. /\ c \in Seq(Things) /\ Len(c) = n + Len(b)
      /\ \A i \in 1 .. n + Len(b) : c[i] = IF i <= n THEN a[i] ELSE b[i - n]
  BY <1>1, ConcatProperties
<1>. HIDE DEF n, c
<1>6. R \in [1 .. n + Len(b) + 1 -> States] /\ R[1] = s /\ R[n + Len(b) + 1] = e
  <2>1. ASSUME NEW i \in 1 .. n + Len(b) + 1 PROVE R[i] \in States
    <3>1. CASE i <= n + 1  BY <3>1, <1>2, <1>4 DEF n
    <3>2. CASE ~(i <= n + 1)
      <4>1. i - n \in 1 .. Len(b) + 1  BY <3>2, <1>4
      <4>. QED  BY <3>2, <4>1, <1>3
    <3>. QED  BY <3>1, <3>2
  <2>2. R[1] = s  BY <1>2, <1>4
  <2>3. R[n + Len(b) + 1] = e
    <3>1. CASE Len(b) = 0  BY <3>1, <1>2, <1>3, <1>4 DEF n
    <3>2. CASE Len(b) # 0  BY <3>2, <1>3, <1>4
    <3>. QED  BY <3>1, <3>2
  <2>. QED  BY <2>1, <2>2, <2>3
<1>7. ASSUME NEW i \in 1 .. n + Len(b) PROVE Fits(c[i], R[i], R[i + 1])
  <2>1. CASE i <= n
    <3>1. c[i] = a[i] /\ R[i] = P[i] /\ R[i + 1] = P[i + 1]  BY <2>1, <1>4, <1>5
    <3>2. Fits(a[i], P[i], P[i + 1])  BY <2>1, <1>2, <1>4 DEF n
    <3>. QED  BY <3>1, <3>2
  <2>2. CASE ~(i <= n)
    <3>. DEFINE j == i - n
    <3>1. j \in 1 .. Len(b) /\ c[i] = b[j]  BY <2>2, <1>4, <1>5
    <3>2. R[i] = Q[j]
      <4>1. CASE i = n + 1  BY <4>1, <1>2, <1>3, <1>4 DEF n
      <4>2. CASE i # n + 1  BY <4>2, <2>2, <1>4
      <4>. QED  BY <4>1, <4>2
    <3>3. R[i + 1] = Q[j + 1]
      <4>1. ~(i + 1 <= n + 1) /\ i + 1 \in 1 .. n + Len(b) + 1 /\ (i + 1) - n = j + 1  BY <2>2, <1>4
      <4>. QED  BY <4>1
    <3>4. Fits(b[j], Q[j], Q[j + 1])  BY <3>1, <1>3
    <3>. QED  BY <3>1, <3>2, <3>3, <3>4
  <2>. QED  BY <2>1, <2>2
<1>. HIDE DEF R
<1>8. Path(c, s, e)  BY <1>4, <1>5, <1>6, <1>7 DEF Path
<1>. QED  BY <1>8 DEF c

LEMMA PathFirst ==
  ASSUME NEW seq, NEW s, NEW e, Path(seq, s, e), seq # <<>>
  PROVE  \E m \in States : Fits(Head(seq), s, m) /\ Path(Tail(seq), m, e)
<1>1. seq \in Seq(Things)  BY DEF Path
<1>2. PICK P \in [1 .. Len(seq) + 1 -> States] :
        /\ P[1] = s /\ P[Len(seq) + 1] = e
        /\ \A i \in 1 .. Len(seq) : Fits(seq[i], P[i], P[i + 1])
  BY DEF Path
<1>. DEFINE n == Len(seq) - 1
            r == Tail(seq)
            Q == [i \in 1 .. n + 1 |-> P[i + 1]]
<1>3. n \in Nat /\ Len(seq) = n + 1  BY <1>1, EmptySeq
<1>4. r \in Seq(Things) /\ Len(r) = n /\ \A i \in 1 .. n : r[i] = seq[i + 1]
  BY <1>1, <1>3, HeadTailProperties
<1>5. Head(seq) = seq[1]  BY <1>1, <1>3
<1>. HIDE DEF n, r
<1>6. Q \in [1 .. n + 1 -> States] /\ Q[1] = P[2] /\ Q[n + 1] = e
  BY <1>2, <1>3
<1>7. ASSUME NEW i \in 1 .. n PROVE Fits(r[i], Q[i], Q[i + 1])
  <2>1. i + 1 \in 1 .. Len(seq) /\ i \in 1 .. n + 1 /\ i + 1 \in 1 .. n + 1  BY <1>3
  <2>2. Fits(seq[i + 1], P[i + 1], P[(i + 1) + 1])  BY <2>1, <1>2
  <2>. QED  BY <2>1, <2>2, <1>4
<1>. HIDE DEF Q
<1>8. Path(r, P[2], e)  BY <1>4, <1>6, <1>7 DEF Path
<1>9. P[2] \in States /\ Fits(Head(seq), s, P[2])
  <2>1. 1 \in 1 .. Len(seq) /\ 2 \in 1 .. Len(seq) + 1  BY <1>3
  <2>2. Fits(seq[1], P[1], P[1 + 1])  BY <2>1, <1>2
  <2>. QED  BY <2>1, <2>2, <1>2, <1>5
<1>. QED  BY <1>8, <1>9 DEF r

\* What every item of a sequence leaves alone, the sequence leaves alone.
LEMMA PathAll ==
  ASSUME NEW seq, seq \in Seq(Things), NEW s \in States, \A i \in 1 .. Len(seq) : Fits(seq[i], s, s)
  PROVE  Path(seq, s, s)
<1>. DEFINE P == [i \in 1 .. Len(seq) + 1 |-> s]
<1>1. Len(seq) \in Nat  BY LenProperties
<1>2. P \in [1 .. Len(seq) + 1 -> States] /\ P[1] = s /\ P[Len(seq) + 1] = s  BY <1>1
<1>3. \A i \in 1 .. Len(seq) : P[i] = s /\ P[i + 1] = s  BY <1>1
<1>. HIDE DEF P
<1>. QED  BY <1>2, <1>3 DEF Path

-----------------------------------------------------------------------------
(* What the syntax trees say of the items. *)

LEMMA ExpressionIsStraight == ASSUME NEW e \in Expressions PROVE e \in Straight
  BY SyntaxAssumption DEF Straight

LEMMA StatementKinds ==
  ASSUME NEW n \in Statements PROVE n \in Straight \cup BlockNodes \cup Jumps \cup Returns
  BY SyntaxAssumption DEF Straight

LEMMA HeaderIsStraight == ASSUME NEW n \in Headers PROVE n \in Straight
  BY StatementKinds DEF Headers

LEMMA LightAre ==
  /\ Expressions \subseteq Light /\ Steps \subseteq Light /\ Light \subseteq Straight
<1>1. Expressions \cup Stores \subseteq Straight  BY SyntaxAssumption DEF Straight
<1>2. ASSUME NEW e \in Expressions PROVE e.k \notin Bulky
  BY SyntaxAssumption DEF Leaves, ShortCircuits, Ternaries, Increments, Applications, Columns, Operations, Bulky
<1>3. ASSUME NEW e \in Stores PROVE e.k \notin Bulky  BY DEF Stores, Bulky
<1>. QED  BY <1>1, <1>2, <1>3 DEF Light, Steps

\* What is bulky may stand in the parts of what is.
LEMMA RelaxedPush ==
  ASSUME NEW st \in Seq(Stages), NEW s \in Stages
  PROVE  /\ Relaxed(<<s>> \o st) => Relaxed(st)
         /\ Relaxed(st) /\ s \notin Firm => Relaxed(<<s>> \o st)
<1>. DEFINE u == <<s>> \o st
<1>1. /\ u \in Seq(Stages) /\ Len(u) = Len(st) + 1 /\ u[1] = s /\ Len(st) \in Nat
      /\ \A l \in 1 .. Len(st) : u[l + 1] = st[l]
  <2>1. <<s>> \in Seq(Stages) /\ Len(<<s>>) = 1 /\ <<s>>[1] = s  OBVIOUS
  <2>2. /\ <<s>> \o st \in Seq(Stages) /\ Len(<<s>> \o st) = 1 + Len(st)
        /\ \A i \in 1 .. 1 + Len(st) : (<<s>> \o st)[i] = IF i <= 1 THEN <<s>>[i] ELSE st[i - 1]
    BY <2>1, ConcatProperties
  <2>3. Len(st) \in Nat  BY LenProperties
  <2>. HIDE DEF u
  <2>4. /\ u \in Seq(Stages) /\ Len(u) = 1 + Len(st)
        /\ \A i \in 1 .. 1 + Len(st) : u[i] = IF i <= 1 THEN <<s>>[i] ELSE st[i - 1]
    BY <2>2 DEF u
  <2>5. ASSUME NEW l \in 1 .. Len(st) PROVE u[l + 1] = st[l]
    <3>1. l + 1 \in 1 .. 1 + Len(st) /\ ~(l + 1 <= 1) /\ (l + 1) - 1 = l  BY <2>3
    <3>. QED  BY <3>1, <2>4
  <2>6. u[1] = s
    <3>1. 1 \in 1 .. 1 + Len(st)  BY <2>3
    <3>. QED  BY <3>1, <2>1, <2>4
  <2>. QED  BY <2>3, <2>4, <2>5, <2>6
<1>. HIDE DEF u
<1>2. DOMAIN u = 1 .. Len(st) + 1 /\ DOMAIN st = 1 .. Len(st)  BY <1>1, LenProperties
<1>3. Relaxed(u) => Relaxed(st)
  <2>. SUFFICES ASSUME Relaxed(u), NEW l \in 1 .. Len(st) PROVE st[l] \notin Firm  BY <1>2 DEF Relaxed
  <2>1. l + 1 \in 1 .. Len(st) + 1 /\ u[l + 1] = st[l]  BY <1>1
  <2>. QED  BY <2>1, <1>2 DEF Relaxed
<1>4. ASSUME Relaxed(st), s \notin Firm PROVE Relaxed(u)
  <2>. SUFFICES ASSUME NEW l \in 1 .. Len(st) + 1 PROVE u[l] \notin Firm  BY <1>2 DEF Relaxed
  <2>1. CASE l = 1  BY <2>1, <1>1, <1>4
  <2>2. CASE l # 1
    <3>1. l - 1 \in 1 .. Len(st) /\ u[(l - 1) + 1] = st[l - 1] /\ (l - 1) + 1 = l  BY <2>2, <1>1
    <3>. QED  BY <3>1, <1>2, <1>4 DEF Relaxed
  <2>. QED  BY <2>1, <2>2
<1>. QED  BY <1>3, <1>4 DEF u

\* Of what kind an item is shows in its k.
LEMMA StraightKinds ==
  ASSUME NEW t \in Straight
  PROVE  /\ t.k \in {"leaf", "and", "or", "ternary", "incr", "decl", "set", "array", "if", "while", "for",
                     "operate", "store", "then", "header"} \cup Operations
         /\ t.k \in {"and", "or"} => t \in ShortCircuits
         /\ t.k = "ternary" => t \in Ternaries
         /\ t.k \in Operations => t \in Applications
         /\ t.k \in {"decl", "set"} => t \in Stores
         /\ t.k = "array" => t \in Arrays
         /\ t.k = "if" => t \in Ifs
         /\ t.k \in {"while", "for"} => t \in Loops
         /\ t.k = "then" => t \in RestOf("then", Ifs)
         /\ t.k = "header" => t \in RestOf("header", Loops)
  BY DEF Straight, RestOf, Leaves, ShortCircuits, Ternaries, Increments,
         Applications, Columns, Operations, Stores, Arrays, Ifs, Loops

LEMMA OtherKinds ==
  ASSUME NEW t
  PROVE  /\ t \in Leaving => t.k \in {"break", "continue", "discard", "return", "ret"}
         /\ t \in Leaving /\ t.k = "return" => t \in Returns
         /\ t \in BlockNodes => t.k = "block"
         /\ t \in Shifts => t.k \in {"rhs", "merge", "arms", "else arm", "join", "else", "ifend",
                                     "body", "latch", "back"}
  BY DEF Leaving, Shifts, RestOf, Jumps, Returns, BlockNodes

LEMMA ShiftKinds ==
  ASSUME NEW t \in Shifts
  PROVE  /\ t.k \in {"rhs", "merge"} => t.n \in ShortCircuits
         /\ t.k \in {"arms", "else arm", "join"} => t.n \in Ternaries
         /\ t.k \in {"else", "ifend"} => t.n \in Ifs
         /\ t.k \in {"body", "latch", "back"} => t.n \in Loops
  BY DEF Shifts, RestOf

\* How an item fits in, by its k.
LEMMA StraightFit ==
  ASSUME NEW t, NEW p, NEW q, Fits(t, p, q),
         t.k \in {"leaf", "and", "or", "ternary", "incr", "decl", "set", "array", "if", "while", "for",
                  "operate", "store", "then", "header"} \cup Operations
  PROVE  /\ t \in Straight /\ p.mode = "open" /\ q.st = p.st /\ q.mode \in Loose
         /\ t.k \in Bulky => Relaxed(p.st)
<1>1. t \notin Leaving /\ t \notin BlockNodes /\ t \notin Shifts  BY OtherKinds DEF Operations
<1>. QED  BY <1>1 DEF Fits

LEMMA LeavingFit ==
  ASSUME NEW t, NEW p, NEW q, Fits(t, p, q), t.k \in {"break", "continue", "discard", "return", "ret"}
  PROVE  t \in Leaving /\ p.mode = "open" /\ q.st = p.st /\ q.mode = "any"
<1>1. t \notin Straight /\ t \notin BlockNodes /\ t \notin Shifts
  BY OtherKinds, StraightKinds DEF Operations
<1>. QED  BY <1>1 DEF Fits

LEMMA BlockFit ==
  ASSUME NEW t, NEW p, NEW q, Fits(t, p, q), t.k = "block"
  PROVE  /\ t \in BlockNodes /\ p.mode \in Loose /\ q.st = p.st /\ q.mode = "any"
         /\ t.k \in Bulky => Relaxed(p.st)
<1>1. t \notin Straight /\ t \notin Leaving /\ t \notin Shifts
  BY OtherKinds, StraightKinds DEF Operations
<1>. QED  BY <1>1 DEF Fits

LEMMA ShiftFit ==
  ASSUME NEW t, NEW p, NEW q, Fits(t, p, q),
         t.k \in {"rhs", "merge", "arms", "else arm", "join", "else", "ifend", "body", "latch", "back"}
  PROVE  /\ t \in Shifts /\ Shift(t, p, q)
         /\ t.k \in Bulky => Relaxed(p.st)
<1>1. t \notin Straight /\ t \notin Leaving /\ t \notin BlockNodes
  BY OtherKinds, StraightKinds DEF Operations
<1>. QED  BY <1>1 DEF Fits

\* A rest of a construct fits where the table of shifts says.
LEMMA RestFits ==
  ASSUME NEW k, NEW N, NEW n \in N, NEW p, NEW q, RestOf(k, N) \subseteq Shifts,
         Shift(Item(k, n), p, q), k \notin Bulky \/ Relaxed(p.st)
  PROVE  Fits(Item(k, n), p, q)
  BY DEF Fits, Item, RestOf

LEMMA StraightRest ==
  ASSUME NEW k, NEW N, NEW n \in N, RestOf(k, N) \subseteq Straight
  PROVE  Item(k, n) \in Straight
  BY DEF Item, RestOf

LEMMA StateOf ==
  ASSUME NEW st \in Seq(Stages), NEW mode \in {"open", "any", "joined"}
  PROVE  State(st, mode) \in States /\ State(st, mode).st = st /\ State(st, mode).mode = mode
  BY DEF State, States

LEMMA StateIs == ASSUME NEW p \in States PROVE p = State(p.st, p.mode) /\ p.st \in Seq(Stages)
  BY DEF State, States

LEMMA Pushed ==
  ASSUME NEW st \in Seq(Stages), NEW s \in Stages
  PROVE  /\ <<s>> \o st \in Seq(Stages) /\ <<s>> \o st # <<>>
         /\ (<<s>> \o st)[1] = s /\ Tail(<<s>> \o st) = st
<1>1. <<s>> \in Seq(Stages) /\ Len(<<s>>) = 1 /\ <<s>>[1] = s  OBVIOUS
<1>. DEFINE u == <<s>> \o st
<1>2. /\ u \in Seq(Stages) /\ Len(u) = 1 + Len(st)
      /\ \A i \in 1 .. 1 + Len(st) : u[i] = IF i <= 1 THEN <<s>>[i] ELSE st[i - 1]
  BY <1>1, ConcatProperties
<1>3. Len(st) \in Nat  BY LenProperties
<1>. HIDE DEF u
<1>4. u # <<>>  BY <1>2, <1>3, EmptySeq
<1>5. u[1] = s
  <2>1. 1 \in 1 .. 1 + Len(st)  BY <1>3
  <2>. QED  BY <1>1, <1>2, <2>1
<1>6. Tail(u) = st
  <2>1. /\ Tail(u) \in Seq(Stages) /\ Len(Tail(u)) = Len(u) - 1
        /\ \A i \in 1 .. Len(Tail(u)) : Tail(u)[i] = u[i + 1]
    BY <1>2, <1>4, HeadTailProperties
  <2>2. Len(Tail(u)) = Len(st)  BY <1>2, <1>3, <2>1
  <2>3. ASSUME NEW i \in 1 .. Len(st) PROVE u[i + 1] = st[i]
    <3>1. i + 1 \in 1 .. 1 + Len(st) /\ ~(i + 1 <= 1) /\ (i + 1) - 1 = i  BY <1>3
    <3>. QED  BY <1>2, <3>1
  <2>4. \A i \in 1 .. Len(Tail(u)) : Tail(u)[i] = st[i]  BY <2>1, <2>2, <2>3
  <2>. QED  BY <2>1, <2>2, <2>4, SeqEqual
<1>. QED  BY <1>2, <1>4, <1>5, <1>6 DEF u

\* A statement is generated in an open block, and nothing is known of what follows.
LEMMA StatementFits ==
  ASSUME NEW n \in Statements, NEW st \in Seq(Stages), Relaxed(st)
  PROVE  Fits(n, State(st, "open"), State(st, "any"))
  BY StatementKinds, StateOf DEF Fits, Leaving, Loose

LEMMA StraightPath ==
  ASSUME NEW seq \in Seq(Straight), NEW st \in Seq(Stages), seq \in Seq(Light) \/ Relaxed(st)
  PROVE  Path(seq, State(st, "open"), State(st, "open"))
<1>1. seq \in Seq(Things)  BY SeqMonotonic DEF Things
<1>2. ASSUME NEW i \in 1 .. Len(seq) PROVE Fits(seq[i], State(st, "open"), State(st, "open"))
  <2>1. seq[i] \in Straight /\ (seq \in Seq(Light) => seq[i] \in Light)  BY ElementOfSeq
  <2>. QED  BY <2>1, StateOf DEF Fits, Loose, Light
<1>. QED  BY <1>1, <1>2, StateOf, PathAll

\* Expressions and one item more.
LEMMA StraightThen ==
  ASSUME NEW seq \in Seq(Straight), NEW st \in Seq(Stages), seq \in Seq(Light) \/ Relaxed(st),
         NEW t, NEW q \in States, Fits(t, State(st, "open"), q)
  PROVE  Path(seq \o <<t>>, State(st, "open"), q)
<1>1. Path(<<t>>, State(st, "open"), q)  BY StateOf, PathOne
<1>. QED  BY <1>1, StraightPath, PathConcat

LEMMA PairConcat == ASSUME NEW t, NEW u PROVE <<t>> \o <<u>> = <<t, u>>
<1>. DEFINE S == {t, u}
            a == <<t>>
            b == <<u>>
            c == <<t, u>>
<1>1. /\ a \in Seq(S) /\ Len(a) = 1 /\ a[1] = t
      /\ b \in Seq(S) /\ Len(b) = 1 /\ b[1] = u
      /\ c \in Seq(S) /\ Len(c) = 2 /\ c[1] = t /\ c[2] = u
  OBVIOUS
<1>. HIDE DEF S, a, b, c
<1>2. /\ a \o b \in Seq(S) /\ Len(a \o b) = 2
      /\ \A i \in 1 .. 2 : (a \o b)[i] = IF i <= 1 THEN a[i] ELSE b[i - 1]
  BY <1>1, ConcatProperties
<1>3. (a \o b)[1] = c[1] /\ (a \o b)[2] = c[2]  BY <1>1, <1>2
<1>4. \A i \in 1 .. Len(a \o b) : (a \o b)[i] = c[i]
  <2>. SUFFICES ASSUME NEW i \in 1 .. 2 PROVE (a \o b)[i] = c[i]  BY <1>2
  <2>1. i = 1 \/ i = 2  OBVIOUS
  <2>. QED  BY <2>1, <1>3
<1>5. a \o b = c  BY <1>1, <1>2, <1>4, SeqEqual
<1>. QED  BY <1>5 DEF a, b, c

LEMMA TripleConcat == ASSUME NEW t, NEW u, NEW v PROVE <<t>> \o <<u, v>> = <<t, u, v>>
<1>. DEFINE S == {t, u, v}
            a == <<t>>
            b == <<u, v>>
            c == <<t, u, v>>
<1>1. /\ a \in Seq(S) /\ Len(a) = 1 /\ a[1] = t
      /\ b \in Seq(S) /\ Len(b) = 2 /\ b[1] = u /\ b[2] = v
      /\ c \in Seq(S) /\ Len(c) = 3 /\ c[1] = t /\ c[2] = u /\ c[3] = v
  OBVIOUS
<1>. HIDE DEF S, a, b, c
<1>2. /\ a \o b \in Seq(S) /\ Len(a \o b) = 3
      /\ \A i \in 1 .. 3 : (a \o b)[i] = IF i <= 1 THEN a[i] ELSE b[i - 1]
  <2>1. /\ a \o b \in Seq(S) /\ Len(a \o b) = Len(a) + Len(b)
        /\ \A i \in 1 .. Len(a) + Len(b) : (a \o b)[i] = IF i <= Len(a) THEN a[i] ELSE b[i - Len(a)]
    BY <1>1, ConcatProperties
  <2>. QED  BY <1>1, <2>1
<1>3. (a \o b)[1] = c[1] /\ (a \o b)[2] = c[2] /\ (a \o b)[3] = c[3]  BY <1>1, <1>2
<1>4. \A i \in 1 .. Len(a \o b) : (a \o b)[i] = c[i]
  <2>. SUFFICES ASSUME NEW i \in 1 .. 3 PROVE (a \o b)[i] = c[i]  BY <1>2
  <2>1. i = 1 \/ i = 2 \/ i = 3  OBVIOUS
  <2>. QED  BY <2>1, <1>3
<1>5. a \o b = c  BY <1>1, <1>2, <1>4, SeqEqual
<1>. QED  BY <1>5 DEF a, b, c

LEMMA PathTwo ==
  ASSUME NEW t, NEW u, NEW p \in States, NEW m \in States, NEW q \in States,
         Fits(t, p, m), Fits(u, m, q)
  PROVE  Path(<<t, u>>, p, q)
<1>1. Path(<<t>>, p, m) /\ Path(<<u>>, m, q)  BY PathOne
<1>2. Path(<<t>> \o <<u>>, p, q)  BY <1>1, PathConcat
<1>3. <<t>> \o <<u>> = <<t, u>>  BY PairConcat
<1>. QED  BY <1>2, <1>3

-----------------------------------------------------------------------------
(* The inductive invariant. *)

Known(mode, bs, c, fr) ==
  /\ mode = "open" => Open(bs, c)
  /\ mode = "joined" => fr # <<>> /\ fr[1].ends = {c}

\* While a function is generated there is somebody who will end each block that is open, and
\* what is to be generated brings every construct that is under way to its end.  Of the
\* stages of the constructs more may be known: they are in G.
Underway(bs, c, fr, td, G) ==
  \E p \in States, e \in States, own \in Owners(bs, fr) :
    /\ Ledger(bs, c, fr, p.st, own) /\ Known(p.mode, bs, c, fr)
    /\ Path(td, p, e) /\ e.st = <<>> /\ p.st \in G

\* What becomes of stages in G: none changes, a construct is begun, goes on or ends.
Legal(bs, c, fr, st) == \E own : Ledger(bs, c, fr, st, own)
Stays(bs, c, fr, G, G2) == \A st \in G : Legal(bs, c, fr, st) => st \in G2
Begins(bs, c, fr, G, s, G2) == \A st \in G : Legal(bs, c, fr, st) => <<s>> \o st \in G2
BeginsBulky(bs, c, fr, G, s, G2) ==
  \A st \in G : Legal(bs, c, fr, st) /\ Relaxed(st) => <<s>> \o st \in G2
GoesOn(bs, c, fr, G, s, t, G2) ==
  \A st \in G : Legal(bs, c, fr, st) /\ st # <<>> /\ st[1] = s => <<t>> \o Tail(st) \in G2
IsOver(bs, c, fr, G, s, G2) ==
  \A st \in G : Legal(bs, c, fr, st) /\ st # <<>> /\ st[1] = s => Tail(st) \in G2

EndsArms(bs, c, fr, G, G2) ==
  \A st \in G :
    Legal(bs, c, fr, st) /\ st # <<>> /\ (st[1] = "arm2" \/ (st[1] = "one" /\ fr[1].ends = {c}))
      => Tail(st) \in G2

LEMMA Unfold ==
  ASSUME NEW bs, NEW c, NEW fr, NEW td, NEW G, Underway(bs, c, fr, td, G), td # <<>>
  PROVE  \E p \in States, q \in States, e \in States, own \in Owners(bs, fr) :
           /\ Ledger(bs, c, fr, p.st, own) /\ Known(p.mode, bs, c, fr)
           /\ Fits(Head(td), p, q) /\ Path(Tail(td), q, e) /\ e.st = <<>>
           /\ p.st \in G /\ Legal(bs, c, fr, p.st)
  BY PathFirst DEF Underway, Legal

LEMMA Fold ==
  ASSUME NEW bs, NEW c, NEW fr, NEW items, NEW rest, NEW p \in States, NEW q, NEW e, NEW own,
         Ledger(bs, c, fr, p.st, own), Known(p.mode, bs, c, fr),
         Path(items, p, q), Path(rest, q, e), e.st = <<>>, NEW G, p.st \in G
  PROVE  Underway(bs, c, fr, items \o rest, G)
<1>1. Path(items \o rest, p, e) /\ e \in States  BY PathConcat, PathEnds
<1>2. own \in Owners(bs, fr)  BY DEF Ledger, Owners
<1>. QED  BY <1>1, <1>2 DEF Underway

-----------------------------------------------------------------------------
(* Steps that begin and end no block. *)

StraightKind ==
  {"leaf", "and", "or", "ternary", "incr", "decl", "set", "array", "if", "while", "for",
   "operate", "store", "then", "header"} \cup Operations

LEMMA StraightStep ==
  ASSUME NEW bs, NEW c, NEW fr, NEW td, NEW G, Underway(bs, c, fr, td, G), td # <<>>,
         Head(td).k \in StraightKind, NEW ins, Plain(ins),
         NEW G2, Stays(bs, c, fr, G, G2)
  PROVE  Underway(Emit(bs, c, ins), c, fr, <<>> \o Tail(td), G2)
<1>1. PICK p \in States, q \in States, e \in States, own \in Owners(bs, fr) :
        /\ Ledger(bs, c, fr, p.st, own) /\ Known(p.mode, bs, c, fr)
        /\ Fits(Head(td), p, q) /\ Path(Tail(td), q, e) /\ e.st = <<>>
        /\ p.st \in G /\ Legal(bs, c, fr, p.st)
  BY Unfold
<1>2. p.mode = "open" /\ q.st = p.st /\ q.mode \in Loose  BY <1>1, StraightFit DEF StraightKind
<1>3. Code(bs) /\ c \in DOMAIN bs /\ Open(bs, c)  BY <1>1, <1>2 DEF Ledger, Known
<1>4. Turned(bs, Emit(bs, c, ins), {}, 0)  BY <1>3, EmitPlain
<1>5. PICK own2 : Ledger(Emit(bs, c, ins), c, fr, q.st, own2)
  <2>1. \E own2 : Ledger(Emit(bs, c, ins), c, fr, p.st, own2)  BY <1>1, <1>4, Write
  <2>. QED  BY <2>1, <1>2
<1>6. Known(q.mode, Emit(bs, c, ins), c, fr)  BY <1>2, <1>3, <1>4 DEF Known, Turned, Loose
<1>7. q.st \in G2  BY <1>1, <1>2 DEF Stays
<1>. QED  BY <1>1, <1>5, <1>6, <1>7, PathEmpty, Fold

\* An item is taken apart; it may have written something before.
LEMMA ExpandStep ==
  ASSUME NEW bs, NEW c, NEW fr, NEW td, NEW G, Underway(bs, c, fr, td, G), td # <<>>,
         Head(td).k \in StraightKind, NEW ins, Plain(ins), NEW bs2 \in {bs, Emit(bs, c, ins)},
         NEW items,
         \A st \in Seq(Stages), m \in Loose :
           (Head(td).k \in Bulky => Relaxed(st)) => Path(items, State(st, "open"), State(st, m)),
         NEW G2, Stays(bs, c, fr, G, G2)
  PROVE  Underway(bs2, c, fr, items \o Tail(td), G2)
<1>1. PICK p \in States, q \in States, e \in States, own \in Owners(bs, fr) :
        /\ Ledger(bs, c, fr, p.st, own) /\ Known(p.mode, bs, c, fr)
        /\ Fits(Head(td), p, q) /\ Path(Tail(td), q, e) /\ e.st = <<>>
        /\ p.st \in G /\ Legal(bs, c, fr, p.st)
  BY Unfold
<1>2. /\ p.mode = "open" /\ q.st = p.st /\ q.mode \in Loose
      /\ Head(td).k \in Bulky => Relaxed(p.st)
  BY <1>1, StraightFit DEF StraightKind
<1>3. Code(bs) /\ c \in DOMAIN bs /\ Open(bs, c)  BY <1>1, <1>2 DEF Ledger, Known
<1>4. Turned(bs, bs2, {}, 0)  BY <1>3, EmitPlain, TurnedNone
<1>5. PICK own2 : Ledger(bs2, c, fr, p.st, own2)  BY <1>1, <1>4, Write
<1>6. Known(p.mode, bs2, c, fr)  BY <1>2, <1>3, <1>4 DEF Known, Turned
<1>7. Path(items, p, q)
  <2>1. p = State(p.st, "open") /\ q = State(p.st, q.mode) /\ p.st \in Seq(Stages)  BY <1>2, StateIs
  <2>. QED  BY <2>1, <1>2
<1>8. p.st \in G2  BY <1>1 DEF Stays
<1>. QED  BY <1>1, <1>5, <1>6, <1>7, <1>8, Fold

LEMMA LeavingStep ==
  ASSUME NEW bs, NEW c, NEW fr, NEW td, NEW G, Underway(bs, c, fr, td, G), td # <<>>,
         Head(td).k \in {"break", "continue", "discard", "ret"}, NEW ins, Closing(ins),
         NEW G2, Stays(bs, c, fr, G, G2)
  PROVE  Underway(Emit(bs, c, ins), c, fr, <<>> \o Tail(td), G2)
<1>1. PICK p \in States, q \in States, e \in States, own \in Owners(bs, fr) :
        /\ Ledger(bs, c, fr, p.st, own) /\ Known(p.mode, bs, c, fr)
        /\ Fits(Head(td), p, q) /\ Path(Tail(td), q, e) /\ e.st = <<>>
        /\ p.st \in G /\ Legal(bs, c, fr, p.st)
  BY Unfold
<1>2. p.mode = "open" /\ q.st = p.st /\ q.mode = "any"  BY <1>1, LeavingFit
<1>3. Code(bs) /\ c \in DOMAIN bs /\ Open(bs, c)  BY <1>1, <1>2 DEF Ledger, Known
<1>4. Turned(bs, Emit(bs, c, ins), {c}, 0)  BY <1>3, EmitClosing
<1>5. PICK own2 : Ledger(Emit(bs, c, ins), c, fr, q.st, own2)
  <2>1. \E own2 : Ledger(Emit(bs, c, ins), c, fr, p.st, own2)  BY <1>1, <1>4, Write
  <2>. QED  BY <2>1, <1>2
<1>6. Known(q.mode, Emit(bs, c, ins), c, fr)  BY <1>2 DEF Known
<1>7. q.st \in G2  BY <1>1, <1>2 DEF Stays
<1>. QED  BY <1>1, <1>5, <1>6, <1>7, PathEmpty, Fold

\* Instructions as they are written.
LEMMA PlainOne == ASSUME NEW i, ~Ends(i) PROVE Plain(<<i>>)
<1>1. <<i>> \in Seq({i})  OBVIOUS
<1>2. \A j \in DOMAIN <<i>> : <<i>>[j] = i  OBVIOUS
<1>. QED  BY <1>1, <1>2 DEF Plain

LEMMA ClosingOne == ASSUME NEW i, Ends(i) PROVE Closing(<<i>>)
<1>. DEFINE s == <<i>>
<1>1. s \in Seq({i}) /\ Len(s) = 1 /\ DOMAIN s = {1} /\ s[1] = i  OBVIOUS
<1>. HIDE DEF s
<1>2. \A j \in DOMAIN s : Ends(s[j]) <=> j = Len(s)  BY <1>1
<1>3. Len(s) >= 1 /\ \E S : s \in Seq(S)  BY <1>1
<1>4. Closing(s)  BY <1>2, <1>3 DEF Closing
<1>. QED  BY <1>4 DEF s

LEMMA ClosingTwo == ASSUME NEW i, NEW j, ~Ends(i), Ends(j) PROVE Closing(<<i, j>>)
<1>. DEFINE s == <<i, j>>
<1>1. s \in Seq({i, j}) /\ Len(s) = 2 /\ DOMAIN s = {1, 2} /\ s[1] = i /\ s[2] = j  OBVIOUS
<1>. HIDE DEF s
<1>2. \A l \in DOMAIN s : Ends(s[l]) <=> l = Len(s)  BY <1>1
<1>3. Len(s) >= 1 /\ \E S : s \in Seq(S)  BY <1>1
<1>4. Closing(s)  BY <1>2, <1>3 DEF Closing
<1>. QED  BY <1>4 DEF s

LEMMA InsEnds ==
  ASSUME NEW op, NEW arg PROVE Ends(Ins(op, arg)) <=> op \in Terminators
  BY DEF Ends, Ins

-----------------------------------------------------------------------------
(* What items are taken apart into brings their constructs to an end. *)

LEMMA PathFour ==
  ASSUME NEW a, NEW b, NEW c, NEW d, NEW p1 \in States, NEW p2 \in States, NEW p3 \in States,
         NEW p4 \in States, NEW p5 \in States,
         Fits(a, p1, p2), Fits(b, p2, p3), Fits(c, p3, p4), Fits(d, p4, p5)
  PROVE  Path(<<a, b, c, d>>, p1, p5)
<1>. DEFINE seq == <<a, b, c, d>>
            P == [i \in 1 .. 5 |-> CASE i = 1 -> p1 [] i = 2 -> p2 [] i = 3 -> p3 [] i = 4 -> p4
                                     [] OTHER -> p5]
<1>1. a \in Things /\ b \in Things /\ c \in Things /\ d \in Things  BY DEF Fits, Things
<1>2. /\ seq \in Seq(Things) /\ Len(seq) = 4
      /\ seq[1] = a /\ seq[2] = b /\ seq[3] = c /\ seq[4] = d
  BY <1>1
<1>3. /\ P \in [1 .. 5 -> States]
      /\ P[1] = p1 /\ P[2] = p2 /\ P[3] = p3 /\ P[4] = p4 /\ P[5] = p5
  OBVIOUS
<1>. HIDE DEF seq, P
<1>4. /\ Fits(seq[1], P[1], P[1 + 1]) /\ Fits(seq[2], P[2], P[2 + 1])
      /\ Fits(seq[3], P[3], P[3 + 1]) /\ Fits(seq[4], P[4], P[4 + 1])
  BY <1>2, <1>3
<1>5. ASSUME NEW i \in 1 .. 4 PROVE Fits(seq[i], P[i], P[i + 1])
  <2>1. i = 1 \/ i = 2 \/ i = 3 \/ i = 4  OBVIOUS
  <2>. QED  BY <2>1, <1>4
<1>6. Path(seq, p1, p5)  BY <1>2, <1>3, <1>5 DEF Path
<1>. QED  BY <1>6 DEF seq

LEMMA PathSix ==
  ASSUME NEW a, NEW b, NEW c, NEW d, NEW f, NEW g, NEW p1 \in States, NEW p2 \in States,
         NEW p3 \in States, NEW p4 \in States, NEW p5 \in States, NEW p6 \in States, NEW p7 \in States,
         Fits(a, p1, p2), Fits(b, p2, p3), Fits(c, p3, p4), Fits(d, p4, p5), Fits(f, p5, p6),
         Fits(g, p6, p7)
  PROVE  Path(<<a, b, c, d, f, g>>, p1, p7)
<1>. DEFINE seq == <<a, b, c, d, f, g>>
            P == [i \in 1 .. 7 |-> CASE i = 1 -> p1 [] i = 2 -> p2 [] i = 3 -> p3 [] i = 4 -> p4
                                     [] i = 5 -> p5 [] i = 6 -> p6 [] OTHER -> p7]
<1>1. a \in Things /\ b \in Things /\ c \in Things /\ d \in Things /\ f \in Things /\ g \in Things
  BY DEF Fits, Things
<1>2. /\ seq \in Seq(Things) /\ Len(seq) = 6
      /\ seq[1] = a /\ seq[2] = b /\ seq[3] = c /\ seq[4] = d /\ seq[5] = f /\ seq[6] = g
  BY <1>1
<1>3. /\ P \in [1 .. 7 -> States]
      /\ P[1] = p1 /\ P[2] = p2 /\ P[3] = p3 /\ P[4] = p4 /\ P[5] = p5 /\ P[6] = p6 /\ P[7] = p7
  OBVIOUS
<1>. HIDE DEF seq, P
<1>4. /\ Fits(seq[1], P[1], P[1 + 1]) /\ Fits(seq[2], P[2], P[2 + 1])
      /\ Fits(seq[3], P[3], P[3 + 1]) /\ Fits(seq[4], P[4], P[4 + 1])
      /\ Fits(seq[5], P[5], P[5 + 1]) /\ Fits(seq[6], P[6], P[6 + 1])
  BY <1>2, <1>3
<1>5. ASSUME NEW i \in 1 .. 6 PROVE Fits(seq[i], P[i], P[i + 1])
  <2>1. i = 1 \/ i = 2 \/ i = 3 \/ i = 4 \/ i = 5 \/ i = 6  OBVIOUS
  <2>. QED  BY <2>1, <1>4
<1>6. Path(seq, p1, p7)  BY <1>2, <1>3, <1>5 DEF Path
<1>. QED  BY <1>6 DEF seq

\* An expression fits anywhere in an open block.
LEMMA StraightFits ==
  ASSUME NEW x \in Straight, NEW st \in Seq(Stages), NEW m \in Loose, x \in Light \/ Relaxed(st)
  PROVE  Fits(x, State(st, "open"), State(st, m))
  BY StateOf DEF Fits, Loose, Light

LEMMA ShortCircuitPath ==
  ASSUME NEW n \in ShortCircuits, NEW st \in Seq(Stages), NEW m \in Loose
  PROVE  Path(<<n.kids[1], Item("rhs", n), n.kids[2], Item("merge", n)>>, State(st, "open"), State(st, m))
<1>. DEFINE in == <<"rhs">> \o st
<1>1. in \in Seq(Stages)  BY Pushed DEF Stages
<1>. HIDE DEF in
<1>2. n.kids[1] \in Light /\ n.kids[2] \in Light
  <2>1. n.kids \in Seq(Expressions) /\ Len(n.kids) = 2  BY DEF ShortCircuits, Lists
  <2>. QED  BY <2>1, ElementOfSeq, LightAre
<1>3. /\ State(st, "open") \in States /\ State(st, m) \in States /\ State(in, "open") \in States
      /\ State(st, "open").st = st /\ State(st, m).st = st /\ State(in, "open").st = in
      /\ State(st, "open").mode = "open" /\ State(st, m).mode = m /\ State(in, "open").mode = "open"
  BY <1>1, StateOf DEF Loose
<1>4. Fits(n.kids[1], State(st, "open"), State(st, "open"))
      /\ Fits(n.kids[2], State(in, "open"), State(in, "open"))
  BY <1>1, <1>2, LightAre, StraightFits DEF Loose
<1>5. Fits(Item("rhs", n), State(st, "open"), State(in, "open"))
  <2>1. Shift(Item("rhs", n), State(st, "open"), State(in, "open"))  BY <1>3 DEF Shift, Item, in
  <2>2. RestOf("rhs", ShortCircuits) \subseteq Shifts  BY DEF Shifts
  <2>3. "rhs" \notin Bulky  BY Zenon DEF Bulky
  <2>. QED  BY <2>1, <2>2, <2>3, RestFits
<1>6. Fits(Item("merge", n), State(in, "open"), State(st, m))
  <2>1. Shift(Item("merge", n), State(in, "open"), State(st, m))  BY <1>3 DEF Shift, Item, in
  <2>2. RestOf("merge", ShortCircuits) \subseteq Shifts  BY DEF Shifts
  <2>3. "merge" \notin Bulky  BY Zenon DEF Bulky
  <2>. QED  BY <2>1, <2>2, <2>3, RestFits
<1>. QED  BY <1>3, <1>4, <1>5, <1>6, PathFour

LEMMA TernaryPath ==
  ASSUME NEW n \in Ternaries, NEW st \in Seq(Stages), NEW m \in Loose
  PROVE  Path(<<n.kids[1], Item("arms", n), n.kids[2], Item("else arm", n), n.kids[3], Item("join", n)>>,
              State(st, "open"), State(st, m))
<1>. DEFINE then == <<"then">> \o st
            join == <<"join">> \o st
<1>1. then \in Seq(Stages) /\ join \in Seq(Stages)  BY Pushed DEF Stages
<1>. HIDE DEF then, join
<1>2. n.kids[1] \in Light /\ n.kids[2] \in Light /\ n.kids[3] \in Light
  <2>1. n.kids \in Seq(Expressions) /\ Len(n.kids) = 3  BY DEF Ternaries, Lists
  <2>. QED  BY <2>1, ElementOfSeq, LightAre
<1>3. /\ State(st, "open") \in States /\ State(st, m) \in States
      /\ State(then, "open") \in States /\ State(join, "open") \in States
      /\ State(st, "open").st = st /\ State(st, m).st = st
      /\ State(st, "open").mode = "open" /\ State(st, m).mode = m
  BY <1>1, StateOf DEF Loose
<1>4. Fits(n.kids[1], State(st, "open"), State(st, "open"))
      /\ Fits(n.kids[2], State(then, "open"), State(then, "open"))
      /\ Fits(n.kids[3], State(join, "open"), State(join, "open"))
  BY <1>1, <1>2, LightAre, StraightFits DEF Loose
<1>5. Fits(Item("arms", n), State(st, "open"), State(then, "open"))
  <2>1. Shift(Item("arms", n), State(st, "open"), State(then, "open"))  BY <1>3 DEF Shift, Item, then
  <2>2. RestOf("arms", Ternaries) \subseteq Shifts  BY DEF Shifts
  <2>3. "arms" \notin Bulky  BY Zenon DEF Bulky
  <2>. QED  BY <2>1, <2>2, <2>3, RestFits
<1>6. Fits(Item("else arm", n), State(then, "open"), State(join, "open"))
  <2>1. Shift(Item("else arm", n), State(then, "open"), State(join, "open"))
    BY <1>3 DEF Shift, Item, then, join
  <2>2. RestOf("else arm", Ternaries) \subseteq Shifts  BY DEF Shifts
  <2>3. "else arm" \notin Bulky  BY Zenon DEF Bulky
  <2>. QED  BY <2>1, <2>2, <2>3, RestFits
<1>7. Fits(Item("join", n), State(join, "open"), State(st, m))
  <2>1. Shift(Item("join", n), State(join, "open"), State(st, m))  BY <1>3 DEF Shift, Item, join
  <2>2. RestOf("join", Ternaries) \subseteq Shifts  BY DEF Shifts
  <2>3. "join" \notin Bulky  BY Zenon DEF Bulky
  <2>. QED  BY <2>1, <2>2, <2>3, RestFits
<1>. QED  BY <1>3, <1>4, <1>5, <1>6, <1>7, PathSix

LEMMA VisitsAre == ASSUME NEW n \in Applications PROVE Visits(n) \in Seq(Expressions)
<1>1. n.kids \in Seq(Expressions)  BY DEF Applications, Columns, Lists
<1>2. CASE n.k = "column"
  <2>1. n \in Columns  BY <1>2 DEF Applications
  <2>2. n.kids[1] \in Expressions  BY <2>1 DEF Columns, Lists
  <2>. QED  BY <1>1, <1>2, <2>2 DEF Visits
<1>3. CASE n.k # "column"  BY <1>1, <1>3 DEF Visits
<1>. QED  BY <1>2, <1>3

LEMMA OperandsPath ==
  ASSUME NEW n \in Applications, NEW st \in Seq(Stages), NEW m \in Loose
  PROVE  Path(Visits(n) \o <<Item("operate", n)>>, State(st, "open"), State(st, m))
<1>1. Visits(n) \in Seq(Straight) /\ Visits(n) \in Seq(Light)
  <2>1. Visits(n) \in Seq(Expressions)  BY VisitsAre
  <2>. QED  BY <2>1, SeqMonotonic, LightAre
<1>2. Item("operate", n) \in Straight /\ Item("operate", n) \in Light
  <2>1. RestOf("operate", Applications) \subseteq Straight  BY DEF Straight
  <2>2. Item("operate", n) \in Straight  BY <2>1, StraightRest
  <2>. QED  BY <2>2 DEF Light, Item, Bulky
<1>3. Fits(Item("operate", n), State(st, "open"), State(st, m))  BY <1>2, StraightFits
<1>4. State(st, m) \in States  BY StateOf DEF Loose
<1>. QED  BY <1>1, <1>3, <1>4, StraightThen

\* Two straight items, or one.
LEMMA StraightTwo ==
  ASSUME NEW x \in Straight, NEW y \in Straight, NEW st \in Seq(Stages), NEW m \in Loose,
         {x, y} \subseteq Light \/ Relaxed(st)
  PROVE  Path(<<x, y>>, State(st, "open"), State(st, m))
<1>1. State(st, "open") \in States /\ State(st, m) \in States  BY StateOf DEF Loose
<1>. QED  BY <1>1, StraightFits, PathTwo DEF Loose

LEMMA StraightOne ==
  ASSUME NEW x \in Straight, NEW st \in Seq(Stages), NEW m \in Loose, x \in Light \/ Relaxed(st)
  PROVE  Path(<<x>>, State(st, "open"), State(st, m))
<1>1. State(st, "open") \in States /\ State(st, m) \in States  BY StateOf DEF Loose
<1>. QED  BY <1>1, StraightFits, PathOne

LEMMA StoreIsLight ==
  ASSUME NEW n \in Stores \cup Arrays PROVE Item("store", n) \in Light
<1>1. RestOf("store", Stores \cup Arrays) \subseteq Straight  BY DEF Straight
<1>2. Item("store", n) \in Straight  BY <1>1, StraightRest
<1>. QED  BY <1>2 DEF Light, Item, Bulky

LEMMA ElementsIsLight == ASSUME NEW n \in Arrays PROVE Elements(n) \in Light
<1>1. Elements(n) \in Applications  BY DEF Elements, Arrays, Applications, Operations, NoneOrName
<1>. QED  BY <1>1 DEF Straight, Light, Applications, Columns, Operations, Bulky

LEMMA HeaderPath ==
  ASSUME NEW n \in Loops, NEW st \in Seq(Stages), NEW m \in Loose, Relaxed(st)
  PROVE  Path(n.init \o <<Item("header", n)>>, State(st, "open"), State(st, m))
         /\ Path(<<Item("header", n)>>, State(st, "open"), State(st, m))
<1>1. n.init \in Seq(Straight)
  <2>1. n.init \in Seq(Headers)  BY DEF Loops, Lists
  <2>. QED  BY <2>1, SeqMonotonic, HeaderIsStraight
<1>2. Item("header", n) \in Straight
  <2>1. RestOf("header", Loops) \subseteq Straight  BY DEF Straight
  <2>. QED  BY <2>1, StraightRest
<1>. QED  BY <1>1, <1>2, StateOf, StraightFits, StraightThen, StraightOne DEF Loose

\* The condition of a loop, its body and what leads to the next iteration.
LEMMA LoopPath ==
  ASSUME NEW n \in Loops, NEW st \in Seq(Stages), NEW m \in Loose, Relaxed(st)
  PROVE  Path(n.cond \o <<Item("body", n), n.body, Item("latch", n)>>,
              State(<<"cond">> \o st, "open"), State(st, m))
<1>. DEFINE cond == <<"cond">> \o st
            body == <<"body">> \o st
            b == Item("body", n)
            l == Item("latch", n)
<1>1. cond \in Seq(Stages) /\ body \in Seq(Stages) /\ Relaxed(body)
  BY Pushed, RelaxedPush DEF Stages, Firm, Choosing
<1>. HIDE DEF cond, body
<1>2. n.cond \in Seq(Straight) /\ n.cond \in Seq(Light)
  <2>1. n.cond \in Seq(Expressions)  BY DEF Loops, Lists
  <2>. QED  BY <2>1, SeqMonotonic, LightAre
<1>3. /\ State(cond, "open") \in States /\ State(body, "open") \in States
      /\ State(body, "any") \in States /\ State(st, m) \in States
      /\ State(body, "any").st = body /\ State(body, "any").mode = "any"
      /\ State(st, m).st = st /\ State(st, m).mode = m
  BY <1>1, StateOf DEF Loose
<1>4. Fits(b, State(cond, "open"), State(body, "open"))
  <2>1. Shift(b, State(cond, "open"), State(body, "open"))  BY DEF Shift, Item, cond, body
  <2>2. RestOf("body", Loops) \subseteq Shifts  BY DEF Shifts
  <2>3. "body" \notin Bulky  BY Zenon DEF Bulky
  <2>. QED  BY <2>1, <2>2, <2>3, RestFits
<1>5. Fits(n.body, State(body, "open"), State(body, "any"))
  BY <1>1, StatementFits DEF Loops
<1>6. Fits(l, State(body, "any"), State(st, m))
  <2>1. Shift(l, State(body, "any"), State(st, m))  BY <1>3 DEF Shift, Item, body, Loose
  <2>2. RestOf("latch", Loops) \subseteq Shifts  BY DEF Shifts
  <2>3. "latch" \notin Bulky  BY Zenon DEF Bulky
  <2>. QED  BY <2>1, <2>2, <2>3, RestFits
<1>. HIDE DEF b, l
<1>7. Path(<<n.body, l>>, State(body, "open"), State(st, m))  BY <1>3, <1>5, <1>6, PathTwo
<1>8. Path(<<b>> \o <<n.body, l>>, State(cond, "open"), State(st, m))
  BY <1>3, <1>4, <1>7, PathOne, PathConcat
<1>9. <<b>> \o <<n.body, l>> = <<b, n.body, l>>  BY TripleConcat
<1>10. Path(n.cond \o <<b, n.body, l>>, State(cond, "open"), State(st, m))
  BY <1>1, <1>2, <1>8, <1>9, StraightPath, PathConcat
<1>. QED  BY <1>10 DEF b, l, cond

LEMMA LatchPath ==
  ASSUME NEW n \in Loops, NEW st \in Seq(Stages), NEW m \in Loose
  PROVE  Path(n.inc \o <<Item("back", n)>>, State(<<"inc">> \o st, "open"), State(st, m))
<1>. DEFINE inc == <<"inc">> \o st
<1>1. inc \in Seq(Stages)  BY Pushed DEF Stages
<1>. HIDE DEF inc
<1>2. n.inc \in Seq(Straight) /\ n.inc \in Seq(Light)
  <2>1. n.inc \in Seq(Steps)  BY DEF Loops, Lists
  <2>. QED  BY <2>1, SeqMonotonic, LightAre
<1>3. State(st, m) \in States /\ State(st, m).st = st /\ State(st, m).mode = m  BY StateOf DEF Loose
<1>4. Fits(Item("back", n), State(inc, "open"), State(st, m))
  <2>1. Shift(Item("back", n), State(inc, "open"), State(st, m))  BY <1>3 DEF Shift, Item, inc
  <2>2. RestOf("back", Loops) \subseteq Shifts  BY DEF Shifts
  <2>3. "back" \notin Bulky  BY Zenon DEF Bulky
  <2>. QED  BY <2>1, <2>2, <2>3, RestFits
<1>5. Path(n.inc \o <<Item("back", n)>>, State(inc, "open"), State(st, m))
  BY <1>1, <1>2, <1>3, <1>4, StraightThen
<1>. QED  BY <1>5 DEF inc

LEMMA FirstArmPath ==
  ASSUME NEW n \in Ifs, NEW st \in Seq(Stages), NEW m \in Loose, Relaxed(st)
  PROVE  Path(<<n.arms[1], Item("else", n)>>, State(<<FirstArm(n)>> \o st, "open"), State(st, m))
<1>. DEFINE in == <<FirstArm(n)>> \o st
<1>1. in \in Seq(Stages) /\ Relaxed(in)
  <2>1. FirstArm(n) \in Stages /\ FirstArm(n) \notin Firm  BY DEF FirstArm, Stages, Firm, Choosing
  <2>. QED  BY <2>1, Pushed, RelaxedPush
<1>2. n.arms[1] \in Statements
  <2>1. n.arms \in Seq(Statements) /\ Len(n.arms) \in {1, 2}  BY DEF Ifs, Lists
  <2>. QED  BY <2>1, ElementOfSeq
<1>. HIDE DEF in
<1>3. /\ State(in, "open") \in States /\ State(in, "any") \in States /\ State(st, m) \in States
      /\ State(in, "any").st = in /\ State(in, "any").mode = "any"
      /\ State(st, m).st = st /\ State(st, m).mode = m
  BY <1>1, StateOf DEF Loose
<1>4. Fits(Item("else", n), State(in, "any"), State(st, m))
  <2>1. Shift(Item("else", n), State(in, "any"), State(st, m))  BY <1>3 DEF Shift, Item, in, Loose
  <2>2. RestOf("else", Ifs) \subseteq Shifts  BY DEF Shifts
  <2>. QED  BY <2>1, <2>2, <1>1, <1>3, RestFits
<1>5. Path(<<n.arms[1], Item("else", n)>>, State(in, "open"), State(st, m))
  BY <1>1, <1>2, <1>3, <1>4, StatementFits, PathTwo
<1>. QED  BY <1>5 DEF in

LEMMA SecondArmPath ==
  ASSUME NEW n \in Ifs, Len(n.arms) = 2, NEW st \in Seq(Stages), NEW m \in Loose, Relaxed(st)
  PROVE  Path(<<n.arms[2]>> \o <<Item("ifend", n)>>, State(<<"arm2">> \o st, "open"), State(st, m))
<1>. DEFINE in == <<"arm2">> \o st
<1>1. in \in Seq(Stages) /\ Relaxed(in)  BY Pushed, RelaxedPush DEF Stages, Firm, Choosing
<1>2. n.arms[2] \in Statements
  <2>1. n.arms \in Seq(Statements)  BY DEF Ifs, Lists
  <2>. QED  BY <2>1, ElementOfSeq
<1>. HIDE DEF in
<1>3. /\ State(in, "open") \in States /\ State(in, "any") \in States /\ State(st, m) \in States
      /\ State(in, "any").st = in /\ State(in, "any").mode = "any"
      /\ State(st, m).st = st /\ State(st, m).mode = m
  BY <1>1, StateOf DEF Loose
<1>4. Fits(Item("ifend", n), State(in, "any"), State(st, m))
  <2>1. Shift(Item("ifend", n), State(in, "any"), State(st, m))  BY <1>3 DEF Shift, Item, in, Loose
  <2>2. RestOf("ifend", Ifs) \subseteq Shifts  BY DEF Shifts
  <2>3. "ifend" \notin Bulky  BY Zenon DEF Bulky
  <2>. QED  BY <2>1, <2>2, <2>3, RestFits
<1>5. Path(<<n.arms[2], Item("ifend", n)>>, State(in, "open"), State(st, m))
  BY <1>1, <1>2, <1>3, <1>4, StatementFits, PathTwo
<1>. QED  BY <1>5, PairConcat DEF in

LEMMA OnlyArmPath ==
  ASSUME NEW n \in Ifs, NEW st \in Seq(Stages), NEW m \in Loose
  PROVE  Path(<<>> \o <<Item("ifend", n)>>, State(<<"one">> \o st, "joined"), State(st, m))
<1>. DEFINE in == <<"one">> \o st
<1>1. in \in Seq(Stages)  BY Pushed DEF Stages
<1>. HIDE DEF in
<1>2. State(in, "joined") \in States /\ State(st, m) \in States
      /\ State(st, m).st = st /\ State(st, m).mode = m
  BY <1>1, StateOf DEF Loose
<1>3. Fits(Item("ifend", n), State(in, "joined"), State(st, m))
  <2>1. Shift(Item("ifend", n), State(in, "joined"), State(st, m))  BY <1>2 DEF Shift, Item, in
  <2>2. RestOf("ifend", Ifs) \subseteq Shifts  BY DEF Shifts
  <2>3. "ifend" \notin Bulky  BY Zenon DEF Bulky
  <2>. QED  BY <2>1, <2>2, <2>3, RestFits
<1>4. Path(<<Item("ifend", n)>>, State(in, "joined"), State(st, m))  BY <1>2, <1>3, PathOne
<1>5. Path(<<>> \o <<Item("ifend", n)>>, State(in, "joined"), State(st, m))
  BY <1>2, <1>4, PathEmpty, PathConcat
<1>. QED  BY <1>5 DEF in

LEMMA ReturnPath ==
  ASSUME NEW n \in Returns, NEW st \in Seq(Stages)
  PROVE  Path(n.e \o <<Item("ret", n)>>, State(st, "open"), State(st, "any"))
<1>1. n.e \in Seq(Straight) /\ n.e \in Seq(Light)
  <2>1. n.e \in Seq(Expressions)  BY DEF Returns, Lists
  <2>. QED  BY <2>1, SeqMonotonic, LightAre
<1>2. Item("ret", n) \in Leaving /\ Item("ret", n).k \notin Bulky
  BY DEF Leaving, Item, RestOf, Bulky
<1>3. Fits(Item("ret", n), State(st, "open"), State(st, "any"))  BY <1>2, StateOf DEF Fits
<1>. QED  BY <1>1, <1>3, StateOf, StraightThen

\* A block and what is left of it.
LEMMA BlockPath ==
  ASSUME NEW n \in BlockNodes, n.body # <<>>, NEW st \in Seq(Stages), Relaxed(st)
  PROVE  Path(<<Head(n.body), [n EXCEPT !.body = Tail(@)]>>, State(st, "open"), State(st, "any"))
<1>1. n.body \in Seq(Statements)  BY DEF BlockNodes
<1>2. Head(n.body) \in Statements /\ Tail(n.body) \in Seq(Statements)  BY <1>1, HeadTailProperties
<1>3. [n EXCEPT !.body = Tail(@)] \in BlockNodes  BY <1>2 DEF BlockNodes
<1>4. Fits([n EXCEPT !.body = Tail(@)], State(st, "any"), State(st, "any"))
  BY <1>3, StateOf DEF Fits, Loose
<1>. QED  BY <1>2, <1>4, StatementFits, StateOf, PathTwo

-----------------------------------------------------------------------------
(* Steps that begin a construct. *)

LEMMA BasicBlockIs ==
  ASSUME NEW name \in Labelled, NEW of \in Nat
  PROVE  BasicBlock(name, of) \in Block3({}) /\ BasicBlock(name, of).code = <<>>
  BY DEF BasicBlock, Block3

NewlyBegun(new) == new \in Seq(Block3({})) /\ \A i \in DOMAIN new : new[i].code = <<>>

LEMMA NewTwo ==
  ASSUME NEW a, NEW b, NEW of \in Nat, a \in Labelled, b \in Labelled
  PROVE  /\ NewlyBegun(<<BasicBlock(a, of), BasicBlock(b, of)>>)
         /\ Len(<<BasicBlock(a, of), BasicBlock(b, of)>>) = 2
<1>. DEFINE x == BasicBlock(a, of)
            y == BasicBlock(b, of)
            new == <<x, y>>
<1>1. x \in Block3({}) /\ x.code = <<>> /\ y \in Block3({}) /\ y.code = <<>>  BY BasicBlockIs
<1>. HIDE DEF x, y
<1>2. new \in Seq(Block3({})) /\ Len(new) = 2 /\ DOMAIN new = {1, 2} /\ new[1] = x /\ new[2] = y
  BY <1>1
<1>. HIDE DEF new
<1>3. NewlyBegun(new)  BY <1>1, <1>2 DEF NewlyBegun
<1>. QED  BY <1>2, <1>3 DEF new, x, y

LEMMA NewThree ==
  ASSUME NEW a, NEW b, NEW c, NEW of \in Nat, a \in Labelled, b \in Labelled, c \in Labelled
  PROVE  /\ NewlyBegun(<<BasicBlock(a, of), BasicBlock(b, of), BasicBlock(c, of)>>)
         /\ Len(<<BasicBlock(a, of), BasicBlock(b, of), BasicBlock(c, of)>>) = 3
<1>. DEFINE x == BasicBlock(a, of)
            y == BasicBlock(b, of)
            z == BasicBlock(c, of)
            new == <<x, y, z>>
<1>1. /\ x \in Block3({}) /\ x.code = <<>> /\ y \in Block3({}) /\ y.code = <<>>
      /\ z \in Block3({}) /\ z.code = <<>>
  BY BasicBlockIs
<1>. HIDE DEF x, y, z
<1>2. /\ new \in Seq(Block3({})) /\ Len(new) = 3 /\ DOMAIN new = {1, 2, 3}
      /\ new[1] = x /\ new[2] = y /\ new[3] = z
  BY <1>1
<1>. HIDE DEF new
<1>3. NewlyBegun(new)  BY <1>1, <1>2 DEF NewlyBegun
<1>. QED  BY <1>2, <1>3 DEF new, x, y, z

LEMMA BeginTurned ==
  ASSUME NEW bs, Code(bs), NEW c \in DOMAIN bs, Open(bs, c), NEW ins, Closing(ins),
         NEW new, NewlyBegun(new)
  PROVE  Turned(bs, Emit(bs \o new, c, ins), {c}, Len(new))
<1>. DEFINE mid == bs \o new
<1>1. Turned(bs, mid, {}, Len(new))  BY NewBlocks DEF NewlyBegun
<1>2. Code(mid) /\ c \in DOMAIN mid /\ Open(mid, c) /\ Len(new) \in Nat
  BY <1>1, CodeDomain DEF Turned
<1>. HIDE DEF mid
<1>3. Turned(mid, Emit(mid, c, ins), {c}, 0)  BY <1>2, EmitClosing
<1>4. Turned(bs, Emit(mid, c, ins), {} \cup {c}, Len(new) + 0)  BY <1>1, <1>3, TurnedTwice
<1>. QED  BY <1>2, <1>4 DEF mid

LEMMA RhsStep ==
  ASSUME NEW bs, NEW c, NEW fr, NEW td, NEW G, Underway(bs, c, fr, td, G), td # <<>>, Head(td).k = "rhs",
         NEW ins, Closing(ins),
         NEW G2, Begins(bs, c, fr, G, "rhs", G2)
  PROVE  Underway(Emit(bs \o <<BasicBlock("logical.rhs", c), BasicBlock("logical.merge", c)>>, c, ins),
                  Len(bs) + 1, <<[lhs |-> c, merge |-> Len(bs) + 1 + 1]>> \o fr, <<>> \o Tail(td), G2)
<1>1. PICK p \in States, q \in States, e \in States, own \in Owners(bs, fr) :
        /\ Ledger(bs, c, fr, p.st, own) /\ Known(p.mode, bs, c, fr)
        /\ Fits(Head(td), p, q) /\ Path(Tail(td), q, e) /\ e.st = <<>>
        /\ p.st \in G /\ Legal(bs, c, fr, p.st)
  BY Unfold
<1>2. p.mode = "open" /\ q = State(<<"rhs">> \o p.st, "open")  BY <1>1, ShiftFit DEF Shift
<1>3. /\ Code(bs) /\ c \in DOMAIN bs /\ Open(bs, c) /\ Len(bs) \in Nat /\ c \in Nat
      /\ p.st \in Seq(Stages)
  BY <1>1, <1>2, LedgerTypes DEF Ledger, Known
<1>. DEFINE new == <<BasicBlock("logical.rhs", c), BasicBlock("logical.merge", c)>>
            bs2 == Emit(bs \o new, c, ins)
            f == [lhs |-> c, merge |-> Len(bs) + 1 + 1]
<1>4. NewlyBegun(new) /\ Len(new) = 2
  <2>1. "logical.rhs" \in Labelled /\ "logical.merge" \in Labelled /\ c \in Nat
    BY <1>3 DEF Labelled
  <2>. QED  BY ONLY <2>1, NewTwo, Zenon
<1>5. Turned(bs, bs2, {c}, 2)  BY <1>3, <1>4, BeginTurned
<1>6. f \in Frames /\ "rhs" \in Stages /\ f.merge = Len(bs) + 2 /\ f \in ShortCircuitFrame
  BY <1>3 DEF Frames, ShortCircuitFrame, Stages
<1>. HIDE DEF new, bs2, f
<1>7. {f.merge} \cup {Len(bs) + 1} = Len(bs) + 1 .. Len(bs) + 2 /\ Len(bs) + 1 \notin {f.merge}
  BY <1>3, <1>6
<1>8. Owns("rhs", f, {f.merge}, bs2)  BY <1>6 DEF Owns
<1>9. PICK own2 : Ledger(bs2, Len(bs) + 1, <<f>> \o fr, <<"rhs">> \o p.st, own2)
  BY <1>1, <1>5, <1>6, <1>7, <1>8, Begin
<1>10. Known("open", bs2, Len(bs) + 1, <<f>> \o fr)
  BY <1>3, <1>5, CodeDomain DEF Known, Turned
<1>11. q.st = <<"rhs">> \o p.st /\ q.mode = "open"  BY <1>2 DEF State
<1>12. q.st \in G2  BY <1>1, <1>11 DEF Begins
<1>13. Underway(bs2, Len(bs) + 1, <<f>> \o fr, <<>> \o Tail(td), G2)
  BY <1>1, <1>9, <1>10, <1>11, <1>12, PathEmpty, Fold
<1>. QED  BY <1>13 DEF new, bs2, f

LEMMA ArmsStep ==
  ASSUME NEW bs, NEW c, NEW fr, NEW td, NEW G, Underway(bs, c, fr, td, G), td # <<>>, Head(td).k = "arms",
         NEW ins, Closing(ins),
         NEW G2, Begins(bs, c, fr, G, "then", G2)
  PROVE  Underway(Emit(bs \o <<BasicBlock("ternary.then", c), BasicBlock("ternary.else", c),
                               BasicBlock("ternary.merge", c)>>, c, ins),
                  Len(bs) + 1, <<[first |-> Len(bs), thenEnd |-> 0]>> \o fr, <<>> \o Tail(td), G2)
<1>1. PICK p \in States, q \in States, e \in States, own \in Owners(bs, fr) :
        /\ Ledger(bs, c, fr, p.st, own) /\ Known(p.mode, bs, c, fr)
        /\ Fits(Head(td), p, q) /\ Path(Tail(td), q, e) /\ e.st = <<>>
        /\ p.st \in G /\ Legal(bs, c, fr, p.st)
  BY Unfold
<1>2. p.mode = "open" /\ q = State(<<"then">> \o p.st, "open")  BY <1>1, ShiftFit DEF Shift
<1>3. /\ Code(bs) /\ c \in DOMAIN bs /\ Open(bs, c) /\ Len(bs) \in Nat /\ c \in Nat
      /\ p.st \in Seq(Stages)
  BY <1>1, <1>2, LedgerTypes DEF Ledger, Known
<1>. DEFINE new == <<BasicBlock("ternary.then", c), BasicBlock("ternary.else", c),
                     BasicBlock("ternary.merge", c)>>
            bs2 == Emit(bs \o new, c, ins)
            f == [first |-> Len(bs), thenEnd |-> 0]
<1>4. NewlyBegun(new) /\ Len(new) = 3
  <2>1. "ternary.then" \in Labelled /\ "ternary.else" \in Labelled /\ "ternary.merge" \in Labelled
        /\ c \in Nat
    BY <1>3 DEF Labelled
  <2>. QED  BY ONLY <2>1, NewThree, Zenon
<1>5. Turned(bs, bs2, {c}, 3)  BY <1>3, <1>4, BeginTurned
<1>6. f \in Frames /\ "then" \in Stages /\ f.first = Len(bs) /\ f \in TernaryFrame
  BY <1>3 DEF Frames, TernaryFrame, Stages
<1>. HIDE DEF new, bs2, f
<1>. DEFINE O2 == {f.first + 2, f.first + 3}
<1>7. O2 \cup {Len(bs) + 1} = Len(bs) + 1 .. Len(bs) + 3 /\ Len(bs) + 1 \notin O2
  BY <1>3, <1>6
<1>8. Owns("then", f, O2, bs2)  BY <1>6 DEF Owns
<1>. HIDE DEF O2
<1>9. PICK own2 : Ledger(bs2, Len(bs) + 1, <<f>> \o fr, <<"then">> \o p.st, own2)
  BY <1>1, <1>5, <1>6, <1>7, <1>8, Begin
<1>10. Known("open", bs2, Len(bs) + 1, <<f>> \o fr)
  BY <1>3, <1>5, CodeDomain DEF Known, Turned
<1>11. q.st = <<"then">> \o p.st /\ q.mode = "open"  BY <1>2 DEF State
<1>12. q.st \in G2  BY <1>1, <1>11 DEF Begins
<1>13. Underway(bs2, Len(bs) + 1, <<f>> \o fr, <<>> \o Tail(td), G2)
  BY <1>1, <1>9, <1>10, <1>11, <1>12, PathEmpty, Fold
<1>. QED  BY <1>13 DEF new, bs2, f

-----------------------------------------------------------------------------
(* Steps on the way through a construct, and its last. *)

LEMMA HeadIsFirst ==
  ASSUME NEW bs, NEW c, NEW fr, NEW st, NEW own, Ledger(bs, c, fr, st, own), st # <<>>
  PROVE  Head(fr) = fr[1] /\ fr[1] \in Frames /\ [fr EXCEPT ![1] = fr[1]] = fr
<1>1. fr \in Seq(Frames) /\ fr # <<>>  BY LedgerTypes DEF Ledger
<1>2. Len(fr) \in Nat /\ Len(fr) >= 1 /\ DOMAIN fr = 1 .. Len(fr) /\ fr \in [1 .. Len(fr) -> Frames]
  BY <1>1, EmptySeq, LenProperties
<1>. QED  BY <1>1, <1>2

LEMMA MergeStep ==
  ASSUME NEW bs, NEW c, NEW fr, NEW td, NEW G, Underway(bs, c, fr, td, G), td # <<>>, Head(td).k = "merge",
         NEW ins, Closing(ins), NEW phi, Plain(phi),
         NEW G2, IsOver(bs, c, fr, G, "rhs", G2)
  PROVE  Underway(Emit(Emit(bs, c, ins), Head(fr).merge, phi), Head(fr).merge, Tail(fr),
                  <<>> \o Tail(td), G2)
<1>1. PICK p \in States, q \in States, e \in States, own \in Owners(bs, fr) :
        /\ Ledger(bs, c, fr, p.st, own) /\ Known(p.mode, bs, c, fr)
        /\ Fits(Head(td), p, q) /\ Path(Tail(td), q, e) /\ e.st = <<>>
        /\ p.st \in G /\ Legal(bs, c, fr, p.st)
  BY Unfold
<1>2. p = State(<<"rhs">> \o q.st, "open") /\ q.mode \in Loose  BY <1>1, ShiftFit DEF Shift
<1>3. p.st = <<"rhs">> \o q.st /\ p.mode = "open"  BY <1>2 DEF State
<1>4. p.st # <<>> /\ p.st[1] = "rhs" /\ Tail(p.st) = q.st
  <2>1. q.st \in Seq(Stages) /\ "rhs" \in Stages  BY StateIs DEF Stages
  <2>. QED  BY <2>1, <1>3, Pushed
<1>. DEFINE O == Of(own, Len(fr))
            m == Head(fr).merge
            mid == Emit(bs, c, ins)
            bs2 == Emit(mid, m, phi)
<1>5. Owns("rhs", Head(fr), O, bs) /\ O \subseteq DOMAIN bs /\ c \notin O /\ \A b \in O : Open(bs, b)
  <2>1. Head(fr) = fr[1]  BY <1>1, <1>4, HeadIsFirst
  <2>. QED  BY <2>1, <1>1, <1>4, Innermost
<1>6. O = {m}  BY <1>5 DEF Owns
<1>7. Code(bs) /\ c \in DOMAIN bs /\ Open(bs, c)  BY <1>1, <1>3 DEF Ledger, Known
<1>8. Turned(bs, mid, {c}, 0)  BY <1>7, EmitClosing
<1>9. Code(mid) /\ m \in DOMAIN mid /\ Open(mid, m) /\ {c} \subseteq DOMAIN mid
  BY <1>5, <1>6, <1>7, <1>8, CodeDomain DEF Turned
<1>. HIDE DEF O, m, mid
<1>10. Turned(mid, bs2, {}, 0)  BY <1>9, EmitPlain
<1>. HIDE DEF bs2
<1>11. Turned(bs, bs2, {c} \cup {}, 0 + 0)  BY <1>8, <1>9, <1>10, TurnedTwice
<1>12. Turned(bs, bs2, {c}, 0)  BY <1>11
<1>13. Ended(bs2, c) /\ Open(bs2, m)  BY <1>5, <1>6, <1>12 DEF Turned
<1>14. PICK own2 : Ledger(bs2, m, Tail(fr), Tail(p.st), own2)
  <2>1. Moved(bs, c, O, bs2, {c}, m, {}) /\ m # c  BY <1>5, <1>6, <1>12, <1>13 DEF Moved
  <2>. QED  BY <1>1, <1>4, <2>1, Finish DEF O
<1>15. Known(q.mode, bs2, m, Tail(fr))  BY <1>2, <1>13 DEF Known, Loose
<1>16. q.st \in G2  BY <1>1, <1>4 DEF IsOver
<1>17. Underway(bs2, m, Tail(fr), <<>> \o Tail(td), G2)
  BY <1>1, <1>4, <1>14, <1>15, <1>16, PathEmpty, Fold
<1>. QED  BY <1>17 DEF bs2, mid, m

ElseArm == "else arm"

LEMMA ElseArmStep ==
  ASSUME NEW bs, NEW c, NEW fr, NEW td, NEW G, Underway(bs, c, fr, td, G), td # <<>>, Head(td).k = ElseArm,
         NEW G2, GoesOn(bs, c, fr, G, "then", "join", G2)
  PROVE  Underway(bs, Head(fr).first + 2, [fr EXCEPT ![1].thenEnd = c], <<>> \o Tail(td), G2)
<1>1. PICK p \in States, q \in States, e \in States, own \in Owners(bs, fr) :
        /\ Ledger(bs, c, fr, p.st, own) /\ Known(p.mode, bs, c, fr)
        /\ Fits(Head(td), p, q) /\ Path(Tail(td), q, e) /\ e.st = <<>>
        /\ p.st \in G /\ Legal(bs, c, fr, p.st)
  BY Unfold
<1>2. PICK st \in Seq(Stages) : p = State(<<"then">> \o st, "open") /\ q = State(<<"join">> \o st, "open")
  <2>1. Shift(Head(td), p, q)  BY <1>1, ShiftFit, Zenon DEF ElseArm
  <2>. QED  BY <2>1, Zenon DEF Shift, ElseArm
<1>3. p.st = <<"then">> \o st /\ p.mode = "open" /\ q.st = <<"join">> \o st /\ q.mode = "open"
  BY <1>2 DEF State
<1>4. p.st # <<>> /\ p.st[1] = "then" /\ Tail(p.st) = st
  <2>1. "then" \in Stages  BY DEF Stages
  <2>. QED  BY <2>1, <1>3, Pushed
<1>. DEFINE O == Of(own, Len(fr))
            f == fr[1]
            g == [f EXCEPT !.thenEnd = c]
<1>5. Head(fr) = f /\ f \in Frames  BY <1>1, <1>4, HeadIsFirst
<1>6. Owns("then", f, O, bs) /\ O \subseteq DOMAIN bs /\ c \notin O /\ \A b \in O : Open(bs, b)
  <2>1. Ledger(bs, c, fr, p.st, own) /\ p.st # <<>> /\ p.st[1] = "then"  BY <1>1, <1>4
  <2>2. Owns(p.st[1], f, O, bs) /\ O \subseteq DOMAIN bs /\ c \notin O /\ \A b \in O : Open(bs, b)
    BY ONLY <2>1, Innermost
  <2>. QED  BY ONLY <2>1, <2>2
<1>7. Code(bs) /\ c \in DOMAIN bs /\ Open(bs, c) /\ c \in Nat
  <2>1. Code(bs) /\ c \in DOMAIN bs  BY <1>1 DEF Ledger
  <2>2. Open(bs, c)  BY <1>1, <1>3 DEF Known
  <2>. QED  BY <2>1, <2>2, CodeDomain
<1>. HIDE DEF O, f
<1>8. f \in TernaryFrame /\ O = {f.first + 2, f.first + 3}  BY <1>6 DEF Owns
<1>9. g \in TernaryFrame /\ g \in Frames /\ g.first = f.first /\ g.thenEnd = c /\ f.first \in Nat
  BY <1>7, <1>8 DEF TernaryFrame, Frames
<1>10. [fr EXCEPT ![1].thenEnd = c] = [fr EXCEPT ![1] = g]  BY DEF f
<1>. HIDE DEF g
<1>. DEFINE O2 == {c, f.first + 3}
            c2 == f.first + 2
<1>11. /\ c2 \notin O2 /\ c2 \in O \cup {c} /\ O2 \subseteq O \cup {c} /\ \A b \in O2 : Open(bs, b)
       /\ \A b \in O \cup {c} : b \in O2 \/ b = c2 \/ Ended(bs, b)
  <2>1. c2 # c  BY <1>6, <1>8
  <2>4. c2 # f.first + 3  BY <1>9
  <2>2. c2 \in O /\ f.first + 3 \in O  BY <1>8
  <2>3. O = {c2, f.first + 3}  BY <1>8
  <2>. HIDE DEF c2
  <2>. QED  BY <1>6, <1>7, <2>1, <2>2, <2>3, <2>4
<1>12. Owns("join", g, O2, bs)  BY <1>6, <1>8, <1>9 DEF Owns
<1>13. "join" \in Stages /\ {} \subseteq O \cup {c} /\ Turned(bs, bs, {}, 0)
  BY <1>7, TurnedNone DEF Stages
<1>14. Open(bs, c2)  BY <1>6, <1>8
<1>. HIDE DEF O2, c2
<1>15. PICK own2 : Ledger(bs, c2, [fr EXCEPT ![1] = g], <<"join">> \o Tail(p.st), own2)
  <2>1. Moved(bs, c, O, bs, {}, c2, O2)  BY <1>11, <1>13 DEF Moved
  <2>. QED  BY <1>1, <1>4, <1>9, <1>12, <1>13, <2>1, GoOn DEF O
<1>16. Known(q.mode, bs, c2, [fr EXCEPT ![1] = g])  BY <1>3, <1>14 DEF Known
<1>17. q.st \in G2  BY <1>1, <1>3, <1>4 DEF GoesOn
<1>18. Underway(bs, c2, [fr EXCEPT ![1] = g], <<>> \o Tail(td), G2)
  BY <1>1, <1>3, <1>4, <1>15, <1>16, <1>17, PathEmpty, Fold
<1>. QED  BY <1>5, <1>10, <1>18 DEF c2

LEMMA JoinStep ==
  ASSUME NEW bs, NEW c, NEW fr, NEW td, NEW G, Underway(bs, c, fr, td, G), td # <<>>, Head(td).k = "join",
         NEW ins, Closing(ins), NEW phi, Plain(phi),
         NEW G2, IsOver(bs, c, fr, G, "join", G2)
  PROVE  LET f == Head(fr)
             m == f.first + 3
         IN  Underway(Emit(Emit(Emit(bs, f.thenEnd, ins), c, ins), m, phi), m, Tail(fr),
                      <<>> \o Tail(td), G2)
<1>1. PICK p \in States, q \in States, e \in States, own \in Owners(bs, fr) :
        /\ Ledger(bs, c, fr, p.st, own) /\ Known(p.mode, bs, c, fr)
        /\ Fits(Head(td), p, q) /\ Path(Tail(td), q, e) /\ e.st = <<>>
        /\ p.st \in G /\ Legal(bs, c, fr, p.st)
  BY Unfold
<1>2. p = State(<<"join">> \o q.st, "open") /\ q.mode \in Loose  BY <1>1, ShiftFit DEF Shift
<1>3. p.st = <<"join">> \o q.st /\ p.mode = "open"  BY <1>2 DEF State
<1>4. p.st # <<>> /\ p.st[1] = "join" /\ Tail(p.st) = q.st
  <2>1. q.st \in Seq(Stages) /\ "join" \in Stages  BY StateIs DEF Stages
  <2>. QED  BY <2>1, <1>3, Pushed
<1>. DEFINE O == Of(own, Len(fr))
            t == Head(fr).thenEnd
            m == Head(fr).first + 3
            one == Emit(bs, t, ins)
            two == Emit(one, c, ins)
            bs2 == Emit(two, m, phi)
<1>5. Owns("join", Head(fr), O, bs) /\ O \subseteq DOMAIN bs /\ c \notin O /\ \A b \in O : Open(bs, b)
  <2>1. Head(fr) = fr[1]  BY <1>1, <1>4, HeadIsFirst
  <2>. QED  BY <2>1, <1>1, <1>4, Innermost
<1>6. O = {t, m} /\ t # m  BY <1>5 DEF Owns
<1>7. Code(bs) /\ c \in DOMAIN bs /\ Open(bs, c)  BY <1>1, <1>3 DEF Ledger, Known
<1>. HIDE DEF O, t, m, one
<1>8. Turned(bs, one, {t}, 0)  BY <1>5, <1>6, <1>7, EmitClosing DEF one
<1>9. Code(one) /\ c \in DOMAIN one /\ Open(one, c) /\ DOMAIN one = DOMAIN bs
  BY <1>5, <1>6, <1>7, <1>8, CodeDomain DEF Turned
<1>. HIDE DEF two
<1>10. Turned(one, two, {c}, 0)  BY <1>9, EmitClosing DEF two
<1>11. Turned(bs, two, {t, c}, 0)
  <2>1. {t} \subseteq DOMAIN one /\ {c} \subseteq DOMAIN bs  BY <1>5, <1>6, <1>7, <1>9
  <2>2. Turned(bs, two, {t} \cup {c}, 0 + 0)  BY <1>8, <1>10, <2>1, TurnedTwice
  <2>3. {t} \cup {c} = {t, c} /\ 0 + 0 = 0  OBVIOUS
  <2>. QED  BY <2>2, <2>3
<1>12. Code(two) /\ m \in DOMAIN two /\ Open(two, m) /\ {t, c} \subseteq DOMAIN two
  BY <1>5, <1>6, <1>7, <1>11, CodeDomain DEF Turned
<1>. HIDE DEF bs2
<1>13. Turned(two, bs2, {}, 0)  BY <1>12, EmitPlain DEF bs2
<1>14. Turned(bs, bs2, {t, c}, 0)
  <2>1. Turned(bs, bs2, {t, c} \cup {}, 0 + 0)  BY <1>11, <1>12, <1>13, TurnedTwice
  <2>2. {t, c} \cup {} = {t, c} /\ 0 + 0 = 0  OBVIOUS
  <2>. QED  BY <2>1, <2>2
<1>15. Ended(bs2, c) /\ Ended(bs2, t) /\ Open(bs2, m)  BY <1>5, <1>6, <1>14 DEF Turned
<1>16. PICK own2 : Ledger(bs2, m, Tail(fr), Tail(p.st), own2)
  <2>1. Moved(bs, c, O, bs2, {t, c}, m, {}) /\ m # c  BY <1>5, <1>6, <1>14, <1>15 DEF Moved
  <2>. QED  BY <1>1, <1>4, <2>1, Finish DEF O
<1>17. Known(q.mode, bs2, m, Tail(fr))  BY <1>2, <1>15 DEF Known, Loose
<1>18. q.st \in G2  BY <1>1, <1>4 DEF IsOver
<1>19. Underway(bs2, m, Tail(fr), <<>> \o Tail(td), G2)
  BY <1>1, <1>4, <1>16, <1>17, <1>18, PathEmpty, Fold
<1>. QED  BY <1>19 DEF bs2, two, one, m, t

LEMMA NewOne ==
  ASSUME NEW a \in Labelled, NEW of \in Nat
  PROVE  NewlyBegun(<<BasicBlock(a, of)>>) /\ Len(<<BasicBlock(a, of)>>) = 1
<1>. DEFINE x == BasicBlock(a, of)
            new == <<x>>
<1>1. x \in Block3({}) /\ x.code = <<>>  BY BasicBlockIs
<1>. HIDE DEF x
<1>2. new \in Seq(Block3({})) /\ Len(new) = 1 /\ DOMAIN new = {1} /\ new[1] = x  BY <1>1
<1>. HIDE DEF new
<1>3. NewlyBegun(new)  BY <1>1, <1>2 DEF NewlyBegun
<1>. QED  BY <1>2, <1>3 DEF new, x

\* A list of new blocks and another.
LEMMA NewConcat ==
  ASSUME NEW a, NEW b, NewlyBegun(a), NewlyBegun(b)
  PROVE  NewlyBegun(a \o b) /\ Len(a \o b) = Len(a) + Len(b)
<1>1. a \in Seq(Block3({})) /\ b \in Seq(Block3({}))  BY DEF NewlyBegun
<1>2. /\ a \o b \in Seq(Block3({})) /\ Len(a \o b) = Len(a) + Len(b)
      /\ \A i \in 1 .. Len(a) + Len(b) : (a \o b)[i] = IF i <= Len(a) THEN a[i] ELSE b[i - Len(a)]
  BY <1>1, ConcatProperties
<1>3. /\ Len(a) \in Nat /\ DOMAIN a = 1 .. Len(a) /\ Len(b) \in Nat /\ DOMAIN b = 1 .. Len(b)
      /\ DOMAIN (a \o b) = 1 .. Len(a) + Len(b)
  BY <1>1, <1>2, LenProperties
<1>4. ASSUME NEW i \in DOMAIN (a \o b) PROVE (a \o b)[i].code = <<>>
  <2>1. CASE i <= Len(a)
    <3>1. i \in DOMAIN a /\ (a \o b)[i] = a[i]  BY <2>1, <1>2, <1>3
    <3>. QED  BY <3>1 DEF NewlyBegun
  <2>2. CASE ~(i <= Len(a))
    <3>1. i - Len(a) \in DOMAIN b /\ (a \o b)[i] = b[i - Len(a)]  BY <2>2, <1>2, <1>3
    <3>. QED  BY <3>1 DEF NewlyBegun
  <2>. QED  BY <2>1, <2>2
<1>. QED  BY <1>2, <1>4 DEF NewlyBegun

LEMMA CodeConcat ==
  ASSUME NEW bs, Code(bs), NEW a, NEW b, NewlyBegun(a), NewlyBegun(b)
  PROVE  (bs \o a) \o b = bs \o (a \o b)
<1>1. PICK S : bs \in Seq(Block3(S))  BY DEF Code
<1>2. Block3({}) \subseteq Block3(S)
  <2>1. \A s \in Seq({}) : s \in Seq(S)  BY SeqMonotonic
  <2>. QED  BY <2>1 DEF Block3
<1>3. a \in Seq(Block3(S)) /\ b \in Seq(Block3(S))  BY <1>2, SeqMonotonic DEF NewlyBegun
<1>. QED  BY <1>1, <1>3, ConcatAssociative

LEMMA NewNone == NewlyBegun(<<>>) /\ Len(<<>>) = 0
  BY DEF NewlyBegun

\* The blocks of an if: an else block only for two arms.
IfBlocks(n, c) ==
  (<<BasicBlock("then", c)>> \o (IF Len(n.arms) = 2 THEN <<BasicBlock("else", c)>> ELSE <<>>))
    \o <<BasicBlock("ifend", c)>>

LEMMA IfBlocksAre ==
  ASSUME NEW n \in Ifs, NEW c \in Nat
  PROVE  NewlyBegun(IfBlocks(n, c)) /\ Len(IfBlocks(n, c)) = Len(n.arms) + 1
<1>. DEFINE x == IF Len(n.arms) = 2 THEN <<BasicBlock("else", c)>> ELSE <<>>
            a == <<BasicBlock("then", c)>>
            b == <<BasicBlock("ifend", c)>>
<1>1. NewlyBegun(a) /\ Len(a) = 1
  <2>1. "then" \in Labelled  BY DEF Labelled
  <2>. QED  BY <2>1, NewOne
<1>2. NewlyBegun(b) /\ Len(b) = 1
  <2>1. "ifend" \in Labelled  BY DEF Labelled
  <2>. QED  BY <2>1, NewOne
<1>3. NewlyBegun(x) /\ Len(x) = Len(n.arms) - 1
  <2>1. "else" \in Labelled  BY DEF Labelled
  <2>2. Len(n.arms) = 1 \/ Len(n.arms) = 2  BY DEF Ifs, Lists
  <2>3. NewlyBegun(<<BasicBlock("else", c)>>) /\ Len(<<BasicBlock("else", c)>>) = 1  BY <2>1, NewOne
  <2>4. CASE Len(n.arms) = 1
    <3>1. x = <<>>  BY <2>4
    <3>. QED  BY <3>1, <2>4, NewNone
  <2>5. CASE Len(n.arms) = 2
    <3>1. x = <<BasicBlock("else", c)>>  BY <2>5
    <3>. QED  BY <3>1, <2>3, <2>5
  <2>. QED  BY <2>2, <2>4, <2>5
<1>. HIDE DEF a, b, x
<1>4. NewlyBegun(a \o x) /\ Len(a \o x) = Len(n.arms)
  <2>1. NewlyBegun(a \o x) /\ Len(a \o x) = Len(a) + Len(x)  BY <1>1, <1>3, NewConcat
  <2>2. Len(n.arms) \in Nat  BY DEF Ifs, Lists
  <2>. QED  BY <2>1, <2>2, <1>1, <1>3
<1>5. NewlyBegun((a \o x) \o b) /\ Len((a \o x) \o b) = Len(n.arms) + 1
  BY <1>2, <1>4, NewConcat
<1>. QED  BY <1>5 DEF IfBlocks, a, b, x

LEMMA ThenStep ==
  ASSUME NEW bs, NEW c, NEW fr, NEW td, NEW G, Underway(bs, c, fr, td, G), td # <<>>, Head(td).k = "then",
         NEW ins, Closing(ins), NEW n, n = Head(td).n,
         NEW G2, n \in Ifs => BeginsBulky(bs, c, fr, G, FirstArm(n), G2)
  PROVE  Underway(Emit(bs \o IfBlocks(n, c), c, ins), Len(bs) + 1,
                  <<[else |-> Len(bs) + 2, end |-> Len(bs) + Len(n.arms) + 1, ends |-> {}]>> \o fr,
                  <<n.arms[1], Item("else", n)>> \o Tail(td), G2)
<1>1. PICK p \in States, q \in States, e \in States, own \in Owners(bs, fr) :
        /\ Ledger(bs, c, fr, p.st, own) /\ Known(p.mode, bs, c, fr)
        /\ Fits(Head(td), p, q) /\ Path(Tail(td), q, e) /\ e.st = <<>>
        /\ p.st \in G /\ Legal(bs, c, fr, p.st)
  BY Unfold
<1>2. /\ Head(td) \in Straight /\ p.mode = "open" /\ q.st = p.st /\ q.mode \in Loose
      /\ Relaxed(p.st)
  BY <1>1, StraightFit DEF Bulky
<1>3. n \in Ifs
  <2>1. Head(td) \in RestOf("then", Ifs)  BY <1>2, StraightKinds
  <2>. QED  BY <2>1 DEF RestOf
<1>4. /\ Code(bs) /\ c \in DOMAIN bs /\ Open(bs, c) /\ Len(bs) \in Nat /\ c \in Nat
      /\ p.st \in Seq(Stages)
  BY <1>1, <1>2, LedgerTypes DEF Ledger, Known
<1>5. n.arms \in Seq(Statements) /\ (Len(n.arms) = 1 \/ Len(n.arms) = 2)  BY <1>3 DEF Ifs, Lists
<1>. DEFINE l == Len(n.arms)
            bs2 == Emit(bs \o IfBlocks(n, c), c, ins)
            f == [else |-> Len(bs) + 2, end |-> Len(bs) + Len(n.arms) + 1, ends |-> {}]
            s == FirstArm(n)
<1>6. Turned(bs, bs2, {c}, l + 1)
  <2>1. NewlyBegun(IfBlocks(n, c)) /\ Len(IfBlocks(n, c)) = l + 1  BY <1>3, <1>4, IfBlocksAre
  <2>. QED  BY <2>1, <1>4, BeginTurned
<1>7. f \in IfFrame /\ f \in Frames /\ s \in Stages
  BY <1>4, <1>5 DEF IfFrame, Frames, Stages, FirstArm
<1>15. f.else = Len(bs) + 2 /\ f.end = Len(bs) + l + 1  OBVIOUS
<1>. HIDE DEF bs2, f
<1>. DEFINE O2 == {f.else, f.end}
<1>8. O2 \cup {Len(bs) + 1} = Len(bs) + 1 .. Len(bs) + (l + 1) /\ Len(bs) + 1 \notin O2
  <2>1. CASE l = 2
    <3>2. l + 1 = 3 /\ f.else = Len(bs) + 2 /\ f.end = Len(bs) + 2 + 1  BY ONLY <2>1, <1>15
    <3>1. O2 = {Len(bs) + 2, Len(bs) + 3} /\ l + 1 = 3  BY <3>2, <1>4
    <3>. HIDE DEF O2, l
    <3>. QED  BY <3>1, <1>4
  <2>2. CASE l = 1
    <3>2. l + 1 = 2 /\ f.else = Len(bs) + 2 /\ f.end = Len(bs) + 1 + 1  BY ONLY <2>2, <1>15
    <3>1. O2 = {Len(bs) + 2} /\ l + 1 = 2  BY <3>2, <1>4
    <3>. HIDE DEF O2, l
    <3>. QED  BY <3>1, <1>4
  <2>. QED  BY <2>1, <2>2, <1>5
<1>9. Owns(s, f, O2, bs2)
  <2>1. CASE l = 2
    <3>2. s = "two"  BY ONLY <2>1 DEF FirstArm
    <3>1. f.else # f.end /\ s = "two"  BY <2>1, <3>2, <1>4, <1>15
    <3>. HIDE DEF s, l
    <3>. QED  BY <3>1, <1>7 DEF Owns
  <2>2. CASE l = 1
    <3>2. f.else = Len(bs) + 2 /\ f.end = Len(bs) + 1 + 1  BY ONLY <2>2, <1>15
    <3>3. s = "one"  BY ONLY <2>2 DEF FirstArm
    <3>1. f.else = f.end /\ s = "one"  BY <3>2, <3>3, <1>4
    <3>. HIDE DEF s, l
    <3>. QED  BY <3>1, <1>7 DEF Owns
  <2>. QED  BY <2>1, <2>2, <1>5
<1>. HIDE DEF O2, l
<1>10. PICK own2 : Ledger(bs2, Len(bs) + 1, <<f>> \o fr, <<s>> \o p.st, own2)
  BY <1>1, <1>6, <1>7, <1>8, <1>9, Begin
<1>11. Known("open", bs2, Len(bs) + 1, <<f>> \o fr)
  <2>1. Len(bs) + 1 \in DOMAIN bs2 /\ Len(bs) + 1 > Len(bs)
    <3>1. Len(bs) + 1 \in DOMAIN bs2  BY <1>10 DEF Ledger
    <3>. QED  BY <3>1, <1>4
  <2>2. Open(bs2, Len(bs) + 1)  BY <1>6, <2>1 DEF Turned
  <2>. QED  BY <2>2 DEF Known
<1>. DEFINE p2 == State(<<s>> \o p.st, "open")
<1>12. p2 \in States /\ p2.st = <<s>> \o p.st /\ p2.mode = "open"
  <2>1. <<s>> \o p.st \in Seq(Stages)  BY <1>4, <1>7, Pushed
  <2>. QED  BY <2>1, StateOf
<1>13. Path(<<n.arms[1], Item("else", n)>>, p2, q)
  <2>1. q = State(p.st, q.mode)  BY <1>2, StateIs
  <2>2. Path(<<n.arms[1], Item("else", n)>>, p2, State(p.st, q.mode))
    BY <1>2, <1>3, <1>4, FirstArmPath
  <2>. QED  BY <2>1, <2>2
<1>16. p2.st \in G2  BY <1>1, <1>2, <1>3, <1>12 DEF BeginsBulky
<1>. HIDE DEF p2, s
<1>17. Underway(bs2, Len(bs) + 1, <<f>> \o fr, <<n.arms[1], Item("else", n)>> \o Tail(td), G2)
  BY <1>1, <1>10, <1>11, <1>12, <1>13, <1>16, Fold
<1>. QED  BY <1>17 DEF bs2, f

\* The first of two arms is through: its end is left for the end of the if.
LEMMA SecondArmStep ==
  ASSUME NEW bs, NEW c, NEW fr, NEW td, NEW G, Underway(bs, c, fr, td, G), td # <<>>, Head(td).k = "else",
         Len(Head(td).n.arms) = 2,
         NEW G2, GoesOn(bs, c, fr, G, "two", "arm2", G2)
  PROVE  Underway(bs, Head(fr).else, [fr EXCEPT ![1].ends = {c}],
                  (<<Head(td).n.arms[2]>> \o <<Item("ifend", Head(td).n)>>) \o Tail(td), G2)
<1>1. PICK p \in States, q \in States, e \in States, own \in Owners(bs, fr) :
        /\ Ledger(bs, c, fr, p.st, own) /\ Known(p.mode, bs, c, fr)
        /\ Fits(Head(td), p, q) /\ Path(Tail(td), q, e) /\ e.st = <<>>
        /\ p.st \in G /\ Legal(bs, c, fr, p.st)
  BY Unfold
<1>2. /\ Head(td) \in Shifts /\ p.st = <<"two">> \o q.st /\ q.mode \in Loose
      /\ Head(td).n \in Ifs /\ Relaxed(p.st)
  <2>1. Head(td) \in Shifts /\ Shift(Head(td), p, q) /\ Relaxed(p.st)  BY <1>1, ShiftFit DEF Bulky
  <2>2. p.st = <<FirstArm(Head(td).n)>> \o q.st /\ q.mode \in Loose  BY <2>1 DEF Shift
  <2>. QED  BY <2>1, <2>2, ShiftKinds DEF FirstArm
<1>3. /\ q.st \in Seq(Stages) /\ p.st # <<>> /\ p.st[1] = "two" /\ Tail(p.st) = q.st
      /\ Relaxed(q.st)
  <2>1. q.st \in Seq(Stages) /\ "two" \in Stages  BY StateIs DEF Stages
  <2>. QED  BY <2>1, <1>2, Pushed, RelaxedPush
<1>. DEFINE n == Head(td).n
            items == <<n.arms[2]>> \o <<Item("ifend", n)>>
            O == Of(own, Len(fr))
            f == fr[1]
            g == [f EXCEPT !.ends = {c}]
<1>4. Head(fr) = f /\ f \in Frames  BY <1>1, <1>3, HeadIsFirst
<1>5. Owns("two", f, O, bs) /\ O \subseteq DOMAIN bs /\ c \notin O /\ \A b \in O : Open(bs, b)
  <2>1. Ledger(bs, c, fr, p.st, own) /\ p.st # <<>> /\ p.st[1] = "two"  BY <1>1, <1>3
  <2>2. Owns(p.st[1], f, O, bs) /\ O \subseteq DOMAIN bs /\ c \notin O /\ \A b \in O : Open(bs, b)
    BY ONLY <2>1, Innermost
  <2>. QED  BY ONLY <2>1, <2>2
<1>6. Code(bs) /\ c \in DOMAIN bs /\ (Open(bs, c) \/ Ended(bs, c)) /\ c \in Nat
  <2>1. Code(bs) /\ c \in DOMAIN bs /\ (Open(bs, c) \/ Ended(bs, c))  BY <1>1 DEF Ledger
  <2>. QED  BY <2>1, CodeDomain
<1>. HIDE DEF n, items, O, f
<1>7. f \in IfFrame /\ O = {f.else, f.end} /\ f.else # f.end  BY <1>5 DEF Owns
<1>8. g \in IfFrame /\ g \in Frames /\ g.else = f.else /\ g.end = f.end /\ g.ends = {c}
  BY <1>6, <1>7 DEF IfFrame, Frames
<1>9. [fr EXCEPT ![1].ends = {c}] = [fr EXCEPT ![1] = g]  BY DEF f
<1>. HIDE DEF g
<1>. DEFINE O2 == {f.end} \cup (IF Open(bs, c) THEN {c} ELSE {})
<1>10. /\ f.else \notin O2 /\ f.else \in O \cup {c} /\ O2 \subseteq O \cup {c}
       /\ \A b \in O2 : Open(bs, b)
       /\ \A b \in O \cup {c} : b \in O2 \/ b = f.else \/ Ended(bs, b)
  BY <1>5, <1>6, <1>7
<1>11. Owns("arm2", g, O2, bs)
  <2>1. /\ g.end \in O2 /\ g.end \notin g.ends /\ O2 \subseteq {g.end} \cup g.ends
        /\ g.ends \subseteq DOMAIN bs /\ \A b \in g.ends : b \in O2 \/ Ended(bs, b)
    BY <1>5, <1>6, <1>7, <1>8
  <2>. QED  BY <2>1, <1>8 DEF Owns
<1>. HIDE DEF O2
<1>12. PICK own2 : Ledger(bs, f.else, [fr EXCEPT ![1] = g], <<"arm2">> \o Tail(p.st), own2)
  <2>1. Moved(bs, c, O, bs, {}, f.else, O2)  BY <1>6, <1>10, TurnedNone DEF Moved
  <2>2. "arm2" \in Stages  BY DEF Stages
  <2>. QED  BY <1>1, <1>3, <1>8, <1>11, <2>1, <2>2, GoOn DEF O
<1>. DEFINE p2 == State(<<"arm2">> \o q.st, "open")
<1>13. p2 \in States /\ p2.st = <<"arm2">> \o q.st /\ p2.mode = "open"
  <2>1. <<"arm2">> \o q.st \in Seq(Stages)  BY <1>3, Pushed DEF Stages
  <2>. QED  BY <2>1, StateOf
<1>14. Path(items, p2, q)
  <2>1. n \in Ifs /\ Len(n.arms) = 2  BY <1>2 DEF n
  <2>2. q = State(q.st, q.mode)  BY StateIs
  <2>3. Path(<<n.arms[2]>> \o <<Item("ifend", n)>>, p2, State(q.st, q.mode))
    BY <1>2, <1>3, <2>1, SecondArmPath
  <2>. QED  BY <2>2, <2>3 DEF items
<1>15. Known("open", bs, f.else, [fr EXCEPT ![1] = g])  BY <1>5, <1>7 DEF Known
<1>16. p2.st \in G2  BY <1>1, <1>3, <1>13 DEF GoesOn
<1>. HIDE DEF p2
<1>17. Underway(bs, f.else, [fr EXCEPT ![1] = g], items \o Tail(td), G2)
  BY <1>1, <1>3, <1>12, <1>13, <1>14, <1>15, <1>16, Fold
<1>. QED  BY <1>4, <1>9, <1>17 DEF items, n

\* The only arm is through.
LEMMA OnlyArmStep ==
  ASSUME NEW bs, NEW c, NEW fr, NEW td, NEW G, Underway(bs, c, fr, td, G), td # <<>>, Head(td).k = "else",
         Len(Head(td).n.arms) # 2,
         NEW G2, GoesOn(bs, c, fr, G, "one", "one", G2)
  PROVE  Underway(bs, c, [fr EXCEPT ![1].ends = {c}],
                  (<<>> \o <<Item("ifend", Head(td).n)>>) \o Tail(td), G2)
<1>1. PICK p \in States, q \in States, e \in States, own \in Owners(bs, fr) :
        /\ Ledger(bs, c, fr, p.st, own) /\ Known(p.mode, bs, c, fr)
        /\ Fits(Head(td), p, q) /\ Path(Tail(td), q, e) /\ e.st = <<>>
        /\ p.st \in G /\ Legal(bs, c, fr, p.st)
  BY Unfold
<1>2. /\ Head(td) \in Shifts /\ p.st = <<"one">> \o q.st /\ q.mode \in Loose
      /\ Head(td).n \in Ifs
  <2>1. Head(td) \in Shifts /\ Shift(Head(td), p, q)  BY <1>1, ShiftFit
  <2>2. p.st = <<FirstArm(Head(td).n)>> \o q.st /\ q.mode \in Loose  BY <2>1 DEF Shift
  <2>. QED  BY <2>1, <2>2, ShiftKinds DEF FirstArm
<1>3. q.st \in Seq(Stages) /\ p.st # <<>> /\ p.st[1] = "one" /\ Tail(p.st) = q.st
  <2>1. q.st \in Seq(Stages) /\ "one" \in Stages  BY StateIs DEF Stages
  <2>. QED  BY <2>1, <1>2, Pushed
<1>. DEFINE n == Head(td).n
            items == <<>> \o <<Item("ifend", n)>>
            O == Of(own, Len(fr))
            f == fr[1]
            g == [f EXCEPT !.ends = {c}]
<1>4. Head(fr) = f /\ f \in Frames  BY <1>1, <1>3, HeadIsFirst
<1>5. Owns("one", f, O, bs) /\ O \subseteq DOMAIN bs /\ c \notin O /\ \A b \in O : Open(bs, b)
  <2>1. Ledger(bs, c, fr, p.st, own) /\ p.st # <<>> /\ p.st[1] = "one"  BY <1>1, <1>3
  <2>2. Owns(p.st[1], f, O, bs) /\ O \subseteq DOMAIN bs /\ c \notin O /\ \A b \in O : Open(bs, b)
    BY ONLY <2>1, Innermost
  <2>. QED  BY ONLY <2>1, <2>2
<1>6. Code(bs) /\ c \in DOMAIN bs /\ c \in Nat
  <2>1. Code(bs) /\ c \in DOMAIN bs  BY <1>1 DEF Ledger
  <2>. QED  BY <2>1, CodeDomain
<1>. HIDE DEF n, items, O, f
<1>7. f \in IfFrame /\ O = {f.end}  BY <1>5 DEF Owns
<1>8. g \in IfFrame /\ g \in Frames /\ g.end = f.end /\ g.ends = {c}
  BY <1>6, <1>7 DEF IfFrame, Frames
<1>9. [fr EXCEPT ![1].ends = {c}] = [fr EXCEPT ![1] = g]  BY DEF f
<1>. HIDE DEF g
<1>10. Owns("one", g, O, bs)  BY <1>7, <1>8 DEF Owns
<1>12. PICK own2 : Ledger(bs, c, [fr EXCEPT ![1] = g], <<"one">> \o Tail(p.st), own2)
  <2>1. Moved(bs, c, O, bs, {}, c, O)  BY <1>5, <1>6, TurnedNone DEF Moved
  <2>2. "one" \in Stages  BY DEF Stages
  <2>. QED  BY <1>1, <1>3, <1>8, <1>10, <2>1, <2>2, GoOn DEF O
<1>. DEFINE p2 == State(<<"one">> \o q.st, "joined")
<1>13. p2 \in States /\ p2.st = <<"one">> \o q.st /\ p2.mode = "joined"
  <2>1. <<"one">> \o q.st \in Seq(Stages)  BY <1>3, Pushed DEF Stages
  <2>. QED  BY <2>1, StateOf
<1>14. Path(items, p2, q)
  <2>1. n \in Ifs  BY <1>2 DEF n
  <2>2. q = State(q.st, q.mode)  BY StateIs
  <2>3. Path(<<>> \o <<Item("ifend", n)>>, p2, State(q.st, q.mode))
    BY <1>2, <1>3, <2>1, OnlyArmPath
  <2>. QED  BY <2>2, <2>3 DEF items
<1>15. Known("joined", bs, c, [fr EXCEPT ![1] = g])
  <2>. DEFINE fr2 == [fr EXCEPT ![1] = g]
  <2>1. fr \in Seq(Frames) /\ Len(fr) \in Nat /\ Len(fr) >= 1
    BY <1>1, <1>3, LedgerTypes DEF Ledger
  <2>2. fr2 \in Seq(Frames) /\ Len(fr2) = Len(fr) /\ fr2[1] = g  BY <1>8, <2>1, ExceptSeq
  <2>3. fr2 # <<>>  BY <2>1, <2>2, EmptySeq
  <2>. QED  BY <1>8, <2>2, <2>3 DEF Known
<1>16. p2.st \in G2  BY <1>1, <1>3, <1>13 DEF GoesOn
<1>. HIDE DEF p2
<1>17. Underway(bs, c, [fr EXCEPT ![1] = g], items \o Tail(td), G2)
  BY <1>1, <1>3, <1>12, <1>13, <1>14, <1>15, <1>16, Fold
<1>. QED  BY <1>9, <1>17 DEF items, n

\* Several open blocks are ended by one instruction each.
CloseAll(bs, W, i) ==
  [b \in DOMAIN bs |-> IF b \in W THEN [bs[b] EXCEPT !.code = Append(@, i)] ELSE bs[b]]

LEMMA CloseAllTurned ==
  ASSUME NEW bs, Code(bs), NEW W, W \subseteq DOMAIN bs, \A b \in W : Open(bs, b), NEW i, Ends(i)
  PROVE  Turned(bs, CloseAll(bs, W, i), W, 0)
<1>. DEFINE bs2 == CloseAll(bs, W, i)
<1>1. PICK S : bs \in Seq(Block3(S))  BY DEF Code
<1>. DEFINE U == S \cup {i}
<1>2. Len(bs) \in Nat /\ DOMAIN bs = 1 .. Len(bs)  BY CodeDomain
<1>3. Block3(S) \subseteq Block3(U)
  <2>1. \A s \in Seq(S) : s \in Seq(U)  BY SeqMonotonic
  <2>. QED  BY <2>1 DEF Block3
<1>4. ASSUME NEW b \in DOMAIN bs
      PROVE  /\ bs2[b] \in Block3(U)
             /\ b \in W => bs2[b].code = Append(bs[b].code, i)
             /\ b \notin W => bs2[b] = bs[b]
  <2>1. bs[b] \in Block3(S) /\ bs[b] \in Block3(U)  BY <1>1, <1>2, <1>3, ElementOfSeq
  <2>2. bs[b].code \in Seq(U)  BY <2>1 DEF Block3
  <2>3. Append(bs[b].code, i) \in Seq(U)  BY <2>2, AppendProperties
  <2>4. b \in W => bs2[b] = [bs[b] EXCEPT !.code = Append(@, i)]  BY DEF CloseAll
  <2>5. b \notin W => bs2[b] = bs[b]  BY DEF CloseAll
  <2>6. [bs[b] EXCEPT !.code = Append(@, i)] \in Block3(U)
        /\ [bs[b] EXCEPT !.code = Append(@, i)].code = Append(bs[b].code, i)
    BY <2>1, <2>3 DEF Block3
  <2>. HIDE DEF bs2
  <2>. QED  BY <2>1, <2>4, <2>5, <2>6
<1>5. bs2 = [b \in 1 .. Len(bs) |-> bs2[b]]  BY <1>2 DEF CloseAll
<1>. HIDE DEF bs2, U
<1>6. bs2 \in Seq(Block3(U)) /\ DOMAIN bs2 = DOMAIN bs
  <2>1. bs2 \in [1 .. Len(bs) -> Block3(U)]  BY <1>2, <1>4, <1>5
  <2>2. bs2 \in Seq(Block3(U))  BY <1>2, <2>1, SeqDef
  <2>. QED  BY <1>2, <2>1, <2>2
<1>7. Len(bs2) = Len(bs)
  <2>1. DOMAIN bs2 = 1 .. Len(bs2) /\ Len(bs2) \in Nat  BY <1>6, LenProperties
  <2>. QED  BY <1>2, <1>6, <2>1
<1>8. ASSUME NEW b \in W PROVE Ended(bs2, b)
  <2>. DEFINE d == bs[b].code
  <2>1. PICK T : d \in Seq(T)  BY CodeOf
  <2>2. d \in Seq(T \cup {i}) /\ i \in T \cup {i}  BY <2>1, SeqMonotonic
  <2>3. bs2[b].code = Append(d, i)  BY <1>4
  <2>4. \A j \in DOMAIN d : ~Ends(d[j])  BY DEF Open
  <2>. HIDE DEF d
  <2>5. /\ Len(Append(d, i)) = Len(d) + 1 /\ Append(d, i) \in Seq(T \cup {i})
        /\ \A j \in 1 .. Len(d) : Append(d, i)[j] = d[j]
        /\ Append(d, i)[Len(d) + 1] = i
    BY <2>2, AppendProperties
  <2>6. Len(d) \in Nat /\ DOMAIN d = 1 .. Len(d) /\ DOMAIN Append(d, i) = 1 .. Len(d) + 1
    BY <2>2, <2>5, LenProperties
  <2>7. ASSUME NEW j \in 1 .. Len(d) + 1 PROVE Ends(Append(d, i)[j]) <=> j = Len(d) + 1
    <3>1. CASE j = Len(d) + 1  BY <3>1, <2>5
    <3>2. CASE j # Len(d) + 1
      <4>1. j \in 1 .. Len(d)  BY <3>2, <2>6
      <4>. QED  BY <3>2, <4>1, <2>4, <2>5, <2>6
    <3>. QED  BY <3>1, <3>2
  <2>. QED  BY <2>3, <2>5, <2>6, <2>7 DEF Ended
<1>9. ASSUME NEW b \in DOMAIN bs, b \notin W
      PROVE  (Open(bs, b) => Open(bs2, b)) /\ (Ended(bs, b) => Ended(bs2, b))
  BY <1>4, <1>9 DEF Open, Ended
<1>10. \A b \in DOMAIN bs2 : ~(b > Len(bs))  BY <1>2, <1>6
<1>. QED  BY <1>2, <1>6, <1>7, <1>8, <1>9, <1>10 DEF Turned, Code, bs2

\* The arms that did not leave go on behind the if.
LEMMA EndStep ==
  ASSUME NEW bs, NEW c, NEW fr, NEW td, NEW G, Underway(bs, c, fr, td, G), td # <<>>, Head(td).k = "ifend",
         NEW i, Ends(i), NEW W, W = {b \in Head(fr).ends \cup {c} : ~Terminated(bs, b)},
         NEW G2, EndsArms(bs, c, fr, G, G2)
  PROVE  Underway(CloseAll(bs, W, i), Head(fr).end, Tail(fr), <<>> \o Tail(td), G2)
<1>1. PICK p \in States, q \in States, e \in States, own \in Owners(bs, fr) :
        /\ Ledger(bs, c, fr, p.st, own) /\ Known(p.mode, bs, c, fr)
        /\ Fits(Head(td), p, q) /\ Path(Tail(td), q, e) /\ e.st = <<>>
        /\ p.st \in G /\ Legal(bs, c, fr, p.st)
  BY Unfold
<1>2. /\ \/ p.st = <<"arm2">> \o q.st
         \/ p.st = <<"one">> \o q.st /\ p.mode = "joined"
      /\ q.mode \in Loose
  <2>1. Shift(Head(td), p, q)  BY <1>1, ShiftFit
  <2>2. \/ p.st = <<"arm2">> \o q.st /\ q.mode \in Loose
        \/ p = State(<<"one">> \o q.st, "joined") /\ q.mode \in Loose
    BY <2>1 DEF Shift
  <2>. QED  BY <2>2 DEF State
<1>3. /\ p.st # <<>> /\ Tail(p.st) = q.st
      /\ p.st[1] = "arm2" \/ (p.st[1] = "one" /\ p.mode = "joined")
  <2>1. q.st \in Seq(Stages) /\ "arm2" \in Stages /\ "one" \in Stages  BY StateIs DEF Stages
  <2>2. /\ <<"arm2">> \o q.st # <<>> /\ (<<"arm2">> \o q.st)[1] = "arm2"
        /\ Tail(<<"arm2">> \o q.st) = q.st
        /\ <<"one">> \o q.st # <<>> /\ (<<"one">> \o q.st)[1] = "one"
        /\ Tail(<<"one">> \o q.st) = q.st
    BY <2>1, Pushed
  <2>. QED  BY <1>2, <2>2
<1>. DEFINE O == Of(own, Len(fr))
            f == fr[1]
<1>4. Head(fr) = f /\ f \in Frames  BY <1>1, <1>3, HeadIsFirst
<1>5. Owns(p.st[1], f, O, bs) /\ O \subseteq DOMAIN bs /\ c \notin O /\ \A b \in O : Open(bs, b)
  <2>1. Ledger(bs, c, fr, p.st, own) /\ p.st # <<>>  BY <1>1, <1>3
  <2>. QED  BY ONLY <2>1, Innermost
<1>6. Code(bs) /\ c \in DOMAIN bs /\ (Open(bs, c) \/ Ended(bs, c))  BY <1>1 DEF Ledger
<1>. HIDE DEF O
<1>7. /\ f.end \in O /\ f.end \notin f.ends /\ f.end # c /\ O \subseteq {f.end} \cup f.ends
      /\ f.ends \subseteq DOMAIN bs /\ \A b \in f.ends : b \in O \/ b = c \/ Ended(bs, b)
  <2>1. CASE p.st[1] = "arm2"  BY <2>1, <1>5 DEF Owns
  <2>2. CASE p.st[1] = "one" /\ p.mode = "joined"
    <3>1. O = {f.end}  BY <2>2, <1>5 DEF Owns
    <3>2. f.ends = {c}  BY <2>2, <1>1 DEF Known
    <3>. QED  BY <3>1, <3>2, <1>5, <1>6
  <2>. QED  BY <1>3, <2>1, <2>2
<1>8. ASSUME NEW b \in DOMAIN bs
      PROVE  (Open(bs, b) => ~Terminated(bs, b)) /\ (Ended(bs, b) => Terminated(bs, b))
  BY <1>6, OpenOrTerminated
<1>. HIDE DEF f
<1>9. /\ W \subseteq DOMAIN bs /\ \A b \in W : Open(bs, b)
      /\ W \subseteq O \cup {c} /\ f.end \notin W
      /\ \A b \in O \cup {c} : b = f.end \/ b \in W \/ Ended(bs, b)
  <2>1. W = {b \in f.ends \cup {c} : ~Terminated(bs, b)}  BY <1>4
  <2>. QED  BY <2>1, <1>5, <1>6, <1>7, <1>8
<1>. DEFINE bs2 == CloseAll(bs, W, i)
<1>10. Turned(bs, bs2, W, 0)  BY <1>6, <1>9, CloseAllTurned
<1>. HIDE DEF bs2
<1>11. /\ Open(bs2, f.end)
       /\ \A b \in O \cup {c} : b = f.end \/ Ended(bs2, b)
  BY <1>5, <1>6, <1>7, <1>9, <1>10 DEF Turned
<1>12. PICK own2 : Ledger(bs2, f.end, Tail(fr), Tail(p.st), own2)
  <2>1. Moved(bs, c, O, bs2, W, f.end, {}) /\ f.end # c
    BY <1>7, <1>9, <1>10, <1>11 DEF Moved
  <2>. QED  BY <1>1, <1>3, <2>1, Finish DEF O
<1>13. Known(q.mode, bs2, f.end, Tail(fr))  BY <1>2, <1>11 DEF Known, Loose
<1>14. q.st \in G2
  <2>1. p.st[1] = "one" /\ p.mode = "joined" => fr[1].ends = {c}  BY <1>1 DEF Known
  <2>. QED  BY <2>1, <1>1, <1>3 DEF EndsArms
<1>15. Underway(bs2, f.end, Tail(fr), <<>> \o Tail(td), G2)
  BY <1>1, <1>3, <1>12, <1>13, <1>14, PathEmpty, Fold
<1>. QED  BY <1>4, <1>15 DEF bs2

\* The blocks of a loop.
LoopBlocks(n, c, h) == [i \in 1 .. 4 |-> BasicBlock(BlockNames(n.k)[i], IF i = 1 THEN c ELSE h)]

LEMMA LoopBlocksAre ==
  ASSUME NEW n \in Loops, NEW c \in Nat, NEW h \in Nat
  PROVE  NewlyBegun(LoopBlocks(n, c, h)) /\ Len(LoopBlocks(n, c, h)) = 4
<1>. DEFINE new == LoopBlocks(n, c, h)
<1>1. ASSUME NEW i \in 1 .. 4 PROVE BlockNames(n.k)[i] \in Labelled
  <2>1. i = 1 \/ i = 2 \/ i = 3 \/ i = 4  OBVIOUS
  <2>2. CASE n.k = "while"  BY <2>1, <2>2 DEF BlockNames, Labelled
  <2>3. CASE n.k # "while"  BY <2>1, <2>3 DEF BlockNames, Labelled
  <2>. QED  BY <2>2, <2>3
<1>2. ASSUME NEW i \in 1 .. 4 PROVE new[i] \in Block3({}) /\ new[i].code = <<>>
  BY <1>1, BasicBlockIs DEF LoopBlocks
<1>3. new \in [1 .. 4 -> Block3({})]
  <2>1. new = [i \in 1 .. 4 |-> new[i]]  BY DEF LoopBlocks
  <2>. HIDE DEF new
  <2>. QED  BY <2>1, <1>2
<1>. HIDE DEF new
<1>4. new \in Seq(Block3({})) /\ DOMAIN new = 1 .. 4  BY <1>3, SeqDef
<1>5. Len(new) = 4
  <2>1. Len(new) \in Nat /\ DOMAIN new = 1 .. Len(new)  BY <1>4, LenProperties
  <2>. QED  BY <1>4, <2>1
<1>6. NewlyBegun(new)  BY <1>2, <1>4 DEF NewlyBegun
<1>. QED  BY <1>5, <1>6 DEF new

LEMMA HeaderStep ==
  ASSUME NEW bs, NEW c, NEW fr, NEW td, NEW G, Underway(bs, c, fr, td, G), td # <<>>, Head(td).k = "header",
         NEW ins, Closing(ins), NEW yes, Plain(yes), NEW n, n = Head(td).n,
         NEW h, h = Len(bs) + 1, NEW mid, mid = Emit(bs \o LoopBlocks(n, c, h), c, ins),
         NEW bs2 \in {mid, Emit(mid, h, yes)},
         NEW G2, n \in Loops => BeginsBulky(bs, c, fr, G, "cond", G2)
  PROVE  Underway(bs2, h, <<[header |-> h]>> \o fr,
                  (n.cond \o <<Item("body", n), n.body, Item("latch", n)>>) \o Tail(td), G2)
<1>1. PICK p \in States, q \in States, e \in States, own \in Owners(bs, fr) :
        /\ Ledger(bs, c, fr, p.st, own) /\ Known(p.mode, bs, c, fr)
        /\ Fits(Head(td), p, q) /\ Path(Tail(td), q, e) /\ e.st = <<>>
        /\ p.st \in G /\ Legal(bs, c, fr, p.st)
  BY Unfold
<1>2. /\ Head(td) \in Straight /\ p.mode = "open" /\ q.st = p.st /\ q.mode \in Loose
      /\ Relaxed(p.st)
  BY <1>1, StraightFit DEF Bulky
<1>3. n \in Loops
  <2>1. Head(td) \in RestOf("header", Loops)  BY <1>2, StraightKinds
  <2>. QED  BY <2>1 DEF RestOf
<1>4. /\ Code(bs) /\ c \in DOMAIN bs /\ Open(bs, c) /\ Len(bs) \in Nat /\ c \in Nat
      /\ p.st \in Seq(Stages) /\ h \in Nat
  BY <1>1, <1>2, LedgerTypes DEF Ledger, Known
<1>. DEFINE f == [header |-> h]
            O2 == {h + 1, h + 2, h + 3}
            items == n.cond \o <<Item("body", n), n.body, Item("latch", n)>>
<1>5. Turned(bs, mid, {c}, 4)
  <2>1. NewlyBegun(LoopBlocks(n, c, h)) /\ Len(LoopBlocks(n, c, h)) = 4  BY <1>3, <1>4, LoopBlocksAre
  <2>. QED  BY <2>1, <1>4, BeginTurned
<1>6. Code(mid) /\ h \in DOMAIN mid /\ Open(mid, h) /\ h > Len(bs) /\ {c} \subseteq DOMAIN mid
  <2>1. Code(mid) /\ Len(mid) = Len(bs) + 4 /\ \A b \in DOMAIN mid : b > Len(bs) => Open(mid, b)
    BY <1>5 DEF Turned
  <2>2. DOMAIN mid = 1 .. Len(bs) + 4 /\ DOMAIN bs = 1 .. Len(bs)  BY <2>1, <1>4, CodeDomain
  <2>. QED  BY <2>1, <2>2, <1>4
<1>7. Turned(bs, bs2, {c}, 4)
  <2>1. CASE bs2 = mid  BY <2>1, <1>5
  <2>2. CASE bs2 = Emit(mid, h, yes)
    <3>1. Turned(mid, bs2, {}, 0)  BY <2>2, <1>6, EmitPlain
    <3>2. Turned(bs, bs2, {c} \cup {}, 4 + 0)  BY <3>1, <1>5, <1>6, TurnedTwice
    <3>. QED  BY <3>2
  <2>. QED  BY <2>1, <2>2
<1>8. Open(bs2, h)
  <2>1. Turned(mid, bs2, {}, 0)  BY <1>6, EmitPlain, TurnedNone
  <2>. QED  BY <2>1, <1>6 DEF Turned
<1>9. f \in LoopFrame /\ f \in Frames /\ "cond" \in Stages /\ f.header = h
  BY <1>4 DEF LoopFrame, Frames, Stages
<1>. HIDE DEF f
<1>10. O2 \cup {h} = Len(bs) + 1 .. Len(bs) + 4 /\ h \notin O2  BY <1>4
<1>11. Owns("cond", f, O2, bs2)  BY <1>9 DEF Owns
<1>. HIDE DEF O2
<1>12. PICK own2 : Ledger(bs2, h, <<f>> \o fr, <<"cond">> \o p.st, own2)
  BY <1>1, <1>7, <1>9, <1>10, <1>11, Begin
<1>. DEFINE p2 == State(<<"cond">> \o p.st, "open")
<1>13. p2 \in States /\ p2.st = <<"cond">> \o p.st /\ p2.mode = "open"
  <2>1. <<"cond">> \o p.st \in Seq(Stages)  BY <1>4, <1>9, Pushed
  <2>. QED  BY <2>1, StateOf
<1>14. Path(items, p2, q)
  <2>1. q = State(p.st, q.mode)  BY <1>2, StateIs
  <2>2. Path(items, p2, State(p.st, q.mode))  BY <1>2, <1>3, <1>4, LoopPath
  <2>. QED  BY <2>1, <2>2
<1>15. Known("open", bs2, h, <<f>> \o fr)  BY <1>8 DEF Known
<1>16. p2.st \in G2  BY <1>1, <1>2, <1>3, <1>13 DEF BeginsBulky
<1>. HIDE DEF p2, items
<1>17. Underway(bs2, h, <<f>> \o fr, items \o Tail(td), G2)
  BY <1>1, <1>12, <1>13, <1>14, <1>15, <1>16, Fold
<1>. QED  BY <1>17 DEF f, items

LEMMA BodyStep ==
  ASSUME NEW bs, NEW c, NEW fr, NEW td, NEW G, Underway(bs, c, fr, td, G), td # <<>>, Head(td).k = "body",
         NEW ins, Closing(ins), NEW h, h = Head(fr).header,
         NEW G2, GoesOn(bs, c, fr, G, "cond", "body", G2)
  PROVE  Underway(Emit(bs, c, ins), h + 1, fr, <<>> \o Tail(td), G2)
<1>1. PICK p \in States, q \in States, e \in States, own \in Owners(bs, fr) :
        /\ Ledger(bs, c, fr, p.st, own) /\ Known(p.mode, bs, c, fr)
        /\ Fits(Head(td), p, q) /\ Path(Tail(td), q, e) /\ e.st = <<>>
        /\ p.st \in G /\ Legal(bs, c, fr, p.st)
  BY Unfold
<1>2. PICK st \in Seq(Stages) : p = State(<<"cond">> \o st, "open") /\ q = State(<<"body">> \o st, "open")
  <2>1. Shift(Head(td), p, q)  BY <1>1, ShiftFit
  <2>. QED  BY <2>1 DEF Shift
<1>3. p.st = <<"cond">> \o st /\ p.mode = "open" /\ q.st = <<"body">> \o st /\ q.mode = "open"
  BY <1>2 DEF State
<1>4. p.st # <<>> /\ p.st[1] = "cond" /\ Tail(p.st) = st
  <2>1. "cond" \in Stages  BY DEF Stages
  <2>. QED  BY <2>1, <1>3, Pushed
<1>. DEFINE O == Of(own, Len(fr))
            f == fr[1]
            bs2 == Emit(bs, c, ins)
            O2 == {h + 2, h + 3}
<1>5. Head(fr) = f /\ f \in Frames /\ [fr EXCEPT ![1] = f] = fr  BY <1>1, <1>4, HeadIsFirst
<1>6. Owns("cond", f, O, bs) /\ O \subseteq DOMAIN bs /\ c \notin O /\ \A b \in O : Open(bs, b)
  <2>1. Ledger(bs, c, fr, p.st, own) /\ p.st # <<>> /\ p.st[1] = "cond"  BY <1>1, <1>4
  <2>2. Owns(p.st[1], f, O, bs) /\ O \subseteq DOMAIN bs /\ c \notin O /\ \A b \in O : Open(bs, b)
    BY ONLY <2>1, Innermost
  <2>. QED  BY ONLY <2>1, <2>2
<1>7. Code(bs) /\ c \in DOMAIN bs /\ Open(bs, c)
  <2>1. Code(bs) /\ c \in DOMAIN bs  BY <1>1 DEF Ledger
  <2>. QED  BY <2>1, <1>1, <1>3 DEF Known
<1>. HIDE DEF O, f, bs2
<1>8. Turned(bs, bs2, {c}, 0)  BY <1>7, EmitClosing DEF bs2
<1>9. f \in LoopFrame /\ O = {h + 1, h + 2, h + 3} /\ h \in Nat /\ h = f.header
  BY <1>5, <1>6 DEF Owns, LoopFrame
<1>10. /\ h + 1 \notin O2 /\ h + 1 \in O \cup {c} /\ O2 \subseteq O \cup {c}
       /\ \A b \in O : Open(bs2, b)
       /\ \A b \in O \cup {c} : b \in O2 \/ b = h + 1 \/ Ended(bs2, b)
  BY <1>6, <1>8, <1>9 DEF Turned
<1>11. Owns("body", f, O2, bs2)  BY <1>9 DEF Owns
<1>12. "body" \in Stages /\ Open(bs2, h + 1) /\ \A b \in O2 : Open(bs2, b)
  BY <1>9, <1>10 DEF Stages
<1>. HIDE DEF O2
<1>13. PICK own2 : Ledger(bs2, h + 1, [fr EXCEPT ![1] = f], <<"body">> \o Tail(p.st), own2)
  <2>1. Moved(bs, c, O, bs2, {c}, h + 1, O2)  BY <1>8, <1>10, <1>12 DEF Moved
  <2>. QED  BY <1>1, <1>4, <1>5, <1>11, <1>12, <2>1, GoOn DEF O
<1>14. Ledger(bs2, h + 1, fr, q.st, own2)  BY <1>3, <1>4, <1>5, <1>13
<1>15. Known(q.mode, bs2, h + 1, fr)  BY <1>3, <1>12 DEF Known
<1>16. q.st \in G2  BY <1>1, <1>3, <1>4 DEF GoesOn
<1>17. Underway(bs2, h + 1, fr, <<>> \o Tail(td), G2)  BY <1>1, <1>14, <1>15, <1>16, PathEmpty, Fold
<1>. QED  BY <1>17 DEF bs2

\* A block that is not ended yet goes on in another.
LEMMA BrIfOpenTurned ==
  ASSUME NEW bs, Code(bs), NEW c \in DOMAIN bs, Open(bs, c) \/ Ended(bs, c), NEW to
  PROVE  \E E : E \subseteq {c} /\ Turned(bs, BrIfOpen(bs, c, to), E, 0) /\ Ended(BrIfOpen(bs, c, to), c)
<1>1. (Open(bs, c) => ~Terminated(bs, c)) /\ (Ended(bs, c) => Terminated(bs, c))
  BY OpenOrTerminated
<1>2. CASE Ended(bs, c)
  <2>1. BrIfOpen(bs, c, to) = bs  BY <1>1, <1>2 DEF BrIfOpen
  <2>2. Turned(bs, bs, {}, 0)  BY TurnedNone
  <2>. QED  BY <2>1, <2>2, <1>2
<1>3. CASE Open(bs, c)
  <2>1. BrIfOpen(bs, c, to) = Emit(bs, c, <<Br(to)>>)  BY <1>1, <1>3 DEF BrIfOpen
  <2>2. Ends(Br(to))  BY InsEnds DEF Br, Terminators
  <2>3. Turned(bs, Emit(bs, c, <<Br(to)>>), {c}, 0)  BY <2>2, <1>3, ClosingOne, EmitClosing
  <2>4. Ended(Emit(bs, c, <<Br(to)>>), c)  BY <2>3 DEF Turned
  <2>. QED  BY <2>1, <2>3, <2>4
<1>. QED  BY <1>2, <1>3

LEMMA LatchStep ==
  ASSUME NEW bs, NEW c, NEW fr, NEW td, NEW G, Underway(bs, c, fr, td, G), td # <<>>, Head(td).k = "latch",
         NEW h, h = Head(fr).header, NEW n, n = Head(td).n,
         NEW G2, GoesOn(bs, c, fr, G, "body", "inc", G2)
  PROVE  Underway(BrIfOpen(bs, c, h + 2), h + 2, fr,
                  (n.inc \o <<Item("back", n)>>) \o Tail(td), G2)
<1>1. PICK p \in States, q \in States, e \in States, own \in Owners(bs, fr) :
        /\ Ledger(bs, c, fr, p.st, own) /\ Known(p.mode, bs, c, fr)
        /\ Fits(Head(td), p, q) /\ Path(Tail(td), q, e) /\ e.st = <<>>
        /\ p.st \in G /\ Legal(bs, c, fr, p.st)
  BY Unfold
<1>2. p.st = <<"body">> \o q.st /\ q.mode \in Loose /\ n \in Loops
  <2>1. Head(td) \in Shifts /\ Shift(Head(td), p, q)  BY <1>1, ShiftFit
  <2>2. n \in Loops  BY <2>1, ShiftKinds
  <2>3. p.st = <<"body">> \o q.st /\ q.mode \in Loose  BY <2>1 DEF Shift
  <2>. QED  BY <2>2, <2>3
<1>3. q.st \in Seq(Stages) /\ p.st # <<>> /\ p.st[1] = "body" /\ Tail(p.st) = q.st
  <2>1. q.st \in Seq(Stages) /\ "body" \in Stages  BY StateIs DEF Stages
  <2>. QED  BY <2>1, <1>2, Pushed
<1>. DEFINE items == n.inc \o <<Item("back", n)>>
            O == Of(own, Len(fr))
            f == fr[1]
            bs2 == BrIfOpen(bs, c, h + 2)
            O2 == {h + 3}
<1>4. Head(fr) = f /\ f \in Frames /\ [fr EXCEPT ![1] = f] = fr  BY <1>1, <1>3, HeadIsFirst
<1>5. Owns("body", f, O, bs) /\ O \subseteq DOMAIN bs /\ c \notin O /\ \A b \in O : Open(bs, b)
  <2>1. Ledger(bs, c, fr, p.st, own) /\ p.st # <<>> /\ p.st[1] = "body"  BY <1>1, <1>3
  <2>2. Owns(p.st[1], f, O, bs) /\ O \subseteq DOMAIN bs /\ c \notin O /\ \A b \in O : Open(bs, b)
    BY ONLY <2>1, Innermost
  <2>. QED  BY ONLY <2>1, <2>2
<1>6. Code(bs) /\ c \in DOMAIN bs /\ (Open(bs, c) \/ Ended(bs, c))  BY <1>1 DEF Ledger
<1>. HIDE DEF O, f, bs2, items
<1>7. PICK E : E \subseteq {c} /\ Turned(bs, bs2, E, 0) /\ Ended(bs2, c)
  <2>1. \A to : \E E : /\ E \subseteq {c} /\ Turned(bs, BrIfOpen(bs, c, to), E, 0)
                       /\ Ended(BrIfOpen(bs, c, to), c)
    BY <1>6, BrIfOpenTurned
  <2>. QED  BY <2>1, Zenon DEF bs2
<1>8. f \in LoopFrame /\ O = {h + 2, h + 3} /\ h \in Nat /\ h = f.header
  BY <1>4, <1>5 DEF Owns, LoopFrame
<1>9. /\ h + 2 \notin O2 /\ h + 2 \in O \cup {c} /\ O2 \subseteq O \cup {c}
      /\ \A b \in O : Open(bs2, b)
      /\ \A b \in O \cup {c} : b \in O2 \/ b = h + 2 \/ Ended(bs2, b)
  BY <1>5, <1>7, <1>8 DEF Turned
<1>10. Owns("inc", f, O2, bs2)  BY <1>8 DEF Owns
<1>11. "inc" \in Stages /\ Open(bs2, h + 2) /\ \A b \in O2 : Open(bs2, b)
  BY <1>8, <1>9 DEF Stages
<1>. HIDE DEF O2
<1>12. PICK own2 : Ledger(bs2, h + 2, [fr EXCEPT ![1] = f], <<"inc">> \o Tail(p.st), own2)
  <2>1. Moved(bs, c, O, bs2, E, h + 2, O2)  BY <1>7, <1>9, <1>11 DEF Moved
  <2>. QED  BY <1>1, <1>3, <1>4, <1>10, <1>11, <2>1, GoOn DEF O
<1>. DEFINE p2 == State(<<"inc">> \o q.st, "open")
<1>13. p2 \in States /\ p2.st = <<"inc">> \o q.st /\ p2.mode = "open"
  <2>1. <<"inc">> \o q.st \in Seq(Stages)  BY <1>3, <1>11, Pushed
  <2>. QED  BY <2>1, StateOf
<1>14. Path(items, p2, q)
  <2>1. q = State(q.st, q.mode)  BY StateIs
  <2>2. Path(n.inc \o <<Item("back", n)>>, p2, State(q.st, q.mode))  BY <1>2, <1>3, LatchPath
  <2>. QED  BY <2>1, <2>2 DEF items
<1>15. Ledger(bs2, h + 2, fr, p2.st, own2) /\ Known(p2.mode, bs2, h + 2, fr)
  BY <1>3, <1>4, <1>11, <1>12, <1>13 DEF Known
<1>16. p2.st \in G2  BY <1>1, <1>3, <1>13 DEF GoesOn
<1>. HIDE DEF p2
<1>17. Underway(bs2, h + 2, fr, items \o Tail(td), G2)  BY <1>1, <1>13, <1>14, <1>15, <1>16, Fold
<1>. QED  BY <1>17 DEF bs2, items

LEMMA BackStep ==
  ASSUME NEW bs, NEW c, NEW fr, NEW td, NEW G, Underway(bs, c, fr, td, G), td # <<>>, Head(td).k = "back",
         NEW h, h = Head(fr).header,
         NEW G2, IsOver(bs, c, fr, G, "inc", G2)
  PROVE  Underway(BrIfOpen(bs, c, h), h + 3, Tail(fr), <<>> \o Tail(td), G2)
<1>1. PICK p \in States, q \in States, e \in States, own \in Owners(bs, fr) :
        /\ Ledger(bs, c, fr, p.st, own) /\ Known(p.mode, bs, c, fr)
        /\ Fits(Head(td), p, q) /\ Path(Tail(td), q, e) /\ e.st = <<>>
        /\ p.st \in G /\ Legal(bs, c, fr, p.st)
  BY Unfold
<1>2. p.st = <<"inc">> \o q.st /\ q.mode \in Loose
  <2>1. Shift(Head(td), p, q)  BY <1>1, ShiftFit
  <2>2. p = State(<<"inc">> \o q.st, "open") /\ q.mode \in Loose  BY <2>1 DEF Shift
  <2>. QED  BY <2>2 DEF State
<1>3. q.st \in Seq(Stages) /\ p.st # <<>> /\ p.st[1] = "inc" /\ Tail(p.st) = q.st
  <2>1. q.st \in Seq(Stages) /\ "inc" \in Stages  BY StateIs DEF Stages
  <2>. QED  BY <2>1, <1>2, Pushed
<1>. DEFINE O == Of(own, Len(fr))
            f == fr[1]
            bs2 == BrIfOpen(bs, c, h)
<1>4. Head(fr) = f /\ f \in Frames  BY <1>1, <1>3, HeadIsFirst
<1>5. Owns("inc", f, O, bs) /\ O \subseteq DOMAIN bs /\ c \notin O /\ \A b \in O : Open(bs, b)
  <2>1. Ledger(bs, c, fr, p.st, own) /\ p.st # <<>> /\ p.st[1] = "inc"  BY <1>1, <1>3
  <2>2. Owns(p.st[1], f, O, bs) /\ O \subseteq DOMAIN bs /\ c \notin O /\ \A b \in O : Open(bs, b)
    BY ONLY <2>1, Innermost
  <2>. QED  BY ONLY <2>1, <2>2
<1>6. Code(bs) /\ c \in DOMAIN bs /\ (Open(bs, c) \/ Ended(bs, c))  BY <1>1 DEF Ledger
<1>. HIDE DEF O, f, bs2
<1>7. PICK E : E \subseteq {c} /\ Turned(bs, bs2, E, 0) /\ Ended(bs2, c)
  BY <1>6, BrIfOpenTurned DEF bs2
<1>8. O = {h + 3}  BY <1>4, <1>5 DEF Owns
<1>9. /\ h + 3 # c /\ Open(bs2, h + 3)
      /\ \A b \in O \cup {c} : b = h + 3 \/ Ended(bs2, b)
  BY <1>5, <1>7, <1>8 DEF Turned
<1>10. PICK own2 : Ledger(bs2, h + 3, Tail(fr), Tail(p.st), own2)
  <2>1. Moved(bs, c, O, bs2, E, h + 3, {})  BY <1>7, <1>8, <1>9 DEF Moved
  <2>. QED  BY <1>1, <1>3, <1>9, <2>1, Finish DEF O
<1>11. Known(q.mode, bs2, h + 3, Tail(fr))  BY <1>2, <1>9 DEF Known, Loose
<1>12. q.st \in G2  BY <1>1, <1>3 DEF IsOver
<1>13. Underway(bs2, h + 3, Tail(fr), <<>> \o Tail(td), G2)
  BY <1>1, <1>3, <1>10, <1>11, <1>12, PathEmpty, Fold
<1>. QED  BY <1>13 DEF bs2

-----------------------------------------------------------------------------
(* Steps of blocks and of returns. *)

LEMMA BlockStep ==
  ASSUME NEW bs, NEW c, NEW fr, NEW td, NEW G, Underway(bs, c, fr, td, G), td # <<>>, Head(td).k = "block",
         NEW n, n = Head(td),
         NEW G2, Stays(bs, c, fr, G, G2)
  PROVE  Underway(bs, c, fr, (IF n.body = <<>> \/ Terminated(bs, c)
                              THEN <<>>
                              ELSE <<Head(n.body), [n EXCEPT !.body = Tail(@)]>>) \o Tail(td), G2)
<1>1. PICK p \in States, q \in States, e \in States, own \in Owners(bs, fr) :
        /\ Ledger(bs, c, fr, p.st, own) /\ Known(p.mode, bs, c, fr)
        /\ Fits(Head(td), p, q) /\ Path(Tail(td), q, e) /\ e.st = <<>>
        /\ p.st \in G /\ Legal(bs, c, fr, p.st)
  BY Unfold
<1>2. n \in BlockNodes /\ q.st = p.st /\ q.mode = "any" /\ Relaxed(p.st) /\ p.st \in G2
  BY <1>1, BlockFit DEF Bulky, Stays
<1>. DEFINE over == n.body = <<>> \/ Terminated(bs, c)
<1>3. CASE over
  <2>1. Ledger(bs, c, fr, q.st, own) /\ Known(q.mode, bs, c, fr)  BY <1>1, <1>2 DEF Known
  <2>2. Underway(bs, c, fr, <<>> \o Tail(td), G2)  BY <1>1, <1>2, <2>1, PathEmpty, Fold
  <2>. QED  BY <1>3, <2>2
<1>4. CASE ~over
  <2>. DEFINE items == <<Head(n.body), [n EXCEPT !.body = Tail(@)]>>
              p2 == State(p.st, "open")
  <2>1. Code(bs) /\ c \in DOMAIN bs /\ (Open(bs, c) \/ Ended(bs, c))  BY <1>1 DEF Ledger
  <2>2. Open(bs, c)  BY <1>4, <2>1, OpenOrTerminated
  <2>3. p.st \in Seq(Stages) /\ q = State(p.st, "any")  BY <1>2, StateIs
  <2>4. p2 \in States /\ p2.st = p.st /\ p2.mode = "open"  BY <2>3, StateOf
  <2>5. Path(items, p2, q)  BY <1>2, <1>4, <2>3, BlockPath
  <2>6. Ledger(bs, c, fr, p2.st, own) /\ Known(p2.mode, bs, c, fr)  BY <1>1, <2>2, <2>4 DEF Known
  <2>. HIDE DEF p2, items
  <2>7. Underway(bs, c, fr, items \o Tail(td), G2)  BY <1>1, <1>2, <2>4, <2>5, <2>6, Fold
  <2>. QED  BY <1>4, <2>7 DEF items
<1>. QED  BY <1>3, <1>4

LEMMA ReturnStep ==
  ASSUME NEW bs, NEW c, NEW fr, NEW td, NEW G, Underway(bs, c, fr, td, G), td # <<>>, Head(td).k = "return",
         NEW n, n = Head(td),
         NEW G2, Stays(bs, c, fr, G, G2)
  PROVE  Underway(bs, c, fr, (n.e \o <<Item("ret", n)>>) \o Tail(td), G2)
<1>1. PICK p \in States, q \in States, e \in States, own \in Owners(bs, fr) :
        /\ Ledger(bs, c, fr, p.st, own) /\ Known(p.mode, bs, c, fr)
        /\ Fits(Head(td), p, q) /\ Path(Tail(td), q, e) /\ e.st = <<>>
        /\ p.st \in G /\ Legal(bs, c, fr, p.st)
  BY Unfold
<1>2. n \in Returns /\ p.mode = "open" /\ q.st = p.st /\ q.mode = "any"
  BY <1>1, LeavingFit, OtherKinds
<1>3. p = State(p.st, "open") /\ q = State(p.st, "any") /\ p.st \in Seq(Stages)  BY <1>2, StateIs
<1>4. Path(n.e \o <<Item("ret", n)>>, p, q)  BY <1>2, <1>3, ReturnPath
<1>5. p.st \in G2  BY <1>1 DEF Stays
<1>. QED  BY <1>1, <1>4, <1>5, Fold

-----------------------------------------------------------------------------
(* The stages that tie in, step by step. *)

Ties(bs, c, fr, br, cn) == {st \in Seq(Stages) : Tied(bs, c, fr, st) /\ Exits(fr, st, br, cn)}

LEMMA LegalTypes ==
  ASSUME NEW bs, NEW c, NEW fr, NEW st, Legal(bs, c, fr, st)
  PROVE  Code(bs) /\ c \in DOMAIN bs /\ Framed(fr, st) /\ DOMAIN bs = 1 .. Len(bs) /\ Len(bs) \in Nat
  BY CodeDomain DEF Legal, Ledger, Framed

LEMMA LegalFrame ==
  ASSUME NEW bs, NEW c, NEW fr, NEW st, Legal(bs, c, fr, st), st # <<>>
  PROVE  /\ Head(fr) = fr[1] /\ fr[1] \in Frames /\ [fr EXCEPT ![1] = fr[1]] = fr
         /\ st[1] = "rhs" => fr[1] \in ShortCircuitFrame
         /\ st[1] \in {"then", "join"} => fr[1] \in TernaryFrame
         /\ st[1] = "join" => fr[1].thenEnd \in DOMAIN bs /\ fr[1].first + 3 \in DOMAIN bs
         /\ st[1] \in {"two", "one", "arm2"} => fr[1] \in IfFrame
         /\ st[1] = "arm2" => fr[1].ends \subseteq DOMAIN bs
         /\ st[1] \in {"cond", "body", "inc"} => fr[1] \in LoopFrame
<1>1. PICK own : Ledger(bs, c, fr, st, own)  BY DEF Legal
<1>2. Head(fr) = fr[1] /\ fr[1] \in Frames /\ [fr EXCEPT ![1] = fr[1]] = fr  BY <1>1, HeadIsFirst
<1>. DEFINE O == Of(own, Len(fr))
<1>3. Owns(st[1], fr[1], O, bs) /\ O \subseteq DOMAIN bs  BY <1>1, Innermost
<1>. HIDE DEF O
<1>. QED  BY <1>2, <1>3 DEF Owns

\* Whether control of a construct in its stage changes the exits.
LEMMA TiesOf ==
  ASSUME NEW bs, NEW c, NEW fr, NEW br, NEW cn, NEW st, st \in Ties(bs, c, fr, br, cn)
  PROVE  Tied(bs, c, fr, st) /\ Exits(fr, st, br, cn) /\ st \in Seq(Stages)
  BY DEF Ties

\* Where code is written that names no block.
Mute(ins) == \A k \in DOMAIN ins : ~Branching(ins[k]) /\ ins[k].op # "phi"

LEMMA SoundPlain ==
  ASSUME NEW bs, Code(bs), NEW c \in DOMAIN bs, NEW T, NEW ins \in Seq(T), Mute(ins), Sound(bs)
  PROVE  Sound(Emit(bs, c, ins)) /\ Wrote(bs, Emit(bs, c, ins), Pairs(c, ins))
<1>. DEFINE bs2 == Emit(bs, c, ins)
<1>1. Wrote(bs, bs2, Pairs(c, ins)) /\ DOMAIN bs2 = DOMAIN bs  BY EmitWrote
<1>. HIDE DEF bs2
<1>2. ASSUME NEW b, NEW i, <<b, i>> \in Pairs(c, ins) PROVE Apt(bs2, b, i)
  BY <1>2 DEF Pairs, Mute, Apt
<1>3. Sound(bs2)  BY <1>1, <1>2, SoundStill
<1>. QED  BY <1>1, <1>3 DEF bs2

LEMMA TiesMute ==
  ASSUME NEW bs, Code(bs), NEW c \in DOMAIN bs, NEW fr, NEW st, Framed(fr, st), NEW br, NEW cn,
         st \in Ties(bs, c, fr, br, cn), NEW T, NEW ins \in Seq(T), Mute(ins)
  PROVE  st \in Ties(Emit(bs, c, ins), c, fr, br, cn)
<1>1. Tied(bs, c, fr, st) /\ Exits(fr, st, br, cn) /\ st \in Seq(Stages)  BY TiesOf
<1>2. Sound(Emit(bs, c, ins)) /\ Wrote(bs, Emit(bs, c, ins), Pairs(c, ins))
  BY <1>1, SoundPlain DEF Tied
<1>3. Tied(Emit(bs, c, ins), c, fr, st)  BY <1>1, <1>2, TieStays
<1>. QED  BY <1>1, <1>3 DEF Ties

LEMMA TiesPlain ==
  ASSUME NEW bs, NEW c, NEW fr, NEW st, Legal(bs, c, fr, st), NEW br, NEW cn,
         st \in Ties(bs, c, fr, br, cn), NEW T, NEW ins \in Seq(T), Mute(ins)
  PROVE  st \in Ties(Emit(bs, c, ins), c, fr, br, cn)
  BY LegalTypes, TiesMute

\* One branch is written.
LEMMA BranchWrote ==
  ASSUME NEW bs, Code(bs), NEW c \in DOMAIN bs, NEW i
  PROVE  /\ Wrote(bs, Emit(bs, c, <<i>>), {<<c, i>>})
         /\ DOMAIN Emit(bs, c, <<i>>) = DOMAIN bs /\ Code(Emit(bs, c, <<i>>))
         /\ Jump(i) => \A t \in Range(i.arg) : Edge(Emit(bs, c, <<i>>), c, t)
<1>. DEFINE bs2 == Emit(bs, c, <<i>>)
<1>1. <<i>> \in Seq({i}) /\ Pairs(c, <<i>>) = {<<c, i>>}  BY DEF Pairs
<1>2. Wrote(bs, bs2, {<<c, i>>}) /\ DOMAIN bs2 = DOMAIN bs /\ Code(bs2)
  <2>1. <<i>> \in Seq({i})  BY <1>1
  <2>2. Wrote(bs, bs2, Pairs(c, <<i>>)) /\ DOMAIN bs2 = DOMAIN bs  BY <2>1, EmitWrote
  <2>3. Code(bs2)  BY <2>1, EmitCode
  <2>. QED  BY <2>2, <2>3, <1>1
<1>. HIDE DEF bs2
<1>3. Has(bs2, c, i)  BY <1>2 DEF Wrote
<1>4. Jump(i) => \A t \in Range(i.arg) : Edge(bs2, c, t)  BY <1>3, JumpBranches DEF Edge
<1>. QED  BY <1>2, <1>4 DEF bs2

LEMMA SoundBranch ==
  ASSUME NEW bs, Code(bs), NEW c \in DOMAIN bs, Sound(bs), NEW i, Jump(i),
         \A t \in Range(i.arg) :
           /\ t \in DOMAIN bs /\ Under(bs, c, bs[t].of)
           /\ bs[t].name \in Headings => c = bs[t].of \/ Follows(bs, t + 2, c)
  PROVE  Sound(Emit(bs, c, <<i>>))
<1>. DEFINE bs2 == Emit(bs, c, <<i>>)
<1>1. Wrote(bs, bs2, {<<c, i>>}) /\ DOMAIN bs2 = DOMAIN bs  BY BranchWrote
<1>2. Apt(bs, c, i)  BY JumpBranches DEF Apt
<1>. HIDE DEF bs2
<1>3. Apt(bs2, c, i)  BY <1>1, <1>2, AptStill
<1>4. \A b, j : <<b, j>> \in {<<c, i>>} => Apt(bs2, b, j)  BY <1>3
<1>5. Sound(bs2)  BY <1>1, <1>4, SoundStill
<1>. QED  BY <1>5 DEF bs2

LEMMA BranchTo ==
  ASSUME NEW a, NEW b
  PROVE  /\ Jump(Br(a)) /\ Range(Br(a).arg) = {a}
         /\ Jump(CondBr(a, b)) /\ Range(CondBr(a, b).arg) = {a, b}
<1>1. Jump(Br(a)) /\ Jump(CondBr(a, b))  BY DEF Jump
<1>2. Range(Br(a).arg) = {a} /\ Range(CondBr(a, b).arg) = {a, b}  BY DEF Br, CondBr, Ins, Range
<1>. QED  BY <1>1, <1>2

\* Blocks are begun and the insertion block branches to one of them.
LEMMA BeginWrote ==
  ASSUME NEW bs, Code(bs), NEW c \in DOMAIN bs, NEW new, NewlyBegun(new), NEW i, Jump(i)
  PROVE  LET bs2 == Emit(bs \o new, c, <<i>>)
         IN  /\ Wrote(bs, bs2, {<<c, i>>}) /\ DOMAIN bs2 = 1 .. Len(bs) + Len(new)
             /\ \A k \in 1 .. Len(new) :
                  bs2[Len(bs) + k].of = new[k].of /\ bs2[Len(bs) + k].name = new[k].name
             /\ \A t \in Range(i.arg) : Edge(bs2, c, t)
             /\ Code(bs2)
<1>. DEFINE mid == bs \o new
            bs2 == Emit(mid, c, <<i>>)
<1>0. new \in Seq(Block3({})) /\ \A k \in DOMAIN new : new[k].code = <<>>  BY DEF NewlyBegun
<1>1. /\ Wrote(bs, mid, {}) /\ DOMAIN mid = 1 .. Len(bs) + Len(new)
      /\ \A k \in 1 .. Len(new) : mid[Len(bs) + k] = new[k]
  BY <1>0, NewWrote
<1>2. Code(mid)  BY <1>0, NewBlocks DEF Turned
<1>3. c \in DOMAIN mid  BY <1>1 DEF Wrote
<1>. HIDE DEF mid
<1>4. /\ Wrote(mid, bs2, {<<c, i>>}) /\ DOMAIN bs2 = DOMAIN mid /\ Code(bs2)
      /\ \A t \in Range(i.arg) : Edge(bs2, c, t)
  BY <1>2, <1>3, BranchWrote
<1>. HIDE DEF bs2
<1>5. Wrote(bs, bs2, {<<c, i>>})
  <2>1. Wrote(bs, bs2, {} \cup {<<c, i>>})  BY <1>1, <1>4, WroteTwice
  <2>. QED  BY <2>1
<1>6. ASSUME NEW k \in 1 .. Len(new)
      PROVE  bs2[Len(bs) + k].of = new[k].of /\ bs2[Len(bs) + k].name = new[k].name
  <2>1. Len(bs) \in Nat /\ Len(new) \in Nat  BY <1>0, CodeDomain, LenProperties
  <2>2. Len(bs) + k \in DOMAIN mid  BY <1>1, <2>1
  <2>3. bs2[Len(bs) + k].of = mid[Len(bs) + k].of /\ bs2[Len(bs) + k].name = mid[Len(bs) + k].name
    BY <1>4, <2>2 DEF Wrote
  <2>. QED  BY <1>1, <2>3
<1>. QED  BY <1>1, <1>4, <1>5, <1>6 DEF bs2, mid

\* The blocks of an operator or an if: each is begun by the insertion block.
Arms(new, c) ==
  /\ NewlyBegun(new)
  /\ \A k \in 1 .. Len(new) : new[k].of = c /\ new[k].name \notin Headings \cup LatchNames

LEMMA ArmsBegun ==
  ASSUME NEW bs, Code(bs), NEW c \in DOMAIN bs, Sound(bs), NEW new, Arms(new, c), NEW i, Jump(i),
         Range(i.arg) \subseteq Len(bs) + 1 .. Len(bs) + Len(new)
  PROVE  LET bs2 == Emit(bs \o new, c, <<i>>)
         IN  /\ Wrote(bs, bs2, {<<c, i>>}) /\ Sound(bs2) /\ Code(bs2)
             /\ \A t \in Len(bs) + 1 .. Len(bs) + Len(new) : Begun(bs2, c, t)
             /\ \A t \in Range(i.arg) : Edge(bs2, c, t)
<1>. DEFINE bs2 == Emit(bs \o new, c, <<i>>)
<1>0. NewlyBegun(new) /\ Len(bs) \in Nat /\ Len(new) \in Nat /\ DOMAIN bs = 1 .. Len(bs)
  BY CodeDomain, LenProperties DEF Arms, NewlyBegun
<1>1. /\ Wrote(bs, bs2, {<<c, i>>}) /\ DOMAIN bs2 = 1 .. Len(bs) + Len(new)
      /\ \A k \in 1 .. Len(new) : bs2[Len(bs) + k].of = new[k].of /\ bs2[Len(bs) + k].name = new[k].name
      /\ \A t \in Range(i.arg) : Edge(bs2, c, t)
      /\ Code(bs2)
  BY <1>0, BeginWrote
<1>. HIDE DEF bs2
<1>2. ASSUME NEW t \in Len(bs) + 1 .. Len(bs) + Len(new)
      PROVE  Begun(bs2, c, t) /\ bs2[t].name \notin LatchNames
  <2>1. t - Len(bs) \in 1 .. Len(new) /\ Len(bs) + (t - Len(bs)) = t /\ t \in DOMAIN bs2  BY <1>0, <1>1
  <2>2. bs2[t].of = c /\ bs2[t].name \notin Headings \cup LatchNames  BY <1>1, <2>1 DEF Arms
  <2>. QED  BY <2>1, <2>2 DEF Begun
<1>3. Under(bs2, c, c)  BY UnderSelf
<1>4. Apt(bs2, c, i)  BY <1>2, <1>3, JumpBranches DEF Apt, Begun
<1>5. \A b, j : <<b, j>> \in {<<c, i>>} => Apt(bs2, b, j)  BY <1>4
<1>6. ASSUME NEW b \in DOMAIN bs2, b \notin DOMAIN bs PROVE bs2[b].name \notin LatchNames
  <2>1. b \in Len(bs) + 1 .. Len(bs) + Len(new)  BY <1>0, <1>1, <1>6
  <2>. QED  BY <1>2, <2>1
<1>7. Sound(bs2)  BY <1>1, <1>5, <1>6, SoundStill
<1>. QED  BY <1>1, <1>2, <1>7 DEF bs2

LEMMA TiesPush ==
  ASSUME NEW bs, NEW c, NEW fr, NEW st, Legal(bs, c, fr, st), NEW br, NEW cn,
         st \in Ties(bs, c, fr, br, cn), NEW bs2, NEW N, Wrote(bs, bs2, N), Sound(bs2),
         NEW f \in Frames, NEW s \in Stages \ {"body", "inc"}, s \in Choosing \/ Relaxed(st),
         NEW c2, Begun(bs2, c, c2), Edge(bs2, c, c2), Anchor(bs2, s, f) = c, Stands(bs2, s, f)
  PROVE  <<s>> \o st \in Ties(bs2, c2, <<f>> \o fr, br, cn)
<1>1. Framed(fr, st)  BY LegalTypes
<1>2. Tied(bs, c, fr, st) /\ Exits(fr, st, br, cn) /\ st \in Seq(Stages)  BY TiesOf
<1>3. Under(bs2, c2, c)  BY UnderOf DEF Begun
<1>4. Follows(bs2, c, c2)  BY FollowsEdge
<1>5. Place(bs2, s, f, c2)  BY <1>3, <1>4 DEF Place, Base
<1>6. Under(bs2, c, c) /\ Follows(bs2, c, c)  BY UnderSelf
<1>7. Tied(bs2, c2, <<f>> \o fr, <<s>> \o st)  BY <1>1, <1>2, <1>3, <1>4, <1>5, <1>6, TieBegin
<1>8. Exits(<<f>> \o fr, <<s>> \o st, br, cn)  BY <1>1, <1>2, ExitsBegin
<1>9. <<s>> \o st \in Seq(Stages)  BY <1>2, Pushed
<1>. QED  BY <1>7, <1>8, <1>9 DEF Ties


LEMMA TiesRhs ==
  ASSUME NEW bs, NEW c, NEW fr, NEW st, Legal(bs, c, fr, st), NEW br, NEW cn,
         st \in Ties(bs, c, fr, br, cn), NEW i, Jump(i),
         Range(i.arg) = {Len(bs) + 1, Len(bs) + 2}
  PROVE  <<"rhs">> \o st \in
           Ties(Emit(bs \o <<BasicBlock("logical.rhs", c), BasicBlock("logical.merge", c)>>, c, <<i>>),
                Len(bs) + 1, <<[lhs |-> c, merge |-> Len(bs) + 1 + 1]>> \o fr, br, cn)
<1>. DEFINE new == <<BasicBlock("logical.rhs", c), BasicBlock("logical.merge", c)>>
            f == [lhs |-> c, merge |-> Len(bs) + 1 + 1]
            bs2 == Emit(bs \o new, c, <<i>>)
<1>1. Code(bs) /\ c \in DOMAIN bs /\ c \in Nat /\ Len(bs) \in Nat  BY LegalTypes
<1>2. Sound(bs)  BY TiesOf DEF Tied
<1>3. Arms(new, c) /\ Len(new) = 2
  <2>1. NewlyBegun(new) /\ Len(new) = 2  BY <1>1, NewTwo DEF Labelled
  <2>2. \A k \in 1 .. 2 : new[k].of = c /\ new[k].name \notin Headings \cup LatchNames
    BY DEF BasicBlock, Headings, LatchNames
  <2>. QED  BY <2>1, <2>2 DEF Arms
<1>. HIDE DEF new
<1>4. Range(i.arg) \subseteq Len(bs) + 1 .. Len(bs) + Len(new)  BY <1>1, <1>3
<1>5. /\ Wrote(bs, bs2, {<<c, i>>}) /\ Sound(bs2)
      /\ \A t \in Len(bs) + 1 .. Len(bs) + Len(new) : Begun(bs2, c, t)
      /\ \A t \in Range(i.arg) : Edge(bs2, c, t)
  BY <1>1, <1>2, <1>3, <1>4, ArmsBegun
<1>. HIDE DEF bs2
<1>6. Begun(bs2, c, Len(bs) + 1) /\ Begun(bs2, c, Len(bs) + 1 + 1)
  <2>1. Len(bs) + 1 \in Len(bs) + 1 .. Len(bs) + Len(new)
        /\ Len(bs) + 1 + 1 \in Len(bs) + 1 .. Len(bs) + Len(new)
    BY <1>1, <1>3
  <2>. QED  BY <1>5, <2>1
<1>7. Edge(bs2, c, Len(bs) + 1) /\ Edge(bs2, c, Len(bs) + 1 + 1)
  <2>1. Len(bs) + 1 + 1 = Len(bs) + 2  BY <1>1
  <2>. QED  BY <1>5, <2>1
<1>8. f \in Frames /\ "rhs" \in Stages \ {"body", "inc"} /\ "rhs" \in Choosing
  BY <1>1 DEF Frames, ShortCircuitFrame, Stages, Choosing
<1>9. Anchor(bs2, "rhs", f) = c  BY DEF Anchor
<1>10. Stands(bs2, "rhs", f)  BY <1>6, <1>7, <1>9 DEF Stands
<1>. HIDE DEF f
<1>11. <<"rhs">> \o st \in Ties(bs2, Len(bs) + 1, <<f>> \o fr, br, cn)
  BY <1>5, <1>6, <1>7, <1>8, <1>9, <1>10, TiesPush
<1>. QED  BY <1>11 DEF bs2, new, f

LEMMA TiesArms ==
  ASSUME NEW bs, NEW c, NEW fr, NEW st, Legal(bs, c, fr, st), NEW br, NEW cn,
         st \in Ties(bs, c, fr, br, cn), NEW i, Jump(i),
         Range(i.arg) = {Len(bs) + 1, Len(bs) + 2}
  PROVE  <<"then">> \o st \in
           Ties(Emit(bs \o <<BasicBlock("ternary.then", c), BasicBlock("ternary.else", c),
                             BasicBlock("ternary.merge", c)>>, c, <<i>>),
                Len(bs) + 1, <<[first |-> Len(bs), thenEnd |-> 0]>> \o fr, br, cn)
<1>. DEFINE new == <<BasicBlock("ternary.then", c), BasicBlock("ternary.else", c),
                     BasicBlock("ternary.merge", c)>>
            f == [first |-> Len(bs), thenEnd |-> 0]
            bs2 == Emit(bs \o new, c, <<i>>)
<1>1. Code(bs) /\ c \in DOMAIN bs /\ c \in Nat /\ Len(bs) \in Nat  BY LegalTypes
<1>2. Sound(bs)  BY TiesOf DEF Tied
<1>3. Arms(new, c) /\ Len(new) = 3
  <2>1. NewlyBegun(new) /\ Len(new) = 3  BY <1>1, NewThree DEF Labelled
  <2>2. \A k \in 1 .. 3 : new[k].of = c /\ new[k].name \notin Headings \cup LatchNames
    BY DEF BasicBlock, Headings, LatchNames
  <2>. QED  BY <2>1, <2>2 DEF Arms
<1>. HIDE DEF new
<1>4. Range(i.arg) \subseteq Len(bs) + 1 .. Len(bs) + Len(new)  BY <1>1, <1>3
<1>5. /\ Wrote(bs, bs2, {<<c, i>>}) /\ Sound(bs2)
      /\ \A t \in Len(bs) + 1 .. Len(bs) + Len(new) : Begun(bs2, c, t)
      /\ \A t \in Range(i.arg) : Edge(bs2, c, t)
  BY <1>1, <1>2, <1>3, <1>4, ArmsBegun
<1>. HIDE DEF bs2
<1>6. Begun(bs2, c, Len(bs) + 1) /\ Begun(bs2, c, Len(bs) + 2) /\ Begun(bs2, c, Len(bs) + 3)
  <2>1. Len(bs) + 1 .. Len(bs) + Len(new) = {Len(bs) + 1, Len(bs) + 2, Len(bs) + 3}
    BY <1>1, <1>3
  <2>. QED  BY <1>5, <2>1
<1>7. Edge(bs2, c, Len(bs) + 1) /\ Edge(bs2, c, Len(bs) + 2)  BY <1>5
<1>8. f \in Frames /\ "then" \in Stages \ {"body", "inc"} /\ "then" \in Choosing
  BY <1>1 DEF Frames, TernaryFrame, Stages, Choosing
<1>9. Anchor(bs2, "then", f) = c  BY <1>6 DEF Anchor, Begun
<1>10. Stands(bs2, "then", f)  BY <1>6, <1>7, <1>9 DEF Stands
<1>. HIDE DEF f
<1>11. <<"then">> \o st \in Ties(bs2, Len(bs) + 1, <<f>> \o fr, br, cn)
  BY <1>5, <1>6, <1>7, <1>8, <1>9, <1>10, TiesPush
<1>. QED  BY <1>11 DEF bs2, new, f

LEMMA IfBlocksArms ==
  ASSUME NEW n \in Ifs, NEW c \in Nat
  PROVE  Arms(IfBlocks(n, c), c) /\ Len(IfBlocks(n, c)) = Len(n.arms) + 1 /\ Len(n.arms) \in {1, 2}
<1>. DEFINE new == IfBlocks(n, c)
            x == BasicBlock("then", c)
            y == BasicBlock("else", c)
            z == BasicBlock("ifend", c)
<1>1. NewlyBegun(new) /\ Len(new) = Len(n.arms) + 1  BY IfBlocksAre
<1>2. Len(n.arms) \in {1, 2}  BY DEF Ifs, Lists
<1>3. \A b \in {x, y, z} : b.of = c /\ b.name \notin Headings \cup LatchNames
  BY DEF BasicBlock, Headings, LatchNames
<1>. HIDE DEF x, y, z
<1>4. new = <<x>> \o (IF Len(n.arms) = 2 THEN <<y>> ELSE <<>>) \o <<z>>  BY DEF IfBlocks, x, y, z
<1>5. \A k \in 1 .. Len(new) : new[k] \in {x, y, z}
  <2>1. <<x>> \in Seq({x, y, z}) /\ <<y>> \in Seq({x, y, z}) /\ <<z>> \in Seq({x, y, z})
        /\ <<>> \in Seq({x, y, z})
    OBVIOUS
  <2>2. new \in Seq({x, y, z})
    <3>1. CASE Len(n.arms) = 2  BY <2>1, <3>1, <1>4, ConcatProperties
    <3>2. CASE Len(n.arms) # 2  BY <2>1, <3>2, <1>4, ConcatProperties
    <3>. QED  BY <3>1, <3>2
  <2>. QED  BY <2>2, ElementOfSeq
<1>. HIDE DEF new
<1>6. Arms(new, c)  BY <1>1, <1>3, <1>5 DEF Arms
<1>. QED  BY <1>1, <1>2, <1>6 DEF new

LEMMA TiesThen ==
  ASSUME NEW bs, NEW c, NEW fr, NEW st, Legal(bs, c, fr, st), NEW br, NEW cn,
         st \in Ties(bs, c, fr, br, cn), Relaxed(st), NEW n \in Ifs, NEW i, Jump(i),
         Range(i.arg) = {Len(bs) + 1, Len(bs) + 2}
  PROVE  <<FirstArm(n)>> \o st \in
           Ties(Emit(bs \o IfBlocks(n, c), c, <<i>>), Len(bs) + 1,
                <<[else |-> Len(bs) + 2, end |-> Len(bs) + Len(n.arms) + 1, ends |-> {}]>> \o fr, br, cn)
<1>. DEFINE new == IfBlocks(n, c)
            f == [else |-> Len(bs) + 2, end |-> Len(bs) + Len(n.arms) + 1, ends |-> {}]
            bs2 == Emit(bs \o new, c, <<i>>)
            s == FirstArm(n)
<1>1. Code(bs) /\ c \in DOMAIN bs /\ c \in Nat /\ Len(bs) \in Nat  BY LegalTypes
<1>2. Sound(bs)  BY TiesOf DEF Tied
<1>3. Arms(new, c) /\ Len(new) = Len(n.arms) + 1 /\ Len(n.arms) \in {1, 2}  BY <1>1, IfBlocksArms
<1>. HIDE DEF new
<1>a. Len(new) \in Nat /\ Len(new) >= 2
  <2>1. Len(n.arms) = 1 \/ Len(n.arms) = 2  BY ONLY <1>3
  <2>2. Len(new) = Len(n.arms) + 1  BY ONLY <1>3
  <2>3. Len(new) = 2 \/ Len(new) = 3
    <3>1. CASE Len(n.arms) = 1
      <4>1. Len(new) = 1 + 1  BY ONLY <2>2, <3>1
      <4>. QED  BY ONLY <4>1
    <3>2. CASE Len(n.arms) = 2
      <4>1. Len(new) = 2 + 1  BY ONLY <2>2, <3>2
      <4>. QED  BY ONLY <4>1
    <3>. QED  BY ONLY <2>1, <3>1, <3>2
  <2>. QED  BY ONLY <2>3
<1>4. Range(i.arg) \subseteq Len(bs) + 1 .. Len(bs) + Len(new)  BY <1>1, <1>a
<1>5. /\ Wrote(bs, bs2, {<<c, i>>}) /\ Sound(bs2)
      /\ \A t \in Len(bs) + 1 .. Len(bs) + Len(new) : Begun(bs2, c, t)
      /\ \A t \in Range(i.arg) : Edge(bs2, c, t)
  BY <1>1, <1>2, <1>3, <1>4, ArmsBegun
<1>. HIDE DEF bs2
<1>6. Begun(bs2, c, Len(bs) + 1) /\ Begun(bs2, c, f.else) /\ Begun(bs2, c, f.end)
  <2>0. Len(bs) + Len(n.arms) + 1 = Len(bs) + Len(new)  BY <1>1, <1>3
  <2>1. {Len(bs) + 1, Len(bs) + 2, Len(bs) + Len(new)} \subseteq Len(bs) + 1 .. Len(bs) + Len(new)
    BY <1>1, <1>a
  <2>. QED  BY <1>5, <2>0, <2>1
<1>7. Edge(bs2, c, Len(bs) + 1)  BY <1>5
<1>8. f \in Frames /\ s \in {"two", "one"} /\ s \in Stages \ {"body", "inc"}
  BY <1>1, <1>3 DEF Frames, IfFrame, Stages, FirstArm
<1>. HIDE DEF f, s
<1>9. Anchor(bs2, s, f) = c  BY <1>6, <1>8 DEF Anchor, Begun
<1>10. Stands(bs2, s, f)  BY <1>6, <1>7, <1>8, <1>9 DEF Stands
<1>11. <<s>> \o st \in Ties(bs2, Len(bs) + 1, <<f>> \o fr, br, cn)
  BY <1>5, <1>6, <1>7, <1>8, <1>9, <1>10, TiesPush
<1>. QED  BY <1>11 DEF bs2, new, f, s


LEMMA NamesOf ==
  ASSUME NEW bs, NEW a, NEW b, Begun(bs, a, b), NEW c, Under(bs, c, a)
  PROVE  b \in DOMAIN bs /\ Under(bs, c, bs[b].of) /\ bs[b].name \notin Headings
  BY DEF Begun

\* The operands' values meet.
LEMMA TiesMerge ==
  ASSUME NEW bs, NEW c, NEW fr, NEW st, Legal(bs, c, fr, st), NEW br, NEW cn,
         st \in Ties(bs, c, fr, br, cn), st # <<>>, st[1] = "rhs", NEW f, f = fr[1],
         NEW phi, phi.op = "phi", \A in \in Range(phi.arg) : in[1] \in {f.lhs, c}
  PROVE  Tail(st) \in Ties(Emit(Emit(bs, c, <<Br(f.merge)>>), f.merge, <<phi>>), f.merge,
                           Tail(fr), br, cn)
<1>. DEFINE m == f.merge
            a == f.lhs
            mid == Emit(bs, c, <<Br(m)>>)
            bs2 == Emit(mid, m, <<phi>>)
<1>1. Code(bs) /\ c \in DOMAIN bs /\ Framed(fr, st)  BY LegalTypes
<1>2. Tied(bs, c, fr, st) /\ Exits(fr, st, br, cn) /\ st \in Seq(Stages)  BY TiesOf
<1>3. Stands(bs, "rhs", f) /\ Place(bs, "rhs", f, c)  BY <1>1, <1>2, TiedOuter
<1>4. Begun(bs, a, m) /\ Edge(bs, a, m) /\ Under(bs, c, a) /\ Follows(bs, a, c)
      /\ Anchor(bs, st[1], fr[1]) = a
  BY <1>3 DEF Stands, Place, Firm, Choosing, Base, Anchor
<1>5. Sound(mid) /\ Wrote(bs, mid, {<<c, Br(m)>>}) /\ Code(mid) /\ m \in DOMAIN mid
  <2>1. m \in DOMAIN bs /\ Under(bs, c, bs[m].of) /\ bs[m].name \notin Headings  BY <1>4, NamesOf
  <2>2. Jump(Br(m)) /\ Range(Br(m).arg) = {m}  BY BranchTo
  <2>3. Sound(bs)  BY <1>2 DEF Tied
  <2>. QED  BY <1>1, <2>1, <2>2, <2>3, SoundBranch, BranchWrote
<1>. HIDE DEF mid
<1>6. Wrote(mid, bs2, {<<m, phi>>})  BY <1>5, BranchWrote
<1>. HIDE DEF bs2
<1>7. Wrote(bs, bs2, {<<c, Br(m)>>} \cup {<<m, phi>>})  BY <1>5, <1>6, WroteTwice
<1>8. Begun(bs2, a, m) /\ Follows(bs2, a, c)
  <2>1. Begun(bs2, a, m)  BY <1>4, <1>7 DEF Begun, Wrote
  <2>. QED  BY <2>1, <1>4, <1>7, FollowsStill
<1>9. Follows(bs2, m, a) /\ Under(bs2, m, a)  BY <1>8, UnderOf DEF Begun
<1>10. Sound(bs2)
  <2>0. f.lhs \in DOMAIN bs2 /\ c \in DOMAIN bs2  BY <1>1, <1>4, <1>7, EdgeFrom DEF Wrote
  <2>1. ASSUME NEW in \in Range(phi.arg) PROVE in[1] \in DOMAIN bs2 /\ Follows(bs2, m, in[1])
    BY <2>0, <1>8, <1>9, FollowsTrans
  <2>2. Apt(bs2, m, phi)  BY <2>1 DEF Apt, Branching
  <2>3. DOMAIN bs2 = DOMAIN mid  BY <1>5, BranchWrote DEF bs2
  <2>4. \A b, i : <<b, i>> \in {<<m, phi>>} => Apt(bs2, b, i)  BY <2>2
  <2>. QED  BY <1>5, <1>6, <2>3, <2>4, SoundStill
<1>11. Follows(bs2, a, m)
  <2>1. Edge(bs2, a, m)  BY <1>4, <1>7, EdgeStill
  <2>. QED  BY <2>1, FollowsEdge
<1>. DEFINE N == {<<c, Br(m)>>} \cup {<<m, phi>>}
<1>. HIDE DEF N, m, a
<1>12. Wrote(bs, bs2, N)  BY <1>7 DEF N
<1>13. Tied(bs2, m, Tail(fr), Tail(st))
  BY <1>1, <1>2, <1>4, <1>9, <1>10, <1>11, <1>12, TieEnds
<1>14. Exits(Tail(fr), Tail(st), br, cn)  BY <1>1, <1>2, ExitsEnd
<1>15. Tail(st) \in Seq(Stages)  BY <1>2, TailLevels
<1>. QED  BY <1>13, <1>14, <1>15 DEF Ties, bs2, mid, m

\* The first arm of a choice is through.
LEMMA TiesElseArm ==
  ASSUME NEW bs, NEW c, NEW fr, NEW st, Legal(bs, c, fr, st), NEW br, NEW cn,
         st \in Ties(bs, c, fr, br, cn), st # <<>>, st[1] = "then"
  PROVE  <<"join">> \o Tail(st) \in Ties(bs, fr[1].first + 2, [fr EXCEPT ![1].thenEnd = c], br, cn)
<1>. DEFINE f == fr[1]
            f2 == [f EXCEPT !.thenEnd = c]
            a == bs[f.first + 3].of
<1>1. Code(bs) /\ c \in DOMAIN bs /\ Framed(fr, st) /\ c \in Nat  BY LegalTypes
<1>2. Tied(bs, c, fr, st) /\ Exits(fr, st, br, cn) /\ st \in Seq(Stages)  BY TiesOf
<1>3. Stands(bs, "then", f) /\ Place(bs, "then", f, c)  BY <1>1, <1>2, TiedOuter
<1>4. /\ Begun(bs, a, f.first + 2) /\ Begun(bs, a, f.first + 3) /\ Edge(bs, a, f.first + 2)
      /\ Under(bs, c, a) /\ Follows(bs, a, c) /\ Anchor(bs, st[1], f) = a
  BY <1>3 DEF Stands, Place, Firm, Choosing, Base, Anchor
<1>5. f \in TernaryFrame  BY LegalFrame
<1>6. f2 \in TernaryFrame /\ f2.first = f.first /\ f2.thenEnd = c  BY <1>1, <1>5 DEF TernaryFrame
<1>7. f2 \in Frames  BY <1>6 DEF Frames
<1>8. [fr EXCEPT ![1].thenEnd = c] = [fr EXCEPT ![1] = f2]  OBVIOUS
<1>. HIDE DEF f2
<1>9. Anchor(bs, "join", f2) = a  BY <1>6 DEF Anchor
<1>10. Stands(bs, "join", f2)  BY <1>4, <1>6, <1>9 DEF Stands
<1>11. Under(bs, f.first + 2, a) /\ Follows(bs, a, f.first + 2)
  BY <1>4, UnderOf, FollowsEdge DEF Begun
<1>12. Place(bs, "join", f2, f.first + 2)  BY <1>9, <1>11 DEF Place, Base
<1>13. Wrote(bs, bs, {}) /\ Sound(bs)  BY <1>2, WroteNone DEF Tied
<1>14. "join" \in Stages /\ "join" \in Stages \ {"body"} /\ "join" \in Choosing  BY DEF Stages, Choosing
<1>. DEFINE v == a
            c2 == f.first + 2
<1>. HIDE DEF a, c2
<1>15. Tied(bs, c2, [fr EXCEPT ![1] = f2], <<"join">> \o Tail(st))
  BY <1>1, <1>2, <1>4, <1>7, <1>9, <1>10, <1>11, <1>12, <1>13, <1>14, TieGoesOn DEF c2
<1>16. Exits([fr EXCEPT ![1] = f2], <<"join">> \o Tail(st), br, cn)
  BY <1>1, <1>2, <1>7, <1>14, ExitsGoOn
<1>17. <<"join">> \o Tail(st) \in Seq(Stages)
  <2>1. Tail(st) \in Seq(Stages)  BY <1>2, TailLevels
  <2>. QED  BY <2>1, <1>14, Pushed
<1>. QED  BY <1>8, <1>15, <1>16, <1>17 DEF Ties, c2


LEMMA TiesGoOn ==
  ASSUME NEW bs, NEW c, NEW fr, NEW st, Legal(bs, c, fr, st), NEW br, NEW cn,
         st \in Ties(bs, c, fr, br, cn), st # <<>>, st[1] # "body",
         NEW bs2, NEW N, Wrote(bs, bs2, N), Sound(bs2),
         NEW f \in Frames, NEW s \in Stages \ {"body"}, NEW c2, NEW v, v = Anchor(bs, st[1], fr[1]),
         Under(bs2, c2, v), st[1] \in Choosing => s \in Choosing /\ Follows(bs2, v, c2),
         Stands(bs2, s, f), Place(bs2, s, f, c2), Anchor(bs2, s, f) = v
  PROVE  <<s>> \o Tail(st) \in Ties(bs2, c2, [fr EXCEPT ![1] = f], br, cn)
<1>1. Framed(fr, st)  BY LegalTypes
<1>2. Tied(bs, c, fr, st) /\ Exits(fr, st, br, cn) /\ st \in Seq(Stages)  BY TiesOf
<1>3. Tied(bs2, c2, [fr EXCEPT ![1] = f], <<s>> \o Tail(st))  BY <1>1, <1>2, TieGoesOn
<1>4. Exits([fr EXCEPT ![1] = f], <<s>> \o Tail(st), br, cn)  BY <1>1, <1>2, ExitsGoOn
<1>5. <<s>> \o Tail(st) \in Seq(Stages)
  <2>1. Tail(st) \in Seq(Stages)  BY <1>2, TailLevels
  <2>. QED  BY <2>1, Pushed
<1>. QED  BY <1>3, <1>4, <1>5 DEF Ties

LEMMA TiesOver ==
  ASSUME NEW bs, NEW c, NEW fr, NEW st, Legal(bs, c, fr, st), NEW br, NEW cn,
         st \in Ties(bs, c, fr, br, cn), st # <<>>, st[1] # "body",
         NEW bs2, NEW N, Wrote(bs, bs2, N), Sound(bs2),
         NEW c2, NEW v, v = Anchor(bs, st[1], fr[1]),
         Under(bs2, c2, v), st[1] \in Choosing => Follows(bs2, v, c2)
  PROVE  Tail(st) \in Ties(bs2, c2, Tail(fr), br, cn)
<1>1. Framed(fr, st)  BY LegalTypes
<1>2. Tied(bs, c, fr, st) /\ Exits(fr, st, br, cn) /\ st \in Seq(Stages)  BY TiesOf
<1>3. Tied(bs2, c2, Tail(fr), Tail(st))  BY <1>1, <1>2, TieEnds
<1>4. Exits(Tail(fr), Tail(st), br, cn)  BY <1>1, <1>2, ExitsEnd
<1>5. Tail(st) \in Seq(Stages)  BY <1>2, TailLevels
<1>. QED  BY <1>3, <1>4, <1>5 DEF Ties

\* What is known of the innermost construct.
LEMMA TiesInner ==
  ASSUME NEW bs, NEW c, NEW fr, NEW st, Legal(bs, c, fr, st), NEW br, NEW cn,
         st \in Ties(bs, c, fr, br, cn), st # <<>>
  PROVE  /\ Sound(bs) /\ Code(bs) /\ c \in DOMAIN bs /\ c \in Nat
         /\ Stands(bs, st[1], fr[1]) /\ Place(bs, st[1], fr[1], c)
<1>1. Framed(fr, st) /\ Code(bs) /\ c \in DOMAIN bs /\ c \in Nat  BY LegalTypes
<1>2. Tied(bs, c, fr, st)  BY TiesOf
<1>3. Stands(bs, st[1], fr[1]) /\ Place(bs, st[1], fr[1], c)  BY <1>1, <1>2, TiedOuter
<1>. QED  BY <1>1, <1>2, <1>3 DEF Tied

\* A branch to a block that a stands before, out of one that lies under a.
LEMMA BranchInto ==
  ASSUME NEW bs, Code(bs), NEW c \in DOMAIN bs, Sound(bs), NEW a, NEW m, Begun(bs, a, m),
         Under(bs, c, a), NEW bs2, bs2 = Emit(bs, c, <<Br(m)>>)
  PROVE  /\ Wrote(bs, bs2, {<<c, Br(m)>>}) /\ Sound(bs2) /\ Code(bs2) /\ DOMAIN bs2 = DOMAIN bs
         /\ Edge(bs2, c, m) /\ Begun(bs2, a, m)
<1>1. m \in DOMAIN bs /\ Under(bs, c, bs[m].of) /\ bs[m].name \notin Headings  BY NamesOf
<1>2. Jump(Br(m)) /\ Range(Br(m).arg) = {m}  BY BranchTo
<1>3. Sound(bs2)  BY <1>1, <1>2, SoundBranch
<1>4. /\ Wrote(bs, bs2, {<<c, Br(m)>>}) /\ DOMAIN bs2 = DOMAIN bs /\ Code(bs2)
      /\ \A t \in Range(Br(m).arg) : Edge(bs2, c, t)
  BY <1>2, BranchWrote
<1>5. Begun(bs2, a, m)  BY <1>4 DEF Wrote, Begun
<1>. QED  BY <1>2, <1>3, <1>4, <1>5

\* A phi of values out of blocks that are reached with its own.
LEMMA PhiSound ==
  ASSUME NEW bs, Code(bs), NEW m \in DOMAIN bs, Sound(bs), NEW phi, phi.op = "phi",
         \A in \in Range(phi.arg) : in[1] \in DOMAIN bs /\ Follows(bs, m, in[1])
  PROVE  LET bs2 == Emit(bs, m, <<phi>>)
         IN  Wrote(bs, bs2, {<<m, phi>>}) /\ Sound(bs2)
<1>. DEFINE bs2 == Emit(bs, m, <<phi>>)
<1>1. Wrote(bs, bs2, {<<m, phi>>}) /\ DOMAIN bs2 = DOMAIN bs  BY BranchWrote
<1>. HIDE DEF bs2
<1>2. ASSUME NEW in \in Range(phi.arg) PROVE in[1] \in DOMAIN bs2 /\ Follows(bs2, m, in[1])
  BY <1>1, FollowsStill
<1>3. Apt(bs2, m, phi)  BY <1>2 DEF Apt, Branching
<1>4. \A b, i : <<b, i>> \in {<<m, phi>>} => Apt(bs2, b, i)  BY <1>3
<1>5. Sound(bs2)  BY <1>1, <1>4, SoundStill
<1>. QED  BY <1>1, <1>5 DEF bs2

\* Both arms meet.
LEMMA TiesJoin ==
  ASSUME NEW bs, NEW c, NEW fr, NEW st, Legal(bs, c, fr, st), NEW br, NEW cn,
         st \in Ties(bs, c, fr, br, cn), st # <<>>, st[1] = "join", NEW f, f = fr[1],
         NEW phi, phi.op = "phi", \A in \in Range(phi.arg) : in[1] \in {f.thenEnd, c},
         NEW m, m = f.first + 3
  PROVE  Tail(st) \in Ties(Emit(Emit(Emit(bs, f.thenEnd, <<Br(m)>>), c, <<Br(m)>>), m, <<phi>>), m,
                           Tail(fr), br, cn)
<1>. DEFINE t == f.thenEnd
            a == bs[m].of
            b1 == Emit(bs, t, <<Br(m)>>)
            b2 == Emit(b1, c, <<Br(m)>>)
            b3 == Emit(b2, m, <<phi>>)
<1>1. Sound(bs) /\ Code(bs) /\ c \in DOMAIN bs /\ Stands(bs, "join", f) /\ Place(bs, "join", f, c)
  BY TiesInner
<1>2. t \in DOMAIN bs  BY LegalFrame
<1>3. /\ Begun(bs, a, m) /\ Under(bs, t, a) /\ Follows(bs, a, t)
      /\ Under(bs, c, a) /\ Follows(bs, a, c) /\ Anchor(bs, st[1], fr[1]) = a
  BY <1>1 DEF Stands, Place, Firm, Choosing, Base, Anchor
<1>a. b1 = Emit(bs, t, <<Br(m)>>) /\ b2 = Emit(b1, c, <<Br(m)>>)  OBVIOUS
<1>. HIDE DEF a, t, b1, b2
<1>4. /\ Wrote(bs, b1, {<<t, Br(m)>>}) /\ Sound(b1) /\ Code(b1) /\ DOMAIN b1 = DOMAIN bs
      /\ Begun(b1, a, m)
  BY ONLY <1>1, <1>2, <1>3, <1>a, BranchInto
<1>5. /\ Wrote(b1, b2, {<<c, Br(m)>>}) /\ Sound(b2) /\ Code(b2) /\ DOMAIN b2 = DOMAIN b1
      /\ Begun(b2, a, m) /\ Edge(b2, c, m)
  <2>1. Under(b1, c, a)  BY <1>3, <1>4, UnderStill
  <2>2. Code(b1) /\ c \in DOMAIN b1 /\ Sound(b1) /\ Begun(b1, a, m) /\ b2 = Emit(b1, c, <<Br(m)>>)
    BY <1>1, <1>4, <1>a
  <2>. QED  BY ONLY <2>1, <2>2, BranchInto
<1>. DEFINE N == {<<t, Br(m)>>} \cup {<<c, Br(m)>>}
<1>6. Wrote(bs, b2, N)  BY <1>4, <1>5, WroteTwice
<1>. HIDE DEF N
<1>7. Follows(b2, m, a) /\ Under(b2, m, a) /\ m \in DOMAIN b2  BY <1>5, UnderOf DEF Begun
<1>8. Follows(b2, a, c) /\ Follows(b2, a, t)  BY <1>3, <1>6, FollowsStill
<1>9. ASSUME NEW in \in Range(phi.arg) PROVE in[1] \in DOMAIN b2 /\ Follows(b2, m, in[1])
  <2>1. in[1] = t \/ in[1] = c  BY DEF t
  <2>2. t \in DOMAIN b2 /\ c \in DOMAIN b2  BY <1>1, <1>2, <1>4, <1>5
  <2>. QED  BY <2>1, <2>2, <1>7, <1>8, FollowsTrans
<1>10. Wrote(b2, b3, {<<m, phi>>}) /\ Sound(b3)  BY <1>5, <1>7, <1>9, PhiSound
<1>11. Follows(b2, a, m)  BY <1>5, <1>8, FollowsEdge, FollowsTrans
<1>. HIDE DEF b3
<1>12. Wrote(bs, b3, N \cup {<<m, phi>>})  BY <1>6, <1>10, WroteTwice
<1>13. Under(b3, m, a) /\ Follows(b3, a, m)  BY <1>7, <1>10, <1>11, UnderStill, FollowsStill
<1>14. Tail(st) \in Ties(b3, m, Tail(fr), br, cn)  BY <1>3, <1>10, <1>12, <1>13, TiesOver
<1>. QED  BY <1>14 DEF b3, b2, b1, t

\* The first of two arms is through, or the only one.
LEMMA TiesSecondArm ==
  ASSUME NEW bs, NEW c, NEW fr, NEW st, Legal(bs, c, fr, st), NEW br, NEW cn,
         st \in Ties(bs, c, fr, br, cn), st # <<>>, st[1] = "two"
  PROVE  <<"arm2">> \o Tail(st) \in Ties(bs, fr[1].else, [fr EXCEPT ![1].ends = {c}], br, cn)
<1>. DEFINE f == fr[1]
            f2 == [f EXCEPT !.ends = {c}]
            a == bs[f.end].of
<1>1. /\ Sound(bs) /\ Code(bs) /\ c \in DOMAIN bs /\ c \in Nat
      /\ Stands(bs, "two", f) /\ Place(bs, "two", f, c)
  BY TiesInner
<1>2. /\ Begun(bs, a, f.else) /\ Begun(bs, a, f.end) /\ Under(bs, c, a)
      /\ Anchor(bs, st[1], fr[1]) = a
  BY <1>1 DEF Stands, Place, Anchor
<1>3. f \in IfFrame  BY LegalFrame
<1>4. f2 \in IfFrame /\ f2.end = f.end /\ f2.else = f.else /\ f2.ends = {c}  BY <1>1, <1>3 DEF IfFrame
<1>5. f2 \in Frames  BY <1>4 DEF Frames
<1>6. [fr EXCEPT ![1].ends = {c}] = [fr EXCEPT ![1] = f2]  OBVIOUS
<1>. HIDE DEF f2
<1>7. Anchor(bs, "arm2", f2) = a  BY <1>4 DEF Anchor
<1>8. Stands(bs, "arm2", f2)  BY <1>2, <1>4, <1>7 DEF Stands
<1>9. Under(bs, f.else, a)  BY <1>2, UnderOf DEF Begun
<1>10. Place(bs, "arm2", f2, f.else)  BY <1>7, <1>9 DEF Place, Firm, Choosing
<1>11. Wrote(bs, bs, {})  BY WroteNone
<1>12. "arm2" \in Stages \ {"body"} /\ st[1] \notin Choosing  BY DEF Stages, Choosing
<1>. DEFINE c2 == f.else
<1>. HIDE DEF a, c2
<1>13. <<"arm2">> \o Tail(st) \in Ties(bs, c2, [fr EXCEPT ![1] = f2], br, cn)
  BY <1>1, <1>2, <1>5, <1>7, <1>8, <1>9, <1>10, <1>11, <1>12, TiesGoOn DEF c2
<1>. QED  BY <1>6, <1>13 DEF c2

LEMMA TiesOnlyArm ==
  ASSUME NEW bs, NEW c, NEW fr, NEW st, Legal(bs, c, fr, st), NEW br, NEW cn,
         st \in Ties(bs, c, fr, br, cn), st # <<>>, st[1] = "one"
  PROVE  <<"one">> \o Tail(st) \in Ties(bs, c, [fr EXCEPT ![1].ends = {c}], br, cn)
<1>. DEFINE f == fr[1]
            f2 == [f EXCEPT !.ends = {c}]
            a == bs[f.end].of
<1>1. /\ Sound(bs) /\ Code(bs) /\ c \in DOMAIN bs /\ c \in Nat
      /\ Stands(bs, "one", f) /\ Place(bs, "one", f, c)
  BY TiesInner
<1>2. Begun(bs, a, f.end) /\ Under(bs, c, a) /\ Anchor(bs, st[1], fr[1]) = a
  BY <1>1 DEF Stands, Place, Anchor
<1>3. f \in IfFrame  BY LegalFrame
<1>4. f2 \in IfFrame /\ f2.end = f.end  BY <1>1, <1>3 DEF IfFrame
<1>5. f2 \in Frames  BY <1>4 DEF Frames
<1>6. [fr EXCEPT ![1].ends = {c}] = [fr EXCEPT ![1] = f2]  OBVIOUS
<1>. HIDE DEF f2
<1>7. Anchor(bs, "one", f2) = a  BY <1>4 DEF Anchor
<1>8. Stands(bs, "one", f2)  BY <1>2, <1>4, <1>7 DEF Stands
<1>9. Place(bs, "one", f2, c)  BY <1>2, <1>7 DEF Place, Firm, Choosing
<1>10. Wrote(bs, bs, {})  BY WroteNone
<1>11. "one" \in Stages \ {"body"} /\ st[1] \notin Choosing  BY DEF Stages, Choosing
<1>. HIDE DEF a
<1>12. <<"one">> \o Tail(st) \in Ties(bs, c, [fr EXCEPT ![1] = f2], br, cn)
  BY <1>1, <1>2, <1>5, <1>7, <1>8, <1>9, <1>10, <1>11, TiesGoOn
<1>. QED  BY <1>6, <1>12


LEMMA CloseAllWrote ==
  ASSUME NEW bs, Code(bs), NEW W, W \subseteq DOMAIN bs, NEW i
  PROVE  Wrote(bs, CloseAll(bs, W, i), {<<b, i>> : b \in W}) /\ DOMAIN CloseAll(bs, W, i) = DOMAIN bs
<1>. DEFINE bs2 == CloseAll(bs, W, i)
            N == {<<b, i>> : b \in W}
<1>1. PICK S : bs \in Seq(Block3(S))  BY DEF Code
<1>2. DOMAIN bs2 = DOMAIN bs /\ \A b \in DOMAIN bs : b \notin W => bs2[b] = bs[b]  BY DEF CloseAll
<1>3. ASSUME NEW b \in W
      PROVE  /\ bs2[b].of = bs[b].of /\ bs2[b].name = bs[b].name
             /\ \A j : Has(bs2, b, j) <=> Has(bs, b, j) \/ j = i
  <2>. DEFINE d == bs[b].code
  <2>1. bs[b] \in Block3(S)  BY <1>1, CodeDomain, ElementOfSeq
  <2>2. bs2[b] = [bs[b] EXCEPT !.code = Append(@, i)]  BY DEF CloseAll
  <2>3. bs2[b].of = bs[b].of /\ bs2[b].name = bs[b].name /\ bs2[b].code = Append(d, i)
    BY <2>1, <2>2 DEF Block3
  <2>4. d \in Seq(S)  BY <2>1 DEF Block3
  <2>5. d \in Seq(S \cup {i}) /\ i \in S \cup {i}  BY <2>4, SeqMonotonic
  <2>. HIDE DEF bs2, d
  <2>6. /\ Len(Append(d, i)) = Len(d) + 1 /\ Append(d, i) \in Seq(S \cup {i})
        /\ \A j \in 1 .. Len(d) : Append(d, i)[j] = d[j]
        /\ Append(d, i)[Len(d) + 1] = i
    BY <2>5, AppendProperties
  <2>7. Len(d) \in Nat /\ DOMAIN d = 1 .. Len(d) /\ DOMAIN Append(d, i) = 1 .. Len(d) + 1
    BY <2>5, <2>6, LenProperties
  <2>8. \A j \in 1 .. Len(d) + 1 : j \in 1 .. Len(d) \/ j = Len(d) + 1  BY <2>7
  <2>9. \A j \in 1 .. Len(d) : j \in 1 .. Len(d) + 1  BY <2>7
  <2>10. Len(d) + 1 \in 1 .. Len(d) + 1  BY <2>7
  <2>11. ASSUME NEW j
         PROVE  (\E k \in DOMAIN Append(d, i) : Append(d, i)[k] = j)
                  <=> (\E k \in DOMAIN d : d[k] = j) \/ j = i
    BY <2>6, <2>7, <2>8, <2>9, <2>10
  <2>12. b \in DOMAIN bs2 /\ b \in DOMAIN bs  BY <1>2
  <2>. QED  BY <2>3, <2>11, <2>12 DEF Has, d
<1>. HIDE DEF bs2
<1>4. ASSUME NEW b, NEW j PROVE Has(bs2, b, j) <=> Has(bs, b, j) \/ (b \in W /\ j = i)
  <2>1. CASE b \in W  BY <2>1, <1>3
  <2>2. CASE b \notin W  BY <2>2, <1>2 DEF Has
  <2>. QED  BY <2>1, <2>2
<1>5. \A b, j : <<b, j>> \in N <=> b \in W /\ j = i  OBVIOUS
<1>. HIDE DEF N
<1>6. \A b \in DOMAIN bs : b \in DOMAIN bs2 /\ bs2[b].of = bs[b].of /\ bs2[b].name = bs[b].name
  BY <1>2, <1>3
<1>7. Wrote(bs, bs2, N)  BY <1>4, <1>5, <1>6 DEF Wrote
<1>. QED  BY <1>2, <1>7 DEF bs2, N

\* The arms of an if go on behind it.
LEMMA TiesEnd ==
  ASSUME NEW bs, NEW c, NEW fr, NEW st, Legal(bs, c, fr, st), NEW br, NEW cn,
         st \in Ties(bs, c, fr, br, cn), st # <<>>,
         st[1] = "arm2" \/ (st[1] = "one" /\ fr[1].ends = {c}),
         NEW m, m = fr[1].end, NEW W, W \subseteq fr[1].ends \cup {c}
  PROVE  Tail(st) \in Ties(CloseAll(bs, W, Br(m)), m, Tail(fr), br, cn)
<1>. DEFINE f == fr[1]
            a == bs[m].of
            bs2 == CloseAll(bs, W, Br(m))
            N == {<<b, Br(m)>> : b \in W}
<1>1. Sound(bs) /\ Code(bs) /\ c \in DOMAIN bs /\ Stands(bs, st[1], f) /\ Place(bs, st[1], f, c)
  BY TiesInner
<1>2. /\ Begun(bs, a, m) /\ Under(bs, c, a) /\ Anchor(bs, st[1], fr[1]) = a
      /\ st[1] = "arm2" => \A b \in f.ends : Under(bs, b, a)
  BY <1>1 DEF Stands, Place, Anchor
<1>3. W \subseteq DOMAIN bs
  <2>1. st[1] = "arm2" => f.ends \subseteq DOMAIN bs  BY LegalFrame
  <2>. QED  BY <1>1, <2>1
<1>4. \A b \in W : Under(bs, b, a)  BY <1>2
<1>. HIDE DEF a
<1>5. Wrote(bs, bs2, N) /\ DOMAIN bs2 = DOMAIN bs  BY <1>1, <1>3, CloseAllWrote
<1>. HIDE DEF bs2
<1>6. ASSUME NEW b, NEW i, <<b, i>> \in N PROVE Apt(bs2, b, i)
  <2>1. b \in W /\ i = Br(m)  BY <1>6
  <2>2. m \in DOMAIN bs /\ Under(bs, b, bs[m].of) /\ bs[m].name \notin Headings
    BY <2>1, <1>2, <1>4, NamesOf
  <2>3. Jump(Br(m)) /\ Range(Br(m).arg) = {m}  BY BranchTo
  <2>4. Apt(bs, b, i)  BY <2>1, <2>2, <2>3, JumpBranches DEF Apt
  <2>. QED  BY <1>5, <2>4, AptStill
<1>. HIDE DEF N
<1>7. Sound(bs2)  BY <1>1, <1>5, <1>6, SoundStill
<1>8. Under(bs2, m, a)
  <2>1. Under(bs, m, a)  BY <1>2, UnderOf DEF Begun
  <2>. QED  BY <1>5, <2>1, UnderStill
<1>9. st[1] \notin Choosing /\ st[1] # "body"  BY DEF Choosing
<1>10. Tail(st) \in Ties(bs2, m, Tail(fr), br, cn)  BY <1>2, <1>5, <1>7, <1>8, <1>9, TiesOver
<1>. QED  BY <1>10 DEF bs2

\* A loop is begun.
LEMMA TiesHeader ==
  ASSUME NEW bs, NEW c, NEW fr, NEW st, Legal(bs, c, fr, st), NEW br, NEW cn,
         st \in Ties(bs, c, fr, br, cn), Relaxed(st), NEW n \in Loops, NEW h, h = Len(bs) + 1,
         NEW bs2, bs2 = Emit(bs \o LoopBlocks(n, c, h), c, <<Br(h)>>)
  PROVE  /\ <<"cond">> \o st \in Ties(bs2, h, <<[header |-> h]>> \o fr, br, cn)
         /\ Code(bs2) /\ h \in DOMAIN bs2 /\ Framed(<<[header |-> h]>> \o fr, <<"cond">> \o st)
<1>. DEFINE new == LoopBlocks(n, c, h)
            f == [header |-> h]
<1>1. Code(bs) /\ c \in DOMAIN bs /\ c \in Nat /\ Len(bs) \in Nat /\ DOMAIN bs = 1 .. Len(bs)
      /\ Framed(fr, st) /\ h \in Nat
  BY LegalTypes
<1>2. Tied(bs, c, fr, st) /\ Exits(fr, st, br, cn) /\ st \in Seq(Stages) /\ Sound(bs)
  BY TiesOf DEF Tied
<1>3. NewlyBegun(new) /\ Len(new) = 4  BY <1>1, LoopBlocksAre
<1>4. /\ new[1].of = c
      /\ \A k \in 2 .. 4 : new[k].of = h /\ new[k].name \notin Headings
      /\ new[2].name \notin LatchNames /\ new[4].name \notin LatchNames /\ new[1].name \notin LatchNames
  BY DEF LoopBlocks, BasicBlock, BlockNames, Headings, LatchNames
<1>. HIDE DEF new
<1>5. Jump(Br(h)) /\ Range(Br(h).arg) = {h}  BY BranchTo
<1>6. /\ Wrote(bs, bs2, {<<c, Br(h)>>}) /\ DOMAIN bs2 = 1 .. Len(bs) + 4
      /\ \A k \in 1 .. 4 : bs2[Len(bs) + k].of = new[k].of /\ bs2[Len(bs) + k].name = new[k].name
      /\ Edge(bs2, c, h) /\ Code(bs2)
  <2>1. LET b2 == Emit(bs \o new, c, <<Br(h)>>)
         IN  /\ Wrote(bs, b2, {<<c, Br(h)>>}) /\ DOMAIN b2 = 1 .. Len(bs) + Len(new)
             /\ \A k \in 1 .. Len(new) :
                  b2[Len(bs) + k].of = new[k].of /\ b2[Len(bs) + k].name = new[k].name
             /\ \A t \in Range(Br(h).arg) : Edge(b2, c, t)
             /\ Code(b2)
    BY ONLY <1>1, <1>3, <1>5, BeginWrote
  <2>2. bs2 = Emit(bs \o new, c, <<Br(h)>>)  BY DEF new
  <2>. QED  BY ONLY <2>1, <2>2, <1>3, <1>5
<1>7. /\ bs2[h].of = c /\ h \in DOMAIN bs2 /\ bs2[h].name \notin LatchNames
      /\ \A k \in 1 .. 3 : Begun(bs2, h, h + k)
      /\ bs2[h + 1].name \notin LatchNames /\ bs2[h + 3].name \notin LatchNames
  <2>1. h = Len(bs) + 1 /\ h + 1 = Len(bs) + 2 /\ h + 2 = Len(bs) + 3 /\ h + 3 = Len(bs) + 4  BY <1>1
  <2>2. {h, h + 1, h + 2, h + 3} \subseteq DOMAIN bs2  BY <2>1, <1>1, <1>6
  <2>3. bs2[h].of = c /\ bs2[h].name = new[1].name  BY <2>1, <1>4, <1>6
  <2>4. bs2[h + 1].of = h /\ bs2[h + 1].name = new[2].name  BY <2>1, <1>4, <1>6
  <2>5. bs2[h + 2].of = h /\ bs2[h + 2].name = new[3].name  BY <2>1, <1>4, <1>6
  <2>6. bs2[h + 3].of = h /\ bs2[h + 3].name = new[4].name  BY <2>1, <1>4, <1>6
  <2>7. Begun(bs2, h, h + 1) /\ Begun(bs2, h, h + 2) /\ Begun(bs2, h, h + 3)
    BY <2>2, <2>4, <2>5, <2>6, <1>4 DEF Begun
  <2>. QED  BY <2>2, <2>3, <2>4, <2>6, <2>7, <1>4
<1>8. Under(bs2, c, c) /\ Under(bs2, h, h) /\ Follows(bs2, h, h)  BY UnderSelf
<1>9. Apt(bs2, c, Br(h))  BY <1>5, <1>7, <1>8, JumpBranches DEF Apt
<1>10. Sound(bs2)
  <2>1. \A b, i : <<b, i>> \in {<<c, Br(h)>>} => Apt(bs2, b, i)  BY <1>9
  <2>2. ASSUME NEW b \in DOMAIN bs2, b \notin DOMAIN bs, bs2[b].name \in LatchNames
        PROVE  b = bs2[b].of + 2
    <3>1. b = h \/ b = h + 1 \/ b = h + 2 \/ b = h + 3  BY <2>2, <1>1, <1>6
    <3>. QED  BY <3>1, <2>2, <1>7 DEF Begun
  <2>. QED  BY <2>1, <2>2, <1>2, <1>6, SoundStill
<1>11. Under(bs2, h, c) /\ Follows(bs2, c, h)  BY <1>6, <1>7, UnderOf, FollowsEdge
<1>12. f \in Frames /\ "cond" \in Stages /\ "cond" \in Stages \ {"body"}
  BY <1>1 DEF Frames, LoopFrame, Stages
<1>13. Anchor(bs2, "cond", f) = h /\ Stands(bs2, "cond", f) /\ Place(bs2, "cond", f, h)
  BY <1>7, <1>8 DEF Anchor, Stands, Place, Firm, Choosing
<1>. HIDE DEF f
<1>14. Tied(bs2, h, <<f>> \o fr, <<"cond">> \o st)
  BY <1>1, <1>2, <1>6, <1>10, <1>11, <1>12, <1>13, TieBegin
<1>15. Exits(<<f>> \o fr, <<"cond">> \o st, br, cn)  BY <1>1, <1>2, <1>12, ExitsBegin
<1>16. <<"cond">> \o st \in Seq(Stages)  BY <1>2, <1>12, Pushed
<1>17. Framed(<<f>> \o fr, <<"cond">> \o st)  BY <1>1, <1>12, FramedPush
<1>. QED  BY <1>6, <1>7, <1>14, <1>15, <1>16, <1>17 DEF Ties, f

\* What is known of the innermost loop.
LEMMA LoopInner ==
  ASSUME NEW bs, NEW c, NEW fr, NEW st, Legal(bs, c, fr, st), NEW br, NEW cn,
         st \in Ties(bs, c, fr, br, cn), st # <<>>, st[1] \in {"cond", "body", "inc"},
         NEW h, h = fr[1].header
  PROVE  /\ Sound(bs) /\ Code(bs) /\ c \in DOMAIN bs /\ h \in Nat /\ h \in DOMAIN bs
         /\ Begun(bs, h, h + 1) /\ Begun(bs, h, h + 2) /\ Begun(bs, h, h + 3)
         /\ Under(bs, c, h) /\ (st[1] = "inc" => Follows(bs, h + 2, c))
         /\ Anchor(bs, st[1], fr[1]) = h
<1>. DEFINE f == fr[1]
<1>1. Sound(bs) /\ Code(bs) /\ c \in DOMAIN bs /\ Stands(bs, st[1], f) /\ Place(bs, st[1], f, c)
  BY TiesInner
<1>2. h \in Nat
  <2>1. f \in LoopFrame  BY LegalFrame
  <2>. QED  BY <2>1 DEF LoopFrame
<1>3. Anchor(bs, st[1], f) = h  BY DEF Anchor
<1>4. h \in DOMAIN bs /\ \A i \in 1 .. 3 : Begun(bs, h, h + i)  BY <1>1, <1>3 DEF Stands
<1>5. st[1] = "inc" => Follows(bs, h + 2, c)
  BY <1>1, <1>3 DEF Place, Firm, Base
<1>6. Begun(bs, h, h + 1) /\ Begun(bs, h, h + 2) /\ Begun(bs, h, h + 3)  BY <1>4
<1>7. Under(bs, c, h)  BY <1>1, <1>3 DEF Place
<1>. QED  BY <1>1, <1>2, <1>3, <1>4, <1>5, <1>6, <1>7

\* A loop's body is begun.
LEMMA TiesBody ==
  ASSUME NEW bs, NEW c, NEW fr, NEW st, Legal(bs, c, fr, st), NEW br, NEW cn,
         st \in Ties(bs, c, fr, br, cn), st # <<>>, st[1] = "cond", NEW h, h = fr[1].header,
         NEW bs2, bs2 = Emit(bs, c, <<CondBr(h + 1, h + 3)>>)
  PROVE  <<"body">> \o Tail(st) \in Ties(bs2, h + 1, fr, <<h + 3>> \o br, <<h + 2>> \o cn)
<1>. DEFINE i == CondBr(h + 1, h + 3)
            N == {<<c, i>>}
            f == fr[1]
<1>1. /\ Sound(bs) /\ Code(bs) /\ c \in DOMAIN bs /\ h \in Nat /\ h \in DOMAIN bs
      /\ Begun(bs, h, h + 1) /\ Begun(bs, h, h + 2) /\ Begun(bs, h, h + 3)
      /\ Under(bs, c, h) /\ Anchor(bs, st[1], fr[1]) = h
  BY LoopInner
<1>2. Framed(fr, st)  BY LegalTypes
<1>3. Tied(bs, c, fr, st) /\ Exits(fr, st, br, cn) /\ st \in Seq(Stages)  BY TiesOf
<1>4. Jump(i) /\ Range(i.arg) = {h + 1, h + 3}  BY BranchTo
<1>5. \A t \in Range(i.arg) : t \in DOMAIN bs /\ Under(bs, c, bs[t].of) /\ bs[t].name \notin Headings
  <2>1. \A t \in {h + 1, h + 3} : Begun(bs, h, t)  BY <1>1
  <2>. QED  BY <2>1, <1>1, <1>4, NamesOf
<1>. HIDE DEF i
<1>6. Sound(bs2)  BY <1>1, <1>4, <1>5, SoundBranch DEF i
<1>7. Wrote(bs, bs2, N)  BY <1>1, BranchWrote DEF i
<1>. HIDE DEF N
<1>8. f \in LoopFrame /\ f \in Frames /\ [fr EXCEPT ![1] = f] = fr  BY LegalFrame
<1>9. Stands(bs2, "body", f) /\ Anchor(bs2, "body", f) = h
  <2>1. Stands(bs, "cond", f)  BY TiesInner
  <2>2. Stands(bs2, "cond", f)
    <3>1. "cond" \in Stages  BY DEF Stages
    <3>. QED  BY <2>1, <3>1, <1>7, StandsStill
  <2>3. Stands(bs2, "body", f)  BY <2>2 DEF Stands, Anchor
  <2>. QED  BY <2>3 DEF Anchor
<1>10. Under(bs2, h + 1, h)
  <2>1. Under(bs, h + 1, h)  BY <1>1, UnderOf DEF Begun
  <2>. QED  BY <2>1, <1>7, UnderStill
<1>11. Place(bs2, "body", f, h + 1)  BY <1>9, <1>10 DEF Place, Firm, Choosing
<1>12. "body" \in Stages /\ st[1] \notin Choosing  BY DEF Stages, Choosing
<1>. HIDE DEF f
<1>13. Tied(bs2, h + 1, [fr EXCEPT ![1] = f], <<"body">> \o Tail(st))
  BY <1>1, <1>2, <1>3, <1>6, <1>7, <1>8, <1>9, <1>10, <1>11, <1>12, TieGoesOn
<1>14. Exits(fr, <<"body">> \o Tail(st), <<h + 3>> \o br, <<h + 2>> \o cn)
  BY <1>1, <1>2, <1>3, ExitsEnter
<1>15. <<"body">> \o Tail(st) \in Seq(Stages)
  <2>1. Tail(st) \in Seq(Stages)  BY <1>3, TailLevels
  <2>. QED  BY <2>1, <1>12, Pushed
<1>. QED  BY <1>8, <1>13, <1>14, <1>15 DEF Ties

\* A block that is not ended yet goes on in another.
LEMMA BrIfOpenSound ==
  ASSUME NEW bs, Code(bs), NEW c \in DOMAIN bs, Sound(bs), NEW t \in DOMAIN bs, Under(bs, c, bs[t].of),
         bs[t].name \in Headings => c = bs[t].of \/ Follows(bs, t + 2, c)
  PROVE  \E N : Wrote(bs, BrIfOpen(bs, c, t), N) /\ Sound(BrIfOpen(bs, c, t))
<1>1. CASE Terminated(bs, c)
  <2>1. BrIfOpen(bs, c, t) = bs  BY <1>1 DEF BrIfOpen
  <2>. QED  BY <2>1, WroteNone
<1>2. CASE ~Terminated(bs, c)
  <2>1. BrIfOpen(bs, c, t) = Emit(bs, c, <<Br(t)>>)  BY <1>2 DEF BrIfOpen
  <2>2. Jump(Br(t)) /\ Range(Br(t).arg) = {t}  BY BranchTo
  <2>3. Sound(Emit(bs, c, <<Br(t)>>))  BY <2>2, SoundBranch
  <2>4. Wrote(bs, Emit(bs, c, <<Br(t)>>), {<<c, Br(t)>>})  BY BranchWrote
  <2>. QED  BY <2>1, <2>3, <2>4
<1>. QED  BY <1>1, <1>2

\* The body of a loop is through.
LEMMA TiesLatch ==
  ASSUME NEW bs, NEW c, NEW fr, NEW st, Legal(bs, c, fr, st), NEW br, NEW cn,
         st \in Ties(bs, c, fr, br, cn), st # <<>>, st[1] = "body", NEW h, h = fr[1].header
  PROVE  <<"inc">> \o Tail(st) \in Ties(BrIfOpen(bs, c, h + 2), h + 2, fr, Tail(br), Tail(cn))
<1>. DEFINE bs2 == BrIfOpen(bs, c, h + 2)
            f == fr[1]
<1>1. /\ Sound(bs) /\ Code(bs) /\ c \in DOMAIN bs /\ h \in Nat
      /\ Begun(bs, h, h + 2) /\ Under(bs, c, h) /\ Anchor(bs, st[1], fr[1]) = h
  BY LoopInner
<1>2. Framed(fr, st)  BY LegalTypes
<1>3. Tied(bs, c, fr, st) /\ Exits(fr, st, br, cn) /\ st \in Seq(Stages)  BY TiesOf
<1>4. PICK N : Wrote(bs, bs2, N) /\ Sound(bs2)
  <2>1. h + 2 \in DOMAIN bs /\ Under(bs, c, bs[h + 2].of) /\ bs[h + 2].name \notin Headings
    BY <1>1, NamesOf
  <2>. QED  BY <1>1, <2>1, BrIfOpenSound
<1>. HIDE DEF bs2
<1>5. f \in LoopFrame /\ f \in Frames /\ [fr EXCEPT ![1] = f] = fr  BY LegalFrame
<1>6. Stands(bs2, "inc", f) /\ Anchor(bs2, "inc", f) = h
  <2>1. Stands(bs, "body", f)  BY TiesInner
  <2>2. Stands(bs2, "body", f)
    <3>1. "body" \in Stages  BY DEF Stages
    <3>. QED  BY <2>1, <3>1, <1>4, StandsStill
  <2>3. Stands(bs2, "inc", f)  BY <2>2 DEF Stands, Anchor
  <2>. QED  BY <2>3 DEF Anchor
<1>7. Under(bs2, h + 2, h)
  <2>1. Under(bs, h + 2, h)  BY <1>1, UnderOf DEF Begun
  <2>. QED  BY <2>1, <1>4, UnderStill
<1>8. Place(bs2, "inc", f, h + 2)
  <2>1. Follows(bs2, h + 2, h + 2)  BY UnderSelf
  <2>2. Base(bs2, "inc", f) = h + 2  BY DEF Base
  <2>. QED  BY <2>1, <2>2, <1>6, <1>7 DEF Place
<1>9. "inc" \in Stages /\ st[1] \notin Choosing  BY DEF Stages, Choosing
<1>. HIDE DEF f
<1>10. Tied(bs2, h + 2, [fr EXCEPT ![1] = f], <<"inc">> \o Tail(st))
  BY <1>1, <1>2, <1>3, <1>4, <1>5, <1>6, <1>7, <1>8, <1>9, TieGoesOn
<1>11. Exits(fr, <<"inc">> \o Tail(st), Tail(br), Tail(cn))  BY <1>2, <1>3, ExitsLeave
<1>12. <<"inc">> \o Tail(st) \in Seq(Stages)
  <2>1. Tail(st) \in Seq(Stages)  BY <1>3, TailLevels
  <2>. QED  BY <2>1, <1>9, Pushed
<1>. QED  BY <1>5, <1>10, <1>11, <1>12 DEF Ties, bs2

\* The latch goes back to the header.
LEMMA TiesBack ==
  ASSUME NEW bs, NEW c, NEW fr, NEW st, Legal(bs, c, fr, st), NEW br, NEW cn,
         st \in Ties(bs, c, fr, br, cn), st # <<>>, st[1] = "inc", NEW h, h = fr[1].header
  PROVE  Tail(st) \in Ties(BrIfOpen(bs, c, h), h + 3, Tail(fr), br, cn)
<1>. DEFINE bs2 == BrIfOpen(bs, c, h)
<1>1. /\ Sound(bs) /\ Code(bs) /\ c \in DOMAIN bs /\ h \in DOMAIN bs
      /\ Begun(bs, h, h + 3) /\ Under(bs, c, h) /\ Follows(bs, h + 2, c)
      /\ Anchor(bs, st[1], fr[1]) = h
  BY LoopInner
<1>2. PICK N : Wrote(bs, bs2, N) /\ Sound(bs2)
  <2>1. Under(bs, c, bs[h].of)  BY <1>1, UnderOf, UnderTrans
  <2>. QED  BY <1>1, <2>1, BrIfOpenSound
<1>. HIDE DEF bs2
<1>3. Under(bs2, h + 3, h)
  <2>1. Under(bs, h + 3, h)  BY <1>1, UnderOf DEF Begun
  <2>. QED  BY <2>1, <1>2, UnderStill
<1>4. st[1] \notin Choosing /\ st[1] # "body"  BY DEF Choosing
<1>5. Tail(st) \in Ties(bs2, h + 3, Tail(fr), br, cn)  BY <1>1, <1>2, <1>3, <1>4, TiesOver
<1>. QED  BY <1>5 DEF bs2

\* A jump out of the body of a loop around it.
LEMMA TiesJump ==
  ASSUME NEW bs, NEW c, NEW fr, NEW st, Legal(bs, c, fr, st), NEW br, NEW cn,
         st \in Ties(bs, c, fr, br, cn),
         NEW t, (br # <<>> /\ t = Head(br)) \/ (cn # <<>> /\ t = Head(cn))
  PROVE  st \in Ties(Emit(bs, c, <<Br(t)>>), c, fr, br, cn)
<1>. DEFINE bs2 == Emit(bs, c, <<Br(t)>>)
<1>1. Code(bs) /\ c \in DOMAIN bs /\ Framed(fr, st)  BY LegalTypes
<1>2. Tied(bs, c, fr, st) /\ Exits(fr, st, br, cn) /\ st \in Seq(Stages) /\ Sound(bs)
  BY TiesOf DEF Tied
<1>3. PICK l \in 1 .. Len(fr) : /\ At(st, l) = "body"
                                /\ Head(br) = At(fr, l).header + 3 /\ Head(cn) = At(fr, l).header + 2
  BY <1>2, ExitsHead
<1>. DEFINE h == At(fr, l).header
<1>4. Stands(bs, "body", At(fr, l)) /\ Place(bs, "body", At(fr, l), c)  BY <1>2, <1>3 DEF Tied
<1>5. Begun(bs, h, h + 2) /\ Begun(bs, h, h + 3) /\ Under(bs, c, h)
  <2>1. Anchor(bs, "body", At(fr, l)) = h  BY DEF Anchor
  <2>2. \A i \in 1 .. 3 : Begun(bs, h, h + i)  BY <1>4, <2>1 DEF Stands
  <2>. QED  BY <1>4, <2>1, <2>2 DEF Place
<1>6. Begun(bs, h, t)  BY <1>3, <1>5
<1>. HIDE DEF h
<1>7. Wrote(bs, bs2, {<<c, Br(t)>>}) /\ Sound(bs2)
  <2>1. bs2 = Emit(bs, c, <<Br(t)>>)  OBVIOUS
  <2>. HIDE DEF bs2
  <2>. QED  BY ONLY <1>1, <1>2, <1>5, <1>6, <2>1, BranchInto
<1>. HIDE DEF bs2
<1>8. Tied(bs2, c, fr, st)  BY <1>1, <1>2, <1>7, TieStays
<1>. QED  BY <1>2, <1>8 DEF Ties, bs2

-----------------------------------------------------------------------------
(* Each action, in the state of the model. *)

\* The stages that the state knows of: they tie in, and the jumps lead out of them.
Sofar == Ties(blocks, cur, frames, breaks, conts)
Building == Underway(blocks, cur, frames, todo, Sofar)
Kept == phase' = "failed" \/ (phase' = "codegen" /\ Building')

\* The stages tie in after a step that changes neither the constructs nor the jumps.
SoOn(bs) == Ties(bs, cur, frames, breaks, conts)
StillThere == frames' = frames /\ breaks' = breaks /\ conts' = conts

LEMMA StaysPlain ==
  ASSUME NEW T, NEW ins \in Seq(T), Mute(ins)
  PROVE  Stays(blocks, cur, frames, Sofar, SoOn(Emit(blocks, cur, ins)))
  BY TiesPlain DEF Stays, Sofar, SoOn

LEMMA MuteOne ==
  ASSUME NEW op, op \notin {"br", "condbr", "phi"}, NEW arg
  PROVE  Mute(<<Ins(op, arg)>>) /\ <<Ins(op, arg)>> \in Seq({Ins(op, arg)})
<1>. DEFINE i == Ins(op, arg)
            s == <<i>>
<1>1. i.op = op  BY DEF Ins
<1>. HIDE DEF i
<1>2. s \in Seq({i}) /\ DOMAIN s = {1} /\ s[1] = i  OBVIOUS
<1>. HIDE DEF s
<1>3. Mute(s)  BY <1>1, <1>2 DEF Mute, Branching
<1>. QED  BY <1>2, <1>3 DEF i, s

LEMMA PlainIns == ASSUME NEW op, op \notin Terminators, NEW arg PROVE Plain(<<Ins(op, arg)>>)
  BY InsEnds, PlainOne

LEMMA ClosingIns == ASSUME NEW op \in Terminators, NEW arg PROVE Closing(<<Ins(op, arg)>>)
  BY InsEnds, ClosingOne

LEMMA Branches ==
  ASSUME NEW b, NEW d
  PROVE  Closing(<<Br(b)>>) /\ Closing(<<CondBr(b, d)>>) /\ Ends(Br(b))
<1>1. "br" \in Terminators /\ "condbr" \in Terminators  BY DEF Terminators
<1>. QED  BY <1>1, ClosingIns, InsEnds DEF Br, CondBr

LEMMA FailKept == ASSUME Fail PROVE Kept
  BY DEF Fail, Kept

LEMMA GotoKept ==
  ASSUME NEW bs, NEW b, NEW items, Goto(bs, b, items), phase = "codegen",
         NEW fr, frames' = fr, NEW br, breaks' = br, NEW cn, conts' = cn,
         Underway(bs, b, fr, items \o Tail(todo), Ties(bs, b, fr, br, cn))
  PROVE  Kept
<1>1. phase' = "codegen" /\ blocks' = bs /\ cur' = b /\ todo' = items \o Tail(todo)  BY DEF Goto
<1>2. Underway(blocks', cur', frames', todo', Ties(blocks', cur', frames', breaks', conts'))  BY <1>1
<1>. QED  BY <1>1, <1>2 DEF Kept, Building, Sofar

LEMMA PlainKept ==
  ASSUME Building, phase = "codegen", todo # <<>>, Node.k \in StraightKind, NEW op,
         op \notin Terminators, op # "phi", NEW arg,
         Goto(Emit(blocks, cur, <<Ins(op, arg)>>), cur, <<>>), StillThere
  PROVE  Kept
<1>. DEFINE ins == <<Ins(op, arg)>>
<1>1. Plain(ins)  BY PlainIns
<1>2. Mute(ins) /\ ins \in Seq({Ins(op, arg)})  BY MuteOne DEF Terminators
<1>. HIDE DEF ins
<1>3. Stays(blocks, cur, frames, Sofar, SoOn(Emit(blocks, cur, ins)))  BY <1>2, StaysPlain
<1>4. Underway(Emit(blocks, cur, ins), cur, frames, <<>> \o Tail(todo), SoOn(Emit(blocks, cur, ins)))
  BY <1>1, <1>3, StraightStep DEF Building, Node
<1>5. Goto(Emit(blocks, cur, ins), cur, <<>>)  BY DEF ins
<1>. QED  BY <1>4, <1>5, GotoKept DEF SoOn, StillThere

LEMMA KeptLeaf == ASSUME Building, Leaf PROVE Kept
<1>1. phase = "codegen" /\ todo # <<>> /\ Node.k \in StraightKind
  BY DEF Leaf, Generating, StraightKind
<1>2. "eval" \notin Terminators  BY DEF Terminators
<1>3. \/ Fail
      \/ Goto(Emit(blocks, cur, <<Ins("eval", Node)>>), cur, <<>>) /\ StillThere
  BY DEF Leaf, StillThere
<1>. QED  BY <1>1, <1>2, <1>3, PlainKept, FailKept

LEMMA KeptIncrDecr == ASSUME Building, IncrDecr PROVE Kept
<1>1. phase = "codegen" /\ todo # <<>> /\ Node.k \in StraightKind
  BY DEF IncrDecr, Generating, StraightKind
<1>2. "incr" \notin Terminators  BY DEF Terminators
<1>3. \/ Fail
      \/ Goto(Emit(blocks, cur, <<Ins("incr", Node)>>), cur, <<>>) /\ StillThere
  BY DEF IncrDecr, StillThere
<1>. QED  BY <1>1, <1>2, <1>3, PlainKept, FailKept

LEMMA KeptStore == ASSUME Building, AssignmentStore PROVE Kept
<1>1. phase = "codegen" /\ todo # <<>> /\ Node.k \in StraightKind
  BY DEF AssignmentStore, Generating, StraightKind
<1>2. "store" \notin Terminators  BY DEF Terminators
<1>3. \/ Fail
      \/ Goto(Emit(blocks, cur, <<Ins("store", Node.n.v)>>), cur, <<>>) /\ StillThere
  BY DEF AssignmentStore, StillThere
<1>. QED  BY <1>1, <1>2, <1>3, PlainKept, FailKept

\* What is done with operands that have been evaluated.
Operated ==
  UnaryNot \/ Binary \/ MatrixAccess \/ Call \/ MemberAssignment \/ MatrixAssignment \/ MatrixColumn

LEMMA KeptOperated == ASSUME Building, Operated PROVE Kept
<1>1. Generating("operate")
  BY DEF Operated, UnaryNot, Binary, MatrixAccess, Call, MemberAssignment, MatrixAssignment,
         MatrixColumn, Operating
<1>2. phase = "codegen" /\ todo # <<>> /\ Node.k \in StraightKind
  BY <1>1 DEF Generating, StraightKind
<1>3. "not" \notin Terminators /\ "operate" \notin Terminators  BY DEF Terminators
<1>4. \/ Fail
      \/ Goto(Emit(blocks, cur, <<Ins("not", <<>>)>>), cur, <<>>) /\ StillThere
      \/ Goto(Emit(blocks, cur, <<Ins("operate", Node.n)>>), cur, <<>>) /\ StillThere
  BY DEF Operated, UnaryNot, Binary, MatrixAccess, Call, MemberAssignment, MatrixAssignment,
         MatrixColumn, OnVariable, StillThere
<1>. QED  BY <1>2, <1>3, <1>4, PlainKept, FailKept

\* An item that is taken apart.
Apart(n, items) ==
  \A st \in Seq(Stages), m \in Loose :
    (n.k \in Bulky => Relaxed(st)) => Path(items, State(st, "open"), State(st, m))

LEMMA NodeKinds ==
  ASSUME Building, todo # <<>>, Node.k \in StraightKind PROVE Node \in Straight
<1>1. \E p \in States, q \in States : Fits(Node, p, q)  BY Unfold DEF Building, Node
<1>. QED  BY <1>1, StraightFit DEF StraightKind

LEMMA TakenApart ==
  ASSUME Building, phase = "codegen", todo # <<>>, Node.k \in StraightKind,
         NEW items, Apart(Node, items), NEW T, NEW ins \in Seq(T), Plain(ins), Mute(ins),
         NEW bs2 \in {blocks, Emit(blocks, cur, ins)}, Goto(bs2, cur, items), StillThere
  PROVE  Kept
<1>1. Stays(blocks, cur, frames, Sofar, SoOn(bs2))
  <2>1. CASE bs2 = blocks  BY <2>1 DEF Stays, Sofar, SoOn
  <2>2. CASE bs2 = Emit(blocks, cur, ins)  BY <2>2, StaysPlain
  <2>. QED  BY <2>1, <2>2
<1>2. Underway(bs2, cur, frames, items \o Tail(todo), SoOn(bs2))
  BY <1>1, ExpandStep DEF Building, Node, Apart
<1>. QED  BY <1>2, GotoKept DEF SoOn, StillThere

LEMMA ApartOnly ==
  ASSUME Building, phase = "codegen", todo # <<>>, Node.k \in StraightKind,
         NEW items, Apart(Node, items), Goto(blocks, cur, items), StillThere
  PROVE  Kept
<1>1. Plain(<<>>) /\ Mute(<<>>) /\ <<>> \in Seq({})  BY DEF Plain, Mute
<1>. QED  BY <1>1, TakenApart

LEMMA KeptShortCircuit == ASSUME Building, ShortCircuit PROVE Kept
<1>1. phase = "codegen" /\ todo # <<>> /\ Node.k \in {"and", "or"} /\ Node.k \in StraightKind
  BY DEF ShortCircuit, Generating, StraightKind
<1>. DEFINE items == <<Node.kids[1], Item("rhs", Node), Node.kids[2], Item("merge", Node)>>
<1>2. Node \in ShortCircuits  BY <1>1, NodeKinds, StraightKinds
<1>3. Apart(Node, items)  BY <1>2, ShortCircuitPath DEF Apart
<1>4. Goto(blocks, cur, items) /\ StillThere  BY DEF ShortCircuit, StillThere
<1>. HIDE DEF items
<1>. QED  BY <1>1, <1>3, <1>4, ApartOnly

LEMMA KeptOperands == ASSUME Building, Operands PROVE Kept
<1>1. phase = "codegen" /\ todo # <<>> /\ Node.k \in Operations /\ Node.k \in StraightKind
  BY DEF Operands, Generating, StraightKind
<1>. DEFINE items == Visits(Node) \o <<Item("operate", Node)>>
<1>2. Node \in Applications  BY <1>1, NodeKinds, StraightKinds
<1>3. Apart(Node, items)  BY <1>2, OperandsPath DEF Apart
<1>4. Goto(blocks, cur, items) /\ StillThere  BY DEF Operands, StillThere
<1>. HIDE DEF items
<1>. QED  BY <1>1, <1>3, <1>4, ApartOnly

LEMMA KeptAssignment == ASSUME Building, Assignment PROVE Kept
<1>1. phase = "codegen" /\ todo # <<>> /\ Node.k \in {"decl", "set"} /\ Node.k \in StraightKind
  BY DEF Assignment, Generating, StraightKind
<1>. DEFINE items == <<Node.e, Item("store", Node)>>
<1>2. Node \in Stores  BY <1>1, NodeKinds, StraightKinds
<1>3. /\ Node.e \in Light /\ Item("store", Node) \in Light
      /\ Node.e \in Straight /\ Item("store", Node) \in Straight
  <2>1. Node.e \in Light /\ Item("store", Node) \in Light  BY <1>2, LightAre, StoreIsLight DEF Stores
  <2>. QED  BY <2>1, LightAre
<1>4. Apart(Node, items)  BY <1>3, StraightTwo DEF Apart
<1>5. Goto(blocks, cur, items) /\ StillThere  BY DEF Assignment, StillThere
<1>. HIDE DEF items
<1>. QED  BY <1>1, <1>4, <1>5, ApartOnly

LEMMA KeptIf == ASSUME Building, If PROVE Kept
<1>1. phase = "codegen" /\ todo # <<>> /\ Node.k = "if" /\ Node.k \in StraightKind
  BY DEF If, Generating, StraightKind
<1>. DEFINE items == <<Node.cond, Item("then", Node)>>
<1>2. Node \in Ifs  BY <1>1, NodeKinds, StraightKinds
<1>3. Node.cond \in Straight /\ Item("then", Node) \in Straight
  <2>1. RestOf("then", Ifs) \subseteq Straight  BY DEF Straight
  <2>. QED  BY <2>1, <1>2, ExpressionIsStraight, StraightRest DEF Ifs
<1>4. Apart(Node, items)
  <2>1. Node.k \in Bulky  BY <1>1 DEF Bulky
  <2>. QED  BY <2>1, <1>3, StraightTwo DEF Apart
<1>5. Goto(blocks, cur, items) /\ StillThere  BY DEF If, StillThere
<1>. HIDE DEF items
<1>. QED  BY <1>1, <1>4, <1>5, ApartOnly

LEMMA KeptWhile == ASSUME Building, While PROVE Kept
<1>1. phase = "codegen" /\ todo # <<>> /\ Node.k = "while" /\ Node.k \in StraightKind
  BY DEF While, Generating, StraightKind
<1>. DEFINE items == <<Item("header", Node)>>
<1>2. Node \in Loops  BY <1>1, NodeKinds, StraightKinds
<1>3. Apart(Node, items)
  <2>1. Node.k \in Bulky  BY <1>1 DEF Bulky
  <2>. QED  BY <2>1, <1>2, HeaderPath DEF Apart
<1>4. Goto(blocks, cur, items) /\ StillThere  BY DEF While, StillThere
<1>. HIDE DEF items
<1>. QED  BY <1>1, <1>3, <1>4, ApartOnly

LEMMA KeptFor == ASSUME Building, For PROVE Kept
<1>1. phase = "codegen" /\ todo # <<>> /\ Node.k = "for" /\ Node.k \in StraightKind
  BY DEF For, Generating, StraightKind
<1>. DEFINE items == Node.init \o <<Item("header", Node)>>
<1>2. Node \in Loops  BY <1>1, NodeKinds, StraightKinds
<1>3. Apart(Node, items)
  <2>1. Node.k \in Bulky  BY <1>1 DEF Bulky
  <2>. QED  BY <2>1, <1>2, HeaderPath DEF Apart
<1>4. Goto(blocks, cur, items) /\ StillThere  BY DEF For, StillThere
<1>. HIDE DEF items
<1>. QED  BY <1>1, <1>3, <1>4, ApartOnly

LEMMA KeptArrayDecl == ASSUME Building, ArrayDecl PROVE Kept
<1>1. phase = "codegen" /\ todo # <<>> /\ Node.k = "array" /\ Node.k \in StraightKind
  BY DEF ArrayDecl, Generating, StraightKind
<1>2. Node \in Arrays  BY <1>1, NodeKinds, StraightKinds
<1>3. /\ Item("store", Node) \in Light /\ Elements(Node) \in Light
      /\ Item("store", Node) \in Straight /\ Elements(Node) \in Straight
  <2>1. Item("store", Node) \in Light /\ Elements(Node) \in Light  BY <1>2, StoreIsLight, ElementsIsLight
  <2>. QED  BY <2>1, LightAre
<1>. DEFINE one == <<Item("store", Node)>>
            two == <<Elements(Node), Item("store", Node)>>
            ins == <<Ins("false", <<>>)>>
<1>4. Apart(Node, one) /\ Apart(Node, two)  BY <1>3, StraightOne, StraightTwo DEF Apart
<1>5. Plain(ins) /\ Mute(ins) /\ ins \in Seq({Ins("false", <<>>)})
  <2>1. "false" \notin Terminators  BY DEF Terminators
  <2>. QED  BY <2>1, PlainIns, MuteOne
<1>6. /\ Goto(Emit(blocks, cur, ins), cur, one) \/ Goto(blocks, cur, two)
      /\ StillThere
  BY DEF ArrayDecl, StillThere
<1>. HIDE DEF one, two, ins
<1>7. CASE Goto(Emit(blocks, cur, ins), cur, one)  BY <1>1, <1>4, <1>5, <1>6, <1>7, TakenApart
<1>8. CASE Goto(blocks, cur, two)  BY <1>1, <1>4, <1>6, <1>8, ApartOnly
<1>. QED  BY <1>6, <1>7, <1>8

LEMMA KeptTernary == ASSUME Building, Ternary PROVE Kept
<1>1. phase = "codegen" /\ todo # <<>> /\ Node.k = "ternary" /\ Node.k \in StraightKind
  BY DEF Ternary, Generating, StraightKind
<1>. DEFINE items == <<Node.kids[1], Item("arms", Node), Node.kids[2], Item("else arm", Node),
                       Node.kids[3], Item("join", Node)>>
<1>2. Node \in Ternaries  BY <1>1, NodeKinds, StraightKinds
<1>3. Apart(Node, items)  BY <1>2, TernaryPath, Zenon DEF Apart
<1>4. Goto(blocks, cur, items) /\ StillThere  BY Zenon DEF Ternary, StillThere
<1>. HIDE DEF items
<1>. QED  BY <1>1, <1>3, <1>4, ApartOnly

LEMMA KeptRhs == ASSUME Building, ShortCircuitRhs PROVE Kept
<1>1. phase = "codegen" /\ todo # <<>> /\ Head(todo).k = "rhs"
  BY DEF ShortCircuitRhs, Generating, Node
<1>. DEFINE rhs == Len(blocks) + 1
            ins == <<IF Node.n.k = "and" THEN CondBr(rhs, rhs + 1) ELSE CondBr(rhs + 1, rhs)>>
            bs == Emit(blocks \o <<BasicBlock("logical.rhs", cur), BasicBlock("logical.merge", cur)>>,
                       cur, ins)
            fr == <<[lhs |-> cur, merge |-> rhs + 1]>> \o frames
<1>2. Goto(bs, rhs, <<>>) /\ frames' = fr /\ breaks' = breaks /\ conts' = conts
  BY DEF ShortCircuitRhs
<1>3. Closing(ins)  BY Branches
<1>. DEFINE G2 == Ties(bs, rhs, fr, breaks, conts)
<1>4. Begins(blocks, cur, frames, Sofar, "rhs", G2)
  <2>1. PICK i : ins = <<i>> /\ Jump(i) /\ Range(i.arg) = {rhs, rhs + 1}
    <3>1. /\ Jump(CondBr(rhs, rhs + 1)) /\ Range(CondBr(rhs, rhs + 1).arg) = {rhs, rhs + 1}
          /\ Jump(CondBr(rhs + 1, rhs)) /\ Range(CondBr(rhs + 1, rhs).arg) = {rhs + 1, rhs}
      BY BranchTo
    <3>. QED  BY <3>1
  <2>. HIDE DEF ins
  <2>2. ASSUME NEW st \in Sofar, Legal(blocks, cur, frames, st) PROVE <<"rhs">> \o st \in G2
    <3>1. Len(blocks) \in Nat  BY <2>2, LegalTypes
    <3>2. Range(i.arg) = {Len(blocks) + 1, Len(blocks) + 2}  BY <2>1, <3>1
    <3>. QED  BY <2>1, <2>2, <3>2, TiesRhs DEF Sofar
  <2>. QED  BY <2>2 DEF Begins
<1>. HIDE DEF ins, G2
<1>5. Underway(bs, rhs, fr, <<>> \o Tail(todo), G2)  BY <1>1, <1>3, <1>4, RhsStep DEF Building
<1>. HIDE DEF bs, fr, rhs
<1>. QED  BY <1>1, <1>2, <1>5, GotoKept DEF G2

LEMMA PhiOf ==
  ASSUME NEW a, NEW b, NEW x, NEW y
  PROVE  \E p : /\ <<Ins("phi", <<<<a, x>>, <<b, y>>>>)>> = <<p>> /\ p.op = "phi"
               /\ \A in \in Range(p.arg) : in[1] \in {a, b}
<1>. DEFINE arg == <<<<a, x>>, <<b, y>>>>
<1>1. Range(arg) = {<<a, x>>, <<b, y>>}  BY DEF Range
<1>. HIDE DEF arg
<1>. DEFINE p == Ins("phi", arg)
<1>2. p.op = "phi" /\ p.arg = arg  BY DEF Ins
<1>3. \A in \in Range(p.arg) : in[1] \in {a, b}  BY <1>1, <1>2
<1>. HIDE DEF p
<1>4. <<Ins("phi", <<<<a, x>>, <<b, y>>>>)>> = <<p>>  BY DEF p, arg
<1>. QED  BY <1>2, <1>3, <1>4

LEMMA KeptMerge == ASSUME Building, ShortCircuitMerge PROVE Kept
<1>1. phase = "codegen" /\ todo # <<>> /\ Head(todo).k = "merge"
  BY DEF ShortCircuitMerge, Generating, Node
<1>. DEFINE m == Head(frames).merge
            phi == <<Ins("phi", <<<<Head(frames).lhs, IF Node.n.k = "and" THEN "false" ELSE "true">>,
                                  <<cur, "value">>>>)>>
            ins == <<Br(m)>>
            bs == Emit(Emit(blocks, cur, ins), m, phi)
<1>2. /\ Goto(bs, m, <<>>) /\ frames' = Tail(frames) /\ breaks' = breaks /\ conts' = conts
  BY DEF ShortCircuitMerge
<1>3. Closing(ins) /\ Plain(phi)
  <2>1. "phi" \notin Terminators  BY DEF Terminators
  <2>. QED  BY <2>1, Branches, PlainIns
<1>4. PICK p : /\ phi = <<p>> /\ p.op = "phi"
               /\ \A in \in Range(p.arg) : in[1] \in {Head(frames).lhs, cur}
  BY PhiOf
<1>. HIDE DEF phi
<1>. DEFINE G2 == Ties(bs, m, Tail(frames), breaks, conts)
<1>5. IsOver(blocks, cur, frames, Sofar, "rhs", G2)
  <2>1. ASSUME NEW st \in Sofar, Legal(blocks, cur, frames, st), st # <<>>, st[1] = "rhs"
        PROVE  Tail(st) \in G2
    <3>1. Head(frames) = frames[1]  BY <2>1, LegalFrame
    <3>. QED  BY <2>1, <3>1, <1>4, TiesMerge DEF Sofar
  <2>. QED  BY <2>1 DEF IsOver
<1>. HIDE DEF ins, G2
<1>6. Underway(bs, m, Tail(frames), <<>> \o Tail(todo), G2)
  BY <1>1, <1>3, <1>5, MergeStep DEF Building
<1>. HIDE DEF bs, m
<1>. QED  BY <1>1, <1>2, <1>6, GotoKept DEF G2

LEMMA KeptArms == ASSUME Building, TernaryArms PROVE Kept
<1>1. phase = "codegen" /\ todo # <<>> /\ Head(todo).k = "arms"
  BY DEF TernaryArms, Generating, Node
<1>. DEFINE b == Len(blocks)
            ins == <<CondBr(b + 1, b + 2)>>
            bs == Emit(blocks \o <<BasicBlock("ternary.then", cur), BasicBlock("ternary.else", cur),
                                   BasicBlock("ternary.merge", cur)>>, cur, ins)
            fr == <<[first |-> b, thenEnd |-> 0]>> \o frames
<1>2. Goto(bs, b + 1, <<>>) /\ frames' = fr /\ breaks' = breaks /\ conts' = conts
  BY DEF TernaryArms
<1>3. Closing(ins)  BY Branches
<1>. DEFINE G2 == Ties(bs, b + 1, fr, breaks, conts)
<1>4. Begins(blocks, cur, frames, Sofar, "then", G2)
  <2>1. PICK i : ins = <<i>> /\ Jump(i) /\ Range(i.arg) = {b + 1, b + 2}  BY BranchTo
  <2>. HIDE DEF ins
  <2>. QED  BY <2>1, TiesArms DEF Begins, Sofar
<1>. HIDE DEF ins, G2
<1>5. Underway(bs, b + 1, fr, <<>> \o Tail(todo), G2)  BY <1>1, <1>3, <1>4, ArmsStep DEF Building
<1>. HIDE DEF bs, fr, b
<1>. QED  BY <1>1, <1>2, <1>5, GotoKept DEF G2

LEMMA KeptElseArm == ASSUME Building, TernaryElseArm PROVE Kept
<1>1. phase = "codegen" /\ todo # <<>> /\ Head(todo).k = ElseArm
  BY Zenon DEF TernaryElseArm, Generating, Node, ElseArm
<1>. DEFINE c2 == Head(frames).first + 2
            fr == [frames EXCEPT ![1].thenEnd = cur]
            G2 == Ties(blocks, c2, fr, breaks, conts)
<1>2. Goto(blocks, c2, <<>>) /\ frames' = fr /\ breaks' = breaks /\ conts' = conts
  BY Zenon DEF TernaryElseArm
<1>3. GoesOn(blocks, cur, frames, Sofar, "then", "join", G2)
  <2>1. ASSUME NEW st \in Sofar, Legal(blocks, cur, frames, st), st # <<>>, st[1] = "then"
        PROVE  <<"join">> \o Tail(st) \in G2
    <3>1. Head(frames) = frames[1]  BY <2>1, LegalFrame
    <3>. QED  BY <2>1, <3>1, TiesElseArm DEF Sofar
  <2>. QED  BY <2>1 DEF GoesOn
<1>. HIDE DEF G2
<1>4. Underway(blocks, c2, fr, <<>> \o Tail(todo), G2)  BY <1>1, <1>3, ElseArmStep DEF Building
<1>. HIDE DEF c2, fr
<1>. QED  BY <1>1, <1>2, <1>4, GotoKept DEF G2

LEMMA KeptJoin == ASSUME Building, TernaryJoin PROVE Kept
<1>1. phase = "codegen" /\ todo # <<>> /\ Head(todo).k = "join"
  BY DEF TernaryJoin, Generating, Node
<1>. DEFINE f == Head(frames)
            m == f.first + 3
            phi == <<Ins("phi", <<<<f.thenEnd, "value">>, <<cur, "value">>>>)>>
            ins == <<Br(m)>>
            bs == Emit(Emit(Emit(blocks, f.thenEnd, ins), cur, ins), m, phi)
<1>2. /\ Goto(bs, m, <<>>) /\ frames' = Tail(frames) /\ breaks' = breaks /\ conts' = conts
  BY DEF TernaryJoin
<1>3. Closing(ins) /\ Plain(phi)
  <2>1. "phi" \notin Terminators  BY DEF Terminators
  <2>. QED  BY <2>1, Branches, PlainIns
<1>4. PICK p : /\ phi = <<p>> /\ p.op = "phi"
               /\ \A in \in Range(p.arg) : in[1] \in {f.thenEnd, cur}
  BY PhiOf
<1>. HIDE DEF phi
<1>. DEFINE G2 == Ties(bs, m, Tail(frames), breaks, conts)
<1>5. IsOver(blocks, cur, frames, Sofar, "join", G2)
  <2>1. ASSUME NEW st \in Sofar, Legal(blocks, cur, frames, st), st # <<>>, st[1] = "join"
        PROVE  Tail(st) \in G2
    <3>1. f = frames[1]  BY <2>1, LegalFrame
    <3>. QED  BY <2>1, <3>1, <1>4, TiesJoin DEF Sofar
  <2>. QED  BY <2>1 DEF IsOver
<1>. HIDE DEF ins, G2
<1>6. Underway(bs, m, Tail(frames), <<>> \o Tail(todo), G2)
  BY <1>1, <1>3, <1>5, JoinStep DEF Building
<1>. HIDE DEF bs, m, f
<1>. QED  BY <1>1, <1>2, <1>6, GotoKept DEF G2

LEMMA KeptBlock == ASSUME Building, Block PROVE Kept
<1>1. phase = "codegen" /\ todo # <<>> /\ Head(todo).k = "block"
  BY DEF Block, Generating, Node
<1>. DEFINE items == IF Node.body = <<>> \/ Terminated(blocks, cur)
                     THEN <<>>
                     ELSE <<Head(Node.body), [Node EXCEPT !.body = Tail(@)]>>
<1>2. Goto(blocks, cur, items) /\ StillThere  BY DEF Block, StillThere
<1>3. Stays(blocks, cur, frames, Sofar, Sofar)  BY DEF Stays
<1>4. Underway(blocks, cur, frames, items \o Tail(todo), Sofar)
  BY <1>1, <1>3, BlockStep DEF Building, Node
<1>. HIDE DEF items
<1>. QED  BY <1>1, <1>2, <1>4, GotoKept DEF Sofar, StillThere

LEMMA KeptThen == ASSUME Building, IfThen PROVE Kept
<1>1. phase = "codegen" /\ todo # <<>> /\ Head(todo).k = "then"
  BY DEF IfThen, Generating, Node
<1>. DEFINE s == Node.n
            b == Len(blocks)
            ins == <<CondBr(b + 1, b + 2)>>
            begun == (blocks \o <<BasicBlock("then", cur)>>)
                       \o (IF Len(s.arms) = 2 THEN <<BasicBlock("else", cur)>> ELSE <<>>)
            fr == <<[else |-> b + 2, end |-> b + Len(s.arms) + 1, ends |-> {}]>> \o frames
            items == <<s.arms[1], Item("else", s)>>
<1>2. /\ Goto(Emit(begun \o <<BasicBlock("ifend", cur)>>, cur, ins), b + 1, items)
      /\ frames' = fr /\ breaks' = breaks /\ conts' = conts
  BY DEF IfThen
<1>3. Closing(ins)  BY Branches
<1>4. begun \o <<BasicBlock("ifend", cur)>> = blocks \o IfBlocks(s, cur)
  <2>. DEFINE then == <<BasicBlock("then", cur)>>
              else == IF Len(s.arms) = 2 THEN <<BasicBlock("else", cur)>> ELSE <<>>
              end == <<BasicBlock("ifend", cur)>>
  <2>1. Code(blocks) /\ cur \in Nat
    <3>1. \E p, own : Ledger(blocks, cur, frames, p, own)  BY DEF Building, Underway
    <3>. QED  BY <3>1, LedgerTypes DEF Ledger
  <2>2. NewlyBegun(then) /\ NewlyBegun(else) /\ NewlyBegun(end)
    <3>1. "then" \in Labelled /\ "else" \in Labelled /\ "ifend" \in Labelled  BY DEF Labelled
    <3>2. NewlyBegun(<<BasicBlock("else", cur)>>)  BY <2>1, <3>1, NewOne
    <3>. QED  BY <2>1, <3>1, <3>2, NewOne, NewNone
  <2>. HIDE DEF then, else, end
  <2>3. NewlyBegun(then \o else)  BY <2>2, NewConcat
  <2>4. ((blocks \o then) \o else) \o end = (blocks \o (then \o else)) \o end
    BY <2>1, <2>2, CodeConcat
  <2>5. (blocks \o (then \o else)) \o end = blocks \o ((then \o else) \o end)
    BY <2>1, <2>2, <2>3, CodeConcat
  <2>. QED  BY <2>4, <2>5 DEF then, else, end, IfBlocks
<1>. DEFINE bs == Emit(blocks \o IfBlocks(s, cur), cur, ins)
            G2 == Ties(bs, b + 1, fr, breaks, conts)
<1>5. s \in Ifs => BeginsBulky(blocks, cur, frames, Sofar, FirstArm(s), G2)
  <2>1. PICK i : ins = <<i>> /\ Jump(i) /\ Range(i.arg) = {b + 1, b + 2}  BY BranchTo
  <2>. HIDE DEF ins
  <2>. QED  BY <2>1, TiesThen DEF BeginsBulky, Sofar
<1>. HIDE DEF ins, begun, items, G2
<1>6. Underway(bs, b + 1, fr, items \o Tail(todo), G2)
  BY <1>1, <1>3, <1>5, ThenStep DEF Building, Node, items
<1>7. Goto(bs, b + 1, items)  BY <1>2, <1>4
<1>. HIDE DEF bs, fr, b
<1>. QED  BY <1>1, <1>2, <1>6, <1>7, GotoKept DEF G2

LEMMA KeptElse == ASSUME Building, IfElse PROVE Kept
<1>1. phase = "codegen" /\ todo # <<>> /\ Head(todo).k = "else"
  BY DEF IfElse, Generating, Node
<1>. DEFINE n == Head(todo).n
            fr == [frames EXCEPT ![1].ends = {cur}]
<1>2. frames' = fr /\ breaks' = breaks /\ conts' = conts  BY DEF IfElse
<1>3. CASE Len(n.arms) = 2
  <2>. DEFINE items == <<n.arms[2]>> \o <<Item("ifend", n)>>
  <2>1. Goto(blocks, Head(frames).else, items)  BY <1>3 DEF IfElse, Node
  <2>. DEFINE c2 == Head(frames).else
              G2 == Ties(blocks, c2, fr, breaks, conts)
  <2>2. GoesOn(blocks, cur, frames, Sofar, "two", "arm2", G2)
    <3>1. ASSUME NEW st \in Sofar, Legal(blocks, cur, frames, st), st # <<>>, st[1] = "two"
          PROVE  <<"arm2">> \o Tail(st) \in G2
      <4>1. Head(frames) = frames[1]  BY <3>1, LegalFrame
      <4>. QED  BY <3>1, <4>1, TiesSecondArm DEF Sofar
    <3>. QED  BY <3>1 DEF GoesOn
  <2>. HIDE DEF G2
  <2>3. Underway(blocks, c2, fr, items \o Tail(todo), G2)
    BY <1>1, <1>3, <2>2, SecondArmStep DEF Building
  <2>. HIDE DEF items, fr, c2
  <2>. QED  BY <1>1, <1>2, <2>1, <2>3, GotoKept DEF G2, c2
<1>4. CASE Len(n.arms) # 2
  <2>. DEFINE items == <<>> \o <<Item("ifend", n)>>
  <2>1. Goto(blocks, cur, items)  BY <1>4 DEF IfElse, Node
  <2>. DEFINE G2 == Ties(blocks, cur, fr, breaks, conts)
  <2>2. GoesOn(blocks, cur, frames, Sofar, "one", "one", G2)
    BY TiesOnlyArm DEF GoesOn, Sofar
  <2>. HIDE DEF G2
  <2>3. Underway(blocks, cur, fr, items \o Tail(todo), G2)
    BY <1>1, <1>4, <2>2, OnlyArmStep DEF Building
  <2>. HIDE DEF items, fr
  <2>. QED  BY <1>1, <1>2, <2>1, <2>3, GotoKept DEF G2
<1>. QED  BY <1>3, <1>4

LEMMA KeptEnd == ASSUME Building, IfEnd PROVE Kept
<1>1. phase = "codegen" /\ todo # <<>> /\ Head(todo).k = "ifend"
  BY DEF IfEnd, Generating, Node
<1>. DEFINE f == Head(frames)
            W == {b \in f.ends \cup {cur} : ~Terminated(blocks, b)}
            bs == CloseAll(blocks, W, Br(f.end))
<1>2. /\ Goto(bs, f.end, <<>>) /\ frames' = Tail(frames) /\ breaks' = breaks /\ conts' = conts
  BY DEF IfEnd, CloseAll
<1>3. Ends(Br(f.end))  BY Branches
<1>4. W \subseteq f.ends \cup {cur}  OBVIOUS
<1>. HIDE DEF W
<1>. DEFINE G2 == Ties(bs, f.end, Tail(frames), breaks, conts)
<1>5. EndsArms(blocks, cur, frames, Sofar, G2)
  <2>1. ASSUME NEW st \in Sofar, Legal(blocks, cur, frames, st), st # <<>>,
               st[1] = "arm2" \/ (st[1] = "one" /\ frames[1].ends = {cur})
        PROVE  Tail(st) \in G2
    <3>1. f = frames[1]  BY <2>1, LegalFrame
    <3>. QED  BY <2>1, <3>1, <1>4, TiesEnd DEF Sofar
  <2>. QED  BY <2>1 DEF EndsArms
<1>. HIDE DEF G2
<1>6. Underway(bs, f.end, Tail(frames), <<>> \o Tail(todo), G2)
  BY <1>1, <1>3, <1>5, EndStep DEF Building, W
<1>. HIDE DEF bs, f
<1>. QED  BY <1>1, <1>2, <1>6, GotoKept DEF G2

LEMMA KeptHeader == ASSUME Building, LoopHeader PROVE Kept
<1>1. phase = "codegen" /\ todo # <<>> /\ Head(todo).k = "header"
  BY DEF LoopHeader, Generating, Node
<1>. DEFINE n == Head(todo).n
            h == Len(blocks) + 1
            ins == <<Br(h)>>
            yes == <<Ins("true", <<>>)>>
            mid == Emit(blocks \o LoopBlocks(n, cur, h), cur, ins)
            bs == IF n.cond = <<>> THEN Emit(mid, h, yes) ELSE mid
            items == n.cond \o <<Item("body", n), n.body, Item("latch", n)>>
            fr == <<[header |-> h]>> \o frames
<1>2. Goto(bs, h, items) /\ frames' = fr /\ breaks' = breaks /\ conts' = conts
  BY DEF LoopHeader, Node, LoopBlocks
<1>3. Closing(ins) /\ Plain(yes)
  <2>1. "true" \notin Terminators  BY DEF Terminators
  <2>. QED  BY <2>1, Branches, PlainIns
<1>4. bs \in {mid, Emit(mid, h, yes)}  OBVIOUS
<1>. DEFINE G2 == Ties(bs, h, fr, breaks, conts)
<1>5. n \in Loops => BeginsBulky(blocks, cur, frames, Sofar, "cond", G2)
  <2>1. ASSUME n \in Loops, NEW st \in Sofar, Legal(blocks, cur, frames, st), Relaxed(st)
        PROVE  <<"cond">> \o st \in G2
    <3>1. /\ <<"cond">> \o st \in Ties(mid, h, fr, breaks, conts)
          /\ Code(mid) /\ h \in DOMAIN mid /\ Framed(fr, <<"cond">> \o st)
      BY <2>1, TiesHeader DEF Sofar
    <3>2. CASE bs = mid  BY <3>1, <3>2
    <3>3. CASE bs = Emit(mid, h, yes)
      <4>1. Mute(yes) /\ yes \in Seq({Ins("true", <<>>)})  BY MuteOne
      <4>. HIDE DEF mid, yes, fr, h
      <4>. QED  BY <3>1, <3>3, <4>1, TiesMute DEF G2
    <3>. QED  BY <1>4, <3>2, <3>3
  <2>. QED  BY <2>1 DEF BeginsBulky
<1>. HIDE DEF ins, yes, mid, bs, items, fr, G2
<1>6. Underway(bs, h, fr, items \o Tail(todo), G2)
  BY <1>1, <1>3, <1>4, <1>5, HeaderStep DEF Building, mid, items, fr
<1>. QED  BY <1>1, <1>2, <1>6, GotoKept DEF G2

LEMMA KeptBody == ASSUME Building, LoopBody PROVE Kept
<1>1. phase = "codegen" /\ todo # <<>> /\ Head(todo).k = "body"
  BY DEF LoopBody, Generating, Node
<1>. DEFINE h == Head(frames).header
            ins == <<CondBr(h + 1, h + 3)>>
            bs == Emit(blocks, cur, ins)
            br == <<h + 3>> \o breaks
            cn == <<h + 2>> \o conts
            G2 == Ties(bs, h + 1, frames, br, cn)
<1>2. Goto(bs, h + 1, <<>>) /\ frames' = frames /\ breaks' = br /\ conts' = cn  BY DEF LoopBody
<1>3. Closing(ins)  BY Branches
<1>4. GoesOn(blocks, cur, frames, Sofar, "cond", "body", G2)
  <2>1. ASSUME NEW st \in Sofar, Legal(blocks, cur, frames, st), st # <<>>, st[1] = "cond"
        PROVE  <<"body">> \o Tail(st) \in G2
    <3>1. Head(frames) = frames[1]  BY <2>1, LegalFrame
    <3>. QED  BY <2>1, <3>1, TiesBody DEF Sofar
  <2>. QED  BY <2>1 DEF GoesOn
<1>. HIDE DEF ins, G2
<1>5. Underway(bs, h + 1, frames, <<>> \o Tail(todo), G2)
  BY <1>1, <1>3, <1>4, BodyStep DEF Building
<1>. HIDE DEF bs, h, br, cn
<1>. QED  BY <1>1, <1>2, <1>5, GotoKept DEF G2

LEMMA KeptLatch == ASSUME Building, LoopLatch PROVE Kept
<1>1. phase = "codegen" /\ todo # <<>> /\ Head(todo).k = "latch"
  BY DEF LoopLatch, Generating, Node
<1>. DEFINE n == Head(todo).n
            h == Head(frames).header
            bs == BrIfOpen(blocks, cur, h + 2)
            items == n.inc \o <<Item("back", n)>>
            br == Tail(breaks)
            cn == Tail(conts)
            G2 == Ties(bs, h + 2, frames, br, cn)
<1>2. Goto(bs, h + 2, items) /\ frames' = frames /\ breaks' = br /\ conts' = cn
  BY DEF LoopLatch, Node
<1>3. GoesOn(blocks, cur, frames, Sofar, "body", "inc", G2)
  <2>1. ASSUME NEW st \in Sofar, Legal(blocks, cur, frames, st), st # <<>>, st[1] = "body"
        PROVE  <<"inc">> \o Tail(st) \in G2
    <3>1. Head(frames) = frames[1]  BY <2>1, LegalFrame
    <3>. QED  BY <2>1, <3>1, TiesLatch DEF Sofar
  <2>. QED  BY <2>1 DEF GoesOn
<1>. HIDE DEF G2
<1>4. Underway(bs, h + 2, frames, items \o Tail(todo), G2)  BY <1>1, <1>3, LatchStep DEF Building
<1>. HIDE DEF bs, items, h, br, cn
<1>. QED  BY <1>1, <1>2, <1>4, GotoKept DEF G2

LEMMA KeptBack == ASSUME Building, LoopBack PROVE Kept
<1>1. phase = "codegen" /\ todo # <<>> /\ Head(todo).k = "back"
  BY DEF LoopBack, Generating, Node
<1>. DEFINE h == Head(frames).header
            bs == BrIfOpen(blocks, cur, h)
            G2 == Ties(bs, h + 3, Tail(frames), breaks, conts)
<1>2. Goto(bs, h + 3, <<>>) /\ frames' = Tail(frames) /\ breaks' = breaks /\ conts' = conts
  BY DEF LoopBack
<1>3. IsOver(blocks, cur, frames, Sofar, "inc", G2)
  <2>1. ASSUME NEW st \in Sofar, Legal(blocks, cur, frames, st), st # <<>>, st[1] = "inc"
        PROVE  Tail(st) \in G2
    <3>1. Head(frames) = frames[1]  BY <2>1, LegalFrame
    <3>. QED  BY <2>1, <3>1, TiesBack DEF Sofar
  <2>. QED  BY <2>1 DEF IsOver
<1>. HIDE DEF G2
<1>4. Underway(bs, h + 3, Tail(frames), <<>> \o Tail(todo), G2)  BY <1>1, <1>3, BackStep DEF Building
<1>. HIDE DEF bs, h
<1>. QED  BY <1>1, <1>2, <1>4, GotoKept DEF G2

LEMMA ClosingKept ==
  ASSUME Building, phase = "codegen", todo # <<>>,
         Node.k \in {"break", "continue", "discard", "ret"}, NEW ins, Closing(ins),
         Stays(blocks, cur, frames, Sofar, SoOn(Emit(blocks, cur, ins))),
         Goto(Emit(blocks, cur, ins), cur, <<>>), StillThere
  PROVE  Kept
<1>1. Underway(Emit(blocks, cur, ins), cur, frames, <<>> \o Tail(todo), SoOn(Emit(blocks, cur, ins)))
  BY LeavingStep DEF Building, Node
<1>. QED  BY <1>1, GotoKept DEF SoOn, StillThere

\* A jump goes to the innermost loop; nothing else that leaves a block branches.
LEMMA JumpStays ==
  ASSUME NEW t, (breaks # <<>> /\ t = Head(breaks)) \/ (conts # <<>> /\ t = Head(conts))
  PROVE  Stays(blocks, cur, frames, Sofar, SoOn(Emit(blocks, cur, <<Br(t)>>)))
  BY TiesJump DEF Stays, Sofar, SoOn

LEMMA MuteTwo ==
  ASSUME NEW i, NEW j, Mute(<<i>>), Mute(<<j>>) PROVE Mute(<<i, j>>) /\ <<i, j>> \in Seq({i, j})
<1>1. ~Branching(i) /\ i.op # "phi" /\ ~Branching(j) /\ j.op # "phi"
  <2>1. 1 \in DOMAIN <<i>> /\ <<i>>[1] = i /\ 1 \in DOMAIN <<j>> /\ <<j>>[1] = j  OBVIOUS
  <2>. QED  BY <2>1 DEF Mute
<1>. DEFINE s == <<i, j>>
<1>2. s \in Seq({i, j}) /\ DOMAIN s = {1, 2} /\ s[1] = i /\ s[2] = j  OBVIOUS
<1>. HIDE DEF s
<1>3. Mute(s)  BY <1>1, <1>2 DEF Mute
<1>. QED  BY <1>2, <1>3 DEF s

LEMMA KeptJump == ASSUME Building, Break \/ Continue \/ Discard \/ ReturnValue PROVE Kept
<1>1. phase = "codegen" /\ todo # <<>> /\ Node.k \in {"break", "continue", "discard", "ret"}
  BY DEF Break, Continue, Discard, ReturnValue, Generating
<1>2. CASE Fail  BY <1>2, FailKept
<1>3. CASE ~Fail
  <2>1. PICK ins : /\ \/ breaks # <<>> /\ ins = <<Br(Head(breaks))>>
                      \/ conts # <<>> /\ ins = <<Br(Head(conts))>>
                      \/ ins = <<Ins("discard", <<>>), Ins("unreachable", <<>>)>>
                      \/ ins = <<Ins("ret", <<>>)>>
                   /\ Goto(Emit(blocks, cur, ins), cur, <<>>) /\ StillThere
    BY <1>3 DEF Break, Continue, Discard, ReturnValue, StillThere
  <2>2. /\ ~Ends(Ins("discard", <<>>)) /\ Ends(Ins("unreachable", <<>>))
        /\ "ret" \in Terminators
    BY InsEnds DEF Terminators
  <2>3. Closing(ins)  BY <2>1, <2>2, Branches, ClosingTwo, ClosingIns
  <2>4. Stays(blocks, cur, frames, Sofar, SoOn(Emit(blocks, cur, ins)))
    <3>1. CASE breaks # <<>> /\ ins = <<Br(Head(breaks))>>  BY <3>1, JumpStays
    <3>2. CASE conts # <<>> /\ ins = <<Br(Head(conts))>>  BY <3>2, JumpStays
    <3>3. CASE ins = <<Ins("discard", <<>>), Ins("unreachable", <<>>)>>
      <4>1. Mute(<<Ins("discard", <<>>)>>) /\ Mute(<<Ins("unreachable", <<>>)>>)  BY MuteOne
      <4>. QED  BY <3>3, <4>1, MuteTwo, StaysPlain
    <3>4. CASE ins = <<Ins("ret", <<>>)>>  BY <3>4, MuteOne, StaysPlain
    <3>. QED  BY <2>1, <3>1, <3>2, <3>3, <3>4
  <2>. QED  BY <1>1, <2>1, <2>3, <2>4, ClosingKept
<1>. QED  BY <1>2, <1>3

LEMMA KeptReturn == ASSUME Building, Return PROVE Kept
<1>1. phase = "codegen" /\ todo # <<>> /\ Head(todo).k = "return"
  BY DEF Return, Generating, Node
<1>. DEFINE items == Node.e \o <<Item("ret", Node)>>
<1>2. Fail \/ (Goto(blocks, cur, items) /\ StillThere)  BY DEF Return, StillThere
<1>3. Stays(blocks, cur, frames, Sofar, Sofar)  BY DEF Stays
<1>4. Underway(blocks, cur, frames, items \o Tail(todo), Sofar)
  BY <1>1, <1>3, ReturnStep DEF Building, Node
<1>. HIDE DEF items
<1>5. CASE Goto(blocks, cur, items) /\ StillThere
  BY <1>1, <1>4, <1>5, GotoKept DEF Sofar, StillThere
<1>. QED  BY <1>2, <1>5, FailKept

-----------------------------------------------------------------------------
(* The end of the function. *)

AllEnded(bs) == Code(bs) /\ \A b \in DOMAIN bs : Ended(bs, b)
Whole(bs) == AllEnded(bs) /\ Sound(bs)

\* With nothing left to generate no construct is under way, and so nobody owns a block.
LEMMA NothingOwned ==
  ASSUME NEW bs, NEW c, NEW fr, NEW td, NEW G, Underway(bs, c, fr, td, G), td = <<>>
  PROVE  /\ Code(bs) /\ c \in DOMAIN bs /\ (Open(bs, c) \/ Ended(bs, c))
         /\ \A b \in DOMAIN bs : b # c => Ended(bs, b)
         /\ <<>> \in G
<1>1. PICK p \in States, e \in States, own \in Owners(bs, fr) :
        /\ Ledger(bs, c, fr, p.st, own) /\ Path(td, p, e) /\ e.st = <<>> /\ p.st \in G
  BY DEF Underway
<1>2. p.st = <<>>  BY <1>1, PathOver
<1>3. Len(fr) = 0 /\ own \in [DOMAIN bs -> 0 .. Len(fr)]  BY <1>1, <1>2, LedgerTypes
<1>4. \A b \in DOMAIN bs : own[b] = 0  BY <1>3
<1>. QED  BY <1>1, <1>2, <1>4 DEF Ledger

\* The copy of the out variable comes before the return.
Instead(d, x, y) == Front(d) \o <<x, y>>

LEMMA ReturnReplaced ==
  ASSUME NEW S, NEW d \in Seq(S), Closing(d), NEW x, ~Ends(x), NEW y, Ends(y),
         NEW d2, d2 = Instead(d, x, y)
  PROVE  /\ Closing(d2) /\ d2 \in Seq(S \cup {x, y})
         /\ DOMAIN d2 = 1 .. Len(d) + 1
         /\ \A i \in 1 .. Len(d) - 1 : d2[i] = d[i]
         /\ d2[Len(d)] = x /\ d2[Len(d) + 1] = y
<1>. DEFINE U == S \cup {x, y}
            r == Front(d)
            t == <<x, y>>
<1>12. d2 = r \o t  BY DEF Instead
<1>1. t \in Seq(U) /\ Len(t) = 2 /\ t[1] = x /\ t[2] = y  OBVIOUS
<1>2. /\ Len(d) \in Nat /\ Len(d) >= 1 /\ DOMAIN d = 1 .. Len(d) /\ d \in Seq(U)
      /\ \A i \in DOMAIN d : Ends(d[i]) <=> i = Len(d)
  BY LenProperties, SeqMonotonic DEF Closing
<1>9. Len(d) \in Nat /\ Len(d) >= 1  BY <1>2
<1>3. r \in Seq(U) /\ Len(r) = Len(d) - 1 /\ \A i \in 1 .. Len(d) - 1 : r[i] = d[i]
  <2>1. r = SubSeq(d, 1, Len(d) - 1)  BY DEF Front
  <2>. HIDE DEF r, t, U
  <2>2. /\ SubSeq(d, 1, Len(d) - 1) \in Seq(U) /\ Len(SubSeq(d, 1, Len(d) - 1)) = Len(d) - 1
        /\ \A i \in 1 .. Len(d) - 1 : SubSeq(d, 1, Len(d) - 1)[i] = d[i]
    BY <1>2, SubSeqProperties
  <2>. QED  BY <2>1, <2>2
<1>. HIDE DEF U, r, t
<1>13. /\ r \o t \in Seq(U) /\ Len(r \o t) = Len(r) + Len(t)
       /\ \A i \in 1 .. Len(r) + Len(t) : (r \o t)[i] = IF i <= Len(r) THEN r[i] ELSE t[i - Len(r)]
  BY <1>1, <1>3, ConcatProperties
<1>4. /\ d2 \in Seq(U) /\ Len(d2) = Len(r) + Len(t)
      /\ \A i \in 1 .. Len(r) + Len(t) : d2[i] = IF i <= Len(r) THEN r[i] ELSE t[i - Len(r)]
  BY <1>12, <1>13
<1>5. Len(r) + Len(t) = Len(d) + 1  BY <1>1, <1>2, <1>3
<1>6. DOMAIN d2 = 1 .. Len(d) + 1 /\ Len(d2) = Len(d) + 1  BY <1>4, <1>5, LenProperties
<1>11. Len(r) = Len(d) - 1  BY <1>3
<1>7. ASSUME NEW i \in 1 .. Len(d) + 1
      PROVE  /\ i <= Len(d) - 1 => d2[i] = d[i] /\ i \in 1 .. Len(d) /\ i # Len(d)
             /\ i = Len(d) => d2[i] = x
             /\ i = Len(d) + 1 => d2[i] = y
             /\ Ends(d2[i]) <=> i = Len(d) + 1
  <2>1. CASE i <= Len(d) - 1
    <3>1. i \in 1 .. Len(d) - 1 /\ i <= Len(r) /\ i \in 1 .. Len(r) + Len(t)
          /\ i \in 1 .. Len(d) /\ i # Len(d) /\ i # Len(d) + 1
      BY <2>1, <1>9, <1>3, <1>5
    <3>2. d2[i] = d[i]  BY <3>1, <1>3, <1>4
    <3>. QED  BY <3>1, <3>2, <1>2
  <2>2. CASE i = Len(d)
    <3>1. /\ ~(i <= Len(r)) /\ i \in 1 .. Len(r) + Len(t) /\ i - Len(r) = 1
          /\ i # Len(d) + 1 /\ ~(i <= Len(d) - 1)
      BY <2>2, <1>2, <1>3, <1>5
    <3>2. d2[i] = x  BY <3>1, <1>1, <1>4
    <3>. QED  BY <2>2, <3>1, <3>2, <1>2
  <2>3. CASE i = Len(d) + 1
    <3>1. /\ ~(i <= Len(r)) /\ i \in 1 .. Len(r) + Len(t) /\ i - Len(r) = 2
          /\ i # Len(d) /\ ~(i <= Len(d) - 1)
      BY ONLY <2>3, <1>9, <1>11, <1>5
    <3>2. d2[i] = y  BY <3>1, <1>1, <1>4
    <3>. QED  BY <2>3, <3>1, <3>2
  <2>4. i <= Len(d) - 1 \/ i = Len(d) \/ i = Len(d) + 1  BY <1>9
  <2>. QED  BY <2>1, <2>2, <2>3, <2>4
<1>8. Closing(d2)
  <2>1. \A i \in DOMAIN d2 : Ends(d2[i]) <=> i = Len(d2)
    <3>1. \A i \in 1 .. Len(d) + 1 : Ends(d2[i]) <=> i = Len(d) + 1  BY <1>7
    <3>. QED  BY ONLY <3>1, <1>6
  <2>2. Len(d2) >= 1 /\ \E T : d2 \in Seq(T)  BY <1>4, <1>6, <1>9
  <2>. QED  BY <2>1, <2>2 DEF Closing
<1>10. /\ \A i \in 1 .. Len(d) - 1 : d2[i] = d[i]
       /\ d2[Len(d)] = x /\ d2[Len(d) + 1] = y
  <2>1. \A i \in 1 .. Len(d) - 1 : i \in 1 .. Len(d) + 1 /\ i <= Len(d) - 1  BY <1>9
  <2>2. Len(d) \in 1 .. Len(d) + 1 /\ Len(d) + 1 \in 1 .. Len(d) + 1  BY <1>9
  <2>. QED  BY <2>1, <2>2, <1>7
<1>. QED  BY <1>4, <1>6, <1>8, <1>10 DEF U

LEMMA CopyOutsWhole == ASSUME NEW bs, Whole(bs) PROVE Whole(CopyOuts(bs))
<1>. DEFINE bs2 == CopyOuts(bs)
            copy == Ins("copy", fn.out)
            ret == Ins("ret", <<>>)
            Returns2(b) == fn.out # "none" /\ bs[b].code # <<>> /\ Last(bs[b].code).op = "ret"
            New(d) == Instead(d, copy, ret)
<1>1. PICK S : bs \in Seq(Block3(S))  BY DEF Whole, AllEnded, Code
<1>2. Len(bs) \in Nat /\ DOMAIN bs = 1 .. Len(bs) /\ Code(bs)  BY CodeDomain DEF Whole, AllEnded
<1>3. ~Ends(copy) /\ Ends(ret)  BY InsEnds DEF Terminators
<1>4. bs2 = [b \in DOMAIN bs |-> IF Returns2(b) THEN [bs[b] EXCEPT !.code = New(@)] ELSE bs[b]]
  BY DEF CopyOuts, Instead
<1>. HIDE DEF copy, ret, bs2, Returns2
<1>. DEFINE U == S \cup {copy, ret}
<1>5. ASSUME NEW b \in DOMAIN bs
      PROVE  /\ bs2[b] \in Block3(U) /\ Closing(bs2[b].code)
             /\ bs2[b].of = bs[b].of /\ bs2[b].name = bs[b].name
             /\ \A i : Branching(i) \/ i.op = "phi" =>
                  ((\E k \in DOMAIN bs2[b].code : bs2[b].code[k] = i)
                     <=> (\E k \in DOMAIN bs[b].code : bs[b].code[k] = i))
  <2>. DEFINE d == bs[b].code
  <2>1. bs[b] \in Block3(S) /\ d \in Seq(S)
    <3>1. bs[b] \in Block3(S)  BY <1>1, <1>2, ElementOfSeq
    <3>. QED  BY <3>1 DEF Block3
  <2>2. Closing(d)
    <3>1. Ended(bs, b)  BY DEF Whole, AllEnded
    <3>. QED  BY <2>1, <3>1 DEF Ended, Closing
  <2>3. /\ Closing(New(d)) /\ New(d) \in Seq(U) /\ DOMAIN New(d) = 1 .. Len(d) + 1
        /\ \A k \in 1 .. Len(d) - 1 : New(d)[k] = d[k]
        /\ New(d)[Len(d)] = copy /\ New(d)[Len(d) + 1] = ret
    <3>. DEFINE e == New(d)
    <3>1. d \in Seq(S) /\ Closing(d)  BY <2>1, <2>2
    <3>2. e = Instead(d, copy, ret)  OBVIOUS
    <3>. HIDE DEF d, e
    <3>3. ~Ends(copy)  BY <1>3
    <3>4. Ends(ret)  BY <1>3
    <3>5. d \in Seq(S)  BY <3>1
    <3>6. Closing(d)  BY <3>1
    <3>7. /\ Closing(e) /\ e \in Seq(S \cup {copy, ret})
          /\ DOMAIN e = 1 .. Len(d) + 1
          /\ \A i \in 1 .. Len(d) - 1 : e[i] = d[i]
          /\ e[Len(d)] = copy /\ e[Len(d) + 1] = ret
      BY ONLY <3>2, <3>3, <3>4, <3>5, <3>6, ReturnReplaced
    <3>. QED  BY <3>7 DEF d, e
  <2>4. bs2[b] = IF Returns2(b) THEN [bs[b] EXCEPT !.code = New(d)] ELSE bs[b]  BY <1>4
  <2>5. d \in Seq(U)  BY <2>1, SeqMonotonic
  <2>. HIDE DEF New, U
  <2>6. CASE Returns2(b)
    <3>1. bs2[b] = [bs[b] EXCEPT !.code = New(d)]  BY <2>4, <2>6
    <3>2. /\ bs2[b] \in Block3(U) /\ bs2[b].code = New(d)
          /\ bs2[b].of = bs[b].of /\ bs2[b].name = bs[b].name
      BY <3>1, <2>1, <2>3 DEF Block3
    <3>3. Len(d) \in Nat /\ Len(d) >= 1 /\ DOMAIN d = 1 .. Len(d) /\ d[Len(d)].op = "ret"
      <4>1. Last(d).op = "ret"  BY <2>6 DEF Returns2
      <4>2. Last(d) = d[Len(d)]  BY DEF Last
      <4>. QED  BY <4>1, <4>2, <2>1, <2>2, LenProperties DEF Closing
    <3>. DEFINE e == New(d)
    <3>. HIDE DEF d, e
    <3>4. ASSUME NEW i, Branching(i) \/ i.op = "phi"
          PROVE  (\E k \in DOMAIN e : e[k] = i) <=> (\E k \in DOMAIN d : d[k] = i)
      <4>1. i # copy /\ i # ret /\ i.op # "ret"  BY <3>4 DEF Branching, Ins, copy, ret
      <4>2. /\ DOMAIN e = 1 .. Len(d) + 1 /\ \A k \in 1 .. Len(d) - 1 : e[k] = d[k]
            /\ e[Len(d)] = copy /\ e[Len(d) + 1] = ret
        BY <2>3 DEF e
      <4>3. ASSUME NEW k \in DOMAIN e, e[k] = i PROVE k \in DOMAIN d /\ d[k] = i
        <5>1. k \in 1 .. Len(d) - 1 \/ k = Len(d) \/ k = Len(d) + 1  BY <3>3, <4>2
        <5>2. k \in 1 .. Len(d) - 1  BY <5>1, <4>1, <4>2, <4>3
        <5>. QED  BY <5>2, <3>3, <4>2, <4>3
      <4>4. ASSUME NEW k \in DOMAIN d, d[k] = i PROVE k \in DOMAIN e /\ e[k] = i
        <5>1. k \in 1 .. Len(d) - 1  BY <3>3, <4>1, <4>4
        <5>2. k \in 1 .. Len(d) + 1  BY <5>1, <3>3
        <5>. QED  BY <5>1, <5>2, <4>2, <4>4
      <4>. QED  BY <4>3, <4>4
    <3>. QED  BY <3>2, <3>4, <2>3 DEF d, e
  <2>7. CASE ~Returns2(b)
    <3>1. bs2[b] = bs[b]  BY <2>4, <2>7
    <3>. QED  BY <3>1, <2>1, <2>2, <2>5 DEF Block3
  <2>. QED  BY <2>6, <2>7
<1>. HIDE DEF New, U
<1>6. bs2 \in [1 .. Len(bs) -> Block3(U)] /\ DOMAIN bs2 = DOMAIN bs
  <2>1. DOMAIN bs2 = DOMAIN bs /\ bs2 = [b \in DOMAIN bs |-> bs2[b]]  BY <1>4
  <2>. QED  BY <2>1, <1>2, <1>5
<1>7. bs2 \in Seq(Block3(U))  BY <1>2, <1>6, SeqDef
<1>8. AllEnded(bs2)  BY <1>5, <1>6, <1>7 DEF AllEnded, Code, Ended, Closing
<1>9. SameLinks(bs, bs2)  BY <1>5, <1>6 DEF SameLinks, Has
<1>10. Sound(bs2)  BY <1>9, SoundSame DEF Whole
<1>. QED  BY <1>8, <1>10 DEF bs2, Whole

LEMMA EndOfFunction ==
  ASSUME Building, FunctionEnd
  PROVE  phase' = "failed" \/ (phase' = "emitted" /\ Whole(blocks'))
<1>. DEFINE end == CASE fn.kind = "entry" -> EntryEnd
                     [] fn.kind = "void" -> <<Ins("ret", <<>>)>>
                     [] OTHER -> <<Ins("unreachable", <<>>)>>
            bs == IF ~Terminated(blocks, cur) THEN Emit(blocks, cur, end) ELSE blocks
<1>1. \/ Fail
      \/ phase' = "emitted" /\ blocks' = IF fn.kind = "entry" THEN bs ELSE CopyOuts(bs)
  BY DEF FunctionEnd
<1>2. Closing(end)
  <2>1. "ret" \in Terminators /\ "unreachable" \in Terminators /\ "copy" \notin Terminators
    BY DEF Terminators
  <2>2. Closing(<<Ins("ret", <<>>)>>) /\ Closing(<<Ins("unreachable", <<>>)>>)  BY <2>1, ClosingIns
  <2>3. Closing(<<Ins("copy", fn.out), Ins("ret", <<>>)>>)  BY <2>1, InsEnds, ClosingTwo
  <2>4. Closing(EntryEnd)  BY <2>2, <2>3 DEF EntryEnd
  <2>5. CASE fn.kind = "entry"  BY <2>4, <2>5
  <2>6. CASE fn.kind = "void"  BY <2>2, <2>6
  <2>7. CASE fn.kind # "entry" /\ fn.kind # "void"  BY <2>2, <2>7
  <2>. QED  BY <2>5, <2>6, <2>7
<1>6. Mute(end) /\ \E T : end \in Seq(T)
  <2>1. /\ Mute(<<Ins("ret", <<>>)>>) /\ Mute(<<Ins("unreachable", <<>>)>>)
        /\ Mute(<<Ins("copy", fn.out)>>) /\ \E T : <<Ins("ret", <<>>)>> \in Seq(T)
        /\ \E T : <<Ins("unreachable", <<>>)>> \in Seq(T)
    BY MuteOne
  <2>2. Mute(<<Ins("copy", fn.out), Ins("ret", <<>>)>>)
        /\ \E T : <<Ins("copy", fn.out), Ins("ret", <<>>)>> \in Seq(T)
    BY <2>1, MuteTwo
  <2>3. Mute(EntryEnd) /\ \E T : EntryEnd \in Seq(T)  BY <2>1, <2>2 DEF EntryEnd
  <2>4. end = EntryEnd \/ end = <<Ins("ret", <<>>)>> \/ end = <<Ins("unreachable", <<>>)>>
    OBVIOUS
  <2>. HIDE DEF end
  <2>. QED  BY <2>1, <2>3, <2>4
<1>. HIDE DEF end
<1>3. /\ Code(blocks) /\ cur \in DOMAIN blocks /\ (Open(blocks, cur) \/ Ended(blocks, cur))
      /\ \A b \in DOMAIN blocks : b # cur => Ended(blocks, b)
      /\ Sound(blocks)
  <2>1. todo = <<>>  BY DEF FunctionEnd
  <2>2. <<>> \in Sofar  BY <2>1, NothingOwned DEF Building
  <2>3. Sound(blocks)  BY <2>2, TiesOf DEF Sofar, Tied
  <2>. QED  BY <2>1, <2>3, NothingOwned DEF Building
<1>4. AllEnded(bs)
  <2>1. CASE Terminated(blocks, cur)
    <3>1. Ended(blocks, cur)  BY <2>1, <1>3, OpenOrTerminated
    <3>. QED  BY <2>1, <3>1, <1>3 DEF AllEnded
  <2>2. CASE ~Terminated(blocks, cur)
    <3>1. Open(blocks, cur)  BY <2>2, <1>3, OpenOrTerminated
    <3>2. Turned(blocks, bs, {cur}, 0)  BY <2>2, <3>1, <1>2, <1>3, EmitClosing
    <3>. HIDE DEF bs
    <3>3. DOMAIN bs = DOMAIN blocks  BY <3>2, CodeDomain DEF Turned
    <3>. QED  BY <3>2, <3>3, <1>3 DEF Turned, AllEnded
  <2>. QED  BY <2>1, <2>2
<1>7. Sound(bs)  BY <1>3, <1>6, SoundPlain
<1>. HIDE DEF bs
<1>5. Whole(bs) /\ Whole(CopyOuts(bs))  BY <1>4, <1>7, CopyOutsWhole DEF Whole
<1>. QED  BY <1>1, <1>5 DEF Fail

-----------------------------------------------------------------------------
(* The theorem. *)

Phases == {"codegen", "emitted", "analyzed", "failed", "run", "done"}
Generated == {"emitted", "analyzed", "run", "done"}
EndsInv ==
  /\ phase \in Phases
  /\ phase = "codegen" => Building
  /\ phase \in Generated => Whole(blocks)

LEMMA EndsInit == SpirvInit => EndsInv
<1>. SUFFICES ASSUME SpirvInit PROVE EndsInv  OBVIOUS
<1>. DEFINE new == <<BasicBlock("entry", 0)>>
            own == [b \in {1} |-> 0]
            start == State(<<>>, "open")
            end == State(<<>>, "any")
<1>1. /\ phase = "codegen" /\ fn \in Functions /\ blocks = new /\ cur = 1
      /\ todo = <<fn.body>> /\ frames = <<>> /\ breaks = <<>> /\ conts = <<>>
  BY DEF SpirvInit, Init
<1>2. NewlyBegun(new) /\ Len(new) = 1 /\ Code(new) /\ DOMAIN new = {1}
  <2>1. "entry" \in Labelled  BY DEF Labelled
  <2>2. NewlyBegun(new) /\ Len(new) = 1  BY <2>1, NewOne
  <2>. HIDE DEF new
  <2>3. Code(new)  BY <2>2 DEF NewlyBegun, Code
  <2>. QED  BY <2>2, <2>3, CodeDomain
<1>. HIDE DEF new
<1>3. Open(new, 1)
  <2>1. new[1].code = <<>>  BY <1>2 DEF NewlyBegun
  <2>. QED  BY <2>1 DEF Open
<1>4. /\ <<>> \in Seq(Frames) /\ <<>> \in Seq(Stages) /\ Len(<<>>) = 0
      /\ own \in [{1} -> 0 .. 0] /\ own[1] = 0
  OBVIOUS
<1>. HIDE DEF own
<1>5. Ledger(new, 1, <<>>, <<>>, own)  BY <1>2, <1>3, <1>4 DEF Ledger
<1>6. start \in States /\ end \in States /\ start.st = <<>> /\ end.st = <<>> /\ start.mode = "open"
      /\ end.mode = "any"
  BY <1>4, StateOf
<1>. HIDE DEF start, end
<1>7. Path(<<fn.body>>, start, end)
  <2>1. fn.body \in BlockNodes  BY <1>1, FunctionsAssumption
  <2>2. Relaxed(start.st)  BY <1>6 DEF Relaxed
  <2>3. Fits(fn.body, start, end)  BY <2>1, <2>2, <1>6 DEF Fits, Loose
  <2>4. fn.body \in Things  BY <2>1 DEF Things
  <2>. QED  BY <2>3, <2>4, <1>6, PathOne
<1>8. Known(start.mode, new, 1, <<>>)  BY <1>3, <1>6 DEF Known
<1>9. <<>> \in Ties(new, 1, <<>>, <<>>, <<>>)
  <2>1. Sound(new)
    <3>1. \A b, i : ~Has(new, b, i)  BY <1>2 DEF Has, NewlyBegun
    <3>2. new[1].name = "entry" /\ new[1].of = 0  BY DEF new, BasicBlock
    <3>. QED  BY <3>1, <3>2, <1>2 DEF Sound, LatchNames
  <2>2. Tied(new, 1, <<>>, <<>>)  BY <2>1 DEF Tied
  <2>3. Exits(<<>>, <<>>, <<>>, <<>>)
    <3>. DEFINE lev == [i \in 1 .. 0 |-> 0]
    <3>1. <<>> \in Seq(Nat) /\ Len(<<>>) = 0  OBVIOUS
    <3>2. \A i \in 1 .. Len(<<>>) : FALSE  BY <3>1
    <3>3. lev \in [1 .. Len(<<>>) -> 1 .. Len(<<>>)]  BY <3>1
    <3>. HIDE DEF lev
    <3>4. /\ \A i \in 1 .. Len(<<>>) :
               /\ At(<<>>, lev[i]) = "body"
               /\ At(<<>>, i) = At(<<>>, lev[i]).header + 3 /\ At(<<>>, i) = At(<<>>, lev[i]).header + 2
          /\ \A i, j \in 1 .. Len(<<>>) : i < j => lev[i] < lev[j]
          /\ \A l \in 1 .. Len(<<>>) : At(<<>>, l) = "body" => \E i \in 1 .. Len(<<>>) : lev[i] = l
      BY ONLY <3>2
    <3>. QED  BY ONLY <3>1, <3>3, <3>4 DEF Exits
  <2>. QED  BY <2>2, <2>3, <1>4 DEF Ties
<1>10. Underway(new, 1, <<>>, <<fn.body>>, Ties(new, 1, <<>>, <<>>, <<>>))
  BY <1>5, <1>6, <1>7, <1>8, <1>9 DEF Underway, Ledger, Owners
<1>. QED  BY <1>1, <1>10 DEF EndsInv, Building, Sofar, Phases, Generated

LEMMA CodegenKept ==
  ASSUME Building, Codegen
  PROVE  Kept \/ (phase' = "emitted" /\ Whole(blocks'))
<1>1. \/ Leaf \/ IncrDecr \/ AssignmentStore \/ Operated
      \/ ShortCircuit \/ Operands \/ Assignment \/ If \/ While \/ For \/ ArrayDecl \/ Ternary
      \/ ShortCircuitRhs \/ ShortCircuitMerge \/ TernaryArms \/ TernaryElseArm \/ TernaryJoin
      \/ Block \/ IfThen \/ IfElse \/ IfEnd \/ LoopHeader \/ LoopBody \/ LoopLatch \/ LoopBack
      \/ (Break \/ Continue \/ Discard \/ ReturnValue) \/ Return \/ FunctionEnd
  BY DEF Codegen, Operated
<1>2. CASE Leaf  BY <1>2, KeptLeaf
<1>3. CASE IncrDecr  BY <1>3, KeptIncrDecr
<1>4. CASE AssignmentStore  BY <1>4, KeptStore
<1>5. CASE Operated  BY <1>5, KeptOperated
<1>6. CASE ShortCircuit  BY <1>6, KeptShortCircuit
<1>7. CASE Operands  BY <1>7, KeptOperands
<1>8. CASE Assignment  BY <1>8, KeptAssignment
<1>9. CASE If  BY <1>9, KeptIf
<1>10. CASE While  BY <1>10, KeptWhile
<1>11. CASE For  BY <1>11, KeptFor
<1>12. CASE ArrayDecl  BY <1>12, KeptArrayDecl
<1>13. CASE Ternary  BY <1>13, KeptTernary
<1>14. CASE ShortCircuitRhs  BY <1>14, KeptRhs
<1>15. CASE ShortCircuitMerge  BY <1>15, KeptMerge
<1>16. CASE TernaryArms  BY <1>16, KeptArms
<1>17. CASE TernaryElseArm  BY <1>17, KeptElseArm
<1>18. CASE TernaryJoin  BY <1>18, KeptJoin
<1>19. CASE Block  BY <1>19, KeptBlock
<1>20. CASE IfThen  BY <1>20, KeptThen
<1>21. CASE IfElse  BY <1>21, KeptElse
<1>22. CASE IfEnd  BY <1>22, KeptEnd
<1>23. CASE LoopHeader  BY <1>23, KeptHeader
<1>24. CASE LoopBody  BY <1>24, KeptBody
<1>25. CASE LoopLatch  BY <1>25, KeptLatch
<1>26. CASE LoopBack  BY <1>26, KeptBack
<1>27. CASE Break \/ Continue \/ Discard \/ ReturnValue  BY <1>27, KeptJump
<1>28. CASE Return  BY <1>28, KeptReturn
<1>29. CASE FunctionEnd  BY <1>29, EndOfFunction DEF Kept
<1>. QED  BY <1>1, <1>2, <1>3, <1>4, <1>5, <1>6, <1>7, <1>8, <1>9, <1>10, <1>11, <1>12, <1>13,
             <1>14, <1>15, <1>16, <1>17, <1>18, <1>19, <1>20, <1>21, <1>22, <1>23, <1>24, <1>25,
             <1>26, <1>27, <1>28, <1>29

LEMMA EndsNext == EndsInv /\ [Next]_vars => EndsInv'
<1>. SUFFICES ASSUME EndsInv, [Next]_vars PROVE EndsInv'  OBVIOUS
<1>1. CASE Codegen
  <2>1. phase = "codegen"
    BY <1>1 DEF Codegen, Leaf, ShortCircuit, ShortCircuitRhs, ShortCircuitMerge, Ternary,
         TernaryArms, TernaryElseArm, TernaryJoin, Operands, UnaryNot, Binary, MatrixAccess, Call,
         MemberAssignment, MatrixAssignment, MatrixColumn, IncrDecr, Assignment, AssignmentStore,
         ArrayDecl, Block, If, IfThen, IfElse, IfEnd, While, For, LoopHeader, LoopBody, LoopLatch,
         LoopBack, Break, Continue, Discard, Return, ReturnValue, FunctionEnd, Operating, Generating,
         Zenon
  <2>2. Building  BY <2>1 DEF EndsInv
  <2>3. Kept \/ (phase' = "emitted" /\ Whole(blocks'))  BY <1>1, <2>2, CodegenKept
  <2>. QED  BY <2>3 DEF Kept, EndsInv, Phases, Generated
<1>2. CASE AnalyzeCFG \/ Descend \/ Retreat
  BY <1>2 DEF AnalyzeCFG, Descend, Retreat, genVars, EndsInv, Phases, Generated
<1>3. CASE EmitFunction
  BY <1>3 DEF EmitFunction, genVars, EndsInv, Phases, Generated
<1>4. CASE See
  BY <1>4 DEF See, genVars, EndsInv, Phases, Generated
<1>5. CASE Read \/ Execute
  BY <1>5 DEF Read, Execute, genVars, EndsInv, Phases, Generated
<1>6. CASE Finished \/ UNCHANGED vars
  BY <1>6 DEF Finished, vars, genVars, EndsInv, Building, Sofar
<1>. QED  BY <1>1, <1>2, <1>3, <1>4, <1>5, <1>6 DEF Next

LEMMA EndsImplied == EndsInv => EveryBlockEnds
<1>. SUFFICES ASSUME AllEnded(blocks), NEW b \in DOMAIN blocks
              PROVE  \E n \in 1 .. Len(blocks[b].code) :
                       /\ {i \in DOMAIN blocks[b].code : blocks[b].code[i].op \in Terminators} = {n}
                       /\ n = Len(blocks[b].code)
  BY DEF EndsInv, EveryBlockEnds, Generated, Whole
<1>. DEFINE d == blocks[b].code
<1>1. Len(d) \in Nat /\ DOMAIN d = 1 .. Len(d)  BY CodeOf DEF AllEnded
<1>2. Len(d) >= 1 /\ \A i \in DOMAIN d : d[i].op \in Terminators <=> i = Len(d)
  BY DEF AllEnded, Ended, Ends
<1>. HIDE DEF d
<1>3. {i \in DOMAIN d : d[i].op \in Terminators} = {Len(d)} /\ Len(d) \in 1 .. Len(d)
  BY <1>1, <1>2
<1>. QED  BY <1>3 DEF d

\* Whatever a function is made of, when its code is generated each of its blocks ends in
\* one terminator and has none before: blocks that a jump leaves open, blocks that are
\* begun by a construct and filled later, those of an if whose arms both return.
THEOREM BlocksEnd == Spec => []EveryBlockEnds
<1>1. Spec => []EndsInv  BY EndsInit, EndsNext, PTL DEF Spec
<1>. QED  BY <1>1, EndsImplied, PTL
=============================================================================
