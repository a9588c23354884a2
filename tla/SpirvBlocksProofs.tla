------------------------- MODULE SpirvBlocksProofs -------------------------
(***************************************************************************)
(* Whatever a function is made of, its SPIR-V has each block once, after   *)
(* the block that control comes to it through, and all blocks it names     *)
(* (WrittenInOrder): proofs for every set of functions and syntax trees.   *)
(*                                                                         *)
(* From BlocksProofs comes what codegen leaves: blocks that end in their   *)
(* only terminator, whose branches go to a block begun further up (Under)  *)
(* and whose phis name blocks that are reached with them (Follows).  The   *)
(* inductive invariant adds what the depth-first search has done so far    *)
(* (Searched) and what analyzeCFG found (Found).                           *)
(***************************************************************************)
EXTENDS BlocksProofs, FiniteSetTheorems, WellFoundedInduction

-----------------------------------------------------------------------------
(* Branches of blocks that are ended. *)

LEMMA LastIns ==
  ASSUME NEW bs, AllEnded(bs), NEW b \in DOMAIN bs
  PROVE  /\ Len(bs[b].code) \in DOMAIN bs[b].code /\ Last(bs[b].code) = bs[b].code[Len(bs[b].code)]
         /\ \A k \in DOMAIN bs[b].code :
              bs[b].code[k].op \in Terminators => bs[b].code[k] = Last(bs[b].code)
<1>1. Ended(bs, b) /\ Code(bs)  BY DEF AllEnded
<1>. DEFINE d == bs[b].code
<1>2. Len(d) \in Nat /\ DOMAIN d = 1 .. Len(d)  BY <1>1, CodeOf
<1>3. Len(d) >= 1 /\ \A k \in DOMAIN d : Ends(d[k]) => k = Len(d)  BY <1>1 DEF Ended
<1>4. Last(d) = d[Len(d)]  BY DEF Last
<1>. HIDE DEF d
<1>5. Len(d) \in DOMAIN d  BY <1>2, <1>3
<1>6. \A k \in DOMAIN d : d[k].op \in Terminators => d[k] = Last(d)  BY <1>3, <1>4 DEF Ends
<1>. QED  BY <1>4, <1>5, <1>6 DEF d

LEMMA TargetsAre ==
  ASSUME Whole(blocks), NEW b \in DOMAIN blocks
  PROVE  /\ Targets(b) \in Seq(DOMAIN blocks)
         /\ \A t : t \in Range(Targets(b)) <=> Edge(blocks, b, t)
         /\ Forks(b) => Len(Targets(b)) = 2
<1>. DEFINE d == blocks[b].code
            i == Last(d)
<1>1. AllEnded(blocks) /\ Sound(blocks)  BY DEF Whole
<1>2. /\ Len(d) \in DOMAIN d /\ i = d[Len(d)]
      /\ \A k \in DOMAIN d : d[k].op \in Terminators => d[k] = i
  BY <1>1, LastIns
<1>3. Targets(b) = (IF Branching(i) THEN i.arg ELSE <<>>) /\ (Forks(b) <=> i.op = "condbr")
  BY DEF Targets, Forks, Branching
<1>4. Has(blocks, b, i)
  <2>. HIDE DEF i
  <2>. QED  BY <1>2 DEF Has
<1>5. \A j : Branching(j) /\ Has(blocks, b, j) => j = i
  <2>1. \A j : Branching(j) => j.op \in Terminators  BY DEF Branching, Terminators
  <2>. HIDE DEF i
  <2>. QED  BY <2>1, <1>2 DEF Has
<1>6. Apt(blocks, b, i)  BY <1>1, <1>4 DEF Sound
<1>. HIDE DEF i, d
<1>7. \A t : (Branching(i) /\ t \in Range(i.arg)) <=> Edge(blocks, b, t)
  BY <1>4, <1>5 DEF Edge
<1>8. CASE ~Branching(i)
  <2>1. Targets(b) = <<>> /\ ~Forks(b)  BY <1>3, <1>8 DEF Branching
  <2>2. Range(<<>>) = {}  BY DEF Range
  <2>. QED  BY <2>1, <2>2, <1>7, <1>8
<1>9. CASE Branching(i)
  <2>1. Targets(b) = i.arg /\ \A t \in Range(i.arg) : t \in DOMAIN blocks  BY <1>3, <1>6, <1>9 DEF Apt
  <2>2. i.arg \in Seq(DOMAIN blocks) /\ (i.op = "condbr" => Len(i.arg) = 2)
    <3>1. Jump(i)  BY <1>6, <1>9 DEF Apt
    <3>2. CASE \E t : i = Br(t)
      <4>1. PICK t : i = Br(t)  BY <3>2
      <4>2. t \in DOMAIN blocks  BY <2>1, <4>1, BranchTo
      <4>3. i.arg = <<t>> /\ i.op = "br"  BY <4>1 DEF Br, Ins
      <4>. QED  BY <4>2, <4>3
    <3>3. CASE \E t, f : i = CondBr(t, f)
      <4>1. PICK t, f : i = CondBr(t, f)  BY <3>3
      <4>2. t \in DOMAIN blocks /\ f \in DOMAIN blocks
        <5>1. Range(i.arg) = {t, f}  BY <4>1, BranchTo
        <5>. QED  BY <2>1, <5>1
      <4>3. i.arg = <<t, f>>  BY <4>1 DEF CondBr, Ins
      <4>. QED  BY <4>2, <4>3
    <3>. QED  BY <3>1, <3>2, <3>3 DEF Jump
  <2>. QED  BY <2>1, <2>2, <1>3, <1>7, <1>9
<1>. QED  BY <1>8, <1>9

LEMMA EdgeInside ==
  ASSUME NEW bs, Sound(bs), NEW a, NEW b, Edge(bs, a, b)
  PROVE  /\ a \in DOMAIN bs /\ b \in DOMAIN bs /\ Under(bs, a, bs[b].of)
         /\ bs[b].name \in Headings => a = bs[b].of \/ Follows(bs, b + 2, a)
  BY EdgeFrom DEF Sound, Apt, Edge

-----------------------------------------------------------------------------
(* The depth-first search. *)

Called(pa, po) == Range(pa) \cup Range(po)

\* Each block is called for once; the search is through with what a block branches to when
\* it returns from it; and the block that begins another is above it on the path, or it has
\* been returned from later.
Searched(bs, pa, po) ==
  /\ pa \in Seq(DOMAIN bs) /\ po \in Seq(DOMAIN bs)
  /\ IsInjective(pa) /\ IsInjective(po) /\ Range(pa) \cap Range(po) = {}
  /\ 1 \in Called(pa, po)
  /\ \A b \in Range(po) : \A t : Edge(bs, b, t) => t \in Called(pa, po)
  /\ \A i \in DOMAIN pa : bs[pa[i]].of = 0 \/ \E j \in 1 .. i - 1 : pa[j] = bs[pa[i]].of
  /\ \A i \in DOMAIN po : \/ bs[po[i]].of = 0 \/ bs[po[i]].of \in Range(pa)
                          \/ \E j \in DOMAIN po : i < j /\ po[j] = bs[po[i]].of

LEMMA SearchBegins == ASSUME NEW bs, Sound(bs) PROVE Searched(bs, <<1>>, <<>>)
<1>1. 1 \in DOMAIN bs /\ bs[1].of = 0  BY DEF Sound
<1>. DEFINE pa == <<1>>
            po == <<>>
<1>2. /\ pa \in Seq(DOMAIN bs) /\ DOMAIN pa = {1} /\ pa[1] = 1
      /\ po \in Seq(DOMAIN bs) /\ DOMAIN po = {}
  BY <1>1
<1>. HIDE DEF pa, po
<1>3. Range(pa) = {1} /\ Range(po) = {} /\ IsInjective(pa) /\ IsInjective(po)
  BY <1>2 DEF Range, IsInjective
<1>. QED  BY <1>1, <1>2, <1>3 DEF Searched, Called, pa, po

LEMMA Appended ==
  ASSUME NEW S, NEW s \in Seq(S), NEW e \in S
  PROVE  /\ Append(s, e) \in Seq(S) /\ Len(s) \in Nat /\ DOMAIN s = 1 .. Len(s)
         /\ DOMAIN Append(s, e) = 1 .. Len(s) + 1
         /\ \A i \in 1 .. Len(s) : Append(s, e)[i] = s[i]
         /\ Append(s, e)[Len(s) + 1] = e
         /\ Range(Append(s, e)) = Range(s) \cup {e}
         /\ IsInjective(s) /\ e \notin Range(s) => IsInjective(Append(s, e))
<1>. DEFINE a == Append(s, e)
<1>1. /\ a \in Seq(S) /\ Len(a) = Len(s) + 1
      /\ \A i \in 1 .. Len(s) : a[i] = s[i]
      /\ a[Len(s) + 1] = e
  BY AppendProperties
<1>2. Len(s) \in Nat /\ DOMAIN s = 1 .. Len(s) /\ DOMAIN a = 1 .. Len(s) + 1  BY <1>1, LenProperties
<1>. HIDE DEF a
<1>3. \A i : i \in DOMAIN a <=> (i \in DOMAIN s \/ i = Len(s) + 1)  BY <1>2
<1>4. \A i \in DOMAIN s : a[i] = s[i]  BY <1>1, <1>2
<1>5. Range(a) = Range(s) \cup {e}  BY <1>1, <1>3, <1>4 DEF Range
<1>6. ASSUME IsInjective(s), e \notin Range(s) PROVE IsInjective(a)
  <2>1. \A i \in DOMAIN s : a[i] # e  BY <1>4, <1>6 DEF Range
  <2>. QED  BY <2>1, <1>1, <1>3, <1>4, <1>6 DEF IsInjective
<1>. QED  BY <1>1, <1>2, <1>5, <1>6 DEF a

LEMMA FrontLast ==
  ASSUME NEW S, NEW s \in Seq(S), s # <<>>
  PROVE  /\ Front(s) \in Seq(S) /\ Last(s) \in S /\ Len(s) \in Nat \ {0} /\ DOMAIN s = 1 .. Len(s)
         /\ DOMAIN Front(s) = 1 .. Len(s) - 1 /\ Last(s) = s[Len(s)]
         /\ \A i \in 1 .. Len(s) - 1 : Front(s)[i] = s[i]
         /\ Range(s) = Range(Front(s)) \cup {Last(s)}
         /\ IsInjective(s) => IsInjective(Front(s)) /\ Last(s) \notin Range(Front(s))
<1>1. Len(s) \in Nat /\ DOMAIN s = 1 .. Len(s) /\ Len(s) # 0  BY LenProperties, EmptySeq
<1>2. Last(s) = s[Len(s)] /\ Last(s) \in S
  <2>1. Len(s) \in 1 .. Len(s)  BY <1>1
  <2>2. s[Len(s)] \in S  BY <2>1, ElementOfSeq
  <2>. QED  BY <2>2 DEF Last
<1>. DEFINE f == Front(s)
<1>3. /\ f \in Seq(S) /\ Len(f) = Len(s) - 1
      /\ \A i \in 1 .. Len(s) - 1 : f[i] = s[i]
  <2>1. f = SubSeq(s, 1, Len(s) - 1)  BY DEF Front
  <2>. HIDE DEF f
  <2>2. \A i \in 1 .. Len(s) - 1 : s[i] \in S  BY <1>1, ElementOfSeq
  <2>3. /\ SubSeq(s, 1, Len(s) - 1) \in Seq(S) /\ Len(SubSeq(s, 1, Len(s) - 1)) = Len(s) - 1
        /\ \A i \in 1 .. Len(s) - 1 : SubSeq(s, 1, Len(s) - 1)[i] = s[i]
    BY <1>1, <2>2, SubSeqProperties
  <2>. QED  BY <2>1, <2>3
<1>4. DOMAIN f = 1 .. Len(s) - 1  BY <1>3, LenProperties
<1>. HIDE DEF f
<1>5. \A i : i \in DOMAIN s <=> (i \in DOMAIN f \/ i = Len(s))  BY <1>1, <1>4
<1>6. \A i \in DOMAIN f : f[i] = s[i] /\ i # Len(s)  BY <1>1, <1>3, <1>4
<1>7. Range(s) = Range(f) \cup {Last(s)}  BY <1>2, <1>5, <1>6 DEF Range
<1>8. IsInjective(s) => IsInjective(f) /\ Last(s) \notin Range(f)
  BY <1>2, <1>5, <1>6 DEF Range, IsInjective
<1>. QED  BY <1>1, <1>2, <1>3, <1>4, <1>7, <1>8 DEF f

\* What begins the block a call is made for lies above on the path.
LEMMA SearchDescends ==
  ASSUME NEW bs, Code(bs), Sound(bs), NEW pa, NEW po, Searched(bs, pa, po), pa # <<>>,
         NEW t, Edge(bs, Last(pa), t), t \notin Called(pa, po)
  PROVE  Searched(bs, Append(pa, t), po)
<1>. DEFINE pa2 == Append(pa, t)
            b == Last(pa)
<1>1. /\ pa \in Seq(DOMAIN bs) /\ po \in Seq(DOMAIN bs)
      /\ IsInjective(pa) /\ IsInjective(po) /\ Range(pa) \cap Range(po) = {}
  BY DEF Searched
<1>2. t \in DOMAIN bs /\ Under(bs, b, bs[t].of)  BY EdgeInside
<1>3. /\ pa2 \in Seq(DOMAIN bs) /\ Len(pa) \in Nat /\ DOMAIN pa = 1 .. Len(pa)
      /\ DOMAIN pa2 = 1 .. Len(pa) + 1
      /\ \A i \in 1 .. Len(pa) : pa2[i] = pa[i]
      /\ pa2[Len(pa) + 1] = t
      /\ Range(pa2) = Range(pa) \cup {t}
      /\ IsInjective(pa) /\ t \notin Range(pa) => IsInjective(pa2)
  BY <1>1, <1>2, Appended
<1>4. b \in Range(pa)
  <2>1. Range(pa) = Range(Front(pa)) \cup {b}  BY <1>1, FrontLast
  <2>. HIDE DEF b
  <2>. QED  BY <2>1
<1>. HIDE DEF pa2, b
<1>5. bs[t].of = 0 \/ \E j \in 1 .. Len(pa) : pa[j] = bs[t].of
  <2>. DEFINE C == Range(pa) \cup {0}
  <2>1. 0 \notin DOMAIN bs  BY CodeDomain
  <2>2. ASSUME NEW x \in DOMAIN bs, x \in C PROVE bs[x].of \in C
    <3>1. PICK i \in DOMAIN pa : pa[i] = x  BY <2>1, <2>2 DEF Range
    <3>2. bs[x].of = 0 \/ \E j \in 1 .. i - 1 : pa[j] = bs[x].of  BY <3>1 DEF Searched
    <3>3. \A j \in 1 .. i - 1 : j \in DOMAIN pa  BY <1>3
    <3>. QED  BY <3>2, <3>3 DEF Range
  <2>3. Rooted(bs, C) /\ b \in C  BY <2>2, <1>4 DEF Rooted
  <2>. HIDE DEF C
  <2>4. bs[t].of \in C  BY <2>3, <1>2 DEF Under
  <2>. QED  BY <2>4, <1>3 DEF C, Range
<1>6. ASSUME NEW i \in DOMAIN pa2
      PROVE  bs[pa2[i]].of = 0 \/ \E j \in 1 .. i - 1 : pa2[j] = bs[pa2[i]].of
  <2>1. CASE i = Len(pa) + 1
    <3>1. i - 1 = Len(pa) /\ pa2[i] = t  BY <2>1, <1>3
    <3>. QED  BY <3>1, <1>3, <1>5
  <2>2. CASE i # Len(pa) + 1
    <3>1. i \in DOMAIN pa /\ pa2[i] = pa[i]  BY <2>2, <1>3
    <3>2. bs[pa[i]].of = 0 \/ \E j \in 1 .. i - 1 : pa[j] = bs[pa[i]].of  BY <3>1 DEF Searched
    <3>3. \A j \in 1 .. i - 1 : pa2[j] = pa[j]  BY <3>1, <1>3
    <3>. QED  BY <3>1, <3>2, <3>3
  <2>. QED  BY <2>1, <2>2
<1>7. Called(pa2, po) = Called(pa, po) \cup {t} /\ Range(pa2) \cap Range(po) = {} /\ IsInjective(pa2)
  BY <1>1, <1>3 DEF Called
<1>. QED  BY <1>1, <1>3, <1>6, <1>7 DEF Searched, pa2

LEMMA SearchRetreats ==
  ASSUME NEW bs, NEW pa, NEW po, Searched(bs, pa, po), pa # <<>>,
         \A t : Edge(bs, Last(pa), t) => t \in Called(pa, po)
  PROVE  Searched(bs, Front(pa), Append(po, Last(pa)))
<1>. DEFINE b == Last(pa)
            pa2 == Front(pa)
            po2 == Append(po, b)
<1>1. /\ pa \in Seq(DOMAIN bs) /\ po \in Seq(DOMAIN bs)
      /\ IsInjective(pa) /\ IsInjective(po) /\ Range(pa) \cap Range(po) = {}
  BY DEF Searched
<1>2. /\ pa2 \in Seq(DOMAIN bs) /\ b \in DOMAIN bs /\ Len(pa) \in Nat \ {0} /\ DOMAIN pa = 1 .. Len(pa)
      /\ DOMAIN pa2 = 1 .. Len(pa) - 1 /\ b = pa[Len(pa)]
      /\ \A i \in 1 .. Len(pa) - 1 : pa2[i] = pa[i]
      /\ Range(pa) = Range(pa2) \cup {b}
      /\ IsInjective(pa2) /\ b \notin Range(pa2)
  BY <1>1, FrontLast
<1>3. /\ po2 \in Seq(DOMAIN bs) /\ Len(po) \in Nat /\ DOMAIN po = 1 .. Len(po)
      /\ DOMAIN po2 = 1 .. Len(po) + 1
      /\ \A i \in 1 .. Len(po) : po2[i] = po[i]
      /\ po2[Len(po) + 1] = b
      /\ Range(po2) = Range(po) \cup {b}
      /\ IsInjective(po) /\ b \notin Range(po) => IsInjective(po2)
  BY <1>1, <1>2, Appended
<1>. HIDE DEF b, pa2, po2
<1>4. Called(pa2, po2) = Called(pa, po) /\ Range(pa2) \cap Range(po2) = {} /\ IsInjective(po2)
  BY <1>1, <1>2, <1>3 DEF Called
<1>5. ASSUME NEW i \in DOMAIN pa2
      PROVE  bs[pa2[i]].of = 0 \/ \E j \in 1 .. i - 1 : pa2[j] = bs[pa2[i]].of
  <2>1. i \in DOMAIN pa /\ pa2[i] = pa[i]  BY <1>2
  <2>2. bs[pa[i]].of = 0 \/ \E j \in 1 .. i - 1 : pa[j] = bs[pa[i]].of  BY <2>1 DEF Searched
  <2>3. \A j \in 1 .. i - 1 : pa2[j] = pa[j]  BY <1>2
  <2>. QED  BY <2>1, <2>2, <2>3
<1>6. ASSUME NEW i \in DOMAIN po2
      PROVE  \/ bs[po2[i]].of = 0 \/ bs[po2[i]].of \in Range(pa2)
             \/ \E j \in DOMAIN po2 : i < j /\ po2[j] = bs[po2[i]].of
  <2>1. CASE i = Len(po) + 1
    <3>1. po2[i] = pa[Len(pa)] /\ Len(pa) \in DOMAIN pa  BY <2>1, <1>2, <1>3
    <3>2. bs[po2[i]].of = 0 \/ \E j \in 1 .. Len(pa) - 1 : pa[j] = bs[po2[i]].of
      BY <3>1 DEF Searched
    <3>3. \A j \in 1 .. Len(pa) - 1 : pa[j] \in Range(pa2)  BY <1>2 DEF Range
    <3>. QED  BY <3>2, <3>3
  <2>2. CASE i # Len(po) + 1
    <3>1. i \in DOMAIN po /\ po2[i] = po[i]  BY <2>2, <1>3
    <3>2. \/ bs[po[i]].of = 0 \/ bs[po[i]].of \in Range(pa)
          \/ \E j \in DOMAIN po : i < j /\ po[j] = bs[po[i]].of
      BY <3>1 DEF Searched
    <3>3. CASE bs[po[i]].of = b
      <4>1. Len(po) + 1 \in DOMAIN po2 /\ i < Len(po) + 1  BY <3>1, <1>3
      <4>. QED  BY <3>1, <3>3, <4>1, <1>3
    <3>4. CASE \E j \in DOMAIN po : i < j /\ po[j] = bs[po[i]].of
      <4>1. \A j \in DOMAIN po : j \in DOMAIN po2 /\ po2[j] = po[j]  BY <1>3
      <4>. QED  BY <3>1, <3>4, <4>1
    <3>. QED  BY <3>1, <3>2, <3>3, <3>4, <1>2
  <2>. QED  BY <2>1, <2>2
<1>7. ASSUME NEW x \in Range(po2), NEW t, Edge(bs, x, t) PROVE t \in Called(pa2, po2)
  <2>1. CASE x = b  BY <1>4, <1>7, <2>1 DEF b
  <2>2. CASE x \in Range(po)  BY <1>4, <1>7, <2>2 DEF Searched
  <2>. QED  BY <2>1, <2>2, <1>3
<1>8. 1 \in Called(pa2, po2)  BY <1>4 DEF Searched
<1>. QED  BY <1>1, <1>2, <1>3, <1>4, <1>5, <1>6, <1>7, <1>8 DEF Searched, pa2, po2, b

-----------------------------------------------------------------------------
(* What analyzeCFG finds: a merge block is one or two branches away, a continue target
   branches to the header of its loop. *)

Found(bs, m) ==
  /\ \A h \in DOMAIN m.loop : Edge(bs, h, m.loop[h])
  /\ \A h \in DOMAIN m.continue : bs[h].name \in Headings /\ Edge(bs, m.continue[h], h)
  /\ \A h \in DOMAIN m.selection :
       Edge(bs, h, m.selection[h]) \/ \E t : Edge(bs, h, t) /\ Edge(bs, t, m.selection[h])

LEMMA LeastNat == ASSUME NEW S \in SUBSET Nat, S # {} PROVE \E m \in S : \A k \in S : ~(k < m)
<1>1. PICK m \in S : \A k \in S : ~(<<k, m>> \in OpToRel(<, Nat))  BY WFMin, NatLessThanWellFounded
<1>. QED  BY <1>1 DEF OpToRel

LEMMA JoinedRange ==
  ASSUME NEW S, NEW s \in Seq(S), NEW t \in Seq(S)
  PROVE  s \o t \in Seq(S) /\ Range(s \o t) \subseteq Range(s) \cup Range(t)
<1>. DEFINE c == s \o t
<1>1. /\ c \in Seq(S) /\ Len(c) = Len(s) + Len(t)
      /\ \A i \in 1 .. Len(s) + Len(t) : c[i] = IF i <= Len(s) THEN s[i] ELSE t[i - Len(s)]
  BY ConcatProperties
<1>2. /\ Len(s) \in Nat /\ DOMAIN s = 1 .. Len(s) /\ Len(t) \in Nat /\ DOMAIN t = 1 .. Len(t)
      /\ DOMAIN c = 1 .. Len(s) + Len(t)
  BY <1>1, LenProperties
<1>. HIDE DEF c
<1>3. ASSUME NEW i \in DOMAIN c
      PROVE  (i \in DOMAIN s /\ c[i] = s[i]) \/ (i - Len(s) \in DOMAIN t /\ c[i] = t[i - Len(s)])
  BY <1>1, <1>2
<1>4. Range(c) \subseteq Range(s) \cup Range(t)  BY <1>3 DEF Range
<1>. QED  BY <1>1, <1>4 DEF c

LEMMA JoinsAre ==
  ASSUME Whole(blocks), NEW h \in DOMAIN blocks, Forks(h)
  PROVE  /\ Joins(h) \in Seq(DOMAIN blocks)
         /\ \A b \in Range(Joins(h)) : Edge(blocks, h, b) \/ \E t : Edge(blocks, h, t) /\ Edge(blocks, t, b)
<1>. DEFINE t == Targets(h)[1]
            f == Targets(h)[2]
            D == DOMAIN blocks
<1>1. Targets(h) \in Seq(D) /\ Len(Targets(h)) = 2 /\ DOMAIN Targets(h) = 1 .. 2
      /\ \A b : b \in Range(Targets(h)) <=> Edge(blocks, h, b)
  BY TargetsAre, LenProperties
<1>2. 1 \in 1 .. 2 /\ 2 \in 1 .. 2  OBVIOUS
<1>3. t \in D /\ f \in D /\ Edge(blocks, h, t) /\ Edge(blocks, h, f)
  BY <1>1, <1>2, ElementOfSeq DEF Range
<1>4. Joins(h) = <<f, t>> \o Targets(t) \o Targets(f)  BY DEF Joins
<1>. HIDE DEF t, f, D
<1>5. /\ Targets(t) \in Seq(D) /\ \A b : b \in Range(Targets(t)) <=> Edge(blocks, t, b)
      /\ Targets(f) \in Seq(D) /\ \A b : b \in Range(Targets(f)) <=> Edge(blocks, f, b)
  BY <1>3, TargetsAre DEF D
<1>6. <<f, t>> \in Seq(D) /\ Range(<<f, t>>) = {f, t}  BY <1>3 DEF Range
<1>. DEFINE p == <<f, t>>
            q == Targets(t)
            r == Targets(f)
<1>. HIDE DEF p, q, r
<1>7. p \o q \in Seq(D) /\ Range(p \o q) \subseteq Range(p) \cup Range(q)
  BY <1>5, <1>6, JoinedRange DEF p, q
<1>8. p \o q \o r \in Seq(D) /\ Range(p \o q \o r) \subseteq Range(p \o q) \cup Range(r)
  BY <1>5, <1>7, JoinedRange DEF r
<1>9. ASSUME NEW b \in Range(Joins(h))
      PROVE  Edge(blocks, h, b) \/ \E x : Edge(blocks, h, x) /\ Edge(blocks, x, b)
  <2>1. b \in {f, t} \/ b \in Range(q) \/ b \in Range(r)  BY <1>4, <1>6, <1>7, <1>8 DEF p, q, r
  <2>. QED  BY <2>1, <1>3, <1>5 DEF q, r
<1>. QED  BY <1>4, <1>8, <1>9 DEF p, q, r, D

LEMMA FirstJoinIs ==
  ASSUME Whole(blocks), NEW h \in DOMAIN blocks, Forks(h), \E b \in Range(Joins(h)) : IsMerge(b)
  PROVE  Joins(h)[FirstJoin(h)] \in Range(Joins(h))
<1>. DEFINE s == Joins(h)
            S == {i \in DOMAIN s : IsMerge(s[i])}
<1>1. Len(s) \in Nat /\ DOMAIN s = 1 .. Len(s)  BY JoinsAre, LenProperties
<1>2. S \in SUBSET Nat /\ S # {}
  <2>1. PICK i \in DOMAIN s : IsMerge(s[i])  BY DEF Range
  <2>. QED  BY <2>1, <1>1
<1>3. PICK m \in S : \A k \in S : ~(k < m)  BY <1>2, LeastNat
<1>4. m \in DOMAIN s /\ IsMerge(s[m]) /\ \A j \in 1 .. m - 1 : ~IsMerge(s[j])
  <2>1. \A j \in 1 .. m - 1 : j \in DOMAIN s /\ j < m  BY <1>1, <1>3
  <2>. QED  BY <2>1, <1>3
<1>. HIDE DEF s, S
<1>5. FirstJoin(h) \in DOMAIN s  BY <1>4 DEF FirstJoin, s
<1>. QED  BY <1>5 DEF Range, s

LEMMA MergesFound == ASSUME Whole(blocks) PROVE Found(blocks, Merges)
<1>1. /\ DOMAIN Merges.loop = {l \in LoopHeaders : LoopEnds(l) # {}}
      /\ \A h \in DOMAIN Merges.loop : Merges.loop[h] = CHOOSE b \in LoopEnds(h) : TRUE
  BY DEF Merges
<1>2. /\ DOMAIN Merges.continue = {l \in LoopHeaders : Latches(l) # {}}
      /\ \A h \in DOMAIN Merges.continue : Merges.continue[h] = CHOOSE b \in Latches(h) : TRUE
  BY DEF Merges
<1>3. /\ DOMAIN Merges.selection = {s \in Selections : \E b \in Range(Joins(s)) : IsMerge(b)}
      /\ \A h \in DOMAIN Merges.selection : Merges.selection[h] = Joins(h)[FirstJoin(h)]
  BY DEF Merges
<1>4. ASSUME NEW h \in DOMAIN Merges.loop PROVE Edge(blocks, h, Merges.loop[h])
  <2>1. h \in DOMAIN blocks /\ LoopEnds(h) # {}  BY <1>1 DEF LoopHeaders
  <2>2. Merges.loop[h] \in LoopEnds(h)  BY <1>1, <2>1
  <2>. QED  BY <2>1, <2>2, TargetsAre DEF LoopEnds
<1>5. ASSUME NEW h \in DOMAIN Merges.continue
      PROVE  blocks[h].name \in Headings /\ Edge(blocks, Merges.continue[h], h)
  <2>1. h \in LoopHeaders /\ Latches(h) # {}  BY <1>2
  <2>2. Merges.continue[h] \in Latches(h)  BY <1>2, <2>1
  <2>3. Merges.continue[h] \in DOMAIN blocks /\ h \in Range(Targets(Merges.continue[h]))
    BY <2>2 DEF Latches, Preds
  <2>4. blocks[h].name \in Headings  BY <2>1 DEF LoopHeaders, Named, Headings
  <2>. QED  BY <2>3, <2>4, TargetsAre
<1>6. ASSUME NEW h \in DOMAIN Merges.selection
      PROVE  \/ Edge(blocks, h, Merges.selection[h])
             \/ \E t : Edge(blocks, h, t) /\ Edge(blocks, t, Merges.selection[h])
  <2>1. h \in DOMAIN blocks /\ Forks(h) /\ \E b \in Range(Joins(h)) : IsMerge(b)
    BY <1>3 DEF Selections
  <2>2. Merges.selection[h] \in Range(Joins(h))  BY <2>1, <1>3, FirstJoinIs
  <2>. QED  BY <2>1, <2>2, JoinsAre
<1>. QED  BY <1>4, <1>5, <1>6 DEF Found

-----------------------------------------------------------------------------
(* What is written. *)

\* WrittenInOrder of blocks bs and words ws.
LabelsOf(ws) == {w.label : w \in Range(ws)}
LatchesOf(bs, h) == {b \in DOMAIN bs : bs[b].of = h /\ bs[b].name \in LatchNames}
Placed(bs, ws, i) ==
  LET h == bs[ws[i].label].of IN h = 0 \/ \E j \in 1 .. i - 1 : ws[j].label = h
Closed(bs, L, w) ==
  /\ w.label \in DOMAIN bs /\ \A t : Edge(bs, w.label, t) => t \in L
  /\ \A i \in Range(w.code) : i.op = "phi" => \A in \in Range(i.arg) : in[1] \in L
  /\ w.merge # <<>> =>
       /\ w.merge[1] \in L
       /\ \A m \in Range(w.merge) : m \in L \/ LatchesOf(bs, w.label) \cap L = {}
InOrder(bs, ws) ==
  /\ \A i, j \in DOMAIN ws : ws[i].label = ws[j].label => i = j
  /\ \A i \in DOMAIN ws : Placed(bs, ws, i)
  /\ \A w \in Range(ws) : Closed(bs, LabelsOf(ws), w)

\* The merge instruction of a block that is written.
LEMMA MergeClosed ==
  ASSUME NEW bs, Code(bs), Sound(bs), NEW m, Found(bs, m), NEW L, L \subseteq DOMAIN bs,
         Rooted(bs, L \cup {0}), Ahead(bs, L \cup {0}), NEW h \in L, NEW g,
         \/ h \in DOMAIN m.loop /\ g[1] = m.loop[h] /\ Range(g) = {m.loop[h]}
         \/ /\ h \in DOMAIN m.loop /\ h \in DOMAIN m.continue
            /\ g[1] = m.loop[h] /\ Range(g) = {m.loop[h], m.continue[h]}
         \/ h \in DOMAIN m.selection /\ g[1] = m.selection[h] /\ Range(g) = {m.selection[h]}
  PROVE  g[1] \in L /\ \A x \in Range(g) : x \in L \/ LatchesOf(bs, h) \cap L = {}
<1>0. 0 \notin DOMAIN bs  BY CodeDomain
<1>1. \A a \in L : \A b : Edge(bs, a, b) => b \in L
  <2>1. \A a, b : Edge(bs, a, b) => b \in DOMAIN bs  BY EdgeInside
  <2>2. ASSUME NEW a \in L, NEW b, Edge(bs, a, b) PROVE b \in L \cup {0}  BY <2>2 DEF Ahead
  <2>. QED  BY <2>1, <2>2, <1>0
<1>2. h \in DOMAIN m.loop => m.loop[h] \in L  BY <1>1 DEF Found
<1>3. h \in DOMAIN m.selection => m.selection[h] \in L  BY <1>1 DEF Found
<1>4. ASSUME h \in DOMAIN m.continue PROVE m.continue[h] \in L \/ LatchesOf(bs, h) \cap L = {}
  <2>. DEFINE p == m.continue[h]
  <2>1. bs[h].name \in Headings /\ Edge(bs, p, h)  BY <1>4 DEF Found
  <2>2. p \in DOMAIN bs /\ (p = bs[h].of \/ Follows(bs, h + 2, p))  BY <2>1, EdgeInside
  <2>. HIDE DEF p
  <2>3. CASE p = bs[h].of
    <3>1. h \in DOMAIN bs /\ bs[h].of \in L \cup {0}  BY DEF Rooted
    <3>. QED  BY <3>1, <2>2, <2>3, <1>0 DEF p
  <2>4. CASE Follows(bs, h + 2, p) /\ h + 2 \in L
    <3>1. p \in L \cup {0}  BY <2>4 DEF Follows
    <3>. QED  BY <3>1, <2>2, <1>0 DEF p
  <2>5. CASE h + 2 \notin L
    <3>1. \A b \in LatchesOf(bs, h) : b = h + 2  BY DEF LatchesOf, Sound
    <3>. QED  BY <3>1, <2>5
  <2>. QED  BY <2>2, <2>3, <2>4, <2>5 DEF p
<1>. QED  BY <1>2, <1>3, <1>4

LEMMA WordsInOrder ==
  ASSUME Whole(blocks), Searched(blocks, <<>>, post), Found(blocks, merges)
  PROVE  InOrder(blocks, [i \in DOMAIN Order |-> Word(Order[i])])
<1>. DEFINE ws == [i \in DOMAIN Order |-> Word(Order[i])]
            n == Len(post)
            L == Range(post)
<1>1. Code(blocks) /\ Sound(blocks) /\ 0 \notin DOMAIN blocks  BY CodeDomain DEF Whole, AllEnded
<1>2. /\ post \in Seq(DOMAIN blocks) /\ n \in Nat /\ DOMAIN post = 1 .. n /\ IsInjective(post)
      /\ L \subseteq DOMAIN blocks
  <2>1. post \in Seq(DOMAIN blocks) /\ IsInjective(post)  BY DEF Searched
  <2>2. n \in Nat /\ DOMAIN post = 1 .. n  BY <2>1, LenProperties
  <2>3. \A i \in 1 .. n : post[i] \in DOMAIN blocks  BY <2>1, ElementOfSeq
  <2>. QED  BY <2>1, <2>2, <2>3 DEF Range
<1>3. Range(<<>>) = {}  BY DEF Range
<1>4. Rooted(blocks, L \cup {0})
  <2>1. ASSUME NEW i \in DOMAIN post PROVE blocks[post[i]].of \in L \cup {0}
    <3>1. \/ blocks[post[i]].of = 0 \/ blocks[post[i]].of \in Range(<<>>)
          \/ \E j \in DOMAIN post : i < j /\ post[j] = blocks[post[i]].of
      BY DEF Searched
    <3>. QED  BY <3>1, <1>3 DEF Range
  <2>. QED  BY <2>1, <1>1 DEF Rooted, Range
<1>5. Ahead(blocks, L \cup {0})
  <2>1. ASSUME NEW b \in L, NEW t, Edge(blocks, b, t) PROVE t \in L
    BY <2>1, <1>3 DEF Searched, Called
  <2>2. \A b, t : Edge(blocks, b, t) => b \in DOMAIN blocks  BY EdgeFrom
  <2>. QED  BY <2>1, <2>2, <1>1 DEF Ahead
<1>. HIDE DEF L
<1>6. /\ DOMAIN ws = 1 .. n
      /\ \A i \in 1 .. n : /\ n - i + 1 \in 1 .. n /\ ws[i] = Word(post[n - i + 1])
                           /\ ws[i].label = post[n - i + 1]
  <2>1. DOMAIN Order = 1 .. n /\ \A i \in 1 .. n : Order[i] = post[n - i + 1]
    BY <1>2 DEF Order, Reverse
  <2>2. \A b : Word(b).label = b  BY DEF Word
  <2>3. \A i \in 1 .. n : n - i + 1 \in 1 .. n  BY <1>2
  <2>. QED  BY <2>1, <2>2, <2>3
<1>. HIDE DEF n, ws
<1>7. LabelsOf(ws) = L
  <2>1. ASSUME NEW b \in L PROVE \E i \in DOMAIN ws : ws[i].label = b
    <3>1. PICK k \in 1 .. n : post[k] = b  BY <1>2 DEF L, Range
    <3>2. n - k + 1 \in 1 .. n /\ n - (n - k + 1) + 1 = k  BY <3>1, <1>2
    <3>. QED  BY <3>1, <3>2, <1>6
  <2>2. \A i \in DOMAIN ws : ws[i].label \in L  BY <1>2, <1>6 DEF L, Range
  <2>. QED  BY <2>1, <2>2 DEF LabelsOf, Range
<1>8. ASSUME NEW i \in DOMAIN ws, NEW j \in DOMAIN ws, ws[i].label = ws[j].label PROVE i = j
  <2>1. n - i + 1 = n - j + 1  BY <1>2, <1>6, <1>8 DEF IsInjective
  <2>. QED  BY <2>1, <1>2, <1>6
<1>9. ASSUME NEW i \in DOMAIN ws PROVE Placed(blocks, ws, i)
  <2>. DEFINE k == n - i + 1
              h == blocks[post[k]].of
  <2>1. k \in 1 .. n /\ ws[i].label = post[k]  BY <1>6
  <2>2. \/ h = 0 \/ h \in Range(<<>>)
        \/ \E j \in DOMAIN post : k < j /\ post[j] = h
    BY <2>1, <1>2 DEF Searched
  <2>3. ASSUME NEW j \in DOMAIN post, k < j, post[j] = h
        PROVE  \E x \in 1 .. i - 1 : ws[x].label = h
    <3>. DEFINE x == n - j + 1
    <3>0. n \in Nat /\ i \in 1 .. n /\ j \in 1 .. n /\ n - i + 1 < j  BY <2>3, <1>2, <1>6
    <3>1. x \in 1 .. i - 1 /\ x \in 1 .. n /\ n - x + 1 = j  BY ONLY <3>0
    <3>. HIDE DEF x
    <3>2. ws[x].label = post[j]  BY <3>1, <1>6
    <3>. QED  BY <3>1, <3>2, <2>3
  <2>. HIDE DEF h
  <2>4. h = 0 \/ \E x \in 1 .. i - 1 : ws[x].label = h  BY <2>2, <2>3, <1>3
  <2>. QED  BY <2>1, <2>4 DEF Placed, h
<1>10. ASSUME NEW i \in DOMAIN ws PROVE Closed(blocks, L, ws[i])
  <2>. DEFINE b == post[n - i + 1]
  <2>1. b \in L /\ ws[i] = Word(b)  BY <1>2, <1>6 DEF L, Range
  <2>. HIDE DEF b
  <2>2. /\ Word(b).label = b /\ Word(b).code = blocks[b].code
        /\ Word(b).merge = IF Forks(b) THEN Merge(b) ELSE <<>>
    BY DEF Word
  <2>3. b \in DOMAIN blocks  BY <2>1, <1>2
  <2>4. \A t : Edge(blocks, b, t) => t \in L
    <3>1. \A a, t : Edge(blocks, a, t) => t \in DOMAIN blocks  BY <1>1, EdgeInside
    <3>2. \A t : Edge(blocks, b, t) => t \in L \cup {0}  BY <2>1, <1>5 DEF Ahead
    <3>. QED  BY <3>1, <3>2, <1>1
  <2>5. ASSUME NEW x \in Range(blocks[b].code), x.op = "phi", NEW in \in Range(x.arg)
        PROVE  in[1] \in L
    <3>1. Has(blocks, b, x)  BY <2>3, <2>5 DEF Has, Range
    <3>2. in[1] \in DOMAIN blocks /\ Follows(blocks, b, in[1])  BY <3>1, <2>5, <1>1 DEF Sound, Apt
    <3>3. in[1] \in L \cup {0}  BY <3>2, <2>1, <1>4, <1>5 DEF Follows
    <3>. QED  BY <3>2, <3>3, <1>1
  <2>6. ASSUME Merge(b) # <<>>
        PROVE  /\ Merge(b)[1] \in L
               /\ \A m \in Range(Merge(b)) : m \in L \/ LatchesOf(blocks, b) \cap L = {}
    <3>. DEFINE g == Merge(b)
    <3>1. \A x, y : Range(<<x>>) = {x} /\ <<x>>[1] = x /\ Range(<<x, y>>) = {x, y} /\ <<x, y>>[1] = x
      BY DEF Range
    <3>2. \/ b \in DOMAIN merges.loop /\ g[1] = merges.loop[b] /\ Range(g) = {merges.loop[b]}
          \/ /\ b \in DOMAIN merges.loop /\ b \in DOMAIN merges.continue
             /\ g[1] = merges.loop[b] /\ Range(g) = {merges.loop[b], merges.continue[b]}
          \/ /\ b \in DOMAIN merges.selection /\ g[1] = merges.selection[b]
             /\ Range(g) = {merges.selection[b]}
      <4>1. CASE b \in DOMAIN merges.loop /\ b \in DOMAIN merges.continue
        <5>1. g = <<merges.loop[b], merges.continue[b]>>  BY <4>1 DEF Merge
        <5>. QED  BY <3>1, <4>1, <5>1
      <4>2. CASE b \in DOMAIN merges.loop /\ b \notin DOMAIN merges.continue
        <5>1. g = <<merges.loop[b], merges.loop[b]>>  BY <4>2 DEF Merge
        <5>. QED  BY <3>1, <4>2, <5>1
      <4>3. CASE b \notin DOMAIN merges.loop
        <5>1. b \in DOMAIN merges.selection /\ g = <<merges.selection[b]>>  BY <2>6, <4>3 DEF Merge
        <5>. QED  BY <3>1, <5>1
      <4>. QED  BY <4>1, <4>2, <4>3
    <3>. HIDE DEF g
    <3>3. g[1] \in L /\ \A x \in Range(g) : x \in L \/ LatchesOf(blocks, b) \cap L = {}
      BY <3>2, <2>1, <1>1, <1>2, <1>4, <1>5, MergeClosed
    <3>. QED  BY <3>3 DEF g
  <2>7. Word(b).merge # <<>> => Merge(b) # <<>> /\ Word(b).merge = Merge(b)  BY <2>2
  <2>. QED  BY <2>1, <2>2, <2>3, <2>4, <2>5, <2>6, <2>7 DEF Closed
<1>11. \A w \in Range(ws) : Closed(blocks, LabelsOf(ws), w)  BY <1>7, <1>10 DEF Range
<1>. QED  BY <1>8, <1>9, <1>11 DEF InOrder, ws

-----------------------------------------------------------------------------
(* The theorem. *)

SearchInv ==
  /\ phase \in {"codegen", "emitted"} => path = <<1>> /\ post = <<>>
  /\ phase \in {"analyzed", "run", "done"} => Searched(blocks, path, post) /\ Found(blocks, merges)
  /\ phase \in {"run", "done"} => InOrder(blocks, words)
WordsInv == EndsInv /\ SearchInv

\* Codegen does not touch what analyzeCFG and emitFunction work on.
LEMMA CodegenAlone == Codegen => phase = "codegen" /\ path' = path /\ post' = post
<1>. SUFFICES ASSUME Codegen PROVE phase = "codegen" /\ path' = path /\ post' = post  OBVIOUS
<1>. USE DEF Goto, Fail, Generating, spirvVars
<1>1. CASE ShortCircuit \/ ShortCircuitRhs \/ ShortCircuitMerge \/ Ternary
  BY <1>1 DEF ShortCircuit, ShortCircuitRhs, ShortCircuitMerge, Ternary
<1>2. CASE TernaryArms \/ TernaryElseArm \/ TernaryJoin \/ Operands
  BY <1>2 DEF TernaryArms, TernaryElseArm, TernaryJoin, Operands
<1>3. CASE Leaf \/ UnaryNot \/ Binary \/ MatrixAccess \/ Call
  BY <1>3 DEF Leaf, UnaryNot, Binary, MatrixAccess, Call, Operating, OnVariable
<1>4. CASE MemberAssignment \/ MatrixAssignment \/ MatrixColumn \/ IncrDecr
  BY <1>4 DEF MemberAssignment, MatrixAssignment, MatrixColumn, IncrDecr, Operating, OnVariable
<1>5. CASE Assignment \/ AssignmentStore \/ ArrayDecl \/ Block
  BY <1>5 DEF Assignment, AssignmentStore, ArrayDecl, Block
<1>6. CASE If \/ IfThen \/ IfElse \/ IfEnd
  BY <1>6 DEF If, IfThen, IfElse, IfEnd
<1>7. CASE While \/ For \/ LoopHeader \/ LoopBody \/ LoopLatch \/ LoopBack
  BY <1>7 DEF While, For, LoopHeader, LoopBody, LoopLatch, LoopBack
<1>8. CASE Break \/ Continue \/ Discard \/ Return \/ ReturnValue \/ FunctionEnd
  BY <1>8 DEF Break, Continue, Discard, Return, ReturnValue, FunctionEnd
<1>. QED  BY <1>1, <1>2, <1>3, <1>4, <1>5, <1>6, <1>7, <1>8 DEF Codegen

LEMMA WordsInit == SpirvInit => WordsInv
<1>. SUFFICES ASSUME SpirvInit PROVE WordsInv  OBVIOUS
<1>1. EndsInv  BY EndsInit
<1>2. phase = "codegen" /\ path = <<1>> /\ post = <<>>  BY DEF SpirvInit, Init
<1>. QED  BY <1>1, <1>2 DEF WordsInv, SearchInv

LEMMA WordsNext == WordsInv /\ [Next]_vars => WordsInv'
<1>. SUFFICES ASSUME WordsInv, [Next]_vars PROVE WordsInv'  OBVIOUS
<1>0. EndsInv /\ SearchInv /\ EndsInv'  BY EndsNext DEF WordsInv
<1>1. CASE Codegen
  <2>1. phase = "codegen" /\ path' = path /\ post' = post  BY <1>1, CodegenAlone
  <2>2. phase' \in {"codegen", "emitted", "failed"}
    <3>1. Building  BY <1>0, <2>1 DEF EndsInv
    <3>. QED  BY <1>1, <3>1, CodegenKept DEF Kept
  <2>. QED  BY <1>0, <2>1, <2>2 DEF WordsInv, SearchInv
<1>2. CASE AnalyzeCFG
  <2>1. /\ phase = "emitted" /\ merges' = Merges /\ phase' = "analyzed"
        /\ blocks' = blocks /\ path' = path /\ post' = post
    BY <1>2 DEF AnalyzeCFG, genVars
  <2>2. Whole(blocks) /\ path = <<1>> /\ post = <<>>
    BY <1>0, <2>1 DEF EndsInv, Generated, SearchInv
  <2>3. Searched(blocks, <<1>>, <<>>)  BY <2>2, SearchBegins DEF Whole
  <2>4. Found(blocks, Merges)  BY <2>2, MergesFound
  <2>. QED  BY <1>0, <2>1, <2>2, <2>3, <2>4 DEF WordsInv, SearchInv
<1>3. CASE Descend
  <2>1. /\ phase = "analyzed" /\ phase' = phase /\ path # <<>>
        /\ blocks' = blocks /\ merges' = merges /\ post' = post
    BY <1>3 DEF Descend, genVars
  <2>2. PICK i \in DOMAIN Targets(Last(path)) :
          /\ Targets(Last(path))[i] \notin Visited /\ path' = Append(path, Targets(Last(path))[i])
    BY <1>3 DEF Descend
  <2>3. Whole(blocks) /\ Searched(blocks, path, post) /\ Found(blocks, merges)
    BY <1>0, <2>1 DEF EndsInv, Generated, SearchInv
  <2>4. Last(path) \in DOMAIN blocks  BY <2>1, <2>3, FrontLast DEF Searched
  <2>. DEFINE t == Targets(Last(path))[i]
  <2>5. t \in Range(Targets(Last(path)))  BY DEF Range
  <2>6. t \notin Called(path, post)  BY <2>2 DEF Visited, Called
  <2>. HIDE DEF t
  <2>7. Edge(blocks, Last(path), t)  BY <2>3, <2>4, <2>5, TargetsAre
  <2>8. Searched(blocks, Append(path, t), post)
    BY <2>1, <2>3, <2>6, <2>7, SearchDescends DEF Whole, AllEnded
  <2>. QED  BY <1>0, <2>1, <2>2, <2>3, <2>8 DEF WordsInv, SearchInv, t
<1>4. CASE Retreat
  <2>1. /\ phase = "analyzed" /\ phase' = phase /\ path # <<>>
        /\ blocks' = blocks /\ merges' = merges
        /\ Range(Targets(Last(path))) \subseteq Visited
        /\ path' = Front(path) /\ post' = Append(post, Last(path))
    BY <1>4 DEF Retreat, genVars
  <2>2. Whole(blocks) /\ Searched(blocks, path, post) /\ Found(blocks, merges)
    BY <1>0, <2>1 DEF EndsInv, Generated, SearchInv
  <2>3. Last(path) \in DOMAIN blocks  BY <2>1, <2>2, FrontLast DEF Searched
  <2>4. \A t : Edge(blocks, Last(path), t) => t \in Called(path, post)
    BY <2>1, <2>2, <2>3, TargetsAre DEF Visited, Called
  <2>5. Searched(blocks, Front(path), Append(post, Last(path)))
    BY <2>1, <2>2, <2>4, SearchRetreats
  <2>. QED  BY <1>0, <2>1, <2>2, <2>5 DEF WordsInv, SearchInv
<1>5. CASE EmitFunction
  <2>1. /\ phase = "analyzed" /\ phase' = "run" /\ path = <<>>
        /\ blocks' = blocks /\ merges' = merges /\ path' = path /\ post' = post
        /\ words' = [i \in DOMAIN Order |-> Word(Order[i])]
    BY <1>5 DEF EmitFunction, genVars
  <2>2. Whole(blocks) /\ Searched(blocks, <<>>, post) /\ Found(blocks, merges)
    BY <1>0, <2>1 DEF EndsInv, Generated, SearchInv
  <2>3. InOrder(blocks, [i \in DOMAIN Order |-> Word(Order[i])])  BY <2>2, WordsInOrder
  <2>4. InOrder(blocks', words')  BY <2>1, <2>3
  <2>. QED  BY <1>0, <2>1, <2>2, <2>4 DEF WordsInv, SearchInv
<1>6. CASE See \/ Read \/ Execute \/ Finished \/ UNCHANGED vars
  <2>1. /\ UNCHANGED <<blocks, merges, path, post, words>>
        /\ phase' = phase \/ (phase \in {"run", "done"} /\ phase' \in {"run", "done"})
    BY <1>6 DEF See, Read, Execute, Finished, vars, genVars, spirvVars
  <2>. QED  BY <1>0, <2>1 DEF WordsInv, SearchInv
<1>. QED  BY <1>1, <1>2, <1>3, <1>4, <1>5, <1>6 DEF Next

LEMMA WordsImplied == WordsInv => WrittenInOrder
<1>. SUFFICES ASSUME WordsInv, Written PROVE WrittenInOrder  BY DEF WrittenInOrder
<1>1. InOrder(blocks, words) /\ Whole(blocks)
  BY DEF WordsInv, SearchInv, EndsInv, Generated, Written
<1>2. \A i, j \in DOMAIN words : words[i].label = words[j].label => i = j  BY <1>1 DEF InOrder
<1>3. ASSUME NEW i \in DOMAIN words
      PROVE  LET h == blocks[words[i].label].of IN h = 0 \/ \E j \in 1 .. i - 1 : words[j].label = h
  BY <1>1 DEF InOrder, Placed
<1>4. Labels = LabelsOf(words)  BY DEF Labels, LabelsOf
<1>5. \A h : OwnLatch(h) = LatchesOf(blocks, h)  BY DEF OwnLatch, LatchesOf, Named, LatchNames
<1>6. ASSUME NEW w \in Range(words)
      PROVE  /\ Range(Targets(w.label)) \subseteq Labels
             /\ \A i \in Range(w.code) : i.op = "phi" => \A in \in Range(i.arg) : in[1] \in Labels
             /\ w.merge # <<>> =>
                  /\ w.merge[1] \in Labels
                  /\ \A m \in Range(w.merge) : m \in Labels \/ OwnLatch(w.label) \cap Labels = {}
  <2>1. Closed(blocks, Labels, w)  BY <1>1, <1>4 DEF InOrder
  <2>2. Range(Targets(w.label)) \subseteq Labels  BY <2>1, <1>1, TargetsAre DEF Closed
  <2>. QED  BY <2>1, <2>2, <1>5 DEF Closed
<1>. QED  BY <1>2, <1>3, <1>6 DEF WrittenInOrder

\* Whatever a function is made of, emitFunction writes its blocks once each, a block after
\* the one control comes to it through, and writes each block that a branch, a phi or a merge
\* instruction names; a loop that never comes round may name a latch that is not there.
THEOREM WordsAreInOrder == Spec => []WrittenInOrder
<1>1. Spec => []WordsInv  BY WordsInit, WordsNext, PTL DEF Spec
<1>. QED  BY <1>1, WordsImplied, PTL
=============================================================================
