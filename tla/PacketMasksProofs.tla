------------------------ MODULE PacketMasksProofs ------------------------
(***************************************************************************)
(* Proofs about PacketMasks, for every set of lanes, every nesting depth   *)
(* and every program.  The first part is about frame stacks alone: each    *)
(* way the emitted code changes the stack keeps it WellFormed.  The second *)
(* part applies those lemmas to the actions.  The third shows that the     *)
(* straight vector code the packetizer emits implements ScalarLanes: it    *)
(* takes every lane through the statements that the scalar code generator  *)
(* would have it execute.                                                  *)
(***************************************************************************)
EXTENDS PacketMasks, SequenceTheorems, TLAPS

(* The fields of a frame; SMT needs them spelled out. *)
LEMMA FrameFields ==
  ASSUME NEW f \in Frame
  PROVE  /\ f.kind \in Kinds /\ f.saved \in SUBSET Lanes
         /\ f.cond \in SUBSET Lanes /\ f.act \in SUBSET Lanes
         /\ f.em \in Nat /\ f.idle \in BOOLEAN
BY DEF Frame

(* Uniform loops are open only where no masked iteration is. *)
LEMMA UniformHasNoPtr ==
  ASSUME NEW fs, PointersInnermost(fs), NEW k \in DOMAIN fs, k \in Nat,
         fs[k].kind \in {"uloop", "ubody"}
  PROVE  PtrAt(fs, k) = 0
<1> SUFFICES ASSUME PtrAt(fs, k) # 0 PROVE FALSE
  OBVIOUS
<1> DEFINE e == PtrAt(fs, k)
<1>1. /\ e \in 1 .. k /\ fs[e].kind = "body"
      /\ \A i \in (e + 1) .. k : fs[i].kind \in Arms
  BY DEF PointersInnermost
<1>2. e # k
  BY <1>1
<1>3. k \in (e + 1) .. k
  BY <1>1, <1>2
<1> QED BY <1>1, <1>3 DEF Arms

(* A frame was opened under no iteration or under one below it. *)
LEMMA EmBelow ==
  ASSUME NEW fs \in Seq(Frame), WellFormed(fs), NEW k \in 1 .. Len(fs)
  PROVE  fs[k].em = 0 \/ fs[k].em \in 1 .. (k - 1)
<1>1. fs[k].em = PtrAt(fs, k - 1)
  BY DEF WellFormed, Linked
<1>2. CASE k = 1
  BY <1>1, <1>2 DEF PtrAt
<1>3. CASE k > 1
  <2>1. k - 1 \in DOMAIN fs
    BY <1>3
  <2>2. PtrAt(fs, k - 1) # 0 => PtrAt(fs, k - 1) \in 1 .. (k - 1)
    BY <2>1 DEF WellFormed, PointersInnermost
  <2> QED BY <1>1, <2>2
<1> QED BY <1>2, <1>3

(* The lanes inside the top frame are those that effMask() selects. *)
LEMMA InsideTop ==
  ASSUME NEW fs \in Seq(Frame), WellFormed(fs), Len(fs) > 0
  PROVE  Inside(fs, Len(fs)) = EffOf(fs, MaskAt(fs, Len(fs)), PtrAt(fs, Len(fs)))
<1> DEFINE n == Len(fs)
<1>1. n \in DOMAIN fs /\ n \in 1 .. n /\ n # 0
  OBVIOUS
<1>2. fs[n] \in Frame
  BY <1>1
<1>3. fs[n].act \subseteq fs[n].saved /\ fs[n].em = PtrAt(fs, n - 1)
  BY <1>1 DEF WellFormed, Linked
<1>4. CASE fs[n].kind = "body"
  BY <1>1, <1>2, <1>3, <1>4, FrameFields DEF Inside, EffOf, MaskAt, PtrAt, Arms
<1>5. CASE fs[n].kind = "loop"
  BY <1>1, <1>5 DEF Inside, EffOf, MaskAt, PtrAt, Arms
<1>6. CASE fs[n].kind \in Arms
  BY <1>1, <1>6 DEF Inside, EffOf, MaskAt, PtrAt, Arms
<1>7. CASE fs[n].kind \in {"uloop", "ubody"}
  <2>2. PtrAt(fs, n) = 0
    BY <1>1, <1>7, UniformHasNoPtr DEF WellFormed
  <2> QED BY <1>1, <1>7, <2>2 DEF Inside, EffOf, MaskAt, Arms
<1> QED BY <1>2, <1>4, <1>5, <1>6, <1>7, FrameFields DEF Kinds, Arms

(* Opening a frame. *)
LEMMA PushWellFormed ==
  ASSUME NEW fs \in Seq(Frame), WellFormed(fs), NEW f \in Frame,
         NEW m, m = MaskAt(fs, Len(fs)),
         NEW e, e = PtrAt(fs, Len(fs)),
         f.act \subseteq f.saved, f.em = e,
         IF f.kind = "body" THEN Len(fs) > 0 /\ fs[Len(fs)].kind = "loop"
                            ELSE f.saved = m,
         f.kind \in {"uloop", "ubody"} => e = 0 /\ f.act = f.saved,
         IF f.kind \in Arms THEN EffOf(fs, f.act, e) \subseteq EffOf(fs, m, e)
                            ELSE f.act \subseteq EffOf(fs, m, e),
         f.idle => f.kind \in Arms /\ EffOf(fs, f.act, e) = {}
  PROVE  WellFormed(Append(fs, f))
<1> DEFINE n == Len(fs)
           gs == Append(fs, f)
<1>1. /\ n = Len(fs) /\ n \in Nat
      /\ gs \in Seq(Frame) /\ Len(gs) = n + 1
      /\ DOMAIN fs = 1 .. n /\ DOMAIN gs = 1 .. (n + 1)
      /\ \A i \in 1 .. n : gs[i] = fs[i]
      /\ gs[n + 1] = f
  OBVIOUS
<1>2. \A k \in 1 .. n : fs[k] \in Frame
  OBVIOUS
<1> HIDE DEF n, gs
<1>3. \A k \in 0 .. n : MaskAt(gs, k) = MaskAt(fs, k) /\ PtrAt(gs, k) = PtrAt(fs, k)
  BY <1>1 DEF MaskAt, PtrAt
<1>4. \A k \in 1 .. n : fs[k].em = 0 \/ fs[k].em \in 1 .. n
  BY <1>1, EmBelow
<1>5. e = 0 \/ e \in 1 .. n
  <2>1. CASE n = 0
    BY <1>1, <2>1 DEF PtrAt
  <2>2. CASE n > 0
    BY <2>2, <1>1 DEF WellFormed, PointersInnermost
  <2> QED BY <2>1, <2>2, <1>1
<1>6. \A k \in 1 .. n : Inside(gs, k) = Inside(fs, k)
  BY <1>1, <1>4 DEF Inside, EffOf
<1>7. Inside(gs, n + 1) = IF f.kind \in Arms THEN EffOf(fs, f.act, e) ELSE f.act
  BY <1>1, <1>5 DEF Inside, EffOf
<1>8. Linked(gs)
  <2> SUFFICES ASSUME NEW k \in 1 .. (n + 1)
               PROVE  /\ gs[k].act \subseteq gs[k].saved
                      /\ gs[k].kind \in {"uloop", "ubody"} => gs[k].act = gs[k].saved
                      /\ gs[k].em = PtrAt(gs, k - 1)
                      /\ IF gs[k].kind = "body"
                         THEN k > 1 /\ gs[k - 1].kind = "loop"
                         ELSE gs[k].saved = MaskAt(gs, k - 1)
    BY <1>1 DEF Linked
  <2>1. CASE k \in 1 .. n
    <3>1. gs[k] = fs[k] /\ k - 1 \in 0 .. n /\ (k > 1 => gs[k - 1] = fs[k - 1])
      BY <1>1, <2>1
    <3> QED BY <1>1, <1>3, <2>1, <3>1 DEF WellFormed, Linked
  <2>2. CASE k = n + 1
    <3>1. gs[k] = f /\ k - 1 = n /\ (n > 0 => gs[n] = fs[n])
      BY <1>1, <2>2
    <3> QED BY <1>1, <1>3, <2>2, <3>1
  <2> QED BY <2>1, <2>2, <1>1
<1>9. PointersInnermost(gs)
  <2> SUFFICES ASSUME NEW k \in 1 .. (n + 1), NEW d, d = PtrAt(gs, k), d # 0
               PROVE  /\ d \in 1 .. k
                      /\ gs[d].kind = "body"
                      /\ \A i \in (d + 1) .. k : gs[i].kind \in Arms /\ gs[i].em = d
    BY <1>1 DEF PointersInnermost
  <2>1. CASE k \in 1 .. n
    <3>1. /\ d \in 1 .. k /\ fs[d].kind = "body"
          /\ \A i \in (d + 1) .. k : fs[i].kind \in Arms /\ fs[i].em = d
      BY <1>1, <1>3, <2>1 DEF WellFormed, PointersInnermost
    <3> QED BY <1>1, <2>1, <3>1
  <2>2. CASE k = n + 1 /\ f.kind = "body"
    BY <1>1, <2>2 DEF PtrAt
  <2>3. CASE k = n + 1 /\ f.kind # "body"
    <3>1. f.kind # "loop" /\ d = e
      BY <1>1, <2>3 DEF PtrAt
    <3>2. f.kind \in Arms
      BY <3>1, <2>3, FrameFields DEF Arms, Kinds
    <3>3. n > 0
      BY <3>1, <1>1 DEF PtrAt
    <3>4. /\ e \in 1 .. n /\ fs[e].kind = "body"
          /\ \A i \in (e + 1) .. n : fs[i].kind \in Arms /\ fs[i].em = e
      BY <1>1, <3>1, <3>3 DEF WellFormed, PointersInnermost
    <3> QED BY <1>1, <2>3, <3>1, <3>2, <3>4
  <2> QED BY <2>1, <2>2, <2>3, <1>1
<1>10. IdleEmpty(gs)
  BY <1>1, <1>6, <1>7 DEF WellFormed, IdleEmpty
<1>11. Nested(gs)
  <2> SUFFICES ASSUME NEW j \in 1 .. (n + 1), NEW k \in 1 .. (n + 1), j <= k
               PROVE  Inside(gs, k) \subseteq Inside(gs, j)
    BY <1>1 DEF Nested
  <2>1. CASE k \in 1 .. n
    BY <1>1, <1>6, <2>1 DEF WellFormed, Nested
  <2>2. CASE k = n + 1 /\ j = n + 1
    BY <2>2
  <2>3. CASE k = n + 1 /\ j \in 1 .. n
    <3>1. Inside(gs, k) \subseteq EffOf(fs, m, e)
      BY <1>7, <2>3
    <3>2. EffOf(fs, m, e) = Inside(fs, n)
      BY <1>1, <2>3, InsideTop
    <3>3. Inside(fs, n) \subseteq Inside(fs, j)
      BY <1>1, <2>3 DEF WellFormed, Nested
    <3> QED BY <3>1, <3>2, <3>3, <1>6, <2>3
  <2> QED BY <2>1, <2>2, <2>3, <1>1
<1> QED BY <1>8, <1>9, <1>10, <1>11 DEF WellFormed, gs

(* Popping a frame, element by element. *)
LEMMA PopElems ==
  ASSUME NEW fs \in Seq(Frame), Len(fs) > 0
  PROVE  LET gs == SubSeq(fs, 1, Len(fs) - 1) IN
           /\ gs \in Seq(Frame)
           /\ Len(gs) = Len(fs) - 1
           /\ \A i \in 1 .. (Len(fs) - 1) : gs[i] = fs[i]
<1> DEFINE p == Len(fs) - 1
           gs == SubSeq(fs, 1, p)
<1>1. p \in Nat /\ \A i \in 1 .. p : fs[i] \in Frame
  OBVIOUS
<1> HIDE DEF p
<1>2. /\ gs \in Seq(Frame)
      /\ Len(gs) = IF 1 <= p THEN p - 1 + 1 ELSE 0
      /\ \A i \in 1 .. (p - 1 + 1) : gs[i] = fs[1 + i - 1]
  BY ONLY <1>1, SubSeqProperties
<1> HIDE DEF gs
<1>3. Len(gs) = p /\ \A i \in 1 .. p : gs[i] = fs[i]
  BY <1>1, <1>2
<1> QED BY <1>2, <1>3 DEF gs, p

(* Closing the top frame: what it encloses has the masks it had before. *)
LEMMA PopWellFormed ==
  ASSUME NEW fs \in Seq(Frame), WellFormed(fs), NEW gs \in Seq(Frame),
         Len(fs) = Len(gs) + 1, \A i \in 1 .. Len(gs) : gs[i] = fs[i]
  PROVE  /\ \A k \in 0 .. Len(gs) : /\ MaskAt(gs, k) = MaskAt(fs, k)
                                    /\ PtrAt(gs, k) = PtrAt(fs, k)
         /\ WellFormed(gs)
<1> DEFINE n == Len(gs)
<1>1. /\ gs \in Seq(Frame) /\ n = Len(gs) /\ n \in Nat
      /\ DOMAIN fs = 1 .. (n + 1) /\ DOMAIN gs = 1 .. n
      /\ \A i \in 1 .. n : gs[i] = fs[i]
  OBVIOUS
<1> HIDE DEF n
<1>2. \A k \in 0 .. n : MaskAt(gs, k) = MaskAt(fs, k) /\ PtrAt(gs, k) = PtrAt(fs, k)
  BY <1>1 DEF MaskAt, PtrAt
<1>3. \A k \in 1 .. n : fs[k].em = 0 \/ fs[k].em \in 1 .. n
  BY <1>1, EmBelow
<1>4. \A k \in 1 .. n : Inside(gs, k) = Inside(fs, k)
  BY <1>1, <1>3 DEF Inside, EffOf
<1>5. Linked(gs)
  <2> SUFFICES ASSUME NEW k \in 1 .. n
               PROVE  /\ gs[k].act \subseteq gs[k].saved
                      /\ gs[k].kind \in {"uloop", "ubody"} => gs[k].act = gs[k].saved
                      /\ gs[k].em = PtrAt(gs, k - 1)
                      /\ IF gs[k].kind = "body"
                         THEN k > 1 /\ gs[k - 1].kind = "loop"
                         ELSE gs[k].saved = MaskAt(gs, k - 1)
    BY <1>1 DEF Linked
  <2>1. gs[k] = fs[k] /\ k - 1 \in 0 .. n /\ (k > 1 => gs[k - 1] = fs[k - 1])
    BY <1>1
  <2> QED BY <1>1, <1>2, <2>1 DEF WellFormed, Linked
<1>6. PointersInnermost(gs)
  <2> SUFFICES ASSUME NEW k \in 1 .. n, NEW d, d = PtrAt(gs, k), d # 0
               PROVE  /\ d \in 1 .. k
                      /\ gs[d].kind = "body"
                      /\ \A i \in (d + 1) .. k : gs[i].kind \in Arms /\ gs[i].em = d
    BY <1>1 DEF PointersInnermost
  <2>1. /\ d \in 1 .. k /\ fs[d].kind = "body"
        /\ \A i \in (d + 1) .. k : fs[i].kind \in Arms /\ fs[i].em = d
    BY <1>1, <1>2 DEF WellFormed, PointersInnermost
  <2> QED BY <1>1, <2>1
<1>7. IdleEmpty(gs) /\ Nested(gs)
  BY <1>1, <1>4 DEF WellFormed, IdleEmpty, Nested
<1> QED BY <1>1, <1>2, <1>5, <1>6, <1>7 DEF WellFormed

(* Changing the top frame is closing it and opening another one. *)
LEMMA ReplaceTop ==
  ASSUME NEW fs \in Seq(Frame), Len(fs) > 0, NEW f \in Frame
  PROVE  [fs EXCEPT ![Len(fs)] = f] = Append(SubSeq(fs, 1, Len(fs) - 1), f)
<1> DEFINE n == Len(fs)
           gs == [fs EXCEPT ![n] = f]
           ps == SubSeq(fs, 1, n - 1)
           hs == Append(ps, f)
<1>1. n \in 1 .. n
  OBVIOUS
<1>2. /\ gs \in Seq(Frame) /\ Len(gs) = n
      /\ \A i \in 1 .. n : gs[i] = IF i = n THEN f ELSE fs[i]
  BY <1>1, ExceptSeq
<1>3. ps \in Seq(Frame) /\ Len(ps) = n - 1 /\ \A i \in 1 .. (n - 1) : ps[i] = fs[i]
  BY PopElems
<1>4. /\ hs \in Seq(Frame) /\ Len(hs) = n
      /\ \A i \in 1 .. (n - 1) : hs[i] = ps[i]
      /\ hs[n] = f
  <2> HIDE DEF ps, n
  <2> QED BY <1>1, <1>3, AppendProperties DEF hs
<1> HIDE DEF gs, hs, ps, n
<1>5. \A i \in 1 .. Len(gs) : gs[i] = hs[i]
  BY <1>1, <1>2, <1>3, <1>4
<1>6. gs = hs
  BY <1>2, <1>4, <1>5, SeqEqual
<1> QED BY <1>6 DEF gs, hs, ps, n

(* What the lanes inside the top frame are a part of, said of the stack below. *)
LEMMA TopWithinBelow ==
  ASSUME NEW fs \in Seq(Frame), WellFormed(fs), NEW ps \in Seq(Frame),
         Len(fs) = Len(ps) + 1, \A i \in 1 .. Len(ps) : ps[i] = fs[i]
  PROVE  Inside(fs, Len(fs)) \subseteq
           EffOf(ps, MaskAt(ps, Len(ps)), PtrAt(ps, Len(ps)))
<1> DEFINE n == Len(ps)
<1>1. /\ n = Len(ps) /\ n \in Nat /\ DOMAIN fs = 1 .. (n + 1)
      /\ \A i \in 1 .. n : ps[i] = fs[i]
  OBVIOUS
<1> HIDE DEF n
<1>2. CASE n = 0
  <2>1. EffOf(ps, MaskAt(ps, n), PtrAt(ps, n)) = Lanes
    BY <1>2 DEF EffOf, MaskAt, PtrAt
  <2>2. fs[n + 1].act \subseteq Lanes
    <3>1. fs[n + 1] \in Frame
      BY <1>1
    <3> QED BY <3>1, FrameFields
  <2> QED BY <1>1, <2>1, <2>2 DEF Inside, EffOf
<1>3. CASE n > 0
  <2>1. WellFormed(ps)
    BY <1>1, PopWellFormed
  <2>2. Inside(ps, n) = EffOf(ps, MaskAt(ps, n), PtrAt(ps, n))
    BY <1>1, <1>3, <2>1, InsideTop
  <2>3. Inside(fs, n + 1) \subseteq Inside(fs, n)
    BY <1>1, <1>3 DEF WellFormed, Nested
  <2>4. fs[n].em = 0 \/ fs[n].em \in 1 .. n
    BY <1>1, <1>3, EmBelow
  <2>5. Inside(ps, n) = Inside(fs, n)
    <3>1. ps[n] = fs[n] /\ (fs[n].em = 0 \/ ps[fs[n].em] = fs[fs[n].em])
      BY <1>1, <1>3, <2>4
    <3> QED BY ONLY <3>1 DEF Inside, EffOf
  <2> QED BY <1>1, <2>2, <2>3, <2>5
<1> QED BY <1>1, <1>2, <1>3

(* break and continue: the executing lanes leave the innermost iteration, and
   a break takes them out of its loop as well. *)
(* gs is fs with the lanes X taken out of the acts of the frames b .. e. *)
Cleared(fs, gs, b, e, X) ==
  /\ gs \in Seq(Frame) /\ Len(gs) = Len(fs)
  /\ \A k \in 1 .. Len(fs) : gs[k].kind = fs[k].kind
  /\ \A k \in 1 .. Len(fs) : gs[k].saved = fs[k].saved
  /\ \A k \in 1 .. Len(fs) : gs[k].em = fs[k].em
  /\ \A k \in 1 .. Len(fs) : gs[k].cond = fs[k].cond
  /\ \A k \in 1 .. Len(fs) : gs[k].idle => fs[k].idle
  /\ \A k \in 1 .. Len(fs) : k \in b .. e => gs[k].act = fs[k].act \ X
  /\ \A k \in 1 .. Len(fs) : k \notin b .. e => gs[k].act = fs[k].act

(* The lanes out leave the innermost iteration e and the arms open in it, for a
   break (b = e - 1) its loop too, and no frame below. *)
Exited(fs, gs, b, e, out) ==
  /\ fs[e].kind = "body"
  /\ \A i \in (e + 1) .. Len(fs) : fs[i].kind \in Arms /\ fs[i].em = e
  /\ e > 1 /\ fs[e - 1].kind = "loop"
  /\ \A k \in 1 .. Len(fs) : k >= e => Inside(gs, k) = Inside(fs, k) \ out
  /\ \A k \in 1 .. Len(fs) : k < e - 1 => Inside(gs, k) = Inside(fs, k)
  /\ Inside(gs, e - 1) = IF b = e THEN Inside(fs, e - 1) ELSE Inside(fs, e - 1) \ out

LEMMA ExitInside ==
  ASSUME NEW fs \in Seq(Frame), WellFormed(fs), Len(fs) > 0,
         NEW e \in 1 .. Len(fs), e = PtrAt(fs, Len(fs)),
         NEW out \in SUBSET Lanes, out = EffOf(fs, MaskAt(fs, Len(fs)), e),
         NEW b \in Nat, b = e - 1 \/ b = e, NEW gs, Cleared(fs, gs, b, e, out)
  PROVE  Exited(fs, gs, b, e, out)
<1>0. /\ gs \in Seq(Frame) /\ Len(gs) = Len(fs)
      /\ \A k \in 1 .. Len(fs) : gs[k].kind = fs[k].kind
      /\ \A k \in 1 .. Len(fs) : gs[k].saved = fs[k].saved
      /\ \A k \in 1 .. Len(fs) : gs[k].em = fs[k].em
      /\ \A k \in 1 .. Len(fs) : gs[k].idle => fs[k].idle
      /\ \A k \in 1 .. Len(fs) : k \in b .. e => gs[k].act = fs[k].act \ out
      /\ \A k \in 1 .. Len(fs) : k \notin b .. e => gs[k].act = fs[k].act
  BY DEF Cleared
<1> USE <1>0
<1> DEFINE n == Len(fs)
<1>1. /\ n = Len(fs) /\ n \in Nat /\ n > 0
      /\ DOMAIN fs = 1 .. n /\ DOMAIN gs = 1 .. n
  OBVIOUS
<1>2. /\ \A k \in 1 .. n : /\ gs[k].kind = fs[k].kind
                           /\ gs[k].saved = fs[k].saved /\ gs[k].em = fs[k].em
      /\ \A k \in 1 .. n : k \in b .. e => gs[k].act = fs[k].act \ out
      /\ \A k \in 1 .. n : k \notin b .. e => gs[k].act = fs[k].act
  BY <1>1
<1> HIDE DEF n
<1>3. /\ e \in 1 .. n /\ fs[e].kind = "body"
      /\ \A i \in (e + 1) .. n : fs[i].kind \in Arms /\ fs[i].em = e
  BY <1>1 DEF WellFormed, PointersInnermost
<1>4. e > 1 /\ fs[e - 1].kind = "loop"
  BY <1>1, <1>3 DEF WellFormed, Linked
<1>5. \A k \in 1 .. n : fs[k].em = 0 \/ fs[k].em \in 1 .. (k - 1)
  BY <1>1, EmBelow
<1>6. \A k \in 1 .. n : k >= e => Inside(gs, k) = Inside(fs, k) \ out
  <2> SUFFICES ASSUME NEW k \in 1 .. n, k >= e
               PROVE  Inside(gs, k) = Inside(fs, k) \ out
    OBVIOUS
  <2>1. gs[e].act = fs[e].act \ out /\ gs[e].kind = "body" /\ e # 0
    BY <1>2, <1>3
  <2>2. CASE k = e
    BY ONLY <2>1, <2>2, <1>3 DEF Inside, Arms
  <2>3. CASE k > e
    <3>1. /\ fs[k].kind \in Arms /\ gs[k].kind = fs[k].kind
          /\ fs[k].em = e /\ gs[k].em = e /\ gs[k].act = fs[k].act
      BY <1>2, <1>3, <2>3
    <3> QED BY ONLY <2>1, <3>1 DEF Inside, EffOf
  <2> QED BY <1>1, <2>2, <2>3
<1>7. \A k \in 1 .. n : k < e - 1 => Inside(gs, k) = Inside(fs, k)
  <2> SUFFICES ASSUME NEW k \in 1 .. n, k < e - 1
               PROVE  Inside(gs, k) = Inside(fs, k)
    OBVIOUS
  <2>1. /\ gs[k].kind = fs[k].kind /\ gs[k].em = fs[k].em
        /\ gs[k].act = fs[k].act
    BY <1>2, <1>3
  <2>2. fs[k].em # 0 => gs[fs[k].em].act = fs[fs[k].em].act
    BY <1>1, <1>2, <1>3, <1>5
  <2> QED BY ONLY <2>1, <2>2 DEF Inside, EffOf
<1>8. Inside(gs, e - 1) = IF b = e THEN Inside(fs, e - 1) ELSE Inside(fs, e - 1) \ out
  <2>1. gs[e - 1].kind = "loop" /\ fs[e - 1].kind = "loop" /\ e - 1 \in 1 .. n
    BY <1>1, <1>2, <1>3, <1>4
  <2>2. IF b = e THEN e - 1 \notin b .. e ELSE e - 1 \in b .. e
    BY <1>3
  <2>3. gs[e - 1].act = IF b = e THEN fs[e - 1].act ELSE fs[e - 1].act \ out
    BY ONLY <1>2, <2>1, <2>2
  <2> QED BY ONLY <2>1, <2>3 DEF Inside, Arms
<1> QED BY <1>1, <1>3, <1>4, <1>6, <1>7, <1>8 DEF Exited

LEMMA ExitWellFormed ==
  ASSUME NEW fs \in Seq(Frame), WellFormed(fs), Len(fs) > 0,
         NEW e \in 1 .. Len(fs), e = PtrAt(fs, Len(fs)),
         NEW out \in SUBSET Lanes, out = EffOf(fs, MaskAt(fs, Len(fs)), e),
         NEW b \in Nat, b = e - 1 \/ b = e, NEW gs, Cleared(fs, gs, b, e, out)
  PROVE  /\ WellFormed(gs)
         /\ MaskAt(gs, Len(gs)) = MaskAt(fs, Len(fs))
         /\ PtrAt(gs, Len(gs)) = PtrAt(fs, Len(fs))
<1>0. /\ gs \in Seq(Frame) /\ Len(gs) = Len(fs)
      /\ \A k \in 1 .. Len(fs) : gs[k].kind = fs[k].kind
      /\ \A k \in 1 .. Len(fs) : gs[k].saved = fs[k].saved
      /\ \A k \in 1 .. Len(fs) : gs[k].em = fs[k].em
      /\ \A k \in 1 .. Len(fs) : gs[k].idle => fs[k].idle
      /\ \A k \in 1 .. Len(fs) : k \in b .. e => gs[k].act = fs[k].act \ out
      /\ \A k \in 1 .. Len(fs) : k \notin b .. e => gs[k].act = fs[k].act
  BY DEF Cleared
<1> USE <1>0
<1> DEFINE n == Len(fs)
<1>1. /\ n = Len(fs) /\ n \in Nat /\ n > 0
      /\ DOMAIN fs = 1 .. n /\ DOMAIN gs = 1 .. n
  OBVIOUS
<1>2. /\ \A k \in 1 .. n : /\ gs[k].kind = fs[k].kind
                           /\ gs[k].saved = fs[k].saved /\ gs[k].em = fs[k].em
      /\ \A k \in 1 .. n : k \in b .. e => gs[k].act = fs[k].act \ out
      /\ \A k \in 1 .. n : k \notin b .. e => gs[k].act = fs[k].act
  BY <1>1
<1> HIDE DEF n
<1>3. /\ e \in 1 .. n /\ fs[e].kind = "body"
      /\ \A i \in (e + 1) .. n : fs[i].kind \in Arms /\ fs[i].em = e
  BY <1>1 DEF WellFormed, PointersInnermost
<1>4. e > 1 /\ fs[e - 1].kind = "loop"
  BY <1>1, <1>3 DEF WellFormed, Linked
<1>5. \A k \in 0 .. n : PtrAt(gs, k) = PtrAt(fs, k)
  <2> SUFFICES ASSUME NEW k \in 0 .. n PROVE PtrAt(gs, k) = PtrAt(fs, k)
    OBVIOUS
  <2>1. CASE k = 0
    BY <2>1 DEF PtrAt
  <2>2. CASE k \in 1 .. n
    <3>1. gs[k].kind = fs[k].kind /\ gs[k].em = fs[k].em
      BY <1>2, <2>2
    <3> QED BY ONLY <3>1 DEF PtrAt
  <2> QED BY ONLY <1>1, <2>1, <2>2, k \in 0 .. n
<1>6. \A k \in 0 .. n : k # e - 1 => MaskAt(gs, k) = MaskAt(fs, k)
  <2> SUFFICES ASSUME NEW k \in 0 .. n, k # e - 1
               PROVE  MaskAt(gs, k) = MaskAt(fs, k)
    OBVIOUS
  <2>1. CASE k = 0
    BY <2>1 DEF MaskAt
  <2>2. CASE k \in 1 .. n
    <3>1. /\ gs[k].kind = fs[k].kind /\ gs[k].saved = fs[k].saved
          /\ k = e \/ gs[k].act = fs[k].act
      BY <1>2, <1>3, <2>2
    <3>2. fs[e].kind = "body"
      BY <1>3
    <3> QED BY ONLY <3>1, <3>2 DEF MaskAt
  <2> QED BY ONLY <1>1, <2>1, <2>2, k \in 0 .. n
<1>9. Exited(fs, gs, b, e, out)
  BY ExitInside
<1>10. /\ \A k \in 1 .. n : k >= e => Inside(gs, k) = Inside(fs, k) \ out
       /\ \A k \in 1 .. n : k < e - 1 => Inside(gs, k) = Inside(fs, k)
  BY ONLY <1>1, <1>9 DEF Exited
<1>11. /\ Inside(gs, e - 1) \subseteq Inside(fs, e - 1)
       /\ Inside(fs, e - 1) \ out \subseteq Inside(gs, e - 1)
  BY ONLY <1>9 DEF Exited
<1>12. Linked(gs)
  <2> SUFFICES ASSUME NEW k \in 1 .. n
               PROVE  /\ gs[k].act \subseteq gs[k].saved
                      /\ gs[k].kind \in {"uloop", "ubody"} => gs[k].act = gs[k].saved
                      /\ gs[k].em = PtrAt(gs, k - 1)
                      /\ IF gs[k].kind = "body"
                         THEN k > 1 /\ gs[k - 1].kind = "loop"
                         ELSE gs[k].saved = MaskAt(gs, k - 1)
    BY <1>1 DEF Linked
  <2>1. /\ fs[k].act \subseteq fs[k].saved
        /\ fs[k].kind \in {"uloop", "ubody"} => fs[k].act = fs[k].saved
        /\ fs[k].em = PtrAt(fs, k - 1)
        /\ IF fs[k].kind = "body"
           THEN k > 1 /\ fs[k - 1].kind = "loop"
           ELSE fs[k].saved = MaskAt(fs, k - 1)
    BY <1>1 DEF WellFormed, Linked
  <2>2. k - 1 \in 0 .. n
    BY <1>1
  <2>3. fs[k].kind # "body" => k # e
    BY <1>3
  <2>4. fs[k].kind \in {"uloop", "ubody"} => k # e /\ k # e - 1
    BY <1>3, <1>4
  <2>5. /\ gs[k].kind = fs[k].kind /\ gs[k].saved = fs[k].saved
        /\ gs[k].em = fs[k].em
        /\ gs[k].act \subseteq fs[k].act
        /\ k # e /\ k # e - 1 => gs[k].act = fs[k].act
        /\ k > 1 => gs[k - 1].kind = fs[k - 1].kind
    BY <1>1, <1>2, <1>3
  <2>6. /\ PtrAt(gs, k - 1) = PtrAt(fs, k - 1)
        /\ k # e => MaskAt(gs, k - 1) = MaskAt(fs, k - 1)
    BY <1>1, <1>3, <1>5, <1>6, <2>2
  <2> QED BY ONLY <2>1, <2>3, <2>4, <2>5, <2>6
<1>13. PointersInnermost(gs)
  <2> SUFFICES ASSUME NEW k \in 1 .. n, NEW d, d = PtrAt(gs, k), d # 0
               PROVE  /\ d \in 1 .. k
                      /\ gs[d].kind = "body"
                      /\ \A i \in (d + 1) .. k : gs[i].kind \in Arms /\ gs[i].em = d
    BY <1>1 DEF PointersInnermost
  <2>0. d = PtrAt(fs, k) /\ k \in DOMAIN fs
    BY <1>1, <1>5
  <2>1. /\ d \in 1 .. k /\ fs[d].kind = "body"
        /\ \A i \in (d + 1) .. k : fs[i].kind \in Arms /\ fs[i].em = d
    BY ONLY WellFormed(fs), d # 0, <2>0 DEF WellFormed, PointersInnermost
  <2>2. gs[d].kind = fs[d].kind
    BY <1>1, <1>2, <2>1
  <2>3. \A i \in (d + 1) .. k : gs[i].kind = fs[i].kind /\ gs[i].em = fs[i].em
    BY <1>1, <1>2, <2>1
  <2> QED BY ONLY <2>1, <2>2, <2>3
<1>14. \A k \in 1 .. n : Inside(gs, k) \subseteq Inside(fs, k)
  <2> SUFFICES ASSUME NEW k \in 1 .. n PROVE Inside(gs, k) \subseteq Inside(fs, k)
    OBVIOUS
  <2>1. k >= e \/ k = e - 1 \/ k < e - 1
    BY <1>1, <1>3
  <2> QED BY ONLY <1>10, <1>11, <2>1, k \in 1 .. n
<1>15. IdleEmpty(gs)
  BY <1>1, <1>2, <1>14 DEF WellFormed, IdleEmpty
<1>16. Nested(gs)
  <2> SUFFICES ASSUME NEW j \in 1 .. n, NEW k \in 1 .. n, j <= k
               PROVE  Inside(gs, k) \subseteq Inside(gs, j)
    BY <1>1 DEF Nested
  <2>1. Inside(fs, k) \subseteq Inside(fs, j)
    BY <1>1 DEF WellFormed, Nested
  <2>2. CASE j >= e
    BY <1>1, <1>3, <1>10, <2>1, <2>2
  <2>3. CASE j < e - 1
    BY <1>1, <1>3, <1>10, <1>14, <2>1, <2>3
  <2>4. CASE j = e - 1 /\ k = e - 1
    BY <2>4
  <2>5. CASE j = e - 1 /\ k >= e
    BY <1>1, <1>3, <1>10, <1>11, <2>1, <2>5
  <2> QED BY <1>1, <1>3, <2>2, <2>3, <2>4, <2>5
<1> QED BY <1>1, <1>3, <1>5, <1>6, <1>12, <1>13, <1>15, <1>16 DEF WellFormed

----------------------------------------------------------------------------
(* The inductive invariant of Spec. *)
IInv == TypeOK /\ MaskInv

LEMMA InitIInv == Init => IInv
<1> SUFFICES ASSUME Init PROVE IInv
  OBVIOUS
<1>1. frames = <<>> /\ mask = Lanes /\ live = Lanes /\ em = 0
  BY DEF Init
<1>2. frames \in Seq(Frame) /\ Len(frames) = 0 /\ DOMAIN frames = {}
  BY <1>1
<1>3. TypeOK
  <2>1. stmt \in Statements
    BY DEF Init, Statements
  <2> QED BY <1>1, <1>2, <2>1 DEF TypeOK
<1>4. WellFormed(frames)
  BY <1>2 DEF WellFormed, Linked, PointersInnermost, IdleEmpty, Nested
<1> QED BY <1>1, <1>2, <1>3, <1>4 DEF IInv, MaskInv, MaskAt, PtrAt

(* A step that opens a frame. *)
LEMMA PushStep ==
  ASSUME IInv, NEW f \in Frame, frames' = Append(frames, f),
         live' = live, stmt' \in Statements,
         f.act \subseteq f.saved, f.em = em,
         IF f.kind = "body" THEN Len(frames) > 0 /\ frames[Len(frames)].kind = "loop"
                            ELSE f.saved = mask,
         f.kind \in {"uloop", "ubody"} => em = 0 /\ f.act = f.saved,
         IF f.kind \in Arms THEN EffOf(frames, f.act, em) \subseteq Eff
                            ELSE f.act \subseteq Eff,
         f.idle => f.kind \in Arms /\ EffOf(frames, f.act, em) = {},
         mask' = IF f.kind = "body" THEN f.saved ELSE f.act,
         em' = IF f.kind = "loop" THEN 0
               ELSE IF f.kind = "body" THEN Len(frames) + 1 ELSE em
  PROVE  IInv'
<1>1. /\ frames \in Seq(Frame) /\ WellFormed(frames) /\ em \in 0 .. Len(frames)
      /\ mask = MaskAt(frames, Len(frames)) /\ em = PtrAt(frames, Len(frames))
      /\ live \in SUBSET Lanes /\ Len(frames) \in Nat
  BY DEF IInv, TypeOK, MaskInv
<1>2. /\ frames' \in Seq(Frame) /\ Len(frames') = Len(frames) + 1
      /\ frames'[Len(frames) + 1] = f
  BY <1>1, AppendProperties
<1>3. WellFormed(frames')
  <2>1. WellFormed(Append(frames, f))
    BY <1>1, PushWellFormed DEF Eff
  <2> QED BY <2>1
<1>4. mask' = MaskAt(frames', Len(frames')) /\ em' = PtrAt(frames', Len(frames'))
  BY <1>1, <1>2 DEF MaskAt, PtrAt
<1>5. mask' \in SUBSET Lanes /\ em' \in 0 .. Len(frames')
  BY <1>1, <1>2, FrameFields
<1> QED BY <1>1, <1>2, <1>3, <1>4, <1>5 DEF IInv, TypeOK, MaskInv

(* A step that closes the top frame and returns to its encloser's masks. *)
LEMMA PopStep ==
  ASSUME IInv, frames # <<>>, frames' = Pop, live' = live,
         stmt' \in Statements,
         mask' = MaskAt(frames, Len(frames) - 1),
         em' = PtrAt(frames, Len(frames) - 1)
  PROVE  IInv'
<1>1. /\ frames \in Seq(Frame) /\ WellFormed(frames)
      /\ live \in SUBSET Lanes /\ Len(frames) \in Nat /\ Len(frames) > 0
  BY DEF IInv, TypeOK, MaskInv
<1>2. /\ frames' \in Seq(Frame) /\ Len(frames') = Len(frames) - 1
      /\ \A i \in 1 .. Len(frames') : frames'[i] = frames[i]
  BY <1>1, PopElems DEF Pop
<1>3. /\ WellFormed(frames')
      /\ \A k \in 0 .. Len(frames') : /\ MaskAt(frames', k) = MaskAt(frames, k)
                                      /\ PtrAt(frames', k) = PtrAt(frames, k)
  <2>1. Len(frames) = Len(frames') + 1
    BY <1>1, <1>2
  <2> QED BY <1>1, <1>2, <2>1, PopWellFormed
<1>4. mask' = MaskAt(frames', Len(frames')) /\ em' = PtrAt(frames', Len(frames'))
  BY <1>1, <1>2, <1>3
<1>5. mask' \in SUBSET Lanes /\ em' \in 0 .. Len(frames')
  <2>1. CASE Len(frames') = 0
    BY <1>4, <2>1 DEF MaskAt, PtrAt
  <2>2. CASE Len(frames') > 0
    <3>1. frames'[Len(frames')] \in Frame /\ Len(frames') \in DOMAIN frames'
      BY <1>2, <2>2
    <3>2. mask' \in SUBSET Lanes
      BY <1>4, <3>1, <2>2, FrameFields DEF MaskAt
    <3>3. em' # 0 => em' \in 1 .. Len(frames')
      BY <1>3, <1>4, <3>1 DEF WellFormed, PointersInnermost
    <3> QED BY <1>2, <3>2, <3>3
  <2> QED BY <1>1, <1>2, <2>1, <2>2
<1> QED BY <1>1, <1>2, <1>3, <1>4, <1>5 DEF IInv, TypeOK, MaskInv

(* Another frame in the place of the top one. *)
LEMMA ReplaceWellFormed ==
  ASSUME NEW fs \in Seq(Frame), WellFormed(fs), Len(fs) > 0,
         NEW t, t = fs[Len(fs)], t.kind # "body",
         NEW f \in Frame, f.kind # "body", f.kind \notin {"uloop", "ubody"},
         f.saved = t.saved, f.em = t.em, f.act \subseteq f.saved,
         f.kind \in Arms \/ (t.kind \notin Arms /\ f.act \subseteq t.act),
         f.idle => f.kind \in Arms /\ EffOf(fs, f.act, f.em) = {}
  PROVE  LET gs == [fs EXCEPT ![Len(fs)] = f] IN
           /\ gs \in Seq(Frame) /\ Len(gs) = Len(fs) /\ gs[Len(fs)] = f
           /\ WellFormed(gs)
<1> DEFINE n == Len(fs) - 1
           ps == SubSeq(fs, 1, n)
           gs == [fs EXCEPT ![Len(fs)] = f]
<1>1. /\ n \in Nat /\ Len(fs) = n + 1 /\ DOMAIN fs = 1 .. (n + 1)
      /\ t \in Frame /\ t = fs[n + 1] /\ n + 1 \in 1 .. Len(fs)
  OBVIOUS
<1>2. /\ ps \in Seq(Frame) /\ Len(ps) = n
      /\ \A i \in 1 .. n : ps[i] = fs[i]
  BY PopElems
<1>3. gs = Append(ps, f)
  BY ReplaceTop
<1>4. gs \in Seq(Frame) /\ Len(gs) = Len(fs) /\ gs[Len(fs)] = f
  BY <1>1, ExceptSeq
<1> HIDE DEF n, ps, gs
<1>5. /\ WellFormed(ps)
      /\ MaskAt(ps, n) = MaskAt(fs, n) /\ PtrAt(ps, n) = PtrAt(fs, n)
  BY <1>1, <1>2, PopWellFormed
<1>6. f.saved = MaskAt(ps, Len(ps)) /\ f.em = PtrAt(ps, Len(ps))
  <2>1. /\ t.em = PtrAt(fs, (n + 1) - 1)
        /\ t.saved = MaskAt(fs, (n + 1) - 1)
    BY <1>1 DEF WellFormed, Linked
  <2>2. (n + 1) - 1 = n
    BY <1>1
  <2> QED BY <1>2, <1>5, <2>1, <2>2
<1>7. f.em = 0 \/ f.em \in 1 .. n
  BY <1>1, EmBelow
<1>8. EffOf(ps, f.act, f.em) = EffOf(fs, f.act, f.em)
  BY <1>2, <1>7 DEF EffOf
<1>9. IF f.kind \in Arms
      THEN EffOf(ps, f.act, f.em) \subseteq EffOf(ps, f.saved, f.em)
      ELSE f.act \subseteq EffOf(ps, f.saved, f.em)
  <2>1. CASE f.kind \in Arms
    BY <2>1 DEF EffOf
  <2>2. CASE f.kind \notin Arms
    <3>1. t.act = Inside(fs, Len(fs))
      BY <2>2 DEF Inside
    <3>2. Inside(fs, Len(fs)) \subseteq EffOf(ps, f.saved, f.em)
      BY <1>1, <1>2, <1>6, TopWithinBelow
    <3> QED BY <2>2, <3>1, <3>2
  <2> QED BY <2>1, <2>2
<1>10. WellFormed(Append(ps, f))
  <2> DEFINE m == f.saved
             e == f.em
  <2>1. /\ m = MaskAt(ps, Len(ps)) /\ e = PtrAt(ps, Len(ps))
        /\ f.act \subseteq f.saved /\ f.em = e
        /\ IF f.kind = "body" THEN Len(ps) > 0 /\ ps[Len(ps)].kind = "loop"
                              ELSE f.saved = m
        /\ (f.kind \in {"uloop", "ubody"} => e = 0 /\ f.act = f.saved)
        /\ IF f.kind \in Arms THEN EffOf(ps, f.act, e) \subseteq EffOf(ps, m, e)
                              ELSE f.act \subseteq EffOf(ps, m, e)
        /\ (f.idle => f.kind \in Arms /\ EffOf(ps, f.act, e) = {})
    BY <1>6, <1>8, <1>9
  <2> HIDE DEF m, e
  <2> QED BY <1>2, <1>5, <2>1, PushWellFormed
<1> QED BY <1>3, <1>4, <1>10 DEF gs

LEMMA IfElseStep == IInv /\ IfElse => IInv'
<1> SUFFICES ASSUME IInv, IfElse PROVE IInv'
  OBVIOUS
<1> DEFINE n == Len(frames)
           t == frames[n]
           arm == t.saved \ t.cond
           f == [t EXCEPT !.kind = "else", !.act = arm,
                          !.idle = EffOf(frames, arm, em) = {}]
<1>1. /\ frames \in Seq(Frame) /\ WellFormed(frames) /\ n \in Nat /\ n > 0
      /\ mask = MaskAt(frames, n) /\ em = PtrAt(frames, n) /\ em \in 0 .. n
      /\ live \in SUBSET Lanes
  BY DEF IInv, TypeOK, MaskInv, IfElse, TopIs
<1>2. t \in Frame /\ t.kind = "then" /\ n \in DOMAIN frames
  BY <1>1 DEF IfElse, TopIs, Top
<1>3. em = t.em
  BY <1>1, <1>2 DEF PtrAt
<1>4. /\ f \in Frame /\ f.kind = "else" /\ f.saved = t.saved /\ f.em = t.em
      /\ f.act = arm /\ (f.idle => EffOf(frames, arm, em) = {})
  BY <1>2 DEF Frame, Kinds
<1>5. frames' = [frames EXCEPT ![n] = f] /\ mask' = arm /\ em' = em /\ live' = live
  BY DEF IfElse, Top, NoLaneWants
<1>6. arm \in SUBSET Lanes /\ arm \subseteq t.saved
  BY <1>2, FrameFields
<1> HIDE DEF f, arm, t
<1>7. /\ frames' \in Seq(Frame) /\ Len(frames') = n /\ frames'[n] = f
      /\ WellFormed(frames')
  <2>1. /\ t = frames[Len(frames)] /\ t.kind # "body"
        /\ f \in Frame /\ f.kind # "body" /\ f.kind \notin {"uloop", "ubody"}
        /\ f.saved = t.saved /\ f.em = t.em /\ f.act \subseteq f.saved
        /\ f.kind \in Arms \/ (t.kind \notin Arms /\ f.act \subseteq t.act)
        /\ (f.idle => f.kind \in Arms /\ EffOf(frames, f.act, f.em) = {})
    BY <1>2, <1>3, <1>4, <1>6 DEF Arms, t
  <2>2. LET gs == [frames EXCEPT ![Len(frames)] = f] IN
          /\ gs \in Seq(Frame) /\ Len(gs) = Len(frames) /\ gs[Len(frames)] = f
          /\ WellFormed(gs)
    BY ONLY <1>1, <2>1, ReplaceWellFormed
  <2> QED BY <1>5, <2>2
<1>8. mask' = MaskAt(frames', n) /\ em' = PtrAt(frames', n)
  BY <1>1, <1>3, <1>4, <1>5, <1>7 DEF MaskAt, PtrAt
<1>20. stmt' \in Statements
  BY DEF IfElse, Statements
<1> QED BY <1>1, <1>5, <1>6, <1>7, <1>8, <1>20 DEF IInv, TypeOK, MaskInv

LEMMA StartBodyStep ==
  ASSUME NEW c \in SUBSET Lanes
  PROVE  IInv /\ StartBody(c) => IInv'
<1> SUFFICES ASSUME IInv, StartBody(c) PROVE IInv'
  OBVIOUS
<1> DEFINE n == Len(frames)
           t == frames[n]
           na == t.act \cap c
           f == [t EXCEPT !.act = na]
           gs == [frames EXCEPT ![n] = f]
           body == [kind |-> "body", saved |-> na, cond |-> {}, act |-> na,
                    em |-> em, idle |-> FALSE]
<1>1. /\ frames \in Seq(Frame) /\ WellFormed(frames) /\ n \in Nat /\ n > 0
      /\ mask = MaskAt(frames, n) /\ em = PtrAt(frames, n) /\ em \in 0 .. n
      /\ live \in SUBSET Lanes
  BY DEF IInv, TypeOK, MaskInv, StartBody, TopIs
<1>2. t \in Frame /\ t.kind = "loop" /\ n \in DOMAIN frames
  BY <1>1 DEF StartBody, TopIs, Top
<1>3. em = 0
  BY <1>1, <1>2 DEF PtrAt
<1>4. /\ f \in Frame /\ f.kind = "loop" /\ f.saved = t.saved /\ f.em = t.em
      /\ f.act = na /\ f.idle = t.idle
  BY <1>2 DEF Frame, Kinds
<1>5. t.act \subseteq t.saved /\ ~t.idle
  BY <1>1, <1>2 DEF WellFormed, Linked, IdleEmpty, Arms
<1>6. na \in SUBSET Lanes /\ na \subseteq t.act
  BY <1>2, FrameFields
<1>7. body \in Frame /\ body.kind = "body" /\ body.saved = na /\ body.act = na
      /\ body.em = 0 /\ ~body.idle
  BY <1>3, <1>6 DEF Frame, Kinds
<1>8. /\ frames' = Append(gs, body) /\ mask' = na /\ em' = n + 1 /\ live' = live
  BY DEF StartBody, Top
<1> HIDE DEF body, f, na, t
<1>9. gs \in Seq(Frame) /\ Len(gs) = n /\ gs[n] = f /\ WellFormed(gs)
  <2>1. /\ t = frames[Len(frames)] /\ t.kind # "body"
        /\ f \in Frame /\ f.kind # "body" /\ f.kind \notin {"uloop", "ubody"}
        /\ f.saved = t.saved /\ f.em = t.em /\ f.act \subseteq f.saved
        /\ f.kind \in Arms \/ (t.kind \notin Arms /\ f.act \subseteq t.act)
        /\ (f.idle => f.kind \in Arms /\ EffOf(frames, f.act, f.em) = {})
    BY <1>2, <1>4, <1>5, <1>6 DEF Arms, t
  <2> QED BY ONLY <1>1, <2>1, ReplaceWellFormed
<1> HIDE DEF gs
<1>10. MaskAt(gs, n) = na /\ PtrAt(gs, n) = 0
  BY <1>1, <1>4, <1>9 DEF MaskAt, PtrAt
<1>11. WellFormed(frames')
  <2>1. /\ na = MaskAt(gs, Len(gs)) /\ 0 = PtrAt(gs, Len(gs))
        /\ body.act \subseteq body.saved /\ body.em = 0
        /\ IF body.kind = "body" THEN Len(gs) > 0 /\ gs[Len(gs)].kind = "loop"
                                 ELSE body.saved = na
        /\ (body.kind \in {"uloop", "ubody"} => 0 = 0 /\ body.act = body.saved)
        /\ IF body.kind \in Arms THEN EffOf(gs, body.act, 0) \subseteq EffOf(gs, na, 0)
                                 ELSE body.act \subseteq EffOf(gs, na, 0)
        /\ (body.idle => body.kind \in Arms /\ EffOf(gs, body.act, 0) = {})
    BY <1>1, <1>4, <1>7, <1>9, <1>10 DEF EffOf, Arms
  <2>2. WellFormed(Append(gs, body))
    BY ONLY <1>7, <1>9, <2>1, PushWellFormed
  <2> QED BY <1>8, <2>2
<1>12. /\ frames' \in Seq(Frame) /\ Len(frames') = n + 1 /\ frames'[n + 1] = body
  BY <1>7, <1>8, <1>9, AppendProperties
<1>13. mask' = MaskAt(frames', n + 1) /\ em' = PtrAt(frames', n + 1)
  BY <1>1, <1>7, <1>8, <1>12 DEF MaskAt, PtrAt
<1>20. stmt' \in Statements
  BY DEF StartBody, Statements
<1> QED BY <1>1, <1>6, <1>8, <1>11, <1>12, <1>13, <1>20 DEF IInv, TypeOK, MaskInv

(* Taking lanes out of the act of one frame. *)
ClearAct(fs, e, X) == [fs EXCEPT ![e].act = @ \ X]

LEMMA ClearActElems ==
  ASSUME NEW fs \in Seq(Frame), NEW e \in 1 .. Len(fs), NEW X \in SUBSET Lanes
  PROVE  /\ ClearAct(fs, e, X) \in Seq(Frame) /\ Len(ClearAct(fs, e, X)) = Len(fs)
         /\ \A k \in 1 .. Len(fs) : ClearAct(fs, e, X)[k].kind = fs[k].kind
         /\ \A k \in 1 .. Len(fs) : ClearAct(fs, e, X)[k].saved = fs[k].saved
         /\ \A k \in 1 .. Len(fs) : ClearAct(fs, e, X)[k].em = fs[k].em
         /\ \A k \in 1 .. Len(fs) : ClearAct(fs, e, X)[k].cond = fs[k].cond
         /\ \A k \in 1 .. Len(fs) : ClearAct(fs, e, X)[k].idle => fs[k].idle
         /\ ClearAct(fs, e, X)[e].act = fs[e].act \ X
         /\ \A k \in 1 .. Len(fs) : k # e => ClearAct(fs, e, X)[k].act = fs[k].act
<1> DEFINE f == [fs[e] EXCEPT !.act = @ \ X]
           gs == ClearAct(fs, e, X)
<1>1. fs[e] \in Frame
  OBVIOUS
<1>2. /\ f \in Frame /\ f.kind = fs[e].kind /\ f.saved = fs[e].saved
      /\ f.em = fs[e].em /\ f.idle = fs[e].idle /\ f.act = fs[e].act \ X
      /\ f.cond = fs[e].cond
  BY <1>1 DEF Frame
<1>3. gs = [fs EXCEPT ![e] = f]
  BY DEF ClearAct
<1> HIDE DEF f
<1>4. /\ [fs EXCEPT ![e] = f] \in Seq(Frame) /\ Len([fs EXCEPT ![e] = f]) = Len(fs)
      /\ \A j \in 1 .. Len(fs) :
           [fs EXCEPT ![e] = f][j] = IF j = e THEN f ELSE fs[j]
  BY <1>2, ExceptSeq
<1>5. /\ gs \in Seq(Frame) /\ Len(gs) = Len(fs)
      /\ gs[e] = f /\ \A k \in 1 .. Len(fs) : k # e => gs[k] = fs[k]
  BY <1>3, <1>4
<1> HIDE DEF gs
<1>6. ASSUME NEW k \in 1 .. Len(fs)
      PROVE  /\ gs[k].kind = fs[k].kind /\ gs[k].saved = fs[k].saved
             /\ gs[k].em = fs[k].em /\ gs[k].idle = fs[k].idle
             /\ gs[k].cond = fs[k].cond
  BY ONLY k \in 1 .. Len(fs), <1>2, <1>5
<1>7. \A k \in 1 .. Len(fs) : gs[k].idle => fs[k].idle
  BY ONLY <1>6
<1>8. /\ gs[e].act = fs[e].act \ X
      /\ \A k \in 1 .. Len(fs) : k # e => gs[k].act = fs[k].act
  BY ONLY <1>2, <1>5
<1> QED BY ONLY <1>5, <1>6, <1>7, <1>8 DEF gs

LEMMA ClearActCleared ==
  ASSUME NEW fs \in Seq(Frame), NEW e \in 1 .. Len(fs), NEW X \in SUBSET Lanes,
         NEW gs, gs = ClearAct(fs, e, X)
  PROVE  Cleared(fs, gs, e, e, X)
<1>1. /\ gs \in Seq(Frame) /\ Len(gs) = Len(fs)
      /\ \A k \in 1 .. Len(fs) : gs[k].kind = fs[k].kind
      /\ \A k \in 1 .. Len(fs) : gs[k].saved = fs[k].saved
      /\ \A k \in 1 .. Len(fs) : gs[k].em = fs[k].em
      /\ \A k \in 1 .. Len(fs) : gs[k].cond = fs[k].cond
      /\ \A k \in 1 .. Len(fs) : gs[k].idle => fs[k].idle
      /\ gs[e].act = fs[e].act \ X
      /\ \A k \in 1 .. Len(fs) : k # e => gs[k].act = fs[k].act
  BY ClearActElems
<1>2. e \in Int /\ \A k \in 1 .. Len(fs) : k \in Int /\ (k \in e .. e <=> k = e)
  OBVIOUS
<1>3. /\ \A k \in 1 .. Len(fs) : k \in e .. e => gs[k].act = fs[k].act \ X
      /\ \A k \in 1 .. Len(fs) : k \notin e .. e => gs[k].act = fs[k].act
  BY ONLY <1>1, <1>2
<1> QED BY ONLY <1>1, <1>3 DEF Cleared

(* Taking lanes out of the acts of two adjacent frames. *)
ClearTwoActs(fs, e, X) == [fs EXCEPT ![e].act = @ \ X, ![e - 1].act = @ \ X]

LEMMA ClearTwoActsElems ==
  ASSUME NEW fs \in Seq(Frame), NEW e \in 1 .. Len(fs), e > 1,
         NEW X \in SUBSET Lanes, NEW gs, gs = ClearTwoActs(fs, e, X)
  PROVE  Cleared(fs, gs, e - 1, e, X)
<1>1. PICK hs : hs = ClearAct(fs, e, X)
  OBVIOUS
<1>2. /\ hs \in Seq(Frame) /\ Len(hs) = Len(fs)
      /\ \A k \in 1 .. Len(fs) : hs[k].kind = fs[k].kind
      /\ \A k \in 1 .. Len(fs) : hs[k].saved = fs[k].saved
      /\ \A k \in 1 .. Len(fs) : hs[k].em = fs[k].em
      /\ \A k \in 1 .. Len(fs) : hs[k].cond = fs[k].cond
      /\ \A k \in 1 .. Len(fs) : hs[k].idle => fs[k].idle
      /\ hs[e].act = fs[e].act \ X
      /\ \A k \in 1 .. Len(fs) : k # e => hs[k].act = fs[k].act
  BY <1>1, ClearActElems
<1>3. e - 1 \in 1 .. Len(hs) /\ hs \in Seq(Frame)
  BY <1>2
<1>4. /\ gs \in Seq(Frame) /\ Len(gs) = Len(hs)
      /\ \A k \in 1 .. Len(hs) : gs[k].kind = hs[k].kind
      /\ \A k \in 1 .. Len(hs) : gs[k].saved = hs[k].saved
      /\ \A k \in 1 .. Len(hs) : gs[k].em = hs[k].em
      /\ \A k \in 1 .. Len(hs) : gs[k].cond = hs[k].cond
      /\ \A k \in 1 .. Len(hs) : gs[k].idle => hs[k].idle
      /\ gs[e - 1].act = hs[e - 1].act \ X
      /\ \A k \in 1 .. Len(hs) : k # e - 1 => gs[k].act = hs[k].act
  <2>1. PICK d : d = e - 1
    OBVIOUS
  <2>2. d \in 1 .. Len(hs) /\ gs = ClearAct(hs, d, X)
    BY <1>1, <1>3, <2>1 DEF ClearAct, ClearTwoActs
  <2>3. /\ gs \in Seq(Frame) /\ Len(gs) = Len(hs)
        /\ \A k \in 1 .. Len(hs) : gs[k].kind = hs[k].kind
        /\ \A k \in 1 .. Len(hs) : gs[k].saved = hs[k].saved
        /\ \A k \in 1 .. Len(hs) : gs[k].em = hs[k].em
        /\ \A k \in 1 .. Len(hs) : gs[k].cond = hs[k].cond
        /\ \A k \in 1 .. Len(hs) : gs[k].idle => hs[k].idle
        /\ gs[d].act = hs[d].act \ X
        /\ \A k \in 1 .. Len(hs) : k # d => gs[k].act = hs[k].act
    BY <1>3, <2>2, ClearActElems
  <2> QED BY <2>1, <2>3
<1>5. /\ e \in Int /\ e - 1 # e /\ e \in 1 .. Len(hs) /\ e - 1 \in 1 .. Len(fs)
  BY <1>2, <1>3
<1>6. gs[e].act = fs[e].act \ X /\ gs[e - 1].act = fs[e - 1].act \ X
  BY ONLY <1>2, <1>4, <1>5
<1>7. ASSUME NEW k \in 1 .. Len(fs), k \in (e - 1) .. e
      PROVE  gs[k].act = fs[k].act \ X
  <2>1. k = e \/ k = e - 1
    BY <1>5, <1>7
  <2> QED BY <1>6, <2>1
<1>8. ASSUME NEW k \in 1 .. Len(fs), k \notin (e - 1) .. e
      PROVE  gs[k].act = fs[k].act
  <2>1. k # e /\ k # e - 1
    BY <1>5, <1>8
  <2> QED BY ONLY k \in 1 .. Len(fs), <1>2, <1>4, <2>1
<1>9. /\ \A k \in 1 .. Len(fs) : gs[k].kind = fs[k].kind
      /\ \A k \in 1 .. Len(fs) : gs[k].saved = fs[k].saved
      /\ \A k \in 1 .. Len(fs) : gs[k].em = fs[k].em
      /\ \A k \in 1 .. Len(fs) : gs[k].cond = fs[k].cond
  BY ONLY <1>2, <1>4
<1>10. \A k \in 1 .. Len(fs) : gs[k].idle => fs[k].idle
  BY ONLY <1>2, <1>4
<1> QED BY ONLY <1>2, <1>4, <1>7, <1>8, <1>9, <1>10 DEF Cleared

(* A break or a continue of the current lanes: the loop's `la` (b = em - 1) is
   cleared of them too or not (b = em). *)
LEMMA ExitsKeepInv ==
  ASSUME IInv, em # 0, NEW gs, NEW b \in Nat, b = em - 1 \/ b = em,
         Cleared(frames, gs, b, em, Eff)
  PROVE  /\ WellFormed(gs) /\ em \in 0 .. Len(gs)
         /\ mask = MaskAt(gs, Len(gs)) /\ em = PtrAt(gs, Len(gs))
<1>1. /\ frames \in Seq(Frame) /\ WellFormed(frames) /\ Len(frames) \in Nat
      /\ mask = MaskAt(frames, Len(frames)) /\ em = PtrAt(frames, Len(frames))
      /\ em \in 0 .. Len(frames) /\ mask \in SUBSET Lanes
  BY DEF IInv, TypeOK, MaskInv
<1>2. em \in 1 .. Len(frames) /\ Len(frames) > 0
  BY ONLY <1>1, em # 0
<1>3. Eff \in SUBSET Lanes /\ Eff = EffOf(frames, MaskAt(frames, Len(frames)), em)
  BY <1>1 DEF Eff, EffOf
<1>4. /\ WellFormed(gs)
      /\ MaskAt(gs, Len(gs)) = MaskAt(frames, Len(frames))
      /\ PtrAt(gs, Len(gs)) = PtrAt(frames, Len(frames))
  BY <1>1, <1>2, <1>3, ExitWellFormed
<1>5. Len(gs) = Len(frames)
  BY DEF Cleared
<1> QED BY ONLY <1>1, <1>4, <1>5

(* break and continue. *)
LEMMA ExitStep == IInv /\ (BreakStmt \/ ContinueStmt) => IInv'
<1> SUFFICES ASSUME IInv, BreakStmt \/ ContinueStmt PROVE IInv'
  OBVIOUS
<1>1. /\ frames \in Seq(Frame) /\ WellFormed(frames) /\ em \in 0 .. Len(frames)
      /\ mask \in SUBSET Lanes /\ live \in SUBSET Lanes
      /\ mask = MaskAt(frames, Len(frames)) /\ em = PtrAt(frames, Len(frames))
      /\ Len(frames) \in Nat /\ DOMAIN frames = 1 .. Len(frames)
  BY DEF IInv, TypeOK, MaskInv
<1>2. em # 0 /\ mask' = mask /\ em' = em /\ live' = live
  BY DEF BreakStmt, ContinueStmt
<1>3. em \in 1 .. Len(frames) /\ Len(frames) \in DOMAIN frames
  BY <1>1, <1>2
<1>4. em > 1
  BY <1>1, <1>2, <1>3 DEF WellFormed, Linked, PointersInnermost
<1>5. Eff \in SUBSET Lanes
  BY <1>1 DEF Eff, EffOf
<1>6. /\ frames' \in Seq(Frame)
      /\ WellFormed(frames') /\ em \in 0 .. Len(frames')
      /\ mask = MaskAt(frames', Len(frames')) /\ em = PtrAt(frames', Len(frames'))
  <2>1. CASE ContinueStmt
    <3>1. PICK gs : gs = ClearAct(frames, em, Eff)
      OBVIOUS
    <3>2. Cleared(frames, gs, em, em, Eff) /\ em \in Nat
      BY <1>1, <1>3, <1>5, <3>1, ClearActCleared
    <3>3. frames' = gs
      BY <2>1, <3>1 DEF ContinueStmt, ClearAct
    <3>4. /\ WellFormed(gs) /\ em \in 0 .. Len(gs)
          /\ mask = MaskAt(gs, Len(gs)) /\ em = PtrAt(gs, Len(gs))
      BY <1>2, <3>2, ExitsKeepInv
    <3>5. gs \in Seq(Frame)
      BY <3>2 DEF Cleared
    <3> QED BY <3>3, <3>4, <3>5
  <2>2. CASE BreakStmt
    <3>1. PICK gs : gs = ClearTwoActs(frames, em, Eff)
      OBVIOUS
    <3>2. Cleared(frames, gs, em - 1, em, Eff) /\ em - 1 \in Nat
      BY <1>1, <1>3, <1>4, <1>5, <3>1, ClearTwoActsElems
    <3>3. frames' = gs
      BY <2>2, <3>1 DEF BreakStmt, ClearTwoActs
    <3>4. /\ WellFormed(gs) /\ em \in 0 .. Len(gs)
          /\ mask = MaskAt(gs, Len(gs)) /\ em = PtrAt(gs, Len(gs))
      BY <1>2, <3>2, ExitsKeepInv
    <3>5. gs \in Seq(Frame)
      BY <3>2 DEF Cleared
    <3> QED BY <3>3, <3>4, <3>5
  <2> QED BY <2>1, <2>2
<1>20. stmt' \in Statements
  BY DEF BreakStmt, ContinueStmt, Statements
<1> QED BY <1>1, <1>2, <1>6, <1>20 DEF IInv, TypeOK, MaskInv

----------------------------------------------------------------------------
LEMMA IfThenStep == IInv /\ (\E c \in SUBSET Lanes : IfThen(c)) => IInv'
<1> SUFFICES ASSUME IInv, NEW c \in SUBSET Lanes, IfThen(c) PROVE IInv'
  OBVIOUS
<1>1. /\ frames \in Seq(Frame) /\ mask \in SUBSET Lanes /\ em \in Nat
  BY DEF IInv, TypeOK
<1> DEFINE f == [kind |-> "then", saved |-> mask, cond |-> c, act |-> mask \cap c,
                 em |-> em, idle |-> EffOf(frames, mask \cap c, em) = {}]
<1>2. /\ f \in Frame /\ f.kind = "then" /\ f.saved = mask /\ f.act = mask \cap c
      /\ f.em = em /\ f.idle = (EffOf(frames, mask \cap c, em) = {})
  BY <1>1 DEF Frame, Kinds
<1>3. frames' = Append(frames, f) /\ live' = live /\ mask' = f.act /\ em' = em
  BY <1>2 DEF IfThen, NoLaneWants
<1> HIDE DEF f
<1>4. EffOf(frames, f.act, em) \subseteq Eff
  BY <1>2 DEF EffOf, Eff
<1>5. f.kind \in Arms /\ f.kind \notin {"loop", "body", "uloop", "ubody"}
  BY <1>2 DEF Arms
<1>6. f.idle => f.kind \in Arms /\ EffOf(frames, f.act, em) = {}
  BY <1>2, <1>5
<1>7. f.act \subseteq f.saved
  BY <1>2
<1>20. stmt' \in Statements
  BY DEF IfThen, Statements
<1> QED BY <1>2, <1>3, <1>4, <1>5, <1>6, <1>7, <1>20, PushStep

(* A loop, under the assumption that the mask it is entered with has no lane
   that left the enclosing iteration. *)
LEMMA EnterLoopStep == IInv /\ ~ExitsBeforeLoop /\ EnterLoop => IInv'
<1> SUFFICES ASSUME IInv, ~ExitsBeforeLoop, EnterLoop PROVE IInv'
  OBVIOUS
<1>1. /\ frames \in Seq(Frame) /\ mask \in SUBSET Lanes /\ em \in Nat
  BY DEF IInv, TypeOK
<1> DEFINE f == [kind |-> "loop", saved |-> mask, cond |-> {}, act |-> mask,
                 em |-> em, idle |-> FALSE]
<1>2. /\ f \in Frame /\ f.kind = "loop" /\ f.saved = mask /\ f.act = mask
      /\ f.em = em /\ f.idle = FALSE
  BY <1>1 DEF Frame, Kinds
<1>3. frames' = Append(frames, f) /\ live' = live /\ mask' = f.act /\ em' = 0
  BY <1>2 DEF EnterLoop
<1>4. Eff = mask
  BY DEF EnterLoop
<1> HIDE DEF f
<1>5. f.kind \notin Arms /\ f.kind \notin {"body", "uloop", "ubody"}
  BY <1>2 DEF Arms
<1>6. f.act \subseteq f.saved /\ f.act \subseteq Eff /\ ~f.idle
  BY <1>2, <1>4
<1>20. stmt' \in Statements
  BY DEF EnterLoop, Statements
<1> QED BY <1>2, <1>3, <1>5, <1>6, <1>20, PushStep

LEMMA EnterUniformLoopStep == IInv /\ EnterUniformLoop => IInv'
<1> SUFFICES ASSUME IInv, EnterUniformLoop PROVE IInv'
  OBVIOUS
<1>1. /\ frames \in Seq(Frame) /\ mask \in SUBSET Lanes /\ em \in Nat
      /\ em = PtrAt(frames, Len(frames)) /\ PointersInnermost(frames)
  BY DEF IInv, TypeOK, MaskInv, WellFormed
<1>2. em = 0
  <2>1. CASE Len(frames) = 0
    BY <1>1, <2>1 DEF PtrAt
  <2>2. CASE Len(frames) # 0
    <3>1. Len(frames) \in DOMAIN frames /\ Len(frames) \in Nat
      BY <1>1, <2>2
    <3>2. frames[Len(frames)].kind \in {"uloop", "ubody"}
      BY <3>1 DEF EnterUniformLoop
    <3> QED BY <1>1, <3>1, <3>2, UniformHasNoPtr
  <2> QED BY <2>1, <2>2
<1> DEFINE f == [kind |-> "uloop", saved |-> mask, cond |-> {}, act |-> mask,
                 em |-> em, idle |-> FALSE]
<1>3. /\ f \in Frame /\ f.kind = "uloop" /\ f.saved = mask /\ f.act = mask
      /\ f.em = em /\ f.idle = FALSE
  BY <1>1 DEF Frame, Kinds
<1>4. frames' = Append(frames, f) /\ live' = live /\ mask' = f.act /\ em' = em
  BY <1>3 DEF EnterUniformLoop
<1>5. Eff = mask
  BY <1>2 DEF Eff, EffOf
<1> HIDE DEF f
<1>6. f.kind \notin Arms /\ f.kind \notin {"body", "loop"}
  BY <1>3 DEF Arms
<1>7. f.act \subseteq f.saved /\ f.act \subseteq Eff /\ f.act = f.saved /\ ~f.idle
  BY <1>3, <1>5
<1>20. stmt' \in Statements
  BY DEF EnterUniformLoop, Statements
<1> QED BY <1>2, <1>3, <1>4, <1>6, <1>7, <1>20, PushStep

LEMMA StartUniformBodyStep == IInv /\ StartUniformBody => IInv'
<1> SUFFICES ASSUME IInv, StartUniformBody PROVE IInv'
  OBVIOUS
<1>1. /\ frames \in Seq(Frame) /\ mask \in SUBSET Lanes /\ em \in Nat
      /\ mask = MaskAt(frames, Len(frames)) /\ em = PtrAt(frames, Len(frames))
      /\ PointersInnermost(frames) /\ Linked(frames) /\ IdleEmpty(frames)
  BY DEF IInv, TypeOK, MaskInv, WellFormed
<1>2. /\ Len(frames) \in DOMAIN frames /\ Len(frames) \in Nat /\ Len(frames) # 0
      /\ Top = frames[Len(frames)] /\ Top \in Frame /\ Top.kind = "uloop"
  BY <1>1 DEF StartUniformBody, TopIs, Top
<1>3. em = 0
  BY <1>1, <1>2, UniformHasNoPtr
<1>4. Top.act = Top.saved /\ Top.act = mask /\ Top.em = em
  <2>1. Top.act = Top.saved
    BY <1>1, <1>2 DEF Linked
  <2>2. mask = Top.act
    BY <1>1, <1>2 DEF MaskAt
  <2>3. em = Top.em
    BY <1>1, <1>2 DEF PtrAt
  <2> QED BY <2>1, <2>2, <2>3
<1>5. ~Top.idle
  BY <1>1, <1>2 DEF IdleEmpty, Arms
<1> DEFINE f == [Top EXCEPT !.kind = "ubody"]
<1>6. /\ f \in Frame /\ f.kind = "ubody" /\ f.saved = Top.saved /\ f.act = Top.act
      /\ f.em = Top.em /\ f.idle = Top.idle
  <2>1. Top \in Frame
    BY <1>2
  <2> HIDE DEF Top
  <2> QED BY <2>1 DEF Frame, Kinds
<1>7. frames' = Append(frames, f) /\ live' = live /\ mask' = mask /\ em' = em
  BY DEF StartUniformBody
<1>8. Eff = mask
  BY <1>3 DEF Eff, EffOf
<1> HIDE DEF f, Top
<1>9. f.kind \notin Arms /\ f.kind \notin {"body", "loop"}
  BY <1>6 DEF Arms
<1>10. /\ f.act \subseteq f.saved /\ f.act \subseteq Eff /\ f.act = f.saved
       /\ mask' = f.act /\ f.saved = mask /\ f.em = em /\ ~f.idle
  BY <1>4, <1>5, <1>6, <1>7, <1>8
<1>20. stmt' \in Statements
  BY DEF StartUniformBody, Statements
<1> QED BY <1>3, <1>6, <1>7, <1>9, <1>10, <1>20, PushStep

(* What closing the top frame restores. *)
LEMMA Restores ==
  ASSUME IInv, frames # <<>>
  PROVE  /\ Top.em = PtrAt(frames, Len(frames) - 1)
         /\ Top.kind # "body" => Top.saved = MaskAt(frames, Len(frames) - 1)
         /\ Top.kind = "body" =>
              /\ MaskAt(frames, Len(frames) - 1) = frames[Len(frames) - 1].act
              /\ PtrAt(frames, Len(frames) - 1) = 0
         /\ Top.kind \in Arms => em = Top.em
         /\ Top.kind \in {"uloop", "ubody"} =>
              mask = MaskAt(frames, Len(frames) - 1) /\ em = Top.em
<1>1. /\ frames \in Seq(Frame) /\ Linked(frames)
      /\ mask = MaskAt(frames, Len(frames)) /\ em = PtrAt(frames, Len(frames))
  BY DEF IInv, TypeOK, MaskInv, WellFormed
<1>2. Len(frames) \in DOMAIN frames /\ Len(frames) \in Nat /\ Len(frames) # 0
  BY <1>1
<1>3. /\ Top.kind \in {"uloop", "ubody"} => Top.act = Top.saved
      /\ Top.em = PtrAt(frames, Len(frames) - 1)
      /\ IF Top.kind = "body"
         THEN Len(frames) > 1 /\ frames[Len(frames) - 1].kind = "loop"
         ELSE Top.saved = MaskAt(frames, Len(frames) - 1)
  BY <1>1, <1>2 DEF Linked, Top
<1>4. Top.kind = "body" =>
        /\ MaskAt(frames, Len(frames) - 1) = frames[Len(frames) - 1].act
        /\ PtrAt(frames, Len(frames) - 1) = 0
  BY <1>2, <1>3 DEF MaskAt, PtrAt
<1>5. Top.kind \in Arms \cup {"uloop", "ubody"} => mask = Top.act /\ em = Top.em
  BY <1>1, <1>2 DEF MaskAt, PtrAt, Top, Arms
<1>6. Top.kind \in {"uloop", "ubody"} => Top.kind # "body"
  OBVIOUS
<1> HIDE DEF Top
<1> QED BY <1>3, <1>4, <1>5, <1>6

LEMMA CloseStep ==
  /\ IInv
  /\ \/ EndIf \/ EndBody \/ EndUniformBody \/ ExitUniformLoop
     \/ \E c \in SUBSET Lanes : ExitLoop(c)
  => IInv'
<1> SUFFICES ASSUME IInv, \/ EndIf \/ EndBody \/ EndUniformBody \/ ExitUniformLoop
                          \/ \E c \in SUBSET Lanes : ExitLoop(c)
             PROVE  IInv'
  OBVIOUS
<1>1. frames # <<>> /\ frames' = Pop /\ live' = live
  BY DEF EndIf, EndBody, EndUniformBody, ExitUniformLoop, ExitLoop, TopIs
<1>2. /\ mask' = MaskAt(frames, Len(frames) - 1)
      /\ em' = PtrAt(frames, Len(frames) - 1)
  <2>1. CASE EndIf
    <3>1. Top.kind \in Arms /\ Top.kind # "body" /\ mask' = Top.saved /\ em' = em
      BY <2>1 DEF EndIf, TopIs, Arms
    <3> QED BY <1>1, <3>1, Restores
  <2>2. CASE EndBody
    <3>1. Top.kind = "body" /\ mask' = frames[Len(frames) - 1].act /\ em' = 0
      BY <2>2 DEF EndBody, TopIs
    <3> QED BY <1>1, <3>1, Restores
  <2>3. CASE EndUniformBody \/ ExitUniformLoop
    <3>1. Top.kind \in {"uloop", "ubody"} /\ mask' = mask /\ em' = em
      BY <2>3 DEF EndUniformBody, ExitUniformLoop, TopIs
    <3> QED BY <1>1, <3>1, Restores
  <2>4. CASE \E c \in SUBSET Lanes : ExitLoop(c)
    <3>1. Top.kind = "loop" /\ Top.kind # "body" /\ mask' = Top.saved /\ em' = Top.em
      BY <2>4 DEF ExitLoop, TopIs
    <3> QED BY <1>1, <3>1, Restores
  <2> QED BY <2>1, <2>2, <2>3, <2>4
<1>20. stmt' \in Statements
  BY DEF EndIf, EndBody, EndUniformBody, ExitUniformLoop, ExitLoop, Statements
<1> QED BY <1>1, <1>2, <1>20, PopStep

LEMMA DiscardStep == IInv /\ DiscardStmt => IInv'
BY DEF IInv, TypeOK, MaskInv, DiscardStmt, Eff, EffOf, Statements

----------------------------------------------------------------------------
(* The masks the emitter holds are at every point of the emitted code those
   that its open arms, loops and iterations stand for, and these are well
   nested: the inductive invariant.  It needs the loop-entry assumption: a
   nested loop entered by lanes that have left the enclosing iteration (the
   run packet_masks_exits) revives them. *)
LEMMA InductiveInvariant ==
  ASSUME ~ExitsBeforeLoop
  PROVE  Spec => []IInv
<1>1. Init => IInv
  BY InitIInv
<1>2. IInv /\ [Next]_vars => IInv'
  <2> SUFFICES ASSUME IInv, [Next]_vars PROVE IInv'
    OBVIOUS
  <2>1. CASE \E c \in SUBSET Lanes : IfThen(c)
    BY <2>1, IfThenStep
  <2>2. CASE \E c \in SUBSET Lanes : StartBody(c)
    BY <2>2, StartBodyStep
  <2>3. CASE IfElse
    BY <2>3, IfElseStep
  <2>4. CASE EnterLoop
    BY <2>4, EnterLoopStep
  <2>5. CASE BreakStmt \/ ContinueStmt
    BY <2>5, ExitStep
  <2>6. CASE DiscardStmt
    BY <2>6, DiscardStep
  <2>7. CASE EnterUniformLoop
    BY <2>7, EnterUniformLoopStep
  <2>8. CASE StartUniformBody
    BY <2>8, StartUniformBodyStep
  <2>9. CASE \/ EndIf \/ EndBody \/ EndUniformBody \/ ExitUniformLoop
             \/ \E c \in SUBSET Lanes : ExitLoop(c)
    BY <2>9, CloseStep
  <2>10. CASE UNCHANGED vars
    BY <2>10 DEF vars, IInv, TypeOK, MaskInv, Eff
  <2> QED BY <2>1, <2>2, <2>3, <2>4, <2>5, <2>6, <2>7, <2>8, <2>9, <2>10 DEF Next
<1> QED BY <1>1, <1>2, PTL DEF Spec

(* The masks, the live lanes and the emitter's frames have their types. *)
THEOREM TypeCorrect ==
  ASSUME ~ExitsBeforeLoop
  PROVE  Spec => []TypeOK
<1>1. IInv => TypeOK
  BY DEF IInv
<1> QED BY <1>1, InductiveInvariant, PTL

(* At every point of the emitted code the masks the emitter holds (mask_, em_
   and the one la_ of each open loop) are those that its recursion stands for:
   an arm's, a loop's and an iteration's mask is a part of the encloser's, and
   the end of each restores the encloser's. *)
THEOREM MasksCoherent ==
  ASSUME ~ExitsBeforeLoop
  PROVE  Spec => []MaskInv
<1>1. IInv => MaskInv
  BY DEF IInv
<1> QED BY <1>1, InductiveInvariant, PTL

(* The executing lanes are those inside the top frame. *)
LEMMA EffIsInsideTop ==
  ASSUME IInv, frames # <<>>
  PROVE  Eff = Inside(frames, Len(frames))
<1>1. /\ frames \in Seq(Frame) /\ WellFormed(frames) /\ Len(frames) > 0
      /\ mask = MaskAt(frames, Len(frames)) /\ em = PtrAt(frames, Len(frames))
  BY DEF IInv, TypeOK, MaskInv
<1> QED BY <1>1, InsideTop DEF Eff

LEMMA EffInsideAll ==
  ASSUME IInv, NEW k \in DOMAIN frames
  PROVE  Eff \subseteq Inside(frames, k)
<1>1. /\ frames \in Seq(Frame) /\ Nested(frames) /\ frames # <<>>
      /\ DOMAIN frames = 1 .. Len(frames) /\ Len(frames) \in DOMAIN frames
      /\ k <= Len(frames)
  BY DEF IInv, TypeOK, MaskInv, WellFormed
<1>2. Inside(frames, Len(frames)) \subseteq Inside(frames, k)
  BY <1>1 DEF Nested
<1> QED BY <1>1, <1>2, EffIsInsideTop

(* A lane that left an iteration by break or continue executes nothing in it:
   masked stores below it are suppressed at every nesting depth. *)
THEOREM ExitedLanes ==
  ASSUME ~ExitsBeforeLoop
  PROVE  Spec => []ExitedLanesIdle
<1>1. IInv => ExitedLanesIdle
  <2> SUFFICES ASSUME IInv, NEW k \in DOMAIN frames, frames[k].kind = "body"
               PROVE  Eff \subseteq frames[k].act
    BY DEF ExitedLanesIdle
  <2>1. Inside(frames, k) = frames[k].act
    BY DEF Inside, Arms
  <2> QED BY <2>1, EffInsideAll
<1> QED BY <1>1, InductiveInvariant, PTL

(* emitMaskedArm's branch over an arm that no lane wants is sound: whatever
   the arm holds, no lane executes anything until it ends. *)
THEOREM IdleArms ==
  ASSUME ~ExitsBeforeLoop
  PROVE  Spec => []IdleArmStaysIdle
<1>1. IInv => IdleArmStaysIdle
  <2> SUFFICES ASSUME IInv, NEW k \in DOMAIN frames, frames[k].idle
               PROVE  Eff = {}
    BY DEF IdleArmStaysIdle
  <2>1. Inside(frames, k) = {}
    BY DEF IInv, MaskInv, WellFormed, IdleEmpty
  <2> QED BY <2>1, EffInsideAll
<1> QED BY <1>1, InductiveInvariant, PTL

-----------------------------------------------------------------------------
(***************************************************************************)
(* The refinement of ScalarLanes, by the mapping of PacketMasks            *)
(* (AbsScopes, AbsWithin): a frame stands for the scope it translates, and *)
(* a lane is inside it when it is alive and in the masks that the frame    *)
(* stands for.  Who is inside which frame after one was opened, closed,    *)
(* replaced or left (InsidePush, InsidePop, InsideReplace, ExitInside),    *)
(* the invariant on which BranchElse depends (TakenInv, beside IInv), and  *)
(* one lemma per statement that maps its step.                             *)
(***************************************************************************)

(* What an abstract scope needs of the frame that stands for it: the lanes that
   took "then" are those of its mask that the condition holds for, and only an
   `if` has a condition. *)
TakenOK(f) ==
  /\ f.kind = "then" => f.act = f.saved \cap f.cond
  /\ f.kind \notin Arms => f.cond = {}

TakenInv == \A k \in DOMAIN frames : TakenOK(frames[k])

LEMMA InitMaps == Init => Scalar!Init
<1> SUFFICES ASSUME Init PROVE Scalar!Init
  OBVIOUS
<1>1. frames = <<>> /\ live = Lanes /\ stmt = "start"
  BY DEF Init
<1>2. DOMAIN frames = {} /\ Len(frames) = 0
  BY <1>1
<1>3. AbsScopes = <<>>
  BY <1>2 DEF AbsScopes
<1>4. AbsWithin = [l \in Lanes |-> {}]
  BY <1>2 DEF AbsWithin
<1> QED BY <1>1, <1>3, <1>4 DEF Scalar!Init

LEMMA RunningIsEff == IInv => Scalar!Running = live \cap Eff
<1> SUFFICES ASSUME IInv PROVE Scalar!Running = live \cap Eff
  OBVIOUS
<1> DEFINE n == Len(frames)
<1>1. /\ frames \in Seq(Frame) /\ n \in Nat /\ DOMAIN frames = 1 .. n
      /\ live \in SUBSET Lanes /\ mask \in SUBSET Lanes /\ Nested(frames)
  BY DEF IInv, TypeOK, MaskInv, WellFormed
<1>2. Len(AbsScopes) = n
  BY <1>1 DEF AbsScopes
<1>3. ASSUME NEW l \in live PROVE AbsWithin[l] = {k \in 1 .. n : l \in Inside(frames, k)}
  BY <1>1, <1>3 DEF AbsWithin
<1>4. Eff \subseteq Lanes
  BY <1>1 DEF Eff, EffOf
<1> HIDE DEF n
<1>5. ASSUME NEW l \in live PROVE AbsWithin[l] = 1 .. n <=> l \in Eff
  <2>1. CASE n = 0
    <3>1. Eff = Lanes  BY <2>1 DEF IInv, MaskInv, MaskAt, PtrAt, Eff, EffOf, n
    <3> QED BY <1>1, <1>3, <2>1, <3>1, <1>5
  <2>2. CASE n # 0
    <3>1. Eff = Inside(frames, n)  BY <1>1, <2>2, EffIsInsideTop DEF n
    <3>2. \A k \in 1 .. n : Eff \subseteq Inside(frames, k)  BY <1>1, EffInsideAll
    <3>3. n \in 1 .. n  BY <1>1, <2>2
    <3> QED BY <1>3, <1>5, <3>1, <3>2, <3>3
  <2> QED BY <2>1, <2>2
<1>6. Scalar!Running = {l \in Lanes \ (Lanes \ live) : AbsWithin[l] = 1 .. Len(AbsScopes)}
  BY DEF Scalar!Running
<1> QED BY <1>1, <1>2, <1>4, <1>5, <1>6

(* gs is fs with one more frame f: who is inside which frame, ... *)
Pushed(fs, f, gs) ==
  /\ gs \in Seq(Frame) /\ Len(gs) = Len(fs) + 1
  /\ gs[Len(fs) + 1] = f
  /\ \A k \in 1 .. Len(fs) : gs[k] = fs[k] /\ Inside(gs, k) = Inside(fs, k)
  /\ Inside(gs, Len(fs) + 1) = IF f.kind \in Arms THEN EffOf(fs, f.act, f.em) ELSE f.act

LEMMA InsidePush ==
  ASSUME NEW fs \in Seq(Frame), WellFormed(fs), NEW f \in Frame, f.em = PtrAt(fs, Len(fs))
  PROVE  Pushed(fs, f, Append(fs, f))
<1> DEFINE gs == Append(fs, f)
<1> DEFINE n == Len(fs)
<1>1. /\ n \in Nat /\ n = Len(fs) /\ gs \in Seq(Frame) /\ Len(gs) = n + 1 /\ gs[n + 1] = f
      /\ \A i \in 1 .. n : gs[i] = fs[i]
      /\ DOMAIN fs = 1 .. n
  BY AppendProperties
<1> HIDE DEF n, gs
<1>2. \A k \in 1 .. n : fs[k].em = 0 \/ fs[k].em \in 1 .. n
  BY <1>1, EmBelow
<1>3. f.em = 0 \/ f.em \in 1 .. n
  <2>1. CASE n = 0
    BY <1>1, <2>1 DEF PtrAt
  <2>2. CASE n > 0
    BY <1>1, <2>2 DEF WellFormed, PointersInnermost
  <2> QED BY <1>1, <2>1, <2>2
<1>4. \A k \in 1 .. n : Inside(gs, k) = Inside(fs, k)
  BY <1>1, <1>2 DEF Inside, EffOf
<1>5. Inside(gs, n + 1) = IF f.kind \in Arms THEN EffOf(fs, f.act, f.em) ELSE f.act
  BY <1>1, <1>3 DEF Inside, EffOf
<1>6. Pushed(fs, f, gs)  BY <1>1, <1>4, <1>5 DEF Pushed, n
<1> QED BY <1>6 DEF gs

(* ... or the top one closed. *)
LEMMA InsidePop ==
  ASSUME NEW fs \in Seq(Frame), WellFormed(fs), NEW gs \in Seq(Frame), Len(fs) = Len(gs) + 1,
         \A i \in 1 .. Len(gs) : gs[i] = fs[i]
  PROVE  \A k \in 1 .. Len(gs) : Inside(gs, k) = Inside(fs, k)
<1>1. \A k \in 1 .. Len(gs) : fs[k].em = 0 \/ fs[k].em \in 1 .. Len(gs)
  BY EmBelow
<1> QED BY <1>1 DEF Inside, EffOf

AbsScope(f) == [kind |-> ScopeOf(f.kind), taken |-> f.cond]
ScopesOf(fs) == [k \in 1 .. Len(fs) |-> AbsScope(fs[k])]

LEMMA ScopesPush ==
  ASSUME NEW fs \in Seq(Frame), NEW f \in Frame, NEW gs \in Seq(Frame),
         Len(gs) = Len(fs) + 1, gs[Len(fs) + 1] = f,
         \A k \in 1 .. Len(fs) : AbsScope(gs[k]) = AbsScope(fs[k])
  PROVE  ScopesOf(gs) = Append(ScopesOf(fs), AbsScope(f))
<1> DEFINE n == Len(fs)
           S == {AbsScope(g) : g \in Frame}
           A == ScopesOf(fs)
           B == ScopesOf(gs)
<1>1. n \in Nat /\ n = Len(fs) /\ Len(gs) = n + 1
  OBVIOUS
<1>2. A = [k \in 1 .. n |-> AbsScope(fs[k])] /\ B = [k \in 1 .. n + 1 |-> AbsScope(gs[k])]
  BY DEF ScopesOf
<1>3. (\A k \in 1 .. n : fs[k] \in Frame) /\ (\A k \in 1 .. n + 1 : gs[k] \in Frame)
  BY <1>1
<1>4. (\A k \in 1 .. n : AbsScope(fs[k]) \in S) /\ (\A k \in 1 .. n + 1 : AbsScope(gs[k]) \in S)
  BY <1>3
<1>5. AbsScope(f) \in S
  OBVIOUS
<1> HIDE DEF n, S, A, B
<1>6. A \in [1 .. n -> S] /\ B \in [1 .. n + 1 -> S] /\ n + 1 \in Nat
  BY <1>1, <1>2, <1>4
<1>7. A \in Seq(S) /\ Len(A) = n /\ B \in Seq(S) /\ Len(B) = n + 1
  <2>1. A \in Seq(S)  BY ONLY <1>1, <1>6, SeqDef
  <2>0. B \in Seq(S)  BY ONLY <1>6, SeqDef
  <2>2. DOMAIN A = 1 .. n /\ DOMAIN B = 1 .. n + 1  BY <1>6
  <2> QED BY ONLY <1>1, <1>6, <2>0, <2>1, <2>2, LenProperties
<1>8. /\ Append(A, AbsScope(f)) \in Seq(S) /\ Len(Append(A, AbsScope(f))) = n + 1
      /\ \A k \in 1 .. n : Append(A, AbsScope(f))[k] = A[k]
      /\ Append(A, AbsScope(f))[n + 1] = AbsScope(f)
  BY <1>5, <1>7, AppendProperties
<1>9. \A k \in 1 .. n + 1 : B[k] = Append(A, AbsScope(f))[k]
  BY <1>1, <1>2, <1>8
<1>10. B = Append(A, AbsScope(f))
  BY <1>7, <1>8, <1>9, SeqEqual
<1> QED BY <1>10 DEF A, B

(* A step that opens a frame opens the scope that it stands for. *)
LEMMA PushMaps ==
  ASSUME IInv, NEW f \in Frame, f.em = em, frames' = Append(frames, f), live' = live
  PROVE  /\ Len(AbsScopes) = Len(frames)
         /\ AbsScopes' = Append(AbsScopes, AbsScope(f))
         /\ LET in == IF f.kind \in Arms THEN EffOf(frames, f.act, em) ELSE f.act
            IN  AbsWithin' = [l \in Lanes |-> IF l \in live \cap in
                                              THEN AbsWithin[l] \cup {Len(frames) + 1}
                                              ELSE AbsWithin[l]]
<1> DEFINE n == Len(frames)
           in == IF f.kind \in Arms THEN EffOf(frames, f.act, em) ELSE f.act
<1>1. frames \in Seq(Frame) /\ WellFormed(frames) /\ em = PtrAt(frames, n)
  BY DEF IInv, TypeOK, MaskInv
<1>2. /\ frames' \in Seq(Frame) /\ Len(frames') = n + 1 /\ frames'[n + 1] = f
      /\ \A k \in 1 .. n : frames'[k] = frames[k] /\ Inside(frames', k) = Inside(frames, k)
      /\ Inside(frames', n + 1) = in
  <2>1. Pushed(frames, f, frames')  BY <1>1, InsidePush
  <2> QED BY <2>1 DEF Pushed
<1>3. n \in Nat /\ DOMAIN frames = 1 .. n /\ DOMAIN frames' = 1 .. n + 1 /\ n = Len(frames)
  BY <1>1, <1>2
<1> HIDE DEF n, in
<1>4. AbsScopes' = Append(AbsScopes, AbsScope(f))
  <2>1. \A k \in 1 .. n : AbsScope(frames'[k]) = AbsScope(frames[k])
    BY <1>2
  <2>2. ScopesOf(frames') = Append(ScopesOf(frames), AbsScope(f))
    BY <1>1, <1>2, <1>3, <2>1, ScopesPush
  <2>3. AbsScopes = ScopesOf(frames) /\ AbsScopes' = ScopesOf(frames')
    BY DEF AbsScopes, ScopesOf, AbsScope
  <2> QED BY <2>2, <2>3
<1>5. Len(AbsScopes) = n
  BY <1>3 DEF AbsScopes
<1>6. ASSUME NEW l \in Lanes
      PROVE  AbsWithin'[l] = IF l \in live \cap in THEN AbsWithin[l] \cup {n + 1} ELSE AbsWithin[l]
  <2>1. AbsWithin'[l] = {k \in 1 .. n + 1 : l \in live \cap Inside(frames', k)}
    BY <1>3 DEF AbsWithin
  <2>2. AbsWithin[l] = {k \in 1 .. n : l \in live \cap Inside(frames, k)}
    BY <1>3 DEF AbsWithin
  <2>3. ASSUME NEW k PROVE k \in 1 .. n + 1 <=> k \in 1 .. n \/ k = n + 1
    BY <1>3
  <2> QED BY <1>2, <1>3, <2>1, <2>2, <2>3
<1>7. AbsWithin' = [l \in Lanes |-> AbsWithin'[l]]
  BY DEF AbsWithin
<1> QED BY <1>3, <1>4, <1>5, <1>6, <1>7 DEF in, n

(* A step that closes the top frame closes its scope. *)
LEMMA PopMaps ==
  ASSUME IInv, frames # <<>>, frames' = Pop, live' = live
  PROVE  Scalar!Close
<1> DEFINE n == Len(frames)
<1>1. frames \in Seq(Frame) /\ WellFormed(frames) /\ n \in Nat /\ n > 0 /\ n = Len(frames)
  BY DEF IInv, TypeOK, MaskInv
<1>2. /\ frames' \in Seq(Frame) /\ Len(frames') = n - 1
      /\ \A i \in 1 .. (n - 1) : frames'[i] = frames[i]
  BY <1>1, PopElems DEF Pop
<1>3. \A k \in 1 .. n - 1 : Inside(frames', k) = Inside(frames, k)
  <2>1. Len(frames) = Len(frames') + 1  BY <1>1, <1>2
  <2> QED BY <1>1, <1>2, <2>1, InsidePop
<1>4. DOMAIN frames = 1 .. n /\ DOMAIN frames' = 1 .. n - 1
  BY <1>1, <1>2
<1> HIDE DEF n
<1>5. /\ AbsScopes = [k \in 1 .. n |-> [kind |-> ScopeOf(frames[k].kind), taken |-> frames[k].cond]]
      /\ Len(AbsScopes) = n
  BY <1>1 DEF AbsScopes
<1>6. AbsScopes' = SubSeq(AbsScopes, 1, n - 1)
  <2>1. AbsScopes' = [k \in 1 .. n - 1 |-> [kind |-> ScopeOf(frames'[k].kind), taken |-> frames'[k].cond]]
    BY <1>2 DEF AbsScopes
  <2>2. SubSeq(AbsScopes, 1, n - 1) = [k \in 1 .. n - 1 |-> AbsScopes[k]]
    BY <1>1
  <2> QED BY <1>1, <1>2, <1>5, <2>1, <2>2
<1>7. ASSUME NEW l \in Lanes PROVE AbsWithin'[l] = AbsWithin[l] \ {n}
  <2>1. AbsWithin'[l] = {k \in 1 .. n - 1 : l \in live \cap Inside(frames', k)}
    BY <1>4 DEF AbsWithin
  <2>2. AbsWithin[l] = {k \in 1 .. n : l \in live \cap Inside(frames, k)}
    BY <1>4 DEF AbsWithin
  <2>3. ASSUME NEW k PROVE k \in 1 .. n - 1 <=> k \in 1 .. n /\ k # n
    BY <1>1
  <2> QED BY <1>3, <2>1, <2>2, <2>3
<1>8. AbsWithin' = [l \in Lanes |-> AbsWithin'[l]]
  BY DEF AbsWithin
<1> QED BY <1>5, <1>6, <1>7, <1>8 DEF Scalar!Close

----------------------------------------------------------------------------
(* TakenInv is an invariant. *)
LEMMA TakenPush ==
  ASSUME NEW fs \in Seq(Frame), NEW f \in Frame, TakenOK(f),
         \A k \in DOMAIN fs : TakenOK(fs[k])
  PROVE  \A k \in DOMAIN Append(fs, f) : TakenOK(Append(fs, f)[k])
<1> DEFINE n == Len(fs)
           gs == Append(fs, f)
<1>1. /\ n \in Nat /\ DOMAIN gs = 1 .. n + 1 /\ DOMAIN fs = 1 .. n
      /\ gs[n + 1] = f /\ \A k \in 1 .. n : gs[k] = fs[k]
  BY AppendProperties
<1> HIDE DEF n, gs
<1>2. \A k \in DOMAIN gs : TakenOK(gs[k])
  <2> SUFFICES ASSUME NEW k \in 1 .. n + 1 PROVE TakenOK(gs[k])
    BY <1>1
  <2>1. k \in 1 .. n \/ k = n + 1
    BY <1>1
  <2> QED BY <1>1, <2>1
<1> QED BY <1>2 DEF gs

(* What break and continue do to the frames. *)
LEMMA ExitFrames ==
  ASSUME IInv, NEW b \in {em - 1, em}, IF b = em THEN ContinueStmt ELSE BreakStmt
  PROVE  /\ em \in 1 .. Len(frames)
         /\ Cleared(frames, frames', b, em, Eff)
         /\ Exited(frames, frames', b, em, Eff)
<1>1. /\ frames \in Seq(Frame) /\ WellFormed(frames) /\ em \in 0 .. Len(frames)
      /\ mask \in SUBSET Lanes /\ em # 0
      /\ mask = MaskAt(frames, Len(frames)) /\ em = PtrAt(frames, Len(frames))
      /\ Len(frames) \in Nat /\ DOMAIN frames = 1 .. Len(frames)
  BY DEF IInv, TypeOK, MaskInv, BreakStmt, ContinueStmt
<1>2. em \in 1 .. Len(frames) /\ Len(frames) > 0 /\ Len(frames) \in DOMAIN frames
  BY <1>1
<1>3. em > 1
  BY <1>1, <1>2 DEF WellFormed, Linked, PointersInnermost
<1>4. Eff \in SUBSET Lanes /\ Eff = EffOf(frames, MaskAt(frames, Len(frames)), em)
  BY <1>1 DEF Eff, EffOf
<1>5. b \in Nat /\ (b = em - 1 \/ b = em) /\ em # em - 1
  BY <1>1, <1>3
<1>6. Cleared(frames, frames', b, em, Eff)
  <2>1. CASE b = em
    <3>1. frames' = ClearAct(frames, em, Eff)  BY <2>1 DEF ContinueStmt, ClearAct
    <3>2. PICK gs : gs = frames'  OBVIOUS
    <3>3. Cleared(frames, gs, em, em, Eff)
      BY <1>1, <1>2, <1>4, <3>1, <3>2, ClearActCleared
    <3> QED BY <2>1, <3>2, <3>3
  <2>2. CASE b # em
    <3>1. frames' = ClearTwoActs(frames, em, Eff)  BY <2>2 DEF BreakStmt, ClearTwoActs
    <3>2. PICK gs : gs = frames'  OBVIOUS
    <3>3. Cleared(frames, gs, em - 1, em, Eff)
      BY <1>1, <1>2, <1>3, <1>4, <3>1, <3>2, ClearTwoActsElems
    <3> QED BY <1>5, <2>2, <3>2, <3>3
  <2> QED BY <2>1, <2>2
<1>7. Exited(frames, frames', b, em, Eff)
  <2>1. PICK gs : gs = frames'  OBVIOUS
  <2>2. Cleared(frames, gs, b, em, Eff)  BY <1>6, <2>1
  <2>3. Exited(frames, gs, b, em, Eff)
    BY ONLY <1>1, <1>2, <1>4, <1>5, <2>2, ExitInside
  <2> QED BY <2>1, <2>3
<1> QED BY <1>2, <1>6, <1>7

LEMMA TakenStep == IInv /\ TakenInv /\ [Next]_vars => TakenInv'
<1> SUFFICES ASSUME IInv, TakenInv, [Next]_vars PROVE TakenInv'
  OBVIOUS
<1> DEFINE n == Len(frames)
<1>0. /\ frames \in Seq(Frame) /\ n \in Nat /\ DOMAIN frames = 1 .. n
      /\ mask \in SUBSET Lanes /\ em \in Nat /\ em \in 0 .. n
  BY DEF IInv, TypeOK
<1>1. ASSUME NEW f \in Frame, TakenOK(f), frames' = Append(frames, f) PROVE TakenInv'
  BY <1>0, <1>1, TakenPush DEF TakenInv
<1>2. ASSUME frames # <<>>, frames' = Pop PROVE TakenInv'
  <2>1. n > 0  BY <1>0, <1>2
  <2>2. /\ frames' \in Seq(Frame) /\ Len(frames') = n - 1
        /\ \A i \in 1 .. (n - 1) : frames'[i] = frames[i]
    BY <1>0, <1>2, <2>1, PopElems DEF Pop
  <2>3. DOMAIN frames' = 1 .. n - 1  BY <2>2
  <2>4. \A i \in 1 .. (n - 1) : i \in DOMAIN frames  BY <1>0
  <2> HIDE DEF n
  <2> QED BY <2>2, <2>3, <2>4 DEF TakenInv
<1>3. ASSUME NEW c \in SUBSET Lanes, IfThen(c) PROVE TakenInv'
  <2> DEFINE f == [kind |-> "then", saved |-> mask, cond |-> c, act |-> mask \cap c,
                   em |-> em, idle |-> NoLaneWants(mask \cap c)]
  <2>1. f \in Frame  BY <1>0 DEF Frame, Kinds, NoLaneWants
  <2>2. TakenOK(f)  BY DEF TakenOK, Arms
  <2>3. frames' = Append(frames, f)  BY <1>3 DEF IfThen
  <2> QED BY <1>1, <2>1, <2>2, <2>3
<1>4. CASE IfElse
  <2>1. n \in 1 .. n /\ Top = frames[n]  BY <1>0, <1>4 DEF IfElse, TopIs, Top
  <2>2. Top.kind = "then"  BY <1>4 DEF IfElse, TopIs
  <2>3. DOMAIN frames' = 1 .. n /\ frames'[n].kind = "else"
        /\ \A k \in 1 .. n : k # n => frames'[k] = frames[k]
    BY <1>0, <1>4, <2>1 DEF IfElse, Frame, Top
  <2>4. TakenOK(frames'[n])  BY <2>3 DEF TakenOK, Arms
  <2> HIDE DEF n
  <2> QED BY <1>0, <2>3, <2>4 DEF TakenInv
<1>5. CASE EnterLoop
  <2> DEFINE f == [kind |-> "loop", saved |-> mask, cond |-> {}, act |-> mask,
                   em |-> em, idle |-> FALSE]
  <2>1. f \in Frame  BY <1>0 DEF Frame, Kinds
  <2>2. TakenOK(f)  BY DEF TakenOK
  <2>3. frames' = Append(frames, f)  BY <1>5 DEF EnterLoop
  <2> QED BY <1>1, <2>1, <2>2, <2>3
<1>6. CASE EnterUniformLoop
  <2> DEFINE f == [kind |-> "uloop", saved |-> mask, cond |-> {}, act |-> mask,
                   em |-> em, idle |-> FALSE]
  <2>1. f \in Frame  BY <1>0 DEF Frame, Kinds
  <2>2. TakenOK(f)  BY DEF TakenOK
  <2>3. frames' = Append(frames, f)  BY <1>6 DEF EnterUniformLoop
  <2> QED BY <1>1, <2>1, <2>2, <2>3
<1>7. ASSUME NEW c \in SUBSET Lanes, StartBody(c) PROVE TakenInv'
  <2> DEFINE na == Top.act \cap c
             t == [Top EXCEPT !.act = na]
             gs == [frames EXCEPT ![n] = t]
             f == [kind |-> "body", saved |-> na, cond |-> {}, act |-> na,
                   em |-> em, idle |-> FALSE]
  <2>1. n \in 1 .. n /\ Top = frames[n] /\ Top \in Frame /\ Top.kind = "loop"
    BY <1>0, <1>7 DEF StartBody, TopIs, Top
  <2>2. na \in SUBSET Lanes  BY <1>7
  <2>3. f \in Frame /\ TakenOK(f)  BY <1>0, <2>2 DEF Frame, Kinds, TakenOK
  <2>4. frames' = Append(gs, f)  BY <1>7, <2>1 DEF StartBody
  <2>5. t \in Frame /\ TakenOK(t)
    <3>1. TakenOK(Top)  BY <1>0, <2>1 DEF TakenInv
    <3>2. PICK u : u = Top  OBVIOUS
    <3>3. u \in Frame /\ TakenOK(u) /\ u.kind = "loop" /\ t = [u EXCEPT !.act = na]  BY <2>1, <3>1, <3>2
    <3> HIDE DEF na, t
    <3> QED BY <2>2, <3>3 DEF TakenOK, Frame, Arms
  <2> HIDE DEF t, f, na
  <2>6. /\ gs \in Seq(Frame) /\ Len(gs) = n
        /\ \A k \in 1 .. n : gs[k] = IF k = n THEN t ELSE frames[k]
    BY <1>0, <2>1, <2>5, ExceptSeq
  <2>7. DOMAIN gs = 1 .. n  BY <1>0, <2>6
  <2> HIDE DEF gs
  <2>8. \A k \in DOMAIN gs : TakenOK(gs[k])  BY <1>0, <2>5, <2>6, <2>7 DEF TakenInv
  <2>9. \A k \in DOMAIN Append(gs, f) : TakenOK(Append(gs, f)[k])  BY <2>3, <2>6, <2>8, TakenPush
  <2> QED BY <2>4, <2>9 DEF TakenInv
<1>8. CASE StartUniformBody
  <2>1. n \in 1 .. n /\ Top = frames[n] /\ Top \in Frame /\ Top.kind = "uloop"
    BY <1>0, <1>8 DEF StartUniformBody, TopIs, Top
  <2>2. TakenOK(Top)  BY <1>0, <2>1 DEF TakenInv
  <2>3. PICK u : u = Top  OBVIOUS
  <2> DEFINE f == [u EXCEPT !.kind = "ubody"]
  <2>4. u \in Frame /\ TakenOK(u) /\ u.kind = "uloop"  BY <2>1, <2>2, <2>3
  <2>5. f \in Frame /\ TakenOK(f)  BY <2>4 DEF TakenOK, Frame, Arms, Kinds
  <2>6. frames' = Append(frames, f)  BY <1>8, <2>3 DEF StartUniformBody
  <2> HIDE DEF f
  <2> QED BY <1>1, <2>5, <2>6
<1>9. CASE BreakStmt \/ ContinueStmt
  <2>1. PICK b \in {em - 1, em} : IF b = em THEN ContinueStmt ELSE BreakStmt
    <3>1. em # em - 1  BY <1>0
    <3> QED BY <1>9, <3>1
  <2>2. em \in 1 .. n /\ Cleared(frames, frames', b, em, Eff) /\ Exited(frames, frames', b, em, Eff)
    BY <2>1, ExitFrames
  <2>3. /\ frames' \in Seq(Frame) /\ Len(frames') = n
        /\ \A k \in 1 .. n : frames'[k].kind = frames[k].kind
        /\ \A k \in 1 .. n : frames'[k].saved = frames[k].saved
        /\ \A k \in 1 .. n : frames'[k].cond = frames[k].cond
        /\ \A k \in 1 .. n : k \notin b .. em => frames'[k].act = frames[k].act
    BY <2>2 DEF Cleared
  <2>4. \A k \in 1 .. n : k \in b .. em => frames[k].kind \notin Arms
    <3>1. frames[em].kind = "body" /\ frames[em - 1].kind = "loop"  BY <2>2 DEF Exited
    <3>2. \A k \in 1 .. n : k \in b .. em => k = em \/ k = em - 1  BY <1>0, <2>1
    <3> QED BY <3>1, <3>2 DEF Arms
  <2>5. DOMAIN frames' = 1 .. n  BY <2>3
  <2> SUFFICES ASSUME NEW k \in 1 .. n PROVE TakenOK(frames'[k])
    BY <2>5 DEF TakenInv
  <2>6. TakenOK(frames[k])  BY <1>0 DEF TakenInv
  <2>7. frames[k].kind = "then" => frames'[k].act = frames[k].act  BY <2>3, <2>4 DEF Arms
  <2> QED BY <2>3, <2>6, <2>7 DEF TakenOK
<1>10. CASE \/ EndIf \/ EndBody \/ EndUniformBody \/ ExitUniformLoop
            \/ \E c \in SUBSET Lanes : ExitLoop(c)
  BY <1>2, <1>10 DEF EndIf, EndBody, EndUniformBody, ExitUniformLoop, ExitLoop, TopIs
<1>11. CASE DiscardStmt \/ UNCHANGED vars
  BY <1>11 DEF DiscardStmt, vars, TakenInv
<1> QED BY <1>3, <1>4, <1>5, <1>6, <1>7, <1>8, <1>9, <1>10, <1>11 DEF Next

----------------------------------------------------------------------------
(* Every step maps to one of ScalarLanes. *)
LEMMA AbsFacts ==
  ASSUME IInv
  PROVE  LET n == Len(frames) IN
         /\ n \in Nat /\ frames \in Seq(Frame) /\ DOMAIN frames = 1 .. n
         /\ \A k \in 1 .. n : frames[k] \in Frame
         /\ Len(AbsScopes) = n /\ DOMAIN AbsScopes = 1 .. n
         /\ \A k \in 1 .. n : AbsScopes[k] = AbsScope(frames[k])
         /\ AbsWithin = [l \in Lanes |-> {k \in 1 .. n : l \in live \cap Inside(frames, k)}]
         /\ live \in SUBSET Lanes /\ Eff \in SUBSET Lanes /\ mask \in SUBSET Lanes /\ em \in Nat
<1>1. /\ frames \in Seq(Frame) /\ live \in SUBSET Lanes /\ mask \in SUBSET Lanes
      /\ em \in 0 .. Len(frames)
  BY DEF IInv, TypeOK
<1>2. Eff \in SUBSET Lanes  BY <1>1 DEF Eff, EffOf
<1>3. Len(frames) \in Nat /\ DOMAIN frames = 1 .. Len(frames)  BY <1>1
<1>4. \A k \in 1 .. Len(frames) : frames[k] \in Frame  BY <1>1
<1>5. Len(AbsScopes) = Len(frames)  BY <1>3 DEF AbsScopes
<1> QED BY <1>1, <1>2, <1>3, <1>4, <1>5 DEF AbsScopes, AbsScope, AbsWithin

LEMMA StatementMaps ==
  ASSUME IInv
  PROVE  /\ AtStatement <=> Scalar!AtStatement
         /\ frames = <<>> <=> AbsScopes = <<>>
         /\ frames # <<>> => /\ AbsScopes[Len(AbsScopes)].kind = ScopeOf(Top.kind)
                             /\ Top = frames[Len(frames)] /\ Top.kind \in Kinds
                             /\ Len(frames) \in 1 .. Len(frames)
<1> DEFINE n == Len(frames)
<1>1. /\ n \in Nat /\ frames \in Seq(Frame) /\ Len(AbsScopes) = n /\ DOMAIN AbsScopes = 1 .. n
      /\ \A k \in 1 .. n : frames[k] \in Frame
      /\ \A k \in 1 .. n : AbsScopes[k] = AbsScope(frames[k])
  BY AbsFacts
<1>2. frames = <<>> <=> n = 0  BY <1>1
<1>3. AbsScopes = <<>> <=> n = 0
  <2>1. CASE n = 0
    <3>1. DOMAIN frames = {}  BY <1>1, <2>1
    <3>2. AbsScopes = <<>>  BY <2>1, <3>1 DEF AbsScopes
    <3> QED BY <2>1, <3>2
  <2>2. CASE n # 0
    BY <1>1, <2>2
  <2> QED BY <2>1, <2>2
<1>4. ASSUME n # 0
      PROVE  /\ AbsScopes[Len(AbsScopes)].kind = ScopeOf(Top.kind)
             /\ Top = frames[n] /\ Top.kind \in Kinds /\ n \in 1 .. n
  <2>1. n \in 1 .. n /\ Top = frames[n] /\ Top \in Frame  BY <1>1, <1>4 DEF Top
  <2>2. AbsScopes[n].kind = ScopeOf(frames[n].kind)  BY <1>1, <2>1 DEF AbsScope
  <2> QED BY <1>1, <2>1, <2>2, FrameFields
<1>5. AtStatement <=> Scalar!AtStatement
  <2>1. CASE n = 0
    BY <1>2, <1>3, <2>1 DEF AtStatement, TopIs, Scalar!AtStatement
  <2>2. CASE n # 0
    <3>1. ScopeOf(Top.kind) = "loop" <=> Top.kind \in {"loop", "uloop"}
      BY <1>4, <2>2 DEF ScopeOf, Kinds
    <3> QED BY <1>2, <1>3, <1>4, <2>2, <3>1 DEF AtStatement, TopIs, Scalar!AtStatement
  <2> QED BY <2>1, <2>2
<1> QED BY <1>2, <1>3, <1>4, <1>5

LEMMA IfThenMaps ==
  ASSUME IInv, NEW c \in SUBSET Lanes, IfThen(c)
  PROVE  Scalar!BranchThen(c)
<1> DEFINE f == [kind |-> "then", saved |-> mask, cond |-> c, act |-> mask \cap c,
                 em |-> em, idle |-> NoLaneWants(mask \cap c)]
           n == Len(frames)
<1>1. f \in Frame /\ f.em = em /\ f.kind \in Arms /\ f.act = mask \cap c
  BY AbsFacts DEF Frame, Kinds, NoLaneWants, Arms
<1>2. AbsScope(f) = Scalar!Scope("then", c)
  BY DEF AbsScope, Scalar!Scope, ScopeOf
<1>3. frames' = Append(frames, f) /\ live' = live /\ AtStatement /\ stmt' = "if"
  BY DEF IfThen
<1> HIDE DEF f, n
<1>4. /\ Len(AbsScopes) = n
      /\ AbsScopes' = Append(AbsScopes, AbsScope(f))
      /\ AbsWithin' = [l \in Lanes |-> IF l \in live \cap EffOf(frames, mask \cap c, em)
                                       THEN AbsWithin[l] \cup {n + 1} ELSE AbsWithin[l]]
  BY <1>1, <1>3, PushMaps DEF n
<1>5. live \cap EffOf(frames, mask \cap c, em) = Scalar!Running \cap c
  <2>1. EffOf(frames, mask \cap c, em) = Eff \cap c  BY DEF Eff, EffOf
  <2> QED BY <2>1, RunningIsEff
<1>6. Scalar!Open(Scalar!Scope("then", c), Scalar!Running \cap c)
  BY <1>2, <1>4, <1>5 DEF Scalar!Open
<1> QED BY <1>3, <1>6, StatementMaps DEF Scalar!BranchThen

LEMMA UniformLoopEff ==
  ASSUME IInv, EnterUniformLoop
  PROVE  Eff = mask
<1>1. /\ frames \in Seq(Frame) /\ em = PtrAt(frames, Len(frames)) /\ PointersInnermost(frames)
      /\ Len(frames) \in Nat /\ DOMAIN frames = 1 .. Len(frames)
  BY DEF IInv, TypeOK, MaskInv, WellFormed
<1>2. em = 0
  <2>1. CASE Len(frames) = 0
    BY <1>1, <2>1 DEF PtrAt
  <2>2. CASE Len(frames) # 0
    <3>1. Len(frames) \in DOMAIN frames  BY <1>1, <2>2
    <3>2. frames[Len(frames)].kind \in {"uloop", "ubody"}  BY <3>1 DEF EnterUniformLoop
    <3> QED BY <1>1, <3>1, <3>2, UniformHasNoPtr
  <2> QED BY <2>1, <2>2
<1> QED BY <1>2 DEF Eff, EffOf

LEMMA EnterLoopMaps ==
  ASSUME IInv, (EnterLoop /\ ~ExitsBeforeLoop) \/ EnterUniformLoop
  PROVE  Scalar!EnterLoop
<1> DEFINE k == IF EnterLoop THEN "loop" ELSE "uloop"
           f == [kind |-> k, saved |-> mask, cond |-> {}, act |-> mask, em |-> em, idle |-> FALSE]
           n == Len(frames)
<1>1. f \in Frame /\ f.em = em /\ f.kind \notin Arms /\ f.act = mask
  BY AbsFacts DEF Frame, Kinds, Arms
<1>2. AbsScope(f) = Scalar!Scope("loop", {})
  BY DEF AbsScope, Scalar!Scope, ScopeOf
<1>3. frames' = Append(frames, f) /\ live' = live /\ AtStatement /\ stmt' = "loop"
  BY DEF EnterLoop, EnterUniformLoop
<1>4. Eff = mask
  <2>1. CASE EnterLoop /\ ~ExitsBeforeLoop
    BY <2>1 DEF EnterLoop
  <2>2. CASE EnterUniformLoop
    BY <2>2, UniformLoopEff
  <2> QED BY <2>1, <2>2
<1> HIDE DEF f, n, k
<1>5. /\ Len(AbsScopes) = n
      /\ AbsScopes' = Append(AbsScopes, AbsScope(f))
      /\ AbsWithin' = [l \in Lanes |-> IF l \in live \cap mask
                                       THEN AbsWithin[l] \cup {n + 1} ELSE AbsWithin[l]]
  BY <1>1, <1>3, PushMaps DEF n
<1>6. Scalar!Open(Scalar!Scope("loop", {}), Scalar!Running)
  BY <1>2, <1>4, <1>5, RunningIsEff DEF Scalar!Open
<1> QED BY <1>3, <1>6, StatementMaps DEF Scalar!EnterLoop

LEMMA StartUniformBodyMaps ==
  ASSUME IInv, TakenInv, StartUniformBody
  PROVE  Scalar!Iterate(Lanes)
<1> DEFINE n == Len(frames)
<1>1. /\ frames # <<>> /\ Top.kind = "uloop" /\ live' = live /\ stmt' = "body"
      /\ frames' = Append(frames, [Top EXCEPT !.kind = "ubody"])
  BY DEF StartUniformBody, TopIs
<1>2. /\ n \in 1 .. n /\ Top = frames[n] /\ n \in Nat /\ Top \in Frame
      /\ Len(AbsScopes) = n /\ AbsScopes[n].kind = "loop" /\ AbsScopes # <<>>
  BY <1>1, AbsFacts, StatementMaps DEF ScopeOf
<1>3. TakenOK(Top)
  BY <1>2, AbsFacts DEF TakenInv
<1>4. PICK f : f = [Top EXCEPT !.kind = "ubody"]
  OBVIOUS
<1>5. Eff = Top.act /\ em = Top.em
  <2>1. Eff = Inside(frames, n)  BY <1>1, EffIsInsideTop
  <2>2. em = PtrAt(frames, n)  BY DEF IInv, MaskInv
  <2>3. n # 0  BY <1>2
  <2> QED BY <1>1, <1>2, <2>1, <2>2, <2>3 DEF Inside, PtrAt, Arms
<1>6. f \in Frame /\ f.em = em /\ f.kind = "ubody" /\ f.act = Eff /\ f.cond = {}
  <2>1. PICK t : t = Top  OBVIOUS
  <2>2. t \in Frame /\ f = [t EXCEPT !.kind = "ubody"] /\ t.em = em /\ t.act = Eff /\ t.cond = {}
    BY <1>1, <1>2, <1>3, <1>4, <1>5, <2>1 DEF TakenOK, Arms
  <2> QED BY ONLY <2>2 DEF Frame, Kinds
<1> HIDE DEF n
<1>7. /\ AbsScopes' = Append(AbsScopes, AbsScope(f))
      /\ AbsWithin' = [l \in Lanes |-> IF l \in live \cap Eff
                                       THEN AbsWithin[l] \cup {n + 1} ELSE AbsWithin[l]]
  <2>1. f.kind \notin Arms  BY <1>6 DEF Arms
  <2> QED BY <1>1, <1>4, <1>6, <2>1, PushMaps DEF n
<1>8. AbsScope(f) = Scalar!Scope("body", {})
  BY <1>6 DEF AbsScope, Scalar!Scope, ScopeOf
<1>9. \A l \in Lanes : l \notin live \cap Eff => AbsWithin[l] = AbsWithin[l] \ {n}
  <2>1. Eff = Inside(frames, n)  BY <1>1, EffIsInsideTop DEF n
  <2>2. \A l \in Lanes : n \in AbsWithin[l] => l \in live \cap Eff
    BY <2>1, AbsFacts DEF n
  <2> QED BY <2>2
<1>10. Scalar!Running \cap Lanes = live \cap Eff
  BY RunningIsEff, AbsFacts
<1> QED BY <1>1, <1>2, <1>7, <1>8, <1>9, <1>10 DEF Scalar!Iterate

LEMMA CloseMaps ==
  ASSUME IInv
  PROVE  /\ EndIf => Scalar!MergeArms
         /\ EndBody \/ EndUniformBody => Scalar!Latch
         /\ ExitUniformLoop \/ (\E c \in SUBSET Lanes : ExitLoop(c)) => Scalar!ExitLoop
<1>1. ASSUME EndIf PROVE Scalar!MergeArms
  <2>1. /\ frames # <<>> /\ Top.kind \in {"then", "else"} /\ frames' = Pop /\ live' = live
        /\ stmt' = "endif"
    BY <1>1 DEF EndIf, TopIs
  <2>2. AbsScopes # <<>> /\ AbsScopes[Len(AbsScopes)].kind \in {"then", "else"}
    BY <2>1, StatementMaps DEF ScopeOf
  <2>3. Scalar!Close  BY <2>1, PopMaps
  <2> QED BY <2>1, <2>2, <2>3 DEF Scalar!MergeArms
<1>2. ASSUME EndBody \/ EndUniformBody PROVE Scalar!Latch
  <2>1. /\ frames # <<>> /\ Top.kind \in {"body", "ubody"} /\ frames' = Pop /\ live' = live
        /\ stmt' = "endbody"
    BY <1>2 DEF EndBody, EndUniformBody, TopIs
  <2>2. AbsScopes # <<>> /\ AbsScopes[Len(AbsScopes)].kind = "body"
    BY <2>1, StatementMaps DEF ScopeOf
  <2>3. Scalar!Close  BY <2>1, PopMaps
  <2> QED BY <2>1, <2>2, <2>3 DEF Scalar!Latch
<1>3. ASSUME ExitUniformLoop \/ (\E c \in SUBSET Lanes : ExitLoop(c)) PROVE Scalar!ExitLoop
  <2>1. /\ frames # <<>> /\ Top.kind \in {"loop", "uloop"} /\ frames' = Pop /\ live' = live
        /\ stmt' = "exit"
    BY <1>3 DEF ExitLoop, ExitUniformLoop, TopIs
  <2>2. AbsScopes # <<>> /\ AbsScopes[Len(AbsScopes)].kind = "loop"
    BY <2>1, StatementMaps DEF ScopeOf
  <2>3. Scalar!Close  BY <2>1, PopMaps
  <2> QED BY <2>1, <2>2, <2>3 DEF Scalar!ExitLoop
<1> QED BY <1>1, <1>2, <1>3

LEMMA DiscardMaps == IInv /\ DiscardStmt => Scalar!DiscardStmt
<1> SUFFICES ASSUME IInv, DiscardStmt PROVE Scalar!DiscardStmt
  OBVIOUS
<1>1. /\ frames' = frames /\ live' = live \ Eff /\ stmt' = "discard" /\ AtStatement
  BY DEF DiscardStmt
<1>2. AbsScopes' = AbsScopes  BY <1>1 DEF AbsScopes
<1>3. (Lanes \ live)' = (Lanes \ live) \cup Scalar!Running
  BY <1>1, RunningIsEff, AbsFacts
<1>4. ASSUME NEW l \in Lanes
      PROVE  AbsWithin'[l] = IF l \in Scalar!Running THEN {} ELSE AbsWithin[l]
  <2>1. AbsWithin'[l] = {k \in DOMAIN frames : l \in live' \cap Inside(frames, k)}
    BY <1>1 DEF AbsWithin, Inside, EffOf
  <2>2. AbsWithin[l] = {k \in DOMAIN frames : l \in live \cap Inside(frames, k)}
    BY DEF AbsWithin
  <2>3. l \in live \cap Eff <=> l \in Scalar!Running  BY RunningIsEff
  <2> QED BY <1>1, <2>1, <2>2, <2>3
<1>5. AbsWithin' = [l \in Lanes |-> IF l \in Scalar!Running THEN {} ELSE AbsWithin[l]]
  <2>1. AbsWithin' = [l \in Lanes |-> AbsWithin'[l]]  BY DEF AbsWithin
  <2> QED BY <1>4, <2>1
<1> QED BY <1>1, <1>2, <1>3, <1>5, StatementMaps DEF Scalar!DiscardStmt

(* Who is inside which frame after the top frame was replaced by f. *)
Replaced(fs, f, gs) ==
  /\ gs \in Seq(Frame) /\ Len(gs) = Len(fs) /\ gs[Len(fs)] = f
  /\ \A k \in 1 .. Len(fs) : k # Len(fs) => gs[k] = fs[k] /\ Inside(gs, k) = Inside(fs, k)
  /\ Inside(gs, Len(fs)) = IF f.kind \in Arms THEN EffOf(fs, f.act, f.em) ELSE f.act

LEMMA InsideReplace ==
  ASSUME NEW fs \in Seq(Frame), WellFormed(fs), Len(fs) > 0, NEW f \in Frame,
         f.em = fs[Len(fs)].em
  PROVE  Replaced(fs, f, [fs EXCEPT ![Len(fs)] = f])
<1> DEFINE n == Len(fs)
           gs == [fs EXCEPT ![n] = f]
<1>1. /\ n \in Nat /\ n \in 1 .. n /\ n = Len(fs)
      /\ gs \in Seq(Frame) /\ Len(gs) = n /\ gs[n] = f
      /\ \A k \in 1 .. n : k # n => gs[k] = fs[k]
  BY ExceptSeq
<1>2. \A k \in 1 .. n : fs[k].em = 0 \/ fs[k].em \in 1 .. k - 1
  BY EmBelow
<1> HIDE DEF n, gs
<1>3. \A k \in 1 .. n : \A j \in 1 .. k - 1 : gs[j] = fs[j]
  BY <1>1
<1>4. \A k \in 1 .. n : k # n => Inside(gs, k) = Inside(fs, k)
  BY <1>1, <1>2, <1>3 DEF Inside, EffOf
<1>5. Inside(gs, n) = IF f.kind \in Arms THEN EffOf(fs, f.act, f.em) ELSE f.act
  <2>1. f.em = 0 \/ gs[f.em] = fs[f.em]  BY <1>1, <1>2, <1>3
  <2> QED BY ONLY <1>1, <2>1 DEF Inside, EffOf
<1>6. Replaced(fs, f, gs)  BY <1>1, <1>4, <1>5 DEF Replaced
<1> QED BY <1>6 DEF gs, n

(* The lanes inside the encloser of an `if`. *)
LEMMA InsideEncloser ==
  ASSUME IInv, frames # <<>>, Top.kind \in Arms, NEW l \in live
  PROVE  (\A k \in 1 .. Len(frames) - 1 : l \in Inside(frames, k))
           <=> l \in EffOf(frames, Top.saved, em)
<1> DEFINE n == Len(frames)
           p == n - 1
<1>1. /\ frames \in Seq(Frame) /\ WellFormed(frames) /\ n \in Nat /\ n > 0 /\ p \in Nat
      /\ n = p + 1 /\ n \in 1 .. n /\ live \in SUBSET Lanes /\ DOMAIN frames = 1 .. n
  BY DEF IInv, TypeOK, MaskInv
<1>2. /\ Top.em = PtrAt(frames, p) /\ Top.saved = MaskAt(frames, p) /\ em = Top.em
  BY Restores DEF Arms
<1>3. CASE p = 0
  <2>1. Top.saved = Lanes /\ em = 0  BY <1>2, <1>3 DEF MaskAt, PtrAt
  <2>2. l \in EffOf(frames, Top.saved, em)  BY <1>1, <2>1 DEF EffOf
  <2>3. ASSUME NEW k \in 1 .. p PROVE FALSE
    <3> HIDE DEF p
    <3> QED BY <1>3
  <2> QED BY <2>2, <2>3
<1>4. CASE p # 0
  <2> DEFINE gs == Pop
  <2>1. gs \in Seq(Frame) /\ Len(gs) = p /\ \A i \in 1 .. p : gs[i] = frames[i]
    BY <1>1, PopElems DEF Pop
  <2> HIDE DEF gs, p, n
  <2>2. Len(frames) = Len(gs) + 1  BY <1>1, <2>1 DEF n
  <2>3. /\ WellFormed(gs) /\ MaskAt(gs, p) = MaskAt(frames, p) /\ PtrAt(gs, p) = PtrAt(frames, p)
    BY <1>1, <2>1, <2>2, PopWellFormed
  <2>4. \A k \in 1 .. p : Inside(gs, k) = Inside(frames, k)
    BY <1>1, <2>1, <2>2, InsidePop
  <2>5. p \in 1 .. p /\ Len(gs) > 0  BY <1>1, <1>4, <2>1
  <2>6. Inside(frames, p) = EffOf(gs, Top.saved, em)
    BY <1>2, <2>1, <2>3, <2>4, <2>5, InsideTop
  <2>7. em = 0 \/ em \in 1 .. p
    <3>1. p \in DOMAIN frames  BY <1>1, <1>4
    <3> QED BY <1>1, <1>2, <3>1 DEF WellFormed, PointersInnermost
  <2>8. EffOf(gs, Top.saved, em) = EffOf(frames, Top.saved, em)
    BY <2>1, <2>7 DEF EffOf
  <2>9. \A k \in 1 .. p : Inside(frames, p) \subseteq Inside(frames, k)
    <3>1. \A k \in 1 .. p : k \in DOMAIN frames /\ p \in DOMAIN frames /\ k <= p
      BY <1>1, <1>4
    <3> QED BY <1>1, <3>1 DEF WellFormed, Nested
  <2>10. (\A k \in 1 .. p : l \in Inside(frames, k)) <=> l \in EffOf(frames, Top.saved, em)
    BY <2>5, <2>6, <2>8, <2>9
  <2> QED BY <2>10 DEF p, n
<1> QED BY <1>3, <1>4

LEMMA IfElseMaps == IInv /\ TakenInv /\ IfElse => Scalar!BranchElse
<1> SUFFICES ASSUME IInv, TakenInv, IfElse PROVE Scalar!BranchElse
  OBVIOUS
<1> DEFINE n == Len(frames)
           arm == Top.saved \ Top.cond
<1>1. /\ frames # <<>> /\ Top.kind = "then" /\ live' = live /\ stmt' = "else"
  BY DEF IfElse, TopIs
<1>2. /\ n \in Nat /\ n \in 1 .. n /\ Top = frames[n] /\ Top \in Frame /\ frames \in Seq(Frame)
      /\ Len(AbsScopes) = n /\ AbsScopes # <<>> /\ AbsScopes[n].kind = "then" /\ n > 0
      /\ DOMAIN frames = 1 .. n /\ DOMAIN AbsScopes = 1 .. n
      /\ live \in SUBSET Lanes
  BY <1>1, AbsFacts, StatementMaps DEF ScopeOf
<1>3. em = Top.em  BY <1>1, Restores DEF Arms
<1>4. Top.act = Top.saved \cap Top.cond  BY <1>1, <1>2 DEF TakenInv, TakenOK
<1>5. PICK f : f = [Top EXCEPT !.kind = "else", !.act = arm, !.idle = NoLaneWants(arm)]
  OBVIOUS
<1>6. f \in Frame /\ f.kind = "else" /\ f.act = arm /\ f.em = em /\ f.cond = Top.cond
  <2>1. PICK t : t = Top  OBVIOUS
  <2>2. t \in Frame /\ f = [t EXCEPT !.kind = "else", !.act = arm, !.idle = NoLaneWants(arm)] /\ t.em = em
        /\ arm \in SUBSET Lanes /\ NoLaneWants(arm) \in BOOLEAN /\ t.cond = Top.cond
    BY <1>2, <1>3, <1>5, <2>1, FrameFields DEF NoLaneWants
  <2> HIDE DEF arm
  <2> QED BY ONLY <2>2 DEF Frame, Kinds
<1>7. frames' = [frames EXCEPT ![n] = f]  BY <1>2, <1>5 DEF IfElse
<1>8. Replaced(frames, f, frames')
  <2>1. f.em = frames[Len(frames)].em /\ Len(frames) > 0 /\ WellFormed(frames)
    BY <1>2, <1>3, <1>6 DEF IInv, MaskInv
  <2>2. Replaced(frames, f, [frames EXCEPT ![Len(frames)] = f])
    BY ONLY <1>2, <1>6, <2>1, InsideReplace
  <2> QED BY <1>7, <2>2
<1>9. /\ Len(frames') = n /\ frames'[n] = f /\ DOMAIN frames' = 1 .. n
      /\ \A k \in 1 .. n : k # n => frames'[k] = frames[k] /\ Inside(frames', k) = Inside(frames, k)
      /\ Inside(frames', n) = EffOf(frames, arm, em)
  <2>1. f.kind \in Arms  BY <1>6 DEF Arms
  <2>2. PICK gs : gs = frames'  OBVIOUS
  <2>3. /\ gs \in Seq(Frame) /\ Len(gs) = n /\ gs[n] = f
        /\ \A k \in 1 .. n : k # n => gs[k] = frames[k] /\ Inside(gs, k) = Inside(frames, k)
        /\ Inside(gs, n) = EffOf(frames, f.act, f.em)
    BY <1>8, <2>1, <2>2 DEF Replaced
  <2>4. DOMAIN gs = 1 .. n  BY ONLY <2>3, LenProperties
  <2> QED BY <1>6, <2>2, <2>3, <2>4
<1>10. Inside(frames, n) = EffOf(frames, Top.saved \cap Top.cond, em)
  BY <1>1, <1>2, <1>3, <1>4 DEF Inside, Arms
<1> HIDE DEF n
<1>11. ASSUME NEW l \in Lanes
       PROVE  AbsWithin'[l] = IF l \notin Lanes \ live /\ AbsWithin[l] = 1 .. (n - 1)
                              THEN AbsWithin[l] \cup {n} ELSE AbsWithin[l] \ {n}
  <2>1. AbsWithin[l] = {k \in 1 .. n : l \in live \cap Inside(frames, k)}
    BY AbsFacts DEF n
  <2>2. AbsWithin'[l] = {k \in 1 .. n : l \in live \cap Inside(frames', k)}
    BY <1>1, <1>9 DEF AbsWithin
  <2>3. CASE l \notin live
    BY <2>1, <2>2, <2>3
  <2>4. CASE l \in live
    <3>1. (\A k \in 1 .. n - 1 : l \in Inside(frames, k)) <=> l \in EffOf(frames, Top.saved, em)
      BY <1>1, <2>4, InsideEncloser DEF Arms, n
    <3>2. AbsWithin[l] = 1 .. (n - 1)
            <=> /\ l \in EffOf(frames, Top.saved, em)
                /\ l \notin EffOf(frames, Top.saved \cap Top.cond, em)
      <4>1. \A k : k \in 1 .. n - 1 <=> k \in 1 .. n /\ k # n  BY <1>2
      <4> QED BY <1>2, <1>10, <2>1, <2>4, <3>1, <4>1
    <3>3. l \in EffOf(frames, arm, em)
            <=> /\ l \in EffOf(frames, Top.saved, em)
                /\ l \notin EffOf(frames, Top.saved \cap Top.cond, em)
      BY DEF EffOf
    <3>4. AbsWithin[l] = 1 .. (n - 1) <=> l \in Inside(frames', n)
      BY <1>9, <3>2, <3>3
    <3>5. AbsWithin'[l] = IF l \in Inside(frames', n) THEN AbsWithin[l] \cup {n} ELSE AbsWithin[l] \ {n}
      BY <1>2, <1>9, <2>1, <2>2, <2>4
    <3> QED BY <2>4, <3>4, <3>5
  <2> QED BY <2>3, <2>4
<1>12. AbsWithin' = [l \in Lanes |-> IF l \notin Lanes \ live /\ AbsWithin[l] = 1 .. (n - 1)
                                    THEN AbsWithin[l] \cup {n} ELSE AbsWithin[l] \ {n}]
  <2>1. AbsWithin' = [l \in Lanes |-> AbsWithin'[l]]  BY DEF AbsWithin
  <2> QED BY <1>11, <2>1
<1>13. AbsScopes' = [AbsScopes EXCEPT ![n].kind = "else"]
  <2>1. \A k \in 1 .. n : AbsScopes[k] = AbsScope(frames[k])  BY AbsFacts DEF n
  <2>2. AbsScopes' = [k \in 1 .. n |-> AbsScope(frames'[k])]
    BY <1>9 DEF AbsScopes, AbsScope
  <2>3. AbsScope(f) = [AbsScope(Top) EXCEPT !.kind = "else"]
    BY <1>6 DEF AbsScope, ScopeOf
  <2>4. \A k \in 1 .. n : k # n => AbsScope(frames'[k]) = AbsScopes[k]  BY <1>9, <2>1
  <2>5. AbsScope(frames'[n]) = [AbsScopes[n] EXCEPT !.kind = "else"]  BY <1>2, <1>9, <2>1, <2>3
  <2>6. AbsScopes = [k \in 1 .. n |-> AbsScopes[k]]  BY <1>2 DEF AbsScopes
  <2> HIDE DEF AbsScopes
  <2> QED BY <1>2, <2>2, <2>4, <2>5, <2>6
<1> QED BY <1>1, <1>2, <1>12, <1>13 DEF Scalar!BranchElse

(* The frames after the header of a masked loop. *)
LEMMA StartBodyFrames ==
  ASSUME IInv, NEW c \in SUBSET Lanes, StartBody(c)
  PROVE  LET n  == Len(frames)
             na == Top.act \cap c
         IN  /\ n \in 1 .. n /\ Top = frames[n] /\ Top.kind = "loop" /\ Eff = Top.act
             /\ frames' \in Seq(Frame) /\ Len(frames') = n + 1
             /\ AbsScope(frames'[n + 1]) = Scalar!Scope("body", {})
             /\ \A k \in 1 .. n : AbsScope(frames'[k]) = AbsScope(frames[k])
             /\ \A k \in 1 .. n - 1 : Inside(frames', k) = Inside(frames, k)
             /\ Inside(frames', n) = na /\ Inside(frames', n + 1) = na
<1> DEFINE n == Len(frames)
           na == Top.act \cap c
           gs == [frames EXCEPT ![n] = [Top EXCEPT !.act = na]]
           f == [kind |-> "body", saved |-> na, cond |-> {}, act |-> na,
                 em |-> em, idle |-> FALSE]
<1>1. frames # <<>> /\ Top.kind = "loop" /\ frames' = Append(gs, f)
  BY DEF StartBody, TopIs, Top
<1>2. /\ n \in Nat /\ n > 0 /\ n = Len(frames) /\ n \in 1 .. n /\ Top = frames[n] /\ Top \in Frame
      /\ frames \in Seq(Frame) /\ WellFormed(frames) /\ em \in Nat
  BY <1>1, AbsFacts, StatementMaps DEF IInv, MaskInv
<1>3. em = 0 /\ Eff = Top.act
  <2>1. em = PtrAt(frames, n)  BY DEF IInv, MaskInv
  <2>2. Eff = Inside(frames, n)  BY <1>1, EffIsInsideTop
  <2> QED BY <1>1, <1>2, <2>1, <2>2 DEF PtrAt, Inside, Arms
<1>4. na \in SUBSET Lanes  OBVIOUS
<1> HIDE DEF na
<1>5. PICK t : t = [Top EXCEPT !.act = na]
  OBVIOUS
<1>6. t \in Frame /\ t.kind = Top.kind /\ t.act = na /\ t.em = Top.em /\ t.cond = Top.cond
  <2>1. PICK u : u = Top  OBVIOUS
  <2>2. u \in Frame /\ t = [u EXCEPT !.act = na]  BY <1>2, <1>5, <2>1
  <2>3. t \in Frame /\ t.kind = u.kind /\ t.act = na /\ t.em = u.em /\ t.cond = u.cond
    BY ONLY <1>4, <2>2 DEF Frame
  <2> QED BY <2>1, <2>3
<1>7. f \in Frame /\ f.kind = "body" /\ f.act = na /\ f.em = 0 /\ f.cond = {}
  BY <1>2, <1>3, <1>4 DEF Frame, Kinds
<1>8. gs = [frames EXCEPT ![Len(frames)] = t]  BY <1>5
<1>9. Replaced(frames, t, gs)
  <2>1. t.em = frames[Len(frames)].em /\ Len(frames) > 0  BY <1>2, <1>6
  <2>2. Replaced(frames, t, [frames EXCEPT ![Len(frames)] = t])
    BY ONLY <1>2, <1>6, <2>1, InsideReplace
  <2> QED BY <1>8, <2>2
<1> HIDE DEF gs, f, n
<1>10. /\ gs \in Seq(Frame) /\ Len(gs) = n /\ gs[n] = t
       /\ \A k \in 1 .. n : k # n => gs[k] = frames[k] /\ Inside(gs, k) = Inside(frames, k)
       /\ Inside(gs, n) = na
  <2>1. t.kind \notin Arms  BY <1>1, <1>6 DEF Arms
  <2> QED BY ONLY <1>2, <1>6, <1>9, <2>1 DEF Replaced
<1>11. WellFormed(gs)
  <2>1. Top.act \subseteq Top.saved /\ ~Top.idle
    BY <1>1, <1>2 DEF WellFormed, Linked, IdleEmpty, Arms
  <2>2. t.saved = Top.saved /\ t.idle = Top.idle
    <3>1. PICK u : u = Top  OBVIOUS
    <3>2. u \in Frame /\ t = [u EXCEPT !.act = na]  BY <1>2, <1>5, <3>1
    <3>3. t.saved = u.saved /\ t.idle = u.idle  BY ONLY <3>2 DEF Frame
    <3> QED BY <3>1, <3>3
  <2>3. na \subseteq Top.act  BY DEF na
  <2>4. /\ Top = frames[Len(frames)] /\ Top.kind # "body" /\ Len(frames) > 0
        /\ t \in Frame /\ t.kind # "body" /\ t.kind \notin {"uloop", "ubody"}
        /\ t.saved = Top.saved /\ t.em = Top.em /\ t.act \subseteq t.saved
        /\ t.kind \in Arms \/ (Top.kind \notin Arms /\ t.act \subseteq Top.act)
        /\ (t.idle => t.kind \in Arms /\ EffOf(frames, t.act, t.em) = {})
    BY <1>1, <1>2, <1>6, <2>1, <2>2, <2>3 DEF Arms
  <2>5. WellFormed([frames EXCEPT ![Len(frames)] = t])
    BY ONLY <1>2, <2>4, ReplaceWellFormed
  <2> QED BY <1>8, <2>5 DEF gs, n
<1>12. Pushed(gs, f, Append(gs, f))
  <2>1. f.em = PtrAt(gs, Len(gs))  BY <1>1, <1>2, <1>6, <1>7, <1>10 DEF PtrAt
  <2> QED BY ONLY <1>7, <1>10, <1>11, <2>1, InsidePush
<1>13. PICK hs : hs = frames'
  OBVIOUS
<1>14. /\ hs \in Seq(Frame) /\ Len(hs) = n + 1 /\ hs[n + 1] = f
       /\ \A k \in 1 .. n : hs[k] = gs[k] /\ Inside(hs, k) = Inside(gs, k)
       /\ Inside(hs, n + 1) = na
  <2>1. Pushed(gs, f, hs)  BY <1>1, <1>12, <1>13
  <2>2. f.kind \notin Arms  BY <1>7 DEF Arms
  <2> QED BY ONLY <1>7, <1>10, <2>1, <2>2 DEF Pushed
<1>15. AbsScope(hs[n + 1]) = Scalar!Scope("body", {})
  BY <1>7, <1>14 DEF AbsScope, ScopeOf, Scalar!Scope
<1>16. \A k \in 1 .. n : AbsScope(hs[k]) = AbsScope(frames[k])
  BY <1>2, <1>6, <1>10, <1>14 DEF AbsScope
<1>17. \A k \in 1 .. n - 1 : Inside(hs, k) = Inside(frames, k)
  BY <1>2, <1>10, <1>14
<1>18. Inside(hs, n) = na
  BY <1>2, <1>10, <1>14
<1> QED BY <1>1, <1>2, <1>3, <1>13, <1>14, <1>15, <1>16, <1>17, <1>18 DEF na, n

LEMMA StartBodyMaps ==
  ASSUME IInv, NEW c \in SUBSET Lanes, StartBody(c)
  PROVE  Scalar!Iterate(c)
<1> DEFINE n == Len(frames)
           na == Top.act \cap c
<1>1. /\ n \in 1 .. n /\ Top = frames[n] /\ Top.kind = "loop" /\ Eff = Top.act
      /\ frames' \in Seq(Frame) /\ Len(frames') = n + 1
      /\ AbsScope(frames'[n + 1]) = Scalar!Scope("body", {})
      /\ \A k \in 1 .. n : AbsScope(frames'[k]) = AbsScope(frames[k])
      /\ \A k \in 1 .. n - 1 : Inside(frames', k) = Inside(frames, k)
      /\ Inside(frames', n) = na /\ Inside(frames', n + 1) = na
  BY StartBodyFrames
<1>2. frames # <<>> /\ live' = live /\ stmt' = "body"
  BY DEF StartBody, TopIs
<1>3. /\ n \in Nat /\ frames \in Seq(Frame) /\ Len(AbsScopes) = n /\ live \in SUBSET Lanes
      /\ n = Len(frames) /\ AbsScopes # <<>> /\ AbsScopes[n].kind = "loop"
      /\ \A l \in Lanes : AbsWithin[l] = {k \in 1 .. n : l \in live \cap Inside(frames, k)}
  BY <1>1, <1>2, AbsFacts, StatementMaps DEF ScopeOf
<1>4. Eff = Inside(frames, n)  BY <1>2, EffIsInsideTop
<1>5. Scalar!Running \cap c = live \cap na  BY <1>1, RunningIsEff
<1>6. DOMAIN frames' = 1 .. n + 1
  <2>1. PICK hs : hs = frames'  OBVIOUS
  <2>2. hs \in Seq(Frame) /\ Len(hs) = n + 1  BY <1>1, <2>1
  <2>3. DOMAIN hs = 1 .. n + 1  BY ONLY <2>2, LenProperties
  <2> QED BY <2>1, <2>3
<1>7. na \subseteq Eff  BY <1>1
<1> HIDE DEF n, na
<1>8. AbsScopes' = Append(AbsScopes, Scalar!Scope("body", {}))
  <2>1. PICK hs : hs = frames'  OBVIOUS
  <2>2. PICK f : f = hs[n + 1]  OBVIOUS
  <2>3. /\ hs \in Seq(Frame) /\ Len(hs) = Len(frames) + 1 /\ hs[Len(frames) + 1] = f
        /\ \A k \in 1 .. Len(frames) : AbsScope(hs[k]) = AbsScope(frames[k])
    BY <1>1, <1>3, <2>1, <2>2
  <2>4. f \in Frame
    <3>1. Len(frames) + 1 \in 1 .. Len(hs)  BY <1>3, <2>3
    <3> QED BY ONLY <2>3, <3>1
  <2>5. ScopesOf(hs) = Append(ScopesOf(frames), AbsScope(f))
    BY ONLY <1>3, <2>3, <2>4, ScopesPush
  <2>6. AbsScopes = ScopesOf(frames) /\ AbsScopes' = ScopesOf(hs)
    BY <2>1 DEF AbsScopes, ScopesOf, AbsScope
  <2> QED BY <1>1, <2>1, <2>2, <2>5, <2>6
<1>9. ASSUME NEW l \in Lanes
      PROVE  AbsWithin'[l] = IF l \in Scalar!Running \cap c THEN AbsWithin[l] \cup {n + 1}
                             ELSE AbsWithin[l] \ {n}
  <2>1. AbsWithin[l] = {k \in 1 .. n : l \in live \cap Inside(frames, k)}
    BY <1>3
  <2>2. AbsWithin'[l] = {k \in 1 .. n + 1 : l \in live \cap Inside(frames', k)}
    BY <1>2, <1>6 DEF AbsWithin
  <2>3. \A k : k \in 1 .. n + 1 <=> k \in 1 .. n - 1 \/ k = n \/ k = n + 1
    BY <1>1, <1>3
  <2>4. \A k : k \in 1 .. n <=> k \in 1 .. n - 1 \/ k = n
    BY <1>1, <1>3
  <2>5. n \notin 1 .. n - 1 /\ n + 1 \notin 1 .. n  BY <1>3
  <2>6. CASE l \in live \cap na
    <3>1. n \in AbsWithin[l] /\ n \in AbsWithin'[l] /\ n + 1 \in AbsWithin'[l]
      BY <1>1, <1>4, <1>7, <2>1, <2>2, <2>3, <2>4, <2>6
    <3>2. \A k \in 1 .. n - 1 : k \in AbsWithin'[l] <=> k \in AbsWithin[l]
      BY <1>1, <2>1, <2>2, <2>3, <2>4
    <3> QED BY <1>5, <2>1, <2>2, <2>3, <2>4, <2>5, <2>6, <3>1, <3>2
  <2>7. CASE l \notin live \cap na
    <3>1. n \notin AbsWithin'[l] /\ n + 1 \notin AbsWithin'[l]
      BY <1>1, <2>2, <2>7
    <3>2. \A k \in 1 .. n - 1 : k \in AbsWithin'[l] <=> k \in AbsWithin[l]
      BY <1>1, <2>1, <2>2, <2>3, <2>4
    <3> QED BY <1>5, <2>1, <2>2, <2>3, <2>4, <2>5, <2>7, <3>1, <3>2
  <2> QED BY <2>6, <2>7
<1>10. AbsWithin' = [l \in Lanes |-> IF l \in Scalar!Running \cap c THEN AbsWithin[l] \cup {n + 1}
                                     ELSE AbsWithin[l] \ {n}]
  <2>1. AbsWithin' = [l \in Lanes |-> AbsWithin'[l]]  BY DEF AbsWithin
  <2> QED BY <1>9, <2>1
<1> QED BY <1>2, <1>3, <1>8, <1>10 DEF Scalar!Iterate

(* em_ names the iteration of the loop that a break or a continue belongs to. *)
LEMMA InnermostIsEm ==
  ASSUME IInv, em # 0
  PROVE  Scalar!InLoop /\ Scalar!InnermostLoop = em - 1
<1>1. /\ em \in Nat /\ em \in 0 .. Len(frames) /\ Len(frames) \in Nat /\ frames \in Seq(Frame)
      /\ DOMAIN frames = 1 .. Len(frames) /\ em = PtrAt(frames, Len(frames))
      /\ WellFormed(frames)
  BY AbsFacts DEF IInv, TypeOK, MaskInv
<1>2. Len(frames) \in DOMAIN frames  BY <1>1
<1>3. /\ frames[em].kind = "body"
      /\ \A i \in em + 1 .. Len(frames) : frames[i].kind \in Arms
  BY <1>1, <1>2 DEF WellFormed, PointersInnermost
<1>4. em > 1 /\ frames[em - 1].kind = "loop"
  BY <1>1, <1>3 DEF WellFormed, Linked
<1> DEFINE IsInner(k) == /\ k \in DOMAIN AbsScopes /\ AbsScopes[k].kind = "loop"
                         /\ \A j \in DOMAIN AbsScopes : AbsScopes[j].kind = "loop" => j <= k
<1>5. \A k \in 1 .. Len(frames) : AbsScopes[k].kind = ScopeOf(frames[k].kind)
  BY AbsFacts DEF AbsScope
<1>6. DOMAIN AbsScopes = 1 .. Len(frames)  BY AbsFacts
<1>7. IsInner(em - 1)
  <2>1. em - 1 \in 1 .. Len(frames) /\ AbsScopes[em - 1].kind = "loop"
    BY <1>1, <1>4, <1>5 DEF ScopeOf
  <2>2. ASSUME NEW j \in 1 .. Len(frames), AbsScopes[j].kind = "loop" PROVE j <= em - 1
    <3>1. ScopeOf(frames[j].kind) = "loop"  BY <1>5, <2>2
    <3>2. j # em  BY <1>3, <3>1 DEF ScopeOf
    <3>3. j \notin em + 1 .. Len(frames)  BY <1>3, <3>1 DEF ScopeOf, Arms
    <3> QED BY <1>1, <3>2, <3>3
  <2> QED BY <1>6, <2>1, <2>2
<1>8. ASSUME NEW k, IsInner(k) PROVE k = em - 1
  <2>1. k \in 1 .. Len(frames) /\ em - 1 <= k /\ k <= em - 1
    BY <1>6, <1>7, <1>8
  <2> QED BY <1>1, <2>1
<1>9. (CHOOSE k : IsInner(k)) = em - 1
  <2> HIDE DEF IsInner
  <2> QED BY <1>7, <1>8
<1>10. Scalar!InnermostLoop = CHOOSE k : IsInner(k)
  BY DEF Scalar!InnermostLoop
<1>11. Scalar!InLoop  BY <1>7 DEF Scalar!InLoop
<1> QED BY <1>9, <1>10, <1>11

(* The scopes stay open; the lanes that ran leave those above the loop, a
   break's the loop too. *)
LEMMA ExitWithin ==
  ASSUME IInv, NEW b \in {em - 1, em}, IF b = em THEN ContinueStmt ELSE BreakStmt
  PROVE  /\ AbsScopes' = AbsScopes
         /\ AbsWithin' = [l \in Lanes |-> IF l \in Scalar!Running THEN 1 .. b - 1
                                                                  ELSE AbsWithin[l]]
<1>1. /\ em \in 1 .. Len(frames)
      /\ Cleared(frames, frames', b, em, Eff) /\ Exited(frames, frames', b, em, Eff)
  BY ExitFrames
<1> DEFINE n == Len(frames)
           e == em
<1>2. /\ n \in Nat /\ e \in 1 .. n /\ e \in Nat /\ frames \in Seq(Frame) /\ live \in SUBSET Lanes
      /\ (b = e \/ b = e - 1) /\ e # e - 1
      /\ \A l \in Lanes : AbsWithin[l] = {k \in 1 .. n : l \in live \cap Inside(frames, k)}
  BY <1>1, AbsFacts
<1>3. live' = live /\ frames # <<>>
  BY <1>2 DEF BreakStmt, ContinueStmt
<1>4. Scalar!Running = live \cap Eff  BY RunningIsEff
<1> HIDE DEF n, e
<1>5. PICK hs : hs = frames'
  OBVIOUS
<1>6. /\ hs \in Seq(Frame) /\ Len(hs) = n
      /\ \A k \in 1 .. n : hs[k].kind = frames[k].kind
      /\ \A k \in 1 .. n : hs[k].cond = frames[k].cond
  BY <1>1, <1>5 DEF Cleared, n
<1>7. DOMAIN hs = 1 .. n  BY ONLY <1>6, LenProperties
<1>8. AbsScopes' = AbsScopes
  <2>1. AbsScopes' = [k \in 1 .. n |-> AbsScope(hs[k])]
    BY <1>5, <1>6 DEF AbsScopes, AbsScope
  <2>2. AbsScopes = [k \in 1 .. n |-> AbsScope(frames[k])]
    BY DEF AbsScopes, AbsScope, n
  <2>3. \A k \in 1 .. n : AbsScope(hs[k]) = AbsScope(frames[k])
    BY <1>6 DEF AbsScope
  <2> QED BY <2>1, <2>2, <2>3
<1>9. \A k \in 1 .. n : Eff \subseteq Inside(frames, k)
  <2>1. \A k \in DOMAIN frames : Eff \subseteq Inside(frames, k)  BY EffInsideAll
  <2> QED BY <1>2, <2>1 DEF n
<1>10. /\ \A k \in 1 .. n : k >= b => Inside(hs, k) = Inside(frames, k) \ Eff
       /\ \A k \in 1 .. n : k < b => Inside(hs, k) = Inside(frames, k)
  <2>1. /\ e > 1 /\ \A k \in 1 .. n : k >= e => Inside(hs, k) = Inside(frames, k) \ Eff
        /\ \A k \in 1 .. n : k < e - 1 => Inside(hs, k) = Inside(frames, k)
        /\ Inside(hs, e - 1) = IF b = e THEN Inside(frames, e - 1) ELSE Inside(frames, e - 1) \ Eff
    BY <1>1, <1>5 DEF Exited, e, n
  <2> QED BY ONLY <1>2, <2>1
<1>11. ASSUME NEW l \in Lanes
       PROVE  AbsWithin'[l] = IF l \in Scalar!Running THEN 1 .. b - 1 ELSE AbsWithin[l]
  <2>1. AbsWithin[l] = {k \in 1 .. n : l \in live \cap Inside(frames, k)}
    BY <1>2
  <2>2. AbsWithin'[l] = {k \in 1 .. n : l \in live \cap Inside(hs, k)}
    BY <1>3, <1>5, <1>7 DEF AbsWithin
  <2>3. CASE l \in live \cap Eff
    <3>1. \A k \in 1 .. n : l \in Inside(hs, k) <=> k < b  BY <1>2, <1>9, <1>10, <2>3
    <3>2. \A k : k \in 1 .. b - 1 <=> k \in 1 .. n /\ k < b  BY <1>2
    <3> QED BY <1>4, <2>2, <2>3, <3>1, <3>2
  <2>4. CASE l \notin live \cap Eff
    <3>1. \A k \in 1 .. n : l \in live \cap Inside(hs, k) <=> l \in live \cap Inside(frames, k)
      <4>1. \A k \in 1 .. n : k >= b \/ k < b  BY <1>2
      <4> QED BY <1>10, <2>4, <4>1
    <3> QED BY <1>4, <2>1, <2>2, <2>4, <3>1
  <2> QED BY <2>3, <2>4
<1>12. AbsWithin' = [l \in Lanes |-> AbsWithin'[l]]
  BY DEF AbsWithin
<1> QED BY <1>8, <1>11, <1>12

LEMMA ExitMaps ==
  ASSUME IInv
  PROVE  (BreakStmt => Scalar!BreakStmt) /\ (ContinueStmt => Scalar!ContinueStmt)
<1>1. em \in Nat /\ em # em - 1  BY AbsFacts
<1>2. ASSUME BreakStmt PROVE Scalar!BreakStmt
  <2>1. AtStatement /\ em # 0 /\ live' = live /\ stmt' = "break"  BY <1>2 DEF BreakStmt
  <2>2. Scalar!InLoop /\ Scalar!InnermostLoop = em - 1  BY <2>1, InnermostIsEm
  <2>3. /\ AbsScopes' = AbsScopes
        /\ AbsWithin' = [l \in Lanes |-> IF l \in Scalar!Running THEN 1 .. em - 1 - 1
                                                                 ELSE AbsWithin[l]]
    <3>1. PICK b \in {em - 1, em} : b = em - 1  OBVIOUS
    <3>2. IF b = em THEN ContinueStmt ELSE BreakStmt  BY <1>1, <1>2, <3>1
    <3>3. /\ AbsScopes' = AbsScopes
          /\ AbsWithin' = [l \in Lanes |-> IF l \in Scalar!Running THEN 1 .. b - 1
                                                                   ELSE AbsWithin[l]]
      BY <3>2, ExitWithin
    <3> QED BY <3>1, <3>3
  <2> QED BY <2>1, <2>2, <2>3, StatementMaps DEF Scalar!BreakStmt
<1>3. ASSUME ContinueStmt PROVE Scalar!ContinueStmt
  <2>1. AtStatement /\ em # 0 /\ live' = live /\ stmt' = "continue"  BY <1>3 DEF ContinueStmt
  <2>2. Scalar!InLoop /\ Scalar!InnermostLoop = em - 1  BY <2>1, InnermostIsEm
  <2>3. /\ AbsScopes' = AbsScopes
        /\ AbsWithin' = [l \in Lanes |-> IF l \in Scalar!Running THEN 1 .. em - 1
                                                                 ELSE AbsWithin[l]]
    <3>1. PICK b \in {em - 1, em} : b = em  OBVIOUS
    <3>2. IF b = em THEN ContinueStmt ELSE BreakStmt  BY <1>3, <3>1
    <3>3. /\ AbsScopes' = AbsScopes
          /\ AbsWithin' = [l \in Lanes |-> IF l \in Scalar!Running THEN 1 .. b - 1
                                                                   ELSE AbsWithin[l]]
      BY <3>2, ExitWithin
    <3> QED BY <3>1, <3>3
  <2> QED BY <2>1, <2>2, <2>3, StatementMaps DEF Scalar!ContinueStmt
<1> QED BY <1>2, <1>3

(* Every step of the masked code is a step of the scalar code or leaves the
   lanes where they are. *)
LEMMA StepMaps ==
  ASSUME ~ExitsBeforeLoop, IInv, TakenInv, [Next]_vars
  PROVE  [Scalar!Next]_Scalar!scalarVars
<1>1. ASSUME NEW c \in SUBSET Lanes, IfThen(c) PROVE Scalar!Next
  BY <1>1, IfThenMaps DEF Scalar!Next
<1>2. ASSUME NEW c \in SUBSET Lanes, StartBody(c) PROVE Scalar!Next
  BY <1>2, StartBodyMaps DEF Scalar!Next
<1>3. CASE IfElse
  BY <1>3, IfElseMaps DEF Scalar!Next
<1>4. CASE EnterLoop \/ EnterUniformLoop
  BY <1>4, EnterLoopMaps DEF Scalar!Next
<1>5. CASE StartUniformBody
  BY <1>5, StartUniformBodyMaps DEF Scalar!Next
<1>6. CASE EndIf
  BY <1>6, CloseMaps DEF Scalar!Next
<1>7. CASE EndBody \/ EndUniformBody
  BY <1>7, CloseMaps DEF Scalar!Next
<1>8. CASE ExitUniformLoop \/ \E c \in SUBSET Lanes : ExitLoop(c)
  BY <1>8, CloseMaps DEF Scalar!Next
<1>9. CASE BreakStmt \/ ContinueStmt
  BY <1>9, ExitMaps DEF Scalar!Next
<1>10. CASE DiscardStmt
  BY <1>10, DiscardMaps DEF Scalar!Next
<1>11. CASE UNCHANGED vars
  BY <1>11 DEF vars, AbsScopes, AbsWithin, Inside, EffOf, Scalar!scalarVars
<1> QED BY <1>1, <1>2, <1>3, <1>4, <1>5, <1>6, <1>7, <1>8, <1>9, <1>10, <1>11 DEF Next

(* The masked code of a packet runs every live lane through exactly the
   statements of the scalar code, in the same order, for any number of lanes
   and any nesting, when no lane has left the iteration that a nested masked
   loop is entered in. *)
THEOREM PacketImplementsScalar ==
  ASSUME ~ExitsBeforeLoop
  PROVE  Spec => ImplementsScalar
<1>1. Init => Scalar!Init
  BY InitMaps
<1>2. Init => TakenInv
  BY DEF Init, TakenInv
<1>3. IInv /\ TakenInv /\ [Next]_vars => TakenInv'
  BY TakenStep
<1>4. IInv /\ TakenInv /\ [Next]_vars => [Scalar!Next]_Scalar!scalarVars
  BY StepMaps
<1>5. Spec => []IInv
  BY InductiveInvariant
<1>6. Spec => Scalar!Spec
  BY <1>1, <1>2, <1>3, <1>4, <1>5, PTL DEF Spec, Scalar!Spec
<1> QED BY <1>6 DEF ImplementsScalar
=============================================================================
