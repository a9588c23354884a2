-------------------------- MODULE TileRasterProofs --------------------------
(***************************************************************************)
(* The invariants of TileRaster, for every framebuffer and tile size,      *)
(* packet width, number of threads and scene:                              *)
(*                                                                         *)
(*   NoRace          threads never touch the same pixel                    *)
(*   VerticesShaded  a vertex is shaded before it is read                  *)
(*   RasterTypes     the state keeps to its types                          *)
(*   RasterImplementsInOrder   the rasterizer implements InOrderRaster     *)
(*   PictureInOrder  a finished picture is that of submission order        *)
(*                                                                         *)
(* They are parts of one inductive invariant, RasterInv.  Its parts        *)
(* BinInv, that the bins hold the triangles of a tile in the order of      *)
(* submission, and ScanInv, that a thread's work is the scan of the tile   *)
(* in its hands, carry the proof of the refinement.  What a pixel shows    *)
(* then follows from the abstract steps (PictureInv).                      *)
(***************************************************************************)
EXTENDS TileRaster, SequenceTheorems, FiniteSetTheorems, TLAPS

(* Tiles partition the framebuffer: a pixel lies in one tile only. *)
LEMMA SameSlot ==
  ASSUME NEW T \in Nat \ {0}, NEW a \in Nat, NEW b \in Nat, NEW x \in Nat,
         x >= a * T, x < a * T + T, x >= b * T, x < b * T + T
  PROVE  a = b
<1>1. ASSUME NEW c \in Nat, NEW d \in Nat, c < d PROVE c * T + T <= d * T
  <2>1. PICK k \in Nat : d = c + 1 + k
    <3>1. d - c - 1 \in Nat /\ d = c + 1 + (d - c - 1)
      BY <1>1
    <3> QED BY <3>1
  <2>2. d * T = c * T + T + k * T /\ k * T >= 0
    BY <2>1
  <2> QED BY <2>2
<1>2. ~(a < b)
  BY <1>1
<1>3. ~(b < a)
  BY <1>1
<1> QED BY <1>2, <1>3

LEMMA TilesDisjoint ==
  ASSUME NEW t \in Tiles, NEW u \in Tiles, NEW p \in Pixels,
         InTile(t, p), InTile(u, p)
  PROVE  t = u
<1>1. /\ W \in Nat \ {0} /\ H \in Nat \ {0} /\ TILE \in Nat \ {0}
      /\ t \in Int /\ u \in Int /\ p \in Int
  BY SizeAssumption DEF Tiles, Pixels
<1>2. TILES_X \in Nat \ {0}
  <2>1. W + TILE - 1 >= TILE /\ W + TILE - 1 \in Nat
    BY <1>1
  <2> QED BY <1>1, <2>1 DEF TILES_X
<1>3. t >= 0 /\ u >= 0
  BY DEF Tiles
<1> DEFINE tx == t % TILES_X
           ty == t \div TILES_X
           ux == u % TILES_X
           uy == u \div TILES_X
<1>4. tx \in Nat /\ ty \in Nat /\ ux \in Nat /\ uy \in Nat
  BY <1>1, <1>2, <1>3
<1>5. t = TILES_X * ty + tx /\ u = TILES_X * uy + ux
  BY <1>1, <1>2, <1>3
<1>6. X(p) \in Nat /\ Y(p) \in Nat
  BY <1>1 DEF X, Y, Pixels
<1>7. /\ X(p) >= tx * TILE /\ X(p) < tx * TILE + TILE
      /\ Y(p) >= ty * TILE /\ Y(p) < ty * TILE + TILE
      /\ X(p) >= ux * TILE /\ X(p) < ux * TILE + TILE
      /\ Y(p) >= uy * TILE /\ Y(p) < uy * TILE + TILE
  <2>1. \A s \in Nat : s * TILE \in Int
    BY <1>1
  <2> HIDE DEF tx, ty, ux, uy
  <2> QED BY <1>1, <1>4, <1>6, <2>1 DEF InTile, Minimum, tx, ty, ux, uy
<1> HIDE DEF tx, ty, ux, uy
<1>8. tx = ux /\ ty = uy
  BY <1>1, <1>4, <1>6, <1>7, SameSlot
<1> QED BY <1>5, <1>8
----------------------------------------------------------------------------
(* Inductive strengthening of NoSharedPixel: a tile is in one thread's hands,
   and a thread's pixels are its tile's. *)
InHand(th, p) == tile[th] # NoTile /\ InTile(tile[th], p)

RaceTypes ==
  /\ untaken \subseteq Tiles
  /\ tile \in [Threads -> Tiles \cup {NoTile}]
  /\ work = [th \in Threads |-> work[th]] /\ batch = [th \in Threads |-> batch[th]]
  /\ \A th \in Threads : \A f \in work[th] : f.pix \in Pixels /\ f.tri \in Int
  /\ \A th \in Threads : batch[th] \in Seq([tri : Int, pix : Pixels])

OneOwner ==
  /\ phase # "raster" => \A th \in Threads : tile[th] = NoTile
  /\ \A th \in Threads : tile[th] \notin untaken
  /\ \A th, other \in Threads :
       th # other /\ tile[th] # NoTile => tile[th] # tile[other]

OwnPixels ==
  \A th \in Threads :
    /\ \A f \in work[th] : InHand(th, f.pix)
    /\ \A n \in DOMAIN batch[th] : InHand(th, batch[th][n].pix)

RaceInv == RaceTypes /\ OneOwner /\ OwnPixels

LEMMA NoTileIsNone == NoTile \notin Tiles
BY DEF NoTile, Tiles

LEMMA RaceInit == Init => RaceInv
<1> SUFFICES ASSUME Init PROVE RaceInv
  OBVIOUS
<1>1. RaceTypes
  BY DEF Init, RaceTypes
<1>2. OneOwner
  BY DEF Init, OneOwner
<1>3. OwnPixels
  BY DEF Init, OwnPixels
<1> QED BY <1>1, <1>2, <1>3 DEF RaceInv

LEMMA NothingInHand ==
  ASSUME RaceInv, NEW th \in Threads, tile[th] = NoTile
  PROVE  work[th] = {} /\ batch[th] = <<>>
<1>1. work[th] = {}
  BY DEF RaceInv, OwnPixels, InHand
<1>2. DOMAIN batch[th] = {} /\ batch[th] \in Seq([tri : Int, pix : Pixels])
  BY DEF RaceInv, RaceTypes, OwnPixels, InHand
<1>3. Len(batch[th]) = 0
  <2>1. Len(batch[th]) \in Nat /\ DOMAIN batch[th] = 1 .. Len(batch[th])
    BY <1>2, LenProperties
  <2>2. ~(1 \in 1 .. Len(batch[th]))
    BY <1>2, <2>1
  <2> QED BY <2>1, <2>2
<1>4. batch[th] = <<>>
  BY <1>2, <1>3, EmptySeq
<1> QED BY <1>1, <1>4

LEMMA StartRasterRace == RaceInv /\ StartRaster => RaceInv'
<1> SUFFICES ASSUME RaceInv, StartRaster PROVE RaceInv'
  OBVIOUS
<1>1. /\ \A th \in Threads : tile[th] = NoTile
      /\ tile' = tile /\ work' = work /\ batch' = batch /\ untaken' = Tiles
  BY DEF StartRaster, RaceInv, OneOwner
<1>2. RaceTypes'
  BY <1>1 DEF RaceInv, RaceTypes
<1>3. OneOwner'
  BY <1>1, NoTileIsNone DEF OneOwner
<1>4. OwnPixels'
  BY <1>1 DEF RaceInv, OwnPixels, InHand
<1> QED BY <1>2, <1>3, <1>4 DEF RaceInv

LEMMA TakeTileRace ==
  ASSUME RaceInv, NEW th \in Threads, TakeTile(th)
  PROVE  RaceInv'
<1>1. PICK t \in untaken :
        /\ untaken' = untaken \ {t}
        /\ tile' = [tile EXCEPT ![th] = t]
        /\ work' = [work EXCEPT ![th] = TileScan(t)]
  BY DEF TakeTile
<1>2. phase' = "raster" /\ batch' = batch /\ tile[th] = NoTile
  BY DEF TakeTile
<1>3. t \in Tiles /\ t # NoTile
  BY NoTileIsNone DEF RaceInv, RaceTypes
<1>4. batch[th] = <<>>
  BY <1>2, NothingInHand
<1>5. \A f \in TileScan(t) : f.pix \in Pixels /\ f.tri \in Int /\ InTile(t, f.pix)
  BY DEF TileScan, Places
<1>6. /\ tile'[th] = t /\ work'[th] = TileScan(t)
      /\ \A o \in Threads : o # th => tile'[o] = tile[o] /\ work'[o] = work[o]
  BY <1>1 DEF RaceInv, RaceTypes
<1>7. RaceTypes'
  <2>1. untaken' \subseteq Tiles /\ tile' \in [Threads -> Tiles \cup {NoTile}]
    BY <1>1, <1>3 DEF RaceInv, RaceTypes
  <2>2. work' = [o \in Threads |-> work'[o]] /\ batch' = [o \in Threads |-> batch'[o]]
    BY <1>1, <1>2 DEF RaceInv, RaceTypes
  <2>3. \A o \in Threads : \A f \in work'[o] : f.pix \in Pixels /\ f.tri \in Int
    BY <1>5, <1>6 DEF RaceInv, RaceTypes
  <2> QED BY <1>2, <2>1, <2>2, <2>3 DEF RaceInv, RaceTypes
<1>8. OneOwner'
  BY <1>1, <1>2, <1>3, <1>6 DEF RaceInv, OneOwner
<1>9. OwnPixels'
  <2> SUFFICES ASSUME NEW o \in Threads
               PROVE  /\ \A f \in work'[o] : InHand(o, f.pix)'
                      /\ \A n \in DOMAIN batch'[o] : InHand(o, batch[o][n].pix)'
    BY DEF OwnPixels
  <2>1. CASE o = th
    <3>1. DOMAIN batch'[o] = {}
      BY <1>2, <1>4, <2>1
    <3>2. \A f \in work'[o] : InHand(o, f.pix)'
      BY <1>3, <1>5, <1>6, <2>1 DEF InHand
    <3> QED BY <3>1, <3>2
  <2>2. CASE o # th
    BY <1>2, <1>6, <2>2 DEF RaceInv, OwnPixels, InHand
  <2> QED BY <2>1, <2>2
<1> QED BY <1>7, <1>8, <1>9 DEF RaceInv

(* The scan passes fragment f, which may end up in the batch. *)
LEMMA FragmentRace ==
  ASSUME RaceInv, NEW th \in Threads, NEW f \in work[th],
         SkipFragment(th, f) \/ ShadeFragment(th, f)
  PROVE  RaceInv'
<1>1. /\ untaken' = untaken /\ tile' = tile /\ phase' = phase
      /\ work' = [work EXCEPT ![th] = @ \ {f}]
  BY DEF SkipFragment, ShadeFragment
<1> DEFINE b == [tri |-> f.tri, pix |-> f.pix]
<1>2. \/ batch' = batch
      \/ batch' = [batch EXCEPT ![th] = Append(batch[th], b)]
      \/ batch' = [batch EXCEPT ![th] = <<>>]
  BY DEF SkipFragment, ShadeFragment
<1>3. /\ DOMAIN work = Threads /\ DOMAIN batch = Threads
      /\ \A o \in Threads : batch[o] \in Seq([tri : Int, pix : Pixels])
  BY DEF RaceInv, RaceTypes
<1>4. /\ DOMAIN work' = Threads
      /\ \A o \in Threads : work'[o] \subseteq work[o]
  BY <1>1, <1>3
<1>5. f.pix \in Pixels /\ InHand(th, f.pix)
  BY DEF RaceInv, RaceTypes, OwnPixels
<1>6. \A o \in Threads : \A p : InHand(o, p)' = InHand(o, p)
  BY <1>1 DEF InHand
<1>7. \A o \in Threads :
        /\ batch'[o] \in Seq([tri : Int, pix : Pixels])
        /\ \A n \in DOMAIN batch'[o] : InHand(o, batch'[o][n].pix)
  <2> SUFFICES ASSUME NEW o \in Threads
               PROVE  /\ batch'[o] \in Seq([tri : Int, pix : Pixels])
                      /\ \A n \in DOMAIN batch'[o] : InHand(o, batch'[o][n].pix)
    OBVIOUS
  <2>1. \A n \in DOMAIN batch[o] : InHand(o, batch[o][n].pix)
    BY DEF RaceInv, OwnPixels
  <2>2. CASE batch'[o] = batch[o]
    BY <1>3, <2>1, <2>2
  <2>3. CASE o = th /\ batch'[o] = Append(batch[o], b)
    <3>1. b \in [tri : Int, pix : Pixels] /\ b.pix = f.pix
      BY <1>5 DEF RaceInv, RaceTypes
    <3> HIDE DEF b
    <3>2. /\ batch'[o] \in Seq([tri : Int, pix : Pixels])
          /\ Len(batch'[o]) = Len(batch[o]) + 1
          /\ batch'[o][Len(batch[o]) + 1] = b
          /\ \A n \in 1 .. Len(batch[o]) : batch'[o][n] = batch[o][n]
      <4>1. batch[o] \in Seq([tri : Int, pix : Pixels])
        BY <1>3
      <4> QED BY ONLY <2>3, <3>1, <4>1, AppendProperties
    <3>3. DOMAIN batch'[o] = 1 .. Len(batch[o]) + 1 /\ DOMAIN batch[o] = 1 .. Len(batch[o])
      BY <1>3, <3>2
    <3>4. ASSUME NEW n \in DOMAIN batch'[o] PROVE InHand(o, batch'[o][n].pix)
      <4>1. CASE n \in 1 .. Len(batch[o])
        BY <2>1, <3>2, <3>3, <4>1
      <4>2. CASE n = Len(batch[o]) + 1
        BY <1>5, <2>3, <3>1, <3>2, <4>2
      <4> QED BY <1>3, <3>3, <4>1, <4>2
    <3> QED BY <3>2, <3>4
  <2>4. CASE batch'[o] = <<>>
    BY <2>4
  <2> HIDE DEF b
  <2> QED BY <1>2, <1>3, <2>2, <2>3, <2>4
<1>8. RaceTypes'
  <2>1. work' = [o \in Threads |-> work'[o]] /\ batch' = [o \in Threads |-> batch'[o]]
    BY <1>1, <1>2 DEF RaceInv, RaceTypes
  <2> QED BY <1>1, <1>4, <1>7, <2>1 DEF RaceInv, RaceTypes
<1>9. OneOwner'
  BY <1>1 DEF RaceInv, OneOwner
<1>10. OwnPixels'
  <2>1. \A o \in Threads : \A g \in work'[o] : InHand(o, g.pix)'
    BY <1>4, <1>6 DEF RaceInv, OwnPixels
  <2>2. \A o \in Threads : \A n \in DOMAIN batch'[o] : InHand(o, batch[o][n].pix)'
    BY <1>1, <1>7 DEF InHand
  <2> QED BY <2>1, <2>2 DEF OwnPixels
<1> QED BY <1>8, <1>9, <1>10 DEF RaceInv

LEMMA EndTileRace ==
  ASSUME RaceInv, NEW th \in Threads, EndTile(th)
  PROVE  RaceInv'
<1>1. /\ phase' = phase /\ untaken' = untaken /\ work' = work /\ work[th] = {}
      /\ batch' = [batch EXCEPT ![th] = <<>>]
      /\ tile' = [tile EXCEPT ![th] = NoTile]
  BY DEF EndTile
<1>2. /\ batch'[th] = <<>> /\ tile'[th] = NoTile
      /\ \A o \in Threads : o # th => batch'[o] = batch[o] /\ tile'[o] = tile[o]
      /\ DOMAIN batch' = Threads
  BY <1>1 DEF RaceInv, RaceTypes
<1>3. RaceTypes'
  <2>1. tile' \in [Threads -> Tiles \cup {NoTile}]
    BY <1>1 DEF RaceInv, RaceTypes
  <2>2. ASSUME NEW o \in Threads
        PROVE  batch'[o] \in Seq([tri : Int, pix : Pixels])
    <3>1. CASE o = th
      BY <1>2, <3>1, EmptySeq
    <3>2. CASE o # th
      <4>1. batch'[o] = batch[o]
        BY <1>2, <3>2
      <4> QED BY <4>1 DEF RaceInv, RaceTypes
    <3> QED BY <3>1, <3>2
  <2> QED BY <1>1, <1>2, <2>1, <2>2 DEF RaceInv, RaceTypes
<1>4. OneOwner'
  <2>1. NoTile \notin untaken
    BY NoTileIsNone DEF RaceInv, RaceTypes
  <2> QED BY <1>1, <1>2, <2>1 DEF RaceInv, OneOwner
<1>5. OwnPixels'
  <2> SUFFICES ASSUME NEW o \in Threads
               PROVE  /\ \A f \in work'[o] : InHand(o, f.pix)'
                      /\ \A n \in DOMAIN batch'[o] : InHand(o, batch[o][n].pix)'
    BY DEF OwnPixels
  <2>1. CASE o = th
    BY <1>1, <1>2, <2>1
  <2>2. CASE o # th
    BY <1>1, <1>2, <2>2 DEF RaceInv, OwnPixels, InHand
  <2> QED BY <2>1, <2>2
<1> QED BY <1>3, <1>4, <1>5 DEF RaceInv

(* The steps outside the raster pass, and its end. *)
LEMMA OtherRace ==
  ASSUME RaceInv, UNCHANGED rasterState,
         phase' = "raster" => phase = "raster",
         phase' = phase \/ (\A th \in Threads : tile[th] = NoTile)
  PROVE  RaceInv'
<1>1. untaken' = untaken /\ tile' = tile /\ work' = work /\ batch' = batch
  BY DEF rasterState
<1>2. RaceTypes'
  BY <1>1 DEF RaceInv, RaceTypes
<1>3. OneOwner'
  BY <1>1 DEF RaceInv, OneOwner
<1>4. OwnPixels'
  BY <1>1 DEF RaceInv, OwnPixels, InHand
<1> QED BY <1>2, <1>3, <1>4 DEF RaceInv

LEMMA RaceNext == RaceInv /\ [Next]_vars => RaceInv'
<1> SUFFICES ASSUME RaceInv, [Next]_vars PROVE RaceInv'
  OBVIOUS
<1>1. CASE BeginDraw
  <2>1. phase = "idle" /\ phase' = "vs" /\ UNCHANGED rasterState
    BY <1>1 DEF BeginDraw
  <2>2. \A th \in Threads : tile[th] = NoTile
    BY <2>1 DEF RaceInv, OneOwner
  <2> QED BY <2>1, <2>2, OtherRace
<1>2. CASE ClearBuffers
  <2>1. phase = "vs" /\ phase' = "bin" /\ UNCHANGED rasterState
    BY <1>2 DEF ClearBuffers
  <2>2. \A th \in Threads : tile[th] = NoTile
    BY <2>1 DEF RaceInv, OneOwner
  <2> QED BY <2>1, <2>2, OtherRace
<1>3. CASE StartRaster
  BY <1>3, StartRasterRace
<1>4. CASE EndDraw
  <2>1. phase' = "idle" /\ UNCHANGED rasterState
    BY <1>4 DEF EndDraw
  <2>2. \A th \in Threads : tile[th] = NoTile
    BY <1>4 DEF EndDraw, RasterDone
  <2> QED BY <2>1, <2>2, OtherRace
<1>5. CASE \E th \in Threads : ShadeVertices(th) \/ BinTriangle(th)
  <2>1. phase' = phase /\ UNCHANGED rasterState
    BY <1>5 DEF ShadeVertices, BinTriangle
  <2> QED BY <2>1, OtherRace
<1>6. CASE \E th \in Threads : TakeTile(th)
  BY <1>6, TakeTileRace
<1>7. CASE \E th \in Threads : EndTile(th)
  BY <1>7, EndTileRace
<1>8. CASE \E th \in Threads : \E f \in work[th] :
             SkipFragment(th, f) \/ ShadeFragment(th, f)
  BY <1>8, FragmentRace
<1>9. CASE UNCHANGED vars
  <2>1. phase' = phase /\ UNCHANGED rasterState
    BY <1>9 DEF vars, rasterState
  <2> QED BY <2>1, OtherRace
<1> QED BY <1>1, <1>2, <1>3, <1>4, <1>5, <1>6, <1>7, <1>8, <1>9
        DEF Next, MasterStep, ThreadStep

(* The threads of the raster pass never touch the same pixel of the framebuffer
   or of the depth buffer, not even through a batch that is still to be flushed:
   the unsynchronised writes of the raster loop do not race. *)
THEOREM NoRace == Spec => []NoSharedPixel
<1>1. Init => RaceInv
  BY RaceInit
<1>2. RaceInv /\ [Next]_vars => RaceInv'
  BY RaceNext
<1>3. RaceInv => NoSharedPixel
  <2> SUFFICES ASSUME RaceInv, NEW th \in Threads, NEW other \in Threads, th # other,
                      NEW p \in Touching(th), p \in Touching(other)
               PROVE  FALSE
    BY DEF NoSharedPixel
  <2>1. \A o \in Threads : \A q \in Touching(o) :
          q \in Pixels /\ tile[o] \in Tiles /\ InTile(tile[o], q)
    <3> SUFFICES ASSUME NEW o \in Threads, NEW q \in Touching(o)
                 PROVE  q \in Pixels /\ InHand(o, q)
      BY DEF InHand, RaceInv, RaceTypes
    <3>1. CASE \E f \in work[o] : q = f.pix
      BY <3>1 DEF RaceInv, RaceTypes, OwnPixels
    <3>2. CASE \E n \in DOMAIN batch[o] : q = batch[o][n].pix
      <4>1. PICK n \in DOMAIN batch[o] : q = batch[o][n].pix
        BY <3>2
      <4>2. batch[o] \in Seq([tri : Int, pix : Pixels])
        BY DEF RaceInv, RaceTypes
      <4>3. batch[o][n] \in [tri : Int, pix : Pixels]
        <5>1. n \in 1 .. Len(batch[o])
          BY <4>1, <4>2, LenProperties
        <5> QED BY <4>2, <5>1, ElementOfSeq
      <4>4. InHand(o, q)
        BY <4>1 DEF RaceInv, OwnPixels
      <4>5. batch[o][n].pix \in Pixels
        BY <4>3
      <4> QED BY <4>1, <4>4, <4>5
    <3> QED BY <3>1, <3>2 DEF Touching
  <2>2. tile[th] = tile[other]
    BY <2>1, TilesDisjoint
  <2> QED BY <2>1, <2>2, NoTileIsNone DEF RaceInv, OneOwner
<1> QED BY <1>1, <1>2, <1>3, PTL DEF Spec

----------------------------------------------------------------------------
(* A set of naturals has a least element, a bounded one a greatest. *)
LEMMA LeastNat ==
  ASSUME NEW S \in SUBSET Nat, S # {}
  PROVE  \E m \in S : \A k \in S : m <= k
<1> DEFINE T == {0 .. n : n \in S}
<1>1. ASSUME NEW n \in S PROVE 0 .. n \in FiniteSubsetsOf(Nat)
  <2>1. IsFiniteSet(0 .. n)  BY FS_Interval
  <2> QED BY <2>1 DEF FiniteSubsetsOf
<1>2. T \subseteq FiniteSubsetsOf(Nat) /\ T # {}
  BY <1>1
<1>3. PICK x \in T : \A y \in T : ~ (<<y, x>> \in StrictSubsetOrdering(Nat))
  <2> HIDE DEF T
  <2> QED BY <1>2, WFMin, FS_StrictSubsetOrderingWellFounded
<1>4. PICK m \in S : x = 0 .. m
  BY <1>3
<1>5. ASSUME NEW k \in S, ~(m <= k) PROVE FALSE
  <2>1. 0 .. k \subseteq 0 .. m /\ m \in 0 .. m /\ m \notin 0 .. k
    BY <1>5
  <2>2. <<0 .. k, x>> \in StrictSubsetOrdering(Nat)
    <3>1. 0 .. k \in SUBSET Nat /\ x \in SUBSET Nat /\ 0 .. k \subseteq x /\ 0 .. k # x
      BY <1>4, <2>1
    <3> QED BY <3>1 DEF StrictSubsetOrdering
  <2>3. 0 .. k \in T
    OBVIOUS
  <2> QED BY <1>3, <2>2, <2>3
<1> QED BY <1>5

LEMMA MinNat ==
  ASSUME NEW S \in SUBSET Nat, S # {}
  PROVE  Min(S) \in S /\ \A k \in S : Min(S) <= k
<1>1. \E m \in S : \A k \in S : m <= k
  BY LeastNat
<1> QED BY <1>1 DEF Min

LEMMA MaxNat ==
  ASSUME NEW n \in Nat, NEW S \in SUBSET (1 .. n), S # {}
  PROVE  Max(S) \in S /\ \A k \in S : k <= Max(S)
<1> DEFINE T == {n - k : k \in S}
<1>1. T \in SUBSET Nat /\ T # {}
  <2>1. \A k \in S : n - k \in Nat
    OBVIOUS
  <2> QED BY <2>1
<1>2. PICK m \in T : \A k \in T : m <= k
  <2> HIDE DEF T
  <2> QED BY <1>1, LeastNat
<1>3. PICK x \in S : m = n - x
  BY <1>2
<1>4. \A k \in S : x >= k
  <2> SUFFICES ASSUME NEW k \in S PROVE x >= k
    OBVIOUS
  <2>1. n - k \in T
    OBVIOUS
  <2>2. m <= n - k
    BY <1>2, <2>1
  <2> QED BY <1>3, <2>2
<1>5. Max(S) \in S /\ \A k \in S : Max(S) >= k
  BY <1>4 DEF Max
<1> QED BY <1>5

(* The iterations of a static loop are divided among the threads: each has
   one, and the chunks ascend with the threads. *)
LEMMA SplitsCover ==
  ASSUME NEW n \in Nat, NEW s \in Splits(n)
  PROVE  /\ s \in [Threads -> Loops]
         /\ \A th \in Threads : s[th].lo <= s[th].hi /\ s[th].hi <= n
         /\ \A th, other \in Threads : th < other => s[th].hi <= s[other].lo
         /\ \A i \in 0 .. n - 1 : \E th \in Threads : i \in s[th].lo .. s[th].hi - 1
<1>1. PICK c \in [0 .. NumThreads -> 0 .. n] :
        /\ c[0] = 0 /\ c[NumThreads] = n
        /\ \A th \in Threads : c[th] <= c[th + 1]
        /\ s = [th \in Threads |-> [lo |-> c[th], hi |-> c[th + 1]]]
  BY DEF Splits
<1>2. /\ NumThreads \in Nat \ {0}
      /\ \A th \in Threads : th \in Nat /\ th \in 0 .. NumThreads /\ th + 1 \in 0 .. NumThreads
  BY SizeAssumption DEF Threads
<1>3. \A k \in 0 .. NumThreads : c[k] \in Nat /\ c[k] <= n
  BY <1>1
<1>4. \A th \in Threads : s[th] = [lo |-> c[th], hi |-> c[th + 1]]
  BY <1>1
<1>5. s \in [Threads -> Loops]
  BY <1>1, <1>2, <1>3 DEF Loops
<1>6. \A th \in Threads : s[th].lo <= s[th].hi /\ s[th].hi <= n
  BY <1>1, <1>2, <1>3, <1>4
<1>7. ASSUME NEW th \in Threads, NEW other \in Threads, th < other
      PROVE  c[th + 1] <= c[other]
  <2> DEFINE S == {k \in 0 .. NumThreads : k > th /\ c[k] < c[th + 1]}
  <2>1. CASE S = {}
    <3>1. other \in 0 .. NumThreads /\ other > th  BY <1>2, <1>7
    <3>2. ~(c[other] < c[th + 1])  BY <2>1, <3>1
    <3> QED BY <1>2, <1>3, <3>2
  <2>2. CASE S # {}
    <3>1. S \in SUBSET Nat  BY <1>2
    <3> HIDE DEF S
    <3>2. PICK m \in S : \A k \in S : m <= k  BY <2>2, <3>1, LeastNat
    <3>3. m \in 0 .. NumThreads /\ m > th /\ c[m] < c[th + 1]  BY <3>2 DEF S
    <3>4. m # th + 1  BY <1>2, <1>3, <3>3
    <3>5. m - 1 \in Threads /\ m - 1 \in 0 .. NumThreads /\ m - 1 > th /\ (m - 1) + 1 = m
      BY <1>2, <3>3, <3>4 DEF Threads
    <3>6. m - 1 \notin S
      <4>1. ~(m <= m - 1)  BY <3>3
      <4> QED BY <3>2, <4>1
    <3>7. ~(c[m - 1] < c[th + 1])  BY <3>5, <3>6 DEF S
    <3>8. c[m - 1] <= c[m]  BY <1>1, <3>5
    <3>9. c[m] \in Nat /\ c[m - 1] \in Nat /\ c[th + 1] \in Nat
      BY <1>2, <1>3, <3>3, <3>5
    <3>10. FALSE
      BY ONLY <3>3, <3>7, <3>8, <3>9
    <3> QED BY <3>10
  <2> QED BY <2>1, <2>2
<1>8. ASSUME NEW i \in 0 .. n - 1
      PROVE  \E th \in Threads : i \in c[th] .. c[th + 1] - 1
  <2> DEFINE S == {k \in 0 .. NumThreads : i < c[k]}
  <2>1. S \in SUBSET Nat /\ NumThreads \in S
    BY <1>1, <1>2
  <2> HIDE DEF S
  <2>2. PICK m \in S : \A k \in S : m <= k
    BY <2>1, LeastNat
  <2>3. m \in 0 .. NumThreads /\ i < c[m]  BY <2>2 DEF S
  <2>4. m # 0  BY <1>1, <2>3
  <2>5. m - 1 \in Threads /\ m - 1 \in 0 .. NumThreads /\ (m - 1) + 1 = m
    BY <1>2, <2>3, <2>4 DEF Threads
  <2>6. m - 1 \notin S
    <3>1. ~(m <= m - 1)  BY <2>3
    <3> QED BY <2>2, <3>1
  <2>7. ~(i < c[m - 1])  BY <2>5, <2>6 DEF S
  <2>8. i \in c[m - 1] .. c[(m - 1) + 1] - 1
    BY <1>3, <2>3, <2>5, <2>7
  <2> QED BY <2>5, <2>8
<1> QED BY <1>4, <1>5, <1>6, <1>7, <1>8

----------------------------------------------------------------------------
(* Vertex shading: each vertex is shaded or belongs to a step that a thread has
   still to take. *)

LEMMA StepOfVertex ==
  ASSUME NEW k \in Nat \ {0}, NEW n \in Nat, NEW v \in 0 .. n - 1
  PROVE  /\ v \div k \in 0 .. (n + k - 1) \div k - 1
         /\ (v \div k) * k <= v /\ v < (v \div k) * k + k
<1> DEFINE q == v \div k
           m == (n + k - 1) \div k
<1>1. q \in Nat /\ m \in Nat
  <2>1. n + k - 1 \in Nat  OBVIOUS
  <2> QED BY <2>1
<1>2. v = k * q + (v % k) /\ v % k \in 0 .. k - 1
  OBVIOUS
<1>3. n + k - 1 = k * m + ((n + k - 1) % k) /\ (n + k - 1) % k \in 0 .. k - 1
  <2>1. n + k - 1 \in Nat  OBVIOUS
  <2> QED BY <2>1
<1> HIDE DEF q, m
<1>4. k * q \in Nat /\ k * m \in Nat /\ q * k = k * q
  BY <1>1
<1>5. ASSUME q >= m PROVE FALSE
  <2>1. PICK j \in Nat : q = m + j
    <3>1. q - m \in Nat /\ q = m + (q - m)  BY <1>1, <1>5
    <3> QED BY <3>1
  <2>2. k * q = k * m + k * j /\ k * j \in Nat
    BY <1>1, <2>1
  <2>3. k * m >= n
    BY <1>3, <1>4
  <2> QED BY <1>2, <1>4, <2>2, <2>3
<1>6. q * k <= v /\ v < q * k + k
  BY <1>2, <1>4
<1>7. q \in 0 .. m - 1
  BY <1>1, <1>5
<1> QED BY <1>6, <1>7 DEF q, m

Vertices == 0 .. Draws[draw].verts - 1
Unshaded(th) == {v \in Vertices : v \div VertsPerStep \in todo[th].lo .. todo[th].hi - 1}

VertexInv ==
  /\ draw \in DOMAIN Draws /\ phase \in {"idle", "vs", "bin", "raster"}
  /\ todo \in [Threads -> Loops]
  /\ shaded \subseteq Vertices
  /\ phase = "vs" => \A v \in Vertices : v \in shaded \/ \E th \in Threads : v \in Unshaded(th)
  /\ ReadsShaded

LEMMA DrawFacts ==
  /\ Len(Draws) \in Nat /\ Len(Draws) > 0 /\ DOMAIN Draws = 1 .. Len(Draws)
  /\ \A d \in DOMAIN Draws :
       /\ Draws[d].clear \in BOOLEAN /\ Draws[d].verts \in Nat
       /\ Len(Draws[d].tris) \in Nat /\ DOMAIN Draws[d].tris = 1 .. Len(Draws[d].tris)
       /\ \A i \in DOMAIN Draws[d].tris : TriangleOK(Draws[d].tris[i], Draws[d].verts)
<1>1. Len(Draws) \in Nat /\ Len(Draws) > 0 /\ DOMAIN Draws = 1 .. Len(Draws)
  BY DrawsAssumption, LenProperties
<1>2. ASSUME NEW d \in DOMAIN Draws
      PROVE  Len(Draws[d].tris) \in Nat /\ DOMAIN Draws[d].tris = 1 .. Len(Draws[d].tris)
  <2>1. Draws[d].tris \in Seq(Range(Draws[d].tris))
    BY DrawsAssumption
  <2> QED BY <2>1, LenProperties
<1> QED BY <1>1, <1>2, DrawsAssumption

LEMMA InitVertex == Init => VertexInv
<1> SUFFICES ASSUME Init PROVE VertexInv
  OBVIOUS
<1>1. draw = 1 /\ phase = "idle" /\ shaded = {} /\ todo = [th \in Threads |-> [lo |-> 0, hi |-> 0]]
  BY DEF Init
<1>2. 1 \in DOMAIN Draws
  BY DrawFacts
<1>3. todo \in [Threads -> Loops]
  BY <1>1 DEF Loops
<1> QED BY <1>1, <1>2, <1>3 DEF VertexInv, ReadsShaded

LEMMA StepSize == VertsPerStep \in Nat \ {0}
BY SizeAssumption DEF VertsPerStep

LEMMA BeginDrawVertex ==
  ASSUME VertexInv, BeginDraw
  PROVE  VertexInv'
<1> DEFINE k == VertsPerStep
           n == Draws[draw].verts
<1>1. /\ phase' = "vs" /\ draw' = draw /\ shaded' = shaded /\ draw \in DOMAIN Draws
      /\ vsPacketMode' = vsPacketMode /\ todo' \in Splits((n + k - 1) \div k)
  BY DEF BeginDraw, modes, VertexInv
<1>2. n \in Nat /\ k \in Nat \ {0} /\ k' = k
  BY <1>1, DrawFacts, StepSize DEF VertsPerStep
<1> HIDE DEF k, n
<1>3. (n + k - 1) \div k \in Nat
  <2>1. n + k - 1 \in Nat  BY <1>2
  <2> QED BY <1>2, <2>1
<1>4. /\ todo' \in [Threads -> Loops]
      /\ \A i \in 0 .. (n + k - 1) \div k - 1 : \E th \in Threads : i \in todo'[th].lo .. todo'[th].hi - 1
  BY <1>1, <1>3, SplitsCover
<1>5. \A v \in 0 .. n - 1 : \E th \in Threads : v \div k \in todo'[th].lo .. todo'[th].hi - 1
  BY <1>2, <1>4, StepOfVertex
<1>6. \A v \in Vertices' : \E th \in Threads : v \in Unshaded(th)'
  BY <1>1, <1>2, <1>5 DEF Vertices, Unshaded, n, k
<1> QED BY <1>1, <1>4, <1>6 DEF VertexInv, ReadsShaded, Vertices

LEMMA ShadeVertex ==
  ASSUME VertexInv, NEW th \in Threads, ShadeVertices(th)
  PROVE  VertexInv'
<1> DEFINE k == VertsPerStep
           n == Draws[draw].verts
           lo == todo[th].lo
           v0 == lo * k
           m == Minimum(k, n - v0)
<1>1. /\ phase = "vs" /\ phase' = phase /\ draw' = draw /\ draw \in DOMAIN Draws
      /\ vsPacketMode' = vsPacketMode /\ lo < todo[th].hi
      /\ shaded' = shaded \cup (v0 .. v0 + m - 1)
      /\ todo' = [todo EXCEPT ![th].lo = @ + 1]
  BY DEF ShadeVertices, modes, VertexInv, HasWork, Advance
<1>2. n \in Nat /\ k \in Nat \ {0} /\ k' = k /\ todo \in [Threads -> Loops]
  BY <1>1, DrawFacts, StepSize DEF VertsPerStep, VertexInv
<1>3. lo \in Nat /\ todo[th].hi \in Nat
  BY <1>2 DEF Loops
<1>4. /\ todo' \in [Threads -> Loops] /\ todo'[th].lo = lo + 1 /\ todo'[th].hi = todo[th].hi
      /\ \A o \in Threads : o # th => todo'[o] = todo[o]
  BY <1>1, <1>2, <1>3 DEF Loops
<1>5. v0 \in Nat
  BY <1>2, <1>3
<1> HIDE DEF k, n, lo, v0
<1>6. m \in Int /\ m <= n - v0 /\ m <= k /\ (m = k \/ m = n - v0)
  BY <1>2, <1>5 DEF Minimum
<1> HIDE DEF m
<1>7. v0 .. v0 + m - 1 \subseteq 0 .. n - 1
  BY <1>2, <1>5, <1>6
<1>8. ASSUME NEW v \in 0 .. n - 1, v \div k = lo PROVE v \in v0 .. v0 + m - 1
  <2>1. (v \div k) * k <= v /\ v < (v \div k) * k + k
    BY <1>2, StepOfVertex
  <2> QED BY <1>2, <1>5, <1>6, <1>8, <2>1 DEF v0
<1>9. ASSUME NEW v \in Vertices'
      PROVE  v \in shaded' \/ \E o \in Threads : v \in Unshaded(o)'
  <2>1. v \in Vertices /\ v \in 0 .. n - 1 /\ v \div k \in Nat
    BY <1>1, <1>2, <1>9, StepOfVertex DEF Vertices, n
  <2>2. CASE v \in shaded
    BY <1>1, <2>2
  <2>3. CASE \E o \in Threads : v \in Unshaded(o)
    <3>1. PICK o \in Threads : v \div k \in todo[o].lo .. todo[o].hi - 1
      BY <2>3 DEF Unshaded, k
    <3>2. CASE v \div k = lo
      BY <1>1, <1>8, <2>1, <3>2
    <3>3. CASE v \div k # lo
      <4>1. v \div k \in todo'[o].lo .. todo'[o].hi - 1
        <5>1. CASE o = th
          BY <1>3, <1>4, <2>1, <3>1, <3>3, <5>1 DEF lo
        <5>2. CASE o # th
          BY <1>4, <3>1, <5>2
        <5> QED BY <5>1, <5>2
      <4> QED BY <1>1, <1>2, <2>1, <4>1 DEF Unshaded, k, Vertices
    <3> QED BY <3>2, <3>3
  <2> QED BY <1>1, <2>1, <2>2, <2>3 DEF VertexInv
<1>10. shaded' \subseteq Vertices'
  BY <1>1, <1>7 DEF VertexInv, Vertices, n
<1> QED BY <1>1, <1>4, <1>9, <1>10 DEF VertexInv, ReadsShaded, Vertices

LEMMA VertexNext == VertexInv /\ [Next]_vars => VertexInv'
<1> SUFFICES ASSUME VertexInv, [Next]_vars PROVE VertexInv'
  OBVIOUS
<1>1. CASE BeginDraw
  BY <1>1, BeginDrawVertex
<1>2. CASE \E th \in Threads : ShadeVertices(th)
  BY <1>2, ShadeVertex
<1>3. CASE ClearBuffers
  <2>1. /\ phase = "vs" /\ phase' = "bin" /\ draw' = draw /\ shaded' = shaded
        /\ Barrier /\ todo' \in Splits(Len(Tris)) /\ draw \in DOMAIN Draws
    BY <1>3 DEF ClearBuffers, VertexInv
  <2>2. Len(Tris) \in Nat
    BY <2>1, DrawFacts DEF Tris
  <2>3. todo' \in [Threads -> Loops]
    BY <2>1, <2>2, SplitsCover
  <2>4. \A th \in Threads : Unshaded(th) = {}
    <3> SUFFICES ASSUME NEW th \in Threads, NEW v \in Unshaded(th) PROVE FALSE
      OBVIOUS
    <3>1. todo[th].lo \in Nat /\ todo[th].hi \in Nat /\ ~(todo[th].lo < todo[th].hi)
      BY <2>1 DEF VertexInv, Loops, Barrier, HasWork
    <3>2. PICK q : q \in todo[th].lo .. todo[th].hi - 1
      BY DEF Unshaded
    <3> QED BY <3>1, <3>2
  <2>5. shaded = Vertices
    BY <2>1, <2>4 DEF VertexInv
  <2> QED BY <2>1, <2>3, <2>5 DEF VertexInv, ReadsShaded, Vertices
<1>4. CASE \E th \in Threads : BinTriangle(th)
  <2>1. PICK th \in Threads : BinTriangle(th)
    BY <1>4
  <2>2. /\ phase' = phase /\ draw' = draw /\ shaded' = shaded /\ phase = "bin"
        /\ todo' = [todo EXCEPT ![th].lo = @ + 1]
    BY <2>1 DEF BinTriangle, Advance
  <2>3. todo' \in [Threads -> Loops]
    BY <2>2 DEF VertexInv, Loops
  <2> QED BY <2>2, <2>3 DEF VertexInv, ReadsShaded, Vertices
<1>5. CASE StartRaster
  BY <1>5 DEF StartRaster, VertexInv, ReadsShaded, Vertices
<1>6. CASE EndDraw
  <2>1. /\ phase' = "idle" /\ shaded' = {} /\ todo' = todo
        /\ draw' = IF draw = Len(Draws) THEN 1 ELSE draw + 1
    BY <1>6 DEF EndDraw
  <2>2. draw' \in DOMAIN Draws
    BY <2>1, DrawFacts DEF VertexInv
  <2> QED BY <2>1, <2>2 DEF VertexInv, ReadsShaded
<1>7. CASE \E th \in Threads : \/ TakeTile(th) \/ EndTile(th)
                               \/ \E f \in work[th] : SkipFragment(th, f) \/ ShadeFragment(th, f)
  <2>1. phase' = phase /\ draw' = draw /\ shaded' = shaded /\ todo' = todo
        /\ vsPacketMode' = vsPacketMode
    BY <1>7 DEF TakeTile, EndTile, SkipFragment, ShadeFragment, modes
  <2> QED BY <2>1 DEF VertexInv, ReadsShaded, Vertices, Unshaded, VertsPerStep
<1>8. CASE UNCHANGED vars
  BY <1>8 DEF vars, modes, VertexInv, ReadsShaded, Vertices, Unshaded, VertsPerStep
<1> QED BY <1>1, <1>2, <1>3, <1>4, <1>5, <1>6, <1>7, <1>8 DEF Next, MasterStep, ThreadStep

(* Triangle setup and rasterization read only vertices that were shaded, for
   any number of vertices, threads and packet width and any division of the
   vertex loop among the threads. *)
THEOREM VerticesShaded == Spec => []ReadsShaded
<1>1. VertexInv => ReadsShaded
  BY DEF VertexInv
<1> QED BY <1>1, InitVertex, VertexNext, PTL DEF Spec

----------------------------------------------------------------------------
(* Binning.  The threads set up the triangles of their chunks in order, so that
   thread after thread, setup after setup, the triangles come in submission
   order, and the bins, filled on the way, preserve it. *)

BinTypes ==
  /\ setups \in [Threads -> Seq(1 .. Len(Tris))]
  /\ DOMAIN bins = Threads
  /\ \A th \in Threads : DOMAIN bins[th] = Tiles
  /\ \A th \in Threads, t \in Tiles :
       bins[th][t] \in Seq(Nat) /\ \A i \in DOMAIN bins[th][t] : bins[th][t][i] \in DOMAIN setups[th]

Chunks ==
  /\ \A th \in Threads : todo[th].lo <= todo[th].hi /\ todo[th].hi <= Len(Tris)
  /\ \A th, other \in Threads : th < other => todo[th].hi <= todo[other].lo

(* The setups of a thread are those of its chunk that it has passed. *)
Passed ==
  /\ \A th \in Threads : \A j \in DOMAIN setups[th] : setups[th][j] <= todo[th].lo
  /\ \A th, other \in Threads : th < other =>
       \A j \in DOMAIN setups[other] : todo[th].hi < setups[other][j]

IsIncreasing(s) == \A i, j \in DOMAIN s : i < j => s[i] < s[j]

Sorted ==
  /\ \A th \in Threads : IsIncreasing(setups[th])
  /\ \A th \in Threads, t \in Tiles : IsIncreasing(bins[th][t])

(* A triangle is set up, unless it is culled or still to come, and then it is
   in the bin of every tile its box overlaps. *)
SetUp ==
  /\ \A th \in Threads : \A j \in DOMAIN setups[th] : ~Tris[setups[th][j]].culled
  /\ \A i \in 1 .. Len(Tris) :
       \/ Tris[i].culled
       \/ \E th \in Threads : i \in todo[th].lo + 1 .. todo[th].hi
       \/ \E th \in Threads : \E j \in DOMAIN setups[th] : setups[th][j] = i
Binned ==
  \A th \in Threads : \A j \in DOMAIN setups[th] :
    \A t \in Tiles \cap TilesOf(Tris[setups[th][j]]) :
      \E i \in DOMAIN bins[th][t] : bins[th][t][i] = j

BinInv ==
  /\ phase \in {"bin", "raster"} =>
       BinTypes /\ Chunks /\ Passed /\ Sorted /\ SetUp /\ Binned
  /\ phase = "raster" => Barrier

(* Rasterization. *)
ScanInv ==
  /\ phase # "raster" => untaken = {}
  /\ \A th \in Threads :
       /\ work[th] \subseteq IF tile[th] = NoTile THEN {} ELSE TileScan(tile[th])
       /\ batch[th] \in Seq(Fragments) /\ Len(batch[th]) < PACKET_W
       /\ ~packetMode => batch[th] = <<>>

BufferTypes ==
  /\ vsPacketMode \in BOOLEAN /\ packetMode \in BOOLEAN
  /\ zbuf \in [Pixels -> Int] /\ \A p \in Pixels : zbuf[p] <= ZFar
  /\ rgb \in [Pixels -> Colours]

RasterInv == RaceInv /\ VertexInv /\ BinInv /\ ScanInv /\ BufferTypes

LEMMA TrisFacts ==
  ASSUME VertexInv
  PROVE  /\ draw \in DOMAIN Draws /\ Len(Tris) \in Nat /\ DOMAIN Tris = 1 .. Len(Tris)
         /\ \A i \in 1 .. Len(Tris) : TriangleOK(Tris[i], Draws[draw].verts)
<1>1. draw \in DOMAIN Draws
  BY DEF VertexInv
<1> QED BY <1>1, DrawFacts DEF Tris

LEMMA ChunkTypes ==
  ASSUME VertexInv, NEW th \in Threads
  PROVE  todo[th].lo \in Nat /\ todo[th].hi \in Nat /\ th \in Int
BY DEF VertexInv, Loops, Threads

(* A step that leaves the bins alone and does not start the tile pass. *)
LEMMA BinsKept ==
  ASSUME BinInv, UNCHANGED <<setups, bins, todo, draw>>, phase' = phase
  PROVE  BinInv'
BY DEF BinInv, BinTypes, Chunks, Passed, Sorted, IsIncreasing, SetUp, Binned, Tris, Barrier, HasWork

LEMMA ClearBins ==
  ASSUME VertexInv, ClearBuffers
  PROVE  BinInv'
<1>1. /\ phase' = "bin" /\ draw' = draw
      /\ setups' = [th \in Threads |-> <<>>]
      /\ bins' = [th \in Threads |-> [t \in Tiles |-> <<>>]]
      /\ todo' \in Splits(Len(Tris))
  BY DEF ClearBuffers
<1>2. Len(Tris) \in Nat /\ Tris' = Tris
  BY <1>1, TrisFacts DEF Tris
<1>3. /\ todo' \in [Threads -> Loops]
      /\ \A th \in Threads : todo'[th].lo <= todo'[th].hi /\ todo'[th].hi <= Len(Tris)
      /\ \A th, other \in Threads : th < other => todo'[th].hi <= todo'[other].lo
      /\ \A i \in 0 .. Len(Tris) - 1 : \E th \in Threads : i \in todo'[th].lo .. todo'[th].hi - 1
  BY <1>1, <1>2, SplitsCover
<1>4. \A th \in Threads : setups'[th] = <<>> /\ DOMAIN setups'[th] = {}
  BY <1>1
<1>5. \A th \in Threads, t \in Tiles : bins'[th][t] = <<>> /\ DOMAIN bins'[th][t] = {}
  BY <1>1
<1>6. BinTypes'
  <2>1. \A S : <<>> \in Seq(S)
    BY EmptySeq
  <2>2. setups' \in [Threads -> Seq(1 .. Len(Tris)')]
    BY <1>1, <2>1
  <2> QED BY <1>1, <1>5, <2>1, <2>2 DEF BinTypes
<1>7. Chunks' /\ Passed' /\ Sorted' /\ Binned'
  BY <1>2, <1>3, <1>4, <1>5 DEF Chunks, Passed, Sorted, IsIncreasing, Binned
<1>8. SetUp'
  <2> SUFFICES ASSUME NEW i \in 1 .. Len(Tris)
               PROVE  \E th \in Threads : i \in todo'[th].lo + 1 .. todo'[th].hi
    BY <1>2, <1>4 DEF SetUp
  <2>1. i - 1 \in 0 .. Len(Tris) - 1
    BY <1>2
  <2>2. PICK th \in Threads : i - 1 \in todo'[th].lo .. todo'[th].hi - 1
    BY <1>3, <2>1
  <2>3. todo'[th].lo \in Nat /\ todo'[th].hi \in Nat
    BY <1>3 DEF Loops
  <2> QED BY <1>2, <2>2, <2>3
<1> QED BY <1>1, <1>6, <1>7, <1>8 DEF BinInv

(* One more element at the end of an increasing sequence. *)
LEMMA AppendIncreasing ==
  ASSUME NEW s \in Seq(Nat), IsIncreasing(s), NEW e \in Nat, \A i \in DOMAIN s : s[i] < e
  PROVE  /\ Append(s, e) \in Seq(Nat) /\ IsIncreasing(Append(s, e))
         /\ Len(s) \in Nat /\ DOMAIN s = 1 .. Len(s)
         /\ DOMAIN Append(s, e) = 1 .. Len(s) + 1 /\ Append(s, e)[Len(s) + 1] = e
         /\ \A i \in 1 .. Len(s) : Append(s, e)[i] = s[i]
<1> DEFINE n == Len(s)
           r == Append(s, e)
<1>1. /\ n \in Nat /\ DOMAIN s = 1 .. n /\ r \in Seq(Nat) /\ Len(r) = n + 1
      /\ r[n + 1] = e /\ \A i \in 1 .. n : r[i] = s[i]
  BY LenProperties, AppendProperties
<1>2. DOMAIN r = 1 .. n + 1
  BY <1>1, LenProperties
<1> HIDE DEF n, r
<1>3. IsIncreasing(r)
  <2> SUFFICES ASSUME NEW i \in 1 .. n + 1, NEW j \in 1 .. n + 1, i < j PROVE r[i] < r[j]
    BY <1>2 DEF IsIncreasing
  <2>1. i \in 1 .. n /\ (j \in 1 .. n \/ j = n + 1)
    BY <1>1
  <2> QED BY <1>1, <2>1 DEF IsIncreasing
<1> QED BY <1>1, <1>2, <1>3 DEF n, r

(* The triangle that a thread has just set up. *)
LEMMA BinCulled ==
  ASSUME VertexInv, BinInv, NEW th \in Threads, BinTriangle(th), Tris[todo[th].lo + 1].culled
  PROVE  BinInv'
<1>1. /\ phase = "bin" /\ phase' = "bin" /\ draw' = draw /\ setups' = setups /\ bins' = bins
      /\ HasWork(th) /\ todo' = [todo EXCEPT ![th].lo = @ + 1] /\ Tris' = Tris
  BY DEF BinTriangle, Advance, Tris
<1>2. BinTypes /\ Chunks /\ Passed /\ Sorted /\ SetUp /\ Binned
  BY <1>1 DEF BinInv
<1>3. \A o \in Threads : todo[o].lo \in Nat /\ todo[o].hi \in Nat
  BY ChunkTypes
<1>4. /\ todo'[th].lo = todo[th].lo + 1 /\ todo'[th].hi = todo[th].hi
      /\ \A o \in Threads : o # th => todo'[o] = todo[o]
  BY <1>1 DEF VertexInv, Loops
<1>5. \A o \in Threads : todo'[o].hi = todo[o].hi /\ (todo'[o].lo = todo[o].lo \/ o = th)
  BY <1>4
<1>6. todo[th].lo < todo[th].hi
  BY <1>1 DEF HasWork
<1>7. Chunks'
  BY <1>1, <1>2, <1>3, <1>4, <1>5, <1>6 DEF Chunks
<1>8. Passed'
  <2>1. ASSUME NEW o \in Threads, NEW j \in DOMAIN setups[o] PROVE setups[o][j] <= todo'[o].lo
    <3>1. setups[o][j] <= todo[o].lo /\ setups[o][j] \in Nat
      BY <1>2 DEF Passed, BinTypes
    <3> QED BY <1>3, <1>4, <1>5, <3>1
  <2> QED BY <1>1, <1>2, <1>5, <2>1 DEF Passed
<1>9. SetUp'
  <2> SUFFICES ASSUME NEW i \in 1 .. Len(Tris), ~Tris[i].culled
               PROVE  \/ \E o \in Threads : i \in todo'[o].lo + 1 .. todo'[o].hi
                      \/ \E o \in Threads : \E j \in DOMAIN setups[o] : setups[o][j] = i
    BY <1>1, <1>2 DEF SetUp
  <2>1. i # todo[th].lo + 1
    OBVIOUS
  <2>2. CASE \E o \in Threads : i \in todo[o].lo + 1 .. todo[o].hi
    <3>1. PICK o \in Threads : i \in todo[o].lo + 1 .. todo[o].hi
      BY <2>2
    <3>2. i \in todo'[o].lo + 1 .. todo'[o].hi
      BY <1>3, <1>4, <1>5, <2>1, <3>1
    <3> QED BY <3>2
  <2> QED BY <1>2, <2>2 DEF SetUp
<1>10. BinTypes' /\ Sorted' /\ Binned'
  BY <1>1, <1>2 DEF BinTypes, Sorted, Binned
<1> QED BY <1>1, <1>7, <1>8, <1>9, <1>10 DEF BinInv

LEMMA BinSetup ==
  ASSUME VertexInv, BinInv, NEW th \in Threads, BinTriangle(th), ~Tris[todo[th].lo + 1].culled
  PROVE  BinInv'
<1> DEFINE e == todo[th].lo + 1
           n == Len(setups[th])
<1>1. /\ phase = "bin" /\ phase' = "bin" /\ draw' = draw /\ Tris' = Tris /\ HasWork(th)
      /\ setups' = [setups EXCEPT ![th] = Append(@, e)]
      /\ bins' = [bins EXCEPT ![th] = [t \in Tiles |-> IF t \in TilesOf(Tris[e])
                                                       THEN Append(@[t], n + 1) ELSE @[t]]]
      /\ todo' = [todo EXCEPT ![th].lo = @ + 1]
  BY DEF BinTriangle, Advance, Tris
<1>2. BinTypes /\ Chunks /\ Passed /\ Sorted /\ SetUp /\ Binned
  BY <1>1 DEF BinInv
<1>3. \A o \in Threads : todo[o].lo \in Nat /\ todo[o].hi \in Nat
  BY ChunkTypes
<1>4. /\ todo'[th].lo = todo[th].lo + 1 /\ todo'[th].hi = todo[th].hi
      /\ \A o \in Threads : todo'[o].hi = todo[o].hi /\ (todo'[o].lo = todo[o].lo \/ o = th)
  BY <1>1 DEF VertexInv, Loops
<1>5. todo[th].lo < todo[th].hi
  BY <1>1 DEF HasWork
<1>6. e \in 1 .. Len(Tris) /\ e \in Nat /\ e <= todo[th].hi
  BY <1>2, <1>3, <1>5, TrisFacts DEF Chunks
<1>7. \A j \in DOMAIN setups[th] : setups[th][j] < e
  <2> SUFFICES ASSUME NEW j \in DOMAIN setups[th] PROVE setups[th][j] < e
    OBVIOUS
  <2>1. setups[th][j] <= todo[th].lo /\ setups[th][j] \in Nat
    BY <1>2 DEF Passed, BinTypes
  <2> QED BY <1>3, <2>1
<1>8. setups[th] \in Seq(Nat) /\ setups[th] \in Seq(1 .. Len(Tris)) /\ IsIncreasing(setups[th])
  <2>1. setups[th] \in Seq(1 .. Len(Tris))
    BY <1>2 DEF BinTypes
  <2>2. setups[th] \in Seq(Nat)
    BY <2>1, SeqMonotonic
  <2> QED BY <1>2, <2>1, <2>2 DEF Sorted
<1>9. PICK s : s = setups'[th]
  OBVIOUS
<1>10. /\ s \in Seq(1 .. Len(Tris)) /\ IsIncreasing(s) /\ n \in Nat
       /\ DOMAIN setups[th] = 1 .. n /\ DOMAIN s = 1 .. n + 1 /\ s[n + 1] = e
       /\ \A j \in 1 .. n : s[j] = setups[th][j]
  <2>1. s = Append(setups[th], e)
    BY <1>1, <1>2, <1>9 DEF BinTypes
  <2>2. s \in Seq(1 .. Len(Tris))
    BY <1>6, <1>8, <2>1, AppendProperties
  <2> HIDE DEF e
  <2> QED BY ONLY <1>6, <1>7, <1>8, <2>1, <2>2, AppendIncreasing
<1>11. \A o \in Threads : o # th => setups'[o] = setups[o] /\ bins'[o] = bins[o]
  BY <1>1, <1>2 DEF BinTypes
<1>12. DOMAIN setups' = Threads /\ DOMAIN bins' = Threads
  BY <1>1, <1>2 DEF BinTypes
<1>13. /\ DOMAIN bins'[th] = Tiles
       /\ \A t \in Tiles : bins'[th][t] = IF t \in TilesOf(Tris[e])
                                          THEN Append(bins[th][t], n + 1) ELSE bins[th][t]
  BY <1>1, <1>2 DEF BinTypes
<1> HIDE DEF e, n
<1>14. ASSUME NEW t \in Tiles
       PROVE  /\ bins'[th][t] \in Seq(Nat) /\ IsIncreasing(bins'[th][t])
              /\ \A i \in DOMAIN bins'[th][t] : bins'[th][t][i] \in DOMAIN s
              /\ \A j : (\E i \in DOMAIN bins[th][t] : bins[th][t][i] = j)
                           => \E i \in DOMAIN bins'[th][t] : bins'[th][t][i] = j
              /\ t \in TilesOf(Tris[e]) => \E i \in DOMAIN bins'[th][t] : bins'[th][t][i] = n + 1
  <2>1. /\ bins[th][t] \in Seq(Nat) /\ IsIncreasing(bins[th][t])
        /\ \A i \in DOMAIN bins[th][t] : bins[th][t][i] \in 1 .. n
    BY <1>2, <1>10 DEF BinTypes, Sorted
  <2>2. CASE t \notin TilesOf(Tris[e])
    <3>1. bins'[th][t] = bins[th][t]  BY <1>13, <2>2
    <3>2. \A k \in 1 .. n : k \in DOMAIN s  BY <1>10
    <3> QED BY <2>1, <2>2, <3>1, <3>2
  <2>3. CASE t \in TilesOf(Tris[e])
    <3>1. PICK b : b = bins[th][t]  OBVIOUS
    <3>2. PICK r : r = bins'[th][t]  OBVIOUS
    <3>3. /\ b \in Seq(Nat) /\ IsIncreasing(b) /\ r = Append(b, n + 1) /\ n + 1 \in Nat
          /\ \A i \in DOMAIN b : b[i] < n + 1
          /\ \A i \in DOMAIN b : b[i] \in 1 .. n
      <4>1. r = Append(b, n + 1)  BY <1>13, <2>3, <3>1, <3>2
      <4>2. \A k \in 1 .. n : k < n + 1  BY <1>10
      <4> QED BY <1>10, <2>1, <3>1, <4>1, <4>2
    <3>4. /\ r \in Seq(Nat) /\ IsIncreasing(r) /\ Len(b) \in Nat /\ DOMAIN b = 1 .. Len(b)
          /\ DOMAIN r = 1 .. Len(b) + 1 /\ r[Len(b) + 1] = n + 1
          /\ \A i \in 1 .. Len(b) : r[i] = b[i]
      BY ONLY <3>3, AppendIncreasing
    <3>5. ASSUME NEW i \in DOMAIN r PROVE r[i] \in DOMAIN s
      <4>1. i \in 1 .. Len(b) \/ i = Len(b) + 1  BY <3>4
      <4>2. \A k \in 1 .. n + 1 : k \in DOMAIN s  BY <1>10
      <4>3. r[i] \in 1 .. n + 1  BY <1>10, <3>3, <3>4, <4>1
      <4> QED BY <4>2, <4>3
    <3>6. ASSUME NEW j, \E i \in DOMAIN b : b[i] = j PROVE \E i \in DOMAIN r : r[i] = j
      BY <3>4, <3>6
    <3>7. \E i \in DOMAIN r : r[i] = n + 1
      <4>1. Len(b) + 1 \in DOMAIN r  BY <3>4
      <4> QED BY <3>4, <4>1
    <3> QED BY <3>1, <3>2, <3>4, <3>5, <3>6, <3>7
  <2> QED BY <2>2, <2>3
<1>15. BinTypes'
  <2>1. \A o \in Threads : setups'[o] \in Seq(1 .. Len(Tris))
    BY <1>2, <1>9, <1>10, <1>11 DEF BinTypes
  <2>2. setups' \in [Threads -> Seq(1 .. Len(Tris))]
    <3>1. setups' = [o \in Threads |-> setups'[o]]  BY <1>1, <1>2 DEF BinTypes
    <3> QED BY <2>1, <3>1
  <2>3. \A o \in Threads : DOMAIN bins'[o] = Tiles
    BY <1>2, <1>11, <1>13 DEF BinTypes
  <2>4. ASSUME NEW o \in Threads, NEW t \in Tiles
        PROVE  bins'[o][t] \in Seq(Nat) /\ \A i \in DOMAIN bins'[o][t] : bins'[o][t][i] \in DOMAIN setups'[o]
    BY <1>2, <1>9, <1>11, <1>14 DEF BinTypes
  <2> QED BY <1>1, <1>12, <2>2, <2>3, <2>4 DEF BinTypes
<1>16. Chunks'
  BY <1>1, <1>2, <1>3, <1>4, <1>5 DEF Chunks
<1>17. Passed'
  <2>1. ASSUME NEW o \in Threads, NEW j \in DOMAIN setups'[o] PROVE setups'[o][j] <= todo'[o].lo
    <3>1. CASE o # th
      BY <1>2, <1>4, <1>11, <2>1, <3>1 DEF Passed
    <3>2. CASE o = th
      <4>1. j \in 1 .. n \/ j = n + 1  BY <1>9, <1>10, <2>1, <3>2
      <4>2. \A k \in 1 .. n : setups[th][k] < e /\ setups[th][k] \in Nat
        <5>1. \A k \in DOMAIN setups[th] : setups[th][k] \in Nat  BY <1>2 DEF BinTypes
        <5> QED BY <1>7, <1>10, <5>1
      <4>3. todo'[th].lo = e  BY <1>4 DEF e
      <4> QED BY <1>6, <1>9, <1>10, <3>2, <4>1, <4>2, <4>3
    <3> QED BY <3>1, <3>2
  <2>2. ASSUME NEW k \in Threads, NEW o \in Threads, k < o, NEW j \in DOMAIN setups'[o]
        PROVE  todo'[k].hi < setups'[o][j]
    <3>1. CASE o # th
      BY <1>2, <1>4, <1>11, <2>2, <3>1 DEF Passed
    <3>2. CASE o = th
      <4>1. j \in 1 .. n \/ j = n + 1  BY <1>9, <1>10, <2>2, <3>2
      <4>2. \A i \in 1 .. n : todo[k].hi < setups[th][i]
        BY <1>2, <1>10, <2>2, <3>2 DEF Passed
      <4>3. todo[k].hi < e
        BY <1>2, <1>3, <2>2, <3>2 DEF Chunks, e
      <4> QED BY <1>4, <1>9, <1>10, <3>2, <4>1, <4>2, <4>3
    <3> QED BY <3>1, <3>2
  <2> QED BY <1>1, <2>1, <2>2 DEF Passed
<1>18. Sorted'
  <2>1. \A o \in Threads : IsIncreasing(setups'[o])
    BY <1>2, <1>9, <1>10, <1>11 DEF Sorted
  <2>2. \A o \in Threads, t \in Tiles : IsIncreasing(bins'[o][t])
    BY <1>2, <1>11, <1>14 DEF Sorted
  <2> QED BY <2>1, <2>2 DEF Sorted, IsIncreasing
<1>19. SetUp'
  <2>1. ASSUME NEW o \in Threads, NEW j \in DOMAIN setups'[o] PROVE ~Tris[setups'[o][j]].culled
    <3>1. CASE o # th
      BY <1>2, <1>11, <2>1, <3>1 DEF SetUp
    <3>2. CASE o = th
      <4>1. j \in 1 .. n \/ j = n + 1  BY <1>9, <1>10, <2>1, <3>2
      <4>2. \A k \in 1 .. n : ~Tris[setups[th][k]].culled  BY <1>2, <1>10 DEF SetUp
      <4> QED BY <1>9, <1>10, <3>2, <4>1, <4>2 DEF e
    <3> QED BY <3>1, <3>2
  <2>2. ASSUME NEW i \in 1 .. Len(Tris), ~Tris[i].culled
        PROVE  \/ \E o \in Threads : i \in todo'[o].lo + 1 .. todo'[o].hi
               \/ \E o \in Threads : \E j \in DOMAIN setups'[o] : setups'[o][j] = i
    <3>1. CASE i = e
      <4>1. n + 1 \in DOMAIN setups'[th]  BY <1>9, <1>10
      <4> QED BY <1>9, <1>10, <3>1, <4>1
    <3>2. CASE i # e /\ \E o \in Threads : i \in todo[o].lo + 1 .. todo[o].hi
      <4>1. PICK o \in Threads : i \in todo[o].lo + 1 .. todo[o].hi
        BY <3>2
      <4>2. i \in todo'[o].lo + 1 .. todo'[o].hi
        BY <1>3, <1>4, <3>2, <4>1 DEF e
      <4> QED BY <4>2
    <3>3. CASE \E o \in Threads : \E j \in DOMAIN setups[o] : setups[o][j] = i
      <4>1. PICK o \in Threads : \E j \in DOMAIN setups[o] : setups[o][j] = i
        BY <3>3
      <4>2. PICK j \in DOMAIN setups[o] : setups[o][j] = i
        BY <4>1
      <4>3. j \in DOMAIN setups'[o] /\ setups'[o][j] = i
        <5>1. CASE o # th
          BY <1>11, <4>2, <5>1
        <5>2. CASE o = th
          BY <1>9, <1>10, <4>2, <5>2
        <5> QED BY <5>1, <5>2
      <4> QED BY <4>3
    <3> QED BY <1>2, <2>2, <3>1, <3>2, <3>3 DEF SetUp
  <2> QED BY <1>1, <2>1, <2>2 DEF SetUp
<1>20. Binned'
  <2> SUFFICES ASSUME NEW o \in Threads, NEW j \in DOMAIN setups'[o],
                      NEW t \in Tiles \cap TilesOf(Tris[setups'[o][j]])
               PROVE  \E i \in DOMAIN bins'[o][t] : bins'[o][t][i] = j
    BY <1>1 DEF Binned
  <2>1. CASE o # th
    BY <1>2, <1>11, <2>1 DEF Binned
  <2>2. CASE o = th
    <3>1. j \in 1 .. n \/ j = n + 1  BY <1>9, <1>10, <2>2
    <3>2. CASE j \in 1 .. n
      <4>1. j \in DOMAIN setups[th] /\ t \in Tiles \cap TilesOf(Tris[setups[th][j]])
        BY <1>9, <1>10, <2>2, <3>2
      <4>2. \E i \in DOMAIN bins[th][t] : bins[th][t][i] = j
        BY <1>2, <4>1 DEF Binned
      <4> QED BY <1>14, <2>2, <4>2
    <3>3. CASE j = n + 1
      BY <1>9, <1>10, <1>14, <2>2, <3>3
    <3> QED BY <3>1, <3>2, <3>3
  <2> QED BY <2>1, <2>2
<1> QED BY <1>1, <1>15, <1>16, <1>17, <1>18, <1>19, <1>20 DEF BinInv

LEMMA BinNext == VertexInv /\ BinInv /\ [Next]_vars => BinInv'
<1> SUFFICES ASSUME VertexInv, BinInv, [Next]_vars PROVE BinInv'
  OBVIOUS
<1>1. CASE BeginDraw \/ EndDraw
  BY <1>1 DEF BeginDraw, EndDraw, BinInv
<1>2. CASE ClearBuffers
  BY <1>2, ClearBins
<1>3. CASE StartRaster
  <2>1. /\ phase = "bin" /\ phase' = "raster" /\ Barrier
        /\ UNCHANGED <<setups, bins, todo, draw>>
    BY <1>3 DEF StartRaster
  <2>2. BinTypes /\ Chunks /\ Passed /\ Sorted /\ SetUp /\ Binned
    BY <2>1 DEF BinInv
  <2>3. BinTypes' /\ Chunks' /\ Passed' /\ Sorted' /\ SetUp' /\ Binned' /\ Barrier'
    BY <2>1, <2>2 DEF BinTypes, Chunks, Passed, Sorted, IsIncreasing, SetUp, Binned, Tris,
                      Barrier, HasWork
  <2> QED BY <2>1, <2>3 DEF BinInv
<1>4. CASE \E th \in Threads : ShadeVertices(th)
  BY <1>4 DEF ShadeVertices, BinInv
<1>5. CASE \E th \in Threads : BinTriangle(th)
  BY <1>5, BinCulled, BinSetup
<1>6. CASE \E th \in Threads : \/ TakeTile(th) \/ EndTile(th)
                               \/ \E f \in work[th] : SkipFragment(th, f) \/ ShadeFragment(th, f)
  <2>1. UNCHANGED <<setups, bins, todo, draw>> /\ phase' = phase
    BY <1>6 DEF TakeTile, EndTile, SkipFragment, ShadeFragment
  <2> QED BY <2>1, BinsKept
<1>7. CASE UNCHANGED vars
  <2>1. UNCHANGED <<setups, bins, todo, draw>> /\ phase' = phase
    BY <1>7 DEF vars
  <2> QED BY <2>1, BinsKept
<1> QED BY <1>1, <1>2, <1>3, <1>4, <1>5, <1>6, <1>7 DEF Next, MasterStep, ThreadStep

----------------------------------------------------------------------------
(* Geometry: every pixel lies in a tile, and a box that holds the pixel
   overlaps that tile. *)

LEMMA DivMod ==
  ASSUME NEW k \in Nat \ {0}, NEW n \in Nat
  PROVE  n \div k \in Nat /\ n % k \in 0 .. k - 1 /\ n = (n \div k) * k + (n % k)
<1>1. n \div k \in Nat /\ n % k \in 0 .. k - 1
  OBVIOUS
<1>2. n = k * (n \div k) + (n % k)
  OBVIOUS
<1>3. k * (n \div k) = (n \div k) * k
  BY <1>1
<1> QED BY <1>1, <1>2, <1>3

LEMMA TimesMonotone ==
  ASSUME NEW a \in Nat, NEW b \in Nat, NEW k \in Nat, a <= b
  PROVE  a * k <= b * k /\ a * k \in Nat /\ b * k \in Nat
<1>1. PICK j \in Nat : b = a + j
  <2>1. b - a \in Nat /\ b = a + (b - a)  OBVIOUS
  <2> QED BY <2>1
<1>2. b * k = a * k + j * k /\ j * k \in Nat /\ a * k \in Nat
  BY <1>1
<1> QED BY <1>2

LEMMA DivMonotone ==
  ASSUME NEW k \in Nat \ {0}, NEW a \in Nat, NEW b \in Nat, a <= b
  PROVE  a \div k <= b \div k
<1> DEFINE p == a \div k
           q == b \div k
<1>1. /\ p \in Nat /\ q \in Nat /\ a % k \in 0 .. k - 1 /\ b % k \in 0 .. k - 1
      /\ a = p * k + (a % k) /\ b = q * k + (b % k)
  BY DivMod
<1> HIDE DEF p, q
<1>2. p * k \in Nat /\ q * k \in Nat
  BY <1>1
<1>3. ASSUME p > q PROVE FALSE
  <2>1. (q + 1) * k <= p * k
    BY <1>1, <1>3, TimesMonotone
  <2>2. (q + 1) * k = q * k + k
    BY <1>1
  <2> QED BY <1>1, <1>2, <2>1, <2>2
<1> QED BY <1>1, <1>3 DEF p, q

LEMMA PixelCoordinates ==
  ASSUME NEW p \in Pixels
  PROVE  X(p) \in 0 .. W - 1 /\ Y(p) \in 0 .. H - 1
<1>1. W \in Nat \ {0} /\ H \in Nat \ {0} /\ W * H \in Nat
  BY SizeAssumption
<1>2. p \in Nat /\ p < W * H
  BY <1>1 DEF Pixels
<1>3. Y(p) \in Nat /\ X(p) \in 0 .. W - 1 /\ p = Y(p) * W + X(p)
  BY <1>1, <1>2, DivMod DEF X, Y
<1>4. ASSUME Y(p) >= H PROVE FALSE
  <2>1. H * W <= Y(p) * W /\ H * W = W * H
    BY <1>1, <1>3, <1>4, TimesMonotone
  <2>2. Y(p) * W \in Nat
    BY <1>1, <1>3
  <2> QED BY <1>1, <1>2, <1>3, <2>1, <2>2
<1> QED BY <1>1, <1>3, <1>4

(* The tile in row ty and column tx. *)
LEMMA TileRowColumn ==
  ASSUME NEW n \in Nat \ {0}, NEW tx \in 0 .. n - 1, NEW ty \in Nat
  PROVE  (ty * n + tx) % n = tx /\ (ty * n + tx) \div n = ty
<1> DEFINE t == ty * n + tx
           u == t \div n
<1>1. ty * n \in Nat /\ t \in Nat
  OBVIOUS
<1>2. u \in Nat /\ t % n \in 0 .. n - 1 /\ t = u * n + (t % n)
  BY <1>1, DivMod
<1> HIDE DEF u
<1>3. u * n \in Nat
  BY <1>2
<1>4. /\ t >= u * n /\ t < u * n + n
      /\ t >= ty * n /\ t < ty * n + n
  BY <1>1, <1>2, <1>3
<1>5. u = ty
  <2> HIDE DEF t
  <2> QED BY <1>1, <1>2, <1>4, SameSlot
<1>6. t % n = tx
  BY <1>1, <1>2, <1>5
<1> QED BY <1>5, <1>6 DEF u

LEMMA TileCounts ==
  TILES_X \in Nat \ {0} /\ TILES_Y \in Nat \ {0}
<1>1. W \in Nat \ {0} /\ H \in Nat \ {0} /\ TILE \in Nat \ {0}
  BY SizeAssumption
<1>2. 0 \in 0 .. W - 1 /\ 0 \in 0 .. H - 1
  BY <1>1
<1>3. /\ 0 \div TILE \in 0 .. (W + TILE - 1) \div TILE - 1
      /\ 0 \div TILE \in 0 .. (H + TILE - 1) \div TILE - 1
  BY <1>1, <1>2, StepOfVertex
<1>4. (W + TILE - 1) \div TILE \in Int /\ (H + TILE - 1) \div TILE \in Int /\ 0 \div TILE \in Nat
  BY <1>1
<1> QED BY <1>3, <1>4 DEF TILES_X, TILES_Y

LEMMA TileOfPixel ==
  ASSUME NEW p \in Pixels
  PROVE  LET tx == X(p) \div TILE
             ty == Y(p) \div TILE
             t  == ty * TILES_X + tx
         IN  /\ tx \in 0 .. TILES_X - 1 /\ ty \in 0 .. TILES_Y - 1
             /\ t \in Tiles /\ InTile(t, p) /\ TileOf(p) = t
<1> DEFINE tx == X(p) \div TILE
           ty == Y(p) \div TILE
           t  == ty * TILES_X + tx
<1>1. /\ W \in Nat \ {0} /\ H \in Nat \ {0} /\ TILE \in Nat \ {0}
      /\ TILES_X \in Nat \ {0} /\ TILES_Y \in Nat \ {0}
      /\ X(p) \in 0 .. W - 1 /\ Y(p) \in 0 .. H - 1
  BY SizeAssumption, TileCounts, PixelCoordinates
<1>2. /\ tx \in 0 .. TILES_X - 1 /\ tx * TILE <= X(p) /\ X(p) < tx * TILE + TILE
      /\ ty \in 0 .. TILES_Y - 1 /\ ty * TILE <= Y(p) /\ Y(p) < ty * TILE + TILE
  BY <1>1, StepOfVertex DEF TILES_X, TILES_Y
<1> HIDE DEF tx, ty
<1>3. t % TILES_X = tx /\ t \div TILES_X = ty
  <2>1. PICK n \in Nat \ {0} : n = TILES_X
    BY <1>1
  <2>2. tx \in 0 .. n - 1 /\ ty \in Nat
    BY <1>1, <1>2, <2>1
  <2>3. (ty * n + tx) % n = tx /\ (ty * n + tx) \div n = ty
    BY ONLY <2>2, TileRowColumn
  <2> QED BY <2>1, <2>3
<1>4. t \in Tiles
  <2>1. ty * TILES_X <= (TILES_Y - 1) * TILES_X /\ ty * TILES_X \in Nat
    BY <1>1, <1>2, TimesMonotone
  <2>2. (TILES_Y - 1) * TILES_X = TILES_X * TILES_Y - TILES_X /\ TILES_X * TILES_Y \in Nat
    BY <1>1
  <2>3. t \in Nat /\ t <= TILES_X * TILES_Y - 1
    BY <1>1, <1>2, <2>1, <2>2
  <2> QED BY <2>2, <2>3 DEF Tiles
<1>5. InTile(t, p)
  <2>1. tx * TILE \in Nat /\ ty * TILE \in Nat
    BY <1>1, <1>2
  <2>2. /\ X(p) \in tx * TILE .. Minimum(tx * TILE + TILE, W) - 1
        /\ Y(p) \in ty * TILE .. Minimum(ty * TILE + TILE, H) - 1
    BY <1>1, <1>2, <2>1 DEF Minimum
  <2> HIDE DEF t
  <2> QED BY <1>3, <2>2 DEF InTile
<1> HIDE DEF t
<1>6. TileOf(p) = t
  <2>1. TileOf(p) \in Tiles /\ InTile(TileOf(p), p)
    BY <1>4, <1>5 DEF TileOf
  <2> QED BY <1>4, <1>5, <2>1, TilesDisjoint
<1> QED BY <1>2, <1>4, <1>5, <1>6 DEF t, tx, ty

LEMMA BoxCoversTile ==
  ASSUME NEW tri, NEW verts, TriangleOK(tri, verts), NEW p \in tri.cover
  PROVE  p \in Pixels /\ InBox(tri, p) /\ TileOf(p) \in Tiles \cap TilesOf(tri)
<1> DEFINE tx == X(p) \div TILE
           ty == Y(p) \div TILE
<1>1. p \in Pixels /\ InBox(tri, p)
  BY DEF TriangleOK
<1>2. /\ W \in Nat \ {0} /\ H \in Nat \ {0} /\ TILE \in Nat \ {0}
      /\ TILES_X \in Nat \ {0} /\ TILES_Y \in Nat \ {0}
      /\ X(p) \in Nat /\ Y(p) \in Nat
      /\ tri.minX \in Int /\ tri.maxX \in Int /\ tri.minY \in Int /\ tri.maxY \in Int
  BY <1>1, SizeAssumption, TileCounts, PixelCoordinates DEF TriangleOK
<1>3. /\ LoX(tri) \in Nat /\ HiX(tri) \in Int /\ LoX(tri) <= X(p) /\ X(p) <= HiX(tri)
      /\ LoY(tri) \in Nat /\ HiY(tri) \in Int /\ LoY(tri) <= Y(p) /\ Y(p) <= HiY(tri)
  BY <1>1, <1>2 DEF InBox, LoX, HiX, LoY, HiY, Minimum, Maximum
<1>4. HiX(tri) \in Nat /\ HiY(tri) \in Nat
  BY <1>2, <1>3
<1>5. /\ LoX(tri) \div TILE <= tx /\ tx <= HiX(tri) \div TILE
      /\ LoY(tri) \div TILE <= ty /\ ty <= HiY(tri) \div TILE
  BY <1>2, <1>3, <1>4, DivMonotone
<1>6. /\ tx \in 0 .. TILES_X - 1 /\ ty \in 0 .. TILES_Y - 1
      /\ TileOf(p) = ty * TILES_X + tx /\ TileOf(p) \in Tiles
  BY <1>1, TileOfPixel
<1>7. /\ LoX(tri) \div TILE \in Nat /\ HiX(tri) \div TILE \in Nat
      /\ LoY(tri) \div TILE \in Nat /\ HiY(tri) \div TILE \in Nat
  BY <1>2, <1>3, <1>4, DivMod
<1> HIDE DEF tx, ty
<1>8. /\ ty \in LoY(tri) \div TILE .. Minimum(HiY(tri) \div TILE, TILES_Y - 1)
      /\ tx \in LoX(tri) \div TILE .. Minimum(HiX(tri) \div TILE, TILES_X - 1)
  BY <1>2, <1>5, <1>6, <1>7 DEF Minimum
<1>9. TileOf(p) \in TilesOf(tri)
  BY <1>6, <1>8 DEF TilesOf
<1> QED BY <1>1, <1>6, <1>9

----------------------------------------------------------------------------
(* What a tile's scan reaches: each fragment of the tile's pixels, the fragments
   of a pixel in the order in which the triangles were submitted. *)

LEMMA IncreasingBound ==
  ASSUME NEW n \in Nat, NEW s \in Seq(1 .. n), IsIncreasing(s)
  PROVE  DOMAIN s \subseteq 1 .. n
<1>1. Len(s) \in Nat /\ DOMAIN s = 1 .. Len(s) /\ \A i \in 1 .. Len(s) : s[i] \in 1 .. n
  BY LenProperties, ElementOfSeq
<1> DEFINE S == {i \in DOMAIN s : s[i] < i}
<1>2. S = {}
  <2> SUFFICES ASSUME S # {} PROVE FALSE
    OBVIOUS
  <2>1. S \in SUBSET Nat
    BY <1>1
  <2> HIDE DEF S
  <2>2. PICK m \in S : \A k \in S : m <= k
    BY <2>1, LeastNat
  <2>3. m \in 1 .. Len(s) /\ s[m] < m /\ s[m] \in 1 .. n
    BY <1>1, <2>2 DEF S
  <2>4. m # 1
    BY <2>3
  <2>5. m - 1 \in 1 .. Len(s) /\ m - 1 < m /\ s[m - 1] \in 1 .. n
    BY <1>1, <2>3, <2>4
  <2>6. s[m - 1] < s[m]
    BY <1>1, <2>3, <2>5 DEF IsIncreasing
  <2>7. m - 1 \in S
    BY <1>1, <2>3, <2>5, <2>6 DEF S
  <2> QED BY <2>2, <2>3, <2>7
<1>3. ASSUME NEW i \in DOMAIN s PROVE i \in 1 .. n
  <2>1. ~(s[i] < i)
    BY <1>2
  <2> QED BY <1>1, <2>1
<1> QED BY <1>3

LEMMA ScanSound ==
  ASSUME VertexInv, BinInv, phase = "raster", NEW t \in Tiles, NEW f \in TileScan(t)
  PROVE  /\ f \in Places /\ f.pix \in Pixels /\ f.tri \in FragmentsAt(f.pix)
         /\ f.tri \in 1 .. Len(Tris) /\ f.pix \in Tris[f.tri].cover /\ TileOf(f.pix) = t
<1>1. /\ f \in Places /\ f.pos \in DOMAIN bins[f.bin][t]
      /\ f.tri = setups[f.bin][bins[f.bin][t][f.pos]]
      /\ f.pix \in Tris[f.tri].cover /\ InTile(t, f.pix)
  BY DEF TileScan
<1>2. f.bin \in Threads /\ f.pix \in Pixels /\ f.tri \in 1 .. Len(Tris)
  BY <1>1 DEF Places
<1>3. bins[f.bin][t][f.pos] \in DOMAIN setups[f.bin]
  BY <1>1, <1>2 DEF BinInv, BinTypes
<1>4. ~Tris[f.tri].culled
  BY <1>1, <1>2, <1>3 DEF BinInv, SetUp
<1>5. TileOf(f.pix) = t
  BY <1>1, <1>2, TileOfPixel, TilesDisjoint
<1> QED BY <1>1, <1>2, <1>4, <1>5 DEF FragmentsAt

LEMMA ScanComplete ==
  ASSUME VertexInv, BinInv, phase = "raster", NEW p \in Pixels, NEW i \in FragmentsAt(p)
  PROVE  TileOf(p) \in Tiles /\ \E f \in TileScan(TileOf(p)) : f.tri = i /\ f.pix = p
<1> DEFINE n == Len(Tris)
           t == TileOf(p)
<1>1. /\ BinTypes /\ Sorted /\ SetUp /\ Binned /\ Barrier
      /\ n \in Nat /\ i \in 1 .. n /\ ~Tris[i].culled /\ p \in Tris[i].cover
  BY TrisFacts DEF BinInv, FragmentsAt
<1>2. InBox(Tris[i], p) /\ t \in Tiles \cap TilesOf(Tris[i]) /\ InTile(t, p)
  <2>1. TriangleOK(Tris[i], Draws[draw].verts)
    BY <1>1, TrisFacts
  <2> QED BY <1>1, <2>1, BoxCoversTile, TileOfPixel
<1> HIDE DEF n, t
<1>3. ~ \E th \in Threads : i \in todo[th].lo + 1 .. todo[th].hi
  <2> SUFFICES ASSUME NEW th \in Threads, i \in todo[th].lo + 1 .. todo[th].hi PROVE FALSE
    OBVIOUS
  <2>1. todo[th].lo \in Nat /\ todo[th].hi \in Nat /\ ~(todo[th].lo < todo[th].hi)
    BY <1>1, ChunkTypes DEF Barrier, HasWork
  <2> QED BY <2>1
<1>4. PICK th \in Threads : \E j \in DOMAIN setups[th] : setups[th][j] = i
  BY <1>1, <1>3 DEF SetUp, n
<1>5. PICK j \in DOMAIN setups[th] : setups[th][j] = i
  BY <1>4
<1>6. PICK pos \in DOMAIN bins[th][t] : bins[th][t][pos] = j
  BY <1>1, <1>2, <1>5 DEF Binned
<1>7. pos \in 1 .. n
  <2>1. PICK s : s = setups[th]
    OBVIOUS
  <2>2. PICK b : b = bins[th][t]
    OBVIOUS
  <2>3. s \in Seq(1 .. n) /\ IsIncreasing(s) /\ b \in Seq(Nat) /\ IsIncreasing(b)
        /\ \A k \in DOMAIN b : b[k] \in DOMAIN s
    BY <1>1, <1>2, <2>1, <2>2 DEF BinTypes, Sorted, n
  <2>4. DOMAIN s \subseteq 1 .. n
    BY <1>1, <2>3, IncreasingBound
  <2>5. b \in Seq(1 .. n)
    <3>1. Len(b) \in Nat /\ b \in [1 .. Len(b) -> Nat] /\ DOMAIN b = 1 .. Len(b)
      BY <2>3, LenProperties
    <3>2. \A k \in 1 .. Len(b) : b[k] \in 1 .. n
      BY <2>3, <2>4, <3>1
    <3>3. b \in [1 .. Len(b) -> 1 .. n]
      BY <3>1, <3>2
    <3> QED BY <3>1, <3>3, SeqDef
  <2>6. DOMAIN b \subseteq 1 .. n
    BY <1>1, <2>3, <2>5, IncreasingBound
  <2> QED BY <1>6, <2>2, <2>6
<1> DEFINE f == [bin |-> th, pos |-> pos, tri |-> i, pix |-> p]
<1>8. f \in Places
  BY <1>1, <1>7 DEF Places, n
<1>9. f \in TileScan(t)
  BY <1>1, <1>2, <1>5, <1>6, <1>8 DEF TileScan
<1> QED BY <1>2, <1>9 DEF t

LEMMA ScanOrder ==
  ASSUME VertexInv, BinInv, phase = "raster", NEW t \in Tiles,
         NEW f \in TileScan(t), NEW g \in TileScan(t), f.pix = g.pix, Before(f, g)
  PROVE  f.tri < g.tri
<1> DEFINE j == bins[f.bin][t][f.pos]
           k == bins[g.bin][t][g.pos]
<1>1. /\ f.bin \in Threads /\ f.pos \in DOMAIN bins[f.bin][t] /\ f.tri = setups[f.bin][j]
      /\ g.bin \in Threads /\ g.pos \in DOMAIN bins[g.bin][t] /\ g.tri = setups[g.bin][k]
      /\ f.tri \in Nat /\ g.tri \in Nat /\ f.pix \in Int
  BY DEF TileScan, Places, Pixels
<1>2. BinTypes /\ Chunks /\ Passed /\ Sorted
  BY DEF BinInv
<1>3. j \in DOMAIN setups[f.bin] /\ k \in DOMAIN setups[g.bin]
  BY <1>1, <1>2 DEF BinTypes
<1>4. CASE f.bin < g.bin
  <2>1. f.tri <= todo[f.bin].lo /\ todo[f.bin].hi < g.tri
    BY <1>1, <1>2, <1>3, <1>4 DEF Passed
  <2>2. todo[f.bin].lo <= todo[f.bin].hi /\ todo[f.bin].lo \in Nat /\ todo[f.bin].hi \in Nat
    BY <1>1, <1>2, ChunkTypes DEF Chunks
  <2> QED BY <1>1, <2>1, <2>2
<1>5. CASE f.bin = g.bin /\ f.pos < g.pos
  <2>1. j < k
    BY <1>1, <1>2, <1>5 DEF Sorted, IsIncreasing
  <2> QED BY <1>1, <1>2, <1>3, <1>5, <2>1 DEF Sorted, IsIncreasing
<1>6. ~(f.pix < g.pix)
  BY <1>1
<1> QED BY <1>4, <1>5, <1>6 DEF Before

----------------------------------------------------------------------------
(* Rasterization keeps to the scan of the tile in hand and to the types. *)

(* A fragment that a thread has still to reach. *)
LEMMA FragmentFacts ==
  ASSUME RaceInv, VertexInv, BinInv, ScanInv, NEW th \in Threads, NEW f \in work[th]
  PROVE  /\ phase = "raster" /\ tile[th] \in Tiles /\ f \in TileScan(tile[th])
         /\ TileOf(f.pix) = tile[th] /\ tile[th] \notin untaken
         /\ f \in Places /\ f.pix \in Pixels /\ f.tri \in FragmentsAt(f.pix)
         /\ f.tri \in 1 .. Len(Tris) /\ draw \in DOMAIN Draws
         /\ Tris[f.tri].z[f.pix] \in Int
         /\ [tri |-> f.tri, pix |-> f.pix] \in Fragments
<1>1. tile[th] # NoTile /\ f \in TileScan(tile[th])
  BY DEF ScanInv, RaceInv, OwnPixels, InHand
<1>2. phase = "raster" /\ tile[th] \in Tiles /\ tile[th] \notin untaken
  BY <1>1 DEF RaceInv, OneOwner, RaceTypes
<1>3. /\ f \in Places /\ f.pix \in Pixels /\ f.tri \in FragmentsAt(f.pix)
      /\ f.tri \in 1 .. Len(Tris) /\ f.pix \in Tris[f.tri].cover /\ TileOf(f.pix) = tile[th]
  BY <1>1, <1>2, ScanSound
<1>4. draw \in DOMAIN Draws /\ TriangleOK(Tris[f.tri], Draws[draw].verts)
  BY <1>3, TrisFacts
<1>5. Tris[f.tri].z[f.pix] \in Int
  BY <1>3, <1>4 DEF TriangleOK
<1> QED BY <1>1, <1>2, <1>3, <1>4, <1>5 DEF Fragments

LEMMA ScanKept ==
  ASSUME UNCHANGED <<draw, setups, bins>>
  PROVE  /\ Tris' = Tris /\ Fragments' = Fragments
         /\ \A t : TileScan(t)' = TileScan(t)
<1>1. Tris' = Tris
  BY DEF Tris
<1>2. Fragments' = Fragments /\ Places' = Places
  BY <1>1 DEF Fragments, Places
<1> QED BY <1>1, <1>2 DEF TileScan

(* The batch after a fragment joined it. *)
LEMMA AppendFragment ==
  ASSUME NEW S, NEW b \in Seq(S), NEW e \in S
  PROVE  /\ Append(b, e) \in Seq(S) /\ Len(b) \in Nat /\ Len(Append(b, e)) = Len(b) + 1
         /\ DOMAIN b = 1 .. Len(b) /\ DOMAIN Append(b, e) = 1 .. Len(b) + 1
         /\ Append(b, e)[Len(b) + 1] = e
         /\ \A n \in 1 .. Len(b) : Append(b, e)[n] = b[n]
<1>1. /\ Append(b, e) \in Seq(S) /\ Len(Append(b, e)) = Len(b) + 1
      /\ Append(b, e)[Len(b) + 1] = e /\ \A n \in 1 .. Len(b) : Append(b, e)[n] = b[n]
  BY AppendProperties
<1>2. Len(b) \in Nat /\ DOMAIN b = 1 .. Len(b) /\ DOMAIN Append(b, e) = 1 .. Len(Append(b, e))
  BY <1>1, LenProperties
<1> QED BY <1>1, <1>2

(* Outside the raster pass nothing is in hand. *)
LEMMA OutsideScan ==
  ASSUME RaceInv, UNCHANGED <<tile, work, batch, packetMode>>,
         \A th \in Threads : tile[th] = NoTile,
         phase' # "raster" => untaken' = {}
  PROVE  ScanInv'
<1>1. \A th \in Threads : work'[th] = {} /\ batch'[th] = <<>>
  BY NothingInHand
<1>2. PACKET_W \in Nat \ {0}
  BY SizeAssumption
<1>3. ASSUME NEW th \in Threads
      PROVE  /\ work'[th] \subseteq IF tile'[th] = NoTile THEN {} ELSE TileScan(tile[th])'
             /\ batch'[th] \in Seq(Fragments') /\ Len(batch'[th]) < PACKET_W
             /\ ~packetMode' => batch'[th] = <<>>
  <2>1. <<>> \in Seq(Fragments') /\ Len(<<>>) = 0
    BY EmptySeq
  <2>2. PICK b : b = <<>>
    OBVIOUS
  <2>3. batch'[th] = b /\ work'[th] = {}
    BY <1>1, <2>2
  <2>4. b \in Seq(Fragments') /\ Len(b) < PACKET_W
    BY <1>2, <2>1, <2>2
  <2> QED BY <2>2, <2>3, <2>4
<1> QED BY <1>3 DEF ScanInv

LEMMA ScanNext ==
  ASSUME RaceInv, VertexInv, BinInv, ScanInv, [Next]_vars
  PROVE  ScanInv'
<1>1. ASSUME phase # "raster" PROVE untaken = {} /\ \A th \in Threads : tile[th] = NoTile
  BY <1>1 DEF ScanInv, RaceInv, OneOwner
<1>2. CASE BeginDraw \/ ClearBuffers \/ \E th \in Threads : ShadeVertices(th) \/ BinTriangle(th)
  <2>1. phase # "raster" /\ phase' # "raster" /\ UNCHANGED rasterState /\ packetMode' = packetMode
    BY <1>2 DEF BeginDraw, ClearBuffers, ShadeVertices, BinTriangle, modes
  <2> QED BY <1>1, <2>1, OutsideScan DEF rasterState
<1>3. CASE StartRaster
  <2>1. phase = "bin" /\ phase' = "raster" /\ UNCHANGED <<tile, work, batch>> /\ packetMode' = packetMode
    BY <1>3 DEF StartRaster, modes
  <2> QED BY <1>1, <2>1, OutsideScan
<1>4. CASE EndDraw
  <2>1. /\ untaken = {} /\ (\A th \in Threads : tile[th] = NoTile)
        /\ UNCHANGED rasterState /\ packetMode' = packetMode
    BY <1>4 DEF EndDraw, RasterDone, modes
  <2> QED BY <2>1, OutsideScan DEF rasterState
<1>5. ASSUME NEW th \in Threads, TakeTile(th) PROVE ScanInv'
  <2>1. PICK t \in untaken :
          tile' = [tile EXCEPT ![th] = t] /\ work' = [work EXCEPT ![th] = TileScan(t)]
    BY <1>5 DEF TakeTile
  <2>2. phase' = "raster" /\ UNCHANGED <<batch, packetMode, draw, setups, bins>>
    BY <1>5 DEF TakeTile, modes
  <2>3. /\ tile'[th] = t /\ work'[th] = TileScan(t) /\ t # NoTile
        /\ \A o \in Threads : o # th => tile'[o] = tile[o] /\ work'[o] = work[o]
    BY <2>1, NoTileIsNone DEF RaceInv, RaceTypes
  <2>4. Fragments' = Fragments /\ \A u : TileScan(u)' = TileScan(u)
    BY <2>2, ScanKept
  <2>5. \A o \in Threads : work'[o] \subseteq IF tile'[o] = NoTile THEN {} ELSE TileScan(tile'[o])
    BY <2>3 DEF ScanInv
  <2>6. \A o \in Threads : work'[o] \subseteq IF tile'[o] = NoTile THEN {} ELSE TileScan(tile[o])'
    BY <2>2, <2>5 DEF TileScan, Places, Tris
  <2> QED BY <2>2, <2>4, <2>6 DEF ScanInv
<1>6. ASSUME NEW th \in Threads, EndTile(th) PROVE ScanInv'
  <2>1. /\ UNCHANGED <<phase, untaken, work, packetMode, draw, setups, bins>> /\ work[th] = {}
        /\ batch' = [batch EXCEPT ![th] = <<>>] /\ tile' = [tile EXCEPT ![th] = NoTile]
    BY <1>6 DEF EndTile, modes
  <2>2. /\ batch'[th] = <<>> /\ tile'[th] = NoTile
        /\ \A o \in Threads : o # th => batch'[o] = batch[o] /\ tile'[o] = tile[o]
    BY <2>1 DEF RaceInv, RaceTypes
  <2>3. Fragments' = Fragments
    BY <2>1, ScanKept
  <2>4. \A o \in Threads : work'[o] \subseteq IF tile'[o] = NoTile THEN {} ELSE TileScan(tile'[o])
    BY <2>1, <2>2 DEF ScanInv
  <2>5. \A o \in Threads : work'[o] \subseteq IF tile'[o] = NoTile THEN {} ELSE TileScan(tile[o])'
    BY <2>1, <2>4 DEF TileScan, Places, Tris
  <2>6. <<>> \in Seq(Fragments) /\ Len(<<>>) < PACKET_W
    BY SizeAssumption, EmptySeq
  <2>7. \A o \in Threads : /\ batch'[o] \in Seq(Fragments) /\ Len(batch'[o]) < PACKET_W
                           /\ ~packetMode => batch'[o] = <<>>
    BY <2>2, <2>6 DEF ScanInv
  <2> QED BY <2>1, <2>3, <2>5, <2>7 DEF ScanInv
<1>7. ASSUME NEW th \in Threads, NEW f \in work[th], SkipFragment(th, f) \/ ShadeFragment(th, f)
      PROVE  ScanInv'
  <2> DEFINE e == [tri |-> f.tri, pix |-> f.pix]
             b == Append(batch[th], e)
  <2>1. /\ UNCHANGED <<phase, untaken, tile, packetMode, draw, setups, bins>>
        /\ work' = [work EXCEPT ![th] = @ \ {f}]
    BY <1>7 DEF SkipFragment, ShadeFragment, modes
  <2>2. \/ batch' = batch
        \/ packetMode /\ Len(b) < PACKET_W /\ batch' = [batch EXCEPT ![th] = b]
        \/ batch' = [batch EXCEPT ![th] = <<>>]
    BY <1>7 DEF SkipFragment, ShadeFragment
  <2>3. Fragments' = Fragments /\ e \in Fragments
    BY <2>1, ScanKept, FragmentFacts
  <2>4. \A o \in Threads : work'[o] \subseteq work[o]
    BY <2>1 DEF RaceInv, RaceTypes
  <2>5. \A o \in Threads : work'[o] \subseteq IF tile'[o] = NoTile THEN {} ELSE TileScan(tile'[o])
    BY <2>1, <2>4 DEF ScanInv
  <2>6. \A o \in Threads : work'[o] \subseteq IF tile'[o] = NoTile THEN {} ELSE TileScan(tile[o])'
    BY <2>1, <2>5 DEF TileScan, Places, Tris
  <2>7. b \in Seq(Fragments)
    <3> HIDE DEF e
    <3> QED BY <2>3, AppendFragment DEF ScanInv
  <2>8. <<>> \in Seq(Fragments) /\ Len(<<>>) < PACKET_W
    BY SizeAssumption, EmptySeq
  <2> HIDE DEF b
  <2>9. ASSUME NEW o \in Threads
        PROVE  /\ batch'[o] \in Seq(Fragments) /\ Len(batch'[o]) < PACKET_W
               /\ ~packetMode => batch'[o] = <<>>
    <3>1. CASE batch'[o] = batch[o]
      BY <3>1 DEF ScanInv
    <3>2. CASE batch'[o] = b /\ packetMode /\ Len(b) < PACKET_W
      BY <2>7, <3>2
    <3>3. CASE batch'[o] = <<>>
      BY <2>8, <3>3
    <3> QED BY <2>2, <3>1, <3>2, <3>3 DEF RaceInv, RaceTypes
  <2> QED BY <2>1, <2>3, <2>6, <2>9 DEF ScanInv
<1>8. CASE UNCHANGED vars
  <2>1. UNCHANGED <<phase, untaken, tile, work, batch, packetMode, draw, setups, bins>>
    BY <1>8 DEF vars, modes
  <2>2. \A o \in Threads : work'[o] \subseteq IF tile'[o] = NoTile THEN {} ELSE TileScan(tile[o])'
    BY <2>1 DEF ScanInv, TileScan, Places, Tris
  <2> QED BY <2>1, <2>2, ScanKept DEF ScanInv
<1> QED BY <1>2, <1>3, <1>4, <1>5, <1>6, <1>7, <1>8 DEF Next, MasterStep, ThreadStep

(* What is seen of a pixel's fragments in a batch is the last one kept. *)
LEMMA KeptLast ==
  ASSUME NEW S, NEW b \in Seq(S), NEW p, Kept(b, p) # {}
  PROVE  /\ Max(Kept(b, p)) \in Kept(b, p) /\ Max(Kept(b, p)) \in DOMAIN b
         /\ \A n \in Kept(b, p) : n <= Max(Kept(b, p))
<1>1. Len(b) \in Nat /\ DOMAIN b = 1 .. Len(b)
  BY LenProperties
<1>2. Kept(b, p) \in SUBSET (1 .. Len(b))
  BY <1>1 DEF Kept
<1> QED BY <1>1, <1>2, MaxNat

LEMMA ColourTypes ==
  ASSUME VertexInv, BufferTypes
  PROVE  /\ \A i \in 1 .. Len(Tris) : <<draw, i>> \in Colours
         /\ \A b \in Seq(Fragments) : Flushed(b) \in [Pixels -> Colours]
<1>1. ASSUME NEW i \in 1 .. Len(Tris) PROVE <<draw, i>> \in Colours
  <2>1. draw \in DOMAIN Draws /\ i \in DOMAIN Draws[draw].tris
    BY TrisFacts DEF Tris
  <2>2. <<draw, i>> \in {draw} \X DOMAIN Draws[draw].tris
    BY <2>1
  <2> QED BY <2>1, <2>2 DEF Colours
<1>2. ASSUME NEW b \in Seq(Fragments), NEW p \in Pixels PROVE Flushed(b)[p] \in Colours
  <2>1. CASE Kept(b, p) = {}
    BY <2>1 DEF Flushed, BufferTypes
  <2>2. CASE Kept(b, p) # {}
    <3>1. PICK n \in DOMAIN b : n = Max(Kept(b, p))
      BY <2>2, KeptLast
    <3>2. b[n] \in Fragments
      BY <3>1, LenProperties, ElementOfSeq
    <3>3. b[n].tri \in 1 .. Len(Tris)
      BY <3>2 DEF Fragments
    <3>4. Flushed(b)[p] = <<draw, b[n].tri>>
      BY <2>2, <3>1 DEF Flushed
    <3> QED BY <1>1, <3>3, <3>4
  <2> QED BY <2>1, <2>2
<1>3. ASSUME NEW b \in Seq(Fragments) PROVE Flushed(b) \in [Pixels -> Colours]
  <2>1. Flushed(b) = [p \in Pixels |-> Flushed(b)[p]]
    BY DEF Flushed
  <2> QED BY <1>2, <2>1
<1> QED BY <1>1, <1>3

LEMMA BuffersKept ==
  ASSUME BufferTypes, UNCHANGED <<modes, zbuf>>, rgb' = rgb \/ rgb' \in [Pixels -> Colours]
  PROVE  BufferTypes'
BY DEF BufferTypes, modes, Colours

LEMMA BufferNext ==
  ASSUME RaceInv, VertexInv, BinInv, ScanInv, BufferTypes, [Next]_vars
  PROVE  BufferTypes'
<1>1. CASE \/ BeginDraw \/ StartRaster \/ EndDraw \/ UNCHANGED vars
           \/ \E th \in Threads : \/ ShadeVertices(th) \/ BinTriangle(th) \/ TakeTile(th)
                                  \/ \E f \in work[th] : SkipFragment(th, f)
  <2>1. UNCHANGED <<modes, zbuf, rgb>>
    BY <1>1 DEF BeginDraw, StartRaster, EndDraw, vars, ShadeVertices, BinTriangle, TakeTile,
                SkipFragment
  <2> QED BY <2>1, BuffersKept
<1>2. CASE ClearBuffers
  <2>1. CASE Draws[draw].clear
    <3>1. /\ rgb' = [p \in Pixels |-> <<0, 0>>] /\ zbuf' = [p \in Pixels |-> ZFar]
          /\ UNCHANGED modes
      BY <1>2, <2>1 DEF ClearBuffers
    <3>2. <<0, 0>> \in Colours
      BY DEF Colours
    <3>3. rgb' \in [Pixels -> Colours]
      BY <3>1, <3>2
    <3>4. zbuf' \in [Pixels -> Int] /\ \A p \in Pixels : zbuf'[p] <= ZFar
      BY <3>1, SizeAssumption
    <3> QED BY <3>1, <3>3, <3>4 DEF BufferTypes, modes
  <2>2. CASE ~Draws[draw].clear
    <3>1. UNCHANGED <<modes, zbuf, rgb>>
      BY <1>2, <2>2 DEF ClearBuffers
    <3> QED BY <3>1, BuffersKept
  <2> QED BY <2>1, <2>2
<1>3. ASSUME NEW th \in Threads, EndTile(th) PROVE BufferTypes'
  <2>1. UNCHANGED <<modes, zbuf>> /\ rgb' = Flushed(batch[th])
    BY <1>3 DEF EndTile
  <2>2. rgb' \in [Pixels -> Colours]
    BY <2>1, ColourTypes DEF ScanInv
  <2> QED BY <2>1, <2>2, BuffersKept
<1>4. ASSUME NEW th \in Threads, NEW f \in work[th], ShadeFragment(th, f) PROVE BufferTypes'
  <2> DEFINE e == [tri |-> f.tri, pix |-> f.pix]
             b == Append(batch[th], e)
             z == Tris[f.tri].z[f.pix]
  <2>1. /\ UNCHANGED modes /\ zbuf' = [zbuf EXCEPT ![f.pix] = z] /\ ~(z >= zbuf[f.pix])
        /\ rgb' = rgb \/ rgb' = Write(rgb, f) \/ rgb' = Flushed(b)
    BY <1>4 DEF ShadeFragment, Hidden
  <2>2. /\ f.pix \in Pixels /\ f.tri \in 1 .. Len(Tris) /\ z \in Int /\ e \in Fragments
    BY FragmentFacts
  <2> HIDE DEF e, z
  <2>3. b \in Seq(Fragments)
    BY <2>2, AppendFragment DEF ScanInv
  <2>4. Write(rgb, f) \in [Pixels -> Colours]
    <3>1. <<draw, f.tri>> \in Colours
      BY <2>2, ColourTypes
    <3> QED BY <2>2, <3>1 DEF Write, BufferTypes
  <2> HIDE DEF b
  <2>5. rgb' \in [Pixels -> Colours]
    BY <2>1, <2>3, <2>4, ColourTypes DEF BufferTypes
  <2>6. zbuf' \in [Pixels -> Int]
    BY <2>1, <2>2 DEF BufferTypes
  <2>7. ASSUME NEW p \in Pixels PROVE zbuf'[p] <= ZFar
    BY <2>1, <2>2, SizeAssumption DEF BufferTypes
  <2> QED BY <2>1, <2>5, <2>6, <2>7 DEF BufferTypes, modes
<1> QED BY <1>1, <1>2, <1>3, <1>4 DEF Next, MasterStep, ThreadStep

LEMMA RasterInit == Init => RasterInv
<1> SUFFICES ASSUME Init PROVE RasterInv
  OBVIOUS
<1>1. RaceInv /\ VertexInv
  BY RaceInit, InitVertex
<1>2. phase = "idle" /\ untaken = {}
  BY DEF Init
<1>3. BinInv
  BY <1>2 DEF BinInv
<1>4. ScanInv
  <2>1. \A th \in Threads : work[th] = {} /\ batch[th] = <<>>
    BY DEF Init
  <2>2. <<>> \in Seq(Fragments) /\ Len(<<>>) < PACKET_W
    BY SizeAssumption, EmptySeq
  <2> QED BY <1>2, <2>1, <2>2 DEF ScanInv
<1>5. BufferTypes
  BY SizeAssumption DEF Init, BufferTypes, Colours
<1> QED BY <1>1, <1>3, <1>4, <1>5 DEF RasterInv

LEMMA RasterNext == RasterInv /\ [Next]_vars => RasterInv'
BY RaceNext, VertexNext, BinNext, ScanNext, BufferNext DEF RasterInv

LEMMA RasterInvariant == Spec => []RasterInv
BY RasterInit, RasterNext, PTL DEF Spec

(* The state keeps to its types: bins refer to triangles that were set up, the
   depth of a pixel never exceeds that of an empty one, and no batch is as long
   as a packet once its fragment is stored. *)
THEOREM RasterTypes == Spec => []TypeOK
<1>1. RasterInv => TypeOK
  <2> SUFFICES ASSUME RasterInv PROVE TypeOK
    OBVIOUS
  <2>1. /\ vsPacketMode \in BOOLEAN /\ packetMode \in BOOLEAN
        /\ zbuf \in [Pixels -> Int] /\ (\A p \in Pixels : zbuf[p] <= ZFar)
        /\ rgb \in [Pixels -> Colours]
    BY DEF RasterInv, BufferTypes
  <2>2. /\ phase \in {"idle", "vs", "bin", "raster"} /\ draw \in DOMAIN Draws
        /\ todo \in [Threads -> Loops] /\ shaded \subseteq 0 .. Draws[draw].verts - 1
    BY DEF RasterInv, VertexInv, Vertices
  <2>3. phase \in {"bin", "raster"} =>
          /\ setups \in [Threads -> Seq(1 .. Len(Tris))]
          /\ \A th \in Threads, t \in Tiles :
               \A i \in DOMAIN bins[th][t] : bins[th][t][i] \in DOMAIN setups[th]
    BY DEF RasterInv, BinInv, BinTypes
  <2>4. /\ untaken \subseteq Tiles /\ tile \in [Threads -> Tiles \cup {NoTile}]
    BY DEF RasterInv, RaceInv, RaceTypes
  <2>5. ASSUME NEW th \in Threads
        PROVE  work[th] \subseteq Places /\ batch[th] \in Seq(Fragments) /\ Len(batch[th]) < PACKET_W
    BY DEF RasterInv, ScanInv, TileScan
  <2>6. /\ work \in [Threads -> SUBSET Places] /\ batch \in [Threads -> Seq(Fragments)]
        /\ \A th \in Threads : Len(batch[th]) < PACKET_W
    <3>1. work = [th \in Threads |-> work[th]] /\ batch = [th \in Threads |-> batch[th]]
      BY DEF RasterInv, RaceInv, RaceTypes
    <3> QED BY <2>5, <3>1
  <2> QED BY <2>1, <2>2, <2>3, <2>4, <2>6 DEF TypeOK
<1> QED BY <1>1, RasterInvariant, PTL

-----------------------------------------------------------------------------
(* TileRaster implements InOrderRaster.  A pixel's fragments are in one tile, which one thread
   scans, bin after bin: by BinInv it reaches them in the order of submission, so that the
   fragment it reaches is the next one of its pixel (NextFragment).  What the pixel shows is
   decided by the one batch that holds a fragment of it (OneBatch, ShownColour), whether the
   fragment is stored there, or the batch is flushed (NewBatch).  A step of the scan is then a
   step of its pixel, ClearBuffers and EndDraw start and finish the draw, and every other step
   leaves the abstract state as it is. *)

(* The abstract colour of a pixel is decided by the one batch that holds a
   fragment of it that is kept, or by the framebuffer if there is none. *)

LEMMA OneBatch ==
  ASSUME RaceInv, NEW th \in Threads, NEW other \in Threads, NEW p \in Pixels,
         \/ InHand(th, p)
         \/ Kept(batch[th], p) # {},
         Kept(batch[other], p) # {}
  PROVE  th = other
<1>1. \A o \in Threads : Kept(batch[o], p) # {} => InHand(o, p)
  BY DEF RaceInv, OwnPixels, Kept
<1>2. InHand(th, p) /\ InHand(other, p)
  BY <1>1
<1>3. tile[th] \in Tiles /\ tile[other] \in Tiles
  BY <1>2 DEF InHand, RaceInv, RaceTypes
<1>4. tile[th] = tile[other]
  BY <1>2, <1>3, TilesDisjoint DEF InHand
<1> QED BY <1>2, <1>4 DEF InHand, RaceInv, OneOwner

LastKept(b, p) == <<draw, b[Max(Kept(b, p))].tri>>

ColourShown ==
  /\ AbsColour = [p \in Pixels |-> AbsColour[p]]
  /\ \A p \in Pixels :
       /\ \A th \in Threads : Kept(batch[th], p) # {} => AbsColour[p] = LastKept(batch[th], p)
       /\ (\A th \in Threads : Kept(batch[th], p) = {}) => AbsColour[p] = rgb[p]

LEMMA ShownColour == RaceInv => ColourShown
<1> SUFFICES ASSUME RaceInv PROVE ColourShown
  OBVIOUS
<1>1. AbsColour = [p \in Pixels |-> AbsColour[p]]
  BY DEF AbsColour
<1>2. ASSUME NEW p \in Pixels, NEW th \in Threads, Kept(batch[th], p) # {}
      PROVE  AbsColour[p] = LastKept(batch[th], p)
  <2> DEFINE owners == {o \in Threads : Kept(batch[o], p) # {}}
  <2>1. owners = {th}
    BY <1>2, OneBatch
  <2>2. (CHOOSE o \in owners : TRUE) = th
    BY <2>1
  <2>3. AbsColour[p] = Flushed(batch[th])[p]
    BY <2>1, <2>2 DEF AbsColour
  <2> QED BY <1>2, <2>3 DEF Flushed, LastKept
<1>3. ASSUME NEW p \in Pixels, \A th \in Threads : Kept(batch[th], p) = {}
      PROVE  AbsColour[p] = rgb[p]
  <2>1. {o \in Threads : Kept(batch[o], p) # {}} = {}
    BY <1>3
  <2> QED BY <2>1 DEF AbsColour
<1> QED BY <1>1, <1>2, <1>3 DEF ColourShown

(* A thread's fragments are in c: stored, or flushed already. *)
LEMMA NewBatch ==
  ASSUME RaceInv, ColourShown, ColourShown', NEW th \in Threads, NEW c, draw' = draw,
         \/ batch' = [batch EXCEPT ![th] = c] /\ rgb' = rgb
         \/ batch' = [batch EXCEPT ![th] = <<>>] /\ rgb' = Flushed(c),
         \A p \in Pixels : Kept(c, p) = {} => Kept(batch[th], p) = {},
         \A n \in DOMAIN c : InHand(th, c[n].pix),
         NEW p \in Pixels
  PROVE  AbsColour'[p] = IF Kept(c, p) = {} THEN AbsColour[p] ELSE LastKept(c, p)
<1>1. Tris' = Tris /\ \A b : Kept(b, p)' = Kept(b, p) /\ LastKept(b, p)' = LastKept(b, p)
  BY DEF Tris, Kept, Dropped, LastKept
<1>2. /\ \A o \in Threads : Kept(batch'[o], p) # {} => AbsColour'[p] = LastKept(batch'[o], p)
      /\ (\A o \in Threads : Kept(batch'[o], p) = {}) => AbsColour'[p] = rgb'[p]
  <2>1. \A o \in Threads : Kept(batch[o], p)' = Kept(batch'[o], p)
                           /\ LastKept(batch[o], p)' = LastKept(batch'[o], p)
    BY <1>1 DEF Kept, Dropped, LastKept
  <2> QED BY <2>1 DEF ColourShown
<1>3. /\ \A o \in Threads : o # th => batch'[o] = batch[o]
      /\ \/ batch'[th] = c /\ rgb' = rgb
         \/ batch'[th] = <<>> /\ rgb' = Flushed(c)
  BY DEF RaceInv, RaceTypes
<1>4. Kept(<<>>, p) = {}
  BY DEF Kept
<1>5. CASE Kept(c, p) = {}
  <2>1. rgb'[p] = rgb[p] /\ Kept(batch'[th], p) = {} /\ Kept(batch[th], p) = {}
    BY <1>3, <1>4, <1>5 DEF Flushed
  <2>2. CASE \E o \in Threads : Kept(batch[o], p) # {}
    <3>1. PICK o \in Threads : Kept(batch[o], p) # {}
      BY <2>2
    <3>2. batch'[o] = batch[o]
      BY <1>3, <2>1, <3>1
    <3> QED BY <1>2, <1>5, <3>1, <3>2 DEF ColourShown
  <2>3. CASE \A o \in Threads : Kept(batch[o], p) = {}
    <3>1. \A o \in Threads : Kept(batch'[o], p) = {}
      BY <1>3, <2>1, <2>3
    <3> QED BY <1>2, <1>5, <2>1, <2>3, <3>1 DEF ColourShown
  <2> QED BY <2>2, <2>3
<1>6. CASE Kept(c, p) # {}
  <2>1. InHand(th, p)
    BY <1>6 DEF Kept
  <2>2. \A o \in Threads : o # th => Kept(batch'[o], p) = {}
    BY <1>3, <2>1, OneBatch
  <2>3. CASE batch'[th] = c
    BY <1>2, <1>6, <2>3
  <2>4. CASE batch'[th] = <<>> /\ rgb' = Flushed(c)
    <3>1. AbsColour'[p] = rgb'[p]
      BY <1>2, <1>4, <2>2, <2>4
    <3> QED BY <1>6, <2>4, <3>1 DEF Flushed, LastKept
  <2> QED BY <1>3, <2>3, <2>4
<1> QED BY <1>5, <1>6

(* A fragment joins the batch: it is what its pixel shows, unless fs_packet
   reports it dead. *)
LEMMA KeptAppend ==
  ASSUME NEW S, NEW b \in Seq(S), NEW e \in S, NEW p
  PROVE  IF e.pix = p /\ ~Dropped(e)
         THEN Kept(Append(b, e), p) # {} /\ LastKept(Append(b, e), p) = <<draw, e.tri>>
         ELSE /\ Kept(Append(b, e), p) = Kept(b, p)
              /\ Kept(b, p) # {} => LastKept(Append(b, e), p) = LastKept(b, p)
<1> DEFINE n == Len(b)
<1>1. PICK c : c = Append(b, e)
  OBVIOUS
<1>2. /\ n \in Nat /\ c \in Seq(S) /\ DOMAIN b = 1 .. n /\ DOMAIN c = 1 .. n + 1 /\ c[n + 1] = e
      /\ \A k \in 1 .. n : c[k] = b[k]
  BY <1>1, AppendFragment
<1> HIDE DEF n
<1>3. CASE e.pix = p /\ ~Dropped(e)
  <2>1. n + 1 \in Kept(c, p)
    BY <1>2, <1>3 DEF Kept
  <2>2. /\ Max(Kept(c, p)) \in DOMAIN c /\ n + 1 <= Max(Kept(c, p))
    BY <1>2, <2>1, KeptLast
  <2>3. Max(Kept(c, p)) = n + 1
    BY <1>2, <2>2
  <2> QED BY <1>1, <1>2, <1>3, <2>1, <2>3 DEF LastKept
<1>4. CASE ~(e.pix = p /\ ~Dropped(e))
  <2>1. Kept(c, p) = Kept(b, p)
    <3>1. \A k \in DOMAIN c : k \in DOMAIN b \/ k = n + 1
      BY <1>2
    <3>2. \A k \in DOMAIN b : k \in DOMAIN c /\ c[k] = b[k]
      BY <1>2
    <3> QED BY <1>2, <1>4, <3>1, <3>2 DEF Kept
  <2>2. ASSUME Kept(b, p) # {} PROVE LastKept(c, p) = LastKept(b, p)
    <3>1. Max(Kept(b, p)) \in DOMAIN b
      BY <2>2, KeptLast
    <3> QED BY <1>2, <2>1, <3>1 DEF LastKept
  <2> QED BY <1>1, <1>4, <2>1, <2>2
<1> QED BY <1>3, <1>4

----------------------------------------------------------------------------
(* The steps of TileRaster are steps of InOrderRaster, or leave its state. *)

LEMMA ColourKept ==
  ASSUME UNCHANGED <<draw, batch, rgb>>
  PROVE  AbsColour' = AbsColour
BY DEF AbsColour, Flushed, Kept, Dropped, Tris

LEMMA PendingKept ==
  ASSUME UNCHANGED <<draw, untaken, work>>, phase' = "bin" <=> phase = "bin"
  PROVE  AbsPending' = AbsPending
BY DEF AbsPending, FragmentsAt, Unreached, Tris

(* What a pixel has still to take, once its tile was handed out. *)
LEMMA PendingInHand ==
  ASSUME RasterInv, NEW th \in Threads, NEW p \in Pixels, InHand(th, p)
  PROVE  /\ phase = "raster" /\ TileOf(p) = tile[th] /\ TileOf(p) \notin untaken
         /\ Unreached(p) = {f \in work[th] : f.pix = p}
         /\ AbsPending[p] = {f.tri : f \in Unreached(p)}
<1>1. RaceInv /\ VertexInv /\ BinInv /\ ScanInv
  BY DEF RasterInv
<1>2. phase = "raster" /\ tile[th] \in Tiles /\ tile[th] \notin untaken
  BY <1>1 DEF InHand, RaceInv, OneOwner, RaceTypes
<1>3. TileOf(p) = tile[th]
  BY <1>2, TileOfPixel, TilesDisjoint DEF InHand
<1>4. ASSUME NEW o \in Threads, NEW f \in work[o], f.pix = p PROVE o = th
  <2>1. TileOf(p) = tile[o] /\ tile[o] \in Tiles
    BY <1>1, <1>4, FragmentFacts
  <2> QED BY <1>1, <1>3, <2>1, NoTileIsNone DEF RaceInv, OneOwner
<1>5. Unreached(p) = {f \in work[th] : f.pix = p}
  BY <1>4 DEF Unreached
<1>6. AbsPending[p] = {f.tri : f \in Unreached(p)}
  BY <1>2, <1>3 DEF AbsPending
<1> QED BY <1>2, <1>3, <1>5, <1>6

LEMMA StartRasterPending ==
  ASSUME StartRaster
  PROVE  AbsPending' = AbsPending
<1>1. /\ phase = "bin" /\ phase' = "raster" /\ untaken' = Tiles /\ draw' = draw
  BY DEF StartRaster
<1>2. \A p \in Pixels : TileOf(p) \in untaken'
  BY <1>1, TileOfPixel
<1>3. \A p : FragmentsAt(p)' = FragmentsAt(p)
  BY <1>1 DEF FragmentsAt, Tris
<1> QED BY <1>1, <1>2, <1>3 DEF AbsPending

LEMMA TakeTilePending ==
  ASSUME RasterInv, NEW th \in Threads, TakeTile(th)
  PROVE  AbsPending' = AbsPending
<1>1. PICK t \in untaken :
        /\ untaken' = untaken \ {t} /\ work' = [work EXCEPT ![th] = TileScan(t)]
  BY DEF TakeTile
<1>2. /\ phase = "raster" /\ phase' = "raster" /\ draw' = draw /\ tile[th] = NoTile /\ t \in Tiles
      /\ RaceInv /\ VertexInv /\ BinInv /\ ScanInv
  BY DEF TakeTile, RasterInv, RaceInv, RaceTypes
<1>3. /\ work'[th] = TileScan(t) /\ work[th] = {}
      /\ \A o \in Threads : o # th => work'[o] = work[o]
  BY <1>1, <1>2, NothingInHand DEF RaceInv, RaceTypes
<1>4. \A p : FragmentsAt(p)' = FragmentsAt(p)
  BY <1>2 DEF FragmentsAt, Tris
<1>5. \A f \in TileScan(t) : TileOf(f.pix) = t /\ f.tri \in FragmentsAt(f.pix)
  BY <1>2, ScanSound
<1>6. \A o \in Threads : \A f \in work[o] : TileOf(f.pix) # t
  BY <1>2, FragmentFacts
<1>7. ASSUME NEW p \in Pixels PROVE AbsPending'[p] = AbsPending[p]
  <2>1. CASE TileOf(p) = t
    <3>1. Unreached(p)' = {f \in TileScan(t) : f.pix = p}
      BY <1>3, <1>6, <2>1 DEF Unreached
    <3>2. {f.tri : f \in Unreached(p)'} = FragmentsAt(p)
      BY <1>2, <1>5, <2>1, <3>1, ScanComplete
    <3>3. AbsPending[p] = FragmentsAt(p)
      BY <2>1 DEF AbsPending
    <3>4. AbsPending'[p] = {f.tri : f \in Unreached(p)'}
      BY <1>1, <1>2, <2>1 DEF AbsPending
    <3> QED BY <3>2, <3>3, <3>4
  <2>2. CASE TileOf(p) # t
    <3>1. Unreached(p)' = Unreached(p)
      BY <1>3, <1>5, <2>2 DEF Unreached
    <3>2. TileOf(p) \in untaken' <=> TileOf(p) \in untaken
      BY <1>1, <2>2
    <3> QED BY <1>2, <1>4, <3>1, <3>2 DEF AbsPending
  <2> QED BY <2>1, <2>2
<1>8. AbsPending = [p \in Pixels |-> AbsPending[p]] /\ AbsPending' = [p \in Pixels |-> AbsPending'[p]]
  BY DEF AbsPending
<1> QED BY <1>7, <1>8

(* The fragment that the scan reaches is its pixel's next in submission order. *)
LEMMA NextFragment ==
  ASSUME RasterInv, NEW th \in Threads, NEW f \in work[th], Reached(th, f),
         work' = [work EXCEPT ![th] = @ \ {f}], UNCHANGED <<phase, draw, untaken>>
  PROVE  /\ f.tri \in AbsPending[f.pix] /\ Min(AbsPending[f.pix]) = f.tri
         /\ AbsPending' = [AbsPending EXCEPT ![f.pix] = @ \ {f.tri}]
<1> DEFINE p == f.pix
<1>1. RaceInv /\ VertexInv /\ BinInv /\ ScanInv
  BY DEF RasterInv
<1>2. /\ phase = "raster" /\ tile[th] \in Tiles /\ p \in Pixels /\ InHand(th, p)
      /\ work[th] \subseteq TileScan(tile[th])
  BY <1>1, FragmentFacts, NoTileIsNone DEF RaceInv, OwnPixels, ScanInv
<1>3. /\ TileOf(p) \notin untaken /\ Unreached(p) = {g \in work[th] : g.pix = p}
      /\ AbsPending[p] = {g.tri : g \in Unreached(p)}
  BY <1>2, PendingInHand
<1>4. \A g \in Unreached(p) \ {f} : f.tri < g.tri
  <2> SUFFICES ASSUME NEW g \in Unreached(p) \ {f} PROVE f.tri < g.tri
    OBVIOUS
  <2>1. g \in work[th] /\ g.pix = f.pix /\ Before(f, g)
    BY <1>3 DEF Reached
  <2> QED BY <1>1, <1>2, <2>1, ScanOrder
<1>5. f.tri \in AbsPending[p]
  BY <1>3
<1>6. \A g \in Unreached(p) : g.tri \in Nat
  <2>1. \A g \in work[th] : g.tri \in 1 .. Len(Tris)
    BY <1>1, FragmentFacts
  <2> QED BY <1>1, <1>3, <2>1, TrisFacts
<1>7. Min(AbsPending[p]) = f.tri
  <2>1. AbsPending[p] \in SUBSET Nat /\ AbsPending[p] # {}
    BY <1>3, <1>5, <1>6
  <2>2. Min(AbsPending[p]) \in AbsPending[p] /\ Min(AbsPending[p]) <= f.tri
    BY <1>5, <2>1, MinNat
  <2>3. PICK g \in Unreached(p) : Min(AbsPending[p]) = g.tri
    BY <1>3, <2>2
  <2>4. CASE g = f
    BY <2>3, <2>4
  <2>5. CASE g # f
    <3>1. f.tri < g.tri /\ g.tri <= f.tri /\ f.tri \in Nat /\ g.tri \in Nat
      BY <1>3, <1>4, <1>6, <2>2, <2>3, <2>5
    <3> QED BY <3>1
  <2> QED BY <2>4, <2>5
<1>8. /\ work'[th] = work[th] \ {f}
      /\ \A o \in Threads : o # th => work'[o] = work[o]
  BY <1>1 DEF RaceInv, RaceTypes
<1>9. Unreached(p)' = Unreached(p) \ {f}
  <2>1. \A o \in Threads : o # th => \A g \in work[o] : g.pix # p
    <3> SUFFICES ASSUME NEW o \in Threads, o # th, NEW g \in work[o], g.pix = p PROVE FALSE
      OBVIOUS
    <3>1. InHand(o, p)
      BY <1>1 DEF RaceInv, OwnPixels
    <3>2. tile[o] = tile[th]
      BY <1>2, <3>1, PendingInHand
    <3> QED BY <1>1, <1>2, <3>2, NoTileIsNone DEF RaceInv, OneOwner
  <2> QED BY <1>3, <1>8, <2>1 DEF Unreached
<1>10. AbsPending'[p] = AbsPending[p] \ {f.tri}
  <2>1. AbsPending'[p] = {g.tri : g \in Unreached(p)'}
    BY <1>2, <1>3 DEF AbsPending
  <2>2. \A g \in Unreached(p) \ {f} : g.tri # f.tri
    BY <1>4, <1>6, <1>3
  <2> QED BY <1>3, <1>9, <2>1, <2>2
<1>11. ASSUME NEW q \in Pixels, q # p PROVE AbsPending'[q] = AbsPending[q]
  <2>1. Unreached(q)' = Unreached(q)
    BY <1>8, <1>11 DEF Unreached
  <2>2. FragmentsAt(q)' = FragmentsAt(q)
    BY DEF FragmentsAt, Tris
  <2> QED BY <2>1, <2>2 DEF AbsPending
<1>12. AbsPending = [q \in Pixels |-> AbsPending[q]] /\ AbsPending' = [q \in Pixels |-> AbsPending'[q]]
  BY DEF AbsPending
<1> QED BY <1>2, <1>5, <1>7, <1>10, <1>11, <1>12

LEMMA SkipTakes ==
  ASSUME RasterInv, NEW th \in Threads, NEW f \in work[th], SkipFragment(th, f)
  PROVE  InOrder!Take(f.pix)
<1>1. /\ Reached(th, f) /\ Hidden(f) /\ work' = [work EXCEPT ![th] = @ \ {f}]
      /\ UNCHANGED <<modes, phase, draw, zbuf, rgb, untaken, batch>>
  BY DEF SkipFragment
<1>2. AbsColour' = AbsColour
  BY <1>1, ColourKept
<1>3. /\ f.tri \in AbsPending[f.pix] /\ Min(AbsPending[f.pix]) = f.tri
      /\ AbsPending' = [AbsPending EXCEPT ![f.pix] = @ \ {f.tri}]
  BY <1>1, NextFragment
<1>4. \A S : InOrder!Min(S) = Min(S)
  BY DEF InOrder!Min, Min
<1>5. phase = "raster" /\ Tris[f.tri].z[f.pix] >= zbuf[f.pix] /\ packetMode' = packetMode
  BY <1>1, FragmentFacts DEF RasterInv, Hidden, modes
<1> QED BY <1>1, <1>2, <1>3, <1>4, <1>5 DEF InOrder!Take, Tris

(* The colours after a fragment is shaded: alone, stored, or flushed. *)
LEMMA ShadeColours ==
  ASSUME RasterInv, RaceInv', NEW th \in Threads, NEW f \in work[th], ShadeFragment(th, f)
  PROVE  AbsColour' = IF packetMode /\ f.pix \in Tris[f.tri].drops THEN AbsColour
                      ELSE [AbsColour EXCEPT ![f.pix] = <<draw, f.tri>>]
<1> DEFINE e == [tri |-> f.tri, pix |-> f.pix]
           new == IF packetMode /\ f.pix \in Tris[f.tri].drops THEN AbsColour
                  ELSE [AbsColour EXCEPT ![f.pix] = <<draw, f.tri>>]
<1>1. PICK c : c = Append(batch[th], e)
  OBVIOUS
<1>2. /\ draw' = draw /\ packetMode' = packetMode
      /\ \/ ~packetMode /\ rgb' = Write(rgb, f) /\ batch' = batch
         \/ packetMode /\ batch' = [batch EXCEPT ![th] = c] /\ rgb' = rgb
         \/ packetMode /\ rgb' = Flushed(c) /\ batch' = [batch EXCEPT ![th] = <<>>]
  BY <1>1 DEF ShadeFragment, modes
<1>3. ColourShown
  BY ShownColour DEF RasterInv
<1>4. ColourShown'
  <2>1. RaceInv => ColourShown
    BY ShownColour
  <2>2. RaceInv' => ColourShown'
    BY ShownColour, PTL
  <2> QED BY <2>2
<1>5. /\ f.pix \in Pixels /\ e \in Fragments /\ batch[th] \in Seq(Fragments) /\ InHand(th, f.pix)
      /\ RaceInv /\ ScanInv
  BY FragmentFacts DEF RasterInv, ScanInv, RaceInv, OwnPixels
<1>6. AbsColour = [p \in Pixels |-> AbsColour[p]] /\ AbsColour' = [p \in Pixels |-> AbsColour'[p]]
  BY <1>3, <1>4 DEF ColourShown
<1>7. CASE ~packetMode
  <2>1. rgb' = Write(rgb, f) /\ batch' = batch /\ rgb \in [Pixels -> Colours]
    BY <1>2, <1>7 DEF RasterInv, BufferTypes
  <2>2. ASSUME NEW p \in Pixels PROVE AbsColour[p] = rgb[p] /\ AbsColour'[p] = rgb'[p]
    <3>1. \A o \in Threads : batch[o] = <<>> /\ batch'[o] = <<>>
      BY <1>5, <1>7, <2>1 DEF ScanInv
    <3>2. \A o \in Threads : Kept(batch[o], p) = {} /\ Kept(batch[o], p)' = {}
      BY <3>1 DEF Kept
    <3> QED BY <1>3, <1>4, <3>2 DEF ColourShown
  <2>3. ASSUME NEW p \in Pixels PROVE rgb'[p] = IF p = f.pix THEN <<draw, f.tri>> ELSE rgb[p]
    BY <1>5, <2>1 DEF Write
  <2>4. new = [AbsColour EXCEPT ![f.pix] = <<draw, f.tri>>]
    BY <1>7
  <2>5. ASSUME NEW p \in Pixels
        PROVE  AbsColour'[p] = IF p = f.pix THEN <<draw, f.tri>> ELSE AbsColour[p]
    BY <2>2, <2>3
  <2> QED BY <1>5, <1>6, <2>4, <2>5
<1>8. CASE packetMode
  <2>1. /\ \A p : IF f.pix = p /\ ~Dropped(e)
                  THEN Kept(c, p) # {} /\ LastKept(c, p) = <<draw, f.tri>>
                  ELSE /\ Kept(c, p) = Kept(batch[th], p)
                       /\ Kept(batch[th], p) # {} => LastKept(c, p) = LastKept(batch[th], p)
    <3>1. e.pix = f.pix /\ e.tri = f.tri
      OBVIOUS
    <3> HIDE DEF e
    <3> QED BY <1>1, <1>5, <3>1, KeptAppend
  <2>2. Dropped(e) <=> f.pix \in Tris[f.tri].drops
    BY DEF Dropped
  <2>3. \A n \in DOMAIN c : InHand(th, c[n].pix)
    <3> SUFFICES ASSUME NEW n \in DOMAIN c PROVE InHand(th, c[n].pix)
      OBVIOUS
    <3>1. e.pix = f.pix
      OBVIOUS
    <3> HIDE DEF e
    <3>2. /\ Len(batch[th]) \in Nat /\ DOMAIN batch[th] = 1 .. Len(batch[th])
          /\ DOMAIN c = 1 .. Len(batch[th]) + 1 /\ c[Len(batch[th]) + 1] = e
          /\ \A k \in 1 .. Len(batch[th]) : c[k] = batch[th][k]
      BY <1>1, <1>5, AppendFragment
    <3>3. n \in DOMAIN batch[th] \/ n = Len(batch[th]) + 1
      BY <3>2
    <3> QED BY <1>5, <3>1, <3>2, <3>3 DEF RaceInv, OwnPixels
  <2>4. \A p \in Pixels : Kept(c, p) = {} => Kept(batch[th], p) = {}
    BY <2>1
  <2>5. ASSUME NEW p \in Pixels
        PROVE  AbsColour'[p] = IF Kept(c, p) = {} THEN AbsColour[p] ELSE LastKept(c, p)
    BY <1>2, <1>3, <1>4, <1>5, <1>8, <2>3, <2>4, NewBatch
  <2>6. ASSUME NEW p \in Pixels
        PROVE  AbsColour'[p] = IF f.pix = p /\ ~Dropped(e) THEN <<draw, f.tri>> ELSE AbsColour[p]
    BY <1>3, <2>1, <2>5 DEF ColourShown
  <2>7. new = IF Dropped(e) THEN AbsColour ELSE [AbsColour EXCEPT ![f.pix] = <<draw, f.tri>>]
    BY <1>8, <2>2
  <2> QED BY <1>5, <1>6, <2>6, <2>7
<1> QED BY <1>7, <1>8

LEMMA ShadeTakes ==
  ASSUME RasterInv, RaceInv', NEW th \in Threads, NEW f \in work[th], ShadeFragment(th, f)
  PROVE  InOrder!Take(f.pix)
<1>1. /\ Reached(th, f) /\ ~Hidden(f) /\ work' = [work EXCEPT ![th] = @ \ {f}]
      /\ zbuf' = [zbuf EXCEPT ![f.pix] = Tris[f.tri].z[f.pix]]
      /\ UNCHANGED <<modes, phase, draw, untaken>>
  BY DEF ShadeFragment
<1>2. AbsColour' = IF packetMode /\ f.pix \in Tris[f.tri].drops THEN AbsColour
                   ELSE [AbsColour EXCEPT ![f.pix] = <<draw, f.tri>>]
  BY ShadeColours
<1>3. /\ f.tri \in AbsPending[f.pix] /\ Min(AbsPending[f.pix]) = f.tri
      /\ AbsPending' = [AbsPending EXCEPT ![f.pix] = @ \ {f.tri}]
  BY <1>1, NextFragment
<1>4. \A S : InOrder!Min(S) = Min(S)
  BY DEF InOrder!Min, Min
<1>5. phase = "raster" /\ ~(Tris[f.tri].z[f.pix] >= zbuf[f.pix]) /\ packetMode' = packetMode
  BY <1>1, FragmentFacts DEF RasterInv, Hidden, modes
<1> QED BY <1>1, <1>2, <1>3, <1>4, <1>5 DEF InOrder!Take, Tris

LEMMA EndTileColours ==
  ASSUME RasterInv, RaceInv', NEW th \in Threads, EndTile(th)
  PROVE  AbsColour' = AbsColour
<1>1. PICK c : c = batch[th]
  OBVIOUS
<1>2. draw' = draw /\ rgb' = Flushed(c) /\ batch' = [batch EXCEPT ![th] = <<>>]
  BY <1>1 DEF EndTile
<1>3. ColourShown
  BY ShownColour DEF RasterInv
<1>4. ColourShown'
  BY ShownColour, PTL
<1>5. RaceInv /\ \A n \in DOMAIN c : InHand(th, c[n].pix)
  BY <1>1 DEF RasterInv, RaceInv, OwnPixels
<1>6. \A p \in Pixels : Kept(c, p) = {} => Kept(batch[th], p) = {}
  BY <1>1
<1>7. ASSUME NEW p \in Pixels
      PROVE  AbsColour'[p] = IF Kept(c, p) = {} THEN AbsColour[p] ELSE LastKept(c, p)
  BY <1>2, <1>3, <1>4, <1>5, <1>6, NewBatch
<1>8. \A p \in Pixels : AbsColour'[p] = AbsColour[p]
  BY <1>1, <1>3, <1>7 DEF ColourShown
<1> QED BY <1>3, <1>4, <1>8 DEF ColourShown

(* Between draws no fragment is waiting, and the framebuffer is what is seen. *)
LEMMA NothingPending ==
  ASSUME RaceInv, ColourShown, BufferTypes, phase # "bin", untaken = {},
         \A th \in Threads : tile[th] = NoTile
  PROVE  AbsPending = [p \in Pixels |-> {}] /\ AbsColour = rgb
<1>1. \A th \in Threads : work[th] = {} /\ batch[th] = <<>>
  BY NothingInHand
<1>2. \A p : Unreached(p) = {}
  BY <1>1 DEF Unreached
<1>3. AbsPending = [p \in Pixels |-> {}]
  BY <1>2 DEF AbsPending
<1>4. \A p \in Pixels : AbsColour[p] = rgb[p]
  BY <1>1 DEF ColourShown, Kept
<1> QED BY <1>3, <1>4 DEF ColourShown, BufferTypes

LEMMA ClearStarts ==
  ASSUME RasterInv, RasterInv', ColourShown, ColourShown', ClearBuffers
  PROVE  InOrder!Start
<1>1. /\ phase = "vs" /\ phase' = "bin" /\ UNCHANGED <<modes, draw, rasterState>>
      /\ IF Draws[draw].clear
         THEN rgb' = [p \in Pixels |-> <<0, 0>>] /\ zbuf' = [p \in Pixels |-> ZFar]
         ELSE UNCHANGED <<rgb, zbuf>>
  BY DEF ClearBuffers
<1>2. \A th \in Threads : batch[th] = <<>>
  BY <1>1, NothingInHand DEF RasterInv, RaceInv, OneOwner
<1>3. AbsColour = rgb
  <2>1. \A p \in Pixels : AbsColour[p] = rgb[p]
    BY <1>2 DEF ColourShown, Kept
  <2> QED BY <2>1 DEF ColourShown, RasterInv, BufferTypes
<1>4. AbsColour' = rgb'
  <2>1. batch' = batch
    BY <1>1 DEF rasterState
  <2>2. \A th \in Threads, p \in Pixels : Kept(batch[th], p)' = {}
    BY <1>2, <2>1 DEF Kept
  <2>3. \A p \in Pixels : AbsColour'[p] = rgb'[p]
    BY <2>2 DEF ColourShown
  <2> QED BY <2>3 DEF ColourShown, RasterInv, BufferTypes
<1>5. AbsPending' = [p \in Pixels |-> InOrder!FragmentsAt(draw, p)]
  BY <1>1 DEF AbsPending, FragmentsAt, Tris, InOrder!FragmentsAt
<1>6. packetMode' = packetMode
  BY <1>1 DEF modes
<1> QED BY <1>1, <1>3, <1>4, <1>5, <1>6 DEF InOrder!Start, InOrder!Black

LEMMA EndFinishes ==
  ASSUME RasterInv, RasterInv', ColourShown, ColourShown', EndDraw
  PROVE  InOrder!Finish
<1>1. /\ phase = "raster" /\ untaken = {} /\ (\A th \in Threads : tile[th] = NoTile)
      /\ phase' = "idle" /\ draw' = (IF draw = Len(Draws) THEN 1 ELSE draw + 1)
      /\ UNCHANGED <<modes, zbuf, rgb, rasterState>>
  BY DEF EndDraw, RasterDone
<1>2. AbsPending = [p \in Pixels |-> {}] /\ AbsColour = rgb
  BY <1>1, NothingPending DEF RasterInv
<1>3. AbsPending' = [p \in Pixels |-> {}] /\ AbsColour' = rgb'
  <2>1. UNCHANGED <<untaken, tile, work, batch>>
    BY <1>1 DEF rasterState
  <2>2. \A th \in Threads : work'[th] = {} /\ batch'[th] = <<>>
    BY <1>1, <2>1, NothingInHand DEF RasterInv
  <2>3. \A p : Unreached(p)' = {}
    BY <2>2 DEF Unreached
  <2>4. AbsPending' = [p \in Pixels |-> {}]
    BY <1>1, <2>1, <2>3 DEF AbsPending
  <2>5. \A th \in Threads, p \in Pixels : Kept(batch[th], p)' = {}
    BY <2>2 DEF Kept
  <2>6. \A p \in Pixels : AbsColour'[p] = rgb'[p]
    BY <2>5 DEF ColourShown
  <2> QED BY <2>4, <2>6 DEF ColourShown, RasterInv, BufferTypes
<1>4. packetMode' = packetMode
  BY <1>1 DEF modes
<1> QED BY <1>1, <1>2, <1>3, <1>4 DEF InOrder!Finish

LEMMA InitInOrder == Init => InOrder!Init
<1> SUFFICES ASSUME Init PROVE InOrder!Init
  OBVIOUS
<1>1. RasterInv /\ ColourShown
  BY RasterInit, ShownColour DEF RasterInv
<1>2. /\ packetMode \in BOOLEAN /\ draw = 1 /\ phase = "idle" /\ untaken = {}
      /\ zbuf = [p \in Pixels |-> ZFar] /\ rgb = [p \in Pixels |-> <<0, 0>>]
      /\ \A th \in Threads : tile[th] = NoTile
  BY DEF Init
<1>3. AbsPending = [p \in Pixels |-> {}] /\ AbsColour = rgb
  BY <1>1, <1>2, NothingPending DEF RasterInv
<1> QED BY <1>2, <1>3 DEF InOrder!Init, InOrder!Black

LEMMA StepInOrder ==
  RasterInv /\ RasterInv' /\ [Next]_vars => [InOrder!Next]_(InOrder!rasterVars)
<1> SUFFICES ASSUME RasterInv, RasterInv', [Next]_vars
             PROVE  InOrder!Next \/ UNCHANGED InOrder!rasterVars
  OBVIOUS
<1>1. ColourShown
  BY ShownColour DEF RasterInv
<1>2. RaceInv'
  BY DEF RasterInv
<1>3. ColourShown'
  BY <1>2, ShownColour, PTL
<1>4. CASE ClearBuffers
  BY <1>1, <1>3, <1>4, ClearStarts DEF InOrder!Next
<1>5. CASE EndDraw
  BY <1>1, <1>3, <1>5, EndFinishes DEF InOrder!Next
<1>6. ASSUME NEW th \in Threads, NEW f \in work[th], SkipFragment(th, f) \/ ShadeFragment(th, f)
      PROVE  InOrder!Next
  <2>1. f.pix \in Pixels
    BY FragmentFacts DEF RasterInv
  <2>2. InOrder!Take(f.pix)
    BY <1>2, <1>6, SkipTakes, ShadeTakes
  <2> QED BY <2>1, <2>2 DEF InOrder!Next
<1>7. ASSUME NEW th \in Threads, EndTile(th) PROVE UNCHANGED InOrder!rasterVars
  <2>1. UNCHANGED <<modes, phase, draw, untaken, work, zbuf>>
    BY <1>7 DEF EndTile
  <2> QED BY <1>2, <1>7, <2>1, EndTileColours, PendingKept DEF InOrder!rasterVars, modes
<1>8. CASE BeginDraw \/ \E th \in Threads : ShadeVertices(th) \/ BinTriangle(th)
  <2>1. /\ UNCHANGED <<modes, draw, untaken, work, batch, zbuf, rgb>>
        /\ (phase = "idle" /\ phase' = "vs") \/ phase' = phase
    BY <1>8 DEF BeginDraw, ShadeVertices, BinTriangle, rasterState
  <2> QED BY <2>1, ColourKept, PendingKept DEF InOrder!rasterVars, modes
<1>9. CASE StartRaster
  <2>1. /\ UNCHANGED <<modes, draw, batch, zbuf, rgb>> /\ phase = "bin" /\ phase' = "raster"
    BY <1>9 DEF StartRaster
  <2> QED BY <1>9, <2>1, ColourKept, StartRasterPending DEF InOrder!rasterVars, modes
<1>10. ASSUME NEW th \in Threads, TakeTile(th) PROVE UNCHANGED InOrder!rasterVars
  <2>1. UNCHANGED <<modes, draw, batch, zbuf, rgb, phase>>
    BY <1>10 DEF TakeTile
  <2> QED BY <1>10, <2>1, ColourKept, TakeTilePending DEF InOrder!rasterVars, modes
<1>11. CASE UNCHANGED vars
  <2>1. UNCHANGED <<modes, draw, untaken, work, batch, zbuf, rgb, phase>>
    BY <1>11 DEF vars
  <2> QED BY <2>1, ColourKept, PendingKept DEF InOrder!rasterVars, modes
<1> QED BY <1>4, <1>5, <1>6, <1>7, <1>8, <1>9, <1>10, <1>11 DEF Next, MasterStep, ThreadStep

(* Every tile schedule, with any number of threads, any division of the static
   loops, and fragments shaded alone or in packets, gives what taking each
   pixel's fragments in submission order gives: at every step the picture, as
   it will be once the batches are flushed, is a state of the in-order renderer. *)
THEOREM RasterImplementsInOrder == Spec => ImplementsInOrder
<1>1. RasterInv /\ RasterInv' /\ [Next]_vars => [InOrder!Next]_(InOrder!rasterVars)
  BY StepInOrder
<1>2. Init => InOrder!Init
  BY InitInOrder
<1>3. Spec => InOrder!Spec
  BY <1>1, <1>2, RasterInvariant, PTL DEF Spec, InOrder!Spec
<1> QED BY <1>3 DEF ImplementsInOrder

-----------------------------------------------------------------------------
(* The finished picture.  Between the start and the end of a draw, what a pixel shows is
   what the fragments it has taken make of it: all that were submitted since the buffers
   were cleared, but those it has still to take, which come later.  It is a matter of the
   abstract state alone: a step of InOrderRaster keeps it. *)

Least(F, p, z) ==
  /\ z \in Int /\ z <= ZFar /\ \A f \in F : z <= Triangle(f).z[p]
  /\ z = ZFar \/ \E f \in F : z = Triangle(f).z[p]
LastVisible(F, p, c) ==
  \/ Visible(F, p) = {} /\ c = <<0, 0>>
  \/ c \in Visible(F, p) /\ \A f \in Visible(F, p) : ~Earlier(c, f)
Seen(F, p, z, c) == Least(F, p, z) /\ LastVisible(F, p, c)

Taken(p) == Submitted(draw, p) \ {<<draw, i>> : i \in AbsPending[p]}
Started == phase \in {"bin", "raster"}

PictureInv ==
  /\ Started => \A p \in Pixels :
       /\ AbsPending[p] \subseteq FragmentsAt(p)
       /\ \A f \in Taken(p), i \in AbsPending[p] : Earlier(f, <<draw, i>>)
       /\ Seen(Taken(p), p, zbuf[p], AbsColour[p])
  /\ ~Started /\ ~Draws[draw].clear => \A p \in Pixels :
       Seen(Submitted(draw - 1, p), p, zbuf[p], AbsColour[p])

(* Fragments as pairs of a draw and a triangle. *)
LEMMA LastClearIs ==
  ASSUME NEW d \in DOMAIN Draws
  PROVE  /\ LastClear(d) \in 1 .. d /\ Draws[LastClear(d)].clear
         /\ \A c \in 1 .. d : Draws[c].clear => c <= LastClear(d)
<1> DEFINE S == {c \in 1 .. d : Draws[c].clear}
<1>1. d \in 1 .. Len(Draws) /\ Len(Draws) \in Nat
  BY DrawFacts
<1>2. d \in Nat /\ S \in SUBSET (1 .. d) /\ 1 \in S
  BY <1>1, DrawsAssumption
<1> HIDE DEF S
<1>3. Max(S) \in S /\ \A k \in S : k <= Max(S)
  BY <1>2, MaxNat
<1> QED BY <1>3 DEF S, LastClear

LEMMA SubmittedAre ==
  ASSUME NEW d \in DOMAIN Draws, NEW p \in Pixels
  PROVE  /\ \A c, i : <<c, i>> \in Submitted(d, p) <=>
              /\ c \in LastClear(d) .. d /\ i \in 1 .. Len(Draws[c].tris)
              /\ ~Draws[c].tris[i].culled /\ p \in Draws[c].tris[i].cover
         /\ \A f \in Submitted(d, p) :
              /\ f = <<f[1], f[2]>> /\ f[1] \in 1 .. d /\ f[2] \in Nat
              /\ Triangle(f).z[p] \in Int
<1>1. /\ LastClear(d) \in 1 .. d /\ d \in 1 .. Len(Draws) /\ Len(Draws) \in Nat
  BY LastClearIs, DrawFacts
<1>2. \A c \in LastClear(d) .. d : c \in DOMAIN Draws /\ c \in 1 .. d
  BY <1>1, DrawFacts
<1>3. \A c \in DOMAIN Draws : DOMAIN Draws[c].tris = 1 .. Len(Draws[c].tris) /\ Len(Draws[c].tris) \in Nat
  BY DrawFacts
<1>4. ASSUME NEW c, NEW i
      PROVE  <<c, i>> \in Submitted(d, p) <=>
              /\ c \in LastClear(d) .. d /\ i \in 1 .. Len(Draws[c].tris)
              /\ ~Draws[c].tris[i].culled /\ p \in Draws[c].tris[i].cover
  <2>1. c \in LastClear(d) .. d => (<<c, i>> \in Colours <=> i \in 1 .. Len(Draws[c].tris))
    <3> SUFFICES ASSUME c \in LastClear(d) .. d
                 PROVE  <<c, i>> \in Colours <=> i \in 1 .. Len(Draws[c].tris)
      OBVIOUS
    <3>1. <<c, i>> # <<0, 0>>
      BY <1>1
    <3>2. \A e \in DOMAIN Draws : <<c, i>> \in {e} \X DOMAIN Draws[e].tris <=> c = e /\ i \in DOMAIN Draws[e].tris
      OBVIOUS
    <3>3. <<c, i>> \in Colours <=> \E e \in DOMAIN Draws : <<c, i>> \in {e} \X DOMAIN Draws[e].tris
      BY <3>1 DEF Colours
    <3> QED BY <1>2, <1>3, <3>2, <3>3
  <2> QED BY <2>1 DEF Submitted, Triangle
<1>5. ASSUME NEW f \in Submitted(d, p)
      PROVE  /\ f = <<f[1], f[2]>> /\ f[1] \in 1 .. d /\ f[2] \in Nat
             /\ Triangle(f).z[p] \in Int
  <2>1. /\ f \in Colours /\ f[1] \in LastClear(d) .. d /\ p \in Triangle(f).cover
    BY DEF Submitted
  <2>2. f # <<0, 0>>
    BY <2>1, <1>1
  <2>3. PICK e \in DOMAIN Draws : f \in {e} \X DOMAIN Draws[e].tris
    BY <2>1, <2>2 DEF Colours
  <2>4. f = <<f[1], f[2]>> /\ f[1] = e /\ f[2] \in DOMAIN Draws[e].tris
    BY <2>3
  <2>5. TriangleOK(Triangle(f), Draws[e].verts)
    BY <2>4, DrawFacts DEF Triangle
  <2>6. Triangle(f).z[p] \in Int
    BY <2>1, <2>5 DEF TriangleOK
  <2> QED BY <1>2, <1>3, <2>1, <2>4, <2>6
<1> QED BY <1>4, <1>5

(* What a draw adds to those before it. *)
LEMMA SubmittedNext ==
  ASSUME NEW d \in DOMAIN Draws, NEW p \in Pixels
  PROVE  LET new == {i \in 1 .. Len(Draws[d].tris) :
                       ~Draws[d].tris[i].culled /\ p \in Draws[d].tris[i].cover}
         IN  /\ Draws[d].clear => Submitted(d, p) = {<<d, i>> : i \in new}
             /\ ~Draws[d].clear =>
                  /\ d - 1 \in DOMAIN Draws /\ LastClear(d) = LastClear(d - 1)
                  /\ Submitted(d, p) = Submitted(d - 1, p) \cup {<<d, i>> : i \in new}
<1> DEFINE new == {i \in 1 .. Len(Draws[d].tris) :
                     ~Draws[d].tris[i].culled /\ p \in Draws[d].tris[i].cover}
<1>1. d \in 1 .. Len(Draws) /\ Len(Draws) \in Nat /\ DOMAIN Draws = 1 .. Len(Draws)
  BY DrawFacts
<1>2. LastClear(d) \in 1 .. d /\ Draws[LastClear(d)].clear
      /\ \A c \in 1 .. d : Draws[c].clear => c <= LastClear(d)
  BY LastClearIs
<1>3. ASSUME Draws[d].clear PROVE Submitted(d, p) = {<<d, i>> : i \in new}
  <2>1. LastClear(d) = d
    BY <1>1, <1>2, <1>3
  <2>2. \A c : c \in LastClear(d) .. d <=> c = d
    BY <1>1, <2>1
  <2>3. \A c, i : <<c, i>> \in Submitted(d, p) <=> c = d /\ i \in new
    BY <2>2, SubmittedAre
  <2>4. \A f \in Submitted(d, p) : f = <<f[1], f[2]>>
    BY SubmittedAre
  <2> HIDE DEF new
  <2> QED BY <2>3, <2>4
<1>4. ASSUME ~Draws[d].clear
      PROVE  /\ d - 1 \in DOMAIN Draws /\ LastClear(d) = LastClear(d - 1)
             /\ Submitted(d, p) = Submitted(d - 1, p) \cup {<<d, i>> : i \in new}
  <2>1. d # 1 /\ d - 1 \in DOMAIN Draws
    BY <1>1, <1>4, DrawsAssumption
  <2>2. /\ LastClear(d - 1) \in 1 .. d - 1 /\ Draws[LastClear(d - 1)].clear
        /\ \A c \in 1 .. d - 1 : Draws[c].clear => c <= LastClear(d - 1)
    BY <2>1, LastClearIs
  <2>3. LastClear(d) # d
    BY <1>2, <1>4
  <2>4. LastClear(d) \in 1 .. d - 1 /\ LastClear(d - 1) \in 1 .. d
    BY <1>1, <1>2, <2>2, <2>3
  <2>5. LastClear(d) = LastClear(d - 1)
    <3>1. LastClear(d) <= LastClear(d - 1) /\ LastClear(d - 1) <= LastClear(d)
      BY <1>2, <2>2, <2>4
    <3> QED BY <2>4, <3>1
  <2>6. \A c : c \in LastClear(d) .. d <=> c \in LastClear(d) .. d - 1 \/ c = d
    BY <1>1, <2>4
  <2>7. \A c, i : <<c, i>> \in Submitted(d, p) <=> <<c, i>> \in Submitted(d - 1, p) \/ (c = d /\ i \in new)
    BY <2>1, <2>5, <2>6, SubmittedAre
  <2>8. (\A f \in Submitted(d, p) : f = <<f[1], f[2]>>) /\ (\A f \in Submitted(d - 1, p) : f = <<f[1], f[2]>>)
    BY <2>1, SubmittedAre
  <2> HIDE DEF new
  <2>9. Submitted(d, p) = Submitted(d - 1, p) \cup {<<d, i>> : i \in new}
    BY <2>7, <2>8
  <2> QED BY <2>1, <2>5, <2>9
<1> QED BY <1>3, <1>4

LEMMA SeenShows ==
  ASSUME NEW F, NEW p, NEW z, NEW c, Seen(F, p, z, c), \A f \in F : Triangle(f).z[p] \in Int
  PROVE  Shows(F, p, z, c)
<1> DEFINE D == {ZFar} \cup {Triangle(f).z[p] : f \in F}
<1>1. D \in SUBSET Int /\ z \in D /\ \A k \in D : z <= k
  BY SizeAssumption DEF Seen, Least
<1> HIDE DEF D
<1>2. Min(D) \in D /\ \A k \in D : Min(D) <= k
  BY <1>1 DEF Min
<1>3. PICK m : m = Min(D)
  OBVIOUS
<1>4. z = m
  <2>1. m \in D /\ m <= z
    BY <1>1, <1>2, <1>3
  <2>2. z <= m /\ m \in Int /\ z \in Int
    BY <1>1, <2>1
  <2> QED BY <2>1, <2>2
<1> QED BY <1>3, <1>4 DEF D, Shows, Seen, LastVisible

(* One more fragment, after all others. *)
LEMMA TakesOne ==
  ASSUME NEW p, NEW F, NEW x, NEW z, NEW c, Seen(F, p, z, c),
         \A f \in F : Triangle(f).z[p] \in Int /\ Earlier(f, x) /\ ~Earlier(x, f),
         ~Earlier(x, x), Triangle(x).z[p] \in Int
  PROVE  /\ Triangle(x).z[p] >= z => Seen(F \cup {x}, p, z, c)
         /\ Triangle(x).z[p] < z =>
              Seen(F \cup {x}, p, Triangle(x).z[p],
                   IF packetMode /\ p \in Triangle(x).drops THEN c ELSE x)
<1> DEFINE G == F \cup {x}
           zx == Triangle(x).z[p]
<1>1. ZFar \in Int
  BY SizeAssumption
<1>2. \A f \in F : f \in InFront(G, p) <=> f \in InFront(F, p)
  BY DEF InFront
<1>3. x \in InFront(G, p) <=> zx < z
  <2>1. x \in InFront(G, p) <=> zx < ZFar /\ \A g \in F : zx < Triangle(g).z[p]
    BY DEF InFront
  <2>2. CASE zx < z
    <3>1. zx < ZFar /\ \A g \in F : zx < Triangle(g).z[p]
      BY <1>1, <2>2 DEF Seen, Least
    <3> QED BY <2>1, <2>2, <3>1
  <2>3. CASE ~(zx < z)
    <3>1. ~(zx < ZFar /\ \A g \in F : zx < Triangle(g).z[p])
      BY <2>3 DEF Seen, Least
    <3> QED BY <2>1, <2>3, <3>1
  <2> QED BY <2>2, <2>3
<1>4. InFront(G, p) \subseteq G /\ InFront(F, p) \subseteq F
  BY DEF InFront
<1>5. Visible(F, p) \subseteq F
  BY <1>4 DEF Visible
<1>6. ASSUME zx >= z PROVE Seen(G, p, z, c)
  <2>1. Least(G, p, z)
    BY <1>6 DEF Seen, Least
  <2>2. ~(zx < z)
    BY <1>6 DEF Seen, Least
  <2> HIDE DEF G, zx
  <2>3. x \in F => x \notin InFront(F, p)
    BY <1>2, <1>3, <2>2
  <2>4. InFront(G, p) = InFront(F, p)
    BY <1>2, <1>3, <1>4, <2>2, <2>3 DEF G
  <2>5. Visible(G, p) = Visible(F, p)
    BY <2>4 DEF Visible
  <2> QED BY <2>1, <2>5 DEF Seen, LastVisible
<1>7. ASSUME zx < z
      PROVE  Seen(G, p, zx, IF packetMode /\ p \in Triangle(x).drops THEN c ELSE x)
  <2>1. Least(G, p, zx)
    BY <1>1, <1>7 DEF Seen, Least
  <2> HIDE DEF G, zx
  <2>2. InFront(G, p) = InFront(F, p) \cup {x}
    BY <1>2, <1>3, <1>4, <1>7 DEF G
  <2>3. CASE packetMode /\ p \in Triangle(x).drops
    <3>1. x \notin Visible(F, p)
      BY <2>3 DEF Visible
    <3>2. Visible(G, p) = Visible(F, p)
      BY <2>2, <2>3 DEF Visible
    <3> QED BY <2>1, <2>3, <3>2 DEF Seen, LastVisible
  <2>4. CASE ~(packetMode /\ p \in Triangle(x).drops)
    <3>1. Visible(G, p) = Visible(F, p) \cup {x}
      BY <2>2, <2>4 DEF Visible
    <3>2. \A f \in Visible(G, p) : ~Earlier(x, f)
      BY <1>5, <3>1
    <3> QED BY <2>1, <2>4, <3>1, <3>2 DEF Seen, LastVisible
  <2> QED BY <2>3, <2>4
<1> QED BY <1>6, <1>7

LEMMA EarlierPairs ==
  ASSUME NEW d \in Nat, NEW i \in Nat, NEW f, f[1] \in 1 .. d, f[2] \in Nat
  PROVE  /\ f[1] < d => Earlier(f, <<d, i>>)
         /\ f[2] < i => Earlier(f, <<d, i>>)
         /\ Earlier(f, <<d, i>>) => ~Earlier(<<d, i>>, f)
         /\ ~Earlier(<<d, i>>, <<d, i>>)
<1>1. <<d, i>>[1] = d /\ <<d, i>>[2] = i
  OBVIOUS
<1> QED BY <1>1 DEF Earlier

LEMMA NoneSubmitted == ASSUME NEW p PROVE Seen({}, p, ZFar, <<0, 0>>)
BY SizeAssumption DEF Seen, Least, LastVisible, Visible, InFront

(* The steps of InOrderRaster. *)
LEMMA SeenKept ==
  ASSUME packetMode' = packetMode
  PROVE  \A F, p, z, c : Seen(F, p, z, c)' <=> Seen(F, p, z, c)
BY DEF Seen, Least, LastVisible, Visible, InFront, Triangle, Earlier

LEMMA FragmentsAre ==
  /\ \A p : FragmentsAt(p) = InOrder!FragmentsAt(draw, p)
  /\ \A p : FragmentsAt(p) = {i \in 1 .. Len(Draws[draw].tris) :
                   ~Draws[draw].tris[i].culled /\ p \in Draws[draw].tris[i].cover}
BY DEF FragmentsAt, InOrder!FragmentsAt, Tris

LEMMA StartsSeen ==
  ASSUME RasterInv, PictureInv, InOrder!Start
  PROVE  PictureInv'
<1>1. /\ ~Started /\ Started' /\ draw' = draw /\ packetMode' = packetMode
      /\ AbsPending' = [p \in Pixels |-> FragmentsAt(p)]
      /\ IF Draws[draw].clear
         THEN zbuf' = [p \in Pixels |-> ZFar] /\ AbsColour' = [p \in Pixels |-> <<0, 0>>]
         ELSE zbuf' = zbuf /\ AbsColour' = AbsColour
  <2>1. \A p : InOrder!FragmentsAt(draw, p) = FragmentsAt(p)
    BY FragmentsAre
  <2> QED BY <2>1 DEF InOrder!Start, InOrder!Black, Started
<1>2. draw \in DOMAIN Draws /\ draw \in Nat
  BY DrawFacts DEF RasterInv, VertexInv
<1>3. ASSUME NEW p \in Pixels
      PROVE  /\ AbsPending'[p] \subseteq FragmentsAt(p)'
             /\ \A f \in Taken(p)', i \in AbsPending'[p] : Earlier(f, <<draw', i>>)
             /\ Seen(Taken(p), p, zbuf[p], AbsColour[p])'
  <2> DEFINE new == {<<draw, i>> : i \in FragmentsAt(p)}
  <2>1. AbsPending'[p] = FragmentsAt(p) /\ FragmentsAt(p)' = FragmentsAt(p)
    BY <1>1 DEF FragmentsAt, Tris
  <2>2. Taken(p)' = Submitted(draw, p) \ new
    <3>1. Submitted(draw, p)' = Submitted(draw, p)
      BY <1>1 DEF Submitted, Triangle
    <3> QED BY <1>1, <2>1, <3>1 DEF Taken
  <2>3. FragmentsAt(p) = {i \in 1 .. Len(Draws[draw].tris) :
                            ~Draws[draw].tris[i].culled /\ p \in Draws[draw].tris[i].cover}
    BY FragmentsAre
  <2>4. /\ Draws[draw].clear => Submitted(draw, p) = new
        /\ ~Draws[draw].clear =>
             draw - 1 \in DOMAIN Draws /\ Submitted(draw, p) = Submitted(draw - 1, p) \cup new
    BY <1>2, <2>3, SubmittedNext
  <2>5. CASE Draws[draw].clear
    <3>1. Taken(p)' = {} /\ zbuf'[p] = ZFar /\ AbsColour'[p] = <<0, 0>>
      BY <1>1, <2>2, <2>4, <2>5
    <3>2. Seen({}, p, ZFar, <<0, 0>>)'
      BY <1>1, NoneSubmitted, SeenKept
    <3> QED BY <1>1, <2>1, <3>1, <3>2
  <2>6. CASE ~Draws[draw].clear
    <3>1. zbuf' = zbuf /\ AbsColour' = AbsColour /\ draw - 1 \in DOMAIN Draws
      BY <1>1, <2>4, <2>6
    <3>2. \A f \in Submitted(draw - 1, p) : f[1] \in 1 .. draw - 1 /\ f[2] \in Nat
      BY <3>1, SubmittedAre
    <3>3. Submitted(draw - 1, p) \cap new = {}
      <4>1. \A f \in new : f[1] = draw
        OBVIOUS
      <4> HIDE DEF new
      <4> QED BY <1>2, <3>2, <4>1
    <3>4. Taken(p)' = Submitted(draw - 1, p)
      BY <2>2, <2>4, <2>6, <3>3
    <3>5. Seen(Submitted(draw - 1, p), p, zbuf[p], AbsColour[p])
      BY <1>1, <2>6 DEF PictureInv
    <3>6. \A F, z, c : Seen(F, p, z, c)' <=> Seen(F, p, z, c)
      BY <1>1, SeenKept
    <3>7. Seen(Taken(p), p, zbuf[p], AbsColour[p])'
      BY <3>1, <3>4, <3>5, <3>6
    <3>8. \A f \in Submitted(draw - 1, p), i \in FragmentsAt(p) : Earlier(f, <<draw, i>>)
      <4> SUFFICES ASSUME NEW f \in Submitted(draw - 1, p), NEW i \in FragmentsAt(p)
                   PROVE  Earlier(f, <<draw, i>>)
        OBVIOUS
      <4>1. i \in Nat /\ f[1] < draw /\ f[1] \in 1 .. draw /\ f[2] \in Nat
        BY <1>2, <2>3, <3>2
      <4> QED BY <1>2, <4>1, EarlierPairs
    <3> QED BY <1>1, <2>1, <3>4, <3>7, <3>8
  <2> QED BY <2>5, <2>6
<1> QED BY <1>1, <1>3 DEF PictureInv

LEMMA TakesSeen ==
  ASSUME RasterInv, PictureInv, NEW p \in Pixels, InOrder!Take(p)
  PROVE  PictureInv'
<1> DEFINE i == Min(AbsPending[p])
           x == <<draw, i>>
           tri == Draws[draw].tris[i]
<1>1. \A S : InOrder!Min(S) = Min(S)
  BY DEF InOrder!Min, Min
<1>2. /\ Started /\ Started' /\ draw' = draw /\ packetMode' = packetMode /\ AbsPending[p] # {}
      /\ AbsPending' = [AbsPending EXCEPT ![p] = @ \ {i}]
      /\ IF tri.z[p] >= zbuf[p] THEN zbuf' = zbuf /\ AbsColour' = AbsColour
         ELSE /\ zbuf' = [zbuf EXCEPT ![p] = tri.z[p]]
              /\ AbsColour' = IF packetMode /\ p \in tri.drops THEN AbsColour
                              ELSE [AbsColour EXCEPT ![p] = x]
  BY <1>1 DEF InOrder!Take, Started
<1>3. draw \in DOMAIN Draws /\ draw \in Nat
  BY DrawFacts DEF RasterInv, VertexInv
<1>4. /\ AbsPending = [q \in Pixels |-> AbsPending[q]] /\ AbsColour = [q \in Pixels |-> AbsColour[q]]
      /\ zbuf = [q \in Pixels |-> zbuf[q]]
  BY DEF AbsPending, AbsColour, RasterInv, BufferTypes
<1>5. /\ \A q \in Pixels : AbsPending[q] \subseteq FragmentsAt(q)
      /\ \A q \in Pixels : \A f \in Taken(q), j \in AbsPending[q] : Earlier(f, <<draw, j>>)
      /\ \A q \in Pixels : Seen(Taken(q), q, zbuf[q], AbsColour[q])
  BY <1>2 DEF PictureInv
<1>6. \A q : /\ FragmentsAt(q)' = FragmentsAt(q)
             /\ Taken(q)' = Submitted(draw, q) \ {<<draw, j>> : j \in AbsPending'[q]}
  BY <1>2 DEF FragmentsAt, Tris, Taken, Submitted, Triangle
<1>7. \A F, q, z, c : Seen(F, q, z, c)' <=> Seen(F, q, z, c)
  BY <1>2, SeenKept
<1>8. ASSUME NEW q \in Pixels, q # p
      PROVE  /\ AbsPending'[q] \subseteq FragmentsAt(q)'
             /\ \A f \in Taken(q)', j \in AbsPending'[q] : Earlier(f, <<draw', j>>)
             /\ Seen(Taken(q), q, zbuf[q], AbsColour[q])'
  <2>1. AbsPending'[q] = AbsPending[q] /\ zbuf'[q] = zbuf[q] /\ AbsColour'[q] = AbsColour[q]
    BY <1>2, <1>4, <1>8
  <2>2. Taken(q)' = Taken(q)
    BY <1>6, <2>1 DEF Taken
  <2>3. Seen(Taken(q), q, zbuf[q], AbsColour[q])
    BY <1>5
  <2>4. Seen(Taken(q), q, zbuf[q], AbsColour[q])'
    BY <1>7, <2>1, <2>2, <2>3
  <2>5. \A f \in Taken(q)', j \in AbsPending'[q] : Earlier(f, <<draw', j>>)
    BY <1>2, <1>5, <2>1, <2>2
  <2> QED BY <1>5, <1>6, <2>1, <2>4, <2>5
<1>9. /\ AbsPending'[p] = AbsPending[p] \ {i}
      /\ tri.z[p] >= zbuf[p] => zbuf'[p] = zbuf[p] /\ AbsColour'[p] = AbsColour[p]
      /\ ~(tri.z[p] >= zbuf[p]) =>
           zbuf'[p] = tri.z[p] /\ AbsColour'[p] = IF packetMode /\ p \in tri.drops THEN AbsColour[p] ELSE x
  BY <1>2, <1>4
<1>10. FragmentsAt(p) = {j \in 1 .. Len(Draws[draw].tris) :
                          ~Draws[draw].tris[j].culled /\ p \in Draws[draw].tris[j].cover}
  BY FragmentsAre
<1>11. AbsPending[p] \in SUBSET Nat /\ i \in AbsPending[p] /\ \A j \in AbsPending[p] : i <= j
  <2>1. AbsPending[p] \in SUBSET Nat
    BY <1>5, <1>10
  <2> QED BY <1>2, <2>1, MinNat
<1>12. x \in Submitted(draw, p) /\ Triangle(x) = tri
  <2>1. LastClear(draw) \in 1 .. draw
    BY <1>3, LastClearIs
  <2>2. draw \in LastClear(draw) .. draw
    BY <1>3, <2>1
  <2>3. Triangle(x) = tri
    BY DEF Triangle
  <2>4. i \in FragmentsAt(p)
    BY <1>5, <1>11
  <2> HIDE DEF i
  <2> QED BY <1>3, <1>10, <2>2, <2>3, <2>4, SubmittedAre
<1> HIDE DEF i, tri
<1>13. Taken(p)' = Taken(p) \cup {x}
  BY <1>6, <1>9, <1>11, <1>12 DEF Taken
<1>14. \A f \in Submitted(draw, p) :
         f[1] \in 1 .. draw /\ f[2] \in Nat /\ Triangle(f).z[p] \in Int
  BY <1>3, SubmittedAre
<1>15. \A f \in Taken(p) : Triangle(f).z[p] \in Int /\ Earlier(f, x) /\ ~Earlier(x, f)
  <2> SUFFICES ASSUME NEW f \in Taken(p)
               PROVE  Triangle(f).z[p] \in Int /\ Earlier(f, x) /\ ~Earlier(x, f)
    OBVIOUS
  <2>1. f[1] \in 1 .. draw /\ f[2] \in Nat /\ Triangle(f).z[p] \in Int
    BY <1>14 DEF Taken
  <2>2. Earlier(f, x) /\ i \in Nat
    BY <1>5, <1>11
  <2> QED BY <1>3, <2>1, <2>2, EarlierPairs
<1>16. ~Earlier(x, x) /\ Triangle(x).z[p] \in Int /\ x[1] = draw /\ x[2] = i /\ i \in Nat
  <2>1. Triangle(x).z[p] \in Int /\ x[1] = draw /\ x[2] = i /\ i \in Nat
    BY <1>11, <1>12, <1>14
  <2> QED BY <1>3, <2>1 DEF Earlier
<1>17. \A f \in Taken(p)', j \in AbsPending'[p] : Earlier(f, <<draw', j>>)
  <2> SUFFICES ASSUME NEW f \in Taken(p) \cup {x}, NEW j \in AbsPending[p] \ {i}
               PROVE  Earlier(f, <<draw, j>>)
    BY <1>2, <1>9, <1>13
  <2>1. CASE f \in Taken(p)
    BY <1>5, <2>1
  <2>2. CASE f = x
    <3>1. i < j
      BY <1>11
    <3> QED BY <1>16, <2>2, <3>1 DEF Earlier
  <2> QED BY <2>1, <2>2
<1>18. Seen(Taken(p), p, zbuf[p], AbsColour[p]) /\ zbuf[p] \in Int
  <2>1. Seen(Taken(p), p, zbuf[p], AbsColour[p])
    BY <1>5
  <2> QED BY <2>1 DEF Seen, Least
<1> HIDE DEF x
<1>19. /\ Triangle(x).z[p] >= zbuf[p] => Seen(Taken(p) \cup {x}, p, zbuf[p], AbsColour[p])
       /\ Triangle(x).z[p] < zbuf[p] =>
            Seen(Taken(p) \cup {x}, p, Triangle(x).z[p],
                 IF packetMode /\ p \in Triangle(x).drops THEN AbsColour[p] ELSE x)
  BY <1>15, <1>16, <1>18, TakesOne
<1>20. Seen(Taken(p) \cup {x}, p, zbuf'[p], AbsColour'[p])
  <2>1. CASE tri.z[p] >= zbuf[p]
    BY <1>9, <1>12, <1>19, <2>1
  <2>2. CASE ~(tri.z[p] >= zbuf[p])
    <3>1. Triangle(x).z[p] < zbuf[p]
      BY <1>12, <1>16, <1>18, <2>2
    <3> QED BY <1>9, <1>12, <1>19, <2>2, <3>1
  <2> QED BY <2>1, <2>2
<1>21. Seen(Taken(p), p, zbuf[p], AbsColour[p])'
  BY <1>7, <1>13, <1>20
<1>22. AbsPending'[p] \subseteq FragmentsAt(p)'
  BY <1>5, <1>6, <1>9
<1> QED BY <1>2, <1>8, <1>17, <1>21, <1>22 DEF PictureInv

LEMMA FinishSeen ==
  ASSUME RasterInv, PictureInv, InOrder!Finish
  PROVE  PictureInv'
<1>1. /\ Started /\ ~Started' /\ (\A p \in Pixels : AbsPending[p] = {})
      /\ packetMode' = packetMode /\ zbuf' = zbuf /\ AbsColour' = AbsColour
      /\ draw' = IF draw = Len(Draws) THEN 1 ELSE draw + 1
  BY DEF InOrder!Finish, Started
<1>2. draw \in Nat
  BY DrawFacts DEF RasterInv, VertexInv
<1>3. ASSUME ~Draws[draw'].clear, NEW p \in Pixels
      PROVE  Seen(Submitted(draw - 1, p), p, zbuf[p], AbsColour[p])'
  <2>1. draw' = draw + 1
    BY <1>1, <1>3, DrawsAssumption
  <2>2. Taken(p) = Submitted(draw, p)
    BY <1>1 DEF Taken
  <2>3. Seen(Submitted(draw, p), p, zbuf[p], AbsColour[p])
    BY <1>1, <2>2 DEF PictureInv
  <2>4. \A F, z, c : Seen(F, p, z, c)' <=> Seen(F, p, z, c)
    BY <1>1, SeenKept
  <2>5. Submitted(draw - 1, p)' = Submitted(draw, p)
    <3>1. draw' - 1 = draw
      BY <1>2, <2>1
    <3> QED BY <3>1 DEF Submitted, LastClear, Triangle
  <2> QED BY <1>1, <2>3, <2>4, <2>5
<1> QED BY <1>1, <1>3 DEF PictureInv

LEMMA PictureInit == Init => PictureInv
<1> SUFFICES ASSUME Init PROVE PictureInv
  OBVIOUS
<1>1. phase = "idle" /\ draw = 1
  BY DEF Init
<1> QED BY <1>1, DrawsAssumption DEF PictureInv, Started

LEMMA PictureNext ==
  ASSUME RasterInv, PictureInv, InOrder!Next \/ UNCHANGED InOrder!rasterVars
  PROVE  PictureInv'
<1>1. CASE InOrder!Start
  BY <1>1, StartsSeen
<1>2. ASSUME NEW p \in Pixels, InOrder!Take(p) PROVE PictureInv'
  BY <1>2, TakesSeen
<1>3. CASE InOrder!Finish
  BY <1>3, FinishSeen
<1>4. CASE UNCHANGED InOrder!rasterVars
  <2>1. /\ packetMode' = packetMode /\ draw' = draw /\ (Started' <=> Started)
        /\ AbsPending' = AbsPending /\ zbuf' = zbuf /\ AbsColour' = AbsColour
    BY <1>4 DEF InOrder!rasterVars, Started
  <2>2. \A F, p, z, c : Seen(F, p, z, c)' <=> Seen(F, p, z, c)
    BY <2>1, SeenKept
  <2>3. \A p : /\ FragmentsAt(p)' = FragmentsAt(p) /\ Taken(p)' = Taken(p)
               /\ Submitted(draw - 1, p)' = Submitted(draw - 1, p)
    BY <2>1 DEF FragmentsAt, Tris, Taken, Submitted, Triangle, LastClear
  <2> QED BY <2>1, <2>2, <2>3 DEF PictureInv
<1> QED BY <1>1, <1>2, <1>3, <1>4 DEF InOrder!Next

LEMMA PictureImplied == RasterInv /\ PictureInv => FinalImage
<1> SUFFICES ASSUME RasterInv, PictureInv, RasterDone, NEW p \in Pixels
             PROVE  Shows(Submitted(draw, p), p, zbuf[p], rgb[p])
  BY DEF FinalImage
<1>1. ColourShown
  BY ShownColour DEF RasterInv
<1>2. AbsPending = [q \in Pixels |-> {}] /\ AbsColour = rgb
  BY <1>1, NothingPending DEF RasterInv, RasterDone
<1>3. Seen(Taken(p), p, zbuf[p], AbsColour[p])
  BY DEF PictureInv, Started, RasterDone
<1>4. Taken(p) = Submitted(draw, p)
  BY <1>2 DEF Taken
<1>5. \A f \in Submitted(draw, p) : Triangle(f).z[p] \in Int
  BY SubmittedAre DEF RasterInv, VertexInv
<1> QED BY <1>2, <1>3, <1>4, <1>5, SeenShows

(* Whatever threads, tiles and batches its fragments went through, in a finished picture
   each pixel has the depth of the nearest of all its fragments since the buffers were
   cleared, and the colour of the last one that was seen when it came. *)
THEOREM PictureInOrder == Spec => []FinalImage
<1>1. Init => PictureInv
  BY PictureInit
<1>2. RasterInv /\ RasterInv' /\ [Next]_vars => [InOrder!Next]_(InOrder!rasterVars)
  BY StepInOrder
<1>3. RasterInv /\ PictureInv /\ [InOrder!Next]_(InOrder!rasterVars) => PictureInv'
  BY PictureNext
<1>4. RasterInv /\ PictureInv => FinalImage
  BY PictureImplied
<1> QED BY <1>1, <1>2, <1>3, <1>4, RasterInvariant, PTL DEF Spec
=============================================================================
