----------------------------- MODULE TileRaster -----------------------------
(***************************************************************************)
(* render_pipeline (pipeline_runtime.cpp): the tiled software rasterizer.  *)
(*                                                                         *)
(* A draw is three OpenMP loops with a barrier after each: vertex shading  *)
(* and binning divide their iterations statically, the raster pass hands   *)
(* out tiles dynamically.  The master thread clears the buffers between    *)
(* the first two.  A thread of the raster pass scans its tile's bins and   *)
(* shades the fragments that pass the depth test, one at a time (scalar)   *)
(* or PACKET_W at a time (packet); in packet mode a fragment's depth is    *)
(* written when it is tested and its colour when its batch is flushed.     *)
(*                                                                         *)
(* Geometry is data: a triangle is given by its bounding box, its covered  *)
(* pixels and their depths.  Triangles are numbered from 1.                *)
(***************************************************************************)
EXTENDS Integers, Sequences, SequencesExt

CONSTANTS
  W, H, TILE,          \* framebuffer and tile size, in pixels
  PACKET_W,            \* fragments per packet
  NumThreads,          \* omp_get_max_threads()
  Draws,               \* the draws that the host repeats for every frame:
                       \* [clear, verts, tris], tris a sequence of
                       \* [verts, culled, minX, maxX, minY, maxY, cover, z, drops]
  ZFar                 \* 1.f

ASSUME SizeAssumption ==
  /\ W \in Nat \ {0} /\ H \in Nat \ {0} /\ TILE \in Nat \ {0}
  /\ PACKET_W \in Nat \ {0} /\ NumThreads \in Nat \ {0} /\ ZFar \in Int

Pixels  == 0 .. W * H - 1
Threads == 0 .. NumThreads - 1
TILES_X == (W + TILE - 1) \div TILE
TILES_Y == (H + TILE - 1) \div TILE
Tiles   == 0 .. TILES_X * TILES_Y - 1
NoTile  == -1

X(p) == p % W
Y(p) == p \div W
Minimum(a, b) == IF a < b THEN a ELSE b
Maximum(a, b) == IF a > b THEN a ELSE b

(* The bounding box as binning stores it, clamped to the framebuffer. *)
LoX(tri) == Maximum(0, tri.minX)
HiX(tri) == Minimum(W - 1, tri.maxX)
LoY(tri) == Maximum(0, tri.minY)
HiY(tri) == Minimum(H - 1, tri.maxY)
InBox(tri, p) == X(p) \in LoX(tri) .. HiX(tri) /\ Y(p) \in LoY(tri) .. HiY(tri)

(* A triangle that is not culled meets the framebuffer, and only pixels of its
   box are inside its edges. *)
TriangleOK(tri, verts) ==
  /\ {tri.minX, tri.maxX, tri.minY, tri.maxY} \subseteq Int
  /\ tri.verts \subseteq 0 .. verts - 1
  /\ tri.culled \in BOOLEAN
  /\ ~tri.culled => LoX(tri) <= HiX(tri) /\ LoY(tri) <= HiY(tri)
  /\ tri.cover \subseteq Pixels /\ \A p \in tri.cover : InBox(tri, p)
  /\ tri.z \in [tri.cover -> Int] /\ tri.drops \subseteq tri.cover

(* The first draw of a frame clears (rv_host_mesh.cpp draws one range per
   material and clears before the first). *)
ASSUME DrawsAssumption ==
  /\ Draws \in Seq(Range(Draws)) /\ Len(Draws) > 0 /\ Draws[1].clear
  /\ \A d \in DOMAIN Draws :
       /\ Draws[d].tris \in Seq(Range(Draws[d].tris))
       /\ Draws[d].clear \in BOOLEAN /\ Draws[d].verts \in Nat
       /\ \A i \in DOMAIN Draws[d].tris : TriangleOK(Draws[d].tris[i], Draws[d].verts)

VARIABLES
  vsPacketMode,        \* SHADER_PACKET is set and the shader has a vs_packet
  packetMode,          \* ... and an fs_packet: one may exist without the other
  phase,               \* "idle", or the loop the draw is in
  draw,                \* the draw in progress, or the next one
  todo,                \* [Threads -> iterations lo .. hi - 1 of a static loop]
  shaded,              \* vertices whose outputs are in vsout
  setups,              \* threadSetups: triangles, in the order they were set up
  bins,                \* threadBins: [Threads -> [Tiles -> indices of setups]]
  zbuf,
  rgb,                 \* rgb_out
  untaken,             \* tiles not handed out yet
  tile,                \* [Threads -> the tile in hand, or NoTile]
  work,                \* its fragments that the scan has still to reach, each
                       \* with its place in the bins
  batch                \* fragments waiting for fs_packet (b_*, bn)

modes == <<vsPacketMode, packetMode>>
vars == <<modes, phase, draw, todo, shaded, setups, bins, zbuf, rgb, untaken,
          tile, work, batch>>
rasterState == <<untaken, tile, work, batch>>

Tris == Draws[draw].tris
Fragments == [tri : 1 .. Len(Tris), pix : Pixels]
Places == [bin : Threads, pos : 1 .. Len(Tris), tri : 1 .. Len(Tris), pix : Pixels]
Loops == [lo : Nat, hi : Nat]
Colours == {<<0, 0>>} \cup UNION {{d} \X DOMAIN Draws[d].tris : d \in DOMAIN Draws}

TypeOK ==
  /\ vsPacketMode \in BOOLEAN /\ packetMode \in BOOLEAN
  /\ phase \in {"idle", "vs", "bin", "raster"}
  /\ draw \in DOMAIN Draws
  /\ todo \in [Threads -> Loops]
  /\ shaded \subseteq 0 .. Draws[draw].verts - 1
  /\ phase \in {"bin", "raster"} =>
       /\ setups \in [Threads -> Seq(1 .. Len(Tris))]
       /\ \A th \in Threads, t \in Tiles :
            \A i \in DOMAIN bins[th][t] : bins[th][t][i] \in DOMAIN setups[th]
  /\ zbuf \in [Pixels -> Int] /\ \A p \in Pixels : zbuf[p] <= ZFar
  /\ rgb \in [Pixels -> Colours]
  /\ untaken \subseteq Tiles
  /\ tile \in [Threads -> Tiles \cup {NoTile}]
  /\ work \in [Threads -> SUBSET Places]
  /\ batch \in [Threads -> Seq(Fragments)]
  /\ \A th \in Threads : Len(batch[th]) < PACKET_W

(* schedule(static): contiguous chunks, ascending with the thread number; how
   large they are is the library's choice, and so is the size of the team. *)
Splits(n) ==
  LET Cuts == {c \in [0 .. NumThreads -> 0 .. n] :
                 /\ c[0] = 0 /\ c[NumThreads] = n
                 /\ \A th \in Threads : c[th] <= c[th + 1]}
  IN  {[th \in Threads |-> [lo |-> c[th], hi |-> c[th + 1]]] : c \in Cuts}

HasWork(th) == todo[th].lo < todo[th].hi
Barrier == \A th \in Threads : ~HasWork(th)
Advance(th) == todo' = [todo EXCEPT ![th].lo = @ + 1]

Init ==
  /\ vsPacketMode \in BOOLEAN /\ packetMode \in BOOLEAN
  /\ phase = "idle" /\ draw = 1
  /\ todo = [th \in Threads |-> [lo |-> 0, hi |-> 0]]
  /\ shaded = {}
  /\ setups = [th \in Threads |-> <<>>]
  /\ bins = [th \in Threads |-> [t \in Tiles |-> <<>>]]
  /\ zbuf = [p \in Pixels |-> ZFar]
  /\ rgb = [p \in Pixels |-> <<0, 0>>]
  /\ untaken = {}
  /\ tile = [th \in Threads |-> NoTile]
  /\ work = [th \in Threads |-> {}]
  /\ batch = [th \in Threads |-> <<>>]

----------------------------------------------------------------------------
(* The host calls render_pipeline: the vertex loop fills a vsout of the call's
   own, which is gone when the call returns. *)

VertsPerStep == IF vsPacketMode THEN PACKET_W ELSE 1

BeginDraw ==
  /\ phase = "idle"
  /\ phase' = "vs"
  /\ todo' \in Splits((Draws[draw].verts + VertsPerStep - 1) \div VertsPerStep)
  /\ UNCHANGED <<modes, draw, shaded, setups, bins, zbuf, rgb, rasterState>>

(* One vs_invoke, or one vs_packet, whose padding lanes are not stored. *)
ShadeVertices(th) ==
  /\ phase = "vs" /\ HasWork(th)
  /\ LET v0 == todo[th].lo * VertsPerStep
         n  == Minimum(VertsPerStep, Draws[draw].verts - v0)
     IN  shaded' = shaded \cup (v0 .. v0 + n - 1)
  /\ Advance(th)
  /\ UNCHANGED <<modes, phase, draw, setups, bins, zbuf, rgb, rasterState>>

(* Mutant of ClearBuffers: the vertex loop has no barrier at its end. *)
ClearBuffersNowait ==
  /\ phase = "vs"
  /\ phase' = "bin"
  /\ IF Draws[draw].clear
     THEN /\ rgb' = [p \in Pixels |-> <<0, 0>>]
          /\ zbuf' = [p \in Pixels |-> ZFar]
     ELSE UNCHANGED <<rgb, zbuf>>
  /\ setups' = [th \in Threads |-> <<>>]
  /\ bins' = [th \in Threads |-> [t \in Tiles |-> <<>>]]
  /\ todo' \in Splits(Len(Tris))
  /\ UNCHANGED <<modes, draw, shaded, rasterState>>

(* The master, after the barrier: the buffers and the bins. *)
ClearBuffers ==
  /\ phase = "vs" /\ Barrier
  /\ phase' = "bin"
  /\ IF Draws[draw].clear
     THEN /\ rgb' = [p \in Pixels |-> <<0, 0>>]
          /\ zbuf' = [p \in Pixels |-> ZFar]
     ELSE UNCHANGED <<rgb, zbuf>>
  /\ setups' = [th \in Threads |-> <<>>]
  /\ bins' = [th \in Threads |-> [t \in Tiles |-> <<>>]]
  /\ todo' \in Splits(Len(Tris))
  /\ UNCHANGED <<modes, draw, shaded, rasterState>>

----------------------------------------------------------------------------
(* Binning: a triangle goes to the bin of every tile its box overlaps. *)

(* Mutant of TilesOf: the last row and column of tiles are left out. *)
TilesOfExclusive(tri) ==
  {ty * TILES_X + tx :
     ty \in LoY(tri) \div TILE .. Minimum(HiY(tri) \div TILE, TILES_Y - 1) - 1,
     tx \in LoX(tri) \div TILE .. Minimum(HiX(tri) \div TILE, TILES_X - 1) - 1}

TilesOf(tri) ==
  {ty * TILES_X + tx :
     ty \in LoY(tri) \div TILE .. Minimum(HiY(tri) \div TILE, TILES_Y - 1),
     tx \in LoX(tri) \div TILE .. Minimum(HiX(tri) \div TILE, TILES_X - 1)}

BinTriangle(th) ==
  /\ phase = "bin" /\ HasWork(th)
  /\ LET i == todo[th].lo + 1 IN
       IF Tris[i].culled THEN UNCHANGED <<setups, bins>>
       ELSE /\ setups' = [setups EXCEPT ![th] = Append(@, i)]
            /\ bins' = [bins EXCEPT ![th] =
                 [t \in Tiles |-> IF t \in TilesOf(Tris[i])
                                  THEN Append(@[t], Len(setups[th]) + 1)
                                  ELSE @[t]]]
  /\ Advance(th)
  /\ UNCHANGED <<modes, phase, draw, shaded, zbuf, rgb, rasterState>>

StartRaster ==
  /\ phase = "bin" /\ Barrier
  /\ phase' = "raster"
  /\ untaken' = Tiles
  /\ UNCHANGED <<modes, draw, todo, shaded, setups, bins, zbuf, rgb,
                 tile, work, batch>>

----------------------------------------------------------------------------
(* Raster pass. *)

InTile(t, p) ==
  LET loX == (t % TILES_X) * TILE
      loY == (t \div TILES_X) * TILE
  IN  /\ X(p) \in loX .. Minimum(loX + TILE, W) - 1
      /\ Y(p) \in loY .. Minimum(loY + TILE, H) - 1

(* The fragments of tile t: those of every thread's bin. *)
TileScan(t) ==
  {f \in Places :
     /\ f.pos \in DOMAIN bins[f.bin][t]
     /\ f.tri = setups[f.bin][bins[f.bin][t][f.pos]]
     /\ f.pix \in Tris[f.tri].cover
     /\ InTile(t, f.pix) /\ InBox(Tris[f.tri], f.pix)}

(* Mutant of Before: the bins of the threads in descending order. *)
BeforeDescending(f, g) ==
  \/ f.bin > g.bin
  \/ f.bin = g.bin /\ f.pos < g.pos
  \/ f.bin = g.bin /\ f.pos = g.pos /\ f.pix < g.pix

(* The order of the scan: thread by thread, bin in order, row by row. *)
Before(f, g) ==
  \/ f.bin < g.bin
  \/ f.bin = g.bin /\ f.pos < g.pos
  \/ f.bin = g.bin /\ f.pos = g.pos /\ f.pix < g.pix
Reached(th, f) == f \in work[th] /\ \A g \in work[th] \ {f} : Before(f, g)

(* Mutant of TakeTile: the tile is handed out again. *)
TakeTileShared(th) ==
  /\ phase = "raster" /\ tile[th] = NoTile
  /\ \E t \in untaken :
       /\ tile' = [tile EXCEPT ![th] = t]
       /\ work' = [work EXCEPT ![th] = TileScan(t)]
  /\ UNCHANGED <<modes, phase, draw, todo, shaded, setups, bins, zbuf, rgb,
                 untaken, batch>>

TakeTile(th) ==
  /\ phase = "raster" /\ tile[th] = NoTile
  /\ \E t \in untaken :
       /\ untaken' = untaken \ {t}
       /\ tile' = [tile EXCEPT ![th] = t]
       /\ work' = [work EXCEPT ![th] = TileScan(t)]
  /\ UNCHANGED <<modes, phase, draw, todo, shaded, setups, bins, zbuf, rgb, batch>>

(* What flush writes: of a pixel's fragments that fs_packet reports live the
   last one is seen. *)
Dropped(f) == f.pix \in Tris[f.tri].drops
Write(image, f) == [image EXCEPT ![f.pix] = <<draw, f.tri>>]
Kept(fragments, p) ==
  {n \in DOMAIN fragments : fragments[n].pix = p /\ ~Dropped(fragments[n])}
Flushed(fragments) ==
  [p \in Pixels |-> IF Kept(fragments, p) = {} THEN rgb[p]
                    ELSE <<draw, fragments[Max(Kept(fragments, p))].tri>>]

Hidden(f) == Tris[f.tri].z[f.pix] >= zbuf[f.pix]

SkipFragment(th, f) ==
  /\ Reached(th, f) /\ Hidden(f)
  /\ work' = [work EXCEPT ![th] = @ \ {f}]
  /\ UNCHANGED <<modes, phase, draw, todo, shaded, setups, bins, zbuf, rgb,
                 untaken, tile, batch>>

(* Mutant of ShadeFragment: the batch is flushed one fragment late. *)
ShadeFragmentLateFlush(th, f) ==
  /\ Reached(th, f) /\ ~Hidden(f)
  /\ zbuf' = [zbuf EXCEPT ![f.pix] = Tris[f.tri].z[f.pix]]
  /\ LET b == Append(batch[th], [tri |-> f.tri, pix |-> f.pix]) IN
       \/ ~packetMode /\ rgb' = Write(rgb, f) /\ UNCHANGED batch
       \/ /\ packetMode /\ Len(b) <= PACKET_W
          /\ batch' = [batch EXCEPT ![th] = b] /\ UNCHANGED rgb
       \/ /\ packetMode /\ Len(b) > PACKET_W
          /\ rgb' = Flushed(b) /\ batch' = [batch EXCEPT ![th] = <<>>]
  /\ work' = [work EXCEPT ![th] = @ \ {f}]
  /\ UNCHANGED <<modes, phase, draw, todo, shaded, setups, bins, untaken, tile>>

ShadeFragment(th, f) ==
  /\ Reached(th, f) /\ ~Hidden(f)
  /\ zbuf' = [zbuf EXCEPT ![f.pix] = Tris[f.tri].z[f.pix]]
  /\ LET b == Append(batch[th], [tri |-> f.tri, pix |-> f.pix]) IN
       \/ ~packetMode /\ rgb' = Write(rgb, f) /\ UNCHANGED batch
       \/ /\ packetMode /\ Len(b) < PACKET_W
          /\ batch' = [batch EXCEPT ![th] = b] /\ UNCHANGED rgb
       \/ /\ packetMode /\ Len(b) = PACKET_W
          /\ rgb' = Flushed(b) /\ batch' = [batch EXCEPT ![th] = <<>>]
  /\ work' = [work EXCEPT ![th] = @ \ {f}]
  /\ UNCHANGED <<modes, phase, draw, todo, shaded, setups, bins, untaken, tile>>

(* Mutant of EndTile: the batch is kept for the thread's next tile. *)
EndTileKeepsBatch(th) ==
  /\ tile[th] # NoTile /\ work[th] = {}
  /\ tile' = [tile EXCEPT ![th] = NoTile]
  /\ UNCHANGED <<modes, phase, draw, todo, shaded, setups, bins, zbuf, rgb,
                 untaken, work, batch>>

(* End of the tile: the rest of the batch is flushed. *)
EndTile(th) ==
  /\ tile[th] # NoTile /\ work[th] = {}
  /\ rgb' = Flushed(batch[th])
  /\ batch' = [batch EXCEPT ![th] = <<>>]
  /\ tile' = [tile EXCEPT ![th] = NoTile]
  /\ UNCHANGED <<modes, phase, draw, todo, shaded, setups, bins, zbuf, untaken, work>>

RasterDone ==
  phase = "raster" /\ untaken = {} /\ \A th \in Threads : tile[th] = NoTile

EndDraw ==
  /\ RasterDone
  /\ phase' = "idle"
  /\ draw' = IF draw = Len(Draws) THEN 1 ELSE draw + 1
  /\ shaded' = {}
  /\ UNCHANGED <<modes, todo, setups, bins, zbuf, rgb, rasterState>>

----------------------------------------------------------------------------
ThreadStep(th) ==
  \/ ShadeVertices(th) \/ BinTriangle(th)
  \/ TakeTile(th) \/ EndTile(th)
  \/ \E f \in work[th] : SkipFragment(th, f) \/ ShadeFragment(th, f)
MasterStep == ClearBuffers \/ StartRaster \/ EndDraw

Next == BeginDraw \/ MasterStep \/ \E th \in Threads : ThreadStep(th)

(* OpenMP's threads run until the barrier; the host need not draw again. *)
Fairness == WF_vars(MasterStep) /\ \A th \in Threads : WF_vars(ThreadStep(th))

Spec == Init /\ [][Next]_vars /\ Fairness

----------------------------------------------------------------------------
(* No data race on the framebuffer or the depth buffer: the pixels that two
   threads have still to touch are distinct, batched ones included. *)
Touching(th) == {f.pix : f \in work[th]}
                  \cup {batch[th][n].pix : n \in DOMAIN batch[th]}
NoSharedPixel ==
  \A th, other \in Threads :
    th # other => Touching(th) \cap Touching(other) = {}

(* Setup and rasterization read vsout: every vertex was shaded by then, by
   whichever thread, padding of the last packet or not. *)
ReadsShaded ==
  phase \in {"bin", "raster"} => shaded = 0 .. Draws[draw].verts - 1

(* What is drawn since the buffers were last cleared: the triangles of draws up to d, as
   <<draw, triangle>>, that have a fragment at p. *)
Triangle(f) == Draws[f[1]].tris[f[2]]
LastClear(d) == Max({c \in 1 .. d : Draws[c].clear})
Submitted(d, p) ==
  {f \in Colours : f[1] \in LastClear(d) .. d /\ ~Triangle(f).culled /\ p \in Triangle(f).cover}
Earlier(f, g) == f[1] < g[1] \/ (f[1] = g[1] /\ f[2] < g[2])

(* Those of the fragments F at p that are in front of all before them when they come, and
   those that are seen then, because they are not discarded (only fs_packet reports it). *)
InFront(F, p) ==
  {f \in F : /\ Triangle(f).z[p] < ZFar
             /\ \A g \in F : Earlier(g, f) => Triangle(f).z[p] < Triangle(g).z[p]}
Visible(F, p) == {f \in InFront(F, p) : ~(packetMode /\ p \in Triangle(f).drops)}
Shows(F, p, depth, colour) ==
  /\ depth = Min({ZFar} \cup {Triangle(f).z[p] : f \in F})
  /\ \/ Visible(F, p) = {} /\ colour = <<0, 0>>
     \/ colour \in Visible(F, p) /\ \A f \in Visible(F, p) : ~Earlier(colour, f)

(* In the finished picture every pixel has the least depth of all its fragments since the
   buffers were cleared, and the colour of the last that was seen when it came, whatever
   threads, tiles and batches they went through. *)
FinalImage ==
  RasterDone => \A p \in Pixels : Shows(Submitted(draw, p), p, zbuf[p], rgb[p])

(* Every draw that is begun returns. *)
DrawsFinish == phase = "vs" ~> phase = "idle"

----------------------------------------------------------------------------
(* The abstract state: a pixel shows what it will once the batch that holds
   its fragments is flushed, and has still to take the fragments that its
   tile's scan has not reached. *)
TileOf(p) == CHOOSE t \in Tiles : InTile(t, p)

AbsColour == [p \in Pixels |->
  LET owners == {th \in Threads : Kept(batch[th], p) # {}}
  IN  IF owners = {} THEN rgb[p] ELSE Flushed(batch[CHOOSE th \in owners : TRUE])[p]]

FragmentsAt(p) == {i \in 1 .. Len(Tris) : ~Tris[i].culled /\ p \in Tris[i].cover}

Unreached(p) == {f \in UNION {work[th] : th \in Threads} : f.pix = p}
AbsPending == [p \in Pixels |->
  IF phase = "bin" \/ TileOf(p) \in untaken THEN FragmentsAt(p)
  ELSE {f.tri : f \in Unreached(p)}]

InOrder == INSTANCE InOrderRaster
             WITH packet <- packetMode, busy <- phase \in {"bin", "raster"}, depth <- zbuf,
                  colour <- AbsColour, pending <- AbsPending

ImplementsInOrder == InOrder!Spec
=============================================================================
