---------------------------- MODULE MCTileRaster ----------------------------
(***************************************************************************)
(* Model checking of TileRaster: a frame of two draws on a 3 x 3           *)
(* framebuffer, that is one full tile and three that its edges cut off.    *)
(***************************************************************************)
EXTENDS TileRaster, TLC

(* A triangle of constant depth over the pixels of a box. *)
Flat(verts, box, cover, depth, drops) ==
  [verts |-> verts, culled |-> FALSE,
   minX |-> box[1], maxX |-> box[2], minY |-> box[3], maxY |-> box[4],
   cover |-> cover, z |-> [p \in cover |-> depth], drops |-> drops]

(* Pixels: 0 1 2
           3 4 5
           6 7 8   tile 0 is {0, 1, 3, 4}, tiles 1 to 3 {2, 5}, {6, 7}, {8}. *)

(* Far to near over all four tiles, a culled one, then one that intersects
   the others, is partly hidden and discards two visible fragments.  The
   boxes of the first and the last reach outside the framebuffer. *)
FirstDraw ==
  [clear |-> TRUE, verts |-> 4,
   tris |-> <<Flat({0, 1, 2}, <<-1, 3, 0, 2>>, {0, 1, 4, 5, 7, 8}, 3, {}),
              Flat({1, 2, 3}, <<0, 2, 0, 1>>, {1, 2, 5}, 2, {2}),
              [Flat({0, 2, 3}, <<5, 6, 0, 1>>, {}, 0, {}) EXCEPT !.culled = TRUE],
              [Flat({0, 1, 3}, <<0, 4, 0, 5>>, {0, 1, 4, 7}, 1, {4})
                 EXCEPT !.z = (0 :> 4) @@ (1 :> 1) @@ (4 :> 1) @@ (7 :> 2)]>>]

(* Accumulates over the first.  Its second triangle has the depth of the first
   at pixel 5 and lies beyond the far plane at pixel 6. *)
SecondDraw ==
  [clear |-> FALSE, verts |-> 5,
   tris |-> <<Flat({0, 1, 2}, <<1, 2, 0, 1>>, {2, 4, 5}, 1, {5}),
              [Flat({2, 3, 4}, <<0, 2, 1, 2>>, {4, 5, 6}, 1, {})
                 EXCEPT !.z = (4 :> 0) @@ (5 :> 1) @@ (6 :> 9)]>>]

MCDraws == <<FirstDraw, SecondDraw>>
=============================================================================
