--------------------------- MODULE InOrderRaster ---------------------------
(***************************************************************************)
(* What render_pipeline promises: the picture is the one that the          *)
(* fragments of a draw give when each pixel takes them in submission       *)
(* order, one at a time, whatever thread shades them and when.  Different  *)
(* pixels are independent of each other.                                   *)
(***************************************************************************)
EXTENDS Integers, Sequences, FiniteSetsExt

CONSTANTS
  Pixels,              \* indices of the framebuffer
  Draws,               \* the draws of one frame: [clear, tris, ...]
  ZFar                 \* the depth that the depth buffer is cleared to

VARIABLES
  packet,              \* shading through fs_packet, the one interface that
                       \* reports discarded fragments
  draw,                \* the draw in progress, or the next one
  busy,                \* its buffers are set up and it is not finished
  pending,             \* [Pixels -> triangles the pixel has still to take]
  depth,
  colour

rasterVars == <<packet, draw, busy, pending, depth, colour>>

Black == <<0, 0>>

(* The triangles of draw d that have a fragment at pixel p. *)
FragmentsAt(d, p) ==
  LET tris == Draws[d].tris
  IN  {i \in 1 .. Len(tris) : ~tris[i].culled /\ p \in tris[i].cover}

Init ==
  /\ packet \in BOOLEAN
  /\ draw = 1
  /\ busy = FALSE
  /\ pending = [p \in Pixels |-> {}]
  /\ depth = [p \in Pixels |-> ZFar]
  /\ colour = [p \in Pixels |-> Black]

(* The draw's image starts black and far, or is what the last draw left. *)
Start ==
  /\ ~busy
  /\ busy' = TRUE
  /\ pending' = [p \in Pixels |-> FragmentsAt(draw, p)]
  /\ IF Draws[draw].clear
     THEN /\ depth' = [p \in Pixels |-> ZFar]
          /\ colour' = [p \in Pixels |-> Black]
     ELSE UNCHANGED <<depth, colour>>
  /\ UNCHANGED <<packet, draw>>

(* The fragments come in submission order: one in front of what the pixel
   shows replaces it, a discarded one leaves the colour, but not the depth. *)
Take(p) ==
  /\ busy /\ pending[p] # {}
  /\ LET i   == Min(pending[p])
         tri == Draws[draw].tris[i]
     IN  IF tri.z[p] >= depth[p] THEN UNCHANGED <<depth, colour>>
         ELSE /\ depth' = [depth EXCEPT ![p] = tri.z[p]]
              /\ colour' = IF packet /\ p \in tri.drops THEN colour
                           ELSE [colour EXCEPT ![p] = <<draw, i>>]
  /\ pending' = [pending EXCEPT ![p] = @ \ {Min(@)}]
  /\ UNCHANGED <<packet, draw, busy>>

Finish ==
  /\ busy /\ \A p \in Pixels : pending[p] = {}
  /\ busy' = FALSE
  /\ draw' = IF draw = Len(Draws) THEN 1 ELSE draw + 1
  /\ UNCHANGED <<packet, pending, depth, colour>>

Next == Start \/ (\E p \in Pixels : Take(p)) \/ Finish

Spec == Init /\ [][Next]_rasterVars
============================================================================
