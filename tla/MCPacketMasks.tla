--------------------------- MODULE MCPacketMasks ---------------------------
(* Model checking of PacketMasks: lanes are interchangeable. *)
EXTENDS PacketMasks, TLC

LaneSymmetry == Permutations(Lanes)
============================================================================
