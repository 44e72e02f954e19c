---------------------------- MODULE MCPacketPool ----------------------------
(***************************************************************************)
(* Instances of PacketPool for TLC.  Buffers and packets are interchange-  *)
(* able, demuxers are not: one keeps a packet that got no memory.          *)
(***************************************************************************)
EXTENDS PacketPool, TLC

Names == Permutations(Buffers) \union Permutations(Packets)
=============================================================================
