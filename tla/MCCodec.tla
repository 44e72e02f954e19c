------------------------------- MODULE MCCodec -------------------------------
(***************************************************************************)
(* An instance of Codec for TLC: one decoder and one encoder, so that what *)
(* is demuxed can be transcoded.  Blocks, packets and frames are           *)
(* interchangeable.                                                        *)
(***************************************************************************)
EXTENDS Codec, TLC

Names == Permutations(Blocks) \union Permutations(Packets) \union Permutations(Frames)
=============================================================================
