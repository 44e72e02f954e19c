---------------------------- MODULE MCIsomBoxes -----------------------------
(***************************************************************************)
(* Styles of files for IsomBoxes.  A header has 2 bytes, the header of a   *)
(* descriptor 1, and a handler reads 1.                                    *)
(*                                                                         *)
(* "Orders": every box has its size, those of a movie, a track and a       *)
(* fragment the sizes of some number of boxes; so that tracks, defaults    *)
(* and fragments come in any order, once or several times.                 *)
(* "Sizes": few boxes, with sizes too small, too large, zero, and behind   *)
(* the end of a ulong.                                                     *)
(* "Descriptions": a track whose sample description has entries and        *)
(* descriptors of any size.                                                *)
(*                                                                         *)
(* The reader and the memory fail anywhere in "Sizes", and near the end of *)
(* the file in the others.                                                 *)
(***************************************************************************)
EXTENDS IsomBoxes

NoBoxes == [type \in Types |-> {}] @@ [large |-> {}, handlers |-> {"audio"}, ids |-> {1}, defaults |-> {1}, entries |-> {0}]
  @@ [faults |-> TRUE]

Orders == [NoBoxes EXCEPT
  !.moov = {56}, !.trak = {20}, !.mvex = {14}, !.trex = {12},
  !.tkhd = {3}, !.mdia = {15}, !.hdlr = {3}, !.mdhd = {3}, !.minf = {7}, !.stbl = {5},
  !.stsd = {3}, !.moof = {7}, !.traf = {5}, !.tfhd = {3},
  !.ids = {1, 2}, !.defaults = {1, 2}, !.faults = FALSE]
  @@ [length |-> 63]

Sizes == [NoBoxes EXCEPT
  !.moov = {0, 5, 9, 126}, !.mvex = {0, 4, 7, 125}, !.trex = {2, 3, 5},
  !.mdat = {0, 3}, !.moof = {0, 7}, !.traf = {0, 5}, !.tfhd = {3, 4},
  !.other = {0, 3, 124}, !.large = {"moov", "mvex", "trex", "other"}]
  @@ [length |-> 20]

Descriptions == [NoBoxes EXCEPT
  !.moov = {42}, !.trak = {40}, !.handlers = {"audio", "other"}, !.entries = {2},
  !.tkhd = {3}, !.mdia = {35}, !.hdlr = {3}, !.mdhd = {3},
  !.minf = {27}, !.stbl = {0}, !.stsd = {19}, !.table = {4},
  !.mp4a = {1, 12}, !.Opus = {3}, !.esds = {9},
  !.ES = {0, 5}, !.config = {0, 3}, !.info = {1}, !.tag = {2},
  !.faults = FALSE]
  @@ [length |-> 42]

AllStyles == <<Orders, Sizes, Descriptions>>
=============================================================================
