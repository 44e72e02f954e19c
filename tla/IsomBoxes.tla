------------------------------ MODULE IsomBoxes ------------------------------
(***************************************************************************)
(* The boxes of an ISO media file below the top level (isom.cc): how       *)
(* read_children() and the handlers of the boxes call each other, what     *)
(* they make of sizes that do not fit, and the list of tracks that they    *)
(* build from boxes in any order.                                          *)
(*                                                                         *)
(* The file is not a constant: the next box, its size and its values are   *)
(* chosen when the demuxer gets there, so that a run covers every file of  *)
(* a style.  The stack is that of the C++ calls: a frame for every box     *)
(* that is being read.                                                     *)
(***************************************************************************)
EXTENDS Integers, SequencesExt

CONSTANTS
  Styles,          \* a list of styles of files: their length, the sizes of the boxes of every
                   \* type, which headers may be large, the handlers, ids and default values of
                   \* tracks, the numbers of entries, and whether the reader and the memory may
                   \* fail anywhere
  Objects,         \* addresses of tracks, numbers
  Word,            \* number of values of a ulong
  HEADER,          \* the length of a header with a 32 bit size; twice that with a 64 bit size
  TAG,             \* the length of the header of a descriptor
  BODY             \* the length of what a handler reads

ASSUME LengthAssumption ==
  /\ Word \in Nat /\ \A s \in Range(Styles) : s.length \in Nat /\ s.length < Word
  /\ HEADER \in Nat \ {0} /\ TAG \in Nat \ {0} /\ BODY \in Nat

(* The boxes and where the demuxer reads them.  All others are skipped, as *)
(* are these in another place: "other" stands for both, and for those that *)
(* only Isom has a use for (sidx, tfdt, trun).                             *)
PlaceOf ==
  [moov |-> "root", moof |-> "root", mdat |-> "root",
   trak |-> "moov", mvex |-> "moov", tkhd |-> "trak", mdia |-> "trak",
   hdlr |-> "mdia", mdhd |-> "mdia", minf |-> "mdia", stbl |-> "minf",
   stsd |-> "stbl", table |-> "stbl", esds |-> "mp4a", trex |-> "mvex",
   traf |-> "moof", tfhd |-> "traf"]

Containers == {"root", "moov", "trak", "mvex", "mdia", "minf", "stbl", "mp4a", "moof", "traf"}
DescriptorOf == [ES |-> "esds", config |-> "ES", info |-> "config"]
Entries == {"mp4a", "Opus", "text"}
Ids == UNION {s.ids : s \in Range(Styles)}
Types == DOMAIN PlaceOf \cup Entries \cup DOMAIN DescriptorOf \cup {"tag", "other"}

(* A size is a ulong, and an id of zero is refused (isom.cc:604, 669,      *)
(* 1260).                                                                  *)
ASSUME StylesAssumption ==
  \A s \in Range(Styles) :
    /\ \A type \in Types : s[type] \subseteq 0..Word - 1
    /\ s.ids \subseteq Nat \ {0}
    /\ s.defaults \subseteq Nat /\ s.entries \subseteq Nat

ASSUME ObjectsAssumption == Objects \subseteq Nat

VARIABLES
  style,           \* that of the file
  pc, result,      \* "idle", "walk" (in read_root()) or "done", with "OK" or FAILED
  offset, error,   \* of the reader; error says whether it has failed or met the end of the file
  stack,           \* the boxes being read
  tracks, heap,    \* xe_isom::tracks and the objects its pointers lead to
  track, found,    \* the pointer and found_boxes of xe_isom_reader
  traf, found_moov, found_mdat,
  trexes           \* history: the defaults in the last trex of each id of this movie

position == <<offset, error>>
movie == <<tracks, heap, track, found, trexes>>
flags == <<traf, found_moov, found_mdat>>
vars == <<style, pc, result, position, stack, movie, flags>>

Frame(type, at, size) ==
  [type |-> type, offset |-> at, size |-> size,
   returned |-> FALSE,     \* its handler has returned 0
   over |-> FALSE,         \* its loop over the boxes inside of it has been left
   entries |-> 0,          \* of a stsd: entries left; of others: 1 if it had a box inside
   exceeded |-> FALSE]     \* history: a box inside of it was to end behind it

FAILED == "failed"     \* any error: nothing looks at which one

NoTraf == [id |-> 0, index |-> 0, default |-> 0, own |-> FALSE]

Init ==
  /\ style \in DOMAIN Styles
  /\ pc = "idle" /\ result = "OK"
  /\ offset = 0 /\ error = FALSE
  /\ stack = <<>>
  /\ tracks = <<>> /\ heap = <<>> /\ track = 0 /\ found = {}
  /\ traf = NoTraf /\ found_moov = FALSE /\ found_mdat = FALSE
  /\ trexes = [id \in Ids |-> 0]

-----------------------------------------------------------------------------
(* Boxes and the reader *)

File == Styles[style]
Top == stack[Len(stack)]
Below == SubSeq(stack, 1, Len(stack) - 1)
AtRoot == Len(stack) = 1                 \* depth = 0

End(box) == (box.offset + box.size) % Word

(* box_has(): a box of size zero has no bound. *)
Has(box, bytes) == box.size = 0 \/ End(box) >= (bytes + offset) % Word

(* box_left() *)
Left(box, at) == IF box.size = 0 THEN 0 ELSE (box.offset + box.size - at) % Word

Walking == pc = "walk"
Finish(e) == pc' = "done" /\ result' = e /\ stack' = <<>> /\ UNCHANGED style
Continue == UNCHANGED <<style, pc, result>>

(* The reader may fail here: it always may at the end of the file.         *)
Faults == File.faults \/ offset + HEADER + BODY > File.length

(* The handler of the box on top of the stack returns 0. *)
Return == stack' = Append(Below, [Top EXCEPT !.returned = TRUE]) /\ Continue

(* read_stsd() returns 0 whatever error it has seen. *)
Swallows(box) == box.type = "stsd"

(* An error is returned through the handlers of boxes, the last of which is*)
(* the first to return it, to read_stsd() or to the caller of read_root(). *)
Throw(boxes) ==
  IF \E i \in DOMAIN boxes : Swallows(boxes[i])
  THEN LET i == Min({j \in DOMAIN boxes : Swallows(boxes[j])})
       IN  stack' = Append(SubSeq(boxes, 1, i - 1), [boxes[i] EXCEPT !.returned = TRUE]) /\ Continue
  ELSE Finish(FAILED)
Raise == Throw(stack)      \* of the handler of the box on top

Reading(types) == Walking /\ Top.type \in types /\ ~Top.returned

Exceeds(box, parent) ==
  parent.size # 0 /\ box.size # 0 /\ box.offset + box.size > parent.offset + parent.size

(* The boxes with a new one on top, which is read or (returned) has been. *)
Pushed(box, returned) ==
  Below \o <<[Top EXCEPT !.exceeded = @ \/ Exceeds(box, Top),
                         !.entries = IF Top.type = "stsd" THEN @ - 1 ELSE 1],
             [box EXCEPT !.returned = returned]>>

(* open() calls read_root(). *)
Open ==
  /\ pc = "idle"
  /\ pc' = "walk" /\ stack' = <<Frame("root", 0, 0)>>
  /\ UNCHANGED <<style, result, position, movie, flags>>

-----------------------------------------------------------------------------
(* read_children(): the header of the next box *)

(* A box whose header has been read.  Inside of another box, size *)
(* zero is all that is left of that.                                       *)
Box(type, size) ==
  Frame(type, offset, IF size = 0 /\ ~AtRoot THEN Left(Top, offset) ELSE size)

(* A size that does not count the header: the 1 that announces a large     *)
(* header is not among the sizes.                                          *)
HeaderLength(large) == IF large THEN 2 * HEADER ELSE HEADER
TooSmall(size, large) == size # 0 /\ size < HeaderLength(large)

MayHead == Reading(Containers) /\ ~Top.over /\ Has(Top, HEADER)

(* The choice of a box: its type, its size, the form of its header. *)
Header(type, size, large) ==
  /\ MayHead
  /\ size \in File[type]
  /\ IF large THEN type \in File.large ELSE offset + size < Word
  /\ offset + HeaderLength(large) <= File.length

(* A 64 bit size is asked for with box_has(parent, 8) behind the header.   *)
LargeFits(large) == ~large \/ Has(Top, 2 * HEADER)

(* The reader fails or its file ends, which is no error between the boxes  *)
(* of the root.                                                            *)
HeaderFails ==
  /\ MayHead
  /\ error' = TRUE
  /\ (Faults /\ Raise) \/ (AtRoot /\ Finish("OK"))
  /\ UNCHANGED <<offset, movie, flags>>

HeaderInvalid(type, size, large) ==
  /\ Header(type, size, large)
  /\ TooSmall(size, large) \/ ~LargeFits(large)
  /\ Raise
  /\ offset' = offset + (IF LargeFits(large) THEN HeaderLength(large) ELSE HEADER)
  /\ UNCHANGED <<error, movie, flags>>

HeaderValid(type, size, large) ==
  Header(type, size, large) /\ ~TooSmall(size, large) /\ LargeFits(large)

InPlace(type) == Reading(Containers) /\ type \in DOMAIN PlaceOf /\ Top.type = PlaceOf[type]

(* The handler of a box reads length bytes behind the header and returns 0.*)
Handled(type, size, large, length) ==
  /\ HeaderValid(type, size, large)
  /\ offset' = offset + HeaderLength(large) + length
  /\ offset' <= File.length
  /\ stack' = Pushed(Box(type, size), TRUE)
  /\ Continue /\ UNCHANGED error

(* ... or calls read_children() for it. *)
Entered(type, size, large) ==
  /\ InPlace(type) /\ HeaderValid(type, size, large)
  /\ offset' = offset + HeaderLength(large)
  /\ stack' = Pushed(Box(type, size), FALSE)
  /\ Continue /\ UNCHANGED error

-----------------------------------------------------------------------------
(* The handlers.  Those of containers call read_children(). *)

(* The boxes that a track must have, each of them once. *)
Required == {"tkhd", "hdlr", "mdhd", "stsd"}
Twice(type) == type \in Required /\ type \in found

(* The handlers whose bytes are read, whose memory may be short, and whose *)
(* values may be wrong.                                                    *)
MayFail(type) == Twice(type) \/ type \in {"trak", "table", "trex", "traf", "tkhd", "tfhd"}
MayHitEnd == {"tkhd", "hdlr", "mdhd", "stsd", "table", "trex", "tfhd", "esds"}

(* A handler fails, whatever it has done before: the file is given up.  An *)
(* error of the reader is not returned by every handler, but is seen right *)
(* behind it.                                                              *)
HandlerFails(type, size, large) ==
  /\ InPlace(type) /\ HeaderValid(type, size, large)
  /\ Faults \/ Twice(type) \/ (type \in {"trak", "trex"} /\ Objects \subseteq DOMAIN heap)
  /\ ~(type \in {"table", "tfhd"} /\ type \in found)
  /\ offset' = offset + HeaderLength(large)
  /\ \/ MayFail(type) /\ UNCHANGED error
     \/ type \in MayHitEnd /\ error' = TRUE
  /\ Raise
  /\ UNCHANGED <<movie, flags>>

SkipUnknown(size, large) ==
  /\ Handled("other", size, large, 0)
  /\ UNCHANGED <<movie, flags>>

NewTrack(id, default) ==
  [id |-> id, type |-> "none", codec |-> "none", default |-> default]
Free == Min(Objects \ DOMAIN heap)
With(h, o, t) == [x \in DOMAIN h \cup {o} |-> IF x = o THEN t ELSE h[x]]
Without(h, o) == Restrict(h, DOMAIN h \ {o})

(* read_moov(): what an earlier movie has left is freed. *)
ReadMoov(size, large) ==
  /\ Entered("moov", size, large)
  /\ found_moov' = TRUE
  /\ tracks' = <<>> /\ heap' = <<>>
  /\ trexes' = [id \in Ids |-> 0]
  /\ UNCHANGED <<track, found, traf, found_mdat>>

(* mvex, mdia, minf and stbl have no handler of their own. *)
EnterBox(type, size, large) ==
  /\ type \in {"mvex", "mdia", "minf", "stbl"}
  /\ Entered(type, size, large)
  /\ UNCHANGED <<movie, flags>>

ReadTrak(size, large) ==
  /\ Entered("trak", size, large)
  /\ Objects \ DOMAIN heap # {}
  /\ track' = Free
  /\ heap' = With(heap, Free, NewTrack(0, 0))
  /\ tracks' = Append(tracks, Free)
  /\ found' = {}
  /\ UNCHANGED <<trexes, flags>>

(* The places of the tracks with an id in a list. *)
WithId(list, id) == {i \in DOMAIN list : heap[list[i]].id = id}

(* mutant: the defaults of the earlier track are lost with it *)
Merged_Forgets(id) ==
  LET i == Min(WithId(Front(tracks), id))
  IN  /\ heap' = Without([heap EXCEPT ![track].id = id], tracks[i])
      /\ tracks' = [Front(tracks) EXCEPT ![i] = track]

(* mutant: the earlier track is freed and stays in the list *)
Merged_Stays(id) ==
  LET i == Min(WithId(Front(tracks), id))
      trex == tracks[i]
  IN  /\ heap' = Without([heap EXCEPT ![track].id = id, ![track].default = heap[trex].default], trex)
      /\ tracks' = Front(tracks)

(* A trex, or another trak, has made a track of this id before: this one   *)
(* takes its defaults and its place.                                       *)
Merged(id) ==
  LET i == Min(WithId(Front(tracks), id))
      trex == tracks[i]
  IN  /\ heap' = Without([heap EXCEPT ![track].id = id, ![track].default = heap[trex].default], trex)
      /\ tracks' = [Front(tracks) EXCEPT ![i] = track]

ReadTkhd(size, large, id) ==
  /\ InPlace("tkhd") /\ ~Twice("tkhd") /\ Handled("tkhd", size, large, BODY)
  /\ found' = found \cup {"tkhd"}
  /\ IF WithId(Front(tracks), id) # {}
       THEN Merged(id)
       ELSE heap' = [heap EXCEPT ![track].id = id] /\ UNCHANGED tracks
  /\ UNCHANGED <<track, trexes, flags>>

ReadHdlr(size, large, handler) ==
  /\ InPlace("hdlr") /\ ~Twice("hdlr") /\ Handled("hdlr", size, large, BODY)
  /\ found' = found \cup {"hdlr"}
  /\ heap' = [heap EXCEPT ![track].type = handler]
  /\ UNCHANGED <<tracks, track, trexes, flags>>

ReadMdhd(size, large) ==
  /\ InPlace("mdhd") /\ ~Twice("mdhd") /\ Handled("mdhd", size, large, BODY)
  /\ found' = found \cup {"mdhd"}
  /\ UNCHANGED <<tracks, heap, track, trexes, flags>>

(* The tables of samples: as many entries as they say they have, whatever  *)
(* the size of the box.  A second table is not read.                       *)
ReadTable(size, large, length) ==
  /\ InPlace("table")
  /\ Handled("table", size, large, IF "table" \in found THEN 0 ELSE length)
  /\ found' = found \cup {"table"}
  /\ UNCHANGED <<tracks, heap, track, trexes, flags>>

(* The track that a trex is about, if it is known already. *)
TrexTarget(id) == WithId(tracks, id)

ReadTrex(size, large, id, default) ==
  /\ InPlace("trex") /\ Handled("trex", size, large, BODY)
  /\ trexes' = [trexes EXCEPT ![id] = default]
  /\ IF TrexTarget(id) # {}
       THEN /\ heap' = [heap EXCEPT ![tracks[Min(TrexTarget(id))]].default = default]
            /\ UNCHANGED tracks
       ELSE /\ Objects \ DOMAIN heap # {}
            /\ heap' = With(heap, Free, NewTrack(id, default))
            /\ tracks' = Append(tracks, Free)
  /\ UNCHANGED <<track, found, flags>>

(* A fragment to the end of the file is not read. *)
ReadMoof(size, large) ==
  /\ IF size = 0 THEN InPlace("moof") /\ Handled("moof", size, large, 0)
                 ELSE Entered("moof", size, large)
  /\ traf' = IF size = 0 THEN traf ELSE NoTraf
  /\ UNCHANGED <<movie, found_moov, found_mdat>>

ReadTraf(size, large) ==
  /\ Entered("traf", size, large)
  /\ traf' = NoTraf /\ found' = {}
  /\ UNCHANGED <<tracks, heap, track, trexes, found_moov, found_mdat>>

(* read_tfhd(): the defaults are its own (own # 0) or those of the track,  *)
(* if it is known, else zero and the first track; a second tfhd is not read.*)
ReadTfhd(size, large, id, own) ==
  LET known == WithId(tracks, id) IN
  /\ InPlace("tfhd")
  /\ Handled("tfhd", size, large, IF "tfhd" \in found THEN 0 ELSE BODY)
  /\ found' = found \cup {"tfhd"}
  /\ traf' = IF "tfhd" \in found THEN traf
             ELSE [id |-> id, own |-> own # 0,
                   index |-> IF known = {} THEN 0 ELSE Min(known) - 1,
                   default |-> IF own # 0 \/ known = {} THEN own
                               ELSE heap[tracks[Min(known)]].default]
  /\ UNCHANGED <<tracks, heap, track, trexes, found_moov, found_mdat>>

ReadMdat(size, large) ==
  /\ InPlace("mdat") /\ Handled("mdat", size, large, 0)
  /\ found_mdat' = TRUE
  /\ UNCHANGED <<movie, traf, found_moov>>

-----------------------------------------------------------------------------
(* Sample descriptions *)

Audio == heap[track].type = "audio"
SetCodec(codec) == heap' = [heap EXCEPT ![track].codec = codec]

ReadStsd(size, large, count) ==
  /\ InPlace("stsd") /\ ~Twice("stsd") /\ HeaderValid("stsd", size, large)
  /\ offset' = offset + HeaderLength(large) + BODY /\ offset' <= File.length
  /\ stack' = Pushed([Box("stsd", size) EXCEPT !.entries = count], FALSE)
  /\ found' = found \cup {"stsd"}
  /\ Continue
  /\ UNCHANGED <<error, tracks, heap, track, trexes, flags>>

MoreEntries == Reading({"stsd"}) /\ Top.entries # 0 /\ Has(Top, HEADER)

(* The one error of an entry that read_stsd() returns. *)
EntryInvalid(size) ==
  /\ MoreEntries /\ size < HEADER
  /\ Throw(Below)
  /\ UNCHANGED <<position, movie, flags>>

(* An entry is read if the handler has been met and says audio.  That of   *)
(* an mp4a has boxes.                                                      *)
Entry(type, size) ==
  /\ MoreEntries /\ size \in File[type] /\ size >= HEADER
  /\ offset' = offset + HEADER + (IF Audio THEN BODY ELSE 0)
  /\ offset' <= File.length
  /\ stack' = Pushed(Frame(type, offset, size), ~Audio \/ type # "mp4a")
  /\ IF Audio /\ type = "Opus" THEN SetCodec("OPUS") ELSE UNCHANGED heap
  /\ Continue
  /\ UNCHANGED <<error, tracks, track, found, trexes, flags>>

(* Every other error ends the entries, and read_stsd() returns 0, as when  *)
(* the reader fails behind the size of an entry; before that the size is 0.*)
EntryFails ==
  /\ Faults /\ MoreEntries
  /\ error' = TRUE
  /\ Return \/ Throw(Below)
  /\ UNCHANGED <<offset, movie, flags>>

EntriesEnd ==
  /\ Reading({"stsd"}) /\ (Top.entries = 0 \/ ~Has(Top, HEADER))
  /\ Return
  /\ UNCHANGED <<position, movie, flags>>

ReadEsds(size, large) ==
  /\ InPlace("esds") /\ HeaderValid("esds", size, large)
  /\ offset' = offset + HeaderLength(large) + BODY /\ offset' <= File.length
  /\ stack' = Pushed(Box("esds", size), FALSE)
  /\ Continue
  /\ UNCHANGED <<error, movie, flags>>

(* esds_read_children(): the header of a descriptor has from two to five   *)
(* bytes, of which box_has(parent, 2) asks for two.  Here it has TAG, or   *)
(* more than is left.                                                      *)
InDescriptor == Reading({"esds", "ES", "config"})
MayTag == InDescriptor /\ Has(Top, TAG)

DescriptorFails(length) ==
  /\ MayTag
  /\ \/ Faults /\ error' = TRUE /\ UNCHANGED offset
     \/ /\ offset' = offset + length /\ offset' <= File.length /\ UNCHANGED error
        /\ \/ Top.size # 0 /\ End(Top) < offset'
           \/ Faults /\ Top.type = "config" /\ "codec" \notin found
  /\ Raise
  /\ UNCHANGED <<movie, flags>>

(* mutant: a descriptor is taken to start at its header *)
Contents_Header == offset

(* Where the contents of a descriptor start, whose size does not count the *)
(* header.                                                                 *)
Contents == offset + TAG

(* A descriptor, "tag" if it is not known in this place: its handler reads *)
(* length more bytes.                                                      *)
Described(type, size, length, returned) ==
  /\ MayTag /\ size \in File[type]
  /\ offset' = offset + TAG + length /\ offset' <= File.length
  /\ stack' = Pushed(Frame(type, Contents, size), returned)
  /\ Continue
  /\ UNCHANGED <<error, tracks, track, trexes, flags>>

Belongs(type) == InDescriptor /\ Top.type = DescriptorOf[type]

SkipTag(size) ==
  /\ Described("tag", size, 0, TRUE)
  /\ UNCHANGED <<heap, found>>

ReadEs(size) ==
  /\ Belongs("ES") /\ Described("ES", size, BODY, FALSE)
  /\ UNCHANGED <<heap, found>>

(* read_decoder_config(): an object type that is not known leaves the      *)
(* codec of an earlier entry.                                              *)
ReadConfig(size, codec) ==
  /\ Belongs("config")
  /\ Described("config", size, BODY,
               codec = "MP3" \/ (codec = "none" /\ heap[track].codec = "none"))
  /\ IF codec = "none" THEN UNCHANGED heap ELSE SetCodec(codec)
  /\ UNCHANGED found

(* read_decoder_info() *)
ReadInfo(size) ==
  /\ Belongs("info")
  /\ Described("info", size, IF "codec" \in found THEN 0 ELSE size, TRUE)
  /\ found' = found \cup {"codec"}
  /\ UNCHANGED heap

(* What esds_read_children() returns is not initialised before the first   *)
(* descriptor.  The configuration of AAC is looked at behind the last one, *)
(* whether there was one or not.                                           *)
DescriptorsEnd ==
  /\ InDescriptor /\ ~Has(Top, TAG)
  /\ \/ Return
     \/ Top.entries = 0 /\ Raise
     \/ Top.type = "config" /\ heap[track].codec = "AAC" /\ Raise
  /\ UNCHANGED <<position, movie, flags>>

-----------------------------------------------------------------------------
(* Behind a box *)

(* read_children() of a container ends, and its handler looks at the boxes *)
(* that have been found.                                                   *)
Complete == CASE Top.type = "trak" -> Required \subseteq found
              [] Top.type = "traf" -> "tfhd" \in found
              [] OTHER -> TRUE

ChildrenEnd ==
  /\ Reading(Containers)
  /\ Top.over \/ ~Has(Top, HEADER)
  /\ CASE AtRoot -> Finish("OK")
       [] ~AtRoot /\ Complete -> Return
       [] ~AtRoot /\ ~Complete -> Raise
  /\ UNCHANGED <<position, movie, flags>>

Parent == stack[Len(stack) - 1]
Behind == Walking /\ Top.returned

(* mutant: a handler may read on behind its box *)
Checked_Never == FALSE

(* Whether the box is checked when its handler is back: not an entry that  *)
(* has not been read.                                                      *)
Checked == Parent.type = "stsd" => Audio

BoxOverrun ==
  /\ Behind /\ Checked /\ ~Has(Top, 0)
  /\ Throw(Below)
  /\ UNCHANGED <<position, movie, flags>>

AfterBox == Behind /\ (Checked => Has(Top, 0))

AfterError ==
  /\ AfterBox /\ error
  /\ Throw(Below)
  /\ UNCHANGED <<position, movie, flags>>

(* The data of the movie has been found. *)
Found == Parent.type = "root" /\ found_moov /\ found_mdat

(* The box is the last one its parent looks at, and is not skipped. *)
StopsHere == (Top.type = "mdat" /\ Found) \/ (Parent.type \in Containers /\ Top.size = 0)

StopAtBox ==
  /\ AfterBox /\ ~error /\ StopsHere
  /\ stack' = Front(Below) \o <<[Parent EXCEPT !.over = TRUE]>>
  /\ Continue
  /\ UNCHANGED <<position, movie, flags>>

(* skip_box() goes to the end of the box: behind the end of the file only  *)
(* if the stream can seek, and the next header fails there.  A descriptor  *)
(* of size zero that has been read is skipped by a negative number, which  *)
(* as a ulong leads back to its start, if the stream can seek.             *)
SkipToEnd ==
  /\ AfterBox /\ ~error /\ ~StopsHere
  /\ LET end == IF Top.size = 0 THEN Top.offset ELSE End(Top)
     IN  \/ /\ offset' = end
            /\ stack' = Front(Below) \o <<[Parent EXCEPT !.over = Found]>>
            /\ Continue /\ UNCHANGED error
         \/ /\ (Faults /\ end # offset) \/ end > File.length \/ end < offset
            /\ error' = TRUE /\ Throw(Below)
            /\ UNCHANGED offset
  /\ UNCHANGED <<movie, flags>>

-----------------------------------------------------------------------------

LeafStep ==
  \E large \in BOOLEAN :
    \/ \E type \in Types : \E size \in File[type] :
         \/ HeaderInvalid(type, size, large)
         \/ HandlerFails(type, size, large)
         \/ EnterBox(type, size, large)
    \/ \E size \in File.other : SkipUnknown(size, large)
    \/ \E size \in File.moov : ReadMoov(size, large)
    \/ \E size \in File.trak : ReadTrak(size, large)
    \/ \E size \in File.tkhd, id \in File.ids : ReadTkhd(size, large, id)
    \/ \E size \in File.hdlr, handler \in File.handlers : ReadHdlr(size, large, handler)
    \/ \E size \in File.mdhd : ReadMdhd(size, large)
    \/ \E size \in File.table, length \in {BODY, 2 * BODY} : ReadTable(size, large, length)
    \/ \E size \in File.trex, id \in File.ids, default \in File.defaults : ReadTrex(size, large, id, default)
    \/ \E size \in File.moof : ReadMoof(size, large)
    \/ \E size \in File.traf : ReadTraf(size, large)
    \/ \E size \in File.tfhd, id \in File.ids, own \in {0, 1} : ReadTfhd(size, large, id, own)
    \/ \E size \in File.mdat : ReadMdat(size, large)
    \/ \E size \in File.stsd, count \in File.entries : ReadStsd(size, large, count)
    \/ \E size \in File.esds : ReadEsds(size, large)

EntryStep ==
  \/ \E type \in Entries : \E size \in File[type] : EntryInvalid(size) \/ Entry(type, size)
  \/ EntryFails
  \/ EntriesEnd
  \/ \E length \in {TAG, 2 * TAG} : DescriptorFails(length)
  \/ \E size \in File.tag : SkipTag(size)
  \/ \E size \in File.ES : ReadEs(size)
  \/ \E size \in File.config, codec \in {"none", "AAC", "MP3"} : ReadConfig(size, codec)
  \/ \E size \in File.info : ReadInfo(size)
  \/ DescriptorsEnd

ReturnStep ==
  \/ ChildrenEnd \/ BoxOverrun \/ AfterError \/ StopAtBox \/ SkipToEnd

Walk ==
  \/ HeaderFails
  \/ LeafStep \/ EntryStep \/ ReturnStep

Next == Open \/ Walk

Spec == Init /\ [][Next]_vars

(* The reader completes every read or fails (Reader, WaitEnds), and the    *)
(* handlers go on.                                                         *)
FairSpec == Spec /\ WF_vars(Walk)

-----------------------------------------------------------------------------
(* Properties *)

(* A box is accepted only if the boxes inside of it end in it, whatever    *)
(* sizes they claim, of 32 or 64 bits, wrapping or not: what is checked is *)
(* the place of the reader, and every way out of a box passes a check.     *)
(* The sample descriptions may hold such boxes, for their errors are not   *)
(* looked at (isom.cc:570, 803).                                           *)
BoxesAreNested ==
  [][Len(stack') < Len(stack) /\ result' = "OK" /\ (stack' = <<>> \/ ~Last(stack').returned)
       => Top.type = "stsd" \/ ~Top.exceeded]_vars

(* The list has every track that is there once, under one id each, however *)
(* trex and trak boxes of the same id follow each other, and the track     *)
(* that is being read is the last of the list or has taken the place of    *)
(* another (isom.cc:614, 632, 671).                                        *)
TracksAreListed ==
  /\ Range(tracks) = DOMAIN heap
  /\ \A i, j \in DOMAIN tracks : heap[tracks[i]].id = heap[tracks[j]].id => i = j
  /\ (\E i \in DOMAIN stack : stack[i].type = "trak" /\ ~stack[i].returned) => track \in Range(tracks)

(* The samples of a track have the defaults of the last trex of its id,    *)
(* which may come before its trak or after, and so have those of its       *)
(* fragments, which are counted to the place of the track in the list      *)
(* (isom.cc:622, 675, 1264).                                               *)
DefaultsArePassedOn ==
  /\ \A i \in DOMAIN tracks : heap[tracks[i]].id # 0 =>
        heap[tracks[i]].default = trexes[heap[tracks[i]].id]
  /\ pc = "walk" /\ Top.type = "tfhd" /\ traf.id # 0 /\ WithId(tracks, traf.id) # {} =>
        /\ ~traf.own => traf.default = trexes[traf.id]
        /\ heap[tracks[traf.index + 1]].id = traf.id

(* The walk ends: no sequence of sizes, not even those that lead back,     *)
(* keeps the demuxer in a file for ever (isom.cc:506, 950).                *)
WalkEnds == pc = "walk" ~> pc = "done"

=============================================================================
