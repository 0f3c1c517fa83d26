------------------------------ MODULE H264Parser ------------------------------
(***************************************************************************)
(* codec/h264parser/parser.go: parameter sets and decoder configuration    *)
(* records.  Its slice headers are those of Rbsp.                          *)
(***************************************************************************)
EXTENDS Rbsp

(***************************************************************************)
(* ParseSPS.                                                               *)
(***************************************************************************)
HighProfiles == {100, 110, 122, 244, 44, 83, 86, 118}

Header(r) ==
  Elements(r, <<<<"header", 8>>, <<"profile", 8>>, <<"constraints", 8>>,
                <<"level", 8>>, <<"id", ue>>>>)

(* One delta of a scaling list; the scales are remainders modulo 256, for    *)
(* which the missing sign of ReadSE does not matter.                         *)
Scale(r, j) ==
  IF ~r.ok \/ r.v.next = 0 THEN r
  ELSE LET d == Element(r, <<"delta", se>>)
           next == (r.v.last + d.v.delta + 256) % 256
       IN  IF ~d.ok THEN d
           ELSE [d EXCEPT !.v.next = next, !.v.last = IF next # 0 THEN next ELSE @]

ScalingList(r, i) ==
  LET present == Element(r, <<"list", 1>>)
      start == [present EXCEPT !.v = ("next" :> 8) @@ ("last" :> 8) @@ @]
  IN  IF ~Has(present, "list", {1}) THEN present
      ELSE Each(Scale, start, [j \in 1 .. (IF i < 6 THEN 16 ELSE 64) |-> j])

HighProfile(r) ==
  LET chroma == Element(r, <<"chroma", ue>>)
      planes == ElementsIf(chroma, "chroma", {3}, <<<<"separate", 1>>>>)
      depths == Elements(planes, <<<<"depth_luma", ue>>, <<"depth_chroma", ue>>,
                                   <<"bypass", 1>>, <<"matrix", 1>>>>)
  IN  IF ~Has(depths, "matrix", {1}) THEN depths
      ELSE Each(ScalingList, depths, [i \in 1 .. 8 |-> i - 1])

PicOrder(r) ==
  LET type == Elements(r, <<<<"log2_frame_num", ue>>, <<"poc_type", ue>>>>)
      cycle == Elements(type, <<<<"always_zero", 1>>, <<"non_ref", se>>,
                                <<"top_bottom", se>>, <<"ref_frames", ue>>>>)
  IN  IF Has(type, "poc_type", {0}) THEN Element(type, <<"log2_lsb", ue>>)
      ELSE IF Has(type, "poc_type", {1}) /\ cycle.ok
           THEN Often(cycle, <<<<"offset", se>>>>, cycle.v.ref_frames)
      ELSE IF Has(type, "poc_type", {1}) THEN cycle
      ELSE type

Dimensions(r) ==
  LET size == Elements(r, <<<<"max_ref_frames", ue>>, <<"gaps", 1>>, <<"mb_width", ue>>,
                            <<"mb_height", ue>>, <<"frames_only", 1>>>>)
      fields == ElementsIf(size, "frames_only", {0}, <<<<"adaptive", 1>>>>)
      flags == Elements(fields, <<<<"direct", 1>>, <<"cropping", 1>>>>)
  IN  IF Has(flags, "cropping", {1})
      THEN Elements(flags, <<<<"left", ue>>, <<"right", ue>>, <<"top", ue>>, <<"bottom", ue>>>>)
      ELSE [flags EXCEPT !.v = ("left" :> 0) @@ ("right" :> 0) @@ ("top" :> 0)
                                 @@ ("bottom" :> 0) @@ @]

(* A part of the video usability information: its flag and, if that is set,  *)
(* its elements.                                                             *)
Part(r, flag, list) ==
  ElementsIf(Element(r, <<flag, 1>>), flag, {1}, list)

VideoSignal(r) ==
  LET signal == Part(r, "signal", <<<<"format", 3>>, <<"full_range", 1>>, <<"colour", 1>>>>)
  IN  IF Has(signal, "signal", {1})
      THEN ElementsIf(signal, "colour", {1},
                      <<<<"primaries", 8>>, <<"transfer", 8>>, <<"matrix_coeff", 8>>>>)
      ELSE signal

AspectRatio(r) ==
  LET aspect == Part(r, "aspect", <<<<"aspect_idc", 8>>>>)
  IN  IF Has(aspect, "aspect", {1})
      THEN ElementsIf(aspect, "aspect_idc", {255}, <<<<"sar_width", 16>>, <<"sar_height", 16>>>>)
      ELSE aspect

(* It is read up to the timing; what follows is of no interest to the code.  *)
Vui(r) ==
  LET present == Element(r, <<"vui", 1>>)
      overscan == Part(AspectRatio(present), "overscan", <<<<"appropriate", 1>>>>)
      location == Part(VideoSignal(overscan), "location", <<<<"top_field", se>>, <<"bottom_field", se>>>>)
  IN  IF Has(present, "vui", {1})
      THEN Part(location, "timing", <<<<"units_in_tick", 32>>, <<"time_scale", 32>>, <<"fixed", 1>>>>)
      ELSE [present EXCEPT !.v = ("timing" :> 0) @@ @]

(* A tick of no units makes the rate an infinity or a NaN, whose conversion  *)
(* to an integer the language leaves open.                                   *)
Unknown == "unknown"

FPS(v) ==
  IF v.timing = 0 THEN 0
  ELSE IF v.units_in_tick = 0 THEN Unknown
  ELSE (v.time_scale \div v.units_in_tick) \div 2

(* What Width and Height make of the unsigned differences: two's complement. *)
SPSInfo(v) ==
  [profile |-> v.profile, level |-> v.level, constraints |-> v.constraints \div 4,
   id |-> v.id, mbWidth |-> v.mb_width + 1, mbHeight |-> v.mb_height + 1,
   crop |-> <<v.left, v.right, v.top, v.bottom>>,
   width |-> (v.mb_width + 1) * 16 - 2 * v.left - 2 * v.right,
   height |-> (2 - v.frames_only) * (v.mb_height + 1) * 16 - 2 * v.top - 2 * v.bottom,
   fps |-> FPS(v)]

(* Of a parse that fails nobody uses the fields that were read.              *)
Parsed(r) == IF r.ok THEN [ok |-> TRUE, info |-> SPSInfo(r.v)] ELSE [ok |-> FALSE]

ParseSPS(nal) ==
  LET head == Header(Reader(BitsOf(RemoveH264orH265EmulationBytes(nal))))
      high == IF Has(head, "profile", HighProfiles) THEN HighProfile(head) ELSE head
  IN  Parsed(Vui(Dimensions(PicOrder(high))))

(***************************************************************************)
(* AVCDecoderConfRecord and CodecData.                                     *)
(***************************************************************************)
RecordLen(rec) ==
  7 + 2 * Len(rec.SPS) + Sizes(rec.SPS) + 2 * Len(rec.PPS) + Sizes(rec.PPS)

(* The upper bits that are set with | 0xfc and | 0xe0.                       *)
Marshal(rec) ==
  <<1, rec.profile, rec.compat, rec.level,
    252 + (rec.lengthSize % 4), 224 + (Len(rec.SPS) % 32)>>
  \o Sized(rec.SPS) \o <<Len(rec.PPS) % 256>> \o Sized(rec.PPS)

Unmarshal(b) ==
  LET sps == Units(b, 6, b[6] % 32)
      pps == Units(b, sps.n + 1, b[sps.n + 1])
  IN  IF Len(b) < 7 \/ ~sps.ok \/ Len(b) < sps.n + 1 \/ ~pps.ok THEN BadRecord
      ELSE [ok |-> TRUE, profile |-> b[2], compat |-> b[3], level |-> b[4],
            lengthSize |-> b[5] % 4, SPS |-> sps.units, PPS |-> pps.units]

CodecData(record, rec, sps) ==
  IF sps.ok THEN [ok |-> TRUE, record |-> record, info |-> rec, sps |-> sps.info]
            ELSE BadRecord

OfRecord(record, rec) ==
  IF ~rec.ok THEN rec
  ELSE IF rec.SPS = <<>> \/ rec.PPS = <<>> THEN BadRecord
  ELSE CodecData(record, rec, ParseSPS(rec.SPS[1]))

NewCodecDataFromAVCDecoderConfRecord(record) == OfRecord(record, Unmarshal(record))

(* The sets are not looked at before: an SPS of less than four bytes panics. *)
NewCodecDataFromSPSAndPPS(sps, pps) ==
  LET rec == [ok |-> TRUE, profile |-> sps[2], compat |-> sps[3], level |-> sps[4],
              lengthSize |-> 3, SPS |-> <<sps>>, PPS |-> <<pps>>]
  IN  IF Len(sps) < 4 THEN OutOfRange
      ELSE CodecData(Marshal(rec), rec, ParseSPS(sps))
=============================================================================
