------------------------------ MODULE H265Parser ------------------------------
(***************************************************************************)
(* codec/h265parser/parser.go: parameter sets, decoder configuration       *)
(* records, slice headers and what is a slice.                             *)
(***************************************************************************)
EXTENDS Rbsp

(***************************************************************************)
(* Slices: the types TRAIL_R to IDR_N_LP of av/nalutype.go.                *)
(***************************************************************************)
NaluType(nal) == (nal[1] \div 2) % 64

IsDataNALU(nal) == NaluType(nal) \in 1 .. 20

(* The type is taken from the bits where an H.264 unit has it.               *)
ParseSliceHeaderFromNALU(pkt) == SliceHeader(pkt)

(***************************************************************************)
(* ParseSPS.                                                               *)
(***************************************************************************)
(* The name of an element of sub-layer i. *)
Of(name, i) == name \o ToString(i)

(* Each sub-layer says which of its two levels follow; then, if there is any *)
(* sub-layer, the flags are filled up to eight.                              *)
SubLayerFlags(r, count) ==
  LET flag(s, i) == Elements(s, <<<<Of("profile", i), 1>>, <<Of("level", i), 1>>>>)
      flags == Each(flag, r, [i \in 1 .. count |-> i])
  IN  Often(flags, <<<<"reserved", 2>>>>, 8 - count)

SubLayer(r, i) ==
  LET profile == ElementsIf(r, Of("profile", i), {1},
                            <<<<"profile", 32>>, <<"profile", 32>>, <<"profile", 24>>>>)
  IN  ElementsIf(profile, Of("level", i), {1}, <<<<"sub_level", 8>>>>)

(* What updatePTL copies: the tier, the profile and the level of the stream. *)
(* The flags of compatibility and constraints are taken out of a zero, and   *)
(* so stay zero.                                                             *)
ParsePTL(r, count) ==
  LET general == Elements(r, <<<<"space", 2>>, <<"tier", 1>>, <<"profile_idc", 5>>,
                               <<"compatibility", 32>>, <<"constraints", 48>>,
                               <<"level_idc", 8>>>>)
  IN  IF count = 0 THEN general
      ELSE Each(SubLayer, SubLayerFlags(general, count), [i \in 1 .. count |-> i])

Size(r) ==
  LET chroma == Elements(r, <<<<"id", ue>>, <<"chroma", ue>>>>)
      planes == ElementsIf(chroma, "chroma", {3}, <<<<"separate", 1>>>>)
      size == Elements(planes, <<<<"width", ue>>, <<"height", ue>>, <<"window", 1>>>>)
  IN  ElementsIf(size, "window", {1},
                 <<<<"left", ue>>, <<"right", ue>>, <<"top", ue>>, <<"bottom", ue>>>>)

(* Three elements for every sub-layer, or for the last one only.             *)
Ordering(r, count) ==
  LET depth == Elements(r, <<<<"depth_luma", ue>>, <<"depth_chroma", ue>>,
                             <<"log2_lsb", ue>>, <<"ordering", 1>>>>)
  IN  Often(depth, <<<<"buffering", ue>>, <<"reorder", ue>>, <<"latency", ue>>>>,
            IF Has(depth, "ordering", {1}) THEN count + 1 ELSE 1)

(* The conformance window is read and not subtracted; the rate is not read.  *)
Parsed(r, layers) ==
  IF r.ok THEN [ok |-> TRUE, info |-> [layers |-> layers, width |-> r.v.width,
                                       height |-> r.v.height, level |-> r.v.level_idc,
                                       fps |-> 0]]
          ELSE [ok |-> FALSE]

ParseSPS(sps) ==
  LET first == Elements(Reader(BitsOf(nal2rbsp(SubSeq(sps, 3, Len(sps))))),
                        <<<<"vps_id", 4>>, <<"sub_layers", 3>>, <<"nested", 1>>>>)
      count == IF first.ok THEN first.v.sub_layers ELSE 0
  IN  IF Len(sps) < 2 THEN [ok |-> FALSE]
      ELSE Parsed(Often(Ordering(Size(ParsePTL(first, count)), count), <<<<"block", ue>>>>, 6),
                  count + 1)

(***************************************************************************)
(* AVCDecoderConfRecord and CodecData.                                     *)
(***************************************************************************)
Arrays(rec) == <<rec.VPS, rec.SPS, rec.PPS>>

(* Five bytes for each set, as if each had an array of its own.              *)
RecordLen(rec) ==
  LET sets == Arrays(rec)
  IN  23 + Sums([k \in DOMAIN sets |-> 5 * Len(sets[k]) + Sizes(sets[k])])[Len(sets)]

(* Bytes 5 to 21 and the size of the lengths are left zero.                  *)
Fixed(rec) ==
  <<1, rec.profile, rec.compat, rec.level>> \o [k \in 1 .. 17 |-> 0] \o <<3, 3>>

Array(units) ==
  <<(units[1][1] \div 2) % 64>> \o U16(Len(units)) \o Sized(units)

Marshal(rec) == Fixed(rec) \o Array(rec.VPS) \o Array(rec.SPS) \o Array(rec.PPS)

(* Only the lower five bits of the first count are taken.  The next counts   *)
(* stand behind the type of their array and their own upper byte.  Between   *)
(* the VPS and the count of SPS it is asked for one byte more, not for       *)
(* three, and between the SPS and the count of PPS for none: a record that   *)
(* ends there is indexed out of range.                                       *)
Unmarshal(b) ==
  LET vps == Units(b, 26, b[26] % 32)
      sps == Units(b, vps.n + 3, b[vps.n + 3])
      pps == Units(b, sps.n + 3, b[sps.n + 3])
  IN  IF Len(b) < 30 \/ ~vps.ok \/ Len(b) < vps.n + 1 THEN BadRecord
      ELSE IF Len(b) < vps.n + 3 THEN OutOfRange
      ELSE IF ~sps.ok THEN BadRecord
      ELSE IF Len(b) < sps.n + 3 THEN OutOfRange
      ELSE IF ~pps.ok THEN BadRecord
      ELSE [ok |-> TRUE, profile |-> b[2], compat |-> b[3], level |-> b[4],
            lengthSize |-> b[5] % 4,
            VPS |-> vps.units, SPS |-> sps.units, PPS |-> pps.units]

CodecData(record, rec, sps) ==
  IF sps.ok THEN [ok |-> TRUE, record |-> record, info |-> rec, sps |-> sps.info]
            ELSE BadRecord

OfRecord(record, rec) ==
  IF ~rec.ok THEN rec
  ELSE IF rec.SPS = <<>> \/ rec.PPS = <<>> \/ rec.VPS = <<>> THEN BadRecord
  ELSE CodecData(record, rec, ParseSPS(rec.SPS[1]))

NewCodecDataFromAVCDecoderConfRecord(record) == OfRecord(record, Unmarshal(record))

(* The buffer is as long as Len says: what Marshal leaves of it stays zero.  *)
Buffer(rec) == Marshal(rec) \o [k \in 1 .. RecordLen(rec) - Len(Marshal(rec)) |-> 0]

(* An SPS of less than six bytes panics, and so does an empty set.           *)
NewCodecDataFromVPSAndSPSAndPPS(vps, sps, pps) ==
  LET rec == [ok |-> TRUE, profile |-> sps[4], compat |-> sps[5], level |-> sps[6],
              lengthSize |-> 3, VPS |-> <<vps>>, SPS |-> <<sps>>, PPS |-> <<pps>>]
      parsed == ParseSPS(sps)
  IN  IF Len(sps) < 6 \/ (parsed.ok /\ (vps = <<>> \/ pps = <<>>))
      THEN OutOfRange
      ELSE CodecData(Buffer(rec), rec, parsed)
=============================================================================
