---------------------------- MODULE ParameterSets ----------------------------
(***************************************************************************)
(* A parameter set on its way through the parsers: an encoder writes the   *)
(* SPS of a stream, with emulation bytes, as ITU-T H.264 and H.265 have it;*)
(* it may arrive cut; it is parsed; codec data is made of the sets, and    *)
(* made again out of the decoder configuration record, which a muxer has   *)
(* written and a demuxer has read, in full or in part.                     *)
(*                                                                         *)
(* The encoder is not part of the code: Settings are those of the streams. *)
(***************************************************************************)
EXTENDS Integers, Joins

Avc == INSTANCE H264Parser
Hevc == INSTANCE H265Parser

CONSTANTS
  AvcSettings,   \* what H.264 streams are encoded with
  HevcSettings,  \* the same of H.265 streams
  PictureSet,    \* a PPS, which no one looks into
  VideoSet,      \* a VPS, the same
  SliceOctets    \* first bytes of slices behind the header of their unit

VARIABLES
  stage,     \* "start", "sent", "parsed", "made", "again" or "slice"
  settings,  \* those of the SPS
  arrived,   \* the SPS as it has arrived
  cut,       \* whether its end is missing
  spsRead,   \* what ParseSPS returned
  made,      \* what the constructor made of the sets
  missing,   \* how many bytes of the record's end were lost
  again,     \* what the constructor made of the record
  slice      \* a slice and what ParseSliceHeaderFromNALU said of it

sent == <<settings, arrived, cut>>
psvars == <<stage, sent, spsRead, made, missing, again, slice>>

Nothing == [ok |-> FALSE]

SetsInit ==
  /\ stage = "start"
  /\ settings = Nothing /\ arrived = <<>> /\ cut = FALSE
  /\ spsRead = Nothing /\ made = Nothing /\ missing = 0 /\ again = Nothing
  /\ slice = Nothing

(***************************************************************************)
(* The encoder.                                                            *)
(***************************************************************************)
ue == Avc!ue
se == Avc!se

Flat(parts) == Joined(parts)[Len(parts)]

Written(field) ==
  LET code == field[1]
      v == field[2]
  IN  CASE code = ue -> Avc!CodeOf(v)
        [] code = se -> Avc!CodeOf(IF v > 0 THEN 2 * v - 1 ELSE -2 * v)
        [] OTHER -> [i \in 1 .. code |-> (v \div 2 ^ (code - i)) % 2]

(* The fields, a stop bit, and zeros up to the next byte. *)
Packed(fields) ==
  LET bits == Flat([k \in DOMAIN fields |-> Written(fields[k])]) \o <<1>>
      size == (Len(bits) + 7) \div 8
      padded == bits \o [i \in 1 .. 8 * size - Len(bits) |-> 0]
  IN  [i \in 1 .. size |-> Avc!ReadBits(padded, 8 * (i - 1), 8)]

(* A 3 goes between two zeros and a byte of at most 3. *)
Escaped(b) ==
  LET put(out, octet) ==
        IF Len(out) >= 2 /\ octet <= 3 /\ SubSeq(out, Len(out) - 1, Len(out)) = <<0, 0>>
        THEN out \o <<3, octet>> ELSE Append(out, octet)
  IN  Each(put, <<>>, b)

When(condition, fields) == IF condition THEN fields ELSE <<>>

Copies(fields, count) == Flat([k \in 1 .. count |-> fields])

(* The macroblocks of the picture and, in pairs of samples, what of the last *)
(* ones is not shown; a stream of fields has macroblock rows in pairs.       *)
UpTo(size, step) == (size + step - 1) \div step

CropPairs(size, step) == (UpTo(size, step) * step - size) \div 2

RowStep(s) == IF s.frames THEN 16 ELSE 32

AvcFields(s) ==
  LET crop == <<CropPairs(s.width, 16), IF s.frames THEN CropPairs(s.height, 16) ELSE 0>>
      list(deltas) == IF deltas = <<>> THEN <<<<1, 0>>>>
                      ELSE <<<<1, 1>>>> \o [j \in DOMAIN deltas |-> <<se, deltas[j]>>]
  IN  <<<<8, 103>>, <<8, s.profile>>, <<8, 0>>, <<8, 31>>, <<ue, 0>>>>
      \o When(s.profile \in {100, 244},
              <<<<ue, s.chroma>>>> \o When(s.chroma = 3, <<<<1, 0>>>>)
              \o <<<<ue, 0>>, <<ue, 0>>, <<1, 0>>, <<1, IF s.lists = <<>> THEN 0 ELSE 1>>>>
              \o Flat([i \in DOMAIN s.lists |-> list(s.lists[i])]))
      \o <<<<ue, 4>>, <<ue, s.order>>>>
      \o When(s.order = 0, <<<<ue, 2>>>>)
      \o When(s.order = 1, <<<<1, 0>>, <<se, -2>>, <<se, 3>>, <<ue, 2>>, <<se, 4>>, <<se, -4>>>>)
      \o <<<<ue, 1>>, <<1, 0>>, <<ue, UpTo(s.width, 16) - 1>>,
           <<ue, UpTo(s.height, RowStep(s)) - 1>>, <<1, IF s.frames THEN 1 ELSE 0>>>>
      \o When(~s.frames, <<<<1, 1>>>>)
      \o <<<<1, 1>>, <<1, IF crop = <<0, 0>> THEN 0 ELSE 1>>>>
      \o When(crop # <<0, 0>>, <<<<ue, 0>>, <<ue, crop[1]>>, <<ue, 0>>, <<ue, crop[2]>>>>)
      \o When(~s.vui, <<<<1, 0>>>>)
      \o When(s.vui,
              <<<<1, 1>>, <<1, 1>>, <<8, 255>>, <<16, 1>>, <<16, 1>>, <<1, 1>>, <<1, 0>>,
                <<1, 1>>, <<3, 5>>, <<1, 0>>, <<1, 1>>, <<8, 1>>, <<8, 1>>, <<8, 1>>,
                <<1, 1>>, <<ue, 0>>, <<ue, 0>>, <<1, IF s.units = 0 THEN 0 ELSE 1>>>>
              \o When(s.units # 0, <<<<16, 0>>, <<16, s.units>>, <<16, 0>>, <<16, s.scale>>, <<1, 1>>>>)
              \o <<<<1, 0>>, <<1, 0>>, <<1, 0>>>>)

HevcFields(s) ==
  LET count == Len(s.layers)
      bit(condition) == IF condition THEN 1 ELSE 0
      flags(layer) == <<<<1, bit("profile" \in layer)>>, <<1, bit("level" \in layer)>>>>
      contents(layer) == When("profile" \in layer, Copies(<<<<8, 1>>>>, 11))
                         \o When("level" \in layer, <<<<8, 60>>>>)
  IN  <<<<8, 66>>, <<8, 1>>, <<4, 0>>, <<3, count>>, <<1, 1>>,
        <<2, 0>>, <<1, 0>>, <<5, 1>>, <<8, 96>>, <<24, 0>>, <<8, 144>>, <<24, 0>>, <<16, 0>>,
        <<8, s.level>>>>
      \o Flat([i \in 1 .. count |-> flags(s.layers[i])])
      \o When(count > 0, Copies(<<<<2, 0>>>>, 8 - count))
      \o Flat([i \in 1 .. count |-> contents(s.layers[i])])
      \o <<<<ue, 0>>, <<ue, s.chroma>>>> \o When(s.chroma = 3, <<<<1, 0>>>>)
      \o <<<<ue, s.width>>, <<ue, s.height>>, <<1, bit(s.window)>>>>
      \o When(s.window, <<<<ue, 0>>, <<ue, 0>>, <<ue, 0>>, <<ue, 4>>>>)
      \o <<<<ue, 0>>, <<ue, 0>>, <<ue, 4>>, <<1, bit(s.ordering)>>>>
      \o Copies(<<<<ue, 4>>, <<ue, 1>>, <<ue, 0>>>>, IF s.ordering THEN count + 1 ELSE 1)
      \o <<<<ue, 0>>, <<ue, 3>>, <<ue, 0>>, <<ue, 3>>, <<ue, 1>>, <<ue, 1>>>>
      \o Copies(<<<<8, 165>>>>, 2)

AvcUnit(s) == Escaped(Packed(AvcFields(s)))

HevcUnit(s) == Escaped(Packed(HevcFields(s)))

(* A record says a length in two bytes.  Six bytes of an SPS, and one of a   *)
(* VPS and of a PPS, are looked at without asking.                           *)
FitsRecord(set, least) ==
  set \in Seq(0 .. 255) /\ least <= Len(set) /\ Len(set) < 65536

ASSUME SetsAssumption ==
  /\ FitsRecord(PictureSet, 1) /\ FitsRecord(VideoSet, 1)
  /\ \A s \in AvcSettings : FitsRecord(AvcUnit(s), 6)
  /\ \A s \in HevcSettings : FitsRecord(HevcUnit(s), 6)

IsAvc == settings \in AvcSettings

WriteSPS ==
  /\ stage = "start"
  /\ stage' = "sent"
  /\ \/ \E s \in AvcSettings : settings' = s /\ arrived' = AvcUnit(s)
     \/ \E s \in HevcSettings : settings' = s /\ arrived' = HevcUnit(s)
  /\ UNCHANGED <<cut, spsRead, made, missing, again, slice>>

(* At least what the constructors look at without asking is left. *)
LoseEnd ==
  /\ stage = "sent" /\ ~cut
  /\ cut' = TRUE
  /\ \E n \in 6 .. Len(arrived) - 1 : arrived' = SubSeq(arrived, 1, n)
  /\ UNCHANGED <<stage, settings, spsRead, made, missing, again, slice>>

(***************************************************************************)
(* The calls of the parsers.                                               *)
(***************************************************************************)
Parse ==
  /\ stage = "sent"
  /\ stage' = "parsed"
  /\ spsRead' = IF IsAvc THEN Avc!ParseSPS(arrived) ELSE Hevc!ParseSPS(arrived)
  /\ UNCHANGED <<sent, made, missing, again, slice>>

Make ==
  /\ stage = "parsed"
  /\ stage' = "made"
  /\ made' = IF IsAvc THEN Avc!NewCodecDataFromSPSAndPPS(arrived, PictureSet)
                      ELSE Hevc!NewCodecDataFromVPSAndSPSAndPPS(VideoSet, arrived, PictureSet)
  /\ UNCHANGED <<sent, spsRead, missing, again, slice>>

(* The record comes back, or what is left of it; one loss on the way is     *)
(* enough.                                                                  *)
MakeAgain ==
  /\ stage = "made" /\ made.ok
  /\ stage' = "again"
  /\ \E n \in 0 .. (IF cut THEN 0 ELSE Len(made.record)) :
       LET left == SubSeq(made.record, 1, Len(made.record) - n)
       IN  /\ missing' = n
           /\ again' = IF IsAvc THEN Avc!NewCodecDataFromAVCDecoderConfRecord(left)
                                ELSE Hevc!NewCodecDataFromAVCDecoderConfRecord(left)
  /\ UNCHANGED <<sent, spsRead, made, slice>>

(* A slice of an H.265 stream, with its two bytes of header. *)
ReceiveSlice(type) ==
  /\ stage = "start"
  /\ stage' = "slice"
  /\ \E octet \in SliceOctets :
       LET nal == <<2 * type, 1, octet>>
       IN  slice' = [nal |-> nal, header |-> Hevc!ParseSliceHeaderFromNALU(nal)]
  /\ UNCHANGED <<sent, spsRead, made, missing, again>>

SetsNext ==
  \/ WriteSPS \/ LoseEnd
  \/ Parse \/ Make \/ MakeAgain
  \/ \E type \in 0 .. 63 : ReceiveSlice(type)

SetsSpec == SetsInit /\ [][SetsNext]_psvars

(***************************************************************************)
(* Properties.                                                             *)
(***************************************************************************)
(* What a player shows of the stream.  The window of an H.265 picture is not *)
(* taken off and its rate is not read.                                       *)
Shown(s) ==
  IF s \in AvcSettings
  THEN [width |-> s.width, height |-> s.height,
        fps |-> IF s.vui /\ s.units # 0 THEN s.scale \div (2 * s.units) ELSE 0]
  ELSE [width |-> s.width, height |-> s.height, fps |-> 0]

Info(result) ==
  [width |-> result.width, height |-> result.height, fps |-> result.fps]

(* ParseSPS (h264parser, h265parser): whatever of the optional syntax an     *)
(* encoder puts before them - scaling lists that end early, cycles of the    *)
(* picture order, flags of sub-layers - the size and the rate of the stream  *)
(* are the encoder's, emulation bytes notwithstanding; and of an SPS that    *)
(* was cut, they are these or an error, never others.                        *)
SpsIsRead ==
  stage # "start" /\ stage # "sent" /\ stage # "slice" =>
    IF spsRead.ok THEN Info(spsRead.info) = Shown(settings) ELSE cut

(* A record of H.265 that has been cut to so many bytes ends behind its VPS  *)
(* and before the count of SPS, or behind its SPS and before that of PPS.    *)
EndsInCount(length) ==
  LET vpsEnd == 28 + Len(VideoSet)
      spsEnd == vpsEnd + 5 + Len(arrived)
  IN  length \in {vpsEnd + 1, vpsEnd + 2, spsEnd, spsEnd + 1, spsEnd + 2}

(* NewCodecDataFrom..., AVCDecoderConfRecord.Marshal and Unmarshal: codec    *)
(* data is made of just the sets that ParseSPS can read, the record carries  *)
(* them to the reader, who makes the same of it; and of a record that lacks  *)
(* as much as its last byte nobody makes codec data: it is refused, but for  *)
(* one of H.265 that ends within a count, which Unmarshal does not check and *)
(* indexes out of range (h265parser/parser.go:525-534, 557-560).             *)
CodecDataSurvives ==
  /\ stage \in {"made", "again"} => made.ok = spsRead.ok
  /\ stage = "again" =>
       IF missing > 0
       THEN /\ ~again.ok
            /\ again.panics = (~IsAvc /\ EndsInCount(Len(made.record) - missing))
       ELSE /\ again.ok
            /\ again.sps = spsRead.info /\ again.info.SPS = <<arrived>>
            /\ again.info.PPS = <<PictureSet>>
            /\ IsAvc \/ again.info.VPS = <<VideoSet>>

(* av/nalutype.go:17 says that the type of an H.265 unit is extracted with   *)
(* H265NaluType(header[0]>>1) & H265NALTypeMask: a unit that is a slice by   *)
(* this type is not said to have no slice header.                            *)
SlicesHaveHeaders ==
  stage = "slice" /\ Hevc!IsDataNALU(slice.nal) /\ ~slice.header.ok =>
    slice.header.error # "ErrNalHasNoSliceHeader"
=============================================================================
