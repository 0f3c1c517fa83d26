--------------------------------- MODULE Aac ---------------------------------
(***************************************************************************)
(* The AAC headers of codec/aacparser/parser.go: the MPEG-4 audio config   *)
(* that a track carries, and the ADTS header of a frame.  A config is      *)
(* written with the bit writer and parsed with the bit reader of           *)
(* utils/bits, whose widths here never crowd their words; so both are bit  *)
(* strings here.  An ADTS header is a record of its fields, each with the  *)
(* remainder that its bits can hold.                                       *)
(*                                                                         *)
(* A channel layout is named by its index in chanConfigTable, and one that *)
(* is not there by -1; 0 is the zero value of both tables' entries.        *)
(***************************************************************************)
EXTENDS Integers, Numbers

CONSTANTS
  Configs,    \* the configs given to the writers: no field exceeds its width,
              \* as the bit writer does not cut one that does
  FrameSamples, \* the numbers of samples of a frame
  Payloads    \* the lengths of the payload of a frame

SampleRateTable ==
  <<96000, 88200, 64000, 48000, 44100, 32000, 24000, 22050, 16000, 12000,
    11025, 8000, 7350>>

RateIndexes == 0 .. Len(SampleRateTable) - 1

RateAt(index) == SampleRateTable[index + 1]

LayoutIndexes == 0 .. 7  \* of chanConfigTable

Escape == 31  \* AOT_ESCAPE

ConfigFields == {"object", "rateIndex", "rate", "channels", "layout"}

ASSUME AacAssumption ==
  /\ \A c \in Configs :
       /\ DOMAIN c = ConfigFields
       /\ c.object \in 0 .. 95 /\ c.rateIndex \in 0 .. Powers[24] - 1
       /\ c.rate \in Nat /\ c.channels \in 0 .. 15
       /\ c.layout \in LayoutIndexes \cup {-1}
  /\ FrameSamples \subseteq Nat /\ Payloads \subseteq Nat

VARIABLES
  pc,      \* "start"; "config", "cut" or "adts" when written; "doneConfig",
           \* "doneCut" or "doneADTS" when parsed
  config,  \* the config given to the writer
  bits,    \* the config as written
  frame,   \* the ADTS header as written, with the frame's true sizes
  parsed   \* what the parser made of it

avars == <<pc, config, bits, frame, parsed>>

(* Before a config is given. *)
NoConfig == [field \in ConfigFields |-> 0]

(* Complete: what the tables say, where they say something. *)
Complete(c) ==
  [object |-> c.object, rateIndex |-> c.rateIndex, channels |-> c.channels,
   rate |-> IF c.rateIndex \in RateIndexes THEN RateAt(c.rateIndex) ELSE c.rate,
   layout |-> IF c.channels \in LayoutIndexes THEN c.channels ELSE c.layout]

(***************************************************************************)
(* WriteMPEG4AudioConfig and ParseMPEG4AudioConfigBytes.                   *)
(***************************************************************************)
ObjectField(object) ==
  IF object >= 32 THEN Field(Escape, 5) \o Field(object - 32, 6)
                  ELSE Field(object, 5)

RateField(index) ==
  IF index >= 15 THEN Field(15, 4) \o Field(index, 24) ELSE Field(index, 4)

(* An index of 0 may mean that only the rate is given. *)
RateIndexOf(c) ==
  IF c.rateIndex = 0 /\ \E i \in RateIndexes : RateAt(i) = c.rate
  THEN CHOOSE i \in RateIndexes : RateAt(i) = c.rate
  ELSE c.rateIndex

ChannelsOf(c) ==
  IF c.channels = 0 /\ c.layout \in LayoutIndexes THEN c.layout ELSE c.channels

(* With the bits FlushBits adds up to a whole byte. *)
ConfigBits(c) ==
  LET fields == ObjectField(c.object) \o RateField(RateIndexOf(c))
                  \o Field(ChannelsOf(c), 4)
  IN  fields \o Field(0, (8 - (Len(fields) % 8)) % 8)

NotParsed == [ok |-> FALSE]

(* Faulty variant: channel bits that are not there read as mono. *)
ParseConfigLoose(s) ==
  LET escaped == Len(s) >= 5 /\ Number(s, 1, 5) = Escape
      i == IF escaped THEN 12 ELSE 6
  IN  IF Len(s) < i + 3 THEN NotParsed
      ELSE [ok |-> TRUE,
            config |-> Complete(
              [object |-> IF escaped THEN 32 + Number(s, 6, 6) ELSE Number(s, 1, 5),
               rateIndex |-> Number(s, i, 4), rate |-> 0,
               channels |-> IF Len(s) < i + 7 THEN 1 ELSE Number(s, i + 4, 4),
               layout |-> 0])]

(* A field that is not all there is an error. *)
ParseConfig(s) ==
  LET escaped == Len(s) >= 5 /\ Number(s, 1, 5) = Escape
      i == IF escaped THEN 12 ELSE 6
      explicit == Len(s) >= i + 3 /\ Number(s, i, 4) = 15
      j == IF explicit THEN i + 28 ELSE i + 4
  IN  IF Len(s) < j + 3 THEN NotParsed
      ELSE [ok |-> TRUE,
            config |-> Complete(
              [object |-> IF escaped THEN 32 + Number(s, 6, 6) ELSE Number(s, 1, 5),
               rateIndex |-> IF explicit THEN Number(s, i + 4, 24)
                                         ELSE Number(s, i, 4),
               rate |-> 0, channels |-> Number(s, j, 4), layout |-> 0])]

(***************************************************************************)
(* FillADTSHeader and ParseADTSHeader.                                     *)
(***************************************************************************)
HeaderLength == 7

(* The number of blocks is not masked: what its two bits cannot hold spoils  *)
(* the buffer fullness in the same byte, which nobody reads.                 *)
FillADTSHeader(c, samples, payload) ==
  [object |-> (c.object - 1) % 4, rateIndex |-> c.rateIndex % 16,
   channels |-> c.channels % 8, length |-> (payload + HeaderLength) % 8192,
   blocks |-> (samples \div 1024 - 1) % 4]

ParseADTSHeader(h) ==
  IF h.channels = 0 \/ h.length < HeaderLength THEN NotParsed
  ELSE [ok |-> TRUE, length |-> h.length, samples |-> (h.blocks + 1) * 1024,
        config |-> Complete([object |-> h.object + 1, rateIndex |-> h.rateIndex,
                             rate |-> 0, channels |-> h.channels, layout |-> 0])]

(***************************************************************************)
(* A config or a header is written, perhaps cut short, and parsed.         *)
(***************************************************************************)
AacInit ==
  /\ pc = "start" /\ config = NoConfig
  /\ bits = <<>> /\ frame = <<>> /\ parsed = NotParsed

WriteMPEG4AudioConfig ==
  /\ pc = "start"
  /\ \E c \in Configs : config' = c /\ bits' = ConfigBits(c)
  /\ pc' = "config"
  /\ UNCHANGED <<frame, parsed>>

(* The bytes are cut off on their way. *)
Truncate ==
  /\ pc = "config"
  /\ \E n \in 0 .. Len(bits) \div 8 - 1 : bits' = SubSeq(bits, 1, 8 * n)
  /\ pc' = "cut"
  /\ UNCHANGED <<config, frame, parsed>>

ParseMPEG4AudioConfigBytes ==
  /\ pc \in {"config", "cut"}
  /\ pc' = IF pc = "cut" THEN "doneCut" ELSE "doneConfig"
  /\ parsed' = ParseConfig(bits)
  /\ UNCHANGED <<config, bits, frame>>

WriteADTS ==
  /\ pc = "start"
  /\ \E c \in Configs, samples \in FrameSamples, payload \in Payloads :
       /\ c.object > 0
       /\ config' = c
       /\ frame' = [header |-> FillADTSHeader(c, samples, payload),
                    samples |-> samples, payload |-> payload]
  /\ pc' = "adts"
  /\ UNCHANGED <<bits, parsed>>

ParseADTS ==
  /\ pc = "adts"
  /\ parsed' = ParseADTSHeader(frame.header)
  /\ pc' = "doneADTS"
  /\ UNCHANGED <<config, bits, frame>>

AacNext ==
  \/ WriteMPEG4AudioConfig \/ Truncate \/ ParseMPEG4AudioConfigBytes
  \/ WriteADTS \/ ParseADTS

AacSpec == AacInit /\ [][AacNext]_avars

(***************************************************************************)
(* The properties.                                                         *)
(***************************************************************************)
(* An object type that is the escape value itself is written as an escape.   *)
Expressible(c) == c.object # Escape

Known(c) ==
  /\ c.rateIndex = 0 => \E i \in RateIndexes : RateAt(i) = c.rate
  /\ c.channels = 0 => c.layout \in LayoutIndexes

(* A config comes back from its bytes with the rate and the layout it was    *)
(* given, by index or by value, if the tables have them; an explicit index   *)
(* of 24 bits and an escaped object type come back too                       *)
(* (parser.go:169-255, 257-317).                                             *)
WholeConfigSurvives ==
  pc = "doneConfig" /\ Expressible(config) /\ Known(config) =>
    /\ parsed.ok
    /\ parsed.config.object = config.object
    /\ IF config.rateIndex = 0 THEN parsed.config.rate = config.rate
                               ELSE parsed.config.rateIndex = config.rateIndex
    /\ IF config.channels = 0 THEN parsed.config.layout = config.layout
                              ELSE parsed.config.channels = config.channels

(* A config that has been cut off by a byte or more is refused: no field is  *)
(* made up from bits that are not there (parser.go:257-280).                 *)
CutConfigIsRefused == pc = "doneCut" /\ Expressible(config) => ~parsed.ok

(* An ADTS header gives back the config, the samples and the length of its   *)
(* frame, if they fit into its fields (parser.go:110-167); a frame of 8192   *)
(* bytes or more gives a wrong length without an error.                      *)
FitsADTS ==
  /\ config.object \in 1 .. 4 /\ config.rateIndex < 16
  /\ config.channels \in 1 .. 7
  /\ frame.samples \in {1024, 2048, 3072, 4096}
  /\ frame.payload + HeaderLength < 8192

ADTSHeaderSurvives ==
  pc = "doneADTS" /\ FitsADTS =>
    /\ parsed.ok
    /\ parsed.length = frame.payload + HeaderLength
    /\ parsed.samples = frame.samples
    /\ parsed.config.object = config.object
    /\ parsed.config.rateIndex = config.rateIndex
    /\ parsed.config.channels = config.channels

(* Whatever a writer makes of a config, the parser makes the same config of  *)
(* it, or an error if it was cut (parser.go:110-317).                        *)
ConfigSurvives == WholeConfigSurvives /\ CutConfigIsRefused /\ ADTSHeaderSurvives
=============================================================================
