------------------------------- MODULE MCCodec -------------------------------
(***************************************************************************)
(* The framing of NAL units, the parameter sets, session descriptions, AAC *)
(* headers, audio codes, FLAC frames and audio frames of packages codec    *)
(* and av for TLC, in one run.  They share no state: each one goes on      *)
(* while the others rest.                                                  *)
(*                                                                         *)
(* The AAC configs have values at the edges of the fields: object types    *)
(* around the escape value and around what ADTS can hold, sample rates     *)
(* given by index, by value or by neither.  The audio has a negative and a *)
(* positive sample whose bytes all differ, and rates whose ratios are      *)
(* exact in a float32.                                                     *)
(***************************************************************************)
EXTENDS NaluData, NaluUnits, Aac, LawSweep, Pcm, ParameterSets, Sdp, Flac, Frames

MCConfigs ==
  [object : {0, 1, 4, 5, 30, 31, 32, 95}, rateIndex : {0, 4, 12, 14, 15, 16},
   rate : {0, 96000, 44100, 7350}, channels : {0, 1, 7, 8, 15},
   layout : {-1, 0, 7}]

MCSamples == {-301, 1000}

Codec(name, rate, channels) == [format |-> name, rate |-> rate, channels |-> channels]

(* Every format into every other, and every rate and number of channels.     *)
MCConversions ==
  LET formats == {"PCM", "PCML", "ULAW", "ALAW"}
      rates == {8, 12, 24}
  IN  {<<Codec(f, 8, 1), Codec(g, 8, 1)>> : f \in formats, g \in formats}
      \cup {<<Codec("PCM", r[1], c[1]), Codec("PCML", r[2], c[2])>> :
              r \in rates \X rates, c \in {1, 2} \X {1, 2}}
      \cup {<<Codec("PCM", 8, 3), Codec("PCM", 20, 1)>>, <<Codec("PCM", 20, 1), Codec("PCM", 8, 3)>>}

(***************************************************************************)
(* H.264 streams that differ in one part of the syntax from a plain one or *)
(* from one with everything: scaling lists that are flat, full or end      *)
(* early, each order of pictures, each plane format, sizes that are no     *)
(* multiple of a macroblock, fields, and rates that are no whole number.   *)
(***************************************************************************)
Plain ==
  [profile |-> 66, chroma |-> 1, lists |-> <<>>, order |-> 2, width |-> 640, height |-> 480,
   frames |-> TRUE, vui |-> FALSE, units |-> 0, scale |-> 0]

Rich ==
  [Plain EXCEPT !.profile = 100, !.order = 0, !.width = 1920, !.height = 1080,
                !.vui = TRUE, !.units = 1, !.scale = 50]

Deltas(n) == [j \in 1 .. n |-> IF j = 1 THEN 5 ELSE 1 - 2 * (j % 2)]

Lists == <<<<4, -12>>, <<>>, Deltas(16), <<>>, <<>>, <<-8>>, Deltas(64), <<>>>>

MCAvcSettings ==
  {Plain}
  \cup {[Rich EXCEPT !.order = o, !.lists = l] : o \in 0 .. 2, l \in {<<>>, Lists}}
  \cup {[Rich EXCEPT !.profile = 244, !.chroma = c] : c \in {0, 3}}
  \cup {[s EXCEPT !.width = w, !.height = h] :
          s \in {Plain, Rich}, w \in {16, 640, 1366}, h \in {16, 1080}}
  \cup {[s EXCEPT !.frames = FALSE, !.height = 576] : s \in {Plain, Rich}}
  \cup {[Rich EXCEPT !.units = t[1], !.scale = t[2]] :
          t \in {<<0, 0>>, <<1001, 60000>>, <<1, 1>>, <<1, 5>>}}

(* H.265 streams: all that up to two sub-layers can say of themselves, six   *)
(* sub-layers, each plane format.                                            *)
Small ==
  [level |-> 93, layers |-> <<>>, chroma |-> 1, width |-> 640, height |-> 480,
   window |-> FALSE, ordering |-> TRUE]

MCHevcSettings ==
  {[Small EXCEPT !.layers = l, !.ordering = o] :
     l \in UNION {[1 .. n -> SUBSET {"profile", "level"}] : n \in 0 .. 2}, o \in BOOLEAN}
  \cup {[Small EXCEPT !.layers = <<{}, {}, {}, {}, {}, {"profile"}>>]}
  \cup {[Small EXCEPT !.chroma = c, !.width = 1920, !.height = 1088, !.window = TRUE] :
          c \in {0, 1, 3}}

MCPictureSet == <<104, 206>>

MCVideoSet == <<64, 1, 12>>

(***************************************************************************)
(* Media descriptions: the sets of the repository's tests and of a stream  *)
(* of the encoder, whole, missing, or not in base64.                       *)
(***************************************************************************)
Base64(bytes) == [base64 |-> TRUE, bytes |-> bytes]
Garbled == [base64 |-> FALSE, bytes |-> <<>>]

H264Sps == Base64(<<103, 77, 0, 30, 149, 168, 40, 15, 100>>)
H264Pps == Base64(<<104, 238, 60, 128>>)
H265Sps == Base64(Escaped(Packed(HevcFields(Small))))
H265Pps == Base64(<<68, 1, 193>>)
H265Vps == Base64(MCVideoSet)

Video(encoding, fmtp) ==
  [media |-> "video", attributes |-> {"rtpmap", "control", "fmtp"},
   encoding |-> encoding, fmtp |-> fmtp]

ParameterList(values) == <<[key |-> "profile-level-id", values |-> <<Garbled>>],
                           [key |-> "parameter-sets", values |-> values]>>

Separate(vps, sps, pps) ==
  <<[key |-> "vps", values |-> <<vps>>], [key |-> "sps", values |-> <<sps>>],
    [key |-> "pps", values |-> <<pps>>]>>

MCMedia ==
  LET h264 == Video("H264", ParameterList(<<H264Sps, H264Pps>>))
  IN  {h264, [h264 EXCEPT !.media = "audio"], [h264 EXCEPT !.attributes = {"rtpmap"}],
       Video("H264", ParameterList(<<Garbled, H264Sps, H264Pps>>)),
       Video("H264", ParameterList(<<H264Sps, Garbled>>)),
       Video("H264", ParameterList(<<H264Pps, H264Sps>>)),
       Video("H264", <<>>),
       Video("H265", Separate(H265Vps, H265Sps, H265Pps)),
       Video("H265", Separate(H265Vps, H265Sps, Garbled)),
       Video("H265", Separate(Garbled, H265Sps, H265Pps)),
       Video("H265", Separate(H265Vps, Base64(SubSeq(H265Sps.bytes, 1, 12)), H265Pps)),
       Video("H265", ParameterList(<<H265Vps, H265Sps, H265Pps>>)),
       Video("JPEG", ParameterList(<<H264Sps>>)),
       Video("JPEG", ParameterList(<<Garbled>>))}

(* Packed samples of two channels and of one, and planes. *)
MCFormats ==
  {[sample |-> "U8", channels |-> 2], [sample |-> "S16", channels |-> 1],
   [sample |-> "S16P", channels |-> 2]}

(***************************************************************************)
(* One of them goes on.                                                    *)
(***************************************************************************)
VARIABLE part

MCParts ==
  {"NaluData", "NaluUnits", "Aac", "Law", "Pcm", "ParameterSets", "Sdp", "Flac", "Frames"}

CodecInit ==
  /\ part \in MCParts
  /\ DataInit /\ UnitsInit /\ AacInit /\ SweepInit /\ PcmInit
  /\ SetsInit /\ SdpInit /\ FlacInit /\ FramesInit

(* All but the part of that name. *)
OthersRest ==
  /\ UNCHANGED part
  /\ part # "NaluData" => UNCHANGED data
  /\ part # "NaluUnits" => UNCHANGED uvars
  /\ part # "Aac" => UNCHANGED avars
  /\ part # "Law" => UNCHANGED sample
  /\ part # "Pcm" => UNCHANGED pvars
  /\ part # "ParameterSets" => UNCHANGED psvars
  /\ part # "Sdp" => UNCHANGED sdpvars
  /\ part # "Flac" => UNCHANGED fvars
  /\ part # "Frames" => UNCHANGED frvars

CodecNext ==
  \/ part = "NaluData" /\ OthersRest /\ Receive
  \/ part = "NaluUnits" /\ OthersRest /\ UnitsNext
  \/ part = "Aac" /\ OthersRest /\ AacNext
  \/ part = "Law" /\ OthersRest /\ NextSample
  \/ part = "Pcm" /\ OthersRest /\ PcmNext
  \/ part = "ParameterSets" /\ OthersRest /\ SetsNext
  \/ part = "Sdp" /\ OthersRest /\ SdpNext
  \/ part = "Flac" /\ OthersRest /\ FlacNext
  \/ part = "Frames" /\ OthersRest /\ FramesNext

CodecSpec ==
  /\ CodecInit
  /\ [][CodecNext]_<<part, data, uvars, avars, sample, pvars, psvars, sdpvars, fvars, frvars>>
=============================================================================
