--------------------------------- MODULE Sdp ---------------------------------
(***************************************************************************)
(* codec/sdp.go: SdpToCodecs goes through the media of a session           *)
(* description, which pion/sdp has taken apart, one after the other, and   *)
(* makes codec data of the parameter sets that it finds in base64.         *)
(*                                                                         *)
(* A media description has the attributes that are there, the name of its  *)
(* encoding (of rtpmap) and its parameters (of fmtp): keys with values.  A *)
(* value is the bytes it decodes to, or it is not base64.                  *)
(***************************************************************************)
EXTENDS Joins

H264 == INSTANCE H264Parser
H265 == INSTANCE H265Parser

SetKinds == {"vps", "sps", "pps"}

Octets == Seq(0 .. 255)

Parameters == [key : STRING, values : Seq([base64 : BOOLEAN, bytes : Octets])]

CONSTANTS
  Media,    \* media descriptions
  MaxMedia  \* as many stand in a session description

(* A key without a value is not among them, and a value, which is split at    *)
(* its commas, is one at least.                                              *)
ASSUME MediaAssumption ==
  \A m \in Media :
    /\ m.fmtp \in Seq(Parameters)
    /\ \A k \in DOMAIN m.fmtp : m.fmtp[k].values # <<>>

VARIABLES
  session,  \* the media descriptions up to here
  ret,      \* the codec data of the result; from is the description's place
  err,      \* whether the error of the result is set
  ended     \* "": not yet; "refused": it is no description; "panic"

sdpvars == <<session, ret, err, ended>>

SdpInit == session = <<>> /\ ret = <<>> /\ err = FALSE /\ ended = ""

(* What the sets are called, in the order of sprop-parameter-sets. *)
NamesOf(m) ==
  CASE m.encoding = "H264" -> <<"sps", "pps">>
    [] m.encoding = "H265" -> <<"vps", "sps", "pps">>
    [] OTHER -> <<>>

(* A decoded value replaces the set of that name. *)
With(of, name, value) ==
  IF value.base64 THEN [of EXCEPT ![name] = value.bytes] ELSE of

(* The error is that of the value decoded last. *)
Assign(sets, name, value) ==
  [of |-> With(sets.of, name, value), err |-> ~value.base64,
   names |-> sets.names, idx |-> sets.idx]

(* A value that is not base64 does not count. *)
AssignNext(sets, value) ==
  [of |-> IF sets.idx < Len(sets.names)
          THEN With(sets.of, sets.names[sets.idx + 1], value) ELSE sets.of,
   err |-> ~value.base64, names |-> sets.names,
   idx |-> IF value.base64 THEN sets.idx + 1 ELSE sets.idx]

AtFirst(sets) ==
  [of |-> sets.of, err |-> sets.err, names |-> sets.names, idx |-> 0]

Parameter(sets, p) ==
  CASE p.key \in SetKinds -> Assign(sets, p.key, p.values[1])
    [] p.key = "parameter-sets" -> Each(AssignNext, AtFirst(sets), p.values)
    [] OTHER -> sets

Constructed(m, sets) ==
  IF m.encoding = "H264"
  THEN H264!NewCodecDataFromSPSAndPPS(sets.of["sps"], sets.of["pps"])
  ELSE H265!NewCodecDataFromVPSAndSPSAndPPS(sets.of["vps"], sets.of["sps"], sets.of["pps"])

(* No set is there yet; err is what has been left of whatever stands before. *)
NoSets(m) ==
  [of |-> [name \in SetKinds |-> <<>>], err |-> err, names |-> NamesOf(m), idx |-> 0]

(* A set of codec data. *)
SetIn(entry, name) ==
  CASE name = "sps" -> entry.record.SPS[1]
    [] name = "pps" -> entry.record.PPS[1]
    [] OTHER -> entry.record.VPS[1]

(* Faulty variant: the sets but the SPS are still those of an earlier one. *)
SetsLeftOver(m) ==
  LET names == IF ret = <<>> THEN <<>> ELSE NamesOf(session[ret[1].from])
      left == {name \in SetKinds \ {"sps"} : \E k \in DOMAIN names : names[k] = name}
      of == [name \in SetKinds |-> IF name \in left THEN SetIn(ret[1], name) ELSE <<>>]
  IN  Each(Parameter, [NoSets(m) EXCEPT !.of = of], m.fmtp)

(* The sets are those of this description alone. *)
SetsOf(m) == Each(Parameter, NoSets(m), m.fmtp)

More == ended = "" /\ Len(session) < MaxMedia

(* UnmarshalString fails. *)
RefuseSession ==
  /\ ended = "" /\ session = <<>>
  /\ ended' = "refused" /\ err' = TRUE
  /\ UNCHANGED <<session, ret>>

IsRead(m) == m.media = "video" /\ {"rtpmap", "fmtp"} \subseteq m.attributes

SkipMedia(m) ==
  /\ More /\ ~IsRead(m)
  /\ session' = Append(session, m)
  /\ UNCHANGED <<ret, err, ended>>

(* Of another encoding only the error of the last value is kept. *)
OtherMedia(m) ==
  /\ More /\ IsRead(m) /\ NamesOf(m) = <<>>
  /\ session' = Append(session, m)
  /\ err' = SetsOf(m).err
  /\ UNCHANGED <<ret, ended>>

VideoMedia(m) ==
  /\ More /\ IsRead(m) /\ NamesOf(m) # <<>>
  /\ session' = Append(session, m)
  /\ LET made == Constructed(m, SetsOf(m))
     IN  IF made.ok
         THEN /\ err' = FALSE
              /\ ret' = Append(ret, [from |-> Len(session) + 1, encoding |-> m.encoding,
                                     record |-> made.info, info |-> made.sps])
              /\ UNCHANGED ended
         ELSE /\ err' = TRUE
              /\ ended' = IF made.panics THEN "panic" ELSE ""
              /\ UNCHANGED ret

SdpNext == RefuseSession \/ \E m \in Media : SkipMedia(m) \/ OtherMedia(m) \/ VideoMedia(m)

SdpSpec == SdpInit /\ [][SdpNext]_sdpvars

(***************************************************************************)
(* Properties.                                                             *)
(***************************************************************************)
Values(m) ==
  UNION {{m.fmtp[k].values[n] : n \in DOMAIN m.fmtp[k].values} : k \in DOMAIN m.fmtp}

(* A description with every set of its encoding once, in base64. *)
IsComplete(m) ==
  /\ IsRead(m) /\ NamesOf(m) # <<>>
  /\ \A value \in Values(m) : value.base64
  /\ \/ \E k \in DOMAIN m.fmtp :
          m.fmtp[k].key = "parameter-sets" /\ Len(m.fmtp[k].values) = Len(NamesOf(m))
     \/ \A i \in DOMAIN NamesOf(m) : \E k \in DOMAIN m.fmtp : m.fmtp[k].key = NamesOf(m)[i]
  /\ Constructed(m, SetsOf(m)).ok

(* Only the constructor of H.264 takes a set that is empty, the PPS.         *)
IsOwn(m, name, set) ==
  \/ m.encoding = "H264" /\ name = "pps" /\ set = <<>>
  \/ \E value \in Values(m) : value.base64 /\ value.bytes = set

Made == {ret[k].from : k \in DOMAIN ret}

(* SdpToCodecs: whatever stands before or after it - media to skip, values   *)
(* that are not base64, sets that cannot be parsed, errors that are          *)
(* remembered or forgotten - a video medium that is described in full has    *)
(* its codec data in the result, at its place in the order of the media; the *)
(* sets in codec data, VPS, SPS and PPS, are values of its own medium, but   *)
(* for a PPS of H.264 that is not there; and an error is that of a medium    *)
(* that is not described in full.  (No error does not say that all are.)     *)
SdpKeepsCodecs ==
  /\ \A i, j \in DOMAIN ret : i < j => ret[i].from < ret[j].from
  /\ \A k \in DOMAIN session : IsComplete(session[k]) => k \in Made
  /\ \A i \in DOMAIN ret :
       LET m == session[ret[i].from]
       IN  /\ ret[i].encoding = m.encoding
           /\ \A k \in DOMAIN NamesOf(m) :
                IsOwn(m, NamesOf(m)[k], SetIn(ret[i], NamesOf(m)[k]))
  /\ err /\ ended # "refused" =>
       \E k \in DOMAIN session : IsRead(session[k]) /\ ~IsComplete(session[k])
=============================================================================
