-------------------------------- MODULE Copy --------------------------------
(***************************************************************************)
(* CopyFile and CopyPackets of av/avutil/avutil.go, writing to a muxer     *)
(* that is either used as it is or wrapped in the HandlerMuxer that        *)
(* avutil.Create returns.  The caller copies one source after another into *)
(* the same muxer, and may call WriteTrailer itself, say after a copy that *)
(* failed.                                                                 *)
(*   wrapped  whether the muxer is inside a HandlerMuxer                   *)
(*   stage    HandlerMuxer.stage; stays 0 without the wrapper              *)
(*   pc       where CopyFile is; "idle" between the calls of the caller,   *)
(*            "none" before it has a muxer                                 *)
(*   copies   how many times CopyFile has been called                      *)
(*   source   the packets read by this CopyFile: what each carries         *)
(*   log      the calls made on the inner muxer, with what they returned   *)
(*   res      what the last call of the caller returned                    *)
(*   own      whether that call is a WriteTrailer of the caller            *)
(***************************************************************************)
EXTENDS Naturals, Sequences, Joins

CONSTANTS
  Changer,     \* whether the inner muxer implements av.CodecChanger
  MaxPackets,  \* bound: packets of one source
  MaxCopies,   \* bound: calls of CopyFile
  MaxTrailers, \* bound: calls of WriteTrailer by the caller
  Outcomes     \* what a call on a source or a muxer may return

ASSUME CopyAssumption ==
  /\ Changer \in BOOLEAN
  /\ MaxPackets \in Nat /\ MaxCopies \in Nat /\ MaxTrailers \in Nat
  /\ "ok" \in Outcomes /\ Outcomes \subseteq {"ok", "eof", "err"}

VARIABLES wrapped, stage, pc, copies, source, log, res, own, trailers

cvars == <<wrapped, stage, pc, copies, source, log, res, own, trailers>>

CopyPC == {"none", "idle", "codecs", "header", "read", "change", "packet", "trailer"}

(* What a packet carries: NewCodecs, Data, both or neither. *)
Packets == [change : BOOLEAN, data : BOOLEAN]

Operations == {"header", "change", "packet", "trailer"}

(* Packet at of the source, in CopyFile call copy, gave rise to the call op. *)
LogEntries ==
  [op : Operations, copy : Nat, at : Nat, result : {"ok", "eof", "err"}]

CopyTypeOK ==
  /\ wrapped \in BOOLEAN
  /\ stage \in 0 .. 2
  /\ pc \in CopyPC
  /\ copies \in 0 .. MaxCopies
  /\ source \in Seq(Packets)
  /\ log \in Seq(LogEntries)
  /\ res \in {"none", "ok", "err"}
  /\ own \in BOOLEAN
  /\ trailers \in 0 .. MaxTrailers

CopyInit ==
  /\ wrapped = FALSE /\ stage = 0 /\ pc = "none" /\ copies = 0 /\ source = <<>>
  /\ log = <<>>
  /\ res = "none" /\ own = FALSE /\ trailers = 0

(* The type assertion dst.(av.CodecChanger): a HandlerMuxer embeds av.Muxer, *)
(* so it does not have the method WriteCodecChange of the muxer inside.      *)
DstCanChangeCodec == Changer /\ ~wrapped

Calls(op, at, result) ==
  log' = Append(log, [op |-> op, copy |-> copies, at |-> at,
                      result |-> result])

Return(result) == pc' = "idle" /\ res' = result

(* An error of the muxer ends CopyPackets; CopyFile takes io.EOF for the end *)
(* of the source, whoever returned it.                                       *)
PacketsFailed(result) ==
  IF result = "eof" THEN pc' = "trailer" /\ UNCHANGED res ELSE Return("err")

(* The caller gets its muxer from avutil.Create, which wraps it, or makes it *)
(* itself.                                                                   *)
TakeMuxer ==
  /\ pc = "none"
  /\ pc' = "idle" /\ wrapped' \in BOOLEAN
  /\ UNCHANGED <<stage, copies, source, log, res, own, trailers>>

(***************************************************************************)
(* CopyFile.                                                               *)
(***************************************************************************)
CallCopyFile ==
  /\ pc = "idle" /\ copies < MaxCopies
  /\ pc' = "codecs" /\ copies' = copies + 1 /\ source' = <<>>
  /\ res' = "none" /\ own' = FALSE
  /\ UNCHANGED <<wrapped, stage, log, trailers>>

GetCodecs ==
  /\ pc = "codecs"
  /\ \E result \in Outcomes :
       IF result = "ok" THEN pc' = "header" /\ UNCHANGED res
                        ELSE Return("err")
  /\ UNCHANGED <<wrapped, stage, copies, source, log, own, trailers>>

(* With the wrapper only the first successful call reaches the muxer. *)
WriteHeader ==
  /\ pc = "header"
  /\ IF stage # 0
     THEN pc' = "read" /\ UNCHANGED <<stage, log, res>>
     ELSE \E result \in Outcomes :
            /\ Calls("header", 0, result)
            /\ IF result = "ok"
               THEN /\ pc' = "read" /\ UNCHANGED res
                    /\ stage' = IF wrapped THEN 1 ELSE 0
               ELSE Return("err") /\ UNCHANGED stage
  /\ UNCHANGED <<wrapped, copies, source, own, trailers>>

(* Where the loop goes with a packet once its codec change is dealt with. *)
DataPC(pkt) == IF pkt.data THEN "packet" ELSE "read"

ReadPacket ==
  /\ pc = "read" /\ Len(source) < MaxPackets
  /\ \E pkt \in Packets :
       /\ source' = Append(source, pkt)
       /\ pc' = IF pkt.change /\ DstCanChangeCodec THEN "change"
                                                   ELSE DataPC(pkt)
  /\ UNCHANGED <<wrapped, stage, copies, log, res, own, trailers>>

ReadFails ==
  /\ pc = "read"
  /\ \/ pc' = "trailer" /\ UNCHANGED res
     \/ "err" \in Outcomes /\ Return("err")
  /\ UNCHANGED <<wrapped, stage, copies, source, log, own, trailers>>

WriteCodecChange ==
  /\ pc = "change"
  /\ \E result \in Outcomes :
       /\ Calls("change", Len(source), result)
       /\ IF result = "ok"
          THEN pc' = DataPC(source[Len(source)]) /\ UNCHANGED res
          ELSE PacketsFailed(result)
  /\ UNCHANGED <<wrapped, stage, copies, source, own, trailers>>

(* Faulty variant: an error of the muxer is not looked at. *)
WritePacketUnchecked ==
  /\ pc = "packet"
  /\ \E result \in Outcomes : Calls("packet", Len(source), result)
  /\ pc' = "read"
  /\ UNCHANGED <<wrapped, stage, copies, source, res, own, trailers>>

WritePacket ==
  /\ pc = "packet"
  /\ \E result \in Outcomes :
       /\ Calls("packet", Len(source), result)
       /\ IF result = "ok" THEN pc' = "read" /\ UNCHANGED res
                           ELSE PacketsFailed(result)
  /\ UNCHANGED <<wrapped, stage, copies, source, own, trailers>>

(***************************************************************************)
(* WriteTrailer, called by CopyFile or by the caller.                      *)
(***************************************************************************)
CallWriteTrailer ==
  /\ pc = "idle" /\ trailers < MaxTrailers
  /\ pc' = "trailer" /\ trailers' = trailers + 1 /\ res' = "none"
  /\ own' = TRUE
  /\ UNCHANGED <<wrapped, stage, copies, source, log>>

(* Faulty variant: stage is raised only when the muxer has succeeded. *)
WriteTrailerRetried ==
  /\ pc = "trailer"
  /\ IF wrapped /\ stage # 1
     THEN Return("ok") /\ UNCHANGED <<stage, log>>
     ELSE \E result \in Outcomes :
            /\ Calls("trailer", 0, result)
            /\ Return(IF result = "ok" THEN "ok" ELSE "err")
            /\ stage' = IF wrapped /\ result = "ok" THEN 2 ELSE stage
  /\ UNCHANGED <<wrapped, copies, source, own, trailers>>

WriteTrailer ==
  /\ pc = "trailer"
  /\ IF wrapped /\ stage # 1
     THEN Return("ok") /\ UNCHANGED <<stage, log>>
     ELSE /\ stage' = IF wrapped THEN 2 ELSE stage
          /\ \E result \in Outcomes :
               /\ Calls("trailer", 0, result)
               /\ Return(IF result = "ok" THEN "ok" ELSE "err")
  /\ UNCHANGED <<wrapped, copies, source, own, trailers>>

CopyNext ==
  \/ TakeMuxer \/ CallCopyFile \/ GetCodecs \/ WriteHeader \/ ReadPacket \/ ReadFails
  \/ WriteCodecChange \/ WritePacket \/ CallWriteTrailer \/ WriteTrailer

CopySpec == CopyInit /\ [][CopyNext]_cvars

(***************************************************************************)
(* Properties.                                                             *)
(***************************************************************************)
CallsOf(op) == {i \in DOMAIN log : log[i].op = op}

Succeeded(i) == log[i].result = "ok"

(* However often a caller copies into a HandlerMuxer or calls WriteTrailer,  *)
(* the container gets one header, before all else that succeeds, and one     *)
(* trailer: even a trailer that failed is not written again                  *)
(* (avutil.go:40-62).                                                        *)
OneHeaderOneTrailer ==
  wrapped =>
    /\ \A i, j \in CallsOf("trailer") : i = j
    /\ \A i \in CallsOf("header") :
         Succeeded(i) => \A j \in DOMAIN log : j # i /\ Succeeded(j) => i < j
    /\ \A j \in DOMAIN log \ CallsOf("header") :
         \E i \in CallsOf("header") : i < j /\ Succeeded(i)

(* Behind the trailer of a HandlerMuxer come only the calls of a later       *)
(* CopyFile, which the wrapper lets through (avutil.go:40-62, 355-375).      *)
TrailerEndsCopy ==
  wrapped => \A i \in CallsOf("trailer"), j \in DOMAIN log :
               i < j => log[i].copy < log[j].copy

(* The calls that packet number i of the source asks for. *)
ChangeFor(i) ==
  IF source[i].change /\ DstCanChangeCodec THEN <<<<"change", i>>>> ELSE <<>>

DataFor(i) == IF source[i].data THEN <<<<"packet", i>>>> ELSE <<>>

(* The calls that the first n packets ask for, in order. *)
WantedUpTo == Joined([i \in DOMAIN source |-> ChangeFor(i) \o DataFor(i)])

Wanted == WantedUpTo[Len(source)]

(* The calls of this copy that succeeded, without header and trailer. *)
WrittenBy(i) ==
  IF log[i].copy = copies /\ log[i].op \in {"change", "packet"} /\ Succeeded(i)
  THEN <<<<log[i].op, log[i].at>>>> ELSE <<>>

Written == Joined([i \in DOMAIN log |-> WrittenBy(i)])[Len(log)]

(* What has been written is what the packets read so far ask for, in their   *)
(* order, up to the packet in hand: nothing is lost, repeated or reordered,  *)
(* and a codec change precedes the data of its packet.  If the muxer is      *)
(* wrapped, all of it is behind one header, and before the one trailer       *)
(* unless that ended an earlier copy (avutil.go:40-62, 337-349).             *)
CopiesInOrder ==
  /\ CopyTypeOK /\ OneHeaderOneTrailer /\ TrailerEndsCopy
  /\ Len(Written) <= Len(Wanted)
  /\ Written = SubSeq(Wanted, 1, Len(Written))
  /\ pc = "read" => Written = Wanted
  /\ source # <<>> => Len(Written) >= Len(WantedUpTo[Len(source) - 1])

EofFromMuxer == \E i \in DOMAIN log : log[i].result = "eof"

(* When the first CopyFile returns nil the header, all that was asked for    *)
(* and the trailer have been written, unless the muxer itself returned       *)
(* io.EOF, which CopyFile takes for the end of the source                    *)
(* (avutil.go:355-376).                                                      *)
NilMeansCopied ==
  pc = "idle" /\ res = "ok" /\ ~own /\ copies = 1 /\ ~EofFromMuxer =>
    /\ \E i \in CallsOf("header") : Succeeded(i)
    /\ Written = Wanted
    /\ \E i \in CallsOf("trailer") : Succeeded(i)

(* av/muxer.go:35-37: CopyPackets forwards a codec change to a muxer that    *)
(* implements CodecChanger.                                                  *)
ChangesForwarded ==
  \A i \in DOMAIN source :
    Changer /\ source[i].change /\ (pc = "read" \/ i < Len(source)) =>
      \E j \in CallsOf("change") : log[j].at = i /\ log[j].copy = copies
=============================================================================
