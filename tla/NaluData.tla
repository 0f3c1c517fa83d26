------------------------------ MODULE NaluData ------------------------------
(***************************************************************************)
(* The functions of Nalu on every sequence of at most MaxBytes bytes.      *)
(***************************************************************************)
EXTENDS Nalu, Joins

CONSTANT MaxBytes  \* bound: the length of the data

VARIABLE data

DataInit == data = <<>>

Receive ==
  Len(data) < MaxBytes /\ \E x \in Byte : data' = Append(data, x)

DataSpec == DataInit /\ [][Receive]_data

Split == SplitNALUs(data)

HasStartCode(b) == \E i \in 1 .. Len(b) : LenStartCode(b, i) > 0

Total(lengths) == Sums(lengths)[Len(lengths)]

Lengths(nalus) == [n \in DOMAIN nalus |-> Len(nalus[n])]

CodeLengths ==
  [n \in DOMAIN StartCodes(data) |-> LenStartCode(data, StartCodes(data)[n])]

(* In Annex B data the start codes and the units account for every byte, no  *)
(* unit is empty, and none has a start code left inside it, whatever zeros   *)
(* surround the codes (parser.go:76-121).                                    *)
AnnexBIsPartitioned ==
  Split.kind = "annexb" =>
    /\ Total(CodeLengths) + Total(Lengths(Split.nalus)) = Len(data)
    /\ \A n \in DOMAIN Split.nalus :
         Split.nalus[n] # <<>> /\ ~HasStartCode(Split.nalus[n])

(* In AVCC data the lengths and the units account for every byte, but for a  *)
(* length at the very end whose unit is missing (parser.go:124-153).         *)
AVCCIsPartitioned ==
  Split.kind = "avcc" =>
    Len(data) - 4 * Len(Split.nalus) - Total(Lengths(Split.nalus)) \in {0, 4}

(* Annex B data converted to AVCC and back gives the same units: the two     *)
(* searches for start codes agree, though one of them does not see a code    *)
(* at the very end of the data (parser.go:76-95, 159-187).                   *)
RoundTrip ==
  Split.kind = "annexb" =>
    LET back == AVCCToAnnexB(AnnexBToAVCC(data))
    IN  /\ back.ok
        /\ Split.nalus # <<>> => SplitNALUs(back.out).nalus = Split.nalus

(* AVCC data converted to Annex B gives the units that are not empty, if no  *)
(* start code is emulated inside one.  The conversion fails on data that     *)
(* SplitNALUs takes only if a length at the very end has no unit             *)
(* (parser.go:124-153, 212-229).                                             *)
Missing == Len(data) - 4 * Len(Split.nalus) - Total(Lengths(Split.nalus)) = 4

AVCCConverts ==
  Split.kind = "avcc" =>
    /\ AVCCToAnnexB(data).ok <=> ~Missing
    /\ ~Missing /\ (\A n \in DOMAIN Split.nalus : ~HasStartCode(Split.nalus[n])) =>
         SplitAnnexB(AVCCToAnnexB(data).out) = NonEmpty(Split.nalus)

(* Whatever the data, splitting partitions it, and converting it keeps its   *)
(* units (parser.go:69-229).                                                 *)
DataKeepsUnits ==
  AnnexBIsPartitioned /\ AVCCIsPartitioned /\ RoundTrip /\ AVCCConverts
=============================================================================
