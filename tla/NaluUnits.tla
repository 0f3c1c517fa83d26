----------------------------- MODULE NaluUnits ------------------------------
(***************************************************************************)
(* The functions of Nalu on units that an encoder may produce, put         *)
(* together with start codes or with lengths.                              *)
(***************************************************************************)
EXTENDS Nalu, Joins

CONSTANT MaxUnitBytes  \* bound: the bytes of all units

(* A unit is not longer than four bytes can say. *)
ASSUME UnitsAssumption ==
  MaxUnitBytes \in Nat /\ MaxUnitBytes < Base * Base * Base * Base

VARIABLES
  units,  \* the units
  codes   \* the length of the start code before each, in Annex B

uvars == <<units, codes>>

UnitsInit == units = <<>> /\ codes = <<>>

UnitLengths == [n \in DOMAIN units |-> Len(units[n])]

Size == Sums(UnitLengths)[Len(units)]

NewUnit ==
  /\ Size < MaxUnitBytes
  /\ \E x \in Byte, length \in {3, 4} :
       units' = Append(units, <<x>>) /\ codes' = Append(codes, length)

ExtendUnit ==
  /\ Size < MaxUnitBytes
  /\ units # <<>>
  /\ \E x \in Byte : units' = [units EXCEPT ![Len(units)] = Append(@, x)]
  /\ UNCHANGED codes

UnitsNext == NewUnit \/ ExtendUnit

UnitsSpec == UnitsInit /\ [][UnitsNext]_uvars

(* An encoder emulates no start code and does not end a unit with a zero.    *)
Encoded(nalu) ==
  /\ \A i \in 1 .. Len(nalu) : LenStartCode(nalu, i) = 0
  /\ nalu[Len(nalu)] # 0

AllEncoded == \A n \in DOMAIN units : Encoded(units[n])

StartCode(length) == IF length = 3 THEN StartCode3 ELSE StartCode4

(* Each unit behind its start code, a long one or its length. *)
CodeFrames == [n \in DOMAIN units |-> StartCode(codes[n]) \o units[n]]
LongFrames == [n \in DOMAIN units |-> StartCode4 \o units[n]]
LengthFrames == [n \in DOMAIN units |-> LengthBytes(Len(units[n])) \o units[n]]

AnnexB == Joined(CodeFrames)[Len(units)]
LongAnnexB == Joined(LongFrames)[Len(units)]
AVCC == Joined(LengthFrames)[Len(units)]

(* Units behind start codes of either length, mixed, come back one by one    *)
(* (parser.go:71-123).                                                       *)
SplitInvertsAnnexB ==
  units # <<>> /\ AllEncoded =>
    SplitNALUs(AnnexB) = [kind |-> "annexb", nalus |-> units]

(* A length of 1, or one between Base and 2 * Base - 1 (256 to 511), looks   *)
(* like a start code.                                                        *)
LooksLikeCode(length) == length = 1 \/ length \in Base .. 2 * Base - 1

(* Units behind lengths come back one by one, whatever their bytes, unless   *)
(* the first length looks like a start code (parser.go:44-59, 124-153).      *)
SplitInvertsAVCC ==
  units # <<>> =>
    IF LooksLikeCode(Len(units[1])) THEN SplitNALUs(AVCC).kind = "annexb"
    ELSE SplitNALUs(AVCC) = [kind |-> "avcc", nalus |-> units]

(* The conversions put lengths for start codes and long start codes for      *)
(* lengths, and change nothing else (parser.go:189-229).                     *)
ConversionsReframe ==
  /\ AllEncoded => AnnexBToAVCC(AnnexB) = AVCC
  /\ AVCCToAnnexB(AVCC) = [ok |-> TRUE, out |-> LongAnnexB]

(* Units that are framed in either way come back from SplitNALUs, and from   *)
(* the conversions in the other way (parser.go:69-229).                      *)
UnitsSurvive == SplitInvertsAnnexB /\ SplitInvertsAVCC /\ ConversionsReframe
=============================================================================
