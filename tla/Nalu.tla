-------------------------------- MODULE Nalu --------------------------------
(***************************************************************************)
(* The framing of NAL units in codec/parser/parser.go: Annex B, where each *)
(* unit follows a start code 0 0 1 or 0 0 0 1, and AVCC, where it follows  *)
(* its length in four bytes.  The code's slices are sequences, indexed     *)
(* from 1.  A byte has Base values (256 in the code), so that lengths      *)
(* above one byte and above two come up in short sequences.                *)
(***************************************************************************)
EXTENDS Naturals, Sequences

CONSTANT Base

ASSUME BaseAssumption == Base \in Nat \ {0, 1}

Byte == 0 .. Base - 1

StartCode3 == <<0, 0, 1>>
StartCode4 == <<0, 0, 0, 1>>

(* bytes.HasPrefix(b[i:], s) *)
IsAt(s, b, i) == i + Len(s) - 1 <= Len(b) /\ SubSeq(b, i, i + Len(s) - 1) = s

(* lenStartCode(b[i:]) *)
LenStartCode(b, i) ==
  IF IsAt(StartCode4, b, i) THEN 4 ELSE IF IsAt(StartCode3, b, i) THEN 3 ELSE 0

(* binary.BigEndian.Uint32(b[i:]) and PutUint32 *)
NaluLength(b, i) ==
  ((b[i] * Base + b[i + 1]) * Base + b[i + 2]) * Base + b[i + 3]

LengthBytes(n) ==
  <<(n \div (Base * Base * Base)) % Base, (n \div (Base * Base)) % Base,
    (n \div Base) % Base, n % Base>>

IsAnnexBOrAVCC(b) ==
  IF Len(b) < 4 THEN "raw"
  ELSE IF LenStartCode(b, 1) > 0 THEN "annexb"
  ELSE IF NaluLength(b, 1) \in 1 .. Len(b) - 4 THEN "avcc"
  ELSE "raw"

(* The units that have bytes. *)
NonEmpty(nalus) ==
  LET upTo[n \in 0 .. Len(nalus)] ==
        IF n = 0 THEN <<>>
        ELSE IF nalus[n] = <<>> THEN upTo[n - 1]
        ELSE Append(upTo[n - 1], nalus[n])
  IN  upTo[Len(nalus)]

(***************************************************************************)
(* SplitNALUs.                                                             *)
(***************************************************************************)
(* naluIndices: the start codes found from left to right, none inside        *)
(* another, from every place on.                                             *)
CodesFrom(b) ==
  LET from[i \in 1 .. Len(b) + 1] ==
        IF i > Len(b) THEN <<>>
        ELSE IF LenStartCode(b, i) > 0
             THEN <<i>> \o from[i + LenStartCode(b, i)]
        ELSE from[i + 1]
  IN  from

StartCodes(b) == CodesFrom(b)[1]

(* The unit behind the nth of the start codes at those places. *)
UnitBehind(b, codes, n) ==
  SubSeq(b, codes[n] + LenStartCode(b, codes[n]),
         IF n < Len(codes) THEN codes[n + 1] - 1 ELSE Len(b))

SplitAnnexB(b) ==
  LET codes == StartCodes(b)
  IN  NonEmpty([n \in DOMAIN codes |-> UnitBehind(b, codes, n)])

(* The unit whose length is at i, and what comes behind it. *)
After(b, i) == i + 4 + NaluLength(b, i)

UnitAt(b, i) == SubSeq(b, i + 4, After(b, i) - 1)

(* Faulty variant: a unit that reaches the last byte is not taken. *)
UnitsFromStrict(b) ==
  LET from[i \in 1 .. Len(b) - 3] ==
        IF After(b, i) > Len(b)
        THEN [nalus |-> <<>>, left |-> Len(b) - i - 3]
        ELSE IF After(b, i) > Len(b) - 3
        THEN [nalus |-> <<UnitAt(b, i)>>, left |-> Len(b) + 1 - After(b, i)]
        ELSE [nalus |-> <<UnitAt(b, i)>> \o from[After(b, i)].nalus,
              left |-> from[After(b, i)].left]
  IN  from

(* The loop over the lengths, from every place on: the units, and how many   *)
(* bytes are left over.                                                      *)
UnitsFrom(b) ==
  LET from[i \in 1 .. Len(b) - 3] ==
        IF After(b, i) > Len(b) + 1
        THEN [nalus |-> <<>>, left |-> Len(b) - i - 3]
        ELSE IF After(b, i) > Len(b) - 3
        THEN [nalus |-> <<UnitAt(b, i)>>, left |-> Len(b) + 1 - After(b, i)]
        ELSE [nalus |-> <<UnitAt(b, i)>> \o from[After(b, i)].nalus,
              left |-> from[After(b, i)].left]
  IN  from

SplitAVCC(b) == UnitsFrom(b)[1]

SplitNALUs(b) ==
  IF IsAnnexBOrAVCC(b) = "annexb"
  THEN [kind |-> "annexb", nalus |-> SplitAnnexB(b)]
  ELSE IF IsAnnexBOrAVCC(b) = "avcc" /\ SplitAVCC(b).left = 0
  THEN [kind |-> "avcc", nalus |-> SplitAVCC(b).nalus]
  ELSE [kind |-> "raw", nalus |-> <<b>>]

(***************************************************************************)
(* The conversions.                                                        *)
(***************************************************************************)
(* Where FindNextAnnexBNALUnit sees a start code: only with a byte after it. *)
SeenCodes(b, start) ==
  {i \in start .. Len(b) - 3 : LenStartCode(b, i) > 0}

Least(S) == CHOOSE i \in S : \A j \in S : i <= j

(* Faulty variant: the end of the unit is looked for at the next byte. *)
FindNextLate(b, start) ==
  LET i == Least(SeenCodes(b, start))
      nalStart == i + LenStartCode(b, i)
      codes == SeenCodes(b, nalStart + 1)
  IN  [nalStart |-> nalStart,
       nalEnd |-> IF codes = {} THEN Len(b) + 1 ELSE Least(codes)]

(* For SeenCodes(b, start) # {}; nalEnd is the first byte not in the unit.   *)
FindNextAnnexBNALUnit(b, start) ==
  LET i == Least(SeenCodes(b, start))
      nalStart == i + LenStartCode(b, i)
      codes == SeenCodes(b, nalStart)
  IN  [nalStart |-> nalStart,
       nalEnd |-> IF codes = {} THEN Len(b) + 1 ELSE Least(codes)]

AVCCFrom(b) ==
  LET from[offset \in 1 .. Len(b) + 1] ==
        IF offset > Len(b) \/ SeenCodes(b, offset) = {} THEN <<>>
        ELSE LET unit == FindNextAnnexBNALUnit(b, offset)
                 nalu == SubSeq(b, unit.nalStart, unit.nalEnd - 1)
             IN  LengthBytes(Len(nalu)) \o nalu \o from[unit.nalEnd]
  IN  from

AnnexBToAVCC(b) == AVCCFrom(b)[1]

(* errInvalidNALULength: a length that runs over the end. *)
Invalid == [ok |-> FALSE, out |-> <<>>]

(* Up to three bytes after the last unit are dropped. *)
AnnexBFrom(b) ==
  LET from[offset \in 1 .. Len(b) + 1] ==
        IF offset + 3 > Len(b) THEN [ok |-> TRUE, out |-> <<>>]
        ELSE IF After(b, offset) > Len(b) + 1 THEN Invalid
        ELSE IF ~from[After(b, offset)].ok THEN Invalid
        ELSE [ok |-> TRUE,
              out |-> StartCode4 \o UnitAt(b, offset)
                        \o from[After(b, offset)].out]
  IN  from

AVCCToAnnexB(b) == AnnexBFrom(b)[1]
=============================================================================
