------------------------------- MODULE Golomb -------------------------------
(***************************************************************************)
(* The functions of GolombCodes, exponential Golomb codes, unsigned and    *)
(* signed, on every bit string of at most MaxCodeBits bits.                *)
(***************************************************************************)
EXTENDS GolombCodes

CONSTANT MaxCodeBits  \* bound: the bits not yet read

ASSUME GolombAssumption == MaxCodeBits \in Nat

VARIABLE data  \* the bits of the bytes not yet read

(***************************************************************************)
(* The bit strings.                                                        *)
(***************************************************************************)
GolombInit == data = <<>>

ReceiveBit ==
  Len(data) < MaxCodeBits /\ \E bit \in {0, 1} : data' = Append(data, bit)

GolombSpec == GolombInit /\ [][ReceiveBit]_data

UE == ReadExponentialGolombCode(data)

SE == ReadSE(data)

(* A code that is read is the code of the value returned, and all its bits   *)
(* and no others have been taken, so the next field starts at the right bit, *)
(* except behind MaxZeros zeros that are not followed by a 1: those the code *)
(* takes for a code too (golomb_reader.go:84-112).                           *)
CodeIsRead ==
  UE.ok /\ data[LeadingZeros(data) + 1] = 1 =>
    CodeOf(UE.value) = SubSeq(data, 1, UE.used)

(* The signed values 0, 1, -1, 2, -2, ... of the codes 0, 1, 2, 3, 4, ...,   *)
(* as a remainder modulo m.                                                  *)
SignedModulo(code, m) ==
  IF code % 2 = 1 THEN ((code + 1) \div 2) % m
                  ELSE (m - ((code \div 2) % m)) % m

(* The result of ReadSE has the signed value in all bits but the highest: a  *)
(* negative value lacks its sign bit, so that a caller may use it modulo a   *)
(* smaller power of two, as the scaling lists of h264parser do, but not as a *)
(* signed number (golomb_reader.go:114-129).                                 *)
SignedUpToTopBit ==
  SE.ok =>
    /\ SE.value % Powers[UintBits - 1] = SignedModulo(UE.value, Powers[UintBits - 1])
    /\ SE.value < Powers[UintBits - 1]

(* Unsigned and signed codes (golomb_reader.go:84-129).                      *)
GolombIsRead == CodeIsRead /\ SignedUpToTopBit
=============================================================================
