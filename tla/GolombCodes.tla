----------------------------- MODULE GolombCodes -----------------------------
(***************************************************************************)
(* The functions of the GolombBitReader of utils/bits/golomb_reader.go on  *)
(* the bits that are left.  The results are Go uints of UintBits bits (64  *)
(* in the code), and at most MaxZeros leading zeros are counted (32 in the *)
(* code).                                                                  *)
(***************************************************************************)
EXTENDS Numbers

CONSTANTS UintBits, MaxZeros

ASSUME GolombCodesAssumption ==
  UintBits \in Nat \ {0} /\ MaxZeros \in Nat /\ MaxZeros + 1 < UintBits

(* Nothing is returned when the bits run out. *)
NoCode == [ok |-> FALSE, value |-> 0, used |-> 0]

(* ReadBits(n) of the bits after position i *)
ReadBits(bits, i, n) == Number(bits, i + 1, n)

(* The zeros that the first loop counts. *)
LeadingZeros(bits) ==
  LET zeros == {z \in 0 .. MaxZeros : \A i \in 1 .. z : i <= Len(bits) /\ bits[i] = 0}
  IN  CHOOSE z \in zeros : \A y \in zeros : y <= z

(* After MaxZeros zeros the next bit is taken for the 1, whatever it is.     *)
CodeAfter(bits, z) ==
  IF Len(bits) < 2 * z + 1 THEN NoCode
  ELSE [ok |-> TRUE, used |-> 2 * z + 1,
        value |-> ReadBits(bits, z + 1, z) + Powers[z] - 1]

ReadExponentialGolombCode(bits) == CodeAfter(bits, LeadingZeros(bits))

Uint(x) == x % Powers[UintBits]

(* Faulty variant: the sign is the wrong way round. *)
SignedSwapped(code) ==
  IF code % 2 = 1 THEN Uint(Powers[UintBits] - code) \div 2 ELSE (code + 1) \div 2

(* -res/2 is (-res)/2, in unsigned arithmetic. *)
Signed(code) ==
  IF code % 2 = 1 THEN Uint(code + 1) \div 2
                  ELSE Uint(Powers[UintBits] - code) \div 2

SignedCode(code) ==
  IF code.ok THEN [ok |-> TRUE, used |-> code.used, value |-> Signed(code.value)]
             ELSE code

ReadSE(bits) == SignedCode(ReadExponentialGolombCode(bits))

(* The code of v: v + 1 in binary, behind one zero less than it has digits.  *)
Digits(v) ==
  CHOOSE d \in 1 .. MaxZeros + 1 : Powers[d - 1] <= v + 1 /\ v + 1 < Powers[d]

CodeOf(v) ==
  LET d == Digits(v) IN  [i \in 1 .. d - 1 |-> 0] \o Field(v + 1, d)
=============================================================================
