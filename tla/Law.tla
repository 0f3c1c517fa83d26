--------------------------------- MODULE Law ---------------------------------
(***************************************************************************)
(* The A-law and mu-law codes of codec/pcm/pcma.go and pcmu.go, at their   *)
(* full width: a sample is an int16, a code is a byte made of a sign, an   *)
(* exponent of three bits and a mantissa of four.                          *)
(***************************************************************************)
EXTENDS Integers, Bitwise

Lowest == -(2 ^ 15)

Highest == 2 ^ 15 - 1

Bias == 132

UlawMax == Highest - Bias

(* The bits of pcm after "pcm = -pcm" for one that is negative; those of     *)
(* Lowest, which has no positive, stay: as an int16 they are still negative. *)
Magnitude(pcm) == IF pcm < 0 THEN -pcm ELSE pcm

Sign(pcm) == IF pcm < 0 THEN 128 ELSE 0

(* The highest exponent whose bit of magnitude is set, or 0. *)
Exponent(magnitude) ==
  LET set == {e \in 1 .. 7 : (magnitude \div 2 ^ (e + 7)) % 2 = 1}
  IN  IF set = {} THEN 0 ELSE CHOOSE e \in set : \A other \in set : other <= e

Mantissa(magnitude, shift) == (magnitude \div 2 ^ shift) % 16

PCMAtoPCM(alaw) ==
  LET code == alaw ^^ 213
      exponent == (code \div 16) % 8
      data == (code % 16) * 16 + 8 + IF exponent = 0 THEN 0 ELSE 256
      level == data * 2 ^ (IF exponent > 1 THEN exponent - 1 ELSE 0)
  IN  IF code < 128 THEN level ELSE -level

PCMtoPCMA(pcm) ==
  LET exponent == Exponent(Magnitude(pcm))
      shift == IF exponent = 0 THEN 4 ELSE exponent + 3
  IN  (Sign(pcm) + exponent * 16 + Mantissa(Magnitude(pcm), shift)) ^^ 213

PCMUtoPCM(ulaw) ==
  LET code == 255 - ulaw
      exponent == (code \div 16) % 8
      level == (((code % 16) + 16) * 2 + 1) * 2 ^ (exponent + 2) - Bias
  IN  IF code < 128 THEN level ELSE IF level = 0 THEN -1 ELSE -level

(* Faulty variant: a sample near the edge is not cut off, so that the bias   *)
(* makes it negative.                                                        *)
PCMtoPCMUUncut(pcm) ==
  LET magnitude == Magnitude(pcm) + Bias
      exponent == Exponent(magnitude)
  IN  255 - (Sign(pcm) + exponent * 16 + Mantissa(magnitude, exponent + 3))

(* Lowest is still negative when it is compared with UlawMax. *)
PCMtoPCMU(pcm) ==
  LET cut == IF pcm # Lowest /\ Magnitude(pcm) > UlawMax THEN UlawMax
                                                        ELSE Magnitude(pcm)
      magnitude == cut + Bias
      exponent == Exponent(magnitude)
  IN  255 - (Sign(pcm) + exponent * 16 + Mantissa(magnitude, exponent + 3))
=============================================================================
