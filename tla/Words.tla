-------------------------------- MODULE Words --------------------------------
(***************************************************************************)
(* Machine words, as the bits at their places: the one at place j counts   *)
(* for two to the power j.  A word has WordBits bits (64 in the code) and  *)
(* a byte is a word of which only ByteBits bits (8 in the code) are used.  *)
(***************************************************************************)
EXTENDS Naturals, Sequences

CONSTANTS WordBits, ByteBits

ASSUME WordsAssumption ==
  /\ WordBits \in Nat \ {0} /\ ByteBits \in Nat \ {0}
  /\ WordBits % ByteBits = 0

Places == 0 .. WordBits - 1

Words == [Places -> {0, 1}]

Zero == [j \in Places |-> 0]

ShiftLeft(x, k) == [j \in Places |-> IF j < k THEN 0 ELSE x[j - k]]

ShiftRight(x, k) == [j \in Places |-> IF j + k < WordBits THEN x[j + k] ELSE 0]

Or(x, y) == [j \in Places |-> IF x[j] = 1 THEN 1 ELSE y[j]]

Xor(x, y) == [j \in Places |-> IF x[j] = y[j] THEN 0 ELSE 1]

(* The conversion to a byte. *)
Byte(x) == [j \in Places |-> IF j < ByteBits THEN x[j] ELSE 0]

(* Whether no bit from place k on is set. *)
FitsInto(x, k) == \A j \in Places : j >= k => x[j] = 0

Bytes == {x \in Words : FitsInto(x, ByteBits)}

(* The low k bits of x, the highest of them first. *)
LowBits(x, k) == [i \in 1 .. k |-> x[k - i]]

(* The bits of a sequence of bytes. *)
Bits(bytes) ==
  [i \in 1 .. ByteBits * Len(bytes) |->
     LowBits(bytes[(i - 1) \div ByteBits + 1], ByteBits)
            [((i - 1) % ByteBits) + 1]]
=============================================================================
