----------------------------- MODULE BitWriter ------------------------------
(***************************************************************************)
(* The Writer of utils/bits/bits.go: a word that fills up with the bits    *)
(* written and is flushed, in whole bytes, when the next ones do not fit   *)
(* or when the caller asks.                                                *)
(*   n, reg    the fields n and bits                                       *)
(*   out       the bytes passed to the underlying writer                   *)
(*   sent      the bits written by the caller, with the padding of flushes *)
(*   spilled   whether a write has ever been split over two words          *)
(***************************************************************************)
EXTENDS Words

CONSTANT MaxBits  \* bound: bits written

VARIABLES n, reg, out, sent, spilled

wvars == <<n, reg, out, sent, spilled>>

WriterInit ==
  n = 0 /\ reg = Zero /\ out = <<>> /\ sent = <<>> /\ spilled = FALSE

(* The bytes that FlushBits writes for count bits in the register. *)
Flushed(r, count) ==
  LET pad == (ByteBits - (count % ByteBits)) % ByteBits
      want == (count + ByteBits - 1) \div ByteBits
  IN  [i \in 1 .. want |->
         Byte(ShiftRight(ShiftLeft(r, pad), (want - i) * ByteBits))]

Fits(length) == n + length <= WordBits

WriteWhole(value, length) ==
  /\ Fits(length)
  /\ reg' = Or(ShiftLeft(reg, length), value)
  /\ n' = n + length
  /\ UNCHANGED <<out, spilled>>

(* The first move bits should go out with the old word; the code takes them  *)
(* to be value >> move.                                                      *)
WriteSplit(value, length) ==
  LET move == WordBits - n
      mask == ShiftRight(value, move)
      full == Or(ShiftLeft(reg, move), mask)
      rest == length - move
  IN  /\ ~Fits(length)
      /\ out' = out \o Flushed(full, WordBits)
      /\ reg' = Or(ShiftLeft(full, rest), Xor(value, ShiftLeft(mask, move)))
      /\ n' = rest
      /\ spilled' = TRUE

(* The value fits into the length, as callers have it. *)
WriteBits64 ==
  /\ \E length \in 1 .. WordBits :
       /\ Len(sent) + length <= MaxBits
       /\ \E value \in Words :
            /\ FitsInto(value, length)
            /\ sent' = sent \o LowBits(value, length)
            /\ WriteWhole(value, length) \/ WriteSplit(value, length)

(* Faulty variant: the count is kept. *)
FlushKeepsCount ==
  /\ n > 0
  /\ out' = out \o Flushed(reg, n)
  /\ sent' = sent \o LowBits(Zero, (ByteBits - (n % ByteBits)) % ByteBits)
  /\ UNCHANGED <<n, reg, spilled>>

FlushBits ==
  /\ n > 0
  /\ out' = out \o Flushed(reg, n)
  /\ sent' = sent \o LowBits(Zero, (ByteBits - (n % ByteBits)) % ByteBits)
  /\ n' = 0
  /\ UNCHANGED <<reg, spilled>>

WriterNext == WriteBits64 \/ FlushBits

WriterSpec == WriterInit /\ [][WriterNext]_wvars

WriterTypeOK ==
  /\ n \in 0 .. WordBits
  /\ reg \in Words
  /\ out \in Seq(Bytes)
  /\ sent \in Seq({0, 1})
  /\ spilled \in BOOLEAN

(* No bit is added or lost, even by a write that is split over two words:    *)
(* the output and the register have as many as were written, with the        *)
(* padding of flushes.  As long as every write fits into the register,       *)
(* however the widths fall and whenever the caller flushes, they are the     *)
(* bits that were written (bits.go:95-162).                                  *)
OutputIsExact ==
  /\ WriterTypeOK
  /\ ByteBits * Len(out) + n = Len(sent)
  /\ ~spilled => Bits(out) \o LowBits(reg, n) = sent
=============================================================================
