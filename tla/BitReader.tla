----------------------------- MODULE BitReader ------------------------------
(***************************************************************************)
(* The Reader of utils/bits/bits.go: a word that is filled with the bytes  *)
(* a read still needs, and emptied from its high end.                      *)
(*   rn, rreg  the fields n and bits                                       *)
(*   supply    the bytes of the underlying reader                          *)
(*   at        how many of them have been read                             *)
(*   got       the bits returned so far                                    *)
(*   crowded   whether the word ever had to hold more bits than it has     *)
(*   failed    whether a read has failed                                   *)
(***************************************************************************)
EXTENDS Words

CONSTANTS
  MaxBytes,   \* bound: the bytes of the supply
  ShortReads  \* whether R.Read may return fewer bytes than it could

VARIABLES rn, rreg, supply, at, got, crowded, failed

rvars == <<rn, rreg, supply, at, got, crowded, failed>>

ReaderInit ==
  /\ rn = 0 /\ rreg = Zero /\ supply = <<>> /\ at = 0 /\ got = <<>>
  /\ crowded = FALSE /\ failed = FALSE

(* The supply, before the first read. *)
SupplyGets ==
  /\ at = 0 /\ got = <<>> /\ ~failed /\ Len(supply) < MaxBytes
  /\ \E byte \in Bytes : supply' = Append(supply, byte)
  /\ UNCHANGED <<rn, rreg, at, got, crowded, failed>>

(* Faulty variant: a byte too many is read when the bits are aligned. *)
WantOneMore(length) ==
  IF rn < length THEN ((length - rn) \div ByteBits) + 1 ELSE 0

(* The bytes a read of length bits still needs. *)
Want(length) ==
  IF rn < length THEN (length - rn + ByteBits - 1) \div ByteBits ELSE 0

(* The register with count more bytes shifted in. *)
Filled(count) ==
  LET upTo[i \in 0 .. count] ==
        IF i = 0 THEN rreg
        ELSE Or(ShiftLeft(upTo[i - 1], ByteBits), supply[at + i])
  IN  upTo[count]

(* Faulty variant: the bits returned stay in the register. *)
TakeKeeps(filled, have, length) ==
  /\ got' = got \o LowBits(ShiftRight(filled, have - length), length)
  /\ rreg' = filled
  /\ rn' = have - length

Take(filled, have, length) ==
  LET result == ShiftRight(filled, have - length)
  IN  /\ got' = got \o LowBits(result, length)
      /\ rreg' = Xor(filled, ShiftLeft(result, have - length))
      /\ rn' = have - length

ReadBits64(length) ==
  LET have == rn + ByteBits * Want(length)
  IN  /\ at + Want(length) <= Len(supply)
      /\ Take(Filled(Want(length)), have, length)
      /\ at' = at + Want(length)
      /\ crowded' = (crowded \/ have > WordBits)
      /\ UNCHANGED <<supply, failed>>

(* R.Read returns fewer bytes than wanted, or none: ReadBits64 returns an    *)
(* error and drops what was read.                                            *)
ReadRunsShort(length) ==
  /\ \E count \in 0 .. Len(supply) - at :
       /\ count < Want(length)
       /\ ShortReads \/ count = Len(supply) - at
       /\ at' = at + count
  /\ failed' = TRUE
  /\ UNCHANGED <<rn, rreg, supply, got, crowded>>

(* After an error the caller gives up. *)
ReaderNext ==
  \/ SupplyGets
  \/ /\ ~failed
     /\ \E length \in 1 .. WordBits : ReadBits64(length) \/ ReadRunsShort(length)

ReaderSpec == ReaderInit /\ [][ReaderNext]_rvars

ReaderTypeOK ==
  /\ rn \in 0 .. ByteBits - 1
  /\ rreg \in Words
  /\ supply \in Seq(Bytes)
  /\ at \in 0 .. Len(supply)
  /\ got \in Seq({0, 1})

(* As long as the word holds what a read needs, the bits returned and those  *)
(* in the register are the bits of the bytes read, whatever the widths, and  *)
(* the register has no others (bits.go:11-45).                               *)
ReadIsExact ==
  /\ ReaderTypeOK
  /\ ~crowded /\ ~failed =>
       /\ got \o LowBits(rreg, rn) = Bits(SubSeq(supply, 1, at))
       /\ FitsInto(rreg, rn)

(* The word is too small only for a read that is less than a byte narrower   *)
(* than it (58 to 64 bits), and only when bits were left over from the read  *)
(* before: then the oldest bits are lost (bits.go:32-41).                    *)
OnlyWideReadsCrowd ==
  [][~crowded /\ crowded' =>
       /\ Len(got') - Len(got) > WordBits - ByteBits + 1
       /\ rn > 0]_rvars
=============================================================================
