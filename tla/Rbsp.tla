--------------------------------- MODULE Rbsp ---------------------------------
(***************************************************************************)
(* What the H.264 and H.265 parsers read parameter sets with: the bytes of *)
(* a NAL unit are freed of emulation bytes, and the bits that remain are   *)
(* read one syntax element after the other by a GolombBitReader.           *)
(*                                                                         *)
(* A reader is a record: the bits, how many have been taken, whether every *)
(* element so far was there, and the values by name.  After the first      *)
(* element that is missing nothing more is read, as every read of the code *)
(* is followed by a return of its error.                                   *)
(***************************************************************************)
EXTENDS SequencesExt, Records

(* At most 32 zeros and 64 bits in the code; here what an integer of TLC     *)
(* holds, which is more than the elements of the instances need.             *)
INSTANCE GolombCodes WITH UintBits <- 30, MaxZeros <- 28

BitsOf(bytes) ==
  [i \in 1 .. 8 * Len(bytes) |->
     (bytes[(i - 1) \div 8 + 1] \div 2 ^ (7 - ((i - 1) % 8))) % 2]

(* Whether 0, 0, 3 stands at i. *)
IsEscape(b, i) ==
  i \in 1 .. Len(b) - 2 /\ b[i] = 0 /\ b[i + 1] = 0 /\ b[i + 2] = 3

(* Faulty variant: one of the two zeros goes with the 3. *)
RemoveOverlapping(b) ==
  LET from[i \in 1 .. Len(b) + 1] ==
        IF i > Len(b) THEN <<>>
        ELSE IF IsEscape(b, i) THEN <<0>> \o from[i + 3]
        ELSE <<b[i]>> \o from[i + 1]
  IN  from[1]

RemoveH264orH265EmulationBytes(b) ==
  LET from[i \in 1 .. Len(b) + 1] ==
        IF i > Len(b) THEN <<>>
        ELSE IF IsEscape(b, i) THEN <<0, 0>> \o from[i + 3]
        ELSE <<b[i]>> \o from[i + 1]
  IN  from[1]

(* bytes.ReplaceAll of 0, 0, 3 by 0, 0 drops the 3 of every occurrence. *)
nal2rbsp(b) ==
  LET upTo[i \in 0 .. Len(b)] ==
        IF i = 0 THEN <<>>
        ELSE IF IsEscape(b, i - 2) THEN upTo[i - 1]
        ELSE Append(upTo[i - 1], b[i])
  IN  upTo[Len(b)]

(***************************************************************************)
(* Syntax elements.                                                        *)
(***************************************************************************)
ue == -1  \* ReadExponentialGolombCode
se == -2  \* ReadSE
(* n >= 0 is ReadBits(n); of more than 32 bits the value is dropped, as the   *)
(* code drops it.                                                            *)

Reader(bits) == [bits |-> bits, at |-> 0, ok |-> TRUE, v |-> <<>>]

Decode(bits, code) ==
  CASE code = ue -> ReadExponentialGolombCode(bits)
    [] code = se -> ReadSE(bits)
    [] OTHER ->
         [ok |-> code <= Len(bits), used |-> code,
          value |-> IF code > 32 \/ code > Len(bits) THEN 0 ELSE ReadBits(bits, 0, code)]

(* One element: its name and its code, which is never longer than MaxCode.   *)
MaxCode == 64

Taken(r, name, got) ==
  IF got.ok THEN [r EXCEPT !.at = @ + got.used, !.v = (name :> got.value) @@ @]
            ELSE [r EXCEPT !.ok = FALSE]

Element(r, e) ==
  IF r.ok
  THEN Taken(r, e[1], Decode(SubSeq(r.bits, r.at + 1, Min({Len(r.bits), r.at + MaxCode})), e[2]))
  ELSE r

Elements(r, list) == Each(Element, r, list)

(* Whether a value that has been read holds for the branch after it. *)
Has(r, name, values) == r.ok /\ r.v[name] \in values

(* Elements that are there if the one before has one of the values. *)
ElementsIf(r, name, values, list) ==
  IF Has(r, name, values) THEN Elements(r, list) ELSE r

(* As often as count says: every element takes a bit, so that a count beyond *)
(* the bits that are left ends in a read that fails.                         *)
Often(r, list, count) ==
  Each(Elements, r, [k \in 1 .. (IF count > Len(r.bits) THEN Len(r.bits) + 1 ELSE count)
                       |-> list])

(***************************************************************************)
(* Slice headers: both parsers have the same function.                     *)
(***************************************************************************)
Failed(error) == [ok |-> FALSE, error |-> error]

SliceTypes ==
  [u \in 0 .. 9 |-> CASE u \in {0, 3, 5, 8} -> "P"
                      [] u \in {1, 6} -> "B"
                      [] u \in {2, 4, 7, 9} -> "I"]

SliceHeader(pkt) ==
  LET r == Elements(Reader(BitsOf(Tail(pkt))), <<<<"first_mb", ue>>, <<"slice_type", ue>>>>)
  IN  CASE Len(pkt) <= 1 -> Failed("ErrPacketTooShort")
        [] Len(pkt) > 1 /\ pkt[1] % 32 \notin {1, 2, 5, 19} -> Failed("ErrNalHasNoSliceHeader")
        [] Len(pkt) > 1 /\ pkt[1] % 32 \in {1, 2, 5, 19} ->
             IF ~r.ok THEN Failed("EOF")
             ELSE IF r.v.slice_type \notin DOMAIN SliceTypes THEN Failed("ErrInvalidSliceType")
             ELSE [ok |-> TRUE, type |-> SliceTypes[r.v.slice_type]]
=============================================================================
