--------------------------------- MODULE Vec ---------------------------------
(***************************************************************************)
(* VecLen, VecSliceTo and VecSlice of utils/bits/pio/vec.go: the part from *)
(* s to e of a byte string that is kept as a vector of pieces, without     *)
(* copying.  A negative e means to the end.  A piece of the result is      *)
(* named by the place it comes from: its index in the vector, its offset   *)
(* and its length.                                                         *)
(***************************************************************************)
EXTENDS Integers, Sequences, Joins

CONSTANTS
  MaxPieces,  \* bound: pieces of the vector
  MaxLength   \* bound: bytes of a piece

ASSUME VecAssumption == MaxPieces \in Nat /\ MaxLength \in Nat

VARIABLE lens  \* the lengths of the pieces

VecLenUpTo ==
  LET upTo[k \in 0 .. Len(lens)] == IF k = 0 THEN 0 ELSE upTo[k - 1] + lens[k]
  IN  upTo

VecLen == VecLenUpTo[Len(lens)]

Smaller(x, y) == IF x < y THEN x ELSE y

(* The variables of VecSliceTo. *)
At(i, off, s, e, out) == [i |-> i, off |-> off, s |-> s, e |-> e, out |-> out]

(* The end of a turn of both loops: read bytes of the left ones of piece i   *)
(* have been passed.                                                         *)
Pass(at, left, read) ==
  IF left = read THEN At(at.i + 1, 0, at.s, at.e - read, at.out)
                 ELSE At(at.i, at.off + read, at.s, at.e - read, at.out)

(* A turn of the first loop, if there is one. *)
SkipPiece(at) ==
  IF at.s = 0 \/ at.i > Len(lens) THEN at
  ELSE LET read == Smaller(lens[at.i], at.s)
       IN  Pass([at EXCEPT !.s = @ - read], lens[at.i], read)

(* Faulty variant: the offset also applies to the pieces after the first. *)
TakeOffset(at) ==
  IF at.e = 0 \/ at.i > Len(lens) THEN at
  ELSE LET left == lens[at.i] - Smaller(at.off, lens[at.i])
           read == IF at.e > 0 THEN Smaller(at.e, left) ELSE left
       IN  [Pass([at EXCEPT !.out = Append(@, <<at.i, at.off, read>>)],
                 left, read)
              EXCEPT !.off = at.off]

(* A turn of the second loop, if there is one. *)
TakePiece(at) ==
  IF at.e = 0 \/ at.i > Len(lens) THEN at
  ELSE LET left == lens[at.i] - at.off
           read == IF at.e > 0 THEN Smaller(at.e, left) ELSE left
       IN  Pass([at EXCEPT !.out = Append(@, <<at.i, at.off, read>>)],
                left, read)

(* Every turn ends its loop or a piece: there are at most as many as pieces. *)
Skip(s, e) ==
  LET after[turns \in 0 .. Len(lens)] ==
        IF turns = 0 THEN At(1, 0, s, e, <<>>)
        ELSE SkipPiece(after[turns - 1])
  IN  after[Len(lens)]

TakePieces(skipped) ==
  LET after[turns \in 0 .. Len(lens)] ==
        IF turns = 0 THEN skipped ELSE TakePiece(after[turns - 1])
  IN  after[Len(lens)]

(* panic("pio: VecSlice ...") *)
SlicePanics == [ok |-> FALSE, out |-> <<>>]

From(s) == IF s < 0 THEN 0 ELSE s

VecSlice(s, e) ==
  LET skipped == Skip(From(s), e)
      taken == TakePieces(skipped)
  IN  IF (e >= 0 /\ e < From(s)) \/ skipped.s > 0 \/ taken.e > 0
      THEN SlicePanics
      ELSE [ok |-> TRUE, out |-> taken.out]

(***************************************************************************)
(* Every vector within the bounds.                                         *)
(***************************************************************************)
VecInit == lens = <<>>

AddPiece ==
  /\ Len(lens) < MaxPieces
  /\ \E length \in 0 .. MaxLength : lens' = Append(lens, length)

VecSpec == VecInit /\ [][AddPiece]_lens

Starts == -1 .. VecLen + 1

(* The bytes of a piece of the result, numbered through the whole vector.    *)
BytesOf(piece) ==
  [k \in 1 .. piece[3] |-> VecLenUpTo[piece[1] - 1] + piece[2] + k]

Flat(pieces) ==
  Joined([k \in DOMAIN pieces |-> BytesOf(pieces[k])])[Len(pieces)]

To(e) == IF e < 0 THEN VecLen ELSE e

IsExact(slice, s, e) ==
  /\ slice.ok <=> From(s) <= To(e) /\ To(e) <= VecLen
  /\ slice.ok =>
       /\ Flat(slice.out) = [k \in 1 .. To(e) - From(s) |-> From(s) + k]
       /\ Len(slice.out) <= Len(lens)

(* A slice has the bytes from s to e in order, whatever empty pieces and     *)
(* piece boundaries it meets, has room in a result of as many pieces as the  *)
(* vector, and does not exist exactly if s or e is out of range              *)
(* (vec.go:12-83).                                                           *)
SliceIsExact == \A s, e \in Starts : IsExact(VecSlice(s, e), s, e)
=============================================================================
