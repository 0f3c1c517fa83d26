------------------------------ MODULE DataProofs -----------------------------
(***************************************************************************)
(* The proofs about data: that the slices of a vector are exact, for       *)
(* vectors of any number of pieces of any length and for every range; that *)
(* the frames of FLAC are numbered, for chunks of any sizes, any clock     *)
(* rates and streams of any length, past the end of the int32 in which the *)
(* samples are counted; and that audio frames keep their samples, in any   *)
(* number of arrays they share in any way that calls bring about.          *)
(***************************************************************************)
EXTENDS Vec, Flac, Frames, SequenceTheorems, InductionProofs

(***************************************************************************)
(* Vectors.  The loops of VecSliceTo are recursive functions; what holds   *)
(* after every turn is proved by induction on the turns.  The lengths come *)
(* first.                                                                  *)
(***************************************************************************)
IsVector == lens \in Seq(Nat)

(* VecLenUpTo adds up the lengths of the first pieces (vec.go:3-10).         *)
LEMMA VecLenSteps ==
  ASSUME IsVector
  PROVE  /\ VecLenUpTo[0] = 0
         /\ \A k \in 1 .. Len(lens) :
              VecLenUpTo[k] = VecLenUpTo[k - 1] + lens[k]
         /\ \A k \in 0 .. Len(lens) : VecLenUpTo[k] \in Nat
<1> DEFINE len == Len(lens)
<1>1. len \in Nat /\ \A k \in 1 .. len : lens[k] \in Nat
  BY DEF IsVector
<1> DEFINE step == [at \in (1 .. len) \X Nat |-> at[2] + lens[at[1]]]
<1>2. step \in [(1 .. len) \X Nat -> Nat]
  BY <1>1
<1>3. PICK f : GoesBy(f, Nat, 0, step, len)
  <2> HIDE DEF step, len
  <2> QED BY <1>1, <1>2, RecursionExists
<1>4. f = [k \in 0 .. len |-> IF k = 0 THEN 0 ELSE f[k - 1] + lens[k]]
  <2>1. f \in [0 .. len -> Nat] /\ f[0] = 0
    BY <1>3 DEF GoesBy
  <2>2. ASSUME NEW k \in 1 .. len
        PROVE  f[k] = f[k - 1] + lens[k]
    <3>1. f[k - 1] \in Nat
      BY <1>1, <2>1
    <3>2. f[k] = step[<<k, f[k - 1]>>]
      BY <1>3 DEF GoesBy
    <3> QED BY <3>1, <3>2
  <2> HIDE DEF step
  <2> QED BY <1>1, <2>1, <2>2
<1> DEFINE g == CHOOSE h : h = [k \in 0 .. len |->
                                  IF k = 0 THEN 0 ELSE h[k - 1] + lens[k]]
<1>5. g = [k \in 0 .. len |-> IF k = 0 THEN 0 ELSE g[k - 1] + lens[k]]
  BY <1>4
<1>6. VecLenUpTo = g
  BY DEF VecLenUpTo
<1> HIDE DEF g
<1>7. g[0] = 0 /\ \A k \in 1 .. len : g[k] = g[k - 1] + lens[k]
  BY <1>1, <1>5
<1> DEFINE S == {k \in Nat : g[k] \in Nat}
<1>8. \A k \in 0 .. len : k \in S
  <2>1. 0 \in S
    BY <1>7
  <2>2. \A k \in 1 .. len : k - 1 \in S => k \in S
    BY <1>1, <1>7
  <2> HIDE DEF S, len
  <2> QED BY <1>1, <2>1, <2>2, InductionUpTo
<1> QED BY <1>6, <1>7, <1>8

(* A piece ends within the vector. *)
LEMMA VecLenGrows ==
  ASSUME IsVector, NEW j \in 0 .. Len(lens)
  PROVE  VecLenUpTo[j] <= VecLen
<1> DEFINE len == Len(lens)
           S == {k \in Nat : j <= k => VecLenUpTo[j] <= VecLenUpTo[k]}
<1>1. len \in Nat /\ \A k \in 1 .. len : lens[k] \in Nat
  BY DEF IsVector
<1>2. 0 \in S
  BY VecLenSteps
<1>3. ASSUME NEW k \in 1 .. len, k - 1 \in S
      PROVE  k \in S
  <2>1. /\ VecLenUpTo[k] = VecLenUpTo[k - 1] + lens[k]
        /\ VecLenUpTo[k] \in Nat /\ VecLenUpTo[k - 1] \in Nat
        /\ VecLenUpTo[j] \in Nat
    BY VecLenSteps
  <2> QED BY <1>1, <1>3, <2>1
<1>4. \A k \in 0 .. len : k \in S
  <2> HIDE DEF S, len
  <2> QED BY <1>1, <1>2, <1>3, InductionUpTo
<1> QED BY <1>1, <1>4 DEF VecLen

(***************************************************************************)
(* The bytes of a slice.                                                   *)
(***************************************************************************)
Piece == (1 .. Len(lens)) \X Nat \X Nat

Parts(pieces) == [k \in DOMAIN pieces |-> BytesOf(pieces[k])]

LEMMA BytesTypeOK ==
  ASSUME IsVector, NEW piece \in Piece
  PROVE  BytesOf(piece) \in Seq(Int)
<1> DEFINE base == VecLenUpTo[piece[1] - 1]
           off == piece[2]
           len == piece[3]
<1>1. piece[1] - 1 \in 0 .. Len(lens) /\ off \in Nat /\ len \in Nat
  BY DEF Piece, IsVector
<1>2. base \in Nat
  BY <1>1, VecLenSteps
<1>3. BytesOf(piece) = [k \in 1 .. len |-> base + off + k]
  BY DEF BytesOf
<1>4. off \in Nat /\ len \in Nat
  BY <1>1
<1> HIDE DEF base, off, len
<1>5. \A k \in 1 .. len : base + off + k \in Int
  BY <1>2, <1>4
<1>6. [k \in 1 .. len |-> base + off + k] \in [1 .. len -> Int]
  BY <1>5
<1> QED BY <1>3, <1>4, <1>6

LEMMA PartsTypeOK ==
  ASSUME IsVector, NEW pieces \in Seq(Piece)
  PROVE  /\ Parts(pieces) \in Seq(Seq(Int))
         /\ Len(Parts(pieces)) = Len(pieces)
<1>1. \A k \in 1 .. Len(pieces) : BytesOf(pieces[k]) \in Seq(Int)
  BY BytesTypeOK
<1> QED BY <1>1 DEF Parts

(* One more piece gives its bytes behind those of the others.                *)
LEMMA FlatGrows ==
  ASSUME IsVector, NEW pieces \in Seq(Piece), NEW piece \in Piece
  PROVE  Flat(Append(pieces, piece)) = Flat(pieces) \o BytesOf(piece)
<1> DEFINE len == Len(pieces)
           more == Append(pieces, piece)
<1>1. /\ len \in Nat /\ Len(more) = len + 1 /\ more \in Seq(Piece)
      /\ more[len + 1] = piece /\ \A k \in 1 .. len : more[k] = pieces[k]
  OBVIOUS
<1> HIDE DEF more
<1> DEFINE p == Parts(pieces)
           q == Parts(more)
<1>2. p \in Seq(Seq(Int)) /\ q \in Seq(Seq(Int))
  BY <1>1, PartsTypeOK
<1>0. len \in Nat /\ Len(p) = len /\ Len(q) = len + 1
  BY <1>1, PartsTypeOK
<1>3. q[len + 1] = BytesOf(piece) /\ \A k \in 1 .. len : q[k] = p[k]
  BY <1>1 DEF Parts
<1>4. Flat(pieces) = Joined(p)[len] /\ Flat(more) = Joined(q)[len + 1]
  BY <1>1 DEF Flat, Parts
<1> HIDE DEF p, q, len
<1>5. Joined(q)[len] = Joined(p)[len]
  <2>1. Len(p) <= Len(q) /\ \A k \in 1 .. Len(p) : q[k] = p[k]
    BY <1>0, <1>3
  <2>2. \A k \in 0 .. Len(p) : Joined(q)[k] = Joined(p)[k]
    BY <1>2, <2>1, JoinedStays
  <2> QED BY <1>0, <2>2
<1>6. Joined(q)[len + 1] = Joined(q)[len] \o q[len + 1]
  <2>1. \A k \in 1 .. Len(q) : Joined(q)[k] = Joined(q)[k - 1] \o q[k]
    BY <1>2, JoinedSteps
  <2>2. len + 1 \in 1 .. Len(q) /\ (len + 1) - 1 = len
    BY <1>0
  <2> QED BY <2>1, <2>2
<1> QED BY <1>3, <1>4, <1>5, <1>6 DEF more

LEMMA FlatEmpty ==
  ASSUME IsVector
  PROVE  Flat(<<>>) = <<>>
<1>1. <<>> \in Seq(Piece) /\ Len(<<>>) = 0
  OBVIOUS
<1>2. Parts(<<>>) \in Seq(Seq(Int)) /\ Len(Parts(<<>>)) = 0
  BY <1>1, PartsTypeOK
<1>3. Joined(Parts(<<>>))[0] = <<>>
  BY <1>2, JoinedSteps
<1> QED BY <1>1, <1>3 DEF Flat, Parts

(***************************************************************************)
(* The first loop.                                                         *)
(***************************************************************************)
Loop ==
  [i : Nat \ {0}, off : Nat, s : Nat, e : Int, out : Seq(Nat \X Nat \X Int)]

LEMMA LoopTypeOK ==
  /\ \A at \in Loop :
       /\ at.i \in Nat \ {0} /\ at.off \in Nat /\ at.s \in Nat /\ at.e \in Int
       /\ at.out \in Seq(Nat \X Nat \X Int)
       /\ at = At(at.i, at.off, at.s, at.e, at.out)
  /\ \A i \in Nat \ {0}, off, s \in Nat, e \in Int,
        out \in Seq(Nat \X Nat \X Int) : At(i, off, s, e, out) \in Loop
BY DEF Loop, At

(* A turn ends a piece or the loop. *)
LEMMA PassIs ==
  ASSUME NEW i, NEW off, NEW s, NEW e, NEW out, NEW left, NEW read
  PROVE  Pass(At(i, off, s, e, out), left, read) =
           IF left = read THEN At(i + 1, 0, s, e - read, out)
                          ELSE At(i, off + read, s, e - read, out)
BY DEF Pass, At

(* After so many turns: as many bytes have been skipped as stand before the  *)
(* place that has been reached, and a loop that has not ended has used up a  *)
(* piece in every turn.                                                      *)
SkipInv(at, turns, s, e) ==
  /\ at \in Loop /\ at.i \in 1 .. Len(lens) + 1 /\ at.out = <<>>
  /\ VecLenUpTo[at.i - 1] + at.off = s - at.s
  /\ at.e = e - (s - at.s)
  /\ at.off > 0 => at.s = 0 /\ at.i <= Len(lens) /\ at.off < lens[at.i]
  /\ at.s = 0 \/ at.i = turns + 1

LEMMA SkipStarts ==
  ASSUME IsVector, NEW s \in Nat, NEW e \in Int
  PROVE  SkipInv(At(1, 0, s, e, <<>>), 0, s, e)
<1>1. VecLenUpTo[0] = 0 /\ Len(lens) \in Nat
  BY VecLenSteps DEF IsVector
<1>2. At(1, 0, s, e, <<>>) \in Loop
  BY DEF At, Loop
<1> QED BY <1>1, <1>2 DEF SkipInv, At

(* What a turn of the first loop does. *)
LEMMA SkipPieceIs ==
  ASSUME NEW at \in Loop
  PROVE  SkipPiece(at) =
           IF at.s = 0 \/ at.i > Len(lens) THEN at
           ELSE IF lens[at.i] = Smaller(lens[at.i], at.s)
           THEN At(at.i + 1, 0, at.s - lens[at.i], at.e - lens[at.i], at.out)
           ELSE LET read == Smaller(lens[at.i], at.s)
                IN  At(at.i, at.off + read, at.s - read, at.e - read, at.out)
<1> DEFINE read == Smaller(lens[at.i], at.s)
<1>1. at = At(at.i, at.off, at.s, at.e, at.out)
  BY LoopTypeOK
<1>2. [at EXCEPT !.s = @ - read] = At(at.i, at.off, at.s - read, at.e, at.out)
  BY <1>1 DEF At
<1> HIDE DEF read
<1>3. Pass([at EXCEPT !.s = @ - read], lens[at.i], read) =
        IF lens[at.i] = read
        THEN At(at.i + 1, 0, at.s - read, at.e - read, at.out)
        ELSE At(at.i, at.off + read, at.s - read, at.e - read, at.out)
  BY <1>2, PassIs
<1> QED BY <1>3 DEF SkipPiece, read

LEMMA SkipTypeOK ==
  ASSUME IsVector, NEW at \in Loop
  PROVE  SkipPiece(at) \in Loop
<1>1. CASE at.s = 0 \/ at.i > Len(lens)
  BY <1>1, SkipPieceIs
<1>2. CASE ~(at.s = 0 \/ at.i > Len(lens))
  <2> DEFINE read == Smaller(lens[at.i], at.s)
             len == lens[at.i]
             off == at.off
             s == at.s
             e == at.e
  <2>1. lens[at.i] \in Nat /\ at.i \in Nat \ {0} /\ at.off \in Nat
        /\ at.s \in Nat /\ at.e \in Int /\ at.out \in Seq(Nat \X Nat \X Int)
    BY <1>2, LoopTypeOK DEF IsVector
  <2>2. read \in Nat /\ at.s - read \in Nat /\ at.e - read \in Int
        /\ at.off + read \in Nat
    <3>1. len \in Nat /\ off \in Nat /\ s \in Nat /\ e \in Int
      BY <2>1
    <3>2. read = Smaller(len, s)
      OBVIOUS
    <3> HIDE DEF len, off, s, e, read
    <3>3. read \in Nat /\ read <= s
      BY <3>1, <3>2 DEF Smaller
    <3>4. s - read \in Nat /\ e - read \in Int /\ off + read \in Nat
      BY <3>1, <3>3
    <3> QED BY <3>3, <3>4 DEF off, s, e
  <2>3. /\ At(at.i + 1, 0, at.s - read, at.e - read, at.out) \in Loop
        /\ At(at.i, at.off + read, at.s - read, at.e - read, at.out) \in Loop
    <3> HIDE DEF read
    <3>1. at.i + 1 \in Nat \ {0} /\ 0 \in Nat
      BY <2>1
    <3>2. At(at.i + 1, 0, at.s - read, at.e - read, at.out) \in Loop
      BY <2>1, <2>2, <3>1, LoopTypeOK
    <3>3. At(at.i, at.off + read, at.s - read, at.e - read, at.out) \in Loop
      BY <2>1, <2>2, LoopTypeOK
    <3> QED BY <3>2, <3>3
  <2> QED BY <1>2, <2>3, SkipPieceIs
<1> QED BY <1>1, <1>2

LEMMA SkipTurn ==
  ASSUME IsVector, NEW s \in Nat, NEW e \in Int, NEW turns \in 1 .. Len(lens),
         NEW at, SkipInv(at, turns - 1, s, e)
  PROVE  SkipInv(SkipPiece(at), turns, s, e)
<1>0. at \in Loop
  BY DEF SkipInv
<1>1. CASE at.s = 0
  BY <1>0, <1>1, SkipPieceIs DEF SkipInv
<1>2. CASE at.s # 0
  <2>1. /\ at.i = turns /\ at.off = 0 /\ at.s \in Nat \ {0} /\ at.e \in Int
        /\ at.out = <<>>
    BY <1>0, <1>2, LoopTypeOK DEF SkipInv
  <2>2. VecLenUpTo[at.i - 1] = s - at.s /\ at.e = e - (s - at.s)
    BY <2>1, VecLenSteps DEF SkipInv
  <2>3. /\ Len(lens) \in Nat /\ lens[at.i] \in Nat
        /\ VecLenUpTo[at.i] = VecLenUpTo[at.i - 1] + lens[at.i]
    BY <2>1, VecLenSteps DEF IsVector
  <2>4. SkipPiece(at) \in Loop
    BY <1>0, SkipTypeOK
  <2>5. CASE lens[at.i] <= at.s
    <3>1. SkipPiece(at) =
            At(at.i + 1, 0, at.s - lens[at.i], at.e - lens[at.i], <<>>)
      BY <1>0, <2>1, <2>3, <2>5, SkipPieceIs DEF Smaller
    <3> DEFINE next == SkipPiece(at)
    <3>2. /\ next.i = at.i + 1 /\ next.off = 0 /\ next.s = at.s - lens[at.i]
          /\ next.e = at.e - lens[at.i] /\ next.out = <<>>
      BY <3>1 DEF At
    <3> HIDE DEF next
    <3>3. /\ next.i - 1 = at.i /\ next.i \in 1 .. Len(lens) + 1
          /\ next.i = turns + 1 /\ next.s \in Nat
      BY <2>1, <2>3, <2>5, <3>2
    <3>4. next \in Loop
      BY <2>4 DEF next
    <3>5. VecLenUpTo[next.i - 1] + next.off = s - next.s
      <4>1. VecLenUpTo[next.i - 1] = (s - at.s) + lens[at.i]
        BY <2>2, <2>3, <3>3
      <4>2. (s - at.s) + lens[at.i] + 0 = s - (at.s - lens[at.i])
        BY <2>1, <2>3
      <4> QED BY <3>2, <4>1, <4>2
    <3>6. next.e = e - (s - next.s)
      BY <2>1, <2>2, <2>3, <3>2
    <3>7. SkipInv(next, turns, s, e)
      BY <3>2, <3>3, <3>4, <3>5, <3>6 DEF SkipInv
    <3> QED BY <3>7 DEF next
  <2>6. CASE lens[at.i] > at.s
    <3>1. SkipPiece(at) = At(at.i, at.s, 0, at.e - at.s, <<>>)
      BY <1>0, <2>1, <2>3, <2>6, SkipPieceIs DEF Smaller
    <3> QED BY <2>1, <2>2, <2>3, <2>4, <2>6, <3>1 DEF SkipInv, At
  <2> QED BY <2>1, <2>3, <2>5, <2>6
<1> QED BY <1>1, <1>2

LEMMA SkipEnds ==
  ASSUME IsVector, NEW s \in Nat, NEW e \in Int
  PROVE  SkipInv(Skip(s, e), Len(lens), s, e)
<1> DEFINE len == Len(lens)
           init == At(1, 0, s, e, <<>>)
           step == [p \in (1 .. len) \X Loop |-> SkipPiece(p[2])]
<1>1. len \in Nat
  BY DEF IsVector
<1>2. init \in Loop
  BY SkipStarts DEF SkipInv
<1>3. step \in [(1 .. len) \X Loop -> Loop]
  BY SkipTypeOK
<1>4. PICK f : GoesBy(f, Loop, init, step, len)
  <2> HIDE DEF step, len, init
  <2> QED BY <1>1, <1>2, <1>3, RecursionExists
<1>5. f = [turns \in 0 .. len |->
             IF turns = 0 THEN init ELSE SkipPiece(f[turns - 1])]
  <2>1. f \in [0 .. len -> Loop] /\ f[0] = init
    BY <1>4 DEF GoesBy
  <2>2. ASSUME NEW k \in 1 .. len
        PROVE  f[k] = SkipPiece(f[k - 1])
    <3>1. k - 1 \in 0 .. len
      BY <1>1
    <3>2. f[k - 1] \in Loop
      BY <2>1, <3>1
    <3>3. f[k] = step[<<k, f[k - 1]>>]
      BY <1>4 DEF GoesBy
    <3> HIDE DEF len
    <3> QED BY <3>2, <3>3
  <2> HIDE DEF step, init
  <2> QED BY <1>1, <2>1, <2>2
<1> DEFINE g == CHOOSE h : h = [turns \in 0 .. len |->
                  IF turns = 0 THEN init ELSE SkipPiece(h[turns - 1])]
<1>6. g = [turns \in 0 .. len |->
             IF turns = 0 THEN init ELSE SkipPiece(g[turns - 1])]
  BY <1>5
<1>7. Skip(s, e) = g[len]
  BY DEF Skip
<1> HIDE DEF g
<1>8. g[0] = init /\ \A k \in 1 .. len : g[k] = SkipPiece(g[k - 1])
  <2> HIDE DEF init
  <2> QED BY <1>1, <1>6
<1> DEFINE S == {k \in Nat : SkipInv(g[k], k, s, e)}
<1>9. \A k \in 0 .. len : k \in S
  <2>1. 0 \in S
    BY <1>8, SkipStarts
  <2>2. ASSUME NEW k \in 1 .. len, k - 1 \in S
        PROVE  k \in S
    <3>1. SkipInv(g[k - 1], k - 1, s, e)
      BY <2>2
    <3>2. SkipInv(SkipPiece(g[k - 1]), k, s, e)
      BY <3>1, SkipTurn
    <3> QED BY <1>1, <1>8, <3>2
  <2> HIDE DEF S, len
  <2> QED BY <1>1, <2>1, <2>2, InductionUpTo
<1> QED BY <1>1, <1>7, <1>9

(***************************************************************************)
(* The second loop.                                                        *)
(***************************************************************************)
(* The n bytes behind byte s. *)
Behind(s, n) == [k \in 1 .. n |-> s + k]

LEMMA ConcatIs ==
  ASSUME NEW a \in Seq(Int), NEW b \in Seq(Int), NEW c \in Seq(Int),
         Len(c) = Len(a) + Len(b),
         \A k \in 1 .. Len(a) : c[k] = a[k],
         \A k \in 1 .. Len(b) : c[Len(a) + k] = b[k]
  PROVE  a \o b = c
<1> DEFINE ab == a \o b
<1>1. ab \in Seq(Int) /\ Len(ab) = Len(c)
  OBVIOUS
<1>2. ASSUME NEW k \in 1 .. Len(c)
      PROVE  ab[k] = c[k]
  <2>1. CASE k <= Len(a)
    BY <2>1
  <2>2. CASE k > Len(a)
    <3> DEFINE j == k - Len(a)
    <3>1. j \in 1 .. Len(b) /\ Len(a) + j = k
      BY <2>2
    <3>2. ab[k] = b[j]
      BY <2>2
    <3> HIDE DEF j
    <3>3. c[Len(a) + j] = b[j]
      BY <3>1
    <3> QED BY <3>1, <3>2, <3>3
  <2> QED BY <2>1, <2>2
<1> HIDE DEF ab
<1>3. ab \in [1 .. Len(ab) -> Int] /\ c \in [1 .. Len(c) -> Int]
  BY <1>1
<1>4. ab \in [1 .. Len(c) -> Int] /\ c \in [1 .. Len(c) -> Int]
  BY <1>1, <1>3
<1>5. ab = c
  BY <1>2, <1>4
<1> QED BY <1>5 DEF ab

LEMMA BehindGrows ==
  ASSUME NEW s \in Nat, NEW n \in Nat, NEW m \in Nat
  PROVE  /\ Behind(s, 0) = <<>>
         /\ Behind(s, n) \o Behind(s + n, m) = Behind(s, n + m)
<1> DEFINE a == Behind(s, n)
           b == Behind(s + n, m)
           c == Behind(s, n + m)
<1>1. /\ a \in Seq(Int) /\ Len(a) = n
      /\ b \in Seq(Int) /\ Len(b) = m
      /\ c \in Seq(Int) /\ Len(c) = n + m
      /\ Behind(s, 0) \in Seq(Int) /\ Len(Behind(s, 0)) = 0
  BY DEF Behind
<1>2. Behind(s, 0) = <<>>
  BY <1>1
<1>3. /\ \A k \in 1 .. n : c[k] = a[k]
      /\ \A k \in 1 .. m : c[n + k] = b[k]
  BY DEF Behind
<1> HIDE DEF a, b, c
<1>4. a \o b = c
  BY <1>1, <1>3, ConcatIs
<1> QED BY <1>2, <1>4 DEF a, b, c

(* The byte of the vector that has been reached. *)
Reached(at) == VecLenUpTo[at.i - 1] + at.off

(* After so many turns, from what the first loop has left: the result holds  *)
(* the bytes up to the one that has been reached.                            *)
TakeInv(at, turns, s, from) ==
  /\ at \in Loop /\ at.s = 0 /\ at.out \in Seq(Piece)
  /\ at.i \in 1 .. Len(lens) + 1
  /\ at.off > 0 => at.i <= Len(lens) /\ at.off < lens[at.i]
  /\ at.e = 0 \/ at.i >= turns + 1
  /\ from < 0 => at.e < 0
  /\ from >= 0 => at.e >= 0 /\ Reached(at) = s + (from - at.e)
  /\ Len(at.out) <= turns
  /\ Reached(at) - s \in Nat
  /\ Flat(at.out) = Behind(s, Reached(at) - s)

LEMMA TakeStarts ==
  ASSUME IsVector, NEW s \in Nat, NEW e \in Int, NEW at,
         SkipInv(at, Len(lens), s, e), at.s = 0
  PROVE  TakeInv(at, 0, s, at.e)
<1>1. /\ at \in Loop /\ at.out = <<>> /\ at.i \in 1 .. Len(lens) + 1
      /\ at.off > 0 => at.i <= Len(lens) /\ at.off < lens[at.i]
      /\ Reached(at) = s
  BY DEF SkipInv, Reached
<1>2. at.i \in Nat \ {0} /\ at.off \in Nat /\ at.e \in Int
  BY <1>1, LoopTypeOK
<1>3. Flat(at.out) = Behind(s, Reached(at) - s)
  <2>1. Reached(at) - s = 0
    BY <1>1
  <2> QED BY <1>1, <2>1, FlatEmpty, BehindGrows
<1>4. at.out \in Seq(Piece) /\ Len(at.out) <= 0
  BY <1>1
<1> QED BY <1>1, <1>2, <1>3, <1>4 DEF TakeInv

(* What a turn of the second loop does. *)
Left(at) == lens[at.i] - at.off

Taken(at) == IF at.e > 0 THEN Smaller(at.e, Left(at)) ELSE Left(at)

Out(at) == Append(at.out, <<at.i, at.off, Taken(at)>>)

LEMMA TakePieceIs ==
  ASSUME NEW at \in Loop
  PROVE  /\ at.e = 0 \/ at.i > Len(lens) => TakePiece(at) = at
         /\ ~(at.e = 0 \/ at.i > Len(lens)) =>
              TakePiece(at) =
                IF Left(at) = Taken(at)
                THEN At(at.i + 1, 0, at.s, at.e - Taken(at), Out(at))
                ELSE At(at.i, at.off + Taken(at), at.s, at.e - Taken(at), Out(at))
<1> DEFINE left == Left(at)
           read == Taken(at)
           out == Out(at)
<1>1. at = At(at.i, at.off, at.s, at.e, at.out)
  BY LoopTypeOK
<1>2. TakePiece(at) = IF at.e = 0 \/ at.i > Len(lens) THEN at
                      ELSE Pass([at EXCEPT !.out = out], left, read)
  BY DEF TakePiece, Left, Taken, Out
<1> HIDE DEF left, read, out
<1>3. [at EXCEPT !.out = out] = At(at.i, at.off, at.s, at.e, out)
  BY <1>1 DEF At
<1>4. Pass([at EXCEPT !.out = out], left, read) =
        IF left = read THEN At(at.i + 1, 0, at.s, at.e - read, out)
                       ELSE At(at.i, at.off + read, at.s, at.e - read, out)
  BY <1>3, PassIs
<1> QED BY <1>2, <1>4 DEF left, read, out

LEMMA TakeTypeOK ==
  ASSUME IsVector, NEW at \in Loop
  PROVE  TakePiece(at) \in Loop
<1>1. CASE at.e = 0 \/ at.i > Len(lens)
  BY <1>1, TakePieceIs
<1>2. CASE ~(at.e = 0 \/ at.i > Len(lens))
  <2> DEFINE left == Left(at)
             read == Taken(at)
             out == Out(at)
  <2>1. lens[at.i] \in Nat /\ at.i \in Nat \ {0} /\ at.off \in Nat
        /\ at.s \in Nat /\ at.e \in Int /\ at.out \in Seq(Nat \X Nat \X Int)
    BY <1>2, LoopTypeOK DEF IsVector
  <2>2. left \in Int
    BY <2>1 DEF Left
  <2>3. read = IF at.e > 0 THEN Smaller(at.e, left) ELSE left
    BY DEF Taken
  <2>4. out = Append(at.out, <<at.i, at.off, read>>)
    BY DEF Out
  <2>5. TakePiece(at) =
          IF left = read
          THEN At(at.i + 1, 0, at.s, at.e - read, out)
          ELSE At(at.i, at.off + read, at.s, at.e - read, out)
    BY <1>2, TakePieceIs
  <2> HIDE DEF left, read, out
  <2>6. /\ read \in Int /\ at.e - read \in Int
        /\ left # read => at.off + read \in Nat
    BY <2>1, <2>2, <2>3 DEF Smaller
  <2>7. out \in Seq(Nat \X Nat \X Int)
    BY <2>1, <2>4, <2>6
  <2>8. at.i + 1 \in Nat \ {0} /\ 0 \in Nat
    BY <2>1
  <2>9. At(at.i + 1, 0, at.s, at.e - read, out) \in Loop
    BY <2>1, <2>6, <2>7, <2>8, LoopTypeOK
  <2>10. left # read => At(at.i, at.off + read, at.s, at.e - read, out) \in Loop
    BY <2>1, <2>6, <2>7, LoopTypeOK
  <2> QED BY <2>5, <2>9, <2>10
<1> QED BY <1>1, <1>2

LEMMA TakeTurn ==
  ASSUME IsVector, NEW s \in Nat, NEW from \in Int,
         NEW turns \in 1 .. Len(lens),
         NEW at, TakeInv(at, turns - 1, s, from)
  PROVE  TakeInv(TakePiece(at), turns, s, from)
<1>1. /\ at \in Loop /\ at.s = 0 /\ at.out \in Seq(Piece) /\ Len(lens) \in Nat
      /\ at.i \in 1 .. Len(lens) + 1 /\ at.off \in Nat /\ at.e \in Int
  BY LoopTypeOK DEF TakeInv, IsVector
<1>2. CASE at.e = 0 \/ at.i > Len(lens)
  <2>1. TakePiece(at) = at
    BY <1>1, <1>2, TakePieceIs
  <2>2. /\ at.e = 0 \/ at.i >= turns + 1
        /\ Len(at.out) <= turns
    <3>1. Len(at.out) \in Nat /\ Len(at.out) <= turns - 1
      BY <1>1 DEF TakeInv
    <3> QED BY <1>1, <1>2, <3>1
  <2> QED BY <2>1, <2>2 DEF TakeInv
<1>3. CASE at.e # 0 /\ at.i <= Len(lens)
  <2> DEFINE i == at.i
             off == at.off
             e == at.e
             all == Len(lens)
             len == lens[i]
             base == VecLenUpTo[i - 1]
             left == Left(at)
             read == Taken(at)
             piece == <<i, off, read>>
             out == Out(at)
             next == TakePiece(at)
  <2>1. next = IF left = read THEN At(i + 1, 0, at.s, e - read, out)
               ELSE At(i, off + read, at.s, e - read, out)
    BY <1>1, <1>3, TakePieceIs
  <2>2. /\ all \in Nat /\ i \in 1 .. all /\ off \in Nat /\ e \in Int /\ e # 0
        /\ i >= turns
    <3>1. at.e = 0 \/ at.i >= (turns - 1) + 1
      BY DEF TakeInv
    <3> QED BY <1>1, <1>3, <3>1
  <2>3. len \in Nat /\ off <= len
    <3>1. len \in Nat
      BY <2>2 DEF IsVector
    <3>2. off > 0 => off < len
      BY DEF TakeInv
    <3> HIDE DEF len, off
    <3> QED BY <2>2, <3>1, <3>2
  <2>4. base \in Nat /\ VecLenUpTo[i] = base + len
    <3>1. i \in 1 .. Len(lens) /\ i - 1 \in 0 .. Len(lens)
      BY <2>2
    <3> QED BY <3>1, VecLenSteps
  <2>5. Reached(at) = base + off
    BY DEF Reached
  <2>6. next \in Loop
    BY <1>1, TakeTypeOK
  <2>7. BytesOf(piece) = Behind(Reached(at), read)
    BY DEF BytesOf, Behind, Reached
  <2>8. at.s = 0 /\ at.out \in Seq(Piece)
    BY <1>1
  <2>9. Piece = (1 .. all) \X Nat \X Nat
    BY DEF Piece
  <2>10. /\ from < 0 => e < 0
         /\ from >= 0 => e >= 0 /\ Reached(at) = s + (from - e)
    BY DEF TakeInv
  <2>11. /\ lens[i] = len /\ Len(lens) = all
         /\ left = len - off
         /\ read = IF e > 0 THEN Smaller(e, left) ELSE left
         /\ out = Append(at.out, piece)
    BY DEF Left, Taken, Out
  <2> HIDE DEF i, off, e, all, len, base, left, read, out, next
  <2>12. left \in Nat /\ off + left = len
    BY <2>2, <2>3, <2>11
  <2>13. /\ read \in Nat /\ read <= left
         /\ e > 0 => read <= e
         /\ e < 0 => read = left
         /\ read # left => e - read = 0
    BY <2>2, <2>11, <2>12 DEF Smaller
  <2>14. piece \in Piece
    BY <2>2, <2>9, <2>13
  <2> HIDE DEF piece
  <2>15. Flat(out) = Flat(at.out) \o Behind(Reached(at), read)
    <3>1. Flat(out) = Flat(at.out) \o BytesOf(piece)
      BY <2>8, <2>11, <2>14, FlatGrows
    <3> QED BY <2>7, <3>1
  <2>16. /\ out \in Seq(Piece)
         /\ Len(out) = Len(at.out) + 1
    BY <2>8, <2>11, <2>14
  <2>17. /\ next.s = 0 /\ next.e = e - read /\ next.out = out
         /\ left = read => next.i = i + 1 /\ next.off = 0
         /\ left # read => next.i = i /\ next.off = off + read
    BY <2>1, <2>8 DEF At
  <2>18. /\ next.i \in 1 .. Len(lens) + 1
         /\ next.off > 0 => next.i <= Len(lens) /\ next.off < lens[next.i]
    <3>1. CASE left = read
      <4>1. i + 1 \in 1 .. all + 1
        BY <2>2
      <4>2. next.i = i + 1 /\ next.off = 0
        BY <2>17, <3>1
      <4> QED BY <2>11, <4>1, <4>2
    <3>2. CASE left # read
      <4>1. next.i = i /\ next.off = off + read
        BY <2>17, <3>2
      <4>2. off + read < len
        BY <2>2, <2>12, <2>13, <3>2
      <4>3. i \in 1 .. all + 1 /\ i <= all
        BY <2>2
      <4> QED BY <2>11, <4>1, <4>2, <4>3
    <3> QED BY <3>1, <3>2
  <2>19. next.e = 0 \/ next.i >= turns + 1
    <3>1. CASE left = read
      <4>1. i + 1 >= turns + 1
        BY <2>2
      <4> QED BY <2>17, <3>1, <4>1
    <3>2. CASE left # read
      BY <2>13, <2>17, <3>2
    <3> QED BY <3>1, <3>2
  <2>20. Reached(next) = (base + off) + read
    <3>1. CASE left = read
      <4>1. next.i - 1 = i /\ next.off = 0
        BY <2>2, <2>17, <3>1
      <4>2. Reached(next) = (base + len) + 0
        BY <2>4, <4>1 DEF Reached
      <4>3. (base + len) + 0 = (base + off) + read
        BY <2>2, <2>3, <2>4, <2>12, <3>1
      <4> QED BY <4>2, <4>3
    <3>2. CASE left # read
      <4>1. Reached(next) = base + (off + read)
        BY <2>17, <3>2 DEF Reached, base
      <4>2. base + (off + read) = (base + off) + read
        BY <2>2, <2>4, <2>13
      <4> QED BY <4>1, <4>2
    <3> QED BY <3>1, <3>2
  <2>21. /\ from < 0 => next.e < 0
         /\ from >= 0 => next.e >= 0 /\ Reached(next) = s + (from - next.e)
    <3>1. from < 0 => e - read < 0
      BY <2>2, <2>10, <2>13
    <3>2. from >= 0 => e - read >= 0
      BY <2>2, <2>10, <2>13
    <3>3. from >= 0 => (base + off) + read = s + (from - (e - read))
      <4>1. s + (from - (e - read)) = (s + (from - e)) + read
        BY <2>2, <2>13
      <4> QED BY <2>5, <2>10, <4>1
    <3> QED BY <2>17, <2>20, <3>1, <3>2, <3>3
  <2>22. Len(next.out) <= turns
    <3>1. Len(at.out) \in Nat /\ Len(at.out) <= turns - 1
      BY <2>8 DEF TakeInv
    <3> QED BY <2>16, <2>17, <3>1
  <2>23. /\ Reached(next) - s \in Nat
         /\ Flat(next.out) = Behind(s, Reached(next) - s)
    <3> DEFINE n == (base + off) - s
    <3>1. n \in Nat /\ Flat(at.out) = Behind(s, n)
      BY <2>5 DEF TakeInv
    <3>2. s + n = base + off /\ n + read = ((base + off) + read) - s
      BY <2>2, <2>4, <2>13
    <3> HIDE DEF n
    <3>3. Behind(s, n) \o Behind(s + n, read) = Behind(s, n + read)
      BY <2>13, <3>1, BehindGrows
    <3>4. Flat(next.out) = Behind(s, n) \o Behind(s + n, read)
      BY <2>5, <2>15, <2>17, <3>1, <3>2
    <3>5. n + read = Reached(next) - s
      BY <2>20, <3>2
    <3>6. n + read \in Nat
      BY <2>13, <3>1
    <3> QED BY <3>3, <3>4, <3>5, <3>6
  <2>24. TakeInv(next, turns, s, from)
    BY <2>6, <2>16, <2>17, <2>18, <2>19, <2>21, <2>22, <2>23 DEF TakeInv
  <2> QED BY <2>24 DEF next
<1> QED BY <1>1, <1>2, <1>3

LEMMA TakeEnds ==
  ASSUME IsVector, NEW s \in Nat, NEW skipped,
         TakeInv(skipped, 0, s, skipped.e)
  PROVE  TakeInv(TakePieces(skipped), Len(lens), s, skipped.e)
<1> DEFINE len == Len(lens)
           step == [p \in (1 .. len) \X Loop |-> TakePiece(p[2])]
<1>1. len \in Nat
  BY DEF IsVector
<1>2. skipped \in Loop /\ skipped.e \in Int
  BY LoopTypeOK DEF TakeInv
<1>3. step \in [(1 .. len) \X Loop -> Loop]
  BY TakeTypeOK
<1>4. PICK f : GoesBy(f, Loop, skipped, step, len)
  <2> HIDE DEF step, len
  <2> QED BY <1>1, <1>2, <1>3, RecursionExists
<1>5. f = [turns \in 0 .. len |->
             IF turns = 0 THEN skipped ELSE TakePiece(f[turns - 1])]
  <2>1. f \in [0 .. len -> Loop] /\ f[0] = skipped
    BY <1>4 DEF GoesBy
  <2>2. ASSUME NEW k \in 1 .. len
        PROVE  f[k] = TakePiece(f[k - 1])
    <3>1. k - 1 \in 0 .. len
      BY <1>1
    <3>2. f[k - 1] \in Loop
      BY <2>1, <3>1
    <3>3. f[k] = step[<<k, f[k - 1]>>]
      BY <1>4 DEF GoesBy
    <3> HIDE DEF len
    <3> QED BY <3>2, <3>3
  <2> HIDE DEF step
  <2> QED BY <1>1, <2>1, <2>2
<1> DEFINE g == CHOOSE h : h = [turns \in 0 .. len |->
                  IF turns = 0 THEN skipped ELSE TakePiece(h[turns - 1])]
<1>6. g = [turns \in 0 .. len |->
             IF turns = 0 THEN skipped ELSE TakePiece(g[turns - 1])]
  BY <1>5
<1>7. TakePieces(skipped) = g[len]
  BY DEF TakePieces
<1> HIDE DEF g
<1>8. g[0] = skipped /\ \A k \in 1 .. len : g[k] = TakePiece(g[k - 1])
  BY <1>1, <1>6
<1> DEFINE S == {k \in Nat : TakeInv(g[k], k, s, skipped.e)}
<1>9. \A k \in 0 .. len : k \in S
  <2>1. 0 \in S
    BY <1>8
  <2>2. ASSUME NEW k \in 1 .. len, k - 1 \in S
        PROVE  k \in S
    <3>1. TakeInv(g[k - 1], k - 1, s, skipped.e)
      BY <2>2
    <3>2. TakeInv(TakePiece(g[k - 1]), k, s, skipped.e)
      BY <1>2, <3>1, TakeTurn
    <3> QED BY <1>1, <1>8, <3>2
  <2> HIDE DEF S, len
  <2> QED BY <1>1, <2>1, <2>2, InductionUpTo
<1> QED BY <1>1, <1>7, <1>9

(***************************************************************************)
(* The slice.                                                              *)
(***************************************************************************)
LEMMA ReachedIsInVector ==
  ASSUME IsVector, NEW at \in Loop, at.i \in 1 .. Len(lens) + 1,
         at.off > 0 => at.i <= Len(lens) /\ at.off < lens[at.i]
  PROVE  /\ Reached(at) \in Nat /\ Reached(at) <= VecLen
         /\ at.i > Len(lens) => Reached(at) = VecLen
<1>1. at.off \in Nat /\ Len(lens) \in Nat /\ VecLen \in Nat
  <2>1. Len(lens) \in Nat
    BY DEF IsVector
  <2>2. VecLenUpTo[Len(lens)] \in Nat
    BY <2>1, VecLenSteps
  <2> QED BY <2>1, <2>2, LoopTypeOK DEF VecLen
<1>2. at.i - 1 \in 0 .. Len(lens)
  BY <1>1
<1>3. VecLenUpTo[at.i - 1] \in Nat /\ VecLenUpTo[at.i - 1] <= VecLen
  BY <1>2, VecLenSteps, VecLenGrows
<1>4. CASE at.i > Len(lens)
  <2>1. at.off = 0 /\ at.i - 1 = Len(lens)
    BY <1>1, <1>2, <1>4
  <2>2. Reached(at) = VecLen + 0
    BY <2>1 DEF Reached, VecLen
  <2> QED BY <1>1, <2>2
<1>5. CASE at.i <= Len(lens)
  <2>1. at.i \in 1 .. Len(lens) /\ at.i \in 0 .. Len(lens)
    BY <1>1, <1>5
  <2>2. /\ VecLenUpTo[at.i] = VecLenUpTo[at.i - 1] + lens[at.i]
        /\ VecLenUpTo[at.i] <= VecLen /\ VecLenUpTo[at.i] \in Nat
    BY <2>1, VecLenSteps, VecLenGrows
  <2>3. lens[at.i] \in Nat /\ at.off <= lens[at.i]
    BY <1>1, <2>1 DEF IsVector
  <2>4. VecLenUpTo[at.i - 1] + at.off <= VecLenUpTo[at.i]
    BY <1>1, <1>3, <2>2, <2>3
  <2> QED BY <1>1, <1>3, <1>5, <2>2, <2>4 DEF Reached
<1> QED BY <1>1, <1>2, <1>4, <1>5

(* Any slice of any vector, in range or not. *)
LEMMA EverySliceIsExact ==
  ASSUME IsVector, NEW s \in Int, NEW e \in Int
  PROVE  IsExact(VecSlice(s, e), s, e)
<1> DEFINE start == From(s)
           skipped == Skip(start, e)
           taken == TakePieces(skipped)
           slice == VecSlice(s, e)
<1>1. start \in Nat /\ VecLen \in Nat /\ Len(lens) \in Nat
  <2>1. Len(lens) \in Nat
    BY DEF IsVector
  <2>2. VecLenUpTo[Len(lens)] \in Nat
    BY <2>1, VecLenSteps
  <2> QED BY <2>1, <2>2 DEF From, VecLen
<1>2. slice = IF (e >= 0 /\ e < start) \/ skipped.s > 0 \/ taken.e > 0
              THEN SlicePanics ELSE [ok |-> TRUE, out |-> taken.out]
  BY DEF VecSlice
<1> HIDE DEF start
<1>3. SkipInv(skipped, Len(lens), start, e)
  BY <1>1, SkipEnds
<1> HIDE DEF skipped
<1>4. /\ skipped \in Loop /\ skipped.s \in Nat /\ skipped.e \in Int
      /\ Reached(skipped) = start - skipped.s
      /\ skipped.e = e - (start - skipped.s)
      /\ Reached(skipped) \in Nat /\ Reached(skipped) <= VecLen
      /\ skipped.s > 0 => Reached(skipped) = VecLen
  <2>1. /\ skipped \in Loop /\ skipped.i \in 1 .. Len(lens) + 1
        /\ skipped.off > 0 => skipped.i <= Len(lens)
                              /\ skipped.off < lens[skipped.i]
        /\ Reached(skipped) = start - skipped.s
        /\ skipped.e = e - (start - skipped.s)
        /\ skipped.s = 0 \/ skipped.i = Len(lens) + 1
    BY <1>3 DEF SkipInv, Reached
  <2>2. skipped.s \in Nat /\ skipped.e \in Int
    BY <2>1, LoopTypeOK
  <2>3. /\ Reached(skipped) \in Nat /\ Reached(skipped) <= VecLen
        /\ skipped.i > Len(lens) => Reached(skipped) = VecLen
    BY <2>1, ReachedIsInVector
  <2>4. skipped.s > 0 => skipped.i > Len(lens)
    BY <1>1, <2>1, <2>2
  <2> QED BY <2>1, <2>2, <2>3, <2>4
<1>5. CASE e >= 0 /\ e < start
  <2>1. slice.ok = FALSE
    BY <1>2, <1>5 DEF SlicePanics
  <2>2. ~(start <= To(e))
    BY <1>1, <1>5 DEF To
  <2> QED BY <2>1, <2>2 DEF IsExact, start, slice
<1>6. CASE ~(e >= 0 /\ e < start) /\ skipped.s > 0
  <2>1. slice.ok = FALSE
    BY <1>2, <1>6 DEF SlicePanics
  <2>2. VecLen < start
    BY <1>1, <1>4, <1>6
  <2>3. ~(start <= To(e) /\ To(e) <= VecLen)
    BY <1>1, <2>2 DEF To
  <2> QED BY <2>1, <2>3 DEF IsExact, start, slice
<1>7. CASE ~(e >= 0 /\ e < start) /\ skipped.s = 0
  <2>1. TakeInv(taken, Len(lens), start, skipped.e)
    <3>1. TakeInv(skipped, 0, start, skipped.e)
      BY <1>1, <1>3, <1>7, TakeStarts
    <3> QED BY <1>1, <3>1, TakeEnds
  <2> HIDE DEF taken
  <2>2. /\ taken.e \in Int
        /\ Reached(taken) \in Nat /\ Reached(taken) <= VecLen
        /\ taken.e # 0 => Reached(taken) = VecLen
    <3>1. /\ taken \in Loop /\ taken.i \in 1 .. Len(lens) + 1
          /\ taken.off > 0 => taken.i <= Len(lens)
                              /\ taken.off < lens[taken.i]
          /\ taken.e = 0 \/ taken.i >= Len(lens) + 1
      BY <2>1 DEF TakeInv
    <3>2. taken.e # 0 => taken.i > Len(lens)
      BY <1>1, <3>1
    <3>3. taken.e \in Int
      BY <3>1, LoopTypeOK
    <3> QED BY <3>1, <3>2, <3>3, ReachedIsInVector
  <2>3. /\ skipped.e = e - start /\ start <= VecLen
    BY <1>1, <1>4, <1>7
  <2>4. /\ skipped.e < 0 => taken.e < 0
        /\ skipped.e >= 0 =>
             taken.e >= 0 /\ Reached(taken) = start + (skipped.e - taken.e)
        /\ Len(taken.out) <= Len(lens) /\ Reached(taken) - start \in Nat
        /\ Flat(taken.out) = Behind(start, Reached(taken) - start)
    BY <2>1 DEF TakeInv
  <2>5. CASE taken.e > 0
    <3>1. slice.ok = FALSE
      BY <1>2, <2>5 DEF SlicePanics
    <3>2. skipped.e >= 0 /\ VecLen = start + (skipped.e - taken.e)
      BY <1>4, <2>2, <2>4, <2>5
    <3>3. e >= 0 /\ VecLen < e
      BY <1>1, <2>2, <2>3, <2>5, <3>2
    <3>4. ~(To(e) <= VecLen)
      BY <1>1, <3>3 DEF To
    <3> QED BY <3>1, <3>4 DEF IsExact, start, slice
  <2>6. CASE ~(taken.e > 0)
    <3>1. slice.ok = TRUE /\ slice.out = taken.out
      <4>1. slice = [ok |-> TRUE, out |-> taken.out]
        BY <1>2, <1>7, <2>6
      <4> HIDE DEF slice
      <4> QED BY <4>1
    <3>2. Reached(taken) = To(e)
      <4>1. CASE e < 0
        <5>1. taken.e < 0
          BY <1>1, <2>3, <2>4, <4>1
        <5> QED BY <2>2, <4>1, <5>1 DEF To
      <4>2. CASE e >= 0
        <5>1. skipped.e >= 0
          BY <1>1, <1>7, <2>3, <4>2
        <5>2. taken.e = 0
          BY <2>2, <2>4, <2>6, <5>1
        <5>3. Reached(taken) = start + (e - start)
          BY <1>1, <2>3, <2>4, <5>1, <5>2
        <5> QED BY <1>1, <4>2, <5>3 DEF To
      <4> QED BY <4>1, <4>2
    <3>3. start <= To(e) /\ To(e) <= VecLen
      BY <1>1, <2>2, <2>4, <3>2
    <3>4. Flat(slice.out) = [k \in 1 .. To(e) - start |-> start + k]
      BY <2>4, <3>1, <3>2 DEF Behind
    <3> QED BY <2>4, <3>1, <3>3, <3>4 DEF IsExact, start, slice
  <2> QED BY <2>5, <2>6
<1> QED BY <1>4, <1>5, <1>6, <1>7

(* VecSlice returns the bytes of the range it was asked for, in as many      *)
(* pieces as there is room for, and panics for a range that there is not     *)
(* (vec.go:12-83), for vectors of any pieces and every s and e.              *)
THEOREM EverySliceIsExactCorrect ==
  VecSpec => [](\A s, e \in Int : IsExact(VecSlice(s, e), s, e))
<1>1. VecInit => IsVector
  BY DEF VecInit, IsVector
<1>2. IsVector /\ [AddPiece]_lens => IsVector'
  <2>1. ASSUME IsVector, AddPiece
        PROVE  IsVector'
    <3>1. PICK length \in 0 .. MaxLength : lens' = Append(lens, length)
      BY <2>1 DEF AddPiece
    <3> QED BY <2>1, <3>1, VecAssumption DEF IsVector
  <2>2. ASSUME IsVector, UNCHANGED lens
        PROVE  IsVector'
    BY <2>2 DEF IsVector
  <2> QED BY <2>1, <2>2
<1>3. IsVector => \A s, e \in Int : IsExact(VecSlice(s, e), s, e)
  BY EverySliceIsExact
<1> QED BY <1>1, <1>2, <1>3, PTL DEF VecSpec

(* The same for the ranges that the runs try, up to one byte too many.       *)
THEOREM SliceIsExactCorrect == VecSpec => []SliceIsExact
<1>1. (\A s, e \in Int : IsExact(VecSlice(s, e), s, e)) => SliceIsExact
  BY DEF SliceIsExact, Starts
<1> QED BY <1>1, EverySliceIsExactCorrect, PTL

(***************************************************************************)
(* The frames of FLAC.                                                     *)
(***************************************************************************)
Codecs == {"ALAW", "ULAW", "PCM", "PCML"}

(* The bounds of the numbers have names: in the proofs of the steps it does *)
(* not matter what they are.                                                 *)
IsInt32(n) == n \in Int /\ n <= 2147483647

IsUint16(n) == n \in Nat /\ n <= 65535

IsCharacter(n) == n \in Nat /\ n <= 1114111

IsShort(size) == size \in Nat /\ size <= 32752 /\ size % 2 = 0

(* What the encoder goes by, and how the number of the next frame goes with  *)
(* the last one.                                                             *)
FlacInv ==
  /\ encoder \in [codec : Codecs \cup {"none"}, rate : Nat, made : BOOLEAN]
  /\ encoder.codec = "none" => ~encoder.made
  /\ encoder.made => encoder.rate \in DOMAIN Codes
  /\ IsInt32(sampleNumber) /\ frames \in Nat
  /\ frames > 0 =>
       /\ encoder.made
       /\ IsWhole(last) /\ last.number # Replaced =>
            sampleNumber = last.number + last.block
  /\ BlockIsExact /\ NumbersFollow /\ FrameTellsRate

(* A number that is no character is replaced, any other stands for itself.   *)
LEMMA RuneTypeOK ==
  ASSUME NEW n \in Int
  PROVE  /\ Rune(n) \in Nat /\ RuneLen(n) \in 1 .. 4
         /\ Rune(n) # Replaced => Rune(n) = n /\ IsCharacter(n)
BY SMT DEF Rune, RuneLen, Replaced, IsCharacter

LEMMA Uint16TypeOK ==
  ASSUME NEW n \in Int
  PROVE  /\ IsUint16(Uint16(n))
         /\ IsUint16(n) => Uint16(n) = n
<1>1. IsUint16(Uint16(n))
  BY SMT DEF Uint16, IsUint16
<1>2. ASSUME IsUint16(n)
      PROVE  Uint16(n) = n
  BY <1>2, SMT DEF Uint16, IsUint16
<1> QED BY <1>1, <1>2

(* A smaller number is one of sixteen bits as well. *)
LEMMA SmallerIsUint16 ==
  ASSUME NEW n \in Nat, NEW m, IsUint16(m), n <= m
  PROVE  IsUint16(n)
BY SMT DEF IsUint16

(* Up to there the count of the samples does not wrap around. *)
LEMMA CharactersDoNotWrap ==
  ASSUME NEW n, IsCharacter(n), NEW m, IsUint16(m)
  PROVE  n \in Nat /\ Int32(n + m) = n + m
BY SMT DEF IsCharacter, IsUint16, Int32

LEMMA Int32TypeOK ==
  ASSUME NEW n, IsInt32(n), NEW m, IsUint16(m)
  PROVE  IsInt32(Int32(n + m))
BY SMT DEF IsInt32, IsUint16, Int32

(* A chunk that fits is shorter than a uint16 can tell, and is counted as    *)
(* the samples it holds.                                                     *)
LEMMA WhatFits ==
  ASSUME NEW codec \in Codecs, NEW size \in Nat, sampleNumber \in Int,
         ~Panics(codec, size)
  PROVE  /\ Counted(codec, size) = IF codec = "PCM" THEN size \div 2 ELSE size
         /\ IsUint16(Counted(codec, size))
<1>1. IsUint16(Uint16(size)) /\ Uint16(size) \in Nat
  BY Uint16TypeOK DEF IsUint16
<1>2. Uint16(size) \div 2 \in Nat /\ Uint16(size) \div 2 <= Uint16(size)
  BY <1>1
<1>3. IsUint16(Counted(codec, size)) /\ Counted(codec, size) \in Nat
  BY <1>1, <1>2, SmallerIsUint16 DEF Counted
<1> DEFINE room == Uint16(2 * Counted(codec, size) + 30)
<1>4. IsUint16(room) /\ room \in Nat
  BY <1>3, Uint16TypeOK DEF IsUint16
<1>5. Bytes(codec, size) \in Nat /\ Bytes(codec, size) >= size
  BY DEF Bytes
<1>6. ~(8 + RuneLen(sampleNumber) + Bytes(codec, size) + 2 > room)
  BY DEF Panics
<1>7. RuneLen(sampleNumber) \in Nat
  BY RuneTypeOK
<1> HIDE DEF room
<1>8. size <= room
  BY <1>4, <1>5, <1>6, <1>7
<1>9. Uint16(size) = size
  BY <1>4, <1>8, SmallerIsUint16, Uint16TypeOK
<1> QED BY <1>3, <1>9 DEF Counted

(* Chunks of whole samples that are short enough fit. *)
LEMMA ChunksFit ==
  ASSUME NEW codec \in Codecs \cup {"none"}, NEW size, IsShort(size),
         sampleNumber \in Int
  PROVE  ~Panics(codec, size)
<1>1. RuneLen(sampleNumber) \in 1 .. 4
  BY RuneTypeOK
<1>2. size \in Nat /\ size % 2 = 0 /\ IsUint16(size) /\ IsUint16(2 * size + 30)
  BY SMT DEF IsShort, IsUint16
<1>3. Uint16(size) = size
  BY <1>2, Uint16TypeOK
<1> DEFINE c == Counted(codec, size)
<1>4. /\ c \in Nat /\ c <= size
      /\ Bytes(codec, size) <= 2 * c /\ Bytes(codec, size) \in Nat
  BY <1>2, <1>3 DEF Counted, Bytes
<1> HIDE DEF c
<1>5. 2 * c + 30 \in Nat /\ 2 * c + 30 <= 2 * size + 30
  BY <1>2, <1>4
<1>6. Uint16(2 * c + 30) = 2 * c + 30
  BY <1>2, <1>5, SmallerIsUint16, Uint16TypeOK
<1> QED BY <1>1, <1>2, <1>4, <1>6 DEF Panics, c

(* A frame is numbered by the samples before it, and holds as many as it     *)
(* says.                                                                     *)
LEMMA EncodeKeepsFlac ==
  ASSUME NEW size \in Nat, FlacInv, Encode(size)
  PROVE  FlacInv'
<1> DEFINE codec == encoder.codec
           samples == Counted(codec, size)
<1>1. encoder.made /\ codec \in Codecs /\ encoder.rate \in DOMAIN Codes
      /\ encoder' = encoder
  BY DEF Encode, FlacInv
<1>2. CASE Panics(codec, size)
  BY <1>2 DEF Encode, FlacInv, BlockIsExact, NumbersFollow, FrameTellsRate,
              IsWhole
<1>3. CASE ~Panics(codec, size)
  <2>1. /\ frames' = frames + 1
        /\ sampleNumber' = Int32(sampleNumber + samples)
        /\ before' = last
        /\ last' = [number |-> Rune(sampleNumber),
                    block |-> Uint16(samples - 1) + 1,
                    bytes |-> Bytes(codec, size),
                    code |-> Codes[encoder.rate]]
    BY <1>3 DEF Encode
  <2>2. /\ samples \in Nat /\ IsUint16(samples)
        /\ samples = IF codec = "PCM" THEN size \div 2 ELSE size
        /\ Bytes(codec, size) = IF codec \in {"ALAW", "ULAW"} THEN 2 * size
                                                              ELSE size
    <3>1. sampleNumber \in Int
      BY DEF FlacInv, IsInt32
    <3>2. /\ samples = IF codec = "PCM" THEN size \div 2 ELSE size
          /\ IsUint16(samples)
      BY <1>1, <1>3, <3>1, WhatFits
    <3>3. samples \in Nat
      BY <3>2 DEF IsUint16
    <3> QED BY <3>2, <3>3 DEF Bytes
  <2>3. sampleNumber \in Int /\ IsInt32(sampleNumber) /\ frames \in Nat
    BY DEF FlacInv, IsInt32
  <2>4. Rune(sampleNumber) # Replaced =>
          Rune(sampleNumber) = sampleNumber /\ IsCharacter(sampleNumber)
    BY <2>3, RuneTypeOK
  <2>5. samples > 0 => Uint16(samples - 1) + 1 = samples
    <3> HIDE DEF samples
    <3>1. SUFFICES ASSUME samples > 0
                   PROVE  Uint16(samples - 1) = samples - 1
      BY <2>2
    <3>2. samples - 1 \in Nat /\ samples - 1 <= samples
      BY <2>2, <3>1
    <3> QED BY <2>2, <3>2, SmallerIsUint16, Uint16TypeOK
  <2>6. /\ last'.number = Rune(sampleNumber)
        /\ last'.block = Uint16(samples - 1) + 1
        /\ last'.bytes = Bytes(codec, size)
        /\ last'.code = Codes[encoder.rate]
    BY <2>1
  <2> HIDE DEF codec, samples
  <2>7. IsInt32(sampleNumber')
    BY <2>1, <2>2, <2>3, Int32TypeOK
  <2>8. IsCharacter(sampleNumber) => sampleNumber' = sampleNumber + samples
    BY <2>1, <2>2, CharactersDoNotWrap
  <2>9. IsWhole(last') =>
          /\ last'.block = samples
          /\ codec # "PCML" => last'.bytes = 2 * samples
    <3> SUFFICES ASSUME IsWhole(last')
                 PROVE  /\ last'.block = samples
                        /\ codec # "PCML" => last'.bytes = 2 * samples
      OBVIOUS
    <3>1. Bytes(codec, size) >= 2 /\ Bytes(codec, size) % 2 = 0
      BY <2>6 DEF IsWhole
    <3>2. samples > 0 /\ (codec # "PCML" => Bytes(codec, size) = 2 * samples)
      BY <1>1, <2>2, <3>1 DEF Codecs
    <3> QED BY <2>5, <2>6, <3>2
  <2>10. IsWhole(last') /\ last'.number # Replaced =>
           sampleNumber' = last'.number + last'.block
    BY <2>4, <2>6, <2>8, <2>9
  <2>11. NumbersFollow'
    <3> SUFFICES ASSUME frames' > 1, IsWhole(last), last.number # Replaced,
                        last'.number # Replaced
                 PROVE  last'.number = last.number + last.block
      BY <2>1 DEF NumbersFollow, IsWhole
    <3>1. frames > 0
      BY <2>1, <2>3
    <3> QED BY <2>4, <2>6, <3>1 DEF FlacInv
  <2>12. IsWhole(last)' = IsWhole(last') /\ IsWhole(before)' = IsWhole(before')
    BY DEF IsWhole
  <2>13. frames' \in Nat /\ encoder.made /\ FrameTellsRate'
    BY <1>1, <2>1, <2>3, <2>6 DEF FrameTellsRate
  <2>14. BlockIsExact'
    BY <1>1, <2>9, <2>12 DEF BlockIsExact, codec
  <2> QED BY <1>1, <2>7, <2>10, <2>11, <2>12, <2>13, <2>14 DEF FlacInv
<1> QED BY <1>2, <1>3

LEMMA FlacKept ==
  ASSUME FlacInv, [FlacNext]_fvars
  PROVE  FlacInv'
<1>1. CASE \E codec \in Codecs, rate \in Clocks : FLACEncoder(codec, rate)
  <2>1. PICK codec \in Codecs, rate \in Clocks : FLACEncoder(codec, rate)
    BY <1>1
  <2> DEFINE made == rate \in DOMAIN Codes
  <2>2. /\ encoder' = [codec |-> codec, rate |-> rate, made |-> made]
        /\ UNCHANGED <<sampleNumber, frames, before, last, panicked>>
    BY <2>1 DEF FLACEncoder
  <2>3. rate \in Nat /\ codec # "none" /\ codec \in Codecs \cup {"none"}
    BY FlacAssumption DEF Codecs
  <2>4. made \in BOOLEAN /\ (made => rate \in DOMAIN Codes)
    OBVIOUS
  <2>5. frames = 0
    BY <2>1 DEF FLACEncoder, FlacInv
  <2> HIDE DEF made
  <2>6. /\ encoder' \in
             [codec : Codecs \cup {"none"}, rate : Nat, made : BOOLEAN]
        /\ encoder'.codec # "none"
        /\ encoder'.made => encoder'.rate \in DOMAIN Codes
    BY <2>2, <2>3, <2>4
  <2> QED BY <2>2, <2>5, <2>6
          DEF FlacInv, BlockIsExact, NumbersFollow, FrameTellsRate
<1>2. CASE \E size \in ChunkSizes : Encode(size)
  BY <1>2, FlacAssumption, EncodeKeepsFlac
<1>3. CASE UNCHANGED fvars
  BY <1>3 DEF fvars, FlacInv, BlockIsExact, NumbersFollow, FrameTellsRate,
              IsWhole
<1> QED BY <1>1, <1>2, <1>3 DEF FlacNext, Codecs

(* The rate of the header of the stream is in twenty bits, behind 18 bytes.  *)
LEMMA HeaderIsRead ==
  ASSUME NEW rate \in DOMAIN Codes
  PROVE  HeaderFields(FLACHeader(TRUE, rate))
           = [rate |-> rate, channels |-> 1, sampleBits |-> 16]
<1> DEFINE h == FLACHeader(TRUE, rate)
<1>1. /\ h[19] = (rate \div 4096) % 256 /\ h[20] = (rate \div 16) % 256
      /\ h[21] = (rate * 16) % 256 /\ h[22] = 240
  BY DEF FLACHeader, Zeros
<1>2. rate \in {8000, 16000, 22050, 24000, 32000, 44100, 48000, 96000}
  BY DEF Codes, CodeTable
<1>3. /\ 4096 * ((rate \div 4096) % 256) + 16 * ((rate \div 16) % 256)
           + (((rate * 16) % 256) \div 16) = rate
      /\ (((rate * 16) % 256) \div 2) % 8 = 0
      /\ ((rate * 16) % 256) % 2 = 0
  BY <1>2
<1> HIDE DEF h
<1>4. HeaderFields(h) = [rate |-> rate, channels |-> 1, sampleBits |-> 16]
  BY <1>1, <1>3 DEF HeaderFields
<1> QED BY <1>4 DEF h

(* Frames announce the samples they hold and are numbered by those before    *)
(* them, for any sequence of chunks.                                         *)
THEOREM FramesAreNumberedCorrect == FlacSpec => []FramesAreNumbered
<1>1. FlacInit => FlacInv
  <2>1. IsInt32(0)
    BY SMT DEF IsInt32
  <2> QED BY <2>1
          DEF FlacInit, FlacInv, BlockIsExact, NumbersFollow, FrameTellsRate
<1>2. FlacInv /\ [FlacNext]_fvars => FlacInv'
  BY FlacKept
<1>3. FlacInv => FramesAreNumbered
  <2> SUFFICES ASSUME FlacInv
               PROVE  FramesAreNumbered
    OBVIOUS
  <2>1. ShortChunksFit
    <3>1. sampleNumber \in Int /\ encoder.codec \in Codecs \cup {"none"}
      BY DEF FlacInv, IsInt32
    <3>2. \A size \in ChunkSizes :
            size <= 32752 /\ size % 2 = 0 => IsShort(size)
      BY FlacAssumption, SMT DEF IsShort
    <3> QED BY <3>1, <3>2, ChunksFit DEF ShortChunksFit
  <2>2. HeaderTellsRate
    BY HeaderIsRead DEF FlacInv, HeaderTellsRate
  <2> QED BY <2>1, <2>2 DEF FramesAreNumbered, FlacInv
<1> QED BY <1>1, <1>2, <1>3, PTL DEF FlacSpec

(***************************************************************************)
(* Frames.  The planes of every frame lie within their arrays, no two in   *)
(* one array, and are alike.                                               *)
(***************************************************************************)
Byte == Nat \X Nat

Plane == [array : Nat, offset : Nat, length : Nat]

Frame == [samples : Nat, planes : Seq(Plane)]

(* How many planes a frame has. *)
Width(f) == IF IsPlanar(f.sample) THEN f.channels ELSE 1

IsPlane(plane, mem) ==
  /\ plane.array \in 1 .. Len(mem)
  /\ plane.offset + plane.length <= Len(mem[plane.array])

Alike(p, q, mem) ==
  /\ p.offset = q.offset /\ p.length = q.length
  /\ Len(mem[p.array]) = Len(mem[q.array])

IsFrame(frame, mem, f) ==
  /\ Len(frame.planes) = Width(f)
  /\ \A i \in 1 .. Width(f) :
       /\ IsPlane(frame.planes[i], mem)
       /\ frame.samples * BytesPerSample(f.sample) <= frame.planes[i].length
       /\ \A j \in 1 .. Width(f) : Alike(frame.planes[i], frame.planes[j], mem)

(* No array holds planes of two channels.                                    *)
Apart(frame, other) ==
  \A i \in 1 .. Len(frame.planes), j \in 1 .. Len(other.planes) :
    frame.planes[i].array = other.planes[j].array => i = j

FramesInv ==
  /\ arrays \in Seq(Seq(Byte)) /\ views \in Seq(Frame)
  /\ views # <<>> => format \in Formats
  /\ \A n \in 1 .. Len(views) : IsFrame(views[n], arrays, format)
  /\ \A m, n \in 1 .. Len(views) : Apart(views[m], views[n])

Seen(plane, mem) ==
  SubSeq(mem[plane.array], plane.offset + 1, plane.offset + plane.length)

(* AudioFrame.BytesPerSample is not 0 for the formats there are.             *)
LEMMA SizeIs ==
  ASSUME NEW sample \in SampleFormats
  PROVE  BytesPerSample(sample) \in {1, 2, 4, 8}
BY DEF SampleFormats, BytesPerSample

(* A stream has planes, and its samples have bytes.                          *)
LEMMA FormatIs ==
  ASSUME NEW f \in Formats
  PROVE  /\ BytesPerSample(f.sample) \in Nat \ {0}
         /\ Width(f) \in Nat \ {0} /\ f.channels \in Nat \ {0}
<1>1. f.sample \in SampleFormats /\ f.channels \in Nat \ {0}
  BY FramesAssumption
<1>2. BytesPerSample(f.sample) \in {1, 2, 4, 8}
  BY <1>1, SizeIs
<1> QED BY <1>1, <1>2 DEF Width

(* A part of a sequence. *)
LEMMA PartIs ==
  ASSUME NEW S, NEW a \in Seq(S), NEW o \in Nat, NEW l \in Nat,
         o + l <= Len(a)
  PROVE  /\ SubSeq(a, o + 1, o + l) \in Seq(S)
         /\ Len(SubSeq(a, o + 1, o + l)) = l
         /\ \A k \in 1 .. l : SubSeq(a, o + 1, o + l)[k] = a[o + k]
<1>1. \A k \in (o + 1) .. (o + l) : a[k] \in S
  BY ElementOfSeq
<1>2. o + 1 \in Int /\ o + l \in Int
  OBVIOUS
<1> DEFINE part == SubSeq(a, o + 1, o + l)
<1>3. /\ part \in Seq(S)
      /\ Len(part) = IF o + 1 <= o + l THEN (o + l) - (o + 1) + 1 ELSE 0
      /\ \A k \in 1 .. (o + l) - (o + 1) + 1 : part[k] = a[(o + 1) + k - 1]
  BY <1>1, <1>2, SubSeqProperties
<1> HIDE DEF part
<1>4. (o + l) - (o + 1) + 1 = l /\ \A k \in 1 .. l : (o + 1) + k - 1 = o + k
  OBVIOUS
<1>5. Len(part) = l
  BY <1>3
<1>6. \A k \in 1 .. l : part[k] = a[o + k]
  BY <1>3, <1>4
<1> QED BY <1>3, <1>5, <1>6 DEF part

(* Sequences of one length with the same elements are the same.              *)
LEMMA SameSeq ==
  ASSUME NEW S, NEW a \in Seq(S), NEW b \in Seq(S), Len(a) = Len(b),
         \A k \in 1 .. Len(a) : a[k] = b[k]
  PROVE  a = b
BY SeqEqual

(* Two sequences, one behind the other.                                      *)
LEMMA JoinIs ==
  ASSUME NEW S, NEW a \in Seq(S), NEW b \in Seq(S)
  PROVE  /\ a \o b \in Seq(S) /\ Len(a \o b) = Len(a) + Len(b)
         /\ \A k \in 1 .. Len(a) : (a \o b)[k] = a[k]
         /\ \A k \in 1 .. Len(b) : (a \o b)[Len(a) + k] = b[k]
<1> DEFINE ab == a \o b
           la == Len(a)
           lb == Len(b)
<1>1. /\ ab \in Seq(S) /\ Len(ab) = la + lb /\ la \in Nat /\ lb \in Nat
      /\ \A i \in 1 .. la + lb :
           ab[i] = IF i <= la THEN a[i] ELSE b[i - la]
  BY ConcatProperties
<1> HIDE DEF ab, la, lb
<1>2. ASSUME NEW k \in 1 .. la
      PROVE  ab[k] = a[k]
  <2>1. k \in 1 .. la + lb /\ k <= la
    BY <1>1
  <2> QED BY <1>1, <2>1
<1>3. ASSUME NEW k \in 1 .. lb
      PROVE  ab[la + k] = b[k]
  <2>1. la + k \in 1 .. la + lb /\ ~(la + k <= la) /\ (la + k) - la = k
    BY <1>1
  <2> QED BY <1>1, <2>1
<1> QED BY <1>1, <1>2, <1>3 DEF ab, la, lb

(* A slice of a slice is a slice of the array.                               *)
LEMMA PartOfPart ==
  ASSUME NEW S, NEW a \in Seq(S), NEW o \in Nat, NEW l \in Nat,
         o + l <= Len(a), NEW x \in Nat, NEW m \in Nat, x + m <= l
  PROVE  SubSeq(SubSeq(a, o + 1, o + l), x + 1, x + m)
           = SubSeq(a, (o + x) + 1, (o + x) + m)
<1> DEFINE part == SubSeq(a, o + 1, o + l)
           b == SubSeq(part, x + 1, x + m)
           c == SubSeq(a, (o + x) + 1, (o + x) + m)
<1>1. part \in Seq(S) /\ Len(part) = l /\ \A k \in 1 .. l : part[k] = a[o + k]
  BY PartIs
<1> HIDE DEF part
<1>2. /\ b \in Seq(S) /\ Len(b) = m
      /\ \A k \in 1 .. m : b[k] = part[x + k]
  <2>1. x + m <= Len(part)
    BY <1>1
  <2> QED BY <1>1, <2>1, PartIs
<1>3. /\ c \in Seq(S) /\ Len(c) = m
      /\ \A k \in 1 .. m : c[k] = a[(o + x) + k]
  <2> DEFINE y == o + x
  <2>1. y \in Nat /\ y + m <= Len(a)
    BY LenProperties
  <2> HIDE DEF y
  <2> DEFINE d == SubSeq(a, y + 1, y + m)
  <2>2. d \in Seq(S) /\ Len(d) = m /\ \A k \in 1 .. m : d[k] = a[y + k]
    BY <2>1, PartIs
  <2>3. c = d
    BY DEF y
  <2> HIDE DEF c, d
  <2>4. ASSUME NEW k \in 1 .. m
        PROVE  c[k] = a[(o + x) + k]
    BY <2>2, <2>3 DEF y
  <2> QED BY <2>2, <2>3, <2>4
<1> HIDE DEF b, c
<1>4. ASSUME NEW k \in 1 .. m
      PROVE  b[k] = c[k]
  <2>1. x + k \in 1 .. l /\ o + (x + k) = (o + x) + k
    OBVIOUS
  <2>2. b[k] = part[x + k] /\ part[x + k] = a[o + (x + k)]
    BY <1>1, <1>2, <2>1
  <2>3. c[k] = a[(o + x) + k]
    BY <1>3
  <2> QED BY <2>1, <2>2, <2>3
<1>5. b = c
  BY <1>2, <1>3, <1>4, SameSeq
<1> QED BY <1>5 DEF b, c, part

(* A plane is seen as it was if its bytes are as they were. *)
LEMMA SeenSame ==
  ASSUME NEW plane \in Plane, NEW mem \in Seq(Seq(Byte)),
         NEW now \in Seq(Seq(Byte)),
         IsPlane(plane, mem), IsPlane(plane, now),
         \A k \in 1 .. plane.offset + plane.length :
           now[plane.array][k] = mem[plane.array][k]
  PROVE  Seen(plane, now) = Seen(plane, mem)
<1> DEFINE a == mem[plane.array]
           b == now[plane.array]
           o == plane.offset
           l == plane.length
<1>1. /\ a \in Seq(Byte) /\ b \in Seq(Byte) /\ o \in Nat /\ l \in Nat
      /\ o + l <= Len(a) /\ o + l <= Len(b)
      /\ \A k \in 1 .. o + l : b[k] = a[k]
  <2>1. a \in Seq(Byte) /\ b \in Seq(Byte)
    BY ElementOfSeq DEF IsPlane
  <2> QED BY <2>1 DEF IsPlane, Plane
<1>2. Seen(plane, now) = SubSeq(b, o + 1, o + l)
      /\ Seen(plane, mem) = SubSeq(a, o + 1, o + l)
  BY DEF Seen
<1> HIDE DEF a, b, o, l
<1> DEFINE p == SubSeq(a, o + 1, o + l)
           q == SubSeq(b, o + 1, o + l)
<1>3. p \in Seq(Byte) /\ Len(p) = l /\ \A k \in 1 .. l : p[k] = a[o + k]
  BY <1>1, PartIs
<1>4. q \in Seq(Byte) /\ Len(q) = l /\ \A k \in 1 .. l : q[k] = b[o + k]
  BY <1>1, PartIs
<1> HIDE DEF p, q
<1>5. ASSUME NEW k \in 1 .. l
      PROVE  p[k] = q[k]
  <2>1. o + k \in 1 .. o + l
    BY <1>1
  <2> QED BY <1>1, <1>3, <1>4, <2>1
<1>6. p = q
  BY <1>3, <1>4, <1>5, SameSeq
<1> QED BY <1>2, <1>6 DEF p, q

(***************************************************************************)
(* The steps.                                                              *)
(***************************************************************************)
(* A frame stays one when memory grows and no array changes its length.      *)
LEMMA FrameStays ==
  ASSUME NEW frame \in Frame, NEW mem, NEW now, NEW f \in Formats,
         IsFrame(frame, mem, f), Len(mem) \in Nat, Len(now) \in Nat,
         Len(mem) <= Len(now),
         \A a \in 1 .. Len(mem) : Len(now[a]) = Len(mem[a])
  PROVE  IsFrame(frame, now, f)
<1>1. \A i \in 1 .. Width(f) :
        /\ frame.planes[i].array \in 1 .. Len(mem)
        /\ frame.planes[i].array \in 1 .. Len(now)
        /\ Len(now[frame.planes[i].array]) = Len(mem[frame.planes[i].array])
  BY DEF IsFrame, IsPlane
<1> QED BY <1>1 DEF IsFrame, IsPlane, Alike

(* A new frame, in memory that has grown and in which every array is as long *)
(* as it was.                                                                *)
LEMMA StepKeeps ==
  ASSUME FramesInv, NEW frame \in Frame,
         arrays' \in Seq(Seq(Byte)), Len(arrays) <= Len(arrays'),
         \A a \in 1 .. Len(arrays) : Len(arrays'[a]) = Len(arrays[a]),
         format' \in Formats, views # <<>> => format' = format,
         views' = Append(views, frame),
         IsFrame(frame, arrays', format'), Apart(frame, frame),
         \A n \in 1 .. Len(views) : Apart(frame, views[n])
  PROVE  FramesInv'
<1> DEFINE len == Len(views)
<1>1. /\ views' \in Seq(Frame) /\ len \in Nat /\ Len(views') = len + 1
      /\ views'[len + 1] = frame
      /\ \A n \in 1 .. len : views'[n] = views[n] /\ views[n] \in Frame
  BY DEF FramesInv
<1>2. Len(arrays) \in Nat /\ Len(arrays') \in Nat
  BY DEF FramesInv
<1>3. ASSUME NEW n \in 1 .. len
      PROVE  IsFrame(views'[n], arrays', format')
  <2>1. views # <<>>
    BY <1>1
  <2>2. IsFrame(views[n], arrays, format') /\ views[n] \in Frame
    BY <1>1, <2>1 DEF FramesInv
  <2>3. IsFrame(views[n], arrays', format')
    BY <1>2, <2>2, FrameStays
  <2> QED BY <1>1, <2>3
<1>4. \A n \in 1 .. len + 1 : IsFrame(views'[n], arrays', format')
  <2> HIDE DEF len
  <2>1. ASSUME NEW n \in 1 .. len + 1
        PROVE  n \in 1 .. len \/ n = len + 1
    BY <1>1
  <2> QED BY <1>1, <1>3, <2>1
<1>5. \A n \in 1 .. len : Apart(views[n], frame)
  BY DEF Apart
<1>6. \A m, n \in 1 .. len : Apart(views[m], views[n])
  BY DEF FramesInv
<1>7. ASSUME NEW m \in 1 .. len + 1, NEW n \in 1 .. len + 1
      PROVE  Apart(views'[m], views'[n])
  <2> HIDE DEF len
  <2>1. /\ m \in 1 .. len \/ m = len + 1
        /\ n \in 1 .. len \/ n = len + 1
    BY <1>1
  <2>2. \A k \in 1 .. len : Apart(frame, views[k])
    BY DEF len
  <2> QED BY <1>1, <1>5, <1>6, <2>1, <2>2
<1>8. \A m, n \in 1 .. len + 1 : Apart(views'[m], views'[n])
  BY <1>7
<1> HIDE DEF len
<1> QED BY <1>1, <1>4, <1>8 DEF FramesInv

(* Every frame there was is seen as it was when its bytes are as they were.  *)
LEMMA DataStays ==
  ASSUME FramesInv, FramesInv', NEW n \in 1 .. Len(views),
         n \in 1 .. Len(views'), views'[n] = views[n],
         \A i \in 1 .. Len(views[n].planes) :
           LET plane == views[n].planes[i]
           IN  \A k \in 1 .. plane.offset + plane.length :
                 arrays'[plane.array][k] = arrays[plane.array][k]
  PROVE  Data(views[n])' = Data(views[n])
<1> DEFINE planes == views[n].planes
<1>1. /\ planes \in Seq(Plane) /\ Len(planes) = Width(format)
      /\ \A i \in 1 .. Len(planes) : IsPlane(planes[i], arrays)
      /\ arrays \in Seq(Seq(Byte)) /\ arrays' \in Seq(Seq(Byte))
  <2>1. views[n] \in Frame /\ IsFrame(views[n], arrays, format)
    BY DEF FramesInv
  <2>2. planes \in Seq(Plane)
    BY <2>1 DEF Frame
  <2>3. /\ Len(planes) = Width(format)
        /\ \A i \in 1 .. Len(planes) : IsPlane(planes[i], arrays)
    BY <2>1 DEF IsFrame
  <2>4. arrays \in Seq(Seq(Byte)) /\ arrays' \in Seq(Seq(Byte))
    BY DEF FramesInv
  <2> QED BY <2>2, <2>3, <2>4
<1>2. \A i \in 1 .. Len(planes) : IsPlane(planes[i], arrays')
  BY DEF FramesInv, IsFrame
<1>3. ASSUME NEW i \in 1 .. Len(planes)
      PROVE  Seen(planes[i], arrays') = Seen(planes[i], arrays)
  <2> DEFINE plane == planes[i]
  <2>1. plane \in Plane /\ IsPlane(plane, arrays) /\ IsPlane(plane, arrays')
    BY <1>1, <1>2, ElementOfSeq
  <2>2. \A k \in 1 .. plane.offset + plane.length :
          arrays'[plane.array][k] = arrays[plane.array][k]
    OBVIOUS
  <2> HIDE DEF plane
  <2>3. Seen(plane, arrays') = Seen(plane, arrays)
    BY <1>1, <2>1, <2>2, SeenSame
  <2> QED BY <2>3 DEF plane
<1>4. DOMAIN planes = 1 .. Len(planes)
  BY <1>1
<1>5. Data(views[n]) = [i \in 1 .. Len(planes) |-> Seen(planes[i], arrays)]
  BY <1>4 DEF Data, View, Seen
<1>6. Data(views[n])' = [i \in 1 .. Len(planes) |-> Seen(planes[i], arrays')]
  BY <1>4 DEF Data, View, Seen
<1> HIDE DEF planes
<1> QED BY <1>3, <1>5, <1>6

(* New arrays behind the ones there are.                                     *)
LEMMA HoldKeeps ==
  ASSUME FramesInv, NEW contents \in Seq(Seq(Byte)), NEW spare \in Nat,
         NEW samples \in Nat, Hold(contents, spare, samples),
         format' \in Formats, views # <<>> => format' = format,
         Len(contents) = Width(format'),
         \A i, j \in 1 .. Len(contents) : Len(contents[i]) = Len(contents[j]),
         \A i \in 1 .. Len(contents) :
           samples * BytesPerSample(format'.sample) <= Len(contents[i])
  PROVE  /\ FramesInv' /\ Len(views') = Len(views) + 1
         /\ \A n \in 1 .. Len(views) : Data(views[n])' = Data(views[n])
         /\ Data(views[Len(views)])' = contents
<1> DEFINE len == Len(contents)
           all == Len(arrays)
           pad == [n \in 1 .. spare |-> <<0, 0>>]
           new == [i \in 1 .. len |-> contents[i] \o pad]
           planes == [i \in 1 .. len |->
                        [array |-> all + i, offset |-> 0,
                         length |-> Len(contents[i])]]
           frame == [samples |-> samples, planes |-> planes]
<1>1. /\ len \in Nat /\ all \in Nat /\ arrays \in Seq(Seq(Byte))
      /\ DOMAIN contents = 1 .. len
      /\ \A i \in 1 .. len : contents[i] \in Seq(Byte)
  BY DEF FramesInv
<1>2. arrays' = arrays \o new /\ views' = Append(views, frame)
  BY <1>1 DEF Hold
<1>3. pad \in Seq(Byte) /\ Len(pad) = spare
  <2>1. \A n \in 1 .. spare : <<0, 0>> \in Byte
    BY DEF Byte
  <2> QED BY <2>1
<1> HIDE DEF pad
<1>4. ASSUME NEW i \in 1 .. len
      PROVE  /\ contents[i] \o pad \in Seq(Byte)
             /\ Len(contents[i] \o pad) = Len(contents[i]) + spare
             /\ \A k \in 1 .. Len(contents[i]) :
                  (contents[i] \o pad)[k] = contents[i][k]
  <2>1. contents[i] \in Seq(Byte)
    BY <1>1
  <2> QED BY <1>3, <2>1, JoinIs
<1>5. new \in Seq(Seq(Byte)) /\ Len(new) = len
  <2>1. \A i \in 1 .. len : contents[i] \o pad \in Seq(Byte)
    BY <1>4
  <2> HIDE DEF len
  <2> QED BY <1>1, <2>1
<1>6. \A i \in 1 .. len : new[i] = contents[i] \o pad
  OBVIOUS
<1> HIDE DEF new
<1>7. /\ arrays' \in Seq(Seq(Byte)) /\ Len(arrays') = all + len
      /\ \A a \in 1 .. all : arrays'[a] = arrays[a]
      /\ \A i \in 1 .. len : arrays'[all + i] = contents[i] \o pad
  <2> DEFINE ab == arrays \o new
  <2>1. /\ ab \in Seq(Seq(Byte)) /\ Len(ab) = Len(arrays) + Len(new)
        /\ \A a \in 1 .. Len(arrays) : ab[a] = arrays[a]
        /\ \A i \in 1 .. Len(new) : ab[Len(arrays) + i] = new[i]
    <3>1. arrays \in Seq(Seq(Byte)) /\ new \in Seq(Seq(Byte))
      BY <1>1, <1>5
    <3> QED BY <3>1, JoinIs
  <2>2. arrays' = ab
    BY <1>2
  <2> HIDE DEF ab
  <2> QED BY <1>5, <1>6, <2>1, <2>2
<1>8. /\ planes \in Seq(Plane) /\ Len(planes) = len
      /\ \A i \in 1 .. len : /\ planes[i].array = all + i
                             /\ planes[i].offset = 0
                             /\ planes[i].length = Len(contents[i])
  <2>1. \A i \in 1 .. len : planes[i] \in Plane
    <3> TAKE i \in 1 .. len
    <3>1. all + i \in Nat /\ Len(contents[i]) \in Nat /\ 0 \in Nat
      BY <1>1
    <3> QED BY <3>1 DEF Plane
  <2>2. planes \in [1 .. len -> Plane]
    BY <2>1
  <2>3. len \in Nat
    BY <1>1
  <2>4. \A i \in 1 .. len : /\ planes[i].array = all + i
                           /\ planes[i].offset = 0
                           /\ planes[i].length = Len(contents[i])
    OBVIOUS
  <2> HIDE DEF planes, len
  <2>5. planes \in Seq(Plane) /\ Len(planes) = len
    BY <2>2, <2>3
  <2> QED BY <2>4, <2>5
<1> HIDE DEF planes
<1>9. frame \in Frame /\ frame.samples = samples /\ frame.planes = planes
  BY <1>8 DEF Frame
<1> HIDE DEF frame
<1>10. IsFrame(frame, arrays', format')
  <2>1. ASSUME NEW i \in 1 .. len
        PROVE  IsPlane(planes[i], arrays')
    <3>1. all + i \in 1 .. all + len
      BY <1>1
    <3>2. Len(arrays'[all + i]) = Len(contents[i]) + spare
      BY <1>4, <1>7
    <3>3. Len(contents[i]) \in Nat
      BY <1>1
    <3>4. 0 + Len(contents[i]) <= Len(contents[i]) + spare
      BY <3>3
    <3> QED BY <1>7, <1>8, <3>1, <3>2, <3>4 DEF IsPlane
  <2>2. ASSUME NEW i \in 1 .. len, NEW j \in 1 .. len
        PROVE  Alike(planes[i], planes[j], arrays')
    <3>1. Len(contents[i]) = Len(contents[j])
      OBVIOUS
    <3>2. Len(arrays'[all + i]) = Len(contents[i]) + spare
      BY <1>4, <1>7
    <3>3. Len(arrays'[all + j]) = Len(contents[j]) + spare
      BY <1>4, <1>7
    <3> QED BY <1>8, <3>1, <3>2, <3>3 DEF Alike
  <2> QED BY <1>8, <1>9, <2>1, <2>2 DEF IsFrame
<1>11. Apart(frame, frame)
  <2>1. \A i, j \in 1 .. len : all + i = all + j => i = j
    BY <1>1
  <2> QED BY <1>8, <1>9, <2>1 DEF Apart
<1>12. ASSUME NEW n \in 1 .. Len(views)
       PROVE  Apart(frame, views[n])
  <2>1. IsFrame(views[n], arrays, format)
    BY DEF FramesInv
  <2>2. \A j \in 1 .. Len(views[n].planes) :
          views[n].planes[j].array \in 1 .. all
    BY <2>1 DEF IsFrame, IsPlane
  <2>3. \A i \in 1 .. len : all + i \notin 1 .. all
    BY <1>1
  <2> QED BY <1>8, <1>9, <2>2, <2>3 DEF Apart
<1>13. FramesInv'
  <2>1. Len(arrays) <= Len(arrays')
    BY <1>1, <1>7
  <2>2. \A a \in 1 .. Len(arrays) : Len(arrays'[a]) = Len(arrays[a])
    BY <1>7
  <2> QED BY <1>2, <1>7, <1>9, <1>10, <1>11, <1>12, <2>1, <2>2, StepKeeps
<1>14. /\ Len(views) \in Nat /\ Len(views') = Len(views) + 1
       /\ views'[Len(views) + 1] = frame
       /\ \A n \in 1 .. Len(views) : views'[n] = views[n]
  BY <1>2 DEF FramesInv
<1>15. ASSUME NEW n \in 1 .. Len(views)
       PROVE  Data(views[n])' = Data(views[n])
  <2>1. IsFrame(views[n], arrays, format)
    BY DEF FramesInv
  <2>2. \A i \in 1 .. Len(views[n].planes) :
          views[n].planes[i].array \in 1 .. all
    BY <2>1 DEF IsFrame, IsPlane
  <2>3. n \in 1 .. Len(views') /\ views'[n] = views[n]
    BY <1>14
  <2> QED BY <1>7, <1>13, <2>2, <2>3, DataStays
<1>16. Data(views[Len(views)])' = contents
  <2>1. Data(views[Len(views)])'
          = [i \in 1 .. len |-> Seen(planes[i], arrays')]
    <3>1. DOMAIN planes = 1 .. len
      BY <1>1, <1>8
    <3>2. views'[Len(views')].planes = planes
      BY <1>9, <1>14
    <3> QED BY <3>1, <3>2 DEF Data, View, Seen
  <2>2. ASSUME NEW i \in 1 .. len
        PROVE  Seen(planes[i], arrays') = contents[i]
    <3> DEFINE c == contents[i]
               a == contents[i] \o pad
               part == SubSeq(a, 0 + 1, 0 + Len(c))
    <3>1. Seen(planes[i], arrays') = part
      BY <1>7, <1>8 DEF Seen
    <3>2. /\ c \in Seq(Byte) /\ a \in Seq(Byte) /\ Len(c) \in Nat
          /\ 0 + Len(c) <= Len(a) /\ \A k \in 1 .. Len(c) : a[k] = c[k]
      BY <1>1, <1>4
    <3> HIDE DEF c, a
    <3>3. /\ part \in Seq(Byte) /\ Len(part) = Len(c)
          /\ \A k \in 1 .. Len(c) : part[k] = a[0 + k]
      <4> HIDE DEF part
      <4> DEFINE l == Len(c)
      <4>1. l \in Nat /\ 0 \in Nat /\ 0 + l <= Len(a)
        BY <3>2
      <4>2. part = SubSeq(a, 0 + 1, 0 + l)
        BY DEF part
      <4> HIDE DEF l
      <4>3. /\ part \in Seq(Byte) /\ Len(part) = l
            /\ \A k \in 1 .. l : part[k] = a[0 + k]
        BY <3>2, <4>1, <4>2, PartIs
      <4> QED BY <4>3 DEF l
    <3> HIDE DEF part
    <3>4. ASSUME NEW k \in 1 .. Len(c)
          PROVE  part[k] = c[k]
      <4>1. 0 + k = k
        OBVIOUS
      <4>2. part[k] = a[0 + k] /\ a[k] = c[k]
        BY <3>2, <3>3
      <4> QED BY <4>1, <4>2
    <3>5. part = c
      BY <3>2, <3>3, <3>4, SameSeq
    <3> QED BY <3>1, <3>5 DEF c
  <2>3. contents = [i \in 1 .. len |-> contents[i]]
    BY <1>1
  <2> QED BY <2>1, <2>2, <2>3
<1> QED BY <1>13, <1>14, <1>15, <1>16

(* Before the first call there are no frames.                                *)
LEMMA FramesStart == FramesInit => FramesInv
BY DEF FramesInit, FramesInv

(* What the invariant says of a frame. *)
LEMMA FrameIs ==
  ASSUME FramesInv, NEW s \in 1 .. Len(views)
  PROVE  /\ format \in Formats /\ views # <<>>
         /\ views[s] \in Frame /\ views[s].samples \in Nat
         /\ views[s].planes \in Seq(Plane)
         /\ Len(views[s].planes) = Width(format)
         /\ \A i \in 1 .. Width(format) :
              /\ views[s].planes[i] \in Plane
              /\ IsPlane(views[s].planes[i], arrays)
              /\ views[s].samples * BytesPerSample(format.sample)
                   <= views[s].planes[i].length
              /\ \A j \in 1 .. Width(format) :
                   Alike(views[s].planes[i], views[s].planes[j], arrays)
<1>1. views[s] \in Frame /\ views # <<>>
  BY DEF FramesInv
<1>2. format \in Formats /\ IsFrame(views[s], arrays, format)
  BY <1>1 DEF FramesInv
<1>3. views[s].samples \in Nat /\ views[s].planes \in Seq(Plane)
  BY <1>1 DEF Frame
<1>4. Len(views[s].planes) = Width(format)
  BY <1>2 DEF IsFrame
<1>5. \A i \in 1 .. Width(format) : views[s].planes[i] \in Plane
  BY <1>3, <1>4
<1> QED BY <1>1, <1>2, <1>3, <1>4, <1>5 DEF IsFrame

(* AudioFrame.Data has one slice of bytes per plane, as long as the plane.   *)
LEMMA DataIs ==
  ASSUME FramesInv, NEW s \in 1 .. Len(views)
  PROVE  /\ Data(views[s]) =
              [i \in 1 .. Width(format) |-> Seen(views[s].planes[i], arrays)]
         /\ \A i \in 1 .. Width(format) :
              /\ Seen(views[s].planes[i], arrays) \in Seq(Byte)
              /\ Len(Seen(views[s].planes[i], arrays))
                   = views[s].planes[i].length
         /\ DOMAIN views[s].planes = 1 .. Width(format)
<1>1. DOMAIN views[s].planes = 1 .. Width(format)
  BY FrameIs
<1>2. Data(views[s]) =
        [i \in 1 .. Width(format) |-> Seen(views[s].planes[i], arrays)]
  BY <1>1 DEF Data, View, Seen
<1>3. ASSUME NEW i \in 1 .. Width(format)
      PROVE  /\ Seen(views[s].planes[i], arrays) \in Seq(Byte)
             /\ Len(Seen(views[s].planes[i], arrays))
                  = views[s].planes[i].length
  <2> DEFINE plane == views[s].planes[i]
             o == plane.offset
             l == plane.length
             a == arrays[plane.array]
  <2>1. plane \in Plane /\ IsPlane(plane, arrays)
    BY FrameIs
  <2>2. arrays \in Seq(Seq(Byte))
    BY DEF FramesInv
  <2> HIDE DEF plane
  <2>3. /\ a \in Seq(Byte) /\ o \in Nat /\ l \in Nat
        /\ o + l <= Len(a)
    BY <2>1, <2>2 DEF IsPlane, Plane
  <2>4. Seen(plane, arrays) = SubSeq(a, o + 1, o + l)
    BY DEF Seen
  <2> HIDE DEF o, l, a
  <2>5. Seen(plane, arrays) \in Seq(Byte) /\ Len(Seen(plane, arrays)) = l
    BY <2>3, <2>4, PartIs
  <2> QED BY <2>5 DEF plane, l
<1> QED BY <1>1, <1>2, <1>3

(* A decoder's frame is in arrays of its own.                                *)
LEMMA DecodeKeeps ==
  ASSUME FramesInv, NEW f \in Formats, NEW samples \in Decoded,
         NEW spare \in Spare, Decode(f, samples, spare)
  PROVE  FramesInv' /\ SamplesKept
<1> DEFINE w == Width(f)
           bytes == BytesPerSample(f.sample)
           per == f.channels \div w
           size == samples * bytes * per
           contents == [i \in 1 .. w |->
                          [n \in 1 .. size |-> <<Len(arrays) + i, n>>]]
<1>1. /\ w \in Nat \ {0} /\ bytes \in Nat \ {0} /\ f.channels \in Nat \ {0}
      /\ samples \in Nat /\ spare \in Nat /\ Len(arrays) \in Nat
  BY FormatIs, FramesAssumption DEF FramesInv
<1>2. per \in Nat \ {0}
  <2>1. CASE w = 1
    BY <1>1, <2>1
  <2>2. CASE w = f.channels
    <3> DEFINE c == f.channels
    <3>1. c \in Nat \ {0}
      BY <1>1
    <3> HIDE DEF c
    <3>2. c \div c = 1
      BY <3>1
    <3> QED BY <2>2, <3>2 DEF c
  <2> QED BY <2>1, <2>2 DEF Width
<1>3. /\ Hold(contents, spare, samples)
      /\ format' = f /\ call'.op = "Decode"
      /\ views # <<>> => format' = format
  BY DEF Decode, Width, FrameCall
<1> HIDE DEF w, per, bytes
<1>4. size \in Nat /\ samples * bytes <= size
  <2> DEFINE x == samples * bytes
  <2>1. x \in Nat
    BY <1>1
  <2> HIDE DEF x
  <2>2. x * per \in Nat /\ x <= x * per
    BY <1>2, <2>1
  <2> QED BY <2>1, <2>2 DEF x
<1> HIDE DEF size
<1>5. ASSUME NEW i \in 1 .. w
      PROVE  /\ contents[i] \in Seq(Byte)
             /\ Len(contents[i]) = size
  <2>1. Len(arrays) + i \in Nat
    BY <1>1
  <2>2. \A n \in 1 .. size : <<Len(arrays) + i, n>> \in Byte
    BY <1>4, <2>1 DEF Byte
  <2> DEFINE c == [n \in 1 .. size |-> <<Len(arrays) + i, n>>]
  <2>3. contents[i] = c
    OBVIOUS
  <2>4. c \in [1 .. size -> Byte]
    BY <2>2
  <2> HIDE DEF c
  <2>5. c \in Seq(Byte) /\ Len(c) = size
    BY <1>4, <2>4
  <2> QED BY <2>3, <2>5
<1>6. DOMAIN contents = 1 .. w /\ contents \in [1 .. w -> Seq(Byte)]
  BY <1>5
<1> HIDE DEF contents
<1>7. contents \in Seq(Seq(Byte)) /\ Len(contents) = w
  BY <1>1, <1>6
<1>8. /\ FramesInv' /\ Len(views') = Len(views) + 1
      /\ \A n \in 1 .. Len(views) : Data(views[n])' = Data(views[n])
  <2>1. \A i, j \in 1 .. Len(contents) : Len(contents[i]) = Len(contents[j])
    BY <1>5, <1>7
  <2>2. \A i \in 1 .. Len(contents) :
          samples * BytesPerSample(format'.sample) <= Len(contents[i])
    BY <1>3, <1>4, <1>5, <1>7 DEF bytes
  <2>3. Len(contents) = Width(format')
    BY <1>3, <1>7 DEF w
  <2> QED BY <1>1, <1>3, <1>7, <2>1, <2>2, <2>3, HoldKeeps
<1>9. DOMAIN views = 1 .. Len(views)
  BY DEF FramesInv
<1>10. call'.op # "Concat" /\ call'.op # "Slice"
  BY <1>3
<1>11. \A n \in DOMAIN views : Data(views[n])' = Data(views[n])
  BY <1>8, <1>9
<1> QED BY <1>8, <1>10, <1>11 DEF SamplesKept

(* The bytes of a part. *)
LEMMA Products ==
  ASSUME NEW a \in Nat, NEW b \in Nat, NEW n \in Nat, NEW c \in Nat,
         a <= b, b <= n
  PROVE  /\ a * c \in Nat /\ b * c \in Nat /\ (b - a) * c \in Nat
         /\ a * c + (b - a) * c = b * c /\ b * c <= n * c
<1>1. PICK d \in Nat : b = a + d
  BY b - a \in Nat
<1>2. PICK e \in Nat : n = b + e
  BY n - b \in Nat
<1>3. b - a = d
  BY <1>1
<1>4. a * c \in Nat /\ b * c \in Nat /\ d * c \in Nat /\ e * c \in Nat
  OBVIOUS
<1>5. (a + d) * c = a * c + d * c
  OBVIOUS
<1>6. (b + e) * c = b * c + e * c
  OBVIOUS
<1>7. a * c + d * c = b * c
  BY <1>1, <1>5
<1>8. b * c <= n * c
  BY <1>2, <1>4, <1>6
<1> QED BY <1>3, <1>4, <1>7, <1>8

(* AudioFrame.Slice: the samples asked for, in planes that are alike.        *)
LEMMA SliceKeeps ==
  ASSUME FramesInv, NEW s \in DOMAIN views, NEW end \in 0 .. views[s].samples,
         NEW start \in 0 .. end, Slice(s, start, end)
  PROVE  FramesInv' /\ SamplesKept
<1> DEFINE size == BytesPerSample(format.sample)
           w == Width(format)
           old == views[s].planes
           x == start * size
           d == (end - start) * size
           planes == [i \in 1 .. w |->
                        [array |-> old[i].array, offset |-> old[i].offset + x,
                         length |-> d]]
           frame == [samples |-> end - start, planes |-> planes]
<1>1. DOMAIN views = 1 .. Len(views) /\ Len(views) \in Nat
  BY DEF FramesInv
<1>2. s \in 1 .. Len(views) /\ views[s].samples \in Nat /\ views # <<>>
  BY <1>1, FrameIs
<1>3. /\ size \in Nat /\ w \in Nat /\ start \in Nat /\ end \in Nat
      /\ end - start \in Nat /\ format \in Formats
  BY <1>2, FrameIs, FormatIs
<1>4. /\ x \in Nat /\ d \in Nat /\ x + d = end * size
      /\ end * size <= views[s].samples * size
  <2> DEFINE n == views[s].samples
             c == size
  <2>1. n \in Nat /\ c \in Nat /\ start <= end /\ end <= n
    BY <1>2, <1>3
  <2> HIDE DEF n, c
  <2>2. /\ start * c \in Nat /\ (end - start) * c \in Nat
        /\ start * c + (end - start) * c = end * c /\ end * c <= n * c
    BY <1>3, <2>1, Products
  <2> QED BY <2>2 DEF n, c
<1>5. DOMAIN old = 1 .. w
  BY <1>2, DataIs
<1>6. /\ views' = Append(views, frame) /\ arrays' = arrays
      /\ format' = format
      /\ call' = FrameCall("Slice", s, 0, start, end)
  BY <1>5 DEF Slice
<1>7. /\ call'.op = "Slice" /\ call'.s = s /\ call'.start = start
      /\ call'.end = end
  BY <1>6 DEF FrameCall
<1>8. ASSUME NEW i \in 1 .. w
      PROVE  /\ old[i] \in Plane /\ IsPlane(old[i], arrays)
             /\ views[s].samples * size <= old[i].length
             /\ \A j \in 1 .. w : Alike(old[i], old[j], arrays)
  BY <1>2, FrameIs
<1> HIDE DEF x, d, size, w, old
<1>9. ASSUME NEW i \in 1 .. w
      PROVE  /\ planes[i] \in Plane
             /\ planes[i].array = old[i].array
             /\ planes[i].offset = old[i].offset + x
             /\ planes[i].length = d
             /\ x + d <= old[i].length
  <2>1. /\ old[i] \in Plane /\ old[i].offset \in Nat /\ old[i].length \in Nat
        /\ views[s].samples * size <= old[i].length
    BY <1>8 DEF Plane
  <2>3. old[i].offset + x \in Nat
    BY <1>4, <2>1
  <2>4. planes[i] = [array |-> old[i].array, offset |-> old[i].offset + x,
                     length |-> d]
    OBVIOUS
  <2> DEFINE y == end * size
             z == views[s].samples * size
  <2>5. y \in Nat /\ z \in Nat
    BY <1>2, <1>3
  <2>6. x + d = y /\ y <= z /\ z <= old[i].length
    BY <1>4, <2>1
  <2> HIDE DEF y, z, planes
  <2>7. x + d <= old[i].length
    BY <2>1, <2>5, <2>6
  <2> QED BY <1>4, <2>1, <2>3, <2>4, <2>7 DEF Plane
<1>10. planes \in Seq(Plane) /\ Len(planes) = w
  <2>1. planes \in [1 .. w -> Plane]
    BY <1>9
  <2> HIDE DEF planes
  <2> QED BY <1>3, <2>1
<1> HIDE DEF planes
<1>11. frame \in Frame /\ frame.planes = planes
       /\ frame.samples = end - start
  BY <1>3, <1>10 DEF Frame
<1> HIDE DEF frame
<1>12. IsFrame(frame, arrays', format')
  <2>1. ASSUME NEW i \in 1 .. w
        PROVE  /\ IsPlane(planes[i], arrays)
               /\ frame.samples * size <= planes[i].length
    <3>1. /\ old[i].offset \in Nat /\ old[i].length \in Nat
          /\ old[i].array \in 1 .. Len(arrays)
          /\ old[i].offset + old[i].length <= Len(arrays[old[i].array])
      BY <1>8 DEF IsPlane, Plane
    <3>2. arrays[old[i].array] \in Seq(Byte)
      BY <3>1 DEF FramesInv
    <3> DEFINE m == Len(arrays[old[i].array])
    <3>3. m \in Nat /\ old[i].offset + old[i].length <= m
      BY <3>1, <3>2
    <3> HIDE DEF m
    <3>4. (old[i].offset + x) + d <= m
      <4> DEFINE o == old[i].offset
                 l == old[i].length
      <4>1. o \in Nat /\ l \in Nat /\ o + l <= m /\ x + d <= l
        BY <1>9, <3>1, <3>3
      <4>2. x \in Nat /\ d \in Nat
        BY <1>4
      <4> HIDE DEF o, l
      <4>3. (o + x) + d <= m
        BY <3>3, <4>1, <4>2
      <4> QED BY <4>3 DEF o
    <3>5. IsPlane(planes[i], arrays)
      BY <1>9, <3>1, <3>4 DEF IsPlane, m
    <3>6. frame.samples * size = d
      BY <1>11 DEF d
    <3>7. d <= d
      BY <1>4
    <3> QED BY <1>9, <3>5, <3>6, <3>7
  <2>2. ASSUME NEW i \in 1 .. w, NEW j \in 1 .. w
        PROVE  Alike(planes[i], planes[j], arrays)
    <3>1. Alike(old[i], old[j], arrays)
      BY <1>8
    <3> QED BY <1>9, <3>1 DEF Alike
  <2> QED BY <1>6, <1>10, <1>11, <2>1, <2>2 DEF IsFrame, size, w
<1>13. Apart(frame, frame)
       /\ \A n \in 1 .. Len(views) : Apart(frame, views[n])
  <2>1. \A n \in 1 .. Len(views) : Apart(views[s], views[n])
    BY <1>2 DEF FramesInv
  <2>2. Len(views[s].planes) = w /\ Len(planes) = w
    BY <1>2, <1>10, FrameIs DEF w
  <2>3. ASSUME NEW n \in 1 .. Len(views)
        PROVE  Apart(frame, views[n])
    <3>1. SUFFICES ASSUME NEW i \in 1 .. w,
                          NEW j \in 1 .. Len(views[n].planes),
                          planes[i].array = views[n].planes[j].array
                   PROVE  i = j
      BY <1>11, <2>2 DEF Apart
    <3>2. views[s].planes[i].array = views[n].planes[j].array
      BY <1>9, <3>1 DEF old
    <3> QED BY <2>1, <2>2, <3>2 DEF Apart
  <2>4. Apart(frame, frame)
    <3>1. SUFFICES ASSUME NEW i \in 1 .. w, NEW j \in 1 .. w,
                          planes[i].array = planes[j].array
                   PROVE  i = j
      BY <1>11, <2>2 DEF Apart
    <3>2. views[s].planes[i].array = views[s].planes[j].array
      BY <1>9, <3>1 DEF old
    <3> QED BY <1>2, <2>1, <2>2, <3>2 DEF Apart
  <2> QED BY <2>3, <2>4
<1>14. FramesInv'
  <2>1. /\ arrays' \in Seq(Seq(Byte)) /\ Len(arrays) <= Len(arrays')
        /\ \A a \in 1 .. Len(arrays) : Len(arrays'[a]) = Len(arrays[a])
        /\ format' \in Formats
    BY <1>3, <1>6 DEF FramesInv
  <2> QED BY <1>6, <1>11, <1>12, <1>13, <2>1, StepKeeps
<1>15. /\ Len(views') = Len(views) + 1 /\ views'[Len(views')] = frame
       /\ \A n \in 1 .. Len(views) :
            n \in 1 .. Len(views') /\ views'[n] = views[n]
  BY <1>6, <1>11 DEF FramesInv
<1>16. ASSUME NEW n \in DOMAIN views
       PROVE  Data(views[n])' = Data(views[n])
  BY <1>1, <1>6, <1>14, <1>15, DataStays
<1>17. Data(views[Len(views)])' = [i \in 1 .. w |-> Seen(planes[i], arrays)]
  <2>1. DOMAIN planes = 1 .. w
    BY <1>10
  <2> QED BY <1>6, <1>11, <1>15, <2>1 DEF Data, View, Seen
<1>18. ASSUME NEW i \in 1 .. w
       PROVE  Seen(planes[i], arrays)
                = SubSeq(Data(views[s])[i], start * size + 1, end * size)
  <2> DEFINE a == arrays[old[i].array]
             o == old[i].offset
             l == old[i].length
  <2>1. /\ o \in Nat /\ l \in Nat /\ old[i].array \in 1 .. Len(arrays)
        /\ o + l <= Len(a)
    BY <1>8 DEF IsPlane, Plane
  <2>2. a \in Seq(Byte)
    BY <2>1 DEF FramesInv
  <2>3. x + d <= l
    BY <1>9
  <2>4. Data(views[s])[i] = SubSeq(a, o + 1, o + l)
    BY <1>2, DataIs DEF Seen, w, old
  <2>5. Seen(planes[i], arrays) = SubSeq(a, (o + x) + 1, (o + x) + d)
    BY <1>9 DEF Seen
  <2> HIDE DEF a, o, l
  <2>6. SubSeq(SubSeq(a, o + 1, o + l), x + 1, x + d)
          = SubSeq(a, (o + x) + 1, (o + x) + d)
    BY <1>4, <2>1, <2>2, <2>3, PartOfPart
  <2>7. start * size + 1 = x + 1 /\ end * size = x + d
    BY <1>4 DEF x
  <2> QED BY <2>4, <2>5, <2>6, <2>7
<1>19. Data(views[Len(views)])'
         = [i \in DOMAIN old |-> SubSeq(Data(views[s])[i],
                                        start * size + 1, end * size)]
  BY <1>5, <1>17, <1>18
<1>20. call'.op # "Concat"
  BY <1>7
<1> QED BY <1>7, <1>14, <1>16, <1>19, <1>20 DEF SamplesKept, size, old

(***************************************************************************)
(* Concat.                                                                 *)
(***************************************************************************)
(* The first n bytes of two arrays are the same; an array has bytes from a   *)
(* place on.                                                                 *)
SameUpTo(new, a, n) == \A k \in 1 .. n : new[k] = a[k]

HasFrom(new, b, at) == \A k \in 1 .. Len(b) : new[at + k] = b[k]

(* Bytes that are written into an array, from a place on.                    *)
LEMMA WriteIs ==
  ASSUME NEW a \in Seq(Byte), NEW b \in Seq(Byte), NEW at \in Nat,
         at + Len(b) <= Len(a), NEW new,
         new = SubSeq(a, 1, at) \o b \o SubSeq(a, at + Len(b) + 1, Len(a))
  PROVE  /\ new \in Seq(Byte) /\ Len(new) = Len(a)
         /\ SameUpTo(new, a, at) /\ HasFrom(new, b, at)
<1> DEFINE n == Len(b)
           m == Len(a)
           head == SubSeq(a, 0 + 1, 0 + at)
           tail == SubSeq(a, (at + n) + 1, (at + n) + (m - (at + n)))
           front == head \o b
           r == front \o tail
<1>1. n \in Nat /\ m \in Nat /\ at + n \in Nat /\ m - (at + n) \in Nat
  OBVIOUS
<1>2. /\ head \in Seq(Byte) /\ Len(head) = at
      /\ \A k \in 1 .. at : head[k] = a[0 + k]
  <2>1. 0 + at <= Len(a)
    BY <1>1
  <2> QED BY <2>1, PartIs
<1>3. tail \in Seq(Byte) /\ Len(tail) = m - (at + n)
  <2> DEFINE y == at + n
             z == m - (at + n)
  <2>1. y \in Nat /\ z \in Nat /\ y + z <= m
    BY <1>1
  <2>2. tail = SubSeq(a, y + 1, y + z)
    OBVIOUS
  <2> HIDE DEF y, z, tail
  <2>3. tail \in Seq(Byte) /\ Len(tail) = z
    BY <2>1, <2>2, PartIs
  <2> QED BY <2>3 DEF z
<1>4. SubSeq(a, 1, at) \o b \o SubSeq(a, at + Len(b) + 1, Len(a)) = r
  <2>1. 0 + 1 = 1 /\ 0 + at = at /\ (at + n) + (m - (at + n)) = m
    BY <1>1
  <2> QED BY <2>1
<1> HIDE DEF head, tail
<1>5. /\ front \in Seq(Byte) /\ Len(front) = at + n
      /\ \A k \in 1 .. at : front[k] = head[k]
      /\ \A k \in 1 .. n : front[at + k] = b[k]
  <2>1. /\ front \in Seq(Byte) /\ Len(front) = Len(head) + Len(b)
        /\ \A k \in 1 .. Len(head) : front[k] = head[k]
        /\ \A k \in 1 .. Len(b) : front[Len(head) + k] = b[k]
    <3>1. head \in Seq(Byte) /\ b \in Seq(Byte)
      BY <1>2
    <3> QED BY <3>1, JoinIs
  <2> HIDE DEF front
  <2> QED BY <1>2, <2>1
<1> HIDE DEF front
<1>6. /\ r \in Seq(Byte) /\ Len(r) = (at + n) + (m - (at + n))
      /\ \A k \in 1 .. at + n : r[k] = front[k]
  <2>1. /\ r \in Seq(Byte) /\ Len(r) = Len(front) + Len(tail)
        /\ \A k \in 1 .. Len(front) : r[k] = front[k]
    <3>1. front \in Seq(Byte) /\ tail \in Seq(Byte)
      BY <1>3, <1>5
    <3> QED BY <3>1, JoinIs
  <2> HIDE DEF r
  <2> QED BY <1>3, <1>5, <2>1
<1> HIDE DEF r
<1>7. Len(r) = m
  BY <1>1, <1>6
<1>8. ASSUME NEW k \in 1 .. at
      PROVE  r[k] = a[k]
  <2>1. k \in 1 .. at + n /\ 0 + k = k
    BY <1>1
  <2> QED BY <1>2, <1>5, <1>6, <2>1
<1>9. ASSUME NEW k \in 1 .. n
      PROVE  r[at + k] = b[k]
  <2>1. at + k \in 1 .. at + n
    BY <1>1
  <2> QED BY <1>5, <1>6, <2>1
<1>10. SameUpTo(r, a, at)
  BY <1>8 DEF SameUpTo
<1>11. HasFrom(r, b, at)
  BY <1>9 DEF HasFrom
<1> QED BY <1>4, <1>6, <1>7, <1>10, <1>11

(* b was written into the array a at the end of the part that begins behind  *)
(* o.                                                                        *)
Wrote(r, a, b, o, at) ==
  /\ a \in Seq(Byte) /\ b \in Seq(Byte) /\ r \in Seq(Byte)
  /\ o \in Nat /\ at \in Nat /\ o <= at /\ Len(r) = Len(a)
  /\ at + Len(b) <= Len(a) /\ SameUpTo(r, a, at) /\ HasFrom(r, b, at)

Grown(r, a, b, o, at) ==
  SubSeq(r, o + 1, at + Len(b)) = SubSeq(a, o + 1, at) \o b

(* What is seen of the array when the part is longer by what was written.    *)
LEMMA GrownIs ==
  ASSUME NEW r, NEW a, NEW b, NEW o, NEW at, Wrote(r, a, b, o, at)
  PROVE  Grown(r, a, b, o, at)
<1> USE DEF Wrote, Grown
<1> DEFINE l == at - o
           n == Len(b)
           m == l + n
           new == SubSeq(r, o + 1, o + m)
           old == SubSeq(a, o + 1, o + l)
           both == old \o b
<1>1. /\ l \in Nat /\ n \in Nat /\ m \in Nat /\ o + l = at
      /\ o + m = at + n /\ o + m <= Len(r) /\ o + l <= Len(a)
  OBVIOUS
<1> HIDE DEF l
<1>2. old \in Seq(Byte) /\ Len(old) = l /\ \A k \in 1 .. l : old[k] = a[o + k]
  BY <1>1, PartIs
<1> HIDE DEF old, n
<1>3. new \in Seq(Byte) /\ Len(new) = m /\ \A k \in 1 .. m : new[k] = r[o + k]
  <2> HIDE DEF m
  <2> QED BY <1>1, PartIs
<1> HIDE DEF new
<1>4. /\ both \in Seq(Byte) /\ Len(both) = l + n
      /\ \A k \in 1 .. l : both[k] = old[k]
      /\ \A k \in 1 .. n : both[l + k] = b[k]
  <2>1. /\ both \in Seq(Byte) /\ Len(both) = Len(old) + Len(b)
        /\ \A k \in 1 .. Len(old) : both[k] = old[k]
        /\ \A k \in 1 .. Len(b) : both[Len(old) + k] = b[k]
    <3>1. old \in Seq(Byte) /\ b \in Seq(Byte)
      BY <1>2
    <3> QED BY <3>1, JoinIs
  <2> HIDE DEF both
  <2> QED BY <1>2, <2>1 DEF n
<1> HIDE DEF both
<1>5. ASSUME NEW k \in 1 .. m
      PROVE  new[k] = both[k]
  <2>1. new[k] = r[o + k]
    BY <1>3
  <2>2. CASE k <= l
    <3>1. k \in 1 .. l /\ o + k \in 1 .. at
      BY <1>1, <2>2
    <3>2. r[o + k] = a[o + k]
      BY <3>1 DEF SameUpTo
    <3> QED BY <1>2, <1>4, <2>1, <3>1, <3>2
  <2>3. CASE ~(k <= l)
    <3> DEFINE j == k - l
    <3>1. j \in 1 .. n /\ o + k = at + j /\ k = l + j
      BY <1>1, <2>3
    <3> HIDE DEF j
    <3>2. r[at + j] = b[j]
      BY <3>1 DEF n, HasFrom
    <3>3. both[l + j] = b[j]
      BY <1>4, <3>1
    <3> QED BY <2>1, <3>1, <3>2, <3>3
  <2> QED BY <2>2, <2>3
<1>6. new = both
  BY <1>3, <1>4, <1>5, SameSeq
<1> QED BY <1>1, <1>6 DEF new, both, old, n

(* The samples of both frames. *)
LEMMA TwoProducts ==
  ASSUME NEW a \in Nat, NEW b \in Nat, NEW c \in Nat, NEW x \in Nat,
         NEW y \in Nat, a * c <= x, b * c <= y
  PROVE  (a + b) * c <= x + y
<1>1. (a + b) * c = a * c + b * c /\ a * c \in Nat /\ b * c \in Nat
  OBVIOUS
<1> QED BY <1>1

(* AudioFrame.Concat without room behind the first frame.                    *)
LEMMA HoldBoth ==
  ASSUME FramesInv, NEW s \in 1 .. Len(views), NEW in \in 1 .. Len(views),
         NEW spare \in Nat, format' = format,
         Hold([i \in DOMAIN views[s].planes |->
                 Data(views[s])[i] \o Data(views[in])[i]],
              spare, views[s].samples + views[in].samples)
  PROVE  /\ FramesInv'
         /\ \A n \in 1 .. Len(views) : Data(views[n])' = Data(views[n])
         /\ Data(views[Len(views)])'
              = [i \in DOMAIN views[s].planes |->
                   Data(views[s])[i] \o Data(views[in])[i]]
<1> DEFINE w == Width(format)
           size == BytesPerSample(format.sample)
           head(i) == Seen(views[s].planes[i], arrays)
           tail(i) == Seen(views[in].planes[i], arrays)
           contents == [i \in 1 .. w |-> head(i) \o tail(i)]
           samples == views[s].samples + views[in].samples
<1>1. /\ DOMAIN views[s].planes = 1 .. w /\ w \in Nat /\ size \in Nat
      /\ format \in Formats
      /\ views[s].samples \in Nat /\ views[in].samples \in Nat
  BY FrameIs, DataIs, FormatIs
<1>2. [i \in DOMAIN views[s].planes |->
         Data(views[s])[i] \o Data(views[in])[i]] = contents
  <2>1. \A i \in 1 .. w : /\ Data(views[s])[i] = head(i)
                           /\ Data(views[in])[i] = tail(i)
    BY DataIs
  <2> HIDE DEF head, tail, w
  <2> QED BY <1>1, <2>1
<1>3. ASSUME NEW i \in 1 .. w
      PROVE  /\ head(i) \in Seq(Byte) /\ tail(i) \in Seq(Byte)
             /\ Len(head(i)) = views[s].planes[i].length
             /\ Len(tail(i)) = views[in].planes[i].length
             /\ contents[i] \in Seq(Byte)
             /\ Len(contents[i]) = Len(head(i)) + Len(tail(i))
  <2>1. /\ head(i) \in Seq(Byte) /\ tail(i) \in Seq(Byte)
        /\ Len(head(i)) = views[s].planes[i].length
        /\ Len(tail(i)) = views[in].planes[i].length
    BY DataIs
  <2>2. contents[i] = head(i) \o tail(i)
    OBVIOUS
  <2> DEFINE h == head(i)
             g == tail(i)
             c == h \o g
  <2> HIDE DEF h, g
  <2>3. h \in Seq(Byte) /\ g \in Seq(Byte)
    BY <2>1 DEF h, g
  <2>4. c \in Seq(Byte) /\ Len(c) = Len(h) + Len(g)
    BY <2>3, JoinIs
  <2> HIDE DEF c
  <2>5. contents[i] = c
    BY <2>2 DEF c, h, g
  <2> HIDE DEF contents
  <2> QED BY <2>1, <2>4, <2>5 DEF h, g
<1>4. contents \in [1 .. w -> Seq(Byte)]
  BY <1>3
<1> HIDE DEF head, tail, contents, w
<1>5. contents \in Seq(Seq(Byte)) /\ Len(contents) = w
  BY <1>1, <1>4
<1>6. ASSUME NEW i \in 1 .. w, NEW j \in 1 .. w
      PROVE  Len(contents[i]) = Len(contents[j])
  <2>1. /\ views[s].planes[i].length = views[s].planes[j].length
        /\ views[in].planes[i].length = views[in].planes[j].length
    BY FrameIs DEF Alike, w
  <2> QED BY <1>3, <2>1
<1>7. ASSUME NEW i \in 1 .. w
      PROVE  samples * size <= Len(contents[i])
  <2> DEFINE a == views[s].samples
             b == views[in].samples
             x == views[s].planes[i].length
             y == views[in].planes[i].length
             c == size
  <2>1. a \in Nat /\ b \in Nat /\ a * c <= x /\ b * c <= y /\ c \in Nat
    BY <1>1, FrameIs DEF w
  <2>2. x \in Nat /\ y \in Nat
    BY <1>3
  <2>3. Len(contents[i]) = x + y
    BY <1>3
  <2> HIDE DEF a, b, c, x, y
  <2>4. (a + b) * c <= x + y
    BY <2>1, <2>2, TwoProducts
  <2> QED BY <2>3, <2>4 DEF a, b, c
<1>8. samples \in Nat
  BY <1>1
<1>9. Hold(contents, spare, samples)
  BY <1>2
<1> HIDE DEF samples
<1>10. /\ FramesInv'
       /\ \A n \in 1 .. Len(views) : Data(views[n])' = Data(views[n])
       /\ Data(views[Len(views)])' = contents
  <2>1. /\ format' \in Formats /\ (views # <<>> => format' = format)
        /\ Len(contents) = Width(format')
    BY <1>1, <1>5 DEF w
  <2>2. \A i, j \in 1 .. Len(contents) : Len(contents[i]) = Len(contents[j])
    BY <1>5, <1>6
  <2>3. \A i \in 1 .. Len(contents) :
          samples * BytesPerSample(format'.sample) <= Len(contents[i])
    BY <1>5, <1>7
  <2> QED BY <1>5, <1>8, <1>9, <2>1, <2>2, <2>3, HoldKeeps
<1> QED BY <1>2, <1>10

(* What append writes into the array of a plane.                             *)
LEMMA AppendedIs ==
  ASSUME FramesInv, NEW s \in 1 .. Len(views), NEW in \in 1 .. Len(views),
         NEW i \in 1 .. Width(format),
         Fits(views[s].planes[i], views[in].planes[i])
  PROVE  LET plane == views[s].planes[i]
             a == arrays[plane.array]
             r == Appended(views[s], views[in], i)
             at == plane.offset + plane.length
         IN  /\ r \in Seq(Byte) /\ Len(r) = Len(a)
             /\ SameUpTo(r, a, at)
             /\ SubSeq(r, plane.offset + 1,
                       plane.offset
                         + (plane.length + views[in].planes[i].length))
                  = Data(views[s])[i] \o Data(views[in])[i]
<1> DEFINE plane == views[s].planes[i]
           a == arrays[plane.array]
           b == Seen(views[in].planes[i], arrays)
           o == plane.offset
           l == plane.length
           at == o + l
           r == SubSeq(a, 1, at) \o b \o SubSeq(a, at + Len(b) + 1, Len(a))
<1>1. plane \in Plane /\ IsPlane(plane, arrays)
  BY FrameIs
<1>2. a \in Seq(Byte) /\ o \in Nat /\ l \in Nat /\ at \in Nat
  <2>1. arrays \in Seq(Seq(Byte)) /\ plane.array \in 1 .. Len(arrays)
    BY <1>1 DEF IsPlane, FramesInv
  <2> HIDE DEF plane
  <2> QED BY <1>1, <2>1 DEF Plane
<1>3. b \in Seq(Byte) /\ Len(b) = views[in].planes[i].length
  BY DataIs
<1>4. /\ Data(views[s])[i] = SubSeq(a, o + 1, o + l)
      /\ Data(views[in])[i] = b
  BY DataIs DEF Seen
<1>5. at + Len(b) <= Len(a)
  BY <1>3 DEF Fits
<1>6. Appended(views[s], views[in], i) = r
  BY DEF Appended, View, Seen
<1> HIDE DEF plane, a, b, o, l, at
<1>7. /\ r \in Seq(Byte) /\ Len(r) = Len(a)
      /\ SameUpTo(r, a, at) /\ HasFrom(r, b, at)
  <2>1. /\ a \in Seq(Byte) /\ b \in Seq(Byte) /\ at \in Nat
        /\ at + Len(b) <= Len(a)
    BY <1>2, <1>3, <1>5
  <2>2. r = SubSeq(a, 1, at) \o b \o SubSeq(a, at + Len(b) + 1, Len(a))
    OBVIOUS
  <2> HIDE DEF r
  <2> QED BY <2>1, <2>2, WriteIs
<1> HIDE DEF r
<1>8. SubSeq(r, o + 1, o + (l + Len(b))) = SubSeq(a, o + 1, o + l) \o b
  <2>1. /\ o <= at /\ at = o + l /\ Len(b) \in Nat
        /\ o + (l + Len(b)) = at + Len(b)
    BY <1>2, <1>3 DEF at
  <2>2. b \in Seq(Byte)
    BY <1>3
  <2>3. Wrote(r, a, b, o, at)
    BY <1>2, <1>5, <1>7, <2>1, <2>2 DEF Wrote
  <2>4. Grown(r, a, b, o, at)
    BY <2>3, GrownIs
  <2> QED BY <2>1, <2>4 DEF Grown
<1> QED BY <1>3, <1>4, <1>6, <1>7, <1>8 DEF plane, a, o, l, at

(* AudioFrame.Concat with room: written behind the first frame.              *)
LEMMA AppendKeeps ==
  ASSUME FramesInv, NEW s \in 1 .. Len(views), NEW in \in 1 .. Len(views),
         format' = format, AppendInPlace(views[s], views[in]),
         \A i \in 1 .. Width(format) :
           Fits(views[s].planes[i], views[in].planes[i])
  PROVE  /\ FramesInv'
         /\ Data(views[Len(views)])'
              = [i \in DOMAIN views[s].planes |->
                   Data(views[s])[i] \o Data(views[in])[i]]
         /\ \A n \in 1 .. Len(views) :
              Data(views[n])' # Data(views[n]) => IsBehind(views[n], views[s])
<1> DEFINE w == Width(format)
           size == BytesPerSample(format.sample)
           old == views[s].planes
           more == views[in].planes
           length(i) == old[i].length + more[i].length
           planes == [i \in 1 .. w |-> [old[i] EXCEPT !.length = length(i)]]
           samples == views[s].samples + views[in].samples
           frame == [samples |-> samples, planes |-> planes]
           holders(a) == {i \in 1 .. w : old[i].array = a}
           new(i) == Appended(views[s], views[in], i)
<1>1. /\ DOMAIN old = 1 .. w /\ Len(old) = w /\ w \in Nat /\ size \in Nat
      /\ format \in Formats /\ samples \in Nat
      /\ views[s].samples \in Nat /\ views[in].samples \in Nat
  BY FrameIs, DataIs, FormatIs
<1>2. /\ views' = Append(views, frame)
      /\ arrays' = [a \in DOMAIN arrays |->
                      IF holders(a) = {} THEN arrays[a]
                      ELSE new(CHOOSE i \in holders(a) : TRUE)]
  BY <1>1 DEF AppendInPlace, Longer
<1>3. /\ arrays \in Seq(Seq(Byte)) /\ DOMAIN arrays = 1 .. Len(arrays)
      /\ Len(arrays) \in Nat
  BY DEF FramesInv
<1>4. ASSUME NEW i \in 1 .. w
      PROVE  /\ old[i].array \in 1 .. Len(arrays)
             /\ old[i].offset \in Nat /\ old[i].length \in Nat
             /\ more[i].length \in Nat /\ length(i) \in Nat
             /\ old[i] \in Plane /\ Fits(old[i], more[i])
             /\ holders(old[i].array) = {i}
  <2>1. old[i] \in Plane /\ IsPlane(old[i], arrays) /\ more[i] \in Plane
    BY FrameIs
  <2>2. \A j \in 1 .. w : old[j].array = old[i].array => j = i
    BY <1>1 DEF FramesInv, Apart
  <2>3. holders(old[i].array) = {i}
    <3> HIDE DEF old, w
    <3> QED BY <2>2
  <2>4. /\ old[i].array \in 1 .. Len(arrays)
        /\ old[i].offset \in Nat /\ old[i].length \in Nat
        /\ more[i].length \in Nat
    BY <2>1 DEF IsPlane, Plane
  <2>5. length(i) \in Nat
    <3> DEFINE x == old[i].length
               y == more[i].length
    <3>1. x \in Nat /\ y \in Nat
      BY <2>4
    <3> HIDE DEF x, y
    <3>2. x + y \in Nat
      BY <3>1
    <3> QED BY <3>2 DEF x, y
  <2>6. Fits(old[i], more[i])
    OBVIOUS
  <2> QED BY <2>1, <2>3, <2>4, <2>5, <2>6
<1>5. ASSUME NEW i \in 1 .. w
      PROVE  arrays'[old[i].array] = new(i)
  <2>1. (CHOOSE j \in holders(old[i].array) : TRUE) = i
    <3> HIDE DEF holders
    <3> QED BY <1>4
  <2>2. holders(old[i].array) # {}
    BY <1>4
  <2> HIDE DEF holders, new, old
  <2> QED BY <1>2, <1>3, <1>4, <2>1, <2>2
<1>6. ASSUME NEW a \in 1 .. Len(arrays)
      PROVE  holders(a) = {} => arrays'[a] = arrays[a]
  <2> HIDE DEF holders, new
  <2> QED BY <1>2, <1>3
<1> HIDE DEF new, holders
<1>7. ASSUME NEW i \in 1 .. w
      PROVE  /\ new(i) \in Seq(Byte)
             /\ Len(new(i)) = Len(arrays[old[i].array])
             /\ SameUpTo(new(i), arrays[old[i].array],
                         old[i].offset + old[i].length)
             /\ SubSeq(new(i), old[i].offset + 1, old[i].offset + length(i))
                  = Data(views[s])[i] \o Data(views[in])[i]
  <2>1. Fits(old[i], more[i])
    BY <1>4
  <2> QED BY <2>1, AppendedIs DEF new
<1>8. ASSUME NEW a \in 1 .. Len(arrays)
      PROVE  arrays'[a] \in Seq(Byte) /\ Len(arrays'[a]) = Len(arrays[a])
  <2>1. CASE holders(a) = {}
    <3>1. arrays[a] \in Seq(Byte)
      BY <1>3
    <3> QED BY <1>6, <2>1, <3>1
  <2>2. CASE holders(a) # {}
    <3>1. PICK i \in 1 .. w : old[i].array = a
      BY <2>2 DEF holders
    <3> HIDE DEF old
    <3> QED BY <1>5, <1>7, <3>1
  <2> QED BY <2>1, <2>2
<1>9. arrays' \in Seq(Seq(Byte)) /\ Len(arrays') = Len(arrays)
  <2>1. DOMAIN arrays' = 1 .. Len(arrays)
        /\ arrays' = [a \in 1 .. Len(arrays) |-> arrays'[a]]
    <3> HIDE DEF old
    <3> QED BY <1>2, <1>3
  <2> DEFINE len == Len(arrays)
  <2>2. arrays' \in [1 .. len -> Seq(Byte)] /\ len \in Nat
    BY <1>3, <1>8, <2>1
  <2> HIDE DEF len
  <2>3. arrays' \in Seq(Seq(Byte)) /\ Len(arrays') = len
    BY <2>2
  <2> QED BY <2>3 DEF len
<1>10. ASSUME NEW i \in 1 .. w
       PROVE  /\ planes[i] \in Plane
              /\ planes[i].array = old[i].array
              /\ planes[i].offset = old[i].offset
              /\ planes[i].length = length(i)
  <2>1. planes[i] = [old[i] EXCEPT !.length = length(i)]
    OBVIOUS
  <2>2. old[i] \in Plane /\ length(i) \in Nat
    BY <1>4
  <2> HIDE DEF planes, old, length
  <2> QED BY <2>1, <2>2 DEF Plane
<1>11. planes \in Seq(Plane) /\ Len(planes) = w
  <2>1. planes \in [1 .. w -> Plane]
    BY <1>10
  <2> HIDE DEF planes, w
  <2> QED BY <1>1, <2>1
<1> HIDE DEF planes
<1>12. frame \in Frame /\ frame.planes = planes /\ frame.samples = samples
  BY <1>1, <1>11 DEF Frame
<1> HIDE DEF frame
<1>13. IsFrame(frame, arrays', format')
  <2>1. ASSUME NEW i \in 1 .. w
        PROVE  /\ IsPlane(planes[i], arrays')
               /\ samples * size <= planes[i].length
    <3>1. old[i].offset + old[i].length + more[i].length
            <= Len(arrays[old[i].array])
      BY <1>4 DEF Fits
    <3>2. Len(arrays'[old[i].array]) = Len(arrays[old[i].array])
      BY <1>4, <1>8
    <3>3. old[i].offset + length(i) <= Len(arrays'[old[i].array])
      <4> DEFINE o == old[i].offset
                 l == old[i].length
                 n == more[i].length
                 m == Len(arrays[old[i].array])
      <4>1. o \in Nat /\ l \in Nat /\ n \in Nat /\ o + l + n <= m
        BY <1>4, <3>1
      <4>2. m \in Nat
        BY <1>3, <1>4
      <4> HIDE DEF o, l, n, m
      <4>3. o + (l + n) <= m
        BY <4>1, <4>2
      <4> QED BY <3>2, <4>3 DEF o, l, n, m
    <3> DEFINE a == views[s].samples
               b == views[in].samples
               x == old[i].length
               y == more[i].length
               c == size
    <3>4. a * c <= x /\ b * c <= y /\ a \in Nat /\ b \in Nat /\ c \in Nat
          /\ x \in Nat /\ y \in Nat
      BY <1>1, <1>4, FrameIs
    <3>5. samples * size = (a + b) * c /\ length(i) = x + y
      OBVIOUS
    <3> HIDE DEF a, b, c, x, y
    <3>6. (a + b) * c <= x + y
      BY <3>4, TwoProducts
    <3>7. IsPlane(planes[i], arrays')
      BY <1>4, <1>9, <1>10, <3>3 DEF IsPlane
    <3> QED BY <1>10, <3>5, <3>6, <3>7
  <2>2. ASSUME NEW i \in 1 .. w, NEW j \in 1 .. w
        PROVE  Alike(planes[i], planes[j], arrays')
    <3>1. Alike(old[i], old[j], arrays) /\ Alike(more[i], more[j], arrays)
      BY FrameIs
    <3>2. /\ Len(arrays'[old[i].array]) = Len(arrays[old[i].array])
          /\ Len(arrays'[old[j].array]) = Len(arrays[old[j].array])
      BY <1>4, <1>8
    <3> QED BY <1>10, <3>1, <3>2 DEF Alike
  <2> HIDE DEF samples
  <2> QED BY <1>11, <1>12, <2>1, <2>2 DEF IsFrame
<1>14. /\ Apart(frame, frame)
       /\ \A n \in 1 .. Len(views) : Apart(frame, views[n])
  <2>1. \A n \in 1 .. Len(views) : Apart(views[s], views[n])
    BY DEF FramesInv
  <2>2. ASSUME NEW n \in 1 .. Len(views)
        PROVE  Apart(frame, views[n])
    <3>1. SUFFICES ASSUME NEW i \in 1 .. w,
                          NEW j \in 1 .. Len(views[n].planes),
                          planes[i].array = views[n].planes[j].array
                   PROVE  i = j
      BY <1>11, <1>12 DEF Apart
    <3>2. old[i].array = views[n].planes[j].array
      BY <1>10, <3>1
    <3> QED BY <1>1, <2>1, <3>2 DEF Apart
  <2>3. Apart(frame, frame)
    <3>1. SUFFICES ASSUME NEW i \in 1 .. w, NEW j \in 1 .. w,
                          planes[i].array = planes[j].array
                   PROVE  i = j
      BY <1>11, <1>12 DEF Apart
    <3>2. old[i].array = old[j].array
      BY <1>10, <3>1
    <3> QED BY <1>1, <2>1, <3>2 DEF Apart
  <2> QED BY <2>2, <2>3
<1>15. FramesInv'
  <2>1. /\ Len(arrays) <= Len(arrays')
        /\ \A a \in 1 .. Len(arrays) : Len(arrays'[a]) = Len(arrays[a])
    BY <1>3, <1>8, <1>9
  <2>2. format' \in Formats /\ (views # <<>> => format' = format)
    BY <1>1
  <2> QED BY <1>2, <1>9, <1>12, <1>13, <1>14, <2>1, <2>2, StepKeeps
<1>16. /\ Len(views') = Len(views) + 1 /\ views'[Len(views')] = frame
       /\ \A n \in 1 .. Len(views) :
            n \in 1 .. Len(views') /\ views'[n] = views[n]
  BY <1>2, <1>12 DEF FramesInv
<1>17. Data(views[Len(views)])'
         = [i \in DOMAIN old |-> Data(views[s])[i] \o Data(views[in])[i]]
  <2>1. Data(views[Len(views)])'
          = [i \in 1 .. w |-> Seen(planes[i], arrays')]
    <3>1. DOMAIN planes = 1 .. w
      BY <1>11
    <3> QED BY <1>12, <1>16, <3>1 DEF Data, View, Seen
  <2>2. ASSUME NEW i \in 1 .. w
        PROVE  Seen(planes[i], arrays')
                 = Data(views[s])[i] \o Data(views[in])[i]
    BY <1>5, <1>7, <1>10 DEF Seen
  <2> HIDE DEF w, old
  <2> QED BY <1>1, <2>1, <2>2
<1>18. ASSUME NEW n \in 1 .. Len(views), ~IsBehind(views[n], views[s])
       PROVE  Data(views[n])' = Data(views[n])
  <2>1. ASSUME NEW i \in 1 .. Len(views[n].planes)
        PROVE  LET plane == views[n].planes[i]
               IN  \A k \in 1 .. plane.offset + plane.length :
                     arrays'[plane.array][k] = arrays[plane.array][k]
    <3> DEFINE plane == views[n].planes[i]
    <3>1. /\ plane.array \in 1 .. Len(arrays)
          /\ plane.offset \in Nat /\ plane.length \in Nat /\ i \in 1 .. w
      BY FrameIs DEF IsPlane, Plane
    <3>2. CASE holders(plane.array) = {}
      BY <1>6, <3>1, <3>2
    <3>3. CASE holders(plane.array) # {}
      <4>1. PICK j \in 1 .. w : old[j].array = plane.array
        BY <3>3 DEF holders
      <4>2. j = i
        BY <1>1, <4>1 DEF FramesInv, Apart
      <4> DEFINE p == old[i]
                 e == plane.offset + plane.length
                 f == p.offset + p.length
      <4>3. ~(e > f) /\ e \in Nat /\ f \in Nat
        <5>1. i \in DOMAIN old /\ old[i].array = plane.array
          BY <1>1, <3>1, <4>1, <4>2
        <5>2. ~(e > f)
          BY <1>18, <5>1 DEF IsBehind
        <5>3. p.offset \in Nat /\ p.length \in Nat
          BY <1>4, <3>1
        <5>4. e \in Nat
          <6> HIDE DEF plane
          <6> QED BY <3>1
        <5>5. f \in Nat
          <6> HIDE DEF p
          <6> QED BY <5>3
        <5> QED BY <5>2, <5>4, <5>5
      <4>4. /\ arrays'[plane.array] = new(i)
            /\ \A k \in 1 .. f : new(i)[k] = arrays[plane.array][k]
        BY <1>5, <1>7, <3>1, <4>1, <4>2 DEF SameUpTo
      <4> HIDE DEF e, f
      <4>5. \A k \in 1 .. e : k \in 1 .. f
        BY <4>3
      <4>6. \A k \in 1 .. e : arrays'[plane.array][k] = arrays[plane.array][k]
        <5> HIDE DEF plane
        <5> QED BY <4>4, <4>5
      <4> QED BY <4>6 DEF e
    <3> QED BY <3>2, <3>3
  <2> QED BY <1>15, <1>16, <2>1, DataStays
<1> QED BY <1>15, <1>17, <1>18

(* AudioFrame.Concat, whether there is room or not.                          *)
LEMMA ConcatKeeps ==
  ASSUME FramesInv, NEW s \in DOMAIN views, NEW in \in DOMAIN views,
         NEW spare \in Spare, Concat(s, in, spare)
  PROVE  FramesInv' /\ SamplesKept
<1>1. /\ DOMAIN views = 1 .. Len(views)
      /\ s \in 1 .. Len(views) /\ in \in 1 .. Len(views)
  BY DEF FramesInv
<1>2. DOMAIN views[s].planes = 1 .. Width(format)
  BY <1>1, DataIs
<1>3. format' = format /\ call' = FrameCall("Concat", s, in, 0, 0)
  BY DEF Concat
<1>4. call'.op = "Concat" /\ call'.s = s /\ call'.in = in
  BY <1>3 DEF FrameCall
<1>5. /\ FramesInv'
      /\ Data(views[Len(views)])'
           = [i \in DOMAIN views[s].planes |->
                Data(views[s])[i] \o Data(views[in])[i]]
      /\ \A n \in 1 .. Len(views) :
           Data(views[n])' # Data(views[n]) => IsBehind(views[n], views[s])
  <2>1. CASE /\ \A i \in DOMAIN views[s].planes :
                  Fits(views[s].planes[i], views[in].planes[i])
             /\ AppendInPlace(views[s], views[in])
    BY <1>1, <1>2, <1>3, <2>1, AppendKeeps
  <2>2. CASE Hold([i \in DOMAIN views[s].planes |->
                     Data(views[s])[i] \o Data(views[in])[i]],
                  spare, views[s].samples + views[in].samples)
    <3>1. spare \in Nat
      BY FramesAssumption
    <3>2. /\ FramesInv'
          /\ \A n \in 1 .. Len(views) : Data(views[n])' = Data(views[n])
          /\ Data(views[Len(views)])'
               = [i \in DOMAIN views[s].planes |->
                    Data(views[s])[i] \o Data(views[in])[i]]
      BY <1>1, <1>3, <2>2, <3>1, HoldBoth
    <3> QED BY <3>2
  <2> QED BY <2>1, <2>2 DEF Concat
<1> QED BY <1>1, <1>4, <1>5 DEF SamplesKept

(* Every call on frames.                                                     *)
LEMMA FramesKeep ==
  ASSUME FramesInv, FramesNext
  PROVE  FramesInv' /\ SamplesKept
<1>1. CASE \E f \in Formats, samples \in Decoded, spare \in Spare :
             Decode(f, samples, spare)
  BY <1>1, DecodeKeeps
<1>2. CASE \E s \in DOMAIN views : \E end \in 0 .. views[s].samples :
             \E start \in 0 .. end : Slice(s, start, end)
  BY <1>2, SliceKeeps
<1>3. CASE \E s, in \in DOMAIN views, spare \in Spare : Concat(s, in, spare)
  BY <1>3, ConcatKeeps
<1> QED BY <1>1, <1>2, <1>3 DEF FramesNext

(* A step that changes nothing.                                              *)
LEMMA FramesStutter ==
  ASSUME FramesInv, UNCHANGED frvars
  PROVE  FramesInv'
<1>1. format' = format /\ arrays' = arrays /\ views' = views
  BY DEF frvars
<1>2. \A n \in 1 .. Len(views') : IsFrame(views'[n], arrays', format')
  BY <1>1 DEF FramesInv
<1>3. \A m, n \in 1 .. Len(views') : Apart(views'[m], views'[n])
  BY <1>1 DEF FramesInv
<1> QED BY <1>1, <1>2, <1>3 DEF FramesInv

(* Frames keep within their arrays, their planes alike and apart.            *)
THEOREM FramesInvCorrect == FramesSpec => []FramesInv
<1>1. FramesInv /\ [FramesNext]_frvars => FramesInv'
  BY FramesKeep, FramesStutter
<1> QED BY <1>1, FramesStart, PTL DEF FramesSpec

(* append finds room behind all planes of a frame or behind none, so that    *)
(* the two cases of Concat are all there are.                                *)
THEOREM PlanesFitAlike ==
  ASSUME FramesInv, NEW s \in DOMAIN views, NEW in \in DOMAIN views,
         NEW i \in DOMAIN views[s].planes, NEW j \in DOMAIN views[s].planes,
         Fits(views[s].planes[i], views[in].planes[i])
  PROVE  Fits(views[s].planes[j], views[in].planes[j])
<1>1. s \in 1 .. Len(views) /\ in \in 1 .. Len(views)
  BY DEF FramesInv
<1>2. i \in 1 .. Width(format) /\ j \in 1 .. Width(format)
  BY <1>1, DataIs
<1>3. /\ Alike(views[s].planes[i], views[s].planes[j], arrays)
      /\ Alike(views[in].planes[i], views[in].planes[j], arrays)
  BY <1>1, <1>2, FrameIs
<1> QED BY <1>3 DEF Alike, Fits

(* AudioFrame.Slice, Concat: the frame of a call has the samples of the      *)
(* frames that it was made of, and of the frames there are only those can    *)
(* change that look at the array behind the end of the first frame of        *)
(* Concat: for every format, numbers of channels and samples, and any room   *)
(* append leaves.                                                            *)
THEOREM FramesKeepSamplesCorrect == FramesSpec => FramesKeepSamples
<1>1. FramesInv /\ [FramesNext]_frvars => [SamplesKept]_frvars
  BY FramesKeep
<1> QED BY <1>1, FramesInvCorrect, PTL DEF FramesSpec, FramesKeepSamples
=============================================================================
