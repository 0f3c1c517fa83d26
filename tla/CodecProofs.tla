---------------------------- MODULE CodecProofs -----------------------------
(***************************************************************************)
(* UnitsSurvive of NaluUnits is an invariant of the units an encoder may   *)
(* produce, for every number of values of a byte and every bound on the    *)
(* bytes that four bytes of length allow; ConfigSurvives of Aac is one for *)
(* every set of configs whose fields fit their widths, and every frame;    *)
(* SdpKeepsCodecs of Sdp is one for every set of media descriptions;       *)
(* CodecDataSurvives of ParameterSets is one for all settings of streams   *)
(* and all sets that a record can hold.                                    *)
(***************************************************************************)
EXTENDS NaluUnits, Aac, Sdp, ParameterSets, Records, InductionProofs,
        SequenceTheorems

(***************************************************************************)
(* A length in four bytes.                                                 *)
(***************************************************************************)
(* What four bytes can say. *)
Longest == Base * Base * Base * Base

(* A length that four bytes can no longer say is a number.                   *)
LEMMA LongestIsNat == Longest \in Nat
<1>1. Base \in Nat /\ Base * Base \in Nat /\ Base * Base * Base \in Nat
  BY BaseAssumption
<1>2. (Base * Base * Base) * Base \in Nat
  BY <1>1
<1> QED BY <1>2 DEF Longest

(* The digits of a number in Base. *)
LEMMA Digits ==
  ASSUME NEW n \in Nat, n < Longest
  PROVE  \E a \in Byte, b \in Byte, c \in Byte, d \in Byte :
           /\ LengthBytes(n) = <<a, b, c, d>>
           /\ n = ((a * Base + b) * Base + c) * Base + d
<1> USE BaseAssumption
<1> DEFINE q1 == n \div Base
           q2 == q1 \div Base
           q3 == q2 \div Base
           d == n % Base
           c == q1 % Base
           b == q2 % Base
           a == q3 % Base
<1>1. q1 \in Nat /\ d \in Byte /\ n = Base * q1 + d
  BY Divided DEF Byte
<1>2. q2 \in Nat /\ c \in Byte /\ q1 = Base * q2 + c
  <2> HIDE DEF q1
  <2> QED BY <1>1, Divided DEF Byte
<1>3. q3 \in Nat /\ b \in Byte /\ q2 = Base * q3 + b
  <2> HIDE DEF q2
  <2> QED BY <1>2, Divided DEF Byte
<1>4. /\ n \div (Base * Base) = q2
      /\ n \div (Base * Base * Base) = q3
  <2> Base \in Nat \ {0}
    OBVIOUS
  <2>1. n \div (Base * Base) = q2
    <3>1. n \div (Base * Base) = (n \div Base) \div Base
      BY DividedTwice
    <3> QED BY <3>1
  <2>2. Base * Base \in Nat \ {0}
    OBVIOUS
  <2>3. n \div ((Base * Base) * Base) = (n \div (Base * Base)) \div Base
    BY <2>2, DividedTwice
  <2> QED BY <2>1, <2>3
<1>5. q3 < Base /\ a = q3
  <2> DEFINE cube == Base * Base * Base
  <2>1. cube \in Nat \ {0} /\ n < cube * Base
    BY DEF Longest
  <2>2. n \div cube < Base
    <3> HIDE DEF cube
    <3> QED BY <2>1, QuotientBelow
  <2>3. q3 < Base
    BY <1>4, <2>2
  <2> HIDE DEF q3
  <2>4. q3 \in 0 .. Base - 1 /\ q3 = Base * 0 + q3
    BY <1>3, <2>3
  <2>5. q3 % Base = q3
    BY <1>3, <2>4, DividedOnce
  <2> QED BY <2>3, <2>5
<1>6. LengthBytes(n) = <<a, b, c, d>>
  BY <1>4 DEF LengthBytes
<1>7. a \in Byte
  BY <1>3, <1>5 DEF Byte
<1> HIDE DEF a, b, c, d, q1, q2, q3
<1>8. n = ((a * Base + b) * Base + c) * Base + d
  <2>1. q1 = (a * Base + b) * Base + c
    <3>1. q2 = a * Base + b
      BY <1>3, <1>5
    <3> QED BY <1>2, <3>1
  <2> QED BY <1>1, <2>1
<1> QED BY <1>1, <1>2, <1>3, <1>6, <1>7, <1>8

(* A length is read as it was written. *)
LEMMA LengthIsRead ==
  ASSUME NEW n \in Nat, n < Longest, NEW w, NEW from \in Nat,
         IsPartAt(LengthBytes(n), w, from)
  PROVE  NaluLength(w, from + 1) = n
<1>1. PICK a \in Byte, b \in Byte, c \in Byte, d \in Byte :
        /\ LengthBytes(n) = <<a, b, c, d>>
        /\ n = ((a * Base + b) * Base + c) * Base + d
  BY Digits
<1>2. Len(<<a, b, c, d>>) = 4
  OBVIOUS
<1>3. \A i \in 1 .. 4 : w[from + i] = <<a, b, c, d>>[i]
  BY <1>1, <1>2 DEF IsPartAt
<1>4. /\ w[from + 1] = a /\ w[from + 2] = b
      /\ w[from + 3] = c /\ w[from + 4] = d
  BY <1>3
<1>5. (from + 1) + 1 = from + 2 /\ (from + 1) + 2 = from + 3
      /\ (from + 1) + 3 = from + 4
  OBVIOUS
<1> QED BY <1>1, <1>4, <1>5 DEF NaluLength

(* Its four bytes are bytes. *)
LEMMA LengthIsBytes ==
  ASSUME NEW n \in Nat, n < Longest
  PROVE  LengthBytes(n) \in Seq(Byte) /\ Len(LengthBytes(n)) = 4
<1>1. PICK a \in Byte, b \in Byte, c \in Byte, d \in Byte :
        LengthBytes(n) = <<a, b, c, d>>
  BY Digits
<1> QED BY <1>1

(***************************************************************************)
(* Units behind heads (start codes or lengths) that are joined.            *)
(***************************************************************************)
(* In w each of the units us is behind its head, from the places o on.       *)
LaidOut(w, heads, us, o) ==
  /\ o \in [1 .. Len(us) + 1 -> Nat \ {0}]
  /\ o[1] = 1 /\ o[Len(us) + 1] = Len(w) + 1
  /\ \A n \in 1 .. Len(us) :
       /\ o[n + 1] = o[n] + Len(heads[n]) + Len(us[n])
       /\ IsPartAt(heads[n], w, o[n] - 1)
       /\ IsPartAt(us[n], w, o[n] - 1 + Len(heads[n]))

(* The frames are heads with units. *)
AreFrames(frames, heads, us) ==
  /\ us \in Seq(Seq(Byte)) /\ heads \in Seq(Seq(Byte))
  /\ Len(heads) = Len(us)
  /\ frames = [n \in 1 .. Len(us) |-> heads[n] \o us[n]]

(* The units, what is put before them and the frames are byte strings.       *)
LEMMA FramesAreBytes ==
  ASSUME NEW us, NEW heads, NEW frames, AreFrames(frames, heads, us)
  PROVE  /\ Len(us) \in Nat /\ Len(frames) = Len(us)
         /\ frames \in Seq(Seq(Byte))
         /\ \A n \in 1 .. Len(us) :
              /\ us[n] \in Seq(Byte) /\ heads[n] \in Seq(Byte)
              /\ frames[n] = heads[n] \o us[n]
              /\ Len(us[n]) \in Nat /\ Len(heads[n]) \in Nat
<1>1. Len(us) \in Nat /\ Len(heads) = Len(us)
  BY DEF AreFrames
<1>2. \A n \in 1 .. Len(us) : us[n] \in Seq(Byte) /\ heads[n] \in Seq(Byte)
  BY <1>1, ElementOfSeq DEF AreFrames
<1> HIDE DEF Byte
<1>3. \A n \in 1 .. Len(us) : heads[n] \o us[n] \in Seq(Byte)
  BY <1>2, ConcatProperties
<1>4. frames \in [1 .. Len(us) -> Seq(Byte)]
  BY <1>3 DEF AreFrames
<1>5. frames \in Seq(Seq(Byte)) /\ Len(frames) = Len(us)
  BY <1>1, <1>4
<1>6. \A n \in 1 .. Len(us) : Len(us[n]) \in Nat /\ Len(heads[n]) \in Nat
  BY <1>2, LenProperties
<1> QED BY <1>1, <1>2, <1>5, <1>6 DEF AreFrames

(* A part of a part is a part. *)
LEMMA PartsOfPart ==
  ASSUME NEW X, NEW s \in Seq(X), NEW t \in Seq(X), NEW w, NEW from \in Nat,
         Len(w) \in Nat, IsPartAt(s \o t, w, from)
  PROVE  IsPartAt(s, w, from) /\ IsPartAt(t, w, from + Len(s))
<1> DEFINE st == s \o t
<1>1. /\ Len(s) \in Nat /\ Len(t) \in Nat /\ Len(st) = Len(s) + Len(t)
      /\ \A i \in 1 .. Len(s) + Len(t) :
           st[i] = IF i <= Len(s) THEN s[i] ELSE t[i - Len(s)]
  BY ConcatProperties, LenProperties
<1>2. IsPartAt(st, w, from)
  OBVIOUS
<1> HIDE DEF st
<1>3. IsPartAt(s, w, from)
  BY <1>1, <1>2 DEF IsPartAt
<1>4. ASSUME NEW i \in 1 .. Len(t)
      PROVE  w[from + Len(s) + i] = t[i]
  <2>1. Len(s) + i \in 1 .. Len(st) /\ ~(Len(s) + i <= Len(s))
        /\ (Len(s) + i) - Len(s) = i
    BY <1>1
  <2>2. w[from + (Len(s) + i)] = st[Len(s) + i]
    BY <1>2, <2>1 DEF IsPartAt
  <2>3. st[Len(s) + i] = t[i]
    BY <1>1, <2>1
  <2>4. from + (Len(s) + i) = from + Len(s) + i
    BY <1>1
  <2> QED BY <2>2, <2>3, <2>4
<1>5. from + Len(s) + Len(t) <= Len(w)
  BY <1>1, <1>2 DEF IsPartAt
<1> QED BY <1>3, <1>4, <1>5 DEF IsPartAt

Starts(frames) ==
  [n \in 1 .. Len(frames) + 1 |-> Len(Joined(frames)[n - 1]) + 1]

(* In the frames joined, every head and unit is at its place.                *)
LEMMA FramesLaidOut ==
  ASSUME NEW us, NEW heads, NEW frames, AreFrames(frames, heads, us)
  PROVE  LaidOut(Joined(frames)[Len(us)], heads, us, Starts(frames))
<1> DEFINE len == Len(us)
           J == Joined(frames)
           o == Starts(frames)
           w == J[len]
<1>1. /\ len \in Nat /\ Len(frames) = len /\ frames \in Seq(Seq(Byte))
      /\ \A n \in 1 .. len :
           /\ us[n] \in Seq(Byte) /\ heads[n] \in Seq(Byte)
           /\ frames[n] = heads[n] \o us[n]
           /\ Len(us[n]) \in Nat /\ Len(heads[n]) \in Nat
  BY FramesAreBytes
<1> HIDE DEF len, Byte
<1>2. J[0] = <<>> /\ \A n \in 0 .. len : J[n] \in Seq(Byte)
  BY <1>1, JoinedSteps
<1>3. \A n \in 0 .. len : Len(J[n]) \in Nat
  <2>1. \A s \in Seq(Byte) : Len(s) \in Nat
    OBVIOUS
  <2> HIDE DEF J
  <2> QED BY <1>2, <2>1
<1>4. \A n \in 1 .. len :
        /\ Len(J[n]) = Len(J[n - 1]) + Len(frames[n])
        /\ IsPartAt(frames[n], w, Len(J[n - 1]))
  BY <1>1, JoinedPart
<1> HIDE DEF J
<1>5. \A n \in 1 .. len + 1 : n - 1 \in 0 .. len /\ o[n] = Len(J[n - 1]) + 1
  BY <1>1 DEF Starts, J
<1>6. o \in [1 .. len + 1 -> Nat \ {0}]
  <2>1. \A n \in 1 .. len + 1 : Len(J[n - 1]) + 1 \in Nat \ {0}
    BY <1>3, <1>5
  <2>2. o = [n \in 1 .. len + 1 |-> Len(J[n - 1]) + 1]
    BY <1>1 DEF Starts, J
  <2> HIDE DEF o
  <2> QED BY <2>1, <2>2
<1> HIDE DEF o
<1>7. o[1] = 1
  <2>1. 1 \in 1 .. len + 1 /\ 1 - 1 = 0
    BY <1>1
  <2> QED BY <1>2, <1>5, <2>1
<1>8. o[len + 1] = Len(w) + 1
  <2>1. len + 1 \in 1 .. len + 1 /\ (len + 1) - 1 = len
    BY <1>1
  <2> QED BY <1>5, <2>1
<1>9. ASSUME NEW n \in 1 .. len
      PROVE  /\ o[n + 1] = o[n] + Len(heads[n]) + Len(us[n])
             /\ IsPartAt(heads[n], w, o[n] - 1)
             /\ IsPartAt(us[n], w, o[n] - 1 + Len(heads[n]))
  <2> DEFINE from == Len(J[n - 1])
             h == heads[n]
             u == us[n]
  <2>1. /\ from \in Nat /\ h \in Seq(Byte) /\ u \in Seq(Byte)
        /\ Len(h) \in Nat /\ Len(u) \in Nat /\ Len(w) \in Nat
    <3>1. n - 1 \in 0 .. len /\ len \in 0 .. len
      BY <1>1
    <3>2. from \in Nat /\ Len(w) \in Nat
      BY <1>3, <3>1
    <3> QED BY <1>1, <3>2
  <2>2. o[n] = from + 1 /\ o[n + 1] = Len(J[n]) + 1
    <3>1. n \in 1 .. len + 1 /\ n + 1 \in 1 .. len + 1 /\ (n + 1) - 1 = n
      BY <1>1
    <3> QED BY <1>5, <3>1
  <2>3. Len(J[n]) = from + Len(h \o u) /\ IsPartAt(h \o u, w, from)
    BY <1>1, <1>4
  <2> HIDE DEF from, h, u, w
  <2>4. Len(h \o u) = Len(h) + Len(u)
    BY <2>1, ConcatProperties
  <2>5. IsPartAt(h, w, from) /\ IsPartAt(u, w, from + Len(h))
    BY <2>1, <2>3, PartsOfPart
  <2>6. o[n] - 1 = from
    BY <2>1, <2>2
  <2>7. o[n + 1] = o[n] + Len(h) + Len(u)
    BY <2>1, <2>2, <2>3, <2>4
  <2> QED BY <2>5, <2>6, <2>7 DEF h, u
<1> QED BY <1>6, <1>7, <1>8, <1>9 DEF LaidOut, len, w, o, J

(***************************************************************************)
(* Induction down, from the last unit to the first.                        *)
(***************************************************************************)
LEMMA InductionDown ==
  ASSUME NEW len \in Nat, NEW S, len \in S,
         \A n \in 1 .. len - 1 : n + 1 \in S => n \in S
  PROVE  \A n \in 1 .. len : n \in S
<1> DEFINE T == {d \in Nat : d < len => len - d \in S}
<1>1. 0 \in T
  OBVIOUS
<1>2. ASSUME NEW d \in 1 .. len, d - 1 \in T
      PROVE  d \in T
  <2>1. SUFFICES ASSUME d < len PROVE len - d \in S
    OBVIOUS
  <2>2. len - (d - 1) = (len - d) + 1 /\ len - d \in 1 .. len - 1
    BY <2>1
  <2>3. len - (d - 1) \in S
    BY <1>2, <2>1
  <2> QED BY <2>2, <2>3
<1>3. \A d \in 0 .. len : d \in T
  <2> HIDE DEF T
  <2> QED BY <1>1, <1>2, InductionUpTo
<1>4. ASSUME NEW n \in 1 .. len
      PROVE  n \in S
  <2>1. len - n \in 0 .. len /\ len - n < len /\ len - (len - n) = n
    OBVIOUS
  <2>2. len - n \in T
    BY <1>3, <2>1
  <2> QED BY <2>1, <2>2
<1> QED BY <1>4

(***************************************************************************)
(* SplitAVCC.                                                              *)
(***************************************************************************)
(* What is at a place of a sequence of bytes that has room for a length. *)
LEMMA PlaceOfLength ==
  ASSUME NEW b \in Seq(Byte), NEW i \in 1 .. Len(b) - 3
  PROVE  /\ Len(b) \in Nat
         /\ After(b, i) \in Nat /\ i + 4 <= After(b, i)
         /\ After(b, i) <= Len(b) + 1 => UnitAt(b, i) \in Seq(Byte)
<1> USE BaseAssumption
<1>1. Len(b) \in Nat
  OBVIOUS
<1>2. \A j \in 1 .. Len(b) : b[j] \in Nat
  BY DEF Byte
<1>3. b[i] \in Nat /\ b[i + 1] \in Nat /\ b[i + 2] \in Nat /\ b[i + 3] \in Nat
  <2>1. /\ i \in 1 .. Len(b) /\ i + 1 \in 1 .. Len(b)
        /\ i + 2 \in 1 .. Len(b) /\ i + 3 \in 1 .. Len(b)
    BY <1>1
  <2> QED BY <1>2, <2>1
<1>4. NaluLength(b, i) \in Nat
  <2>1. b[i] * Base \in Nat
    BY <1>3
  <2> DEFINE x == b[i] * Base + b[i + 1]
             y == x * Base + b[i + 2]
  <2>2. x \in Nat
    BY <1>3, <2>1
  <2>3. NaluLength(b, i) = y * Base + b[i + 3]
    BY DEF NaluLength
  <2> HIDE DEF x
  <2>4. y \in Nat
    BY <1>3, <2>2
  <2> HIDE DEF y
  <2> QED BY <1>3, <2>3, <2>4
<1>5. After(b, i) \in Nat /\ i + 4 <= After(b, i)
  BY <1>4 DEF After
<1>6. ASSUME After(b, i) <= Len(b) + 1
      PROVE  UnitAt(b, i) \in Seq(Byte)
  <2>1. \A j \in i + 4 .. After(b, i) - 1 : b[j] \in Byte
    BY <1>1, <1>5, <1>6
  <2>2. i + 4 \in Int /\ After(b, i) - 1 \in Int
    BY <1>5
  <2> HIDE DEF Byte
  <2> QED BY <2>1, <2>2, SubSeqProperties DEF UnitAt
<1> QED BY <1>1, <1>5, <1>6

(* The units that are split off, and how many bytes are left. *)
SplitResults == [nalus : Seq(Seq(Byte)), left : Nat]

(* What UnitsFrom finds at i, given what it finds at the places behind. *)
UnitsGiven(b, i, from) ==
  IF After(b, i) > Len(b) + 1
  THEN [nalus |-> <<>>, left |-> Len(b) - i - 3]
  ELSE IF After(b, i) > Len(b) - 3
  THEN [nalus |-> <<UnitAt(b, i)>>, left |-> Len(b) + 1 - After(b, i)]
  ELSE [nalus |-> <<UnitAt(b, i)>> \o from[After(b, i)].nalus,
        left |-> from[After(b, i)].left]

(* UnitsFrom satisfies its own equation: what SplitAVCC finds at a place is  *)
(* made of what it finds behind the unit there.                              *)
LEMMA UnitsFromSteps ==
  ASSUME NEW b \in Seq(Byte), Len(b) >= 3
  PROVE  \A i \in 1 .. Len(b) - 3 :
           UnitsFrom(b)[i] = UnitsGiven(b, i, UnitsFrom(b))
<1> DEFINE len == Len(b) - 3
           X == SplitResults
           body == [p \in (1 .. len) \X [1 .. len -> X] |->
                      UnitsGiven(b, p[1], p[2])]
<1>1. len \in Nat /\ Len(b) \in Nat /\ len = Len(b) - 3
  OBVIOUS
<1>2. X # {}
  <2>1. [nalus |-> <<>>, left |-> 0] \in X
    BY DEF SplitResults
  <2> QED BY <2>1
<1>3. \A i \in 1 .. len :
        /\ After(b, i) \in Nat /\ i + 4 <= After(b, i)
        /\ After(b, i) <= Len(b) + 1 => UnitAt(b, i) \in Seq(Byte)
  BY PlaceOfLength
<1> HIDE DEF len
<1>4. ASSUME NEW i \in 1 .. len, NEW g \in [1 .. len -> X]
      PROVE  UnitsGiven(b, i, g) \in X
  <2>1. CASE After(b, i) > Len(b) + 1
    <3>1. Len(b) - i - 3 \in Nat
      BY <1>1
    <3>2. UnitsGiven(b, i, g) = [nalus |-> <<>>, left |-> Len(b) - i - 3]
      BY <2>1 DEF UnitsGiven
    <3> QED BY <3>1, <3>2 DEF SplitResults
  <2>2. CASE After(b, i) <= Len(b) + 1 /\ After(b, i) > Len(b) - 3
    <3> DEFINE left == Len(b) + 1 - After(b, i)
               unit == UnitAt(b, i)
    <3>1. left \in Nat /\ unit \in Seq(Byte)
      BY <1>1, <1>3, <2>2
    <3>2. UnitsGiven(b, i, g) = [nalus |-> <<unit>>, left |-> left]
      BY <1>1, <1>3, <2>2 DEF UnitsGiven
    <3> HIDE DEF left, unit
    <3> QED BY <3>1, <3>2 DEF SplitResults
  <2>3. CASE After(b, i) <= Len(b) - 3
    <3> DEFINE r == g[After(b, i)]
               unit == UnitAt(b, i)
    <3>1. After(b, i) \in 1 .. len /\ unit \in Seq(Byte)
      BY <1>1, <1>3, <2>3
    <3>2. r \in X
      BY <3>1
    <3>3. UnitsGiven(b, i, g) =
            [nalus |-> <<unit>> \o r.nalus, left |-> r.left]
      BY <1>1, <1>3, <2>3 DEF UnitsGiven
    <3> HIDE DEF r, unit
    <3>4. r.nalus \in Seq(Seq(Byte)) /\ r.left \in Nat
      BY <3>2 DEF SplitResults
    <3>5. <<unit>> \o r.nalus \in Seq(Seq(Byte))
      BY <3>1, <3>4
    <3> QED BY <3>3, <3>4, <3>5 DEF SplitResults
  <2> QED BY <1>1, <1>3, <2>1, <2>2, <2>3
<1>5. IsBody(body, X, len)
  BY <1>4 DEF IsBody
<1>6. \A i \in 1 .. len, g \in [1 .. len -> X] :
        body[<<i, g>>] = UnitsGiven(b, i, g)
  OBVIOUS
<1> HIDE DEF body
<1>7. LooksAhead(body, X, len)
  <2>1. ASSUME NEW i \in 1 .. len,
               NEW g \in [1 .. len -> X], NEW h \in [1 .. len -> X],
               \A j \in i + 1 .. len : g[j] = h[j]
        PROVE  body[<<i, g>>] = body[<<i, h>>]
    <3>1. CASE After(b, i) <= Len(b) - 3
      <4>1. After(b, i) \in i + 1 .. len
        BY <1>1, <1>3, <3>1
      <4>2. g[After(b, i)] = h[After(b, i)]
        BY <2>1, <4>1
      <4>3. UnitsGiven(b, i, g) = UnitsGiven(b, i, h)
        BY <4>2 DEF UnitsGiven
      <4> QED BY <1>6, <4>3
    <3>2. CASE After(b, i) > Len(b) - 3
      <4>1. UnitsGiven(b, i, g) = UnitsGiven(b, i, h)
        BY <1>1, <1>3, <3>2 DEF UnitsGiven
      <4> QED BY <1>6, <4>1
    <3> QED BY <1>1, <1>3, <3>1, <3>2
  <2> HIDE DEF X
  <2> QED BY <2>1 DEF LooksAhead
<1>8. PICK f : FollowsBody(f, body, X, len)
  <2> HIDE DEF X
  <2> QED BY <1>1, <1>2, <1>5, <1>7, LaterExists
<1>9. f = [i \in 1 .. Len(b) - 3 |-> UnitsGiven(b, i, f)]
  BY <1>1, <1>6, <1>8 DEF FollowsBody
<1> DEFINE u == CHOOSE g : g = [i \in 1 .. Len(b) - 3 |-> UnitsGiven(b, i, g)]
<1>10. u = [i \in 1 .. Len(b) - 3 |-> UnitsGiven(b, i, u)]
  BY <1>9
<1>11. UnitsFrom(b) = u
  BY DEF UnitsFrom, UnitsGiven
<1> HIDE DEF u
<1> QED BY <1>10, <1>11

(* A part is the subsequence at its place. *)
LEMMA PartIsSub ==
  ASSUME NEW X, NEW s \in Seq(X), NEW w \in Seq(X), NEW from \in Nat,
         IsPartAt(s, w, from)
  PROVE  SubSeq(w, from + 1, from + Len(s)) = s
<1> DEFINE lo == from + 1
           hi == from + Len(s)
           t == SubSeq(w, lo, hi)
<1>1. Len(s) \in Nat /\ Len(w) \in Nat
  OBVIOUS
<1>2. \A j \in lo .. hi : w[j] \in X
  <2>1. hi <= Len(w)
    BY DEF IsPartAt
  <2> QED BY <1>1, <2>1, ElementOfSeq
<1>3. lo \in Int /\ hi \in Int /\ hi - lo + 1 = Len(s)
  BY <1>1
<1>a. lo <= hi \/ Len(s) = 0
  BY <1>1
<1>b. \A i \in 1 .. Len(s) : lo + i - 1 = from + i
  BY <1>1
<1> HIDE DEF lo, hi
<1>4. /\ t \in Seq(X)
      /\ Len(t) = IF lo <= hi THEN hi - lo + 1 ELSE 0
      /\ \A i \in 1 .. hi - lo + 1 : t[i] = w[lo + i - 1]
  BY <1>2, <1>3, SubSeqProperties
<1> HIDE DEF t
<1>6. Len(t) = Len(s)
  <2>1. CASE lo <= hi
    BY <1>3, <1>4, <2>1
  <2>2. CASE ~(lo <= hi)
    BY <1>a, <1>4, <2>2
  <2> QED BY <2>1, <2>2
<1>7. ASSUME NEW i \in 1 .. Len(s)
      PROVE  t[i] = s[i]
  <2>1. t[i] = w[lo + i - 1]
    BY <1>3, <1>4
  <2>2. lo + i - 1 = from + i
    BY <1>b
  <2> QED BY <2>1, <2>2 DEF IsPartAt
<1>8. t = s
  BY <1>4, <1>6, <1>7, SeqEqual
<1> QED BY <1>8 DEF t, lo, hi

(* Units whose lengths four bytes can say. *)
ShortEnough(us) ==
  /\ us \in Seq(Seq(Byte))
  /\ \A n \in 1 .. Len(us) : Len(us[n]) \in 1 .. Longest - 1

Lengths(us) == [n \in 1 .. Len(us) |-> LengthBytes(Len(us[n]))]

(* What is at the places of units behind their lengths. *)
LEMMA PlacesOfLengths ==
  ASSUME NEW w \in Seq(Byte), NEW us, NEW o, ShortEnough(us),
         LaidOut(w, Lengths(us), us, o), NEW n \in 1 .. Len(us)
  PROVE  /\ o[n] \in 1 .. Len(w) - 4
         /\ o[n + 1] \in Nat /\ o[n] + 4 < o[n + 1] /\ o[n + 1] <= Len(w) + 1
         /\ Len(us[n]) \in Nat /\ us[n] \in Seq(Byte)
         /\ After(w, o[n]) = o[n + 1]
         /\ UnitAt(w, o[n]) = us[n]
<1> DEFINE u == us[n]
           head == LengthBytes(Len(u))
<1>1. u \in Seq(Byte) /\ Len(u) \in 1 .. Longest - 1 /\ Len(us) \in Nat
  BY ElementOfSeq DEF ShortEnough
<1>2. Longest \in Nat
  BY LongestIsNat
<1>3. Len(u) \in Nat /\ Len(u) < Longest /\ Len(u) >= 1
  BY <1>1, <1>2
<1>4. head \in Seq(Byte) /\ Len(head) = 4
  BY <1>3, LengthIsBytes
<1>5. Lengths(us)[n] = head
  BY DEF Lengths
<1>6. /\ o[n] \in Nat \ {0} /\ o[n + 1] = o[n] + 4 + Len(u)
      /\ IsPartAt(head, w, o[n] - 1) /\ IsPartAt(u, w, o[n] - 1 + 4)
  <2>1. n \in 1 .. Len(us) + 1
    BY <1>1
  <2>2. /\ o[n + 1] = o[n] + Len(head) + Len(u)
        /\ IsPartAt(head, w, o[n] - 1) /\ IsPartAt(u, w, o[n] - 1 + Len(head))
    BY <1>5 DEF LaidOut
  <2>3. o[n] \in Nat \ {0}
    BY <2>1 DEF LaidOut
  <2> HIDE DEF head
  <2> QED BY <1>4, <2>2, <2>3
<1> HIDE DEF u
<1>7. NaluLength(w, o[n]) = Len(u)
  <2>1. o[n] - 1 \in Nat /\ (o[n] - 1) + 1 = o[n]
    BY <1>6
  <2> QED BY <1>3, <1>6, <2>1, LengthIsRead
<1>8. After(w, o[n]) = o[n + 1]
  BY <1>6, <1>7 DEF After
<1> DEFINE from == o[n] - 1 + 4
<1>9. from \in Nat /\ from + 1 = o[n] + 4 /\ from + Len(u) = o[n + 1] - 1
  <2> DEFINE a == o[n]
             b == o[n + 1]
             l == Len(u)
  <2>1. a \in Nat \ {0} /\ b = a + 4 + l /\ l \in Nat
    BY <1>3, <1>6
  <2> HIDE DEF a, b, l
  <2>2. a - 1 + 4 \in Nat /\ (a - 1 + 4) + 1 = a + 4 /\ (a - 1 + 4) + l = b - 1
    BY <2>1
  <2> QED BY <2>2 DEF a, b, l
<1>10. UnitAt(w, o[n]) = u
  <2>1. SubSeq(w, from + 1, from + Len(u)) = u
    <3> HIDE DEF from, Byte
    <3>1. IsPartAt(u, w, from)
      BY <1>6 DEF from
    <3> QED BY <1>1, <1>9, <3>1, PartIsSub
  <2> QED BY <1>8, <1>9, <2>1 DEF UnitAt
<1>11. from + Len(u) <= Len(w)
  BY <1>6 DEF IsPartAt
<1>12. Len(w) \in Nat
  OBVIOUS
<1> HIDE DEF from
<1>13. /\ o[n] \in 1 .. Len(w) - 4 /\ o[n + 1] \in Nat
       /\ o[n] + 4 < o[n + 1] /\ o[n + 1] <= Len(w) + 1
  <2> DEFINE a == o[n]
             b == o[n + 1]
             l == Len(u)
             size == Len(w)
  <2>1. /\ a \in Nat \ {0} /\ b = a + 4 + l /\ l \in Nat /\ l >= 1
        /\ from + l = b - 1 /\ from + l <= size /\ size \in Nat /\ from \in Nat
    BY <1>3, <1>6, <1>9, <1>11, <1>12
  <2> HIDE DEF a, b, l, size
  <2>2. /\ a \in 1 .. size - 4 /\ b \in Nat /\ a + 4 < b /\ b <= size + 1
    BY <2>1
  <2> QED BY <2>2 DEF a, b, size
<1> QED BY <1>1, <1>3, <1>8, <1>10, <1>13 DEF u

(* Units behind their lengths are split off one by one. *)
LEMMA LengthsAreSplit ==
  ASSUME NEW w \in Seq(Byte), NEW us, NEW o, ShortEnough(us), us # <<>>,
         LaidOut(w, Lengths(us), us, o)
  PROVE  SplitAVCC(w) = [nalus |-> us, left |-> 0]
<1> DEFINE len == Len(us)
           rest(n) == SubSeq(us, n, len)
           S == {n \in 1 .. len :
                   UnitsFrom(w)[o[n]] = [nalus |-> rest(n), left |-> 0]}
<1>1. us \in Seq(Seq(Byte)) /\ len \in Nat /\ len >= 1 /\ Len(w) \in Nat
  BY DEF ShortEnough
<1> HIDE DEF len
<1>2. \A n \in 1 .. len :
        /\ o[n] \in 1 .. Len(w) - 4
        /\ o[n + 1] \in Nat /\ o[n] + 4 < o[n + 1] /\ o[n + 1] <= Len(w) + 1
        /\ After(w, o[n]) = o[n + 1]
        /\ UnitAt(w, o[n]) = us[n]
  BY PlacesOfLengths DEF len
<1>3. \A n \in 1 .. len :
        UnitsFrom(w)[o[n]] = UnitsGiven(w, o[n], UnitsFrom(w))
  <2>1. Len(w) >= 3
    <3>1. 1 \in 1 .. len
      BY <1>1
    <3>2. o[1] \in 1 .. Len(w) - 4
      BY <1>2, <3>1
    <3> QED BY <1>1, <3>2
  <2>2. \A n \in 1 .. len : o[n] \in 1 .. Len(w) - 3
    BY <1>1, <1>2
  <2> QED BY <2>1, <2>2, UnitsFromSteps
<1>4. len \in S
  <2>1. o[len + 1] = Len(w) + 1
    BY DEF LaidOut, len
  <2>2. After(w, o[len]) = Len(w) + 1 /\ UnitAt(w, o[len]) = us[len]
    BY <1>1, <1>2, <2>1
  <2>3. UnitsFrom(w)[o[len]] = [nalus |-> <<us[len]>>, left |-> 0]
    <3>1. ~(Len(w) + 1 > Len(w) + 1) /\ Len(w) + 1 > Len(w) - 3
          /\ Len(w) + 1 - (Len(w) + 1) = 0 /\ len \in 1 .. len
      BY <1>1
    <3> QED BY <1>3, <2>2, <3>1 DEF UnitsGiven
  <2>4. rest(len) = <<us[len]>>
    <3> HIDE DEF Byte
    <3>1. len \in 1 .. Len(us) /\ len \in len .. Len(us)
      BY <1>1 DEF len
    <3>2. rest(len) = <<us[len]>> \o SubSeq(us, len + 1, len)
      BY <1>1, <3>1, SubSeqRecursiveFirst
    <3>3. SubSeq(us, len + 1, len) = <<>>
      <4>1. len + 1 \in Int /\ len \in Int /\ len < len + 1
        BY <1>1
      <4> QED BY <4>1, SubSeqEmpty
    <3>4. us[len] \in Seq(Byte)
      BY <1>1, <3>1, ElementOfSeq
    <3>5. <<us[len]>> \o <<>> = <<us[len]>>
      BY <3>4
    <3> QED BY <3>2, <3>3, <3>5
  <2>5. UnitsFrom(w)[o[len]] = [nalus |-> rest(len), left |-> 0]
    BY <2>3, <2>4
  <2>6. len \in 1 .. len
    BY <1>1
  <2> QED BY <2>5, <2>6
<1>5. ASSUME NEW n \in 1 .. len - 1, n + 1 \in S
      PROVE  n \in S
  <2>1. n \in 1 .. len /\ n + 1 \in 1 .. len
    BY <1>1
  <2>2. After(w, o[n]) = o[n + 1] /\ UnitAt(w, o[n]) = us[n]
    BY <1>2, <2>1
  <2>3. ~(o[n + 1] > Len(w) + 1) /\ ~(o[n + 1] > Len(w) - 3)
    BY <1>1, <1>2, <2>1
  <2>4. UnitsFrom(w)[o[n]] =
          [nalus |-> <<us[n]>> \o UnitsFrom(w)[o[n + 1]].nalus,
           left |-> UnitsFrom(w)[o[n + 1]].left]
    BY <1>3, <2>1, <2>2, <2>3 DEF UnitsGiven
  <2>5. UnitsFrom(w)[o[n + 1]] = [nalus |-> rest(n + 1), left |-> 0]
    BY <1>5
  <2>6. rest(n) = <<us[n]>> \o rest(n + 1)
    <3> HIDE DEF Byte
    <3>1. n \in 1 .. Len(us) /\ len \in n .. Len(us)
      BY <1>1, <2>1 DEF len
    <3> QED BY <1>1, <3>1, SubSeqRecursiveFirst
  <2>7. UnitsFrom(w)[o[n]] = [nalus |-> rest(n), left |-> 0]
    BY <2>4, <2>5, <2>6
  <2> QED BY <2>1, <2>7
<1>6. 1 \in S
  <2>1. 1 \in 1 .. len
    BY <1>1
  <2> HIDE DEF S
  <2> QED BY <1>1, <1>4, <1>5, <2>1, InductionDown
<1>7. o[1] = 1
  BY DEF LaidOut
<1>8. rest(1) = us
  <2> HIDE DEF Byte
  <2> QED BY <1>1, SubSeqFull DEF len
<1> QED BY <1>6, <1>7, <1>8 DEF SplitAVCC
(***************************************************************************)
(* Start codes.                                                            *)
(***************************************************************************)
LongCodeAt(w, i) ==
  i + 3 <= Len(w) /\ w[i] = 0 /\ w[i + 1] = 0 /\ w[i + 2] = 0 /\ w[i + 3] = 1

ShortCodeAt(w, i) ==
  i + 2 <= Len(w) /\ w[i] = 0 /\ w[i + 1] = 0 /\ w[i + 2] = 1

(* IsAt compares four bytes for the long start code.                         *)
LEMMA LongCode ==
  ASSUME NEW w \in Seq(Byte), NEW i \in Nat \ {0}
  PROVE  IsAt(StartCode4, w, i) <=> LongCodeAt(w, i)
<1> DEFINE t == SubSeq(w, i, i + 3)
<1>1. Len(w) \in Nat /\ Len(StartCode4) = 4 /\ i + 4 - 1 = i + 3
  BY DEF StartCode4
<1>2. SUFFICES ASSUME i + 3 <= Len(w)
               PROVE  t = StartCode4 <=> /\ w[i] = 0 /\ w[i + 1] = 0
                                         /\ w[i + 2] = 0 /\ w[i + 3] = 1
  BY <1>1 DEF IsAt, LongCodeAt
<1>3. \A j \in i .. i + 3 : w[j] \in Byte
  BY <1>1, <1>2, ElementOfSeq
<1>4. t \in Seq(Byte) /\ Len(t) = 4 /\ \A k \in 1 .. 4 : t[k] = w[i + k - 1]
  <2>1. i \in Int /\ i + 3 \in Int /\ (i + 3) - i + 1 = 4 /\ i <= i + 3
    OBVIOUS
  <2> HIDE DEF Byte, t
  <2>2. /\ t \in Seq(Byte)
        /\ Len(t) = IF i <= i + 3 THEN (i + 3) - i + 1 ELSE 0
        /\ \A k \in 1 .. (i + 3) - i + 1 : t[k] = w[i + k - 1]
    BY <1>3, <2>1, SubSeqProperties DEF t
  <2> QED BY <2>1, <2>2
<1> HIDE DEF t
<1>5. t[1] = w[i] /\ t[2] = w[i + 1] /\ t[3] = w[i + 2] /\ t[4] = w[i + 3]
  BY <1>4
<1>6. t = <<t[1], t[2], t[3], t[4]>>
  <2> HIDE DEF Byte
  <2> QED BY <1>4
<1> QED BY <1>5, <1>6 DEF StartCode4

(* IsAt compares three bytes for the short start code.                       *)
LEMMA ShortCode ==
  ASSUME NEW w \in Seq(Byte), NEW i \in Nat \ {0}
  PROVE  IsAt(StartCode3, w, i) <=> ShortCodeAt(w, i)
<1> DEFINE t == SubSeq(w, i, i + 2)
<1>1. Len(w) \in Nat /\ Len(StartCode3) = 3 /\ i + 3 - 1 = i + 2
  BY DEF StartCode3
<1>2. SUFFICES ASSUME i + 2 <= Len(w)
               PROVE  t = StartCode3 <=> w[i] = 0 /\ w[i + 1] = 0 /\ w[i + 2] = 1
  BY <1>1 DEF IsAt, ShortCodeAt
<1>3. \A j \in i .. i + 2 : w[j] \in Byte
  BY <1>1, <1>2, ElementOfSeq
<1>4. t \in Seq(Byte) /\ Len(t) = 3 /\ \A k \in 1 .. 3 : t[k] = w[i + k - 1]
  <2>1. i \in Int /\ i + 2 \in Int /\ (i + 2) - i + 1 = 3 /\ i <= i + 2
    OBVIOUS
  <2> HIDE DEF Byte, t
  <2>2. /\ t \in Seq(Byte)
        /\ Len(t) = IF i <= i + 2 THEN (i + 2) - i + 1 ELSE 0
        /\ \A k \in 1 .. (i + 2) - i + 1 : t[k] = w[i + k - 1]
    BY <1>3, <2>1, SubSeqProperties DEF t
  <2> QED BY <2>1, <2>2
<1> HIDE DEF t
<1>5. t[1] = w[i] /\ t[2] = w[i + 1] /\ t[3] = w[i + 2]
  BY <1>4
<1>6. t = <<t[1], t[2], t[3]>>
  <2> HIDE DEF Byte
  <2> QED BY <1>4
<1> QED BY <1>5, <1>6 DEF StartCode3

(* A start code is one of the two; a long one counts as long. *)
LEMMA CodeLength ==
  ASSUME NEW w \in Seq(Byte), NEW i \in Nat \ {0}
  PROVE  /\ LongCodeAt(w, i) => LenStartCode(w, i) = 4
         /\ ~LongCodeAt(w, i) /\ ShortCodeAt(w, i) => LenStartCode(w, i) = 3
         /\ ~LongCodeAt(w, i) /\ ~ShortCodeAt(w, i) => LenStartCode(w, i) = 0
         /\ LenStartCode(w, i) \in {0, 3, 4}
  BY LongCode, ShortCode DEF LenStartCode

(* A length looks like a start code if it is 1 or from Base to 2 * Base - 1. *)
LEMMA LengthLooksLikeCode ==
  ASSUME NEW w \in Seq(Byte), NEW n \in Nat, n < Longest, 4 <= Len(w),
         IsPartAt(LengthBytes(n), w, 0)
  PROVE  LenStartCode(w, 1) > 0 <=> LooksLikeCode(n)
<1>1. PICK a \in Byte, b \in Byte, c \in Byte, d \in Byte :
        /\ LengthBytes(n) = <<a, b, c, d>>
        /\ n = ((a * Base + b) * Base + c) * Base + d
  BY Digits
<1>2. w[1] = a /\ w[2] = b /\ w[3] = c /\ w[4] = d
  <2>1. Len(<<a, b, c, d>>) = 4
    OBVIOUS
  <2>2. \A i \in 1 .. 4 : w[0 + i] = <<a, b, c, d>>[i]
    BY <1>1, <2>1 DEF IsPartAt
  <2>3. w[0 + 1] = a /\ w[0 + 2] = b /\ w[0 + 3] = c /\ w[0 + 4] = d
    BY <2>2
  <2> QED BY <2>3
<1>3. /\ a \in Nat /\ b \in Nat /\ c \in Nat /\ d \in Nat
      /\ a < Base /\ b < Base /\ c < Base /\ d < Base
      /\ Base \in Nat /\ Base >= 2
  BY BaseAssumption DEF Byte
<1>4. Len(w) \in Nat
  OBVIOUS
<1>5. LongCodeAt(w, 1) <=> a = 0 /\ b = 0 /\ c = 0 /\ d = 1
  BY <1>2, <1>4 DEF LongCodeAt
<1>6. ShortCodeAt(w, 1) <=> a = 0 /\ b = 0 /\ c = 1
  BY <1>2, <1>4 DEF ShortCodeAt
<1>7. LenStartCode(w, 1) > 0 <=> LongCodeAt(w, 1) \/ ShortCodeAt(w, 1)
  BY CodeLength
<1> DEFINE x == a * Base + b
           y == x * Base + c
<1>8. x \in Nat /\ (x = 0 <=> a = 0 /\ b = 0)
  <2>1. a * Base \in Nat /\ (a # 0 => a * Base >= Base) /\ (a = 0 => a * Base = 0)
    BY <1>3
  <2> QED BY <1>3, <2>1
<1> HIDE DEF x
<1>9. /\ y \in Nat /\ (y = 0 <=> x = 0 /\ c = 0)
      /\ (y = 1 <=> x = 0 /\ c = 1)
  <2>1. /\ x * Base \in Nat /\ (x # 0 => x * Base >= Base)
        /\ (x = 0 => x * Base = 0)
    BY <1>3, <1>8
  <2> QED BY <1>3, <1>8, <2>1
<1>10. n = y * Base + d
  BY <1>1 DEF x
<1> HIDE DEF y
<1>11. /\ y * Base \in Nat /\ (y = 0 => y * Base = 0)
       /\ (y = 1 => y * Base = Base) /\ (y >= 2 => y * Base >= 2 * Base)
  <2>1. ASSUME y >= 2 PROVE y * Base >= 2 * Base
    <3>1. PICK e \in Nat : y = 2 + e
      BY <1>9, <2>1
    <3>2. (2 + e) * Base = 2 * Base + e * Base /\ e * Base \in Nat
      BY <1>3
    <3> QED BY <1>3, <3>1, <3>2
  <2> QED BY <1>3, <1>9, <2>1
<1>12. LooksLikeCode(n) <=> (y = 0 /\ d = 1) \/ y = 1
  <2>1. CASE y = 0
    BY <1>3, <1>10, <1>11, <2>1 DEF LooksLikeCode
  <2>2. CASE y = 1
    BY <1>3, <1>10, <1>11, <2>2 DEF LooksLikeCode
  <2>3. CASE y >= 2
    BY <1>3, <1>10, <1>11, <2>3 DEF LooksLikeCode
  <2> QED BY <1>9, <2>1, <2>2, <2>3
<1> QED BY <1>5, <1>6, <1>7, <1>8, <1>9, <1>12
(***************************************************************************)
(* The units.                                                              *)
(***************************************************************************)
(* Units are not empty, each has a start code, and they have no more bytes   *)
(* than the bound: four bytes can say the length of each.                    *)
UnitsInv ==
  /\ units \in Seq(Seq(Byte)) /\ codes \in Seq({3, 4})
  /\ Len(codes) = Len(units)
  /\ \A n \in 1 .. Len(units) : units[n] # <<>>
  /\ Size <= MaxUnitBytes

(* The lengths of the units, as a sequence of numbers.                       *)
LEMMA UnitLengthsAre ==
  ASSUME NEW us \in Seq(Seq(Byte)), NEW lens,
         lens = [n \in DOMAIN us |-> Len(us[n])]
  PROVE  /\ lens \in Seq(Nat) /\ Len(lens) = Len(us) /\ Len(us) \in Nat
         /\ \A n \in 1 .. Len(us) : lens[n] = Len(us[n]) /\ Len(us[n]) \in Nat
<1>1. Len(us) \in Nat /\ DOMAIN us = 1 .. Len(us)
  OBVIOUS
<1>2. \A n \in 1 .. Len(us) : Len(us[n]) \in Nat
  BY ElementOfSeq, LenProperties
<1>3. lens \in [1 .. Len(us) -> Nat]
  BY <1>1, <1>2
<1> QED BY <1>1, <1>2, <1>3

(* In every reachable state four bytes say the length of each unit.          *)
LEMMA UnitsAreShort ==
  ASSUME UnitsInv
  PROVE  /\ ShortEnough(units) /\ Size \in Nat /\ Len(units) \in Nat
         /\ DOMAIN units = 1 .. Len(units)
<1> DEFINE lens == UnitLengths
<1>1. /\ lens \in Seq(Nat) /\ Len(lens) = Len(units) /\ Len(units) \in Nat
      /\ \A n \in 1 .. Len(units) : lens[n] = Len(units[n]) /\ Len(units[n]) \in Nat
  BY UnitLengthsAre DEF UnitsInv, UnitLengths
<1>2. Size = Sums(lens)[Len(lens)]
  BY <1>1 DEF Size
<1> HIDE DEF lens
<1>3. \A n \in 1 .. Len(units) : lens[n] <= Size
  BY <1>1, <1>2, SumsBound
<1>4. Size \in Nat
  <2>1. Len(lens) \in 0 .. Len(lens)
    BY <1>1
  <2> QED BY <1>1, <1>2, <2>1, SumsSteps
<1>5. MaxUnitBytes \in Nat /\ MaxUnitBytes < Longest
  BY UnitsAssumption DEF Longest
<1>6. Longest \in Nat
  BY LongestIsNat
<1>7. ASSUME NEW n \in 1 .. Len(units)
      PROVE  Len(units[n]) \in 1 .. Longest - 1
  <2>1. units[n] \in Seq(Byte) /\ units[n] # <<>>
    BY ElementOfSeq DEF UnitsInv
  <2>2. Len(units[n]) >= 1
    <3> HIDE DEF Byte
    <3> QED BY <2>1, EmptySeq
  <2>3. Len(units[n]) \in Nat /\ Len(units[n]) <= Size /\ Size <= MaxUnitBytes
    BY <1>1, <1>3 DEF UnitsInv
  <2> QED BY <1>4, <1>5, <1>6, <2>2, <2>3
<1>8. units \in Seq(Seq(Byte))
  BY DEF UnitsInv
<1>9. DOMAIN units = 1 .. Len(units)
  BY <1>8
<1> QED BY <1>1, <1>4, <1>7, <1>8, <1>9 DEF ShortEnough

(* One more byte in the last unit, or in a unit behind them, is one more     *)
(* byte in all.                                                              *)
GrowsByOne(old, new, k) ==
  /\ Len(new) = k + 1 /\ \A n \in 1 .. k : new[n] = old[n]
  /\ \/ Len(old) = k /\ new[k + 1] = 1
     \/ Len(old) = k + 1 /\ new[k + 1] = old[k + 1] + 1

(* A sequence one of whose numbers grows by one has a sum greater by one.    *)
LEMMA OneMore ==
  ASSUME NEW old \in Seq(Nat), NEW new \in Seq(Nat), NEW k \in Nat,
         GrowsByOne(old, new, k)
  PROVE  Sums(new)[Len(new)] = Sums(old)[Len(old)] + 1
<1> USE DEF GrowsByOne
<1>1. Sums(new)[k] = Sums(old)[k]
  <2>1. k <= Len(new) /\ k <= Len(old) /\ k \in 0 .. k
    OBVIOUS
  <2> QED BY <2>1, SumsStay
<1>2. Sums(new)[k + 1] = Sums(new)[k] + new[k + 1]
  <2>1. k + 1 \in 1 .. Len(new) /\ (k + 1) - 1 = k
    OBVIOUS
  <2> QED BY <2>1, SumsSteps
<1>3. CASE Len(old) = k /\ new[k + 1] = 1
  BY <1>1, <1>2, <1>3
<1>4. CASE Len(old) = k + 1 /\ new[k + 1] = old[k + 1] + 1
  <2>1. k + 1 \in 1 .. Len(old) /\ (k + 1) - 1 = k /\ k \in 0 .. Len(old)
    BY <1>4
  <2>2. Sums(old)[k + 1] = Sums(old)[k] + old[k + 1] /\ Sums(old)[k] \in Nat
    BY <2>1, SumsSteps
  <2>3. old[k + 1] \in Nat
    BY <2>1, ElementOfSeq
  <2> DEFINE a == Sums(old)[k]
             c == old[k + 1]
  <2>4. /\ Sums(old)[Len(old)] = a + c /\ a \in Nat /\ c \in Nat
        /\ Sums(new)[Len(new)] = a + (c + 1)
    BY <1>1, <1>2, <1>4, <2>2, <2>3
  <2> HIDE DEF a, c
  <2>5. a + (c + 1) = (a + c) + 1
    BY <2>4
  <2> QED BY <2>4, <2>5
<1> QED BY <1>3, <1>4

(* The invariant of the units holds before there is any.                     *)
LEMMA UnitsInvInit == UnitsInit => UnitsInv
<1> SUFFICES ASSUME UnitsInit PROVE UnitsInv
  OBVIOUS
<1>1. units = <<>> /\ codes = <<>>
  BY DEF UnitsInit
<1>2. Size = 0
  <2> DEFINE lens == UnitLengths
  <2>1. units \in Seq(Seq(Byte)) /\ Len(units) = 0
    BY <1>1
  <2>2. lens \in Seq(Nat)
    BY <2>1, UnitLengthsAre DEF UnitLengths
  <2> HIDE DEF lens
  <2>3. Sums(lens)[0] = 0
    BY <2>2, SumsSteps
  <2> QED BY <2>1, <2>3 DEF Size, lens
<1> QED BY <1>1, <1>2, UnitsAssumption DEF UnitsInv

(* A unit of one byte more keeps the invariant of the units.                 *)
LEMMA NewUnitKeeps ==
  ASSUME UnitsInv, NewUnit
  PROVE  UnitsInv'
<1> HIDE DEF Byte
<1>1. PICK x \in Byte, length \in {3, 4} :
        units' = Append(units, <<x>>) /\ codes' = Append(codes, length)
  BY DEF NewUnit
<1> DEFINE k == Len(units)
           old == UnitLengths
           new == UnitLengths'
<1>2. /\ units \in Seq(Seq(Byte)) /\ codes \in Seq({3, 4}) /\ Len(codes) = k
      /\ k \in Nat /\ \A n \in 1 .. k : units[n] # <<>>
  BY LenProperties DEF UnitsInv
<1>3. <<x>> \in Seq(Byte) /\ <<x>> # <<>> /\ Len(<<x>>) = 1
  OBVIOUS
<1>4. /\ units' \in Seq(Seq(Byte)) /\ Len(units') = k + 1
      /\ \A n \in 1 .. k : units'[n] = units[n]
      /\ units'[k + 1] = <<x>>
  BY <1>1, <1>2, <1>3, AppendProperties
<1>5. codes' \in Seq({3, 4}) /\ Len(codes') = k + 1
  BY <1>1, <1>2, AppendProperties
<1>6. \A n \in 1 .. k + 1 : units'[n] # <<>>
  <2>1. \A n \in 1 .. k + 1 : n \in 1 .. k \/ n = k + 1
    BY <1>2
  <2> QED BY <1>2, <1>3, <1>4, <2>1
<1>7. /\ old \in Seq(Nat) /\ Len(old) = k
      /\ \A n \in 1 .. k : old[n] = Len(units[n])
  BY <1>2, UnitLengthsAre DEF UnitLengths
<1>8. /\ new \in Seq(Nat) /\ Len(new) = k + 1
      /\ \A n \in 1 .. k + 1 : new[n] = Len(units'[n])
  BY <1>4, UnitLengthsAre DEF UnitLengths
<1>9. Size = Sums(old)[Len(old)] /\ Size' = Sums(new)[Len(new)]
  BY <1>4, <1>7, <1>8 DEF Size
<1> HIDE DEF old, new, k
<1>10. (\A n \in 1 .. k : new[n] = old[n]) /\ new[k + 1] = 1
  <2>1. \A n \in 1 .. k : n \in 1 .. k + 1
    BY <1>2
  <2>2. \A n \in 1 .. k : new[n] = old[n]
    BY <1>4, <1>7, <1>8, <2>1
  <2>3. k + 1 \in 1 .. k + 1
    BY <1>2
  <2>4. new[k + 1] = Len(<<x>>)
    BY <1>4, <1>8, <2>3
  <2> QED BY <1>3, <2>2, <2>4
<1>11. Size' = Size + 1
  <2>1. GrowsByOne(old, new, k)
    BY <1>7, <1>8, <1>10 DEF GrowsByOne
  <2> QED BY <1>2, <1>7, <1>8, <1>9, <2>1, OneMore
<1>12. Size < MaxUnitBytes /\ Size \in Nat
  BY UnitsAreShort DEF NewUnit
<1>13. Size' <= MaxUnitBytes
  BY <1>11, <1>12, UnitsAssumption
<1> QED BY <1>4, <1>5, <1>6, <1>13 DEF UnitsInv

(* One byte more in the last unit keeps the invariant of the units.          *)
LEMMA ExtendUnitKeeps ==
  ASSUME UnitsInv, ExtendUnit
  PROVE  UnitsInv'
<1> HIDE DEF Byte
<1>1. PICK x \in Byte : units' = [units EXCEPT ![Len(units)] = Append(@, x)]
  BY DEF ExtendUnit
<1> DEFINE len == Len(units)
           k == len - 1
           u == units[len]
           old == UnitLengths
           new == UnitLengths'
<1>2. /\ units \in Seq(Seq(Byte)) /\ len \in Nat /\ codes' = codes
      /\ len >= 1 /\ \A n \in 1 .. len : units[n] # <<>>
  BY EmptySeq DEF UnitsInv, ExtendUnit
<1>3. u \in Seq(Byte) /\ Len(u) \in Nat
  BY <1>2, ElementOfSeq, LenProperties
<1> HIDE DEF u
<1>4. /\ Append(u, x) \in Seq(Byte) /\ Append(u, x) # <<>>
      /\ Len(Append(u, x)) = Len(u) + 1
  BY <1>3, AppendProperties
<1>5. /\ units' \in Seq(Seq(Byte)) /\ Len(units') = len
      /\ \A n \in 1 .. len :
           units'[n] = IF n = len THEN Append(u, x) ELSE units[n]
  <2>1. units' = [units EXCEPT ![len] = Append(u, x)] /\ len \in 1 .. len
    BY <1>1, <1>2 DEF u
  <2> HIDE DEF len
  <2>2. len \in 1 .. Len(units)
    BY <2>1 DEF len
  <2> QED BY <1>2, <1>4, <2>1, <2>2, ExceptSeq DEF len
<1>6. \A n \in 1 .. len : units'[n] # <<>>
  BY <1>2, <1>4, <1>5
<1>7. /\ old \in Seq(Nat) /\ Len(old) = len
      /\ \A n \in 1 .. len : old[n] = Len(units[n])
  BY <1>2, UnitLengthsAre DEF UnitLengths
<1>8. /\ new \in Seq(Nat) /\ Len(new) = len
      /\ \A n \in 1 .. len : new[n] = Len(units'[n])
  BY <1>5, UnitLengthsAre DEF UnitLengths
<1>9. Size = Sums(old)[Len(old)] /\ Size' = Sums(new)[Len(new)]
  BY <1>5, <1>7, <1>8 DEF Size
<1> HIDE DEF old, new, len
<1>10. k \in Nat /\ k + 1 = len
  BY <1>2
<1>11. \A n \in 1 .. k : new[n] = old[n]
  BY <1>2, <1>5, <1>7, <1>8
<1>12. new[k + 1] = old[k + 1] + 1
  <2>1. new[len] = Len(u) + 1 /\ old[len] = Len(u)
    BY <1>2, <1>4, <1>5, <1>7, <1>8 DEF u
  <2> QED BY <1>10, <2>1
<1>13. Size' = Size + 1
  <2> HIDE DEF k
  <2>1. GrowsByOne(old, new, k)
    BY <1>7, <1>8, <1>10, <1>11, <1>12 DEF GrowsByOne
  <2> QED BY <1>7, <1>8, <1>9, <1>10, <2>1, OneMore
<1>14. Size < MaxUnitBytes /\ Size \in Nat
  BY UnitsAreShort DEF ExtendUnit
<1>15. Size' <= MaxUnitBytes
  BY <1>13, <1>14, UnitsAssumption
<1> QED BY <1>2, <1>5, <1>6, <1>15 DEF UnitsInv, len

(* The units that are framed are not empty, their start codes have three or  *)
(* four bytes and all of them together stay within the bound: so that four   *)
(* bytes say the length of each (SplitAVCC and the writers of lengths,       *)
(* parser.go:124-229).                                                       *)
THEOREM UnitsInvCorrect == UnitsSpec => []UnitsInv
<1>1. UnitsInit => UnitsInv
  BY UnitsInvInit
<1>2. UnitsInv /\ [UnitsNext]_uvars => UnitsInv'
  <2> SUFFICES ASSUME UnitsInv, [UnitsNext]_uvars PROVE UnitsInv'
    OBVIOUS
  <2>1. CASE NewUnit BY <2>1, NewUnitKeeps
  <2>2. CASE ExtendUnit BY <2>2, ExtendUnitKeeps
  <2>3. CASE UNCHANGED uvars
    BY <2>3 DEF UnitsInv, uvars, Size, UnitLengths
  <2> QED BY <2>1, <2>2, <2>3 DEF UnitsNext
<1> QED BY <1>1, <1>2, PTL DEF UnitsSpec

(***************************************************************************)
(* SplitInvertsAVCC.                                                       *)
(***************************************************************************)
(* Joined frames are bytes, and at least those of the first frame. *)
LEMMA FramesJoined ==
  ASSUME NEW us, NEW heads, NEW frames, AreFrames(frames, heads, us)
  PROVE  Joined(frames)[Len(us)] \in Seq(Byte)
<1>1. Len(us) \in Nat /\ Len(frames) = Len(us) /\ frames \in Seq(Seq(Byte))
  BY FramesAreBytes
<1>2. \A n \in 0 .. Len(frames) : Joined(frames)[n] \in Seq(Byte)
  BY <1>1, JoinedSteps
<1>3. Len(us) \in 0 .. Len(frames)
  BY <1>1
<1> QED BY <1>2, <1>3

(* The lengths of the units are byte strings, one for each unit.             *)
LEMMA LengthsAreHeads ==
  ASSUME NEW us, ShortEnough(us)
  PROVE  /\ Lengths(us) \in Seq(Seq(Byte)) /\ Len(Lengths(us)) = Len(us)
         /\ \A n \in 1 .. Len(us) : Lengths(us)[n] = LengthBytes(Len(us[n]))
<1>1. us \in Seq(Seq(Byte)) /\ Len(us) \in Nat
  BY DEF ShortEnough
<1>2. ASSUME NEW n \in 1 .. Len(us)
      PROVE  LengthBytes(Len(us[n])) \in Seq(Byte)
  <2>1. us[n] \in Seq(Byte) /\ Len(us[n]) \in Nat
    BY <1>1, ElementOfSeq, LenProperties
  <2>2. Len(us[n]) < Longest
    <3>1. Longest \in Nat
      BY LongestIsNat
    <3>2. Len(us[n]) \in 1 .. Longest - 1
      BY DEF ShortEnough
    <3> QED BY <2>1, <3>1, <3>2
  <2> QED BY <2>1, <2>2, LengthIsBytes
<1>3. Lengths(us) \in [1 .. Len(us) -> Seq(Byte)]
  BY <1>2 DEF Lengths
<1>4. Lengths(us) \in Seq(Seq(Byte)) /\ Len(Lengths(us)) = Len(us)
  <2> HIDE DEF Byte
  <2> QED BY <1>1, <1>3
<1> QED BY <1>4 DEF Lengths

(* The units behind their lengths. *)
LEMMA AVCCLaidOut ==
  ASSUME UnitsInv
  PROVE  /\ AVCC \in Seq(Byte)
         /\ LaidOut(AVCC, Lengths(units), units, Starts(LengthFrames))
<1> DEFINE heads == Lengths(units)
<1>1. ShortEnough(units) /\ DOMAIN units = 1 .. Len(units)
  BY UnitsAreShort
<1>2. /\ heads \in Seq(Seq(Byte)) /\ Len(heads) = Len(units)
      /\ \A n \in 1 .. Len(units) : heads[n] = LengthBytes(Len(units[n]))
  BY <1>1, LengthsAreHeads
<1>3. LengthFrames = [n \in 1 .. Len(units) |-> heads[n] \o units[n]]
  BY <1>1, <1>2 DEF LengthFrames
<1>4. AreFrames(LengthFrames, heads, units)
  BY <1>1, <1>2, <1>3 DEF AreFrames, ShortEnough
<1> QED BY <1>4, FramesJoined, FramesLaidOut DEF AVCC

(* What SplitNALUs finds in AVCC. *)
LEMMA SplitInvertsAVCCHolds ==
  ASSUME UnitsInv
  PROVE  SplitInvertsAVCC
<1> SUFFICES ASSUME units # <<>>
             PROVE  IF LooksLikeCode(Len(units[1]))
                    THEN SplitNALUs(AVCC).kind = "annexb"
                    ELSE SplitNALUs(AVCC) = [kind |-> "avcc", nalus |-> units]
  BY DEF SplitInvertsAVCC
<1> DEFINE w == AVCC
           o == Starts(LengthFrames)
           l == Len(units[1])
<1>1. w \in Seq(Byte) /\ LaidOut(w, Lengths(units), units, o)
  BY AVCCLaidOut
<1>2. ShortEnough(units) /\ Len(units) \in Nat /\ Len(units) >= 1
  <2>1. units \in Seq(Seq(Byte))
    BY DEF UnitsInv
  <2> HIDE DEF Byte
  <2> QED BY <2>1, UnitsAreShort, EmptySeq
<1> HIDE DEF w, o
<1>3. 1 \in 1 .. Len(units) /\ o[1] = 1
  BY <1>1, <1>2 DEF LaidOut
<1>4. /\ 1 \in 1 .. Len(w) - 4 /\ o[1 + 1] <= Len(w) + 1 /\ l \in Nat
      /\ After(w, 1) = o[1 + 1]
  BY <1>1, <1>2, <1>3, PlacesOfLengths
<1>5. IsPartAt(LengthBytes(l), w, 0)
  <2>1. Lengths(units)[1] = LengthBytes(l)
    BY <1>2, <1>3, LengthsAreHeads
  <2>2. IsPartAt(Lengths(units)[1], w, 1 - 1)
    BY <1>1, <1>3 DEF LaidOut
  <2> QED BY <2>1, <2>2
<1>6. l < Longest /\ l >= 1
  <2>1. l \in 1 .. Longest - 1
    BY <1>2, <1>3 DEF ShortEnough
  <2> QED BY <1>4, <2>1, LongestIsNat
<1> HIDE DEF l
<1>7. LenStartCode(w, 1) > 0 <=> LooksLikeCode(l)
  <2>1. 4 <= Len(w)
    BY <1>1, <1>4
  <2> QED BY <1>1, <1>4, <1>5, <1>6, <2>1, LengthLooksLikeCode
<1>8. NaluLength(w, 1) = l
  <2>1. NaluLength(w, 0 + 1) = l
    BY <1>4, <1>5, <1>6, LengthIsRead
  <2> QED BY <2>1
<1>9. l \in 1 .. Len(w) - 4 /\ ~(Len(w) < 4)
  <2>1. 1 + 4 + l <= Len(w) + 1 /\ Len(w) \in Nat
    BY <1>1, <1>4, <1>8 DEF After
  <2> QED BY <1>4, <1>6, <2>1
<1>10. CASE LooksLikeCode(l)
  <2>1. IsAnnexBOrAVCC(w) = "annexb"
    BY <1>7, <1>9, <1>10 DEF IsAnnexBOrAVCC
  <2>2. SplitNALUs(w).kind = "annexb"
    BY <2>1 DEF SplitNALUs
  <2> QED BY <1>10, <2>2 DEF w, l
<1>11. CASE ~LooksLikeCode(l)
  <2>1. IsAnnexBOrAVCC(w) = "avcc"
    BY <1>7, <1>8, <1>9, <1>11 DEF IsAnnexBOrAVCC
  <2>2. SplitAVCC(w) = [nalus |-> units, left |-> 0]
    BY <1>1, <1>2, LengthsAreSplit
  <2>3. SplitNALUs(w) = [kind |-> "avcc", nalus |-> units]
    BY <2>1, <2>2 DEF SplitNALUs
  <2> QED BY <1>11, <2>3 DEF w, l
<1> QED BY <1>10, <1>11
(***************************************************************************)
(* AVCCToAnnexB.                                                           *)
(***************************************************************************)
Reframed == [ok : BOOLEAN, out : Seq(Byte)]

(* What AnnexBFrom finds at i, given what it finds at the places behind. *)
AnnexBGiven(b, i, from) ==
  IF i + 3 > Len(b) THEN [ok |-> TRUE, out |-> <<>>]
  ELSE IF After(b, i) > Len(b) + 1 THEN Invalid
  ELSE IF ~from[After(b, i)].ok THEN Invalid
  ELSE [ok |-> TRUE,
        out |-> StartCode4 \o UnitAt(b, i) \o from[After(b, i)].out]

(* The long start code is four bytes.                                        *)
LEMMA LongCodeIsBytes == StartCode4 \in Seq(Byte) /\ Len(StartCode4) = 4
  BY BaseAssumption DEF StartCode4, Byte

(* AnnexBFrom satisfies its own equation: AVCCToAnnexB writes a start code   *)
(* and the unit, and goes on behind it.                                      *)
LEMMA AnnexBFromSteps ==
  ASSUME NEW b \in Seq(Byte)
  PROVE  \A i \in 1 .. Len(b) + 1 :
           AnnexBFrom(b)[i] = AnnexBGiven(b, i, AnnexBFrom(b))
<1> DEFINE len == Len(b) + 1
           X == Reframed
           body == [p \in (1 .. len) \X [1 .. len -> X] |->
                      AnnexBGiven(b, p[1], p[2])]
<1>1. len \in Nat /\ Len(b) \in Nat /\ len = Len(b) + 1
  OBVIOUS
<1>2. X # {}
  <2>1. [ok |-> TRUE, out |-> <<>>] \in X
    BY DEF Reframed
  <2> QED BY <2>1
<1>3. \A i \in 1 .. len : i + 3 <= Len(b) =>
        /\ After(b, i) \in Nat /\ i + 4 <= After(b, i)
        /\ After(b, i) <= Len(b) + 1 => UnitAt(b, i) \in Seq(Byte)
  <2>1. \A i \in 1 .. len : i + 3 <= Len(b) => i \in 1 .. Len(b) - 3
    BY <1>1
  <2> HIDE DEF len, Byte
  <2> QED BY <2>1, PlaceOfLength
<1> HIDE DEF len
<1>4. ASSUME NEW i \in 1 .. len, NEW g \in [1 .. len -> X]
      PROVE  AnnexBGiven(b, i, g) \in X
  <2> DEFINE r == g[After(b, i)]
             unit == UnitAt(b, i)
  <2>1. CASE i + 3 > Len(b)
    <3>1. AnnexBGiven(b, i, g) = [ok |-> TRUE, out |-> <<>>]
      BY <2>1 DEF AnnexBGiven
    <3> QED BY <3>1 DEF Reframed
  <2>2. CASE i + 3 <= Len(b) /\ After(b, i) > Len(b) + 1
    <3>1. AnnexBGiven(b, i, g) = Invalid
      BY <1>1, <2>2 DEF AnnexBGiven
    <3> QED BY <3>1 DEF Reframed, Invalid
  <2>3. CASE i + 3 <= Len(b) /\ After(b, i) <= Len(b) + 1
    <3>1. After(b, i) \in 1 .. len /\ unit \in Seq(Byte)
      BY <1>1, <1>3, <2>3
    <3>2. r \in X
      BY <3>1
    <3>3. r.ok \in BOOLEAN /\ r.out \in Seq(Byte)
      BY <3>2 DEF Reframed
    <3>4. AnnexBGiven(b, i, g) =
            IF ~r.ok THEN Invalid
            ELSE [ok |-> TRUE, out |-> StartCode4 \o unit \o r.out]
      BY <1>1, <1>3, <2>3 DEF AnnexBGiven
    <3>5. StartCode4 \o unit \o r.out \in Seq(Byte)
      <4> HIDE DEF r, unit, Byte
      <4>1. StartCode4 \o unit \in Seq(Byte)
        BY <3>1, LongCodeIsBytes, ConcatProperties
      <4> QED BY <3>3, <4>1, ConcatProperties
    <3> HIDE DEF r, unit
    <3> QED BY <3>4, <3>5 DEF Reframed, Invalid
  <2> QED BY <1>1, <1>3, <2>1, <2>2, <2>3
<1>5. IsBody(body, X, len)
  BY <1>4 DEF IsBody
<1>6. \A i \in 1 .. len, g \in [1 .. len -> X] :
        body[<<i, g>>] = AnnexBGiven(b, i, g)
  OBVIOUS
<1> HIDE DEF body
<1>7. LooksAhead(body, X, len)
  <2>1. ASSUME NEW i \in 1 .. len,
               NEW g \in [1 .. len -> X], NEW h \in [1 .. len -> X],
               \A j \in i + 1 .. len : g[j] = h[j]
        PROVE  body[<<i, g>>] = body[<<i, h>>]
    <3>1. CASE i + 3 <= Len(b) /\ After(b, i) <= Len(b) + 1
      <4>1. After(b, i) \in i + 1 .. len
        BY <1>1, <1>3, <3>1
      <4>2. g[After(b, i)] = h[After(b, i)]
        BY <2>1, <4>1
      <4>3. AnnexBGiven(b, i, g) = AnnexBGiven(b, i, h)
        BY <4>2 DEF AnnexBGiven
      <4> QED BY <1>6, <4>3
    <3>2. CASE ~(i + 3 <= Len(b) /\ After(b, i) <= Len(b) + 1)
      <4>1. AnnexBGiven(b, i, g) = AnnexBGiven(b, i, h)
        BY <1>1, <1>3, <3>2 DEF AnnexBGiven
      <4> QED BY <1>6, <4>1
    <3> QED BY <3>1, <3>2
  <2> HIDE DEF X
  <2> QED BY <2>1 DEF LooksAhead
<1>8. PICK f : FollowsBody(f, body, X, len)
  <2> HIDE DEF X
  <2> QED BY <1>1, <1>2, <1>5, <1>7, LaterExists
<1>9. f = [i \in 1 .. Len(b) + 1 |-> AnnexBGiven(b, i, f)]
  BY <1>1, <1>6, <1>8 DEF FollowsBody
<1> DEFINE u == CHOOSE g : g = [i \in 1 .. Len(b) + 1 |-> AnnexBGiven(b, i, g)]
<1>10. u = [i \in 1 .. Len(b) + 1 |-> AnnexBGiven(b, i, u)]
  BY <1>9
<1>11. AnnexBFrom(b) = u
  BY DEF AnnexBFrom, AnnexBGiven
<1> HIDE DEF u
<1> QED BY <1>10, <1>11

(* What comes behind a joined part comes with it behind all before it. *)
Concats(whole, a, b) == whole = a \o b

(* Concatenation is associative, for three strings of which each is only     *)
(* known as the concatenation of others.                                     *)
LEMMA JoinedBehind ==
  ASSUME NEW X, NEW a \in Seq(X), NEW f \in Seq(X), NEW rest \in Seq(X),
         NEW now, NEW whole, Concats(now, a, f), Concats(whole, now, rest)
  PROVE  Concats(whole, a, f \o rest)
<1>1. (a \o f) \o rest = a \o (f \o rest)
  BY Regrouped
<1>2. whole = (a \o f) \o rest
  BY DEF Concats
<1> QED BY <1>1, <1>2 DEF Concats

(* Units behind their lengths are put behind long start codes. *)
LEMMA LengthsAreReframed ==
  ASSUME NEW w \in Seq(Byte), NEW us, NEW o, ShortEnough(us),
         LaidOut(w, Lengths(us), us, o),
         NEW frames, frames = [n \in 1 .. Len(us) |-> StartCode4 \o us[n]]
  PROVE  AVCCToAnnexB(w) = [ok |-> TRUE, out |-> Joined(frames)[Len(us)]]
<1> HIDE DEF Byte
<1> DEFINE len == Len(us)
           J == Joined(frames)
           From == AnnexBFrom(w)
           Comes(n, out) == /\ From[o[n]] = [ok |-> TRUE, out |-> out]
                            /\ J[n - 1] \o out = J[len]
           S == {n \in 1 .. len + 1 : \E out \in Seq(Byte) : Comes(n, out)}
<1>1. us \in Seq(Seq(Byte)) /\ len \in Nat /\ Len(w) \in Nat
  BY LenProperties DEF ShortEnough
<1>2. /\ frames \in Seq(Seq(Byte)) /\ Len(frames) = len
      /\ \A n \in 1 .. len : frames[n] = StartCode4 \o us[n] /\ us[n] \in Seq(Byte)
  <2>1. \A n \in 1 .. len : us[n] \in Seq(Byte) /\ StartCode4 \o us[n] \in Seq(Byte)
    BY <1>1, ElementOfSeq, LongCodeIsBytes, ConcatProperties
  <2>2. frames \in [1 .. len -> Seq(Byte)]
    BY <2>1
  <2> QED BY <1>1, <2>1, <2>2
<1>3. /\ J[0] = <<>> /\ \A n \in 1 .. len : J[n] = J[n - 1] \o frames[n]
      /\ \A n \in 0 .. len : J[n] \in Seq(Byte)
  BY <1>2, JoinedSteps
<1> HIDE DEF len, J
<1>4. \A n \in 1 .. len :
        /\ o[n] \in 1 .. Len(w) - 4
        /\ o[n + 1] \in Nat /\ o[n] + 4 < o[n + 1] /\ o[n + 1] <= Len(w) + 1
        /\ After(w, o[n]) = o[n + 1]
        /\ UnitAt(w, o[n]) = us[n]
  BY PlacesOfLengths DEF len
<1>5. \A i \in 1 .. Len(w) + 1 : From[i] = AnnexBGiven(w, i, From)
  BY AnnexBFromSteps
<1> HIDE DEF From
<1>6. len + 1 \in S
  <2>1. o[len + 1] = Len(w) + 1
    BY DEF LaidOut, len
  <2>2. From[Len(w) + 1] = [ok |-> TRUE, out |-> <<>>]
    <3>1. Len(w) + 1 \in 1 .. Len(w) + 1 /\ (Len(w) + 1) + 3 > Len(w)
      BY <1>1
    <3> QED BY <1>5, <3>1 DEF AnnexBGiven
  <2>3. J[len] \o <<>> = J[len]
    <3>1. len \in 0 .. len
      BY <1>1
    <3> QED BY <1>3, <3>1, ConcatEmptySeq
  <2>4. (len + 1) - 1 = len /\ len + 1 \in 1 .. len + 1
    BY <1>1
  <2>5. Comes(len + 1, <<>>)
    BY <2>1, <2>2, <2>3, <2>4
  <2>6. <<>> \in Seq(Byte)
    OBVIOUS
  <2> HIDE DEF Comes
  <2> QED BY <2>4, <2>5, <2>6
<1>7. ASSUME NEW n \in 1 .. (len + 1) - 1, n + 1 \in S
      PROVE  n \in S
  <2>1. PICK rest \in Seq(Byte) : Comes(n + 1, rest)
    BY <1>7
  <2>2. n \in 1 .. len /\ (n + 1) - 1 = n /\ n - 1 \in 0 .. len
        /\ n \in 1 .. len + 1 /\ n \in 0 .. len
    BY <1>1
  <2>3. /\ From[o[n + 1]] = [ok |-> TRUE, out |-> rest]
        /\ J[n] \o rest = J[len]
    BY <2>1, <2>2
  <2> DEFINE out == StartCode4 \o us[n] \o rest
  <2>4. From[o[n]] = [ok |-> TRUE, out |-> out]
    <3>1. /\ o[n] \in 1 .. Len(w) + 1 /\ ~(o[n] + 3 > Len(w))
          /\ ~(o[n + 1] > Len(w) + 1)
      BY <1>1, <1>4, <2>2
    <3>2. After(w, o[n]) = o[n + 1] /\ UnitAt(w, o[n]) = us[n]
      BY <1>4, <2>2
    <3>3. From[o[n]] = AnnexBGiven(w, o[n], From)
      BY <1>5, <3>1
    <3>4. AnnexBGiven(w, o[n], From) =
            IF ~From[o[n + 1]].ok THEN Invalid
            ELSE [ok |-> TRUE,
                  out |-> StartCode4 \o us[n] \o From[o[n + 1]].out]
      BY <3>1, <3>2 DEF AnnexBGiven
    <3>5. From[o[n + 1]].ok /\ From[o[n + 1]].out = rest
      BY <2>3
    <3> QED BY <3>3, <3>4, <3>5
  <2>5. J[n - 1] \o out = J[len] /\ out \in Seq(Byte)
    <3> DEFINE f == StartCode4 \o us[n]
    <3>1. f \in Seq(Byte) /\ J[n] = J[n - 1] \o f
      BY <1>2, <1>3, <2>2, LongCodeIsBytes, ConcatProperties
    <3> HIDE DEF f
    <3>2. J[n - 1] \in Seq(Byte)
      BY <1>3, <2>2
    <3>3. J[n - 1] \o (f \o rest) = J[len]
      <4>1. Concats(J[n], J[n - 1], f) /\ Concats(J[len], J[n], rest)
        BY <2>3, <3>1 DEF Concats
      <4>2. f \in Seq(Byte)
        BY <3>1
      <4>3. Concats(J[len], J[n - 1], f \o rest)
        BY <3>2, <4>1, <4>2, JoinedBehind
      <4> QED BY <4>3 DEF Concats
    <3>4. f \o rest \in Seq(Byte)
      BY <3>1, ConcatProperties
    <3> QED BY <3>3, <3>4 DEF f
  <2>6. Comes(n, out)
    BY <2>4, <2>5
  <2> HIDE DEF Comes, out
  <2> QED BY <2>2, <2>5, <2>6
<1>8. 1 \in S
  <2> DEFINE top == len + 1
  <2>1. top \in Nat /\ 1 \in 1 .. top
    BY <1>1
  <2>2. top \in S /\ \A n \in 1 .. top - 1 : n + 1 \in S => n \in S
    BY <1>6, <1>7
  <2> HIDE DEF S, top
  <2>3. \A n \in 1 .. top : n \in S
    BY <2>1, <2>2, InductionDown
  <2> QED BY <2>1, <2>3
<1>9. PICK out \in Seq(Byte) : Comes(1, out)
  BY <1>8
<1>10. o[1] = 1 /\ J[1 - 1] = <<>> /\ <<>> \o out = out
  BY <1>3, ConcatEmptySeq DEF LaidOut
<1>11. From[1] = [ok |-> TRUE, out |-> J[len]]
  BY <1>9, <1>10
<1> QED BY <1>11 DEF AVCCToAnnexB, From, J, len

(* AVCCToAnnexB puts the long start code before every unit                   *)
(* (parser.go:212-229).                                                      *)
LEMMA LengthsBecomeCodes ==
  ASSUME UnitsInv
  PROVE  AVCCToAnnexB(AVCC) = [ok |-> TRUE, out |-> LongAnnexB]
<1>1. /\ ShortEnough(units) /\ DOMAIN units = 1 .. Len(units)
  BY UnitsAreShort
<1>2. LongFrames = [n \in 1 .. Len(units) |-> StartCode4 \o units[n]]
  BY <1>1 DEF LongFrames
<1>3. AVCC \in Seq(Byte)
      /\ LaidOut(AVCC, Lengths(units), units, Starts(LengthFrames))
  BY AVCCLaidOut
<1>4. AVCCToAnnexB(AVCC) = [ok |-> TRUE, out |-> Joined(LongFrames)[Len(units)]]
  BY <1>1, <1>2, <1>3, LengthsAreReframed
<1> QED BY <1>4 DEF LongAnnexB

(***************************************************************************)
(* Units behind start codes.                                               *)
(***************************************************************************)
(* A start code fits into what it is in. *)
LEMMA CodeFits ==
  ASSUME NEW w \in Seq(Byte), NEW i \in Nat \ {0}, LenStartCode(w, i) > 0
  PROVE  /\ LenStartCode(w, i) \in {3, 4}
         /\ i + LenStartCode(w, i) <= Len(w) + 1
<1>1. Len(w) \in Nat
  OBVIOUS
<1>2. CASE LongCodeAt(w, i)
  BY <1>1, <1>2, CodeLength DEF LongCodeAt
<1>3. CASE ~LongCodeAt(w, i) /\ ShortCodeAt(w, i)
  BY <1>1, <1>3, CodeLength DEF ShortCodeAt
<1>4. CASE ~LongCodeAt(w, i) /\ ~ShortCodeAt(w, i)
  BY <1>4, CodeLength
<1> QED BY <1>2, <1>3, <1>4

(* No start code begins inside a unit that is encoded: one that began there  *)
(* would lie in the unit or go over its last byte, which is not zero.        *)
LEMMA NoCodeInside ==
  ASSUME NEW w \in Seq(Byte), NEW u \in Seq(Byte), Encoded(u),
         NEW from \in Nat, IsPartAt(u, w, from), NEW i \in 1 .. Len(u)
  PROVE  LenStartCode(w, from + i) = 0
<1> DEFINE len == Len(u)
           at == from + i
<1>1. len \in Nat /\ i \in 1 .. len /\ at \in Nat \ {0} /\ Len(w) \in Nat
  OBVIOUS
<1>2. u[len] # 0 /\ LenStartCode(u, i) = 0
  BY DEF Encoded
<1>3. ~LongCodeAt(u, i) /\ ~ShortCodeAt(u, i)
  <2>1. i \in Nat \ {0}
    OBVIOUS
  <2> QED BY <1>2, <2>1, CodeLength
<1>4. \A k \in 0 .. len - i : w[at + k] = u[i + k]
  <2>1. \A j \in 1 .. len : w[from + j] = u[j]
    BY DEF IsPartAt
  <2>2. \A k \in 0 .. len - i : i + k \in 1 .. len /\ from + (i + k) = at + k
    BY <1>1
  <2> HIDE DEF at, len
  <2> QED BY <2>1, <2>2
<1>5. w[at] = u[i]
  <2>1. 0 \in 0 .. len - i /\ at + 0 = at /\ i + 0 = i
    BY <1>1
  <2> HIDE DEF at, len
  <2> QED BY <1>4, <2>1
<1> HIDE DEF at, len
<1>6. ~LongCodeAt(w, at)
  <2> SUFFICES ASSUME LongCodeAt(w, at) PROVE FALSE
    OBVIOUS
  <2>1. w[at] = 0 /\ w[at + 1] = 0 /\ w[at + 2] = 0 /\ w[at + 3] = 1
    BY DEF LongCodeAt
  <2>2. CASE i + 3 <= len
    <3>1. /\ 1 \in 0 .. len - i /\ 2 \in 0 .. len - i /\ 3 \in 0 .. len - i
      BY <1>1, <2>2
    <3>2. u[i] = 0 /\ u[i + 1] = 0 /\ u[i + 2] = 0 /\ u[i + 3] = 1
      BY <1>4, <1>5, <2>1, <3>1
    <3> QED BY <1>3, <2>2, <3>2 DEF LongCodeAt, len
  <2>3. CASE len = i
    BY <1>2, <1>5, <2>1, <2>3
  <2>4. CASE len = i + 1
    <3>1. 1 \in 0 .. len - i
      BY <1>1, <2>4
    <3> QED BY <1>2, <1>4, <2>1, <2>4, <3>1
  <2>5. CASE len = i + 2
    <3>1. 2 \in 0 .. len - i
      BY <1>1, <2>5
    <3> QED BY <1>2, <1>4, <2>1, <2>5, <3>1
  <2> QED BY <1>1, <2>2, <2>3, <2>4, <2>5
<1>7. ~ShortCodeAt(w, at)
  <2> SUFFICES ASSUME ShortCodeAt(w, at) PROVE FALSE
    OBVIOUS
  <2>1. w[at] = 0 /\ w[at + 1] = 0 /\ w[at + 2] = 1
    BY DEF ShortCodeAt
  <2>2. CASE i + 2 <= len
    <3>1. 1 \in 0 .. len - i /\ 2 \in 0 .. len - i
      BY <1>1, <2>2
    <3>2. u[i] = 0 /\ u[i + 1] = 0 /\ u[i + 2] = 1
      BY <1>4, <1>5, <2>1, <3>1
    <3> QED BY <1>3, <2>2, <3>2 DEF ShortCodeAt, len
  <2>3. CASE len = i
    BY <1>2, <1>5, <2>1, <2>3
  <2>4. CASE len = i + 1
    <3>1. 1 \in 0 .. len - i
      BY <1>1, <2>4
    <3> QED BY <1>2, <1>4, <2>1, <2>4, <3>1
  <2> QED BY <1>1, <2>2, <2>3, <2>4
<1>8. LenStartCode(w, at) = 0
  BY <1>1, <1>6, <1>7, CodeLength
<1> QED BY <1>8 DEF at

(* A start code is found where it has been put. *)
LEMMA CodeIsFound ==
  ASSUME NEW w \in Seq(Byte), NEW length \in {3, 4}, NEW from \in Nat,
         IsPartAt(StartCode(length), w, from)
  PROVE  LenStartCode(w, from + 1) = length
<1> DEFINE at == from + 1
<1>1. at \in Nat \ {0} /\ Len(w) \in Nat
  OBVIOUS
<1>2. at + 1 = from + 2 /\ at + 2 = from + 3 /\ at + 3 = from + 4
  OBVIOUS
<1>3. CASE length = 4
  <2>1. StartCode(length) = <<0, 0, 0, 1>> /\ Len(<<0, 0, 0, 1>>) = 4
    BY <1>3 DEF StartCode, StartCode4
  <2>2. from + 4 <= Len(w) /\ \A i \in 1 .. 4 : w[from + i] = <<0, 0, 0, 1>>[i]
    BY <2>1 DEF IsPartAt
  <2>3. w[from + 1] = 0 /\ w[from + 2] = 0 /\ w[from + 3] = 0 /\ w[from + 4] = 1
    BY <2>2
  <2>4. LongCodeAt(w, at)
    BY <1>2, <2>2, <2>3 DEF LongCodeAt
  <2> HIDE DEF at
  <2>5. LenStartCode(w, at) = 4
    BY <1>1, <2>4, CodeLength
  <2> QED BY <1>3, <2>5 DEF at
<1>4. CASE length = 3
  <2>1. StartCode(length) = <<0, 0, 1>> /\ Len(<<0, 0, 1>>) = 3
    BY <1>4 DEF StartCode, StartCode3
  <2>2. from + 3 <= Len(w) /\ \A i \in 1 .. 3 : w[from + i] = <<0, 0, 1>>[i]
    BY <2>1 DEF IsPartAt
  <2>3. w[from + 1] = 0 /\ w[from + 2] = 0 /\ w[from + 3] = 1
    BY <2>2
  <2>4. ShortCodeAt(w, at) /\ ~LongCodeAt(w, at)
    BY <1>2, <2>2, <2>3 DEF ShortCodeAt, LongCodeAt
  <2> HIDE DEF at
  <2>5. LenStartCode(w, at) = 3
    BY <1>1, <2>4, CodeLength
  <2> QED BY <1>4, <2>5 DEF at
<1> QED BY <1>3, <1>4

(* Units of an encoder, and the lengths of the start codes before them. *)
AreEncoded(us, cs) ==
  /\ us \in Seq(Seq(Byte)) /\ cs \in Seq({3, 4}) /\ Len(cs) = Len(us)
  /\ \A n \in 1 .. Len(us) : us[n] # <<>> /\ Encoded(us[n])

CodesOf(us, cs) == [n \in 1 .. Len(us) |-> StartCode(cs[n])]

(* A start code is a byte string of its length.                              *)
LEMMA CodeIsBytes ==
  ASSUME NEW length \in {3, 4}
  PROVE  StartCode(length) \in Seq(Byte) /\ Len(StartCode(length)) = length
<1>1. 0 \in Byte /\ 1 \in Byte
  BY BaseAssumption DEF Byte
<1> HIDE DEF Byte
<1>2. <<0, 0, 1>> \in Seq(Byte) /\ Len(<<0, 0, 1>>) = 3
  BY <1>1
<1>3. <<0, 0, 0, 1>> \in Seq(Byte) /\ Len(<<0, 0, 0, 1>>) = 4
  BY <1>1
<1>4. CASE length = 3
  BY <1>2, <1>4 DEF StartCode, StartCode3
<1>5. CASE length = 4
  BY <1>3, <1>5 DEF StartCode, StartCode4
<1> QED BY <1>4, <1>5

(* What is at the places of encoded units behind their start codes. *)
LEMMA PlacesOfCodes ==
  ASSUME NEW w \in Seq(Byte), NEW us, NEW cs, NEW o, AreEncoded(us, cs),
         LaidOut(w, CodesOf(us, cs), us, o), NEW n \in 1 .. Len(us)
  PROVE  /\ cs[n] \in {3, 4} /\ us[n] \in Seq(Byte) /\ us[n] # <<>>
         /\ o[n] \in 1 .. Len(w) - 3
         /\ o[n + 1] \in Nat /\ o[n] + cs[n] < o[n + 1]
         /\ o[n + 1] <= Len(w) + 1
         /\ LenStartCode(w, o[n]) = cs[n]
         /\ \A i \in o[n] + cs[n] .. o[n + 1] - 1 : LenStartCode(w, i) = 0
         /\ SubSeq(w, o[n] + cs[n], o[n + 1] - 1) = us[n]
<1> DEFINE u == us[n]
           c == cs[n]
           a == o[n]
           l == Len(u)
           from == a - 1 + c
           size == Len(w)
<1>1. /\ u \in Seq(Byte) /\ u # <<>> /\ Encoded(u) /\ c \in {3, 4}
      /\ Len(us) \in Nat
  BY ElementOfSeq DEF AreEncoded
<1>2. CodesOf(us, cs)[n] = StartCode(c)
  BY DEF CodesOf
<1>3. StartCode(c) \in Seq(Byte) /\ Len(StartCode(c)) = c
  BY <1>1, CodeIsBytes
<1>4. /\ a \in Nat \ {0} /\ o[n + 1] = a + c + l
      /\ IsPartAt(StartCode(c), w, a - 1) /\ IsPartAt(u, w, from)
  <2>1. n \in 1 .. Len(us) + 1
    BY <1>1
  <2>2. a \in Nat \ {0}
    BY <2>1 DEF LaidOut
  <2> QED BY <1>2, <1>3, <2>2 DEF LaidOut
<1> HIDE DEF u, c, a, Byte
<1>5. l \in Nat /\ l >= 1 /\ size \in Nat
  BY <1>1, EmptySeq, LenProperties
<1>6. from \in Nat /\ from + 1 = a + c /\ from + l = (a + c + l) - 1
      /\ from + l <= size
  <2>1. from + l <= size
    BY <1>4 DEF IsPartAt
  <2> HIDE DEF l, size
  <2> QED BY <1>1, <1>4, <1>5, <2>1
<1> HIDE DEF l, from, size
<1>7. LenStartCode(w, a) = c
  <2>1. a - 1 \in Nat /\ (a - 1) + 1 = a
    BY <1>4
  <2> QED BY <1>1, <1>4, <2>1, CodeIsFound
<1>8. ASSUME NEW i \in a + c .. (a + c + l) - 1
      PROVE  LenStartCode(w, i) = 0
  <2> DEFINE j == i - from
  <2>1. j \in 1 .. l /\ from + j = i
    BY <1>1, <1>4, <1>5, <1>6
  <2> HIDE DEF j
  <2>2. j \in 1 .. Len(u)
    BY <2>1 DEF l
  <2>3. LenStartCode(w, from + j) = 0
    BY <1>1, <1>4, <1>6, <2>2, NoCodeInside
  <2> QED BY <2>1, <2>3
<1>9. SubSeq(w, a + c, (a + c + l) - 1) = u
  <2>1. SubSeq(w, from + 1, from + l) = u
    BY <1>1, <1>4, <1>6, PartIsSub DEF l
  <2> QED BY <1>6, <2>1
<1>10. /\ a \in 1 .. size - 3 /\ a + c + l \in Nat /\ a + c < a + c + l
       /\ a + c + l <= size + 1
  BY <1>1, <1>4, <1>5, <1>6
<1> QED BY <1>1, <1>4, <1>7, <1>8, <1>9, <1>10 DEF u, c, a, size
(***************************************************************************)
(* SplitAnnexB.                                                            *)
(***************************************************************************)
(* What CodesFrom finds at i, given what it finds at the places behind. *)
CodesGiven(b, i, from) ==
  IF i > Len(b) THEN <<>>
  ELSE IF LenStartCode(b, i) > 0
       THEN <<i>> \o from[i + LenStartCode(b, i)]
  ELSE from[i + 1]

(* CodesFrom satisfies its own equation: the start codes from a place on are *)
(* the one there, if any, and those behind it.                               *)
LEMMA CodesFromSteps ==
  ASSUME NEW b \in Seq(Byte)
  PROVE  \A i \in 1 .. Len(b) + 1 :
           CodesFrom(b)[i] = CodesGiven(b, i, CodesFrom(b))
<1> DEFINE len == Len(b) + 1
           X == Seq(Nat)
           body == [p \in (1 .. len) \X [1 .. len -> X] |->
                      CodesGiven(b, p[1], p[2])]
<1>1. len \in Nat /\ Len(b) \in Nat /\ len = Len(b) + 1
  OBVIOUS
<1>2. X # {}
  <2>1. <<>> \in X
    OBVIOUS
  <2> QED BY <2>1
<1>3. \A i \in 1 .. len : LenStartCode(b, i) > 0 =>
        i + LenStartCode(b, i) \in i + 1 .. len
  BY <1>1, CodeFits
<1> HIDE DEF len
<1>4. ASSUME NEW i \in 1 .. len, NEW g \in [1 .. len -> X]
      PROVE  CodesGiven(b, i, g) \in X
  <2>1. CASE i > Len(b)
    BY <2>1 DEF CodesGiven
  <2>2. CASE i <= Len(b) /\ LenStartCode(b, i) > 0
    <3> DEFINE r == g[i + LenStartCode(b, i)]
    <3>1. r \in Seq(Nat)
      BY <1>1, <1>3, <2>2
    <3>2. CodesGiven(b, i, g) = <<i>> \o r
      BY <1>1, <2>2 DEF CodesGiven
    <3> HIDE DEF r
    <3>3. <<i>> \o r \in Seq(Nat)
      BY <1>1, <3>1
    <3> QED BY <3>2, <3>3
  <2>3. CASE i <= Len(b) /\ ~(LenStartCode(b, i) > 0)
    <3>1. i + 1 \in 1 .. len
      BY <1>1, <2>3
    <3>2. CodesGiven(b, i, g) = g[i + 1]
      BY <1>1, <2>3 DEF CodesGiven
    <3> QED BY <3>1, <3>2
  <2> QED BY <1>1, <2>1, <2>2, <2>3
<1>5. IsBody(body, X, len)
  BY <1>4 DEF IsBody
<1>6. \A i \in 1 .. len, g \in [1 .. len -> X] :
        body[<<i, g>>] = CodesGiven(b, i, g)
  OBVIOUS
<1> HIDE DEF body
<1>7. LooksAhead(body, X, len)
  <2>1. ASSUME NEW i \in 1 .. len,
               NEW g \in [1 .. len -> X], NEW h \in [1 .. len -> X],
               \A j \in i + 1 .. len : g[j] = h[j]
        PROVE  body[<<i, g>>] = body[<<i, h>>]
    <3>1. CASE i > Len(b)
      <4>1. CodesGiven(b, i, g) = CodesGiven(b, i, h)
        BY <3>1 DEF CodesGiven
      <4> QED BY <1>6, <4>1
    <3>2. CASE i <= Len(b) /\ LenStartCode(b, i) > 0
      <4>1. g[i + LenStartCode(b, i)] = h[i + LenStartCode(b, i)]
        BY <1>3, <2>1, <3>2
      <4>2. CodesGiven(b, i, g) = CodesGiven(b, i, h)
        BY <1>1, <3>2, <4>1 DEF CodesGiven
      <4> QED BY <1>6, <4>2
    <3>3. CASE i <= Len(b) /\ ~(LenStartCode(b, i) > 0)
      <4>1. g[i + 1] = h[i + 1]
        BY <1>1, <2>1, <3>3
      <4>2. CodesGiven(b, i, g) = CodesGiven(b, i, h)
        BY <1>1, <3>3, <4>1 DEF CodesGiven
      <4> QED BY <1>6, <4>2
    <3> QED BY <1>1, <3>1, <3>2, <3>3
  <2> HIDE DEF X
  <2> QED BY <2>1 DEF LooksAhead
<1>8. PICK f : FollowsBody(f, body, X, len)
  <2> HIDE DEF X
  <2> QED BY <1>1, <1>2, <1>5, <1>7, LaterExists
<1>9. f = [i \in 1 .. Len(b) + 1 |-> CodesGiven(b, i, f)]
  BY <1>1, <1>6, <1>8 DEF FollowsBody
<1> DEFINE u == CHOOSE g : g = [i \in 1 .. Len(b) + 1 |-> CodesGiven(b, i, g)]
<1>10. u = [i \in 1 .. Len(b) + 1 |-> CodesGiven(b, i, u)]
  BY <1>9
<1>11. CodesFrom(b) = u
  BY DEF CodesFrom, CodesGiven
<1> HIDE DEF u
<1> QED BY <1>10, <1>11

(* What is the same at each place as at the next one is the same throughout. *)
LEMMA Throughout ==
  ASSUME NEW f, NEW a \in Nat, NEW b \in Nat, a <= b,
         \A i \in a .. b - 1 : f[i] = f[i + 1]
  PROVE  f[a] = f[b]
<1> DEFINE len == b - a
           S == {d \in Nat : f[a + d] = f[a]}
<1>1. len \in Nat /\ len \in 0 .. len /\ a + len = b
  OBVIOUS
<1>2. 0 \in S
  OBVIOUS
<1>3. ASSUME NEW d \in 1 .. len, d - 1 \in S
      PROVE  d \in S
  <2>1. a + (d - 1) \in a .. b - 1 /\ (a + (d - 1)) + 1 = a + d
    OBVIOUS
  <2>2. f[a + (d - 1)] = f[a] /\ d \in Nat
    BY <1>3
  <2> QED BY <2>1, <2>2
<1>4. \A d \in 0 .. len : d \in S
  <2> HIDE DEF S, len
  <2> QED BY <1>1, <1>2, <1>3, InductionUpTo
<1>5. len \in S
  <2> HIDE DEF S, len
  <2> QED BY <1>1, <1>4
<1>6. f[a + len] = f[a]
  BY <1>5
<1> QED BY <1>1, <1>6

(* The start codes that are found are those that have been put there. *)
LEMMA CodesAreFound ==
  ASSUME NEW w \in Seq(Byte), NEW us, NEW cs, NEW o, AreEncoded(us, cs),
         LaidOut(w, CodesOf(us, cs), us, o)
  PROVE  StartCodes(w) = [n \in 1 .. Len(us) |-> o[n]]
<1> HIDE DEF Byte
<1> DEFINE len == Len(us)
           places == [n \in 1 .. len |-> o[n]]
           rest(n) == SubSeq(places, n, len)
           From == CodesFrom(w)
           S == {n \in 1 .. len + 1 : From[o[n]] = rest(n)}
<1>1. len \in Nat /\ Len(w) \in Nat
  BY LenProperties DEF AreEncoded
<1> HIDE DEF len
<1>2. \A n \in 1 .. len :
        /\ o[n] \in 1 .. Len(w) - 3 /\ cs[n] \in {3, 4}
        /\ o[n + 1] \in Nat /\ o[n] + cs[n] < o[n + 1]
        /\ o[n + 1] <= Len(w) + 1
        /\ LenStartCode(w, o[n]) = cs[n]
        /\ \A i \in o[n] + cs[n] .. o[n + 1] - 1 : LenStartCode(w, i) = 0
  BY PlacesOfCodes DEF len
<1>3. \A i \in 1 .. Len(w) + 1 : From[i] = CodesGiven(w, i, From)
  BY CodesFromSteps
<1> HIDE DEF From
<1>4. places \in Seq(Nat) /\ Len(places) = len
  <2>1. places \in [1 .. len -> Nat]
    BY <1>1, <1>2
  <2> HIDE DEF places
  <2> QED BY <1>1, <2>1
<1>5. len + 1 \in S
  <2>1. o[len + 1] = Len(w) + 1
    BY DEF LaidOut, len
  <2>2. From[Len(w) + 1] = <<>>
    <3>1. Len(w) + 1 \in 1 .. Len(w) + 1 /\ Len(w) + 1 > Len(w)
      BY <1>1
    <3>2. From[Len(w) + 1] = CodesGiven(w, Len(w) + 1, From)
      BY <1>3, <3>1
    <3> QED BY <3>1, <3>2 DEF CodesGiven
  <2>3. rest(len + 1) = <<>>
    <3> HIDE DEF places
    <3>1. len + 1 \in Int /\ len \in Int /\ len < len + 1
      BY <1>1
    <3> QED BY <3>1, SubSeqEmpty
  <2>4. len + 1 \in 1 .. len + 1
    BY <1>1
  <2> HIDE DEF rest
  <2> QED BY <2>1, <2>2, <2>3, <2>4
<1>6. ASSUME NEW n \in 1 .. (len + 1) - 1, n + 1 \in S
      PROVE  n \in S
  <2> DEFINE a == o[n]
             c == cs[n]
             z == o[n + 1]
  <2>1. n \in 1 .. len /\ n \in 1 .. len + 1
    BY <1>1
  <2>2. /\ a \in 1 .. Len(w) - 3 /\ c \in {3, 4} /\ z \in Nat
        /\ a + c < z /\ z <= Len(w) + 1
        /\ LenStartCode(w, a) = c
        /\ \A i \in a + c .. z - 1 : LenStartCode(w, i) = 0
    BY <1>2, <2>1
  <2>3. From[z] = rest(n + 1)
    BY <1>6
  <2>4. rest(n) = <<a>> \o rest(n + 1)
    <3>1. n \in 1 .. Len(places) /\ len \in n .. Len(places) /\ places[n] = a
      BY <1>1, <1>4, <2>1
    <3> HIDE DEF places
    <3> QED BY <1>4, <3>1, SubSeqRecursiveFirst
  <2> HIDE DEF a, c, z, rest
  <2>5. From[a + c] = From[z]
    <3>1. ASSUME NEW i \in a + c .. z - 1
          PROVE  From[i] = From[i + 1]
      <4>1. i \in 1 .. Len(w) + 1 /\ ~(i > Len(w)) /\ LenStartCode(w, i) = 0
        BY <1>1, <2>2
      <4>2. From[i] = CodesGiven(w, i, From)
        BY <1>3, <4>1
      <4> QED BY <4>1, <4>2 DEF CodesGiven
    <3>2. a + c \in Nat /\ a + c <= z
      BY <1>1, <2>2
    <3> QED BY <2>2, <3>1, <3>2, Throughout
  <2>6. From[a] = <<a>> \o From[a + c]
    <3>1. a \in 1 .. Len(w) + 1 /\ ~(a > Len(w)) /\ c > 0
      BY <1>1, <2>2
    <3> QED BY <1>3, <2>2, <3>1 DEF CodesGiven
  <2>7. From[a] = rest(n)
    BY <2>3, <2>4, <2>5, <2>6
  <2> QED BY <2>1, <2>7 DEF a
<1>7. 1 \in S
  <2> DEFINE top == len + 1
  <2>1. top \in Nat /\ 1 \in 1 .. top
    BY <1>1
  <2>2. top \in S /\ \A n \in 1 .. top - 1 : n + 1 \in S => n \in S
    BY <1>5, <1>6
  <2> HIDE DEF S, top
  <2>3. \A n \in 1 .. top : n \in S
    BY <2>1, <2>2, InductionDown
  <2> QED BY <2>1, <2>3
<1>8. rest(1) = places
  <2> HIDE DEF places
  <2> QED BY <1>4, SubSeqFull
<1>9. o[1] = 1
  BY DEF LaidOut
<1>10. From[1] = places
  <2> HIDE DEF rest, places
  <2> QED BY <1>7, <1>8, <1>9
<1> QED BY <1>10 DEF StartCodes, From, len

(* Units that are not empty are all the units that have bytes. *)
LEMMA AllNonEmpty ==
  ASSUME NEW X, NEW us \in Seq(X), \A n \in 1 .. Len(us) : us[n] # <<>>
  PROVE  NonEmpty(us) = us
<1> DEFINE len == Len(us)
           Step(f, n) == IF n = 0 THEN <<>>
                         ELSE IF us[n] = <<>> THEN f[n - 1]
                         ELSE Append(f[n - 1], us[n])
           first(n) == SubSeq(us, 1, n)
           g == [n \in 0 .. len |-> first(n)]
           h == CHOOSE f : f = [n \in 0 .. len |-> Step(f, n)]
<1>1. len \in Nat
  OBVIOUS
<1> HIDE DEF len
<1>2. first(0) = <<>>
  BY SubSeqEmpty
<1>3. \A n \in 1 .. len : first(n) = Append(first(n - 1), us[n])
  <2> SUFFICES ASSUME NEW n \in 1 .. len
               PROVE  first(n) = Append(first(n - 1), us[n])
    OBVIOUS
  <2>1. 1 \in 1 .. Len(us) /\ n \in 1 .. Len(us) /\ n - 1 \in 0 .. Len(us)
    BY <1>1 DEF len
  <2>2. first(n) = first(n - 1) \o <<us[n]>>
    BY <2>1, SubSeqRecursiveSecond
  <2>3. us[n] \in X
    BY <2>1, ElementOfSeq
  <2>4. first(n - 1) \in Seq(X)
    <3>1. 1 \in Int /\ n - 1 \in Int /\ \A i \in 1 .. n - 1 : us[i] \in X
      BY <2>1, ElementOfSeq
    <3> QED BY <3>1, SubSeqProperties
  <2> HIDE DEF first
  <2> QED BY <2>2, <2>3, <2>4, AppendIsConcat
<1> HIDE DEF first
<1>4. g = [n \in 0 .. len |-> Step(g, n)]
  <2>1. ASSUME NEW n \in 0 .. len
        PROVE  g[n] = Step(g, n)
    <3>1. CASE n = 0
      BY <1>1, <1>2, <3>1
    <3>2. CASE n # 0
      <4>1. n \in 1 .. len /\ n - 1 \in 0 .. len
        BY <1>1, <3>2
      <4>2. us[n] # <<>>
        BY <4>1 DEF len
      <4>3. g[n] = first(n) /\ g[n - 1] = first(n - 1)
        BY <4>1
      <4> HIDE DEF g
      <4> QED BY <1>3, <3>2, <4>1, <4>2, <4>3
    <3> QED BY <3>1, <3>2
  <2> QED BY <2>1
<1>5. h = [n \in 0 .. len |-> Step(h, n)]
  <2> HIDE DEF g, Step
  <2> QED BY <1>4
<1>6. NonEmpty(us) = h[len]
  BY DEF NonEmpty, len
<1> HIDE DEF h
<1> DEFINE S == {n \in 0 .. len : h[n] = first(n)}
<1>7. 0 \in S
  BY <1>1, <1>2, <1>5
<1>8. ASSUME NEW n \in 1 .. len, n - 1 \in S
      PROVE  n \in S
  <2>1. n \in 0 .. len /\ n # 0 /\ us[n] # <<>>
    BY <1>1 DEF len
  <2>2. h[n] = Append(h[n - 1], us[n])
    BY <1>5, <2>1
  <2>3. h[n - 1] = first(n - 1)
    BY <1>8
  <2> QED BY <1>3, <2>1, <2>2, <2>3
<1>9. \A n \in 0 .. len : n \in S
  <2> HIDE DEF S
  <2> QED BY <1>1, <1>7, <1>8, InductionUpTo
<1>10. h[len] = first(len)
  <2>1. len \in 0 .. len
    BY <1>1
  <2> QED BY <1>9, <2>1
<1>11. first(len) = us
  BY SubSeqFull DEF first, len
<1> QED BY <1>6, <1>10, <1>11

(* Encoded units behind their start codes come back one by one. *)
LEMMA CodesAreSplit ==
  ASSUME NEW w \in Seq(Byte), NEW us, NEW cs, NEW o, AreEncoded(us, cs),
         LaidOut(w, CodesOf(us, cs), us, o)
  PROVE  SplitAnnexB(w) = us
<1> HIDE DEF Byte
<1> DEFINE len == Len(us)
           places == [n \in 1 .. len |-> o[n]]
<1>1. /\ us \in Seq(Seq(Byte)) /\ len \in Nat /\ Len(w) \in Nat
      /\ \A n \in 1 .. len : us[n] # <<>>
  BY LenProperties DEF AreEncoded
<1>2. StartCodes(w) = places
  BY CodesAreFound
<1>3. DOMAIN places = 1 .. len /\ Len(places) = len
  BY <1>1
<1>4. ASSUME NEW n \in 1 .. len
      PROVE  UnitBehind(w, places, n) = us[n]
  <2>1. /\ LenStartCode(w, o[n]) = cs[n]
        /\ SubSeq(w, o[n] + cs[n], o[n + 1] - 1) = us[n]
    BY PlacesOfCodes
  <2>2. places[n] = o[n]
    OBVIOUS
  <2>3. (IF n < len THEN places[n + 1] - 1 ELSE Len(w)) = o[n + 1] - 1
    <3>1. CASE n < len
      <4>1. n + 1 \in 1 .. len
        BY <1>1, <3>1
      <4> QED BY <3>1, <4>1
    <3>2. CASE ~(n < len)
      <4>1. n = len
        BY <1>1, <3>2
      <4>2. o[len + 1] = Len(w) + 1
        BY DEF LaidOut
      <4> QED BY <1>1, <3>2, <4>1, <4>2
    <3> QED BY <3>1, <3>2
  <2> HIDE DEF places
  <2> QED BY <1>3, <2>1, <2>2, <2>3 DEF UnitBehind
<1>5. [n \in DOMAIN places |-> UnitBehind(w, places, n)] = us
  <2>1. us = [n \in 1 .. len |-> us[n]]
    BY <1>1
  <2> HIDE DEF places
  <2> QED BY <1>3, <1>4, <2>1
<1>6. NonEmpty(us) = us
  BY <1>1, AllNonEmpty
<1> HIDE DEF places
<1> QED BY <1>2, <1>5, <1>6 DEF SplitAnnexB

(***************************************************************************)
(* AnnexBToAVCC.                                                           *)
(***************************************************************************)
LEMMA LeastIs ==
  ASSUME NEW T \in SUBSET Nat, NEW m \in T, \A j \in T : m <= j
  PROVE  Least(T) = m
<1>1. Least(T) \in T /\ \A j \in T : Least(T) <= j
  BY DEF Least
<1> DEFINE l == Least(T)
<1>2. l \in Nat /\ m \in Nat /\ l <= m /\ m <= l
  BY <1>1
<1> HIDE DEF l
<1>3. l = m
  BY <1>2
<1> QED BY <1>3 DEF l

(* A set of numbers that is not empty has a least one.                       *)
LEMMA LeastExists ==
  ASSUME NEW T \in SUBSET Nat, T # {}
  PROVE  Least(T) \in T
  BY SmallestExists DEF Least

(* What AVCCFrom finds at i, given what it finds at the places behind. *)
NextUnit(b, i) ==
  SubSeq(b, FindNextAnnexBNALUnit(b, i).nalStart,
            FindNextAnnexBNALUnit(b, i).nalEnd - 1)

AVCCGiven(b, i, from) ==
  IF i > Len(b) \/ SeenCodes(b, i) = {} THEN <<>>
  ELSE LengthBytes(Len(NextUnit(b, i))) \o NextUnit(b, i)
         \o from[FindNextAnnexBNALUnit(b, i).nalEnd]

(* Whatever its length, four bytes are written for it. *)
LEMMA AnyLengthIsBytes ==
  ASSUME NEW n \in Nat
  PROVE  LengthBytes(n) \in Seq(Byte)
<1>1. /\ Base \in Nat \ {0} /\ Base * Base \in Nat \ {0}
      /\ Base * Base * Base \in Nat \ {0}
  <2>1. Base \in Nat \ {0} /\ Base * Base \in Nat \ {0}
    BY BaseAssumption
  <2>2. (Base * Base) * Base \in Nat \ {0}
    BY <2>1
  <2> QED BY <2>1, <2>2
<1>2. \A a \in Nat : a % Base \in Byte
  BY <1>1, Divided DEF Byte
<1>3. /\ n \div Base \in Nat /\ n \div (Base * Base) \in Nat
      /\ n \div (Base * Base * Base) \in Nat
  BY <1>1, Divided
<1> DEFINE a == (n \div (Base * Base * Base)) % Base
           b == (n \div (Base * Base)) % Base
           c == (n \div Base) % Base
           d == n % Base
<1>4. a \in Byte /\ b \in Byte /\ c \in Byte /\ d \in Byte
  BY <1>2, <1>3
<1>5. LengthBytes(n) = <<a, b, c, d>>
  BY DEF LengthBytes
<1> HIDE DEF a, b, c, d, Byte
<1> QED BY <1>4, <1>5

(* Where the next unit is. *)
LEMMA NextUnitIs ==
  ASSUME NEW b \in Seq(Byte), NEW i \in 1 .. Len(b), SeenCodes(b, i) # {}
  PROVE  /\ FindNextAnnexBNALUnit(b, i).nalEnd \in i + 1 .. Len(b) + 1
         /\ NextUnit(b, i) \in Seq(Byte)
<1> DEFINE at == Least(SeenCodes(b, i))
           start == at + LenStartCode(b, at)
           seen == SeenCodes(b, start)
           end == IF seen = {} THEN Len(b) + 1 ELSE Least(seen)
<1>1. Len(b) \in Nat
  OBVIOUS
<1>2. at \in i .. Len(b) - 3 /\ LenStartCode(b, at) > 0
  <2>1. SeenCodes(b, i) \in SUBSET Nat
    BY DEF SeenCodes
  <2>2. at \in SeenCodes(b, i)
    BY <2>1, LeastExists
  <2> HIDE DEF at
  <2> QED BY <2>2 DEF SeenCodes
<1>3. FindNextAnnexBNALUnit(b, i) = [nalStart |-> start, nalEnd |-> end]
  BY DEF FindNextAnnexBNALUnit
<1> HIDE DEF at
<1>4. start \in i + 1 .. Len(b) + 1
  <2>1. at \in Nat \ {0}
    BY <1>2
  <2>2. LenStartCode(b, at) \in {3, 4} /\ start <= Len(b) + 1
    BY <1>2, <2>1, CodeFits
  <2> QED BY <1>1, <1>2, <2>2
<1> HIDE DEF start
<1>5. end \in start .. Len(b) + 1
  <2>1. CASE seen = {}
    BY <1>1, <1>4, <2>1
  <2>2. CASE seen # {}
    <3>1. seen \in SUBSET Nat
      BY <1>4 DEF SeenCodes
    <3>2. Least(seen) \in seen
      BY <2>2, <3>1, LeastExists
    <3>3. Least(seen) \in start .. Len(b) - 3
      BY <3>2 DEF SeenCodes
    <3>4. end = Least(seen)
      BY <2>2
    <3> QED BY <1>1, <1>4, <3>3, <3>4
  <2> QED BY <2>1, <2>2
<1> HIDE DEF end
<1>6. NextUnit(b, i) = SubSeq(b, start, end - 1)
  <2>1. /\ FindNextAnnexBNALUnit(b, i).nalStart = start
        /\ FindNextAnnexBNALUnit(b, i).nalEnd = end
    BY <1>3
  <2> QED BY <2>1 DEF NextUnit
<1>7. SubSeq(b, start, end - 1) \in Seq(Byte)
  <2>1. start \in Int /\ end - 1 \in Int
    BY <1>1, <1>4, <1>5
  <2>2. \A j \in start .. end - 1 : b[j] \in Byte
    <3>1. \A j \in start .. end - 1 : j \in 1 .. Len(b)
      BY <1>1, <1>4, <1>5
    <3> QED BY <3>1, ElementOfSeq
  <2> HIDE DEF Byte
  <2> QED BY <2>1, <2>2, SubSeqProperties
<1>8. FindNextAnnexBNALUnit(b, i).nalEnd = end
  BY <1>3
<1>9. end \in i + 1 .. Len(b) + 1
  BY <1>1, <1>4, <1>5
<1> QED BY <1>6, <1>7, <1>8, <1>9

(* AVCCFrom satisfies its own equation: AnnexBToAVCC writes the length and   *)
(* the bytes of the next unit, and goes on behind it.                        *)
LEMMA AVCCFromSteps ==
  ASSUME NEW b \in Seq(Byte)
  PROVE  \A i \in 1 .. Len(b) + 1 :
           AVCCFrom(b)[i] = AVCCGiven(b, i, AVCCFrom(b))
<1> DEFINE len == Len(b) + 1
           X == Seq(Byte)
           next(i) == FindNextAnnexBNALUnit(b, i).nalEnd
           body == [p \in (1 .. len) \X [1 .. len -> X] |->
                      AVCCGiven(b, p[1], p[2])]
           None(i) == i > Len(b) \/ SeenCodes(b, i) = {}
<1>1. len \in Nat /\ Len(b) \in Nat /\ len = Len(b) + 1
  OBVIOUS
<1>2. X # {}
  <2>1. <<>> \in X
    OBVIOUS
  <2> QED BY <2>1
<1>3. \A i \in 1 .. len : ~None(i) =>
        /\ next(i) \in i + 1 .. len
        /\ NextUnit(b, i) \in Seq(Byte)
  BY <1>1, NextUnitIs
<1>4. \A g : \A i \in 1 .. len :
        /\ None(i) => AVCCGiven(b, i, g) = <<>>
        /\ ~None(i) => AVCCGiven(b, i, g) =
             LengthBytes(Len(NextUnit(b, i))) \o NextUnit(b, i) \o g[next(i)]
  BY DEF AVCCGiven
<1> HIDE DEF len, None, next, Byte
<1>5. ASSUME NEW i \in 1 .. len, NEW g \in [1 .. len -> X]
      PROVE  AVCCGiven(b, i, g) \in X
  <2>1. CASE None(i)
    <3>1. AVCCGiven(b, i, g) = <<>>
      BY <1>4, <2>1
    <3>2. <<>> \in X
      OBVIOUS
    <3> QED BY <3>1, <3>2
  <2>2. CASE ~None(i)
    <3> DEFINE r == g[next(i)]
               unit == NextUnit(b, i)
               size == LengthBytes(Len(unit))
    <3>1. unit \in Seq(Byte)
      BY <1>3, <2>2
    <3>2. r \in Seq(Byte)
      <4>1. next(i) \in 1 .. len
        BY <1>1, <1>3, <2>2
      <4> QED BY <4>1
    <3>3. size \in Seq(Byte)
      <4>1. Len(unit) \in Nat
        BY <3>1, LenProperties
      <4> QED BY <4>1, AnyLengthIsBytes
    <3>4. AVCCGiven(b, i, g) = size \o unit \o r
      BY <1>4, <2>2
    <3> HIDE DEF r, unit, size
    <3>5. size \o unit \in Seq(Byte)
      BY <3>1, <3>3, ConcatProperties
    <3>6. size \o unit \o r \in Seq(Byte)
      BY <3>2, <3>5, ConcatProperties
    <3> QED BY <3>4, <3>6
  <2> QED BY <2>1, <2>2
<1>6. IsBody(body, X, len)
  BY <1>5 DEF IsBody
<1>7. \A i \in 1 .. len, g \in [1 .. len -> X] :
        body[<<i, g>>] = AVCCGiven(b, i, g)
  OBVIOUS
<1> HIDE DEF body
<1>8. LooksAhead(body, X, len)
  <2>1. ASSUME NEW i \in 1 .. len,
               NEW g \in [1 .. len -> X], NEW h \in [1 .. len -> X],
               \A j \in i + 1 .. len : g[j] = h[j]
        PROVE  body[<<i, g>>] = body[<<i, h>>]
    <3>1. CASE None(i)
      BY <1>4, <1>7, <3>1
    <3>2. CASE ~None(i)
      <4>1. g[next(i)] = h[next(i)]
        BY <1>3, <2>1, <3>2
      <4>2. AVCCGiven(b, i, g) = AVCCGiven(b, i, h)
        BY <1>4, <3>2, <4>1
      <4> QED BY <1>7, <4>2
    <3> QED BY <3>1, <3>2
  <2> HIDE DEF X
  <2> QED BY <2>1 DEF LooksAhead
<1>9. PICK f : FollowsBody(f, body, X, len)
  <2> HIDE DEF X
  <2> QED BY <1>1, <1>2, <1>6, <1>8, LaterExists
<1>10. f = [i \in 1 .. Len(b) + 1 |-> AVCCGiven(b, i, f)]
  BY <1>1, <1>7, <1>9 DEF FollowsBody
<1> DEFINE u == CHOOSE g : g = [i \in 1 .. Len(b) + 1 |-> AVCCGiven(b, i, g)]
<1>11. u = [i \in 1 .. Len(b) + 1 |-> AVCCGiven(b, i, u)]
  BY <1>10
<1>12. AVCCFrom(b) = u
  BY DEF AVCCFrom, AVCCGiven, NextUnit
<1> HIDE DEF u
<1> QED BY <1>11, <1>12

(* FindNextAnnexBNALUnit finds each unit whole. *)
LEMMA UnitIsFound ==
  ASSUME NEW w \in Seq(Byte), NEW us, NEW cs, NEW o, AreEncoded(us, cs),
         LaidOut(w, CodesOf(us, cs), us, o), NEW n \in 1 .. Len(us)
  PROVE  /\ SeenCodes(w, o[n]) # {}
         /\ FindNextAnnexBNALUnit(w, o[n]).nalEnd = o[n + 1]
         /\ NextUnit(w, o[n]) = us[n]
<1> DEFINE len == Len(us)
           a == o[n]
           c == cs[n]
           z == o[n + 1]
           size == Len(w)
<1>1. len \in Nat /\ size \in Nat
  BY LenProperties DEF AreEncoded
<1>2. /\ a \in 1 .. size - 3 /\ c \in {3, 4} /\ z \in Nat
      /\ a + c < z /\ z <= size + 1
      /\ LenStartCode(w, a) = c
      /\ \A i \in a + c .. z - 1 : LenStartCode(w, i) = 0
      /\ SubSeq(w, a + c, z - 1) = us[n]
  BY PlacesOfCodes
<1>3. (n < len => /\ z \in 1 .. size - 3 /\ LenStartCode(w, z) \in {3, 4})
      /\ (~(n < len) => z = size + 1)
  <2>1. CASE n < len
    <3>1. n + 1 \in 1 .. len
      BY <1>1, <2>1
    <3>2. /\ z \in 1 .. size - 3 /\ LenStartCode(w, z) = cs[n + 1]
          /\ cs[n + 1] \in {3, 4}
      BY <3>1, PlacesOfCodes
    <3> QED BY <2>1, <3>2
  <2>2. CASE ~(n < len)
    <3>1. n = len
      BY <1>1, <2>2
    <3>2. o[len + 1] = size + 1
      BY DEF LaidOut
    <3> QED BY <2>2, <3>1, <3>2
  <2> QED BY <2>1, <2>2
<1> HIDE DEF a, c, z, len, size, Byte
<1> DEFINE first == SeenCodes(w, a)
           seen == SeenCodes(w, a + c)
<1>4. Least(first) = a /\ first # {}
  <2>1. first \in SUBSET Nat
    BY <1>2 DEF SeenCodes
  <2>2. a \in first /\ \A j \in first : a <= j
    BY <1>1, <1>2 DEF SeenCodes, size
  <2> HIDE DEF first
  <2> QED BY <2>1, <2>2, LeastIs
<1>5. (IF seen = {} THEN size + 1 ELSE Least(seen)) = z
  <2>1. \A i \in seen : z <= i
    <3>1. ASSUME NEW i \in seen
          PROVE  z <= i
      <4>1. i \in a + c .. size - 3 /\ LenStartCode(w, i) > 0
        BY DEF SeenCodes, size
      <4>2. i \notin a + c .. z - 1
        BY <1>2, <4>1
      <4> QED BY <1>1, <1>2, <4>1, <4>2
    <3> QED BY <3>1
  <2>2. CASE n < len
    <3>1. z \in seen
      BY <1>1, <1>2, <1>3, <2>2 DEF SeenCodes, size
    <3>2. seen \in SUBSET Nat
      BY <1>2 DEF SeenCodes
    <3> HIDE DEF seen
    <3>3. Least(seen) = z /\ seen # {}
      BY <2>1, <3>1, <3>2, LeastIs
    <3> QED BY <3>3
  <2>3. CASE ~(n < len)
    <3>1. seen = {}
      <4> SUFFICES ASSUME NEW i \in seen PROVE FALSE
        OBVIOUS
      <4>1. i <= size - 3 /\ i \in Nat
        BY <1>1, <1>2 DEF SeenCodes, size
      <4> QED BY <1>1, <1>3, <2>1, <2>3, <4>1
    <3> HIDE DEF seen
    <3> QED BY <1>3, <2>3, <3>1
  <2> QED BY <2>2, <2>3
<1>6. FindNextAnnexBNALUnit(w, a) = [nalStart |-> a + c, nalEnd |-> z]
  BY <1>2, <1>4, <1>5 DEF FindNextAnnexBNALUnit, size
<1> HIDE DEF first, seen
<1>7. NextUnit(w, a) = us[n]
  BY <1>2, <1>6 DEF NextUnit
<1>8. FindNextAnnexBNALUnit(w, a).nalEnd = z
  BY <1>6
<1> QED BY <1>4, <1>7, <1>8 DEF a, z, first

(* Encoded units behind start codes are put behind their lengths. *)
LEMMA CodesAreReframed ==
  ASSUME NEW w \in Seq(Byte), NEW us, NEW cs, NEW o, AreEncoded(us, cs),
         LaidOut(w, CodesOf(us, cs), us, o), NEW frames,
         frames = [n \in 1 .. Len(us) |-> LengthBytes(Len(us[n])) \o us[n]]
  PROVE  AnnexBToAVCC(w) = Joined(frames)[Len(us)]
<1> HIDE DEF Byte
<1> DEFINE len == Len(us)
           J == Joined(frames)
           From == AVCCFrom(w)
           size(n) == LengthBytes(Len(us[n]))
           Comes(n) == From[o[n]] \in Seq(Byte)
                       /\ J[n - 1] \o From[o[n]] = J[len]
           S == {n \in 1 .. len + 1 : Comes(n)}
<1>1. us \in Seq(Seq(Byte)) /\ len \in Nat /\ Len(w) \in Nat
  BY LenProperties DEF AreEncoded
<1>2. \A n \in 1 .. len : us[n] \in Seq(Byte) /\ size(n) \in Seq(Byte)
  <2> SUFFICES ASSUME NEW n \in 1 .. len
               PROVE  us[n] \in Seq(Byte) /\ size(n) \in Seq(Byte)
    OBVIOUS
  <2>1. us[n] \in Seq(Byte) /\ Len(us[n]) \in Nat
    BY <1>1, ElementOfSeq, LenProperties
  <2> QED BY <2>1, AnyLengthIsBytes
<1>3. /\ frames \in Seq(Seq(Byte)) /\ Len(frames) = len
      /\ \A n \in 1 .. len : frames[n] = size(n) \o us[n]
  <2>1. \A n \in 1 .. len : size(n) \o us[n] \in Seq(Byte)
    <3> HIDE DEF size, len
    <3> QED BY <1>2, ConcatProperties
  <2>2. frames \in [1 .. len -> Seq(Byte)]
    BY <2>1
  <2>3. \A n \in 1 .. len : frames[n] = size(n) \o us[n]
    OBVIOUS
  <2> HIDE DEF size, len
  <2>4. frames \in Seq(Seq(Byte)) /\ Len(frames) = len
    BY <1>1, <2>2
  <2> QED BY <2>3, <2>4
<1>4. /\ J[0] = <<>> /\ \A n \in 1 .. len : J[n] = J[n - 1] \o frames[n]
      /\ \A n \in 0 .. len : J[n] \in Seq(Byte)
  BY <1>3, JoinedSteps
<1> HIDE DEF len, J, size
<1>5. \A n \in 1 .. len :
        /\ o[n] \in 1 .. Len(w)
        /\ SeenCodes(w, o[n]) # {}
        /\ FindNextAnnexBNALUnit(w, o[n]).nalEnd = o[n + 1]
        /\ NextUnit(w, o[n]) = us[n]
  <2> SUFFICES ASSUME NEW n \in 1 .. len
               PROVE  /\ o[n] \in 1 .. Len(w)
                      /\ SeenCodes(w, o[n]) # {}
                      /\ FindNextAnnexBNALUnit(w, o[n]).nalEnd = o[n + 1]
                      /\ NextUnit(w, o[n]) = us[n]
    OBVIOUS
  <2>1. n \in 1 .. Len(us)
    BY DEF len
  <2>2. o[n] \in 1 .. Len(w) - 3
    BY <2>1, PlacesOfCodes
  <2>3. o[n] \in 1 .. Len(w)
    BY <1>1, <2>2
  <2> QED BY <2>1, <2>3, UnitIsFound
<1>6. \A i \in 1 .. Len(w) + 1 : From[i] = AVCCGiven(w, i, From)
  BY AVCCFromSteps
<1> HIDE DEF From
<1>7. len + 1 \in S
  <2>1. o[len + 1] = Len(w) + 1
    BY DEF LaidOut, len
  <2>2. From[Len(w) + 1] = <<>>
    <3>1. Len(w) + 1 \in 1 .. Len(w) + 1 /\ Len(w) + 1 > Len(w)
      BY <1>1
    <3>2. From[Len(w) + 1] = AVCCGiven(w, Len(w) + 1, From)
      BY <1>6, <3>1
    <3> QED BY <3>1, <3>2 DEF AVCCGiven
  <2>3. J[len] \o <<>> = J[len]
    <3>1. len \in 0 .. len
      BY <1>1
    <3> QED BY <1>4, <3>1, ConcatEmptySeq
  <2>4. (len + 1) - 1 = len /\ len + 1 \in 1 .. len + 1
    BY <1>1
  <2>5. <<>> \in Seq(Byte)
    OBVIOUS
  <2>6. Comes(len + 1)
    BY <2>1, <2>2, <2>3, <2>4, <2>5
  <2> HIDE DEF Comes
  <2> QED BY <2>4, <2>6
<1>8. ASSUME NEW n \in 1 .. (len + 1) - 1, n + 1 \in S
      PROVE  n \in S
  <2> DEFINE rest == From[o[n + 1]]
             f == size(n) \o us[n]
             before == J[n - 1]
  <2>1. n \in 1 .. len /\ n \in 1 .. len + 1 /\ (n + 1) - 1 = n
        /\ n - 1 \in 0 .. len
    BY <1>1
  <2>2. rest \in Seq(Byte) /\ J[n] \o rest = J[len]
    <3>1. Comes(n + 1)
      BY <1>8
    <3> QED BY <2>1, <3>1
  <2>3. From[o[n]] = f \o rest
    <3>1. o[n] \in 1 .. Len(w) /\ o[n] \in 1 .. Len(w) + 1
      BY <1>1, <1>5, <2>1
    <3>2. From[o[n]] = AVCCGiven(w, o[n], From)
      BY <1>6, <3>1
    <3>3. ~(o[n] > Len(w) \/ SeenCodes(w, o[n]) = {})
      BY <1>1, <1>5, <2>1, <3>1
    <3>4. AVCCGiven(w, o[n], From) = LengthBytes(Len(us[n])) \o us[n] \o rest
      BY <1>5, <2>1, <3>3 DEF AVCCGiven
    <3> QED BY <3>2, <3>4 DEF size
  <2>4. f \in Seq(Byte) /\ J[n] = before \o f
    BY <1>2, <1>3, <1>4, <2>1, ConcatProperties
  <2>5. before \in Seq(Byte)
    BY <1>4, <2>1
  <2>6. before = J[n - 1]
    OBVIOUS
  <2> HIDE DEF rest, f, before, S, Comes
  <2>7. f \o rest \in Seq(Byte)
    BY <2>2, <2>4, ConcatProperties
  <2>8. before \o (f \o rest) = J[len]
    <3>1. Concats(J[n], before, f) /\ Concats(J[len], J[n], rest)
      BY <2>2, <2>4 DEF Concats
    <3>2. f \in Seq(Byte) /\ rest \in Seq(Byte)
      BY <2>2, <2>4
    <3>3. Concats(J[len], before, f \o rest)
      BY <2>5, <3>1, <3>2, JoinedBehind
    <3> QED BY <3>3 DEF Concats
  <2>9. Comes(n)
    BY <2>3, <2>6, <2>7, <2>8 DEF Comes
  <2> QED BY <2>1, <2>9 DEF S
<1>9. 1 \in S
  <2> DEFINE top == len + 1
  <2>1. top \in Nat /\ 1 \in 1 .. top
    BY <1>1
  <2>2. top \in S /\ \A n \in 1 .. top - 1 : n + 1 \in S => n \in S
    BY <1>7, <1>8
  <2> HIDE DEF S, top
  <2>3. \A n \in 1 .. top : n \in S
    BY <2>1, <2>2, InductionDown
  <2> QED BY <2>1, <2>3
<1>10. From[o[1]] \in Seq(Byte) /\ J[1 - 1] \o From[o[1]] = J[len]
  BY <1>9
<1>11. o[1] = 1 /\ J[1 - 1] = <<>> /\ <<>> \o From[o[1]] = From[o[1]]
  BY <1>4, <1>10, ConcatEmptySeq DEF LaidOut
<1>12. From[1] = J[len]
  BY <1>10, <1>11
<1> QED BY <1>12 DEF AnnexBToAVCC, From, J, len

(***************************************************************************)
(* UnitsSurvive.                                                           *)
(***************************************************************************)
(* The units behind their start codes. *)
LEMMA AnnexBLaidOut ==
  ASSUME UnitsInv
  PROVE  /\ AnnexB \in Seq(Byte)
         /\ LaidOut(AnnexB, CodesOf(units, codes), units, Starts(CodeFrames))
<1> HIDE DEF Byte
<1> DEFINE heads == CodesOf(units, codes)
           len == Len(units)
<1>1. /\ units \in Seq(Seq(Byte)) /\ codes \in Seq({3, 4})
      /\ Len(codes) = len /\ len \in Nat /\ DOMAIN units = 1 .. len
  BY UnitsAreShort DEF UnitsInv
<1> HIDE DEF len
<1>2. \A n \in 1 .. len : StartCode(codes[n]) \in Seq(Byte)
  <2> SUFFICES ASSUME NEW n \in 1 .. len
               PROVE  StartCode(codes[n]) \in Seq(Byte)
    OBVIOUS
  <2>1. codes[n] \in {3, 4}
    <3>1. n \in 1 .. Len(codes)
      BY <1>1
    <3> QED BY <1>1, <3>1, ElementOfSeq
  <2> QED BY <2>1, CodeIsBytes
<1>3. heads = [n \in 1 .. len |-> StartCode(codes[n])]
  BY DEF CodesOf, len
<1>4. heads \in Seq(Seq(Byte)) /\ Len(heads) = len
  <2>1. heads \in [1 .. len -> Seq(Byte)]
    BY <1>2, <1>3
  <2> HIDE DEF heads
  <2> QED BY <1>1, <2>1
<1>5. CodeFrames = [n \in 1 .. len |-> heads[n] \o units[n]]
  BY <1>1, <1>3 DEF CodeFrames
<1>6. AreFrames(CodeFrames, heads, units)
  BY <1>1, <1>4, <1>5 DEF AreFrames, len
<1> QED BY <1>6, FramesJoined, FramesLaidOut DEF AnnexB

(* Encoded units come back from Annex B. *)
LEMMA SplitInvertsAnnexBHolds ==
  ASSUME UnitsInv
  PROVE  SplitInvertsAnnexB
<1> SUFFICES ASSUME units # <<>>, AllEncoded
             PROVE  SplitNALUs(AnnexB) = [kind |-> "annexb", nalus |-> units]
  BY DEF SplitInvertsAnnexB
<1> HIDE DEF Byte
<1> DEFINE w == AnnexB
           o == Starts(CodeFrames)
           heads == CodesOf(units, codes)
<1>1. w \in Seq(Byte) /\ LaidOut(w, heads, units, o)
  BY AnnexBLaidOut
<1>2. AreEncoded(units, codes) /\ 1 \in 1 .. Len(units)
  <2>1. /\ units \in Seq(Seq(Byte)) /\ Len(units) \in Nat
        /\ DOMAIN units = 1 .. Len(units)
    BY UnitsAreShort DEF UnitsInv
  <2>2. AreEncoded(units, codes)
    BY <2>1 DEF UnitsInv, AreEncoded, AllEncoded
  <2>3. Len(units) >= 1
    BY <2>1, EmptySeq
  <2> QED BY <2>1, <2>2, <2>3
<1> HIDE DEF w, o
<1>3. o[1] = 1
  BY <1>1 DEF LaidOut
<1>4. /\ 1 \in 1 .. Len(w) - 3 /\ LenStartCode(w, 1) = codes[1]
      /\ codes[1] \in {3, 4}
  BY <1>1, <1>2, <1>3, PlacesOfCodes
<1>5. ~(Len(w) < 4) /\ LenStartCode(w, 1) > 0
  BY <1>1, <1>4, LenProperties
<1>6. IsAnnexBOrAVCC(w) = "annexb"
  BY <1>5 DEF IsAnnexBOrAVCC
<1>7. SplitAnnexB(w) = units
  BY <1>1, <1>2, CodesAreSplit
<1>8. SplitNALUs(w) = [kind |-> "annexb", nalus |-> units]
  BY <1>6, <1>7 DEF SplitNALUs
<1> QED BY <1>8 DEF w

(* The conversions change the frames and nothing else. *)
LEMMA ConversionsReframeHolds ==
  ASSUME UnitsInv
  PROVE  ConversionsReframe
<1>1. ASSUME AllEncoded
      PROVE  AnnexBToAVCC(AnnexB) = AVCC
  <2> HIDE DEF Byte
  <2>1. DOMAIN units = 1 .. Len(units)
    BY UnitsAreShort
  <2>2. AreEncoded(units, codes)
    BY <1>1, <2>1 DEF UnitsInv, AreEncoded, AllEncoded
  <2>3. LengthFrames =
          [n \in 1 .. Len(units) |-> LengthBytes(Len(units[n])) \o units[n]]
    BY <2>1 DEF LengthFrames
  <2>4. /\ AnnexB \in Seq(Byte)
        /\ LaidOut(AnnexB, CodesOf(units, codes), units, Starts(CodeFrames))
    BY AnnexBLaidOut
  <2>5. AnnexBToAVCC(AnnexB) = Joined(LengthFrames)[Len(units)]
    BY <2>2, <2>3, <2>4, CodesAreReframed
  <2> QED BY <2>5 DEF AVCC
<1> QED BY <1>1, LengthsBecomeCodes DEF ConversionsReframe

(* Units that are framed in either way come back from SplitNALUs, and from   *)
(* the conversions in the other way (parser.go:69-229).                      *)
THEOREM UnitsSurviveCorrect == UnitsSpec => []UnitsSurvive
<1>1. UnitsInv => UnitsSurvive
  BY SplitInvertsAnnexBHolds, SplitInvertsAVCCHolds, ConversionsReframeHolds
     DEF UnitsSurvive
<1> QED BY <1>1, UnitsInvCorrect, PTL
(***************************************************************************)
(* AAC configs.                                                            *)
(***************************************************************************)
(* The bits of a field are a string of as many bits. *)
LEMMA FieldBits ==
  ASSUME NEW x \in Nat, NEW n \in Nat
  PROVE  Field(x, n) \in Seq({0, 1}) /\ Len(Field(x, n)) = n
<1>1. ASSUME NEW i \in 1 .. n
      PROVE  (x \div Powers[n - i]) % 2 \in {0, 1}
  <2>1. n - i \in Nat
    OBVIOUS
  <2>2. x \div Powers[n - i] \in Nat
    BY <2>1, DividedByNext
  <2> QED BY <2>2
<1> QED BY <1>1 DEF Field

(* The small powers. *)
LEMMA PowersAre ==
  /\ Powers[4] = 16 /\ Powers[5] = 32 /\ Powers[6] = 64
  /\ Powers[24] \in Nat /\ Powers[24] >= 64
<1>1. \A k \in Nat : Powers[k] \in Nat /\ Powers[k + 1] = 2 * Powers[k]
  BY PowersSteps
<1>2. Powers[1] = 2
  <2>1. Powers[0 + 1] = 2 * Powers[0] /\ 0 + 1 = 1
    BY <1>1
  <2> QED BY <2>1, PowersSteps
<1>3. Powers[2] = 4
  <2>1. Powers[1 + 1] = 2 * Powers[1] /\ 1 + 1 = 2
    BY <1>1
  <2> QED BY <1>2, <2>1
<1>4. Powers[3] = 8
  <2>1. Powers[2 + 1] = 2 * Powers[2] /\ 2 + 1 = 3
    BY <1>1
  <2> QED BY <1>3, <2>1
<1>5. Powers[4] = 16
  <2>1. Powers[3 + 1] = 2 * Powers[3] /\ 3 + 1 = 4
    BY <1>1
  <2> QED BY <1>4, <2>1
<1>6. Powers[5] = 32
  <2>1. Powers[4 + 1] = 2 * Powers[4] /\ 4 + 1 = 5
    BY <1>1
  <2> QED BY <1>5, <2>1
<1>7. Powers[6] = 64
  <2>1. Powers[5 + 1] = 2 * Powers[5] /\ 5 + 1 = 6
    BY <1>1
  <2> QED BY <1>6, <2>1
<1>8. Powers[6] <= Powers[24]
  <2>1. 6 \in Nat /\ 24 \in Nat /\ 6 <= 24
    OBVIOUS
  <2> QED BY <2>1, PowersGrow
<1>9. Powers[24] \in Nat
  BY <1>1
<1> QED BY <1>5, <1>6, <1>7, <1>8, <1>9

(* A field of n bits at place i. *)
HasField(s, i, x, n) == \A k \in 1 .. n : s[i + k - 1] = Field(x, n)[k]

(* Where a field is laid, its bits are found. *)
LEMMA PartIsField ==
  ASSUME NEW w, NEW from \in Nat, NEW x \in Nat, NEW n \in Nat,
         IsPartAt(Field(x, n), w, from)
  PROVE  HasField(w, from + 1, x, n)
<1>1. Len(Field(x, n)) = n
  BY FieldBits
<1>2. ASSUME NEW k \in 1 .. n
      PROVE  w[(from + 1) + k - 1] = Field(x, n)[k]
  <2>1. (from + 1) + k - 1 = from + k
    OBVIOUS
  <2> QED BY <1>1, <2>1 DEF IsPartAt
<1> QED BY <1>2 DEF HasField

(* A field found is the number it was made of, if that is not too wide. *)
LEMMA FieldSays ==
  ASSUME NEW s, NEW i \in Nat, NEW n \in Nat, NEW x \in Nat, x < Powers[n],
         HasField(s, i, x, n)
  PROVE  Number(s, i, n) = x
BY NumberOfField DEF HasField

(* What the fields of a config hold, and how wide they are. *)
ObjectBits(c) == IF c.object >= 32 THEN 11 ELSE 5
RateBits(c) == IF RateIndexOf(c) >= 15 THEN 28 ELSE 4
FieldsEnd(c) == ObjectBits(c) + RateBits(c) + 4

(* The numbers that are written are in the range of their fields. *)
LEMMA ConfigFits ==
  ASSUME NEW c \in Configs
  PROVE  /\ c.object \in 0 .. 95
         /\ RateIndexOf(c) \in 0 .. Powers[24] - 1
         /\ ChannelsOf(c) \in 0 .. 15
         /\ c.rateIndex \in Nat /\ c.channels \in 0 .. 15
<1>1. /\ c.object \in 0 .. 95 /\ c.rateIndex \in 0 .. Powers[24] - 1
      /\ c.channels \in 0 .. 15
  BY AacAssumption
<1>2. RateIndexes = 0 .. 12
  BY DEF RateIndexes, SampleRateTable
<1>3. RateIndexOf(c) \in RateIndexes \/ RateIndexOf(c) = c.rateIndex
  <2>1. CASE c.rateIndex = 0 /\ \E i \in RateIndexes : RateAt(i) = c.rate
    <3>1. RateIndexOf(c) = CHOOSE i \in RateIndexes : RateAt(i) = c.rate
      BY <2>1 DEF RateIndexOf
    <3> QED BY <2>1, <3>1
  <2>2. CASE ~(c.rateIndex = 0 /\ \E i \in RateIndexes : RateAt(i) = c.rate)
    BY <2>2 DEF RateIndexOf
  <2> QED BY <2>1, <2>2
<1>4. RateIndexOf(c) \in 0 .. Powers[24] - 1
  BY <1>1, <1>2, <1>3, PowersAre
<1>5. ChannelsOf(c) \in 0 .. 15
  BY <1>1 DEF ChannelsOf, LayoutIndexes
<1> QED BY <1>1, <1>4, <1>5

(* The fields of a config in its bits. *)
ConfigLaid(w, c) ==
  /\ HasField(w, 1, IF c.object >= 32 THEN Escape ELSE c.object, 5)
  /\ c.object >= 32 => HasField(w, 6, c.object - 32, 6)
  /\ HasField(w, ObjectBits(c) + 1,
              IF RateIndexOf(c) >= 15 THEN 15 ELSE RateIndexOf(c), 4)
  /\ RateIndexOf(c) >= 15 =>
       HasField(w, ObjectBits(c) + 5, RateIndexOf(c), 24)
  /\ HasField(w, ObjectBits(c) + RateBits(c) + 1, ChannelsOf(c), 4)

(* An object type takes 5 bits, or 11 with an escape. *)
LEMMA ObjectIs ==
  ASSUME NEW c \in Configs
  PROVE  /\ ObjectField(c.object) \in Seq({0, 1})
         /\ Len(ObjectField(c.object)) = ObjectBits(c)
<1>1. c.object \in 0 .. 95
  BY ConfigFits
<1>2. CASE c.object >= 32
  <2>1. Escape \in Nat /\ c.object - 32 \in Nat
    BY <1>1, <1>2 DEF Escape
  <2>2. /\ Field(Escape, 5) \in Seq({0, 1}) /\ Len(Field(Escape, 5)) = 5
        /\ Field(c.object - 32, 6) \in Seq({0, 1})
        /\ Len(Field(c.object - 32, 6)) = 6
    BY <2>1, FieldBits
  <2>3. ObjectField(c.object) = Field(Escape, 5) \o Field(c.object - 32, 6)
    BY <1>2 DEF ObjectField
  <2>4. /\ ObjectField(c.object) \in Seq({0, 1})
        /\ Len(ObjectField(c.object)) = 5 + 6
    <3> DEFINE s == Field(Escape, 5)
               t == Field(c.object - 32, 6)
    <3>1. s \in Seq({0, 1}) /\ t \in Seq({0, 1}) /\ Len(s) = 5 /\ Len(t) = 6
      BY <2>2
    <3> HIDE DEF s, t
    <3>2. s \o t \in Seq({0, 1}) /\ Len(s \o t) = 5 + 6
      BY <3>1, Joining
    <3> QED BY <2>3, <3>2 DEF s, t
  <2>5. ObjectBits(c) = 11
    BY <1>2 DEF ObjectBits
  <2> QED BY <2>4, <2>5
<1>3. CASE ~(c.object >= 32)
  <2>1. ObjectField(c.object) = Field(c.object, 5)
    BY <1>3 DEF ObjectField
  <2>2. c.object \in Nat
    BY <1>1
  <2> QED BY <1>3, <2>1, <2>2, FieldBits DEF ObjectBits
<1> QED BY <1>2, <1>3

(* A rate index takes 4 bits, or 28 if it is explicit. *)
LEMMA RateIs ==
  ASSUME NEW c \in Configs
  PROVE  /\ RateField(RateIndexOf(c)) \in Seq({0, 1})
         /\ Len(RateField(RateIndexOf(c))) = RateBits(c)
<1> DEFINE index == RateIndexOf(c)
<1>1. index \in Nat
  <2>1. index \in 0 .. Powers[24] - 1
    BY ConfigFits
  <2> QED BY <2>1, PowersAre
<1> HIDE DEF index
<1>2. /\ Field(15, 4) \in Seq({0, 1}) /\ Len(Field(15, 4)) = 4
      /\ Field(index, 24) \in Seq({0, 1}) /\ Len(Field(index, 24)) = 24
      /\ Field(index, 4) \in Seq({0, 1}) /\ Len(Field(index, 4)) = 4
  BY <1>1, FieldBits
<1>3. CASE index >= 15
  <2>1. RateField(index) = Field(15, 4) \o Field(index, 24)
    BY <1>3 DEF RateField
  <2>2. RateBits(c) = 28
    BY <1>3 DEF RateBits, index
  <2>3. /\ RateField(index) \in Seq({0, 1})
        /\ Len(RateField(index)) = 4 + 24
    <3> DEFINE s == Field(15, 4)
               t == Field(index, 24)
    <3>1. s \in Seq({0, 1}) /\ t \in Seq({0, 1}) /\ Len(s) = 4 /\ Len(t) = 24
      BY <1>2
    <3> HIDE DEF s, t
    <3>2. s \o t \in Seq({0, 1}) /\ Len(s \o t) = 4 + 24
      BY <3>1, Joining
    <3> QED BY <2>1, <3>2 DEF s, t
  <2> QED BY <2>2, <2>3 DEF index
<1>4. CASE ~(index >= 15)
  <2>1. RateField(index) = Field(index, 4)
    BY <1>4 DEF RateField
  <2>2. RateBits(c) = 4
    BY <1>4 DEF RateBits, index
  <2> QED BY <1>2, <2>1, <2>2 DEF index
<1> QED BY <1>3, <1>4

(* The bits of a config are its fields and less than a byte of zeros.        *)
LEMMA ConfigBitsAre ==
  ASSUME NEW c \in Configs
  PROVE  /\ ConfigBits(c) \in Seq({0, 1})
         /\ Len(ConfigBits(c)) \in FieldsEnd(c) .. FieldsEnd(c) + 7
         /\ ConfigLaid(ConfigBits(c), c)
<1> DEFINE o == ObjectField(c.object)
           r == RateField(RateIndexOf(c))
           ch == Field(ChannelsOf(c), 4)
           fields == (o \o r) \o ch
           room == (8 - (Len(fields) % 8)) % 8
           pad == Field(0, room)
           w == ConfigBits(c)
<1>1. w = fields \o pad
  BY DEF ConfigBits
<1>2. /\ o \in Seq({0, 1}) /\ Len(o) = ObjectBits(c)
      /\ r \in Seq({0, 1}) /\ Len(r) = RateBits(c)
      /\ ObjectBits(c) \in {5, 11} /\ RateBits(c) \in {4, 28}
  BY ObjectIs, RateIs DEF ObjectBits, RateBits
<1>3. ch \in Seq({0, 1}) /\ Len(ch) = 4
  <2>1. ChannelsOf(c) \in Nat
    BY ConfigFits
  <2> QED BY <2>1, FieldBits
<1> HIDE DEF o, r, ch, w
<1>4. o \o r \in Seq({0, 1}) /\ Len(o \o r) = ObjectBits(c) + RateBits(c)
  BY <1>2, Joining
<1>5. fields \in Seq({0, 1}) /\ Len(fields) = FieldsEnd(c)
  <2>1. fields \in Seq({0, 1}) /\ Len(fields) = Len(o \o r) + Len(ch)
    BY <1>3, <1>4, Joining
  <2> QED BY <1>3, <1>4, <2>1 DEF FieldsEnd
<1>6. FieldsEnd(c) \in Nat
  BY <1>2 DEF FieldsEnd
<1>7. room \in 0 .. 7
  <2>1. \A k \in Nat : (8 - (k % 8)) % 8 \in 0 .. 7
    OBVIOUS
  <2> HIDE DEF fields
  <2> QED BY <1>5, <1>6, <2>1
<1> HIDE DEF room
<1>8. pad \in Seq({0, 1}) /\ Len(pad) = room
  <2>1. 0 \in Nat /\ room \in Nat
    BY <1>7
  <2> QED BY <2>1, FieldBits
<1> HIDE DEF pad
<1>9. w \in Seq({0, 1}) /\ Len(w) = FieldsEnd(c) + room
  <2> HIDE DEF fields
  <2>1. fields \o pad \in Seq({0, 1}) /\ Len(fields \o pad) = Len(fields) + Len(pad)
    BY <1>5, <1>8, Joining
  <2> QED BY <1>1, <1>5, <1>8, <2>1
<1>10. IsPartAt(fields \o pad, w, 0)
  <2>1. \A i \in 1 .. Len(w) : 0 + i = i
    BY <1>6, <1>7, <1>9
  <2>2. 0 + Len(w) <= Len(w)
    BY <1>6, <1>7, <1>9
  <2> QED BY <1>1, <2>1, <2>2 DEF IsPartAt
<1>11. Len(w) \in Nat
  BY <1>6, <1>7, <1>9
<1>12. IsPartAt(fields, w, 0)
  <2> HIDE DEF fields
  <2> QED BY <1>5, <1>8, <1>10, <1>11, PartsOfPart
<1>13. IsPartAt(o \o r, w, 0) /\ IsPartAt(ch, w, ObjectBits(c) + RateBits(c))
  <2>1. IsPartAt(o \o r, w, 0) /\ IsPartAt(ch, w, 0 + Len(o \o r))
    BY <1>3, <1>4, <1>11, <1>12, PartsOfPart
  <2>2. 0 + Len(o \o r) = ObjectBits(c) + RateBits(c)
    BY <1>2, <1>4
  <2> QED BY <2>1, <2>2
<1>14. IsPartAt(o, w, 0) /\ IsPartAt(r, w, ObjectBits(c))
  <2>1. IsPartAt(o, w, 0) /\ IsPartAt(r, w, 0 + Len(o))
    BY <1>2, <1>11, <1>13, PartsOfPart
  <2>2. 0 + Len(o) = ObjectBits(c)
    BY <1>2
  <2> QED BY <2>1, <2>2
<1>15. HasField(w, ObjectBits(c) + RateBits(c) + 1, ChannelsOf(c), 4)
  <2> HIDE DEF fields
  <2>1. ObjectBits(c) + RateBits(c) \in Nat
    BY <1>2
  <2>2. ChannelsOf(c) \in Nat
    BY ConfigFits
  <2> QED BY <1>13, <2>1, <2>2, PartIsField DEF ch
<1>16. /\ HasField(w, 1, IF c.object >= 32 THEN Escape ELSE c.object, 5)
       /\ c.object >= 32 => HasField(w, 6, c.object - 32, 6)
  <2>1. c.object \in 0 .. 95 /\ Escape \in Nat /\ 0 + 1 = 1 /\ 5 + 1 = 6
    BY ConfigFits DEF Escape
  <2>2. CASE c.object >= 32
    <3>1. /\ o = Field(Escape, 5) \o Field(c.object - 32, 6)
          /\ c.object - 32 \in Nat
      <4>1. o = Field(Escape, 5) \o Field(c.object - 32, 6)
        BY <2>2 DEF o, ObjectField
      <4>2. c.object - 32 \in Nat
        BY <2>1, <2>2
      <4> QED BY <4>1, <4>2
    <3>2. /\ Field(Escape, 5) \in Seq({0, 1}) /\ Len(Field(Escape, 5)) = 5
          /\ Field(c.object - 32, 6) \in Seq({0, 1})
      BY <2>1, <3>1, FieldBits
    <3>3. /\ IsPartAt(Field(Escape, 5), w, 0)
          /\ IsPartAt(Field(c.object - 32, 6), w, 0 + Len(Field(Escape, 5)))
      BY <1>11, <1>14, <3>1, <3>2, PartsOfPart
    <3>4. 0 + Len(Field(Escape, 5)) = 5
      BY <3>2
    <3>5. HasField(w, 0 + 1, Escape, 5)
      BY <2>1, <3>3, PartIsField
    <3>6. HasField(w, 5 + 1, c.object - 32, 6)
      BY <3>1, <3>3, <3>4, PartIsField
    <3> QED BY <2>1, <2>2, <3>5, <3>6
  <2>3. CASE ~(c.object >= 32)
    <3>1. o = Field(c.object, 5) /\ c.object \in Nat
      BY <2>1, <2>3 DEF o, ObjectField
    <3>2. HasField(w, 0 + 1, c.object, 5)
      BY <1>14, <3>1, PartIsField
    <3> QED BY <2>1, <2>3, <3>2
  <2> QED BY <2>2, <2>3
<1>17. /\ HasField(w, ObjectBits(c) + 1,
                   IF RateIndexOf(c) >= 15 THEN 15 ELSE RateIndexOf(c), 4)
       /\ RateIndexOf(c) >= 15 =>
            HasField(w, ObjectBits(c) + 5, RateIndexOf(c), 24)
  <2> DEFINE index == RateIndexOf(c)
             a == ObjectBits(c)
  <2>1. index \in Nat /\ a \in Nat
    <3>1. index \in 0 .. Powers[24] - 1
      BY ConfigFits
    <3> QED BY <1>2, <3>1, PowersAre
  <2>2. r = RateField(index) /\ IsPartAt(r, w, a)
    BY <1>14 DEF r
  <2> HIDE DEF index, a
  <2>3. CASE index >= 15
    <3>1. r = Field(15, 4) \o Field(index, 24)
      BY <2>2, <2>3 DEF RateField
    <3>2. /\ Field(15, 4) \in Seq({0, 1}) /\ Len(Field(15, 4)) = 4
          /\ Field(index, 24) \in Seq({0, 1})
      BY <2>1, FieldBits
    <3>3. /\ IsPartAt(Field(15, 4), w, a)
          /\ IsPartAt(Field(index, 24), w, a + Len(Field(15, 4)))
      BY <1>11, <2>1, <2>2, <3>1, <3>2, PartsOfPart
    <3>4. a + Len(Field(15, 4)) = a + 4 /\ (a + 4) + 1 = a + 5 /\ a + 4 \in Nat
      <4>1. a + Len(Field(15, 4)) = a + 4
        BY <3>2
      <4> QED BY <2>1, <4>1
    <3>5. HasField(w, a + 1, 15, 4)
      BY <2>1, <3>3, PartIsField
    <3>6. HasField(w, (a + 4) + 1, index, 24)
      BY <2>1, <3>3, <3>4, PartIsField
    <3> QED BY <2>3, <3>4, <3>5, <3>6 DEF index, a
  <2>4. CASE ~(index >= 15)
    <3>1. r = Field(index, 4)
      BY <2>2, <2>4 DEF RateField
    <3>2. HasField(w, a + 1, index, 4)
      BY <2>1, <2>2, <3>1, PartIsField
    <3> QED BY <2>4, <3>2 DEF index, a
  <2> QED BY <2>3, <2>4
<1>18. ConfigLaid(w, c)
  BY <1>15, <1>16, <1>17 DEF ConfigLaid
<1>19. Len(w) \in FieldsEnd(c) .. FieldsEnd(c) + 7
  BY <1>6, <1>7, <1>9
<1> QED BY <1>9, <1>18, <1>19 DEF w
(* What the parser makes of the bits of a config, or of a part of them: it   *)
(* refuses them if a field is cut off, and gives back the fields otherwise.  *)
Given(c) ==
  [object |-> c.object, rateIndex |-> RateIndexOf(c), rate |-> 0,
   channels |-> ChannelsOf(c), layout |-> 0]

(* What is parsed from the bits of a config, all of them or the first ones:  *)
(* an error if a field is not all there, and else what was written.          *)
LEMMA ParseIs ==
  ASSUME NEW c \in Configs, Expressible(c), NEW w, ConfigLaid(w, c),
         NEW s, Len(s) \in Nat, \A k \in 1 .. Len(s) : s[k] = w[k]
  PROVE  IF Len(s) < FieldsEnd(c) THEN ParseConfig(s) = NotParsed
         ELSE ParseConfig(s) = [ok |-> TRUE, config |-> Complete(Given(c))]
<1> DEFINE a == ObjectBits(c)
           b == RateBits(c)
           index == RateIndexOf(c)
           channels == ChannelsOf(c)
           object == c.object
           escaped == Len(s) >= 5 /\ Number(s, 1, 5) = Escape
           i == IF escaped THEN 12 ELSE 6
           explicit == Len(s) >= i + 3 /\ Number(s, i, 4) = 15
           j == IF explicit THEN i + 28 ELSE i + 4
           parsed0 ==
             [object |-> IF escaped THEN 32 + Number(s, 6, 6) ELSE Number(s, 1, 5),
              rateIndex |-> IF explicit THEN Number(s, i + 4, 24)
                                        ELSE Number(s, i, 4),
              rate |-> 0, channels |-> Number(s, j, 4), layout |-> 0]
<1>1. ParseConfig(s) = IF Len(s) < j + 3 THEN NotParsed
                       ELSE [ok |-> TRUE, config |-> Complete(parsed0)]
  BY DEF ParseConfig
<1>2. /\ object \in 0 .. 95 /\ object # 31 /\ Escape = 31
      /\ index \in 0 .. Powers[24] - 1 /\ index \in Nat
      /\ channels \in 0 .. 15
  BY ConfigFits, PowersAre DEF Expressible, Escape
<1>3. /\ a = IF object >= 32 THEN 11 ELSE 5
      /\ b = IF index >= 15 THEN 28 ELSE 4
      /\ FieldsEnd(c) = a + b + 4
  BY DEF ObjectBits, RateBits, FieldsEnd
<1>4. ASSUME NEW p \in Nat \ {0}, NEW n \in Nat, NEW x \in Nat,
             x < Powers[n], p + n - 1 <= Len(s), HasField(w, p, x, n)
      PROVE  Number(s, p, n) = x
  <2>1. ASSUME NEW k \in 1 .. n
        PROVE  s[p + k - 1] = Field(x, n)[k]
    <3>1. p + k - 1 \in 1 .. Len(s)
      BY <1>4
    <3>2. s[p + k - 1] = w[p + k - 1]
      BY <3>1
    <3> QED BY <1>4, <3>2 DEF HasField
  <2>2. HasField(s, p, x, n)
    BY <2>1 DEF HasField
  <2> QED BY <1>4, <2>2, FieldSays
<1>5. /\ HasField(w, 1, IF object >= 32 THEN 31 ELSE object, 5)
      /\ object >= 32 => HasField(w, 6, object - 32, 6)
      /\ HasField(w, a + 1, IF index >= 15 THEN 15 ELSE index, 4)
      /\ index >= 15 => HasField(w, a + 5, index, 24)
      /\ HasField(w, a + b + 1, channels, 4)
  BY <1>2 DEF ConfigLaid
<1> HIDE DEF a, b, index, channels, object
<1>6. Len(s) >= 5 => Number(s, 1, 5) = IF object >= 32 THEN 31 ELSE object
  <2>1. SUFFICES ASSUME Len(s) >= 5
                 PROVE  Number(s, 1, 5) = IF object >= 32 THEN 31 ELSE object
    OBVIOUS
  <2> DEFINE x == IF object >= 32 THEN 31 ELSE object
  <2>2. x \in Nat /\ x < Powers[5] /\ 1 + 5 - 1 <= Len(s)
    BY <1>2, <2>1, PowersAre
  <2>3. HasField(w, 1, x, 5)
    BY <1>5
  <2> HIDE DEF x
  <2>4. Number(s, 1, 5) = x
    BY <1>4, <2>2, <2>3
  <2> QED BY <2>4 DEF x
<1>7. CASE Len(s) < 5
  <2>1. ~escaped
    BY <1>7
  <2>2. i = 6
    BY <2>1
  <2>3. j >= 10
    BY <2>2
  <2>4. Len(s) < j + 3
    BY <1>7, <2>3
  <2>5. Len(s) < FieldsEnd(c)
    BY <1>3, <1>7
  <2> HIDE DEF j, parsed0
  <2> QED BY <1>1, <2>4, <2>5
<1>8. CASE ~(Len(s) < 5)
  <2>1. escaped <=> object >= 32
    BY <1>2, <1>6, <1>8
  <2>2. i = a + 1 /\ i \in {6, 12}
    BY <1>3, <2>1
  <2>3. (IF escaped THEN 32 + Number(s, 6, 6) ELSE Number(s, 1, 5)) = object
        \/ Len(s) < a
    <3>1. CASE object >= 32 /\ ~(Len(s) < a)
      <4>1. object - 32 \in Nat /\ object - 32 < Powers[6] /\ 6 + 6 - 1 <= Len(s)
        BY <1>2, <1>3, <3>1, PowersAre
      <4>2. HasField(w, 6, object - 32, 6)
        BY <1>5, <3>1
      <4>3. Number(s, 6, 6) = object - 32
        BY <1>4, <4>1, <4>2
      <4> HIDE DEF escaped
      <4>4. 32 + Number(s, 6, 6) = object
        BY <1>2, <4>3
      <4> QED BY <2>1, <3>1, <4>4
    <3>2. CASE ~(object >= 32)
      <4>1. Number(s, 1, 5) = object
        BY <1>6, <1>8, <3>2
      <4> HIDE DEF escaped
      <4> QED BY <2>1, <3>2, <4>1
    <3> QED BY <3>1, <3>2
  <2> HIDE DEF escaped, i
  <2>4. CASE Len(s) < a + 4
    <3>1. ~explicit
      <4>1. ~(Len(s) >= i + 3)
        <5>1. a \in {5, 11} /\ i = a + 1
          BY <1>3, <2>2
        <5>2. Len(s) \in Nat
          BY <1>1
        <5> HIDE DEF j, parsed0
        <5> QED BY <2>4, <5>1, <5>2
      <4> QED BY <4>1
    <3>2. j = i + 4
      BY <3>1
    <3>3. Len(s) < j + 3
      BY <1>3, <2>2, <2>4, <3>2
    <3>4. Len(s) < FieldsEnd(c)
      BY <1>2, <1>3, <2>4
    <3> HIDE DEF j, parsed0
    <3> QED BY <1>1, <3>3, <3>4
  <2>5. CASE ~(Len(s) < a + 4)
    <3> DEFINE x == IF index >= 15 THEN 15 ELSE index
    <3>1. a \in Nat /\ b \in Nat /\ a \in {5, 11} /\ b \in {4, 28}
      BY <1>3
    <3>2. Number(s, i, 4) = x
      <4>1. x \in Nat /\ x < Powers[4] /\ i + 4 - 1 <= Len(s) /\ i \in Nat \ {0}
        BY <1>2, <2>2, <2>5, <3>1, PowersAre
      <4>2. HasField(w, i, x, 4)
        BY <1>5, <2>2
      <4> HIDE DEF x
      <4> QED BY <1>4, <4>1, <4>2
    <3>3. explicit <=> index >= 15
      <4>1. Len(s) >= i + 3
        BY <2>2, <2>5, <3>1
      <4>2. x = 15 <=> index >= 15
        BY <1>2
      <4> HIDE DEF x
      <4> QED BY <3>2, <4>1, <4>2
    <3>4. j = a + b + 1 /\ j + 3 = FieldsEnd(c)
      <4> HIDE DEF explicit
      <4>1. j = a + b + 1
        BY <1>3, <2>2, <3>1, <3>3
      <4> QED BY <1>3, <3>1, <4>1
    <3>5. CASE Len(s) < FieldsEnd(c)
      <4> HIDE DEF j, parsed0
      <4> QED BY <1>1, <3>4, <3>5
    <3>6. CASE ~(Len(s) < FieldsEnd(c))
      <4>1. Number(s, j, 4) = channels
        <5>1. /\ channels \in Nat /\ channels < Powers[4]
              /\ j + 4 - 1 <= Len(s) /\ j \in Nat \ {0}
          <6> HIDE DEF j
          <6> QED BY <1>2, <1>3, <3>1, <3>4, <3>6, PowersAre
        <5>2. HasField(w, j, channels, 4)
          <6> HIDE DEF j
          <6> QED BY <1>5, <3>4
        <5> HIDE DEF j
        <5> QED BY <1>4, <5>1, <5>2
      <4>2. (IF explicit THEN Number(s, i + 4, 24) ELSE Number(s, i, 4)) = index
        <5> HIDE DEF explicit
        <5>1. CASE index >= 15
          <6>1. /\ index < Powers[24] /\ i + 4 \in Nat \ {0} /\ i + 4 = a + 5
                /\ (i + 4) + 24 - 1 <= Len(s)
            BY <1>2, <1>3, <2>2, <3>1, <3>6, <5>1, PowersAre
          <6>2. HasField(w, i + 4, index, 24)
            BY <1>5, <5>1, <6>1
          <6>3. Number(s, i + 4, 24) = index
            BY <1>2, <1>4, <6>1, <6>2
          <6> QED BY <3>3, <5>1, <6>3
        <5>2. CASE ~(index >= 15)
          BY <3>2, <3>3, <5>2
        <5> QED BY <5>1, <5>2
      <4>3. (IF escaped THEN 32 + Number(s, 6, 6) ELSE Number(s, 1, 5)) = object
        BY <1>3, <2>3, <3>1, <3>6
      <4>4. parsed0 = Given(c)
        <5> HIDE DEF explicit, j
        <5> QED BY <4>1, <4>2, <4>3 DEF Given, index, channels, object
      <4> HIDE DEF j, parsed0
      <4> QED BY <1>1, <3>4, <3>6, <4>4
    <3> QED BY <3>5, <3>6
  <2> QED BY <2>4, <2>5
<1> QED BY <1>7, <1>8

(***************************************************************************)
(* What is written and what is parsed, at each place of the program.       *)
(***************************************************************************)
IsCut(s, c) ==
  \E n \in 0 .. Len(ConfigBits(c)) \div 8 - 1 : s = SubSeq(ConfigBits(c), 1, 8 * n)

IsADTS(f, c) ==
  \E samples \in FrameSamples, payload \in Payloads :
    f = [header |-> FillADTSHeader(c, samples, payload),
         samples |-> samples, payload |-> payload]

AacInv ==
  /\ pc \in {"start", "config", "cut", "doneConfig", "doneCut", "adts", "doneADTS"}
  /\ pc # "start" => config \in Configs
  /\ pc \in {"config", "doneConfig"} => bits = ConfigBits(config)
  /\ pc \in {"cut", "doneCut"} => IsCut(bits, config)
  /\ pc \in {"doneConfig", "doneCut"} => parsed = ParseConfig(bits)
  /\ pc \in {"adts", "doneADTS"} => IsADTS(frame, config)
  /\ pc = "doneADTS" => parsed = ParseADTSHeader(frame.header)

(* Every step keeps AacInv. *)
LEMMA AacInvStep == AacInv /\ [AacNext]_avars => AacInv'
<1> SUFFICES ASSUME AacInv, [AacNext]_avars PROVE AacInv'
  OBVIOUS
<1>1. CASE WriteMPEG4AudioConfig
  BY <1>1 DEF AacInv, WriteMPEG4AudioConfig
<1>2. CASE Truncate
  <2>1. PICK n \in 0 .. Len(bits) \div 8 - 1 : bits' = SubSeq(bits, 1, 8 * n)
    BY <1>2 DEF Truncate
  <2>2. pc = "config" /\ pc' = "cut" /\ config' = config
    BY <1>2 DEF Truncate
  <2>3. bits = ConfigBits(config) /\ config \in Configs
    BY <2>2 DEF AacInv
  <2>4. IsCut(bits', config')
    BY <2>1, <2>2, <2>3 DEF IsCut
  <2> QED BY <2>2, <2>3, <2>4 DEF AacInv
<1>3. CASE ParseMPEG4AudioConfigBytes
  BY <1>3 DEF AacInv, ParseMPEG4AudioConfigBytes
<1>4. CASE WriteADTS
  <2>1. /\ config' \in Configs /\ IsADTS(frame', config') /\ pc' = "adts"
    BY <1>4 DEF WriteADTS, IsADTS
  <2> QED BY <2>1 DEF AacInv
<1>5. CASE ParseADTS
  BY <1>5 DEF AacInv, ParseADTS
<1>6. CASE UNCHANGED avars
  BY <1>6 DEF AacInv, avars
<1> QED BY <1>1, <1>2, <1>3, <1>4, <1>5, <1>6 DEF AacNext

(* A whole config comes back. *)
LEMMA WholeConfig == AacInv => WholeConfigSurvives
<1> SUFFICES ASSUME AacInv, pc = "doneConfig", Expressible(config), Known(config)
             PROVE  /\ parsed.ok
                    /\ parsed.config.object = config.object
                    /\ IF config.rateIndex = 0
                       THEN parsed.config.rate = config.rate
                       ELSE parsed.config.rateIndex = config.rateIndex
                    /\ IF config.channels = 0
                       THEN parsed.config.layout = config.layout
                       ELSE parsed.config.channels = config.channels
  BY DEF WholeConfigSurvives
<1> DEFINE c == config
<1>1. c \in Configs /\ bits = ConfigBits(c) /\ parsed = ParseConfig(bits)
  BY DEF AacInv
<1>2. /\ bits \in Seq({0, 1}) /\ Len(bits) \in FieldsEnd(c) .. FieldsEnd(c) + 7
      /\ ConfigLaid(bits, c)
  BY <1>1, ConfigBitsAre
<1>3. Len(bits) \in Nat /\ FieldsEnd(c) \in Nat /\ ~(Len(bits) < FieldsEnd(c))
  <2>1. FieldsEnd(c) \in Nat
    BY DEF FieldsEnd, ObjectBits, RateBits
  <2> QED BY <1>2, <2>1
<1>4. parsed = [ok |-> TRUE, config |-> Complete(Given(c))]
  <2>1. IF Len(bits) < FieldsEnd(c) THEN ParseConfig(bits) = NotParsed
        ELSE ParseConfig(bits) = [ok |-> TRUE, config |-> Complete(Given(c))]
    BY <1>1, <1>2, <1>3, ParseIs
  <2> QED BY <1>1, <1>3, <2>1
<1>5. /\ parsed.ok
      /\ parsed.config.object = c.object
      /\ parsed.config.rateIndex = RateIndexOf(c)
      /\ parsed.config.channels = ChannelsOf(c)
      /\ RateIndexOf(c) \in RateIndexes =>
           parsed.config.rate = RateAt(RateIndexOf(c))
      /\ ChannelsOf(c) \in LayoutIndexes =>
           parsed.config.layout = ChannelsOf(c)
  BY <1>4 DEF Complete, Given
<1>6. IF c.rateIndex = 0 THEN parsed.config.rate = c.rate
      ELSE parsed.config.rateIndex = c.rateIndex
  <2>1. CASE c.rateIndex = 0
    <3>1. \E i \in RateIndexes : RateAt(i) = c.rate
      BY <2>1 DEF Known
    <3>2. RateIndexOf(c) = CHOOSE i \in RateIndexes : RateAt(i) = c.rate
      BY <2>1, <3>1 DEF RateIndexOf
    <3>3. RateIndexOf(c) \in RateIndexes /\ RateAt(RateIndexOf(c)) = c.rate
      BY <3>1, <3>2
    <3> QED BY <1>5, <2>1, <3>3
  <2>2. CASE c.rateIndex # 0
    BY <1>5, <2>2 DEF RateIndexOf
  <2> QED BY <2>1, <2>2
<1>7. IF c.channels = 0 THEN parsed.config.layout = c.layout
      ELSE parsed.config.channels = c.channels
  <2>1. CASE c.channels = 0
    <3>1. c.layout \in LayoutIndexes
      BY <2>1 DEF Known
    <3>2. ChannelsOf(c) = c.layout
      BY <2>1, <3>1 DEF ChannelsOf
    <3> QED BY <1>5, <2>1, <3>1, <3>2
  <2>2. CASE c.channels # 0
    BY <1>5, <2>2 DEF ChannelsOf
  <2> QED BY <2>1, <2>2
<1> QED BY <1>5, <1>6, <1>7

(* A config that is cut off is refused. *)
LEMMA CutConfig == AacInv => CutConfigIsRefused
<1> SUFFICES ASSUME AacInv, pc = "doneCut", Expressible(config)
             PROVE  ~parsed.ok
  BY DEF CutConfigIsRefused
<1> DEFINE c == config
           w == ConfigBits(c)
<1>1. c \in Configs /\ parsed = ParseConfig(bits)
  BY DEF AacInv
<1>2. PICK n \in 0 .. Len(w) \div 8 - 1 : bits = SubSeq(w, 1, 8 * n)
  BY DEF AacInv, IsCut
<1>3. /\ w \in Seq({0, 1}) /\ Len(w) \in FieldsEnd(c) .. FieldsEnd(c) + 7
      /\ ConfigLaid(w, c)
  BY <1>1, ConfigBitsAre
<1>4. FieldsEnd(c) \in Nat
  BY DEF FieldsEnd, ObjectBits, RateBits
<1> HIDE DEF w
<1>5. Len(w) \in Nat
  BY <1>3
<1>6. 8 * n \in Nat /\ 8 * n <= Len(w) - 8
  BY <1>2, <1>5
<1> DEFINE m == 8 * n
<1> HIDE DEF m
<1>7. m \in 0 .. Len(w)
  BY <1>5, <1>6 DEF m
<1>8. Len(bits) = m /\ \A k \in 1 .. m : bits[k] = w[k]
  <2>1. bits = SubSeq(w, 1, m)
    BY <1>2 DEF m
  <2> QED BY <1>3, <1>7, <2>1
<1>9. Len(bits) \in Nat /\ Len(bits) < FieldsEnd(c)
  BY <1>3, <1>4, <1>5, <1>6, <1>8 DEF m
<1>10. IF Len(bits) < FieldsEnd(c) THEN ParseConfig(bits) = NotParsed
       ELSE ParseConfig(bits) = [ok |-> TRUE, config |-> Complete(Given(c))]
  BY <1>1, <1>3, <1>8, <1>9, ParseIs
<1> QED BY <1>1, <1>9, <1>10 DEF NotParsed

(* An ADTS header gives back what fits into its fields. *)
LEMMA ADTSHeader == AacInv => ADTSHeaderSurvives
<1> SUFFICES ASSUME AacInv, pc = "doneADTS", FitsADTS
             PROVE  /\ parsed.ok
                    /\ parsed.length = frame.payload + HeaderLength
                    /\ parsed.samples = frame.samples
                    /\ parsed.config.object = config.object
                    /\ parsed.config.rateIndex = config.rateIndex
                    /\ parsed.config.channels = config.channels
  BY DEF ADTSHeaderSurvives
<1> DEFINE c == config
<1>1. c \in Configs /\ parsed = ParseADTSHeader(frame.header)
  BY DEF AacInv
<1>2. PICK samples \in FrameSamples, payload \in Payloads :
        frame = [header |-> FillADTSHeader(c, samples, payload),
                 samples |-> samples, payload |-> payload]
  BY DEF AacInv, IsADTS
<1>3. /\ frame.header = FillADTSHeader(c, samples, payload)
      /\ frame.samples = samples /\ frame.payload = payload
      /\ payload \in Nat
  BY <1>2, AacAssumption
<1>4. /\ c.object \in 1 .. 4 /\ c.rateIndex < 16 /\ c.rateIndex \in Nat
      /\ c.channels \in 1 .. 7
      /\ samples \in {1024, 2048, 3072, 4096}
      /\ payload + 7 < 8192
  BY <1>1, <1>3, ConfigFits DEF FitsADTS, HeaderLength
<1>5. /\ frame.header.object = c.object - 1
      /\ frame.header.rateIndex = c.rateIndex
      /\ frame.header.channels = c.channels
      /\ frame.header.length = payload + 7
      /\ frame.header.blocks = samples \div 1024 - 1
  <2>1. /\ (c.object - 1) % 4 = c.object - 1 /\ c.rateIndex % 16 = c.rateIndex
        /\ c.channels % 8 = c.channels /\ (payload + 7) % 8192 = payload + 7
        /\ (samples \div 1024 - 1) % 4 = samples \div 1024 - 1
    BY <1>3, <1>4
  <2> QED BY <1>3, <2>1 DEF FillADTSHeader, HeaderLength
<1>6. ~(frame.header.channels = 0 \/ frame.header.length < HeaderLength)
  BY <1>3, <1>4, <1>5 DEF HeaderLength
<1>7. parsed = [ok |-> TRUE, length |-> frame.header.length,
                samples |-> (frame.header.blocks + 1) * 1024,
                config |-> Complete([object |-> frame.header.object + 1,
                                     rateIndex |-> frame.header.rateIndex,
                                     rate |-> 0,
                                     channels |-> frame.header.channels,
                                     layout |-> 0])]
  BY <1>1, <1>6 DEF ParseADTSHeader
<1>8. /\ parsed.ok /\ parsed.length = frame.header.length
      /\ parsed.samples = (frame.header.blocks + 1) * 1024
      /\ parsed.config.object = frame.header.object + 1
      /\ parsed.config.rateIndex = frame.header.rateIndex
      /\ parsed.config.channels = frame.header.channels
  BY <1>7 DEF Complete
<1>9. (samples \div 1024 - 1 + 1) * 1024 = samples
  BY <1>4
<1>10. c.object - 1 + 1 = c.object
  BY <1>4
<1> QED BY <1>3, <1>5, <1>8, <1>9, <1>10 DEF HeaderLength

(* Whatever a writer makes of a config, for any configs, numbers of samples  *)
(* and lengths of the payload, the parser makes the same config of it if it  *)
(* fits, and refuses one that was cut off (parser.go:110-317).               *)
THEOREM ConfigSurvivesCorrect == AacSpec => []ConfigSurvives
<1>1. AacInit => AacInv
  BY DEF AacInit, AacInv
<1>2. AacInv => ConfigSurvives
  BY WholeConfig, CutConfig, ADTSHeader DEF ConfigSurvives
<1> QED BY <1>1, <1>2, AacInvStep, PTL DEF AacSpec

(***************************************************************************)
(* Session descriptions: the sets of a medium.                             *)
(***************************************************************************)
SetValues == [base64 : BOOLEAN, bytes : Octets]

(* Every set is one of the values, or not there. *)
HasOrigin(of, vals) ==
  \A name \in SetKinds :
    of[name] = <<>> \/ \E v \in vals : v.base64 /\ v.bytes = of[name]

SetStates(vals) ==
  {s \in [of : [SetKinds -> Octets], err : BOOLEAN, names : Seq(SetKinds),
          idx : Nat] :
     HasOrigin(s.of, vals)}

(* All but the errors. *)
Alike(s, t) == s.of = t.of /\ s.names = t.names /\ s.idx = t.idx

(* A value that is taken has its origin in the values.                       *)
LEMMA WithKeeps ==
  ASSUME NEW vals, NEW of \in [SetKinds -> Octets], HasOrigin(of, vals),
         NEW name \in SetKinds, NEW value \in vals, value \in SetValues
  PROVE  With(of, name, value) \in [SetKinds -> Octets]
         /\ HasOrigin(With(of, name, value), vals)
<1>1. value.base64 \in BOOLEAN /\ value.bytes \in Octets
  BY DEF SetValues
<1>2. CASE value.base64
  <2> DEFINE new == [of EXCEPT ![name] = value.bytes]
  <2>1. With(of, name, value) = new
    BY <1>2 DEF With
  <2>2. new \in [SetKinds -> Octets]
    BY <1>1
  <2>3. ASSUME NEW kind \in SetKinds
        PROVE  new[kind] = <<>> \/ \E v \in vals : v.base64 /\ v.bytes = new[kind]
    <3>1. CASE kind = name
      <4>1. new[kind] = value.bytes
        BY <3>1
      <4> QED BY <1>2, <4>1
    <3>2. CASE kind # name
      <4>1. new[kind] = of[kind]
        BY <3>2
      <4> QED BY <4>1 DEF HasOrigin
    <3> QED BY <3>1, <3>2
  <2> HIDE DEF new
  <2> QED BY <2>1, <2>2, <2>3 DEF HasOrigin
<1>3. CASE ~value.base64
  <2>1. With(of, name, value) = of
    BY <1>3 DEF With
  <2> QED BY <2>1
<1> QED BY <1>2, <1>3

(* A record of sets. *)
LEMMA SetStatesAre ==
  ASSUME NEW vals, NEW of \in [SetKinds -> Octets], HasOrigin(of, vals),
         NEW e \in BOOLEAN, NEW names \in Seq(SetKinds), NEW idx \in Nat
  PROVE  [of |-> of, err |-> e, names |-> names, idx |-> idx] \in SetStates(vals)
BY DEF SetStates

(* What is known of such a record.                                          *)
LEMMA FromSetStates ==
  ASSUME NEW vals, NEW s \in SetStates(vals)
  PROVE  /\ s.of \in [SetKinds -> Octets] /\ HasOrigin(s.of, vals)
         /\ s.err \in BOOLEAN /\ s.names \in Seq(SetKinds) /\ s.idx \in Nat
BY DEF SetStates

(* Assign and AssignNext keep to such records, and look at no error.         *)
LEMMA AssignKeeps ==
  ASSUME NEW vals, NEW s \in SetStates(vals), NEW name \in SetKinds,
         NEW value \in vals, value \in SetValues
  PROVE  Assign(s, name, value) \in SetStates(vals)
<1>1. value.base64 \in BOOLEAN
  BY DEF SetValues
<1>2. (~value.base64) \in BOOLEAN
  OBVIOUS
<1> QED BY <1>2, FromSetStates, WithKeeps, SetStatesAre DEF Assign

(* Nor does a value that goes to the next name, or to none.                  *)
LEMMA AssignNextKeeps ==
  ASSUME NEW vals, NEW s \in SetStates(vals), NEW value \in vals,
         value \in SetValues
  PROVE  AssignNext(s, value) \in SetStates(vals)
<1> DEFINE of == IF s.idx < Len(s.names)
                 THEN With(s.of, s.names[s.idx + 1], value) ELSE s.of
           idx == IF value.base64 THEN s.idx + 1 ELSE s.idx
<1>1. /\ s.of \in [SetKinds -> Octets] /\ HasOrigin(s.of, vals)
      /\ s.names \in Seq(SetKinds) /\ s.idx \in Nat
  BY FromSetStates
<1>2. of \in [SetKinds -> Octets] /\ HasOrigin(of, vals)
  <2>1. CASE s.idx < Len(s.names)
    <3>1. s.idx + 1 \in 1 .. Len(s.names)
      BY <1>1, <2>1
    <3>2. s.names[s.idx + 1] \in SetKinds
      BY <1>1, <3>1, ElementOfSeq
    <3>3. of = With(s.of, s.names[s.idx + 1], value)
      BY <2>1
    <3> QED BY <1>1, <3>2, <3>3, WithKeeps
  <2>2. CASE ~(s.idx < Len(s.names))
    <3>1. of = s.of
      BY <2>2
    <3> QED BY <1>1, <3>1
  <2> QED BY <2>1, <2>2
<1>3. idx \in Nat
  BY <1>1
<1>4. (~value.base64) \in BOOLEAN
  OBVIOUS
<1>5. AssignNext(s, value) = [of |-> of, err |-> ~value.base64,
                              names |-> s.names, idx |-> idx]
  BY DEF AssignNext
<1> HIDE DEF of, idx
<1> QED BY <1>1, <1>2, <1>3, <1>4, <1>5, SetStatesAre

(* What differs in the error alone goes on to differ in no more than that.   *)
LEMMA AssignAlike ==
  ASSUME NEW s, NEW t, Alike(s, t), NEW name, NEW value
  PROVE  /\ Alike(Assign(s, name, value), Assign(t, name, value))
         /\ Alike(AssignNext(s, value), AssignNext(t, value))
         /\ Alike(AtFirst(s), AtFirst(t))
BY DEF Alike, Assign, AssignNext, AtFirst

(***************************************************************************)
(* A list of values, one after the other.                                  *)
(***************************************************************************)
ListOf(list, vals) ==
  /\ list \in Seq(SetValues)
  /\ \A n \in 1 .. Len(list) : list[n] \in vals /\ list[n] \in SetValues

GoesThrough(f, s, list) ==
  /\ f[0] = s
  /\ \A k \in 1 .. Len(list) : f[k] = AssignNext(f[k - 1], list[k])

(* What AssignNext makes of a list. *)
LEMMA ListSteps ==
  ASSUME NEW vals, NEW list, ListOf(list, vals), NEW s \in SetStates(vals)
  PROVE  \E f : /\ GoesThrough(f, s, list)
                /\ \A k \in 0 .. Len(list) : f[k] \in SetStates(vals)
                /\ Each(AssignNext, s, list) = f[Len(list)]
<1> DEFINE X == SetStates(vals)
           len == Len(list)
           step == [p \in (1 .. len) \X X |-> AssignNext(p[2], list[p[1]])]
<1>1. len \in Nat
  BY DEF ListOf
<1>2. ASSUME NEW k \in 1 .. len, NEW x \in X
      PROVE  AssignNext(x, list[k]) \in X
  BY AssignNextKeeps DEF ListOf
<1> HIDE DEF X
<1>3. step \in [(1 .. len) \X X -> X]
  BY <1>2
<1>4. \A k \in 1 .. len, x \in X : step[<<k, x>>] = AssignNext(x, list[k])
  OBVIOUS
<1> HIDE DEF step, len
<1>5. s \in X
  BY DEF X
<1>6. PICK f : GoesBy(f, X, s, step, len)
  BY <1>1, <1>3, <1>5, RecursionExists
<1>7. /\ f \in [0 .. len -> X] /\ f[0] = s
      /\ \A k \in 1 .. len : f[k] = step[<<k, f[k - 1]>>]
  BY <1>6 DEF GoesBy
<1>8. ASSUME NEW k \in 1 .. len
      PROVE  f[k] = AssignNext(f[k - 1], list[k])
  <2>1. k - 1 \in 0 .. len
    BY <1>1
  <2>2. f[k - 1] \in X
    BY <1>7, <2>1
  <2> QED BY <1>4, <1>7, <2>2
<1> DEFINE Body(g) ==
             [k \in 0 .. len |-> IF k = 0 THEN s ELSE AssignNext(g[k - 1], list[k])]
<1>9. f = Body(f)
  <2>1. ASSUME NEW k \in 0 .. len
        PROVE  f[k] = Body(f)[k]
    <3>1. CASE k = 0
      BY <1>7, <3>1
    <3>2. CASE k # 0
      <4>1. k \in 1 .. len
        BY <1>1, <3>2
      <4> QED BY <1>8, <3>2, <4>1
    <3> QED BY <3>1, <3>2
  <2> QED BY <1>7, <2>1
<1> DEFINE u == CHOOSE g : g = Body(g)
<1>10. u = Body(u)
  BY <1>9
<1>11. Each(AssignNext, s, list) = u[len]
  BY DEF Each, len
<1> HIDE DEF u
<1>12. u[0] = s /\ \A k \in 1 .. len : u[k] = AssignNext(u[k - 1], list[k])
  BY <1>1, <1>10
<1>13. \A k \in 0 .. len : u[k] \in X
  <2> DEFINE S == {k \in Nat : u[k] \in X}
  <2>1. 0 \in S
    BY <1>5, <1>12
  <2>2. ASSUME NEW k \in 1 .. len, k - 1 \in S
        PROVE  k \in S
    BY <1>1, <1>2, <1>12, <2>2
  <2>3. \A k \in 0 .. len : k \in S
    <3> HIDE DEF S
    <3> QED BY <1>1, <2>1, <2>2, InductionUpTo
  <2> QED BY <2>3
<1> QED BY <1>11, <1>12, <1>13 DEF GoesThrough, len, X

(* A list is taken without a look at the error before it.                    *)
LEMMA ListKeeps ==
  ASSUME NEW vals, NEW list, ListOf(list, vals),
         NEW s \in SetStates(vals), NEW t \in SetStates(vals), Alike(s, t)
  PROVE  /\ Each(AssignNext, s, list) \in SetStates(vals)
         /\ Alike(Each(AssignNext, s, list), Each(AssignNext, t, list))
<1> DEFINE len == Len(list)
<1>1. len \in Nat
  BY DEF ListOf
<1>2. PICK f : /\ GoesThrough(f, s, list)
               /\ \A k \in 0 .. len : f[k] \in SetStates(vals)
               /\ Each(AssignNext, s, list) = f[len]
  BY ListSteps
<1>3. PICK g : /\ GoesThrough(g, t, list)
               /\ \A k \in 0 .. len : g[k] \in SetStates(vals)
               /\ Each(AssignNext, t, list) = g[len]
  BY ListSteps
<1> DEFINE S == {k \in Nat : Alike(f[k], g[k])}
<1>4. 0 \in S
  BY <1>2, <1>3 DEF GoesThrough
<1>5. ASSUME NEW k \in 1 .. len, k - 1 \in S
      PROVE  k \in S
  <2>1. Alike(f[k - 1], g[k - 1])
    BY <1>5
  <2>2. f[k] = AssignNext(f[k - 1], list[k]) /\ g[k] = AssignNext(g[k - 1], list[k])
    BY <1>2, <1>3 DEF GoesThrough
  <2>3. Alike(f[k], g[k])
    BY <2>1, <2>2, AssignAlike
  <2> QED BY <1>1, <2>3
<1>6. len \in S
  <2> HIDE DEF S, len
  <2>1. \A k \in 0 .. len : k \in S
    BY <1>1, <1>4, <1>5, InductionUpTo
  <2> QED BY <1>1, <2>1
<1>7. Alike(f[len], g[len])
  BY <1>6
<1>8. f[len] \in SetStates(vals)
  BY <1>1, <1>2
<1> QED BY <1>2, <1>3, <1>7, <1>8

(***************************************************************************)
(* The parameters of a medium.                                             *)
(***************************************************************************)
LEMMA ParametersAre ==
  ASSUME NEW m \in Media, NEW k \in 1 .. Len(m.fmtp)
  PROVE  /\ Len(m.fmtp) \in Nat
         /\ ListOf(m.fmtp[k].values, Values(m))
         /\ m.fmtp[k].values[1] \in Values(m) /\ m.fmtp[k].values[1] \in SetValues
<1>1. m.fmtp \in Seq(Parameters) /\ m.fmtp[k].values # <<>>
  BY MediaAssumption
<1>2. Len(m.fmtp) \in Nat /\ DOMAIN m.fmtp = 1 .. Len(m.fmtp)
  BY <1>1
<1>3. m.fmtp[k] \in Parameters
  BY <1>1, ElementOfSeq
<1> DEFINE list == m.fmtp[k].values
<1>4. list \in Seq(SetValues)
  BY <1>3 DEF Parameters, SetValues
<1>5. list # <<>>
  BY <1>1
<1>6. DOMAIN list = 1 .. Len(list) /\ 1 \in 1 .. Len(list)
  <2> HIDE DEF list
  <2> QED BY <1>4, <1>5, EmptySeq
<1>7. ASSUME NEW n \in 1 .. Len(list)
      PROVE  list[n] \in Values(m) /\ list[n] \in SetValues
  <2>1. list[n] \in SetValues
    <3> HIDE DEF list
    <3> QED BY <1>4, ElementOfSeq
  <2>2. list[n] \in {list[i] : i \in DOMAIN list}
    BY <1>6
  <2>3. list[n] \in Values(m)
    BY <1>2, <2>2 DEF Values
  <2> QED BY <2>1, <2>3
<1> QED BY <1>2, <1>4, <1>6, <1>7 DEF ListOf

(* A parameter gives sets with an origin, and does not look at the error.    *)
LEMMA ParameterKeeps ==
  ASSUME NEW m \in Media, NEW k \in 1 .. Len(m.fmtp),
         NEW s \in SetStates(Values(m)), NEW t \in SetStates(Values(m)), Alike(s, t)
  PROVE  /\ Parameter(s, m.fmtp[k]) \in SetStates(Values(m))
         /\ Alike(Parameter(s, m.fmtp[k]), Parameter(t, m.fmtp[k]))
<1> DEFINE p == m.fmtp[k]
           vals == Values(m)
<1>1. /\ ListOf(p.values, vals)
      /\ p.values[1] \in vals /\ p.values[1] \in SetValues
  BY ParametersAre
<1> HIDE DEF p, vals
<1>2. s \in SetStates(vals) /\ t \in SetStates(vals)
  BY DEF vals
<1>3. CASE p.key \in SetKinds
  <2>1. /\ Parameter(s, p) = Assign(s, p.key, p.values[1])
        /\ Parameter(t, p) = Assign(t, p.key, p.values[1])
    BY <1>3 DEF Parameter, SetKinds
  <2>2. Assign(s, p.key, p.values[1]) \in SetStates(vals)
    BY <1>1, <1>2, <1>3, AssignKeeps
  <2> QED BY <2>1, <2>2, AssignAlike DEF p, vals
<1>4. CASE p.key = "parameter-sets"
  <2>1. /\ Parameter(s, p) = Each(AssignNext, AtFirst(s), p.values)
        /\ Parameter(t, p) = Each(AssignNext, AtFirst(t), p.values)
    BY <1>4 DEF Parameter, SetKinds
  <2>2. AtFirst(s) \in SetStates(vals) /\ AtFirst(t) \in SetStates(vals)
    BY <1>2, FromSetStates, SetStatesAre DEF AtFirst
  <2>3. Alike(AtFirst(s), AtFirst(t))
    BY AssignAlike
  <2> QED BY <1>1, <2>1, <2>2, <2>3, ListKeeps DEF p, vals
<1>5. CASE p.key \notin SetKinds /\ p.key # "parameter-sets"
  <2>1. Parameter(s, p) = s /\ Parameter(t, p) = t
    BY <1>5 DEF Parameter
  <2> QED BY <2>1 DEF p
<1> QED BY <1>3, <1>4, <1>5

(* The sets of a medium, if the error before it is e.                        *)
NoSetsAfter(e, m) ==
  [of |-> [name \in SetKinds |-> <<>>], err |-> e, names |-> NamesOf(m), idx |-> 0]

SetsAfter(e, m) == Each(Parameter, NoSetsAfter(e, m), m.fmtp)

(* A medium begins with such a record, whatever the error before it.         *)
LEMMA NoSetsAre ==
  ASSUME NEW m, NEW e \in BOOLEAN, NEW d \in BOOLEAN, NEW vals
  PROVE  /\ NoSetsAfter(e, m) \in SetStates(vals)
         /\ Alike(NoSetsAfter(e, m), NoSetsAfter(d, m))
<1>1. NamesOf(m) \in Seq(SetKinds)
  <2>1. /\ <<"sps", "pps">> \in Seq(SetKinds)
        /\ <<"vps", "sps", "pps">> \in Seq(SetKinds)
        /\ <<>> \in Seq(SetKinds)
    BY DEF SetKinds
  <2>2. CASE m.encoding = "H264"
    BY <2>1, <2>2 DEF NamesOf
  <2>3. CASE m.encoding = "H265"
    BY <2>1, <2>3 DEF NamesOf
  <2>4. CASE m.encoding # "H264" /\ m.encoding # "H265"
    <3>1. NamesOf(m) = <<>>
      BY <2>4 DEF NamesOf
    <3> QED BY <2>1, <3>1
  <2> QED BY <2>2, <2>3, <2>4
<1> DEFINE none == [name \in SetKinds |-> <<>>]
<1>2. none \in [SetKinds -> Octets]
  BY DEF Octets
<1>3. HasOrigin(none, vals)
  BY DEF HasOrigin
<1> HIDE DEF none
<1>4. NoSetsAfter(e, m) \in SetStates(vals)
  BY <1>1, <1>2, <1>3, SetStatesAre DEF NoSetsAfter, none
<1> QED BY <1>4 DEF NoSetsAfter, Alike

IsSetsOf(f, s, m) ==
  /\ f[0] = s
  /\ \A k \in 1 .. Len(m.fmtp) : f[k] = Parameter(f[k - 1], m.fmtp[k])

(* What the parameters of a medium make of the sets, one by one.             *)
LEMMA ParameterSteps ==
  ASSUME NEW m \in Media, NEW s \in SetStates(Values(m))
  PROVE  \E f : /\ IsSetsOf(f, s, m)
                /\ \A k \in 0 .. Len(m.fmtp) : f[k] \in SetStates(Values(m))
                /\ Each(Parameter, s, m.fmtp) = f[Len(m.fmtp)]
<1> DEFINE X == SetStates(Values(m))
           list == m.fmtp
           len == Len(list)
           step == [p \in (1 .. len) \X X |-> Parameter(p[2], list[p[1]])]
<1>1. len \in Nat
  BY MediaAssumption
<1>2. ASSUME NEW k \in 1 .. len, NEW x \in X
      PROVE  Parameter(x, list[k]) \in X
  <2>1. Alike(x, x)
    BY DEF Alike
  <2> QED BY <2>1, ParameterKeeps
<1> HIDE DEF X
<1>3. step \in [(1 .. len) \X X -> X]
  BY <1>2
<1>4. \A k \in 1 .. len, x \in X : step[<<k, x>>] = Parameter(x, list[k])
  OBVIOUS
<1> HIDE DEF step, len, list
<1>5. s \in X
  BY DEF X
<1>6. PICK f : GoesBy(f, X, s, step, len)
  BY <1>1, <1>3, <1>5, RecursionExists
<1>7. /\ f \in [0 .. len -> X] /\ f[0] = s
      /\ \A k \in 1 .. len : f[k] = step[<<k, f[k - 1]>>]
  BY <1>6 DEF GoesBy
<1>8. ASSUME NEW k \in 1 .. len
      PROVE  f[k] = Parameter(f[k - 1], list[k])
  <2>1. k - 1 \in 0 .. len
    BY <1>1
  <2>2. f[k - 1] \in X
    BY <1>7, <2>1
  <2> QED BY <1>4, <1>7, <2>2
<1> DEFINE Body(g) ==
             [k \in 0 .. len |-> IF k = 0 THEN s ELSE Parameter(g[k - 1], list[k])]
<1>9. f = Body(f)
  <2>1. ASSUME NEW k \in 0 .. len
        PROVE  f[k] = Body(f)[k]
    <3>1. CASE k = 0
      BY <1>7, <3>1
    <3>2. CASE k # 0
      <4>1. k \in 1 .. len
        BY <1>1, <3>2
      <4> QED BY <1>8, <3>2, <4>1
    <3> QED BY <3>1, <3>2
  <2> QED BY <1>7, <2>1
<1> DEFINE u == CHOOSE g : g = Body(g)
<1>10. u = Body(u)
  BY <1>9
<1>11. Each(Parameter, s, list) = u[len]
  BY DEF Each, len
<1> HIDE DEF u
<1>12. u[0] = s /\ \A k \in 1 .. len : u[k] = Parameter(u[k - 1], list[k])
  BY <1>1, <1>10
<1>13. \A k \in 0 .. len : u[k] \in X
  <2> DEFINE S == {k \in Nat : u[k] \in X}
  <2>1. 0 \in S
    BY <1>5, <1>12
  <2>2. ASSUME NEW k \in 1 .. len, k - 1 \in S
        PROVE  k \in S
    BY <1>1, <1>2, <1>12, <2>2
  <2>3. \A k \in 0 .. len : k \in S
    <3> HIDE DEF S
    <3> QED BY <1>1, <2>1, <2>2, InductionUpTo
  <2> QED BY <2>3
<1> QED BY <1>11, <1>12, <1>13 DEF IsSetsOf, len, list, X

(* The sets of a medium have their origin in it, and are the same after any  *)
(* error.                                                                    *)
LEMMA SetsAre ==
  ASSUME NEW m \in Media, NEW e \in BOOLEAN, NEW d \in BOOLEAN
  PROVE  /\ SetsAfter(e, m) \in SetStates(Values(m))
         /\ SetsAfter(e, m).of = SetsAfter(d, m).of
<1> DEFINE X == SetStates(Values(m))
           s == NoSetsAfter(e, m)
           t == NoSetsAfter(d, m)
           len == Len(m.fmtp)
<1>1. s \in X /\ t \in X /\ Alike(s, t)
  BY NoSetsAre
<1>2. len \in Nat
  BY MediaAssumption
<1> HIDE DEF s, t
<1>3. PICK f : /\ IsSetsOf(f, s, m)
               /\ \A k \in 0 .. len : f[k] \in X
               /\ Each(Parameter, s, m.fmtp) = f[len]
  BY <1>1, ParameterSteps
<1>4. PICK g : /\ IsSetsOf(g, t, m)
               /\ \A k \in 0 .. len : g[k] \in X
               /\ Each(Parameter, t, m.fmtp) = g[len]
  BY <1>1, ParameterSteps
<1> DEFINE S == {k \in Nat : Alike(f[k], g[k])}
<1>5. 0 \in S
  BY <1>1, <1>3, <1>4 DEF IsSetsOf
<1>6. ASSUME NEW k \in 1 .. len, k - 1 \in S
      PROVE  k \in S
  <2>1. Alike(f[k - 1], g[k - 1])
    BY <1>6
  <2>2. k - 1 \in 0 .. len
    BY <1>2
  <2>3. f[k - 1] \in X /\ g[k - 1] \in X
    BY <1>3, <1>4, <2>2
  <2>4. /\ f[k] = Parameter(f[k - 1], m.fmtp[k])
        /\ g[k] = Parameter(g[k - 1], m.fmtp[k])
    BY <1>3, <1>4 DEF IsSetsOf
  <2>5. Alike(f[k], g[k])
    BY <2>1, <2>3, <2>4, ParameterKeeps
  <2> QED BY <1>2, <2>5
<1>7. len \in S
  <2> HIDE DEF S, len
  <2>1. \A k \in 0 .. len : k \in S
    BY <1>2, <1>5, <1>6, InductionUpTo
  <2> QED BY <1>2, <2>1
<1>8. Alike(f[len], g[len]) /\ f[len] \in X
  BY <1>2, <1>3, <1>7
<1> QED BY <1>3, <1>4, <1>8 DEF SetsAfter, Alike, s, t

(***************************************************************************)
(* Codec data of the sets.                                                 *)
(***************************************************************************)
(* An entry of the result, of codec data. *)
EntryOf(m, place, codec) ==
  [from |-> place, encoding |-> m.encoding, record |-> codec.info, info |-> codec.sps]

(* Codec data has the sets that it was made of, and there were all but, in   *)
(* H.264, the PPS.                                                           *)
LEMMA ConstructedHas ==
  ASSUME NEW m, NEW place, NEW sets, Constructed(m, sets).ok,
         NEW k \in DOMAIN NamesOf(m)
  PROVE  LET name == NamesOf(m)[k]
         IN  /\ name \in SetKinds
             /\ SetIn(EntryOf(m, place, Constructed(m, sets)), name) = sets.of[name]
             /\ sets.of[name] # <<>> \/ (m.encoding = "H264" /\ name = "pps")
<1> DEFINE sps == sets.of["sps"]
           vps == sets.of["vps"]
           pps == sets.of["pps"]
           name == NamesOf(m)[k]
           codec == Constructed(m, sets)
           entry == EntryOf(m, place, codec)
<1>1. entry.record = codec.info
  BY DEF EntryOf
<1>2. CASE m.encoding = "H264"
  <2> DEFINE made0 == H264!NewCodecDataFromSPSAndPPS(sps, pps)
  <2>1. Constructed(m, sets) = made0
    BY <1>2 DEF Constructed
  <2>2. made0.ok
    BY <2>1
  <2>3. name = "sps" \/ name = "pps"
    BY <1>2 DEF NamesOf
  <2> HIDE DEF sps, pps, name, entry
  <2>4. ~(Len(sps) < 4)
    BY <2>2 DEF H264!NewCodecDataFromSPSAndPPS, H264!OutOfRange
  <2>5. sps # <<>>
    BY <2>4
  <2>6. made0.info.SPS = <<sps>> /\ made0.info.PPS = <<pps>>
    BY <2>2, <2>4 DEF H264!NewCodecDataFromSPSAndPPS, H264!CodecData, H264!BadRecord
  <2>7. entry.record.SPS = <<sps>> /\ entry.record.PPS = <<pps>>
    BY <1>1, <2>1, <2>6
  <2>8. CASE name = "sps"
    <3>1. SetIn(entry, name) = sps
      BY <2>7, <2>8 DEF SetIn
    <3> QED BY <2>5, <2>8, <3>1 DEF sps, name, entry, SetKinds
  <2>9. CASE name = "pps"
    <3>1. SetIn(entry, name) = pps
      BY <2>7, <2>9 DEF SetIn
    <3> QED BY <1>2, <2>9, <3>1 DEF pps, name, entry, SetKinds
  <2> QED BY <2>3, <2>8, <2>9
<1>3. CASE m.encoding # "H264"
  <2> DEFINE made0 == H265!NewCodecDataFromVPSAndSPSAndPPS(vps, sps, pps)
  <2>1. Constructed(m, sets) = made0
    BY <1>3 DEF Constructed
  <2>2. made0.ok
    BY <2>1
  <2>3. name = "vps" \/ name = "sps" \/ name = "pps"
    BY <1>3 DEF NamesOf
  <2> HIDE DEF sps, pps, vps, name, entry
  <2> DEFINE parsed0 == H265!ParseSPS(sps)
  <2>4. ~(Len(sps) < 6) /\ ~(parsed0.ok /\ (vps = <<>> \/ pps = <<>>))
    BY <2>2 DEF H265!NewCodecDataFromVPSAndSPSAndPPS, H265!OutOfRange
  <2>5. /\ made0.info.SPS = <<sps>> /\ made0.info.PPS = <<pps>>
        /\ made0.info.VPS = <<vps>> /\ parsed0.ok
    BY <2>2, <2>4
       DEF H265!NewCodecDataFromVPSAndSPSAndPPS, H265!CodecData, H265!BadRecord
  <2>6. sps # <<>> /\ vps # <<>> /\ pps # <<>>
    <3> HIDE DEF parsed0
    <3> QED BY <2>4, <2>5
  <2>7. /\ entry.record.SPS = <<sps>> /\ entry.record.PPS = <<pps>>
        /\ entry.record.VPS = <<vps>>
    BY <1>1, <2>1, <2>5
  <2>8. CASE name = "sps"
    <3>1. SetIn(entry, name) = sps
      BY <2>7, <2>8 DEF SetIn
    <3> QED BY <2>6, <2>8, <3>1 DEF sps, name, entry, SetKinds
  <2>9. CASE name = "pps"
    <3>1. SetIn(entry, name) = pps
      BY <2>7, <2>9 DEF SetIn
    <3> QED BY <2>6, <2>9, <3>1 DEF pps, name, entry, SetKinds
  <2>10. CASE name = "vps"
    <3>1. SetIn(entry, name) = vps
      BY <2>7, <2>10 DEF SetIn
    <3> QED BY <2>6, <2>10, <3>1 DEF vps, name, entry, SetKinds
  <2> QED BY <2>3, <2>8, <2>9, <2>10
<1> QED BY <1>2, <1>3

(* IsComplete, without a look at the error.                                  *)
IsWhole(m) ==
  /\ IsRead(m) /\ NamesOf(m) # <<>>
  /\ \A value \in Values(m) : value.base64
  /\ \/ \E k \in DOMAIN m.fmtp :
          m.fmtp[k].key = "parameter-sets" /\ Len(m.fmtp[k].values) = Len(NamesOf(m))
     \/ \A i \in DOMAIN NamesOf(m) :
          \E k \in DOMAIN m.fmtp : m.fmtp[k].key = NamesOf(m)[i]
  /\ Constructed(m, SetsAfter(FALSE, m)).ok

(* The codec data that is made does not depend on the error before it.       *)
LEMMA SetsOfIs ==
  ASSUME NEW m \in Media, err \in BOOLEAN
  PROVE  /\ SetsOf(m) = SetsAfter(err, m)
         /\ Constructed(m, SetsOf(m)) = Constructed(m, SetsAfter(FALSE, m))
         /\ SetsOf(m).err \in BOOLEAN /\ HasOrigin(SetsOf(m).of, Values(m))
<1>1. SetsOf(m) = SetsAfter(err, m)
  BY DEF SetsOf, SetsAfter, NoSets, NoSetsAfter
<1>2. /\ SetsAfter(err, m) \in SetStates(Values(m))
      /\ SetsAfter(err, m).of = SetsAfter(FALSE, m).of
  BY SetsAre
<1>3. /\ SetsAfter(err, m).err \in BOOLEAN
      /\ HasOrigin(SetsAfter(err, m).of, Values(m))
  BY <1>2, FromSetStates
<1>4. Constructed(m, SetsAfter(err, m)) = Constructed(m, SetsAfter(FALSE, m))
  BY <1>2 DEF Constructed
<1> QED BY <1>1, <1>3, <1>4

(* A medium is complete or not whatever stands before it. *)
LEMMA IsCompleteIs ==
  ASSUME NEW m \in Media, err \in BOOLEAN
  PROVE  IsComplete(m) <=> IsWhole(m)
BY SetsOfIs DEF IsComplete, IsWhole

(***************************************************************************)
(* The result and the media.                                               *)
(***************************************************************************)
IsList(r) == \E S : r \in Seq(S)

EntryIsOf(r, m) ==
  /\ r.encoding = m.encoding
  /\ \A k \in DOMAIN NamesOf(m) : IsOwn(m, NamesOf(m)[k], SetIn(r, NamesOf(m)[k]))

HasEntry(r, k) == \E i \in 1 .. Len(r) : r[i].from = k

Describes(r, s) ==
  /\ \A i \in 1 .. Len(r) :
       r[i].from \in 1 .. Len(s) /\ EntryIsOf(r[i], s[r[i].from])
  /\ \A i, j \in 1 .. Len(r) : i < j => r[i].from < r[j].from
  /\ \A k \in 1 .. Len(s) : IsWhole(s[k]) => HasEntry(r, k)

(* Behind the others. *)
LEMMA Behind ==
  ASSUME NEW S, NEW s \in Seq(S), NEW x \in S
  PROVE  /\ Append(s, x) \in Seq(S) /\ Len(Append(s, x)) = Len(s) + 1
         /\ \A i \in 1 .. Len(s) : Append(s, x)[i] = s[i]
         /\ Append(s, x)[Len(s) + 1] = x
  OBVIOUS

(* A medium that is not complete needs no entry. *)
LEMMA DescribesBehind ==
  ASSUME NEW r, NEW s \in Seq(Media), Describes(r, s), NEW m \in Media, ~IsWhole(m)
  PROVE  Describes(r, Append(s, m))
<1> DEFINE t == Append(s, m)
<1>1. /\ Len(t) = Len(s) + 1 /\ \A i \in 1 .. Len(s) : t[i] = s[i]
      /\ t[Len(s) + 1] = m /\ Len(s) \in Nat
  BY Behind
<1> HIDE DEF t
<1>2. ASSUME NEW i \in 1 .. Len(r)
      PROVE  r[i].from \in 1 .. Len(t) /\ EntryIsOf(r[i], t[r[i].from])
  <2>1. r[i].from \in 1 .. Len(s) /\ EntryIsOf(r[i], s[r[i].from])
    BY DEF Describes
  <2>2. t[r[i].from] = s[r[i].from]
    BY <1>1, <2>1
  <2>3. r[i].from \in 1 .. Len(t)
    BY <1>1, <2>1
  <2> QED BY <2>1, <2>2, <2>3
<1>3. ASSUME NEW k \in 1 .. Len(t), IsWhole(t[k])
      PROVE  HasEntry(r, k)
  <2>1. k # Len(s) + 1
    BY <1>1, <1>3
  <2>2. k \in 1 .. Len(s)
    BY <1>1, <2>1
  <2>3. t[k] = s[k]
    BY <1>1, <2>2
  <2> QED BY <1>3, <2>2, <2>3 DEF Describes
<1>4. Describes(r, t)
  BY <1>2, <1>3 DEF Describes
<1> QED BY <1>4 DEF t

(* A new entry for a new medium. *)
LEMMA DescribesNew ==
  ASSUME NEW r, IsList(r), NEW s \in Seq(Media), Describes(r, s), NEW m \in Media,
         NEW e, e.from = Len(s) + 1, EntryIsOf(e, m)
  PROVE  Describes(Append(r, e), Append(s, m)) /\ IsList(Append(r, e))
<1> DEFINE t == Append(s, m)
           q == Append(r, e)
<1>1. /\ Len(t) = Len(s) + 1 /\ \A i \in 1 .. Len(s) : t[i] = s[i]
      /\ t[Len(s) + 1] = m /\ Len(s) \in Nat
  BY Behind
<1>2. PICK S : r \in Seq(S)
  BY DEF IsList
<1>3. /\ q \in Seq(S \cup {e}) /\ Len(q) = Len(r) + 1 /\ Len(r) \in Nat
      /\ \A i \in 1 .. Len(r) : q[i] = r[i]
      /\ q[Len(r) + 1] = e
  <2>1. r \in Seq(S \cup {e})
    BY <1>2
  <2> QED BY <1>2, <2>1, Behind
<1> HIDE DEF t, q
<1>4. ASSUME NEW i \in 1 .. Len(r)
      PROVE  /\ q[i] = r[i] /\ r[i].from \in 1 .. Len(s)
             /\ t[r[i].from] = s[r[i].from] /\ EntryIsOf(r[i], s[r[i].from])
  <2>1. r[i].from \in 1 .. Len(s) /\ EntryIsOf(r[i], s[r[i].from])
    BY DEF Describes
  <2> QED BY <1>1, <1>3, <2>1
<1>5. ASSUME NEW i \in 1 .. Len(q)
      PROVE  q[i].from \in 1 .. Len(t) /\ EntryIsOf(q[i], t[q[i].from])
  <2>1. CASE i \in 1 .. Len(r)
    <3>1. q[i].from \in 1 .. Len(t)
      BY <1>1, <1>4, <2>1
    <3> QED BY <1>4, <2>1, <3>1
  <2>2. CASE i = Len(r) + 1
    <3>1. q[i] = e
      BY <1>3, <2>2
    <3>2. Len(s) + 1 \in 1 .. Len(t)
      BY <1>1
    <3> QED BY <1>1, <3>1, <3>2
  <2> QED BY <1>3, <2>1, <2>2
<1>6. ASSUME NEW i \in 1 .. Len(q), NEW j \in 1 .. Len(q), i < j
      PROVE  q[i].from < q[j].from
  <2>1. i \in 1 .. Len(r)
    BY <1>3, <1>6
  <2>2. q[i].from = r[i].from /\ r[i].from \in 1 .. Len(s)
    BY <1>4, <2>1
  <2>3. CASE j \in 1 .. Len(r)
    <3>1. q[j].from = r[j].from
      BY <1>4, <2>3
    <3>2. r[i].from < r[j].from
      BY <1>6, <2>1, <2>3 DEF Describes
    <3> QED BY <2>2, <3>1, <3>2
  <2>4. CASE j = Len(r) + 1
    <3>1. q[j].from = Len(s) + 1
      BY <1>3, <2>4
    <3> QED BY <1>1, <2>2, <3>1
  <2> QED BY <1>3, <2>3, <2>4
<1>7. ASSUME NEW k \in 1 .. Len(t), IsWhole(t[k])
      PROVE  HasEntry(q, k)
  <2>1. CASE k \in 1 .. Len(s)
    <3>1. t[k] = s[k]
      BY <1>1, <2>1
    <3>2. HasEntry(r, k)
      BY <1>7, <2>1, <3>1 DEF Describes
    <3>3. PICK i \in 1 .. Len(r) : r[i].from = k
      BY <3>2 DEF HasEntry
    <3>4. i \in 1 .. Len(q) /\ q[i].from = k
      BY <1>3, <1>4, <3>3
    <3> QED BY <3>4 DEF HasEntry
  <2>2. CASE k = Len(s) + 1
    <3>1. Len(r) + 1 \in 1 .. Len(q)
      BY <1>3
    <3>2. q[Len(r) + 1].from = k
      BY <1>3, <2>2
    <3> QED BY <3>1, <3>2 DEF HasEntry
  <2> QED BY <1>1, <2>1, <2>2
<1>8. Describes(q, t)
  BY <1>5, <1>6, <1>7 DEF Describes
<1>9. IsList(q)
  BY <1>3 DEF IsList
<1> QED BY <1>8, <1>9 DEF t, q

(***************************************************************************)
(* What is kept from medium to medium.                                     *)
(***************************************************************************)
Incomplete(s) == \E k \in 1 .. Len(s) : IsRead(s[k]) /\ ~IsWhole(s[k])

(* Media described in full have their entries, and an error has its medium:  *)
(* IsWhole does not look at the error, which changes with every medium.      *)
SdpInv ==
  /\ session \in Seq(Media) /\ err \in BOOLEAN /\ IsList(ret)
  /\ Describes(ret, session)
  /\ err => ended = "refused" \/ Incomplete(session)

(* There is nothing yet. *)
LEMMA SdpStarts == SdpInit => SdpInv
<1> SUFFICES ASSUME SdpInit PROVE SdpInv
  OBVIOUS
<1>1. session = <<>> /\ ret = <<>> /\ err = FALSE
  BY DEF SdpInit
<1>2. <<>> \in Seq({}) /\ <<>> \in Seq(Media) /\ Len(<<>>) = 0
  OBVIOUS
<1>3. IsList(<<>>)
  BY <1>2 DEF IsList
<1>4. Describes(<<>>, <<>>)
  BY <1>2 DEF Describes
<1> QED BY <1>1, <1>2, <1>3, <1>4 DEF SdpInv

(* The media before stay incomplete, and a new one may be.                   *)
LEMMA IncompleteStays ==
  ASSUME NEW s \in Seq(Media), NEW m \in Media,
         Incomplete(s) \/ (IsRead(m) /\ ~IsWhole(m))
  PROVE  Incomplete(Append(s, m))
<1>1. /\ Len(Append(s, m)) = Len(s) + 1 /\ Append(s, m)[Len(s) + 1] = m
      /\ \A i \in 1 .. Len(s) : Append(s, m)[i] = s[i]
      /\ Len(s) \in Nat
  BY Behind
<1> DEFINE t == Append(s, m)
<1> HIDE DEF t
<1>2. CASE Incomplete(s)
  <2>1. PICK k \in 1 .. Len(s) : IsRead(s[k]) /\ ~IsWhole(s[k])
    BY <1>2 DEF Incomplete
  <2>2. k \in 1 .. Len(t) /\ t[k] = s[k]
    BY <1>1, <2>1 DEF t
  <2>3. Incomplete(t)
    BY <2>1, <2>2 DEF Incomplete
  <2> QED BY <2>3 DEF t
<1>3. CASE IsRead(m) /\ ~IsWhole(m)
  <2>1. Len(s) + 1 \in 1 .. Len(t) /\ t[Len(s) + 1] = m
    BY <1>1 DEF t
  <2>2. Incomplete(t)
    BY <1>3, <2>1 DEF Incomplete
  <2> QED BY <2>2 DEF t
<1> QED BY <1>2, <1>3

(* A medium that is skipped, or of another encoding, is not complete; only   *)
(* the second one decides about the error.                                   *)
LEMMA SkipKeeps ==
  ASSUME SdpInv, NEW m \in Media, SkipMedia(m) \/ OtherMedia(m)
  PROVE  SdpInv'
<1>1. /\ session \in Seq(Media) /\ err \in BOOLEAN /\ IsList(ret)
      /\ Describes(ret, session)
      /\ err => ended = "refused" \/ Incomplete(session)
  BY DEF SdpInv
<1>2. session' = Append(session, m) /\ ret' = ret /\ ended' = ended
  BY DEF SkipMedia, OtherMedia
<1>3. ~IsWhole(m)
  BY DEF SkipMedia, OtherMedia, IsWhole
<1>4. session' \in Seq(Media) /\ Describes(ret', session')
  BY <1>1, <1>2, <1>3, DescribesBehind, Behind
<1>5. err' \in BOOLEAN
  BY <1>1, SetsOfIs DEF SkipMedia, OtherMedia
<1>6. err' => ended' = "refused" \/ Incomplete(session')
  <2>1. CASE SkipMedia(m)
    <3>1. err' = err
      BY <2>1 DEF SkipMedia
    <3>2. Incomplete(session) => Incomplete(session')
      BY <1>1, <1>2, IncompleteStays
    <3> QED BY <1>1, <1>2, <3>1, <3>2
  <2>2. CASE OtherMedia(m)
    <3>1. IsRead(m)
      BY <2>2 DEF OtherMedia
    <3>2. Incomplete(session')
      BY <1>1, <1>2, <1>3, <3>1, IncompleteStays
    <3> QED BY <3>2
  <2> QED BY <2>1, <2>2
<1> QED BY <1>1, <1>2, <1>4, <1>5, <1>6 DEF SdpInv

(* A video medium gives an entry, or an error and no entry.                  *)
LEMMA VideoKeeps ==
  ASSUME SdpInv, NEW m \in Media, VideoMedia(m)
  PROVE  SdpInv'
<1> DEFINE made0 == Constructed(m, SetsOf(m))
<1>1. /\ session \in Seq(Media) /\ err \in BOOLEAN /\ IsList(ret)
      /\ Describes(ret, session)
  BY DEF SdpInv
<1>2. /\ session' = Append(session, m) /\ IsRead(m)
  BY DEF VideoMedia
<1>3. made0 = Constructed(m, SetsAfter(FALSE, m))
  BY <1>1, SetsOfIs
<1>4. CASE made0.ok
  <2> DEFINE e == EntryOf(m, Len(session) + 1, made0)
  <2>1. err' = FALSE /\ ret' = Append(ret, e)
    BY <1>4 DEF VideoMedia, EntryOf
  <2>2. EntryIsOf(e, m)
    <3>1. HasOrigin(SetsOf(m).of, Values(m))
      BY <1>1, SetsOfIs
    <3>2. ASSUME NEW k \in DOMAIN NamesOf(m)
          PROVE  IsOwn(m, NamesOf(m)[k], SetIn(e, NamesOf(m)[k]))
      <4> DEFINE name == NamesOf(m)[k]
                 set == SetsOf(m).of[name]
      <4>1. /\ name \in SetKinds /\ SetIn(e, name) = set
            /\ set # <<>> \/ (m.encoding = "H264" /\ name = "pps")
        BY <1>4, ConstructedHas
      <4> HIDE DEF name, e
      <4>2. set = <<>> \/ \E value \in Values(m) : value.base64 /\ value.bytes = set
        BY <3>1, <4>1 DEF HasOrigin
      <4> HIDE DEF set
      <4>3. IsOwn(m, name, SetIn(e, name))
        BY <4>1, <4>2 DEF IsOwn
      <4> QED BY <4>3 DEF name
    <3>3. e.encoding = m.encoding
      BY DEF EntryOf
    <3> HIDE DEF e
    <3> QED BY <3>2, <3>3 DEF EntryIsOf
  <2>3. e.from = Len(session) + 1
    BY DEF EntryOf
  <2> HIDE DEF e
  <2>4. Describes(ret', session') /\ IsList(ret')
    BY <1>1, <1>2, <2>1, <2>2, <2>3, DescribesNew
  <2>5. session' \in Seq(Media)
    BY <1>1, <1>2, Behind
  <2> QED BY <2>1, <2>4, <2>5 DEF SdpInv
<1>5. CASE ~made0.ok
  <2>1. err' = TRUE /\ ret' = ret
    BY <1>5 DEF VideoMedia
  <2>2. ~IsWhole(m)
    <3> HIDE DEF made0
    <3>1. ~Constructed(m, SetsAfter(FALSE, m)).ok
      BY <1>3, <1>5
    <3> QED BY <3>1 DEF IsWhole
  <2>3. Describes(ret', session')
    BY <1>1, <1>2, <2>1, <2>2, DescribesBehind
  <2>4. Incomplete(session')
    BY <1>1, <1>2, <2>2, IncompleteStays
  <2>5. session' \in Seq(Media)
    BY <1>1, <1>2, Behind
  <2> QED BY <1>1, <2>1, <2>3, <2>4, <2>5 DEF SdpInv
<1> QED BY <1>4, <1>5

(* Every medium, and a session that is refused, keep the invariant.          *)
LEMMA SdpKeeps == SdpInv /\ [SdpNext]_sdpvars => SdpInv'
<1> SUFFICES ASSUME SdpInv, [SdpNext]_sdpvars PROVE SdpInv'
  OBVIOUS
<1>1. CASE RefuseSession
  BY <1>1 DEF RefuseSession, SdpInv
<1>2. ASSUME NEW m \in Media, SkipMedia(m) \/ OtherMedia(m) PROVE SdpInv'
  BY <1>2, SkipKeeps
<1>3. ASSUME NEW m \in Media, VideoMedia(m) PROVE SdpInv'
  BY <1>3, VideoKeeps
<1>4. CASE UNCHANGED sdpvars
  BY <1>4 DEF sdpvars, SdpInv
<1> QED BY <1>1, <1>2, <1>3, <1>4 DEF SdpNext

(* IsWhole is IsComplete of the media that are there.                        *)
LEMMA SdpSays == SdpInv => SdpKeepsCodecs
<1> SUFFICES ASSUME SdpInv PROVE SdpKeepsCodecs
  OBVIOUS
<1>1. /\ session \in Seq(Media) /\ err \in BOOLEAN /\ IsList(ret)
      /\ Describes(ret, session)
      /\ err => ended = "refused" \/ Incomplete(session)
  BY DEF SdpInv
<1>2. DOMAIN session = 1 .. Len(session) /\ DOMAIN ret = 1 .. Len(ret)
  BY <1>1 DEF IsList
<1>3. ASSUME NEW k \in 1 .. Len(session)
      PROVE  IsComplete(session[k]) <=> IsWhole(session[k])
  <2>1. session[k] \in Media
    BY <1>1, ElementOfSeq
  <2> QED BY <1>1, <2>1, IsCompleteIs
<1>4. \A i, j \in DOMAIN ret : i < j => ret[i].from < ret[j].from
  BY <1>1, <1>2 DEF Describes
<1>5. \A k \in DOMAIN session : IsComplete(session[k]) => k \in Made
  <2>1. SUFFICES ASSUME NEW k \in 1 .. Len(session), IsComplete(session[k])
                 PROVE  k \in Made
    BY <1>2
  <2>2. HasEntry(ret, k)
    BY <1>1, <1>3, <2>1 DEF Describes
  <2> QED BY <1>2, <2>2 DEF HasEntry, Made
<1>6. \A i \in DOMAIN ret : EntryIsOf(ret[i], session[ret[i].from])
  BY <1>1, <1>2 DEF Describes
<1>7. err /\ ended # "refused" =>
        \E k \in DOMAIN session : IsRead(session[k]) /\ ~IsComplete(session[k])
  BY <1>1, <1>2, <1>3 DEF Incomplete
<1> QED BY <1>4, <1>5, <1>6, <1>7 DEF SdpKeepsCodecs, EntryIsOf

(* A medium that is described in full has its codec data in the result, at   *)
(* its place; each VPS, SPS and PPS there is of its own medium, whatever     *)
(* stands around it, or a PPS of H.264 that is missing; and an error is that *)
(* of a medium that is not described in full: for every set of media         *)
(* descriptions (sdp.go:15-152).                                             *)
THEOREM SdpKeepsCodecsCorrect == SdpSpec => []SdpKeepsCodecs
BY SdpStarts, SdpKeeps, SdpSays, PTL DEF SdpSpec

(***************************************************************************)
(* Decoder configuration records.                                          *)
(***************************************************************************)
Octet == 0 .. 255

(* An octet, without its 256 cases.                                          *)
LEMMA OctetIs ==
  ASSUME NEW x
  PROVE  x \in Octet <=> x \in Nat /\ x < 256
BY DEF Octet

(* A unit that a record holds. *)
IsSet(u) == u \in Seq(Octet) /\ 1 <= Len(u) /\ Len(u) < 65536

(* Two bytes hold the length. *)
LEMMA LengthInTwo ==
  ASSUME NEW n \in Nat, n < 65536
  PROVE  /\ U16(n) \in Seq(Octet) /\ Len(U16(n)) = 2
         /\ 256 * U16(n)[1] + U16(n)[2] = n
<1> DEFINE q == n \div 256
           r == n % 256
<1>1. q \in Nat /\ r \in Nat /\ r < 256 /\ n = 256 * q + r
  BY Divided
<1>2. q < 256
  BY <1>1
<1>3. q % 256 = q
  BY <1>1, <1>2
<1> HIDE DEF q, r
<1>4. U16(n) = <<q, r>>
  BY <1>3 DEF U16, q, r
<1>5. q \in Octet /\ r \in Octet
  BY <1>1, <1>2, OctetIs
<1>6. <<q, r>> \in Seq(Octet) /\ Len(<<q, r>>) = 2
      /\ <<q, r>>[1] = q /\ <<q, r>>[2] = r
  BY <1>5
<1>7. 256 * q + r = n
  BY <1>1
<1> QED BY <1>4, <1>6, <1>7

(* The only step of a list of one. *)
LEMMA OneUnit ==
  ASSUME NEW b, NEW n
  PROVE  Units(b, n, 1) = Unit(Cursor(b, n), 1)
<1> DEFINE list == [k \in 1 .. 1 |-> k]
           Body(g) == [k \in 0 .. Len(list) |->
                         IF k = 0 THEN Cursor(b, n) ELSE Unit(g[k - 1], list[k])]
           f == [k \in 0 .. 1 |-> IF k = 0 THEN Cursor(b, n)
                                  ELSE Unit(Cursor(b, n), 1)]
           u == CHOOSE g : g = Body(g)
<1>1. Len(list) = 1 /\ list[1] = 1
  <2>1. list \in Seq(Nat) /\ DOMAIN list = 1 .. 1
    OBVIOUS
  <2> QED BY <2>1
<1>2. Units(b, n, 1) = u[Len(list)]
  BY DEF Units, Each
<1> HIDE DEF list
<1>3. f = Body(f)
  <2>1. f[0] = Cursor(b, n) /\ f[1] = Unit(Cursor(b, n), 1)
    OBVIOUS
  <2> HIDE DEF f
  <2>2. ASSUME NEW k \in 0 .. 1 PROVE f[k] = Body(f)[k]
    <3>1. CASE k = 0
      BY <1>1, <2>1, <3>1
    <3>2. CASE k = 1
      BY <1>1, <2>1, <3>2
    <3> QED BY <3>1, <3>2
  <2>3. Body(f) = [k \in 0 .. 1 |-> Body(f)[k]]
    BY <1>1
  <2>4. f = [k \in 0 .. 1 |-> f[k]]
    BY DEF f
  <2> QED BY <2>2, <2>3, <2>4
<1>4. u = Body(u)
  <2> HIDE DEF f
  <2> QED BY <1>3
<1> HIDE DEF u
<1>5. u[0] = Cursor(b, n) /\ u[1] = Unit(u[0], list[1])
  BY <1>1, <1>4
<1> QED BY <1>1, <1>2, <1>5

(* The unit u stands in w behind its length, after n bytes. *)
StandsAt(w, n, u) ==
  /\ Len(w) >= n + 2 + Len(u)
  /\ w[n + 1] = U16(Len(u))[1] /\ w[n + 2] = U16(Len(u))[2]
  /\ \A i \in 1 .. Len(u) : w[n + 2 + i] = u[i]

(* The first m bytes of w. *)
IsStart(b, w, m) == m \in 0 .. Len(w) /\ b = SubSeq(w, 1, m)

(* A unit behind byte n comes back if m bytes are there and it is in them.   *)
ComesBack(c, b, n, u, m) ==
  /\ m >= n + 2 + Len(u) => /\ c.ok = TRUE /\ c.n = n + 2 + Len(u)
                            /\ c.units = <<u>>
  /\ m < n + 2 + Len(u) => c.ok = FALSE

(* What stands in a record comes back if it is there to its last byte, and   *)
(* is refused otherwise.                                                     *)
LEMMA UnitComesBack ==
  ASSUME NEW w \in Seq(Octet), NEW u, IsSet(u), NEW n \in Nat,
         StandsAt(w, n, u), NEW m, NEW b, IsStart(b, w, m)
  PROVE  ComesBack(Units(b, n, 1), b, n, u, m)
<1> DEFINE c == Cursor(b, n)
           size == Len(u)
<1>1. /\ size \in Nat /\ 1 <= size /\ size < 65536 /\ u \in Seq(Octet)
      /\ Len(w) \in Nat /\ Len(w) >= n + 2 + size
  BY DEF IsSet, StandsAt
<1>2. /\ m \in 0 .. Len(w) /\ b \in Seq(Octet) /\ Len(b) = m
      /\ \A i \in 1 .. m : b[i] = w[i]
  BY DEF IsStart
<1>3. c.b = b /\ c.n = n /\ c.ok = TRUE /\ c.units = <<>>
  BY DEF Cursor
<1>4. ASSUME m >= n + 2
      PROVE  LengthAt(c) = size
  <2>1. b[n + 1] = w[n + 1] /\ b[n + 2] = w[n + 2]
    BY <1>2, <1>4
  <2>2. LengthAt(c) = 256 * U16(size)[1] + U16(size)[2]
    BY <1>3, <2>1 DEF LengthAt, StandsAt
  <2> HIDE DEF size
  <2> QED BY <1>1, <2>2, LengthInTwo
<1>5. Units(b, n, 1) = Unit(c, 1)
  BY OneUnit
<1>6. ASSUME m >= n + 2 + size
      PROVE  Units(b, n, 1) = [b |-> b, n |-> n + 2 + size, ok |-> TRUE,
                               units |-> <<u>>]
  <2>1. LengthAt(c) = size
    BY <1>1, <1>2, <1>4, <1>6
  <2>2. ~(~c.ok \/ Len(c.b) < c.n + 2) /\ ~(Len(c.b) < c.n + 2 + LengthAt(c))
    BY <1>1, <1>2, <1>3, <1>6, <2>1
  <2>3. Unit(c, 1) = Past(c, size)
    BY <2>1, <2>2 DEF Unit
  <2>4. SubSeq(b, n + 3, n + 2 + size) = u
    <3> DEFINE t == SubSeq(b, n + 3, n + 2 + size)
    <3>1. t \in Seq(Octet) /\ Len(t) = size
          /\ \A i \in 1 .. size : t[i] = b[n + 2 + i]
      BY <1>1, <1>2, <1>6
    <3>2. \A i \in 1 .. size : t[i] = u[i]
      <4>1. ASSUME NEW i \in 1 .. size PROVE t[i] = u[i]
        <5>1. n + 2 + i \in 1 .. m
          BY <1>1, <1>2, <1>6
        <5>2. b[n + 2 + i] = w[n + 2 + i]
          BY <1>2, <5>1
        <5> QED BY <3>1, <5>2 DEF StandsAt
      <4> QED BY <4>1
    <3> HIDE DEF t
    <3>3. t = u
      BY <1>1, <3>1, <3>2
    <3> QED BY <3>3 DEF t
  <2>5. Append(<<>>, u) = <<u>>
    OBVIOUS
  <2> QED BY <1>3, <1>5, <2>3, <2>4, <2>5 DEF Past
<1>7. ASSUME m < n + 2 + size
      PROVE  Units(b, n, 1).ok = FALSE
  <2>1. Unit(c, 1) = Refused(c)
    <3>1. CASE m < n + 2
      BY <1>2, <1>3, <3>1 DEF Unit
    <3>2. CASE m >= n + 2
      <4>1. LengthAt(c) = size
        BY <1>4, <3>2
      <4>2. Len(c.b) < c.n + 2 + LengthAt(c)
        BY <1>2, <1>3, <1>7, <4>1
      <4> QED BY <4>2 DEF Unit
    <3> QED BY <1>2, <3>1, <3>2
  <2> QED BY <1>5, <2>1 DEF Refused
<1>8. m >= n + 2 + size => /\ Units(b, n, 1).ok = TRUE
                            /\ Units(b, n, 1).n = n + 2 + size
                            /\ Units(b, n, 1).units = <<u>>
  BY <1>6
<1> QED BY <1>7, <1>8 DEF ComesBack

(* Both parsers have these. *)
LEMMA RecordsOfParsers ==
  /\ \A b, n, count : /\ Avc!Units(b, n, count) = Units(b, n, count)
                      /\ Hevc!Units(b, n, count) = Units(b, n, count)
  /\ \A list : Avc!Sized(list) = Sized(list) /\ Hevc!Sized(list) = Sized(list)
  /\ \A list : Hevc!Sizes(list) = Sizes(list)
  /\ \A numbers : Hevc!Sums(numbers) = Sums(numbers)
  /\ \A n : Hevc!U16(n) = U16(n)
<1>1. ASSUME NEW n
      PROVE  Hevc!U16(n) = U16(n)
  BY DEF Hevc!U16, U16
<1>2. ASSUME NEW numbers
      PROVE  Hevc!Sums(numbers) = Sums(numbers)
  BY DEF Hevc!Sums, Sums
<1>3. ASSUME NEW list
      PROVE  Hevc!Sizes(list) = Sizes(list)
  BY <1>2 DEF Hevc!Sizes, Sizes
<1>4. ASSUME NEW list
      PROVE  Avc!Sized(list) = Sized(list) /\ Hevc!Sized(list) = Sized(list)
  BY DEF Avc!Sized, Hevc!Sized, Sized, Avc!Joined, Hevc!Joined, Joined,
         Avc!U16, Hevc!U16, U16
<1>5. ASSUME NEW b, NEW n, NEW count
      PROVE  /\ Avc!Units(b, n, count) = Units(b, n, count)
             /\ Hevc!Units(b, n, count) = Units(b, n, count)
  BY DEF Avc!Units, Hevc!Units, Units, Avc!Each, Hevc!Each, Each,
         Avc!Unit, Hevc!Unit, Unit, Avc!Cursor, Hevc!Cursor, Cursor,
         Avc!Refused, Hevc!Refused, Refused, Avc!Past, Hevc!Past, Past,
         Avc!LengthAt, Hevc!LengthAt, LengthAt
<1> QED BY <1>1, <1>2, <1>3, <1>4, <1>5

(* A list of one unit. *)
LEMMA SizedOne ==
  ASSUME NEW u, IsSet(u)
  PROVE  Sized(<<u>>) = U16(Len(u)) \o u
<1> DEFINE parts == [k \in DOMAIN <<u>> |-> U16(Len(<<u>>[k])) \o <<u>>[k]]
           laid == U16(Len(u)) \o u
<1>1. u \in Seq(Octet) /\ Len(u) \in Nat /\ Len(u) < 65536
  BY DEF IsSet
<1>2. U16(Len(u)) \in Seq(Octet)
  BY <1>1, LengthInTwo
<1>3. laid \in Seq(Octet)
  BY <1>1, <1>2
<1>4. parts = <<laid>>
  <2>1. DOMAIN <<u>> = {1} /\ <<u>>[1] = u
    OBVIOUS
  <2>2. parts = [k \in {1} |-> laid]
    BY <2>1
  <2> HIDE DEF parts, laid
  <2>3. [k \in {1} |-> laid] = <<laid>>
    OBVIOUS
  <2> QED BY <2>2, <2>3
<1>5. Len(<<u>>) = 1
  OBVIOUS
<1>6. Sized(<<u>>) = Joined(parts)[1]
  BY <1>5 DEF Sized
<1> HIDE DEF parts, laid
<1>7. parts \in Seq(Seq(Octet)) /\ Len(parts) = 1 /\ parts[1] = laid
  BY <1>3, <1>4
<1>8. Joined(parts)[1] = <<>> \o laid
  <2>1. /\ Joined(parts)[0] = <<>>
        /\ \A k \in 1 .. Len(parts) : Joined(parts)[k] = Joined(parts)[k - 1] \o parts[k]
    BY <1>7, JoinedSteps
  <2> DEFINE f == Joined(parts)
  <2>2. f[0] = <<>> /\ \A k \in 1 .. 1 : f[k] = f[k - 1] \o parts[k]
    BY <1>7, <2>1
  <2> HIDE DEF f
  <2>3. f[1] = f[0] \o parts[1]
    <3>1. 1 \in 1 .. 1 /\ 1 - 1 = 0
      OBVIOUS
    <3>2. f[1] = f[1 - 1] \o parts[1]
      BY <2>2, <3>1, Zenon
    <3> QED BY <3>1, <3>2
  <2> QED BY <1>7, <2>2, <2>3 DEF f
<1>9. <<>> \o laid = laid
  BY <1>3
<1>10. Sized(<<u>>) = laid
  BY <1>6, <1>8, <1>9
<1> QED BY <1>10 DEF laid

(* w has the items of s, and behind them those of t. *)
HasItems(w, s, t) ==
  /\ Len(w) = Len(s) + Len(t)
  /\ \A i \in 1 .. Len(s) : w[i] = s[i]
  /\ \A i \in 1 .. Len(t) : w[Len(s) + i] = t[i]

(* As two sequences joined have. *)
LEMMA JoiningItems ==
  ASSUME NEW X, NEW s \in Seq(X), NEW t \in Seq(X)
  PROVE  s \o t \in Seq(X) /\ HasItems(s \o t, s, t)
<1>1. s \o t \in Seq(X) /\ Len(s \o t) = Len(s) + Len(t)
  OBVIOUS
<1>2. \A i \in 1 .. Len(s) : (s \o t)[i] = s[i]
  OBVIOUS
<1>3. \A i \in 1 .. Len(t) : (s \o t)[Len(s) + i] = t[i]
  OBVIOUS
<1> QED BY <1>1, <1>2, <1>3 DEF HasItems

(* A unit behind its length. *)
Laid(u) == U16(Len(u)) \o u

(* w is h and, behind it, a unit. *)
IsBehind(w, h, u) ==
  /\ w \in Seq(Octet) /\ Len(w) = Len(h) + 2 + Len(u)
  /\ \A i \in 1 .. Len(h) : w[i] = h[i]
  /\ StandsAt(w, Len(h), u)

(* So it is when the unit is laid there. *)
LEMMA LaidBehind ==
  ASSUME NEW h \in Seq(Octet), NEW u, IsSet(u)
  PROVE  IsBehind(h \o Laid(u), h, u)
<1> DEFINE size == U16(Len(u))
           w == h \o Laid(u)
           m == Len(h)
           n == Len(u)
<1>1. u \in Seq(Octet) /\ n \in Nat /\ m \in Nat /\ n < 65536
  BY DEF IsSet
<1>2. size \in Seq(Octet) /\ Len(size) = 2
  BY <1>1, LengthInTwo
<1> DEFINE laid == size \o u
<1> HIDE DEF size
<1>3. /\ laid \in Seq(Octet) /\ Len(laid) = 2 + n
      /\ laid[1] = size[1] /\ laid[2] = size[2]
      /\ \A i \in 1 .. n : laid[2 + i] = u[i]
  <2>1. /\ laid \in Seq(Octet) /\ Len(laid) = Len(size) + Len(u)
        /\ \A i \in 1 .. Len(size) : laid[i] = size[i]
        /\ \A i \in 1 .. Len(u) : laid[Len(size) + i] = u[i]
    <3>1. size \in Seq(Octet) /\ u \in Seq(Octet)
      BY <1>1, <1>2
    <3>2. laid \in Seq(Octet) /\ HasItems(laid, size, u)
      BY <3>1, JoiningItems
    <3> HIDE DEF laid
    <3> QED BY <3>2 DEF HasItems
  <2> HIDE DEF laid
  <2> QED BY <1>1, <1>2, <2>1
<1>4. w = h \o laid
  BY DEF Laid, size
<1> HIDE DEF laid, w
<1>5. /\ w \in Seq(Octet) /\ Len(w) = m + (2 + n)
      /\ \A i \in 1 .. m : w[i] = h[i]
      /\ \A i \in 1 .. 2 + n : w[m + i] = laid[i]
  <2>1. /\ w \in Seq(Octet) /\ Len(w) = m + Len(laid)
        /\ \A i \in 1 .. m : w[i] = h[i]
        /\ \A i \in 1 .. Len(laid) : w[m + i] = laid[i]
    <3>1. h \in Seq(Octet) /\ laid \in Seq(Octet)
      BY <1>3
    <3>2. w \in Seq(Octet) /\ HasItems(w, h, laid)
      BY <1>4, <3>1, JoiningItems
    <3> QED BY <3>2 DEF HasItems
  <2> HIDE DEF m, n
  <2> QED BY <1>3, <2>1
<1>6. w[m + 1] = size[1] /\ w[m + 2] = size[2]
  BY <1>1, <1>3, <1>5
<1>7. ASSUME NEW i \in 1 .. n
      PROVE  w[m + 2 + i] = u[i]
  <2>1. 2 + i \in 1 .. 2 + n /\ m + (2 + i) = m + 2 + i
    BY <1>1
  <2> QED BY <1>3, <1>5, <2>1
<1>8. Len(w) = m + 2 + n
  BY <1>1, <1>5
<1>9. StandsAt(w, m, u)
  BY <1>1, <1>6, <1>7, <1>8 DEF StandsAt, size
<1> QED BY <1>5, <1>8, <1>9 DEF w, IsBehind

(* It stands there still when more is laid behind it. *)
LEMMA StandsStill ==
  ASSUME NEW h \in Seq(Octet), NEW r \in Seq(Octet), NEW n \in Nat, NEW u,
         IsSet(u), StandsAt(h, n, u)
  PROVE  StandsAt(h \o r, n, u)
<1> DEFINE w == h \o r
<1>1. Len(u) \in Nat /\ Len(h) \in Nat
  BY DEF IsSet
<1>2. Len(w) >= Len(h) /\ \A i \in 1 .. Len(h) : w[i] = h[i]
  OBVIOUS
<1> HIDE DEF w
<1>3. /\ Len(w) \in Nat /\ Len(h) >= n + 2 + Len(u)
      /\ h[n + 1] = U16(Len(u))[1] /\ h[n + 2] = U16(Len(u))[2]
      /\ \A i \in 1 .. Len(u) : h[n + 2 + i] = u[i]
  BY DEF StandsAt, w
<1>4. w[n + 1] = U16(Len(u))[1] /\ w[n + 2] = U16(Len(u))[2]
  BY <1>1, <1>2, <1>3
<1>5. ASSUME NEW i \in 1 .. Len(u)
      PROVE  w[n + 2 + i] = u[i]
  <2>1. n + 2 + i \in 1 .. Len(h)
    BY <1>1, <1>3
  <2> QED BY <1>2, <1>3, <2>1
<1>6. Len(w) >= n + 2 + Len(u)
  BY <1>1, <1>2, <1>3
<1>7. StandsAt(w, n, u)
  BY <1>4, <1>5, <1>6 DEF StandsAt
<1> QED BY <1>7 DEF w

(***************************************************************************)
(* The record of H.264.                                                    *)
(***************************************************************************)
(* Where what stands. *)
AvcLaid(w, u, p) ==
  /\ w \in Seq(Octet) /\ Len(w) = 11 + Len(u) + Len(p)
  /\ w[6] = 225 /\ StandsAt(w, 6, u)
  /\ w[9 + Len(u)] = 1 /\ StandsAt(w, 9 + Len(u), p)

AvcRecord(u, p) ==
  [ok |-> TRUE, profile |-> u[2], compat |-> u[3], level |-> u[4],
   lengthSize |-> 3, SPS |-> <<u>>, PPS |-> <<p>>]

(* Marshal lays it so. *)
LEMMA AvcMarshals ==
  ASSUME NEW u, NEW p, IsSet(u), IsSet(p), Len(u) >= 6
  PROVE  AvcLaid(Avc!Marshal(AvcRecord(u, p)), u, p)
<1> DEFINE head == <<1, u[2], u[3], u[4], 255, 225>>
           h1 == head \o Laid(u)
           h2 == h1 \o <<1>>
           w == h2 \o Laid(p)
<1>1. /\ u \in Seq(Octet) /\ Len(u) \in Nat /\ Len(u) < 65536
      /\ p \in Seq(Octet) /\ Len(p) \in Nat
  BY DEF IsSet
<1>2. Avc!Marshal(AvcRecord(u, p)) = w
  <2> DEFINE rec == AvcRecord(u, p)
  <2>1. /\ rec.profile = u[2] /\ rec.compat = u[3] /\ rec.level = u[4]
        /\ rec.lengthSize = 3 /\ rec.SPS = <<u>> /\ rec.PPS = <<p>>
    BY DEF AvcRecord
  <2>2. 252 + (3 % 4) = 255 /\ 224 + (Len(<<u>>) % 32) = 225 /\ Len(<<p>>) % 256 = 1
    OBVIOUS
  <2>3. Avc!Sized(<<u>>) = Laid(u) /\ Avc!Sized(<<p>>) = Laid(p)
    BY RecordsOfParsers, SizedOne DEF Laid
  <2> DEFINE first == <<1, rec.profile, rec.compat, rec.level,
                        252 + (rec.lengthSize % 4), 224 + (Len(rec.SPS) % 32)>>
             count == <<Len(rec.PPS) % 256>>
  <2> HIDE DEF rec
  <2>4. first = head /\ count = <<1>>
    BY <2>1, <2>2
  <2>5. Avc!Marshal(rec) =
          first \o Avc!Sized(rec.SPS) \o count \o Avc!Sized(rec.PPS)
    BY DEF Avc!Marshal
  <2> HIDE DEF first, count, head
  <2>6. Avc!Marshal(rec) = w
    BY <2>1, <2>3, <2>4, <2>5
  <2> QED BY <2>6 DEF rec
<1>3. u[2] \in Octet /\ u[3] \in Octet /\ u[4] \in Octet
  BY <1>1
<1>4. 1 \in Octet /\ 255 \in Octet /\ 225 \in Octet
  BY OctetIs
<1>5. head \in Seq(Octet) /\ Len(head) = 6 /\ head[6] = 225
  BY <1>3, <1>4
<1> HIDE DEF head
<1>6. /\ h1 \in Seq(Octet) /\ Len(h1) = 8 + Len(u) /\ h1[6] = 225
      /\ StandsAt(h1, 6, u)
  <2>1. /\ h1 \in Seq(Octet) /\ Len(h1) = Len(head) + 2 + Len(u)
        /\ \A i \in 1 .. Len(head) : h1[i] = head[i]
        /\ StandsAt(h1, Len(head), u)
    BY <1>5, LaidBehind DEF IsBehind
  <2> HIDE DEF h1
  <2> QED BY <1>1, <1>5, <2>1
<1> HIDE DEF h1
<1>7. /\ h2 \in Seq(Octet) /\ Len(h2) = 9 + Len(u) /\ h2[6] = 225
      /\ h2[9 + Len(u)] = 1
  BY <1>1, <1>4, <1>6
<1>8. StandsAt(h2, 6, u)
  <2>1. <<1>> \in Seq(Octet)
    BY <1>4
  <2>2. 6 \in Nat
    OBVIOUS
  <2>3. \A r \in Seq(Octet) : StandsAt(h1 \o r, 6, u)
    BY <1>6, <2>2, StandsStill
  <2> QED BY <2>1, <2>3
<1> HIDE DEF h2
<1>9. /\ w \in Seq(Octet) /\ Len(w) = 9 + Len(u) + 2 + Len(p)
      /\ \A i \in 1 .. 9 + Len(u) : w[i] = h2[i]
      /\ StandsAt(w, 9 + Len(u), p)
  <2>1. IsBehind(w, h2, p)
    BY <1>7, LaidBehind
  <2> HIDE DEF w
  <2> QED BY <1>1, <1>7, <2>1 DEF IsBehind
<1>10. StandsAt(w, 6, u)
  <2>1. Laid(p) \in Seq(Octet)
    <3>1. U16(Len(p)) \in Seq(Octet)
      BY LengthInTwo DEF IsSet
    <3> QED BY <1>1, <3>1 DEF Laid
  <2> QED BY <1>7, <1>8, <2>1, StandsStill
<1> HIDE DEF w
<1>11. w[6] = 225 /\ w[9 + Len(u)] = 1
  BY <1>1, <1>7, <1>9
<1>12. Len(w) = 11 + Len(u) + Len(p)
  BY <1>1, <1>9
<1> QED BY <1>2, <1>9, <1>10, <1>11, <1>12 DEF AvcLaid

(* It is read back if it is whole, and refused otherwise. *)
LEMMA AvcUnmarshals ==
  ASSUME NEW u, NEW p, IsSet(u), IsSet(p), NEW w, AvcLaid(w, u, p),
         NEW m, NEW b, IsStart(b, w, m)
  PROVE  /\ m < Len(w) => Avc!Unmarshal(b) = Avc!BadRecord
         /\ m = Len(w) => /\ Avc!Unmarshal(b).ok = TRUE
                          /\ Avc!Unmarshal(b).SPS = <<u>>
                          /\ Avc!Unmarshal(b).PPS = <<p>>
<1> DEFINE sps == Avc!Units(b, 6, b[6] % 32)
           pps == Avc!Units(b, sps.n + 1, b[sps.n + 1])
           size == Len(u)
           more == Len(p)
<1>1. /\ w \in Seq(Octet) /\ Len(w) = 11 + size + more /\ size \in Nat /\ more \in Nat
      /\ 1 <= size /\ 1 <= more
      /\ w[6] = 225 /\ StandsAt(w, 6, u)
      /\ w[9 + size] = 1 /\ StandsAt(w, 9 + size, p)
  BY DEF AvcLaid, IsSet
<1>2. /\ m \in 0 .. Len(w) /\ b \in Seq(Octet) /\ Len(b) = m
      /\ \A i \in 1 .. m : b[i] = w[i]
  BY <1>1 DEF IsStart
<1>3. Avc!Unmarshal(b) =
        IF Len(b) < 7 \/ ~sps.ok \/ Len(b) < sps.n + 1 \/ ~pps.ok THEN Avc!BadRecord
        ELSE [ok |-> TRUE, profile |-> b[2], compat |-> b[3], level |-> b[4],
              lengthSize |-> b[5] % 4, SPS |-> sps.units, PPS |-> pps.units]
  BY DEF Avc!Unmarshal
<1> HIDE DEF size, more
<1>4. ASSUME m >= 7
      PROVE  /\ m >= 8 + size => /\ sps.ok = TRUE /\ sps.n = 8 + size
                                 /\ sps.units = <<u>>
             /\ m < 8 + size => sps.ok = FALSE
  <2>1. b[6] % 32 = 1
    <3>1. b[6] = 225
      BY <1>1, <1>2, <1>4
    <3>2. 225 % 32 = 1
      OBVIOUS
    <3> QED BY <3>1, <3>2
  <2>2. sps = Units(b, 6, 1)
    BY <2>1, RecordsOfParsers
  <2> HIDE DEF sps
  <2>3. 6 + 2 + size = 8 + size
    BY <1>1
  <2>4. ComesBack(sps, b, 6, u, m)
    <3>1. 6 \in Nat
      OBVIOUS
    <3> QED BY <1>1, <2>2, <3>1, UnitComesBack
  <2> QED BY <1>1, <1>2, <2>3, <2>4 DEF ComesBack, size
<1>5. ASSUME m >= 9 + size
      PROVE  /\ sps.ok = TRUE /\ sps.n + 1 = 9 + size /\ sps.units = <<u>>
             /\ m >= Len(w) => pps.ok = TRUE /\ pps.units = <<p>>
             /\ m < Len(w) => pps.ok = FALSE
  <2>1. sps.ok = TRUE /\ sps.n = 8 + size /\ sps.units = <<u>>
    <3>1. m >= 7 /\ m >= 8 + size
      BY <1>1, <1>2, <1>5
    <3> HIDE DEF sps
    <3> QED BY <1>4, <3>1
  <2>2. sps.n + 1 = 9 + size
    <3> HIDE DEF sps
    <3> QED BY <1>1, <2>1
  <2>3. b[9 + size] = 1
    BY <1>1, <1>2, <1>5
  <2>4. pps = Units(b, 9 + size, 1)
    BY <2>2, <2>3, RecordsOfParsers
  <2> HIDE DEF sps, pps
  <2>5. 9 + size + 2 + more = Len(w) /\ 9 + size \in Nat
    BY <1>1
  <2>6. ComesBack(pps, b, 9 + size, p, m)
    BY <1>1, <2>4, <2>5, UnitComesBack
  <2>7. /\ m >= Len(w) => pps.ok = TRUE /\ pps.units = <<p>>
        /\ m < Len(w) => pps.ok = FALSE
    BY <2>5, <2>6 DEF ComesBack, more
  <2> QED BY <2>1, <2>2, <2>7
<1> HIDE DEF sps, pps
<1>6. CASE m >= 9 + size
  <2>1. ~(m < 7) /\ ~(m < sps.n + 1)
    BY <1>1, <1>2, <1>5, <1>6
  <2>2. CASE m = Len(w)
    <3>1. m >= Len(w) /\ ~(m < Len(w))
      BY <1>1, <2>2
    <3>2. /\ sps.ok = TRUE /\ sps.units = <<u>>
          /\ pps.ok = TRUE /\ pps.units = <<p>>
      BY <1>5, <1>6, <3>1
    <3>3. ~(Len(b) < 7 \/ ~sps.ok \/ Len(b) < sps.n + 1 \/ ~pps.ok)
      BY <1>2, <2>1, <3>2
    <3>4. /\ Avc!Unmarshal(b).ok = TRUE
          /\ Avc!Unmarshal(b).SPS = sps.units
          /\ Avc!Unmarshal(b).PPS = pps.units
      BY <1>3, <3>3
    <3> QED BY <3>1, <3>2, <3>4
  <2>3. CASE m < Len(w)
    <3>1. m # Len(w)
      BY <1>1, <2>3
    <3> QED BY <1>2, <1>3, <1>5, <1>6, <2>3, <3>1
  <2> QED BY <1>1, <1>2, <2>2, <2>3
<1>7. CASE m < 9 + size
  <2>1. m < Len(w) /\ m # Len(w)
    BY <1>1, <1>2, <1>7
  <2>2. Len(b) < 7 \/ ~sps.ok \/ Len(b) < sps.n + 1
    <3>1. CASE m < 7
      BY <1>2, <3>1
    <3>2. CASE m >= 7 /\ m < 8 + size
      BY <1>4, <3>2
    <3>3. CASE m >= 7 /\ m >= 8 + size
      <4>1. sps.n = 8 + size
        BY <1>4, <3>3
      <4> QED BY <1>1, <1>2, <1>7, <4>1
    <3> QED BY <1>1, <1>2, <3>1, <3>2, <3>3
  <2> QED BY <1>3, <2>1, <2>2
<1>8. m >= 9 + size \/ m < 9 + size
  BY <1>1, <1>2
<1> QED BY <1>6, <1>7, <1>8

(***************************************************************************)
(* The record of H.265.                                                    *)
(***************************************************************************)
(* w is h and, behind it, an array of one unit. *)
IsArrayBehind(w, h, v) ==
  /\ w \in Seq(Octet) /\ Len(w) = Len(h) + 5 + Len(v)
  /\ \A i \in 1 .. Len(h) : w[i] = h[i]
  /\ w[Len(h) + 3] = 1 /\ StandsAt(w, Len(h) + 3, v)

(* An array of one unit: what it holds, how many and the unit. *)
LEMMA ArrayBehind ==
  ASSUME NEW h \in Seq(Octet), NEW v, IsSet(v)
  PROVE  /\ IsArrayBehind(h \o Hevc!Array(<<v>>), h, v)
         /\ Hevc!Array(<<v>>) \in Seq(Octet)
<1> DEFINE lead == <<(v[1] \div 2) % 64>> \o <<0, 1>>
           h1 == h \o lead
           w == h1 \o Laid(v)
<1>1. v \in Seq(Octet) /\ Len(v) \in Nat /\ 1 <= Len(v) /\ Len(v) < 65536
  BY DEF IsSet
<1>2. lead \in Seq(Octet) /\ Len(lead) = 3 /\ lead[3] = 1
  <2>1. v[1] \in Nat
    BY <1>1, OctetIs
  <2> DEFINE type == (v[1] \div 2) % 64
  <2>2. type \in Nat /\ type < 64
    BY <2>1
  <2>3. type \in Octet /\ 0 \in Octet /\ 1 \in Octet
    BY <2>2, OctetIs
  <2> HIDE DEF type
  <2>4. <<type>> \in Seq(Octet) /\ <<0, 1>> \in Seq(Octet)
    BY <2>3
  <2>5. lead = <<type>> \o <<0, 1>>
    BY DEF type
  <2> HIDE DEF lead
  <2>6. lead \in Seq(Octet) /\ HasItems(lead, <<type>>, <<0, 1>>)
    BY <2>4, <2>5, JoiningItems
  <2>7. Len(<<type>>) = 1 /\ Len(<<0, 1>>) = 2 /\ <<0, 1>>[2] = 1
    OBVIOUS
  <2>8. Len(lead) = 3 /\ \A i \in 1 .. 2 : lead[1 + i] = <<0, 1>>[i]
    BY <2>6, <2>7 DEF HasItems
  <2>9. 2 \in 1 .. 2 /\ 1 + 2 = 3
    OBVIOUS
  <2>10. lead[3] = <<0, 1>>[2]
    BY <2>8, <2>9
  <2> QED BY <2>6, <2>7, <2>8, <2>10
<1>3. U16(1) = <<0, 1>>
  BY DEF U16
<1>4. Hevc!Array(<<v>>) = lead \o Laid(v)
  <2>1. Len(<<v>>) = 1 /\ <<v>>[1] = v
    OBVIOUS
  <2>2. Hevc!U16(1) = <<0, 1>> /\ Hevc!Sized(<<v>>) = Laid(v)
    BY <1>3, RecordsOfParsers, SizedOne DEF Laid
  <2> QED BY <2>1, <2>2 DEF Hevc!Array
<1> HIDE DEF lead
<1>5. Laid(v) \in Seq(Octet)
  <2>1. U16(Len(v)) \in Seq(Octet)
    BY <1>1, LengthInTwo
  <2> QED BY <1>1, <2>1 DEF Laid
<1>6. h \o Hevc!Array(<<v>>) = w /\ Hevc!Array(<<v>>) \in Seq(Octet)
  <2>1. /\ (h \o lead) \o Laid(v) = h \o (lead \o Laid(v))
        /\ lead \o Laid(v) \in Seq(Octet)
    BY <1>2, <1>5, Regrouped, Joining
  <2> QED BY <1>4, <2>1
<1>7. h1 \in Seq(Octet) /\ HasItems(h1, h, lead)
  BY <1>2, JoiningItems
<1> HIDE DEF h1
<1>8. IsBehind(w, h1, v)
  BY <1>7, LaidBehind
<1> HIDE DEF w
<1>9. /\ Len(h) \in Nat /\ Len(h1) = Len(h) + 3
      /\ \A i \in 1 .. Len(h) : h1[i] = h[i]
      /\ h1[Len(h) + 3] = 1
  BY <1>2, <1>7 DEF HasItems
<1>10. /\ w \in Seq(Octet) /\ Len(w) = Len(h) + 3 + 2 + Len(v)
       /\ \A i \in 1 .. Len(h) + 3 : w[i] = h1[i]
       /\ StandsAt(w, Len(h) + 3, v)
  BY <1>8, <1>9 DEF IsBehind
<1>11. Len(w) = Len(h) + 5 + Len(v)
  BY <1>1, <1>9, <1>10
<1>12. /\ \A i \in 1 .. Len(h) : w[i] = h[i]
       /\ w[Len(h) + 3] = 1
  BY <1>9, <1>10
<1>13. IsArrayBehind(w, h, v)
  BY <1>10, <1>11, <1>12 DEF IsArrayBehind
<1> QED BY <1>6, <1>13

(* Where what stands. *)
HevcLaid(w, v, u, p) ==
  /\ w \in Seq(Octet) /\ Len(w) = 38 + Len(v) + Len(u) + Len(p)
  /\ w[26] = 1 /\ StandsAt(w, 26, v)
  /\ w[31 + Len(v)] = 1 /\ StandsAt(w, 31 + Len(v), u)
  /\ w[36 + Len(v) + Len(u)] = 1 /\ StandsAt(w, 36 + Len(v) + Len(u), p)

HevcRecord(v, u, p) ==
  [ok |-> TRUE, profile |-> u[4], compat |-> u[5], level |-> u[6],
   lengthSize |-> 3, VPS |-> <<v>>, SPS |-> <<u>>, PPS |-> <<p>>]

(* Marshal lays it so. *)
LEMMA HevcMarshals ==
  ASSUME NEW v, NEW u, NEW p, IsSet(v), IsSet(u), IsSet(p), Len(u) >= 6
  PROVE  HevcLaid(Hevc!Marshal(HevcRecord(v, u, p)), v, u, p)
<1> DEFINE rec == HevcRecord(v, u, p)
           h == Hevc!Fixed(rec)
           h1 == h \o Hevc!Array(<<v>>)
           h2 == h1 \o Hevc!Array(<<u>>)
           w == h2 \o Hevc!Array(<<p>>)
<1>1. /\ u \in Seq(Octet) /\ Len(u) \in Nat /\ Len(v) \in Nat /\ Len(p) \in Nat
  BY DEF IsSet
<1>2. rec.VPS = <<v>> /\ rec.SPS = <<u>> /\ rec.PPS = <<p>>
  BY DEF HevcRecord
<1>3. Hevc!Marshal(rec) = w
  <2> HIDE DEF rec
  <2> QED BY <1>2 DEF Hevc!Marshal
<1>4. h \in Seq(Octet) /\ Len(h) = 23
  <2>1. u[4] \in Octet /\ u[5] \in Octet /\ u[6] \in Octet
    BY <1>1
  <2>2. 0 \in Octet /\ 1 \in Octet /\ 3 \in Octet
    BY OctetIs
  <2>3. rec.profile = u[4] /\ rec.compat = u[5] /\ rec.level = u[6]
    BY DEF HevcRecord
  <2> DEFINE first == <<1, rec.profile, rec.compat, rec.level>>
             zeros == [k \in 1 .. 17 |-> 0]
             last == <<3, 3>>
  <2>4. first \in Seq(Octet) /\ Len(first) = 4
    BY <2>1, <2>2, <2>3
  <2>5. zeros \in Seq(Octet) /\ Len(zeros) = 17
    BY <2>2
  <2>6. last \in Seq(Octet) /\ Len(last) = 2
    BY <2>2
  <2>7. h = (first \o zeros) \o last
    BY DEF Hevc!Fixed
  <2> HIDE DEF first, zeros, last, h
  <2>8. first \o zeros \in Seq(Octet) /\ Len(first \o zeros) = 21
    <3>1. /\ first \o zeros \in Seq(Octet)
          /\ Len(first \o zeros) = Len(first) + Len(zeros)
      BY <2>4, <2>5, Joining
    <3> QED BY <2>4, <2>5, <3>1
  <2>9. /\ (first \o zeros) \o last \in Seq(Octet)
        /\ Len((first \o zeros) \o last) = 23
    <3> DEFINE t == first \o zeros
    <3> HIDE DEF t
    <3>1. t \in Seq(Octet) /\ Len(t) = 21
      BY <2>8 DEF t
    <3>2. t \o last \in Seq(Octet) /\ Len(t \o last) = Len(t) + Len(last)
      BY <2>6, <3>1, Joining
    <3>3. Len(t \o last) = 23
      BY <2>6, <3>1, <3>2
    <3> QED BY <3>2, <3>3 DEF t
  <2> QED BY <2>7, <2>9
<1> HIDE DEF rec, h
<1>5. IsArrayBehind(h1, h, v) /\ Hevc!Array(<<v>>) \in Seq(Octet)
  BY <1>4, ArrayBehind
<1> HIDE DEF h1
<1>6. /\ h1 \in Seq(Octet) /\ Len(h1) = 28 + Len(v)
      /\ h1[26] = 1 /\ StandsAt(h1, 26, v)
  <2>1. Len(h) + 5 + Len(v) = 28 + Len(v) /\ Len(h) + 3 = 26
    BY <1>1, <1>4
  <2> QED BY <1>5, <2>1 DEF IsArrayBehind
<1>7. IsArrayBehind(h2, h1, u) /\ Hevc!Array(<<u>>) \in Seq(Octet)
  BY <1>6, ArrayBehind
<1>8. StandsAt(h2, 26, v)
  <2>1. 26 \in Nat
    OBVIOUS
  <2>2. \A r \in Seq(Octet) : StandsAt(h1 \o r, 26, v)
    BY <1>6, <2>1, StandsStill
  <2> QED BY <1>7, <2>2
<1> HIDE DEF h2
<1>9. /\ h2 \in Seq(Octet) /\ Len(h2) = 33 + Len(v) + Len(u)
      /\ h2[26] = 1
      /\ h2[31 + Len(v)] = 1 /\ StandsAt(h2, 31 + Len(v), u)
  <2>1. /\ Len(h1) + 5 + Len(u) = 33 + Len(v) + Len(u)
        /\ Len(h1) + 3 = 31 + Len(v)
        /\ 26 \in 1 .. Len(h1)
    BY <1>1, <1>6
  <2> QED BY <1>6, <1>7, <2>1 DEF IsArrayBehind
<1>10. IsArrayBehind(w, h2, p) /\ Hevc!Array(<<p>>) \in Seq(Octet)
  BY <1>9, ArrayBehind
<1>11. StandsAt(w, 26, v) /\ StandsAt(w, 31 + Len(v), u)
  <2>1. 26 \in Nat /\ 31 + Len(v) \in Nat
    BY <1>1
  <2>2. \A r \in Seq(Octet) : StandsAt(h2 \o r, 26, v)
    BY <1>8, <1>9, <2>1, StandsStill
  <2>3. \A r \in Seq(Octet) : StandsAt(h2 \o r, 31 + Len(v), u)
    BY <1>9, <2>1, StandsStill
  <2> QED BY <1>10, <2>2, <2>3
<1> HIDE DEF w
<1>12. /\ w \in Seq(Octet) /\ Len(w) = 38 + Len(v) + Len(u) + Len(p)
       /\ w[26] = 1 /\ w[31 + Len(v)] = 1
       /\ w[36 + Len(v) + Len(u)] = 1 /\ StandsAt(w, 36 + Len(v) + Len(u), p)
  <2>1. /\ Len(h2) + 5 + Len(p) = 38 + Len(v) + Len(u) + Len(p)
        /\ Len(h2) + 3 = 36 + Len(v) + Len(u)
        /\ 26 \in 1 .. Len(h2) /\ 31 + Len(v) \in 1 .. Len(h2)
    BY <1>1, <1>9
  <2> QED BY <1>9, <1>10, <2>1 DEF IsArrayBehind
<1>13. HevcLaid(w, v, u, p)
  BY <1>11, <1>12 DEF HevcLaid
<1> QED BY <1>3, <1>13 DEF rec

(* The size of a list of one unit. *)
LEMMA SizesOne ==
  ASSUME NEW u, IsSet(u)
  PROVE  Sizes(<<u>>) = Len(u)
<1> DEFINE numbers == [k \in DOMAIN <<u>> |-> Len(<<u>>[k])]
           size == Len(u)
<1>1. size \in Nat
  BY DEF IsSet
<1>2. numbers = <<size>> /\ Len(<<u>>) = 1
  <2>1. DOMAIN <<u>> = {1} /\ <<u>>[1] = u /\ Len(<<u>>) = 1
    OBVIOUS
  <2>2. numbers = [k \in {1} |-> size]
    BY <2>1
  <2> HIDE DEF numbers, size
  <2>3. [k \in {1} |-> size] = <<size>>
    OBVIOUS
  <2> QED BY <2>1, <2>2, <2>3
<1>3. Sizes(<<u>>) = Sums(numbers)[1]
  BY <1>2 DEF Sizes
<1> HIDE DEF numbers, size
<1>4. numbers \in Seq(Nat) /\ Len(numbers) = 1 /\ numbers[1] = size
  BY <1>1, <1>2
<1> DEFINE f == Sums(numbers)
<1>5. f[0] = 0 /\ \A k \in 1 .. 1 : f[k] = f[k - 1] + numbers[k]
  BY <1>4, SumsSteps
<1> HIDE DEF f
<1>6. f[1] = size
  BY <1>1, <1>4, <1>5
<1> QED BY <1>3, <1>6 DEF f, size

(* What Len says of one unit in each array is the length of the record. *)
LEMMA HevcRecordLen ==
  ASSUME NEW v, NEW u, NEW p, IsSet(v), IsSet(u), IsSet(p)
  PROVE  Hevc!RecordLen(HevcRecord(v, u, p)) = 38 + Len(v) + Len(u) + Len(p)
<1> DEFINE sets == <<<<v>>, <<u>>, <<p>>>>
           numbers == [k \in DOMAIN sets |-> 5 * Len(sets[k]) + Sizes(sets[k])]
           a == 5 + Len(v)
           b == 5 + Len(u)
           c == 5 + Len(p)
<1>1. Len(v) \in Nat /\ Len(u) \in Nat /\ Len(p) \in Nat
  BY DEF IsSet
<1>2. a \in Nat /\ b \in Nat /\ c \in Nat
  BY <1>1
<1>3. DOMAIN sets = 1 .. 3 /\ Len(sets) = 3
      /\ sets[1] = <<v>> /\ sets[2] = <<u>> /\ sets[3] = <<p>>
  OBVIOUS
<1>4. Hevc!RecordLen(HevcRecord(v, u, p)) = 23 + Sums(numbers)[3]
  <2>1. Hevc!Arrays(HevcRecord(v, u, p)) = sets
    BY DEF Hevc!Arrays, HevcRecord
  <2>2. Hevc!RecordLen(HevcRecord(v, u, p)) =
          23 + Hevc!Sums([k \in DOMAIN sets |->
                            5 * Len(sets[k]) + Hevc!Sizes(sets[k])])[Len(sets)]
    BY <2>1 DEF Hevc!RecordLen
  <2>3. [k \in DOMAIN sets |-> 5 * Len(sets[k]) + Hevc!Sizes(sets[k])] = numbers
    BY RecordsOfParsers
  <2> HIDE DEF sets, numbers
  <2> QED BY <1>3, <2>2, <2>3, RecordsOfParsers
<1>5. numbers[1] = a /\ numbers[2] = b /\ numbers[3] = c
  <2>1. /\ Sizes(<<v>>) = Len(v) /\ Sizes(<<u>>) = Len(u) /\ Sizes(<<p>>) = Len(p)
        /\ Len(<<v>>) = 1 /\ Len(<<u>>) = 1 /\ Len(<<p>>) = 1
    BY SizesOne
  <2> HIDE DEF sets
  <2>2. \A k \in 1 .. 3 : numbers[k] = 5 * Len(sets[k]) + Sizes(sets[k])
    BY <1>3
  <2> HIDE DEF numbers
  <2>3. /\ numbers[1] = 5 * Len(sets[1]) + Sizes(sets[1])
        /\ numbers[2] = 5 * Len(sets[2]) + Sizes(sets[2])
        /\ numbers[3] = 5 * Len(sets[3]) + Sizes(sets[3])
    BY <2>2
  <2>4. 5 * 1 = 5
    OBVIOUS
  <2> QED BY <1>3, <2>1, <2>3, <2>4
<1>6. numbers \in Seq(Nat) /\ Len(numbers) = 3
  <2>1. numbers = [k \in 1 .. 3 |-> numbers[k]]
    BY <1>3
  <2> HIDE DEF numbers, sets, a, b, c
  <2>2. \A k \in 1 .. 3 : numbers[k] \in Nat
    BY <1>2, <1>5
  <2>3. numbers \in [1 .. 3 -> Nat]
    BY <2>1, <2>2
  <2>4. numbers \in Seq(Nat)
    <3>1. numbers \in UNION {[1 .. n -> Nat] : n \in Nat}
      BY <2>3
    <3> QED BY <3>1, SeqDef
  <2>5. Len(numbers) \in Nat /\ 1 .. Len(numbers) = 1 .. 3
    <3>1. DOMAIN numbers = 1 .. 3
      BY <2>3
    <3>2. Len(numbers) \in Nat /\ DOMAIN numbers = 1 .. Len(numbers)
      BY <2>4
    <3> QED BY <3>1, <3>2
  <2> DEFINE len == Len(numbers)
  <2> HIDE DEF len
  <2>6. len \in Nat /\ 1 .. len = 1 .. 3
    BY <2>5 DEF len
  <2>7. len = 3
    <3>1. \A k \in Nat : k \in 1 .. len <=> k \in 1 .. 3
      BY <2>6
    <3>2. 3 \in 1 .. len /\ len + 1 \notin 1 .. 3
      BY <2>6, <3>1
    <3> QED BY <2>6, <3>2
  <2> QED BY <2>4, <2>7 DEF len
<1> HIDE DEF numbers, sets
<1> DEFINE f == Sums(numbers)
<1>7. f[0] = 0 /\ \A k \in 1 .. 3 : f[k] = f[k - 1] + numbers[k]
  BY <1>6, SumsSteps
<1> HIDE DEF f
<1>8. f[3] = a + b + c
  <2>1. f[1] = f[0] + numbers[1] /\ f[2] = f[1] + numbers[2] /\ f[3] = f[2] + numbers[3]
    BY <1>7
  <2> QED BY <1>2, <1>5, <1>7, <2>1
<1>9. 23 + f[3] = 38 + Len(v) + Len(u) + Len(p)
  BY <1>1, <1>8
<1> QED BY <1>4, <1>9 DEF f

(* So nothing stands behind it in the buffer. *)
LEMMA NothingBehind ==
  ASSUME NEW v, NEW u, NEW p, IsSet(v), IsSet(u), IsSet(p), Len(u) >= 6
  PROVE  HevcLaid(Hevc!Buffer(HevcRecord(v, u, p)), v, u, p)
<1> DEFINE rec == HevcRecord(v, u, p)
           w == Hevc!Marshal(rec)
<1>1. HevcLaid(w, v, u, p)
  BY HevcMarshals
<1>2. w \in Seq(Octet) /\ Len(w) = 38 + Len(v) + Len(u) + Len(p)
  BY <1>1 DEF HevcLaid
<1>3. Hevc!RecordLen(rec) = Len(w)
  BY <1>2, HevcRecordLen
<1>4. Hevc!Buffer(rec) = w \o [k \in 1 .. Hevc!RecordLen(rec) - Len(w) |-> 0]
  BY DEF Hevc!Buffer
<1> HIDE DEF w, rec
<1>5. Len(w) \in Nat
  BY <1>2
<1>6. 1 .. Hevc!RecordLen(rec) - Len(w) = 1 .. 0
  BY <1>3, <1>5
<1>7. Hevc!Buffer(rec) = w \o [k \in 1 .. 0 |-> 0]
  BY <1>4, <1>6
<1>8. [k \in 1 .. 0 |-> 0] = <<>>
  OBVIOUS
<1>9. w \o <<>> = w
  BY <1>2
<1>10. Hevc!Buffer(rec) = w
  BY <1>7, <1>8, <1>9
<1> QED BY <1>1, <1>10 DEF rec

(* Where the record ends within a count that Unmarshal takes unasked.        *)
Unchecked(v, u) ==
  {29 + Len(v), 30 + Len(v),
   33 + Len(v) + Len(u), 34 + Len(v) + Len(u), 35 + Len(v) + Len(u)}

(* The result of reading m bytes of it. *)
IsHevcReadBack(rec, m, w, v, u, p) ==
  /\ m < Len(w) =>
       rec = IF m \in Unchecked(v, u) THEN Hevc!OutOfRange ELSE Hevc!BadRecord
  /\ m = Len(w) => /\ rec.ok = TRUE /\ rec.VPS = <<v>>
                   /\ rec.SPS = <<u>> /\ rec.PPS = <<p>>

(* It is read back if it is whole; otherwise it is refused, or indexed out   *)
(* of range where it ends within a count.                                    *)
LEMMA HevcUnmarshals ==
  ASSUME NEW v, NEW u, NEW p, IsSet(v), IsSet(u), IsSet(p),
         NEW w, HevcLaid(w, v, u, p), NEW m, NEW b, IsStart(b, w, m)
  PROVE  IsHevcReadBack(Hevc!Unmarshal(b), m, w, v, u, p)
<1> DEFINE vps == Hevc!Units(b, 26, b[26] % 32)
           sps == Hevc!Units(b, vps.n + 3, b[vps.n + 3])
           pps == Hevc!Units(b, sps.n + 3, b[sps.n + 3])
           i == Len(v)
           j == Len(u)
           k == Len(p)
<1>1. /\ w \in Seq(Octet) /\ Len(w) = 38 + i + j + k
      /\ i \in Nat /\ j \in Nat /\ k \in Nat /\ 1 <= i /\ 1 <= j /\ 1 <= k
      /\ w[26] = 1 /\ StandsAt(w, 26, v)
      /\ w[31 + i] = 1 /\ StandsAt(w, 31 + i, u)
      /\ w[36 + i + j] = 1 /\ StandsAt(w, 36 + i + j, p)
  BY DEF HevcLaid, IsSet
<1>2. /\ m \in 0 .. Len(w) /\ Len(b) = m
      /\ \A n \in 1 .. m : b[n] = w[n]
  BY <1>1 DEF IsStart
<1>3. Hevc!Unmarshal(b) =
        IF Len(b) < 30 \/ ~vps.ok \/ Len(b) < vps.n + 1 THEN Hevc!BadRecord
        ELSE IF Len(b) < vps.n + 3 THEN Hevc!OutOfRange
        ELSE IF ~sps.ok THEN Hevc!BadRecord
        ELSE IF Len(b) < sps.n + 3 THEN Hevc!OutOfRange
        ELSE IF ~pps.ok THEN Hevc!BadRecord
        ELSE [ok |-> TRUE, profile |-> b[2], compat |-> b[3], level |-> b[4],
              lengthSize |-> b[5] % 4,
              VPS |-> vps.units, SPS |-> sps.units, PPS |-> pps.units]
  BY DEF Hevc!Unmarshal
<1>14. /\ 29 + i \in Unchecked(v, u) /\ 30 + i \in Unchecked(v, u)
       /\ 33 + i + j \in Unchecked(v, u) /\ 34 + i + j \in Unchecked(v, u)
       /\ 35 + i + j \in Unchecked(v, u)
       /\ \A n \in Unchecked(v, u) :
            n = 29 + i \/ n = 30 + i \/ n = 33 + i + j \/ n = 34 + i + j
            \/ n = 35 + i + j
  BY DEF Unchecked
<1> HIDE DEF i, j, k
<1>4. ASSUME m >= 30
      PROVE  /\ m >= 28 + i => /\ vps.ok = TRUE /\ vps.n = 28 + i
                               /\ vps.units = <<v>>
             /\ m < 28 + i => vps.ok = FALSE
  <2>1. b[26] % 32 = 1
    <3>1. b[26] = 1
      BY <1>1, <1>2, <1>4
    <3> QED BY <3>1
  <2>2. vps = Units(b, 26, 1)
    BY <2>1, RecordsOfParsers
  <2> HIDE DEF vps
  <2>3. 26 + 2 + i = 28 + i
    BY <1>1
  <2>4. ComesBack(vps, b, 26, v, m)
    <3>1. 26 \in Nat
      OBVIOUS
    <3> QED BY <1>1, <2>2, <3>1, UnitComesBack
  <2> QED BY <1>1, <1>2, <2>3, <2>4 DEF ComesBack, i
<1>5. ASSUME NEW n, n + 3 \in Nat, m >= n + 3, NEW x, IsSet(x),
             w[n + 3] = 1, StandsAt(w, n + 3, x), n \in Nat
      PROVE  ComesBack(Hevc!Units(b, n + 3, b[n + 3]), b, n + 3, x, m)
  <2>1. b[n + 3] = 1
    BY <1>1, <1>2, <1>5
  <2>2. Hevc!Units(b, n + 3, b[n + 3]) = Units(b, n + 3, 1)
    BY <2>1, RecordsOfParsers
  <2> QED BY <1>1, <1>5, <2>2, UnitComesBack
<1>6. ASSUME vps.n = 28 + i, m >= 31 + i
      PROVE  /\ m >= 33 + i + j => /\ sps.ok = TRUE /\ sps.n = 33 + i + j
                                   /\ sps.units = <<u>>
             /\ m < 33 + i + j => sps.ok = FALSE
  <2> HIDE DEF vps
  <2>1. 28 + i \in Nat /\ 28 + i + 3 = 31 + i /\ 31 + i \in Nat
    BY <1>1
  <2>2. ComesBack(sps, b, 31 + i, u, m)
    <3>1. m >= 28 + i + 3 /\ w[28 + i + 3] = 1 /\ StandsAt(w, 28 + i + 3, u)
      BY <1>1, <1>6, <2>1
    <3>2. ComesBack(Hevc!Units(b, 28 + i + 3, b[28 + i + 3]), b, 28 + i + 3, u, m)
      BY <1>1, <1>5, <2>1, <3>1
    <3> QED BY <1>6, <2>1, <3>2
  <2> HIDE DEF sps
  <2>3. 31 + i + 2 + j = 33 + i + j
    BY <1>1
  <2> QED BY <2>2, <2>3 DEF ComesBack, j
<1>7. ASSUME sps.n = 33 + i + j, m >= 36 + i + j
      PROVE  /\ m >= Len(w) => pps.ok = TRUE /\ pps.units = <<p>>
             /\ m < Len(w) => pps.ok = FALSE
  <2> HIDE DEF sps
  <2>1. /\ 33 + i + j \in Nat /\ 33 + i + j + 3 = 36 + i + j
        /\ 36 + i + j \in Nat
    BY <1>1
  <2>2. ComesBack(pps, b, 36 + i + j, p, m)
    <3>1. /\ m >= 33 + i + j + 3 /\ w[33 + i + j + 3] = 1
          /\ StandsAt(w, 33 + i + j + 3, p)
      BY <1>1, <1>7, <2>1
    <3>2. ComesBack(Hevc!Units(b, 33 + i + j + 3, b[33 + i + j + 3]), b,
                    33 + i + j + 3, p, m)
      BY <1>1, <1>5, <2>1, <3>1
    <3> QED BY <1>7, <2>1, <3>2
  <2> HIDE DEF pps
  <2>3. 36 + i + j + 2 + k = Len(w)
    BY <1>1
  <2> QED BY <2>2, <2>3 DEF ComesBack, k
<1> HIDE DEF vps, sps, pps
<1>8. CASE m = Len(w)
  <2>1. /\ m >= 30 /\ m >= 31 + i /\ m >= 28 + i /\ m >= 36 + i + j
        /\ m >= 33 + i + j /\ m >= Len(w) /\ ~(m < Len(w))
    BY <1>1, <1>2, <1>8
  <2>2. vps.ok = TRUE /\ vps.n = 28 + i /\ vps.units = <<v>>
    BY <1>4, <2>1
  <2>3. sps.ok = TRUE /\ sps.n = 33 + i + j /\ sps.units = <<u>>
    BY <1>6, <2>1, <2>2
  <2>4. pps.ok = TRUE /\ pps.units = <<p>>
    BY <1>7, <2>1, <2>3
  <2>5. /\ ~(Len(b) < 30 \/ ~vps.ok \/ Len(b) < vps.n + 1)
        /\ ~(Len(b) < vps.n + 3) /\ ~(~sps.ok) /\ ~(Len(b) < sps.n + 3) /\ ~(~pps.ok)
    BY <1>1, <1>2, <2>1, <2>2, <2>3, <2>4
  <2>6. /\ Hevc!Unmarshal(b).ok = TRUE
        /\ Hevc!Unmarshal(b).VPS = vps.units
        /\ Hevc!Unmarshal(b).SPS = sps.units
        /\ Hevc!Unmarshal(b).PPS = pps.units
    BY <1>3, <2>5
  <2> QED BY <2>1, <2>2, <2>3, <2>4, <2>6 DEF IsHevcReadBack
<1>9. ASSUME m < Len(w), m < 29 + i
      PROVE  Hevc!Unmarshal(b) = Hevc!BadRecord /\ m \notin Unchecked(v, u)
  <2>1. Len(b) < 30 \/ ~vps.ok \/ Len(b) < vps.n + 1
    <3>1. CASE m < 30
      BY <1>2, <3>1
    <3>2. CASE m >= 30 /\ m < 28 + i
      BY <1>4, <3>2
    <3>3. CASE m >= 30 /\ m >= 28 + i
      <4>1. vps.n = 28 + i
        BY <1>4, <3>3
      <4> QED BY <1>1, <1>2, <1>9, <4>1
    <3> QED BY <1>1, <1>2, <3>1, <3>2, <3>3
  <2>2. m \notin Unchecked(v, u)
    BY <1>1, <1>2, <1>9, <1>14
  <2> QED BY <1>3, <2>1, <2>2
<1>10. ASSUME m < Len(w), m >= 29 + i
       PROVE  /\ ~(Len(b) < 30 \/ ~vps.ok \/ Len(b) < vps.n + 1)
              /\ vps.n = 28 + i /\ (Len(b) < vps.n + 3 <=> m < 31 + i)
  <2>1. m >= 30 /\ m >= 28 + i
    BY <1>1, <1>2, <1>10
  <2>2. vps.ok = TRUE /\ vps.n = 28 + i
    BY <1>4, <2>1
  <2> QED BY <1>1, <1>2, <1>10, <2>1, <2>2
<1>11. ASSUME m < Len(w), m >= 31 + i
       PROVE  IF m < 33 + i + j THEN ~sps.ok
              ELSE /\ sps.ok /\ sps.n = 33 + i + j
                   /\ Len(b) < sps.n + 3 <=> m < 36 + i + j
  <2>1. m >= 29 + i
    BY <1>1, <1>2, <1>11
  <2>2. vps.n = 28 + i
    BY <1>10, <1>11, <2>1
  <2>3. /\ m >= 33 + i + j => sps.ok = TRUE /\ sps.n = 33 + i + j
        /\ m < 33 + i + j => sps.ok = FALSE
    BY <1>6, <1>11, <2>2
  <2> QED BY <1>1, <1>2, <2>3
<1>12. CASE m < Len(w)
  <2>1. CASE m < 29 + i
    BY <1>1, <1>2, <1>9, <1>12, <2>1 DEF IsHevcReadBack
  <2>2. CASE m >= 29 + i /\ m < 31 + i
    <3>1. Hevc!Unmarshal(b) = Hevc!OutOfRange
      BY <1>3, <1>10, <1>12, <2>2
    <3>2. m = 29 + i \/ m = 30 + i
      BY <1>1, <1>2, <2>2
    <3>3. m \in Unchecked(v, u) /\ m # Len(w)
      BY <1>1, <1>2, <1>12, <1>14, <3>2
    <3> QED BY <3>1, <3>3 DEF IsHevcReadBack
  <2>3. CASE m >= 31 + i /\ m < 33 + i + j
    <3>1. m >= 29 + i /\ ~(m < 31 + i) /\ m # Len(w)
      BY <1>1, <1>2, <1>12, <2>3
    <3>2. ~sps.ok
      BY <1>11, <1>12, <2>3
    <3>3. Hevc!Unmarshal(b) = Hevc!BadRecord
      BY <1>3, <1>10, <1>12, <3>1, <3>2
    <3>4. m \notin Unchecked(v, u)
      BY <1>1, <1>2, <1>14, <2>3
    <3> QED BY <3>1, <3>3, <3>4 DEF IsHevcReadBack
  <2>4. CASE m >= 33 + i + j
    <3>1. /\ m >= 29 + i /\ m >= 31 + i /\ ~(m < 31 + i) /\ ~(m < 33 + i + j)
          /\ m # Len(w)
      BY <1>1, <1>2, <1>12, <2>4
    <3>2. sps.ok /\ sps.n = 33 + i + j /\ (Len(b) < sps.n + 3 <=> m < 36 + i + j)
      BY <1>11, <1>12, <3>1
    <3>3. /\ ~(Len(b) < 30 \/ ~vps.ok \/ Len(b) < vps.n + 1)
          /\ ~(Len(b) < vps.n + 3)
      BY <1>10, <1>12, <3>1
    <3>4. CASE m < 36 + i + j
      <4>1. Hevc!Unmarshal(b) = Hevc!OutOfRange
        BY <1>3, <3>2, <3>3, <3>4
      <4>2. m = 33 + i + j \/ m = 34 + i + j \/ m = 35 + i + j
        BY <1>1, <1>2, <2>4, <3>4
      <4>3. m \in Unchecked(v, u)
        BY <1>14, <4>2
      <4> QED BY <3>1, <4>1, <4>3 DEF IsHevcReadBack
    <3>5. CASE m >= 36 + i + j
      <4>0. pps.ok = FALSE
        BY <1>7, <1>12, <3>2, <3>5
      <4>1. ~pps.ok /\ ~(m < 36 + i + j)
        BY <1>1, <1>2, <3>5, <4>0
      <4>2. Hevc!Unmarshal(b) = Hevc!BadRecord
        BY <1>3, <3>2, <3>3, <4>1
      <4>3. m \notin Unchecked(v, u)
        BY <1>1, <1>2, <1>14, <3>5
      <4> QED BY <3>1, <4>2, <4>3 DEF IsHevcReadBack
    <3> QED BY <1>1, <1>2, <3>4, <3>5
  <2> QED BY <1>1, <1>2, <2>1, <2>2, <2>3, <2>4
<1>13. m = Len(w) \/ m < Len(w)
  BY <1>1, <1>2
<1> QED BY <1>8, <1>12, <1>13

(***************************************************************************)
(* Codec data made of sets, and of the record of them.                     *)
(***************************************************************************)
(* What the constructors make of the sets. *)
MadeOf(u) ==
  IF IsAvc THEN Avc!NewCodecDataFromSPSAndPPS(u, PictureSet)
           ELSE Hevc!NewCodecDataFromVPSAndSPSAndPPS(VideoSet, u, PictureSet)

ReadOf(u) == IF IsAvc THEN Avc!ParseSPS(u) ELSE Hevc!ParseSPS(u)

(* What they make of a record. *)
OfRecord(record) ==
  IF IsAvc THEN Avc!NewCodecDataFromAVCDecoderConfRecord(record)
           ELSE Hevc!NewCodecDataFromAVCDecoderConfRecord(record)

(* The sets of a stream fit into a record. *)
LEMMA SetsAreSets ==
  /\ IsSet(PictureSet) /\ IsSet(VideoSet)
  /\ \A s \in AvcSettings : IsSet(AvcUnit(s)) /\ Len(AvcUnit(s)) >= 6
  /\ \A s \in HevcSettings : IsSet(HevcUnit(s)) /\ Len(HevcUnit(s)) >= 6
<1>1. ASSUME NEW x, FitsRecord(x, 1)
      PROVE  IsSet(x)
  BY <1>1 DEF FitsRecord, IsSet, Octet
<1>2. ASSUME NEW x, FitsRecord(x, 6)
      PROVE  IsSet(x) /\ Len(x) >= 6
  <2>1. x \in Seq(Octet) /\ 6 <= Len(x) /\ Len(x) < 65536
    BY <1>2 DEF FitsRecord, Octet
  <2>2. Len(x) \in Nat
    BY <2>1
  <2>3. 1 <= Len(x) /\ Len(x) >= 6
    BY <2>1, <2>2
  <2> QED BY <2>1, <2>3 DEF IsSet
<1> QED BY <1>1, <1>2, SetsAssumption

(* Just the sets that can be parsed make codec data. *)
LEMMA MadeIfRead ==
  ASSUME NEW u, IsSet(u), Len(u) >= 6
  PROVE  MadeOf(u).ok = ReadOf(u).ok
<1>1. u \in Seq(Octet) /\ Len(u) \in Nat /\ ~(Len(u) < 4) /\ ~(Len(u) < 6)
  BY DEF IsSet
<1>2. CASE IsAvc
  <2>1. Avc!ParseSPS(u).ok \in BOOLEAN
    BY DEF Avc!ParseSPS, Avc!Parsed
  <2> QED BY <1>1, <1>2, <2>1
          DEF MadeOf, ReadOf, Avc!NewCodecDataFromSPSAndPPS, Avc!CodecData,
              Avc!BadRecord
<1>3. CASE ~IsAvc
  <2>1. Hevc!ParseSPS(u).ok \in BOOLEAN
    BY DEF Hevc!ParseSPS, Hevc!Parsed
  <2>2. VideoSet # <<>> /\ PictureSet # <<>>
    BY SetsAreSets DEF IsSet
  <2> QED BY <1>1, <1>3, <2>1, <2>2
          DEF MadeOf, ReadOf, Hevc!NewCodecDataFromVPSAndSPSAndPPS, Hevc!CodecData,
              Hevc!BadRecord
<1> QED BY <1>2, <1>3

(* The record of what has been made. *)
LEMMA RecordOfMade ==
  ASSUME NEW u, IsSet(u), Len(u) >= 6, MadeOf(u).ok
  PROVE  /\ ReadOf(u).ok
         /\ IsAvc => AvcLaid(MadeOf(u).record, u, PictureSet)
         /\ ~IsAvc => HevcLaid(MadeOf(u).record, VideoSet, u, PictureSet)
         /\ Len(MadeOf(u).record) \in Nat
<1>1. u \in Seq(Octet) /\ Len(u) \in Nat /\ ~(Len(u) < 4) /\ ~(Len(u) < 6)
  BY DEF IsSet
<1>2. ReadOf(u).ok
  BY MadeIfRead
<1>3. IsSet(PictureSet) /\ IsSet(VideoSet)
  BY SetsAreSets
<1>4. CASE IsAvc
  <2>1. MadeOf(u).record = Avc!Marshal(AvcRecord(u, PictureSet))
    BY <1>1, <1>2, <1>4
       DEF MadeOf, ReadOf, Avc!NewCodecDataFromSPSAndPPS, Avc!CodecData, AvcRecord
  <2>2. AvcLaid(MadeOf(u).record, u, PictureSet)
    BY <1>3, <2>1, AvcMarshals
  <2>3. Len(MadeOf(u).record) \in Nat
    BY <2>2 DEF AvcLaid
  <2> QED BY <1>2, <1>4, <2>2, <2>3
<1>5. CASE ~IsAvc
  <2>1. VideoSet # <<>> /\ PictureSet # <<>>
    BY <1>3 DEF IsSet
  <2>2. MadeOf(u).record = Hevc!Buffer(HevcRecord(VideoSet, u, PictureSet))
    BY <1>1, <1>2, <1>5, <2>1
       DEF MadeOf, ReadOf, Hevc!NewCodecDataFromVPSAndSPSAndPPS, Hevc!CodecData,
           HevcRecord
  <2>3. HevcLaid(MadeOf(u).record, VideoSet, u, PictureSet)
    BY <1>3, <2>2, NothingBehind
  <2>4. Len(MadeOf(u).record) \in Nat
    BY <2>3 DEF HevcLaid
  <2> QED BY <1>2, <1>5, <2>3, <2>4
<1> QED BY <1>4, <1>5

(* The result if the last n bytes of the record are missing. *)
IsMadeAgain(result, u, n) ==
  /\ n > 0 =>
       /\ ~result.ok
       /\ result.panics =
            (~IsAvc /\ Len(MadeOf(u).record) - n \in Unchecked(VideoSet, u))
  /\ n = 0 => /\ result.ok
              /\ result.sps = ReadOf(u).info /\ result.info.SPS = <<u>>
              /\ result.info.PPS = <<PictureSet>>
              /\ IsAvc \/ result.info.VPS = <<VideoSet>>

(* It is what the constructors make of what is left. *)
LEMMA MadeAgain ==
  ASSUME NEW u, IsSet(u), Len(u) >= 6, MadeOf(u).ok,
         NEW n \in 0 .. Len(MadeOf(u).record), NEW left,
         left = SubSeq(MadeOf(u).record, 1, Len(MadeOf(u).record) - n)
  PROVE  IsMadeAgain(OfRecord(left), u, n)
<1> DEFINE w == MadeOf(u).record
           m == Len(w) - n
<1>1. /\ ReadOf(u).ok /\ Len(w) \in Nat
      /\ IsAvc => AvcLaid(w, u, PictureSet)
      /\ ~IsAvc => HevcLaid(w, VideoSet, u, PictureSet)
  BY RecordOfMade
<1>2. IsSet(PictureSet) /\ IsSet(VideoSet)
  BY SetsAreSets
<1>3. left = SubSeq(w, 1, m)
  OBVIOUS
<1>4. n \in 0 .. Len(w)
  OBVIOUS
<1> HIDE DEF w
<1>5. /\ m \in 0 .. Len(w) /\ (n > 0 => m < Len(w)) /\ (n = 0 => m = Len(w))
      /\ (n > 0 \/ n = 0) /\ ~(n > 0 /\ n = 0)
  BY <1>1, <1>4
<1>10. MadeOf(u).record = w /\ Len(w) - n = m
  BY DEF w
<1> HIDE DEF m
<1>6. IsStart(left, w, m)
  BY <1>3, <1>5 DEF IsStart
<1>7. Len(<<u>>) = 1 /\ <<u>>[1] = u /\ <<u>> # <<>> /\ <<PictureSet>> # <<>>
      /\ <<VideoSet>> # <<>>
  OBVIOUS
<1>8. CASE IsAvc
  <2> DEFINE rec == Avc!Unmarshal(left)
             ofUnit == Avc!ParseSPS(u)
  <2>1. /\ m < Len(w) => rec = Avc!BadRecord
        /\ m = Len(w) => /\ rec.ok = TRUE /\ rec.SPS = <<u>>
                         /\ rec.PPS = <<PictureSet>>
    BY <1>1, <1>2, <1>6, <1>8, AvcUnmarshals
  <2>2. ofUnit.ok /\ ReadOf(u) = ofUnit
    BY <1>1, <1>8 DEF ReadOf
  <2>3. OfRecord(left) = Avc!OfRecord(left, rec)
    BY <1>8 DEF OfRecord, Avc!NewCodecDataFromAVCDecoderConfRecord
  <2> HIDE DEF rec, ofUnit
  <2>4. CASE n > 0
    <3>1. rec.ok = FALSE /\ rec.panics = FALSE
      BY <1>5, <2>1, <2>4 DEF Avc!BadRecord
    <3>2. Avc!OfRecord(left, rec) = rec
      BY <3>1 DEF Avc!OfRecord
    <3> QED BY <1>5, <1>8, <2>3, <2>4, <3>1, <3>2 DEF IsMadeAgain
  <2>5. CASE n = 0
    <3>1. rec.ok = TRUE /\ rec.SPS = <<u>> /\ rec.PPS = <<PictureSet>>
      BY <1>5, <2>1, <2>5
    <3>2. Avc!OfRecord(left, rec) =
            [ok |-> TRUE, record |-> left, info |-> rec, sps |-> ofUnit.info]
      BY <1>7, <2>2, <3>1 DEF Avc!OfRecord, Avc!CodecData, ofUnit
    <3> QED BY <1>5, <1>8, <2>2, <2>3, <2>5, <3>1, <3>2 DEF IsMadeAgain
  <2> QED BY <1>5, <2>4, <2>5
<1>9. CASE ~IsAvc
  <2> DEFINE rec == Hevc!Unmarshal(left)
             ofUnit == Hevc!ParseSPS(u)
  <2>1. /\ m < Len(w) =>
             rec = IF m \in Unchecked(VideoSet, u) THEN Hevc!OutOfRange
                                                  ELSE Hevc!BadRecord
        /\ m = Len(w) => /\ rec.ok = TRUE /\ rec.VPS = <<VideoSet>>
                         /\ rec.SPS = <<u>> /\ rec.PPS = <<PictureSet>>
    <3>1. HevcLaid(w, VideoSet, u, PictureSet)
      BY <1>1, <1>9
    <3>2. IsHevcReadBack(rec, m, w, VideoSet, u, PictureSet)
      BY <1>2, <1>6, <3>1, HevcUnmarshals
    <3> HIDE DEF rec
    <3> QED BY <3>2 DEF IsHevcReadBack
  <2>2. ofUnit.ok /\ ReadOf(u) = ofUnit
    BY <1>1, <1>9 DEF ReadOf
  <2>3. OfRecord(left) = Hevc!OfRecord(left, rec)
    BY <1>9 DEF OfRecord, Hevc!NewCodecDataFromAVCDecoderConfRecord
  <2> HIDE DEF rec, ofUnit
  <2>4. CASE n > 0
    <3> DEFINE inCount == m \in Unchecked(VideoSet, u)
    <3>1. rec = IF inCount THEN Hevc!OutOfRange ELSE Hevc!BadRecord
      BY <1>5, <2>1, <2>4
    <3>2. (~IsAvc /\ inCount) \in BOOLEAN /\ ((~IsAvc /\ inCount) <=> inCount)
      BY <1>9
    <3> HIDE DEF inCount
    <3>3. rec.ok = FALSE /\ (inCount => rec.panics = TRUE)
          /\ (~inCount => rec.panics = FALSE)
      BY <3>1 DEF Hevc!BadRecord, Hevc!OutOfRange
    <3>4. rec.panics = (~IsAvc /\ inCount)
      <4>1. CASE inCount
        BY <3>2, <3>3, <4>1
      <4>2. CASE ~inCount
        BY <3>2, <3>3, <4>2
      <4> QED BY <4>1, <4>2
    <3>5. Hevc!OfRecord(left, rec) = rec
      BY <3>3 DEF Hevc!OfRecord
    <3>6. rec.panics =
            (~IsAvc /\ Len(MadeOf(u).record) - n \in Unchecked(VideoSet, u))
      BY <1>10, <3>4 DEF inCount
    <3> QED BY <1>5, <2>3, <2>4, <3>3, <3>5, <3>6 DEF IsMadeAgain
  <2>5. CASE n = 0
    <3>1. rec.ok = TRUE /\ rec.SPS = <<u>> /\ rec.PPS = <<PictureSet>>
          /\ rec.VPS = <<VideoSet>>
      BY <1>5, <2>1, <2>5
    <3>2. Hevc!OfRecord(left, rec) =
            [ok |-> TRUE, record |-> left, info |-> rec, sps |-> ofUnit.info]
      BY <1>7, <2>2, <3>1 DEF Hevc!OfRecord, Hevc!CodecData, ofUnit
    <3> QED BY <1>5, <2>2, <2>3, <2>5, <3>1, <3>2 DEF IsMadeAgain
  <2> QED BY <1>5, <2>4, <2>5
<1> QED BY <1>8, <1>9

(***************************************************************************)
(* Each of the results is what its call made of what was there.            *)
(***************************************************************************)
(* The last n bytes were missing. *)
Again(n) ==
  again = OfRecord(SubSeq(made.record, 1, Len(made.record) - n)) /\ missing = n

(* Nothing has been forgotten or come in between. *)
SetsInv ==
  /\ stage \in {"sent", "parsed", "made", "again"} =>
       IsSet(arrived) /\ Len(arrived) >= 6
  /\ stage \in {"parsed", "made", "again"} => spsRead = ReadOf(arrived)
  /\ stage \in {"made", "again"} => made = MadeOf(arrived)
  /\ stage = "again" => made.ok /\ \E n \in 0 .. Len(made.record) : Again(n)

(* Nothing has been called. *)
LEMMA SetsStart == SetsInit => SetsInv
BY DEF SetsInit, SetsInv

(* Each call keeps to it. *)
LEMMA SetsKeep == SetsInv /\ [SetsNext]_psvars => SetsInv'
<1> SUFFICES ASSUME SetsInv, [SetsNext]_psvars PROVE SetsInv'
  OBVIOUS
<1>1. CASE WriteSPS
  <2>1. stage' = "sent"
    BY <1>1 DEF WriteSPS
  <2>2. IsSet(arrived') /\ Len(arrived') >= 6
    <3>1. \/ \E s \in AvcSettings : arrived' = AvcUnit(s)
          \/ \E s \in HevcSettings : arrived' = HevcUnit(s)
      BY <1>1 DEF WriteSPS
    <3> QED BY <3>1, SetsAreSets
  <2> QED BY <2>1, <2>2 DEF SetsInv
<1>2. CASE LoseEnd
  <2>1. stage = "sent" /\ stage' = "sent"
    BY <1>2 DEF LoseEnd
  <2>2. IsSet(arrived) /\ Len(arrived) >= 6
    BY <2>1 DEF SetsInv
  <2>3. PICK n \in 6 .. Len(arrived) - 1 : arrived' = SubSeq(arrived, 1, n)
    BY <1>2 DEF LoseEnd
  <2>4. /\ arrived \in Seq(Octet) /\ Len(arrived) \in Nat /\ Len(arrived) < 65536
    BY <2>2 DEF IsSet
  <2>5. arrived' \in Seq(Octet) /\ Len(arrived') = n
    BY <2>3, <2>4
  <2>6. IsSet(arrived') /\ Len(arrived') >= 6
    BY <2>4, <2>5 DEF IsSet
  <2> QED BY <2>1, <2>6 DEF SetsInv
<1>3. CASE Parse
  <2>1. /\ stage = "sent" /\ stage' = "parsed"
        /\ settings' = settings /\ arrived' = arrived
        /\ spsRead' = ReadOf(arrived)
    BY <1>3 DEF Parse, sent, ReadOf
  <2>2. IsSet(arrived) /\ Len(arrived) >= 6
    BY <2>1 DEF SetsInv
  <2>3. ReadOf(arrived)' = ReadOf(arrived)
    BY <2>1 DEF ReadOf, IsAvc
  <2> QED BY <2>1, <2>2, <2>3 DEF SetsInv
<1>4. CASE Make
  <2>1. /\ stage = "parsed" /\ stage' = "made"
        /\ settings' = settings /\ arrived' = arrived /\ spsRead' = spsRead
        /\ made' = MadeOf(arrived)
    BY <1>4 DEF Make, sent, MadeOf
  <2>2. IsSet(arrived) /\ Len(arrived) >= 6 /\ spsRead = ReadOf(arrived)
    BY <2>1 DEF SetsInv
  <2>3. /\ ReadOf(arrived)' = ReadOf(arrived)
        /\ MadeOf(arrived)' = MadeOf(arrived)
    BY <2>1 DEF ReadOf, MadeOf, IsAvc
  <2> QED BY <2>1, <2>2, <2>3 DEF SetsInv
<1>5. CASE MakeAgain
  <2>1. /\ stage = "made" /\ stage' = "again" /\ made.ok
        /\ settings' = settings /\ arrived' = arrived /\ spsRead' = spsRead
        /\ made' = made
    BY <1>5 DEF MakeAgain, sent
  <2>2. /\ IsSet(arrived) /\ Len(arrived) >= 6 /\ spsRead = ReadOf(arrived)
        /\ made = MadeOf(arrived)
    BY <2>1 DEF SetsInv
  <2>3. /\ ReadOf(arrived)' = ReadOf(arrived)
        /\ MadeOf(arrived)' = MadeOf(arrived)
    BY <2>1 DEF ReadOf, MadeOf, IsAvc
  <2>4. \E n \in 0 .. Len(made.record) : Again(n)'
    <3>1. PICK n \in 0 .. (IF cut THEN 0 ELSE Len(made.record)) :
            /\ missing' = n
            /\ again' = OfRecord(SubSeq(made.record, 1, Len(made.record) - n))
      BY <1>5 DEF MakeAgain, OfRecord
    <3>2. Len(made.record) \in Nat
      BY <2>1, <2>2, RecordOfMade
    <3>3. n \in 0 .. Len(made.record)
      BY <3>2
    <3>4. Again(n)'
      BY <2>1, <3>1 DEF Again, OfRecord, IsAvc
    <3> QED BY <3>3, <3>4
  <2> QED BY <2>1, <2>2, <2>3, <2>4 DEF SetsInv
<1>6. CASE \E type \in 0 .. 63 : ReceiveSlice(type)
  BY <1>6 DEF ReceiveSlice, SetsInv
<1>7. CASE UNCHANGED psvars
  <2>1. /\ stage' = stage /\ settings' = settings /\ arrived' = arrived
        /\ spsRead' = spsRead /\ made' = made /\ missing' = missing
        /\ again' = again
    BY <1>7 DEF psvars, sent
  <2> QED BY <2>1 DEF SetsInv, ReadOf, MadeOf, IsAvc, Again, OfRecord
<1> QED BY <1>1, <1>2, <1>3, <1>4, <1>5, <1>6, <1>7 DEF SetsNext

(* And so the codec data is what it was. *)
LEMMA SetsSay == SetsInv => CodecDataSurvives
<1> SUFFICES ASSUME SetsInv PROVE CodecDataSurvives
  OBVIOUS
<1>1. stage \in {"made", "again"} => made.ok = spsRead.ok
  BY MadeIfRead DEF SetsInv
<1>2. ASSUME stage = "again"
      PROVE  IF missing > 0
             THEN /\ ~again.ok
                  /\ again.panics =
                       (~IsAvc /\ EndsInCount(Len(made.record) - missing))
             ELSE /\ again.ok
                  /\ again.sps = spsRead.info /\ again.info.SPS = <<arrived>>
                  /\ again.info.PPS = <<PictureSet>>
                  /\ IsAvc \/ again.info.VPS = <<VideoSet>>
  <2>1. /\ IsSet(arrived) /\ Len(arrived) >= 6 /\ spsRead = ReadOf(arrived)
        /\ made = MadeOf(arrived) /\ made.ok
    BY <1>2 DEF SetsInv
  <2>2. PICK n \in 0 .. Len(made.record) : Again(n)
    BY <1>2 DEF SetsInv
  <2>3. IsMadeAgain(again, arrived, n) /\ missing = n
    BY <2>1, <2>2, MadeAgain DEF Again
  <2>4. n > 0 \/ n = 0
    <3>1. Len(made.record) \in Nat
      BY <2>1, RecordOfMade
    <3> QED BY <3>1
  <2>5. Len(VideoSet) \in Nat /\ Len(arrived) \in Nat
    BY <2>1, SetsAreSets DEF IsSet
  <2>6. ASSUME NEW length
        PROVE  EndsInCount(length) <=> length \in Unchecked(VideoSet, arrived)
    BY <2>5 DEF EndsInCount, Unchecked
  <2> QED BY <2>1, <2>3, <2>4, <2>6 DEF IsMadeAgain
<1> QED BY <1>1, <1>2 DEF CodecDataSurvives

(* Codec data is made of just the sets that can be parsed, and again of the  *)
(* record of it, if not a byte of that is missing; of less, none is made, and*)
(* Unmarshal of H.265 panics just where what is left ends within a count it  *)
(* does not check: for all settings and all sets that a record can hold      *)
(* (h264parser/parser.go:800-946, h265parser/parser.go:428-640).             *)
THEOREM CodecDataSurvivesCorrect == SetsSpec => []CodecDataSurvives
BY SetsStart, SetsKeep, SetsSay, PTL DEF SetsSpec
=============================================================================
