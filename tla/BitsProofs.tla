----------------------------- MODULE BitsProofs -----------------------------
(***************************************************************************)
(* The bit writer and the bit reader, for every width of a word and a byte *)
(* that fits into it a whole number of times, and the Exp-Golomb reader,   *)
(* for every string of bits.                                               *)
(***************************************************************************)
EXTENDS BitWriter, BitReader, Golomb, InductionProofs

(***************************************************************************)
(* Whole bytes.                                                            *)
(***************************************************************************)
(* What is rounded up to bytes, and by how many bits. *)
Padding(a) == (ByteBits - (a % ByteBits)) % ByteBits

InBytes(a) == (a + ByteBits - 1) \div ByteBits

(* A number of bits, rounded up to whole bytes.                              *)
LEMMA RoundedUp ==
  ASSUME NEW a \in Nat
  PROVE  /\ InBytes(a) \in Nat /\ Padding(a) \in 0 .. ByteBits - 1
         /\ ByteBits * InBytes(a) = a + Padding(a)
<1> USE WordsAssumption
<1> DEFINE q == a \div ByteBits
           r == a % ByteBits
<1>1. q \in Nat /\ r \in 0 .. ByteBits - 1 /\ a = ByteBits * q + r
  BY Divided
<1>2. CASE r = 0
  <2>1. Padding(a) = 0
    <3>1. ByteBits = ByteBits * 1 + 0
      OBVIOUS
    <3>2. ByteBits % ByteBits = 0
      BY <3>1, DividedOnce
    <3> QED BY <1>2, <3>2 DEF Padding
  <2>2. InBytes(a) = q
    <3> HIDE DEF q, r
    <3>1. a + ByteBits - 1 = ByteBits * q + (ByteBits - 1)
      BY <1>1, <1>2
    <3>2. a + ByteBits - 1 \in Nat /\ ByteBits - 1 \in 0 .. ByteBits - 1
      OBVIOUS
    <3> QED BY <1>1, <3>1, <3>2, DividedOnce DEF InBytes
  <2> QED BY <1>1, <1>2, <2>1, <2>2
<1>3. CASE r # 0
  <2>1. Padding(a) = ByteBits - r
    <3> HIDE DEF q
    <3>1. ByteBits - r = ByteBits * 0 + (ByteBits - r)
      BY <1>1
    <3>2. ByteBits - r \in Nat /\ ByteBits - r \in 0 .. ByteBits - 1
      BY <1>1, <1>3
    <3> QED BY <3>1, <3>2, DividedOnce DEF Padding
  <2>2. InBytes(a) = q + 1
    <3> HIDE DEF q, r
    <3>1. ByteBits * (q + 1) = ByteBits * q + ByteBits
      BY <1>1
    <3>2. a + ByteBits - 1 = ByteBits * (q + 1) + (r - 1)
      BY <1>1, <3>1
    <3>3. /\ a + ByteBits - 1 \in Nat /\ q + 1 \in Nat
          /\ r - 1 \in 0 .. ByteBits - 1
      BY <1>1, <1>3
    <3> QED BY <3>2, <3>3, DividedOnce DEF InBytes
  <2>3. ByteBits * (q + 1) = ByteBits * q + ByteBits
    BY <1>1
  <2> HIDE DEF q, r
  <2> QED BY <1>1, <1>3, <2>1, <2>2, <2>3
<1> QED BY <1>2, <1>3

(* Quotients are in the order of what they are multiplied to. *)
LEMMA Cancelled ==
  ASSUME NEW b \in Nat \ {0}, NEW k \in Nat, NEW m \in Nat, b * k < b * m + b
  PROVE  k <= m
<1> SUFFICES ASSUME m + 1 <= k PROVE FALSE
  OBVIOUS
<1>1. PICK d \in Nat : k = (m + 1) + d
  <2>1. k - (m + 1) \in Nat /\ k = (m + 1) + (k - (m + 1))
    OBVIOUS
  <2> QED BY <2>1
<1>2. b * k = b * m + b + b * d
  BY <1>1
<1>3. b * d \in Nat /\ b * m \in Nat
  OBVIOUS
<1> QED BY <1>2, <1>3

(* What fits into a word does so in whole bytes. *)
LEMMA WordIsWhole ==
  /\ ByteBits <= WordBits
  /\ Padding(WordBits) = 0
  /\ \A a \in 0 .. WordBits : a + Padding(a) <= WordBits
<1> USE WordsAssumption
<1> DEFINE w == WordBits \div ByteBits
<1>1. w \in Nat /\ WordBits = ByteBits * w
  BY Divided
<1> HIDE DEF w
<1>2. w >= 1
  <2>1. CASE w = 0
    BY <1>1, <2>1
  <2> QED BY <1>1, <2>1
<1>3. ByteBits <= WordBits
  <2>1. /\ ByteBits * w = ByteBits * (w - 1) + ByteBits
        /\ ByteBits * (w - 1) \in Nat
    BY <1>1, <1>2
  <2> QED BY <1>1, <2>1
<1>4. Padding(WordBits) = 0
  <2>1. ByteBits = ByteBits * 1 + 0
    OBVIOUS
  <2>2. ByteBits % ByteBits = 0
    BY <2>1, DividedOnce
  <2> QED BY <2>2 DEF Padding
<1>5. ASSUME NEW a \in 0 .. WordBits
      PROVE  a + Padding(a) <= WordBits
  <2> DEFINE k == InBytes(a)
  <2>1. /\ k \in Nat /\ Padding(a) \in 0 .. ByteBits - 1
        /\ ByteBits * k = a + Padding(a)
    BY RoundedUp
  <2> HIDE DEF k
  <2>2. ByteBits * k < ByteBits * w + ByteBits
    BY <1>1, <2>1
  <2>3. k <= w
    BY <1>1, <2>1, <2>2, Cancelled
  <2>4. PICK d \in Nat : w = k + d
    <3>1. w - k \in Nat /\ w = k + (w - k)
      BY <1>1, <2>1, <2>3
    <3> QED BY <3>1
  <2>5. ByteBits * w = ByteBits * k + ByteBits * d /\ ByteBits * d \in Nat
    BY <2>1, <2>4
  <2> QED BY <1>1, <2>1, <2>5
<1> QED BY <1>3, <1>4, <1>5

(***************************************************************************)
(* Words, and the bits of words and bytes.                                 *)
(***************************************************************************)
LEMMA WordOperations ==
  /\ Zero \in Words
  /\ \A x \in Words, k \in Nat :
       /\ ShiftLeft(x, k) \in Words
       /\ ShiftRight(x, k) \in Words
       /\ Byte(x) \in Bytes
  /\ \A x, y \in Words : Or(x, y) \in Words /\ Xor(x, y) \in Words
<1> USE WordsAssumption
<1>1. Zero \in Words
  BY DEF Zero, Words
<1>2. ASSUME NEW x \in Words, NEW k \in Nat
      PROVE  /\ ShiftLeft(x, k) \in Words
             /\ ShiftRight(x, k) \in Words
             /\ Byte(x) \in Bytes
  <2>1. \A j \in Places : x[j] \in {0, 1}
    BY DEF Words
  <2>2. ShiftLeft(x, k) \in Words
    <3>1. \A j \in Places : j < k \/ j - k \in Places
      BY DEF Places
    <3> QED BY <2>1, <3>1 DEF ShiftLeft, Words
  <2>3. ShiftRight(x, k) \in Words
    <3>1. \A j \in Places : j + k < WordBits => j + k \in Places
      BY DEF Places
    <3> QED BY <2>1, <3>1 DEF ShiftRight, Words
  <2>4. Byte(x) \in Words
    BY <2>1 DEF Byte, Words
  <2>5. FitsInto(Byte(x), ByteBits)
    BY DEF FitsInto, Byte, Places
  <2> QED BY <2>2, <2>3, <2>4, <2>5 DEF Bytes
<1>3. ASSUME NEW x \in Words, NEW y \in Words
      PROVE  Or(x, y) \in Words /\ Xor(x, y) \in Words
  BY DEF Or, Xor, Words
<1> QED BY <1>1, <1>2, <1>3

(* Two sequences of the same length with the same elements are the same. *)
LEMMA SameSequence ==
  ASSUME NEW X, NEW s \in Seq(X), NEW t \in Seq(X), Len(s) = Len(t),
         \A i \in 1 .. Len(s) : s[i] = t[i]
  PROVE  s = t
  OBVIOUS

(* The low bits of a word, the most significant one first.                   *)
LEMMA LowBitsIs ==
  ASSUME NEW x \in Words, NEW k \in 0 .. WordBits
  PROVE  /\ LowBits(x, k) \in Seq({0, 1})
         /\ Len(LowBits(x, k)) = k
         /\ \A i \in 1 .. k : LowBits(x, k)[i] = x[k - i]
<1> USE WordsAssumption
<1>1. k \in Nat
  OBVIOUS
<1>2. \A i \in 1 .. k : x[k - i] \in {0, 1}
  BY DEF Words, Places
<1>3. LowBits(x, k) = [i \in 1 .. k |-> x[k - i]]
  BY DEF LowBits
<1> HIDE WordsAssumption
<1> QED BY <1>1, <1>2, <1>3

(* A concatenation, by its elements. *)
Begins(s, u) == \A i \in 1 .. Len(s) : u[i] = s[i]

Ends(t, u, from) == \A i \in 1 .. Len(t) : u[from + i] = t[i]

(* A sequence that begins with s and ends with t is their concatenation.     *)
LEMMA ConcatenationIs ==
  ASSUME NEW X, NEW s \in Seq(X), NEW t \in Seq(X), NEW u \in Seq(X),
         Len(u) = Len(s) + Len(t), Begins(s, u), Ends(t, u, Len(s))
  PROVE  u = s \o t
<1> USE DEF Begins, Ends
<1>1. s \o t \in Seq(X) /\ Len(s \o t) = Len(s) + Len(t)
  OBVIOUS
<1>2. ASSUME NEW i \in 1 .. Len(u)
      PROVE  u[i] = (s \o t)[i]
  <2>1. CASE i <= Len(s)
    <3>1. (s \o t)[i] = s[i] /\ i \in 1 .. Len(s)
      BY <2>1
    <3> QED BY <3>1
  <2>2. CASE i > Len(s)
    <3>1. /\ (s \o t)[i] = t[i - Len(s)] /\ i - Len(s) \in 1 .. Len(t)
          /\ i = Len(s) + (i - Len(s))
      BY <2>2
    <3> QED BY <3>1
  <2> QED BY <2>1, <2>2
<1> QED BY <1>1, <1>2, SameSequence

(* A value put behind the bits of a word: the one write of both directions. *)
PutIn(x, v, k) == Or(ShiftLeft(x, k), v)

(* What is shifted in from below comes behind the bits that are there.       *)
LEMMA PutInIs ==
  ASSUME NEW x \in Words, NEW v \in Words, NEW m \in Nat, NEW k \in Nat,
         m + k <= WordBits, FitsInto(v, k)
  PROVE  /\ PutIn(x, v, k) \in Words
         /\ LowBits(PutIn(x, v, k), m + k) = LowBits(x, m) \o LowBits(v, k)
         /\ FitsInto(x, m) => FitsInto(PutIn(x, v, k), m + k)
<1> USE WordsAssumption
<1> DEFINE y == PutIn(x, v, k)
<1>1. y \in Words
  BY WordOperations DEF PutIn
<1>2. /\ \A j \in Places : j < k => y[j] = v[j]
      /\ \A j \in Places : j >= k => y[j] = x[j - k]
  <2>1. ASSUME NEW j \in Places, j < k
        PROVE  y[j] = v[j]
    BY <2>1 DEF PutIn, Or, ShiftLeft
  <2>2. ASSUME NEW j \in Places, j >= k
        PROVE  y[j] = x[j - k]
    <3>1. v[j] = 0 /\ ~(j < k) /\ j - k \in Places
      BY <2>2 DEF FitsInto, Places
    <3>2. x[j - k] \in {0, 1}
      BY <3>1 DEF Words
    <3>3. y[j] = IF x[j - k] = 1 THEN 1 ELSE 0
      BY <3>1 DEF PutIn, Or, ShiftLeft
    <3> QED BY <3>2, <3>3
  <2> QED BY <2>1, <2>2
<1> HIDE DEF y
<1>3. LowBits(y, m + k) = LowBits(x, m) \o LowBits(v, k)
  <2>1. m + k \in 0 .. WordBits /\ m \in 0 .. WordBits /\ k \in 0 .. WordBits
    OBVIOUS
  <2>2. /\ LowBits(y, m + k) \in Seq({0, 1}) /\ Len(LowBits(y, m + k)) = m + k
        /\ LowBits(x, m) \in Seq({0, 1}) /\ Len(LowBits(x, m)) = m
        /\ LowBits(v, k) \in Seq({0, 1}) /\ Len(LowBits(v, k)) = k
        /\ \A i \in 1 .. m + k : LowBits(y, m + k)[i] = y[(m + k) - i]
        /\ \A i \in 1 .. m : LowBits(x, m)[i] = x[m - i]
        /\ \A i \in 1 .. k : LowBits(v, k)[i] = v[k - i]
    BY <1>1, <2>1, LowBitsIs
  <2>3. ASSUME NEW i \in 1 .. m
        PROVE  LowBits(y, m + k)[i] = LowBits(x, m)[i]
    <3>1. /\ i \in 1 .. m + k /\ (m + k) - i \in Places /\ (m + k) - i >= k
          /\ ((m + k) - i) - k = m - i
      BY DEF Places
    <3>2. LowBits(y, m + k)[i] = y[(m + k) - i]
      BY <2>2, <3>1
    <3>3. y[(m + k) - i] = x[((m + k) - i) - k]
      BY <1>2, <3>1
    <3>4. LowBits(x, m)[i] = x[m - i]
      BY <2>2
    <3> QED BY <3>1, <3>2, <3>3, <3>4
  <2>4. ASSUME NEW i \in 1 .. k
        PROVE  LowBits(y, m + k)[m + i] = LowBits(v, k)[i]
    <3>1. /\ m + i \in 1 .. m + k /\ (m + k) - (m + i) = k - i
          /\ k - i \in Places /\ k - i < k
      BY DEF Places
    <3>2. LowBits(y, m + k)[m + i] = y[(m + k) - (m + i)]
      BY <2>2, <3>1
    <3>3. y[k - i] = v[k - i]
      BY <1>2, <3>1
    <3>4. LowBits(v, k)[i] = v[k - i]
      BY <2>2
    <3> QED BY <3>1, <3>2, <3>3, <3>4
  <2> DEFINE s == LowBits(x, m)
             t == LowBits(v, k)
             u == LowBits(y, m + k)
  <2>5. /\ s \in Seq({0, 1}) /\ t \in Seq({0, 1}) /\ u \in Seq({0, 1})
        /\ Len(s) = m /\ Len(t) = k /\ Len(u) = m + k
        /\ Begins(s, u) /\ Ends(t, u, m)
    BY <2>2, <2>3, <2>4 DEF Begins, Ends
  <2> HIDE DEF s, t, u
  <2>6. u = s \o t
    BY <2>5, ConcatenationIs
  <2> QED BY <2>6 DEF s, t, u
<1>4. ASSUME FitsInto(x, m)
      PROVE  FitsInto(y, m + k)
  <2> SUFFICES ASSUME NEW j \in Places, j >= m + k PROVE y[j] = 0
    BY DEF FitsInto
  <2>1. j >= k /\ j - k \in Places /\ j - k >= m
    BY DEF Places
  <2> QED BY <1>2, <1>4, <2>1 DEF FitsInto
<1> QED BY <1>1, <1>3, <1>4 DEF y

(* Shifting to the left puts zeros behind the bits. *)
LEMMA ShiftedIs ==
  ASSUME NEW x \in Words, NEW m \in Nat, NEW k \in Nat, m + k <= WordBits
  PROVE  LowBits(ShiftLeft(x, k), m + k) = LowBits(x, m) \o LowBits(Zero, k)
<1>1. Zero \in Words /\ ShiftLeft(x, k) \in Words
  BY WordOperations
<1>2. FitsInto(Zero, k)
  BY DEF FitsInto, Zero
<1>3. PutIn(x, Zero, k) = ShiftLeft(x, k)
  <2>1. \A j \in Places : ShiftLeft(x, k)[j] \in {0, 1}
    BY <1>1 DEF Words
  <2>2. \A j \in Places : (IF ShiftLeft(x, k)[j] = 1 THEN 1 ELSE Zero[j])
                            = ShiftLeft(x, k)[j]
    BY <2>1 DEF Zero
  <2>3. ShiftLeft(x, k) = [j \in Places |-> ShiftLeft(x, k)[j]]
    BY <1>1 DEF Words
  <2> QED BY <2>2, <2>3 DEF PutIn, Or
<1> QED BY <1>1, <1>2, <1>3, PutInIs

(* A place among the bits of len bytes: the byte, and the bit of it. *)
HasPlace(i, len) ==
  \E q \in 0 .. len - 1, r \in 0 .. ByteBits - 1 : i = ByteBits * q + r + 1

(* Every bit is in a byte, at a place of it.                                 *)
LEMMA PlaceIs ==
  ASSUME NEW len \in Nat, NEW max, max = ByteBits * len, NEW i \in 1 .. max
  PROVE  HasPlace(i, len)
<1> USE WordsAssumption
<1> DEFINE q == (i - 1) \div ByteBits
           r == (i - 1) % ByteBits
<1>1. ByteBits * len \in Nat
  OBVIOUS
<1>2. i - 1 \in Nat /\ i <= ByteBits * len
  BY <1>1
<1>3. q \in Nat /\ r \in 0 .. ByteBits - 1 /\ i - 1 = ByteBits * q + r
  BY <1>2, Divided
<1> HIDE DEF q, r
<1>4. len # 0
  BY <1>2
<1>5. /\ len - 1 \in Nat /\ ByteBits * len = ByteBits * (len - 1) + ByteBits
      /\ ByteBits * q \in Nat
  BY <1>3, <1>4
<1>6. ByteBits * q < ByteBits * (len - 1) + ByteBits
  BY <1>1, <1>2, <1>3, <1>5
<1>7. q <= len - 1
  BY <1>3, <1>5, <1>6, Cancelled
<1>8. q \in 0 .. len - 1 /\ i = ByteBits * q + r + 1
  BY <1>1, <1>3, <1>5, <1>7
<1> QED BY <1>3, <1>8 DEF HasPlace

(* Every place of every byte is a bit.                                       *)
LEMMA PlaceIsBit ==
  ASSUME NEW len \in Nat, NEW q \in 0 .. len - 1,
         NEW r \in 0 .. ByteBits - 1
  PROVE  ByteBits * q + r + 1 \in 1 .. ByteBits * len
<1> USE WordsAssumption
<1>1. PICK d \in Nat : len = q + 1 + d
  <2>1. len - (q + 1) \in Nat /\ len = q + 1 + (len - (q + 1))
    OBVIOUS
  <2> QED BY <2>1
<1>2. ByteBits * len = ByteBits * q + ByteBits + ByteBits * d
  BY <1>1
<1>3. ByteBits * q \in Nat /\ ByteBits * d \in Nat
  OBVIOUS
<1> QED BY <1>2, <1>3

(* The bits of bytes, one by one. *)
AreBits(bits, bytes) ==
  \A q \in 0 .. Len(bytes) - 1, r \in 0 .. ByteBits - 1 :
    bits[ByteBits * q + r + 1] = bytes[q + 1][ByteBits - 1 - r]

(* The bits of a byte string are those of its bytes, in their order.         *)
LEMMA BitsIs ==
  ASSUME NEW bytes \in Seq(Bytes)
  PROVE  /\ Bits(bytes) \in Seq({0, 1})
         /\ Len(Bits(bytes)) = ByteBits * Len(bytes)
         /\ AreBits(Bits(bytes), bytes)
<1> USE WordsAssumption
<1> DEFINE len == Len(bytes)
           bit(i) == LowBits(bytes[(i - 1) \div ByteBits + 1], ByteBits)
                            [((i - 1) % ByteBits) + 1]
<1>1. len \in Nat /\ ByteBits * len \in Nat
      /\ \A q \in 0 .. len - 1 : bytes[q + 1] \in Bytes
  OBVIOUS
<1>2. Bits(bytes) = [i \in 1 .. ByteBits * len |-> bit(i)]
  BY DEF Bits
<1>3. ASSUME NEW q \in 0 .. len - 1, NEW r \in 0 .. ByteBits - 1
      PROVE  /\ bit(ByteBits * q + r + 1) = bytes[q + 1][ByteBits - 1 - r]
             /\ bit(ByteBits * q + r + 1) \in {0, 1}
  <2> DEFINE i == ByteBits * q + r + 1
             a == i - 1
  <2>1. q \in Nat /\ r \in Nat /\ ByteBits * q \in Nat
    BY <1>1
  <2>2. a = ByteBits * q + r /\ a \in Nat
    BY <2>1
  <2> HIDE DEF i, a
  <2>3. (i - 1) \div ByteBits = q /\ (i - 1) % ByteBits = r
    <3>1. a \div ByteBits = q /\ a % ByteBits = r
      BY <2>1, <2>2, DividedOnce
    <3> QED BY <3>1 DEF a
  <2>4. bit(i) = LowBits(bytes[q + 1], ByteBits)[r + 1]
    BY <2>3
  <2>5. bytes[q + 1] \in Words /\ ByteBits \in 0 .. WordBits
    BY <1>1, WordIsWhole DEF Bytes
  <2>6. r + 1 \in 1 .. ByteBits /\ ByteBits - (r + 1) = ByteBits - 1 - r
    OBVIOUS
  <2>7. LowBits(bytes[q + 1], ByteBits)[r + 1]
          = bytes[q + 1][ByteBits - (r + 1)]
    BY <2>5, <2>6, LowBitsIs
  <2>8. ByteBits - (r + 1) \in Places
    BY <2>5 DEF Places
  <2>9. bytes[q + 1][ByteBits - (r + 1)] \in {0, 1}
    BY <2>5, <2>8 DEF Words
  <2>10. bit(i) = bytes[q + 1][ByteBits - 1 - r] /\ bit(i) \in {0, 1}
    BY <2>4, <2>6, <2>7, <2>9
  <2> HIDE DEF bit
  <2> QED BY <2>10 DEF i
<1> HIDE DEF bit
<1>4. ASSUME NEW i \in 1 .. ByteBits * len
      PROVE  bit(i) \in {0, 1}
  <2>1. PICK q \in 0 .. len - 1, r \in 0 .. ByteBits - 1 :
          i = ByteBits * q + r + 1
    <3>1. HasPlace(i, len)
      <4> DEFINE max == ByteBits * len
      <4> HIDE DEF max, len
      <4> HIDE WordsAssumption
      <4>1. i \in 1 .. max
        BY DEF max
      <4>2. max = ByteBits * len
        BY DEF max
      <4> QED BY <1>1, <4>1, <4>2, PlaceIs
    <3> QED BY <3>1 DEF HasPlace
  <2> QED BY <1>3, <2>1
<1>5. /\ Bits(bytes) \in Seq({0, 1})
      /\ Len(Bits(bytes)) = ByteBits * len
      /\ \A i \in 1 .. ByteBits * len : Bits(bytes)[i] = bit(i)
  <2> DEFINE max == ByteBits * len
  <2>1. max \in Nat /\ Bits(bytes) = [i \in 1 .. max |-> bit(i)]
        /\ \A i \in 1 .. max : bit(i) \in {0, 1}
    BY <1>1, <1>2, <1>4
  <2> HIDE DEF max
  <2>2. /\ Bits(bytes) \in Seq({0, 1})
        /\ Len(Bits(bytes)) = max
        /\ \A i \in 1 .. max : Bits(bytes)[i] = bit(i)
    BY <2>1
  <2> QED BY <2>2 DEF max
<1>6. ASSUME NEW q \in 0 .. len - 1, NEW r \in 0 .. ByteBits - 1
      PROVE  Bits(bytes)[ByteBits * q + r + 1] = bytes[q + 1][ByteBits - 1 - r]
  <2>1. ByteBits * q + r + 1 \in 1 .. ByteBits * len
    BY <1>1, PlaceIsBit
  <2>2. Bits(bytes)[ByteBits * q + r + 1] = bit(ByteBits * q + r + 1)
    BY <1>5, <2>1
  <2> QED BY <1>3, <2>2
<1> QED BY <1>5, <1>6 DEF AreBits

(* The bits of bytes that follow others follow theirs. *)
LEMMA BitsJoin ==
  ASSUME NEW a \in Seq(Bytes), NEW b \in Seq(Bytes)
  PROVE  Bits(a \o b) = Bits(a) \o Bits(b)
<1> USE WordsAssumption
<1> DEFINE c == a \o b
           la == Len(a)
           lb == Len(b)
           s == Bits(a)
           t == Bits(b)
           u == Bits(c)
<1>1. /\ c \in Seq(Bytes) /\ la \in Nat /\ lb \in Nat
      /\ Len(c) = la + lb
      /\ \A q \in 0 .. la - 1 : c[q + 1] = a[q + 1]
      /\ \A q \in 0 .. lb - 1 : c[la + q + 1] = b[q + 1]
  OBVIOUS
<1> HIDE DEF c
<1>2. /\ s \in Seq({0, 1}) /\ t \in Seq({0, 1}) /\ u \in Seq({0, 1})
      /\ Len(s) = ByteBits * la /\ Len(t) = ByteBits * lb
      /\ Len(u) = ByteBits * Len(c)
      /\ AreBits(s, a) /\ AreBits(t, b) /\ AreBits(u, c)
  BY <1>1, BitsIs
<1> DEFINE ls == Len(s)
           lt == Len(t)
<1>3. /\ Len(a) = la /\ Len(b) = lb
      /\ Len(s) = ls /\ Len(t) = lt
  OBVIOUS
<1> HIDE DEF s, t, u, la, lb, ls, lt
<1>4. /\ ls = ByteBits * la /\ ls \in Nat
      /\ lt = ByteBits * lb /\ lt \in Nat
      /\ Len(u) = ls + lt
  <2>1. ls \in Nat /\ lt \in Nat
    BY <1>2, <1>3
  <2>2. ls = ByteBits * la /\ lt = ByteBits * lb
    BY <1>2, <1>3
  <2>3. Len(u) = ByteBits * (la + lb)
    BY <1>1, <1>2
  <2>4. ByteBits * (la + lb) = ByteBits * la + ByteBits * lb
    BY <1>1
  <2> QED BY <2>1, <2>2, <2>3, <2>4
<1>5. ASSUME NEW i \in 1 .. ls
      PROVE  u[i] = s[i]
  <2>1. PICK q \in 0 .. la - 1, r \in 0 .. ByteBits - 1 :
          i = ByteBits * q + r + 1
    <3> HIDE WordsAssumption
    <3>1. HasPlace(i, la)
      BY <1>1, <1>4, PlaceIs
    <3> QED BY <3>1 DEF HasPlace
  <2>2. q \in 0 .. Len(c) - 1
    BY <1>1
  <2>3. s[ByteBits * q + r + 1] = a[q + 1][ByteBits - 1 - r]
    BY <1>2, <1>3 DEF AreBits
  <2>4. u[ByteBits * q + r + 1] = c[q + 1][ByteBits - 1 - r]
    BY <1>2, <2>2 DEF AreBits
  <2>5. c[q + 1] = a[q + 1]
    BY <1>1
  <2> QED BY <2>1, <2>3, <2>4, <2>5
<1>6. ASSUME NEW i \in 1 .. lt
      PROVE  u[ls + i] = t[i]
  <2>1. PICK q \in 0 .. lb - 1, r \in 0 .. ByteBits - 1 :
          i = ByteBits * q + r + 1
    <3> HIDE WordsAssumption
    <3>1. HasPlace(i, lb)
      BY <1>1, <1>4, PlaceIs
    <3> QED BY <3>1 DEF HasPlace
  <2> DEFINE k == la + q
  <2>2. k \in 0 .. Len(c) - 1 /\ k \in Nat /\ q \in Nat /\ r \in Nat
    BY <1>1
  <2>3. c[k + 1] = b[q + 1]
    BY <1>1
  <2>4. ByteBits * k + r + 1 = ls + i
    <3> DEFINE x == ByteBits * la
               y == ByteBits * q
    <3>1. ByteBits * k = x + y
      BY <1>1, <2>2
    <3>2. x \in Nat /\ y \in Nat /\ r \in Nat
      BY <1>1, <2>2
    <3>3. ls = x /\ i = y + r + 1
      BY <1>4, <2>1
    <3> HIDE DEF x, y, k
    <3> HIDE WordsAssumption
    <3> QED BY <3>1, <3>2, <3>3
  <2> HIDE DEF k
  <2>5. t[ByteBits * q + r + 1] = b[q + 1][ByteBits - 1 - r]
    BY <1>2, <1>3 DEF AreBits
  <2>6. u[ByteBits * k + r + 1] = c[k + 1][ByteBits - 1 - r]
    BY <1>2, <2>2 DEF AreBits
  <2> QED BY <2>1, <2>3, <2>4, <2>5, <2>6
<1>7. Begins(s, u) /\ Ends(t, u, Len(s))
  BY <1>3, <1>5, <1>6 DEF Begins, Ends
<1>8. u = s \o t
  BY <1>2, <1>3, <1>4, <1>7, ConcatenationIs
<1> QED BY <1>8 DEF s, t, u, c

(* FlushBits writes the bits that count and zeros up to a whole byte. *)
LEMMA FlushedIs ==
  ASSUME NEW x \in Words, NEW count \in 0 .. WordBits
  PROVE  /\ Flushed(x, count) \in Seq(Bytes)
         /\ ByteBits * Len(Flushed(x, count)) = count + Padding(count)
         /\ Bits(Flushed(x, count)) =
              LowBits(x, count) \o LowBits(Zero, Padding(count))
<1> USE WordsAssumption
<1> DEFINE pad == Padding(count)
           want == InBytes(count)
           y == ShiftLeft(x, pad)
           f == Flushed(x, count)
           byte(i) == Byte(ShiftRight(y, (want - i) * ByteBits))
           m == count + pad
<1>1. /\ pad \in Nat /\ pad < ByteBits /\ want \in Nat
      /\ ByteBits * want = m
  BY RoundedUp
<1>2. m <= WordBits /\ m \in Nat
  BY <1>1, WordIsWhole
<1>3. f = [i \in 1 .. want |-> byte(i)]
  BY DEF Flushed, Padding, InBytes
<1>4. y \in Words
  BY <1>1, WordOperations
<1> HIDE DEF pad, want, y, f, m
<1>5. ASSUME NEW i \in 1 .. want
      PROVE  byte(i) \in Bytes
  <2>1. want - i \in Nat /\ (want - i) * ByteBits \in Nat
    BY <1>1
  <2> QED BY <1>4, <2>1, WordOperations
<1>6. f \in Seq(Bytes) /\ Len(f) = want /\ \A i \in 1 .. want : f[i] = byte(i)
  <2> HIDE DEF byte
  <2> QED BY <1>1, <1>3, <1>5
<1>7. ASSUME NEW q \in 0 .. want - 1, NEW r \in 0 .. ByteBits - 1
      PROVE  f[q + 1][ByteBits - 1 - r] = y[m - (ByteBits * q + r + 1)]
  <2> DEFINE d == want - (q + 1)
             j == ByteBits - 1 - r
  <2>1. d \in Nat /\ q \in Nat /\ r \in Nat /\ want = q + 1 + d
    BY <1>1
  <2>2. f[q + 1] = Byte(ShiftRight(y, d * ByteBits))
    <3>1. q + 1 \in 1 .. want /\ f[q + 1] = byte(q + 1)
      BY <1>1, <1>6
    <3> QED BY <3>1
  <2>3. j \in Places /\ j < ByteBits /\ j \in Nat
    BY WordIsWhole DEF Places
  <2>4. /\ d * ByteBits + j = m - (ByteBits * q + r + 1)
        /\ j + d * ByteBits = d * ByteBits + j
        /\ d * ByteBits + j < WordBits
    <3>1. ByteBits * (q + 1 + d) = ByteBits * q + ByteBits + d * ByteBits
      BY <2>1
    <3>2. d * ByteBits \in Nat /\ ByteBits * q \in Nat
      BY <2>1
    <3> HIDE DEF d
    <3> QED BY <1>1, <1>2, <2>1, <3>1, <3>2
  <2> DEFINE e == d * ByteBits
  <2>5. ShiftRight(y, e)[j] = y[j + e]
    <3>1. j + e < WordBits
      BY <2>4
    <3> HIDE DEF e, j
    <3> QED BY <2>3, <3>1 DEF ShiftRight
  <2>6. Byte(ShiftRight(y, e))[j] = ShiftRight(y, e)[j]
    <3> HIDE DEF e, j
    <3> QED BY <2>3 DEF Byte
  <2> QED BY <2>2, <2>4, <2>5, <2>6
<1>8. Bits(f) = LowBits(y, m)
  <2> DEFINE s == Bits(f)
             t == LowBits(y, m)
  <2>1. m \in 0 .. WordBits /\ m = ByteBits * want
    BY <1>1, <1>2
  <2>2. s \in Seq({0, 1}) /\ Len(s) = ByteBits * Len(f) /\ AreBits(s, f)
    BY <1>6, BitsIs
  <2>3. /\ t \in Seq({0, 1}) /\ Len(t) = m
        /\ \A i \in 1 .. m : t[i] = y[m - i]
    BY <1>4, <2>1, LowBitsIs
  <2> HIDE DEF s, t
  <2>4. Len(s) = m
    BY <1>6, <2>1, <2>2
  <2>5. ASSUME NEW i \in 1 .. m
        PROVE  s[i] = t[i]
    <3>1. PICK q \in 0 .. want - 1, r \in 0 .. ByteBits - 1 :
            i = ByteBits * q + r + 1
      <4> HIDE WordsAssumption
      <4>1. HasPlace(i, want)
        BY <1>1, <2>1, PlaceIs
      <4> QED BY <4>1 DEF HasPlace
    <3>2. q \in 0 .. Len(f) - 1
      BY <1>6
    <3>3. s[ByteBits * q + r + 1] = f[q + 1][ByteBits - 1 - r]
      BY <2>2, <3>2 DEF AreBits
    <3>4. f[q + 1][ByteBits - 1 - r] = y[m - (ByteBits * q + r + 1)]
      BY <1>7
    <3>5. t[i] = y[m - i]
      BY <2>3
    <3> QED BY <3>1, <3>3, <3>4, <3>5
  <2>6. s = t
    BY <2>2, <2>3, <2>4, <2>5, SameSequence
  <2> QED BY <2>6 DEF s, t
<1>9. LowBits(y, m) = LowBits(x, count) \o LowBits(Zero, pad)
  <2>1. count \in Nat
    OBVIOUS
  <2> QED BY <1>1, <1>2, <2>1, ShiftedIs DEF y, m
<1>10. Len(f) = want
  BY <1>6
<1> QED BY <1>1, <1>6, <1>8, <1>9, <1>10 DEF f, pad, m

(***************************************************************************)
(* The writer.                                                             *)
(***************************************************************************)
LEMMA WriterStarts == WriterInit => OutputIsExact
<1> SUFFICES ASSUME WriterInit PROVE OutputIsExact
  OBVIOUS
<1> USE WordsAssumption DEF WriterInit
<1>1. WriterTypeOK
  <2>1. 0 \in 0 .. WordBits /\ Zero \in Words
    BY WordOperations
  <2>2. <<>> \in Seq(Bytes) /\ <<>> \in Seq({0, 1})
    OBVIOUS
  <2> QED BY <2>1, <2>2 DEF WriterTypeOK
<1>2. Len(<<>>) = 0 /\ ByteBits * 0 + 0 = 0 /\ ByteBits * 0 = 0
  OBVIOUS
<1>3. Bits(out) \o LowBits(reg, n) = sent
  <2>1. Bits(<<>>) \in Seq({0, 1}) /\ Len(Bits(<<>>)) = 0
    <3>1. <<>> \in Seq(Bytes)
      OBVIOUS
    <3>2. Bits(<<>>) \in Seq({0, 1}) /\ Len(Bits(<<>>)) = ByteBits * Len(<<>>)
      BY <3>1, BitsIs
    <3> QED BY <1>2, <3>2
  <2>2. LowBits(Zero, 0) \in Seq({0, 1}) /\ Len(LowBits(Zero, 0)) = 0
    BY WordOperations, LowBitsIs
  <2>3. \A s \in Seq({0, 1}) : Len(s) = 0 => s = <<>>
    OBVIOUS
  <2>4. Bits(<<>>) = <<>> /\ LowBits(Zero, 0) = <<>>
    BY <2>1, <2>2, <2>3
  <2>5. <<>> \o <<>> = <<>>
    OBVIOUS
  <2> QED BY <2>4, <2>5
<1> QED BY <1>1, <1>2, <1>3 DEF OutputIsExact

(* A write that fits. *)
LEMMA WriteWholeKeeps ==
  ASSUME OutputIsExact, NEW length \in 1 .. WordBits, NEW value \in Words,
         FitsInto(value, length), sent' = sent \o LowBits(value, length),
         WriteWhole(value, length)
  PROVE  OutputIsExact'
<1> USE WordsAssumption
<1> DEFINE more == LowBits(value, length)
<1>1. WriterTypeOK /\ ByteBits * Len(out) + n = Len(sent)
  BY DEF OutputIsExact
<1>2. more \in Seq({0, 1}) /\ Len(more) = length /\ sent' = sent \o more
  <2>1. length \in 0 .. WordBits
    OBVIOUS
  <2> QED BY <2>1, LowBitsIs
<1>3. /\ n' = n + length /\ n' \in 0 .. WordBits /\ n \in Nat /\ length \in Nat
      /\ out' = out /\ spilled' = spilled
      /\ reg' = PutIn(reg, value, length) /\ n + length <= WordBits
  BY <1>1 DEF WriteWhole, Fits, PutIn, WriterTypeOK
<1>4. reg \in Words /\ sent \in Seq({0, 1}) /\ out \in Seq(Bytes)
  BY <1>1 DEF WriterTypeOK
<1>5. reg' \in Words /\ LowBits(reg', n') = LowBits(reg, n) \o more
  BY <1>3, <1>4, PutInIs
<1> HIDE DEF more
<1>6. sent' \in Seq({0, 1}) /\ Len(sent') = Len(sent) + length
  <2>1. sent \in Seq({0, 1}) /\ more \in Seq({0, 1})
    BY <1>2, <1>4
  <2>2. /\ sent \o more \in Seq({0, 1})
        /\ Len(sent \o more) = Len(sent) + Len(more)
    BY <2>1, Joining
  <2> QED BY <1>2, <2>2
<1>7. WriterTypeOK'
  BY <1>1, <1>3, <1>5, <1>6 DEF WriterTypeOK
<1>8. ByteBits * Len(out') + n' = Len(sent')
  <2>1. ByteBits * Len(out) \in Nat /\ Len(sent) \in Nat
    BY <1>4
  <2>2. ByteBits * Len(out') = ByteBits * Len(out)
    BY <1>3
  <2> DEFINE k == ByteBits * Len(out)
             l == Len(sent)
             nk == ByteBits * Len(out')
             nl == Len(sent')
  <2>3. /\ k \in Nat /\ l \in Nat /\ k + n = l
        /\ nk = k /\ nl = l + length
    BY <1>1, <1>6, <2>1, <2>2
  <2> HIDE DEF k, l, nk, nl
  <2>4. nk + n' = nl
    BY <1>3, <2>3
  <2> QED BY <2>4 DEF nk, nl
<1>9. ASSUME ~spilled'
      PROVE  Bits(out') \o LowBits(reg', n') = sent'
  <2>1. Bits(out) \o LowBits(reg, n) = sent
    BY <1>3, <1>9 DEF OutputIsExact
  <2>2. Bits(out) \in Seq({0, 1}) /\ LowBits(reg, n) \in Seq({0, 1})
    BY <1>3, <1>4, BitsIs, LowBitsIs
  <2>3. Bits(out) \o (LowBits(reg, n) \o more) = sent \o more
    <3>1. (Bits(out) \o LowBits(reg, n)) \o more
            = Bits(out) \o (LowBits(reg, n) \o more)
      BY <1>2, <2>2, Regrouped
    <3> QED BY <2>1, <3>1
  <2> QED BY <1>2, <1>3, <1>5, <2>3
<1> QED BY <1>7, <1>8, <1>9 DEF OutputIsExact

(* A write that is split over two words: the bits are counted. *)
LEMMA WriteSplitKeeps ==
  ASSUME OutputIsExact, NEW length \in 1 .. WordBits, NEW value \in Words,
         sent' = sent \o LowBits(value, length), WriteSplit(value, length)
  PROVE  OutputIsExact'
<1> USE WordsAssumption
<1> DEFINE more == LowBits(value, length)
           move == WordBits - n
           mask == ShiftRight(value, move)
           full == Or(ShiftLeft(reg, move), mask)
           rest == length - move
           flushed == Flushed(full, WordBits)
<1>1. WriterTypeOK /\ ByteBits * Len(out) + n = Len(sent)
  BY DEF OutputIsExact
<1>2. more \in Seq({0, 1}) /\ Len(more) = length /\ sent' = sent \o more
  <2>1. length \in 0 .. WordBits
    OBVIOUS
  <2> QED BY <2>1, LowBitsIs
<1>3. reg \in Words /\ sent \in Seq({0, 1}) /\ out \in Seq(Bytes)
      /\ n \in 0 .. WordBits
  BY <1>1 DEF WriterTypeOK
<1>4. /\ out' = out \o flushed
      /\ reg' = Or(ShiftLeft(full, rest), Xor(value, ShiftLeft(mask, move)))
      /\ n' = rest /\ spilled' = TRUE /\ ~(n + length <= WordBits)
  BY DEF WriteSplit, Fits
<1>5. move \in Nat /\ rest \in Nat /\ rest \in 0 .. WordBits
  BY <1>3, <1>4
<1> HIDE DEF more
<1>6. full \in Words /\ reg' \in Words
  <2>1. mask \in Words /\ ShiftLeft(reg, move) \in Words
    BY <1>3, <1>5, WordOperations
  <2> HIDE DEF mask
  <2>2. full \in Words
    BY <2>1, WordOperations
  <2>3. /\ ShiftLeft(full, rest) \in Words
        /\ Xor(value, ShiftLeft(mask, move)) \in Words
    <3> HIDE DEF full, rest, move
    <3> QED BY <1>5, <2>1, <2>2, WordOperations
  <2> QED BY <1>4, <2>2, <2>3, WordOperations DEF mask
<1>7. flushed \in Seq(Bytes) /\ ByteBits * Len(flushed) = WordBits
  <2> HIDE DEF full
  <2>1. WordBits \in 0 .. WordBits
    OBVIOUS
  <2>2. /\ flushed \in Seq(Bytes)
        /\ ByteBits * Len(flushed) = WordBits + Padding(WordBits)
    BY <1>6, <2>1, FlushedIs
  <2> QED BY <2>2, WordIsWhole
<1> HIDE DEF flushed
<1>8. sent' \in Seq({0, 1}) /\ Len(sent') = Len(sent) + length
  <2>1. sent \in Seq({0, 1}) /\ more \in Seq({0, 1})
    BY <1>2, <1>3
  <2>2. /\ sent \o more \in Seq({0, 1})
        /\ Len(sent \o more) = Len(sent) + Len(more)
    BY <2>1, Joining
  <2> QED BY <1>2, <2>2
<1>9. out' \in Seq(Bytes) /\ Len(out') = Len(out) + Len(flushed)
  BY <1>3, <1>4, <1>7
<1>10. WriterTypeOK'
  BY <1>4, <1>5, <1>6, <1>8, <1>9 DEF WriterTypeOK
<1>11. ByteBits * Len(out') + n' = Len(sent')
  <2>1. /\ ByteBits * Len(out) \in Nat /\ Len(sent) \in Nat
        /\ Len(out) \in Nat /\ Len(flushed) \in Nat
    BY <1>3, <1>7
  <2>2. ByteBits * (Len(out) + Len(flushed))
          = ByteBits * Len(out) + ByteBits * Len(flushed)
    BY <2>1
  <2>3. ByteBits * Len(out') = ByteBits * Len(out) + WordBits
    BY <1>7, <1>9, <2>2
  <2> DEFINE k == ByteBits * Len(out)
             l == Len(sent)
             nk == ByteBits * Len(out')
             nl == Len(sent')
  <2>4. /\ k \in Nat /\ l \in Nat /\ k + n = l
        /\ nk = k + WordBits /\ nl = l + length
        /\ n' = length - (WordBits - n)
    BY <1>1, <1>4, <1>8, <2>1, <2>3
  <2> HIDE DEF k, l, nk, nl, rest
  <2>5. nk + n' = nl
    BY <1>3, <2>4
  <2> QED BY <2>5 DEF nk, nl
<1> QED BY <1>4, <1>10, <1>11 DEF OutputIsExact

(* FlushBits empties the register. *)
LEMMA FlushKeeps ==
  ASSUME OutputIsExact, FlushBits
  PROVE  OutputIsExact'
<1> USE WordsAssumption
<1> DEFINE pad == Padding(n)
           zeros == LowBits(Zero, pad)
           flushed == Flushed(reg, n)
<1>1. WriterTypeOK /\ ByteBits * Len(out) + n = Len(sent)
  BY DEF OutputIsExact
<1>2. /\ reg \in Words /\ sent \in Seq({0, 1}) /\ out \in Seq(Bytes)
      /\ n \in 0 .. WordBits /\ n \in Nat
  BY <1>1 DEF WriterTypeOK
<1>3. /\ out' = out \o flushed /\ sent' = sent \o zeros
      /\ n' = 0 /\ reg' = reg /\ spilled' = spilled
  BY DEF FlushBits, Padding
<1>4. pad \in 0 .. ByteBits - 1 /\ pad \in 0 .. WordBits
  <2>1. pad \in 0 .. ByteBits - 1
    BY <1>2, RoundedUp
  <2>2. ByteBits <= WordBits
    BY WordIsWhole
  <2> HIDE DEF pad
  <2> QED BY <2>1, <2>2
<1> HIDE DEF pad
<1>5. zeros \in Seq({0, 1}) /\ Len(zeros) = pad
  BY <1>4, WordOperations, LowBitsIs
<1>6. /\ flushed \in Seq(Bytes) /\ ByteBits * Len(flushed) = n + pad
      /\ Bits(flushed) = LowBits(reg, n) \o zeros
  BY <1>2, FlushedIs DEF pad
<1> HIDE DEF zeros, flushed
<1>7. /\ sent' \in Seq({0, 1}) /\ Len(sent') = Len(sent) + pad
      /\ out' \in Seq(Bytes) /\ Len(out') = Len(out) + Len(flushed)
  <2>1. sent \o zeros \in Seq({0, 1}) /\ Len(sent \o zeros) = Len(sent) + pad
    BY <1>2, <1>5, Joining
  <2>2. /\ out \o flushed \in Seq(Bytes)
        /\ Len(out \o flushed) = Len(out) + Len(flushed)
    BY <1>2, <1>6, Joining
  <2> QED BY <1>3, <2>1, <2>2
<1>8. WriterTypeOK'
  BY <1>1, <1>2, <1>3, <1>7 DEF WriterTypeOK
<1>9. ByteBits * Len(out') + n' = Len(sent')
  <2>1. Len(out) \in Nat /\ Len(flushed) \in Nat /\ Len(sent) \in Nat
    BY <1>2, <1>6
  <2>2. ByteBits * (Len(out) + Len(flushed))
          = ByteBits * Len(out) + ByteBits * Len(flushed)
    BY <2>1
  <2> DEFINE k == ByteBits * Len(out)
             l == Len(sent)
             nk == ByteBits * Len(out')
             nl == Len(sent')
  <2>3. /\ k \in Nat /\ l \in Nat /\ k + n = l
        /\ nk = k + (n + pad) /\ nl = l + pad
    BY <1>1, <1>6, <1>7, <2>1, <2>2
  <2> HIDE DEF k, l, nk, nl
  <2>4. nk + n' = nl
    BY <1>2, <1>3, <1>4, <2>3
  <2> QED BY <2>4 DEF nk, nl
<1>10. ASSUME ~spilled'
       PROVE  Bits(out') \o LowBits(reg', n') = sent'
  <2>1. Bits(out) \o LowBits(reg, n) = sent
    BY <1>3, <1>10 DEF OutputIsExact
  <2>2. Bits(out) \in Seq({0, 1}) /\ LowBits(reg, n) \in Seq({0, 1})
    BY <1>2, BitsIs, LowBitsIs
  <2>3. Bits(out') = Bits(out) \o (LowBits(reg, n) \o zeros)
    BY <1>2, <1>3, <1>6, BitsJoin
  <2>4. (Bits(out) \o LowBits(reg, n)) \o zeros
          = Bits(out) \o (LowBits(reg, n) \o zeros)
    <3> DEFINE s == Bits(out)
               t == LowBits(reg, n)
    <3>1. s \in Seq({0, 1}) /\ t \in Seq({0, 1}) /\ zeros \in Seq({0, 1})
      BY <1>5, <2>2
    <3> HIDE DEF s, t
    <3>2. (s \o t) \o zeros = s \o (t \o zeros)
      BY <3>1, Regrouped
    <3> QED BY <3>2 DEF s, t
  <2>5. Bits(out') = sent'
    BY <1>3, <2>1, <2>3, <2>4
  <2>6. LowBits(reg', n') = <<>>
    <3>1. LowBits(reg, 0) \in Seq({0, 1}) /\ Len(LowBits(reg, 0)) = 0
      BY <1>2, LowBitsIs
    <3>2. \A s \in Seq({0, 1}) : Len(s) = 0 => s = <<>>
      OBVIOUS
    <3>3. LowBits(reg, 0) = <<>>
      BY <3>1, <3>2
    <3> QED BY <1>3, <3>3
  <2>7. sent' \o <<>> = sent'
    <3>1. \A s \in Seq({0, 1}) : s \o <<>> = s
      OBVIOUS
    <3> QED BY <1>7, <3>1
  <2> QED BY <2>5, <2>6, <2>7
<1> QED BY <1>8, <1>9, <1>10 DEF OutputIsExact

(* No bit is added or lost by a writer, whatever the widths of its writes    *)
(* and whenever the caller flushes; as long as every write fits into the     *)
(* register, the bits come out as they were written (bits.go:95-162).        *)
THEOREM OutputIsExactCorrect == WriterSpec => []OutputIsExact
<1>1. WriterInit => OutputIsExact
  BY WriterStarts
<1>2. OutputIsExact /\ [WriterNext]_wvars => OutputIsExact'
  <2> SUFFICES ASSUME OutputIsExact, [WriterNext]_wvars PROVE OutputIsExact'
    OBVIOUS
  <2>1. CASE WriteBits64
    <3>1. PICK length \in 1 .. WordBits, value \in Words :
            /\ FitsInto(value, length)
            /\ sent' = sent \o LowBits(value, length)
            /\ WriteWhole(value, length) \/ WriteSplit(value, length)
      BY <2>1 DEF WriteBits64
    <3> QED BY <3>1, WriteWholeKeeps, WriteSplitKeeps
  <2>2. CASE FlushBits
    BY <2>2, FlushKeeps
  <2>3. CASE UNCHANGED wvars
    BY <2>3 DEF wvars, OutputIsExact, WriterTypeOK
  <2> QED BY <2>1, <2>2, <2>3 DEF WriterNext
<1> QED BY <1>1, <1>2, PTL DEF WriterSpec

(***************************************************************************)
(* The reader.                                                             *)
(***************************************************************************)
(* The bits of one byte. *)
LEMMA BitsOfOne ==
  ASSUME NEW b \in Bytes
  PROVE  Bits(<<b>>) = LowBits(b, ByteBits)
<1> USE WordsAssumption
<1> DEFINE c == <<b>>
           s == Bits(c)
           t == LowBits(b, ByteBits)
<1>1. c \in Seq(Bytes) /\ Len(c) = 1 /\ c[1] = b
  OBVIOUS
<1> HIDE DEF c
<1>2. s \in Seq({0, 1}) /\ Len(s) = ByteBits * Len(c) /\ AreBits(s, c)
  BY <1>1, BitsIs
<1>3. ByteBits \in 0 .. WordBits /\ b \in Words
  BY WordIsWhole DEF Bytes
<1>4. /\ t \in Seq({0, 1}) /\ Len(t) = ByteBits
      /\ \A i \in 1 .. ByteBits : t[i] = b[ByteBits - i]
  BY <1>3, LowBitsIs
<1> HIDE DEF s, t
<1>5. Len(s) = ByteBits
  <2>1. ByteBits * 1 = ByteBits
    OBVIOUS
  <2> QED BY <1>1, <1>2, <2>1
<1>6. ASSUME NEW i \in 1 .. ByteBits
      PROVE  s[i] = t[i]
  <2> DEFINE r == i - 1
  <2>1. r \in 0 .. ByteBits - 1 /\ 0 \in 0 .. Len(c) - 1
    BY <1>1
  <2>2. ByteBits * 0 + r + 1 = i /\ ByteBits - 1 - r = ByteBits - i
    OBVIOUS
  <2> HIDE DEF r
  <2>3. s[ByteBits * 0 + r + 1] = c[0 + 1][ByteBits - 1 - r]
    BY <1>2, <2>1 DEF AreBits
  <2>4. c[0 + 1] = b
    BY <1>1
  <2> QED BY <1>4, <2>2, <2>3, <2>4
<1>7. s = t
  BY <1>2, <1>4, <1>5, <1>6, SameSequence
<1> QED BY <1>7 DEF s, t, c

(* How many bits there are after the bytes wanted have been read. *)
Have(length) == rn + ByteBits * Want(length)

(* What a Read fetches is less than a byte more than it needs.               *)
LEMMA WantIs ==
  ASSUME rn \in 0 .. ByteBits - 1, NEW length \in 1 .. WordBits
  PROVE  /\ Want(length) \in Nat /\ Have(length) \in Nat
         /\ Have(length) - length \in 0 .. ByteBits - 1
         /\ rn = 0 => Have(length) <= WordBits
<1> USE WordsAssumption
<1>1. CASE rn < length
  <2> DEFINE a == length - rn
             k == InBytes(a)
  <2>1. a \in Nat
    BY <1>1
  <2>2. Want(length) = k
    BY <1>1 DEF Want, InBytes
  <2> HIDE DEF a
  <2>3. /\ k \in Nat /\ Padding(a) \in 0 .. ByteBits - 1
        /\ ByteBits * k = a + Padding(a)
    BY <2>1, RoundedUp
  <2> HIDE DEF k
  <2>4. Have(length) = length + Padding(a)
    <3>1. Have(length) = rn + (a + Padding(a))
      BY <2>2, <2>3 DEF Have
    <3> QED BY <2>1, <2>3, <3>1 DEF a
  <2>5. rn = 0 => Have(length) <= WordBits
    <3> SUFFICES ASSUME rn = 0 PROVE Have(length) <= WordBits
      OBVIOUS
    <3>1. a = length /\ length \in 0 .. WordBits
      BY DEF a
    <3> QED BY <2>4, <3>1, WordIsWhole
  <2>6. Have(length) \in Nat /\ Have(length) - length \in 0 .. ByteBits - 1
    BY <2>3, <2>4
  <2> QED BY <2>2, <2>3, <2>5, <2>6
<1>2. CASE ~(rn < length)
  <2>1. Want(length) = 0
    BY <1>2 DEF Want
  <2>2. Have(length) = rn
    BY <2>1 DEF Have
  <2> QED BY <1>2, <2>1, <2>2
<1> QED BY <1>1, <1>2

(* The register while the bytes are shifted in, one at a time. *)
IsFilling(f, count) ==
  /\ f[0] = rreg
  /\ \A i \in 1 .. count : f[i] = PutIn(f[i - 1], supply[at + i], ByteBits)
  /\ \A i \in 0 .. count : f[i] \in Words

(* Filled is a recursion over the bytes that are fetched.                    *)
LEMMA FilledSteps ==
  ASSUME ReaderTypeOK, NEW count \in Nat, at + count <= Len(supply)
  PROVE  \E f : IsFilling(f, count) /\ Filled(count) = f[count]
<1> USE WordsAssumption
<1>1. /\ rreg \in Words /\ ByteBits \in Nat
      /\ \A i \in 1 .. count : supply[at + i] \in Words
  BY DEF ReaderTypeOK, Bytes
<1> DEFINE step == [p \in (1 .. count) \X Words |->
                      PutIn(p[2], supply[at + p[1]], ByteBits)]
<1>2. step \in [(1 .. count) \X Words -> Words]
  BY <1>1, WordOperations DEF PutIn
<1>3. PICK f : GoesBy(f, Words, rreg, step, count)
  <2> HIDE DEF step
  <2> QED BY <1>1, <1>2, RecursionExists
<1>4. /\ f \in [0 .. count -> Words] /\ f[0] = rreg
      /\ \A i \in 1 .. count : f[i] = PutIn(f[i - 1], supply[at + i], ByteBits)
  <2>1. f \in [0 .. count -> Words] /\ f[0] = rreg
    BY <1>3 DEF GoesBy
  <2>2. ASSUME NEW i \in 1 .. count
        PROVE  f[i] = PutIn(f[i - 1], supply[at + i], ByteBits)
    <3>1. f[i - 1] \in Words
      BY <2>1
    <3>2. f[i] = step[<<i, f[i - 1]>>]
      BY <1>3 DEF GoesBy
    <3> QED BY <3>1, <3>2
  <2> QED BY <2>1, <2>2
<1> HIDE DEF step
<1>5. f = [i \in 0 .. count |->
             IF i = 0 THEN rreg
             ELSE Or(ShiftLeft(f[i - 1], ByteBits), supply[at + i])]
  BY <1>4 DEF PutIn
<1> DEFINE g == CHOOSE h : h = [i \in 0 .. count |->
             IF i = 0 THEN rreg
             ELSE Or(ShiftLeft(h[i - 1], ByteBits), supply[at + i])]
<1>6. g = [i \in 0 .. count |->
             IF i = 0 THEN rreg
             ELSE Or(ShiftLeft(g[i - 1], ByteBits), supply[at + i])]
  BY <1>5
<1>7. Filled(count) = g[count]
  BY DEF Filled
<1> HIDE DEF g
<1>8. /\ g[0] = rreg
      /\ \A i \in 1 .. count : g[i] = PutIn(g[i - 1], supply[at + i], ByteBits)
  BY <1>6 DEF PutIn
<1> DEFINE S == {i \in Nat : g[i] \in Words}
<1>9. \A i \in 0 .. count : i \in S
  <2>1. 0 \in S
    BY <1>1, <1>8
  <2>2. ASSUME NEW i \in 1 .. count, i - 1 \in S
        PROVE  i \in S
    <3>1. g[i - 1] \in Words /\ supply[at + i] \in Words /\ i \in Nat
      BY <1>1, <2>2
    <3>2. PutIn(g[i - 1], supply[at + i], ByteBits) \in Words
      BY <1>1, <3>1, WordOperations DEF PutIn
    <3> QED BY <1>8, <3>1, <3>2
  <2> HIDE DEF S
  <2> QED BY <2>1, <2>2, InductionUpTo
<1> QED BY <1>7, <1>8, <1>9 DEF IsFilling

(* What the caller has and what is in the register are the bits read. *)
IsRead(x, count, read) ==
  /\ FitsInto(x, count)
  /\ got \o LowBits(x, count) = Bits(SubSeq(supply, 1, read))

(* As long as the word holds the bytes shifted in, so does the register. *)
LEMMA FilledIs ==
  ASSUME ReaderTypeOK, IsRead(rreg, rn, at), NEW count \in Nat,
         at + count <= Len(supply), rn + ByteBits * count <= WordBits
  PROVE  IsRead(Filled(count), rn + ByteBits * count, at + count)
<1> USE WordsAssumption
<1>1. /\ rn \in Nat /\ at \in Nat /\ got \in Seq({0, 1})
      /\ supply \in Seq(Bytes)
  BY DEF ReaderTypeOK
<1>2. PICK f : IsFilling(f, count) /\ Filled(count) = f[count]
  BY FilledSteps
<1> DEFINE width(i) == rn + ByteBits * i
           S == {i \in 0 .. count : IsRead(f[i], width(i), at + i)}
<1>3. 0 \in S
  <2>1. width(0) = rn /\ at + 0 = at
    BY <1>1
  <2> QED BY <1>2, <2>1 DEF IsFilling
<1>4. ASSUME NEW i \in 1 .. count, i - 1 \in S
      PROVE  i \in S
  <2> DEFINE m == width(i - 1)
             b == supply[at + i]
             x == f[i - 1]
             before == SubSeq(supply, 1, at + (i - 1))
  <2>1. /\ m \in Nat /\ width(i) = m + ByteBits /\ m + ByteBits <= WordBits
    <3>1. i - 1 \in Nat /\ ByteBits * (i - 1) \in Nat
      OBVIOUS
    <3>2. ByteBits * i = ByteBits * (i - 1) + ByteBits
      OBVIOUS
    <3>3. PICK d \in Nat : count = i + d
      <4>1. count - i \in Nat /\ count = i + (count - i)
        OBVIOUS
      <4> QED BY <4>1
    <3>4. /\ ByteBits * count = ByteBits * i + ByteBits * d
          /\ ByteBits * d \in Nat
      BY <3>3
    <3> QED BY <1>1, <3>1, <3>2, <3>4
  <2>2. b \in Bytes /\ b \in Words /\ FitsInto(b, ByteBits)
    <3>1. at + i \in 1 .. Len(supply)
      BY <1>1
    <3> QED BY <1>1, <3>1 DEF Bytes
  <2>3. x \in Words /\ f[i] = PutIn(x, b, ByteBits)
    BY <1>2 DEF IsFilling
  <2>4. FitsInto(x, m) /\ got \o LowBits(x, m) = Bits(before)
    BY <1>4 DEF IsRead
  <2>5. SubSeq(supply, 1, at + i) = before \o <<b>> /\ before \in Seq(Bytes)
    <3>1. at + i \in 1 .. Len(supply) /\ at + (i - 1) = (at + i) - 1
      BY <1>1
    <3> DEFINE k == at + i
    <3> HIDE DEF k
    <3>2. k \in 1 .. Len(supply)
      BY <3>1 DEF k
    <3>3. /\ SubSeq(supply, 1, k) = SubSeq(supply, 1, k - 1) \o <<supply[k]>>
          /\ SubSeq(supply, 1, k - 1) \in Seq(Bytes)
      BY <1>1, <3>2
    <3> QED BY <3>1, <3>3 DEF k
  <2> HIDE DEF m, b, x, before, width
  <2>6. /\ FitsInto(f[i], m + ByteBits)
        /\ LowBits(f[i], m + ByteBits) = LowBits(x, m) \o LowBits(b, ByteBits)
    BY <2>1, <2>2, <2>3, <2>4, PutInIs
  <2>7. Bits(before \o <<b>>) = Bits(before) \o LowBits(b, ByteBits)
    <3>1. <<b>> \in Seq(Bytes)
      BY <2>2
    <3> QED BY <2>2, <2>5, <3>1, BitsJoin, BitsOfOne
  <2>8. (got \o LowBits(x, m)) \o LowBits(b, ByteBits)
          = got \o (LowBits(x, m) \o LowBits(b, ByteBits))
    <3> DEFINE t == LowBits(x, m)
               u == LowBits(b, ByteBits)
    <3>1. m \in 0 .. WordBits /\ ByteBits \in 0 .. WordBits
      BY <2>1
    <3>2. t \in Seq({0, 1}) /\ u \in Seq({0, 1})
      BY <2>2, <2>3, <3>1, LowBitsIs
    <3> HIDE DEF t, u
    <3>3. (got \o t) \o u = got \o (t \o u)
      BY <1>1, <3>2, Regrouped
    <3> QED BY <3>3 DEF t, u
  <2>9. got \o LowBits(f[i], width(i)) = Bits(SubSeq(supply, 1, at + i))
    BY <2>1, <2>4, <2>5, <2>6, <2>7, <2>8
  <2> QED BY <2>1, <2>6, <2>9 DEF IsRead
<1>5. \A i \in 0 .. count : i \in S
  <2> HIDE DEF S
  <2> QED BY <1>3, <1>4, InductionUpTo
<1>6. IsRead(f[count], width(count), at + count)
  <2>1. count \in S
    BY <1>5
  <2> QED BY <2>1
<1> QED BY <1>2, <1>6

(* Taking the bits off the high end of the register. *)
Taken(x, length, count) == ShiftRight(x, count - length)

Left(x, length, count) ==
  Xor(x, ShiftLeft(Taken(x, length, count), count - length))

(* What Read takes from the register, and what it leaves there.              *)
LEMMA TakeIs ==
  ASSUME NEW x \in Words, NEW count \in 0 .. WordBits,
         NEW length \in 0 .. count, FitsInto(x, count)
  PROVE  /\ FitsInto(Left(x, length, count), count - length)
         /\ LowBits(x, count) =
              LowBits(Taken(x, length, count), length)
                \o LowBits(Left(x, length, count), count - length)
<1> USE WordsAssumption
<1> DEFINE rest == count - length
           result == Taken(x, length, count)
           y == Left(x, length, count)
<1>1. rest \in 0 .. WordBits /\ rest \in Nat /\ length \in 0 .. WordBits
      /\ count = length + rest /\ length \in Nat
  OBVIOUS
<1> HIDE DEF rest
<1>2. result = ShiftRight(x, rest) /\ y = Xor(x, ShiftLeft(result, rest))
  BY DEF Left, Taken, rest
<1> HIDE DEF result, y
<1>3. result \in Words /\ y \in Words
  BY <1>1, <1>2, WordOperations
<1>4. \A j \in Places : x[j] \in {0, 1}
  BY DEF Words
<1>5. ASSUME NEW j \in Places
      PROVE  y[j] = IF j < rest THEN x[j] ELSE 0
  <2>1. y[j] = IF x[j] = ShiftLeft(result, rest)[j] THEN 0 ELSE 1
    BY <1>2 DEF Xor
  <2>2. CASE j < rest
    <3>1. ShiftLeft(result, rest)[j] = 0
      BY <2>2 DEF ShiftLeft
    <3> QED BY <1>4, <2>1, <2>2, <3>1
  <2>3. CASE ~(j < rest)
    <3>1. ShiftLeft(result, rest)[j] = result[j - rest]
      BY <2>3 DEF ShiftLeft
    <3>2. j - rest \in Places /\ (j - rest) + rest = j /\ j < WordBits
      BY <1>1, <2>3 DEF Places
    <3>3. result[j - rest] = x[j]
      BY <1>2, <3>2 DEF ShiftRight
    <3> QED BY <2>1, <2>3, <3>1, <3>3
  <2> QED BY <2>2, <2>3
<1>6. FitsInto(y, rest)
  BY <1>1, <1>5 DEF FitsInto, Places
<1> DEFINE s == LowBits(result, length)
           t == LowBits(y, rest)
           u == LowBits(x, count)
<1>7. /\ s \in Seq({0, 1}) /\ t \in Seq({0, 1}) /\ u \in Seq({0, 1})
      /\ Len(s) = length /\ Len(t) = rest /\ Len(u) = count
      /\ \A i \in 1 .. length : s[i] = result[length - i]
      /\ \A i \in 1 .. rest : t[i] = y[rest - i]
      /\ \A i \in 1 .. count : u[i] = x[count - i]
  BY <1>1, <1>3, LowBitsIs
<1> HIDE DEF s, t, u
<1>8. ASSUME NEW i \in 1 .. length
      PROVE  u[i] = s[i]
  <2>1. /\ i \in 1 .. count /\ length - i \in Places
        /\ (length - i) + rest = count - i /\ count - i < WordBits
    BY <1>1 DEF Places
  <2>2. result[length - i] = x[(length - i) + rest]
    BY <1>2, <2>1 DEF ShiftRight
  <2> QED BY <1>7, <2>1, <2>2
<1>9. ASSUME NEW i \in 1 .. rest
      PROVE  u[length + i] = t[i]
  <2>1. /\ length + i \in 1 .. count /\ rest - i \in Places
        /\ count - (length + i) = rest - i /\ rest - i < rest
    BY <1>1 DEF Places
  <2>2. u[length + i] = x[count - (length + i)]
    BY <1>7, <2>1
  <2>3. y[rest - i] = x[rest - i]
    BY <1>5, <2>1
  <2>4. t[i] = y[rest - i]
    BY <1>7
  <2> QED BY <2>1, <2>2, <2>3, <2>4
<1>10. Begins(s, u) /\ Ends(t, u, Len(s))
  BY <1>7, <1>8, <1>9 DEF Begins, Ends
<1>11. Len(u) = Len(s) + Len(t)
  BY <1>1, <1>7
<1>12. u = s \o t
  BY <1>7, <1>10, <1>11, ConcatenationIs
<1> QED BY <1>6, <1>12 DEF rest, result, y, s, t, u

(* A read that gets what it wants. *)
LEMMA ReadKeeps ==
  ASSUME ReadIsExact, ~failed, NEW length \in 1 .. WordBits, ReadBits64(length)
  PROVE  ReadIsExact'
<1> USE WordsAssumption
<1> DEFINE want == Want(length)
           have == Have(length)
           x == Filled(want)
           result == ShiftRight(x, have - length)
           more == LowBits(result, length)
<1>1. ReaderTypeOK
  BY DEF ReadIsExact
<1>2. /\ rn \in 0 .. ByteBits - 1 /\ rn \in Nat /\ rreg \in Words
      /\ at \in Nat /\ got \in Seq({0, 1}) /\ supply \in Seq(Bytes)
  BY <1>1 DEF ReaderTypeOK
<1>3. /\ want \in Nat /\ have \in Nat
      /\ have - length \in 0 .. ByteBits - 1 /\ have = rn + ByteBits * want
  BY <1>2, WantIs DEF Have
<1>4. /\ at + want <= Len(supply) /\ at' = at + want
      /\ crowded' = (crowded \/ have > WordBits)
      /\ supply' = supply /\ failed' = failed
      /\ got' = got \o more
      /\ rreg' = Xor(x, ShiftLeft(result, have - length))
      /\ rn' = have - length
  BY DEF ReadBits64, Take, Have
<1> HIDE DEF want, have
<1>5. x \in Words
  <2>1. PICK f : IsFilling(f, want) /\ Filled(want) = f[want]
    BY <1>1, <1>3, <1>4, FilledSteps
  <2> QED BY <1>3, <2>1 DEF IsFilling
<1> HIDE DEF x
<1>6. result \in Words /\ rreg' \in Words
  <2>1. have - length \in Nat
    BY <1>3
  <2>2. result \in Words
    BY <1>5, <2>1, WordOperations
  <2> HIDE DEF result
  <2>3. ShiftLeft(result, have - length) \in Words
    BY <2>1, <2>2, WordOperations
  <2> QED BY <1>4, <1>5, <2>2, <2>3, WordOperations DEF result
<1>7. more \in Seq({0, 1}) /\ Len(more) = length
  <2>1. length \in 0 .. WordBits
    OBVIOUS
  <2> HIDE DEF result
  <2> QED BY <1>6, <2>1, LowBitsIs
<1> HIDE DEF more
<1>8. got' \in Seq({0, 1}) /\ Len(got') = Len(got) + length
  <2>1. got \o more \in Seq({0, 1}) /\ Len(got \o more) = Len(got) + Len(more)
    BY <1>2, <1>7, Joining
  <2> QED BY <1>4, <1>7, <2>1
<1>9. ReaderTypeOK'
  <2>1. at' \in 0 .. Len(supply')
    BY <1>2, <1>3, <1>4
  <2>2. rn' \in 0 .. ByteBits - 1 /\ supply' \in Seq(Bytes)
    BY <1>2, <1>3, <1>4
  <2> QED BY <1>6, <1>8, <2>1, <2>2 DEF ReaderTypeOK
<1>10. ASSUME ~crowded'
       PROVE  IsRead(rreg, rn, at)'
  <2>1. ~crowded /\ have <= WordBits
    <3>1. ~crowded /\ ~(have > WordBits)
      BY <1>4, <1>10, Zenon
    <3> QED BY <1>3, <3>1
  <2>2. IsRead(rreg, rn, at)
    BY <2>1 DEF ReadIsExact, IsRead
  <2>3. IsRead(x, have, at + want)
    <3>1. rn + ByteBits * want <= WordBits
      BY <1>3, <2>1
    <3> QED BY <1>1, <1>3, <1>4, <2>2, <3>1, FilledIs DEF x
  <2>4. have \in 0 .. WordBits /\ length \in 0 .. have
    BY <1>3, <2>1
  <2>5. /\ FitsInto(rreg', rn')
        /\ LowBits(x, have) = more \o LowBits(rreg', rn')
    <3>1. FitsInto(x, have)
      BY <2>3 DEF IsRead
    <3>2. result = Taken(x, length, have) /\ rreg' = Left(x, length, have)
      BY <1>4 DEF Taken, Left
    <3> HIDE DEF result
    <3> QED BY <1>4, <1>5, <2>4, <3>1, <3>2, TakeIs DEF more
  <2>6. LowBits(rreg', rn') \in Seq({0, 1})
    <3>1. rn' \in 0 .. WordBits
      BY <1>3, <1>4, <2>4
    <3> QED BY <1>6, <3>1, LowBitsIs
  <2>7. (got \o more) \o LowBits(rreg', rn')
          = got \o (more \o LowBits(rreg', rn'))
    <3> DEFINE rest == LowBits(rreg', rn')
    <3>1. got \in Seq({0, 1}) /\ more \in Seq({0, 1}) /\ rest \in Seq({0, 1})
      BY <1>2, <1>7, <2>6
    <3> HIDE DEF rest
    <3>2. (got \o more) \o rest = got \o (more \o rest)
      BY <3>1, Regrouped
    <3> QED BY <3>2 DEF rest
  <2>8. got \o LowBits(x, have) = Bits(SubSeq(supply, 1, at + want))
    BY <2>3 DEF IsRead
  <2>9. got' \o LowBits(rreg', rn') = Bits(SubSeq(supply', 1, at'))
    BY <1>4, <2>5, <2>7, <2>8
  <2> QED BY <2>5, <2>9 DEF IsRead
<1> QED BY <1>9, <1>10 DEF ReadIsExact, IsRead

(* A byte more in the supply, before the first read. *)
LEMMA SupplyKeeps ==
  ASSUME ReadIsExact, SupplyGets
  PROVE  ReadIsExact'
<1> USE WordsAssumption
<1>1. /\ at = 0 /\ at' = at /\ rn' = rn /\ rreg' = rreg /\ got' = got
      /\ crowded' = crowded /\ failed' = failed
  BY DEF SupplyGets
<1>2. supply \in Seq(Bytes) /\ supply' \in Seq(Bytes)
  BY DEF SupplyGets, ReadIsExact, ReaderTypeOK
<1>3. SubSeq(supply', 1, at') = SubSeq(supply, 1, at)
  <2>1. \A s \in Seq(Bytes) : SubSeq(s, 1, 0) = <<>>
    OBVIOUS
  <2> QED BY <1>1, <1>2, <2>1
<1>4. ReaderTypeOK'
  <2>1. 0 \in 0 .. Len(supply')
    BY <1>2
  <2> QED BY <1>1, <1>2, <2>1 DEF ReadIsExact, ReaderTypeOK
<1> QED BY <1>1, <1>3, <1>4 DEF ReadIsExact

(* A new reader has read nothing.                                            *)
LEMMA ReaderStarts == ReaderInit => ReadIsExact
<1> SUFFICES ASSUME ReaderInit PROVE ReadIsExact
  OBVIOUS
<1> USE WordsAssumption
<1>1. /\ rn = 0 /\ rreg = Zero /\ supply = <<>> /\ at = 0 /\ got = <<>>
  BY DEF ReaderInit
<1>2. ReaderTypeOK
  <2>1. 0 \in 0 .. ByteBits - 1 /\ Zero \in Words
    BY WordOperations
  <2>2. <<>> \in Seq(Bytes) /\ <<>> \in Seq({0, 1}) /\ 0 \in 0 .. Len(<<>>)
    OBVIOUS
  <2> QED BY <1>1, <2>1, <2>2 DEF ReaderTypeOK
<1>3. FitsInto(rreg, rn)
  BY <1>1 DEF FitsInto, Zero
<1>4. got \o LowBits(rreg, rn) = Bits(SubSeq(supply, 1, at))
  <2>1. \A s \in Seq({0, 1}) : Len(s) = 0 => s = <<>>
    OBVIOUS
  <2>2. LowBits(Zero, 0) = <<>>
    BY <2>1, WordOperations, LowBitsIs
  <2>3. Bits(<<>>) = <<>>
    <3>1. <<>> \in Seq(Bytes) /\ Len(<<>>) = 0 /\ ByteBits * 0 = 0
      OBVIOUS
    <3>2. Bits(<<>>) \in Seq({0, 1}) /\ Len(Bits(<<>>)) = ByteBits * Len(<<>>)
      BY <3>1, BitsIs
    <3> QED BY <2>1, <3>1, <3>2
  <2>4. SubSeq(<<>>, 1, 0) = <<>> /\ <<>> \o <<>> = <<>>
    OBVIOUS
  <2> QED BY <1>1, <2>2, <2>3, <2>4
<1> QED BY <1>2, <1>3, <1>4 DEF ReadIsExact

(* Every step of the reader keeps ReadIsExact. *)
LEMMA ReaderKeeps == ReadIsExact /\ [ReaderNext]_rvars => ReadIsExact'
<1> SUFFICES ASSUME ReadIsExact, [ReaderNext]_rvars PROVE ReadIsExact'
  OBVIOUS
<1>1. CASE SupplyGets
  BY <1>1, SupplyKeeps
<1>2. ASSUME NEW length \in 1 .. WordBits, ~failed, ReadBits64(length)
      PROVE  ReadIsExact'
  BY <1>2, ReadKeeps
<1>3. ASSUME NEW length \in 1 .. WordBits, ReadRunsShort(length)
      PROVE  ReadIsExact'
  <2>1. failed' = TRUE /\ UNCHANGED <<rn, rreg, supply, got, crowded>>
    BY <1>3 DEF ReadRunsShort
  <2>2. at' \in 0 .. Len(supply)
    <3>1. at \in 0 .. Len(supply) /\ Len(supply) \in Nat
      BY DEF ReadIsExact, ReaderTypeOK
    <3>2. PICK count \in 0 .. Len(supply) - at : at' = at + count
      BY <1>3 DEF ReadRunsShort
    <3> QED BY <3>1, <3>2
  <2> QED BY <2>1, <2>2 DEF ReadIsExact, ReaderTypeOK
<1>4. CASE UNCHANGED rvars
  BY <1>4 DEF rvars, ReadIsExact, ReaderTypeOK
<1> QED BY <1>1, <1>2, <1>3, <1>4 DEF ReaderNext

(* As long as the word holds what a read needs, a reader returns the bits of *)
(* the bytes it has read, in order and each one once, and keeps those that   *)
(* are left, whatever the widths of the reads (bits.go:11-45).               *)
THEOREM ReadIsExactCorrect == ReaderSpec => []ReadIsExact
<1> QED BY ReaderStarts, ReaderKeeps, PTL DEF ReaderSpec

(* The word is too small only for a read of more than WordBits - ByteBits +  *)
(* 1 bits that finds bits left over from the read before (bits.go:32-41).    *)
THEOREM OnlyWideReadsCrowdCorrect == ReaderSpec => OnlyWideReadsCrowd
<1> DEFINE Wide == ~crowded /\ crowded' =>
                     /\ Len(got') - Len(got) > WordBits - ByteBits + 1
                     /\ rn > 0
<1>1. ReadIsExact /\ [ReaderNext]_rvars => [Wide]_rvars
  <2> SUFFICES ASSUME ReadIsExact, [ReaderNext]_rvars, ~crowded, crowded'
               PROVE  /\ Len(got') - Len(got) > WordBits - ByteBits + 1
                      /\ rn > 0
    OBVIOUS
  <2> USE WordsAssumption
  <2>1. PICK length \in 1 .. WordBits : ReadBits64(length)
    BY DEF ReaderNext, SupplyGets, ReadRunsShort, rvars
  <2> DEFINE have == Have(length)
  <2>2. have > WordBits
    BY <2>1 DEF ReadBits64, Have
  <2>3. /\ rn \in 0 .. ByteBits - 1 /\ have \in Nat
        /\ have - length \in 0 .. ByteBits - 1
        /\ rn = 0 => have <= WordBits
    BY WantIs DEF ReadIsExact, ReaderTypeOK
  <2> HIDE DEF have
  <2>4. Len(got') = Len(got) + length
    <3> DEFINE more == LowBits(ShiftRight(Filled(Want(length)),
                                          have - length), length)
    <3>1. got' = got \o more
      BY <2>1 DEF ReadBits64, Take, have, Have
    <3>2. more \in Seq({0, 1}) /\ Len(more) = length
      <4>1. PICK f : /\ IsFilling(f, Want(length))
                     /\ Filled(Want(length)) = f[Want(length)]
        <5>1. Want(length) \in Nat
          BY WantIs DEF ReadIsExact, ReaderTypeOK
        <5>2. at + Want(length) <= Len(supply)
          BY <2>1 DEF ReadBits64
        <5>3. ReaderTypeOK
          BY DEF ReadIsExact
        <5> QED BY <5>1, <5>2, <5>3, FilledSteps
      <4>2. Want(length) \in 0 .. Want(length)
        BY WantIs DEF ReadIsExact, ReaderTypeOK
      <4>3. Filled(Want(length)) \in Words
        BY <4>1, <4>2 DEF IsFilling
      <4>4. have - length \in Nat /\ length \in 0 .. WordBits
        BY <2>3
      <4>5. ShiftRight(Filled(Want(length)), have - length) \in Words
        BY <4>3, <4>4, WordOperations
      <4> QED BY <4>4, <4>5, LowBitsIs
    <3> HIDE DEF more
    <3>3. got \in Seq({0, 1})
      BY DEF ReadIsExact, ReaderTypeOK
    <3>4. Len(got \o more) = Len(got) + Len(more)
      BY <3>2, <3>3, Joining
    <3> QED BY <3>1, <3>2, <3>4
  <2>5. Len(got) \in Nat
    BY DEF ReadIsExact, ReaderTypeOK
  <2> QED BY <2>2, <2>3, <2>4, <2>5
<1> QED BY <1>1, ReaderStarts, ReaderKeeps, PTL
       DEF ReaderSpec, OnlyWideReadsCrowd
(***************************************************************************)
(* Exponential Golomb codes.                                               *)
(***************************************************************************)
(* The zeros that are counted are there, and not too many.                   *)
LEMMA ZerosAre ==
  ASSUME NEW bits
  PROVE  /\ LeadingZeros(bits) \in 0 .. MaxZeros
         /\ \A i \in 1 .. LeadingZeros(bits) : bits[i] = 0
<1> USE GolombCodesAssumption
<1> DEFINE zeros == {z \in 0 .. MaxZeros :
                       \A i \in 1 .. z : i <= Len(bits) /\ bits[i] = 0}
           T == {m \in 0 .. MaxZeros : MaxZeros - m \in zeros}
<1>1. MaxZeros \in T
  <2>1. MaxZeros - MaxZeros = 0 /\ 1 .. 0 = {}
    OBVIOUS
  <2> QED BY <2>1
<1>2. T \in SUBSET Nat /\ T # {}
  <2> HIDE DEF zeros
  <2> QED BY <1>1
<1>3. PICK m \in T : \A k \in T : m <= k
  <2> HIDE DEF T
  <2> QED BY <1>2, SmallestExists
<1>4. ASSUME NEW y \in zeros
      PROVE  y <= MaxZeros - m
  <2>1. y \in 0 .. MaxZeros /\ MaxZeros - y \in 0 .. MaxZeros
    OBVIOUS
  <2>2. MaxZeros - (MaxZeros - y) = y
    BY <2>1
  <2> HIDE DEF zeros
  <2>3. MaxZeros - y \in T
    BY <2>1, <2>2
  <2> QED BY <1>3, <2>1, <2>3
<1>5. \E z \in zeros : \A y \in zeros : y <= z
  <2>1. MaxZeros - m \in zeros
    OBVIOUS
  <2> HIDE DEF zeros, T
  <2> QED BY <1>4, <2>1
<1>6. LeadingZeros(bits) = CHOOSE z \in zeros : \A y \in zeros : y <= z
  BY DEF LeadingZeros
<1>7. LeadingZeros(bits) \in zeros
  <2> HIDE DEF zeros
  <2> QED BY <1>5, <1>6
<1> QED BY <1>7

(* What is read behind the zeros, and the value that it gives. *)
LEMMA ReadIs ==
  ASSUME data \in Seq({0, 1}), UE.ok
  PROVE  LET z == LeadingZeros(data)
             rest == Number(data, z + 2, z)
         IN  /\ z \in 0 .. MaxZeros /\ 2 * z + 1 <= Len(data)
             /\ UE.used = 2 * z + 1
             /\ UE.value = rest + Powers[z] - 1
             /\ rest \in 0 .. Powers[z] - 1
<1> DEFINE z == LeadingZeros(data)
           rest == Number(data, z + 2, z)
<1>1. z \in 0 .. MaxZeros
  BY ZerosAre
<1>2. UE = CodeAfter(data, z)
  BY DEF UE, ReadExponentialGolombCode
<1> HIDE DEF z
<1>3. Len(data) \in Nat
  OBVIOUS
<1>4. ~(Len(data) < 2 * z + 1)
  BY <1>2 DEF CodeAfter, NoCode
<1>5. UE = [ok |-> TRUE, used |-> 2 * z + 1,
            value |-> ReadBits(data, z + 1, z) + Powers[z] - 1]
  BY <1>2, <1>4 DEF CodeAfter
<1>6. (z + 1) + 1 = z + 2
  BY <1>1
<1>7. ReadBits(data, z + 1, z) = rest
  BY <1>6 DEF ReadBits
<1>8. AreBitsFrom(data, z + 2, z)
  <2>1. ASSUME NEW k \in 1 .. z
        PROVE  data[(z + 2) + k - 1] \in {0, 1}
    <3>1. (z + 2) + k - 1 \in 1 .. Len(data)
      BY <1>1, <1>3, <1>4
    <3> QED BY <3>1
  <2> QED BY <2>1 DEF AreBitsFrom
<1>9. rest \in 0 .. Powers[z] - 1
  <2>1. z \in Nat /\ z + 2 \in Nat
    BY <1>1
  <2> QED BY <1>8, <2>1, NumberBelow
<1> QED BY <1>1, <1>3, <1>4, <1>5, <1>7, <1>9 DEF z

(* The digits of a number are counted by the powers of two around it. *)
LEMMA DigitsAre ==
  ASSUME NEW v \in Nat, NEW z \in 0 .. MaxZeros,
         Powers[z] <= v + 1, v + 1 < Powers[z + 1]
  PROVE  Digits(v) = z + 1
<1> USE GolombCodesAssumption
<1> DEFINE IsCount(d) == Powers[d - 1] <= v + 1 /\ v + 1 < Powers[d]
<1>1. z + 1 \in 1 .. MaxZeros + 1 /\ (z + 1) - 1 = z
  OBVIOUS
<1>2. IsCount(z + 1)
  BY <1>1
<1>3. ASSUME NEW d \in 1 .. MaxZeros + 1, IsCount(d)
      PROVE  d = z + 1
  <2>1. /\ Powers[d] \in Nat /\ Powers[z] \in Nat
        /\ Powers[d - 1] \in Nat /\ Powers[z + 1] \in Nat
    BY PowersSteps
  <2>2. ~(d <= z)
    <3>1. d <= z => Powers[d] <= Powers[z]
      BY PowersGrow
    <3> QED BY <1>3, <2>1, <3>1
  <2>3. ~(z + 1 <= d - 1)
    <3>1. z + 1 <= d - 1 => Powers[z + 1] <= Powers[d - 1]
      BY PowersGrow
    <3> QED BY <1>3, <2>1, <3>1
  <2> QED BY <2>2, <2>3
<1>4. Digits(v) = CHOOSE d \in 1 .. MaxZeros + 1 : IsCount(d)
  BY DEF Digits
<1> HIDE DEF IsCount
<1> QED BY <1>1, <1>2, <1>3, <1>4

(* A code that is read is the code of its value. *)
LEMMA CodeIsReadAlways ==
  ASSUME data \in Seq({0, 1})
  PROVE  CodeIsRead
<1>1. SUFFICES ASSUME UE.ok, data[LeadingZeros(data) + 1] = 1
               PROVE  CodeOf(UE.value) = SubSeq(data, 1, UE.used)
  BY DEF CodeIsRead
<1> DEFINE z == LeadingZeros(data)
           rest == Number(data, z + 2, z)
           v == UE.value
<1>2. /\ z \in 0 .. MaxZeros /\ 2 * z + 1 <= Len(data)
      /\ UE.used = 2 * z + 1
      /\ v = rest + Powers[z] - 1
      /\ rest \in 0 .. Powers[z] - 1
  BY <1>1, ReadIs
<1>3. \A i \in 1 .. z : data[i] = 0
  BY ZerosAre
<1>4. data[z + 1] = 1
  BY <1>1
<1> HIDE DEF z
<1>5. z \in Nat /\ Len(data) \in Nat
  BY <1>2, GolombCodesAssumption
<1>6. AreBitsFrom(data, z + 1, z + 1)
  <2>1. ASSUME NEW k \in 1 .. z + 1
        PROVE  data[(z + 1) + k - 1] \in {0, 1}
    <3>1. (z + 1) + k - 1 \in 1 .. Len(data)
      BY <1>2, <1>5
    <3> QED BY <3>1
  <2> QED BY <2>1 DEF AreBitsFrom
<1> DEFINE number == Number(data, z + 1, z + 1)
<1>7. number = Powers[z] + rest
  <2>1. z + 1 \in Nat /\ (z + 1) + 1 = z + 2
    BY <1>5
  <2>2. number = Powers[z] + Number(data, (z + 1) + 1, z)
    BY <1>4, <1>5, <1>6, <2>1, LeadingBit
  <2> QED BY <2>1, <2>2
<1>8. Field(number, z + 1) = [k \in 1 .. z + 1 |-> data[(z + 1) + k - 1]]
  <2>1. z + 1 \in Nat
    BY <1>5
  <2> QED BY <1>6, <2>1, FieldOfNumber
<1> HIDE DEF number, rest, v
<1>9. Powers[z] \in Nat \ {0} /\ Powers[z + 1] = 2 * Powers[z]
  BY <1>5, PowersSteps
<1>10. v \in Nat /\ v + 1 = number /\ Powers[z] <= v + 1 /\ v + 1 < Powers[z + 1]
  BY <1>2, <1>7, <1>9
<1>11. Digits(v) = z + 1
  BY <1>2, <1>10, DigitsAre
<1> DEFINE s == [i \in 1 .. z |-> 0]
           t == [k \in 1 .. z + 1 |-> data[(z + 1) + k - 1]]
           u == SubSeq(data, 1, 2 * z + 1)
<1>12. CodeOf(v) = s \o t
  <2>1. (z + 1) - 1 = z
    BY <1>5
  <2> QED BY <1>8, <1>10, <1>11, <2>1 DEF CodeOf
<1>13. s \in Seq({0, 1}) /\ Len(s) = z
  BY <1>5
<1>14. t \in Seq({0, 1}) /\ Len(t) = z + 1
  BY <1>5, <1>6 DEF AreBitsFrom
<1>15. /\ u \in Seq({0, 1}) /\ Len(u) = 2 * z + 1
       /\ \A i \in 1 .. 2 * z + 1 : u[i] = data[i]
  <2>1. 2 * z + 1 \in 0 .. Len(data)
    BY <1>2, <1>5
  <2> QED BY <2>1
<1>16. \A i \in 1 .. z : s[i] = u[i]
  BY <1>3, <1>5, <1>15
<1>17. \A k \in 1 .. z + 1 : t[k] = u[z + k]
  <2>1. \A k \in 1 .. z + 1 : (z + 1) + k - 1 = z + k /\ z + k \in 1 .. 2 * z + 1
    BY <1>5
  <2> QED BY <1>15, <2>1
<1> HIDE DEF s, t, u
<1>18. Begins(s, u) /\ Ends(t, u, Len(s))
  BY <1>13, <1>14, <1>16, <1>17 DEF Begins, Ends
<1>19. u = s \o t
  <2>1. Len(u) = Len(s) + Len(t)
    BY <1>5, <1>13, <1>14, <1>15
  <2> QED BY <1>13, <1>14, <1>15, <1>18, <2>1, ConcatenationIs
<1> QED BY <1>2, <1>12, <1>19 DEF v, u

(* Remainders of small numbers. *)
LEMMA SmallRemainder ==
  ASSUME NEW m \in Nat \ {0}, NEW x \in 0 .. m - 1
  PROVE  x % m = x /\ m % m = 0
  OBVIOUS

(* A signed code, for any value below half of the largest power. *)
LEMMA SignedIs ==
  ASSUME NEW m \in Nat \ {0}, Powers[UintBits] = 2 * m, NEW code \in 0 .. m - 1
  PROVE  /\ Signed(code) % m = SignedModulo(code, m)
         /\ Signed(code) < m
<1> DEFINE q == code \div 2
<1>1. q \in Nat /\ code % 2 \in {0, 1} /\ code = 2 * q + (code % 2)
  OBVIOUS
<1>2. 2 * m \in Nat \ {0}
  OBVIOUS
<1>3. \A x \in 0 .. 2 * m - 1 : Uint(x) = x
  BY <1>2, SmallRemainder DEF Uint
<1>4. CASE code % 2 = 1
  <2>1. code + 1 \in 0 .. 2 * m - 1
    OBVIOUS
  <2>2. Signed(code) = (code + 1) \div 2
    BY <1>3, <1>4, <2>1 DEF Signed
  <2>3. (code + 1) \div 2 = q + 1
    BY <1>1, <1>4
  <2>4. q + 1 < m
    BY <1>1, <1>4
  <2> QED BY <1>1, <1>4, <2>2, <2>3, <2>4 DEF SignedModulo
<1>5. CASE code % 2 = 0
  <2>1. code = 2 * q /\ q \in 0 .. m - 1
    BY <1>1, <1>5
  <2> HIDE DEF q
  <2>2. q % m = q /\ m % m = 0 /\ 0 % m = 0
    BY <2>1, SmallRemainder
  <2>3. Signed(code) = Uint(2 * m - code) \div 2
    BY <1>5 DEF Signed
  <2>4. SignedModulo(code, m) = (m - q) % m
    BY <1>5, <2>2 DEF SignedModulo, q
  <2>5. CASE q = 0
    <3>1. Uint(2 * m - code) = 0
      <4>1. 2 * m - code = 2 * m
        BY <2>1, <2>5
      <4>2. (2 * m) % (2 * m) = 0
        BY <1>2, SmallRemainder
      <4> QED BY <4>1, <4>2 DEF Uint
    <3>2. Signed(code) = 0
      BY <2>3, <3>1
    <3>3. m - q = m
      BY <2>5
    <3> QED BY <2>2, <2>4, <3>2, <3>3
  <2>6. CASE q # 0
    <3>1. Uint(2 * m - code) = 2 * (m - q)
      <4>1. 2 * m - code = 2 * (m - q) /\ 2 * m - code \in 0 .. 2 * m - 1
        BY <2>1, <2>6
      <4> QED BY <1>3, <4>1
    <3>2. (2 * (m - q)) \div 2 = m - q /\ m - q \in 0 .. m - 1
      BY <2>1, <2>6
    <3>3. (m - q) % m = m - q
      BY <3>2, SmallRemainder
    <3> QED BY <2>3, <2>4, <3>1, <3>2, <3>3
  <2> QED BY <2>5, <2>6
<1> QED BY <1>1, <1>4, <1>5

(* A signed code has its value in all bits but the highest. *)
LEMMA SignedAlways ==
  ASSUME data \in Seq({0, 1})
  PROVE  SignedUpToTopBit
<1> USE GolombCodesAssumption
<1> DEFINE m == Powers[UintBits - 1]
<1>1. SUFFICES ASSUME SE.ok
               PROVE  /\ SE.value % m = SignedModulo(UE.value, m)
                      /\ SE.value < m
  BY DEF SignedUpToTopBit
<1>2. SE = SignedCode(UE)
  BY DEF SE, UE, ReadSE
<1>3. UE.ok /\ SE.value = Signed(UE.value)
  <2>1. CASE UE.ok
    BY <1>2, <2>1 DEF SignedCode
  <2>2. CASE ~UE.ok
    BY <1>1, <1>2, <2>2 DEF SignedCode
  <2> QED BY <2>1, <2>2
<1> DEFINE z == LeadingZeros(data)
           rest == Number(data, z + 2, z)
           v == UE.value
<1>4. /\ z \in 0 .. MaxZeros
      /\ v = rest + Powers[z] - 1
      /\ rest \in 0 .. Powers[z] - 1
  BY <1>3, ReadIs
<1> HIDE DEF z, rest
<1>5. m \in Nat \ {0} /\ Powers[UintBits] = 2 * m
  <2>1. UintBits - 1 \in Nat /\ (UintBits - 1) + 1 = UintBits
    OBVIOUS
  <2> QED BY <2>1, PowersSteps
<1>6. v \in 0 .. m - 1
  <2>1. Powers[z] \in Nat \ {0} /\ Powers[z + 1] = 2 * Powers[z]
    BY <1>4, PowersSteps
  <2>2. z + 1 \in Nat /\ UintBits - 1 \in Nat /\ z + 1 <= UintBits - 1
    BY <1>4
  <2>3. Powers[z + 1] <= m
    BY <2>2, PowersGrow
  <2> HIDE DEF m, v
  <2> QED BY <1>4, <1>5, <2>1, <2>3
<1> HIDE DEF m, v
<1>7. Signed(v) % m = SignedModulo(v, m) /\ Signed(v) < m
  BY <1>5, <1>6, SignedIs
<1> QED BY <1>3, <1>7 DEF v

(* Every code that the bit reader takes for one is the code of the value it  *)
(* returns, and the signed value is right up to its highest bit, for any     *)
(* width of the results and any number of zeros that are counted             *)
(* (golomb_reader.go:84-129).                                                *)
THEOREM GolombIsReadCorrect == GolombSpec => []GolombIsRead
<1>1. GolombInit => data \in Seq({0, 1})
  BY DEF GolombInit
<1>2. data \in Seq({0, 1}) /\ [ReceiveBit]_data => (data \in Seq({0, 1}))'
  BY DEF ReceiveBit
<1>3. data \in Seq({0, 1}) => GolombIsRead
  BY CodeIsReadAlways, SignedAlways DEF GolombIsRead
<1> QED BY <1>1, <1>2, <1>3, PTL DEF GolombSpec
=============================================================================
