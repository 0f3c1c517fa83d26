--------------------------- MODULE InductionProofs ---------------------------
(***************************************************************************)
(* Induction and recursion over numbers, and what a join of sequences      *)
(* contains.  The provers cannot instantiate the theorems of the library   *)
(* on induction, which take an operator; that the order of the naturals is *)
(* well-founded is a fact about sets, and everything here follows from it. *)
(***************************************************************************)
EXTENDS Joins, Numbers, WellFoundedInduction, TLAPS

(* A set of naturals that is not empty has a smallest element. *)
LEMMA SmallestExists ==
  ASSUME NEW T \in SUBSET Nat, T # {}
  PROVE  \E m \in T : \A n \in T : m <= n
<1>1. PICK m \in T : \A n \in T : <<n, m>> \notin OpToRel(<, Nat)
  BY NatLessThanWellFounded, WFMin
<1>2. \A n \in T : ~(n < m)
  BY <1>1 DEF OpToRel
<1> QED BY <1>2

(* Induction up to len: S are the numbers for which something holds.         *)
LEMMA InductionUpTo ==
  ASSUME NEW len \in Nat, NEW S, 0 \in S,
         \A n \in 1 .. len : n - 1 \in S => n \in S
  PROVE  \A n \in 0 .. len : n \in S
<1> DEFINE T == {n \in 0 .. len : n \notin S}
<1>1. SUFFICES ASSUME T # {} PROVE FALSE
  OBVIOUS
<1>2. T \in SUBSET Nat
  OBVIOUS
<1>3. PICK m \in T : \A n \in T : m <= n
  <2> HIDE DEF T
  <2> QED BY <1>1, <1>2, SmallestExists
<1>4. m \in 1 .. len
  BY <1>3
<1>5. m - 1 \in 0 .. len /\ m - 1 \notin T
  BY <1>3, <1>4
<1> QED BY <1>3, <1>4, <1>5

(* f starts at init and goes on by step. *)
GoesBy(f, X, init, step, len) ==
  /\ f \in [0 .. len -> X]
  /\ f[0] = init
  /\ \A n \in 1 .. len : f[n] = step[<<n, f[n - 1]>>]

(* Recursion up to len has a result. *)
LEMMA RecursionExists ==
  ASSUME NEW X, NEW init \in X, NEW len \in Nat,
         NEW step \in [(1 .. len) \X X -> X]
  PROVE  \E f : GoesBy(f, X, init, step, len)
<1> DEFINE S == {n \in Nat : \E f : GoesBy(f, X, init, step, n)}
<1>1. 0 \in S
  <2>1. GoesBy([n \in 0 .. 0 |-> init], X, init, step, 0)
    BY DEF GoesBy
  <2> QED BY <2>1
<1>2. ASSUME NEW m \in 1 .. len, m - 1 \in S
      PROVE  m \in S
  <2>1. PICK f : GoesBy(f, X, init, step, m - 1)
    BY <1>2
  <2> DEFINE g == [n \in 0 .. m |-> IF n = m THEN step[<<m, f[m - 1]>>]
                                             ELSE f[n]]
  <2>2. \A n \in 0 .. m - 1 : f[n] \in X
    BY <2>1 DEF GoesBy
  <2>3. step[<<m, f[m - 1]>>] \in X
    BY <2>2
  <2>4. g \in [0 .. m -> X]
    BY <2>2, <2>3
  <2>5. g[0] = init
    BY <2>1 DEF GoesBy
  <2>6. ASSUME NEW n \in 1 .. m
        PROVE  g[n] = step[<<n, g[n - 1]>>]
    <3>1. CASE n = m
      <4>1. g[m] = step[<<m, f[m - 1]>>] /\ g[m - 1] = f[m - 1]
        OBVIOUS
      <4> HIDE DEF g
      <4> QED BY <3>1, <4>1
    <3>2. CASE n # m
      <4>1. n \in 1 .. m - 1 /\ n - 1 \in 0 .. m - 1
        BY <3>2
      <4>2. f[n] = step[<<n, f[n - 1]>>]
        BY <2>1, <4>1 DEF GoesBy
      <4>3. g[n] = f[n] /\ g[n - 1] = f[n - 1]
        BY <4>1
      <4> QED BY <4>2, <4>3
    <3> QED BY <3>1, <3>2
  <2>7. GoesBy(g, X, init, step, m)
    BY <2>4, <2>5, <2>6 DEF GoesBy
  <2> QED BY <2>7
<1>3. \A n \in 0 .. len : n \in S
  <2> HIDE DEF S
  <2> QED BY <1>1, <1>2, InductionUpTo
<1> QED BY <1>3

(* A function whose value at a place depends on those at later places only   *)
(* exists: body gives the value from the place and the function.             *)
IsBody(body, X, len) == body \in [(1 .. len) \X [1 .. len -> X] -> X]

FollowsBody(f, body, X, len) ==
  f \in [1 .. len -> X] /\ \A i \in 1 .. len : f[i] = body[<<i, f>>]

LooksAhead(body, X, len) ==
  \A i \in 1 .. len, g \in [1 .. len -> X], h \in [1 .. len -> X] :
    (\A j \in i + 1 .. len : g[j] = h[j]) => body[<<i, g>>] = body[<<i, h>>]

(* A function that recurses only to later places exists.                     *)
LEMMA LaterExists ==
  ASSUME NEW X, X # {}, NEW len \in Nat, NEW body,
         IsBody(body, X, len), LooksAhead(body, X, len)
  PROVE  \E f : FollowsBody(f, body, X, len)
<1> DEFINE Holds(f, k) == \A i \in 1 .. len : i > len - k => f[i] = body[<<i, f>>]
           S == {k \in Nat : \E f \in [1 .. len -> X] : Holds(f, k)}
<1>1. 0 \in S
  <2>1. PICK x \in X : TRUE
    OBVIOUS
  <2>2. [i \in 1 .. len |-> x] \in [1 .. len -> X]
    OBVIOUS
  <2>3. \A f \in [1 .. len -> X] : Holds(f, 0)
    OBVIOUS
  <2> QED BY <2>2, <2>3
<1>2. ASSUME NEW k \in 1 .. len, k - 1 \in S
      PROVE  k \in S
  <2>1. PICK f \in [1 .. len -> X] : Holds(f, k - 1)
    BY <1>2
  <2> DEFINE at == len - k + 1
             x == body[<<at, f>>]
             g == [i \in 1 .. len |-> IF i = at THEN x ELSE f[i]]
  <2>2. at \in 1 .. len
    OBVIOUS
  <2>3. x \in X
    BY <2>2 DEF IsBody
  <2> HIDE DEF x
  <2>4. g \in [1 .. len -> X]
    BY <2>3
  <2>5. \A i \in at + 1 .. len : g[i] = f[i] /\ f[i] = g[i]
    BY <2>2
  <2>6. g[at] = x
    BY <2>2
  <2> HIDE DEF g
  <2>7. ASSUME NEW i \in 1 .. len, i > len - k
        PROVE  g[i] = body[<<i, g>>]
    <3>1. \A j \in i + 1 .. len : f[j] = g[j]
      BY <2>5, <2>7
    <3>2. body[<<i, f>>] = body[<<i, g>>]
      BY <2>4, <3>1 DEF LooksAhead
    <3>3. CASE i = at
      BY <2>6, <3>2, <3>3 DEF x
    <3>4. CASE i # at
      <4>1. i > len - (k - 1) /\ i \in at + 1 .. len
        BY <2>7, <3>4
      <4>2. f[i] = body[<<i, f>>]
        BY <2>1, <4>1
      <4> QED BY <2>5, <3>2, <4>1, <4>2
    <3> QED BY <3>3, <3>4
  <2>8. Holds(g, k)
    BY <2>7
  <2> QED BY <2>4, <2>8
<1>3. len \in S
  <2> HIDE DEF S
  <2> QED BY <1>1, <1>2, InductionUpTo
<1>4. PICK f \in [1 .. len -> X] : Holds(f, len)
  BY <1>3
<1> QED BY <1>4 DEF FollowsBody

(***************************************************************************)
(* Division.                                                               *)
(***************************************************************************)
(* Division with remainder. *)
LEMMA Divided ==
  ASSUME NEW a \in Nat, NEW b \in Nat \ {0}
  PROVE  /\ a \div b \in Nat
         /\ a % b \in 0 .. b - 1
         /\ a = b * (a \div b) + (a % b)
  OBVIOUS

(* There is one quotient and one remainder only. *)
LEMMA DividedOnce ==
  ASSUME NEW a \in Nat, NEW b \in Nat \ {0}, NEW q \in Nat,
         NEW r \in 0 .. b - 1, a = b * q + r
  PROVE  a \div b = q /\ a % b = r
  OBVIOUS

(* Dividing twice is dividing by the product. *)
LEMMA DividedTwice ==
  ASSUME NEW a \in Nat, NEW b \in Nat \ {0}, NEW c \in Nat \ {0}
  PROVE  a \div (b * c) = (a \div b) \div c
<1> DEFINE q == a \div b
           r == a % b
           p == q \div c
           s == q % c
<1>1. q \in Nat /\ r \in 0 .. b - 1 /\ a = b * q + r
  BY Divided
<1> HIDE DEF q, r
<1>2. p \in Nat /\ s \in 0 .. c - 1 /\ q = c * p + s
  BY <1>1, Divided
<1> HIDE DEF p, s
<1>3. b * q = (b * c) * p + b * s
  <2>1. b * (c * p + s) = b * (c * p) + b * s
    BY <1>2
  <2>2. b * (c * p) = (b * c) * p
    BY <1>2
  <2> QED BY <1>2, <2>1, <2>2
<1>4. b * s \in Nat /\ b * s <= b * (c - 1) /\ b * (c - 1) = b * c - b
  <2>1. PICK d \in Nat : c - 1 = s + d
    BY <1>2
  <2>2. b * (s + d) = b * s + b * d /\ b * d \in Nat /\ b * s \in Nat
    BY <1>2, <2>1
  <2> QED BY <2>1, <2>2
<1> DEFINE bc == b * c
           bs == b * s
<1>5. bc \in Nat \ {0}
  OBVIOUS
<1>6. bs \in Nat /\ bs <= bc - b
  BY <1>4
<1>7. a = bc * p + (bs + r)
  BY <1>1, <1>2, <1>3
<1> HIDE DEF bc, bs
<1>8. bs + r \in 0 .. bc - 1
  BY <1>1, <1>5, <1>6
<1>9. a \div bc = p
  BY <1>2, <1>5, <1>7, <1>8, DividedOnce
<1> QED BY <1>9 DEF bc, p, q

(* What is smaller than a product has a quotient below the other factor. *)
LEMMA QuotientBelow ==
  ASSUME NEW b \in Nat \ {0}, NEW c \in Nat, NEW a \in Nat, a < b * c
  PROVE  a \div b < c
<1> DEFINE q == a \div b
<1>1. q \in Nat /\ b * q <= a
  BY Divided
<1> HIDE DEF q
<1>2. SUFFICES ASSUME q >= c PROVE FALSE
  BY <1>1 DEF q
<1>3. PICK d \in Nat : q = c + d
  BY <1>1, <1>2
<1>4. b * (c + d) = b * c + b * d /\ b * d \in Nat /\ b * c \in Nat
  OBVIOUS
<1> QED BY <1>1, <1>3, <1>4

(***************************************************************************)
(* Numbers and their bits.                                                 *)
(***************************************************************************)
(* The powers of two up to len. *)
Doubles(f, len) ==
  /\ f \in [0 .. len -> Nat \ {0}]
  /\ f[0] = 1
  /\ \A n \in 1 .. len : f[n] = 2 * f[n - 1]

(* A doubling up to len exists. *)
LEMMA DoublesExist ==
  ASSUME NEW len \in Nat
  PROVE  \E f : Doubles(f, len)
<1> DEFINE X == Nat \ {0}
           step == [p \in (1 .. len) \X X |-> 2 * p[2]]
<1>1. 1 \in X /\ step \in [(1 .. len) \X X -> X]
  OBVIOUS
<1>2. \A n \in 1 .. len, x \in X : step[<<n, x>>] = 2 * x
  OBVIOUS
<1> HIDE DEF step
<1>3. PICK f : GoesBy(f, X, 1, step, len)
  <2> HIDE DEF X
  <2> QED BY <1>1, RecursionExists
<1>4. /\ f \in [0 .. len -> X] /\ f[0] = 1
      /\ \A n \in 1 .. len : f[n] = step[<<n, f[n - 1]>>]
  BY <1>3 DEF GoesBy
<1>5. ASSUME NEW n \in 1 .. len
      PROVE  f[n] = 2 * f[n - 1]
  <2>1. n - 1 \in 0 .. len
    OBVIOUS
  <2>2. f[n - 1] \in X
    BY <1>4, <2>1
  <2> QED BY <1>2, <1>4, <2>2
<1> QED BY <1>4, <1>5 DEF Doubles

(* A shorter doubling is the beginning of a longer one. *)
LEMMA DoublesAgree ==
  ASSUME NEW m \in Nat, NEW f, Doubles(f, m),
         NEW n \in Nat, NEW g, Doubles(g, n), m <= n
  PROVE  \A k \in 0 .. m : f[k] = g[k]
<1> DEFINE S == {k \in Nat : f[k] = g[k]}
<1>1. 0 \in S
  BY DEF Doubles
<1>2. ASSUME NEW k \in 1 .. m, k - 1 \in S
      PROVE  k \in S
  <2>1. k \in 1 .. n
    OBVIOUS
  <2>2. f[k] = 2 * f[k - 1] /\ g[k] = 2 * g[k - 1]
    BY <2>1 DEF Doubles
  <2> QED BY <1>2, <2>2
<1>3. \A k \in 0 .. m : k \in S
  <2> HIDE DEF S
  <2> QED BY <1>1, <1>2, InductionUpTo
<1> QED BY <1>3

(* Each power of two is twice the one before. *)
LEMMA PowersSteps ==
  /\ Powers[0] = 1
  /\ \A k \in Nat : Powers[k] \in Nat \ {0} /\ Powers[k + 1] = 2 * Powers[k]
<1> DEFINE d(n) == CHOOSE f : Doubles(f, n)
           g == [k \in Nat |-> d(k)[k]]
<1>1. \A n \in Nat : Doubles(d(n), n)
  BY DoublesExist
<1> HIDE DEF d
<1>2. g[0] = 1
  <2>1. d(0)[0] = 1
    BY <1>1 DEF Doubles
  <2> QED BY <2>1
<1>3. ASSUME NEW k \in Nat
      PROVE  g[k] \in Nat \ {0} /\ g[k + 1] = 2 * g[k]
  <2>1. k \in 0 .. k /\ k + 1 \in 1 .. k + 1 /\ (k + 1) - 1 = k /\ k + 1 \in Nat
    OBVIOUS
  <2>2. d(k)[k] \in Nat \ {0}
    BY <1>1, <2>1 DEF Doubles
  <2>3. d(k + 1)[k + 1] = 2 * d(k + 1)[(k + 1) - 1]
    BY <1>1, <2>1 DEF Doubles
  <2>4. d(k)[k] = d(k + 1)[k]
    <3>1. Doubles(d(k), k) /\ Doubles(d(k + 1), k + 1) /\ k <= k + 1
      BY <1>1, <2>1
    <3> QED BY <2>1, <3>1, DoublesAgree
  <2>5. g[k] = d(k)[k] /\ g[k + 1] = d(k + 1)[k + 1]
    BY <2>1
  <2> HIDE DEF g
  <2> QED BY <2>1, <2>2, <2>3, <2>4, <2>5
<1>4. g = [k \in Nat |-> IF k = 0 THEN 1 ELSE 2 * g[k - 1]]
  <2> DEFINE h == [k \in Nat |-> IF k = 0 THEN 1 ELSE 2 * g[k - 1]]
  <2>1. ASSUME NEW k \in Nat
        PROVE  g[k] = h[k]
    <3>1. CASE k = 0
      <4>1. h[0] = 1
        OBVIOUS
      <4> HIDE DEF g, h
      <4> QED BY <1>2, <3>1, <4>1
    <3>2. CASE k # 0
      <4>1. k - 1 \in Nat /\ (k - 1) + 1 = k
        BY <3>2
      <4>2. h[k] = 2 * g[k - 1]
        BY <3>2
      <4> HIDE DEF g, h
      <4>3. g[(k - 1) + 1] = 2 * g[k - 1]
        BY <1>3, <4>1
      <4> QED BY <4>1, <4>2, <4>3
    <3> QED BY <3>1, <3>2
  <2>2. g = h
    BY <2>1
  <2> QED BY <2>2
<1> DEFINE u == CHOOSE f : f = [k \in Nat |-> IF k = 0 THEN 1 ELSE 2 * f[k - 1]]
<1> HIDE DEF g
<1>5. u = [k \in Nat |-> IF k = 0 THEN 1 ELSE 2 * u[k - 1]]
  BY <1>4
<1>6. Powers = u
  BY DEF Powers
<1> HIDE DEF u
<1>7. \A k \in Nat : Powers[k] = IF k = 0 THEN 1 ELSE 2 * Powers[k - 1]
  BY <1>5, <1>6
<1>8. Powers[0] = 1
  BY <1>7
<1>9. \A k \in Nat : Powers[k + 1] = 2 * Powers[k]
  <2>1. \A k \in Nat : k + 1 \in Nat /\ k + 1 # 0 /\ (k + 1) - 1 = k
    OBVIOUS
  <2> QED BY <1>7, <2>1
<1>10. ASSUME NEW k \in Nat
       PROVE  Powers[k] \in Nat \ {0}
  <2> DEFINE S == {n \in Nat : Powers[n] \in Nat \ {0}}
  <2>1. 0 \in S
    BY <1>8
  <2>2. ASSUME NEW n \in 1 .. k, n - 1 \in S
        PROVE  n \in S
    <3>1. Powers[(n - 1) + 1] = 2 * Powers[n - 1] /\ (n - 1) + 1 = n
      BY <1>9
    <3> QED BY <2>2, <3>1
  <2>3. \A n \in 0 .. k : n \in S
    <3> HIDE DEF S
    <3> QED BY <2>1, <2>2, InductionUpTo
  <2> QED BY <2>3
<1> QED BY <1>8, <1>9, <1>10

(* The powers grow. *)
LEMMA PowersGrow ==
  ASSUME NEW m \in Nat, NEW n \in Nat, m <= n
  PROVE  Powers[m] <= Powers[n]
<1> DEFINE S == {k \in Nat : Powers[m] <= Powers[m + k]}
<1>1. 0 \in S
  BY PowersSteps
<1>2. ASSUME NEW k \in 1 .. n - m, k - 1 \in S
      PROVE  k \in S
  <2>1. (m + (k - 1)) + 1 = m + k /\ m + (k - 1) \in Nat /\ m + k \in Nat
    OBVIOUS
  <2>2. Powers[(m + (k - 1)) + 1] = 2 * Powers[m + (k - 1)]
    BY <2>1, PowersSteps
  <2>3. Powers[m] \in Nat /\ Powers[m + (k - 1)] \in Nat
    BY <2>1, PowersSteps
  <2>4. Powers[m] <= Powers[m + (k - 1)]
    BY <1>2
  <2>5. Powers[m] <= 2 * Powers[m + (k - 1)]
    BY <2>3, <2>4
  <2> QED BY <2>1, <2>2, <2>5
<1>3. n - m \in S
  <2>1. n - m \in Nat
    OBVIOUS
  <2> HIDE DEF S
  <2>2. \A k \in 0 .. n - m : k \in S
    BY <1>1, <1>2, <2>1, InductionUpTo
  <2> QED BY <2>1, <2>2
<1>4. m + (n - m) = n
  OBVIOUS
<1> QED BY <1>3, <1>4

(* The bits that are read, and the number from one to the next.              *)
AreBitsFrom(s, i, n) == \A k \in 1 .. n : s[i + k - 1] \in {0, 1}

IsNumber(f, s, i, n) ==
  /\ f \in [0 .. n -> Nat]
  /\ f[0] = 0
  /\ \A k \in 1 .. n : f[k] = 2 * f[k - 1] + s[i + k - 1]

(* A number is what its bits, added one by one, make. *)
LEMMA NumberSteps ==
  ASSUME NEW s, NEW i \in Nat, NEW n \in Nat, AreBitsFrom(s, i, n)
  PROVE  \E f : IsNumber(f, s, i, n) /\ Number(s, i, n) = f[n]
<1> DEFINE step == [p \in (1 .. n) \X Nat |-> 2 * p[2] + s[i + p[1] - 1]]
<1>1. ASSUME NEW k \in 1 .. n, NEW x \in Nat
      PROVE  2 * x + s[i + k - 1] \in Nat
  <2>1. s[i + k - 1] \in {0, 1}
    BY DEF AreBitsFrom
  <2> QED BY <2>1
<1>2. step \in [(1 .. n) \X Nat -> Nat]
  BY <1>1
<1>3. \A k \in 1 .. n, x \in Nat : step[<<k, x>>] = 2 * x + s[i + k - 1]
  OBVIOUS
<1> HIDE DEF step
<1>4. PICK f : GoesBy(f, Nat, 0, step, n)
  BY <1>2, RecursionExists
<1>5. /\ f \in [0 .. n -> Nat] /\ f[0] = 0
      /\ \A k \in 1 .. n : f[k] = step[<<k, f[k - 1]>>]
  BY <1>4 DEF GoesBy
<1>6. ASSUME NEW k \in 1 .. n
      PROVE  f[k] = 2 * f[k - 1] + s[i + k - 1]
  <2>1. k - 1 \in 0 .. n
    OBVIOUS
  <2>2. f[k - 1] \in Nat
    BY <1>5, <2>1
  <2> QED BY <1>3, <1>5, <2>2
<1> DEFINE Body(g) ==
             [k \in 0 .. n |-> IF k = 0 THEN 0 ELSE 2 * g[k - 1] + s[i + k - 1]]
<1>7. f = Body(f)
  <2>1. ASSUME NEW k \in 0 .. n
        PROVE  f[k] = Body(f)[k]
    <3>1. CASE k = 0
      BY <1>5, <3>1
    <3>2. CASE k # 0
      <4>1. k \in 1 .. n
        BY <3>2
      <4> QED BY <1>6, <3>2, <4>1
    <3> QED BY <3>1, <3>2
  <2> QED BY <1>5, <2>1
<1> DEFINE u == CHOOSE g : g = Body(g)
<1>8. u = Body(u)
  BY <1>7
<1>9. Number(s, i, n) = u[n]
  BY DEF Number
<1> HIDE DEF u
<1>10. /\ u[0] = 0
       /\ \A k \in 1 .. n : u[k] = 2 * u[k - 1] + s[i + k - 1]
  BY <1>8
<1>11. u \in [0 .. n -> Nat]
  <2> DEFINE S == {k \in Nat : u[k] \in Nat}
  <2>1. 0 \in S
    BY <1>10
  <2>2. ASSUME NEW k \in 1 .. n, k - 1 \in S
        PROVE  k \in S
    BY <1>1, <1>10, <2>2
  <2>3. \A k \in 0 .. n : k \in S
    <3> HIDE DEF S
    <3> QED BY <2>1, <2>2, InductionUpTo
  <2> QED BY <1>8, <2>3
<1> QED BY <1>9, <1>10, <1>11 DEF IsNumber

(* A number of n bits is below the nth power of two. *)
LEMMA NumberBelow ==
  ASSUME NEW s, NEW i \in Nat, NEW n \in Nat, AreBitsFrom(s, i, n)
  PROVE  Number(s, i, n) \in 0 .. Powers[n] - 1
<1>1. PICK f : IsNumber(f, s, i, n) /\ Number(s, i, n) = f[n]
  BY NumberSteps
<1> DEFINE S == {k \in Nat : f[k] \in 0 .. Powers[k] - 1}
<1>2. 0 \in S
  <2>1. f[0] = 0 /\ Powers[0] = 1
    BY <1>1, PowersSteps DEF IsNumber
  <2> QED BY <2>1
<1>3. ASSUME NEW k \in 1 .. n, k - 1 \in S
      PROVE  k \in S
  <2>1. Powers[(k - 1) + 1] = 2 * Powers[k - 1] /\ (k - 1) + 1 = k
    BY PowersSteps
  <2>2. Powers[k - 1] \in Nat
    BY PowersSteps
  <2>3. f[k] = 2 * f[k - 1] + s[i + k - 1]
    BY <1>1 DEF IsNumber
  <2>4. s[i + k - 1] \in {0, 1}
    BY DEF AreBitsFrom
  <2> QED BY <1>3, <2>1, <2>2, <2>3, <2>4
<1>4. n \in S
  <2> HIDE DEF S
  <2> QED BY <1>2, <1>3, InductionUpTo
<1> QED BY <1>1, <1>4

(* Half of what is twice a number and a bit. *)
LEMMA Halved ==
  ASSUME NEW q \in Nat, NEW b \in {0, 1}
  PROVE  (2 * q + b) \div 2 = q /\ (2 * q + b) % 2 = b
  OBVIOUS

(* Dividing by the next power of two. *)
LEMMA DividedByNext ==
  ASSUME NEW x \in Nat, NEW m \in Nat
  PROVE  /\ x \div Powers[m] \in Nat
         /\ x \div Powers[m + 1] = (x \div Powers[m]) \div 2
<1>1. Powers[m] \in Nat \ {0} /\ Powers[m + 1] = Powers[m] * 2
  BY PowersSteps
<1>2. x \div (Powers[m] * 2) = (x \div Powers[m]) \div 2
  BY <1>1, DividedTwice
<1>3. x \div Powers[m] \in Nat
  BY <1>1, Divided
<1> QED BY <1>1, <1>2, <1>3

(* The bits of a number that has been read are the bits it was read from.    *)
LEMMA FieldOfNumber ==
  ASSUME NEW s, NEW i \in Nat, NEW n \in Nat, AreBitsFrom(s, i, n)
  PROVE  Field(Number(s, i, n), n) = [k \in 1 .. n |-> s[i + k - 1]]
<1>1. PICK f : IsNumber(f, s, i, n) /\ Number(s, i, n) = f[n]
  BY NumberSteps
<1> DEFINE S == {m \in Nat : f[n] \div Powers[m] = f[n - m]}
<1>2. f[n] \in Nat
  BY <1>1 DEF IsNumber
<1>3. 0 \in S
  <2>1. f[n] \div 1 = f[n] /\ n - 0 = n
    BY <1>2
  <2> QED BY <2>1, PowersSteps
<1>4. ASSUME NEW m \in 1 .. n, m - 1 \in S
      PROVE  m \in S
  <2>1. f[n] \div Powers[m - 1] = f[n - (m - 1)]
    BY <1>4
  <2>2. f[n] \div Powers[m] = (f[n] \div Powers[m - 1]) \div 2
    <3>1. m - 1 \in Nat /\ (m - 1) + 1 = m
      OBVIOUS
    <3> QED BY <1>2, <3>1, DividedByNext
  <2>3. n - (m - 1) \in 1 .. n /\ (n - (m - 1)) - 1 = n - m
    OBVIOUS
  <2>4. f[n - (m - 1)] = 2 * f[n - m] + s[i + (n - (m - 1)) - 1]
    BY <1>1, <2>3 DEF IsNumber
  <2>5. f[n - m] \in Nat /\ s[i + (n - (m - 1)) - 1] \in {0, 1}
    <3>1. n - m \in 0 .. n
      OBVIOUS
    <3>2. f[n - m] \in Nat
      BY <1>1, <3>1 DEF IsNumber
    <3> QED BY <2>3, <3>2 DEF AreBitsFrom
  <2>6. f[n - (m - 1)] \div 2 = f[n - m]
    BY <2>4, <2>5, Halved
  <2> QED BY <2>1, <2>2, <2>6
<1>5. \A m \in 0 .. n : m \in S
  <2> HIDE DEF S
  <2> QED BY <1>3, <1>4, InductionUpTo
<1>6. ASSUME NEW k \in 1 .. n
      PROVE  (f[n] \div Powers[n - k]) % 2 = s[i + k - 1]
  <2>1. n - k \in 0 .. n /\ n - (n - k) = k
    OBVIOUS
  <2>2. f[n] \div Powers[n - k] = f[k]
    BY <1>5, <2>1
  <2>3. f[k] = 2 * f[k - 1] + s[i + k - 1]
    BY <1>1 DEF IsNumber
  <2>4. f[k - 1] \in Nat /\ s[i + k - 1] \in {0, 1}
    BY <1>1 DEF IsNumber, AreBitsFrom
  <2> QED BY <2>2, <2>3, <2>4, Halved
<1> QED BY <1>1, <1>6 DEF Field

(* The number in the bits of a number is that number. *)
LEMMA NumberOfField ==
  ASSUME NEW s, NEW i \in Nat, NEW n \in Nat, NEW x \in Nat, x < Powers[n],
         \A k \in 1 .. n : s[i + k - 1] = Field(x, n)[k]
  PROVE  Number(s, i, n) = x
<1>1. ASSUME NEW k \in 1 .. n
      PROVE  /\ s[i + k - 1] = (x \div Powers[n - k]) % 2
             /\ x \div Powers[n - k] \in Nat
             /\ (x \div Powers[n - k]) % 2 \in {0, 1}
             /\ x \div Powers[n - (k - 1)] = (x \div Powers[n - k]) \div 2
  <2>1. s[i + k - 1] = (x \div Powers[n - k]) % 2
    BY DEF Field
  <2>2. n - k \in Nat /\ (n - k) + 1 = n - (k - 1)
    OBVIOUS
  <2>3. /\ x \div Powers[n - k] \in Nat
        /\ x \div Powers[(n - k) + 1] = (x \div Powers[n - k]) \div 2
    BY <2>2, DividedByNext
  <2> QED BY <2>1, <2>2, <2>3
<1>2. AreBitsFrom(s, i, n)
  BY <1>1 DEF AreBitsFrom
<1>3. PICK f : IsNumber(f, s, i, n) /\ Number(s, i, n) = f[n]
  BY <1>2, NumberSteps
<1> DEFINE S == {k \in Nat : f[k] = x \div Powers[n - k]}
<1>4. 0 \in S
  <2>1. Powers[n] \in Nat \ {0}
    BY PowersSteps
  <2>2. x \div Powers[n] = 0
    BY <2>1
  <2>3. n - 0 = n /\ f[0] = 0
    BY <1>3 DEF IsNumber
  <2> QED BY <2>2, <2>3
<1>5. ASSUME NEW k \in 1 .. n, k - 1 \in S
      PROVE  k \in S
  <2> DEFINE q == x \div Powers[n - k]
  <2>1. f[k] = 2 * f[k - 1] + s[i + k - 1]
    BY <1>3 DEF IsNumber
  <2>2. f[k - 1] = q \div 2 /\ s[i + k - 1] = q % 2 /\ q \in Nat
    BY <1>1, <1>5
  <2> HIDE DEF q
  <2>3. f[k] = q
    BY <2>1, <2>2
  <2> QED BY <2>3 DEF q
<1>6. n \in S
  <2> HIDE DEF S
  <2> QED BY <1>4, <1>5, InductionUpTo
<1>7. x \div Powers[0] = x
  BY PowersSteps
<1>8. n - n = 0
  OBVIOUS
<1> QED BY <1>3, <1>6, <1>7, <1>8

(* The first bit of a number counts for a power of two. *)
LEMMA LeadingBit ==
  ASSUME NEW s, NEW i \in Nat, NEW n \in Nat, AreBitsFrom(s, i, n + 1),
         s[i] = 1
  PROVE  Number(s, i, n + 1) = Powers[n] + Number(s, i + 1, n)
<1>1. AreBitsFrom(s, i + 1, n)
  <2>1. ASSUME NEW k \in 1 .. n
        PROVE  s[(i + 1) + k - 1] \in {0, 1}
    <3>1. k + 1 \in 1 .. n + 1 /\ i + (k + 1) - 1 = (i + 1) + k - 1
      OBVIOUS
    <3> QED BY <3>1 DEF AreBitsFrom
  <2> QED BY <2>1 DEF AreBitsFrom
<1>2. PICK f : IsNumber(f, s, i, n + 1) /\ Number(s, i, n + 1) = f[n + 1]
  BY NumberSteps
<1>3. PICK g : IsNumber(g, s, i + 1, n) /\ Number(s, i + 1, n) = g[n]
  BY <1>1, NumberSteps
<1> DEFINE S == {k \in Nat : f[k + 1] = Powers[k] + g[k]}
<1>4. 0 \in S
  <2>1. 1 \in 1 .. n + 1 /\ i + 1 - 1 = i /\ 1 - 1 = 0 /\ 0 + 1 = 1
    OBVIOUS
  <2>2. f[1] = 2 * f[1 - 1] + s[i + 1 - 1]
    BY <1>2, <2>1 DEF IsNumber
  <2>3. f[0] = 0 /\ g[0] = 0
    BY <1>2, <1>3 DEF IsNumber
  <2>4. f[1] = 1
    BY <2>1, <2>2, <2>3
  <2> QED BY <2>1, <2>3, <2>4, PowersSteps
<1>5. ASSUME NEW k \in 1 .. n, k - 1 \in S
      PROVE  k \in S
  <2>1. /\ k + 1 \in 1 .. n + 1 /\ (k + 1) - 1 = k /\ (k - 1) + 1 = k
        /\ i + (k + 1) - 1 = (i + 1) + k - 1
    OBVIOUS
  <2>2. f[k + 1] = 2 * f[(k + 1) - 1] + s[i + (k + 1) - 1]
    BY <1>2, <2>1 DEF IsNumber
  <2>3. g[k] = 2 * g[k - 1] + s[(i + 1) + k - 1] /\ g[k - 1] \in Nat
    BY <1>3 DEF IsNumber
  <2>4. s[(i + 1) + k - 1] \in {0, 1}
    BY <1>1 DEF AreBitsFrom
  <2>5. f[(k - 1) + 1] = Powers[k - 1] + g[k - 1]
    BY <1>5
  <2>6. Powers[(k - 1) + 1] = 2 * Powers[k - 1] /\ Powers[k - 1] \in Nat
    BY PowersSteps
  <2>7. f[k + 1] = Powers[k] + g[k]
    BY <2>1, <2>2, <2>3, <2>4, <2>5, <2>6
  <2> QED BY <2>7
<1>6. n \in S
  <2> HIDE DEF S
  <2> QED BY <1>4, <1>5, InductionUpTo
<1> QED BY <1>2, <1>3, <1>6

(***************************************************************************)
(* Sequences that are joined.                                              *)
(***************************************************************************)
(* The type and the length of a concatenation. *)
LEMMA Joining ==
  ASSUME NEW X, NEW s \in Seq(X), NEW t \in Seq(X)
  PROVE  s \o t \in Seq(X) /\ Len(s \o t) = Len(s) + Len(t)
  OBVIOUS

(* Concatenation is associative. *)
LEMMA Regrouped ==
  ASSUME NEW X, NEW s \in Seq(X), NEW t \in Seq(X), NEW u \in Seq(X)
  PROVE  /\ (s \o t) \o u = s \o (t \o u)
         /\ s \o t \in Seq(X) /\ Len(s \o t) = Len(s) + Len(t)
<1>1. /\ s \o t \in Seq(X) /\ Len(s \o t) = Len(s) + Len(t)
      /\ (s \o t) \o u \in Seq(X) /\ s \o (t \o u) \in Seq(X)
      /\ t \o u \in Seq(X)
  OBVIOUS
<1>2. (s \o t) \o u = s \o (t \o u)
  OBVIOUS
<1> QED BY <1>1, <1>2

(* What the recursion of Joined asks of a function. *)
IsJoin(f, parts, len) ==
  f = [n \in 0 .. len |-> IF n = 0 THEN <<>> ELSE f[n - 1] \o parts[n]]

(* The parts of a sequence can be joined.                                    *)
LEMMA JoinExists ==
  ASSUME NEW parts, NEW len \in Nat
  PROVE  \E f : IsJoin(f, parts, len)
<1> DEFINE S == {n \in Nat : \E f : IsJoin(f, parts, n)}
<1>1. 0 \in S
  <2>1. IsJoin([n \in 0 .. 0 |-> <<>>], parts, 0) BY DEF IsJoin
  <2> QED BY <2>1
<1>2. ASSUME NEW m \in 1 .. len, m - 1 \in S
      PROVE  m \in S
  <2>1. PICK f : IsJoin(f, parts, m - 1) BY <1>2
  <2> DEFINE g == [n \in 0 .. m |-> IF n = m THEN f[m - 1] \o parts[m]
                                             ELSE f[n]]
  <2>2. ASSUME NEW n \in 0 .. m
        PROVE  g[n] = IF n = 0 THEN <<>> ELSE g[n - 1] \o parts[n]
    <3>1. CASE n = m BY <3>1
    <3>2. CASE n # m /\ n # 0
      <4>1. n \in 0 .. m - 1 /\ n - 1 \in 0 .. m - 1 BY <3>2
      <4>2. f[n] = f[n - 1] \o parts[n] BY <4>1, <2>1, <3>2 DEF IsJoin
      <4>3. g[n] = f[n] /\ g[n - 1] = f[n - 1] BY <4>1, <3>2
      <4> HIDE DEF g
      <4> QED BY <4>2, <4>3, <3>2
    <3>3. CASE n = 0
      <4>1. f[0] = <<>> BY <2>1 DEF IsJoin
      <4> QED BY <3>3, <4>1
    <3> QED BY <3>1, <3>2, <3>3
  <2>3. IsJoin(g, parts, m)
    BY <2>2 DEF IsJoin
  <2>4. \E h : IsJoin(h, parts, m)
    BY <2>3
  <2> QED BY <2>4
<1>3. \A n \in 0 .. len : n \in S
  <2> HIDE DEF S
  <2> QED BY <1>1, <1>2, InductionUpTo
<1> QED BY <1>3

(* Joined is a recursive function: it is what its equation says.             *)
LEMMA JoinedIsJoin ==
  ASSUME NEW parts, Len(parts) \in Nat
  PROVE  IsJoin(Joined(parts), parts, Len(parts))
<1> DEFINE f == CHOOSE g : g = [n \in 0 .. Len(parts) |->
                                  IF n = 0 THEN <<>> ELSE g[n - 1] \o parts[n]]
<1>1. Joined(parts) = f
  BY DEF Joined
<1>2. \E g : g = [n \in 0 .. Len(parts) |->
                    IF n = 0 THEN <<>> ELSE g[n - 1] \o parts[n]]
  BY JoinExists DEF IsJoin
<1>3. f = [n \in 0 .. Len(parts) |->
             IF n = 0 THEN <<>> ELSE f[n - 1] \o parts[n]]
  BY <1>2
<1> QED BY <1>1, <1>3 DEF IsJoin

(* Joined is a recursion over the parts.                                     *)
LEMMA JoinedSteps ==
  ASSUME NEW X, NEW parts \in Seq(Seq(X))
  PROVE  /\ Joined(parts)[0] = <<>>
         /\ \A n \in 1 .. Len(parts) :
              Joined(parts)[n] = Joined(parts)[n - 1] \o parts[n]
         /\ \A n \in 0 .. Len(parts) : Joined(parts)[n] \in Seq(X)
<1> DEFINE f == Joined(parts)
<1>0. Len(parts) \in Nat /\ \A n \in 1 .. Len(parts) : parts[n] \in Seq(X)
  OBVIOUS
<1>1. IsJoin(f, parts, Len(parts))
  BY <1>0, JoinedIsJoin
<1> HIDE DEF f
<1>2. f[0] = <<>> /\ \A n \in 1 .. Len(parts) : f[n] = f[n - 1] \o parts[n]
  BY <1>1 DEF IsJoin
<1> DEFINE S == {n \in 0 .. Len(parts) : f[n] \in Seq(X)}
<1>3. 0 \in S
  <2>1. 0 \in 0 .. Len(parts)
    BY <1>0
  <2>2. f[0] \in Seq(X)
    BY <1>2
  <2> QED BY <2>1, <2>2
<1>4. ASSUME NEW n \in 1 .. Len(parts), n - 1 \in S
      PROVE  n \in S
  <2>1. f[n - 1] \in Seq(X)
    BY <1>4
  <2>2. parts[n] \in Seq(X)
    BY <1>0
  <2>3. n \in 0 .. Len(parts)
    BY <1>0
  <2>4. f[n] = f[n - 1] \o parts[n]
    BY <1>2
  <2>5. f[n - 1] \o parts[n] \in Seq(X)
    BY <2>1, <2>2
  <2> QED BY <2>3, <2>4, <2>5
<1>5. \A n \in 0 .. Len(parts) : n \in S
  <2> HIDE DEF S
  <2> QED BY <1>0, <1>3, <1>4, InductionUpTo
<1> QED BY <1>2, <1>5 DEF f

(* Parts behind it do not change what has been joined. *)
LEMMA JoinedStays ==
  ASSUME NEW X, NEW parts \in Seq(Seq(X)), NEW more \in Seq(Seq(X)),
         Len(parts) <= Len(more),
         \A n \in 1 .. Len(parts) : more[n] = parts[n]
  PROVE  \A n \in 0 .. Len(parts) : Joined(more)[n] = Joined(parts)[n]
<1> DEFINE f == Joined(parts)
           g == Joined(more)
           S == {n \in 0 .. Len(parts) : g[n] = f[n]}
<1>1. /\ f[0] = <<>> /\ g[0] = <<>>
      /\ \A n \in 1 .. Len(parts) : f[n] = f[n - 1] \o parts[n]
      /\ \A n \in 1 .. Len(more) : g[n] = g[n - 1] \o more[n]
  BY JoinedSteps
<1> HIDE DEF f, g
<1>2. Len(parts) \in Nat /\ Len(more) \in Nat
  OBVIOUS
<1>3. 0 \in S
  BY <1>1, <1>2
<1>4. ASSUME NEW n \in 1 .. Len(parts), n - 1 \in S
      PROVE  n \in S
  <2>1. g[n - 1] = f[n - 1] /\ n \in 1 .. Len(more) /\ more[n] = parts[n]
    BY <1>2, <1>4
  <2>2. g[n] = f[n]
    BY <1>1, <2>1
  <2> QED BY <1>2, <2>2
<1>5. \A n \in 0 .. Len(parts) : n \in S
  <2> HIDE DEF S
  <2> QED BY <1>2, <1>3, <1>4, InductionUpTo
<1> QED BY <1>5 DEF f, g

(* Nothing joined is nothing. *)
LEMMA JoinedEmpty ==
  ASSUME NEW X, NEW parts \in Seq(Seq(X)),
         \A n \in 1 .. Len(parts) : parts[n] = <<>>
  PROVE  Joined(parts)[Len(parts)] = <<>>
<1> DEFINE f == Joined(parts)
           S == {n \in 0 .. Len(parts) : f[n] = <<>>}
<1>1. f[0] = <<>> /\ \A n \in 1 .. Len(parts) : f[n] = f[n - 1] \o parts[n]
  BY JoinedSteps
<1> HIDE DEF f
<1>2. Len(parts) \in Nat
  OBVIOUS
<1>3. 0 \in S
  BY <1>1, <1>2
<1>4. ASSUME NEW n \in 1 .. Len(parts), n - 1 \in S
      PROVE  n \in S
  <2>1. f[n - 1] = <<>> /\ parts[n] = <<>>
    BY <1>4
  <2>2. f[n] = <<>> \o <<>>
    BY <1>1, <2>1
  <2> QED BY <1>2, <2>2
<1>5. \A n \in 0 .. Len(parts) : n \in S
  <2> HIDE DEF S
  <2> QED BY <1>2, <1>3, <1>4, InductionUpTo
<1> QED BY <1>2, <1>5 DEF f

(* Where a part is found in the whole: from Len(joined before it) + 1 on.    *)
IsPartAt(part, whole, from) ==
  /\ from + Len(part) <= Len(whole)
  /\ \A i \in 1 .. Len(part) : whole[from + i] = part[i]

(* In the parts joined, each part is at its place.                           *)
LEMMA JoinedPart ==
  ASSUME NEW X, NEW parts \in Seq(Seq(X)), NEW n \in 1 .. Len(parts)
  PROVE  /\ Len(Joined(parts)[n]) = Len(Joined(parts)[n - 1]) + Len(parts[n])
         /\ IsPartAt(parts[n], Joined(parts)[Len(parts)],
                     Len(Joined(parts)[n - 1]))
<1> DEFINE len == Len(parts)
           f == Joined(parts)
           from == Len(f[n - 1])
           p == parts[n]
<1>1. /\ f[0] = <<>> /\ \A k \in 1 .. len : f[k] = f[k - 1] \o parts[k]
      /\ \A k \in 0 .. len : f[k] \in Seq(X)
  BY JoinedSteps
<1>2. len \in Nat /\ \A k \in 1 .. len : parts[k] \in Seq(X)
  OBVIOUS
<1> HIDE DEF f
<1>3. /\ f[n - 1] \in Seq(X) /\ p \in Seq(X) /\ f[n] = f[n - 1] \o p
      /\ from \in Nat /\ Len(p) \in Nat
  <2>1. n \in 1 .. len /\ n - 1 \in 0 .. len
    BY <1>2
  <2>2. f[n - 1] \in Seq(X)
    BY <1>1, <2>1
  <2>3. p \in Seq(X)
    BY <1>2, <2>1
  <2>4. f[n] = f[n - 1] \o p
    BY <1>1, <2>1
  <2>5. Len(f[n - 1]) \in Nat /\ Len(p) \in Nat
    <3> HIDE DEF p
    <3> QED BY <2>2, <2>3
  <2> QED BY <2>2, <2>3, <2>4, <2>5
<1>4. Len(f[n]) = from + Len(p)
  BY <1>3
<1>5. IsPartAt(p, f[n], from)
  <2> DEFINE s == f[n - 1]
  <2>1. s \in Seq(X) /\ p \in Seq(X) /\ f[n] = s \o p /\ from = Len(s)
    BY <1>3
  <2> HIDE DEF s, p, from
  <2> QED BY <2>1 DEF IsPartAt
<1> DEFINE S == {d \in Nat : n + d <= len => IsPartAt(p, f[n + d], from)}
<1> HIDE DEF p, from
<1>6. 0 \in S
  BY <1>5
<1>7. ASSUME NEW d \in 1 .. len - n, d - 1 \in S
      PROVE  d \in S
  <2> DEFINE s == f[n + (d - 1)]
             t == parts[n + d]
  <2>1. IsPartAt(p, s, from)
    BY <1>7
  <2>2. n + d \in 1 .. len /\ n + (d - 1) \in 0 .. len
        /\ (n + d) - 1 = n + (d - 1)
    OBVIOUS
  <2>3. s \in Seq(X) /\ t \in Seq(X) /\ f[n + d] = s \o t
    <3>1. f[n + d] = f[(n + d) - 1] \o parts[n + d]
      BY <1>1, <2>2
    <3> QED BY <1>1, <1>2, <2>2, <3>1
  <2> HIDE DEF s, t
  <2>4. IsPartAt(p, s \o t, from)
    BY <1>3, <2>1, <2>3 DEF IsPartAt
  <2>5. d \in Nat /\ IsPartAt(p, f[n + d], from)
    BY <2>3, <2>4
  <2> QED BY <2>5
<1>8. len - n \in S
  <2> DEFINE rest == len - n
  <2>1. rest \in Nat /\ rest \in 0 .. rest
    BY <1>2
  <2>2. \A d \in 1 .. rest : d - 1 \in S => d \in S
    BY <1>7
  <2> HIDE DEF S, rest
  <2>3. \A d \in 0 .. rest : d \in S
    BY <1>6, <2>1, <2>2, InductionUpTo
  <2>4. rest \in S
    BY <2>1, <2>3
  <2> QED BY <2>4 DEF rest
<1>9. IsPartAt(p, f[len], from)
  <2>1. n + (len - n) = len
    BY <1>2
  <2> QED BY <1>2, <1>8, <2>1
<1> QED BY <1>4, <1>9 DEF p, from, f

(***************************************************************************)
(* Numbers that are added up.                                              *)
(***************************************************************************)
LEMMA SumsSteps ==
  ASSUME NEW numbers \in Seq(Nat)
  PROVE  /\ Sums(numbers)[0] = 0
         /\ \A k \in 1 .. Len(numbers) :
              Sums(numbers)[k] = Sums(numbers)[k - 1] + numbers[k]
         /\ \A k \in 0 .. Len(numbers) : Sums(numbers)[k] \in Nat
<1> DEFINE len == Len(numbers)
<1>1. len \in Nat /\ \A k \in 1 .. len : numbers[k] \in Nat
  OBVIOUS
<1> DEFINE step == [p \in (1 .. len) \X Nat |-> p[2] + numbers[p[1]]]
<1>2. step \in [(1 .. len) \X Nat -> Nat]
  BY <1>1
<1>3. PICK f : GoesBy(f, Nat, 0, step, len)
  <2> HIDE DEF step, len
  <2> QED BY <1>1, <1>2, RecursionExists
<1>4. f = [k \in 0 .. len |-> IF k = 0 THEN 0 ELSE f[k - 1] + numbers[k]]
  <2>1. f \in [0 .. len -> Nat] /\ f[0] = 0
    BY <1>3 DEF GoesBy
  <2>2. ASSUME NEW k \in 1 .. len
        PROVE  f[k] = f[k - 1] + numbers[k]
    <3>1. f[k - 1] \in Nat
      <4>1. k - 1 \in 0 .. len
        BY <1>1
      <4> HIDE DEF len
      <4> QED BY <2>1, <4>1
    <3>2. f[k] = step[<<k, f[k - 1]>>]
      BY <1>3 DEF GoesBy
    <3> QED BY <3>1, <3>2
  <2> HIDE DEF step
  <2> QED BY <1>1, <2>1, <2>2
<1> DEFINE g == CHOOSE h : h = [k \in 0 .. len |->
                                  IF k = 0 THEN 0 ELSE h[k - 1] + numbers[k]]
<1>5. g = [k \in 0 .. len |-> IF k = 0 THEN 0 ELSE g[k - 1] + numbers[k]]
  BY <1>4
<1>6. Sums(numbers) = g
  BY DEF Sums
<1> HIDE DEF g
<1>7. g[0] = 0 /\ \A k \in 1 .. len : g[k] = g[k - 1] + numbers[k]
  BY <1>1, <1>5
<1> DEFINE S == {k \in Nat : g[k] \in Nat}
<1>8. \A k \in 0 .. len : k \in S
  <2>1. 0 \in S
    BY <1>7
  <2>2. \A k \in 1 .. len : k - 1 \in S => k \in S
    BY <1>1, <1>7
  <2> HIDE DEF S, len
  <2> QED BY <1>1, <2>1, <2>2, InductionUpTo
<1> QED BY <1>6, <1>7, <1>8

(* Numbers behind them do not change the sums. *)
LEMMA SumsStay ==
  ASSUME NEW numbers \in Seq(Nat), NEW more \in Seq(Nat), NEW len \in Nat,
         len <= Len(numbers), len <= Len(more),
         \A k \in 1 .. len : more[k] = numbers[k]
  PROVE  \A k \in 0 .. len : Sums(more)[k] = Sums(numbers)[k]
<1> DEFINE f == Sums(numbers)
           g == Sums(more)
           S == {k \in Nat : g[k] = f[k]}
<1>1. /\ f[0] = 0 /\ \A k \in 1 .. len : f[k] = f[k - 1] + numbers[k]
      /\ g[0] = 0 /\ \A k \in 1 .. len : g[k] = g[k - 1] + more[k]
  BY SumsSteps
<1> HIDE DEF f, g
<1>2. 0 \in S
  BY <1>1
<1>3. ASSUME NEW k \in 1 .. len, k - 1 \in S
      PROVE  k \in S
  <2>1. g[k - 1] = f[k - 1]
    BY <1>3
  <2> QED BY <1>1, <2>1
<1>4. \A k \in 0 .. len : k \in S
  <2> HIDE DEF S
  <2> QED BY <1>2, <1>3, InductionUpTo
<1> QED BY <1>4 DEF f, g

(* A sum is not smaller than one of its numbers. *)
LEMMA SumsBound ==
  ASSUME NEW numbers \in Seq(Nat), NEW n \in 1 .. Len(numbers)
  PROVE  numbers[n] <= Sums(numbers)[Len(numbers)]
<1> DEFINE f == Sums(numbers)
           len == Len(numbers)
           S == {d \in Nat : n + d <= len => numbers[n] <= f[n + d]}
<1>1. /\ f[0] = 0 /\ \A k \in 1 .. len : f[k] = f[k - 1] + numbers[k]
      /\ \A k \in 0 .. len : f[k] \in Nat
  BY SumsSteps
<1>2. len \in Nat /\ \A k \in 1 .. len : numbers[k] \in Nat
  OBVIOUS
<1> HIDE DEF f, len
<1>3. n \in 1 .. len
  BY DEF len
<1>4. 0 \in S
  <2>1. f[n] = f[n - 1] + numbers[n] /\ f[n - 1] \in Nat /\ numbers[n] \in Nat
    BY <1>1, <1>2, <1>3
  <2> QED BY <1>3, <2>1
<1>5. ASSUME NEW d \in 1 .. len - n, d - 1 \in S
      PROVE  d \in S
  <2>1. /\ n + d \in 1 .. len /\ (n + d) - 1 = n + (d - 1)
        /\ n + (d - 1) \in 0 .. len
    BY <1>2, <1>3
  <2>2. f[n + d] = f[n + (d - 1)] + numbers[n + d]
    BY <1>1, <2>1
  <2>3. f[n + (d - 1)] \in Nat /\ numbers[n + d] \in Nat /\ numbers[n] \in Nat
    BY <1>1, <1>2, <1>3, <2>1
  <2>4. numbers[n] <= f[n + (d - 1)]
    BY <1>5, <2>1
  <2> QED BY <2>2, <2>3, <2>4
<1>6. len - n \in S
  <2> DEFINE rest == len - n
  <2>1. rest \in Nat /\ rest \in 0 .. rest
    BY <1>2, <1>3
  <2>2. \A d \in 1 .. rest : d - 1 \in S => d \in S
    BY <1>5
  <2> HIDE DEF S, rest
  <2>3. \A d \in 0 .. rest : d \in S
    BY <1>4, <2>1, <2>2, InductionUpTo
  <2>4. rest \in S
    BY <2>1, <2>3
  <2> QED BY <2>4 DEF rest
<1>7. n + (len - n) = len
  BY <1>2, <1>3
<1> QED BY <1>2, <1>6, <1>7 DEF f, len
=============================================================================
