----------------------------- MODULE CtmpProofs -----------------------------
(***************************************************************************)
(* calc_checksum(), which sums the words of a message in the byte order of *)
(* the host, yields the checksum that the protocol defines in network      *)
(* order, for every message.                                               *)
(*                                                                         *)
(* The definitions of Ctmp.tla are recursive functions.  A value of one is *)
(* known once some function is shown to satisfy the equation (or CHOOSE    *)
(* could choose anything), and by induction; the prover takes no theorem   *)
(* with an operator as a parameter, so induction is over sets of numbers.  *)
(***************************************************************************)
EXTENDS Ctmp, SequenceTheorems, WellFoundedInduction, TLAPS

-----------------------------------------------------------------------------
(* Induction.                                                              *)

\* A non-empty set of natural numbers has a least element.
LEMMA LeastElement ==
    ASSUME NEW T, T \subseteq Nat, T # {}
    PROVE  \E x \in T : \A y \in T : x <= y
<1> DEFINE R == OpToRel(<, Nat)
<1>1. IsWellFoundedOn(R, Nat)
  BY NatLessThanWellFounded
<1>2. \A x, y \in Nat : x < y => <<x, y>> \in R
  BY DEF OpToRel
<1> HIDE DEF R
<1>3. PICK x \in T : \A y \in T : ~(<<y, x>> \in R)
  BY <1>1, WFMin
<1>4. ASSUME NEW y \in T PROVE x <= y
  <2>1. x \in Nat /\ y \in Nat /\ ~(y < x)
    BY <1>2, <1>3
  <2>2. QED
    BY <2>1
<1>5. QED
  BY <1>4

\* Induction: the numbers from 0 to n are in a set that has 0 and, with each
\* number below n, the next one.
LEMMA InductionTo ==
    ASSUME NEW n \in Nat, NEW T, 0 \in T, \A k \in 0 .. n - 1 : k \in T => k + 1 \in T
    PROVE  0 .. n \subseteq T
<1> SUFFICES ASSUME ~(0 .. n \subseteq T) PROVE FALSE
  OBVIOUS
<1> DEFINE U == (0 .. n) \ T
<1>1. U \subseteq Nat /\ U # {}
  OBVIOUS
<1>2. PICK x \in U : \A y \in U : x <= y
  BY <1>1, LeastElement
<1>3. x # 0 /\ x \in 0 .. n /\ x - 1 \in 0 .. n - 1 /\ x - 1 \notin U
  BY <1>2
<1>4. QED
  BY <1>2, <1>3

\* Induction over an interval whose members rest on all the smaller ones.
LEMMA StrongInduction ==
    ASSUME NEW T, \A k \in Nat : (\A j \in 0 .. k - 1 : j \in T) => k \in T
    PROVE  Nat \subseteq T
<1> SUFFICES ASSUME ~(Nat \subseteq T) PROVE FALSE
  OBVIOUS
<1> DEFINE U == Nat \ T
<1>1. U \subseteq Nat /\ U # {}
  OBVIOUS
<1>2. PICK x \in U : \A y \in U : x <= y
  BY <1>1, LeastElement
<1>3. \A j \in 0 .. x - 1 : j \in T
  BY <1>2
<1>4. QED
  BY <1>2, <1>3

-----------------------------------------------------------------------------
(* Sums.                                                                   *)

\* The partial sums of the numbers w, from the left.
PartialSums(w, P) ==
    /\ P \in [0 .. Len(w) -> Nat]
    /\ P[0] = 0
    /\ \A k \in 1 .. Len(w) : P[k] = P[k - 1] + w[k]

\* Every sequence of numbers has partial sums.
LEMMA PartialSumsExist ==
    ASSUME NEW w \in Seq(Nat)
    PROVE  \E P : PartialSums(w, P)
<1> DEFINE n == Len(w)
           T == {m \in Nat : \E P \in [0 .. m -> Nat] :
                    P[0] = 0 /\ \A k \in 1 .. m : P[k] = P[k - 1] + w[k]}
<1>1. n \in Nat /\ \A k \in 1 .. n : w[k] \in Nat
  OBVIOUS
<1> HIDE DEF n
<1>2. 0 \in T
  <2> DEFINE P == [k \in 0 .. 0 |-> 0]
  <2>1. P \in [0 .. 0 -> Nat] /\ P[0] = 0 /\ \A k \in 1 .. 0 : P[k] = P[k - 1] + w[k]
    OBVIOUS
  <2>2. QED
    BY <2>1
<1>3. ASSUME NEW m \in 0 .. n - 1, m \in T PROVE m + 1 \in T
  <2>1. PICK P \in [0 .. m -> Nat] : P[0] = 0 /\ \A k \in 1 .. m : P[k] = P[k - 1] + w[k]
    BY <1>3
  <2> DEFINE Q == [k \in 0 .. m + 1 |-> IF k = m + 1 THEN P[m] + w[m + 1] ELSE P[k]]
  <2>2. m \in Nat /\ m + 1 \in 1 .. n /\ P[m] + w[m + 1] \in Nat
    BY <1>1
  <2>3. Q \in [0 .. m + 1 -> Nat] /\ Q[0] = 0
    BY <2>1, <2>2
  <2>4. ASSUME NEW k \in 1 .. m + 1 PROVE Q[k] = Q[k - 1] + w[k]
    <3>1. k = m + 1 \/ k \in 1 .. m
      BY <2>2
    <3>2. QED
      BY <2>1, <2>2, <3>1
  <2> HIDE DEF Q
  <2>5. \E R \in [0 .. m + 1 -> Nat] : R[0] = 0 /\ \A k \in 1 .. m + 1 : R[k] = R[k - 1] + w[k]
    BY <2>3, <2>4
  <2>6. m + 1 \in Nat
    BY <2>2
  <2>7. QED
    BY <2>5, <2>6
<1>4. n \in T
  <2> HIDE DEF T
  <2>1. 0 .. n \subseteq T
    BY <1>1, <1>2, <1>3, InductionTo
  <2>2. n \in 0 .. n
    BY <1>1
  <2>3. QED
    BY <2>1, <2>2
<1>6. PICK P \in [0 .. n -> Nat] : P[0] = 0 /\ \A k \in 1 .. n : P[k] = P[k - 1] + w[k]
  BY <1>4
<1>7. QED
  BY <1>6 DEF PartialSums, n

\* Partial sums grow.
LEMMA PartialSumsGrow ==
    ASSUME NEW w \in Seq(Nat), NEW P, PartialSums(w, P)
    PROVE  \A b \in 0 .. Len(w) : \A a \in 0 .. b : P[a] <= P[b]
<1> DEFINE n == Len(w)
           T == {m \in 0 .. n : \A a \in 0 .. m : P[a] <= P[m]}
<1>1. n \in Nat /\ \A k \in 1 .. n : w[k] \in Nat
  OBVIOUS
<1>2. P \in [0 .. n -> Nat] /\ \A k \in 1 .. n : P[k] = P[k - 1] + w[k]
  BY DEF PartialSums
<1> HIDE DEF n
<1>3. 0 \in T
  BY <1>1, <1>2
<1>4. ASSUME NEW m \in 0 .. n - 1, m \in T PROVE m + 1 \in T
  <2>1. m + 1 \in 1 .. n /\ P[m + 1] = P[m] + w[m + 1] /\ w[m + 1] \in Nat /\ P[m] \in Nat
    BY <1>1, <1>2
  <2>2. \A a \in 0 .. m : P[a] <= P[m] /\ P[a] \in Nat
    BY <1>2, <1>4, <1>1
  <2>3. ASSUME NEW a \in 0 .. m + 1 PROVE P[a] <= P[m + 1]
    BY <2>1, <2>2
  <2>4. QED
    BY <2>1, <2>3
<1>5. 0 .. n \subseteq T
  BY <1>1, <1>3, <1>4, InductionTo
<1>6. QED
  BY <1>5 DEF n

\* What a function has to satisfy to be the local function of SumOf.
Halves(w, f) ==
    f = [p \in (1 .. Len(w) + 1) \X (0 .. Len(w)) |->
            LET lo == p[1]
                hi == p[2]
                mid == (lo + hi) \div 2
            IN  IF lo > hi THEN 0
                ELSE IF lo = hi THEN w[lo]
                ELSE f[<<lo, mid>>] + f[<<mid + 1, hi>>]]

\* If any function does, that of SumOf does.
LEMMA SumUnfolds ==
    ASSUME NEW w, NEW f, Halves(w, f)
    PROVE  \E g : Halves(w, g) /\ SumOf(w) = g[<<1, Len(w)>>]
<1> DEFINE g == CHOOSE x : Halves(w, x)
<1>1. Halves(w, g)
  BY Zenon
<1>2. SumOf(w) = g[<<1, Len(w)>>]
  BY Zenon DEF SumOf, Halves
<1>3. QED
  BY <1>1, <1>2

\* The halves of an interval.
LEMMA Middle ==
    ASSUME NEW lo \in Nat, NEW hi \in Nat, lo < hi
    PROVE  /\ (lo + hi) \div 2 \in Nat
           /\ lo <= (lo + hi) \div 2 /\ (lo + hi) \div 2 < hi
OBVIOUS

\* Summing by halves is summing.
LEMMA SumIsPartialSum ==
    ASSUME NEW w \in Seq(Nat), NEW P, PartialSums(w, P)
    PROVE  SumOf(w) = P[Len(w)]
<1> DEFINE n == Len(w)
           D == (1 .. n + 1) \X (0 .. n)
           Val(p) == IF p[1] > p[2] THEN 0 ELSE P[p[2]] - P[p[1] - 1]
           f == [p \in D |-> Val(p)]
<1>1. n \in Nat /\ \A k \in 1 .. n : w[k] \in Nat
  OBVIOUS
<1>2. P \in [0 .. n -> Nat] /\ P[0] = 0 /\ \A k \in 1 .. n : P[k] = P[k - 1] + w[k]
  BY DEF PartialSums
<1>3. ASSUME NEW lo \in 1 .. n + 1, NEW hi \in 0 .. n, lo < hi
      PROVE  LET mid == (lo + hi) \div 2 IN
                /\ <<lo, mid>> \in D /\ <<mid + 1, hi>> \in D
                /\ mid - lo < hi - lo /\ hi - (mid + 1) < hi - lo
                /\ mid - lo \in Nat /\ hi - (mid + 1) \in Nat
                /\ mid \in 1 .. n
  <2> DEFINE mid == (lo + hi) \div 2
  <2>1. lo \in Nat /\ hi \in Nat
    BY <1>1
  <2>2. mid \in Nat /\ lo <= mid /\ mid < hi
    BY <1>3, <2>1, Middle
  <2> HIDE DEF mid, n
  <2>3. QED
    BY <1>1, <2>1, <2>2 DEF mid
<1> HIDE DEF n
<1>4. Halves(w, f)
  <2> SUFFICES ASSUME NEW lo \in 1 .. n + 1, NEW hi \in 0 .. n
               PROVE  Val(<<lo, hi>>) =
                        IF lo > hi THEN 0
                        ELSE IF lo = hi THEN w[lo]
                        ELSE f[<<lo, (lo + hi) \div 2>>] + f[<<(lo + hi) \div 2 + 1, hi>>]
    BY ZenonT(30) DEF Halves, n
  <2>1. CASE lo > hi
    BY <2>1
  <2>2. CASE lo = hi
    <3>1. lo \in 1 .. n /\ ~(lo > lo) /\ P[lo] = P[lo - 1] + w[lo] /\ P[lo] \in Nat /\ P[lo - 1] \in Nat /\ w[lo] \in Nat
      BY <1>1, <1>2, <2>2
    <3>2. QED
      BY <2>2, <3>1
  <2>3. CASE lo < hi
    <3> DEFINE mid == (lo + hi) \div 2
    <3>1. <<lo, mid>> \in D /\ <<mid + 1, hi>> \in D /\ mid \in 1 .. n /\ lo <= mid /\ mid + 1 <= hi
      BY <1>1, <1>3, <2>3
    <3> HIDE DEF mid
    <3>2. f[<<lo, mid>>] = P[mid] - P[lo - 1]
      BY <1>1, <3>1
    <3>3. f[<<mid + 1, hi>>] = P[hi] - P[mid]
      BY <1>1, <3>1
    <3>4. P[mid] \in Nat /\ P[lo - 1] \in Nat /\ P[hi] \in Nat
      <4>1. mid \in 0 .. n /\ lo - 1 \in 0 .. n /\ hi \in 0 .. n
        BY <1>1, <2>3, <3>1
      <4>2. QED
        BY <1>2, <4>1
    <3>5. QED
      BY <1>1, <2>3, <3>2, <3>3, <3>4, SMTT(30) DEF mid
  <2>4. QED
    BY <1>1, <2>1, <2>2, <2>3
<1>5. PICK g : Halves(w, g) /\ SumOf(w) = g[<<1, n>>]
  BY <1>4, SumUnfolds DEF n
<1>6. \A lo \in 1 .. n + 1, hi \in 0 .. n :
        g[<<lo, hi>>] = IF lo > hi THEN 0
                        ELSE IF lo = hi THEN w[lo]
                        ELSE g[<<lo, (lo + hi) \div 2>>] + g[<<(lo + hi) \div 2 + 1, hi>>]
  BY <1>5 DEF Halves, n
<1> DEFINE T == {d \in Nat : \A lo \in 1 .. n, hi \in 1 .. n :
                    hi - lo = d => g[<<lo, hi>>] = P[hi] - P[lo - 1]}
<1>7. ASSUME NEW d \in Nat, \A j \in 0 .. d - 1 : j \in T PROVE d \in T
  <2> SUFFICES ASSUME NEW lo \in 1 .. n, NEW hi \in 1 .. n, hi - lo = d
               PROVE  g[<<lo, hi>>] = P[hi] - P[lo - 1]
    OBVIOUS
  <2>0. P[lo - 1] \in Nat /\ P[hi] \in Nat /\ lo \in 1 .. n + 1 /\ hi \in 0 .. n
    BY <1>1, <1>2
  <2>1. CASE d = 0
    <3>1. lo = hi /\ P[lo] = P[lo - 1] + w[lo] /\ w[lo] \in Nat
      BY <1>1, <1>2, <2>1
    <3>2. g[<<lo, lo>>] = w[lo]
      <4>1. lo \in 1 .. n + 1 /\ lo \in 0 .. n /\ ~(lo > lo)
        BY <1>1
      <4>2. QED
        BY <1>6, <4>1
    <3>3. QED
      BY <2>0, <3>1, <3>2
  <2>2. CASE d > 0
    <3> DEFINE mid == (lo + hi) \div 2
    <3>1. lo < hi
      BY <1>1, <2>2
    <3>2. /\ mid - lo < hi - lo /\ hi - (mid + 1) < hi - lo
          /\ mid - lo \in Nat /\ hi - (mid + 1) \in Nat /\ mid \in 1 .. n
      BY <1>3, <2>0, <3>1
    <3>3. g[<<lo, hi>>] = g[<<lo, mid>>] + g[<<mid + 1, hi>>]
      BY <1>1, <1>6, <2>0, <3>1
    <3> HIDE DEF mid
    <3>4. mid - lo \in T /\ hi - (mid + 1) \in T /\ mid + 1 \in 1 .. n
      <4>1. mid - lo \in 0 .. d - 1 /\ hi - (mid + 1) \in 0 .. d - 1 /\ mid + 1 \in 1 .. n
        BY <1>1, <3>1, <3>2
      <4>2. QED
        BY <1>7, <4>1
    <3>5. g[<<lo, mid>>] = P[mid] - P[lo - 1]
      BY <3>2, <3>4
    <3>6. g[<<mid + 1, hi>>] = P[hi] - P[mid + 1 - 1]
      BY <3>2, <3>4
    <3>7. mid + 1 - 1 = mid /\ P[mid] \in Nat
      BY <1>1, <1>2, <3>2
    <3>8. QED
      BY <2>0, <3>3, <3>5, <3>6, <3>7
  <2>3. QED
    BY <2>1, <2>2
<1>8. Nat \subseteq T
  BY <1>7, StrongInduction
<1>9. CASE n = 0
  <2>1. 1 \in 1 .. n + 1 /\ 0 \in 0 .. n /\ 1 > 0
    BY <1>9
  <2>2. g[<<1, 0>>] = 0
    BY <1>6, <2>1
  <2>3. QED
    BY <1>2, <1>5, <1>9, <2>2 DEF n
<1>10. CASE n > 0
  <2>1. n - 1 \in Nat /\ 1 \in 1 .. n /\ n \in 1 .. n
    BY <1>1, <1>10
  <2>2. g[<<1, n>>] = P[n] - P[1 - 1]
    <3> HIDE DEF T
    <3>1. n - 1 \in T
      BY <1>8, <2>1
    <3> USE DEF T
    <3>2. QED
      BY <2>1, <3>1
  <2>3. P[n] \in Nat
    BY <1>1, <1>2
  <2>4. QED
    BY <1>2, <1>5, <2>2, <2>3 DEF n
<1>11. QED
  BY <1>1, <1>9, <1>10 DEF n

-----------------------------------------------------------------------------
(* Folding.                                                                *)

\* fold satisfies its equation: a function that does is the remainder of the
\* division by 65535, with 65535 for 0 unless the sum was 0.
LEMMA FoldUnfolds ==
    fold = [sum \in Nat |->
              IF sum < 65536 THEN sum ELSE fold[(sum % 65536) + (sum \div 65536)]]
<1> DEFINE f == [x \in Nat |-> IF x = 0 THEN 0 ELSE ((x - 1) % 65535) + 1]
<1>1. f = [sum \in Nat |-> IF sum < 65536 THEN sum ELSE f[(sum % 65536) + (sum \div 65536)]]
  <2> SUFFICES ASSUME NEW x \in Nat
               PROVE  f[x] = IF x < 65536 THEN x ELSE f[(x % 65536) + (x \div 65536)]
    OBVIOUS
  <2>1. CASE x < 65536
    BY <2>1
  <2>2. CASE x >= 65536
    <3> DEFINE q == x \div 65536
               y == (x % 65536) + q
    <3>1. q \in Nat /\ q >= 1 /\ x % 65536 \in Nat /\ x = 65536 * q + (x % 65536)
      BY <2>2
    <3>2. y \in Nat /\ y >= 1 /\ x - 1 = (y - 1) + 65535 * q
      BY <3>1
    <3> HIDE DEF y, q
    <3>3. (x - 1) % 65535 = (y - 1) % 65535
      BY <3>1, <3>2
    <3>4. QED
      BY <2>2, <3>2, <3>3 DEF y, q
  <2>3. QED
    BY <2>1, <2>2
<1>2. QED
  BY <1>1 DEF fold

\* What calc_checksum()'s last loop makes of a sum: a 16-bit number, the same
\* modulo 2^16 - 1, and 0 only for 0.
LEMMA FoldValue ==
    ASSUME NEW x \in Nat
    PROVE  /\ fold[x] \in Nat /\ fold[x] <= 65535
           /\ x > 0 => fold[x] > 0
           /\ \E q \in Nat : x = fold[x] + 65535 * q
<1> DEFINE T == {y \in Nat : /\ fold[y] \in Nat /\ fold[y] <= 65535
                             /\ y > 0 => fold[y] > 0
                             /\ \E q \in Nat : y = fold[y] + 65535 * q}
<1>1. ASSUME NEW y \in Nat, \A j \in 0 .. y - 1 : j \in T PROVE y \in T
  <2>1. CASE y < 65536
    <3>1. fold[y] = y
      BY <2>1, FoldUnfolds
    <3>2. y = y + 65535 * 0 /\ 0 \in Nat /\ y <= 65535
      BY <2>1
    <3>3. QED
      BY <3>1, <3>2
  <2>2. CASE y >= 65536
    <3> DEFINE q == y \div 65536
               z == (y % 65536) + q
    <3>1. q \in Nat /\ q >= 1 /\ y % 65536 \in Nat /\ y = 65536 * q + (y % 65536)
      BY <2>2
    <3>2. z \in 0 .. y - 1 /\ z > 0 /\ y = z + 65535 * q
      BY <3>1
    <3>3. fold[y] = fold[z]
      BY <2>2, FoldUnfolds
    <3> HIDE DEF z, q
    <3>4. z \in T
      BY <1>1, <3>2
    <3>5. PICK r \in Nat : z = fold[z] + 65535 * r
      BY <3>4
    <3>6. fold[z] \in Nat /\ fold[z] <= 65535 /\ fold[z] > 0
      BY <3>2, <3>4
    <3>7. y = fold[z] + 65535 * (q + r) /\ q + r \in Nat
      BY <3>1, <3>2, <3>5, <3>6
    <3>8. QED
      BY <3>3, <3>6, <3>7
  <2>3. QED
    BY <2>1, <2>2
<1>2. x \in T
  <2> HIDE DEF T
  <2>1. Nat \subseteq T
    BY <1>1, StrongInduction
  <2>2. QED
    BY <2>1
<1>3. QED
  BY <1>2

-----------------------------------------------------------------------------
(* Host order and network order.                                           *)

\* What the protocol adds up for bytes b.
LEMMA NetBytesType ==
    ASSUME NEW b \in Seq(Byte)
    PROVE  /\ NetBytes(b) \in Seq(Nat) /\ Len(NetBytes(b)) = Len(b)
           /\ \A i \in 1 .. Len(b) : b[i] \in Nat /\ b[i] <= 255
<1>1. \A i \in 1 .. Len(b) : b[i] \in Nat /\ b[i] <= 255
  <2>1. \A i \in 1 .. Len(b) : b[i] \in Byte
    OBVIOUS
  <2>2. \A x \in Byte : x \in Nat /\ x <= 255
    BY DEF Byte
  <2>3. QED
    BY <2>1, <2>2
<1>2. \A i \in 1 .. Len(b) : (IF i % 2 = 1 THEN 256 * b[i] ELSE b[i]) \in Nat
  BY <1>1
<1>3. QED
  BY <1>1, <1>2 DEF NetBytes

\* What calc_checksum() adds up for bytes b, a last odd one apart.
LEMMA HostWordsType ==
    ASSUME NEW b \in Seq(Byte)
    PROVE  /\ HostWords(b) \in Seq(Nat) /\ Len(HostWords(b)) = Len(b) \div 2
           /\ Len(b) \div 2 \in Nat
<1> DEFINE h == Len(b) \div 2
<1>1. Len(b) \in Nat
  OBVIOUS
<1>2. h \in Nat /\ 2 * h <= Len(b)
  BY <1>1
<1>3. ASSUME NEW i \in 1 .. h PROVE b[2 * i - 1] + 256 * b[2 * i] \in Nat
  <2>1. 2 * i - 1 \in 1 .. Len(b) /\ 2 * i \in 1 .. Len(b)
    BY <1>1, <1>2
  <2>2. b[2 * i - 1] \in Nat /\ b[2 * i] \in Nat
    BY <2>1, NetBytesType
  <2>3. QED
    BY <2>2
<1>4. QED
  BY <1>2, <1>3 DEF HostWords

\* Swapping the bytes of a word multiplies it by 256, modulo 2^16 - 1.
LEMMA SwapWord ==
    ASSUME NEW a \in Nat, NEW c \in Nat, NEW q \in Nat, NEW x \in Nat, NEW y \in Nat,
           256 * a = c + 65535 * q
    PROVE  256 * (a + 256 * x + y) = (c + x + 256 * y) + 65535 * (q + x)
OBVIOUS

\* The sum of the words in host order is 256 times that in network order, modulo
\* 2^16 - 1: swapping the bytes of a word is a multiplication by 256, and a
\* last odd byte, added as it is, is the high byte of a word.
LEMMA SwappedSum ==
    ASSUME NEW b \in Seq(Byte)
    PROVE  /\ SumOf(NetBytes(b)) \in Nat
           /\ SumOfWords(b) + Leftover(b) \in Nat
           /\ \E q \in Nat :
                256 * SumOf(NetBytes(b)) = SumOfWords(b) + Leftover(b) + 65535 * q
<1> DEFINE n == Len(b)
           h == n \div 2
           w == HostWords(b)
           v == NetBytes(b)
<1>1. n \in Nat /\ h \in Nat /\ n = 2 * h + (n % 2) /\ n % 2 \in {0, 1}
  <2>1. n \in Nat
    OBVIOUS
  <2> HIDE DEF n
  <2>2. QED
    BY <2>1
<1>2. v \in Seq(Nat) /\ Len(v) = n /\ w \in Seq(Nat) /\ Len(w) = h
  BY NetBytesType, HostWordsType
<1>3. \A i \in 1 .. n : b[i] \in Nat
  BY NetBytesType
<1>4. \A i \in 1 .. n : v[i] = IF i % 2 = 1 THEN 256 * b[i] ELSE b[i]
  BY DEF NetBytes
<1>5. \A i \in 1 .. h : w[i] = b[2 * i - 1] + 256 * b[2 * i]
  BY DEF HostWords
<1> HIDE DEF n, h, w, v
<1>6. PICK PN : PartialSums(v, PN)
  BY <1>2, PartialSumsExist
<1>7. PICK PH : PartialSums(w, PH)
  BY <1>2, PartialSumsExist
<1>8. /\ PN \in [0 .. n -> Nat] /\ PN[0] = 0 /\ \A k \in 1 .. n : PN[k] = PN[k - 1] + v[k]
      /\ PH \in [0 .. h -> Nat] /\ PH[0] = 0 /\ \A k \in 1 .. h : PH[k] = PH[k - 1] + w[k]
  BY <1>2, <1>6, <1>7 DEF PartialSums
<1>9. SumOf(v) = PN[n] /\ SumOf(w) = PH[h]
  BY <1>2, <1>6, <1>7, SumIsPartialSum
<1> DEFINE T == {i \in 0 .. h : \E q \in Nat : 256 * PN[2 * i] = PH[i] + 65535 * q}
<1>10. 0 \in T
  <2>1. 256 * PN[2 * 0] = PH[0] + 65535 * 0 /\ 0 \in 0 .. h
    BY <1>1, <1>8
  <2>2. QED
    BY <2>1
<1>11. ASSUME NEW i \in 0 .. h - 1, i \in T PROVE i + 1 \in T
  <2>1. PICK q \in Nat : 256 * PN[2 * i] = PH[i] + 65535 * q
    BY <1>11
  <2>2. /\ i + 1 \in 1 .. h /\ 2 * i \in 0 .. n /\ 2 * i + 1 \in 1 .. n /\ 2 * i + 2 \in 1 .. n
        /\ (2 * i + 1) % 2 = 1 /\ (2 * i + 2) % 2 = 0
    <3>1. i \in Nat /\ i + 1 <= h /\ 2 * h <= n
      BY <1>1
    <3>2. QED
      BY <1>1, <3>1
  <2>3. PN[2 * i + 1] = PN[2 * i] + 256 * b[2 * i + 1]
    BY <1>4, <1>8, <2>2
  <2>4. PN[2 * i + 2] = PN[2 * i + 1] + b[2 * i + 2]
    <3>1. 2 * i + 2 - 1 = 2 * i + 1 /\ v[2 * i + 2] = b[2 * i + 2]
      BY <1>4, <2>2
    <3>2. PN[2 * i + 2] = PN[2 * i + 2 - 1] + v[2 * i + 2]
      BY <1>8, <2>2
    <3>3. QED
      BY <3>1, <3>2
  <2>5. PH[i + 1] = PH[i] + b[2 * i + 1] + 256 * b[2 * i + 2]
    <3>1. i + 1 - 1 = i /\ 2 * (i + 1) - 1 = 2 * i + 1 /\ 2 * (i + 1) = 2 * i + 2
      BY <2>2
    <3>2. PH[i + 1] = PH[i + 1 - 1] + w[i + 1] /\ w[i + 1] = b[2 * (i + 1) - 1] + 256 * b[2 * (i + 1)]
      BY <1>5, <1>8, <2>2
    <3>3. b[2 * i + 1] \in Nat /\ b[2 * i + 2] \in Nat /\ PH[i] \in Nat
      BY <1>1, <1>3, <1>8, <2>2, SMTT(30)
    <3>4. QED
      BY <3>1, <3>2, <3>3
  <2>6. b[2 * i + 1] \in Nat /\ b[2 * i + 2] \in Nat /\ PN[2 * i] \in Nat /\ PH[i] \in Nat
    BY <1>1, <1>3, <1>8, <2>2, SMTT(30)
  <2>7. 256 * PN[2 * (i + 1)] = PH[i + 1] + 65535 * (q + b[2 * i + 1]) /\ q + b[2 * i + 1] \in Nat
    <3> DEFINE a == PN[2 * i]
               c == PH[i]
               x == b[2 * i + 1]
               y == b[2 * i + 2]
    <3>1. PN[2 * (i + 1)] = a + 256 * x + y
      <4>1. 2 * (i + 1) = 2 * i + 2
        BY <2>2
      <4>2. QED
        BY <2>3, <2>4, <4>1
    <3>2. a \in Nat /\ c \in Nat /\ x \in Nat /\ y \in Nat /\ 256 * a = c + 65535 * q
      BY <2>1, <2>6
    <3>3. PH[i + 1] = c + x + 256 * y
      BY <2>5
    <3> HIDE DEF a, c, x, y
    <3>4. 256 * (a + 256 * x + y) = (c + x + 256 * y) + 65535 * (q + x)
      BY <3>2, SwapWord
    <3>5. q + x \in Nat
      BY <3>2
    <3>6. 256 * PN[2 * (i + 1)] = PH[i + 1] + 65535 * (q + x)
      <4>1. 256 * PN[2 * (i + 1)] = 256 * (a + 256 * x + y)
        BY <3>1
      <4>2. PH[i + 1] + 65535 * (q + x) = (c + x + 256 * y) + 65535 * (q + x)
        BY <3>3
      <4>3. QED
        BY <3>4, <4>1, <4>2
    <3>7. QED
      BY <3>5, <3>6 DEF x
  <2>8. i + 1 \in 0 .. h
    BY <1>1
  <2>9. QED
    BY <2>7, <2>8
<1>12. h \in T
  <2> HIDE DEF T
  <2>1. 0 .. h \subseteq T
    BY <1>1, <1>10, <1>11, InductionTo
  <2>2. h \in 0 .. h
    BY <1>1
  <2>3. QED
    BY <2>1, <2>2
<1>13. PICK q \in Nat : 256 * PN[2 * h] = PH[h] + 65535 * q
  BY <1>12
<1>14. PN[n] \in Nat /\ PH[h] \in Nat
  <2>1. n \in 0 .. n /\ h \in 0 .. h
    BY <1>1
  <2>2. QED
    BY <1>8, <2>1
<1>15. CASE n % 2 = 0
  <2>1. n = 2 * h /\ Leftover(b) = 0
    BY <1>1, <1>15 DEF Leftover, n
  <2>2. QED
    BY <1>9, <1>13, <1>14, <2>1 DEF SumOfWords, v, w
<1>16. CASE n % 2 = 1
  <2>1. n - 1 = 2 * h /\ n \in 1 .. n /\ Leftover(b) = b[n] /\ b[n] \in Nat
    BY <1>1, <1>3, <1>16 DEF Leftover, n
  <2>2. PN[n] = PN[2 * h] + 256 * b[n]
    BY <1>4, <1>8, <1>16, <2>1
  <2>3. PN[2 * h] \in Nat
    BY <1>1, <1>8
  <2>4. 256 * PN[n] = PH[h] + b[n] + 65535 * (q + b[n]) /\ q + b[n] \in Nat
    <3> DEFINE a == PN[2 * h]
               c == PH[h]
               x == b[n]
    <3>1. a \in Nat /\ c \in Nat /\ x \in Nat /\ 256 * a = c + 65535 * q /\ PN[n] = a + 256 * x
      BY <1>13, <1>14, <2>1, <2>2, <2>3
    <3> HIDE DEF a, c, x
    <3>2. 256 * (a + 256 * x + 0) = (c + x + 256 * 0) + 65535 * (q + x)
      BY <3>1, SwapWord
    <3>3. 256 * PN[n] = c + x + 65535 * (q + x) /\ q + x \in Nat
      BY <3>1, <3>2
    <3>4. QED
      BY <3>3 DEF c, x
  <2>5. QED
    <3>1. SumOf(NetBytes(b)) = PN[n] /\ SumOfWords(b) + Leftover(b) = PH[h] + b[n]
      BY <1>9, <2>1 DEF SumOfWords, v, w
    <3>2. PH[h] + b[n] \in Nat
      BY <1>14, <2>1
    <3>3. QED
      BY <1>14, <2>4, <3>1, <3>2
<1>17. QED
  BY <1>1, <1>15, <1>16

\* Byte-swapped fields and sums that are equal modulo 2^16 - 1 have byte-swapped
\* complements.  x and y are the bytes of the checksum field, H and N the sums in
\* host and in network order, f is H folded.
LEMMA SwappedComplement ==
    ASSUME NEW x \in Nat, NEW y \in Nat, x <= 255, y <= 255,
           NEW H \in Nat, NEW N \in Nat, NEW q \in Nat, 256 * N = H + 65535 * q,
           NEW f \in Nat, 0 < f, f <= 65535, NEW p \in Nat, H = f + 65535 * p
    PROVE  x + 256 * y = 65535 - f <=>
             256 * x + y = IF N % 65535 = 0 THEN 0 ELSE 65535 - (N % 65535)
<1> DEFINE k == N \div 65535
           r == N % 65535
           t == p + q - 256 * k
           F == x + 256 * y
           G == 256 * x + y
           D == IF r = 0 THEN 0 ELSE 65535 - r
<1>1. N = 65535 * k + r /\ k \in Nat /\ r \in Nat /\ r < 65535
  OBVIOUS
<1>2. t \in Int
  BY <1>1
<1>3. 256 * G = F + 65535 * x /\ F \in Nat /\ G \in Nat /\ G <= 65535 /\ F <= 65535
  OBVIOUS
<1>4. G = 65535 => F = 65535
  OBVIOUS
<1>5. D \in Nat /\ D <= 65534
  BY <1>1
<1> HIDE DEF k, r, F, G
<1>6. 256 * r = f + 65535 * t
  BY <1>1
<1> HIDE DEF t
<1>7. ASSUME F = 65535 - f PROVE G = D
  <2>1. 256 * (G + r) = 65535 * (1 + x + t)
    BY <1>1, <1>2, <1>3, <1>6, <1>7
  <2>2. G + r = 65535 * (256 * (1 + x + t) - (G + r))
    BY <1>1, <1>2, <1>3, <2>1
  <2> DEFINE j == 256 * (1 + x + t) - (G + r)
  <2>3. j \in Int /\ G + r = 65535 * j
    BY <1>1, <1>2, <1>3, <2>2
  <2> HIDE DEF j
  <2>4. j = 0 \/ j = 1
    BY <1>1, <1>3, <2>3
  <2>5. G # 65535
    BY <1>4, <1>7
  <2>6. QED
    BY <1>1, <1>3, <2>3, <2>4, <2>5
<1>8. ASSUME G = D PROVE F = 65535 - f
  <2>1. PICK j \in {0, 1} : G + r = 65535 * j
    BY <1>1, <1>3, <1>8
  <2>2. F + f = 65535 * (256 * j - x - t)
    BY <1>1, <1>2, <1>3, <1>6, <2>1
  <2> DEFINE i == 256 * j - x - t
  <2>3. i \in Int /\ F + f = 65535 * i
    BY <1>2, <2>1, <2>2
  <2> HIDE DEF i
  <2>4. i = 1 \/ i = 2
    BY <1>3, <2>3
  <2>5. i = 2 => F = 65535
    BY <1>3, <2>3
  <2>6. F # 65535
    BY <1>3, <1>5, <1>8
  <2>7. QED
    BY <1>3, <2>3, <2>4, <2>5, <2>6
<1>9. QED
  BY <1>7, <1>8 DEF F, G, r

\* The sum over the data is made of numbers.
LEMMA DataSumType ==
    ASSUME NEW b \in Seq(Byte)
    PROVE  SumOfWords(b) \in Nat /\ Leftover(b) \in Nat
<1> DEFINE w == HostWords(b)
<1>1. w \in Seq(Nat)
  BY HostWordsType
<1>2. Len(w) \in Nat
  BY <1>1
<1> HIDE DEF w
<1>3. PICK P : PartialSums(w, P)
  BY <1>1, PartialSumsExist
<1>4. SumOf(w) = P[Len(w)] /\ P \in [0 .. Len(w) -> Nat]
  BY <1>1, <1>3, SumIsPartialSum DEF PartialSums
<1>5. SumOf(w) \in Nat
  BY <1>2, <1>4
<1>6. Leftover(b) \in Nat
  <2>1. Len(b) \in Nat /\ \A i \in 1 .. Len(b) : b[i] \in Nat
    BY NetBytesType
  <2>2. Len(b) % 2 = 1 => Len(b) \in 1 .. Len(b)
    BY <2>1
  <2>3. QED
    BY <2>1, <2>2 DEF Leftover
<1>7. QED
  BY <1>5, <1>6 DEF SumOfWords, w

\* The copy of the header that calc_checksum() works on is a header, with MAGIC
\* bytes: its sum is not 0.
LEMMA FilledSum ==
    ASSUME NEW h \in [1 .. HEADER_LENGTH -> Byte]
    PROVE  /\ Filled(h) \in Seq(Byte) /\ Len(Filled(h)) = 8
           /\ SumOfWords(Filled(h)) \in Nat /\ SumOfWords(Filled(h)) > 0
           /\ Leftover(Filled(h)) = 0
<1> DEFINE b == Filled(h)
           w == HostWords(b)
<1>1. b \in [1 .. 8 -> Byte] /\ b[5] = 204 /\ b[6] = 204
  <2>1. MAGIC \in Byte
    BY DEF MAGIC, Byte
  <2>2. QED
    BY <2>1 DEF Filled, MAGIC, HEADER_LENGTH
<1>2. b \in Seq(Byte) /\ Len(b) = 8
  <2> HIDE DEF b
  <2>1. b \in Seq(Byte)
    <3>1. 8 \in Nat /\ Seq(Byte) = UNION {[1 .. n -> Byte] : n \in Nat}
      BY SeqDef
    <3>2. b \in [1 .. 8 -> Byte]
      BY <1>1
    <3>3. QED
      BY <3>1, <3>2
  <2>2. DOMAIN b = 1 .. 8
    BY <1>1
  <2>3. QED
    BY <2>1, <2>2
<1>3. Leftover(b) = 0
  BY <1>2 DEF Leftover
<1>4. w \in Seq(Nat) /\ Len(w) = 4
  <2>1. w \in Seq(Nat) /\ Len(w) = Len(b) \div 2
    BY <1>2, HostWordsType
  <2>2. QED
    BY <1>2, <2>1
<1>5. w[3] = 204 + 256 * 204
  <2>1. 3 \in 1 .. Len(b) \div 2
    BY <1>2
  <2>2. w[3] = b[2 * 3 - 1] + 256 * b[2 * 3]
    BY <2>1 DEF HostWords
  <2>3. QED
    BY <1>1, <2>2
<1> HIDE DEF b, w
<1>6. PICK P : PartialSums(w, P)
  BY <1>4, PartialSumsExist
<1>7. SumOfWords(b) = P[4]
  BY <1>4, <1>6, SumIsPartialSum DEF SumOfWords, w
<1>8. P \in [0 .. 4 -> Nat] /\ P[3] = P[2] + w[3] /\ P[4] = P[3] + w[4] /\ w[4] \in Nat
  <2>1. P \in [0 .. 4 -> Nat] /\ \A k \in 1 .. 4 : P[k] = P[k - 1] + w[k]
    BY <1>4, <1>6 DEF PartialSums
  <2>2. 3 - 1 = 2 /\ 4 - 1 = 3 /\ 3 \in 1 .. 4 /\ 4 \in 1 .. 4
    OBVIOUS
  <2>3. P[3] = P[3 - 1] + w[3] /\ P[4] = P[4 - 1] + w[4]
    BY <2>1, <2>2
  <2>4. w[4] \in Nat
    <3>1. w \in Seq(Nat) /\ 4 \in 1 .. Len(w)
      BY <1>4
    <3>2. QED
      BY <3>1, ElementOfSeq
  <2>5. QED
    BY <2>1, <2>2, <2>3, <2>4
<1>9. P[2] \in Nat /\ P[3] \in Nat /\ P[4] \in Nat
  BY <1>8
<1>10. P[4] > 0
  BY <1>5, <1>8, <1>9
<1>11. QED
  BY <1>2, <1>3, <1>7, <1>9, <1>10 DEF b

\* The checksum in the header is the one calc_checksum() computes if and only if
\* it is the one that the protocol defines.
THEOREM ChecksumIsTheProtocols ==
    ASSUME NEW m \in ctmp_msg
    PROVE  header_checksum(m.header) = calc_checksum(m) <=>
             256 * m.header[5] + m.header[6] = NetChecksum(m)
<1> DEFINE h == m.header
           d == m.data
           b == Filled(h)
           H == SumOfWords(b) + SumOfWords(d) + Leftover(d)
           N == SumOf(NetBytes(b)) + SumOf(NetBytes(d))
           x == h[5]
           y == h[6]
<1>1. h \in [1 .. HEADER_LENGTH -> Byte] /\ d \in Seq(Byte)
  BY DEF ctmp_msg
<1>2. x \in Nat /\ y \in Nat /\ x <= 255 /\ y <= 255
  <2>1. h[5] \in Byte /\ h[6] \in Byte
    BY <1>1 DEF HEADER_LENGTH
  <2>2. \A z \in Byte : z \in Nat /\ z <= 255
    BY DEF Byte
  <2>3. QED
    BY <2>1, <2>2
<1>3. /\ b \in Seq(Byte) /\ SumOfWords(b) \in Nat /\ SumOfWords(b) > 0 /\ Leftover(b) = 0
  BY <1>1, FilledSum
<1> HIDE DEF b
<1>4. PICK q1 \in Nat : 256 * SumOf(NetBytes(b)) = SumOfWords(b) + Leftover(b) + 65535 * q1
  BY <1>3, SwappedSum
<1>5. PICK q2 \in Nat : 256 * SumOf(NetBytes(d)) = SumOfWords(d) + Leftover(d) + 65535 * q2
  BY <1>1, SwappedSum
<1>6. SumOf(NetBytes(b)) \in Nat /\ SumOf(NetBytes(d)) \in Nat /\ SumOfWords(d) + Leftover(d) \in Nat
  BY <1>1, <1>3, SwappedSum
<1>7. SumOfWords(d) \in Nat /\ Leftover(d) \in Nat
  BY <1>1, DataSumType
<1>8. H \in Nat /\ H > 0 /\ N \in Nat /\ 256 * N = H + 65535 * (q1 + q2) /\ q1 + q2 \in Nat
  <2> DEFINE b1 == SumOfWords(b)
             n1 == SumOf(NetBytes(b))
             d1 == SumOfWords(d)
             l1 == Leftover(d)
             n2 == SumOf(NetBytes(d))
  <2>1. /\ b1 \in Nat /\ b1 > 0 /\ d1 \in Nat /\ l1 \in Nat /\ n1 \in Nat /\ n2 \in Nat
        /\ 256 * n1 = b1 + 0 + 65535 * q1 /\ 256 * n2 = d1 + l1 + 65535 * q2
    BY <1>3, <1>4, <1>5, <1>6, <1>7
  <2> HIDE DEF b1, n1, d1, l1, n2
  <2>2. /\ b1 + d1 + l1 \in Nat /\ b1 + d1 + l1 > 0 /\ n1 + n2 \in Nat
        /\ 256 * (n1 + n2) = (b1 + d1 + l1) + 65535 * (q1 + q2) /\ q1 + q2 \in Nat
    BY <2>1
  <2>3. QED
    BY <2>2 DEF b1, n1, d1, l1, n2
<1>9. calc_checksum(m) = 65535 - fold[H]
  BY DEF calc_checksum, b
<1>10. NetChecksum(m) = IF N % 65535 = 0 THEN 0 ELSE 65535 - (N % 65535)
  BY DEF NetChecksum, b
<1>11. header_checksum(m.header) = x + 256 * y
  BY DEF header_checksum
<1> HIDE DEF H, N, x, y
<1>12. PICK p \in Nat : H = fold[H] + 65535 * p
  BY <1>8, FoldValue
<1>13. fold[H] \in Nat /\ 0 < fold[H] /\ fold[H] <= 65535
  BY <1>8, FoldValue
<1>14. x + 256 * y = 65535 - fold[H] <=>
         256 * x + y = IF N % 65535 = 0 THEN 0 ELSE 65535 - (N % 65535)
  BY <1>2, <1>8, <1>12, <1>13, SwappedComplement
<1>15. QED
  BY <1>9, <1>10, <1>11, <1>14 DEF x, y
=============================================================================
