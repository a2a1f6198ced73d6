---------------------------- MODULE RequestsProofs ----------------------------
(***************************************************************************)
(* What holds of the requests, their answers and their bytes, whatever     *)
(* chunks they arrive in, for any modules, hosts and lists, any word of at *)
(* least eight bits, any number of requests and of workers. First the      *)
(* formats: numbers, fields and messages are read as they were written.    *)
(* Then a connection carries what is sent, in order. Then the invariant of *)
(* the composed system, and what follows from it.                          *)
(***************************************************************************)
EXTENDS Requests, SequenceTheorems, WellFoundedInduction, TLAPS

(* VarintValue takes a number byte by byte, the highest first.             *)
ValueFold == INSTANCE Folding WITH Op <- LAMBDA n, byte : 128 * n + (byte % 128)

(* Induction, for a set instead of a predicate.                            *)
LEMMA NatInductionOverSet ==
    ASSUME NEW S, 0 \in S, \A n \in Nat : n \in S => n + 1 \in S
    PROVE  Nat \subseteq S
<1> DEFINE T == Nat \ S
<1>1. SUFFICES ASSUME T # {} PROVE FALSE
  OBVIOUS
<1>2. PICK x \in T : \A y \in T : ~(<<y, x>> \in OpToRel(<, Nat))
  <2>1. T \subseteq Nat
    OBVIOUS
  <2> HIDE DEF T
  <2> QED BY <1>1, <2>1, WFMin, NatLessThanWellFounded
<1>3. x \in Nat \ {0}
  OBVIOUS
<1>4. x - 1 \in T
  BY <1>3
<1>5. <<x - 1, x>> \in OpToRel(<, Nat)
  BY <1>3 DEF OpToRel
<1> QED BY <1>2, <1>4, <1>5

----------------------------------------------------------------------------
(* Powers of two.                                                          *)

(* The recursive definition of Power2 has a solution.                      *)
LEMMA Power2IsThere ==
    \E f : f = [n \in Nat |-> IF n = 0 THEN 1 ELSE 2 * f[n - 1]]
<1> DEFINE P(k, g) == g[0] = 1 /\ \A n \in 0 .. k - 1 : g[n + 1] = 2 * g[n]
           T == {k \in Nat : \E g : P(k, g)}
           Q(k) == CHOOSE g : P(k, g)
           f == [n \in Nat |-> Q(n)[n]]
<1>1. 0 \in T
  <2> DEFINE g == [n \in {0} |-> 1]
  <2>1. P(0, g)
    OBVIOUS
  <2>2. \E x : P(0, x)
    <3> HIDE DEF P, g
    <3> QED BY <2>1
  <2> HIDE DEF P
  <2> QED BY <2>2
<1>2. ASSUME NEW k \in Nat, k \in T PROVE k + 1 \in T
  <2>1. PICK g : P(k, g)
    BY <1>2
  <2> DEFINE h == [n \in 0 .. k + 1 |-> IF n = k + 1 THEN 2 * g[k] ELSE g[n]]
  <2>2. P(k + 1, h)
    BY <2>1
  <2>3. \E x : P(k + 1, x)
    <3> HIDE DEF P, h
    <3> QED BY <2>2
  <2> HIDE DEF P
  <2> QED BY <2>3
<1>3. \A k \in Nat : P(k, Q(k))
  <2>1. Nat \subseteq T
    <3> HIDE DEF T
    <3> QED BY <1>1, <1>2, NatInductionOverSet
  <2> HIDE DEF P
  <2> QED BY <2>1
<1> HIDE DEF Q
<1>4. ASSUME NEW n \in Nat PROVE Q(n + 1)[n] = Q(n)[n]
  <2> DEFINE A == {k \in Nat : k <= n => Q(n + 1)[k] = Q(n)[k]}
  <2>1. 0 \in A
    BY <1>3
  <2>2. ASSUME NEW k \in Nat, k \in A PROVE k + 1 \in A
    BY <1>3, <2>2
  <2>3. n \in A
    <3> HIDE DEF A
    <3> QED BY <2>1, <2>2, NatInductionOverSet
  <2> QED BY <2>3
<1>5. ASSUME NEW n \in Nat PROVE f[n] = IF n = 0 THEN 1 ELSE 2 * f[n - 1]
  <2>1. CASE n = 0
    BY <2>1, <1>3
  <2>2. CASE n # 0
    <3>1. n - 1 \in Nat /\ (n - 1) + 1 = n /\ n - 1 \in 0 .. n - 1
      BY <2>2
    <3>2. Q(n)[n] = 2 * Q(n)[n - 1]
      BY <1>3, <3>1
    <3>3. Q(n)[n - 1] = Q(n - 1)[n - 1]
      BY <1>4, <3>1
    <3> QED BY <2>2, <3>1, <3>2, <3>3
  <2> QED BY <2>1, <2>2
<1>6. f = [n \in Nat |-> IF n = 0 THEN 1 ELSE 2 * f[n - 1]]
  <2> DEFINE g == [n \in Nat |-> IF n = 0 THEN 1 ELSE 2 * f[n - 1]]
  <2>1. \A n \in Nat : f[n] = g[n]
    <3> HIDE DEF f
    <3> QED BY <1>5
  <2>2. f = [n \in Nat |-> f[n]] /\ g = [n \in Nat |-> g[n]]
    OBVIOUS
  <2> HIDE DEF f, g
  <2>3. f = g
    BY <2>1, <2>2
  <2> QED BY <2>3 DEF g
<1> HIDE DEF f
<1> QED BY <1>6

(* Power2 is that solution.                                                *)
LEMMA Power2Next ==
    /\ Power2[0] = 1
    /\ \A n \in Nat : Power2[n + 1] = 2 * Power2[n]
<1>1. Power2 = [n \in Nat |-> IF n = 0 THEN 1 ELSE 2 * Power2[n - 1]]
  BY Power2IsThere DEF Power2
<1> HIDE DEF Power2
<1> QED BY <1>1

(* A power of two is a number, and larger than its exponent.               *)
LEMMA Power2Type == \A n \in Nat : Power2[n] \in Nat /\ Power2[n] >= n + 1
<1> DEFINE A == {n \in Nat : Power2[n] \in Nat /\ Power2[n] >= n + 1}
<1>1. 0 \in A
  BY Power2Next
<1>2. ASSUME NEW n \in Nat, n \in A PROVE n + 1 \in A
  BY <1>2, Power2Next
<1>3. Nat \subseteq A
  <2> HIDE DEF A
  <2> QED BY <1>1, <1>2, NatInductionOverSet
<1> QED BY <1>3

(* The power of a sum is the product of the powers.                        *)
LEMMA Power2Sum == \A m, n \in Nat : Power2[m + n] = Power2[m] * Power2[n]
<1> TAKE m \in Nat
<1> DEFINE A == {n \in Nat : Power2[m + n] = Power2[m] * Power2[n]}
<1>1. 0 \in A
  BY Power2Next, Power2Type
<1>2. ASSUME NEW n \in Nat, n \in A PROVE n + 1 \in A
  <2>1. Power2[m + (n + 1)] = 2 * Power2[m + n]
    <3>1. m + (n + 1) = (m + n) + 1 /\ m + n \in Nat
      OBVIOUS
    <3> QED BY <3>1, Power2Next
  <2>2. Power2[m] \in Nat /\ Power2[n] \in Nat /\ Power2[n + 1] = 2 * Power2[n]
    BY Power2Next, Power2Type
  <2>3. 2 * (Power2[m] * Power2[n]) = Power2[m] * (2 * Power2[n])
    BY <2>2
  <2> QED BY <1>2, <2>1, <2>2, <2>3
<1>3. Nat \subseteq A
  <2> HIDE DEF A
  <2> QED BY <1>1, <1>2, NatInductionOverSet
<1> QED BY <1>3

(* Powers of two grow with the exponent.                                   *)
LEMMA Power2Grows ==
    ASSUME NEW m \in Nat, NEW n \in Nat, m <= n
    PROVE  Power2[m] <= Power2[n]
<1>1. n - m \in Nat /\ m + (n - m) = n
  OBVIOUS
<1>2. Power2[n] = Power2[m] * Power2[n - m]
  BY <1>1, Power2Sum
<1>3. Power2[m] \in Nat /\ Power2[n - m] \in Nat /\ Power2[n - m] >= 1
  BY <1>1, Power2Type
<1>4. \A a, b \in Nat : b >= 1 => a <= a * b
  OBVIOUS
<1> QED BY <1>2, <1>3, <1>4

(* The powers the formats use, and the widths of a word and of a long.     *)
LEMMA Powers ==
    /\ Power2[7] = 128 /\ Power2[8] = 256
    /\ WordRange \in Nat /\ WordRange >= 256
    /\ WordRange = 2 * (WordRange \div 2)
    /\ WordRange \div 2 \in Nat /\ WordRange \div 2 >= 128
    /\ LongRange \in Nat /\ LongRange = WordRange * WordRange
    /\ LongRange = 2 * (LongRange \div 2) /\ LongRange \div 2 \in Nat
    /\ WordRange <= LongRange \div 2
<1>1. Power2[7] = 128 /\ Power2[8] = 256
  <2>1. /\ Power2[0 + 1] = 2 /\ Power2[1 + 1] = 4 /\ Power2[2 + 1] = 8
        /\ Power2[3 + 1] = 16 /\ Power2[4 + 1] = 32 /\ Power2[5 + 1] = 64
        /\ Power2[6 + 1] = 128 /\ Power2[7 + 1] = 256
    <3>1. Power2[0 + 1] = 2 /\ Power2[1 + 1] = 2 * Power2[1]
          /\ Power2[2 + 1] = 2 * Power2[2] /\ Power2[3 + 1] = 2 * Power2[3]
          /\ Power2[4 + 1] = 2 * Power2[4] /\ Power2[5 + 1] = 2 * Power2[5]
          /\ Power2[6 + 1] = 2 * Power2[6] /\ Power2[7 + 1] = 2 * Power2[7]
      BY Power2Next
    <3> QED BY <3>1
  <2> QED BY <2>1
<1>2. Word \in Nat /\ Word >= 8 /\ Word - 1 \in Nat /\ 2 * Word \in Nat
      /\ 2 * Word = Word + Word
  BY WireAssumption
<1>3. WordRange \in Nat /\ WordRange >= 256
  BY <1>1, <1>2, Power2Type, Power2Grows DEF WordRange
<1>4. WordRange = 2 * Power2[Word - 1] /\ Power2[Word - 1] \in Nat
  <2>1. (Word - 1) + 1 = Word
    BY <1>2
  <2> QED BY <1>2, <2>1, Power2Next, Power2Type DEF WordRange
<1>5. WordRange \div 2 = Power2[Word - 1]
  BY <1>4
<1>6. LongRange \in Nat /\ LongRange = WordRange * WordRange
  BY <1>2, Power2Sum, Power2Type DEF WordRange, LongRange
<1>7. LongRange = 2 * (WordRange * Power2[Word - 1])
      /\ WordRange * Power2[Word - 1] \in Nat
  <2>1. \A a, b \in Nat : a * (2 * b) = 2 * (a * b) /\ a * b \in Nat
    OBVIOUS
  <2> QED BY <1>3, <1>4, <1>6, <2>1
<1>8. LongRange \div 2 = WordRange * Power2[Word - 1]
  BY <1>7
<1>9. WordRange <= WordRange * Power2[Word - 1]
  <2>1. \A a, b \in Nat : b >= 1 => a <= a * b
    OBVIOUS
  <2> QED BY <1>3, <1>4, <2>1
<1> QED BY <1>1, <1>3, <1>4, <1>5, <1>6, <1>7, <1>8, <1>9
----------------------------------------------------------------------------
(* Division.                                                               *)

(* A number is divided with a remainder.                                   *)
LEMMA Division ==
    ASSUME NEW n \in Int, NEW d \in Nat \ {0}
    PROVE  /\ n = (d * (n \div d)) + (n % d)
           /\ n % d \in 0 .. d - 1 /\ n \div d \in Int
           /\ n \in Nat => n \div d \in Nat
OBVIOUS

(* There is only one quotient and one remainder.                           *)
LEMMA DivisionIsUnique ==
    ASSUME NEW n \in Int, NEW d \in Nat \ {0}, NEW q \in Int, NEW r \in 0 .. d - 1,
           n = (d * q) + r
    PROVE  n \div d = q /\ n % d = r
OBVIOUS

(* A number below the divisor is its own remainder.                        *)
LEMMA SmallDivision ==
    \A d \in Nat \ {0} : \A n \in 0 .. d - 1 : n \div d = 0 /\ n % d = n
OBVIOUS

(* To divide by a product is to divide twice.                              *)
LEMMA DivideTwice ==
    ASSUME NEW n \in Nat, NEW d \in Nat \ {0}, NEW e \in Nat \ {0}
    PROVE  n \div (d * e) = (n \div d) \div e
<1> DEFINE q == n \div d
           r == n % d
           qq == q \div e
           rr == q % e
<1>1. n = (d * q) + r /\ q \in Nat /\ r \in 0 .. d - 1
  OBVIOUS
<1>2. q = (e * qq) + rr /\ qq \in Nat /\ rr \in 0 .. e - 1
  BY <1>1
<1> HIDE DEF q, r, qq, rr
<1>3. n = ((d * e) * qq) + ((d * rr) + r)
  <2>1. \A a, b, c, x \in Nat : a * ((b * c) + x) = ((a * b) * c) + (a * x)
    OBVIOUS
  <2>2. d * ((e * qq) + rr) = ((d * e) * qq) + (d * rr)
    BY <1>2, <2>1
  <2>3. d * q = ((d * e) * qq) + (d * rr)
    BY <2>2, <1>2
  <2>4. d * q \in Nat /\ (d * e) * qq \in Nat /\ d * rr \in Nat
    BY <1>1, <1>2
  <2> QED BY <1>1, <2>3, <2>4
<1>4. (d * rr) + r \in 0 .. (d * e) - 1 /\ d * e \in Nat \ {0}
  <2>1. \A a, b \in Nat \ {0} : \A x \in 0 .. b - 1, y \in 0 .. a - 1 :
            (a * x) + y \in 0 .. (a * b) - 1 /\ a * b \in Nat \ {0}
    <3>1. \A a, b \in Nat \ {0} : \A x \in 0 .. b - 1 : a * x <= a * (b - 1)
      OBVIOUS
    <3>2. \A a, b \in Nat \ {0} : a * (b - 1) = (a * b) - a /\ a * b \in Nat \ {0}
      OBVIOUS
    <3>3. \A a, b \in Nat \ {0} : \A x \in 0 .. b - 1 : a * x \in Nat
      OBVIOUS
    <3> TAKE a, b \in Nat \ {0}
    <3> TAKE x \in 0 .. b - 1, y \in 0 .. a - 1
    <3>4. a * x <= (a * b) - a /\ a * x \in Nat /\ a * b \in Nat \ {0}
      BY <3>1, <3>2, <3>3
    <3> QED BY <3>4
  <2> QED BY <1>1, <1>2, <2>1
<1>5. n \div (d * e) = qq
  BY <1>2, <1>3, <1>4, DivisionIsUnique
<1> QED BY <1>5 DEF q, qq

(* A number is its quotient by 2^m, and then what stands below.            *)
LEMMA NextDigit ==
    ASSUME NEW n \in Nat, NEW m \in Nat, NEW w \in Nat
    PROVE  n \div Power2[m] =
             (Power2[w] * (n \div Power2[m + w])) + ((n \div Power2[m]) % Power2[w])
<1>1. Power2[m + w] = Power2[m] * Power2[w]
  BY Power2Sum
<1>2. Power2[m] \in Nat \ {0} /\ Power2[w] \in Nat \ {0}
  BY Power2Type
<1>3. n \div Power2[m + w] = (n \div Power2[m]) \div Power2[w]
  BY <1>1, <1>2, DivideTwice
<1>4. n \div Power2[m] \in Int
  BY <1>2
<1> QED BY <1>2, <1>3, <1>4, Division

----------------------------------------------------------------------------
(* Varints.                                                                *)

(* The most bytes a varint has.                                            *)
Longest == VarintBytes(2 * Word)

(* The longest varint has room for every long.                             *)
LEMMA LongestType == Longest \in Nat \ {0} /\ LongRange <= Power2[7 * Longest]
<1>1. Word \in Nat
  BY WireAssumption
<1>2. Longest \in Nat \ {0} /\ 7 * Longest >= 2 * Word
  BY <1>1, WireAssumption DEF Longest, VarintBytes
<1> QED BY <1>1, <1>2, Power2Grows DEF LongRange

(* The unsigned longs.                                                     *)
Longs64 == 0 .. LongRange - 1

(* VarintSize is the number of groups of seven bits a number needs.        *)
LEMMA VarintSizeType ==
    ASSUME NEW n \in Longs64
    PROVE  /\ VarintSize(n) \in 1 .. Longest /\ n < Power2[7 * VarintSize(n)]
           /\ \A j \in 1 .. VarintSize(n) - 1 : n >= Power2[7 * j]
<1> DEFINE Fits(k) == n < Power2[7 * k] /\ \A j \in 1 .. k - 1 : n >= Power2[7 * j]
           A == {k \in Nat : (\E j \in 1 .. k : n < Power2[7 * j]) =>
                                \E j \in 1 .. k : Fits(j)}
<1>1. 0 \in A
  OBVIOUS
<1>2. ASSUME NEW k \in Nat, k \in A PROVE k + 1 \in A
  <2>1. CASE \E j \in 1 .. k : n < Power2[7 * j]
    <3> HIDE DEF Fits
    <3> QED BY <1>2, <2>1
  <2>2. CASE ~(\E j \in 1 .. k : n < Power2[7 * j]) /\ n < Power2[7 * (k + 1)]
    <3>1. \A j \in 1 .. k : n >= Power2[7 * j]
      <4> TAKE j \in 1 .. k
      <4>1. Power2[7 * j] \in Nat
        BY Power2Type
      <4> QED BY <2>2, <4>1, Powers DEF Longs64
    <3>2. Fits(k + 1)
      BY <2>2, <3>1
    <3> HIDE DEF Fits
    <3> QED BY <3>2
  <2>3. CASE ~(\E j \in 1 .. k : n < Power2[7 * j]) /\ ~(n < Power2[7 * (k + 1)])
    <3>1. \A j \in 1 .. k + 1 : j \in 1 .. k \/ j = k + 1
      OBVIOUS
    <3> QED BY <2>3, <3>1
  <2> QED BY <2>1, <2>2, <2>3
<1>3. Longest \in A
  <2> HIDE DEF A
  <2> QED BY <1>1, <1>2, NatInductionOverSet, LongestType
<1>4. n < Power2[7 * Longest]
  <2>1. Power2[7 * Longest] \in Nat
    BY LongestType, Power2Type
  <2> QED BY <2>1, LongestType, Powers DEF Longs64
<1>5. \E j \in 1 .. Longest : Fits(j)
  <2> HIDE DEF Fits
  <2> QED BY <1>3, <1>4, LongestType
<1>6. Longest = VarintBytes(2 * Word)
  BY DEF Longest
<1> QED BY <1>5, <1>6 DEF VarintSize

(* Varint writes as many bytes as VarintSize counts, the lowest seven bits *)
(* first and a mark on every byte but the last.                            *)
LEMMA VarintType ==
    ASSUME NEW n \in Longs64
    PROVE  /\ Varint(n) \in Seq(Bytes) /\ Len(Varint(n)) = VarintSize(n)
           /\ VarintSize(n) \in 1 .. Longest
           /\ Varint(n)[VarintSize(n)] < 128
           /\ \A i \in 1 .. VarintSize(n) - 1 : Varint(n)[i] >= 128
           /\ \A i \in 1 .. VarintSize(n) :
                Varint(n)[i] % 128 = (n \div Power2[7 * (i - 1)]) % 128
<1> DEFINE k == VarintSize(n)
<1>1. k \in Nat \ {0} /\ k \in 1 .. Longest
  BY VarintSizeType, LongestType
<1>2. ASSUME NEW i \in 1 .. k
      PROVE  /\ Varint(n)[i] \in Bytes
             /\ Varint(n)[i] % 128 = (n \div Power2[7 * (i - 1)]) % 128
             /\ i = k => Varint(n)[i] < 128
             /\ i # k => Varint(n)[i] >= 128
  <2> DEFINE x == (n \div Power2[7 * (i - 1)]) % 128
  <2>1. x \in 0 .. 127
    <3>1. Power2[7 * (i - 1)] \in Nat \ {0} /\ n \in Nat
      BY <1>1, Power2Type, Powers DEF Longs64
    <3>2. n \div Power2[7 * (i - 1)] \in Int
      BY <3>1
    <3> QED BY <3>2
  <2>2. Varint(n)[i] = x + (IF i < k THEN 128 ELSE 0)
    BY <1>1 DEF Varint
  <2> HIDE DEF x
  <2>3. i # k => i < k
    BY <1>1
  <2>4. Varint(n)[i] \in Bytes /\ Varint(n)[i] % 128 = x
        /\ (i = k => Varint(n)[i] < 128) /\ (i # k => Varint(n)[i] >= 128)
    BY <1>1, <2>1, <2>2, <2>3 DEF Bytes
  <2> QED BY <2>4 DEF x
<1>3. Varint(n) = [i \in 1 .. k |-> Varint(n)[i]]
  BY DEF Varint
<1>4. Varint(n) \in Seq(Bytes) /\ Len(Varint(n)) = k
  <2> DEFINE v == Varint(n)
  <2> HIDE DEF v, k
  <2>1. v \in [1 .. k -> Bytes]
    BY <1>2, <1>3 DEF v
  <2> QED BY <1>1, <2>1 DEF v
<1> QED BY <1>1, <1>2, <1>4

(* What is written as a varint is read as the same number: WriteVarint and *)
(* ReadVarint.                                                             *)
LEMMA VarintIsRead == \A n \in Longs64 : VarintValue(Varint(n)) = n
<1> TAKE n \in Longs64
<1> DEFINE s == Varint(n)
           k == VarintSize(n)
           back == Reverse(s)
           Digits(j) == n \div Power2[7 * (k - j)]
<1>1. /\ s \in Seq(Bytes) /\ Len(s) = k /\ k \in Nat \ {0} /\ n \in Nat
      /\ \A i \in 1 .. k : s[i] % 128 = (n \div Power2[7 * (i - 1)]) % 128
      /\ n < Power2[7 * k]
  BY VarintType, VarintSizeType, LongestType, Powers DEF Longs64
<1>2. back \in Seq(Bytes) /\ Len(back) = k
      /\ \A j \in 0 .. k - 1 : back[j + 1] = s[k - j]
  <2> HIDE DEF s, k
  <2>1. back = [i \in 1 .. k |-> s[(k - i) + 1]]
    BY <1>1 DEF Reverse
  <2>2. \A i \in 1 .. k : s[(k - i) + 1] \in Bytes
    BY <1>1
  <2>3. \A j \in 0 .. k - 1 : (k - (j + 1)) + 1 = k - j /\ j + 1 \in 1 .. k
    BY <1>1
  <2> HIDE DEF back
  <2> QED BY <1>1, <2>1, <2>2, <2>3
<1>3. PICK h : ValueFold!Steps(h, 0, back) /\ ValueFold!FromLeft(0, back) = h[k]
  BY <1>2, ValueFold!LeftSteps
<1>4. VarintValue(s) = h[k]
  BY <1>3 DEF VarintValue, ValueFold!FromLeft, FoldLeft, MapThenFoldSet, Max,
              ValueFold!Largest
<1>5. h[0] = 0 /\ \A j \in 0 .. k - 1 : h[j + 1] = 128 * h[j] + (back[j + 1] % 128)
  BY <1>2, <1>3 DEF ValueFold!Steps
<1> DEFINE A == {j \in Nat : j <= k => h[j] = Digits(j)}
<1> HIDE DEF s, k, back
<1>6. 0 \in A
  <2>0. 7 * k \in Nat
    BY <1>1
  <2>1. Power2[7 * k] \in Nat \ {0} /\ n \in 0 .. Power2[7 * k] - 1
    <3>1. Power2[7 * k] \in Nat \ {0}
      BY <2>0, Power2Type
    <3>2. n \in Nat /\ n < Power2[7 * k]
      BY <1>1
    <3> QED BY <3>1, <3>2
  <2>2. n \div Power2[7 * k] = 0
    BY <2>1, SmallDivision
  <2> QED BY <1>1, <1>5, <2>2
<1>7. ASSUME NEW j \in Nat, j \in A PROVE j + 1 \in A
  <2>1. CASE j + 1 <= k
    <3> DEFINE m == 7 * (k - (j + 1))
    <3>1. m \in Nat /\ m + 7 = 7 * (k - j) /\ j \in 0 .. k - 1 /\ k - j \in 1 .. k
          /\ m = 7 * ((k - j) - 1)
      BY <1>1, <2>1
    <3>2. back[j + 1] % 128 = (n \div Power2[m]) % 128
      BY <1>1, <1>2, <3>1
    <3>3. n \div Power2[m] = (128 * (n \div Power2[m + 7])) + ((n \div Power2[m]) % 128)
      <4> HIDE DEF m
      <4>1. n \div Power2[m] =
              (Power2[7] * (n \div Power2[m + 7])) + ((n \div Power2[m]) % Power2[7])
        BY <1>1, <3>1, NextDigit
      <4>2. Power2[7] = 128
        BY Powers
      <4> QED BY <4>1, <4>2
    <3>4. h[j] = n \div Power2[7 * (k - j)]
      BY <1>1, <1>7, <2>1
    <3> HIDE DEF m
    <3>5. h[j + 1] = n \div Power2[m]
      BY <1>5, <3>1, <3>2, <3>3, <3>4
    <3>6. j + 1 <= k => h[j + 1] = Digits(j + 1)
      BY <3>5 DEF m
    <3> QED BY <3>6
  <2>2. CASE ~(j + 1 <= k)
    BY <2>2
  <2> QED BY <2>1, <2>2
<1>8. k \in A
  <2> HIDE DEF A
  <2> QED BY <1>1, <1>6, <1>7, NatInductionOverSet
<1>9. Digits(k) = n
  <2>1. 7 * (k - k) = 0 /\ n \div 1 = n
    BY <1>1
  <2> QED BY <2>1, Power2Next
<1> QED BY <1>1, <1>4, <1>8, <1>9 DEF s

(* Values.                                                                 *)
LEMMA VarintValueType == \A bytes \in Seq(Bytes) : VarintValue(bytes) \in Nat
<1> TAKE bytes \in Seq(Bytes)
<1>1. Reverse(bytes) \in Seq(Bytes)
  <2>1. Reverse(bytes) = [i \in 1 .. Len(bytes) |-> bytes[(Len(bytes) - i) + 1]]
    BY DEF Reverse
  <2>2. \A i \in 1 .. Len(bytes) : bytes[(Len(bytes) - i) + 1] \in Bytes
    OBVIOUS
  <2> QED BY <2>1, <2>2
<1>2. \A n \in Nat, byte \in Bytes : 128 * n + (byte % 128) \in Nat
  BY DEF Bytes
<1>3. ValueFold!FromLeft(0, Reverse(bytes)) \in Nat
  BY <1>1, <1>2, ValueFold!LeftType
<1> QED
  BY <1>3 DEF VarintValue, ValueFold!FromLeft, FoldLeft, MapThenFoldSet, Max,
              ValueFold!Largest

(* A byte below 128 is a varint of its own value.                          *)
LEMMA OneByteIsRead == \A b \in 0 .. 127 : VarintValue(<<b>>) = b
<1> TAKE b \in 0 .. 127
<1>1. b \in Longs64 /\ b < 128 /\ b \in Nat
  BY Powers DEF Longs64
<1>2. VarintSize(b) = 1
  BY <1>1, VarintSizeType, Powers, LongestType
<1>3. Varint(b) = <<b>>
  <2>1. Varint(b)[1] = b
    <3>1. b \div 1 = b /\ b % 128 = b
      BY <1>1
    <3> QED BY <1>2, <3>1, Power2Next DEF Varint
  <2>2. Varint(b) \in Seq(Bytes) /\ Len(Varint(b)) = 1
    BY <1>1, <1>2, VarintType
  <2> HIDE DEF Longs64
  <2> QED BY <2>1, <2>2
<1> QED BY <1>1, <1>3, VarintIsRead

(* The varint in front takes no more bytes than there are.                 *)
LEMMA FrontVarintType ==
    ASSUME NEW bytes \in Seq(Bytes)
    PROVE  FrontVarint(bytes) \in 0 .. Len(bytes)
<1> DEFINE ends == {i \in 1 .. Len(bytes) : bytes[i] < 128 /\ i <= Longest}
           A == {k \in Nat : (\E i \in ends : i <= k) => \E i \in ends : \A j \in ends : i <= j}
<1>1. 0 \in A
  OBVIOUS
<1>2. ASSUME NEW k \in Nat, k \in A PROVE k + 1 \in A
  <2>1. CASE \E i \in ends : i <= k
    <3> HIDE DEF ends
    <3> QED BY <1>2, <2>1
  <2>2. CASE ~(\E i \in ends : i <= k)
    <3>1. k + 1 \in ends => \A j \in ends : k + 1 <= j
      BY <2>2
    <3>2. (\E i \in ends : i <= k + 1) => k + 1 \in ends
      BY <2>2
    <3> HIDE DEF ends
    <3> QED BY <3>1, <3>2
  <2> QED BY <2>1, <2>2
<1>3. Len(bytes) \in A
  <2> HIDE DEF A
  <2> QED BY <1>1, <1>2, NatInductionOverSet
<1>4. ends # {} => (CHOOSE i \in ends : \A j \in ends : i <= j) \in ends
  <2>1. ends # {} => \E i \in ends : i <= Len(bytes)
    OBVIOUS
  <2> HIDE DEF ends
  <2> QED BY <1>3, <2>1
<1> QED BY <1>4 DEF FrontVarint, Longest

(* A byte is a number up to 255.                                           *)
LEMMA ByteIsNumber == \A b \in Bytes : b \in Nat /\ b <= 255
BY DEF Bytes

(* To choose a least element of a set is to find the least one.            *)
LEMMA LeastIsChosen ==
    ASSUME NEW S \in SUBSET Nat, NEW k \in S, \A i \in S : k <= i
    PROVE  (CHOOSE i \in S : \A j \in S : i <= j) = k
<1>1. \E i \in S : \A j \in S : i <= j
  OBVIOUS
<1>2. ASSUME NEW c \in S, \A j \in S : c <= j
      PROVE  c = k
  <2>1. c <= k /\ k <= c /\ c \in Nat /\ k \in Nat
    BY <1>2
  <2> QED BY <2>1
<1> QED BY <1>1, <1>2

(* The varint of a number ends where the number does.                      *)
LEMMA VarintInFront ==
    ASSUME NEW n \in Longs64, NEW rest \in Seq(Bytes)
    PROVE  FrontVarint(Varint(n) \o rest) = VarintSize(n)
<1> DEFINE v == Varint(n)
           k == VarintSize(n)
           bytes == v \o rest
           ends == {i \in 1 .. Len(bytes) : bytes[i] < 128 /\ i <= Longest}
<1>1. /\ v \in Seq(Bytes) /\ Len(v) = k /\ k \in 1 .. Longest /\ v[k] < 128
      /\ \A i \in 1 .. k - 1 : v[i] >= 128
      /\ k \in Nat
  BY VarintType, LongestType
<1> HIDE DEF v, k
<1>2. bytes \in Seq(Bytes) /\ Len(bytes) >= k /\ \A i \in 1 .. k : bytes[i] = v[i]
  BY <1>1
<1>3. k \in ends /\ \A i \in ends : k <= i
  <2>1. \A i \in 1 .. k - 1 : i \notin ends
    <3> TAKE i \in 1 .. k - 1
    <3>1. v[i] \in Bytes /\ v[i] >= 128 /\ i \in 1 .. k
      BY <1>1
    <3>2. bytes[i] = v[i]
      BY <1>2, <3>1
    <3>3. bytes[i] \in Int /\ ~(bytes[i] < 128)
      <4> HIDE DEF bytes
      <4>1. v[i] \in Int /\ ~(v[i] < 128)
        BY <3>1, ByteIsNumber
      <4> QED BY <3>2, <4>1
    <3> HIDE DEF bytes
    <3> QED BY <3>3
  <2>2. k \in ends
    BY <1>1, <1>2
  <2>3. \A i \in ends : i \in Nat \ {0}
    OBVIOUS
  <2> HIDE DEF ends
  <2> QED BY <1>1, <2>1, <2>2, <2>3
<1>4. FrontVarint(bytes) = CHOOSE i \in ends : \A j \in ends : i <= j
  BY <1>3 DEF FrontVarint, Longest
<1>5. ends \in SUBSET Nat
  OBVIOUS
<1> HIDE DEF ends, bytes
<1>6. FrontVarint(bytes) = k
  BY <1>3, <1>4, <1>5, LeastIsChosen
<1>7. FrontVarint(v \o rest) = k
  BY <1>6 DEF bytes
<1> QED BY <1>7 DEF v, k

(* A byte below 128 is a whole varint.                                     *)
LEMMA ByteInFront ==
    ASSUME NEW b \in 0 .. 127, NEW rest \in Seq(Bytes)
    PROVE  FrontVarint(<<b>> \o rest) = 1
<1> DEFINE bytes == <<b>> \o rest
           ends == {i \in 1 .. Len(bytes) : bytes[i] < 128 /\ i <= Longest}
<1>1. Len(bytes) >= 1 /\ bytes[1] = b /\ Len(bytes) \in Nat
  OBVIOUS
<1>2. 1 \in ends /\ \A i \in ends : i \in Nat /\ 1 <= i
  <2>1. 1 <= Longest
    BY LongestType
  <2>2. bytes[1] < 128 /\ 1 \in 1 .. Len(bytes)
    BY <1>1
  <2> HIDE DEF bytes
  <2> QED BY <1>1, <2>1, <2>2
<1>3. FrontVarint(bytes) = CHOOSE i \in ends : \A j \in ends : i <= j
  BY <1>2 DEF FrontVarint, Longest
<1>4. ends \in SUBSET Nat
  OBVIOUS
<1> HIDE DEF ends
<1>5. (CHOOSE i \in ends : \A j \in ends : i <= j) = 1
  BY <1>2, <1>4, LeastIsChosen
<1> QED BY <1>3, <1>5

----------------------------------------------------------------------------
(* Sequences.                                                              *)

(* Two sequences of one length with the same elements are the same.        *)
LEMMA SameSeq ==
    ASSUME NEW S, NEW a \in Seq(S), NEW b \in Seq(S), Len(a) = Len(b),
           \A i \in 1 .. Len(a) : a[i] = b[i]
    PROVE  a = b
OBVIOUS

(* Two sequences behind each other are cut where the first ends.           *)
LEMMA Cut ==
    \A a, b \in Seq(Bytes) :
        /\ a \o b \in Seq(Bytes) /\ Len(a \o b) = Len(a) + Len(b)
        /\ Len(a) \in Nat /\ Len(b) \in Nat
        /\ SubSeq(a \o b, 1, Len(a)) = a
        /\ SubSeq(a \o b, Len(a) + 1, Len(a \o b)) = b
<1> TAKE a, b \in Seq(Bytes)
<1> DEFINE ab == a \o b
<1>1. ab \in Seq(Bytes) /\ Len(ab) = Len(a) + Len(b)
      /\ Len(a) \in Nat /\ Len(b) \in Nat
      /\ (\A i \in 1 .. Len(a) : ab[i] = a[i])
      /\ \A i \in 1 .. Len(b) : ab[Len(a) + i] = b[i]
  OBVIOUS
<1> HIDE DEF ab
<1>2. SubSeq(ab, 1, Len(a)) = a
  BY <1>1
<1>3. SubSeq(ab, Len(a) + 1, Len(ab)) = b
  <2> DEFINE c == SubSeq(ab, Len(a) + 1, Len(ab))
  <2>1. c \in Seq(Bytes) /\ Len(c) = Len(b) /\ \A i \in 1 .. Len(b) : c[i] = ab[Len(a) + i]
    BY <1>1
  <2> HIDE DEF c
  <2>2. c = b
    BY <1>1, <2>1, SameSeq
  <2> QED BY <2>2 DEF c
<1> QED BY <1>1, <1>2, <1>3 DEF ab

(* The middle one of three sequences is where the first ends.              *)
LEMMA Middle ==
    \A a, b, c \in Seq(Bytes) :
        /\ (a \o b) \o c = a \o (b \o c)
        /\ SubSeq(a \o (b \o c), Len(a) + 1, Len(a) + Len(b)) = b
<1> TAKE a, b, c \in Seq(Bytes)
<1> DEFINE abc == a \o (b \o c)
<1>1. abc \in Seq(Bytes) /\ Len(abc) = Len(a) + Len(b) + Len(c)
      /\ \A i \in 1 .. Len(b) : abc[Len(a) + i] = b[i]
  OBVIOUS
<1>2. (a \o b) \o c = abc
  OBVIOUS
<1> HIDE DEF abc
<1>3. SubSeq(abc, Len(a) + 1, Len(a) + Len(b)) = b
  <2> DEFINE d == SubSeq(abc, Len(a) + 1, Len(a) + Len(b))
  <2>1. d \in Seq(Bytes) /\ Len(d) = Len(b) /\ \A i \in 1 .. Len(b) : d[i] = abc[Len(a) + i]
    BY <1>1
  <2> HIDE DEF d
  <2>2. d = b
    BY <1>1, <2>1, SameSeq
  <2> QED BY <2>2 DEF d
<1> QED BY <1>2, <1>3 DEF abc

(* The empty sequence adds nothing.                                        *)
LEMMA Nothing == \A a \in Seq(Bytes) : a \o <<>> = a /\ <<>> \o a = a /\ <<>> \in Seq(Bytes)
OBVIOUS

----------------------------------------------------------------------------
(* One field.                                                              *)

(* A field as it is read.                                                  *)
FieldType == [tag : Nat, number : Nat, body : Seq(Bytes), raw : Seq(Bytes)]

(* A field in front takes at least one byte and no more than there are.    *)
LEMMA FrontFieldType ==
    ASSUME NEW bytes \in Seq(Bytes)
    PROVE  /\ FrontField(bytes) \in FieldType
           /\ FrontField(bytes) # NoField => Len(FrontField(bytes).raw) \in 1 .. Len(bytes)
           /\ bytes = <<>> => FrontField(bytes) = NoField
<1> DEFINE t == FrontVarint(bytes)
           tag == VarintValue(SubSeq(bytes, 1, t))
           rest == SubSeq(bytes, t + 1, Len(bytes))
           k == FrontVarint(rest)
           n == VarintValue(SubSeq(rest, 1, k))
           Field(size) ==
            [tag |-> tag, number |-> n, body |-> SubSeq(rest, k + 1, k + size),
             raw |-> SubSeq(bytes, 1, t + k + size)]
           f == IF t = 0 \/ k = 0 THEN NoField
                ELSE IF tag % 8 = 0 /\ tag # 0 THEN Field(0)
                ELSE IF tag % 8 = 2 /\ k + n <= Len(rest) THEN Field(n)
                ELSE NoField
<1>1. FrontField(bytes) = f
  BY DEF FrontField
<1>2. t \in 0 .. Len(bytes)
  BY FrontVarintType
<1> HIDE DEF t
<1>3. rest \in Seq(Bytes) /\ Len(rest) = Len(bytes) - t
  BY <1>2
<1> HIDE DEF rest
<1>4. k \in 0 .. Len(rest)
  BY <1>3, FrontVarintType
<1> HIDE DEF k
<1>5. tag \in Nat /\ n \in Nat
  <2>1. SubSeq(bytes, 1, t) \in Seq(Bytes) /\ SubSeq(rest, 1, k) \in Seq(Bytes)
    BY <1>2, <1>3, <1>4
  <2> QED BY <2>1, VarintValueType
<1> HIDE DEF tag, n
<1>6. ASSUME NEW size \in Nat, k + size <= Len(rest), t # 0
      PROVE  Field(size) \in FieldType /\ Len(Field(size).raw) \in 1 .. Len(bytes)
  <2>1. SubSeq(rest, k + 1, k + size) \in Seq(Bytes)
    BY <1>3, <1>4, <1>6
  <2>2. t + k + size \in 1 .. Len(bytes)
    BY <1>2, <1>3, <1>4, <1>6
  <2>3. /\ SubSeq(bytes, 1, t + k + size) \in Seq(Bytes)
        /\ Len(SubSeq(bytes, 1, t + k + size)) = t + k + size
    BY <2>2
  <2> QED BY <1>5, <2>1, <2>2, <2>3 DEF FieldType
<1>7. NoField \in FieldType
  BY DEF NoField, FieldType
<1>8. Len(bytes) \in Nat /\ Len(rest) \in Nat /\ (bytes = <<>> => t = 0)
  BY <1>2, <1>3
<1>9. /\ f \in FieldType
      /\ f # NoField => Len(f.raw) \in 1 .. Len(bytes)
      /\ bytes = <<>> => f = NoField
  <2> HIDE DEF Field
  <2>1. k + 0 <= Len(rest) /\ 0 \in Nat
    BY <1>4, <1>8
  <2>2. t # 0 => Field(0) \in FieldType /\ Len(Field(0).raw) \in 1 .. Len(bytes)
    BY <1>6, <2>1
  <2>3. t # 0 /\ k + n <= Len(rest) =>
            Field(n) \in FieldType /\ Len(Field(n).raw) \in 1 .. Len(bytes)
    BY <1>5, <1>6
  <2> QED BY <1>7, <1>8, <2>2, <2>3
<1> HIDE DEF f
<1> QED BY <1>1, <1>9

(* What is read of a field that was written.                               *)
NumberRead(number, n) ==
    [tag |-> VarintTag(number), number |-> n, body |-> <<>>,
     raw |-> <<VarintTag(number)>> \o Varint(n)]

(* An inner message.                                                       *)
MessageRead(number, body) ==
    [tag |-> LengthTag(number), number |-> Len(body), body |-> body,
     raw |-> MessageField(number, body)]

(* The parts of a field that has a tag of one byte.                        *)
TagOf(bytes) == VarintValue(SubSeq(bytes, 1, 1))
BehindTag(bytes) == SubSeq(bytes, 2, Len(bytes))
NumberOf(bytes) ==
    VarintValue(SubSeq(BehindTag(bytes), 1, FrontVarint(BehindTag(bytes))))

(* A tag and a number behind it: what a reader finds in the bytes.         *)
LEMMA FrontOfTag ==
    \A tag \in 0 .. 127, n \in Longs64, more \in Seq(Bytes) :
        LET bytes == <<tag>> \o (Varint(n) \o more)
        IN  /\ bytes \in Seq(Bytes)
            /\ FrontVarint(bytes) = 1 /\ TagOf(bytes) = tag
            /\ BehindTag(bytes) = Varint(n) \o more
            /\ FrontVarint(BehindTag(bytes)) = VarintSize(n)
            /\ NumberOf(bytes) = n
<1> TAKE tag \in 0 .. 127, n \in Longs64, more \in Seq(Bytes)
<1> DEFINE bytes == <<tag>> \o (Varint(n) \o more)
<1> DEFINE a == <<tag>>
           b == Varint(n) \o more
<1>1. a \in Seq(Bytes) /\ Len(a) = 1
  BY DEF Bytes
<1>2. Varint(n) \in Seq(Bytes) /\ Len(Varint(n)) = VarintSize(n)
  BY VarintType
<1>3. b \in Seq(Bytes)
  BY <1>2
<1>4. FrontVarint(bytes) = 1
  <2>1. FrontVarint(<<tag>> \o b) = 1
    <3> HIDE DEF b
    <3> QED BY <1>3, ByteInFront
  <2> QED BY <2>1
<1>5. VarintValue(a) = tag
  BY OneByteIsRead
<1>6. FrontVarint(b) = VarintSize(n)
  BY VarintInFront
<1>7. SubSeq(b, 1, VarintSize(n)) = Varint(n)
  <2>1. SubSeq(Varint(n) \o more, 1, Len(Varint(n))) = Varint(n)
    BY <1>2, Cut
  <2> QED BY <1>2, <2>1
<1>8. VarintValue(Varint(n)) = n
  BY VarintIsRead
<1>d. bytes = a \o b
  OBVIOUS
<1> HIDE DEF a, b, bytes
<1>9. bytes = a \o b /\ bytes \in Seq(Bytes) /\ SubSeq(bytes, 1, 1) = a
      /\ SubSeq(bytes, 1 + 1, Len(bytes)) = b
  <2>1. bytes = a \o b
    BY <1>d
  <2>2. SubSeq(a \o b, 1, 1) = a /\ SubSeq(a \o b, 1 + 1, Len(a \o b)) = b
        /\ a \o b \in Seq(Bytes)
    BY <1>1, <1>3, Cut
  <2> QED BY <2>1, <2>2
<1>10. BehindTag(bytes) = b
  BY <1>9 DEF BehindTag
<1>11. TagOf(bytes) = tag
  BY <1>5, <1>9 DEF TagOf
<1>12. NumberOf(bytes) = n
  BY <1>6, <1>7, <1>8, <1>10 DEF NumberOf
<1>13. /\ bytes \in Seq(Bytes)
       /\ FrontVarint(bytes) = 1 /\ TagOf(bytes) = tag
       /\ BehindTag(bytes) = b
       /\ FrontVarint(BehindTag(bytes)) = VarintSize(n)
       /\ NumberOf(bytes) = n
  BY <1>4, <1>6, <1>9, <1>10, <1>11, <1>12
<1> QED BY <1>13 DEF b, bytes

(* What FrontField returns when the tag and the number behind it are       *)
(* whole.                                                                  *)
LEMMA FieldIs ==
    ASSUME NEW bytes, FrontVarint(bytes) = 1,
           NEW k, FrontVarint(BehindTag(bytes)) = k, k # 0
    PROVE  /\ TagOf(bytes) % 8 = 0 /\ TagOf(bytes) # 0 =>
                FrontField(bytes) =
                    [tag |-> TagOf(bytes), number |-> NumberOf(bytes),
                     body |-> SubSeq(BehindTag(bytes), k + 1, k + 0),
                     raw |-> SubSeq(bytes, 1, 1 + k + 0)]
           /\ TagOf(bytes) % 8 = 2 /\ k + NumberOf(bytes) <= Len(BehindTag(bytes)) =>
                FrontField(bytes) =
                    [tag |-> TagOf(bytes), number |-> NumberOf(bytes),
                     body |-> SubSeq(BehindTag(bytes), k + 1, k + NumberOf(bytes)),
                     raw |-> SubSeq(bytes, 1, 1 + k + NumberOf(bytes))]
<1> DEFINE t == FrontVarint(bytes)
           tag == VarintValue(SubSeq(bytes, 1, t))
           behind == SubSeq(bytes, t + 1, Len(bytes))
           kk == FrontVarint(behind)
           n == VarintValue(SubSeq(behind, 1, kk))
           Field(size) ==
            [tag |-> tag, number |-> n, body |-> SubSeq(behind, kk + 1, kk + size),
             raw |-> SubSeq(bytes, 1, t + kk + size)]
           f == IF t = 0 \/ kk = 0 THEN NoField
                ELSE IF tag % 8 = 0 /\ tag # 0 THEN Field(0)
                ELSE IF tag % 8 = 2 /\ kk + n <= Len(behind) THEN Field(n)
                ELSE NoField
<1>1. FrontField(bytes) = f
  BY DEF FrontField
<1>2. t = 1
  OBVIOUS
<1> HIDE DEF t
<1>3. tag = TagOf(bytes) /\ behind = BehindTag(bytes)
  BY <1>2 DEF TagOf, BehindTag
<1> HIDE DEF tag, behind
<1>4. kk = k
  BY <1>3
<1>5. n = NumberOf(bytes)
  BY <1>3 DEF NumberOf
<1> HIDE DEF kk, n
<1>6. \A size : Field(size) =
        [tag |-> TagOf(bytes), number |-> NumberOf(bytes),
         body |-> SubSeq(BehindTag(bytes), k + 1, k + size),
         raw |-> SubSeq(bytes, 1, 1 + k + size)]
  BY <1>2, <1>3, <1>4, <1>5
<1> HIDE DEF Field
<1>7. CASE tag % 8 = 0 /\ tag # 0
  <2>1. f = Field(0)
    BY <1>7, <1>2, <1>4
  <2> HIDE DEF f
  <2> QED BY <1>1, <1>3, <1>6, <1>7, <2>1
<1>8. CASE tag % 8 = 2 /\ k + n <= Len(behind)
  <2>1. f = Field(n)
    BY <1>8, <1>2, <1>4
  <2> HIDE DEF f
  <2> QED BY <1>1, <1>3, <1>5, <1>6, <1>8, <2>1
<1> QED BY <1>3, <1>5, <1>7, <1>8

(* A number that was written as a field is read back, whatever follows.    *)
LEMMA NumberInFront ==
    ASSUME NEW number \in 1 .. 15, NEW n \in Longs64, NEW rest \in Seq(Bytes)
    PROVE  /\ FrontField((<<VarintTag(number)>> \o Varint(n)) \o rest) = NumberRead(number, n)
           /\ <<VarintTag(number)>> \o Varint(n) \in Seq(Bytes)
           /\ Len(<<VarintTag(number)>> \o Varint(n)) = 1 + VarintSize(n)
<1> DEFINE tag == VarintTag(number)
           a == <<tag>>
           v == Varint(n)
           k == VarintSize(n)
           bytes == a \o (v \o rest)
           behind == BehindTag(bytes)
<1>1. tag \in 1 .. 127 /\ tag % 8 = 0
  BY DEF VarintTag
<1>2. a \in Seq(Bytes) /\ Len(a) = 1 /\ a = <<tag>>
  <2> HIDE DEF tag
  <2> QED BY <1>1 DEF Bytes
<1>3. v \in Seq(Bytes) /\ Len(v) = k /\ k \in Nat \ {0} /\ v = Varint(n)
      /\ k = VarintSize(n)
  BY VarintType, LongestType
<1>d. bytes = a \o (v \o rest) /\ behind = BehindTag(bytes)
  OBVIOUS
<1> HIDE DEF tag, a, v, k, bytes, behind
<1>4. /\ bytes \in Seq(Bytes) /\ FrontVarint(bytes) = 1
      /\ TagOf(bytes) = tag /\ NumberOf(bytes) = n
      /\ FrontVarint(behind) = k /\ behind = v \o rest /\ behind \in Seq(Bytes)
  <2>1. tag \in 0 .. 127 /\ bytes = <<tag>> \o (Varint(n) \o rest)
    BY <1>1, <1>2, <1>3, <1>d
  <2>2. /\ bytes \in Seq(Bytes)
        /\ FrontVarint(bytes) = 1 /\ TagOf(bytes) = tag
        /\ BehindTag(bytes) = Varint(n) \o rest
        /\ FrontVarint(BehindTag(bytes)) = VarintSize(n)
        /\ NumberOf(bytes) = n
    BY <2>1, FrontOfTag
  <2>3. Varint(n) \o rest \in Seq(Bytes)
    BY <1>3
  <2> QED BY <2>2, <2>3, <1>3, <1>d
<1>5. (a \o v) \o rest = bytes /\ a \o v \in Seq(Bytes) /\ Len(a \o v) = 1 + k
  BY <1>2, <1>3, <1>d, Middle, Cut
<1>6. SubSeq(bytes, 1, 1 + k) = a \o v
  <2>1. SubSeq((a \o v) \o rest, 1, Len(a \o v)) = a \o v
    BY <1>5, Cut
  <2> QED BY <1>5, <2>1
<1>7. SubSeq(behind, k + 1, k + 0) = <<>> /\ SubSeq(bytes, 1, 1 + k + 0) = a \o v
  BY <1>3, <1>4, <1>6
<1>9. FrontField(bytes) =
        [tag |-> tag, number |-> n, body |-> SubSeq(behind, k + 1, k + 0),
         raw |-> SubSeq(bytes, 1, 1 + k + 0)]
  <2>1. tag % 8 = 0 /\ tag # 0 /\ k # 0
    BY <1>1, <1>3
  <2> QED BY <2>1, <1>4, <1>d, FieldIs
<1>10. FrontField((a \o v) \o rest) =
        [tag |-> tag, number |-> n, body |-> <<>>, raw |-> a \o v]
  BY <1>5, <1>7, <1>9
<1> QED BY <1>5, <1>10 DEF NumberRead, tag, a, v, k

(* An inner message that was written as a field is read back, whatever     *)
(* follows.                                                                *)
LEMMA MessageInFront ==
    ASSUME NEW number \in 1 .. 15, NEW body \in Seq(Bytes), Len(body) < LongRange,
           NEW rest \in Seq(Bytes)
    PROVE  /\ FrontField(MessageField(number, body) \o rest) = MessageRead(number, body)
           /\ MessageField(number, body) \in Seq(Bytes)
           /\ Len(MessageField(number, body)) = MessageFieldSize(Len(body))
<1> DEFINE n == Len(body)
           tag == LengthTag(number)
           a == <<tag>>
           v == Varint(n)
           k == VarintSize(n)
           bytes == a \o (v \o (body \o rest))
           behind == BehindTag(bytes)
           field == (a \o v) \o body
<1>1. tag \in 1 .. 127 /\ tag % 8 = 2
  BY DEF LengthTag
<1>2. n \in Longs64 /\ n \in Nat /\ body \o rest \in Seq(Bytes) /\ n = Len(body)
  BY Powers DEF Longs64
<1>4. a \in Seq(Bytes) /\ Len(a) = 1 /\ a = <<tag>>
  <2> HIDE DEF tag
  <2> QED BY <1>1 DEF Bytes
<1>5. v \in Seq(Bytes) /\ Len(v) = k /\ k \in Nat \ {0} /\ v = Varint(n)
      /\ k = VarintSize(n)
  <2> HIDE DEF n
  <2> QED BY <1>2, VarintType, LongestType
<1>d. /\ bytes = a \o (v \o (body \o rest)) /\ behind = BehindTag(bytes)
      /\ field = (a \o v) \o body
  OBVIOUS
<1> HIDE DEF n, tag, a, v, k, bytes, behind, field
<1>3. /\ bytes \in Seq(Bytes) /\ FrontVarint(bytes) = 1
      /\ TagOf(bytes) = tag /\ NumberOf(bytes) = n
      /\ FrontVarint(behind) = k /\ behind = v \o (body \o rest) /\ behind \in Seq(Bytes)
  <2>1. tag \in 0 .. 127 /\ bytes = <<tag>> \o (Varint(n) \o (body \o rest))
    BY <1>1, <1>4, <1>5, <1>d
  <2>2. /\ bytes \in Seq(Bytes)
        /\ FrontVarint(bytes) = 1 /\ TagOf(bytes) = tag
        /\ BehindTag(bytes) = Varint(n) \o (body \o rest)
        /\ FrontVarint(BehindTag(bytes)) = VarintSize(n)
        /\ NumberOf(bytes) = n
    BY <1>2, <2>1, FrontOfTag
  <2>3. Varint(n) \o (body \o rest) \in Seq(Bytes)
    BY <1>2, <1>5
  <2> QED BY <2>2, <2>3, <1>5, <1>d
<1>6. field \in Seq(Bytes) /\ Len(field) = 1 + k + n /\ field \o rest = bytes
  <2>1. a \o v \in Seq(Bytes) /\ Len(a \o v) = 1 + k
    BY <1>4, <1>5, Cut
  <2>2. field \in Seq(Bytes) /\ Len(field) = (1 + k) + n
    BY <1>2, <1>d, <2>1, Cut
  <2>3. field \o rest = (a \o v) \o (body \o rest)
    BY <1>d, <2>1, Middle
  <2>4. (a \o v) \o (body \o rest) = bytes
    BY <1>2, <1>4, <1>5, <1>d, Middle
  <2> QED BY <2>2, <2>3, <2>4
<1>7. SubSeq(bytes, 1, 1 + k + n) = field
  <2>1. SubSeq(field \o rest, 1, Len(field)) = field
    BY <1>6, Cut
  <2> QED BY <1>6, <2>1
<1>8. SubSeq(behind, k + 1, k + n) = body
  <2>1. SubSeq(v \o (body \o rest), Len(v) + 1, Len(v) + Len(body)) = body
    BY <1>5, Middle
  <2> QED BY <1>2, <1>3, <1>5, <2>1
<1>10. k + n <= Len(behind)
  <2>1. Len(body \o rest) = n + Len(rest) /\ Len(rest) \in Nat
    BY <1>2, Cut
  <2>2. Len(v \o (body \o rest)) = Len(v) + Len(body \o rest)
    BY <1>2, <1>5, Cut
  <2> QED BY <1>2, <1>3, <1>5, <2>1, <2>2
<1>11. FrontField(bytes) = [tag |-> tag, number |-> n, body |-> body, raw |-> field]
  <2>1. FrontField(bytes) =
            [tag |-> tag, number |-> n, body |-> SubSeq(behind, k + 1, k + n),
             raw |-> SubSeq(bytes, 1, 1 + k + n)]
    BY <1>1, <1>3, <1>5, <1>d, <1>10, FieldIs
  <2> QED BY <1>7, <1>8, <2>1
<1>12. MessageField(number, body) = field
  BY DEF MessageField, field, a, v, tag, n
<1>13. FrontField(field \o rest) =
        [tag |-> tag, number |-> n, body |-> body, raw |-> field]
  BY <1>6, <1>11
<1>14. Len(field) = MessageFieldSize(Len(body))
  BY <1>6 DEF MessageFieldSize, k, n
<1>15. MessageRead(number, body) =
        [tag |-> tag, number |-> n, body |-> body, raw |-> field]
  BY <1>12 DEF MessageRead, tag, n
<1> QED BY <1>6, <1>12, <1>13, <1>14, <1>15

----------------------------------------------------------------------------
(* All fields.                                                             *)

(* The bytes behind the field in front.                                    *)
BehindField(bytes) == SubSeq(bytes, Len(FrontField(bytes).raw) + 1, Len(bytes))

(* One step of the recursion of Fields.                                    *)
FieldsBy(g, bytes) ==
    IF FrontField(bytes) = NoField THEN <<>>
    ELSE <<FrontField(bytes)>> \o g[BehindField(bytes)]

(* What is behind the field in front is shorter.                           *)
LEMMA BehindFieldType ==
    ASSUME NEW bytes \in Seq(Bytes), FrontField(bytes) # NoField
    PROVE  BehindField(bytes) \in Seq(Bytes) /\ Len(BehindField(bytes)) < Len(bytes)
<1> DEFINE r == Len(FrontField(bytes).raw)
<1>1. r \in 1 .. Len(bytes)
  BY FrontFieldType
<1>2. BehindField(bytes) = SubSeq(bytes, r + 1, Len(bytes))
  BY DEF BehindField
<1> HIDE DEF r
<1> QED BY <1>1, <1>2

(* The recursive definition of Fields has a solution.                      *)
LEMMA FieldsIsThere ==
    \E f : f = [bytes \in Seq(Bytes) |-> FieldsBy(f, bytes)]
<1> DEFINE P(k, g) == \A b \in Seq(Bytes) : Len(b) <= k => g[b] = FieldsBy(g, b)
           T == {k \in Nat : \E g : P(k, g)}
           Q(k) == CHOOSE g : P(k, g)
           f == [b \in Seq(Bytes) |-> Q(Len(b))[b]]
<1>1. 0 \in T
  <2> DEFINE g == [b \in Seq(Bytes) |-> <<>>]
  <2>1. P(0, g)
    <3> TAKE b \in Seq(Bytes)
    <3>1. Len(b) <= 0 => b = <<>>
      OBVIOUS
    <3>2. Len(b) <= 0 => FieldsBy(g, b) = <<>>
      <4> HIDE DEF g
      <4> QED BY <3>1, FrontFieldType DEF FieldsBy
    <3> HIDE DEF FieldsBy
    <3> QED BY <3>2
  <2>2. \E x : P(0, x)
    <3> HIDE DEF P, g
    <3> QED BY <2>1
  <2> HIDE DEF P
  <2> QED BY <2>2
<1>2. ASSUME NEW k \in Nat, k \in T PROVE k + 1 \in T
  <2>1. PICK g : P(k, g)
    BY <1>2
  <2> DEFINE h == [b \in Seq(Bytes) |-> IF Len(b) <= k THEN g[b] ELSE FieldsBy(g, b)]
  <2>2. P(k + 1, h)
    <3> SUFFICES ASSUME NEW b \in Seq(Bytes), Len(b) <= k + 1
                 PROVE  h[b] = FieldsBy(h, b)
      OBVIOUS
    <3>1. h[b] = FieldsBy(g, b)
      BY <2>1
    <3>2. FrontField(b) # NoField => h[BehindField(b)] = g[BehindField(b)]
      <4> SUFFICES ASSUME FrontField(b) # NoField
                   PROVE  h[BehindField(b)] = g[BehindField(b)]
        OBVIOUS
      <4>1. BehindField(b) \in Seq(Bytes) /\ Len(BehindField(b)) < Len(b)
        BY BehindFieldType
      <4>2. Len(BehindField(b)) <= k
        BY <4>1
      <4> QED BY <4>1, <4>2
    <3> HIDE DEF h
    <3> QED BY <3>1, <3>2 DEF FieldsBy
  <2>3. \E x : P(k + 1, x)
    <3> HIDE DEF P, h
    <3> QED BY <2>2
  <2> HIDE DEF P
  <2> QED BY <2>3
<1>3. \A k \in Nat : P(k, Q(k))
  <2>1. Nat \subseteq T
    <3> HIDE DEF T
    <3> QED BY <1>1, <1>2, NatInductionOverSet
  <2> HIDE DEF P
  <2> QED BY <2>1
<1> HIDE DEF Q
<1>4. ASSUME NEW m \in Nat, NEW n \in Nat, NEW b \in Seq(Bytes), Len(b) <= m, Len(b) <= n
      PROVE  Q(m)[b] = Q(n)[b]
  <2> DEFINE A == {k \in Nat : \A c \in Seq(Bytes) :
                        Len(c) <= k /\ Len(c) <= m /\ Len(c) <= n => Q(m)[c] = Q(n)[c]}
  <2>1. ASSUME NEW c \in Seq(Bytes), Len(c) <= m, Len(c) <= n,
               \A d \in Seq(Bytes) : Len(d) < Len(c) => Q(m)[d] = Q(n)[d]
        PROVE  Q(m)[c] = Q(n)[c]
    <3>1. Q(m)[c] = FieldsBy(Q(m), c) /\ Q(n)[c] = FieldsBy(Q(n), c)
      BY <1>3, <2>1
    <3>2. FrontField(c) # NoField => Q(m)[BehindField(c)] = Q(n)[BehindField(c)]
      BY <2>1, BehindFieldType
    <3> QED BY <3>1, <3>2 DEF FieldsBy
  <2>2. 0 \in A
    <3> SUFFICES ASSUME NEW c \in Seq(Bytes), Len(c) <= 0, Len(c) <= m, Len(c) <= n
                 PROVE  Q(m)[c] = Q(n)[c]
      OBVIOUS
    <3>1. \A d \in Seq(Bytes) : ~(Len(d) < Len(c))
      OBVIOUS
    <3> QED BY <2>1, <3>1
  <2>3. ASSUME NEW k \in Nat, k \in A PROVE k + 1 \in A
    <3> SUFFICES ASSUME NEW c \in Seq(Bytes), Len(c) <= k + 1, Len(c) <= m, Len(c) <= n
                 PROVE  Q(m)[c] = Q(n)[c]
      OBVIOUS
    <3>1. \A d \in Seq(Bytes) : Len(d) < Len(c) => Q(m)[d] = Q(n)[d]
      BY <2>3
    <3> QED BY <2>1, <3>1
  <2>4. Len(b) \in A
    <3> HIDE DEF A
    <3>1. Len(b) \in Nat
      OBVIOUS
    <3> QED BY <2>2, <2>3, <3>1, NatInductionOverSet
  <2> QED BY <1>4, <2>4
<1>5. ASSUME NEW b \in Seq(Bytes) PROVE f[b] = FieldsBy(f, b)
  <2>1. f[b] = Q(Len(b))[b] /\ Len(b) \in Nat
    OBVIOUS
  <2>2. f[b] = FieldsBy(Q(Len(b)), b)
    BY <1>3, <2>1
  <2>3. FrontField(b) # NoField => f[BehindField(b)] = Q(Len(b))[BehindField(b)]
    <3> SUFFICES ASSUME FrontField(b) # NoField
                 PROVE  f[BehindField(b)] = Q(Len(b))[BehindField(b)]
      OBVIOUS
    <3> DEFINE c == BehindField(b)
    <3>1. c \in Seq(Bytes) /\ Len(c) < Len(b) /\ Len(c) \in Nat
      BY BehindFieldType
    <3> HIDE DEF c
    <3>2. f[c] = Q(Len(c))[c]
      BY <3>1
    <3>3. Q(Len(c))[c] = Q(Len(b))[c]
      BY <1>4, <2>1, <3>1
    <3> QED BY <3>2, <3>3 DEF c
  <2> HIDE DEF f
  <2> QED BY <2>2, <2>3 DEF FieldsBy
<1>6. f = [b \in Seq(Bytes) |-> FieldsBy(f, b)]
  <2> DEFINE g == [b \in Seq(Bytes) |-> FieldsBy(f, b)]
  <2>1. \A b \in Seq(Bytes) : f[b] = g[b]
    <3> HIDE DEF f
    <3> QED BY <1>5
  <2>2. f = [b \in Seq(Bytes) |-> f[b]] /\ g = [b \in Seq(Bytes) |-> g[b]]
    OBVIOUS
  <2> HIDE DEF f, g
  <2>3. f = g
    BY <2>1, <2>2
  <2> QED BY <2>3 DEF g
<1> HIDE DEF f
<1> QED BY <1>6

(* Fields is that solution.                                                *)
LEMMA FieldsAre ==
    /\ DOMAIN Fields = Seq(Bytes)
    /\ \A bytes \in Seq(Bytes) : Fields[bytes] = FieldsBy(Fields, bytes)
<1>1. Fields = [bytes \in Seq(Bytes) |-> FieldsBy(Fields, bytes)]
  BY FieldsIsThere DEF Fields, FieldsBy, BehindField
<1> HIDE DEF Fields
<1> QED BY <1>1

(* Fields are fields.                                                      *)
LEMMA FieldsType == \A bytes \in Seq(Bytes) : Fields[bytes] \in Seq(FieldType)
<1> DEFINE A == {k \in Nat : \A c \in Seq(Bytes) : Len(c) <= k => Fields[c] \in Seq(FieldType)}
<1>1. ASSUME NEW c \in Seq(Bytes),
             \A d \in Seq(Bytes) : Len(d) < Len(c) => Fields[d] \in Seq(FieldType)
      PROVE  Fields[c] \in Seq(FieldType)
  <2>1. CASE FrontField(c) = NoField
    <3>1. Fields[c] = <<>>
      BY <2>1, FieldsAre DEF FieldsBy
    <3> QED BY <3>1
  <2>2. CASE FrontField(c) # NoField
    <3> DEFINE x == FrontField(c)
               r == Fields[BehindField(c)]
    <3>1. Fields[c] = <<x>> \o r
      BY <2>2, FieldsAre DEF FieldsBy
    <3>2. x \in FieldType /\ r \in Seq(FieldType)
      BY <1>1, <2>2, BehindFieldType, FrontFieldType
    <3> HIDE DEF x, r
    <3> QED BY <3>1, <3>2
  <2> QED BY <2>1, <2>2
<1>2. 0 \in A
  <2> SUFFICES ASSUME NEW c \in Seq(Bytes), Len(c) <= 0
               PROVE  Fields[c] \in Seq(FieldType)
    OBVIOUS
  <2>1. \A d \in Seq(Bytes) : ~(Len(d) < Len(c))
    OBVIOUS
  <2> QED BY <1>1, <2>1
<1>3. ASSUME NEW k \in Nat, k \in A PROVE k + 1 \in A
  <2> SUFFICES ASSUME NEW c \in Seq(Bytes), Len(c) <= k + 1
               PROVE  Fields[c] \in Seq(FieldType)
    OBVIOUS
  <2>1. \A d \in Seq(Bytes) : Len(d) < Len(c) => Fields[d] \in Seq(FieldType)
    BY <1>3
  <2> QED BY <1>1, <2>1
<1>4. \A bytes \in Seq(Bytes) : Len(bytes) \in A
  <2> HIDE DEF A
  <2>1. \A bytes \in Seq(Bytes) : Len(bytes) \in Nat
    OBVIOUS
  <2> QED BY <1>2, <1>3, <2>1, NatInductionOverSet
<1> QED BY <1>4

(* The fields of bytes that were written are those that were written.      *)
LEMMA NoFields == Fields[<<>>] = <<>>
<1>1. <<>> \in Seq(Bytes)
  OBVIOUS
<1> QED BY <1>1, FieldsAre, FrontFieldType DEF FieldsBy

(* Fields reads the field in front, and then what is behind it.            *)
LEMMA FieldThenRest ==
    ASSUME NEW a \in Seq(Bytes), a # <<>>, NEW rest \in Seq(Bytes), NEW f,
           FrontField(a \o rest) = f, f.raw = a
    PROVE  Fields[a \o rest] = <<f>> \o Fields[rest]
<1>1. a \o rest \in Seq(Bytes)
  BY Cut
<1>2. f # NoField
  BY DEF NoField
<1>3. BehindField(a \o rest) = rest
  BY Cut DEF BehindField
<1> QED BY <1>1, <1>2, <1>3, FieldsAre DEF FieldsBy

(* A number field is skipped if the number is zero and read if it is not,  *)
(* and then what is behind it.                                             *)
LEMMA NumberThenRest ==
    ASSUME NEW number \in 1 .. 15, NEW n \in Longs64, NEW rest \in Seq(Bytes)
    PROVE  /\ UInt32Field(number, n) \in Seq(Bytes)
           /\ Len(UInt32Field(number, n)) = UInt32FieldSize(n)
           /\ n = 0 => UInt32Field(number, n) \o rest = rest
           /\ n # 0 => Fields[UInt32Field(number, n) \o rest] =
                            <<NumberRead(number, n)>> \o Fields[rest]
<1> DEFINE a == <<VarintTag(number)>> \o Varint(n)
<1>1. /\ FrontField(a \o rest) = NumberRead(number, n)
      /\ a \in Seq(Bytes) /\ Len(a) = 1 + VarintSize(n)
  BY NumberInFront
<1>2. NumberRead(number, n).raw = a
  BY DEF NumberRead
<1>3. a # <<>>
  BY <1>1, VarintSizeType, LongestType
<1>4. UInt32Field(number, n) = IF n = 0 THEN <<>> ELSE a
  BY DEF UInt32Field
<1> HIDE DEF a
<1>5. CASE n = 0
  BY <1>4, <1>5, Nothing DEF UInt32FieldSize
<1>6. CASE n # 0
  BY <1>1, <1>2, <1>3, <1>4, <1>6, FieldThenRest DEF UInt32FieldSize
<1> QED BY <1>5, <1>6

(* An inner message is read as a field, and then what is behind it.        *)
LEMMA MessageThenRest ==
    ASSUME NEW number \in 1 .. 15, NEW body \in Seq(Bytes), Len(body) < LongRange,
           NEW rest \in Seq(Bytes)
    PROVE  /\ MessageField(number, body) \in Seq(Bytes)
           /\ Len(MessageField(number, body)) = MessageFieldSize(Len(body))
           /\ Fields[MessageField(number, body) \o rest] =
                <<MessageRead(number, body)>> \o Fields[rest]
<1> DEFINE a == MessageField(number, body)
<1>1. /\ FrontField(a \o rest) = MessageRead(number, body)
      /\ a \in Seq(Bytes) /\ Len(a) = MessageFieldSize(Len(body))
  BY MessageInFront
<1>2. MessageRead(number, body).raw = a
  BY DEF MessageRead
<1>3. a # <<>>
  <2>1. Len(body) \in Longs64 /\ Len(body) \in Nat
    BY Powers DEF Longs64
  <2> QED BY <1>1, <2>1, VarintSizeType, LongestType DEF MessageFieldSize
<1> HIDE DEF a
<1>4. Fields[a \o rest] = <<MessageRead(number, body)>> \o Fields[rest]
  BY <1>1, <1>2, <1>3, FieldThenRest
<1> QED BY <1>1, <1>4 DEF a

(* What is read of a field that was written is a field.                    *)
LEMMA ReadType ==
    /\ \A number \in 1 .. 15, n \in Longs64 : NumberRead(number, n) \in FieldType
    /\ \A number \in 1 .. 15, body \in Seq(Bytes) :
            Len(body) < LongRange => MessageRead(number, body) \in FieldType
<1>1. ASSUME NEW number \in 1 .. 15, NEW n \in Longs64
      PROVE  NumberRead(number, n) \in FieldType
  <2>1. <<VarintTag(number)>> \o Varint(n) \in Seq(Bytes)
    <3>1. <<>> \in Seq(Bytes)
      OBVIOUS
    <3> QED BY <3>1, NumberInFront
  <2>2. VarintTag(number) \in Nat /\ n \in Nat
    BY Powers DEF VarintTag, Longs64
  <2> QED BY <2>1, <2>2 DEF NumberRead, FieldType
<1>2. ASSUME NEW number \in 1 .. 15, NEW body \in Seq(Bytes), Len(body) < LongRange
      PROVE  MessageRead(number, body) \in FieldType
  <2>1. MessageField(number, body) \in Seq(Bytes)
    <3>1. <<>> \in Seq(Bytes)
      OBVIOUS
    <3> QED BY <1>2, <3>1, MessageInFront
  <2>2. LengthTag(number) \in Nat /\ Len(body) \in Nat
    BY DEF LengthTag
  <2> QED BY <2>1, <2>2 DEF MessageRead, FieldType
<1> QED BY <1>1, <1>2

----------------------------------------------------------------------------
(* The fields of a message, one behind the other.                          *)

(* No bytes are bytes.                                                     *)
LEMMA NoBytes == <<>> \in Seq(Bytes)
OBVIOUS

(* Bytes can be put together in any grouping.                              *)
LEMMA Assoc == \A a, b, c \in Seq(Bytes) : a \o b \o c = a \o (b \o c)
BY Middle

(* The same, to be used for one grouping at a time.                        *)
Associate(a, b, c) == a \o b \o c = a \o (b \o c)

(* Any three do so.                                                        *)
LEMMA Grouped == \A a, b, c \in Seq(Bytes) : Associate(a, b, c)
BY Assoc DEF Associate

(* Fields can be put together from either end, and their lengths add up.   *)
Chained2(a, b) ==
    /\ a \o b \o <<>> = a \o (b \o <<>>)
    /\ b \o <<>> \in Seq(Bytes)
    /\ a \o (b \o <<>>) \in Seq(Bytes)
    /\ Len(a \o (b \o <<>>)) = Len(a) + Len(b)

(* Two fields, written one after the other, are a field in front of a      *)
(* field.                                                                  *)
LEMMA Chain2 == \A a, b \in Seq(Bytes) : Chained2(a, b)
<1> TAKE a, b \in Seq(Bytes)
<1>1. a \o b \o <<>> = a \o (b \o <<>>)
  <2>1. Associate(a, b, <<>>)
    BY Grouped, NoBytes, Zenon
  <2> QED BY <2>1 DEF Associate
<1> QED BY <1>1 DEF Chained2

Chained3(a, b, c) ==
    /\ a \o b \o c \o <<>> = a \o (b \o (c \o <<>>))
    /\ c \o <<>> \in Seq(Bytes)
    /\ b \o (c \o <<>>) \in Seq(Bytes)
    /\ a \o (b \o (c \o <<>>)) \in Seq(Bytes)
    /\ Len(a \o (b \o (c \o <<>>))) = Len(a) + Len(b) + Len(c)

(* Three fields.                                                           *)
LEMMA Chain3 == \A a, b, c \in Seq(Bytes) : Chained3(a, b, c)
<1> TAKE a, b, c \in Seq(Bytes)
<1> DEFINE ab == a \o b
           rest == c \o <<>>
<1>1. ab \in Seq(Bytes) /\ rest \in Seq(Bytes)
  OBVIOUS
<1>2. a \o b \o rest = a \o (b \o rest)
  <2> HIDE DEF rest
  <2>1. Associate(a, b, rest)
    BY <1>1, Grouped, Zenon
  <2> QED BY <2>1 DEF Associate
<1>3. ab \o c \o <<>> = ab \o (c \o <<>>)
  <2>1. ab \in Seq(Bytes)
    BY <1>1
  <2> HIDE DEF ab, rest
  <2>2. Chained2(ab, c)
    BY <2>1, Chain2
  <2> QED BY <2>2 DEF Chained2
<1>4. a \o b \o c \o <<>> = a \o (b \o (c \o <<>>))
  <2> HIDE DEF rest
  <2>1. a \o b \o c \o <<>> = a \o b \o rest
    BY <1>3 DEF rest
  <2>2. a \o (b \o rest) = a \o (b \o (c \o <<>>))
    BY DEF rest
  <2> QED BY <1>2, <2>1, <2>2
<1>5. /\ c \o <<>> \in Seq(Bytes)
      /\ b \o (c \o <<>>) \in Seq(Bytes)
      /\ a \o (b \o (c \o <<>>)) \in Seq(Bytes)
      /\ Len(a \o (b \o (c \o <<>>))) = Len(a) + Len(b) + Len(c)
  OBVIOUS
<1> QED BY <1>4, <1>5 DEF Chained3

Flat4(a, b, c, d) == a \o b \o c \o d \o <<>>
Nested4(a, b, c, d) == a \o (b \o (c \o (d \o <<>>)))

(* Four fields.                                                            *)
LEMMA Chain4 ==
    \A a, b, c, d \in Seq(Bytes) :
        /\ Flat4(a, b, c, d) = Nested4(a, b, c, d)
        /\ Nested4(a, b, c, d) \in Seq(Bytes)
        /\ Len(Nested4(a, b, c, d)) = Len(a) + Len(b) + Len(c) + Len(d)
<1> TAKE a, b, c, d \in Seq(Bytes)
<1> DEFINE ab == a \o b
           rest == c \o (d \o <<>>)
<1>1. ab \in Seq(Bytes) /\ rest \in Seq(Bytes)
  OBVIOUS
<1>2. a \o b \o rest = a \o (b \o rest)
  <2> HIDE DEF rest
  <2>1. Associate(a, b, rest)
    BY <1>1, Grouped, Zenon
  <2> QED BY <2>1 DEF Associate
<1>3. ab \o c \o d \o <<>> = ab \o (c \o (d \o <<>>))
  <2>1. ab \in Seq(Bytes)
    BY <1>1
  <2> HIDE DEF ab, rest
  <2>2. Chained3(ab, c, d)
    BY <2>1, Chain3
  <2> QED BY <2>2 DEF Chained3
<1>4. a \o b \o c \o d \o <<>> = a \o (b \o (c \o (d \o <<>>)))
  <2> HIDE DEF rest
  <2>1. a \o b \o c \o d \o <<>> = a \o b \o rest
    BY <1>3 DEF rest
  <2>2. a \o (b \o rest) = a \o (b \o (c \o (d \o <<>>)))
    BY DEF rest
  <2> QED BY <1>2, <2>1, <2>2
<1>5. /\ a \o (b \o (c \o (d \o <<>>))) \in Seq(Bytes)
      /\ Len(a \o (b \o (c \o (d \o <<>>)))) = Len(a) + Len(b) + Len(c) + Len(d)
  OBVIOUS
<1> QED BY <1>4, <1>5 DEF Flat4, Nested4

Flat5(a, b, c, d, e) == a \o b \o c \o d \o e \o <<>>
Nested5(a, b, c, d, e) == a \o (b \o (c \o (d \o (e \o <<>>))))

(* Five fields.                                                            *)
LEMMA Chain5 ==
    \A a, b, c, d, e \in Seq(Bytes) :
        /\ Flat5(a, b, c, d, e) = Nested5(a, b, c, d, e)
        /\ Nested5(a, b, c, d, e) \in Seq(Bytes)
        /\ Len(Nested5(a, b, c, d, e)) = Len(a) + Len(b) + Len(c) + Len(d) + Len(e)
<1> TAKE a, b, c, d, e \in Seq(Bytes)
<1> DEFINE ab == a \o b
           rest == c \o (d \o (e \o <<>>))
<1>1. ab \in Seq(Bytes) /\ rest \in Seq(Bytes)
  OBVIOUS
<1>2. a \o b \o rest = a \o (b \o rest)
  <2> HIDE DEF rest
  <2>1. Associate(a, b, rest)
    BY <1>1, Grouped, Zenon
  <2> QED BY <2>1 DEF Associate
<1>3. ab \o c \o d \o e \o <<>> = ab \o (c \o (d \o (e \o <<>>)))
  <2> DEFINE abc == ab \o c
             abcd == abc \o d
             ee == e \o <<>>
             de == d \o ee
  <2>1. /\ ab \in Seq(Bytes) /\ abc \in Seq(Bytes) /\ abcd \in Seq(Bytes)
        /\ ee \in Seq(Bytes) /\ de \in Seq(Bytes)
    OBVIOUS
  <2>2. abcd \o e \o <<>> = abcd \o ee
    <3> HIDE DEF abcd
    <3>1. Chained2(abcd, e)
      BY <2>1, Chain2
    <3> QED BY <3>1 DEF Chained2
  <2>3. abc \o d \o ee = abc \o de
    <3> HIDE DEF abc, ee
    <3>1. Associate(abc, d, ee)
      BY <2>1, Grouped, Zenon
    <3> QED BY <3>1 DEF Associate
  <2>4. ab \o c \o de = ab \o (c \o de)
    <3> HIDE DEF ab, de
    <3>1. Associate(ab, c, de)
      BY <2>1, Grouped, Zenon
    <3> QED BY <3>1 DEF Associate
  <2> QED BY <2>2, <2>3, <2>4
<1>4. a \o b \o c \o d \o e \o <<>> = a \o (b \o (c \o (d \o (e \o <<>>))))
  <2> HIDE DEF rest
  <2>1. a \o b \o c \o d \o e \o <<>> = a \o b \o rest
    BY <1>3 DEF rest
  <2>2. a \o (b \o rest) = a \o (b \o (c \o (d \o (e \o <<>>))))
    BY DEF rest
  <2> QED BY <1>2, <2>1, <2>2
<1>5. /\ a \o (b \o (c \o (d \o (e \o <<>>)))) \in Seq(Bytes)
      /\ Len(a \o (b \o (c \o (d \o (e \o <<>>))))) = Len(a) + Len(b) + Len(c) + Len(d) + Len(e)
  OBVIOUS
<1> QED BY <1>4, <1>5 DEF Flat5, Nested5

----------------------------------------------------------------------------
(* The numbers of messages, written and read.                              *)

(* A word passes through a long unchanged.                                 *)
LEMMA WordsAreRead ==
    \A n \in Words : n \in Longs64 /\ n \in Nat /\ n % WordRange = n
<1>1. \A n \in 0 .. WordRange - 1 : n % WordRange = n
  <2>1. WordRange \in Nat \ {0}
    BY Powers
  <2> QED BY <2>1, SmallDivision
<1> QED BY <1>1, Powers DEF Words, Longs64

(* A negative number goes round once.                                      *)
LEMMA NegativeRemainder ==
    \A d \in Nat \ {0} : \A n \in -d .. -1 : n % d = n + d
<1> TAKE d \in Nat \ {0}
<1> TAKE n \in -d .. -1
<1>1. n + d \in 0 .. d - 1 /\ n \in Int /\ -1 \in Int /\ n = (d * (-1)) + (n + d)
  OBVIOUS
<1> QED BY <1>1, DivisionIsUnique

(* A signed long is written as an unsigned one and read back.              *)
LEMMA LongsAreRead ==
    \A n \in Longs : /\ Unsigned(n, LongRange) \in Longs64
                     /\ Unsigned(n, LongRange) = 0 <=> n = 0
                     /\ Signed(Unsigned(n, LongRange) % LongRange, LongRange) = n
<1> TAKE n \in Longs
<1> DEFINE h == LongRange \div 2
           u == n % LongRange
<1>1. LongRange = 2 * h /\ h \in Nat \ {0} /\ n \in -h .. h - 1 /\ LongRange \in Nat \ {0}
  BY Powers DEF Longs
<1> HIDE DEF h
<1>2. u = IF n >= 0 THEN n ELSE n + LongRange
  <2>1. CASE n >= 0
    <3>1. n \in 0 .. LongRange - 1
      BY <1>1, <2>1
    <3> QED BY <1>1, <2>1, <3>1, SmallDivision
  <2>2. CASE n < 0
    <3>1. n \in -LongRange .. -1
      BY <1>1, <2>2
    <3>2. u = n + LongRange
      BY <1>1, <3>1, NegativeRemainder
    <3> QED BY <1>1, <2>2, <3>2
  <2> QED BY <1>1, <2>1, <2>2
<1> HIDE DEF u
<1>3. u \in 0 .. LongRange - 1
  BY <1>1, <1>2
<1>4. u % LongRange = u
  BY <1>1, <1>3, SmallDivision
<1>5. (IF u >= h THEN u - LongRange ELSE u) = n
  BY <1>1, <1>2
<1>6. u = 0 <=> n = 0
  BY <1>1, <1>2
<1> QED BY <1>3, <1>4, <1>5, <1>6 DEF Unsigned, Signed, Longs64, u, h

(* An int is widened to a long when it is written, and read back from its  *)
(* low word.                                                               *)
LEMMA IntsAreRead ==
    \A n \in Ints : /\ Unsigned(n, LongRange) \in Longs64
                    /\ Unsigned(n, LongRange) = 0 <=> n = 0
                    /\ Signed(Unsigned(n, LongRange) % WordRange, WordRange) = n
<1> TAKE n \in Ints
<1> DEFINE h == WordRange \div 2
           u == n % LongRange
           w == u % WordRange
<1>1. WordRange = 2 * h /\ h \in Nat \ {0} /\ n \in -h .. h - 1 /\ WordRange \in Nat \ {0}
  BY Powers DEF Ints
<1>2. LongRange = WordRange * WordRange /\ LongRange \in Nat \ {0}
      /\ WordRange <= LongRange \div 2 /\ LongRange = 2 * (LongRange \div 2)
      /\ LongRange \div 2 \in Nat
  BY Powers
<1> HIDE DEF h
<1>3. n \in Longs
  BY <1>1, <1>2 DEF Longs
<1>4. u \in Longs64 /\ (u = 0 <=> n = 0)
  BY <1>3, LongsAreRead DEF Unsigned
<1>5. u = IF n >= 0 THEN n ELSE n + LongRange
  <2>1. CASE n >= 0
    <3>1. n \in 0 .. LongRange - 1
      BY <1>1, <1>2, <2>1
    <3> QED BY <1>2, <2>1, <3>1, SmallDivision
  <2>2. CASE n < 0
    <3>1. n \in -LongRange .. -1
      BY <1>1, <1>2, <2>2
    <3> QED BY <1>2, <2>2, <3>1, NegativeRemainder
  <2> QED BY <1>1, <2>1, <2>2
<1> HIDE DEF u
<1>6. w = IF n >= 0 THEN n ELSE n + WordRange
  <2>1. CASE n >= 0
    <3>1. n \in 0 .. WordRange - 1 /\ u = n
      BY <1>1, <1>5, <2>1
    <3> QED BY <1>1, <2>1, <3>1, SmallDivision
  <2>2. CASE n < 0
    <3>1. n + WordRange \in 0 .. WordRange - 1 /\ u \in Int
      BY <1>1, <1>2, <1>5, <2>2
    <3>2. WordRange * (WordRange - 1) = LongRange - WordRange /\ WordRange - 1 \in Int
      BY <1>1, <1>2
    <3>3. u = (WordRange * (WordRange - 1)) + (n + WordRange)
      BY <1>1, <1>2, <1>5, <2>2, <3>2
    <3>4. u % WordRange = n + WordRange
      BY <1>1, <3>1, <3>2, <3>3, DivisionIsUnique
    <3> QED BY <1>1, <2>2, <3>4
  <2> QED BY <1>1, <2>1, <2>2
<1> HIDE DEF w
<1>7. (IF w >= h THEN w - WordRange ELSE w) = n
  BY <1>1, <1>6
<1> QED BY <1>4, <1>7 DEF Unsigned, Signed, w, u, h

(* The field of a word takes the bytes that are counted.                   *)
LEMMA WordField ==
    ASSUME NEW number \in 1 .. 15, NEW n \in Words
    PROVE  /\ UInt32Field(number, n) \in Seq(Bytes)
           /\ Len(UInt32Field(number, n)) = UInt32FieldSize(n)
           /\ UInt32FieldSize(n) \in 0 .. 1 + Longest
<1>1. n \in Longs64 /\ <<>> \in Seq(Bytes)
  BY WordsAreRead
<1>2. VarintSize(n) \in 1 .. Longest /\ Longest \in Nat
  BY <1>1, VarintSizeType, LongestType
<1>3. UInt32FieldSize(n) \in 0 .. 1 + Longest
  BY <1>2 DEF UInt32FieldSize
<1> QED BY <1>1, <1>3, NumberThenRest

(* The same of every field and value.                                      *)
LEMMA WordFields ==
    \A number \in 1 .. 15, n \in Words :
        /\ UInt32Field(number, n) \in Seq(Bytes)
        /\ Len(UInt32Field(number, n)) = UInt32FieldSize(n)
        /\ UInt32FieldSize(n) \in 0 .. 1 + Longest /\ UInt32FieldSize(n) \in Nat
<1> TAKE number \in 1 .. 15, n \in Words
<1>1. UInt32FieldSize(n) \in 0 .. 1 + Longest /\ Longest \in Nat
  BY WordField, LongestType
<1>2. UInt32FieldSize(n) \in Nat
  BY <1>1
<1> QED BY <1>1, <1>2, WordField

(* The field of a long takes the bytes that are counted.                   *)
LEMMA LongField ==
    ASSUME NEW number \in 1 .. 15, NEW n \in Longs
    PROVE  /\ IntField(number, n) \in Seq(Bytes)
           /\ Len(IntField(number, n)) = IntFieldSize(n)
           /\ IntFieldSize(n) \in Nat
<1> DEFINE k == Unsigned(n, LongRange)
<1>1. k \in Longs64 /\ <<>> \in Seq(Bytes)
  BY LongsAreRead
<1> HIDE DEF k
<1>2. VarintSize(k) \in 1 .. Longest /\ Longest \in Nat
  BY <1>1, VarintSizeType, LongestType
<1>3. UInt32FieldSize(k) \in Nat
  BY <1>2 DEF UInt32FieldSize
<1>4. UInt32Field(number, k) \in Seq(Bytes)
      /\ Len(UInt32Field(number, k)) = UInt32FieldSize(k)
  BY <1>1, NumberThenRest
<1> QED BY <1>3, <1>4 DEF IntField, IntFieldSize, k

(* The field of an int takes the bytes that are counted.                   *)
LEMMA IntFieldType ==
    ASSUME NEW number \in 1 .. 15, NEW n \in Ints
    PROVE  /\ IntField(number, n) \in Seq(Bytes)
           /\ Len(IntField(number, n)) = IntFieldSize(n)
           /\ IntFieldSize(n) \in Nat
<1>1. n \in Longs
  BY Powers DEF Ints, Longs
<1> QED BY <1>1, LongField

(* The field of a flag takes the bytes that are counted.                   *)
LEMMA BoolFieldType ==
    ASSUME NEW number \in 1 .. 15, NEW b \in BOOLEAN
    PROVE  /\ BoolField(number, b) \in Seq(Bytes)
           /\ Len(BoolField(number, b)) = BoolFieldSize(b)
           /\ BoolFieldSize(b) \in 0 .. 2
<1>1. 0 \in Longs64 /\ 1 \in Longs64 /\ <<>> \in Seq(Bytes)
  BY Powers DEF Longs64
<1>2. VarintSize(1) = 1
  BY <1>1, VarintSizeType, Powers, LongestType
<1>3. BoolFieldSize(b) = UInt32FieldSize(IF b THEN 1 ELSE 0)
  BY <1>2 DEF BoolFieldSize, UInt32FieldSize
<1>4. \A n \in {0, 1} : /\ UInt32Field(number, n) \in Seq(Bytes)
                         /\ Len(UInt32Field(number, n)) = UInt32FieldSize(n)
  BY <1>1, NumberThenRest
<1>5. (IF b THEN 1 ELSE 0) \in {0, 1} /\ BoolFieldSize(b) \in 0 .. 2
  BY DEF BoolFieldSize
<1> QED BY <1>3, <1>4, <1>5 DEF BoolField

(* The length of an inner message is the length of a long.                 *)
LEMMA LongestIsShort == (4 * (1 + Longest)) + 2 < LongRange
<1>1. Word \in Nat /\ Word >= 8
  BY WireAssumption
<1>2. Longest \in Nat /\ Longest <= Word
  BY <1>1 DEF Longest, VarintBytes
<1>3. WordRange >= Word + 1 /\ WordRange \in Nat /\ WordRange >= 256
  BY <1>1, Power2Type, Powers DEF WordRange
<1>4. \A a \in Nat : a >= 256 => a * a >= 256 * a
  OBVIOUS
<1>5. LongRange >= 256 * WordRange /\ LongRange \in Nat
  BY <1>3, <1>4, Powers
<1> QED BY <1>1, <1>2, <1>3, <1>5

----------------------------------------------------------------------------
(* The messages.                                                           *)

(* The bytes begin with this field.                                        *)
FirstIs(bytes, f, rest) == Fields[bytes] = <<f>> \o Fields[rest]

HostInfoFold == INSTANCE Folding WITH Op <- HostInfoField

HostInfoNext(m, number, n) ==
    IF n = 0 THEN m ELSE HostInfoField(m, NumberRead(number, n))

(* Reading a host takes field after field.                                 *)
LEMMA HostInfoTakes ==
    /\ \A m : ParseHostInfo(m, <<>>) = m
    /\ \A m : \A number \in 1 .. 15, n \in Longs64, rest \in Seq(Bytes) :
            ParseHostInfo(m, UInt32Field(number, n) \o rest) =
                ParseHostInfo(HostInfoNext(m, number, n), rest)
<1>1. \A m, bytes : ParseHostInfo(m, bytes) = HostInfoFold!FromLeft(m, Fields[bytes])
  BY DEF ParseHostInfo, HostInfoFold!FromLeft, FoldLeft, MapThenFoldSet, Max,
         HostInfoFold!Largest
<1>2. \A m : ParseHostInfo(m, <<>>) = m
  BY <1>1, NoFields, HostInfoFold!LeftEmpty
<1>3. ASSUME NEW m, NEW f \in FieldType, NEW bytes, NEW rest \in Seq(Bytes),
             FirstIs(bytes, f, rest)
      PROVE  ParseHostInfo(m, bytes) = ParseHostInfo(HostInfoField(m, f), rest)
  <2>1. Fields[rest] \in Seq(FieldType)
    BY FieldsType
  <2>2. HostInfoFold!FromLeft(m, <<f>> \o Fields[rest]) =
            HostInfoFold!FromLeft(HostInfoField(m, f), Fields[rest])
    BY <2>1, HostInfoFold!LeftCons
  <2> QED BY <1>1, <1>3, <2>2 DEF FirstIs
<1>4. ASSUME NEW m, NEW number \in 1 .. 15, NEW n \in Longs64, NEW rest \in Seq(Bytes)
      PROVE  ParseHostInfo(m, UInt32Field(number, n) \o rest) =
                ParseHostInfo(HostInfoNext(m, number, n), rest)
  <2>1. CASE n = 0
    BY <2>1, NumberThenRest DEF HostInfoNext
  <2>2. CASE n # 0
    <3>1. FirstIs(UInt32Field(number, n) \o rest, NumberRead(number, n), rest)
      BY <2>2, NumberThenRest DEF FirstIs
    <3>2. NumberRead(number, n) \in FieldType
      BY ReadType
    <3> QED BY <1>3, <2>2, <3>1, <3>2 DEF HostInfoNext
  <2> QED BY <2>1, <2>2
<1> QED BY <1>2, <1>4

HostInfoWith(ip, port) ==
    [ip |-> ip, port |-> port, unknown |-> <<>>]

(* What each field of a host does.                                         *)
LEMMA HostInfoFields ==
    \A ip, port : \A rest \in Seq(Bytes) :
        /\ \A n \in Words : ParseHostInfo(HostInfoWith(ip, port), UInt32Field(1, n) \o rest) =
                ParseHostInfo(HostInfoWith(Latest(ip, n), port), rest)
        /\ \A n \in Words : ParseHostInfo(HostInfoWith(ip, port), UInt32Field(2, n) \o rest) =
                ParseHostInfo(HostInfoWith(ip, Latest(port, n)), rest)
<1> TAKE ip, port
<1> TAKE rest \in Seq(Bytes)
<1> DEFINE m == HostInfoWith(ip, port)
<1>1. ASSUME NEW n \in Words
      PROVE  ParseHostInfo(m, UInt32Field(1, n) \o rest) =
                ParseHostInfo(HostInfoWith(Latest(ip, n), port), rest)
  <2>1. HostInfoNext(m, 1, n) =
            HostInfoWith(Latest(ip, n), port)
    BY WordsAreRead
       DEF HostInfoNext, HostInfoField, NumberRead, VarintTag, UInt32Of, Latest, HostInfoWith
  <2>2. n \in Longs64 /\ 1 \in 1 .. 15
    BY WordsAreRead
  <2> HIDE DEF m
  <2>3. ParseHostInfo(m, UInt32Field(1, n) \o rest) = ParseHostInfo(HostInfoNext(m, 1, n), rest)
    BY <2>2, HostInfoTakes, Zenon
  <2> QED BY <2>1, <2>3
<1>2. ASSUME NEW n \in Words
      PROVE  ParseHostInfo(m, UInt32Field(2, n) \o rest) =
                ParseHostInfo(HostInfoWith(ip, Latest(port, n)), rest)
  <2>1. HostInfoNext(m, 2, n) =
            HostInfoWith(ip, Latest(port, n))
    BY WordsAreRead
       DEF HostInfoNext, HostInfoField, NumberRead, VarintTag, UInt32Of, Latest, HostInfoWith
  <2>2. n \in Longs64 /\ 2 \in 1 .. 15
    BY WordsAreRead
  <2> HIDE DEF m
  <2>3. ParseHostInfo(m, UInt32Field(2, n) \o rest) = ParseHostInfo(HostInfoNext(m, 2, n), rest)
    BY <2>2, HostInfoTakes, Zenon
  <2> QED BY <2>1, <2>3
<1> QED BY <1>1, <1>2

(* A host takes the bytes that are counted, and to read them is to merge.  *)
LEMMA HostInfoIsRead ==
    ASSUME NEW m \in HostInfoType, NEW x \in HostInfoType
    PROVE  /\ SerializeHostInfo(x) \in Seq(Bytes)
           /\ Len(SerializeHostInfo(x)) = ByteSizeHostInfo(x)
           /\ ByteSizeHostInfo(x) \in 0 .. 2 * (1 + Longest)
           /\ ParseHostInfo(m, SerializeHostInfo(x)) = MergeHostInfo(m, x)
<1> DEFINE a == UInt32Field(1, x.ip)
           b == UInt32Field(2, x.port)
<1>1. /\ x.ip \in Words
      /\ x.port \in Words
      /\ x.unknown = <<>> /\ m.unknown = <<>>
      /\ m = HostInfoWith(m.ip, m.port)
  BY DEF HostInfoType, HostInfoWith
<1>2. /\ a \in Seq(Bytes) /\ Len(a) = UInt32FieldSize(x.ip)
      /\ b \in Seq(Bytes) /\ Len(b) = UInt32FieldSize(x.port)
      /\ UInt32FieldSize(x.ip) \in 0 .. 1 + Longest
      /\ UInt32FieldSize(x.port) \in 0 .. 1 + Longest
  <2>1. a \in Seq(Bytes) /\ Len(a) = UInt32FieldSize(x.ip)
        /\ UInt32FieldSize(x.ip) \in 0 .. 1 + Longest
    <3>1. x.ip \in Words
      BY <1>1
    <3> QED BY <3>1, WordFields
  <2>2. b \in Seq(Bytes) /\ Len(b) = UInt32FieldSize(x.port)
        /\ UInt32FieldSize(x.port) \in 0 .. 1 + Longest
    <3>1. x.port \in Words
      BY <1>1
    <3> QED BY <3>1, WordFields
  <2> QED BY <2>1, <2>2
<1>3. SerializeHostInfo(x) = a \o (b \o <<>>)
  <2> HIDE DEF a, b
  <2>1. SerializeHostInfo(x) = a \o b \o <<>>
    BY <1>1 DEF SerializeHostInfo, a, b
  <2>2. Chained2(a, b)
    BY <1>2, Chain2
  <2> QED BY <2>1, <2>2 DEF Chained2
<1>4. Len(a \o (b \o <<>>)) = Len(a) + Len(b)
      /\ a \o (b \o <<>>) \in Seq(Bytes)
      /\ b \o <<>> \in Seq(Bytes)
  <2> HIDE DEF a, b
  <2>1. a \in Seq(Bytes) /\ b \in Seq(Bytes)
    BY <1>2
  <2>2. Chained2(a, b)
    BY <2>1, Chain2
  <2> QED BY <2>2 DEF Chained2
<1>5. ParseHostInfo(HostInfoWith(m.ip, m.port), a \o (b \o <<>>)) =
        ParseHostInfo(HostInfoWith(Latest(m.ip, x.ip), m.port), b \o <<>>)
  <2>1. b \o <<>> \in Seq(Bytes)
    BY <1>4, NoBytes
  <2>2. \A rest \in Seq(Bytes) : ParseHostInfo(HostInfoWith(m.ip, m.port), a \o rest) =
            ParseHostInfo(HostInfoWith(Latest(m.ip, x.ip), m.port), rest)
    BY <1>1, HostInfoFields
  <2> HIDE DEF a, b
  <2> QED BY <2>1, <2>2, Zenon
<1>6. ParseHostInfo(HostInfoWith(Latest(m.ip, x.ip), m.port), b \o <<>>) =
        ParseHostInfo(HostInfoWith(Latest(m.ip, x.ip), Latest(m.port, x.port)), <<>>)
  <2>1. <<>> \in Seq(Bytes)
    BY <1>4, NoBytes
  <2>2. \A rest \in Seq(Bytes) : ParseHostInfo(HostInfoWith(Latest(m.ip, x.ip), m.port), b
            \o rest) =
            ParseHostInfo(HostInfoWith(Latest(m.ip, x.ip), Latest(m.port, x.port)), rest)
    BY <1>1, HostInfoFields
  <2> HIDE DEF a, b
  <2> QED BY <2>1, <2>2, Zenon
<1>7. ParseHostInfo(m, SerializeHostInfo(x)) = HostInfoWith(Latest(m.ip, x.ip),
          Latest(m.port, x.port))
  <2> HIDE DEF a, b
  <2> QED BY <1>1, <1>3, <1>5, <1>6, HostInfoTakes
<1>8. MergeHostInfo(m, x) = HostInfoWith(Latest(m.ip, x.ip), Latest(m.port, x.port))
  BY <1>1, Nothing DEF MergeHostInfo, HostInfoWith
<1>9. ByteSizeHostInfo(x) = UInt32FieldSize(x.ip) + UInt32FieldSize(x.port)
  <2>1. UInt32FieldSize(x.ip) \in Nat /\ UInt32FieldSize(x.port) \in Nat
    BY <1>2
  <2>2. Len(x.unknown) = 0
    BY <1>1
  <2> QED BY <2>1, <2>2 DEF ByteSizeHostInfo
<1>10. Len(SerializeHostInfo(x)) = ByteSizeHostInfo(x) /\ SerializeHostInfo(x) \in Seq(Bytes)
  <2> HIDE DEF a, b
  <2> QED BY <1>2, <1>3, <1>4, <1>9
<1>11. ByteSizeHostInfo(x) \in 0 .. 2 * (1 + Longest)
  BY <1>2, <1>9, LongestType
<1> QED BY <1>7, <1>8, <1>10, <1>11

(* A host is short enough to be an inner message; copied, or read into an  *)
(* empty one, it is what it was.                                           *)
LEMMA HostInfoFits ==
    /\ ClearHostInfo \in HostInfoType
    /\ \A x \in HostInfoType :
        /\ SerializeHostInfo(x) \in Seq(Bytes)
        /\ Len(SerializeHostInfo(x)) = ByteSizeHostInfo(x)
        /\ ByteSizeHostInfo(x) \in Nat
        /\ Len(SerializeHostInfo(x)) < LongRange
        /\ MergeHostInfo(ClearHostInfo, x) = x
        /\ ParseHostInfo(ClearHostInfo, SerializeHostInfo(x)) = x
<1>1. ClearHostInfo \in HostInfoType
  <2>1. 0 \in Words
    BY Powers DEF Words
  <2> QED BY <2>1 DEF ClearHostInfo, HostInfoType
<1>2. ASSUME NEW x \in HostInfoType
      PROVE  MergeHostInfo(ClearHostInfo, x) = x
  BY DEF MergeHostInfo, ClearHostInfo, HostInfoType, Latest, LatestFlag
<1>3. ASSUME NEW x \in HostInfoType
      PROVE  ByteSizeHostInfo(x) \in Nat /\ ByteSizeHostInfo(x) < LongRange
  <2>1. ByteSizeHostInfo(x) \in 0 .. (4 * (1 + Longest)) + 2
    BY <1>1, HostInfoIsRead, LongestType
  <2> QED BY <2>1, LongestIsShort, LongestType, Powers
<1> QED BY <1>1, <1>2, <1>3, HostInfoIsRead

HostCallResultFold == INSTANCE Folding WITH Op <- HostCallResultField

HostCallResultNext(m, number, n) ==
    IF n = 0 THEN m ELSE HostCallResultField(m, NumberRead(number, n))

(* Reading a result takes field after field.                               *)
LEMMA HostCallResultTakes ==
    /\ \A m : ParseHostCallResult(m, <<>>) = m
    /\ \A m : \A number \in 1 .. 15, n \in Longs64, rest \in Seq(Bytes) :
            ParseHostCallResult(m, UInt32Field(number, n) \o rest) =
                ParseHostCallResult(HostCallResultNext(m, number, n), rest)
<1>1. \A m, bytes : ParseHostCallResult(m, bytes) = HostCallResultFold!FromLeft(m,
          Fields[bytes])
  BY DEF ParseHostCallResult, HostCallResultFold!FromLeft, FoldLeft, MapThenFoldSet, Max,
         HostCallResultFold!Largest
<1>2. \A m : ParseHostCallResult(m, <<>>) = m
  BY <1>1, NoFields, HostCallResultFold!LeftEmpty
<1>3. ASSUME NEW m, NEW f \in FieldType, NEW bytes, NEW rest \in Seq(Bytes),
             FirstIs(bytes, f, rest)
      PROVE  ParseHostCallResult(m, bytes) = ParseHostCallResult(HostCallResultField(m, f),
                 rest)
  <2>1. Fields[rest] \in Seq(FieldType)
    BY FieldsType
  <2>2. HostCallResultFold!FromLeft(m, <<f>> \o Fields[rest]) =
            HostCallResultFold!FromLeft(HostCallResultField(m, f), Fields[rest])
    BY <2>1, HostCallResultFold!LeftCons
  <2> QED BY <1>1, <1>3, <2>2 DEF FirstIs
<1>4. ASSUME NEW m, NEW number \in 1 .. 15, NEW n \in Longs64, NEW rest \in Seq(Bytes)
      PROVE  ParseHostCallResult(m, UInt32Field(number, n) \o rest) =
                ParseHostCallResult(HostCallResultNext(m, number, n), rest)
  <2>1. CASE n = 0
    BY <2>1, NumberThenRest DEF HostCallResultNext
  <2>2. CASE n # 0
    <3>1. FirstIs(UInt32Field(number, n) \o rest, NumberRead(number, n), rest)
      BY <2>2, NumberThenRest DEF FirstIs
    <3>2. NumberRead(number, n) \in FieldType
      BY ReadType
    <3> QED BY <1>3, <2>2, <3>1, <3>2 DEF HostCallResultNext
  <2> QED BY <2>1, <2>2
<1> QED BY <1>2, <1>4

HostCallResultWith(ip, port, succ, err, overload) ==
    [ip |-> ip, port |-> port, succ |-> succ, err |-> err, overload |-> overload,
        unknown |-> <<>>]

(* What each field of a result does.                                       *)
LEMMA HostCallResultFields ==
    \A ip, port, succ, err : \A overload \in BOOLEAN, rest \in Seq(Bytes) :
        /\ \A n \in Words : ParseHostCallResult(HostCallResultWith(ip, port, succ, err,
             overload), UInt32Field(1, n) \o rest) =
                ParseHostCallResult(HostCallResultWith(Latest(ip, n), port, succ, err,
                    overload), rest)
        /\ \A n \in Words : ParseHostCallResult(HostCallResultWith(ip, port, succ, err,
             overload), UInt32Field(2, n) \o rest) =
                ParseHostCallResult(HostCallResultWith(ip, Latest(port, n), succ, err,
                    overload), rest)
        /\ \A n \in Words : ParseHostCallResult(HostCallResultWith(ip, port, succ, err,
             overload), UInt32Field(3, n) \o rest) =
                ParseHostCallResult(HostCallResultWith(ip, port, Latest(succ, n), err,
                    overload), rest)
        /\ \A n \in Words : ParseHostCallResult(HostCallResultWith(ip, port, succ, err,
             overload), UInt32Field(4, n) \o rest) =
                ParseHostCallResult(HostCallResultWith(ip, port, succ, Latest(err, n),
                    overload), rest)
        /\ \A n \in BOOLEAN : ParseHostCallResult(HostCallResultWith(ip, port, succ, err,
             overload), BoolField(5, n) \o rest) =
                ParseHostCallResult(HostCallResultWith(ip, port, succ, err,
                    LatestFlag(overload, n)), rest)
<1> TAKE ip, port, succ, err
<1> TAKE overload \in BOOLEAN, rest \in Seq(Bytes)
<1> DEFINE m == HostCallResultWith(ip, port, succ, err, overload)
<1>1. ASSUME NEW n \in Words
      PROVE  ParseHostCallResult(m, UInt32Field(1, n) \o rest) =
                ParseHostCallResult(HostCallResultWith(Latest(ip, n), port, succ, err,
                    overload), rest)
  <2>1. HostCallResultNext(m, 1, n) =
            HostCallResultWith(Latest(ip, n), port, succ, err, overload)
    BY WordsAreRead
       DEF HostCallResultNext, HostCallResultField, NumberRead, VarintTag, UInt32Of, Latest,
           HostCallResultWith
  <2>2. n \in Longs64 /\ 1 \in 1 .. 15
    BY WordsAreRead
  <2> HIDE DEF m
  <2>3. ParseHostCallResult(m, UInt32Field(1, n) \o rest)
            = ParseHostCallResult(HostCallResultNext(m, 1, n), rest)
    BY <2>2, HostCallResultTakes, Zenon
  <2> QED BY <2>1, <2>3
<1>2. ASSUME NEW n \in Words
      PROVE  ParseHostCallResult(m, UInt32Field(2, n) \o rest) =
                ParseHostCallResult(HostCallResultWith(ip, Latest(port, n), succ, err,
                    overload), rest)
  <2>1. HostCallResultNext(m, 2, n) =
            HostCallResultWith(ip, Latest(port, n), succ, err, overload)
    BY WordsAreRead
       DEF HostCallResultNext, HostCallResultField, NumberRead, VarintTag, UInt32Of, Latest,
           HostCallResultWith
  <2>2. n \in Longs64 /\ 2 \in 1 .. 15
    BY WordsAreRead
  <2> HIDE DEF m
  <2>3. ParseHostCallResult(m, UInt32Field(2, n) \o rest)
            = ParseHostCallResult(HostCallResultNext(m, 2, n), rest)
    BY <2>2, HostCallResultTakes, Zenon
  <2> QED BY <2>1, <2>3
<1>3. ASSUME NEW n \in Words
      PROVE  ParseHostCallResult(m, UInt32Field(3, n) \o rest) =
                ParseHostCallResult(HostCallResultWith(ip, port, Latest(succ, n), err,
                    overload), rest)
  <2>1. HostCallResultNext(m, 3, n) =
            HostCallResultWith(ip, port, Latest(succ, n), err, overload)
    BY WordsAreRead
       DEF HostCallResultNext, HostCallResultField, NumberRead, VarintTag, UInt32Of, Latest,
           HostCallResultWith
  <2>2. n \in Longs64 /\ 3 \in 1 .. 15
    BY WordsAreRead
  <2> HIDE DEF m
  <2>3. ParseHostCallResult(m, UInt32Field(3, n) \o rest)
            = ParseHostCallResult(HostCallResultNext(m, 3, n), rest)
    BY <2>2, HostCallResultTakes, Zenon
  <2> QED BY <2>1, <2>3
<1>4. ASSUME NEW n \in Words
      PROVE  ParseHostCallResult(m, UInt32Field(4, n) \o rest) =
                ParseHostCallResult(HostCallResultWith(ip, port, succ, Latest(err, n),
                    overload), rest)
  <2>1. HostCallResultNext(m, 4, n) =
            HostCallResultWith(ip, port, succ, Latest(err, n), overload)
    BY WordsAreRead
       DEF HostCallResultNext, HostCallResultField, NumberRead, VarintTag, UInt32Of, Latest,
           HostCallResultWith
  <2>2. n \in Longs64 /\ 4 \in 1 .. 15
    BY WordsAreRead
  <2> HIDE DEF m
  <2>3. ParseHostCallResult(m, UInt32Field(4, n) \o rest)
            = ParseHostCallResult(HostCallResultNext(m, 4, n), rest)
    BY <2>2, HostCallResultTakes, Zenon
  <2> QED BY <2>1, <2>3
<1>5. ASSUME NEW n \in BOOLEAN
      PROVE  ParseHostCallResult(m, BoolField(5, n) \o rest) =
                ParseHostCallResult(HostCallResultWith(ip, port, succ, err,
                    LatestFlag(overload, n)), rest)
  <2> DEFINE k == IF n THEN 1 ELSE 0
  <2>1. k \in Longs64 /\ 5 \in 1 .. 15 /\ (k = 0 <=> ~n)
    BY Powers DEF Longs64
  <2> HIDE DEF k
  <2>2. HostCallResultField(m, NumberRead(5, k)) = HostCallResultWith(ip, port, succ, err,
            k # 0)
    BY DEF HostCallResultField, NumberRead, VarintTag, BoolOf, HostCallResultWith
  <2>3. n => (k # 0) = LatestFlag(overload, n)
    BY <2>1 DEF LatestFlag
  <2>4. ~n => LatestFlag(overload, n) = overload
    BY DEF LatestFlag
  <2>5. HostCallResultNext(m, 5, k) =
            HostCallResultWith(ip, port, succ, err, LatestFlag(overload, n))
    BY <2>1, <2>2, <2>3, <2>4 DEF HostCallResultNext
  <2> HIDE DEF m
  <2>6. ParseHostCallResult(m, UInt32Field(5, k) \o rest)
            = ParseHostCallResult(HostCallResultNext(m, 5, k), rest)
    BY <2>1, HostCallResultTakes, Zenon
  <2>7. BoolField(5, n) = UInt32Field(5, k)
    BY DEF BoolField, k
  <2> QED BY <2>5, <2>6, <2>7
<1> QED BY <1>1, <1>2, <1>3, <1>4, <1>5

(* A result takes the bytes that are counted, and to read them is to merge.*)
LEMMA HostCallResultIsRead ==
    ASSUME NEW m \in HostCallResultType, NEW x \in HostCallResultType
    PROVE  /\ SerializeHostCallResult(x) \in Seq(Bytes)
           /\ Len(SerializeHostCallResult(x)) = ByteSizeHostCallResult(x)
           /\ ByteSizeHostCallResult(x) \in 0 .. (4 * (1 + Longest)) + 2
           /\ ParseHostCallResult(m, SerializeHostCallResult(x)) = MergeHostCallResult(m, x)
<1> DEFINE a == UInt32Field(1, x.ip)
           b == UInt32Field(2, x.port)
           c == UInt32Field(3, x.succ)
           d == UInt32Field(4, x.err)
           e == BoolField(5, x.overload)
<1>1. /\ x.ip \in Words
      /\ x.port \in Words
      /\ x.succ \in Words
      /\ x.err \in Words
      /\ x.overload \in BOOLEAN
      /\ x.unknown = <<>> /\ m.unknown = <<>>
      /\ m.overload \in BOOLEAN
      /\ m = HostCallResultWith(m.ip, m.port, m.succ, m.err, m.overload)
  BY DEF HostCallResultType, HostCallResultWith
<1>2. /\ a \in Seq(Bytes) /\ Len(a) = UInt32FieldSize(x.ip)
      /\ b \in Seq(Bytes) /\ Len(b) = UInt32FieldSize(x.port)
      /\ c \in Seq(Bytes) /\ Len(c) = UInt32FieldSize(x.succ)
      /\ d \in Seq(Bytes) /\ Len(d) = UInt32FieldSize(x.err)
      /\ e \in Seq(Bytes) /\ Len(e) = BoolFieldSize(x.overload)
      /\ UInt32FieldSize(x.ip) \in 0 .. 1 + Longest
      /\ UInt32FieldSize(x.port) \in 0 .. 1 + Longest
      /\ UInt32FieldSize(x.succ) \in 0 .. 1 + Longest
      /\ UInt32FieldSize(x.err) \in 0 .. 1 + Longest
      /\ BoolFieldSize(x.overload) \in 0 .. 2
  <2>1. a \in Seq(Bytes) /\ Len(a) = UInt32FieldSize(x.ip)
        /\ UInt32FieldSize(x.ip) \in 0 .. 1 + Longest
    <3>1. x.ip \in Words
      BY <1>1
    <3> QED BY <3>1, WordFields
  <2>2. b \in Seq(Bytes) /\ Len(b) = UInt32FieldSize(x.port)
        /\ UInt32FieldSize(x.port) \in 0 .. 1 + Longest
    <3>1. x.port \in Words
      BY <1>1
    <3> QED BY <3>1, WordFields
  <2>3. c \in Seq(Bytes) /\ Len(c) = UInt32FieldSize(x.succ)
        /\ UInt32FieldSize(x.succ) \in 0 .. 1 + Longest
    <3>1. x.succ \in Words
      BY <1>1
    <3> QED BY <3>1, WordFields
  <2>4. d \in Seq(Bytes) /\ Len(d) = UInt32FieldSize(x.err)
        /\ UInt32FieldSize(x.err) \in 0 .. 1 + Longest
    <3>1. x.err \in Words
      BY <1>1
    <3> QED BY <3>1, WordFields
  <2>5. e \in Seq(Bytes) /\ Len(e) = BoolFieldSize(x.overload)
        /\ BoolFieldSize(x.overload) \in 0 .. 2
    BY <1>1, BoolFieldType
  <2> QED BY <2>1, <2>2, <2>3, <2>4, <2>5
<1>3. SerializeHostCallResult(x) = a \o (b \o (c \o (d \o (e \o <<>>))))
  <2> HIDE DEF a, b, c, d, e
  <2>1. SerializeHostCallResult(x) = a \o b \o c \o d \o e \o <<>>
    BY <1>1 DEF SerializeHostCallResult, a, b, c, d, e
  <2>2. a \in Seq(Bytes) /\ b \in Seq(Bytes) /\ c \in Seq(Bytes)
        /\ d \in Seq(Bytes) /\ e \in Seq(Bytes)
    BY <1>2
  <2>3. Flat5(a, b, c, d, e) = Nested5(a, b, c, d, e)
    BY <2>2, Chain5
  <2> QED BY <2>1, <2>3 DEF Flat5, Nested5
<1>4. Len(a \o (b \o (c \o (d \o (e \o <<>>))))) = Len(a) + Len(b) + Len(c) + Len(d) + Len(e)
      /\ a \o (b \o (c \o (d \o (e \o <<>>)))) \in Seq(Bytes)
      /\ b \o (c \o (d \o (e \o <<>>))) \in Seq(Bytes)
      /\ c \o (d \o (e \o <<>>)) \in Seq(Bytes)
      /\ d \o (e \o <<>>) \in Seq(Bytes)
      /\ e \o <<>> \in Seq(Bytes)
  <2> HIDE DEF a, b, c, d, e
  <2>1. a \in Seq(Bytes) /\ b \in Seq(Bytes) /\ c \in Seq(Bytes)
        /\ d \in Seq(Bytes) /\ e \in Seq(Bytes)
    BY <1>2
  <2>2. Len(Nested5(a, b, c, d, e)) = Len(a) + Len(b) + Len(c) + Len(d) + Len(e)
        /\ Nested5(a, b, c, d, e) \in Seq(Bytes)
    BY <2>1, Chain5
  <2>3. e \o <<>> \in Seq(Bytes)
    BY <2>1
  <2>4. d \o (e \o <<>>) \in Seq(Bytes)
    BY <2>1, <2>3
  <2>5. c \o (d \o (e \o <<>>)) \in Seq(Bytes)
    BY <2>1, <2>4
  <2>6. b \o (c \o (d \o (e \o <<>>))) \in Seq(Bytes)
    BY <2>1, <2>5
  <2> QED BY <2>2, <2>3, <2>4, <2>5, <2>6 DEF Nested5
<1>5. ParseHostCallResult(HostCallResultWith(m.ip, m.port, m.succ, m.err, m.overload), a
          \o (b \o (c \o (d \o (e \o <<>>))))) =
        ParseHostCallResult(HostCallResultWith(Latest(m.ip, x.ip), m.port, m.succ, m.err,
            m.overload), b \o (c \o (d \o (e \o <<>>))))
  <2>1. b \o (c \o (d \o (e \o <<>>))) \in Seq(Bytes)
    BY <1>4, NoBytes
  <2>2. \A rest \in Seq(Bytes) : ParseHostCallResult(HostCallResultWith(m.ip, m.port, m.succ,
            m.err, m.overload), a \o rest) =
            ParseHostCallResult(HostCallResultWith(Latest(m.ip, x.ip), m.port, m.succ, m.err,
                m.overload), rest)
    BY <1>1, HostCallResultFields
  <2> HIDE DEF a, b, c, d, e
  <2> QED BY <2>1, <2>2, Zenon
<1>6. ParseHostCallResult(HostCallResultWith(Latest(m.ip, x.ip), m.port, m.succ, m.err,
          m.overload), b \o (c \o (d \o (e \o <<>>)))) =
        ParseHostCallResult(HostCallResultWith(Latest(m.ip, x.ip), Latest(m.port, x.port),
            m.succ, m.err, m.overload), c \o (d \o (e \o <<>>)))
  <2>1. c \o (d \o (e \o <<>>)) \in Seq(Bytes)
    BY <1>4, NoBytes
  <2>2. \A rest \in Seq(Bytes) : ParseHostCallResult(HostCallResultWith(Latest(m.ip, x.ip),
            m.port, m.succ, m.err, m.overload), b \o rest) =
            ParseHostCallResult(HostCallResultWith(Latest(m.ip, x.ip), Latest(m.port, x.port),
                m.succ, m.err, m.overload), rest)
    BY <1>1, HostCallResultFields
  <2> HIDE DEF a, b, c, d, e
  <2> QED BY <2>1, <2>2, Zenon
<1>7. ParseHostCallResult(HostCallResultWith(Latest(m.ip, x.ip), Latest(m.port, x.port),
          m.succ, m.err, m.overload), c \o (d \o (e \o <<>>))) =
        ParseHostCallResult(HostCallResultWith(Latest(m.ip, x.ip), Latest(m.port, x.port),
            Latest(m.succ, x.succ), m.err, m.overload), d \o (e \o <<>>))
  <2>1. d \o (e \o <<>>) \in Seq(Bytes)
    BY <1>4, NoBytes
  <2>2. \A rest \in Seq(Bytes) : ParseHostCallResult(HostCallResultWith(Latest(m.ip, x.ip),
            Latest(m.port, x.port), m.succ, m.err, m.overload), c \o rest) =
            ParseHostCallResult(HostCallResultWith(Latest(m.ip, x.ip), Latest(m.port, x.port),
                Latest(m.succ, x.succ), m.err, m.overload), rest)
    BY <1>1, HostCallResultFields
  <2> HIDE DEF a, b, c, d, e
  <2> QED BY <2>1, <2>2, Zenon
<1>8. ParseHostCallResult(HostCallResultWith(Latest(m.ip, x.ip), Latest(m.port, x.port),
          Latest(m.succ, x.succ), m.err, m.overload), d \o (e \o <<>>)) =
        ParseHostCallResult(HostCallResultWith(Latest(m.ip, x.ip), Latest(m.port, x.port),
            Latest(m.succ, x.succ), Latest(m.err, x.err), m.overload), e \o <<>>)
  <2>1. e \o <<>> \in Seq(Bytes)
    BY <1>4, NoBytes
  <2>2. \A rest \in Seq(Bytes) : ParseHostCallResult(HostCallResultWith(Latest(m.ip, x.ip),
            Latest(m.port, x.port), Latest(m.succ, x.succ), m.err, m.overload), d \o rest) =
            ParseHostCallResult(HostCallResultWith(Latest(m.ip, x.ip), Latest(m.port, x.port),
                Latest(m.succ, x.succ), Latest(m.err, x.err), m.overload), rest)
    BY <1>1, HostCallResultFields
  <2> HIDE DEF a, b, c, d, e
  <2> QED BY <2>1, <2>2, Zenon
<1>9. ParseHostCallResult(HostCallResultWith(Latest(m.ip, x.ip), Latest(m.port, x.port),
          Latest(m.succ, x.succ), Latest(m.err, x.err), m.overload), e \o <<>>) =
        ParseHostCallResult(HostCallResultWith(Latest(m.ip, x.ip), Latest(m.port, x.port),
            Latest(m.succ, x.succ), Latest(m.err, x.err), LatestFlag(m.overload, x.overload)),
            <<>>)
  <2>1. <<>> \in Seq(Bytes)
    BY <1>4, NoBytes
  <2>2. \A rest \in Seq(Bytes) : ParseHostCallResult(HostCallResultWith(Latest(m.ip, x.ip),
            Latest(m.port, x.port), Latest(m.succ, x.succ), Latest(m.err, x.err), m.overload),
            e \o rest) =
            ParseHostCallResult(HostCallResultWith(Latest(m.ip, x.ip), Latest(m.port, x.port),
                Latest(m.succ, x.succ), Latest(m.err, x.err),
                LatestFlag(m.overload, x.overload)), rest)
    BY <1>1, HostCallResultFields
  <2> HIDE DEF a, b, c, d, e
  <2> QED BY <2>1, <2>2, Zenon
<1>10. ParseHostCallResult(m, SerializeHostCallResult(x))
           = HostCallResultWith(Latest(m.ip, x.ip), Latest(m.port, x.port),
           Latest(m.succ, x.succ), Latest(m.err, x.err), LatestFlag(m.overload, x.overload))
  <2> HIDE DEF a, b, c, d, e
  <2> QED BY <1>1, <1>3, <1>5, <1>6, <1>7, <1>8, <1>9, HostCallResultTakes
<1>11. MergeHostCallResult(m, x) = HostCallResultWith(Latest(m.ip, x.ip),
           Latest(m.port, x.port), Latest(m.succ, x.succ), Latest(m.err, x.err),
           LatestFlag(m.overload, x.overload))
  BY <1>1, Nothing DEF MergeHostCallResult, HostCallResultWith
<1>12. ByteSizeHostCallResult(x)
           = UInt32FieldSize(x.ip) + UInt32FieldSize(x.port) + UInt32FieldSize(x.succ) +
           UInt32FieldSize(x.err) + BoolFieldSize(x.overload)
  <2>1. UInt32FieldSize(x.ip) \in Nat /\ UInt32FieldSize(x.port) \in Nat
            /\ UInt32FieldSize(x.succ) \in Nat /\ UInt32FieldSize(x.err) \in Nat
            /\ BoolFieldSize(x.overload) \in Nat
    BY <1>2
  <2>2. Len(x.unknown) = 0
    BY <1>1
  <2> QED BY <2>1, <2>2 DEF ByteSizeHostCallResult
<1>13. Len(SerializeHostCallResult(x)) = ByteSizeHostCallResult(x)
           /\ SerializeHostCallResult(x) \in Seq(Bytes)
  <2> HIDE DEF a, b, c, d, e
  <2> QED BY <1>2, <1>3, <1>4, <1>12
<1>14. ByteSizeHostCallResult(x) \in 0 .. (4 * (1 + Longest)) + 2
  <2>1. \A l \in Nat : \A p, q, r, s \in 0 .. 1 + l, t \in 0 .. 2 :
            p + q + r + s + t \in 0 .. (4 * (1 + l)) + 2
    OBVIOUS
  <2> HIDE DEF a, b, c, d, e
  <2>2. Longest \in Nat
    BY LongestType
  <2> QED BY <1>2, <1>12, <2>1, <2>2
<1> QED BY <1>10, <1>11, <1>13, <1>14

(* A result is short enough to be an inner message; copied, or read into   *)
(* an empty one, it is what it was.                                        *)
LEMMA HostCallResultFits ==
    /\ ClearHostCallResult \in HostCallResultType
    /\ \A x \in HostCallResultType :
        /\ SerializeHostCallResult(x) \in Seq(Bytes)
        /\ Len(SerializeHostCallResult(x)) = ByteSizeHostCallResult(x)
        /\ ByteSizeHostCallResult(x) \in Nat
        /\ Len(SerializeHostCallResult(x)) < LongRange
        /\ MergeHostCallResult(ClearHostCallResult, x) = x
        /\ ParseHostCallResult(ClearHostCallResult, SerializeHostCallResult(x)) = x
<1>1. ClearHostCallResult \in HostCallResultType
  <2>1. 0 \in Words
    BY Powers DEF Words
  <2> QED BY <2>1 DEF ClearHostCallResult, HostCallResultType
<1>2. ASSUME NEW x \in HostCallResultType
      PROVE  MergeHostCallResult(ClearHostCallResult, x) = x
  BY DEF MergeHostCallResult, ClearHostCallResult, HostCallResultType, Latest, LatestFlag
<1>3. ASSUME NEW x \in HostCallResultType
      PROVE  ByteSizeHostCallResult(x) \in Nat /\ ByteSizeHostCallResult(x) < LongRange
  <2>1. ByteSizeHostCallResult(x) \in 0 .. (4 * (1 + Longest)) + 2
    BY <1>1, HostCallResultIsRead, LongestType
  <2> QED BY <2>1, LongestIsShort, LongestType, Powers
<1> QED BY <1>1, <1>2, <1>3, HostCallResultIsRead

GetRouteRequestFold == INSTANCE Folding WITH Op <- GetRouteRequestField

GetRouteRequestNext(m, number, n) ==
    IF n = 0 THEN m ELSE GetRouteRequestField(m, NumberRead(number, n))

(* Reading a route request takes field after field.                        *)
LEMMA GetRouteRequestTakes ==
    /\ \A m : ParseGetRouteRequest(m, <<>>) = m
    /\ \A m : \A number \in 1 .. 15, n \in Longs64, rest \in Seq(Bytes) :
            ParseGetRouteRequest(m, UInt32Field(number, n) \o rest) =
                ParseGetRouteRequest(GetRouteRequestNext(m, number, n), rest)
<1>1. \A m, bytes : ParseGetRouteRequest(m, bytes) = GetRouteRequestFold!FromLeft(m,
          Fields[bytes])
  BY DEF ParseGetRouteRequest, GetRouteRequestFold!FromLeft, FoldLeft, MapThenFoldSet, Max,
         GetRouteRequestFold!Largest
<1>2. \A m : ParseGetRouteRequest(m, <<>>) = m
  BY <1>1, NoFields, GetRouteRequestFold!LeftEmpty
<1>3. ASSUME NEW m, NEW f \in FieldType, NEW bytes, NEW rest \in Seq(Bytes),
             FirstIs(bytes, f, rest)
      PROVE  ParseGetRouteRequest(m, bytes) = ParseGetRouteRequest(GetRouteRequestField(m, f),
                 rest)
  <2>1. Fields[rest] \in Seq(FieldType)
    BY FieldsType
  <2>2. GetRouteRequestFold!FromLeft(m, <<f>> \o Fields[rest]) =
            GetRouteRequestFold!FromLeft(GetRouteRequestField(m, f), Fields[rest])
    BY <2>1, GetRouteRequestFold!LeftCons
  <2> QED BY <1>1, <1>3, <2>2 DEF FirstIs
<1>4. ASSUME NEW m, NEW number \in 1 .. 15, NEW n \in Longs64, NEW rest \in Seq(Bytes)
      PROVE  ParseGetRouteRequest(m, UInt32Field(number, n) \o rest) =
                ParseGetRouteRequest(GetRouteRequestNext(m, number, n), rest)
  <2>1. CASE n = 0
    BY <2>1, NumberThenRest DEF GetRouteRequestNext
  <2>2. CASE n # 0
    <3>1. FirstIs(UInt32Field(number, n) \o rest, NumberRead(number, n), rest)
      BY <2>2, NumberThenRest DEF FirstIs
    <3>2. NumberRead(number, n) \in FieldType
      BY ReadType
    <3> QED BY <1>3, <2>2, <3>1, <3>2 DEF GetRouteRequestNext
  <2> QED BY <2>1, <2>2
<1> QED BY <1>2, <1>4

GetRouteRequestWith(modid, cmdid) ==
    [modid |-> modid, cmdid |-> cmdid, unknown |-> <<>>]

(* What each field of a route request does.                                *)
LEMMA GetRouteRequestFields ==
    \A modid, cmdid : \A rest \in Seq(Bytes) :
        /\ \A n \in Words : ParseGetRouteRequest(GetRouteRequestWith(modid, cmdid),
             UInt32Field(1, n) \o rest) =
                ParseGetRouteRequest(GetRouteRequestWith(Latest(modid, n), cmdid), rest)
        /\ \A n \in Words : ParseGetRouteRequest(GetRouteRequestWith(modid, cmdid),
             UInt32Field(2, n) \o rest) =
                ParseGetRouteRequest(GetRouteRequestWith(modid, Latest(cmdid, n)), rest)
<1> TAKE modid, cmdid
<1> TAKE rest \in Seq(Bytes)
<1> DEFINE m == GetRouteRequestWith(modid, cmdid)
<1>1. ASSUME NEW n \in Words
      PROVE  ParseGetRouteRequest(m, UInt32Field(1, n) \o rest) =
                ParseGetRouteRequest(GetRouteRequestWith(Latest(modid, n), cmdid), rest)
  <2>1. GetRouteRequestNext(m, 1, n) =
            GetRouteRequestWith(Latest(modid, n), cmdid)
    BY WordsAreRead
       DEF GetRouteRequestNext, GetRouteRequestField, NumberRead, VarintTag, UInt32Of, Latest,
           GetRouteRequestWith
  <2>2. n \in Longs64 /\ 1 \in 1 .. 15
    BY WordsAreRead
  <2> HIDE DEF m
  <2>3. ParseGetRouteRequest(m, UInt32Field(1, n) \o rest)
            = ParseGetRouteRequest(GetRouteRequestNext(m, 1, n), rest)
    BY <2>2, GetRouteRequestTakes, Zenon
  <2> QED BY <2>1, <2>3
<1>2. ASSUME NEW n \in Words
      PROVE  ParseGetRouteRequest(m, UInt32Field(2, n) \o rest) =
                ParseGetRouteRequest(GetRouteRequestWith(modid, Latest(cmdid, n)), rest)
  <2>1. GetRouteRequestNext(m, 2, n) =
            GetRouteRequestWith(modid, Latest(cmdid, n))
    BY WordsAreRead
       DEF GetRouteRequestNext, GetRouteRequestField, NumberRead, VarintTag, UInt32Of, Latest,
           GetRouteRequestWith
  <2>2. n \in Longs64 /\ 2 \in 1 .. 15
    BY WordsAreRead
  <2> HIDE DEF m
  <2>3. ParseGetRouteRequest(m, UInt32Field(2, n) \o rest)
            = ParseGetRouteRequest(GetRouteRequestNext(m, 2, n), rest)
    BY <2>2, GetRouteRequestTakes, Zenon
  <2> QED BY <2>1, <2>3
<1> QED BY <1>1, <1>2

(* A route request takes the bytes that are counted, and to read them is to merge.*)
LEMMA GetRouteRequestIsRead ==
    ASSUME NEW m \in GetRouteRequestType, NEW x \in GetRouteRequestType
    PROVE  /\ SerializeGetRouteRequest(x) \in Seq(Bytes)
           /\ Len(SerializeGetRouteRequest(x)) = ByteSizeGetRouteRequest(x)
           /\ ParseGetRouteRequest(m, SerializeGetRouteRequest(x)) = MergeGetRouteRequest(m, x)
<1> DEFINE a == UInt32Field(1, x.modid)
           b == UInt32Field(2, x.cmdid)
<1>1. /\ x.modid \in Words
      /\ x.cmdid \in Words
      /\ x.unknown = <<>> /\ m.unknown = <<>>
      /\ m = GetRouteRequestWith(m.modid, m.cmdid)
  BY DEF GetRouteRequestType, GetRouteRequestWith
<1>2. /\ a \in Seq(Bytes) /\ Len(a) = UInt32FieldSize(x.modid)
      /\ b \in Seq(Bytes) /\ Len(b) = UInt32FieldSize(x.cmdid)
      /\ UInt32FieldSize(x.modid) \in Nat
      /\ UInt32FieldSize(x.cmdid) \in Nat
  <2>1. a \in Seq(Bytes) /\ Len(a) = UInt32FieldSize(x.modid)
        /\ UInt32FieldSize(x.modid) \in Nat
    <3>1. x.modid \in Words
      BY <1>1
    <3> QED BY <3>1, WordFields
  <2>2. b \in Seq(Bytes) /\ Len(b) = UInt32FieldSize(x.cmdid)
        /\ UInt32FieldSize(x.cmdid) \in Nat
    <3>1. x.cmdid \in Words
      BY <1>1
    <3> QED BY <3>1, WordFields
  <2> QED BY <2>1, <2>2
<1>3. SerializeGetRouteRequest(x) = a \o (b \o <<>>)
  <2> HIDE DEF a, b
  <2>1. SerializeGetRouteRequest(x) = a \o b \o <<>>
    BY <1>1 DEF SerializeGetRouteRequest, a, b
  <2>2. Chained2(a, b)
    BY <1>2, Chain2
  <2> QED BY <2>1, <2>2 DEF Chained2
<1>4. Len(a \o (b \o <<>>)) = Len(a) + Len(b)
      /\ a \o (b \o <<>>) \in Seq(Bytes)
      /\ b \o <<>> \in Seq(Bytes)
  <2> HIDE DEF a, b
  <2>1. a \in Seq(Bytes) /\ b \in Seq(Bytes)
    BY <1>2
  <2>2. Chained2(a, b)
    BY <2>1, Chain2
  <2> QED BY <2>2 DEF Chained2
<1>5. ParseGetRouteRequest(GetRouteRequestWith(m.modid, m.cmdid), a \o (b \o <<>>)) =
        ParseGetRouteRequest(GetRouteRequestWith(Latest(m.modid, x.modid), m.cmdid), b \o <<>>)
  <2>1. b \o <<>> \in Seq(Bytes)
    BY <1>4, NoBytes
  <2>2. \A rest \in Seq(Bytes) : ParseGetRouteRequest(GetRouteRequestWith(m.modid, m.cmdid), a
            \o rest) =
            ParseGetRouteRequest(GetRouteRequestWith(Latest(m.modid, x.modid), m.cmdid), rest)
    BY <1>1, GetRouteRequestFields
  <2> HIDE DEF a, b
  <2> QED BY <2>1, <2>2, Zenon
<1>6. ParseGetRouteRequest(GetRouteRequestWith(Latest(m.modid, x.modid), m.cmdid), b \o <<>>) =
        ParseGetRouteRequest(GetRouteRequestWith(Latest(m.modid, x.modid),
            Latest(m.cmdid, x.cmdid)), <<>>)
  <2>1. <<>> \in Seq(Bytes)
    BY <1>4, NoBytes
  <2>2. \A rest \in Seq(Bytes) :
            ParseGetRouteRequest(GetRouteRequestWith(Latest(m.modid, x.modid), m.cmdid), b
            \o rest) =
            ParseGetRouteRequest(GetRouteRequestWith(Latest(m.modid, x.modid),
                Latest(m.cmdid, x.cmdid)), rest)
    BY <1>1, GetRouteRequestFields
  <2> HIDE DEF a, b
  <2> QED BY <2>1, <2>2, Zenon
<1>7. ParseGetRouteRequest(m, SerializeGetRouteRequest(x))
          = GetRouteRequestWith(Latest(m.modid, x.modid), Latest(m.cmdid, x.cmdid))
  <2> HIDE DEF a, b
  <2> QED BY <1>1, <1>3, <1>5, <1>6, GetRouteRequestTakes
<1>8. MergeGetRouteRequest(m, x) = GetRouteRequestWith(Latest(m.modid, x.modid),
          Latest(m.cmdid, x.cmdid))
  BY <1>1, Nothing DEF MergeGetRouteRequest, GetRouteRequestWith
<1>9. ByteSizeGetRouteRequest(x) = UInt32FieldSize(x.modid) + UInt32FieldSize(x.cmdid)
  <2>1. UInt32FieldSize(x.modid) \in Nat /\ UInt32FieldSize(x.cmdid) \in Nat
    BY <1>2
  <2>2. Len(x.unknown) = 0
    BY <1>1
  <2> QED BY <2>1, <2>2 DEF ByteSizeGetRouteRequest
<1>10. Len(SerializeGetRouteRequest(x)) = ByteSizeGetRouteRequest(x)
           /\ SerializeGetRouteRequest(x) \in Seq(Bytes)
  <2> HIDE DEF a, b
  <2> QED BY <1>2, <1>3, <1>4, <1>9
<1> QED BY <1>7, <1>8, <1>10

GetHostRequestFold == INSTANCE Folding WITH Op <- GetHostRequestField

GetHostRequestNext(m, number, n) ==
    IF n = 0 THEN m ELSE GetHostRequestField(m, NumberRead(number, n))

(* Reading a host request takes field after field.                         *)
LEMMA GetHostRequestTakes ==
    /\ \A m : ParseGetHostRequest(m, <<>>) = m
    /\ \A m : \A number \in 1 .. 15, n \in Longs64, rest \in Seq(Bytes) :
            ParseGetHostRequest(m, UInt32Field(number, n) \o rest) =
                ParseGetHostRequest(GetHostRequestNext(m, number, n), rest)
<1>1. \A m, bytes : ParseGetHostRequest(m, bytes) = GetHostRequestFold!FromLeft(m,
          Fields[bytes])
  BY DEF ParseGetHostRequest, GetHostRequestFold!FromLeft, FoldLeft, MapThenFoldSet, Max,
         GetHostRequestFold!Largest
<1>2. \A m : ParseGetHostRequest(m, <<>>) = m
  BY <1>1, NoFields, GetHostRequestFold!LeftEmpty
<1>3. ASSUME NEW m, NEW f \in FieldType, NEW bytes, NEW rest \in Seq(Bytes),
             FirstIs(bytes, f, rest)
      PROVE  ParseGetHostRequest(m, bytes) = ParseGetHostRequest(GetHostRequestField(m, f),
                 rest)
  <2>1. Fields[rest] \in Seq(FieldType)
    BY FieldsType
  <2>2. GetHostRequestFold!FromLeft(m, <<f>> \o Fields[rest]) =
            GetHostRequestFold!FromLeft(GetHostRequestField(m, f), Fields[rest])
    BY <2>1, GetHostRequestFold!LeftCons
  <2> QED BY <1>1, <1>3, <2>2 DEF FirstIs
<1>4. ASSUME NEW m, NEW number \in 1 .. 15, NEW n \in Longs64, NEW rest \in Seq(Bytes)
      PROVE  ParseGetHostRequest(m, UInt32Field(number, n) \o rest) =
                ParseGetHostRequest(GetHostRequestNext(m, number, n), rest)
  <2>1. CASE n = 0
    BY <2>1, NumberThenRest DEF GetHostRequestNext
  <2>2. CASE n # 0
    <3>1. FirstIs(UInt32Field(number, n) \o rest, NumberRead(number, n), rest)
      BY <2>2, NumberThenRest DEF FirstIs
    <3>2. NumberRead(number, n) \in FieldType
      BY ReadType
    <3> QED BY <1>3, <2>2, <3>1, <3>2 DEF GetHostRequestNext
  <2> QED BY <2>1, <2>2
<1> QED BY <1>2, <1>4

GetHostRequestWith(seq, modid, cmdid) ==
    [seq |-> seq, modid |-> modid, cmdid |-> cmdid, unknown |-> <<>>]

(* What each field of a host request does.                                 *)
LEMMA GetHostRequestFields ==
    \A seq, modid, cmdid : \A rest \in Seq(Bytes) :
        /\ \A n \in Words : ParseGetHostRequest(GetHostRequestWith(seq, modid, cmdid),
             UInt32Field(1, n) \o rest) =
                ParseGetHostRequest(GetHostRequestWith(Latest(seq, n), modid, cmdid), rest)
        /\ \A n \in Words : ParseGetHostRequest(GetHostRequestWith(seq, modid, cmdid),
             UInt32Field(2, n) \o rest) =
                ParseGetHostRequest(GetHostRequestWith(seq, Latest(modid, n), cmdid), rest)
        /\ \A n \in Words : ParseGetHostRequest(GetHostRequestWith(seq, modid, cmdid),
             UInt32Field(3, n) \o rest) =
                ParseGetHostRequest(GetHostRequestWith(seq, modid, Latest(cmdid, n)), rest)
<1> TAKE seq, modid, cmdid
<1> TAKE rest \in Seq(Bytes)
<1> DEFINE m == GetHostRequestWith(seq, modid, cmdid)
<1>1. ASSUME NEW n \in Words
      PROVE  ParseGetHostRequest(m, UInt32Field(1, n) \o rest) =
                ParseGetHostRequest(GetHostRequestWith(Latest(seq, n), modid, cmdid), rest)
  <2>1. GetHostRequestNext(m, 1, n) =
            GetHostRequestWith(Latest(seq, n), modid, cmdid)
    BY WordsAreRead
       DEF GetHostRequestNext, GetHostRequestField, NumberRead, VarintTag, UInt32Of, Latest,
           GetHostRequestWith
  <2>2. n \in Longs64 /\ 1 \in 1 .. 15
    BY WordsAreRead
  <2> HIDE DEF m
  <2>3. ParseGetHostRequest(m, UInt32Field(1, n) \o rest)
            = ParseGetHostRequest(GetHostRequestNext(m, 1, n), rest)
    BY <2>2, GetHostRequestTakes, Zenon
  <2> QED BY <2>1, <2>3
<1>2. ASSUME NEW n \in Words
      PROVE  ParseGetHostRequest(m, UInt32Field(2, n) \o rest) =
                ParseGetHostRequest(GetHostRequestWith(seq, Latest(modid, n), cmdid), rest)
  <2>1. GetHostRequestNext(m, 2, n) =
            GetHostRequestWith(seq, Latest(modid, n), cmdid)
    BY WordsAreRead
       DEF GetHostRequestNext, GetHostRequestField, NumberRead, VarintTag, UInt32Of, Latest,
           GetHostRequestWith
  <2>2. n \in Longs64 /\ 2 \in 1 .. 15
    BY WordsAreRead
  <2> HIDE DEF m
  <2>3. ParseGetHostRequest(m, UInt32Field(2, n) \o rest)
            = ParseGetHostRequest(GetHostRequestNext(m, 2, n), rest)
    BY <2>2, GetHostRequestTakes, Zenon
  <2> QED BY <2>1, <2>3
<1>3. ASSUME NEW n \in Words
      PROVE  ParseGetHostRequest(m, UInt32Field(3, n) \o rest) =
                ParseGetHostRequest(GetHostRequestWith(seq, modid, Latest(cmdid, n)), rest)
  <2>1. GetHostRequestNext(m, 3, n) =
            GetHostRequestWith(seq, modid, Latest(cmdid, n))
    BY WordsAreRead
       DEF GetHostRequestNext, GetHostRequestField, NumberRead, VarintTag, UInt32Of, Latest,
           GetHostRequestWith
  <2>2. n \in Longs64 /\ 3 \in 1 .. 15
    BY WordsAreRead
  <2> HIDE DEF m
  <2>3. ParseGetHostRequest(m, UInt32Field(3, n) \o rest)
            = ParseGetHostRequest(GetHostRequestNext(m, 3, n), rest)
    BY <2>2, GetHostRequestTakes, Zenon
  <2> QED BY <2>1, <2>3
<1> QED BY <1>1, <1>2, <1>3

(* A host request takes the bytes that are counted, and to read them is to merge.*)
LEMMA GetHostRequestIsRead ==
    ASSUME NEW m \in GetHostRequestType, NEW x \in GetHostRequestType
    PROVE  /\ SerializeGetHostRequest(x) \in Seq(Bytes)
           /\ Len(SerializeGetHostRequest(x)) = ByteSizeGetHostRequest(x)
           /\ ParseGetHostRequest(m, SerializeGetHostRequest(x)) = MergeGetHostRequest(m, x)
<1> DEFINE a == UInt32Field(1, x.seq)
           b == UInt32Field(2, x.modid)
           c == UInt32Field(3, x.cmdid)
<1>1. /\ x.seq \in Words
      /\ x.modid \in Words
      /\ x.cmdid \in Words
      /\ x.unknown = <<>> /\ m.unknown = <<>>
      /\ m = GetHostRequestWith(m.seq, m.modid, m.cmdid)
  BY DEF GetHostRequestType, GetHostRequestWith
<1>2. /\ a \in Seq(Bytes) /\ Len(a) = UInt32FieldSize(x.seq)
      /\ b \in Seq(Bytes) /\ Len(b) = UInt32FieldSize(x.modid)
      /\ c \in Seq(Bytes) /\ Len(c) = UInt32FieldSize(x.cmdid)
      /\ UInt32FieldSize(x.seq) \in Nat
      /\ UInt32FieldSize(x.modid) \in Nat
      /\ UInt32FieldSize(x.cmdid) \in Nat
  <2>1. a \in Seq(Bytes) /\ Len(a) = UInt32FieldSize(x.seq)
        /\ UInt32FieldSize(x.seq) \in Nat
    <3>1. x.seq \in Words
      BY <1>1
    <3> QED BY <3>1, WordFields
  <2>2. b \in Seq(Bytes) /\ Len(b) = UInt32FieldSize(x.modid)
        /\ UInt32FieldSize(x.modid) \in Nat
    <3>1. x.modid \in Words
      BY <1>1
    <3> QED BY <3>1, WordFields
  <2>3. c \in Seq(Bytes) /\ Len(c) = UInt32FieldSize(x.cmdid)
        /\ UInt32FieldSize(x.cmdid) \in Nat
    <3>1. x.cmdid \in Words
      BY <1>1
    <3> QED BY <3>1, WordFields
  <2> QED BY <2>1, <2>2, <2>3
<1>3. SerializeGetHostRequest(x) = a \o (b \o (c \o <<>>))
  <2> HIDE DEF a, b, c
  <2>1. SerializeGetHostRequest(x) = a \o b \o c \o <<>>
    BY <1>1 DEF SerializeGetHostRequest, a, b, c
  <2>2. Chained3(a, b, c)
    BY <1>2, Chain3
  <2> QED BY <2>1, <2>2 DEF Chained3
<1>4. Len(a \o (b \o (c \o <<>>))) = Len(a) + Len(b) + Len(c)
      /\ a \o (b \o (c \o <<>>)) \in Seq(Bytes)
      /\ b \o (c \o <<>>) \in Seq(Bytes)
      /\ c \o <<>> \in Seq(Bytes)
  <2> HIDE DEF a, b, c
  <2>1. a \in Seq(Bytes) /\ b \in Seq(Bytes) /\ c \in Seq(Bytes)
    BY <1>2
  <2>2. Chained3(a, b, c)
    BY <2>1, Chain3
  <2> QED BY <2>2 DEF Chained3
<1>5. ParseGetHostRequest(GetHostRequestWith(m.seq, m.modid, m.cmdid), a
          \o (b \o (c \o <<>>))) =
        ParseGetHostRequest(GetHostRequestWith(Latest(m.seq, x.seq), m.modid, m.cmdid), b
            \o (c \o <<>>))
  <2>1. b \o (c \o <<>>) \in Seq(Bytes)
    BY <1>4, NoBytes
  <2>2. \A rest \in Seq(Bytes) : ParseGetHostRequest(GetHostRequestWith(m.seq, m.modid,
            m.cmdid), a \o rest) =
            ParseGetHostRequest(GetHostRequestWith(Latest(m.seq, x.seq), m.modid, m.cmdid),
                rest)
    BY <1>1, GetHostRequestFields
  <2> HIDE DEF a, b, c
  <2> QED BY <2>1, <2>2, Zenon
<1>6. ParseGetHostRequest(GetHostRequestWith(Latest(m.seq, x.seq), m.modid, m.cmdid), b
          \o (c \o <<>>)) =
        ParseGetHostRequest(GetHostRequestWith(Latest(m.seq, x.seq), Latest(m.modid, x.modid),
            m.cmdid), c \o <<>>)
  <2>1. c \o <<>> \in Seq(Bytes)
    BY <1>4, NoBytes
  <2>2. \A rest \in Seq(Bytes) : ParseGetHostRequest(GetHostRequestWith(Latest(m.seq, x.seq),
            m.modid, m.cmdid), b \o rest) =
            ParseGetHostRequest(GetHostRequestWith(Latest(m.seq, x.seq),
                Latest(m.modid, x.modid), m.cmdid), rest)
    BY <1>1, GetHostRequestFields
  <2> HIDE DEF a, b, c
  <2> QED BY <2>1, <2>2, Zenon
<1>7. ParseGetHostRequest(GetHostRequestWith(Latest(m.seq, x.seq), Latest(m.modid, x.modid),
          m.cmdid), c \o <<>>) =
        ParseGetHostRequest(GetHostRequestWith(Latest(m.seq, x.seq), Latest(m.modid, x.modid),
            Latest(m.cmdid, x.cmdid)), <<>>)
  <2>1. <<>> \in Seq(Bytes)
    BY <1>4, NoBytes
  <2>2. \A rest \in Seq(Bytes) : ParseGetHostRequest(GetHostRequestWith(Latest(m.seq, x.seq),
            Latest(m.modid, x.modid), m.cmdid), c \o rest) =
            ParseGetHostRequest(GetHostRequestWith(Latest(m.seq, x.seq),
                Latest(m.modid, x.modid), Latest(m.cmdid, x.cmdid)), rest)
    BY <1>1, GetHostRequestFields
  <2> HIDE DEF a, b, c
  <2> QED BY <2>1, <2>2, Zenon
<1>8. ParseGetHostRequest(m, SerializeGetHostRequest(x))
          = GetHostRequestWith(Latest(m.seq, x.seq), Latest(m.modid, x.modid),
          Latest(m.cmdid, x.cmdid))
  <2> HIDE DEF a, b, c
  <2> QED BY <1>1, <1>3, <1>5, <1>6, <1>7, GetHostRequestTakes
<1>9. MergeGetHostRequest(m, x) = GetHostRequestWith(Latest(m.seq, x.seq),
          Latest(m.modid, x.modid), Latest(m.cmdid, x.cmdid))
  BY <1>1, Nothing DEF MergeGetHostRequest, GetHostRequestWith
<1>10. ByteSizeGetHostRequest(x)
           = UInt32FieldSize(x.seq) + UInt32FieldSize(x.modid) + UInt32FieldSize(x.cmdid)
  <2>1. UInt32FieldSize(x.seq) \in Nat /\ UInt32FieldSize(x.modid) \in Nat
            /\ UInt32FieldSize(x.cmdid) \in Nat
    BY <1>2
  <2>2. Len(x.unknown) = 0
    BY <1>1
  <2> QED BY <2>1, <2>2 DEF ByteSizeGetHostRequest
<1>11. Len(SerializeGetHostRequest(x)) = ByteSizeGetHostRequest(x)
           /\ SerializeGetHostRequest(x) \in Seq(Bytes)
  <2> HIDE DEF a, b, c
  <2> QED BY <1>2, <1>3, <1>4, <1>10
<1> QED BY <1>8, <1>9, <1>11

(* A host is not the null pointer.                                         *)
LEMMA HostIsThere == NoHost \notin HostInfoType
<1>1. SUFFICES ASSUME NoHost \in HostInfoType PROVE FALSE
  OBVIOUS
<1>2. \A x \in HostInfoType : DOMAIN x = {"ip", "port", "unknown"}
  BY DEF HostInfoType
<1>3. DOMAIN NoHost = {}
  BY DEF NoHost
<1> QED BY <1>1, <1>2, <1>3

(* The field of an inner message takes the bytes that are counted.         *)
LEMMA BodyType ==
    \A number \in 1 .. 15 : \A body \in Seq(Bytes) : Len(body) < LongRange =>
        /\ MessageField(number, body) \in Seq(Bytes)
        /\ Len(MessageField(number, body)) = MessageFieldSize(Len(body))
        /\ MessageFieldSize(Len(body)) \in Nat
<1> TAKE number \in 1 .. 15
<1> TAKE body \in Seq(Bytes)
<1>1. Len(body) \in Nat /\ (Len(body) < LongRange => Len(body) \in Longs64)
  BY Powers DEF Longs64
<1>2. Len(body) < LongRange => VarintSize(Len(body)) \in Nat
  BY <1>1, VarintSizeType, LongestType
<1>3. Len(body) < LongRange => MessageFieldSize(Len(body)) \in Nat
  BY <1>1, <1>2 DEF MessageFieldSize
<1>4. Len(body) < LongRange => /\ MessageField(number, body) \in Seq(Bytes)
                               /\ Len(MessageField(number, body)) = MessageFieldSize(Len(body))
  BY NoBytes, MessageThenRest
<1> QED BY <1>3, <1>4

(* The field of a host, which may be missing, takes the bytes that are     *)
(* counted.                                                                *)
LEMMA HostFieldType ==
    ASSUME NEW number \in 1 .. 15, NEW x, x.host \in HostInfoType \cup {NoHost}
    PROVE  /\ HostField(number, x) \in Seq(Bytes)
           /\ Len(HostField(number, x)) = HostFieldSize(x)
           /\ HostFieldSize(x) \in Nat
<1>1. CASE x.host = NoHost
  BY <1>1 DEF HostField, HostFieldSize, HasHost
<1>2. CASE x.host # NoHost
  <2> DEFINE body == SerializeHostInfo(x.host)
  <2>1. HostField(number, x) = MessageField(number, body)
    BY <1>2 DEF HostField, HasHost
  <2>2. body \in Seq(Bytes) /\ Len(body) = ByteSizeHostInfo(x.host) /\ Len(body) < LongRange
    BY <1>2, HostInfoFits
  <2>3. HostFieldSize(x) = MessageFieldSize(Len(body))
    BY <1>2, <2>2 DEF HostFieldSize, HasHost
  <2> HIDE DEF body
  <2> QED BY <2>1, <2>2, <2>3, BodyType
<1> QED BY <1>1, <1>2

----------------------------------------------------------------------------
ReportRequestFold == INSTANCE Folding WITH Op <- ReportRequestField

ReportRequestNext(m, number, n) ==
    IF n = 0 THEN m ELSE ReportRequestField(m, NumberRead(number, n))

(* Reading a report takes field after field.                               *)
LEMMA ReportRequestTakes ==
    /\ \A m : ParseReportRequest(m, <<>>) = m
    /\ \A m : \A number \in 1 .. 15, n \in Longs64, rest \in Seq(Bytes) :
            ParseReportRequest(m, UInt32Field(number, n) \o rest) =
                ParseReportRequest(ReportRequestNext(m, number, n), rest)
    /\ \A m : \A number \in 1 .. 15, body \in Seq(Bytes), rest \in Seq(Bytes) :
            Len(body) < LongRange =>
                ParseReportRequest(m, MessageField(number, body) \o rest) =
                    ParseReportRequest(ReportRequestField(m, MessageRead(number, body)), rest)
<1>1. \A m, bytes : ParseReportRequest(m, bytes) = ReportRequestFold!FromLeft(m, Fields[bytes])
  BY DEF ParseReportRequest, ReportRequestFold!FromLeft, FoldLeft, MapThenFoldSet, Max,
         ReportRequestFold!Largest
<1>2. \A m : ParseReportRequest(m, <<>>) = m
  BY <1>1, NoFields, ReportRequestFold!LeftEmpty
<1>3. ASSUME NEW m, NEW f \in FieldType, NEW bytes, NEW rest \in Seq(Bytes),
             FirstIs(bytes, f, rest)
      PROVE  ParseReportRequest(m, bytes) = ParseReportRequest(ReportRequestField(m, f), rest)
  <2>1. Fields[rest] \in Seq(FieldType)
    BY FieldsType
  <2>2. ReportRequestFold!FromLeft(m, <<f>> \o Fields[rest]) =
            ReportRequestFold!FromLeft(ReportRequestField(m, f), Fields[rest])
    BY <2>1, ReportRequestFold!LeftCons
  <2> QED BY <1>1, <1>3, <2>2 DEF FirstIs
<1>4. ASSUME NEW m, NEW number \in 1 .. 15, NEW n \in Longs64, NEW rest \in Seq(Bytes)
      PROVE  ParseReportRequest(m, UInt32Field(number, n) \o rest) =
                ParseReportRequest(ReportRequestNext(m, number, n), rest)
  <2>1. CASE n = 0
    BY <2>1, NumberThenRest DEF ReportRequestNext
  <2>2. CASE n # 0
    <3>1. FirstIs(UInt32Field(number, n) \o rest, NumberRead(number, n), rest)
      BY <2>2, NumberThenRest DEF FirstIs
    <3>2. NumberRead(number, n) \in FieldType
      BY ReadType
    <3> QED BY <1>3, <2>2, <3>1, <3>2 DEF ReportRequestNext
  <2> QED BY <2>1, <2>2
<1>5. ASSUME NEW m, NEW number \in 1 .. 15, NEW body \in Seq(Bytes),
             NEW rest \in Seq(Bytes), Len(body) < LongRange
      PROVE  ParseReportRequest(m, MessageField(number, body) \o rest) =
                ParseReportRequest(ReportRequestField(m, MessageRead(number, body)), rest)
  <2>1. FirstIs(MessageField(number, body) \o rest, MessageRead(number, body), rest)
    BY <1>5, MessageThenRest DEF FirstIs
  <2>2. MessageRead(number, body) \in FieldType
    BY <1>5, ReadType
  <2> DEFINE f == MessageRead(number, body)
             bytes == MessageField(number, body) \o rest
  <2> HIDE DEF f, bytes
  <2>3. ParseReportRequest(m, bytes) = ParseReportRequest(ReportRequestField(m, f), rest)
    BY <1>3, <2>1, <2>2 DEF f, bytes
  <2> QED BY <2>3 DEF f, bytes
<1> QED BY <1>2, <1>4, <1>5

ReportRequestWith(modid, cmdid, host, retcode) ==
    [modid |-> modid, cmdid |-> cmdid, host |-> host, retcode |-> retcode, unknown |-> <<>>]

(* What each field of a report does.                                       *)
LEMMA ReportRequestFields ==
    \A modid, cmdid, host, retcode : \A rest \in Seq(Bytes) :
        /\ \A n \in Words : ParseReportRequest(ReportRequestWith(modid, cmdid, host, retcode),
             UInt32Field(1, n) \o rest) =
                ParseReportRequest(ReportRequestWith(Latest(modid, n), cmdid, host, retcode),
                    rest)
        /\ \A n \in Words : ParseReportRequest(ReportRequestWith(modid, cmdid, host, retcode),
             UInt32Field(2, n) \o rest) =
                ParseReportRequest(ReportRequestWith(modid, Latest(cmdid, n), host, retcode),
                    rest)
        /\ \A x \in HostInfoType : host \in HostInfoType \cup {NoHost} =>
                ParseReportRequest(ReportRequestWith(modid, cmdid, host, retcode),
                    MessageField(3, SerializeHostInfo(x)) \o rest) =
                    ParseReportRequest(ReportRequestWith(modid, cmdid,
                        MergeHostInfo(IF host = NoHost THEN ClearHostInfo ELSE host, x),
                        retcode), rest)
        /\ \A n \in Ints : ParseReportRequest(ReportRequestWith(modid, cmdid, host, retcode),
             IntField(4, n) \o rest) =
                ParseReportRequest(ReportRequestWith(modid, cmdid, host, Latest(retcode, n)),
                    rest)
<1> TAKE modid, cmdid, host, retcode
<1> TAKE rest \in Seq(Bytes)
<1> DEFINE m == ReportRequestWith(modid, cmdid, host, retcode)
<1>1. ASSUME NEW n \in Words
      PROVE  ParseReportRequest(m, UInt32Field(1, n) \o rest) =
                ParseReportRequest(ReportRequestWith(Latest(modid, n), cmdid, host, retcode),
                    rest)
  <2>1. ReportRequestNext(m, 1, n) =
            ReportRequestWith(Latest(modid, n), cmdid, host, retcode)
    BY WordsAreRead
       DEF ReportRequestNext, ReportRequestField, NumberRead, VarintTag, UInt32Of, Latest,
           ReportRequestWith
  <2>2. n \in Longs64 /\ 1 \in 1 .. 15
    BY WordsAreRead
  <2> HIDE DEF m
  <2>3. ParseReportRequest(m, UInt32Field(1, n) \o rest)
            = ParseReportRequest(ReportRequestNext(m, 1, n), rest)
    BY <2>2, ReportRequestTakes, Zenon
  <2> QED BY <2>1, <2>3
<1>2. ASSUME NEW n \in Words
      PROVE  ParseReportRequest(m, UInt32Field(2, n) \o rest) =
                ParseReportRequest(ReportRequestWith(modid, Latest(cmdid, n), host, retcode),
                    rest)
  <2>1. ReportRequestNext(m, 2, n) =
            ReportRequestWith(modid, Latest(cmdid, n), host, retcode)
    BY WordsAreRead
       DEF ReportRequestNext, ReportRequestField, NumberRead, VarintTag, UInt32Of, Latest,
           ReportRequestWith
  <2>2. n \in Longs64 /\ 2 \in 1 .. 15
    BY WordsAreRead
  <2> HIDE DEF m
  <2>3. ParseReportRequest(m, UInt32Field(2, n) \o rest)
            = ParseReportRequest(ReportRequestNext(m, 2, n), rest)
    BY <2>2, ReportRequestTakes, Zenon
  <2> QED BY <2>1, <2>3
<1>3. ASSUME NEW x \in HostInfoType, host \in HostInfoType \cup {NoHost}
      PROVE  ParseReportRequest(m, MessageField(3, SerializeHostInfo(x)) \o rest) =
                ParseReportRequest(ReportRequestWith(modid, cmdid,
                    MergeHostInfo(IF host = NoHost THEN ClearHostInfo ELSE host, x), retcode),
                    rest)
  <2> DEFINE body == SerializeHostInfo(x)
             old == IF host = NoHost THEN ClearHostInfo ELSE host
  <2>1. body \in Seq(Bytes) /\ Len(body) < LongRange /\ 3 \in 1 .. 15
    BY HostInfoFits
  <2>2. old \in HostInfoType
    BY <1>3, HostInfoFits
  <2>3. HostOf(m) = old
    BY DEF HostOf, HasHost, ReportRequestWith
  <2> HIDE DEF old
  <2>4. ParseHostInfo(old, body) = MergeHostInfo(old, x)
    BY <2>2, HostInfoIsRead
  <2> HIDE DEF body
  <2>5. ReportRequestField(m, MessageRead(3, body)) = [m EXCEPT !.host = MergeHostInfo(old, x)]
    BY <2>3, <2>4 DEF ReportRequestField, MessageRead, LengthTag, ReadHost
  <2>6. [m EXCEPT !.host = MergeHostInfo(old, x)] = ReportRequestWith(modid, cmdid,
            MergeHostInfo(old, x), retcode)
    BY DEF ReportRequestWith
  <2> HIDE DEF m
  <2>7. ParseReportRequest(m, MessageField(3, body) \o rest) =
            ParseReportRequest(ReportRequestField(m, MessageRead(3, body)), rest)
    BY <2>1, ReportRequestTakes
  <2> QED BY <2>5, <2>6, <2>7 DEF body, old
<1>4. ASSUME NEW n \in Ints
      PROVE  ParseReportRequest(m, IntField(4, n) \o rest) =
                ParseReportRequest(ReportRequestWith(modid, cmdid, host, Latest(retcode, n)),
                    rest)
  <2> DEFINE k == Unsigned(n, LongRange)
  <2>1. Int32Of(NumberRead(4, k)) = n /\ k \in Longs64 /\ (k = 0 <=> n = 0)
    BY IntsAreRead DEF Int32Of, NumberRead
  <2>2. IntField(4, n) = UInt32Field(4, k) /\ 4 \in 1 .. 15
    BY DEF IntField
  <2> HIDE DEF k
  <2>3. ReportRequestNext(m, 4, k) =
            ReportRequestWith(modid, cmdid, host, Latest(retcode, n))
    BY <2>1 DEF ReportRequestNext, ReportRequestField, NumberRead, VarintTag, Latest,
           ReportRequestWith
  <2> HIDE DEF m
  <2>4. ParseReportRequest(m, UInt32Field(4, k) \o rest)
            = ParseReportRequest(ReportRequestNext(m, 4, k), rest)
    BY <2>1, <2>2, ReportRequestTakes, Zenon
  <2> QED BY <2>2, <2>3, <2>4
<1> QED BY <1>1, <1>2, <1>3, <1>4

(* A report takes the bytes that are counted, and to read them is to merge.*)
LEMMA ReportRequestIsRead ==
    ASSUME NEW m \in ReportRequestType, NEW x \in ReportRequestType
    PROVE  /\ SerializeReportRequest(x) \in Seq(Bytes)
           /\ Len(SerializeReportRequest(x)) = ByteSizeReportRequest(x)
           /\ ParseReportRequest(m, SerializeReportRequest(x)) = MergeReportRequest(m, x)
<1> DEFINE a == UInt32Field(1, x.modid)
           b == UInt32Field(2, x.cmdid)
           c == HostField(3, x)
           d == IntField(4, x.retcode)
<1>1. /\ x.modid \in Words
      /\ x.cmdid \in Words
      /\ x.host \in HostInfoType \cup {NoHost}
      /\ x.retcode \in Ints
      /\ x.unknown = <<>> /\ m.unknown = <<>>
      /\ m.host \in HostInfoType \cup {NoHost}
      /\ m = ReportRequestWith(m.modid, m.cmdid, m.host, m.retcode)
  BY DEF ReportRequestType, ReportRequestWith
<1>2. /\ a \in Seq(Bytes) /\ Len(a) = UInt32FieldSize(x.modid)
      /\ b \in Seq(Bytes) /\ Len(b) = UInt32FieldSize(x.cmdid)
      /\ c \in Seq(Bytes) /\ Len(c) = HostFieldSize(x)
      /\ d \in Seq(Bytes) /\ Len(d) = IntFieldSize(x.retcode)
      /\ UInt32FieldSize(x.modid) \in Nat
      /\ UInt32FieldSize(x.cmdid) \in Nat
      /\ HostFieldSize(x) \in Nat
      /\ IntFieldSize(x.retcode) \in Nat
  <2>1. a \in Seq(Bytes) /\ Len(a) = UInt32FieldSize(x.modid)
        /\ UInt32FieldSize(x.modid) \in Nat
    <3>1. x.modid \in Words
      BY <1>1
    <3> QED BY <3>1, WordFields
  <2>2. b \in Seq(Bytes) /\ Len(b) = UInt32FieldSize(x.cmdid)
        /\ UInt32FieldSize(x.cmdid) \in Nat
    <3>1. x.cmdid \in Words
      BY <1>1
    <3> QED BY <3>1, WordFields
  <2>3. c \in Seq(Bytes) /\ Len(c) = HostFieldSize(x)
        /\ HostFieldSize(x) \in Nat
    BY <1>1, HostFieldType
  <2>4. d \in Seq(Bytes) /\ Len(d) = IntFieldSize(x.retcode)
        /\ IntFieldSize(x.retcode) \in Nat
    BY <1>1, IntFieldType
  <2> QED BY <2>1, <2>2, <2>3, <2>4
<1>3. SerializeReportRequest(x) = a \o (b \o (c \o (d \o <<>>)))
  <2> HIDE DEF a, b, c, d
  <2>1. SerializeReportRequest(x) = a \o b \o c \o d \o <<>>
    BY <1>1 DEF SerializeReportRequest, a, b, c, d
  <2>2. a \in Seq(Bytes) /\ b \in Seq(Bytes) /\ c \in Seq(Bytes)
        /\ d \in Seq(Bytes)
    BY <1>2
  <2>3. Flat4(a, b, c, d) = Nested4(a, b, c, d)
    BY <2>2, Chain4
  <2> QED BY <2>1, <2>3 DEF Flat4, Nested4
<1>4. Len(a \o (b \o (c \o (d \o <<>>)))) = Len(a) + Len(b) + Len(c) + Len(d)
      /\ a \o (b \o (c \o (d \o <<>>))) \in Seq(Bytes)
      /\ b \o (c \o (d \o <<>>)) \in Seq(Bytes)
      /\ c \o (d \o <<>>) \in Seq(Bytes)
      /\ d \o <<>> \in Seq(Bytes)
  <2> HIDE DEF a, b, c, d
  <2>1. a \in Seq(Bytes) /\ b \in Seq(Bytes) /\ c \in Seq(Bytes)
        /\ d \in Seq(Bytes)
    BY <1>2
  <2>2. Len(Nested4(a, b, c, d)) = Len(a) + Len(b) + Len(c) + Len(d)
        /\ Nested4(a, b, c, d) \in Seq(Bytes)
    BY <2>1, Chain4
  <2>3. d \o <<>> \in Seq(Bytes)
    BY <2>1
  <2>4. c \o (d \o <<>>) \in Seq(Bytes)
    BY <2>1, <2>3
  <2>5. b \o (c \o (d \o <<>>)) \in Seq(Bytes)
    BY <2>1, <2>4
  <2> QED BY <2>2, <2>3, <2>4, <2>5 DEF Nested4
<1>5. ParseReportRequest(ReportRequestWith(m.modid, m.cmdid, m.host, m.retcode), a
          \o (b \o (c \o (d \o <<>>)))) =
        ParseReportRequest(ReportRequestWith(Latest(m.modid, x.modid), m.cmdid, m.host,
            m.retcode), b \o (c \o (d \o <<>>)))
  <2>1. b \o (c \o (d \o <<>>)) \in Seq(Bytes)
    BY <1>4, NoBytes
  <2>2. \A rest \in Seq(Bytes) : ParseReportRequest(ReportRequestWith(m.modid, m.cmdid, m.host,
            m.retcode), a \o rest) =
            ParseReportRequest(ReportRequestWith(Latest(m.modid, x.modid), m.cmdid, m.host,
                m.retcode), rest)
    BY <1>1, ReportRequestFields
  <2> HIDE DEF a, b, c, d
  <2> QED BY <2>1, <2>2, Zenon
<1>6. ParseReportRequest(ReportRequestWith(Latest(m.modid, x.modid), m.cmdid, m.host,
          m.retcode), b \o (c \o (d \o <<>>))) =
        ParseReportRequest(ReportRequestWith(Latest(m.modid, x.modid),
            Latest(m.cmdid, x.cmdid), m.host, m.retcode), c \o (d \o <<>>))
  <2>1. c \o (d \o <<>>) \in Seq(Bytes)
    BY <1>4, NoBytes
  <2>2. \A rest \in Seq(Bytes) : ParseReportRequest(ReportRequestWith(Latest(m.modid, x.modid),
            m.cmdid, m.host, m.retcode), b \o rest) =
            ParseReportRequest(ReportRequestWith(Latest(m.modid, x.modid),
                Latest(m.cmdid, x.cmdid), m.host, m.retcode), rest)
    BY <1>1, ReportRequestFields
  <2> HIDE DEF a, b, c, d
  <2> QED BY <2>1, <2>2, Zenon
<1>7. ParseReportRequest(ReportRequestWith(Latest(m.modid, x.modid), Latest(m.cmdid, x.cmdid),
          m.host, m.retcode), c \o (d \o <<>>)) =
        ParseReportRequest(ReportRequestWith(Latest(m.modid, x.modid),
            Latest(m.cmdid, x.cmdid), MergeHost(m, x), m.retcode), d \o <<>>)
  <2>1. d \o <<>> \in Seq(Bytes)
    BY <1>4, NoBytes
  <2> DEFINE rest == d \o <<>>
             old == ReportRequestWith(Latest(m.modid, x.modid), Latest(m.cmdid, x.cmdid),
                        m.host, m.retcode)
  <2>2. HostOf(m) = IF m.host = NoHost THEN ClearHostInfo ELSE m.host
    BY DEF HostOf, HasHost
  <2>3. CASE x.host = NoHost
    <3>1. c = <<>>
      BY <2>3 DEF HostField, HasHost
    <3>2. MergeHost(m, x) = m.host
      BY <2>3 DEF MergeHost, HasHost
    <3>3. c \o rest = rest
      <4> HIDE DEF a, b, c, d, rest
      <4> QED BY <2>1, <3>1, Nothing DEF rest
    <3> QED BY <3>2, <3>3
  <2>4. CASE x.host # NoHost
    <3>1. c = MessageField(3, SerializeHostInfo(x.host)) /\ x.host \in HostInfoType
      BY <1>1, <2>4 DEF HostField, HasHost
    <3>2. MergeHost(m, x) = MergeHostInfo(HostOf(m), x.host)
      BY <2>4 DEF MergeHost, HasHost
    <3>3. \A y \in HostInfoType, r \in Seq(Bytes) :
            ParseReportRequest(old, MessageField(3, SerializeHostInfo(y)) \o r) =
                ParseReportRequest(ReportRequestWith(Latest(m.modid, x.modid),
                    Latest(m.cmdid, x.cmdid), MergeHostInfo(HostOf(m), y), m.retcode), r)
      BY <1>1, <2>2, ReportRequestFields
    <3> HIDE DEF a, b, c, d, old
    <3>4. ParseReportRequest(old, MessageField(3, SerializeHostInfo(x.host)) \o rest) =
            ParseReportRequest(ReportRequestWith(Latest(m.modid, x.modid),
                Latest(m.cmdid, x.cmdid), MergeHostInfo(HostOf(m), x.host), m.retcode), rest)
      <4> HIDE DEF rest
      <4> QED BY <2>1, <3>1, <3>3, Zenon DEF rest
    <3> QED BY <3>1, <3>2, <3>4 DEF old
  <2> QED BY <2>3, <2>4
<1>8. ParseReportRequest(ReportRequestWith(Latest(m.modid, x.modid), Latest(m.cmdid, x.cmdid),
          MergeHost(m, x), m.retcode), d \o <<>>) =
        ParseReportRequest(ReportRequestWith(Latest(m.modid, x.modid),
            Latest(m.cmdid, x.cmdid), MergeHost(m, x), Latest(m.retcode, x.retcode)), <<>>)
  <2>1. <<>> \in Seq(Bytes)
    BY <1>4, NoBytes
  <2>2. \A rest \in Seq(Bytes) : ParseReportRequest(ReportRequestWith(Latest(m.modid, x.modid),
            Latest(m.cmdid, x.cmdid), MergeHost(m, x), m.retcode), d \o rest) =
            ParseReportRequest(ReportRequestWith(Latest(m.modid, x.modid),
                Latest(m.cmdid, x.cmdid), MergeHost(m, x), Latest(m.retcode, x.retcode)), rest)
    BY <1>1, ReportRequestFields
  <2> HIDE DEF a, b, c, d
  <2> QED BY <2>1, <2>2, Zenon
<1>9. ParseReportRequest(m, SerializeReportRequest(x))
          = ReportRequestWith(Latest(m.modid, x.modid), Latest(m.cmdid, x.cmdid),
          MergeHost(m, x), Latest(m.retcode, x.retcode))
  <2> HIDE DEF a, b, c, d
  <2> QED BY <1>1, <1>3, <1>5, <1>6, <1>7, <1>8, ReportRequestTakes
<1>10. MergeReportRequest(m, x) = ReportRequestWith(Latest(m.modid, x.modid),
           Latest(m.cmdid, x.cmdid), MergeHost(m, x), Latest(m.retcode, x.retcode))
  BY <1>1, Nothing DEF MergeReportRequest, ReportRequestWith
<1>11. ByteSizeReportRequest(x)
           = UInt32FieldSize(x.modid) + UInt32FieldSize(x.cmdid) + HostFieldSize(x) +
           IntFieldSize(x.retcode)
  <2>1. UInt32FieldSize(x.modid) \in Nat /\ UInt32FieldSize(x.cmdid) \in Nat
            /\ HostFieldSize(x) \in Nat /\ IntFieldSize(x.retcode) \in Nat
    BY <1>2
  <2>2. Len(x.unknown) = 0
    BY <1>1
  <2> QED BY <2>1, <2>2 DEF ByteSizeReportRequest
<1>12. Len(SerializeReportRequest(x)) = ByteSizeReportRequest(x)
           /\ SerializeReportRequest(x) \in Seq(Bytes)
  <2> HIDE DEF a, b, c, d
  <2> QED BY <1>2, <1>3, <1>4, <1>11
<1> QED BY <1>9, <1>10, <1>12

GetHostResponseFold == INSTANCE Folding WITH Op <- GetHostResponseField

GetHostResponseNext(m, number, n) ==
    IF n = 0 THEN m ELSE GetHostResponseField(m, NumberRead(number, n))

(* Reading a host response takes field after field.                        *)
LEMMA GetHostResponseTakes ==
    /\ \A m : ParseGetHostResponse(m, <<>>) = m
    /\ \A m : \A number \in 1 .. 15, n \in Longs64, rest \in Seq(Bytes) :
            ParseGetHostResponse(m, UInt32Field(number, n) \o rest) =
                ParseGetHostResponse(GetHostResponseNext(m, number, n), rest)
    /\ \A m : \A number \in 1 .. 15, body \in Seq(Bytes), rest \in Seq(Bytes) :
            Len(body) < LongRange =>
                ParseGetHostResponse(m, MessageField(number, body) \o rest) =
                    ParseGetHostResponse(GetHostResponseField(m, MessageRead(number, body)),
                        rest)
<1>1. \A m, bytes : ParseGetHostResponse(m, bytes) = GetHostResponseFold!FromLeft(m,
          Fields[bytes])
  BY DEF ParseGetHostResponse, GetHostResponseFold!FromLeft, FoldLeft, MapThenFoldSet, Max,
         GetHostResponseFold!Largest
<1>2. \A m : ParseGetHostResponse(m, <<>>) = m
  BY <1>1, NoFields, GetHostResponseFold!LeftEmpty
<1>3. ASSUME NEW m, NEW f \in FieldType, NEW bytes, NEW rest \in Seq(Bytes),
             FirstIs(bytes, f, rest)
      PROVE  ParseGetHostResponse(m, bytes) = ParseGetHostResponse(GetHostResponseField(m, f),
                 rest)
  <2>1. Fields[rest] \in Seq(FieldType)
    BY FieldsType
  <2>2. GetHostResponseFold!FromLeft(m, <<f>> \o Fields[rest]) =
            GetHostResponseFold!FromLeft(GetHostResponseField(m, f), Fields[rest])
    BY <2>1, GetHostResponseFold!LeftCons
  <2> QED BY <1>1, <1>3, <2>2 DEF FirstIs
<1>4. ASSUME NEW m, NEW number \in 1 .. 15, NEW n \in Longs64, NEW rest \in Seq(Bytes)
      PROVE  ParseGetHostResponse(m, UInt32Field(number, n) \o rest) =
                ParseGetHostResponse(GetHostResponseNext(m, number, n), rest)
  <2>1. CASE n = 0
    BY <2>1, NumberThenRest DEF GetHostResponseNext
  <2>2. CASE n # 0
    <3>1. FirstIs(UInt32Field(number, n) \o rest, NumberRead(number, n), rest)
      BY <2>2, NumberThenRest DEF FirstIs
    <3>2. NumberRead(number, n) \in FieldType
      BY ReadType
    <3> QED BY <1>3, <2>2, <3>1, <3>2 DEF GetHostResponseNext
  <2> QED BY <2>1, <2>2
<1>5. ASSUME NEW m, NEW number \in 1 .. 15, NEW body \in Seq(Bytes),
             NEW rest \in Seq(Bytes), Len(body) < LongRange
      PROVE  ParseGetHostResponse(m, MessageField(number, body) \o rest) =
                ParseGetHostResponse(GetHostResponseField(m, MessageRead(number, body)), rest)
  <2>1. FirstIs(MessageField(number, body) \o rest, MessageRead(number, body), rest)
    BY <1>5, MessageThenRest DEF FirstIs
  <2>2. MessageRead(number, body) \in FieldType
    BY <1>5, ReadType
  <2> DEFINE f == MessageRead(number, body)
             bytes == MessageField(number, body) \o rest
  <2> HIDE DEF f, bytes
  <2>3. ParseGetHostResponse(m, bytes) = ParseGetHostResponse(GetHostResponseField(m, f), rest)
    BY <1>3, <2>1, <2>2 DEF f, bytes
  <2> QED BY <2>3 DEF f, bytes
<1> QED BY <1>2, <1>4, <1>5

GetHostResponseWith(seq, modid, cmdid, retcode, host) ==
    [seq |-> seq, modid |-> modid, cmdid |-> cmdid, retcode |-> retcode, host |-> host,
        unknown |-> <<>>]

(* What each field of a host response does.                                *)
LEMMA GetHostResponseFields ==
    \A seq, modid, cmdid, retcode, host : \A rest \in Seq(Bytes) :
        /\ \A n \in Words : ParseGetHostResponse(GetHostResponseWith(seq, modid, cmdid,
             retcode, host), UInt32Field(1, n) \o rest) =
                ParseGetHostResponse(GetHostResponseWith(Latest(seq, n), modid, cmdid, retcode,
                    host), rest)
        /\ \A n \in Words : ParseGetHostResponse(GetHostResponseWith(seq, modid, cmdid,
             retcode, host), UInt32Field(2, n) \o rest) =
                ParseGetHostResponse(GetHostResponseWith(seq, Latest(modid, n), cmdid, retcode,
                    host), rest)
        /\ \A n \in Words : ParseGetHostResponse(GetHostResponseWith(seq, modid, cmdid,
             retcode, host), UInt32Field(3, n) \o rest) =
                ParseGetHostResponse(GetHostResponseWith(seq, modid, Latest(cmdid, n), retcode,
                    host), rest)
        /\ \A n \in Words : ParseGetHostResponse(GetHostResponseWith(seq, modid, cmdid,
             retcode, host), UInt32Field(4, n) \o rest) =
                ParseGetHostResponse(GetHostResponseWith(seq, modid, cmdid, Latest(retcode, n),
                    host), rest)
        /\ \A x \in HostInfoType : host \in HostInfoType \cup {NoHost} =>
                ParseGetHostResponse(GetHostResponseWith(seq, modid, cmdid, retcode, host),
                    MessageField(5, SerializeHostInfo(x)) \o rest) =
                    ParseGetHostResponse(GetHostResponseWith(seq, modid, cmdid, retcode,
                        MergeHostInfo(IF host = NoHost THEN ClearHostInfo ELSE host, x)), rest)
<1> TAKE seq, modid, cmdid, retcode, host
<1> TAKE rest \in Seq(Bytes)
<1> DEFINE m == GetHostResponseWith(seq, modid, cmdid, retcode, host)
<1>1. ASSUME NEW n \in Words
      PROVE  ParseGetHostResponse(m, UInt32Field(1, n) \o rest) =
                ParseGetHostResponse(GetHostResponseWith(Latest(seq, n), modid, cmdid, retcode,
                    host), rest)
  <2>1. GetHostResponseNext(m, 1, n) =
            GetHostResponseWith(Latest(seq, n), modid, cmdid, retcode, host)
    BY WordsAreRead
       DEF GetHostResponseNext, GetHostResponseField, NumberRead, VarintTag, UInt32Of, Latest,
           GetHostResponseWith
  <2>2. n \in Longs64 /\ 1 \in 1 .. 15
    BY WordsAreRead
  <2> HIDE DEF m
  <2>3. ParseGetHostResponse(m, UInt32Field(1, n) \o rest)
            = ParseGetHostResponse(GetHostResponseNext(m, 1, n), rest)
    BY <2>2, GetHostResponseTakes, Zenon
  <2> QED BY <2>1, <2>3
<1>2. ASSUME NEW n \in Words
      PROVE  ParseGetHostResponse(m, UInt32Field(2, n) \o rest) =
                ParseGetHostResponse(GetHostResponseWith(seq, Latest(modid, n), cmdid, retcode,
                    host), rest)
  <2>1. GetHostResponseNext(m, 2, n) =
            GetHostResponseWith(seq, Latest(modid, n), cmdid, retcode, host)
    BY WordsAreRead
       DEF GetHostResponseNext, GetHostResponseField, NumberRead, VarintTag, UInt32Of, Latest,
           GetHostResponseWith
  <2>2. n \in Longs64 /\ 2 \in 1 .. 15
    BY WordsAreRead
  <2> HIDE DEF m
  <2>3. ParseGetHostResponse(m, UInt32Field(2, n) \o rest)
            = ParseGetHostResponse(GetHostResponseNext(m, 2, n), rest)
    BY <2>2, GetHostResponseTakes, Zenon
  <2> QED BY <2>1, <2>3
<1>3. ASSUME NEW n \in Words
      PROVE  ParseGetHostResponse(m, UInt32Field(3, n) \o rest) =
                ParseGetHostResponse(GetHostResponseWith(seq, modid, Latest(cmdid, n), retcode,
                    host), rest)
  <2>1. GetHostResponseNext(m, 3, n) =
            GetHostResponseWith(seq, modid, Latest(cmdid, n), retcode, host)
    BY WordsAreRead
       DEF GetHostResponseNext, GetHostResponseField, NumberRead, VarintTag, UInt32Of, Latest,
           GetHostResponseWith
  <2>2. n \in Longs64 /\ 3 \in 1 .. 15
    BY WordsAreRead
  <2> HIDE DEF m
  <2>3. ParseGetHostResponse(m, UInt32Field(3, n) \o rest)
            = ParseGetHostResponse(GetHostResponseNext(m, 3, n), rest)
    BY <2>2, GetHostResponseTakes, Zenon
  <2> QED BY <2>1, <2>3
<1>4. ASSUME NEW n \in Words
      PROVE  ParseGetHostResponse(m, UInt32Field(4, n) \o rest) =
                ParseGetHostResponse(GetHostResponseWith(seq, modid, cmdid, Latest(retcode, n),
                    host), rest)
  <2>1. GetHostResponseNext(m, 4, n) =
            GetHostResponseWith(seq, modid, cmdid, Latest(retcode, n), host)
    BY WordsAreRead
       DEF GetHostResponseNext, GetHostResponseField, NumberRead, VarintTag, UInt32Of, Latest,
           GetHostResponseWith
  <2>2. n \in Longs64 /\ 4 \in 1 .. 15
    BY WordsAreRead
  <2> HIDE DEF m
  <2>3. ParseGetHostResponse(m, UInt32Field(4, n) \o rest)
            = ParseGetHostResponse(GetHostResponseNext(m, 4, n), rest)
    BY <2>2, GetHostResponseTakes, Zenon
  <2> QED BY <2>1, <2>3
<1>5. ASSUME NEW x \in HostInfoType, host \in HostInfoType \cup {NoHost}
      PROVE  ParseGetHostResponse(m, MessageField(5, SerializeHostInfo(x)) \o rest) =
                ParseGetHostResponse(GetHostResponseWith(seq, modid, cmdid, retcode,
                    MergeHostInfo(IF host = NoHost THEN ClearHostInfo ELSE host, x)), rest)
  <2> DEFINE body == SerializeHostInfo(x)
             old == IF host = NoHost THEN ClearHostInfo ELSE host
  <2>1. body \in Seq(Bytes) /\ Len(body) < LongRange /\ 5 \in 1 .. 15
    BY HostInfoFits
  <2>2. old \in HostInfoType
    BY <1>5, HostInfoFits
  <2>3. HostOf(m) = old
    BY DEF HostOf, HasHost, GetHostResponseWith
  <2> HIDE DEF old
  <2>4. ParseHostInfo(old, body) = MergeHostInfo(old, x)
    BY <2>2, HostInfoIsRead
  <2> HIDE DEF body
  <2>5. GetHostResponseField(m, MessageRead(5, body))
            = [m EXCEPT !.host = MergeHostInfo(old, x)]
    BY <2>3, <2>4 DEF GetHostResponseField, MessageRead, LengthTag, ReadHost
  <2>6. [m EXCEPT !.host = MergeHostInfo(old, x)] = GetHostResponseWith(seq, modid, cmdid,
            retcode, MergeHostInfo(old, x))
    BY DEF GetHostResponseWith
  <2> HIDE DEF m
  <2>7. ParseGetHostResponse(m, MessageField(5, body) \o rest) =
            ParseGetHostResponse(GetHostResponseField(m, MessageRead(5, body)), rest)
    BY <2>1, GetHostResponseTakes
  <2> QED BY <2>5, <2>6, <2>7 DEF body, old
<1> QED BY <1>1, <1>2, <1>3, <1>4, <1>5

(* A host response takes the bytes that are counted, and to read them is to merge.*)
LEMMA GetHostResponseIsRead ==
    ASSUME NEW m \in GetHostResponseType, NEW x \in GetHostResponseType
    PROVE  /\ SerializeGetHostResponse(x) \in Seq(Bytes)
           /\ Len(SerializeGetHostResponse(x)) = ByteSizeGetHostResponse(x)
           /\ ParseGetHostResponse(m, SerializeGetHostResponse(x)) = MergeGetHostResponse(m, x)
<1> DEFINE a == UInt32Field(1, x.seq)
           b == UInt32Field(2, x.modid)
           c == UInt32Field(3, x.cmdid)
           d == UInt32Field(4, x.retcode)
           e == HostField(5, x)
<1>1. /\ x.seq \in Words
      /\ x.modid \in Words
      /\ x.cmdid \in Words
      /\ x.retcode \in Words
      /\ x.host \in HostInfoType \cup {NoHost}
      /\ x.unknown = <<>> /\ m.unknown = <<>>
      /\ m.host \in HostInfoType \cup {NoHost}
      /\ m = GetHostResponseWith(m.seq, m.modid, m.cmdid, m.retcode, m.host)
  BY DEF GetHostResponseType, GetHostResponseWith
<1>2. /\ a \in Seq(Bytes) /\ Len(a) = UInt32FieldSize(x.seq)
      /\ b \in Seq(Bytes) /\ Len(b) = UInt32FieldSize(x.modid)
      /\ c \in Seq(Bytes) /\ Len(c) = UInt32FieldSize(x.cmdid)
      /\ d \in Seq(Bytes) /\ Len(d) = UInt32FieldSize(x.retcode)
      /\ e \in Seq(Bytes) /\ Len(e) = HostFieldSize(x)
      /\ UInt32FieldSize(x.seq) \in Nat
      /\ UInt32FieldSize(x.modid) \in Nat
      /\ UInt32FieldSize(x.cmdid) \in Nat
      /\ UInt32FieldSize(x.retcode) \in Nat
      /\ HostFieldSize(x) \in Nat
  <2>1. a \in Seq(Bytes) /\ Len(a) = UInt32FieldSize(x.seq)
        /\ UInt32FieldSize(x.seq) \in Nat
    <3>1. x.seq \in Words
      BY <1>1
    <3> QED BY <3>1, WordFields
  <2>2. b \in Seq(Bytes) /\ Len(b) = UInt32FieldSize(x.modid)
        /\ UInt32FieldSize(x.modid) \in Nat
    <3>1. x.modid \in Words
      BY <1>1
    <3> QED BY <3>1, WordFields
  <2>3. c \in Seq(Bytes) /\ Len(c) = UInt32FieldSize(x.cmdid)
        /\ UInt32FieldSize(x.cmdid) \in Nat
    <3>1. x.cmdid \in Words
      BY <1>1
    <3> QED BY <3>1, WordFields
  <2>4. d \in Seq(Bytes) /\ Len(d) = UInt32FieldSize(x.retcode)
        /\ UInt32FieldSize(x.retcode) \in Nat
    <3>1. x.retcode \in Words
      BY <1>1
    <3> QED BY <3>1, WordFields
  <2>5. e \in Seq(Bytes) /\ Len(e) = HostFieldSize(x)
        /\ HostFieldSize(x) \in Nat
    BY <1>1, HostFieldType
  <2> QED BY <2>1, <2>2, <2>3, <2>4, <2>5
<1>3. SerializeGetHostResponse(x) = a \o (b \o (c \o (d \o (e \o <<>>))))
  <2> HIDE DEF a, b, c, d, e
  <2>1. SerializeGetHostResponse(x) = a \o b \o c \o d \o e \o <<>>
    BY <1>1 DEF SerializeGetHostResponse, a, b, c, d, e
  <2>2. a \in Seq(Bytes) /\ b \in Seq(Bytes) /\ c \in Seq(Bytes)
        /\ d \in Seq(Bytes) /\ e \in Seq(Bytes)
    BY <1>2
  <2>3. Flat5(a, b, c, d, e) = Nested5(a, b, c, d, e)
    BY <2>2, Chain5
  <2> QED BY <2>1, <2>3 DEF Flat5, Nested5
<1>4. Len(a \o (b \o (c \o (d \o (e \o <<>>))))) = Len(a) + Len(b) + Len(c) + Len(d) + Len(e)
      /\ a \o (b \o (c \o (d \o (e \o <<>>)))) \in Seq(Bytes)
      /\ b \o (c \o (d \o (e \o <<>>))) \in Seq(Bytes)
      /\ c \o (d \o (e \o <<>>)) \in Seq(Bytes)
      /\ d \o (e \o <<>>) \in Seq(Bytes)
      /\ e \o <<>> \in Seq(Bytes)
  <2> HIDE DEF a, b, c, d, e
  <2>1. a \in Seq(Bytes) /\ b \in Seq(Bytes) /\ c \in Seq(Bytes)
        /\ d \in Seq(Bytes) /\ e \in Seq(Bytes)
    BY <1>2
  <2>2. Len(Nested5(a, b, c, d, e)) = Len(a) + Len(b) + Len(c) + Len(d) + Len(e)
        /\ Nested5(a, b, c, d, e) \in Seq(Bytes)
    BY <2>1, Chain5
  <2>3. e \o <<>> \in Seq(Bytes)
    BY <2>1
  <2>4. d \o (e \o <<>>) \in Seq(Bytes)
    BY <2>1, <2>3
  <2>5. c \o (d \o (e \o <<>>)) \in Seq(Bytes)
    BY <2>1, <2>4
  <2>6. b \o (c \o (d \o (e \o <<>>))) \in Seq(Bytes)
    BY <2>1, <2>5
  <2> QED BY <2>2, <2>3, <2>4, <2>5, <2>6 DEF Nested5
<1>5. ParseGetHostResponse(GetHostResponseWith(m.seq, m.modid, m.cmdid, m.retcode, m.host), a
          \o (b \o (c \o (d \o (e \o <<>>))))) =
        ParseGetHostResponse(GetHostResponseWith(Latest(m.seq, x.seq), m.modid, m.cmdid,
            m.retcode, m.host), b \o (c \o (d \o (e \o <<>>))))
  <2>1. b \o (c \o (d \o (e \o <<>>))) \in Seq(Bytes)
    BY <1>4, NoBytes
  <2>2. \A rest \in Seq(Bytes) : ParseGetHostResponse(GetHostResponseWith(m.seq, m.modid,
            m.cmdid, m.retcode, m.host), a \o rest) =
            ParseGetHostResponse(GetHostResponseWith(Latest(m.seq, x.seq), m.modid, m.cmdid,
                m.retcode, m.host), rest)
    BY <1>1, GetHostResponseFields
  <2> HIDE DEF a, b, c, d, e
  <2> QED BY <2>1, <2>2, Zenon
<1>6. ParseGetHostResponse(GetHostResponseWith(Latest(m.seq, x.seq), m.modid, m.cmdid,
          m.retcode, m.host), b \o (c \o (d \o (e \o <<>>)))) =
        ParseGetHostResponse(GetHostResponseWith(Latest(m.seq, x.seq),
            Latest(m.modid, x.modid), m.cmdid, m.retcode, m.host), c \o (d \o (e \o <<>>)))
  <2>1. c \o (d \o (e \o <<>>)) \in Seq(Bytes)
    BY <1>4, NoBytes
  <2>2. \A rest \in Seq(Bytes) : ParseGetHostResponse(GetHostResponseWith(Latest(m.seq, x.seq),
            m.modid, m.cmdid, m.retcode, m.host), b \o rest) =
            ParseGetHostResponse(GetHostResponseWith(Latest(m.seq, x.seq),
                Latest(m.modid, x.modid), m.cmdid, m.retcode, m.host), rest)
    BY <1>1, GetHostResponseFields
  <2> HIDE DEF a, b, c, d, e
  <2> QED BY <2>1, <2>2, Zenon
<1>7. ParseGetHostResponse(GetHostResponseWith(Latest(m.seq, x.seq), Latest(m.modid, x.modid),
          m.cmdid, m.retcode, m.host), c \o (d \o (e \o <<>>))) =
        ParseGetHostResponse(GetHostResponseWith(Latest(m.seq, x.seq),
            Latest(m.modid, x.modid), Latest(m.cmdid, x.cmdid), m.retcode, m.host), d \o (e
            \o <<>>))
  <2>1. d \o (e \o <<>>) \in Seq(Bytes)
    BY <1>4, NoBytes
  <2>2. \A rest \in Seq(Bytes) : ParseGetHostResponse(GetHostResponseWith(Latest(m.seq, x.seq),
            Latest(m.modid, x.modid), m.cmdid, m.retcode, m.host), c \o rest) =
            ParseGetHostResponse(GetHostResponseWith(Latest(m.seq, x.seq),
                Latest(m.modid, x.modid), Latest(m.cmdid, x.cmdid), m.retcode, m.host), rest)
    BY <1>1, GetHostResponseFields
  <2> HIDE DEF a, b, c, d, e
  <2> QED BY <2>1, <2>2, Zenon
<1>8. ParseGetHostResponse(GetHostResponseWith(Latest(m.seq, x.seq), Latest(m.modid, x.modid),
          Latest(m.cmdid, x.cmdid), m.retcode, m.host), d \o (e \o <<>>)) =
        ParseGetHostResponse(GetHostResponseWith(Latest(m.seq, x.seq),
            Latest(m.modid, x.modid), Latest(m.cmdid, x.cmdid), Latest(m.retcode, x.retcode),
            m.host), e \o <<>>)
  <2>1. e \o <<>> \in Seq(Bytes)
    BY <1>4, NoBytes
  <2>2. \A rest \in Seq(Bytes) : ParseGetHostResponse(GetHostResponseWith(Latest(m.seq, x.seq),
            Latest(m.modid, x.modid), Latest(m.cmdid, x.cmdid), m.retcode, m.host), d \o rest) =
            ParseGetHostResponse(GetHostResponseWith(Latest(m.seq, x.seq),
                Latest(m.modid, x.modid), Latest(m.cmdid, x.cmdid),
                Latest(m.retcode, x.retcode), m.host), rest)
    BY <1>1, GetHostResponseFields
  <2> HIDE DEF a, b, c, d, e
  <2> QED BY <2>1, <2>2, Zenon
<1>9. ParseGetHostResponse(GetHostResponseWith(Latest(m.seq, x.seq), Latest(m.modid, x.modid),
          Latest(m.cmdid, x.cmdid), Latest(m.retcode, x.retcode), m.host), e \o <<>>) =
        ParseGetHostResponse(GetHostResponseWith(Latest(m.seq, x.seq),
            Latest(m.modid, x.modid), Latest(m.cmdid, x.cmdid), Latest(m.retcode, x.retcode),
            MergeHost(m, x)), <<>>)
  <2>1. <<>> \in Seq(Bytes)
    BY <1>4, NoBytes
  <2> DEFINE rest == <<>>
             old == GetHostResponseWith(Latest(m.seq, x.seq), Latest(m.modid, x.modid),
                        Latest(m.cmdid, x.cmdid), Latest(m.retcode, x.retcode), m.host)
  <2>2. HostOf(m) = IF m.host = NoHost THEN ClearHostInfo ELSE m.host
    BY DEF HostOf, HasHost
  <2>3. CASE x.host = NoHost
    <3>1. e = <<>>
      BY <2>3 DEF HostField, HasHost
    <3>2. MergeHost(m, x) = m.host
      BY <2>3 DEF MergeHost, HasHost
    <3>3. e \o rest = rest
      <4> HIDE DEF a, b, c, d, e, rest
      <4> QED BY <2>1, <3>1, Nothing DEF rest
    <3> QED BY <3>2, <3>3
  <2>4. CASE x.host # NoHost
    <3>1. e = MessageField(5, SerializeHostInfo(x.host)) /\ x.host \in HostInfoType
      BY <1>1, <2>4 DEF HostField, HasHost
    <3>2. MergeHost(m, x) = MergeHostInfo(HostOf(m), x.host)
      BY <2>4 DEF MergeHost, HasHost
    <3>3. \A y \in HostInfoType, r \in Seq(Bytes) :
            ParseGetHostResponse(old, MessageField(5, SerializeHostInfo(y)) \o r) =
                ParseGetHostResponse(GetHostResponseWith(Latest(m.seq, x.seq),
                    Latest(m.modid, x.modid), Latest(m.cmdid, x.cmdid),
                    Latest(m.retcode, x.retcode), MergeHostInfo(HostOf(m), y)), r)
      BY <1>1, <2>2, GetHostResponseFields
    <3> HIDE DEF a, b, c, d, e, old
    <3>4. ParseGetHostResponse(old, MessageField(5, SerializeHostInfo(x.host)) \o rest) =
            ParseGetHostResponse(GetHostResponseWith(Latest(m.seq, x.seq),
                Latest(m.modid, x.modid), Latest(m.cmdid, x.cmdid),
                Latest(m.retcode, x.retcode), MergeHostInfo(HostOf(m), x.host)), rest)
      <4> HIDE DEF rest
      <4> QED BY <2>1, <3>1, <3>3, Zenon DEF rest
    <3> QED BY <3>1, <3>2, <3>4 DEF old
  <2> QED BY <2>3, <2>4
<1>10. ParseGetHostResponse(m, SerializeGetHostResponse(x))
           = GetHostResponseWith(Latest(m.seq, x.seq), Latest(m.modid, x.modid),
           Latest(m.cmdid, x.cmdid), Latest(m.retcode, x.retcode), MergeHost(m, x))
  <2> HIDE DEF a, b, c, d, e
  <2> QED BY <1>1, <1>3, <1>5, <1>6, <1>7, <1>8, <1>9, GetHostResponseTakes
<1>11. MergeGetHostResponse(m, x) = GetHostResponseWith(Latest(m.seq, x.seq),
           Latest(m.modid, x.modid), Latest(m.cmdid, x.cmdid), Latest(m.retcode, x.retcode),
           MergeHost(m, x))
  BY <1>1, Nothing DEF MergeGetHostResponse, GetHostResponseWith
<1>12. ByteSizeGetHostResponse(x)
           = UInt32FieldSize(x.seq) + UInt32FieldSize(x.modid) + UInt32FieldSize(x.cmdid) +
           UInt32FieldSize(x.retcode) + HostFieldSize(x)
  <2>1. UInt32FieldSize(x.seq) \in Nat /\ UInt32FieldSize(x.modid) \in Nat
            /\ UInt32FieldSize(x.cmdid) \in Nat /\ UInt32FieldSize(x.retcode) \in Nat
            /\ HostFieldSize(x) \in Nat
    BY <1>2
  <2>2. Len(x.unknown) = 0
    BY <1>1
  <2> QED BY <2>1, <2>2 DEF ByteSizeGetHostResponse
<1>13. Len(SerializeGetHostResponse(x)) = ByteSizeGetHostResponse(x)
           /\ SerializeGetHostResponse(x) \in Seq(Bytes)
  <2> HIDE DEF a, b, c, d, e
  <2> QED BY <1>2, <1>3, <1>4, <1>12
<1> QED BY <1>10, <1>11, <1>13

(* Induction over sequences, for a set instead of a predicate.             *)
LEMMA AppendInduction ==
    ASSUME NEW S, NEW A, <<>> \in A,
           \A s \in Seq(S), x \in S : s \in A => Append(s, x) \in A
    PROVE  Seq(S) \subseteq A
<1> DEFINE N == {n \in Nat : \A s \in Seq(S) : Len(s) = n => s \in A}
<1>1. 0 \in N
  OBVIOUS
<1>2. ASSUME NEW n \in Nat, n \in N PROVE n + 1 \in N
  <2>1. ASSUME NEW s \in Seq(S), Len(s) = n + 1 PROVE s \in A
    <3> DEFINE t == SubSeq(s, 1, n)
    <3>1. t \in Seq(S) /\ Len(t) = n /\ s[n + 1] \in S
      BY <2>1
    <3>2. s = Append(t, s[n + 1])
      BY <2>1
    <3>3. t \in A
      BY <1>2, <3>1
    <3> HIDE DEF t
    <3> QED BY <3>1, <3>2, <3>3
  <2> QED BY <2>1
<1>3. Nat \subseteq N
  <2> HIDE DEF N
  <2> QED BY <1>1, <1>2, NatInductionOverSet
<1> QED BY <1>3

----------------------------------------------------------------------------
HostFieldsFold == INSTANCE Folding WITH
    Op <- LAMBDA bytes, host : bytes \o MessageField(3, SerializeHostInfo(host))
HostFieldsSizeFold == INSTANCE Folding WITH
    Op <- LAMBDA size, host : size + MessageFieldSize(ByteSizeHostInfo(host))

(* The fields of a list of hosts, one host after the other.                *)
LEMMA HostFieldsAre ==
    /\ HostFields(<<>>) = <<>> /\ HostFieldsSize(<<>>) = 0
    /\ \A s \in Seq(HostInfoType), x \in HostInfoType :
        /\ HostFields(Append(s, x)) = HostFields(s) \o MessageField(3, SerializeHostInfo(x))
        /\ HostFieldsSize(Append(s, x))
             = HostFieldsSize(s) + MessageFieldSize(ByteSizeHostInfo(x))
<1>1. \A s : HostFields(s) = HostFieldsFold!FromLeft(<<>>, s)
  BY DEF HostFields, HostFieldsFold!FromLeft, FoldLeft, MapThenFoldSet, Max,
         HostFieldsFold!Largest
<1>2. \A s : HostFieldsSize(s) = HostFieldsSizeFold!FromLeft(0, s)
  BY DEF HostFieldsSize, HostFieldsSizeFold!FromLeft, FoldLeft, MapThenFoldSet, Max,
         HostFieldsSizeFold!Largest
<1>3. HostFields(<<>>) = <<>> /\ HostFieldsSize(<<>>) = 0
  BY <1>1, <1>2, HostFieldsFold!LeftEmpty, HostFieldsSizeFold!LeftEmpty
<1>4. ASSUME NEW s \in Seq(HostInfoType), NEW x \in HostInfoType
      PROVE  /\ HostFields(Append(s, x)) = HostFields(s)
                  \o MessageField(3, SerializeHostInfo(x))
             /\ HostFieldsSize(Append(s, x))
                  = HostFieldsSize(s) + MessageFieldSize(ByteSizeHostInfo(x))
  <2>1. HostFieldsFold!FromLeft(<<>>, Append(s, x)) =
            HostFieldsFold!FromLeft(<<>>, s) \o MessageField(3, SerializeHostInfo(x))
    BY HostFieldsFold!LeftAppend
  <2>2. HostFieldsSizeFold!FromLeft(0, Append(s, x)) =
            HostFieldsSizeFold!FromLeft(0, s) + MessageFieldSize(ByteSizeHostInfo(x))
    BY HostFieldsSizeFold!LeftAppend
  <2>3. HostFields(Append(s, x)) = HostFields(s) \o MessageField(3, SerializeHostInfo(x))
    BY <1>1, <2>1
  <2>4. HostFieldsSize(Append(s, x)) = HostFieldsSize(s) + MessageFieldSize(ByteSizeHostInfo(x))
    BY <1>2, <2>2
  <2> QED BY <2>3, <2>4
<1> QED BY <1>3, <1>4

(* The fields of a list take the bytes that are counted.                   *)
LEMMA HostFieldsType ==
    \A s \in Seq(HostInfoType) :
        /\ HostFields(s) \in Seq(Bytes)
        /\ Len(HostFields(s)) = HostFieldsSize(s)
        /\ HostFieldsSize(s) \in Nat
<1> DEFINE A == {s \in Seq(HostInfoType) : /\ HostFields(s) \in Seq(Bytes)
                                        /\ Len(HostFields(s)) = HostFieldsSize(s)
                                        /\ HostFieldsSize(s) \in Nat}
<1>1. <<>> \in A
  <2>1. HostFields(<<>>) = <<>> /\ HostFieldsSize(<<>>) = 0
    BY HostFieldsAre
  <2>2. <<>> \in Seq(HostInfoType) /\ <<>> \in Seq(Bytes) /\ Len(<<>>) = 0
    OBVIOUS
  <2>3. /\ HostFields(<<>>) \in Seq(Bytes)
        /\ Len(HostFields(<<>>)) = HostFieldsSize(<<>>)
        /\ HostFieldsSize(<<>>) \in Nat
    <3> HIDE DEF A
    <3>1. Len(HostFields(<<>>)) = Len(<<>>) /\ 0 \in Nat
      BY <2>1
    <3> QED BY <2>1, <2>2, <3>1, Zenon
  <2> QED BY <2>2, <2>3, Zenon
<1>2. ASSUME NEW s \in Seq(HostInfoType), NEW x \in HostInfoType, s \in A
      PROVE  Append(s, x) \in A
  <2> DEFINE body == SerializeHostInfo(x)
             more == MessageField(3, body)
             all == HostFields(s)
  <2>1. /\ body \in Seq(Bytes) /\ Len(body) < LongRange /\ 3 \in 1 .. 15
        /\ ByteSizeHostInfo(x) = Len(body)
    BY HostInfoFits
  <2>2. /\ more \in Seq(Bytes) /\ Len(more) = MessageFieldSize(ByteSizeHostInfo(x))
        /\ MessageFieldSize(ByteSizeHostInfo(x)) \in Nat
    <3> HIDE DEF body
    <3> QED BY <2>1, BodyType
  <2>3. /\ HostFields(Append(s, x)) = all \o more
        /\ HostFieldsSize(Append(s, x))
             = HostFieldsSize(s) + MessageFieldSize(ByteSizeHostInfo(x))
    BY HostFieldsAre
  <2>4. all \in Seq(Bytes) /\ Len(all) = HostFieldsSize(s) /\ HostFieldsSize(s) \in Nat
    BY <1>2
  <2>5. Append(s, x) \in Seq(HostInfoType)
    OBVIOUS
  <2> HIDE DEF more, all
  <2>6. all \o more \in Seq(Bytes) /\ Len(all \o more) = Len(all) + Len(more)
    BY <2>2, <2>4
  <2>7. /\ HostFields(Append(s, x)) \in Seq(Bytes)
        /\ Len(HostFields(Append(s, x))) = HostFieldsSize(Append(s, x))
        /\ HostFieldsSize(Append(s, x)) \in Nat
    BY <2>2, <2>3, <2>4, <2>6
  <2> HIDE DEF body
  <2> QED BY <2>5, <2>7
<1>3. Seq(HostInfoType) \subseteq A
  <2> HIDE DEF A
  <2> QED BY <1>1, <1>2, AppendInduction
<1> QED BY <1>3

ResultFieldsFold == INSTANCE Folding WITH
    Op <- LAMBDA bytes, result : bytes \o MessageField(5, SerializeHostCallResult(result))
ResultFieldsSizeFold == INSTANCE Folding WITH
    Op <- LAMBDA size, result : size + MessageFieldSize(ByteSizeHostCallResult(result))

(* The fields of a list of results, one result after the other.            *)
LEMMA ResultFieldsAre ==
    /\ ResultFields(<<>>) = <<>> /\ ResultFieldsSize(<<>>) = 0
    /\ \A s \in Seq(HostCallResultType), x \in HostCallResultType :
        /\ ResultFields(Append(s, x)) = ResultFields(s)
             \o MessageField(5, SerializeHostCallResult(x))
        /\ ResultFieldsSize(Append(s, x))
             = ResultFieldsSize(s) + MessageFieldSize(ByteSizeHostCallResult(x))
<1>1. \A s : ResultFields(s) = ResultFieldsFold!FromLeft(<<>>, s)
  BY DEF ResultFields, ResultFieldsFold!FromLeft, FoldLeft, MapThenFoldSet, Max,
         ResultFieldsFold!Largest
<1>2. \A s : ResultFieldsSize(s) = ResultFieldsSizeFold!FromLeft(0, s)
  BY DEF ResultFieldsSize, ResultFieldsSizeFold!FromLeft, FoldLeft, MapThenFoldSet, Max,
         ResultFieldsSizeFold!Largest
<1>3. ResultFields(<<>>) = <<>> /\ ResultFieldsSize(<<>>) = 0
  BY <1>1, <1>2, ResultFieldsFold!LeftEmpty, ResultFieldsSizeFold!LeftEmpty
<1>4. ASSUME NEW s \in Seq(HostCallResultType), NEW x \in HostCallResultType
      PROVE  /\ ResultFields(Append(s, x)) = ResultFields(s)
                  \o MessageField(5, SerializeHostCallResult(x))
             /\ ResultFieldsSize(Append(s, x))
                  = ResultFieldsSize(s) + MessageFieldSize(ByteSizeHostCallResult(x))
  <2>1. ResultFieldsFold!FromLeft(<<>>, Append(s, x)) =
            ResultFieldsFold!FromLeft(<<>>, s) \o MessageField(5, SerializeHostCallResult(x))
    BY ResultFieldsFold!LeftAppend
  <2>2. ResultFieldsSizeFold!FromLeft(0, Append(s, x)) =
            ResultFieldsSizeFold!FromLeft(0, s) + MessageFieldSize(ByteSizeHostCallResult(x))
    BY ResultFieldsSizeFold!LeftAppend
  <2>3. ResultFields(Append(s, x)) = ResultFields(s)
            \o MessageField(5, SerializeHostCallResult(x))
    BY <1>1, <2>1
  <2>4. ResultFieldsSize(Append(s, x))
            = ResultFieldsSize(s) + MessageFieldSize(ByteSizeHostCallResult(x))
    BY <1>2, <2>2
  <2> QED BY <2>3, <2>4
<1> QED BY <1>3, <1>4

(* The fields of a list take the bytes that are counted.                   *)
LEMMA ResultFieldsType ==
    \A s \in Seq(HostCallResultType) :
        /\ ResultFields(s) \in Seq(Bytes)
        /\ Len(ResultFields(s)) = ResultFieldsSize(s)
        /\ ResultFieldsSize(s) \in Nat
<1> DEFINE A == {s \in Seq(HostCallResultType) : /\ ResultFields(s) \in Seq(Bytes)
                                        /\ Len(ResultFields(s)) = ResultFieldsSize(s)
                                        /\ ResultFieldsSize(s) \in Nat}
<1>1. <<>> \in A
  <2>1. ResultFields(<<>>) = <<>> /\ ResultFieldsSize(<<>>) = 0
    BY ResultFieldsAre
  <2>2. <<>> \in Seq(HostCallResultType) /\ <<>> \in Seq(Bytes) /\ Len(<<>>) = 0
    OBVIOUS
  <2>3. /\ ResultFields(<<>>) \in Seq(Bytes)
        /\ Len(ResultFields(<<>>)) = ResultFieldsSize(<<>>)
        /\ ResultFieldsSize(<<>>) \in Nat
    <3> HIDE DEF A
    <3>1. Len(ResultFields(<<>>)) = Len(<<>>) /\ 0 \in Nat
      BY <2>1
    <3> QED BY <2>1, <2>2, <3>1, Zenon
  <2> QED BY <2>2, <2>3, Zenon
<1>2. ASSUME NEW s \in Seq(HostCallResultType), NEW x \in HostCallResultType, s \in A
      PROVE  Append(s, x) \in A
  <2> DEFINE body == SerializeHostCallResult(x)
             more == MessageField(5, body)
             all == ResultFields(s)
  <2>1. /\ body \in Seq(Bytes) /\ Len(body) < LongRange /\ 5 \in 1 .. 15
        /\ ByteSizeHostCallResult(x) = Len(body)
    BY HostCallResultFits
  <2>2. /\ more \in Seq(Bytes) /\ Len(more) = MessageFieldSize(ByteSizeHostCallResult(x))
        /\ MessageFieldSize(ByteSizeHostCallResult(x)) \in Nat
    <3> HIDE DEF body
    <3> QED BY <2>1, BodyType
  <2>3. /\ ResultFields(Append(s, x)) = all \o more
        /\ ResultFieldsSize(Append(s, x))
             = ResultFieldsSize(s) + MessageFieldSize(ByteSizeHostCallResult(x))
    BY ResultFieldsAre
  <2>4. all \in Seq(Bytes) /\ Len(all) = ResultFieldsSize(s) /\ ResultFieldsSize(s) \in Nat
    BY <1>2
  <2>5. Append(s, x) \in Seq(HostCallResultType)
    OBVIOUS
  <2> HIDE DEF more, all
  <2>6. all \o more \in Seq(Bytes) /\ Len(all \o more) = Len(all) + Len(more)
    BY <2>2, <2>4
  <2>7. /\ ResultFields(Append(s, x)) \in Seq(Bytes)
        /\ Len(ResultFields(Append(s, x))) = ResultFieldsSize(Append(s, x))
        /\ ResultFieldsSize(Append(s, x)) \in Nat
    BY <2>2, <2>3, <2>4, <2>6
  <2> HIDE DEF body
  <2> QED BY <2>5, <2>7
<1>3. Seq(HostCallResultType) \subseteq A
  <2> HIDE DEF A
  <2> QED BY <1>1, <1>2, AppendInduction
<1> QED BY <1>3

----------------------------------------------------------------------------
GetRouteResponseFold == INSTANCE Folding WITH Op <- GetRouteResponseField

GetRouteResponseNext(m, number, n) ==
    IF n = 0 THEN m ELSE GetRouteResponseField(m, NumberRead(number, n))

(* Reading a route response takes field after field.                       *)
LEMMA GetRouteResponseTakes ==
    /\ \A m : ParseGetRouteResponse(m, <<>>) = m
    /\ \A m : \A number \in 1 .. 15, n \in Longs64, rest \in Seq(Bytes) :
            ParseGetRouteResponse(m, UInt32Field(number, n) \o rest) =
                ParseGetRouteResponse(GetRouteResponseNext(m, number, n), rest)
    /\ \A m : \A number \in 1 .. 15, body \in Seq(Bytes), rest \in Seq(Bytes) :
            Len(body) < LongRange =>
                ParseGetRouteResponse(m, MessageField(number, body) \o rest) =
                    ParseGetRouteResponse(GetRouteResponseField(m, MessageRead(number, body)),
                        rest)
<1>1. \A m, bytes : ParseGetRouteResponse(m, bytes) = GetRouteResponseFold!FromLeft(m,
          Fields[bytes])
  BY DEF ParseGetRouteResponse, GetRouteResponseFold!FromLeft, FoldLeft, MapThenFoldSet, Max,
         GetRouteResponseFold!Largest
<1>2. \A m : ParseGetRouteResponse(m, <<>>) = m
  BY <1>1, NoFields, GetRouteResponseFold!LeftEmpty
<1>3. ASSUME NEW m, NEW f \in FieldType, NEW bytes, NEW rest \in Seq(Bytes),
             FirstIs(bytes, f, rest)
      PROVE  ParseGetRouteResponse(m, bytes) = ParseGetRouteResponse(GetRouteResponseField(m,
                 f), rest)
  <2>1. Fields[rest] \in Seq(FieldType)
    BY FieldsType
  <2>2. GetRouteResponseFold!FromLeft(m, <<f>> \o Fields[rest]) =
            GetRouteResponseFold!FromLeft(GetRouteResponseField(m, f), Fields[rest])
    BY <2>1, GetRouteResponseFold!LeftCons
  <2> QED BY <1>1, <1>3, <2>2 DEF FirstIs
<1>4. ASSUME NEW m, NEW number \in 1 .. 15, NEW n \in Longs64, NEW rest \in Seq(Bytes)
      PROVE  ParseGetRouteResponse(m, UInt32Field(number, n) \o rest) =
                ParseGetRouteResponse(GetRouteResponseNext(m, number, n), rest)
  <2>1. CASE n = 0
    BY <2>1, NumberThenRest DEF GetRouteResponseNext
  <2>2. CASE n # 0
    <3>1. FirstIs(UInt32Field(number, n) \o rest, NumberRead(number, n), rest)
      BY <2>2, NumberThenRest DEF FirstIs
    <3>2. NumberRead(number, n) \in FieldType
      BY ReadType
    <3> QED BY <1>3, <2>2, <3>1, <3>2 DEF GetRouteResponseNext
  <2> QED BY <2>1, <2>2
<1>5. ASSUME NEW m, NEW number \in 1 .. 15, NEW body \in Seq(Bytes),
             NEW rest \in Seq(Bytes), Len(body) < LongRange
      PROVE  ParseGetRouteResponse(m, MessageField(number, body) \o rest) =
                ParseGetRouteResponse(GetRouteResponseField(m, MessageRead(number, body)), rest)
  <2>1. FirstIs(MessageField(number, body) \o rest, MessageRead(number, body), rest)
    BY <1>5, MessageThenRest DEF FirstIs
  <2>2. MessageRead(number, body) \in FieldType
    BY <1>5, ReadType
  <2> DEFINE f == MessageRead(number, body)
             bytes == MessageField(number, body) \o rest
  <2> HIDE DEF f, bytes
  <2>3. ParseGetRouteResponse(m, bytes) = ParseGetRouteResponse(GetRouteResponseField(m, f),
            rest)
    BY <1>3, <2>1, <2>2 DEF f, bytes
  <2> QED BY <2>3 DEF f, bytes
<1> QED BY <1>2, <1>4, <1>5

GetRouteResponseWith(modid, cmdid, host) ==
    [modid |-> modid, cmdid |-> cmdid, host |-> host, unknown |-> <<>>]

(* What each field of a route response does.                               *)
LEMMA GetRouteResponseFields ==
    \A modid, cmdid, host : \A rest \in Seq(Bytes) :
        /\ \A n \in Words : ParseGetRouteResponse(GetRouteResponseWith(modid, cmdid, host),
             UInt32Field(1, n) \o rest) =
                ParseGetRouteResponse(GetRouteResponseWith(Latest(modid, n), cmdid, host), rest)
        /\ \A n \in Words : ParseGetRouteResponse(GetRouteResponseWith(modid, cmdid, host),
             UInt32Field(2, n) \o rest) =
                ParseGetRouteResponse(GetRouteResponseWith(modid, Latest(cmdid, n), host), rest)
        /\ \A x \in HostInfoType :
                ParseGetRouteResponse(GetRouteResponseWith(modid, cmdid, host),
                    MessageField(3, SerializeHostInfo(x)) \o rest) =
                    ParseGetRouteResponse(GetRouteResponseWith(modid, cmdid, Append(host, x)),
                        rest)
<1> TAKE modid, cmdid, host
<1> TAKE rest \in Seq(Bytes)
<1> DEFINE m == GetRouteResponseWith(modid, cmdid, host)
<1>1. ASSUME NEW n \in Words
      PROVE  ParseGetRouteResponse(m, UInt32Field(1, n) \o rest) =
                ParseGetRouteResponse(GetRouteResponseWith(Latest(modid, n), cmdid, host), rest)
  <2>1. GetRouteResponseNext(m, 1, n) =
            GetRouteResponseWith(Latest(modid, n), cmdid, host)
    BY WordsAreRead
       DEF GetRouteResponseNext, GetRouteResponseField, NumberRead, VarintTag, UInt32Of,
           Latest, GetRouteResponseWith
  <2>2. n \in Longs64 /\ 1 \in 1 .. 15
    BY WordsAreRead
  <2> HIDE DEF m
  <2>3. ParseGetRouteResponse(m, UInt32Field(1, n) \o rest)
            = ParseGetRouteResponse(GetRouteResponseNext(m, 1, n), rest)
    BY <2>2, GetRouteResponseTakes, Zenon
  <2> QED BY <2>1, <2>3
<1>2. ASSUME NEW n \in Words
      PROVE  ParseGetRouteResponse(m, UInt32Field(2, n) \o rest) =
                ParseGetRouteResponse(GetRouteResponseWith(modid, Latest(cmdid, n), host), rest)
  <2>1. GetRouteResponseNext(m, 2, n) =
            GetRouteResponseWith(modid, Latest(cmdid, n), host)
    BY WordsAreRead
       DEF GetRouteResponseNext, GetRouteResponseField, NumberRead, VarintTag, UInt32Of,
           Latest, GetRouteResponseWith
  <2>2. n \in Longs64 /\ 2 \in 1 .. 15
    BY WordsAreRead
  <2> HIDE DEF m
  <2>3. ParseGetRouteResponse(m, UInt32Field(2, n) \o rest)
            = ParseGetRouteResponse(GetRouteResponseNext(m, 2, n), rest)
    BY <2>2, GetRouteResponseTakes, Zenon
  <2> QED BY <2>1, <2>3
<1>3. ASSUME NEW x \in HostInfoType
      PROVE  ParseGetRouteResponse(m, MessageField(3, SerializeHostInfo(x)) \o rest) =
                ParseGetRouteResponse(GetRouteResponseWith(modid, cmdid, Append(host, x)), rest)
  <2> DEFINE body == SerializeHostInfo(x)
  <2>1. body \in Seq(Bytes) /\ Len(body) < LongRange /\ 3 \in 1 .. 15
    BY HostInfoFits
  <2>2. ParseHostInfo(ClearHostInfo, body) = x
    BY HostInfoFits
  <2> HIDE DEF body
  <2>3. GetRouteResponseField(m, MessageRead(3, body)) = GetRouteResponseWith(modid, cmdid,
            Append(host, x))
    <3> DEFINE f == MessageRead(3, body)
    <3>1. f.tag = 26 /\ f.body = body
      BY DEF MessageRead, LengthTag
    <3> HIDE DEF f
    <3>2. GetRouteResponseField(m, f) = [m EXCEPT !.host = Append(@, x)]
      <4> HIDE DEF m
      <4> QED BY <2>2, <3>1 DEF GetRouteResponseField
    <3> DEFINE more == Append(host, x)
    <3>3. Append(m.host, x) = more
      BY DEF GetRouteResponseWith
    <3> HIDE DEF more
    <3>4. [m EXCEPT !.host = more] = GetRouteResponseWith(modid, cmdid, more)
      BY DEF GetRouteResponseWith
    <3> HIDE DEF m
    <3> QED BY <3>2, <3>3, <3>4 DEF f, more
  <2> HIDE DEF m
  <2>4. ParseGetRouteResponse(m, MessageField(3, body) \o rest) =
            ParseGetRouteResponse(GetRouteResponseField(m, MessageRead(3, body)), rest)
    BY <2>1, GetRouteResponseTakes
  <2> QED BY <2>3, <2>4 DEF body
<1> QED BY <1>1, <1>2, <1>3

(* Reading the fields of a list adds its elements.                         *)
LEMMA GetRouteResponseListIsRead ==
    \A s \in Seq(HostInfoType), host \in Seq(HostInfoType), rest \in Seq(Bytes) : \A modid,
        cmdid :
        ParseGetRouteResponse(GetRouteResponseWith(modid, cmdid, host), HostFields(s) \o rest)
            = ParseGetRouteResponse(GetRouteResponseWith(modid, cmdid, host \o s), rest)
<1> SUFFICES ASSUME NEW host \in Seq(HostInfoType), NEW modid, NEW cmdid
             PROVE  \A s \in Seq(HostInfoType), rest \in Seq(Bytes) :
                        ParseGetRouteResponse(GetRouteResponseWith(modid, cmdid, host),
                            HostFields(s) \o rest)
                            = ParseGetRouteResponse(GetRouteResponseWith(modid, cmdid, host
                            \o s), rest)
  OBVIOUS
<1> DEFINE A == {s \in Seq(HostInfoType) : \A rest \in Seq(Bytes) :
                    ParseGetRouteResponse(GetRouteResponseWith(modid, cmdid, host),
                        HostFields(s) \o rest)
                        = ParseGetRouteResponse(GetRouteResponseWith(modid, cmdid, host \o s),
                        rest)}
<1>1. <<>> \in A
  <2>1. ASSUME NEW rest \in Seq(Bytes)
        PROVE  ParseGetRouteResponse(GetRouteResponseWith(modid, cmdid, host), HostFields(<<>>)
                   \o rest) = ParseGetRouteResponse(GetRouteResponseWith(modid, cmdid, host
                   \o <<>>), rest)
    <3>1. HostFields(<<>>) \o rest = rest /\ host \o <<>> = host
      BY HostFieldsAre, Nothing
    <3> QED BY <3>1
  <2> QED BY <2>1
<1>2. ASSUME NEW s \in Seq(HostInfoType), NEW x \in HostInfoType, s \in A
      PROVE  Append(s, x) \in A
  <2>1. ASSUME NEW rest \in Seq(Bytes)
        PROVE  ParseGetRouteResponse(GetRouteResponseWith(modid, cmdid, host),
                   HostFields(Append(s, x)) \o rest) =
                   ParseGetRouteResponse(GetRouteResponseWith(modid, cmdid, host
                       \o Append(s, x)), rest)
    <3> DEFINE more == MessageField(3, SerializeHostInfo(x))
               all == HostFields(s)
    <3>1. HostFields(Append(s, x)) = all \o more
      BY HostFieldsAre
    <3>2. more \in Seq(Bytes)
      BY HostInfoFits, BodyType
    <3>3. all \in Seq(Bytes)
      BY HostFieldsType
    <3>4. all \o more \o rest = all \o (more \o rest)
      <4> HIDE DEF more, all
      <4> QED BY <3>2, <3>3, Assoc
    <3>5. ParseGetRouteResponse(GetRouteResponseWith(modid, cmdid, host), all
              \o (more \o rest)) = ParseGetRouteResponse(GetRouteResponseWith(modid, cmdid,
              host \o s), more \o rest)
      <4> HIDE DEF more
      <4>1. more \o rest \in Seq(Bytes)
        BY <3>2
      <4> QED BY <1>2, <4>1, Zenon
    <3>6. \A list : ParseGetRouteResponse(GetRouteResponseWith(modid, cmdid, list), more
              \o rest) = ParseGetRouteResponse(GetRouteResponseWith(modid, cmdid,
              Append(list, x)), rest)
      BY GetRouteResponseFields
    <3>7. Append(host \o s, x) = host \o Append(s, x)
      OBVIOUS
    <3> HIDE DEF more, all
    <3>8. ParseGetRouteResponse(GetRouteResponseWith(modid, cmdid, host \o s), more \o rest)
              = ParseGetRouteResponse(GetRouteResponseWith(modid, cmdid, host \o Append(s, x)),
              rest)
      BY <3>6, <3>7
    <3> QED BY <3>1, <3>4, <3>5, <3>8
  <2>2. Append(s, x) \in Seq(HostInfoType)
    OBVIOUS
  <2> QED BY <2>1, <2>2
<1>3. Seq(HostInfoType) \subseteq A
  <2> HIDE DEF A
  <2> QED BY <1>1, <1>2, AppendInduction
<1> QED BY <1>3

(* A route response takes the bytes that are counted, and to read them is to merge.*)
LEMMA GetRouteResponseIsRead ==
    ASSUME NEW m \in GetRouteResponseType, NEW x \in GetRouteResponseType
    PROVE  /\ SerializeGetRouteResponse(x) \in Seq(Bytes)
           /\ Len(SerializeGetRouteResponse(x)) = ByteSizeGetRouteResponse(x)
           /\ ParseGetRouteResponse(m, SerializeGetRouteResponse(x)) = MergeGetRouteResponse(m,
                x)
<1> DEFINE a == UInt32Field(1, x.modid)
           b == UInt32Field(2, x.cmdid)
           c == HostFields(x.host)
<1>1. /\ x.modid \in Words
      /\ x.cmdid \in Words
      /\ x.host \in Seq(HostInfoType)
      /\ x.unknown = <<>> /\ m.unknown = <<>>
      /\ m.host \in Seq(HostInfoType)
      /\ m = GetRouteResponseWith(m.modid, m.cmdid, m.host)
  BY DEF GetRouteResponseType, GetRouteResponseWith
<1>2. /\ a \in Seq(Bytes) /\ Len(a) = UInt32FieldSize(x.modid)
      /\ b \in Seq(Bytes) /\ Len(b) = UInt32FieldSize(x.cmdid)
      /\ c \in Seq(Bytes) /\ Len(c) = HostFieldsSize(x.host)
      /\ UInt32FieldSize(x.modid) \in Nat
      /\ UInt32FieldSize(x.cmdid) \in Nat
      /\ HostFieldsSize(x.host) \in Nat
  <2>1. a \in Seq(Bytes) /\ Len(a) = UInt32FieldSize(x.modid)
        /\ UInt32FieldSize(x.modid) \in Nat
    <3>1. x.modid \in Words
      BY <1>1
    <3> QED BY <3>1, WordFields
  <2>2. b \in Seq(Bytes) /\ Len(b) = UInt32FieldSize(x.cmdid)
        /\ UInt32FieldSize(x.cmdid) \in Nat
    <3>1. x.cmdid \in Words
      BY <1>1
    <3> QED BY <3>1, WordFields
  <2>3. c \in Seq(Bytes) /\ Len(c) = HostFieldsSize(x.host)
        /\ HostFieldsSize(x.host) \in Nat
    BY <1>1, HostFieldsType
  <2> QED BY <2>1, <2>2, <2>3
<1>3. SerializeGetRouteResponse(x) = a \o (b \o (c \o <<>>))
  <2> HIDE DEF a, b, c
  <2>1. SerializeGetRouteResponse(x) = a \o b \o c \o <<>>
    BY <1>1 DEF SerializeGetRouteResponse, a, b, c
  <2>2. Chained3(a, b, c)
    BY <1>2, Chain3
  <2> QED BY <2>1, <2>2 DEF Chained3
<1>4. Len(a \o (b \o (c \o <<>>))) = Len(a) + Len(b) + Len(c)
      /\ a \o (b \o (c \o <<>>)) \in Seq(Bytes)
      /\ b \o (c \o <<>>) \in Seq(Bytes)
      /\ c \o <<>> \in Seq(Bytes)
  <2> HIDE DEF a, b, c
  <2>1. a \in Seq(Bytes) /\ b \in Seq(Bytes) /\ c \in Seq(Bytes)
    BY <1>2
  <2>2. Chained3(a, b, c)
    BY <2>1, Chain3
  <2> QED BY <2>2 DEF Chained3
<1>5. ParseGetRouteResponse(GetRouteResponseWith(m.modid, m.cmdid, m.host), a
          \o (b \o (c \o <<>>))) =
        ParseGetRouteResponse(GetRouteResponseWith(Latest(m.modid, x.modid), m.cmdid, m.host),
            b \o (c \o <<>>))
  <2>1. b \o (c \o <<>>) \in Seq(Bytes)
    BY <1>4, NoBytes
  <2>2. \A rest \in Seq(Bytes) : ParseGetRouteResponse(GetRouteResponseWith(m.modid, m.cmdid,
            m.host), a \o rest) =
            ParseGetRouteResponse(GetRouteResponseWith(Latest(m.modid, x.modid), m.cmdid,
                m.host), rest)
    BY <1>1, GetRouteResponseFields
  <2> HIDE DEF a, b, c
  <2> QED BY <2>1, <2>2, Zenon
<1>6. ParseGetRouteResponse(GetRouteResponseWith(Latest(m.modid, x.modid), m.cmdid, m.host), b
          \o (c \o <<>>)) =
        ParseGetRouteResponse(GetRouteResponseWith(Latest(m.modid, x.modid),
            Latest(m.cmdid, x.cmdid), m.host), c \o <<>>)
  <2>1. c \o <<>> \in Seq(Bytes)
    BY <1>4, NoBytes
  <2>2. \A rest \in Seq(Bytes) :
            ParseGetRouteResponse(GetRouteResponseWith(Latest(m.modid, x.modid), m.cmdid,
            m.host), b \o rest) =
            ParseGetRouteResponse(GetRouteResponseWith(Latest(m.modid, x.modid),
                Latest(m.cmdid, x.cmdid), m.host), rest)
    BY <1>1, GetRouteResponseFields
  <2> HIDE DEF a, b, c
  <2> QED BY <2>1, <2>2, Zenon
<1>7. ParseGetRouteResponse(GetRouteResponseWith(Latest(m.modid, x.modid),
          Latest(m.cmdid, x.cmdid), m.host), c \o <<>>) =
        ParseGetRouteResponse(GetRouteResponseWith(Latest(m.modid, x.modid),
            Latest(m.cmdid, x.cmdid), m.host \o x.host), <<>>)
  <2>1. <<>> \in Seq(Bytes)
    BY <1>4, NoBytes
  <2>2. \A rest \in Seq(Bytes) :
            ParseGetRouteResponse(GetRouteResponseWith(Latest(m.modid, x.modid),
            Latest(m.cmdid, x.cmdid), m.host), c \o rest) =
            ParseGetRouteResponse(GetRouteResponseWith(Latest(m.modid, x.modid),
                Latest(m.cmdid, x.cmdid), m.host \o x.host), rest)
    BY <1>1, GetRouteResponseListIsRead
  <2> HIDE DEF a, b, c
  <2> QED BY <2>1, <2>2, Zenon
<1>8. ParseGetRouteResponse(m, SerializeGetRouteResponse(x))
          = GetRouteResponseWith(Latest(m.modid, x.modid), Latest(m.cmdid, x.cmdid), m.host
          \o x.host)
  <2> HIDE DEF a, b, c
  <2> QED BY <1>1, <1>3, <1>5, <1>6, <1>7, GetRouteResponseTakes
<1>9. MergeGetRouteResponse(m, x) = GetRouteResponseWith(Latest(m.modid, x.modid),
          Latest(m.cmdid, x.cmdid), m.host \o x.host)
  BY <1>1, Nothing DEF MergeGetRouteResponse, GetRouteResponseWith
<1>10. ByteSizeGetRouteResponse(x)
           = UInt32FieldSize(x.modid) + UInt32FieldSize(x.cmdid) + HostFieldsSize(x.host)
  <2>1. UInt32FieldSize(x.modid) \in Nat /\ UInt32FieldSize(x.cmdid) \in Nat
            /\ HostFieldsSize(x.host) \in Nat
    BY <1>2
  <2>2. Len(x.unknown) = 0
    BY <1>1
  <2> QED BY <2>1, <2>2 DEF ByteSizeGetRouteResponse
<1>11. Len(SerializeGetRouteResponse(x)) = ByteSizeGetRouteResponse(x)
           /\ SerializeGetRouteResponse(x) \in Seq(Bytes)
  <2> HIDE DEF a, b, c
  <2> QED BY <1>2, <1>3, <1>4, <1>10
<1> QED BY <1>8, <1>9, <1>11

ReportStatusRequestFold == INSTANCE Folding WITH Op <- ReportStatusRequestField

ReportStatusRequestNext(m, number, n) ==
    IF n = 0 THEN m ELSE ReportStatusRequestField(m, NumberRead(number, n))

(* Reading a status report takes field after field.                        *)
LEMMA ReportStatusRequestTakes ==
    /\ \A m : ParseReportStatusRequest(m, <<>>) = m
    /\ \A m : \A number \in 1 .. 15, n \in Longs64, rest \in Seq(Bytes) :
            ParseReportStatusRequest(m, UInt32Field(number, n) \o rest) =
                ParseReportStatusRequest(ReportStatusRequestNext(m, number, n), rest)
    /\ \A m : \A number \in 1 .. 15, body \in Seq(Bytes), rest \in Seq(Bytes) :
            Len(body) < LongRange =>
                ParseReportStatusRequest(m, MessageField(number, body) \o rest) =
                    ParseReportStatusRequest(ReportStatusRequestField(m,
                        MessageRead(number, body)), rest)
<1>1. \A m, bytes : ParseReportStatusRequest(m, bytes) = ReportStatusRequestFold!FromLeft(m,
          Fields[bytes])
  BY DEF ParseReportStatusRequest, ReportStatusRequestFold!FromLeft, FoldLeft, MapThenFoldSet,
         Max,
         ReportStatusRequestFold!Largest
<1>2. \A m : ParseReportStatusRequest(m, <<>>) = m
  BY <1>1, NoFields, ReportStatusRequestFold!LeftEmpty
<1>3. ASSUME NEW m, NEW f \in FieldType, NEW bytes, NEW rest \in Seq(Bytes),
             FirstIs(bytes, f, rest)
      PROVE  ParseReportStatusRequest(m, bytes)
                 = ParseReportStatusRequest(ReportStatusRequestField(m, f), rest)
  <2>1. Fields[rest] \in Seq(FieldType)
    BY FieldsType
  <2>2. ReportStatusRequestFold!FromLeft(m, <<f>> \o Fields[rest]) =
            ReportStatusRequestFold!FromLeft(ReportStatusRequestField(m, f), Fields[rest])
    BY <2>1, ReportStatusRequestFold!LeftCons
  <2> QED BY <1>1, <1>3, <2>2 DEF FirstIs
<1>4. ASSUME NEW m, NEW number \in 1 .. 15, NEW n \in Longs64, NEW rest \in Seq(Bytes)
      PROVE  ParseReportStatusRequest(m, UInt32Field(number, n) \o rest) =
                ParseReportStatusRequest(ReportStatusRequestNext(m, number, n), rest)
  <2>1. CASE n = 0
    BY <2>1, NumberThenRest DEF ReportStatusRequestNext
  <2>2. CASE n # 0
    <3>1. FirstIs(UInt32Field(number, n) \o rest, NumberRead(number, n), rest)
      BY <2>2, NumberThenRest DEF FirstIs
    <3>2. NumberRead(number, n) \in FieldType
      BY ReadType
    <3> QED BY <1>3, <2>2, <3>1, <3>2 DEF ReportStatusRequestNext
  <2> QED BY <2>1, <2>2
<1>5. ASSUME NEW m, NEW number \in 1 .. 15, NEW body \in Seq(Bytes),
             NEW rest \in Seq(Bytes), Len(body) < LongRange
      PROVE  ParseReportStatusRequest(m, MessageField(number, body) \o rest) =
                ParseReportStatusRequest(ReportStatusRequestField(m,
                    MessageRead(number, body)), rest)
  <2>1. FirstIs(MessageField(number, body) \o rest, MessageRead(number, body), rest)
    BY <1>5, MessageThenRest DEF FirstIs
  <2>2. MessageRead(number, body) \in FieldType
    BY <1>5, ReadType
  <2> DEFINE f == MessageRead(number, body)
             bytes == MessageField(number, body) \o rest
  <2> HIDE DEF f, bytes
  <2>3. ParseReportStatusRequest(m, bytes)
            = ParseReportStatusRequest(ReportStatusRequestField(m, f), rest)
    BY <1>3, <2>1, <2>2 DEF f, bytes
  <2> QED BY <2>3 DEF f, bytes
<1> QED BY <1>2, <1>4, <1>5

ReportStatusRequestWith(modid, cmdid, caller, ts, results) ==
    [modid |-> modid, cmdid |-> cmdid, caller |-> caller, ts |-> ts, results |-> results,
        unknown |-> <<>>]

(* What each field of a status report does.                                *)
LEMMA ReportStatusRequestFields ==
    \A modid, cmdid, caller, ts, results : \A rest \in Seq(Bytes) :
        /\ \A n \in Words : ParseReportStatusRequest(ReportStatusRequestWith(modid, cmdid,
             caller, ts, results), UInt32Field(1, n) \o rest) =
                ParseReportStatusRequest(ReportStatusRequestWith(Latest(modid, n), cmdid,
                    caller, ts, results), rest)
        /\ \A n \in Words : ParseReportStatusRequest(ReportStatusRequestWith(modid, cmdid,
             caller, ts, results), UInt32Field(2, n) \o rest) =
                ParseReportStatusRequest(ReportStatusRequestWith(modid, Latest(cmdid, n),
                    caller, ts, results), rest)
        /\ \A n \in Words : ParseReportStatusRequest(ReportStatusRequestWith(modid, cmdid,
             caller, ts, results), UInt32Field(3, n) \o rest) =
                ParseReportStatusRequest(ReportStatusRequestWith(modid, cmdid,
                    Latest(caller, n), ts, results), rest)
        /\ \A n \in Longs : ParseReportStatusRequest(ReportStatusRequestWith(modid, cmdid,
             caller, ts, results), IntField(4, n) \o rest) =
                ParseReportStatusRequest(ReportStatusRequestWith(modid, cmdid, caller,
                    Latest(ts, n), results), rest)
        /\ \A x \in HostCallResultType :
                ParseReportStatusRequest(ReportStatusRequestWith(modid, cmdid, caller, ts,
                    results), MessageField(5, SerializeHostCallResult(x)) \o rest) =
                    ParseReportStatusRequest(ReportStatusRequestWith(modid, cmdid, caller, ts,
                        Append(results, x)), rest)
<1> TAKE modid, cmdid, caller, ts, results
<1> TAKE rest \in Seq(Bytes)
<1> DEFINE m == ReportStatusRequestWith(modid, cmdid, caller, ts, results)
<1>1. ASSUME NEW n \in Words
      PROVE  ParseReportStatusRequest(m, UInt32Field(1, n) \o rest) =
                ParseReportStatusRequest(ReportStatusRequestWith(Latest(modid, n), cmdid,
                    caller, ts, results), rest)
  <2>1. ReportStatusRequestNext(m, 1, n) =
            ReportStatusRequestWith(Latest(modid, n), cmdid, caller, ts, results)
    BY WordsAreRead
       DEF ReportStatusRequestNext, ReportStatusRequestField, NumberRead, VarintTag, UInt32Of,
           Latest, ReportStatusRequestWith
  <2>2. n \in Longs64 /\ 1 \in 1 .. 15
    BY WordsAreRead
  <2> HIDE DEF m
  <2>3. ParseReportStatusRequest(m, UInt32Field(1, n) \o rest)
            = ParseReportStatusRequest(ReportStatusRequestNext(m, 1, n), rest)
    BY <2>2, ReportStatusRequestTakes, Zenon
  <2> QED BY <2>1, <2>3
<1>2. ASSUME NEW n \in Words
      PROVE  ParseReportStatusRequest(m, UInt32Field(2, n) \o rest) =
                ParseReportStatusRequest(ReportStatusRequestWith(modid, Latest(cmdid, n),
                    caller, ts, results), rest)
  <2>1. ReportStatusRequestNext(m, 2, n) =
            ReportStatusRequestWith(modid, Latest(cmdid, n), caller, ts, results)
    BY WordsAreRead
       DEF ReportStatusRequestNext, ReportStatusRequestField, NumberRead, VarintTag, UInt32Of,
           Latest, ReportStatusRequestWith
  <2>2. n \in Longs64 /\ 2 \in 1 .. 15
    BY WordsAreRead
  <2> HIDE DEF m
  <2>3. ParseReportStatusRequest(m, UInt32Field(2, n) \o rest)
            = ParseReportStatusRequest(ReportStatusRequestNext(m, 2, n), rest)
    BY <2>2, ReportStatusRequestTakes, Zenon
  <2> QED BY <2>1, <2>3
<1>3. ASSUME NEW n \in Words
      PROVE  ParseReportStatusRequest(m, UInt32Field(3, n) \o rest) =
                ParseReportStatusRequest(ReportStatusRequestWith(modid, cmdid,
                    Latest(caller, n), ts, results), rest)
  <2>1. ReportStatusRequestNext(m, 3, n) =
            ReportStatusRequestWith(modid, cmdid, Latest(caller, n), ts, results)
    BY WordsAreRead
       DEF ReportStatusRequestNext, ReportStatusRequestField, NumberRead, VarintTag, UInt32Of,
           Latest, ReportStatusRequestWith
  <2>2. n \in Longs64 /\ 3 \in 1 .. 15
    BY WordsAreRead
  <2> HIDE DEF m
  <2>3. ParseReportStatusRequest(m, UInt32Field(3, n) \o rest)
            = ParseReportStatusRequest(ReportStatusRequestNext(m, 3, n), rest)
    BY <2>2, ReportStatusRequestTakes, Zenon
  <2> QED BY <2>1, <2>3
<1>4. ASSUME NEW n \in Longs
      PROVE  ParseReportStatusRequest(m, IntField(4, n) \o rest) =
                ParseReportStatusRequest(ReportStatusRequestWith(modid, cmdid, caller,
                    Latest(ts, n), results), rest)
  <2> DEFINE k == Unsigned(n, LongRange)
  <2>1. Int64Of(NumberRead(4, k)) = n /\ k \in Longs64 /\ (k = 0 <=> n = 0)
    BY LongsAreRead DEF Int64Of, NumberRead
  <2>2. IntField(4, n) = UInt32Field(4, k) /\ 4 \in 1 .. 15
    BY DEF IntField
  <2> HIDE DEF k
  <2>3. ReportStatusRequestNext(m, 4, k) =
            ReportStatusRequestWith(modid, cmdid, caller, Latest(ts, n), results)
    BY <2>1 DEF ReportStatusRequestNext, ReportStatusRequestField, NumberRead, VarintTag,
           Latest, ReportStatusRequestWith
  <2> HIDE DEF m
  <2>4. ParseReportStatusRequest(m, UInt32Field(4, k) \o rest)
            = ParseReportStatusRequest(ReportStatusRequestNext(m, 4, k), rest)
    BY <2>1, <2>2, ReportStatusRequestTakes, Zenon
  <2> QED BY <2>2, <2>3, <2>4
<1>5. ASSUME NEW x \in HostCallResultType
      PROVE  ParseReportStatusRequest(m, MessageField(5, SerializeHostCallResult(x)) \o rest) =
                ParseReportStatusRequest(ReportStatusRequestWith(modid, cmdid, caller, ts,
                    Append(results, x)), rest)
  <2> DEFINE body == SerializeHostCallResult(x)
  <2>1. body \in Seq(Bytes) /\ Len(body) < LongRange /\ 5 \in 1 .. 15
    BY HostCallResultFits
  <2>2. ParseHostCallResult(ClearHostCallResult, body) = x
    BY HostCallResultFits
  <2> HIDE DEF body
  <2>3. ReportStatusRequestField(m, MessageRead(5, body)) = ReportStatusRequestWith(modid,
            cmdid, caller, ts, Append(results, x))
    <3> DEFINE f == MessageRead(5, body)
    <3>1. f.tag = 42 /\ f.body = body
      BY DEF MessageRead, LengthTag
    <3> HIDE DEF f
    <3>2. ReportStatusRequestField(m, f) = [m EXCEPT !.results = Append(@, x)]
      <4> HIDE DEF m
      <4> QED BY <2>2, <3>1 DEF ReportStatusRequestField
    <3> DEFINE more == Append(results, x)
    <3>3. Append(m.results, x) = more
      BY DEF ReportStatusRequestWith
    <3> HIDE DEF more
    <3>4. [m EXCEPT !.results = more] = ReportStatusRequestWith(modid, cmdid, caller, ts, more)
      BY DEF ReportStatusRequestWith
    <3> HIDE DEF m
    <3> QED BY <3>2, <3>3, <3>4 DEF f, more
  <2> HIDE DEF m
  <2>4. ParseReportStatusRequest(m, MessageField(5, body) \o rest) =
            ParseReportStatusRequest(ReportStatusRequestField(m, MessageRead(5, body)), rest)
    BY <2>1, ReportStatusRequestTakes
  <2> QED BY <2>3, <2>4 DEF body
<1> QED BY <1>1, <1>2, <1>3, <1>4, <1>5

(* Reading the fields of a list adds its elements.                         *)
LEMMA ReportStatusRequestListIsRead ==
    \A s \in Seq(HostCallResultType), results \in Seq(HostCallResultType),
        rest \in Seq(Bytes) : \A modid, cmdid, caller, ts :
        ParseReportStatusRequest(ReportStatusRequestWith(modid, cmdid, caller, ts, results),
            ResultFields(s) \o rest) = ParseReportStatusRequest(ReportStatusRequestWith(modid,
            cmdid, caller, ts, results \o s), rest)
<1> SUFFICES ASSUME NEW results \in Seq(HostCallResultType), NEW modid, NEW cmdid, NEW caller,
                        NEW ts
             PROVE  \A s \in Seq(HostCallResultType), rest \in Seq(Bytes) :
                        ParseReportStatusRequest(ReportStatusRequestWith(modid, cmdid, caller,
                            ts, results), ResultFields(s) \o rest)
                            = ParseReportStatusRequest(ReportStatusRequestWith(modid, cmdid,
                            caller, ts, results \o s), rest)
  OBVIOUS
<1> DEFINE A == {s \in Seq(HostCallResultType) : \A rest \in Seq(Bytes) :
                    ParseReportStatusRequest(ReportStatusRequestWith(modid, cmdid, caller, ts,
                        results), ResultFields(s) \o rest)
                        = ParseReportStatusRequest(ReportStatusRequestWith(modid, cmdid,
                        caller, ts, results \o s), rest)}
<1>1. <<>> \in A
  <2>1. ASSUME NEW rest \in Seq(Bytes)
        PROVE  ParseReportStatusRequest(ReportStatusRequestWith(modid, cmdid, caller, ts,
                   results), ResultFields(<<>>) \o rest)
                   = ParseReportStatusRequest(ReportStatusRequestWith(modid, cmdid, caller, ts,
                   results \o <<>>), rest)
    <3>1. ResultFields(<<>>) \o rest = rest /\ results \o <<>> = results
      BY ResultFieldsAre, Nothing
    <3> QED BY <3>1
  <2> QED BY <2>1
<1>2. ASSUME NEW s \in Seq(HostCallResultType), NEW x \in HostCallResultType, s \in A
      PROVE  Append(s, x) \in A
  <2>1. ASSUME NEW rest \in Seq(Bytes)
        PROVE  ParseReportStatusRequest(ReportStatusRequestWith(modid, cmdid, caller, ts,
                   results), ResultFields(Append(s, x)) \o rest) =
                   ParseReportStatusRequest(ReportStatusRequestWith(modid, cmdid, caller, ts,
                       results \o Append(s, x)), rest)
    <3> DEFINE more == MessageField(5, SerializeHostCallResult(x))
               all == ResultFields(s)
    <3>1. ResultFields(Append(s, x)) = all \o more
      BY ResultFieldsAre
    <3>2. more \in Seq(Bytes)
      BY HostCallResultFits, BodyType
    <3>3. all \in Seq(Bytes)
      BY ResultFieldsType
    <3>4. all \o more \o rest = all \o (more \o rest)
      <4> HIDE DEF more, all
      <4> QED BY <3>2, <3>3, Assoc
    <3>5. ParseReportStatusRequest(ReportStatusRequestWith(modid, cmdid, caller, ts, results),
              all \o (more \o rest)) = ParseReportStatusRequest(ReportStatusRequestWith(modid,
              cmdid, caller, ts, results \o s), more \o rest)
      <4> HIDE DEF more
      <4>1. more \o rest \in Seq(Bytes)
        BY <3>2
      <4> QED BY <1>2, <4>1, Zenon
    <3>6. \A list : ParseReportStatusRequest(ReportStatusRequestWith(modid, cmdid, caller, ts,
              list), more \o rest) = ParseReportStatusRequest(ReportStatusRequestWith(modid,
              cmdid, caller, ts, Append(list, x)), rest)
      BY ReportStatusRequestFields
    <3>7. Append(results \o s, x) = results \o Append(s, x)
      OBVIOUS
    <3> HIDE DEF more, all
    <3>8. ParseReportStatusRequest(ReportStatusRequestWith(modid, cmdid, caller, ts, results
              \o s), more \o rest) = ParseReportStatusRequest(ReportStatusRequestWith(modid,
              cmdid, caller, ts, results \o Append(s, x)), rest)
      BY <3>6, <3>7
    <3> QED BY <3>1, <3>4, <3>5, <3>8
  <2>2. Append(s, x) \in Seq(HostCallResultType)
    OBVIOUS
  <2> QED BY <2>1, <2>2
<1>3. Seq(HostCallResultType) \subseteq A
  <2> HIDE DEF A
  <2> QED BY <1>1, <1>2, AppendInduction
<1> QED BY <1>3

(* A status report takes the bytes that are counted, and to read them is to merge.*)
LEMMA ReportStatusRequestIsRead ==
    ASSUME NEW m \in ReportStatusRequestType, NEW x \in ReportStatusRequestType
    PROVE  /\ SerializeReportStatusRequest(x) \in Seq(Bytes)
           /\ Len(SerializeReportStatusRequest(x)) = ByteSizeReportStatusRequest(x)
           /\ ParseReportStatusRequest(m, SerializeReportStatusRequest(x))
                = MergeReportStatusRequest(m, x)
<1> DEFINE a == UInt32Field(1, x.modid)
           b == UInt32Field(2, x.cmdid)
           c == UInt32Field(3, x.caller)
           d == IntField(4, x.ts)
           e == ResultFields(x.results)
<1>1. /\ x.modid \in Words
      /\ x.cmdid \in Words
      /\ x.caller \in Words
      /\ x.ts \in Longs
      /\ x.results \in Seq(HostCallResultType)
      /\ x.unknown = <<>> /\ m.unknown = <<>>
      /\ m.results \in Seq(HostCallResultType)
      /\ m = ReportStatusRequestWith(m.modid, m.cmdid, m.caller, m.ts, m.results)
  BY DEF ReportStatusRequestType, ReportStatusRequestWith
<1>2. /\ a \in Seq(Bytes) /\ Len(a) = UInt32FieldSize(x.modid)
      /\ b \in Seq(Bytes) /\ Len(b) = UInt32FieldSize(x.cmdid)
      /\ c \in Seq(Bytes) /\ Len(c) = UInt32FieldSize(x.caller)
      /\ d \in Seq(Bytes) /\ Len(d) = IntFieldSize(x.ts)
      /\ e \in Seq(Bytes) /\ Len(e) = ResultFieldsSize(x.results)
      /\ UInt32FieldSize(x.modid) \in Nat
      /\ UInt32FieldSize(x.cmdid) \in Nat
      /\ UInt32FieldSize(x.caller) \in Nat
      /\ IntFieldSize(x.ts) \in Nat
      /\ ResultFieldsSize(x.results) \in Nat
  <2>1. a \in Seq(Bytes) /\ Len(a) = UInt32FieldSize(x.modid)
        /\ UInt32FieldSize(x.modid) \in Nat
    <3>1. x.modid \in Words
      BY <1>1
    <3> QED BY <3>1, WordFields
  <2>2. b \in Seq(Bytes) /\ Len(b) = UInt32FieldSize(x.cmdid)
        /\ UInt32FieldSize(x.cmdid) \in Nat
    <3>1. x.cmdid \in Words
      BY <1>1
    <3> QED BY <3>1, WordFields
  <2>3. c \in Seq(Bytes) /\ Len(c) = UInt32FieldSize(x.caller)
        /\ UInt32FieldSize(x.caller) \in Nat
    <3>1. x.caller \in Words
      BY <1>1
    <3> QED BY <3>1, WordFields
  <2>4. d \in Seq(Bytes) /\ Len(d) = IntFieldSize(x.ts)
        /\ IntFieldSize(x.ts) \in Nat
    BY <1>1, LongField
  <2>5. e \in Seq(Bytes) /\ Len(e) = ResultFieldsSize(x.results)
        /\ ResultFieldsSize(x.results) \in Nat
    BY <1>1, ResultFieldsType
  <2> QED BY <2>1, <2>2, <2>3, <2>4, <2>5
<1>3. SerializeReportStatusRequest(x) = a \o (b \o (c \o (d \o (e \o <<>>))))
  <2> HIDE DEF a, b, c, d, e
  <2>1. SerializeReportStatusRequest(x) = a \o b \o c \o d \o e \o <<>>
    BY <1>1 DEF SerializeReportStatusRequest, a, b, c, d, e
  <2>2. a \in Seq(Bytes) /\ b \in Seq(Bytes) /\ c \in Seq(Bytes)
        /\ d \in Seq(Bytes) /\ e \in Seq(Bytes)
    BY <1>2
  <2>3. Flat5(a, b, c, d, e) = Nested5(a, b, c, d, e)
    BY <2>2, Chain5
  <2> QED BY <2>1, <2>3 DEF Flat5, Nested5
<1>4. Len(a \o (b \o (c \o (d \o (e \o <<>>))))) = Len(a) + Len(b) + Len(c) + Len(d) + Len(e)
      /\ a \o (b \o (c \o (d \o (e \o <<>>)))) \in Seq(Bytes)
      /\ b \o (c \o (d \o (e \o <<>>))) \in Seq(Bytes)
      /\ c \o (d \o (e \o <<>>)) \in Seq(Bytes)
      /\ d \o (e \o <<>>) \in Seq(Bytes)
      /\ e \o <<>> \in Seq(Bytes)
  <2> HIDE DEF a, b, c, d, e
  <2>1. a \in Seq(Bytes) /\ b \in Seq(Bytes) /\ c \in Seq(Bytes)
        /\ d \in Seq(Bytes) /\ e \in Seq(Bytes)
    BY <1>2
  <2>2. Len(Nested5(a, b, c, d, e)) = Len(a) + Len(b) + Len(c) + Len(d) + Len(e)
        /\ Nested5(a, b, c, d, e) \in Seq(Bytes)
    BY <2>1, Chain5
  <2>3. e \o <<>> \in Seq(Bytes)
    BY <2>1
  <2>4. d \o (e \o <<>>) \in Seq(Bytes)
    BY <2>1, <2>3
  <2>5. c \o (d \o (e \o <<>>)) \in Seq(Bytes)
    BY <2>1, <2>4
  <2>6. b \o (c \o (d \o (e \o <<>>))) \in Seq(Bytes)
    BY <2>1, <2>5
  <2> QED BY <2>2, <2>3, <2>4, <2>5, <2>6 DEF Nested5
<1>5. ParseReportStatusRequest(ReportStatusRequestWith(m.modid, m.cmdid, m.caller, m.ts,
          m.results), a \o (b \o (c \o (d \o (e \o <<>>))))) =
        ParseReportStatusRequest(ReportStatusRequestWith(Latest(m.modid, x.modid), m.cmdid,
            m.caller, m.ts, m.results), b \o (c \o (d \o (e \o <<>>))))
  <2>1. b \o (c \o (d \o (e \o <<>>))) \in Seq(Bytes)
    BY <1>4, NoBytes
  <2>2. \A rest \in Seq(Bytes) : ParseReportStatusRequest(ReportStatusRequestWith(m.modid,
            m.cmdid, m.caller, m.ts, m.results), a \o rest) =
            ParseReportStatusRequest(ReportStatusRequestWith(Latest(m.modid, x.modid), m.cmdid,
                m.caller, m.ts, m.results), rest)
    BY <1>1, ReportStatusRequestFields
  <2> HIDE DEF a, b, c, d, e
  <2> QED BY <2>1, <2>2, Zenon
<1>6. ParseReportStatusRequest(ReportStatusRequestWith(Latest(m.modid, x.modid), m.cmdid,
          m.caller, m.ts, m.results), b \o (c \o (d \o (e \o <<>>)))) =
        ParseReportStatusRequest(ReportStatusRequestWith(Latest(m.modid, x.modid),
            Latest(m.cmdid, x.cmdid), m.caller, m.ts, m.results), c \o (d \o (e \o <<>>)))
  <2>1. c \o (d \o (e \o <<>>)) \in Seq(Bytes)
    BY <1>4, NoBytes
  <2>2. \A rest \in Seq(Bytes) :
            ParseReportStatusRequest(ReportStatusRequestWith(Latest(m.modid, x.modid), m.cmdid,
            m.caller, m.ts, m.results), b \o rest) =
            ParseReportStatusRequest(ReportStatusRequestWith(Latest(m.modid, x.modid),
                Latest(m.cmdid, x.cmdid), m.caller, m.ts, m.results), rest)
    BY <1>1, ReportStatusRequestFields
  <2> HIDE DEF a, b, c, d, e
  <2> QED BY <2>1, <2>2, Zenon
<1>7. ParseReportStatusRequest(ReportStatusRequestWith(Latest(m.modid, x.modid),
          Latest(m.cmdid, x.cmdid), m.caller, m.ts, m.results), c \o (d \o (e \o <<>>))) =
        ParseReportStatusRequest(ReportStatusRequestWith(Latest(m.modid, x.modid),
            Latest(m.cmdid, x.cmdid), Latest(m.caller, x.caller), m.ts, m.results), d \o (e
            \o <<>>))
  <2>1. d \o (e \o <<>>) \in Seq(Bytes)
    BY <1>4, NoBytes
  <2>2. \A rest \in Seq(Bytes) :
            ParseReportStatusRequest(ReportStatusRequestWith(Latest(m.modid, x.modid),
            Latest(m.cmdid, x.cmdid), m.caller, m.ts, m.results), c \o rest) =
            ParseReportStatusRequest(ReportStatusRequestWith(Latest(m.modid, x.modid),
                Latest(m.cmdid, x.cmdid), Latest(m.caller, x.caller), m.ts, m.results), rest)
    BY <1>1, ReportStatusRequestFields
  <2> HIDE DEF a, b, c, d, e
  <2> QED BY <2>1, <2>2, Zenon
<1>8. ParseReportStatusRequest(ReportStatusRequestWith(Latest(m.modid, x.modid),
          Latest(m.cmdid, x.cmdid), Latest(m.caller, x.caller), m.ts, m.results), d \o (e
          \o <<>>)) =
        ParseReportStatusRequest(ReportStatusRequestWith(Latest(m.modid, x.modid),
            Latest(m.cmdid, x.cmdid), Latest(m.caller, x.caller), Latest(m.ts, x.ts),
            m.results), e \o <<>>)
  <2>1. e \o <<>> \in Seq(Bytes)
    BY <1>4, NoBytes
  <2>2. \A rest \in Seq(Bytes) :
            ParseReportStatusRequest(ReportStatusRequestWith(Latest(m.modid, x.modid),
            Latest(m.cmdid, x.cmdid), Latest(m.caller, x.caller), m.ts, m.results), d \o rest) =
            ParseReportStatusRequest(ReportStatusRequestWith(Latest(m.modid, x.modid),
                Latest(m.cmdid, x.cmdid), Latest(m.caller, x.caller), Latest(m.ts, x.ts),
                m.results), rest)
    BY <1>1, ReportStatusRequestFields
  <2> HIDE DEF a, b, c, d, e
  <2> QED BY <2>1, <2>2, Zenon
<1>9. ParseReportStatusRequest(ReportStatusRequestWith(Latest(m.modid, x.modid),
          Latest(m.cmdid, x.cmdid), Latest(m.caller, x.caller), Latest(m.ts, x.ts), m.results),
          e \o <<>>) =
        ParseReportStatusRequest(ReportStatusRequestWith(Latest(m.modid, x.modid),
            Latest(m.cmdid, x.cmdid), Latest(m.caller, x.caller), Latest(m.ts, x.ts), m.results
            \o x.results), <<>>)
  <2>1. <<>> \in Seq(Bytes)
    BY <1>4, NoBytes
  <2>2. \A rest \in Seq(Bytes) :
            ParseReportStatusRequest(ReportStatusRequestWith(Latest(m.modid, x.modid),
            Latest(m.cmdid, x.cmdid), Latest(m.caller, x.caller), Latest(m.ts, x.ts),
            m.results), e \o rest) =
            ParseReportStatusRequest(ReportStatusRequestWith(Latest(m.modid, x.modid),
                Latest(m.cmdid, x.cmdid), Latest(m.caller, x.caller), Latest(m.ts, x.ts),
                m.results \o x.results), rest)
    BY <1>1, ReportStatusRequestListIsRead
  <2> HIDE DEF a, b, c, d, e
  <2> QED BY <2>1, <2>2, Zenon
<1>10. ParseReportStatusRequest(m, SerializeReportStatusRequest(x))
           = ReportStatusRequestWith(Latest(m.modid, x.modid), Latest(m.cmdid, x.cmdid),
           Latest(m.caller, x.caller), Latest(m.ts, x.ts), m.results \o x.results)
  <2> HIDE DEF a, b, c, d, e
  <2> QED BY <1>1, <1>3, <1>5, <1>6, <1>7, <1>8, <1>9, ReportStatusRequestTakes
<1>11. MergeReportStatusRequest(m, x) = ReportStatusRequestWith(Latest(m.modid, x.modid),
           Latest(m.cmdid, x.cmdid), Latest(m.caller, x.caller), Latest(m.ts, x.ts), m.results
           \o x.results)
  BY <1>1, Nothing DEF MergeReportStatusRequest, ReportStatusRequestWith
<1>12. ByteSizeReportStatusRequest(x)
           = UInt32FieldSize(x.modid) + UInt32FieldSize(x.cmdid) + UInt32FieldSize(x.caller) +
           IntFieldSize(x.ts) + ResultFieldsSize(x.results)
  <2>1. UInt32FieldSize(x.modid) \in Nat /\ UInt32FieldSize(x.cmdid) \in Nat
            /\ UInt32FieldSize(x.caller) \in Nat /\ IntFieldSize(x.ts) \in Nat
            /\ ResultFieldsSize(x.results) \in Nat
    BY <1>2
  <2>2. Len(x.unknown) = 0
    BY <1>1
  <2> QED BY <2>1, <2>2 DEF ByteSizeReportStatusRequest
<1>13. Len(SerializeReportStatusRequest(x)) = ByteSizeReportStatusRequest(x)
           /\ SerializeReportStatusRequest(x) \in Seq(Bytes)
  <2> HIDE DEF a, b, c, d, e
  <2> QED BY <1>2, <1>3, <1>4, <1>12
<1> QED BY <1>10, <1>11, <1>13

----------------------------------------------------------------------------
(* Heads.                                                                  *)

(* A number of the head, byte by byte.                                     *)
HeadFold == INSTANCE Folding WITH Op <- LAMBDA n, byte : 256 * n + byte

(* An id is an unsigned number of half a word.                             *)
Shorts == 0 .. (WordRange \div 2) - 1

(* A head is as long as it is said to be.                                  *)
LEMMA HeadType ==
    /\ HeadBytes \in Nat \ {0} /\ Word <= 8 * HeadBytes /\ HeadLen = HeadBytes + HeadBytes
    /\ HeadLen \in Nat
    /\ \A n \in Nat : HostToNetwork(n) \in Seq(Bytes) /\ Len(HostToNetwork(n)) = HeadBytes
<1>1. HeadBytes \in Nat \ {0} /\ Word <= 8 * HeadBytes /\ HeadLen = HeadBytes + HeadBytes
  BY WireAssumption DEF HeadBytes, HeadLen
<1> HIDE DEF HeadBytes
<1>2. ASSUME NEW n \in Nat
      PROVE  HostToNetwork(n) \in Seq(Bytes) /\ Len(HostToNetwork(n)) = HeadBytes
  <2>1. \A i \in 1 .. HeadBytes : (n \div Power2[8 * (HeadBytes - i)]) % 256 \in Bytes
    <3> TAKE i \in 1 .. HeadBytes
    <3>1. 8 * (HeadBytes - i) \in Nat
      BY <1>1
    <3>2. Power2[8 * (HeadBytes - i)] \in Nat \ {0}
      BY <3>1, Power2Type
    <3> DEFINE d == Power2[8 * (HeadBytes - i)]
    <3> HIDE DEF d
    <3>3. n \div d \in Int
      BY <3>2 DEF d
    <3>4. (n \div d) % 256 \in 0 .. 255
      BY <3>3
    <3> QED BY <3>4 DEF Bytes, d
  <2> QED BY <1>1, <2>1 DEF HostToNetwork
<1> QED BY <1>1, <1>2

(* What is put into a head comes out of it.                                *)
LEMMA HeadIsRead == \A n \in Shorts : NetworkToHost(HostToNetwork(n)) = n
<1> TAKE n \in Shorts
<1> DEFINE s == HostToNetwork(n)
           k == HeadBytes
           Digits(j) == n \div Power2[8 * (k - j)]
<1>1. /\ k \in Nat \ {0} /\ n \in Nat /\ s \in Seq(Bytes) /\ Len(s) = k
      /\ \A i \in 1 .. k : s[i] = (n \div Power2[8 * (k - i)]) % 256
  BY HeadType DEF Shorts, HostToNetwork
<1>2. n < Power2[8 * k]
  <2>1. Word \in Nat /\ Word <= 8 * k /\ 8 * k \in Nat
    BY HeadType, WireAssumption
  <2>2. WordRange <= Power2[8 * k]
    <3> HIDE DEF k
    <3> QED BY <2>1, Power2Grows DEF WordRange
  <2>3. Power2[8 * k] \in Nat
    BY <2>1, Power2Type
  <2> QED BY <2>2, <2>3, Powers DEF Shorts
<1>3. PICK h : HeadFold!Steps(h, 0, s) /\ HeadFold!FromLeft(0, s) = h[k]
  BY <1>1, HeadFold!LeftSteps
<1>4. NetworkToHost(s) = Signed(h[k], WordRange)
  BY <1>3 DEF NetworkToHost, HeadFold!FromLeft, FoldLeft, MapThenFoldSet, Max,
              HeadFold!Largest
<1>5. h[0] = 0 /\ \A j \in 0 .. k - 1 : h[j + 1] = 256 * h[j] + s[j + 1]
  BY <1>1, <1>3 DEF HeadFold!Steps
<1> DEFINE A == {j \in Nat : j <= k => h[j] = Digits(j)}
<1> HIDE DEF s, k
<1>6. 0 \in A
  <2>0. 8 * k \in Nat
    BY <1>1
  <2>1. Power2[8 * k] \in Nat \ {0} /\ n \in 0 .. Power2[8 * k] - 1
    <3>1. Power2[8 * k] \in Nat \ {0}
      BY <2>0, Power2Type
    <3> QED BY <1>1, <1>2, <3>1
  <2>2. n \div Power2[8 * k] = 0
    BY <2>1, SmallDivision
  <2> QED BY <1>1, <1>5, <2>2
<1>7. ASSUME NEW j \in Nat, j \in A PROVE j + 1 \in A
  <2>1. CASE j + 1 <= k
    <3> DEFINE m == 8 * (k - (j + 1))
    <3>1. m \in Nat /\ m + 8 = 8 * (k - j) /\ j \in 0 .. k - 1 /\ j + 1 \in 1 .. k
      BY <1>1, <2>1
    <3>2. s[j + 1] = (n \div Power2[m]) % 256
      BY <1>1, <3>1
    <3>3. n \div Power2[m] = (256 * (n \div Power2[m + 8])) + ((n \div Power2[m]) % 256)
      <4> HIDE DEF m
      <4>1. n \div Power2[m] =
              (Power2[8] * (n \div Power2[m + 8])) + ((n \div Power2[m]) % Power2[8])
        BY <1>1, <3>1, NextDigit
      <4>2. Power2[8] = 256
        BY Powers
      <4> QED BY <4>1, <4>2
    <3>4. h[j] = n \div Power2[8 * (k - j)]
      BY <1>1, <1>7, <2>1
    <3> HIDE DEF m
    <3>5. h[j + 1] = n \div Power2[m]
      BY <1>5, <3>1, <3>2, <3>3, <3>4
    <3>6. j + 1 <= k => h[j + 1] = Digits(j + 1)
      BY <3>5 DEF m
    <3> QED BY <3>6
  <2>2. CASE ~(j + 1 <= k)
    BY <2>2
  <2> QED BY <2>1, <2>2
<1>8. k \in A
  <2> HIDE DEF A
  <2> QED BY <1>1, <1>6, <1>7, NatInductionOverSet
<1>9. Digits(k) = n
  <2>1. 8 * (k - k) = 0 /\ n \div 1 = n
    BY <1>1
  <2> QED BY <2>1, Power2Next
<1>10. Signed(n, WordRange) = n
  BY Powers DEF Signed, Shorts
<1> QED BY <1>1, <1>4, <1>8, <1>9, <1>10 DEF s

----------------------------------------------------------------------------
(* The messages, whichever they are.                                       *)

(* A message of any kind.                                                  *)
AnyMessage ==
    GetRouteRequestType \cup GetRouteResponseType \cup GetHostRequestType
    \cup GetHostResponseType \cup ReportRequestType \cup ReportStatusRequestType

(* Messages of different kinds have different fields.                      *)
LEMMA Domains ==
    /\ \A x \in GetRouteRequestType : DOMAIN x = DOMAIN ClearGetRouteRequest
    /\ \A x \in GetRouteResponseType : DOMAIN x = DOMAIN ClearGetRouteResponse
    /\ \A x \in GetHostRequestType : DOMAIN x = DOMAIN ClearGetHostRequest
    /\ \A x \in GetHostResponseType : DOMAIN x = DOMAIN ClearGetHostResponse
    /\ \A x \in ReportRequestType : DOMAIN x = DOMAIN ClearReportRequest
    /\ \A x \in ReportStatusRequestType : DOMAIN x = DOMAIN ClearReportStatusRequest
    /\ DOMAIN ClearGetRouteRequest # DOMAIN ClearGetRouteResponse
    /\ DOMAIN ClearGetRouteRequest # DOMAIN ClearGetHostRequest
    /\ DOMAIN ClearGetRouteRequest # DOMAIN ClearGetHostResponse
    /\ DOMAIN ClearGetRouteRequest # DOMAIN ClearReportRequest
    /\ DOMAIN ClearGetRouteRequest # DOMAIN ClearReportStatusRequest
    /\ DOMAIN ClearGetRouteResponse # DOMAIN ClearGetHostRequest
    /\ DOMAIN ClearGetRouteResponse # DOMAIN ClearGetHostResponse
    /\ DOMAIN ClearGetRouteResponse # DOMAIN ClearReportRequest
    /\ DOMAIN ClearGetRouteResponse # DOMAIN ClearReportStatusRequest
    /\ DOMAIN ClearGetHostRequest # DOMAIN ClearGetHostResponse
    /\ DOMAIN ClearGetHostRequest # DOMAIN ClearReportRequest
    /\ DOMAIN ClearGetHostRequest # DOMAIN ClearReportStatusRequest
    /\ DOMAIN ClearGetHostResponse # DOMAIN ClearReportRequest
    /\ DOMAIN ClearGetHostResponse # DOMAIN ClearReportStatusRequest
    /\ DOMAIN ClearReportRequest # DOMAIN ClearReportStatusRequest
<1>1. \A x \in GetRouteRequestType : DOMAIN x = DOMAIN ClearGetRouteRequest
  BY DEF GetRouteRequestType, ClearGetRouteRequest
<1>2. \A x \in GetRouteResponseType : DOMAIN x = DOMAIN ClearGetRouteResponse
  BY DEF GetRouteResponseType, ClearGetRouteResponse
<1>3. \A x \in GetHostRequestType : DOMAIN x = DOMAIN ClearGetHostRequest
  BY DEF GetHostRequestType, ClearGetHostRequest
<1>4. \A x \in GetHostResponseType : DOMAIN x = DOMAIN ClearGetHostResponse
  BY DEF GetHostResponseType, ClearGetHostResponse
<1>5. \A x \in ReportRequestType : DOMAIN x = DOMAIN ClearReportRequest
  BY DEF ReportRequestType, ClearReportRequest
<1>6. \A x \in ReportStatusRequestType : DOMAIN x = DOMAIN ClearReportStatusRequest
  BY DEF ReportStatusRequestType, ClearReportStatusRequest
<1>7. DOMAIN ClearGetRouteRequest = {"unknown", "modid", "cmdid"}
  BY DEF ClearGetRouteRequest
<1>8. DOMAIN ClearGetRouteResponse = {"unknown", "modid", "cmdid", "host"}
  BY DEF ClearGetRouteResponse
<1>9. DOMAIN ClearGetHostRequest = {"unknown", "seq", "modid", "cmdid"}
  BY DEF ClearGetHostRequest
<1>10. DOMAIN ClearGetHostResponse = {"unknown", "seq", "modid", "cmdid", "retcode", "host"}
  BY DEF ClearGetHostResponse
<1>11. DOMAIN ClearReportRequest = {"unknown", "modid", "cmdid", "host", "retcode"}
  BY DEF ClearReportRequest
<1>12. DOMAIN ClearReportStatusRequest = {"unknown", "modid", "cmdid", "caller", "ts",
           "results"}
  BY DEF ClearReportStatusRequest
<1>13. DOMAIN ClearGetRouteRequest # DOMAIN ClearGetRouteResponse
  BY <1>7, <1>8
<1>14. DOMAIN ClearGetRouteRequest # DOMAIN ClearGetHostRequest
  BY <1>7, <1>9
<1>15. DOMAIN ClearGetRouteRequest # DOMAIN ClearGetHostResponse
  BY <1>7, <1>10
<1>16. DOMAIN ClearGetRouteRequest # DOMAIN ClearReportRequest
  BY <1>7, <1>11
<1>17. DOMAIN ClearGetRouteRequest # DOMAIN ClearReportStatusRequest
  BY <1>7, <1>12
<1>18. DOMAIN ClearGetRouteResponse # DOMAIN ClearGetHostRequest
  BY <1>8, <1>9
<1>19. DOMAIN ClearGetRouteResponse # DOMAIN ClearGetHostResponse
  BY <1>8, <1>10
<1>20. DOMAIN ClearGetRouteResponse # DOMAIN ClearReportRequest
  BY <1>8, <1>11
<1>21. DOMAIN ClearGetRouteResponse # DOMAIN ClearReportStatusRequest
  BY <1>8, <1>12
<1>22. DOMAIN ClearGetHostRequest # DOMAIN ClearGetHostResponse
  BY <1>9, <1>10
<1>23. DOMAIN ClearGetHostRequest # DOMAIN ClearReportRequest
  BY <1>9, <1>11
<1>24. DOMAIN ClearGetHostRequest # DOMAIN ClearReportStatusRequest
  BY <1>9, <1>12
<1>25. DOMAIN ClearGetHostResponse # DOMAIN ClearReportRequest
  BY <1>10, <1>11
<1>26. DOMAIN ClearGetHostResponse # DOMAIN ClearReportStatusRequest
  BY <1>10, <1>12
<1>27. DOMAIN ClearReportRequest # DOMAIN ClearReportStatusRequest
  BY <1>11, <1>12
<1> QED BY <1>1, <1>2, <1>3, <1>4, <1>5, <1>6, <1>13, <1>14, <1>15, <1>16, <1>17, <1>18, <1>19,
        <1>20, <1>21, <1>22, <1>23, <1>24, <1>25, <1>26, <1>27

(* What is done with a route request is decided by its fields, as a        *)
(* virtual call decides by the class.                                      *)
LEMMA GetRouteRequestIs ==
    \A x \in GetRouteRequestType :
        /\ Serialize(x) = SerializeGetRouteRequest(x) /\ ByteSize(x)
             = ByteSizeGetRouteRequest(x)
        /\ \A to, data : Parse(x, to, data) = ParseGetRouteRequest(to, data)
        /\ \A from : Merge(x, from) = MergeGetRouteRequest(x, from)
BY Domains DEF Serialize, ByteSize, Parse, Merge

(* A route response.                                                       *)
LEMMA GetRouteResponseIs ==
    \A x \in GetRouteResponseType :
        /\ Serialize(x) = SerializeGetRouteResponse(x) /\ ByteSize(x)
             = ByteSizeGetRouteResponse(x)
        /\ \A to, data : Parse(x, to, data) = ParseGetRouteResponse(to, data)
        /\ \A from : Merge(x, from) = MergeGetRouteResponse(x, from)
BY Domains DEF Serialize, ByteSize, Parse, Merge

(* A host request.                                                         *)
LEMMA GetHostRequestIs ==
    \A x \in GetHostRequestType :
        /\ Serialize(x) = SerializeGetHostRequest(x) /\ ByteSize(x) = ByteSizeGetHostRequest(x)
        /\ \A to, data : Parse(x, to, data) = ParseGetHostRequest(to, data)
        /\ \A from : Merge(x, from) = MergeGetHostRequest(x, from)
BY Domains DEF Serialize, ByteSize, Parse, Merge

(* A host response.                                                        *)
LEMMA GetHostResponseIs ==
    \A x \in GetHostResponseType :
        /\ Serialize(x) = SerializeGetHostResponse(x) /\ ByteSize(x)
             = ByteSizeGetHostResponse(x)
        /\ \A to, data : Parse(x, to, data) = ParseGetHostResponse(to, data)
        /\ \A from : Merge(x, from) = MergeGetHostResponse(x, from)
BY Domains DEF Serialize, ByteSize, Parse, Merge

(* A report.                                                               *)
LEMMA ReportRequestIs ==
    \A x \in ReportRequestType :
        /\ Serialize(x) = SerializeReportRequest(x) /\ ByteSize(x) = ByteSizeReportRequest(x)
        /\ \A to, data : Parse(x, to, data) = ParseReportRequest(to, data)
        /\ \A from : Merge(x, from) = MergeReportRequest(x, from)
BY Domains DEF Serialize, ByteSize, Parse, Merge

(* A status report.                                                        *)
LEMMA ReportStatusRequestIs ==
    \A x \in ReportStatusRequestType :
        /\ Serialize(x) = SerializeReportStatusRequest(x) /\ ByteSize(x)
             = ByteSizeReportStatusRequest(x)
        /\ \A to, data : Parse(x, to, data) = ParseReportStatusRequest(to, data)
        /\ \A from : Merge(x, from) = MergeReportStatusRequest(x, from)
BY Domains DEF Serialize, ByteSize, Parse, Merge

(* What BytesMerge says of two messages.                                   *)
Agrees(old, new) ==
    /\ Serialize(new) \in Seq(Bytes) /\ Len(Serialize(new)) = ByteSize(new)
    /\ ByteSize(new) \in Nat
    /\ DOMAIN old = DOMAIN new => Parse(new, old, Serialize(new)) = Merge(old, new)

(* Of two messages of any kinds: the bytes that _InternalSerialize writes  *)
(* are as many as ByteSizeLong counts, and if both are of one kind, to     *)
(* read the bytes of one over the other (_InternalParse) is to merge them  *)
(* (MergeFrom).                                                            *)
THEOREM MessagesAgree == \A old, new \in AnyMessage : Agrees(old, new)
<1> TAKE old, new \in AnyMessage
<1>1. CASE new \in GetRouteRequestType
  <2>1. Serialize(new) \in Seq(Bytes) /\ Len(Serialize(new)) = ByteSize(new)
    BY <1>1, GetRouteRequestIs, GetRouteRequestIsRead
  <2>2. Len(Serialize(new)) \in Nat
    BY <2>1
  <2>3. ASSUME DOMAIN old = DOMAIN new
        PROVE  Parse(new, old, Serialize(new)) = Merge(old, new)
    <3>1. old \in GetRouteRequestType
      BY <1>1, <2>3, Domains DEF AnyMessage
    <3> QED BY <1>1, <3>1, GetRouteRequestIs, GetRouteRequestIsRead
  <2> QED BY <2>1, <2>2, <2>3 DEF Agrees
<1>2. CASE new \in GetRouteResponseType
  <2>1. Serialize(new) \in Seq(Bytes) /\ Len(Serialize(new)) = ByteSize(new)
    BY <1>2, GetRouteResponseIs, GetRouteResponseIsRead
  <2>2. Len(Serialize(new)) \in Nat
    BY <2>1
  <2>3. ASSUME DOMAIN old = DOMAIN new
        PROVE  Parse(new, old, Serialize(new)) = Merge(old, new)
    <3>1. old \in GetRouteResponseType
      BY <1>2, <2>3, Domains DEF AnyMessage
    <3> QED BY <1>2, <3>1, GetRouteResponseIs, GetRouteResponseIsRead
  <2> QED BY <2>1, <2>2, <2>3 DEF Agrees
<1>3. CASE new \in GetHostRequestType
  <2>1. Serialize(new) \in Seq(Bytes) /\ Len(Serialize(new)) = ByteSize(new)
    BY <1>3, GetHostRequestIs, GetHostRequestIsRead
  <2>2. Len(Serialize(new)) \in Nat
    BY <2>1
  <2>3. ASSUME DOMAIN old = DOMAIN new
        PROVE  Parse(new, old, Serialize(new)) = Merge(old, new)
    <3>1. old \in GetHostRequestType
      BY <1>3, <2>3, Domains DEF AnyMessage
    <3> QED BY <1>3, <3>1, GetHostRequestIs, GetHostRequestIsRead
  <2> QED BY <2>1, <2>2, <2>3 DEF Agrees
<1>4. CASE new \in GetHostResponseType
  <2>1. Serialize(new) \in Seq(Bytes) /\ Len(Serialize(new)) = ByteSize(new)
    BY <1>4, GetHostResponseIs, GetHostResponseIsRead
  <2>2. Len(Serialize(new)) \in Nat
    BY <2>1
  <2>3. ASSUME DOMAIN old = DOMAIN new
        PROVE  Parse(new, old, Serialize(new)) = Merge(old, new)
    <3>1. old \in GetHostResponseType
      BY <1>4, <2>3, Domains DEF AnyMessage
    <3> QED BY <1>4, <3>1, GetHostResponseIs, GetHostResponseIsRead
  <2> QED BY <2>1, <2>2, <2>3 DEF Agrees
<1>5. CASE new \in ReportRequestType
  <2>1. Serialize(new) \in Seq(Bytes) /\ Len(Serialize(new)) = ByteSize(new)
    BY <1>5, ReportRequestIs, ReportRequestIsRead
  <2>2. Len(Serialize(new)) \in Nat
    BY <2>1
  <2>3. ASSUME DOMAIN old = DOMAIN new
        PROVE  Parse(new, old, Serialize(new)) = Merge(old, new)
    <3>1. old \in ReportRequestType
      BY <1>5, <2>3, Domains DEF AnyMessage
    <3> QED BY <1>5, <3>1, ReportRequestIs, ReportRequestIsRead
  <2> QED BY <2>1, <2>2, <2>3 DEF Agrees
<1>6. CASE new \in ReportStatusRequestType
  <2>1. Serialize(new) \in Seq(Bytes) /\ Len(Serialize(new)) = ByteSize(new)
    BY <1>6, ReportStatusRequestIs, ReportStatusRequestIsRead
  <2>2. Len(Serialize(new)) \in Nat
    BY <2>1
  <2>3. ASSUME DOMAIN old = DOMAIN new
        PROVE  Parse(new, old, Serialize(new)) = Merge(old, new)
    <3>1. old \in ReportStatusRequestType
      BY <1>6, <2>3, Domains DEF AnyMessage
    <3> QED BY <1>6, <3>1, ReportStatusRequestIs, ReportStatusRequestIsRead
  <2> QED BY <2>1, <2>2, <2>3 DEF Agrees
<1> QED BY <1>1, <1>2, <1>3, <1>4, <1>5, <1>6 DEF AnyMessage

----------------------------------------------------------------------------
(* Sequences of messages.                                                  *)

(* A message that was sent, under its id.                                  *)
Letters == {m \in [id : Shorts, msg : AnyMessage] : ByteSize(m.msg) < WordRange \div 2}

(* Those chooses message by message.                                       *)
ThoseFold == INSTANCE Folding WITH Op <- TakeIfWanted

(* Those are chosen one message after the other.                           *)
LEMMA ThoseSteps ==
    ASSUME NEW ids, NEW S, NEW s \in Seq(S), NEW m \in S
    PROVE  /\ Those(<<>>, ids) = <<>>
           /\ Those(s, ids) \in Seq(S)
           /\ Those(Append(s, m), ids) =
                IF m.id \in ids THEN Append(Those(s, ids), m) ELSE Those(s, ids)
<1> DEFINE start == [wanted |-> ids, some |-> <<>>]
           B == [wanted : {ids}, some : Seq(S)]
<1>1. \A u : Those(u, ids) = ThoseFold!FromLeft(start, u).some
  BY DEF Those, ThoseFold!FromLeft, FoldLeft, MapThenFoldSet, Max,
         ThoseFold!Largest
<1>2. ThoseFold!FromLeft(start, <<>>) = start
  BY ThoseFold!LeftEmpty
<1>3. start \in B
  OBVIOUS
<1>4. ASSUME NEW t \in B, NEW x \in S PROVE TakeIfWanted(t, x) \in B
  <2>1. CASE x.id \in ids
    <3> DEFINE more == Append(t.some, x)
    <3>2. more \in Seq(S)
      OBVIOUS
    <3> HIDE DEF more
    <3>3. [t EXCEPT !.some = more] \in B
      BY <3>2
    <3>4. TakeIfWanted(t, x) = [t EXCEPT !.some = more]
      BY <2>1 DEF TakeIfWanted, more
    <3> QED BY <3>3, <3>4
  <2>2. CASE x.id \notin ids
    BY <2>2 DEF TakeIfWanted
  <2> QED BY <2>1, <2>2
<1> HIDE DEF B
<1>5. ThoseFold!FromLeft(start, s) \in B
  BY <1>3, <1>4, ThoseFold!LeftType
<1>6. ThoseFold!FromLeft(start, Append(s, m)) = TakeIfWanted(ThoseFold!FromLeft(start, s), m)
  BY ThoseFold!LeftAppend
<1>7. Those(<<>>, ids) = <<>>
  BY <1>1, <1>2
<1>8. Those(s, ids) \in Seq(S)
  BY <1>1, <1>5 DEF B
<1>9. Those(Append(s, m), ids) = IF m.id \in ids THEN Append(Those(s, ids), m) ELSE Those(s,
          ids)
  <2> DEFINE t == ThoseFold!FromLeft(start, s)
  <2>1. Those(Append(s, m), ids) = TakeIfWanted(t, m).some /\ Those(s, ids) = t.some
    BY <1>1, <1>6
  <2>2. t.wanted = ids /\ t = [wanted |-> ids, some |-> t.some]
    BY <1>5 DEF B
  <2> HIDE DEF t
  <2>3. CASE m.id \in ids
    <3>1. TakeIfWanted(t, m) = [t EXCEPT !.some = Append(@, m)]
      BY <2>2, <2>3 DEF TakeIfWanted
    <3> DEFINE more == Append(t.some, m)
    <3>2. [t EXCEPT !.some = more].some = more
      <4> HIDE DEF more
      <4> QED BY <2>2
    <3> QED BY <2>1, <2>3, <3>1, <3>2
  <2>4. CASE m.id \notin ids
    BY <2>1, <2>2, <2>4 DEF TakeIfWanted
  <2> QED BY <2>3, <2>4
<1> QED BY <1>7, <1>8, <1>9

(* The same, for all sequences.                                            *)
LEMMA ThoseType ==
    \A ids : \A S : \A s \in Seq(S) :
        /\ Those(<<>>, ids) = <<>>
        /\ Those(s, ids) \in Seq(S)
        /\ \A m \in S : /\ m.id \in ids => Those(Append(s, m), ids) = Append(Those(s, ids), m)
                        /\ m.id \notin ids => Those(Append(s, m), ids) = Those(s, ids)
<1> TAKE ids
<1> TAKE S
<1> TAKE s \in Seq(S)
<1>1. ASSUME NEW m \in S
      PROVE  /\ m.id \in ids => Those(Append(s, m), ids) = Append(Those(s, ids), m)
             /\ m.id \notin ids => Those(Append(s, m), ids) = Those(s, ids)
  BY ThoseSteps
<1>2. Those(<<>>, ids) = <<>>
  <2>1. <<>> \in Seq({1}) /\ 1 \in {1}
    OBVIOUS
  <2> QED BY <2>1, ThoseSteps
<1>3. Those(s, ids) \in Seq(S)
  <2>1. CASE S = {}
    <3>1. s = <<>>
      BY <2>1
    <3> QED BY <1>2, <3>1
  <2>2. CASE S # {}
    <3>1. PICK m \in S : TRUE
      BY <2>2
    <3> QED BY <3>1, ThoseSteps
  <2> QED BY <2>1, <2>2
<1> QED BY <1>1, <1>2, <1>3

(* Those of two parts are those of one and those of the other.             *)
LEMMA ThoseConcat ==
    ASSUME NEW ids, NEW S, NEW a \in Seq(S)
    PROVE  \A b \in Seq(S) : Those(a \o b, ids) = Those(a, ids) \o Those(b, ids)
<1> DEFINE A == {b \in Seq(S) : Those(a \o b, ids) = Those(a, ids) \o Those(b, ids)}
<1>1. <<>> \in A
  <2>1. a \o <<>> = a /\ Those(a, ids) \in Seq(S) /\ Those(<<>>, ids) = <<>>
    BY ThoseType
  <2>2. Those(a, ids) \o <<>> = Those(a, ids)
    BY <2>1
  <2>3. <<>> \in Seq(S)
    OBVIOUS
  <2> QED BY <2>1, <2>2, <2>3, Zenon
<1>2. ASSUME NEW b \in Seq(S), NEW m \in S, b \in A PROVE Append(b, m) \in A
  <2> DEFINE p == Those(a, ids)
             q == Those(b, ids)
             ab == a \o b
  <2>1. p \in Seq(S) /\ q \in Seq(S) /\ ab \in Seq(S) /\ Those(ab, ids) = p \o q
    BY <1>2, ThoseType
  <2>2. a \o Append(b, m) = Append(ab, m) /\ Append(b, m) \in Seq(S)
    OBVIOUS
  <2> HIDE DEF ab
  <2>5. \A s \in Seq(S) :
            /\ m.id \in ids => Those(Append(s, m), ids) = Append(Those(s, ids), m)
            /\ m.id \notin ids => Those(Append(s, m), ids) = Those(s, ids)
    BY ThoseType
  <2>3. CASE m.id \in ids
    <3>1. Those(Append(ab, m), ids) = Append(p \o q, m)
      BY <2>1, <2>3, <2>5, Zenon
    <3>2. Those(Append(b, m), ids) = Append(q, m)
      BY <2>1, <2>3, <2>5, Zenon
    <3> HIDE DEF p, q
    <3>3. Append(p \o q, m) = p \o Append(q, m)
      <4>1. p \in Seq(S) /\ q \in Seq(S)
        BY <2>1
      <4> DEFINE x == Append(p \o q, m)
                 y == p \o Append(q, m)
      <4>2. /\ x \in Seq(S) /\ y \in Seq(S) /\ Len(x) = Len(p) + Len(q) + 1
            /\ Len(y) = Len(p) + Len(q) + 1
        BY <4>1
      <4>3. \A i \in 1 .. Len(x) : x[i] = y[i]
        BY <4>1
      <4> HIDE DEF x, y
      <4>4. x = y
        BY <4>2, <4>3, SameSeq
      <4> QED BY <4>4 DEF x, y
    <3>4. Those(a \o Append(b, m), ids) = p \o Those(Append(b, m), ids)
      BY <2>2, <3>1, <3>2, <3>3
    <3> QED BY <2>2, <3>4 DEF p
  <2>4. CASE m.id \notin ids
    <3>1. Those(Append(ab, m), ids) = p \o q
      BY <2>1, <2>4, <2>5, Zenon
    <3>2. Those(Append(b, m), ids) = q
      BY <2>1, <2>4, <2>5, Zenon
    <3>3. Those(a \o Append(b, m), ids) = p \o Those(Append(b, m), ids)
      <4> HIDE DEF p, q
      <4> QED BY <2>2, <3>1, <3>2
    <3> QED BY <2>2, <3>3
  <2> QED BY <2>3, <2>4
<1>3. Seq(S) \subseteq A
  <2> HIDE DEF A
  <2> QED BY <1>1, <1>2, AppendInduction
<1> QED BY <1>3

(* They have the ids that were wanted, and stood in the sequence.          *)
LEMMA ThoseMembers ==
    ASSUME NEW ids, NEW S, NEW s \in Seq(S)
    PROVE  \A i \in 1 .. Len(Those(s, ids)) :
                /\ Those(s, ids)[i].id \in ids
                /\ \E j \in DOMAIN s : s[j] = Those(s, ids)[i]
<1> DEFINE Right(u) == \A i \in 1 .. Len(Those(u, ids)) : Those(u, ids)[i].id \in ids
           A == {u \in Seq(S) : Right(u)}
<1>0. <<>> \in Seq(S) /\ Those(<<>>, ids) = <<>>
  <2>1. <<>> \in Seq(S)
    OBVIOUS
  <2> QED BY <2>1, ThoseType
<1>1. <<>> \in A
  <2>1. Right(<<>>)
    <3>1. 1 .. Len(<<>>) = {}
      OBVIOUS
    <3>2. 1 .. Len(Those(<<>>, ids)) = {}
      BY <1>0, <3>1, Zenon
    <3> QED BY <3>2, Zenon
  <2> HIDE DEF Right
  <2> QED BY <1>0, <2>1
<1>2. ASSUME NEW u \in Seq(S), NEW m \in S, u \in A PROVE Append(u, m) \in A
  <2> DEFINE p == Those(u, ids)
             v == Append(u, m)
             q == Those(v, ids)
  <2>1. p \in Seq(S) /\ v \in Seq(S) /\ \A i \in 1 .. Len(p) : p[i].id \in ids
    BY <1>2, ThoseType
  <2>2. (m.id \in ids => q = Append(p, m)) /\ (m.id \notin ids => q = p)
    BY ThoseType
  <2>3. \A i \in 1 .. Len(q) : q[i].id \in ids
    <3> HIDE DEF p, q, v
    <3>1. CASE m.id \in ids
      <4>1. Len(q) = Len(p) + 1 /\ q[Len(p) + 1] = m /\ Len(p) \in Nat
            /\ \A i \in 1 .. Len(p) : q[i] = p[i]
        <5> DEFINE a == Append(p, m)
        <5>1. Len(a) = Len(p) + 1 /\ a[Len(p) + 1] = m /\ Len(p) \in Nat
              /\ \A i \in 1 .. Len(p) : a[i] = p[i]
          BY <2>1
        <5>2. q = a
          BY <2>2, <3>1
        <5> HIDE DEF a
        <5> QED BY <5>1, <5>2
      <4> QED BY <2>1, <3>1, <4>1
    <3>2. CASE m.id \notin ids
      BY <2>1, <2>2, <3>2
    <3> QED BY <3>1, <3>2
  <2> QED BY <2>1, <2>3
<1>3. Seq(S) \subseteq A
  <2> HIDE DEF A
  <2> QED BY <1>1, <1>2, AppendInduction
<1>4. Right(s)
  BY <1>3
<1>5. \A i \in 1 .. Len(Those(s, ids)) : \E j \in DOMAIN s : s[j] = Those(s, ids)[i]
  <2> DEFINE R == {s[j] : j \in DOMAIN s}
             p == Those(s, ids)
  <2>1. s \in Seq(R)
    <3>1. Len(s) \in Nat /\ DOMAIN s = 1 .. Len(s) /\ s = [j \in 1 .. Len(s) |-> s[j]]
      OBVIOUS
    <3>2. \A j \in 1 .. Len(s) : s[j] \in R
      BY <3>1
    <3> HIDE DEF R
    <3> QED BY <3>1, <3>2
  <2>2. p \in Seq(R)
    <3> HIDE DEF R
    <3> QED BY <2>1, ThoseType
  <2>3. \A i \in 1 .. Len(p) : p[i] \in R
    <3> HIDE DEF R, p
    <3> QED BY <2>2
  <2> QED BY <2>3
<1> QED BY <1>4, <1>5

(* Choosing twice.                                                         *)
LEMMA ThoseTwice ==
    ASSUME NEW ids, NEW more, NEW S, NEW s \in Seq(S)
    PROVE  /\ ids \subseteq more => Those(Those(s, more), ids) = Those(s, ids)
           /\ ids \cap more = {} => Those(Those(s, more), ids) = <<>>
<1> DEFINE A == {u \in Seq(S) :
                    /\ ids \subseteq more => Those(Those(u, more), ids) = Those(u, ids)
                    /\ ids \cap more = {} => Those(Those(u, more), ids) = <<>>}
<1>0. <<>> \in Seq(S) /\ Those(<<>>, ids) = <<>> /\ Those(<<>>, more) = <<>>
  <2>1. <<>> \in Seq(S)
    OBVIOUS
  <2> QED BY <2>1, ThoseType
<1>1. <<>> \in A
  BY <1>0, Zenon
<1>2. ASSUME NEW u \in Seq(S), NEW m \in S, u \in A PROVE Append(u, m) \in A
  <2> DEFINE p == Those(u, more)
             v == Append(u, m)
             q == Those(v, more)
  <2>1. p \in Seq(S) /\ v \in Seq(S)
    BY ThoseType
  <2>2. (m.id \in more => q = Append(p, m)) /\ (m.id \notin more => q = p)
    BY ThoseType
  <2>3. (m.id \in ids => Those(v, ids) = Append(Those(u, ids), m))
        /\ (m.id \notin ids => Those(v, ids) = Those(u, ids))
    BY ThoseType
  <2> HIDE DEF v
  <2>4. (m.id \in ids => Those(Append(p, m), ids) = Append(Those(p, ids), m))
        /\ (m.id \notin ids => Those(Append(p, m), ids) = Those(p, ids))
    <3> HIDE DEF p
    <3> QED BY <2>1, ThoseType
  <2>5. /\ ids \subseteq more => Those(p, ids) = Those(u, ids)
        /\ ids \cap more = {} => Those(p, ids) = <<>>
    BY <1>2
  <2>6. ids \subseteq more => Those(q, ids) = Those(v, ids)
    <3> HIDE DEF p, q
    <3>1. CASE m.id \in ids
      BY <3>1, <2>2, <2>3, <2>4, <2>5, Zenon
    <3>2. CASE m.id \notin ids
      BY <3>2, <2>2, <2>3, <2>4, <2>5, Zenon
    <3> QED BY <3>1, <3>2
  <2>7. ids \cap more = {} => Those(q, ids) = <<>>
    <3> HIDE DEF p, q
    <3>1. CASE m.id \in ids
      BY <3>1, <2>2, <2>5
    <3>2. CASE m.id \notin ids
      BY <3>2, <2>2, <2>4, <2>5, Zenon
    <3> QED BY <3>1, <3>2
  <2> QED BY <2>1, <2>6, <2>7 DEF v
<1>3. Seq(S) \subseteq A
  <2> HIDE DEF A
  <2> QED BY <1>1, <1>2, AppendInduction
<1> QED BY <1>3

(* What stands in front is a prefix.                                       *)
LEMMA PrefixOfConcat ==
    ASSUME NEW S, NEW a \in Seq(S), NEW b \in Seq(S)
    PROVE  IsPrefix(a, a \o b)
<1> DEFINE ab == a \o b
<1>1. ab \in Seq(S) /\ Len(ab) = Len(a) + Len(b) /\ Len(a) \in Nat /\ Len(b) \in Nat
      /\ \A i \in 1 .. Len(a) : ab[i] = a[i]
  OBVIOUS
<1> HIDE DEF ab
<1>2. SubSeq(a, 1, Len(a)) = SubSeq(ab, 1, Len(a))
  BY <1>1
<1>3. IsPrefix(a, ab)
  BY <1>1, <1>2 DEF IsPrefix
<1> QED BY <1>3 DEF ab

(* The messages before the first that is too long.                         *)
Long(sent) == {i \in DOMAIN sent : TooLong(sent[i])}
IsLast(i, sent) == i + 1 \in Long(sent) /\ \A j \in Long(sent) : i < j
Before(sent) ==
    SubSeq(sent, 1, IF Long(sent) = {} THEN Len(sent)
                    ELSE CHOOSE i \in 0 .. Len(sent) : IsLast(i, sent))

Continues(s, t, S) == \E more \in Seq(S) : t = s \o more

(* If none of a part is too long, the whole part is among them.            *)
LEMMA BeforeIs ==
    ASSUME NEW S, NEW done \in Seq(S), NEW left \in Seq(S),
           \A i \in DOMAIN done : ~TooLong(done[i])
    PROVE  /\ Continues(done, Before(done \o left), S)
           /\ left = <<>> \/ TooLong(left[1]) => Before(done \o left) = done
<1> DEFINE sent == done \o left
           n == Len(done)
           k == Len(left)
<1>1. /\ sent \in Seq(S) /\ Len(sent) = n + k /\ n \in Nat /\ k \in Nat
      /\ DOMAIN sent = 1 .. n + k /\ DOMAIN done = 1 .. n
      /\ \A i \in 1 .. n : sent[i] = done[i]
      /\ \A i \in 1 .. k : sent[n + i] = left[i]
  OBVIOUS
<1> HIDE DEF sent
<1>2. Long(sent) \subseteq n + 1 .. n + k
  BY <1>1 DEF Long
<1> DEFINE last == IF Long(sent) = {} THEN Len(sent)
                   ELSE CHOOSE i \in 0 .. Len(sent) : IsLast(i, sent)
<1>3. last \in n .. n + k
  <2>1. CASE Long(sent) = {}
    BY <1>1, <2>1
  <2>2. CASE Long(sent) # {}
    <3>1. PICK x \in Long(sent) : \A j \in Long(sent) : x <= j
      <4>1. Long(sent) \subseteq Nat
        BY <1>1, <1>2
      <4>2. PICK x \in Long(sent) : \A y \in Long(sent) : ~(<<y, x>> \in OpToRel(<, Nat))
        BY <4>1, <2>2, WFMin, NatLessThanWellFounded
      <4>3. \A j \in Long(sent) : x <= j
        <5>1. \A j \in Nat : j < x => <<j, x>> \in OpToRel(<, Nat)
          BY <4>1, <4>2 DEF OpToRel
        <5>2. x \in Nat
          BY <4>1
        <5> TAKE j \in Long(sent)
        <5>3. j \in Nat /\ ~(<<j, x>> \in OpToRel(<, Nat))
          BY <4>1, <4>2
        <5>4. ~(j < x)
          BY <5>1, <5>3
        <5>5. j \in Nat
          BY <4>1
        <5> QED BY <5>2, <5>4, <5>5
      <4> QED BY <4>3
    <3>2. x - 1 \in 0 .. Len(sent) /\ IsLast(x - 1, sent)
      BY <3>1, <1>1, <1>2 DEF IsLast
    <3>3. last \in 0 .. Len(sent) /\ IsLast(last, sent)
      BY <2>2, <3>2
    <3> QED BY <3>3, <1>1, <1>2 DEF IsLast
  <2> QED BY <2>1, <2>2
<1>4. left = <<>> \/ TooLong(left[1]) => last = n
  <2>1. CASE left = <<>>
    BY <1>1, <1>3, <2>1
  <2>2. CASE left # <<>> /\ TooLong(left[1])
    <3>1. k \in Nat \ {0}
      BY <2>2, <1>1
    <3>2. n + 1 \in Long(sent)
      BY <3>1, <1>1, <2>2 DEF Long
    <3>3. \A j \in Long(sent) : n < j
      BY <1>1, <1>2
    <3>4. n \in 0 .. Len(sent) /\ IsLast(n, sent)
      BY <3>2, <3>3, <1>1 DEF IsLast
    <3>5. last \in 0 .. Len(sent) /\ IsLast(last, sent)
      BY <3>2, <3>4
    <3>6. last + 1 \in Long(sent) /\ last < n + 1
      BY <3>2, <3>5 DEF IsLast
    <3>7. last < n + 1 /\ last \in n .. n + k /\ n \in Nat /\ k \in Nat
      BY <3>6, <1>3, <1>1
    <3> HIDE DEF last, n, k
    <3>8. last = n
      BY <3>7
    <3> QED BY <3>8
  <2> QED BY <2>1, <2>2
<1> HIDE DEF last
<1>5. Before(sent) = SubSeq(sent, 1, last)
  BY DEF Before, last
<1> DEFINE more == SubSeq(left, 1, last - n)
<1>6. more \in Seq(S) /\ Len(more) = last - n /\ \A i \in 1 .. last - n : more[i] = left[i]
  <2>1. last - n \in 0 .. k /\ k = Len(left)
    BY <1>1, <1>3
  <2> DEFINE j == last - n
  <2> HIDE DEF j
  <2>2. j \in 0 .. Len(left) /\ left \in Seq(S)
    BY <2>1 DEF j
  <2>3. /\ SubSeq(left, 1, j) \in Seq(S) /\ Len(SubSeq(left, 1, j)) = j
        /\ \A i \in 1 .. j : SubSeq(left, 1, j)[i] = left[i]
    BY <2>2
  <2> QED BY <2>3 DEF j
<1> HIDE DEF more
<1>7. SubSeq(sent, 1, last) = done \o more
  <2> DEFINE a == SubSeq(sent, 1, last)
             b == done \o more
  <2>1. a \in Seq(S) /\ Len(a) = last /\ \A i \in 1 .. last : a[i] = sent[i]
    BY <1>1, <1>3
  <2>2. b \in Seq(S) /\ Len(b) = last /\ (\A i \in 1 .. n : b[i] = done[i])
        /\ (\A i \in 1 .. last - n : b[n + i] = more[i])
    BY <1>1, <1>3, <1>6
  <2> HIDE DEF a, b
  <2>3. \A i \in 1 .. last : a[i] = b[i]
    <3> TAKE i \in 1 .. last
    <3>1. CASE i <= n
      BY <3>1, <2>1, <2>2, <1>1
    <3>2. CASE i > n
      <4>1. i - n \in 1 .. last - n /\ i = n + (i - n) /\ i - n \in 1 .. k
        BY <3>2, <1>1, <1>3
      <4> DEFINE j == i - n
      <4>2. j \in 1 .. last - n /\ j \in 1 .. k /\ i = n + j
        BY <4>1
      <4> HIDE DEF j
      <4>3. sent[n + j] = left[j] /\ more[j] = left[j] /\ b[n + j] = more[j]
        BY <4>2, <2>2, <1>1, <1>6
      <4>4. a[i] = sent[i]
        BY <2>1
      <4> QED BY <4>2, <4>3, <4>4
    <3> QED BY <3>1, <3>2, <1>1
  <2>4. a = b
    BY <2>1, <2>2, <2>3, SameSeq
  <2> QED BY <2>4 DEF a, b
<1>8. last = n => done \o more = done
  <2>1. CASE last = n
    <3>1. more = <<>>
      BY <2>1, <1>1, <1>6
    <3> QED BY <3>1
  <2> QED BY <2>1
<1>9. Continues(done, Before(sent), S)
  BY <1>5, <1>6, <1>7 DEF Continues
<1> QED BY <1>4, <1>5, <1>7, <1>8, <1>9 DEF sent

(* The messages that were handled can be handled, and are all that can if  *)
(* what is left begins with one that is too long.                          *)
LEMMA HandleableIs ==
    ASSUME NEW ids, NEW S, NEW done \in Seq(S), NEW left \in Seq(S),
           \A i \in DOMAIN done : ~TooLong(done[i])
    PROVE  /\ IsPrefix(Those(done, ids), Handleable(done \o left, ids))
           /\ left = <<>> \/ TooLong(left[1]) =>
                    Handleable(done \o left, ids) = Those(done, ids)
<1>1. Handleable(done \o left, ids) = Those(Before(done \o left), ids)
  BY DEF Handleable, Before, Long, IsLast
<1>2. PICK more \in Seq(S) : Before(done \o left) = done \o more
  <2>1. Continues(done, Before(done \o left), S)
    BY BeforeIs
  <2> QED BY <2>1 DEF Continues
<1>3. left = <<>> \/ TooLong(left[1]) => Before(done \o left) = done
  BY BeforeIs
<1>4. Those(done \o more, ids) = Those(done, ids) \o Those(more, ids)
  BY ThoseConcat
<1>5. Those(done, ids) \in Seq(S) /\ Those(more, ids) \in Seq(S)
  BY ThoseType
<1>6. IsPrefix(Those(done, ids), Those(done, ids) \o Those(more, ids))
  BY <1>5, PrefixOfConcat
<1> QED BY <1>1, <1>2, <1>3, <1>4, <1>6

----------------------------------------------------------------------------
(* Messages one behind the other, and what has arrived of them.            *)

(* The bytes of messages behind each other.                                *)
PackedFold == INSTANCE Folding WITH Op <- LAMBDA bytes, m : bytes \o Pack(m)

Packed(messages) == PackedFold!FromLeft(<<>>, messages)

(* Where the bytes are when two sequences are put together.                *)
LEMMA ConcatIs ==
    \A a, b \in Seq(Bytes) :
        /\ a \o b \in Seq(Bytes)
        /\ Len(a \o b) = Len(a) + Len(b)
        /\ \A i \in 1 .. Len(a) : (a \o b)[i] = a[i]
        /\ \A i \in 1 .. Len(b) : (a \o b)[Len(a) + i] = b[i]
OBVIOUS

(* What has arrived of a and b, if it is long enough, has b in its place.  *)
LEMMA PartIs ==
    ASSUME NEW buf \in Seq(Bytes), NEW wire \in Seq(Bytes), NEW a \in Seq(Bytes),
           NEW b \in Seq(Bytes), NEW c \in Seq(Bytes),
           buf \o wire = a \o (b \o c), Len(a) + Len(b) <= Len(buf)
    PROVE  SubSeq(buf, Len(a) + 1, Len(a) + Len(b)) = b
<1> DEFINE part == SubSeq(buf, Len(a) + 1, Len(a) + Len(b))
           l == buf \o wire
           r == a \o (b \o c)
<1>1. Len(a) \in Nat /\ Len(b) \in Nat /\ Len(buf) \in Nat
  OBVIOUS
<1>2. part \in Seq(Bytes) /\ Len(part) = Len(b)
      /\ \A i \in 1 .. Len(b) : part[i] = buf[Len(a) + i]
  BY <1>1
<1>3. \A i \in 1 .. Len(buf) : l[i] = buf[i]
  OBVIOUS
<1>4. \A i \in 1 .. Len(b) : r[Len(a) + i] = b[i]
  OBVIOUS
<1>5. l = r
  OBVIOUS
<1> HIDE DEF part, l, r
<1>6. \A i \in 1 .. Len(part) : part[i] = b[i]
  <2> TAKE i \in 1 .. Len(part)
  <2> DEFINE j == Len(a) + i
  <2>1. i \in 1 .. Len(b) /\ j \in 1 .. Len(buf)
    BY <1>1, <1>2
  <2>2. part[i] = buf[j] /\ r[j] = b[i]
    BY <1>2, <1>4, <2>1
  <2> HIDE DEF j
  <2>3. l[j] = buf[j]
    BY <1>3, <2>1
  <2> QED BY <1>5, <2>2, <2>3
<1>7. part = b
  BY <1>2, <1>6, SameSeq
<1> QED BY <1>7 DEF part

(* What is behind a, arrived or not, is the rest.                          *)
LEMMA RestIs ==
    ASSUME NEW buf \in Seq(Bytes), NEW wire \in Seq(Bytes), NEW a \in Seq(Bytes),
           NEW c \in Seq(Bytes), buf \o wire = a \o c, Len(a) <= Len(buf)
    PROVE  /\ SubSeq(buf, Len(a) + 1, Len(buf)) \in Seq(Bytes)
           /\ SubSeq(buf, Len(a) + 1, Len(buf)) \o wire = c
<1> DEFINE behind == SubSeq(buf, Len(a) + 1, Len(buf))
           all == behind \o wire
           l == buf \o wire
           r == a \o c
           n == Len(a)
           k == Len(buf) - Len(a)
<1>1. n \in Nat /\ k \in Nat /\ Len(wire) \in Nat /\ Len(c) \in Nat /\ Len(buf) = n + k
  OBVIOUS
<1>2. behind \in Seq(Bytes) /\ Len(behind) = k /\ \A i \in 1 .. k : behind[i] = buf[n + i]
  <2> HIDE DEF n, k
  <2>1. /\ SubSeq(buf, n + 1, n + k) \in Seq(Bytes) /\ Len(SubSeq(buf, n + 1, n + k)) = k
        /\ \A i \in 1 .. k : SubSeq(buf, n + 1, n + k)[i] = buf[n + i]
    BY <1>1
  <2> QED BY <1>1, <2>1 DEF n, k
<1>3. /\ Len(l) = Len(buf) + Len(wire)
      /\ \A i \in 1 .. Len(buf) : l[i] = buf[i]
      /\ \A i \in 1 .. Len(wire) : l[Len(buf) + i] = wire[i]
  BY ConcatIs, Zenon
<1>4. Len(r) = n + Len(c) /\ \A i \in 1 .. Len(c) : r[n + i] = c[i]
  BY ConcatIs, Zenon
<1>5. l = r
  OBVIOUS
<1> HIDE DEF behind, l, r, n, k
<1>6. /\ all \in Seq(Bytes) /\ Len(all) = k + Len(wire)
      /\ \A i \in 1 .. k : all[i] = behind[i]
      /\ \A i \in 1 .. Len(wire) : all[k + i] = wire[i]
  <2>1. /\ all \in Seq(Bytes) /\ Len(all) = Len(behind) + Len(wire)
        /\ \A i \in 1 .. Len(behind) : all[i] = behind[i]
        /\ \A i \in 1 .. Len(wire) : all[Len(behind) + i] = wire[i]
    BY <1>2, ConcatIs, Zenon
  <2> QED BY <1>2, <2>1, Zenon
<1> HIDE DEF all, l, r, n, k
<1>7. Len(all) = Len(c)
  BY <1>1, <1>3, <1>4, <1>5, <1>6
<1>8. \A i \in 1 .. Len(all) : all[i] = c[i]
  <2> TAKE i \in 1 .. Len(all)
  <2> DEFINE j == n + i
  <2>1. i \in Nat /\ i \in 1 .. Len(c) /\ j \in Nat
    BY <1>1, <1>7
  <2>2. r[j] = c[i]
    BY <1>4, <2>1
  <2>3. CASE i <= k
    <3>1. i \in 1 .. k /\ j \in 1 .. Len(buf)
      BY <1>1, <2>1, <2>3
    <3>2. all[i] = behind[i] /\ behind[i] = buf[j]
      BY <1>2, <1>6, <3>1
    <3> HIDE DEF j
    <3>3. l[j] = buf[j]
      BY <1>3, <3>1
    <3> QED BY <1>5, <2>2, <3>2, <3>3
  <2>4. CASE i > k
    <3> DEFINE h == i - k
    <3>1. h \in 1 .. Len(wire) /\ i = k + h /\ j = Len(buf) + h
      BY <1>1, <1>6, <2>1, <2>4
    <3> HIDE DEF h, j
    <3>2. all[k + h] = wire[h] /\ l[Len(buf) + h] = wire[h]
      BY <1>3, <1>6, <3>1
    <3> QED BY <1>5, <2>2, <3>1, <3>2
  <2> QED BY <2>3, <2>4, <2>1, <1>1
<1>9. all = c
  BY <1>6, <1>7, <1>8, SameSeq
<1> QED BY <1>2, <1>9 DEF all, behind

(* A message as it is sent.                                                *)
LEMMA PackIs ==
    ASSUME NEW m \in Letters
    PROVE  /\ m.id \in Shorts /\ ByteSize(m.msg) \in Shorts /\ ByteSize(m.msg) \in Nat
           /\ Serialize(m.msg) \in Seq(Bytes) /\ Len(Serialize(m.msg)) = ByteSize(m.msg)
           /\ HostToNetwork(m.id) \in Seq(Bytes) /\ Len(HostToNetwork(m.id)) = HeadBytes
           /\ HostToNetwork(ByteSize(m.msg)) \in Seq(Bytes)
           /\ Len(HostToNetwork(ByteSize(m.msg))) = HeadBytes
           /\ Pack(m) = (HostToNetwork(m.id) \o HostToNetwork(ByteSize(m.msg)))
                        \o Serialize(m.msg)
           /\ Pack(m) \in Seq(Bytes) /\ Len(Pack(m)) = HeadLen + ByteSize(m.msg)
<1>1. m.id \in Shorts /\ m.msg \in AnyMessage /\ ByteSize(m.msg) < WordRange \div 2
  BY DEF Letters
<1>2. Serialize(m.msg) \in Seq(Bytes) /\ Len(Serialize(m.msg)) = ByteSize(m.msg)
      /\ ByteSize(m.msg) \in Nat
  BY <1>1, MessagesAgree DEF Agrees
<1>3. ByteSize(m.msg) \in Shorts
  BY <1>1, <1>2, Powers DEF Shorts
<1>4. m.id \in Nat
  BY <1>1 DEF Shorts
<1> DEFINE a == HostToNetwork(m.id)
           b == HostToNetwork(ByteSize(m.msg))
           c == Serialize(m.msg)
<1>5. a \in Seq(Bytes) /\ Len(a) = HeadBytes /\ b \in Seq(Bytes) /\ Len(b) = HeadBytes
  BY <1>2, <1>4, HeadType
<1>6. Pack(m) = (a \o b) \o c
  BY <1>2 DEF Pack
<1> HIDE DEF a, b, c
<1>7. c \in Seq(Bytes) /\ Len(c) = ByteSize(m.msg) /\ HeadLen = HeadBytes + HeadBytes
  BY <1>2, HeadType DEF c
<1>8. (a \o b) \o c \in Seq(Bytes) /\ Len((a \o b) \o c) = Len(a) + Len(b) + Len(c)
  BY <1>5, <1>7
<1>9. HeadBytes \in Nat /\ HeadLen \in Nat
  BY HeadType
<1>10. Pack(m) \in Seq(Bytes) /\ Len(Pack(m)) = HeadLen + ByteSize(m.msg)
  BY <1>2, <1>5, <1>6, <1>7, <1>8, <1>9
<1> QED BY <1>1, <1>2, <1>3, <1>5, <1>6, <1>10 DEF a, b, c

(* A message and what is behind it, found in what has arrived.             *)
Found(m, rest, buf, wire) ==
    /\ Len(buf) >= HeadLen => FrontId(buf) = m.id /\ FrontLen(buf) = ByteSize(m.msg)
    /\ Len(buf) >= HeadLen + ByteSize(m.msg) =>
            /\ FrontData(buf) = Serialize(m.msg)
            /\ BehindFront(buf) \in Seq(Bytes)
            /\ BehindFront(buf) \o wire = rest

(* Four sequences, put together from either end.                           *)
InARow(a, b, c, d) == ((a \o b) \o c) \o d = a \o (b \o (c \o d))

(* Four sequences can be put together from either end.                     *)
LEMMA FourInARow == \A a, b, c, d \in Seq(Bytes) : InARow(a, b, c, d)
<1> TAKE a, b, c, d \in Seq(Bytes)
<1> DEFINE ab == a \o b
           cd == c \o d
<1>1. ab \in Seq(Bytes) /\ cd \in Seq(Bytes)
  BY ConcatIs
<1>2. (ab \o c) \o d = ab \o cd
  <2> HIDE DEF ab
  <2>1. Associate(ab, c, d)
    BY <1>1, Grouped, Zenon
  <2> QED BY <2>1 DEF Associate
<1>3. (a \o b) \o cd = a \o (b \o cd)
  <2> HIDE DEF cd
  <2>1. Associate(a, b, cd)
    BY <1>1, Grouped, Zenon
  <2> QED BY <2>1 DEF Associate
<1> QED BY <1>2, <1>3, Zenon DEF InARow

(* The message in front is found as it was sent.                           *)
LEMMA FrontIs ==
    ASSUME NEW m \in Letters, NEW rest \in Seq(Bytes), NEW buf \in Seq(Bytes),
           NEW wire \in Seq(Bytes), buf \o wire = Pack(m) \o rest
    PROVE  Found(m, rest, buf, wire)
<1> DEFINE a == HostToNetwork(m.id)
           b == HostToNetwork(ByteSize(m.msg))
           c == Serialize(m.msg)
           n == ByteSize(m.msg)
<1>1. /\ m.id \in Shorts /\ n \in Shorts /\ n \in Nat
      /\ a \in Seq(Bytes) /\ b \in Seq(Bytes) /\ c \in Seq(Bytes)
      /\ Len(a) = HeadBytes /\ Len(b) = HeadBytes /\ Len(c) = n
      /\ Pack(m) = (a \o b) \o c /\ Pack(m) \in Seq(Bytes) /\ Len(Pack(m)) = HeadLen + n
  BY PackIs
<1>2. HeadBytes \in Nat /\ HeadLen = HeadBytes + HeadBytes /\ HeadLen \in Nat
  BY HeadType
<1>3. NetworkToHost(a) = m.id /\ NetworkToHost(b) = n
  BY <1>1, HeadIsRead
<1> HIDE DEF a, b, c, n
<1>4. Len(buf) \in Nat
  OBVIOUS
<1>5. ASSUME Len(buf) >= HeadLen PROVE FrontId(buf) = m.id /\ FrontLen(buf) = n
  <2> DEFINE d == b \o (c \o rest)
             e == c \o rest
             none == <<>>
  <2>1. e \in Seq(Bytes) /\ d \in Seq(Bytes) /\ none \in Seq(Bytes) /\ Len(none) = 0
    BY <1>1
  <2>0. a \in Seq(Bytes) /\ b \in Seq(Bytes) /\ c \in Seq(Bytes) /\ rest \in Seq(Bytes)
    BY <1>1
  <2>2. buf \o wire = a \o d /\ d = b \o e
    <3>1. InARow(a, b, c, rest)
      BY <2>0, FourInARow
    <3> QED BY <1>1, <3>1 DEF InARow
  <2>3. none \o (a \o d) = a \o d
    <3> HIDE DEF d, e
    <3> QED BY <1>1, <2>1
  <2> HIDE DEF d, e, none
  <2>4. SubSeq(buf, Len(none) + 1, Len(none) + Len(a)) = a
    <3>1. buf \o wire = none \o (a \o d)
      BY <2>2, <2>3
    <3>2. Len(none) + Len(a) <= Len(buf)
      BY <1>1, <1>2, <1>5, <1>4, <2>1
    <3> QED BY <1>1, <2>1, <3>1, <3>2, PartIs
  <2>5. SubSeq(buf, Len(a) + 1, Len(a) + Len(b)) = b
    <3>1. buf \o wire = a \o (b \o e)
      BY <2>2
    <3>2. Len(a) + Len(b) <= Len(buf)
      BY <1>1, <1>2, <1>5, <1>4
    <3> QED BY <1>1, <2>1, <3>1, <3>2, PartIs
  <2>6. Len(none) + 1 = 1 /\ Len(none) + Len(a) = HeadBytes /\ Len(a) + Len(b) = HeadLen
    BY <1>1, <1>2, <2>1
  <2> QED BY <1>1, <1>3, <2>4, <2>5, <2>6 DEF FrontId, FrontLen
<1>6. ASSUME Len(buf) >= HeadLen + n
      PROVE  /\ FrontData(buf) = c
             /\ BehindFront(buf) \in Seq(Bytes) /\ BehindFront(buf) \o wire = rest
  <2> DEFINE ab == a \o b
             p == Pack(m)
  <2>1. FrontLen(buf) = n
    BY <1>1, <1>2, <1>4, <1>5, <1>6
  <2>2. ab \in Seq(Bytes) /\ Len(ab) = HeadLen
    BY <1>1, <1>2
  <2>3. buf \o wire = ab \o (c \o rest)
    <3> HIDE DEF ab
    <3>1. (ab \o c) \o rest = ab \o (c \o rest)
      BY <1>1, <2>2, Middle
    <3> QED BY <1>1, <3>1 DEF ab
  <2> HIDE DEF ab, p
  <2>4. SubSeq(buf, Len(ab) + 1, Len(ab) + Len(c)) = c
    <3>1. Len(ab) + Len(c) <= Len(buf)
      BY <1>1, <1>2, <1>6, <2>2
    <3> QED BY <1>1, <2>2, <2>3, <3>1, PartIs
  <2>5. SubSeq(buf, Len(p) + 1, Len(buf)) \in Seq(Bytes)
        /\ SubSeq(buf, Len(p) + 1, Len(buf)) \o wire = rest
    <3>1. p \in Seq(Bytes) /\ Len(p) = HeadLen + n /\ buf \o wire = p \o rest
      BY <1>1 DEF p
    <3>2. Len(p) <= Len(buf)
      BY <3>1, <1>6
    <3> QED BY <3>1, <3>2, RestIs
  <2>6. Len(p) + 1 = HeadLen + n + 1 /\ Len(ab) + 1 = HeadLen + 1
        /\ Len(ab) + Len(c) = HeadLen + n
    BY <1>1, <1>2, <2>2 DEF p
  <2>7. FrontData(buf) = c
    BY <2>1, <2>4, <2>6 DEF FrontData
  <2>8. BehindFront(buf) = SubSeq(buf, Len(p) + 1, Len(buf))
    BY <2>1, <2>6 DEF BehindFront
  <2> QED BY <2>5, <2>7, <2>8
<1> QED BY <1>5, <1>6 DEF c, n, Found

(* The bytes of messages, one message after the other.                     *)
LEMMA PackedIs ==
    /\ Packed(<<>>) = <<>>
    /\ \A s \in Seq(Letters) : Packed(s) \in Seq(Bytes)
    /\ \A s \in Seq(Letters), m \in Letters : Packed(Append(s, m)) = Packed(s) \o Pack(m)
<1>1. Packed(<<>>) = <<>>
  BY PackedFold!LeftEmpty DEF Packed
<1>2. ASSUME NEW s \in Seq(Letters) PROVE Packed(s) \in Seq(Bytes)
  <2>1. \A b \in Seq(Bytes), x \in Letters : b \o Pack(x) \in Seq(Bytes)
    BY PackIs
  <2>2. <<>> \in Seq(Bytes)
    OBVIOUS
  <2>3. PackedFold!FromLeft(<<>>, s) \in Seq(Bytes)
    BY <2>1, <2>2, PackedFold!LeftType
  <2> QED BY <2>3 DEF Packed
<1>3. ASSUME NEW s \in Seq(Letters), NEW m \in Letters
      PROVE  Packed(Append(s, m)) = Packed(s) \o Pack(m)
  <2>1. PackedFold!FromLeft(<<>>, Append(s, m)) = PackedFold!FromLeft(<<>>, s) \o Pack(m)
    BY PackedFold!LeftAppend
  <2> QED BY <2>1 DEF Packed
<1> QED BY <1>1, <1>2, <1>3

(* Sequences of messages put together.                                     *)
LEMMA LettersJoin ==
    ASSUME NEW a \in Seq(Letters), NEW b \in Seq(Letters), NEW x \in Letters
    PROVE  /\ a \o b \in Seq(Letters) /\ Append(a, x) \in Seq(Letters)
           /\ <<x>> \o b \in Seq(Letters)
           /\ Append(a \o b, x) = a \o Append(b, x)
           /\ Append(a, x) \o b = a \o (<<x>> \o b)
<1> DEFINE p == Append(a \o b, x)
           q == a \o Append(b, x)
           r == Append(a, x) \o b
           t == a \o (<<x>> \o b)
<1>1. /\ p \in Seq(Letters) /\ q \in Seq(Letters) /\ r \in Seq(Letters) /\ t \in Seq(Letters)
      /\ Len(p) = Len(a) + Len(b) + 1 /\ Len(q) = Len(a) + Len(b) + 1
      /\ Len(r) = Len(a) + Len(b) + 1 /\ Len(t) = Len(a) + Len(b) + 1
  OBVIOUS
<1>2. \A i \in 1 .. Len(p) : p[i] = q[i]
  OBVIOUS
<1>3. \A i \in 1 .. Len(r) : r[i] = t[i]
  OBVIOUS
<1>4. p = q /\ r = t
  <2> HIDE DEF p, q, r, t
  <2>1. p = q
    BY <1>1, <1>2, SameSeq
  <2>2. r = t
    BY <1>1, <1>3, SameSeq
  <2> QED BY <2>1, <2>2
<1> QED BY <1>4

(* The bytes of the first message come first.                              *)
LEMMA PackedInFront ==
    ASSUME NEW m \in Letters
    PROVE  \A t \in Seq(Letters) : Packed(<<m>> \o t) = Pack(m) \o Packed(t)
<1> DEFINE p == Pack(m)
           A == {t \in Seq(Letters) : Packed(<<m>> \o t) = p \o Packed(t)}
<1>0. p \in Seq(Bytes)
  BY PackIs
<1>1. <<>> \in A
  <2>1. <<>> \in Seq(Letters) /\ <<m>> \o <<>> = Append(<<>>, m)
    OBVIOUS
  <2>2. Packed(Append(<<>>, m)) = Packed(<<>>) \o p
    BY <2>1, PackedIs
  <2> HIDE DEF p
  <2>3. <<>> \o p = p /\ p \o <<>> = p
    BY <1>0, Nothing, Zenon
  <2>4. Packed(<<m>> \o <<>>) = p \o Packed(<<>>)
    <3>1. Packed(<<>>) = <<>>
      BY PackedIs
    <3> QED BY <2>1, <2>2, <2>3, <3>1, Zenon
  <2> QED BY <2>1, <2>4, Zenon
<1>2. ASSUME NEW t \in Seq(Letters), NEW x \in Letters, t \in A PROVE Append(t, x) \in A
  <2> DEFINE one == <<m>>
             all == one \o t
             q == Packed(t)
             r == Pack(x)
  <2>1. one \in Seq(Letters)
    OBVIOUS
  <2>2. Append(t, x) \in Seq(Letters)
    OBVIOUS
  <2>3. all \in Seq(Letters) /\ Append(all, x) = one \o Append(t, x)
    <3> HIDE DEF one
    <3> QED BY <2>1, LettersJoin
  <2>4. Packed(all) = p \o q
    BY <1>2
  <2>5. q \in Seq(Bytes) /\ r \in Seq(Bytes)
    BY PackedIs, PackIs
  <2> HIDE DEF all, q, r, p, one
  <2>6. Packed(Append(all, x)) = (p \o q) \o r
    <3>1. Packed(Append(all, x)) = Packed(all) \o Pack(x)
      BY <2>3, PackedIs
    <3> QED BY <2>4, <3>1 DEF r
  <2>7. Packed(Append(t, x)) = q \o r
    BY PackedIs DEF q, r
  <2>8. (p \o q) \o r = p \o (q \o r)
    BY <1>0, <2>5, Assoc, Zenon
  <2>9. Packed(one \o Append(t, x)) = p \o Packed(Append(t, x))
    BY <2>3, <2>6, <2>7, <2>8
  <2> QED BY <2>2, <2>9 DEF one
<1>3. Seq(Letters) \subseteq A
  <2> HIDE DEF A
  <2> QED BY <1>1, <1>2, AppendInduction
<1> QED BY <1>3

----------------------------------------------------------------------------
(* What a connection carries one way: of the messages sent, the first were *)
(* handled, and the bytes of the others are in the buffer and on the wire. *)

(* The bytes of a connection, one way.                                     *)
Ways == [wire : Seq(Bytes), buf : Seq(Bytes)]

CarriedSo(way, sent, ids, got, done, left) ==
    /\ done \in Seq(Letters) /\ left \in Seq(Letters)
    /\ sent = done \o left
    /\ got = Those(done, ids)
    /\ \A i \in DOMAIN done : ~TooLong(done[i])
    /\ Packed(left) = way.buf \o way.wire

Carried(way, sent, ids, got) ==
    way \in Ways /\ \E done, left : CarriedSo(way, sent, ids, got, done, left)

(* Nothing is carried at first.                                            *)
LEMMA CarriedAtFirst ==
    \A ids : Carried([wire |-> <<>>, buf |-> <<>>], <<>>, ids, <<>>)
<1> TAKE ids
<1> DEFINE way == [wire |-> <<>>, buf |-> <<>>]
<1>1. <<>> \in Seq(Letters) /\ <<>> \in Seq(Bytes) /\ <<>> \o <<>> = <<>> /\ DOMAIN <<>> = {}
  OBVIOUS
<1>2. way \in Ways /\ way.buf = <<>> /\ way.wire = <<>>
  BY <1>1 DEF Ways
<1> HIDE DEF way
<1>3. Those(<<>>, ids) = <<>> /\ Packed(<<>>) = <<>>
  BY <1>1, ThoseType, PackedIs
<1>4. \A i \in DOMAIN <<>> : ~TooLong(<<>>[i])
  BY <1>1
<1>5. CarriedSo(way, <<>>, ids, <<>>, <<>>, <<>>)
  BY <1>1, <1>2, <1>3, <1>4, Zenon DEF CarriedSo
<1>6. Carried(way, <<>>, ids, <<>>)
  BY <1>2, <1>5 DEF Carried
<1> QED BY <1>6 DEF way

(* A message that is sent goes behind the others.                          *)
LEMMA CarriedMore ==
    ASSUME NEW way, NEW sent, NEW ids, NEW got, NEW m \in Letters,
           Carried(way, sent, ids, got)
    PROVE  Carried([way EXCEPT !.wire = @ \o Pack(m)], Append(sent, m), ids, got)
<1> DEFINE new == [way EXCEPT !.wire = @ \o Pack(m)]
<1>1. way \in Ways /\ Pack(m) \in Seq(Bytes)
  BY PackIs DEF Carried
<1>2. PICK done, left : CarriedSo(way, sent, ids, got, done, left)
  BY DEF Carried
<1> DEFINE w == way.wire
           b == way.buf
           p == Pack(m)
           v == w \o p
<1>3. w \in Seq(Bytes) /\ b \in Seq(Bytes) /\ p \in Seq(Bytes)
  BY <1>1 DEF Ways
<1>4. v \in Seq(Bytes) /\ (b \o w) \o p = b \o v
  <2> HIDE DEF w, b, p
  <2>1. v \in Seq(Bytes)
    BY <1>3
  <2> QED BY <1>3, <2>1, Assoc, Zenon
<1>5. new \in Ways /\ new.wire = v /\ new.buf = b
  <2> DEFINE n == [way EXCEPT !.wire = v]
  <2>1. new = n
    OBVIOUS
  <2> HIDE DEF v, new
  <2>2. n \in Ways /\ n.wire = v /\ n.buf = way.buf
    BY <1>1, <1>4 DEF Ways
  <2> QED BY <2>1, <2>2
<1>6. /\ done \in Seq(Letters) /\ left \in Seq(Letters) /\ sent = done \o left
      /\ got = Those(done, ids) /\ \A i \in DOMAIN done : ~TooLong(done[i])
      /\ Packed(left) = b \o w
  BY <1>2 DEF CarriedSo
<1>7. Append(left, m) \in Seq(Letters) /\ Append(sent, m) = done \o Append(left, m)
  BY <1>6, LettersJoin
<1> HIDE DEF new, w, b, v
<1>8. Packed(Append(left, m)) = new.buf \o new.wire
  <2>1. Packed(Append(left, m)) = Packed(left) \o Pack(m)
    BY <1>6, PackedIs
  <2> QED BY <2>1, <1>4, <1>5, <1>6
<1>9. CarriedSo(new, Append(sent, m), ids, got, done, Append(left, m))
  BY <1>6, <1>7, <1>8 DEF CarriedSo
<1>10. Carried(new, Append(sent, m), ids, got)
  BY <1>5, <1>9 DEF Carried
<1> QED BY <1>10 DEF new

(* Bytes are their first n and the others.                                 *)
LEMMA Halves ==
    ASSUME NEW s \in Seq(Bytes), NEW n \in 0 .. Len(s)
    PROVE  /\ SubSeq(s, 1, n) \in Seq(Bytes) /\ SubSeq(s, n + 1, Len(s)) \in Seq(Bytes)
           /\ SubSeq(s, 1, n) \o SubSeq(s, n + 1, Len(s)) = s
<1> DEFINE a == SubSeq(s, 1, n)
           b == SubSeq(s, n + 1, Len(s))
           ab == a \o b
<1>1. n \in Nat /\ Len(s) \in Nat /\ n <= Len(s)
  OBVIOUS
<1>2. a \in Seq(Bytes) /\ Len(a) = n /\ \A i \in 1 .. n : a[i] = s[i]
  BY <1>1
<1>3. b \in Seq(Bytes) /\ Len(b) = Len(s) - n /\ \A i \in 1 .. Len(s) - n : b[i] = s[n + i]
  BY <1>1
<1> HIDE DEF a, b
<1>4. /\ ab \in Seq(Bytes) /\ Len(ab) = Len(a) + Len(b)
      /\ \A i \in 1 .. Len(a) : ab[i] = a[i]
      /\ \A i \in 1 .. Len(b) : ab[Len(a) + i] = b[i]
  BY <1>2, <1>3, ConcatIs
<1> HIDE DEF ab
<1>5. \A i \in 1 .. Len(s) : ab[i] = s[i]
  <2> TAKE i \in 1 .. Len(s)
  <2>1. CASE i <= n
    <3>1. i \in 1 .. n
      BY <2>1
    <3> QED BY <3>1, <1>2, <1>4
  <2>2. CASE i > n
    <3> DEFINE j == i - n
    <3>1. j \in 1 .. Len(s) - n /\ i = n + j
      BY <2>2, <1>1
    <3> HIDE DEF j
    <3>2. ab[n + j] = b[j] /\ b[j] = s[n + j]
      BY <3>1, <1>2, <1>3, <1>4
    <3> QED BY <3>1, <3>2
  <2> QED BY <2>1, <2>2, <1>1
<1>6. Len(ab) = Len(s)
  BY <1>1, <1>2, <1>3, <1>4
<1>7. ab = s
  BY <1>4, <1>5, <1>6, SameSeq
<1> QED BY <1>2, <1>3, <1>7 DEF a, b, ab

(* What arrives is carried as before.                                      *)
LEMMA CarriedOn ==
    ASSUME NEW way, NEW sent, NEW ids, NEW got, NEW n \in Nat, Carried(way, sent, ids, got)
    PROVE  Carried(Received(way, n), sent, ids, got)
<1> DEFINE w == way.wire
           b == way.buf
           t == IF n < Len(w) THEN n ELSE Len(w)
           x == SubSeq(w, 1, t)
           y == SubSeq(w, t + 1, Len(w))
           new == [wire |-> y, buf |-> b \o x]
<1>1. w \in Seq(Bytes) /\ b \in Seq(Bytes)
  BY DEF Carried, Ways
<1>2. new = Received(way, n)
  BY DEF Received
<1>3. t \in 0 .. Len(w)
  BY <1>1
<1>4. x \in Seq(Bytes) /\ y \in Seq(Bytes) /\ x \o y = w
  <2> HIDE DEF t, w
  <2> QED BY <1>1, <1>3, Halves
<1> HIDE DEF w, b, t, x, y
<1>5. b \o x \in Seq(Bytes) /\ (b \o x) \o y = b \o w
  <2>1. b \o x \in Seq(Bytes)
    BY <1>1, <1>4
  <2>2. (b \o x) \o y = b \o (x \o y)
    BY <1>1, <1>4, Assoc, Zenon
  <2> QED BY <2>1, <2>2, <1>4
<1> DEFINE bx == b \o x
<1>6. new \in Ways /\ new.buf \o new.wire = b \o w
  <2>1. new.buf = bx /\ new.wire = y /\ new = [wire |-> y, buf |-> bx]
    OBVIOUS
  <2> HIDE DEF new, bx
  <2>2. new \in Ways
    BY <2>1, <1>4, <1>5 DEF Ways, bx
  <2> QED BY <2>1, <2>2, <1>5 DEF bx
<1> HIDE DEF new
<1>7. PICK done, left : CarriedSo(way, sent, ids, got, done, left)
  BY DEF Carried
<1>8. CarriedSo(new, sent, ids, got, done, left)
  BY <1>6, <1>7 DEF CarriedSo, w, b
<1>9. Carried(new, sent, ids, got)
  BY <1>6, <1>8 DEF Carried
<1> QED BY <1>2, <1>9

(* If there are messages there is a first.                                 *)
LEMMA FirstOfSome ==
    ASSUME NEW left \in Seq(Letters), left # <<>>
    PROVE  \E m \in Letters : \E rest \in Seq(Letters) : left = <<m>> \o rest /\ left[1] = m
<1> DEFINE m == left[1]
           rest == SubSeq(left, 2, Len(left))
<1>1. Len(left) \in Nat \ {0} /\ m \in Letters
  OBVIOUS
<1>2. rest \in Seq(Letters) /\ Len(rest) = Len(left) - 1
      /\ \A i \in 1 .. Len(left) - 1 : rest[i] = left[i + 1]
  <2> DEFINE k == Len(left)
  <2>1. k \in Nat \ {0} /\ k = Len(left)
    BY <1>1
  <2> HIDE DEF k
  <2>2. SubSeq(left, 2, k) \in Seq(Letters)
    BY <2>1
  <2>3. Len(SubSeq(left, 2, k)) = k - 1
    BY <2>1
  <2>4. \A i \in 1 .. k - 1 : SubSeq(left, 2, k)[i] = left[i + 1]
    BY <2>1
  <2> QED BY <2>1, <2>2, <2>3, <2>4 DEF k
<1> DEFINE all == <<m>> \o rest
<1> HIDE DEF rest
<1>3. all \in Seq(Letters) /\ Len(all) = Len(left) /\ all[1] = m
      /\ \A i \in 2 .. Len(left) : all[i] = rest[i - 1]
  BY <1>1, <1>2
<1> HIDE DEF all
<1>4. \A i \in 1 .. Len(left) : all[i] = left[i]
  <2> TAKE i \in 1 .. Len(left)
  <2>1. CASE i = 1
    BY <2>1, <1>3
  <2>2. CASE i # 1
    <3> DEFINE j == i - 1
    <3>1. j \in 1 .. Len(left) - 1 /\ j + 1 = i /\ i \in 2 .. Len(left)
      BY <2>2, <1>1
    <3>2. rest[j] = left[j + 1] /\ all[i] = rest[j]
      <4> HIDE DEF j
      <4>1. rest[j] = left[j + 1]
        BY <1>2, <3>1
      <4> USE DEF j
      <4>2. all[i] = rest[j]
        BY <1>3, <3>1
      <4> QED BY <4>1, <4>2
    <3> QED BY <3>1, <3>2
  <2> QED BY <2>1, <2>2
<1>5. all = left
  BY <1>3, <1>4, SameSeq
<1> QED BY <1>1, <1>2, <1>5 DEF all

(* The message in front of what is carried.                                *)
LEMMA InFront ==
    ASSUME NEW way, NEW sent, NEW ids, NEW got, NEW done, NEW left, way \in Ways,
           CarriedSo(way, sent, ids, got, done, left), NEW m \in Letters,
           NEW rest \in Seq(Letters), left = <<m>> \o rest
    PROVE  Found(m, Packed(rest), way.buf, way.wire)
<1> DEFINE b == way.buf
           w == way.wire
           p == Packed(rest)
<1>1. b \in Seq(Bytes) /\ w \in Seq(Bytes) /\ p \in Seq(Bytes)
  BY PackedIs DEF Ways
<1>2. b \o w = Pack(m) \o p
  <2>1. Packed(<<m>> \o rest) = Pack(m) \o Packed(rest)
    BY PackedInFront
  <2> QED BY <2>1 DEF CarriedSo
<1> HIDE DEF b, w, p
<1>3. Found(m, p, b, w)
  BY <1>1, <1>2, FrontIs
<1> QED BY <1>3 DEF b, w, p

(* A message is taken out of the buffer as it was put on the wire.         *)
TakenOut(way, sent, ids, got, m) ==
    /\ m \in Letters /\ \E i \in DOMAIN sent : sent[i] = m
    /\ FrontId(way.buf) = m.id /\ FrontData(way.buf) = Serialize(m.msg)
    /\ m.id \in ids =>
            Carried([way EXCEPT !.buf = BehindFront(@)], sent, ids, Append(got, m))
    /\ m.id \notin ids => Carried([way EXCEPT !.buf = BehindFront(@)], sent, ids, got)

(* retrieveMsg: once FrontIsWhole, the id and the data in front of the     *)
(* buffer are those of a message that was sent, and what is left carries   *)
(* on behind it.                                                           *)
LEMMA CarriedToFront ==
    ASSUME NEW way, NEW sent, NEW ids, NEW got, Carried(way, sent, ids, got),
           FrontIsWhole(way.buf)
    PROVE  \E m : TakenOut(way, sent, ids, got, m)
<1>1. PICK done, left : CarriedSo(way, sent, ids, got, done, left)
  BY DEF Carried
<1>2. /\ way \in Ways /\ way.buf \in Seq(Bytes) /\ way.wire \in Seq(Bytes)
      /\ Len(way.buf) \in Nat
  BY DEF Carried, Ways
<1>3. /\ done \in Seq(Letters) /\ left \in Seq(Letters) /\ sent = done \o left
      /\ got = Those(done, ids) /\ (\A i \in DOMAIN done : ~TooLong(done[i]))
      /\ Packed(left) = way.buf \o way.wire
  BY <1>1 DEF CarriedSo
<1>4. left # <<>>
  <2>1. SUFFICES ASSUME left = <<>> PROVE FALSE
    OBVIOUS
  <2>2. way.buf \o way.wire = <<>>
    BY <1>3, <2>1, PackedIs
  <2>3. Len(way.buf \o way.wire) = Len(way.buf) + Len(way.wire)
    BY <1>2, ConcatIs, Zenon
  <2>4. Len(way.buf) = 0
    <3>1. Len(<<>>) = 0
      OBVIOUS
    <3>2. Len(way.buf) + Len(way.wire) = 0
      BY <2>2, <2>3, <3>1, Zenon
    <3>3. Len(way.wire) \in Nat
      BY <1>2
    <3> DEFINE x == Len(way.buf)
               y == Len(way.wire)
    <3>4. x \in Nat /\ y \in Nat /\ x + y = 0
      BY <1>2, <3>2, <3>3, Zenon
    <3> HIDE DEF x, y
    <3>5. x = 0
      BY <3>4
    <3> QED BY <3>5 DEF x
  <2>5. HeadLen \in Nat \ {0}
    BY HeadType
  <2>6. Len(way.buf) >= HeadLen
    BY DEF FrontIsWhole
  <2> QED BY <2>4, <2>5, <2>6
<1>5. PICK m \in Letters : \E rest \in Seq(Letters) : left = <<m>> \o rest /\ left[1] = m
  BY <1>3, <1>4, FirstOfSome
<1>6. PICK rest \in Seq(Letters) : left = <<m>> \o rest /\ left[1] = m
  BY <1>5
<1>7. /\ Len(way.buf) >= HeadLen =>
            FrontId(way.buf) = m.id /\ FrontLen(way.buf) = ByteSize(m.msg)
      /\ Len(way.buf) >= HeadLen + ByteSize(m.msg) =>
            /\ FrontData(way.buf) = Serialize(m.msg)
            /\ BehindFront(way.buf) \in Seq(Bytes)
            /\ BehindFront(way.buf) \o way.wire = Packed(rest)
  <2>1. Found(m, Packed(rest), way.buf, way.wire)
    BY <1>1, <1>2, <1>6, InFront
  <2> QED BY <2>1 DEF Found
<1>8. Len(way.buf) >= HeadLen
  BY DEF FrontIsWhole
<1>9. FrontLen(way.buf) = ByteSize(m.msg) /\ ByteSize(m.msg) \in Nat /\ HeadLen \in Nat
  BY <1>7, <1>8, PackIs, HeadType
<1>10. Len(way.buf) >= HeadLen + ByteSize(m.msg) /\ ~TooLong(m)
  <2>1. ByteSize(m.msg) \in 0 .. MaxLen /\ Len(way.buf) >= ByteSize(m.msg) + HeadLen
    BY <1>9 DEF FrontIsWhole
  <2> DEFINE z == ByteSize(m.msg)
  <2> HIDE DEF z
  <2>2. z \in Nat /\ z \in 0 .. MaxLen /\ Len(way.buf) >= z + HeadLen
    BY <1>9, <2>1 DEF z
  <2>3. Len(way.buf) >= HeadLen + z /\ ~(z > MaxLen)
    BY <2>2, <1>9, <1>2, RequestsAssumption
  <2> QED BY <2>3 DEF z, TooLong
<1> DEFINE behind == BehindFront(way.buf)
           new == [way EXCEPT !.buf = behind]
           more == Append(done, m)
<1>11. behind \in Seq(Bytes) /\ behind \o way.wire = Packed(rest)
  BY <1>7, <1>10
<1>12. new \in Ways /\ new.buf \o new.wire = Packed(rest)
  <2> HIDE DEF behind
  <2>1. new \in Ways /\ new.buf = behind /\ new.wire = way.wire
    BY <1>2, <1>11 DEF Ways
  <2> QED BY <1>11, <2>1
<1>13. new = [way EXCEPT !.buf = BehindFront(@)]
  OBVIOUS
<1> HIDE DEF behind, new
<1>14. more \in Seq(Letters) /\ sent = more \o rest
  BY <1>3, <1>6, LettersJoin
<1>15. \A i \in DOMAIN more : ~TooLong(more[i])
  <2>1. DOMAIN more = 1 .. Len(done) + 1 /\ DOMAIN done = 1 .. Len(done) /\ Len(done) \in Nat
        /\ more[Len(done) + 1] = m /\ \A i \in 1 .. Len(done) : more[i] = done[i]
    BY <1>3
  <2> HIDE DEF more
  <2> QED BY <2>1, <1>3, <1>10
<1>16. /\ m.id \in ids => Those(more, ids) = Append(got, m)
       /\ m.id \notin ids => Those(more, ids) = got
  BY <1>3, ThoseType
<1> HIDE DEF more
<1>17. CarriedSo(new, sent, ids, Those(more, ids), more, rest)
  BY <1>6, <1>12, <1>14, <1>15 DEF CarriedSo
<1>18. Carried(new, sent, ids, Those(more, ids))
  BY <1>12, <1>17 DEF Carried
<1>19. \E i \in DOMAIN sent : sent[i] = m
  <2> DEFINE i == Len(done) + 1
  <2>1. Len(more) = i /\ more[i] = m /\ i \in Nat \ {0}
    BY <1>3 DEF more
  <2> HIDE DEF i
  <2>2. i \in DOMAIN sent /\ sent[i] = more[i]
    <3>1. Len(rest) \in Nat /\ DOMAIN (more \o rest) = 1 .. (Len(more) + Len(rest))
      BY <1>14
    <3>2. (more \o rest)[i] = more[i]
      BY <1>14, <2>1
    <3> QED BY <1>14, <2>1, <3>1, <3>2
  <2> QED BY <2>1, <2>2
<1>20. TakenOut(way, sent, ids, got, m)
  BY <1>7, <1>8, <1>10, <1>13, <1>16, <1>18, <1>19, Zenon DEF TakenOut
<1> QED BY <1>20

(* What was handled is a beginning of what can be handled,                 *)
LEMMA CarriedIsPrefix ==
    ASSUME NEW way, NEW sent, NEW ids, NEW got, Carried(way, sent, ids, got)
    PROVE  IsPrefix(got, Handleable(sent, ids))
<1>1. PICK done, left : CarriedSo(way, sent, ids, got, done, left)
  BY DEF Carried
<1>2. /\ done \in Seq(Letters) /\ left \in Seq(Letters) /\ sent = done \o left
      /\ got = Those(done, ids) /\ (\A i \in DOMAIN done : ~TooLong(done[i]))
  BY <1>1 DEF CarriedSo
<1>3. IsPrefix(Those(done, ids), Handleable(done \o left, ids))
  BY <1>2, HandleableIs
<1> QED BY <1>2, <1>3

(* and all of it once everything has arrived and nothing more is taken out. *)
LEMMA CarriedToTheEnd ==
    ASSUME NEW way, NEW sent, NEW ids, NEW got, Carried(way, sent, ids, got),
           way.wire = <<>>, ~FrontIsWhole(way.buf)
    PROVE  got = Handleable(sent, ids)
<1>1. PICK done, left : CarriedSo(way, sent, ids, got, done, left)
  BY DEF Carried
<1>2. /\ done \in Seq(Letters) /\ left \in Seq(Letters) /\ sent = done \o left
      /\ got = Those(done, ids) /\ (\A i \in DOMAIN done : ~TooLong(done[i]))
      /\ Packed(left) = way.buf \o way.wire
  BY <1>1 DEF CarriedSo
<1>3. way \in Ways /\ way.buf \in Seq(Bytes) /\ Len(way.buf) \in Nat
  BY DEF Carried, Ways
<1>4. left = <<>> \/ TooLong(left[1])
  <2>1. SUFFICES ASSUME left # <<>> PROVE TooLong(left[1])
    OBVIOUS
  <2>2. PICK m \in Letters : \E rest \in Seq(Letters) : left = <<m>> \o rest /\ left[1] = m
    BY <1>2, <2>1, FirstOfSome
  <2>3. PICK rest \in Seq(Letters) : left = <<m>> \o rest /\ left[1] = m
    BY <2>2
  <2>4. Len(way.buf) >= HeadLen =>
            FrontId(way.buf) = m.id /\ FrontLen(way.buf) = ByteSize(m.msg)
    <3>1. Found(m, Packed(rest), way.buf, way.wire)
      BY <1>1, <1>3, <2>3, InFront
    <3> QED BY <3>1 DEF Found
  <2> DEFINE z == ByteSize(m.msg)
             p == Pack(m)
             q == Packed(rest)
  <2>5. z \in Nat /\ p \in Seq(Bytes) /\ q \in Seq(Bytes) /\ Len(p) = HeadLen + z
        /\ HeadLen \in Nat
    BY PackIs, PackedIs, HeadType
  <2>6. way.buf = p \o q
    <3>1. Packed(left) = p \o q
      BY <2>3, PackedInFront
    <3>2. way.buf \o <<>> = way.buf
      BY <1>3, Nothing
    <3> QED BY <1>2, <3>1, <3>2, Zenon
  <2>7. Len(way.buf) >= HeadLen + z
    <3> HIDE DEF p, q, z
    <3>1. Len(p \o q) = Len(p) + Len(q)
      BY <2>5, ConcatIs, Zenon
    <3>2. Len(q) \in Nat
      BY <2>5
    <3>3. Len(way.buf) = Len(p) + Len(q)
      BY <2>6, <3>1, Zenon
    <3> QED BY <2>5, <3>2, <3>3
  <2>8. FrontLen(way.buf) = z
    BY <2>4, <2>5, <2>7, <1>3
  <2> HIDE DEF p, q, z
  <2>9. Len(way.buf) >= HeadLen /\ Len(way.buf) >= z + HeadLen
    BY <2>5, <2>7, <1>3
  <2>10. z \notin 0 .. MaxLen
    BY <2>8, <2>9 DEF FrontIsWhole
  <2>11. z > MaxLen
    BY <2>5, <2>10, RequestsAssumption
  <2> QED BY <2>3, <2>11 DEF z, TooLong
<1>5. Handleable(done \o left, ids) = Those(done, ids)
  BY <1>2, <1>4, HandleableIs
<1> QED BY <1>2, <1>5

(* What was handled was sent, with an id that is known.                    *)
LEMMA CarriedWasSent ==
    ASSUME NEW way, NEW sent, NEW ids, NEW got, Carried(way, sent, ids, got)
    PROVE  /\ got \in Seq(Letters)
           /\ \A i \in DOMAIN got :
                got[i].id \in ids /\ \E j \in DOMAIN sent : sent[j] = got[i]
<1>1. PICK done, left : CarriedSo(way, sent, ids, got, done, left)
  BY DEF Carried
<1>2. /\ done \in Seq(Letters) /\ left \in Seq(Letters) /\ sent = done \o left
      /\ got = Those(done, ids)
  BY <1>1 DEF CarriedSo
<1>3. got \in Seq(Letters)
  BY <1>2, ThoseType
<1>4. \A i \in 1 .. Len(got) : got[i].id \in ids /\ \E j \in DOMAIN done : done[j] = got[i]
  BY <1>2, ThoseMembers
<1>5. \A j \in DOMAIN done : j \in DOMAIN sent /\ sent[j] = done[j]
  BY <1>2
<1>6. DOMAIN got = 1 .. Len(got)
  BY <1>3
<1> QED BY <1>3, <1>4, <1>5, <1>6

----------------------------------------------------------------------------
(* Routers.                                                                *)

(* registerMsgRouter adds a callback and keeps the others.                 *)
LEMMA Registered ==
    ASSUME NEW r, NEW id, NEW callback, id \notin DOMAIN r
    PROVE  /\ DOMAIN registerMsgRouter(r, id, callback) = DOMAIN r \cup {id}
           /\ registerMsgRouter(r, id, callback)[id] = callback
           /\ \A i \in DOMAIN r : registerMsgRouter(r, id, callback)[i] = r[i]
BY DEF registerMsgRouter

(* The ids of the messages, from lars.proto.                               *)
LEMMA IdsAre ==
    /\ ID.GetRouteRequest = 1 /\ ID.GetRouteResponse = 2 /\ ID.GetHostRequest = 3
    /\ ID.GetHostResponse = 4 /\ ID.API_GetRouteRequest = 5 /\ ID.API_GetRouteResponse = 6
    /\ ID.ReportStatusRequest = 7 /\ ID.ReportRequest = 8
BY DEF ID

(* What the agent registers.                                               *)
LEMMA AgentRouterIs ==
    /\ DOMAIN AgentRouter = {3, 5, 8}
    /\ AgentRouter[3] = "msgGetTheBestHostInfoCB" /\ AgentRouter[5] = "msgGetAllHostsCB"
    /\ AgentRouter[8] = "msgReportStatusCB"
<1> DEFINE r0 == <<>>
           r1 == registerMsgRouter(r0, 3, "msgGetTheBestHostInfoCB")
           r2 == registerMsgRouter(r1, 8, "msgReportStatusCB")
           r3 == registerMsgRouter(r2, 5, "msgGetAllHostsCB")
<1>0. DOMAIN r0 = {}
  OBVIOUS
<1>1. AgentRouter = r3
  BY IdsAre DEF AgentRouter
<1> HIDE DEF r0, r1, r2, r3
<1>2. DOMAIN r1 = {3} /\ r1[3] = "msgGetTheBestHostInfoCB"
  BY <1>0 DEF r1, registerMsgRouter
<1>3. DOMAIN r2 = {3, 8} /\ r2[8] = "msgReportStatusCB" /\ r2[3] = "msgGetTheBestHostInfoCB"
  BY <1>2 DEF r2, registerMsgRouter
<1>4. DOMAIN r3 = {3, 5, 8} /\ r3[5] = "msgGetAllHostsCB" /\ r3[8] = "msgReportStatusCB"
      /\ r3[3] = "msgGetTheBestHostInfoCB"
  BY <1>3 DEF r3, registerMsgRouter
<1> QED BY <1>1, <1>4

(* What a client of the agent registers.                                   *)
LEMMA AgentClientRouterIs ==
    /\ DOMAIN AgentClientRouter = {4, 6}
    /\ AgentClientRouter[4] = "msgRecvTheBestHostInfoCB"
    /\ AgentClientRouter[6] = "msgRecvAllHostsCB"
<1> DEFINE r0 == <<>>
           r1 == registerMsgRouter(r0, 4, "msgRecvTheBestHostInfoCB")
           r2 == registerMsgRouter(r1, 6, "msgRecvAllHostsCB")
<1>0. DOMAIN r0 = {}
  OBVIOUS
<1>1. AgentClientRouter = r2
  BY IdsAre DEF AgentClientRouter
<1> HIDE DEF r0, r1, r2
<1>2. DOMAIN r1 = {4} /\ r1[4] = "msgRecvTheBestHostInfoCB"
  BY <1>0 DEF r1, registerMsgRouter
<1>3. DOMAIN r2 = {4, 6} /\ r2[4] = "msgRecvTheBestHostInfoCB" /\ r2[6] = "msgRecvAllHostsCB"
  BY <1>2 DEF r2, registerMsgRouter
<1> QED BY <1>1, <1>3

(* What the DNS service and the reporter register.                         *)
LEMMA OtherRoutersAre ==
    /\ DOMAIN DnsRouter = {1} /\ DnsRouter[1] = "msgGetRouteCB"
    /\ DOMAIN ReporterRouter = {7} /\ ReporterRouter[7] = "msgGetReportStatusCB"
<1> DEFINE r0 == <<>>
           r1 == registerMsgRouter(r0, 1, "msgGetRouteCB")
           r2 == registerMsgRouter(r0, 7, "msgGetReportStatusCB")
<1>0. DOMAIN r0 = {}
  OBVIOUS
<1>1. DnsRouter = r1 /\ ReporterRouter = r2
  BY IdsAre DEF DnsRouter, ReporterRouter
<1> HIDE DEF r0, r1, r2
<1>2. DOMAIN r1 = {1} /\ r1[1] = "msgGetRouteCB"
  BY <1>0 DEF r1, registerMsgRouter
<1>3. DOMAIN r2 = {7} /\ r2[7] = "msgGetReportStatusCB"
  BY <1>0 DEF r2, registerMsgRouter
<1> QED BY <1>1, <1>2, <1>3

(* Who knows which messages, and what they are.                            *)
LEMMA RoutersAre ==
    /\ Router("agent") = AgentRouter /\ Router("dns") = DnsRouter
    /\ Router("reporter") = ReporterRouter
    /\ server = "agent" => ServerIds = {3, 5, 8} /\ ClientIds = {4, 6}
    /\ server = "dns" => ServerIds = {1} /\ ClientIds = {2}
    /\ server = "reporter" => ServerIds = {7} /\ ClientIds = {2}
<1>1. /\ Router("agent") = AgentRouter /\ Router("dns") = DnsRouter
      /\ Router("reporter") = ReporterRouter
  BY DEF Router
<1> QED BY <1>1, AgentRouterIs, AgentClientRouterIs, OtherRoutersAre, IdsAre
        DEF ServerIds, ClientIds

(* The message of each id.                                                 *)
LEMMA MessageTypeIs ==
    /\ MessageType(1) = GetRouteRequestType /\ MessageType(5) = GetRouteRequestType
    /\ MessageType(2) = GetRouteResponseType /\ MessageType(6) = GetRouteResponseType
    /\ MessageType(3) = GetHostRequestType /\ MessageType(4) = GetHostResponseType
    /\ MessageType(8) = ReportRequestType /\ MessageType(7) = ReportStatusRequestType
BY IdsAre DEF MessageType

----------------------------------------------------------------------------
(* Messages as they are read.                                              *)

(* Zero is a number of every width.                                        *)
LEMMA ZeroIsThere == 0 \in Words /\ 0 \in Longs /\ 0 \in Ints
BY Powers DEF Words, Longs, Ints

(* An empty message is a message.                                          *)
LEMMA ClearMessages ==
    /\ ClearGetRouteRequest \in GetRouteRequestType
    /\ ClearGetRouteResponse \in GetRouteResponseType
    /\ ClearGetHostRequest \in GetHostRequestType
    /\ ClearGetHostResponse \in GetHostResponseType
    /\ ClearReportRequest \in ReportRequestType
    /\ ClearReportStatusRequest \in ReportStatusRequestType
    /\ ClearHostInfo \in HostInfoType
    /\ ClearHostCallResult \in HostCallResultType
<1>1. ClearGetRouteRequest \in GetRouteRequestType
  BY ZeroIsThere DEF ClearGetRouteRequest, GetRouteRequestType
<1>2. ClearGetRouteResponse \in GetRouteResponseType
  BY ZeroIsThere DEF ClearGetRouteResponse, GetRouteResponseType
<1>3. ClearGetHostRequest \in GetHostRequestType
  BY ZeroIsThere DEF ClearGetHostRequest, GetHostRequestType
<1>4. ClearGetHostResponse \in GetHostResponseType
  BY ZeroIsThere DEF ClearGetHostResponse, GetHostResponseType
<1>5. ClearReportRequest \in ReportRequestType
  BY ZeroIsThere DEF ClearReportRequest, ReportRequestType
<1>6. ClearReportStatusRequest \in ReportStatusRequestType
  BY ZeroIsThere DEF ClearReportStatusRequest, ReportStatusRequestType
<1>7. ClearHostInfo \in HostInfoType
  BY ZeroIsThere DEF ClearHostInfo, HostInfoType
<1>8. ClearHostCallResult \in HostCallResultType
  BY ZeroIsThere DEF ClearHostCallResult, HostCallResultType
<1> QED BY <1>1, <1>2, <1>3, <1>4, <1>5, <1>6, <1>7, <1>8

(* A field that is set replaces one that is not.                           *)
LEMMA LatestOfNothing == \A n \in Int : Latest(0, n) = n
BY DEF Latest

(* Words, longs and ints are numbers.                                      *)
LEMMA Numbers ==
    /\ \A n \in Words : n \in Int
    /\ \A n \in Longs : n \in Int
    /\ \A n \in Ints : n \in Int
BY Powers DEF Words, Longs, Ints

(* To merge a message into an empty one is to copy it.                     *)
LEMMA CopyGetRouteRequestIs ==
    \A x \in GetRouteRequestType : MergeGetRouteRequest(ClearGetRouteRequest, x) = x
<1> TAKE x \in GetRouteRequestType
<1>1. x.modid \in Int /\ x.cmdid \in Int /\ x.unknown = <<>>
      /\ x = [modid |-> x.modid, cmdid |-> x.cmdid, unknown |-> x.unknown]
  BY Numbers DEF GetRouteRequestType
<1>2. <<>> \o <<>> = <<>>
  OBVIOUS
<1>3. MergeGetRouteRequest(ClearGetRouteRequest, x) =
        [modid |-> x.modid, cmdid |-> x.cmdid, unknown |-> <<>> \o x.unknown]
  BY <1>1, LatestOfNothing DEF MergeGetRouteRequest, ClearGetRouteRequest
<1> QED BY <1>1, <1>2, <1>3, Zenon

(* A host request.                                                         *)
LEMMA CopyGetHostRequestIs ==
    \A x \in GetHostRequestType : MergeGetHostRequest(ClearGetHostRequest, x) = x
<1> TAKE x \in GetHostRequestType
<1>1. x.seq \in Int /\ x.modid \in Int /\ x.cmdid \in Int /\ x.unknown = <<>>
      /\ x = [seq |-> x.seq, modid |-> x.modid, cmdid |-> x.cmdid, unknown |-> x.unknown]
  BY Numbers DEF GetHostRequestType
<1>2. <<>> \o <<>> = <<>>
  OBVIOUS
<1>3. MergeGetHostRequest(ClearGetHostRequest, x) =
        [seq |-> x.seq, modid |-> x.modid, cmdid |-> x.cmdid, unknown |-> <<>> \o x.unknown]
  BY <1>1, LatestOfNothing DEF MergeGetHostRequest, ClearGetHostRequest
<1> QED BY <1>1, <1>2, <1>3, Zenon

(* A host.                                                                 *)
LEMMA CopyHostInfoIs == \A x \in HostInfoType : MergeHostInfo(ClearHostInfo, x) = x
<1> TAKE x \in HostInfoType
<1>1. x.ip \in Int /\ x.port \in Int /\ x.unknown = <<>>
      /\ x = [ip |-> x.ip, port |-> x.port, unknown |-> x.unknown]
  BY Numbers DEF HostInfoType
<1>2. <<>> \o <<>> = <<>>
  OBVIOUS
<1>3. MergeHostInfo(ClearHostInfo, x) =
        [ip |-> x.ip, port |-> x.port, unknown |-> <<>> \o x.unknown]
  BY <1>1, LatestOfNothing DEF MergeHostInfo, ClearHostInfo
<1> QED BY <1>1, <1>2, <1>3, Zenon

(* A result.                                                               *)
LEMMA CopyHostCallResultIs ==
    \A x \in HostCallResultType : MergeHostCallResult(ClearHostCallResult, x) = x
<1> TAKE x \in HostCallResultType
<1>1. x.ip \in Int /\ x.port \in Int /\ x.succ \in Int /\ x.err \in Int
      /\ x.overload \in BOOLEAN /\ x.unknown = <<>>
      /\ x = [ip |-> x.ip, port |-> x.port, succ |-> x.succ, err |-> x.err,
              overload |-> x.overload, unknown |-> x.unknown]
  BY Numbers DEF HostCallResultType
<1>2. <<>> \o <<>> = <<>>
  OBVIOUS
<1>3. LatestFlag(FALSE, x.overload) = x.overload
  BY <1>1 DEF LatestFlag
<1>4. MergeHostCallResult(ClearHostCallResult, x) =
        [ip |-> Latest(0, x.ip), port |-> Latest(0, x.port), succ |-> Latest(0, x.succ),
         err |-> Latest(0, x.err), overload |-> LatestFlag(FALSE, x.overload),
         unknown |-> <<>> \o x.unknown]
  BY DEF MergeHostCallResult, ClearHostCallResult
<1>5. /\ Latest(0, x.ip) = x.ip /\ Latest(0, x.port) = x.port
      /\ Latest(0, x.succ) = x.succ /\ Latest(0, x.err) = x.err
  BY <1>1, LatestOfNothing
<1> QED BY <1>1, <1>2, <1>3, <1>4, <1>5, Zenon

(* A host in a message, or none.                                           *)
LEMMA CopyHostIs ==
    \A x : x.host \in HostInfoType \cup {NoHost} =>
        \A to : to.host = NoHost => MergeHost(to, x) = x.host
<1> TAKE x
<1> HAVE x.host \in HostInfoType \cup {NoHost}
<1> TAKE to
<1> HAVE to.host = NoHost
<1>1. CASE x.host = NoHost
  BY <1>1 DEF MergeHost, HasHost
<1>2. CASE x.host \in HostInfoType
  <2>1. HasHost(x)
    BY <1>2, HostIsThere DEF HasHost
  <2>2. HostOf(to) = ClearHostInfo
    BY DEF HostOf, HasHost
  <2> QED BY <1>2, <2>1, <2>2, CopyHostInfoIs DEF MergeHost
<1> QED BY <1>1, <1>2

(* A host response.                                                        *)
LEMMA CopyGetHostResponseIs ==
    \A x \in GetHostResponseType : MergeGetHostResponse(ClearGetHostResponse, x) = x
<1> TAKE x \in GetHostResponseType
<1>1. x.seq \in Int /\ x.modid \in Int /\ x.cmdid \in Int /\ x.retcode \in Int
      /\ x.host \in HostInfoType \cup {NoHost} /\ x.unknown = <<>>
      /\ x = [seq |-> x.seq, modid |-> x.modid, cmdid |-> x.cmdid, retcode |-> x.retcode,
              host |-> x.host, unknown |-> x.unknown]
  BY Numbers DEF GetHostResponseType
<1>2. <<>> \o <<>> = <<>>
  OBVIOUS
<1>3. MergeHost(ClearGetHostResponse, x) = x.host
  BY <1>1, CopyHostIs DEF ClearGetHostResponse
<1>4. MergeGetHostResponse(ClearGetHostResponse, x) =
        [seq |-> Latest(0, x.seq), modid |-> Latest(0, x.modid),
         cmdid |-> Latest(0, x.cmdid), retcode |-> Latest(0, x.retcode),
         host |-> MergeHost(ClearGetHostResponse, x), unknown |-> <<>> \o x.unknown]
  BY DEF MergeGetHostResponse, ClearGetHostResponse
<1>5. /\ Latest(0, x.seq) = x.seq /\ Latest(0, x.modid) = x.modid
      /\ Latest(0, x.cmdid) = x.cmdid /\ Latest(0, x.retcode) = x.retcode
  BY <1>1, LatestOfNothing
<1> QED BY <1>1, <1>2, <1>3, <1>4, <1>5, Zenon

(* A report.                                                               *)
LEMMA CopyReportRequestIs ==
    \A x \in ReportRequestType : MergeReportRequest(ClearReportRequest, x) = x
<1> TAKE x \in ReportRequestType
<1>1. x.modid \in Int /\ x.cmdid \in Int /\ x.retcode \in Int
      /\ x.host \in HostInfoType \cup {NoHost} /\ x.unknown = <<>>
      /\ x = [modid |-> x.modid, cmdid |-> x.cmdid, host |-> x.host, retcode |-> x.retcode,
              unknown |-> x.unknown]
  BY Numbers DEF ReportRequestType
<1>2. <<>> \o <<>> = <<>>
  OBVIOUS
<1>3. MergeHost(ClearReportRequest, x) = x.host
  BY <1>1, CopyHostIs DEF ClearReportRequest
<1>4. MergeReportRequest(ClearReportRequest, x) =
        [modid |-> Latest(0, x.modid), cmdid |-> Latest(0, x.cmdid),
         host |-> MergeHost(ClearReportRequest, x), retcode |-> Latest(0, x.retcode),
         unknown |-> <<>> \o x.unknown]
  BY DEF MergeReportRequest, ClearReportRequest
<1>5. /\ Latest(0, x.modid) = x.modid /\ Latest(0, x.cmdid) = x.cmdid
      /\ Latest(0, x.retcode) = x.retcode
  BY <1>1, LatestOfNothing
<1> QED BY <1>1, <1>2, <1>3, <1>4, <1>5, Zenon

(* A route response.                                                       *)
LEMMA CopyGetRouteResponseIs ==
    \A x \in GetRouteResponseType : MergeGetRouteResponse(ClearGetRouteResponse, x) = x
<1> TAKE x \in GetRouteResponseType
<1>1. x.modid \in Int /\ x.cmdid \in Int /\ x.host \in Seq(HostInfoType) /\ x.unknown = <<>>
      /\ x = [modid |-> x.modid, cmdid |-> x.cmdid, host |-> x.host, unknown |-> x.unknown]
  BY Numbers DEF GetRouteResponseType
<1>2. <<>> \o <<>> = <<>>
  OBVIOUS
<1>3. <<>> \o x.host = x.host
  BY <1>1
<1>4. MergeGetRouteResponse(ClearGetRouteResponse, x) =
        [modid |-> Latest(0, x.modid), cmdid |-> Latest(0, x.cmdid),
         host |-> <<>> \o x.host, unknown |-> <<>> \o x.unknown]
  BY DEF MergeGetRouteResponse, ClearGetRouteResponse
<1>5. Latest(0, x.modid) = x.modid /\ Latest(0, x.cmdid) = x.cmdid
  BY <1>1, LatestOfNothing
<1> QED BY <1>1, <1>2, <1>3, <1>4, <1>5, Zenon

(* A status report.                                                        *)
LEMMA CopyReportStatusRequestIs ==
    \A x \in ReportStatusRequestType :
        MergeReportStatusRequest(ClearReportStatusRequest, x) = x
<1> TAKE x \in ReportStatusRequestType
<1>1. x.modid \in Int /\ x.cmdid \in Int /\ x.caller \in Int /\ x.ts \in Int
      /\ x.results \in Seq(HostCallResultType) /\ x.unknown = <<>>
      /\ x = [modid |-> x.modid, cmdid |-> x.cmdid, caller |-> x.caller, ts |-> x.ts,
              results |-> x.results, unknown |-> x.unknown]
  BY Numbers DEF ReportStatusRequestType
<1>2. <<>> \o <<>> = <<>>
  OBVIOUS
<1>3. <<>> \o x.results = x.results
  BY <1>1
<1>4. MergeReportStatusRequest(ClearReportStatusRequest, x) =
        [modid |-> Latest(0, x.modid), cmdid |-> Latest(0, x.cmdid),
         caller |-> Latest(0, x.caller), ts |-> Latest(0, x.ts),
         results |-> <<>> \o x.results, unknown |-> <<>> \o x.unknown]
  BY DEF MergeReportStatusRequest, ClearReportStatusRequest
<1>5. /\ Latest(0, x.modid) = x.modid /\ Latest(0, x.cmdid) = x.cmdid
      /\ Latest(0, x.caller) = x.caller /\ Latest(0, x.ts) = x.ts
  BY <1>1, LatestOfNothing
<1> QED BY <1>1, <1>2, <1>3, <1>4, <1>5, Zenon

(* What was written is read: each kind of message, whatever its fields and *)
(* the length of its lists, comes out of its bytes as it was               *)
(* (_InternalSerialize, _InternalParse).                                   *)
THEOREM ReadBack ==
    /\ \A x \in GetRouteRequestType :
            ParseGetRouteRequest(ClearGetRouteRequest, Serialize(x)) = x
    /\ \A x \in GetRouteResponseType :
            ParseGetRouteResponse(ClearGetRouteResponse, Serialize(x)) = x
    /\ \A x \in GetHostRequestType :
            ParseGetHostRequest(ClearGetHostRequest, Serialize(x)) = x
    /\ \A x \in GetHostResponseType :
            ParseGetHostResponse(ClearGetHostResponse, Serialize(x)) = x
    /\ \A x \in ReportRequestType :
            ParseReportRequest(ClearReportRequest, Serialize(x)) = x
    /\ \A x \in ReportStatusRequestType :
            ParseReportStatusRequest(ClearReportStatusRequest, Serialize(x)) = x
<1>1. \A x \in GetRouteRequestType :
            ParseGetRouteRequest(ClearGetRouteRequest, Serialize(x)) = x
  BY ClearMessages, GetRouteRequestIs, GetRouteRequestIsRead, CopyGetRouteRequestIs
<1>2. \A x \in GetRouteResponseType :
            ParseGetRouteResponse(ClearGetRouteResponse, Serialize(x)) = x
  BY ClearMessages, GetRouteResponseIs, GetRouteResponseIsRead, CopyGetRouteResponseIs
<1>3. \A x \in GetHostRequestType :
            ParseGetHostRequest(ClearGetHostRequest, Serialize(x)) = x
  BY ClearMessages, GetHostRequestIs, GetHostRequestIsRead, CopyGetHostRequestIs
<1>4. \A x \in GetHostResponseType :
            ParseGetHostResponse(ClearGetHostResponse, Serialize(x)) = x
  BY ClearMessages, GetHostResponseIs, GetHostResponseIsRead, CopyGetHostResponseIs
<1>5. \A x \in ReportRequestType :
            ParseReportRequest(ClearReportRequest, Serialize(x)) = x
  BY ClearMessages, ReportRequestIs, ReportRequestIsRead, CopyReportRequestIs
<1>6. \A x \in ReportStatusRequestType :
            ParseReportStatusRequest(ClearReportStatusRequest, Serialize(x)) = x
  BY ClearMessages, ReportStatusRequestIs, ReportStatusRequestIsRead,
     CopyReportStatusRequestIs
<1> QED BY <1>1, <1>2, <1>3, <1>4, <1>5, <1>6

----------------------------------------------------------------------------
(* Modules as keys.                                                        *)

(* Two words in a long, whether or not it went round.                      *)
LEMMA TwoWords ==
    \A t, c \in Words :
        LET n == (WordRange * t) + c
        IN  /\ n \in 0 .. LongRange - 1 /\ n \div WordRange = t /\ n % WordRange = c
            /\ n % LongRange = n /\ (n - LongRange) % LongRange = n
<1> TAKE t, c \in Words
<1> DEFINE W == WordRange
           L == LongRange
           n == (W * t) + c
<1>1. W \in Nat \ {0} /\ L \in Nat \ {0} /\ L = W * W /\ t \in 0 .. W - 1 /\ c \in 0 .. W - 1
  BY Powers DEF Words
<1> HIDE DEF W, L
<1>2. n \in 0 .. L - 1
  <2>1. W * t \in Nat /\ W * t <= W * (W - 1)
    BY <1>1
  <2>2. W * (W - 1) = L - W
    BY <1>1
  <2> QED BY <1>1, <2>1, <2>2
<1> HIDE DEF n
<1>3. n \div W = t /\ n % W = c
  <2>1. n \in Int /\ n = (W * t) + c
    BY <1>2, <1>1 DEF n
  <2> QED BY <1>1, <2>1, DivisionIsUnique
<1>4. n % L = n
  BY <1>1, <1>2, SmallDivision
<1>5. (n - L) % L = n
  <2>1. n - L \in -L .. -1 /\ (n - L) + L = n
    BY <1>1, <1>2
  <2> QED BY <1>1, <2>1, NegativeRemainder
<1> QED BY <1>2, <1>3, <1>4, <1>5 DEF n, W, L

(* The key gives the cmdid back, and the modid if the cmdid is no negative *)
(* int (DnsService.cc:81, DnsSubscribe.cc:85-86).                          *)
THEOREM KeyIs ==
    \A modid, cmdid \in Words :
        /\ Key(modid, cmdid) \in 0 .. LongRange - 1
        /\ CmdidOf(Key(modid, cmdid)) = cmdid
        /\ cmdid < WordRange \div 2 => ModidOf(Key(modid, cmdid)) = modid
<1> TAKE modid, cmdid \in Words
<1> DEFINE W == WordRange
           L == LongRange
           H == W \div 2
           N(t) == (W * t) + cmdid
           x == (Signed(modid, W) * W) + Signed(cmdid, W)
<1>1. /\ W \in Nat \ {0} /\ L \in Nat \ {0} /\ L = W * W /\ H \in Nat /\ W = 2 * H
      /\ H >= 128 /\ modid \in 0 .. W - 1 /\ cmdid \in 0 .. W - 1
  BY Powers DEF Words
<1>2. Key(modid, cmdid) = x % L
  BY DEF Key
<1>3. Signed(modid, W) = IF modid >= H THEN modid - W ELSE modid
  BY DEF Signed
<1>4. Signed(cmdid, W) = IF cmdid >= H THEN cmdid - W ELSE cmdid
  BY DEF Signed
<1>5. \E t \in Words : /\ x = N(t) \/ x = N(t) - L
                       /\ cmdid < H => t = modid
  <2>1. Words = 0 .. W - 1
    BY DEF Words
  <2> HIDE DEF W, L, H
  <2>2. CASE cmdid < H
    <3>1. CASE modid >= H
      <4>1. x = ((modid - W) * W) + cmdid
        BY <1>1, <1>3, <1>4, <2>2, <3>1
      <4>2. (modid - W) * W = (W * modid) - L
        BY <1>1
      <4> QED BY <1>1, <2>1, <4>1, <4>2
    <3>2. CASE modid < H
      <4>1. x = (modid * W) + cmdid /\ modid * W = W * modid
        BY <1>1, <1>3, <1>4, <2>2, <3>2
      <4> QED BY <1>1, <2>1, <4>1
    <3> QED BY <1>1, <3>1, <3>2
  <2>3. CASE cmdid >= H
    <3>1. CASE modid >= H
      <4>1. x = ((modid - W) * W) + (cmdid - W)
        BY <1>1, <1>3, <1>4, <2>3, <3>1
      <4>2. (modid - W) * W = (W * (modid - 1)) + W - L /\ modid - 1 \in 0 .. W - 1
        BY <1>1, <3>1
      <4>3. x = N(modid - 1) - L
        BY <1>1, <4>1, <4>2
      <4> DEFINE t == modid - 1
      <4>4. t \in Words /\ ~(cmdid < H)
        BY <2>1, <2>3, <4>2, <1>1
      <4>5. x = N(t) - L
        BY <4>3
      <4> HIDE DEF t, x, N
      <4> QED BY <4>4, <4>5
    <3>2. CASE modid < H /\ modid # 0
      <4>1. x = (modid * W) + (cmdid - W)
        BY <1>1, <1>3, <1>4, <2>3, <3>2
      <4>2. modid * W = (W * (modid - 1)) + W /\ modid - 1 \in 0 .. W - 1
        BY <1>1, <3>2
      <4>3. x = N(modid - 1)
        BY <1>1, <4>1, <4>2
      <4> DEFINE t == modid - 1
      <4>4. t \in Words /\ ~(cmdid < H)
        BY <2>1, <2>3, <4>2, <1>1
      <4>5. x = N(t)
        BY <4>3
      <4> HIDE DEF t, x, N
      <4> QED BY <4>4, <4>5
    <3>3. CASE modid = 0
      <4>1. x = cmdid - W
        BY <1>1, <1>3, <1>4, <2>3, <3>3
      <4>2. W * (W - 1) = L - W /\ W - 1 \in 0 .. W - 1
        BY <1>1
      <4>3. x = N(W - 1) - L
        BY <1>1, <4>1, <4>2
      <4> DEFINE t == W - 1
      <4>4. t \in Words /\ ~(cmdid < H)
        BY <2>1, <2>3, <4>2, <1>1
      <4>5. x = N(t) - L
        BY <4>3
      <4> HIDE DEF t, x, N
      <4> QED BY <4>4, <4>5
    <3> QED BY <1>1, <3>1, <3>2, <3>3
  <2> QED BY <1>1, <2>2, <2>3
<1>6. PICK t \in Words : (x = N(t) \/ x = N(t) - L) /\ (cmdid < H => t = modid)
  BY <1>5
<1>7. /\ N(t) \in 0 .. L - 1 /\ N(t) \div W = t /\ N(t) % W = cmdid
      /\ N(t) % L = N(t) /\ (N(t) - L) % L = N(t)
  BY TwoWords
<1> DEFINE n == N(t)
<1> HIDE DEF n, x, W, L, H
<1>8. x % L = n
  BY <1>6, <1>7 DEF n
<1>9. Key(modid, cmdid) = n /\ n \in 0 .. L - 1 /\ n \div W = t /\ n % W = cmdid
  BY <1>2, <1>7, <1>8 DEF n
<1> QED BY <1>6, <1>9 DEF CmdidOf, ModidOf, W, L, H

(* A word that passes through an int is what it was.                       *)
LEMMA PassesThrough == \A n \in Words : Unsigned(Signed(n, WordRange), WordRange) = n
<1> TAKE n \in Words
<1> DEFINE W == WordRange
           H == W \div 2
<1>1. W \in Nat \ {0} /\ H \in Nat /\ W = 2 * H /\ n \in 0 .. W - 1
  BY Powers DEF Words
<1>2. CASE n >= H
  <2>1. Signed(n, W) = n - W
    BY <1>2 DEF Signed
  <2> HIDE DEF W, H
  <2>2. n - W \in -W .. -1 /\ (n - W) + W = n
    BY <1>1
  <2>3. (n - W) % W = n
    BY <1>1, <2>2, NegativeRemainder
  <2> QED BY <2>1, <2>3 DEF Unsigned, W
<1>3. CASE ~(n >= H)
  <2>1. Signed(n, W) = n
    BY <1>3 DEF Signed
  <2>2. n % W = n
    BY WordsAreRead
  <2> QED BY <2>1, <2>2 DEF Unsigned
<1> QED BY <1>2, <1>3

----------------------------------------------------------------------------
(* Messages as they are built.                                             *)

(* A host with an address is a host.                                       *)
LEMMA HostInfoIs ==
    \A a, b \in Words : [ClearHostInfo EXCEPT !.ip = a, !.port = b] \in HostInfoType
BY DEF ClearHostInfo, HostInfoType

(* A result that is filled in is a result.                                 *)
LEMMA CallResultIs ==
    \A call \in Calls, overload \in BOOLEAN :
        CallResult(call, overload) \in HostCallResultType
<1> TAKE call \in Calls, overload \in BOOLEAN
<1> DEFINE a == call[1]
           b == call[2]
           c == call[3]
           d == call[4]
           r == [ClearHostCallResult EXCEPT !.ip = a, !.port = b, !.succ = c, !.err = d,
                                            !.overload = overload]
<1>1. a \in Words /\ b \in Words /\ c \in Words /\ d \in Words
  BY DEF Calls
<1>2. CallResult(call, overload) = r
  BY DEF CallResult
<1> HIDE DEF a, b, c, d
<1>3. ClearHostCallResult \in HostCallResultType
  BY ClearMessages
<1>4. r \in HostCallResultType
  BY <1>1, <1>3 DEF HostCallResultType
<1> QED BY <1>2, <1>4

(* A list of hosts, added one by one.                                      *)
HostsFold == INSTANCE Folding WITH
    Op <- LAMBDA r, host : AddHost(r, [ClearHostInfo EXCEPT !.ip = host[1], !.port = host[2]])

(* Hosts are added to a response, and nothing else is changed.             *)
LEMMA WithHostsIs ==
    \A rsp \in GetRouteResponseType : \A list \in Seq(Words \X Words) :
        /\ WithHosts(rsp, list) \in GetRouteResponseType
        /\ WithHosts(rsp, list).modid = rsp.modid
        /\ WithHosts(rsp, list).cmdid = rsp.cmdid
<1> TAKE rsp \in GetRouteResponseType
<1> TAKE list \in Seq(Words \X Words)
<1> DEFINE B == {r \in GetRouteResponseType : r.modid = rsp.modid /\ r.cmdid = rsp.cmdid}
<1>1. WithHosts(rsp, list) = HostsFold!FromLeft(rsp, list)
  BY DEF WithHosts, HostsFold!FromLeft, FoldLeft, MapThenFoldSet, Max, HostsFold!Largest
<1>2. ASSUME NEW r \in B, NEW h \in Words \X Words
      PROVE  AddHost(r, [ClearHostInfo EXCEPT !.ip = h[1], !.port = h[2]]) \in B
  <2> DEFINE host == [ClearHostInfo EXCEPT !.ip = h[1], !.port = h[2]]
             more == Append(r.host, CopyHostInfo(host))
             new == [r EXCEPT !.host = more]
  <2>1. host \in HostInfoType
    <3>1. h[1] \in Words /\ h[2] \in Words
      OBVIOUS
    <3> QED BY <3>1, HostInfoIs
  <2>2. CopyHostInfo(host) = host
    <3> HIDE DEF host
    <3> QED BY <2>1, CopyHostInfoIs DEF CopyHostInfo
  <2>3. r \in GetRouteResponseType /\ r.modid = rsp.modid /\ r.cmdid = rsp.cmdid
    OBVIOUS
  <2>4. more \in Seq(HostInfoType)
    <3>1. r.host \in Seq(HostInfoType)
      BY <2>3 DEF GetRouteResponseType
    <3> HIDE DEF host
    <3>2. Append(r.host, host) \in Seq(HostInfoType)
      BY <2>1, <3>1
    <3> QED BY <2>2, <3>2
  <2> HIDE DEF host, more
  <2>5. new \in GetRouteResponseType /\ new.modid = r.modid /\ new.cmdid = r.cmdid
    BY <2>3, <2>4 DEF GetRouteResponseType
  <2>6. AddHost(r, host) = new
    BY DEF AddHost, more
  <2> QED BY <2>3, <2>5, <2>6 DEF host
<1>3. rsp \in B
  OBVIOUS
<1>4. HostsFold!FromLeft(rsp, list) \in B
  <2> HIDE DEF B
  <2> QED BY <1>2, <1>3, HostsFold!LeftType
<1> QED BY <1>1, <1>4

(* Results of hosts that are not overloaded, and of those that are.        *)
FineFold == INSTANCE Folding WITH Op <- LAMBDA r, call : AddResult(r, CallResult(call, FALSE))
OverFold == INSTANCE Folding WITH Op <- LAMBDA r, call : AddResult(r, CallResult(call, TRUE))

(* A report with one more result is a report.                              *)
LEMMA AddResultIs ==
    \A overload \in BOOLEAN, r \in ReportStatusRequestType, call \in Calls :
        AddResult(r, CallResult(call, overload)) \in ReportStatusRequestType
<1> TAKE overload \in BOOLEAN, r \in ReportStatusRequestType, call \in Calls
<1> DEFINE result == CallResult(call, overload)
           more == Append(r.results, CopyHostCallResult(result))
           new == [r EXCEPT !.results = more]
<1>1. result \in HostCallResultType
  BY CallResultIs
<1> HIDE DEF result
<1>2. CopyHostCallResult(result) = result
  BY <1>1, CopyHostCallResultIs DEF CopyHostCallResult
<1>3. more \in Seq(HostCallResultType)
  <2>1. r.results \in Seq(HostCallResultType)
    BY DEF ReportStatusRequestType
  <2>2. Append(r.results, result) \in Seq(HostCallResultType)
    BY <1>1, <2>1
  <2> QED BY <1>2, <2>2
<1> HIDE DEF more
<1>4. new \in ReportStatusRequestType
  BY <1>3 DEF ReportStatusRequestType
<1>5. AddResult(r, result) = new
  BY DEF AddResult, more
<1> QED BY <1>4, <1>5 DEF result

(* And with many.                                                          *)
LEMMA WithResultsIs ==
    \A overload \in BOOLEAN, req \in ReportStatusRequestType, calls \in Seq(Calls) :
        WithResults(req, calls, overload) \in ReportStatusRequestType
<1> TAKE overload \in BOOLEAN, req \in ReportStatusRequestType, calls \in Seq(Calls)
<1>1. WithResults(req, calls, FALSE) \in ReportStatusRequestType
  <2>1. WithResults(req, calls, FALSE) = FineFold!FromLeft(req, calls)
    BY DEF WithResults, FineFold!FromLeft, FoldLeft, MapThenFoldSet, Max, FineFold!Largest
  <2>2. \A r \in ReportStatusRequestType, call \in Calls :
            AddResult(r, CallResult(call, FALSE)) \in ReportStatusRequestType
    BY AddResultIs
  <2>3. FineFold!FromLeft(req, calls) \in ReportStatusRequestType
    BY <2>2, FineFold!LeftType
  <2> QED BY <2>1, <2>3
<1>2. WithResults(req, calls, TRUE) \in ReportStatusRequestType
  <2>1. WithResults(req, calls, TRUE) = OverFold!FromLeft(req, calls)
    BY DEF WithResults, OverFold!FromLeft, FoldLeft, MapThenFoldSet, Max, OverFold!Largest
  <2>2. \A r \in ReportStatusRequestType, call \in Calls :
            AddResult(r, CallResult(call, TRUE)) \in ReportStatusRequestType
    BY AddResultIs
  <2>3. OverFold!FromLeft(req, calls) \in ReportStatusRequestType
    BY <2>2, OverFold!LeftType
  <2> QED BY <2>1, <2>3
<1> QED BY <1>1, <1>2

(* The small numbers the requests are made of have every width.            *)
LEMMA SmallNumbers ==
    /\ \A n \in 0 .. 255 : n \in Words /\ n \in Longs
    /\ \A n \in 0 .. 127 : n \in Shorts
    /\ \A n \in 1 .. MaxAsked : n \in Words /\ n \in Longs
    /\ \A s \in Strays : s \in Shorts
<1> DEFINE W == WordRange
           H == W \div 2
           G == LongRange \div 2
<1>1. /\ W \in Nat /\ W >= 256 /\ H \in Nat /\ H >= 128 /\ G \in Nat /\ W <= G
      /\ Words = 0 .. W - 1 /\ Longs = -G .. G - 1 /\ Shorts = 0 .. H - 1
  BY Powers DEF Words, Longs, Shorts
<1>2. MaxAsked \in Nat /\ MaxAsked < W /\ Strays \subseteq 0 .. H - 1
  BY RequestsAssumption
<1> HIDE DEF W, H, G
<1> QED BY <1>1, <1>2

(* A module is named by two words.                                         *)
LEMMA ModuleIs == \A mod \in Modules : mod[1] \in Words /\ mod[2] \in Words
BY RequestsAssumption

(* A host is named by two words.                                           *)
LEMMA HostIs == \A host \in Hosts : host[1] \in Words /\ host[2] \in Words
BY RequestsAssumption

(* A list of hosts is one of words.                                        *)
LEMMA ListIs == \A list \in HostLists : list \in Seq(Words \X Words)
BY RequestsAssumption

(* The request for the best host is a message of its kind.                 *)
LEMMA BestRequestIs ==
    \A seq, modid, cmdid \in Words :
        [ClearGetHostRequest EXCEPT !.seq = seq, !.modid = modid, !.cmdid = cmdid]
            \in GetHostRequestType
<1>1. ClearGetHostRequest \in GetHostRequestType
  BY ClearMessages
<1> QED BY <1>1 DEF GetHostRequestType

(* So is the request for a module,                                         *)
LEMMA RouteRequestIs ==
    \A modid, cmdid \in Words :
        [ClearGetRouteRequest EXCEPT !.modid = modid, !.cmdid = cmdid] \in GetRouteRequestType
<1>1. ClearGetRouteRequest \in GetRouteRequestType
  BY ClearMessages
<1> QED BY <1>1 DEF GetRouteRequestType

(* the empty answer to it,                                                 *)
LEMMA RouteResponseIs ==
    \A modid, cmdid \in Words :
        LET rsp == NamesModule(ClearGetRouteResponse, modid, cmdid)
        IN  rsp \in GetRouteResponseType /\ rsp.modid = modid /\ rsp.cmdid = cmdid
<1>1. ClearGetRouteResponse \in GetRouteResponseType
  BY ClearMessages
<1> QED BY <1>1 DEF GetRouteResponseType, NamesModule

(* Every host of a list, under the module.                                 *)
LEMMA RoutesAre ==
    \A modid, cmdid \in Words : \A list \in HostLists :
        LET rsp == WithHosts(NamesModule(ClearGetRouteResponse, modid, cmdid), list)
        IN  rsp \in GetRouteResponseType /\ rsp.modid = modid /\ rsp.cmdid = cmdid
<1> TAKE modid, cmdid \in Words
<1> TAKE list \in HostLists
<1> DEFINE rsp == NamesModule(ClearGetRouteResponse, modid, cmdid)
<1>1. rsp \in GetRouteResponseType /\ rsp.modid = modid /\ rsp.cmdid = cmdid
  BY RouteResponseIs
<1>2. list \in Seq(Words \X Words)
  BY ListIs
<1> HIDE DEF rsp
<1>3. /\ WithHosts(rsp, list) \in GetRouteResponseType
      /\ WithHosts(rsp, list).modid = rsp.modid /\ WithHosts(rsp, list).cmdid = rsp.cmdid
  BY <1>1, <1>2, WithHostsIs
<1> QED BY <1>1, <1>3 DEF rsp

(* the report of a call,                                                   *)
LEMMA ReportIs ==
    \A mod \in Modules, host \in Hosts, retcode \in Retcodes :
        LET req == [ClearReportRequest EXCEPT !.modid = mod[1], !.cmdid = mod[2],
                                              !.retcode = retcode]
        IN  SetHost(req, host[1], host[2]) \in ReportRequestType
<1> TAKE mod \in Modules, host \in Hosts, retcode \in Retcodes
<1> DEFINE a == mod[1]
           b == mod[2]
           req == [ClearReportRequest EXCEPT !.modid = a, !.cmdid = b, !.retcode = retcode]
           it == [ClearHostInfo EXCEPT !.ip = host[1], !.port = host[2]]
<1>1. a \in Words /\ b \in Words /\ it \in HostInfoType /\ retcode \in Ints
  BY ModuleIs, HostIs, HostInfoIs, RequestsAssumption
<1> HIDE DEF a, b
<1>2. ClearReportRequest \in ReportRequestType /\ ClearReportRequest.host = NoHost
  BY ClearMessages DEF ClearReportRequest
<1>3. req \in ReportRequestType /\ req.host = NoHost
  BY <1>1, <1>2 DEF ReportRequestType
<1> HIDE DEF req
<1>4. SetHost(req, host[1], host[2]) = [req EXCEPT !.host = it]
  BY <1>3 DEF SetHost, HostOf, HasHost
<1> HIDE DEF it
<1>5. [req EXCEPT !.host = it] \in ReportRequestType
  BY <1>1, <1>3 DEF ReportRequestType
<1> QED BY <1>4, <1>5 DEF req, a, b

(* and the report of a module,                                             *)
LEMMA StatusIs ==
    \A modid, cmdid, caller \in Words, ts \in Longs :
        [ClearReportStatusRequest EXCEPT !.modid = modid, !.cmdid = cmdid, !.ts = ts,
                                         !.caller = caller] \in ReportStatusRequestType
<1>1. ClearReportStatusRequest \in ReportStatusRequestType
  BY ClearMessages
<1> QED BY <1>1 DEF ReportStatusRequestType

(* with the results of its hosts.                                          *)
LEMMA StatusesAre ==
    \A req \in ReportStatusRequestType, fine, over \in Seq(Calls) :
        WithResults(WithResults(req, fine, FALSE), over, TRUE) \in ReportStatusRequestType
<1> TAKE req \in ReportStatusRequestType, fine, over \in Seq(Calls)
<1> DEFINE first == WithResults(req, fine, FALSE)
<1>1. first \in ReportStatusRequestType
  BY WithResultsIs
<1> HIDE DEF first
<1>2. WithResults(first, over, TRUE) \in ReportStatusRequestType
  BY <1>1, WithResultsIs
<1> QED BY <1>2 DEF first

(* The results that reports are made of.                                   *)
LEMMA ExamplesAre ==
    << <<1, 1, 100, 3>>, <<2, 4, 100, 3>> >> \in Seq(Calls) /\ << <<3, 9, 100,
        3>> >> \in Seq(Calls)
<1> DEFINE a == <<1, 1, 100, 3>>
           b == <<2, 4, 100, 3>>
           c == <<3, 9, 100, 3>>
<1>1. a \in Calls /\ b \in Calls /\ c \in Calls
  BY SmallNumbers DEF Calls
<1> HIDE DEF a, b, c
<1>2. <<a, b>> \in Seq(Calls) /\ <<c>> \in Seq(Calls)
  BY <1>1
<1> QED BY <1>2 DEF a, b, c

(* What getTheBestHost makes names the module and the number of the        *)
(* request.                                                                *)
LEMMA BestIs ==
    ASSUME NEW req \in GetHostRequestType, NEW data,
           ParseGetHostRequest(ClearGetHostRequest, data) = req
    PROVE  \A rsp \in GetTheBestHost(data) :
                /\ rsp \in GetHostResponseType
                /\ rsp.seq = req.seq /\ rsp.modid = req.modid /\ rsp.cmdid = req.cmdid
<1> DEFINE a == req.seq
           b == req.modid
           c == req.cmdid
           start == [ClearGetHostResponse EXCEPT !.seq = a]
           named == [start EXCEPT !.modid = b, !.cmdid = c]
<1>1. a \in Words /\ b \in Words /\ c \in Words
  BY DEF GetHostRequestType
<1>2. NamesModule(start, b, c) = named
  BY DEF NamesModule
<1>3. GetTheBestHost(data) =
        {[named EXCEPT !.retcode = ret] : ret \in {RET.NOEXIST, RET.OVERLOAD}}
            \cup {SetHost(named, host[1], host[2]) : host \in Hosts}
  <2> DEFINE p == ParseGetHostRequest(ClearGetHostRequest, data)
             made == NamesModule([ClearGetHostResponse EXCEPT !.seq = p.seq], p.modid, p.cmdid)
  <2>1. GetTheBestHost(data) =
            {[made EXCEPT !.retcode = ret] : ret \in {RET.NOEXIST, RET.OVERLOAD}}
                \cup {SetHost(made, host[1], host[2]) : host \in Hosts}
    BY DEF GetTheBestHost
  <2>2. made = named
    <3>1. p = req
      OBVIOUS
    <3> HIDE DEF p
    <3> QED BY <1>2, <3>1
  <2> HIDE DEF p, made, named
  <2> QED BY <2>1, <2>2
<1>4. ClearGetHostResponse \in GetHostResponseType /\ ClearGetHostResponse.host = NoHost
  BY ClearMessages DEF ClearGetHostResponse
<1> HIDE DEF a, b, c
<1>5. /\ named \in GetHostResponseType /\ named.host = NoHost
      /\ named.seq = a /\ named.modid = b /\ named.cmdid = c
  BY <1>1, <1>4 DEF GetHostResponseType
<1> HIDE DEF named, start
<1>6. ASSUME NEW ret \in {RET.NOEXIST, RET.OVERLOAD}
      PROVE  LET rsp == [named EXCEPT !.retcode = ret]
             IN  /\ rsp \in GetHostResponseType
                 /\ rsp.seq = a /\ rsp.modid = b /\ rsp.cmdid = c
  <2>1. ret \in Words
    BY SmallNumbers DEF RET
  <2> QED BY <1>5, <2>1 DEF GetHostResponseType
<1>7. ASSUME NEW host \in Hosts
      PROVE  LET rsp == SetHost(named, host[1], host[2])
             IN  /\ rsp \in GetHostResponseType
                 /\ rsp.seq = a /\ rsp.modid = b /\ rsp.cmdid = c
  <2> DEFINE it == [ClearHostInfo EXCEPT !.ip = host[1], !.port = host[2]]
             rsp == [named EXCEPT !.host = it]
  <2>1. it \in HostInfoType
    BY HostIs, HostInfoIs
  <2>2. SetHost(named, host[1], host[2]) = rsp
    BY <1>5 DEF SetHost, HostOf, HasHost
  <2> HIDE DEF it
  <2>3. rsp \in GetHostResponseType /\ rsp.seq = a /\ rsp.modid = b /\ rsp.cmdid = c
    BY <1>5, <2>1 DEF GetHostResponseType
  <2> QED BY <2>2, <2>3
<1>8. \A rsp \in GetTheBestHost(data) :
        rsp \in GetHostResponseType /\ rsp.seq = a /\ rsp.modid = b /\ rsp.cmdid = c
  BY <1>3, <1>6, <1>7
<1> QED BY <1>8 DEF a, b, c

(* What getAllHosts answers names the module that was asked for.           *)
LEMMA AllHostsAre ==
    ASSUME NEW req \in GetRouteRequestType, NEW data,
           ParseGetRouteRequest(ClearGetRouteRequest, data) = req
    PROVE  \A rsp \in GetAllHosts(data) :
                /\ rsp \in GetRouteResponseType
                /\ rsp.modid = req.modid /\ rsp.cmdid = req.cmdid
<1>1. req.modid \in Words /\ req.cmdid \in Words
  BY DEF GetRouteRequestType
<1>2. /\ Unsigned(Signed(req.modid, WordRange), WordRange) = req.modid
      /\ Unsigned(Signed(req.cmdid, WordRange), WordRange) = req.cmdid
  BY <1>1, PassesThrough
<1>3. GetAllHosts(data) =
        {WithHosts(NamesModule(ClearGetRouteResponse, req.modid, req.cmdid), list) :
            list \in HostLists}
  BY <1>2 DEF GetAllHosts
<1> QED BY <1>1, <1>3, RoutesAre

(* A key names two words.                                                  *)
LEMMA KeysAreNamed == \A key \in 0 .. LongRange - 1 : ModidOf(key) \in Words
    /\ CmdidOf(key) \in Words
<1> TAKE key \in 0 .. LongRange - 1
<1> DEFINE W == WordRange
           q == key \div W
           r == key % W
<1>1. W \in Nat \ {0} /\ key \in 0 .. (W * W) - 1 /\ Words = 0 .. W - 1
  BY Powers DEF Words
<1>2. ModidOf(key) = q /\ CmdidOf(key) = r
  BY DEF ModidOf, CmdidOf
<1> HIDE DEF W
<1>3. q \in Nat /\ r \in 0 .. W - 1 /\ key = (W * q) + r
  BY <1>1
<1> HIDE DEF q, r
<1>4. q <= W - 1
  <2> SUFFICES ASSUME q >= W PROVE FALSE
    BY <1>1, <1>3
  <2>1. W * q >= W * W
    BY <1>1, <1>3
  <2> QED BY <1>1, <1>3, <2>1
<1> QED BY <1>1, <1>2, <1>3, <1>4

----------------------------------------------------------------------------
(* What is said of the messages that were sent.                            *)

(* A message whose id is known has the type of that id.                    *)
Typed(messages, ids) ==
    \A i \in DOMAIN messages :
        messages[i].id \in ids => messages[i].msg \in MessageType(messages[i].id)

(* All of them have an id that is known.                                   *)
Under(messages, ids) == \A i \in DOMAIN messages : messages[i].id \in ids

(* Some request names this module.                                         *)
AskedFor(sent, modid, cmdid) ==
    \E j \in DOMAIN sent : sent[j].msg.modid = modid /\ sent[j].msg.cmdid = cmdid

(* Answers name modules that were asked for. A cmdid that is negative as   *)
(* an int takes its sign into the modid of the key (see KeyIs), and is     *)
(* left out.                                                               *)
AnswersNamed(messages, sent) ==
    \A i \in DOMAIN messages :
        messages[i].msg.cmdid < WordRange \div 2 =>
            AskedFor(sent, messages[i].msg.modid, messages[i].msg.cmdid)

(* So do the tasks of the DNS service,                                     *)
TasksNamed(requests, sent) ==
    \A i \in DOMAIN requests : AskedFor(sent, requests[i].modid, requests[i].cmdid)

(* and its keys.                                                           *)
KeysNamed(some, sent) ==
    \A key \in some :
        CmdidOf(key) < WordRange \div 2 => AskedFor(sent, ModidOf(key), CmdidOf(key))

(* The answers for the best host, one for each request, in their order.    *)
Answering(best, chosen) ==
    /\ Len(best) = Len(chosen)
    /\ \A i \in 1 .. Len(chosen) :
        SameModule(chosen[i].msg, best[i].msg) /\ chosen[i].msg.seq = best[i].msg.seq

(* What was heard and what was answered.                                   *)
Paired(requests, answers) ==
    Answering(Those(requests, {ID.GetHostRequest}), Those(answers, {ID.GetHostResponse}))

(* One element more.                                                       *)
LEMMA AppendIs ==
    ASSUME NEW S, NEW s \in Seq(S), NEW m \in S
    PROVE  /\ Append(s, m) \in Seq(S) /\ Len(Append(s, m)) = Len(s) + 1
           /\ DOMAIN s = 1 .. Len(s) /\ Len(s) \in Nat
           /\ DOMAIN Append(s, m) = 1 .. Len(s) + 1
           /\ Append(s, m)[Len(s) + 1] = m
           /\ \A i \in 1 .. Len(s) : Append(s, m)[i] = s[i]
OBVIOUS

(* A message of the right type changes nothing about the others.           *)
LEMMA TypedMore ==
    ASSUME NEW s \in Seq(Letters), NEW m \in Letters, NEW ids,
           m.id \in ids => m.msg \in MessageType(m.id), Typed(s, ids)
    PROVE  Typed(Append(s, m), ids)
<1> DEFINE t == Append(s, m)
           n == Len(s)
<1>1. /\ n \in Nat /\ DOMAIN s = 1 .. n /\ DOMAIN t = 1 .. n + 1
      /\ t[n + 1] = m /\ \A i \in 1 .. n : t[i] = s[i]
  BY AppendIs
<1> HIDE DEF t, n
<1>2. Typed(t, ids)
  <2> SUFFICES ASSUME NEW i \in 1 .. n + 1, t[i].id \in ids
               PROVE  t[i].msg \in MessageType(t[i].id)
    BY <1>1 DEF Typed
  <2>1. CASE i = n + 1
    BY <1>1, <2>1
  <2>2. CASE i \in 1 .. n
    BY <1>1, <2>2 DEF Typed
  <2> QED BY <1>1, <2>1, <2>2
<1> QED BY <1>2 DEF t

(* Nor does one with an id that is known.                                  *)
LEMMA UnderMore ==
    ASSUME NEW s \in Seq(Letters), NEW m \in Letters, NEW ids, m.id \in ids, Under(s, ids)
    PROVE  Under(Append(s, m), ids)
<1> DEFINE t == Append(s, m)
           n == Len(s)
<1>1. /\ n \in Nat /\ DOMAIN s = 1 .. n /\ DOMAIN t = 1 .. n + 1
      /\ t[n + 1] = m /\ \A i \in 1 .. n : t[i] = s[i]
  BY AppendIs
<1> HIDE DEF t, n
<1>2. Under(t, ids)
  BY <1>1 DEF Under
<1> QED BY <1>2 DEF t

(* A request asks for its module, and leaves what was asked for.           *)
LEMMA AskedMore ==
    ASSUME NEW sent \in Seq(Letters), NEW m \in Letters
    PROVE  /\ AskedFor(Append(sent, m), m.msg.modid, m.msg.cmdid)
           /\ \A modid, cmdid :
                AskedFor(sent, modid, cmdid) => AskedFor(Append(sent, m), modid, cmdid)
<1> DEFINE t == Append(sent, m)
           n == Len(sent)
<1>1. /\ n \in Nat /\ DOMAIN sent = 1 .. n /\ DOMAIN t = 1 .. n + 1
      /\ t[n + 1] = m /\ \A i \in 1 .. n : t[i] = sent[i]
  BY AppendIs
<1> HIDE DEF t, n
<1>2. n + 1 \in DOMAIN t /\ \A i \in 1 .. n : i \in DOMAIN t
  BY <1>1
<1>3. AskedFor(t, m.msg.modid, m.msg.cmdid)
  BY <1>1, <1>2 DEF AskedFor
<1>4. \A modid, cmdid : AskedFor(sent, modid, cmdid) => AskedFor(t, modid, cmdid)
  BY <1>1, <1>2 DEF AskedFor
<1> QED BY <1>3, <1>4 DEF t

(* More requests name no less.                                             *)
LEMMA NamedStill ==
    ASSUME NEW sent \in Seq(Letters), NEW m \in Letters
    PROVE  /\ \A s : AnswersNamed(s, sent) => AnswersNamed(s, Append(sent, m))
           /\ \A s : TasksNamed(s, sent) => TasksNamed(s, Append(sent, m))
           /\ \A s : KeysNamed(s, sent) => KeysNamed(s, Append(sent, m))
BY AskedMore DEF AnswersNamed, TasksNamed, KeysNamed

(* An answer may follow if its module was asked for.                       *)
LEMMA AnswersNamedMore ==
    ASSUME NEW s \in Seq(Letters), NEW m \in Letters, NEW sent, AnswersNamed(s, sent),
           m.msg.cmdid < WordRange \div 2 => AskedFor(sent, m.msg.modid, m.msg.cmdid)
    PROVE  AnswersNamed(Append(s, m), sent)
<1> DEFINE t == Append(s, m)
           n == Len(s)
<1>1. /\ n \in Nat /\ DOMAIN s = 1 .. n /\ DOMAIN t = 1 .. n + 1
      /\ t[n + 1] = m /\ \A i \in 1 .. n : t[i] = s[i]
  BY AppendIs
<1> HIDE DEF t, n
<1>2. AnswersNamed(t, sent)
  <2> SUFFICES ASSUME NEW i \in 1 .. n + 1, t[i].msg.cmdid < WordRange \div 2
               PROVE  AskedFor(sent, t[i].msg.modid, t[i].msg.cmdid)
    BY <1>1 DEF AnswersNamed
  <2>1. CASE i = n + 1
    BY <1>1, <2>1
  <2>2. CASE i \in 1 .. n
    BY <1>1, <2>2 DEF AnswersNamed
  <2> QED BY <1>1, <2>1, <2>2
<1> QED BY <1>2 DEF t

(* So may a task,                                                          *)
LEMMA TasksNamedMore ==
    ASSUME NEW s \in Seq(GetRouteRequestType), NEW req \in GetRouteRequestType, NEW sent,
           TasksNamed(s, sent), AskedFor(sent, req.modid, req.cmdid)
    PROVE  TasksNamed(Append(s, req), sent)
<1> DEFINE t == Append(s, req)
           n == Len(s)
<1>1. /\ n \in Nat /\ DOMAIN s = 1 .. n /\ DOMAIN t = 1 .. n + 1
      /\ t[n + 1] = req /\ \A i \in 1 .. n : t[i] = s[i]
  BY AppendIs
<1> HIDE DEF t, n
<1>2. TasksNamed(t, sent)
  <2> SUFFICES ASSUME NEW i \in 1 .. n + 1
               PROVE  AskedFor(sent, t[i].modid, t[i].cmdid)
    BY <1>1 DEF TasksNamed
  <2>1. CASE i = n + 1
    BY <1>1, <2>1
  <2>2. CASE i \in 1 .. n
    BY <1>1, <2>2 DEF TasksNamed
  <2> QED BY <1>1, <2>1, <2>2
<1> QED BY <1>2 DEF t

(* and a request and its answer together.                                  *)
LEMMA AnsweringMore ==
    ASSUME NEW best \in Seq(Letters), NEW chosen \in Seq(Letters), Answering(best, chosen),
           NEW req \in Letters, NEW rsp \in Letters,
           SameModule(rsp.msg, req.msg), rsp.msg.seq = req.msg.seq
    PROVE  Answering(Append(best, req), Append(chosen, rsp))
<1> DEFINE b == Append(best, req)
           c == Append(chosen, rsp)
           n == Len(best)
<1>1. /\ n \in Nat /\ Len(b) = n + 1
      /\ b[n + 1] = req /\ \A i \in 1 .. n : b[i] = best[i]
  BY AppendIs
<1>2. n = Len(chosen)
  BY DEF Answering
<1>3. Len(c) = n + 1 /\ c[n + 1] = rsp /\ \A i \in 1 .. n : c[i] = chosen[i]
  BY <1>2, AppendIs
<1> HIDE DEF b, c, n
<1>4. Answering(b, c)
  <2> SUFFICES ASSUME NEW i \in 1 .. n + 1
               PROVE  SameModule(c[i].msg, b[i].msg) /\ c[i].msg.seq = b[i].msg.seq
    BY <1>1, <1>3 DEF Answering
  <2>1. CASE i = n + 1
    BY <1>1, <1>3, <2>1
  <2>2. CASE i \in 1 .. n
    BY <1>1, <1>2, <1>3, <2>2 DEF Answering
  <2> QED BY <1>1, <2>1, <2>2
<1> QED BY <1>4 DEF b, c

(* An answer for every request for the best host, and none for anything    *)
(* else.                                                                   *)
LEMMA PairedMore ==
    ASSUME NEW h \in Seq(Letters), NEW a \in Seq(Letters), Paired(h, a)
    PROVE  /\ \A m \in Letters : m.id # 3 => Paired(Append(h, m), a)
           /\ \A m \in Letters : m.id # 4 => Paired(h, Append(a, m))
           /\ \A req, rsp \in Letters :
                (/\ req.id = 3 /\ rsp.id = 4
                 /\ SameModule(rsp.msg, req.msg) /\ rsp.msg.seq = req.msg.seq)
                    => Paired(Append(h, req), Append(a, rsp))
<1> DEFINE best == Those(h, {3})
           chosen == Those(a, {4})
<1>1. /\ best \in Seq(Letters) /\ chosen \in Seq(Letters)
      /\ \A m \in Letters : /\ m.id = 3 => Those(Append(h, m), {3}) = Append(best, m)
                            /\ m.id # 3 => Those(Append(h, m), {3}) = best
                            /\ m.id = 4 => Those(Append(a, m), {4}) = Append(chosen, m)
                            /\ m.id # 4 => Those(Append(a, m), {4}) = chosen
  BY ThoseType
<1>2. \A x, y : Paired(x, y) <=> Answering(Those(x, {3}), Those(y, {4}))
  BY IdsAre DEF Paired
<1>3. Answering(best, chosen)
  BY <1>2
<1> HIDE DEF best, chosen
<1>4. ASSUME NEW m \in Letters, m.id # 3
      PROVE  Paired(Append(h, m), a)
  BY <1>1, <1>2, <1>3, <1>4 DEF chosen
<1>5. ASSUME NEW m \in Letters, m.id # 4
      PROVE  Paired(h, Append(a, m))
  BY <1>1, <1>2, <1>3, <1>5 DEF best
<1>6. ASSUME NEW req \in Letters, NEW rsp \in Letters, req.id = 3, rsp.id = 4,
             SameModule(rsp.msg, req.msg), rsp.msg.seq = req.msg.seq
      PROVE  Paired(Append(h, req), Append(a, rsp))
  <2>1. Answering(Append(best, req), Append(chosen, rsp))
    BY <1>1, <1>3, <1>6, AnsweringMore
  <2> QED BY <1>1, <1>2, <1>6, <2>1
<1> QED BY <1>4, <1>5, <1>6

----------------------------------------------------------------------------
(* The inductive invariant.                                                *)

(* What clients send to the server.                                        *)
RequestsInv ==
    /\ server \in {"agent", "dns", "reporter"}
    /\ Carried(up, asked, ServerIds, heard)
    /\ Typed(asked, ServerIds)

(* What the server sends to the client.                                    *)
AnswersInv ==
    /\ Carried(down, answered, ClientIds, told)
    /\ Typed(answered, ClientIds) /\ Under(answered, ClientIds)

(* What the DNS service remembers of the requests: no one else has tasks   *)
(* or keys.                                                                *)
DnsInv ==
    /\ keys \subseteq 0 .. LongRange - 1
    /\ tasks \in Seq(GetRouteRequestType)
    /\ server # "dns" => keys = {} /\ tasks = <<>>

(* Everything that names a module names one that was asked for.            *)
NamedInv ==
    AnswersNamed(answered, asked) /\ TasksNamed(tasks, asked) /\ KeysNamed(keys, asked)

(* All of it.                                                              *)
IInv == RequestsInv /\ AnswersInv /\ DnsInv /\ NamedInv /\ Paired(heard, answered)

(* What is carried are messages.                                           *)
LEMMA SentAre ==
    ASSUME NEW way, NEW sent, NEW ids, NEW got, Carried(way, sent, ids, got)
    PROVE  sent \in Seq(Letters) /\ got \in Seq(Letters) /\ way \in Ways
<1>1. PICK done, left : CarriedSo(way, sent, ids, got, done, left)
  BY DEF Carried
<1>2. done \in Seq(Letters) /\ left \in Seq(Letters) /\ sent = done \o left
  BY <1>1 DEF CarriedSo
<1>3. sent \in Seq(Letters)
  BY <1>2
<1> QED BY <1>3, CarriedWasSent DEF Carried

(* A message that can be written can be sent.                              *)
LEMMA LetterIs ==
    ASSUME NEW id \in Shorts, NEW msg \in AnyMessage, Writable(msg)
    PROVE  [id |-> id, msg |-> msg] \in Letters
BY DEF Letters, Writable

(* A request is sent.                                                      *)
LEMMA AskKeeps ==
    ASSUME IInv, NEW id \in Shorts, NEW msg \in AnyMessage,
           id \in ServerIds => msg \in MessageType(id), Ask(id, msg)
    PROVE  IInv'
<1> DEFINE m == [id |-> id, msg |-> msg]
<1>1. /\ Writable(msg) /\ asked' = Append(asked, m)
      /\ up' = [up EXCEPT !.wire = @ \o Pack(m)]
      /\ UNCHANGED <<server, answered, down, heard, told, keys, tasks, pushes>>
  BY DEF Ask
<1>2. m \in Letters /\ m.id = id /\ m.msg = msg
  BY <1>1, LetterIs
<1> HIDE DEF m
<1>3. ServerIds' = ServerIds /\ ClientIds' = ClientIds
  BY <1>1 DEF ServerIds, ClientIds
<1>4. asked \in Seq(Letters)
  BY SentAre DEF IInv, RequestsInv
<1>5. RequestsInv'
  <2>1. Carried(up', asked', ServerIds, heard)
    <3>1. Carried([up EXCEPT !.wire = @ \o Pack(m)], Append(asked, m), ServerIds, heard)
      BY <1>2, CarriedMore DEF IInv, RequestsInv
    <3> QED BY <1>1, <3>1
  <2>2. Typed(asked', ServerIds)
    <3>1. Typed(Append(asked, m), ServerIds)
      BY <1>2, <1>4, TypedMore DEF IInv, RequestsInv
    <3> QED BY <1>1, <3>1
  <2>3. Carried(up', asked', ServerIds', heard') /\ Typed(asked', ServerIds')
    BY <1>1, <1>3, <2>1, <2>2
  <2>4. Carried(up, asked, ServerIds, heard)' /\ Typed(asked, ServerIds)'
    BY <2>3 DEF Carried, CarriedSo, Typed
  <2> QED BY <1>1, <2>4 DEF IInv, RequestsInv
<1>6. AnswersInv'
  BY <1>1, <1>3 DEF IInv, AnswersInv, Carried, CarriedSo, Typed, Under
<1>7. DnsInv'
  BY <1>1 DEF IInv, DnsInv
<1>8. NamedInv'
  <2>1. /\ AnswersNamed(answered, asked') /\ TasksNamed(tasks, asked')
        /\ KeysNamed(keys, asked')
    BY <1>1, <1>2, <1>4, NamedStill DEF IInv, NamedInv
  <2> QED BY <1>1, <2>1 DEF NamedInv
<1>9. Paired(heard, answered)'
  BY <1>1 DEF IInv
<1> QED BY <1>5, <1>6, <1>7, <1>8, <1>9 DEF IInv

(* It holds at first.                                                      *)
LEMMA AtFirst == Init => IInv
<1> SUFFICES ASSUME Init PROVE IInv
  OBVIOUS
<1> DEFINE way == [wire |-> <<>>, buf |-> <<>>]
<1>1. /\ server \in {"agent", "dns", "reporter"} /\ asked = <<>> /\ answered = <<>>
      /\ up = way /\ down = way /\ heard = <<>> /\ told = <<>> /\ keys = {} /\ tasks = <<>>
  BY DEF Init
<1>2. \A ids : Carried(way, <<>>, ids, <<>>)
  BY CarriedAtFirst
<1> HIDE DEF way
<1>3. DOMAIN <<>> = {} /\ <<>> \in Seq(Letters) /\ <<>> \in Seq(GetRouteRequestType)
      /\ Len(<<>>) = 0
  OBVIOUS
<1>4. RequestsInv /\ AnswersInv
  BY <1>1, <1>2, <1>3 DEF RequestsInv, AnswersInv, Typed, Under
<1>5. DnsInv
  BY <1>1, <1>3 DEF DnsInv
<1>6. NamedInv
  BY <1>1, <1>3 DEF NamedInv, AnswersNamed, TasksNamed, KeysNamed
<1>7. Paired(heard, answered)
  <2>1. \A ids : Those(<<>>, ids) = <<>>
    BY <1>3, ThoseType, Zenon
  <2>2. Answering(<<>>, <<>>)
    BY <1>3 DEF Answering
  <2> QED BY <1>1, <2>1, <2>2 DEF Paired
<1> QED BY <1>4, <1>5, <1>6, <1>7 DEF IInv

(* The ids in use fit into a short and are not stray ones.                 *)
LEMMA SmallIds == \A id \in 1 .. 8 : id \in Shorts /\ id \notin Strays
<1>1. \A id \in 1 .. 8 : id \in 0 .. 127 /\ id \in 0 .. 8
  OBVIOUS
<1> QED BY <1>1, SmallNumbers, RequestsAssumption

(* A stray id is none of those in use.                                     *)
LEMMA StraysAre ==
    \A k \in 1 .. 8 : \A id \in {k} \cup Strays :
        id \in Shorts /\ (id \in 1 .. 8 => id = k)
<1> TAKE k \in 1 .. 8
<1> TAKE id \in {k} \cup Strays
<1>1. CASE id = k
  BY <1>1, SmallIds
<1>2. CASE id \in Strays
  BY <1>2, SmallIds, SmallNumbers
<1> QED BY <1>1, <1>2

(* The modules that reports name are words.                                *)
LEMMA FewAre == 1 \in Words /\ 2 \in Words /\ 3 \in Words /\ 123 \in Words
<1>1. 1 \in 0 .. 255 /\ 2 \in 0 .. 255 /\ 3 \in 0 .. 255 /\ 123 \in 0 .. 255
  OBVIOUS
<1> QED BY <1>1, SmallNumbers

(* Every kind is a kind.                                                   *)
LEMMA KindsOfMessages ==
    /\ GetRouteRequestType \subseteq AnyMessage /\ GetRouteResponseType \subseteq AnyMessage
    /\ GetHostRequestType \subseteq AnyMessage /\ GetHostResponseType \subseteq AnyMessage
    /\ ReportRequestType \subseteq AnyMessage /\ ReportStatusRequestType \subseteq AnyMessage
BY DEF AnyMessage

(* The number of the next request.                                         *)
LEMMA NextNumber ==
    ASSUME IInv, Len(asked) < MaxAsked
    PROVE  Len(asked) + 1 \in Words /\ Len(asked) + 1 \in Longs
<1>1. Len(asked) \in Nat /\ MaxAsked \in Nat
  <2>1. asked \in Seq(Letters)
    BY SentAre DEF IInv, RequestsInv
  <2> QED BY <2>1, RequestsAssumption
<1>2. Len(asked) + 1 \in 1 .. MaxAsked
  BY <1>1
<1> QED BY <1>2, SmallNumbers

(* Asking the agent for the best host.                                     *)
LEMMA BestKeeps ==
    ASSUME IInv, NEW mod \in Modules, NEW id \in {ID.GetHostRequest} \cup Strays,
           sendGetBestHostRequestMsg(id, mod, Len(asked) + 1)
    PROVE  IInv'
<1> DEFINE msg == [ClearGetHostRequest EXCEPT !.seq = Len(asked) + 1, !.modid = mod[1],
                                              !.cmdid = mod[2]]
<1>1. server = "agent" /\ Ask(id, msg) /\ Len(asked) < MaxAsked
  BY DEF sendGetBestHostRequestMsg, Ask
<1>2. msg \in GetHostRequestType
  BY <1>1, NextNumber, ModuleIs, BestRequestIs
<1> HIDE DEF msg
<1>3. id \in Shorts /\ (id \in ServerIds => id = 3)
  <2>1. id \in Shorts /\ (id \in 1 .. 8 => id = 3)
    <3>1. 3 \in 1 .. 8 /\ id \in {3} \cup Strays
      BY IdsAre
    <3> QED BY <3>1, StraysAre
  <2>2. \A i \in ServerIds : i \in 1 .. 8
    BY <1>1, RoutersAre
  <2> QED BY <2>1, <2>2
<1>4. msg \in AnyMessage /\ (id \in ServerIds => msg \in MessageType(id))
  BY <1>2, <1>3, KindsOfMessages, MessageTypeIs
<1> QED BY <1>1, <1>3, <1>4, AskKeeps

(* Asking the agent for all hosts.                                         *)
LEMMA AllKeeps ==
    ASSUME IInv, NEW mod \in Modules, NEW id \in {ID.API_GetRouteRequest} \cup Strays,
           sendGetAllHostsRequestMsg(id, mod)
    PROVE  IInv'
<1> DEFINE msg == [ClearGetRouteRequest EXCEPT !.modid = mod[1], !.cmdid = mod[2]]
<1>1. server = "agent" /\ Ask(id, msg)
  BY DEF sendGetAllHostsRequestMsg
<1>2. msg \in GetRouteRequestType
  BY ModuleIs, RouteRequestIs
<1> HIDE DEF msg
<1>3. id \in Shorts /\ (id \in ServerIds => id = 5)
  <2>1. id \in Shorts /\ (id \in 1 .. 8 => id = 5)
    <3>1. 5 \in 1 .. 8 /\ id \in {5} \cup Strays
      BY IdsAre
    <3> QED BY <3>1, StraysAre
  <2>2. \A i \in ServerIds : i \in 1 .. 8
    BY <1>1, RoutersAre
  <2> QED BY <2>1, <2>2
<1>4. msg \in AnyMessage /\ (id \in ServerIds => msg \in MessageType(id))
  BY <1>2, <1>3, KindsOfMessages, MessageTypeIs
<1> QED BY <1>1, <1>3, <1>4, AskKeeps

(* Reporting a call to the agent.                                          *)
LEMMA ReportKeeps ==
    ASSUME IInv, NEW mod \in Modules, NEW host \in Hosts, NEW retcode \in Retcodes,
           sendReportRequestMsg(ID.ReportRequest, mod, host, retcode)
    PROVE  IInv'
<1> DEFINE req == [ClearReportRequest EXCEPT !.modid = mod[1], !.cmdid = mod[2],
                                             !.retcode = retcode]
           msg == SetHost(req, host[1], host[2])
<1>1. server = "agent" /\ Ask(8, msg)
  BY IdsAre DEF sendReportRequestMsg
<1>2. msg \in ReportRequestType
  BY ReportIs
<1> HIDE DEF msg
<1>3. 8 \in Shorts
  BY SmallIds
<1>4. msg \in AnyMessage /\ msg \in MessageType(8)
  BY <1>2, KindsOfMessages, MessageTypeIs
<1> QED BY <1>1, <1>3, <1>4, AskKeeps

(* The agent asks the DNS service for a module.                            *)
LEMMA PullKeeps ==
    ASSUME IInv, NEW mod \in Modules, pullHostFromDns(mod)
    PROVE  IInv'
<1> DEFINE msg == [ClearGetRouteRequest EXCEPT !.modid = mod[1], !.cmdid = mod[2]]
<1>1. Ask(1, msg)
  BY IdsAre DEF pullHostFromDns
<1>2. msg \in GetRouteRequestType
  BY ModuleIs, RouteRequestIs
<1> HIDE DEF msg
<1>3. 1 \in Shorts
  BY SmallIds
<1>4. msg \in AnyMessage /\ msg \in MessageType(1)
  BY <1>2, KindsOfMessages, MessageTypeIs
<1> QED BY <1>1, <1>3, <1>4, AskKeeps

(* The agent reports the results of a module.                              *)
LEMMA PushCallsKeeps ==
    ASSUME IInv, NEW mod \in Modules, NEW report \in Reports,
           pushCallResultToReport(mod, report, Len(asked) + 1)
    PROVE  IInv'
<1> DEFINE req == [ClearReportStatusRequest EXCEPT !.modid = mod[1], !.cmdid = mod[2],
                                                   !.ts = Len(asked) + 1,
                                                   !.caller = LocalIp]
           msg == WithResults(WithResults(req, report[1], FALSE), report[2], TRUE)
<1>1. Ask(7, msg) /\ Len(asked) < MaxAsked
  BY IdsAre DEF pushCallResultToReport, Ask
<1>2. req \in ReportStatusRequestType
  BY <1>1, NextNumber, ModuleIs, StatusIs, RequestsAssumption
<1>3. report[1] \in Seq(Calls) /\ report[2] \in Seq(Calls)
  BY RequestsAssumption
<1> HIDE DEF req
<1>4. msg \in ReportStatusRequestType
  BY <1>2, <1>3, StatusesAre
<1> HIDE DEF msg
<1>5. 7 \in Shorts
  BY SmallIds
<1>6. msg \in AnyMessage /\ msg \in MessageType(7)
  BY <1>4, KindsOfMessages, MessageTypeIs
<1> QED BY <1>1, <1>5, <1>6, AskKeeps

(* A client asks the DNS service for a module.                             *)
LEMMA RouteKeeps ==
    ASSUME IInv, NEW id \in {ID.GetRouteRequest} \cup Strays, sendRouteRequestMsg(id)
    PROVE  IInv'
<1> DEFINE msg == [ClearGetRouteRequest EXCEPT !.modid = 1, !.cmdid = 2]
<1>1. server = "dns" /\ Ask(id, msg)
  BY DEF sendRouteRequestMsg
<1>2. msg \in GetRouteRequestType
  BY FewAre, RouteRequestIs
<1> HIDE DEF msg
<1>3. id \in Shorts /\ (id \in ServerIds => id = 1)
  <2>1. id \in Shorts /\ (id \in 1 .. 8 => id = 1)
    <3>1. 1 \in 1 .. 8 /\ id \in {1} \cup Strays
      BY IdsAre
    <3> QED BY <3>1, StraysAre
  <2>2. \A i \in ServerIds : i \in 1 .. 8
    BY <1>1, RoutersAre
  <2> QED BY <2>1, <2>2
<1>4. msg \in AnyMessage /\ (id \in ServerIds => msg \in MessageType(id))
  BY <1>2, <1>3, KindsOfMessages, MessageTypeIs
<1> QED BY <1>1, <1>3, <1>4, AskKeeps

(* A client reports to the reporter.                                       *)
LEMMA StatusKeeps ==
    ASSUME IInv, NEW id \in {ID.ReportStatusRequest} \cup Strays, NEW modid \in 1 .. 3,
           sendReportStatusRequestMsg(id, modid, Len(asked) + 1)
    PROVE  IInv'
<1> DEFINE req == [ClearReportStatusRequest EXCEPT !.modid = modid, !.cmdid = 1,
                                                   !.caller = 123, !.ts = Len(asked) + 1]
           calls == << <<1, 1, 100, 3>>, <<2, 4, 100, 3>> >>
           over == << <<3, 9, 100, 3>> >>
           msg == WithResults(WithResults(req, calls, FALSE), over, TRUE)
<1>1. server = "reporter" /\ Ask(id, msg) /\ Len(asked) < MaxAsked
  BY DEF sendReportStatusRequestMsg, Ask
<1>2. req \in ReportStatusRequestType
  <2>1. modid \in Words /\ 1 \in Words /\ 123 \in Words
    BY FewAre
  <2>2. req = [ClearReportStatusRequest EXCEPT !.modid = modid, !.cmdid = 1,
                                               !.ts = Len(asked) + 1, !.caller = 123]
    BY DEF ClearReportStatusRequest
  <2> HIDE DEF req
  <2> QED BY <1>1, <2>1, <2>2, NextNumber, StatusIs
<1>3. calls \in Seq(Calls) /\ over \in Seq(Calls)
  BY ExamplesAre
<1> HIDE DEF req, calls, over
<1>4. msg \in ReportStatusRequestType
  BY <1>2, <1>3, StatusesAre
<1> HIDE DEF msg
<1>5. id \in Shorts /\ (id \in ServerIds => id = 7)
  <2>1. id \in Shorts /\ (id \in 1 .. 8 => id = 7)
    <3>1. 7 \in 1 .. 8 /\ id \in {7} \cup Strays
      BY IdsAre
    <3> QED BY <3>1, StraysAre
  <2>2. \A i \in ServerIds : i \in 1 .. 8
    BY <1>1, RoutersAre
  <2> QED BY <2>1, <2>2
<1>6. msg \in AnyMessage /\ (id \in ServerIds => msg \in MessageType(id))
  BY <1>4, <1>5, KindsOfMessages, MessageTypeIs
<1> QED BY <1>1, <1>5, <1>6, AskKeeps

(* Bytes arrive at the server.                                             *)
LEMMA ArriveUpKeeps ==
    ASSUME IInv, NEW n \in Chunks, ArriveUp(n)
    PROVE  IInv'
<1>1. up' = Received(up, n)
      /\ UNCHANGED <<server, asked, answered, down, heard, told, keys, tasks, pushes>>
  BY DEF ArriveUp
<1>2. ServerIds' = ServerIds /\ ClientIds' = ClientIds
  BY <1>1 DEF ServerIds, ClientIds
<1>3. n \in Nat
  BY RequestsAssumption
<1>4. Carried(up', asked, ServerIds, heard)
  BY <1>1, <1>3, CarriedOn DEF IInv, RequestsInv
<1>5. RequestsInv'
  <2>1. Carried(up', asked', ServerIds', heard')
    BY <1>1, <1>2, <1>4
  <2>2. Carried(up, asked, ServerIds, heard)'
    BY <2>1 DEF Carried, CarriedSo
  <2> QED BY <1>1, <1>2, <2>2 DEF IInv, RequestsInv, Typed
<1>6. AnswersInv'
  BY <1>1, <1>2 DEF IInv, AnswersInv, Carried, CarriedSo, Typed, Under
<1>7. DnsInv' /\ NamedInv' /\ Paired(heard, answered)'
  BY <1>1 DEF IInv, DnsInv, NamedInv
<1> QED BY <1>5, <1>6, <1>7 DEF IInv

(* Bytes arrive at the client.                                             *)
LEMMA ArriveDownKeeps ==
    ASSUME IInv, NEW n \in Chunks, ArriveDown(n)
    PROVE  IInv'
<1>1. down' = Received(down, n)
      /\ UNCHANGED <<server, asked, answered, up, heard, told, keys, tasks, pushes>>
  BY DEF ArriveDown
<1>2. ServerIds' = ServerIds /\ ClientIds' = ClientIds
  BY <1>1 DEF ServerIds, ClientIds
<1>3. n \in Nat
  BY RequestsAssumption
<1>4. Carried(down', answered, ClientIds, told)
  BY <1>1, <1>3, CarriedOn DEF IInv, AnswersInv
<1>5. AnswersInv'
  <2>1. Carried(down', answered', ClientIds', told')
    BY <1>1, <1>2, <1>4
  <2>2. Carried(down, answered, ClientIds, told)'
    BY <2>1 DEF Carried, CarriedSo
  <2> QED BY <1>1, <1>2, <2>2 DEF IInv, AnswersInv, Typed, Under
<1>6. RequestsInv'
  BY <1>1, <1>2 DEF IInv, RequestsInv, Carried, CarriedSo, Typed
<1>7. DnsInv' /\ NamedInv' /\ Paired(heard, answered)'
  BY <1>1 DEF IInv, DnsInv, NamedInv
<1> QED BY <1>5, <1>6, <1>7 DEF IInv

----------------------------------------------------------------------------
(* Handlers keep the invariant.                                            *)

(* What each handler is called with.                                       *)
FirstHere(m) == TakenOut(up, asked, ServerIds, heard, m)

(* A message is taken out of the buffer of the server.                     *)
TakesOut ==
    /\ up' = [up EXCEPT !.buf = BehindFront(@)]
    /\ UNCHANGED <<server, asked, told, pushes>>

(* If the front is whole there is a message in it.                         *)
LEMMA FrontIsThere ==
    ASSUME IInv, FrontIsWhole(up.buf)
    PROVE  \E m : FirstHere(m)
BY CarriedToFront DEF IInv, RequestsInv, FirstHere

(* The message in front was sent, with the type of its id if it is wanted. *)
LEMMA FrontWasAsked ==
    ASSUME IInv, NEW m, FirstHere(m)
    PROVE  /\ m \in Letters /\ m = [id |-> m.id, msg |-> m.msg]
           /\ FrontId(up.buf) = m.id /\ FrontData(up.buf) = Serialize(m.msg)
           /\ m.id \in ServerIds => m.msg \in MessageType(m.id)
           /\ AskedFor(asked, m.msg.modid, m.msg.cmdid)
<1>1. /\ m \in Letters /\ FrontId(up.buf) = m.id /\ FrontData(up.buf) = Serialize(m.msg)
      /\ \E i \in DOMAIN asked : asked[i] = m
  BY DEF FirstHere, TakenOut
<1>2. PICK i \in DOMAIN asked : asked[i] = m
  BY <1>1
<1>3. m = [id |-> m.id, msg |-> m.msg]
  BY <1>1 DEF Letters
<1>4. m.id \in ServerIds => m.msg \in MessageType(m.id)
  BY <1>2 DEF IInv, RequestsInv, Typed
<1>5. AskedFor(asked, m.msg.modid, m.msg.cmdid)
  BY <1>2 DEF AskedFor
<1> QED BY <1>1, <1>3, <1>4, <1>5

(* A server knows the same ids as long as it runs.                         *)
LEMMA IdsStay == UNCHANGED server => ServerIds' = ServerIds /\ ClientIds' = ClientIds
BY DEF ServerIds, ClientIds

(* The requests of the client after the message in front was taken out.    *)
LEMMA HeardKeeps ==
    ASSUME IInv, NEW m, FirstHere(m), TakesOut,
           heard' = IF m.id \in ServerIds THEN Append(heard, m) ELSE heard
    PROVE  RequestsInv'
<1> DEFINE new == [up EXCEPT !.buf = BehindFront(@)]
<1>1. /\ m.id \in ServerIds => Carried(new, asked, ServerIds, Append(heard, m))
      /\ m.id \notin ServerIds => Carried(new, asked, ServerIds, heard)
  BY DEF FirstHere, TakenOut
<1>2. up' = new /\ UNCHANGED server /\ asked' = asked
  BY DEF TakesOut
<1> HIDE DEF new
<1>3. Carried(up', asked', ServerIds', heard')
  BY <1>1, <1>2, IdsStay
<1>4. Carried(up, asked, ServerIds, heard)'
  BY <1>3 DEF Carried, CarriedSo
<1> QED BY <1>2, <1>4, IdsStay DEF IInv, RequestsInv, Typed

(* The answers of the server after one more.                               *)
LEMMA AnswerKeeps ==
    ASSUME IInv, NEW id \in ClientIds, NEW msg \in MessageType(id), Answer(id, msg),
           msg.cmdid < WordRange \div 2 => AskedFor(asked, msg.modid, msg.cmdid),
           UNCHANGED <<server, asked, told>>
    PROVE  /\ AnswersInv' /\ AnswersNamed(answered, asked)'
           /\ [id |-> id, msg |-> msg] \in Letters
           /\ answered' = Append(answered, [id |-> id, msg |-> msg])
<1> DEFINE m == [id |-> id, msg |-> msg]
<1>1. /\ Writable(msg) /\ answered' = Append(answered, m)
      /\ down' = [down EXCEPT !.wire = @ \o Pack(m)]
  BY DEF Answer
<1>2. id \in {2, 4, 6}
  BY RoutersAre DEF IInv, RequestsInv
<1>3. id \in Shorts /\ msg \in AnyMessage
  BY <1>2, SmallIds, MessageTypeIs, KindsOfMessages
<1>4. m \in Letters /\ m.id = id /\ m.msg = msg
  BY <1>1, <1>3, LetterIs
<1> HIDE DEF m
<1>5. answered \in Seq(Letters)
  BY SentAre DEF IInv, AnswersInv
<1>6. ServerIds' = ServerIds /\ ClientIds' = ClientIds
  BY IdsStay
<1>7. Carried(down', answered', ClientIds, told)
  <2>1. Carried([down EXCEPT !.wire = @ \o Pack(m)], Append(answered, m), ClientIds, told)
    BY <1>4, CarriedMore DEF IInv, AnswersInv
  <2> QED BY <1>1, <2>1
<1>8. Typed(answered', ClientIds) /\ Under(answered', ClientIds)
  <2>1. Typed(Append(answered, m), ClientIds)
    BY <1>4, <1>5, TypedMore DEF IInv, AnswersInv
  <2>2. Under(Append(answered, m), ClientIds)
    BY <1>4, <1>5, UnderMore DEF IInv, AnswersInv
  <2> QED BY <1>1, <2>1, <2>2
<1>9. AnswersInv'
  <2>1. /\ Carried(down', answered', ClientIds', told')
        /\ Typed(answered', ClientIds') /\ Under(answered', ClientIds')
    BY <1>6, <1>7, <1>8
  <2>2. /\ Carried(down, answered, ClientIds, told)'
        /\ Typed(answered, ClientIds)' /\ Under(answered, ClientIds)'
    BY <2>1 DEF Carried, CarriedSo, Typed, Under
  <2> QED BY <2>2 DEF AnswersInv
<1>10. AnswersNamed(answered, asked)'
  <2>1. AnswersNamed(Append(answered, m), asked)
    BY <1>4, <1>5, AnswersNamedMore DEF IInv, NamedInv
  <2>2. AnswersNamed(answered', asked')
    BY <1>1, <2>1
  <2> QED BY <2>2 DEF AnswersNamed, AskedFor
<1> QED BY <1>1, <1>4, <1>9, <1>10 DEF m

(* What is left as it was.                                                 *)
LEMMA AnswersStay ==
    ASSUME IInv, UNCHANGED <<server, asked, answered, down, told>>
    PROVE  AnswersInv' /\ AnswersNamed(answered, asked)'
BY IdsStay DEF IInv, AnswersInv, NamedInv, AnswersNamed, AskedFor, Carried, CarriedSo, Typed,
               Under

(* What the DNS service remembers, as it was.                              *)
LEMMA TasksStay ==
    ASSUME IInv, UNCHANGED <<server, asked, keys, tasks>>
    PROVE  DnsInv' /\ TasksNamed(tasks, asked)' /\ KeysNamed(keys, asked)'
BY DEF IInv, DnsInv, NamedInv, TasksNamed, KeysNamed, AskedFor

(* The requests, as they were.                                             *)
LEMMA RequestsStay ==
    ASSUME IInv, UNCHANGED <<server, asked, up, heard>>
    PROVE  RequestsInv'
BY IdsStay DEF IInv, RequestsInv, Typed, Carried, CarriedSo

(* The parts of the invariant make the whole.                              *)
LEMMA TogetherKept ==
    ASSUME RequestsInv', AnswersInv', DnsInv', AnswersNamed(answered, asked)',
           TasksNamed(tasks, asked)', KeysNamed(keys, asked)', Paired(heard, answered)'
    PROVE  IInv'
BY DEF IInv, NamedInv

(* What was heard and answered are messages, and pairs.                    *)
LEMMA BothAre ==
    ASSUME IInv
    PROVE  heard \in Seq(Letters) /\ answered \in Seq(Letters) /\ Paired(heard, answered)
BY SentAre DEF IInv, RequestsInv, AnswersInv

----------------------------------------------------------------------------

(* msgGetTheBestHostInfoCB: one answer, with the module and the number of  *)
(* the request.                                                            *)
LEMMA BestHandled ==
    ASSUME IInv, NEW m, FirstHere(m), TakesOut, server = "agent", m.id = 3,
           msgGetTheBestHostInfoCB(FrontData(up.buf))
    PROVE  IInv'
<1> DEFINE data == FrontData(up.buf)
<1>1. /\ m \in Letters /\ m = [id |-> m.id, msg |-> m.msg] /\ data = Serialize(m.msg)
      /\ m.msg \in GetHostRequestType /\ AskedFor(asked, m.msg.modid, m.msg.cmdid)
  BY FrontWasAsked, RoutersAre, MessageTypeIs
<1>2. ParseGetHostRequest(ClearGetHostRequest, data) = m.msg
  BY <1>1, ReadBack
<1>3. /\ heard' = Append(heard, [id |-> 3, msg |-> m.msg])
      /\ \E rsp \in GetTheBestHost(data) : Answer(4, rsp)
      /\ UNCHANGED <<keys, tasks>>
  BY <1>2, IdsAre DEF msgGetTheBestHostInfoCB, Hear
<1>4. PICK rsp \in GetTheBestHost(data) : Answer(4, rsp)
  BY <1>3
<1>5. /\ rsp \in GetHostResponseType
      /\ rsp.seq = m.msg.seq /\ rsp.modid = m.msg.modid /\ rsp.cmdid = m.msg.cmdid
  BY <1>1, <1>2, BestIs
<1> HIDE DEF data
<1>6. heard' = Append(heard, m)
  BY <1>1, <1>3
<1>7. RequestsInv'
  <2>1. m.id \in ServerIds
    BY RoutersAre
  <2> QED BY <1>6, <2>1, HeardKeeps
<1> DEFINE a == [id |-> 4, msg |-> rsp]
<1>8. AnswersInv' /\ AnswersNamed(answered, asked)' /\ a \in Letters
      /\ answered' = Append(answered, a)
  <2>1. 4 \in ClientIds /\ rsp \in MessageType(4)
    BY <1>5, RoutersAre, MessageTypeIs
  <2>2. AskedFor(asked, rsp.modid, rsp.cmdid)
    BY <1>1, <1>5
  <2>3. UNCHANGED <<server, asked, told>>
    BY DEF TakesOut
  <2> QED BY <1>4, <2>1, <2>2, <2>3, AnswerKeeps
<1>9. DnsInv' /\ TasksNamed(tasks, asked)' /\ KeysNamed(keys, asked)'
  BY <1>3, TasksStay DEF TakesOut
<1>10. Paired(heard, answered)'
  <2>1. a.id = 4 /\ a.msg = rsp
    OBVIOUS
  <2> HIDE DEF a
  <2>2. SameModule(a.msg, m.msg) /\ a.msg.seq = m.msg.seq
    BY <1>5, <2>1 DEF SameModule
  <2>3. Paired(Append(heard, m), Append(answered, a))
    BY <1>1, <1>8, <2>1, <2>2, BothAre, PairedMore
  <2> QED BY <1>6, <1>8, <2>3
<1> QED BY <1>7, <1>8, <1>9, <1>10, TogetherKept

(* A request that is only listened to.                                     *)
LEMMA OthersHeard ==
    ASSUME IInv, NEW m, FirstHere(m), TakesOut, m.id \in ServerIds, m.id # 3,
           heard' = Append(heard, m), UNCHANGED <<answered, down>>
    PROVE  /\ RequestsInv' /\ AnswersInv' /\ AnswersNamed(answered, asked)'
           /\ Paired(heard, answered)'
<1>1. RequestsInv'
  BY HeardKeeps
<1>2. AnswersInv' /\ AnswersNamed(answered, asked)'
  BY AnswersStay DEF TakesOut
<1>3. Paired(Append(heard, m), answered)
  BY FrontWasAsked, BothAre, PairedMore
<1> QED BY <1>1, <1>2, <1>3

(* msgReportStatusCB of the agent is only heard.                           *)
LEMMA ReportHandled ==
    ASSUME IInv, NEW m, FirstHere(m), TakesOut, server = "agent", m.id = 8,
           msgReportStatusCB(FrontData(up.buf))
    PROVE  IInv'
<1> DEFINE data == FrontData(up.buf)
<1>1. /\ m \in Letters /\ m = [id |-> m.id, msg |-> m.msg] /\ data = Serialize(m.msg)
      /\ m.msg \in ReportRequestType /\ m.id \in ServerIds
  BY FrontWasAsked, RoutersAre, MessageTypeIs
<1>2. ParseReportRequest(ClearReportRequest, data) = m.msg
  BY <1>1, ReadBack
<1>3. /\ heard' = Append(heard, [id |-> 8, msg |-> m.msg])
      /\ UNCHANGED <<answered, down, keys, tasks>>
  BY <1>2, IdsAre DEF msgReportStatusCB, Hear
<1>4. heard' = Append(heard, m)
  BY <1>1, <1>3
<1>5. /\ RequestsInv' /\ AnswersInv' /\ AnswersNamed(answered, asked)'
      /\ Paired(heard, answered)'
  BY <1>1, <1>3, <1>4, OthersHeard
<1>6. DnsInv' /\ TasksNamed(tasks, asked)' /\ KeysNamed(keys, asked)'
  BY <1>3, TasksStay DEF TakesOut
<1> QED BY <1>5, <1>6, TogetherKept

(* msgGetReportStatusCB of the reporter is only heard.                     *)
LEMMA StatusHandled ==
    ASSUME IInv, NEW m, FirstHere(m), TakesOut, server = "reporter", m.id = 7,
           msgGetReportStatusCB(FrontData(up.buf))
    PROVE  IInv'
<1> DEFINE data == FrontData(up.buf)
<1>1. /\ m \in Letters /\ m = [id |-> m.id, msg |-> m.msg] /\ data = Serialize(m.msg)
      /\ m.msg \in ReportStatusRequestType /\ m.id \in ServerIds
  BY FrontWasAsked, RoutersAre, MessageTypeIs
<1>2. ParseReportStatusRequest(ClearReportStatusRequest, data) = m.msg
  BY <1>1, ReadBack
<1>3. CopyReportStatusRequest(m.msg) = m.msg
  BY <1>1, CopyReportStatusRequestIs DEF CopyReportStatusRequest
<1>4. /\ heard' = Append(heard, [id |-> 7, msg |-> m.msg])
      /\ UNCHANGED <<answered, down, keys, tasks>>
  BY <1>2, <1>3, IdsAre DEF msgGetReportStatusCB, Hear
<1>5. heard' = Append(heard, m)
  BY <1>1, <1>4
<1>6. /\ RequestsInv' /\ AnswersInv' /\ AnswersNamed(answered, asked)'
      /\ Paired(heard, answered)'
  BY <1>1, <1>4, <1>5, OthersHeard
<1>7. DnsInv' /\ TasksNamed(tasks, asked)' /\ KeysNamed(keys, asked)'
  BY <1>4, TasksStay DEF TakesOut
<1> QED BY <1>6, <1>7, TogetherKept

(* A request for a module: the module is a key, and a task is made.        *)
LEMMA RouteHandled ==
    ASSUME IInv, NEW m, FirstHere(m), TakesOut, server = "dns", m.id = 1,
           msgGetRouteCB(FrontData(up.buf))
    PROVE  IInv'
<1> DEFINE data == FrontData(up.buf)
<1>1. /\ m \in Letters /\ m = [id |-> m.id, msg |-> m.msg] /\ data = Serialize(m.msg)
      /\ m.msg \in GetRouteRequestType /\ m.id \in ServerIds
      /\ AskedFor(asked, m.msg.modid, m.msg.cmdid)
  BY FrontWasAsked, RoutersAre, MessageTypeIs
<1>2. ParseGetRouteRequest(ClearGetRouteRequest, data) = m.msg
  BY <1>1, ReadBack
<1>3. CopyGetRouteRequest(m.msg) = m.msg
  BY <1>1, CopyGetRouteRequestIs DEF CopyGetRouteRequest
<1> DEFINE key == Key(m.msg.modid, m.msg.cmdid)
<1>4. /\ heard' = Append(heard, [id |-> 1, msg |-> m.msg])
      /\ keys' = keys \cup {key} /\ tasks' = Append(tasks, m.msg)
      /\ UNCHANGED <<answered, down>>
  BY <1>2, <1>3, IdsAre DEF msgGetRouteCB, Hear
<1>5. heard' = Append(heard, m)
  BY <1>1, <1>4
<1>6. /\ RequestsInv' /\ AnswersInv' /\ AnswersNamed(answered, asked)'
      /\ Paired(heard, answered)'
  BY <1>1, <1>4, <1>5, OthersHeard
<1>7. m.msg.modid \in Words /\ m.msg.cmdid \in Words
  BY <1>1 DEF GetRouteRequestType
<1>8. /\ key \in 0 .. LongRange - 1 /\ CmdidOf(key) = m.msg.cmdid
      /\ m.msg.cmdid < WordRange \div 2 => ModidOf(key) = m.msg.modid
  BY <1>7, KeyIs
<1> HIDE DEF key, data
<1>9. DnsInv'
  <2>1. server' = "dns"
    BY DEF TakesOut
  <2>2. keys' \subseteq 0 .. LongRange - 1
    BY <1>4, <1>8 DEF IInv, DnsInv
  <2>3. tasks' \in Seq(GetRouteRequestType)
    BY <1>1, <1>4, AppendIs DEF IInv, DnsInv
  <2> QED BY <2>1, <2>2, <2>3 DEF DnsInv
<1>10. TasksNamed(tasks, asked)'
  <2>1. TasksNamed(Append(tasks, m.msg), asked)
    BY <1>1, TasksNamedMore DEF IInv, DnsInv, NamedInv
  <2> QED BY <1>4, <2>1 DEF TakesOut, TasksNamed, AskedFor
<1>11. KeysNamed(keys, asked)'
  <2>1. KeysNamed(keys \cup {key}, asked)
    BY <1>1, <1>8 DEF IInv, NamedInv, KeysNamed
  <2> QED BY <1>4, <2>1 DEF TakesOut, KeysNamed, AskedFor
<1> QED BY <1>6, <1>9, <1>10, <1>11, TogetherKept

(* msgGetAllHostsCB: one answer, with the module of the request.           *)
LEMMA AllHandled ==
    ASSUME IInv, NEW m, FirstHere(m), TakesOut, server = "agent", m.id = 5,
           msgGetAllHostsCB(FrontData(up.buf))
    PROVE  IInv'
<1> DEFINE data == FrontData(up.buf)
<1>1. /\ m \in Letters /\ m = [id |-> m.id, msg |-> m.msg] /\ data = Serialize(m.msg)
      /\ m.msg \in GetRouteRequestType /\ m.id \in ServerIds
      /\ AskedFor(asked, m.msg.modid, m.msg.cmdid)
  BY FrontWasAsked, RoutersAre, MessageTypeIs
<1>2. ParseGetRouteRequest(ClearGetRouteRequest, data) = m.msg
  BY <1>1, ReadBack
<1>3. /\ heard' = Append(heard, [id |-> 5, msg |-> m.msg])
      /\ \E rsp \in GetAllHosts(data) : Answer(6, rsp)
      /\ UNCHANGED <<keys, tasks>>
  BY <1>2, IdsAre DEF msgGetAllHostsCB, Hear
<1>4. PICK rsp \in GetAllHosts(data) : Answer(6, rsp)
  BY <1>3
<1>5. /\ rsp \in GetRouteResponseType
      /\ rsp.modid = m.msg.modid /\ rsp.cmdid = m.msg.cmdid
  BY <1>1, <1>2, AllHostsAre
<1> HIDE DEF data
<1>6. heard' = Append(heard, m)
  BY <1>1, <1>3
<1>7. RequestsInv'
  BY <1>1, <1>6, HeardKeeps
<1> DEFINE a == [id |-> 6, msg |-> rsp]
<1>8. AnswersInv' /\ AnswersNamed(answered, asked)' /\ a \in Letters
      /\ answered' = Append(answered, a)
  <2>1. 6 \in ClientIds /\ rsp \in MessageType(6)
    BY <1>5, RoutersAre, MessageTypeIs
  <2>2. AskedFor(asked, rsp.modid, rsp.cmdid)
    BY <1>1, <1>5
  <2>3. UNCHANGED <<server, asked, told>>
    BY DEF TakesOut
  <2> QED BY <1>4, <2>1, <2>2, <2>3, AnswerKeeps
<1>9. DnsInv' /\ TasksNamed(tasks, asked)' /\ KeysNamed(keys, asked)'
  BY <1>3, TasksStay DEF TakesOut
<1>10. Paired(heard, answered)'
  <2>1. a.id = 6
    OBVIOUS
  <2> HIDE DEF a
  <2> DEFINE h == Append(heard, m)
  <2>2. Paired(h, answered) /\ h \in Seq(Letters)
    BY <1>1, BothAre, PairedMore, AppendIs
  <2> HIDE DEF h
  <2>3. Paired(h, Append(answered, a))
    BY <1>8, <2>1, <2>2, BothAre, PairedMore
  <2> QED BY <1>6, <1>8, <2>3 DEF h
<1> QED BY <1>7, <1>8, <1>9, <1>10, TogetherKept

(* What no handler is registered for is dropped.                           *)
LEMMA DroppedKeeps ==
    ASSUME IInv, NEW m, FirstHere(m), TakesOut, m.id \notin ServerIds,
           UNCHANGED <<answered, down, heard, keys, tasks>>
    PROVE  IInv'
<1>1. RequestsInv'
  BY HeardKeeps
<1>2. AnswersInv' /\ AnswersNamed(answered, asked)'
  BY AnswersStay DEF TakesOut
<1>3. DnsInv' /\ TasksNamed(tasks, asked)' /\ KeysNamed(keys, asked)'
  BY TasksStay DEF TakesOut
<1>4. Paired(heard, answered)'
  BY DEF IInv
<1> QED BY <1>1, <1>2, <1>3, <1>4, TogetherKept

(* Which handler an id stands for.                                         *)
LEMMA CallbacksAre ==
    ASSUME server \in {"agent", "dns", "reporter"}, NEW id \in ServerIds
    PROVE  LET callback == Router(server)[id]
           IN  /\ callback = "msgGetTheBestHostInfoCB" => server = "agent" /\ id = 3
               /\ callback = "msgReportStatusCB" => server = "agent" /\ id = 8
               /\ callback = "msgGetAllHostsCB" => server = "agent" /\ id = 5
               /\ callback = "msgGetRouteCB" => server = "dns" /\ id = 1
               /\ callback = "msgGetReportStatusCB" => server = "reporter" /\ id = 7
<1>1. CASE server = "agent"
  BY <1>1, RoutersAre, AgentRouterIs
<1>2. CASE server = "dns"
  BY <1>2, RoutersAre, OtherRoutersAre
<1>3. CASE server = "reporter"
  BY <1>3, RoutersAre, OtherRoutersAre
<1> QED BY <1>1, <1>2, <1>3

(* Whatever the message in front is, handling it keeps the invariant.      *)
LEMMA ServerHandlesKeeps ==
    ASSUME IInv, ServerHandles
    PROVE  IInv'
<1>1. /\ FrontIsWhole(up.buf) /\ TakesOut
      /\ callMsgRouter(FrontId(up.buf), FrontData(up.buf))
  BY DEF ServerHandles, TakesOut
<1>2. PICK m : FirstHere(m)
  BY <1>1, FrontIsThere
<1>3. FrontId(up.buf) = m.id
  BY <1>2, FrontWasAsked
<1> DEFINE data == FrontData(up.buf)
           callback == Router(server)[m.id]
<1>4. CASE m.id \notin ServerIds
  <2>1. UNCHANGED <<answered, down, heard, keys, tasks>>
    BY <1>1, <1>3, <1>4 DEF callMsgRouter, ServerIds
  <2> QED BY <1>1, <1>2, <1>4, <2>1, DroppedKeeps
<1>5. CASE m.id \in ServerIds
  <2>1. \/ callback = "msgGetTheBestHostInfoCB" /\ msgGetTheBestHostInfoCB(data)
        \/ callback = "msgReportStatusCB" /\ msgReportStatusCB(data)
        \/ callback = "msgGetAllHostsCB" /\ msgGetAllHostsCB(data)
        \/ callback = "msgGetRouteCB" /\ msgGetRouteCB(data)
        \/ callback = "msgGetReportStatusCB" /\ msgGetReportStatusCB(data)
    BY <1>1, <1>3, <1>5 DEF callMsgRouter, ServerIds
  <2>2. /\ callback = "msgGetTheBestHostInfoCB" => server = "agent" /\ m.id = 3
        /\ callback = "msgReportStatusCB" => server = "agent" /\ m.id = 8
        /\ callback = "msgGetAllHostsCB" => server = "agent" /\ m.id = 5
        /\ callback = "msgGetRouteCB" => server = "dns" /\ m.id = 1
        /\ callback = "msgGetReportStatusCB" => server = "reporter" /\ m.id = 7
    BY <1>5, CallbacksAre DEF IInv, RequestsInv
  <2> HIDE DEF callback
  <2>3. CASE callback = "msgGetTheBestHostInfoCB" /\ msgGetTheBestHostInfoCB(data)
    BY <1>1, <1>2, <2>2, <2>3, BestHandled
  <2>4. CASE callback = "msgReportStatusCB" /\ msgReportStatusCB(data)
    BY <1>1, <1>2, <2>2, <2>4, ReportHandled
  <2>5. CASE callback = "msgGetAllHostsCB" /\ msgGetAllHostsCB(data)
    BY <1>1, <1>2, <2>2, <2>5, AllHandled
  <2>6. CASE callback = "msgGetRouteCB" /\ msgGetRouteCB(data)
    BY <1>1, <1>2, <2>2, <2>6, RouteHandled
  <2>7. CASE callback = "msgGetReportStatusCB" /\ msgGetReportStatusCB(data)
    BY <1>1, <1>2, <2>2, <2>7, StatusHandled
  <2> QED BY <2>1, <2>3, <2>4, <2>5, <2>6, <2>7
<1> QED BY <1>4, <1>5

(* Without one element, the others are left.                               *)
LEMMA RemovedIs ==
    ASSUME NEW S, NEW s \in Seq(S), NEW i \in 1 .. Len(s)
    PROVE  /\ RemoveAt(s, i) \in Seq(S)
           /\ \A j \in DOMAIN RemoveAt(s, i) : \E k \in DOMAIN s : RemoveAt(s, i)[j] = s[k]
<1> DEFINE n == Len(s)
           a == SubSeq(s, 1, i - 1)
           b == SubSeq(s, i + 1, n)
           c == a \o b
<1>1. n \in Nat /\ DOMAIN s = 1 .. n /\ i \in 1 .. n
  OBVIOUS
<1>2. RemoveAt(s, i) = c
  BY DEF RemoveAt
<1>3. a \in Seq(S) /\ Len(a) = i - 1 /\ \A j \in 1 .. i - 1 : a[j] = s[j]
  BY <1>1
<1>4. b \in Seq(S) /\ Len(b) = n - i /\ \A j \in 1 .. n - i : b[j] = s[i + j]
  <2> DEFINE k == i + 1
  <2>1. k \in Int /\ n \in Int /\ n - k + 1 = n - i /\ \A j \in k .. n : s[j] \in S
    BY <1>1
  <2>2. \A j \in 1 .. n - k + 1 : k + j - 1 = i + j
    BY <1>1
  <2>3. Len(b) = n - i
    <3>1. Len(b) = IF k <= n THEN n - k + 1 ELSE 0
      BY <2>1, SubSeqProperties
    <3>2. i \in 1 .. n /\ n \in Nat /\ k = i + 1
      BY <1>1
    <3> HIDE DEF b, n, k
    <3> QED BY <3>1, <3>2
  <2>4. b \in Seq(S) /\ \A j \in 1 .. n - k + 1 : b[j] = s[k + j - 1]
    BY <2>1, SubSeqProperties
  <2> HIDE DEF b, n
  <2> QED BY <2>1, <2>2, <2>3, <2>4
<1> HIDE DEF a, b, n
<1>5. /\ c \in Seq(S) /\ DOMAIN c = 1 .. (i - 1) + (n - i)
      /\ \A j \in 1 .. i - 1 : c[j] = a[j]
      /\ \A j \in 1 .. n - i : c[(i - 1) + j] = b[j]
  <2>1. /\ a \o b \in Seq(S) /\ Len(a \o b) = Len(a) + Len(b)
        /\ \A j \in 1 .. Len(a) + Len(b) :
             (a \o b)[j] = IF j <= Len(a) THEN a[j] ELSE b[j - Len(a)]
    BY <1>3, <1>4, ConcatProperties
  <2>2. i - 1 \in Nat /\ n - i \in Nat
    BY <1>1
  <2> HIDE DEF c
  <2>3. c \in Seq(S) /\ Len(c) = (i - 1) + (n - i) /\ DOMAIN c = 1 .. Len(c)
    BY <1>3, <1>4, <2>1 DEF c
  <2>4. \A j \in 1 .. (i - 1) + (n - i) : c[j] = IF j <= i - 1 THEN a[j] ELSE b[j - (i - 1)]
    BY <1>3, <1>4, <2>1 DEF c
  <2>5. \A j \in 1 .. n - i :
            /\ (i - 1) + j \in 1 .. (i - 1) + (n - i) /\ ~((i - 1) + j <= i - 1)
            /\ ((i - 1) + j) - (i - 1) = j
    BY <1>1
  <2>6. \A j \in 1 .. i - 1 : j \in 1 .. (i - 1) + (n - i) /\ j <= i - 1
    BY <1>1, <2>2
  <2>7. \A j \in 1 .. i - 1 : c[j] = a[j]
    BY <2>4, <2>6
  <2>8. \A j \in 1 .. n - i : c[(i - 1) + j] = b[j]
    BY <2>4, <2>5
  <2> QED BY <2>3, <2>7, <2>8
<1> HIDE DEF c
<1>6. ASSUME NEW j \in DOMAIN c
      PROVE  \E k \in DOMAIN s : c[j] = s[k]
  <2>1. CASE j \in 1 .. i - 1
    BY <1>1, <1>3, <1>5, <2>1
  <2>2. CASE j \notin 1 .. i - 1
    <3> DEFINE d == j - (i - 1)
    <3>1. d \in 1 .. n - i /\ j = (i - 1) + d /\ i + d \in 1 .. n
      BY <1>1, <1>5, <2>2
    <3> HIDE DEF d
    <3>2. c[j] = s[i + d]
      BY <1>4, <1>5, <3>1
    <3> QED BY <1>1, <3>1, <3>2
  <2> QED BY <2>1, <2>2
<1> QED BY <1>2, <1>5, <1>6

(* An answer of the DNS service.                                           *)
LEMMA RoutesAnswered ==
    ASSUME IInv, server = "dns", NEW modid \in Words, NEW cmdid \in Words,
           cmdid < WordRange \div 2 => AskedFor(asked, modid, cmdid),
           NEW list \in HostLists,
           Answer(2, WithHosts(NamesModule(ClearGetRouteResponse, modid, cmdid), list)),
           UNCHANGED <<server, asked, up, heard, told>>
    PROVE  /\ RequestsInv' /\ AnswersInv' /\ AnswersNamed(answered, asked)'
           /\ Paired(heard, answered)'
<1> DEFINE rsp == WithHosts(NamesModule(ClearGetRouteResponse, modid, cmdid), list)
           a == [id |-> 2, msg |-> rsp]
<1>1. rsp \in GetRouteResponseType /\ rsp.modid = modid /\ rsp.cmdid = cmdid
  BY RoutesAre
<1>2. Answer(2, rsp)
  OBVIOUS
<1> HIDE DEF rsp
<1>3. AnswersInv' /\ AnswersNamed(answered, asked)' /\ a \in Letters
      /\ answered' = Append(answered, a)
  <2>1. 2 \in ClientIds /\ rsp \in MessageType(2)
    BY <1>1, RoutersAre, MessageTypeIs
  <2>2. rsp.cmdid < WordRange \div 2 => AskedFor(asked, rsp.modid, rsp.cmdid)
    BY <1>1
  <2> QED BY <1>2, <2>1, <2>2, AnswerKeeps
<1>4. Paired(heard, answered)'
  <2>1. a.id # 4
    OBVIOUS
  <2> HIDE DEF a
  <2>2. Paired(heard, Append(answered, a))
    BY <1>3, <2>1, BothAre, PairedMore
  <2> QED BY <1>3, <2>2
<1>5. RequestsInv'
  BY RequestsStay
<1> QED BY <1>3, <1>4, <1>5

(* A worker takes a task and answers it.                                   *)
LEMMA WorkKeeps ==
    ASSUME IInv, NEW i \in 1 .. Workers, threadPoolWorkTask(i)
    PROVE  IInv'
<1>1. /\ i \in DOMAIN tasks /\ tasks' = RemoveAt(tasks, i)
      /\ UNCHANGED <<server, asked, up, heard, told, keys, pushes>>
  BY DEF threadPoolWorkTask
<1>2. tasks \in Seq(GetRouteRequestType) /\ tasks[i] \in GetRouteRequestType
      /\ i \in 1 .. Len(tasks)
  BY <1>1 DEF IInv, DnsInv
<1>3. server = "dns"
  <2>1. DOMAIN <<>> = {}
    OBVIOUS
  <2> QED BY <1>1, <2>1 DEF IInv, DnsInv
<1>4. tasks[i].modid \in Words /\ tasks[i].cmdid \in Words
  BY <1>2 DEF GetRouteRequestType
<1>5. AskedFor(asked, tasks[i].modid, tasks[i].cmdid)
  BY <1>1 DEF IInv, NamedInv, TasksNamed
<1>6. PICK list \in HostLists :
        Answer(2, WithHosts(NamesModule(ClearGetRouteResponse, tasks[i].modid,
                                        tasks[i].cmdid), list))
  BY IdsAre DEF threadPoolWorkTask
<1>7. /\ RequestsInv' /\ AnswersInv' /\ AnswersNamed(answered, asked)'
      /\ Paired(heard, answered)'
  BY <1>1, <1>3, <1>4, <1>5, <1>6, RoutesAnswered
<1>8. /\ tasks' \in Seq(GetRouteRequestType)
      /\ \A j \in DOMAIN tasks' : \E k \in DOMAIN tasks : tasks'[j] = tasks[k]
  BY <1>1, <1>2, RemovedIs
<1>9. DnsInv'
  BY <1>1, <1>3, <1>8 DEF IInv, DnsInv
<1>10. TasksNamed(tasks, asked)'
  <2>1. TasksNamed(tasks', asked)
    BY <1>8 DEF IInv, NamedInv, TasksNamed
  <2> QED BY <1>1, <2>1 DEF TasksNamed, AskedFor
<1>11. KeysNamed(keys, asked)'
  BY <1>1 DEF IInv, NamedInv, KeysNamed, AskedFor
<1> QED BY <1>7, <1>9, <1>10, <1>11, TogetherKept

(* A change of a module is pushed to whoever asked for it.                 *)
LEMMA PushKeeps ==
    ASSUME IInv, NEW key \in keys, pushChangeTask(key)
    PROVE  IInv'
<1>1. UNCHANGED <<server, asked, up, heard, told, keys, tasks>>
  BY DEF pushChangeTask
<1>2. server = "dns" /\ key \in 0 .. LongRange - 1
  BY DEF IInv, DnsInv
<1>3. ModidOf(key) \in Words /\ CmdidOf(key) \in Words
  BY <1>2, KeysAreNamed
<1>4. CmdidOf(key) < WordRange \div 2 => AskedFor(asked, ModidOf(key), CmdidOf(key))
  BY DEF IInv, NamedInv, KeysNamed
<1>5. PICK list \in HostLists :
        Answer(2, WithHosts(NamesModule(ClearGetRouteResponse, ModidOf(key), CmdidOf(key)),
                            list))
  BY IdsAre DEF pushChangeTask
<1>6. /\ RequestsInv' /\ AnswersInv' /\ AnswersNamed(answered, asked)'
      /\ Paired(heard, answered)'
  BY <1>1, <1>2, <1>3, <1>4, <1>5, RoutesAnswered
<1>7. DnsInv' /\ TasksNamed(tasks, asked)' /\ KeysNamed(keys, asked)'
  BY <1>1, TasksStay
<1> QED BY <1>6, <1>7, TogetherKept

(* The client handles an answer.                                           *)
LEMMA ClientHandlesKeeps ==
    ASSUME IInv, ClientHandles
    PROVE  IInv'
<1> DEFINE data == FrontData(down.buf)
           new == [down EXCEPT !.buf = BehindFront(@)]
<1>1. /\ FrontIsWhole(down.buf) /\ down' = new
      /\ UNCHANGED <<server, asked, answered, up, heard, keys, tasks, pushes>>
  BY DEF ClientHandles
<1>2. PICK m : TakenOut(down, answered, ClientIds, told, m)
  BY <1>1, CarriedToFront DEF IInv, AnswersInv
<1>3. /\ m \in Letters /\ FrontId(down.buf) = m.id /\ data = Serialize(m.msg)
      /\ \E j \in DOMAIN answered : answered[j] = m
      /\ m.id \in ClientIds => Carried(new, answered, ClientIds, Append(told, m))
  BY <1>2 DEF TakenOut
<1>4. m.id \in ClientIds /\ m.msg \in MessageType(m.id)
  BY <1>3 DEF IInv, AnswersInv, Typed, Under
<1>5. m = [id |-> m.id, msg |-> m.msg]
  BY <1>3 DEF Letters
<1>6. told' = Append(told, m)
  <2>1. CASE server = "agent"
    <3>1. TellApi(m.id, data) /\ m.id \in {4, 6}
      BY <1>3, <1>4, <2>1, RoutersAre DEF ClientHandles
    <3>2. CASE m.id = 4
      <4>1. msgRecvTheBestHostInfoCB(data)
        BY <3>1, <3>2, AgentClientRouterIs DEF TellApi
      <4>2. ParseGetHostResponse(ClearGetHostResponse, data) = m.msg
        BY <1>3, <1>4, <3>2, MessageTypeIs, ReadBack
      <4>3. told' = Append(told, [id |-> 4, msg |-> m.msg])
        BY <4>1, <4>2, IdsAre DEF msgRecvTheBestHostInfoCB
      <4> QED BY <1>5, <3>2, <4>3
    <3>3. CASE m.id = 6
      <4>1. msgRecvAllHostsCB(data)
        BY <3>1, <3>3, AgentClientRouterIs DEF TellApi
      <4>2. ParseGetRouteResponse(ClearGetRouteResponse, data) = m.msg
        BY <1>3, <1>4, <3>3, MessageTypeIs, ReadBack
      <4>3. told' = Append(told, [id |-> 6, msg |-> m.msg])
        BY <4>1, <4>2, IdsAre DEF msgRecvAllHostsCB
      <4> QED BY <1>5, <3>3, <4>3
    <3> QED BY <3>1, <3>2, <3>3
  <2>2. CASE server # "agent"
    <3>1. TellAgent(m.id, data)
      BY <1>3, <2>2 DEF ClientHandles
    <3>2. m.id = 2
      BY <1>4, <2>2, RoutersAre DEF IInv, RequestsInv
    <3>3. ParseGetRouteResponse(ClearGetRouteResponse, data) = m.msg
      BY <1>3, <1>4, <3>2, MessageTypeIs, ReadBack
    <3>4. told' = Append(told, [id |-> 2, msg |-> m.msg])
      BY <3>1, <3>3, IdsAre DEF TellAgent
    <3> QED BY <1>5, <3>2, <3>4
  <2> QED BY <2>1, <2>2
<1> HIDE DEF new
<1>7. AnswersInv'
  <2>1. Carried(down', answered', ClientIds', told')
    BY <1>1, <1>3, <1>4, <1>6, IdsStay
  <2>2. Carried(down, answered, ClientIds, told)'
    BY <2>1 DEF Carried, CarriedSo
  <2> QED BY <1>1, <2>2, IdsStay DEF IInv, AnswersInv, Typed, Under
<1>8. RequestsInv'
  BY <1>1, RequestsStay
<1>9. DnsInv' /\ TasksNamed(tasks, asked)' /\ KeysNamed(keys, asked)'
  BY <1>1, TasksStay
<1>10. AnswersNamed(answered, asked)' /\ Paired(heard, answered)'
  BY <1>1 DEF IInv, NamedInv, AnswersNamed, AskedFor
<1> QED BY <1>7, <1>8, <1>9, <1>10, TogetherKept

(* If nothing changes, neither does the invariant.                         *)
LEMMA StutterKeeps ==
    ASSUME IInv, UNCHANGED vars
    PROVE  IInv'
<1>1. UNCHANGED <<server, asked, answered, up, down, heard, told, keys, tasks, pushes>>
  BY DEF vars
<1>2. RequestsInv'
  BY <1>1, RequestsStay
<1>3. AnswersInv' /\ AnswersNamed(answered, asked)'
  BY <1>1, AnswersStay
<1>4. DnsInv' /\ TasksNamed(tasks, asked)' /\ KeysNamed(keys, asked)'
  BY <1>1, TasksStay
<1>5. Paired(heard, answered)'
  BY <1>1 DEF IInv
<1> QED BY <1>2, <1>3, <1>4, <1>5, TogetherKept

(* Every step keeps the invariant.                                         *)
LEMMA NextKeeps == IInv /\ [Next]_vars => IInv'
<1> SUFFICES ASSUME IInv, [Next]_vars PROVE IInv'
  OBVIOUS
<1>1. ASSUME NEW mod \in Modules, NEW id \in {ID.GetHostRequest} \cup Strays,
             sendGetBestHostRequestMsg(id, mod, Len(asked) + 1)
      PROVE  IInv'
  BY <1>1, BestKeeps
<1>2. ASSUME NEW mod \in Modules, NEW id \in {ID.API_GetRouteRequest} \cup Strays,
             sendGetAllHostsRequestMsg(id, mod)
      PROVE  IInv'
  BY <1>2, AllKeeps
<1>3. ASSUME NEW mod \in Modules, NEW host \in Hosts, NEW retcode \in Retcodes,
             sendReportRequestMsg(ID.ReportRequest, mod, host, retcode)
      PROVE  IInv'
  BY <1>3, ReportKeeps
<1>4. ASSUME NEW mod \in Modules, pullHostFromDns(mod)
      PROVE  IInv'
  BY <1>4, PullKeeps
<1>5. ASSUME NEW mod \in Modules, NEW report \in Reports,
             pushCallResultToReport(mod, report, Len(asked) + 1)
      PROVE  IInv'
  BY <1>5, PushCallsKeeps
<1>6. ASSUME NEW id \in {ID.GetRouteRequest} \cup Strays, sendRouteRequestMsg(id)
      PROVE  IInv'
  BY <1>6, RouteKeeps
<1>7. ASSUME NEW id \in {ID.ReportStatusRequest} \cup Strays, NEW modid \in 1 .. 3,
             sendReportStatusRequestMsg(id, modid, Len(asked) + 1)
      PROVE  IInv'
  BY <1>7, StatusKeeps
<1>8. ASSUME NEW n \in Chunks, ArriveUp(n) \/ ArriveDown(n)
      PROVE  IInv'
  BY <1>8, ArriveUpKeeps, ArriveDownKeeps
<1>9. CASE ServerHandles
  BY <1>9, ServerHandlesKeeps
<1>10. CASE ClientHandles
  BY <1>10, ClientHandlesKeeps
<1>11. ASSUME NEW i \in 1 .. Workers, threadPoolWorkTask(i)
       PROVE  IInv'
  BY <1>11, WorkKeeps
<1>12. ASSUME NEW key \in keys, pushChangeTask(key)
       PROVE  IInv'
  BY <1>12, PushKeeps
<1>13. CASE UNCHANGED vars
  BY <1>13, StutterKeeps
<1> QED BY <1>1, <1>2, <1>3, <1>4, <1>5, <1>6, <1>7, <1>8, <1>9, <1>10, <1>11, <1>12, <1>13
        DEF Next

(* The inductive invariant holds of every reachable state: on each way,    *)
(* what was handled are the known ones of the first messages sent and the  *)
(* buffer and the wire hold the others; requests and answers have the type *)
(* of their id; every module that is answered, is a task or is a key was   *)
(* asked for; and the answers for the best host are one for each request   *)
(* that was heard, in their order.                                         *)
THEOREM InvariantHolds == Spec => []IInv
<1> QED BY AtFirst, NextKeeps, PTL DEF Spec

----------------------------------------------------------------------------

(* The types are part of it.                                               *)
LEMMA TypesFollow == IInv => TypeOK
<1> SUFFICES ASSUME IInv PROVE TypeOK
  OBVIOUS
<1>1. \A i \in DOMAIN heard : heard[i].msg \in MessageType(heard[i].id)
  <2> TAKE i \in DOMAIN heard
  <2>1. heard[i].id \in ServerIds /\ \E j \in DOMAIN asked : asked[j] = heard[i]
    BY CarriedWasSent DEF IInv, RequestsInv
  <2>2. PICK j \in DOMAIN asked : asked[j] = heard[i]
    BY <2>1
  <2> QED BY <2>1, <2>2 DEF IInv, RequestsInv, Typed
<1>2. \A i \in DOMAIN told : told[i].msg \in MessageType(told[i].id)
  <2> TAKE i \in DOMAIN told
  <2>1. told[i].id \in ClientIds /\ \E j \in DOMAIN answered : answered[j] = told[i]
    BY CarriedWasSent DEF IInv, AnswersInv
  <2>2. PICK j \in DOMAIN answered : answered[j] = told[i]
    BY <2>1
  <2> QED BY <2>1, <2>2 DEF IInv, AnswersInv, Typed
<1>3. \A i \in DOMAIN tasks : tasks[i] \in GetRouteRequestType
  BY DEF IInv, DnsInv
<1> QED BY <1>1, <1>2, <1>3 DEF TypeOK, IInv, RequestsInv, DnsInv

(* Every variable has its type: whatever is sent and handled is a message  *)
(* with an id, and the connection carries bytes.                           *)
THEOREM TypeCorrect == Spec => []TypeOK
<1> QED BY InvariantHolds, TypesFollow, PTL

(* So is what was handled.                                                 *)
LEMMA HandledFollows == IInv => HandledAsSent
BY CarriedIsPrefix DEF IInv, RequestsInv, AnswersInv, HandledAsSent

(* Whatever chunks the bytes arrive in, the handlers of the server and of  *)
(* the client see the messages that were sent to them, each once, in the   *)
(* order they were sent and with the ids they were sent with, up to the    *)
(* first that is too long (AgentServer.cc:39-67 and its likes).            *)
THEOREM HandledAsSentHolds == Spec => []HandledAsSent
<1> QED BY InvariantHolds, HandledFollows, PTL

(* Nothing whole is left when everything has arrived.                      *)
LEMMA NothingIsLeftFollows == IInv => NothingIsLeft
BY CarriedToTheEnd DEF IInv, RequestsInv, AnswersInv, NothingIsLeft

(* When all bytes have arrived and no whole message is in the buffer,      *)
(* every message that can be handled was handled: none is stuck behind a   *)
(* head that was read wrongly.                                             *)
THEOREM NothingIsLeftHolds == Spec => []NothingIsLeft
<1> QED BY InvariantHolds, NothingIsLeftFollows, PTL

(* Any two messages of a sequence agree.                                   *)
LEMMA MergingFollows ==
    \A messages \in Seq(Letters) : \A i \in DOMAIN messages :
        Agrees(messages[i].msg, messages[Len(messages)].msg)
<1> TAKE messages \in Seq(Letters)
<1> TAKE i \in DOMAIN messages
<1>1. Len(messages) \in DOMAIN messages
  OBVIOUS
<1>2. messages[i] \in Letters /\ messages[Len(messages)] \in Letters
  BY <1>1
<1>3. messages[i].msg \in AnyMessage /\ messages[Len(messages)].msg \in AnyMessage
  BY <1>2 DEF Letters
<1> QED BY <1>3, MessagesAgree

(* So do those that were sent.                                             *)
LEMMA BytesMergeFollows == IInv => BytesMerge
<1> SUFFICES ASSUME IInv PROVE BytesMerge
  OBVIOUS
<1>1. asked \in Seq(Letters) /\ answered \in Seq(Letters)
  BY SentAre DEF IInv, RequestsInv, AnswersInv
<1> QED BY <1>1, MergingFollows DEF BytesMerge, Agrees

(* For all messages that are ever sent: ByteSizeLong counts the bytes that *)
(* _InternalSerialize writes, and reading them into a message that has     *)
(* fields already is the same as MergeFrom.                                *)
THEOREM BytesMergeHolds == Spec => []BytesMerge
<1> QED BY InvariantHolds, BytesMergeFollows, PTL

----------------------------------------------------------------------------
(* The best hosts that were told are the first that were answered.         *)
LEMMA ToldInOrder ==
    ASSUME IInv
    PROVE  LET chosen == Those(told, {ID.GetHostResponse})
               all == Those(answered, {ID.GetHostResponse})
           IN  /\ DOMAIN chosen = 1 .. Len(chosen) /\ Len(chosen) \in Nat
               /\ Len(chosen) <= Len(all)
               /\ \A i \in 1 .. Len(chosen) : chosen[i] = all[i]
<1> DEFINE chosen == Those(told, {4})
           all == Those(answered, {4})
<1>1. PICK done, left : CarriedSo(down, answered, ClientIds, told, done, left)
  BY DEF IInv, AnswersInv, Carried
<1>2. /\ done \in Seq(Letters) /\ left \in Seq(Letters) /\ answered = done \o left
      /\ told = Those(done, ClientIds)
  BY <1>1 DEF CarriedSo
<1> DEFINE first == Those(done, {4})
           rest == Those(left, {4})
<1>3. first \in Seq(Letters) /\ rest \in Seq(Letters)
  BY <1>2, ThoseType
<1>4. all = first \o rest
  BY <1>2, ThoseConcat
<1>5. chosen = first \/ chosen = <<>>
  <2>1. CASE 4 \in ClientIds
    <3>1. {4} \subseteq ClientIds
      BY <2>1
    <3> QED BY <1>2, <3>1, ThoseTwice
  <2>2. CASE 4 \notin ClientIds
    <3>1. {4} \cap ClientIds = {}
      BY <2>2
    <3> QED BY <1>2, <3>1, ThoseTwice
  <2> QED BY <2>1, <2>2
<1> HIDE DEF chosen, all, first, rest
<1>6. /\ Len(first) \in Nat /\ Len(rest) \in Nat /\ DOMAIN first = 1 .. Len(first)
      /\ Len(all) = Len(first) + Len(rest)
      /\ \A i \in 1 .. Len(first) : all[i] = first[i]
  BY <1>3, <1>4
<1>7. /\ DOMAIN chosen = 1 .. Len(chosen) /\ Len(chosen) \in Nat
      /\ Len(chosen) <= Len(all)
      /\ \A i \in 1 .. Len(chosen) : chosen[i] = all[i]
  <2>1. CASE chosen = first
    BY <1>6, <2>1
  <2>2. CASE chosen = <<>>
    BY <1>6, <2>2
  <2> QED BY <1>5, <2>1, <2>2
<1> QED BY <1>7, IdsAre DEF chosen, all

(* What was told was answered, and what was answered was asked.            *)
LEMMA AnswersFollow == IInv => AnswersAreAsked
<1> SUFFICES ASSUME IInv PROVE AnswersAreAsked
  OBVIOUS
<1> DEFINE best == Those(heard, {ID.GetHostRequest})
           chosen == Those(told, {ID.GetHostResponse})
           all == Those(answered, {ID.GetHostResponse})
<1>1. Answering(best, all)
  BY DEF IInv, Paired
<1>2. /\ DOMAIN chosen = 1 .. Len(chosen) /\ Len(chosen) \in Nat
      /\ Len(chosen) <= Len(all) /\ \A i \in 1 .. Len(chosen) : chosen[i] = all[i]
  BY ToldInOrder
<1>3. Len(all) \in Nat
  <2>1. all \in Seq(Letters)
    BY BothAre, ThoseType
  <2> QED BY <2>1
<1> HIDE DEF best, chosen, all
<1>4. \A i \in DOMAIN chosen :
        SameModule(chosen[i].msg, best[i].msg) /\ chosen[i].msg.seq = best[i].msg.seq
  <2> TAKE i \in DOMAIN chosen
  <2>1. i \in 1 .. Len(all) /\ chosen[i] = all[i]
    BY <1>2, <1>3
  <2> QED BY <1>1, <2>1 DEF Answering
<1>5. ASSUME NEW i \in DOMAIN told, told[i].msg.cmdid < WordRange \div 2
      PROVE  \E j \in DOMAIN asked : SameModule(told[i].msg, asked[j].msg)
  <2>1. PICK k \in DOMAIN answered : answered[k] = told[i]
    BY CarriedWasSent DEF IInv, AnswersInv
  <2>2. AskedFor(asked, told[i].msg.modid, told[i].msg.cmdid)
    BY <1>5, <2>1 DEF IInv, NamedInv, AnswersNamed
  <2> QED BY <2>2 DEF AskedFor, SameModule
<1> QED BY <1>4, <1>5 DEF AnswersAreAsked, best, chosen

(* A client is told nothing it did not ask for: each answer for the best   *)
(* host has the module and the number of its request, in the order of the  *)
(* requests, and every module named by an answer or a push was asked for,  *)
(* unless its cmdid is a negative int.                                     *)
THEOREM AnswersAreAskedHolds == Spec => []AnswersAreAsked
<1> QED BY InvariantHolds, AnswersFollow, PTL
=============================================================================
