------------------------------ MODULE CodecProofs ------------------------------
(***************************************************************************)
(* Connection::send writes packets in the form of the standard, and what   *)
(* the length in the header of such a packet says is read back digit by    *)
(* digit, for every number of values that a byte has.                      *)
(*                                                                         *)
(* The provers know little of quotients by a number that is not fixed: the *)
(* first part derives what is needed of digits from the uniqueness of      *)
(* quotient and remainder.                                                 *)
(***************************************************************************)
EXTENDS PacketCodec, SequenceTheorems, WellFoundedInduction, TLAPS

-----------------------------------------------------------------------------
(* Quotients *)

(* Quotient and remainder                                                  *)
LEMMA Euclid ==
  ASSUME NEW x \in Nat, NEW w \in Nat \ {0}
  PROVE  x \div w \in Nat /\ x % w \in 0 .. w - 1 /\ x = (x \div w) * w + (x % w)
<1>1. x \div w \in Nat
  OBVIOUS
<1>2. x % w \in 0 .. w - 1
  OBVIOUS
<1>3. x = (x \div w) * w + (x % w)
  OBVIOUS
<1> QED
  BY <1>1, <1>2, <1>3

(* ... are unique.                                                         *)
LEMMA Unique ==
  ASSUME NEW w \in Nat \ {0}, NEW t \in Nat, NEW u \in 0 .. w - 1, NEW x, x = t * w + u
  PROVE  x % w = u /\ x \div w = t
<1>1. (w * t + u) % w = u /\ (w * t + u) \div w = t
  OBVIOUS
<1>2. w * t + u = t * w + u
  OBVIOUS
<1> QED
  BY <1>1, <1>2

(* A number that is smaller has one digit.                                 *)
LEMMA OneDigit ==
  ASSUME NEW w \in Nat \ {0}, NEW x \in Nat, x < w PROVE x % w = x
<1> DEFINE q == x \div w
           r == x % w
<1>1. q \in Nat /\ r \in 0 .. w - 1 /\ x = q * w + r
  BY Euclid
<1> HIDE DEF q, r
<1>2. q > 0 => q * w >= w
  BY <1>1
<1>3. q = 0
  BY <1>1, <1>2
<1> QED
  BY <1>1, <1>3 DEF r

(* The next digit: dividing by w and then by d is dividing by w * d.       *)
LEMMA NextDigit ==
  ASSUME NEW x \in Nat, NEW w \in Nat \ {0}, NEW d \in Nat \ {0}
  PROVE  /\ x % (w * d) = (x % w) + ((x \div w) % d) * w
         /\ x \div (w * d) = (x \div w) \div d
<1> DEFINE q == x \div w
           r == x % w
           t == q \div d
           s == q % d
<1>1. q \in Nat /\ r \in 0 .. w - 1 /\ x = q * w + r
  BY Euclid
<1> HIDE DEF q, r
<1>2. t \in Nat /\ s \in 0 .. d - 1 /\ q = t * d + s
  BY <1>1, Euclid
<1> HIDE DEF t, s
<1>3. w * d \in Nat \ {0}
  OBVIOUS
<1>4. q * w = t * (w * d) + s * w
  <2>1. q * w = (t * d + s) * w
    BY <1>2
  <2>2. (t * d + s) * w = t * (w * d) + s * w
    BY <1>2
  <2> QED
    BY <2>1, <2>2
<1>5. x = t * (w * d) + (s * w + r)
  <2>1. t * (w * d) \in Nat /\ s * w \in Nat
    BY <1>2
  <2> HIDE DEF t
  <2> QED
    BY <1>1, <1>4, <2>1
<1>6. s * w + r \in 0 .. w * d - 1
  <2>1. (s + 1) * w =< d * w
    BY <1>2
  <2>2. (s + 1) * w = s * w + w /\ d * w = w * d /\ s * w \in Nat
    BY <1>2
  <2> QED
    BY <1>1, <1>3, <2>1, <2>2
<1> DEFINE m == w * d
           u == s * w + r
<1>7. m \in Nat \ {0} /\ u \in 0 .. m - 1 /\ x = t * m + u
  BY <1>3, <1>5, <1>6
<1> HIDE DEF m, u
<1>8. x % m = u /\ x \div m = t
  BY <1>2, <1>7, Unique
<1>9. x % (w * d) = s * w + r /\ x \div (w * d) = t
  BY <1>8 DEF m, u
<1>10. s * w \in Nat
  BY <1>2
<1> QED
  BY <1>1, <1>9, <1>10 DEF t, s, q, r

-----------------------------------------------------------------------------
(* Sequences *)

(* One sequence after another                                              *)
LEMMA Joined ==
  ASSUME NEW S, NEW s \in Seq(S), NEW t \in Seq(S)
  PROVE  s \o t \in Seq(S) /\ Len(s \o t) = Len(s) + Len(t)
BY ConcatProperties

(* The part of a sequence that has the elements of another one             *)
LEMMA Part ==
  ASSUME NEW S, NEW s \in Seq(S), NEW t \in Seq(S), NEW first \in Int, NEW last \in Int,
         first >= 1, last =< Len(s), Len(t) = last - first + 1,
         \A n \in first .. last : s[n] = t[n - first + 1]
  PROVE  SubSeq(s, first, last) = t
<1>1. Len(s) \in Nat /\ Len(t) \in Nat
  BY LenProperties
<1>2. \A n \in first .. last : s[n] \in S
  BY <1>1, ElementOfSeq
<1>3. /\ SubSeq(s, first, last) \in Seq(S)
      /\ Len(SubSeq(s, first, last)) = IF first <= last THEN last - first + 1 ELSE 0
      /\ \A n \in 1 .. last - first + 1 : SubSeq(s, first, last)[n] = s[first + n - 1]
  BY <1>2, SubSeqProperties
<1> DEFINE part == SubSeq(s, first, last)
<1> HIDE DEF part
<1>4. part \in Seq(S) /\ Len(part) = Len(t)
  BY <1>1, <1>3 DEF part
<1>5. ASSUME NEW n \in 1 .. Len(t) PROVE part[n] = t[n]
  <2>1. n \in 1 .. last - first + 1 /\ first + n - 1 \in first .. last /\ (first + n - 1) - first + 1 = n
    BY <1>1
  <2> QED
    BY <1>3, <2>1 DEF part
<1>6. part = t
  BY <1>4, <1>5, SeqEqual
<1> QED
  BY <1>6 DEF part

(* What is before and after the end of the first of two sequences          *)
LEMMA Parts ==
  ASSUME NEW S, NEW s \in Seq(S), NEW t \in Seq(S)
  PROVE  /\ SubSeq(s \o t, 1, Len(s)) = s
         /\ SubSeq(s \o t, Len(s) + 1, Len(s) + Len(t)) = t
<1> DEFINE u == s \o t
           L == Len(s)
           N == Len(t)
<1>1. L \in Nat /\ N \in Nat
  BY LenProperties
<1>2. /\ u \in Seq(S) /\ Len(u) = L + N
      /\ \A n \in 1 .. L + N : u[n] = IF n <= L THEN s[n] ELSE t[n - L]
  BY ConcatProperties
<1> HIDE DEF u, L, N
<1>3. SubSeq(u, 1, L) = s
  <2>1. L =< Len(u) /\ L = L - 1 + 1 /\ 1 \in Int /\ L \in Int /\ 1 >= 1
    BY <1>1, <1>2
  <2>2. \A n \in 1 .. L : u[n] = s[n - 1 + 1]
    <3> SUFFICES ASSUME NEW n \in 1 .. L PROVE u[n] = s[n - 1 + 1]
      OBVIOUS
    <3>1. n - 1 + 1 = n /\ n \in 1 .. L + N /\ n <= L
      BY <1>1
    <3> QED
      BY <1>2, <3>1
  <2> QED
    BY <1>2, <2>1, <2>2, Part DEF L
<1>4. SubSeq(u, L + 1, L + N) = t
  <2> DEFINE first == L + 1
             last == L + N
  <2>1. last =< Len(u) /\ N = last - first + 1 /\ first \in Int /\ last \in Int /\ first >= 1
    BY <1>1, <1>2
  <2>2. \A n \in first .. last : u[n] = t[n - first + 1]
    <3> SUFFICES ASSUME NEW n \in first .. last PROVE u[n] = t[n - first + 1]
      OBVIOUS
    <3>1. n - first + 1 = n - L /\ n \in 1 .. L + N /\ ~(n <= L)
      BY <1>1
    <3> HIDE DEF first
    <3> QED
      BY <1>2, <3>1
  <2> HIDE DEF first, last
  <2>3. SubSeq(u, first, last) = t
    BY <1>2, <2>1, <2>2, Part DEF N
  <2> QED
    BY <2>3 DEF first, last
<1> QED
  BY <1>3, <1>4 DEF u, L, N

-----------------------------------------------------------------------------
(* Digits *)

(* A byte has at least four values.                                        *)
LEMMA DigitType ==
  Digit \in Nat /\ Digit >= 2 /\ ByteRange = 2 * Digit /\ ByteRange \in Nat
BY CodecAssumption DEF CodecAssumption, Digit

(* A digit counts as much as Digit of the one before it.                   *)
LEMMA Weights ==
  /\ Weight(0) = 1
  /\ \A k \in 0 .. 4 : Weight(k) \in Nat \ {0}
  /\ \A k \in 0 .. 3 : Weight(k + 1) = Weight(k) * Digit
  /\ \A j, k \in 0 .. 4 : j =< k => Weight(j) =< Weight(k)
<1>1. /\ Weight(0) = 1 /\ Weight(1) = Digit /\ Weight(2) = Digit * Digit
      /\ Weight(3) = Digit * Digit * Digit /\ Weight(4) = Digit * Digit * Digit * Digit
  BY DEF Weight
<1>2. Digit \in Nat /\ Digit >= 2
  BY DigitType
<1>3. /\ Weight(1) = Weight(0) * Digit /\ Weight(2) = Weight(1) * Digit
      /\ Weight(3) = Weight(2) * Digit /\ Weight(4) = Weight(3) * Digit
  BY <1>1, <1>2
<1>4. ASSUME NEW x \in Nat \ {0} PROVE x * Digit \in Nat \ {0} /\ x =< x * Digit
  <2>1. x * 2 =< x * Digit
    BY <1>2
  <2> QED
    BY <1>2, <2>1
<1>5. Weight(1) \in Nat \ {0} /\ Weight(0) =< Weight(1)
  BY <1>1, <1>2
<1>6. Weight(2) \in Nat \ {0} /\ Weight(1) =< Weight(2)
  BY <1>3, <1>4, <1>5
<1>7. Weight(3) \in Nat \ {0} /\ Weight(2) =< Weight(3)
  BY <1>3, <1>4, <1>6
<1>8. Weight(4) \in Nat \ {0} /\ Weight(3) =< Weight(4)
  BY <1>3, <1>4, <1>7
<1>9. 0 .. 4 = {0, 1, 2, 3, 4} /\ 0 .. 3 = {0, 1, 2, 3}
  OBVIOUS
<1>10. \A k \in 0 .. 4 : Weight(k) \in Nat \ {0}
  BY <1>1, <1>5, <1>6, <1>7, <1>8, <1>9
<1>11. \A k \in 0 .. 3 : Weight(k + 1) = Weight(k) * Digit
  <2> SUFFICES ASSUME NEW k \in 0 .. 3 PROVE Weight(k + 1) = Weight(k) * Digit
    OBVIOUS
  <2>1. 0 + 1 = 1 /\ 1 + 1 = 2 /\ 2 + 1 = 3 /\ 3 + 1 = 4
    OBVIOUS
  <2>2. k = 0 \/ k = 1 \/ k = 2 \/ k = 3
    OBVIOUS
  <2> QED
    BY <1>3, <2>1, <2>2, Zenon
<1>12. ASSUME NEW j \in 0 .. 4, NEW k \in 0 .. 4, j =< k PROVE Weight(j) =< Weight(k)
  <2>1. /\ Weight(0) =< Weight(1) /\ Weight(0) =< Weight(2) /\ Weight(0) =< Weight(3)
        /\ Weight(0) =< Weight(4) /\ Weight(1) =< Weight(2) /\ Weight(1) =< Weight(3)
        /\ Weight(1) =< Weight(4) /\ Weight(2) =< Weight(3) /\ Weight(2) =< Weight(4)
        /\ Weight(3) =< Weight(4)
    BY <1>1, <1>5, <1>6, <1>7, <1>8
  <2>2. CASE j = k
    BY <1>10, <2>2
  <2>3. CASE j < k
    <3>1. CASE j = 0
      <4>1. k = 1 \/ k = 2 \/ k = 3 \/ k = 4
        BY <2>3, <3>1
      <4> QED
        BY <2>1, <3>1, <4>1
    <3>2. CASE j = 1
      <4>1. k = 2 \/ k = 3 \/ k = 4
        BY <2>3, <3>2
      <4> QED
        BY <2>1, <3>2, <4>1
    <3>3. CASE j = 2
      <4>1. k = 3 \/ k = 4
        BY <2>3, <3>3
      <4> QED
        BY <2>1, <3>3, <4>1
    <3>4. CASE j = 3
      <4>1. k = 4
        BY <2>3, <3>4
      <4> QED
        BY <2>1, <3>4, <4>1
    <3>5. j = 0 \/ j = 1 \/ j = 2 \/ j = 3
      BY <2>3
    <3> QED
      BY <3>1, <3>2, <3>3, <3>4, <3>5
  <2> QED
    BY <1>12, <2>2, <2>3
<1> QED
  BY <1>1, <1>10, <1>11, <1>12

-----------------------------------------------------------------------------
(* Induction: a set of numbers has a least element *)

Less == {p \in Nat \X Nat : p[1] < p[2]}

(* A set of numbers that has each number up to N whose predecessors it has *)
(* has all numbers up to N.                                                *)
LEMMA StrongInduction ==
  ASSUME NEW N \in Nat, NEW P,
         \A n \in 0 .. N : (\A m \in 0 .. n - 1 : m \in P) => n \in P
  PROVE  \A n \in 0 .. N : n \in P
<1> DEFINE T == (0 .. N) \ P
<1>1. IsWellFoundedOn(Less, Nat)
  BY NatLessThanWellFounded, Zenon DEF OpToRel, Less
<1>2. T \subseteq Nat
  OBVIOUS
<1>3. SUFFICES ASSUME T # {} PROVE FALSE
  OBVIOUS
<1>4. PICK x \in T : \A y \in T : ~ (<<y, x>> \in Less)
  <2> HIDE DEF T
  <2> QED
    BY <1>1, <1>2, <1>3, WFMin, Zenon
<1>5. PICK m \in 0 .. x - 1 : m \notin P
  BY <1>4
<1>6. m \in T /\ m \in Nat /\ x \in Nat /\ m < x
  BY <1>4, <1>5
<1>7. <<m, x>> \in Less
  BY <1>6 DEF Less
<1> QED
  BY <1>4, <1>6, <1>7

(* A set of numbers that has 0 and the successors of its elements, up to N, *)
(* has all numbers up to N.                                                *)
LEMMA Induction ==
  ASSUME NEW N \in Nat, NEW P, 0 \in P,
         \A n \in 1 .. N : n - 1 \in P => n \in P
  PROVE  \A n \in 0 .. N : n \in P
<1>1. ASSUME NEW n \in 0 .. N, \A m \in 0 .. n - 1 : m \in P PROVE n \in P
  <2>1. CASE n = 0
    BY <2>1
  <2>2. CASE n # 0
    <3>1. n \in 1 .. N /\ n - 1 \in 0 .. n - 1
      BY <2>2
    <3> QED
      BY <1>1, <3>1
  <2> QED
    BY <2>1, <2>2
<1> QED
  BY <1>1, StrongInduction

-----------------------------------------------------------------------------
(* The remaining length *)

(* A number has k digits and not fewer.                                    *)
Shortest(length, k) ==
  k \in 1 .. 4 /\ length < Weight(k) /\ \A j \in 1 .. k - 1 : length >= Weight(j)

(* The first k digits of a number, all but the last marked                 *)
Digits(length, k) ==
  [j \in 1 .. k |-> ((length \div Weight(j - 1)) % Digit) + (IF j < k THEN Digit ELSE 0)]

(* A number below the limit has a number of digits, and only one.          *)
LEMMA ShortestExists ==
  ASSUME NEW length \in 0 .. Weight(4) - 1
  PROVE  /\ \E k \in 1 .. 4 : Shortest(length, k)
         /\ \A k, n : Shortest(length, k) /\ Shortest(length, n) => k = n
<1> DEFINE L(k) == length < Weight(k)
<1>1. \A k \in 0 .. 4 : Weight(k) \in Nat
  BY Weights
<1>2. length \in Nat /\ L(4)
  BY <1>1
<1>3. \A k \in 1 .. 4 : ~L(k) <=> length >= Weight(k)
  BY <1>1, <1>2
<1>4. \A k : Shortest(length, k) <=> k \in 1 .. 4 /\ L(k) /\ \A j \in 1 .. k - 1 : ~L(j)
  BY <1>3 DEF Shortest
<1> HIDE DEF L
<1>5. \E k \in 1 .. 4 : Shortest(length, k)
  <2>1. CASE L(1)
    BY <1>4, <2>1
  <2>2. CASE ~L(1) /\ L(2)
    <3>1. \A j \in 1 .. 2 - 1 : j = 1
      OBVIOUS
    <3> QED
      BY <1>4, <2>2, <3>1
  <2>3. CASE ~L(1) /\ ~L(2) /\ L(3)
    <3>1. \A j \in 1 .. 3 - 1 : j = 1 \/ j = 2
      OBVIOUS
    <3> QED
      BY <1>4, <2>3, <3>1
  <2>4. CASE ~L(1) /\ ~L(2) /\ ~L(3)
    <3>1. \A j \in 1 .. 4 - 1 : j = 1 \/ j = 2 \/ j = 3
      OBVIOUS
    <3> QED
      BY <1>2, <1>4, <2>4, <3>1
  <2> QED
    BY <2>1, <2>2, <2>3, <2>4
<1>6. ASSUME NEW k, NEW n, Shortest(length, k), Shortest(length, n) PROVE k = n
  <2>1. k \in 1 .. 4 /\ n \in 1 .. 4 /\ L(k) /\ L(n)
    BY <1>4, <1>6
  <2>2. ~(k < n)
    <3>1. k < n => k \in 1 .. n - 1
      BY <2>1
    <3> QED
      BY <1>4, <1>6, <2>1, <3>1
  <2>3. ~(n < k)
    <3>1. n < k => n \in 1 .. k - 1
      BY <2>1
    <3> QED
      BY <1>4, <1>6, <2>1, <3>1
  <2> QED
    BY <2>1, <2>2, <2>3
<1> QED
  BY <1>5, <1>6

(* Digits are bytes.                                                       *)
LEMMA DigitsType ==
  ASSUME NEW x \in Nat, NEW n \in 1 .. 4
  PROVE  /\ Digits(x, n) \in Seq(Nat) /\ Len(Digits(x, n)) = n
         /\ \A j \in 1 .. n :
              /\ (x \div Weight(j - 1)) % Digit \in 0 .. Digit - 1
              /\ Digits(x, n)[j] = ((x \div Weight(j - 1)) % Digit) + (IF j < n THEN Digit ELSE 0)
<1> DEFINE y(j) == (x \div Weight(j - 1)) % Digit
           z(j) == y(j) + (IF j < n THEN Digit ELSE 0)
<1>1. ASSUME NEW j \in 1 .. n PROVE y(j) \in 0 .. Digit - 1
  <2> DEFINE w == Weight(j - 1)
             v == x \div w
  <2>1. j - 1 \in 0 .. 4
    OBVIOUS
  <2>2. w \in Nat \ {0}
    BY <2>1, Weights
  <2>3. v \in Nat
    <3> HIDE DEF w
    <3> QED
      BY <2>2, Euclid
  <2> HIDE DEF v
  <2>4. v % Digit \in 0 .. Digit - 1
    BY <2>3, DigitType, Euclid
  <2> QED
    BY <2>4 DEF v
<1>2. Digits(x, n) = [j \in 1 .. n |-> z(j)]
  BY DEF Digits
<1> HIDE DEF y
<1>3. \A j \in 1 .. n : z(j) \in Nat
  BY <1>1, DigitType
<1>4. \A j \in 1 .. n : Digits(x, n)[j] = z(j)
  BY <1>2
<1> HIDE DEF z
<1>5. [j \in 1 .. n |-> z(j)] \in Seq(Nat) /\ Len([j \in 1 .. n |-> z(j)]) = n
  BY <1>3
<1>6. Digits(x, n) \in Seq(Nat) /\ Len(Digits(x, n)) = n
  BY <1>2, <1>5
<1> QED
  BY <1>1, <1>4, <1>6 DEF y, z

(* The digits of a number are its lowest one and those of its quotient.    *)
LEMMA DigitsStep ==
  ASSUME NEW length \in 0 .. Weight(4) - 1, NEW k, Shortest(length, k)
  PROVE  /\ length < Digit => k = 1 /\ Digits(length, k) = <<length>>
         /\ length >= Digit =>
              /\ length \div Digit \in 0 .. length - 1
              /\ Shortest(length \div Digit, k - 1)
              /\ Digits(length, k) = <<(length % Digit) + Digit>> \o Digits(length \div Digit, k - 1)
<1> DEFINE q == length \div Digit
<1>1. Digit \in Nat \ {0} /\ Digit >= 2 /\ length \in Nat /\ Weight(1) = Digit
  <2>1. Weight(0 + 1) = Weight(0) * Digit /\ Weight(0) = 1 /\ 0 + 1 = 1
    BY Weights
  <2> QED
    BY <2>1, DigitType, Weights
<1>2. q \in Nat /\ length % Digit \in 0 .. Digit - 1 /\ length = q * Digit + (length % Digit)
  BY <1>1, Euclid
<1>3. k \in 1 .. 4 /\ length < Weight(k) /\ \A j \in 1 .. k - 1 : length >= Weight(j)
  BY DEF Shortest
<1>4. length \div Weight(0) = length
  BY <1>1, Weights
<1>5. ASSUME length < Digit PROVE k = 1 /\ Digits(length, k) = <<length>>
  <2>1. k = 1
    <3>1. ~(1 \in 1 .. k - 1)
      BY <1>1, <1>3, <1>5
    <3> QED
      BY <1>3, <3>1
  <2>2. length % Digit = length
    BY <1>1, <1>5, OneDigit
  <2>3. ((length \div Weight(1 - 1)) % Digit) + (IF 1 < 1 THEN Digit ELSE 0) = length
    BY <1>1, <1>4, <2>2
  <2>4. Digits(length, 1) = [j \in 1 .. 1 |-> length]
    <3> SUFFICES ASSUME NEW j \in 1 .. 1
                 PROVE  ((length \div Weight(j - 1)) % Digit) + (IF j < 1 THEN Digit ELSE 0) = length
      BY DEF Digits
    <3>1. j = 1
      OBVIOUS
    <3> QED
      BY <2>3, <3>1
  <2> QED
    BY <2>1, <2>4
<1>6. ASSUME length >= Digit
      PROVE  /\ q \in 0 .. length - 1
             /\ Shortest(q, k - 1)
             /\ Digits(length, k) = <<(length % Digit) + Digit>> \o Digits(q, k - 1)
  <2>1. q * Digit >= q * 2
    BY <1>1, <1>2
  <2>2. q \in 0 .. length - 1
    <3>1. q # 0
      BY <1>1, <1>2, <1>6
    <3> HIDE DEF q
    <3> QED
      BY <1>1, <1>2, <2>1, <3>1
  <2>3. k \in 2 .. 4
    <3>1. k # 1
      BY <1>1, <1>3, <1>6
    <3> QED
      BY <1>3, <3>1
  <2>4. ASSUME NEW j \in 1 .. 4 PROVE length < Weight(j) <=> q < Weight(j - 1)
    <3>1. j - 1 \in 0 .. 3 /\ (j - 1) + 1 = j
      OBVIOUS
    <3>2. Weight(j) = Weight(j - 1) * Digit /\ Weight(j - 1) \in Nat
      BY <3>1, Weights
    <3> DEFINE w == Weight(j - 1)
    <3> HIDE DEF w, q
    <3>3. w \in Nat /\ Weight(j) = w * Digit
      BY <3>2 DEF w
    <3>4. ASSUME q < w PROVE length < w * Digit
      <4>1. (q + 1) * Digit =< w * Digit
        BY <1>1, <1>2, <3>3, <3>4
      <4>2. (q + 1) * Digit = q * Digit + Digit
        BY <1>1, <1>2
      <4>3. w * Digit \in Nat /\ q * Digit \in Nat
        BY <1>1, <1>2, <3>3
      <4> QED
        BY <1>1, <1>2, <4>1, <4>2, <4>3
    <3>5. ASSUME ~(q < w) PROVE ~(length < w * Digit)
      <4>1. w * Digit =< q * Digit
        BY <1>1, <1>2, <3>3, <3>5
      <4>2. w * Digit \in Nat /\ q * Digit \in Nat
        BY <1>1, <1>2, <3>3
      <4> QED
        BY <1>1, <1>2, <4>1, <4>2
    <3> QED
      BY <3>3, <3>4, <3>5 DEF w
  <2>5. Shortest(q, k - 1)
    <3>1. q < Weight(k - 1)
      BY <1>3, <2>4
    <3>2. ASSUME NEW j \in 1 .. k - 1 - 1 PROVE q >= Weight(j)
      <4>1. j + 1 \in 1 .. k - 1 /\ j + 1 \in 1 .. 4 /\ (j + 1) - 1 = j /\ j \in 0 .. 4
        BY <2>3
      <4>2. length >= Weight(j + 1) /\ Weight(j + 1) \in Nat
        BY <1>3, <4>1, Weights
      <4>3. ~(q < Weight(j))
        BY <1>1, <2>4, <4>1, <4>2
      <4> HIDE DEF q
      <4> QED
        BY <1>2, <4>1, <4>3, Weights
    <3> HIDE DEF q
    <3> QED
      BY <2>3, <3>1, <3>2 DEF Shortest
  <2>6. Digits(length, k) = <<(length % Digit) + Digit>> \o Digits(q, k - 1)
    <3> DEFINE one == <<(length % Digit) + Digit>>
               d == Digits(length, k)
               e == Digits(q, k - 1)
    <3>2. d \in Seq(Nat) /\ Len(d) = k
      BY <1>1, <1>3, DigitsType
    <3>3. e \in Seq(Nat) /\ Len(e) = k - 1
      <4>1. k - 1 \in 1 .. 4
        BY <2>3
      <4> HIDE DEF q
      <4> QED
        BY <1>2, <4>1, DigitsType
    <3>4. one \in Seq(Nat) /\ Len(one) = 1 /\ one[1] = (length % Digit) + Digit
      BY <1>1, <1>2
    <3>5. one \o e \in Seq(Nat) /\ Len(one \o e) = k
      BY <2>3, <3>3, <3>4, ConcatProperties
    <3>6. \A j \in 1 .. k : (one \o e)[j] = IF j = 1 THEN (length % Digit) + Digit ELSE e[j - 1]
      <4>1. \A j \in 1 .. Len(one) + Len(e) :
              (one \o e)[j] = IF j <= Len(one) THEN one[j] ELSE e[j - Len(one)]
        BY <3>3, <3>4, ConcatProperties
      <4>2. Len(one) + Len(e) = k /\ \A j \in 1 .. k : j <= Len(one) <=> j = 1
        BY <2>3, <3>3, <3>4
      <4> HIDE DEF one, e
      <4> QED
        BY <3>4, <4>1, <4>2
    <3>7. ASSUME NEW j \in 1 .. k PROVE d[j] = (one \o e)[j]
      <4>1. d[j] = ((length \div Weight(j - 1)) % Digit) + (IF j < k THEN Digit ELSE 0)
        BY <1>1, <1>3, DigitsType
      <4>2. CASE j = 1
        BY <1>4, <2>3, <3>6, <4>1, <4>2
      <4>3. CASE j # 1
        <5>1. j - 1 \in 1 .. k - 1 /\ j - 2 \in 0 .. 3 /\ (j - 1) - 1 = j - 2 /\ (j - 2) + 1 = j - 1
          BY <2>3, <4>3
        <5>2. e[j - 1] = ((q \div Weight(j - 2)) % Digit) + (IF j - 1 < k - 1 THEN Digit ELSE 0)
          <6>1. k - 1 \in 1 .. 4
            BY <2>3
          <6> HIDE DEF q
          <6> QED
            BY <1>2, <5>1, <6>1, DigitsType
        <5>3. Weight(j - 1) = Weight(j - 2) * Digit /\ Weight(j - 2) \in Nat \ {0}
          BY <5>1, Weights
        <5>4. Weight(j - 1) = Digit * Weight(j - 2)
          BY <1>1, <5>3
        <5>5. length \div (Digit * Weight(j - 2)) = q \div Weight(j - 2)
          BY <1>1, <5>3, NextDigit
        <5>6. j < k <=> j - 1 < k - 1
          BY <1>3
        <5>7. (one \o e)[j] = e[j - 1]
          BY <3>6, <4>3
        <5> HIDE DEF one, e, d, q
        <5> QED
          BY <4>1, <5>2, <5>4, <5>5, <5>6, <5>7
      <4> QED
        BY <4>2, <4>3
    <3> HIDE DEF one, e, d
    <3>8. d = one \o e
      BY <3>2, <3>5, <3>7, SeqEqual
    <3> QED
      BY <3>8 DEF one, e, d
  <2> QED
    BY <2>2, <2>5, <2>6
<1> QED
  BY <1>5, <1>6

(* The do loop writes all digits: there is a function that follows its     *)
(* recursion, and no other.                                                *)
LEMMA LengthBytesMeans ==
  ASSUME NEW length \in 0 .. Weight(4) - 1, NEW k, Shortest(length, k)
  PROVE  LengthBytes(length) = Digits(length, k)
<1> DEFINE Step(n, rest) == <<(n % Digit) + Digit>> \o rest
           Body(f) == [n \in 0 .. length |-> IF n < Digit THEN <<n>> ELSE Step(n, f[n \div Digit])]
           K == CHOOSE f : f = Body(f)
           Size(n) == CHOOSE d \in 1 .. 4 : Shortest(n, d)
           g == [n \in 0 .. length |-> Digits(n, Size(n))]
<1>1. LengthBytes(length) = K[length]
  BY DEF LengthBytes
<1>2. length \in Nat /\ Digit \in Nat
  BY DigitType, Weights
<1>3. ASSUME NEW n \in 0 .. length PROVE n \in 0 .. Weight(4) - 1 /\ Shortest(n, Size(n))
  <2>1. n \in 0 .. Weight(4) - 1
    BY Weights
  <2>2. \E d \in 1 .. 4 : Shortest(n, d)
    BY <2>1, ShortestExists
  <2> QED
    BY <2>1, <2>2, Zenon
<1>4. ASSUME NEW n \in 0 .. length
      PROVE  /\ n < Digit => g[n] = <<n>>
             /\ n >= Digit => n \div Digit \in 0 .. n - 1 /\ g[n] = Step(n, g[n \div Digit])
  <2> DEFINE q == n \div Digit
             d == Size(n)
             e == Size(q)
  <2>1. n \in 0 .. Weight(4) - 1 /\ Shortest(n, d)
    BY <1>3
  <2>2. g[n] = Digits(n, d)
    OBVIOUS
  <2> HIDE DEF d
  <2>3. CASE n < Digit
    BY <1>2, <2>1, <2>2, <2>3, DigitsStep
  <2>4. CASE n >= Digit
    <3>1. q \in 0 .. n - 1 /\ Shortest(q, d - 1) /\ Digits(n, d) = Step(n, Digits(q, d - 1))
      BY <2>1, <2>4, DigitsStep
    <3> HIDE DEF q
    <3>2. q \in 0 .. length
      BY <1>2, <3>1
    <3>3. q \in 0 .. Weight(4) - 1 /\ Shortest(q, e) /\ g[q] = Digits(q, e)
      BY <1>3, <3>2
    <3> HIDE DEF e, g
    <3>4. e = d - 1
      BY <3>1, <3>3, ShortestExists
    <3> QED
      BY <1>2, <2>2, <2>4, <3>1, <3>3, <3>4 DEF q
  <2> QED
    BY <1>2, <2>3, <2>4
<1>5. g = Body(g)
  <2>1. g = [n \in 0 .. length |-> g[n]]
    OBVIOUS
  <2> HIDE DEF g, Step
  <2>2. \A n \in 0 .. length : g[n] = IF n < Digit THEN <<n>> ELSE Step(n, g[n \div Digit])
    BY <1>2, <1>4
  <2> QED
    BY <2>1, <2>2, Zenon
<1>6. K = Body(K)
  <2> HIDE DEF Body, g
  <2> QED
    BY <1>5, Zenon
<1>7. \A n \in 0 .. length : K[n] = IF n < Digit THEN <<n>> ELSE Step(n, K[n \div Digit])
  <2>1. \A n \in 0 .. length : K[n] = Body(K)[n]
    BY <1>6, Zenon
  <2> HIDE DEF K, Step
  <2> QED
    BY <2>1
<1> DEFINE P == {n \in 0 .. length : K[n] = g[n]}
<1>8. ASSUME NEW n \in 0 .. length, \A m \in 0 .. n - 1 : m \in P PROVE n \in P
  <2>1. CASE n < Digit
    <3>1. K[n] = <<n>> /\ g[n] = <<n>>
      BY <1>4, <1>7, <2>1
    <3> QED
      BY <3>1
  <2>2. CASE n >= Digit
    <3> HIDE DEF Step
    <3>1. n \div Digit \in 0 .. n - 1 /\ g[n] = Step(n, g[n \div Digit])
      BY <1>4, <2>2
    <3>2. K[n] = Step(n, K[n \div Digit])
      <4> HIDE DEF K
      <4>1. ~(n < Digit)
        BY <1>2, <2>2
      <4> QED
        BY <1>7, <4>1
    <3>3. K[n \div Digit] = g[n \div Digit]
      BY <1>8, <3>1
    <3>4. K[n] = g[n]
      BY <3>1, <3>2, <3>3
    <3> QED
      BY <3>4
  <2> QED
    BY <1>2, <2>1, <2>2
<1>9. \A n \in 0 .. length : n \in P
  <2> HIDE DEF P
  <2> QED
    BY <1>2, <1>8, StrongInduction
<1>10. length \in 0 .. length /\ g[length] = Digits(length, Size(length))
  BY <1>2
<1>11. Size(length) = k
  <2>1. Shortest(length, Size(length))
    BY <1>3, <1>10
  <2> DEFINE d == Size(length)
  <2> HIDE DEF d
  <2>2. d = k
    BY <2>1, ShortestExists DEF d
  <2> QED
    BY <2>2 DEF d
<1> QED
  BY <1>1, <1>9, <1>10, <1>11

(* The header begins where its digits and the type have place before the   *)
(* fields.                                                                 *)
LEMMA HeaderOffsetMeans ==
  ASSUME NEW length \in 0 .. Weight(4) - 1, NEW k, Shortest(length, k)
  PROVE  HeaderOffset(length) = 4 - k
<1>1. Weight(1) = Digit /\ Weight(2) = Digit * Digit /\ Weight(3) = Digit * Digit * Digit
  BY DEF Weight
<1>2. length \in Nat /\ Weight(1) \in Nat /\ Weight(2) \in Nat /\ Weight(3) \in Nat
  BY Weights
<1>3. k \in 1 .. 4 /\ length < Weight(k) /\ \A j \in 1 .. k - 1 : length >= Weight(j)
  BY DEF Shortest
<1>4. HeaderOffset(length) = IF length =< Weight(1) - 1 THEN 3
                             ELSE IF length =< Weight(2) - 1 THEN 2
                             ELSE IF length =< Weight(3) - 1 THEN 1
                             ELSE 0
  BY <1>1 DEF HeaderOffset
<1> DEFINE A == length =< Weight(1) - 1
           B == length =< Weight(2) - 1
           C == length =< Weight(3) - 1
<1>5. /\ A <=> length < Weight(1)
      /\ B <=> length < Weight(2)
      /\ C <=> length < Weight(3)
  BY <1>2
<1>6. (A => B) /\ (B => C)
  <2>1. Weight(1) =< Weight(2) /\ Weight(2) =< Weight(3)
    BY Weights
  <2> QED
    BY <1>2, <2>1
<1>7. \A j \in 1 .. 3 : length >= Weight(j) => ~(length < Weight(j))
  BY <1>2, Weights
<1>8. CASE k = 1
  <2>1. A
    BY <1>3, <1>5, <1>8
  <2> QED
    BY <1>4, <1>6, <1>8, <2>1
<1>9. CASE k = 2
  <2>1. 1 \in 1 .. k - 1
    BY <1>9
  <2>2. ~A /\ B
    BY <1>3, <1>5, <1>7, <1>9, <2>1
  <2> QED
    BY <1>4, <1>6, <1>9, <2>2
<1>10. CASE k = 3
  <2>1. 2 \in 1 .. k - 1
    BY <1>10
  <2>2. ~B /\ C
    BY <1>3, <1>5, <1>7, <1>10, <2>1
  <2> QED
    BY <1>4, <1>6, <1>10, <2>2
<1>11. CASE k = 4
  <2>1. 3 \in 1 .. k - 1
    BY <1>11
  <2>2. ~C
    BY <1>3, <1>5, <1>7, <1>11, <2>1
  <2> QED
    BY <1>4, <1>6, <1>11, <2>2
<1> QED
  BY <1>3, <1>8, <1>9, <1>10, <1>11

(* The form of the standard, with the number of digits named               *)
LEMMA StandardBytesMeans ==
  ASSUME NEW type, NEW flags, NEW data, Len(data) \in 0 .. Weight(4) - 1,
         NEW k, Shortest(Len(data), k)
  PROVE  StandardBytes(type, flags, data) =
           <<HeaderByte(type, flags)>> \o Digits(Len(data), k) \o data
<1> DEFINE P(j) == Len(data) < Weight(j) /\ \A n \in 1 .. j - 1 : Len(data) >= Weight(n)
           digits == CHOOSE j \in 1 .. 4 : P(j)
<1>1. k \in 1 .. 4 /\ P(k)
  BY DEF Shortest
<1>2. digits \in 1 .. 4 /\ P(digits)
  <2> HIDE DEF P
  <2> QED
    BY <1>1, Zenon
<1>3. Shortest(Len(data), digits)
  <2> HIDE DEF digits
  <2> QED
    BY <1>2 DEF Shortest
<1>4. digits = k
  <2> HIDE DEF digits
  <2> QED
    BY <1>3, ShortestExists
<1>5. StandardBytes(type, flags, data) =
        <<HeaderByte(type, flags)>> \o Digits(Len(data), digits) \o data
  BY DEF StandardBytes, Digits
<1> HIDE DEF digits
<1> QED
  BY <1>4, <1>5

(* What is sent of the buffer is the header and all fields, in the form of *)
(* the standard, whatever the size of the header.                          *)
THEOREM BytesAreStandard ==
  ASSUME NEW T, NEW type, NEW flags, NEW data \in Seq(T), Len(data) < Weight(4)
  PROVE  Bytes(type, flags, data) = StandardBytes(type, flags, data)
<1> DEFINE L == Len(data)
           h == HeaderByte(type, flags)
           S == T \cup Nat \cup {h}
<1>1. L \in Nat /\ L \in 0 .. Weight(4) - 1
  BY LenProperties, Weights
<1>2. PICK k \in 1 .. 4 : Shortest(L, k)
  <2> HIDE DEF L
  <2> QED
    BY <1>1, ShortestExists
<1> DEFINE digits == Digits(L, k)
           header == <<h>> \o digits
           zeros == <<0, 0, 0, 0, 0>>
           buffer == zeros \o data
           offset == 4 - k
           filled == [n \in DOMAIN buffer |->
                        IF n - offset \in DOMAIN header THEN header[n - offset] ELSE buffer[n]]
           sent == SubSeq(filled, offset + 1, Len(filled))
<1>3. Bytes(type, flags, data) = sent
  <2>1. HeaderOffset(L) = offset /\ LengthBytes(L) = digits
    <3> HIDE DEF L
    <3> QED
      BY <1>1, <1>2, HeaderOffsetMeans, LengthBytesMeans
  <2> QED
    BY <2>1 DEF Bytes
<1>4. StandardBytes(type, flags, data) = header \o data
  BY <1>1, <1>2, StandardBytesMeans
<1>5. digits \in Seq(Nat) /\ Len(digits) = k
  <2> HIDE DEF L
  <2> QED
    BY <1>1, DigitsType
<1>6. data \in Seq(S) /\ digits \in Seq(S) /\ <<h>> \in Seq(S) /\ zeros \in Seq(S)
  <2>1. data \in Seq(S)
    BY SeqMonotonic
  <2>2. digits \in Seq(S)
    <3> HIDE DEF digits
    <3> QED
      BY <1>5, SeqMonotonic
  <2>3. h \in S /\ 0 \in S
    OBVIOUS
  <2> HIDE DEF S, h
  <2>4. <<h>> \in Seq(S)
    BY <2>3
  <2>5. zeros \in Seq(S)
    BY <2>3
  <2> QED
    BY <2>1, <2>2, <2>4, <2>5
<1>7. Len(zeros) = 5 /\ Len(<<h>>) = 1
  OBVIOUS
<1> HIDE DEF S, h, digits, zeros
<1>8. header \in Seq(S) /\ Len(header) = k + 1
  <2>1. header \in Seq(S) /\ Len(header) = Len(<<h>>) + Len(digits)
    BY <1>6, ConcatProperties
  <2> QED
    BY <1>5, <1>7, <2>1
<1>9. /\ buffer \in Seq(S) /\ Len(buffer) = 5 + L
      /\ \A n \in 6 .. 5 + L : buffer[n] = data[n - 5]
  <2>1. /\ buffer \in Seq(S) /\ Len(buffer) = Len(zeros) + L
        /\ \A n \in 1 .. Len(zeros) + L : buffer[n] = IF n <= Len(zeros) THEN zeros[n] ELSE data[n - Len(zeros)]
    BY <1>6, ConcatProperties
  <2> HIDE DEF L, buffer
  <2> QED
    BY <1>1, <1>7, <2>1
<1> HIDE DEF header, buffer
<1>10. /\ header \o data \in Seq(S) /\ Len(header \o data) = k + 1 + L
       /\ \A n \in 1 .. k + 1 + L : (header \o data)[n] = IF n <= k + 1 THEN header[n] ELSE data[n - (k + 1)]
  <2>1. /\ header \o data \in Seq(S) /\ Len(header \o data) = Len(header) + L
        /\ \A n \in 1 .. Len(header) + L :
             (header \o data)[n] = IF n <= Len(header) THEN header[n] ELSE data[n - Len(header)]
    BY <1>6, <1>8, ConcatProperties
  <2> HIDE DEF L
  <2> QED
    BY <1>1, <1>8, <2>1
<1> HIDE DEF L
<1>11. DOMAIN buffer = 1 .. 5 + L /\ DOMAIN header = 1 .. k + 1
  BY <1>8, <1>9, LenProperties
<1>12. offset \in 0 .. 3 /\ k = 4 - offset
  OBVIOUS
<1> HIDE DEF offset
<1>13. \A n \in 1 .. 5 + L :
         filled[n] = IF n - offset \in 1 .. k + 1 THEN header[n - offset] ELSE buffer[n]
  BY <1>11
<1>14. /\ filled \in [1 .. 5 + L -> S] /\ filled \in Seq(S) /\ Len(filled) = 5 + L
  <2>1. \A n \in 1 .. k + 1 : header[n] \in S
    BY <1>8, ElementOfSeq
  <2>2. \A n \in 1 .. 5 + L : buffer[n] \in S
    BY <1>9, ElementOfSeq
  <2>3. filled = [n \in 1 .. 5 + L |-> filled[n]]
    BY <1>11
  <2> HIDE DEF filled
  <2>4. \A n \in 1 .. 5 + L : filled[n] \in S
    BY <1>13, <2>1, <2>2
  <2>5. filled \in [1 .. 5 + L -> S]
    BY <2>3, <2>4
  <2> QED
    BY <1>1, <2>5
<1> HIDE DEF filled
<1>15. /\ sent \in Seq(S) /\ Len(sent) = k + 1 + L
       /\ \A n \in 1 .. k + 1 + L : sent[n] = filled[n + offset]
  <2>1. \A n \in 1 .. Len(filled) : filled[n] \in S
    BY <1>14, ElementOfSeq
  <2> DEFINE first == offset + 1
             last == Len(filled)
  <2>2. /\ first \in Int /\ last \in Int /\ \A n \in first .. last : filled[n] \in S
        /\ last - first + 1 = k + 1 + L /\ first =< last
        /\ \A n \in 1 .. k + 1 + L : first + n - 1 = n + offset
    BY <1>1, <1>12, <1>14, <2>1
  <2> HIDE DEF first, last
  <2>3. /\ SubSeq(filled, first, last) \in Seq(S)
        /\ Len(SubSeq(filled, first, last)) = IF first <= last THEN last - first + 1 ELSE 0
        /\ \A n \in 1 .. last - first + 1 : SubSeq(filled, first, last)[n] = filled[first + n - 1]
    BY <2>2, SubSeqProperties
  <2>4. sent = SubSeq(filled, first, last)
    BY DEF first, last
  <2> HIDE DEF sent
  <2> QED
    BY <2>2, <2>3, <2>4
<1> HIDE DEF sent
<1>16. ASSUME NEW n \in 1 .. k + 1 + L PROVE sent[n] = (header \o data)[n]
  <2>1. n + offset \in 1 .. 5 + L /\ (n + offset) - offset = n
    BY <1>1, <1>12
  <2>2. sent[n] = IF n \in 1 .. k + 1 THEN header[n] ELSE buffer[n + offset]
    BY <1>13, <1>15, <2>1
  <2>3. CASE n <= k + 1
    BY <1>10, <2>2, <2>3
  <2>4. CASE ~(n <= k + 1)
    <3>1. n + offset \in 6 .. 5 + L /\ (n + offset) - 5 = n - (k + 1)
      BY <1>1, <1>12, <2>4
    <3>2. buffer[n + offset] = data[n - (k + 1)]
      BY <1>9, <3>1
    <3> QED
      BY <1>10, <2>2, <2>4, <3>2
  <2> QED
    BY <2>3, <2>4
<1>17. sent = header \o data
  BY <1>10, <1>15, <1>16, SeqEqual
<1> QED
  BY <1>3, <1>4, <1>17

=============================================================================
