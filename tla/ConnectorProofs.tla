---------------------------- MODULE ConnectorProofs ----------------------------
(***************************************************************************)
(* The connector is right for every result of getaddrinfo and every        *)
(* behaviour of the network and of the two threads: what is adopted is     *)
(* connected and the addresses are interwoven as resolve() says.  Until    *)
(* the write thread outlives a connection, every open descriptor has an    *)
(* owner, no freed address is used and no round with an address that       *)
(* accepts is given up.                                                    *)
(*                                                                         *)
(* The first half is about the functions that the model defines by         *)
(* recursion.  A set of numbers has a least element, and from that follow  *)
(* induction, the existence of a recursive function, and what OnlyIn and   *)
(* Interweave compute.  The second half is the invariant.                  *)
(***************************************************************************)
EXTENDS Connector, SequenceTheorems, FiniteSetTheorems, WellFoundedInduction, TLAPS

USE ConnectorAssumption DEF ConnectorAssumption

-----------------------------------------------------------------------------
(* Induction: a set of numbers has a least element *)

Less == {p \in Nat \X Nat : p[1] < p[2]}

(* The numbers are well-founded.                                           *)
LEMMA LessIsWellFounded == IsWellFoundedOn(Less, Nat)
BY NatLessThanWellFounded, Zenon DEF OpToRel, Less

(* A set of numbers that is not empty has a least element.                 *)
LEMMA Least ==
  ASSUME NEW T \in SUBSET Nat, T # {}
  PROVE  \E x \in T : \A y \in T : x =< y
<1>1. T \subseteq Nat
  OBVIOUS
<1>2. PICK x \in T : \A y \in T : ~ (<<y, x>> \in Less)
  BY <1>1, LessIsWellFounded, WFMin, Zenon
<1>3. ASSUME NEW y \in T PROVE x =< y
  <2>1. ~(<<y, x>> \in Less) /\ x \in Nat /\ y \in Nat
    BY <1>2
  <2> QED
    BY <2>1 DEF Less
<1> QED
  BY <1>3

(* A set of numbers that has 0 and the successors of its elements, up to N, *)
(* has all numbers up to N.                                                *)
LEMMA Induction ==
  ASSUME NEW N \in Nat, NEW P, 0 \in P,
         \A n \in 1 .. N : n - 1 \in P => n \in P
  PROVE  \A n \in 0 .. N : n \in P
<1> DEFINE T == (0 .. N) \ P
<1>1. T \in SUBSET Nat
  OBVIOUS
<1>2. SUFFICES ASSUME T # {} PROVE FALSE
  OBVIOUS
<1>3. PICK x \in T : \A y \in T : x =< y
  BY <1>1, <1>2, Least
<1>4. x \in 1 .. N
  BY <1>3
<1>5. x - 1 \in 0 .. N /\ x - 1 \notin T
  BY <1>3, <1>4
<1> QED
  BY <1>3, <1>4, <1>5

(* The function f on 0 .. N begins with b and goes on with the steps g. *)
Follows(f, N, S, b, g) ==
  f \in [0 .. N -> S] /\ f[0] = b /\ \A n \in 1 .. N : f[n] = g[n][f[n - 1]]

(* There is such a function.                                               *)
LEMMA Recursion ==
  ASSUME NEW S, NEW b \in S, NEW N \in Nat, NEW g \in [1 .. N -> [S -> S]]
  PROVE  \E f : Follows(f, N, S, b, g)
<1> DEFINE Good(f, m) == /\ f \in [0 .. m -> S] /\ f[0] = b
                         /\ \A n \in 1 .. m : f[n] = g[n][f[n - 1]]
           P == {m \in 0 .. N : \E f : Good(f, m)}
<1>1. 0 \in P
  <2> DEFINE f == [n \in 0 .. 0 |-> b]
  <2>1. f \in [0 .. 0 -> S] /\ f[0] = b /\ 1 .. 0 = {}
    OBVIOUS
  <2> HIDE DEF f
  <2>2. Good(f, 0)
    BY <2>1
  <2> QED
    BY <2>2
<1>2. ASSUME NEW m \in 1 .. N, m - 1 \in P PROVE m \in P
  <2>1. PICK f : Good(f, m - 1)
    BY <1>2
  <2> DEFINE h == [n \in 0 .. m |-> IF n = m THEN g[m][f[m - 1]] ELSE f[n]]
  <2>2. f[m - 1] \in S /\ g[m] \in [S -> S] /\ g[m][f[m - 1]] \in S
    BY <2>1
  <2>3. h \in [0 .. m -> S]
    BY <2>1, <2>2
  <2>4. h[0] = b
    BY <2>1
  <2>5. ASSUME NEW n \in 1 .. m PROVE h[n] = g[n][h[n - 1]]
    <3>1. CASE n = m
      <4>1. h[n] = g[m][f[m - 1]] /\ h[n - 1] = f[m - 1]
        BY <3>1
      <4> QED
        BY <3>1, <4>1
    <3>2. CASE n # m
      <4>1. n \in 1 .. m - 1 /\ h[n] = f[n] /\ h[n - 1] = f[n - 1]
        BY <3>2
      <4> QED
        BY <2>1, <4>1
    <3> QED
      BY <3>1, <3>2
  <2> HIDE DEF h
  <2>6. Good(h, m)
    BY <2>3, <2>4, <2>5
  <2> QED
    BY <2>6
<1>3. \A n \in 0 .. N : n \in P
  <2> HIDE DEF P
  <2> QED
    BY <1>1, <1>2, Induction
<1>4. PICK f : Good(f, N)
  BY <1>3
<1> QED
  BY <1>4 DEF Follows

-----------------------------------------------------------------------------
(* Choosing from a sequence *)

(* The sequences k that a recursive choice goes through *)
Keeps(k, T, s, S) ==
  /\ k \in [0 .. Len(s) -> Seq(T)]
  /\ OnlyIn(s, S) = k[Len(s)] /\ k[0] = <<>>
  /\ \A n \in 1 .. Len(s) : k[n] = IF s[n] \in S THEN Append(k[n - 1], s[n]) ELSE k[n - 1]

(* What the recursive definition of OnlyIn computes                        *)
LEMMA OnlyInRecursion ==
  ASSUME NEW T, NEW s \in Seq(T), NEW S
  PROVE  \E k : Keeps(k, T, s, S)
<1> DEFINE N == Len(s)
           Body(f) == [n \in 0 .. N |->
                         IF n = 0 THEN <<>>
                         ELSE IF s[n] \in S THEN Append(f[n - 1], s[n]) ELSE f[n - 1]]
           K == CHOOSE f : f = Body(f)
           g == [n \in 1 .. N |-> [q \in Seq(T) |-> IF s[n] \in S THEN Append(q, s[n]) ELSE q]]
<1>1. N \in Nat /\ \A n \in 1 .. N : s[n] \in T
  BY LenProperties, ElementOfSeq
<1>2. OnlyIn(s, S) = K[N]
  BY DEF OnlyIn
<1> HIDE DEF N, K, Body
<1>3. g \in [1 .. N -> [Seq(T) -> Seq(T)]]
  BY <1>1, AppendProperties
<1>4. PICK f : Follows(f, N, Seq(T), <<>>, g)
  <2> HIDE DEF g
  <2>1. <<>> \in Seq(T)
    BY EmptySeq
  <2> QED
    BY <1>1, <1>3, <2>1, Recursion
<1>5. ASSUME NEW n \in 1 .. N
      PROVE  f[n] = IF s[n] \in S THEN Append(f[n - 1], s[n]) ELSE f[n - 1]
  <2>1. n - 1 \in 0 .. N
    BY <1>1
  <2>2. f[n] = g[n][f[n - 1]] /\ f[n - 1] \in Seq(T)
    BY <1>4, <2>1, Zenon DEF Follows
  <2>3. g[n] = [q \in Seq(T) |-> IF s[n] \in S THEN Append(q, s[n]) ELSE q]
    BY Zenon
  <2> QED
    BY <2>2, <2>3, Zenon
<1> HIDE DEF g
<1>6. f = Body(f)
  <2>1. \A n \in 0 .. N : f[n] = IF n = 0 THEN <<>>
                                 ELSE IF s[n] \in S THEN Append(f[n - 1], s[n]) ELSE f[n - 1]
    <3> SUFFICES ASSUME NEW n \in 0 .. N
                 PROVE  f[n] = IF n = 0 THEN <<>>
                               ELSE IF s[n] \in S THEN Append(f[n - 1], s[n]) ELSE f[n - 1]
      OBVIOUS
    <3>1. n = 0 \/ n \in 1 .. N
      BY <1>1
    <3> QED
      BY <1>4, <1>5, <3>1 DEF Follows
  <2>2. f = [n \in 0 .. N |-> f[n]]
    BY <1>4 DEF Follows
  <2> QED
    BY <2>1, <2>2, Zenon DEF Body
<1>7. K = Body(K)
  BY <1>6, Zenon DEF K
<1>8. /\ K[0] = <<>>
      /\ \A n \in 1 .. N : K[n] = IF s[n] \in S THEN Append(K[n - 1], s[n]) ELSE K[n - 1]
  <2>1. \A n \in 0 .. N : K[n] = Body(K)[n]
    BY <1>7
  <2>2. 0 \in 0 .. N /\ \A n \in 1 .. N : n \in 0 .. N /\ n # 0
    BY <1>1
  <2> QED
    BY <2>1, <2>2 DEF Body
<1> DEFINE P == {n \in 0 .. N : K[n] = f[n]}
<1>9. 0 \in P
  BY <1>1, <1>4, <1>8 DEF Follows
<1>10. ASSUME NEW n \in 1 .. N, n - 1 \in P PROVE n \in P
  <2>1. K[n - 1] = f[n - 1] /\ n \in 0 .. N
    BY <1>1, <1>10
  <2>2. K[n] = f[n]
    BY <1>5, <1>8, <2>1, Zenon
  <2> QED
    BY <2>1, <2>2
<1>11. \A n \in 0 .. N : n \in P
  <2> HIDE DEF P
  <2> QED
    BY <1>1, <1>9, <1>10, Induction
<1>12. K[N] = f[N]
  BY <1>1, <1>11
<1>13. Keeps(f, T, s, S)
  BY <1>2, <1>4, <1>5, <1>12 DEF N, Follows, Keeps
<1> QED
  BY <1>13

(* The sequence r has the elements of s[1 .. n] that are in S: the ones at *)
(* the places h, in order.                                                 *)
Embeds(h, r, s, S, n) ==
  /\ h \in [1 .. Len(r) -> 1 .. n]
  /\ \A i, j \in 1 .. Len(r) : i < j => h[i] < h[j]
  /\ \A i \in 1 .. Len(r) : r[i] = s[h[i]] /\ r[i] \in S
  /\ \A m \in 1 .. n : s[m] \in S => \E i \in 1 .. Len(r) : h[i] = m

(* OnlyIn keeps the order and loses nothing.                               *)
LEMMA OnlyInEmbeds ==
  ASSUME NEW T, NEW s \in Seq(T), NEW S
  PROVE  /\ OnlyIn(s, S) \in Seq(T)
         /\ \E h : Embeds(h, OnlyIn(s, S), s, S, Len(s))
<1> PICK k : Keeps(k, T, s, S)
  BY OnlyInRecursion
<1>1. /\ k \in [0 .. Len(s) -> Seq(T)] /\ OnlyIn(s, S) = k[Len(s)] /\ k[0] = <<>>
      /\ \A n \in 1 .. Len(s) : k[n] = IF s[n] \in S THEN Append(k[n - 1], s[n]) ELSE k[n - 1]
  BY DEF Keeps
<1> DEFINE N == Len(s)
           P == {n \in 0 .. N : \E h : Embeds(h, k[n], s, S, n)}
<1>2. N \in Nat /\ \A n \in 1 .. N : s[n] \in T
  BY LenProperties, ElementOfSeq
<1>3. 0 \in P
  <2> DEFINE h == [i \in {} |-> i]
  <2>1. k[0] = <<>> /\ Len(k[0]) = 0 /\ 1 .. 0 = {}
    BY <1>1
  <2>2. Embeds(h, k[0], s, S, 0)
    BY <2>1 DEF Embeds
  <2> HIDE DEF h
  <2> QED
    BY <1>2, <2>2
<1>4. ASSUME NEW n \in 1 .. N, n - 1 \in P PROVE n \in P
  <2>1. PICK h : Embeds(h, k[n - 1], s, S, n - 1)
    BY <1>4
  <2>2. n - 1 \in 0 .. N /\ n \in Nat /\ k[n - 1] \in Seq(T)
    <3>1. n - 1 \in 0 .. N /\ n \in Nat
      <4> HIDE DEF N
      <4> QED
        BY <1>2
    <3> QED
      BY <1>1, <3>1
  <2>3. CASE s[n] \notin S
    <3>1. k[n] = k[n - 1]
      BY <1>1, <2>3
    <3> HIDE DEF N
    <3>2. Embeds(h, k[n], s, S, n)
      <4>1. h \in [1 .. Len(k[n]) -> 1 .. n]
        BY <2>1, <2>2, <3>1 DEF Embeds
      <4>2. ASSUME NEW m \in 1 .. n, s[m] \in S PROVE \E i \in 1 .. Len(k[n]) : h[i] = m
        <5>1. m \in 1 .. n - 1
          BY <2>2, <2>3, <4>2
        <5> QED
          BY <2>1, <3>1, <4>2, <5>1 DEF Embeds
      <4> QED
        BY <2>1, <3>1, <4>1, <4>2 DEF Embeds
    <3> QED
      BY <3>2
  <2>4. CASE s[n] \in S
    <3> DEFINE q == k[n - 1]
               r == k[n]
               L == Len(q)
               g == [i \in 1 .. L + 1 |-> IF i = L + 1 THEN n ELSE h[i]]
    <3>1. r = Append(q, s[n]) /\ q \in Seq(T) /\ s[n] \in T
      BY <1>1, <1>2, <2>2, <2>4
    <3>2. L \in Nat /\ Len(r) = L + 1 /\ r[L + 1] = s[n] /\ \A i \in 1 .. L : r[i] = q[i]
      BY <3>1, AppendProperties, LenProperties
    <3>3. \A i \in 1 .. L : h[i] \in 1 .. n - 1
      BY <2>1 DEF Embeds
    <3> HIDE DEF q, r, N
    <3>4. g \in [1 .. L + 1 -> 1 .. n]
      BY <2>2, <3>2, <3>3
    <3>5. ASSUME NEW i \in 1 .. L + 1, NEW j \in 1 .. L + 1, i < j PROVE g[i] < g[j]
      <4>1. i \in 1 .. L /\ g[i] = h[i]
        BY <3>2, <3>5
      <4>2. CASE j = L + 1
        BY <2>2, <3>3, <4>1, <4>2
      <4>3. CASE j # L + 1
        <5>1. j \in 1 .. L /\ g[j] = h[j]
          BY <3>2, <4>3
        <5>2. h[i] < h[j]
          BY <2>1, <3>5, <4>1, <5>1 DEF Embeds, q
        <5> QED
          BY <4>1, <5>1, <5>2
      <4> QED
        BY <4>2, <4>3
    <3>6. ASSUME NEW i \in 1 .. L + 1 PROVE r[i] = s[g[i]] /\ r[i] \in S
      <4>1. CASE i = L + 1
        BY <2>4, <3>2, <4>1
      <4>2. CASE i # L + 1
        <5>1. i \in 1 .. L /\ g[i] = h[i] /\ r[i] = q[i]
          BY <3>2, <4>2
        <5>2. q[i] = s[h[i]] /\ q[i] \in S
          BY <2>1, <5>1 DEF Embeds, q
        <5> QED
          BY <5>1, <5>2
      <4> QED
        BY <4>1, <4>2
    <3>7. ASSUME NEW m \in 1 .. n, s[m] \in S PROVE \E i \in 1 .. L + 1 : g[i] = m
      <4>1. CASE m = n
        BY <3>2, <4>1
      <4>2. CASE m # n
        <5>1. m \in 1 .. n - 1
          BY <2>2, <4>2
        <5>2. PICK i \in 1 .. L : h[i] = m
          BY <2>1, <3>7, <5>1 DEF Embeds, q
        <5> QED
          BY <3>2, <5>2
      <4> QED
        BY <4>1, <4>2
    <3> HIDE DEF g, L
    <3>8. Embeds(g, r, s, S, n)
      BY <3>2, <3>4, <3>5, <3>6, <3>7 DEF Embeds
    <3> QED
      BY <3>8 DEF r
  <2> QED
    BY <2>3, <2>4
<1>5. \A n \in 0 .. N : n \in P
  <2> HIDE DEF P, N
  <2> QED
    BY <1>2, <1>3, <1>4, Induction
<1>6. N \in P /\ k[N] \in Seq(T)
  BY <1>1, <1>2, <1>5
<1> QED
  BY <1>1, <1>6

(* Its elements are the ones of s that are in S, each as often as in s.    *)
LEMMA OnlyInSet ==
  ASSUME NEW T, NEW s \in Seq(T), NEW S
  PROVE  /\ OnlyIn(s, S) \in Seq(T)
         /\ ToSet(OnlyIn(s, S)) = ToSet(s) \cap S
         /\ IsInjective(s) => IsInjective(OnlyIn(s, S))
<1>1. PICK h : Embeds(h, OnlyIn(s, S), s, S, Len(s))
  BY OnlyInEmbeds
<1> DEFINE r == OnlyIn(s, S)
<1>2. r \in Seq(T)
  BY OnlyInEmbeds
<1> HIDE DEF r
<1>3. /\ Len(s) \in Nat /\ DOMAIN s = 1 .. Len(s)
      /\ Len(r) \in Nat /\ DOMAIN r = 1 .. Len(r)
  BY <1>2, LenProperties
<1>4. Embeds(h, r, s, S, Len(s))
  BY <1>1 DEF r
<1>5. ToSet(r) = ToSet(s) \cap S
  <2>1. ASSUME NEW x \in ToSet(r) PROVE x \in ToSet(s) \cap S
    <3>1. PICK i \in 1 .. Len(r) : x = r[i]
      BY <1>3 DEF ToSet
    <3> QED
      BY <1>3, <1>4, <3>1 DEF Embeds, ToSet
  <2>2. ASSUME NEW x \in ToSet(s), x \in S PROVE x \in ToSet(r)
    <3>1. PICK m \in 1 .. Len(s) : x = s[m]
      BY <1>3 DEF ToSet
    <3>2. PICK i \in 1 .. Len(r) : h[i] = m
      BY <1>4, <2>2, <3>1 DEF Embeds
    <3>3. r[i] = x
      BY <1>4, <3>1, <3>2 DEF Embeds
    <3> QED
      BY <1>3, <3>3 DEF ToSet
  <2> QED
    BY <2>1, <2>2
<1>6. ASSUME IsInjective(s) PROVE IsInjective(r)
  <2>1. ASSUME NEW i \in 1 .. Len(r), NEW j \in 1 .. Len(r), r[i] = r[j] PROVE i = j
    <3>1. s[h[i]] = s[h[j]] /\ h[i] \in 1 .. Len(s) /\ h[j] \in 1 .. Len(s)
      BY <1>4, <2>1 DEF Embeds
    <3>2. h[i] = h[j]
      BY <1>3, <1>6, <3>1 DEF IsInjective
    <3>3. ~(i < j) /\ ~(j < i)
      BY <1>3, <1>4, <3>1, <3>2 DEF Embeds
    <3> QED
      BY <1>3, <3>3
  <2> QED
    BY <1>3, <2>1 DEF IsInjective
<1> QED
  BY <1>2, <1>5, <1>6 DEF r

-----------------------------------------------------------------------------
(* Descriptors *)

(* The least element of a set of numbers is in it.                         *)
LEMMA MinIsLeast ==
  ASSUME NEW T \in SUBSET Nat, T # {}
  PROVE  Min(T) \in T /\ \A y \in T : Min(T) =< y
<1>1. PICK x \in T : \A y \in T : x =< y
  BY Least
<1>2. \E y \in T : \A z \in T : y =< z
  BY <1>1
<1> QED
  BY <1>2, Zenon DEF Min

(* A new descriptor is not one that is open.                               *)
LEMMA FreshIsNew ==
  ASSUME IsFiniteSet(DOMAIN fds)
  PROVE  Fresh \in Nat \ DOMAIN fds
<1> DEFINE D == DOMAIN fds
           c == Cardinality(D)
           T == (1 .. c + 1) \ D
<1>1. c \in Nat
  BY FS_CardinalityType
<1>2. T # {}
  <2> SUFFICES ASSUME T = {} PROVE FALSE
    OBVIOUS
  <2>1. 1 .. c + 1 \subseteq D
    OBVIOUS
  <2>2. Cardinality(1 .. c + 1) =< c
    BY <2>1, FS_Subset
  <2>3. Cardinality(1 .. c + 1) = c + 1
    <3> HIDE DEF c
    <3>1. 1 \in Int /\ c + 1 \in Int /\ 1 =< c + 1 /\ c + 1 - 1 + 1 = c + 1
      BY <1>1
    <3> QED
      BY <1>1, <3>1, FS_Interval
  <2> QED
    BY <1>1, <2>2, <2>3
<1>3. T \in SUBSET Nat
  BY <1>1
<1>4. Min(T) \in T
  BY <1>2, <1>3, MinIsLeast
<1>5. Fresh = Min(T)
  BY DEF Fresh
<1> QED
  BY <1>3, <1>4, <1>5

-----------------------------------------------------------------------------
(* The order of the addresses *)

(* The indices of a family are those of its addresses, in the resolver's   *)
(* order.                                                                  *)
LEMMA FamilyInOrder ==
  ASSUME NEW T, NEW result \in Seq(T), NEW family
  PROVE  LET o == OfFamily(result, family)
         IN /\ o \in Seq(Nat) /\ Len(o) \in Nat /\ Len(o) =< Len(result)
            /\ \A i \in 1 .. Len(o) : o[i] \in 1 .. Len(result) /\ result[o[i]] = family
            /\ \A i, j \in 1 .. Len(o) : i < j => o[i] < o[j]
            /\ \A m \in 1 .. Len(result) : result[m] = family => \E i \in 1 .. Len(o) : o[i] = m
<1> DEFINE L == Len(result)
           s == [i \in 1 .. L |-> i]
           S == {i \in 1 .. L : result[i] = family}
           o == OfFamily(result, family)
<1>1. L \in Nat
  BY LenProperties
<1>2. o = OnlyIn(s, S)
  BY DEF OfFamily
<1> HIDE DEF L, o
<1>3. s \in Seq(Nat) /\ Len(s) = L
  BY <1>1
<1> DEFINE z == s
<1>4. z \in Seq(Nat) /\ Len(z) = L /\ \A i \in 1 .. L : z[i] = i
  BY <1>3
<1>5. o = OnlyIn(z, S)
  BY <1>2
<1> HIDE DEF s, z
<1>6. PICK h : Embeds(h, o, z, S, L)
  BY <1>4, <1>5, OnlyInEmbeds
<1>7. o \in Seq(Nat) /\ Len(o) \in Nat
  BY <1>4, <1>5, OnlyInEmbeds, LenProperties
<1>8. \A i \in 1 .. Len(o) : o[i] = h[i] /\ o[i] \in S /\ h[i] \in 1 .. L
  BY <1>4, <1>6 DEF Embeds
<1>9. \A i, j \in 1 .. Len(o) : i < j => o[i] < o[j]
  BY <1>6, <1>8 DEF Embeds
<1>10. \A m \in 1 .. L : result[m] = family => \E i \in 1 .. Len(o) : o[i] = m
  <2> SUFFICES ASSUME NEW m \in 1 .. L, result[m] = family PROVE \E i \in 1 .. Len(o) : o[i] = m
    OBVIOUS
  <2>1. z[m] \in S
    BY <1>4
  <2> QED
    <3>1. PICK i \in 1 .. Len(o) : h[i] = m
      BY <1>6, <2>1 DEF Embeds
    <3> QED
      BY <1>8, <3>1
<1>11. Len(o) =< L
  <2> DEFINE P == {n \in 0 .. Len(o) : n # 0 => n =< o[n]}
  <2>1. 0 \in P
    BY <1>7
  <2>2. ASSUME NEW n \in 1 .. Len(o), n - 1 \in P PROVE n \in P
    <3>1. n \in 0 .. Len(o) /\ o[n] \in 1 .. L
      BY <1>7, <1>8
    <3>2. CASE n = 1
      BY <1>1, <3>1, <3>2
    <3>3. CASE n # 1
      <4>1. n - 1 \in 1 .. Len(o) /\ n - 1 < n
        BY <1>7, <3>3
      <4>2. o[n - 1] < o[n] /\ o[n - 1] \in 1 .. L
        BY <1>8, <1>9, <4>1
      <4>3. n - 1 =< o[n - 1]
        BY <2>2, <4>1
      <4> QED
        BY <1>1, <3>1, <4>2, <4>3
    <3> QED
      BY <3>2, <3>3
  <2>3. \A n \in 0 .. Len(o) : n \in P
    <3> HIDE DEF P
    <3> QED
      BY <1>7, <2>1, <2>2, Induction
  <2>4. Len(o) # 0 => Len(o) =< o[Len(o)] /\ o[Len(o)] \in 1 .. L
    <3>1. Len(o) \in P
      BY <1>7, <2>3
    <3> QED
      BY <1>7, <1>8, <3>1
  <2> QED
    BY <1>1, <1>7, <2>4
<1>12. \A i \in 1 .. Len(o) : o[i] \in 1 .. L /\ result[o[i]] = family
  BY <1>8
<1> QED
  BY <1>7, <1>9, <1>10, <1>11, <1>12 DEF L, o

Lower(a, b) == IF a =< b THEN a ELSE b

(* After n rounds of the loop R has the first n addresses of both families, *)
(* each at its place.                                                      *)
Woven(R, six, four, n) ==
  /\ Len(R) = Lower(n, Len(six)) + Lower(n, Len(four))
  /\ \A r \in 1 .. n : r =< Len(six) => R[r + Lower(r - 1, Len(four))] = six[r]
  /\ \A r \in 1 .. n : r =< Len(four) => R[r + Lower(r, Len(six))] = four[r]
  /\ \A p \in 1 .. Len(R) : \E r \in 1 .. n :
       \/ r =< Len(six) /\ p = r + Lower(r - 1, Len(four))
       \/ r =< Len(four) /\ p = r + Lower(r, Len(six))

Element(s, n) == IF n =< Len(s) THEN <<s[n]>> ELSE <<>>

(* What the loop takes from a family in a round                            *)
LEMMA ElementType ==
  ASSUME NEW s \in Seq(Nat), NEW n \in Nat \ {0}
  PROVE  /\ Element(s, n) \in Seq(Nat)
         /\ Len(Element(s, n)) = IF n =< Len(s) THEN 1 ELSE 0
         /\ n =< Len(s) => Element(s, n)[1] = s[n]
<1>1. Len(s) \in Nat
  BY LenProperties
<1>2. CASE n =< Len(s)
  <2>1. s[n] \in Nat
    BY <1>1, <1>2, ElementOfSeq
  <2> DEFINE e == s[n]
  <2>2. Element(s, n) = <<e>>
    BY <1>2 DEF Element
  <2>3. e \in Nat
    BY <2>1
  <2> HIDE DEF e
  <2>4. <<e>> \in Seq(Nat) /\ Len(<<e>>) = 1 /\ <<e>>[1] = e
    BY <2>3
  <2> QED
    BY <1>2, <2>2, <2>4 DEF e
<1>3. CASE ~(n =< Len(s))
  BY <1>3, EmptySeq DEF Element
<1> QED
  BY <1>2, <1>3

(* The place of one element that is appended                               *)
LEMMA OneMore ==
  ASSUME NEW s \in Seq(Nat), NEW t \in Seq(Nat), Len(t) = 1
  PROVE  (s \o t)[Len(s) + 1] = t[1]
<1> DEFINE L == Len(s)
           i == L + 1
<1>1. L \in Nat /\ i \in 1 .. L + 1 /\ ~(i =< L) /\ i - L = 1
  BY LenProperties
<1>2. \A m \in 1 .. L + 1 : (s \o t)[m] = IF m =< L THEN s[m] ELSE t[m - L]
  <2>1. \A m \in 1 .. Len(s) + Len(t) : (s \o t)[m] = IF m =< Len(s) THEN s[m] ELSE t[m - Len(s)]
    BY ConcatProperties, Zenon
  <2> QED
    BY <2>1
<1> HIDE DEF i, L
<1>3. (s \o t)[i] = t[1]
  BY <1>1, <1>2
<1> QED
  BY <1>3 DEF i, L

(* One round                                                               *)
LEMMA WovenStep ==
  ASSUME NEW six \in Seq(Nat), NEW four \in Seq(Nat), NEW n \in Nat \ {0}, NEW R \in Seq(Nat),
         Woven(R, six, four, n - 1)
  PROVE  Woven(R \o Element(six, n) \o Element(four, n), six, four, n)
<1> DEFINE a == Element(six, n)
           b == Element(four, n)
           S == Len(six)
           F == Len(four)
           L == Len(R)
           X == R \o a
           W == X \o b
<1>1. S \in Nat /\ F \in Nat /\ L \in Nat
  BY LenProperties
<1>2. /\ a \in Seq(Nat) /\ Len(a) = (IF n =< S THEN 1 ELSE 0) /\ (n =< S => a[1] = six[n])
      /\ b \in Seq(Nat) /\ Len(b) = (IF n =< F THEN 1 ELSE 0) /\ (n =< F => b[1] = four[n])
  BY ElementType
<1> HIDE DEF a, b
<1>3. /\ X \in Seq(Nat) /\ Len(X) = L + Len(a)
      /\ \A p \in 1 .. L : X[p] = R[p]
      /\ n =< S => X[L + 1] = six[n]
  <2>1. X \in Seq(Nat) /\ Len(X) = L + Len(a)
    BY <1>2, ConcatProperties
  <2>2. \A p \in 1 .. L : X[p] = R[p]
    BY <1>1, <1>2, ConcatProperties
  <2>3. ASSUME n =< S PROVE X[L + 1] = six[n]
    BY <1>2, <2>3, OneMore
  <2> QED
    BY <2>1, <2>2, <2>3
<1> HIDE DEF X
<1>4. /\ W \in Seq(Nat) /\ Len(W) = L + Len(a) + Len(b)
      /\ \A p \in 1 .. L + Len(a) : W[p] = X[p]
      /\ n =< F => W[L + Len(a) + 1] = four[n]
  <2>1. W \in Seq(Nat) /\ Len(W) = Len(X) + Len(b)
    BY <1>2, <1>3, ConcatProperties
  <2>2. \A p \in 1 .. Len(X) : W[p] = X[p]
    BY <1>2, <1>3, ConcatProperties
  <2>3. ASSUME n =< F PROVE W[Len(X) + 1] = four[n]
    BY <1>2, <1>3, <2>3, OneMore
  <2> QED
    BY <1>3, <2>1, <2>2, <2>3
<1>5. L = Lower(n - 1, S) + Lower(n - 1, F)
  BY DEF Woven
<1> HIDE DEF W, L, S, F
<1>6. Len(W) = Lower(n, S) + Lower(n, F)
  <2>1. /\ Len(a) = (IF n =< S THEN 1 ELSE 0) /\ Len(b) = (IF n =< F THEN 1 ELSE 0)
        /\ S \in Nat /\ F \in Nat /\ n \in Nat /\ n # 0
    BY <1>1, <1>2
  <2>2. Lower(n, S) = Lower(n - 1, S) + Len(a)
    BY <2>1 DEF Lower
  <2>3. Lower(n, F) = Lower(n - 1, F) + Len(b)
    BY <2>1 DEF Lower
  <2>4. Lower(n - 1, S) \in Nat /\ Lower(n - 1, F) \in Nat /\ Len(a) \in Nat /\ Len(b) \in Nat
    BY <2>1 DEF Lower
  <2>5. Len(W) = (Lower(n - 1, S) + Lower(n - 1, F)) + Len(a) + Len(b)
    BY <1>4, <1>5, Zenon
  <2>6. Lower(n, S) + Lower(n, F) = (Lower(n - 1, S) + Len(a)) + (Lower(n - 1, F) + Len(b))
    BY <2>2, <2>3, Zenon
  <2> QED
    BY <2>4, <2>5, <2>6
<1>7. \A p \in 1 .. L : W[p] = R[p]
  <2>1. Len(a) \in Nat
    BY <1>2
  <2>2. \A p \in 1 .. L : p \in 1 .. L + Len(a)
    BY <1>1, <2>1
  <2> QED
    BY <1>3, <1>4, <2>2
<1>8. n =< S => W[n + Lower(n - 1, F)] = six[n] /\ n + Lower(n - 1, F) = L + 1
  <2> SUFFICES ASSUME n =< S PROVE W[n + Lower(n - 1, F)] = six[n] /\ n + Lower(n - 1, F) = L + 1
    OBVIOUS
  <2>1. n + Lower(n - 1, F) = L + 1 /\ L + 1 \in 1 .. L + Len(a)
    BY <1>1, <1>2, <1>5 DEF Lower
  <2> QED
    BY <1>3, <1>4, <2>1
<1>9. n =< F => W[n + Lower(n, S)] = four[n] /\ n + Lower(n, S) = L + Len(a) + 1
  <2> SUFFICES ASSUME n =< F PROVE W[n + Lower(n, S)] = four[n] /\ n + Lower(n, S) = L + Len(a) + 1
    OBVIOUS
  <2>1. n + Lower(n, S) = L + Len(a) + 1
    BY <1>1, <1>2, <1>5 DEF Lower
  <2> QED
    BY <1>4, <2>1
<1>10. ASSUME NEW r \in 1 .. n, r =< S PROVE W[r + Lower(r - 1, F)] = six[r]
  <2>1. CASE r = n
    BY <1>8, <1>10, <2>1
  <2>2. CASE r # n
    <3>1. r \in 1 .. n - 1 /\ r + Lower(r - 1, F) \in 1 .. L
      BY <1>1, <1>5, <1>10, <2>2 DEF Lower
    <3>2. R[r + Lower(r - 1, F)] = six[r]
      BY <1>10, <3>1 DEF Woven, S, F
    <3> QED
      BY <1>7, <3>1, <3>2
  <2> QED
    BY <2>1, <2>2
<1>11. ASSUME NEW r \in 1 .. n, r =< F PROVE W[r + Lower(r, S)] = four[r]
  <2>1. CASE r = n
    BY <1>9, <1>11, <2>1
  <2>2. CASE r # n
    <3>1. r \in 1 .. n - 1 /\ r + Lower(r, S) \in 1 .. L
      BY <1>1, <1>5, <1>11, <2>2 DEF Lower
    <3>2. R[r + Lower(r, S)] = four[r]
      BY <1>11, <3>1 DEF Woven, S, F
    <3> QED
      BY <1>7, <3>1, <3>2
  <2> QED
    BY <2>1, <2>2
<1>12. ASSUME NEW p \in 1 .. Len(W)
       PROVE  \E r \in 1 .. n : (r =< S /\ p = r + Lower(r - 1, F)) \/ (r =< F /\ p = r + Lower(r, S))
  <2>1. CASE p \in 1 .. L
    <3>1. PICK r \in 1 .. n - 1 :
             (r =< S /\ p = r + Lower(r - 1, F)) \/ (r =< F /\ p = r + Lower(r, S))
      BY <2>1 DEF Woven, S, F, L
    <3>2. r \in 1 .. n
      OBVIOUS
    <3> QED
      BY <3>1, <3>2
  <2>2. CASE p \notin 1 .. L
    <3>1. n \in 1 .. n
      OBVIOUS
    <3>2. p \in 1 .. L + Len(a) + Len(b) /\ Len(a) \in {0, 1} /\ Len(b) \in {0, 1}
      BY <1>2, <1>4
    <3>3. (Len(a) = 1 /\ p = L + 1) \/ (Len(b) = 1 /\ p = L + Len(a) + 1)
      <4> DEFINE x == Len(a)
                 y == Len(b)
      <4>1. p \in Nat /\ p > L /\ p =< L + x + y
        BY <1>1, <2>2, <3>2
      <4>2. x \in {0, 1} /\ y \in {0, 1}
        BY <3>2
      <4> HIDE DEF x, y
      <4>3. (x = 1 /\ p = L + 1) \/ (y = 1 /\ p = L + x + 1)
        BY <1>1, <4>1, <4>2
      <4> QED
        BY <4>3 DEF x, y
    <3>4. (n =< S /\ p = L + 1) \/ (n =< F /\ p = L + Len(a) + 1)
      BY <1>2, <3>3
    <3> QED
      BY <1>8, <1>9, <3>1, <3>4
  <2> QED
    BY <2>1, <2>2
<1>13. Woven(W, six, four, n)
  BY <1>6, <1>10, <1>11, <1>12 DEF Woven, S, F
<1> QED
  BY <1>13 DEF W, X, a, b

(* What the recursive definition of Interweave computes                    *)
LEMMA InterweaveRecursion ==
  ASSUME NEW T, NEW result \in Seq(T)
  PROVE  LET six  == OfFamily(result, "IPv6")
             four == OfFamily(result, "IPv4")
         IN \E k \in [0 .. Len(result) -> Seq(Nat)] :
              /\ Interweave(result) = k[Len(result)] /\ k[0] = <<>>
              /\ \A n \in 1 .. Len(result) : k[n] = k[n - 1] \o Element(six, n) \o Element(four, n)
<1> DEFINE six == OfFamily(result, "IPv6")
           four == OfFamily(result, "IPv4")
           N == Len(result)
           Body(f) == [n \in 0 .. N |-> IF n = 0 THEN <<>>
                                        ELSE f[n - 1] \o Element(six, n) \o Element(four, n)]
           K == CHOOSE f : f = Body(f)
           g == [n \in 1 .. N |-> [q \in Seq(Nat) |-> q \o Element(six, n) \o Element(four, n)]]
<1>1. N \in Nat /\ six \in Seq(Nat) /\ four \in Seq(Nat)
  BY FamilyInOrder, LenProperties
<1>2. Interweave(result) = K[N]
  BY DEF Interweave, Element
<1> HIDE DEF N, K, Body, six, four
<1>3. g \in [1 .. N -> [Seq(Nat) -> Seq(Nat)]]
  <2> SUFFICES ASSUME NEW n \in 1 .. N, NEW q \in Seq(Nat)
               PROVE  q \o Element(six, n) \o Element(four, n) \in Seq(Nat)
    OBVIOUS
  <2>1. n \in Nat \ {0}
    BY <1>1
  <2>2. Element(six, n) \in Seq(Nat) /\ Element(four, n) \in Seq(Nat)
    BY <1>1, <2>1, ElementType
  <2> QED
    BY <2>2, ConcatProperties
<1>4. PICK f : Follows(f, N, Seq(Nat), <<>>, g)
  <2> HIDE DEF g
  <2>1. <<>> \in Seq(Nat)
    BY EmptySeq
  <2> QED
    BY <1>1, <1>3, <2>1, Recursion
<1>5. ASSUME NEW n \in 1 .. N PROVE f[n] = f[n - 1] \o Element(six, n) \o Element(four, n)
  <2>1. n - 1 \in 0 .. N
    BY <1>1
  <2>2. f[n] = g[n][f[n - 1]] /\ f[n - 1] \in Seq(Nat)
    BY <1>4, <2>1, Zenon DEF Follows
  <2>3. g[n] = [q \in Seq(Nat) |-> q \o Element(six, n) \o Element(four, n)]
    BY Zenon
  <2> QED
    BY <2>2, <2>3, Zenon
<1> HIDE DEF g
<1>6. f = Body(f)
  <2>1. \A n \in 0 .. N : f[n] = IF n = 0 THEN <<>>
                                 ELSE f[n - 1] \o Element(six, n) \o Element(four, n)
    <3> SUFFICES ASSUME NEW n \in 0 .. N
                 PROVE  f[n] = IF n = 0 THEN <<>>
                               ELSE f[n - 1] \o Element(six, n) \o Element(four, n)
      OBVIOUS
    <3>1. n = 0 \/ n \in 1 .. N
      BY <1>1
    <3> QED
      BY <1>4, <1>5, <3>1 DEF Follows
  <2>2. f = [n \in 0 .. N |-> f[n]]
    BY <1>4 DEF Follows
  <2> QED
    BY <2>1, <2>2, Zenon DEF Body
<1>7. K = Body(K)
  BY <1>6, Zenon DEF K
<1>8. K[0] = <<>> /\ \A n \in 1 .. N : K[n] = K[n - 1] \o Element(six, n) \o Element(four, n)
  <2>1. \A n \in 0 .. N : K[n] = Body(K)[n]
    BY <1>7
  <2>2. 0 \in 0 .. N /\ \A n \in 1 .. N : n \in 0 .. N /\ n # 0
    BY <1>1
  <2> QED
    BY <2>1, <2>2 DEF Body
<1> DEFINE P == {n \in 0 .. N : K[n] = f[n]}
<1>9. 0 \in P
  BY <1>1, <1>4, <1>8 DEF Follows
<1>10. ASSUME NEW n \in 1 .. N, n - 1 \in P PROVE n \in P
  <2>1. K[n - 1] = f[n - 1] /\ n \in 0 .. N
    BY <1>1, <1>10
  <2>2. K[n] = f[n]
    BY <1>5, <1>8, <2>1, Zenon
  <2> QED
    BY <2>1, <2>2
<1>11. \A n \in 0 .. N : n \in P
  <2> HIDE DEF P
  <2> QED
    BY <1>1, <1>9, <1>10, Induction
<1>12. K[N] = f[N]
  BY <1>1, <1>11
<1> QED
  BY <1>2, <1>4, <1>5, <1>12 DEF N, Follows, six, four

(* All rounds together                                                     *)
LEMMA InterweaveWoven ==
  ASSUME NEW T, NEW result \in Seq(T)
  PROVE  /\ Interweave(result) \in Seq(Nat)
         /\ Woven(Interweave(result), OfFamily(result, "IPv6"), OfFamily(result, "IPv4"), Len(result))
<1> DEFINE six == OfFamily(result, "IPv6")
           four == OfFamily(result, "IPv4")
           N == Len(result)
<1>1. PICK k \in [0 .. N -> Seq(Nat)] :
        /\ Interweave(result) = k[N] /\ k[0] = <<>>
        /\ \A n \in 1 .. N : k[n] = k[n - 1] \o Element(six, n) \o Element(four, n)
  BY InterweaveRecursion
<1>2. N \in Nat /\ six \in Seq(Nat) /\ four \in Seq(Nat) /\ Len(six) \in Nat /\ Len(four) \in Nat
  BY FamilyInOrder, LenProperties
<1> HIDE DEF N, six, four
<1> DEFINE P == {n \in 0 .. N : Woven(k[n], six, four, n)}
<1>3. 0 \in P
  <2>1. k[0] = <<>> /\ Len(k[0]) = 0 /\ 1 .. 0 = {} /\ 0 \in 0 .. N
    BY <1>1, <1>2
  <2>2. Lower(0, Len(six)) = 0 /\ Lower(0, Len(four)) = 0
    BY <1>2 DEF Lower
  <2>3. Woven(k[0], six, four, 0)
    BY <2>1, <2>2 DEF Woven
  <2> QED
    BY <2>1, <2>3
<1>4. ASSUME NEW n \in 1 .. N, n - 1 \in P PROVE n \in P
  <2>1. n \in Nat \ {0} /\ n \in 0 .. N /\ n - 1 \in 0 .. N /\ k[n - 1] \in Seq(Nat)
    BY <1>2
  <2>2. Woven(k[n - 1], six, four, n - 1)
    BY <1>4
  <2>3. Woven(k[n - 1] \o Element(six, n) \o Element(four, n), six, four, n)
    BY <1>2, <2>1, <2>2, WovenStep
  <2> QED
    BY <1>1, <2>1, <2>3
<1>5. \A n \in 0 .. N : n \in P
  <2> HIDE DEF P
  <2> QED
    BY <1>2, <1>3, <1>4, Induction
<1>6. Woven(k[N], six, four, N) /\ k[N] \in Seq(Nat)
  BY <1>2, <1>5
<1> QED
  BY <1>1, <1>6 DEF six, four, N

(* The addresses W of a result are in the order that AddressOrder asks for *)
InTurns(W, result) ==
  LET family(i) == result[W[i]]
  IN /\ ToSet(W) = {i \in DOMAIN result : result[i] # "other"}
     /\ \A i, j \in DOMAIN W : i < j /\ family(i) = family(j) => W[i] < W[j]
     /\ \A i, j \in DOMAIN W : i < j /\ family(i) = family(i + 1) => family(j) = family(i)
     /\ \A i \in DOMAIN W : family(i) = "IPv6" => family(1) = "IPv6"

(* Interweave does what its comment says, for every result.                *)
LEMMA InterweaveInTurns ==
  ASSUME NEW result \in Seq({"IPv4", "IPv6", "other"})
  PROVE  Interweave(result) \in Seq(Nat) /\ InTurns(Interweave(result), result)
<1> DEFINE six == OfFamily(result, "IPv6")
           four == OfFamily(result, "IPv4")
           N == Len(result)
           W == Interweave(result)
           S == Len(six)
           F == Len(four)
           SixAt(r) == r + Lower(r - 1, F)
           FourAt(r) == r + Lower(r, S)
<1>1. /\ N \in Nat /\ DOMAIN result = 1 .. N
      /\ \A i \in 1 .. N : result[i] \in {"IPv4", "IPv6", "other"}
  BY LenProperties, ElementOfSeq
<1>2. /\ six \in Seq(Nat) /\ S \in Nat /\ S =< N
      /\ \A i \in 1 .. S : six[i] \in 1 .. N /\ result[six[i]] = "IPv6"
      /\ \A i, j \in 1 .. S : i < j => six[i] < six[j]
      /\ \A m \in 1 .. N : result[m] = "IPv6" => \E i \in 1 .. S : six[i] = m
  BY FamilyInOrder
<1>3. /\ four \in Seq(Nat) /\ F \in Nat /\ F =< N
      /\ \A i \in 1 .. F : four[i] \in 1 .. N /\ result[four[i]] = "IPv4"
      /\ \A i, j \in 1 .. F : i < j => four[i] < four[j]
      /\ \A m \in 1 .. N : result[m] = "IPv4" => \E i \in 1 .. F : four[i] = m
  BY FamilyInOrder
<1>4. W \in Seq(Nat) /\ Woven(W, six, four, N)
  BY InterweaveWoven
<1>5. Len(W) \in Nat /\ DOMAIN W = 1 .. Len(W)
  BY <1>4, LenProperties
<1> HIDE DEF W, six, four, N
<1>6. Len(W) = S + F
  <2>1. Len(W) = Lower(N, S) + Lower(N, F)
    BY <1>4 DEF Woven
  <2>2. Lower(N, S) = S /\ Lower(N, F) = F
    <3> HIDE DEF S, F
    <3> QED
      BY <1>1, <1>2, <1>3 DEF Lower
  <2> QED
    BY <2>1, <2>2
<1>7. \A r \in 1 .. S : W[SixAt(r)] = six[r] /\ SixAt(r) \in 1 .. Len(W)
  <2> SUFFICES ASSUME NEW r \in 1 .. S PROVE W[SixAt(r)] = six[r] /\ SixAt(r) \in 1 .. Len(W)
    OBVIOUS
  <2>1. r \in 1 .. N /\ r =< S
    BY <1>1, <1>2
  <2>2. SixAt(r) \in 1 .. S + F
    BY <1>2, <1>3 DEF Lower
  <2> QED
    BY <1>4, <1>6, <2>1, <2>2 DEF Woven
<1>8. \A r \in 1 .. F : W[FourAt(r)] = four[r] /\ FourAt(r) \in 1 .. Len(W)
  <2> SUFFICES ASSUME NEW r \in 1 .. F PROVE W[FourAt(r)] = four[r] /\ FourAt(r) \in 1 .. Len(W)
    OBVIOUS
  <2>1. r \in 1 .. N /\ r =< F
    BY <1>1, <1>3
  <2>2. FourAt(r) \in 1 .. S + F
    BY <1>2, <1>3 DEF Lower
  <2> QED
    BY <1>4, <1>6, <2>1, <2>2 DEF Woven
<1>9. \A p \in 1 .. Len(W) : \/ \E r \in 1 .. S : p = SixAt(r)
                             \/ \E r \in 1 .. F : p = FourAt(r)
  <2> SUFFICES ASSUME NEW p \in 1 .. Len(W)
               PROVE  (\E r \in 1 .. S : p = SixAt(r)) \/ (\E r \in 1 .. F : p = FourAt(r))
    OBVIOUS
  <2>1. PICK r \in 1 .. N : (r =< S /\ p = SixAt(r)) \/ (r =< F /\ p = FourAt(r))
    BY <1>4 DEF Woven
  <2>2. CASE r =< S /\ p = SixAt(r)
    <3>1. r \in 1 .. S
      BY <1>1, <1>2, <2>2
    <3> QED
      BY <2>2, <3>1
  <2>3. CASE r =< F /\ p = FourAt(r)
    <3>1. r \in 1 .. F
      BY <1>1, <1>3, <2>3
    <3> QED
      BY <2>3, <3>1
  <2> QED
    BY <2>1, <2>2, <2>3
<1> DEFINE family(i) == result[W[i]]
<1>10. \A r \in 1 .. S : family(SixAt(r)) = "IPv6"
  <2> SUFFICES ASSUME NEW r \in 1 .. S PROVE family(SixAt(r)) = "IPv6"
    OBVIOUS
  <2>1. W[SixAt(r)] = six[r] /\ result[six[r]] = "IPv6"
    BY <1>2, <1>7, Zenon
  <2> HIDE DEF SixAt
  <2> QED
    BY <2>1, Zenon
<1>11. \A r \in 1 .. F : family(FourAt(r)) = "IPv4"
  <2> SUFFICES ASSUME NEW r \in 1 .. F PROVE family(FourAt(r)) = "IPv4"
    OBVIOUS
  <2>1. W[FourAt(r)] = four[r] /\ result[four[r]] = "IPv4"
    BY <1>3, <1>8, Zenon
  <2> HIDE DEF FourAt
  <2> QED
    BY <2>1, Zenon
<1>12. ToSet(W) = {i \in DOMAIN result : result[i] # "other"}
  <2>1. ASSUME NEW x \in ToSet(W) PROVE x \in DOMAIN result /\ result[x] # "other"
    <3>1. PICK p \in 1 .. Len(W) : x = W[p]
      BY <1>5 DEF ToSet
    <3> HIDE DEF SixAt, FourAt
    <3>2. CASE \E r \in 1 .. S : p = SixAt(r)
      BY <1>1, <1>2, <1>7, <3>1, <3>2
    <3>3. CASE \E r \in 1 .. F : p = FourAt(r)
      BY <1>1, <1>3, <1>8, <3>1, <3>3
    <3> QED
      BY <1>9, <3>2, <3>3
  <2>2. ASSUME NEW x \in DOMAIN result, result[x] # "other" PROVE x \in ToSet(W)
    <3> HIDE DEF SixAt, FourAt
    <3>1. CASE result[x] = "IPv6"
      <4>1. PICK r \in 1 .. S : six[r] = x
        BY <1>1, <1>2, <3>1
      <4>2. SixAt(r) \in DOMAIN W /\ W[SixAt(r)] = x
        BY <1>5, <1>7, <4>1
      <4> QED
        BY <4>2 DEF ToSet
    <3>2. CASE result[x] = "IPv4"
      <4>1. PICK r \in 1 .. F : four[r] = x
        BY <1>1, <1>3, <3>2
      <4>2. FourAt(r) \in DOMAIN W /\ W[FourAt(r)] = x
        BY <1>5, <1>8, <4>1
      <4> QED
        BY <4>2 DEF ToSet
    <3> QED
      BY <1>1, <2>2, <3>1, <3>2
  <2> QED
    BY <2>1, <2>2
<1>13. ASSUME NEW i \in DOMAIN W, NEW j \in DOMAIN W, i < j, family(i) = family(j)
       PROVE  W[i] < W[j]
  <2>1. CASE \E r \in 1 .. S : i = SixAt(r)
    <3>1. PICK r \in 1 .. S : i = SixAt(r)
      BY <2>1
    <3>2. PICK q \in 1 .. S : j = SixAt(q)
      <4> HIDE DEF SixAt, FourAt
      <4> QED
        BY <1>5, <1>9, <1>10, <1>11, <1>13, <3>1
    <3>3. r < q
      BY <1>2, <1>3, <1>13, <3>1, <3>2 DEF Lower
    <3> HIDE DEF SixAt
    <3> QED
      BY <1>2, <1>7, <3>1, <3>2, <3>3
  <2>2. CASE \E r \in 1 .. F : i = FourAt(r)
    <3>1. PICK r \in 1 .. F : i = FourAt(r)
      BY <2>2
    <3>2. PICK q \in 1 .. F : j = FourAt(q)
      <4> HIDE DEF SixAt, FourAt
      <4> QED
        BY <1>5, <1>9, <1>10, <1>11, <1>13, <3>1
    <3>3. r < q
      BY <1>2, <1>3, <1>13, <3>1, <3>2 DEF Lower
    <3> HIDE DEF FourAt
    <3> QED
      BY <1>3, <1>8, <3>1, <3>2, <3>3
  <2> QED
    BY <1>5, <1>9, <2>1, <2>2
<1>14. ASSUME NEW i \in DOMAIN W, NEW j \in DOMAIN W, i < j, family(i) = family(i + 1)
       PROVE  family(j) = family(i)
  <2>1. i + 1 \in DOMAIN W
    BY <1>5, <1>14
  <2>2. CASE \E r \in 1 .. S : i = SixAt(r)
    <3>1. PICK r \in 1 .. S : i = SixAt(r)
      BY <2>2
    <3>2. PICK q \in 1 .. S : i + 1 = SixAt(q)
      <4> HIDE DEF SixAt, FourAt
      <4> QED
        BY <1>5, <1>9, <1>10, <1>11, <1>14, <2>1, <3>1
    <3>3. r > F
      <4>1. F \in Nat /\ r \in Nat \ {0} /\ q \in Nat \ {0}
        BY <1>2, <1>3
      <4> HIDE DEF F
      <4> QED
        BY <3>1, <3>2, <4>1 DEF Lower
    <3>4. ~ \E p \in 1 .. F : j = FourAt(p)
      <4> SUFFICES ASSUME NEW p \in 1 .. F, j = FourAt(p) PROVE FALSE
        OBVIOUS
      <4>1. FourAt(p) =< 2 * F
        <5>1. S \in Nat /\ F \in Nat /\ p \in 1 .. F
          BY <1>2, <1>3
        <5> HIDE DEF S, F
        <5> QED
          BY <5>1 DEF Lower
      <4>2. i = r + F /\ i > 2 * F
        <5>1. i = r + Lower(r - 1, F) /\ r \in Nat /\ F \in Nat /\ r > F
          BY <1>2, <1>3, <3>1, <3>3
        <5> HIDE DEF S, F
        <5>2. Lower(r - 1, F) = F
          BY <5>1 DEF Lower
        <5> QED
          BY <5>1, <5>2
      <4>3. i \in Nat /\ j \in Nat
        BY <1>5
      <4> HIDE DEF FourAt, F
      <4> QED
        BY <1>3, <1>14, <4>1, <4>2, <4>3
    <3> HIDE DEF SixAt, FourAt
    <3> QED
      BY <1>5, <1>9, <1>10, <3>1, <3>4
  <2>3. CASE \E r \in 1 .. F : i = FourAt(r)
    <3>1. PICK r \in 1 .. F : i = FourAt(r)
      BY <2>3
    <3>2. PICK q \in 1 .. F : i + 1 = FourAt(q)
      <4> HIDE DEF SixAt, FourAt
      <4> QED
        BY <1>5, <1>9, <1>10, <1>11, <1>14, <2>1, <3>1
    <3>3. r >= S
      <4>1. S \in Nat /\ r \in Nat \ {0} /\ q \in Nat \ {0}
        BY <1>2, <1>3
      <4> HIDE DEF S
      <4> QED
        BY <3>1, <3>2, <4>1 DEF Lower
    <3>4. ~ \E p \in 1 .. S : j = SixAt(p)
      <4> SUFFICES ASSUME NEW p \in 1 .. S, j = SixAt(p) PROVE FALSE
        OBVIOUS
      <4>1. SixAt(p) =< 2 * S
        <5>1. S \in Nat /\ F \in Nat /\ p \in 1 .. S
          BY <1>2, <1>3
        <5> HIDE DEF S, F
        <5> QED
          BY <5>1 DEF Lower
      <4>2. i = r + S /\ i >= 2 * S
        <5>1. i = r + Lower(r, S) /\ r \in Nat /\ S \in Nat /\ r >= S
          BY <1>2, <1>3, <3>1, <3>3
        <5> HIDE DEF S, F
        <5>2. Lower(r, S) = S
          BY <5>1 DEF Lower
        <5> QED
          BY <5>1, <5>2
      <4>3. i \in Nat /\ j \in Nat
        BY <1>5
      <4> HIDE DEF SixAt, S
      <4> QED
        BY <1>2, <1>14, <4>1, <4>2, <4>3
    <3> HIDE DEF SixAt, FourAt
    <3> QED
      BY <1>5, <1>9, <1>11, <3>1, <3>4
  <2> QED
    BY <1>5, <1>9, <2>2, <2>3
<1>15. ASSUME NEW i \in DOMAIN W, family(i) = "IPv6" PROVE family(1) = "IPv6"
  <2>1. \E r \in 1 .. S : i = SixAt(r)
    <3> HIDE DEF SixAt, FourAt
    <3> QED
      BY <1>5, <1>9, <1>11, <1>15
  <2>2. 1 \in 1 .. S /\ SixAt(1) = 1
    BY <1>2, <1>3, <2>1 DEF Lower
  <2> QED
    BY <1>10, <2>2
<1>16. InTurns(W, result)
  BY <1>12, <1>13, <1>14, <1>15 DEF InTurns
<1> QED
  BY <1>4, <1>16 DEF W

-----------------------------------------------------------------------------
(* Sequences of sockets *)

(* The pending sockets after another one was opened                        *)
LEMMA AppendSet ==
  ASSUME NEW T, NEW s \in Seq(T), NEW x
  PROVE  /\ Append(s, x) \in Seq(T \cup {x})
         /\ ToSet(Append(s, x)) = ToSet(s) \cup {x}
         /\ IsInjective(s) /\ x \notin ToSet(s) => IsInjective(Append(s, x))
<1> DEFINE r == Append(s, x)
           L == Len(s)
<1>1. s \in Seq(T \cup {x})
  BY SeqDef
<1>2. /\ r \in Seq(T \cup {x}) /\ Len(r) = L + 1 /\ r[L + 1] = x
      /\ \A i \in 1 .. L : r[i] = s[i]
  BY <1>1, AppendProperties
<1>3. L \in Nat /\ DOMAIN s = 1 .. L /\ DOMAIN r = 1 .. L + 1
  BY <1>1, <1>2, LenProperties
<1> HIDE DEF r, L
<1>4. ToSet(r) = ToSet(s) \cup {x}
  <2>1. ASSUME NEW y \in ToSet(r) PROVE y \in ToSet(s) \cup {x}
    <3>1. PICK i \in 1 .. L + 1 : y = r[i]
      BY <1>3 DEF ToSet
    <3>2. i \in 1 .. L \/ i = L + 1
      BY <1>3
    <3> QED
      BY <1>2, <1>3, <3>1, <3>2 DEF ToSet
  <2>2. ASSUME NEW y \in ToSet(s) PROVE y \in ToSet(r)
    <3>1. PICK i \in 1 .. L : y = s[i]
      BY <1>3 DEF ToSet
    <3>2. i \in 1 .. L + 1 /\ r[i] = y
      BY <1>2, <1>3, <3>1
    <3> QED
      BY <1>3, <3>2 DEF ToSet
  <2>3. x \in ToSet(r)
    <3>1. L + 1 \in 1 .. L + 1
      BY <1>3
    <3> QED
      BY <1>2, <1>3, <3>1 DEF ToSet
  <2> QED
    BY <2>1, <2>2, <2>3
<1>5. ASSUME IsInjective(s), x \notin ToSet(s) PROVE IsInjective(r)
  <2>1. ASSUME NEW i \in 1 .. L + 1, NEW j \in 1 .. L + 1, r[i] = r[j] PROVE i = j
    <3>1. \A m \in 1 .. L : r[m] = s[m] /\ s[m] # x
      BY <1>2, <1>3, <1>5 DEF ToSet
    <3>2. (i \in 1 .. L \/ i = L + 1) /\ (j \in 1 .. L \/ j = L + 1)
      BY <1>3
    <3>3. \A m, n \in 1 .. L : s[m] = s[n] => m = n
      BY <1>3, <1>5 DEF IsInjective
    <3> QED
      BY <1>2, <2>1, <3>1, <3>2, <3>3
  <2> QED
    BY <1>3, <2>1 DEF IsInjective
<1> QED
  BY <1>2, <1>4, <1>5 DEF r

-----------------------------------------------------------------------------
(* The inductive invariant *)

Attempting == {"CONNECTING", "STOP"}

(* Where the two threads are, whatever they do: a connection exists only   *)
(* when connectToAny() has found it, and then no attempt is pending.       *)
Phase ==
  /\ cstate \in {"RESOLVING", "CONNECTING", "AUTHENTICATING", "BACKOFF", "SOCKET_ERROR", "STOP"}
  /\ pc \in {"loop", "getaddrinfo", "setBackoff", "sleep", "select", "examine", "adopted",
             "recv", "close", "clear", "stop", "done", "gone"}
  /\ wpc \in {"idle", "send", "error", "close", "clear", "done"}
  /\ attempt \in Nat
  /\ m_socket # INVALID_SOCKET => m_sockets = <<>>
  /\ pc \in {"getaddrinfo", "select", "examine", "setBackoff"} => m_socket = INVALID_SOCKET
  /\ cstate = "CONNECTING" =>
       /\ pc \in {"loop", "select", "examine", "adopted", "setBackoff"}
       /\ m_socket # INVALID_SOCKET => pc = "adopted"
  /\ cstate = "AUTHENTICATING" => pc \in {"loop", "recv"}
  /\ pc = "getaddrinfo" => m_addresses = <<>> /\ m_address_current = 0
  /\ wpc # "close" => held = INVALID_SOCKET

Flags == stopped \in BOOLEAN /\ outlived \in BOOLEAN

(* The connection is still there, although the read thread is done with    *)
(* it: the write thread has found the error, and is about to close it.     *)
LeftToWriter ==
  m_socket # INVALID_SOCKET /\ (pc = "sleep" \/ (pc \in {"loop", "recv"} /\ cstate \in {"SOCKET_ERROR", "BACKOFF", "RESOLVING"}))
    => wpc \in {"error", "close", "clear"}

(* Until the write thread outlives a connection, it is idle while the read *)
(* thread looks for one; attempts are pending only in connectToAny(),      *)
(* unless STOP ended it.                                                   *)
InTime ==
  ~outlived =>
    /\ Busy => pc \in {"loop", "sleep", "recv", "close", "clear", "stop", "done"} /\ cstate # "CONNECTING" /\ m_sockets = <<>>
    /\ m_sockets # <<>> => cstate \in Attempting /\ pc \in {"loop", "select", "examine", "done", "gone"}
    /\ pc \in {"select", "examine", "adopted"} => cstate \in Attempting
    /\ pc = "adopted" => m_socket # INVALID_SOCKET
    /\ LeftToWriter
    /\ wpc = "close" => m_socket \in {held, INVALID_SOCKET}

(* What is known of the sockets, whoever closes them                       *)
Open ==
  /\ m_sockets \in Seq(Nat) /\ DOMAIN m_socket_to_address = ToSet(m_sockets)
  /\ m_socket \in Nat \cup {INVALID_SOCKET} /\ held \in Nat \cup {INVALID_SOCKET}
  /\ IsFiniteSet(DOMAIN fds) /\ DOMAIN fds \subseteq Nat
  /\ \A s \in DOMAIN fds : fds[s] \in {"pending", "connected", "failed"}
  /\ pc # "examine" => writable = {}
  /\ writable \subseteq ToSet(m_sockets) /\ \A s \in writable \cap DOMAIN fds : fds[s] # "pending"
  /\ AdoptedIsConnected

(* Who owns the open descriptors: a thread that has yet to clear m_socket  *)
(* has closed it.                                                          *)
Owned ==
  /\ DescriptorsOwned
  /\ ~outlived /\ (pc \in {"clear", "stop"} \/ wpc = "clear") => m_socket \notin DOMAIN fds

(* The addresses to try *)
Listed ==
  /\ m_host_resolved \in Lookups \cup {<<>>}
  /\ m_addresses \in Seq(Nat) /\ m_address_current \in 0 .. Len(m_addresses)
  /\ AddressOrder

(* An address that accepts and was tried has an attempt that may succeed.  *)
Tried ==
  /\ AddressesAlive /\ ReachableIsFound
  /\ ~outlived => \A i \in 1 .. m_address_current : m_addresses[i] \in accepting =>
       \E s \in ToSet(m_sockets) : m_socket_to_address[s] = m_addresses[i] /\ fds[s] # "failed"

(* How long the next sleep is *)
Paced == m_backoff \in Nat /\ (m_backoff =< Backoff \/ m_backoff =< BackoffMax)

ConnectorInv == Phase /\ Flags /\ InTime /\ Open /\ Owned /\ Listed /\ Tried /\ Paced

(* The first states.                                                       *)
LEMMA ConnectorInitInv == ConnectorInit => ConnectorInv
<1> SUFFICES ASSUME ConnectorInit PROVE ConnectorInv
  OBVIOUS
<1> USE DEF ConnectorInit, NoSockets
<1>1. Phase /\ InTime
  BY DEF Phase, InTime, LeftToWriter, Busy
<1>2. DOMAIN fds = {} /\ ToSet(m_sockets) = {} /\ m_sockets \in Seq(Nat) /\ DOMAIN m_socket_to_address = {}
  BY EmptySeq DEF ToSet
<1>3. Open
  <2>1. IsFiniteSet(DOMAIN fds)
    BY <1>2, FS_EmptySet
  <2> QED
    BY <1>2, <2>1 DEF Open, AdoptedIsConnected
<1>4. Owned
  BY <1>2 DEF Owned, DescriptorsOwned, IsInjective
<1>5. Listed
  BY EmptySeq DEF Listed, AddressOrder
<1>6. Tried
  BY <1>2 DEF Tried, AddressesAlive, AttemptsHaveAddress, ReachableIsFound
<1>7. Flags
  BY Zenon DEF Flags
<1>8. Paced
  BY DEF Paced
<1> QED
  BY <1>1, <1>3, <1>4, <1>5, <1>6, <1>7, <1>8 DEF ConnectorInv

(* The variables that few steps change.                                    *)
LEMMA StepFrames ==
  ASSUME [ConnectorNext]_connectorVars
  PROVE  /\ UNCHANGED m_backoff \/ m_backoff' = Backoff \/ m_backoff' = NextBackoff
         /\ UNCHANGED stopped \/ stopped' = TRUE
         /\ UNCHANGED outlived \/ (Resolve /\ outlived' = (outlived \/ Busy))
<1> USE DEF connectorVars, writeVars, Stop, Resolve, LookupFails, Resolved, SetBackoff, Sleep, WakeUp, FirstAttempt,
            NoAddressLeft, Select, SelectAborted, StillWaiting, NextAttempt, AttemptsTimeOut, SelectTimesOut,
            SelectReturns, RemoveFailed, Adopt, LostReported, Authenticate, Network, ReadMoves, Recv, RecvDone,
            SetConnected, SocketError, StopSkips, StopCloses, ReadSkips, ReadCloses, ReadClears, StopClears,
            Destroyed, WriteMoves, WriteBegins, WriteDone, WriteFails, WriteSkips, WriteTakes, WriteCloses,
            WriteClears, WriteEnds
<1> USE DEF ConnectorNext, RoundStep, Lookup, SelectStep, Examine, NetworkStep, EndStep
<1>1. UNCHANGED m_backoff \/ m_backoff' = Backoff \/ m_backoff' = NextBackoff
  OBVIOUS
<1>2. UNCHANGED stopped \/ stopped' = TRUE
  BY Zenon
<1>3. UNCHANGED outlived \/ (Resolve /\ outlived' = (outlived \/ Busy))
  BY Zenon
<1> QED
  BY <1>1, <1>2, <1>3, Zenon

(* The write thread has not outlived a connection unless it had, and does  *)
(* not do so when it is idle.                                              *)
LEMMA OutlivedStays ==
  ASSUME [ConnectorNext]_connectorVars, ~outlived'
  PROVE  ~outlived /\ (Resolve => ~Busy)
<1>1. UNCHANGED outlived \/ Resolve
  BY StepFrames, Zenon
<1>2. Resolve => ~outlived /\ ~Busy
  BY Zenon DEF Resolve
<1>3. UNCHANGED outlived => ~outlived
  OBVIOUS
<1> QED
  BY <1>1, <1>2, <1>3, Zenon

(* The backoff after a sleep, and after a connection.                      *)
LEMMA NextPaced == ConnectorInv /\ [ConnectorNext]_connectorVars => Paced' /\ Flags'
<1> SUFFICES ASSUME ConnectorInv, [ConnectorNext]_connectorVars PROVE Paced' /\ Flags'
  OBVIOUS
<1>1. Paced /\ Flags
  BY DEF ConnectorInv
<1>2. Paced'
  <2>1. UNCHANGED m_backoff \/ m_backoff' = Backoff \/ m_backoff' = NextBackoff
    BY StepFrames, Zenon
  <2> QED
    BY <1>1, <2>1 DEF Paced, NextBackoff
<1>3. Flags'
  BY <1>1, StepFrames, Zenon DEF Flags
<1> QED
  BY <1>2, <1>3

(* The socket that Adopt takes was writable; if it is still open, it is    *)
(* connected.                                                              *)
LEMMA UsableHead ==
  ASSUME Open, NEW garbage, Usable(garbage) # <<>>
  PROVE  /\ Head(Usable(garbage)) \in writable /\ Head(Usable(garbage)) \in ToSet(m_sockets)
         /\ Head(Usable(garbage)) \in Nat
         /\ Head(Usable(garbage)) \in DOMAIN fds => fds[Head(Usable(garbage))] = "connected"
<1> DEFINE u == Usable(garbage)
           S == writable \ Failed(garbage)
<1>1. m_sockets \in Seq(Nat)
  BY DEF Open
<1>2. u = OnlyIn(m_sockets, S) /\ u # <<>>
  BY DEF Usable
<1> HIDE DEF u, S
<1>3. u \in Seq(Nat) /\ ToSet(u) = ToSet(m_sockets) \cap S
  BY <1>1, <1>2, OnlyInSet
<1>4. Head(u) \in ToSet(u) /\ Head(u) \in Nat
  <2>1. Len(u) \in Nat /\ Len(u) # 0 /\ DOMAIN u = 1 .. Len(u)
    BY <1>2, <1>3, LenProperties, EmptySeq
  <2>2. Head(u) = u[1] /\ 1 \in DOMAIN u /\ Head(u) \in Nat
    BY <1>2, <1>3, <2>1, HeadTailProperties
  <2> QED
    BY <2>2 DEF ToSet
<1> DEFINE h == Head(u)
<1>5. h \in ToSet(m_sockets) /\ h \in writable /\ h \notin Failed(garbage) /\ h \in Nat
  BY <1>3, <1>4 DEF S
<1> HIDE DEF h
<1>6. h \in DOMAIN fds => fds[h] = "connected"
  BY <1>5 DEF Open, Failed
<1> QED
  BY <1>5, <1>6 DEF h, u

(* Every step of the control.                                              *)
LEMMA NextPhase == ConnectorInv /\ [ConnectorNext]_connectorVars => Phase'
<1> SUFFICES ASSUME ConnectorInv, [ConnectorNext]_connectorVars PROVE Phase'
  OBVIOUS
<1>1. Phase /\ Open
  BY DEF ConnectorInv
<1> USE DEF Phase, In, socketVars, addressVars, writeVars
<1>2. CASE Stop \/ UNCHANGED connectorVars \/ NetworkStep
  BY <1>1, <1>2 DEF Stop, connectorVars, NetworkStep, Network
<1>3. CASE Resolve
  BY <1>1, <1>3 DEF Resolve
<1>4. CASE Lookup
  BY <1>1, <1>4 DEF Lookup, LookupFails, Resolved
<1>5. CASE SetBackoff \/ Sleep \/ WakeUp
  BY <1>1, <1>5 DEF SetBackoff, Sleep, WakeUp
<1>6. CASE FirstAttempt \/ NextAttempt
  BY <1>1, <1>6 DEF FirstAttempt, NextAttempt, SelectTimesOut, Selectable, TryNextAddress
<1>7. CASE NoAddressLeft \/ Select \/ SelectAborted
  BY <1>1, <1>7 DEF NoAddressLeft, Select, SelectAborted
<1>8. CASE StillWaiting \/ AttemptsTimeOut \/ SelectReturns
  BY <1>1, <1>8 DEF StillWaiting, AttemptsTimeOut, SelectReturns, SelectTimesOut, Selectable
<1>9. ASSUME NEW garbage, RemoveFailed(garbage) PROVE Phase'
  BY <1>1, <1>9 DEF RemoveFailed
<1>10. ASSUME NEW garbage, Adopt(garbage) PROVE Phase'
  BY <1>1, <1>10 DEF Adopt
<1>11. CASE Authenticate
  BY <1>1, <1>11 DEF Authenticate
<1>12. CASE Recv \/ RecvDone \/ SetConnected \/ SocketError
  BY <1>1, <1>12 DEF Recv, RecvDone, SetConnected, SocketError, ReadMoves
<1>13. CASE ReadSkips \/ ReadCloses \/ ReadClears \/ LostReported
  BY <1>1, <1>13 DEF ReadSkips, ReadCloses, ReadClears, LostReported, ReadMoves
<1>14. CASE StopSkips \/ StopCloses \/ StopClears \/ Destroyed
  BY <1>1, <1>14 DEF StopSkips, StopCloses, StopClears, Destroyed, ReadMoves
<1>15. CASE WriteBegins \/ WriteDone \/ WriteFails \/ WriteEnds
  BY <1>1, <1>15 DEF WriteBegins, WriteDone, WriteFails, WriteEnds, WriteMoves
<1>16. CASE WriteSkips \/ WriteTakes \/ WriteCloses \/ WriteClears
  BY <1>1, <1>16 DEF WriteSkips, WriteTakes, WriteCloses, WriteClears, WriteMoves
<1> QED
  BY <1>2, <1>3, <1>4, <1>5, <1>6, <1>7, <1>8, <1>9, <1>10, <1>11, <1>12, <1>13, <1>14, <1>15, <1>16
  DEF ConnectorNext, RoundStep, SelectStep, Examine, EndStep

(* Every step before the write thread outlives a connection.               *)
LEMMA NextInTime == ConnectorInv /\ [ConnectorNext]_connectorVars => InTime'
<1> SUFFICES ASSUME ConnectorInv, [ConnectorNext]_connectorVars, ~outlived' PROVE InTime'
  BY DEF InTime
<1> DEFINE T == /\ Busy => pc \in {"loop", "sleep", "recv", "close", "clear", "stop", "done"} /\ cstate # "CONNECTING" /\ m_sockets = <<>>
                /\ m_sockets # <<>> => cstate \in Attempting /\ pc \in {"loop", "select", "examine", "done", "gone"}
                /\ pc \in {"select", "examine", "adopted"} => cstate \in Attempting
                /\ pc = "adopted" => m_socket # INVALID_SOCKET
                /\ LeftToWriter
                /\ wpc = "close" => m_socket \in {held, INVALID_SOCKET}
<1>a. T /\ ~outlived /\ (Resolve => ~Busy)
  BY OutlivedStays DEF ConnectorInv, InTime
<1>b. SUFFICES T'
  BY DEF InTime
<1>1. Phase /\ T /\ Open
  BY <1>a DEF ConnectorInv
<1> USE DEF Phase, In, socketVars, addressVars, writeVars, Attempting, Busy, LeftToWriter
<1>2. CASE Stop \/ UNCHANGED connectorVars \/ NetworkStep
  BY <1>1, <1>2 DEF Stop, connectorVars, NetworkStep, Network
<1>3. CASE Resolve
  BY <1>1, <1>a, <1>3 DEF Resolve
<1>4. CASE Lookup
  BY <1>1, <1>4 DEF Lookup, LookupFails, Resolved
<1>5. CASE SetBackoff \/ Sleep \/ WakeUp
  BY <1>1, <1>5 DEF SetBackoff, Sleep, WakeUp
<1>6. CASE FirstAttempt \/ NextAttempt
  BY <1>1, <1>6 DEF FirstAttempt, NextAttempt, SelectTimesOut, Selectable, TryNextAddress
<1>7. CASE NoAddressLeft \/ Select \/ SelectAborted
  BY <1>1, <1>7 DEF NoAddressLeft, Select, SelectAborted
<1>8. CASE StillWaiting \/ AttemptsTimeOut \/ SelectReturns
  BY <1>1, <1>8 DEF StillWaiting, AttemptsTimeOut, SelectReturns, SelectTimesOut, Selectable
<1>9. ASSUME NEW garbage, RemoveFailed(garbage) PROVE T'
  BY <1>1, <1>9 DEF RemoveFailed
<1>10. ASSUME NEW garbage, Adopt(garbage) PROVE T'
  <2>1. m_socket' # INVALID_SOCKET
    BY <1>1, <1>10, UsableHead DEF Adopt, INVALID_SOCKET
  <2> QED
    BY <1>1, <1>10, <2>1 DEF Adopt
<1>11. CASE Authenticate
  BY <1>1, <1>11 DEF Authenticate
<1>12. CASE Recv \/ RecvDone \/ SetConnected \/ SocketError
  BY <1>1, <1>12 DEF Recv, RecvDone, SetConnected, SocketError, ReadMoves
<1>13. CASE ReadSkips \/ ReadCloses \/ ReadClears \/ LostReported
  BY <1>1, <1>13 DEF ReadSkips, ReadCloses, ReadClears, LostReported, ReadMoves
<1>14. CASE StopSkips \/ StopCloses \/ StopClears \/ Destroyed
  BY <1>1, <1>14 DEF StopSkips, StopCloses, StopClears, Destroyed, ReadMoves
<1>15. CASE WriteBegins \/ WriteDone \/ WriteFails \/ WriteEnds
  BY <1>1, <1>15 DEF WriteBegins, WriteDone, WriteFails, WriteEnds, WriteMoves
<1>16. CASE WriteSkips \/ WriteTakes \/ WriteCloses \/ WriteClears
  BY <1>1, <1>16 DEF WriteSkips, WriteTakes, WriteCloses, WriteClears, WriteMoves
<1> HIDE DEF T
<1> QED
  BY <1>2, <1>3, <1>4, <1>5, <1>6, <1>7, <1>8, <1>9, <1>10, <1>11, <1>12, <1>13, <1>14, <1>15, <1>16
  DEF ConnectorNext, RoundStep, SelectStep, Examine, EndStep

(* Sockets are only closed, or forgotten.                                  *)
LEMMA OpenKept ==
  ASSUME Open, pc' = pc \/ pc # "examine", pc' = "examine" => pc = "examine",
         UNCHANGED <<m_sockets, writable>>, DOMAIN m_socket_to_address' = DOMAIN m_socket_to_address,
         m_socket' \in {m_socket, INVALID_SOCKET}, held' \in {held, m_socket, INVALID_SOCKET},
         DOMAIN fds' \subseteq DOMAIN fds, \A d \in DOMAIN fds' : fds'[d] = fds[d]
  PROVE  Open'
<1>1. IsFiniteSet(DOMAIN fds')
  BY FS_Subset DEF Open
<1>2. INVALID_SOCKET \notin DOMAIN fds'
  BY DEF Open, INVALID_SOCKET
<1>3. AdoptedIsConnected'
  BY <1>2 DEF Open, AdoptedIsConnected
<1> QED
  BY <1>1, <1>3 DEF Open

(* What closing the sockets S leaves                                       *)
LEMMA Closed ==
  ASSUME NEW S, CloseSockets(S)
  PROVE  DOMAIN fds' = DOMAIN fds \ S /\ \A d \in DOMAIN fds' : fds'[d] = fds[d]
BY DEF CloseSockets, Restrict

(* An attempt that is pending has a new descriptor.                        *)
LEMMA OpenOpened ==
  ASSUME Open, m_socket = INVALID_SOCKET, pc # "examine", pc' # "examine",
         m_sockets' = Append(m_sockets, Fresh), fds' = With(fds, Fresh, "pending"), NEW a,
         m_socket_to_address' = With(m_socket_to_address, Fresh, a),
         UNCHANGED <<writable, m_socket, held>>
  PROVE  /\ Open' /\ Fresh \in Nat \ DOMAIN fds
         /\ ToSet(m_sockets') = ToSet(m_sockets) \cup {Fresh}
         /\ IsInjective(m_sockets) /\ Fresh \notin ToSet(m_sockets) => IsInjective(m_sockets')
         /\ DOMAIN fds' = DOMAIN fds \cup {Fresh} /\ fds'[Fresh] = "pending"
         /\ \A d \in DOMAIN fds : fds'[d] = fds[d]
<1> DEFINE n == Fresh
<1>1. n \in Nat \ DOMAIN fds
  BY FreshIsNew DEF Open
<1>2. /\ m_sockets' = Append(m_sockets, n) /\ fds' = With(fds, n, "pending")
      /\ m_socket_to_address' = With(m_socket_to_address, n, a)
  OBVIOUS
<1> HIDE DEF n
<1>3. DOMAIN fds' = DOMAIN fds \cup {n} /\ fds'[n] = "pending" /\ \A d \in DOMAIN fds : fds'[d] = fds[d]
  BY <1>1, <1>2 DEF With
<1>4. DOMAIN m_socket_to_address' = ToSet(m_sockets) \cup {n}
  BY <1>2 DEF With, Open
<1>5. /\ m_sockets' \in Seq(Nat) /\ ToSet(m_sockets') = ToSet(m_sockets) \cup {n}
      /\ IsInjective(m_sockets) /\ n \notin ToSet(m_sockets) => IsInjective(m_sockets')
  <2> DEFINE r == Append(m_sockets, n)
  <2>1. m_sockets \in Seq(Nat) /\ Nat \cup {n} = Nat
    BY <1>1 DEF Open
  <2>2. r \in Seq(Nat \cup {n}) /\ ToSet(r) = ToSet(m_sockets) \cup {n}
        /\ (IsInjective(m_sockets) /\ n \notin ToSet(m_sockets) => IsInjective(r))
    BY <2>1, AppendSet
  <2>3. m_sockets' = r
    BY <1>2
  <2> HIDE DEF r
  <2> QED
    BY <2>1, <2>2, <2>3
<1>6. IsFiniteSet(DOMAIN fds')
  BY <1>3, FS_AddElement DEF Open
<1>7. AdoptedIsConnected'
  BY <1>1, <1>3 DEF Open, AdoptedIsConnected, INVALID_SOCKET
<1>8. writable = {} /\ writable' = {}
  BY DEF Open
<1>9. Open'
  BY <1>1, <1>3, <1>4, <1>5, <1>6, <1>7, <1>8 DEF Open
<1> QED
  BY <1>1, <1>3, <1>5, <1>9 DEF n

(* The steps that neither open an attempt nor look at the ones there are   *)
Passive ==
  \/ Stop \/ Resolve \/ Lookup \/ SetBackoff \/ Sleep \/ WakeUp
  \/ NoAddressLeft \/ Select \/ SelectAborted \/ StillWaiting \/ Authenticate
  \/ Recv \/ RecvDone \/ SetConnected \/ SocketError
  \/ ReadSkips \/ ReadCloses \/ ReadClears \/ LostReported
  \/ StopSkips \/ StopCloses \/ StopClears \/ Destroyed
  \/ WriteBegins \/ WriteDone \/ WriteFails \/ WriteEnds
  \/ WriteSkips \/ WriteTakes \/ WriteCloses \/ WriteClears
  \/ UNCHANGED connectorVars

(* They keep the pending attempts, and may close a socket.                 *)
LEMMA PassiveKeeps ==
  ASSUME Passive, Phase
  PROVE  /\ UNCHANGED <<m_sockets, writable>>
         /\ UNCHANGED m_socket_to_address \/ Resolve
         /\ m_socket' \in {m_socket, INVALID_SOCKET} /\ held' \in {held, m_socket, INVALID_SOCKET}
         /\ UNCHANGED fds \/ (CloseSockets({m_socket}) /\ m_socket # INVALID_SOCKET) \/ (CloseSockets({held}) /\ wpc = "close")
         /\ pc' = pc \/ pc # "examine"
         /\ pc' = "examine" => pc = "examine"
<1> USE DEF In, socketVars, writeVars
<1>1. CASE Stop \/ UNCHANGED connectorVars
  BY <1>1 DEF Stop, connectorVars
<1>2. CASE Resolve \/ Lookup
  BY <1>2 DEF Resolve, Lookup, LookupFails, Resolved
<1>3. CASE SetBackoff \/ Sleep \/ WakeUp \/ Authenticate
  BY <1>3 DEF SetBackoff, Sleep, WakeUp, Authenticate
<1>4. CASE NoAddressLeft \/ Select \/ SelectAborted \/ StillWaiting
  BY <1>4 DEF NoAddressLeft, Select, SelectAborted, StillWaiting, SelectTimesOut, Selectable
<1>5. CASE Recv \/ RecvDone \/ SetConnected \/ SocketError
  BY <1>5 DEF Recv, RecvDone, SetConnected, SocketError, ReadMoves
<1>6. CASE ReadSkips \/ ReadCloses \/ ReadClears \/ LostReported
  BY <1>6 DEF ReadSkips, ReadCloses, ReadClears, LostReported, ReadMoves
<1>7. CASE StopSkips \/ StopCloses \/ StopClears \/ Destroyed
  BY <1>7 DEF StopSkips, StopCloses, StopClears, Destroyed, ReadMoves
<1>8. CASE WriteBegins \/ WriteDone \/ WriteFails \/ WriteEnds
  BY <1>8 DEF WriteBegins, WriteDone, WriteFails, WriteEnds, WriteMoves
<1>9. CASE WriteSkips \/ WriteTakes \/ WriteCloses \/ WriteClears
  BY <1>9 DEF WriteSkips, WriteTakes, WriteCloses, WriteClears, WriteMoves
<1> QED
  BY <1>1, <1>2, <1>3, <1>4, <1>5, <1>6, <1>7, <1>8, <1>9, Zenon DEF Passive

(* The other steps are about the attempts.                                 *)
LEMMA PassiveOrNot ==
  ASSUME [ConnectorNext]_connectorVars
  PROVE  \/ Passive \/ FirstAttempt \/ NextAttempt \/ AttemptsTimeOut \/ SelectReturns
         \/ Examine \/ NetworkStep
BY Zenon DEF ConnectorNext, RoundStep, SelectStep, EndStep, Passive

(* What RemoveFailed leaves                                                *)
LEMMA FailedRemoved ==
  ASSUME Open, NEW garbage, RemoveFailed(garbage)
  PROVE  /\ m_sockets' \in Seq(Nat) /\ ToSet(m_sockets') = ToSet(m_sockets) \ Failed(garbage)
         /\ IsInjective(m_sockets) => IsInjective(m_sockets')
         /\ DOMAIN m_socket_to_address' = ToSet(m_sockets')
         /\ \A s \in ToSet(m_sockets') : m_socket_to_address'[s] = m_socket_to_address[s]
         /\ DOMAIN fds' = DOMAIN fds \ Failed(garbage) /\ \A d \in DOMAIN fds' : fds'[d] = fds[d]
<1> DEFINE F == Failed(garbage)
           S == ToSet(m_sockets) \ F
<1>1. /\ CloseSockets(F) /\ m_sockets' = OnlyIn(m_sockets, S)
      /\ m_socket_to_address' = Restrict(m_socket_to_address, DOMAIN m_socket_to_address \ F)
  BY DEF RemoveFailed
<1>2. m_sockets \in Seq(Nat) /\ DOMAIN m_socket_to_address = ToSet(m_sockets)
  BY DEF Open
<1> HIDE DEF S, F
<1>3. /\ m_sockets' \in Seq(Nat) /\ ToSet(m_sockets') = ToSet(m_sockets) \cap S
      /\ IsInjective(m_sockets) => IsInjective(m_sockets')
  BY <1>1, <1>2, OnlyInSet
<1>4. ToSet(m_sockets') = ToSet(m_sockets) \ F
  BY <1>3 DEF S
<1>5. /\ DOMAIN m_socket_to_address' = ToSet(m_sockets')
      /\ \A s \in ToSet(m_sockets') : m_socket_to_address'[s] = m_socket_to_address[s]
  BY <1>1, <1>2, <1>4 DEF Restrict
<1>6. DOMAIN fds' = DOMAIN fds \ F /\ \A d \in DOMAIN fds' : fds'[d] = fds[d]
  BY <1>1, Closed
<1> QED
  BY <1>3, <1>4, <1>5, <1>6 DEF F

(* Every step of the sockets.                                              *)
LEMMA NextOpen == ConnectorInv /\ [ConnectorNext]_connectorVars => Open'
<1> SUFFICES ASSUME ConnectorInv, [ConnectorNext]_connectorVars PROVE Open'
  OBVIOUS
<1>1. Open /\ Phase
  BY DEF ConnectorInv
<1>2. CASE Passive
  <2>1. DOMAIN m_socket_to_address' = DOMAIN m_socket_to_address
    BY <1>1, <1>2, PassiveKeeps DEF Resolve
  <2>2. DOMAIN fds' \subseteq DOMAIN fds /\ \A d \in DOMAIN fds' : fds'[d] = fds[d]
    <3>1. \/ UNCHANGED fds \/ CloseSockets({m_socket}) \/ CloseSockets({held})
      BY <1>1, <1>2, PassiveKeeps
    <3> QED
      BY <3>1, Closed
  <2> QED
    BY <1>1, <1>2, <2>1, <2>2, PassiveKeeps, OpenKept
<1>3. CASE FirstAttempt \/ NextAttempt
  <2>1. /\ TryNextAddress /\ pc # "examine" /\ pc' # "examine" /\ UNCHANGED <<writable, m_socket, held>>
        /\ m_socket = INVALID_SOCKET
    BY <1>1, <1>3 DEF FirstAttempt, NextAttempt, SelectTimesOut, Selectable, In, writeVars, Phase
  <2>2. CASE UNCHANGED <<m_sockets, m_socket_to_address, fds>>
    BY <1>1, <2>1, <2>2, OpenKept
  <2>3. ASSUME NEW a, m_sockets' = Append(m_sockets, Fresh), fds' = With(fds, Fresh, "pending"),
               m_socket_to_address' = With(m_socket_to_address, Fresh, a)
        PROVE  Open'
    BY <1>1, <2>1, <2>3, OpenOpened
  <2> QED
    BY <2>1, <2>2, <2>3 DEF TryNextAddress
<1>4. CASE AttemptsTimeOut
  <2>1. /\ CloseSockets(ToSet(m_sockets)) /\ m_sockets' = <<>> /\ m_socket_to_address' = NoSockets
        /\ UNCHANGED <<writable, m_socket, held>> /\ pc = "select" /\ pc' # "examine"
    BY <1>4 DEF AttemptsTimeOut, SelectTimesOut, Selectable, writeVars
  <2>2. /\ m_sockets' \in Seq(Nat) /\ ToSet(m_sockets') = {} /\ DOMAIN m_socket_to_address' = {}
        /\ writable' = {}
    BY <1>1, <2>1, EmptySeq DEF ToSet, NoSockets, Open
  <2>3. DOMAIN fds' \subseteq DOMAIN fds /\ \A d \in DOMAIN fds' : fds'[d] = fds[d]
    BY <2>1, Closed
  <2>4. IsFiniteSet(DOMAIN fds')
    BY <1>1, <2>3, FS_Subset DEF Open
  <2> QED
    BY <1>1, <2>1, <2>2, <2>3, <2>4 DEF Open, AdoptedIsConnected
<1>5. CASE SelectReturns
  <2>1. /\ UNCHANGED <<m_sockets, m_socket_to_address, fds, m_socket, held>>
        /\ writable' = Ready /\ pc' = "examine" /\ ToSet(m_sockets) \subseteq DOMAIN fds
    BY <1>5 DEF SelectReturns, Selectable, writeVars
  <2>2. AdoptedIsConnected'
    BY <1>1, <2>1 DEF Open, AdoptedIsConnected
  <2> QED
    BY <1>1, <2>1, <2>2 DEF Open, Ready
<1>6. ASSUME NEW garbage, RemoveFailed(garbage) PROVE Open'
  <2>1. UNCHANGED <<m_socket, held>> /\ writable' = {}
    BY <1>6 DEF RemoveFailed, writeVars
  <2>2. /\ m_sockets' \in Seq(Nat) /\ DOMAIN m_socket_to_address' = ToSet(m_sockets')
        /\ DOMAIN fds' \subseteq DOMAIN fds /\ \A d \in DOMAIN fds' : fds'[d] = fds[d]
    BY <1>1, <1>6, FailedRemoved
  <2>3. IsFiniteSet(DOMAIN fds')
    BY <1>1, <2>2, FS_Subset DEF Open
  <2> QED
    BY <1>1, <2>1, <2>2, <2>3 DEF Open, AdoptedIsConnected
<1>7. ASSUME NEW garbage, Adopt(garbage) PROVE Open'
  <2> DEFINE h == Head(Usable(garbage))
  <2>1. /\ CloseSockets(ToSet(m_sockets) \ {h}) /\ m_sockets' = <<>> /\ m_socket_to_address' = NoSockets
        /\ writable' = {} /\ m_socket' = h /\ UNCHANGED held
    BY <1>7 DEF Adopt, writeVars
  <2>2. h \in Nat /\ (h \in DOMAIN fds => fds[h] = "connected")
    BY <1>1, <1>7, UsableHead DEF Adopt
  <2> HIDE DEF h
  <2>3. m_sockets' \in Seq(Nat) /\ ToSet(m_sockets') = {} /\ DOMAIN m_socket_to_address' = {}
    BY <2>1, EmptySeq DEF ToSet, NoSockets
  <2>4. DOMAIN fds' \subseteq DOMAIN fds /\ \A d \in DOMAIN fds' : fds'[d] = fds[d]
    BY <2>1, Closed
  <2>5. IsFiniteSet(DOMAIN fds')
    BY <1>1, <2>4, FS_Subset DEF Open
  <2> QED
    BY <1>1, <2>1, <2>2, <2>3, <2>4, <2>5 DEF Open, AdoptedIsConnected
<1>8. ASSUME NEW s \in ToSet(m_sockets), NEW outcome \in {"connected", "failed"}, Network(s, outcome)
      PROVE  Open'
  <2>1. /\ s \in DOMAIN fds /\ fds' = [fds EXCEPT ![s] = outcome]
        /\ UNCHANGED <<m_sockets, m_socket_to_address, m_socket, held, writable, pc>>
    BY <1>8 DEF Network, writeVars
  <2>2. DOMAIN fds' = DOMAIN fds /\ \A d \in DOMAIN fds : fds'[d] = IF d = s THEN outcome ELSE fds[d]
    BY <2>1
  <2>3. m_socket = INVALID_SOCKET
    <3>1. m_sockets # <<>>
      BY DEF ToSet
    <3> QED
      BY <1>1, <3>1 DEF Phase
  <2>4. AdoptedIsConnected'
    BY <1>1, <2>1, <2>2, <2>3 DEF Open, AdoptedIsConnected, INVALID_SOCKET
  <2> QED
    BY <1>1, <2>1, <2>2, <2>4 DEF Open
<1> QED
  BY <1>2, <1>3, <1>4, <1>5, <1>6, <1>7, <1>8, PassiveOrNot DEF Examine, NetworkStep

(* A step in time leaves no attempt pending while the write thread works.  *)
LEMMA InTimeFacts ==
  ASSUME ConnectorInv, ~outlived
  PROVE  /\ ToSet(m_sockets) \subseteq DOMAIN fds /\ DOMAIN fds \subseteq ToSet(m_sockets) \cup {m_socket}
         /\ m_socket \notin DOMAIN fds =>
              m_socket = INVALID_SOCKET \/ pc \in {"clear", "stop"} \/ wpc = "clear"
         /\ IsInjective(m_sockets) /\ INVALID_SOCKET \notin DOMAIN fds
         /\ m_socket # INVALID_SOCKET \/ Busy \/ pc \notin {"loop", "select", "examine", "done", "gone"} =>
              ToSet(m_sockets) = {} /\ m_sockets = <<>>
         /\ pc \in {"clear", "stop"} \/ wpc = "clear" => m_socket \notin DOMAIN fds
<1>1. Owned /\ Open /\ InTime /\ Phase
  BY DEF ConnectorInv
<1>2. DescriptorsOwned
  BY <1>1 DEF Owned
<1>3. INVALID_SOCKET \notin DOMAIN fds
  BY <1>1 DEF Open, INVALID_SOCKET
<1>4. m_sockets = <<>> => ToSet(m_sockets) = {}
  BY DEF ToSet
<1>5. m_socket # INVALID_SOCKET \/ Busy \/ pc \notin {"loop", "select", "examine", "done", "gone"} => m_sockets = <<>>
  BY <1>1 DEF InTime, Phase
<1> QED
  BY <1>1, <1>2, <1>3, <1>4, <1>5 DEF Owned, DescriptorsOwned

(* The owners after a step, from what it does to them                      *)
LEMMA OwnedBy ==
  ASSUME ~outlived' =>
           /\ ToSet(m_sockets') \subseteq DOMAIN fds'
           /\ DOMAIN fds' \subseteq ToSet(m_sockets') \cup {m_socket'}
           /\ m_socket' \notin ToSet(m_sockets')
           /\ IsInjective(m_sockets')
           /\ m_socket' \notin DOMAIN fds' =>
                m_socket' = INVALID_SOCKET \/ pc' \in {"clear", "stop"} \/ wpc' = "clear"
           /\ held' \notin ToSet(m_sockets')
           /\ (pc' \in {"clear", "stop"} \/ wpc' = "clear" => m_socket' \notin DOMAIN fds')
  PROVE  Owned'
BY DEF Owned, DescriptorsOwned

(* Every step of the owners.                                               *)
LEMMA NextOwned == ConnectorInv /\ [ConnectorNext]_connectorVars => Owned'
<1> SUFFICES ASSUME ConnectorInv, [ConnectorNext]_connectorVars, ~outlived' PROVE Owned'
  BY OwnedBy
<1>a. ~outlived /\ (Resolve => ~Busy)
  BY OutlivedStays
<1>b. Open' /\ Phase' /\ InTime'
  BY NextOpen, NextPhase, NextInTime
<1>c. /\ m_socket' \notin ToSet(m_sockets') /\ held' \notin ToSet(m_sockets') /\ INVALID_SOCKET \notin DOMAIN fds'
  <2>1. m_sockets' = <<>> => ToSet(m_sockets') = {}
    BY DEF ToSet
  <2>2. INVALID_SOCKET \notin ToSet(m_sockets') /\ INVALID_SOCKET \notin DOMAIN fds'
    <3>1. m_sockets' \in Seq(Nat) /\ DOMAIN fds' \subseteq Nat
      BY <1>b DEF Open
    <3>2. DOMAIN m_sockets' = 1 .. Len(m_sockets') /\ \A i \in 1 .. Len(m_sockets') : m_sockets'[i] \in Nat
      BY <3>1, LenProperties, ElementOfSeq
    <3> QED
      BY <3>1, <3>2 DEF ToSet, INVALID_SOCKET
  <2>3. m_socket' # INVALID_SOCKET => m_sockets' = <<>>
    BY <1>b DEF Phase
  <2>4. held' # INVALID_SOCKET => m_sockets' = <<>>
    BY <1>b DEF Phase, InTime, Busy
  <2> QED
    BY <2>1, <2>2, <2>3, <2>4
<1>1. Owned /\ Open /\ Phase /\ InTime
  BY DEF ConnectorInv
<1>d. ASSUME UNCHANGED m_sockets, IsInjective(m_sockets'),
             DOMAIN fds' = DOMAIN fds, ToSet(m_sockets') \subseteq DOMAIN fds',
             m_socket' = m_socket,
             pc' \in {"clear", "stop"} => pc \in {"clear", "stop"},
             pc \in {"clear", "stop"} => pc' = pc,
             wpc' = "clear" <=> wpc = "clear"
      PROVE  Owned'
  BY <1>a, <1>c, <1>d, InTimeFacts, OwnedBy
<1>2. CASE Passive
  <2>1. UNCHANGED m_sockets /\ IsInjective(m_sockets')
    BY <1>1, <1>a, <1>2, PassiveKeeps, InTimeFacts
  <2>2. CASE Resolve
    <3>1. /\ pc = "loop" /\ pc' = "getaddrinfo" /\ m_socket' = INVALID_SOCKET /\ cstate = "RESOLVING"
          /\ UNCHANGED <<fds, wpc>> /\ ~Busy
      BY <1>a, <2>2 DEF Resolve, In
    <3>2. m_socket = INVALID_SOCKET
      BY <1>1, <1>a, <3>1 DEF InTime, LeftToWriter, Busy
    <3> QED
      BY <1>a, <1>c, <2>1, <3>1, <3>2, InTimeFacts, OwnedBy DEF Busy
  <2>3. CASE ReadCloses \/ StopCloses
    <3>1. CloseSockets({m_socket}) /\ m_socket # INVALID_SOCKET /\ pc' \in {"clear", "stop"} /\ UNCHANGED <<m_socket, wpc>>
      BY <2>3 DEF ReadCloses, StopCloses, ReadMoves, writeVars
    <3>2. DOMAIN fds' = DOMAIN fds \ {m_socket}
      BY <3>1, Closed
    <3> QED
      BY <1>a, <1>c, <2>1, <3>1, <3>2, InTimeFacts, OwnedBy
  <2>4. CASE WriteCloses
    <3>1. CloseSockets({held}) /\ wpc = "close" /\ wpc' = "clear" /\ UNCHANGED <<m_socket, pc>>
      BY <2>4 DEF WriteCloses, WriteMoves
    <3>2. DOMAIN fds' = DOMAIN fds \ {held}
      BY <3>1, Closed
    <3>3. m_socket \in {held, INVALID_SOCKET}
      BY <1>1, <1>a, <3>1 DEF InTime
    <3> QED
      BY <1>a, <1>c, <2>1, <3>1, <3>2, <3>3, InTimeFacts, OwnedBy DEF Busy
  <2>5. CASE ReadClears \/ StopClears \/ WriteClears
    <3>1. /\ m_socket' = INVALID_SOCKET /\ UNCHANGED fds
          /\ pc \in {"clear", "stop"} \/ wpc = "clear"
      BY <2>5 DEF ReadClears, StopClears, WriteClears, ReadMoves, WriteMoves
    <3> QED
      BY <1>a, <1>c, <2>1, <3>1, InTimeFacts, OwnedBy
  <2> USE DEF In, socketVars, writeVars
  <2>6. CASE Stop \/ UNCHANGED connectorVars \/ Lookup
    BY <1>a, <1>d, <2>1, <2>6, InTimeFacts DEF Stop, connectorVars, Lookup, LookupFails, Resolved
  <2>7. CASE SetBackoff \/ Sleep \/ WakeUp \/ Authenticate
    BY <1>a, <1>d, <2>1, <2>7, InTimeFacts DEF SetBackoff, Sleep, WakeUp, Authenticate
  <2>8. CASE NoAddressLeft \/ Select \/ SelectAborted \/ StillWaiting
    BY <1>a, <1>d, <2>1, <2>8, InTimeFacts DEF NoAddressLeft, Select, SelectAborted, StillWaiting, SelectTimesOut, Selectable
  <2>9. CASE Recv \/ RecvDone \/ SetConnected \/ SocketError \/ ReadSkips \/ LostReported
    BY <1>a, <1>d, <2>1, <2>9, InTimeFacts
    DEF Recv, RecvDone, SetConnected, SocketError, ReadSkips, LostReported, ReadMoves
  <2>10. CASE StopSkips \/ Destroyed
    BY <1>a, <1>d, <2>1, <2>10, InTimeFacts DEF StopSkips, Destroyed, ReadMoves
  <2>11. CASE WriteBegins \/ WriteDone \/ WriteFails \/ WriteEnds \/ WriteSkips \/ WriteTakes
    BY <1>a, <1>d, <2>1, <2>11, InTimeFacts
    DEF WriteBegins, WriteDone, WriteFails, WriteEnds, WriteSkips, WriteTakes, WriteMoves
  <2> QED
    BY <1>2, <2>2, <2>3, <2>4, <2>5, <2>6, <2>7, <2>8, <2>9, <2>10, <2>11, Zenon DEF Passive
<1>3. CASE FirstAttempt \/ NextAttempt
  <2>1. /\ TryNextAddress /\ pc \in {"loop", "select"} /\ pc' = "loop" /\ UNCHANGED <<writable, m_socket, held, wpc>>
        /\ m_socket = INVALID_SOCKET
    BY <1>1, <1>3 DEF FirstAttempt, NextAttempt, SelectTimesOut, Selectable, In, writeVars, Phase
  <2>2. CASE UNCHANGED <<m_sockets, m_socket_to_address, fds>>
    BY <1>a, <1>d, <2>1, <2>2, InTimeFacts
  <2>3. ASSUME NEW a, m_sockets' = Append(m_sockets, Fresh), fds' = With(fds, Fresh, "pending"),
               m_socket_to_address' = With(m_socket_to_address, Fresh, a)
        PROVE  Owned'
    <3>1. /\ Fresh \notin DOMAIN fds /\ ToSet(m_sockets') = ToSet(m_sockets) \cup {Fresh}
          /\ IsInjective(m_sockets) /\ Fresh \notin ToSet(m_sockets) => IsInjective(m_sockets')
          /\ DOMAIN fds' = DOMAIN fds \cup {Fresh}
      BY <1>1, <2>1, <2>3, OpenOpened
    <3> QED
      BY <1>a, <1>c, <2>1, <3>1, InTimeFacts, OwnedBy
  <2> QED
    BY <2>1, <2>2, <2>3 DEF TryNextAddress
<1>4. CASE AttemptsTimeOut
  <2>1. /\ CloseSockets(ToSet(m_sockets)) /\ m_sockets' = <<>> /\ UNCHANGED <<m_socket, wpc>>
        /\ pc = "select" /\ pc' = "setBackoff"
    BY <1>4 DEF AttemptsTimeOut, SelectTimesOut, Selectable, writeVars
  <2>2. ToSet(m_sockets') = {} /\ IsInjective(m_sockets')
    BY <2>1, EmptySeq DEF ToSet, IsInjective
  <2>3. DOMAIN fds' = DOMAIN fds \ ToSet(m_sockets)
    BY <2>1, Closed
  <2>4. m_socket = INVALID_SOCKET /\ wpc # "clear"
    BY <1>1, <1>a, <2>1 DEF Phase, InTime, Busy
  <2> QED
    BY <1>a, <1>c, <2>1, <2>2, <2>3, <2>4, InTimeFacts, OwnedBy
<1>5. CASE SelectReturns
  BY <1>a, <1>d, <1>5, InTimeFacts DEF SelectReturns, Selectable, writeVars
<1>6. ASSUME NEW garbage, RemoveFailed(garbage) PROVE Owned'
  <2>1. UNCHANGED <<m_socket, wpc>> /\ pc = "examine" /\ pc' = "loop"
    BY <1>6 DEF RemoveFailed, writeVars
  <2>2. /\ ToSet(m_sockets') = ToSet(m_sockets) \ Failed(garbage)
        /\ IsInjective(m_sockets) => IsInjective(m_sockets')
        /\ DOMAIN fds' = DOMAIN fds \ Failed(garbage)
    BY <1>1, <1>6, FailedRemoved
  <2>3. m_socket = INVALID_SOCKET /\ wpc # "clear"
    BY <1>1, <1>a, <2>1 DEF Phase, InTime, Busy
  <2> QED
    BY <1>a, <1>c, <2>1, <2>2, <2>3, InTimeFacts, OwnedBy
<1>7. ASSUME NEW garbage, Adopt(garbage) PROVE Owned'
  <2> DEFINE h == Head(Usable(garbage))
  <2>1. /\ CloseSockets(ToSet(m_sockets) \ {h}) /\ m_sockets' = <<>> /\ m_socket' = h
        /\ UNCHANGED wpc /\ pc = "examine" /\ pc' = "adopted"
    BY <1>7 DEF Adopt, writeVars
  <2>2. h \in ToSet(m_sockets)
    BY <1>1, <1>7, UsableHead DEF Adopt
  <2> HIDE DEF h
  <2>3. ToSet(m_sockets') = {} /\ IsInjective(m_sockets')
    BY <2>1, EmptySeq DEF ToSet, IsInjective
  <2>4. DOMAIN fds' = DOMAIN fds \ (ToSet(m_sockets) \ {h})
    BY <2>1, Closed
  <2>5. m_socket = INVALID_SOCKET /\ wpc # "clear"
    BY <1>1, <1>a, <2>1 DEF Phase, InTime, Busy
  <2> QED
    BY <1>a, <1>c, <2>1, <2>2, <2>3, <2>4, <2>5, InTimeFacts, OwnedBy
<1>8. ASSUME NEW s \in ToSet(m_sockets), NEW outcome \in {"connected", "failed"}, Network(s, outcome)
      PROVE  Owned'
  <2>1. /\ fds' = [fds EXCEPT ![s] = outcome] /\ UNCHANGED <<m_sockets, m_socket, pc, wpc>>
    BY <1>8 DEF Network, writeVars
  <2>2. DOMAIN fds' = DOMAIN fds
    BY <2>1
  <2> QED
    BY <1>a, <1>d, <2>1, <2>2, InTimeFacts
<1> QED
  BY <1>2, <1>3, <1>4, <1>5, <1>6, <1>7, <1>8, PassiveOrNot DEF Examine, NetworkStep

(* The list of addresses is only made anew.                                *)
LEMMA NextListed == ConnectorInv /\ [ConnectorNext]_connectorVars => Listed'
<1> SUFFICES ASSUME ConnectorInv, [ConnectorNext]_connectorVars PROVE Listed'
  OBVIOUS
<1>1. Listed /\ Phase
  BY DEF ConnectorInv
<1>2. ASSUME UNCHANGED addressVars, m_address_current' \in 0 .. Len(m_addresses),
             pc = "gone" => pc' = "gone"
      PROVE  Listed'
  BY <1>1, <1>2 DEF Listed, AddressOrder, addressVars
<1>3. CASE Resolve
  BY <1>3, EmptySeq DEF Resolve, Listed, AddressOrder
<1>4. ASSUME NEW result \in Lookups, LookupFails(result) PROVE Listed'
  BY <1>1, <1>4 DEF LookupFails, Listed, AddressOrder, Phase
<1>5. ASSUME NEW result \in Lookups, NEW reachable, Resolved(result, reachable) PROVE Listed'
  <2>1. result \in Seq({"IPv4", "IPv6", "other"})
    OBVIOUS
  <2>2. Interweave(result) \in Seq(Nat) /\ InTurns(Interweave(result), result)
    BY <2>1, InterweaveInTurns
  <2>3. /\ m_host_resolved' = result /\ m_addresses' = Interweave(result)
        /\ m_address_current' = 0
    BY <1>1, <1>5 DEF Resolved, Phase
  <2>4. InTurns(m_addresses', m_host_resolved')
    BY <2>2, <2>3
  <2>5. AddressOrder'
    BY <2>4, Zenon DEF AddressOrder, InTurns
  <2> QED
    BY <2>2, <2>3, <2>5, LenProperties DEF Listed
<1>6. CASE Destroyed
  <2>1. pc' = "gone" /\ m_host_resolved' = <<>> /\ UNCHANGED <<m_addresses, m_address_current>>
    BY <1>6 DEF Destroyed
  <2> QED
    BY <1>1, <2>1 DEF Listed, AddressOrder
<1>7. CASE FirstAttempt \/ NextAttempt
  <2>1. m_address_current \in 0 .. Len(m_addresses) /\ Len(m_addresses) \in Nat
    BY <1>1, LenProperties DEF Listed
  <2>2. m_address_current < Len(m_addresses) /\ m_address_current' = m_address_current + 1
    BY <1>7 DEF FirstAttempt, NextAttempt, TryNextAddress
  <2>3. UNCHANGED addressVars /\ pc # "gone"
    BY <1>7 DEF FirstAttempt, NextAttempt, SelectTimesOut, Selectable, In
  <2> QED
    BY <1>2, <2>1, <2>2, <2>3
<1>8. ASSUME UNCHANGED <<addressVars, m_address_current>>, pc = "gone" => pc' = "gone" PROVE Listed'
  BY <1>1, <1>2, <1>8 DEF Listed
<1>9. CASE Stop \/ UNCHANGED connectorVars \/ NetworkStep
  BY <1>8, <1>9 DEF Stop, connectorVars, NetworkStep, Network
<1>10. CASE SetBackoff \/ Sleep \/ WakeUp \/ Authenticate
  BY <1>8, <1>10 DEF SetBackoff, Sleep, WakeUp, Authenticate, In
<1>11. CASE NoAddressLeft \/ Select \/ SelectAborted
  BY <1>8, <1>11 DEF NoAddressLeft, Select, SelectAborted, In
<1>12. CASE StillWaiting \/ AttemptsTimeOut \/ SelectReturns
  BY <1>8, <1>12 DEF StillWaiting, AttemptsTimeOut, SelectReturns, SelectTimesOut, Selectable
<1>13. CASE Examine
  BY <1>8, <1>13 DEF Examine, RemoveFailed, Adopt
<1>14. CASE Recv \/ RecvDone \/ SetConnected \/ SocketError \/ ReadSkips \/ ReadCloses \/ ReadClears \/ LostReported
  BY <1>8, <1>14
  DEF Recv, RecvDone, SetConnected, SocketError, ReadSkips, ReadCloses, ReadClears, LostReported, ReadMoves
<1>15. CASE StopSkips \/ StopCloses \/ StopClears
  BY <1>8, <1>15 DEF StopSkips, StopCloses, StopClears, ReadMoves
<1>16. CASE WriteBegins \/ WriteDone \/ WriteFails \/ WriteEnds \/ WriteSkips \/ WriteTakes \/ WriteCloses \/ WriteClears
  BY <1>8, <1>16
  DEF WriteBegins, WriteDone, WriteFails, WriteEnds, WriteSkips, WriteTakes, WriteCloses, WriteClears, WriteMoves
<1> QED
  BY <1>3, <1>4, <1>5, <1>6, <1>7, <1>9, <1>10, <1>11, <1>12, <1>13, <1>14, <1>15, <1>16
  DEF ConnectorNext, RoundStep, SelectStep, Lookup, EndStep

(* When every tried address that accepts had an attempt, and now none has, *)
(* there is no such address.                                               *)
LEMMA NoneIsLeft ==
  ASSUME Listed, Exhausted, \A i \in 1 .. m_address_current : m_addresses[i] \notin accepting
  PROVE  ToSet(m_addresses) \cap accepting = {}
<1>1. /\ Len(m_addresses) \in Nat /\ DOMAIN m_addresses = 1 .. Len(m_addresses)
      /\ m_address_current = Len(m_addresses)
  BY LenProperties DEF Listed, Exhausted
<1> QED
  BY <1>1 DEF ToSet

(* What is to be shown of a step in time                                   *)
TriedNow ==
  /\ pc # "gone" => \A s \in ToSet(m_sockets) : m_socket_to_address[s] \in DOMAIN m_host_resolved
  /\ pc = "setBackoff" => ToSet(m_addresses) \cap accepting = {}
  /\ \A i \in 1 .. m_address_current : m_addresses[i] \in accepting =>
       \E s \in ToSet(m_sockets) : m_socket_to_address[s] = m_addresses[i] /\ fds[s] # "failed"

(* An address that is tried and is pending has an attempt.                 *)
LEMMA AttemptTried ==
  ASSUME ConnectorInv, ~outlived, TriedNow, pc \in {"loop", "select"}, m_socket = INVALID_SOCKET, TryNextAddress,
         pc' = "loop", UNCHANGED <<addressVars, accepting, writable, m_socket, held>>
  PROVE  TriedNow'
<1> DEFINE n == Fresh
           c == m_address_current
           a == m_addresses[c + 1]
<1>1. Listed /\ Open
  BY DEF ConnectorInv
<1>2. /\ c \in Nat /\ Len(m_addresses) \in Nat /\ c < Len(m_addresses) /\ m_address_current' = c + 1
      /\ UNCHANGED <<m_addresses, m_host_resolved, accepting>>
  BY <1>1, LenProperties DEF Listed, TryNextAddress, addressVars
<1>3. \A i \in 1 .. c + 1 : i = c + 1 \/ i \in 1 .. c
  BY <1>2
<1>4. CASE a \notin accepting /\ UNCHANGED <<m_sockets, m_socket_to_address, fds>>
  BY <1>2, <1>3, <1>4 DEF TriedNow
<1>5. CASE /\ m_sockets' = Append(m_sockets, n)
           /\ m_socket_to_address' = With(m_socket_to_address, n, a)
           /\ fds' = With(fds, n, "pending")
  <2>1. /\ n \notin DOMAIN fds /\ ToSet(m_sockets') = ToSet(m_sockets) \cup {n}
        /\ fds'[n] = "pending" /\ \A d \in DOMAIN fds : fds'[d] = fds[d]
    BY <1>1, <1>5, OpenOpened
  <2>2. a \in DOMAIN m_host_resolved
    <3>1. m_addresses # <<>> /\ c + 1 \in DOMAIN m_addresses
      BY <1>1, <1>2, EmptySeq, LenProperties DEF Listed
    <3>2. ToSet(m_addresses) = {i \in DOMAIN m_host_resolved : m_host_resolved[i] # "other"}
      BY <1>1, <3>1, Zenon DEF Listed, AddressOrder
    <3>3. a \in ToSet(m_addresses)
      BY <3>1 DEF ToSet
    <3> HIDE DEF a
    <3> QED
      BY <3>2, <3>3
  <2> HIDE DEF n, a
  <2>3. ToSet(m_sockets) \subseteq DOMAIN fds /\ DOMAIN m_socket_to_address = ToSet(m_sockets)
    BY <1>1, InTimeFacts DEF Open
  <2>4. /\ m_socket_to_address'[n] = a
        /\ \A s \in ToSet(m_sockets) : m_socket_to_address'[s] = m_socket_to_address[s]
    BY <1>5, <2>1, <2>3 DEF With
  <2>5. ASSUME NEW i \in 1 .. c + 1, m_addresses[i] \in accepting
        PROVE  \E s \in ToSet(m_sockets') : m_socket_to_address'[s] = m_addresses[i] /\ fds'[s] # "failed"
    <3>1. CASE i = c + 1
      BY <2>1, <2>4, <3>1 DEF a
    <3>2. CASE i \in 1 .. c
      <4>1. PICK s \in ToSet(m_sockets) : m_socket_to_address[s] = m_addresses[i] /\ fds[s] # "failed"
        BY <2>5, <3>2 DEF TriedNow
      <4> QED
        BY <2>1, <2>3, <2>4, <4>1
    <3> QED
      BY <1>3, <3>1, <3>2
  <2>6. \A s \in ToSet(m_sockets') : m_socket_to_address'[s] \in DOMAIN m_host_resolved'
    BY <1>2, <2>1, <2>2, <2>4 DEF TriedNow
  <2> QED
    BY <1>2, <2>5, <2>6 DEF TriedNow
<1> QED
  BY <1>4, <1>5 DEF TryNextAddress

(* Every step of the attempts.                                             *)
LEMMA NextTried == ConnectorInv /\ [ConnectorNext]_connectorVars => Tried'
<1> SUFFICES ASSUME ConnectorInv, [ConnectorNext]_connectorVars PROVE Tried'
  OBVIOUS
<1> SUFFICES ASSUME ~outlived' PROVE TriedNow'
  <2>1. DOMAIN m_socket_to_address' = ToSet(m_sockets')
    BY NextOpen DEF Open
  <2> QED
    BY <2>1 DEF Tried, TriedNow, AddressesAlive, AttemptsHaveAddress, ReachableIsFound
<1>a. ~outlived /\ (Resolve => ~Busy)
  BY OutlivedStays
<1>1. Listed /\ Open /\ Phase /\ InTime /\ TriedNow
  BY <1>a DEF ConnectorInv, Tried, TriedNow, AddressesAlive, AttemptsHaveAddress, ReachableIsFound
<1>2. ASSUME UNCHANGED <<addressVars, m_address_current, m_sockets, m_socket_to_address, accepting>>,
             m_sockets = <<>> \/ UNCHANGED fds,
             pc' = pc \/ (pc # "gone" /\ pc' # "setBackoff")
      PROVE  TriedNow'
  <2>1. m_sockets = <<>> => ToSet(m_sockets) = {}
    BY DEF ToSet
  <2> QED
    BY <1>1, <1>2, <2>1 DEF TriedNow, addressVars
<1> USE DEF socketVars
<1>3. CASE Stop \/ UNCHANGED connectorVars
  BY <1>2, <1>3 DEF Stop, connectorVars
<1>4. CASE SetBackoff \/ Sleep \/ WakeUp \/ Authenticate
  BY <1>2, <1>4 DEF SetBackoff, Sleep, WakeUp, Authenticate, In
<1>5. CASE Select \/ SelectAborted \/ StillWaiting \/ SelectReturns
  BY <1>2, <1>5 DEF Select, SelectAborted, StillWaiting, SelectTimesOut, Selectable, SelectReturns, In
<1>6. CASE FirstAttempt \/ NextAttempt
  <2>1. m_socket = INVALID_SOCKET
    BY <1>1, <1>6 DEF FirstAttempt, NextAttempt, SelectTimesOut, Selectable, In, Phase
  <2> QED
    BY <1>1, <1>a, <1>6, <2>1, AttemptTried DEF FirstAttempt, NextAttempt, SelectTimesOut, Selectable, In, writeVars
<1>7. ASSUME m_sockets' = <<>>, m_address_current' = 0, pc' = "setBackoff" => m_addresses' = <<>>
      PROVE  TriedNow'
  <2>1. ToSet(m_sockets') = {} /\ 1 .. 0 = {} /\ ToSet(<<>>) = {}
    BY <1>7 DEF ToSet
  <2> QED
    BY <1>7, <2>1 DEF TriedNow
<1>8. CASE Resolve
  <2>1. m_sockets = <<>>
    BY <1>1, <1>a, <1>8 DEF Resolve, InTime, In, Attempting
  <2> QED
    BY <1>7, <1>8, <2>1 DEF Resolve
<1>9. CASE Lookup
  <2>1. m_sockets = <<>> /\ m_addresses = <<>> /\ m_address_current = 0
    BY <1>1, <1>a, <1>9 DEF Lookup, Phase, InTime
  <2> QED
    BY <1>7, <1>9, <2>1 DEF Lookup, LookupFails, Resolved
<1>10. CASE Destroyed
  BY <1>1, <1>10 DEF TriedNow, Destroyed
<1>11. CASE NoAddressLeft
  <2>1. /\ m_sockets = <<>> /\ Exhausted /\ pc = "loop"
        /\ UNCHANGED <<m_addresses, m_host_resolved, accepting, m_address_current, m_sockets, m_socket_to_address, fds>>
    BY <1>11 DEF NoAddressLeft, In, addressVars
  <2>2. ToSet(m_sockets) = {}
    BY <2>1 DEF ToSet
  <2>3. \A i \in 1 .. m_address_current : m_addresses[i] \notin accepting
    BY <1>1, <2>2 DEF TriedNow
  <2>4. ToSet(m_addresses) \cap accepting = {}
    BY <1>1, <2>1, <2>3, NoneIsLeft
  <2> QED
    BY <2>1, <2>2, <2>3, <2>4 DEF TriedNow
<1>12. CASE AttemptsTimeOut
  <2>1. /\ \A s \in ToSet(m_sockets) : m_socket_to_address[s] \notin accepting
        /\ Exhausted /\ m_sockets' = <<>>
        /\ UNCHANGED <<m_addresses, accepting, m_address_current>>
    BY <1>12 DEF AttemptsTimeOut, SelectTimesOut, addressVars
  <2>2. \A i \in 1 .. m_address_current : m_addresses[i] \notin accepting
    BY <1>1, <2>1 DEF TriedNow
  <2>3. ToSet(m_addresses) \cap accepting = {}
    BY <1>1, <2>1, <2>2, NoneIsLeft
  <2>4. ToSet(m_sockets') = {}
    BY <2>1 DEF ToSet
  <2> QED
    BY <2>1, <2>2, <2>3, <2>4 DEF TriedNow
<1>13. ASSUME NEW garbage \in SUBSET (ToSet(m_sockets) \ DOMAIN fds), RemoveFailed(garbage) PROVE TriedNow'
  <2>1. /\ pc = "examine" /\ pc' = "loop"
        /\ UNCHANGED <<m_addresses, m_host_resolved, accepting, m_address_current>>
    BY <1>13 DEF RemoveFailed, addressVars
  <2>2. /\ ToSet(m_sockets') = ToSet(m_sockets) \ Failed(garbage)
        /\ \A s \in ToSet(m_sockets') : m_socket_to_address'[s] = m_socket_to_address[s]
        /\ DOMAIN fds' = DOMAIN fds \ Failed(garbage) /\ \A d \in DOMAIN fds' : fds'[d] = fds[d]
    BY <1>1, <1>13, FailedRemoved
  <2>3. ToSet(m_sockets) \subseteq DOMAIN fds
    BY <1>a, InTimeFacts
  <2>4. ASSUME NEW i \in 1 .. m_address_current, m_addresses[i] \in accepting
        PROVE  \E s \in ToSet(m_sockets') : m_socket_to_address'[s] = m_addresses[i] /\ fds'[s] # "failed"
    <3>1. PICK s \in ToSet(m_sockets) : m_socket_to_address[s] = m_addresses[i] /\ fds[s] # "failed"
      BY <1>1, <2>4 DEF TriedNow
    <3>2. s \notin Failed(garbage) /\ s \in DOMAIN fds
      BY <2>3, <3>1 DEF Failed
    <3> QED
      BY <2>2, <3>1, <3>2
  <2>5. \A s \in ToSet(m_sockets') : m_socket_to_address'[s] \in DOMAIN m_host_resolved'
    BY <1>1, <2>1, <2>2 DEF TriedNow
  <2> QED
    BY <2>1, <2>4, <2>5 DEF TriedNow
<1>14. ASSUME NEW garbage, Adopt(garbage) PROVE TriedNow'
  <2>1. m_sockets' = <<>> /\ pc' = "adopted" /\ accepting' = {}
    BY <1>14 DEF Adopt
  <2>2. ToSet(m_sockets') = {}
    BY <2>1 DEF ToSet
  <2> QED
    BY <2>1, <2>2 DEF TriedNow
<1>15. CASE Recv \/ RecvDone \/ SetConnected \/ SocketError \/ ReadSkips \/ ReadClears \/ LostReported
  BY <1>2, <1>15 DEF Recv, RecvDone, SetConnected, SocketError, ReadSkips, ReadClears, LostReported, ReadMoves
<1>16. CASE ReadCloses \/ StopCloses
  BY <1>1, <1>2, <1>16 DEF ReadCloses, StopCloses, ReadMoves, Phase
<1>17. CASE StopSkips \/ StopClears
  BY <1>2, <1>17 DEF StopSkips, StopClears, ReadMoves
<1>18. CASE WriteBegins \/ WriteDone \/ WriteFails \/ WriteEnds \/ WriteSkips \/ WriteTakes \/ WriteClears
  BY <1>2, <1>18
  DEF WriteBegins, WriteDone, WriteFails, WriteEnds, WriteSkips, WriteTakes, WriteClears, WriteMoves
<1>19. CASE WriteCloses
  <2>1. m_sockets = <<>>
    BY <1>1, <1>a, <1>19 DEF WriteCloses, WriteMoves, InTime, Busy
  <2> QED
    BY <1>2, <1>19, <2>1 DEF WriteCloses, WriteMoves
<1>20. ASSUME NEW s \in ToSet(m_sockets), NEW outcome \in {"connected", "failed"}, Network(s, outcome)
       PROVE  TriedNow'
  <2>1. /\ fds' = [fds EXCEPT ![s] = outcome] /\ (outcome = "failed" => m_socket_to_address[s] \notin accepting)
        /\ UNCHANGED <<m_addresses, m_host_resolved, m_sockets, m_socket_to_address, accepting, m_address_current, pc>>
    BY <1>20 DEF Network, addressVars
  <2>2. \A t \in ToSet(m_sockets) : fds'[t] = IF t = s THEN outcome ELSE fds[t]
    BY <1>a, <2>1, InTimeFacts
  <2>3. ASSUME NEW i \in 1 .. m_address_current, m_addresses[i] \in accepting
        PROVE  \E t \in ToSet(m_sockets) : m_socket_to_address[t] = m_addresses[i] /\ fds'[t] # "failed"
    <3>1. PICK t \in ToSet(m_sockets) : m_socket_to_address[t] = m_addresses[i] /\ fds[t] # "failed"
      BY <1>1, <2>3 DEF TriedNow
    <3> QED
      BY <2>1, <2>2, <2>3, <3>1
  <2> QED
    BY <1>1, <2>1, <2>3 DEF TriedNow
<1> QED
  BY <1>3, <1>4, <1>5, <1>6, <1>8, <1>9, <1>10, <1>11, <1>12, <1>13, <1>14, <1>15, <1>16, <1>17, <1>18, <1>19, <1>20
  DEF ConnectorNext, RoundStep, SelectStep, Examine, NetworkStep, EndStep

-----------------------------------------------------------------------------
(* The theorems *)

(* The invariant holds whatever the network and the two threads do.        *)
THEOREM ConnectorInvariance == ConnectorSpec => []ConnectorInv
<1>1. ConnectorInv /\ [ConnectorNext]_connectorVars => ConnectorInv'
  BY NextPhase, NextInTime, NextOpen, NextOwned, NextListed, NextTried, NextPaced DEF ConnectorInv
<1> QED
  BY ConnectorInitInv, <1>1, PTL DEF ConnectorSpec

(* Its parts have the types that the code gives them.                      *)
LEMMA InvTypes == ConnectorInv => ConnectorTypeOK
<1> SUFFICES ASSUME ConnectorInv PROVE ConnectorTypeOK
  OBVIOUS
<1>1. Phase /\ Flags /\ Open /\ Listed /\ Paced
  BY DEF ConnectorInv
<1>2. writable \subseteq Nat
  <2>1. ToSet(m_sockets) \subseteq Nat
    BY <1>1, LenProperties, ElementOfSeq DEF Open, ToSet
  <2> QED
    BY <1>1, <2>1 DEF Open
<1> QED
  BY <1>1, <1>2 DEF ConnectorTypeOK, Phase, Flags, Open, Listed, Paced

(* Every variable of the connector keeps its type.                         *)
THEOREM ConnectorTypes == ConnectorSpec => []ConnectorTypeOK
BY ConnectorInvariance, InvTypes, PTL

(* Every open descriptor has one owner, for every list of addresses and    *)
(* every order of failures and of the two socketError(), until the write   *)
(* thread outlives a connection.                                           *)
THEOREM NoDescriptorLeaks == ConnectorSpec => []DescriptorsOwned
<1>1. ConnectorInv => DescriptorsOwned
  BY DEF ConnectorInv, Owned
<1> QED
  BY ConnectorInvariance, <1>1, PTL

(* No addrinfo that a pending attempt points to is freed, unless the write *)
(* thread outlives a connection.                                           *)
THEOREM NoDanglingAddress == ConnectorSpec => []AddressesAlive
<1>1. ConnectorInv => AddressesAlive
  BY DEF ConnectorInv, Tried
<1> QED
  BY ConnectorInvariance, <1>1, PTL

(* A socket that is adopted is connected, whatever the write thread does.  *)
THEOREM OnlyConnectedAdopted == ConnectorSpec => []AdoptedIsConnected
<1>1. ConnectorInv => AdoptedIsConnected
  BY DEF ConnectorInv, Open
<1> QED
  BY ConnectorInvariance, <1>1, PTL

(* Happy Eyeballs: no round with an address that accepts is given up,      *)
(* unless the write thread outlives a connection.                          *)
THEOREM HappyEyeballs == ConnectorSpec => []ReachableIsFound
<1>1. ConnectorInv => ReachableIsFound
  BY DEF ConnectorInv, Tried
<1> QED
  BY ConnectorInvariance, <1>1, PTL

(* The addresses are interwoven as the comment in resolve() says, for      *)
(* every result of getaddrinfo.                                            *)
THEOREM Interwoven == ConnectorSpec => []AddressOrder
<1>1. ConnectorInv => AddressOrder
  BY DEF ConnectorInv, Listed
<1> QED
  BY ConnectorInvariance, <1>1, PTL

=============================================================================
