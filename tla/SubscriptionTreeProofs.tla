------------------------- MODULE SubscriptionTreeProofs -------------------------
(***************************************************************************)
(* The tree of subscriptions holds no node longer than it is needed,       *)
(* whatever is subscribed and unsubscribed and wherever the connection is; *)
(* and a search in it finds the callbacks of the filters that match, each  *)
(* of them once.                                                           *)
(*                                                                         *)
(* Pruned is a loop over the levels of a topic and FindSubscriptionMatch a *)
(* recursion over the nodes.  For each there is a lemma that a function    *)
(* with its recursive equation exists, so that the definition has it, and  *)
(* one that says what it computes, by induction over the levels.  Nothing  *)
(* but the calls of the application changes the tree, so that the          *)
(* invariant of these calls is one of every specification that has them.   *)
(***************************************************************************)
EXTENDS Delivery, CodecProofs, FiniteSetTheorems, TLAPS

USE TreeAssumption DEF TreeAssumption

-----------------------------------------------------------------------------
(* The recursion of unsubscribe() *)

(* The sets of nodes after each level of the loop                          *)
PrunedBy(K, topic) ==
  /\ K[0] = DOMAIN m_subscriptions
  /\ \A k \in 1 .. Len(topic) : K[k] = PruneLevel(topic, Len(topic) + 1 - k, K[k - 1])

(* The loop runs as its recursive definition says: there is a sequence of  *)
(* sets that follows it.                                                   *)
LEMMA PrunedRecursion ==
  ASSUME NEW topic, Len(topic) \in Nat
  PROVE  \E K : Pruned(topic) = K[Len(topic)] /\ PrunedBy(K, topic)
<1> DEFINE N == Len(topic)
           Step(k, nodes) == PruneLevel(topic, N + 1 - k, nodes)
           Body(f) == [k \in 0 .. N |-> IF k = 0 THEN DOMAIN m_subscriptions ELSE Step(k, f[k - 1])]
           K == CHOOSE f : f = Body(f)
           Starts(f, n) == f = [k \in 0 .. n |-> IF k = 0 THEN DOMAIN m_subscriptions
                                                ELSE Step(k, f[k - 1])]
           P == {n \in 0 .. N : \E f : Starts(f, n)}
<1>1. N \in Nat
  OBVIOUS
<1>2. Pruned(topic) = K[N]
  BY DEF Pruned
<1> HIDE DEF N, K, Step
<1>3. 0 \in P
  <2> DEFINE f == [k \in 0 .. 0 |-> DOMAIN m_subscriptions]
  <2>1. Starts(f, 0)
    OBVIOUS
  <2> HIDE DEF f
  <2> QED
    BY <1>1, <2>1
<1>4. ASSUME NEW n \in 1 .. N, n - 1 \in P PROVE n \in P
  <2> HIDE DEF Starts
  <2>1. PICK f : Starts(f, n - 1)
    BY <1>4
  <2> USE DEF Starts
  <2> DEFINE h == [k \in 0 .. n |-> IF k = n THEN Step(n, f[n - 1]) ELSE f[k]]
  <2>2. n \in Nat /\ n # 0 /\ n \in 0 .. N /\ n - 1 \in 0 .. n
    BY <1>1
  <2>3. \A k \in 0 .. n - 1 : /\ k \in 0 .. n /\ k # n
                              /\ f[k] = IF k = 0 THEN DOMAIN m_subscriptions ELSE Step(k, f[k - 1])
    BY <2>1, <2>2
  <2>4. \A k \in 0 .. n - 1 : h[k] = f[k]
    BY <2>3
  <2>5. h[n] = Step(n, f[n - 1]) /\ h[n - 1] = f[n - 1]
    BY <2>2
  <2>6. ASSUME NEW k \in 0 .. n
        PROVE  h[k] = IF k = 0 THEN DOMAIN m_subscriptions ELSE Step(k, h[k - 1])
    <3> HIDE DEF h
    <3>1. CASE k = n
      BY <2>2, <2>5, <3>1
    <3>2. CASE k # n /\ k = 0
      BY <2>2, <2>3, <2>4, <3>2
    <3>3. CASE k # n /\ k # 0
      <4>1. k \in 0 .. n - 1 /\ k - 1 \in 0 .. n - 1
        BY <2>2, <3>3
      <4> QED
        BY <2>3, <2>4, <3>3, <4>1
    <3> QED
      BY <3>1, <3>2, <3>3
  <2>7. h = [k \in 0 .. n |-> h[k]]
    OBVIOUS
  <2> HIDE DEF h
  <2>8. Starts(h, n)
    BY <2>6, <2>7, Zenon
  <2> QED
    BY <2>2, <2>8
<1>5. \A n \in 0 .. N : n \in P
  <2> HIDE DEF P
  <2> QED
    BY <1>1, <1>3, <1>4, Induction
<1>6. PICK f : Starts(f, N)
  <2> HIDE DEF Starts
  <2> QED
    BY <1>1, <1>5
<1>7. K = Body(K)
  <2>1. f = Body(f)
    BY <1>6
  <2> HIDE DEF Body
  <2> QED
    BY <2>1, Zenon DEF K
<1>8. K[0] = DOMAIN m_subscriptions /\ \A k \in 1 .. N : K[k] = Step(k, K[k - 1])
  <2>1. \A k \in 0 .. N : K[k] = Body(K)[k]
    BY <1>7
  <2>2. 0 \in 0 .. N /\ \A k \in 1 .. N : k \in 0 .. N /\ k # 0
    BY <1>1
  <2> QED
    BY <2>1, <2>2
<1> QED
  BY <1>2, <1>8 DEF N, Step, PrunedBy

-----------------------------------------------------------------------------
(* Topics and the nodes on the way to them *)

(* A prefix has the first elements of a sequence.                          *)
LEMMA PrefixMeans ==
  ASSUME NEW S, NEW s \in Seq(S), NEW t \in Seq(S)
  PROVE  IsPrefix(s, t) <=> Len(s) =< Len(t) /\ \A n \in 1 .. Len(s) : s[n] = t[n]
<1>1. Len(s) \in Nat /\ Len(t) \in Nat
  BY LenProperties
<1>2. \A n \in 1 .. Len(s) : s[n] \in S
  BY ElementOfSeq
<1>3. /\ SubSeq(s, 1, Len(s)) \in Seq(S) /\ Len(SubSeq(s, 1, Len(s))) = Len(s)
      /\ \A n \in 1 .. Len(s) : SubSeq(s, 1, Len(s))[n] = s[n]
  BY <1>1, <1>2
<1>4. ASSUME Len(s) =< Len(t)
      PROVE  /\ SubSeq(t, 1, Len(s)) \in Seq(S) /\ Len(SubSeq(t, 1, Len(s))) = Len(s)
             /\ \A n \in 1 .. Len(s) : SubSeq(t, 1, Len(s))[n] = t[n]
  <2>1. \A n \in 1 .. Len(s) : t[n] \in S
    BY <1>1, <1>4, ElementOfSeq
  <2> QED
    BY <1>1, <1>4, <2>1
<1>5. ASSUME IsPrefix(s, t) PROVE Len(s) =< Len(t) /\ \A n \in 1 .. Len(s) : s[n] = t[n]
  BY <1>3, <1>4, <1>5 DEF IsPrefix
<1>6. ASSUME Len(s) =< Len(t), \A n \in 1 .. Len(s) : s[n] = t[n] PROVE IsPrefix(s, t)
  <2>1. SubSeq(s, 1, Len(s)) = SubSeq(t, 1, Len(s))
    BY <1>3, <1>4, <1>6, SeqEqual
  <2> QED
    BY <1>6, <2>1 DEF IsPrefix
<1> QED
  BY <1>5, <1>6

(* The nodes on the way to a topic are the prefixes that have a level.     *)
LEMMA PathMeans ==
  ASSUME NEW S, NEW t \in Seq(S)
  PROVE  /\ \A p \in PathTo(t) : p \in Seq(S) /\ Len(p) \in 1 .. Len(t) /\ IsPrefix(p, t)
                                 /\ p = SubSeq(t, 1, Len(p))
         /\ \A s \in Seq(S) : IsPrefix(s, t) /\ Len(s) > 0 => s \in PathTo(t)
         /\ \A n \in 1 .. Len(t) : /\ SubSeq(t, 1, n) \in PathTo(t) /\ Len(SubSeq(t, 1, n)) = n
                                   /\ SubSeq(t, 1, n)[n] = t[n]
<1>1. Len(t) \in Nat /\ \A n \in 1 .. Len(t) : t[n] \in S
  BY LenProperties, ElementOfSeq
<1>2. ASSUME NEW n \in 1 .. Len(t)
      PROVE  /\ SubSeq(t, 1, n) \in Seq(S) /\ Len(SubSeq(t, 1, n)) = n
             /\ \A j \in 1 .. n : SubSeq(t, 1, n)[j] = t[j]
  BY <1>1
<1>3. ASSUME NEW n \in 1 .. Len(t) PROVE IsPrefix(SubSeq(t, 1, n), t)
  <2> DEFINE p == SubSeq(t, 1, n)
  <2>1. p \in Seq(S) /\ Len(p) = n /\ \A j \in 1 .. n : p[j] = t[j]
    BY <1>2
  <2> HIDE DEF p
  <2>2. Len(p) =< Len(t) /\ \A j \in 1 .. Len(p) : p[j] = t[j]
    BY <1>1, <2>1
  <2>3. IsPrefix(p, t)
    BY <2>1, <2>2, PrefixMeans
  <2> QED
    BY <2>3 DEF p
<1>4. ASSUME NEW s \in Seq(S), IsPrefix(s, t), Len(s) > 0 PROVE s \in PathTo(t)
  <2>1. Len(s) \in 1 .. Len(t) /\ \A j \in 1 .. Len(s) : s[j] = t[j]
    BY <1>1, <1>4, LenProperties, PrefixMeans
  <2>2. s = SubSeq(t, 1, Len(s))
    BY <1>2, <2>1, SeqEqual
  <2> QED
    BY <2>1, <2>2 DEF PathTo
<1>5. ASSUME NEW p \in PathTo(t)
      PROVE  p \in Seq(S) /\ Len(p) \in 1 .. Len(t) /\ IsPrefix(p, t) /\ p = SubSeq(t, 1, Len(p))
  <2>1. PICK n \in 1 .. Len(t) : p = SubSeq(t, 1, n)
    BY DEF PathTo
  <2> QED
    BY <1>2, <1>3, <2>1
<1>6. ASSUME NEW n \in 1 .. Len(t)
      PROVE  /\ SubSeq(t, 1, n) \in PathTo(t) /\ Len(SubSeq(t, 1, n)) = n
             /\ SubSeq(t, 1, n)[n] = t[n]
  <2>1. SubSeq(t, 1, n) \in PathTo(t)
    BY DEF PathTo
  <2> QED
    BY <1>1, <1>2, <2>1
<1> QED
  BY <1>4, <1>5, <1>6

(* A prefix of a prefix is one; only equal sequences are prefixes of each  *)
(* other.                                                                  *)
LEMMA PrefixOrder ==
  ASSUME NEW S, NEW s \in Seq(S), NEW t \in Seq(S), NEW u \in Seq(S)
  PROVE  /\ IsPrefix(s, s)
         /\ IsPrefix(s, t) /\ IsPrefix(t, u) => IsPrefix(s, u)
         /\ IsPrefix(s, t) /\ Len(s) = Len(t) => s = t
<1>1. Len(s) \in Nat /\ Len(t) \in Nat /\ Len(u) \in Nat
  BY LenProperties
<1>2. IsPrefix(s, s)
  BY <1>1, PrefixMeans
<1>3. ASSUME IsPrefix(s, t), IsPrefix(t, u) PROVE IsPrefix(s, u)
  <2>1. /\ Len(s) =< Len(t) /\ \A n \in 1 .. Len(s) : s[n] = t[n]
        /\ Len(t) =< Len(u) /\ \A n \in 1 .. Len(t) : t[n] = u[n]
    BY <1>3, PrefixMeans
  <2>2. Len(s) =< Len(u) /\ \A n \in 1 .. Len(s) : s[n] = u[n]
    BY <1>1, <2>1
  <2> QED
    BY <2>2, PrefixMeans
<1>4. ASSUME IsPrefix(s, t), Len(s) = Len(t) PROVE s = t
  <2>1. \A n \in 1 .. Len(s) : s[n] = t[n]
    BY <1>4, PrefixMeans
  <2> QED
    BY <1>4, <2>1, SeqEqual
<1> QED
  BY <1>2, <1>3, <1>4

(* The filters are sequences of levels, and so are the nodes of the tree.  *)
LEMMA NodesAreTopics ==
  ASSUME TreeTypeOK
  PROVE  /\ \A f \in Filters : f \in Seq(Levels) /\ Len(f) \in Nat \ {0}
         /\ \A x \in DOMAIN m_subscriptions : x \in Seq(Levels) /\ Len(x) \in Nat \ {0}
<1>1. \A f \in Filters : f \in Seq(Levels) /\ Len(f) \in Nat \ {0}
  BY LenProperties
<1>2. ASSUME NEW x \in DOMAIN m_subscriptions PROVE x \in Seq(Levels) /\ Len(x) \in Nat \ {0}
  <2>1. PICK f \in Filters : x \in PathTo(f)
    BY DEF TreeTypeOK
  <2>2. f \in Seq(Levels) /\ Len(f) \in Nat
    BY <1>1
  <2> QED
    BY <2>1, <2>2, PathMeans
<1> QED
  BY <1>1, <1>2

-----------------------------------------------------------------------------
(* The loop of unsubscribe() *)

(* A node that may stay when the callbacks of a topic are gone: it has     *)
(* others, or a level without name.                                        *)
Needed(node, topic) ==
  (node # topic /\ m_subscriptions[node] # <<>>) \/ Last(node) = Empty

(* What the loop has reached when it has been at the levels from n on: no  *)
(* other callbacks are gone, the rest is a tree, and its nodes are needed, *)
(* except for those on the way to the topic that are to come.              *)
PrunedAbove(nodes, topic, n) ==
  /\ nodes \subseteq DOMAIN m_subscriptions
  /\ \A x \in DOMAIN m_subscriptions : x \in nodes \/ x = topic \/ m_subscriptions[x] = <<>>
  /\ \A x \in nodes : PathTo(x) \subseteq nodes
  /\ \A x \in nodes : x \notin PathTo(topic) \/ Len(x) >= n =>
       \E w \in nodes : IsPrefix(x, w) /\ Needed(w, topic)

(* One level of the loop                                                   *)
LEMMA PruneLevelStep ==
  ASSUME TreeTypeOK, NEW topic \in Filters, NEW n \in 1 .. Len(topic),
         NEW nodes, PrunedAbove(nodes, topic, n + 1)
  PROVE  PrunedAbove(PruneLevel(topic, n, nodes), topic, n)
<1> DEFINE node == SubSeq(topic, 1, n)
           Gone == /\ topic[n] # Empty
                   /\ node = topic \/ m_subscriptions[node] = <<>>
                   /\ ~ \E child \in nodes : IsStrictPrefix(node, child)
           left == IF Gone THEN nodes \ {node} ELSE nodes
<1>1. PruneLevel(topic, n, nodes) = left
  BY DEF PruneLevel
<1>2. topic \in Seq(Levels) /\ Len(topic) \in Nat /\ n \in Nat /\ n \in 1 .. Len(topic)
  BY NodesAreTopics
<1>3. \A x \in nodes : x \in Seq(Levels) /\ Len(x) \in Nat \ {0}
  BY NodesAreTopics DEF PrunedAbove
<1>4. /\ node \in PathTo(topic) /\ Len(node) = n /\ node[n] = topic[n]
      /\ node \in Seq(Levels)
  BY <1>2, PathMeans
<1>5. Last(node) = topic[n]
  BY <1>4 DEF Last
<1>6. ASSUME NEW x \in PathTo(topic), Len(x) = n PROVE x = node
  <2>1. x = SubSeq(topic, 1, Len(x))
    BY <1>2, PathMeans
  <2> QED
    BY <1>6, <2>1
<1> HIDE DEF node
<1>7. /\ left \subseteq DOMAIN m_subscriptions
      /\ \A x \in DOMAIN m_subscriptions : x \in left \/ x = topic \/ m_subscriptions[x] = <<>>
  BY DEF PrunedAbove
<1>8. ASSUME NEW x \in left PROVE PathTo(x) \subseteq left
  <2>1. x \in nodes /\ PathTo(x) \subseteq nodes
    BY <1>8 DEF PrunedAbove
  <2>2. CASE ~Gone
    BY <2>1, <2>2
  <2>3. CASE Gone
    <3>1. x # node /\ ~IsStrictPrefix(node, x)
      BY <1>8, <2>1, <2>3
    <3>2. node \notin PathTo(x)
      BY <1>3, <2>1, <3>1, PathMeans DEF IsStrictPrefix
    <3> QED
      BY <2>1, <2>3, <3>2
  <2> QED
    BY <2>2, <2>3
<1>9. ASSUME NEW x \in left, x \notin PathTo(topic) \/ Len(x) >= n
      PROVE  \E w \in left : IsPrefix(x, w) /\ Needed(w, topic)
  <2>1. x \in nodes /\ x \in Seq(Levels) /\ Len(x) \in Nat \ {0}
    BY <1>3, <1>9
  <2>2. ASSUME NEW y \in nodes, y \notin PathTo(topic) \/ Len(y) >= n + 1, IsPrefix(x, y)
        PROVE  \E w \in left : IsPrefix(x, w) /\ Needed(w, topic)
    <3>1. PICK w \in nodes : IsPrefix(y, w) /\ Needed(w, topic)
      BY <2>2 DEF PrunedAbove
    <3>2. IsPrefix(x, w)
      BY <1>3, <2>1, <2>2, <3>1, PrefixOrder
    <3>3. Gone => w # node
      BY <1>5, <3>1 DEF Needed
    <3>4. w \in left
      BY <3>3
    <3> QED
      BY <3>1, <3>2, <3>4
  <2>3. IsPrefix(x, x)
    BY <2>1, PrefixOrder
  <2>4. CASE x \notin PathTo(topic) \/ Len(x) >= n + 1
    BY <2>1, <2>2, <2>3, <2>4
  <2>5. CASE x \in PathTo(topic) /\ ~(Len(x) >= n + 1)
    <3>1. x = node /\ ~Gone
      <4>1. Len(x) = n
        BY <1>2, <1>9, <2>1, <2>5
      <4>2. x = node
        BY <1>6, <2>5, <4>1
      <4> QED
        BY <1>9, <4>2
    <3>2. CASE topic[n] = Empty \/ ~(node = topic \/ m_subscriptions[node] = <<>>)
      <4>1. Needed(x, topic)
        BY <1>5, <3>1, <3>2 DEF Needed
      <4> QED
        BY <1>9, <2>3, <4>1
    <3>3. CASE \E child \in nodes : IsStrictPrefix(node, child)
      <4>1. PICK child \in nodes : IsPrefix(x, child) /\ x # child
        BY <3>1, <3>3 DEF IsStrictPrefix
      <4>2. Len(child) # n
        BY <1>3, <1>4, <2>1, <3>1, <4>1, PrefixOrder
      <4>3. Len(child) >= n + 1
        <5>1. n =< Len(child) /\ Len(child) \in Nat
          BY <1>3, <1>4, <2>1, <3>1, <4>1, PrefixMeans
        <5> QED
          BY <1>2, <4>2, <5>1
      <4> QED
        BY <2>2, <4>1, <4>3
    <3> QED
      BY <3>1, <3>2, <3>3
  <2> QED
    BY <2>4, <2>5
<1> HIDE DEF left
<1>10. PrunedAbove(left, topic, n)
  BY <1>7, <1>8, <1>9 DEF PrunedAbove
<1> QED
  BY <1>1, <1>10

(* The loop removes all that the topic leaves empty, and no more.          *)
LEMMA PrunedIsRight ==
  ASSUME TreeTypeOK, NamedNodesPruned, NEW topic \in Filters
  PROVE  PrunedAbove(Pruned(topic), topic, 1)
<1> DEFINE N == Len(topic)
<1>1. N \in Nat /\ topic \in Seq(Levels)
  BY NodesAreTopics
<1>2. PICK K : Pruned(topic) = K[N] /\ PrunedBy(K, topic)
  BY <1>1, PrunedRecursion
<1> DEFINE P == {k \in 0 .. N : PrunedAbove(K[k], topic, N + 1 - k)}
<1>3. 0 \in P
  <2>1. \A x \in DOMAIN m_subscriptions : x \in Seq(Levels) /\ Len(x) \in Nat \ {0}
    BY NodesAreTopics
  <2>2. ASSUME NEW x \in DOMAIN m_subscriptions, x \notin PathTo(topic) \/ Len(x) >= N + 1
        PROVE  \E w \in DOMAIN m_subscriptions : IsPrefix(x, w) /\ Needed(w, topic)
    <3>1. PICK w \in DOMAIN m_subscriptions :
                 IsPrefix(x, w) /\ (m_subscriptions[w] # <<>> \/ Last(w) = Empty)
      BY DEF NamedNodesPruned
    <3>2. x \notin PathTo(topic)
      BY <1>1, <2>1, <2>2, PathMeans
    <3>3. w # topic
      BY <1>1, <2>1, <3>1, <3>2, PathMeans
    <3> QED
      BY <3>1, <3>3 DEF Needed
  <2>3. PrunedAbove(DOMAIN m_subscriptions, topic, N + 1)
    BY <2>2 DEF PrunedAbove, TreeTypeOK
  <2>4. K[0] = DOMAIN m_subscriptions /\ N + 1 - 0 = N + 1 /\ 0 \in 0 .. N
    BY <1>1, <1>2 DEF PrunedBy
  <2> QED
    BY <2>3, <2>4
<1>4. ASSUME NEW k \in 1 .. N, k - 1 \in P PROVE k \in P
  <2> DEFINE n == N + 1 - k
  <2>1. n \in 1 .. N /\ N + 1 - (k - 1) = n + 1 /\ k \in 0 .. N
    BY <1>1
  <2>2. K[k] = PruneLevel(topic, n, K[k - 1])
    BY <1>2 DEF PrunedBy
  <2>3. PrunedAbove(K[k - 1], topic, n + 1)
    BY <1>4, <2>1
  <2> HIDE DEF n
  <2>4. PrunedAbove(K[k], topic, n)
    BY <2>1, <2>2, <2>3, PruneLevelStep
  <2> QED
    BY <2>1, <2>4 DEF n
<1>5. \A k \in 0 .. N : k \in P
  <2> HIDE DEF P, N
  <2> QED
    BY <1>1, <1>3, <1>4, Induction
<1>6. N \in 0 .. N /\ N + 1 - N = 1
  BY <1>1
<1> QED
  BY <1>2, <1>5, <1>6

-----------------------------------------------------------------------------
(* The calls of the application *)

TreeInv == TreeTypeOK /\ NamedNodesPruned

(* subscribe() makes the nodes on the way to a topic, and they are needed  *)
(* for it.                                                                 *)
LEMMA AddCallbackInv ==
  ASSUME TreeInv, NEW topic \in Filters, AddCallback(topic) PROVE TreeInv'
<1> DEFINE D == DOMAIN m_subscriptions
           E == D \cup PathTo(topic)
<1>1. topic \in Seq(Levels) /\ Len(topic) \in Nat \ {0}
  BY NodesAreTopics DEF TreeInv
<1>2. m_subscriptions' = [node \in E |-> CallbacksAt(node) \o (IF node = topic THEN <<topic>> ELSE <<>>)]
  BY DEF AddCallback
<1>3. /\ DOMAIN m_subscriptions' = E
      /\ \A node \in E : m_subscriptions'[node] =
                           CallbacksAt(node) \o (IF node = topic THEN <<topic>> ELSE <<>>)
  BY <1>2
<1>4. \A node \in E : CallbacksAt(node) \in Seq({node})
  BY EmptySeq DEF CallbacksAt, TreeInv, TreeTypeOK
<1>5. E \subseteq UNION {PathTo(f) : f \in Filters}
  BY DEF TreeInv, TreeTypeOK
<1>6. ASSUME NEW node \in E PROVE PathTo(node) \subseteq E
  <2>1. CASE node \in D
    BY <2>1 DEF TreeInv, TreeTypeOK
  <2>2. CASE node \in PathTo(topic)
    <3>1. node \in Seq(Levels) /\ IsPrefix(node, topic)
      BY <1>1, <2>2, PathMeans
    <3>2. ASSUME NEW p \in PathTo(node) PROVE p \in PathTo(topic)
      <4>1. p \in Seq(Levels) /\ Len(p) \in 1 .. Len(node) /\ IsPrefix(p, node)
        BY <3>1, PathMeans
      <4>2. IsPrefix(p, topic) /\ Len(p) > 0
        BY <1>1, <3>1, <4>1, LenProperties, PrefixOrder
      <4> QED
        BY <1>1, <4>1, <4>2, PathMeans
    <3> QED
      BY <3>2
  <2> QED
    BY <2>1, <2>2
<1>7. ASSUME NEW node \in E PROVE m_subscriptions'[node] \in Seq({node})
  <2>1. <<>> \in Seq({node}) /\ <<node>> \in Seq({node})
    BY EmptySeq
  <2>2. (IF node = topic THEN <<topic>> ELSE <<>>) \in Seq({node})
    BY <2>1
  <2> QED
    <3> DEFINE added == IF node = topic THEN <<topic>> ELSE <<>>
    <3>1. m_subscriptions'[node] = CallbacksAt(node) \o added
      BY <1>3
    <3>2. CallbacksAt(node) \in Seq({node}) /\ added \in Seq({node})
      BY <1>4, <2>2
    <3> HIDE DEF added
    <3>3. CallbacksAt(node) \o added \in Seq({node})
      BY <3>2, ConcatProperties
    <3> QED
      BY <3>1, <3>3
<1>8. topic \in E /\ m_subscriptions'[topic] # <<>>
  <2>1. topic \in PathTo(topic)
    BY <1>1, PathMeans, PrefixOrder
  <2>2. CallbacksAt(topic) \in Seq({topic}) /\ m_subscriptions'[topic] = CallbacksAt(topic) \o <<topic>>
    BY <1>3, <1>4, <2>1
  <2>3. Len(CallbacksAt(topic) \o <<topic>>) = Len(CallbacksAt(topic)) + 1 /\ Len(CallbacksAt(topic)) \in Nat
    BY <2>2, LenProperties
  <2> QED
    BY <2>1, <2>2, <2>3
<1>9. ASSUME NEW node \in D, m_subscriptions[node] # <<>> PROVE m_subscriptions'[node] # <<>>
  <2>1. CASE node = topic
    BY <1>8, <2>1
  <2>2. CASE node # topic
    <3>1. m_subscriptions[node] \in Seq({node}) /\ CallbacksAt(node) = m_subscriptions[node]
      BY DEF CallbacksAt, TreeInv, TreeTypeOK
    <3>2. m_subscriptions'[node] = m_subscriptions[node]
      BY <1>3, <2>2, <3>1, ConcatEmptySeq
    <3> QED
      BY <1>9, <3>2
  <2> QED
    BY <2>1, <2>2
<1>10. ASSUME NEW node \in E
       PROVE  \E below \in E : /\ IsPrefix(node, below)
                               /\ m_subscriptions'[below] # <<>> \/ Last(below) = Empty
  <2>1. CASE node \in D
    <3>1. PICK below \in D : IsPrefix(node, below) /\ (m_subscriptions[below] # <<>> \/ Last(below) = Empty)
      BY <2>1 DEF TreeInv, NamedNodesPruned
    <3> QED
      BY <1>9, <3>1
  <2>2. CASE node \in PathTo(topic)
    <3>1. IsPrefix(node, topic)
      BY <1>1, <2>2, PathMeans
    <3> QED
      BY <1>8, <3>1
  <2> QED
    BY <2>1, <2>2
<1> HIDE DEF E, D
<1>11. TreeTypeOK'
  BY <1>3, <1>5, <1>6, <1>7 DEF TreeTypeOK, PathTo
<1>12. NamedNodesPruned'
  BY <1>3, <1>10 DEF NamedNodesPruned, IsPrefix, Last
<1> QED
  BY <1>11, <1>12 DEF TreeInv

(* unsubscribe() leaves no node without a reason.                          *)
LEMMA RemoveCallbacksInv ==
  ASSUME TreeInv, NEW topic \in Filters, RemoveCallbacks(topic)
  PROVE  TreeInv' /\ \A f \in Filters : f # topic => CallbacksAt(f)' = CallbacksAt(f)
<1> DEFINE X == Pruned(topic)
<1>1. PrunedAbove(X, topic, 1)
  BY PrunedIsRight DEF TreeInv
<1>2. m_subscriptions' = [node \in X |-> IF node = topic THEN <<>> ELSE m_subscriptions[node]]
  BY DEF RemoveCallbacks
<1> HIDE DEF X
<1>3. /\ DOMAIN m_subscriptions' = X
      /\ \A node \in X : m_subscriptions'[node] = IF node = topic THEN <<>> ELSE m_subscriptions[node]
  BY <1>2
<1>4. X \subseteq DOMAIN m_subscriptions /\ \A x \in X : x \in Seq(Levels) /\ Len(x) >= 1
  BY <1>1, NodesAreTopics DEF PrunedAbove, TreeInv
<1>5. TreeTypeOK'
  <2>1. \A node \in X : m_subscriptions'[node] \in Seq({node})
    BY <1>3, <1>4, EmptySeq DEF TreeInv, TreeTypeOK
  <2>2. \A node \in X : PathTo(node) \subseteq X
    BY <1>1 DEF PrunedAbove
  <2>3. X \subseteq UNION {PathTo(f) : f \in Filters}
    BY <1>4 DEF TreeInv, TreeTypeOK
  <2> QED
    BY <1>3, <2>1, <2>2, <2>3 DEF TreeTypeOK, PathTo
<1>6. NamedNodesPruned'
  <2>1. ASSUME NEW node \in X
        PROVE  \E below \in X : /\ IsPrefix(node, below)
                                /\ m_subscriptions'[below] # <<>> \/ Last(below) = Empty
    <3>1. PICK w \in X : IsPrefix(node, w) /\ Needed(w, topic)
      BY <1>1, <1>4 DEF PrunedAbove
    <3> QED
      BY <1>3, <3>1 DEF Needed
  <2> QED
    BY <1>3, <2>1 DEF NamedNodesPruned, IsPrefix, Last
<1>7. ASSUME NEW f \in Filters, f # topic PROVE CallbacksAt(f)' = CallbacksAt(f)
  <2>1. CASE f \in X
    BY <1>3, <1>4, <1>7, <2>1 DEF CallbacksAt
  <2>2. CASE f \notin X
    <3>1. f \in DOMAIN m_subscriptions => m_subscriptions[f] = <<>>
      BY <1>1, <1>7, <2>2 DEF PrunedAbove
    <3> QED
      BY <1>3, <2>2, <3>1 DEF CallbacksAt
  <2> QED
    BY <2>1, <2>2
<1> QED
  BY <1>5, <1>6, <1>7 DEF TreeInv

(* subscribe() adds to its own topic only.                                 *)
LEMMA AddKeepsOthers ==
  ASSUME TreeInv, NEW topic \in Filters, AddCallback(topic), NEW f \in Filters, f # topic
  PROVE  CallbacksAt(f)' = CallbacksAt(f)
<1>1. CASE f \in DOMAIN m_subscriptions \cup PathTo(topic)
  <2>1. CallbacksAt(f) \in Seq({f})
    BY EmptySeq DEF CallbacksAt, TreeInv, TreeTypeOK
  <2>2. CallbacksAt(f)' = CallbacksAt(f) \o <<>>
    BY <1>1 DEF AddCallback, CallbacksAt
  <2> QED
    BY <2>1, <2>2, ConcatEmptySeq
<1>2. CASE f \notin DOMAIN m_subscriptions \cup PathTo(topic)
  BY <1>2 DEF AddCallback, CallbacksAt
<1> QED
  BY <1>1, <1>2

(* A cleared tree has no nodes.                                            *)
LEMMA NoNodesInv ==
  /\ TreeInit => TreeInv
  /\ ClearTree => TreeInv'
<1>1. DOMAIN NoNodes = {}
  BY DEF NoNodes
<1> QED
  BY <1>1 DEF TreeInit, ClearTree, TreeInv, TreeTypeOK, NamedNodesPruned

(* The steps that change the tree are these three.                         *)
LEMMA NextTreeInv == TreeInv /\ [Next]_vars => TreeInv'
<1> SUFFICES ASSUME TreeInv, [Next]_vars PROVE TreeInv'
  OBVIOUS
<1>1. CASE ClearTree
  BY <1>1, NoNodesInv
<1>2. CASE \E f \in Filters : AddCallback(f)
  BY <1>2, AddCallbackInv
<1>3. CASE \E f \in Filters : RemoveCallbacks(f)
  BY <1>3, RemoveCallbacksInv
<1>4. CASE UNCHANGED m_subscriptions
  BY <1>4 DEF TreeInv, TreeTypeOK, NamedNodesPruned
<1>5. \/ ClearTree \/ UNCHANGED m_subscriptions
      \/ \E f \in Filters : AddCallback(f) \/ RemoveCallbacks(f)
  BY Zenon DEF Next, vars, Connect, Disconnect, SendRefused, Subscribe, Unsubscribe, Open, LinkLost,
               BrokerSends, ReadHeader, ReadLength, ReadData, Accepted, MessageReceived, Acknowledged,
               Rejected, Dispatch
<1> QED
  BY <1>1, <1>2, <1>3, <1>4, <1>5

(* The tree keeps its form, over all calls and reconnects.                 *)
THEOREM TreeInvariance == Spec => []TreeInv
<1>1. Init => TreeInv
  BY NoNodesInv DEF Init
<1> QED
  BY <1>1, NextTreeInv, PTL DEF Spec

(* For all topics and any order of calls, the only nodes without a         *)
(* callback at or below them that unsubscribe() leaves are levels without  *)
(* name and the nodes above such a level.                                  *)
THEOREM NamedNodesRemoved == Spec => []NamedNodesPruned
<1>1. TreeInv => NamedNodesPruned
  BY DEF TreeInv
<1> QED
  BY <1>1, TreeInvariance, PTL

(* subscribe() and unsubscribe() of a topic take no callback away from     *)
(* another one, although both share nodes with it.                         *)
THEOREM OthersKeepCallbacks == Spec => OthersStay
<1> DEFINE A == \A f \in Filters :
                  Subscribe(f) \/ Unsubscribe(f) =>
                    \A g \in Filters \ {f} : CallbacksAt(g)' = CallbacksAt(g)
<1>1. TreeInv /\ [Next]_vars => [A]_vars
  <2> SUFFICES ASSUME TreeInv, NEW f \in Filters, Subscribe(f) \/ Unsubscribe(f),
                      NEW g \in Filters \ {f}
               PROVE  CallbacksAt(g)' = CallbacksAt(g)
    OBVIOUS
  <2>1. AddCallback(f) \/ RemoveCallbacks(f)
    BY DEF Subscribe, Unsubscribe
  <2> QED
    BY <2>1, AddKeepsOthers, RemoveCallbacksInv
<1> QED
  BY <1>1, TreeInvariance, PTL DEF Spec, OthersStay

-----------------------------------------------------------------------------
(* How often something occurs in a sequence *)

Places(x, s) == {n \in DOMAIN s : s[n] = x}
Count(x, s) == Cardinality(Places(x, s))

(* The places of a sequence are finitely many.                             *)
LEMMA CountType ==
  ASSUME NEW S, NEW s \in Seq(S), NEW x
  PROVE  IsFiniteSet(Places(x, s)) /\ Count(x, s) \in Nat
<1>1. DOMAIN s = 1 .. Len(s) /\ Len(s) \in Nat
  BY LenProperties
<1>2. IsFiniteSet(1 .. Len(s))
  BY <1>1, FS_Interval
<1>3. Places(x, s) \in SUBSET (1 .. Len(s))
  BY <1>1 DEF Places
<1>4. IsFiniteSet(Places(x, s))
  BY <1>2, <1>3, FS_Subset
<1> QED
  BY <1>4, FS_CardinalityType DEF Count

(* A sequence without x, and one with nothing else                         *)
LEMMA CountAllOrNone ==
  ASSUME NEW x, NEW y, NEW s \in Seq({y})
  PROVE  Count(x, s) = IF x = y THEN Len(s) ELSE 0
<1>1. DOMAIN s = 1 .. Len(s) /\ Len(s) \in Nat
  BY LenProperties
<1>2. \A n \in 1 .. Len(s) : s[n] = y
  BY ElementOfSeq
<1>3. CASE x = y
  <2>1. Places(x, s) = 1 .. Len(s)
    BY <1>1, <1>2, <1>3 DEF Places
  <2>2. Cardinality(1 .. Len(s)) = Len(s)
    <3>1. Cardinality(1 .. Len(s)) = IF 1 > Len(s) THEN 0 ELSE Len(s) - 1 + 1
      BY <1>1, FS_Interval
    <3> QED
      BY <1>1, <3>1
  <2> QED
    BY <1>3, <2>1, <2>2 DEF Count
<1>4. CASE x # y
  <2>1. Places(x, s) = {}
    BY <1>1, <1>2, <1>4 DEF Places
  <2> QED
    BY <1>4, <2>1, FS_EmptySet DEF Count
<1> QED
  BY <1>3, <1>4

(* Occurrences in two sequences add up.                                    *)
LEMMA CountJoined ==
  ASSUME NEW S, NEW s \in Seq(S), NEW t \in Seq(S), NEW x
  PROVE  Count(x, s \o t) = Count(x, s) + Count(x, t)
<1> DEFINE u == s \o t
           L == Len(s)
           N == Len(t)
           P == Places(x, s)
           Q == Places(x, t)
           R == {n \in L + 1 .. L + N : t[n - L] = x}
<1>1. L \in Nat /\ N \in Nat /\ DOMAIN s = 1 .. L /\ DOMAIN t = 1 .. N
  BY LenProperties
<1>2. /\ u \in Seq(S) /\ Len(u) = L + N
      /\ \A n \in 1 .. L + N : u[n] = IF n <= L THEN s[n] ELSE t[n - L]
  BY ConcatProperties
<1>3. DOMAIN u = 1 .. L + N
  BY <1>2, LenProperties
<1>4. IsFiniteSet(P) /\ IsFiniteSet(Q) /\ Count(x, s) = Cardinality(P) /\ Count(x, t) = Cardinality(Q)
  BY CountType DEF Count
<1> HIDE DEF u, L, N
<1>5. Places(x, u) = P \cup R /\ P \cap R = {}
  BY <1>1, <1>2, <1>3 DEF Places
<1>6. ExistsBijection(Q, R)
  <2> DEFINE b == [n \in Q |-> n + L]
  <2>1. \A n \in Q : n \in 1 .. N /\ t[n] = x
    BY <1>1 DEF Places
  <2>2. b \in [Q -> R]
    <3>1. \A n \in Q : n + L \in R
      BY <1>1, <2>1
    <3> QED
      BY <3>1
  <2>3. \A m, n \in Q : b[m] = b[n] => m = n
    BY <1>1, <2>1
  <2>4. \A n \in R : \E m \in Q : b[m] = n
    <3> SUFFICES ASSUME NEW n \in R PROVE n - L \in Q /\ b[n - L] = n
      BY Zenon
    <3>1. n - L \in Q
      BY <1>1 DEF Places
    <3> QED
      BY <1>1, <3>1
  <2> HIDE DEF b, Q, R
  <2>5. b \in Bijection(Q, R)
    BY <2>2, <2>3, <2>4 DEF Bijection, Injection, Surjection, IsInjective
  <2> QED
    BY <2>5 DEF ExistsBijection
<1> HIDE DEF P, Q, R
<1>7. IsFiniteSet(R) /\ Cardinality(R) = Cardinality(Q)
  BY <1>4, <1>6, FS_Bijection
<1>8. Cardinality(P \cup R) = Cardinality(P) + Cardinality(R) - Cardinality(P \cap R)
  BY <1>4, <1>7, FS_Union
<1>9. Cardinality({}) = 0 /\ Cardinality(P) \in Nat /\ Cardinality(R) \in Nat
  BY <1>4, <1>7, FS_EmptySet, FS_CardinalityType
<1>10. Count(x, s \o t) = Cardinality(P \cup R)
  BY <1>5 DEF Count, u
<1>11. Cardinality(P \cap R) = 0
  BY <1>5, <1>9
<1> QED
  BY <1>4, <1>7, <1>8, <1>9, <1>10, <1>11

-----------------------------------------------------------------------------
(* The recursion of findSubscriptionMatch() *)

(* What is called below a node, given what is called below its children    *)
Followed(A, topic, node, level) ==
  IF Append(node, level) \notin DOMAIN m_subscriptions THEN <<>>
  ELSE m_subscriptions[Append(node, level)]
       \o (IF Len(node) + 1 < Len(topic) THEN A[Append(node, level)] ELSE <<>>)
CalledBelow(A, topic, node) ==
  Followed(A, topic, node, topic[Len(node) + 1]) \o Followed(A, topic, node, Plus)
  \o CallbacksAt(Append(node, Hash))

(* The nodes at which it looks                                             *)
Visited == DOMAIN m_subscriptions \cup {<<>>}

(* The nodes are sequences, and a child has one level more.                *)
LEMMA VisitedAre ==
  ASSUME TreeTypeOK
  PROVE  /\ \A node \in Visited : node \in Seq(Levels) /\ Len(node) \in Nat
         /\ \A node \in Visited : \A level :
              Append(node, level) \in DOMAIN m_subscriptions => Len(Append(node, level)) = Len(node) + 1
<1>1. \A node \in Visited : node \in Seq(Levels) /\ Len(node) \in Nat
  BY NodesAreTopics, EmptySeq DEF Visited
<1>2. ASSUME NEW node \in Visited, NEW level PROVE Len(Append(node, level)) = Len(node) + 1
  <2> DEFINE S == Levels \cup {level}
  <2>1. node \in Seq(Levels)
    BY <1>1
  <2>2. node \in Seq(S)
    BY <2>1, SeqMonotonic
  <2>3. level \in S
    OBVIOUS
  <2> HIDE DEF S
  <2> QED
    BY <2>2, <2>3, AppendProperties
<1> QED
  BY <1>1, <1>2

(* What is called below a node depends on its children only.               *)
LEMMA CalledBelowDepends ==
  ASSUME NEW A, NEW B, NEW topic, NEW node,
         \A level : /\ Append(node, level) \in DOMAIN m_subscriptions
                    /\ Len(node) + 1 < Len(topic)
                    => A[Append(node, level)] = B[Append(node, level)]
  PROVE  CalledBelow(A, topic, node) = CalledBelow(B, topic, node)
<1>1. ASSUME NEW level PROVE Followed(A, topic, node, level) = Followed(B, topic, node, level)
  <2> DEFINE child == Append(node, level)
             more == Len(node) + 1 < Len(topic)
  <2>1. child \in DOMAIN m_subscriptions /\ more => A[child] = B[child]
    OBVIOUS
  <2>2. \A C : Followed(C, topic, node, level) =
                IF child \notin DOMAIN m_subscriptions THEN <<>>
                ELSE m_subscriptions[child] \o (IF more THEN C[child] ELSE <<>>)
    BY DEF Followed
  <2> HIDE DEF child, more
  <2>3. CASE child \in DOMAIN m_subscriptions /\ more
    BY <2>1, <2>2, <2>3
  <2>4. CASE ~(child \in DOMAIN m_subscriptions /\ more)
    BY <2>2, <2>4
  <2> QED
    BY <2>3, <2>4
<1>2. Followed(A, topic, node, topic[Len(node) + 1]) = Followed(B, topic, node, topic[Len(node) + 1])
  BY <1>1
<1>3. Followed(A, topic, node, Plus) = Followed(B, topic, node, Plus)
  BY <1>1
<1> QED
  BY <1>2, <1>3 DEF CalledBelow

(* The calls of findSubscriptionMatch() for itself are as its recursive    *)
(* definition says: there is a function from the nodes to what is called   *)
(* below them.                                                             *)
LEMMA MatchRecursion ==
  ASSUME TreeTypeOK, NEW topic, Len(topic) \in Nat
  PROVE  \E A : /\ FindSubscriptionMatch(topic) = A[<<>>]
                /\ \A node \in Visited : A[node] = CalledBelow(A, topic, node)
<1> DEFINE N == Len(topic)
           From(k) == {node \in Visited : Len(node) >= N - k}
           Body(A, D) == [node \in D |-> CalledBelow(A, topic, node)]
           Solves(A, k) == A = Body(A, From(k))
           P == {k \in 0 .. N : \E A : Solves(A, k)}
           A0 == CHOOSE A : A = Body(A, Visited)
<1>1. N \in Nat
  OBVIOUS
<1>2. FindSubscriptionMatch(topic) = A0[<<>>]
  BY DEF FindSubscriptionMatch, CalledBelow, Followed, Visited
<1>3. /\ \A node \in Visited : Len(node) \in Nat
      /\ \A node \in Visited : \A level :
           Append(node, level) \in DOMAIN m_subscriptions =>
             Append(node, level) \in Visited /\ Len(Append(node, level)) = Len(node) + 1
  BY VisitedAre DEF Visited
<1> HIDE DEF N, A0
<1>4. 0 \in P
  <2> DEFINE A == [node \in From(0) |-> CalledBelow(<<>>, topic, node)]
  <2>1. ASSUME NEW node \in From(0) PROVE CalledBelow(<<>>, topic, node) = CalledBelow(A, topic, node)
    <3>1. ~(Len(node) + 1 < Len(topic))
      BY <1>1, <1>3 DEF N
    <3> HIDE DEF A
    <3> QED
      BY <3>1, CalledBelowDepends
  <2>2. A = Body(A, From(0))
    <3> HIDE DEF From
    <3> QED
      BY <2>1
  <2>3. 0 \in 0 .. N
    BY <1>1
  <2> HIDE DEF A, Body, From
  <2>4. Solves(A, 0)
    BY <2>2
  <2> HIDE DEF Solves
  <2> QED
    BY <2>3, <2>4
<1>5. ASSUME NEW k \in 1 .. N, k - 1 \in P PROVE k \in P
  <2>1. PICK A : Solves(A, k - 1)
    <3> HIDE DEF Solves
    <3> QED
      BY <1>5
  <2> DEFINE B == [node \in From(k) |-> IF node \in From(k - 1) THEN A[node] ELSE CalledBelow(A, topic, node)]
  <2>2. \A node \in From(k - 1) : node \in From(k) /\ A[node] = CalledBelow(A, topic, node)
    <3>1. \A node \in From(k - 1) : node \in From(k)
      BY <1>1, <1>3
    <3> HIDE DEF From
    <3> QED
      BY <2>1, <3>1
  <2>3. \A node \in From(k - 1) : B[node] = A[node]
    <3> HIDE DEF From
    <3> QED
      BY <2>2
  <2>4. \A node \in From(k) : B[node] = CalledBelow(A, topic, node)
    <3> HIDE DEF From
    <3> QED
      BY <2>2
  <2>5. B = [node \in From(k) |-> B[node]]
    <3> HIDE DEF From
    <3> QED
      OBVIOUS
  <2> HIDE DEF B
  <2>6. ASSUME NEW node \in From(k) PROVE CalledBelow(A, topic, node) = CalledBelow(B, topic, node)
    <3>1. ASSUME NEW level, Append(node, level) \in DOMAIN m_subscriptions
          PROVE  Append(node, level) \in From(k - 1)
      <4>1. node \in Visited /\ Len(node) >= N - k /\ Len(node) \in Nat
        BY <1>3
      <4>2. Append(node, level) \in Visited /\ Len(Append(node, level)) = Len(node) + 1
        BY <1>3, <3>1, <4>1
      <4>3. Len(Append(node, level)) >= N - (k - 1)
        BY <1>1, <4>1, <4>2
      <4> QED
        BY <4>2, <4>3
    <3> HIDE DEF From
    <3> QED
      BY <2>3, <3>1, CalledBelowDepends
  <2>7. \A node \in From(k) : B[node] = CalledBelow(B, topic, node)
    <3> HIDE DEF From
    <3> QED
      BY <2>4, <2>6
  <2>8. B = Body(B, From(k))
    <3> HIDE DEF From
    <3> QED
      BY <2>5, <2>7, Zenon
  <2>9. k \in 0 .. N
    BY <1>1
  <2> HIDE DEF From, Body
  <2> QED
    BY <2>8, <2>9
<1>6. \A k \in 0 .. N : k \in P
  <2> HIDE DEF P
  <2> QED
    BY <1>1, <1>4, <1>5, Induction
<1>7. PICK A : Solves(A, N)
  <2>1. N \in 0 .. N
    BY <1>1
  <2> HIDE DEF Solves
  <2> QED
    BY <1>6, <2>1
<1>8. From(N) = Visited
  BY <1>1, <1>3
<1>9. A = Body(A, Visited)
  <2> HIDE DEF From
  <2> QED
    BY <1>7, <1>8
<1>10. A0 = Body(A0, Visited)
  <2> HIDE DEF Body
  <2> QED
    BY <1>9, Zenon DEF A0
<1>11. \A node \in Visited : A0[node] = CalledBelow(A0, topic, node)
  BY <1>10
<1> HIDE DEF Body
<1> QED
  BY <1>2, <1>11, Zenon

-----------------------------------------------------------------------------
(* Filters and the nodes on the way to them *)

(* Only the last level of a filter may be "#".                             *)
IsFilter(f) == f \in Seq(Levels) /\ \A k \in 1 .. Len(f) - 1 : f[k] # Hash

(* The filter begins with the levels of a node and goes on with levels     *)
(* that match the topic, or that end it.                                   *)
Through(f, topic, node) ==
  /\ Len(node) =< Len(f) /\ Len(f) =< Len(topic)
  /\ \A k \in 1 .. Len(node) : f[k] = node[k]
  /\ \A k \in Len(node) + 1 .. Len(f) : f[k] \in {topic[k], Plus, Hash}

(* ... and is not the node itself.                                         *)
Below(f, topic, node) == Len(node) < Len(f) /\ Through(f, topic, node)

(* A filter goes through a node if it is that node or below it.            *)
LEMMA ThroughMeans ==
  ASSUME NEW S, NEW f \in Seq(S), NEW node \in Seq(S), NEW topic, Len(topic) \in Nat,
         Len(node) =< Len(topic)
  PROVE  /\ f = node => Through(f, topic, node) /\ ~Below(f, topic, node)
         /\ f # node => (Through(f, topic, node) <=> Below(f, topic, node))
         /\ Len(node) = Len(topic) => ~Below(f, topic, node)
<1>1. Len(f) \in Nat /\ Len(node) \in Nat
  BY LenProperties
<1>2. ASSUME Len(node) = Len(f), \A k \in 1 .. Len(node) : f[k] = node[k] PROVE f = node
  BY <1>2, SeqEqual
<1>3. f = node => Through(f, topic, node) /\ ~Below(f, topic, node)
  BY <1>1 DEF Through, Below
<1>4. ASSUME f # node, Through(f, topic, node) PROVE Below(f, topic, node)
  BY <1>1, <1>2, <1>4 DEF Through, Below
<1>5. Below(f, topic, node) => Through(f, topic, node)
  BY DEF Below
<1>6. Len(node) = Len(topic) => ~Below(f, topic, node)
  BY <1>1 DEF Through, Below
<1> QED
  BY <1>3, <1>4, <1>5, <1>6

(* A filter that goes through a node which is not there has no callbacks.  *)
LEMMA NodesToCallbacks ==
  ASSUME TreeTypeOK, NEW f, IsFilter(f), NEW topic, NEW S, NEW node \in Seq(S), Levels \subseteq S,
         Len(node) > 0, Through(f, topic, node), node \notin DOMAIN m_subscriptions
  PROVE  CallbacksAt(f) = <<>>
<1> SUFFICES ASSUME f \in DOMAIN m_subscriptions PROVE FALSE
  BY DEF CallbacksAt
<1> DEFINE n == Len(node)
<1>1. f \in Seq(Levels)
  BY DEF IsFilter
<1>2. f \in Seq(S)
  BY <1>1, SeqMonotonic
<1>3. n \in 1 .. Len(f) /\ Len(f) \in Nat
  BY <1>2, LenProperties DEF Through
<1>4. SubSeq(f, 1, n) = node
  <2>1. 1 \in Int /\ n \in Int /\ 1 >= 1 /\ n =< Len(f) /\ Len(node) = n - 1 + 1
    BY <1>3
  <2>2. \A k \in 1 .. n : f[k] = node[k - 1 + 1]
    BY DEF Through
  <2> HIDE DEF n
  <2> QED
    BY <1>2, <2>1, <2>2, Part
<1>5. node \in PathTo(f)
  BY <1>3, <1>4 DEF PathTo
<1> QED
  BY <1>5 DEF TreeTypeOK

(* A filter below a node goes through one child, the one that has its next *)
(* level, and ends there if this is "#".                                   *)
LEMMA BelowSplits ==
  ASSUME NEW f, IsFilter(f), NEW S, NEW node \in Seq(S), f \in Seq(S), NEW topic, Len(topic) \in Nat,
         Len(node) < Len(topic)
  PROVE  LET n == Len(node) + 1
         IN /\ Below(f, topic, node) => f[n] \in {topic[n], Plus, Hash}
            /\ \A level \in S :
                 /\ Through(f, topic, Append(node, level)) => f[n] = level
                 /\ level \in {topic[n], Plus, Hash} /\ Through(f, topic, Append(node, level)) =>
                      Below(f, topic, node)
                 /\ Below(f, topic, node) /\ f[n] = level => Through(f, topic, Append(node, level))
                 /\ level = Hash => (Through(f, topic, Append(node, level)) <=> f = Append(node, level))
<1> DEFINE n == Len(node) + 1
<1>1. Len(node) \in Nat /\ Len(f) \in Nat /\ n \in Nat /\ n =< Len(topic)
  BY LenProperties
<1>2. Below(f, topic, node) => f[n] \in {topic[n], Plus, Hash}
  <2> SUFFICES ASSUME Below(f, topic, node) PROVE f[n] \in {topic[n], Plus, Hash}
    OBVIOUS
  <2>1. n \in Len(node) + 1 .. Len(f)
    BY <1>1 DEF Below
  <2> QED
    BY <2>1 DEF Below, Through
<1>3. ASSUME NEW level \in S
      PROVE  /\ Through(f, topic, Append(node, level)) => f[n] = level
             /\ level \in {topic[n], Plus, Hash} /\ Through(f, topic, Append(node, level)) =>
                  Below(f, topic, node)
             /\ Below(f, topic, node) /\ f[n] = level => Through(f, topic, Append(node, level))
             /\ level = Hash => (Through(f, topic, Append(node, level)) <=> f = Append(node, level))
  <2> DEFINE c == Append(node, level)
  <2>1. /\ c \in Seq(S) /\ Len(c) = n
        /\ \A k \in 1 .. Len(node) : c[k] = node[k]
        /\ c[n] = level
    BY AppendProperties
  <2>2. c \in Seq(S)
    BY <2>1
  <2> HIDE DEF c
  <2>3. ASSUME Through(f, topic, c) PROVE f[n] = level /\ n =< Len(f)
    BY <1>1, <2>1, <2>3 DEF Through
  <2>4. ASSUME level \in {topic[n], Plus, Hash}, Through(f, topic, c) PROVE Below(f, topic, node)
    <3>1. n =< Len(f) /\ f[n] = level /\ Len(f) =< Len(topic)
      BY <2>3, <2>4 DEF Through
    <3>2. \A k \in 1 .. Len(node) : f[k] = node[k]
      BY <1>1, <2>1, <2>4 DEF Through
    <3>3. \A k \in n + 1 .. Len(f) : f[k] \in {topic[k], Plus, Hash}
      BY <2>1, <2>4 DEF Through
    <3>4. ASSUME NEW k \in n .. Len(f) PROVE f[k] \in {topic[k], Plus, Hash}
      <4>1. k = n \/ k \in n + 1 .. Len(f)
        BY <1>1
      <4> QED
        BY <2>4, <3>1, <3>3, <4>1
    <3>5. Len(node) =< Len(f) /\ Len(node) < Len(f)
      BY <1>1, <3>1
    <3> QED
      BY <3>1, <3>2, <3>4, <3>5 DEF Below, Through
  <2>5. ASSUME Below(f, topic, node), f[n] = level PROVE Through(f, topic, c)
    <3>1. n =< Len(f) /\ Len(f) =< Len(topic)
      BY <1>1, <2>5 DEF Below, Through
    <3>2. ASSUME NEW k \in 1 .. n PROVE f[k] = c[k]
      <4>1. k = n \/ k \in 1 .. Len(node)
        BY <1>1
      <4> QED
        BY <2>1, <2>5, <4>1 DEF Below, Through
    <3>3. \A k \in n + 1 .. Len(f) : f[k] \in {topic[k], Plus, Hash}
      BY <1>1, <2>5 DEF Below, Through
    <3> QED
      BY <2>1, <3>1, <3>2, <3>3 DEF Through
  <2>6. ASSUME level = Hash PROVE Through(f, topic, c) <=> f = c
    <3>1. ASSUME Through(f, topic, c) PROVE f = c
      <4>1. f[n] = Hash /\ n =< Len(f)
        BY <2>3, <2>6, <3>1
      <4>2. \A k \in 1 .. Len(f) - 1 : f[k] # Hash
        BY DEF IsFilter
      <4>3. Len(f) = n
        BY <1>1, <4>1, <4>2
      <4>4. ~Below(f, topic, c)
        BY <1>1, <2>1, <4>3 DEF Below
      <4> QED
        BY <1>1, <2>1, <2>2, <3>1, <4>4, ThroughMeans
    <3>2. ASSUME f = c PROVE Through(f, topic, c)
      BY <1>1, <2>1, <2>2, <3>2, ThroughMeans
    <3> QED
      BY <3>1, <3>2
  <2> QED
    BY <2>3, <2>4, <2>5, <2>6 DEF c
<1> QED
  BY <1>2, <1>3

-----------------------------------------------------------------------------
(* What a message calls *)

(* The callbacks of the application are for topics that it subscribed to.  *)
OwnCallbacks == \A node \in DOMAIN m_subscriptions : m_subscriptions[node] \in Seq(Filters)

(* Below a node, the calls s are those of the filters that match.          *)
CallsAll(s, f, b) == Count(f, s) = IF b THEN Len(CallbacksAt(f)) ELSE 0

(* The callbacks of a node are called for that filter only.                *)
LEMMA CallbacksAtCounts ==
  ASSUME TreeTypeOK, OwnCallbacks, NEW f, NEW node
  PROVE  CallbacksAt(node) \in Seq(Filters) /\ CallsAll(CallbacksAt(node), f, f = node)
<1>1. CallbacksAt(node) \in Seq(Filters)
  BY EmptySeq DEF OwnCallbacks, CallbacksAt
<1>2. CallbacksAt(node) \in Seq({node})
  BY EmptySeq DEF TreeTypeOK, CallbacksAt
<1>3. Count(f, CallbacksAt(node)) = IF f = node THEN Len(CallbacksAt(node)) ELSE 0
  BY <1>2, CountAllOrNone
<1> QED
  BY <1>1, <1>3 DEF CallsAll

(* One child of a node: it calls all filters that go through it.           *)
LEMMA FollowedCounts ==
  ASSUME TreeTypeOK, OwnCallbacks, NEW topic, Len(topic) \in Nat, NEW f, IsFilter(f), NEW A,
         NEW S, Levels \subseteq S, NEW node \in Seq(S), NEW level \in S, Len(node) < Len(topic),
         Append(node, level) \in DOMAIN m_subscriptions /\ Len(node) + 1 < Len(topic) =>
           /\ A[Append(node, level)] \in Seq(Filters)
           /\ CallsAll(A[Append(node, level)], f, Below(f, topic, Append(node, level)))
  PROVE  /\ Followed(A, topic, node, level) \in Seq(Filters)
         /\ CallsAll(Followed(A, topic, node, level), f, Through(f, topic, Append(node, level)))
<1> DEFINE c == Append(node, level)
           n == Len(node) + 1
           own == CallbacksAt(c)
           more == IF n < Len(topic) THEN A[c] ELSE <<>>
           K == Len(CallbacksAt(f))
<1>1. Len(node) \in Nat /\ n \in Nat \ {0} /\ n =< Len(topic)
  BY LenProperties
<1>2. c \in Seq(S) /\ Len(c) = n
  BY AppendProperties
<1>3. c \in Seq(S)
  BY <1>2
<1>4. f \in Seq(S)
  <2>1. f \in Seq(Levels)
    BY DEF IsFilter
  <2> QED
    BY <2>1, SeqMonotonic
<1>5. Followed(A, topic, node, level) = IF c \in DOMAIN m_subscriptions THEN own \o more ELSE <<>>
  BY DEF Followed, CallbacksAt
<1>6. c \in DOMAIN m_subscriptions /\ n < Len(topic) => A[c] \in Seq(Filters) /\ CallsAll(A[c], f, Below(f, topic, c))
  OBVIOUS
<1> HIDE DEF c
<1>7. own \in Seq(Filters) /\ CallsAll(own, f, f = c)
  BY CallbacksAtCounts
<1>8. K \in Nat
  <2>1. CallbacksAt(f) \in Seq(Filters)
    BY CallbacksAtCounts
  <2> QED
    BY <2>1, LenProperties
<1>9. <<>> \in Seq(Filters) /\ Count(f, <<>>) = 0
  <2>1. <<>> \in Seq(Filters) /\ <<>> \in Seq({f}) /\ Len(<<>>) = 0
    BY EmptySeq
  <2>2. Count(f, <<>>) = IF f = f THEN Len(<<>>) ELSE 0
    BY <2>1, CountAllOrNone
  <2> QED
    BY <2>1, <2>2
<1>10. /\ f = c => Through(f, topic, c) /\ ~Below(f, topic, c)
       /\ f # c => (Through(f, topic, c) <=> Below(f, topic, c))
       /\ n = Len(topic) => ~Below(f, topic, c)
  BY <1>1, <1>2, <1>3, <1>4, ThroughMeans
<1>11. CASE c \notin DOMAIN m_subscriptions
  <2>1. Through(f, topic, c) => K = 0
    <3> SUFFICES ASSUME Through(f, topic, c) PROVE K = 0
      OBVIOUS
    <3>1. Len(c) > 0
      BY <1>1, <1>2
    <3>2. CallbacksAt(f) = <<>>
      BY <1>3, <1>11, <3>1, NodesToCallbacks
    <3> QED
      BY <3>2, EmptySeq
  <2>2. Followed(A, topic, node, level) = <<>>
    BY <1>5, <1>11
  <2> QED
    BY <1>9, <2>1, <2>2 DEF CallsAll, c
<1>12. CASE c \in DOMAIN m_subscriptions
  <2>1. more \in Seq(Filters) /\ CallsAll(more, f, Below(f, topic, c))
    <3>1. CASE n < Len(topic)
      BY <1>6, <1>12, <3>1
    <3>2. CASE ~(n < Len(topic))
      <4>1. n = Len(topic)
        BY <1>1, <3>2
      <4>2. more = <<>>
        BY <3>2
      <4> QED
        BY <1>9, <1>10, <4>1, <4>2 DEF CallsAll
    <3> QED
      BY <3>1, <3>2
  <2>2. more \in Seq(Filters)
    BY <2>1
  <2>3. own \in Seq(Filters)
    BY <1>7
  <2> HIDE DEF more, own, K
  <2>4. own \o more \in Seq(Filters)
    BY <2>2, <2>3, Joined
  <2>5. Count(f, own \o more) = Count(f, own) + Count(f, more)
    BY <2>2, <2>3, CountJoined
  <2>6. Count(f, own) = (IF f = c THEN K ELSE 0) /\ Count(f, more) = IF Below(f, topic, c) THEN K ELSE 0
    BY <1>7, <2>1 DEF CallsAll, K
  <2>7. Count(f, own \o more) = IF Through(f, topic, c) THEN K ELSE 0
    <3>1. CASE f = c
      BY <1>8, <1>10, <2>5, <2>6, <3>1
    <3>2. CASE f # c
      BY <1>8, <1>10, <2>5, <2>6, <3>2
    <3> QED
      BY <3>1, <3>2
  <2>8. Followed(A, topic, node, level) = own \o more
    BY <1>5, <1>12
  <2> QED
    BY <2>4, <2>7, <2>8 DEF CallsAll, K, c
<1> QED
  BY <1>11, <1>12

(* A node: it calls all filters below it, each through one child.          *)
LEMMA CalledBelowCounts ==
  ASSUME TreeTypeOK, OwnCallbacks, NEW topic, Len(topic) \in Nat, NEW f, IsFilter(f), NEW A,
         NEW node \in Visited, Len(node) < Len(topic),
         topic[Len(node) + 1] \notin {Plus, Hash},
         \A level :
           Append(node, level) \in DOMAIN m_subscriptions /\ Len(node) + 1 < Len(topic) =>
             /\ A[Append(node, level)] \in Seq(Filters)
             /\ CallsAll(A[Append(node, level)], f, Below(f, topic, Append(node, level)))
  PROVE  /\ CalledBelow(A, topic, node) \in Seq(Filters)
         /\ CallsAll(CalledBelow(A, topic, node), f, Below(f, topic, node))
<1> DEFINE n == Len(node) + 1
           l == topic[n]
           S == Levels \cup {l, Plus, Hash}
           named == Followed(A, topic, node, l)
           plus == Followed(A, topic, node, Plus)
           hash == CallbacksAt(Append(node, Hash))
           K == Len(CallbacksAt(f))
           T(level) == Through(f, topic, Append(node, level))
<1>1. l \in S /\ Plus \in S /\ Hash \in S /\ Levels \subseteq S
  OBVIOUS
<1>2. node \in Seq(Levels) /\ f \in Seq(Levels)
  BY VisitedAre DEF IsFilter
<1> HIDE DEF S
<1>3. node \in Seq(S)
  BY <1>1, <1>2, SeqMonotonic
<1>4. f \in Seq(S)
  BY <1>1, <1>2, SeqMonotonic
<1>5. l # Plus /\ l # Hash /\ Plus # Hash
  OBVIOUS
<1>6. named \in Seq(Filters) /\ CallsAll(named, f, T(l))
  <2> HIDE DEF l
  <2> QED
    BY <1>1, <1>3, FollowedCounts
<1>7. plus \in Seq(Filters) /\ CallsAll(plus, f, T(Plus))
  BY <1>1, <1>3, FollowedCounts
<1>8. hash \in Seq(Filters) /\ CallsAll(hash, f, f = Append(node, Hash))
  BY CallbacksAtCounts
<1>9. /\ Below(f, topic, node) => f[n] \in {l, Plus, Hash}
      /\ \A level \in S :
           /\ T(level) => f[n] = level
           /\ level \in {l, Plus, Hash} /\ T(level) => Below(f, topic, node)
           /\ Below(f, topic, node) /\ f[n] = level => T(level)
           /\ level = Hash => (T(level) <=> f = Append(node, level))
  BY <1>3, <1>4, BelowSplits
<1>10. K \in Nat
  <2>1. CallbacksAt(f) \in Seq(Filters)
    BY CallbacksAtCounts
  <2> QED
    BY <2>1, LenProperties
<1>11. CalledBelow(A, topic, node) = (named \o plus) \o hash
  BY DEF CalledBelow
<1>12. named \in Seq(Filters)
  BY <1>6
<1>13. plus \in Seq(Filters)
  BY <1>7
<1>14. hash \in Seq(Filters)
  BY <1>8
<1> HIDE DEF named, plus, hash, T, l, n, K
<1>15. named \o plus \in Seq(Filters)
  BY <1>12, <1>13, Joined
<1>16. (named \o plus) \o hash \in Seq(Filters)
  BY <1>14, <1>15, Joined
<1>17. Count(f, named \o plus) = Count(f, named) + Count(f, plus)
  BY <1>12, <1>13, CountJoined
<1>18. Count(f, (named \o plus) \o hash) = Count(f, named \o plus) + Count(f, hash)
  BY <1>14, <1>15, CountJoined
<1>19. /\ Count(f, named) = IF T(l) THEN K ELSE 0
       /\ Count(f, plus) = IF T(Plus) THEN K ELSE 0
       /\ Count(f, hash) = IF T(Hash) THEN K ELSE 0
  BY <1>1, <1>6, <1>7, <1>8, <1>9 DEF CallsAll, K
<1>20. /\ Below(f, topic, node) => T(l) \/ T(Plus) \/ T(Hash)
       /\ T(l) \/ T(Plus) \/ T(Hash) => Below(f, topic, node)
       /\ ~(T(l) /\ T(Plus)) /\ ~(T(l) /\ T(Hash)) /\ ~(T(Plus) /\ T(Hash))
  BY <1>1, <1>5, <1>9
<1>21. Count(f, (named \o plus) \o hash) = IF Below(f, topic, node) THEN K ELSE 0
  <2>1. CASE T(l)
    BY <1>10, <1>17, <1>18, <1>19, <1>20, <2>1
  <2>2. CASE T(Plus)
    BY <1>10, <1>17, <1>18, <1>19, <1>20, <2>2
  <2>3. CASE T(Hash)
    BY <1>10, <1>17, <1>18, <1>19, <1>20, <2>3
  <2>4. CASE ~T(l) /\ ~T(Plus) /\ ~T(Hash)
    BY <1>10, <1>17, <1>18, <1>19, <1>20, <2>4
  <2> QED
    BY <2>1, <2>2, <2>3, <2>4
<1> QED
  BY <1>11, <1>16, <1>21 DEF CallsAll, K

(* findSubscriptionMatch() calls the callbacks of a filter, each once, if  *)
(* and only if its levels match those of the topic.                        *)
LEMMA MatchCounts ==
  ASSUME TreeTypeOK, OwnCallbacks, NEW topic, Len(topic) \in Nat \ {0},
         \A k \in 1 .. Len(topic) : topic[k] \notin {Plus, Hash}, NEW f, IsFilter(f)
  PROVE  /\ FindSubscriptionMatch(topic) \in Seq(Filters)
         /\ CallsAll(FindSubscriptionMatch(topic), f, Below(f, topic, <<>>))
<1> DEFINE N == Len(topic)
<1>1. PICK A : /\ FindSubscriptionMatch(topic) = A[<<>>]
               /\ \A node \in Visited : A[node] = CalledBelow(A, topic, node)
  BY MatchRecursion
<1> DEFINE Good(node) == A[node] \in Seq(Filters) /\ CallsAll(A[node], f, Below(f, topic, node))
           P == {k \in 0 .. N : \A node \in Visited : Len(node) < N /\ Len(node) >= N - k => Good(node)}
<1>2. /\ \A node \in Visited : Len(node) \in Nat
      /\ \A node \in Visited : \A level :
           Append(node, level) \in DOMAIN m_subscriptions =>
             Append(node, level) \in Visited /\ Len(Append(node, level)) = Len(node) + 1
  BY VisitedAre DEF Visited
<1>3. N \in Nat \ {0}
  OBVIOUS
<1>4. ASSUME NEW node \in Visited, Len(node) < N,
             \A level : Append(node, level) \in DOMAIN m_subscriptions /\ Len(node) + 1 < N =>
                          Good(Append(node, level))
      PROVE  Good(node)
  <2>1. topic[Len(node) + 1] \notin {Plus, Hash}
    <3>1. Len(node) + 1 \in 1 .. N
      BY <1>2, <1>3, <1>4
    <3> QED
      BY <3>1
  <2>2. /\ CalledBelow(A, topic, node) \in Seq(Filters)
        /\ CallsAll(CalledBelow(A, topic, node), f, Below(f, topic, node))
    BY <1>4, <2>1, CalledBelowCounts
  <2>3. A[node] = CalledBelow(A, topic, node)
    BY <1>1
  <2> QED
    BY <2>2, <2>3
<1> HIDE DEF N, Good
<1>5. 0 \in P
  BY <1>2, <1>3
<1>6. ASSUME NEW k \in 1 .. N, k - 1 \in P PROVE k \in P
  <2>1. ASSUME NEW node \in Visited, Len(node) < N, Len(node) >= N - k PROVE Good(node)
    <3>1. ASSUME NEW level, Append(node, level) \in DOMAIN m_subscriptions, Len(node) + 1 < N
          PROVE  Good(Append(node, level))
      <4> DEFINE c == Append(node, level)
      <4>1. c \in Visited /\ Len(c) = Len(node) + 1
        BY <1>2, <3>1
      <4>2. Len(c) < N /\ Len(c) >= N - (k - 1)
        BY <1>2, <1>3, <2>1, <3>1, <4>1
      <4> HIDE DEF c
      <4>3. Good(c)
        BY <1>6, <4>1, <4>2
      <4> QED
        BY <4>3 DEF c
    <3> QED
      BY <1>4, <2>1, <3>1
  <2>2. k \in 0 .. N
    BY <1>3
  <2> QED
    BY <2>1, <2>2
<1>7. \A k \in 0 .. N : k \in P
  <2>1. N \in Nat
    BY <1>3
  <2> HIDE DEF P
  <2> QED
    BY <1>5, <1>6, <2>1, Induction
<1>8. Good(<<>>)
  <2>1. N \in P
    <3>1. N \in 0 .. N
      BY <1>3
    <3> QED
      BY <1>7, <3>1
  <2>2. <<>> \in Visited /\ Len(<<>>) = 0
    BY EmptySeq DEF Visited
  <2>3. 0 < N /\ 0 >= N - N
    BY <1>3
  <2> QED
    BY <2>1, <2>2, <2>3
<1> QED
  BY <1>1, <1>8 DEF Good

(* Reading from the top: a filter that matches the topic level by level is *)
(* below the root.                                                         *)
LEMMA MatchingIsBelow ==
  ASSUME NEW S, NEW topic \in Seq(S), Len(topic) > 0, NEW f \in Filters, MatchesBelow(f, topic)
  PROVE  Below(f, topic, <<>>)
<1>1. Len(topic) \in Nat /\ f \in Seq(Levels) /\ Len(f) \in Nat \ {0} /\ DOMAIN f = 1 .. Len(f)
  BY LenProperties
<1>2. Len(f) =< Len(topic) /\ \A k \in 1 .. Len(f) : f[k] \in {topic[k], Plus, Hash}
  BY <1>1 DEF MatchesBelow
<1>3. Len(<<>>) = 0
  BY EmptySeq
<1> QED
  BY <1>1, <1>2, <1>3 DEF Below, Through

(* subscribe() adds a callback of the application, and unsubscribe() none. *)
LEMMA NextOwnCallbacks == TreeInv /\ OwnCallbacks /\ [Next]_vars => OwnCallbacks'
<1> SUFFICES ASSUME TreeInv, OwnCallbacks, [Next]_vars PROVE OwnCallbacks'
  OBVIOUS
<1>1. CASE ClearTree
  <2>1. DOMAIN m_subscriptions' = {}
    BY <1>1 DEF ClearTree, NoNodes
  <2> QED
    BY <2>1 DEF OwnCallbacks
<1>2. ASSUME NEW f \in Filters, AddCallback(f) PROVE OwnCallbacks'
  <2> DEFINE E == DOMAIN m_subscriptions \cup PathTo(f)
             New(node) == IF node = f THEN <<f>> ELSE <<>>
  <2>1. m_subscriptions' = [node \in E |-> CallbacksAt(node) \o New(node)]
    BY <1>2 DEF AddCallback
  <2>2. ASSUME NEW node \in E PROVE m_subscriptions'[node] \in Seq(Filters)
    <3>1. m_subscriptions'[node] = CallbacksAt(node) \o New(node)
      BY <2>1
    <3>2. CallbacksAt(node) \in Seq(Filters)
      BY CallbacksAtCounts DEF TreeInv
    <3>3. New(node) \in Seq(Filters)
      BY EmptySeq
    <3> DEFINE own == CallbacksAt(node)
               new == New(node)
    <3>4. own \in Seq(Filters)
      BY <3>2
    <3>5. new \in Seq(Filters)
      BY <3>3
    <3> HIDE DEF own, new
    <3>6. own \o new \in Seq(Filters)
      BY <3>4, <3>5, Joined
    <3> QED
      BY <3>1, <3>6 DEF own, new
  <2>3. DOMAIN m_subscriptions' = E
    BY <2>1
  <2> QED
    BY <2>2, <2>3 DEF OwnCallbacks
<1>3. ASSUME NEW f \in Filters, RemoveCallbacks(f) PROVE OwnCallbacks'
  <2> DEFINE X == Pruned(f)
  <2>1. X \subseteq DOMAIN m_subscriptions
    BY PrunedIsRight DEF PrunedAbove, TreeInv
  <2>2. m_subscriptions' = [node \in X |-> IF node = f THEN <<>> ELSE m_subscriptions[node]]
    BY <1>3 DEF RemoveCallbacks
  <2> HIDE DEF X
  <2>3. \A node \in X : m_subscriptions'[node] \in Seq(Filters)
    BY <2>1, <2>2, EmptySeq DEF OwnCallbacks
  <2> QED
    BY <2>2, <2>3 DEF OwnCallbacks
<1>4. CASE UNCHANGED m_subscriptions
  BY <1>4 DEF OwnCallbacks
<1>5. \/ ClearTree \/ UNCHANGED m_subscriptions
      \/ \E f \in Filters : AddCallback(f) \/ RemoveCallbacks(f)
  BY Zenon DEF Next, vars, Connect, Disconnect, SendRefused, Subscribe, Unsubscribe, Open, LinkLost,
               BrokerSends, ReadHeader, ReadLength, ReadData, Accepted, MessageReceived, Acknowledged,
               Rejected, Dispatch
<1> QED
  BY <1>1, <1>2, <1>3, <1>4, <1>5

=============================================================================
