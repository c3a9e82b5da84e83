--------------------------- MODULE SubscriptionTree ---------------------------
(***************************************************************************)
(* m_subscriptions, the tree of topic levels with the callbacks of the     *)
(* application: subscribe() adds to it, unsubscribe() removes the nodes    *)
(* that are empty, and findSubscriptionMatch() calls what matches.         *)
(*                                                                         *)
(* A topic is the sequence of its levels, a node of the tree the path to   *)
(* it, and the tree a function from its nodes to their callbacks.  The     *)
(* application's callback for a topic has the topic as its name.           *)
(***************************************************************************)
EXTENDS Integers, Sequences, SequencesExt, FiniteSetsExt

CONSTANTS
  Plus, Hash,     (* the levels "+" and "#"                                 *)
  Empty,          (* the level without a character, as in "a//b" and "a/"   *)
  Filters,        (* the topics that the application subscribes to          *)
  MaxCallbacks    (* bound: callbacks in the tree                           *)

(* The levels that these topics have *)
Levels == UNION {ToSet(f) : f \in Filters}

ASSUME TreeAssumption ==
  /\ Filters \subseteq Seq(Levels)
  /\ \A f \in Filters : Len(f) > 0 /\ \A i \in 1 .. Len(f) - 1 : f[i] # Hash
  /\ Plus # Hash /\ Empty \notin {Plus, Hash}
  /\ MaxCallbacks \in Nat

VARIABLE m_subscriptions

NoNodes == <<>>    (* an empty std::map *)

TreeInit == m_subscriptions = NoNodes

(* The nodes on the way to a topic *)
PathTo(topic) == {SubSeq(topic, 1, n) : n \in 1 .. Len(topic)}

CallbacksAt(node) == IF node \in DOMAIN m_subscriptions THEN m_subscriptions[node] ELSE <<>>

(* The bound: callbacks that are registered *)
Registered == MapThenSumSet(LAMBDA node : Len(m_subscriptions[node]), DOMAIN m_subscriptions)

(* subscribe(): the nodes on the way to the topic are there or made. *)
AddCallback(topic) ==
  /\ Registered < MaxCallbacks
  /\ m_subscriptions' =
       [node \in DOMAIN m_subscriptions \cup PathTo(topic) |->
          CallbacksAt(node) \o (IF node = topic THEN <<topic>> ELSE <<>>)]

Pruned_LeafOnly(topic) ==
  IF topic[Len(topic)] # Empty /\ ~ \E node \in DOMAIN m_subscriptions : IsStrictPrefix(topic, node)
    THEN DOMAIN m_subscriptions \ {topic}
    ELSE DOMAIN m_subscriptions

PruneLevel_ChildrenOnly(topic, n, nodes) ==
  LET node == SubSeq(topic, 1, n)
  IN IF topic[n] # Empty /\ ~ \E child \in nodes : IsStrictPrefix(node, child)
       THEN nodes \ {node} ELSE nodes

(* What is left of the nodes once the loop over reverse has been at level  *)
(* n: its node is removed if it is without callbacks and children, unless  *)
(* its name is empty, as remove_next is then.                              *)
PruneLevel(topic, n, nodes) ==
  LET node == SubSeq(topic, 1, n)
  IN IF /\ topic[n] # Empty
        /\ node = topic \/ m_subscriptions[node] = <<>>
        /\ ~ \E child \in nodes : IsStrictPrefix(node, child)
       THEN nodes \ {node} ELSE nodes

(* The loop, from the last level to the first: what is left after k levels *)
Pruned(topic) ==
  LET Left[k \in 0 .. Len(topic)] ==
        IF k = 0 THEN DOMAIN m_subscriptions
        ELSE PruneLevel(topic, Len(topic) + 1 - k, Left[k - 1])
  IN Left[Len(topic)]

(* unsubscribe() of a topic that has callbacks; of any other one it does   *)
(* nothing to the tree, or what module Client says.                        *)
RemoveCallbacks(topic) ==
  /\ CallbacksAt(topic) # <<>>
  /\ m_subscriptions' =
       [node \in Pruned(topic) |-> IF node = topic THEN <<>> ELSE m_subscriptions[node]]

(* Impl::disconnect *)
ClearTree == m_subscriptions' = NoNodes

FindSubscriptionMatch_FirstOnly(topic) ==
  LET At[node \in DOMAIN m_subscriptions \cup {<<>>}] ==
        LET n == Len(node) + 1
            Follow(level) ==
              LET child == Append(node, level)
              IN IF child \notin DOMAIN m_subscriptions THEN <<>>
                 ELSE m_subscriptions[child] \o (IF n < Len(topic) THEN At[child] ELSE <<>>)
        IN (IF Append(node, topic[n]) \in DOMAIN m_subscriptions
              THEN Follow(topic[n]) ELSE Follow(Plus))
           \o CallbacksAt(Append(node, Hash))
  IN At[<<>>]

(* The callbacks that a message on the topic calls, in this order: below a *)
(* node those of the level's own name, of "+" and of "#".                  *)
FindSubscriptionMatch(topic) ==
  LET At[node \in DOMAIN m_subscriptions \cup {<<>>}] ==
        LET n == Len(node) + 1
            Follow(level) ==
              LET child == Append(node, level)
              IN IF child \notin DOMAIN m_subscriptions THEN <<>>
                 ELSE m_subscriptions[child] \o (IF n < Len(topic) THEN At[child] ELSE <<>>)
        IN Follow(topic[n]) \o Follow(Plus) \o CallbacksAt(Append(node, Hash))
  IN At[<<>>]

-----------------------------------------------------------------------------
TreeTypeOK ==
  /\ DOMAIN m_subscriptions \subseteq UNION {PathTo(f) : f \in Filters}
  /\ \A node \in DOMAIN m_subscriptions :
       /\ PathTo(node) \subseteq DOMAIN m_subscriptions
       /\ m_subscriptions[node] \in Seq({node})

(* "remove any empty nodes": what unsubscribe() achieves of it.  Whatever  *)
(* is subscribed and then unsubscribed, and in which order, the nodes that *)
(* stay without a callback at or below them are levels without name, which *)
(* the loop never removes, and the nodes above such a level.               *)
NamedNodesPruned ==
  \A node \in DOMAIN m_subscriptions :
    \E below \in DOMAIN m_subscriptions :
      /\ IsPrefix(node, below)
      /\ m_subscriptions[below] # <<>> \/ Last(below) = Empty

=============================================================================
