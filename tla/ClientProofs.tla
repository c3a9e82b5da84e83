----------------------------- MODULE ClientProofs -----------------------------
(***************************************************************************)
(* Proofs about the data of a client: its publish queue, its send queue,   *)
(* and its subscriptions.  What the broker has for the session agrees with *)
(* m_subscription_topics once they are restored, and the tree holds no     *)
(* callback for a topic that is not in this set.                           *)
(***************************************************************************)
EXTENDS Client, SequenceTheorems, TLAPS

USE ClientAssumption DEF ClientAssumption

(* A packet that is put in front moves the others by one.                  *)
LEMMA InFront ==
  ASSUME NEW S, NEW q \in Seq(S), NEW p \in S
  PROVE  /\ <<p>> \o q \in Seq(S)
         /\ Len(<<p>> \o q) = Len(q) + 1
         /\ (<<p>> \o q)[1] = p
         /\ \A i \in 1 .. Len(q) : (<<p>> \o q)[i + 1] = q[i]
         /\ \A i \in 2 .. Len(q) + 1 : (<<p>> \o q)[i] = q[i - 1]
<1>1. <<p>> \in Seq(S) /\ Len(<<p>>) = 1 /\ <<p>>[1] = p
  OBVIOUS
<1> DEFINE r == <<p>> \o q
<1>2. /\ r \in Seq(S) /\ Len(r) = 1 + Len(q)
      /\ \A i \in 1 .. 1 + Len(q) : r[i] = IF i =< 1 THEN p ELSE q[i - 1]
  BY <1>1, ConcatProperties
<1> HIDE DEF r
<1>3. Len(q) \in Nat
  BY LenProperties
<1>4. r[1] = p
  BY <1>2, <1>3
<1>5. \A i \in 1 .. Len(q) : r[i + 1] = q[i]
  BY <1>2, <1>3
<1>6. \A i \in 2 .. Len(q) + 1 : r[i] = q[i - 1]
  BY <1>2, <1>3
<1> QED
  BY <1>2, <1>3, <1>4, <1>5, <1>6 DEF r

(* A packet that is appended leaves the others where they are.             *)
LEMMA AtTheEnd ==
  ASSUME NEW S, NEW q \in Seq(S), NEW p \in S
  PROVE  /\ Append(q, p) \in Seq(S)
         /\ Len(Append(q, p)) = Len(q) + 1
         /\ Append(q, p)[Len(q) + 1] = p
         /\ \A i \in 1 .. Len(q) : Append(q, p)[i] = q[i]
BY AppendProperties

(* Taking the first packet moves the others by one.                        *)
LEMMA FirstTaken ==
  ASSUME NEW S, NEW q \in Seq(S), q # <<>>
  PROVE  /\ Tail(q) \in Seq(S) /\ Head(q) \in S /\ Head(q) = q[1]
         /\ Len(q) \in Nat \ {0} /\ Len(Tail(q)) = Len(q) - 1
         /\ \A i \in 1 .. Len(q) - 1 : Tail(q)[i] = q[i + 1]
BY HeadTailProperties, LenProperties

(* Dropping the last one leaves the others where they are.                 *)
LEMMA LastDropped ==
  ASSUME NEW S, NEW q \in Seq(S), q # <<>>
  PROVE  /\ Front(q) \in Seq(S)
         /\ Len(Front(q)) = Len(q) - 1
         /\ \A i \in 1 .. Len(q) - 1 : Front(q)[i] = q[i]
<1>1. Len(q) \in Nat \ {0}
  BY LenProperties, EmptySeq
<1> DEFINE n == Len(q) - 1
<1>2. n \in Nat /\ \A i \in 1 .. n : q[i] \in S
  BY <1>1, ElementOfSeq
<1>3. /\ SubSeq(q, 1, n) \in Seq(S)
      /\ Len(SubSeq(q, 1, n)) = IF 1 =< n THEN n - 1 + 1 ELSE 0
      /\ \A i \in 1 .. n - 1 + 1 : SubSeq(q, 1, n)[i] = q[1 + i - 1]
  BY <1>2, SubSeqProperties
<1>4. Front(q) = SubSeq(q, 1, n)
  BY DEF Front
<1> HIDE DEF n
<1>5. /\ SubSeq(q, 1, n) \in Seq(S)
      /\ Len(SubSeq(q, 1, n)) = n
      /\ \A i \in 1 .. n : SubSeq(q, 1, n)[i] = q[i]
  BY <1>2, <1>3
<1> QED
  BY <1>4, <1>5 DEF n

-----------------------------------------------------------------------------
(* Types *)

(* There are ids, and the next one is never zero.                          *)
LEMMA Ids ==
  ASSUME TypeOK
  PROVE  /\ IdRange \in Nat /\ IdRange > 2
         /\ PacketId \in 1 .. IdRange - 1
         /\ NextId => m_packet_id' = IF PacketId = IdRange - 1 THEN 0 ELSE PacketId + 1
<1>1. IdRange \in Nat /\ IdRange > 2
  BY DEF TypeOK
<1>2. PacketId \in 1 .. IdRange - 1
  BY <1>1 DEF TypeOK, PacketId
<1>3. ASSUME NEW n \in 1 .. IdRange - 1
      PROVE  (n + 1) % IdRange = IF n = IdRange - 1 THEN 0 ELSE n + 1
  BY <1>1, <1>3
<1> QED
  BY <1>1, <1>2, <1>3 DEF NextId

(* The packets that are put into the send queue.                           *)
LEMMA PacketTypes ==
  ASSUME TypeOK
  PROVE  /\ CONNECT \in Packets /\ PINGREQ \in Packets
         /\ \A m \in 1 .. MaxMessages : Packet("PUBLISH", m, 0) \in Packets
         /\ \A t \in Topics :
              /\ Packet("SUBSCRIBE", t, PacketId) \in Packets
              /\ Packet("UNSUBSCRIBE", t, PacketId) \in Packets
<1>1. PacketId \in 1 .. IdRange - 1 /\ 0 \in 0 .. MaxMessages
  BY Ids
<1>2. \A m \in 1 .. MaxMessages : m \in 0 .. MaxMessages
  OBVIOUS
<1> QED
  BY <1>1, <1>2 DEF CONNECT, PINGREQ, Packet, Packets

(* toPublishQueue does not pop from an empty queue. *)
HasRoom == m_publish_queue_type # "DROP" => m_publish_queue_size > 0

(* When connectionStateChange runs, and when the queues are empty: a       *)
(* client that is not connecting has nothing in its publish queue, nor has *)
(* one whose FIFO or LIFO has size 0, and one that is disconnected has     *)
(* nothing to send either.                                                 *)
Control ==
  /\ m_publish_queue_type # "DROP" /\ m_publish_queue_size = 0 =>
       m_publish_queue = <<>> /\ accepted = <<>>
  /\ restoring => state = "CONNECTED" /\ link \in {"up", "lost"}
  /\ link = "up" => state = "CONNECTED"
  /\ link # "down" => state \in {"CONNECTING", "CONNECTED"}
  /\ state = "DISCONNECTED" \/ (state = "CONNECTED" /\ ~restoring) =>
       m_publish_queue = <<>> /\ accepted = <<>>
  /\ state = "DISCONNECTED" => m_send_queue = <<>> /\ broker = {}

Base == TypeOK /\ Control

(* Appending a message that was published just now keeps the type of the   *)
(* publish queue: FIFO and LIFO remove from a queue that is not empty.     *)
LEMMA ToPublishQueueType ==
  ASSUME Base, HasRoom, NEW m \in 1 .. MaxMessages
  PROVE  ToPublishQueue(m) \in Seq(1 .. MaxMessages)
<1> DEFINE S == 1 .. MaxMessages
           q == m_publish_queue
<1>1. q \in Seq(S) /\ m \in S /\ Len(q) \in Nat /\ (Len(q) > 0 => q # <<>>)
  BY LenProperties DEF Base, TypeOK
<1>2. /\ m_publish_queue_type \in {"DROP", "FIFO", "LIFO"}
      /\ m_publish_queue_type # "DROP" => m_publish_queue_size > 0
      /\ m_publish_queue_size \in Nat
  BY DEF Base, TypeOK, HasRoom
<1> HIDE DEF S, q
<1>3. Append(q, m) \in Seq(S)
  BY <1>1, AtTheEnd
<1>4. CASE Len(q) >= m_publish_queue_size /\ m_publish_queue_type # "DROP"
  <2>1. q # <<>>
    BY <1>1, <1>2, <1>4
  <2>2. Tail(q) \in Seq(S) /\ Front(q) \in Seq(S)
    BY <1>1, <2>1, FirstTaken, LastDropped
  <2>3. Append(Tail(q), m) \in Seq(S) /\ Append(Front(q), m) \in Seq(S)
    BY <1>1, <2>2, AtTheEnd
  <2> QED
    BY <1>2, <1>4, <2>3 DEF ToPublishQueue, S, q
<1> QED
  BY <1>1, <1>2, <1>3, <1>4 DEF ToPublishQueue, S, q

(* Nothing but the steps of Next changes anything.                         *)
LEMMA BaseStutters == Base /\ UNCHANGED vars => Base'
<1> SUFFICES ASSUME Base, UNCHANGED vars PROVE Base'
  OBVIOUS
<1> USE DEF vars, setupVars, subVars, queueVars, wireVars
<1>1. TypeOK'
  BY DEF Base, TypeOK, Packets
<1>2. Control'
  BY DEF Base, Control
<1> QED
  BY <1>1, <1>2 DEF Base

(* A message is queued only where the queue has room for one.              *)
LEMMA QueuedHasRoom == Base /\ PublishQueued => HasRoom
BY DEF Base, TypeOK, Control, HasRoom, PublishQueued, PopsEmpty

(* Every step keeps the types and what Control says.                       *)
LEMMA BaseStep == Base /\ [Next]_vars => Base'
<1> SUFFICES ASSUME Base, [Next]_vars PROVE Base'
  OBVIOUS
<1> USE DEF Base, setupVars, subVars, queueVars, wireVars
<1>0. /\ m_send_queue \in Seq(Packets) /\ m_publish_queue \in Seq(1 .. MaxMessages)
      /\ accepted \in Seq(1 .. MaxMessages)
      /\ <<>> \in Seq(Packets) /\ <<>> \in Seq(1 .. MaxMessages)
  BY DEF TypeOK
<1>1. ASSUME NEW type \in {"DROP", "FIFO", "LIFO"}, NEW size \in PublishQueueSizes, SetPublishQueue(type, size)
      PROVE  Base'
  BY <1>1 DEF TypeOK, Control, SetPublishQueue
<1>2. ASSUME NEW size \in SendQueueSizes, SetSendQueue(size)
      PROVE  Base'
  BY <1>2 DEF TypeOK, Control, SetSendQueue
<1>3. CASE Connect
  BY <1>3 DEF TypeOK, Control, Connect
<1>4. CASE Disconnect
  BY <1>4, <1>0 DEF TypeOK, Control, Disconnect, DropConnection
<1>5. CASE PublishQueued
  <2>1. published' \in 1 .. MaxMessages
    BY <1>5 DEF PublishQueued, TypeOK
  <2>2. m_publish_queue' \in Seq(1 .. MaxMessages) /\ accepted' \in Seq(1 .. MaxMessages)
    BY <1>0, <1>5, <2>1, QueuedHasRoom, ToPublishQueueType, AtTheEnd DEF PublishQueued
  <2> QED
    <3>1. TypeOK'
      BY <1>5, <2>1, <2>2 DEF TypeOK, PublishQueued
    <3>2. m_publish_queue_type' # "DROP" => m_publish_queue_size' # 0
      BY <1>5, QueuedHasRoom DEF HasRoom, TypeOK, PublishQueued
    <3>3. Control'
      BY <1>5, <3>2 DEF Control, PublishQueued
    <3> QED
      BY <3>1, <3>3
<1>6. CASE PublishSent
  <2>1. published' \in 1 .. MaxMessages
    BY <1>6 DEF PublishSent, TypeOK
  <2>2. Packet("PUBLISH", published', 0) \in Packets
    BY <2>1, PacketTypes
  <2>3. m_send_queue' \in Seq(Packets)
    <3>1. m_send_queue' \in {m_send_queue, Append(m_send_queue, Packet("PUBLISH", published', 0))}
      BY <1>6 DEF PublishSent, Enqueue
    <3>2. Append(m_send_queue, Packet("PUBLISH", published', 0)) \in Seq(Packets)
      BY <1>0, <2>2, AtTheEnd
    <3> QED
      BY <1>0, <3>1, <3>2
  <2> QED
    BY <1>6, <2>1, <2>3 DEF TypeOK, Control, PublishSent
<1>7. ASSUME NEW t \in Topics, NEW type \in {"SUBSCRIBE", "UNSUBSCRIBE"}, NEW topics \in SUBSET Topics,
             SendOrReconnect(type, t, topics), m_subscription_topics' \in SUBSET Topics,
             UNCHANGED <<state, setupVars, restoring, todo, last, published>>
      PROVE  Base'
  <2>1. Packet(type, t, PacketId) \in Packets
    BY PacketTypes
  <2>2. m_send_queue' \in Seq(Packets)
    <3>1. m_send_queue' \in {<<>>, m_send_queue, Append(m_send_queue, Packet(type, t, PacketId))}
      BY <1>7 DEF SendOrReconnect, DropConnection, Enqueue
    <3>2. Append(m_send_queue, Packet(type, t, PacketId)) \in Seq(Packets)
      BY <1>0, <2>1, AtTheEnd
    <3> QED
      BY <1>0, <3>1, <3>2
  <2>3. m_packet_id' \in 0 .. IdRange - 1
    <3>1. m_packet_id' = m_packet_id \/ NextId
      BY <1>7 DEF SendOrReconnect
    <3>2. NextId => m_packet_id' \in 0 .. IdRange - 1
      BY Ids
    <3> QED
      BY <3>1, <3>2 DEF TypeOK
  <2> QED
    BY <1>0, <1>7, <2>2, <2>3 DEF TypeOK, Control, SendOrReconnect, DropConnection
<1>8. ASSUME NEW t \in Topics, Subscribe(t) PROVE Base'
  <2>1. m_subscriptions \cup {t} \in SUBSET Topics /\ m_subscription_topics' \in SUBSET Topics
    BY <1>8 DEF Subscribe, TypeOK
  <2> QED
    BY <1>7, <1>8, <2>1 DEF Subscribe
<1>9. ASSUME NEW t \in Topics, Unsubscribe(t) PROVE Base'
  <2>1. m_subscriptions \ {t} \in SUBSET Topics /\ m_subscription_topics' \in SUBSET Topics
    BY <1>9 DEF Unsubscribe, TypeOK
  <2> QED
    BY <1>7, <1>9, <2>1 DEF Unsubscribe
<1>10. ASSUME NEW why \in {"SELF_JOIN", "UNDEFINED", "POP_EMPTY"}, Abort(why) PROVE Base'
  <2>1. restoring' = FALSE /\ restoring' \in BOOLEAN
    BY <1>10, Zenon DEF Abort
  <2> QED
    BY <1>10, <2>1 DEF TypeOK, Control, Abort
<1>11. ASSUME NEW t \in Topics, UnsubscribeMissing(t) PROVE Base'
  BY <1>10, <1>11 DEF UnsubscribeMissing
<1>12. CASE RestoreRefused \/ PublishPopsEmpty
  BY <1>10, <1>12 DEF RestoreRefused, PublishPopsEmpty
<1>13. CASE LinkOpens
  <2>1. m_send_queue' \in Seq(Packets)
    BY <1>0, <1>13, PacketTypes, InFront DEF LinkOpens
  <2> QED
    BY <1>13, <2>1 DEF TypeOK, Control, LinkOpens
<1>14. CASE WritePacket
  <2>1. m_send_queue' \in Seq(Packets) /\ Head(m_send_queue) \in Packets
    BY <1>0, <1>14, FirstTaken DEF WritePacket
  <2>2. PICK p \in Packets : p = Head(m_send_queue)
    BY <2>1
  <2>3. broker' \subseteq Topics
    BY <1>14, <2>2 DEF WritePacket, Apply, Packets, TypeOK
  <2>4. last' \in 0 .. MaxMessages
    BY <1>14, <2>2 DEF WritePacket, Packets, TypeOK
  <2> QED
    BY <1>14, <2>1, <2>3, <2>4 DEF TypeOK, Control, WritePacket
<1>15. CASE SendPingRequest
  <2>1. m_send_queue' \in Seq(Packets)
    BY <1>0, <1>15, PacketTypes, InFront DEF SendPingRequest
  <2> QED
    BY <1>15, <2>1 DEF TypeOK, Control, SendPingRequest
<1>16. CASE LinkLost
  BY <1>16 DEF TypeOK, Control, LinkLost
<1>17. CASE ConnectionUp
  <2>1. restoring' = TRUE /\ restoring' \in BOOLEAN
    BY <1>17, Zenon DEF ConnectionUp
  <2> QED
    BY <1>17, <2>1 DEF TypeOK, Control, ConnectionUp
<1>18. CASE RestoreSubscription
  <2>1. PICK t \in todo : /\ todo' = todo \ {t}
                          /\ Enqueue(Packet("SUBSCRIBE", t, PacketId))
                          /\ NextId
    BY <1>18 DEF RestoreSubscription
  <2>2. Packet("SUBSCRIBE", t, PacketId) \in Packets
    BY <2>1, PacketTypes DEF TypeOK
  <2>3. m_send_queue' \in Seq(Packets)
    BY <1>0, <2>1, <2>2, AtTheEnd DEF Enqueue
  <2>4. m_packet_id' \in 0 .. IdRange - 1
    BY <2>1, Ids
  <2> QED
    BY <1>18, <2>1, <2>3, <2>4 DEF TypeOK, Control, RestoreSubscription
<1>19. CASE FlushPublish
  <2>1. Head(m_publish_queue) \in 1 .. MaxMessages /\ m_publish_queue' \in Seq(1 .. MaxMessages)
    BY <1>0, <1>19, FirstTaken DEF FlushPublish
  <2>2. m_send_queue' \in Seq(Packets)
    BY <1>0, <1>19, <2>1, PacketTypes, AtTheEnd DEF FlushPublish, Enqueue
  <2> QED
    BY <1>0, <1>19, <2>1, <2>2 DEF TypeOK, Control, FlushPublish
<1>20. CASE RestoreDone
  <2>1. restoring' = FALSE /\ restoring' \in BOOLEAN
    BY <1>20, Zenon DEF RestoreDone
  <2> QED
    BY <1>0, <1>20, <2>1 DEF TypeOK, Control, RestoreDone
<1>21. CASE ConnectionDown
  BY <1>0, <1>21 DEF TypeOK, Control, ConnectionDown
<1>22. CASE UNCHANGED vars
  BY <1>22, BaseStutters
<1> QED
  BY <1>1, <1>2, <1>3, <1>4, <1>5, <1>6, <1>8, <1>9, <1>11, <1>12, <1>13, <1>14, <1>15, <1>16,
     <1>17, <1>18, <1>19, <1>20, <1>21, <1>22 DEF Next

(* Init establishes it.                                                    *)
LEMMA BaseInit == Init => Base
<1> SUFFICES ASSUME Init PROVE Base
  OBVIOUS
<1>1. restoring = FALSE /\ restoring \in BOOLEAN
  BY Zenon DEF Init
<1>2. 0 \in 0 .. IdRange - 1 /\ 0 \in 0 .. MaxMessages
  BY DEF Init
<1> QED
  BY <1>1, <1>2 DEF Init, Base, TypeOK, Control

-----------------------------------------------------------------------------
(* What a step does to the send queue *)

Untouched == UNCHANGED <<m_send_queue, m_packet_id, m_send_queue_size>>
Emptied   == m_send_queue' = <<>>
Prepended ==
  /\ m_send_queue' \in {<<CONNECT>> \o m_send_queue, <<PINGREQ>> \o m_send_queue}
  /\ UNCHANGED <<m_packet_id, m_send_queue_size>>
Taken ==
  /\ m_send_queue # <<>> /\ m_send_queue' = Tail(m_send_queue)
  /\ UNCHANGED <<m_packet_id, m_send_queue_size>>
Published(m) ==
  /\ ~QueueFull /\ m_send_queue' = Append(m_send_queue, Packet("PUBLISH", m, 0))
  /\ UNCHANGED <<m_packet_id, m_send_queue_size>>
Requested(type, t) ==
  /\ ~QueueFull /\ m_send_queue' = Append(m_send_queue, Packet(type, t, PacketId))
  /\ NextId /\ UNCHANGED m_send_queue_size

(* A step leaves the send queue alone, empties it, puts a CONNECT or a     *)
(* PINGREQ in front, takes the first packet, or appends a message or a     *)
(* request with the next id; only while it is empty is its size changed.   *)
LEMMA SendQueueStep ==
  ASSUME Base, [Next]_vars
  PROVE  \/ Untouched \/ Emptied \/ Prepended \/ Taken
         \/ (PublishSent \/ FlushPublish) /\ \E m \in 1 .. MaxMessages : Published(m)
         \/ \E type \in {"SUBSCRIBE", "UNSUBSCRIBE"}, t \in Topics : Requested(type, t)
<1> USE DEF setupVars, subVars, queueVars, wireVars
<1>1. ASSUME NEW type \in {"DROP", "FIFO", "LIFO"}, NEW size \in PublishQueueSizes, SetPublishQueue(type, size)
      PROVE  Untouched
  BY <1>1 DEF SetPublishQueue, Untouched
<1>2. ASSUME NEW size \in SendQueueSizes, SetSendQueue(size)
      PROVE  Emptied
  BY <1>2 DEF SetSendQueue, Emptied, Base, Control
<1>3. CASE Connect \/ PublishQueued \/ LinkLost \/ ConnectionUp \/ RestoreDone \/ UNCHANGED vars
  BY <1>3 DEF Connect, PublishQueued, LinkLost, ConnectionUp, RestoreDone, vars, Untouched
<1>4. CASE Disconnect \/ ConnectionDown
  BY <1>4 DEF Disconnect, DropConnection, ConnectionDown, Emptied
<1>5. CASE PublishSent
  <2>1. published' \in 1 .. MaxMessages
    BY <1>5 DEF PublishSent, Base, TypeOK
  <2>2. Untouched \/ Published(published')
    BY <1>5 DEF PublishSent, Enqueue, Untouched, Published
  <2> QED
    BY <1>5, <2>1, <2>2
<1>6. ASSUME NEW t \in Topics, NEW type \in {"SUBSCRIBE", "UNSUBSCRIBE"}, NEW topics,
             SendOrReconnect(type, t, topics), UNCHANGED setupVars
      PROVE  Untouched \/ Emptied \/ Requested(type, t)
  BY <1>6 DEF SendOrReconnect, DropConnection, Enqueue, Untouched, Emptied, Requested
<1>7. ASSUME NEW t \in Topics, Subscribe(t)
      PROVE  Untouched \/ Emptied \/ Requested("SUBSCRIBE", t)
  BY <1>6, <1>7 DEF Subscribe
<1>8. ASSUME NEW t \in Topics, Unsubscribe(t)
      PROVE  Untouched \/ Emptied \/ Requested("UNSUBSCRIBE", t)
  BY <1>6, <1>8 DEF Unsubscribe
<1>9. ASSUME NEW t \in Topics, UnsubscribeMissing(t) PROVE Untouched
  BY <1>9 DEF UnsubscribeMissing, Abort, Untouched
<1>10. CASE RestoreRefused \/ PublishPopsEmpty
  BY <1>10 DEF RestoreRefused, PublishPopsEmpty, Abort, Untouched
<1>11. CASE LinkOpens \/ SendPingRequest
  BY <1>11 DEF LinkOpens, SendPingRequest, Prepended
<1>12. CASE WritePacket
  BY <1>12 DEF WritePacket, Taken
<1>13. CASE RestoreSubscription
  <2>1. PICK t \in todo : Requested("SUBSCRIBE", t)
    BY <1>13 DEF RestoreSubscription, Requested, Enqueue
  <2>2. t \in Topics
    BY DEF Base, TypeOK
  <2> QED
    BY <2>1, <2>2
<1>14. CASE FlushPublish
  <2>1. Head(m_publish_queue) \in 1 .. MaxMessages
    BY <1>14, FirstTaken DEF FlushPublish, Base, TypeOK
  <2>2. Published(Head(m_publish_queue))
    BY <1>14 DEF FlushPublish, Published, Enqueue
  <2> QED
    BY <1>14, <2>1, <2>2
<1> QED
  BY <1>1, <1>2, <1>3, <1>4, <1>5, <1>7, <1>8, <1>9, <1>10, <1>11, <1>12, <1>13, <1>14 DEF Next

(* A CONNECT or PINGREQ in front: no other packet is there that was not.   *)
LEMMA WhenPrepended ==
  ASSUME Base, m_send_queue' \in {<<CONNECT>> \o m_send_queue, <<PINGREQ>> \o m_send_queue}
  PROVE  /\ Len(m_send_queue) \in Nat /\ DOMAIN m_send_queue = 1 .. Len(m_send_queue)
         /\ Len(m_send_queue') = Len(m_send_queue) + 1
         /\ DOMAIN m_send_queue' = 1 .. Len(m_send_queue) + 1
         /\ ~HasId(m_send_queue'[1]) /\ ~IsPublish(m_send_queue'[1])
         /\ \A i \in 1 .. Len(m_send_queue) : m_send_queue'[i + 1] = m_send_queue[i]
         /\ \A i \in 2 .. Len(m_send_queue) + 1 : m_send_queue'[i] = m_send_queue[i - 1]
<1>1. m_send_queue \in Seq(Packets) /\ CONNECT \in Packets /\ PINGREQ \in Packets
  BY PacketTypes DEF Base, TypeOK
<1>2. PICK p \in {CONNECT, PINGREQ} : m_send_queue' = <<p>> \o m_send_queue
  OBVIOUS
<1>3. ~HasId(p) /\ ~IsPublish(p)
  BY DEF CONNECT, PINGREQ, Packet, HasId, IsPublish
<1>4. /\ m_send_queue' \in Seq(Packets)
      /\ Len(m_send_queue') = Len(m_send_queue) + 1
      /\ m_send_queue'[1] = p
      /\ \A i \in 1 .. Len(m_send_queue) : m_send_queue'[i + 1] = m_send_queue[i]
      /\ \A i \in 2 .. Len(m_send_queue) + 1 : m_send_queue'[i] = m_send_queue[i - 1]
  BY <1>1, <1>2, InFront
<1> QED
  BY <1>1, <1>3, <1>4, LenProperties

(* The first packet is gone, the others are there.                         *)
LEMMA WhenTaken ==
  ASSUME Base, m_send_queue # <<>>, m_send_queue' = Tail(m_send_queue)
  PROVE  /\ Len(m_send_queue) \in Nat \ {0} /\ DOMAIN m_send_queue = 1 .. Len(m_send_queue)
         /\ Len(m_send_queue') = Len(m_send_queue) - 1
         /\ DOMAIN m_send_queue' = 1 .. Len(m_send_queue) - 1
         /\ Head(m_send_queue) = m_send_queue[1] /\ Head(m_send_queue) \in Packets
         /\ \A i \in 1 .. Len(m_send_queue) - 1 : m_send_queue'[i] = m_send_queue[i + 1]
BY FirstTaken, LenProperties DEF Base, TypeOK

(* The packet is the last one.                                             *)
LEMMA WhenAppended ==
  ASSUME Base, NEW p \in Packets, m_send_queue' = Append(m_send_queue, p)
  PROVE  /\ Len(m_send_queue) \in Nat /\ DOMAIN m_send_queue = 1 .. Len(m_send_queue)
         /\ Len(m_send_queue') = Len(m_send_queue) + 1
         /\ DOMAIN m_send_queue' = 1 .. Len(m_send_queue) + 1
         /\ m_send_queue'[Len(m_send_queue) + 1] = p
         /\ \A i \in 1 .. Len(m_send_queue) : m_send_queue'[i] = m_send_queue[i]
BY AtTheEnd, LenProperties DEF Base, TypeOK

-----------------------------------------------------------------------------
(* Packet ids *)

(* How many ids ago the id d was given out, when next is the next one *)
Age(next, d) == IF d < next THEN next - d ELSE next - d + IdRange - 1

(* A packet with an id is followed by at most as many packets as the send  *)
(* queue has places, no more ids were given out since its own than there   *)
(* are packets behind it, and the ones behind it have younger ids.         *)
Window ==
  \A i \in DOMAIN m_send_queue : HasId(m_send_queue[i]) =>
    /\ Len(m_send_queue) - i =< m_send_queue_size
    /\ Age(PacketId, m_send_queue[i].id) =< Len(m_send_queue) - i + 1
    /\ \A j \in DOMAIN m_send_queue :
         HasId(m_send_queue[j]) /\ i < j =>
           Age(PacketId, m_send_queue[j].id) < Age(PacketId, m_send_queue[i].id)

(* The age of an id grows by one with every id that is given out, until    *)
(* all of them were.                                                       *)
LEMMA Ages ==
  ASSUME IdRange > 2, NEW next \in 1 .. IdRange - 1, NEW d \in 1 .. IdRange - 1
  PROVE  LET later == IF next = IdRange - 1 THEN 1 ELSE next + 1
         IN /\ Age(next, d) \in 1 .. IdRange - 1
            /\ Age(next, d) < IdRange - 1 => Age(later, d) = Age(next, d) + 1
            /\ Age(later, next) = 1
BY DEF Age

(* The id that follows                                                     *)
LEMMA FollowingId ==
  ASSUME Base, NextId
  PROVE  PacketId' = IF PacketId = IdRange - 1 THEN 1 ELSE PacketId + 1
<1>1. /\ IdRange > 2 /\ PacketId \in 1 .. IdRange - 1
      /\ m_packet_id' = IF PacketId = IdRange - 1 THEN 0 ELSE PacketId + 1
  BY Ids DEF Base
<1>2. PacketId' = IF m_packet_id' = 0 THEN 1 ELSE m_packet_id'
  BY DEF PacketId
<1> QED
  BY <1>1, <1>2

(* The packets of the send queue by their type.                            *)
LEMMA IdTypes ==
  ASSUME Base, NEW i \in DOMAIN m_send_queue, HasId(m_send_queue[i])
  PROVE  m_send_queue[i].id \in 1 .. IdRange - 1 /\ m_send_queue[i].value \in Topics
<1>1. PICK p \in Packets : p = m_send_queue[i]
  BY ElementOfSeq, LenProperties DEF Base, TypeOK
<1> QED
  BY <1>1 DEF Packets, HasId

(* Window is kept when a request gets the next id ...                      *)
LEMMA WindowRequested ==
  ASSUME Base, Window, NEW type \in {"SUBSCRIBE", "UNSUBSCRIBE"}, NEW t \in Topics, Requested(type, t)
  PROVE  Window'
<1> DEFINE q == m_send_queue
           n == Len(m_send_queue)
           p == Packet(type, t, PacketId)
<1>1. /\ n \in Nat /\ DOMAIN q = 1 .. n /\ n =< m_send_queue_size
      /\ m_send_queue_size \in Nat /\ m_send_queue_size + 2 < IdRange /\ m_send_queue_size' = m_send_queue_size
      /\ IdRange \in Nat
  BY LenProperties DEF Base, TypeOK, Requested, QueueFull
<1>2. /\ q' = Append(q, p) /\ Len(q') = n + 1 /\ q'[n + 1] = p
      /\ \A i \in 1 .. n : q'[i] = q[i]
      /\ q' \in Seq(Packets)
  BY AtTheEnd, PacketTypes DEF Requested, Base, TypeOK
<1>3. DOMAIN q' = 1 .. n + 1
  BY <1>2, LenProperties
<1>4. HasId(p) /\ p.id = PacketId
  BY DEF HasId, Packet
<1>5. \A i \in 1 .. n : HasId(q[i]) =>
        /\ n - i =< m_send_queue_size /\ Age(PacketId, q[i].id) =< n - i + 1
        /\ \A j \in 1 .. n : HasId(q[j]) /\ i < j => Age(PacketId, q[j].id) < Age(PacketId, q[i].id)
  BY <1>1 DEF Window
<1>6. \A i \in 1 .. n : HasId(q[i]) =>
        /\ Age(PacketId, q[i].id) \in 1 .. IdRange - 1
        /\ Age(PacketId', q[i].id) = Age(PacketId, q[i].id) + 1
  <2> SUFFICES ASSUME NEW i \in 1 .. n, HasId(q[i])
               PROVE  /\ Age(PacketId, q[i].id) \in 1 .. IdRange - 1
                      /\ Age(PacketId', q[i].id) = Age(PacketId, q[i].id) + 1
    OBVIOUS
  <2>1. q[i].id \in 1 .. IdRange - 1 /\ PacketId \in 1 .. IdRange - 1 /\ IdRange > 2
    BY <1>1, IdTypes, Ids DEF Base
  <2>2. Age(PacketId, q[i].id) \in 1 .. IdRange - 1
    BY <2>1, Ages
  <2>3. Age(PacketId, q[i].id) < IdRange - 1
    BY <1>1, <1>5, <2>2
  <2> QED
    BY <2>1, <2>2, <2>3, Ages, FollowingId DEF Requested
<1>7. Age(PacketId', PacketId) = 1
  <2>1. PacketId \in 1 .. IdRange - 1 /\ IdRange > 2
    BY Ids DEF Base
  <2> QED
    BY <2>1, Ages, FollowingId DEF Requested
<1> HIDE DEF q, n, p
<1>8. ASSUME NEW i \in 1 .. n + 1, HasId(q'[i])
      PROVE  /\ n + 1 - i =< m_send_queue_size
             /\ Age(PacketId', q'[i].id) =< n + 1 - i + 1
  <2>1. CASE i = n + 1
    <3>1. q'[i].id = PacketId
      BY <1>2, <1>4, <2>1
    <3> QED
      BY <1>1, <1>7, <2>1, <3>1
  <2>2. CASE i \in 1 .. n
    <3>1. q'[i] = q[i] /\ HasId(q[i])
      BY <1>2, <1>8, <2>2
    <3>2. /\ n - i =< m_send_queue_size /\ Age(PacketId, q[i].id) =< n - i + 1
          /\ Age(PacketId, q[i].id) \in 1 .. IdRange - 1
          /\ Age(PacketId', q'[i].id) = Age(PacketId, q[i].id) + 1
      BY <1>5, <1>6, <2>2, <3>1, Zenon
    <3>3. n + 1 - i =< m_send_queue_size
      BY <1>1, <1>2, <1>8, <2>2, <3>2
    <3> QED
      BY <1>1, <2>2, <3>2, <3>3
  <2> QED
    BY <1>1, <2>1, <2>2
<1>9. ASSUME NEW i \in 1 .. n + 1, HasId(q'[i]), NEW j \in 1 .. n + 1, HasId(q'[j]), i < j
      PROVE  Age(PacketId', q'[j].id) < Age(PacketId', q'[i].id)
  <2>1. i \in 1 .. n /\ i \in Int /\ j \in Int
    BY <1>1, <1>9
  <2>2. q'[i] = q[i] /\ HasId(q[i])
    BY <1>2, <1>9, <2>1
  <2>3. /\ Age(PacketId, q[i].id) \in 1 .. IdRange - 1
        /\ Age(PacketId', q'[i].id) = Age(PacketId, q[i].id) + 1
    BY <1>6, <2>1, <2>2, Zenon
  <2>4. CASE j = n + 1
    <3>1. Age(PacketId', q'[j].id) = 1
      BY <1>2, <1>4, <1>7, <2>4
    <3> QED
      BY <2>3, <3>1
  <2>5. CASE j \in 1 .. n
    <3>1. q'[j] = q[j] /\ HasId(q[j])
      BY <1>2, <1>9, <2>5
    <3>2. /\ Age(PacketId, q[j].id) \in 1 .. IdRange - 1
          /\ Age(PacketId', q'[j].id) = Age(PacketId, q[j].id) + 1
          /\ Age(PacketId, q[j].id) < Age(PacketId, q[i].id)
      BY <1>5, <1>6, <1>9, <2>1, <2>2, <2>5, <3>1, Zenon
    <3> QED
      BY <2>3, <3>2
  <2> QED
    BY <1>1, <2>4, <2>5
<1> SUFFICES ASSUME NEW i \in DOMAIN q', HasId(q'[i])
             PROVE  /\ Len(q') - i =< m_send_queue_size'
                    /\ Age(PacketId', q'[i].id) =< Len(q') - i + 1
                    /\ \A j \in DOMAIN q' :
                         HasId(q'[j]) /\ i < j => Age(PacketId', q'[j].id) < Age(PacketId', q'[i].id)
  BY Zenon DEF Window, q
<1>10. i \in 1 .. n + 1 /\ DOMAIN q' = 1 .. n + 1 /\ Len(q') = n + 1
  BY <1>2, <1>3
<1>11. /\ Len(q') - i =< m_send_queue_size'
       /\ Age(PacketId', q'[i].id) =< Len(q') - i + 1
  BY <1>1, <1>8, <1>10
<1>12. \A j \in DOMAIN q' :
         HasId(q'[j]) /\ i < j => Age(PacketId', q'[j].id) < Age(PacketId', q'[i].id)
  BY <1>9, <1>10, Zenon
<1> QED
  BY <1>11, <1>12

(* ... when the packets with an id move ...                                *)
LEMMA WindowMoved ==
  ASSUME Base, Window, UNCHANGED <<m_packet_id, m_send_queue_size>>, NEW k \in {-1, 1},
         Len(m_send_queue') = Len(m_send_queue) + k,
         \A i \in DOMAIN m_send_queue' : HasId(m_send_queue'[i]) =>
           i \in Int /\ i - k \in DOMAIN m_send_queue /\ m_send_queue'[i] = m_send_queue[i - k]
  PROVE  Window'
<1>1. PacketId' = PacketId /\ Len(m_send_queue) \in Nat
  BY LenProperties DEF PacketId, Base, TypeOK
<1> SUFFICES ASSUME NEW i \in DOMAIN m_send_queue', HasId(m_send_queue'[i])
             PROVE  /\ Len(m_send_queue') - i =< m_send_queue_size
                    /\ Age(PacketId, m_send_queue'[i].id) =< Len(m_send_queue') - i + 1
                    /\ \A j \in DOMAIN m_send_queue' :
                         HasId(m_send_queue'[j]) /\ i < j =>
                           Age(PacketId, m_send_queue'[j].id) < Age(PacketId, m_send_queue'[i].id)
  BY <1>1 DEF Window
<1>2. /\ i \in Int /\ i - k \in DOMAIN m_send_queue /\ m_send_queue'[i] = m_send_queue[i - k]
      /\ Len(m_send_queue') - i = Len(m_send_queue) - (i - k)
  BY <1>1
<1>3. /\ Len(m_send_queue) - (i - k) =< m_send_queue_size
      /\ Age(PacketId, m_send_queue'[i].id) =< Len(m_send_queue) - (i - k) + 1
  BY <1>2 DEF Window
<1>4. ASSUME NEW j \in DOMAIN m_send_queue', HasId(m_send_queue'[j]), i < j
      PROVE  Age(PacketId, m_send_queue'[j].id) < Age(PacketId, m_send_queue'[i].id)
  <2>1. j \in Int /\ j - k \in DOMAIN m_send_queue /\ m_send_queue'[j] = m_send_queue[j - k]
    BY <1>4
  <2>2. i - k < j - k
    BY <1>2, <1>4, <2>1
  <2> QED
    BY <1>2, <1>4, <2>1, <2>2 DEF Window
<1> QED
  BY <1>2, <1>3, <1>4

(* ... and when a message is queued behind them.                           *)
LEMMA WindowPublished ==
  ASSUME Base, Window, NEW m \in 1 .. MaxMessages, Published(m)
  PROVE  Window'
<1> DEFINE n == Len(m_send_queue)
           p == Packet("PUBLISH", m, 0)
<1>1. p \in Packets /\ ~HasId(p)
  BY PacketTypes DEF Packet, HasId, Base
<1>2. /\ n \in Nat /\ DOMAIN m_send_queue = 1 .. n
      /\ Len(m_send_queue') = n + 1 /\ DOMAIN m_send_queue' = 1 .. n + 1
      /\ m_send_queue'[n + 1] = p
      /\ \A i \in 1 .. n : m_send_queue'[i] = m_send_queue[i]
  BY <1>1, WhenAppended DEF Published
<1>3. /\ PacketId' = PacketId /\ m_send_queue_size' = m_send_queue_size
      /\ m_send_queue_size \in Nat /\ n =< m_send_queue_size
  <2>1. PacketId' = PacketId /\ m_send_queue_size' = m_send_queue_size /\ ~QueueFull
    BY <1>1 DEF PacketId, Published
  <2>2. m_send_queue_size \in Nat
    BY DEF Base, TypeOK
  <2> QED
    BY <1>2, <2>1, <2>2 DEF QueueFull
<1> HIDE DEF n, p
<1> SUFFICES ASSUME NEW i \in DOMAIN m_send_queue', HasId(m_send_queue'[i])
             PROVE  /\ Len(m_send_queue') - i =< m_send_queue_size
                    /\ Age(PacketId, m_send_queue'[i].id) =< Len(m_send_queue') - i + 1
                    /\ \A j \in DOMAIN m_send_queue' :
                         HasId(m_send_queue'[j]) /\ i < j =>
                           Age(PacketId, m_send_queue'[j].id) < Age(PacketId, m_send_queue'[i].id)
  BY <1>3 DEF Window
<1>4. i \in 1 .. n /\ m_send_queue'[i] = m_send_queue[i]
  BY <1>1, <1>2
<1>5. m_send_queue[i].id \in 1 .. IdRange - 1 /\ PacketId \in 1 .. IdRange - 1 /\ IdRange > 2
  BY <1>2, <1>4, IdTypes, Ids DEF Base
<1>6. Age(PacketId, m_send_queue[i].id) \in Int
  BY <1>5, Ages
<1>7. Age(PacketId, m_send_queue[i].id) =< n - i + 1
  BY <1>2, <1>4 DEF Window, n
<1>8. ASSUME NEW j \in 1 .. n + 1, HasId(m_send_queue'[j]), i < j
      PROVE  Age(PacketId, m_send_queue'[j].id) < Age(PacketId, m_send_queue'[i].id)
  <2>1. j \in 1 .. n /\ m_send_queue'[j] = m_send_queue[j]
    BY <1>1, <1>2, <1>8
  <2> QED
    BY <1>2, <1>4, <1>8, <2>1 DEF Window
<1> QED
  BY <1>2, <1>3, <1>4, <1>6, <1>7, <1>8

(* Every step keeps the window.                                            *)
LEMMA WindowStep == Base /\ Window /\ [Next]_vars => Window'
<1> SUFFICES ASSUME Base, Window, [Next]_vars PROVE Window'
  OBVIOUS
<1>1. CASE Untouched
  <2>1. PacketId' = PacketId
    BY <1>1 DEF Untouched, PacketId
  <2> QED
    BY <1>1, <2>1 DEF Untouched, Window
<1>2. CASE Emptied
  BY <1>2 DEF Emptied, Window
<1>3. CASE Prepended
  <2>1. /\ Len(m_send_queue') = Len(m_send_queue) + 1
        /\ \A i \in DOMAIN m_send_queue' : HasId(m_send_queue'[i]) =>
             i \in Int /\ i - 1 \in DOMAIN m_send_queue /\ m_send_queue'[i] = m_send_queue[i - 1]
    BY <1>3, WhenPrepended DEF Prepended
  <2> QED
    BY <1>3, <2>1, WindowMoved DEF Prepended
<1>4. CASE Taken
  <2>1. /\ Len(m_send_queue') = Len(m_send_queue) + (-1)
        /\ \A i \in DOMAIN m_send_queue' : HasId(m_send_queue'[i]) =>
             i \in Int /\ i - (-1) \in DOMAIN m_send_queue /\ m_send_queue'[i] = m_send_queue[i - (-1)]
    BY <1>4, WhenTaken DEF Taken
  <2> QED
    BY <1>4, <2>1, WindowMoved DEF Taken
<1>5. ASSUME NEW m \in 1 .. MaxMessages, Published(m) PROVE Window'
  BY <1>5, WindowPublished
<1>6. ASSUME NEW type \in {"SUBSCRIBE", "UNSUBSCRIBE"}, NEW t \in Topics, Requested(type, t)
      PROVE  Window'
  BY <1>6, WindowRequested
<1> QED
  BY <1>1, <1>2, <1>3, <1>4, <1>5, <1>6, SendQueueStep

(* Ids of one age only are equal, so the window makes them distinct.       *)
LEMMA WindowDistinct == Base /\ Window => PacketIdsDistinct
<1> SUFFICES ASSUME Base, Window PROVE PacketIdsDistinct
  OBVIOUS
<1>1. ASSUME NEW i \in DOMAIN m_send_queue, HasId(m_send_queue[i]),
             NEW j \in DOMAIN m_send_queue, HasId(m_send_queue[j]), i < j
      PROVE  m_send_queue[i].id # m_send_queue[j].id
  <2>1. /\ m_send_queue[i].id \in 1 .. IdRange - 1 /\ m_send_queue[j].id \in 1 .. IdRange - 1
        /\ PacketId \in 1 .. IdRange - 1 /\ IdRange > 2
    BY <1>1, IdTypes, Ids DEF Base
  <2>2. Age(PacketId, m_send_queue[j].id) < Age(PacketId, m_send_queue[i].id)
    BY <1>1 DEF Window
  <2>3. Age(PacketId, m_send_queue[j].id) \in Int /\ Age(PacketId, m_send_queue[i].id) \in Int
    BY <2>1, Ages
  <2> QED
    BY <2>2, <2>3
<1>2. DOMAIN m_send_queue \subseteq Int
  BY LenProperties DEF Base, TypeOK
<1> QED
  BY <1>1, <1>2, IdTypes DEF PacketIdsDistinct

-----------------------------------------------------------------------------
(* The order of messages *)

(* No message has a number that was not given out yet. *)
Numbered ==
  /\ last =< published
  /\ \A i \in DOMAIN m_send_queue : IsPublish(m_send_queue[i]) => m_send_queue[i].value =< published
  /\ \A j \in DOMAIN m_publish_queue : m_publish_queue[j] =< published

Ordered == PublishOrder /\ Numbered

(* What is removed from the publish queue does not disturb the others, and *)
(* the new message is the last one.                                        *)
LEMMA ToPublishQueueOrder ==
  ASSUME Base, HasRoom, NEW m \in 1 .. MaxMessages,
         \A j \in DOMAIN m_publish_queue : m_publish_queue[j] < m,
         \A i, j \in DOMAIN m_publish_queue : i < j => m_publish_queue[i] < m_publish_queue[j]
  PROVE  LET r == ToPublishQueue(m)
         IN /\ \A j \in DOMAIN r : r[j] = m \/ \E k \in DOMAIN m_publish_queue : r[j] = m_publish_queue[k]
            /\ \A i, j \in DOMAIN r : i < j => r[i] < r[j]
<1> DEFINE S == 1 .. MaxMessages
           q == m_publish_queue
           Fits(r) == /\ \A j \in DOMAIN r : r[j] = m \/ \E k \in DOMAIN q : r[j] = q[k]
                      /\ \A i, j \in DOMAIN r : i < j => r[i] < r[j]
<1>1. /\ q \in Seq(S) /\ m \in S /\ Len(q) \in Nat /\ DOMAIN q = 1 .. Len(q) /\ (Len(q) > 0 => q # <<>>)
      /\ \A j \in DOMAIN q : q[j] < m
      /\ \A i, j \in DOMAIN q : i < j => q[i] < q[j]
  BY LenProperties DEF Base, TypeOK
<1>2. /\ m_publish_queue_type \in {"DROP", "FIFO", "LIFO"}
      /\ m_publish_queue_type # "DROP" => m_publish_queue_size > 0
      /\ m_publish_queue_size \in Nat
  BY DEF Base, TypeOK, HasRoom
<1> HIDE DEF S, q
<1>3. ASSUME NEW s \in Seq(S), NEW k \in {0, 1},
             \A i \in 1 .. Len(s) : i + k \in DOMAIN q /\ s[i] = q[i + k]
      PROVE  Fits(Append(s, m))
  <2>1. Len(s) \in Nat
    BY LenProperties
  <2>2. /\ Append(s, m) \in Seq(S) /\ Len(Append(s, m)) = Len(s) + 1
        /\ Append(s, m)[Len(s) + 1] = m
        /\ \A i \in 1 .. Len(s) : Append(s, m)[i] = s[i]
    BY <1>1, AtTheEnd
  <2>3. DOMAIN Append(s, m) = 1 .. Len(s) + 1
    BY <2>2, LenProperties
  <2> DEFINE r == Append(s, m)
             n == Len(s)
  <2> HIDE DEF r, n
  <2>4. ASSUME NEW j \in 1 .. n + 1 PROVE r[j] = m \/ \E i \in DOMAIN q : r[j] = q[i]
    BY <1>3, <2>1, <2>2 DEF r, n
  <2>5. ASSUME NEW i \in 1 .. n + 1, NEW j \in 1 .. n + 1, i < j PROVE r[i] < r[j]
    <3>1. i \in 1 .. n /\ i + k \in DOMAIN q /\ r[i] = q[i + k]
      BY <1>3, <2>1, <2>2, <2>5 DEF r, n
    <3>2. CASE j = n + 1
      BY <1>1, <3>1, <3>2, <2>2 DEF r, n
    <3>3. CASE j \in 1 .. n
      <4>1. j + k \in DOMAIN q /\ r[j] = q[j + k] /\ i + k < j + k
        BY <1>3, <2>1, <2>2, <2>5, <3>3 DEF r, n
      <4> QED
        BY <1>1, <3>1, <4>1
    <3> QED
      BY <2>1, <3>2, <3>3 DEF n
  <2> QED
    BY <2>3, <2>4, <2>5 DEF r, n
<1>4. Fits(q)
  BY <1>1
<1>5. Fits(Append(q, m))
  <2>1. \A i \in 1 .. Len(q) : i + 0 \in DOMAIN q /\ q[i] = q[i + 0]
    BY <1>1
  <2> QED
    BY <1>1, <1>3, <2>1
<1>6. q # <<>> => Fits(Append(Tail(q), m)) /\ Fits(Append(Front(q), m))
  <2> SUFFICES ASSUME q # <<>> PROVE Fits(Append(Tail(q), m)) /\ Fits(Append(Front(q), m))
    OBVIOUS
  <2>1. /\ Tail(q) \in Seq(S) /\ \A i \in 1 .. Len(Tail(q)) : i + 1 \in DOMAIN q /\ Tail(q)[i] = q[i + 1]
    BY <1>1, FirstTaken
  <2>2. /\ Front(q) \in Seq(S) /\ \A i \in 1 .. Len(Front(q)) : i + 0 \in DOMAIN q /\ Front(q)[i] = q[i + 0]
    BY <1>1, LastDropped
  <2>3. Fits(Append(Tail(q), m))
    BY <1>3, <2>1
  <2>4. Fits(Append(Front(q), m))
    BY <1>3, <2>2
  <2> QED
    BY <2>3, <2>4
<1> HIDE DEF Fits
<1>7. Fits(ToPublishQueue(m))
  BY <1>1, <1>2, <1>4, <1>5, <1>6 DEF ToPublishQueue, q
<1> QED
  BY <1>7 DEF Fits, q

(* The numbers of queued messages are numbers.                             *)
LEMMA Numbers ==
  ASSUME Base
  PROVE  /\ last \in Nat /\ published \in Nat
         /\ \A i \in DOMAIN m_send_queue : IsPublish(m_send_queue[i]) => m_send_queue[i].value \in Nat
         /\ \A j \in DOMAIN m_publish_queue : m_publish_queue[j] \in Nat
<1>1. last \in Nat /\ published \in Nat
  BY DEF Base, TypeOK
<1>2. ASSUME NEW i \in DOMAIN m_send_queue, IsPublish(m_send_queue[i])
      PROVE  m_send_queue[i].value \in Nat
  <2>1. PICK p \in Packets : p = m_send_queue[i]
    BY ElementOfSeq, LenProperties DEF Base, TypeOK
  <2> QED
    BY <1>2, <2>1 DEF Packets, IsPublish
<1>3. \A j \in DOMAIN m_publish_queue : m_publish_queue[j] \in Nat
  BY ElementOfSeq, LenProperties DEF Base, TypeOK
<1> QED
  BY <1>1, <1>2, <1>3

(* A step that moves the messages of the send queue by k places, keeps the *)
(* publish queue or empties it, and publishes nothing keeps the order.     *)
LEMMA OrderMoved ==
  ASSUME Base, Ordered, NEW k \in {-1, 0, 1},
         \A i \in DOMAIN m_send_queue' : IsPublish(m_send_queue'[i]) =>
           i \in Int /\ i - k \in DOMAIN m_send_queue /\ m_send_queue'[i] = m_send_queue[i - k],
         m_publish_queue' \in {<<>>, m_publish_queue},
         last' = last,
         published' = published \/ published' = published + 1
  PROVE  Ordered'
<1>1. published =< published' /\ published' \in Nat
  BY Numbers
<1>2. \A j \in DOMAIN m_publish_queue' :
         j \in DOMAIN m_publish_queue /\ m_publish_queue'[j] = m_publish_queue[j]
  OBVIOUS
<1>3. Numbered'
  <2>1. \A j \in DOMAIN m_publish_queue' : m_publish_queue'[j] =< published'
    BY <1>1, <1>2, Numbers DEF Ordered, Numbered
  <2>2. ASSUME NEW i \in DOMAIN m_send_queue', IsPublish(m_send_queue'[i])
        PROVE  m_send_queue'[i].value =< published'
    BY <1>1, <2>2, Numbers DEF Ordered, Numbered
  <2>3. last' =< published'
    BY <1>1, Numbers DEF Ordered, Numbered
  <2> QED
    BY <2>1, <2>2, <2>3 DEF Numbered
<1>4. ASSUME NEW i \in DOMAIN m_send_queue', IsPublish(m_send_queue'[i])
      PROVE  /\ last < m_send_queue'[i].value
             /\ \A j \in DOMAIN m_publish_queue' : m_send_queue'[i].value < m_publish_queue'[j]
             /\ \A j \in DOMAIN m_send_queue' :
                  IsPublish(m_send_queue'[j]) /\ i < j => m_send_queue'[i].value < m_send_queue'[j].value
  <2>1. i \in Int /\ i - k \in DOMAIN m_send_queue /\ m_send_queue'[i] = m_send_queue[i - k]
    BY <1>4
  <2>2. ASSUME NEW j \in DOMAIN m_send_queue', IsPublish(m_send_queue'[j]), i < j
        PROVE  m_send_queue'[i].value < m_send_queue'[j].value
    <3>1. j \in Int /\ j - k \in DOMAIN m_send_queue /\ m_send_queue'[j] = m_send_queue[j - k]
      BY <2>2
    <3>2. i - k < j - k
      BY <2>1, <2>2, <3>1
    <3> QED
      BY <1>4, <2>1, <2>2, <3>1, <3>2 DEF Ordered, PublishOrder
  <2> QED
    BY <1>2, <1>4, <2>1, <2>2 DEF Ordered, PublishOrder
<1>5. /\ \A j \in DOMAIN m_publish_queue' : last < m_publish_queue'[j]
      /\ \A i, j \in DOMAIN m_publish_queue' : i < j => m_publish_queue'[i] < m_publish_queue'[j]
  BY <1>2 DEF Ordered, PublishOrder
<1> QED
  BY <1>3, <1>4, <1>5 DEF Ordered, PublishOrder

(* The order is kept when a message goes to the publish queue ...          *)
LEMMA OrderQueued == Base /\ Ordered /\ PublishQueued => Ordered'
<1> SUFFICES ASSUME Base, Ordered, PublishQueued PROVE Ordered'
  OBVIOUS
<1> DEFINE m == published + 1
           r == ToPublishQueue(m)
<1>1. /\ m \in 1 .. MaxMessages /\ published' = m /\ m_publish_queue' = r
      /\ UNCHANGED <<m_send_queue, last>>
  BY DEF PublishQueued, Base, TypeOK, wireVars
<1>2. \A j \in DOMAIN m_publish_queue : m_publish_queue[j] < m
  BY Numbers DEF Ordered, Numbered
<1>3. /\ \A j \in DOMAIN r : r[j] = m \/ \E k \in DOMAIN m_publish_queue : r[j] = m_publish_queue[k]
      /\ \A i, j \in DOMAIN r : i < j => r[i] < r[j]
  BY <1>1, <1>2, QueuedHasRoom, ToPublishQueueOrder DEF Ordered, PublishOrder
<1> HIDE DEF r
<1>4. /\ last < m /\ last =< m
      /\ \A i \in DOMAIN m_send_queue : IsPublish(m_send_queue[i]) =>
           m_send_queue[i].value < m /\ m_send_queue[i].value =< m
  BY Numbers DEF Ordered, Numbered
<1>5. \A j \in DOMAIN r : r[j] =< m /\ last < r[j]
  BY <1>1, <1>2, <1>3, <1>4, Numbers DEF Ordered, PublishOrder
<1>6. \A i \in DOMAIN m_send_queue, j \in DOMAIN r :
        IsPublish(m_send_queue[i]) => m_send_queue[i].value < r[j]
  BY <1>3, <1>4 DEF Ordered, PublishOrder
<1>7. Numbered'
  BY <1>1, <1>4, <1>5 DEF Numbered
<1>8. PublishOrder'
  BY <1>1, <1>3, <1>5, <1>6 DEF Ordered, PublishOrder
<1> QED
  BY <1>7, <1>8 DEF Ordered

(* ... when it goes to the send queue, the publish queue being empty ...   *)
LEMMA OrderSent ==
  ASSUME Base, Ordered, PublishSent, NEW n \in 1 .. MaxMessages, Published(n)
  PROVE  Ordered'
<1> DEFINE m == published + 1
           p == Packet("PUBLISH", m, 0)
           k == Len(m_send_queue)
<1>1. /\ m \in 1 .. MaxMessages /\ published' = m /\ published \in Nat
      /\ m_publish_queue' = <<>> /\ last' = last
      /\ m_send_queue' = Append(m_send_queue, p)
  BY DEF PublishSent, Published, Enqueue, Base, TypeOK, Control, wireVars, queueVars
<1>2. p \in Packets /\ p.value = m
  BY <1>1, PacketTypes DEF Packet, Base
<1>3. /\ k \in Nat /\ DOMAIN m_send_queue = 1 .. k /\ DOMAIN m_send_queue' = 1 .. k + 1
      /\ m_send_queue'[k + 1] = p
      /\ \A i \in 1 .. k : m_send_queue'[i] = m_send_queue[i]
  BY <1>1, <1>2, WhenAppended
<1>4. \A i \in 1 .. k : IsPublish(m_send_queue[i]) =>
        /\ m_send_queue[i].value \in Nat /\ last < m_send_queue[i].value
        /\ m_send_queue[i].value =< published
        /\ \A j \in 1 .. k : IsPublish(m_send_queue[j]) /\ i < j =>
             m_send_queue[i].value < m_send_queue[j].value
  BY <1>3, Numbers DEF Ordered, Numbered, PublishOrder
<1>5. last \in Nat /\ last =< published
  BY Numbers DEF Ordered, Numbered
<1> HIDE DEF k, p
<1>6. Numbered'
  BY <1>1, <1>2, <1>3, <1>4, <1>5 DEF Numbered
<1>7. PublishOrder'
  BY <1>1, <1>2, <1>3, <1>4, <1>5 DEF PublishOrder
<1> QED
  BY <1>6, <1>7 DEF Ordered

(* ... when the publish queue is flushed ...                               *)
LEMMA OrderFlushed == Base /\ Ordered /\ FlushPublish => Ordered'
<1> SUFFICES ASSUME Base, Ordered, FlushPublish PROVE Ordered'
  OBVIOUS
<1> DEFINE m == Head(m_publish_queue)
           p == Packet("PUBLISH", m, 0)
           k == Len(m_send_queue)
           l == Len(m_publish_queue)
<1>1. /\ UNCHANGED <<published, last>> /\ m_publish_queue' = Tail(m_publish_queue)
      /\ m_send_queue' = Append(m_send_queue, p)
  BY DEF FlushPublish, Enqueue, wireVars
<1>2. /\ l \in Nat \ {0} /\ m \in 1 .. MaxMessages /\ m = m_publish_queue[1]
      /\ DOMAIN m_publish_queue = 1 .. l /\ DOMAIN m_publish_queue' = 1 .. l - 1
      /\ \A j \in 1 .. l - 1 : m_publish_queue'[j] = m_publish_queue[j + 1]
  BY <1>1, FirstTaken, LenProperties DEF FlushPublish, Base, TypeOK
<1>3. p \in Packets /\ p.value = m
  BY <1>2, PacketTypes DEF Packet, Base
<1>4. /\ k \in Nat /\ DOMAIN m_send_queue = 1 .. k /\ DOMAIN m_send_queue' = 1 .. k + 1
      /\ m_send_queue'[k + 1] = p
      /\ \A i \in 1 .. k : m_send_queue'[i] = m_send_queue[i]
  BY <1>1, <1>3, WhenAppended
<1>5. \A i \in 1 .. k : IsPublish(m_send_queue[i]) =>
        /\ m_send_queue[i].value \in Nat /\ last < m_send_queue[i].value
        /\ m_send_queue[i].value =< published
        /\ \A j \in 1 .. k : IsPublish(m_send_queue[j]) /\ i < j =>
             m_send_queue[i].value < m_send_queue[j].value
        /\ \A j \in 1 .. l : m_send_queue[i].value < m_publish_queue[j]
  BY <1>2, <1>4, Numbers DEF Ordered, Numbered, PublishOrder
<1>6. /\ last \in Nat /\ last =< published
      /\ \A j \in 1 .. l :
           /\ last < m_publish_queue[j] /\ m_publish_queue[j] =< published
           /\ \A i \in 1 .. l : j < i => m_publish_queue[j] < m_publish_queue[i]
  BY <1>2, Numbers DEF Ordered, Numbered, PublishOrder
<1> HIDE DEF k, l, m, p
<1>7. Numbered'
  BY <1>1, <1>2, <1>3, <1>4, <1>5, <1>6 DEF Numbered
<1>8. \A j \in DOMAIN m_publish_queue' :
        /\ last < m_publish_queue'[j] /\ m < m_publish_queue'[j]
        /\ \A i \in DOMAIN m_publish_queue' : j < i => m_publish_queue'[j] < m_publish_queue'[i]
        /\ \A i \in 1 .. k : IsPublish(m_send_queue[i]) => m_send_queue[i].value < m_publish_queue'[j]
  BY <1>2, <1>5, <1>6
<1>9. \A i \in DOMAIN m_send_queue' : IsPublish(m_send_queue'[i]) =>
        /\ last < m_send_queue'[i].value
        /\ \A j \in DOMAIN m_publish_queue' : m_send_queue'[i].value < m_publish_queue'[j]
        /\ \A j \in DOMAIN m_send_queue' : IsPublish(m_send_queue'[j]) /\ i < j =>
             m_send_queue'[i].value < m_send_queue'[j].value
  BY <1>2, <1>3, <1>4, <1>5, <1>6, <1>8
<1>10. PublishOrder'
  BY <1>1, <1>8, <1>9 DEF PublishOrder
<1> QED
  BY <1>7, <1>10 DEF Ordered

(* ... and when the broker receives a packet.                              *)
LEMMA OrderWritten == Base /\ Ordered /\ WritePacket => Ordered'
<1> SUFFICES ASSUME Base, Ordered, WritePacket PROVE Ordered'
  OBVIOUS
<1> DEFINE k == Len(m_send_queue)
           p == m_send_queue[1]
<1>1. /\ UNCHANGED <<published, m_publish_queue>>
      /\ k \in Nat \ {0} /\ DOMAIN m_send_queue = 1 .. k /\ DOMAIN m_send_queue' = 1 .. k - 1
      /\ \A i \in 1 .. k - 1 : m_send_queue'[i] = m_send_queue[i + 1]
      /\ last' = IF IsPublish(p) THEN p.value ELSE last
  BY WhenTaken DEF WritePacket, queueVars, IsPublish
<1>2. \A i \in 1 .. k : IsPublish(m_send_queue[i]) =>
        /\ last < m_send_queue[i].value
        /\ m_send_queue[i].value =< published
        /\ \A j \in 1 .. k : IsPublish(m_send_queue[j]) /\ i < j =>
             m_send_queue[i].value < m_send_queue[j].value
        /\ \A j \in DOMAIN m_publish_queue : m_send_queue[i].value < m_publish_queue[j]
  BY <1>1 DEF Ordered, Numbered, PublishOrder
<1>3. /\ last =< published
      /\ \A j \in DOMAIN m_publish_queue :
           /\ last < m_publish_queue[j] /\ m_publish_queue[j] =< published
           /\ \A i \in DOMAIN m_publish_queue : j < i => m_publish_queue[j] < m_publish_queue[i]
  BY DEF Ordered, Numbered, PublishOrder
<1> HIDE DEF k
<1>4. last' =< published /\ \A j \in DOMAIN m_publish_queue : last' < m_publish_queue[j]
  BY <1>1, <1>2, <1>3
<1>5. \A i \in 1 .. k - 1 : IsPublish(m_send_queue'[i]) =>
        /\ last' < m_send_queue'[i].value
        /\ m_send_queue'[i].value =< published
        /\ \A j \in 1 .. k - 1 : IsPublish(m_send_queue'[j]) /\ i < j =>
             m_send_queue'[i].value < m_send_queue'[j].value
        /\ \A j \in DOMAIN m_publish_queue : m_send_queue'[i].value < m_publish_queue[j]
  BY <1>1, <1>2
<1>6. Numbered'
  BY <1>1, <1>3, <1>4, <1>5 DEF Numbered
<1>7. PublishOrder'
  BY <1>1, <1>3, <1>4, <1>5 DEF PublishOrder
<1> QED
  BY <1>6, <1>7 DEF Ordered

(* Every step keeps the order.                                             *)
LEMMA OrderStep == Base /\ Ordered /\ [Next]_vars => Ordered'
<1> SUFFICES ASSUME Base, Ordered, [Next]_vars PROVE Ordered'
  OBVIOUS
<1>1. CASE PublishQueued
  BY <1>1, OrderQueued
<1>2. CASE FlushPublish
  BY <1>2, OrderFlushed
<1>3. CASE WritePacket
  BY <1>3, OrderWritten
<1>4. CASE PublishSent /\ \E n \in 1 .. MaxMessages : Published(n)
  BY <1>4, OrderSent
<1>5. CASE /\ ~PublishQueued /\ ~FlushPublish /\ ~WritePacket
           /\ ~(PublishSent /\ \E n \in 1 .. MaxMessages : Published(n))
  <2>1. /\ m_publish_queue' \in {<<>>, m_publish_queue} /\ last' = last
        /\ published' = published \/ published' = published + 1
    BY <1>5 DEF Next, SetPublishQueue, SetSendQueue, Connect, Disconnect, DropConnection, PublishSent,
       Subscribe, Unsubscribe, SendOrReconnect, UnsubscribeMissing, PublishPopsEmpty, Abort, LinkOpens, SendPingRequest,
       LinkLost, ConnectionUp, RestoreSubscription, RestoreRefused, RestoreDone, ConnectionDown, vars,
       queueVars, wireVars
  <2> DEFINE Moved(k) == \A i \in DOMAIN m_send_queue' : IsPublish(m_send_queue'[i]) =>
               i \in Int /\ i - k \in DOMAIN m_send_queue /\ m_send_queue'[i] = m_send_queue[i - k]
  <2>2. Len(m_send_queue) \in Nat /\ DOMAIN m_send_queue = 1 .. Len(m_send_queue)
    BY LenProperties DEF Base, TypeOK
  <2>3. CASE Untouched \/ Emptied
    <3>1. Moved(0)
      BY <2>2, <2>3 DEF Untouched, Emptied
    <3> QED
      BY <2>1, <3>1, OrderMoved
  <2>4. CASE Prepended
    <3>1. Moved(1)
      BY <2>4, WhenPrepended DEF Prepended
    <3> QED
      BY <2>1, <3>1, OrderMoved
  <2>5. CASE Taken
    <3>1. Moved(-1)
      BY <2>5, WhenTaken DEF Taken
    <3> QED
      BY <2>1, <3>1, OrderMoved
  <2>6. ASSUME NEW type \in {"SUBSCRIBE", "UNSUBSCRIBE"}, NEW t \in Topics, Requested(type, t)
        PROVE  Ordered'
    <3>1. Packet(type, t, PacketId) \in Packets /\ ~IsPublish(Packet(type, t, PacketId))
      BY PacketTypes DEF Base, Packet, IsPublish
    <3>2. Moved(0)
      BY <2>6, <3>1, WhenAppended DEF Requested
    <3> QED
      BY <2>1, <3>2, OrderMoved
  <2> QED
    BY <1>5, <2>3, <2>4, <2>5, <2>6, SendQueueStep
<1> QED
  BY <1>1, <1>2, <1>3, <1>4, <1>5

-----------------------------------------------------------------------------
(* What the publish queue holds *)

(* What the header promises to keep of the messages s *)
Kept(s) ==
  IF m_publish_queue_type = "DROP" THEN <<>>
  ELSE IF Len(s) =< m_publish_queue_size THEN s
  ELSE IF m_publish_queue_type = "FIFO"
    THEN SubSeq(s, Len(s) - m_publish_queue_size + 1, Len(s))
    ELSE SubSeq(s, 1, m_publish_queue_size - 1) \o <<Last(s)>>

(* It is kept until connectionStateChange flushes it. *)
Disciplined == (restoring => todo # {}) => m_publish_queue = Kept(accepted)

(* What is kept, message by message                                        *)
LEMMA KeptMessages ==
  ASSUME Base, HasRoom, NEW S, NEW s \in Seq(S), m_publish_queue_type # "DROP", Len(s) > m_publish_queue_size
  PROVE  /\ Kept(s) \in Seq(S) /\ Len(Kept(s)) = m_publish_queue_size
         /\ m_publish_queue_type = "FIFO" =>
              \A i \in 1 .. m_publish_queue_size : Kept(s)[i] = s[Len(s) - m_publish_queue_size + i]
         /\ m_publish_queue_type = "LIFO" =>
              \A i \in 1 .. m_publish_queue_size :
                Kept(s)[i] = IF i < m_publish_queue_size THEN s[i] ELSE s[Len(s)]
<1> DEFINE n == Len(s)
           z == m_publish_queue_size
<1>1. /\ n \in Nat /\ z \in Nat /\ z > 0 /\ n > z /\ m_publish_queue_type \in {"FIFO", "LIFO"}
      /\ \A i \in 1 .. n : s[i] \in S
  BY LenProperties, ElementOfSeq DEF Base, TypeOK, HasRoom
<1>2. CASE m_publish_queue_type = "FIFO"
  <2> DEFINE m == n - z + 1
  <2>1. Kept(s) = SubSeq(s, m, n)
    BY <1>1, <1>2 DEF Kept
  <2> HIDE DEF n, z
  <2>2. m \in Int /\ n \in Int /\ \A i \in m .. n : s[i] \in S
    BY <1>1
  <2>3. n - m + 1 = z /\ m =< n /\ \A i \in Int : m + i - 1 = n - z + i
    BY <1>1
  <2> HIDE DEF m
  <2>4. /\ SubSeq(s, m, n) \in Seq(S)
        /\ Len(SubSeq(s, m, n)) = IF m <= n THEN n - m + 1 ELSE 0
        /\ \A i \in 1 .. n - m + 1 : SubSeq(s, m, n)[i] = s[m + i - 1]
    BY <2>2, SubSeqProperties
  <2>5. /\ Kept(s) \in Seq(S) /\ Len(Kept(s)) = z
        /\ \A i \in 1 .. z : Kept(s)[i] = s[n - z + i]
    <3>1. ASSUME NEW i \in 1 .. z PROVE Kept(s)[i] = s[n - z + i]
      <4>1. i \in 1 .. n - m + 1 /\ m + i - 1 = n - z + i
        BY <2>3
      <4> QED
        BY <2>1, <2>4, <4>1
    <3> QED
      BY <2>1, <2>3, <2>4, <3>1
  <2> QED
    BY <1>2, <2>5 DEF n, z
<1>3. CASE m_publish_queue_type = "LIFO"
  <2> DEFINE f == SubSeq(s, 1, z - 1)
  <2>1. Kept(s) = f \o <<s[n]>>
    BY <1>1, <1>3 DEF Kept, Last
  <2> HIDE DEF n, z
  <2>2. z - 1 \in Int /\ \A i \in 1 .. z - 1 : s[i] \in S
    BY <1>1
  <2>3. /\ f \in Seq(S)
        /\ Len(f) = IF 1 <= z - 1 THEN z - 1 - 1 + 1 ELSE 0
        /\ \A i \in 1 .. z - 1 - 1 + 1 : f[i] = s[1 + i - 1]
    BY <2>2, SubSeqProperties
  <2>4. Len(f) = z - 1 /\ \A i \in 1 .. z - 1 : f[i] = s[i]
    BY <1>1, <2>3
  <2> HIDE DEF f
  <2>5. <<s[n]>> \in Seq(S) /\ Len(<<s[n]>>) = 1 /\ <<s[n]>>[1] = s[n]
    BY <1>1
  <2>6. /\ f \o <<s[n]>> \in Seq(S) /\ Len(f \o <<s[n]>>) = z - 1 + 1
        /\ \A i \in 1 .. z - 1 + 1 : (f \o <<s[n]>>)[i] = IF i =< z - 1 THEN f[i] ELSE <<s[n]>>[i - (z - 1)]
    BY <2>3, <2>4, <2>5, ConcatProperties
  <2>7. \A i \in 1 .. z : (f \o <<s[n]>>)[i] = IF i < z THEN s[i] ELSE s[n]
    BY <1>1, <2>4, <2>5, <2>6
  <2>8. /\ Kept(s) \in Seq(S) /\ Len(Kept(s)) = z
        /\ \A i \in 1 .. z : Kept(s)[i] = IF i < z THEN s[i] ELSE s[n]
    <3>1. z - 1 + 1 = z
      BY <1>1
    <3>2. f \o <<s[n]>> \in Seq(S) /\ Len(f \o <<s[n]>>) = z
      BY <2>6, <3>1
    <3> QED
      BY <2>1, <2>7, <3>2, Zenon
  <2> QED
    BY <1>3, <2>8 DEF n, z
<1> QED
  BY <1>1, <1>2, <1>3

(* toPublishQueue of the next message is what is to be kept of all.        *)
LEMMA KeptNext ==
  ASSUME Base, HasRoom, NEW m \in 1 .. MaxMessages, m_publish_queue = Kept(accepted)
  PROVE  ToPublishQueue(m) = Kept(Append(accepted, m))
<1> DEFINE S == 1 .. MaxMessages
           a == accepted
           b == Append(accepted, m)
           q == m_publish_queue
           n == Len(accepted)
           z == m_publish_queue_size
<1>1. /\ a \in Seq(S) /\ q \in Seq(S) /\ m \in S /\ n \in Nat /\ z \in Nat
      /\ m_publish_queue_type \in {"DROP", "FIFO", "LIFO"}
      /\ m_publish_queue_type # "DROP" => z > 0
  BY LenProperties DEF Base, TypeOK, HasRoom
<1>2. /\ b \in Seq(S) /\ Len(b) = n + 1 /\ b[n + 1] = m
      /\ \A i \in 1 .. n : b[i] = a[i]
  BY <1>1, AtTheEnd
<1>3. CASE m_publish_queue_type = "DROP"
  BY <1>3 DEF ToPublishQueue, Kept
<1>4. CASE m_publish_queue_type # "DROP" /\ n < z
  <2>1. q = a /\ Kept(b) = b
    BY <1>1, <1>2, <1>4 DEF Kept
  <2> QED
    BY <1>1, <1>4, <2>1 DEF ToPublishQueue
<1>5. CASE m_publish_queue_type # "DROP" /\ n >= z
  <2>1. /\ Len(q) = z
        /\ m_publish_queue_type = "FIFO" => \A i \in 1 .. z : q[i] = a[n - z + i]
        /\ m_publish_queue_type = "LIFO" => \A i \in 1 .. z - 1 : q[i] = a[i]
    <3>1. CASE n = z
      <4>1. q = a
        BY <1>1, <1>5, <3>1 DEF Kept
      <4> QED
        BY <1>1, <3>1, <4>1
    <3>2. CASE n > z
      <4>1. /\ Len(q) = z
            /\ m_publish_queue_type = "FIFO" => \A i \in 1 .. z : q[i] = a[n - z + i]
            /\ m_publish_queue_type = "LIFO" => \A i \in 1 .. z : q[i] = IF i < z THEN a[i] ELSE a[n]
        BY <1>1, <1>5, <3>2, KeptMessages
      <4> QED
        BY <1>1, <4>1
    <3> QED
      BY <1>1, <1>5, <3>1, <3>2
  <2>2. q # <<>>
    BY <1>1, <1>5, <2>1
  <2>3. /\ Kept(b) \in Seq(S) /\ Len(Kept(b)) = z
        /\ m_publish_queue_type = "FIFO" => \A i \in 1 .. z : Kept(b)[i] = b[Len(b) - z + i]
        /\ m_publish_queue_type = "LIFO" => \A i \in 1 .. z : Kept(b)[i] = IF i < z THEN b[i] ELSE b[Len(b)]
    <3>1. Len(b) > z
      BY <1>1, <1>2, <1>5
    <3> QED
      BY <1>2, <1>5, <3>1, KeptMessages
  <2>4. CASE m_publish_queue_type = "FIFO"
    <3> DEFINE r == Append(Tail(q), m)
    <3>1. ToPublishQueue(m) = r
      BY <1>1, <1>5, <2>1, <2>4 DEF ToPublishQueue
    <3>2. Tail(q) \in Seq(S) /\ Len(Tail(q)) = z - 1 /\ \A i \in 1 .. z - 1 : Tail(q)[i] = q[i + 1]
      BY <1>1, <2>1, <2>2, FirstTaken
    <3>3. r \in Seq(S) /\ Len(r) = z - 1 + 1 /\ r[z - 1 + 1] = m /\ \A i \in 1 .. z - 1 : r[i] = Tail(q)[i]
      BY <1>1, <3>2, AtTheEnd
    <3> HIDE DEF r, q, a, b, n, z
    <3>4. Len(r) = z /\ \A i \in 1 .. z : r[i] = IF i < z THEN q[i + 1] ELSE m
      BY <1>1, <1>5, <3>2, <3>3
    <3>5. \A i \in 1 .. z : Kept(b)[i] = IF i < z THEN a[n - z + (i + 1)] ELSE m
      BY <1>1, <1>2, <1>5, <2>3, <2>4
    <3>6. ASSUME NEW i \in 1 .. z PROVE r[i] = Kept(b)[i]
      <4>1. i < z => i + 1 \in 1 .. z /\ q[i + 1] = a[n - z + (i + 1)]
        BY <1>1, <2>1, <2>4
      <4> QED
        BY <3>4, <3>5, <4>1
    <3>7. r = Kept(b)
      BY <2>3, <3>3, <3>4, <3>6, SeqEqual
    <3> QED
      BY <3>1, <3>7 DEF b
  <2>5. CASE m_publish_queue_type = "LIFO"
    <3> DEFINE r == Append(Front(q), m)
    <3>1. ToPublishQueue(m) = r
      BY <1>1, <1>5, <2>1, <2>5 DEF ToPublishQueue
    <3>2. Front(q) \in Seq(S) /\ Len(Front(q)) = z - 1 /\ \A i \in 1 .. z - 1 : Front(q)[i] = q[i]
      BY <1>1, <2>1, <2>2, LastDropped
    <3>3. r \in Seq(S) /\ Len(r) = z - 1 + 1 /\ r[z - 1 + 1] = m /\ \A i \in 1 .. z - 1 : r[i] = Front(q)[i]
      BY <1>1, <3>2, AtTheEnd
    <3> HIDE DEF r, q, a, b, n, z
    <3>4. Len(r) = z /\ \A i \in 1 .. z : r[i] = IF i < z THEN q[i] ELSE m
      BY <1>1, <1>5, <3>2, <3>3
    <3>5. \A i \in 1 .. z : Kept(b)[i] = IF i < z THEN a[i] ELSE m
      BY <1>1, <1>2, <1>5, <2>3, <2>5
    <3>6. \A i \in 1 .. z : r[i] = Kept(b)[i]
      BY <1>1, <1>5, <2>1, <2>5, <3>4, <3>5
    <3>7. r = Kept(b)
      BY <2>3, <3>3, <3>4, <3>6, SeqEqual
    <3> QED
      BY <3>1, <3>7 DEF b
  <2> QED
    BY <1>1, <1>5, <2>4, <2>5
<1> QED
  BY <1>1, <1>3, <1>4, <1>5

(* Every step keeps the discipline.                                        *)
LEMMA DisciplineStep == Base /\ Disciplined /\ [Next]_vars => Disciplined'
<1> SUFFICES ASSUME Base, Disciplined, [Next]_vars PROVE Disciplined'
  OBVIOUS
<1> USE DEF setupVars, subVars, queueVars, wireVars
<1>1. m_publish_queue_size \in Nat /\ Len(<<>>) = 0
  BY DEF Base, TypeOK
<1>2. ASSUME m_publish_queue' = <<>>, accepted' = <<>>, m_publish_queue_size' \in Nat
      PROVE  Disciplined'
  BY <1>1, <1>2 DEF Disciplined, Kept
<1>3. ASSUME UNCHANGED <<m_publish_queue, accepted, m_publish_queue_type, m_publish_queue_size>>,
             (restoring' => todo' # {}) => (restoring => todo # {})
      PROVE  Disciplined'
  BY <1>3 DEF Disciplined, Kept
<1>4. ASSUME NEW type \in {"DROP", "FIFO", "LIFO"}, NEW size \in PublishQueueSizes, SetPublishQueue(type, size)
      PROVE  Disciplined'
  BY <1>2, <1>4 DEF SetPublishQueue, Base, Control
<1>5. CASE PublishQueued
  <2>1. published' \in 1 .. MaxMessages /\ ~restoring /\ UNCHANGED <<m_publish_queue_type, m_publish_queue_size>>
    BY <1>5 DEF PublishQueued, Base, TypeOK, Control
  <2>2. m_publish_queue = Kept(accepted)
    BY <2>1 DEF Disciplined
  <2>3. m_publish_queue' = Kept(Append(accepted, published'))
    BY <1>5, <2>1, <2>2, QueuedHasRoom, KeptNext DEF PublishQueued
  <2> QED
    BY <1>5, <2>1, <2>3 DEF PublishQueued, Disciplined, Kept
<1>6. CASE Disconnect
  BY <1>1, <1>2, <1>6 DEF Disconnect, DropConnection
<1>7. ASSUME NEW t \in Topics, Subscribe(t) \/ Unsubscribe(t) PROVE Disciplined'
  BY <1>1, <1>2, <1>3, <1>7 DEF Subscribe, Unsubscribe, SendOrReconnect, DropConnection
<1>8. CASE \E size \in SendQueueSizes : SetSendQueue(size)
  BY <1>3, <1>8 DEF SetSendQueue
<1>9. CASE Connect \/ PublishSent \/ LinkOpens \/ WritePacket \/ SendPingRequest \/ LinkLost \/ ConnectionDown
           \/ UNCHANGED vars
  BY <1>3, <1>9 DEF Connect, PublishSent, LinkOpens, WritePacket, SendPingRequest, LinkLost, ConnectionDown, vars
<1>10. ASSUME NEW t \in Topics, UnsubscribeMissing(t) PROVE Disciplined'
  BY <1>3, <1>10 DEF UnsubscribeMissing, Abort
<1>11. CASE ConnectionUp
  <2>1. ~restoring
    BY <1>11 DEF ConnectionUp, Base, Control
  <2> QED
    BY <1>3, <1>11, <2>1 DEF ConnectionUp
<1>12. CASE RestoreSubscription
  BY <1>3, <1>12 DEF RestoreSubscription
<1>13. CASE RestoreRefused
  BY <1>3, <1>13 DEF RestoreRefused, Abort
<1>16. CASE PublishPopsEmpty
  BY <1>3, <1>16 DEF PublishPopsEmpty, Abort, Base, Control
<1>14. CASE FlushPublish
  BY <1>14 DEF FlushPublish, Disciplined
<1>15. CASE RestoreDone
  BY <1>1, <1>2, <1>15 DEF RestoreDone
<1> QED
  BY <1>4, <1>5, <1>6, <1>7, <1>8, <1>9, <1>10, <1>11, <1>12, <1>13, <1>14, <1>15, <1>16 DEF Next

-----------------------------------------------------------------------------
(* The theorems *)

(* Every variable of a client keeps its type, and the send queue holds     *)
(* only packets whose value and id fit their type.                         *)
THEOREM TypeCorrect == Spec => []TypeOK
<1>1. Base => TypeOK
  BY DEF Base
<1> QED
  BY <1>1, BaseInit, BaseStep, PTL DEF Spec

(* The SUBSCRIBE and UNSUBSCRIBE packets that Connection::send has queued  *)
(* have distinct ids, none of them zero, for every number of ids: refused  *)
(* packets use up an id, and m_packet_id wraps around.                     *)
THEOREM IdsAreDistinct == Spec => []PacketIdsDistinct
<1>1. Init => Window
  BY DEF Init, Window
<1> QED
  BY <1>1, BaseInit, BaseStep, WindowStep, WindowDistinct, PTL DEF Spec

(* Messages reach the broker in the order of publish() and none of them    *)
(* twice, for every size and discipline of the publish queue and every     *)
(* size of the send queue.                                                 *)
THEOREM MessagesInOrder == Spec => []PublishOrder
<1>1. Init => Ordered
  BY DEF Init, Ordered, PublishOrder, Numbered
<1>2. Ordered => PublishOrder
  BY DEF Ordered
<1> QED
  BY <1>1, <1>2, BaseInit, BaseStep, OrderStep, PTL DEF Spec

(* toPublishQueue keeps what the header documents of each kind of queue,   *)
(* for every size and however many messages are published.                 *)
THEOREM QueueAsDocumented == Spec => []QueueDiscipline
<1>1. Init => Disciplined
  BY DEF Init, Disciplined, Kept
<1>2. Disciplined => QueueDiscipline
  BY DEF Disciplined, QueueDiscipline, Kept
<1> QED
  BY <1>1, <1>2, BaseInit, BaseStep, DisciplineStep, PTL DEF Spec

-----------------------------------------------------------------------------
(* What the broker will have at every moment of a connection: nothing      *)
(* before there is one, only wanted topics when requests were queued       *)
(* before the CONNACK, and all but the ones that are still to be restored  *)
(* after it.                                                               *)
Restored ==
  /\ state = "CONNECTING" /\ link = "open" => \A t \in Topics : ~Granted(t)
  /\ state = "CONNECTING" /\ link = "down" => \A t \in Topics : Requests(t) = {}
  /\ state = "CONNECTED" /\ link = "down" => broker = {}
  /\ state = "CONNECTED" /\ link \in {"down", "open"} =>
       \A t \in Topics : Granted(t) => t \in m_subscription_topics
  /\ link = "up" /\ restoring =>
       \A t \in Topics : Granted(t) \/ t \in todo <=> t \in m_subscription_topics
  /\ SubscriptionSync

-----------------------------------------------------------------------------
(* What the broker will have, as the send queue changes *)

(* The last request for t is at place i of the send queue. *)
Decides(t, i) == i \in Requests(t) /\ \A j \in Requests(t) : j =< i

(* It stays the same when a packet that is no request comes in front ...   *)
LEMMA GrantedPrepended ==
  ASSUME Base, m_send_queue' \in {<<CONNECT>> \o m_send_queue, <<PINGREQ>> \o m_send_queue},
         NEW t \in Topics
  PROVE  /\ Requests(t) = {} <=> Requests(t)' = {}
         /\ broker' = broker => (Granted(t)' <=> Granted(t))
<1> DEFINE n == Len(m_send_queue)
<1>1. /\ n \in Nat /\ DOMAIN m_send_queue = 1 .. n /\ DOMAIN m_send_queue' = 1 .. n + 1
      /\ ~HasId(m_send_queue'[1])
      /\ \A i \in 1 .. n : m_send_queue'[i + 1] = m_send_queue[i]
      /\ \A i \in 2 .. n + 1 : m_send_queue'[i] = m_send_queue[i - 1]
  BY WhenPrepended
<1> HIDE DEF n
<1>2. \A i \in Requests(t) : i \in 1 .. n /\ i + 1 \in Requests(t)' /\ m_send_queue'[i + 1] = m_send_queue[i]
  BY <1>1 DEF Requests
<1>3. \A i \in Requests(t)' :
        i \in 2 .. n + 1 /\ i - 1 \in Requests(t) /\ m_send_queue'[i] = m_send_queue[i - 1]
  BY <1>1 DEF Requests
<1>4. \A i \in Requests(t) : Decides(t, i) => Decides(t, i + 1)'
  <2> SUFFICES ASSUME NEW i \in Requests(t), Decides(t, i), NEW j \in Requests(t)'
               PROVE  j =< i + 1
    BY <1>2 DEF Decides
  <2>1. j \in 2 .. n + 1 /\ j - 1 =< i /\ i \in 1 .. n
    BY <1>2, <1>3 DEF Decides
  <2> QED
    BY <1>1, <2>1
<1>5. \A i \in Requests(t)' : Decides(t, i)' => Decides(t, i - 1)
  <2> SUFFICES ASSUME NEW i \in Requests(t)', Decides(t, i)', NEW j \in Requests(t)
               PROVE  j =< i - 1
    BY <1>3 DEF Decides
  <2>1. j + 1 =< i /\ i \in 2 .. n + 1 /\ j \in 1 .. n
    BY <1>2, <1>3 DEF Decides
  <2> QED
    BY <1>1, <2>1
<1>6. Requests(t) = {} <=> Requests(t)' = {}
  BY <1>2, <1>3
<1>7. ASSUME broker' = broker, Granted(t) PROVE Granted(t)'
  BY <1>2, <1>4, <1>6, <1>7 DEF Granted, Decides
<1>8. ASSUME broker' = broker, Granted(t)' PROVE Granted(t)
  BY <1>3, <1>5, <1>6, <1>8 DEF Granted, Decides
<1> QED
  BY <1>6, <1>7, <1>8

(* ... when one is appended ...                                            *)
LEMMA GrantedPublished ==
  ASSUME Base, NEW p \in Packets, ~HasId(p), m_send_queue' = Append(m_send_queue, p), broker' = broker,
         NEW t \in Topics
  PROVE  Requests(t)' = Requests(t) /\ (Granted(t)' <=> Granted(t))
<1>1. Requests(t)' = Requests(t) /\ \A i \in Requests(t) : m_send_queue'[i] = m_send_queue[i]
  BY WhenAppended DEF Requests
<1> QED
  BY <1>1 DEF Granted

(* ... and when the broker receives what the write thread has taken.       *)
LEMMA GrantedWritten ==
  ASSUME Base, WritePacket, NEW t \in Topics
  PROVE  /\ Requests(t) = {} => Requests(t)' = {}
         /\ Granted(t)' <=> Granted(t)
<1> DEFINE n == Len(m_send_queue)
           p == m_send_queue[1]
<1>1. /\ n \in Nat \ {0} /\ DOMAIN m_send_queue = 1 .. n /\ DOMAIN m_send_queue' = 1 .. n - 1
      /\ \A i \in 1 .. n - 1 : m_send_queue'[i] = m_send_queue[i + 1]
      /\ p \in Packets /\ broker' = Apply(broker, p)
  BY WhenTaken DEF WritePacket
<1>2. /\ ~(HasId(p) /\ p.value = t) => (t \in broker' <=> t \in broker)
      /\ HasId(p) /\ p.value = t => (t \in broker' <=> p.type = "SUBSCRIBE")
  BY <1>1 DEF Apply, HasId, Base, TypeOK
<1>3. 1 \in Requests(t) <=> HasId(p) /\ p.value = t
  BY <1>1 DEF Requests
<1> HIDE DEF n
<1>4. \A i \in Requests(t) \ {1} :
        i \in 2 .. n /\ i - 1 \in Requests(t)' /\ m_send_queue'[i - 1] = m_send_queue[i]
  BY <1>1 DEF Requests
<1>5. \A i \in Requests(t)' :
        i \in 1 .. n - 1 /\ i + 1 \in Requests(t) \ {1} /\ m_send_queue'[i] = m_send_queue[i + 1]
  BY <1>1 DEF Requests
<1>6. \A i \in Requests(t) \ {1} : Decides(t, i) => Decides(t, i - 1)'
  <2> SUFFICES ASSUME NEW i \in Requests(t) \ {1}, Decides(t, i), NEW j \in Requests(t)'
               PROVE  j =< i - 1
    BY <1>4 DEF Decides
  <2>1. j \in 1 .. n - 1 /\ j + 1 =< i /\ i \in 2 .. n
    BY <1>4, <1>5 DEF Decides
  <2> QED
    BY <1>1, <2>1
<1>7. \A i \in Requests(t)' : Decides(t, i)' => Decides(t, i + 1)
  <2> SUFFICES ASSUME NEW i \in Requests(t)', Decides(t, i)', NEW j \in Requests(t)
               PROVE  j =< i + 1
    BY <1>5 DEF Decides
  <2>1. CASE j = 1
    BY <1>1, <1>5, <2>1
  <2>2. CASE j # 1
    <3>1. j - 1 =< i /\ i \in 1 .. n - 1 /\ j \in 2 .. n
      BY <1>4, <1>5, <2>2 DEF Decides
    <3> QED
      BY <1>1, <3>1
  <2> QED
    BY <2>1, <2>2
<1>8. Requests(t)' = {} <=> Requests(t) \subseteq {1}
  BY <1>4, <1>5
<1>9. Requests(t) = {} => Requests(t)' = {}
  BY <1>8
<1>10. CASE Requests(t)' # {}
  <2>1. Requests(t) # {}
    BY <1>9, <1>10
  <2>2. Decides(t, 1) => FALSE
    BY <1>1, <1>5, <1>10 DEF Decides
  <2>3. ASSUME Granted(t) PROVE Granted(t)'
    <3>1. PICK i \in Requests(t) : m_send_queue[i].type = "SUBSCRIBE" /\ Decides(t, i)
      BY <2>1, <2>3 DEF Granted, Decides
    <3>2. i # 1
      BY <2>2, <3>1
    <3> QED
      BY <1>4, <1>6, <3>1, <3>2 DEF Granted, Decides
  <2>4. ASSUME Granted(t)' PROVE Granted(t)
    <3>1. PICK i \in Requests(t)' : m_send_queue'[i].type = "SUBSCRIBE" /\ Decides(t, i)'
      BY <1>10, <2>4 DEF Granted, Decides
    <3> QED
      BY <1>5, <1>7, <3>1 DEF Granted, Decides
  <2> QED
    BY <1>9, <2>3, <2>4
<1>11. CASE Requests(t)' = {} /\ Requests(t) = {}
  BY <1>2, <1>3, <1>11 DEF Granted
<1>12. CASE Requests(t)' = {} /\ Requests(t) = {1}
  BY <1>2, <1>3, <1>12 DEF Granted
<1> QED
  BY <1>8, <1>9, <1>10, <1>11, <1>12

(* A new request decides about its topic, and about no other one.          *)
LEMMA GrantedRequested ==
  ASSUME Base, NEW type \in {"SUBSCRIBE", "UNSUBSCRIBE"}, NEW t \in Topics, Requested(type, t),
         broker' = broker, NEW u \in Topics
  PROVE  Granted(u)' <=> IF u = t THEN type = "SUBSCRIBE" ELSE Granted(u)
<1> DEFINE n == Len(m_send_queue)
           p == Packet(type, t, PacketId)
<1>1. p \in Packets /\ HasId(p) /\ p.value = t /\ p.type = type
  BY PacketTypes DEF Packet, HasId, Base
<1>2. /\ n \in Nat /\ DOMAIN m_send_queue = 1 .. n /\ DOMAIN m_send_queue' = 1 .. n + 1
      /\ m_send_queue'[n + 1] = p
      /\ \A i \in 1 .. n : m_send_queue'[i] = m_send_queue[i]
  BY <1>1, WhenAppended DEF Requested
<1> HIDE DEF n, p
<1>3. CASE u = t
  <2>1. n + 1 \in Requests(u)' /\ Requests(u)' \subseteq 1 .. n + 1
    BY <1>1, <1>2, <1>3 DEF Requests
  <2>2. \A i \in Requests(u)' : (\A j \in Requests(u)' : j =< i) <=> i = n + 1
    BY <1>2, <2>1
  <2> QED
    BY <1>1, <1>2, <1>3, <2>1, <2>2 DEF Granted
<1>4. CASE u # t
  <2>1. Requests(u)' = Requests(u) /\ \A i \in Requests(u) : m_send_queue'[i] = m_send_queue[i]
    BY <1>1, <1>2, <1>4 DEF Requests
  <2> QED
    BY <1>4, <2>1 DEF Granted
<1> QED
  BY <1>3, <1>4

-----------------------------------------------------------------------------
(* The steps *)

sessionVars == <<state, link, restoring, todo, m_subscription_topics>>

(* Nothing but the send queue, the broker and the session matter.          *)
LEMMA RestoredKept ==
  ASSUME Restored, UNCHANGED sessionVars, broker' = broker,
         \A t \in Topics : (Requests(t) = {} => Requests(t)' = {}) /\ (Granted(t)' <=> Granted(t))
  PROVE  Restored'
BY DEF Restored, SubscriptionSync, sessionVars

(* An empty send queue holds no requests.                                  *)
LEMMA NoRequests ==
  /\ m_send_queue = <<>> => \A t \in Topics : Requests(t) = {} /\ (Granted(t) <=> t \in broker)
  /\ m_send_queue' = <<>> => \A t \in Topics : Requests(t)' = {} /\ (Granted(t)' <=> t \in broker')
BY DEF Requests, Granted

(* subscribe and unsubscribe: the request, or a new connection.            *)
LEMMA RestoredSend ==
  ASSUME Base, Restored, NEW type \in {"SUBSCRIBE", "UNSUBSCRIBE"}, NEW t \in Topics, NEW callbacks,
         m_subscription_topics' = IF type = "SUBSCRIBE" THEN m_subscription_topics \cup {t}
                                                        ELSE m_subscription_topics \ {t},
         SendOrReconnect(type, t, callbacks),
         UNCHANGED <<state, setupVars, restoring, todo, last, published>>
  PROVE  Restored'
<1>1. CASE state = "CONNECTING"
  <2>1. UNCHANGED <<m_send_queue, link, broker>> /\ link # "up" /\ state' = "CONNECTING" /\ link' # "up"
    BY <1>1 DEF SendOrReconnect, Base, Control
  <2>2. \A u \in Topics : Requests(u)' = Requests(u) /\ (Granted(u)' <=> Granted(u))
    BY <2>1 DEF Requests, Granted
  <2> QED
    BY <1>1, <2>1, <2>2 DEF Restored, SubscriptionSync
<1>2. CASE state = "CONNECTED" /\ QueueFull
  <2>1. m_send_queue' = <<>> /\ link' = "down" /\ broker' = {} /\ state' = "CONNECTED"
    BY <1>2 DEF SendOrReconnect, DropConnection
  <2>2. \A u \in Topics : ~Granted(u)'
    BY <2>1, NoRequests
  <2> QED
    BY <2>1, <2>2 DEF Restored, SubscriptionSync
<1>3. CASE state = "CONNECTED" /\ ~QueueFull
  <2>1. Requested(type, t) /\ UNCHANGED <<link, broker, state, restoring>> /\ ~restoring
    BY <1>3 DEF SendOrReconnect, Requested, Enqueue, setupVars
  <2>2. \A u \in Topics : Granted(u)' <=> IF u = t THEN type = "SUBSCRIBE" ELSE Granted(u)
    BY <2>1, GrantedRequested
  <2>3. \A u \in Topics :
          u \in m_subscription_topics' <=> IF u = t THEN type = "SUBSCRIBE" ELSE u \in m_subscription_topics
    OBVIOUS
  <2> QED
    BY <1>3, <2>1, <2>2, <2>3 DEF Restored, SubscriptionSync
<1> QED
  BY <1>1, <1>2, <1>3 DEF SendOrReconnect

(* Every step keeps what Restored says.                                    *)
LEMMA RestoredStep == Base /\ Restored /\ [Next]_vars => Restored'
<1> SUFFICES ASSUME Base, Restored, [Next]_vars PROVE Restored'
  OBVIOUS
<1> USE DEF setupVars, subVars, queueVars, wireVars
<1>1. ASSUME UNCHANGED sessionVars, UNCHANGED <<m_send_queue, broker>> PROVE Restored'
  <2>1. \A t \in Topics : Requests(t)' = Requests(t) /\ (Granted(t)' <=> Granted(t))
    BY <1>1 DEF Requests, Granted
  <2> QED
    BY <1>1, <2>1, RestoredKept
<1>2. CASE \/ \E type \in {"DROP", "FIFO", "LIFO"}, size \in PublishQueueSizes : SetPublishQueue(type, size)
           \/ \E size \in SendQueueSizes : SetSendQueue(size)
           \/ PublishQueued \/ UNCHANGED vars
  BY <1>1, <1>2 DEF SetPublishQueue, SetSendQueue, PublishQueued, vars, sessionVars
<1>3. CASE Connect \/ ConnectionDown
  <2>1. m_send_queue' = <<>> /\ state' = "CONNECTING" /\ link' = "down"
    BY <1>3 DEF Connect, ConnectionDown, Base, Control
  <2> QED
    BY <2>1, NoRequests DEF Restored, SubscriptionSync
<1>4. CASE Disconnect
  BY <1>4 DEF Disconnect, DropConnection, Restored, SubscriptionSync
<1>5. ASSUME NEW m \in 1 .. MaxMessages, Published(m), UNCHANGED sessionVars, UNCHANGED broker
      PROVE  Restored'
  <2>1. Packet("PUBLISH", m, 0) \in Packets /\ ~HasId(Packet("PUBLISH", m, 0))
    BY PacketTypes DEF Packet, HasId, Base
  <2>2. \A t \in Topics : Requests(t)' = Requests(t) /\ (Granted(t)' <=> Granted(t))
    BY <1>5, <2>1, GrantedPublished DEF Published
  <2> QED
    BY <1>5, <2>2, RestoredKept
<1>6. CASE PublishSent \/ FlushPublish
  <2>1. UNCHANGED sessionVars /\ UNCHANGED broker
    BY <1>6 DEF PublishSent, FlushPublish, sessionVars
  <2>2. m_send_queue' = m_send_queue \/ \E m \in 1 .. MaxMessages : Published(m)
    <3>1. CASE PublishSent
      <4>1. published' \in 1 .. MaxMessages
        BY <3>1 DEF PublishSent, Base, TypeOK
      <4>2. m_send_queue' = m_send_queue \/ Published(published')
        BY <3>1 DEF PublishSent, Published, Enqueue
      <4> QED
        BY <4>1, <4>2
    <3>2. CASE FlushPublish
      <4>1. Head(m_publish_queue) \in 1 .. MaxMessages
        BY <3>2, FirstTaken DEF FlushPublish, Base, TypeOK
      <4> QED
        BY <3>2, <4>1 DEF FlushPublish, Published, Enqueue
    <3> QED
      BY <1>6, <3>1, <3>2
  <2> QED
    BY <1>1, <1>5, <2>1, <2>2
<1>7. ASSUME NEW t \in Topics, Subscribe(t) \/ Unsubscribe(t) PROVE Restored'
  <2>1. CASE Subscribe(t)
    BY <2>1, RestoredSend DEF Subscribe
  <2>2. CASE Unsubscribe(t)
    BY <2>2, RestoredSend DEF Unsubscribe
  <2> QED
    BY <1>7, <2>1, <2>2
<1>8. CASE RestoreRefused \/ PublishPopsEmpty \/ \E t \in Topics : UnsubscribeMissing(t)
  BY <1>8 DEF RestoreRefused, PublishPopsEmpty, UnsubscribeMissing, Abort, Restored, SubscriptionSync
<1>9. CASE LinkOpens
  <2>1. \A t \in Topics : Requests(t) = {} <=> Requests(t)' = {}
    BY <1>9, GrantedPrepended DEF LinkOpens
  <2>2. CASE state = "CONNECTED"
    <3>1. broker' = broker
      BY <1>9, <2>2 DEF LinkOpens, Restored
    <3>2. \A t \in Topics : Granted(t)' <=> Granted(t)
      BY <1>9, <3>1, GrantedPrepended DEF LinkOpens
    <3> QED
      BY <1>9, <2>2, <3>2 DEF LinkOpens, Restored, SubscriptionSync
  <2>3. CASE state = "CONNECTING"
    <3>1. \A t \in Topics : ~Granted(t)'
      BY <1>9, <2>1, <2>3 DEF LinkOpens, Restored, Granted
    <3> QED
      BY <1>9, <2>3, <3>1 DEF LinkOpens, Restored, SubscriptionSync
  <2> QED
    BY <1>9, <2>2, <2>3 DEF LinkOpens
<1>10. CASE WritePacket
  <2>1. UNCHANGED sessionVars /\ link \in {"open", "up"}
    BY <1>10 DEF WritePacket, sessionVars
  <2>2. \A t \in Topics : Granted(t)' <=> Granted(t)
    BY <1>10, GrantedWritten
  <2> QED
    BY <2>1, <2>2 DEF sessionVars, Restored, SubscriptionSync
<1>11. CASE SendPingRequest
  <2>1. UNCHANGED sessionVars /\ UNCHANGED broker
    BY <1>11 DEF SendPingRequest, sessionVars
  <2>2. \A t \in Topics : (Requests(t) = {} => Requests(t)' = {}) /\ (Granted(t)' <=> Granted(t))
    BY <1>11, <2>1, GrantedPrepended DEF SendPingRequest
  <2> QED
    BY <2>1, <2>2, RestoredKept
<1>12. CASE LinkLost
  BY <1>12 DEF LinkLost, Restored, SubscriptionSync
<1>13. CASE ConnectionUp
  <2>1. \A t \in Topics : Granted(t)' <=> Granted(t)
    BY <1>13 DEF ConnectionUp, Requests, Granted
  <2>2. \A t \in Topics : Granted(t) => t \in m_subscription_topics
    BY <1>13 DEF ConnectionUp, Restored, Base, Control, TypeOK
  <2> QED
    BY <1>13, <2>1, <2>2 DEF ConnectionUp, Restored, SubscriptionSync
<1>14. CASE RestoreSubscription
  <2>1. PICK t \in todo : todo' = todo \ {t} /\ Requested("SUBSCRIBE", t)
    BY <1>14 DEF RestoreSubscription, Requested, Enqueue
  <2>2. t \in Topics /\ restoring /\ state = "CONNECTED" /\ link \in {"up", "lost"}
        /\ UNCHANGED <<state, link, restoring, broker, m_subscription_topics>>
    BY <1>14 DEF RestoreSubscription, Base, TypeOK, Control
  <2>3. \A u \in Topics : Granted(u)' <=> IF u = t THEN TRUE ELSE Granted(u)
    BY <2>1, <2>2, GrantedRequested
  <2> QED
    BY <2>1, <2>2, <2>3 DEF Restored, SubscriptionSync
<1>15. CASE RestoreDone
  <2>1. \A t \in Topics : Granted(t)' <=> Granted(t)
    BY <1>15 DEF RestoreDone, Requests, Granted
  <2>2. restoring /\ ~restoring' /\ todo = {} /\ UNCHANGED <<state, link, m_subscription_topics>>
        /\ link \in {"up", "lost"}
    BY <1>15 DEF RestoreDone, Base, Control
  <2> QED
    BY <2>1, <2>2 DEF Restored, SubscriptionSync
<1> QED
  BY <1>2, <1>3, <1>4, <1>6, <1>7, <1>8, <1>9, <1>10, <1>11, <1>12, <1>13, <1>14, <1>15 DEF Next

-----------------------------------------------------------------------------
(* The theorems *)

(* Once connectionStateChange has restored the subscriptions, the broker   *)
(* has, or will have when it has received the send queue, exactly the      *)
(* topics in m_subscription_topics: through every sequence of subscribe,   *)
(* unsubscribe, refused packets, lost connections and reconnects, and for  *)
(* any set of topics.                                                      *)
THEOREM BrokerInSync == Spec => []SubscriptionSync
<1>1. Init => Restored
  BY DEF Init, Restored, SubscriptionSync
<1>2. Restored => SubscriptionSync
  BY DEF Restored
<1> QED
  BY <1>1, <1>2, BaseInit, BaseStep, RestoredStep, PTL DEF Spec

(* A callback in the tree belongs to a topic in m_subscription_topics:     *)
(* unsubscribe removes both, and a refused packet clears the tree.         *)
THEOREM NoOrphans == Spec => []NoOrphanCallback
<1>1. Init => NoOrphanCallback
  BY DEF Init, NoOrphanCallback
<1>2. NoOrphanCallback /\ [Next]_vars => NoOrphanCallback'
  BY DEF NoOrphanCallback, Next, SetPublishQueue, SetSendQueue, Connect, Disconnect, DropConnection,
     PublishQueued, PublishSent, Subscribe, Unsubscribe, SendOrReconnect, UnsubscribeMissing, PublishPopsEmpty,
     Abort, LinkOpens, WritePacket, SendPingRequest, LinkLost, ConnectionUp, RestoreSubscription, RestoreRefused,
     FlushPublish, RestoreDone, ConnectionDown, vars, subVars
<1> QED
  BY <1>1, <1>2, PTL DEF Spec

=============================================================================
