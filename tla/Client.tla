-------------------------------- MODULE Client --------------------------------
(***************************************************************************)
(* What the calls of a TrueMQTT client do to its data: the subscriptions,  *)
(* the publish queue, the contents of the send queue and the packet ids.   *)
(*                                                                         *)
(* Everything here happens under m_state_mutex, except the write thread's  *)
(* taking of packets, so a call is one step, and connectionStateChange     *)
(* (TRUE), which sends while packets are taken, is one step per packet.    *)
(* The threads, their races and the ways of losing a connection are the    *)
(* subject of module Connection; here a connection is a link that opens,   *)
(* comes up with the CONNACK, and is lost at any moment after it opened.   *)
(***************************************************************************)
EXTENDS Integers, Sequences, SequencesExt

CONSTANTS
  Topics,             (* topics the application uses                        *)
  PublishQueueSizes,  (* sizes it gives to setPublishQueue                  *)
  SendQueueSizes,     (* sizes it gives to setSendQueue                     *)
  IdRange,            (* number of values of m_packet_id: 2^16 in the code  *)
  MaxMessages         (* bound: messages the application publishes          *)

(* A send queue of 2^16 packets has more packets than there are ids.        *)
ASSUME ClientAssumption ==
  /\ PublishQueueSizes \subseteq Nat
  /\ SendQueueSizes \subseteq Nat
  /\ IdRange \in Nat /\ \A n \in SendQueueSizes : n + 2 < IdRange
  /\ MaxMessages \in Nat

VARIABLES
  state,                  (* m_state, or how the process ended              *)
  m_publish_queue_type,
  m_publish_queue_size,
  m_send_queue_size,
  m_subscription_topics,  (* the flat set of topics                         *)
  m_subscriptions,        (* the topics that have a callback in the tree    *)
  m_publish_queue,        (* numbers of the queued messages                 *)
  m_packet_id,
  m_send_queue,
  restoring,              (* connectionStateChange(true) is running         *)
  todo,                   (* the subscriptions it has still to send         *)
  link,                   (* the connection to the broker                   *)
  broker,                 (* topics the broker has for this session         *)
  last,                   (* number of the last message the broker received *)
  published,              (* messages published so far                      *)
  accepted                (* messages toPublishQueue took since last empty  *)

setupVars == <<m_publish_queue_type, m_publish_queue_size, m_send_queue_size>>
subVars   == <<m_subscription_topics, m_subscriptions>>
queueVars == <<m_publish_queue, accepted>>
wireVars  == <<link, broker, last>>
vars == <<state, setupVars, subVars, queueVars, m_packet_id, m_send_queue, restoring, todo,
          wireVars, published>>

-----------------------------------------------------------------------------
Packet(t, v, i) == [type |-> t, value |-> v, id |-> i]
CONNECT == Packet("CONNECT", 0, 0)
PINGREQ == Packet("PINGREQ", 0, 0)

(* Connection::send refuses a packet without priority in this case. *)
QueueFull == Len(m_send_queue) > m_send_queue_size

PacketId_KeepsZero == m_packet_id

(* The id a SUBSCRIBE or UNSUBSCRIBE gets: "packet-id zero is not allowed". *)
PacketId == IF m_packet_id = 0 THEN 1 ELSE m_packet_id

Enqueue(p) == m_send_queue' = Append(m_send_queue, p)
NextId_Unbounded == m_packet_id' = PacketId + 1
NextId     == m_packet_id' = (PacketId + 1) % IdRange

Init ==
  /\ state = "DISCONNECTED"
  /\ m_publish_queue_type = "DROP" /\ m_publish_queue_size = 0
  /\ m_send_queue_size \in SendQueueSizes
  /\ m_subscription_topics = {} /\ m_subscriptions = {}
  /\ m_publish_queue = <<>> /\ accepted = <<>>
  /\ m_packet_id = 0 /\ m_send_queue = <<>>
  /\ restoring = FALSE /\ todo = {}
  /\ link = "down" /\ broker = {} /\ last = 0 /\ published = 0

-----------------------------------------------------------------------------
(* setPublishQueue and setSendQueue change nothing unless DISCONNECTED.    *)
SetPublishQueue(type, size) ==
  /\ state = "DISCONNECTED"
  /\ m_publish_queue_type' = type
  /\ m_publish_queue_size' = size
  /\ UNCHANGED <<state, m_send_queue_size, subVars, queueVars, m_packet_id, m_send_queue,
                 restoring, todo, wireVars, published>>

SetSendQueue(size) ==
  /\ state = "DISCONNECTED"
  /\ m_send_queue_size' = size
  /\ UNCHANGED <<state, m_publish_queue_type, m_publish_queue_size, subVars, queueVars,
                 m_packet_id, m_send_queue, restoring, todo, wireVars, published>>

(* Impl::disconnect: everything is forgotten, except m_subscription_topics *)
DropConnection ==
  /\ m_subscriptions' = {}
  /\ m_publish_queue' = <<>> /\ accepted' = <<>>
  /\ m_send_queue' = <<>>
  /\ link' = "down" /\ broker' = {}

Connect ==
  /\ state = "DISCONNECTED"
  /\ state' = "CONNECTING"
  /\ UNCHANGED <<setupVars, subVars, queueVars, m_packet_id, m_send_queue, restoring, todo,
                 wireVars, published>>

Disconnect ==
  /\ state \in {"CONNECTING", "CONNECTED"}
  /\ ~restoring
  /\ state' = "DISCONNECTED"
  /\ DropConnection
  /\ UNCHANGED <<setupVars, m_subscription_topics, m_packet_id, restoring, todo, last, published>>

ToPublishQueue_OverLimit(m) == Append(m_publish_queue, m)

(* Impl::toPublishQueue: what m_publish_queue becomes *)
ToPublishQueue(m) ==
  LET full == Len(m_publish_queue) >= m_publish_queue_size
  IN CASE m_publish_queue_type = "DROP" -> m_publish_queue
       [] m_publish_queue_type = "FIFO" ->
            Append(IF full THEN Tail(m_publish_queue) ELSE m_publish_queue, m)
       [] m_publish_queue_type = "LIFO" ->
            Append(IF full THEN Front(m_publish_queue) ELSE m_publish_queue, m)

(* A FIFO or LIFO of size 0 is full while it is empty: toPublishQueue pops *)
(* from an empty deque, which is undefined.                                *)
PopsEmpty ==
  /\ m_publish_queue_type # "DROP"
  /\ m_publish_queue = <<>>
  /\ m_publish_queue_size = 0

(* Client::publish while (re)connecting ... *)
PublishQueued ==
  /\ state = "CONNECTING"
  /\ published < MaxMessages
  /\ ~PopsEmpty
  /\ published' = published + 1
  /\ m_publish_queue' = ToPublishQueue(published')
  /\ accepted' = Append(accepted, published')
  /\ UNCHANGED <<state, setupVars, subVars, m_packet_id, m_send_queue, restoring, todo, wireVars>>

(* ... and once connected; a full send queue refuses the message. *)
PublishSent ==
  /\ state = "CONNECTED"
  /\ ~restoring
  /\ published < MaxMessages
  /\ published' = published + 1
  /\ IF QueueFull THEN UNCHANGED m_send_queue ELSE Enqueue(Packet("PUBLISH", published', 0))
  /\ UNCHANGED <<state, setupVars, subVars, queueVars, m_packet_id, restoring, todo, wireVars>>

(* The end of subscribe and unsubscribe.  A packet that the send queue     *)
(* refuses drops the connection for a new one, and m_state stays CONNECTED *)
SendOrReconnect(type, t, callbacks) ==
  \/ /\ state = "CONNECTING"
     /\ m_subscriptions' = callbacks
     /\ UNCHANGED <<queueVars, m_packet_id, m_send_queue, link, broker>>
  \/ /\ state = "CONNECTED"
     /\ ~restoring
     /\ NextId
     /\ IF QueueFull
          THEN DropConnection
          ELSE /\ Enqueue(Packet(type, t, PacketId))
               /\ m_subscriptions' = callbacks
               /\ UNCHANGED <<queueVars, link, broker>>

Subscribe(t) ==
  /\ m_subscription_topics' = m_subscription_topics \cup {t}
  /\ SendOrReconnect("SUBSCRIBE", t, m_subscriptions \cup {t})
  /\ UNCHANGED <<state, setupVars, restoring, todo, last, published>>

Unsubscribe_KeepsCallback(t) ==
  /\ t \in m_subscription_topics \cap m_subscriptions
  /\ m_subscription_topics' = m_subscription_topics \ {t}
  /\ SendOrReconnect("UNSUBSCRIBE", t, m_subscriptions)
  /\ UNCHANGED <<state, setupVars, restoring, todo, last, published>>

Unsubscribe(t) ==
  /\ t \in m_subscription_topics \cap m_subscriptions
  /\ m_subscription_topics' = m_subscription_topics \ {t}
  /\ SendOrReconnect("UNSUBSCRIBE", t, m_subscriptions \ {t})
  /\ UNCHANGED <<state, setupVars, restoring, todo, last, published>>

(* The process dies. *)
Abort(why) ==
  /\ state' = why
  /\ link' = "down" /\ restoring' = FALSE
  /\ UNCHANGED <<setupVars, subVars, queueVars, m_packet_id, m_send_queue, todo, broker, last, published>>

(* A topic of the flat set that is not in the tree: unsubscribe goes       *)
(* through the end() that find returns.                                    *)
UnsubscribeMissing(t) ==
  /\ state \in {"CONNECTING", "CONNECTED"}
  /\ ~restoring
  /\ t \in m_subscription_topics \ m_subscriptions
  /\ Abort("UNDEFINED")

PublishPopsEmpty ==
  /\ state = "CONNECTING"
  /\ published < MaxMessages
  /\ PopsEmpty
  /\ Abort("POP_EMPTY")

-----------------------------------------------------------------------------
(* The connection, as far as the data above is concerned.                  *)

LinkOpens ==
  /\ state \in {"CONNECTING", "CONNECTED"}
  /\ link = "down"
  /\ link' = "open"
  /\ broker' = {}
  /\ m_send_queue' = <<CONNECT>> \o m_send_queue
  /\ UNCHANGED <<state, setupVars, subVars, queueVars, m_packet_id, restoring, todo, last, published>>

(* The topics a broker has once it has received packet p *)
Apply(topics, p) ==
  CASE p.type = "SUBSCRIBE"   -> topics \cup {p.value}
    [] p.type = "UNSUBSCRIBE" -> topics \ {p.value}
    [] OTHER -> topics

(* The write thread takes the next packet and the broker receives it. *)
WritePacket ==
  /\ link \in {"open", "up"}
  /\ m_send_queue # <<>>
  /\ m_send_queue' = Tail(m_send_queue)
  /\ broker' = Apply(broker, Head(m_send_queue))
  /\ last' = IF Head(m_send_queue).type = "PUBLISH" THEN Head(m_send_queue).value ELSE last
  /\ UNCHANGED <<state, setupVars, subVars, queueVars, m_packet_id, restoring, todo, link, published>>

(* recv() also pings before the CONNACK, in front of a CONNECT still queued. *)
SendPingRequest ==
  /\ link \in {"open", "up"}
  /\ ~restoring
  /\ PINGREQ \notin ToSet(m_send_queue)
  /\ m_send_queue' = <<PINGREQ>> \o m_send_queue
  /\ UNCHANGED <<state, setupVars, subVars, queueVars, m_packet_id, restoring, todo, wireVars, published>>

(* The CONNACK arrives: connectionStateChange(true) restores the           *)
(* subscriptions and flushes the publish queue.                            *)
ConnectionUp ==
  /\ link = "open"
  /\ CONNECT \notin ToSet(m_send_queue)
  /\ link' = "up"
  /\ state' = "CONNECTED"
  /\ restoring' = TRUE
  /\ todo' = m_subscription_topics
  /\ UNCHANGED <<setupVars, subVars, queueVars, m_packet_id, m_send_queue, broker, last, published>>

RestoreSubscription ==
  /\ restoring
  /\ ~QueueFull
  /\ \E t \in todo :
       /\ todo' = todo \ {t}
       /\ Enqueue(Packet("SUBSCRIBE", t, PacketId))
       /\ NextId
  /\ UNCHANGED <<state, setupVars, subVars, queueVars, restoring, wireVars, published>>

(* The read thread joins itself. *)
RestoreRefused ==
  /\ restoring
  /\ todo # {}
  /\ QueueFull
  /\ Abort("SELF_JOIN")

FlushPublish ==
  /\ restoring
  /\ todo = {}
  /\ m_publish_queue # <<>>
  /\ ~QueueFull
  /\ Enqueue(Packet("PUBLISH", Head(m_publish_queue), 0))
  /\ m_publish_queue' = Tail(m_publish_queue)
  /\ accepted' = <<>>
  /\ UNCHANGED <<state, setupVars, subVars, m_packet_id, restoring, todo, wireVars, published>>

RestoreDone_KeepsQueue ==
  /\ restoring
  /\ todo = {}
  /\ m_publish_queue = <<>> \/ QueueFull
  /\ restoring' = FALSE
  /\ UNCHANGED <<state, setupVars, subVars, queueVars, m_packet_id, m_send_queue, todo, wireVars, published>>

(* A refused message discards the rest of the publish queue. *)
RestoreDone ==
  /\ restoring
  /\ todo = {}
  /\ m_publish_queue = <<>> \/ QueueFull
  /\ m_publish_queue' = <<>> /\ accepted' = <<>>
  /\ restoring' = FALSE
  /\ UNCHANGED <<state, setupVars, subVars, m_packet_id, m_send_queue, todo, wireVars, published>>

LinkLost ==
  /\ link \in {"open", "up"}
  /\ link' = "lost"
  /\ UNCHANGED <<state, setupVars, subVars, queueVars, m_packet_id, m_send_queue, restoring, todo,
                 broker, last, published>>

ConnectionDown_KeepsQueue ==
  /\ link = "lost"
  /\ ~restoring
  /\ state' = "CONNECTING"
  /\ link' = "down"
  /\ UNCHANGED <<setupVars, subVars, queueVars, m_packet_id, m_send_queue, restoring, todo, broker,
                 last, published>>

(* connectionStateChange(false), and the send queue is cleared after it *)
ConnectionDown ==
  /\ link = "lost"
  /\ ~restoring
  /\ state' = "CONNECTING"
  /\ link' = "down"
  /\ m_send_queue' = <<>>
  /\ UNCHANGED <<setupVars, subVars, queueVars, m_packet_id, restoring, todo, broker, last, published>>

-----------------------------------------------------------------------------
Next ==
  \/ \E type \in {"DROP", "FIFO", "LIFO"}, size \in PublishQueueSizes : SetPublishQueue(type, size)
  \/ \E size \in SendQueueSizes : SetSendQueue(size)
  \/ Connect \/ Disconnect \/ PublishQueued \/ PublishSent \/ PublishPopsEmpty
  \/ \E t \in Topics : Subscribe(t) \/ Unsubscribe(t) \/ UnsubscribeMissing(t)
  \/ LinkOpens \/ WritePacket \/ SendPingRequest \/ LinkLost
  \/ ConnectionUp \/ RestoreSubscription \/ RestoreRefused \/ FlushPublish \/ RestoreDone
  \/ ConnectionDown

Spec == Init /\ [][Next]_vars

-----------------------------------------------------------------------------
IsPublish(p) == p.type = "PUBLISH"
HasId(p) == p.type \in {"SUBSCRIBE", "UNSUBSCRIBE"}

Packets ==
       [type : {"CONNECT", "PINGREQ", "PUBLISH"}, value : 0 .. MaxMessages, id : {0}]
  \cup [type : {"SUBSCRIBE", "UNSUBSCRIBE"}, value : Topics, id : 1 .. IdRange - 1]

TypeOK ==
  /\ state \in {"DISCONNECTED", "CONNECTING", "CONNECTED", "SELF_JOIN", "UNDEFINED", "POP_EMPTY"}
  /\ m_publish_queue_type \in {"DROP", "FIFO", "LIFO"}
  /\ m_publish_queue_size \in PublishQueueSizes \cup {0}
  /\ m_send_queue_size \in SendQueueSizes
  /\ m_subscription_topics \subseteq Topics /\ m_subscriptions \subseteq Topics
  /\ m_publish_queue \in Seq(1 .. MaxMessages) /\ accepted \in Seq(1 .. MaxMessages)
  /\ m_packet_id \in 0 .. IdRange - 1
  /\ m_send_queue \in Seq(Packets)
  /\ restoring \in BOOLEAN /\ todo \subseteq Topics
  /\ link \in {"down", "open", "up", "lost"} /\ broker \subseteq Topics
  /\ last \in 0 .. MaxMessages /\ published \in 0 .. MaxMessages

(* Messages reach the broker in the order they were published and none of  *)
(* them twice, through reconnects, refused packets and both queues: the    *)
(* last one it has received, those in the send queue and those in the      *)
(* publish queue have increasing numbers.                                  *)
PublishOrder ==
  LET Sent   == {i \in DOMAIN m_send_queue : IsPublish(m_send_queue[i])}
      Queued == DOMAIN m_publish_queue
  IN /\ \A i \in Sent : last < m_send_queue[i].value
     /\ \A i, j \in Sent : i < j => m_send_queue[i].value < m_send_queue[j].value
     /\ \A j \in Queued : last < m_publish_queue[j]
     /\ \A i \in Sent, j \in Queued : m_send_queue[i].value < m_publish_queue[j]
     /\ \A i, j \in Queued : i < j => m_publish_queue[i] < m_publish_queue[j]

(* The publish queue holds what the header documents of PublishQueueType:  *)
(* the newest messages for FIFO, the oldest but for the last one for LIFO. *)
QueueDiscipline ==
  ~restoring =>
    m_publish_queue =
      IF m_publish_queue_type = "DROP" THEN <<>>
      ELSE IF Len(accepted) =< m_publish_queue_size THEN accepted
      ELSE IF m_publish_queue_type = "FIFO"
        THEN SubSeq(accepted, Len(accepted) - m_publish_queue_size + 1, Len(accepted))
        ELSE SubSeq(accepted, 1, m_publish_queue_size - 1) \o <<Last(accepted)>>

(* The packets about topic t that the broker will receive *)
Requests(t) == {i \in DOMAIN m_send_queue : HasId(m_send_queue[i]) /\ m_send_queue[i].value = t}

(* The broker has topic t once it has received all of the send queue: the  *)
(* last of these packets decides.                                          *)
Granted(t) ==
  \/ t \in broker /\ Requests(t) = {}
  \/ \E i \in Requests(t) :
       m_send_queue[i].type = "SUBSCRIBE" /\ \A j \in Requests(t) : j =< i

(* Once restored, what the broker has for the session, with the packets    *)
(* that are still in the send queue applied, is what the client wants, for *)
(* every sequence of calls, lost connections and refused packets.          *)
SubscriptionSync ==
  link = "up" /\ ~restoring => \A t \in Topics : Granted(t) <=> t \in m_subscription_topics

(* No callback is kept for a topic that is not subscribed to any more.     *)
NoOrphanCallback == m_subscriptions \subseteq m_subscription_topics

(* The packets in the send queue have distinct ids, none of them zero,     *)
(* also when m_packet_id wraps around and when packets are refused.        *)
PacketIdsDistinct ==
  LET Requested == {i \in DOMAIN m_send_queue : HasId(m_send_queue[i])}
  IN /\ \A i \in Requested : m_send_queue[i].id # 0
     /\ \A i, j \in Requested : i # j => m_send_queue[i].id # m_send_queue[j].id

(* "If you unsubscribe from a topic you were not subscribed too, nothing   *)
(* happens": unsubscribe never looks a topic up that the tree has lost.    *)
UnsubscribeIsDefined == state # "UNDEFINED"

=============================================================================
