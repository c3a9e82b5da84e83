------------------------------- MODULE Delivery -------------------------------
(***************************************************************************)
(* From the bytes of the broker to the callbacks of the application:       *)
(* recvLoop() takes packets out of the stream, and a PUBLISH calls what    *)
(* the tree of subscriptions has for its topic.  Meanwhile the application *)
(* changes the tree, and the connection is lost and opened again.          *)
(*                                                                         *)
(* The packets the client sends are taken from PacketCodec as values; the  *)
(* send queue is in module Client, the threads are in module Connection,   *)
(* and the times in module KeepAlive.                                      *)
(***************************************************************************)
EXTENDS PacketCodec, SubscriptionTree

CONSTANTS
  Messages,    (* [topic, message, retain] that are published               *)
  Wills,       (* last wills, likewise; without one the topic is <<>>       *)
  ClientId,    (* m_client_id                                               *)
  Characters,  (* that these strings consist of                             *)
  MaxPending   (* bound: packets that the broker has sent ahead             *)

Fits(packet) == Len(packet.data) < Weight(4)

(* Topics of messages have no wildcards, and no string or packet is larger *)
(* than the standard allows, which the code does not check.                *)
ASSUME DeliveryAssumption ==
  /\ Messages \cup Wills \subseteq
       [topic : Seq(Characters), message : Seq(Characters), retain : BOOLEAN]
  /\ ClientId \in Seq(Characters)
  /\ \A m \in Messages :
       /\ Len(m.topic) \in 1 .. ByteRange * ByteRange - 1
       /\ \A j \in DOMAIN m.topic : m.topic[j] \notin {Plus, Hash}
  /\ \A m \in Messages : Fits(PublishPacket(m.topic, m.message, m.retain))
  /\ \A f \in Filters : Fits(SubscribePacket(1, f))
  /\ \A w \in Wills : Fits(ConnectPacket(ClientId, w))
  /\ MaxPending \in Nat

VARIABLES
  state,             (* m_state of the client                               *)
  link,              (* "down", "open", or "failed" when recvLoop() was false *)
  wire,              (* bytes that have arrived or are on the way           *)
  pending,           (* the packets they belong to, as the broker sent them *)
  phase,             (* what recvLoop() reads next                          *)
  header,            (* packet_type and flags                               *)
  remaining_length,
  i,                 (* bytes of the length that were read                  *)
  data,
  calls              (* what the last packet called: [callback, message]    *)

loopVars == <<phase, header, remaining_length, i, data>>
vars == <<state, m_subscriptions, link, wire, pending, loopVars, calls>>

NoHeader == [type |-> 0, flags |-> 0]

(* recvLoop() begins. *)
ResetLoop ==
  /\ phase' = "header" /\ header' = NoHeader
  /\ remaining_length' = 0 /\ i' = 0 /\ data' = <<>>

Init ==
  /\ state = "DISCONNECTED"
  /\ TreeInit
  /\ link = "down" /\ wire = <<>> /\ pending = <<>>
  /\ phase = "header" /\ header = NoHeader
  /\ remaining_length = 0 /\ i = 0 /\ data = <<>>
  /\ calls = <<>>

-----------------------------------------------------------------------------
(* The application                                                         *)

Connect ==
  /\ state = "DISCONNECTED"
  /\ state' = "CONNECTING"
  /\ UNCHANGED <<m_subscriptions, link, wire, pending, loopVars, calls>>

(* The connection is closed, and what was read of a packet is lost. *)
CloseLink ==
  /\ link' = "down" /\ wire' = <<>> /\ pending' = <<>> /\ calls' = <<>>
  /\ ResetLoop

Disconnect ==
  /\ state # "DISCONNECTED"
  /\ state' = "DISCONNECTED"
  /\ ClearTree
  /\ CloseLink

Subscribe(f) ==
  /\ state # "DISCONNECTED"
  /\ AddCallback(f)
  /\ UNCHANGED <<state, link, wire, pending, loopVars, calls>>

Unsubscribe(f) ==
  /\ state # "DISCONNECTED"
  /\ RemoveCallbacks(f)
  /\ UNCHANGED <<state, link, wire, pending, loopVars, calls>>

(* subscribe() or unsubscribe() of a connected client, if the send queue   *)
(* has no place for its packet: a new Connection, and an empty tree.       *)
SendRefused ==
  /\ state = "CONNECTED"
  /\ ClearTree
  /\ CloseLink
  /\ UNCHANGED state

-----------------------------------------------------------------------------
(* The connection                                                          *)

Open ==
  /\ state # "DISCONNECTED" /\ link = "down"
  /\ link' = "open"
  /\ UNCHANGED <<state, m_subscriptions, wire, pending, loopVars, calls>>

(* socketError() and connectionStateChange(false): the connection broke,   *)
(* or recvLoop() was false.                                                *)
LinkLost ==
  /\ link \in {"open", "failed"}
  /\ state' = "CONNECTING"
  /\ CloseLink
  /\ UNCHANGED m_subscriptions

(* A packet, its bytes, and whether a client of this library has to accept it *)
Sent(type, flags, content, good) ==
  [type |-> type, flags |-> flags, data |-> content, good |-> good,
   bytes |-> StandardBytes(type, flags, content)]

(* What a broker sends: answers, messages and refusals; and what it should *)
(* not send, or not to this client.                                        *)
BrokerPackets ==
  {Sent(PacketType.CONNACK, 0, <<0, 0>>, TRUE), Sent(PacketType.CONNACK, 0, <<0, 1>>, FALSE),
   Sent(PacketType.SUBACK, 0, WriteUint16(1) \o <<0>>, TRUE),
   Sent(PacketType.SUBACK, 0, WriteUint16(1) \o <<128>>, TRUE),
   Sent(PacketType.UNSUBACK, 0, WriteUint16(1), TRUE),
   Sent(PacketType.PINGRESP, 0, <<>>, TRUE)}
  \cup {Sent(PacketType.PUBLISH, IF m.retain THEN 1 ELSE 0,
             WriteString(m.topic) \o m.message, TRUE) : m \in Messages}
  \cup {Sent(type, 0, <<0>>, FALSE) :
          type \in {0, PacketType.PUBACK, PacketType.CONNACK, PacketType.PUBLISH, PacketType.SUBACK,
                    PacketType.UNSUBACK, 15}}
  \cup {Sent(PacketType.PUBLISH, 0, WriteUint16(1), FALSE)}
  \cup {[type |-> PacketType.PINGRESP, flags |-> 0, data |-> <<>>, good |-> FALSE,
         bytes |-> <<HeaderByte(PacketType.PINGRESP, 0)>> \o [j \in 1 .. 4 |-> Digit]]}

(* Nothing follows a packet that ends the connection. *)
BrokerSends(packet) ==
  /\ link = "open"
  /\ \A p \in ToSet(pending) : p.good
  /\ Len(pending) < MaxPending
  /\ wire' = wire \o packet.bytes
  /\ pending' = Append(pending, packet)
  /\ UNCHANGED <<state, m_subscriptions, link, loopVars, calls>>

-----------------------------------------------------------------------------
(* recvLoop()                                                              *)

Receiving(what) == link = "open" /\ phase = what

(* A recv() of one byte *)
ReadByte == wire # <<>> /\ wire' = Tail(wire)

ReturnFalse == link' = "failed" /\ UNCHANGED <<loopVars, calls>>

ReadHeader ==
  /\ Receiving("header")
  /\ ReadByte
  /\ LET packet_type_raw == Head(wire) \div 16
     IN IF packet_type_raw \in 1 .. 14
          THEN /\ header' = [type |-> packet_type_raw, flags |-> Head(wire) % 16]
               /\ phase' = "length"
               /\ calls' = <<>>
               /\ UNCHANGED <<link, remaining_length, i, data>>
          ELSE ReturnFalse
  /\ UNCHANGED <<state, m_subscriptions, pending>>

(* What a byte of the length adds to it *)
LengthPart_SameWeight(byte) == byte % Digit
LengthPart(byte) == (byte % Digit) * Weight(i)

(* "If the high-bit is set, it means there is another byte. Up to 4 bytes" *)
ReadLength ==
  /\ Receiving("length")
  /\ ReadByte
  /\ IF Head(wire) >= Digit /\ i = 3
       THEN ReturnFalse
       ELSE /\ remaining_length' = remaining_length + LengthPart(Head(wire))
            /\ i' = i + 1
            /\ phase' = IF Head(wire) >= Digit THEN "length"
                        ELSE IF remaining_length' = 0 THEN "dispatch" ELSE "data"
            /\ UNCHANGED <<link, header, data, calls>>
  /\ UNCHANGED <<state, m_subscriptions, pending>>

Room_WholeLength == remaining_length
(* The length that recv() is called with *)
Room == remaining_length - Len(data)

(* recv() returns some of the bytes that are there. *)
ReadData ==
  /\ Receiving("data")
  /\ \E n \in 1 .. Min({Room, Len(wire)}) :
       /\ data' = data \o SubSeq(wire, 1, n)
       /\ wire' = SubSeq(wire, n + 1, Len(wire))
  /\ phase' = IF Len(data') = remaining_length THEN "dispatch" ELSE "data"
  /\ UNCHANGED <<state, m_subscriptions, link, pending, header, remaining_length, i,
                 calls>>

(* The switch over a packet that is complete *)
Dispatch(type) ==
  /\ Receiving("dispatch")
  /\ header.type = type
  /\ UNCHANGED <<m_subscriptions, wire>>

(* ... which was handled. *)
ReturnTrue ==
  /\ pending' = Tail(pending)
  /\ ResetLoop
  /\ UNCHANGED link

(* connectionStateChange(true) *)
Accepted ==
  /\ Dispatch(PacketType.CONNACK)
  /\ ~Malformed(header.type, data) /\ data[2] = 0
  /\ state' = "CONNECTED"
  /\ ReturnTrue
  /\ UNCHANGED calls

(* messageReceived() *)
MessageReceived ==
  /\ Dispatch(PacketType.PUBLISH)
  /\ ~Malformed(header.type, data)
  /\ calls' = IF state # "CONNECTED" THEN <<>>
              ELSE LET called == FindSubscriptionMatch(ReadString(data))
                   IN [n \in DOMAIN called |-> [callback |-> called[n], message |-> ReadRemaining(data)]]
  /\ ReturnTrue
  /\ UNCHANGED state

(* A SUBACK, also one that refuses, which is for the error callback; an    *)
(* UNSUBACK or a PINGRESP.                                                 *)
Acknowledged ==
  /\ \/ Dispatch(PacketType.SUBACK) \/ Dispatch(PacketType.UNSUBACK)
     \/ Dispatch(PacketType.PINGRESP)
  /\ ~Malformed(header.type, data)
  /\ ReturnTrue
  /\ UNCHANGED <<state, calls>>

Expected == {PacketType.CONNACK, PacketType.PUBLISH, PacketType.SUBACK, PacketType.UNSUBACK,
             PacketType.PINGRESP}

(* A malformed packet, one that was not expected, or a refusal *)
Rejected ==
  /\ Dispatch(header.type)
  /\ \/ header.type \notin Expected
     \/ Malformed(header.type, data)
     \/ header.type = PacketType.CONNACK /\ ~Malformed(header.type, data) /\ data[2] # 0
  /\ ReturnFalse
  /\ UNCHANGED <<state, pending>>

Next ==
  \/ Connect \/ Disconnect \/ SendRefused
  \/ \E f \in Filters : Subscribe(f) \/ Unsubscribe(f)
  \/ Open \/ LinkLost
  \/ \E packet \in BrokerPackets : BrokerSends(packet)
  \/ ReadHeader \/ ReadLength \/ ReadData
  \/ Accepted \/ MessageReceived \/ Acknowledged \/ Rejected

Spec == Init /\ [][Next]_vars

-----------------------------------------------------------------------------
TypeOK ==
  /\ state \in {"DISCONNECTED", "CONNECTING", "CONNECTED"}
  /\ TreeTypeOK
  /\ link \in {"down", "open", "failed"}
  /\ phase \in {"header", "length", "data", "dispatch"}
  /\ header \in [type : 0 .. 14, flags : 0 .. 15]
  /\ i \in 0 .. 4 /\ remaining_length \in 0 .. Weight(4) - 1
  /\ Len(data) =< remaining_length
  /\ ToSet(pending) \subseteq BrokerPackets
  /\ ToSet(calls) \subseteq [callback : Filters, message : {m.message : m \in Messages}]

(* The bytes of packets that follow each other *)
BytesOf(packets) ==
  LET First[n \in 0 .. Len(packets)] ==
        IF n = 0 THEN <<>> ELSE First[n - 1] \o packets[n].bytes
  IN First[Len(packets)]

(* recvLoop() begins at the first byte of a packet, and has exactly the    *)
(* bytes of that packet when it looks at them, however recv() cuts the     *)
(* stream and whatever was broken off before.                              *)
FramesKept ==
  link = "open" =>
    /\ phase = "header" => wire = BytesOf(pending)
    /\ phase = "dispatch" =>
         /\ wire = BytesOf(Tail(pending))
         /\ header = [type |-> Head(pending).type, flags |-> Head(pending).flags]
         /\ data = Head(pending).data

(* recvLoop() gives a connection up only for a packet that it should not   *)
(* get.                                                                    *)
GoodPacketsAreRead == link = "failed" => ~Head(pending).good

(* What the client sends has the form of the standard, at all sizes of the *)
(* header, CONNECT with and without a will too.                            *)
EncodingIsStandard ==
  LET packets == {PingPacket} \cup {ConnectPacket(ClientId, w) : w \in Wills}
                 \cup {SubscribePacket(1, f) : f \in Filters}
                 \cup {UnsubscribePacket(1, f) : f \in Filters}
                 \cup {PublishPacket(m.topic, m.message, m.retain) : m \in Messages}
  IN \A p \in packets : Bytes(p.type, p.flags, p.data) = StandardBytes(p.type, p.flags, p.data)

(* Levels match one by one; "#" stands for one or more of them. *)
MatchesBelow(filter, topic) ==
  /\ Len(filter) = Len(topic) \/ (Last(filter) = Hash /\ Len(filter) =< Len(topic))
  /\ \A n \in DOMAIN filter : filter[n] \in {topic[n], Plus, Hash}

(* In the standard "#" includes the level above it. *)
Matches(filter, topic) ==
  \/ MatchesBelow(filter, topic)
  \/ Last(filter) = Hash /\ MatchesBelow(filter, Append(topic, Empty))

TimesCalled(filter, message) ==
  Cardinality({n \in DOMAIN calls : calls[n] = [callback |-> filter, message |-> message]})

(* The step that handles the packet of message m for a connected client *)
HandlesMessage(m) ==
  /\ pending # <<>> /\ Head(pending).type = PacketType.PUBLISH
  /\ Head(pending).data = WriteString(m.topic) \o m.message
  /\ pending' = Tail(pending)
  /\ state = "CONNECTED" /\ link' = "open"

(* From the bytes to the callbacks: a message that the broker sent, as it  *)
(* was sent, is what the callbacks of every topic that matches level by    *)
(* level are called with, exactly as often as they were subscribed.        *)
MatchingAreCalled ==
  [][\A m \in Messages, f \in Filters :
       HandlesMessage(m) /\ MatchesBelow(f, m.topic) =>
         TimesCalled(f, m.message)' = Len(CallbacksAt(f))]_vars

(* A call about one topic takes no callback away from another one, although *)
(* it goes through nodes that both have, and unsubscribe() removes some.   *)
OthersStay ==
  [][\A f \in Filters :
       Subscribe(f) \/ Unsubscribe(f) =>
         \A g \in Filters \ {f} : CallbacksAt(g)' = CallbacksAt(g)]_vars

(* "The callback to call when a message arrives on this topic": a message  *)
(* calls no callback of a topic that does not match.                       *)
OnlyMatchingAreCalled ==
  [][\A m \in Messages :
       HandlesMessage(m) => \A c \in ToSet(calls') : Matches(c.callback, m.topic)]_vars

=============================================================================
