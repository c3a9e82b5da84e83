------------------------------ MODULE PacketCodec ------------------------------
(***************************************************************************)
(* Packets as bytes: the fields that class Packet writes and reads, the    *)
(* header that Connection::send puts in front of them, and the packets     *)
(* that the client sends.                                                  *)
(*                                                                         *)
(* A number of several bytes has ByteRange values per byte, 256 in the     *)
(* code; with a small one every size of a header occurs in short packets.  *)
(* A character, and a byte that is no digit of a number, is itself.  The   *)
(* characters of a topic are its levels.                                   *)
(***************************************************************************)
EXTENDS Integers, Sequences

CONSTANTS
  ByteRange,           (* values of a byte                                  *)
  AnnouncedKeepAlive,  (* the keep-alive in CONNECT: 30 in the code         *)
  ProtocolName         (* "MQTT"                                            *)

ASSUME CodecAssumption ==
  /\ ByteRange \in {2 * n : n \in 2 .. 128}
  /\ AnnouncedKeepAlive \in 0 .. ByteRange * ByteRange - 1

(* The values of all but the highest bit, which is set if a byte follows *)
Digit == ByteRange \div 2

(* What a digit counts that is above k others: Digit^k *)
Weight(k) ==
  <<1, Digit, Digit * Digit, Digit * Digit * Digit, Digit * Digit * Digit * Digit>>[k + 1]

PacketType ==
  [CONNECT |-> 1, CONNACK |-> 2, PUBLISH |-> 3, PUBACK |-> 4, PUBREC |-> 5, PUBREL |-> 6,
   PUBCOMP |-> 7, SUBSCRIBE |-> 8, SUBACK |-> 9, UNSUBSCRIBE |-> 10, UNSUBACK |-> 11,
   PINGREQ |-> 12, PINGRESP |-> 13, DISCONNECT |-> 14]

HeaderByte(type, flags) == type * 16 + flags

-----------------------------------------------------------------------------
(* The fields.  A read_ function fails unless the field is Readable.       *)

WriteUint16(value) == <<(value \div ByteRange) % ByteRange, value % ByteRange>>
WriteString(str)   == WriteUint16(Len(str)) \o str

Uint16(buffer)           == buffer[1] * ByteRange + buffer[2]
StringReadable_Strict(buffer) == Len(buffer) >= 2 /\ Len(buffer) > 2 + Uint16(buffer)
StringReadable(buffer)   == Len(buffer) >= 2 /\ Len(buffer) >= 2 + Uint16(buffer)
ReadString(buffer)       == SubSeq(buffer, 3, 2 + Uint16(buffer))
ReadRemaining(buffer)    == SubSeq(buffer, 3 + Uint16(buffer), Len(buffer))

(* recvLoop() cannot read the fields of a packet. *)
Malformed(type, buffer) ==
  \/ type = PacketType.CONNACK  /\ Len(buffer) < 2
  \/ type = PacketType.PUBLISH  /\ ~StringReadable(buffer)
  \/ type = PacketType.SUBACK   /\ Len(buffer) < 3
  \/ type = PacketType.UNSUBACK /\ Len(buffer) < 2

-----------------------------------------------------------------------------
(* Connection::send *)

HeaderOffset_OffByOne(length) ==
  IF length < Digit - 1 THEN 3
  ELSE IF length < Digit * Digit - 1 THEN 2
  ELSE IF length < Digit * Digit * Digit - 1 THEN 1
  ELSE 0

(* Where the header begins in the five bytes that are reserved for it *)
HeaderOffset(length) ==
  IF length =< Digit - 1 THEN 3
  ELSE IF length =< Digit * Digit - 1 THEN 2
  ELSE IF length =< Digit * Digit * Digit - 1 THEN 1
  ELSE 0

(* The do loop: the digits of the remaining length, the lowest one first *)
LengthBytes(length) ==
  LET Loop[n \in 0 .. length] ==
        IF n < Digit THEN <<n>> ELSE <<(n % Digit) + Digit>> \o Loop[n \div Digit]
  IN Loop[length]

(* What sendPacket() sends of the buffer: all from m_write_offset on *)
Bytes(type, flags, data) ==
  LET buffer == <<0, 0, 0, 0, 0>> \o data
      offset == HeaderOffset(Len(data))
      header == <<HeaderByte(type, flags)>> \o LengthBytes(Len(data))
      filled == [i \in DOMAIN buffer |->
                   IF i - offset \in DOMAIN header THEN header[i - offset] ELSE buffer[i]]
  IN SubSeq(filled, offset + 1, Len(filled))

-----------------------------------------------------------------------------
(* The packets of the client: [type, flags, data]                          *)

Fields(type, flags, data) == [type |-> type, flags |-> flags, data |-> data]

(* sendConnect(): the flags are clean session, and for a last will that    *)
(* has a topic last will and last will retain.                             *)
ConnectPacket(clientId, will) ==
  LET hasWill == will.topic # <<>>
      flags   == 2 + (IF hasWill THEN 4 ELSE 0) + (IF hasWill /\ will.retain THEN 32 ELSE 0)
  IN Fields(PacketType.CONNECT, 0,
            WriteString(<<ProtocolName>>) \o <<4, flags>> \o WriteUint16(AnnouncedKeepAlive)
            \o WriteString(clientId)
            \o (IF hasWill THEN WriteString(will.topic) \o WriteString(will.message) ELSE <<>>))

PingPacket == Fields(PacketType.PINGREQ, 0, <<>>)

PublishPacket(topic, message, retain) ==
  Fields(PacketType.PUBLISH, IF retain THEN 1 ELSE 0, WriteString(topic) \o message)

SubscribePacket(id, topic) ==
  Fields(PacketType.SUBSCRIBE, 2, WriteUint16(id) \o WriteString(topic) \o <<0>>)

UnsubscribePacket(id, topic) ==
  Fields(PacketType.UNSUBSCRIBE, 2, WriteUint16(id) \o WriteString(topic))

-----------------------------------------------------------------------------
(* The form of a packet in the standard, as the broker sends and expects   *)
(* it: the remaining length as the shortest number of digits.              *)
StandardBytes(type, flags, data) ==
  LET digits == CHOOSE k \in 1 .. 4 :
                  Len(data) < Weight(k) /\ \A j \in 1 .. k - 1 : Len(data) >= Weight(j)
  IN <<HeaderByte(type, flags)>>
     \o [i \in 1 .. digits |->
           ((Len(data) \div Weight(i - 1)) % Digit) + (IF i < digits THEN Digit ELSE 0)]
     \o data

=============================================================================
