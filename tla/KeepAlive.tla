------------------------------- MODULE KeepAlive -------------------------------
(***************************************************************************)
(* The clock of an open connection: m_last_sent_packet and                 *)
(* m_last_received_packet, the PINGREQ that recv() sends when the client   *)
(* was silent for an interval, and the end of a connection on which        *)
(* nothing arrived for one and a half.                                     *)
(*                                                                         *)
(* A stored time is modelled by its age, so that time is not bounded.  The *)
(* delays of the two threads and of the broker are constants that a tick   *)
(* of the clock never exceeds; nothing is assumed of how they compare with *)
(* the interval, and a ::send() may block for several of them.             *)
(***************************************************************************)
EXTENDS Integers, Sequences

CONSTANTS
  Interval,         (* m_keep_alive_interval                                *)
  PollDelay,        (* bound: time between two iterations of recv()         *)
  WriteDelay,       (* bound: time a ::send() may block                     *)
  ReplyDelay,       (* bound: time until the answer to a packet is readable *)
  MaxPublishes      (* bound: PUBLISH packets in the send queue             *)

ASSUME KeepAliveAssumption ==
  /\ Interval \in Nat /\ MaxPublishes \in Nat
  /\ PollDelay \in Nat /\ WriteDelay \in Nat /\ ReplyDelay \in Nat

(* After this time without a packet the connection is dead. *)
Timeout == (Interval * 15) \div 10

(* The time that the time-out leaves the write thread to send a ping, when *)
(* recv() and the broker take as long as they may                          *)
Room == Timeout - Interval - 2 * PollDelay - ReplyDelay

VARIABLES
  link,      (* "down", "authenticating" or "up"                            *)
  sent,      (* age of m_last_sent_packet                                   *)
  received,  (* age of m_last_received_packet                               *)
  polled,    (* time since recv() looked                                    *)
  outbox,    (* m_send_queue                                                *)
  hand,      (* what the write thread is sending: NoPacket, a packet of     *)
             (* this connection, or one of a connection that ended          *)
  waiting,   (* how long it has had something to send on this connection    *)
             (* without having sent a packet                                *)
  heard,     (* time since the broker received a packet                     *)
  owed,      (* the broker has a CONNECT or PINGREQ to answer               *)
  answer,    (* for how long, but for the time that partial blocks it       *)
  readable,  (* a whole packet can be read                                  *)
  partial,   (* the beginning of a packet was sent, its rest is on the way  *)
  pinged,    (* time since a ping was queued, up to Interval + 1            *)
  other,     (* a packet without answer was sent since one was received     *)
  slow       (* since one was received, a packet came in parts or the write *)
             (* thread took longer than there is room for                   *)

brokerVars == <<heard, owed, answer, readable, partial>>
keepAliveVars ==
  <<link, sent, received, polled, outbox, hand, waiting, brokerVars, pinged, other, slow>>

NoPacket == "none"
OldPacket == "old"

KeepAliveInit ==
  /\ link = "down"
  /\ sent = 0 /\ received = 0 /\ polled = 0
  /\ outbox = <<>> /\ hand = NoPacket /\ waiting = 0 /\ pinged = 0
  /\ heard = 0 /\ owed = FALSE /\ answer = 0 /\ readable = FALSE /\ partial = FALSE
  /\ other = FALSE /\ slow = FALSE

-----------------------------------------------------------------------------
(* Nothing was sent on a connection, or it has ended. *)
NothingSent ==
  /\ polled' = 0 /\ waiting' = 0
  /\ heard' = 0 /\ owed' = FALSE /\ answer' = 0 /\ readable' = FALSE /\ partial' = FALSE
  /\ pinged' = Interval + 1 /\ other' = FALSE /\ slow' = (0 > Room)

OpenLink_KeepsTimes ==
  /\ link' = "authenticating"
  /\ outbox' = <<"CONNECT">>
  /\ NothingSent
  /\ UNCHANGED <<sent, received, hand>>

(* The end of connectToAny: both times are now, and CONNECT is queued.     *)
OpenLink ==
  /\ link' = "authenticating"
  /\ sent' = 0 /\ received' = 0
  /\ outbox' = <<"CONNECT">>
  /\ NothingSent
  /\ UNCHANGED hand

(* The connection ends: socketError closes it, and its send queue is       *)
(* cleared.  The times are left alone, and out of date before the next one *)
(* is there.                                                               *)
CloseLink ==
  /\ link' = "down"
  /\ sent' = Interval + 1 /\ received' = Timeout + 1
  /\ outbox' = <<>>
  /\ NothingSent

PingDue == sent > Interval
TimedOut_OfSending == sent > Timeout
TimedOut == received > Timeout

QueuePing == outbox' = <<"PINGREQ">> \o outbox /\ pinged' = 0

SendPing_KeepsTime ==
  IF PingDue THEN QueuePing /\ UNCHANGED sent ELSE UNCHANGED <<sent, outbox, pinged>>

SendPing_OnlyIfIdle ==
  IF PingDue /\ ~readable THEN sent' = 0 /\ QueuePing ELSE UNCHANGED <<sent, outbox, pinged>>

(* "Force updating the time, as it might be a while before the ping        *)
(* actually leaves the send queue."                                        *)
SendPing ==
  IF PingDue THEN sent' = 0 /\ QueuePing ELSE UNCHANGED <<sent, outbox, pinged>>

(* An iteration of recv(), when select() has returned.  The time-out is    *)
(* looked at before what has arrived; only the end of a packet counts as   *)
(* received, and the first one is the CONNACK.                             *)
Poll ==
  /\ link # "down"
  /\ ~TimedOut
  /\ SendPing
  /\ polled' = 0
  /\ readable' = FALSE
  /\ IF readable
       THEN /\ link' = "up" /\ received' = 0
            /\ other' = FALSE /\ slow' = (partial \/ waiting > Room)
       ELSE UNCHANGED <<link, received, other, slow>>
  /\ UNCHANGED <<hand, waiting, heard, owed, answer, partial>>

(* What is in the write thread's hand when the connection ends *)
StillInHand == hand' = IF hand = NoPacket THEN NoPacket ELSE OldPacket

(* ... or it is too long ago that something came, and recv() fails. *)
GiveUp ==
  /\ link # "down"
  /\ TimedOut
  /\ CloseLink /\ StillInHand

(* Client::publish *)
PublishPacket ==
  /\ link = "up"
  /\ Len(SelectSeq(outbox, LAMBDA p : p = "PUBLISH")) < MaxPublishes
  /\ outbox' = Append(outbox, "PUBLISH")
  /\ UNCHANGED <<link, sent, received, polled, hand, waiting, brokerVars, pinged, other, slow>>

-----------------------------------------------------------------------------
(* The write thread *)

(* It pops a packet, and the state is one to send it in.  Without a        *)
(* connection that can still be a packet of the last one.                  *)
TakePacket ==
  /\ hand = NoPacket
  /\ IF link = "down"
       THEN hand' = OldPacket /\ UNCHANGED outbox
       ELSE outbox # <<>> /\ hand' = Head(outbox) /\ outbox' = Tail(outbox)
  /\ UNCHANGED <<link, sent, received, polled, waiting, brokerVars, pinged, other, slow>>

(* ::send() has returned.  m_last_sent_packet is set for a packet of an    *)
(* old connection too, of which this broker knows nothing.                 *)
FinishPacket ==
  /\ hand # NoPacket
  /\ hand' = NoPacket
  /\ sent' = 0
  /\ IF hand = OldPacket
       THEN UNCHANGED <<waiting, heard, owed, answer, other>>
       ELSE /\ waiting' = 0 /\ heard' = 0
            /\ IF hand = "PUBLISH"
                 THEN other' = TRUE /\ UNCHANGED <<owed, answer>>
                 ELSE owed' = TRUE /\ answer' = (IF owed THEN answer ELSE 0) /\ UNCHANGED other
  /\ UNCHANGED <<link, received, polled, outbox, readable, partial, pinged, slow>>

(* ::send() has failed, and socketError() ends whatever connection there   *)
(* is by now.                                                              *)
SendFails ==
  /\ hand # NoPacket
  /\ hand' = NoPacket
  /\ IF link = "down"
       THEN UNCHANGED <<link, sent, received, polled, outbox, waiting, brokerVars, pinged, other, slow>>
       ELSE CloseLink

-----------------------------------------------------------------------------
(* The broker, which answers CONNECT and PINGREQ, and the network.         *)

Reply ==
  /\ owed /\ ~partial
  /\ owed' = FALSE /\ answer' = 0
  /\ readable' = TRUE
  /\ UNCHANGED <<link, sent, received, polled, outbox, hand, waiting, heard, partial, pinged,
                 other, slow>>

(* A packet for a subscription, as a whole or the beginning of it; what    *)
(* the broker sends next comes after the rest.                             *)
BrokerPublishes ==
  /\ link = "up" /\ ~partial
  /\ \/ readable' = TRUE /\ UNCHANGED <<partial, slow>>
     \/ partial' = TRUE /\ slow' = TRUE /\ UNCHANGED readable
  /\ UNCHANGED <<link, sent, received, polled, outbox, hand, waiting, heard, owed, answer, pinged,
                 other>>

RestArrives ==
  /\ partial
  /\ partial' = FALSE
  /\ readable' = TRUE
  /\ UNCHANGED <<link, sent, received, polled, outbox, hand, waiting, heard, owed, answer, pinged,
                 other, slow>>

BrokerCloses ==
  /\ link # "down"
  /\ CloseLink /\ StillInHand

(* The write thread has something to send. *)
ToSend == hand # NoPacket \/ outbox # <<>>

Tick ==
  /\ link # "down"
  /\ polled < PollDelay
  /\ ToSend => waiting < WriteDelay
  /\ owed /\ ~partial => answer < ReplyDelay
  /\ sent' = sent + 1 /\ received' = received + 1 /\ polled' = polled + 1 /\ heard' = heard + 1
  /\ waiting' = IF ToSend THEN waiting + 1 ELSE 0
  /\ answer' = IF owed /\ ~partial THEN answer + 1 ELSE answer
  /\ pinged' = IF pinged > Interval THEN pinged ELSE pinged + 1
  /\ slow' = (slow \/ waiting' > Room)
  /\ UNCHANGED <<link, outbox, hand, owed, readable, partial, other>>

KeepAliveStep == Poll \/ PublishPacket \/ Reply \/ BrokerPublishes \/ RestArrives \/ Tick

WriteStep == TakePacket \/ FinishPacket \/ SendFails

KeepAliveNext ==
  \/ link = "down" /\ OpenLink
  \/ GiveUp \/ BrokerCloses
  \/ KeepAliveStep \/ WriteStep

KeepAliveSpec == KeepAliveInit /\ [][KeepAliveNext]_keepAliveVars

-----------------------------------------------------------------------------
KeepAliveTypeOK ==
  /\ link \in {"down", "authenticating", "up"}
  /\ sent \in Nat /\ received \in Nat /\ polled \in 0 .. PollDelay
  /\ outbox \in Seq({"CONNECT", "PINGREQ", "PUBLISH"})
  /\ hand \in {"CONNECT", "PINGREQ", "PUBLISH", NoPacket, OldPacket}
  /\ waiting \in 0 .. WriteDelay /\ heard \in Nat /\ answer \in 0 .. ReplyDelay
  /\ owed \in BOOLEAN /\ readable \in BOOLEAN /\ partial \in BOOLEAN
  /\ pinged \in 0 .. Interval + 1 /\ other \in BOOLEAN /\ slow \in BOOLEAN

(* A connection on which nothing arrives is given up, one iteration of     *)
(* recv() after the time-out at the latest.                                *)
DeadIsDetected == link # "down" => received =< Timeout + PollDelay

(* The broker hears from the client one interval after the last time, one  *)
(* iteration of recv() later at most: also from a client that receives all *)
(* the time, and also after a packet of the last connection was sent late. *)
(* What the write thread needs to send something comes on top.             *)
HeardInTime == link # "down" => heard =< Interval + PollDelay + waiting

(* "we don't need to send more than one for the whole interval": between   *)
(* two pings that are queued an interval passes, however long the first    *)
(* one stays in the send queue.                                            *)
OnePing == [][outbox' = <<"PINGREQ">> \o outbox => pinged > Interval]_keepAliveVars

(* A client that sends nothing but pings never gives up a broker that      *)
(* answers them, unless a packet arrives in parts or the write thread      *)
(* blocks for longer than the time-out leaves room for.                    *)
QuietIsHealthy == link # "down" /\ TimedOut => other \/ slow

(* "If not, we assume the connection is dead": a broker that answers in    *)
(* time, with packets that arrive as a whole, is never given up by a       *)
(* client that can send.                                                   *)
HealthyIsKept == link # "down" /\ TimedOut => slow

=============================================================================
