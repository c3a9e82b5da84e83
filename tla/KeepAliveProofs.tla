---------------------------- MODULE KeepAliveProofs ----------------------------
(***************************************************************************)
(* Proofs about the clock of a connection, for every interval and every    *)
(* delay of the threads and of the broker: a dead connection is given up   *)
(* in time, the broker hears from the client as soon as the write thread   *)
(* can send, pings are an interval apart, and a client that only pings     *)
(* never gives up a broker that answers.                                   *)
(***************************************************************************)
EXTENDS KeepAlive, SequenceTheorems, WellFoundedInduction, TLAPS

Packets == {"CONNECT", "PINGREQ", "PUBLISH"}

(* recv() looks at the times in every iteration. *)
Polled ==
  link # "down" => received =< Timeout + polled /\ sent =< Interval + polled

(* The broker has heard what was sent last, unless the write thread has    *)
(* something to send; a packet of an old connection is not the only one.   *)
Heard ==
  link # "down" =>
    /\ heard =< Interval + PollDelay + waiting
    /\ ~ToSend => waiting = 0 /\ heard =< sent
    /\ hand = OldPacket => outbox # <<>>

(* Where the answer to the last ping, or the ping, is, and how long ago    *)
(* something was received by then, if a ping was the last thing sent, no   *)
(* packet comes in parts and the write thread is not too slow.             *)
Answered ==
  /\ partial => slow
  /\ link # "down" /\ ~slow => waiting =< Room
  /\ link # "down" /\ ~other /\ ~slow =>
       \/ received =< sent
       \/ ToSend /\ received =< Interval + PollDelay + waiting
       \/ owed /\ received =< Interval + PollDelay + Room + answer
       \/ readable /\ received =< Interval + PollDelay + Room + ReplyDelay + polled

(* m_last_sent_packet is not older than the last ping. *)
Spaced == link # "down" => sent =< pinged \/ pinged > Interval

ClockInv == KeepAliveTypeOK /\ Polled /\ Heard /\ Answered /\ Spaced

USE KeepAliveAssumption DEF KeepAliveAssumption

(* The times that are computed from the interval.                          *)
LEMMA Times ==
  /\ Timeout \in Nat /\ Room \in Int
  /\ Timeout = Interval + 2 * PollDelay + ReplyDelay + Room
<1>1. Timeout \in Nat
  BY DEF Timeout
<1> QED
  BY <1>1 DEF Room

(* A queue with another packet is not empty.                               *)
LEMMA Queued ==
  ASSUME NEW s \in Seq(Packets), NEW p \in Packets
  PROVE  /\ <<p>> \o s \in Seq(Packets) /\ <<p>> \o s # <<>>
         /\ Append(s, p) \in Seq(Packets) /\ Append(s, p) # <<>>
<1>1. <<p>> \o s \in Seq(Packets) /\ <<p>> \o s # <<>>
  OBVIOUS
<1>2. Append(s, p) \in Seq(Packets) /\ Append(s, p) # <<>>
  BY AppendProperties, Zenon
<1> QED
  BY <1>1, <1>2

(* A connection on which nothing was sent.                                 *)
LEMMA NothingSentTypes ==
  ASSUME ClockInv, NothingSent
  PROVE  /\ polled' \in 0 .. PollDelay /\ waiting' \in 0 .. WriteDelay /\ heard' \in Nat
         /\ answer' \in 0 .. ReplyDelay /\ pinged' \in 0 .. Interval + 1
         /\ owed' \in BOOLEAN /\ readable' \in BOOLEAN /\ partial' \in BOOLEAN
         /\ other' \in BOOLEAN /\ slow' \in BOOLEAN
<1>1. /\ owed' \in BOOLEAN /\ readable' \in BOOLEAN /\ partial' \in BOOLEAN
      /\ other' \in BOOLEAN /\ slow' \in BOOLEAN
  <2>1. (0 > Room) \in BOOLEAN
    BY Times
  <2> QED
    BY <2>1, Zenon DEF NothingSent
<1>2. 0 \in 0 .. PollDelay /\ 0 \in 0 .. WriteDelay /\ 0 \in 0 .. ReplyDelay /\ 0 \in Nat
      /\ Interval + 1 \in 0 .. Interval + 1
  OBVIOUS
<1>3. polled' = 0 /\ waiting' = 0 /\ heard' = 0 /\ answer' = 0 /\ pinged' = Interval + 1
  BY Zenon DEF NothingSent
<1> QED
  BY <1>1, <1>2, <1>3, Zenon

(* A new connection begins with both times set.                            *)
LEMMA OpenLinkInv == ClockInv /\ OpenLink => ClockInv'
<1> SUFFICES ASSUME ClockInv, OpenLink PROVE ClockInv'
  OBVIOUS
<1>1. KeepAliveTypeOK'
  BY NothingSentTypes DEF OpenLink, ClockInv, KeepAliveTypeOK
<1>2. Polled' /\ Heard' /\ Spaced'
  BY Times DEF OpenLink, NothingSent, Polled, Heard, Spaced, ToSend
<1>3. Answered'
  <2>1. ~slow' => ~(0 > Room)
    BY Zenon DEF OpenLink, NothingSent
  <2>2. ~(0 > Room) => 0 =< Room
    BY Times
  <2>3. partial' = FALSE /\ waiting' = 0 /\ received' = 0 /\ sent' = 0
    BY DEF OpenLink, NothingSent
  <2> QED
    BY <2>1, <2>2, <2>3 DEF Answered
<1> QED
  BY <1>1, <1>2, <1>3 DEF ClockInv

(* A connection that ended says nothing.                                   *)
LEMMA CloseLinkInv ==
  ClockInv /\ CloseLink /\ hand' \in {NoPacket, OldPacket} => ClockInv'
<1> SUFFICES ASSUME ClockInv, CloseLink, hand' \in {NoPacket, OldPacket} PROVE ClockInv'
  OBVIOUS
<1>1. NothingSent /\ link' = "down" /\ sent' = Interval + 1 /\ received' = Timeout + 1 /\ outbox' = <<>>
  BY DEF CloseLink
<1>2. KeepAliveTypeOK'
  BY <1>1, NothingSentTypes, Times DEF KeepAliveTypeOK
<1>3. partial' = FALSE
  BY <1>1 DEF NothingSent
<1> QED
  BY <1>1, <1>2, <1>3 DEF ClockInv, Polled, Heard, Answered, Spaced

(* An iteration of recv() that goes on: it pings in time, and what it      *)
(* receives starts the clock anew.                                         *)
LEMMA PollInv == ClockInv /\ Poll => ClockInv'
<1> SUFFICES ASSUME ClockInv, Poll PROVE ClockInv'
  OBVIOUS
<1> USE DEF ClockInv
<1>1. /\ outbox \in Seq(Packets) /\ "PINGREQ" \in Packets
      /\ <<"PINGREQ">> \o outbox \in Seq(Packets) /\ <<"PINGREQ">> \o outbox # <<>>
  BY Queued DEF KeepAliveTypeOK, Packets
<1>2. \/ PingDue /\ sent' = 0 /\ pinged' = 0 /\ outbox' \in Seq(Packets) /\ outbox' # <<>>
      \/ ~PingDue /\ UNCHANGED <<sent, outbox, pinged>>
  BY <1>1 DEF Poll, SendPing, QueuePing
<1>3. KeepAliveTypeOK'
  <2>1. owed' \in BOOLEAN /\ readable' \in BOOLEAN /\ partial' \in BOOLEAN /\ other' \in BOOLEAN
        /\ slow' \in BOOLEAN
    BY Zenon DEF Poll, KeepAliveTypeOK
  <2>2. sent' \in Nat /\ outbox' \in Seq(Packets) /\ pinged' \in 0 .. Interval + 1
    BY <1>2 DEF KeepAliveTypeOK, Packets
  <2>3. /\ link' \in {"down", "authenticating", "up"} /\ received' \in Nat
        /\ polled' \in 0 .. PollDelay /\ heard' \in Nat /\ answer' \in 0 .. ReplyDelay
        /\ waiting' \in 0 .. WriteDelay
        /\ hand' \in {"CONNECT", "PINGREQ", "PUBLISH", NoPacket, OldPacket}
    BY DEF Poll, KeepAliveTypeOK
  <2> QED
    BY <2>1, <2>2, <2>3 DEF KeepAliveTypeOK, Packets
<1>4. Polled'
  BY <1>2, Times DEF Poll, PingDue, TimedOut, KeepAliveTypeOK, Polled
<1>5. Heard' /\ Spaced'
  BY <1>2 DEF Poll, KeepAliveTypeOK, Heard, Spaced, ToSend
<1>6. Answered'
  <2>1. CASE readable
    BY <1>2, <2>1, Times DEF Poll, KeepAliveTypeOK, Answered
  <2>2. CASE ~readable
    <3>1. UNCHANGED <<link, received, other, slow, partial, hand, waiting, owed, answer>>
      BY <2>2 DEF Poll
    <3>2. link # "down" /\ sent =< Interval + PollDelay /\ received \in Nat /\ waiting \in Nat
      BY DEF Poll, Polled, KeepAliveTypeOK
    <3>3. ToSend => ToSend'
      BY <1>2, <3>1 DEF ToSend
    <3>4. PingDue => ToSend'
      BY <1>2 DEF ToSend
    <3>5. ~PingDue => sent' = sent
      BY <1>2
    <3>6. ASSUME ~other, ~slow
          PROVE  \/ received =< sent'
                 \/ ToSend' /\ received =< Interval + PollDelay + waiting
                 \/ owed /\ received =< Interval + PollDelay + Room + answer
      BY <2>2, <3>2, <3>3, <3>4, <3>5, <3>6 DEF Answered, KeepAliveTypeOK
    <3> QED
      BY <3>1, <3>6 DEF Answered
  <2> QED
    BY <2>1, <2>2
<1> QED
  BY <1>3, <1>4, <1>5, <1>6

(* The write thread has sent a packet.                                     *)
LEMMA FinishInv == ClockInv /\ FinishPacket => ClockInv'
<1> SUFFICES ASSUME ClockInv, FinishPacket PROVE ClockInv'
  OBVIOUS
<1> USE DEF ClockInv
<1>1. KeepAliveTypeOK'
  <2>1. owed' \in BOOLEAN /\ other' \in BOOLEAN
    BY Zenon DEF FinishPacket, KeepAliveTypeOK
  <2> QED
    BY <2>1 DEF FinishPacket, KeepAliveTypeOK
<1>2. Polled' /\ Spaced'
  BY DEF FinishPacket, KeepAliveTypeOK, Polled, Spaced
<1>3. Heard'
  BY DEF FinishPacket, KeepAliveTypeOK, Heard, ToSend, NoPacket, OldPacket
<1>4. Answered'
  <2>1. CASE hand = OldPacket
    <3>1. UNCHANGED <<link, received, other, slow, partial, outbox, waiting, owed, answer, readable, polled>>
      BY <2>1 DEF FinishPacket
    <3>2. link # "down" => outbox # <<>> /\ sent =< Interval + PollDelay /\ received \in Nat /\ waiting \in Nat
      BY <2>1 DEF Heard, Polled, KeepAliveTypeOK
    <3> QED
      BY <3>1, <3>2 DEF Answered, ToSend, KeepAliveTypeOK
  <2>2. CASE hand = "PUBLISH"
    <3>1. UNCHANGED <<link, slow, partial>> /\ other' = TRUE /\ waiting' = 0
      BY <2>2 DEF FinishPacket, OldPacket
    <3>2. link # "down" /\ ~slow => 0 =< Room
      BY Times DEF Answered, KeepAliveTypeOK
    <3> QED
      BY <3>1, <3>2 DEF Answered
  <2>3. CASE hand \notin {OldPacket, "PUBLISH"}
    <3>1. /\ UNCHANGED <<link, received, other, slow, partial, readable, polled>>
          /\ waiting' = 0 /\ owed' = TRUE /\ answer' = IF owed THEN answer ELSE 0
      BY <2>3 DEF FinishPacket
    <3>2. link # "down" /\ ~slow => 0 =< Room /\ waiting =< Room /\ sent =< Interval + PollDelay
      BY Times DEF Answered, Polled, KeepAliveTypeOK
    <3> QED
      BY <3>1, <3>2, Times DEF Answered, KeepAliveTypeOK
  <2> QED
    BY <2>1, <2>2, <2>3
<1> QED
  BY <1>1, <1>2, <1>3, <1>4

(* A tick of the clock.                                                    *)
LEMMA TickInv == ClockInv /\ Tick => ClockInv'
<1> SUFFICES ASSUME ClockInv, Tick PROVE ClockInv'
  OBVIOUS
<1> USE DEF ClockInv
<1>1. KeepAliveTypeOK'
  <2>1. owed' \in BOOLEAN /\ readable' \in BOOLEAN /\ partial' \in BOOLEAN /\ other' \in BOOLEAN
        /\ slow' \in BOOLEAN
    BY Zenon DEF Tick, KeepAliveTypeOK
  <2>2. waiting' \in 0 .. WriteDelay
    BY DEF Tick, KeepAliveTypeOK
  <2> QED
    BY <2>1, <2>2 DEF Tick, KeepAliveTypeOK
<1>2. Polled' /\ Heard' /\ Spaced'
  BY Times DEF Tick, KeepAliveTypeOK, Polled, Heard, Spaced, ToSend
<1>3. Answered'
  <2>1. ~slow' => waiting' =< Room /\ ~slow
    <3>1. ~slow' => ~(waiting' > Room) /\ ~slow
      BY Zenon DEF Tick
    <3>2. waiting' \in Nat
      BY <1>1 DEF KeepAliveTypeOK
    <3> QED
      BY <3>1, <3>2, Times
  <2>2. partial' => slow'
    BY DEF Tick, Answered
  <2>3. ASSUME link' # "down", ~other', ~slow'
        PROVE  \/ received' =< sent'
               \/ ToSend' /\ received' =< Interval + PollDelay + waiting'
               \/ owed' /\ received' =< Interval + PollDelay + Room + answer'
               \/ readable' /\ received' =< Interval + PollDelay + Room + ReplyDelay + polled'
    <3>1. link # "down" /\ ~other /\ ~slow /\ ~partial
      BY <2>1, <2>3 DEF Tick, Answered
    <3> QED
      BY <3>1, Times DEF Tick, KeepAliveTypeOK, Answered, ToSend
  <2> QED
    BY <1>1, <2>1, <2>2, <2>3 DEF Answered, KeepAliveTypeOK
<1> QED
  BY <1>1, <1>2, <1>3

(* Every step of a connection.                                             *)
LEMMA StepInv == ClockInv /\ (KeepAliveStep \/ WriteStep) => ClockInv'
<1> SUFFICES ASSUME ClockInv, KeepAliveStep \/ WriteStep PROVE ClockInv'
  OBVIOUS
<1> USE DEF ClockInv
<1>1. CASE PublishPacket
  <2>1. outbox' \in Seq(Packets) /\ outbox' # <<>>
    BY <1>1, Queued DEF PublishPacket, KeepAliveTypeOK, Packets
  <2> QED
    BY <1>1, <2>1
    DEF PublishPacket, brokerVars, KeepAliveTypeOK, Packets, Polled, Heard, Answered, Spaced, ToSend
<1>2. CASE TakePacket
  <2>1. \/ link = "down" /\ hand' = OldPacket /\ UNCHANGED outbox
        \/ link # "down" /\ hand' \in Packets /\ outbox' \in Seq(Packets)
    BY <1>2 DEF TakePacket, KeepAliveTypeOK, Packets
  <2>2. UNCHANGED <<link, sent, received, polled, waiting, heard, owed, answer, readable, partial, pinged,
                    other, slow>>
    BY <1>2 DEF TakePacket, brokerVars
  <2>3. link # "down" => ToSend
    BY <1>2 DEF TakePacket, ToSend
  <2> QED
    BY <2>1, <2>2, <2>3
    DEF KeepAliveTypeOK, Packets, Polled, Heard, Answered, Spaced, ToSend, NoPacket, OldPacket
<1>3. CASE SendFails
  <2>1. CASE link = "down"
    BY <1>3, <2>1 DEF SendFails, brokerVars, KeepAliveTypeOK, Polled, Heard, Answered, Spaced
  <2>2. CASE link # "down"
    BY <1>3, <2>2, CloseLinkInv DEF SendFails
  <2> QED
    BY <2>1, <2>2
<1>4. CASE Reply
  <2>1. owed' \in BOOLEAN /\ readable' \in BOOLEAN
    BY <1>4, Zenon DEF Reply
  <2>2. KeepAliveTypeOK' /\ Polled' /\ Heard' /\ Spaced'
    BY <1>4, <2>1 DEF Reply, KeepAliveTypeOK, Polled, Heard, Spaced, ToSend
  <2>3. Answered'
    BY <1>4, Times DEF Reply, KeepAliveTypeOK, Answered, ToSend
  <2> QED
    BY <2>2, <2>3
<1>5. CASE BrokerPublishes
  <2>1. readable' \in BOOLEAN /\ partial' \in BOOLEAN /\ slow' \in BOOLEAN
    BY <1>5, Zenon DEF BrokerPublishes, KeepAliveTypeOK
  <2> QED
    BY <1>5, <2>1 DEF BrokerPublishes, KeepAliveTypeOK, Polled, Heard, Answered, Spaced, ToSend
<1>6. CASE RestArrives
  <2>1. readable' \in BOOLEAN /\ partial' \in BOOLEAN
    BY <1>6, Zenon DEF RestArrives
  <2> QED
    BY <1>6, <2>1 DEF RestArrives, KeepAliveTypeOK, Polled, Heard, Answered, Spaced, ToSend
<1> QED
  BY <1>1, <1>2, <1>3, <1>4, <1>5, <1>6, PollInv, FinishInv, TickInv DEF KeepAliveStep, WriteStep

(* The invariant holds before the first connection.                        *)
LEMMA KeepAliveInitInv == KeepAliveInit => ClockInv
<1> SUFFICES ASSUME KeepAliveInit PROVE ClockInv
  OBVIOUS
<1>1. owed \in BOOLEAN /\ readable \in BOOLEAN /\ partial \in BOOLEAN /\ other \in BOOLEAN
      /\ slow \in BOOLEAN
  BY Zenon DEF KeepAliveInit
<1> QED
  BY <1>1 DEF KeepAliveInit, ClockInv, KeepAliveTypeOK, Polled, Heard, Answered, Spaced

(* Every step keeps it.                                                    *)
LEMMA KeepAliveNextInv == ClockInv /\ [KeepAliveNext]_keepAliveVars => ClockInv'
<1> SUFFICES ASSUME ClockInv, [KeepAliveNext]_keepAliveVars PROVE ClockInv'
  OBVIOUS
<1>1. CASE GiveUp \/ BrokerCloses
  <2>1. CloseLink /\ hand' \in {NoPacket, OldPacket}
    BY <1>1 DEF GiveUp, BrokerCloses, StillInHand
  <2> QED
    BY <2>1, CloseLinkInv
<1>2. CASE UNCHANGED keepAliveVars
  BY <1>2 DEF keepAliveVars, brokerVars, ClockInv, KeepAliveTypeOK, Polled, Heard, Answered, Spaced, ToSend
<1> QED
  BY <1>1, <1>2, OpenLinkInv, StepInv DEF KeepAliveNext

(* It says what is promised of the clock.                                  *)
LEMMA ClockImplies == ClockInv => DeadIsDetected /\ HeardInTime /\ QuietIsHealthy
<1> SUFFICES ASSUME ClockInv PROVE DeadIsDetected /\ HeardInTime /\ QuietIsHealthy
  OBVIOUS
<1> USE DEF ClockInv, KeepAliveTypeOK
<1>1. DeadIsDetected
  BY Times DEF Polled, DeadIsDetected
<1>2. HeardInTime
  BY DEF Heard, HeardInTime
<1>3. QuietIsHealthy
  <2> SUFFICES ASSUME link # "down", received > Timeout, ~other, ~slow PROVE FALSE
    BY DEF QuietIsHealthy, TimedOut
  <2>1. waiting =< Room /\ 0 =< Room
    BY Times DEF Answered
  <2> QED
    BY <2>1, Times DEF Polled, Answered
<1> QED
  BY <1>1, <1>2, <1>3

(* The invariant of the clock holds in every reachable state.              *)
THEOREM ClockInvariance == KeepAliveSpec => []ClockInv
<1> QED
  BY KeepAliveInitInv, KeepAliveNextInv, PTL DEF KeepAliveSpec

(* A dead connection is given up in time, the broker hears from the client *)
(* as soon as the write thread can send, and a client that only pings      *)
(* keeps a broker that answers: for all intervals and delays.              *)
THEOREM ClockIsRight == KeepAliveSpec => [](DeadIsDetected /\ HeardInTime /\ QuietIsHealthy)
<1> QED
  BY ClockInvariance, ClockImplies, PTL

-----------------------------------------------------------------------------
(* The pings *)

(* A packet in front of a queue does not make the same queue as another    *)
(* one at its end: the first place where that one is would not be the      *)
(* first.                                                                  *)
LEMMA FrontIsNotEnd ==
  ASSUME NEW s \in Seq(Packets), NEW p \in Packets, NEW q \in Packets, p # q
  PROVE  <<p>> \o s # Append(s, q)
<1> DEFINE n == Len(s)
           f == <<p>> \o s
           e == Append(s, q)
           T == {i \in 1 .. n + 1 : e[i] = q}
           Before == {x \in Nat \X Nat : x[1] < x[2]}
<1> SUFFICES ASSUME f = e PROVE FALSE
  OBVIOUS
<1>1. n \in Nat /\ e[n + 1] = q /\ \A i \in 1 .. n : e[i] = s[i]
  BY AppendProperties, LenProperties
<1>2. f[1] = p /\ \A i \in 1 .. n : f[i + 1] = s[i]
  OBVIOUS
<1> HIDE DEF n, f, e
<1>3. IsWellFoundedOn(Before, Nat)
  BY NatLessThanWellFounded, Zenon DEF OpToRel
<1>4. T \subseteq Nat /\ T # {}
  BY <1>1
<1>5. PICK i \in T : \A j \in T : ~(<<j, i>> \in Before)
  <2> HIDE DEF T, Before
  <2> QED
    BY <1>3, <1>4, WFMin, Zenon
<1>6. i \in 1 .. n + 1 /\ i # 1 /\ e[i] = q
  BY <1>1, <1>2, <1>5
<1>7. i - 1 \in 1 .. n /\ (i - 1) + 1 = i
  BY <1>1, <1>6
<1>8. e[i - 1] = q
  BY <1>1, <1>2, <1>6, <1>7
<1>9. i - 1 \in T /\ <<i - 1, i>> \in Before
  BY <1>1, <1>6, <1>7, <1>8
<1> QED
  BY <1>5, <1>9

(* Only recv() queues a ping, and only when the last one is an interval    *)
(* old.                                                                    *)
LEMMA PingIsDue ==
  ClockInv /\ [KeepAliveNext]_keepAliveVars =>
    [outbox' = <<"PINGREQ">> \o outbox => pinged > Interval]_keepAliveVars
<1> SUFFICES ASSUME ClockInv, KeepAliveNext, outbox' = <<"PINGREQ">> \o outbox PROVE pinged > Interval
  OBVIOUS
<1>1. outbox \in Seq(Packets) /\ sent \in Nat /\ pinged \in Nat
  BY DEF ClockInv, KeepAliveTypeOK, Packets
<1>2. Len(outbox') = Len(outbox) + 1 /\ Head(outbox') = "PINGREQ" /\ outbox' # outbox /\ outbox' # <<>>
  BY <1>1 DEF Packets
<1>3. CASE Poll
  BY <1>1, <1>2, <1>3 DEF Poll, SendPing, PingDue, ClockInv, Spaced
<1>4. CASE PublishPacket
  <2>1. outbox' # Append(outbox, "PUBLISH")
    BY <1>1, FrontIsNotEnd DEF Packets
  <2> QED
    BY <1>4, <2>1 DEF PublishPacket
<1>5. CASE TakePacket
  <2>1. outbox # <<>> /\ outbox' = Tail(outbox)
    BY <1>2, <1>5 DEF TakePacket
  <2>2. Len(Tail(outbox)) = Len(outbox) - 1 /\ Len(outbox) \in Nat
    BY <1>1, <2>1, HeadTailProperties, LenProperties
  <2>3. Len(outbox) + 1 = Len(outbox) - 1
    BY <1>2, <2>1, <2>2, Zenon
  <2> QED
    BY <2>2, <2>3
<1>6. CASE OpenLink
  BY <1>2, <1>6 DEF OpenLink
<1>7. ~CloseLink /\ outbox' # outbox
  BY <1>2 DEF CloseLink
<1> QED
  BY <1>3, <1>4, <1>5, <1>6, <1>7
  DEF KeepAliveNext, GiveUp, BrokerCloses, KeepAliveStep, WriteStep, FinishPacket, SendFails, Reply,
      BrokerPublishes, RestArrives, Tick

(* Between two pings that are queued an interval passes, for all intervals *)
(* and however long the write thread takes.                                *)
THEOREM PingsAreSpaced == KeepAliveSpec => OnePing
<1> QED
  BY ClockInvariance, PingIsDue, PTL DEF KeepAliveSpec, OnePing

=============================================================================
