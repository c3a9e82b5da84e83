----------------------------- MODULE SessionProofs -----------------------------
(***************************************************************************)
(* A session implements both of its parts: every connection of the two     *)
(* threads is one that KeepAlive describes, and what they do to get one    *)
(* and to end it is what Connector describes.  So what is proved of the    *)
(* two holds of it.                                                        *)
(***************************************************************************)
EXTENDS Session, KeepAliveProofs, ConnectorProofs

(* The read thread is in recvLoop() while there is a connection: a round   *)
(* of attempts only begins when the connection of the last one has ended.  *)
OneAtATime == link # "down" => pc \in {"loop", "recv"} /\ cstate \in {"AUTHENTICATING", "STOP"}

(* What the threads do without the clock leaves the connection to recv().  *)
LEMMA QuietOneAtATime ==
  ASSUME OneAtATime, Stop \/ RoundStep \/ WakeUp \/ NetworkStep \/ Recv \/ RecvDone \/ EndStep,
         UNCHANGED keepAliveVars
  PROVE  OneAtATime'
<1> SUFFICES ASSUME link # "down"
             PROVE  pc' \in {"loop", "recv"} /\ cstate' \in {"AUTHENTICATING", "STOP"}
  BY DEF OneAtATime, keepAliveVars
<1>1. pc \in {"loop", "recv"} /\ cstate \in {"AUTHENTICATING", "STOP"}
  BY DEF OneAtATime
<1> USE <1>1 DEF In
<1>2. CASE Stop \/ NetworkStep \/ WakeUp
  BY <1>2 DEF Stop, NetworkStep, Network, WakeUp
<1>3. CASE Resolve \/ Lookup \/ SetBackoff \/ Sleep
  BY <1>3 DEF Resolve, Lookup, SetBackoff, Sleep
<1>4. CASE FirstAttempt \/ NoAddressLeft \/ Select \/ SelectAborted
  BY <1>4 DEF FirstAttempt, NoAddressLeft, Select, SelectAborted
<1>5. CASE SelectStep
  BY <1>5 DEF SelectStep, StillWaiting, NextAttempt, AttemptsTimeOut, SelectReturns, SelectTimesOut, Selectable
<1>6. CASE Examine
  BY <1>6 DEF Examine, RemoveFailed, Adopt
<1>7. CASE LostReported \/ Recv \/ RecvDone \/ ReadSkips \/ ReadCloses \/ ReadClears \/ StopClears \/ Destroyed
  BY <1>7 DEF LostReported, Recv, RecvDone, ReadSkips, ReadCloses, ReadClears, StopClears, Destroyed, ReadMoves
<1>8. CASE WriteSkips \/ WriteTakes \/ WriteCloses \/ WriteClears \/ WriteEnds
  BY <1>8 DEF WriteSkips, WriteTakes, WriteCloses, WriteClears, WriteEnds, WriteMoves
<1> QED
  BY <1>2, <1>3, <1>4, <1>5, <1>6, <1>7, <1>8 DEF RoundStep, EndStep

(* Every step of a session.                                                *)
LEMMA NextOneAtATime == OneAtATime /\ [Next]_vars => OneAtATime'
<1> SUFFICES ASSUME OneAtATime, [Next]_vars PROVE OneAtATime'
  OBVIOUS
<1>1. CASE (Stop \/ RoundStep \/ WakeUp \/ NetworkStep \/ Recv \/ RecvDone \/ EndStep) /\ UNCHANGED keepAliveVars
  BY <1>1, QuietOneAtATime
<1>2. CASE Connected
  BY <1>2 DEF OneAtATime, Connected, Authenticate, OpenLink, keepAliveVars
<1>3. CASE Serve
  BY <1>3 DEF OneAtATime, Serve, connectorVars
<1>4. CASE Accepted
  BY <1>4 DEF OneAtATime, Accepted, SetConnected, ReadMoves
<1>5. CASE Lost
  BY <1>5 DEF OneAtATime, Lost, GiveUp, BrokerCloses, CloseLink, keepAliveVars
<1>6. CASE Writes
  BY <1>6 DEF OneAtATime, Writes, WriteBegins, WriteDone, WriteFails, WriteMoves, TakePacket, FinishPacket,
              SendFails, CloseLink
<1>7. CASE Stopped
  BY <1>7 DEF OneAtATime, Stopped, BrokerCloses, CloseLink, keepAliveVars
<1>8. CASE UNCHANGED vars
  BY <1>8 DEF OneAtATime, vars, keepAliveVars, connectorVars
<1> QED
  BY <1>1, <1>2, <1>3, <1>4, <1>5, <1>6, <1>7, <1>8 DEF Next

(* Every step of a session is one of KeepAlive, or none that it sees.      *)
LEMMA StepRefines == OneAtATime /\ [Next]_vars => [KeepAliveNext]_keepAliveVars
<1> SUFFICES ASSUME OneAtATime, [Next]_vars PROVE [KeepAliveNext]_keepAliveVars
  OBVIOUS
<1>1. CASE UNCHANGED keepAliveVars
  BY <1>1
<1>2. CASE Connected
  <2>1. link = "down"
    BY <1>2 DEF Connected, Authenticate, OneAtATime
  <2> QED
    BY <1>2, <2>1 DEF Connected, KeepAliveNext
<1>3. CASE Serve \/ Accepted \/ Lost
  BY <1>3 DEF Serve, Accepted, Lost, KeepAliveNext, KeepAliveStep
<1>4. CASE Writes \/ Stopped
  BY <1>4 DEF Writes, Stopped, KeepAliveNext, WriteStep
<1> QED
  BY <1>1, <1>2, <1>3, <1>4 DEF Next, vars

(* A session implements the specification of the clock.                    *)
THEOREM SessionImplementsKeepAlive == Spec => KeepAliveSpec
<1>1. Init => KeepAliveInit /\ OneAtATime
  BY DEF Init, KeepAliveInit, OneAtATime
<1> QED
  BY <1>1, NextOneAtATime, StepRefines, PTL DEF Spec, KeepAliveSpec

(* A session gives up a connection that is dead, one iteration of recv()   *)
(* after the time-out at the latest.                                       *)
THEOREM SessionDetectsDead == Spec => []DeadIsDetected
<1> QED
  BY SessionImplementsKeepAlive, ClockIsRight, PTL

(* Its broker hears from it an interval after the last time, however long  *)
(* that is, and as soon as the write thread can send.                      *)
THEOREM SessionIsHeard == Spec => []HeardInTime
<1> QED
  BY SessionImplementsKeepAlive, ClockIsRight, PTL

(* Its pings are an interval apart, however slow the write thread is.      *)
THEOREM SessionPingsOnce == Spec => OnePing
<1> QED
  BY SessionImplementsKeepAlive, PingsAreSpaced, PTL

(* As long as it only pings, it keeps a broker that answers.               *)
THEOREM SessionStaysHealthy == Spec => []QuietIsHealthy
<1> QED
  BY SessionImplementsKeepAlive, ClockIsRight, PTL

-----------------------------------------------------------------------------
(* The connector's side *)

(* Every step of a session is one of Connector, or none that it sees.      *)
LEMMA StepConnects == [Next]_vars => [ConnectorNext]_connectorVars
<1> SUFFICES ASSUME [Next]_vars PROVE [ConnectorNext]_connectorVars
  OBVIOUS
<1>1. CASE Stop \/ RoundStep \/ WakeUp \/ NetworkStep \/ Recv \/ RecvDone \/ EndStep
  BY <1>1 DEF ConnectorNext
<1>2. CASE Connected \/ Accepted \/ Lost
  BY <1>2 DEF Connected, Accepted, Lost, ConnectorNext
<1>3. CASE Writes \/ Stopped
  BY <1>3 DEF Writes, Stopped, ConnectorNext
<1>4. CASE Serve \/ UNCHANGED vars
  BY <1>4 DEF Serve, vars
<1> QED
  BY <1>1, <1>2, <1>3, <1>4 DEF Next

(* A session implements the specification of the connector.                *)
THEOREM SessionImplementsConnector == Spec => ConnectorSpec
<1>1. Init => ConnectorInit
  BY DEF Init
<1> QED
  BY <1>1, StepConnects, PTL DEF Spec, ConnectorSpec

(* Every variable of a session keeps its type.                             *)
THEOREM SessionTypes == Spec => []TypeOK
<1>1. ConnectorTypeOK /\ ClockInv => TypeOK
  BY DEF TypeOK, ClockInv
<1> QED
  BY <1>1, SessionImplementsConnector, ConnectorTypes, SessionImplementsKeepAlive, ClockInvariance, PTL

(* A session finds its connections as the connector promises, as long as   *)
(* its write thread does not outlive one; what it adopts is connected and  *)
(* its addresses are in order in any case.                                 *)
THEOREM SessionConnects ==
  Spec => [](/\ DescriptorsOwned /\ AddressesAlive /\ ReachableIsFound
             /\ AdoptedIsConnected /\ AddressOrder)
<1> QED
  BY SessionImplementsConnector, NoDescriptorLeaks, NoDanglingAddress, OnlyConnectedAdopted,
     HappyEyeballs, Interwoven, PTL

(* A connection that is watched has a socket, and the write thread is not  *)
(* about to close it.                                                      *)
Linked == ~outlived /\ link # "down" => m_socket # INVALID_SOCKET /\ wpc \in {"idle", "send", "done"}

(* Every step of a session.                                                *)
LEMMA NextLinked == Linked /\ OneAtATime /\ ConnectorInv /\ [Next]_vars => Linked'
<1> SUFFICES ASSUME Linked, OneAtATime, ConnectorInv, [Next]_vars, ~outlived', link' # "down"
             PROVE  m_socket' # INVALID_SOCKET /\ wpc' \in {"idle", "send", "done"}
  BY DEF Linked
<1>1. ~outlived
  BY StepConnects, OutlivedStays
<1>2. ASSUME link # "down", UNCHANGED <<m_socket, wpc>>
      PROVE  m_socket' # INVALID_SOCKET /\ wpc' \in {"idle", "send", "done"}
  BY <1>1, <1>2 DEF Linked
<1>3. link # "down" => pc \in {"loop", "recv"} /\ cstate \in {"AUTHENTICATING", "STOP"}
  BY DEF OneAtATime
<1> USE DEF In, writeVars
<1>4. CASE (Stop \/ NetworkStep \/ Recv \/ RecvDone) /\ UNCHANGED keepAliveVars
  BY <1>2, <1>4 DEF Stop, NetworkStep, Network, Recv, RecvDone, ReadMoves, keepAliveVars
<1>5. CASE (RoundStep \/ EndStep) /\ UNCHANGED keepAliveVars
  <2>1. link # "down" /\ m_socket # INVALID_SOCKET /\ wpc \in {"idle", "send", "done"}
    BY <1>1, <1>5 DEF keepAliveVars, Linked
  <2>2. CASE Resolve \/ Lookup \/ SetBackoff \/ Sleep \/ LostReported
    BY <1>2, <1>3, <2>1, <2>2 DEF Resolve, Lookup, SetBackoff, Sleep, LostReported
  <2>3. CASE FirstAttempt \/ NoAddressLeft \/ Select \/ SelectAborted
    BY <1>2, <1>3, <2>1, <2>3 DEF FirstAttempt, NoAddressLeft, Select, SelectAborted
  <2>4. CASE SelectStep
    BY <1>3, <2>1, <2>4 DEF SelectStep, StillWaiting, NextAttempt, AttemptsTimeOut, SelectReturns, SelectTimesOut, Selectable
  <2>5. CASE Examine
    BY <1>3, <2>1, <2>5 DEF Examine, RemoveFailed, Adopt
  <2>6. CASE ReadSkips \/ ReadCloses \/ ReadClears \/ StopClears \/ Destroyed
    BY <1>3, <2>1, <2>6 DEF ReadSkips, ReadCloses, ReadClears, StopClears, Destroyed, ReadMoves
  <2>7. CASE WriteSkips \/ WriteTakes \/ WriteCloses \/ WriteClears \/ WriteEnds
    BY <2>1, <2>7 DEF WriteSkips, WriteTakes, WriteCloses, WriteClears, WriteEnds, WriteMoves
  <2> QED
    BY <1>5, <2>2, <2>3, <2>4, <2>5, <2>6, <2>7 DEF RoundStep, EndStep
<1>6. CASE WakeUp /\ UNCHANGED keepAliveVars
  BY <1>2, <1>3, <1>6 DEF WakeUp, keepAliveVars
<1>7. CASE Connected
  <2>1. pc = "adopted" /\ UNCHANGED <<m_socket, wpc>>
    BY <1>7 DEF Connected, Authenticate
  <2>2. m_socket # INVALID_SOCKET /\ ~Busy
    BY <1>1, <2>1 DEF ConnectorInv, InTime
  <2> QED
    BY <2>1, <2>2 DEF Busy, ConnectorInv, Phase
<1>8. CASE Serve
  <2>1. link # "down" /\ UNCHANGED <<m_socket, wpc>>
    BY <1>8 DEF Serve, connectorVars, KeepAliveStep, Poll, PublishPacket, Reply, BrokerPublishes, RestArrives, Tick
  <2> QED
    BY <1>2, <2>1
<1>9. CASE Accepted
  <2>1. link # "down" /\ UNCHANGED <<m_socket, wpc>>
    BY <1>9 DEF Accepted, SetConnected, ReadMoves, Poll, keepAliveVars
  <2> QED
    BY <1>2, <2>1
<1>10. CASE Lost \/ Stopped
  BY <1>10 DEF Lost, Stopped, GiveUp, BrokerCloses, CloseLink, keepAliveVars
<1>11. CASE Writes
  <2>1. CASE WriteFails /\ SendFails
    BY <2>1 DEF SendFails, CloseLink
  <2>2. CASE (WriteBegins /\ TakePacket) \/ (WriteDone /\ FinishPacket)
    BY <1>1, <2>2 DEF WriteBegins, WriteDone, WriteMoves, TakePacket, FinishPacket, Linked
  <2> QED
    BY <1>11, <2>1, <2>2 DEF Writes
<1>12. CASE UNCHANGED vars
  BY <1>2, <1>12 DEF vars, keepAliveVars, connectorVars
<1> QED
  BY <1>4, <1>5, <1>6, <1>7, <1>8, <1>9, <1>10, <1>11, <1>12 DEF Next

(* recv() and the write thread have the socket that the last round adopted *)
(* to work on until the state says that the connection has ended, unless   *)
(* the write thread has outlived an earlier connection.                    *)
THEOREM SessionHasSocket == Spec => []LinkHasSocket
<1>1. Init => OneAtATime
  BY DEF Init, KeepAliveInit, OneAtATime
<1>2. Spec => []OneAtATime
  BY <1>1, NextOneAtATime, PTL DEF Spec
<1>3. Init => Linked
  BY DEF Init, KeepAliveInit, Linked
<1>4. OneAtATime /\ Linked /\ ConnectorInv => LinkHasSocket
  <2> SUFFICES ASSUME OneAtATime, Linked, ConnectorInv, link # "down", ~outlived PROVE m_socket \in DOMAIN fds
    BY DEF OneAtATime, LinkHasSocket
  <2>1. m_socket # INVALID_SOCKET /\ wpc # "clear" /\ pc \in {"loop", "recv"}
    BY DEF OneAtATime, Linked
  <2> QED
    BY <2>1, InTimeFacts
<1> QED
  BY <1>2, <1>3, <1>4, NextLinked, SessionImplementsConnector, ConnectorInvariance, PTL DEF Spec

=============================================================================
