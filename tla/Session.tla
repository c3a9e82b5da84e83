-------------------------------- MODULE Session --------------------------------
(***************************************************************************)
(* The two threads from one connection to the next: Connector finds a      *)
(* connection and closes it, KeepAlive watches over it, and one that is    *)
(* given up leads back to Connector.                                       *)
(***************************************************************************)
EXTENDS Connector, KeepAlive

vars == <<connectorVars, keepAliveVars>>

Init == ConnectorInit /\ KeepAliveInit

(* connectToAny() succeeds: unless STOP was stored, CONNECT is sent. *)
Connected ==
  /\ Authenticate
  /\ IF cstate = "STOP" THEN UNCHANGED keepAliveVars ELSE OpenLink

(* The connection as recv() and the application use it.  Only a read of    *)
(* the CONNACK stores a state.                                             *)
Serve ==
  /\ pc = "recv" /\ cstate = "AUTHENTICATING" /\ m_socket \in DOMAIN fds
  /\ KeepAliveStep
  /\ link = "authenticating" => link' = link
  /\ UNCHANGED connectorVars

(* recvLoop() reads a CONNACK.  It was on its way there if the write       *)
(* thread has ended the connection meanwhile.                              *)
Accepted ==
  /\ SetConnected
  /\ IF link = "down" THEN UNCHANGED keepAliveVars ELSE readable /\ Poll

(* recvLoop() fails: because of the time-out, the broker, which may refuse *)
(* the client, or the write thread, which has ended the connection.        *)
Lost ==
  /\ SocketError
  /\ IF link = "down" THEN UNCHANGED keepAliveVars ELSE GiveUp \/ BrokerCloses

(* The write thread *)
Writes ==
  /\ \/ WriteBegins /\ TakePacket
     \/ WriteDone /\ FinishPacket
     \/ WriteFails /\ SendFails

(* case STOP ends the connection, if there is one. *)
Stopped ==
  /\ StopSkips \/ StopCloses
  /\ IF link = "down" THEN UNCHANGED keepAliveVars ELSE BrokerCloses

Next ==
  \/ /\ Stop \/ RoundStep \/ WakeUp \/ NetworkStep \/ Recv \/ RecvDone \/ EndStep
     /\ UNCHANGED keepAliveVars
  \/ Connected \/ Serve \/ Accepted \/ Lost \/ Writes \/ Stopped

Spec == Init /\ [][Next]_vars

-----------------------------------------------------------------------------
TypeOK == ConnectorTypeOK /\ KeepAliveTypeOK

(* recv() and the write thread have the socket that the last round adopted *)
(* to work on, open, until the state says that the connection has ended:   *)
(* of the two threads that may end it, none closes the socket before it    *)
(* has told the other.  Only a write thread that has outlived an earlier   *)
(* connection does.                                                        *)
LinkHasSocket ==
  link # "down" =>
    /\ cstate \in {"AUTHENTICATING", "STOP"}
    /\ ~outlived => m_socket \in DOMAIN fds

=============================================================================
