--------------------------- MODULE ConnectionProofs ---------------------------
(***************************************************************************)
(* Proofs, for every size of the queues and every bound, that Connection   *)
(* is type correct, that a client which is DISCONNECTED has no thread left *)
(* (Lifecycle), and that only connect() leaves DISCONNECTED                *)
(* (NoResurrection).                                                       *)
(*                                                                         *)
(* The second part is about a connection that is lost and replaced: the    *)
(* client says so, nothing that was queued for it is left, no message is   *)
(* left behind, no packet sleeps in the send queue, which has one CONNECT  *)
(* at most and is bounded; and the threads implement ClientLifecycle.      *)
(***************************************************************************)
EXTENDS Connection, SequenceTheorems, FiniteSetTheorems, TLAPS

(* Who holds m_state_mutex: the application thread all through a call, the *)
(* read thread while it restores; and a crash stops all threads.           *)
Locking ==
  IF Crashed
    THEN pc.read \in Crashes /\ pc.write \in Crashes
    ELSE /\ pc.read \notin Crashes /\ pc.write \notin Crashes
         /\ mutex = "app" <=> pc.app # "idle"
         /\ mutex = "read" <=> pc.read \in {"restore", "notifyRestore"}

(* What the application thread knows of the Connection at each label of a  *)
(* call.                                                                   *)
Ownership ==
  /\ pc.app = "idle" => (m_connection <=> state # "DISCONNECTED")
  /\ pc.app \in {"push", "notify"} => m_connection /\ state = "CONNECTED"
  /\ pc.app \in {"construct", "assign"} => ~m_connection /\ state # "DISCONNECTED"
  /\ TearingDown => ~m_connection /\ (again <=> state # "DISCONNECTED")
  /\ pc.app = "idle" /\ state = "DISCONNECTED" => pc.read = "done" /\ pc.write = "done"
  /\ pc.app = "joinWrite" => pc.read = "done"
  /\ pc.app = "construct" => pc.read = "done" /\ pc.write = "done"

IInv == TypeOK /\ Locking /\ Ownership

USE ConnectionAssumption DEF ConnectionAssumption

(* An API call takes m_state_mutex and leaves the threads alone.           *)
LEMMA AppCallInv == IInv /\ AppCall => IInv'
<1> SUFFICES ASSUME IInv, AppCall PROVE IInv'
  OBVIOUS
<1> USE DEF IInv, TypeOK, Locking, Ownership, TearingDown, Crashed, Crashes, Goto, Threads,
            AppLabels, ReadLabels, WriteLabels, ClientStates, States, Packets,
            clientVars, socketVars, queueVars, localVars
<1>1. CASE Connect
  BY <1>1 DEF Connect, Call
<1>2. CASE Disconnect
  <2>0. m_connection' \in BOOLEAN /\ again' \in BOOLEAN
    BY <1>2, Zenon DEF Disconnect, Call, BeginDisconnect
  <2>1. TypeOK'
    BY <1>2, <2>0 DEF Disconnect, Call, BeginDisconnect
  <2>2. Locking'
    BY <1>2 DEF Disconnect, Call, BeginDisconnect
  <2>3. Ownership'
    BY <1>2 DEF Disconnect, Call, BeginDisconnect
  <2> QED
    BY <2>1, <2>2, <2>3
<1>3. CASE Publish
  BY <1>3 DEF Publish, Call, BeginSend
<1>4. CASE Subscribe
  <2>0. m_connection' \in BOOLEAN /\ again' \in BOOLEAN
    BY <1>4, Zenon DEF Subscribe, Call, SendOrReconnect, BeginDisconnect, BeginSend
  <2>1. TypeOK'
    BY <1>4, <2>0 DEF Subscribe, Call, SendOrReconnect, BeginDisconnect, BeginSend
  <2>2. Locking'
    BY <1>4 DEF Subscribe, Call, SendOrReconnect, BeginDisconnect, BeginSend
  <2>3. Ownership'
    BY <1>4 DEF Subscribe, Call, SendOrReconnect, BeginDisconnect, BeginSend
  <2> QED
    BY <2>1, <2>2, <2>3
<1>5. CASE Unsubscribe
  <2>0. m_connection' \in BOOLEAN /\ again' \in BOOLEAN
    BY <1>5, Zenon DEF Unsubscribe, Call, SendOrReconnect, BeginDisconnect, BeginSend
  <2>1. TypeOK'
    BY <1>5, <2>0 DEF Unsubscribe, Call, SendOrReconnect, BeginDisconnect, BeginSend
  <2>2. Locking'
    BY <1>5 DEF Unsubscribe, Call, SendOrReconnect, BeginDisconnect, BeginSend
  <2>3. Ownership'
    BY <1>5 DEF Unsubscribe, Call, SendOrReconnect, BeginDisconnect, BeginSend
  <2> QED
    BY <2>1, <2>2, <2>3
<1> QED
  BY <1>1, <1>2, <1>3, <1>4, <1>5 DEF AppCall

(* The steps of a call, with ~Connection and the constructor among them.   *)
LEMMA AppStepInv == IInv /\ AppStep => IInv'
<1> SUFFICES ASSUME IInv, AppStep PROVE IInv'
  OBVIOUS
<1> USE DEF IInv, TypeOK, Locking, Ownership, TearingDown, Crashed, Crashes, Goto, Threads,
            AppLabels, ReadLabels, WriteLabels, ClientStates, States, Packets,
            clientVars, socketVars, queueVars, localVars
<1>1. CASE Construct
  <2>0. qlock' \in BOOLEAN /\ stale' \in BOOLEAN
    BY <1>1, Zenon DEF Construct
  <2>1. TypeOK'
    BY <1>1, <2>0 DEF Construct
  <2>2. Locking'
    BY <1>1 DEF Construct
  <2>3. Ownership'
    BY <1>1 DEF Construct
  <2> QED
    BY <2>1, <2>2, <2>3
<1>2. CASE Assign
  BY <1>2 DEF Assign
<1>3. CASE StopConnection
  BY <1>3 DEF StopConnection, Store
<1>4. CASE NotifyStop
  BY <1>4 DEF NotifyStop, NotifyOne, Notify
<1>5. CASE JoinRead
  BY <1>5 DEF JoinRead, Branch
<1>6. CASE JoinWrite
  BY <1>6 DEF JoinWrite
<1>7. CASE Push
  BY <1>7 DEF Push
<1>8. CASE NotifyApp
  BY <1>8 DEF NotifyApp, Notify
<1> QED
  BY <1>1, <1>2, <1>3, <1>4, <1>5, <1>6, <1>7, <1>8 DEF AppStep

(* The read thread up to the CONNECT packet.                               *)
LEMMA ConnectStepInv == IInv /\ ConnectStep => IInv'
<1> SUFFICES ASSUME IInv, ConnectStep PROVE IInv'
  OBVIOUS
<1> USE DEF IInv, TypeOK, Locking, Ownership, TearingDown, Crashed, Crashes, Goto, Threads,
            AppLabels, ReadLabels, WriteLabels, ClientStates, States, Packets,
            clientVars, socketVars, queueVars, localVars
<1>1. CASE ReadSwitch
  BY <1>1 DEF ReadSwitch, Branch, CaseOf
<1>2. CASE Backoff
  BY <1>2 DEF Backoff, Branch
<1>3. CASE SetResolving
  BY <1>3 DEF SetResolving, Store
<1>4. CASE SetBackoff
  BY <1>4 DEF SetBackoff, Store
<1>5. CASE ReadStop
  BY <1>5 DEF ReadStop, SetSocket
<1>6. CASE Resolve
  BY <1>6 DEF Resolve, SetSocket
<1>7. CASE ResolveFails
  BY <1>7 DEF ResolveFails, Branch
<1>8. CASE Resolved
  BY <1>8 DEF Resolved, Branch
<1>9. CASE SetConnecting
  BY <1>9 DEF SetConnecting, Store
<1>10. CASE StillConnecting
  BY <1>10 DEF StillConnecting, Branch
<1>11. CASE ConnectFails
  BY <1>11 DEF ConnectFails, Branch
<1>12. CASE Connected
  BY <1>12 DEF Connected, Branch
<1>13. CASE Adopt
  BY <1>13 DEF Adopt, SetSocket
<1>14. CASE Adopted
  BY <1>14 DEF Adopted, Branch
<1>15. CASE SetAuthenticating
  BY <1>15 DEF SetAuthenticating, Store
<1>16. CASE SendConnect
  BY <1>16 DEF SendConnect, PushFront
<1>17. CASE NotifyConnect
  BY <1>17 DEF NotifyConnect, NotifyOne, Notify
<1> QED
  BY <1>1, <1>2, <1>3, <1>4, <1>5, <1>6, <1>7, <1>8, <1>9, <1>10, <1>11, <1>12, <1>13, <1>14,
     <1>15, <1>16, <1>17 DEF ConnectStep

(* The read thread with a connection; here it may take m_state_mutex.      *)
LEMMA RecvStepInv == IInv /\ RecvStep => IInv'
<1> SUFFICES ASSUME IInv, RecvStep PROVE IInv'
  OBVIOUS
<1> USE DEF IInv, TypeOK, Locking, Ownership, TearingDown, Crashed, Crashes, Goto, Threads,
            AppLabels, ReadLabels, WriteLabels, ClientStates, States, Packets,
            clientVars, socketVars, queueVars, localVars
<1>1. CASE RecvAborted
  BY <1>1 DEF RecvAborted, Branch
<1>2. CASE RecvContinues
  BY <1>2 DEF RecvContinues, Branch
<1>3. CASE SendPingRequest
  BY <1>3 DEF SendPingRequest, PushFront
<1>4. CASE NotifyPing
  BY <1>4 DEF NotifyPing, NotifyOne, Notify
<1>5. CASE RecvError
  BY <1>5 DEF RecvError, Branch
<1>6. CASE RecvPacket
  BY <1>6 DEF RecvPacket, Branch
<1>7. CASE RecvConnack
  BY <1>7 DEF RecvConnack
<1>8. CASE MessageReceived
  BY <1>8 DEF MessageReceived, Branch
<1>9. CASE SetConnected
  BY <1>9 DEF SetConnected, Store
<1>10. CASE ConnectionUp
  BY <1>10 DEF ConnectionUp
<1>11. CASE RestoreSubscription
  BY <1>11 DEF RestoreSubscription, SendRestored
<1>12. CASE FlushPublish
  BY <1>12 DEF FlushPublish, SendRestored
<1>13. CASE NotifyRestore
  BY <1>13 DEF NotifyRestore, NotifyOne, Notify
<1>14. CASE RestoreRefused
  BY <1>14 DEF RestoreRefused, Crash
<1>15. CASE RestoreDone
  BY <1>15 DEF RestoreDone
<1> QED
  BY <1>1, <1>2, <1>3, <1>4, <1>5, <1>6, <1>7, <1>8, <1>9, <1>10, <1>11, <1>12, <1>13, <1>14,
     <1>15 DEF RecvStep

(* socketError(), run by either thread.                                    *)
LEMMA ErrorStepInv == ASSUME IInv, NEW t \in {"read", "write"}, ErrorStep(t) PROVE IInv'
<1> USE DEF IInv, TypeOK, Locking, Ownership, TearingDown, Crashed, Crashes, Goto, Threads,
            AppLabels, ReadLabels, WriteLabels, ClientStates, States, Packets,
            clientVars, socketVars, queueVars, localVars
<1>1. CASE SetSocketError(t)
  BY <1>1 DEF SetSocketError, Store
<1>2. CASE CloseSocket(t)
  <2>0. stale' \in BOOLEAN
    BY <1>2, Zenon DEF CloseSocket, SetSocket
  <2>1. TypeOK'
    BY <1>2, <2>0 DEF CloseSocket, SetSocket
  <2>2. Locking'
    BY <1>2 DEF CloseSocket, SetSocket
  <2>3. Ownership'
    BY <1>2 DEF CloseSocket, SetSocket
  <2> QED
    BY <2>1, <2>2, <2>3
<1>3. CASE ResetSocket(t)
  BY <1>3 DEF ResetSocket, SetSocket
<1> QED
  BY <1>1, <1>2, <1>3 DEF ErrorStep

(* The read thread after it lost the connection.                           *)
LEMMA LostStepInv == IInv /\ LostStep => IInv'
<1> SUFFICES ASSUME IInv, LostStep PROVE IInv'
  OBVIOUS
<1> USE DEF IInv, TypeOK, Locking, Ownership, TearingDown, Crashed, Crashes, Goto, Threads,
            AppLabels, ReadLabels, WriteLabels, ClientStates, States, Packets,
            clientVars, socketVars, queueVars, localVars
<1>1. CASE RecvFailed
  BY <1>1 DEF RecvFailed, Branch
<1>2. CASE SetBackoffAfterError
  BY <1>2 DEF SetBackoffAfterError, Store
<1>3. CASE ConnectionDown
  BY <1>3 DEF ConnectionDown
<1>4. CASE ClearSendQueue
  BY <1>4 DEF ClearSendQueue
<1> QED
  BY <1>1, <1>2, <1>3, <1>4 DEF LostStep

(* The write thread.                                                       *)
LEMMA WriteStepInv == IInv /\ WriteStep => IInv'
<1> SUFFICES ASSUME IInv, WriteStep PROVE IInv'
  OBVIOUS
<1> USE DEF IInv, TypeOK, Locking, Ownership, TearingDown, Crashed, Crashes, Goto, Threads,
            AppLabels, ReadLabels, WriteLabels, ClientStates, States, Packets,
            clientVars, socketVars, queueVars, localVars
<1>1. CASE WriteSwitch
  BY <1>1 DEF WriteSwitch, Branch
<1>2. CASE Pop
  <2>0. qlock' \in BOOLEAN
    BY <1>2, Zenon DEF Pop, TakePacket
  <2>1. TypeOK'
    BY <1>2, <2>0 DEF Pop, TakePacket
  <2>2. Locking'
    BY <1>2 DEF Pop, TakePacket
  <2>3. Ownership'
    BY <1>2 DEF Pop, TakePacket
  <2> QED
    BY <2>1, <2>2, <2>3
<1>3. CASE CheckPredicate
  BY <1>3 DEF CheckPredicate
<1>4. CASE Block
  <2>0. qlock' \in BOOLEAN
    BY <1>4, Zenon DEF Block
  <2>1. TypeOK'
    BY <1>4, <2>0 DEF Block
  <2>2. Locking'
    BY <1>4 DEF Block
  <2>3. Ownership'
    BY <1>4 DEF Block
  <2> QED
    BY <2>1, <2>2, <2>3
<1>5. CASE RecheckStopped
  <2>0. qlock' \in BOOLEAN
    BY <1>5, Zenon DEF RecheckStopped
  <2>1. TypeOK'
    BY <1>5, <2>0 DEF RecheckStopped
  <2>2. Locking'
    BY <1>5 DEF RecheckStopped
  <2>3. Ownership'
    BY <1>5 DEF RecheckStopped
  <2> QED
    BY <2>1, <2>2, <2>3
<1>6. CASE RecheckTakes
  <2>0. qlock' \in BOOLEAN
    BY <1>6, Zenon DEF RecheckTakes, TakePacket
  <2>1. TypeOK'
    BY <1>6, <2>0 DEF RecheckTakes, TakePacket
  <2>2. Locking'
    BY <1>6 DEF RecheckTakes, TakePacket
  <2>3. Ownership'
    BY <1>6 DEF RecheckTakes, TakePacket
  <2> QED
    BY <2>1, <2>2, <2>3
<1>7. CASE RecheckEmpty
  BY <1>7 DEF RecheckEmpty, Crash
<1>8. CASE SendPacket
  BY <1>8 DEF SendPacket, Branch
<1>9. CASE EnterSend
  <2>0. stale' \in BOOLEAN
    BY <1>9, Zenon DEF EnterSend
  <2>1. TypeOK'
    BY <1>9, <2>0 DEF EnterSend
  <2>2. Locking'
    BY <1>9 DEF EnterSend
  <2>3. Ownership'
    BY <1>9 DEF EnterSend
  <2> QED
    BY <2>1, <2>2, <2>3
<1>10. CASE SendCompletes
  BY <1>10 DEF SendCompletes, Received
<1>11. CASE SendIsPartial
  BY <1>11 DEF SendIsPartial, Branch
<1>12. CASE SendFails
  BY <1>12 DEF SendFails, Branch
<1>13. CASE WriteError
  BY <1>13 DEF WriteError, Crash
<1> QED
  BY <1>1, <1>2, <1>3, <1>4, <1>5, <1>6, <1>7, <1>8, <1>9, <1>10, <1>11, <1>12, <1>13,
     ErrorStepInv DEF WriteStep

(* The client starts DISCONNECTED, with no Connection.                     *)
LEMMA InitInv == Init => IInv
<1> SUFFICES ASSUME Init PROVE IInv
  OBVIOUS
<1> USE DEF Init, Crashed, Crashes
<1>1. m_connection \in BOOLEAN /\ qlock \in BOOLEAN /\ again \in BOOLEAN /\ stale \in BOOLEAN
  BY Zenon
<1>2. TypeOK
  BY <1>1 DEF TypeOK, Threads, AppLabels, ReadLabels, WriteLabels, ClientStates, States, Packets
<1>3. Locking
  BY DEF Locking
<1>4. Ownership
  BY DEF Ownership, TearingDown
<1> QED
  BY <1>2, <1>3, <1>4 DEF IInv

(* Every step keeps the inductive invariant.                               *)
LEMMA NextInv == IInv /\ [Next]_vars => IInv'
<1> SUFFICES ASSUME IInv, [Next]_vars PROVE IInv'
  OBVIOUS
<1>1. CASE AppCall
  BY <1>1, AppCallInv
<1>2. CASE AppStep
  BY <1>2, AppStepInv
<1>3. CASE ReadStep
  BY <1>3, ConnectStepInv, RecvStepInv, ErrorStepInv, LostStepInv DEF ReadStep
<1>4. CASE WriteStep
  BY <1>4, WriteStepInv
<1>5. CASE SpuriousWakeup
  BY <1>5 DEF SpuriousWakeup, Branch, Goto, IInv, TypeOK, Locking, Ownership, TearingDown,
              Crashed, Threads, AppLabels, ReadLabels, WriteLabels, Crashes,
              clientVars, socketVars, queueVars, localVars
<1>6. CASE UNCHANGED vars
  BY <1>6 DEF vars, clientVars, socketVars, queueVars, localVars, IInv, TypeOK, Locking,
              Ownership, TearingDown, Crashed
<1> QED
  BY <1>1, <1>2, <1>3, <1>4, <1>5, <1>6 DEF Next

(* The inductive invariant holds in every reachable state. *)
THEOREM Invariance == Spec => []IInv
<1> QED
  BY InitInv, NextInv, PTL DEF Spec

(* Every variable keeps its type, whatever the three threads interleave.   *)
THEOREM TypeCorrect == Spec => []TypeOK
<1>1. IInv => TypeOK
  BY DEF IInv
<1> QED
  BY Invariance, <1>1, PTL

(* disconnect() leaves no thread behind, and every client that is not      *)
(* DISCONNECTED has its Connection.                                        *)
THEOREM LifecycleHolds == Spec => []Lifecycle
<1>1. IInv => Lifecycle
  BY DEF IInv, TypeOK, Locking, Ownership, Lifecycle, Crashed, AppLabels, Crashes, TearingDown
<1> QED
  BY Invariance, <1>1, PTL

(* Outside connect(), only connectionStateChange changes the client state  *)
(* of a client that is DISCONNECTED, and then no read thread is there to   *)
(* run it (disconnect() joined it) or m_state_mutex is taken.              *)
LEMMA LeavingDisconnected ==
  IInv /\ [Next]_vars =>
    [state = "DISCONNECTED" /\ state' # state => pc'.app = "construct"]_state
<1> SUFFICES ASSUME IInv, [Next]_vars, state = "DISCONNECTED", state' # state
             PROVE  pc'.app = "construct"
  OBVIOUS
<1> USE DEF clientVars
<1>1. CASE AppCall
  BY <1>1 DEF AppCall, Connect, Disconnect, Publish, Subscribe, Unsubscribe, Goto,
              IInv, TypeOK, Threads
<1>2. CASE AppStep
  BY <1>2 DEF AppStep, Construct, Assign, StopConnection, NotifyStop, JoinRead, JoinWrite,
              Push, NotifyApp, Store, Branch, NotifyOne
<1>3. CASE ConnectStep \/ ErrorStep("read") \/ ErrorStep("write")
  BY <1>3 DEF ConnectStep, ReadSwitch, Backoff, SetResolving, SetBackoff, ReadStop, Resolve,
              ResolveFails, Resolved, SetConnecting, StillConnecting, ConnectFails, Connected,
              Adopt, Adopted, SetAuthenticating, SendConnect, NotifyConnect, PushFront,
              ErrorStep, SetSocketError, CloseSocket, ResetSocket, Store, Branch, NotifyOne
<1>4. CASE RecvStep
  <2>1. CASE ConnectionUp
    BY <2>1 DEF ConnectionUp, IInv, Locking, Ownership, Crashed, Crashes
  <2>2. CASE RecvStep /\ ~ConnectionUp
    BY <2>2 DEF RecvStep, RecvAborted, RecvContinues, SendPingRequest, NotifyPing, RecvError,
                RecvPacket, RecvConnack, MessageReceived, SetConnected, RestoreSubscription,
                FlushPublish, SendRestored, NotifyRestore, RestoreRefused, RestoreDone,
                PushFront, Store, Branch, NotifyOne
  <2> QED
    BY <1>4, <2>1, <2>2
<1>5. CASE LostStep
  BY <1>5 DEF LostStep, RecvFailed, SetBackoffAfterError, ConnectionDown, ClearSendQueue,
              Store, Branch, IInv, Locking, Ownership, Crashed, Crashes
<1>6. CASE WriteStep /\ ~ErrorStep("write")
  BY <1>6 DEF WriteStep, WriteSwitch, Pop, CheckPredicate, Block, RecheckStopped, RecheckTakes,
              RecheckEmpty, SendPacket, EnterSend, SendCompletes, SendIsPartial, SendFails,
              WriteError, TakePacket, Branch
<1>7. CASE SpuriousWakeup \/ UNCHANGED vars
  BY <1>7 DEF SpuriousWakeup, Branch, vars
<1> QED
  BY <1>1, <1>2, <1>3, <1>4, <1>5, <1>6, <1>7 DEF Next, ReadStep, WriteStep

(* Only connect() leaves DISCONNECTED.                                     *)
THEOREM NoResurrectionHolds == Spec => NoResurrection
<1> QED
  BY Invariance, LeavingDisconnected, PTL DEF Spec, NoResurrection

-----------------------------------------------------------------------------
(* A connection that is lost and replaced *)

Seeking == {"RESOLVING", "CONNECTING", "BACKOFF"}

(* The read thread has a connection, or has just lost it. *)
Receiving ==
  {"sendConnect", "notifyConnect", "recv", "ping", "notifyPing", "recvData", "recvFailed",
   "setConnected", "up", "restore", "notifyRestore", "deliver", "errState", "errClose",
   "errReset", "lost"}

(* The read thread alone goes back to looking for a connection: the other  *)
(* threads store only SOCKET_ERROR and STOP.                               *)
Phase == pc.read \in Receiving => cstate \notin Seeking

(* The read thread looks for a connection, or will at its next switch. *)
Seeks == Reconnecting \/ (pc.read = "loop" /\ cstate \in Seeking)

(* ... and then the client was told, and the send queue cleared; a call of *)
(* publish() that began before that would hold m_state_mutex.              *)
Reported ==
  /\ Seeks \/ pc.read = "clear" => again \/ state # "CONNECTED"
  /\ pc.app = "construct" => again \/ state # "CONNECTED"
  /\ Seeks /\ state = "CONNECTING" => queue = <<>>

(* Messages wait in the publish queue of a connected client only while     *)
(* they are flushed.                                                       *)
Drained == state = "CONNECTED" /\ mutex # "read" => backlog = 0

(* The write thread holds the lock of the queue between its look at it and *)
(* the wait, so that a packet comes before the one or after the other.     *)
Waiting ==
  /\ ~Crashed => (qlock <=> pc.write \in {"block", "recheck"})
  /\ pc.write = "block" => queue = <<>>
  /\ NoLostPacket

(* Threads end for ~Connection alone, which runs for a client that is      *)
(* DISCONNECTED, or CONNECTED and about to get a new Connection.           *)
Ending ==
  /\ pc.read \in {"stop", "done"} \/ pc.write = "done" \/ cstate = "STOP" =>
       \/ pc.app \in {"notifyStop", "joinRead", "joinWrite", "construct"} \cup Crashes
       \/ pc.app = "idle" /\ state = "DISCONNECTED"
  /\ TearingDown /\ again => state = "CONNECTED"

(* All of it; with IInv it is inductive. *)
Replacement == Phase /\ Reported /\ Drained /\ Waiting /\ Ending

RInv == IInv /\ Replacement

(* An API call takes m_state_mutex and leaves the threads alone.           *)
LEMMA AppCallKeeps == RInv /\ AppCall => Replacement'
<1> SUFFICES ASSUME RInv, AppCall PROVE Replacement'
  OBVIOUS
<1> USE DEF RInv, Replacement, IInv, TypeOK, Locking, Ownership, TearingDown, Crashed, Crashes,
            Goto, Threads,
            AppLabels, ReadLabels, WriteLabels, ClientStates, States, Online, Seeking, Receiving,
            clientVars, socketVars, queueVars, localVars, Phase, Seeks, Reconnecting, Reported,
            Drained, Waiting, NoLostPacket, Ending
<1>1. CASE Connect
  BY <1>1 DEF Connect, Call
<1>2. CASE Disconnect
  BY <1>2 DEF Disconnect, Call, BeginDisconnect
<1>3. CASE Publish
  BY <1>3 DEF Publish, Call, BeginSend
<1>4. CASE Subscribe
  BY <1>4 DEF Subscribe, Call, SendOrReconnect, BeginDisconnect, BeginSend
<1>5. CASE Unsubscribe
  BY <1>5 DEF Unsubscribe, Call, SendOrReconnect, BeginDisconnect, BeginSend
<1> QED
  BY <1>1, <1>2, <1>3, <1>4, <1>5 DEF AppCall

(* The steps of a call, with ~Connection and the constructor among them.   *)
LEMMA AppStepKeeps == RInv /\ AppStep => Replacement'
<1> SUFFICES ASSUME RInv, AppStep PROVE Replacement'
  OBVIOUS
<1> USE DEF RInv, Replacement, IInv, TypeOK, Locking, Ownership, TearingDown, Crashed, Crashes,
            Goto, Threads,
            AppLabels, ReadLabels, WriteLabels, ClientStates, States, Online, Seeking, Receiving,
            clientVars, socketVars, queueVars, localVars, Phase, Seeks, Reconnecting, Reported,
            Drained, Waiting, NoLostPacket, Ending
<1>1. CASE Construct
  BY <1>1 DEF Construct
<1>2. CASE Assign
  BY <1>2 DEF Assign
<1>3. CASE StopConnection
  BY <1>3 DEF StopConnection, Store
<1>4. CASE NotifyStop
  BY <1>4 DEF NotifyStop, NotifyOne, Notify
<1>5. CASE JoinRead
  BY <1>5 DEF JoinRead, Branch
<1>6. CASE JoinWrite
  BY <1>6 DEF JoinWrite
<1>7. CASE Push
  BY <1>7 DEF Push
<1>8. CASE NotifyApp
  BY <1>8 DEF NotifyApp, Notify
<1> QED
  BY <1>1, <1>2, <1>3, <1>4, <1>5, <1>6, <1>7, <1>8 DEF AppStep

(* The read thread up to the CONNECT packet.                               *)
LEMMA ConnectStepKeeps == RInv /\ ConnectStep => Replacement'
<1> SUFFICES ASSUME RInv, ConnectStep PROVE Replacement'
  OBVIOUS
<1> USE DEF RInv, Replacement, IInv, TypeOK, Locking, Ownership, TearingDown, Crashed, Crashes,
            Goto, Threads,
            AppLabels, ReadLabels, WriteLabels, ClientStates, States, Online, Seeking, Receiving,
            clientVars, socketVars, queueVars, localVars, Phase, Seeks, Reconnecting, Reported,
            Drained, Waiting, NoLostPacket, Ending
<1>1. CASE ReadSwitch
  BY <1>1 DEF ReadSwitch, Branch, CaseOf
<1>2. CASE Backoff
  BY <1>2 DEF Backoff, Branch
<1>3. CASE SetResolving
  BY <1>3 DEF SetResolving, Store
<1>4. CASE SetBackoff
  BY <1>4 DEF SetBackoff, Store
<1>5. CASE ReadStop
  BY <1>5 DEF ReadStop, SetSocket
<1>6. CASE Resolve
  BY <1>6 DEF Resolve, SetSocket
<1>7. CASE ResolveFails
  BY <1>7 DEF ResolveFails, Branch
<1>8. CASE Resolved
  BY <1>8 DEF Resolved, Branch
<1>9. CASE SetConnecting
  BY <1>9 DEF SetConnecting, Store
<1>10. CASE StillConnecting
  BY <1>10 DEF StillConnecting, Branch
<1>11. CASE ConnectFails
  BY <1>11 DEF ConnectFails, Branch
<1>12. CASE Connected
  BY <1>12 DEF Connected, Branch
<1>13. CASE Adopt
  BY <1>13 DEF Adopt, SetSocket
<1>14. CASE Adopted
  BY <1>14 DEF Adopted, Branch
<1>15. CASE SetAuthenticating
  BY <1>15 DEF SetAuthenticating, Store
<1>16. CASE SendConnect
  BY <1>16 DEF SendConnect, PushFront
<1>17. CASE NotifyConnect
  BY <1>17 DEF NotifyConnect, NotifyOne, Notify
<1> QED
  BY <1>1, <1>2, <1>3, <1>4, <1>5, <1>6, <1>7, <1>8, <1>9, <1>10, <1>11, <1>12, <1>13, <1>14,
     <1>15, <1>16, <1>17 DEF ConnectStep

(* The read thread with a connection; here it may take m_state_mutex.      *)
LEMMA RecvStepKeeps == RInv /\ RecvStep => Replacement'
<1> SUFFICES ASSUME RInv, RecvStep PROVE Replacement'
  OBVIOUS
<1> USE DEF RInv, Replacement, IInv, TypeOK, Locking, Ownership, TearingDown, Crashed, Crashes,
            Goto, Threads,
            AppLabels, ReadLabels, WriteLabels, ClientStates, States, Online, Seeking, Receiving,
            clientVars, socketVars, queueVars, localVars, Phase, Seeks, Reconnecting, Reported,
            Drained, Waiting, NoLostPacket, Ending
<1>1. CASE RecvAborted
  BY <1>1 DEF RecvAborted, Branch
<1>2. CASE RecvContinues
  BY <1>2 DEF RecvContinues, Branch
<1>3. CASE SendPingRequest
  BY <1>3 DEF SendPingRequest, PushFront
<1>4. CASE NotifyPing
  BY <1>4 DEF NotifyPing, NotifyOne, Notify
<1>5. CASE RecvError
  BY <1>5 DEF RecvError, Branch
<1>6. CASE RecvPacket
  BY <1>6 DEF RecvPacket, Branch
<1>7. CASE RecvConnack
  BY <1>7 DEF RecvConnack
<1>8. CASE MessageReceived
  BY <1>8 DEF MessageReceived, Branch
<1>9. CASE SetConnected
  BY <1>9 DEF SetConnected, Store
<1>10. CASE ConnectionUp
  BY <1>10 DEF ConnectionUp
<1>11. CASE RestoreSubscription
  BY <1>11 DEF RestoreSubscription, SendRestored
<1>12. CASE FlushPublish
  BY <1>12 DEF FlushPublish, SendRestored
<1>13. CASE NotifyRestore
  BY <1>13 DEF NotifyRestore, NotifyOne, Notify
<1>14. CASE RestoreRefused
  BY <1>14 DEF RestoreRefused, Crash
<1>15. CASE RestoreDone
  BY <1>15 DEF RestoreDone
<1> QED
  BY <1>1, <1>2, <1>3, <1>4, <1>5, <1>6, <1>7, <1>8, <1>9, <1>10, <1>11, <1>12, <1>13, <1>14,
     <1>15 DEF RecvStep

(* socketError(), run by either thread.                                    *)
LEMMA ErrorStepKeeps == ASSUME RInv, NEW t \in {"read", "write"}, ErrorStep(t)
  PROVE Replacement'
<1> USE DEF RInv, Replacement, IInv, TypeOK, Locking, Ownership, TearingDown, Crashed, Crashes,
            Goto, Threads,
            AppLabels, ReadLabels, WriteLabels, ClientStates, States, Online, Seeking, Receiving,
            clientVars, socketVars, queueVars, localVars, Phase, Seeks, Reconnecting, Reported,
            Drained, Waiting, NoLostPacket, Ending
<1>1. CASE SetSocketError(t)
  BY <1>1 DEF SetSocketError, Store
<1>2. CASE CloseSocket(t)
  BY <1>2 DEF CloseSocket, SetSocket
<1>3. CASE ResetSocket(t)
  BY <1>3 DEF ResetSocket, SetSocket
<1> QED
  BY <1>1, <1>2, <1>3 DEF ErrorStep

(* The read thread after it lost the connection.                           *)
LEMMA LostStepKeeps == RInv /\ LostStep => Replacement'
<1> SUFFICES ASSUME RInv, LostStep PROVE Replacement'
  OBVIOUS
<1> USE DEF RInv, Replacement, IInv, TypeOK, Locking, Ownership, TearingDown, Crashed, Crashes,
            Goto, Threads,
            AppLabels, ReadLabels, WriteLabels, ClientStates, States, Online, Seeking, Receiving,
            clientVars, socketVars, queueVars, localVars, Phase, Seeks, Reconnecting, Reported,
            Drained, Waiting, NoLostPacket, Ending
<1>1. CASE RecvFailed
  BY <1>1 DEF RecvFailed, Branch
<1>2. CASE SetBackoffAfterError
  BY <1>2 DEF SetBackoffAfterError, Store
<1>3. CASE ConnectionDown
  BY <1>3 DEF ConnectionDown
<1>4. CASE ClearSendQueue
  BY <1>4 DEF ClearSendQueue
<1> QED
  BY <1>1, <1>2, <1>3, <1>4 DEF LostStep

(* The write thread.                                                       *)
LEMMA WriteStepKeeps == RInv /\ WriteStep => Replacement'
<1> SUFFICES ASSUME RInv, WriteStep PROVE Replacement'
  OBVIOUS
<1> USE DEF RInv, Replacement, IInv, TypeOK, Locking, Ownership, TearingDown, Crashed, Crashes,
            Goto, Threads,
            AppLabels, ReadLabels, WriteLabels, ClientStates, States, Online, Seeking, Receiving,
            clientVars, socketVars, queueVars, localVars, Phase, Seeks, Reconnecting, Reported,
            Drained, Waiting, NoLostPacket, Ending
<1>1. CASE WriteSwitch
  BY <1>1 DEF WriteSwitch, Branch
<1>2. CASE Pop
  BY <1>2 DEF Pop, TakePacket
<1>3. CASE CheckPredicate
  BY <1>3 DEF CheckPredicate
<1>4. CASE Block
  BY <1>4 DEF Block
<1>5. CASE RecheckStopped
  BY <1>5 DEF RecheckStopped
<1>6. CASE RecheckTakes
  BY <1>6 DEF RecheckTakes, TakePacket
<1>7. CASE RecheckEmpty
  BY <1>7 DEF RecheckEmpty, Crash
<1>8. CASE SendPacket
  BY <1>8 DEF SendPacket, Branch
<1>9. CASE EnterSend
  BY <1>9 DEF EnterSend
<1>10. CASE SendCompletes
  BY <1>10 DEF SendCompletes, Received
<1>11. CASE SendIsPartial
  BY <1>11 DEF SendIsPartial, Branch
<1>12. CASE SendFails
  BY <1>12 DEF SendFails, Branch
<1>13. CASE WriteError
  BY <1>13 DEF WriteError, Crash
<1> QED
  BY <1>1, <1>2, <1>3, <1>4, <1>5, <1>6, <1>7, <1>8, <1>9, <1>10, <1>11, <1>12, <1>13,
     ErrorStepKeeps DEF WriteStep

(* It holds before the first call.                                         *)
LEMMA InitReplacement == Init => Replacement
BY DEF Init, Replacement, Phase, Seeks, Reconnecting, Reported, Drained, Waiting, NoLostPacket,
       Ending, TearingDown, Crashed, Crashes, Seeking, Receiving

(* Every step keeps it.                                                    *)
LEMMA NextReplacement == RInv /\ [Next]_vars => RInv'
<1> SUFFICES ASSUME RInv, [Next]_vars PROVE Replacement'
  BY NextInv DEF RInv
<1>1. CASE AppCall
  BY <1>1, AppCallKeeps
<1>2. CASE AppStep
  BY <1>2, AppStepKeeps
<1>3. CASE ReadStep
  BY <1>3, ConnectStepKeeps, RecvStepKeeps, ErrorStepKeeps, LostStepKeeps DEF ReadStep
<1>4. CASE WriteStep
  BY <1>4, WriteStepKeeps
<1>5. CASE SpuriousWakeup
  BY <1>5 DEF SpuriousWakeup, Branch, Goto, RInv, Replacement, IInv, TypeOK, Locking, Crashed,
              Crashes, Threads, Phase, Seeks, Reconnecting, Reported, Drained, Waiting,
              NoLostPacket, Ending, TearingDown, clientVars, socketVars, queueVars, localVars
<1>6. CASE UNCHANGED vars
  BY <1>6 DEF vars, clientVars, socketVars, queueVars, localVars, RInv, Replacement, Phase,
              Seeks, Reconnecting, Reported, Drained, Waiting, NoLostPacket, Ending,
              TearingDown, Crashed
<1> QED
  BY <1>1, <1>2, <1>3, <1>4, <1>5, <1>6 DEF Next

(* The inductive invariant of lost and replaced connections holds in every *)
(* reachable state.                                                        *)
THEOREM ReplacementInvariance == Spec => []RInv
<1>1. Init => RInv
  BY InitInv, InitReplacement DEF RInv
<1> QED
  BY <1>1, NextReplacement, PTL DEF Spec

(* While a lost connection is replaced the client is not CONNECTED,        *)
(* whichever thread saw the error first.                                   *)
THEOREM ConnectingReported == Spec => []ConnectingIsReported
<1>1. RInv => ConnectingIsReported
  BY DEF RInv, Replacement, Reported, Seeks, ConnectingIsReported
<1> QED
  BY ReplacementInvariance, <1>1, PTL

(* No packet that was queued for a lost connection is sent on the next.    *)
THEOREM QueueIsFresh == Spec => []FreshQueue
<1>1. RInv => FreshQueue
  BY DEF RInv, Replacement, Reported, Seeks, FreshQueue
<1> QED
  BY ReplacementInvariance, <1>1, PTL

(* No message is left in the publish queue of a connected client.          *)
THEOREM BacklogIsDrained == Spec => []BacklogDrained
<1>1. RInv => BacklogDrained
  BY DEF RInv, Replacement, Drained, BacklogDrained
<1> QED
  BY ReplacementInvariance, <1>1, PTL

(* The write thread never sleeps on a packet without a notify to come.     *)
THEOREM NoPacketIsLost == Spec => []NoLostPacket
<1>1. RInv => NoLostPacket
  BY DEF RInv, Replacement, Waiting
<1> QED
  BY ReplacementInvariance, <1>1, PTL

-----------------------------------------------------------------------------
(* The send queue *)


Data(q) == {i \in DOMAIN q : q[i] = "DATA"}

(* The packets at the places of q, after one was put at an end or taken    *)
LEMMA QueueEnds ==
  ASSUME NEW q \in Seq(Packets), NEW p \in Packets
  PROVE  /\ Len(q) \in Nat /\ DOMAIN q = 1 .. Len(q)
         /\ DOMAIN Append(q, p) = 1 .. Len(q) + 1 /\ Append(q, p)[Len(q) + 1] = p
         /\ \A i \in 1 .. Len(q) : Append(q, p)[i] = q[i]
         /\ DOMAIN (<<p>> \o q) = 1 .. Len(q) + 1 /\ (<<p>> \o q)[1] = p
         /\ \A i \in 2 .. Len(q) + 1 : (<<p>> \o q)[i] = q[i - 1]
         /\ q # <<>> => /\ DOMAIN Tail(q) = 1 .. Len(q) - 1
                        /\ \A i \in 1 .. Len(q) - 1 : Tail(q)[i] = q[i + 1]
<1>1. Len(q) \in Nat /\ DOMAIN q = 1 .. Len(q)
  BY LenProperties
<1>2. /\ DOMAIN Append(q, p) = 1 .. Len(q) + 1 /\ Append(q, p)[Len(q) + 1] = p
      /\ \A i \in 1 .. Len(q) : Append(q, p)[i] = q[i]
  BY <1>1
<1>3. /\ DOMAIN (<<p>> \o q) = 1 .. Len(q) + 1 /\ (<<p>> \o q)[1] = p
      /\ \A i \in 2 .. Len(q) + 1 : (<<p>> \o q)[i] = q[i - 1]
  BY <1>1
<1>4. q # <<>> => /\ DOMAIN Tail(q) = 1 .. Len(q) - 1
                  /\ \A i \in 1 .. Len(q) - 1 : Tail(q)[i] = q[i + 1]
  BY <1>1
<1> QED
  BY <1>1, <1>2, <1>3, <1>4

(* How many of the packets are DATA.                                       *)
LEMMA DataCount ==
  ASSUME NEW q \in Seq(Packets)
  PROVE  /\ IsFiniteSet(Data(q)) /\ Cardinality(Data(q)) \in Nat /\ Cardinality(Data(q)) =< Len(q)
         /\ Cardinality(Data(Append(q, "DATA"))) = Cardinality(Data(q)) + 1
         /\ \A p \in Packets \ {"DATA"} : Cardinality(Data(<<p>> \o q)) =< Cardinality(Data(q))
         /\ q # <<>> => Cardinality(Data(Tail(q))) =< Cardinality(Data(q))
<1> DEFINE L == Len(q)
           D == Data(q)
<1>1. L \in Nat /\ DOMAIN q = 1 .. L /\ "DATA" \in Packets
  BY LenProperties DEF Packets
<1>2. IsFiniteSet(1 .. L) /\ Cardinality(1 .. L) = L
  <2>1. 1 \in Int /\ L \in Int /\ (IF 1 > L THEN 0 ELSE L - 1 + 1) = L
    BY <1>1
  <2> HIDE DEF L
  <2> QED
    BY <2>1, FS_Interval
<1>3. D \in SUBSET (1 .. L)
  BY <1>1 DEF Data
<1> HIDE DEF D
<1>4. IsFiniteSet(D) /\ Cardinality(D) =< L /\ Cardinality(D) \in Nat
  BY <1>2, <1>3, FS_Subset, FS_CardinalityType
<1>5. Cardinality(Data(Append(q, "DATA"))) = Cardinality(D) + 1
  <2>1. Data(Append(q, "DATA")) = D \cup {L + 1}
    BY <1>1, QueueEnds DEF Data, D
  <2>2. L + 1 \notin D
    BY <1>1, <1>3
  <2> QED
    BY <1>4, <2>1, <2>2, FS_AddElement
<1>6. ASSUME NEW p \in Packets, p # "DATA" PROVE Cardinality(Data(<<p>> \o q)) =< Cardinality(D)
  <2> DEFINE E == Data(<<p>> \o q)
             f == [i \in E |-> i - 1]
  <2>1. \A i \in E : i \in Int /\ i - 1 \in D
    <3> SUFFICES ASSUME NEW i \in E PROVE i \in Int /\ i - 1 \in D
      OBVIOUS
    <3>1. i \in 1 .. L + 1 /\ (<<p>> \o q)[i] = "DATA"
      BY QueueEnds DEF Data
    <3>2. i # 1
      BY <1>6, <3>1, QueueEnds
    <3>3. i \in 2 .. L + 1 /\ i - 1 \in 1 .. L
      BY <1>1, <3>1, <3>2
    <3>4. q[i - 1] = "DATA"
      BY <3>1, <3>3, QueueEnds
    <3> QED
      BY <1>1, <3>3, <3>4 DEF Data, D
  <2> HIDE DEF E
  <2>2. f \in Injection(E, D)
    BY <2>1 DEF Injection, IsInjective
  <2> HIDE DEF f
  <2> QED
    BY <1>4, <2>2, FS_Injection DEF E
<1>7. ASSUME q # <<>> PROVE Cardinality(Data(Tail(q))) =< Cardinality(D)
  <2> DEFINE E == Data(Tail(q))
             f == [i \in E |-> i + 1]
  <2>1. \A i \in E : i \in Int /\ i + 1 \in D
    <3> SUFFICES ASSUME NEW i \in E PROVE i \in Int /\ i + 1 \in D
      OBVIOUS
    <3>1. i \in 1 .. L - 1 /\ Tail(q)[i] = "DATA"
      BY <1>1, <1>7, QueueEnds DEF Data
    <3>2. q[i + 1] = "DATA" /\ i + 1 \in 1 .. L
      BY <1>1, <1>7, <3>1, QueueEnds
    <3> QED
      BY <1>1, <3>1, <3>2 DEF Data, D
  <2> HIDE DEF E
  <2>2. f \in Injection(E, D)
    BY <2>1 DEF Injection, IsInjective
  <2> HIDE DEF f
  <2> QED
    BY <1>4, <2>2, FS_Injection DEF E
<1> QED
  BY <1>4, <1>5, <1>6, <1>7 DEF D

(* What a step does to the send queue                                      *)
LEMMA QueueSteps ==
  [Next]_vars =>
    \/ UNCHANGED queue
    \/ queue' = <<>>
    \/ queue # <<>> /\ queue' = Tail(queue)
    \/ Push
    \/ SendRestored
    \/ SendConnect
    \/ SendPingRequest
<1> USE DEF queueVars
<1>1. AppCall => UNCHANGED queue
  BY DEF AppCall, Connect, Disconnect, Publish, Subscribe, Unsubscribe, Call
<1>2. AppStep => UNCHANGED queue \/ queue' = <<>> \/ Push
  BY DEF AppStep, Construct, Assign, StopConnection, NotifyStop, JoinRead, JoinWrite, NotifyApp,
         Store, Branch, NotifyOne
<1>3. ConnectStep => UNCHANGED queue \/ SendConnect
  BY DEF ConnectStep, ReadSwitch, Backoff, SetResolving, SetBackoff, ReadStop, Resolve, ResolveFails,
         Resolved, SetConnecting, StillConnecting, ConnectFails, Connected, Adopt, Adopted,
         SetAuthenticating, NotifyConnect, Store, Branch, NotifyOne
<1>4. RecvStep => UNCHANGED queue \/ SendPingRequest \/ SendRestored
  BY DEF RecvStep, RecvAborted, RecvContinues, NotifyPing, RecvError, RecvPacket, RecvConnack,
         MessageReceived, SetConnected, ConnectionUp, RestoreSubscription, FlushPublish,
         NotifyRestore, RestoreRefused, RestoreDone, Store, Branch, NotifyOne
<1>5. \A t \in {"read", "write"} : ErrorStep(t) => UNCHANGED queue
  BY DEF ErrorStep, SetSocketError, CloseSocket, ResetSocket, Store
<1>6. LostStep => UNCHANGED queue \/ queue' = <<>>
  BY DEF LostStep, RecvFailed, SetBackoffAfterError, ConnectionDown, ClearSendQueue, Store, Branch
<1>7. WriteStep \/ SpuriousWakeup => UNCHANGED queue \/ (queue # <<>> /\ queue' = Tail(queue))
  BY <1>5 DEF WriteStep, SpuriousWakeup, WriteSwitch, Pop, CheckPredicate, Block, RecheckStopped,
         RecheckTakes, RecheckEmpty, TakePacket, SendPacket, EnterSend, SendCompletes, SendIsPartial,
         SendFails, WriteError, Branch
<1>8. UNCHANGED vars => UNCHANGED queue
  BY DEF vars
<1> QED
  BY <1>1, <1>2, <1>3, <1>4, <1>5, <1>6, <1>7, <1>8 DEF Next, ReadStep

(* Between the look at the size and the push, nobody else adds DATA: both  *)
(* who do hold m_state_mutex.                                              *)
Limited ==
  /\ Cardinality(Data(queue)) =< SendQueueSize + 1
  /\ pc.app = "push" => Cardinality(Data(queue)) =< SendQueueSize

(* A call comes to its push only when the queue is not full.               *)
LEMMA PushAllowed ==
  IInv /\ [Next]_vars /\ pc'.app = "push" =>
    /\ ~SendRestored /\ ~Push
    /\ pc.app = "push" \/ (UNCHANGED queue /\ ~QueueFull)
<1> SUFFICES ASSUME IInv, [Next]_vars, pc'.app = "push"
             PROVE  /\ ~SendRestored /\ ~Push
                    /\ pc.app = "push" \/ (UNCHANGED queue /\ ~QueueFull)
  OBVIOUS
<1> USE DEF IInv, TypeOK, Locking, Threads, Goto, Crashed, Crashes, AppLabels, ReadLabels
<1>1. ~Push
  BY DEF Push
<1>2. pc.app = "push" => ~SendRestored
  BY DEF SendRestored
<1>3. ASSUME pc.app # "push" PROVE UNCHANGED queue /\ ~QueueFull /\ AppCall
  <2>1. CASE AppCall
    BY <1>3, <2>1 DEF AppCall, Connect, Disconnect, Publish, Subscribe, Unsubscribe, Call, queueVars,
                      SendOrReconnect, BeginSend, BeginDisconnect
  <2>2. CASE AppStep
    BY <1>3, <2>2 DEF AppStep, Construct, Assign, StopConnection, NotifyStop, JoinRead, JoinWrite, Push,
                      NotifyApp, Store, Branch, NotifyOne, Notify
  <2>3. CASE ConnectStep
    BY <1>3, <2>3 DEF ConnectStep, ReadSwitch, Backoff, SetResolving, SetBackoff, ReadStop, Resolve,
                      ResolveFails, Resolved, SetConnecting, StillConnecting, ConnectFails, Connected,
                      Adopt, Adopted, SetAuthenticating, SendConnect, NotifyConnect, PushFront, Store,
                      Branch, NotifyOne, Notify
  <2>4. CASE RecvStep
    BY <1>3, <2>4 DEF RecvStep, RecvAborted, RecvContinues, SendPingRequest, NotifyPing, RecvError,
                      RecvPacket, RecvConnack, MessageReceived, SetConnected, ConnectionUp,
                      RestoreSubscription, FlushPublish, SendRestored, NotifyRestore, RestoreRefused,
                      RestoreDone, PushFront, Store, Branch, NotifyOne, Notify, Crash
  <2>5. CASE \E t \in {"read", "write"} : ErrorStep(t)
    BY <1>3, <2>5 DEF ErrorStep, SetSocketError, CloseSocket, ResetSocket, Store
  <2>6. CASE LostStep
    BY <1>3, <2>6 DEF LostStep, RecvFailed, SetBackoffAfterError, ConnectionDown, ClearSendQueue, Store,
                      Branch
  <2>7. CASE WriteStep \/ SpuriousWakeup
    BY <1>3, <2>5, <2>7 DEF WriteStep, SpuriousWakeup, WriteSwitch, Pop, CheckPredicate, Block,
                      RecheckStopped, RecheckTakes, RecheckEmpty, TakePacket, SendPacket, EnterSend,
                      SendCompletes, SendIsPartial, SendFails, WriteError, Branch, Crash
  <2>8. CASE UNCHANGED vars
    BY <1>3, <2>8 DEF vars
  <2> QED
    BY <2>1, <2>2, <2>3, <2>4, <2>5, <2>6, <2>7, <2>8 DEF Next, ReadStep
<1>4. AppCall => ~SendRestored
  BY DEF AppCall, Connect, Disconnect, Publish, Subscribe, Unsubscribe, Call, SendRestored
<1> QED
  BY <1>1, <1>2, <1>3, <1>4

(* Every step keeps the bound.                                             *)
LEMMA NextLimited == IInv /\ Limited /\ [Next]_vars => Limited'
<1> SUFFICES ASSUME IInv, Limited, [Next]_vars PROVE Limited'
  OBVIOUS
<1> DEFINE c == Cardinality(Data(queue))
<1>1. queue \in Seq(Packets) /\ c \in Nat /\ c =< Len(queue) /\ Len(queue) \in Nat /\ c =< SendQueueSize + 1
  BY DataCount, LenProperties DEF IInv, TypeOK, Limited
<1>2. pc.app = "push" => c =< SendQueueSize
  BY DEF Limited
<1>3. pc'.app = "push" => c =< SendQueueSize /\ ~SendRestored /\ ~Push
  BY <1>1, <1>2, PushAllowed DEF QueueFull
<1>4. ASSUME Cardinality(Data(queue')) =< c PROVE Limited'
  <2>1. Cardinality(Data(queue')) \in Nat
    BY DataCount, NextInv DEF IInv, TypeOK
  <2> HIDE DEF c
  <2> QED
    BY <1>1, <1>3, <1>4, <2>1 DEF Limited
<1>5. CASE UNCHANGED queue
  BY <1>1, <1>4, <1>5
<1>6. CASE queue' = <<>>
  <2>1. Data(<<>>) = {}
    BY DEF Data
  <2>2. Cardinality(Data(queue')) = 0
    BY <1>6, <2>1, FS_EmptySet
  <2> QED
    BY <1>1, <1>4, <2>2
<1>7. CASE queue # <<>> /\ queue' = Tail(queue)
  BY <1>1, <1>4, <1>7, DataCount
<1>8. CASE SendConnect \/ SendPingRequest
  <2>1. PICK p \in Packets \ {"DATA"} : queue' = <<p>> \o queue
    BY <1>8 DEF SendConnect, SendPingRequest, PushFront, Packets
  <2> QED
    BY <1>1, <1>4, <2>1, DataCount
<1>9. CASE Push \/ SendRestored
  <2>1. queue' = Append(queue, "DATA") /\ pc'.app # "push"
    BY <1>3, <1>9 DEF Push, SendRestored
  <2>2. c =< SendQueueSize
    BY <1>1, <1>2, <1>9 DEF Push, SendRestored, QueueFull
  <2>3. Cardinality(Data(queue')) = c + 1
    BY <1>1, <2>1, DataCount
  <2> HIDE DEF c
  <2> QED
    BY <1>1, <2>1, <2>2, <2>3 DEF Limited
<1> QED
  BY <1>5, <1>6, <1>7, <1>8, <1>9, QueueSteps

(* The unlocked look at the size of the send queue lets one packet over    *)
(* the limit in, never more.                                               *)
THEOREM DataIsBounded == Spec => []DataBounded
<1>1. Init => Limited
  <2> SUFFICES ASSUME Init PROVE Limited
    OBVIOUS
  <2>1. Data(queue) = {} /\ pc.app = "idle"
    BY DEF Init, Data
  <2> QED
    BY <2>1, FS_EmptySet DEF Limited
<1>2. Limited => DataBounded
  BY DEF Limited, DataBounded, Data
<1> QED
  BY <1>1, <1>2, NextLimited, Invariance, PTL DEF Spec

NoConnect(q) == \A i \in DOMAIN q : q[i] # "CONNECT"

(* Who looks for a connection has no CONNECT queued. *)
Single == OneConnectQueued /\ (Seeks => NoConnect(queue))

(* The read thread only begins to look for a connection with an empty      *)
(* queue: that of a new Connection, or the one that it has cleared.        *)
LEMMA SeekingBegins == RInv /\ [Next]_vars /\ Seeks' => Seeks \/ queue' = <<>>
<1> SUFFICES ASSUME RInv, [Next]_vars, Seeks' PROVE Seeks \/ queue' = <<>>
  OBVIOUS
<1> USE DEF RInv, Replacement, IInv, TypeOK, Locking, Crashed, Crashes, Goto, Threads, AppLabels,
            ReadLabels, WriteLabels, States, Online, Seeking, Receiving, Phase, Seeks, Reconnecting
<1>1. CASE AppCall
  BY <1>1 DEF AppCall, Connect, Disconnect, Publish, Subscribe, Unsubscribe, Call, SendOrReconnect,
              BeginSend, BeginDisconnect
<1>2. CASE AppStep
  BY <1>2 DEF AppStep, Construct, Assign, StopConnection, NotifyStop, JoinRead, JoinWrite, Push,
              NotifyApp, Store, Branch, NotifyOne, Notify
<1>3. CASE ConnectStep
  <2>1. CASE ReadSwitch
    BY <2>1 DEF ReadSwitch, CaseOf, Branch
  <2>2. CASE ~ReadSwitch
    BY <1>3, <2>2 DEF ConnectStep, Backoff, SetResolving, SetBackoff, ReadStop, Resolve, ResolveFails,
              Resolved, SetConnecting, StillConnecting, ConnectFails, Connected, Adopt, Adopted,
              SetAuthenticating, SendConnect, NotifyConnect, PushFront, Store, Branch, NotifyOne, Notify
  <2> QED
    BY <2>1, <2>2
<1>4. CASE RecvStep
  BY <1>4 DEF RecvStep, RecvAborted, RecvContinues, SendPingRequest, NotifyPing, RecvError,
              RecvPacket, RecvConnack, MessageReceived, SetConnected, ConnectionUp,
              RestoreSubscription, FlushPublish, SendRestored, NotifyRestore, RestoreRefused,
              RestoreDone, PushFront, Store, Branch, NotifyOne, Notify, Crash
<1>5. CASE \E t \in {"read", "write"} : ErrorStep(t)
  BY <1>5 DEF ErrorStep, SetSocketError, CloseSocket, ResetSocket, Store
<1>6. CASE LostStep
  BY <1>6 DEF LostStep, RecvFailed, SetBackoffAfterError, ConnectionDown, ClearSendQueue, Store, Branch
<1>7. CASE WriteStep \/ SpuriousWakeup
  BY <1>5, <1>7 DEF WriteStep, SpuriousWakeup, WriteSwitch, Pop, CheckPredicate, Block, RecheckStopped,
              RecheckTakes, RecheckEmpty, TakePacket, SendPacket, EnterSend, SendCompletes,
              SendIsPartial, SendFails, WriteError, Branch, Crash
<1>8. CASE UNCHANGED vars
  BY <1>8 DEF vars
<1> QED
  BY <1>1, <1>2, <1>3, <1>4, <1>5, <1>6, <1>7, <1>8 DEF Next, ReadStep

(* Every step keeps it.                                                    *)
LEMMA NextSingle == RInv /\ Single /\ [Next]_vars => Single'
<1> SUFFICES ASSUME RInv, Single, [Next]_vars PROVE Single'
  OBVIOUS
<1>1. queue \in Seq(Packets) /\ Len(queue) \in Nat /\ DOMAIN queue = 1 .. Len(queue)
  BY LenProperties DEF RInv, IInv, TypeOK
<1>2. Seeks' => Seeks \/ queue' = <<>>
  BY SeekingBegins
<1>3. CASE UNCHANGED queue
  BY <1>2, <1>3 DEF Single, OneConnectQueued, NoConnect
<1>4. CASE queue' = <<>>
  BY <1>4 DEF Single, OneConnectQueued, NoConnect
<1>5. CASE queue # <<>> /\ queue' = Tail(queue)
  <2>1. DOMAIN queue' = 1 .. Len(queue) - 1 /\ \A i \in 1 .. Len(queue) - 1 : queue'[i] = queue[i + 1]
    BY <1>1, <1>5
  <2>2. \A i \in DOMAIN queue' : i \in Int /\ i + 1 \in DOMAIN queue /\ queue'[i] = queue[i + 1]
    BY <1>1, <2>1
  <2>3. OneConnectQueued'
    <3> SUFFICES ASSUME NEW i \in DOMAIN queue', NEW j \in DOMAIN queue',
                        queue'[i] = "CONNECT", queue'[j] = "CONNECT"
                 PROVE  i = j
      BY DEF OneConnectQueued
    <3>1. i + 1 = j + 1
      BY <2>2 DEF Single, OneConnectQueued
    <3> QED
      BY <2>2, <3>1
  <2>4. NoConnect(queue) => NoConnect(queue')
    BY <2>2 DEF NoConnect
  <2>5. queue' = <<>> => NoConnect(queue')
    BY DEF NoConnect
  <2> QED
    BY <1>2, <2>3, <2>4, <2>5, Zenon DEF Single
<1>6. CASE Push \/ SendRestored
  <2>1. queue' = Append(queue, "DATA")
    BY <1>6 DEF Push, SendRestored
  <2>2. \A i \in DOMAIN queue' : queue'[i] = "CONNECT" => i \in DOMAIN queue /\ queue[i] = "CONNECT"
    BY <1>1, <2>1
  <2> QED
    BY <1>2, <2>2 DEF Single, OneConnectQueued, NoConnect
<1>7. CASE SendConnect
  <2>1. queue' = <<"CONNECT">> \o queue /\ pc.read = "sendConnect" /\ pc'.read = "notifyConnect"
    BY <1>7 DEF SendConnect, PushFront, Goto, RInv, IInv, TypeOK, Threads
  <2>2. NoConnect(queue) /\ ~Seeks'
    BY <2>1 DEF Single, Seeks, Reconnecting
  <2>3. DOMAIN queue' = 1 .. Len(queue) + 1 /\ \A i \in 2 .. Len(queue) + 1 : queue'[i] = queue[i - 1]
    BY <1>1, <2>1
  <2>4. \A i \in DOMAIN queue' : queue'[i] = "CONNECT" => i = 1
    <3> SUFFICES ASSUME NEW i \in DOMAIN queue', i # 1 PROVE queue'[i] # "CONNECT"
      OBVIOUS
    <3>1. i \in 2 .. Len(queue) + 1 /\ i - 1 \in DOMAIN queue
      BY <1>1, <2>3
    <3> QED
      BY <2>2, <2>3, <3>1 DEF NoConnect
  <2> QED
    BY <2>2, <2>4 DEF Single, OneConnectQueued
<1>8. CASE SendPingRequest
  <2>1. queue' = <<"PINGREQ">> \o queue
    BY <1>8 DEF SendPingRequest, PushFront
  <2>2. /\ DOMAIN queue' = 1 .. Len(queue) + 1 /\ queue'[1] = "PINGREQ"
        /\ \A i \in 2 .. Len(queue) + 1 : queue'[i] = queue[i - 1]
    BY <1>1, <2>1
  <2>3. \A i \in DOMAIN queue' : queue'[i] = "CONNECT" =>
          i \in Int /\ i - 1 \in DOMAIN queue /\ queue[i - 1] = "CONNECT"
    <3> SUFFICES ASSUME NEW i \in DOMAIN queue', queue'[i] = "CONNECT"
                 PROVE  i \in Int /\ i - 1 \in DOMAIN queue /\ queue[i - 1] = "CONNECT"
      OBVIOUS
    <3>1. i \in 2 .. Len(queue) + 1 /\ i - 1 \in DOMAIN queue /\ i \in Int
      BY <1>1, <2>2
    <3> QED
      BY <2>2, <3>1
  <2>4. OneConnectQueued'
    <3> SUFFICES ASSUME NEW i \in DOMAIN queue', NEW j \in DOMAIN queue',
                        queue'[i] = "CONNECT", queue'[j] = "CONNECT"
                 PROVE  i = j
      BY DEF OneConnectQueued
    <3>1. i - 1 = j - 1
      BY <2>3 DEF Single, OneConnectQueued
    <3> QED
      BY <2>3, <3>1
  <2>5. NoConnect(queue) => NoConnect(queue')
    BY <2>3 DEF NoConnect
  <2>6. queue' # <<>>
    BY <1>1, <2>1
  <2> QED
    BY <1>2, <2>4, <2>5, <2>6, Zenon DEF Single, NoConnect
<1> QED
  BY <1>3, <1>4, <1>5, <1>6, <1>7, <1>8, QueueSteps

(* Two connections never have their CONNECT queued at once: the queue is   *)
(* cleared before the next one is looked for.                              *)
THEOREM OneConnect == Spec => []OneConnectQueued
<1>1. Init => Single
  BY DEF Init, Single, OneConnectQueued, Seeks, Reconnecting, NoConnect
<1>2. Single => OneConnectQueued
  BY DEF Single
<1> QED
  BY <1>1, <1>2, NextSingle, ReplacementInvariance, PTL DEF Spec

-----------------------------------------------------------------------------
(* The calls of the application: connect() finds no thread left.           *)
LEMMA AppCallRefines == RInv /\ AppCall => [Abstract!Next]_(Abstract!vars)
<1> SUFFICES ASSUME RInv, AppCall PROVE [Abstract!Next]_(Abstract!vars)
  OBVIOUS
<1> USE DEF RInv, IInv, TypeOK, Threads, Goto, running, Abstract!Next, Abstract!vars
<1>1. CASE Connect
  BY <1>1 DEF Connect, Call, Ownership, Abstract!Connect
<1>2. CASE Disconnect
  BY <1>2 DEF Disconnect, Call, BeginDisconnect, Abstract!Disconnect
<1>3. CASE Publish
  BY <1>3 DEF Publish, Call, BeginSend
<1>4. CASE Subscribe
  BY <1>4 DEF Subscribe, Call, SendOrReconnect, BeginSend, BeginDisconnect
<1>5. CASE Unsubscribe
  BY <1>5 DEF Unsubscribe, Call, SendOrReconnect, BeginSend, BeginDisconnect
<1> QED
  BY <1>1, <1>2, <1>3, <1>4, <1>5 DEF AppCall

(* The constructor starts the threads; their end is the end of the joins.  *)
LEMMA AppStepRefines == RInv /\ AppStep => [Abstract!Next]_(Abstract!vars)
<1> SUFFICES ASSUME RInv, AppStep PROVE [Abstract!Next]_(Abstract!vars)
  OBVIOUS
<1> USE DEF RInv, IInv, TypeOK, Threads, Goto, running, Abstract!Next, Abstract!vars, clientVars
<1>1. CASE Construct
  BY <1>1 DEF Construct, Ownership, Abstract!Start
<1>2. CASE Assign \/ StopConnection \/ NotifyStop \/ JoinRead
  BY <1>2 DEF Assign, StopConnection, Store, NotifyStop, NotifyOne, Notify, JoinRead, Branch
<1>3. CASE JoinWrite \/ Push \/ NotifyApp
  BY <1>3 DEF JoinWrite, Push, NotifyApp, Notify
<1> QED
  BY <1>1, <1>2, <1>3 DEF AppStep

(* The last thread that ends does so for ~Connection.                      *)
LEMMA EndRefines == RInv /\ (ReadStop \/ WriteSwitch) => [Abstract!Next]_(Abstract!vars)
<1> SUFFICES ASSUME RInv, ReadStop \/ WriteSwitch PROVE [Abstract!Next]_(Abstract!vars)
  OBVIOUS
<1> USE DEF RInv, Replacement, Ending, TearingDown, IInv, TypeOK, Locking, Ownership, Crashed,
            Crashes, Threads, Goto, running, Online, AppLabels, Abstract!Next, Abstract!vars,
            Abstract!Join, clientVars
<1>1. CASE ReadStop
  BY <1>1 DEF ReadStop
<1>2. CASE WriteSwitch
  BY <1>2 DEF WriteSwitch, Branch
<1> QED
  BY <1>1, <1>2

(* The read thread reports to a client that wants a connection; its other  *)
(* steps are not seen.                                                     *)
LEMMA ReadStepRefines == RInv /\ ReadStep => [Abstract!Next]_(Abstract!vars)
<1> SUFFICES ASSUME RInv, ReadStep PROVE [Abstract!Next]_(Abstract!vars)
  OBVIOUS
<1> USE DEF RInv, IInv, TypeOK, Threads, Goto, running, Abstract!Next, Abstract!vars, clientVars
<1>1. CASE ConnectStep /\ ~ReadStop
  BY <1>1 DEF ConnectStep, ReadSwitch, CaseOf, States, Backoff, SetResolving, SetBackoff, Resolve,
              ResolveFails, Resolved, SetConnecting, StillConnecting, ConnectFails, Connected,
              Adopt, Adopted, SetAuthenticating, SendConnect, NotifyConnect, PushFront, Store,
              Branch, NotifyOne, Notify
<1>2. CASE ReadStop
  BY <1>2, EndRefines
<1>3. CASE ConnectionUp
  BY <1>3 DEF ConnectionUp, Locking, Ownership, Crashed, Crashes, ClientStates, Abstract!Report
<1>4. CASE ConnectionDown
  BY <1>4 DEF ConnectionDown, Locking, Ownership, Crashed, Crashes, ClientStates, Abstract!Report
<1>5. CASE RecvStep /\ ~ConnectionUp
  BY <1>5 DEF RecvStep, RecvAborted, RecvContinues, SendPingRequest, NotifyPing, RecvError,
              RecvPacket, RecvConnack, MessageReceived, SetConnected, RestoreSubscription,
              FlushPublish, SendRestored, NotifyRestore, RestoreRefused, RestoreDone, Crash,
              Crashes, PushFront, Store, Branch, NotifyOne, Notify
<1>6. CASE ErrorStep("read")
  BY <1>6 DEF ErrorStep, SetSocketError, CloseSocket, ResetSocket, Store
<1>7. CASE LostStep /\ ~ConnectionDown
  BY <1>7 DEF LostStep, RecvFailed, SetBackoffAfterError, ClearSendQueue, Store, Branch
<1> QED
  BY <1>1, <1>2, <1>3, <1>4, <1>5, <1>6, <1>7 DEF ReadStep, LostStep

(* The write thread only ends.                                             *)
LEMMA WriteStepRefines ==
  RInv /\ (WriteStep \/ SpuriousWakeup) => [Abstract!Next]_(Abstract!vars)
<1> SUFFICES ASSUME RInv, WriteStep \/ SpuriousWakeup PROVE [Abstract!Next]_(Abstract!vars)
  OBVIOUS
<1> USE DEF RInv, IInv, TypeOK, Threads, Goto, running, Abstract!vars, clientVars
<1>1. CASE WriteSwitch
  BY <1>1, EndRefines
<1>2. CASE Pop \/ CheckPredicate \/ Block \/ RecheckStopped \/ RecheckTakes \/ RecheckEmpty
  BY <1>2 DEF Pop, CheckPredicate, Block, RecheckStopped, RecheckTakes, RecheckEmpty, TakePacket,
              Crash, Crashes
<1>3. CASE SendPacket \/ EnterSend \/ SendCompletes \/ SendIsPartial \/ SendFails \/ WriteError
  BY <1>3 DEF SendPacket, EnterSend, SendCompletes, SendIsPartial, SendFails, WriteError, Branch,
              Crash, Crashes
<1>4. CASE ErrorStep("write")
  BY <1>4 DEF ErrorStep, SetSocketError, CloseSocket, ResetSocket, Store
<1>5. CASE SpuriousWakeup
  BY <1>5 DEF SpuriousWakeup, Branch
<1> QED
  BY <1>1, <1>2, <1>3, <1>4, <1>5 DEF WriteStep

(* Every step of the threads is a step of ClientLifecycle or none.         *)
LEMMA StepRefines == RInv /\ [Next]_vars => [Abstract!Next]_(Abstract!vars)
<1>1. UNCHANGED vars => UNCHANGED Abstract!vars
  BY DEF vars, clientVars, Abstract!vars, running
<1> QED
  BY <1>1, AppCallRefines, AppStepRefines, ReadStepRefines, WriteStepRefines DEF Next

(* The threads implement the life of a client.                             *)
THEOREM LifecycleImplemented == Spec => ImplementsLifecycle
<1>1. Init => Abstract!Init
  BY DEF Init, Abstract!Init, running
<1> QED
  BY <1>1, ReplacementInvariance, StepRefines, PTL DEF Spec, ImplementsLifecycle, Abstract!Spec

=============================================================================
