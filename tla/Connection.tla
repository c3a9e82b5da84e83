------------------------------ MODULE Connection ------------------------------
(***************************************************************************)
(* The threads of a TrueMQTT client: the application thread inside one of  *)
(* the API calls, and the read and write thread that a Connection object   *)
(* starts in its constructor and joins in its destructor.                  *)
(*                                                                         *)
(* Connection::m_state and Connection::m_socket are plain variables that   *)
(* all three threads read and write without a lock, so a step of this      *)
(* module makes one access to them (a test of m_socket and the close it    *)
(* guards are one), and what lies between two accesses is a label of pc.   *)
(* Code that runs under m_state_mutex or m_send_queue_mutex and touches    *)
(* only what that mutex protects is one step.  Topics, payloads and times  *)
(* are abstracted: a packet is CONNECT, PINGREQ or DATA (PUBLISH,          *)
(* SUBSCRIBE, UNSUBSCRIBE), a set of topics and the publish queue are      *)
(* their sizes, a timeout is a step that may happen, and connectToAny ends *)
(* in a connection or in a failure.                                        *)
(***************************************************************************)
EXTENDS Integers, Sequences, FiniteSets

CONSTANTS
  SendQueueSize,     (* m_send_queue_size                                   *)
  PublishQueueSize,  (* m_publish_queue_size; 0 stands for the type DROP    *)
  MaxTopics,         (* bound: topics subscribed to at the same time        *)
  MaxPings,          (* bound: PINGREQ packets waiting in the send queue    *)
  MaxCalls           (* bound: API calls the application makes              *)

ASSUME ConnectionAssumption ==
  /\ SendQueueSize \in Nat /\ PublishQueueSize \in Nat
  /\ MaxTopics \in Nat /\ MaxPings \in Nat /\ MaxCalls \in Nat

VARIABLES
  (* Client::Impl, protected by m_state_mutex *)
  state,         (* Client::Impl::m_state                                   *)
  mutex,         (* the thread that holds m_state_mutex, or "none"          *)
  m_connection,  (* whether the unique_ptr m_connection is set              *)
  topics,        (* size of m_subscription_topics                           *)
  backlog,       (* size of m_publish_queue                                 *)
  (* Connection *)
  cstate,        (* Connection::m_state                                     *)
  m_socket,      (* m_socket is INVALID_SOCKET, open, or closed by now      *)
  queue,         (* m_send_queue                                            *)
  qlock,         (* the write thread holds m_send_queue_mutex               *)
  (* the threads *)
  pc,            (* where each thread is                                    *)
  calls,         (* API calls the application may still make                *)
  again,         (* the destructor runs for a reconnect                     *)
  todo,          (* subscriptions still to restore in connectionStateChange *)
  packet,        (* packet the write thread popped                          *)
  stale,         (* the connection of the ::send in progress is closed      *)
  (* the broker *)
  session        (* what it received on the connection of m_socket          *)

clientVars == <<state, mutex, m_connection, topics, backlog>>
socketVars == <<m_socket, stale, session>>
queueVars  == <<queue, qlock>>
localVars  == <<calls, again, todo, packet>>
vars == <<clientVars, cstate, socketVars, queueVars, pc, localVars>>

-----------------------------------------------------------------------------
Threads == {"app", "read", "write"}
ClientStates == {"DISCONNECTED", "CONNECTING", "CONNECTED"}
States == {"RESOLVING", "CONNECTING", "AUTHENTICATING", "CONNECTED",
           "BACKOFF", "SOCKET_ERROR", "STOP"}
Online == {"AUTHENTICATING", "CONNECTED"}
Packets == {"CONNECT", "PINGREQ", "DATA"}

Crashes == {"selfJoin", "nullConnection", "emptyPop"}
AppLabels == Crashes \cup
  {"idle", "construct", "assign", "push", "notify",
   "stop", "notifyStop", "joinRead", "joinWrite"}
ReadLabels == Crashes \cup
  {"loop", "resolve", "getaddrinfo", "setBackoff", "setConnecting",
   "connectToAny", "connected", "adopted", "setAuth", "sendConnect",
   "notifyConnect", "recv", "ping", "notifyPing", "recvData", "recvFailed",
   "setConnected", "up", "restore", "notifyRestore", "deliver", "errState",
   "errClose", "errReset", "lost", "down", "clear", "backoff",
   "setResolving", "stop", "done"}
WriteLabels == Crashes \cup
  {"loop", "pop", "block", "wait", "woken", "recheck", "send", "write",
   "resume", "writing", "writeFailed", "errState", "errClose", "errReset", "done"}

IsPing(p) == p = "PINGREQ"

Goto(t, l) == pc' = [pc EXCEPT ![t] = l]

(* Thread t goes on at l after m_send_queue_cv.notify_one(). *)
Notify(t, l) ==
  pc' = [pc EXCEPT ![t] = l, !["write"] = IF @ = "wait" THEN "woken" ELSE @]

(* The process dies. *)
Crash(why) == pc' = [t \in Threads |-> why]
Crashed == pc.app \in Crashes

QueueFull_OffByOne == Len(queue) > SendQueueSize + 1

(* Connection::send refuses a packet without priority in this case. *)
QueueFull == Len(queue) > SendQueueSize

Init ==
  /\ state = "DISCONNECTED" /\ mutex = "none" /\ m_connection = FALSE
  /\ topics = 0 /\ backlog = 0
  /\ cstate = "STOP" /\ m_socket = "INVALID"
  /\ queue = <<>> /\ qlock = FALSE
  /\ pc = [app |-> "idle", read |-> "done", write |-> "done"]
  /\ calls = MaxCalls /\ again = FALSE
  /\ todo = 0 /\ packet = "DATA"
  /\ stale = FALSE /\ session = "none"

-----------------------------------------------------------------------------
(* The application thread: Client::connect, disconnect, publish, subscribe *)
(* and unsubscribe.  A call the client state forbids only logs an error.   *)

Call ==
  /\ pc.app = "idle"
  /\ calls > 0
  /\ mutex = "none"
  /\ calls' = calls - 1
  /\ UNCHANGED <<cstate, socketVars, queueVars, todo, packet>>

Connect ==
  /\ Call
  /\ state = "DISCONNECTED"
  /\ state' = "CONNECTING"
  /\ mutex' = "app"
  /\ Goto("app", "construct")
  /\ UNCHANGED <<m_connection, topics, backlog, again>>

(* Impl::connect: the constructor starts the threads of a fresh object ... *)
Construct ==
  /\ pc.app = "construct"
  /\ cstate' = "RESOLVING" /\ m_socket' = "INVALID"
  /\ queue' = <<>> /\ qlock' = FALSE
  /\ todo' = 0 /\ packet' = "DATA" /\ stale' = FALSE /\ session' = "none"
  /\ pc' = [app |-> "assign", read |-> "loop", write |-> "loop"]
  /\ UNCHANGED <<clientVars, calls, again>>

(* ... and only then is m_connection assigned, and the mutex released. *)
Assign ==
  /\ pc.app = "assign"
  /\ m_connection' = TRUE
  /\ mutex' = "none"
  /\ Goto("app", "idle")
  /\ UNCHANGED <<state, topics, backlog, cstate, socketVars, queueVars, localVars>>

(* Impl::disconnect: m_subscription_topics is not cleared, and reset()     *)
(* clears m_connection before it runs the destructor.                      *)
BeginDisconnect(reconnect) ==
  /\ backlog' = 0
  /\ m_connection' = FALSE
  /\ again' = reconnect
  /\ mutex' = "app"
  /\ Goto("app", "stop")

Disconnect ==
  /\ Call
  /\ state # "DISCONNECTED"
  /\ state' = "DISCONNECTED"
  /\ BeginDisconnect(FALSE)
  /\ UNCHANGED topics

(* An unconditional store to Connection::m_state on the way to label l. *)
Store(t, from, value, l) ==
  /\ pc[t] = from
  /\ cstate' = value
  /\ Goto(t, l)
  /\ UNCHANGED <<clientVars, socketVars, queueVars, localVars>>

(* A step that only decides where thread t goes on. *)
Branch(t, from, l) ==
  /\ pc[t] = from
  /\ Goto(t, l)
  /\ UNCHANGED <<clientVars, cstate, socketVars, queueVars, localVars>>

NotifyOne(t, from, l) ==
  /\ pc[t] = from
  /\ Notify(t, l)
  /\ UNCHANGED <<clientVars, cstate, socketVars, queueVars, localVars>>

(* ~Connection *)
StopConnection == Store("app", "stop", "STOP", "notifyStop")
NotifyStop     == NotifyOne("app", "notifyStop", "joinRead")
JoinRead_Forgotten == Branch("app", "joinRead", "joinWrite")
JoinRead       == pc.read = "done" /\ Branch("app", "joinRead", "joinWrite")

JoinWrite ==
  /\ pc.app = "joinWrite"
  /\ pc.write = "done"
  /\ IF again
       THEN Goto("app", "construct") /\ UNCHANGED mutex
       ELSE Goto("app", "idle") /\ mutex' = "none"
  /\ UNCHANGED <<state, m_connection, topics, backlog, cstate, socketVars,
                 queueVars, localVars>>

(* Connection::send without priority: the size is read before the queue is *)
(* locked, the packet is appended under its lock, and notified after it.   *)
BeginSend ==
  /\ mutex' = "app"
  /\ Goto("app", "push")
  /\ UNCHANGED <<backlog, m_connection, again>>

Push_WithoutNotify ==
  /\ pc.app = "push"
  /\ ~qlock
  /\ queue' = Append(queue, "DATA")
  /\ mutex' = "none"
  /\ Goto("app", "idle")
  /\ UNCHANGED <<state, m_connection, topics, backlog, cstate, socketVars, qlock, localVars>>

Push ==
  /\ pc.app = "push"
  /\ ~qlock
  /\ queue' = Append(queue, "DATA")
  /\ Goto("app", "notify")
  /\ UNCHANGED <<clientVars, cstate, socketVars, qlock, localVars>>

NotifyApp ==
  /\ pc.app = "notify"
  /\ Notify("app", "idle")
  /\ mutex' = "none"
  /\ UNCHANGED <<state, m_connection, topics, backlog, cstate, socketVars,
                 queueVars, localVars>>

Publish_OverLimit ==
  /\ Call
  /\ state = "CONNECTING"
  /\ backlog' = IF backlog =< PublishQueueSize THEN backlog + 1 ELSE backlog
  /\ UNCHANGED <<state, topics, mutex, m_connection, again, pc>>

(* Client::publish; a full publish queue loses one message for the new one *)
Publish ==
  /\ Call
  /\ \/ /\ state = "CONNECTING"
        /\ backlog' = IF backlog < PublishQueueSize THEN backlog + 1 ELSE backlog
        /\ UNCHANGED <<mutex, m_connection, again, pc>>
     \/ /\ state = "CONNECTED"
        /\ ~QueueFull
        /\ BeginSend
  /\ UNCHANGED <<state, topics>>

(* The end of Client::subscribe and unsubscribe: a packet that the send    *)
(* queue refuses makes the call tear down the connection and start a new   *)
(* one, while Client::Impl::m_state stays CONNECTED.                       *)
SendOrReconnect ==
  \/ state = "CONNECTING" /\ UNCHANGED <<mutex, m_connection, backlog, again, pc>>
  \/ state = "CONNECTED" /\ QueueFull /\ BeginDisconnect(TRUE)
  \/ state = "CONNECTED" /\ ~QueueFull /\ BeginSend

Subscribe ==
  /\ Call
  /\ \/ topics < MaxTopics /\ topics' = topics + 1
     \/ topics > 0 /\ topics' = topics
  /\ SendOrReconnect
  /\ UNCHANGED state

Unsubscribe ==
  /\ Call
  /\ topics > 0
  /\ topics' = topics - 1
  /\ SendOrReconnect
  /\ UNCHANGED state

-----------------------------------------------------------------------------
(* The read thread: Connection::runRead.                                   *)

CaseOf ==
  [RESOLVING |-> "resolve", CONNECTING |-> "connectToAny", BACKOFF |-> "backoff",
   AUTHENTICATING |-> "recv", CONNECTED |-> "recv", SOCKET_ERROR |-> "lost",
   STOP |-> "stop"]

ReadSwitch == Branch("read", "loop", CaseOf[cstate])

Backoff_KeepsState == Branch("read", "backoff", "loop")

(* case BACKOFF, after the sleep *)
Backoff      == Branch("read", "backoff", IF cstate = "STOP" THEN "loop" ELSE "setResolving")
SetResolving == Store("read", "setResolving", "RESOLVING", "loop")

(* resolve() or connectToAny() returned false *)
SetBackoff == Store("read", "setBackoff", "BACKOFF", "loop")

(* A store to m_socket, or a close of it.  A ::send in progress goes on    *)
(* with the connection it started with.                                    *)
SetSocket(value) == m_socket' = value /\ stale' = TRUE

(* case STOP: the last thing the read thread does *)
ReadStop ==
  /\ pc.read = "stop"
  /\ SetSocket("INVALID")
  /\ Goto("read", "done")
  /\ UNCHANGED <<clientVars, cstate, session, queueVars, localVars>>

(* resolve() forgets m_socket, whatever it is, before it asks the resolver *)
Resolve ==
  /\ pc.read = "resolve"
  /\ SetSocket("INVALID")
  /\ Goto("read", "getaddrinfo")
  /\ UNCHANGED <<clientVars, cstate, session, queueVars, localVars>>

ResolveFails  == Branch("read", "getaddrinfo", "setBackoff")
Resolved      == Branch("read", "getaddrinfo", IF cstate = "STOP" THEN "loop" ELSE "setConnecting")
SetConnecting == Store("read", "setConnecting", "CONNECTING", "loop")

(* connectToAny(): no connection yet, or STOP was seen after select() ... *)
StillConnecting == Branch("read", "connectToAny", "loop")
(* ... every address failed (the state is not looked at), or a timeout ... *)
ConnectFails    == Branch("read", "connectToAny", "setBackoff")
(* ... or a socket is connected: it becomes m_socket. *)
Connected       == cstate # "STOP" /\ Branch("read", "connectToAny", "connected")

Adopt ==
  /\ pc.read = "connected"
  /\ SetSocket("open")
  /\ session' = "none"
  /\ Goto("read", "adopted")
  /\ UNCHANGED <<clientVars, cstate, queueVars, localVars>>

Adopted == Branch("read", "adopted", IF cstate = "STOP" THEN "loop" ELSE "setAuth")
SetAuthenticating == Store("read", "setAuth", "AUTHENTICATING", "sendConnect")

(* Connection::send with priority never refuses a packet *)
PushFront(from, p, l) ==
  /\ pc.read = from
  /\ ~qlock
  /\ queue' = <<p>> \o queue
  /\ Goto("read", l)
  /\ UNCHANGED <<clientVars, cstate, socketVars, qlock, localVars>>

SendConnect   == PushFront("sendConnect", "CONNECT", "notifyConnect")
NotifyConnect_Forgotten == Branch("read", "notifyConnect", "loop")
NotifyConnect == NotifyOne("read", "notifyConnect", "loop")

-----------------------------------------------------------------------------
(* The read thread inside recvLoop() and recv().                           *)

(* select() returned, and the state says to give up ... *)
RecvAborted ==
  /\ cstate \in {"SOCKET_ERROR", "STOP"}
  /\ Branch("read", "recv", "recvFailed")

(* ... or there is nothing to read, and it may be time for a PINGREQ; or   *)
(* nothing came for 1.5 keep-alive intervals; or there is data (a closed   *)
(* socket always has).                                                     *)
RecvContinues ==
  /\ cstate \notin {"SOCKET_ERROR", "STOP"}
  /\ \/ /\ Len(SelectSeq(queue, IsPing)) < MaxPings
        /\ Branch("read", "recv", "ping")
     \/ \E l \in {"recvFailed", "recvData"} : Branch("read", "recv", l)

SendPingRequest == PushFront("ping", "PINGREQ", "notifyPing")

NotifyPing ==
  \E l \in {"recv", "recvFailed", "recvData"} : NotifyOne("read", "notifyPing", l)

(* ::recv() fails or the packet is malformed, unexpected or a refusal ... *)
RecvError == Branch("read", "recvData", "recvFailed")

(* ... or it returns a part of a packet, a whole PUBLISH, or the rest.     *)
RecvPacket ==
  /\ m_socket = "open"
  /\ session = "up"
  /\ \E l \in {"recv", "deliver", "loop"} : Branch("read", "recvData", l)

RecvConnack ==
  /\ pc.read = "recvData"
  /\ m_socket = "open"
  /\ session = "connect"
  /\ session' = "up"
  /\ Goto("read", "setConnected")
  /\ UNCHANGED <<clientVars, cstate, m_socket, stale, queueVars, localVars>>

(* Impl::messageReceived *)
MessageReceived == mutex = "none" /\ Branch("read", "deliver", "loop")

SetConnected == Store("read", "setConnected", "CONNECTED", "up")

(* Impl::connectionStateChange(true): the subscriptions are sent again and *)
(* the publish queue is flushed, all of it under m_state_mutex.            *)
ConnectionUp ==
  /\ pc.read = "up"
  /\ mutex = "none"
  /\ mutex' = "read"
  /\ state' = "CONNECTED"
  /\ todo' = topics
  /\ Goto("read", "restore")
  /\ UNCHANGED <<m_connection, topics, backlog, cstate, socketVars, queueVars,
                 calls, again, packet>>

SendRestored ==
  /\ pc.read = "restore"
  /\ ~QueueFull
  /\ ~qlock
  /\ queue' = Append(queue, "DATA")
  /\ Goto("read", "notifyRestore")
  /\ UNCHANGED <<state, mutex, m_connection, topics, cstate, socketVars, qlock,
                 calls, again, packet>>

RestoreSubscription ==
  /\ todo > 0
  /\ todo' = todo - 1
  /\ SendRestored
  /\ UNCHANGED backlog

FlushPublish ==
  /\ todo = 0
  /\ backlog > 0
  /\ backlog' = backlog - 1
  /\ SendRestored
  /\ UNCHANGED todo

NotifyRestore == NotifyOne("read", "notifyRestore", "restore")

(* A refused SUBSCRIBE: the read thread runs ~Connection and joins itself, *)
(* which std::thread::join reports by an exception, in a destructor.       *)
RestoreRefused ==
  /\ pc.read = "restore"
  /\ todo > 0
  /\ QueueFull
  /\ Crash("selfJoin")
  /\ UNCHANGED <<clientVars, cstate, socketVars, queueVars, localVars>>

RestoreDone_KeepsBacklog ==
  /\ pc.read = "restore"
  /\ todo = 0
  /\ backlog = 0 \/ QueueFull
  /\ mutex' = "none"
  /\ Goto("read", "loop")
  /\ UNCHANGED <<state, m_connection, topics, backlog, cstate, socketVars, queueVars, localVars>>

RestoreDone ==
  /\ pc.read = "restore"
  /\ todo = 0
  /\ backlog = 0 \/ QueueFull
  /\ backlog' = 0
  /\ mutex' = "none"
  /\ Goto("read", "loop")
  /\ UNCHANGED <<state, m_connection, topics, cstate, socketVars, queueVars, localVars>>

-----------------------------------------------------------------------------
(* Errors: socketError(), run by either thread, and case SOCKET_ERROR.     *)

RecvFailed == Branch("read", "recvFailed", IF cstate = "STOP" THEN "loop" ELSE "errState")

SetSocketError(t) == Store(t, "errState", "SOCKET_ERROR", "errClose")

CloseSocket(t) ==
  /\ pc[t] = "errClose"
  /\ IF m_socket = "INVALID"
       THEN Goto(t, "loop") /\ UNCHANGED <<m_socket, stale>>
       ELSE Goto(t, "errReset") /\ SetSocket("closed")
  /\ UNCHANGED <<clientVars, cstate, session, queueVars, localVars>>

ResetSocket(t) ==
  /\ pc[t] = "errReset"
  /\ SetSocket("INVALID")
  /\ Goto(t, "loop")
  /\ UNCHANGED <<clientVars, cstate, session, queueVars, localVars>>

SetBackoffAfterError_Silent == Store("read", "lost", "BACKOFF", "clear")
SetBackoffAfterError == Store("read", "lost", "BACKOFF", "down")

ConnectionDown_Unlocked ==
  /\ pc.read = "down"
  /\ state' = "CONNECTING"
  /\ Goto("read", "clear")
  /\ UNCHANGED <<mutex, m_connection, topics, backlog, cstate, socketVars,
                 queueVars, localVars>>

(* Impl::connectionStateChange(false) *)
ConnectionDown ==
  /\ pc.read = "down"
  /\ mutex = "none"
  /\ state' = "CONNECTING"
  /\ Goto("read", "clear")
  /\ UNCHANGED <<mutex, m_connection, topics, backlog, cstate, socketVars,
                 queueVars, localVars>>

ClearSendQueue_Forgotten == Branch("read", "clear", "loop")

ClearSendQueue ==
  /\ pc.read = "clear"
  /\ ~qlock
  /\ queue' = <<>>
  /\ Goto("read", "loop")
  /\ UNCHANGED <<clientVars, cstate, socketVars, qlock, localVars>>

-----------------------------------------------------------------------------
(* The write thread: runWrite, popSendQueueBlocking and sendPacket.        *)

(* In any other state it sleeps and looks again, which is no step.         *)
WriteSwitch ==
  \/ cstate \in Online /\ Branch("write", "loop", "pop")
  \/ cstate = "STOP" /\ Branch("write", "loop", "done")

TakePacket ==
  /\ queue # <<>>
  /\ packet' = Head(queue)
  /\ queue' = Tail(queue)
  /\ qlock' = FALSE
  /\ Goto("write", "send")
  /\ UNCHANGED <<clientVars, cstate, socketVars, calls, again, todo>>

Pop ==
  /\ pc.write = "pop"
  /\ ~qlock
  /\ TakePacket

(* The predicate of cv.wait, evaluated with the queue locked ... *)
CheckPredicate ==
  /\ \/ pc.write = "pop" /\ queue = <<>>
     \/ pc.write = "woken"
  /\ ~qlock
  /\ qlock' = TRUE
  /\ Goto("write", IF queue # <<>> \/ cstate = "STOP" THEN "recheck" ELSE "block")
  /\ UNCHANGED <<clientVars, cstate, socketVars, queue, localVars>>

(* ... and only after that does the thread wait, and release the lock.     *)
Block ==
  /\ pc.write = "block"
  /\ qlock' = FALSE
  /\ Goto("write", "wait")
  /\ UNCHANGED <<clientVars, cstate, socketVars, queue, localVars>>

SpuriousWakeup == Branch("write", "wait", "woken")

RecheckStopped ==
  /\ pc.write = "recheck"
  /\ cstate = "STOP"
  /\ qlock' = FALSE
  /\ Goto("write", "loop")
  /\ UNCHANGED <<clientVars, cstate, socketVars, queue, localVars>>

RecheckTakes ==
  /\ pc.write = "recheck"
  /\ cstate # "STOP"
  /\ TakePacket

(* STOP ended the wait and has been overwritten since: front() of an empty *)
(* queue.                                                                  *)
RecheckEmpty ==
  /\ pc.write = "recheck"
  /\ cstate # "STOP"
  /\ queue = <<>>
  /\ Crash("emptyPop")
  /\ UNCHANGED <<clientVars, cstate, socketVars, queueVars, localVars>>

SendPacket == Branch("write", "send", IF cstate \in Online THEN "write" ELSE "loop")

(* ::send(m_socket, ...), which goes on with the connection it started     *)
(* with.  A packet that is resumed after m_socket changed reaches a broker *)
(* that has not seen its beginning.                                        *)
EnterSend ==
  /\ pc.write \in {"write", "resume"}
  /\ IF m_socket = "open"
       THEN /\ Goto("write", "writing")
            /\ stale' = FALSE
            /\ session' = IF pc.write = "resume" /\ stale THEN "bad" ELSE session
       ELSE /\ Goto("write", "writeFailed")
            /\ UNCHANGED <<stale, session>>
  /\ UNCHANGED <<clientVars, cstate, m_socket, queueVars, localVars>>

(* What a broker makes of a packet: a session starts with its only CONNECT *)
Received(p) ==
  CASE session = "bad" -> "bad"
    [] session = "none" -> IF p = "CONNECT" THEN "connect" ELSE "bad"
    [] OTHER -> IF p = "CONNECT" THEN "bad" ELSE session

SendCompletes ==
  /\ pc.write = "writing"
  /\ session' = IF stale THEN session ELSE Received(packet)
  /\ Goto("write", "loop")
  /\ UNCHANGED <<clientVars, cstate, m_socket, stale, queueVars, localVars>>

SendIsPartial == Branch("write", "writing", "resume")
SendFails     == Branch("write", "writing", "writeFailed")

(* m_impl.m_connection->socketError(), with m_state_mutex not held *)
WriteError ==
  /\ pc.write = "writeFailed"
  /\ IF m_connection THEN Goto("write", "errState") ELSE Crash("nullConnection")
  /\ UNCHANGED <<clientVars, cstate, socketVars, queueVars, localVars>>

-----------------------------------------------------------------------------
AppCall == Connect \/ Disconnect \/ Publish \/ Subscribe \/ Unsubscribe

AppStep ==
  \/ Construct \/ Assign \/ StopConnection \/ NotifyStop \/ JoinRead \/ JoinWrite
  \/ Push \/ NotifyApp

ConnectStep ==
  \/ ReadSwitch \/ Backoff \/ SetResolving \/ SetBackoff \/ ReadStop
  \/ Resolve \/ ResolveFails \/ Resolved \/ SetConnecting
  \/ StillConnecting \/ ConnectFails \/ Connected \/ Adopt \/ Adopted
  \/ SetAuthenticating \/ SendConnect \/ NotifyConnect

RecvStep ==
  \/ RecvAborted \/ RecvContinues \/ SendPingRequest \/ NotifyPing
  \/ RecvError \/ RecvPacket \/ RecvConnack \/ MessageReceived \/ SetConnected
  \/ ConnectionUp \/ RestoreSubscription \/ FlushPublish \/ NotifyRestore
  \/ RestoreRefused \/ RestoreDone

ErrorStep(t) == SetSocketError(t) \/ CloseSocket(t) \/ ResetSocket(t)

LostStep == RecvFailed \/ SetBackoffAfterError \/ ConnectionDown \/ ClearSendQueue

ReadStep == ConnectStep \/ RecvStep \/ ErrorStep("read") \/ LostStep

WriteStep ==
  \/ WriteSwitch \/ Pop \/ CheckPredicate \/ Block
  \/ RecheckStopped \/ RecheckTakes \/ RecheckEmpty \/ SendPacket
  \/ EnterSend \/ SendCompletes \/ SendIsPartial \/ SendFails \/ WriteError
  \/ ErrorStep("write")

Next == AppCall \/ AppStep \/ ReadStep \/ WriteStep \/ SpuriousWakeup

Spec == Init /\ [][Next]_vars

(* Each thread goes on when it can, system calls return, and a thread that  *)
(* waits for a mutex which is free again and again gets it (SF).  A packet  *)
(* has finitely many bytes, so it is not sent in parts for ever.  Nothing   *)
(* makes the application call, or a condition variable wake up spuriously.  *)
FairSpec ==
  /\ Spec
  /\ SF_vars(AppStep) /\ SF_vars(ReadStep) /\ WF_vars(WriteStep)
  /\ SF_vars(SendCompletes \/ SendFails)

-----------------------------------------------------------------------------
TypeOK ==
  /\ state \in ClientStates
  /\ mutex \in {"none", "app", "read"}
  /\ m_connection \in BOOLEAN
  /\ topics \in 0 .. MaxTopics /\ backlog \in 0 .. PublishQueueSize
  /\ cstate \in States
  /\ m_socket \in {"INVALID", "open", "closed"}
  /\ queue \in Seq(Packets) /\ qlock \in BOOLEAN
  /\ pc \in [Threads -> AppLabels \cup ReadLabels \cup WriteLabels]
  /\ pc.app \in AppLabels /\ pc.read \in ReadLabels /\ pc.write \in WriteLabels
  /\ calls \in 0 .. MaxCalls /\ again \in BOOLEAN
  /\ todo \in 0 .. MaxTopics /\ packet \in Packets
  /\ stale \in BOOLEAN /\ session \in {"none", "connect", "up", "bad"}

(* With m_state_mutex free, a client that is not DISCONNECTED owns a       *)
(* Connection; a client that is DISCONNECTED has none, and no thread of    *)
(* the last one is left, as Impl::disconnect joins both.                   *)
Lifecycle ==
  ~Crashed /\ mutex # "app" =>
    IF state = "DISCONNECTED"
      THEN ~m_connection /\ pc.read = "done" /\ pc.write = "done"
      ELSE m_connection

(* Only Client::connect leaves DISCONNECTED: the connectionStateChange of  *)
(* a read thread that is on its way out never brings a client back.        *)
NoResurrection ==
  [][state = "DISCONNECTED" /\ state' # state => pc'.app = "construct"]_state

(* The threads of a Connection exist. *)
running == pc.read # "done" \/ pc.write # "done"

Abstract == INSTANCE ClientLifecycle WITH state <- state, running <- running

(* The threads, with their locks, joins and unlocked accesses, implement   *)
(* the life of a client that ClientLifecycle promises: the Connection of   *)
(* an earlier life never reports to the next one, and its threads are gone *)
(* before those of the next Connection start.                              *)
ImplementsLifecycle == Abstract!Spec

(* The read thread is looking for a connection. *)
Reconnecting ==
  pc.read \in {"backoff", "setResolving", "resolve", "getaddrinfo", "setBackoff",
               "setConnecting", "connectToAny", "connected", "adopted", "setAuth",
               "sendConnect"}

(* While a lost connection is replaced, the client is not CONNECTED, so    *)
(* that publish() queues and subscribe() waits: connectionStateChange runs *)
(* before the next attempt, whichever thread saw the error first.          *)
ConnectingIsReported == Reconnecting /\ ~again => state # "CONNECTED"

(* Nothing that was queued for the lost connection is left for the next:   *)
(* the queue is cleared after m_state is CONNECTING, so that no publish()  *)
(* comes in between, and before the next attempt.                          *)
FreshQueue == Reconnecting /\ state = "CONNECTING" => queue = <<>>

(* Two connections never have their CONNECT in the send queue at once.     *)
OneConnectQueued ==
  \A i, j \in DOMAIN queue : queue[i] = "CONNECT" /\ queue[j] = "CONNECT" => i = j

(* A message the application published while connecting is not left in the *)
(* publish queue behind messages that are published once connected.        *)
BacklogDrained == state = "CONNECTED" /\ mutex = "none" => backlog = 0

(* The write thread does not sleep on a packet that nobody is about to     *)
(* notify it of: the lost wakeup that popSendQueueBlocking must not have.  *)
NoLostPacket ==
  pc.write = "wait" /\ queue # <<>> =>
    \/ pc.app = "notify"
    \/ pc.read \in {"notifyConnect", "notifyPing", "notifyRestore"}

(* Unlocked reads of the size of the send queue never let more than one    *)
(* packet over the limit in, whoever pushes and whatever is popped.        *)
DataBounded == Cardinality({i \in DOMAIN queue : queue[i] = "DATA"}) =< SendQueueSize + 1

TearingDown == pc.app \in {"stop", "notifyStop", "joinRead", "joinWrite"}

(* A packet in the send queue of a connection that stays up is taken out.  *)
QueueServed ==
  queue # <<>> /\ cstate \in Online ~>
    pc.write = "send" \/ cstate \notin Online \/ TearingDown \/ Crashed

(* A lost connection leads to a new attempt, unless the client disconnects. *)
Reconnects ==
  pc.read = "lost" ~> pc.read = "getaddrinfo" \/ TearingDown \/ Crashed

(* What the header and the comments of the code promise, and the code does *)
(* not keep:                                                               *)

(* disconnect() "can stall for a short moment", but it returns.            *)
DisconnectReturns == TearingDown ~> pc.app = "idle" \/ Crashed

(* "Closing connection to broker and trying again": a SUBSCRIBE that does  *)
(* not fit the send queue during the restore does not end the process.     *)
RestoreSurvives == pc.app # "selfJoin"

(* "The client is (re)connecting to a broker": CONNECTING, and never       *)
(* CONNECTED, is what the client is while it looks for a connection.       *)
ReconnectingIsNotConnected == Reconnecting => state # "CONNECTED"

=============================================================================
