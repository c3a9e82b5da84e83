------------------------------- MODULE Connector -------------------------------
(***************************************************************************)
(* How the read thread gets a connection: resolve(), connectToAny() with   *)
(* its pending sockets, and the time between two attempts.  And how the    *)
(* two threads end one: socketError() is called by both, without a lock.   *)
(*                                                                         *)
(* An address is its index in the result of getaddrinfo, a descriptor is a *)
(* number that the system gives out again once it is closed, and the time  *)
(* since the last attempt is counted in periods of the select() call.      *)
(* Between select() and the look at what it returned the network goes on,  *)
(* and ~Connection may store STOP at any moment.                           *)
(*                                                                         *)
(* A ::send() may block for longer than everything the read thread does:   *)
(* the write thread can still be in sendPacket() of a connection that      *)
(* ended, or in its socketError(), when resolve() begins the next one.     *)
(* What it does then is in the model; "outlived" says that it happened.    *)
(***************************************************************************)
EXTENDS Integers, Sequences, SequencesExt, FiniteSetsExt

CONSTANTS
  Lookups,     (* results of getaddrinfo: sequences of "IPv4", "IPv6", "other" *)
  Stagger,     (* 250 ms, in periods of select()                            *)
  ConnectTimeout,  (* m_connection_timeout, likewise                        *)
  Backoff,     (* m_connection_backoff                                      *)
  BackoffMax,  (* m_connection_backoff_max                                  *)
  MaxOpen      (* bound: descriptors that are open at once                  *)

ASSUME ConnectorAssumption ==
  /\ \A l \in Lookups : l \in Seq({"IPv4", "IPv6", "other"})
  /\ Stagger \in Nat /\ ConnectTimeout \in Nat
  /\ Backoff \in Nat /\ BackoffMax \in Nat /\ MaxOpen \in Nat

VARIABLES
  cstate,               (* Connection::m_state; AUTHENTICATING stands for   *)
                        (* CONNECTED too                                    *)
  pc,                   (* where the read thread is                         *)
  stopped,              (* ~Connection has stored STOP                      *)
  m_host_resolved,      (* the result of getaddrinfo that is not freed      *)
  m_addresses,          (* the addresses to try, in this order              *)
  m_address_current,    (* how many of them were tried                      *)
  attempt,              (* time since m_last_attempt                        *)
  m_sockets,            (* descriptors of the pending attempts              *)
  m_socket_to_address,  (* and the address of each                          *)
  writable,             (* write_fds, as select() left them                 *)
  m_socket,             (* the connection                                   *)
  m_backoff,            (* how long the next sleep is                       *)
  fds,                  (* the open descriptors, and how far each one is    *)
  accepting,            (* addresses that accept within a period of select(), *)
                        (* in this round                                    *)
  wpc,                  (* where the write thread is                        *)
  held,                 (* the descriptor that it is about to close         *)
  outlived              (* it was sending, or in socketError(), when some   *)
                        (* resolve() began                                  *)

addressVars == <<m_host_resolved, m_addresses>>
socketVars  == <<m_sockets, m_socket_to_address, writable, fds>>
writeVars   == <<wpc, held, outlived>>
connectorVars ==
  <<cstate, pc, stopped, addressVars, m_address_current, attempt, socketVars, m_socket,
    m_backoff, accepting, writeVars>>

INVALID_SOCKET == -1
NoSockets == <<>>   (* an empty std::map *)

ConnectorInit ==
  /\ cstate = "RESOLVING" /\ pc = "loop" /\ stopped = FALSE
  /\ m_host_resolved = <<>> /\ m_addresses = <<>> /\ m_address_current = 0
  /\ attempt = 0
  /\ m_sockets = <<>> /\ m_socket_to_address = NoSockets /\ writable = {}
  /\ m_socket = INVALID_SOCKET /\ m_backoff = Backoff
  /\ fds = NoSockets /\ accepting = {}
  /\ wpc = "idle" /\ held = INVALID_SOCKET /\ outlived = FALSE

(* ~Connection stores STOP, whatever the read thread is doing. *)
Stop ==
  /\ ~stopped
  /\ stopped' = TRUE
  /\ cstate' = "STOP"
  /\ UNCHANGED <<pc, addressVars, m_address_current, attempt, socketVars, m_socket, m_backoff,
                 accepting, writeVars>>

In(state) == pc = "loop" /\ cstate = state

-----------------------------------------------------------------------------
(* resolve() *)

(* The elements of the sequence s that are in S, in order *)
OnlyIn(s, S) ==
  LET Kept[n \in 0 .. Len(s)] ==
        IF n = 0 THEN <<>>
        ELSE IF s[n] \in S THEN Append(Kept[n - 1], s[n]) ELSE Kept[n - 1]
  IN Kept[Len(s)]

(* The addresses of a result that belong to a family, in order *)
OfFamily(result, family) ==
  OnlyIn([i \in 1 .. Len(result) |-> i], {i \in 1 .. Len(result) : result[i] = family})

Interweave_Appended(result) == OfFamily(result, "IPv6") \o OfFamily(result, "IPv4")

(* A round of the loop takes the next IPv6 and the next IPv4 address. *)
Interweave(result) ==
  LET six  == OfFamily(result, "IPv6")
      four == OfFamily(result, "IPv4")
      Nth(s, n) == IF n =< Len(s) THEN <<s[n]>> ELSE <<>>
      Rounds[n \in 0 .. Len(result)] ==
        IF n = 0 THEN <<>> ELSE Rounds[n - 1] \o Nth(six, n) \o Nth(four, n)
  IN Rounds[Len(result)]

(* The write thread is sending, or in the socketError() of a send.  A wait *)
(* for the next packet, or the sleep of a state without a connection, is   *)
(* "idle".                                                                 *)
Busy == wpc \notin {"idle", "done"}

(* What an addrinfo pointer is when its list was freed *)
Freed == 0

(* What was resolved before is freed, and m_socket forgotten; the pending  *)
(* attempts, if there are any, are not.                                    *)
Resolve ==
  /\ In("RESOLVING")
  /\ pc' = "getaddrinfo"
  /\ m_address_current' = 0 /\ m_socket' = INVALID_SOCKET
  /\ m_addresses' = <<>> /\ m_host_resolved' = <<>>
  /\ m_socket_to_address' = [s \in DOMAIN m_socket_to_address |-> Freed]
  /\ outlived' = (outlived \/ Busy)
  /\ UNCHANGED <<cstate, stopped, attempt, m_sockets, writable, fds, m_backoff, accepting, wpc, held>>

(* The error callback is called with HOSTNAME_LOOKUP_FAILED: no result, or *)
(* none of a family that is known.                                         *)
LookupFails(result) ==
  /\ pc = "getaddrinfo"
  /\ Interweave(result) = <<>>
  /\ m_host_resolved' = result
  /\ pc' = "setBackoff"
  /\ UNCHANGED <<cstate, stopped, m_addresses, m_address_current, attempt, socketVars, m_socket,
                 m_backoff, accepting, writeVars>>

Resolved(result, reachable) ==
  /\ pc = "getaddrinfo"
  /\ Interweave(result) # <<>>
  /\ m_host_resolved' = result
  /\ m_addresses' = Interweave(result)
  /\ accepting' = reachable
  /\ cstate' = IF cstate = "STOP" THEN "STOP" ELSE "CONNECTING"
  /\ pc' = "loop"
  /\ UNCHANGED <<stopped, m_address_current, attempt, socketVars, m_socket, m_backoff,
                 writeVars>>

-----------------------------------------------------------------------------
(* The sleep between two rounds *)

(* resolve() or connectToAny() returned false: STOP is overwritten. *)
SetBackoff ==
  /\ pc = "setBackoff"
  /\ cstate' = "BACKOFF" /\ pc' = "loop"
  /\ UNCHANGED <<stopped, addressVars, m_address_current, attempt, socketVars, m_socket, m_backoff,
                 accepting, writeVars>>

Sleep ==
  /\ In("BACKOFF")
  /\ pc' = "sleep"
  /\ UNCHANGED <<cstate, stopped, addressVars, m_address_current, attempt, socketVars, m_socket,
                 m_backoff, accepting, writeVars>>

NextBackoff_Uncapped == m_backoff * 2

NextBackoff == IF m_backoff * 2 > BackoffMax THEN BackoffMax ELSE m_backoff * 2

WakeUp ==
  /\ pc = "sleep"
  /\ pc' = "loop"
  /\ IF cstate = "STOP"
       THEN UNCHANGED <<cstate, m_backoff>>
       ELSE m_backoff' = NextBackoff /\ cstate' = "RESOLVING"
  /\ UNCHANGED <<stopped, addressVars, m_address_current, attempt, socketVars, m_socket, accepting,
                 writeVars>>

-----------------------------------------------------------------------------
(* connectToAny() *)

Fresh == Min((1 .. Cardinality(DOMAIN fds) + 1) \ DOMAIN fds)

(* The map f with v stored at d *)
With(f, d, v) == [x \in DOMAIN f \cup {d} |-> IF x = d THEN v ELSE f[x]]

(* tryNextAddress() and connect(): the attempt fails at once, or is pending *)
TryNextAddress ==
  /\ m_address_current < Len(m_addresses)
  /\ m_address_current' = m_address_current + 1
  /\ attempt' = 0
  /\ LET address == m_addresses[m_address_current + 1]
     IN \/ /\ address \notin accepting
           /\ UNCHANGED <<m_sockets, m_socket_to_address, fds>>
        \/ /\ Cardinality(DOMAIN fds) < MaxOpen
           /\ m_sockets' = Append(m_sockets, Fresh)
           /\ m_socket_to_address' = With(m_socket_to_address, Fresh, address)
           /\ fds' = With(fds, Fresh, "pending")

Exhausted == m_address_current >= Len(m_addresses)

(* No attempt is pending: the next address, or the round has failed. *)
FirstAttempt ==
  /\ In("CONNECTING")
  /\ m_sockets = <<>>
  /\ TryNextAddress
  /\ UNCHANGED <<cstate, pc, stopped, addressVars, writable, m_socket, m_backoff, accepting, writeVars>>

NoAddressLeft_AfterFirst ==
  /\ In("CONNECTING")
  /\ m_sockets = <<>>
  /\ m_address_current > 0
  /\ pc' = "setBackoff"
  /\ UNCHANGED <<cstate, stopped, addressVars, m_address_current, attempt, socketVars, m_socket,
                 m_backoff, accepting, writeVars>>

NoAddressLeft ==
  /\ In("CONNECTING")
  /\ m_sockets = <<>>
  /\ Exhausted
  /\ pc' = "setBackoff"
  /\ UNCHANGED <<cstate, stopped, addressVars, m_address_current, attempt, socketVars, m_socket,
                 m_backoff, accepting, writeVars>>

Select ==
  /\ In("CONNECTING")
  /\ m_sockets # <<>>
  /\ pc' = "select"
  /\ UNCHANGED <<cstate, stopped, addressVars, m_address_current, attempt, socketVars, m_socket,
                 m_backoff, accepting, writeVars>>

(* STOP was stored while select() waited, or select() failed. *)
SelectAborted ==
  /\ pc = "select"
  /\ pc' = "loop"
  /\ UNCHANGED <<cstate, stopped, addressVars, m_address_current, attempt, socketVars, m_socket,
                 m_backoff, accepting, writeVars>>

Ready == {s \in ToSet(m_sockets) : fds[s] # "pending"}

(* select() fails on a descriptor that is not open. *)
Selectable == pc = "select" /\ cstate # "STOP" /\ ToSet(m_sockets) \subseteq DOMAIN fds

(* select() returned 0: a period has passed without any news.  An address  *)
(* that accepts would have been news.                                      *)
SelectTimesOut ==
  /\ Selectable
  /\ Ready = {}
  /\ \A s \in ToSet(m_sockets) : m_socket_to_address[s] \notin accepting
  /\ UNCHANGED <<cstate, stopped, addressVars, writable, m_socket, m_backoff, accepting, writeVars>>

StillWaiting_RestartsClock ==
  /\ SelectTimesOut
  /\ attempt + 1 < Stagger \/ (Exhausted /\ attempt + 1 < ConnectTimeout)
  /\ attempt' = 0
  /\ pc' = "loop"
  /\ UNCHANGED <<m_address_current, m_sockets, m_socket_to_address, fds>>

StillWaiting ==
  /\ SelectTimesOut
  /\ attempt + 1 < Stagger \/ (Exhausted /\ attempt + 1 < ConnectTimeout)
  /\ attempt' = attempt + 1
  /\ pc' = "loop"
  /\ UNCHANGED <<m_address_current, m_sockets, m_socket_to_address, fds>>

NextAttempt ==
  /\ SelectTimesOut
  /\ attempt + 1 >= Stagger
  /\ TryNextAddress
  /\ pc' = "loop"

(* The descriptors S are closed. *)
CloseSockets(S) == fds' = Restrict(fds, DOMAIN fds \ S)

AttemptsTimeOut_WithoutClose ==
  /\ SelectTimesOut
  /\ attempt + 1 >= Stagger /\ Exhausted /\ attempt + 1 >= ConnectTimeout
  /\ m_sockets' = <<>> /\ m_socket_to_address' = NoSockets
  /\ pc' = "setBackoff"
  /\ UNCHANGED <<m_address_current, attempt, fds>>

AttemptsTimeOut_KeepsAddresses ==
  /\ SelectTimesOut
  /\ attempt + 1 >= Stagger /\ Exhausted /\ attempt + 1 >= ConnectTimeout
  /\ CloseSockets(ToSet(m_sockets))
  /\ m_sockets' = <<>>
  /\ pc' = "setBackoff"
  /\ UNCHANGED <<m_address_current, attempt, m_socket_to_address>>

AttemptsTimeOut ==
  /\ SelectTimesOut
  /\ attempt + 1 >= Stagger /\ Exhausted /\ attempt + 1 >= ConnectTimeout
  /\ CloseSockets(ToSet(m_sockets))
  /\ m_sockets' = <<>> /\ m_socket_to_address' = NoSockets
  /\ pc' = "setBackoff"
  /\ UNCHANGED <<m_address_current, attempt>>

SelectReturns ==
  /\ Selectable
  /\ Ready # {}
  /\ writable' = Ready
  /\ pc' = "examine"
  /\ UNCHANGED <<cstate, stopped, addressVars, m_address_current, attempt, m_sockets,
                 m_socket_to_address, fds, m_socket, m_backoff, accepting, writeVars>>

(* Sockets with an error.  getsockopt() leaves err uninitialized when the  *)
(* socket is closed: it is an error for those in "garbage".                *)
Failed(garbage) == {s \in ToSet(m_sockets) \cap DOMAIN fds : fds[s] = "failed"} \cup garbage

Usable_NotYetWritable(garbage) == OnlyIn(m_sockets, ToSet(m_sockets) \ Failed(garbage))

(* Sockets that were writable and have no error by now, in order *)
Usable(garbage) == OnlyIn(m_sockets, writable \ Failed(garbage))

(* Only errors: the sockets that have one are closed. *)
RemoveFailed(garbage) ==
  /\ pc = "examine"
  /\ Usable(garbage) = <<>>
  /\ CloseSockets(Failed(garbage))
  /\ m_sockets' = OnlyIn(m_sockets, ToSet(m_sockets) \ Failed(garbage))
  /\ m_socket_to_address' = Restrict(m_socket_to_address, DOMAIN m_socket_to_address \ Failed(garbage))
  /\ writable' = {}
  /\ pc' = "loop"
  /\ UNCHANGED <<cstate, stopped, addressVars, m_address_current, attempt, m_socket, m_backoff,
                 accepting, writeVars>>

Adopt_ClosesAll(garbage) ==
  /\ pc = "examine"
  /\ Usable(garbage) # <<>>
  /\ m_socket' = Head(Usable(garbage))
  /\ CloseSockets(ToSet(m_sockets))
  /\ m_sockets' = <<>> /\ m_socket_to_address' = NoSockets /\ writable' = {}
  /\ pc' = "adopted"
  /\ accepting' = {}
  /\ UNCHANGED <<cstate, stopped, addressVars, m_address_current, attempt, m_backoff, writeVars>>

(* The first usable socket is the connection, all others are closed. *)
Adopt(garbage) ==
  /\ pc = "examine"
  /\ Usable(garbage) # <<>>
  /\ m_socket' = Head(Usable(garbage))
  /\ CloseSockets(ToSet(m_sockets) \ {Head(Usable(garbage))})
  /\ m_sockets' = <<>> /\ m_socket_to_address' = NoSockets /\ writable' = {}
  /\ pc' = "adopted"
  /\ accepting' = {}
  /\ UNCHANGED <<cstate, stopped, addressVars, m_address_current, attempt, m_backoff, writeVars>>

Examine == \E garbage \in SUBSET (ToSet(m_sockets) \ DOMAIN fds) : RemoveFailed(garbage) \/ Adopt(garbage)

(* Unless STOP was stored, CONNECT is queued: with priority, which never   *)
(* fails.                                                                  *)
Authenticate ==
  /\ pc = "adopted"
  /\ cstate' = IF cstate = "STOP" THEN "STOP" ELSE "AUTHENTICATING"
  /\ m_backoff' = Backoff
  /\ pc' = "loop"
  /\ UNCHANGED <<stopped, addressVars, m_address_current, attempt, socketVars, m_socket, accepting,
                 writeVars>>

-----------------------------------------------------------------------------
(* The read thread in recvLoop() *)

ReadMoves(from, to) ==
  /\ pc = from /\ pc' = to
  /\ UNCHANGED <<stopped, addressVars, m_address_current, attempt, m_sockets, m_socket_to_address,
                 writable, m_backoff, accepting, writeVars>>

Recv == cstate = "AUTHENTICATING" /\ ReadMoves("loop", "recv") /\ UNCHANGED <<cstate, fds, m_socket>>

(* A packet was received, or recv() failed and STOP is why. *)
RecvDone == ReadMoves("recv", "loop") /\ UNCHANGED <<cstate, fds, m_socket>>

(* CONNECTED is stored, whatever the state has become. *)
SetConnected == ReadMoves("recv", "loop") /\ cstate' = "AUTHENTICATING" /\ UNCHANGED <<fds, m_socket>>

(* recv() failed: the broker, the time-out, or the state that the write    *)
(* thread has stored.  socketError() of the read thread begins.            *)
SocketError ==
  /\ cstate # "STOP"
  /\ ReadMoves("recv", "close")
  /\ cstate' = "SOCKET_ERROR"
  /\ UNCHANGED <<fds, m_socket>>

ReadSkips == m_socket = INVALID_SOCKET /\ ReadMoves("close", "loop") /\ UNCHANGED <<cstate, fds, m_socket>>

ReadCloses ==
  /\ m_socket # INVALID_SOCKET
  /\ ReadMoves("close", "clear")
  /\ CloseSockets({m_socket})
  /\ UNCHANGED <<cstate, m_socket>>

ReadClears == ReadMoves("clear", "loop") /\ m_socket' = INVALID_SOCKET /\ UNCHANGED <<cstate, fds>>

LostReported ==
  /\ cstate = "SOCKET_ERROR" /\ cstate' = "BACKOFF"
  /\ ReadMoves("loop", "loop")
  /\ UNCHANGED <<fds, m_socket>>

(* case STOP: the pending sockets are not closed. *)
StopSkips ==
  /\ cstate = "STOP" /\ m_socket = INVALID_SOCKET
  /\ ReadMoves("loop", "done")
  /\ UNCHANGED <<cstate, fds, m_socket>>

StopCloses ==
  /\ cstate = "STOP" /\ m_socket # INVALID_SOCKET
  /\ ReadMoves("loop", "stop")
  /\ CloseSockets({m_socket})
  /\ UNCHANGED <<cstate, m_socket>>

StopClears == ReadMoves("stop", "done") /\ m_socket' = INVALID_SOCKET /\ UNCHANGED <<cstate, fds>>

-----------------------------------------------------------------------------
(* The write thread: sendPacket() and its socketError() *)

WriteMoves(from, to) ==
  /\ wpc = from /\ wpc' = to
  /\ UNCHANGED <<pc, stopped, addressVars, m_address_current, attempt, m_sockets, m_socket_to_address,
                 writable, m_backoff, accepting, outlived>>

(* A packet was taken, and there is a connection to send it on. *)
WriteBegins ==
  /\ cstate = "AUTHENTICATING"
  /\ WriteMoves("idle", "send")
  /\ UNCHANGED <<cstate, fds, m_socket, held>>

WriteDone == WriteMoves("send", "idle") /\ UNCHANGED <<cstate, fds, m_socket, held>>

(* ::send() fails, however much later: SOCKET_ERROR is stored over the     *)
(* state that there is by then.                                            *)
WriteFails == WriteMoves("send", "error") /\ cstate' = "SOCKET_ERROR" /\ UNCHANGED <<fds, m_socket, held>>

WriteSkips ==
  /\ m_socket = INVALID_SOCKET
  /\ WriteMoves("error", "idle")
  /\ UNCHANGED <<cstate, fds, m_socket, held>>

WriteTakes ==
  /\ m_socket # INVALID_SOCKET
  /\ WriteMoves("error", "close")
  /\ held' = m_socket
  /\ UNCHANGED <<cstate, fds, m_socket>>

(* Closing a descriptor that is closed does nothing; one that was given    *)
(* out again is closed.                                                    *)
WriteCloses ==
  /\ WriteMoves("close", "clear")
  /\ CloseSockets({held})
  /\ held' = INVALID_SOCKET
  /\ UNCHANGED <<cstate, m_socket>>

WriteClears == WriteMoves("clear", "idle") /\ m_socket' = INVALID_SOCKET /\ UNCHANGED <<cstate, fds, held>>

WriteEnds == cstate = "STOP" /\ WriteMoves("idle", "done") /\ UNCHANGED <<cstate, fds, m_socket, held>>

-----------------------------------------------------------------------------
(* The rest of ~Connection, once the threads have ended *)
Destroyed ==
  /\ pc = "done" /\ wpc = "done"
  /\ pc' = "gone"
  /\ m_host_resolved' = <<>>
  /\ UNCHANGED <<cstate, stopped, m_addresses, m_address_current, attempt, socketVars, m_socket, m_backoff,
                 accepting, writeVars>>

(* The network completes an attempt, or refuses one that does not accept. *)
Network(s, outcome) ==
  /\ s \in ToSet(m_sockets) \cap DOMAIN fds
  /\ fds[s] # outcome /\ fds[s] # "failed"
  /\ outcome = "failed" => m_socket_to_address[s] \notin accepting
  /\ fds' = [fds EXCEPT ![s] = outcome]
  /\ UNCHANGED <<cstate, pc, stopped, addressVars, m_address_current, attempt, m_sockets,
                 m_socket_to_address, writable, m_socket, m_backoff, accepting, writeVars>>

SelectStep == StillWaiting \/ NextAttempt \/ AttemptsTimeOut \/ SelectReturns

Lookup ==
  /\ pc = "getaddrinfo"
  /\ \E result \in Lookups :
       \/ LookupFails(result)
       \/ \E reachable \in SUBSET ToSet(Interweave(result)) : Resolved(result, reachable)

RoundStep ==
  \/ Resolve
  \/ Lookup
  \/ SetBackoff \/ Sleep
  \/ FirstAttempt \/ NoAddressLeft \/ Select \/ SelectAborted
  \/ SelectStep
  \/ Examine
  \/ LostReported

(* The steps that close a connection, after it was found to be broken *)
EndStep ==
  \/ ReadSkips \/ ReadCloses \/ ReadClears
  \/ WriteSkips \/ WriteTakes \/ WriteCloses \/ WriteClears
  \/ StopClears \/ WriteEnds \/ Destroyed

NetworkStep == \E s \in ToSet(m_sockets), outcome \in {"connected", "failed"} : Network(s, outcome)

(* An address that accepts does so. *)
Accept == \E s \in ToSet(m_sockets) : m_socket_to_address[s] \in accepting /\ Network(s, "connected")

ConnectorNext ==
  \/ Stop \/ RoundStep \/ WakeUp \/ Authenticate \/ NetworkStep
  \/ Recv \/ RecvDone \/ SetConnected \/ SocketError
  \/ WriteBegins \/ WriteDone \/ WriteFails
  \/ StopSkips \/ StopCloses \/ EndStep

ConnectorSpec == ConnectorInit /\ [][ConnectorNext]_connectorVars

(* The read thread runs, an address that accepts does so, and select()     *)
(* does not fail for ever.  Nothing stops the client, and no ::send() has  *)
(* to return.                                                              *)
ConnectorFairness ==
  /\ WF_connectorVars(RoundStep \/ WakeUp \/ Authenticate)
  /\ SF_connectorVars(SelectStep)
  /\ WF_connectorVars(Accept)

ConnectorLiveSpec == ConnectorSpec /\ ConnectorFairness

-----------------------------------------------------------------------------
ConnectorTypeOK ==
  /\ cstate \in {"RESOLVING", "CONNECTING", "AUTHENTICATING", "BACKOFF", "SOCKET_ERROR", "STOP"}
  /\ pc \in {"loop", "getaddrinfo", "setBackoff", "sleep", "select", "examine", "adopted",
             "recv", "close", "clear", "stop", "done", "gone"}
  /\ wpc \in {"idle", "send", "error", "close", "clear", "done"}
  /\ stopped \in BOOLEAN /\ outlived \in BOOLEAN
  /\ m_host_resolved \in Lookups \cup {<<>>}
  /\ m_addresses \in Seq(Nat) /\ m_address_current \in 0 .. Len(m_addresses)
  /\ attempt \in Nat
  /\ m_sockets \in Seq(Nat) /\ writable \subseteq Nat
  /\ m_socket \in Nat \cup {INVALID_SOCKET} /\ held \in Nat \cup {INVALID_SOCKET}
  /\ \A s \in DOMAIN fds : fds[s] \in {"pending", "connected", "failed"}
  /\ m_backoff \in Nat /\ (m_backoff =< Backoff \/ m_backoff =< BackoffMax)

(* In every order of failures, time-outs, adoptions and of the two         *)
(* socketError(): an open descriptor is the connection or a pending        *)
(* attempt, never both; the pending ones are open; m_socket is closed only *)
(* while the thread that closed it has not cleared it yet; and the write   *)
(* thread never closes a pending attempt.  This ends when the write thread *)
(* outlives a connection: then it may close or clear the next one.         *)
DescriptorsOwned ==
  ~outlived =>
    /\ ToSet(m_sockets) \subseteq DOMAIN fds
    /\ DOMAIN fds \subseteq ToSet(m_sockets) \cup {m_socket}
    /\ m_socket \notin ToSet(m_sockets)
    /\ IsInjective(m_sockets)
    /\ m_socket \notin DOMAIN fds =>
         m_socket = INVALID_SOCKET \/ pc \in {"clear", "stop"} \/ wpc = "clear"
    /\ held \notin ToSet(m_sockets)

(* m_socket_to_address has exactly the pending sockets, and its addrinfo   *)
(* pointers are into the result that is not freed yet.                     *)
AttemptsHaveAddress ==
  pc # "gone" =>
    /\ DOMAIN m_socket_to_address = ToSet(m_sockets)
    /\ \A s \in ToSet(m_sockets) : m_socket_to_address[s] \in DOMAIN m_host_resolved

(* freeaddrinfo() is called with attempts pending only after the write     *)
(* thread has outlived a connection: no other way leads from connectToAny  *)
(* to resolve() with m_sockets not empty.                                  *)
AddressesAlive == ~outlived => AttemptsHaveAddress

(* What becomes m_socket is connected, although the network goes on        *)
(* between select() and the look at its result, and never an attempt that  *)
(* is pending, also when the write thread outlives a connection.           *)
AdoptedIsConnected == m_socket \in DOMAIN fds => fds[m_socket] = "connected"

(* A round with an address that accepts never ends in a backoff, whatever  *)
(* the addresses before it do, unless the write thread closes an attempt.  *)
ReachableIsFound == ~outlived /\ pc = "setBackoff" => ToSet(m_addresses) \cap accepting = {}

(* "Interweave the IPv6 and IPv4 addresses": every address of the two      *)
(* families once, those of a family in the resolver's order, and IPv6 and  *)
(* IPv4 in turns, beginning with IPv6, until one family is used up.        *)
AddressOrder ==
  m_addresses # <<>> /\ pc # "gone" =>
    LET family(i) == m_host_resolved[m_addresses[i]]
    IN /\ ToSet(m_addresses) = {i \in DOMAIN m_host_resolved : m_host_resolved[i] # "other"}
       /\ \A i, j \in DOMAIN m_addresses :
            i < j /\ family(i) = family(j) => m_addresses[i] < m_addresses[j]
       /\ \A i, j \in DOMAIN m_addresses :
            i < j /\ family(i) = family(i + 1) => family(j) = family(i)
       /\ \A i \in DOMAIN m_addresses : family(i) = "IPv6" => family(1) = "IPv6"

(* Every round of attempts comes to its end, whatever the network does:    *)
(* with a connection, or in a backoff.                                     *)
RoundEnds == cstate = "CONNECTING" /\ ~outlived ~> cstate # "CONNECTING"

=============================================================================
