# A TLA+ model of TrueMQTT-cpp

TrueMQTT is an MQTT 3.1.1 client library for QoS 0. This directory models the
client as `src/src/*.cpp` implements it, checks small instances with TLC, and
proves with TLAPS, for all sizes, topics, addresses and delays, every safety
property that the passing runs check. Where the code contradicts its own
documentation, a run or a section of its own says so, and a weaker property says
what is left.

Source lines are given as `file:line`, relative to `src/src/`, or
`TrueMQTT.h:line` for `src/include/TrueMQTT.h`.

## Inventory

| Component | State | Operations | Modelled in |
|---|---|---|---|
| Client API (`Client.cpp`) | `m_state`, guarded by `m_state_mutex`; callbacks, settings | `connect`, `disconnect`, `publish`, `subscribe`, `unsubscribe`, setters, destructor (= `disconnect`) | `Connection` (timing), `Client` (data) |
| Connection lifetime (`Connection.cpp`) | `m_connection`, two threads, `Connection::m_state` (no lock), `m_socket` (no lock) | constructor, destructor, `runRead`, `runWrite`, `socketError` | `Connection` |
| Send queue (`Packet.cpp`, `Connection.cpp`) | `m_send_queue`, its mutex and condition variable | `send`, `popSendQueueBlocking`, clear | `Connection`, `Client` |
| Receive loop (`Packet.cpp`) | the packet that is read | `recv`, `recvLoop` | `Delivery` (bytes), `Connection` (which state follows), `KeepAlive` (times) |
| Keep-alive (`Packet.cpp`) | last sent / received times | ping, time-out | `KeepAlive`, `Session` |
| Resolver, Happy Eyeballs (`Connection.cpp`) | addresses, pending sockets, backoff | `resolve`, `connectToAny`, `tryNextAddress`, `connect` | `Connector`, `Session` |
| Publish queue (`Client.cpp`) | `m_publish_queue`, type, size | `toPublishQueue`, flush | `Client` |
| Subscriptions (`Client.cpp`) | flat set, tree of callbacks | `subscribe`, `unsubscribe`, restore, `findSubscriptionMatch` | `Client` (flat set), `SubscriptionTree`, `Delivery` |
| Packet encoding (`Packet.h`, `Packet.cpp`) | a buffer | read / write, header, the packets of the client | `PacketCodec`, `Delivery` |
| Logging (`Log.h`), examples, regression test | - | - | not modelled |

How they interact: an API call takes `m_state_mutex`, changes the client's data
and calls into the Connection, which pushes a packet into the send queue and
notifies the write thread. The read thread runs the state machine of
`Connection::m_state`; it calls back into the client
(`connectionStateChange`, `messageReceived`), which takes the same
`m_state_mutex`. `disconnect` destroys the Connection, and so joins both
threads, with that mutex held. Either thread that sees a broken socket runs
`socketError`.

What is hard: `Connection::m_state` and `m_socket` are written by three
threads without a lock; the destructor runs against threads in any position;
the wake-ups of the write thread; reconnects that must carry over some data
(subscriptions, publish queue) and none of the rest (send queue); queues at
their limit, where a refused packet tears a connection down; several pending
connection attempts that fail, succeed or time out in any order, over system
calls between which the network goes on; times that are only looked at between
packets; and a byte stream that arrives in arbitrary parts. `PROJECT.json`
lists each hazard at its line, with the properties that are about it.

## Modules

`Connection.tla` - the threads. `pc` holds the position of the application
thread (in at most one call), the read thread and the write thread.
`state`, `mutex`, `m_connection`, `topics`, `backlog` are the client's
(`m_state`, holder of `m_state_mutex`, whether the `unique_ptr` is set, number
of subscribed topics, length of the publish queue); `cstate`, `m_socket`,
`queue`, `qlock` are the Connection's. A step makes one access to an unlocked
shared variable; code under a mutex that touches only what it guards is one
step. `Store`, `Branch` and `NotifyOne` are the shapes of such steps, and most
actions are one of them with a label and a value. `session` is what the broker
saw on the current connection, and `stale` says that a `::send` in progress
belongs to an earlier one. The process can die in three ways, which the
code allows and the model keeps as labels: `selfJoin` (`Client.cpp:352` on the
read thread), `nullConnection` (`Packet.cpp:320` after `reset()`), `emptyPop`
(`Connection.cpp:159` after STOP was overwritten).

`Client.tla` - the data. Topics, callbacks, the contents and order of both
queues, packet ids with wrap-around, and what the broker has subscribed. Calls
are atomic because all of them hold `m_state_mutex`; the restore in
`connectionStateChange(true)` is one step per packet because the write thread
takes packets at the same time. How connections are lost is left to
`Connection`. The process can end in two undefined operations, which `state` then
names: `unsubscribe` follows the `end()` of a lookup, and a FIFO or LIFO of
size 0 is full while it is empty, so that `publish` pops from an empty deque
(`PopsEmpty`).

`ClientLifecycle.tla` - the abstract specification of a client's life: the
state that the application sees, and whether the threads of a Connection exist.
`Connection` implements it (`ImplementsLifecycle`), with `running` as "one of the
two threads has not ended" for its refinement mapping.

`Connector.tla` - `resolve`, `connectToAny`, and the two `socketError`s that end a
connection. An address is its index in the result of `getaddrinfo` (`Freed` once
the list it points into was freed), a descriptor a number that is given out again
once it is closed, as the system does. `pc` is where the read thread is between
two calls into the system: the network moves between `select` and the
`getsockopt` that looks at the result, and `~Connection` stores STOP at any of
these places. `wpc` is where the write thread is: in `::send`, or in the
`socketError` that follows one that failed, of which storing SOCKET_ERROR, reading
`m_socket`, closing it and clearing it are steps of their own, in any state of
the read thread. `held` is the descriptor it is about to close. `outlived` is
not in the code: it says that the write thread was still in `sendPacket` or
`socketError` when some `resolve` began. From then on it may close, clear or
overwrite what belongs to the next connection, and the model lets it. Closing a
descriptor that is closed already does nothing in the model; in a process that
opens files of its own it may close one of them. `accepting` are the addresses
that answer within one period of `select`, which the code does not know. The
`sendConnect` that fails at `Connection.cpp:425` is not there: a packet with
priority is never refused (`Packet.cpp:252`).

`KeepAlive.tla` - the clock. A stored time is modelled by its age, so that time
has no bound. The delays of the threads and of the broker are constants that a
tick never exceeds; nothing is assumed of how they and the interval compare. `hand` is the packet in `::send`; one that was
taken on an earlier connection (`OldPacket`) still sets the time when it is
sent, and still ends the connection when it fails. A packet that arrives in parts may take for ever:
only its end counts as received (`Packet.cpp:245`). `other` and `slow` remember
why nothing was received: a packet that has no answer was sent, or a packet
came in parts, or the write thread blocked for longer than `Room`, the time
that the time-out leaves it.

`Session.tla` - both together, the two threads from one connection to the next:
the connection that `Connector` adopts is the one whose clock `KeepAlive` runs,
a `::send` of one is the `::send` of the other, and a connection that is given up
leads into the backoff of `Connector`.

`PacketCodec.tla` - operators for packets as bytes. Numbers of several bytes
have `ByteRange` values per byte (256 in the code), so that short packets have
every size of header. `StandardBytes` is the reference, the form that the
broker sends and expects.

`SubscriptionTree.tla` - the tree, a function from paths to callbacks.
`Pruned` is the loop of `unsubscribe` over `reverse` (`PruneLevel` is its body),
`FindSubscriptionMatch` the recursion, both as recursive functions.

`Delivery.tla` - `recvLoop` byte by byte over a stream that the broker writes
whole packets to, with the switch at its end; the tree of subscriptions, which the
application changes between two bytes; connections that are lost in the middle of a packet.
`pending` remembers the packets as they were sent, for the properties.

`ConnectionProofs.tla`, `ClientProofs.tla`, `ConnectorProofs.tla`,
`KeepAliveProofs.tla`, `SessionProofs.tla`, `CodecProofs.tla`,
`SubscriptionTreeProofs.tla`, `DeliveryProofs.tla` - the theorems.

`MCConnection.tla`, `MCClient.tla`, `MCConnector.tla`, `MCSession.tla`,
`MCDelivery.tla` - the modules TLC runs, with their `.cfg`s.

Definitions named `X_Something` are variants of the definition `X` with one
plausible mistake (a forgotten notify, an off-by-one, a missing lock). They are
in no specification; `PROJECT.json` pairs each with the property that it breaks.

## Runs

| Run | Shows |
|---|---|
| `connection` | eight invariants, `NoResurrection` and the refinement of `ClientLifecycle`, over all interleavings of three API calls with lost connections, failures, partial sends and spurious wakeups; under fair threads, a packet in the queue of a connection that stays up is taken out (`QueueServed`) and a lost connection leads to a new attempt (`Reconnects`) |
| `client_data` | order and uniqueness of messages, the documented FIFO/LIFO contents, broker subscriptions equal to the client's, callbacks only for subscribed topics, valid packet ids |
| `disconnect_returns` (violated) | `disconnect` waits for a read thread that waits for `m_state_mutex`; the model also has the two other causes, a STOP that is overwritten (against the comment at `Connection.cpp:288`) and a notify that comes between predicate and wait |
| `restore_survives` (violated) | a refused SUBSCRIBE in the restore makes the read thread join itself, against `Client.cpp:351` |
| `reconnect_is_reported` (violated) | after a refused SUBSCRIBE the client reconnects while it says CONNECTED, against `TrueMQTT.h:115` |
| `unsubscribe_is_defined` (violated) | `disconnect` keeps the flat set of topics, so that `unsubscribe` follows the `end()` of a lookup, against `TrueMQTT.h:312` and `TrueMQTT.h:234` |
| `connector` | until the write thread outlives a connection: every open descriptor is the connection or a pending attempt, and the addresses that pending attempts point to are not freed, in every order of failures, time-outs and of the two `socketError`s; a round ends (`RoundEnds`), and never in a backoff if an address accepts. In any case: what is adopted is connected, and the addresses are in order |
| `attempts_have_address` (violated) | a `::send` that blocked over a reconnect fails while attempts are pending; the next `resolve` frees their addresses, against `Connection.h:82` |
| `session` | both threads have the open socket of the last round for as long as the clock says that there is a connection, unless the write thread outlived an earlier one; a dead connection is given up; the broker hears from the client an interval after the last time, as soon as the write thread can send; pings are an interval apart however slow the write thread is; and a client that only pings keeps a broker that answers |
| `healthy_is_kept` (violated) | a client that publishes more often than once per interval never pings, hears nothing, and gives up a healthy connection, against `Packet.cpp:51` |
| `delivery` | packets are framed right however `recv` cuts the stream and wherever a connection broke off; a connection is given up for bad packets only; the client's own packets have the standard form; only nodes of levels without name, and those above them, stay in the tree without a callback; a call about one topic takes no callback from another; a message reaches every callback whose topic matches level by level, with its text and as often as it was subscribed |
| `only_matching_are_called` (violated) | a message on `a/b` also calls the callbacks of `a`, against `TrueMQTT.h:282` |

`MatchingAreCalled` is about topics that match level by level (`MatchesBelow`); it
says nothing of callbacks whose topics do not match. `AddressesAlive` is what is left of
`AttemptsHaveAddress` as long as the write thread is in time, and `QuietIsHealthy`
of `HealthyIsKept` for a client that only pings.

`ConnectingIsReported` is what is left of `ReconnectingIsNotConnected` when
the refused SUBSCRIBE is excluded, and it holds.

Deadlock is checked in `delivery`. It is not in the other runs: a process that died takes no step, a client whose
calls are used up and that is DISCONNECTED is at rest, and `disconnect_returns`
is about the deadlock that the code has. In
`connector` and `session` a destroyed Connection is at rest.

### Bounds

`MaxCalls` (3, and 2 in the violated runs) API calls in any order: connect,
disconnect and connect again fit, as do connect, subscribe and publish; the proofs are for
any number. `SendQueueSize` 0 makes the queue full after one packet, so that
refused packets happen; `PublishQueueSize` 1 and `MaxTopics` 1 make the restore
longer than the queue, and two messages more than the backlog holds. `MaxPings` 1: a second PINGREQ in the queue adds nothing
but length. Reconnects are not bounded. In `Client`, four messages overflow a publish
queue of 1 or 2 and leave some for the connected phase; a queue of size 0 ends the process at the first; `IdRange` 4 makes packet
ids wrap within a session; `ClientAssumption` asks that a full send queue has
fewer packets than there are ids, which holds for every size below 65534.

In `Connector`, the lookups have no address, none of a known family, and three
addresses whose order must change; `Stagger` 2 and `ConnectTimeout` 3 periods
let attempts overlap, and the last one wait longer than the ones before it; the
backoff doubles once and stays at its maximum. `MaxOpen` bounds the descriptors
that are open at once, which the write thread makes necessary: after it has
outlived a connection, each round can leave attempts behind. 3 lets all three
addresses be pending together. The number of connections is not bounded, and a
`::send` may block over any number of them. In `Session`, `Interval` 6 is the smallest one
for which a look every tick leaves the write thread a tick to send a ping
(`Room` 1); `WriteDelay` 7 is longer than an interval, so that the second ping
is queued while the first still waits; the broker answers within a tick, and time is not
bounded. There is one address: how several are tried is checked in `connector`,
and the session asks how the two threads, the state, the socket and the clock go
together over many connections. In `Delivery`, `ByteRange` 4 makes the length bytes of packets one
to four in number (the proofs are for every even one up to 256), and one packet of the broker asks for a fifth; six filters cover names, both wildcards and an empty level; two
callbacks are in the tree at a time (of one topic or of two), and two packets
on the way, so that the second one shows where the first one ended.

The application is one thread. A second one could only wait for
`m_state_mutex` while the first is in a call. The model takes accesses to
`m_state` and `m_socket` as atomic and in program order: each of them is a word, and
an opaque call (a sleep, a system call, a lock) lies between two reads of a loop, so
that a compiler has to read again. A broker is one that follows the
protocol, except that it may close a connection at any moment.

### Fairness

Each of the three threads takes a step that stays possible (`std::thread`s are
scheduled). `SF` for the application and the read thread says that a thread
that waits for a mutex gets it if it is free again and again; without it, endless
spurious wakeups of the write thread, each of which locks the send queue,
would starve the read thread. `SF_vars(SendCompletes \/ SendFails)` says that a
packet is not sent in parts for ever: `::send` returns at least one byte and a
packet is finite. It also assumes that a blocking `::send` returns, which TCP
brings about through its own time-outs. In `Connector`, the read thread takes its
next step (`WF`), an address that accepts does so, and `select` does not fail
for ever (`SF_connectorVars(SelectStep)`; the code retries it at once). Nothing
makes the write thread's `::send` return there, nor STOP come. `RoundEnds` is for
rounds that no outlived `::send` disturbs. No fairness makes the broker answer or
close. There is no fairness for API calls or spurious wakeups.

## Proofs

`ConnectionProofs` proves, for every queue size and every bound:

- `TypeCorrect`: `Spec => []TypeOK`;
- `LifecycleHolds`: `Spec => []Lifecycle`, that a DISCONNECTED client has no
  Connection and neither thread, and every other client has its Connection,
  whenever `m_state_mutex` is not with a call;
- `NoResurrectionHolds`: `Spec => NoResurrection`, that only `connect` leaves
  DISCONNECTED.

The only assumption is `ConnectionAssumption` (sizes and bounds are natural
numbers). `Lifecycle` is not inductive: it says nothing while a call holds the
mutex, which is when everything changes. `IInv` adds `Locking` (which labels
hold the mutex: all of a call, and the restore on the read thread) and
`Ownership` (what each label of a call implies: from `stop` to `joinWrite`
there is no Connection, after `joinRead` the read thread has ended, at
`construct` both have). With these, a read thread that wants to report a
change while `disconnect` runs is blocked by the mutex, and when the mutex is
free it no longer exists. The proof has a lemma per group of actions
(`AppCallInv` ... `WriteStepInv`) with a step per action, and
`LeavingDisconnected` for the action property.

The second part of the module goes on from `IInv`, for the same constants:

- `ConnectingReported`, `QueueIsFresh`, `BacklogIsDrained`, `NoPacketIsLost`:
  the invariants `ConnectingIsReported`, `FreshQueue`, `BacklogDrained` and
  `NoLostPacket` of every reachable state;
- `LifecycleImplemented`: `Spec => ImplementsLifecycle`.

None of them is inductive by itself, and they lean on each other. `RInv` adds to
`IInv`: `Phase` (only the read thread goes back to looking for a connection, so
that one that is still receiving has not been sent back by the others);
`Reported` (from the report until the next connection the client is not CONNECTED, unless the
Connection replaces one that was dropped, and then its queue is empty); `Drained`
(messages wait in a connected client only under the mutex of the restore);
`Waiting` (between its look at the queue and its wait the write thread holds the
lock, so that no push comes between); and `Ending` (a thread only ends under a
`~Connection`, of a client that is DISCONNECTED or about to get a new one). For
the refinement, `Ending` shows that both threads exist when a new state is
reported, and `Lifecycle` that none does when `connect` begins.

Two more are about the send queue:

- `DataIsBounded`: `DataBounded`. `Limited` adds that a call that has looked at
  the size and is about to push still has room: the two who push data hold
  `m_state_mutex`, so that nobody comes between;
- `OneConnect`: `OneConnectQueued`. `Single` adds that a read thread that looks
  for a connection has no CONNECT queued. `SeekingBegins` shows why: it begins
  to look with an empty queue, which it has just cleared or which is new.

`ClientProofs` proves all invariants of `Client`, for any
topics, sizes of the queues (0 too) and numbers of packet ids. `ClientAssumption` is all
it assumes: that ids outnumber the packets of a full send queue. `Base` is `TypeOK` and `Control` (what is empty in which state).

- `IdsAreDistinct`: `Window` says that a packet with an id has at most as many
  ids given out since its own as packets behind it, and that these have younger
  ones. Ids are compared by their `Age`, the number of steps of `m_packet_id` to
  the next one, so that the wrap-around, which skips 0, is in two lemmas (`Ages`,
  `FollowingId`). A queue has fewer packets than there are ids, and so none
  is given out twice.
- `MessagesInOrder`: `PublishOrder` with `Numbered` (no message has a number that
  was not given out) is inductive.
- `QueueAsDocumented`: the documented contents hold until the flush begins
  (`Disciplined`), and a message more keeps them, for FIFO and LIFO. A message
  that is queued finds a size above 0 (`QueuedHasRoom`): with size 0 the queue is
  empty, and the step is `PublishPopsEmpty`.
- `BrokerInSync`: `Restored` says for each phase of a connection which topics the
  broker will have once the send queue has been handled: none before there is
  one, wanted ones before the CONNACK, and all but those in `todo` after it.
- `NoOrphans`: callbacks and topics are removed together.

`ConnectorProofs` proves the six invariants of `Connector` for every result of
`getaddrinfo`, any set of addresses that accept, every backoff and maximum, and
every interleaving of the two threads, from `ConnectorAssumption` (numbers are natural, and families are known).
`ConnectorInv` consists of `Phase` and `Open` (what holds whatever the write
thread does: a connection exists only when no attempt is pending, and it was
connected when it was adopted), `InTime` (until the write thread outlives a
connection it is idle while the read thread looks for one, attempts are pending
only in `connectToAny`, and a connection that the read thread left is with the
write thread, about to be closed), `Owned` (the descriptors), `Listed` (the order
of addresses), `Tried` (an address that accepts and was tried has an attempt
that has not failed, so that a round cannot run out of attempts) and `Paced`
(the sleep). The first half of the module is about the
recursive functions: a set of numbers has a least element (`Least`), from which
follow induction over a set of numbers (`Induction`) and that a recursive function
exists (`Recursion`); with these, `OnlyInEmbeds` and `InterweaveInTurns` say what
the loops of `resolve` compute for inputs of any length.

`KeepAliveProofs` proves `DeadIsDetected`, `HeardInTime` and `QuietIsHealthy`
of the clock (`ClockIsRight`), and `OnePing` (`PingsAreSpaced`), for every
interval, every announced interval and all delays; `KeepAliveAssumption` only
says that they are natural numbers. `ClockInv` consists of `Polled` (how old the
times can get between two looks), `Heard` (the broker has what was sent last,
unless there is something to send; a packet of an old connection is never the
only one), `Answered` (the last ping is on its way out, or the broker has it, or
its answer is readable, and in each place the time since something was received
is at most what the delays up to there allow) and `Spaced`
(`m_last_sent_packet` is never older than the last ping, because `recv` sets it
when the ping is queued and every packet that is sent sets it again).

`SessionProofs` shows that a session is a behaviour of `KeepAlive`
(`SessionImplementsKeepAlive`: a round of attempts only begins when the last
connection has ended) and of `Connector` (`SessionImplementsConnector`), so that
the properties of both hold of all its connections (`SessionDetectsDead`,
`SessionIsHeard`, `SessionStaysHealthy`, `SessionPingsOnce`, `SessionConnects`,
`SessionTypes`). `SessionHasSocket` is about both: `LinkHasSocket`.

`CodecProofs` is about the header that `send` puts in front of a packet, for every
even `ByteRange` from 4 to 256. `BytesAreStandard`: what is sent of the buffer is
the standard's form of the packet, for any fields that four digits can count.
`Euclid`, `Unique` and `NextDigit` are the arithmetic (the digits of a number, taken off one by one,
are its quotients by the weights), `LengthBytesMeans` is the induction over the `do`
loop, and `HeaderOffsetMeans` says that the offset leaves exactly the bytes that it fills.

`SubscriptionTreeProofs` proves of the tree, for all topics:

- `NamedNodesRemoved`: `Spec => []NamedNodesPruned`;
- `OthersKeepCallbacks`: `Spec => OthersStay`.

`PrunedAbove` is the invariant of the loop in `unsubscribe`: what it has left is a tree,
no callback of another topic is gone, and each node is needed or leads to a level
without name, except for those above the level it is at. `PruneLevelStep` is one level of it, and `PrunedIsRight`
the induction over all. The second half is about `findSubscriptionMatch`:
`MatchRecursion` says that a function from nodes to what is called below them
exists, by induction from the longest nodes to the root, and `MatchCounts`
that below a node each filter is called as often as it has callbacks if it goes on
from there with levels that match, and not at all otherwise. A filter goes through one child
(`BelowSplits`: a level of a topic is no wildcard, and `#` comes last), so that none is called twice.

`DeliveryProofs` proves all invariants of `Delivery`, and the way of a message, for any
filters, messages, wills and client ids that satisfy `DeliveryAssumption` (topics of messages have
no wildcards, and packets fit into four bytes of length):

- `PacketsAreStandard`: `EncodingIsStandard`, from `BytesAreStandard`;
- `FramesAreKept`, `GoodPacketsAccepted`: `FramesKept` and `GoodPacketsAreRead`;
- `DeliveryTypes`: `TypeOK`;
- `MessagesReachCallbacks`: `Spec => MatchingAreCalled`.

`FramesKept` only speaks of two places of `recvLoop`. `LoopInv` is the inductive
invariant: it says what has been read at every place. While the length is
read, `remaining_length` is the length modulo the weight of the next digit, and
the wire has the other digits, the fields, and the bytes of the other packets
(`AtLength`); while data are read, they and the wire together are the fields
and those bytes (`AtData`). `FrameForm` takes a packet of the broker apart into
header, digits and fields, and `TopicIsReadable` says that a topic and a message
are read back as they were written. For the calls, `OwnCallbacks` adds that the
tree has callbacks of the application only, and `ReadableIsMessage` that a PUBLISH
whose topic can be read is one of a message.

### Only model-checked

Liveness (`QueueServed`, `Reconnects`, `RoundEnds`), which is out of the
prover's reach. Every other property that holds is proved.

## Disagreements that no run shows

The modules contain all of this; the properties are stated so that they do not
depend on it, or say exactly what is left.

- The header calls `HOSTNAME_LOOKUP_FAILED` fatal (`TrueMQTT.h:35-41`); the
  read thread backs off and tries again (`Connection.cpp:72`).
- STOP is overwritten by the stores of BACKOFF, SOCKET_ERROR and CONNECTED,
  against the comment at `Connection.cpp:288`. `disconnect_returns` shows one
  of the consequences.
- The backoff "is doubled every time a connection fails" (`TrueMQTT.h:126`, `221`),
  but it is reset when TCP connects (`Connection.cpp:435`): a broker that accepts
  TCP and refuses the client is retried at the first interval.
- `m_socket` is "the socket we are currently connected with" (`Connection.h:84`);
  a CONNACK that is read while the write thread is in `socketError` stores
  CONNECTED over SOCKET_ERROR, and the write thread then closes and clears the socket of a
  CONNECTED client. `LinkHasSocket` is about a connection that the write thread
  has not ended.
- A FIFO or LIFO of size 0, which `setPublishQueue` accepts, pops from an empty
  deque (`Client.cpp:393`, `400`). In the model this ends the process, and the
  properties of `Client` hold for every size until then.
- CONNECT announces 30 seconds whatever the interval is (`Packet.cpp:354`). The
  client is heard an interval after the last time (`HeardInTime`); with an
  interval above 45 seconds that is later than a broker has to wait.
- "Remove any empty nodes. Otherwise we will slowly grow in memory"
  (`Client.cpp:293-295`): nodes of levels without name (`a//b`, `a/`), and the
  nodes above them, are never removed (`Client.cpp:299`). `NamedNodesPruned` says
  that there are no others.
- "All callbacks that match the topic will be called" (`TrueMQTT.h:287`): those of
  `a/#` are not for a message on `a`, which matches it in the standard.
  `MatchingAreCalled` leaves this case out.
- Attempts that are pending when STOP is stored are never closed
  (`Connection.cpp:130-136`).
- Pings are an interval apart, but a write thread that is stuck in `::send` for
  several intervals lets one per interval pile up in the queue, until the
  time-out ends the connection.
- The two `socketError`s may close one descriptor twice, also within one
  connection. The second close is harmless unless another part of the
  application has opened a descriptor with that number in between.

## Not modelled

Left out for good: logging and formatting; callbacks of the application that
call the client again (they run with `m_state_mutex` held and would block on
it); the setters of callbacks, logger and last will; packets and strings that
are longer than the standard allows, which the code does not refuse; weak-memory
effects; the examples and the regression test.
