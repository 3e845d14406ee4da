# nysocks: models and proofs

nysocks tunnels TCP connections (SOCKS5 or Shadowsocks) over UDP.  A client
process and a server process exchange datagrams; on top of them run KCP
conversations (reliable, ordered messages), sessions (connection state, FIN
handshake, heartbeats), muxes (many streams over one session) and, in
JavaScript, a manager that keeps a pool of muxes and a client that reconnects.

This directory holds TLA+ modules for that stack, TLC configurations that check
them on small instances, and TLAPS proofs of the properties that matter most.
Paths below are relative to the repository (`src/KcpuvSess.cc` etc.).

## 1. Inventory

| component | source | state | operations |
|---|---|---|---|
| KCP conversation | `lib/kcp/ikcp.c` | send and receive queues and buffers, `snd_una`, `rcv_nxt`, windows, RTO | `ikcp_send`, `ikcp_recv`, `ikcp_input`, `ikcp_flush`, `ikcp_update`, `ikcp_waitsnd` |
| Session | `src/KcpuvSess.cc` | `state`, send address, `recvBuf`, `recvTs`, `sendTs`, `waitFinUVTimer` | `KcpInput`, `Send`, `Close`, the 10 ms update, `TriggerClose`, removal |
| Loop | `src/Loop.cc` | the list of sessions, one update timer, one-shot 0 ms timers | `NextTick`, `KcpuvUpdateKcpSess`, start and stop |
| Mux | `src/Mux.cc`, `node/src/mux.js` | `count` (next id), `conns`, `sess` | `CreateConn`, `Input`, `Close`, `mux_check`, removal after the session |
| Conn | `src/Mux.cc`, `node/src/mux.js` | `send_state`, `recv_state`, id, `ts` | `Send`, `SendStopSending`, `SendClose`, `Close`, removal |
| Framing | `src/Mux.cc`, `src/KcpuvSess.cc`, `lib/kcp/ikcp.c` | none between calls (`recvBuf` is the session's) | cut, encode, decode, gather, parse |
| Clock | `src/utils.c`, `src/KcpuvSess.cc`, `src/Mux.cc`, `lib/kcp/ikcp.c` | `ts_flush`, `recvTs`, `sendTs`, the `ts` of a conn | idle timeout, heartbeat, conn timeout, `ikcp_update`, `ikcp_check` |
| Cryptor | `src/Cryptor.cc` | keys | encrypt and decrypt one datagram |
| UDP socket | `src/SessUDP.cc` | send address, handle | bind, send, receive |
| Binding | `src/binding.cc`, `src/utils.c` | wrapper objects | forwards calls and callbacks |
| Socket manager | `node/src/socket_manager.js` | master mux, pool of conns, beat timers | port handshake, beat, round-robin, `freeManager` |
| Client, server | `node/src/index.js`, `node/src/network_monitor.js` | `connectState`, `managerClient`, `proxyClient` | connect, reconnect, close |
| Relay | `node/src/index.js`, `node/src/socks_proxy_server.js` | a TCP socket and a conn per end, `firstBuf` | data, end, error and close of the socket; message, end and close of the conn |
| Router | `node/src/router.js` | user name to server map | add, remove, route |
| Proxy front ends, CLI, process manager, logger | `node/src/*.js` | configuration | start-up and output |

How they interact.  UDP hands a datagram to the session (`KcpInput`), which
decrypts it and gives it to KCP; the update timer of the loop then calls
`ikcp_update` (which emits acknowledgements and segments), drains `ikcp_recv`
and passes data to the mux, which finds the conn by id and passes content to
JavaScript.  All of it runs on one single-threaded libuv loop per process, so
concurrency is (a) between the two processes, through a network that loses,
duplicates and reorders, (b) between callbacks and timers of one loop, whose
order nobody fixes, and (c) re-entrancy: a callback made in the middle of an
update or of `Mux::Input` may send, close or free what its caller still uses.

Hard behaviours, and what makes each component correct:

* KCP: fragments of messages are numbered modulo 2^32 and arrive in any order, any
  number of times or never; windows close and open; probes and acknowledgements
  are lost.  Correct means: what is read is what was sent, whole, once and in
  order; nothing is released that the peer does not hold; nothing stalls.
* Session: acknowledgement happens in KCP before the application has read; the
  FIN handshake races a FIN timer, an idle timeout and the peer's own FIN;
  removal is deferred to a later tick and ends in `delete`.  Correct means: what
  was acknowledged is handed over exactly once; a graceful end loses nothing;
  state never goes back; one removal; every `Close` completes; no half-open
  session once the idle timeout is on.
* Mux and Conn: both ends open, half-close and close streams at once, ids wrap
  around, the session and the mux are deleted under the conns.  Correct means:
  a frame reaches the conn it was meant for or none; nothing follows the end of
  a stream; a conn is removed once and before its mux (which the code does not keep to: section
  4, `MuxOrphans`); a close reaches the peer.
* Relay: a program ends, resets or cannot be reached while data, FIN and CLS cross;
  half-close exists on the conn but not on every socket.  Correct means: an end of
  stream brings all that came before it, and no half of a relay outlives the other.
* Manager and client: a handshake without timeout, beats, reconnection triggered
  from three places at once.  Correct means: at most one client at a time, and a
  lost connection is always recreated.

`PROJECT.json` lists the hazards one by one, at their lines, with the properties
that cover them.

## 2. Modules

| module | models | uses |
|---|---|---|
| `Serial` | numbers modulo 2^32 and their signed difference | - |
| `KcpLink` | what one KCP conversation promises to its two ends | - |
| `Kcp` | two `ikcpcb` and a network that loses, duplicates and reorders; implements `KcpLink` | EXTENDS `Serial`, INSTANCE `KcpLink` |
| `Session` | two `KcpuvSess` objects sharing a conversation | EXTENDS `KcpLink` |
| `Mux` | two muxes and their conns over one session | the session as FIFO channels |
| `Relay` | one proxied TCP connection: a socket and a conn at each end | the conns as in `Mux` |
| `Manager` | the router, the managers of the server and of its clients | muxes as life cycles |
| `Client` | the client process: recreating manager and proxy server | - |
| `Framing` | headers, cutting, gathering and parsing, as functions | - |
| `Clock` | the decisions taken from the 32-bit clock | EXTENDS `Serial` |
| `SessionProofs` | theorems of `Session`: types, delivery, closing and removal; theorems of `Framing` | EXTENDS `Session`, `Framing` |
| `KcpProofs` | theorems about the arithmetic of `Serial` and `Clock`; theorems of `Kcp`: types, windows, delivery, the refinement of `KcpLink` | EXTENDS `Kcp`, `Clock` |
| `MuxStreamProofs` | theorems of `Mux` about what streams carry, and how a close is told | EXTENDS `MuxProofs` |
| `MuxProofs`, `RelayProofs`, `ManagerProofs`, `ClientProofs` | theorems of `Mux`, `Relay`, `Manager`, `Client` | EXTENDS the module they are about |
| `MCKcp`, `MCSession`, `MCMux`, `MCRelay` | the bounds of the runs | `Kcp`, `Session`, `Mux`, `Relay` |

The layers rest on each other as in the code.  `Kcp` is shown to implement
`KcpLink`; `Session` is built from the operators of `KcpLink`; `Mux` takes from
`Session` that a message given to `Send` is handed over once and in order while
both sessions live, and the six states of its closing; `Relay` takes from `Mux`
that the frames of a conn arrive in order at the conn they are meant for;
`Manager` takes from `Mux` that a mux is open, closing, then closed.

### Kcp
`snd_queue`, `snd_buf`, `rcv_buf`, `rcv_queue`, `acklist`, `snd_una`, `snd_nxt`,
`rcv_nxt`, `rmt_wnd` and `probe` are the fields of `ikcpcb`; `rcv_buf` and
`acklist` are sets, since the code keeps the first sorted and acknowledges the
second in any order.  `KcpSend` is `ikcp_send`: it cuts a message into fragments
and refuses one of `WndRcv` fragments or more.  `KcpRecv` is `ikcp_peeksize` and
`ikcp_recv`, with the refill of `rcv_queue` and the announcement of a window that
was closed.  `Arrive` is `ikcp_input` of one segment: the window, `una`, then the
command (`ikcp_parse_ack`, `ikcp_parse_fastack`, `ikcp_parse_data`, the two
window probes).  `Flush` is `ikcp_flush`: acknowledgements, probes, the move from
`snd_queue` into `snd_buf`, then every segment that is new, late or was skipped
often enough.

Sequence numbers are modulo `Wrap` and compared by signed difference (`Serial`),
and `First` is where they start, so that a run crosses the wrap.  The round trip
and the RTO estimate decide only when a segment is late; here any flush may find
any subset late, and may find the probe timer expired.  `ikcp_nodelay(kcp, 1, 10,
2, 1)` (KcpuvSess.cc:206) switches the congestion window off, so `cwnd`,
`ssthresh` and `incr` are left out.  A datagram holds one segment, where the code
packs several; what the network may do to them is then more, not less.  A flush
hands any subset of its output to the network, which is a set of segments: `Arrive`
takes any of them in any order and may leave a copy behind, so a segment sent once
may arrive any number of times.  `given` records the messages `ikcp_send` took, as
the number of fragments of each and of all before it; it is history.

`ImplementsLink` is the refinement: `sent` is `given`, `flushed` and `ackSent`
are what was given and held at the last flush, `got` counts the whole messages in
`rcv_queue` and in the part of `rcv_buf` that follows it, `acked` the messages
whose last fragment left `snd_buf`.

### KcpLink
Six counters per end stand for ARQ: `sent` (the messages given to `ikcp_send`),
`flushed`, `got`, `read`, `ackSent`, `acked`.  A datagram is any pair (how many
messages its arrival lets the receiver hold in order, how many it acknowledges)
between what is already known and what the peer has output: loss is a datagram
that never arrives, reordering and duplication are pairs that advance nothing.
Two details that matter above are kept: `ikcp_flush` sends acknowledgements for
everything `got`, whether `read` or not, and `ikcp_waitsnd` counts queued and
unacknowledged messages.

### Framing
Functions with the code's own sizes: `Encode` and `Decode` of a frame header,
`PieceEnd` (one step of the cutting loops of `Conn::Send` and
`KcpuvSess::RawSend`), `FragmentCount` and `Accepts` (`ikcp_send`), `BufferAfter`
(`recvBuf` after a message), `NextOffset` (one step of `OnRecvMsg`).  They keep no
state between calls, so they have theorems and no run.

### Clock
`iclock()` is the time of day in milliseconds modulo 2^32.  `IdleTimeout`,
`HeartbeatDue`, `ConnTimeout`, `Flushes`, `NextFlush` and `Check` are the
comparisons of `KcpuvSess.cc`, `Mux.cc`, `ikcp_update` and `ikcp_check`, each with
the C arithmetic it is written in.  The theorems say which of them are right
across the wrap, and which are not and how.  The other modules take a timer as a
choice and so hold either way.

### Session
One action per branch of the code: `KcpInput`; `Send`; `Close` with its three
outcomes (ignored, connected, unconnected); the update, cut where it calls back
into the application (`TickTimeout`, `TickStart`, the receive loop `RecvNoo`,
`RecvFin`, `RecvFinAck`, `RecvPush`, `RecvPushFull`, the callbacks `FullReturns`
and `HandRest`, the endings `TickCloses`, `TickHeartbeat`, `TickQuiet`);
`RemoveSessInNextTick`; `WaitFinExpires`.  Inside a callback (phase `full` or
`last`) the application may `Send` and `Close`; datagrams and timers wait.
`state0` is the copy of the state that the update compares when a FIN arrives
(KcpuvSess.cc:491, 526).

Abstractions: the content of a message is its index; whether a message fits
behind `recvBuf` is a choice; time is a choice (an update may find a heartbeat
or a timeout due); encryption and addresses are left out but for "is there a send
address".  A removal scheduled inside an update runs before the next update
(`due`), one scheduled outside may be overtaken by one update (`queued`): the
order in which libuv runs timers by due time.  `handed`, `why`, `calls` and
`closes` are history.

### Mux
The session is a FIFO `chan` in each direction (justified by `Session`:
acknowledged data is handed over once and in order) and six link states.  A
frame carries command, id, and, as history, the stream it belongs to and its
number; content is left out.  `ticks` is the FIFO of `Loop::NextTick`
callbacks: removal of a conn, of the session, of the mux.  `Mux::Input` is split
by outcome, where frames find the first conn of the list (`FirstWithId`) that has
their id, as two conns may share one after a wrap of the ids: `RecvConnectNew`, `RecvInvalidConnect`, `RecvData`, `RecvFin`,
`RecvCls`, `RecvUnknown`.  Uses of a deleted session or mux do not stop the
model: they set `stale`, which says that one happened; it does happen, after
what the run `MuxOrphans` shows.  The calls the application makes follow `mux.js` and its users: it creates no conn after
closing the mux, and sends nothing on a conn after `connSendClose`.

### Relay
One connection through the proxy, while its mux stays open.  At A `Accept` is the
callback of the proxy server (`createConnection`, `sendBuf` of the first chunk);
at B `RecvOpen` is the first message of a conn, which either makes a socket or is
invalid and closes the conn (`parseDstInfo`).  From then on the two ends are
alike: `SockData`, `SockEnd`, `SockError`, `SockClose` are the events of the socket
with the calls they make on the conn, `RecvData`, `RecvFin`, `RecvCls` the frames
with the calls they make on the socket, `ConnRemoved` the scheduled removal that
frees the conn and destroys the socket.  `SendBuf`, `SendStop`, `SendClose` and
`Close` are the calls of `mux.js`, which do nothing on a freed conn, with what
`Conn` does: `SockClose` sends CLS twice when nothing was stopped.

`Program` and `Socket` are outside the repository and modelled from how the code
uses them: Node ends a socket whose program ended (`allowHalfOpen` is off), loses
what is written to an ended socket, drops what is not flushed when a socket is
destroyed or fails, and emits `close` once.  `Accept` chooses the protocol: the
socket of `ssProtocol` at A is a mock, which binds no end to its conn and ignores
`end` (`HasEnd`).

`TimesOut` is `mux_check`: `socket.js:33` switches the timeout of conns on, and the
conns of a relay keep the default of 30 seconds (Mux.cc:291; only the master conns
change theirs, `initConn`).  `ts` is renewed by what a conn receives, never by what it
sends (Mux.cc:217), so a long upload without an answer times out, and so does an idle
connection: the CLS makes the other side destroy its socket with what it has not
flushed, and a program sees the end of a stream of which part is missing, though
nothing failed.  How long a conn received nothing is a choice, so `TimesOut` may
happen to any open conn at any time; `expired` records that it did, and the
properties about streams except it.  That is all they can say: nothing in the
repository promises more.

Two things follow from the mock socket that the code knows of (`index.js:94`, "we
don't have half open state") and the properties except.  When the target ends its
stream the server's conn stops sending, so its close sends no CLS, and the
client's conn waits for an end that never comes, until it times out
(`NoHalfStays`); with SOCKS the FIN ends the program's connection, whose own end frees the conn.  And when the program ends
its stream, what the server's socket has not flushed is dropped with the CLS.

### Client
Every call of `recreate()` in `index.js` starts an attempt, and attempts are
numbered: `attempt[i]` is how far `createClientInstance` got (timer scheduled,
looking the address up, asking for the ports, connected, beats lost, freed) and
the state of its proxy server.  `connectState`, `managerClient` and
`proxyClient` are the fields of `currentClients`; `ip` is the monitor's.  An
action is one JavaScript callback with the promises it resolves: `Start` (the
timer of `recreate`), `Resolved` and `LookupFails` (`getIP`), `Connected` (the
ports arrive, beats start, the proxy server listens), `ProxyClosed` (the last
connection of a closing proxy server has ended and `free()` resolves),
`BeatTimeout`, `MonitorMoved` and `MonitorWakes` (the interval of
`network_monitor.js`, which calls back when the address changed or the machine
slept).  `Move` is the environment: the machine gets or loses an address.
Uncaught errors end the process, as in the code (`process`).

Node closes the listening handle at once but calls back only when the
connections have ended, which takes as long as the muxes that serve them take to
close.  `PromptClose` says that this is sooner than the next callback of the
monitor or the beats (5 s and more); it is a condition of the properties, not of
the code, and `ClientPort` shows what happens without it.

### Manager
The server behind its router, and the clients it serves.  `stage[c]` follows one
call of `createClient`, `manager` is the sequence of managers the server
creates, `router` is `managerMaps`.  `CreateManager` is the first datagram from
an address (also a late one of a client that has ended), `Start` the start
message that creates the pool and arms the beats, `PortsArrive` the answer,
`FreeManager` and `FreeClient` are `freeManager` at the two ends, and
`ServerMuxCloses` is the close event of a mux with `tryTriggerClose`, `onClose`
and `onServerClose`.  Beats are not counted: `Beating` says whether both ends
still beat on an open master mux, `ServerSilence` and `ClientSilence` are the
timer when they do not, `ServerLoses` and `ClientLoses` the timer when the
network dropped what was sent.  `Crash` ends a client without a FIN.

A mux here is its life cycle alone (open, closing, closed), as `Session` and
`Mux` show it; whether a FIN reaches the other end is a choice, and `Fairness`
assumes that a closing mux closes, which is true of the end that called `close`
(its FIN timer) and of the other end unless the last acknowledgement is lost
(section 4, the wait in FIN_ACK).  Left out: the round-robin of `createConnection`, the
conns of the application, and a delayed datagram mixing the streams of two
clients that had the same address.

## 3. Runs

Bounds are the constants of the configurations; none replaces a definition.

| run | bounds | checks |
|---|---|---|
| `KcpStream` | A sends two messages of two fragments through windows of 2 and 3, numbers modulo 16 from 14 | `TypeOK`, `InOrderDelivery`, `WindowKept`, `RecvComplete`, `ImplementsLink` (refinement) |
| `KcpDrains` | three messages of one fragment through windows of 2, numbers as above | `Drains` (liveness) |
| `SessionSafety` | two messages by A, one by B, one `Close` per end, FIN timer on | `TypeOK`, `RemovedOnce`, `OneRemoval`, `AckedIsHanded`, `GracefulClose`, `OneAnswer`, `NoSpontaneousClose`, `StateAdvances` |
| `SessionClose` | A sends one message, both may close, B has the idle timeout | `IdleRemovesOnce`, `CloseCompletes`, `NoHalfOpen` (liveness) |
| `MuxStreams` | each end opens one conn, sends one data frame per conn and closes; both half-close, A also sends a CLS | `TypeOK`, `StreamIntegrity`, `QuietAfterStop`, `ClosePropagates` |
| `MuxClose` | A opens two conns with one id (ids wrap at 1), either end or both close their mux; conn timeout on | `RemovalsListed`, `CloseEnds` (liveness) |
| `MuxOrphans` | A opens one conn, may half-close it and may close its mux | violates `NoOrphans` |
| `RelayConns` | either protocol; both programs write up to one chunk, end, reset, or are not reached, and conns time out, in any order | `TypeOK`, `NoTruncation`, `NeverNull`, `RelayEnds`, `NoHalfStays` (liveness) |
| `ClientReconnect` | two addresses, two moves, one wake-up, two losses of the beats, `PromptClose` | `TypeOK`, `OneClient`, `StateMatches`, `FdReleased`, `Reconnects` (liveness) |
| `ClientPort` | the same without `PromptClose` | violates `FdReleased` |
| `ManagerPool` | two clients, two addresses, two managers with one mux beside the master, one loss of beats | `TypeOK`, `RouterKnows`, `ReportsWhenClosed`, `Reclaims`, `ClientLearns` (liveness) |
| `ManagerForgets` | one client, one manager, no loss | violates `CloseReported` |

Why the bounds are enough.

* KCP.  Numbering from 14 modulo 16 puts the wrap in the middle of what is sent;
  16 is more than four windows, which is what signed differences need
  (`WindowsAssumption`; the code has 2048 and 2^32).  Messages of two fragments
  make every boundary of a message fall inside a window at some time, a send
  window of 2 makes the second message wait, and `Counts` has 4, which
  `ikcp_send` must refuse (`WndRcv` is 3).  Two segments on their way to A let
  acknowledgements overtake each other; one on its way to B, any of what was
  output and as often as the sender repeats it.  So old duplicates are as old as
  the run, never a whole turn of the numbers: the code has no defence against
  those either.  `KcpDrains` fills a window of 2 with the first two messages, so
  it closes, and the third needs its opening to be heard of.
* Session.  A session has two ends and its interesting histories are orders of
  data, FIN and FIN_ACK in both directions: two messages from A are the least
  that lets one be read while the other is held or in the trailing part of
  `recvBuf`, one from B makes data cross, and one `Close` per end lets FIN cross
  FIN.  `RemovedOnce` is checked with at most one `Close` per end and no idle
  timeout, since two calls of `Close` in CREATED schedule two removals; every
  caller (`muxClose` in `mux.js`) closes once.  `IdleRemovesOnce` covers the end
  that has the timeout and never calls `Close`.
* Mux.  One conn per end gives both kinds of id, both roles, and crossing closes;
  `MaxId` is 100 there, so ids are unique.  `MuxClose` has the least number of
  conns for two to share an id; `MaxId` stands for 65535.  Its conns are not
  half-closed (`Uses` is empty) to keep the state space small: its two properties
  do not depend on what a conn tells its peer.  `MuxOrphans` is about that: a
  conn that stopped sending, like one that never sent, closes without telling its
  peer (`Conn::Close` asks for `KCPUV_CONN_SEND_READY`).  The same is why
  `ClosePropagates` speaks of conns that told their peer.  `CloseEnds` excepts an
  end whose session is in FIN_ACK, since such a session ignores `Close`.
* Relay.  One chunk in each direction waits in a socket, travels as data or is
  flushed while the end, the close or a timeout of either conn overtakes it or does
  not; a second chunk makes the liveness check take longer than is useful, and
  `EndMeansAll` holds for any number.
* Client.  Two changes of the address take the machine from one network to none
  and to another, and a wake-up and two losses add the other two causes of
  recreation to it, in every order.
* Manager.  Two clients may have one address or two, and two managers are enough
  for a late datagram, or a client that reuses an address, to meet the entry of
  another; one mux beside the master makes the master close first, last or alone.

Deadlock is checked for `Kcp`, whose ends always have a flush to make, and for
`Session`, whose only end is `Done` (both sessions gone, no timer left).  The Mux
configurations switch it off: the application may have nothing more to do while
both muxes stay open, which is how a mux idles.  The Relay, Client and Manager
configurations do too: a relayed connection ends; once its bounded environment is
used up, a connected client waits; and a process ended by an uncaught error stops.

### Fairness
`Kcp`: the session's loop reads what can be read (WF, KcpuvSess.cc:508) and
flushes, again and again, with every timer expired (SF `FlushThrough`).  That the
updates of the loop keep flushing, also when the clock wraps or jumps, is theorem
`FlushesAgain` about `Clock`.  The network may lose most of what it gets, but of the
flushes that output something it lets a segment through infinitely often, and
the oldest segment it holds arrives (WF).

`Session`: the loop keeps running, so an update starts and flushes again and
again (SF, since a datagram handler may come in between), steps of an update and
scheduled removals happen (WF), timers expire (SF).  The network is fair-lossy
and a live peer retransmits, so a datagram carrying everything the peer has
flushed arrives in the end, if the peer stays alive (SF); `Drains` is what
`Kcp` shows of this.  Nothing is assumed about the datagrams of a peer that is
gone, and nothing about the application.  The idle timeout fires if the peer is
gone.

`Mux`: frames are read and next-tick callbacks run (WF), and the FIN timer of a
session that waits for a FIN_ACK expires (WF).  `Relay`: the loops
run their events, the kernel connects or gives up, programs read, and a program
that sees the end of the stream it reads ends its own (WF); without the last a
target that never ends would keep the server's conn for as long as it likes.
`RelayEnds` needs no timeout; `NoHalfStays` has `Timeouts` as its hypothesis: a conn
whose peer is freed and to which nothing is on its way times out (WF), as
`mux_check` runs with every update.
`Client`: timers fire, the connections of a closing proxy server end, and lookup and server answer a client
that has an address (WF); nothing makes beats stop or the machine move.
`Manager`: the beat timer fires when the other end is silent and closing muxes
close (WF); no datagram is sure to arrive.

## 4. Findings

* `MuxOrphans`: `Mux::Close` closes the conns of its list, but a mux that ends by its
  peer's FIN is freed with whatever its list holds.  Not every conn has heard a CLS by
  then.  The run shows the everyday way: a client half-closes a conn when its program
  has ended (`index.js:140`, `sendStop`), then closes its mux; `Conn::Close` sends no
  CLS for a conn that stopped sending (Mux.cc:345), so the server's conn is open when
  the FIN of the session arrives.  The session and the mux are deleted, and what the
  conn does later (`SendClose` when its socket closes) uses both.  There is a second
  way, which `Closers <- Both` finds: the server closes the mux (`freeManager`,
  `socket_manager.js:341`, `index.js:349`) while a CONNECT is on its way; the conn it
  makes is after the walk over the list, and nobody closes it.  The test
  `mux.spec.js:144`, "should also free all relative conns of muxes when freed",
  covers the end that closes.
* `ClientPort`: `free()` resolves at once in state 0, even while an earlier
  `free()` waits for its proxy server.  After a loss of the beats, a wake-up of
  the machine recreates the client; when the old proxy server's last connection
  ends, its callback recreates it again, and the second proxy server finds the
  port taken (`index.js:191`, against the note at `index.js:216`).
* `ManagerForgets`: `freeManager` counts the close events of all muxes of the
  pool, but one that the peer's FIN closed before has already emitted its event
  and `muxClose` ignores it.  After an ordinary disconnect of a client `onClose`
  is never called and the router keeps, and uses, the entry of a deleted session.

Other behaviours that a reader should know of, which no run reports since nothing in
the repository says otherwise, or since a run reports a nearer case:

* A session in FIN_ACK leaves only when all it sent is acknowledged
  (KcpuvSess.cc:577).  If its peer is removed after reading the FIN_ACK and the last
  acknowledgement is lost, no timer covers the state: `waitFinUVTimer` is armed by
  `Close` alone, which such a session ignores, and the idle timeout is off by
  default.  `NoHalfOpen` holds because of the idle timeout; `CloseEnds` excepts the
  state.
* The conn timeout cuts streams (section 2, Relay).
* When conn ids wrap around, the first id is handed out twice (`WrapRepeatsId` of
  `MuxProofs`).
* Heartbeats are due in every update in the ten seconds before the clock wraps, or
  held back for a turn of the clock if none was sent before it wrapped
  (`HeartbeatsFlood`, `HeartbeatLate`), and a conn whose deadline lies beyond the
  wrap does not time out until something refreshes it (`ConnOutlivesWrap`).

## 5. Proofs

Every theorem holds for every value of the constants that the module's
assumptions admit; conditions of use are hypotheses of the theorem.

### Session
`EndsDiffer`, `BoundsAssumption` and `FlagsAssumption` are the assumptions.

* `TypeCorrect`: `Spec => []TypeOK`, one step per action, with
  the type invariant split into the variables of the link, of the session and
  the history.
* `Delivery`: `Spec => []AckedIsHanded`.  The property is not
  inductive: that `acked <= read` when an update ends follows only if the
  acknowledgements in flight (`ackSent`) stay below what is held (`got`) and below
  `read` whenever the end is idle.  `LinkInv` states the order of the counters
  (`acked <= ackSent <= got <= flushed <= Len(sent)` and so on), `HandInv` the
  content of `recvBuf` and `handed`.  `LinkEffects`, `StreamsGrow` and
  `LinkInvStep` say what a step may do to the link, so that the invariants are
  preserved by a few cases instead of one per action.
* `NothingLost`: `Spec => []GracefulClose`.  `CloseInv` adds that an end in
  FIN_ACK has read its peer's first closing message, and that a session removed as
  `acked` had everything it sent acknowledged when it was scheduled.
* `NeverGoesBack` and `AnsweredOnce`, for any number of calls
  of `Close` and any timeouts.  `StageInv` ties the phase of an update and the
  copy of the state it took to the state itself; `FinsInv` counts the closing
  messages of a stream by the state of the end that sends it.
* `NotRemovedTwice`, `OneRemovalScheduled` and `SomebodyClosed`, under `Deployed`:
  each end calls `Close` at most once and has no idle timeout.  `RemovalInv` says
  where the one removal of a session is: on the FIN timer, queued, or due.  Its
  hard case is a session closed before it was connected whose removal one update
  overtakes (`Early`).  `CalledInv` traces a closing state to a call of `Close`
  of one of the two ends.
* `IdleIsRemovedOnce`: without that hypothesis, for an end whose own application
  never calls `Close` (`UncalledInv`).

### Kcp
`EndsDiffer`, `WindowsAssumption` (a window is less than a quarter of a turn of
the numbers, and no message is longer than the window), `BoundsAssumption` and, of
`Serial`, that `Wrap` is a positive even number.

* `TypeCorrect` and `WindowsKept`: `Spec => []TypeOK` and `Spec => []WindowKept`.
  The invariant is `WindowInv`: `snd_buf` is numbered upwards and its oldest segment
  is at most a window behind `snd_nxt` (`SndWindow`), `snd_una` is what
  `ikcp_shrink_buf` makes it, `rcv_buf` lies in the window ahead of `rcv_nxt`, one
  segment a number (`RcvWindow`), and holds nothing that `rcv_queue` has room for
  (`Settled`).  Whatever changes `snd_buf` keeps a part of it in order (`Keeps`).
* `DeliveredInOrder`: `Spec => []InOrderDelivery`.  Fragments are counted from 1 in
  the order `ikcp_send` takes them; a sequence number is the low part of that count.
  `SenderInv` says that a sender has numbered a first part of what it was given and
  keeps the rest in order, `ReceiverInv` that every PUSH in flight and in `rcv_buf`
  has the number of its fragment (`Labelled`) and that what `ikcp_recv` returned,
  then `rcv_queue`, are the first fragments without a gap.  `TakesNext` is the heart:
  a segment in `rcv_buf` whose number equals `rcv_nxt` holds the next fragment and
  not one a turn later or earlier; `ReturnsOne` says that `ikcp_recv` then takes
  exactly one message.
* `RecvIsComplete`: `Spec => []RecvComplete`, from the same invariant.
* `LinkImplemented`: `Spec => ImplementsLink`, the refinement of `KcpLink`.  A fragment
  is known by its count: the receiver has taken the first `TakenAt(s)` and holds those
  and what is in `rcv_buf` (`Holds`), the sender waits for those in `snd_buf`
  (`Awaits`).  `AnsweredInv` relates the two through what is in flight: a fragment the
  sender no longer waits for is held, and so is every one in `acklist`, acknowledged by
  an ACK on its way, or below a `una` on its way, however old (`Reported`); and a message
  of which every fragment is acknowledged, or will be when what is in flight arrives, was
  held when its receiver last flushed (`Believed`).  `CountersRight` derives what the
  counters of the link say from that: `Got` and `Acked` count the messages all of whose
  fragments are held, or left the sender (`Covers`), `Got` stays below what was offered
  and `Acked` below what was promised (`CountersInv`).  Each action then is one step of
  the link: `SendLinks`, `RecvLinks`, `ArriveLinks` and `FlushLinks`.

The last three need `HalfTurn`: an end is given less than half a turn of sequence
numbers (2^31 fragments).  The network of `Kcp` may keep a copy of a segment for as
long as it likes, and one kept for a turn is taken for the segment that has its
number then; the code has no defence against that, so the hypothesis cannot be
dropped while delays have no bound.

Lemmas about `Plus` and `Diff` stand on those about the clock.  `Least` is the
least-number principle for a given set, from the well-foundedness of `Nat`; it
gives what `Min` and `Max` return and stands in for induction.

### Mux
`EndsDiffer`, `MuxBounds` and `MuxFlags` are the assumptions: any number of conns
and data frames, any `MaxId`, so ids may collide.

* `TypeCorrect`: `Spec => []TypeOK`, one lemma per action.
* `RemovalsAreListed`: `Spec => []RemovalsListed`.  `Match` states that the
  removals in a sequence of callbacks are those of a set of conns, each once, and
  lemmas say what appending and taking the head does to it; each action then
  changes the callbacks and the set of closing conns alike.  The strengthening is
  `Fresh`: conns not yet made are not in the list.
* `NothingAfterStop`: `Spec => []QuietAfterStop`.  That no data follows a FIN or
  CLS depends on there being one conn that writes a stream, also when two conns
  of an end have the same id.  `ConnStreams` says so: each conn carries a stream
  of its own (`OwnStreams`, `OneCarrier`), ids have the parity of the end that
  opened the stream (`Parities`), and a conn made by a CONNECT has the conn that
  sent it at the other side (`Connected`).  `FrameStreams` ties the frames in
  flight to it (`FramesKnown`, `ConnectsOnce`), and `NoConnYet` says that a
  CONNECT in flight has no conn yet.  `Follows` describes what a step may do to a
  channel: drop its head and append frames.
* `StreamsHaveOneCarrier` states `OneCarrier` by itself, and `WrapRepeatsId` why none
  of this may rest on ids: `GetIncreaseID` repeats the first id when it wraps around.
* `StreamsAreIntact` (`MuxStreamProofs`): `Spec => []StreamIntegrity`, whoever closes
  and however many conns there are, under `IdsSuffice`: no end opens more conns than it
  has ids (32767 in the code), so that none is used again; `WrapRepeatsId` is why the
  hypothesis is needed.  `IdsInv` says that ids then name streams: `count` has advanced
  by 2 for every conn an end opened (`Counted`, `OwnIds`), and a conn or a frame has the
  id of the conn that opened its stream (`ConnsNamed`, `FramesNamed`).  `AllNumbered`
  says that the data frames of a stream in flight are numbered on from what the conn
  they are for has received, and end where the conn that sends them stands; before the
  conn exists, from nothing (`Unmet`).  `Numbered` binds the three places a frame can be
  in, and each step moves one frame from one to the next.  `StartsOnce` is why a CONNECT
  is the first frame of its stream and no other is.
* `CloseIsTold`: `Spec => [](NothingStale => ClosePropagates)`, under `IdsSuffice`.
  The invariant is `ToldArrives`: when a conn has sent its CLS and the peer still reads,
  and the peer has an open conn of the stream or a CONNECT that will make one on its way
  (`Awaits`), a CLS for it is on the way.  A CLS is read by the conn it names since ids
  name streams, no CONNECT is behind it (`QuietAfterStop`), and a conn that is marked as
  having told its peer has put a CLS behind all it sent (`ToldSays`), or used a session
  that was deleted (`ToldIsStale`): that is the one way a CLS is lost, and why
  `NothingStale` is a condition.  It can fail after a mux was closed (`MuxOrphans`).
  `ClosePropagatesWhileOpen` discharges it while no application closes its mux, as in
  the run `MuxStreams`, since the sessions then stay (`SessionsStay`).

### Relay
`EndsDiffer` and `RelayBounds` are the assumptions: any number of chunks.

* `TypeCorrect` and `NeverWritesToNull`: `Spec => []TypeOK`, `Spec => []NeverNull`.
* `EndMeansAll`: `Spec => []NoTruncation`.  The chunks a program sent are, in order,
  those the other program read and those still on their way: in the socket, in the
  channel, in the other socket.  `Conserved` says that as a sum, as long
  as nothing failed and no conn timed out (`Clean`), and `EndLast` that the end
  of a stream is behind all of it.  `NothingClosed` is why it is inductive: while
  nothing failed and no conn timed out, a conn is freed only after both ends, so no
  close overtakes data.  After a timeout the theorem says nothing, since the property
  is then false of the code (`TimesOutInv` is all that is left to show).

### Manager and Client
* `ManagerProofs`: `Inv` is `TypeOK`, `ManagersSound` (the count of closes a
  manager waits for, its reported flag and the muxes of its pool agree) and
  `RouterKnows`.  `TypeCorrect`, `RouterIsExact` and `NeverReportsEarly` follow.
* `ClientProofs` needs the bounds' types (`ClientBounds`); `TypeCorrect` needs nothing
  more, the other theorems have `PromptClose` as a hypothesis.  `ClientSafe` is
  `Spec => []ClientInv`: that recreation finds no client depends on what `connectState` says
  (`StateMatches`), and this on the manager and the proxy server being of one
  attempt and on at most one proxy server closing, only in state 0
  (`OneClosing`).  `OneAtATime`, `StateIsExact` and `PortIsReleased` follow.

### Framing and Clock
`SessionProofs` ends with the theorems about `Framing`: a header decodes to what was
encoded, the cutting loops tile the content, a frame is one message of the session
and a message one that `ikcp_send` takes and `ikcp_recv` has room for, and `recvBuf`
never holds more than its size.  `KcpProofs` begins with the theorems about `Clock`:
each comparison is reduced to true time by `ClockDifference`: two clock values differ, modulo 2^32, by the time between them.

### Only model-checked
Liveness under fairness is out of the prover's reach: `Drains`, `CloseCompletes`,
`NoHalfOpen`, `CloseEnds`, `RelayEnds`, `NoHalfStays`, `Reconnects`, `Reclaims` and `ClientLearns` are
checked by TLC alone.  Every invariant and action property of a passing run, and the
refinement, has a theorem; some of them under a hypothesis that its theorem names.

## 6. Plan

What would come next, in this order.

1. `Streams`: the abstract promise of a mux (a stream is two queues, each with an
   end), and `Mux` shown to implement it for conns whose ids do not collide.
2. `Client` composed with `Manager` as the server its attempts talk to; a
   handshake that is never answered leaves a client CONNECTING for ever.
3. Proofs: that every step of `Session` is a sequence of steps of `KcpLink`; the
   refinement of `Streams` on top of `AllNumbered`.

## 7. Not modelled

* The cryptor transforms one datagram and keeps nothing but its keys; the UDP
  socket is I/O through libuv, of which `Session` keeps whether there is a send
  address.
* The binding forwards calls that are actions here.  When a JavaScript wrapper is
  collected is decided by V8, outside the modules.
* The round-robin of `createConnection` over the pool.  The protocols of the proxy
  front ends are third-party servers.  The command line, the process manager and
  the logger are start-up, configuration and output.
* KCP's estimates of round trip and RTO, as numbers; its congestion window, which
  is switched off; its stream mode, which is not used.
* Starting and stopping the libuv loop.
