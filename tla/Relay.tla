-------------------------------- MODULE Relay --------------------------------
(***************************************************************************)
(* One proxied connection, from the program that connects to the proxy (at *)
(* A, the client process) to the one it wants to reach (the target, at B,  *)
(* the server process).  Each end relays between a TCP socket and a conn   *)
(* (node/src/index.js); frames travel between the conns as a FIFO (module  *)
(* Mux, StreamIntegrity) while the muxes stay open.                        *)
(*                                                                         *)
(* A program writes chunks, ends its stream and may reset the connection.  *)
(* Sockets are Node's: a socket whose program ended is ended as well       *)
(* (allowHalfOpen is off), what is written to it from then on is lost, an  *)
(* error or destroy() drops what was not flushed, and 'close' is emitted   *)
(* once at the end.                                                        *)
(***************************************************************************)
EXTENDS Naturals, Sequences

CONSTANTS
    A, B,           \* client and server process
    MaxData         \* bound: MaxData[s] chunks are written by the program at s

End == {A, B}
Peer(s) == IF s = A THEN B ELSE A

ASSUME EndsDiffer == A # B
ASSUME RelayBounds == MaxData \in [End -> Nat]

VARIABLES
    prog,       \* the program at s: chunks written and read, its stream, and
                \* whether it saw the end of the other one
    sock,       \* the socket of s: chunks read, chunks to be flushed, its two ends,
                \* and whether it is the mock socket of ssProtocol
    conn,       \* the conn of s
    chan,       \* chan[s]: the frames on their way to s
    failed,     \* history: a program reset the connection, or B could not connect
    expired,    \* history: a conn was closed by its timeout
    null        \* history: socket.write was called where socket is null

vars == <<prog, sock, conn, chan, failed, expired, null>>

Frames == {"connect", "push", "fin", "cls"}

Program == [wrote : Nat, got : Nat, out : {"open", "ended", "reset"}, eof : BOOLEAN]
Socket == [state : {"none", "connecting", "open", "dead", "closed"},
           seen : Nat, pending : Nat, atEnd : BOOLEAN, ended : BOOLEAN,
           mock : BOOLEAN]
Conn == [phase : {"none", "open", "closing", "freed"},
         send : {"none", "ready", "stopped"}, recv : {"none", "ready", "stop"}]

TypeOK ==
    /\ prog \in [End -> Program]
    /\ sock \in [End -> Socket]
    /\ conn \in [End -> Conn]
    /\ chan \in [End -> Seq(Frames)]
    /\ failed \in BOOLEAN
    /\ expired \in BOOLEAN
    /\ null \in BOOLEAN

NewConn == [phase |-> "open", send |-> "none", recv |-> "none"]

Init ==
    /\ prog = [s \in End |-> [wrote |-> 0, got |-> 0, out |-> "open", eof |-> FALSE]]
    /\ sock = [s \in End |-> [state |-> "none", seen |-> 0, pending |-> 0,
                              atEnd |-> FALSE, ended |-> FALSE, mock |-> FALSE]]
    /\ conn = [s \in End |-> [NewConn EXCEPT !.phase = "none"]]
    /\ chan = [s \in End |-> <<>>]
    /\ failed = FALSE
    /\ expired = FALSE
    /\ null = FALSE

Post(s, frames) == chan' = [chan EXCEPT ![Peer(s)] = @ \o frames]

(***************************************************************************)
(* The calls of the conn, as Mux has them.  In JavaScript they do nothing  *)
(* on a conn with isClosed, which is set when it is freed.                 *)
(***************************************************************************)
ConnAlive(s) == conn[s].phase \in {"open", "closing"}

(* sendBuf *)
SendBuf(s) ==
    IF ConnAlive(s) /\ conn[s].send # "stopped"
      THEN /\ Post(s, <<IF conn[s].send = "none" THEN "connect" ELSE "push">>)
           /\ conn' = [conn EXCEPT ![s].send = "ready"]
      ELSE UNCHANGED <<conn, chan>>

(* Mutant: the conn is not marked stopped. *)
MutSendStop(s) ==
    IF ConnAlive(s)
      THEN /\ Post(s, IF conn[s].send = "stopped" THEN <<>> ELSE <<"fin">>)
           /\ UNCHANGED conn
      ELSE UNCHANGED <<conn, chan>>

(* sendStop *)
SendStop(s) ==
    IF ConnAlive(s)
      THEN /\ Post(s, IF conn[s].send = "stopped" THEN <<>> ELSE <<"fin">>)
           /\ conn' = [conn EXCEPT ![s].send = "stopped"]
      ELSE UNCHANGED <<conn, chan>>

(* sendClose, and what Conn::Close sends of its own accord. *)
SendClose(s) == IF conn[s].send = "stopped" THEN <<>> ELSE <<"cls">>
CloseFrames(s) == IF conn[s].send = "ready" THEN <<"cls">> ELSE <<>>

(* Mutant: the conn still receives until it is freed. *)
MutClosed(c) ==
    IF c.phase = "open" THEN [c EXCEPT !.phase = "closing", !.send = "stopped"]
    ELSE c

Closed(c) ==
    IF c.phase = "open" THEN [phase |-> "closing", send |-> "stopped", recv |-> "stop"]
    ELSE c

(* close(conn), after the frames of a sendClose, if there was one. *)
Close(s, before) ==
    IF ConnAlive(s)
      THEN /\ Post(s, before \o (IF conn[s].phase = "open" THEN CloseFrames(s) ELSE <<>>))
           /\ conn' = [conn EXCEPT ![s] = Closed(@)]
      ELSE UNCHANGED <<conn, chan>>

(***************************************************************************)
(* The calls of a socket.                                                  *)
(***************************************************************************)
Fails(k) == IF k.state \in {"connecting", "open"}
              THEN [k EXCEPT !.state = "dead", !.pending = 0] ELSE k

(* socket.write: the sockets it may leave.  On a socket that was ended the *)
(* chunk is lost, and newer versions of Node destroy the socket.           *)
Written(k) ==
    IF k.state \notin {"connecting", "open"} THEN {k}
    ELSE IF k.ended THEN {k, Fails(k)}
    ELSE {[k EXCEPT !.pending = @ + 1]}

Ended(k) == IF k.state \in {"connecting", "open"} THEN [k EXCEPT !.ended = TRUE] ELSE k

(* bindEnd is called for every socket but the mock socket of ssProtocol,   *)
(* which has no end either.                                                *)
HasEnd(s) == ~sock[s].mock

(***************************************************************************)
(* The programs, and the kernel between them and the sockets.              *)
(***************************************************************************)
Reached(s) == sock[s].state = "open"

ProgWrites(s) ==
    /\ Reached(s)
    /\ prog[s].out = "open" /\ prog[s].wrote < MaxData[s]
    /\ prog' = [prog EXCEPT ![s].wrote = @ + 1]
    /\ UNCHANGED <<sock, conn, chan, failed, expired, null>>

ProgEnds(s) ==
    /\ Reached(s)
    /\ prog[s].out = "open"
    /\ prog' = [prog EXCEPT ![s].out = "ended"]
    /\ UNCHANGED <<sock, conn, chan, failed, expired, null>>

ProgResets(s) ==
    /\ Reached(s)
    /\ prog[s].out # "reset"
    /\ prog' = [prog EXCEPT ![s].out = "reset"]
    /\ failed' = TRUE
    /\ UNCHANGED <<sock, conn, chan, expired, null>>

(* Mutant: the end of the buffer is not seen. *)
MutFlush(s) ==
    /\ Reached(s)
    /\ prog[s].out # "reset"
    /\ sock' = [sock EXCEPT ![s].pending = @ - 1]
    /\ prog' = [prog EXCEPT ![s].got = @ + 1]
    /\ UNCHANGED <<conn, chan, failed, expired, null>>

(* What was written to the socket reaches the program, then its end. *)
Flush(s) ==
    /\ Reached(s)
    /\ prog[s].out # "reset"
    /\ sock[s].pending > 0
    /\ sock' = [sock EXCEPT ![s].pending = @ - 1]
    /\ prog' = [prog EXCEPT ![s].got = @ + 1]
    /\ UNCHANGED <<conn, chan, failed, expired, null>>

FlushEnd(s) ==
    /\ Reached(s)
    /\ sock[s].ended /\ sock[s].pending = 0
    /\ ~prog[s].eof
    /\ prog' = [prog EXCEPT ![s].eof = TRUE]
    /\ UNCHANGED <<sock, conn, chan, failed, expired, null>>

(***************************************************************************)
(* Events of a socket.                                                     *)
(***************************************************************************)

(* The proxy, of either protocol (config.clientProtocol), accepts a        *)
(* connection: createConnection, and sendBuf of the chunk that says where  *)
(* to.                                                                     *)
Accept ==
    /\ sock[A].state = "none"
    /\ \E mock \in BOOLEAN :
            sock' = [sock EXCEPT ![A].state = "open", ![A].mock = mock]
    /\ conn' = [conn EXCEPT ![A] = [NewConn EXCEPT !.send = "ready"]]
    /\ Post(A, <<"connect">>)
    /\ UNCHANGED <<prog, failed, expired, null>>

Connected ==
    /\ sock[B].state = "connecting"
    /\ sock' = [sock EXCEPT ![B].state = "open"]
    /\ UNCHANGED <<prog, conn, chan, failed, expired, null>>

ConnectFails ==
    /\ sock[B].state = "connecting"
    /\ sock' = [sock EXCEPT ![B] = Fails(@)]
    /\ failed' = TRUE
    /\ UNCHANGED <<prog, conn, chan, expired, null>>

(* socket.on('data') *)
SockData(s) ==
    /\ Reached(s)
    /\ ~sock[s].atEnd
    /\ sock[s].seen < prog[s].wrote
    /\ sock' = [sock EXCEPT ![s].seen = @ + 1]
    /\ SendBuf(s)
    /\ UNCHANGED <<prog, failed, expired, null>>

(* socket.on('end'); Node then ends the socket, too. *)
SockEnd(s) ==
    /\ Reached(s)
    /\ ~sock[s].atEnd
    /\ prog[s].out = "ended" /\ sock[s].seen = prog[s].wrote
    /\ sock' = [sock EXCEPT ![s].atEnd = TRUE, ![s].ended = TRUE]
    /\ IF HasEnd(s) THEN SendStop(s) ELSE UNCHANGED <<conn, chan>>
    /\ UNCHANGED <<prog, failed, expired, null>>

(* socket.on('error') only writes a line; 'close' follows. *)
SockError(s) ==
    /\ Reached(s)
    /\ prog[s].out = "reset"
    /\ sock' = [sock EXCEPT ![s] = Fails(@)]
    /\ UNCHANGED <<prog, conn, chan, failed, expired, null>>

Finished(s) ==
    \/ sock[s].state = "dead"
    \/ Reached(s) /\ sock[s].atEnd /\ sock[s].ended /\ sock[s].pending = 0

(* Mutant: the peer is not told. *)
MutSockClose(s) ==
    /\ Finished(s)
    /\ sock' = [sock EXCEPT ![s].state = "closed"]
    /\ prog' = [prog EXCEPT ![s].eof = TRUE]
    /\ conn' = [conn EXCEPT ![s] = IF ConnAlive(s) THEN Closed(@) ELSE @]
    /\ UNCHANGED <<chan, failed, expired, null>>

(* socket.on('close'), and destroy() of the mock socket.  The program sees *)
(* the end of the stream at last.                                          *)
SockClose(s) ==
    /\ Finished(s)
    /\ sock' = [sock EXCEPT ![s].state = "closed"]
    /\ prog' = [prog EXCEPT ![s].eof = TRUE]
    /\ Close(s, SendClose(s))
    /\ UNCHANGED <<failed, expired, null>>

(***************************************************************************)
(* Events of a conn.                                                       *)
(***************************************************************************)
Arrives(s, cmd) == chan[s] # <<>> /\ Head(chan[s]) = cmd
Rest(s) == [chan EXCEPT ![s] = Tail(@)]
Receives(s) == ConnAlive(s) /\ conn[s].recv # "stop"

(* The first message of a stream opens a conn at B and, if it says where   *)
(* to, a socket.                                                           *)
RecvOpen ==
    /\ Arrives(B, "connect")
    /\ conn[B].phase = "none"
    /\ UNCHANGED <<prog, failed, expired, null>>
    /\ \/ /\ conn' = [conn EXCEPT ![B] = [NewConn EXCEPT !.recv = "ready"]]
          /\ sock' = [sock EXCEPT ![B].state = "connecting"]
       \/ /\ conn' = [conn EXCEPT ![B] = Closed(NewConn)]
          /\ UNCHANGED sock
    /\ chan' = Rest(B)

(* listen(conn): what comes next is written to the socket. *)
RecvData(s) ==
    /\ Arrives(s, "push") \/ (Arrives(s, "connect") /\ conn[s].phase # "none")
    /\ chan' = Rest(s)
    /\ IF Receives(s)
         THEN /\ conn' = [conn EXCEPT ![s].recv = "ready"]
              /\ \E k \in Written(sock[s]) : sock' = [sock EXCEPT ![s] = k]
              /\ null' = (null \/ sock[s].state = "none")
         ELSE UNCHANGED <<conn, sock, null>>
    /\ UNCHANGED <<prog, failed, expired>>

RecvFin(s) ==
    /\ Arrives(s, "fin")
    /\ chan' = Rest(s)
    /\ IF Receives(s)
         THEN /\ conn' = [conn EXCEPT ![s].recv = "stop"]
              /\ sock' = IF HasEnd(s) THEN [sock EXCEPT ![s] = Ended(@)] ELSE sock
         ELSE UNCHANGED <<conn, sock>>
    /\ UNCHANGED <<prog, failed, expired, null>>

(* Conn::Close, which may send a CLS back. *)
RecvCls(s) ==
    /\ Arrives(s, "cls")
    /\ IF ConnAlive(s)
         THEN /\ chan' = [Rest(s) EXCEPT ![Peer(s)] =
                    @ \o (IF conn[s].phase = "open" THEN CloseFrames(s) ELSE <<>>)]
              /\ conn' = [conn EXCEPT ![s] = Closed(@)]
         ELSE chan' = Rest(s) /\ UNCHANGED conn
    /\ UNCHANGED <<prog, sock, failed, expired, null>>

(* The scheduled removal: connFree, then the close event. *)
ConnRemoved(s) ==
    /\ conn[s].phase = "closing"
    /\ conn' = [conn EXCEPT ![s].phase = "freed"]
    /\ sock' = [sock EXCEPT ![s] = Fails(@)]
    /\ UNCHANGED <<prog, chan, failed, expired, null>>

(* Mutant: a conn that has not received its first message has no timeout. *)
MutTimesOut(s) ==
    /\ conn[s].phase = "open"
    /\ conn[s].recv # "none"
    /\ Close(s, <<>>)
    /\ expired' = TRUE
    /\ UNCHANGED <<prog, sock, failed, null>>

(* mux_check: Conn::Close of a conn that received nothing for 30 seconds,  *)
(* whatever it sent meanwhile (the timeout of Mux.cc:291, which no caller  *)
(* changes for the conns of a relay; ts is set by Mux::Input alone).  Its  *)
(* mux stays.  How long it received nothing is a choice.                   *)
TimesOut(s) ==
    /\ conn[s].phase = "open"
    /\ Close(s, <<>>)
    /\ expired' = TRUE
    /\ UNCHANGED <<prog, sock, failed, null>>

Input(s) == RecvData(s) \/ RecvFin(s) \/ RecvCls(s) \/ (s = B /\ RecvOpen)
Events(s) ==
    \/ Flush(s) \/ FlushEnd(s)
    \/ SockData(s) \/ SockEnd(s) \/ SockError(s) \/ SockClose(s)
    \/ Input(s) \/ ConnRemoved(s)

Next ==
    \/ Accept \/ Connected \/ ConnectFails
    \/ \E s \in End : ProgWrites(s) \/ ProgEnds(s) \/ ProgResets(s) \/ Events(s) \/ TimesOut(s)

Spec == Init /\ [][Next]_vars

(***************************************************************************)
(* Fairness.  The loops run their events, the kernel connects or gives up, *)
(* programs read, and a program that sees the end of the stream it reads   *)
(* ends its own.  Nothing else is assumed of the programs.                 *)
(***************************************************************************)
Fairness ==
    /\ WF_vars(Connected \/ ConnectFails)
    /\ \A s \in End : WF_vars(Events(s)) /\ WF_vars(prog[s].eof /\ ProgEnds(s))

FairSpec == Spec /\ Fairness

(* A conn whose peer is freed receives nothing any more, and times out.    *)
Silent(s) == conn[Peer(s)].phase = "freed" /\ chan[s] = <<>>
Timeouts == \A s \in End : WF_vars(Silent(s) /\ TimesOut(s))

(***************************************************************************)
(* Safety.                                                                 *)
(***************************************************************************)

(* A program that sees the end of the stream, and has not ended its own,   *)
(* has read all that the other one wrote, unless something failed or a     *)
(* conn timed out: the end of a stream (sendStop) is never overtaken by    *)
(* the close of its conn, which destroys the socket at the other side with *)
(* what it has not flushed (index.js:310-323).  The timeout of a conn does *)
(* that whenever one end only sends for 30 seconds, or none does, without  *)
(* anything having failed.  A mock socket tells no end, so what comes from *)
(* one is excepted.                                                        *)
NoTruncation ==
    \A s \in End :
        prog[s].eof /\ prog[s].out = "open" /\ ~failed /\ ~expired /\ HasEnd(Peer(s)) =>
            prog[Peer(s)].out = "ended" /\ prog[s].got = prog[Peer(s)].wrote

(* The listener of a conn whose first message was dropped is not called    *)
(* again: it would write to a socket that was never made (index.js:326).   *)
NeverNull == ~null

(***************************************************************************)
(* Liveness.                                                               *)
(***************************************************************************)
Freed(s) == conn[s].phase = "freed"
BothGone(s) == Freed(A) /\ Freed(B) /\ sock[Peer(s)].state \in {"none", "closed"}

(* Once the socket of one end is closed, the conns of both ends are freed  *)
(* and the other socket is closed (index.js:310-323), without waiting for  *)
(* a timeout.  Excepted is the orderly end of the target behind a mock     *)
(* socket: the server's conn has stopped sending and closes without a CLS  *)
(* (Mux.cc:345), and ssProtocol binds no end to its conn (index.js:94, "we *)
(* don't have half open state").                                           *)
RelayEnds ==
    \A s \in End :
        sock[s].state = "closed" /\ (HasEnd(Peer(s)) \/ ~sock[s].atEnd) ~>
            BothGone(s) \/ expired

(* The timeout covers that case, and a conn that timed out itself when it  *)
(* had not sent yet or had stopped sending, and so told nobody: no half of *)
(* a relay stays.                                                          *)
NoHalfStays ==
    Timeouts => \A s \in End : sock[s].state = "closed" ~> BothGone(s)
===============================================================================
