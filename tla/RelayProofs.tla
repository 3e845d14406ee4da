---------------------------- MODULE RelayProofs ----------------------------
(***************************************************************************)
(* Theorems about Relay, for any number of chunks: the types, that no      *)
(* socket is written to that was not made, and that the end of a stream is *)
(* seen only behind all its data.                                          *)
(***************************************************************************)
EXTENDS Relay, SequenceTheorems, TLAPS

LEMMA Ends ==
    /\ A \in End /\ B \in End
    /\ \A s \in End : Peer(s) \in End /\ Peer(s) # s /\ Peer(Peer(s)) = s
    /\ \A s \in End, t \in End : t = s \/ t = Peer(s)
    /\ Peer(A) = B /\ Peer(B) = A
  BY EndsDiffer DEF End, Peer

(***************************************************************************)
(* The invariant.                                                          *)
(***************************************************************************)

(* What holds whatever fails. *)
SocketsSound ==
    \A s \in End :
        /\ sock[s].state = "none" =>
              /\ ~sock[s].ended /\ ~sock[s].atEnd /\ ~sock[s].mock
              /\ s = A => conn[s].phase = "none"
              /\ conn[s].phase # "none" => conn[s].recv = "stop"
        /\ conn[s].phase = "none" => sock[s].state = "none"
        /\ conn[s].phase \in {"closing", "freed"} =>
              conn[s].send = "stopped" /\ conn[s].recv = "stop"
        /\ sock[s].ended => sock[s].atEnd \/ conn[s].recv = "stop"
        /\ prog[s].out = "reset" => failed

(* NoTruncation says something about s: nothing failed, no conn timed out,  *)
(* its program still writes, and the other socket tells its end.           *)
Clean(s) == ~failed /\ ~expired /\ HasEnd(Peer(s)) /\ prog[s].out = "open"

(* Then nothing is closed at s, and its peer closes only after its end;    *)
(* no CLS is on its way in either direction.                               *)
NoCls(s) == \A i \in DOMAIN chan[s] : chan[s][i] # "cls"
NothingClosed(s) ==
    LET p == Peer(s) IN
    /\ NoCls(s) /\ NoCls(p)
    /\ conn[s].phase \in {"closing", "freed"} => sock[s].state = "none"
    /\ sock[s].state \notin {"dead", "closed"} /\ ~sock[s].atEnd
    /\ sock[p].state \in {"dead", "closed"} => sock[p].atEnd
    /\ sock[p].state \in {"connecting", "open", "dead"} => conn[p].phase = "open"
    /\ sock[p].state \in {"connecting", "open"} /\ ~sock[p].atEnd =>
          conn[p].send # "stopped"

(* The end of the peer's stream is told once, behind its data. *)
EndLast(s) ==
    LET p == Peer(s) IN
    /\ sock[p].atEnd =>
          prog[p].out = "ended" /\ sock[p].seen = prog[p].wrote /\ conn[p].send = "stopped"
    /\ \A i \in DOMAIN chan[s] : chan[s][i] = "fin" => i = Len(chan[s]) /\ sock[p].atEnd
    /\ conn[s].phase = "open" /\ conn[s].recv = "stop" => sock[p].atEnd /\ chan[s] = <<>>
    /\ prog[s].eof => sock[s].ended /\ sock[s].pending = 0

(* The frame that opens the conn of B comes first, and nothing comes back  *)
(* before it.                                                              *)
Opening(s) == s = B /\ conn[B].phase = "none" /\ conn[A].phase # "none"
OpenFirst ==
    /\ Opening(B) => chan[B] # <<>> /\ chan[B][1] = "connect"
    /\ conn[A].phase = "none" => conn[B].phase = "none" /\ chan[B] = <<>>
    /\ conn[B].phase = "none" => chan[A] = <<>>

(* Every chunk the peer's socket took in is on its way, waits to be        *)
(* flushed, or was read.                                                   *)
FinComes(s) == chan[s] # <<>> /\ chan[s][Len(chan[s])] = "fin"
InFlight(s) ==
    Len(chan[s]) - (IF Opening(s) THEN 1 ELSE 0) - (IF FinComes(s) THEN 1 ELSE 0)
Conserved(s) ==
    conn[s].phase \in {"none", "open"} =>
        sock[Peer(s)].seen = prog[s].got + sock[s].pending + InFlight(s)

CleanInv(s) == NothingClosed(s) /\ EndLast(s) /\ Conserved(s)

RelayInv ==
    /\ SocketsSound
    /\ OpenFirst
    /\ \A s \in End : Clean(s) => CleanInv(s)
    /\ NeverNull

(***************************************************************************)
(* Types.                                                                  *)
(***************************************************************************)
LEMMA Counters ==
    /\ \A k \in Socket : k.pending \in Nat /\ k.seen \in Nat
    /\ \A p \in Program : p.wrote \in Nat /\ p.got \in Nat
  BY DEF Socket, Program

LEMMA SocketFields ==
    ASSUME NEW k \in Socket
    PROVE  /\ \A n \in Nat : /\ [k EXCEPT !.pending = n] \in Socket
                             /\ [k EXCEPT !.seen = n] \in Socket
           /\ [k EXCEPT !.state = "open"] \in Socket
           /\ [k EXCEPT !.state = "connecting"] \in Socket
           /\ [k EXCEPT !.state = "closed"] \in Socket
           /\ [k EXCEPT !.state = "dead", !.pending = 0] \in Socket
           /\ [k EXCEPT !.ended = TRUE] \in Socket
           /\ [k EXCEPT !.atEnd = TRUE, !.ended = TRUE] \in Socket
           /\ \A mock \in BOOLEAN : [k EXCEPT !.state = "open", !.mock = mock] \in Socket
  BY DEF Socket

LEMMA ConnFields ==
    /\ NewConn \in Conn /\ [NewConn EXCEPT !.phase = "none"] \in Conn
    /\ [NewConn EXCEPT !.send = "ready"] \in Conn /\ [NewConn EXCEPT !.recv = "ready"] \in Conn
    /\ Closed(NewConn) \in Conn
    /\ \A c \in Conn : /\ [c EXCEPT !.send = "ready"] \in Conn
                       /\ [c EXCEPT !.send = "stopped"] \in Conn
                       /\ [c EXCEPT !.recv = "ready"] \in Conn
                       /\ [c EXCEPT !.recv = "stop"] \in Conn
                       /\ [c EXCEPT !.phase = "freed"] \in Conn
                       /\ Closed(c) \in Conn
  BY DEF Conn, NewConn, Closed

LEMMA ProgramFields ==
    ASSUME NEW p \in Program
    PROVE  /\ \A n \in Nat : /\ [p EXCEPT !.wrote = n] \in Program
                             /\ [p EXCEPT !.got = n] \in Program
           /\ [p EXCEPT !.out = "ended"] \in Program
           /\ [p EXCEPT !.out = "reset"] \in Program
           /\ [p EXCEPT !.eof = TRUE] \in Program
  BY DEF Program

LEMMA FrameSeqs ==
    /\ <<>> \in Seq(Frames) /\ <<"connect">> \in Seq(Frames) /\ <<"push">> \in Seq(Frames)
    /\ <<"fin">> \in Seq(Frames) /\ <<"cls">> \in Seq(Frames)
    /\ \A f \in Seq(Frames), g \in Seq(Frames) : f \o g \in Seq(Frames)
    /\ \A f \in Seq(Frames) : f # <<>> => Tail(f) \in Seq(Frames)
  BY DEF Frames

LEMMA InitTyped == Init => TypeOK
  <1> SUFFICES ASSUME Init PROVE TypeOK
    OBVIOUS
  <1>1. prog \in [End -> Program]
    BY DEF Init, Program
  <1>2. sock \in [End -> Socket]
    BY DEF Init, Socket
  <1>3. conn \in [End -> Conn] /\ chan \in [End -> Seq(Frames)]
    BY ConnFields, FrameSeqs DEF Init
  <1> QED
    BY <1>1, <1>2, <1>3 DEF Init, TypeOK

LEMMA PostTyped ==
    ASSUME TypeOK, NEW s \in End, NEW f \in Seq(Frames), Post(s, f)
    PROVE  chan' \in [End -> Seq(Frames)]
  BY Ends, FrameSeqs DEF TypeOK, Post

LEMMA CallsTyped ==
    ASSUME TypeOK, NEW s \in End, NEW before \in Seq(Frames),
           SendBuf(s) \/ SendStop(s) \/ Close(s, before)
    PROVE  conn' \in [End -> Conn] /\ chan' \in [End -> Seq(Frames)]
  <1>1. conn \in [End -> Conn] /\ chan \in [End -> Seq(Frames)] /\ conn[s] \in Conn
    BY DEF TypeOK
  <1>2. CASE SendBuf(s)
    BY <1>1, <1>2, FrameSeqs, ConnFields, PostTyped DEF SendBuf
  <1>3. CASE SendStop(s)
    BY <1>1, <1>3, FrameSeqs, ConnFields, PostTyped DEF SendStop
  <1>4. CASE Close(s, before)
    <2>1. CloseFrames(s) \in Seq(Frames)
      BY FrameSeqs DEF CloseFrames
    <2>2. before \o (IF conn[s].phase = "open" THEN CloseFrames(s) ELSE <<>>) \in Seq(Frames)
      BY <2>1, FrameSeqs
    <2> QED
      BY <1>1, <1>4, <2>2, ConnFields, PostTyped DEF Close
  <1> QED
    BY <1>2, <1>3, <1>4

LEMMA SocketCalls ==
    ASSUME NEW k \in Socket
    PROVE  Fails(k) \in Socket /\ Ended(k) \in Socket /\ Written(k) \subseteq Socket
  <1>0. k.pending + 1 \in Nat
    BY Counters
  <1>1. /\ [k EXCEPT !.state = "dead", !.pending = 0] \in Socket
        /\ [k EXCEPT !.ended = TRUE] \in Socket
        /\ [k EXCEPT !.pending = @ + 1] \in Socket
    BY <1>0, SocketFields
  <1>2. Fails(k) \in Socket
    BY <1>1 DEF Fails
  <1>3. Ended(k) \in Socket
    BY <1>1 DEF Ended
  <1> QED
    BY <1>1, <1>2, <1>3 DEF Written

LEMMA StepTyped == TypeOK /\ [Next]_vars => TypeOK'
  <1> SUFFICES ASSUME TypeOK, [Next]_vars PROVE TypeOK'
    OBVIOUS
  <1> USE Ends
  <1>a. /\ prog \in [End -> Program] /\ sock \in [End -> Socket] /\ conn \in [End -> Conn]
        /\ chan \in [End -> Seq(Frames)] /\ failed \in BOOLEAN /\ expired \in BOOLEAN
        /\ null \in BOOLEAN
    BY DEF TypeOK
  <1> DEFINE Typed == /\ prog' \in [End -> Program] /\ sock' \in [End -> Socket]
                     /\ conn' \in [End -> Conn] /\ chan' \in [End -> Seq(Frames)]
                     /\ failed' \in BOOLEAN /\ expired' \in BOOLEAN
                     /\ null' \in BOOLEAN
  <1>b. SUFFICES Typed
    BY DEF TypeOK
  <1>1. CASE UNCHANGED vars
    BY <1>1, <1>a DEF vars
  <1>2. CASE Accept
    <2>1. chan' \in [End -> Seq(Frames)]
      BY <1>2, PostTyped, FrameSeqs DEF Accept
    <2>2. sock' \in [End -> Socket]
      <3>1. PICK mock \in BOOLEAN :
               sock' = [sock EXCEPT ![A].state = "open", ![A].mock = mock]
        BY <1>2 DEF Accept
      <3>2. sock' = [sock EXCEPT ![A] = [sock[A] EXCEPT !.state = "open", !.mock = mock]]
        BY <1>a, <3>1
      <3> QED
        BY <1>a, <3>2, SocketFields
    <2> QED
      BY <1>2, <1>a, <2>1, <2>2, ConnFields DEF Accept
  <1>3. CASE Connected
    BY <1>3, <1>a, SocketFields DEF Connected
  <1>4. CASE ConnectFails
    BY <1>4, <1>a, SocketCalls DEF ConnectFails
  <1>5. ASSUME NEW s \in End, ProgWrites(s) \/ ProgEnds(s) \/ ProgResets(s) \/ FlushEnd(s)
        PROVE  Typed
    <2>n. prog[s] \in Program /\ prog[s].wrote + 1 \in Nat
      BY <1>a, Counters
    <2>0. /\ [prog[s] EXCEPT !.wrote = @ + 1] \in Program
          /\ [prog[s] EXCEPT !.out = "ended"] \in Program
          /\ [prog[s] EXCEPT !.out = "reset"] \in Program
          /\ [prog[s] EXCEPT !.eof = TRUE] \in Program
      BY <2>n, ProgramFields
    <2>1. prog' \in [End -> Program]
      BY <1>5, <1>a, <2>0 DEF ProgWrites, ProgEnds, ProgResets, FlushEnd
    <2> QED
      BY <1>5, <1>a, <2>1 DEF ProgWrites, ProgEnds, ProgResets, FlushEnd
  <1>6. ASSUME NEW s \in End, Flush(s) PROVE Typed
    <2>1. sock[s].pending \in Nat /\ prog[s].got \in Nat
      BY <1>a, Counters
    <2>2. sock[s].pending - 1 \in Nat /\ prog[s].got + 1 \in Nat
      BY <1>6, <2>1 DEF Flush
    <2>3. /\ [sock[s] EXCEPT !.pending = @ - 1] \in Socket
          /\ [prog[s] EXCEPT !.got = @ + 1] \in Program
      BY <1>a, <2>2, SocketFields, ProgramFields
    <2> QED
      BY <1>6, <1>a, <2>3 DEF Flush
  <1>7. ASSUME NEW s \in End, SockData(s) PROVE Typed
    <2>1. conn' \in [End -> Conn] /\ chan' \in [End -> Seq(Frames)]
      BY <1>7, CallsTyped, FrameSeqs DEF SockData
    <2>2. sock[s] \in Socket /\ sock[s].seen + 1 \in Nat
      BY <1>a, Counters
    <2>3. [sock[s] EXCEPT !.seen = @ + 1] \in Socket
      BY <2>2, SocketFields
    <2> QED
      BY <1>7, <1>a, <2>1, <2>3 DEF SockData
  <1>8. ASSUME NEW s \in End, SockEnd(s) PROVE Typed
    <2>1. conn' \in [End -> Conn] /\ chan' \in [End -> Seq(Frames)]
      BY <1>8, <1>a, CallsTyped, FrameSeqs DEF SockEnd
    <2>2. sock' = [sock EXCEPT ![s] = [sock[s] EXCEPT !.atEnd = TRUE, !.ended = TRUE]]
      BY <1>8, <1>a DEF SockEnd
    <2>3. [sock[s] EXCEPT !.atEnd = TRUE, !.ended = TRUE] \in Socket
      BY <1>a, SocketFields
    <2> QED
      BY <1>8, <1>a, <2>1, <2>2, <2>3 DEF SockEnd
  <1>9. ASSUME NEW s \in End, SockError(s) PROVE Typed
    BY <1>9, <1>a, SocketCalls DEF SockError
  <1>10. ASSUME NEW s \in End, SockClose(s) PROVE Typed
    <2>1. SendClose(s) \in Seq(Frames)
      BY FrameSeqs DEF SendClose
    <2>2. conn' \in [End -> Conn] /\ chan' \in [End -> Seq(Frames)]
      BY <1>10, <2>1, CallsTyped DEF SockClose
    <2> QED
      BY <1>10, <1>a, <2>2, SocketFields, ProgramFields DEF SockClose
  <1>11. ASSUME NEW s \in End, ConnRemoved(s) PROVE Typed
    BY <1>11, <1>a, SocketCalls, ConnFields DEF ConnRemoved
  <1>12. ASSUME NEW s \in End, chan[s] # <<>> PROVE Rest(s) \in [End -> Seq(Frames)]
    BY <1>12, <1>a, FrameSeqs DEF Rest
  <1>13. CASE RecvOpen
    <2>1. chan' \in [End -> Seq(Frames)]
      BY <1>12, <1>13 DEF RecvOpen, Arrives
    <2>2. [sock[B] EXCEPT !.state = "connecting"] \in Socket
      BY <1>a, SocketFields
    <2>3. sock' \in [End -> Socket]
      BY <1>13, <1>a, <2>2 DEF RecvOpen
    <2>4. [NewConn EXCEPT !.recv = "ready"] \in Conn /\ Closed(NewConn) \in Conn
      BY ConnFields
    <2>5. conn' \in [End -> Conn]
      BY <1>13, <1>a, <2>4 DEF RecvOpen
    <2> QED
      BY <1>13, <1>a, <2>1, <2>3, <2>5 DEF RecvOpen
  <1>14. ASSUME NEW s \in End, RecvData(s) PROVE Typed
    <2>1. chan' \in [End -> Seq(Frames)]
      BY <1>12, <1>14 DEF RecvData, Arrives
    <2>2. Written(sock[s]) \subseteq Socket
      BY <1>a, SocketCalls
    <2>3. [conn[s] EXCEPT !.recv = "ready"] \in Conn
      BY <1>a, ConnFields
    <2>4. conn' \in [End -> Conn]
      BY <1>14, <1>a, <2>3 DEF RecvData
    <2>5. sock' \in [End -> Socket]
      BY <1>14, <1>a, <2>2 DEF RecvData
    <2> QED
      BY <1>14, <1>a, <2>1, <2>4, <2>5 DEF RecvData
  <1>15. ASSUME NEW s \in End, RecvFin(s) PROVE Typed
    <2>1. chan' \in [End -> Seq(Frames)]
      BY <1>12, <1>15 DEF RecvFin, Arrives
    <2>2. [conn[s] EXCEPT !.recv = "stop"] \in Conn /\ Ended(sock[s]) \in Socket
      BY <1>a, ConnFields, SocketCalls
    <2> QED
      BY <1>15, <1>a, <2>1, <2>2 DEF RecvFin
  <1>16. ASSUME NEW s \in End, RecvCls(s) PROVE Typed
    <2>1. Rest(s) \in [End -> Seq(Frames)]
      BY <1>12, <1>16 DEF RecvCls, Arrives
    <2>2. CloseFrames(s) \in Seq(Frames)
      BY FrameSeqs DEF CloseFrames
    <2>3. \A f \in Seq(Frames) :
             [Rest(s) EXCEPT ![Peer(s)] = @ \o f] \in [End -> Seq(Frames)]
      BY <2>1, FrameSeqs
    <2>4. (IF conn[s].phase = "open" THEN CloseFrames(s) ELSE <<>>) \in Seq(Frames)
      BY <2>2, FrameSeqs
    <2>5. chan' \in [End -> Seq(Frames)]
      BY <1>16, <2>1, <2>3, <2>4 DEF RecvCls
    <2>6. Closed(conn[s]) \in Conn
      BY <1>a, ConnFields
    <2>7. conn' \in [End -> Conn]
      BY <1>16, <1>a, <2>6 DEF RecvCls
    <2> QED
      BY <1>16, <1>a, <2>5, <2>7 DEF RecvCls
  <1>17. ASSUME NEW s \in End, TimesOut(s) PROVE Typed
    <2>1. conn' \in [End -> Conn] /\ chan' \in [End -> Seq(Frames)]
      BY <1>17, CallsTyped, FrameSeqs DEF TimesOut
    <2> QED
      BY <1>17, <1>a, <2>1 DEF TimesOut
  <1> QED
    BY <1>1, <1>2, <1>3, <1>4, <1>5, <1>6, <1>7, <1>8, <1>9, <1>10, <1>11, <1>13,
       <1>14, <1>15, <1>16, <1>17 DEF Next, Events, Input

(* Every variable of the relay keeps its type: what is flushed was         *)
(* written, and frames are those a conn sends.                             *)
THEOREM TypeCorrect == Spec => []TypeOK
  BY InitTyped, StepTyped, PTL DEF Spec

(***************************************************************************)
(* Frames on their way.                                                    *)
(***************************************************************************)
LEMMA Appended ==
    ASSUME NEW q \in Seq(Frames), NEW f \in Frames
    PROVE  LET r == q \o <<f>> IN
           /\ r \in Seq(Frames) /\ Len(r) = Len(q) + 1 /\ Len(q) \in Nat
           /\ r # <<>> /\ r[Len(r)] = f
           /\ \A i \in DOMAIN r : i = Len(r) \/ (i \in DOMAIN q /\ r[i] = q[i])
           /\ q # <<>> => 1 \in DOMAIN q /\ r[1] = q[1]
           /\ q = <<>> => r[1] = f
  OBVIOUS

LEMMA Taken ==
    ASSUME NEW q \in Seq(Frames), q # <<>>
    PROVE  LET r == Tail(q) IN
           /\ r \in Seq(Frames) /\ Len(r) = Len(q) - 1 /\ Len(q) \in Nat /\ Len(q) >= 1
           /\ 1 \in DOMAIN q /\ Len(q) \in DOMAIN q /\ Head(q) = q[1]
           /\ \A i \in DOMAIN r : i + 1 \in DOMAIN q /\ r[i] = q[i + 1]
           /\ r = <<>> <=> Len(q) = 1
           /\ r # <<>> => r[Len(r)] = q[Len(q)]
  <1> DEFINE r == Tail(q)
  <1>1. /\ Len(q) \in Nat /\ Len(q) >= 1 /\ 1 \in DOMAIN q /\ Len(q) \in DOMAIN q
        /\ Head(q) = q[1]
    OBVIOUS
  <1>2. r \in Seq(Frames) /\ Len(r) = Len(q) - 1 /\ \A i \in 1..Len(r) : r[i] = q[i + 1]
    BY HeadTailProperties
  <1>3. DOMAIN r = 1..Len(r) /\ DOMAIN q = 1..Len(q) /\ (r = <<>> <=> Len(r) = 0)
    BY <1>2
  <1> HIDE DEF r
  <1>4. \A i \in DOMAIN r : i + 1 \in DOMAIN q /\ r[i] = q[i + 1]
    BY <1>1, <1>2, <1>3
  <1>5. r # <<>> => Len(r) \in DOMAIN r
    BY <1>1, <1>2, <1>3
  <1> QED
    BY <1>1, <1>2, <1>3, <1>4, <1>5 DEF r

LEMMA InFlightType == \A s \in End : TypeOK => InFlight(s) \in Int
  BY DEF InFlight, TypeOK

(* While no conn opens, what is in flight depends on the frames alone. *)
LEMMA InFlightSame ==
    ASSUME NEW s \in End, chan'[s] = chan[s], Opening(s)' <=> Opening(s)
    PROVE  InFlight(s)' = InFlight(s) /\ NoCls(s)' = NoCls(s)
  BY DEF InFlight, FinComes, NoCls

(***************************************************************************)
(* The invariant holds at first, and every step keeps it.                  *)
(***************************************************************************)

LEMMA InitInv == Init => RelayInv
  <1> SUFFICES ASSUME Init PROVE RelayInv
    OBVIOUS
  <1>0. \A s \in End :
           /\ prog[s].out = "open" /\ ~prog[s].eof /\ prog[s].got = 0
           /\ sock[s].state = "none" /\ ~sock[s].atEnd /\ ~sock[s].ended /\ ~sock[s].mock
           /\ sock[s].seen = 0 /\ sock[s].pending = 0
           /\ conn[s].phase = "none" /\ conn[s].send = "none" /\ conn[s].recv = "none"
           /\ chan[s] = <<>>
    BY DEF Init, NewConn
  <1>1. SocketsSound
    BY <1>0 DEF SocketsSound
  <1>2. OpenFirst
    BY <1>0, Ends DEF OpenFirst, Opening
  <1>3. ASSUME NEW s \in End PROVE CleanInv(s)
    <2>1. InFlight(s) = 0 /\ NoCls(s) /\ NoCls(Peer(s))
      BY <1>0, Ends DEF InFlight, Opening, FinComes, NoCls
    <2> QED
      BY <1>0, <2>1, Ends DEF CleanInv, NothingClosed, EndLast, Conserved
  <1> QED
    BY <1>1, <1>2, <1>3 DEF RelayInv, NeverNull, Init

LEMMA InFlightGrows ==
    ASSUME TypeOK, NEW s \in End, NEW f \in Frames,
           chan'[s] = chan[s] \o <<f>>, Opening(s)' <=> Opening(s), ~FinComes(s)
    PROVE  /\ InFlight(s)' = InFlight(s) + (IF f = "fin" THEN 0 ELSE 1)
           /\ NoCls(s) /\ f # "cls" => NoCls(s)'
  <1>1. chan[s] \in Seq(Frames)
    BY DEF TypeOK
  <1>2. Len(chan'[s]) = Len(chan[s]) + 1 /\ Len(chan[s]) \in Nat
    BY <1>1, Appended
  <1>3. FinComes(s)' <=> f = "fin"
    BY <1>1, Appended DEF FinComes
  <1> DEFINE opens == IF Opening(s) THEN 1 ELSE 0
             ends == IF f = "fin" THEN 1 ELSE 0
  <1>4. (IF Opening(s)' THEN 1 ELSE 0) = opens /\ opens \in {0, 1}
    OBVIOUS
  <1>5. InFlight(s) = Len(chan[s]) - opens - 0
    BY DEF InFlight
  <1>6. InFlight(s)' = Len(chan'[s]) - opens - ends
    BY <1>3, <1>4 DEF InFlight
  <1>7. (IF f = "fin" THEN 0 ELSE 1) = 1 - ends /\ ends \in {0, 1}
    OBVIOUS
  <1>8. NoCls(s) /\ f # "cls" => NoCls(s)'
    BY <1>1, Appended DEF NoCls
  <1> DEFINE more == IF f = "fin" THEN 0 ELSE 1
  <1> HIDE DEF opens, ends, more
  <1>9. InFlight(s)' = InFlight(s) + (1 - ends)
    BY <1>2, <1>4, <1>5, <1>6, <1>7
  <1> QED
    BY <1>7, <1>8, <1>9

LEMMA InFlightShrinks ==
    ASSUME TypeOK, NEW s \in End, chan[s] # <<>>, chan'[s] = Tail(chan[s]), ~Opening(s)',
           \A i \in DOMAIN chan[s] : chan[s][i] = "fin" => i = Len(chan[s]),
           Opening(s) => Head(chan[s]) # "fin"
    PROVE  /\ InFlight(s)' =
                 InFlight(s) - (IF Opening(s) \/ Head(chan[s]) = "fin" THEN 0 ELSE 1)
           /\ NoCls(s) => NoCls(s)'
           /\ \A i \in DOMAIN chan'[s] : chan'[s][i] = "fin" => i = Len(chan'[s])
           /\ Head(chan[s]) = "fin" => chan'[s] = <<>>
  <1>1. chan[s] \in Seq(Frames)
    BY DEF TypeOK
  <1>2. /\ Len(chan'[s]) = Len(chan[s]) - 1 /\ Len(chan[s]) \in Nat
        /\ Head(chan[s]) = chan[s][1] /\ 1 \in DOMAIN chan[s]
        /\ chan'[s] = <<>> <=> Len(chan[s]) = 1
        /\ chan'[s] # <<>> => chan'[s][Len(chan'[s])] = chan[s][Len(chan[s])]
        /\ \A i \in DOMAIN chan'[s] : i + 1 \in DOMAIN chan[s] /\ chan'[s][i] = chan[s][i + 1]
        /\ DOMAIN chan'[s] = 1..Len(chan'[s])
    BY <1>1, Taken
  <1>3. Head(chan[s]) = "fin" => Len(chan[s]) = 1
    BY <1>2
  <1>4. NoCls(s) => NoCls(s)'
    BY <1>2 DEF NoCls
  <1>5. \A i \in DOMAIN chan'[s] : chan'[s][i] = "fin" => i = Len(chan'[s])
    BY <1>2
  <1>6. FinComes(s) <=> chan[s][Len(chan[s])] = "fin"
    BY DEF FinComes
  <1>7. FinComes(s)' <=> FinComes(s) /\ Head(chan[s]) # "fin"
    BY <1>2, <1>3, <1>6 DEF FinComes
  <1>8. Head(chan[s]) = "fin" => FinComes(s)
    BY <1>2, <1>3, <1>6
  <1> DEFINE opens == IF Opening(s) THEN 1 ELSE 0
             fin == IF FinComes(s) THEN 1 ELSE 0
             after == IF FinComes(s)' THEN 1 ELSE 0
             taken == IF Opening(s) \/ Head(chan[s]) = "fin" THEN 0 ELSE 1
  <1>9. InFlight(s) = Len(chan[s]) - opens - fin
    BY DEF InFlight
  <1>10. InFlight(s)' = Len(chan'[s]) - 0 - after
    BY DEF InFlight
  <1>11. opens \in {0, 1} /\ fin \in {0, 1} /\ after \in {0, 1} /\ taken \in {0, 1}
         /\ taken = 1 - opens - (fin - after)
    <2>1. CASE Opening(s)
      <3>1. Head(chan[s]) # "fin" /\ (FinComes(s)' <=> FinComes(s))
        BY <1>7, <2>1
      <3>2. opens = 1 /\ taken = 0 /\ fin = after /\ fin \in {0, 1}
        BY <2>1, <3>1
      <3> HIDE DEF opens, fin, after, taken
      <3> QED
        BY <3>2
    <2>2. CASE ~Opening(s) /\ Head(chan[s]) = "fin"
      <3>1. opens = 0 /\ taken = 0 /\ fin = 1 /\ after = 0
        BY <1>7, <1>8, <2>2
      <3> HIDE DEF opens, fin, after, taken
      <3> QED
        BY <3>1
    <2>3. CASE ~Opening(s) /\ Head(chan[s]) # "fin"
      <3>1. opens = 0 /\ taken = 1 /\ fin = after /\ fin \in {0, 1}
        BY <1>7, <2>3
      <3> HIDE DEF opens, fin, after, taken
      <3> QED
        BY <3>1
    <2> QED
      BY <2>1, <2>2, <2>3
  <1> HIDE DEF opens, fin, after, taken
  <1>12. InFlight(s)' = InFlight(s) - taken
    BY <1>2, <1>9, <1>10, <1>11
  <1> QED
    BY <1>2, <1>3, <1>4, <1>5, <1>12 DEF taken

(* What leaves conns and frames alone. *)
LEMMA ProgramInv ==
    ASSUME TypeOK, RelayInv, NEW s \in End,
           ProgWrites(s) \/ ProgEnds(s) \/ ProgResets(s) \/ FlushEnd(s)
    PROVE  RelayInv'
  <1>1. /\ UNCHANGED <<sock, conn, chan, expired, null>>
        /\ failed' = failed \/ failed' = TRUE
        /\ prog'[Peer(s)] = prog[Peer(s)]
        /\ prog'[s].got = prog[s].got
        /\ prog[s].wrote = prog'[s].wrote \/ prog[s].out = "open"
        /\ prog'[s].eof = prog[s].eof \/ (sock[s].ended /\ sock[s].pending = 0)
        /\ \/ prog'[s].out = prog[s].out 
           \/ prog[s].out = "open" /\ prog'[s].out = "ended"
           \/ prog'[s].out = "reset" /\ failed'
        /\ failed => failed'
    BY Ends DEF ProgWrites, ProgEnds, ProgResets, FlushEnd, TypeOK, Program
  <1>2. SocketsSound'
    BY <1>1, Ends DEF SocketsSound, RelayInv
  <1>3. OpenFirst'
    BY <1>1 DEF OpenFirst, RelayInv, Opening
  <1>4. ASSUME NEW t \in End, Clean(t)' PROVE CleanInv(t)'
    <2>1. Clean(t) /\ ~failed'
      BY <1>1, <1>4, Ends DEF Clean, HasEnd
    <2>2. CleanInv(t)
      BY <2>1 DEF RelayInv
    <2>a. /\ InFlight(t)' = InFlight(t)
          /\ NoCls(t)' = NoCls(t) /\ NoCls(Peer(t))' = NoCls(Peer(t))
      BY <1>1, InFlightSame, Ends DEF Opening
    <2>3. NothingClosed(t)'
      BY <1>1, <2>2, <2>a DEF CleanInv, NothingClosed
    <2>4. EndLast(t)'
      BY <1>1, <2>1, <2>2, Ends DEF CleanInv, EndLast
    <2>5. Conserved(t)'
      BY <1>1, <2>2, <2>a, Ends DEF CleanInv, Conserved
    <2> QED
      BY <2>3, <2>4, <2>5 DEF CleanInv
  <1> QED
    BY <1>1, <1>2, <1>3, <1>4 DEF RelayInv, NeverNull

LEMMA SockDataInv ==
    ASSUME TypeOK, RelayInv, NEW s \in End, SockData(s)
    PROVE  RelayInv'
  <1>1. /\ UNCHANGED <<prog, failed, expired, null>>
        /\ sock'[Peer(s)] = sock[Peer(s)]
        /\ sock[s].state = "open" /\ ~sock[s].atEnd
        /\ sock'[s].state = sock[s].state
        /\ sock'[s].seen = sock[s].seen + 1
        /\ sock'[s].pending = sock[s].pending
        /\ sock'[s].atEnd = sock[s].atEnd
        /\ sock'[s].ended = sock[s].ended
        /\ sock'[s].mock = sock[s].mock
    BY Ends DEF SockData, Reached, TypeOK, Socket
  <1> DEFINE sends == ConnAlive(s) /\ conn[s].send # "stopped"
  <1>2. /\ conn'[Peer(s)] = conn[Peer(s)] /\ chan'[s] = chan[s]
        /\ conn'[s].phase = conn[s].phase
        /\ conn'[s].recv = conn[s].recv
        /\ conn'[s].send = IF sends THEN "ready" ELSE conn[s].send
    BY Ends DEF SockData, SendBuf, Post, TypeOK, Conn
  <1>3. \/ sends /\ \E f \in {"connect", "push"} : chan'[Peer(s)] = chan[Peer(s)] \o <<f>>
        \/ ~sends /\ chan'[Peer(s)] = chan[Peer(s)]
    BY Ends DEF SockData, SendBuf, Post, TypeOK
  <1>4. conn[s].phase # "none"
    BY <1>1 DEF RelayInv, SocketsSound
  <1>5. SocketsSound'
    BY <1>1, <1>2, Ends DEF SocketsSound, RelayInv, ConnAlive
  <1>n. /\ chan[Peer(s)] \in Seq(Frames)
        /\ {"connect", "push"} \subseteq Frames
        /\ \A t \in End : /\ sock[t].seen \in Nat /\ sock[t].pending \in Nat
                          /\ prog[t].got \in Nat
    BY Ends, Counters DEF TypeOK, Frames
  <1>6. OpenFirst'
    BY <1>2, <1>3, <1>4, <1>n, Appended, Ends DEF OpenFirst, RelayInv, Opening
  <1>7. ASSUME NEW t \in End, Clean(t)' PROVE CleanInv(t)'
    <2>1. CleanInv(t)
      BY <1>1, <1>7, Ends DEF RelayInv, Clean, HasEnd
    <2>a. NoCls(s)' /\ NoCls(Peer(s))'
      <3>1. NoCls(s) /\ NoCls(Peer(s))
        BY <2>1, Ends DEF CleanInv, NothingClosed
      <3> QED
        <4>1. CASE chan'[Peer(s)] = chan[Peer(s)]
          BY <1>2, <3>1, <4>1 DEF NoCls
        <4>2. ASSUME NEW f \in {"connect", "push"}, chan'[Peer(s)] = chan[Peer(s)] \o <<f>>
              PROVE  NoCls(Peer(s))'
          <5>1. f \in Frames /\ f # "cls"
            BY <1>n
          <5> QED
            BY <1>n, <3>1, <4>2, <5>1, Appended DEF NoCls
        <4>3. NoCls(s)'
          BY <1>2, <3>1 DEF NoCls
        <4> QED
          BY <1>3, <4>1, <4>2, <4>3
    <2>b. InFlight(s)' = InFlight(s) /\ (Opening(t)' <=> Opening(t))
      BY <1>2, Ends, InFlightSame DEF Opening
    <2>2. CASE t = s
      <3>1. NothingClosed(t)'
        BY <1>1, <1>2, <2>1, <2>2, <2>a, Ends DEF CleanInv, NothingClosed
      <3>2. EndLast(t)'
        BY <1>1, <1>2, <2>1, <2>2, Ends DEF CleanInv, EndLast
      <3>3. Conserved(t)'
        BY <1>1, <1>2, <2>1, <2>2, <2>b, Ends DEF CleanInv, Conserved
      <3> QED
        BY <3>1, <3>2, <3>3 DEF CleanInv
    <2>3. CASE t = Peer(s)
      <3>0. sends
        BY <1>1, <2>1, <2>3, Ends DEF CleanInv, NothingClosed, ConnAlive
      <3>a. PICK f \in {"connect", "push"} : chan'[t] = chan[t] \o <<f>>
        BY <1>3, <2>3, <3>0
      <3>1. NothingClosed(t)'
        BY <1>1, <1>2, <2>1, <2>3, <2>a, <3>0, Ends DEF CleanInv, NothingClosed
      <3>2. EndLast(t)'
        BY <1>1, <1>2, <1>n, <2>1, <2>3, <3>0, <3>a, Ends, Appended DEF CleanInv, EndLast
      <3>3. Conserved(t)'
        <4>1. ~FinComes(t)
          BY <1>1, <1>n, <2>1, <2>3, Ends DEF CleanInv, EndLast, FinComes
        <4>5. InFlight(t)' = InFlight(t) + 1
          BY <1>n, <2>b, <3>a, <4>1, InFlightGrows
        <4>6. sock'[s].seen = sock[s].seen + 1 /\ sock'[t] = sock[t] /\ prog'[t] = prog[t]
              /\ conn'[t] = conn[t] /\ Peer(t) = s
          BY <1>1, <1>2, <2>3, Ends
        <4>7. InFlight(t) \in Int
          BY InFlightType
        <4>8. /\ sock[s].seen \in Nat /\ prog[t].got \in Nat /\ sock[t].pending \in Nat
              /\ conn[t].phase \in {"none", "open"} =>
                    sock[s].seen = prog[t].got + sock[t].pending + InFlight(t)
          BY <1>n, <2>1, <4>6 DEF CleanInv, Conserved
        <4>9. conn[t].phase \in {"none", "open"} =>
                    sock[s].seen + 1 = prog[t].got + sock[t].pending + (InFlight(t) + 1)
          BY <4>7, <4>8
        <4> QED
          BY <4>5, <4>6, <4>9 DEF Conserved
      <3> QED
        BY <3>1, <3>2, <3>3 DEF CleanInv
    <2> QED
      BY <2>2, <2>3, Ends
  <1> QED
    BY <1>1, <1>5, <1>6, <1>7 DEF RelayInv, NeverNull

LEMMA NotConnected == ASSUME TypeOK, RelayInv, ConnectFails PROVE RelayInv'
  <1>1. /\ UNCHANGED <<prog, conn, chan, expired, null>> /\ failed'
        /\ sock'[A] = sock[A]
        /\ sock[B].state = "connecting" /\ sock'[B].state = "dead"
        /\ sock'[B].atEnd = sock[B].atEnd
        /\ sock'[B].ended = sock[B].ended
        /\ sock'[B].mock = sock[B].mock
    BY Ends DEF ConnectFails, Fails, TypeOK, Socket
  <1>2. SocketsSound'
    BY <1>1, Ends DEF SocketsSound, RelayInv
  <1>3. OpenFirst'
    BY <1>1 DEF OpenFirst, RelayInv, Opening
  <1> QED
    BY <1>1, <1>2, <1>3 DEF RelayInv, NeverNull, Clean

LEMMA SocketInv ==
    ASSUME TypeOK, RelayInv, NEW s \in End,
           Flush(s) \/ SockError(s) \/ (s = B /\ Connected)
    PROVE  RelayInv'
  <1>1. /\ UNCHANGED <<conn, chan, failed, expired, null>>
        /\ sock'[Peer(s)] = sock[Peer(s)] /\ prog'[Peer(s)] = prog[Peer(s)]
        /\ prog'[s].out = prog[s].out /\ prog'[s].eof = prog[s].eof
        /\ prog'[s].wrote = prog[s].wrote
        /\ sock'[s].seen = sock[s].seen
        /\ sock'[s].atEnd = sock[s].atEnd
        /\ sock'[s].ended = sock[s].ended
        /\ sock'[s].mock = sock[s].mock
        /\ sock[s].state # "none" /\ sock'[s].state # "none"
        /\ \/ /\ Flush(s)
              /\ sock'[s].state = sock[s].state
              /\ sock[s].pending > 0
              /\ sock'[s].pending = sock[s].pending - 1
              /\ prog'[s].got = prog[s].got + 1
           \/ /\ SockError(s)
              /\ prog[s].out = "reset"
           \/ /\ sock[s].state = "connecting" /\ sock'[s].state = "open"
              /\ sock'[s].pending = sock[s].pending
              /\ prog'[s].got = prog[s].got
    <2>0. sock[s] \in Socket /\ prog[s] \in Program /\ sock \in [End -> Socket]
          /\ prog \in [End -> Program]
      BY DEF TypeOK
    <2>1. CASE Flush(s)
      BY <2>0, <2>1, Ends DEF Flush, Reached, Socket, Program
    <2>2. CASE SockError(s)
      BY <2>0, <2>2, Ends DEF SockError, Reached, Fails, Socket
    <2>3. CASE s = B /\ Connected
      BY <2>0, <2>3, Ends DEF Connected, Socket
    <2> QED
      BY <2>1, <2>2, <2>3
  <1>2. SocketsSound'
    BY <1>1, Ends DEF SocketsSound, RelayInv
  <1>3. OpenFirst'
    BY <1>1 DEF OpenFirst, RelayInv, Opening
  <1>4. ASSUME NEW t \in End, Clean(t)' PROVE CleanInv(t)'
    <2>1. Clean(t) /\ CleanInv(t)
      BY <1>1, <1>4, Ends DEF Clean, HasEnd, RelayInv
    <2>2. ~SockError(s)
      <3>1. prog[s].out = "reset" => failed
        BY DEF RelayInv, SocketsSound
      <3> QED
        BY <2>1, <3>1 DEF SockError, Clean
    <2>3. /\ InFlight(t)' = InFlight(t) /\ InFlight(t) \in Int
          /\ NoCls(t)' = NoCls(t) /\ NoCls(Peer(t))' = NoCls(Peer(t))
      BY <1>1, InFlightSame, InFlightType, Ends DEF Opening
    <2>4. NothingClosed(t)'
      BY <1>1, <2>1, <2>2, <2>3, Ends DEF CleanInv, NothingClosed
    <2>5. EndLast(t)'
      BY <1>1, <2>1, <2>2, Ends DEF CleanInv, EndLast
    <2>6. prog'[t].got + sock'[t].pending = prog[t].got + sock[t].pending
      <3>1. prog[t].got \in Nat /\ sock[t].pending \in Nat
        BY Counters DEF TypeOK
      <3> QED
        BY <1>1, <2>2, <3>1, Ends
    <2>7. sock'[Peer(t)].seen = sock[Peer(t)].seen
      BY <1>1, Ends
    <2>8. Conserved(t)'
      BY <1>1, <2>1, <2>3, <2>6, <2>7 DEF CleanInv, Conserved
    <2> QED
      BY <2>4, <2>5, <2>8 DEF CleanInv
  <1> QED
    BY <1>1, <1>2, <1>3, <1>4 DEF RelayInv, NeverNull

LEMMA AcceptInv == ASSUME TypeOK, RelayInv, Accept PROVE RelayInv'
  <1>1. /\ UNCHANGED <<prog, failed, expired, null>>
        /\ sock[A].state = "none" /\ sock'[A].state = "open"
        /\ sock'[A].seen = sock[A].seen
        /\ sock'[A].pending = sock[A].pending
        /\ sock'[A].atEnd = sock[A].atEnd
        /\ sock'[A].ended = sock[A].ended
        /\ sock'[B] = sock[B]
    <2>1. PICK mock \in BOOLEAN :
             sock' = [sock EXCEPT ![A].state = "open", ![A].mock = mock]
      BY DEF Accept
    <2>2. sock' = [sock EXCEPT ![A] = [sock[A] EXCEPT !.state = "open", !.mock = mock]]
      BY <2>1 DEF TypeOK
    <2> QED
      BY <2>2, Ends DEF Accept, TypeOK, Socket
  <1>2. /\ conn'[A].phase = "open" /\ conn'[A].send = "ready" /\ conn'[A].recv = "none"
        /\ conn'[B] = conn[B]
        /\ chan'[A] = chan[A] /\ chan'[B] = chan[B] \o <<"connect">>
    BY Ends DEF Accept, NewConn, Post, TypeOK
  <1>3. /\ conn[A].phase = "none" /\ conn[B].phase = "none"
        /\ chan[A] = <<>> /\ chan[B] = <<>>
        /\ sock[B].state = "none" /\ ~sock[A].atEnd /\ ~sock[A].ended
        /\ ~sock[B].atEnd /\ ~sock[B].ended
    BY <1>1, Ends DEF RelayInv, OpenFirst, SocketsSound
  <1>4. chan'[B] = <<"connect">> /\ chan'[A] = <<>>
    BY <1>2, <1>3
  <1>5. SocketsSound'
    BY <1>1, <1>2, <1>3, Ends DEF SocketsSound, RelayInv
  <1>6. OpenFirst'
    BY <1>2, <1>3, <1>4, Ends DEF OpenFirst, Opening
  <1>7. ASSUME NEW t \in End, Clean(t)' PROVE CleanInv(t)'
    <2>1. Clean(t) /\ CleanInv(t)
      <3>1. ~sock[A].mock /\ ~sock[B].mock
        BY <1>1, <1>3, Ends DEF RelayInv, SocketsSound
      <3> QED
        BY <1>1, <1>7, <3>1, Ends DEF Clean, HasEnd, RelayInv
    <2>2. t = A \/ t = B
      BY DEF End
    <2>3. NoCls(A)' /\ NoCls(B)'
      BY <1>4 DEF NoCls
    <2>4. InFlight(t) = 0 /\ InFlight(t)' = 0
      <3>1. CASE t = A
        BY <1>3, <1>4, <3>1, Ends DEF InFlight, Opening, FinComes
      <3>2. CASE t = B
        <4>1. ~Opening(B) /\ Opening(B)' /\ ~FinComes(B) /\ ~FinComes(B)'
          BY <1>2, <1>3, <1>4 DEF Opening, FinComes
        <4>2. Len(chan[B]) = 0 /\ Len(chan'[B]) = 1
          BY <1>3, <1>4
        <4>3. InFlight(B) = 0 - 0 - 0 /\ InFlight(B)' = 1 - 1 - 0
          BY <4>1, <4>2 DEF InFlight
        <4> QED
          BY <3>2, <4>3
      <3> QED
        BY <2>2, <3>1, <3>2
    <2>5. NothingClosed(t)'
      BY <1>1, <1>2, <1>3, <2>1, <2>2, <2>3, Ends DEF CleanInv, NothingClosed
    <2>6. EndLast(t)'
      BY <1>1, <1>2, <1>3, <1>4, <2>1, <2>2, Ends DEF CleanInv, EndLast
    <2>7. Conserved(t)'
      BY <1>1, <1>2, <1>3, <2>1, <2>2, <2>4, Ends DEF CleanInv, Conserved
    <2> QED
      BY <2>5, <2>6, <2>7 DEF CleanInv
  <1> QED
    BY <1>1, <1>5, <1>6, <1>7 DEF RelayInv, NeverNull

LEMMA SockEndInv ==
    ASSUME TypeOK, RelayInv, NEW s \in End, SockEnd(s)
    PROVE  RelayInv'
  <1>1. /\ UNCHANGED <<prog, failed, expired, null>>
        /\ sock'[Peer(s)] = sock[Peer(s)]
        /\ sock[s].state = "open" /\ ~sock[s].atEnd
        /\ prog[s].out = "ended" /\ sock[s].seen = prog[s].wrote
        /\ sock'[s].state = sock[s].state
        /\ sock'[s].seen = sock[s].seen
        /\ sock'[s].pending = sock[s].pending
        /\ sock'[s].mock = sock[s].mock
        /\ sock'[s].atEnd /\ sock'[s].ended
    <2>1. sock' = [sock EXCEPT ![s] = [sock[s] EXCEPT !.atEnd = TRUE, !.ended = TRUE]]
      BY DEF SockEnd, TypeOK
    <2> QED
      BY <2>1, Ends DEF SockEnd, Reached, TypeOK, Socket
  <1>0. /\ conn[s] \in Conn /\ conn \in [End -> Conn]
        /\ chan \in [End -> Seq(Frames)] /\ chan[Peer(s)] \o <<>> = chan[Peer(s)]
    BY Ends, ConcatEmptySeq DEF TypeOK
  <1>2. /\ conn'[Peer(s)] = conn[Peer(s)] /\ chan'[s] = chan[s]
        /\ conn'[s].phase = conn[s].phase
        /\ conn'[s].recv = conn[s].recv
        /\ conn'[s].send = conn[s].send \/ conn'[s].send = "stopped"
    <2>1. CASE UNCHANGED <<conn, chan>>
      BY <2>1
    <2>2. CASE ConnAlive(s) /\ SendStop(s)
      BY <1>0, <2>2, Ends DEF SendStop, Post, Conn
    <2> QED
      BY <2>1, <2>2 DEF SockEnd, SendStop
  <1>3. \/ chan'[Peer(s)] = chan[Peer(s)] \o <<"fin">>
        \/ chan'[Peer(s)] = chan[Peer(s)]
    BY <1>0, Ends DEF SockEnd, SendStop, Post
  <1>4. ASSUME ConnAlive(s), HasEnd(s)
        PROVE  /\ conn'[s].send = "stopped"
               /\ conn[s].send # "stopped" => chan'[Peer(s)] = chan[Peer(s)] \o <<"fin">>
    <2>1. SendStop(s)
      BY <1>4 DEF SockEnd
    <2>2. conn' = [conn EXCEPT ![s].send = "stopped"]
      BY <1>4, <2>1 DEF SendStop
    <2>3. conn'[s].send = "stopped"
      BY <1>0, <2>2 DEF Conn
    <2>4. conn[s].send # "stopped" => chan'[Peer(s)] = chan[Peer(s)] \o <<"fin">>
      BY <1>0, <1>4, <2>1, Ends DEF SendStop, Post
    <2> QED
      BY <2>3, <2>4
  <1>5. conn[s].phase # "none"
    BY <1>1 DEF RelayInv, SocketsSound
  <1>n. chan[Peer(s)] \in Seq(Frames) /\ "fin" \in Frames
    BY Ends DEF TypeOK, Frames
  <1>6. SocketsSound'
    BY <1>1, <1>2, Ends DEF SocketsSound, RelayInv
  <1>7. OpenFirst'
    BY <1>2, <1>3, <1>5, <1>n, Appended, Ends DEF OpenFirst, RelayInv, Opening
  <1>8. ASSUME NEW t \in End, Clean(t)' PROVE CleanInv(t)'
    <2>1. Clean(t) /\ CleanInv(t)
      BY <1>1, <1>8, Ends DEF RelayInv, Clean, HasEnd
    <2>2. t = Peer(s) /\ Peer(t) = s
      BY <1>1, <2>1, Ends DEF Clean
    <2>3. conn[s].phase = "open" /\ conn[s].send # "stopped" /\ HasEnd(s)
      BY <1>1, <2>1, <2>2 DEF CleanInv, NothingClosed, Clean
    <2>4. chan'[t] = chan[t] \o <<"fin">> /\ conn'[s].send = "stopped"
      BY <1>4, <2>2, <2>3 DEF ConnAlive
    <2>5. /\ ~FinComes(t)
          /\ \A i \in DOMAIN chan[t] : chan[t][i] # "fin"
      <3>1. chan[t] # <<>> => Len(chan[t]) \in DOMAIN chan[t]
        BY <1>n, <2>2
      <3> QED
        BY <1>1, <2>1, <2>2, <3>1 DEF CleanInv, EndLast, FinComes
    <2>6. Opening(t)' <=> Opening(t)
      BY <1>2, Ends DEF Opening
    <2>7. /\ InFlight(t)' = InFlight(t) + 0 /\ InFlight(t) \in Int
          /\ NoCls(t) => NoCls(t)'
      BY <1>n, <2>4, <2>5, <2>6, InFlightGrows, InFlightType
    <2>8. NothingClosed(t)'
      <3>1. NoCls(s)' = NoCls(s)
        BY <1>2 DEF NoCls
      <3> QED
        BY <1>1, <1>2, <2>1, <2>2, <2>7, <3>1 DEF CleanInv, NothingClosed
    <2>9. EndLast(t)'
      <3>1. \A i \in DOMAIN chan'[t] : chan'[t][i] = "fin" => i = Len(chan'[t])
        BY <1>n, <2>2, <2>4, <2>5, Appended
      <3> QED
        BY <1>1, <1>2, <2>1, <2>2, <2>4, <3>1 DEF CleanInv, EndLast
    <2>10. Conserved(t)'
      <3>1. InFlight(t)' = InFlight(t)
        BY <2>7
      <3> QED
        BY <1>1, <1>2, <2>1, <2>2, <3>1 DEF CleanInv, Conserved
    <2> QED
      BY <2>8, <2>9, <2>10 DEF CleanInv
  <1> QED
    BY <1>1, <1>6, <1>7, <1>8 DEF RelayInv, NeverNull

LEMMA ClosedConn ==
    ASSUME NEW c \in Conn
    PROVE  /\ c.phase = "open" => Closed(c).phase = "closing"
           /\ c.phase # "open" => Closed(c) = c
           /\ c.phase = "open" => Closed(c).send = "stopped" /\ Closed(c).recv = "stop"
  BY DEF Closed, Conn

LEMMA SockCloseInv ==
    ASSUME TypeOK, RelayInv, NEW s \in End, SockClose(s)
    PROVE  RelayInv'
  <1>0. /\ conn[s] \in Conn /\ conn \in [End -> Conn] /\ sock[s] \in Socket
        /\ chan \in [End -> Seq(Frames)] /\ chan[Peer(s)] \in Seq(Frames)
        /\ chan[Peer(s)] \o (<<>> \o <<>>) = chan[Peer(s)]
    BY Ends, ConcatEmptySeq DEF TypeOK
  <1>1. /\ UNCHANGED <<failed, expired, null>>
        /\ sock'[Peer(s)] = sock[Peer(s)] /\ prog'[Peer(s)] = prog[Peer(s)]
        /\ prog'[s].out = prog[s].out /\ prog'[s].wrote = prog[s].wrote
        /\ Finished(s) /\ sock[s].state # "none"
        /\ sock'[s].state = "closed"
        /\ sock'[s].seen = sock[s].seen
        /\ sock'[s].atEnd = sock[s].atEnd
        /\ sock'[s].ended = sock[s].ended
        /\ sock'[s].mock = sock[s].mock
    <2>1. /\ prog'[Peer(s)] = prog[Peer(s)]
          /\ prog'[s].out = prog[s].out /\ prog'[s].wrote = prog[s].wrote
      BY Ends DEF SockClose, TypeOK, Program
    <2>2. /\ sock'[Peer(s)] = sock[Peer(s)]
          /\ sock'[s].state = "closed"
          /\ sock'[s].seen = sock[s].seen
          /\ sock'[s].atEnd = sock[s].atEnd
          /\ sock'[s].ended = sock[s].ended
          /\ sock'[s].mock = sock[s].mock
      BY Ends DEF SockClose, TypeOK, Socket
    <2> QED
      BY <2>1, <2>2 DEF SockClose, Finished, Reached
  <1>2. /\ conn'[Peer(s)] = conn[Peer(s)] /\ chan'[s] = chan[s]
        /\ conn'[s] = conn[s]
              \/ (conn[s].phase = "open" /\ conn'[s].phase = "closing"
                  /\ conn'[s].send = "stopped" /\ conn'[s].recv = "stop")
    <2>1. conn' = conn \/ conn' = [conn EXCEPT ![s] = Closed(@)]
      BY DEF SockClose, Close
    <2>2. conn'[Peer(s)] = conn[Peer(s)] /\ (conn'[s] = conn[s] \/ conn'[s] = Closed(conn[s]))
      BY <1>0, <2>1, Ends
    <2>3. chan'[s] = chan[s]
      BY <1>0, Ends DEF SockClose, Close, Post
    <2> QED
      BY <1>0, <2>2, <2>3, ClosedConn
  <1>3. conn[s].phase # "none"
    BY <1>1 DEF RelayInv, SocketsSound
  <1>4. /\ conn[s].send = "stopped" => chan'[Peer(s)] = chan[Peer(s)]
        /\ chan[Peer(s)] # <<>> => chan'[Peer(s)] # <<>> /\ chan'[Peer(s)][1] = chan[Peer(s)][1]
    <2>1. CASE ConnAlive(s)
      <3> DEFINE g == IF conn[s].phase = "open" THEN CloseFrames(s) ELSE <<>>
      <3>1. chan'[Peer(s)] = chan[Peer(s)] \o (SendClose(s) \o g)
        BY <1>0, <2>1, Ends DEF SockClose, Close, Post
      <3>2. SendClose(s) \in Seq(Frames) /\ g \in Seq(Frames) 
        BY FrameSeqs DEF SendClose, CloseFrames
      <3>3. conn[s].send = "stopped" => SendClose(s) = <<>> /\ g = <<>>
        BY DEF SendClose, CloseFrames
      <3> HIDE DEF g
      <3>4. \A f \in Seq(Frames) : chan[Peer(s)] # <<>> =>
               chan[Peer(s)] \o f # <<>> /\ (chan[Peer(s)] \o f)[1] = chan[Peer(s)][1]
        BY <1>0
      <3>5. SendClose(s) \o g \in Seq(Frames)
        BY <3>2, FrameSeqs
      <3>6. conn[s].send = "stopped" => chan'[Peer(s)] = chan[Peer(s)]
        BY <1>0, <3>1, <3>3
      <3> QED
        BY <3>1, <3>4, <3>5, <3>6
    <2>2. CASE ~ConnAlive(s)
      BY <2>2 DEF SockClose, Close
    <2> QED
      BY <2>1, <2>2
  <1>6. SocketsSound'
    BY <1>1, <1>2, Ends DEF SocketsSound, RelayInv
  <1>7. OpenFirst'
    BY <1>2, <1>3, <1>4, Ends DEF OpenFirst, RelayInv, Opening
  <1>8. ASSUME NEW t \in End, Clean(t)' PROVE CleanInv(t)'
    <2>1. Clean(t) /\ CleanInv(t)
      BY <1>1, <1>8, Ends DEF RelayInv, Clean, HasEnd
    <2>2. t = Peer(s) /\ Peer(t) = s
      BY <1>1, <2>1, Ends DEF CleanInv, NothingClosed, Finished, Reached
    <2>3. sock[s].atEnd /\ conn[s].send = "stopped" /\ conn'[s].send = "stopped"
      BY <1>1, <1>2, <2>1, <2>2 DEF CleanInv, NothingClosed, EndLast, Finished, Reached
    <2>4. chan'[t] = chan[t]
      BY <1>4, <2>2, <2>3
    <2>5. /\ InFlight(t)' = InFlight(t)
          /\ NoCls(t)' = NoCls(t) /\ NoCls(s)' = NoCls(s)
      BY <1>2, <1>3, <2>2, <2>4, InFlightSame, Ends DEF Opening, NoCls
    <2>8. NothingClosed(t)'
      BY <1>1, <1>2, <2>1, <2>2, <2>3, <2>5 DEF CleanInv, NothingClosed
    <2>9. EndLast(t)'
      <3>1. /\ sock'[t] = sock[t] /\ prog'[t] = prog[t] /\ conn'[t] = conn[t]
            /\ prog'[s].out = "ended" /\ sock'[s].seen = prog'[s].wrote /\ sock'[s].atEnd
        BY <1>1, <1>2, <2>1, <2>2, <2>3 DEF CleanInv, EndLast
      <3> QED
        BY <2>1, <2>2, <2>3, <2>4, <3>1 DEF CleanInv, EndLast
    <2>10. Conserved(t)'
      BY <1>1, <1>2, <2>1, <2>2, <2>5 DEF CleanInv, Conserved
    <2> QED
      BY <2>8, <2>9, <2>10 DEF CleanInv
  <1> QED
    BY <1>1, <1>6, <1>7, <1>8 DEF RelayInv, NeverNull

LEMMA ConnRemovedInv ==
    ASSUME TypeOK, RelayInv, NEW s \in End, ConnRemoved(s)
    PROVE  RelayInv'
  <1>0. conn[s] \in Conn /\ conn \in [End -> Conn] /\ sock[s] \in Socket
        /\ sock \in [End -> Socket]
    BY DEF TypeOK
  <1>1. /\ UNCHANGED <<prog, chan, failed, expired, null>>
        /\ conn'[Peer(s)] = conn[Peer(s)] /\ sock'[Peer(s)] = sock[Peer(s)]
        /\ conn[s].phase = "closing" /\ conn'[s].phase = "freed"
        /\ conn'[s].send = conn[s].send /\ conn'[s].recv = conn[s].recv
    BY <1>0, Ends DEF ConnRemoved, Conn
  <1>2. /\ sock'[s].seen = sock[s].seen
        /\ sock'[s].atEnd = sock[s].atEnd
        /\ sock'[s].ended = sock[s].ended
        /\ sock'[s].mock = sock[s].mock
        /\ sock'[s].state = "none" <=> sock[s].state = "none"
        /\ sock[s].state \notin {"connecting", "open"} => sock'[s] = sock[s]
    BY <1>0, Ends DEF ConnRemoved, Fails, Socket
  <1>3. SocketsSound'
    BY <1>1, <1>2, Ends DEF SocketsSound, RelayInv
  <1>4. OpenFirst'
    BY <1>1, Ends DEF OpenFirst, RelayInv, Opening
  <1>5. ASSUME NEW t \in End, Clean(t)' PROVE CleanInv(t)'
    <2>1. Clean(t) /\ CleanInv(t)
      BY <1>1, <1>2, <1>5, Ends DEF RelayInv, Clean, HasEnd
    <2>2. sock' = sock
      <3>1. sock[s].state \notin {"connecting", "open"}
        BY <1>1, <2>1, Ends DEF CleanInv, NothingClosed
      <3> QED
        BY <1>0, <1>1, <3>1 DEF ConnRemoved, Fails
    <2>3. /\ InFlight(t)' = InFlight(t)
          /\ NoCls(t)' = NoCls(t) /\ NoCls(Peer(t))' = NoCls(Peer(t))
      BY <1>1, InFlightSame, Ends DEF Opening
    <2>4. NothingClosed(t)'
      BY <1>1, <2>1, <2>2, <2>3, Ends DEF CleanInv, NothingClosed
    <2>5. EndLast(t)'
      BY <1>1, <2>1, <2>2, Ends DEF CleanInv, EndLast
    <2>6. Conserved(t)'
      BY <1>1, <2>1, <2>2, <2>3, Ends DEF CleanInv, Conserved
    <2> QED
      BY <2>4, <2>5, <2>6 DEF CleanInv
  <1> QED
    BY <1>1, <1>3, <1>4, <1>5 DEF RelayInv, NeverNull

(* After a timeout NoTruncation says nothing more. *)
LEMMA TimesOutInv ==
    ASSUME TypeOK, RelayInv, NEW s \in End, TimesOut(s)
    PROVE  RelayInv'
  <1>0. /\ conn[s] \in Conn /\ conn \in [End -> Conn] /\ chan \in [End -> Seq(Frames)]
        /\ chan[Peer(s)] \in Seq(Frames) /\ conn[s].phase = "open"
    BY Ends DEF TypeOK, TimesOut
  <1>1. UNCHANGED <<prog, sock, failed, null>> /\ expired'
    BY DEF TimesOut
  <1>2. /\ conn'[Peer(s)] = conn[Peer(s)]
        /\ conn'[s].phase = "closing" /\ conn'[s].send = "stopped" /\ conn'[s].recv = "stop"
    <2>1. conn' = [conn EXCEPT ![s] = Closed(@)]
      BY <1>0 DEF TimesOut, Close, ConnAlive
    <2>2. conn'[Peer(s)] = conn[Peer(s)] /\ conn'[s] = Closed(conn[s])
      BY <1>0, <2>1, Ends
    <2> QED
      BY <1>0, <2>2, ClosedConn
  <1>3. /\ chan'[s] = chan[s]
        /\ chan[Peer(s)] # <<>> => chan'[Peer(s)] # <<>> /\ chan'[Peer(s)][1] = chan[Peer(s)][1]
    <2> DEFINE g == <<>> \o CloseFrames(s)
    <2>1. Post(s, g)
      BY <1>0 DEF TimesOut, Close, ConnAlive
    <2>2. g \in Seq(Frames)
      BY FrameSeqs DEF CloseFrames
    <2> HIDE DEF g
    <2>3. chan'[s] = chan[s] /\ chan'[Peer(s)] = chan[Peer(s)] \o g
      BY <1>0, <2>1, Ends DEF Post
    <2>4. chan[Peer(s)] # <<>> =>
             chan[Peer(s)] \o g # <<>> /\ (chan[Peer(s)] \o g)[1] = chan[Peer(s)][1]
      BY <1>0, <2>2
    <2> QED
      BY <2>3, <2>4
  <1>4. SocketsSound'
    BY <1>0, <1>1, <1>2, Ends DEF SocketsSound, RelayInv
  <1>5. OpenFirst'
    BY <1>0, <1>2, <1>3, Ends DEF OpenFirst, RelayInv, Opening
  <1> QED
    BY <1>1, <1>4, <1>5 DEF RelayInv, NeverNull, Clean

LEMMA RecvClsInv ==
    ASSUME TypeOK, RelayInv, NEW s \in End, RecvCls(s)
    PROVE  RelayInv'
  <1>0. /\ conn[s] \in Conn /\ conn \in [End -> Conn] /\ chan \in [End -> Seq(Frames)]
        /\ chan[s] \in Seq(Frames) /\ chan[Peer(s)] \in Seq(Frames)
        /\ chan[s] # <<>> /\ 1 \in DOMAIN chan[s] /\ chan[s][1] = "cls"
    BY Ends DEF TypeOK, RecvCls, Arrives
  <1>1. UNCHANGED <<prog, sock, failed, expired, null>>
    BY DEF RecvCls
  <1>2. /\ conn'[Peer(s)] = conn[Peer(s)]
        /\ conn'[s] = conn[s]
              \/ (conn[s].phase = "open" /\ conn'[s].phase = "closing"
                  /\ conn'[s].send = "stopped" /\ conn'[s].recv = "stop")
    <2>1. conn' = conn \/ conn' = [conn EXCEPT ![s] = Closed(@)]
      BY DEF RecvCls
    <2>2. conn'[Peer(s)] = conn[Peer(s)] /\ (conn'[s] = conn[s] \/ conn'[s] = Closed(conn[s]))
      BY <1>0, <2>1, Ends
    <2> QED
      BY <1>0, <2>2, ClosedConn
  <1>3. /\ chan'[s] = Tail(chan[s])
        /\ conn[s].phase = "none" => chan'[Peer(s)] = chan[Peer(s)]
        /\ chan[Peer(s)] # <<>> => chan'[Peer(s)] # <<>> /\ chan'[Peer(s)][1] = chan[Peer(s)][1]
    <2>1. CASE ConnAlive(s)
      <3> DEFINE g == IF conn[s].phase = "open" THEN CloseFrames(s) ELSE <<>>
      <3>1. chan' = [Rest(s) EXCEPT ![Peer(s)] = @ \o g]
        BY <2>1 DEF RecvCls
      <3>2. g \in Seq(Frames)
        BY FrameSeqs DEF CloseFrames
      <3> HIDE DEF g
      <3>3. chan'[s] = Tail(chan[s]) /\ chan'[Peer(s)] = chan[Peer(s)] \o g
        BY <1>0, <3>1, Ends DEF Rest
      <3>4. chan[Peer(s)] # <<>> =>
               chan[Peer(s)] \o g # <<>> /\ (chan[Peer(s)] \o g)[1] = chan[Peer(s)][1]
        BY <1>0, <3>2
      <3> QED
        BY <2>1, <3>3, <3>4 DEF ConnAlive
    <2>2. CASE ~ConnAlive(s)
      BY <1>0, <2>2, Ends DEF RecvCls, Rest
    <2> QED
      BY <2>1, <2>2
  <1>4. \A t \in End : ~Clean(t)
    <2>1. ~NoCls(s)
      BY <1>0 DEF NoCls
    <2> QED
      BY <2>1, Ends DEF RelayInv, CleanInv, NothingClosed
  <1>5. SocketsSound'
    BY <1>1, <1>2, Ends DEF SocketsSound, RelayInv
  <1>6. OpenFirst'
    <2>1. ~(s = B /\ Opening(B))
      BY <1>0 DEF RelayInv, OpenFirst
    <2>2. conn[s].phase # "none"
      <3>1. s = A => conn[A].phase # "none" /\ conn[B].phase # "none"
        BY <1>0, Ends DEF RelayInv, OpenFirst
      <3>2. s = B => conn[A].phase # "none" /\ conn[B].phase # "none"
        BY <1>0, <2>1, Ends DEF RelayInv, OpenFirst, Opening
      <3> QED
        BY <3>1, <3>2 DEF End
    <2>3. conn[A].phase # "none"
      BY <1>0, <2>2 DEF RelayInv, OpenFirst, End
    <2>4. conn[B].phase # "none"
      BY <1>0, <2>1, <2>2, <2>3 DEF RelayInv, OpenFirst, End
    <2> QED
      BY <1>2, <2>3, <2>4, Ends DEF OpenFirst, Opening
  <1> QED
    BY <1>1, <1>4, <1>5, <1>6 DEF RelayInv, NeverNull, Clean, HasEnd

LEMMA RecvOpenInv == ASSUME TypeOK, RelayInv, RecvOpen PROVE RelayInv'
  <1>0. /\ conn[B] \in Conn /\ conn \in [End -> Conn] /\ chan \in [End -> Seq(Frames)]
        /\ sock[B] \in Socket /\ sock \in [End -> Socket]
        /\ chan[B] \in Seq(Frames)
        /\ chan[B] # <<>> /\ Head(chan[B]) = "connect" /\ conn[B].phase = "none"
    BY Ends DEF TypeOK, RecvOpen, Arrives
  <1>1. /\ UNCHANGED <<prog, failed, expired, null>>
        /\ conn'[A] = conn[A] /\ sock'[A] = sock[A] /\ chan'[A] = chan[A]
        /\ chan'[B] = Tail(chan[B])
    BY <1>0, Ends DEF RecvOpen, Rest
  <1>2. /\ conn[A].phase # "none" /\ chan[A] = <<>>
        /\ sock[B].state = "none" /\ ~sock[B].atEnd /\ ~sock[B].ended
    BY <1>0, Ends DEF RelayInv, OpenFirst, SocketsSound
  <1>3. /\ sock'[B].seen = sock[B].seen
        /\ sock'[B].pending = sock[B].pending
        /\ sock'[B].atEnd = sock[B].atEnd
        /\ sock'[B].ended = sock[B].ended
        /\ sock'[B].mock = sock[B].mock
    <2>1. sock'[B] \in {sock[B], [sock[B] EXCEPT !.state = "connecting"]}
      BY <1>0 DEF RecvOpen
    <2> QED
      BY <1>0, <2>1 DEF Socket
  <1>4. \/ /\ conn'[B].phase = "open" /\ conn'[B].send = "none" /\ conn'[B].recv = "ready"
           /\ sock'[B].state = "connecting"
        \/ /\ conn'[B].phase = "closing" /\ conn'[B].send = "stopped"
           /\ conn'[B].recv = "stop"
           /\ sock'[B].state = "none"
    <2>1. \/ /\ conn'[B] = [NewConn EXCEPT !.recv = "ready"]
             /\ sock'[B] = [sock[B] EXCEPT !.state = "connecting"]
          \/ conn'[B] = Closed(NewConn) /\ sock'[B] = sock[B]
      <3>1. CASE /\ conn' = [conn EXCEPT ![B] = [NewConn EXCEPT !.recv = "ready"]]
                 /\ sock' = [sock EXCEPT ![B].state = "connecting"]
        BY <1>0, <3>1, Ends
      <3>2. CASE conn' = [conn EXCEPT ![B] = Closed(NewConn)] /\ UNCHANGED sock
        BY <1>0, <3>2, Ends
      <3> QED
        BY <3>1, <3>2 DEF RecvOpen
    <2>2. [sock[B] EXCEPT !.state = "connecting"].state = "connecting"
      BY <1>0 DEF Socket
    <2>3. LET c == [NewConn EXCEPT !.recv = "ready"]
          IN  c.phase = "open" /\ c.send = "none" /\ c.recv = "ready"
      BY DEF NewConn
    <2>4. LET c == Closed(NewConn)
          IN  c.phase = "closing" /\ c.send = "stopped" /\ c.recv = "stop"
      BY DEF NewConn, Closed
    <2> QED
      BY <1>2, <2>1, <2>2, <2>3, <2>4
  <1>5. SocketsSound'
    BY <1>1, <1>2, <1>3, <1>4, Ends DEF SocketsSound, RelayInv
  <1>6. OpenFirst'
    BY <1>1, <1>2, <1>4, Ends DEF OpenFirst, Opening
  <1>7. ASSUME NEW t \in End, Clean(t)' PROVE CleanInv(t)'
    <2>1. Clean(t) /\ CleanInv(t)
      BY <1>1, <1>3, <1>7, Ends DEF RelayInv, Clean, HasEnd
    <2>2. t = A \/ t = B
      BY DEF End
    <2>3. NoCls(A)' /\ NoCls(B)'
      <3>1. NoCls(A) /\ NoCls(B)
        BY <2>1, <2>2, Ends DEF CleanInv, NothingClosed
      <3> QED
        BY <1>0, <1>1, <3>1, Taken DEF NoCls
    <2>4. NothingClosed(t)'
      BY <1>1, <1>2, <1>3, <1>4, <2>1, <2>2, <2>3, Ends DEF CleanInv, NothingClosed
    <2>5. CASE t = A
      <3>1. EndLast(t)'
        BY <1>1, <1>2, <1>3, <1>4, <2>1, <2>5, Ends DEF CleanInv, EndLast
      <3>2. InFlight(A)' = InFlight(A)
        BY <1>1, InFlightSame, Ends DEF Opening
      <3>3. Conserved(t)'
        BY <1>1, <1>3, <2>1, <2>5, <3>2, Ends DEF CleanInv, Conserved
      <3> QED
        BY <2>4, <3>1, <3>3 DEF CleanInv
    <2>6. CASE t = B
      <3>1. Opening(B) /\ ~Opening(B)'
        BY <1>0, <1>2, <1>4 DEF Opening
      <3>2. \A i \in DOMAIN chan[B] : chan[B][i] = "fin" => i = Len(chan[B]) /\ sock[A].atEnd
        BY <2>1, <2>6, Ends DEF CleanInv, EndLast
      <3>3. /\ InFlight(B)' = InFlight(B) - 0 /\ InFlight(B) \in Int
            /\ \A i \in DOMAIN chan'[B] : chan'[B][i] = "fin" => i = Len(chan'[B])
        BY <1>0, <1>1, <3>1, <3>2, InFlightShrinks, InFlightType, Ends
      <3>4. \A i \in DOMAIN chan'[B] : chan'[B][i] = "fin" => sock[A].atEnd
        <4>1. \A i \in DOMAIN chan'[B] : i + 1 \in DOMAIN chan[B] /\ chan'[B][i] = chan[B][i + 1]
          BY <1>0, <1>1, Taken
        <4> QED
          BY <3>2, <4>1
      <3>5. EndLast(t)'
        <4>1. \A i \in DOMAIN chan'[B] : chan'[B][i] = "fin" => i = Len(chan'[B]) /\ sock[A].atEnd
          BY <3>3, <3>4
        <4>2. /\ sock[A].atEnd => prog[A].out = "ended" /\ sock[A].seen = prog[A].wrote
                                     /\ conn[A].send = "stopped"
              /\ prog[B].eof => sock[B].ended /\ sock[B].pending = 0
          BY <2>1, <2>6, Ends DEF CleanInv, EndLast
        <4>3. ~(conn'[B].phase = "open" /\ conn'[B].recv = "stop")
          BY <1>4
        <4> QED
          BY <1>1, <1>3, <2>6, <4>1, <4>2, <4>3, Ends DEF EndLast
      <3>6. Conserved(t)'
        BY <1>0, <1>1, <1>3, <2>1, <2>6, <3>3, Ends DEF CleanInv, Conserved
      <3> QED
        BY <2>4, <3>5, <3>6 DEF CleanInv
    <2> QED
      BY <2>2, <2>5, <2>6
  <1> QED
    BY <1>1, <1>5, <1>6, <1>7 DEF RelayInv, NeverNull

(* A frame that opens nothing finds a conn. *)
LEMMA ConnThere ==
    ASSUME TypeOK, RelayInv, NEW s \in End, chan[s] # <<>>,
           Head(chan[s]) # "connect" \/ conn[s].phase # "none"
    PROVE  conn[A].phase # "none" /\ conn[B].phase # "none" /\ ~Opening(s)
  <1>0. chan[s] \in Seq(Frames)
    BY DEF TypeOK
  <1>1. Head(chan[s]) = chan[s][1]
    BY <1>0, Taken
  <1>2. CASE s = A
    BY <1>2, Ends DEF RelayInv, OpenFirst, Opening
  <1>3. CASE s = B
    BY <1>1, <1>3, Ends DEF RelayInv, OpenFirst, Opening
  <1> QED
    BY <1>2, <1>3 DEF End

LEMMA RecvDataInv ==
    ASSUME TypeOK, RelayInv, NEW s \in End, RecvData(s)
    PROVE  RelayInv'
  <1>0. /\ conn[s] \in Conn /\ conn \in [End -> Conn] /\ chan \in [End -> Seq(Frames)]
        /\ sock[s] \in Socket /\ sock \in [End -> Socket]
        /\ chan[s] \in Seq(Frames)
        /\ chan[s] # <<>> /\ Head(chan[s]) \in {"connect", "push"}
        /\ Head(chan[s]) # "connect" \/ conn[s].phase # "none"
    BY Ends DEF TypeOK, RecvData, Arrives
  <1>1. conn[A].phase # "none" /\ conn[B].phase # "none" /\ ~Opening(s) /\ conn[s].phase # "none"
    BY <1>0, ConnThere DEF End
  <1>2. /\ UNCHANGED <<prog, failed, expired>>
        /\ conn'[Peer(s)] = conn[Peer(s)] /\ sock'[Peer(s)] = sock[Peer(s)]
        /\ chan'[Peer(s)] = chan[Peer(s)] /\ chan'[s] = Tail(chan[s])
    BY <1>0, Ends DEF RecvData, Rest
  <1>3. /\ conn'[s].phase = conn[s].phase /\ conn'[s].send = conn[s].send
        /\ IF Receives(s) THEN conn'[s].recv = "ready" ELSE conn'[s].recv = conn[s].recv
    BY <1>0 DEF RecvData, Conn
  <1>4. Receives(s) => /\ sock[s].state # "none" /\ conn[s].phase = "open"
                       /\ conn[s].recv # "stop"
    BY <1>1 DEF Receives, ConnAlive, RelayInv, SocketsSound
  <1>5. ~null'
    BY <1>4 DEF RecvData, RelayInv, NeverNull
  <1>6. ~Receives(s) => sock'[s] = sock[s]
    BY DEF RecvData
  <1>7. ASSUME Receives(s)
        PROVE  \/ sock'[s] = sock[s] /\ sock[s].state \notin {"connecting", "open"}
               \/ /\ sock'[s].seen = sock[s].seen
                  /\ sock'[s].atEnd = sock[s].atEnd
                  /\ sock'[s].ended = sock[s].ended
                  /\ sock'[s].mock = sock[s].mock
                  /\ sock[s].state \in {"connecting", "open"}
                  /\ \/ /\ sock[s].ended
                        /\ sock'[s].state \in {sock[s].state, "dead"}
                     \/ /\ ~sock[s].ended
                        /\ sock'[s].state = sock[s].state
                        /\ sock'[s].pending = sock[s].pending + 1
    <2>1. sock'[s] \in Written(sock[s])
      BY <1>0, <1>7 DEF RecvData
    <2>2. CASE sock[s].state \notin {"connecting", "open"}
      BY <2>1, <2>2 DEF Written
    <2>3. CASE sock[s].state \in {"connecting", "open"} /\ sock[s].ended
      <3>1. sock'[s] \in {sock[s], [sock[s] EXCEPT !.state = "dead", !.pending = 0]}
        BY <2>1, <2>3 DEF Written, Fails
      <3> QED
        BY <1>0, <2>3, <3>1 DEF Socket
    <2>4. CASE sock[s].state \in {"connecting", "open"} /\ ~sock[s].ended
      <3>1. sock'[s] = [sock[s] EXCEPT !.pending = @ + 1]
        BY <2>1, <2>4 DEF Written
      <3> QED
        BY <1>0, <2>4, <3>1 DEF Socket
    <2> QED
      BY <2>2, <2>3, <2>4
  <1>8. /\ sock'[s].seen = sock[s].seen /\ sock'[s].atEnd = sock[s].atEnd
        /\ sock'[s].ended = sock[s].ended /\ sock'[s].mock = sock[s].mock
        /\ sock'[s].state = sock[s].state
              \/ (/\ sock[s].state \in {"connecting", "open"} /\ sock'[s].state = "dead"
                  /\ sock[s].ended /\ Receives(s))
    BY <1>6, <1>7
  <1>9. SocketsSound'
    BY <1>1, <1>2, <1>3, <1>4, <1>8, Ends DEF SocketsSound, RelayInv
  <1>10. OpenFirst'
    BY <1>1, <1>2, <1>3, Ends DEF OpenFirst, Opening
  <1>11. ASSUME NEW t \in End, Clean(t)' PROVE CleanInv(t)'
    <2>1. Clean(t) /\ CleanInv(t)
      BY <1>2, <1>8, <1>11, Ends DEF RelayInv, Clean, HasEnd
    <2>2. sock[s].ended /\ Receives(s) => sock[s].atEnd
      BY <1>4 DEF RelayInv, SocketsSound
    <2>3. NoCls(s)' /\ NoCls(Peer(s))'
      <3>1. NoCls(s) /\ NoCls(Peer(s))
        BY <2>1, Ends DEF CleanInv, NothingClosed
      <3>2. \A i \in DOMAIN chan'[s] : i + 1 \in DOMAIN chan[s] /\ chan'[s][i] = chan[s][i + 1]
        BY <1>0, <1>2, Taken
      <3> QED
        BY <1>2, <3>1, <3>2 DEF NoCls
    <2>4. NothingClosed(t)'
      <3>1. CASE t = s
        BY <1>2, <1>3, <1>8, <2>1, <2>2, <2>3, <3>1, Ends DEF CleanInv, NothingClosed
      <3>2. CASE t = Peer(s)
        BY <1>2, <1>3, <1>8, <2>1, <2>2, <2>3, <3>2, Ends DEF CleanInv, NothingClosed
      <3> QED
        BY <3>1, <3>2, Ends
    <2>5. CASE t = Peer(s)
      <3>1. EndLast(t)'
        BY <1>2, <1>3, <1>8, <2>1, <2>5, Ends DEF CleanInv, EndLast
      <3>2. InFlight(t)' = InFlight(t)
        BY <1>2, <1>3, <2>5, InFlightSame, Ends DEF Opening
      <3>3. Conserved(t)'
        BY <1>2, <1>8, <2>1, <2>5, <3>2, Ends DEF CleanInv, Conserved
      <3> QED
        BY <2>4, <3>1, <3>3 DEF CleanInv
    <2>6. CASE t = s
      <3>1. ~sock[t].atEnd /\ sock[t].state \notin {"dead", "closed"}
        BY <2>1 DEF CleanInv, NothingClosed
      <3>2. \A i \in DOMAIN chan[t] : chan[t][i] = "fin" => i = Len(chan[t]) /\ sock[Peer(t)].atEnd
        BY <2>1 DEF CleanInv, EndLast
      <3>3. /\ InFlight(t)' = InFlight(t) - 1 /\ InFlight(t) \in Int
            /\ \A i \in DOMAIN chan'[t] : chan'[t][i] = "fin" => i = Len(chan'[t])
        <4>1. ~Opening(t)'
          BY <1>1, <1>2, <1>3, <2>6, Ends DEF Opening
        <4> QED
          BY <1>0, <1>1, <1>2, <2>6, <3>2, <4>1, InFlightShrinks, InFlightType
      <3>4. \A i \in DOMAIN chan'[t] : chan'[t][i] = "fin" => sock[Peer(t)].atEnd
        <4>1. \A i \in DOMAIN chan'[s] : i + 1 \in DOMAIN chan[s] /\ chan'[s][i] = chan[s][i + 1]
          BY <1>0, <1>2, Taken
        <4> QED
          BY <2>6, <3>2, <4>1
      <3>5. Receives(t) => ~sock[t].ended /\ sock'[t].pending = sock[t].pending + 1
        BY <1>4, <1>7, <2>2, <2>6, <3>1, <1>0 DEF Socket
      <3>6. ~Receives(t) => conn[t].phase # "open"
        BY <1>0, <2>1, <2>6 DEF Receives, ConnAlive, CleanInv, EndLast
      <3>7. EndLast(t)'
        <4>1. prog[t].eof => sock'[t].ended /\ sock'[t].pending = 0
          BY <1>6, <2>1, <2>6, <3>5 DEF CleanInv, EndLast
        <4>2. ~(conn'[t].phase = "open" /\ conn'[t].recv = "stop")
          BY <1>3, <2>6, <3>6
        <4> QED
          BY <1>2, <1>8, <2>1, <2>6, <3>3, <3>4, <4>1, <4>2, Ends DEF CleanInv, EndLast
      <3>8. Conserved(t)'
        <4>0. prog[t].got \in Nat /\ sock[t].pending \in Nat
          BY Counters DEF TypeOK
        <4>1. CASE ~Receives(t)
          BY <1>1, <1>3, <2>6, <3>6, <4>1 DEF Conserved
        <4>2. CASE Receives(t)
          <5>1. conn[t].phase = "open" /\ conn'[t].phase = "open"
            BY <1>3, <1>4, <2>6, <4>2
          <5>2. sock[Peer(t)].seen = prog[t].got + sock[t].pending + InFlight(t)
            BY <2>1, <5>1 DEF CleanInv, Conserved
          <5>3. prog[t].got + sock[t].pending + InFlight(t)
                   = prog[t].got + (sock[t].pending + 1) + (InFlight(t) - 1)
            <6> QED
              <7> DEFINE flight == InFlight(t)
              <7>1. flight \in Int
                BY <3>3
              <7> HIDE DEF flight
              <7>2. prog[t].got + sock[t].pending + flight
                       = prog[t].got + (sock[t].pending + 1) + (flight - 1)
                BY <4>0, <7>1
              <7> QED
                BY <7>2 DEF flight
          <5> QED
            BY <1>2, <2>6, <3>3, <3>5, <4>2, <5>2, <5>3 DEF Conserved
        <4> QED
          BY <4>1, <4>2
      <3> QED
        BY <2>4, <3>7, <3>8 DEF CleanInv
    <2> QED
      BY <2>5, <2>6, Ends
  <1> QED
    BY <1>5, <1>9, <1>10, <1>11 DEF RelayInv, NeverNull

LEMMA RecvFinInv ==
    ASSUME TypeOK, RelayInv, NEW s \in End, RecvFin(s)
    PROVE  RelayInv'
  <1>0. /\ conn[s] \in Conn /\ conn \in [End -> Conn] /\ chan \in [End -> Seq(Frames)]
        /\ sock[s] \in Socket /\ sock \in [End -> Socket]
        /\ chan[s] # <<>> /\ Head(chan[s]) = "fin"
    BY Ends DEF TypeOK, RecvFin, Arrives
  <1>1. conn[A].phase # "none" /\ conn[B].phase # "none" /\ ~Opening(s) /\ conn[s].phase # "none"
    BY <1>0, ConnThere DEF End
  <1>2. /\ UNCHANGED <<prog, failed, expired, null>>
        /\ conn'[Peer(s)] = conn[Peer(s)] /\ sock'[Peer(s)] = sock[Peer(s)]
        /\ chan'[Peer(s)] = chan[Peer(s)] /\ chan'[s] = Tail(chan[s])
    BY <1>0, Ends DEF RecvFin, Rest
  <1>3. /\ conn'[s].phase = conn[s].phase /\ conn'[s].send = conn[s].send
        /\ IF Receives(s) THEN conn'[s].recv = "stop" ELSE conn'[s].recv = conn[s].recv
    BY <1>0 DEF RecvFin, Conn
  <1>4. /\ sock'[s].seen = sock[s].seen /\ sock'[s].atEnd = sock[s].atEnd
        /\ sock'[s].pending = sock[s].pending
        /\ sock'[s].mock = sock[s].mock /\ sock'[s].state = sock[s].state
        /\ sock'[s].ended => sock[s].ended \/ Receives(s)
        /\ sock[s].ended => sock'[s].ended
    <2>1. sock'[s] \in {sock[s], [sock[s] EXCEPT !.ended = TRUE]}
          /\ (sock'[s] = sock[s] \/ Receives(s))
      BY <1>0 DEF RecvFin, Ended
    <2> QED
      BY <1>0, <2>1 DEF Socket
  <1>5. SocketsSound'
    <2>1. Receives(s) => sock[s].state # "none" /\ conn[s].phase = "open"
      BY <1>1 DEF Receives, ConnAlive, RelayInv, SocketsSound
    <2> QED
      BY <1>1, <1>2, <1>3, <1>4, <2>1, Ends DEF SocketsSound, RelayInv
  <1>6. OpenFirst'
    BY <1>1, <1>2, <1>3, Ends DEF OpenFirst, Opening
  <1>7. ASSUME NEW t \in End, Clean(t)' PROVE CleanInv(t)'
    <2>1. Clean(t) /\ CleanInv(t)
      BY <1>2, <1>4, <1>7, Ends DEF RelayInv, Clean, HasEnd
    <2>2. NoCls(s)' /\ NoCls(Peer(s))'
      <3>1. NoCls(s) /\ NoCls(Peer(s)) /\ chan[s] \in Seq(Frames)
        BY <1>0, <2>1, Ends DEF CleanInv, NothingClosed
      <3> QED
        BY <1>0, <1>2, <3>1, Taken DEF NoCls
    <2>3. NothingClosed(t)'
      BY <1>2, <1>3, <1>4, <2>1, <2>2, Ends DEF CleanInv, NothingClosed
    <2>4. CASE t = Peer(s)
      <3>1. EndLast(t)'
        BY <1>2, <1>3, <1>4, <2>1, <2>4, Ends DEF CleanInv, EndLast
      <3>2. InFlight(t)' = InFlight(t)
        BY <1>2, <1>3, <2>4, InFlightSame, Ends DEF Opening
      <3>3. Conserved(t)'
        BY <1>2, <1>4, <2>1, <2>4, <3>2, Ends DEF CleanInv, Conserved
      <3> QED
        BY <2>3, <3>1, <3>3 DEF CleanInv
    <2>5. CASE t = s
      <3>1. \A i \in DOMAIN chan[t] : chan[t][i] = "fin" => i = Len(chan[t]) /\ sock[Peer(t)].atEnd
        BY <2>1 DEF CleanInv, EndLast
      <3>2. /\ InFlight(t)' = InFlight(t) - 0 /\ InFlight(t) \in Int
            /\ chan'[t] = <<>>
        <4>1. ~Opening(t)'
          BY <1>1, <1>2, <1>3, <2>5, Ends DEF Opening
        <4> QED
          BY <1>0, <1>1, <1>2, <2>5, <3>1, <4>1, InFlightShrinks, InFlightType
      <3>3. sock[Peer(t)].atEnd
        BY <1>0, <2>5, <3>1, Taken
      <3>4. EndLast(t)'
        BY <1>2, <1>3, <1>4, <2>1, <2>5, <3>2, <3>3, Ends DEF CleanInv, EndLast
      <3>5. Conserved(t)'
        BY <1>2, <1>3, <1>4, <2>1, <2>5, <3>2, Ends DEF CleanInv, Conserved
      <3> QED
        BY <2>3, <3>4, <3>5 DEF CleanInv
    <2> QED
      BY <2>4, <2>5, Ends
  <1> QED
    BY <1>2, <1>5, <1>6, <1>7 DEF RelayInv, NeverNull

LEMMA StepInv == TypeOK /\ RelayInv /\ [Next]_vars => RelayInv'
  <1> SUFFICES ASSUME TypeOK, RelayInv, [Next]_vars PROVE RelayInv'
    OBVIOUS
  <1>1. CASE UNCHANGED vars
    <2>1. UNCHANGED <<prog, sock, conn, chan, failed, expired, null>>
      BY <1>1 DEF vars
    <2>2. SocketsSound' /\ OpenFirst' /\ NeverNull'
      BY <2>1 DEF RelayInv, SocketsSound, OpenFirst, Opening, NeverNull
    <2>3. ASSUME NEW t \in End, Clean(t)' PROVE CleanInv(t)'
      <3>1. CleanInv(t)
        BY <2>1, <2>3 DEF RelayInv, Clean, HasEnd
      <3>2. InFlight(t)' = InFlight(t) /\ NoCls(t)' = NoCls(t) /\ NoCls(Peer(t))' = NoCls(Peer(t))
        BY <2>1, InFlightSame, Ends DEF Opening
      <3> QED
        BY <2>1, <3>1, <3>2 DEF CleanInv, NothingClosed, EndLast, Conserved
    <2> QED
      BY <2>2, <2>3 DEF RelayInv
  <1>2. CASE Accept \/ ConnectFails
    BY <1>2, AcceptInv, NotConnected
  <1>3. CASE Connected
    BY <1>3, SocketInv, Ends
  <1>4. ASSUME NEW s \in End, ProgWrites(s) \/ ProgEnds(s) \/ ProgResets(s) \/ Events(s)
        PROVE  RelayInv'
    <2>1. CASE ProgWrites(s) \/ ProgEnds(s) \/ ProgResets(s) \/ FlushEnd(s)
      BY <2>1, ProgramInv
    <2>2. CASE Flush(s) \/ SockError(s)
      BY <2>2, SocketInv
    <2>3. CASE SockData(s) \/ SockEnd(s) \/ SockClose(s) \/ ConnRemoved(s)
      BY <2>3, SockDataInv, SockEndInv, SockCloseInv, ConnRemovedInv
    <2>4. CASE Input(s)
      BY <2>4, RecvDataInv, RecvFinInv, RecvClsInv, RecvOpenInv DEF Input
    <2> QED
      BY <1>4, <2>1, <2>2, <2>3, <2>4 DEF Events
  <1>5. ASSUME NEW s \in End, TimesOut(s) PROVE RelayInv'
    BY <1>5, TimesOutInv
  <1> QED
    BY <1>1, <1>2, <1>3, <1>4, <1>5 DEF Next

LEMMA Inductive == Spec => [](TypeOK /\ RelayInv)
  <1>1. Init => TypeOK /\ RelayInv
    BY InitTyped, InitInv
  <1>2. TypeOK /\ RelayInv /\ [Next]_vars => (TypeOK /\ RelayInv)'
    BY StepTyped, StepInv
  <1> QED
    BY <1>1, <1>2, PTL DEF Spec

(* The listener of a conn never writes to a socket that was not made,      *)
(* however the frames of both ends interleave (index.js:326).              *)
THEOREM NeverWritesToNull == Spec => []NeverNull
  BY Inductive, PTL DEF RelayInv

(* A program that sees the end of the stream without having ended its own  *)
(* has read all of it, unless something failed, a conn timed out or a mock *)
(* socket was at the other end: every chunk is on its way, waits to be     *)
(* flushed or was read, and the end comes last (index.js:310-323).  The    *)
(* timeout is excepted because it does cut streams: mux_check closes a     *)
(* conn that only sends (Mux.cc:458), and its peer destroys its socket.    *)
THEOREM EndMeansAll == Spec => []NoTruncation
  <1>1. TypeOK /\ RelayInv => NoTruncation
    <2> SUFFICES ASSUME TypeOK, RelayInv, NEW s \in End, Clean(s), prog[s].eof
                 PROVE  prog[Peer(s)].out = "ended" /\ prog[s].got = prog[Peer(s)].wrote
      BY Ends DEF NoTruncation, Clean
    <2>1. CleanInv(s) /\ SocketsSound
      BY DEF RelayInv
    <2>2. sock[s].ended /\ sock[s].pending = 0 /\ ~sock[s].atEnd
      BY <2>1 DEF CleanInv, EndLast, NothingClosed
    <2>3. sock[s].state # "none" /\ conn[s].recv = "stop" /\ conn[s].phase = "open"
      <3>1. conn[s].phase \in {"none", "open", "closing", "freed"}
        BY DEF TypeOK, Conn
      <3> QED
        BY <2>1, <2>2, <3>1 DEF CleanInv, NothingClosed, SocketsSound
    <2>4. sock[Peer(s)].atEnd /\ chan[s] = <<>>
      BY <2>1, <2>3 DEF CleanInv, EndLast
    <2>5. prog[Peer(s)].out = "ended" /\ sock[Peer(s)].seen = prog[Peer(s)].wrote
      BY <2>1, <2>4 DEF CleanInv, EndLast
    <2>6. InFlight(s) = 0
      BY <2>3, <2>4 DEF InFlight, Opening, FinComes
    <2>7. prog[s].got \in Nat
      BY Counters DEF TypeOK
    <2> QED
      BY <2>1, <2>2, <2>3, <2>5, <2>6, <2>7 DEF CleanInv, Conserved
  <1> QED
    BY <1>1, Inductive, PTL
============================================================================
