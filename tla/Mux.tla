-------------------------------- MODULE Mux --------------------------------
(***************************************************************************)
(* The two Mux objects (src/Mux.cc) that share one session, and the Conn   *)
(* objects multiplexed over it.  Frames travel over the session as a FIFO  *)
(* (module Session: every PUSH acknowledged is handed over, in order), and *)
(* the session's own FIN and FIN_ACK travel behind them.                   *)
(*                                                                         *)
(* Conns are numbered in the order an end creates them, which is also the  *)
(* order of mux->conns, a list that is only appended to.                   *)
(***************************************************************************)
EXTENDS Naturals, FiniteSets, Sequences

CONSTANTS
    A, B,           \* the active end, whose ids are odd, and the passive end (even)
    MaxId,          \* ids above it wrap around (65535 in GetIncreaseID)
    Creates,        \* bound: Creates[s] conns are created by the application of s
    MaxData,        \* bound: data frames one conn sends
    Closers,        \* the ends whose application closes its mux
    Uses,           \* Uses[s]: which of SendStopSending ("stop") and SendClose ("cls")
                    \* the application of s calls
    ConnTimeout     \* Mux::SetEnableTimeout(1) was called

End == {A, B}
Peer(s) == IF s = A THEN B ELSE A
Num == 1..(Creates[A] + Creates[B])

ASSUME EndsDiffer == A # B
ASSUME MuxBounds ==
    MaxId \in Nat /\ MaxData \in Nat /\ Creates \in [End -> Nat] /\ Closers \subseteq End
ASSUME MuxFlags ==
    Uses \in [End -> SUBSET {"stop", "cls"}] /\ ConnTimeout \in BOOLEAN

SendStates == {"none", "ready", "stopped"}
RecvStates == {"none", "ready", "stop"}
Frames == {"connect", "push", "fin", "cls"}     \* KCPUV_MUX_CMD_*
SessCmds == {"sfin", "sfinack"}                 \* KCPUV_CMD_FIN and _FIN_ACK
Links == {"created", "ready", "fin", "finack", "ended", "gone"}

VARIABLES
    conn,       \* conn[s][n]: the n-th Conn object of s
    made,       \* made[s]:    how many s has created
    count,      \* mux->count
    mux,        \* "open", or "freed" once muxFree deleted it
    link,       \* the session of s, "ended" when its removal is scheduled
    waitFin,    \* sess->waitFinUVTimer is armed
    ticks,      \* Loop::NextTick callbacks of s not yet run, in order
    chan,       \* chan[s]:    frames on their way to s
    closed,     \* history: the application of s called Mux::Close
    stale       \* history: a deleted session or mux was used at s

vars == <<conn, made, count, mux, link, waitFin, ticks, chan, closed, stale>>

(* A Conn: live until its close callback frees it.  stream names the conn  *)
(* that opened the stream it carries; sent and rcvd count data frames and  *)
(* told says that it sent a CLS (history).                                 *)
Stream == End \X Num
Conn == [live : BOOLEAN, id : Nat, send : SendStates, recv : RecvStates,
         closing : BOOLEAN, stream : Stream, sent : Nat, rcvd : Nat, told : BOOLEAN]

Frame == [cmd : Frames, id : Nat, stream : Stream, k : Nat]
SessFrame == [cmd : SessCmds]
Tick == [what : {"conn"}, n : Num] \cup [what : {"sess", "mux"}]

NewConn(id, stream) ==
    [live |-> TRUE, id |-> id, send |-> "none", recv |-> "none", closing |-> FALSE,
     stream |-> stream, sent |-> 0, rcvd |-> 0, told |-> FALSE]

NoConn == [NewConn(0, <<A, 1>>) EXCEPT !.live = FALSE]

(* Mutant: both ends use odd ids. *)
MutZeroID(s) == 1

ZeroID(s) == IF s = A THEN 1 ELSE 2

TypeOK ==
    /\ conn \in [End -> [Num -> Conn]]
    /\ made \in [End -> Nat]
    /\ count \in [End -> Nat]
    /\ mux \in [End -> {"open", "freed"}]
    /\ link \in [End -> Links]
    /\ waitFin \in [End -> BOOLEAN]
    /\ ticks \in [End -> Seq(Tick)]
    /\ chan \in [End -> Seq(Frame \cup SessFrame)]
    /\ closed \in [End -> BOOLEAN]
    /\ stale \in [End -> BOOLEAN]

Init ==
    /\ conn = [s \in End |-> [n \in Num |-> NoConn]]
    /\ made = [s \in End |-> 0]
    /\ count = [s \in End |-> ZeroID(s)]
    /\ mux = [s \in End |-> "open"]
    /\ link = [s \in End |-> "created"]
    /\ waitFin = [s \in End |-> FALSE]
    /\ ticks = [s \in End |-> <<>>]
    /\ chan = [s \in End |-> <<>>]
    /\ closed = [s \in End |-> FALSE]
    /\ stale = [s \in End |-> FALSE]

(***************************************************************************)
(* The list of conns.                                                      *)
(***************************************************************************)
Listed(s) == {n \in Num : conn[s][n].live}
Passive(s) == s = B
WithId(s, id) == {n \in Listed(s) : conn[s][n].id = id}

(* The first conn of the list with this id; used when there is one. *)
FirstWithId(s, id) ==
    CHOOSE n \in WithId(s, id) : \A m \in WithId(s, id) : n <= m

IsIdFromOtherSide(s, id) == id % 2 = (IF Passive(s) THEN 1 ELSE 0)

(* GetIncreaseID: the id, and the new value of mux->count. *)
NextId(s) == IF count[s] <= MaxId THEN count[s] ELSE ZeroID(s)
NextCount(s) == IF count[s] <= MaxId THEN count[s] + 2 ELSE ZeroID(s)

(***************************************************************************)
(* Sending.  A frame is given to mux->sess without asking whether that     *)
(* session still exists: stale records that it does not.                   *)
(***************************************************************************)
SessExists(s) == link[s] # "gone"
Touch(s) == stale' = [stale EXCEPT ![s] = @ \/ ~SessExists(s)]
Post(s, frames) ==
    chan' = [chan EXCEPT ![Peer(s)] = IF SessExists(s) THEN @ \o frames ELSE @]

FrameOf(s, n, cmd, k) ==
    [cmd |-> cmd, id |-> conn[s][n].id, stream |-> conn[s][n].stream, k |-> k]

(* SendClose: nothing is sent by a conn that stopped sending. *)
ClsFrames(s, n) ==
    IF conn[s][n].send = "stopped" THEN <<>> ELSE <<FrameOf(s, n, "cls", 0)>>

(* Mutant: the conn is marked stopped before it tries to send its CLS. *)
MutCloseFrames(s, n) == <<>>

(* Conn::Close of conn n: the CLS it sends, and the conn it leaves. *)
CloseFrames(s, n) == IF conn[s][n].send = "ready" THEN ClsFrames(s, n) ELSE <<>>

(* Mutant: the constant of the sending side for the receiving one. *)
MutConnClosed(c) ==
    [c EXCEPT !.closing = TRUE, !.recv = "stopped", !.send = "stopped",
              !.told = c.told \/ c.send = "ready"]

ConnClosed(c) ==
    [c EXCEPT !.closing = TRUE, !.recv = "stop", !.send = "stopped",
              !.told = c.told \/ c.send = "ready"]

Removal(n) == [what |-> "conn", n |-> n]

ConnCloses(s, n) ==
    IF conn[s][n].closing
       THEN UNCHANGED <<conn, ticks, chan, stale>>
       ELSE /\ conn' = [conn EXCEPT ![s][n] = ConnClosed(@)]
            /\ ticks' = [ticks EXCEPT ![s] = Append(@, Removal(n))]
            /\ Post(s, CloseFrames(s, n))
            /\ IF CloseFrames(s, n) # <<>> THEN Touch(s) ELSE UNCHANGED stale

(***************************************************************************)
(* Calls of the application, on a conn it has not been told is closed.     *)
(***************************************************************************)
Opened(s) == {n \in 1..made[s] : conn[s][n].stream[1] = s}

(* The application creates no conn once it closed the mux.  The id wraps   *)
(* around through the session, SetZeroID.                                  *)
CreateConn(s) ==
    /\ mux[s] = "open"
    /\ ~closed[s]
    /\ Cardinality(Opened(s)) < Creates[s]
    /\ made' = [made EXCEPT ![s] = @ + 1]
    /\ LET n == made[s] + 1 IN
          conn' = [conn EXCEPT ![s][n] = NewConn(NextId(s), <<s, n>>)]
    /\ count' = [count EXCEPT ![s] = NextCount(s)]
    /\ stale' = [stale EXCEPT ![s] = @ \/ (count[s] > MaxId /\ ~SessExists(s))]
    /\ UNCHANGED <<mux, link, waitFin, ticks, chan, closed>>

(* Conn::Send with content: the first frame of a conn is a CONNECT.  The  *)
(* application sends nothing after a CLS.                                  *)
ConnSend(s, n) ==
    /\ conn[s][n].live
    /\ conn[s][n].send # "stopped" /\ ~conn[s][n].told
    /\ conn[s][n].sent < MaxData
    /\ conn' = [conn EXCEPT ![s][n].send = "ready", ![s][n].sent = @ + 1]
    /\ Post(s, <<FrameOf(s, n, IF conn[s][n].send = "none" THEN "connect" ELSE "push",
                         conn[s][n].sent + 1)>>)
    /\ Touch(s)
    /\ UNCHANGED <<made, count, mux, link, waitFin, ticks, closed>>

(* Mutant: the conn goes on sending after its FIN. *)
MutSendStopSending(s, n) ==
    /\ "stop" \in Uses[s]
    /\ conn[s][n].live
    /\ conn[s][n].send # "stopped" /\ ~conn[s][n].told
    /\ Post(s, <<FrameOf(s, n, "fin", 0)>>)
    /\ Touch(s)
    /\ UNCHANGED <<conn, made, count, mux, link, waitFin, ticks, closed>>

SendStopSending(s, n) ==
    /\ "stop" \in Uses[s]
    /\ conn[s][n].live
    /\ conn[s][n].send # "stopped" /\ ~conn[s][n].told
    /\ conn' = [conn EXCEPT ![s][n].send = "stopped"]
    /\ Post(s, <<FrameOf(s, n, "fin", 0)>>)
    /\ Touch(s)
    /\ UNCHANGED <<made, count, mux, link, waitFin, ticks, closed>>

(* connSendClose: the CLS alone; the application sends it once. *)
SendClose(s, n) ==
    /\ "cls" \in Uses[s]
    /\ conn[s][n].live
    /\ conn[s][n].send # "stopped"
    /\ ~conn[s][n].told
    /\ conn' = [conn EXCEPT ![s][n].told = TRUE]
    /\ Post(s, ClsFrames(s, n))
    /\ Touch(s)
    /\ UNCHANGED <<made, count, mux, link, waitFin, ticks, closed>>

ConnClose(s, n) ==
    /\ conn[s][n].live
    /\ ~conn[s][n].closing
    /\ ConnCloses(s, n)
    /\ UNCHANGED <<made, count, mux, link, waitFin, closed>>

(* Mux::Close: every conn of the list, in order, then the session.         *)
OpenConns(s) == {n \in Listed(s) : ~conn[s][n].closing}

(* The conns of S in the order of the list. *)
InList(S) ==
    [i \in 1..Cardinality(S) |-> CHOOSE n \in S : Cardinality({m \in S : m <= n}) = i]

(* Those of the open conns that tell their peer, and what all of them say. *)
Tellers(s) == {n \in OpenConns(s) : CloseFrames(s, n) # <<>>}
ClsOfAll(s) ==
    [i \in 1..Cardinality(Tellers(s)) |-> Head(CloseFrames(s, InList(Tellers(s))[i]))]
RemovalOfAll(s) ==
    [i \in 1..Cardinality(OpenConns(s)) |-> Removal(InList(OpenConns(s))[i])]

MuxClose(s) ==
    /\ s \in Closers
    /\ mux[s] = "open"
    /\ ~closed[s]
    /\ closed' = [closed EXCEPT ![s] = TRUE]
    /\ conn' = [conn EXCEPT ![s] =
                  [n \in Num |-> IF n \in OpenConns(s) THEN ConnClosed(@[n]) ELSE @[n]]]
    /\ LET fin == IF link[s] = "ready" THEN <<[cmd |-> "sfin"]>> ELSE <<>>
           sess == IF link[s] = "created" THEN <<[what |-> "sess"]>> ELSE <<>>
       IN  /\ Post(s, ClsOfAll(s) \o fin)
           /\ ticks' = [ticks EXCEPT ![s] = @ \o RemovalOfAll(s) \o sess]
    /\ link' = [link EXCEPT ![s] = IF @ = "ready" THEN "fin" ELSE @]
    /\ waitFin' = [waitFin EXCEPT ![s] = @ \/ link[s] = "ready"]
    /\ Touch(s)
    /\ UNCHANGED <<made, count, mux>>

(***************************************************************************)
(* Frames of the session, read in order while it lives.                    *)
(***************************************************************************)
Arrives(s, cmd) ==
    /\ link[s] \notin {"ended", "gone"}
    /\ chan[s] # <<>>
    /\ Head(chan[s]).cmd = cmd

(* Reading needs a datagram, and a datagram makes the session ready. *)
Read(s) == link' = [link EXCEPT ![s] = IF @ = "created" THEN "ready" ELSE @]
Consumed(s) == chan' = [chan EXCEPT ![s] = Tail(@)]

(* Data for conn n, unless it stopped receiving. *)
DataTo(s, n, frame) ==
    /\ conn' = IF conn[s][n].recv = "stop" THEN conn
               ELSE [conn EXCEPT ![s][n].recv = "ready", ![s][n].rcvd = frame.k]
    /\ UNCHANGED <<made, ticks, stale>>
    /\ Consumed(s)

(* A CONNECT of a conn the other side opened, for an id not in the list:   *)
(* a conn is created, and its content handed over.                         *)
Connects(s, frame) ==
    frame.cmd = "connect" /\ IsIdFromOtherSide(s, frame.id)

RecvConnectNew(s) ==
    /\ Arrives(s, "connect")
    /\ LET frame == Head(chan[s])
           n == made[s] + 1
           new == NewConn(frame.id, frame.stream)
       IN  /\ Connects(s, frame)
           /\ WithId(s, frame.id) = {}
           /\ n \in Num
           /\ conn' = [conn EXCEPT ![s][n] = [new EXCEPT !.recv = "ready", !.rcvd = frame.k]]
           /\ made' = [made EXCEPT ![s] = n]
    /\ Consumed(s)
    /\ Read(s)
    /\ UNCHANGED <<count, mux, waitFin, ticks, closed, stale>>

(* A second CONNECT for a conn that received one is reported and dropped.  *)
InvalidConnect(s, frame) ==
    /\ Connects(s, frame)
    /\ WithId(s, frame.id) # {}
    /\ conn[s][FirstWithId(s, frame.id)].recv # "none"

RecvInvalidConnect(s) ==
    /\ Arrives(s, "connect")
    /\ InvalidConnect(s, Head(chan[s]))
    /\ Consumed(s)
    /\ Read(s)
    /\ UNCHANGED <<conn, made, count, mux, waitFin, ticks, closed, stale>>

RecvData(s, cmd) ==
    /\ Arrives(s, cmd)
    /\ LET frame == Head(chan[s]) IN
          /\ ~InvalidConnect(s, frame)
          /\ WithId(s, frame.id) # {}
          /\ DataTo(s, FirstWithId(s, frame.id), frame)
    /\ Read(s)
    /\ UNCHANGED <<count, mux, waitFin, closed>>

RecvFin(s) ==
    /\ Arrives(s, "fin")
    /\ LET id == Head(chan[s]).id IN
          /\ WithId(s, id) # {}
          /\ conn' = [conn EXCEPT ![s][FirstWithId(s, id)].recv = "stop"]
    /\ Consumed(s)
    /\ Read(s)
    /\ UNCHANGED <<made, count, mux, waitFin, ticks, closed, stale>>

(* A CLS closes the conn, which answers with a CLS if it is sending. *)
RecvCls(s) ==
    /\ Arrives(s, "cls")
    /\ LET id == Head(chan[s]).id
           n == FirstWithId(s, id)
       IN  /\ WithId(s, id) # {}
           /\ IF conn[s][n].closing THEN UNCHANGED <<conn, ticks>>
              ELSE /\ conn' = [conn EXCEPT ![s][n] = ConnClosed(@)]
                   /\ ticks' = [ticks EXCEPT ![s] = Append(@, Removal(n))]
           /\ chan' = [chan EXCEPT ![s] = Tail(@), ![Peer(s)] =
                         @ \o (IF conn[s][n].closing THEN <<>> ELSE CloseFrames(s, n))]
    /\ Read(s)
    /\ UNCHANGED <<made, count, mux, waitFin, closed, stale>>

(* Any other frame for a conn that is not in the list is dropped. *)
RecvUnknown(s, cmd) ==
    /\ Arrives(s, cmd)
    /\ WithId(s, Head(chan[s]).id) = {}
    /\ ~Connects(s, Head(chan[s]))
    /\ Consumed(s)
    /\ Read(s)
    /\ UNCHANGED <<conn, made, count, mux, waitFin, ticks, closed, stale>>

(***************************************************************************)
(* The session (module Session), as far as it shows here.                  *)
(***************************************************************************)
(* A datagram that brings no frame, an acknowledgement of what A sent.     *)
Spoke(c) == c.sent > 0 \/ c.told \/ (c.send = "stopped" /\ ~c.closing)

SessReady(s) ==
    /\ link[s] = "created"
    /\ \E n \in Num : Spoke(conn[A][n])
    /\ SessExists(Peer(s))
    /\ link' = [link EXCEPT ![s] = "ready"]
    /\ UNCHANGED <<conn, made, count, mux, waitFin, ticks, chan, closed, stale>>

RecvSessFin(s) ==
    /\ Arrives(s, "sfin")
    /\ link' = [link EXCEPT ![s] = "finack"]
    /\ chan' = [chan EXCEPT ![s] = Tail(@), ![Peer(s)] = Append(@, [cmd |-> "sfinack"])]
    /\ UNCHANGED <<conn, made, count, mux, waitFin, ticks, closed, stale>>

RecvSessFinAck(s) ==
    /\ Arrives(s, "sfinack")
    /\ link' = [link EXCEPT ![s] = "finack"]
    /\ Consumed(s)
    /\ UNCHANGED <<conn, made, count, mux, waitFin, ticks, closed, stale>>

(* TriggerClose: the peer has acknowledged, hence read, everything (module *)
(* Session), and no removal of the session is scheduled (OneRemoval).      *)
SessAcked(s) ==
    /\ link[s] = "finack"
    /\ chan[Peer(s)] = <<>>
    /\ \A i \in DOMAIN ticks[s] : ticks[s][i].what # "sess"
    /\ link' = [link EXCEPT ![s] = "ended"]
    /\ waitFin' = [waitFin EXCEPT ![s] = FALSE]
    /\ ticks' = [ticks EXCEPT ![s] = Append(@, [what |-> "sess"])]
    /\ UNCHANGED <<conn, made, count, mux, chan, closed, stale>>

(* Mutant: the mux is not told. *)
MutDeleteSess(s, rest) ==
    /\ link' = [link EXCEPT ![s] = "gone"]
    /\ waitFin' = [waitFin EXCEPT ![s] = FALSE]
    /\ ticks' = [ticks EXCEPT ![s] = rest]
    /\ UNCHANGED <<conn, made, count, mux, chan, closed, stale>>

(* DeleteSess, the close callback: the session is deleted, and the mux is  *)
(* to be told in the next tick.  Its conns are left as they are.           *)
DeleteSess(s, rest) ==
    /\ link' = [link EXCEPT ![s] = "gone"]
    /\ waitFin' = [waitFin EXCEPT ![s] = FALSE]
    /\ ticks' = [ticks EXCEPT ![s] = Append(rest, [what |-> "mux"])]
    /\ UNCHANGED <<conn, made, count, mux, chan, closed, stale>>

(* The FIN timer: what was scheduled ten seconds before has run. *)
WaitFinExpires(s) ==
    /\ waitFin[s]
    /\ ticks[s] = <<>>
    /\ DeleteSess(s, <<>>)

(***************************************************************************)
(* Timers of the loop: Loop::NextTick callbacks run in order.              *)
(***************************************************************************)
Runs(s, what) == ticks[s] # <<>> /\ Head(ticks[s]).what = what

(* Mutant: the conn is looked up by its id. *)
MutRemoveConn(s) ==
    /\ Runs(s, "conn")
    /\ conn' = [conn EXCEPT ![s][FirstWithId(s, conn[s][Head(ticks[s]).n].id)].live = FALSE]
    /\ ticks' = [ticks EXCEPT ![s] = Tail(@)]
    /\ stale' = [stale EXCEPT ![s] = @ \/ mux[s] = "freed"]
    /\ UNCHANGED <<made, count, mux, link, waitFin, chan, closed>>

(* RemoveAndTriggerConnClose unlinks the conn from conn->mux, and its      *)
(* close callback frees it.                                                *)
RemoveConn(s) ==
    /\ Runs(s, "conn")
    /\ conn' = [conn EXCEPT ![s][Head(ticks[s]).n].live = FALSE]
    /\ ticks' = [ticks EXCEPT ![s] = Tail(@)]
    /\ stale' = [stale EXCEPT ![s] = @ \/ mux[s] = "freed"]
    /\ UNCHANGED <<made, count, mux, link, waitFin, chan, closed>>

RemoveSess(s) ==
    /\ Runs(s, "sess")
    /\ DeleteSess(s, Tail(ticks[s]))

RemoveMux(s) ==
    /\ Runs(s, "mux")
    /\ mux' = [mux EXCEPT ![s] = "freed"]
    /\ ticks' = [ticks EXCEPT ![s] = Tail(@)]
    /\ UNCHANGED <<conn, made, count, link, waitFin, chan, closed, stale>>

(* mux_check, after the update of the sessions in the list. *)
TimesOut(s, n) ==
    /\ ConnTimeout
    /\ SessExists(s)
    /\ conn[s][n].live
    /\ ~conn[s][n].closing
    /\ ConnCloses(s, n)
    /\ UNCHANGED <<made, count, mux, link, waitFin, closed>>

Input(s) ==
    \/ RecvConnectNew(s)
    \/ RecvInvalidConnect(s)
    \/ \E cmd \in {"connect", "push"} : RecvData(s, cmd)
    \/ RecvFin(s)
    \/ RecvCls(s)
    \/ \E cmd \in Frames : RecvUnknown(s, cmd)
    \/ RecvSessFin(s)
    \/ RecvSessFinAck(s)

NextTick(s) == RemoveConn(s) \/ RemoveSess(s) \/ RemoveMux(s)

App(s) ==
    \/ CreateConn(s)
    \/ \E n \in Num :
          \/ ConnSend(s, n) \/ SendStopSending(s, n) \/ SendClose(s, n) \/ ConnClose(s, n)
    \/ MuxClose(s)

Next ==
    \E s \in End :
        \/ App(s)
        \/ Input(s)
        \/ SessReady(s)
        \/ SessAcked(s)
        \/ WaitFinExpires(s)
        \/ NextTick(s)
        \/ \E n \in Num : TimesOut(s, n)

Spec == Init /\ [][Next]_vars

(***************************************************************************)
(* The loops run their callbacks, the session delivers while it lives, and *)
(* the FIN timer of a session that waits for its FIN_ACK expires.          *)
(***************************************************************************)
Fairness ==
    \A s \in End :
        WF_vars(Input(s)) /\ WF_vars(NextTick(s)) /\ WF_vars(WaitFinExpires(s))

FairSpec == Spec /\ Fairness

(***************************************************************************)
(* Safety.                                                                 *)
(***************************************************************************)

(* The conns whose removal is scheduled are the closing ones of the list,  *)
(* each scheduled once: RemoveAndTriggerConnClose finds its conn in the    *)
(* list (the assertion of Mux.cc:322) and frees it once.                   *)
Removals(s) == {i \in DOMAIN ticks[s] : ticks[s][i].what = "conn"}

RemovalsListed ==
    \A s \in End :
        /\ {ticks[s][i].n : i \in Removals(s)} = {n \in Listed(s) : conn[s][n].closing}
        /\ \A i, j \in Removals(s) : ticks[s][i].n = ticks[s][j].n => i = j

(* A data frame in flight reaches the conn it was meant for and no other:  *)
(* the conn its id names is at the other end of its stream and the frame   *)
(* is the next it has not received, or a CONNECT finds the id unused.      *)
(* Conns that stopped receiving drop what comes.                           *)
Data(f) == f.cmd \in {"connect", "push"}
DataBefore(s, i) ==
    {j \in 1..(i - 1) : Data(chan[s][j]) /\ chan[s][j].stream = chan[s][i].stream}

StreamIntegrity ==
    \A s \in End : \A i \in DOMAIN chan[s] :
        LET f == chan[s][i] IN
        Data(f) =>
            /\ \A n \in WithId(s, f.id) :
                  /\ conn[s][n].stream = f.stream
                  /\ conn[s][n].recv # "stop" =>
                        f.k = conn[s][n].rcvd + Cardinality(DataBefore(s, i)) + 1
            /\ f.stream[1] # s /\ f.cmd = "connect" => WithId(s, f.id) = {}

(* After the FIN or CLS of a conn no data of it follows, so nothing is     *)
(* dropped at the peer that arrived before its stream ended.               *)
QuietAfterStop ==
    \A s \in End : \A i, j \in DOMAIN chan[s] :
        i < j /\ chan[s][i].cmd \in {"fin", "cls"} /\ Data(chan[s][j]) =>
            chan[s][i].stream # chan[s][j].stream

(* A mux is freed only when its list is empty: "should also free all       *)
(* relative conns of muxes when freed" (mux.spec.js:144).  The run         *)
(* MuxOrphans violates it: a conn its peer half-closed is told nothing by  *)
(* Mux::Close of the peer, and stays behind when the FIN of the session    *)
(* ends its own mux, whose conns nobody closes.                            *)
NoOrphans == \A s \in End : mux[s] = "freed" => Listed(s) = {}

(* No call has reached a session or a mux that was deleted (Conn::Send     *)
(* uses mux->sess, RemoveAndTriggerConnClose uses conn->mux): what the     *)
(* theorem CloseIsTold assumes of the conns left behind.                   *)
NothingStale == \A s \in End : ~stale[s]

(* A conn that is closed after it sent is closed at the other side too:    *)
(* "Tell the other side to close." (Mux.cc:344).  While the session of the *)
(* peer reads, the conn at the other end of the stream is closing or its   *)
(* CLS is on the way, unless that conn has not been created yet.  A conn   *)
(* that never sent, or stopped sending, tells nobody.                      *)
Carriers(s, stream) == {n \in Listed(s) : conn[s][n].stream = stream}
ClsOnTheWay(s, stream) ==
    \E i \in DOMAIN chan[s] : chan[s][i].cmd = "cls" /\ chan[s][i].stream = stream

ClosePropagates ==
    \A s \in End : \A n \in 1..made[s] :
        LET c == conn[s][n] IN
        c.closing /\ c.told /\ link[Peer(s)] \in {"created", "ready"} =>
            \A m \in Carriers(Peer(s), c.stream) :
                conn[Peer(s)][m].closing \/ ClsOnTheWay(Peer(s), c.stream)

(***************************************************************************)
(* Liveness.                                                               *)
(***************************************************************************)

(* A mux its application closes is freed in the end, after its session,    *)
(* whoever else closes and also when the peer never answers the FIN: the   *)
(* wait for its FIN_ACK is bounded by the timer of the session             *)
(* (KcpuvSess.cc:449).  Excepted is a session in FIN_ACK: it ignores Close *)
(* (KcpuvSess.cc:445) and waits for its peer, without a timer.             *)
CloseEnds == \A s \in End : closed[s] /\ link[s] # "finack" ~> mux[s] = "freed"
============================================================================
