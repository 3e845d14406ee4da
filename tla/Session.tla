------------------------------ MODULE Session ------------------------------
(***************************************************************************)
(* The two KcpuvSess objects (src/KcpuvSess.cc) of one connection: an      *)
(* active end A, given its peer's address by InitSend, and a passive end   *)
(* B, which takes the source of the first datagram as its send address.    *)
(*                                                                         *)
(* Each end runs on its own single-threaded libuv loop (src/Loop.cc).  A   *)
(* callback of the loop is atomic except the 10 ms update of a session,    *)
(* which calls back into the application: phase says where it stands.      *)
(*                                                                         *)
(* A session is closed by RemoveSessInNextTick, a 0 ms timer.  libuv keeps *)
(* timers in a heap ordered by due time, so a removal scheduled inside an  *)
(* update runs before the next one (due), and a removal scheduled outside  *)
(* an update may still see one update pass (queued).                       *)
(***************************************************************************)
EXTENDS KcpLink

CONSTANTS
    MaxLen,         \* bound: s sends no data or heartbeat after MaxLen[s] messages
    MaxClose,       \* bound: MaxClose[s] calls of Close
    EnableTimeout,  \* EnableTimeout[s]: s's process called KcpuvSessEnableTimeout(1)
                    \* and sess->timeout is not 0
    WaitFin         \* sess->waitFinTimeout is not 0

ASSUME BoundsAssumption == MaxLen \in [End -> Nat] /\ MaxClose \in [End -> Nat]
ASSUME FlagsAssumption == EnableTimeout \in [End -> BOOLEAN] /\ WaitFin \in BOOLEAN

(* enum of kcpuv.h; a removed session is deleted by its close callback. *)
CREATED   == 0
READY     == 30
FIN       == 31
FIN_ACK   == 32
WAIT_FREE == 50
States == {CREATED, READY, FIN, FIN_ACK, WAIT_FREE}

Phases == {"idle", "recv", "full", "last"}
Reasons == {"none", "acked", "finTimeout", "unconnected", "idleTimeout"}

VARIABLES
    state,      \* sess->state
    addr,       \* sess->sessUDP->HasSendAddr()
    waitFin,    \* sess->waitFinUVTimer is armed
    queued,     \* removals scheduled outside an update
    due,        \* removals that run before the next update
    phase,      \* "idle", or the update is in its receive loop ("recv"), in the
                \* callback of a full buffer ("full") or in the trailing one ("last")
    state0,     \* the local variable `state` of the update
    recvBuf,    \* indices of the peer's messages whose content is in sess->recvBuf
    \* history
    handed,     \* indices of the peer's messages passed to onMsgCb
    why,        \* what scheduled the first removal
    calls,      \* calls of Close
    closes      \* calls of onCloseCb

sessVars == <<state, addr, waitFin, queued, due, phase, state0, recvBuf,
              handed, why, calls, closes>>
vars == <<linkVars, sessVars>>

SessTypeOK ==
    /\ state \in [End -> States]
    /\ addr \in [End -> BOOLEAN]
    /\ waitFin \in [End -> BOOLEAN]
    /\ queued \in [End -> Nat]
    /\ due \in [End -> Nat]
    /\ phase \in [End -> Phases]
    /\ state0 \in [End -> States]
    /\ recvBuf \in [End -> SUBSET Nat]

HistoryTypeOK ==
    /\ handed \in [End -> SUBSET Nat]
    /\ why \in [End -> Reasons]
    /\ calls \in [End -> Nat]
    /\ closes \in [End -> Nat]

TypeOK == LinkTypeOK /\ SessTypeOK /\ HistoryTypeOK

Init ==
    /\ LinkInit
    /\ state = [s \in End |-> CREATED]
    /\ addr = [s \in End |-> s = A]
    /\ waitFin = [s \in End |-> FALSE]
    /\ queued = [s \in End |-> 0]
    /\ due = [s \in End |-> 0]
    /\ phase = [s \in End |-> "idle"]
    /\ state0 = [s \in End |-> CREATED]
    /\ recvBuf = [s \in End |-> {}]
    /\ handed = [s \in End |-> {}]
    /\ why = [s \in End |-> "none"]
    /\ calls = [s \in End |-> 0]
    /\ closes = [s \in End |-> 0]

(***************************************************************************)
(* Helpers.                                                                *)
(***************************************************************************)
Alive(s) == state[s] < WAIT_FREE        \* in sess_list, and not deleted
AllowInput(s) == state[s] < WAIT_FREE

InCallback(s) == phase[s] \in {"full", "last"}

(* The loop can start another callback for s. *)
Idle(s) == phase[s] = "idle" /\ Alive(s)

(* The application of s runs: at top level, or inside onMsgCb. *)
AppRuns(s) == Alive(s) /\ (phase[s] = "idle" \/ InCallback(s))

(* Mutant: the FIN timer is left running. *)
MutTriggerClose(s, reason) ==
    /\ UNCHANGED waitFin
    /\ why' = [why EXCEPT ![s] = IF @ = "none" THEN reason ELSE @]

(* TriggerClose: cancel the FIN timer and schedule RemoveSessInNextTick.   *)
TriggerClose(s, reason) ==
    /\ waitFin' = [waitFin EXCEPT ![s] = FALSE]
    /\ why' = [why EXCEPT ![s] = IF @ = "none" THEN reason ELSE @]

Scheduled(s) == queued[s] + due[s]

(***************************************************************************)
(* Datagrams.  KcpInput(s, g, a): a datagram of the peer arrives, after    *)
(* which s holds g of its messages and knows that a of its own arrived.    *)
(* With g and a as they were it is a duplicate or fills a gap not yet      *)
(* contiguous.                                                             *)
(***************************************************************************)
Emitted(s) == flushed[s] > 0 \/ ackSent[s] > 0

(* Mutant: every datagram makes the session ready, not the first alone. *)
MutKcpInput(s, g, a) ==
    /\ phase[s] = "idle"
    /\ AllowInput(s)
    /\ Emitted(Peer(s))
    /\ g \in got[s]..flushed[Peer(s)]
    /\ a \in acked[s]..ackSent[Peer(s)]
    /\ state' = [state EXCEPT ![s] = READY]
    /\ addr' = [addr EXCEPT ![s] = TRUE]
    /\ LinkInput(s, g, a)
    /\ UNCHANGED <<sent, flushed, read, ackSent, waitFin, queued, due, phase,
                   state0, recvBuf, handed, why, calls, closes>>

KcpInput(s, g, a) ==
    /\ phase[s] = "idle"
    /\ AllowInput(s)
    /\ Emitted(Peer(s))
    /\ g \in got[s]..flushed[Peer(s)]
    /\ a \in acked[s]..ackSent[Peer(s)]
    /\ state' = [state EXCEPT ![s] = IF @ = CREATED \/ ~addr[s] THEN READY ELSE @]
    /\ addr' = [addr EXCEPT ![s] = TRUE]
    /\ LinkInput(s, g, a)
    /\ UNCHANGED <<sent, flushed, read, ackSent, waitFin, queued, due, phase,
                   state0, recvBuf, handed, why, calls, closes>>

(***************************************************************************)
(* Calls of the application.                                               *)
(***************************************************************************)

(* Send never refuses: AllowSend only decides whether to log.  A passive   *)
(* session is used only after a datagram reached it, else SessUDP::Send    *)
(* would assert.                                                           *)
Send(s) ==
    /\ AppRuns(s)
    /\ addr[s]
    /\ Len(sent[s]) < MaxLen[s]
    /\ LinkSend(s, "push")
    /\ UNCHANGED <<flushed, got, read, ackSent, acked, sessVars>>

CloseIgnored(s) ==
    /\ state[s] >= FIN
    /\ UNCHANGED <<sent, state, waitFin, queued, due, why>>

(* Mutant: the FIN timer is not started. *)
MutCloseConnected(s) ==
    /\ state[s] = READY
    /\ LinkSend(s, "fin")
    /\ state' = [state EXCEPT ![s] = FIN]
    /\ UNCHANGED <<waitFin, queued, due, why>>

CloseConnected(s) ==
    /\ state[s] = READY
    /\ LinkSend(s, "fin")
    /\ state' = [state EXCEPT ![s] = FIN]
    /\ waitFin' = [waitFin EXCEPT ![s] = WaitFin]
    /\ UNCHANGED <<queued, due, why>>

(* Mutant: a session that is already closing is removed once more. *)
MutCloseUnconnected(s) ==
    /\ state[s] # READY
    /\ TriggerClose(s, "unconnected")
    /\ IF InCallback(s)
          THEN due' = [due EXCEPT ![s] = @ + 1] /\ UNCHANGED queued
          ELSE queued' = [queued EXCEPT ![s] = @ + 1] /\ UNCHANGED due
    /\ UNCHANGED <<sent, state>>

CloseUnconnected(s) ==
    /\ state[s] = CREATED
    /\ TriggerClose(s, "unconnected")
    /\ IF InCallback(s)
          THEN due' = [due EXCEPT ![s] = @ + 1] /\ UNCHANGED queued
          ELSE queued' = [queued EXCEPT ![s] = @ + 1] /\ UNCHANGED due
    /\ UNCHANGED <<sent, state>>

Close(s) ==
    /\ AppRuns(s)
    /\ calls[s] < MaxClose[s]
    /\ calls' = [calls EXCEPT ![s] = @ + 1]
    /\ CloseIgnored(s) \/ CloseConnected(s) \/ CloseUnconnected(s)
    /\ UNCHANGED <<flushed, got, read, ackSent, acked, addr, phase, state0,
                   recvBuf, handed, closes>>

(***************************************************************************)
(* The update of one session, KcpuvUpdateKcpSess_.                         *)
(***************************************************************************)

(* Mutant: an update may begin while a removal that was due is pending. *)
MutTickBegins(s) ==
    /\ Idle(s)
    /\ queued' = [queued EXCEPT ![s] = 0]

(* A removal queued before this update is overtaken by it, and runs next.  *)
TickBegins(s) ==
    /\ Idle(s)
    /\ due[s] = 0
    /\ queued' = [queued EXCEPT ![s] = 0]

(* Mutant: only a ready session times out. *)
MutTickTimeout(s) ==
    /\ EnableTimeout[s]
    /\ state[s] = READY
    /\ TickBegins(s)
    /\ TriggerClose(s, "idleTimeout")
    /\ due' = [due EXCEPT ![s] = @ + queued[s] + 1]
    /\ UNCHANGED <<linkVars, state, addr, phase, state0, recvBuf, handed, calls, closes>>

(* Nothing was received for sess->timeout: the rest of the update is skipped. *)
TickTimeout(s) ==
    /\ EnableTimeout[s]
    /\ TickBegins(s)
    /\ TriggerClose(s, "idleTimeout")
    /\ due' = [due EXCEPT ![s] = @ + queued[s] + 1]
    /\ UNCHANGED <<linkVars, state, addr, phase, state0, recvBuf, handed, calls, closes>>

(* ikcp_check decides whether ikcp_update is called before receiving. *)
TickStart(s, flush) ==
    /\ TickBegins(s)
    /\ due' = [due EXCEPT ![s] = @ + queued[s]]
    /\ state0' = [state0 EXCEPT ![s] = state[s]]
    /\ phase' = [phase EXCEPT ![s] = "recv"]
    /\ IF flush THEN LinkFlush(s) ELSE UNCHANGED <<flushed, ackSent>>
    /\ UNCHANGED <<sent, got, read, acked, state, addr, waitFin, recvBuf,
                   handed, why, calls, closes>>

(* One message of the receive loop. *)
Receiving(s, cmd) ==
    /\ phase[s] = "recv"
    /\ CanRecv(s)
    /\ NextMsg(s) = cmd
    /\ LinkRecv(s)
    /\ UNCHANGED <<flushed, got, ackSent, acked, addr, waitFin, queued, due,
                   state0, why, calls, closes>>

RecvNoo(s) ==
    /\ Receiving(s, "noo")
    /\ UNCHANGED <<sent, state, phase, recvBuf, handed>>

RecvFin(s) ==
    /\ Receiving(s, "fin")
    /\ IF state0[s] <= FIN
          THEN LinkSend(s, "finack") /\ state' = [state EXCEPT ![s] = FIN_ACK]
          ELSE UNCHANGED <<sent, state>>
    /\ UNCHANGED <<phase, recvBuf, handed>>

(* Mutants: the state is advanced by one; a FIN_ACK is answered. *)
MutRecvFinAck(s) ==
    /\ Receiving(s, "finack")
    /\ state' = [state EXCEPT ![s] = @ + 1]
    /\ UNCHANGED <<sent, phase, recvBuf, handed>>

MutRecvFinAckAnswers(s) ==
    /\ Receiving(s, "finack")
    /\ state' = [state EXCEPT ![s] = FIN_ACK]
    /\ LinkSend(s, "finack")
    /\ UNCHANGED <<phase, recvBuf, handed>>

RecvFinAck(s) ==
    /\ Receiving(s, "finack")
    /\ state' = [state EXCEPT ![s] = FIN_ACK]
    /\ UNCHANGED <<sent, phase, recvBuf, handed>>

(* The content fits behind what recvBuf holds. *)
RecvPush(s) ==
    /\ Receiving(s, "push")
    /\ recvBuf' = [recvBuf EXCEPT ![s] = @ \cup {read[s] + 1}]
    /\ UNCHANGED <<sent, state, phase, handed>>

(* Mutant: the message that did not fit is lost. *)
MutRecvPushFull(s) ==
    /\ Receiving(s, "push")
    /\ recvBuf[s] # {}
    /\ phase' = [phase EXCEPT ![s] = "full"]
    /\ handed' = [handed EXCEPT ![s] = @ \cup recvBuf[s]]
    /\ recvBuf' = [recvBuf EXCEPT ![s] = {}]
    /\ UNCHANGED <<sent, state>>

(* It does not: recvBuf goes to onMsgCb first and the content replaces it. *)
RecvPushFull(s) ==
    /\ Receiving(s, "push")
    /\ recvBuf[s] # {}
    /\ phase' = [phase EXCEPT ![s] = "full"]
    /\ handed' = [handed EXCEPT ![s] = @ \cup recvBuf[s]]
    /\ recvBuf' = [recvBuf EXCEPT ![s] = {read[s] + 1}]
    /\ UNCHANGED <<sent, state>>

FullReturns(s) ==
    /\ phase[s] = "full"
    /\ phase' = [phase EXCEPT ![s] = "recv"]
    /\ UNCHANGED <<linkVars, state, addr, waitFin, queued, due, state0, recvBuf,
                   handed, why, calls, closes>>

(* ikcp_recv failed: the rest of recvBuf goes to onMsgCb. *)
HandRest(s) ==
    /\ phase[s] = "recv"
    /\ ~CanRecv(s)
    /\ recvBuf[s] # {}
    /\ phase' = [phase EXCEPT ![s] = "last"]
    /\ handed' = [handed EXCEPT ![s] = @ \cup recvBuf[s]]
    /\ recvBuf' = [recvBuf EXCEPT ![s] = {}]
    /\ UNCHANGED <<linkVars, state, addr, waitFin, queued, due, state0, why,
                   calls, closes>>

TickEnds(s) ==
    /\ \/ phase[s] = "recv" /\ ~CanRecv(s) /\ recvBuf[s] = {}
       \/ phase[s] = "last"
    /\ phase' = [phase EXCEPT ![s] = "idle"]
    /\ UNCHANGED <<flushed, got, read, ackSent, acked, state, addr, queued,
                   state0, recvBuf, handed, calls, closes>>

(* Mutants: closed with messages in flight; closed without a FIN_ACK. *)
MutTickCloses(s) ==
    /\ TickEnds(s)
    /\ state[s] = FIN_ACK
    /\ TriggerClose(s, "acked")
    /\ due' = [due EXCEPT ![s] = @ + 1]
    /\ UNCHANGED sent

MutTickClosesAnyState(s) ==
    /\ TickEnds(s)
    /\ AllAcked(s)
    /\ TriggerClose(s, "acked")
    /\ due' = [due EXCEPT ![s] = @ + 1]
    /\ UNCHANGED sent

(* Everything s sent is acknowledged and the peer has answered. *)
TickCloses(s) ==
    /\ TickEnds(s)
    /\ state[s] = FIN_ACK
    /\ AllAcked(s)
    /\ TriggerClose(s, "acked")
    /\ due' = [due EXCEPT ![s] = @ + 1]
    /\ UNCHANGED sent

(* sendTs is KCPUV_SESS_HEARTBEAT_INTERVAL old and nothing is in flight. *)
TickHeartbeat(s) ==
    /\ TickEnds(s)
    /\ state[s] = READY
    /\ addr[s]
    /\ AllAcked(s)
    /\ Len(sent[s]) < MaxLen[s]
    /\ LinkSend(s, "noo")
    /\ UNCHANGED <<waitFin, due, why>>

(* Neither: not finished, or sendTs is recent. *)
TickQuiet(s) ==
    /\ TickEnds(s)
    /\ ~(state[s] = FIN_ACK /\ AllAcked(s))
    /\ UNCHANGED <<sent, waitFin, due, why>>

(***************************************************************************)
(* Timers of the loop.                                                     *)
(***************************************************************************)

(* ExitUpdateQueue, Unbind and the close callback, which deletes the       *)
(* session.  Nothing in the code keeps this from running twice.            *)
RemoveSess(s) ==
    /\ state' = [state EXCEPT ![s] = WAIT_FREE]
    /\ closes' = [closes EXCEPT ![s] = @ + 1]

RemoveSessInNextTick(s) ==
    /\ phase[s] = "idle"
    /\ \/ due[s] > 0 /\ due' = [due EXCEPT ![s] = @ - 1] /\ UNCHANGED queued
       \/ due[s] = 0 /\ queued[s] > 0
          /\ queued' = [queued EXCEPT ![s] = @ - 1] /\ UNCHANGED due
    /\ RemoveSess(s)
    /\ UNCHANGED <<linkVars, addr, waitFin, phase, state0, recvBuf, handed, why, calls>>

(* The FIN was not acknowledged within waitFinTimeout. *)
WaitFinExpires(s) ==
    /\ phase[s] = "idle"
    /\ waitFin[s]
    /\ waitFin' = [waitFin EXCEPT ![s] = FALSE]
    /\ why' = [why EXCEPT ![s] = IF @ = "none" THEN "finTimeout" ELSE @]
    /\ RemoveSess(s)
    /\ UNCHANGED <<linkVars, addr, queued, due, phase, state0, recvBuf, handed, calls>>

Recv(s) ==
    \/ RecvNoo(s) \/ RecvFin(s) \/ RecvFinAck(s) \/ RecvPush(s) \/ RecvPushFull(s)

TickSteps(s) ==
    \/ Recv(s) \/ FullReturns(s) \/ HandRest(s)
    \/ TickCloses(s) \/ TickHeartbeat(s) \/ TickQuiet(s)

(* Both ends are gone. *)
Done ==
    /\ \A s \in End : ~Alive(s) /\ Scheduled(s) = 0 /\ ~waitFin[s]
    /\ UNCHANGED vars

Next ==
    \/ \E s \in End :
          \/ \E g \in 0..flushed[Peer(s)], a \in 0..ackSent[Peer(s)] : KcpInput(s, g, a)
          \/ Send(s)
          \/ Close(s)
          \/ TickTimeout(s)
          \/ \E flush \in BOOLEAN : TickStart(s, flush)
          \/ TickSteps(s)
          \/ RemoveSessInNextTick(s)
          \/ WaitFinExpires(s)
    \/ Done

Spec == Init /\ [][Next]_vars

(***************************************************************************)
(* Fairness.  The loop of an end keeps running: updates start, finish and  *)
(* flush again and again, timers expire.  The network is fair-lossy and a  *)
(* live peer retransmits, so what it flushed arrives in the end; nothing   *)
(* is promised for the datagrams of a peer that is gone.  The application  *)
(* owes nothing.  The idle timeout expires once the peer is silent.        *)
(***************************************************************************)
Delivered(s) == KcpInput(s, flushed[Peer(s)], ackSent[Peer(s)])

Fairness ==
    \A s \in End :
        /\ SF_vars(TickStart(s, TRUE))
        /\ WF_vars(TickSteps(s))
        /\ WF_vars(RemoveSessInNextTick(s))
        /\ SF_vars(WaitFinExpires(s))
        /\ SF_vars(Alive(Peer(s)) /\ Delivered(s))
        /\ SF_vars(~Alive(Peer(s)) /\ TickTimeout(s))

FairSpec == Spec /\ Fairness

(***************************************************************************)
(* Safety.                                                                 *)
(***************************************************************************)

(* Once a session is removed nothing still points at it: its removal is    *)
(* not scheduled again, its FIN timer is not armed, and onCloseCb, which   *)
(* deletes it, ran once (RemoveSessInNextTick, TriggerClose, WaitFinTimer).*)
(* It needs an application that calls Close at most once and no idle       *)
(* timeout, which is how the code is deployed.                             *)
RemovedOnce ==
    \A s \in End :
        /\ closes[s] <= 1
        /\ ~Alive(s) => Scheduled(s) = 0 /\ ~waitFin[s]

(* While a session lives at most one thing is going to remove it: the FIN  *)
(* timer or one scheduled removal (TriggerClose stops the timer).          *)
OneRemoval ==
    \A s \in End : Scheduled(s) + (IF waitFin[s] THEN 1 ELSE 0) <= 1

(* An end whose application never calls Close is removed once, although    *)
(* the idle timeout is tested again in every update and the handshake may  *)
(* schedule a removal too: the order in which the loop runs a removal and  *)
(* the next update is all that keeps two of them apart                     *)
(* (KcpuvUpdateKcpSess_, Loop::NextTick).                                  *)
IdleRemovesOnce ==
    \A s \in End :
        calls[s] = 0 =>
            /\ closes[s] <= 1
            /\ ~Alive(s) => Scheduled(s) = 0 /\ ~waitFin[s]

(* Between two updates every message kcp acknowledged to the peer has been *)
(* read, and every PUSH among them has been passed to the application      *)
(* exactly once: the receive loop flushes acknowledgements before it reads *)
(* but always reads to the end and empties recvBuf (KcpuvUpdateKcpSess_).  *)
Pushes(s, n) == {i \in 1..n : sent[s][i] = "push"}

AckedIsHanded ==
    \A s \in End :
        /\ recvBuf[s] \cap handed[s] = {}
        /\ handed[s] \cup recvBuf[s] = Pushes(Peer(s), read[s])
        /\ phase[s] = "idle" => recvBuf[s] = {} /\ acked[Peer(s)] <= read[s]

(* A session that ends because all its data was acknowledged lost nothing: *)
(* its peer was handed every PUSH it sent before its own FIN or FIN_ACK,   *)
(* and it was handed every PUSH its peer sent before the peer's first FIN  *)
(* or FIN_ACK.                                                             *)
Closing(cmd) == cmd \in {"fin", "finack"}

SentBeforeClosing(s) ==
    {i \in DOMAIN sent[s] : sent[s][i] = "push" /\ \A j \in 1..i : ~Closing(sent[s][j])}

GracefulClose ==
    \A s \in End :
        why[s] = "acked" /\ phase[s] = "idle" =>
            /\ SentBeforeClosing(Peer(s)) \subseteq handed[s]
            /\ phase[Peer(s)] = "idle" => SentBeforeClosing(s) \subseteq handed[Peer(s)]

(* An end sends at most one FIN and one FIN_ACK, and a FIN_ACK only in     *)
(* answer to a FIN, so two sessions never answer each other for ever.      *)
Sends(s, cmd) == {i \in DOMAIN sent[s] : sent[s][i] = cmd}

OneAnswer ==
    \A s \in End :
        /\ \A cmd \in {"fin", "finack"} :
               \A i, j \in Sends(s, cmd) : i = j
        /\ Sends(s, "finack") # {} => Sends(Peer(s), "fin") # {}

(* A session never goes back to an earlier state (the constants of kcpuv.h *)
(* are ordered), although the update compares a state it read before the   *)
(* callbacks it makes.                                                     *)
StateAdvances == [][\A s \in End : state'[s] >= state[s]]_vars

(* No session is removed unless the application of one end called Close.   *)
NoSpontaneousClose ==
    \A s \in End : closes[s] > 0 => calls[s] + calls[Peer(s)] > 0

(***************************************************************************)
(* Liveness.                                                               *)
(***************************************************************************)

(* A Close that takes effect, by a FIN or by a scheduled removal, removes  *)
(* the session in the end, whatever the peer and the network do.           *)
CloseCompletes ==
    \A s \in End : (state[s] = FIN \/ Scheduled(s) > 0) ~> ~Alive(s)

(* An end whose idle timeout is enabled does not outlive its peer, in      *)
(* whatever state the peer left it (KcpuvUpdateKcpSess_ tests the time of  *)
(* the last input before anything else).  Without the timeout it may: no   *)
(* timer covers FIN_ACK (KcpuvSess.cc:577), so a session whose FIN_ACK was *)
(* read and whose acknowledgement was lost waits for ever.                 *)
NoHalfOpen ==
    \A s \in {e \in End : EnableTimeout[e]} : ~Alive(Peer(s)) ~> ~Alive(s)
============================================================================
