--------------------------- MODULE SessionProofs ---------------------------
(***************************************************************************)
(* Theorems about Session, for every bound and every setting of the        *)
(* timeouts: the types; what the two ends promise each other about data;   *)
(* how they close; and about the frames and messages the bytes travel in.  *)
(***************************************************************************)
EXTENDS Session, Framing, TLAPS

LEMMA PeerIsEnd == \A s \in End : Peer(s) \in End /\ Peer(s) # s /\ Peer(Peer(s)) = s
BY EndsDiffer DEF End, Peer

LEMMA StateOrder ==
    /\ CREATED \in States /\ READY \in States /\ FIN \in States
    /\ FIN_ACK \in States /\ WAIT_FREE \in States
    /\ States \subseteq Nat
BY DEF States, CREATED, READY, FIN, FIN_ACK, WAIT_FREE

(***************************************************************************)
(* Types.                                                                  *)
(***************************************************************************)
LEMMA InitTyped == Init => TypeOK
BY StateOrder, EndsDiffer
DEF Init, LinkInit, TypeOK, LinkTypeOK, SessTypeOK, HistoryTypeOK, Phases, Reasons, End, Cmd

LEMMA StepTyped == TypeOK /\ [Next]_vars => TypeOK'
<1> SUFFICES ASSUME TypeOK, [Next]_vars PROVE TypeOK'
  OBVIOUS
<1> LinkTypeOK /\ SessTypeOK /\ HistoryTypeOK
  BY DEF TypeOK
<1> USE StateOrder
<1>1. CASE UNCHANGED vars
  <2>1. LinkTypeOK'
    BY <1>1 DEF vars, linkVars, LinkTypeOK
  <2>2. SessTypeOK'
    BY <1>1 DEF vars, sessVars, SessTypeOK
  <2>3. HistoryTypeOK'
    BY <1>1 DEF vars, sessVars, HistoryTypeOK
  <2> QED BY <2>1, <2>2, <2>3 DEF TypeOK
<1>2. ASSUME NEW s \in End, NEW g \in 0..flushed[Peer(s)], NEW a \in 0..ackSent[Peer(s)],
             KcpInput(s, g, a)
      PROVE  TypeOK'
  <2>0. g \in Nat /\ a \in Nat
    BY PeerIsEnd DEF LinkTypeOK
  <2>1. LinkTypeOK'
    BY <1>2, <2>0 DEF KcpInput, LinkInput, LinkTypeOK
  <2>2. SessTypeOK'
    BY <1>2, <2>0 DEF KcpInput, SessTypeOK
  <2>3. HistoryTypeOK'
    BY <1>2, <2>0 DEF KcpInput, HistoryTypeOK
  <2> QED BY <2>1, <2>2, <2>3 DEF TypeOK
<1>3. ASSUME NEW s \in End, Send(s) PROVE TypeOK'
  <2>1. LinkTypeOK'
    BY <1>3 DEF Send, LinkSend, Cmd, LinkTypeOK
  <2>2. SessTypeOK'
    BY <1>3 DEF Send, sessVars, SessTypeOK
  <2>3. HistoryTypeOK'
    BY <1>3 DEF Send, sessVars, HistoryTypeOK
  <2> QED BY <2>1, <2>2, <2>3 DEF TypeOK
<1>4. ASSUME NEW s \in End, Close(s) PROVE TypeOK'
  <2>1. CASE CloseIgnored(s)
    <3>1. LinkTypeOK'
      BY <1>4, <2>1 DEF Close, CloseIgnored, LinkTypeOK
    <3>2. SessTypeOK'
      BY <1>4, <2>1 DEF Close, CloseIgnored, SessTypeOK
    <3>3. HistoryTypeOK'
      BY <1>4, <2>1 DEF Close, CloseIgnored, HistoryTypeOK
    <3> QED BY <3>1, <3>2, <3>3 DEF TypeOK
  <2>2. CASE CloseConnected(s)
    <3>1. LinkTypeOK'
      BY <1>4, <2>2, FlagsAssumption DEF Close, CloseConnected, LinkSend, Cmd, LinkTypeOK
    <3>2. SessTypeOK'
      BY <1>4, <2>2, FlagsAssumption DEF Close, CloseConnected, SessTypeOK
    <3>3. HistoryTypeOK'
      BY <1>4, <2>2, FlagsAssumption DEF Close, CloseConnected, HistoryTypeOK
    <3> QED BY <3>1, <3>2, <3>3 DEF TypeOK
  <2>3. CASE CloseUnconnected(s)
    <3>1. LinkTypeOK'
      BY <1>4, <2>3 DEF Close, CloseUnconnected, LinkTypeOK
    <3>2. SessTypeOK'
      BY <1>4, <2>3 DEF Close, CloseUnconnected, TriggerClose, SessTypeOK
    <3>3. HistoryTypeOK'
      BY <1>4, <2>3 DEF Close, CloseUnconnected, TriggerClose, Reasons, HistoryTypeOK
    <3> QED BY <3>1, <3>2, <3>3 DEF TypeOK
  <2> QED BY <1>4, <2>1, <2>2, <2>3 DEF Close
<1>5. ASSUME NEW s \in End, TickTimeout(s) PROVE TypeOK'
  <2>1. LinkTypeOK'
    BY <1>5 DEF TickTimeout, linkVars, LinkTypeOK
  <2>2. SessTypeOK'
    BY <1>5 DEF TickTimeout, TickBegins, TriggerClose, SessTypeOK
  <2>3. HistoryTypeOK'
    BY <1>5 DEF TickTimeout, TriggerClose, Reasons, HistoryTypeOK
  <2> QED BY <2>1, <2>2, <2>3 DEF TypeOK
<1>6. ASSUME NEW s \in End, NEW flush \in BOOLEAN, TickStart(s, flush) PROVE TypeOK'
  <2>1. LinkTypeOK'
    <3>1. CASE flush
      <4>1. flushed' = [flushed EXCEPT ![s] = Len(sent[s])]
            /\ ackSent' = [ackSent EXCEPT ![s] = got[s]]
        BY <1>6, <3>1, Zenon DEF TickStart, LinkFlush
      <4>2. Len(sent[s]) \in Nat /\ got[s] \in Nat
        BY DEF LinkTypeOK
      <4> QED BY <1>6, <4>1, <4>2 DEF TickStart, LinkTypeOK
    <3>2. CASE ~flush
      BY <1>6, <3>2 DEF TickStart, LinkTypeOK
    <3> QED BY <3>1, <3>2
  <2>2. SessTypeOK'
    BY <1>6 DEF TickStart, TickBegins, Phases, SessTypeOK
  <2>3. HistoryTypeOK'
    BY <1>6 DEF TickStart, HistoryTypeOK
  <2> QED BY <2>1, <2>2, <2>3 DEF TypeOK
<1>7. ASSUME NEW s \in End, TickSteps(s) PROVE TypeOK'
  <2>1. CASE RecvNoo(s)
    <3>1. LinkTypeOK'
      BY <2>1 DEF RecvNoo, Receiving, LinkRecv, LinkTypeOK
    <3>2. SessTypeOK'
      BY <2>1 DEF RecvNoo, Receiving, SessTypeOK
    <3>3. HistoryTypeOK'
      BY <2>1 DEF RecvNoo, Receiving, HistoryTypeOK
    <3> QED BY <3>1, <3>2, <3>3 DEF TypeOK
  <2>2. CASE RecvFin(s)
    <3>1. LinkTypeOK'
      <4>1. CASE state0[s] <= FIN
        <5>0. LinkSend(s, "finack")
          BY <2>2, <4>1, Zenon DEF RecvFin
        <5>1. sent' \in [End -> Seq(Cmd)]
          BY <5>0 DEF LinkSend, Cmd, LinkTypeOK
        <5>2. read' \in [End -> Nat]
          BY <2>2 DEF RecvFin, Receiving, LinkRecv, LinkTypeOK
        <5>3. UNCHANGED <<flushed, got, ackSent, acked>>
          BY <2>2 DEF RecvFin, Receiving
        <5> QED BY <5>1, <5>2, <5>3 DEF LinkTypeOK
      <4>2. CASE ~(state0[s] <= FIN)
        BY <2>2, <4>2 DEF RecvFin, Receiving, LinkRecv, LinkTypeOK
      <4> QED BY <4>1, <4>2
    <3>2. SessTypeOK'
      BY <2>2, SMTT(20) DEF RecvFin, Receiving, SessTypeOK
    <3>3. HistoryTypeOK'
      BY <2>2 DEF RecvFin, Receiving, HistoryTypeOK
    <3> QED BY <3>1, <3>2, <3>3 DEF TypeOK
  <2>3. CASE RecvFinAck(s)
    <3>1. LinkTypeOK'
      BY <2>3 DEF RecvFinAck, Receiving, LinkRecv, LinkTypeOK
    <3>2. SessTypeOK'
      BY <2>3 DEF RecvFinAck, Receiving, SessTypeOK
    <3>3. HistoryTypeOK'
      BY <2>3 DEF RecvFinAck, Receiving, HistoryTypeOK
    <3> QED BY <3>1, <3>2, <3>3 DEF TypeOK
  <2>4. CASE RecvPush(s)
    <3>1. LinkTypeOK'
      BY <2>4 DEF RecvPush, Receiving, LinkRecv, LinkTypeOK
    <3>2. SessTypeOK'
      <4>1. read[s] + 1 \in Nat
        BY DEF LinkTypeOK
      <4>2. recvBuf' \in [End -> SUBSET Nat]
        BY <2>4, <4>1 DEF RecvPush, SessTypeOK
      <4>3. UNCHANGED <<state, addr, waitFin, queued, due, phase, state0>>
        BY <2>4 DEF RecvPush, Receiving
      <4> QED BY <4>2, <4>3 DEF SessTypeOK
    <3>3. HistoryTypeOK'
      BY <2>4 DEF RecvPush, Receiving, HistoryTypeOK
    <3> QED BY <3>1, <3>2, <3>3 DEF TypeOK
  <2>5. CASE RecvPushFull(s)
    <3>1. LinkTypeOK'
      BY <2>5 DEF RecvPushFull, Receiving, LinkRecv, LinkTypeOK
    <3>2. SessTypeOK'
      <4>1. read[s] + 1 \in Nat
        BY DEF LinkTypeOK
      <4>2. recvBuf' \in [End -> SUBSET Nat]
        BY <2>5, <4>1 DEF RecvPushFull, SessTypeOK
      <4>3. phase' \in [End -> Phases]
        BY <2>5 DEF RecvPushFull, Phases, SessTypeOK
      <4>4. UNCHANGED <<state, addr, waitFin, queued, due, state0>>
        BY <2>5 DEF RecvPushFull, Receiving
      <4> QED BY <4>2, <4>3, <4>4 DEF SessTypeOK
    <3>3. HistoryTypeOK'
      BY <2>5 DEF RecvPushFull, Receiving, SessTypeOK, HistoryTypeOK
    <3> QED BY <3>1, <3>2, <3>3 DEF TypeOK
  <2>6. CASE FullReturns(s)
    <3>1. LinkTypeOK'
      BY <2>6 DEF FullReturns, linkVars, LinkTypeOK
    <3>2. SessTypeOK'
      BY <2>6 DEF FullReturns, Phases, SessTypeOK
    <3>3. HistoryTypeOK'
      BY <2>6 DEF FullReturns, HistoryTypeOK
    <3> QED BY <3>1, <3>2, <3>3 DEF TypeOK
  <2>7. CASE HandRest(s)
    <3>1. LinkTypeOK'
      BY <2>7 DEF HandRest, linkVars, LinkTypeOK
    <3>2. SessTypeOK'
      BY <2>7 DEF HandRest, Phases, SessTypeOK
    <3>3. HistoryTypeOK'
      BY <2>7 DEF HandRest, SessTypeOK, HistoryTypeOK
    <3> QED BY <3>1, <3>2, <3>3 DEF TypeOK
  <2>8. CASE TickCloses(s)
    <3>1. LinkTypeOK'
      BY <2>8 DEF TickCloses, TickEnds, LinkTypeOK
    <3>2. SessTypeOK'
      BY <2>8 DEF TickCloses, TickEnds, TriggerClose, Phases, SessTypeOK
    <3>3. HistoryTypeOK'
      BY <2>8 DEF TickCloses, TickEnds, TriggerClose, Reasons, HistoryTypeOK
    <3> QED BY <3>1, <3>2, <3>3 DEF TypeOK
  <2>9. CASE TickHeartbeat(s)
    <3>1. LinkTypeOK'
      BY <2>9 DEF TickHeartbeat, TickEnds, LinkSend, Cmd, LinkTypeOK
    <3>2. SessTypeOK'
      BY <2>9 DEF TickHeartbeat, TickEnds, Phases, SessTypeOK
    <3>3. HistoryTypeOK'
      BY <2>9 DEF TickHeartbeat, TickEnds, HistoryTypeOK
    <3> QED BY <3>1, <3>2, <3>3 DEF TypeOK
  <2>10. CASE TickQuiet(s)
    <3>1. LinkTypeOK'
      BY <2>10 DEF TickQuiet, TickEnds, LinkTypeOK
    <3>2. SessTypeOK'
      BY <2>10 DEF TickQuiet, TickEnds, Phases, SessTypeOK
    <3>3. HistoryTypeOK'
      BY <2>10 DEF TickQuiet, TickEnds, HistoryTypeOK
    <3> QED BY <3>1, <3>2, <3>3 DEF TypeOK
  <2> QED BY <1>7, <2>1, <2>2, <2>3, <2>4, <2>5, <2>6, <2>7, <2>8, <2>9, <2>10
          DEF TickSteps, Recv
<1>8. ASSUME NEW s \in End, RemoveSessInNextTick(s) PROVE TypeOK'
  <2>1. LinkTypeOK'
    BY <1>8 DEF RemoveSessInNextTick, linkVars, LinkTypeOK
  <2>2. SessTypeOK'
    BY <1>8 DEF RemoveSessInNextTick, RemoveSess, SessTypeOK
  <2>3. HistoryTypeOK'
    BY <1>8 DEF RemoveSessInNextTick, RemoveSess, HistoryTypeOK
  <2> QED BY <2>1, <2>2, <2>3 DEF TypeOK
<1>9. ASSUME NEW s \in End, WaitFinExpires(s) PROVE TypeOK'
  <2>1. LinkTypeOK'
    BY <1>9 DEF WaitFinExpires, linkVars, LinkTypeOK
  <2>2. SessTypeOK'
    BY <1>9 DEF WaitFinExpires, RemoveSess, SessTypeOK
  <2>3. HistoryTypeOK'
    BY <1>9 DEF WaitFinExpires, RemoveSess, Reasons, HistoryTypeOK
  <2> QED BY <2>1, <2>2, <2>3 DEF TypeOK
<1>10. CASE Done
  BY <1>1, <1>10 DEF Done
<1> QED
  BY <1>1, <1>2, <1>3, <1>4, <1>5, <1>6, <1>7, <1>8, <1>9, <1>10 DEF Next

(* Every variable keeps its type, whatever the network, the loops and the  *)
(* applications do.                                                        *)
THEOREM TypeCorrect == Spec => []TypeOK
BY InitTyped, StepTyped, PTL DEF Spec

(***************************************************************************)
(* What two sessions promise each other about data, proved for every       *)
(* bound: AckedIsHanded and GracefulClose of Session.                      *)
(*                                                                         *)
(* AckedIsHanded is not inductive: that an update may acknowledge messages *)
(* it has not read rests on how far the counters of KcpLink may be apart.  *)
(* GracefulClose rests on where in the two streams the FIN and FIN_ACK are *)
(* that made a session close.                                              *)
(***************************************************************************)

CountersOrdered(s) ==
    /\ read[s] <= got[s]
    /\ got[s] <= flushed[Peer(s)]
    /\ flushed[Peer(s)] <= Len(sent[Peer(s)])
    /\ acked[Peer(s)] <= ackSent[s]
    /\ ackSent[s] <= got[s]

LinkInv == \A s \in End : CountersOrdered(s)

HandedOver(s) ==
    /\ recvBuf[s] \cap handed[s] = {}
    /\ handed[s] \cup recvBuf[s] = Pushes(Peer(s), read[s])
    /\ phase[s] \in {"idle", "last"} => recvBuf[s] = {} /\ ackSent[s] <= read[s]

HandInv == \A s \in End : HandedOver(s)

(***************************************************************************)
(* What a step of Session does to the link.                                *)
(***************************************************************************)
Sending(s, cmd) == LinkSend(s, cmd) /\ UNCHANGED <<flushed, got, ackSent, acked>>

LinkStep ==
    \/ UNCHANGED linkVars
    \/ \E s \in End : LinkFlush(s) /\ UNCHANGED <<sent, got, read, acked>>
    \/ \E s \in End, g \in Nat, a \in Nat :
          /\ got[s] <= g /\ g <= flushed[Peer(s)]
          /\ acked[s] <= a /\ a <= ackSent[Peer(s)]
          /\ LinkInput(s, g, a)
          /\ UNCHANGED <<sent, flushed, read, ackSent>>
    \/ \E s \in End, cmd \in Cmd : Sending(s, cmd) /\ UNCHANGED read
    \/ \E s \in End : CanRecv(s) /\ LinkRecv(s) /\ UNCHANGED <<sent, flushed, got, ackSent, acked>>
    \/ \E s \in End, cmd \in Cmd : CanRecv(s) /\ LinkRecv(s) /\ Sending(s, cmd)

LEMMA LinkEffects == TypeOK /\ [Next]_vars => LinkStep
<1> SUFFICES ASSUME TypeOK, [Next]_vars PROVE LinkStep
  OBVIOUS
<1> USE DEF LinkStep
<1>1. CASE UNCHANGED vars
  BY <1>1 DEF vars
<1>2. ASSUME NEW s \in End, NEW g \in 0..flushed[Peer(s)], NEW a \in 0..ackSent[Peer(s)],
             KcpInput(s, g, a)
      PROVE  LinkStep
  <2>1. /\ got[s] \in Nat /\ acked[s] \in Nat
        /\ flushed[Peer(s)] \in Nat /\ ackSent[Peer(s)] \in Nat
    BY PeerIsEnd DEF TypeOK, LinkTypeOK
  <2> QED BY <1>2, <2>1 DEF KcpInput
<1>3. ASSUME NEW s \in End, Send(s) PROVE LinkStep
  BY <1>3 DEF Send, Sending, Cmd
<1>4. ASSUME NEW s \in End, Close(s) PROVE LinkStep
  <2>1. CASE sent' = sent
    BY <1>4, <2>1 DEF Close, linkVars
  <2>2. CASE CloseConnected(s)
    BY <1>4, <2>2 DEF Close, CloseConnected, Sending, Cmd
  <2> QED BY <1>4, <2>1, <2>2 DEF Close, CloseIgnored, CloseUnconnected
<1>5. ASSUME NEW s \in End, TickTimeout(s) PROVE LinkStep
  BY <1>5 DEF TickTimeout
<1>6. ASSUME NEW s \in End, NEW flush \in BOOLEAN, TickStart(s, flush) PROVE LinkStep
  <2>1. LinkFlush(s) \/ UNCHANGED <<flushed, ackSent>>
    BY <1>6, Zenon DEF TickStart
  <2> QED BY <1>6, <2>1 DEF TickStart, linkVars
<1>7. ASSUME NEW s \in End, TickSteps(s) PROVE LinkStep
  <2>1. ASSUME NEW cmd \in Cmd, Receiving(s, cmd), sent' = sent PROVE LinkStep
    BY <2>1 DEF Receiving
  <2>2. CASE RecvFin(s)
    <3>1. Receiving(s, "fin") /\ (sent' = sent \/ LinkSend(s, "finack"))
      BY <2>2, Zenon DEF RecvFin
    <3> QED BY <2>1, <3>1 DEF Receiving, Sending, Cmd
  <2>3. CASE TickHeartbeat(s)
    BY <2>3 DEF TickHeartbeat, TickEnds, Sending, Cmd
  <2>4. CASE RecvNoo(s) \/ RecvFinAck(s) \/ RecvPush(s) \/ RecvPushFull(s)
    BY <2>1, <2>4 DEF RecvNoo, RecvFinAck, RecvPush, RecvPushFull, Cmd
  <2>5. CASE FullReturns(s) \/ HandRest(s) \/ TickCloses(s) \/ TickQuiet(s)
    BY <2>5 DEF FullReturns, HandRest, TickCloses, TickQuiet, TickEnds, linkVars
  <2> QED BY <1>7, <2>2, <2>3, <2>4, <2>5 DEF TickSteps, Recv
<1>8. ASSUME NEW s \in End, RemoveSessInNextTick(s) PROVE LinkStep
  BY <1>8 DEF RemoveSessInNextTick
<1>9. ASSUME NEW s \in End, WaitFinExpires(s) PROVE LinkStep
  BY <1>9 DEF WaitFinExpires
<1>10. CASE Done
  BY <1>10 DEF Done, vars
<1> QED
  BY <1>1, <1>2, <1>3, <1>4, <1>5, <1>6, <1>7, <1>8, <1>9, <1>10 DEF Next

(* A sender's stream only grows: what was sent stays where it was. *)
SentGrows ==
    \A s \in End :
        /\ Len(sent[s]) <= Len(sent'[s])
        /\ \A i \in 1..Len(sent[s]) : sent'[s][i] = sent[s][i]

LEMMA StreamsGrow == TypeOK /\ LinkStep => SentGrows
<1> SUFFICES ASSUME TypeOK, LinkStep PROVE SentGrows
  OBVIOUS
<1>1. CASE sent' = sent
  BY <1>1 DEF SentGrows, TypeOK, LinkTypeOK
<1>2. ASSUME NEW s \in End, NEW cmd \in Cmd, LinkSend(s, cmd) PROVE SentGrows
  <2> SUFFICES ASSUME NEW t \in End
               PROVE  /\ Len(sent[t]) <= Len(sent'[t])
                      /\ \A i \in 1..Len(sent[t]) : sent'[t][i] = sent[t][i]
    BY DEF SentGrows
  <2>1. sent[t] \in Seq(Cmd)
    BY DEF TypeOK, LinkTypeOK
  <2>2. CASE t = s
    <3>1. sent'[t] = Append(sent[t], cmd)
      BY <1>2, <2>2 DEF LinkSend, TypeOK, LinkTypeOK
    <3> QED BY <2>1, <3>1
  <2>3. CASE t # s
    BY <1>2, <2>1, <2>3 DEF LinkSend, TypeOK, LinkTypeOK
  <2> QED BY <2>2, <2>3
<1> QED BY <1>1, <1>2 DEF LinkStep, Sending, linkVars

LEMMA CountersAdvance ==
    TypeOK /\ LinkStep =>
        \A s \in End : read[s] <= read'[s] /\ acked[s] <= acked'[s]
<1> SUFFICES ASSUME TypeOK, LinkStep, NEW t \in End
             PROVE  read[t] <= read'[t] /\ acked[t] <= acked'[t]
  OBVIOUS
<1>1. read \in [End -> Nat] /\ acked \in [End -> Nat]
  BY DEF TypeOK, LinkTypeOK
<1>2. read[t] <= read'[t]
  BY <1>1 DEF LinkStep, linkVars, LinkRecv
<1>3. acked[t] <= acked'[t]
  BY <1>1 DEF LinkStep, linkVars, LinkInput, Sending
<1> QED BY <1>2, <1>3

(***************************************************************************)
(* The counters of the link stay in order.                                 *)
(***************************************************************************)
LEMMA LinkInvStep == TypeOK /\ TypeOK' /\ LinkInv /\ LinkStep => LinkInv'
<1> SUFFICES ASSUME TypeOK, TypeOK', LinkInv, LinkStep, NEW t \in End, NEW p \in End, p = Peer(t)
             PROVE  /\ read'[t] <= got'[t]
                    /\ got'[t] <= flushed'[p]
                    /\ flushed'[p] <= Len(sent'[p])
                    /\ acked'[p] <= ackSent'[t]
                    /\ ackSent'[t] <= got'[t]
  BY PeerIsEnd DEF LinkInv, CountersOrdered
<1>1. p # t /\ Peer(p) = t /\ \A s \in End : s = t \/ s = p
  BY PeerIsEnd DEF End, Peer
<1>2. /\ read[t] <= got[t]
      /\ got[t] <= flushed[p]
      /\ flushed[p] <= Len(sent[p])
      /\ acked[p] <= ackSent[t]
      /\ ackSent[t] <= got[t]
  BY DEF LinkInv, CountersOrdered
<1>3. /\ flushed \in [End -> Nat] /\ got \in [End -> Nat] /\ read \in [End -> Nat]
      /\ ackSent \in [End -> Nat] /\ acked \in [End -> Nat]
      /\ Len(sent[p]) \in Nat /\ Len(sent'[p]) \in Nat
  <2>1. sent[p] \in Seq(Cmd) /\ sent'[p] \in Seq(Cmd)
    BY DEF TypeOK, LinkTypeOK
  <2>2. Len(sent[p]) \in Nat /\ Len(sent'[p]) \in Nat
    BY <2>1
  <2>3. LinkTypeOK
    BY DEF TypeOK
  <2> QED BY <2>2, <2>3 DEF LinkTypeOK
<1>4. Len(sent[p]) <= Len(sent'[p])
  BY StreamsGrow DEF SentGrows
<1>5. CASE UNCHANGED linkVars
  BY <1>2, <1>5 DEF linkVars
<1>6. ASSUME NEW s \in End, LinkFlush(s), UNCHANGED <<sent, got, read, acked>>
      PROVE  /\ got'[t] <= flushed'[p]
             /\ flushed'[p] <= Len(sent'[p])
             /\ acked'[p] <= ackSent'[t]
             /\ ackSent'[t] <= got'[t]
  <2>1. flushed'[p] = flushed[p] \/ flushed'[p] = Len(sent[p])
    BY <1>3, <1>6 DEF LinkFlush
  <2>2. ackSent'[t] = ackSent[t] \/ ackSent'[t] = got[t]
    BY <1>3, <1>6 DEF LinkFlush
  <2>3. flushed[p] \in Nat /\ ackSent[t] \in Nat /\ got[t] \in Nat /\ acked[p] \in Nat
    BY <1>3
  <2>4. got'[t] = got[t] /\ sent'[p] = sent[p] /\ acked'[p] = acked[p]
    BY <1>6
  <2>5. got'[t] <= flushed'[p] /\ flushed'[p] <= Len(sent'[p])
    BY <1>2, <1>3, <2>1, <2>3, <2>4
  <2>6. acked'[p] <= ackSent'[t] /\ ackSent'[t] <= got'[t]
    BY <1>2, <2>2, <2>3, <2>4
  <2> QED BY <2>5, <2>6
<1>7. ASSUME NEW s \in End, NEW g \in Nat, NEW a \in Nat,
             got[s] <= g, g <= flushed[Peer(s)], a <= ackSent[Peer(s)],
             LinkInput(s, g, a), UNCHANGED <<sent, flushed, read, ackSent>>
      PROVE  /\ read'[t] <= got'[t]
             /\ got'[t] <= flushed'[p]
             /\ acked'[p] <= ackSent'[t]
             /\ ackSent'[t] <= got'[t]
  <2>0. got' = [got EXCEPT ![s] = g]
    BY <1>7 DEF LinkInput
  <2>1. got'[t] \in Nat /\ got[t] <= got'[t] /\ got'[t] <= flushed[p]
    <3>1. CASE s = t
      BY <1>3, <1>7, <2>0, <3>1
    <3>2. CASE s # t
      BY <1>2, <1>3, <2>0, <3>2
    <3> QED BY <3>1, <3>2
  <2>2. acked'[p] <= ackSent[t]
    BY <1>1, <1>2, <1>3, <1>7 DEF LinkInput
  <2>3. read[t] \in Nat /\ got[t] \in Nat /\ ackSent[t] \in Nat
    BY <1>3
  <2> QED BY <1>2, <1>7, <2>1, <2>2, <2>3
<1>8. ASSUME UNCHANGED <<flushed, got, ackSent, acked>>
      PROVE  /\ got'[t] <= flushed'[p]
             /\ flushed'[p] <= Len(sent'[p])
             /\ acked'[p] <= ackSent'[t]
             /\ ackSent'[t] <= got'[t]
  <2>1. flushed[p] \in Nat
    BY <1>3
  <2> QED BY <1>2, <1>3, <1>4, <1>8, <2>1
<1>9. ASSUME NEW s \in End, CanRecv(s), LinkRecv(s), got' = got
      PROVE  read'[t] <= got'[t]
  <2>1. read[t] \in Nat /\ got[t] \in Nat
    BY <1>3
  <2> QED BY <1>2, <1>3, <1>9, <2>1 DEF CanRecv, LinkRecv
<1> QED BY <1>2, <1>3, <1>5, <1>6, <1>7, <1>8, <1>9 DEF LinkStep, Sending

(***************************************************************************)
(* Every PUSH read is in recvBuf or was handed over.                       *)
(***************************************************************************)

LEMMA ReadBound ==
    ASSUME TypeOK, LinkInv, NEW t \in End
    PROVE  read[t] \in Nat /\ read[t] <= Len(sent[Peer(t)])
<1>1. /\ read[t] \in Nat /\ got[t] \in Nat /\ flushed[Peer(t)] \in Nat
      /\ sent[Peer(t)] \in Seq(Cmd)
  BY PeerIsEnd DEF TypeOK, LinkTypeOK
<1>2. read[t] <= got[t] /\ got[t] <= flushed[Peer(t)] /\ flushed[Peer(t)] <= Len(sent[Peer(t)])
  BY DEF LinkInv, CountersOrdered
<1> QED BY <1>1, <1>2

(* What was read does not change under a step, for an end s and n of its   *)
(* messages.                                                               *)
LEMMA PushesStay ==
    ASSUME TypeOK, SentGrows, NEW s \in End, NEW n \in Nat, n <= Len(sent[s])
    PROVE  Pushes(s, n)' = Pushes(s, n)
<1>1. \A i \in 1..n : sent'[s][i] = sent[s][i]
  BY DEF SentGrows, TypeOK, LinkTypeOK
<1> QED BY <1>1 DEF Pushes

(* One more message makes one more PUSH, or none. *)
LEMMA OneMore ==
    ASSUME NEW s \in End, NEW n \in Nat
    PROVE  Pushes(s, n + 1) =
              IF sent[s][n + 1] = "push" THEN Pushes(s, n) \cup {n + 1} ELSE Pushes(s, n)
<1>1. 1..(n + 1) = 1..n \cup {n + 1}
  OBVIOUS
<1> QED BY <1>1 DEF Pushes

(* A step that leaves the receiving state of t alone keeps what t holds.   *)
LEMMA HandedFrame ==
    ASSUME TypeOK, LinkInv, SentGrows, NEW t \in End, HandedOver(t),
           read'[t] = read[t], recvBuf'[t] = recvBuf[t], handed'[t] = handed[t],
           phase'[t] = phase[t], ackSent'[t] = ackSent[t]
    PROVE  HandedOver(t)'
<1>1. read[t] \in Nat /\ read[t] <= Len(sent[Peer(t)])
  BY ReadBound
<1> QED BY <1>1, PushesStay, PeerIsEnd DEF HandedOver

(* A message read in the receive loop: what becomes of it. *)
LEMMA HandedRead ==
    ASSUME TypeOK, LinkInv, SentGrows, NEW t \in End, HandedOver(t),
           NEW cmd, Receiving(t, cmd), phase'[t] \notin {"idle", "last"},
           \/ cmd # "push" /\ handed'[t] \cup recvBuf'[t] = handed[t] \cup recvBuf[t]
           \/ cmd = "push" /\ handed'[t] \cup recvBuf'[t]
                                = (handed[t] \cup recvBuf[t]) \cup {read[t] + 1},
           recvBuf'[t] \cap handed'[t] = {}
    PROVE  HandedOver(t)'
<1> DEFINE p == Peer(t)
<1>1. p \in End /\ read[t] \in Nat /\ read'[t] = read[t] + 1 /\ read[t] + 1 <= Len(sent[p])
  <2>1. /\ read \in [End -> Nat] /\ got[t] \in Nat /\ flushed[p] \in Nat
        /\ p \in End /\ sent[p] \in Seq(Cmd)
    BY PeerIsEnd DEF TypeOK, LinkTypeOK
  <2>2. read[t] < got[t] /\ got[t] <= flushed[p] /\ flushed[p] <= Len(sent[p])
    BY DEF Receiving, CanRecv, LinkInv, CountersOrdered
  <2> QED BY <2>1, <2>2 DEF Receiving, LinkRecv
<1>2. sent[p][read[t] + 1] = cmd
  BY DEF Receiving, NextMsg
<1>3. PICK n \in Nat : n = read[t] + 1
  BY <1>1
<1>4. Pushes(p, n)' = Pushes(p, n)
  BY <1>1, <1>3, PushesStay
<1>5. handed[t] \cup recvBuf[t] = Pushes(p, read[t])
  BY DEF HandedOver
<1>6. Pushes(p, n) = IF cmd = "push" THEN Pushes(p, read[t]) \cup {n} ELSE Pushes(p, read[t])
  BY <1>1, <1>2, <1>3, OneMore
<1>7. handed'[t] \cup recvBuf'[t] = Pushes(p, n)
  <2> HIDE DEF p
  <2> QED BY <1>3, <1>5, <1>6
<1>8. Pushes(p, read[t])' = Pushes(p, n)'
  BY <1>1, <1>3 DEF Pushes
<1> QED BY <1>4, <1>7, <1>8 DEF HandedOver

LEMMA HandInvStep ==
    TypeOK /\ TypeOK' /\ LinkInv /\ HandInv /\ SentGrows /\ [Next]_vars => HandInv'
<1> SUFFICES ASSUME TypeOK, TypeOK', LinkInv, HandInv, SentGrows, [Next]_vars, NEW t \in End
             PROVE  HandedOver(t)'
  BY DEF HandInv
<1>0. HandedOver(t)
  BY DEF HandInv
<1>a. SessTypeOK /\ LinkTypeOK /\ HistoryTypeOK
  BY DEF TypeOK
<1>1. CASE UNCHANGED <<read, recvBuf, handed, phase, ackSent>>
  BY <1>0, <1>1, HandedFrame
<1>2. ASSUME NEW s \in End, NEW flush \in BOOLEAN, TickStart(s, flush) PROVE HandedOver(t)'
  <2>1. CASE t = s
    <3>1. phase'[t] = "recv"
      BY <1>a, <1>2, <2>1 DEF TickStart, SessTypeOK
    <3>2. UNCHANGED <<sent, read, recvBuf, handed>>
      BY <1>2 DEF TickStart
    <3> QED BY <1>0, <3>1, <3>2 DEF HandedOver, Pushes
  <2>2. CASE t # s
    <3>1. phase'[t] = phase[t]
      BY <1>a, <1>2, <2>2 DEF TickStart, SessTypeOK
    <3>2. UNCHANGED <<read, recvBuf, handed>>
      BY <1>2 DEF TickStart
    <3>3. ackSent'[t] = ackSent[t]
      <4>1. LinkFlush(s) \/ UNCHANGED <<flushed, ackSent>>
        BY <1>2, Zenon DEF TickStart
      <4> QED BY <1>a, <2>2, <4>1 DEF LinkFlush, LinkTypeOK
    <3> QED BY <1>0, <3>1, <3>2, <3>3, HandedFrame
  <2> QED BY <2>1, <2>2
<1>3. ASSUME NEW s \in End, t # s, TickSteps(s) PROVE HandedOver(t)'
  <2>1. read'[t] = read[t] /\ ackSent'[t] = ackSent[t]
    BY <1>a, <1>3 DEF TickSteps, Recv, RecvNoo, RecvFin, RecvFinAck, RecvPush, RecvPushFull,
       Receiving, LinkRecv, FullReturns, HandRest, TickCloses, TickHeartbeat, TickQuiet,
       TickEnds, LinkTypeOK, linkVars
  <2>2. recvBuf'[t] = recvBuf[t] /\ handed'[t] = handed[t]
    BY <1>a, <1>3 DEF TickSteps, Recv, RecvNoo, RecvFin, RecvFinAck, RecvPush, RecvPushFull,
       FullReturns, HandRest, TickCloses, TickHeartbeat, TickQuiet,
       TickEnds, SessTypeOK, HistoryTypeOK
  <2>3. phase'[t] = phase[t]
    BY <1>a, <1>3 DEF TickSteps, Recv, RecvNoo, RecvFin, RecvFinAck, RecvPush, RecvPushFull,
       FullReturns, HandRest, TickCloses, TickHeartbeat, TickQuiet, TickEnds, SessTypeOK
  <2> QED BY <1>0, <2>1, <2>2, <2>3, HandedFrame
<1>4. ASSUME TickSteps(t) PROVE HandedOver(t)'
  <2>1. CASE RecvNoo(t) \/ RecvFin(t) \/ RecvFinAck(t)
    <3>1. PICK cmd \in {"noo", "fin", "finack"} : Receiving(t, cmd)
      BY <2>1 DEF RecvNoo, RecvFin, RecvFinAck
    <3>2. UNCHANGED <<phase, recvBuf, handed>>
      BY <2>1 DEF RecvNoo, RecvFin, RecvFinAck
    <3>3. phase[t] = "recv"
      BY <3>1 DEF Receiving
    <3> QED BY <1>0, <3>1, <3>2, <3>3, HandedRead DEF HandedOver
  <2>2. CASE RecvPush(t)
    <3>1. Receiving(t, "push") /\ UNCHANGED <<phase, handed>>
      BY <2>2 DEF RecvPush
    <3>2. recvBuf'[t] = recvBuf[t] \cup {read[t] + 1}
      BY <1>a, <2>2 DEF RecvPush, SessTypeOK
    <3>3. read[t] + 1 \notin handed[t]
      BY <1>0, <1>a DEF HandedOver, Pushes, LinkTypeOK
    <3>4. phase[t] = "recv"
      BY <3>1 DEF Receiving
    <3> QED BY <1>0, <3>1, <3>2, <3>3, <3>4, HandedRead DEF HandedOver
  <2>3. CASE RecvPushFull(t)
    <3>1. Receiving(t, "push")
      BY <2>3 DEF RecvPushFull
    <3>2. recvBuf'[t] = {read[t] + 1} /\ phase'[t] = "full"
      BY <1>a, <2>3 DEF RecvPushFull, SessTypeOK
    <3>3. handed'[t] = handed[t] \cup recvBuf[t]
      BY <1>a, <2>3 DEF RecvPushFull, HistoryTypeOK
    <3>4. read[t] + 1 \notin handed[t] \cup recvBuf[t]
      BY <1>0, <1>a DEF HandedOver, Pushes, LinkTypeOK
    <3> QED BY <1>0, <3>1, <3>2, <3>3, <3>4, HandedRead
  <2>4. CASE FullReturns(t)
    <3>1. phase'[t] = "recv" /\ UNCHANGED <<sent, read, recvBuf, handed>>
      BY <1>a, <2>4 DEF FullReturns, linkVars, SessTypeOK
    <3> QED BY <1>0, <3>1 DEF HandedOver, Pushes
  <2>5. CASE HandRest(t)
    <3>1. /\ recvBuf'[t] = {} /\ handed'[t] = handed[t] \cup recvBuf[t]
          /\ UNCHANGED <<sent, read, ackSent>>
      BY <1>a, <2>5 DEF HandRest, linkVars, SessTypeOK, HistoryTypeOK
    <3>2. ackSent[t] <= read[t]
      BY <1>a, <2>5 DEF HandRest, CanRecv, LinkInv, CountersOrdered, LinkTypeOK
    <3> QED BY <1>0, <3>1, <3>2 DEF HandedOver, Pushes
  <2>6. CASE TickEnds(t)
    <3>1. UNCHANGED <<read, ackSent, recvBuf, handed>>
      BY <2>6 DEF TickEnds
    <3>2. recvBuf[t] = {} /\ ackSent[t] <= read[t]
      BY <1>0, <1>a, <2>6 DEF TickEnds, HandedOver, CanRecv, LinkInv, CountersOrdered, LinkTypeOK
    <3>3. PICK n \in Nat : n = read[t] /\ n <= Len(sent[Peer(t)])
      BY ReadBound
    <3>4. Pushes(Peer(t), n)' = Pushes(Peer(t), n)
      BY <3>3, PushesStay, PeerIsEnd
    <3> QED BY <1>0, <3>1, <3>2, <3>3, <3>4 DEF HandedOver, Pushes
  <2> QED BY <1>4, <2>1, <2>2, <2>3, <2>4, <2>5, <2>6
          DEF TickSteps, Recv, TickCloses, TickHeartbeat, TickQuiet
<1>5. ASSUME NEW s \in End, NEW g, NEW a, KcpInput(s, g, a) PROVE HandedOver(t)'
  BY <1>1, <1>5 DEF KcpInput
<1>6. ASSUME NEW s \in End,
             Send(s) \/ Close(s) \/ TickTimeout(s) \/ RemoveSessInNextTick(s) \/ WaitFinExpires(s)
      PROVE  HandedOver(t)'
  BY <1>1, <1>6 DEF Send, Close, TickTimeout, RemoveSessInNextTick, WaitFinExpires,
                    linkVars, sessVars
<1>7. CASE UNCHANGED vars
  BY <1>1, <1>7 DEF vars, linkVars, sessVars
<1> QED
  BY <1>2, <1>3, <1>4, <1>5, <1>6, <1>7 DEF Next, Done

LEMMA InitHanded == Init => LinkInv /\ HandInv
<1> SUFFICES ASSUME Init, NEW t \in End PROVE CountersOrdered(t) /\ HandedOver(t)
  BY DEF LinkInv, HandInv
<1>1. /\ read[t] = 0 /\ got[t] = 0 /\ ackSent[t] = 0
      /\ flushed[Peer(t)] = 0 /\ acked[Peer(t)] = 0 /\ sent[Peer(t)] = <<>>
      /\ recvBuf[t] = {} /\ handed[t] = {}
  BY PeerIsEnd DEF Init, LinkInit
<1> QED BY <1>1 DEF CountersOrdered, HandedOver, Pushes

(* AckedIsHanded of Session: no message that kcp acknowledged is forgotten *)
(* by the receive loop, and none is passed to the application twice.       *)
THEOREM Delivery == Spec => []AckedIsHanded
<1>1. TypeOK /\ LinkInv /\ HandInv /\ [Next]_vars => (TypeOK /\ LinkInv /\ HandInv)'
  BY StepTyped, LinkEffects, StreamsGrow, LinkInvStep, HandInvStep
<1>2. TypeOK /\ LinkInv /\ HandInv => AckedIsHanded
  <2> SUFFICES ASSUME TypeOK, LinkInv, HandInv, NEW s \in End
               PROVE  /\ recvBuf[s] \cap handed[s] = {}
                      /\ handed[s] \cup recvBuf[s] = Pushes(Peer(s), read[s])
                      /\ phase[s] = "idle" => recvBuf[s] = {} /\ acked[Peer(s)] <= read[s]
    BY DEF AckedIsHanded
  <2>1. HandedOver(s) /\ acked[Peer(s)] <= ackSent[s]
    BY DEF HandInv, LinkInv, CountersOrdered
  <2>2. acked[Peer(s)] \in Nat /\ ackSent[s] \in Nat /\ read[s] \in Nat
    BY PeerIsEnd DEF TypeOK, LinkTypeOK
  <2> QED BY <2>1, <2>2 DEF HandedOver
<1> QED BY InitTyped, InitHanded, <1>1, <1>2, PTL DEF Spec

(***************************************************************************)
(* The FIN and FIN_ACK that made a session close are in the two streams:   *)
(* one it read, and one it sent, which is acknowledged when the session is *)
(* removed for that reason.                                                *)
(***************************************************************************)
HasClosing(s, n) == \E i \in 1..n : Closing(sent[s][i])

ClosingSeen(s) ==
    /\ state[s] = FIN_ACK =>
          HasClosing(Peer(s), read[s]) /\ HasClosing(s, Len(sent[s]))
    /\ why[s] = "acked" => HasClosing(Peer(s), read[s]) /\ HasClosing(s, acked[s])
    /\ Sends(s, "finack") # {} => Sends(Peer(s), "fin") # {}

CloseInv == \A s \in End : ClosingSeen(s)

(* A closing message stays one of the first m messages for every m >= n.   *)
LEMMA ClosingStays ==
    ASSUME TypeOK, SentGrows, NEW s \in End, NEW n \in Nat, n <= Len(sent[s]),
           NEW m \in Nat, n <= m, HasClosing(s, n)
    PROVE  HasClosing(s, m)'
<1>1. PICK i \in 1..n : Closing(sent[s][i])
  BY DEF HasClosing
<1>2. Len(sent[s]) \in Nat
  <2>1. sent[s] \in Seq(Cmd)
    BY DEF TypeOK, LinkTypeOK
  <2> QED BY <2>1
<1>3. i \in 1..Len(sent[s]) /\ i \in 1..m
  BY <1>1, <1>2
<1>4. sent'[s][i] = sent[s][i]
  BY <1>3 DEF SentGrows
<1> QED BY <1>1, <1>3, <1>4 DEF HasClosing, Closing

(* And a message sent stays sent. *)
LEMMA SendsStay ==
    ASSUME TypeOK, TypeOK', SentGrows, NEW s \in End, NEW cmd, Sends(s, cmd) # {}
    PROVE  Sends(s, cmd)' # {}
<1>1. /\ DOMAIN sent[s] = 1..Len(sent[s]) /\ Len(sent[s]) \in Nat
      /\ DOMAIN sent'[s] = 1..Len(sent'[s]) /\ Len(sent'[s]) \in Nat
  <2>1. sent[s] \in Seq(Cmd) /\ sent'[s] \in Seq(Cmd)
    BY DEF TypeOK, LinkTypeOK
  <2> QED BY <2>1
<1>2. PICK i \in 1..Len(sent[s]) : sent[s][i] = cmd
  BY <1>1 DEF Sends
<1>3. sent'[s][i] = cmd /\ Len(sent[s]) <= Len(sent'[s])
  BY <1>2 DEF SentGrows
<1> QED BY <1>1, <1>2, <1>3 DEF Sends

(* Why a session may be in FIN_ACK, may be removed as acknowledged, and    *)
(* what it sends.                                                          *)
Answers(s) == RecvFin(s) /\ LinkSend(s, "finack")

Causes(t) ==
    /\ state'[t] = FIN_ACK => state[t] = FIN_ACK \/ Answers(t) \/ RecvFinAck(t)
    /\ why'[t] = "acked" => why[t] = "acked" \/ TickCloses(t)
    /\ \/ sent'[t] = sent[t] \/ Answers(t)
       \/ \E cmd \in {"push", "noo", "fin"} : LinkSend(t, cmd)

LEMMA ClosingCauses == TypeOK /\ [Next]_vars => \A t \in End : Causes(t)
<1> SUFFICES ASSUME TypeOK, [Next]_vars, NEW t \in End PROVE Causes(t)
  OBVIOUS
<1>a. /\ SessTypeOK /\ LinkTypeOK /\ HistoryTypeOK
      /\ READY # FIN_ACK /\ FIN # FIN_ACK /\ WAIT_FREE # FIN_ACK
  BY DEF TypeOK, READY, FIN, FIN_ACK, WAIT_FREE
<1>1. CASE UNCHANGED vars
  BY <1>1 DEF Causes, vars, linkVars, sessVars
<1>2. ASSUME NEW s \in End, NEW g, NEW a, KcpInput(s, g, a) PROVE Causes(t)
  BY <1>a, <1>2 DEF Causes, KcpInput, SessTypeOK
<1>3. ASSUME NEW s \in End, Send(s) PROVE Causes(t)
  <2>1. UNCHANGED <<state, why>> /\ LinkSend(s, "push")
    BY <1>3 DEF Send, sessVars
  <2> QED BY <1>a, <2>1 DEF Causes, LinkSend, LinkTypeOK
<1>4. ASSUME NEW s \in End, Close(s) PROVE Causes(t)
  <2>1. CASE CloseIgnored(s)
    BY <2>1 DEF Causes, CloseIgnored
  <2>2. CASE CloseConnected(s)
    <3>1. why' = why /\ LinkSend(s, "fin") /\ state' = [state EXCEPT ![s] = FIN]
      BY <2>2 DEF CloseConnected
    <3> QED BY <1>a, <3>1 DEF Causes, LinkSend, SessTypeOK, LinkTypeOK
  <2>3. CASE CloseUnconnected(s)
    BY <1>a, <2>3 DEF Causes, CloseUnconnected, TriggerClose, HistoryTypeOK
  <2> QED BY <1>4, <2>1, <2>2, <2>3 DEF Close
<1>5. ASSUME NEW s \in End, TickTimeout(s) PROVE Causes(t)
  BY <1>a, <1>5 DEF Causes, TickTimeout, TriggerClose, linkVars, HistoryTypeOK
<1>6. ASSUME NEW s \in End, NEW flush \in BOOLEAN, TickStart(s, flush) PROVE Causes(t)
  BY <1>6 DEF Causes, TickStart
<1>7. ASSUME NEW s \in End, TickSteps(s) PROVE Causes(t)
  <2>1. CASE RecvFin(s)
    <3>1. why' = why
      BY <2>1 DEF RecvFin, Receiving
    <3>2. CASE UNCHANGED <<sent, state>>
      BY <3>1, <3>2 DEF Causes
    <3>3. CASE Answers(s) /\ state' = [state EXCEPT ![s] = FIN_ACK]
      BY <1>a, <3>1, <3>3 DEF Causes, Answers, LinkSend, SessTypeOK, LinkTypeOK
    <3> QED BY <2>1, <3>2, <3>3, Zenon DEF RecvFin, Answers
  <2>2. CASE RecvFinAck(s)
    BY <1>a, <2>2 DEF Causes, RecvFinAck, Receiving, SessTypeOK
  <2>3. CASE RecvNoo(s) \/ RecvPush(s) \/ RecvPushFull(s) \/ FullReturns(s) \/ HandRest(s)
    BY <2>3 DEF Causes, RecvNoo, RecvPush, RecvPushFull, FullReturns, HandRest, Receiving, linkVars
  <2>4. CASE TickCloses(s)
    BY <1>a, <2>4 DEF Causes, TickCloses, TickEnds, TriggerClose, HistoryTypeOK
  <2>5. CASE TickHeartbeat(s)
    BY <1>a, <2>5 DEF Causes, TickHeartbeat, TickEnds, LinkSend, LinkTypeOK
  <2>6. CASE TickQuiet(s)
    BY <2>6 DEF Causes, TickQuiet, TickEnds
  <2> QED BY <1>7, <2>1, <2>2, <2>3, <2>4, <2>5, <2>6 DEF TickSteps, Recv
<1>8. ASSUME NEW s \in End, RemoveSessInNextTick(s) PROVE Causes(t)
  BY <1>a, <1>8 DEF Causes, RemoveSessInNextTick, RemoveSess, linkVars, SessTypeOK
<1>9. ASSUME NEW s \in End, WaitFinExpires(s) PROVE Causes(t)
  BY <1>a, <1>9 DEF Causes, WaitFinExpires, RemoveSess, linkVars, SessTypeOK, HistoryTypeOK
<1> QED
  BY <1>1, <1>2, <1>3, <1>4, <1>5, <1>6, <1>7, <1>8, <1>9 DEF Next, Done

(* The last message of a longer stream is the one appended. *)
LEMMA Appended ==
    ASSUME TypeOK, NEW s \in End, NEW cmd \in Cmd, LinkSend(s, cmd)
    PROVE  /\ Len(sent'[s]) = Len(sent[s]) + 1
           /\ sent'[s][Len(sent[s]) + 1] = cmd
           /\ Len(sent[s]) \in Nat
           /\ \A i \in 1..Len(sent[s]) : sent'[s][i] = sent[s][i]
           /\ DOMAIN sent[s] = 1..Len(sent[s])
           /\ DOMAIN sent'[s] = 1..(Len(sent[s]) + 1)
<1>1. sent[s] \in Seq(Cmd)
  BY DEF TypeOK, LinkTypeOK
<1>2. sent'[s] = Append(sent[s], cmd)
  BY DEF LinkSend, TypeOK, LinkTypeOK
<1> QED BY <1>1, <1>2

LEMMA CloseInvStep ==
    /\ TypeOK /\ TypeOK' /\ LinkInv /\ LinkInv'
    /\ CloseInv /\ LinkStep /\ SentGrows /\ [Next]_vars
    => CloseInv'
<1> SUFFICES ASSUME TypeOK, TypeOK', LinkInv, LinkInv', CloseInv, LinkStep, SentGrows,
                    [Next]_vars, NEW t \in End, NEW p \in End, p = Peer(t)
             PROVE  ClosingSeen(t)'
  BY PeerIsEnd DEF CloseInv
<1>1. Causes(t) /\ p # t /\ Peer(p) = t
  BY ClosingCauses, PeerIsEnd
<1>2. ClosingSeen(t) /\ ClosingSeen(p)
  BY DEF CloseInv
<1>3. /\ read[t] \in Nat /\ read'[t] \in Nat /\ read[t] <= read'[t]
      /\ acked[t] \in Nat /\ acked'[t] \in Nat /\ acked[t] <= acked'[t]
      /\ Len(sent[t]) \in Nat /\ Len(sent'[t]) \in Nat /\ Len(sent[t]) <= Len(sent'[t])
  <2>1. LinkTypeOK /\ LinkTypeOK' /\ sent[t] \in Seq(Cmd) /\ sent'[t] \in Seq(Cmd)
    BY DEF TypeOK, LinkTypeOK
  <2>2. Len(sent[t]) \in Nat /\ Len(sent'[t]) \in Nat
    BY <2>1
  <2>3. read[t] \in Nat /\ read'[t] \in Nat /\ acked[t] \in Nat /\ acked'[t] \in Nat
    BY <2>1 DEF LinkTypeOK
  <2> QED BY <2>2, <2>3, CountersAdvance DEF SentGrows
<1>4. read[t] <= Len(sent[p]) /\ acked[t] <= Len(sent[t])
  <2>1. read[t] <= Len(sent[p])
    BY ReadBound
  <2>2. /\ acked[t] <= ackSent[p] /\ ackSent[p] <= got[p]
        /\ got[p] <= flushed[t] /\ flushed[t] <= Len(sent[t])
    BY <1>1 DEF LinkInv, CountersOrdered
  <2>3. ackSent[p] \in Nat /\ got[p] \in Nat /\ flushed[t] \in Nat
    BY DEF TypeOK, LinkTypeOK
  <2> QED BY <1>3, <2>1, <2>2, <2>3
<1>5. HasClosing(p, read[t]) => HasClosing(p, read[t])'
  <2>1. PICK m \in Nat : m = read'[t]
    BY <1>3
  <2> QED BY <1>3, <1>4, <2>1, ClosingStays DEF HasClosing
<1>6. HasClosing(t, Len(sent[t])) => HasClosing(t, Len(sent[t]))'
  <2>1. PICK n \in Nat, m \in Nat : n = Len(sent[t]) /\ m = Len(sent'[t])
    BY <1>3
  <2>2. HasClosing(t, n) => HasClosing(t, m)'
    BY <1>3, <2>1, ClosingStays
  <2> QED BY <2>1, <2>2 DEF HasClosing
<1>7. HasClosing(t, acked[t]) => HasClosing(t, acked[t])'
  <2>1. PICK m \in Nat : m = acked'[t]
    BY <1>3
  <2> QED BY <1>3, <1>4, <2>1, ClosingStays DEF HasClosing
<1>8. ASSUME NEW cmd \in {"fin", "finack"}, Receiving(t, cmd)
      PROVE  HasClosing(p, read[t])' /\ Sends(p, cmd) # {}
  <2>1. read'[t] = read[t] + 1 /\ sent[p][read[t] + 1] = cmd /\ read[t] + 1 <= Len(sent[p])
    <3>1. read \in [End -> Nat] /\ got[t] \in Nat /\ flushed[p] \in Nat /\ Len(sent[p]) \in Nat
      <4>1. sent[p] \in Seq(Cmd) /\ read \in [End -> Nat] /\ got[t] \in Nat /\ flushed[p] \in Nat
        BY DEF TypeOK, LinkTypeOK
      <4> QED BY <4>1
    <3>2. read[t] < got[t] /\ got[t] <= flushed[p] /\ flushed[p] <= Len(sent[p])
      BY <1>8 DEF Receiving, CanRecv, LinkInv, CountersOrdered
    <3> QED BY <1>8, <3>1, <3>2 DEF Receiving, LinkRecv, NextMsg
  <2>2. sent[p] \in Seq(Cmd) /\ Len(sent[p]) \in Nat
    <3>1. sent[p] \in Seq(Cmd)
      BY DEF TypeOK, LinkTypeOK
    <3> QED BY <3>1
  <2>3. read[t] + 1 \in 1..Len(sent[p]) /\ read[t] + 1 \in 1..read'[t]
    BY <1>3, <2>1, <2>2
  <2>4. sent'[p][read[t] + 1] = cmd
    BY <2>1, <2>3 DEF SentGrows
  <2>5. HasClosing(p, read[t])'
    BY <2>3, <2>4 DEF HasClosing, Closing
  <2>6. Sends(p, cmd) # {}
    BY <2>1, <2>2, <2>3 DEF Sends
  <2> QED BY <2>5, <2>6
<1>9. state'[t] = FIN_ACK => HasClosing(p, read[t])' /\ HasClosing(t, Len(sent[t]))'
  <2>1. CASE state[t] = FIN_ACK
    BY <1>2, <1>5, <1>6, <2>1 DEF ClosingSeen
  <2>2. CASE Answers(t)
    <3>1. HasClosing(p, read[t])'
      BY <1>8, <2>2 DEF Answers, RecvFin
    <3>2. Len(sent[t]) + 1 \in 1..Len(sent'[t]) /\ sent'[t][Len(sent[t]) + 1] = "finack"
      BY <2>2, Appended DEF Answers, Cmd
    <3> QED BY <3>1, <3>2 DEF HasClosing, Closing
  <2>3. CASE RecvFinAck(t)
    <3>1. HasClosing(p, read[t])' /\ Sends(p, "finack") # {}
      BY <1>8, <2>3 DEF RecvFinAck
    <3>2. Sends(t, "fin") # {}
      BY <1>1, <1>2, <3>1 DEF ClosingSeen
    <3>3. HasClosing(t, Len(sent[t]))
      <4>1. sent[t] \in Seq(Cmd)
        BY DEF TypeOK, LinkTypeOK
      <4> QED BY <3>2, <4>1 DEF Sends, HasClosing, Closing
    <3> QED BY <1>6, <3>1, <3>3
  <2> QED BY <1>1, <2>1, <2>2, <2>3 DEF Causes
<1>10. why'[t] = "acked" => HasClosing(p, read[t])' /\ HasClosing(t, acked[t])'
  <2>1. CASE why[t] = "acked"
    BY <1>2, <1>5, <1>7, <2>1 DEF ClosingSeen
  <2>2. CASE TickCloses(t)
    <3>1. state[t] = FIN_ACK /\ acked[t] = Len(sent[t])
      BY <2>2 DEF TickCloses, AllAcked
    <3> QED BY <1>2, <1>5, <1>7, <3>1 DEF ClosingSeen
  <2> QED BY <1>1, <2>1, <2>2 DEF Causes
<1>11. Sends(t, "finack")' # {} => Sends(p, "fin")' # {}
  <2>1. CASE Sends(t, "finack") # {}
    BY <1>2, <2>1, SendsStay DEF ClosingSeen
  <2>2. CASE Answers(t)
    BY <1>8, <2>2, SendsStay DEF Answers, RecvFin
  <2>3. CASE sent'[t] = sent[t] /\ Sends(t, "finack") = {}
    BY <2>3 DEF Sends
  <2>4. ASSUME Sends(t, "finack") = {}, NEW cmd \in {"push", "noo", "fin"}, LinkSend(t, cmd)
        PROVE  Sends(t, "finack")' = {}
    <3>1. cmd \in Cmd /\ cmd # "finack"
      BY DEF Cmd
    <3>2. \A i \in 1..Len(sent[t]) : sent[t][i] # "finack"
      BY <2>4, <3>1, Appended DEF Sends
    <3>3. \A i \in 1..(Len(sent[t]) + 1) : i \in 1..Len(sent[t]) \/ i = Len(sent[t]) + 1
      BY <1>3
    <3> QED BY <2>4, <3>1, <3>2, <3>3, Appended DEF Sends
  <2> QED BY <1>1, <2>1, <2>2, <2>3, <2>4 DEF Causes
<1> QED BY <1>9, <1>10, <1>11 DEF ClosingSeen

(* A session removed because everything was acknowledged lost nothing that *)
(* was sent before the closing handshake, in either direction.             *)
THEOREM NothingLost == Spec => []GracefulClose
<1> DEFINE IInv == TypeOK /\ LinkInv /\ HandInv /\ CloseInv
<1>1. Init => IInv
  <2> SUFFICES ASSUME Init, NEW t \in End PROVE ClosingSeen(t)
    BY InitTyped, InitHanded DEF CloseInv
  <2>1. state[t] = CREATED /\ why[t] = "none" /\ sent[t] = <<>>
    BY DEF Init, LinkInit
  <2> QED BY <2>1 DEF ClosingSeen, Sends, CREATED, FIN_ACK
<1>2. IInv /\ [Next]_vars => IInv'
  BY StepTyped, LinkEffects, StreamsGrow, LinkInvStep, HandInvStep, CloseInvStep
<1>3. IInv => GracefulClose
  <2> SUFFICES ASSUME IInv, NEW s \in End, NEW p \in End, p = Peer(s),
                      why[s] = "acked", phase[s] = "idle"
               PROVE  /\ SentBeforeClosing(p) \subseteq handed[s]
                      /\ phase[p] = "idle" => SentBeforeClosing(s) \subseteq handed[p]
    BY PeerIsEnd DEF GracefulClose
  <2>1. HasClosing(p, read[s]) /\ HasClosing(s, acked[s]) /\ Peer(p) = s
    BY PeerIsEnd DEF CloseInv, ClosingSeen
  <2>2. /\ read[s] \in Nat /\ read[p] \in Nat /\ acked[s] \in Nat /\ ackSent[p] \in Nat
        /\ acked[s] <= ackSent[p]
    BY <2>1 DEF TypeOK, LinkTypeOK, LinkInv, CountersOrdered
  <2>3. ASSUME NEW x \in End, NEW n \in Nat, HasClosing(x, n)
        PROVE  SentBeforeClosing(x) \subseteq Pushes(x, n)
    <3>1. sent[x] \in Seq(Cmd)
      BY DEF TypeOK, LinkTypeOK
    <3>2. PICK j \in 1..n : Closing(sent[x][j])
      BY <2>3 DEF HasClosing
    <3>3. SUFFICES ASSUME NEW i \in DOMAIN sent[x], sent[x][i] = "push",
                          \A k \in 1..i : ~Closing(sent[x][k])
                   PROVE  i \in 1..n
      BY DEF SentBeforeClosing, Pushes
    <3>4. i \in Nat /\ i >= 1 /\ j \notin 1..i
      BY <3>1, <3>2, <3>3
    <3> QED BY <3>2, <3>4
  <2>4. SentBeforeClosing(p) \subseteq handed[s]
    <3>1. handed[s] = Pushes(p, read[s])
      BY DEF HandInv, HandedOver
    <3> QED BY <2>1, <2>2, <2>3, <3>1
  <2>5. ASSUME phase[p] = "idle" PROVE SentBeforeClosing(s) \subseteq handed[p]
    <3>1. handed[p] = Pushes(s, read[p]) /\ ackSent[p] <= read[p]
      BY <2>1, <2>5 DEF HandInv, HandedOver
    <3>2. HasClosing(s, read[p])
      BY <2>1, <2>2, <3>1 DEF HasClosing
    <3> QED BY <2>2, <2>3, <3>1, <3>2
  <2> QED BY <2>4, <2>5
<1> QED BY <1>1, <1>2, <1>3, PTL DEF Spec

(***************************************************************************)
(* How two sessions close, proved for every bound: OneAnswer and           *)
(* StateAdvances of Session, and, for a process that calls Close at most   *)
(* once a session and has no idle timeout, as nysocks is deployed,         *)
(* RemovedOnce, OneRemoval and NoSpontaneousClose.  With the idle timeout  *)
(* an end that never calls Close is removed once (IdleRemovesOnce).        *)
(***************************************************************************)

(***************************************************************************)
(* A step is a step of one end and leaves the other alone.                 *)
(***************************************************************************)
Same(t) ==
    /\ state'[t] = state[t] /\ addr'[t] = addr[t] /\ waitFin'[t] = waitFin[t]
    /\ queued'[t] = queued[t] /\ due'[t] = due[t] /\ phase'[t] = phase[t]
    /\ calls'[t] = calls[t] /\ closes'[t] = closes[t]
    /\ sent'[t] = sent[t] /\ got'[t] = got[t] /\ read'[t] = read[t]
    /\ acked'[t] = acked[t]

Acts(t) ==
    \/ \E g, a : KcpInput(t, g, a)
    \/ Send(t)
    \/ Close(t)
    \/ TickTimeout(t)
    \/ \E flush \in BOOLEAN : TickStart(t, flush)
    \/ TickSteps(t)
    \/ RemoveSessInNextTick(t)
    \/ WaitFinExpires(t)

LEMMA OneMoves == TypeOK /\ [Next]_vars => \A t \in End : Same(t) \/ Acts(t)
<1> SUFFICES ASSUME TypeOK, [Next]_vars, NEW t \in End, ~Acts(t) PROVE Same(t)
  OBVIOUS
<1>0. SessTypeOK /\ LinkTypeOK /\ HistoryTypeOK
  BY DEF TypeOK
<1>1. CASE UNCHANGED vars
  BY <1>1 DEF Same, vars, linkVars, sessVars
<1>2. ASSUME NEW s \in End, NEW g, NEW a, KcpInput(s, g, a) PROVE Same(t)
  <2>1. t # s
    BY <1>2 DEF Acts
  <2> QED BY <1>0, <1>2, <2>1 DEF Same, KcpInput, LinkInput, SessTypeOK, LinkTypeOK
<1>3. ASSUME NEW s \in End, Send(s) PROVE Same(t)
  <2>1. t # s
    BY <1>3 DEF Acts
  <2> QED BY <1>0, <1>3, <2>1 DEF Same, Send, LinkSend, sessVars, LinkTypeOK
<1>4. ASSUME NEW s \in End, Close(s) PROVE Same(t)
  <2>1. t # s
    BY <1>4 DEF Acts
  <2>2. sent'[t] = sent[t] /\ state'[t] = state[t] /\ waitFin'[t] = waitFin[t]
          /\ queued'[t] = queued[t] /\ due'[t] = due[t]
    <3>1. CASE CloseIgnored(s)
      BY <3>1 DEF CloseIgnored
    <3>2. CASE CloseConnected(s)
      BY <1>0, <2>1, <3>2 DEF CloseConnected, LinkSend, SessTypeOK, LinkTypeOK
    <3>3. CASE CloseUnconnected(s)
      BY <1>0, <2>1, <3>3 DEF CloseUnconnected, TriggerClose, SessTypeOK, LinkTypeOK
    <3> QED BY <1>4, <3>1, <3>2, <3>3 DEF Close
  <2> QED BY <1>0, <1>4, <2>1, <2>2 DEF Same, Close, HistoryTypeOK
<1>5. ASSUME NEW s \in End, TickTimeout(s) PROVE Same(t)
  <2>1. t # s
    BY <1>5 DEF Acts
  <2> QED BY <1>0, <1>5, <2>1 DEF Same, TickTimeout, TickBegins, TriggerClose, SessTypeOK, linkVars
<1>6. ASSUME NEW s \in End, NEW flush \in BOOLEAN, TickStart(s, flush) PROVE Same(t)
  <2>1. t # s
    BY <1>6 DEF Acts
  <2> QED BY <1>0, <1>6, <2>1 DEF Same, TickStart, TickBegins, SessTypeOK
<1>7. ASSUME NEW s \in End, TickSteps(s) PROVE Same(t)
  <2>1. t # s
    BY <1>7 DEF Acts
  <2>2. ASSUME NEW cmd, Receiving(s, cmd), sent' = sent, state'[t] = state[t],
               phase'[t] = phase[t]
        PROVE  Same(t)
    BY <1>0, <2>1, <2>2 DEF Same, Receiving, LinkRecv, LinkTypeOK
  <2>3. CASE RecvNoo(s)
    BY <2>2, <2>3 DEF RecvNoo
  <2>4. CASE RecvFin(s)
    <3>1. sent'[t] = sent[t] /\ state'[t] = state[t]
      BY <1>0, <2>1, <2>4 DEF RecvFin, LinkSend, SessTypeOK, LinkTypeOK
    <3> QED BY <1>0, <2>1, <2>4, <3>1 DEF Same, RecvFin, Receiving, LinkRecv, LinkTypeOK
  <2>5. CASE RecvFinAck(s)
    BY <1>0, <2>1, <2>2, <2>5 DEF RecvFinAck, SessTypeOK
  <2>6. CASE RecvPush(s)
    BY <2>2, <2>6 DEF RecvPush
  <2>7. CASE RecvPushFull(s)
    BY <1>0, <2>1, <2>2, <2>7 DEF RecvPushFull, SessTypeOK
  <2>8. CASE FullReturns(s) \/ HandRest(s)
    BY <1>0, <2>1, <2>8 DEF Same, FullReturns, HandRest, linkVars, SessTypeOK
  <2>9. CASE TickCloses(s)
    BY <1>0, <2>1, <2>9 DEF Same, TickCloses, TickEnds, TriggerClose, SessTypeOK
  <2>10. CASE TickHeartbeat(s)
    BY <1>0, <2>1, <2>10 DEF Same, TickHeartbeat, TickEnds, LinkSend, SessTypeOK, LinkTypeOK
  <2>11. CASE TickQuiet(s)
    BY <1>0, <2>1, <2>11 DEF Same, TickQuiet, TickEnds, SessTypeOK
  <2> QED
    BY <1>7, <2>3, <2>4, <2>5, <2>6, <2>7, <2>8, <2>9, <2>10, <2>11 DEF TickSteps, Recv
<1>8. ASSUME NEW s \in End, RemoveSessInNextTick(s) PROVE Same(t)
  <2>1. t # s
    BY <1>8 DEF Acts
  <2> QED BY <1>0, <1>8, <2>1
          DEF Same, RemoveSessInNextTick, RemoveSess, linkVars, SessTypeOK, HistoryTypeOK
<1>9. ASSUME NEW s \in End, WaitFinExpires(s) PROVE Same(t)
  <2>1. t # s
    BY <1>9 DEF Acts
  <2> QED BY <1>0, <1>9, <2>1
          DEF Same, WaitFinExpires, RemoveSess, linkVars, SessTypeOK, HistoryTypeOK
<1> QED
  BY <1>1, <1>2, <1>3, <1>4, <1>5, <1>6, <1>7, <1>8, <1>9 DEF Next, Done

(***************************************************************************)
(* The states of an end advance.  That RecvFinAck and the answer to a FIN  *)
(* do not bring a removed session back rests on an update running only     *)
(* while its session lives; that a datagram does not, on a passive end     *)
(* having its address as soon as it is connected.                          *)
(***************************************************************************)
Stage(t) ==
    /\ ~addr[t] => state[t] \in {CREATED, WAIT_FREE} /\ got[t] = 0
    /\ phase[t] # "idle" => Alive(t)

StageInv == \A t \in End : Stage(t)

(* How one end advances its state and what it sends. *)
Moves(t) ==
    /\ Stage(t)'
    /\ state'[t] >= state[t]
    /\ \/ sent'[t] = sent[t] \/ Answers(t)
       \/ \E cmd \in {"push", "noo"} : LinkSend(t, cmd)
       \/ LinkSend(t, "fin") /\ state[t] = READY /\ state'[t] = FIN

LEMMA EndMoves ==
    ASSUME TypeOK, TypeOK', LinkInv, StageInv, NEW t \in End, Same(t) \/ Acts(t)
    PROVE  Moves(t)
<1>0. /\ SessTypeOK /\ LinkTypeOK /\ HistoryTypeOK /\ Stage(t)
      /\ state[t] \in States /\ state'[t] \in States /\ state[t] \in Nat
      /\ got[t] \in Nat /\ read[t] \in Nat
  BY StateOrder DEF TypeOK, SessTypeOK, LinkTypeOK, StageInv
<1> USE DEF Alive, AllowInput, States, CREATED, READY, FIN, FIN_ACK, WAIT_FREE
<1>1. CASE Same(t)
  BY <1>0, <1>1 DEF Same, Moves, Stage
<1>2. ASSUME NEW g, NEW a, KcpInput(t, g, a) PROVE Moves(t)
  <2>1. addr'[t] = TRUE /\ phase'[t] = "idle" /\ sent' = sent
    BY <1>0, <1>2 DEF KcpInput, SessTypeOK
  <2>2. state'[t] >= state[t]
    BY <1>0, <1>2 DEF KcpInput, SessTypeOK, Stage
  <2> QED BY <2>1, <2>2 DEF Moves, Stage
<1>3. CASE Send(t)
  BY <1>0, <1>3 DEF Send, sessVars, Moves, Stage
<1>4. CASE Close(t)
  <2>0. UNCHANGED <<addr, phase, got>>
    BY <1>4 DEF Close
  <2>1. CASE CloseIgnored(t)
    BY <1>0, <2>0, <2>1 DEF CloseIgnored, Moves, Stage
  <2>2. CASE CloseConnected(t)
    <3>1. state[t] = READY /\ state'[t] = FIN /\ LinkSend(t, "fin")
      BY <1>0, <2>2 DEF CloseConnected, SessTypeOK
    <3> QED BY <1>0, <2>0, <3>1 DEF Moves, Stage
  <2>3. CASE CloseUnconnected(t)
    BY <1>0, <2>0, <2>3 DEF CloseUnconnected, Moves, Stage
  <2> QED BY <1>4, <2>1, <2>2, <2>3 DEF Close
<1>5. CASE TickTimeout(t)
  BY <1>0, <1>5 DEF TickTimeout, linkVars, Moves, Stage
<1>6. ASSUME NEW flush \in BOOLEAN, TickStart(t, flush) PROVE Moves(t)
  BY <1>0, <1>6 DEF TickStart, TickBegins, Idle, Moves, Stage
<1>7. CASE TickSteps(t)
  <2>1. phase[t] # "idle" /\ state[t] < WAIT_FREE
    <3>1. phase[t] # "idle"
      BY <1>7 DEF TickSteps, Recv, RecvNoo, RecvFin, RecvFinAck, RecvPush, RecvPushFull, Receiving,
                  FullReturns, HandRest, TickCloses, TickHeartbeat, TickQuiet, TickEnds
    <3> QED BY <1>0, <3>1 DEF Stage
  <2>2. UNCHANGED <<addr, got>>
    BY <1>7 DEF TickSteps, Recv, RecvNoo, RecvFin, RecvFinAck, RecvPush, RecvPushFull, Receiving,
                FullReturns, HandRest, TickCloses, TickHeartbeat, TickQuiet, TickEnds, linkVars
  <2>3. ASSUME UNCHANGED <<sent, state>> PROVE Moves(t)
    BY <1>0, <2>1, <2>2, <2>3 DEF Moves, Stage
  <2>4. ASSUME Receiving(t, "fin") \/ Receiving(t, "finack"), state'[t] = FIN_ACK,
               sent'[t] = sent[t] \/ Answers(t)
        PROVE  Moves(t)
    <3>1. got[t] > 0
      BY <1>0, <2>4 DEF Receiving, CanRecv
    <3>2. addr'[t]
      BY <1>0, <2>2, <3>1 DEF Stage
    <3> QED BY <1>0, <2>1, <2>4, <3>2 DEF Moves, Stage
  <2>5. CASE RecvFin(t)
    <3>1. CASE UNCHANGED <<sent, state>>
      BY <2>3, <3>1
    <3>2. CASE Answers(t) /\ state' = [state EXCEPT ![t] = FIN_ACK]
      BY <1>0, <2>4, <2>5, <3>2 DEF RecvFin, SessTypeOK
    <3> QED BY <2>5, <3>1, <3>2, Zenon DEF RecvFin, Answers
  <2>6. CASE RecvFinAck(t)
    BY <1>0, <2>4, <2>6 DEF RecvFinAck, SessTypeOK
  <2>7. CASE TickHeartbeat(t)
    BY <1>0, <2>1, <2>2, <2>7 DEF TickHeartbeat, TickEnds, Moves, Stage
  <2>8. CASE RecvNoo(t) \/ RecvPush(t) \/ RecvPushFull(t)
    BY <2>3, <2>8 DEF RecvNoo, RecvPush, RecvPushFull
  <2>9. CASE FullReturns(t) \/ HandRest(t) \/ TickCloses(t) \/ TickQuiet(t)
    BY <2>3, <2>9 DEF FullReturns, HandRest, TickCloses, TickQuiet, TickEnds, linkVars
  <2> QED BY <1>7, <2>5, <2>6, <2>7, <2>8, <2>9 DEF TickSteps, Recv
<1>8. ASSUME phase[t] = "idle", RemoveSess(t), UNCHANGED <<linkVars, addr, phase>>
      PROVE  Moves(t)
  <2>1. state'[t] = WAIT_FREE
    BY <1>0, <1>8 DEF RemoveSess, SessTypeOK
  <2> QED BY <1>0, <1>8, <2>1 DEF linkVars, Moves, Stage
<1>9. CASE RemoveSessInNextTick(t) \/ WaitFinExpires(t)
  BY <1>8, <1>9 DEF RemoveSessInNextTick, WaitFinExpires
<1> QED BY <1>1, <1>2, <1>3, <1>4, <1>5, <1>6, <1>7, <1>9 DEF Acts

LEMMA InitStage == Init => StageInv
BY DEF Init, LinkInit, StageInv, Stage

LEMMA MovesAll ==
    TypeOK /\ TypeOK' /\ LinkInv /\ StageInv /\ [Next]_vars
    => StageInv' /\ \A t \in End : Moves(t)
BY OneMoves, EndMoves DEF StageInv, Moves

(* No step takes a session back to an earlier state, whatever the callbacks *)
(* of an update do between the reading of the state and its use.            *)
THEOREM NeverGoesBack == Spec => StateAdvances
<1> DEFINE IInv == TypeOK /\ LinkInv /\ StageInv
<1>1. Init => IInv
  BY InitTyped, InitHanded, InitStage
<1>2. IInv /\ [Next]_vars => IInv' /\ [\A s \in End : state'[s] >= state[s]]_vars
  BY StepTyped, LinkEffects, StreamsGrow, LinkInvStep, MovesAll DEF Moves
<1> QED BY <1>1, <1>2, PTL DEF Spec, StateAdvances

(***************************************************************************)
(* The closing messages of a stream.  A session sends its FIN on leaving   *)
(* READY, to which it does not return.  It sends a FIN_ACK while it reads  *)
(* the FIN of its peer, and what it reads it does not read again.          *)
(***************************************************************************)
FinRead(t) == \E i \in 1..read[t] : sent[Peer(t)][i] = "fin"

Fins(t) ==
    /\ \A cmd \in {"fin", "finack"} : \A i, j \in Sends(t, cmd) : i = j
    /\ Sends(t, "fin") # {} => state[t] >= FIN
    /\ Sends(t, "finack") # {} => FinRead(t)

FinsInv == \A t \in End : Fins(t)

(* What a message adds to the messages of its kind and to no others. *)
LEMMA SendsAppended ==
    ASSUME TypeOK, NEW s \in End, NEW cmd \in Cmd, LinkSend(s, cmd), NEW c
    PROVE  Sends(s, c)' = IF c = cmd THEN Sends(s, c) \cup {Len(sent[s]) + 1} ELSE Sends(s, c)
<1>1. \A i \in 1..(Len(sent[s]) + 1) : i \in 1..Len(sent[s]) \/ i = Len(sent[s]) + 1
  BY Appended
<1>2. 1..Len(sent[s]) \subseteq 1..(Len(sent[s]) + 1)
      /\ Len(sent[s]) + 1 \in 1..(Len(sent[s]) + 1)
  BY Appended
<1>3. Sends(s, c) = {i \in 1..Len(sent[s]) : sent[s][i] = c}
  BY Appended DEF Sends
<1>4. Sends(s, c)' = {i \in 1..(Len(sent[s]) + 1) : sent'[s][i] = c}
  BY Appended DEF Sends
<1>5. \A i \in 1..Len(sent[s]) : sent'[s][i] = sent[s][i]
  BY Appended
<1>6. sent'[s][Len(sent[s]) + 1] = cmd
  BY Appended
<1>7. CASE c = cmd
  BY <1>1, <1>2, <1>3, <1>4, <1>5, <1>6, <1>7
<1>8. CASE c # cmd
  BY <1>1, <1>2, <1>3, <1>4, <1>5, <1>6, <1>8
<1> QED BY <1>7, <1>8

(* A FIN being read is the next message of the peer, not one read before.  *)
LEMMA NextIsRead ==
    ASSUME TypeOK, LinkInv, SentGrows, NEW t \in End, Receiving(t, "fin")
    PROVE  /\ read[t] \in Nat
           /\ read'[t] = read[t] + 1
           /\ read[t] + 1 \in Sends(Peer(t), "fin")
           /\ sent'[Peer(t)][read[t] + 1] = "fin"
<1>1. PICK p \in End : p = Peer(t)
  BY PeerIsEnd
<1>2. sent[p] \in Seq(Cmd) /\ read \in [End -> Nat] /\ got[t] \in Nat /\ flushed[p] \in Nat
  BY DEF TypeOK, LinkTypeOK
<1>3. Len(sent[p]) \in Nat /\ DOMAIN sent[p] = 1..Len(sent[p]) /\ read[t] \in Nat
  BY <1>2
<1>4. read[t] < got[t] /\ got[t] <= flushed[p] /\ flushed[p] <= Len(sent[p])
  BY <1>1 DEF Receiving, CanRecv, LinkInv, CountersOrdered
<1>5. read'[t] = read[t] + 1 /\ sent[p][read[t] + 1] = "fin"
  BY <1>1, <1>2 DEF Receiving, LinkRecv, NextMsg
<1>6. read[t] + 1 \in 1..Len(sent[p])
  BY <1>2, <1>3, <1>4
<1>7. sent'[p][read[t] + 1] = "fin"
  BY <1>5, <1>6 DEF SentGrows
<1> QED BY <1>1, <1>3, <1>5, <1>6, <1>7 DEF Sends

LEMMA FinsStep ==
    /\ TypeOK /\ TypeOK' /\ LinkInv /\ FinsInv /\ LinkStep /\ SentGrows
    /\ (\A t \in End : Moves(t))
    => FinsInv'
<1> SUFFICES ASSUME TypeOK, TypeOK', LinkInv, FinsInv, LinkStep, SentGrows,
                    \A t \in End : Moves(t), NEW t \in End, NEW p \in End, p = Peer(t)
             PROVE  Fins(t)'
  BY PeerIsEnd DEF FinsInv
<1>1. Fins(t) /\ Fins(p) /\ Moves(t)
  BY DEF FinsInv
<1>2. /\ state[t] \in Nat /\ state'[t] \in Nat
      /\ read[t] \in Nat /\ read'[t] \in Nat /\ read[t] <= read'[t]
  BY StateOrder, CountersAdvance DEF TypeOK, SessTypeOK, LinkTypeOK
<1>3. FIN \in Nat /\ FIN > READY
  BY DEF FIN, READY
<1>4. FinRead(t) => FinRead(t)'
  <2>1. read[t] <= Len(sent[p]) /\ sent[p] \in Seq(Cmd)
    BY ReadBound DEF TypeOK, LinkTypeOK
  <2>2. SUFFICES ASSUME NEW i \in 1..read[t], sent[p][i] = "fin" PROVE FinRead(t)'
    BY DEF FinRead
  <2>3. i \in 1..read'[t] /\ i \in 1..Len(sent[p])
    BY <1>2, <2>1
  <2>4. sent'[p][i] = "fin"
    BY <2>2, <2>3 DEF SentGrows
  <2> QED BY <2>3, <2>4 DEF FinRead
<1>5. ASSUME Sends(t, "fin")' = Sends(t, "fin"), Sends(t, "finack")' = Sends(t, "finack")
      PROVE  Fins(t)'
  <2>1. Sends(t, "fin") # {} => state'[t] >= FIN
    BY <1>1, <1>2, <1>3 DEF Fins, Moves
  <2> QED BY <1>1, <1>4, <1>5, <2>1 DEF Fins
<1>6. CASE sent'[t] = sent[t]
  BY <1>5, <1>6 DEF Sends
<1>7. ASSUME NEW cmd \in {"push", "noo"}, LinkSend(t, cmd) PROVE Fins(t)'
  BY <1>5, <1>7, SendsAppended DEF Cmd
<1>8. CASE LinkSend(t, "fin") /\ state[t] = READY /\ state'[t] = FIN
  <2>1. Sends(t, "fin") = {}
    BY <1>1, <1>2, <1>3, <1>8 DEF Fins
  <2>2. Sends(t, "fin")' = {Len(sent[t]) + 1} /\ Sends(t, "finack")' = Sends(t, "finack")
    BY <1>8, <2>1, SendsAppended DEF Cmd
  <2>3. state'[t] >= FIN
    BY <1>3, <1>8
  <2> QED BY <1>1, <1>4, <2>2, <2>3 DEF Fins
<1>9. CASE Answers(t)
  <2>1. LinkSend(t, "finack") /\ Receiving(t, "fin")
    BY <1>9 DEF Answers, RecvFin
  <2>2. Sends(t, "finack") = {}
    <3>1. SUFFICES ASSUME FinRead(t) PROVE FALSE
      BY <1>1 DEF Fins
    <3>2. PICK i \in 1..read[t] : sent[p][i] = "fin"
      BY <3>1 DEF FinRead
    <3>3. read[t] <= Len(sent[p]) /\ sent[p] \in Seq(Cmd)
      BY ReadBound DEF TypeOK, LinkTypeOK
    <3>4. i \in DOMAIN sent[p] /\ i # read[t] + 1
      BY <1>2, <3>3
    <3>5. i \in Sends(p, "fin") /\ read[t] + 1 \in Sends(p, "fin")
      BY <2>1, <3>2, <3>4, NextIsRead DEF Sends
    <3> QED BY <1>1, <3>4, <3>5 DEF Fins
  <2>3. Sends(t, "finack")' = {Len(sent[t]) + 1} /\ Sends(t, "fin")' = Sends(t, "fin")
    BY <2>1, <2>2, SendsAppended DEF Cmd
  <2>4. FinRead(t)'
    <3>1. read[t] + 1 \in 1..read'[t]
      BY <2>1, NextIsRead
    <3> QED BY <2>1, <3>1, NextIsRead DEF FinRead
  <2>5. Sends(t, "fin") # {} => state'[t] >= FIN
    BY <1>1, <1>2, <1>3 DEF Fins, Moves
  <2> QED BY <1>1, <2>3, <2>4, <2>5 DEF Fins
<1> QED BY <1>1, <1>6, <1>7, <1>8, <1>9 DEF Moves

(* An end sends at most one FIN and one FIN_ACK, and no FIN_ACK unless its *)
(* peer sent a FIN.                                                        *)
THEOREM AnsweredOnce == Spec => []OneAnswer
<1> DEFINE IInv == TypeOK /\ LinkInv /\ StageInv /\ FinsInv
<1>1. Init => IInv
  <2> SUFFICES ASSUME Init, NEW t \in End PROVE Fins(t)
    BY InitTyped, InitHanded, InitStage DEF FinsInv
  <2>1. sent[t] = <<>>
    BY DEF Init, LinkInit
  <2> QED BY <2>1 DEF Fins, Sends
<1>2. IInv /\ [Next]_vars => IInv'
  BY StepTyped, LinkEffects, StreamsGrow, LinkInvStep, MovesAll, FinsStep
<1>3. IInv => OneAnswer
  <2> SUFFICES ASSUME IInv, NEW t \in End, FinRead(t) PROVE Sends(Peer(t), "fin") # {}
    BY DEF FinsInv, Fins, OneAnswer
  <2>1. PICK p \in End : p = Peer(t)
    BY PeerIsEnd
  <2>2. PICK i \in 1..read[t] : sent[p][i] = "fin"
    BY <2>1 DEF FinRead
  <2>3. read[t] \in Nat /\ read[t] <= Len(sent[p]) /\ sent[p] \in Seq(Cmd)
    BY <2>1, ReadBound DEF TypeOK, LinkTypeOK
  <2> QED BY <2>1, <2>2, <2>3 DEF Sends
<1> QED BY <1>1, <1>2, <1>3, PTL DEF Spec

(***************************************************************************)
(* Removal, for a process that closes a session once and has no idle       *)
(* timeout.  A second removal could only be scheduled by TickCloses.  When *)
(* the session closed before it was connected and one update overtakes its *)
(* removal, that update may answer a FIN, but the answer is then not       *)
(* acknowledged and the update does not close the session (Early).         *)
(***************************************************************************)
Deployed == \A s \in End : MaxClose[s] <= 1 /\ ~EnableTimeout[s]

Early(t) ==
    /\ Sends(t, "fin") = {}
    /\ calls[t] >= 1
    /\ \/ state[t] \in {CREATED, READY}
       \/ state[t] = FIN_ACK /\ ~AllAcked(t) /\ phase[t] # "idle"

Removal(t) ==
    /\ Alive(t) => closes[t] = 0
    /\ ~Alive(t) => closes[t] = 1 /\ queued[t] = 0 /\ due[t] = 0 /\ ~waitFin[t]
    /\ waitFin[t] => queued[t] = 0 /\ due[t] = 0 /\ state[t] >= FIN
    /\ queued[t] = 0 \/ due[t] = 0
    /\ queued[t] <= 1 /\ due[t] <= 1
    /\ queued[t] > 0 \/ due[t] > 0 => calls[t] >= 1 \/ state[t] >= FIN
    /\ queued[t] > 0 => phase[t] = "idle" /\ Early(t)
    /\ due[t] > 0 /\ phase[t] # "idle" => Early(t)

RemovalInv == \A t \in End : Removal(t)

(* Nobody answers a FIN that was not sent. *)
LEMMA NoAnswerRead ==
    ASSUME TypeOK, LinkInv, FinsInv, NEW t \in End, Receiving(t, "finack")
    PROVE  Sends(t, "fin") # {}
<1>1. PICK p \in End : p = Peer(t) /\ Peer(p) = t
  BY PeerIsEnd
<1>2. /\ sent[p] \in Seq(Cmd) /\ sent[t] \in Seq(Cmd) /\ read \in [End -> Nat]
      /\ got[t] \in Nat /\ flushed[p] \in Nat
  BY DEF TypeOK, LinkTypeOK
<1>3. read[t] < got[t] /\ got[t] <= flushed[p] /\ flushed[p] <= Len(sent[p])
  BY <1>1 DEF Receiving, CanRecv, LinkInv, CountersOrdered
<1>4. read[t] + 1 \in DOMAIN sent[p] /\ sent[p][read[t] + 1] = "finack"
  BY <1>1, <1>2, <1>3 DEF Receiving, NextMsg
<1>5. PICK i \in 1..read[p] : sent[t][i] = "fin"
  BY <1>1, <1>4 DEF FinsInv, Fins, FinRead, Sends
<1>6. read[p] \in Nat /\ read[p] <= Len(sent[t])
  BY <1>1, ReadBound
<1> QED BY <1>2, <1>5, <1>6 DEF Sends

LEMMA RemovalStep ==
    ASSUME TypeOK, TypeOK', LinkInv, LinkInv', SentGrows, FinsInv, Deployed,
           NEW t \in End, Removal(t), Moves(t), Same(t) \/ Acts(t)
    PROVE  Removal(t)'
<1>0. /\ SessTypeOK /\ LinkTypeOK /\ HistoryTypeOK /\ Fins(t)
      /\ state[t] \in Nat /\ state'[t] \in Nat /\ state'[t] >= state[t]
      /\ queued[t] \in Nat /\ due[t] \in Nat /\ calls[t] \in Nat /\ closes[t] \in Nat
      /\ waitFin[t] \in BOOLEAN
      /\ MaxClose[t] \in Nat /\ MaxClose[t] <= 1 /\ ~EnableTimeout[t]
  BY StateOrder, BoundsAssumption DEF TypeOK, SessTypeOK, LinkTypeOK, HistoryTypeOK, FinsInv, Moves,
     Deployed
<1>b. acked[t] \in Nat /\ Len(sent[t]) \in Nat /\ Len(sent'[t]) \in Nat
      /\ acked[t] <= Len(sent[t]) /\ Len(sent[t]) <= Len(sent'[t])
  <2>1. PICK p \in End : p = Peer(t) /\ Peer(p) = t
    BY PeerIsEnd
  <2>2. sent[t] \in Seq(Cmd) /\ sent'[t] \in Seq(Cmd)
    BY DEF TypeOK, LinkTypeOK
  <2>3. /\ acked[t] <= ackSent[p] /\ ackSent[p] <= got[p]
        /\ got[p] <= flushed[t] /\ flushed[t] <= Len(sent[t])
    BY <2>1 DEF LinkInv, CountersOrdered
  <2>4. acked[t] \in Nat /\ ackSent[p] \in Nat /\ got[p] \in Nat /\ flushed[t] \in Nat
    BY DEF TypeOK, LinkTypeOK
  <2>5. Len(sent[t]) \in Nat /\ Len(sent'[t]) \in Nat
    BY <2>2
  <2> QED BY <2>3, <2>4, <2>5 DEF SentGrows
<1> USE DEF Alive, States, CREATED, READY, FIN, FIN_ACK, WAIT_FREE
<1>c. ASSUME NEW cmd \in Cmd, cmd # "fin", sent'[t] = sent[t] \/ LinkSend(t, cmd)
      PROVE  Sends(t, "fin")' = Sends(t, "fin")
  <2>1. CASE sent'[t] = sent[t]
    BY <2>1 DEF Sends
  <2>2. CASE LinkSend(t, cmd)
    BY <1>c, <2>2, SendsAppended
  <2> QED BY <1>c, <2>1, <2>2
<1>d. ASSUME Sends(t, "fin")' = Sends(t, "fin"), acked'[t] = acked[t], state'[t] = state[t],
             calls'[t] = calls[t], phase'[t] # "idle", Early(t)
      PROVE  Early(t)'
  BY <1>0, <1>b, <1>d DEF Early, AllAcked
<1>1. CASE Same(t)
  <2>1. Early(t)' <=> Early(t)
    BY <1>1 DEF Same, Early, AllAcked, Sends
  <2> QED BY <1>0, <1>1, <2>1 DEF Same, Removal
<1>2. ASSUME NEW g, NEW a, KcpInput(t, g, a) PROVE Removal(t)'
  <2>1. /\ phase[t] = "idle" /\ state[t] < WAIT_FREE
        /\ UNCHANGED <<sent, waitFin, queued, due, phase, calls, closes>>
        /\ \/ state'[t] = READY /\ state[t] \in {CREATED, READY}
           \/ state'[t] = state[t]
    <3>1. state'[t] = READY \/ state'[t] = state[t]
      BY <1>0, <1>2, Zenon DEF KcpInput, SessTypeOK
    <3>2. state[t] \in States /\ (state'[t] = READY => state[t] \in {CREATED, READY})
      BY <1>0 DEF SessTypeOK
    <3> QED BY <1>2, <3>1, <3>2 DEF KcpInput, AllowInput
  <2>2. queued[t] > 0 => Early(t)'
    BY <1>0, <2>1 DEF Removal, Early, Sends
  <2> QED BY <1>0, <2>1, <2>2 DEF Removal
<1>3. CASE Send(t)
  <2>1. UNCHANGED sessVars /\ acked' = acked /\ LinkSend(t, "push")
    BY <1>3 DEF Send
  <2>2. Early(t) => Early(t)'
    BY <1>0, <1>b, <1>c, <2>1 DEF Early, AllAcked, Cmd, sessVars
  <2> QED BY <1>0, <2>1, <2>2 DEF Removal, sessVars
<1>4. CASE Close(t)
  <2>1. calls[t] = 0 /\ calls'[t] = 1 /\ AppRuns(t) /\ UNCHANGED <<phase, closes, acked>>
    BY <1>0, <1>4 DEF Close, HistoryTypeOK
  <2>2. ~Early(t) /\ queued[t] = 0 /\ Alive(t) /\ (due[t] > 0 => phase[t] = "idle")
    BY <1>0, <2>1 DEF Early, Removal, AppRuns
  <2>3. CASE CloseIgnored(t)
    BY <1>0, <2>1, <2>2, <2>3 DEF CloseIgnored, Removal
  <2>4. CASE CloseConnected(t)
    <3>1. state[t] = READY /\ state'[t] = FIN /\ queued' = queued /\ due' = due
      BY <1>0, <2>4 DEF CloseConnected, SessTypeOK
    <3>2. queued'[t] = 0 /\ due'[t] = 0
      BY <1>0, <2>1, <3>1 DEF Removal
    <3> QED BY <1>0, <2>1, <2>2, <3>1, <3>2 DEF Removal
  <2>5. CASE CloseUnconnected(t)
    <3>1. state[t] = CREATED /\ state'[t] = CREATED /\ sent' = sent /\ waitFin'[t] = FALSE
      BY <1>0, <2>5 DEF CloseUnconnected, TriggerClose, SessTypeOK
    <3>2. queued[t] = 0 /\ due[t] = 0
      BY <1>0, <2>1, <3>1 DEF Removal
    <3>3. Sends(t, "fin") = {}
      BY <1>0, <3>1 DEF Fins
    <3>4. Early(t)'
      BY <2>1, <3>1, <3>3 DEF Early, Sends
    <3>5. \/ due'[t] = 1 /\ queued'[t] = 0
          \/ due'[t] = 0 /\ queued'[t] = 1 /\ phase[t] = "idle"
      <4>1. CASE InCallback(t)
        BY <1>0, <2>5, <3>2, <4>1 DEF CloseUnconnected, SessTypeOK
      <4>2. CASE ~InCallback(t)
        BY <1>0, <2>1, <2>5, <3>2, <4>2 DEF CloseUnconnected, AppRuns, SessTypeOK
      <4> QED BY <4>1, <4>2
    <3> QED BY <1>0, <2>1, <2>2, <3>1, <3>4, <3>5 DEF Removal
  <2> QED BY <1>4, <2>3, <2>4, <2>5 DEF Close
<1>5. CASE TickTimeout(t)
  BY <1>0, <1>5 DEF TickTimeout
<1>6. ASSUME NEW flush \in BOOLEAN, TickStart(t, flush) PROVE Removal(t)'
  <2>1. /\ due[t] = 0 /\ Alive(t) /\ phase[t] = "idle" /\ phase'[t] = "recv"
        /\ due'[t] = queued[t] /\ queued'[t] = 0
        /\ UNCHANGED <<sent, acked, state, waitFin, calls, closes>>
    BY <1>0, <1>6 DEF TickStart, TickBegins, Idle, SessTypeOK
  <2>2. Early(t) => Early(t)'
    BY <2>1 DEF Early, AllAcked, Sends
  <2> QED BY <1>0, <2>1, <2>2 DEF Removal
<1>7. CASE TickSteps(t)
  <2>0. phase[t] # "idle"
    BY <1>7 DEF TickSteps, Recv, RecvNoo, RecvFin, RecvFinAck, RecvPush, RecvPushFull, Receiving,
                FullReturns, HandRest, TickCloses, TickHeartbeat, TickQuiet, TickEnds
  <2>1. UNCHANGED <<queued, calls, closes, acked>>
    BY <1>7 DEF TickSteps, Recv, RecvNoo, RecvFin, RecvFinAck, RecvPush, RecvPushFull, Receiving,
                FullReturns, HandRest, TickCloses, TickHeartbeat, TickQuiet, TickEnds, linkVars
  <2>2. queued[t] = 0
    BY <1>0, <2>0 DEF Removal
  <2>3. ASSUME UNCHANGED <<state, due, waitFin>>, Sends(t, "fin")' = Sends(t, "fin")
        PROVE  Removal(t)'
    <3>1. Early(t) /\ phase'[t] # "idle" => Early(t)'
      BY <1>d, <2>1, <2>3
    <3> QED BY <1>0, <2>0, <2>1, <2>2, <2>3, <3>1 DEF Removal
  <2>4. ASSUME NEW cmd, Receiving(t, cmd) PROVE UNCHANGED <<due, waitFin>>
    BY <2>4 DEF Receiving
  <2>5. CASE RecvFin(t)
    <3>1. Receiving(t, "fin") /\ phase' = phase
      BY <2>5 DEF RecvFin
    <3>2. CASE UNCHANGED <<sent, state>>
      BY <2>3, <2>4, <3>1, <3>2 DEF Sends
    <3>3. CASE LinkSend(t, "finack") /\ state' = [state EXCEPT ![t] = FIN_ACK]
      <4>1. state'[t] = FIN_ACK /\ Sends(t, "fin")' = Sends(t, "fin")
        BY <1>0, <1>c, <3>3 DEF Cmd, SessTypeOK
      <4>2. Len(sent'[t]) = Len(sent[t]) + 1
        BY <3>3, Appended DEF Cmd
      <4>3. ~AllAcked(t)'
        BY <1>b, <2>1, <4>2 DEF AllAcked
      <4>4. Early(t) => Early(t)'
        BY <2>0, <2>1, <3>1, <4>1, <4>3 DEF Early
      <4>5. state[t] < WAIT_FREE
        BY <1>0, <4>1
      <4> QED BY <1>0, <2>0, <2>1, <2>2, <2>4, <3>1, <4>1, <4>4, <4>5 DEF Removal
    <3> QED BY <2>5, <3>2, <3>3, Zenon DEF RecvFin
  <2>6. CASE RecvFinAck(t)
    <3>1. Receiving(t, "finack") /\ state'[t] = FIN_ACK
      BY <1>0, <2>6 DEF RecvFinAck, SessTypeOK
    <3>2. due[t] = 0
      BY <1>0, <2>0, <3>1, NoAnswerRead DEF Removal, Early
    <3>3. state[t] < WAIT_FREE
      BY <1>0, <3>1
    <3> QED BY <1>0, <2>1, <2>2, <2>4, <3>1, <3>2, <3>3 DEF Removal
  <2>7. CASE TickHeartbeat(t)
    <3>1. Sends(t, "fin")' = Sends(t, "fin")
      BY <1>c, <2>7 DEF TickHeartbeat, Cmd
    <3> QED BY <2>3, <2>7, <3>1 DEF TickHeartbeat, TickEnds
  <2>8. CASE TickCloses(t)
    <3>1. /\ state[t] = FIN_ACK /\ AllAcked(t) /\ phase'[t] = "idle"
          /\ state' = state /\ waitFin'[t] = FALSE /\ due'[t] = due[t] + 1
      BY <1>0, <2>8 DEF TickCloses, TickEnds, TriggerClose, SessTypeOK
    <3>2. due[t] = 0
      BY <1>0, <2>0, <3>1 DEF Removal, Early
    <3> QED BY <1>0, <2>1, <2>2, <3>1, <3>2 DEF Removal
  <2>9. CASE RecvNoo(t) \/ RecvPush(t) \/ RecvPushFull(t)
    BY <2>3, <2>4, <2>9 DEF RecvNoo, RecvPush, RecvPushFull, Sends
  <2>10. CASE FullReturns(t) \/ HandRest(t) \/ TickQuiet(t)
    BY <2>3, <2>10 DEF FullReturns, HandRest, TickQuiet, TickEnds, linkVars, Sends
  <2> QED BY <1>7, <2>5, <2>6, <2>7, <2>8, <2>9, <2>10 DEF TickSteps, Recv
<1>8. CASE RemoveSessInNextTick(t)
  <2>1. /\ queued[t] > 0 \/ due[t] > 0
        /\ queued'[t] = 0 /\ due'[t] = 0
        /\ waitFin' = waitFin
        /\ state'[t] = WAIT_FREE /\ closes'[t] = closes[t] + 1
    <3>1. \/ due[t] > 0 /\ due'[t] = due[t] - 1 /\ queued' = queued
          \/ queued[t] > 0 /\ queued'[t] = queued[t] - 1 /\ due[t] = 0 /\ due' = due
      BY <1>0, <1>8 DEF RemoveSessInNextTick, SessTypeOK
    <3>2. state'[t] = WAIT_FREE /\ closes'[t] = closes[t] + 1 /\ waitFin' = waitFin
      BY <1>0, <1>8 DEF RemoveSessInNextTick, RemoveSess, SessTypeOK, HistoryTypeOK
    <3> QED BY <1>0, <3>1, <3>2 DEF Removal
  <2>2. Alive(t) /\ closes[t] = 0 /\ waitFin[t] = FALSE
    BY <1>0, <2>1 DEF Removal
  <2> QED BY <2>1, <2>2 DEF Removal
<1>9. CASE WaitFinExpires(t)
  <2>1. /\ waitFin[t] /\ waitFin'[t] = FALSE /\ queued' = queued /\ due' = due
        /\ state'[t] = WAIT_FREE /\ closes'[t] = closes[t] + 1
    BY <1>0, <1>9 DEF WaitFinExpires, RemoveSess, SessTypeOK, HistoryTypeOK
  <2>2. Alive(t) /\ closes[t] = 0 /\ queued[t] = 0 /\ due[t] = 0
    BY <1>0, <2>1 DEF Removal
  <2> QED BY <2>1, <2>2 DEF Removal
<1> QED BY <1>1, <1>2, <1>3, <1>4, <1>5, <1>6, <1>7, <1>8, <1>9 DEF Acts

LEMMA InitClosing == Init => FinsInv /\ RemovalInv
<1> SUFFICES ASSUME Init, NEW t \in End PROVE Fins(t) /\ Removal(t)
  BY DEF FinsInv, RemovalInv
<1>1. sent[t] = <<>>
  BY DEF Init, LinkInit
<1>2. /\ state[t] = CREATED /\ waitFin[t] = FALSE /\ queued[t] = 0 /\ due[t] = 0
      /\ phase[t] = "idle" /\ calls[t] = 0 /\ closes[t] = 0
  BY DEF Init
<1> QED BY <1>1, <1>2 DEF Fins, Sends, Removal, Alive, CREATED, FIN, WAIT_FREE

ClosingInv == TypeOK /\ LinkInv /\ StageInv /\ FinsInv /\ RemovalInv

LEMMA ClosingStep == Deployed /\ ClosingInv /\ [Next]_vars => ClosingInv'
<1> SUFFICES ASSUME Deployed, ClosingInv, [Next]_vars PROVE ClosingInv'
  OBVIOUS
<1> USE DEF ClosingInv
<1>1. TypeOK' /\ LinkStep /\ SentGrows /\ LinkInv'
  BY StepTyped, LinkEffects, StreamsGrow, LinkInvStep
<1>2. StageInv' /\ FinsInv' /\ \A t \in End : Moves(t)
  BY <1>1, MovesAll, FinsStep
<1>3. RemovalInv'
  <2> SUFFICES ASSUME NEW t \in End PROVE Removal(t)'
    BY DEF RemovalInv
  <2>1. Removal(t) /\ Moves(t) /\ (Same(t) \/ Acts(t))
    BY <1>2, OneMoves DEF RemovalInv
  <2> QED BY <1>1, <2>1, RemovalStep
<1> QED BY <1>1, <1>2, <1>3

(* A removed session is not pointed at by a timer, and its close callback, *)
(* which deletes it, ran once.                                             *)
THEOREM NotRemovedTwice == ASSUME Deployed PROVE Spec => []RemovedOnce
<1>1. Init => ClosingInv
  BY InitTyped, InitHanded, InitStage, InitClosing DEF ClosingInv
<1>2. ClosingInv /\ [Next]_vars => ClosingInv'
  BY ClosingStep
<1>3. ClosingInv => RemovedOnce
  <2> SUFFICES ASSUME ClosingInv, NEW s \in End
               PROVE  closes[s] <= 1 /\ (~Alive(s) => Scheduled(s) = 0 /\ ~waitFin[s])
    BY DEF RemovedOnce
  <2> QED BY DEF ClosingInv, RemovalInv, Removal, Scheduled
<1> QED BY <1>1, <1>2, <1>3, PTL DEF Spec

(* While a session lives at most one thing is going to remove it. *)
THEOREM OneRemovalScheduled == ASSUME Deployed PROVE Spec => []OneRemoval
<1>1. Init => ClosingInv
  BY InitTyped, InitHanded, InitStage, InitClosing DEF ClosingInv
<1>2. ClosingInv /\ [Next]_vars => ClosingInv'
  BY ClosingStep
<1>3. ClosingInv => OneRemoval
  <2> SUFFICES ASSUME ClosingInv, NEW s \in End
               PROVE  Scheduled(s) + (IF waitFin[s] THEN 1 ELSE 0) <= 1
    BY DEF OneRemoval
  <2>1. queued[s] \in Nat /\ due[s] \in Nat /\ Removal(s)
    BY DEF ClosingInv, RemovalInv, TypeOK, SessTypeOK
  <2>2. CASE waitFin[s]
    BY <2>1, <2>2 DEF Removal, Scheduled
  <2>3. CASE ~waitFin[s]
    BY <2>1, <2>3 DEF Removal, Scheduled
  <2> QED BY <2>2, <2>3
<1> QED BY <1>1, <1>2, <1>3, PTL DEF Spec

(***************************************************************************)
(* Who closes.  Every way to a state of FIN or later starts at a Close: of *)
(* this end, or of the peer whose FIN it read.                             *)
(***************************************************************************)
Called(t) ==
    /\ Sends(t, "fin") # {} => calls[t] >= 1
    /\ state[t] >= FIN => calls[t] >= 1 \/ calls[Peer(t)] >= 1

CalledInv == \A t \in End : Called(t)

LEMMA CallsOf ==
    ASSUME TypeOK, NEW t \in End, Removal(t), Deployed, Same(t) \/ Acts(t)
    PROVE  /\ calls'[t] >= calls[t]
           /\ LinkSend(t, "fin") => calls'[t] >= 1 \/ sent'[t] = sent[t]
           /\ state'[t] >= FIN => \/ state[t] >= FIN \/ calls'[t] >= 1
                                 \/ Receiving(t, "fin") \/ Receiving(t, "finack")
<1>0. /\ SessTypeOK /\ LinkTypeOK /\ HistoryTypeOK /\ ~EnableTimeout[t]
      /\ state[t] \in Nat /\ calls[t] \in Nat
  BY StateOrder DEF TypeOK, SessTypeOK, HistoryTypeOK, Deployed
<1>a. ASSUME NEW cmd, cmd # "fin", LinkSend(t, cmd) PROVE ~LinkSend(t, "fin")
  <2>1. sent[t] \in Seq(Cmd) /\ sent'[t] = Append(sent[t], cmd)
    BY <1>0, <1>a DEF LinkSend, LinkTypeOK
  <2>2. SUFFICES ASSUME LinkSend(t, "fin") PROVE FALSE
    OBVIOUS
  <2>3. sent'[t] = Append(sent[t], "fin")
    BY <1>0, <2>2 DEF LinkSend, LinkTypeOK
  <2>4. PICK n \in Nat : n = Len(sent[t]) + 1
    BY <2>1
  <2>5. Append(sent[t], cmd)[n] = cmd /\ Append(sent[t], "fin")[n] = "fin"
    BY <2>1, <2>4
  <2> QED BY <1>a, <2>1, <2>3, <2>5
<1> USE DEF States, CREATED, READY, FIN, FIN_ACK, WAIT_FREE
<1>1. CASE Same(t)
  BY <1>0, <1>1 DEF Same
<1>2. ASSUME NEW g, NEW a, KcpInput(t, g, a) PROVE calls' = calls /\ sent' = sent
                                                   /\ (state'[t] >= FIN => state[t] >= FIN)
  BY <1>0, <1>2 DEF KcpInput, SessTypeOK
<1>3. CASE Send(t)
  BY <1>0, <1>3, <1>a DEF Send, sessVars
<1>4. CASE Close(t)
  BY <1>0, <1>4 DEF Close, HistoryTypeOK
<1>5. CASE TickTimeout(t)
  BY <1>0, <1>5 DEF TickTimeout
<1>6. ASSUME NEW flush \in BOOLEAN, TickStart(t, flush)
      PROVE  UNCHANGED <<calls, sent, state>>
  BY <1>6 DEF TickStart
<1>7. CASE TickSteps(t)
  <2>1. calls' = calls
    BY <1>7 DEF TickSteps, Recv, RecvNoo, RecvFin, RecvFinAck, RecvPush, RecvPushFull, Receiving,
                FullReturns, HandRest, TickCloses, TickHeartbeat, TickQuiet, TickEnds
  <2>2. CASE RecvFin(t)
    <3>1. Receiving(t, "fin") /\ (sent' = sent \/ LinkSend(t, "finack"))
      BY <2>2, Zenon DEF RecvFin
    <3> QED BY <1>0, <1>a, <2>1, <3>1
  <2>3. CASE RecvFinAck(t)
    BY <1>0, <2>1, <2>3 DEF RecvFinAck
  <2>4. CASE TickHeartbeat(t)
    BY <1>0, <1>a, <2>1, <2>4 DEF TickHeartbeat, TickEnds
  <2>5. CASE RecvNoo(t) \/ RecvPush(t) \/ RecvPushFull(t)
    BY <1>0, <2>1, <2>5 DEF RecvNoo, RecvPush, RecvPushFull
  <2>6. CASE FullReturns(t) \/ HandRest(t) \/ TickCloses(t) \/ TickQuiet(t)
    BY <1>0, <2>1, <2>6 DEF FullReturns, HandRest, TickCloses, TickQuiet, TickEnds, linkVars
  <2> QED BY <1>7, <2>2, <2>3, <2>4, <2>5, <2>6 DEF TickSteps, Recv
<1>8. CASE RemoveSessInNextTick(t)
  <2>1. queued[t] > 0 \/ due[t] > 0
    BY <1>8 DEF RemoveSessInNextTick
  <2> QED BY <1>0, <1>8, <2>1 DEF RemoveSessInNextTick, linkVars, Removal
<1>9. CASE WaitFinExpires(t)
  BY <1>0, <1>9 DEF WaitFinExpires, linkVars, Removal
<1> QED BY <1>0, <1>1, <1>2, <1>3, <1>4, <1>5, <1>6, <1>7, <1>8, <1>9 DEF Acts

LEMMA CalledStep ==
    Deployed /\ ClosingInv /\ CalledInv /\ [Next]_vars => CalledInv'
<1> SUFFICES ASSUME Deployed, ClosingInv, CalledInv, [Next]_vars,
                    NEW t \in End, NEW p \in End, p = Peer(t)
             PROVE  Called(t)'
  BY PeerIsEnd DEF CalledInv
<1>1. TypeOK /\ LinkInv /\ FinsInv /\ SentGrows /\ Called(t) /\ Called(p)
  BY LinkEffects, StreamsGrow DEF ClosingInv, CalledInv
<1>2. TypeOK' /\ Moves(t) /\ \A s \in End : Removal(s) /\ (Same(s) \/ Acts(s))
  BY StepTyped, MovesAll, OneMoves DEF ClosingInv, RemovalInv
<1>3. /\ calls[t] \in Nat /\ calls'[t] \in Nat /\ calls'[t] >= calls[t]
      /\ calls[p] \in Nat /\ calls'[p] \in Nat /\ calls'[p] >= calls[p]
  BY <1>1, <1>2, CallsOf DEF TypeOK, HistoryTypeOK
<1>4. Sends(t, "fin")' # {} => calls'[t] >= 1
  <2>1. CASE Sends(t, "fin")' = Sends(t, "fin")
    BY <1>1, <1>3, <2>1 DEF Called
  <2>2. CASE LinkSend(t, "fin")
    <3>1. sent'[t] # sent[t]
      BY <1>1, <2>2, Appended DEF Cmd
    <3> QED BY <1>1, <1>2, <2>2, <3>1, CallsOf
  <2>3. CASE sent'[t] = sent[t]
    BY <2>1, <2>3 DEF Sends
  <2>4. ASSUME NEW cmd \in {"push", "noo", "finack"}, LinkSend(t, cmd)
        PROVE  Sends(t, "fin")' = Sends(t, "fin")
    BY <1>1, <2>4, SendsAppended DEF Cmd
  <2> QED BY <1>2, <2>1, <2>2, <2>3, <2>4 DEF Moves, Answers
<1>5. state'[t] >= FIN => calls'[t] >= 1 \/ calls'[p] >= 1
  <2>1. CASE state[t] >= FIN
    BY <1>1, <1>3, <2>1 DEF Called
  <2>2. CASE Receiving(t, "fin")
    BY <1>1, <1>3, <2>2, NextIsRead DEF Called
  <2>3. CASE Receiving(t, "finack")
    BY <1>1, <1>3, <2>3, NoAnswerRead DEF Called
  <2> QED BY <1>1, <1>2, <2>1, <2>2, <2>3, CallsOf
<1> QED BY <1>4, <1>5 DEF Called

(* No session is removed unless the application of one end called Close. *)
THEOREM SomebodyClosed == ASSUME Deployed PROVE Spec => []NoSpontaneousClose
<1>1. Init => ClosingInv /\ CalledInv
  <2> SUFFICES ASSUME Init, NEW t \in End PROVE Called(t)
    BY InitTyped, InitHanded, InitStage, InitClosing DEF ClosingInv, CalledInv
  <2>1. sent[t] = <<>> /\ state[t] = CREATED
    BY DEF Init, LinkInit
  <2> QED BY <2>1 DEF Called, Sends, CREATED, FIN
<1>2. ClosingInv /\ CalledInv /\ [Next]_vars => (ClosingInv /\ CalledInv)'
  BY ClosingStep, CalledStep
<1>3. ClosingInv /\ CalledInv => NoSpontaneousClose
  <2> SUFFICES ASSUME ClosingInv, CalledInv, NEW s \in End, NEW p \in End, p = Peer(s),
                      closes[s] > 0
               PROVE  calls[s] + calls[p] > 0
    BY PeerIsEnd DEF NoSpontaneousClose
  <2>1. calls[s] \in Nat /\ calls[p] \in Nat /\ state[s] \in Nat
    BY StateOrder DEF ClosingInv, TypeOK, SessTypeOK, HistoryTypeOK
  <2>2. state[s] >= FIN
    BY <2>1 DEF ClosingInv, RemovalInv, Removal, Alive, FIN, WAIT_FREE
  <2> QED BY <2>1, <2>2 DEF CalledInv, Called
<1> QED BY <1>1, <1>2, <1>3, PTL DEF Spec

(***************************************************************************)
(* The removals of an end that never calls Close: one at most, due before  *)
(* its next update, which for that reason does not begin.                  *)
(***************************************************************************)
Uncalled(t) ==
    calls[t] = 0 =>
        /\ Alive(t) => closes[t] = 0
        /\ ~Alive(t) => closes[t] = 1 /\ due[t] = 0
        /\ queued[t] = 0 /\ ~waitFin[t] /\ due[t] <= 1
        /\ phase[t] # "idle" => Alive(t) /\ due[t] = 0

UncalledInv == \A t \in End : Uncalled(t)

LEMMA UncalledStep ==
    ASSUME TypeOK, TypeOK', NEW t \in End, Uncalled(t), Same(t) \/ Acts(t)
    PROVE  Uncalled(t)'
<1>0. /\ SessTypeOK /\ HistoryTypeOK /\ state[t] \in Nat /\ state'[t] \in Nat
      /\ queued[t] \in Nat /\ due[t] \in Nat /\ calls[t] \in Nat /\ closes[t] \in Nat
      /\ waitFin[t] \in BOOLEAN
  BY StateOrder DEF TypeOK, SessTypeOK, HistoryTypeOK
<1> USE DEF Alive, States, CREATED, READY, FIN, FIN_ACK, WAIT_FREE
<1>1. CASE Same(t)
  BY <1>0, <1>1 DEF Same, Uncalled
<1>2. ASSUME NEW g, NEW a, KcpInput(t, g, a) PROVE Uncalled(t)'
  BY <1>0, <1>2 DEF KcpInput, AllowInput, SessTypeOK, Uncalled
<1>3. CASE Send(t)
  BY <1>3 DEF Send, sessVars, Uncalled
<1>4. CASE Close(t)
  BY <1>0, <1>4 DEF Close, HistoryTypeOK, Uncalled
<1>5. CASE TickTimeout(t)
  <2>1. /\ phase[t] = "idle" /\ Alive(t) /\ due[t] = 0
        /\ queued'[t] = 0 /\ due'[t] = queued[t] + 1 /\ waitFin'[t] = FALSE
        /\ UNCHANGED <<state, phase, calls, closes>>
    BY <1>0, <1>5 DEF TickTimeout, TickBegins, Idle, TriggerClose, SessTypeOK
  <2> QED BY <1>0, <2>1 DEF Uncalled
<1>6. ASSUME NEW flush \in BOOLEAN, TickStart(t, flush) PROVE Uncalled(t)'
  <2>1. /\ Alive(t) /\ due[t] = 0
        /\ queued'[t] = 0 /\ due'[t] = queued[t]
        /\ UNCHANGED <<state, waitFin, calls, closes>>
    BY <1>0, <1>6 DEF TickStart, TickBegins, Idle, SessTypeOK
  <2> QED BY <1>0, <2>1 DEF Uncalled
<1>7. CASE TickSteps(t)
  <2>1. phase[t] # "idle" /\ UNCHANGED <<queued, calls, closes>>
    BY <1>7 DEF TickSteps, Recv, RecvNoo, RecvFin, RecvFinAck, RecvPush, RecvPushFull, Receiving,
                FullReturns, HandRest, TickCloses, TickHeartbeat, TickQuiet, TickEnds, linkVars
  <2>2. Alive(t)' \/ calls[t] # 0
    <3>1. CASE RecvFin(t)
      BY <1>0, <2>1, <3>1 DEF RecvFin, SessTypeOK, Uncalled
    <3>2. CASE RecvFinAck(t)
      BY <1>0, <2>1, <3>2 DEF RecvFinAck, SessTypeOK, Uncalled
    <3>3. CASE state' = state
      BY <2>1, <3>3 DEF Uncalled
    <3> QED BY <1>7, <3>1, <3>2, <3>3
            DEF TickSteps, Recv, RecvNoo, RecvPush, RecvPushFull, FullReturns, HandRest,
                TickCloses, TickHeartbeat, TickQuiet, TickEnds
  <2>3. CASE TickCloses(t)
    <3>1. due'[t] = due[t] + 1 /\ waitFin'[t] = FALSE /\ phase'[t] = "idle"
      BY <1>0, <2>3 DEF TickCloses, TickEnds, TriggerClose, SessTypeOK
    <3> QED BY <1>0, <2>1, <2>2, <3>1 DEF Uncalled
  <2>4. CASE UNCHANGED <<due, waitFin>>
    BY <1>0, <2>1, <2>2, <2>4 DEF Uncalled
  <2> QED BY <1>7, <2>3, <2>4
          DEF TickSteps, Recv, RecvNoo, RecvFin, RecvFinAck, RecvPush, RecvPushFull, Receiving,
              FullReturns, HandRest, TickHeartbeat, TickQuiet, TickEnds
<1>8. CASE RemoveSessInNextTick(t)
  <2>1. /\ phase[t] = "idle" /\ UNCHANGED <<phase, waitFin, calls>>
        /\ state'[t] = WAIT_FREE /\ closes'[t] = closes[t] + 1
        /\ \/ due[t] > 0 /\ due'[t] = due[t] - 1 /\ queued' = queued
           \/ queued[t] > 0
    BY <1>0, <1>8 DEF RemoveSessInNextTick, RemoveSess, SessTypeOK, HistoryTypeOK
  <2> QED BY <1>0, <2>1 DEF Uncalled
<1>9. CASE WaitFinExpires(t)
  BY <1>0, <1>9 DEF WaitFinExpires, Uncalled
<1> QED BY <1>1, <1>2, <1>3, <1>4, <1>5, <1>6, <1>7, <1>8, <1>9 DEF Acts

(* An end whose application never calls Close is removed once, with the    *)
(* idle timeout enabled or not.                                            *)
THEOREM IdleIsRemovedOnce == Spec => []IdleRemovesOnce
<1> DEFINE IInv == TypeOK /\ UncalledInv
<1>1. Init => IInv
  <2> SUFFICES ASSUME Init, NEW t \in End PROVE Uncalled(t)
    BY InitTyped DEF UncalledInv
  <2> QED BY DEF Init, Uncalled, Alive, CREATED, WAIT_FREE
<1>2. IInv /\ [Next]_vars => IInv'
  BY StepTyped, OneMoves, UncalledStep DEF UncalledInv
<1>3. IInv => IdleRemovesOnce
  <2> SUFFICES ASSUME IInv, NEW s \in End, calls[s] = 0
               PROVE  closes[s] <= 1 /\ (~Alive(s) => Scheduled(s) = 0 /\ ~waitFin[s])
    BY DEF IdleRemovesOnce
  <2>1. Uncalled(s) /\ queued[s] \in Nat /\ due[s] \in Nat
    BY DEF UncalledInv, TypeOK, SessTypeOK
  <2> QED BY <2>1 DEF Uncalled, Scheduled
<1> QED BY <1>1, <1>2, <1>3, PTL DEF Spec

----------------------------------------------------------------------------
(***************************************************************************)
(* What a session does to the bytes it is given (module Framing).          *)
(***************************************************************************)

(* The seven bytes of Mux::Encode give Mux::Decode back what went in.      *)
LEMMA BytesOfInt ==
    ASSUME NEW id \in UInt
    PROVE  BytesToInt(Shifted(id, 16777216), Shifted(id, 65536), Shifted(id, 256),
                      Shifted(id, 1)) = id
  <1>0. id \in Nat /\ id < 4294967296
    BY SMT DEF UInt
  <1>1. PICK q1 \in Nat : q1 = id \div 256
    BY <1>0, SMT
  <1>2. PICK q2 \in Nat : q2 = q1 \div 256
    BY SMT
  <1>3. PICK q3 \in Nat : q3 = q2 \div 256
    BY SMT
  <1>4. q2 = id \div 65536
    BY <1>0, <1>1, <1>2, SMT
  <1>5. q3 = id \div 16777216
    BY <1>0, <1>1, <1>2, <1>3, SMT
  <1>6. id \div 1 = id
    BY <1>0, SMT
  <1>7. q3 % 256 = q3
    BY <1>0, <1>5, SMT
  <1>8. id = 256 * q1 + (id % 256)
    BY <1>0, <1>1, SMT
  <1>9. q1 = 256 * q2 + (q1 % 256)
    BY <1>2, SMT
  <1>10. q2 = 256 * q3 + (q2 % 256)
    BY <1>3, SMT
  <1>11. /\ Shifted(id, 16777216) = q3 /\ Shifted(id, 65536) = q2 % 256
         /\ Shifted(id, 256) = q1 % 256 /\ Shifted(id, 1) = id % 256
    BY <1>1, <1>4, <1>5, <1>6, <1>7, SMT DEF Shifted
  <1>12. id % 256 \in Nat /\ q1 % 256 \in Nat /\ q2 % 256 \in Nat
    BY <1>0, SMT
  <1>13. id = q3 * 16777216 + (q2 % 256) * 65536 + (q1 % 256) * 256 + (id % 256)
    <2> DEFINE r0 == id % 256
               r1 == q1 % 256
               r2 == q2 % 256
    <2> HIDE DEF r0, r1, r2
    <2>1. r0 \in Nat /\ r1 \in Nat /\ r2 \in Nat
      BY <1>12 DEF r0, r1, r2
    <2>2. id = 256 * q1 + r0 /\ q1 = 256 * q2 + r1 /\ q2 = 256 * q3 + r2
      BY <1>8, <1>9, <1>10 DEF r0, r1, r2
    <2>3. id = q3 * 16777216 + r2 * 65536 + r1 * 256 + r0
      BY <1>0, <2>1, <2>2, SMT
    <2> QED
      BY <2>3 DEF r0, r1, r2
  <1> QED
    BY <1>11, <1>13, SMT DEF BytesToInt

LEMMA BytesOfShort ==
    ASSUME NEW length \in UShort
    PROVE  BytesToShort(Shifted(length, 256), Shifted(length, 1)) = length
  <1>1. length \in Nat /\ length < 65536
    BY SMT DEF UShort
  <1>2. length = 256 * (length \div 256) + (length % 256)
    BY <1>1, SMT
  <1>3. PICK q \in Nat : q = length \div 256
    BY <1>1, SMT
  <1>4. q % 256 = q
    BY <1>1, <1>3, SMT
  <1>5. length \div 1 = length
    BY <1>1, SMT
  <1> QED
    BY <1>1, <1>2, <1>3, <1>4, <1>5, SMT DEF BytesToShort, Shifted

THEOREM DecodeEncode ==
    ASSUME NEW id \in UInt, NEW cmd \in Byte, NEW length \in UShort
    PROVE  Decode(Encode(id, cmd, length)) = [id |-> id, cmd |-> cmd, length |-> length]
  <1>1. Decode(Encode(id, cmd, length)) =
           [id |-> BytesToInt(Shifted(id, 16777216), Shifted(id, 65536),
                              Shifted(id, 256), Shifted(id, 1)),
            cmd |-> cmd,
            length |-> BytesToShort(Shifted(length, 256), Shifted(length, 1))]
    BY SMT DEF Decode, Encode
  <1> QED
    BY <1>1, BytesOfInt, BytesOfShort, SMT

(* Every piece advances, is not longer than allowed and stays within the   *)
(* content, so the loops of Conn::Send and RawSend end with all of it sent *)
(* and no byte twice.                                                      *)
THEOREM PiecesTile ==
    ASSUME NEW s \in Nat, NEW len \in Nat, NEW max \in Nat \ {0}, s < len
    PROVE  /\ PieceEnd(s, max, len) \in (s + 1)..len
           /\ PieceEnd(s, max, len) - s <= max
           /\ PieceEnd(s, max, len) # len => PieceEnd(s, max, len) - s = max
  BY SMT DEF PieceEnd

(* A frame of the mux is one message of the session: RawSend never cuts    *)
(* it, so recvBuf holds whole frames whenever it is handed to OnRecvMsg.   *)
THEOREM FrameIsOneMessage ==
    ASSUME NEW length \in 0..MAX_MUX_CONTENT_LEN
    PROVE  /\ OneMessage(length + KCPUV_MUX_PROTOCOL_OVERHEAD)
           /\ length \in UShort
  <1>1. length \in Nat /\ length <= 65518
    BY SMT DEF MAX_MUX_CONTENT_LEN
  <1> QED
    BY <1>1, SMT DEF OneMessage, PieceEnd, KCPUV_MUX_PROTOCOL_OVERHEAD,
                     MAX_SENDING_LEN, KCPUV_OVERHEAD, UShort

(* ikcp_send takes every message RawSend makes, its fragment numbers fit   *)
(* in a byte and in the window, and ikcp_recv has room for the whole.      *)
THEOREM MessageFits ==
    ASSUME NEW len \in Nat, NEW s \in Nat, s <= len
    PROVE  /\ Accepts(MessageSize(s, len))
           /\ FragmentCount(MessageSize(s, len)) - 1 \in Byte
           /\ FragmentCount(MessageSize(s, len)) <= INIT_WND_SIZE
           /\ MessageSize(s, len) <= BUFFER_LEN
  <1>1. MessageSize(s, len) \in Nat /\ MessageSize(s, len) <= 65535
    BY SMT DEF MessageSize, PieceEnd, MAX_SENDING_LEN, KCPUV_OVERHEAD
  <1>2. PICK size \in Nat : size = MessageSize(s, len)
    BY <1>1
  <1>3. size <= 65535
    BY <1>1, <1>2
  <1>4. FragmentCount(size) \in Nat /\ FragmentCount(size) >= 1 /\ FragmentCount(size) <= 48
    <2>1. CASE size <= mss
      BY <2>1, SMT DEF FragmentCount
    <2>2. CASE ~(size <= mss)
      <3>1. size + mss - 1 = size + 1375 /\ mss = 1376
        BY SMT DEF mss
      <3>2. (size + 1375) \div 1376 \in Nat
        BY SMT
      <3>3. (size + 1375) \div 1376 >= 1 /\ (size + 1375) \div 1376 <= 48
        BY <1>3, <2>2, <3>1, SMT
      <3> QED
        BY <2>2, <3>1, <3>2, <3>3, SMT DEF FragmentCount
    <2> QED
      BY <2>1, <2>2
  <1>5. Accepts(size)
    BY <1>4, SMT DEF Accepts, IKCP_WND_RCV
  <1>6. FragmentCount(size) - 1 \in Byte
    BY <1>4, SMT DEF Byte
  <1>7. FragmentCount(size) <= INIT_WND_SIZE
    BY <1>4, SMT DEF INIT_WND_SIZE
  <1>8. size <= BUFFER_LEN
    BY <1>3, SMT DEF BUFFER_LEN, MAX_SENDING_LEN
  <1> QED
    BY <1>2, <1>5, <1>6, <1>7, <1>8

(* recvBuf is never written past its end: content is added only while the  *)
(* sum stays below the size, and what replaces it is one message.          *)
THEOREM BufferNeverOverflows ==
    ASSUME NEW held \in 0..(KCPUV_SESS_BUFFER_SIZE - 1),
           NEW length \in 0..(BUFFER_LEN - KCPUV_OVERHEAD)
    PROVE  BufferAfter(held, length) \in 0..(KCPUV_SESS_BUFFER_SIZE - 1)
  <1>1. held \in Nat /\ held <= 65534
    BY SMT DEF KCPUV_SESS_BUFFER_SIZE
  <1>2. length \in Nat /\ length <= 65525
    BY SMT DEF BUFFER_LEN, MAX_SENDING_LEN, KCPUV_OVERHEAD
  <1>3. ShouldOutput(held, length) <=> held + length >= 65535
    BY DEF ShouldOutput, KCPUV_SESS_BUFFER_SIZE
  <1>4. BufferAfter(held, length) \in Nat /\ BufferAfter(held, length) <= 65534
    <2>1. CASE ShouldOutput(held, length)
      <3>1. BufferAfter(held, length) = length
        BY <2>1 DEF BufferAfter
      <3> QED
        BY <3>1, <1>2, SMT
    <2>2. CASE ~ShouldOutput(held, length)
      <3>1. BufferAfter(held, length) = held + length
        BY <2>2 DEF BufferAfter
      <3> QED
        BY <3>1, <2>2, <1>1, <1>2, <1>3, SMT
    <2> QED
      BY <2>1, <2>2
  <1>5. KCPUV_SESS_BUFFER_SIZE - 1 = 65534
    BY SMT DEF KCPUV_SESS_BUFFER_SIZE
  <1> QED
    BY <1>4, <1>5, SMT

(* A frame found at offset is passed over by exactly its own length.       *)
THEOREM OffsetAdvances ==
    ASSUME NEW data \in Seq(Byte), NEW offset \in Nat,
           NEW id \in UInt, NEW cmd \in Byte, NEW length \in UShort,
           SubSeq(data, offset + 1, offset + 7) = Encode(id, cmd, length)
    PROVE  NextOffset(data, offset) = offset + KCPUV_MUX_PROTOCOL_OVERHEAD + length
  <1>1. Decode(SubSeq(data, offset + 1, offset + 7)).length = length
    <2>1. Decode(Encode(id, cmd, length)) = [id |-> id, cmd |-> cmd, length |-> length]
      BY DecodeEncode
    <2>2. [id |-> id, cmd |-> cmd, length |-> length].length = length
      BY Zenon
    <2>3. Decode(SubSeq(data, offset + 1, offset + 7)) = Decode(Encode(id, cmd, length))
      OBVIOUS
    <2> QED
      BY <2>1, <2>2, <2>3
  <1>2. length \in Nat
    BY SMT DEF UShort
  <1> QED
    BY <1>1, <1>2, SMT DEF NextOffset, KCPUV_MUX_PROTOCOL_OVERHEAD
=============================================================================
