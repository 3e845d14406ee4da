-------------------------------- MODULE Kcp --------------------------------
(***************************************************************************)
(* The two control blocks (ikcpcb, lib/kcp/ikcp.c) of one conversation and *)
(* the network between them, which loses, duplicates and reorders.         *)
(*                                                                         *)
(* Messages are cut into fragments, fragments get sequence numbers when    *)
(* they enter snd_buf, and sequence numbers are compared by their signed   *)
(* difference modulo 2^32 (module Serial); Wrap stands for 2^32.  nysocks  *)
(* configures nodelay, fast resend after 2 and no congestion window        *)
(* (KcpuvSess.cc:206), so cwnd, ssthresh and incr have no effect.          *)
(*                                                                         *)
(* Round trips and RTO decide when a segment is sent again: here any flush *)
(* may find any segment late.  A datagram holds one segment; ikcp_flush    *)
(* packs several, which only restricts what the network can do to them.    *)
(***************************************************************************)
EXTENDS Serial, SequencesExt

CONSTANTS
    A, B,           \* the two ends
    First,          \* snd_nxt and rcv_nxt when the model starts: 0 after ikcp_create,
                    \* any number in a conversation that has been idle for a while
    SndWnd,         \* kcp->snd_wnd
    RcvWnd,         \* kcp->rcv_wnd
    WndRcv,         \* IKCP_WND_RCV: the initial rmt_wnd, above any fragment count
    Counts,         \* bound: the fragments a message may need
    MaxMsgs,        \* bound: MaxMsgs[s] messages are given to s
    MaxNet          \* bound: MaxNet[s] segments are on their way to s

End == {A, B}
Peer(s) == IF s = A THEN B ELSE A

ASSUME EndsDiffer == A # B
ASSUME WindowsAssumption ==
    /\ {SndWnd, RcvWnd, WndRcv} \subseteq Nat \ {0}
    /\ First \in 0..(Wrap - 1)
    /\ RcvWnd >= WndRcv                     \* ikcp_wndsize
    /\ 4 * RcvWnd < Wrap /\ 4 * SndWnd < Wrap
ASSUME BoundsAssumption ==
    /\ Counts \subseteq Nat \ {0}
    /\ MaxMsgs \in [End -> Nat]
    /\ MaxNet \in [End -> Nat \ {0}]

FastResend == 2         \* ikcp_nodelay(kcp, 1, 10, 2, 1)

VARIABLES
    snd_queue,  \* fragments waiting for the window
    snd_buf,    \* segments sent and not acknowledged, in order
    snd_una, snd_nxt, rcv_nxt,
    rcv_buf,    \* segments received beyond what rcv_queue takes
    rcv_queue,  \* fragments received in order
    acklist,    \* sequence numbers to acknowledge in the next flush
    rmt_wnd,    \* the window the peer announced last
    probe,      \* which of IKCP_ASK_SEND ("ask") and IKCP_ASK_TELL ("tell") is set
    probing,    \* probe_wait # 0: the probe timer runs
    net,        \* net[s]: the segments on their way to s
    \* history
    given,      \* given[s]:     the messages s accepted: the fragments of each, and before it
    delivered,  \* delivered[s]: the messages ikcp_recv returned at s
    offered,    \* offered[s]:   Len(given[s]) at the last flush of s
    promised    \* promised[s]:  the messages s held at its last flush

sendVars == <<snd_queue, snd_buf, snd_una, snd_nxt, rmt_wnd, probing>>
recvVars == <<rcv_nxt, rcv_buf, rcv_queue, acklist>>
historyVars == <<given, delivered, offered, promised>>
vars == <<sendVars, recvVars, probe, net, historyVars>>

Sn == 0..(Wrap - 1)
Frag == [msg : Nat, frg : Nat]      \* content: which part of which message
Msg == [first : Nat, count : Nat \ {0}]
Seg == [sn : Sn, frag : Frag, xmit : BOOLEAN, fastack : 0..FastResend]
Held == [sn : Sn, frag : Frag]
Push == [cmd : {"push"}, sn : Sn, frag : Frag, una : Sn, wnd : Nat]
Ack  == [cmd : {"ack"}, sn : Sn, una : Sn, wnd : Nat]
Tell == [cmd : {"wask", "wins"}, una : Sn, wnd : Nat]
Segment == Push \cup Ack \cup Tell

TypeOK ==
    /\ snd_queue \in [End -> Seq(Frag)]
    /\ snd_buf \in [End -> Seq(Seg)]
    /\ {snd_una, snd_nxt, rcv_nxt} \subseteq [End -> Sn]
    /\ rcv_buf \in [End -> SUBSET Held]
    /\ rcv_queue \in [End -> Seq(Frag)]
    /\ acklist \in [End -> SUBSET Sn]
    /\ rmt_wnd \in [End -> Nat]
    /\ probe \in [End -> SUBSET {"ask", "tell"}]
    /\ probing \in [End -> BOOLEAN]
    /\ net \in [End -> SUBSET Segment]
    /\ given \in [End -> Seq(Msg)]
    /\ delivered \in [End -> Seq(Seq(Frag))]
    /\ {offered, promised} \subseteq [End -> Nat]

Init ==
    /\ snd_queue = [s \in End |-> <<>>]
    /\ snd_buf = [s \in End |-> <<>>]
    /\ snd_una = [s \in End |-> First]
    /\ snd_nxt = [s \in End |-> First]
    /\ rcv_nxt = [s \in End |-> First]
    /\ rcv_buf = [s \in End |-> {}]
    /\ rcv_queue = [s \in End |-> <<>>]
    /\ acklist = [s \in End |-> {}]
    /\ rmt_wnd = [s \in End |-> WndRcv]
    /\ probe = [s \in End |-> {}]
    /\ probing = [s \in End |-> FALSE]
    /\ net = [s \in End |-> {}]
    /\ given = [s \in End |-> <<>>]
    /\ delivered = [s \in End |-> <<>>]
    /\ offered = [s \in End |-> 0]
    /\ promised = [s \in End |-> 0]

(***************************************************************************)
(* Receiving: rcv_queue takes from rcv_buf what is next, while it has room.*)
(***************************************************************************)
Contiguous(buf, nxt, n) == \A i \in 0..(n - 1) : \E seg \in buf : seg.sn = Plus(nxt, i)

(* How many of the segments of buf follow nxt without a gap, up to room. *)
Run(buf, nxt, room) == Max({n \in 0..room : Contiguous(buf, nxt, n)})

FragAt(buf, sn) == (CHOOSE seg \in buf : seg.sn = sn).frag
RunOf(buf, nxt, n) == [i \in 1..n |-> FragAt(buf, Plus(nxt, i - 1))]
Beyond(buf, nxt, n) == {seg \in buf : \A i \in 0..(n - 1) : seg.sn # Plus(nxt, i)}

(* Mutant: the queue takes whatever is next, without looking at its size. *)
MutAbsorb(s, buf, queue) ==
    LET n == Run(buf, rcv_nxt[s], Cardinality(buf))
    IN  /\ rcv_queue' = [rcv_queue EXCEPT ![s] = queue \o RunOf(buf, rcv_nxt[s], n)]
        /\ rcv_buf' = [rcv_buf EXCEPT ![s] = Beyond(buf, rcv_nxt[s], n)]
        /\ rcv_nxt' = [rcv_nxt EXCEPT ![s] = Plus(@, n)]

Absorb(s, buf, queue) ==
    LET room == RcvWnd - Len(queue)
        n == Run(buf, rcv_nxt[s], room)
    IN  /\ rcv_queue' = [rcv_queue EXCEPT ![s] = queue \o RunOf(buf, rcv_nxt[s], n)]
        /\ rcv_buf' = [rcv_buf EXCEPT ![s] = Beyond(buf, rcv_nxt[s], n)]
        /\ rcv_nxt' = [rcv_nxt EXCEPT ![s] = Plus(@, n)]

(***************************************************************************)
(* ikcp_send: the message is cut into count fragments, numbered downwards. *)
(***************************************************************************)
Fragments(m, count) == [i \in 1..count |-> [msg |-> m, frg |-> count - i]]

(* The fragments of all messages given. *)
Total(msgs) == IF msgs = <<>> THEN 0 ELSE Last(msgs).first + Last(msgs).count

KcpSend(s, count) ==
    /\ Len(given[s]) < MaxMsgs[s]
    /\ count < WndRcv
    /\ given' = [given EXCEPT ![s] = Append(@, [first |-> Total(given[s]), count |-> count])]
    /\ snd_queue' = [snd_queue EXCEPT ![s] = @ \o Fragments(Len(given[s]) + 1, count)]
    /\ UNCHANGED <<snd_buf, snd_una, snd_nxt, rmt_wnd, probing, recvVars, probe, net,
                   delivered, offered, promised>>

(***************************************************************************)
(* ikcp_recv: the first message of rcv_queue, when all of it is there      *)
(* (ikcp_peeksize); then rcv_queue refills, and a window that was closed   *)
(* is announced.                                                           *)
(***************************************************************************)
(* Mutant: off by one, the last fragment is not counted. *)
MutCanPeek(s) ==
    /\ rcv_queue[s] # <<>>
    /\ Len(rcv_queue[s]) > Head(rcv_queue[s]).frg + 1

CanPeek(s) ==
    /\ rcv_queue[s] # <<>>
    /\ Len(rcv_queue[s]) >= Head(rcv_queue[s]).frg + 1

(* Mutant: the merge of fragments does not stop at the end of a message. *)
MutFirstEnd(queue) == Len(queue)

FirstEnd(queue) == Min({Len(queue)} \cup {i \in DOMAIN queue : queue[i].frg = 0})

KcpRecv(s) ==
    /\ CanPeek(s)
    /\ LET n == FirstEnd(rcv_queue[s])
           recover == Len(rcv_queue[s]) >= RcvWnd
       IN  /\ delivered' = [delivered EXCEPT
                 ![s] = Append(@, SubSeq(rcv_queue[s], 1, n))]
           /\ Absorb(s, rcv_buf[s], SubSeq(rcv_queue[s], n + 1, Len(rcv_queue[s])))
           /\ probe' = [probe EXCEPT ![s] =
                 IF recover /\ Len(rcv_queue'[s]) < RcvWnd THEN @ \cup {"tell"} ELSE @]
    /\ UNCHANGED <<sendVars, acklist, net, given, offered, promised>>

(***************************************************************************)
(* ikcp_input, for one segment: the window, una, then its command.         *)
(***************************************************************************)

(* ikcp_parse_una: what the peer has in order leaves the head of snd_buf. *)
AfterUna(buf, una) ==
    SubSeq(buf, 1 + Max({0} \cup {i \in DOMAIN buf :
                        \A j \in 1..i : Diff(una, buf[j].sn) > 0}), Len(buf))

(* ikcp_shrink_buf: the oldest segment not acknowledged. *)
UnaOf(s, buf) == IF buf = <<>> THEN snd_nxt[s] ELSE Head(buf).sn

InFlight(s, una, sn) == Diff(sn, una) >= 0 /\ Diff(sn, snd_nxt[s]) < 0

(* Mutant: an acknowledgement of one segment is taken for all before it. *)
MutAfterAck(s, buf, sn) ==
    IF InFlight(s, UnaOf(s, buf), sn) /\ \E i \in DOMAIN buf : buf[i].sn = sn
      THEN SubSeq(buf, 1 + CHOOSE i \in DOMAIN buf : buf[i].sn = sn, Len(buf)) ELSE buf

(* ikcp_parse_ack and ikcp_parse_fastack. *)
AfterAck(s, buf, sn) ==
    IF InFlight(s, UnaOf(s, buf), sn) /\ \E i \in DOMAIN buf : buf[i].sn = sn
      THEN RemoveAt(buf, CHOOSE i \in DOMAIN buf : buf[i].sn = sn) ELSE buf

Skipped(s, buf, sn) ==
    IF InFlight(s, UnaOf(s, buf), sn)
      THEN [i \in DOMAIN buf |-> IF Diff(sn, buf[i].sn) > 0 /\ buf[i].fastack < FastResend
                                   THEN [buf[i] EXCEPT !.fastack = @ + 1] ELSE buf[i]]
      ELSE buf

Acknowledge(s, seg) ==
    LET buf == AfterUna(snd_buf[s], seg.una)
        rest == IF seg.cmd = "ack" THEN AfterAck(s, buf, seg.sn) ELSE buf
    IN  /\ rmt_wnd' = [rmt_wnd EXCEPT ![s] = seg.wnd]
        /\ snd_buf' = [snd_buf EXCEPT
              ![s] = IF seg.cmd = "ack" THEN Skipped(s, rest, seg.sn) ELSE rest]
        /\ snd_una' = [snd_una EXCEPT ![s] = UnaOf(s, rest)]
        /\ UNCHANGED <<snd_queue, snd_nxt, probing>>

(* Mutant: old segments are not acknowledged again. *)
MutInputPush(s, seg) ==
    IF Diff(seg.sn, rcv_nxt[s]) < 0 \/ Diff(seg.sn, Plus(rcv_nxt[s], RcvWnd)) >= 0
      THEN UNCHANGED recvVars
      ELSE /\ acklist' = [acklist EXCEPT ![s] = @ \cup {seg.sn}]
           /\ Absorb(s, rcv_buf[s] \cup {[sn |-> seg.sn, frag |-> seg.frag]}, rcv_queue[s])

(* A segment inside the window is acknowledged, an old one again; a new    *)
(* one is kept (ikcp_parse_data).                                          *)
InputPush(s, seg) ==
    IF Diff(seg.sn, Plus(rcv_nxt[s], RcvWnd)) >= 0
      THEN UNCHANGED recvVars
      ELSE /\ acklist' = [acklist EXCEPT ![s] = @ \cup {seg.sn}]
           /\ IF Diff(seg.sn, rcv_nxt[s]) < 0 \/ \E held \in rcv_buf[s] : held.sn = seg.sn
                THEN UNCHANGED <<rcv_nxt, rcv_buf, rcv_queue>>
                ELSE Absorb(s, rcv_buf[s] \cup {[sn |-> seg.sn, frag |-> seg.frag]},
                            rcv_queue[s])

KcpInput(s, seg) ==
    /\ Acknowledge(s, seg)
    /\ IF seg.cmd = "push" THEN InputPush(s, seg) ELSE UNCHANGED recvVars
    /\ probe' = [probe EXCEPT ![s] = IF seg.cmd = "wask" THEN @ \cup {"tell"} ELSE @]
    /\ UNCHANGED historyVars

(* The network hands over one of its segments, and may keep a copy. *)
Arrive(s, seg, keep) ==
    /\ seg \in net[s]
    /\ KcpInput(s, seg)
    /\ net' = IF keep THEN net ELSE [net EXCEPT ![s] = @ \ {seg}]

(***************************************************************************)
(* ikcp_flush.                                                             *)
(***************************************************************************)
Unused(s) == IF Len(rcv_queue[s]) < RcvWnd THEN RcvWnd - Len(rcv_queue[s]) ELSE 0

(* Acknowledgements, then the window probe and its answer. *)
Acks(s) ==
    {[cmd |-> "ack", sn |-> sn, una |-> rcv_nxt[s], wnd |-> Unused(s)] :
        sn \in acklist[s]}

(* The probe timer is set when the window is found closed; when it expires *)
(* with the window still closed the peer is asked.                         *)
(* Mutant: a closed window is never asked about. *)
MutAsks(s, expires) == FALSE

Asks(s, expires) == rmt_wnd[s] = 0 /\ probing[s] /\ expires

Probes(s, expires) ==
    {[cmd |-> cmd, una |-> rcv_nxt[s], wnd |-> Unused(s)] :
        cmd \in (IF Asks(s, expires) \/ "ask" \in probe[s] THEN {"wask"} ELSE {})
                  \cup (IF "tell" \in probe[s] THEN {"wins"} ELSE {})}

(* Fragments enter snd_buf while the windows of both ends allow. *)
Cwnd(s) == Min({SndWnd, rmt_wnd[s]})
Moves(s) ==
    Min({Len(snd_queue[s]), Max({0, Diff(Plus(snd_una[s], Cwnd(s)), snd_nxt[s])})})

NewSeg(sn, frag) == [sn |-> sn, frag |-> frag, xmit |-> FALSE, fastack |-> 0]
Buffered(s) ==
    snd_buf[s] \o [i \in 1..Moves(s) |->
                     NewSeg(Plus(snd_nxt[s], i - 1), snd_queue[s][i])]

(* A segment is sent when it is new, late, or was skipped often enough. *)
NeedSend(seg, late) == ~seg.xmit \/ seg.sn \in late \/ seg.fastack >= FastResend
Resent(seg, late) ==
    [seg EXCEPT !.xmit = TRUE,
                !.fastack = IF seg.xmit /\ seg.sn \notin late /\ @ >= FastResend
                              THEN 0 ELSE @]
AfterSend(buf, late) ==
    [i \in DOMAIN buf |-> IF NeedSend(buf[i], late) THEN Resent(buf[i], late) ELSE buf[i]]

PushOf(s, seg) ==
    [cmd |-> "push", sn |-> seg.sn, frag |-> seg.frag, una |-> rcv_nxt[s],
     wnd |-> Unused(s)]

Pushes(s, buf, late) ==
    {PushOf(s, buf[i]) : i \in {j \in DOMAIN buf : NeedSend(buf[j], late)}}

Output(s, late, expires) ==
    Acks(s) \cup Probes(s, expires) \cup Pushes(s, Buffered(s), late)

(* The messages of the peer that s holds, returned by ikcp_recv or not.    *)
InOrder(s) ==
    LET n == Run(rcv_buf[s], rcv_nxt[s], Cardinality(rcv_buf[s]))
    IN  rcv_queue[s] \o RunOf(rcv_buf[s], rcv_nxt[s], n)
Got(s) ==
    Len(delivered[s]) + Cardinality({i \in DOMAIN InOrder(s) : InOrder(s)[i].frg = 0})

(* What was output goes to the network, which loses some of it. *)
Transmit(s, kept) ==
    /\ Cardinality(net[Peer(s)] \cup kept) <= MaxNet[Peer(s)]
    /\ net' = [net EXCEPT ![Peer(s)] = @ \cup kept]

KcpFlush(s, late, expires, kept) ==
    /\ kept \subseteq Output(s, late, expires)
    /\ Transmit(s, kept)
    /\ acklist' = [acklist EXCEPT ![s] = {}]
    /\ probing' = [probing EXCEPT ![s] = rmt_wnd[s] = 0]
    /\ probe' = [probe EXCEPT ![s] = {}]
    /\ snd_queue' = [snd_queue EXCEPT ![s] = SubSeq(@, Moves(s) + 1, Len(@))]
    /\ snd_buf' = [snd_buf EXCEPT
          ![s] = AfterSend(Buffered(s), late)]
    /\ snd_nxt' = [snd_nxt EXCEPT ![s] = Plus(@, Moves(s))]
    /\ offered' = [offered EXCEPT ![s] = Len(given[s])]
    /\ promised' = [promised EXCEPT ![s] = Got(s)]
    /\ UNCHANGED <<snd_una, rmt_wnd, rcv_nxt, rcv_buf, rcv_queue, given, delivered>>

Sns(s) == {snd_buf[s][i].sn : i \in DOMAIN snd_buf[s]}

Flush(s) ==
    \E late \in SUBSET Sns(s), expires \in {FALSE, probing[s]} :
        \E kept \in SUBSET Output(s, late, expires) :
            KcpFlush(s, late, expires, kept)

Next ==
    \E s \in End :
        \/ \E count \in Counts : KcpSend(s, count)
        \/ KcpRecv(s)
        \/ \E seg \in net[s], keep \in BOOLEAN : Arrive(s, seg, keep)
        \/ Flush(s)

Spec == Init /\ [][Next]_vars

(* ikcp_waitsnd *)
WaitSnd(s) == Len(snd_buf[s]) + Len(snd_queue[s])

(***************************************************************************)
(* Fairness.  The session is updated every few milliseconds, so its loop   *)
(* flushes with every timer expired sooner or later, and reads what it can *)
(* (KcpuvSess.cc:508); the network may lose most of what it is given, but  *)
(* of the flushes that output something it loses not all for ever.         *)
(***************************************************************************)
FlushThrough(s) ==
    LET late == Sns(s)
        out == Output(s, late, TRUE)
    IN  \E kept \in IF out = {} THEN {{}} ELSE {{seg} : seg \in out} :
            KcpFlush(s, late, TRUE, kept)

Fairness ==
    \A s \in End :
        /\ WF_vars(KcpRecv(s))
        /\ WF_vars(\E seg \in net[s] : Arrive(s, seg, FALSE))
        /\ SF_vars(FlushThrough(s))

FairSpec == Spec /\ Fairness

(***************************************************************************)
(* Safety.                                                                 *)
(***************************************************************************)

(* Fragments are merged into the messages they were cut from, each message *)
(* once and in the order it was given to ikcp_send, across the wrap of the *)
(* sequence numbers and whatever is lost, duplicated or reordered.         *)
InOrderDelivery ==
    \A s \in End : \A m \in DOMAIN delivered[s] :
        /\ m \in DOMAIN given[Peer(s)]
        /\ delivered[s][m] = Fragments(m, given[Peer(s)][m].count)

(* Neither end holds more than its window, although the announcements of   *)
(* it may arrive late and out of order ("must >= max fragment size",       *)
(* ikcp_wndsize): what does not fit in rcv_queue waits in rcv_buf, and     *)
(* what does not fit there is refused.                                     *)
WindowKept ==
    \A s \in End :
        /\ Len(rcv_queue[s]) <= RcvWnd
        /\ \A seg \in rcv_buf[s] : Diff(seg.sn, rcv_nxt[s]) \in 0..(RcvWnd - 1)
        /\ Len(snd_buf[s]) <= SndWnd

(* The conversation that module Session builds on: how far each counter of *)
(* KcpLink has advanced.  A message is acknowledged to its sender once its *)
(* last fragment has left snd_buf and snd_queue.                           *)
Acked(s) ==
    IF WaitSnd(s) = 0 THEN Len(given[s])
    ELSE (IF snd_buf[s] # <<>> THEN Head(snd_buf[s]).frag ELSE Head(snd_queue[s])).msg - 1

Link == INSTANCE KcpLink WITH
    sent <- [s \in End |-> [m \in DOMAIN given[s] |-> "push"]],
    flushed <- offered,
    got <- [s \in End |-> Got(s)],
    read <- [s \in End |-> Len(delivered[s])],
    ackSent <- promised,
    acked <- [s \in End |-> Acked(s)]

(* Two control blocks and the network implement the link: what a sender    *)
(* drops as acknowledged is held by its peer and was promised in a flush,  *)
(* nothing arrives that was not flushed, no counter ever goes back.        *)
ImplementsLink == Link!LinkSpec

(* ikcp_recv succeeds exactly when a message is held that it has not yet   *)
(* returned: no message is too long for the window to complete it, and no  *)
(* part of one is taken for the whole (ikcp_peeksize).                     *)
RecvComplete == \A s \in End : CanPeek(s) <=> Link!CanRecv(s)

(***************************************************************************)
(* Liveness.                                                               *)
(***************************************************************************)

(* However much is lost, whatever was given is read by the peer and known  *)
(* to be (ikcp_waitsnd = 0), also after the window was closed and the      *)
(* announcement that it opened was lost, and after an acknowledgement was. *)
Drained(s) == WaitSnd(s) = 0 /\ Len(given[s]) = Len(delivered[Peer(s)])

Drains == []<>(\A s \in End : Drained(s))
============================================================================
