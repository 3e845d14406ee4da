------------------------------ MODULE KcpLink ------------------------------
(***************************************************************************)
(* What one KCP conversation (lib/kcp/ikcp.c) promises to the two          *)
(* KcpuvSess objects that share it: a reliable, ordered stream of messages *)
(* in each direction, acknowledged to the sender.  Datagrams may be lost,  *)
(* duplicated and reordered below this interface; what is seen above it is *)
(* only how far each counter has advanced.                                 *)
(*                                                                         *)
(* Each operator constrains the variables it changes and no others, so a   *)
(* step of a session can combine several of them.                          *)
(***************************************************************************)
EXTENDS Naturals, Sequences

CONSTANTS A, B            \* the two ends of the conversation

ASSUME EndsDiffer == A # B

End == {A, B}
Peer(s) == IF s = A THEN B ELSE A

(* The commands a session sends through kcp (kcpuv.h). *)
Cmd == {"push", "noo", "fin", "finack"}

VARIABLES
    sent,       \* sent[s]:    messages s gave to ikcp_send, in order
    flushed,    \* flushed[s]: how many of them ikcp_flush has output
    got,        \* got[s]:     how many messages of its peer s's kcp holds in order
    read,       \* read[s]:    how many of those ikcp_recv has returned
    ackSent,    \* ackSent[s]: the highest una that s's kcp has output
    acked       \* acked[s]:   how many of its own messages s knows to be received

linkVars == <<sent, flushed, got, read, ackSent, acked>>

LinkTypeOK ==
    /\ sent \in [End -> Seq(Cmd)]
    /\ flushed \in [End -> Nat]
    /\ got \in [End -> Nat]
    /\ read \in [End -> Nat]
    /\ ackSent \in [End -> Nat]
    /\ acked \in [End -> Nat]

LinkInit ==
    /\ sent = [s \in End |-> <<>>]
    /\ flushed = [s \in End |-> 0]
    /\ got = [s \in End |-> 0]
    /\ read = [s \in End |-> 0]
    /\ ackSent = [s \in End |-> 0]
    /\ acked = [s \in End |-> 0]

(* ikcp_send: the message joins snd_queue. *)
LinkSend(s, cmd) == sent' = [sent EXCEPT ![s] = Append(@, cmd)]

(* ikcp_flush: acknowledgements first, then every segment the window takes. *)
LinkFlush(s) ==
    /\ flushed' = [flushed EXCEPT ![s] = Len(sent[s])]
    /\ ackSent' = [ackSent EXCEPT ![s] = got[s]]

(* ikcp_input: a datagram that lets s hold its peer's first g messages and *)
(* tells it that its own first a messages have been received.              *)
LinkInput(s, g, a) ==
    /\ got' = [got EXCEPT ![s] = g]
    /\ acked' = [acked EXCEPT ![s] = a]

(* ikcp_recv returns a message, and which one; it fails when none is held. *)
CanRecv(s) == read[s] < got[s]
NextMsg(s) == sent[Peer(s)][read[s] + 1]
LinkRecv(s) == read' = [read EXCEPT ![s] = @ + 1]

(* ikcp_waitsnd(s) = 0: nothing unacknowledged and nothing queued. *)
AllAcked(s) == acked[s] = Len(sent[s])

(* The conversation alone, whatever its users do: what module Kcp is shown *)
(* to implement and module Session builds on.                              *)
LinkNext ==
    \E s \in End :
        \/ /\ UNCHANGED <<flushed, got, read, ackSent, acked>>
           /\ \E cmd \in Cmd : LinkSend(s, cmd)
        \/ /\ UNCHANGED <<sent, got, read, acked>>
           /\ LinkFlush(s)
        \/ /\ UNCHANGED <<sent, flushed, read, ackSent>>
           /\ \E g \in got[s]..flushed[Peer(s)], a \in acked[s]..ackSent[Peer(s)] :
                 LinkInput(s, g, a)
        \/ /\ UNCHANGED <<sent, flushed, got, ackSent, acked>>
           /\ CanRecv(s)
           /\ LinkRecv(s)

LinkSpec == LinkInit /\ [][LinkNext]_linkVars
============================================================================
