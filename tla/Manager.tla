------------------------------ MODULE Manager ------------------------------
(***************************************************************************)
(* The server process behind its router (router.js, createServerRouter of  *)
(* index.js), the managers it creates, one per client address, and the     *)
(* managers of the clients: node/src/socket_manager.js at both ends.       *)
(*                                                                         *)
(* A manager is a master mux, through which a client asks for the ports of *)
(* a pool of muxes, and that pool.  Beats on the master mux tell each end  *)
(* that the other is there.  A mux is open, closing (its session exchanges *)
(* FIN and FIN_ACK) or closed: deleted, with its session (module Mux).     *)
(***************************************************************************)
EXTENDS Naturals, Sequences

CONSTANTS
    Client,         \* calls of createClient
    Addr,           \* address and port of a master session, the key of the router
    SocketAmount,   \* muxes of a pool
    MaxManagers,    \* bound: managers the server creates
    MaxLosses       \* bound: how often beats are lost for TOTAL_TIMEOUT

ASSUME ManagerBounds ==
    SocketAmount \in Nat /\ MaxManagers \in Nat /\ MaxLosses \in Nat

Master == 0
Conns == 1..SocketAmount
Muxes == {Master} \cup Conns

MuxStates == {"none", "open", "closing", "closed"}
Stages == {"idle", "asking", "connected", "freed", "gone"}
Phases == {"waiting", "serving", "freed"}

VARIABLES
    stage,          \* stage[c]: how far createClient got, or "gone": it crashed
    addr,           \* addr[c]: the address of its master session
    cmux,           \* cmux[c]: its muxes
    manager,        \* the managers of the server, in the order of their creation
    router,         \* managerMaps: router[a] is the manager of a, or 0
    losses

vars == <<stage, addr, cmux, manager, router, losses>>

(* A manager: peer is the set of the client that started it, or empty,     *)
(* remained is remainedSockets, reported says that onClose was called.     *)
Managers == [key : Addr, peer : SUBSET Client, phase : Phases,
             mux : [Muxes -> MuxStates], remained : 0..(SocketAmount + 1),
             reported : BOOLEAN]

Num == DOMAIN manager

TypeOK ==
    /\ stage \in [Client -> Stages]
    /\ addr \in [Client -> Addr]
    /\ cmux \in [Client -> [Muxes -> MuxStates]]
    /\ manager \in Seq(Managers)
    /\ Len(manager) <= MaxManagers
    /\ router \in [Addr -> 0..MaxManagers]
    /\ losses \in 0..MaxLosses

Init ==
    /\ stage = [c \in Client |-> "idle"]
    /\ addr \in [Client -> Addr]
    /\ cmux = [c \in Client |-> [k \in Muxes |-> "none"]]
    /\ manager = <<>>
    /\ router = [a \in Addr |-> 0]
    /\ losses = 0

OnlyMaster == [k \in Muxes |-> IF k = Master THEN "open" ELSE "none"]
AllOpen(mux) == [k \in Muxes |-> IF k = Master THEN mux[k] ELSE "open"]

(* Mutant: the master mux is forgotten. *)
MutCloseAll(mux) == [k \in Muxes |-> IF mux[k] = "open" /\ k # Master THEN "closing" ELSE mux[k]]

(* muxClose of every mux; it ignores one that has closed. *)
CloseAll(mux) == [k \in Muxes |-> IF mux[k] = "open" THEN "closing" ELSE mux[k]]

Serves(m, c) == c \in manager[m].peer

(***************************************************************************)
(* The client.                                                             *)
(***************************************************************************)

(* createClient: its master session is bound to a port that is free.       *)
CreateClient(c) ==
    /\ stage[c] = "idle"
    /\ \A d \in Client \ {c} : addr[d] = addr[c] => cmux[d][Master] \notin {"open", "closing"}
    /\ stage' = [stage EXCEPT ![c] = "asking"]
    /\ cmux' = [cmux EXCEPT ![c] = OnlyMaster]
    /\ UNCHANGED <<addr, manager, router, losses>>

(* The ports arrive: the client creates its pool and starts to beat.       *)
PortsArrive(c) ==
    /\ stage[c] = "asking"
    /\ \E m \in Num : Serves(m, c)
    /\ stage' = [stage EXCEPT ![c] = "connected"]
    /\ cmux' = [cmux EXCEPT ![c] = AllOpen(@)]
    /\ UNCHANGED <<addr, manager, router, losses>>

(* freeManager(managerClient), which has no onClose. *)
FreeClient(c) ==
    /\ stage[c] = "connected"
    /\ stage' = [stage EXCEPT ![c] = "freed"]
    /\ cmux' = [cmux EXCEPT ![c] = CloseAll(@)]
    /\ UNCHANGED <<addr, manager, router>>

(* Module Client calls it when the address changes or the machine wakes.   *)
Replaced(c) == FreeClient(c) /\ UNCHANGED losses

(* The process ends without a FIN. *)
Crash(c) ==
    /\ stage[c] \in {"asking", "connected", "freed"}
    /\ stage' = [stage EXCEPT ![c] = "gone"]
    /\ cmux' = [cmux EXCEPT ![c] = [k \in Muxes |-> IF @[k] = "none" THEN "none" ELSE "closed"]]
    /\ UNCHANGED <<addr, manager, router, losses>>

(***************************************************************************)
(* The router and its managers.                                            *)
(***************************************************************************)

(* Mutant: the router does not look for an entry. *)
MutCreateManager(c) ==
    /\ stage[c] # "idle"
    /\ Len(manager) < MaxManagers
    /\ manager' = Append(manager,
                    [key |-> addr[c], peer |-> {}, phase |-> "waiting",
                     mux |-> OnlyMaster, remained |-> 0, reported |-> FALSE])
    /\ router' = [router EXCEPT ![addr[c]] = Len(manager) + 1]
    /\ UNCHANGED <<stage, addr, cmux, losses>>

(* A datagram of c, new or delayed, has an address without an entry.       *)
CreateManager(c) ==
    /\ stage[c] # "idle"
    /\ router[addr[c]] = 0
    /\ Len(manager) < MaxManagers
    /\ manager' = Append(manager,
                    [key |-> addr[c], peer |-> {}, phase |-> "waiting",
                     mux |-> OnlyMaster, remained |-> 0, reported |-> FALSE])
    /\ router' = [router EXCEPT ![addr[c]] = Len(manager) + 1]
    /\ UNCHANGED <<stage, addr, cmux, losses>>

(* The start message of c arrives: the pool is created, the ports are sent *)
(* and the beats start.  What an earlier manager read is not sent again.   *)
Start(m, c) ==
    /\ manager[m].phase = "waiting"
    /\ stage[c] # "idle" /\ addr[c] = manager[m].key
    /\ router[addr[c]] = m
    /\ \A n \in Num : ~Serves(n, c)
    /\ manager' = [manager EXCEPT ![m].phase = "serving", ![m].peer = {c},
                                  ![m].mux = AllOpen(@)]
    /\ UNCHANGED <<stage, addr, cmux, router, losses>>

(* Mutants of freeManager: the master mux is not counted, or twice. *)
MutFreeManager(m) ==
    /\ manager[m].phase = "serving"
    /\ manager' = [manager EXCEPT ![m].phase = "freed", ![m].mux = CloseAll(@),
                                  ![m].remained = SocketAmount]
    /\ UNCHANGED <<stage, addr, cmux, router>>

MutFreeManagerTwice(m) ==
    /\ manager[m].phase = "serving"
    /\ manager' = [manager EXCEPT ![m].phase = "freed", ![m].mux = CloseAll(@),
                                  ![m].remained = SocketAmount + 2]
    /\ UNCHANGED <<stage, addr, cmux, router>>

(* freeManager(manager), when its beats stop. *)
FreeManager(m) ==
    /\ manager[m].phase = "serving"
    /\ manager' = [manager EXCEPT ![m].phase = "freed", ![m].mux = CloseAll(@),
                                  ![m].remained = SocketAmount + 1]
    /\ UNCHANGED <<stage, addr, cmux, router>>

(* A mux of a manager closes.  Only when the manager was freed before does *)
(* anybody listen; after the last one onClose deletes the router's entry.  *)
(* (It frees the manager again, whose muxes have all closed by then.)      *)
ServerMuxCloses(m, k) ==
    LET mgr  == manager[m]
        last == mgr.phase = "freed" /\ mgr.remained = 1
    IN
    /\ mgr.mux[k] = "closing"
    /\ manager' = [manager EXCEPT ![m].mux[k] = "closed",
                                  ![m].remained = IF mgr.phase = "freed" THEN @ - 1 ELSE @,
                                  ![m].reported = @ \/ last]
    /\ router' = IF last THEN [router EXCEPT ![mgr.key] = 0] ELSE router
    /\ UNCHANGED <<stage, addr, cmux, losses>>

ClientMuxCloses(c, k) ==
    /\ cmux[c][k] = "closing"
    /\ cmux' = [cmux EXCEPT ![c][k] = "closed"]
    /\ UNCHANGED <<stage, addr, manager, router, losses>>

(***************************************************************************)
(* What one end learns of the other.                                       *)
(***************************************************************************)

(* The FIN of a freed client reaches mux k of its manager, that of the     *)
(* master through the router.                                              *)
FinReachesServer(m, k) ==
    /\ \E c \in manager[m].peer : stage[c] = "freed"
    /\ manager[m].mux[k] = "open"
    /\ k = Master => router[manager[m].key] = m
    /\ manager' = [manager EXCEPT ![m].mux[k] = "closing"]
    /\ UNCHANGED <<stage, addr, cmux, router, losses>>

FinReachesClient(c, k) ==
    /\ cmux[c][k] = "open" /\ stage[c] = "connected"
    /\ \E m \in Num : Serves(m, c) /\ manager[m].phase = "freed"
    /\ cmux' = [cmux EXCEPT ![c][k] = "closing"]
    /\ UNCHANGED <<stage, addr, manager, router, losses>>

(* Beats travel while both ends beat on an open master mux.                *)
Beating(m, c) ==
    /\ stage[c] = "connected" /\ cmux[c][Master] = "open"
    /\ Serves(m, c) /\ manager[m].phase = "serving"
    /\ manager[m].mux[Master] = "open"

(* Mutants: the timer is only for a crash; it waits for the mux to close. *)
MutServerSilence(m) ==
    /\ \A c \in manager[m].peer : stage[c] = "gone"
    /\ FreeManager(m)
    /\ UNCHANGED losses

MutClientSilence(c) ==
    /\ cmux[c][Master] = "closed"
    /\ FreeClient(c)
    /\ UNCHANGED losses

(* The timer of initBeat, when the other end has stopped, ...              *)
ServerSilence(m) ==
    /\ \A c \in manager[m].peer : ~Beating(m, c) /\ stage[c] # "asking"
    /\ FreeManager(m)
    /\ UNCHANGED losses

ClientSilence(c) ==
    /\ \A m \in Num : ~Beating(m, c)
    /\ FreeClient(c)
    /\ UNCHANGED losses

(* ... and when the network loses beats, or ports, for as long.            *)
Lost == losses < MaxLosses /\ losses' = losses + 1

ServerLoses(m) == Lost /\ FreeManager(m)
ClientLoses(c) == Lost /\ FreeClient(c)

OfClient(c) ==
    \/ CreateClient(c) \/ PortsArrive(c) \/ Replaced(c) \/ Crash(c)
    \/ ClientSilence(c) \/ ClientLoses(c)
    \/ \E k \in Muxes : ClientMuxCloses(c, k) \/ FinReachesClient(c, k)

OfManager(m) ==
    \/ \E c \in Client : Start(m, c)
    \/ ServerSilence(m) \/ ServerLoses(m)
    \/ \E k \in Muxes : ServerMuxCloses(m, k) \/ FinReachesServer(m, k)

Next ==
    \/ \E c \in Client : OfClient(c) \/ CreateManager(c)
    \/ \E m \in Num : OfManager(m)

Spec == Init /\ [][Next]_vars

(***************************************************************************)
(* Timers fire and closing muxes close, by their FIN_ACK or their timer.   *)
(* No datagram, no FIN, is sure to arrive.                                 *)
(***************************************************************************)
Fairness ==
    /\ \A m \in 1..MaxManagers :
          /\ WF_vars(m \in Num /\ ServerSilence(m))
          /\ \A k \in Muxes : WF_vars(m \in Num /\ ServerMuxCloses(m, k))
    /\ \A c \in Client :
          /\ WF_vars(ClientSilence(c))
          /\ \A k \in Muxes : WF_vars(ClientMuxCloses(c, k))

FairSpec == Spec /\ Fairness

(***************************************************************************)
(* Properties.                                                             *)
(***************************************************************************)

(* A manager that has not reported its end is the one the router has for   *)
(* its address: a datagram never creates a second one beside it, and the   *)
(* late end of a manager never deletes the entry of another                *)
(* (router.js:34-60, index.js:348-350).                                    *)
RouterKnows == \A m \in Num : ~manager[m].reported => router[manager[m].key] = m

(* onClose is called when every mux of the manager has closed, the master  *)
(* included (tryTriggerClose, socket_manager.js:138-145).                  *)
Closed(m) == \A k \in Muxes : manager[m].mux[k] = "closed"
ReportsWhenClosed == \A m \in Num : manager[m].reported => Closed(m)

(* A manager whose client was freed or crashed closes its muxes, whatever  *)
(* the client could still tell it (initBeat, socket_manager.js:84-116).    *)
Reclaims ==
    \A m \in 1..MaxManagers :
        (/\ m \in Num
         /\ manager[m].phase = "serving"
         /\ \A c \in manager[m].peer : stage[c] \in {"freed", "gone"})
            ~> (m \in Num /\ Closed(m))

(* A client whose manager was freed is freed, and can be recreated.        *)
ClientLearns ==
    \A c \in Client :
        (stage[c] = "connected" /\ \E m \in Num : Serves(m, c) /\ manager[m].phase = "freed")
            ~> stage[c] # "connected"

(* A manager that was freed calls onClose in the end, so that the router   *)
(* forgets it (freeManager and createServerRouter, index.js:348-350).      *)
CloseReported ==
    \A m \in 1..MaxManagers :
        (m \in Num /\ manager[m].phase = "freed") ~> (m \in Num /\ manager[m].reported)
============================================================================
