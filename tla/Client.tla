------------------------------- MODULE Client -------------------------------
(***************************************************************************)
(* The client process of nysocks: createClient of node/src/index.js, which *)
(* keeps one manager (createClient of socket_manager.js) and one proxy     *)
(* server, and replaces both when the beats of the server stop, when the   *)
(* address of the machine changes or when the machine wakes up             *)
(* (network_monitor.js).                                                   *)
(*                                                                         *)
(* JavaScript runs one callback at a time and drains its promises before   *)
(* the next one, so an action is a callback with the .then() it releases.  *)
(* Each call of recreate() starts an attempt; attempts are numbered.       *)
(***************************************************************************)
EXTENDS Naturals, Sequences

CONSTANTS
    MaxIp,          \* the addresses of the machine are 1..MaxIp, 0 stands for null
    MaxMoves,       \* bound: changes of the address
    MaxWakes,       \* bound: how often the machine sleeps and wakes up
    MaxLosses,      \* bound: how often the beats stop for TOTAL_TIMEOUT
    Lookup,         \* serverAddr is a name, which dns.lookup has to resolve
    PromptClose     \* the connections of a proxy server that closes end before
                    \* the monitor or the beat timer fires again

ASSUME ClientBounds ==
    MaxIp \in Nat /\ MaxMoves \in Nat /\ MaxWakes \in Nat /\ MaxLosses \in Nat
ASSUME ClientFlags == Lookup \in BOOLEAN /\ PromptClose \in BOOLEAN

DISCONNECTED == 0
CONNECTING   == 1
CONNECTED    == 2

VARIABLES
    connectState,   \* currentClients.connectState
    managerClient,  \* currentClients.managerClient: its attempt, or 0 for null
    proxyClient,    \* currentClients.proxyClient, likewise
    attempt,        \* attempt[i]: how far createClientInstance got, and the state
                    \* of its manager and of its proxy server
    ip,             \* networkMonitor.ip
    known,          \* the address of the server is in IP_CACHE
    process,        \* "up", or the uncaught error that ended the process
    \* environment
    os,             \* the address of the machine
    moves, wakes, losses

env == <<os, moves, wakes, losses>>
vars == <<connectState, managerClient, proxyClient, attempt, ip,
          known, process, env>>

Num == DOMAIN attempt

Stages == {"scheduled", "looking", "asking", "connected", "lost", "freed"}
ProxyStates == {"none", "listening", "closing", "closed"}

Attempts == [stage : Stages, proxy : ProxyStates]

TypeOK ==
    /\ connectState \in {DISCONNECTED, CONNECTING, CONNECTED}
    /\ attempt \in Seq(Attempts)
    /\ managerClient \in Num \cup {0}
    /\ proxyClient \in Num \cup {0}
    /\ ip \in 0..MaxIp
    /\ known \in BOOLEAN
    /\ process \in {"up", "noAddress", "portTaken"}
    /\ os \in 0..MaxIp
    /\ moves \in 0..MaxMoves /\ wakes \in 0..MaxWakes /\ losses \in 0..MaxLosses

Scheduled == [stage |-> "scheduled", proxy |-> "none"]

(* createClient creates the monitor and calls recreate() once. *)
Init ==
    /\ os \in 0..MaxIp
    /\ ip = os
    /\ connectState = CONNECTING
    /\ managerClient = 0 /\ proxyClient = 0
    /\ attempt = <<Scheduled>>
    /\ known = FALSE
    /\ process = "up"
    /\ moves = 0 /\ wakes = 0 /\ losses = 0

(***************************************************************************)
(* recreate and free.                                                      *)
(***************************************************************************)

(* recreate() adds an attempt to atts, if the monitor knows an address.    *)
TryRecreate(atts, newIp) ==
    IF newIp = 0
       THEN attempt' = atts /\ UNCHANGED connectState
       ELSE attempt' = Append(atts, Scheduled) /\ connectState' = CONNECTING

(* free() with nothing to free resolves at once.                           *)
FreeNothing(atts, newIp) ==
    /\ connectState = DISCONNECTED
    /\ TryRecreate(atts, newIp)
    /\ UNCHANGED <<managerClient, proxyClient>>

(* Mutants: a stage of the proxy for the manager; the timers stay armed. *)
MutFreed(i, att) ==
    [stage |-> IF i = managerClient THEN "closing" ELSE att.stage,
     proxy |-> IF i = proxyClient THEN "closing" ELSE att.proxy]

MutFreedBeats(i, att) ==
    [att EXCEPT !.proxy = IF i = proxyClient THEN "closing" ELSE @]

(* Otherwise it frees the manager, whose beat timers are cleared, and      *)
(* resolves when the last connection of the proxy server has ended.        *)
(* Without a proxy server it never resolves.                               *)
Freed(i, att) ==
    [stage |-> IF i = managerClient THEN "freed" ELSE att.stage,
     proxy |-> IF i = proxyClient THEN "closing" ELSE att.proxy]

FreeCurrent(atts) ==
    /\ connectState # DISCONNECTED
    /\ connectState' = DISCONNECTED
    /\ attempt' = [i \in DOMAIN atts |-> Freed(i, atts[i])]
    /\ managerClient' = 0 /\ proxyClient' = 0

CloseAndTryRecreate(atts, newIp) == FreeNothing(atts, newIp) \/ FreeCurrent(atts)

Closing(i) == attempt[i].proxy = "closing"
Listens(i) == attempt[i].proxy = "listening"
Settled == PromptClose => \A i \in Num : ~Closing(i)

(***************************************************************************)
(* An attempt.                                                             *)
(***************************************************************************)

(* The timer of recreate(): an address not in the cache is looked up.      *)
Start(i) ==
    /\ attempt[i].stage = "scheduled"
    /\ attempt' = [attempt EXCEPT ![i].stage = IF Lookup /\ ~known THEN "looking" ELSE "asking"]
    /\ UNCHANGED <<connectState, managerClient, proxyClient, ip, known,
                   process, env>>

(* dns.lookup answers; the master mux is created and asks for the ports.   *)
Resolved(i) ==
    /\ attempt[i].stage = "looking"
    /\ os # 0
    /\ attempt' = [attempt EXCEPT ![i].stage = "asking"]
    /\ known' = TRUE
    /\ UNCHANGED <<connectState, managerClient, proxyClient, ip, process, env>>

(* It fails: the error is thrown from a timer, where nobody catches it.    *)
LookupFails(i) ==
    /\ attempt[i].stage = "looking"
    /\ process' = "noAddress"
    /\ UNCHANGED <<connectState, managerClient, proxyClient, attempt, ip,
                   known, env>>

(* The ports arrive: beats start, the muxes of the pool are created and    *)
(* the proxy server listens.  A port that is taken is an uncaught error.   *)
Connected(i) ==
    /\ attempt[i].stage = "asking"
    /\ os # 0
    /\ attempt' = [attempt EXCEPT ![i] = [stage |-> "connected", proxy |-> "listening"]]
    /\ connectState' = CONNECTED
    /\ managerClient' = i /\ proxyClient' = i
    /\ process' = IF \E j \in Num : Listens(j) THEN "portTaken" ELSE process
    /\ UNCHANGED <<ip, known, env>>

(***************************************************************************)
(* What replaces a client.                                                 *)
(***************************************************************************)

(* The last connection of a closing proxy server has ended: free()         *)
(* resolves.                                                               *)
ProxyClosed(i) ==
    /\ Closing(i)
    /\ TryRecreate([attempt EXCEPT ![i].proxy = "closed"], ip)
    /\ UNCHANGED <<managerClient, proxyClient, ip, known, process, env>>

(* No beat came for TOTAL_TIMEOUT: the manager of attempt i emits 'close'. *)
BeatTimeout(i) ==
    /\ attempt[i].stage = "connected"
    /\ Settled
    /\ losses < MaxLosses
    /\ losses' = losses + 1
    /\ CloseAndTryRecreate([attempt EXCEPT ![i].stage = "lost"], ip)
    /\ UNCHANGED <<ip, known, process, os, moves, wakes>>

(* The callback of the monitor. *)
MonitorCalls == CloseAndTryRecreate(attempt, os)

(* Mutants: clients are replaced while connecting; only when connected. *)
MutMonitorNext ==
    IF os # 0 THEN MonitorCalls
    ELSE UNCHANGED <<connectState, managerClient, proxyClient, attempt>>

MutMonitorNextConnected ==
    IF os # 0 /\ connectState = CONNECTED THEN MonitorCalls
    ELSE UNCHANGED <<connectState, managerClient, proxyClient, attempt>>

MonitorNext ==
    IF os # 0 /\ connectState # CONNECTING THEN MonitorCalls
    ELSE UNCHANGED <<connectState, managerClient, proxyClient, attempt>>

(* The monitor's interval, when it finds another address.                  *)
MonitorMoved ==
    /\ Settled
    /\ ip # os
    /\ ip' = os
    /\ MonitorNext
    /\ UNCHANGED <<known, process, env>>

(* The monitor's interval, when the machine slept since the last one.      *)
MonitorWakes ==
    /\ Settled
    /\ wakes < MaxWakes
    /\ wakes' = wakes + 1
    /\ ip' = os
    /\ MonitorNext
    /\ UNCHANGED <<known, process, os, moves, losses>>

Move ==
    /\ moves < MaxMoves
    /\ moves' = moves + 1
    /\ os' \in (0..MaxIp) \ {os}
    /\ UNCHANGED <<connectState, managerClient, proxyClient, attempt, ip,
                   known, process, wakes, losses>>

Attempt(i) == Start(i) \/ Resolved(i) \/ LookupFails(i) \/ Connected(i)

Next ==
    /\ process = "up"
    /\ \/ \E i \in Num : Attempt(i) \/ ProxyClosed(i) \/ BeatTimeout(i)
       \/ MonitorMoved
       \/ MonitorWakes
       \/ Move

Spec == Init /\ [][Next]_vars

(***************************************************************************)
(* Timers fire, connections of a closing proxy end, and the server answers *)
(* a client that has a network.  Nothing forces beats to stop.             *)
(***************************************************************************)
Up(A) == process = "up" /\ A

Fairness ==
    /\ WF_vars(Up(MonitorMoved))
    /\ WF_vars(Up(\E i \in Num : Start(i)))
    /\ WF_vars(Up(\E i \in Num : Resolved(i)))
    /\ WF_vars(Up(\E i \in Num : Connected(i)))
    /\ WF_vars(Up(\E i \in Num : ProxyClosed(i)))

FairSpec == Spec /\ Fairness

(***************************************************************************)
(* Properties.                                                             *)
(***************************************************************************)
UnderWay(i) == attempt[i].stage \in {"scheduled", "looking", "asking"}

Live(i) == UnderWay(i) \/ attempt[i].stage = "connected"

(* At most one client exists or is being created: the monitor, the beats   *)
(* and the callback of a proxy server never start two (index.js:212-266).  *)
OneClient ==
    \A i, j \in Num : Live(i) /\ Live(j) => i = j

(* connectState and the two references say what there is: every manager    *)
(* whose beats run can be freed, and every server that listens closed      *)
(* (currentClients, index.js:178-185).                                     *)
ConnectingMatches == connectState = CONNECTING <=> \E i \in Num : UnderWay(i)
ConnectedMatches == connectState = CONNECTED <=> managerClient # 0
ClientsMatch ==
    \A i \in Num :
        /\ attempt[i].stage = "connected" <=> managerClient = i
        /\ Listens(i) <=> proxyClient = i

StateMatches == ConnectingMatches /\ ConnectedMatches /\ ClientsMatch

(* A proxy server that is opened finds the port released: "wait for fd     *)
(* released to avoid errors" (index.js:216).                               *)
FdReleased == process # "portTaken"

(* With a network that stays, the client is connected again and again.     *)
Reconnects ==
    <>[](os # 0) => []<>(connectState = CONNECTED \/ process # "up")
============================================================================
