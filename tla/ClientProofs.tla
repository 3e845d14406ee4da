---------------------------- MODULE ClientProofs ----------------------------
(***************************************************************************)
(* Proofs about module Client: the types of its variables, and, when the   *)
(* connections of a proxy server that closes end before the monitor or the *)
(* beats look again (PromptClose), that there is one client at a time and  *)
(* that its proxy server finds its port released.                          *)
(***************************************************************************)
EXTENDS Client, SequenceTheorems, TLAPS

(* Three ways a callback changes the attempts: the stage of one of them,   *)
(* the proxy server of one of them, one more at the end.                   *)
LEMMA StageSet ==
  ASSUME NEW s \in Seq(Attempts), NEW i \in DOMAIN s, NEW st \in Stages
  PROVE  LET t == [s EXCEPT ![i].stage = st] IN
         /\ t \in Seq(Attempts)
         /\ DOMAIN t = DOMAIN s
         /\ \A j \in DOMAIN s : t[j].proxy = s[j].proxy
         /\ \A j \in DOMAIN s : j # i => t[j].stage = s[j].stage
         /\ t[i].stage = st
<1> DEFINE t == [s EXCEPT ![i].stage = st]
<1>1. t[i] = [s[i] EXCEPT !.stage = st] /\ s[i] \in Attempts
  OBVIOUS
<1>2. t[i] \in Attempts /\ t[i].stage = st /\ t[i].proxy = s[i].proxy
  BY <1>1 DEF Attempts
<1>3. \A j \in DOMAIN s : j # i => t[j] = s[j]
  OBVIOUS
<1>4. t \in Seq(Attempts)
  BY <1>2
<1> QED BY <1>2, <1>3, <1>4

LEMMA ProxySet ==
  ASSUME NEW s \in Seq(Attempts), NEW i \in DOMAIN s, NEW px \in ProxyStates
  PROVE  LET t == [s EXCEPT ![i].proxy = px] IN
         /\ t \in Seq(Attempts)
         /\ DOMAIN t = DOMAIN s
         /\ \A j \in DOMAIN s : t[j].stage = s[j].stage
         /\ \A j \in DOMAIN s : j # i => t[j].proxy = s[j].proxy
         /\ t[i].proxy = px
<1> DEFINE t == [s EXCEPT ![i].proxy = px]
<1>1. t[i] = [s[i] EXCEPT !.proxy = px] /\ s[i] \in Attempts
  OBVIOUS
<1>2. t[i] \in Attempts /\ t[i].proxy = px /\ t[i].stage = s[i].stage
  BY <1>1 DEF Attempts
<1>3. \A j \in DOMAIN s : j # i => t[j] = s[j]
  OBVIOUS
<1>4. t \in Seq(Attempts)
  BY <1>2
<1> QED BY <1>2, <1>3, <1>4

LEMMA OneMoreAttempt ==
  ASSUME NEW s \in Seq(Attempts)
  PROVE  LET t == Append(s, Scheduled) IN
         /\ t \in Seq(Attempts)
         /\ DOMAIN t = DOMAIN s \cup {Len(s) + 1}
         /\ Len(s) + 1 \notin DOMAIN s
         /\ \A j \in DOMAIN s : t[j] = s[j]
         /\ t[Len(s) + 1] = Scheduled
<1>1. Scheduled \in Attempts
  BY DEF Scheduled, Attempts, Stages, ProxyStates
<1> QED BY <1>1

(* The invariant: besides what is claimed, the manager and the proxy       *)
(* server in use are of one attempt, and at most one proxy server is still *)
(* closing, while there is no client.                                      *)
OneClosing ==
    /\ managerClient = proxyClient
    /\ \A i \in Num : Closing(i) => connectState = DISCONNECTED
    /\ \A i, j \in Num : Closing(i) /\ Closing(j) => i = j

ClientInv == TypeOK /\ StateMatches /\ OneClient /\ OneClosing /\ FdReleased

LEMMA ClientInit == Init => ClientInv
<1> SUFFICES ASSUME Init PROVE ClientInv
  OBVIOUS
<1>1. attempt = <<Scheduled>> /\ Scheduled \in Attempts
  BY DEF Init, Scheduled, Attempts, Stages, ProxyStates
<1>2. attempt \in Seq(Attempts) /\ Num = {1} /\ attempt[1] = Scheduled
  BY <1>1 DEF Num
<1>3. TypeOK
  <2>1. moves \in 0..MaxMoves /\ wakes \in 0..MaxWakes /\ losses \in 0..MaxLosses
    BY ClientBounds DEF Init
  <2>2. ip \in 0..MaxIp /\ os \in 0..MaxIp /\ known \in BOOLEAN
    BY DEF Init
  <2>3. process \in {"up", "noAddress", "portTaken"}
    BY DEF Init
  <2>4. managerClient \in Num \cup {0} /\ proxyClient \in Num \cup {0}
    BY DEF Init
  <2>5. connectState \in {DISCONNECTED, CONNECTING, CONNECTED}
    BY DEF Init
  <2> QED BY <1>2, <2>1, <2>2, <2>3, <2>4, <2>5 DEF TypeOK
<1>4. UnderWay(1) /\ ~Listens(1) /\ ~Closing(1) /\ attempt[1].stage # "connected"
  BY <1>2 DEF Scheduled, UnderWay, Listens, Closing
<1>5. StateMatches
  BY <1>2, <1>4
     DEF Init, StateMatches, ConnectingMatches, ConnectedMatches, ClientsMatch,
         DISCONNECTED, CONNECTING, CONNECTED
<1>6. OneClient /\ OneClosing /\ FdReleased
  BY <1>2, <1>4 DEF Init, OneClient, OneClosing, FdReleased
<1> QED BY <1>3, <1>5, <1>6 DEF ClientInv

(* What free() finds while a client is connected: its manager and its      *)
(* proxy server are of one attempt, the only one alive.                    *)
LEMMA TheCurrent ==
  ASSUME ClientInv, connectState = CONNECTED
  PROVE  /\ managerClient \in Num
         /\ attempt[managerClient].stage = "connected"
         /\ \A i \in Num : i # managerClient => ~Live(i) /\ ~Listens(i)
         /\ \A i \in Num : ~Closing(i)
<1>1. managerClient \in Num /\ managerClient = proxyClient
  BY DEF ClientInv, TypeOK, StateMatches, ConnectingMatches, ConnectedMatches,
         ClientsMatch, OneClosing
<1>2. \A i \in Num : ~UnderWay(i)
  BY DEF ClientInv, StateMatches, ConnectingMatches, ConnectedMatches,
         ClientsMatch, CONNECTING, CONNECTED
<1>3. attempt[managerClient].stage = "connected"
  BY <1>1
     DEF ClientInv, StateMatches, ConnectingMatches, ConnectedMatches,
         ClientsMatch
<1>4. \A i \in Num : i # managerClient => attempt[i].stage # "connected" /\ ~Listens(i)
  BY <1>1
     DEF ClientInv, StateMatches, ConnectingMatches, ConnectedMatches,
         ClientsMatch
<1>5. \A i \in Num : ~Closing(i)
  BY DEF ClientInv, OneClosing, DISCONNECTED, CONNECTED
<1> QED BY <1>1, <1>2, <1>3, <1>4, <1>5 DEF Live

(* Without a client nothing is alive and nothing listens.                  *)
LEMMA NoCurrent ==
  ASSUME ClientInv, connectState # CONNECTED
  PROVE  /\ managerClient = 0 /\ proxyClient = 0
         /\ \A i \in Num : attempt[i].stage # "connected" /\ ~Listens(i)
         /\ connectState = DISCONNECTED => \A i \in Num : ~Live(i)
         /\ connectState = CONNECTING => \A i \in Num : ~Closing(i)
<1>1. managerClient = 0 /\ proxyClient = 0
  BY DEF ClientInv, StateMatches, ConnectingMatches, ConnectedMatches,
         ClientsMatch, OneClosing
<1>2. 0 \notin Num
  BY DEF ClientInv, TypeOK, Num
<1>3. \A i \in Num : attempt[i].stage # "connected" /\ ~Listens(i)
  BY <1>1, <1>2
     DEF ClientInv, StateMatches, ConnectingMatches, ConnectedMatches,
         ClientsMatch
<1>4. connectState = DISCONNECTED => \A i \in Num : ~UnderWay(i)
  BY DEF ClientInv, StateMatches, ConnectingMatches, ConnectedMatches,
         ClientsMatch, DISCONNECTED, CONNECTING
<1>5. connectState = CONNECTING => \A i \in Num : ~Closing(i)
  BY DEF ClientInv, OneClosing, DISCONNECTED, CONNECTING
<1> QED BY <1>1, <1>3, <1>4, <1>5 DEF Live

(* free() of the connected client.                                         *)
LEMMA FreesCurrent ==
  ASSUME ClientInv, connectState = CONNECTED, NEW atts \in Seq(Attempts),
         DOMAIN atts = Num,
         \A i \in Num : atts[i].proxy = attempt[i].proxy,
         \A i \in Num : i # managerClient => atts[i].stage = attempt[i].stage,
         FreeCurrent(atts), process' = process, process = "up",
         ip' \in 0..MaxIp, UNCHANGED <<known, os, moves>>,
         wakes' \in 0..MaxWakes, losses' \in 0..MaxLosses
  PROVE  ClientInv'
<1>0. PICK m \in Num : m = managerClient
  BY TheCurrent
<1>1. /\ m = proxyClient
      /\ \A i \in Num : i # m => ~Live(i) /\ ~Listens(i)
      /\ \A i \in Num : ~Closing(i)
  BY <1>0, TheCurrent DEF ClientInv, OneClosing
<1>2. attempt' = [i \in Num |-> Freed(i, atts[i])]
  BY DEF FreeCurrent
<1>3. \A i \in Num : i # m => /\ attempt'[i].stage = attempt[i].stage
                              /\ attempt'[i].proxy = attempt[i].proxy
  BY <1>0, <1>1, <1>2 DEF Freed
<1>4. attempt'[m].stage = "freed" /\ attempt'[m].proxy = "closing"
  BY <1>0, <1>1, <1>2 DEF Freed
<1>5. \A i \in Num : Freed(i, atts[i]) \in Attempts
  <2> SUFFICES ASSUME NEW i \in Num PROVE Freed(i, atts[i]) \in Attempts
    OBVIOUS
  <2>1. atts[i] \in Attempts
    OBVIOUS
  <2>2. atts[i].stage \in Stages /\ atts[i].proxy \in ProxyStates
    BY <2>1 DEF Attempts
  <2>3. (IF i = managerClient THEN "freed" ELSE atts[i].stage) \in Stages
    BY <2>2 DEF Stages
  <2>4. (IF i = proxyClient THEN "closing" ELSE atts[i].proxy) \in ProxyStates
    BY <2>2 DEF ProxyStates
  <2> QED BY <2>3, <2>4 DEF Freed, Attempts
<1>6. attempt' \in Seq(Attempts) /\ Num' = Num
  BY <1>2, <1>5 DEF Num
<1>7. connectState' = DISCONNECTED /\ managerClient' = 0 /\ proxyClient' = 0
  BY DEF FreeCurrent
<1>8. TypeOK'
  BY <1>6, <1>7 DEF ClientInv, TypeOK
<1>9. \A i \in Num : ~Live(i)' /\ ~Listens(i)'
  <2>1. \A i \in Num : i # m => ~Live(i)' /\ ~Listens(i)'
    BY <1>1, <1>3 DEF Live, UnderWay, Listens
  <2>2. ~Live(m)' /\ ~Listens(m)'
    BY <1>4 DEF Live, UnderWay, Listens
  <2> QED BY <2>1, <2>2
<1>10. \A i \in Num : Closing(i)' => i = m
  BY <1>1, <1>3 DEF Closing
<1>11. 0 \notin Num
  BY DEF ClientInv, TypeOK, Num
<1>12. StateMatches'
  BY <1>6, <1>7, <1>9, <1>11
     DEF StateMatches, ConnectingMatches, ConnectedMatches, ClientsMatch, Live,
         DISCONNECTED, CONNECTING, CONNECTED
<1>13. OneClient' /\ OneClosing' /\ FdReleased'
  BY <1>6, <1>7, <1>9, <1>10 DEF OneClient, OneClosing, FdReleased
<1> QED BY <1>8, <1>12, <1>13 DEF ClientInv

(* recreate() when there is no client.                                     *)
LEMMA Recreates ==
  ASSUME ClientInv, connectState = DISCONNECTED, NEW atts \in Seq(Attempts),
         DOMAIN atts = Num,
         \A i \in Num : atts[i].stage = attempt[i].stage,
         \A i \in Num : atts[i].proxy # "closing" /\ atts[i].proxy # "listening",
         NEW newIp, TryRecreate(atts, newIp),
         UNCHANGED <<managerClient, proxyClient, known, process, os, moves>>,
         process = "up", ip' \in 0..MaxIp,
         wakes' \in 0..MaxWakes, losses' \in 0..MaxLosses
  PROVE  ClientInv'
<1>1. /\ managerClient' = 0 /\ proxyClient' = 0
      /\ \A i \in Num : ~Live(i)
  BY NoCurrent DEF DISCONNECTED, CONNECTED
<1>2. 0 \notin Num
  BY DEF ClientInv, TypeOK, Num
<1>3. CASE newIp = 0
  <2>1. attempt' = atts /\ connectState' = DISCONNECTED
    BY <1>3, Zenon DEF TryRecreate
  <2>2. Num' = Num
    BY <2>1 DEF Num
  <2>3. TypeOK'
    BY <1>1, <2>1, <2>2 DEF ClientInv, TypeOK
  <2>4. \A i \in Num : ~Live(i)' /\ ~Listens(i)' /\ ~Closing(i)'
    BY <1>1, <2>1 DEF Live, UnderWay, Listens, Closing
  <2>5. StateMatches'
    BY <1>1, <1>2, <2>1, <2>2, <2>4
          DEF StateMatches, ConnectingMatches, ConnectedMatches, ClientsMatch,
              Live, DISCONNECTED, CONNECTING, CONNECTED
  <2>6. OneClient' /\ OneClosing' /\ FdReleased'
    BY <1>1, <2>1, <2>2, <2>4 DEF OneClient, OneClosing, FdReleased
  <2> QED BY <2>3, <2>5, <2>6 DEF ClientInv
<1>4. CASE newIp # 0
  <2>1. attempt' = Append(atts, Scheduled) /\ connectState' = CONNECTING
    BY <1>4, Zenon DEF TryRecreate
  <2>2. PICK n : n = Len(atts) + 1
    OBVIOUS
  <2>3. /\ attempt' \in Seq(Attempts)
        /\ Num' = Num \cup {n} /\ n \notin Num
        /\ \A i \in Num : attempt'[i] = atts[i]
        /\ attempt'[n] = Scheduled
    BY <2>1, <2>2, OneMoreAttempt DEF Num
  <2>4. TypeOK'
    BY <1>1, <2>1, <2>3 DEF ClientInv, TypeOK
  <2>5. \A i \in Num : ~Live(i)' /\ ~Listens(i)' /\ ~Closing(i)'
    BY <1>1, <2>3 DEF Live, UnderWay, Listens, Closing
  <2>6. /\ UnderWay(n)' /\ ~Listens(n)' /\ ~Closing(n)'
        /\ attempt'[n].stage # "connected" /\ n # 0
    <3>1. UnderWay(n)' /\ ~Listens(n)' /\ ~Closing(n)' /\ attempt'[n].stage # "connected"
      BY <2>3 DEF UnderWay, Listens, Closing, Scheduled
    <3>2. n # 0
      BY <2>2
    <3> QED BY <3>1, <3>2
  <2>7. StateMatches'
    <3>1. \E i \in Num' : UnderWay(i)'
      BY <2>3, <2>6
    <3>2. \A i \in Num' : attempt'[i].stage # "connected" /\ ~Listens(i)' /\ i # 0
      BY <1>2, <2>3, <2>5, <2>6 DEF Live
    <3>3. ConnectingMatches'
      BY <2>1, <3>1 DEF ConnectingMatches
    <3>4. ConnectedMatches'
      BY <1>1, <2>1 DEF ConnectedMatches, CONNECTING, CONNECTED
    <3>5. ClientsMatch'
      BY <1>1, <3>2 DEF ClientsMatch
    <3> QED BY <3>3, <3>4, <3>5 DEF StateMatches
  <2>8. OneClient'
    BY <2>3, <2>5 DEF OneClient
  <2>9. OneClosing' /\ FdReleased'
    BY <1>1, <2>3, <2>5, <2>6 DEF OneClosing, FdReleased
  <2> QED BY <2>4, <2>7, <2>8, <2>9 DEF ClientInv
<1> QED BY <1>3, <1>4

(* An attempt that goes on: a stage that is under way follows another.     *)
LEMMA GoesOn ==
  ASSUME ClientInv, NEW i \in Num, UnderWay(i),
         NEW st \in {"looking", "asking"},
         attempt' = [attempt EXCEPT ![i].stage = st], known' \in BOOLEAN,
         UNCHANGED <<connectState, managerClient, proxyClient, ip, process, env>>
  PROVE  ClientInv'
<1>1. attempt \in Seq(Attempts) /\ st \in Stages
  BY DEF ClientInv, TypeOK, Stages
<1>2. /\ attempt' \in Seq(Attempts) /\ Num' = Num
      /\ \A j \in Num : attempt'[j].proxy = attempt[j].proxy
      /\ \A j \in Num : j # i => attempt'[j].stage = attempt[j].stage
      /\ attempt'[i].stage = st
  BY <1>1, StageSet DEF Num
<1>3. /\ \A j \in Num : UnderWay(j)' <=> UnderWay(j)
      /\ \A j \in Num : attempt'[j].stage = "connected" <=> attempt[j].stage = "connected"
  BY <1>2 DEF UnderWay
<1>4. \A j \in Num : (Listens(j)' <=> Listens(j)) /\ (Closing(j)' <=> Closing(j))
  BY <1>2 DEF Listens, Closing
<1>5. TypeOK'
  BY <1>2 DEF ClientInv, TypeOK, env
<1>6. StateMatches'
  BY <1>2, <1>3, <1>4
     DEF ClientInv, StateMatches, ConnectingMatches, ConnectedMatches,
         ClientsMatch
<1>7. OneClient'
  BY <1>2, <1>3 DEF ClientInv, OneClient, Live
<1>8. OneClosing' /\ FdReleased'
  BY <1>2, <1>4 DEF ClientInv, OneClosing, FdReleased
<1> QED BY <1>5, <1>6, <1>7, <1>8 DEF ClientInv

(* The ports arrive: nothing else is alive, and no proxy server listens.   *)
LEMMA Connects ==
  ASSUME ClientInv, NEW i \in Num, Connected(i)
  PROVE  ClientInv'
<1>1. UnderWay(i) /\ connectState = CONNECTING
  BY DEF Connected, UnderWay, ClientInv, StateMatches, ConnectingMatches,
         ConnectedMatches, ClientsMatch
<1>2. /\ \A j \in Num : ~Listens(j) /\ ~Closing(j)
      /\ \A j \in Num : j # i => ~Live(j)
  BY <1>1, NoCurrent DEF ClientInv, OneClient, Live, CONNECTING, CONNECTED
<1>3. attempt' = [attempt EXCEPT ![i] = [stage |-> "connected", proxy |-> "listening"]]
  BY DEF Connected
<1>4. attempt \in Seq(Attempts) /\ [stage |-> "connected", proxy |-> "listening"] \in Attempts
  BY DEF ClientInv, TypeOK, Attempts, Stages, ProxyStates
<1>5. /\ attempt' \in Seq(Attempts) /\ Num' = Num
      /\ \A j \in Num : j # i => attempt'[j] = attempt[j]
      /\ attempt'[i] = [stage |-> "connected", proxy |-> "listening"]
  BY <1>3, <1>4 DEF Num
<1>6. process' = process
  BY <1>2, Zenon DEF Connected
<1>7. connectState' = CONNECTED /\ managerClient' = i /\ proxyClient' = i
  BY DEF Connected
<1>8. TypeOK'
  BY <1>5, <1>6, <1>7 DEF Connected, ClientInv, TypeOK, env
<1>9. /\ \A j \in Num : j # i => ~Live(j)' /\ ~Listens(j)'
      /\ \A j \in Num : ~Closing(j)' /\ ~UnderWay(j)'
      /\ Listens(i)' /\ attempt'[i].stage = "connected"
  BY <1>2, <1>5 DEF Live, UnderWay, Listens, Closing
<1>10. StateMatches'
  <2>1. ConnectingMatches'
    BY <1>5, <1>7, <1>9 DEF ConnectingMatches, CONNECTING, CONNECTED
  <2>2. ConnectedMatches'
    BY <1>7 DEF ConnectedMatches, ClientInv, TypeOK, Num
  <2>3. ClientsMatch'
    BY <1>5, <1>7, <1>9 DEF ClientsMatch, Live
  <2> QED BY <2>1, <2>2, <2>3 DEF StateMatches
<1>11. OneClient' /\ OneClosing' /\ FdReleased'
  BY <1>5, <1>6, <1>7, <1>9 DEF ClientInv, OneClient, OneClosing, FdReleased
<1> QED BY <1>8, <1>10, <1>11 DEF ClientInv

(* The callback of the monitor, called while no proxy server is closing.   *)
LEMMA MonitorFrees ==
  ASSUME ClientInv, MonitorNext, \A i \in Num : ~Closing(i), process = "up",
         UNCHANGED <<known, process, os, moves>>, ip' \in 0..MaxIp,
         wakes' \in 0..MaxWakes, losses' \in 0..MaxLosses
  PROVE  ClientInv'
<1>1. attempt \in Seq(Attempts) /\ connectState \in {DISCONNECTED, CONNECTING, CONNECTED}
  BY DEF ClientInv, TypeOK
<1>2. CASE os # 0 /\ connectState # CONNECTING
  <2>1. FreeNothing(attempt, os) \/ FreeCurrent(attempt)
    BY <1>2, Zenon DEF MonitorNext, MonitorCalls, CloseAndTryRecreate
  <2>2. CASE FreeNothing(attempt, os)
    <3>1. connectState = DISCONNECTED /\ TryRecreate(attempt, os)
          /\ UNCHANGED <<managerClient, proxyClient>>
      BY <2>2 DEF FreeNothing
    <3>2. \A i \in Num : attempt[i].proxy # "closing" /\ attempt[i].proxy # "listening"
      BY <3>1, NoCurrent DEF Closing, Listens, DISCONNECTED, CONNECTED
    <3> QED BY <1>1, <3>1, <3>2, Recreates DEF Num
  <2>3. CASE FreeCurrent(attempt)
    <3>1. connectState = CONNECTED
      BY <1>1, <1>2, <2>3 DEF FreeCurrent
    <3> QED BY <1>1, <2>3, <3>1, FreesCurrent DEF Num
  <2> QED BY <2>1, <2>2, <2>3
<1>3. CASE ~(os # 0 /\ connectState # CONNECTING)
  <2>1. UNCHANGED <<connectState, managerClient, proxyClient, attempt>>
    BY <1>3, Zenon DEF MonitorNext
  <2>2. TypeOK'
    BY <2>1 DEF ClientInv, TypeOK, Num
  <2>3. StateMatches' /\ OneClient' /\ OneClosing' /\ FdReleased'
    BY <2>1
       DEF ClientInv, StateMatches, ConnectingMatches, ConnectedMatches,
           ClientsMatch, OneClient, OneClosing, FdReleased, Num,
                UnderWay, Live, Listens, Closing
  <2> QED BY <2>2, <2>3 DEF ClientInv
<1> QED BY <1>2, <1>3

(***************************************************************************)
(* Every step preserves the invariant.  PromptClose is needed where the    *)
(* monitor fires while a proxy server is closing: free() would resolve at  *)
(* once, recreate() start, and the closing server start another.           *)
(***************************************************************************)
LEMMA Starts ==
  ASSUME ClientInv, NEW i \in Num, Start(i)
  PROVE  ClientInv'
<1>1. UnderWay(i) /\ known' \in BOOLEAN
  BY DEF Start, UnderWay, ClientInv, TypeOK
<1>2. CASE Lookup /\ ~known
  <2>1. attempt' = [attempt EXCEPT ![i].stage = "looking"]
    BY <1>2, Zenon DEF Start
  <2> QED BY <1>1, <2>1, GoesOn DEF Start
<1>3. CASE ~(Lookup /\ ~known)
  <2>1. attempt' = [attempt EXCEPT ![i].stage = "asking"]
    BY <1>3, Zenon DEF Start
  <2> QED BY <1>1, <2>1, GoesOn DEF Start
<1> QED BY <1>2, <1>3

(* The close callback of a proxy server: it is the only one closing, and   *)
(* there is no client.                                                     *)
LEMMA ProxyCloses ==
  ASSUME ClientInv, process = "up", NEW i \in Num, ProxyClosed(i)
  PROVE  ClientInv'
<1> DEFINE atts == [attempt EXCEPT ![i].proxy = "closed"]
<1>1. connectState = DISCONNECTED /\ \A j \in Num : j # i => ~Closing(j)
  BY DEF ProxyClosed, ClientInv, OneClosing
<1>2. attempt \in Seq(Attempts) /\ "closed" \in ProxyStates
  BY DEF ClientInv, TypeOK, ProxyStates
<1>3. /\ atts \in Seq(Attempts) /\ DOMAIN atts = Num
      /\ \A j \in Num : atts[j].stage = attempt[j].stage
      /\ \A j \in Num : j # i => atts[j].proxy = attempt[j].proxy
      /\ atts[i].proxy = "closed"
  BY <1>2, ProxySet DEF Num
<1>4. \A j \in Num : attempt[j].proxy # "listening"
  BY <1>1, NoCurrent DEF Listens, DISCONNECTED, CONNECTED
<1>5. \A j \in Num : atts[j].proxy # "closing" /\ atts[j].proxy # "listening"
  BY <1>1, <1>3, <1>4 DEF Closing
<1>6. /\ TryRecreate(atts, ip)
      /\ UNCHANGED <<managerClient, proxyClient, known, process, os, moves>>
      /\ ip' \in 0..MaxIp /\ wakes' \in 0..MaxWakes /\ losses' \in 0..MaxLosses
  BY DEF ProxyClosed, env, ClientInv, TypeOK
<1> HIDE DEF atts
<1> QED BY <1>1, <1>3, <1>5, <1>6, Recreates

(* The beats of a connected manager stop: it is the current one.           *)
LEMMA BeatsStop ==
  ASSUME ClientInv, process = "up", NEW i \in Num, BeatTimeout(i)
  PROVE  ClientInv'
<1> DEFINE atts == [attempt EXCEPT ![i].stage = "lost"]
<1>1. attempt \in Seq(Attempts) /\ "lost" \in Stages
  BY DEF ClientInv, TypeOK, Stages
<1>2. connectState = CONNECTED /\ managerClient = i
  <2>1. managerClient = i /\ i # 0
    BY DEF BeatTimeout, ClientInv, StateMatches, ClientsMatch, TypeOK, Num
  <2> QED BY <2>1 DEF ClientInv, StateMatches, ConnectedMatches
<1>3. /\ atts \in Seq(Attempts) /\ DOMAIN atts = Num
      /\ \A j \in Num : atts[j].proxy = attempt[j].proxy
      /\ \A j \in Num : j # i => atts[j].stage = attempt[j].stage
  BY <1>1, StageSet DEF Num
<1>4. /\ FreeCurrent(atts)
      /\ UNCHANGED <<ip, known, process, os, moves, wakes>>
      /\ losses' \in 0..MaxLosses
  <2>1. FreeNothing(atts, ip) \/ FreeCurrent(atts)
    BY DEF BeatTimeout, CloseAndTryRecreate
  <2>2. ~FreeNothing(atts, ip)
    BY <1>2 DEF FreeNothing, DISCONNECTED, CONNECTED
  <2>3. losses' = losses + 1 /\ losses < MaxLosses
    BY DEF BeatTimeout
  <2>4. losses' \in 0..MaxLosses
    BY <2>3, ClientBounds DEF ClientInv, TypeOK
  <2>5. UNCHANGED <<ip, known, process, os, moves, wakes>>
    BY DEF BeatTimeout
  <2> QED BY <2>1, <2>2, <2>4, <2>5
<1>5. ip' \in 0..MaxIp /\ wakes' \in 0..MaxWakes
  BY <1>4 DEF ClientInv, TypeOK
<1> HIDE DEF atts
<1> QED BY <1>2, <1>3, <1>4, <1>5, FreesCurrent

LEMMA ClientStep ==
  ASSUME PromptClose, ClientInv, [Next]_vars
  PROVE  ClientInv'
<1>1. ASSUME NEW i \in Num, process = "up", Attempt(i) PROVE ClientInv'
  <2>1. CASE Start(i)
    BY <2>1, Starts
  <2>2. CASE Resolved(i)
    <3>1. UnderWay(i) /\ known' \in BOOLEAN
      BY <2>2 DEF Resolved, UnderWay
    <3> QED BY <2>2, <3>1, GoesOn DEF Resolved
  <2>3. CASE LookupFails(i)
    <3>1. /\ process' = "noAddress"
          /\ UNCHANGED <<connectState, managerClient, proxyClient, attempt, ip,
                         known, os, moves, wakes, losses>>
      BY <2>3 DEF LookupFails, env
    <3>2. TypeOK'
      BY <3>1 DEF ClientInv, TypeOK, Num
    <3>3. StateMatches' /\ OneClient' /\ OneClosing' /\ FdReleased'
      BY <3>1 DEF ClientInv, StateMatches, ConnectingMatches, ConnectedMatches,
                  ClientsMatch, OneClient, OneClosing, FdReleased, Num,
                  UnderWay, Live, Listens, Closing
    <3> QED BY <3>2, <3>3 DEF ClientInv
  <2>4. CASE Connected(i)
    BY <2>4, Connects
  <2> QED BY <1>1, <2>1, <2>2, <2>3, <2>4 DEF Attempt
<1>2. ASSUME NEW i \in Num, process = "up", ProxyClosed(i) PROVE ClientInv'
  BY <1>2, ProxyCloses
<1>3. ASSUME NEW i \in Num, process = "up", BeatTimeout(i) PROVE ClientInv'
  BY <1>3, BeatsStop
<1>4. ASSUME process = "up", MonitorMoved PROVE ClientInv'
  <2>1. \A i \in Num : ~Closing(i)
    BY <1>4 DEF MonitorMoved, Settled
  <2>2. ip' \in 0..MaxIp /\ wakes' \in 0..MaxWakes /\ losses' \in 0..MaxLosses
    BY <1>4 DEF MonitorMoved, env, ClientInv, TypeOK
  <2> QED BY <1>4, <2>1, <2>2, MonitorFrees DEF MonitorMoved, env
<1>5. ASSUME process = "up", MonitorWakes PROVE ClientInv'
  <2>1. \A i \in Num : ~Closing(i)
    BY <1>5 DEF MonitorWakes, Settled
  <2>2. wakes < MaxWakes /\ wakes' = wakes + 1
    BY <1>5 DEF MonitorWakes
  <2>3. wakes' \in 0..MaxWakes
    BY <2>2, ClientBounds DEF ClientInv, TypeOK
  <2>4. ip' \in 0..MaxIp /\ losses' \in 0..MaxLosses
    BY <1>5 DEF MonitorWakes, ClientInv, TypeOK
  <2> QED BY <1>5, <2>1, <2>3, <2>4, MonitorFrees DEF MonitorWakes
<1>6. ASSUME Move PROVE ClientInv'
  <2>1. moves < MaxMoves /\ moves' = moves + 1 /\ os' \in (0..MaxIp) \ {os}
    BY <1>6 DEF Move
  <2>2. moves' \in 0..MaxMoves
    BY <2>1, ClientBounds DEF ClientInv, TypeOK
  <2>3. TypeOK'
    BY <1>6, <2>1, <2>2 DEF Move, ClientInv, TypeOK, Num
  <2>4. StateMatches' /\ OneClient' /\ OneClosing' /\ FdReleased'
    BY <1>6
       DEF Move, ClientInv, StateMatches, ConnectingMatches, ConnectedMatches,
                ClientsMatch, OneClient, OneClosing, FdReleased, Num,
                UnderWay, Live, Listens, Closing
  <2> QED BY <2>3, <2>4 DEF ClientInv
<1>7. ASSUME UNCHANGED vars PROVE ClientInv'
  <2>1. TypeOK'
    BY <1>7 DEF vars, env, ClientInv, TypeOK, Num
  <2>2. StateMatches' /\ OneClient' /\ OneClosing' /\ FdReleased'
    BY <1>7 DEF vars, env, ClientInv, StateMatches, ConnectingMatches,
                ConnectedMatches, ClientsMatch, OneClient, OneClosing, FdReleased,
                Num, UnderWay, Live, Listens, Closing
  <2> QED BY <2>1, <2>2 DEF ClientInv
<1> QED BY <1>1, <1>2, <1>3, <1>4, <1>5, <1>6, <1>7 DEF Next

THEOREM ClientSafe == ASSUME PromptClose PROVE Spec => []ClientInv
<1>1. Init => ClientInv
  BY ClientInit
<1>2. ClientInv /\ [Next]_vars => ClientInv'
  BY ClientStep
<1> QED BY <1>1, <1>2, PTL DEF Spec

(* The monitor, the beats and the close callback of a proxy server never   *)
(* start two clients, when connections of a closing proxy end promptly.    *)
THEOREM OneAtATime == ASSUME PromptClose PROVE Spec => []OneClient
<1>1. ClientInv => OneClient
  BY DEF ClientInv
<1> QED BY <1>1, ClientSafe, PTL

(* connectState and the references of currentClients always tell what is   *)
(* alive: no manager keeps beating and no proxy server keeps listening     *)
(* that free() does not know of.                                           *)
THEOREM StateIsExact == ASSUME PromptClose PROVE Spec => [](TypeOK /\ StateMatches)
<1>1. ClientInv => TypeOK /\ StateMatches
  BY DEF ClientInv
<1> QED BY <1>1, ClientSafe, PTL

(* A new proxy server never finds its port taken by the old one, under the *)
(* same condition; without it the port can be taken (the run ClientPort).  *)
THEOREM PortIsReleased == ASSUME PromptClose PROVE Spec => []FdReleased
<1>1. ClientInv => FdReleased
  BY DEF ClientInv
<1> QED BY <1>1, ClientSafe, PTL

(***************************************************************************)
(* Types, whatever PromptClose is: first what free() and recreate() leave. *)
(***************************************************************************)
RefsTyped ==
    /\ connectState \in {DISCONNECTED, CONNECTING, CONNECTED}
    /\ attempt \in Seq(Attempts)
    /\ managerClient \in Num \cup {0}
    /\ proxyClient \in Num \cup {0}

LEMMA RecreateTyped ==
  ASSUME TypeOK, NEW atts \in Seq(Attempts), DOMAIN atts = Num, NEW newIp,
         TryRecreate(atts, newIp), UNCHANGED <<managerClient, proxyClient>>
  PROVE  RefsTyped'
<1>1. CASE newIp = 0
  <2>1. attempt' = atts /\ connectState' = connectState
    BY <1>1, Zenon DEF TryRecreate
  <2>2. Num' = Num
    BY <2>1 DEF Num
  <2> QED BY <2>1, <2>2 DEF TypeOK, RefsTyped
<1>2. CASE newIp # 0
  <2>1. attempt' = Append(atts, Scheduled) /\ connectState' = CONNECTING
    BY <1>2, Zenon DEF TryRecreate
  <2>2. attempt' \in Seq(Attempts) /\ Num \subseteq Num'
    BY <2>1, OneMoreAttempt DEF Num
  <2> QED BY <2>1, <2>2 DEF TypeOK, RefsTyped
<1> QED BY <1>1, <1>2

LEMMA FreeTyped ==
  ASSUME NEW atts \in Seq(Attempts), FreeCurrent(atts)
  PROVE  RefsTyped'
<1>1. \A i \in DOMAIN atts : Freed(i, atts[i]) \in Attempts
  <2> SUFFICES ASSUME NEW i \in DOMAIN atts PROVE Freed(i, atts[i]) \in Attempts
    OBVIOUS
  <2>0. atts[i] \in Attempts
    OBVIOUS
  <2>1. atts[i].stage \in Stages /\ atts[i].proxy \in ProxyStates
    BY <2>0 DEF Attempts
  <2>2. (IF i = managerClient THEN "freed" ELSE atts[i].stage) \in Stages
    BY <2>1 DEF Stages
  <2>3. (IF i = proxyClient THEN "closing" ELSE atts[i].proxy) \in ProxyStates
    BY <2>1 DEF ProxyStates
  <2> QED BY <2>2, <2>3 DEF Freed, Attempts
<1>2. attempt' = [i \in DOMAIN atts |-> Freed(i, atts[i])]
  BY DEF FreeCurrent
<1>3. attempt' \in Seq(Attempts)
  BY <1>1, <1>2
<1> QED BY <1>3 DEF FreeCurrent, RefsTyped

LEMMA ReplaceTyped ==
  ASSUME TypeOK, NEW atts \in Seq(Attempts), DOMAIN atts = Num, NEW newIp,
         CloseAndTryRecreate(atts, newIp)
  PROVE  RefsTyped'
BY RecreateTyped, FreeTyped, Zenon DEF CloseAndTryRecreate, FreeNothing

LEMMA StepTyped == TypeOK /\ [Next]_vars => TypeOK'
<1> SUFFICES ASSUME TypeOK, [Next]_vars PROVE TypeOK'
  OBVIOUS
<1>0. /\ attempt \in Seq(Attempts) /\ os \in 0..MaxIp /\ ip \in 0..MaxIp
      /\ MaxWakes \in Nat /\ MaxLosses \in Nat /\ MaxMoves \in Nat
  BY ClientBounds DEF TypeOK
<1>1. ASSUME NEW i \in Num, Start(i) \/ Resolved(i) PROVE TypeOK'
  <2>1. PICK st \in {"looking", "asking"} : attempt' = [attempt EXCEPT ![i].stage = st]
    BY <1>1 DEF Start, Resolved
  <2>2. attempt' \in Seq(Attempts) /\ Num' = Num
    BY <1>0, <2>1, StageSet DEF Num, Stages
  <2>3. known' \in BOOLEAN
    BY <1>1 DEF Start, Resolved, TypeOK
  <2>4. UNCHANGED <<connectState, managerClient, proxyClient, ip, process, env>>
    BY <1>1 DEF Start, Resolved
  <2> QED BY <2>2, <2>3, <2>4 DEF TypeOK, env
<1>2. ASSUME NEW i \in Num, LookupFails(i) PROVE TypeOK'
  <2>1. Num' = Num
    BY <1>2 DEF LookupFails, Num
  <2> QED BY <1>2, <2>1 DEF LookupFails, TypeOK, env
<1>3. ASSUME NEW i \in Num, Connected(i) PROVE TypeOK'
  <2>1. [stage |-> "connected", proxy |-> "listening"] \in Attempts
    BY DEF Attempts, Stages, ProxyStates
  <2>2. attempt' \in Seq(Attempts) /\ Num' = Num
    BY <1>0, <1>3, <2>1 DEF Connected, Num
  <2>3. process' \in {"up", "noAddress", "portTaken"}
    BY <1>3 DEF Connected, TypeOK
  <2> QED BY <1>3, <2>2, <2>3 DEF Connected, TypeOK, env
<1>4. ASSUME NEW i \in Num, ProxyClosed(i) PROVE TypeOK'
  <2> DEFINE atts == [attempt EXCEPT ![i].proxy = "closed"]
  <2>1. atts \in Seq(Attempts) /\ DOMAIN atts = Num
    BY <1>0, ProxySet DEF Num, ProxyStates
  <2>2. RefsTyped'
    BY <1>4, <2>1, RecreateTyped DEF ProxyClosed
  <2> QED BY <1>4, <2>2 DEF ProxyClosed, RefsTyped, TypeOK, env
<1>5. ASSUME NEW i \in Num, BeatTimeout(i) PROVE TypeOK'
  <2> DEFINE atts == [attempt EXCEPT ![i].stage = "lost"]
  <2>1. atts \in Seq(Attempts) /\ DOMAIN atts = Num
    BY <1>0, StageSet DEF Num, Stages
  <2>2. RefsTyped'
    BY <1>5, <2>1, ReplaceTyped DEF BeatTimeout
  <2>3. losses' \in 0..MaxLosses
    BY <1>0, <1>5 DEF BeatTimeout, TypeOK
  <2> QED BY <1>5, <2>2, <2>3 DEF BeatTimeout, RefsTyped, TypeOK
<1>6. ASSUME MonitorNext PROVE RefsTyped'
  <2>1. CASE MonitorCalls
    BY <1>0, <2>1, ReplaceTyped DEF MonitorCalls, Num
  <2>2. CASE UNCHANGED <<connectState, managerClient, proxyClient, attempt>>
    BY <2>2 DEF RefsTyped, TypeOK, Num
  <2> QED BY <1>6, <2>1, <2>2 DEF MonitorNext
<1>7. CASE MonitorMoved
  BY <1>0, <1>6, <1>7 DEF MonitorMoved, RefsTyped, TypeOK, env
<1>8. CASE MonitorWakes
  <2>1. wakes' \in 0..MaxWakes
    BY <1>0, <1>8 DEF MonitorWakes, TypeOK
  <2> QED BY <1>0, <1>6, <1>8, <2>1 DEF MonitorWakes, RefsTyped, TypeOK
<1>9. CASE Move
  <2>1. moves' \in 0..MaxMoves /\ os' \in 0..MaxIp
    BY <1>0, <1>9 DEF Move, TypeOK
  <2>2. Num' = Num
    BY <1>9 DEF Move, Num
  <2> QED BY <1>9, <2>1, <2>2 DEF Move, TypeOK
<1>10. CASE UNCHANGED vars
  BY <1>10 DEF vars, env, TypeOK, Num
<1> QED
  BY <1>1, <1>2, <1>3, <1>4, <1>5, <1>7, <1>8, <1>9, <1>10 DEF Next, Attempt

(* Every variable of Client keeps its type, however late the connections   *)
(* of a proxy server end: the references of currentClients name attempts   *)
(* that were made, also those left behind by a client that was replaced.   *)
THEOREM TypeCorrect == Spec => []TypeOK
<1>1. Init => TypeOK
  BY ClientInit DEF ClientInv
<1>2. TypeOK /\ [Next]_vars => TypeOK'
  BY StepTyped
<1> QED BY <1>1, <1>2, PTL DEF Spec
=============================================================================
