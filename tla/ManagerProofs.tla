--------------------------- MODULE ManagerProofs ---------------------------
(***************************************************************************)
(* Theorems about Manager, for any number of clients, addresses, muxes,    *)
(* managers and lost beats.                                                *)
(***************************************************************************)
EXTENDS Manager, FiniteSetTheorems, SequenceTheorems, TLAPS

(***************************************************************************)
(* What keeps the count of freeManager right.  remainedSockets may stay    *)
(* above the muxes that are still to close (one that closed before is      *)
(* counted, and onClose is then never called) but never falls below.       *)
(***************************************************************************)
ToClose(mgr) == {k \in Muxes : mgr.mux[k] # "closed"}

Sound(mgr) ==
    /\ mgr.phase = "freed" => Cardinality(ToClose(mgr)) <= mgr.remained
    /\ mgr.reported => mgr.phase = "freed" /\ mgr.remained = 0

ManagersSound == \A m \in Num : Sound(manager[m])

Inv == TypeOK /\ ManagersSound /\ RouterKnows

LEMMA MuxesFinite ==
    /\ IsFiniteSet(Muxes)
    /\ Cardinality(Muxes) = SocketAmount + 1
    /\ Master \in Muxes
  <1>1. Muxes = 0..SocketAmount
    BY ManagerBounds, SMT DEF Muxes, Master, Conns
  <1>2. IsFiniteSet(0..SocketAmount) /\ Cardinality(0..SocketAmount) = SocketAmount + 1
    BY ManagerBounds, FS_Interval, SMT
  <1> QED
    BY <1>1, <1>2 DEF Muxes

LEMMA ToCloseFinite ==
    ASSUME NEW mgr
    PROVE  /\ IsFiniteSet(ToClose(mgr))
           /\ Cardinality(ToClose(mgr)) \in Nat
           /\ Cardinality(ToClose(mgr)) <= SocketAmount + 1
  <1>1. ToClose(mgr) \in SUBSET Muxes
    BY DEF ToClose
  <1> QED
    BY <1>1, MuxesFinite, FS_Subset, FS_CardinalityType

(* One mux less to close. *)
LEMMA OneCloses ==
    ASSUME NEW mgr \in Managers, NEW new \in Managers, NEW k \in Muxes,
           mgr.mux[k] # "closed", new.mux = [mgr.mux EXCEPT ![k] = "closed"]
    PROVE  /\ Cardinality(ToClose(new)) = Cardinality(ToClose(mgr)) - 1
           /\ Cardinality(ToClose(mgr)) >= 1
  <1>1. mgr.mux \in [Muxes -> MuxStates]
    BY DEF Managers
  <1>2. ToClose(new) = ToClose(mgr) \ {k}
    BY <1>1 DEF ToClose
  <1>3. k \in ToClose(mgr)
    BY DEF ToClose
  <1>4. Cardinality(ToClose(new)) = Cardinality(ToClose(mgr)) - 1
    BY <1>2, <1>3, ToCloseFinite, FS_RemoveElement
  <1>5. Cardinality(ToClose(new)) \in Nat /\ Cardinality(ToClose(mgr)) \in Nat
    BY ToCloseFinite
  <1> QED
    BY <1>4, <1>5, SMT

LEMMA NothingToClose ==
    ASSUME NEW mgr, Cardinality(ToClose(mgr)) <= 0
    PROVE  \A k \in Muxes : mgr.mux[k] = "closed"
  <1>1. Cardinality(ToClose(mgr)) = 0
    BY ToCloseFinite, SMT
  <1>2. ToClose(mgr) = {}
    BY <1>1, ToCloseFinite, FS_EmptySet
  <1> QED
    BY <1>2 DEF ToClose

(***************************************************************************)
(* A step that changes one manager and not its address.                    *)
(***************************************************************************)
Changes(m, new) ==
    /\ new \in Managers
    /\ new.key = manager[m].key
    /\ Sound(new)
    /\ manager' = [manager EXCEPT ![m] = new]

LEMMA OneChanges ==
    ASSUME TypeOK, ManagersSound, NEW m \in Num, NEW new, Changes(m, new)
    PROVE  /\ manager' \in Seq(Managers)
           /\ Len(manager') = Len(manager)
           /\ Num' = Num
           /\ \A n \in Num : manager'[n] = IF n = m THEN new ELSE manager[n]
           /\ ManagersSound'
  <1>1. manager \in Seq(Managers) /\ Num = 1..Len(manager)
    BY DEF TypeOK, Num
  <1>2. new \in Managers /\ manager' = [manager EXCEPT ![m] = new]
    BY DEF Changes
  <1>3. /\ manager' \in Seq(Managers)
        /\ Len(manager') = Len(manager)
        /\ \A n \in Num : manager'[n] = IF n = m THEN new ELSE manager[n]
    BY <1>1, <1>2, ExceptSeq
  <1>4. Num' = Num
    BY <1>1, <1>3 DEF Num
  <1>5. ManagersSound'
    BY <1>3, <1>4 DEF ManagersSound, Changes
  <1> QED
    BY <1>3, <1>4, <1>5

(* When the router does not change and the manager has not just reported,  *)
(* or had reported before.                                                 *)
LEMMA OneChangesRouted ==
    ASSUME Inv, NEW m \in Num, NEW new, Changes(m, new),
           new.reported = manager[m].reported, UNCHANGED router
    PROVE  RouterKnows'
  <1>1. Num' = Num /\ \A n \in Num : manager'[n] = IF n = m THEN new ELSE manager[n]
    BY OneChanges DEF Inv
  <1> QED
    BY <1>1 DEF Inv, RouterKnows, Changes

(***************************************************************************)
(* The actions.                                                            *)
(***************************************************************************)
ClientsTyped ==
    /\ stage \in [Client -> Stages]
    /\ addr \in [Client -> Addr]
    /\ cmux \in [Client -> [Muxes -> MuxStates]]
    /\ losses \in 0..MaxLosses

ManagersTyped ==
    /\ manager \in Seq(Managers)
    /\ Len(manager) <= MaxManagers
    /\ router \in [Addr -> 0..MaxManagers]

LEMMA Typed == TypeOK <=> ClientsTyped /\ ManagersTyped
  BY DEF TypeOK, ClientsTyped, ManagersTyped

LEMMA InitInv == Init => Inv
  <1> SUFFICES ASSUME Init PROVE Inv
    OBVIOUS
  <1>1. ClientsTyped
    BY ManagerBounds DEF Init, ClientsTyped, Stages, MuxStates
  <1>2. ManagersTyped
    BY ManagerBounds DEF Init, ManagersTyped
  <1>3. Num = {}
    BY DEF Init, Num
  <1> QED
    BY <1>1, <1>2, <1>3, Typed DEF Inv, ManagersSound, RouterKnows

(* No client touches a manager. *)
LEMMA ManagersKept ==
    ASSUME Inv, ClientsTyped', UNCHANGED <<manager, router>>
    PROVE  Inv'
  <1>1. ManagersTyped'
    BY Typed DEF Inv, ManagersTyped
  <1>2. ManagersSound'
    BY DEF Inv, ManagersSound, Sound, ToClose, Num
  <1>3. RouterKnows'
    BY DEF Inv, RouterKnows, Num
  <1>4. (TypeOK <=> ClientsTyped /\ ManagersTyped)'
    BY DEF TypeOK, ClientsTyped, ManagersTyped
  <1> QED
    BY <1>1, <1>2, <1>3, <1>4 DEF Inv

LEMMA MuxFunctions ==
    ASSUME NEW mux \in [Muxes -> MuxStates]
    PROVE  /\ AllOpen(mux) \in [Muxes -> MuxStates]
           /\ CloseAll(mux) \in [Muxes -> MuxStates]
           /\ OnlyMaster \in [Muxes -> MuxStates]
  BY DEF AllOpen, CloseAll, OnlyMaster, MuxStates

LEMMA LossCounted ==
    ASSUME losses \in 0..MaxLosses, Lost \/ UNCHANGED losses
    PROVE  losses' \in 0..MaxLosses
  BY ManagerBounds, SMT DEF Lost

LEMMA FreeClientTyped ==
    ASSUME ClientsTyped, NEW c \in Client, FreeClient(c), losses' \in 0..MaxLosses
    PROVE  ClientsTyped'
  <1>1. cmux[c] \in [Muxes -> MuxStates]
    BY DEF ClientsTyped
  <1>2. CloseAll(cmux[c]) \in [Muxes -> MuxStates]
    BY <1>1, MuxFunctions
  <1> QED
    BY <1>2 DEF ClientsTyped, FreeClient, Stages

LEMMA OfClientInv ==
    ASSUME Inv, NEW c \in Client, OfClient(c)
    PROVE  Inv'
  <1>0. ClientsTyped
    BY Typed DEF Inv
  <1>1. cmux[c] \in [Muxes -> MuxStates]
    BY <1>0 DEF ClientsTyped
  <1>2. losses \in 0..MaxLosses
    BY <1>0 DEF ClientsTyped
  <1>3. CASE CreateClient(c)
    <2>1. OnlyMaster \in [Muxes -> MuxStates]
      BY <1>1, MuxFunctions
    <2> QED
      BY <1>0, <1>3, <2>1, ManagersKept DEF CreateClient, ClientsTyped, Stages
  <1>4. CASE PortsArrive(c)
    <2>1. AllOpen(cmux[c]) \in [Muxes -> MuxStates]
      BY <1>1, MuxFunctions
    <2> QED
      BY <1>0, <1>4, <2>1, ManagersKept DEF PortsArrive, ClientsTyped, Stages
  <1>5. CASE Replaced(c)
    BY <1>0, <1>2, <1>5, FreeClientTyped, ManagersKept DEF Replaced, FreeClient
  <1>6. CASE Crash(c)
    <2>1. [k \in Muxes |-> IF cmux[c][k] = "none" THEN "none" ELSE "closed"]
             \in [Muxes -> MuxStates]
      BY DEF MuxStates
    <2>2. ClientsTyped'
      BY <1>0, <1>6, <2>1 DEF Crash, ClientsTyped, Stages
    <2> QED
      BY <1>6, <2>2, ManagersKept DEF Crash
  <1>7. CASE ClientSilence(c)
    BY <1>0, <1>2, <1>7, FreeClientTyped, ManagersKept DEF ClientSilence, FreeClient
  <1>8. CASE ClientLoses(c)
    <2>1. losses' \in 0..MaxLosses
      BY <1>2, <1>8, LossCounted DEF ClientLoses
    <2> QED
      BY <1>0, <1>8, <2>1, FreeClientTyped, ManagersKept DEF ClientLoses, FreeClient
  <1>9. ASSUME NEW k \in Muxes, ClientMuxCloses(c, k) \/ FinReachesClient(c, k)
        PROVE  Inv'
    <2>1. "closed" \in MuxStates /\ "closing" \in MuxStates
      BY DEF MuxStates
    <2>2. ClientsTyped'
      <3>1. CASE ClientMuxCloses(c, k)
        BY <1>0, <1>1, <2>1, <3>1 DEF ClientMuxCloses, ClientsTyped
      <3>2. CASE FinReachesClient(c, k)
        BY <1>0, <1>1, <2>1, <3>2 DEF FinReachesClient, ClientsTyped
      <3> QED
        BY <1>9, <3>1, <3>2
    <2> QED
      BY <1>9, <2>2, ManagersKept DEF ClientMuxCloses, FinReachesClient
  <1> QED
    BY <1>3, <1>4, <1>5, <1>6, <1>7, <1>8, <1>9 DEF OfClient

NewManager(a) ==
    [key |-> a, peer |-> {}, phase |-> "waiting", mux |-> OnlyMaster,
     remained |-> 0, reported |-> FALSE]

(* A new manager is put where the router has nothing. *)
LEMMA CreateManagerInv ==
    ASSUME Inv, NEW c \in Client, CreateManager(c)
    PROVE  Inv'
  <1>0. ClientsTyped /\ ManagersTyped
    BY Typed DEF Inv
  <1>1. PICK a \in Addr : a = addr[c]
    BY <1>0 DEF ClientsTyped
  <1>2. PICK new : new = NewManager(a)
    OBVIOUS
  <1>3. new \in Managers
    <2>1. OnlyMaster \in [Muxes -> MuxStates]
      BY DEF OnlyMaster, MuxStates
    <2>2. 0 \in 0..(SocketAmount + 1)
      BY ManagerBounds, SMT
    <2> QED
      BY <1>2, <2>1, <2>2 DEF NewManager, Managers, Phases
  <1>4. manager' = Append(manager, new)
    BY <1>1, <1>2 DEF CreateManager, NewManager
  <1>5. /\ manager' \in Seq(Managers)
        /\ Len(manager') = Len(manager) + 1
        /\ \A n \in 1..Len(manager) : manager'[n] = manager[n]
        /\ manager'[Len(manager) + 1] = new
    BY <1>0, <1>3, <1>4, AppendProperties DEF ManagersTyped
  <1>6. Len(manager) \in Nat /\ Num = 1..Len(manager) /\ Num' = 1..(Len(manager) + 1)
    BY <1>0, <1>5, SMT DEF ManagersTyped, Num
  <1>7. router' = [router EXCEPT ![a] = Len(manager) + 1] /\ router[a] = 0
    BY <1>1 DEF CreateManager
  <1>8. ClientsTyped'
    BY <1>0 DEF CreateManager, ClientsTyped
  <1>9. ManagersTyped'
    <2>1. Len(manager) < MaxManagers
      BY DEF CreateManager
    <2>2. Len(manager) + 1 \in 0..MaxManagers /\ Len(manager') <= MaxManagers
      BY <1>5, <1>6, <2>1, ManagerBounds, SMT
    <2> QED
      BY <1>0, <1>5, <1>7, <2>2 DEF ManagersTyped
  <1>10. ManagersSound'
    <2>1. Sound(new)
      BY <1>2 DEF Sound, NewManager
    <2>2. \A n \in Num : Sound(manager[n])
      BY DEF Inv, ManagersSound
    <2> QED
      BY <1>5, <1>6, <2>1, <2>2, SMT DEF ManagersSound
  <1>11. RouterKnows'
    <2> SUFFICES ASSUME NEW n \in Num', ~manager'[n].reported
                 PROVE  router'[manager'[n].key] = n
      BY DEF RouterKnows
    <2>1. router \in [Addr -> 0..MaxManagers]
      BY <1>0 DEF ManagersTyped
    <2>2. CASE n = Len(manager) + 1
      <3>1. manager'[n].key = a
        BY <1>2, <1>5, <2>2 DEF NewManager
      <3> QED
        BY <1>7, <2>1, <2>2, <3>1
    <2>3. CASE n # Len(manager) + 1
      <3>1. n \in Num /\ n # 0
        BY <1>6, <2>3, SMT
      <3>2. manager'[n] = manager[n]
        BY <1>5, <1>6, <3>1
      <3>3. router[manager[n].key] = n
        BY <3>1, <3>2 DEF Inv, RouterKnows
      <3>4. manager[n].key # a
        BY <1>7, <3>1, <3>3
      <3> QED
        BY <1>7, <2>1, <3>2, <3>3, <3>4
    <2> QED
      BY <2>2, <2>3
  <1> QED
    <2>1. (TypeOK <=> ClientsTyped /\ ManagersTyped)'
      BY DEF TypeOK, ClientsTyped, ManagersTyped
    <2> QED
      BY <1>8, <1>9, <1>10, <1>11, <2>1 DEF Inv

(* A step that changes one manager, keeps the entries of all the others,   *)
(* and its own unless it reports.                                          *)
LEMMA OneChangesInv ==
    ASSUME Inv, NEW m \in Num, NEW new, Changes(m, new), ClientsTyped',
           \/ new.reported = manager[m].reported /\ UNCHANGED router
           \/ /\ new.reported /\ ~manager[m].reported
              /\ router' = [router EXCEPT ![new.key] = 0]
    PROVE  Inv'
  <1>0. ManagersTyped /\ Num = 1..Len(manager)
    BY Typed DEF Inv, Num
  <1>1. /\ manager' \in Seq(Managers)
        /\ Len(manager') = Len(manager)
        /\ Num' = Num
        /\ \A n \in Num : manager'[n] = IF n = m THEN new ELSE manager[n]
        /\ ManagersSound'
    BY OneChanges DEF Inv
  <1>2. router' \in [Addr -> 0..MaxManagers]
    <2>1. 0 \in 0..MaxManagers
      BY ManagerBounds, SMT
    <2> QED
      BY <1>0, <2>1 DEF ManagersTyped
  <1>3. ManagersTyped'
    BY <1>0, <1>1, <1>2 DEF ManagersTyped
  <1>4. RouterKnows'
    <2>1. CASE new.reported = manager[m].reported /\ UNCHANGED router
      BY <2>1, OneChangesRouted
    <2>2. CASE /\ new.reported /\ ~manager[m].reported
               /\ router' = [router EXCEPT ![new.key] = 0]
      <3> SUFFICES ASSUME NEW n \in Num, ~manager'[n].reported
                   PROVE  router'[manager'[n].key] = n
        BY <1>1 DEF RouterKnows
      <3>1. n # m /\ manager'[n] = manager[n]
        BY <1>1, <2>2
      <3>2. router[manager[n].key] = n /\ router[manager[m].key] = m
        BY <2>2, <3>1 DEF Inv, RouterKnows
      <3>3. manager[n].key # new.key
        BY <3>1, <3>2 DEF Changes
      <3> QED
        BY <1>0, <2>2, <3>1, <3>2, <3>3 DEF ManagersTyped
    <2> QED
      BY <2>1, <2>2
  <1>5. (TypeOK <=> ClientsTyped /\ ManagersTyped)'
    BY DEF TypeOK, ClientsTyped, ManagersTyped
  <1> QED
    BY <1>1, <1>3, <1>4, <1>5 DEF Inv

LEMMA ManagerRecord ==
    ASSUME Inv, NEW m \in Num
    PROVE  /\ manager[m] \in Managers
           /\ manager[m].mux \in [Muxes -> MuxStates]
           /\ manager[m].key \in Addr
           /\ manager[m].peer \in SUBSET Client
           /\ manager[m].phase \in Phases
           /\ manager[m].remained \in 0..(SocketAmount + 1)
           /\ manager[m].reported \in BOOLEAN
           /\ Sound(manager[m])
  <1>1. manager[m] \in Managers
    BY Typed DEF Inv, ManagersTyped, Num
  <1> QED
    BY <1>1 DEF Managers, Inv, ManagersSound

LEMMA StartInv ==
    ASSUME Inv, NEW m \in Num, NEW c \in Client, Start(m, c)
    PROVE  Inv'
  <1>1. PICK mgr \in Managers : mgr = manager[m]
    BY ManagerRecord
  <1>2. PICK new : new = [mgr EXCEPT !.phase = "serving", !.peer = {c}, !.mux = AllOpen(@)]
    OBVIOUS
  <1>3. AllOpen(mgr.mux) \in [Muxes -> MuxStates]
    BY <1>1, MuxFunctions DEF Managers
  <1>4. new \in Managers /\ new.key = mgr.key /\ new.reported = mgr.reported
           /\ new.phase = "serving"
    BY <1>1, <1>2, <1>3 DEF Managers, Phases
  <1>5. mgr.phase = "waiting" /\ Sound(mgr)
    BY <1>1, ManagerRecord DEF Start
  <1>6. Sound(new)
    BY <1>4, <1>5 DEF Sound
  <1>7. manager' = [manager EXCEPT ![m] = new]
    BY <1>1, <1>2 DEF Start
  <1>8. ClientsTyped' /\ UNCHANGED router
    BY Typed DEF Inv, ClientsTyped, Start
  <1> QED
    BY <1>1, <1>4, <1>6, <1>7, <1>8, OneChangesInv DEF Changes

LEMMA FreeManagerInv ==
    ASSUME Inv, NEW m \in Num, FreeManager(m), Lost \/ UNCHANGED losses
    PROVE  Inv'
  <1>1. PICK mgr \in Managers : mgr = manager[m]
    BY ManagerRecord
  <1>2. PICK new : new = [mgr EXCEPT !.phase = "freed", !.mux = CloseAll(@),
                                    !.remained = SocketAmount + 1]
    OBVIOUS
  <1>3. CloseAll(mgr.mux) \in [Muxes -> MuxStates]
    BY <1>1, MuxFunctions DEF Managers
  <1>4. SocketAmount + 1 \in 0..(SocketAmount + 1)
    BY ManagerBounds, SMT
  <1>5. new \in Managers /\ new.key = mgr.key /\ new.reported = mgr.reported
           /\ new.phase = "freed" /\ new.remained = SocketAmount + 1
    BY <1>1, <1>2, <1>3, <1>4 DEF Managers, Phases
  <1>6. mgr.phase = "serving" /\ Sound(mgr)
    BY <1>1, ManagerRecord DEF FreeManager
  <1>7. ~mgr.reported
    BY <1>6 DEF Sound
  <1>8. Sound(new)
    BY <1>5, <1>7, ToCloseFinite DEF Sound
  <1>9. manager' = [manager EXCEPT ![m] = new]
    BY <1>1, <1>2 DEF FreeManager
  <1>10. ClientsTyped'
    <2>1. losses' \in 0..MaxLosses
      BY LossCounted, Typed DEF Inv, ClientsTyped
    <2> QED
      BY <2>1, Typed DEF Inv, ClientsTyped, FreeManager
  <1>11. UNCHANGED router
    BY DEF FreeManager
  <1> QED
    BY <1>1, <1>5, <1>8, <1>9, <1>10, <1>11, OneChangesInv DEF Changes

LEMMA FinReachesServerInv ==
    ASSUME Inv, NEW m \in Num, NEW k \in Muxes, FinReachesServer(m, k)
    PROVE  Inv'
  <1>1. PICK mgr \in Managers : mgr = manager[m]
    BY ManagerRecord
  <1>2. PICK new : new = [mgr EXCEPT !.mux = [@ EXCEPT ![k] = "closing"]]
    OBVIOUS
  <1>3. [mgr.mux EXCEPT ![k] = "closing"] \in [Muxes -> MuxStates]
    BY <1>1 DEF Managers, MuxStates
  <1>4. /\ new \in Managers /\ new.key = mgr.key /\ new.reported = mgr.reported
        /\ new.phase = mgr.phase /\ new.remained = mgr.remained
        /\ new.mux = [mgr.mux EXCEPT ![k] = "closing"]
    BY <1>1, <1>2, <1>3 DEF Managers
  <1>5. mgr.mux[k] = "open" /\ Sound(mgr)
    BY <1>1, ManagerRecord DEF FinReachesServer
  <1>6. ToClose(new) = ToClose(mgr)
    BY <1>1, <1>4, <1>5 DEF ToClose, Managers
  <1>7. Sound(new)
    BY <1>4, <1>5, <1>6 DEF Sound
  <1>8. manager' = [manager EXCEPT ![m] = new]
    BY <1>1, <1>2 DEF FinReachesServer
  <1>9. ClientsTyped' /\ UNCHANGED router
    BY Typed DEF Inv, ClientsTyped, FinReachesServer
  <1> QED
    BY <1>1, <1>4, <1>7, <1>8, <1>9, OneChangesInv DEF Changes

(* The mux that closes is counted, so a report finds no other.             *)
LEMMA ServerMuxClosesInv ==
    ASSUME Inv, NEW m \in Num, NEW k \in Muxes, ServerMuxCloses(m, k)
    PROVE  Inv'
  <1>1. PICK mgr \in Managers : mgr = manager[m]
    BY ManagerRecord
  <1>2. PICK last \in BOOLEAN : last = (mgr.phase = "freed" /\ mgr.remained = 1)
    OBVIOUS
  <1>3. PICK left : left = IF mgr.phase = "freed" THEN mgr.remained - 1 ELSE mgr.remained
    OBVIOUS
  <1>4. PICK new : new = [mgr EXCEPT !.mux = [@ EXCEPT ![k] = "closed"],
                                    !.remained = left, !.reported = @ \/ last]
    OBVIOUS
  <1>5. mgr.mux[k] = "closing" /\ mgr.mux[k] # "closed" /\ Sound(mgr)
    BY <1>1, ManagerRecord DEF ServerMuxCloses
  <1>6. mgr.remained \in Nat /\ mgr.remained <= SocketAmount + 1 /\ mgr.reported \in BOOLEAN
    BY <1>1, ManagerBounds, SMT DEF Managers
  <1>7. mgr.phase = "freed" => mgr.remained >= 1
    <2>1. Cardinality(ToClose(mgr)) >= 1
      <3>1. k \in ToClose(mgr)
        BY <1>5 DEF ToClose
      <3>2. ToClose(mgr) # {}
        BY <3>1
      <3>3. Cardinality(ToClose(mgr)) # 0
        BY <3>2, ToCloseFinite, FS_EmptySet
      <3> QED
        BY <3>3, ToCloseFinite, SMT
    <2> QED
      BY <1>5, <1>6, <2>1, ToCloseFinite, SMT DEF Sound
  <1>8. left \in 0..(SocketAmount + 1)
    BY <1>3, <1>6, <1>7, ManagerBounds, SMT
  <1>9. [mgr.mux EXCEPT ![k] = "closed"] \in [Muxes -> MuxStates]
    BY <1>1 DEF Managers, MuxStates
  <1>10. /\ new \in Managers /\ new.key = mgr.key /\ new.phase = mgr.phase
         /\ new.remained = left /\ new.reported = (mgr.reported \/ last)
         /\ new.mux = [mgr.mux EXCEPT ![k] = "closed"]
    BY <1>1, <1>2, <1>4, <1>6, <1>8, <1>9 DEF Managers
  <1>11. ~mgr.reported
    BY <1>5, <1>7 DEF Sound
  <1>12. Cardinality(ToClose(new)) = Cardinality(ToClose(mgr)) - 1
    BY <1>5, <1>10, OneCloses
  <1>13. Sound(new)
    <2>1. new.phase = "freed" => Cardinality(ToClose(new)) <= new.remained
      <3> SUFFICES ASSUME new.phase = "freed"
                   PROVE  Cardinality(ToClose(new)) <= new.remained
        OBVIOUS
      <3>1. Cardinality(ToClose(mgr)) <= mgr.remained /\ left = mgr.remained - 1
        BY <1>3, <1>5, <1>10 DEF Sound
      <3> QED
        BY <1>6, <1>10, <1>12, <3>1, ToCloseFinite, SMT
    <2>2. new.reported => last
      BY <1>10, <1>11
    <2>3. last => new.phase = "freed" /\ new.remained = 0
      <3>1. last => mgr.phase = "freed" /\ mgr.remained = 1
        BY <1>2
      <3>2. last => left = mgr.remained - 1
        BY <1>3, <3>1
      <3>3. last => left = 0
        BY <3>1, <3>2, SMT
      <3> QED
        BY <1>10, <3>1, <3>3
    <2> QED
      BY <2>1, <2>2, <2>3 DEF Sound
  <1>14. manager' = [manager EXCEPT ![m] = new]
    BY <1>1, <1>2, <1>3, <1>4 DEF ServerMuxCloses
  <1>15. ClientsTyped'
    BY Typed DEF Inv, ClientsTyped, ServerMuxCloses
  <1>16. router' = IF last THEN [router EXCEPT ![new.key] = 0] ELSE router
    BY <1>1, <1>2, <1>10 DEF ServerMuxCloses
  <1>17. CASE last
    BY <1>1, <1>10, <1>11, <1>13, <1>14, <1>15, <1>16, <1>17, OneChangesInv DEF Changes
  <1>18. CASE ~last
    <2>1. (mgr.reported \/ last) = FALSE /\ mgr.reported = FALSE
      BY <1>6, <1>11, <1>18
    <2>2. new.reported = manager[m].reported
      BY <1>1, <1>10, <2>1
    <2>3. UNCHANGED router
      BY <1>16, <1>18
    <2>4. Changes(m, new)
      BY <1>1, <1>10, <1>13, <1>14 DEF Changes
    <2> QED
      BY <1>15, <2>2, <2>3, <2>4, OneChangesInv
  <1> QED
    BY <1>17, <1>18

LEMMA StepInv == Inv /\ [Next]_vars => Inv'
  <1> SUFFICES ASSUME Inv, [Next]_vars PROVE Inv'
    OBVIOUS
  <1>1. CASE UNCHANGED vars
    <2>1. ClientsTyped'
      BY <1>1, Typed DEF vars, Inv, ClientsTyped
    <2>2. UNCHANGED <<manager, router>>
      BY <1>1 DEF vars
    <2> QED
      BY <2>1, <2>2, ManagersKept
  <1>2. ASSUME NEW c \in Client, OfClient(c) PROVE Inv'
    BY <1>2, OfClientInv
  <1>3. ASSUME NEW c \in Client, CreateManager(c) PROVE Inv'
    BY <1>3, CreateManagerInv
  <1>4. ASSUME NEW m \in Num, OfManager(m) PROVE Inv'
    <2>1. ASSUME NEW c \in Client, Start(m, c) PROVE Inv'
      BY <2>1, StartInv
    <2>2. CASE ServerSilence(m)
      BY <2>2, FreeManagerInv DEF ServerSilence
    <2>3. CASE ServerLoses(m)
      BY <2>3, FreeManagerInv DEF ServerLoses
    <2>4. ASSUME NEW k \in Muxes, ServerMuxCloses(m, k) PROVE Inv'
      BY <2>4, ServerMuxClosesInv
    <2>5. ASSUME NEW k \in Muxes, FinReachesServer(m, k) PROVE Inv'
      BY <2>5, FinReachesServerInv
    <2> QED
      BY <1>4, <2>1, <2>2, <2>3, <2>4, <2>5 DEF OfManager
  <1> QED
    BY <1>1, <1>2, <1>3, <1>4 DEF Next

LEMMA InvHolds == Spec => []Inv
  BY InitInv, StepInv, PTL DEF Spec

(***************************************************************************)
(* Theorems.                                                               *)
(***************************************************************************)

(* The clients, managers and router entries keep their types.              *)
THEOREM TypeCorrect == Spec => []TypeOK
  <1>1. Inv => TypeOK
    BY DEF Inv
  <1> QED
    BY <1>1, InvHolds, PTL

(* The router has every manager that has not reported its end.             *)
THEOREM RouterIsExact == Spec => []RouterKnows
  <1>1. Inv => RouterKnows
    BY DEF Inv
  <1> QED
    BY <1>1, InvHolds, PTL

(* onClose is never called while a mux of the manager is open or closing.  *)
THEOREM NeverReportsEarly == Spec => []ReportsWhenClosed
  <1>1. Inv => ReportsWhenClosed
    <2> SUFFICES ASSUME Inv, NEW m \in Num, manager[m].reported
                 PROVE  Closed(m)
      BY DEF ReportsWhenClosed
    <2>1. Cardinality(ToClose(manager[m])) <= 0
      BY DEF Inv, ManagersSound, Sound
    <2> QED
      BY <2>1, NothingToClose DEF Closed
  <1> QED
    BY <1>1, InvHolds, PTL
=============================================================================
