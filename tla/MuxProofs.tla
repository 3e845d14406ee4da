----------------------------- MODULE MuxProofs -----------------------------
(***************************************************************************)
(* Theorems about Mux, for any number of conns, any MaxId, and any calls   *)
(* of the application.                                                     *)
(***************************************************************************)
EXTENDS Mux, FiniteSetTheorems, SequenceTheorems, TLAPS

LEMMA Ends ==
    /\ A \in End /\ B \in End
    /\ \A s \in End : Peer(s) \in End /\ Peer(s) # s /\ Peer(Peer(s)) = s
    /\ \A s \in End, t \in End : t = s \/ t = Peer(s)
  BY EndsDiffer DEF End, Peer

LEMMA Numbers ==
    /\ Creates[A] + Creates[B] \in Nat
    /\ Num \subseteq Nat
    /\ IsFiniteSet(Num)
  <1>1. Creates[A] \in Nat /\ Creates[B] \in Nat
    BY MuxBounds DEF End
  <1>2. Creates[A] + Creates[B] \in Nat
    BY <1>1, SMT
  <1>3. IsFiniteSet(Num)
    BY <1>2, FS_Interval, SMT DEF Num
  <1> QED
    BY <1>2, <1>3, SMT DEF Num

(***************************************************************************)
(* The order of the list.  The rank of a conn among S is how many of S are *)
(* not after it; ranks are distinct, so InList meets each conn once.       *)
(***************************************************************************)
UpTo(S, n) == {m \in S : m <= n}
Rank(S) == [n \in S |-> Cardinality(UpTo(S, n))]

LEMMA RankRange ==
    ASSUME NEW S \in SUBSET Num, NEW n \in S
    PROVE  /\ UpTo(S, n) \in SUBSET S
           /\ IsFiniteSet(S) /\ IsFiniteSet(UpTo(S, n))
           /\ Cardinality(UpTo(S, n)) \in 1..Cardinality(S)
           /\ Cardinality(S) \in Nat
  <1>1. IsFiniteSet(S)
    BY Numbers, FS_Subset
  <1>2. UpTo(S, n) \in SUBSET S
    BY DEF UpTo
  <1>3. IsFiniteSet(UpTo(S, n)) /\ Cardinality(UpTo(S, n)) <= Cardinality(S)
    BY <1>1, <1>2, FS_Subset
  <1>4. n \in UpTo(S, n)
    BY Numbers, SMT DEF UpTo
  <1>5. Cardinality(UpTo(S, n)) # 0
    BY <1>3, <1>4, FS_EmptySet
  <1>6. Cardinality(UpTo(S, n)) \in Nat /\ Cardinality(S) \in Nat
    BY <1>1, <1>3, FS_CardinalityType
  <1> QED
    BY <1>1, <1>2, <1>3, <1>5, <1>6, SMT

LEMMA RankGrows ==
    ASSUME NEW S \in SUBSET Num, NEW m \in S, NEW n \in S, m < n
    PROVE  Cardinality(UpTo(S, m)) < Cardinality(UpTo(S, n))
  <1>1. m \in Nat /\ n \in Nat /\ \A k \in S : k \in Nat
    BY Numbers
  <1>2. UpTo(S, m) \in SUBSET UpTo(S, n)
    <2>1. \A k \in S : k <= m => k <= n
      BY <1>1, SMT
    <2> QED
      BY <2>1 DEF UpTo
  <1>3. n \in UpTo(S, n) /\ n \notin UpTo(S, m)
    BY <1>1, SMT DEF UpTo
  <1>4. IsFiniteSet(UpTo(S, n))
    BY RankRange
  <1>5. Cardinality(UpTo(S, m)) <= Cardinality(UpTo(S, n))
    BY <1>2, <1>4, FS_Subset
  <1>6. Cardinality(UpTo(S, m)) # Cardinality(UpTo(S, n))
    BY <1>2, <1>3, <1>4, FS_Subset
  <1>7. Cardinality(UpTo(S, m)) \in Nat /\ Cardinality(UpTo(S, n)) \in Nat
    BY RankRange, SMT
  <1> QED
    BY <1>5, <1>6, <1>7, SMT

LEMMA RankBijective ==
    ASSUME NEW S \in SUBSET Num
    PROVE  /\ Cardinality(S) \in Nat
           /\ Rank(S) \in Bijection(S, 1..Cardinality(S))
  <1>1. IsFiniteSet(S)
    BY Numbers, FS_Subset
  <1>2. Cardinality(S) \in Nat
    BY <1>1, FS_CardinalityType
  <1>3. Rank(S) \in [S -> 1..Cardinality(S)]
    BY RankRange DEF Rank
  <1>4. ASSUME NEW m \in S, NEW n \in S, Rank(S)[m] = Rank(S)[n]
        PROVE  m = n
    <2>1. Cardinality(UpTo(S, m)) = Cardinality(UpTo(S, n))
      BY <1>4 DEF Rank
    <2>2. Cardinality(UpTo(S, m)) \in Nat
      BY RankRange, SMT
    <2>3. ~(m < n) /\ ~(n < m)
      BY <2>1, <2>2, RankGrows, SMT
    <2> QED
      BY <2>3, Numbers, SMT
  <1>5. Rank(S) \in Injection(S, 1..Cardinality(S))
    BY <1>3, <1>4 DEF Injection, IsInjective
  <1>6. IsFiniteSet(1..Cardinality(S)) /\ Cardinality(1..Cardinality(S)) = Cardinality(S)
    BY <1>2, FS_Interval, SMT
  <1>7. Rank(S) \in Surjection(S, 1..Cardinality(S))
    BY <1>5, <1>6, FS_Injection
  <1> QED
    BY <1>2, <1>5, <1>7 DEF Bijection

(* InList(S) meets every conn of S exactly once. *)
LEMMA ListOrder ==
    ASSUME NEW S \in SUBSET Num
    PROVE  /\ Cardinality(S) \in Nat
           /\ InList(S) \in [1..Cardinality(S) -> S]
           /\ \A n \in S : \E i \in 1..Cardinality(S) : InList(S)[i] = n
           /\ \A i, j \in 1..Cardinality(S) : InList(S)[i] = InList(S)[j] => i = j
           /\ \A i \in 1..Cardinality(S) : Cardinality(UpTo(S, InList(S)[i])) = i
  <1> DEFINE K == 1..Cardinality(S)
  <1>1. Cardinality(S) \in Nat /\ Rank(S) \in Bijection(S, K)
    BY RankBijective
  <1>2. \A i \in K : \E n \in S : Cardinality(UpTo(S, n)) = i
    BY <1>1 DEF Bijection, Surjection, Rank
  <1>3. InList(S) = [i \in K |-> CHOOSE n \in S : Cardinality(UpTo(S, n)) = i]
    BY DEF InList, UpTo
  <1>4. \A i \in K : InList(S)[i] \in S /\ Cardinality(UpTo(S, InList(S)[i])) = i
    BY <1>2, <1>3
  <1>5. InList(S) \in [K -> S]
    BY <1>3, <1>4
  <1>6. \A m, n \in S : Cardinality(UpTo(S, m)) = Cardinality(UpTo(S, n)) => m = n
    BY <1>1 DEF Bijection, Injection, IsInjective, Rank
  <1>7. \A n \in S : Cardinality(UpTo(S, n)) \in K
    BY RankRange
  <1>8. \A n \in S : \E i \in K : InList(S)[i] = n
    BY <1>4, <1>6, <1>7
  <1> QED
    BY <1>1, <1>4, <1>5, <1>8

(* A set of conns that is not empty has a first one. *)
LEMMA HasFirst ==
    ASSUME NEW S \in SUBSET Num, S # {}
    PROVE  \E n \in S : \A m \in S : n <= m
  <1>1. PICK x \in S : TRUE
    OBVIOUS
  <1>2. Cardinality(S) \in Nat /\ 1 \in 1..Cardinality(S)
    BY RankRange, SMT
  <1>3. PICK n \in S : Cardinality(UpTo(S, n)) = 1
    BY <1>2, ListOrder
  <1>4. IsFiniteSet(UpTo(S, n)) /\ UpTo(S, n) \in SUBSET S
    BY RankRange
  <1>5. PICK y : UpTo(S, n) = {y}
    BY <1>3, <1>4, FS_Singleton
  <1>6. \A m \in S : m \in Nat
    BY Numbers
  <1>7. n \in UpTo(S, n)
    BY <1>6, SMT DEF UpTo
  <1>8. ASSUME NEW m \in S, m < n PROVE FALSE
    <2>1. m \in UpTo(S, n)
      BY <1>6, <1>8, SMT DEF UpTo
    <2>2. m = n
      BY <1>5, <1>7, <2>1
    <2> QED
      BY <1>6, <1>8, <2>2, SMT
  <1>9. \A m \in S : n <= m
    BY <1>6, <1>8, SMT
  <1> QED
    BY <1>9

LEMMA FirstFound ==
    ASSUME NEW s \in End, NEW id, WithId(s, id) # {}
    PROVE  /\ FirstWithId(s, id) \in WithId(s, id)
           /\ FirstWithId(s, id) \in Num
           /\ conn[s][FirstWithId(s, id)].live
  <1>1. WithId(s, id) \in SUBSET Num
    BY DEF WithId, Listed
  <1>2. \E n \in WithId(s, id) : \A m \in WithId(s, id) : n <= m
    BY <1>1, HasFirst
  <1>3. FirstWithId(s, id) \in WithId(s, id)
    BY <1>2 DEF FirstWithId
  <1> QED
    BY <1>3 DEF WithId, Listed

(***************************************************************************)
(* Types.                                                                  *)
(***************************************************************************)
ConnsTyped ==
    /\ conn \in [End -> [Num -> Conn]]
    /\ made \in [End -> Nat]
    /\ count \in [End -> Nat]

LinksTyped ==
    /\ mux \in [End -> {"open", "freed"}]
    /\ link \in [End -> Links]
    /\ waitFin \in [End -> BOOLEAN]
    /\ closed \in [End -> BOOLEAN]
    /\ stale \in [End -> BOOLEAN]

TicksTyped == ticks \in [End -> Seq(Tick)]
ChanTyped == chan \in [End -> Seq(Frame \cup SessFrame)]

LEMMA Typed == TypeOK <=> ConnsTyped /\ LinksTyped /\ TicksTyped /\ ChanTyped
  BY DEF TypeOK, ConnsTyped, LinksTyped, TicksTyped, ChanTyped

LEMMA TypedAfter ==
    ASSUME ConnsTyped', LinksTyped', TicksTyped', ChanTyped'
    PROVE  TypeOK'
  BY DEF TypeOK, ConnsTyped, LinksTyped, TicksTyped, ChanTyped

LEMMA NewConnTyped ==
    ASSUME NEW id \in Nat, NEW stream \in Stream
    PROVE  NewConn(id, stream) \in Conn
  BY DEF NewConn, Conn, SendStates, RecvStates

LEMMA ConnClosedTyped ==
    ASSUME NEW c \in Conn
    PROVE  /\ ConnClosed(c) \in Conn
           /\ ConnClosed(c).closing /\ ConnClosed(c).send = "stopped"
           /\ ConnClosed(c).live = c.live
           /\ ConnClosed(c).id = c.id /\ ConnClosed(c).stream = c.stream
  BY DEF ConnClosed, Conn, SendStates, RecvStates

LEMMA ConnUpdates ==
    ASSUME NEW c \in Conn, NEW k \in Nat
    PROVE  /\ [c EXCEPT !.live = FALSE] \in Conn
           /\ [c EXCEPT !.send = "stopped"] \in Conn
           /\ [c EXCEPT !.told = TRUE] \in Conn
           /\ [c EXCEPT !.recv = "stop"] \in Conn
           /\ [c EXCEPT !.recv = "ready", !.rcvd = k] \in Conn
  BY DEF Conn, SendStates, RecvStates

LEMMA OneConnTyped ==
    ASSUME ConnsTyped, NEW s \in End, NEW n \in Num, NEW c \in Conn,
           conn' = [conn EXCEPT ![s][n] = c], UNCHANGED <<made, count>>
    PROVE  ConnsTyped'
  BY DEF ConnsTyped

LEMMA FrameTyped ==
    ASSUME ConnsTyped, NEW s \in End, NEW n \in Num, NEW cmd \in Frames, NEW k \in Nat
    PROVE  /\ FrameOf(s, n, cmd, k) \in Frame
           /\ <<FrameOf(s, n, cmd, k)>> \in Seq(Frame \cup SessFrame)
  <1>1. conn[s][n] \in Conn
    BY DEF ConnsTyped
  <1>2. FrameOf(s, n, cmd, k) \in Frame
    BY <1>1 DEF FrameOf, Frame, Conn
  <1> QED
    BY <1>2

(* Closing a conn sends a CLS or nothing. *)
LEMMA CloseFramesTyped ==
    ASSUME ConnsTyped, NEW s \in End, NEW n \in Num
    PROVE  /\ CloseFrames(s, n) \in Seq(Frame \cup SessFrame)
           /\ CloseFrames(s, n) # <<>> =>
                /\ CloseFrames(s, n) = <<FrameOf(s, n, "cls", 0)>>
                /\ Head(CloseFrames(s, n)) = FrameOf(s, n, "cls", 0)
                /\ FrameOf(s, n, "cls", 0) \in Frame
           /\ ClsFrames(s, n) \in Seq(Frame \cup SessFrame)
           /\ CloseFrames(s, n) = <<>> \/ CloseFrames(s, n) = <<FrameOf(s, n, "cls", 0)>>
  <1>1. /\ FrameOf(s, n, "cls", 0) \in Frame
        /\ <<FrameOf(s, n, "cls", 0)>> \in Seq(Frame \cup SessFrame)
    BY FrameTyped, "cls" \in Frames, 0 \in Nat DEF Frames
  <1>2. CloseFrames(s, n) = <<>> \/ CloseFrames(s, n) = <<FrameOf(s, n, "cls", 0)>>
    BY DEF CloseFrames, ClsFrames
  <1>3. ClsFrames(s, n) = <<>> \/ ClsFrames(s, n) = <<FrameOf(s, n, "cls", 0)>>
    BY DEF ClsFrames
  <1>4. <<>> \in Seq(Frame \cup SessFrame)
    OBVIOUS
  <1>5. Head(<<FrameOf(s, n, "cls", 0)>>) = FrameOf(s, n, "cls", 0)
    OBVIOUS
  <1> QED
    BY <1>1, <1>2, <1>3, <1>4, <1>5

LEMMA ClsOfAllTyped ==
    ASSUME ConnsTyped, NEW s \in End
    PROVE  /\ ClsOfAll(s) \in Seq(Frame)
           /\ ClsOfAll(s) \in Seq(Frame \cup SessFrame)
           /\ \A i \in 1..Len(ClsOfAll(s)) :
                \E n \in OpenConns(s) : n \in Num /\ ClsOfAll(s)[i] = FrameOf(s, n, "cls", 0)
  <1>1. Tellers(s) \in SUBSET Num /\ Tellers(s) \subseteq OpenConns(s)
    BY DEF Tellers, OpenConns, Listed
  <1> DEFINE k == Cardinality(Tellers(s))
  <1>2. k \in Nat /\ InList(Tellers(s)) \in [1..k -> Tellers(s)]
    BY <1>1, ListOrder
  <1>3. \A n \in Tellers(s) : /\ Head(CloseFrames(s, n)) = FrameOf(s, n, "cls", 0)
                              /\ Head(CloseFrames(s, n)) \in Frame
    BY <1>1, CloseFramesTyped DEF Tellers
  <1>4. \A i \in 1..k : /\ ClsOfAll(s)[i] = FrameOf(s, InList(Tellers(s))[i], "cls", 0)
                        /\ ClsOfAll(s)[i] \in Frame
    BY <1>2, <1>3 DEF ClsOfAll
  <1>5. ClsOfAll(s) \in [1..k -> Frame]
    BY <1>4 DEF ClsOfAll
  <1>6. ClsOfAll(s) \in Seq(Frame) /\ Len(ClsOfAll(s)) = k
    BY <1>2, <1>5
  <1>7. Frame \subseteq Frame \cup SessFrame
    OBVIOUS
  <1>8. ClsOfAll(s) \in Seq(Frame \cup SessFrame)
    BY <1>6, <1>7, SeqMonotonic
  <1> QED
    BY <1>1, <1>2, <1>4, <1>6, <1>8

LEMMA RemovalOfAllTyped ==
    ASSUME NEW s \in End
    PROVE  /\ RemovalOfAll(s) \in Seq(Tick)
           /\ Len(RemovalOfAll(s)) = Cardinality(OpenConns(s))
           /\ \A i \in 1..Len(RemovalOfAll(s)) :
                /\ RemovalOfAll(s)[i] = Removal(InList(OpenConns(s))[i])
                /\ RemovalOfAll(s)[i].what = "conn"
                /\ RemovalOfAll(s)[i].n = InList(OpenConns(s))[i]
  <1>1. OpenConns(s) \in SUBSET Num
    BY DEF OpenConns, Listed
  <1> DEFINE k == Cardinality(OpenConns(s))
  <1>2. k \in Nat /\ InList(OpenConns(s)) \in [1..k -> OpenConns(s)]
    BY <1>1, ListOrder
  <1>3. \A i \in 1..k : /\ RemovalOfAll(s)[i] = Removal(InList(OpenConns(s))[i])
                        /\ Removal(InList(OpenConns(s))[i]) \in Tick
    BY <1>1, <1>2 DEF RemovalOfAll, Removal, Tick
  <1>4. RemovalOfAll(s) \in [1..k -> Tick]
    BY <1>3 DEF RemovalOfAll
  <1>5. RemovalOfAll(s) \in Seq(Tick) /\ Len(RemovalOfAll(s)) = k
    BY <1>2, <1>4
  <1>6. \A n : Removal(n).what = "conn" /\ Removal(n).n = n
    BY DEF Removal
  <1> QED
    BY <1>3, <1>5, <1>6

(***************************************************************************)
(* What the parts of a step keep typed.                                    *)
(***************************************************************************)
LEMMA PostTyped ==
    ASSUME ChanTyped, NEW s \in End, NEW frames \in Seq(Frame \cup SessFrame),
           Post(s, frames)
    PROVE  ChanTyped'
  <1>1. Peer(s) \in End
    BY Ends
  <1>2. chan[Peer(s)] \in Seq(Frame \cup SessFrame)
    BY <1>1 DEF ChanTyped
  <1>3. chan[Peer(s)] \o frames \in Seq(Frame \cup SessFrame)
    BY <1>2, ConcatProperties
  <1>4. (IF SessExists(s) THEN chan[Peer(s)] \o frames ELSE chan[Peer(s)])
           \in Seq(Frame \cup SessFrame)
    BY <1>2, <1>3
  <1> QED
    BY <1>1, <1>4 DEF Post, ChanTyped

LEMMA TailsTyped ==
    ASSUME NEW s \in End
    PROVE  /\ ChanTyped /\ chan[s] # <<>> => Tail(chan[s]) \in Seq(Frame \cup SessFrame)
           /\ ChanTyped /\ chan[s] # <<>> => Head(chan[s]) \in Frame \cup SessFrame
           /\ TicksTyped /\ ticks[s] # <<>> => Tail(ticks[s]) \in Seq(Tick)
           /\ TicksTyped /\ ticks[s] # <<>> => Head(ticks[s]) \in Tick
  BY HeadTailProperties DEF ChanTyped, TicksTyped

LEMMA ConsumedTyped ==
    ASSUME ChanTyped, NEW s \in End, chan[s] # <<>>, Consumed(s)
    PROVE  ChanTyped'
  BY TailsTyped DEF Consumed, ChanTyped

LEMMA ReadTyped ==
    ASSUME LinksTyped, NEW s \in End, Read(s), UNCHANGED <<mux, waitFin, closed>>,
           stale' \in [End -> BOOLEAN]
    PROVE  LinksTyped'
  BY DEF LinksTyped, Read, Links

LEMMA TouchTyped ==
    ASSUME LinksTyped, NEW s \in End, Touch(s)
    PROVE  stale' \in [End -> BOOLEAN]
  BY DEF LinksTyped, Touch, SessExists

(* The frame read is a mux frame when its command is one. *)
LEMMA HeadFrame ==
    ASSUME ChanTyped, NEW s \in End, NEW cmd \in Frames, Arrives(s, cmd)
    PROVE  Head(chan[s]) \in Frame /\ chan[s] # <<>> /\ Head(chan[s]).cmd = cmd
  <1>1. Head(chan[s]) \in Frame \cup SessFrame /\ Head(chan[s]).cmd = cmd /\ chan[s] # <<>>
    BY TailsTyped DEF Arrives
  <1> QED
    BY <1>1 DEF Frames, SessFrame, SessCmds

LEMMA TickAppended ==
    ASSUME TicksTyped, NEW s \in End, NEW t \in Tick,
           ticks' = [ticks EXCEPT ![s] = Append(@, t)]
    PROVE  TicksTyped'
  <1>1. Append(ticks[s], t) \in Seq(Tick)
    BY AppendProperties DEF TicksTyped
  <1> QED
    BY <1>1 DEF TicksTyped

LEMMA TickTailed ==
    ASSUME TicksTyped, NEW s \in End, ticks[s] # <<>>,
           ticks' = [ticks EXCEPT ![s] = Tail(@)]
    PROVE  TicksTyped'
  BY TailsTyped DEF TicksTyped

LEMMA ConnClosesTyped ==
    ASSUME ConnsTyped, LinksTyped, TicksTyped, ChanTyped, NEW s \in End, NEW n \in Num,
           ConnCloses(s, n), UNCHANGED <<made, count, mux, link, waitFin, closed>>
    PROVE  ConnsTyped' /\ LinksTyped' /\ TicksTyped' /\ ChanTyped'
  <1>1. CASE conn[s][n].closing
    BY <1>1 DEF ConnCloses, ConnsTyped, LinksTyped, TicksTyped, ChanTyped
  <1>2. CASE ~conn[s][n].closing
    <2>1. ConnClosed(conn[s][n]) \in Conn
      BY ConnClosedTyped DEF ConnsTyped
    <2>2. ConnsTyped'
      <3>1. conn' = [conn EXCEPT ![s][n] = ConnClosed(conn[s][n])]
        BY <1>2 DEF ConnCloses
      <3> QED
        BY <2>1, <3>1 DEF ConnsTyped
    <2>3. Removal(n) \in Tick
      BY DEF Removal, Tick
    <2>4. TicksTyped'
      BY <1>2, <2>3, TickAppended DEF ConnCloses
    <2>5. ChanTyped'
      BY <1>2, CloseFramesTyped, PostTyped DEF ConnCloses
    <2>6. stale' \in [End -> BOOLEAN]
      BY <1>2, TouchTyped DEF ConnCloses, LinksTyped
    <2>7. LinksTyped'
      BY <2>6 DEF LinksTyped
    <2> QED
      BY <2>2, <2>4, <2>5, <2>7
  <1> QED
    BY <1>1, <1>2

LEMMA InitTyped == Init => TypeOK
  <1> SUFFICES ASSUME Init PROVE TypeOK
    OBVIOUS
  <1>1. \A n \in Num : NoConn \in Conn
    <2>1. ASSUME NEW n \in Num PROVE NoConn \in Conn
      <3>1. 1 \in Num
        BY <2>1, Numbers, SMT DEF Num
      <3>2. <<A, 1>> \in Stream
        BY <3>1, Ends DEF Stream
      <3>3. NewConn(0, <<A, 1>>) \in Conn
        BY <3>2, NewConnTyped, 0 \in Nat
      <3> QED
        BY <3>3 DEF NoConn, Conn
    <2> QED
      BY <2>1
  <1>2. ConnsTyped
    BY <1>1 DEF Init, ConnsTyped, ZeroID
  <1>3. LinksTyped
    BY DEF Init, LinksTyped, Links
  <1>4. TicksTyped /\ ChanTyped
    BY DEF Init, TicksTyped, ChanTyped
  <1> QED
    BY <1>2, <1>3, <1>4, Typed

(***************************************************************************)
(* Actions of the application.                                             *)
(***************************************************************************)
LEMMA CreateConnTyped ==
    ASSUME TypeOK, NEW s \in End, CreateConn(s)
    PROVE  TypeOK'
  <1>1. ConnsTyped /\ LinksTyped /\ TicksTyped /\ ChanTyped
    BY Typed
  <1>2. made[s] \in Nat /\ count[s] \in Nat /\ ZeroID(s) \in Nat
    BY <1>1 DEF ConnsTyped, ZeroID
  <1>3. NextId(s) \in Nat /\ NextCount(s) \in Nat /\ made[s] + 1 \in Nat
    BY <1>2, MuxBounds, SMT DEF NextId, NextCount
  <1>4. conn' = [conn EXCEPT ![s][made[s] + 1] = NewConn(NextId(s), <<s, made[s] + 1>>)]
    BY DEF CreateConn
  <1>5. made[s] + 1 \in Num => NewConn(NextId(s), <<s, made[s] + 1>>) \in Conn
    BY <1>3, NewConnTyped DEF Stream
  <1>6. conn' \in [End -> [Num -> Conn]]
    BY <1>1, <1>4, <1>5 DEF ConnsTyped
  <1>7. ConnsTyped'
    BY <1>1, <1>3, <1>6 DEF CreateConn, ConnsTyped
  <1>8. LinksTyped'
    BY <1>1 DEF CreateConn, LinksTyped, SessExists
  <1>9. TicksTyped' /\ ChanTyped'
    BY <1>1 DEF CreateConn, TicksTyped, ChanTyped
  <1> QED
    BY <1>7, <1>8, <1>9, TypedAfter

LEMMA ConnSendTyped ==
    ASSUME TypeOK, NEW s \in End, NEW n \in Num, ConnSend(s, n)
    PROVE  TypeOK'
  <1>1. ConnsTyped /\ LinksTyped /\ TicksTyped /\ ChanTyped
    BY Typed
  <1>2. conn[s][n] \in Conn
    BY <1>1 DEF ConnsTyped
  <1>3. conn[s][n].sent + 1 \in Nat
    BY <1>2 DEF Conn
  <1>4. conn' \in [End -> [Num -> Conn]]
    BY <1>1, <1>2, <1>3 DEF ConnSend, ConnsTyped, Conn, SendStates
  <1>5. ConnsTyped'
    BY <1>1, <1>4 DEF ConnSend, ConnsTyped
  <1>6. PICK cmd \in {"connect", "push"} : Post(s, <<FrameOf(s, n, cmd, conn[s][n].sent + 1)>>)
    BY DEF ConnSend
  <1>7. <<FrameOf(s, n, cmd, conn[s][n].sent + 1)>> \in Seq(Frame \cup SessFrame)
    BY <1>1, <1>3, FrameTyped DEF Frames
  <1>8. ChanTyped'
    BY <1>1, <1>6, <1>7, PostTyped
  <1>9. LinksTyped'
    BY <1>1, TouchTyped DEF ConnSend, LinksTyped
  <1>10. TicksTyped'
    BY <1>1 DEF ConnSend, TicksTyped
  <1> QED
    BY <1>5, <1>8, <1>9, <1>10, TypedAfter

LEMMA SendStopSendingTyped ==
    ASSUME TypeOK, NEW s \in End, NEW n \in Num, SendStopSending(s, n)
    PROVE  TypeOK'
  <1>1. ConnsTyped /\ LinksTyped /\ TicksTyped /\ ChanTyped
    BY Typed
  <1>2. ConnsTyped'
    <2>1. conn' = [conn EXCEPT ![s][n] = [conn[s][n] EXCEPT !.send = "stopped"]]
      BY DEF SendStopSending
    <2>2. [conn[s][n] EXCEPT !.send = "stopped"] \in Conn
      BY <1>1, ConnUpdates DEF ConnsTyped
    <2> QED
      BY <1>1, <2>1, <2>2, OneConnTyped DEF SendStopSending
  <1>3. <<FrameOf(s, n, "fin", 0)>> \in Seq(Frame \cup SessFrame)
    BY <1>1, FrameTyped, "fin" \in Frames, 0 \in Nat DEF Frames
  <1>4. ChanTyped'
    BY <1>1, <1>3, PostTyped DEF SendStopSending
  <1>5. LinksTyped'
    BY <1>1, TouchTyped DEF SendStopSending, LinksTyped
  <1>6. TicksTyped'
    BY <1>1 DEF SendStopSending, TicksTyped
  <1> QED
    BY <1>2, <1>4, <1>5, <1>6, TypedAfter

LEMMA SendCloseTyped ==
    ASSUME TypeOK, NEW s \in End, NEW n \in Num, SendClose(s, n)
    PROVE  TypeOK'
  <1>1. ConnsTyped /\ LinksTyped /\ TicksTyped /\ ChanTyped
    BY Typed
  <1>2. ConnsTyped'
    <2>1. conn' = [conn EXCEPT ![s][n] = [conn[s][n] EXCEPT !.told = TRUE]]
      BY DEF SendClose
    <2>2. [conn[s][n] EXCEPT !.told = TRUE] \in Conn
      BY <1>1, ConnUpdates DEF ConnsTyped
    <2> QED
      BY <1>1, <2>1, <2>2, OneConnTyped DEF SendClose
  <1>3. ClsFrames(s, n) \in Seq(Frame \cup SessFrame)
    BY <1>1, CloseFramesTyped
  <1>4. ChanTyped'
    BY <1>1, <1>3, PostTyped DEF SendClose
  <1>5. LinksTyped'
    BY <1>1, TouchTyped DEF SendClose, LinksTyped
  <1>6. TicksTyped'
    BY <1>1 DEF SendClose, TicksTyped
  <1> QED
    BY <1>2, <1>4, <1>5, <1>6, TypedAfter

LEMMA ConnClosingTyped ==
    ASSUME TypeOK, NEW s \in End, NEW n \in Num, ConnClose(s, n) \/ TimesOut(s, n)
    PROVE  TypeOK'
  <1>1. ConnsTyped /\ LinksTyped /\ TicksTyped /\ ChanTyped
    BY Typed
  <1>2. ConnCloses(s, n) /\ UNCHANGED <<made, count, mux, link, waitFin, closed>>
    BY DEF ConnClose, TimesOut
  <1>3. ConnsTyped' /\ LinksTyped' /\ TicksTyped' /\ ChanTyped'
    BY <1>1, <1>2, ConnClosesTyped
  <1> QED
    BY <1>3, TypedAfter

LEMMA MuxCloseTyped ==
    ASSUME TypeOK, NEW s \in End, MuxClose(s)
    PROVE  TypeOK'
  <1>1. ConnsTyped /\ LinksTyped /\ TicksTyped /\ ChanTyped
    BY Typed
  <1>2. conn' = [conn EXCEPT ![s] =
                  [n \in Num |-> IF n \in OpenConns(s) THEN ConnClosed(conn[s][n])
                                 ELSE conn[s][n]]]
    BY DEF MuxClose
  <1>3. \A n \in Num : conn[s][n] \in Conn /\ ConnClosed(conn[s][n]) \in Conn
    BY <1>1, ConnClosedTyped DEF ConnsTyped
  <1>4. ConnsTyped'
    BY <1>1, <1>2, <1>3 DEF MuxClose, ConnsTyped
  <1>5. PICK fin \in {<<>>, <<[cmd |-> "sfin"]>>}, sess \in {<<>>, <<[what |-> "sess"]>>} :
            /\ Post(s, ClsOfAll(s) \o fin)
            /\ ticks' = [ticks EXCEPT ![s] = @ \o RemovalOfAll(s) \o sess]
    BY DEF MuxClose
  <1>6. fin \in Seq(Frame \cup SessFrame)
    <2>1. [cmd |-> "sfin"] \in Frame \cup SessFrame
      BY DEF SessFrame, SessCmds
    <2>2. <<[cmd |-> "sfin"]>> \in Seq(Frame \cup SessFrame)
      BY <2>1
    <2>3. <<>> \in Seq(Frame \cup SessFrame)
      OBVIOUS
    <2> QED
      BY <2>2, <2>3
  <1>7. ClsOfAll(s) \o fin \in Seq(Frame \cup SessFrame)
    BY <1>1, <1>6, ClsOfAllTyped, ConcatProperties
  <1>8. ChanTyped'
    BY <1>1, <1>5, <1>7, PostTyped
  <1>9. sess \in Seq(Tick) /\ RemovalOfAll(s) \in Seq(Tick) /\ ticks[s] \in Seq(Tick)
    <2>1. [what |-> "sess"] \in Tick
      BY DEF Tick
    <2>2. <<[what |-> "sess"]>> \in Seq(Tick)
      BY <2>1
    <2>3. <<>> \in Seq(Tick)
      OBVIOUS
    <2> QED
      BY <1>1, <2>2, <2>3, RemovalOfAllTyped DEF TicksTyped
  <1>10. (ticks[s] \o RemovalOfAll(s)) \o sess \in Seq(Tick)
    BY <1>9, ConcatProperties
  <1>11. TicksTyped'
    BY <1>1, <1>5, <1>10 DEF TicksTyped
  <1>12. stale' \in [End -> BOOLEAN]
    BY <1>1, TouchTyped DEF MuxClose
  <1>13. LinksTyped'
    BY <1>1, <1>12 DEF MuxClose, LinksTyped, Links
  <1> QED
    BY <1>4, <1>8, <1>11, <1>13, TypedAfter

(***************************************************************************)
(* Frames that arrive.                                                     *)
(***************************************************************************)
LEMMA RecvConnectNewTyped ==
    ASSUME TypeOK, NEW s \in End, RecvConnectNew(s)
    PROVE  TypeOK'
  <1>1. ConnsTyped /\ LinksTyped /\ TicksTyped /\ ChanTyped
    BY Typed
  <1> DEFINE f == Head(chan[s])
             n == made[s] + 1
  <1>2. f \in Frame /\ chan[s] # <<>>
    BY <1>1, HeadFrame DEF RecvConnectNew, Frames
  <1>3. NewConn(f.id, f.stream) \in Conn /\ f.k \in Nat
    BY <1>2, NewConnTyped DEF Frame
  <1>4. [NewConn(f.id, f.stream) EXCEPT !.recv = "ready", !.rcvd = f.k] \in Conn
    BY <1>3 DEF Conn, RecvStates
  <1>5. /\ n \in Num
        /\ conn' = [conn EXCEPT ![s][n] =
                      [NewConn(f.id, f.stream) EXCEPT !.recv = "ready", !.rcvd = f.k]]
        /\ made' = [made EXCEPT ![s] = n]
    BY DEF RecvConnectNew
  <1>6. n \in Nat
    BY <1>5, Numbers
  <1> HIDE DEF f, n
  <1>7. conn' \in [End -> [Num -> Conn]]
    BY <1>1, <1>4, <1>5 DEF ConnsTyped
  <1>8. ConnsTyped'
    BY <1>1, <1>5, <1>6, <1>7 DEF RecvConnectNew, ConnsTyped
  <1>9. LinksTyped'
    BY <1>1, ReadTyped DEF RecvConnectNew, LinksTyped
  <1>10. ChanTyped'
    BY <1>1, <1>2, ConsumedTyped DEF RecvConnectNew
  <1>11. TicksTyped'
    BY <1>1 DEF RecvConnectNew, TicksTyped
  <1> QED
    BY <1>8, <1>9, <1>10, <1>11, TypedAfter

LEMMA RecvDroppedTyped ==
    ASSUME TypeOK, NEW s \in End,
           RecvInvalidConnect(s) \/ \E cmd \in Frames : RecvUnknown(s, cmd)
    PROVE  TypeOK'
  <1>1. ConnsTyped /\ LinksTyped /\ TicksTyped /\ ChanTyped
    BY Typed
  <1>2. /\ Consumed(s) /\ Read(s)
        /\ UNCHANGED <<conn, made, count, mux, waitFin, ticks, closed, stale>>
        /\ chan[s] # <<>>
    BY DEF RecvInvalidConnect, RecvUnknown, Arrives
  <1>3. ConnsTyped' /\ TicksTyped'
    BY <1>1, <1>2 DEF ConnsTyped, TicksTyped
  <1>4. LinksTyped'
    BY <1>1, <1>2, ReadTyped DEF LinksTyped
  <1>5. ChanTyped'
    BY <1>1, <1>2, ConsumedTyped
  <1> QED
    BY <1>3, <1>4, <1>5, TypedAfter

LEMMA RecvDataTyped ==
    ASSUME TypeOK, NEW s \in End, NEW cmd \in {"connect", "push"}, RecvData(s, cmd)
    PROVE  TypeOK'
  <1>1. ConnsTyped /\ LinksTyped /\ TicksTyped /\ ChanTyped
    BY Typed
  <1> DEFINE f == Head(chan[s])
             n == FirstWithId(s, f.id)
  <1>2. f \in Frame /\ chan[s] # <<>>
    BY <1>1, HeadFrame DEF RecvData, Frames
  <1>3. /\ n \in Num
        /\ f.k \in Nat
    BY <1>2, FirstFound DEF RecvData, Frame
  <1>4. DataTo(s, n, f)
    BY DEF RecvData
  <1> HIDE DEF f, n
  <1>5. conn[s][n] \in Conn
    BY <1>1, <1>3 DEF ConnsTyped
  <1>6. \/ conn' = conn
        \/ conn' = [conn EXCEPT ![s][n] = [conn[s][n] EXCEPT !.recv = "ready", !.rcvd = f.k]]
    <2>1. \/ conn' = conn
          \/ conn' = [conn EXCEPT ![s][n].recv = "ready", ![s][n].rcvd = f.k]
      BY <1>4 DEF DataTo
    <2> QED
      BY <1>1, <1>3, <1>5, <2>1 DEF ConnsTyped, Conn
  <1>7. [conn[s][n] EXCEPT !.recv = "ready", !.rcvd = f.k] \in Conn
    BY <1>3, <1>5, ConnUpdates
  <1>8. ConnsTyped'
    <2>1. UNCHANGED <<made, count>>
      BY <1>4 DEF RecvData, DataTo
    <2>2. CASE conn' = conn
      BY <1>1, <2>1, <2>2 DEF ConnsTyped
    <2> QED
      BY <1>1, <1>3, <1>6, <1>7, <2>1, <2>2, OneConnTyped
  <1>9. ChanTyped'
    BY <1>1, <1>2, <1>4, ConsumedTyped DEF DataTo
  <1>10. LinksTyped'
    BY <1>1, <1>4, ReadTyped DEF RecvData, DataTo, LinksTyped
  <1>11. TicksTyped'
    BY <1>1, <1>4 DEF DataTo, TicksTyped
  <1> QED
    BY <1>8, <1>9, <1>10, <1>11, TypedAfter

LEMMA RecvFinTyped ==
    ASSUME TypeOK, NEW s \in End, RecvFin(s)
    PROVE  TypeOK'
  <1>1. ConnsTyped /\ LinksTyped /\ TicksTyped /\ ChanTyped
    BY Typed
  <1>2. chan[s] # <<>>
    BY DEF RecvFin, Arrives
  <1>3. ConnsTyped'
    <2> DEFINE n == FirstWithId(s, Head(chan[s]).id)
    <2>1. conn' = [conn EXCEPT ![s][n] = [conn[s][n] EXCEPT !.recv = "stop"]]
      BY DEF RecvFin
    <2>2. n \in Num
      BY FirstFound DEF RecvFin
    <2>3. [conn[s][n] EXCEPT !.recv = "stop"] \in Conn
      BY <1>1, <2>2, ConnUpdates DEF ConnsTyped
    <2>4. UNCHANGED <<made, count>>
      BY DEF RecvFin
    <2> HIDE DEF n
    <2> QED
      BY <1>1, <2>1, <2>2, <2>3, <2>4, OneConnTyped
  <1>4. ChanTyped'
    BY <1>1, <1>2, ConsumedTyped DEF RecvFin
  <1>5. LinksTyped'
    BY <1>1, ReadTyped DEF RecvFin, LinksTyped
  <1>6. TicksTyped'
    BY <1>1 DEF RecvFin, TicksTyped
  <1> QED
    BY <1>3, <1>4, <1>5, <1>6, TypedAfter

LEMMA RecvClsTyped ==
    ASSUME TypeOK, NEW s \in End, RecvCls(s)
    PROVE  TypeOK'
  <1>1. ConnsTyped /\ LinksTyped /\ TicksTyped /\ ChanTyped
    BY Typed
  <1> DEFINE n == FirstWithId(s, Head(chan[s]).id)
  <1>2. chan[s] # <<>> /\ n \in Num
    BY FirstFound DEF RecvCls, Arrives
  <1>3. /\ \/ UNCHANGED <<conn, ticks>>
           \/ /\ conn' = [conn EXCEPT ![s][n] = ConnClosed(@)]
              /\ ticks' = [ticks EXCEPT ![s] = Append(@, Removal(n))]
        /\ \E out \in {<<>>, CloseFrames(s, n)} :
              chan' = [chan EXCEPT ![s] = Tail(@), ![Peer(s)] = @ \o out]
        /\ Read(s)
        /\ UNCHANGED <<made, count, mux, waitFin, closed, stale>>
    BY DEF RecvCls
  <1> HIDE DEF n
  <1>4. ConnClosed(conn[s][n]) \in Conn
    BY <1>1, <1>2, ConnClosedTyped DEF ConnsTyped
  <1>5. ConnsTyped'
    <2>1. conn' = conn \/ conn' = [conn EXCEPT ![s][n] = ConnClosed(conn[s][n])]
      BY <1>3
    <2>2. UNCHANGED <<made, count>>
      BY <1>3
    <2>3. CASE conn' = conn
      BY <1>1, <2>2, <2>3 DEF ConnsTyped
    <2> QED
      BY <1>1, <1>2, <1>4, <2>1, <2>2, <2>3, OneConnTyped
  <1>6. TicksTyped'
    <2>1. Removal(n) \in Tick
      BY <1>2 DEF Removal, Tick
    <2> QED
      BY <1>1, <1>3, <2>1, TickAppended DEF TicksTyped
  <1>7. ChanTyped'
    <2>1. PICK out \in {<<>>, CloseFrames(s, n)} :
              chan' = [chan EXCEPT ![s] = Tail(@), ![Peer(s)] = @ \o out]
      BY <1>3
    <2>2. out \in Seq(Frame \cup SessFrame)
      <3>1. CloseFrames(s, n) \in Seq(Frame \cup SessFrame) /\ <<>> \in Seq(Frame \cup SessFrame)
        BY <1>1, <1>2, CloseFramesTyped
      <3> QED
        BY <3>1
    <2>3. Tail(chan[s]) \in Seq(Frame \cup SessFrame)
      BY <1>1, <1>2, TailsTyped
    <2>4. chan[Peer(s)] \o out \in Seq(Frame \cup SessFrame)
      BY <1>1, <2>2, Ends, ConcatProperties DEF ChanTyped
    <2> QED
      BY <1>1, <2>1, <2>3, <2>4, Ends DEF ChanTyped
  <1>8. LinksTyped'
    BY <1>1, <1>3, ReadTyped DEF LinksTyped
  <1> QED
    BY <1>5, <1>6, <1>7, <1>8, TypedAfter

(***************************************************************************)
(* The session and the ticks.                                              *)
(***************************************************************************)
LEMMA SessStepTyped ==
    ASSUME TypeOK, NEW s \in End,
           SessReady(s) \/ RecvSessFin(s) \/ RecvSessFinAck(s) \/ SessAcked(s)
    PROVE  TypeOK'
  <1>1. ConnsTyped /\ LinksTyped /\ TicksTyped /\ ChanTyped
    BY Typed
  <1>2. ConnsTyped'
    BY <1>1 DEF SessReady, RecvSessFin, RecvSessFinAck, SessAcked, ConnsTyped
  <1>3. CASE SessReady(s)
    <2>1. LinksTyped' /\ TicksTyped' /\ ChanTyped'
      BY <1>1, <1>3 DEF SessReady, LinksTyped, Links, TicksTyped, ChanTyped
    <2> QED
      BY <1>2, <2>1, TypedAfter
  <1>4. CASE RecvSessFin(s)
    <2>1. LinksTyped' /\ TicksTyped'
      BY <1>1, <1>4 DEF RecvSessFin, LinksTyped, Links, TicksTyped
    <2>2. [cmd |-> "sfinack"] \in Frame \cup SessFrame
      BY DEF SessFrame, SessCmds
    <2>3. Append(chan[Peer(s)], [cmd |-> "sfinack"]) \in Seq(Frame \cup SessFrame)
      BY <1>1, <2>2, Ends, AppendProperties DEF ChanTyped
    <2>4. Tail(chan[s]) \in Seq(Frame \cup SessFrame)
      BY <1>1, <1>4, TailsTyped DEF RecvSessFin, Arrives
    <2>5. ChanTyped'
      BY <1>1, <1>4, <2>3, <2>4, Ends DEF RecvSessFin, ChanTyped
    <2> QED
      BY <1>2, <2>1, <2>5, TypedAfter
  <1>5. CASE RecvSessFinAck(s)
    <2>1. LinksTyped' /\ TicksTyped'
      BY <1>1, <1>5 DEF RecvSessFinAck, LinksTyped, Links, TicksTyped
    <2>2. ChanTyped'
      BY <1>1, <1>5, ConsumedTyped DEF RecvSessFinAck, Arrives
    <2> QED
      BY <1>2, <2>1, <2>2, TypedAfter
  <1>6. CASE SessAcked(s)
    <2>1. LinksTyped' /\ ChanTyped'
      BY <1>1, <1>6 DEF SessAcked, LinksTyped, Links, ChanTyped
    <2>2. [what |-> "sess"] \in Tick
      BY DEF Tick
    <2>3. TicksTyped'
      BY <1>1, <1>6, <2>2, TickAppended DEF SessAcked
    <2> QED
      BY <1>2, <2>1, <2>3, TypedAfter
  <1> QED
    BY <1>3, <1>4, <1>5, <1>6

LEMMA DeleteSessTyped ==
    ASSUME TypeOK, NEW s \in End, NEW rest \in Seq(Tick), DeleteSess(s, rest)
    PROVE  TypeOK'
  <1>1. ConnsTyped /\ LinksTyped /\ TicksTyped /\ ChanTyped
    BY Typed
  <1>2. ConnsTyped' /\ LinksTyped' /\ ChanTyped'
    BY <1>1 DEF DeleteSess, ConnsTyped, LinksTyped, Links, ChanTyped
  <1>3. [what |-> "mux"] \in Tick
    BY DEF Tick
  <1>4. Append(rest, [what |-> "mux"]) \in Seq(Tick)
    BY <1>3, AppendProperties
  <1>5. TicksTyped'
    BY <1>1, <1>4 DEF DeleteSess, TicksTyped
  <1> QED
    BY <1>2, <1>5, TypedAfter

LEMMA TicksRunTyped ==
    ASSUME TypeOK, NEW s \in End, NextTick(s) \/ WaitFinExpires(s)
    PROVE  TypeOK'
  <1>1. ConnsTyped /\ LinksTyped /\ TicksTyped /\ ChanTyped
    BY Typed
  <1>2. CASE RemoveConn(s)
    <2>1. TicksTyped'
      BY <1>1, <1>2, TickTailed DEF RemoveConn, Runs
    <2>2. ChanTyped' /\ LinksTyped'
      BY <1>1, <1>2 DEF RemoveConn, ChanTyped, LinksTyped
    <2>3. ConnsTyped'
      <3> DEFINE n == Head(ticks[s]).n
      <3>1. conn' = [conn EXCEPT ![s][n] = [conn[s][n] EXCEPT !.live = FALSE]]
        BY <1>2 DEF RemoveConn
      <3>2. Head(ticks[s]) \in Tick /\ Head(ticks[s]).what = "conn"
        BY <1>1, <1>2, TailsTyped DEF RemoveConn, Runs
      <3>3. n \in Num
        BY <3>2 DEF Tick
      <3>4. [conn[s][n] EXCEPT !.live = FALSE] \in Conn
        BY <1>1, <3>3, ConnUpdates DEF ConnsTyped
      <3>5. UNCHANGED <<made, count>>
        BY <1>2 DEF RemoveConn
      <3> HIDE DEF n
      <3> QED
        BY <1>1, <3>1, <3>3, <3>4, <3>5, OneConnTyped
    <2> QED
      BY <2>1, <2>2, <2>3, TypedAfter
  <1>3. CASE RemoveSess(s)
    <2>1. Tail(ticks[s]) \in Seq(Tick)
      BY <1>1, <1>3, TailsTyped DEF RemoveSess, Runs
    <2> QED
      BY <1>3, <2>1, DeleteSessTyped DEF RemoveSess
  <1>4. CASE RemoveMux(s)
    <2>1. TicksTyped'
      BY <1>1, <1>4, TickTailed DEF RemoveMux, Runs
    <2>2. ChanTyped' /\ LinksTyped' /\ ConnsTyped'
      BY <1>1, <1>4 DEF RemoveMux, ChanTyped, LinksTyped, ConnsTyped
    <2> QED
      BY <2>1, <2>2, TypedAfter
  <1>5. CASE WaitFinExpires(s)
    <2>1. <<>> \in Seq(Tick)
      OBVIOUS
    <2> QED
      BY <1>5, <2>1, DeleteSessTyped DEF WaitFinExpires
  <1> QED
    BY <1>2, <1>3, <1>4, <1>5 DEF NextTick

(* The steps of an end, by what they do. *)
Steps(s) ==
    \/ CreateConn(s)
    \/ \E n \in Num : ConnSend(s, n)
    \/ \E n \in Num : SendStopSending(s, n)
    \/ \E n \in Num : SendClose(s, n)
    \/ \E n \in Num : ConnClose(s, n) \/ TimesOut(s, n)
    \/ MuxClose(s)
    \/ RecvConnectNew(s)
    \/ RecvInvalidConnect(s) \/ \E cmd \in Frames : RecvUnknown(s, cmd)
    \/ \E cmd \in {"connect", "push"} : RecvData(s, cmd)
    \/ RecvFin(s)
    \/ RecvCls(s)
    \/ SessReady(s) \/ RecvSessFin(s) \/ RecvSessFinAck(s) \/ SessAcked(s)
    \/ NextTick(s) \/ WaitFinExpires(s)

LEMMA NextIsSteps == Next => \E s \in End : Steps(s)
  BY DEF Next, App, Input, Steps

LEMMA StepTyped == TypeOK /\ [Next]_vars => TypeOK'
  <1> SUFFICES ASSUME TypeOK, [Next]_vars PROVE TypeOK'
    OBVIOUS
  <1>1. CASE UNCHANGED vars
    BY <1>1 DEF vars, TypeOK
  <1>2. CASE Next
    <2>1. PICK s \in End : Steps(s)
      BY <1>2, NextIsSteps
    <2> QED
      BY <2>1, CreateConnTyped, ConnSendTyped, SendStopSendingTyped, SendCloseTyped,
         ConnClosingTyped, MuxCloseTyped, RecvConnectNewTyped, RecvDroppedTyped,
         RecvDataTyped, RecvFinTyped, RecvClsTyped, SessStepTyped, TicksRunTyped
         DEF Steps
  <1> QED
    BY <1>1, <1>2

(* Every variable of the two muxes has its type in every reachable state,  *)
(* with any ids, any number of conns and any order of calls and frames.    *)
THEOREM TypeCorrect == Spec => []TypeOK
  <1>1. Init => TypeOK
    BY InitTyped
  <1>2. TypeOK /\ [Next]_vars => TypeOK'
    BY StepTyped
  <1> QED
    BY <1>1, <1>2, PTL DEF Spec

(***************************************************************************)
(* Removals.  Match(q, C): the removals in the ticks q are those of the    *)
(* conns C, each once.                                                     *)
(***************************************************************************)
RemovalsIn(q) == {i \in DOMAIN q : q[i].what = "conn"}

Match(q, C) ==
    /\ {q[i].n : i \in RemovalsIn(q)} = C
    /\ \A i, j \in RemovalsIn(q) : q[i].n = q[j].n => i = j

Closing(s) == {n \in Listed(s) : conn[s][n].closing}

LEMMA RemovalsMatch == RemovalsListed <=> \A s \in End : Match(ticks[s], Closing(s))
  BY DEF RemovalsListed, Removals, Match, RemovalsIn, Closing

LEMMA MatchTail ==
    ASSUME NEW q \in Seq(Tick), q # <<>>, NEW C, Match(q, C)
    PROVE  /\ Head(q).what # "conn" => Match(Tail(q), C)
           /\ Head(q).what = "conn" => Match(Tail(q), C \ {Head(q).n})
  <1> DEFINE r == Tail(q)
  <1>1. Len(q) \in Nat \ {0} /\ DOMAIN q = 1..Len(q) /\ Head(q) = q[1]
    BY EmptySeq, LenProperties
  <1>2. /\ r \in Seq(Tick) /\ Len(r) = Len(q) - 1 /\ DOMAIN r = 1..Len(r)
        /\ \A i \in 1..Len(r) : r[i] = q[i + 1]
    BY HeadTailProperties, LenProperties
  <1> HIDE DEF r
  <1>3. \A i \in RemovalsIn(r) : i + 1 \in RemovalsIn(q) /\ r[i].n = q[i + 1].n /\ i + 1 # 1
    BY <1>1, <1>2, SMT DEF RemovalsIn
  <1>4. \A j \in RemovalsIn(q) :
          j = 1 \/ (j - 1 \in RemovalsIn(r) /\ r[j - 1].n = q[j].n)
    BY <1>1, <1>2, SMT DEF RemovalsIn
  <1>5. \A i, j \in RemovalsIn(r) : r[i].n = r[j].n => i = j
    <2> SUFFICES ASSUME NEW i \in RemovalsIn(r), NEW j \in RemovalsIn(r), r[i].n = r[j].n
                 PROVE  i = j
      OBVIOUS
    <2>1. i + 1 = j + 1
      BY <1>3 DEF Match
    <2>2. i \in Int /\ j \in Int
      BY <1>2 DEF RemovalsIn
    <2> QED
      BY <2>1, <2>2, SMT
  <1>6. {r[i].n : i \in RemovalsIn(r)} = {q[j].n : j \in RemovalsIn(q) \ {1}}
    <2>1. {r[i].n : i \in RemovalsIn(r)} \subseteq {q[j].n : j \in RemovalsIn(q) \ {1}}
      BY <1>3
    <2>2. {q[j].n : j \in RemovalsIn(q) \ {1}} \subseteq {r[i].n : i \in RemovalsIn(r)}
      BY <1>4
    <2> QED
      BY <2>1, <2>2
  <1>7. CASE q[1].what # "conn"
    <2>1. RemovalsIn(q) \ {1} = RemovalsIn(q)
      BY <1>7 DEF RemovalsIn
    <2>2. Match(r, C)
      BY <1>5, <1>6, <2>1 DEF Match
    <2> QED
      BY <1>1, <1>7, <2>2 DEF r
  <1>8. CASE q[1].what = "conn"
    <2>1. 1 \in RemovalsIn(q)
      BY <1>1, <1>8, SMT DEF RemovalsIn
    <2>2. {q[j].n : j \in RemovalsIn(q) \ {1}} = C \ {q[1].n}
      BY <2>1 DEF Match
    <2>3. Match(r, C \ {q[1].n})
      BY <1>5, <1>6, <2>2 DEF Match
    <2> QED
      BY <1>1, <1>8, <2>3 DEF r
  <1> QED
    BY <1>7, <1>8

LEMMA MatchConcat ==
    ASSUME NEW q \in Seq(Tick), NEW r \in Seq(Tick), NEW C, NEW D,
           Match(q, C), Match(r, D), C \cap D = {}
    PROVE  q \o r \in Seq(Tick) /\ Match(q \o r, C \cup D)
  <1> DEFINE w == q \o r
             k == Len(q)
  <1>1. k \in Nat /\ DOMAIN q = 1..k /\ Len(r) \in Nat /\ DOMAIN r = 1..Len(r)
    BY LenProperties
  <1>2. /\ w \in Seq(Tick) /\ Len(w) = k + Len(r) /\ DOMAIN w = 1..Len(w)
        /\ \A i \in 1..Len(w) : w[i] = IF i <= k THEN q[i] ELSE r[i - k]
    BY ConcatProperties, LenProperties
  <1> HIDE DEF w, k
  <1>3. \A i \in RemovalsIn(w) :
          \/ i \in RemovalsIn(q) /\ w[i].n = q[i].n
          \/ i - k \in RemovalsIn(r) /\ w[i].n = r[i - k].n
    BY <1>1, <1>2, SMT DEF RemovalsIn
  <1>4. \A i \in RemovalsIn(q) : i \in RemovalsIn(w) /\ w[i].n = q[i].n
    BY <1>1, <1>2, SMT DEF RemovalsIn
  <1>5. \A i \in RemovalsIn(r) : i + k \in RemovalsIn(w) /\ w[i + k].n = r[i].n
    <2> SUFFICES ASSUME NEW i \in RemovalsIn(r)
                 PROVE  i + k \in RemovalsIn(w) /\ w[i + k].n = r[i].n
      OBVIOUS
    <2>1. i \in 1..Len(r) /\ r[i].what = "conn"
      BY <1>1 DEF RemovalsIn
    <2>2. i + k \in 1..Len(w) /\ ~(i + k <= k) /\ (i + k) - k = i
      BY <1>1, <1>2, <2>1, SMT
    <2>3. w[i + k] = r[i]
      BY <1>2, <2>2
    <2> QED
      BY <1>2, <2>1, <2>2, <2>3 DEF RemovalsIn
  <1>6. {w[i].n : i \in RemovalsIn(w)} = C \cup D
    <2>1. {w[i].n : i \in RemovalsIn(w)} \subseteq C \cup D
      BY <1>3 DEF Match
    <2>2. C \subseteq {w[i].n : i \in RemovalsIn(w)}
      BY <1>4 DEF Match
    <2>3. D \subseteq {w[i].n : i \in RemovalsIn(w)}
      BY <1>5 DEF Match
    <2> QED
      BY <2>1, <2>2, <2>3
  <1>7. \A i, j \in RemovalsIn(w) : w[i].n = w[j].n => i = j
    <2> SUFFICES ASSUME NEW i \in RemovalsIn(w), NEW j \in RemovalsIn(w), w[i].n = w[j].n
                 PROVE  i = j
      OBVIOUS
    <2>1. \/ i \in RemovalsIn(q) /\ w[i].n \in C /\ w[i].n = q[i].n
          \/ i - k \in RemovalsIn(r) /\ w[i].n \in D /\ w[i].n = r[i - k].n
      BY <1>3 DEF Match
    <2>2. \/ j \in RemovalsIn(q) /\ w[j].n \in C /\ w[j].n = q[j].n
          \/ j - k \in RemovalsIn(r) /\ w[j].n \in D /\ w[j].n = r[j - k].n
      BY <1>3 DEF Match
    <2>3. i = j \/ i - k = j - k
      BY <2>1, <2>2 DEF Match
    <2>4. i \in Int /\ j \in Int
      BY <1>2 DEF RemovalsIn
    <2> QED
      BY <1>1, <2>3, <2>4, SMT
  <1>8. w \in Seq(Tick) /\ Match(w, C \cup D)
    BY <1>2, <1>6, <1>7 DEF Match
  <1> QED
    BY <1>8 DEF w

LEMMA MatchOne ==
    ASSUME NEW t \in Tick
    PROVE  /\ <<t>> \in Seq(Tick)
           /\ t.what # "conn" => Match(<<t>>, {})
           /\ t.what = "conn" => Match(<<t>>, {t.n})
  <1>1. <<t>> \in Seq(Tick) /\ DOMAIN <<t>> = {1} /\ <<t>>[1] = t
    OBVIOUS
  <1>2. t.what # "conn" => RemovalsIn(<<t>>) = {}
    BY <1>1 DEF RemovalsIn
  <1>3. t.what = "conn" => RemovalsIn(<<t>>) = {1}
    BY <1>1 DEF RemovalsIn
  <1>4. t.what # "conn" => Match(<<t>>, {})
    BY <1>2 DEF Match
  <1>5. t.what = "conn" => Match(<<t>>, {t.n})
    BY <1>1, <1>3 DEF Match
  <1> QED
    BY <1>1, <1>4, <1>5

LEMMA MatchNone == <<>> \in Seq(Tick) /\ Match(<<>>, {})
  <1>1. RemovalsIn(<<>>) = {}
    BY DEF RemovalsIn
  <1> QED
    BY <1>1 DEF Match

LEMMA MatchAppend ==
    ASSUME NEW q \in Seq(Tick), NEW C, Match(q, C), NEW t \in Tick
    PROVE  /\ t.what # "conn" => Match(Append(q, t), C)
           /\ t.what = "conn" /\ t.n \notin C => Match(Append(q, t), C \cup {t.n})
  <1>1. Append(q, t) = q \o <<t>>
    BY AppendIsConcat
  <1>2. CASE t.what # "conn"
    <2>1. Match(<<t>>, {}) /\ <<t>> \in Seq(Tick)
      BY <1>2, MatchOne
    <2>2. C \cap {} = {} /\ C \cup {} = C
      OBVIOUS
    <2>3. Match(q \o <<t>>, C \cup {})
      BY <2>1, <2>2, MatchConcat
    <2> QED
      BY <1>1, <1>2, <2>2, <2>3
  <1>3. CASE t.what = "conn" /\ t.n \notin C
    <2>1. Match(<<t>>, {t.n}) /\ <<t>> \in Seq(Tick)
      BY <1>3, MatchOne
    <2>2. C \cap {t.n} = {}
      BY <1>3
    <2>3. Match(q \o <<t>>, C \cup {t.n})
      BY <2>1, <2>2, MatchConcat
    <2> QED
      BY <1>1, <1>3, <2>3
  <1> QED
    BY <1>2, <1>3

LEMMA MatchAll ==
    ASSUME NEW s \in End
    PROVE  Match(RemovalOfAll(s), OpenConns(s))
  <1> DEFINE q == RemovalOfAll(s)
             S == OpenConns(s)
             L == InList(S)
  <1>1. S \in SUBSET Num
    BY DEF OpenConns, Listed
  <1>2. /\ q \in Seq(Tick) /\ Len(q) = Cardinality(S)
        /\ \A i \in 1..Len(q) : q[i].what = "conn" /\ q[i].n = L[i]
    BY RemovalOfAllTyped
  <1>3. /\ L \in [1..Cardinality(S) -> S]
        /\ \A n \in S : \E i \in 1..Cardinality(S) : L[i] = n
        /\ \A i, j \in 1..Cardinality(S) : L[i] = L[j] => i = j
    BY <1>1, ListOrder
  <1>4. DOMAIN q = 1..Len(q)
    BY <1>2, LenProperties
  <1> HIDE DEF q, S, L
  <1>5. RemovalsIn(q) = 1..Cardinality(S)
    BY <1>2, <1>4 DEF RemovalsIn
  <1>6. {q[i].n : i \in RemovalsIn(q)} = S
    <2>1. {q[i].n : i \in RemovalsIn(q)} \subseteq S
      BY <1>2, <1>3, <1>5
    <2>2. S \subseteq {q[i].n : i \in RemovalsIn(q)}
      BY <1>2, <1>3, <1>5
    <2> QED
      BY <2>1, <2>2
  <1>7. \A i, j \in RemovalsIn(q) : q[i].n = q[j].n => i = j
    BY <1>2, <1>3, <1>5
  <1>8. Match(q, S)
    BY <1>6, <1>7 DEF Match
  <1> QED
    BY <1>8 DEF q, S

(***************************************************************************)
(* RemovalsListed needs that the conns not yet made are not in the list.   *)
(***************************************************************************)
Fresh == \A s \in End, n \in Num : n > made[s] => ~conn[s][n].live

RemovalInv == RemovalsListed /\ Fresh

LEMMA OneConn ==
    ASSUME TypeOK, NEW s \in End, NEW n \in Num, NEW c, conn' = [conn EXCEPT ![s][n] = c]
    PROVE  /\ \A t \in End, m \in Num :
                conn'[t][m] = IF t = s /\ m = n THEN c ELSE conn[t][m]
           /\ \A t \in End : t # s => Closing(t)' = Closing(t)
           /\ c.live /\ c.closing => Closing(s)' = Closing(s) \cup {n}
           /\ ~(c.live /\ c.closing) => Closing(s)' = Closing(s) \ {n}
  <1>1. conn \in [End -> [Num -> Conn]]
    BY DEF TypeOK
  <1>2. \A t \in End, m \in Num : conn'[t][m] = IF t = s /\ m = n THEN c ELSE conn[t][m]
    BY <1>1
  <1>3. \A t \in End : Closing(t) = {m \in Num : conn[t][m].live /\ conn[t][m].closing}
    BY DEF Closing, Listed
  <1>4. \A t \in End : Closing(t)' = {m \in Num : conn'[t][m].live /\ conn'[t][m].closing}
    BY DEF Closing, Listed
  <1>5. \A t \in End : t # s => Closing(t)' = Closing(t)
    <2> SUFFICES ASSUME NEW t \in End, t # s PROVE Closing(t)' = Closing(t)
      OBVIOUS
    <2>1. \A m \in Num : conn'[t][m] = conn[t][m]
      BY <1>2
    <2> QED
      BY <2>1 DEF Closing, Listed
  <1>6. c.live /\ c.closing => Closing(s)' = Closing(s) \cup {n}
    BY <1>2, <1>3, <1>4
  <1>7. ~(c.live /\ c.closing) => Closing(s)' = Closing(s) \ {n}
    BY <1>2, <1>3, <1>4
  <1> QED
    BY <1>2, <1>5, <1>6, <1>7

(* Only the ticks of s and the conns of s change. *)
LEMMA EndMatches ==
    ASSUME RemovalsListed, NEW s \in End,
           \A t \in End : t # s => ticks'[t] = ticks[t] /\ Closing(t)' = Closing(t),
           Match(ticks'[s], Closing(s)')
    PROVE  RemovalsListed'
  <1>1. \A t \in End : Match(ticks'[t], Closing(t)')
    BY RemovalsMatch
  <1> QED
    BY <1>1 DEF RemovalsListed, Removals, Match, RemovalsIn, Closing

LEMMA SameConnsMatch ==
    ASSUME RemovalInv, UNCHANGED <<ticks, made>>,
           \A t \in End, n \in Num : /\ conn'[t][n].live = conn[t][n].live
                                     /\ conn'[t][n].closing = conn[t][n].closing
    PROVE  RemovalInv'
  <1>1. \A t \in End : Closing(t)' = Closing(t)
    BY DEF Closing, Listed
  <1>2. A \in End
    BY Ends
  <1>3. Match(ticks[A], Closing(A))
    BY <1>2, RemovalsMatch DEF RemovalInv
  <1>4. RemovalsListed'
    BY <1>1, <1>2, <1>3, EndMatches DEF RemovalInv
  <1>5. Fresh'
    BY DEF Fresh, RemovalInv
  <1> QED
    BY <1>4, <1>5 DEF RemovalInv

LEMMA ConnKept ==
    ASSUME TypeOK, RemovalInv, UNCHANGED <<ticks, made>>,
           NEW s \in End, NEW n \in Num, NEW c, conn' = [conn EXCEPT ![s][n] = c],
           c.live = conn[s][n].live, c.closing = conn[s][n].closing
    PROVE  RemovalInv'
  <1>1. \A t \in End, m \in Num :
          conn'[t][m] = IF t = s /\ m = n THEN c ELSE conn[t][m]
    BY DEF TypeOK
  <1>2. \A t \in End, m \in Num : /\ conn'[t][m].live = conn[t][m].live
                                  /\ conn'[t][m].closing = conn[t][m].closing
    BY <1>1
  <1> QED
    BY <1>2, SameConnsMatch

LEMMA Fields ==
    ASSUME NEW c \in Conn, NEW k
    PROVE  /\ [c EXCEPT !.send = "ready", !.sent = k].live = c.live
           /\ [c EXCEPT !.send = "ready", !.sent = k].closing = c.closing
           /\ [c EXCEPT !.send = "stopped"].live = c.live
           /\ [c EXCEPT !.send = "stopped"].closing = c.closing
           /\ [c EXCEPT !.told = TRUE].live = c.live
           /\ [c EXCEPT !.told = TRUE].closing = c.closing
           /\ [c EXCEPT !.recv = "stop"].live = c.live
           /\ [c EXCEPT !.recv = "stop"].closing = c.closing
           /\ [c EXCEPT !.recv = "ready", !.rcvd = k].live = c.live
           /\ [c EXCEPT !.recv = "ready", !.rcvd = k].closing = c.closing
           /\ [c EXCEPT !.live = FALSE].live = FALSE
  BY DEF Conn

(* What a step does to the conns of the two ends. *)
LEMMA SendingConn ==
    ASSUME TypeOK, NEW s \in End, NEW n \in Num
    PROVE  /\ conn[s][n] \in Conn
           /\ ConnSend(s, n) =>
                conn' = [conn EXCEPT ![s][n] =
                           [conn[s][n] EXCEPT !.send = "ready", !.sent = conn[s][n].sent + 1]]
           /\ SendStopSending(s, n) =>
                conn' = [conn EXCEPT ![s][n] = [conn[s][n] EXCEPT !.send = "stopped"]]
           /\ SendClose(s, n) =>
                conn' = [conn EXCEPT ![s][n] = [conn[s][n] EXCEPT !.told = TRUE]]
  <1>1. conn \in [End -> [Num -> Conn]] /\ conn[s][n] \in Conn
    BY DEF TypeOK
  <1>2. ASSUME ConnSend(s, n)
        PROVE  conn' = [conn EXCEPT ![s][n] =
                           [conn[s][n] EXCEPT !.send = "ready", !.sent = conn[s][n].sent + 1]]
    <2>1. conn' = [conn EXCEPT ![s][n].send = "ready", ![s][n].sent = conn[s][n].sent + 1]
      BY <1>1, <1>2 DEF ConnSend, Conn
    <2> QED
      BY <1>1, <2>1 DEF Conn
  <1>3. SendStopSending(s, n) =>
          conn' = [conn EXCEPT ![s][n] = [conn[s][n] EXCEPT !.send = "stopped"]]
    BY DEF SendStopSending
  <1>4. SendClose(s, n) =>
          conn' = [conn EXCEPT ![s][n] = [conn[s][n] EXCEPT !.told = TRUE]]
    BY DEF SendClose
  <1> QED
    BY <1>1, <1>2, <1>3, <1>4

LEMMA ReceivingConn ==
    ASSUME TypeOK, NEW s \in End,
           RecvFin(s) \/ \E cmd \in {"connect", "push"} : RecvData(s, cmd)
    PROVE  /\ UNCHANGED <<ticks, made>>
           /\ \E n \in Num :
                /\ conn[s][n] \in Conn
                /\ \/ conn' = conn
                   \/ conn' = [conn EXCEPT ![s][n] = [conn[s][n] EXCEPT !.recv = "stop"]]
                   \/ \E k \in Nat : conn' = [conn EXCEPT ![s][n] =
                                       [conn[s][n] EXCEPT !.recv = "ready", !.rcvd = k]]
  <1>1. conn \in [End -> [Num -> Conn]] /\ ChanTyped
    BY Typed DEF TypeOK
  <1>2. CASE RecvFin(s)
    <2> DEFINE n == FirstWithId(s, Head(chan[s]).id)
    <2>1. conn' = [conn EXCEPT ![s][n] = [conn[s][n] EXCEPT !.recv = "stop"]]
      BY <1>2 DEF RecvFin
    <2>2. n \in Num
      BY <1>2, FirstFound DEF RecvFin
    <2>3. UNCHANGED <<ticks, made>>
      BY <1>2 DEF RecvFin
    <2>4. conn[s][n] \in Conn
      BY <1>1, <2>2
    <2> QED
      BY <2>1, <2>2, <2>3, <2>4
  <1>3. ASSUME NEW cmd \in {"connect", "push"}, RecvData(s, cmd)
        PROVE  /\ UNCHANGED <<ticks, made>>
               /\ \E n \in Num :
                    /\ conn[s][n] \in Conn
                    /\ \/ conn' = conn
                       \/ \E k \in Nat : conn' = [conn EXCEPT ![s][n] =
                                           [conn[s][n] EXCEPT !.recv = "ready", !.rcvd = k]]
    <2> DEFINE f == Head(chan[s])
               n == FirstWithId(s, f.id)
    <2>1. f \in Frame
      BY <1>1, <1>3, HeadFrame DEF RecvData, Frames
    <2>2. f.k \in Nat
      BY <2>1 DEF Frame
    <2>3. n \in Num
      BY <1>3, FirstFound DEF RecvData
    <2>4. DataTo(s, n, f)
      BY <1>3 DEF RecvData
    <2> HIDE DEF f, n
    <2>5. conn[s][n] \in Conn
      BY <1>1, <2>3
    <2>6. UNCHANGED <<ticks, made>>
      BY <2>4 DEF DataTo
    <2>7. \/ conn' = conn
          \/ conn' = [conn EXCEPT ![s][n].recv = "ready", ![s][n].rcvd = f.k]
      BY <2>4 DEF DataTo
    <2>8. \/ conn' = conn
          \/ conn' = [conn EXCEPT ![s][n] = [conn[s][n] EXCEPT !.recv = "ready", !.rcvd = f.k]]
      BY <1>1, <2>3, <2>5, <2>7 DEF Conn
    <2> QED
      BY <2>2, <2>3, <2>5, <2>6, <2>8
  <1> QED
    BY <1>2, <1>3

(* A conn is made: CreateConn (whose conn may be beyond the bound of the   *)
(* model, hence the disjunction) and a CONNECT.                            *)
LEMMA MakingConn ==
    ASSUME TypeOK, NEW s \in End, CreateConn(s) \/ RecvConnectNew(s)
    PROVE  /\ ticks' = ticks
           /\ made' = [made EXCEPT ![s] = made[s] + 1]
           /\ made[s] \in Nat
           /\ \E c : /\ conn' = [conn EXCEPT ![s][made[s] + 1] = c]
                     /\ c.live /\ ~c.closing
  <1>1. made[s] \in Nat
    BY DEF TypeOK
  <1>2. CASE CreateConn(s)
    <2>1. conn' = [conn EXCEPT ![s][made[s] + 1] = NewConn(NextId(s), <<s, made[s] + 1>>)]
      BY <1>2 DEF CreateConn
    <2>2. NewConn(NextId(s), <<s, made[s] + 1>>).live
      BY DEF NewConn
    <2>3. ~NewConn(NextId(s), <<s, made[s] + 1>>).closing
      BY DEF NewConn
    <2>4. ticks' = ticks /\ made' = [made EXCEPT ![s] = made[s] + 1]
      BY <1>2 DEF CreateConn
    <2> QED
      BY <1>1, <2>1, <2>2, <2>3, <2>4
  <1>3. CASE RecvConnectNew(s)
    <2> DEFINE f == Head(chan[s])
               c == [NewConn(f.id, f.stream) EXCEPT !.recv = "ready", !.rcvd = f.k]
    <2>1. conn' = [conn EXCEPT ![s][made[s] + 1] = c]
      BY <1>3 DEF RecvConnectNew
    <2>2. c.live /\ ~c.closing
      BY DEF NewConn
    <2>3. ticks' = ticks /\ made' = [made EXCEPT ![s] = made[s] + 1]
      BY <1>3 DEF RecvConnectNew
    <2> QED
      BY <1>1, <2>1, <2>2, <2>3
  <1> QED
    BY <1>2, <1>3

LEMMA MakingConnMatches ==
    ASSUME TypeOK, RemovalInv, NEW s \in End, CreateConn(s) \/ RecvConnectNew(s)
    PROVE  RemovalInv'
  <1> DEFINE n == made[s] + 1
  <1>1. /\ ticks' = ticks /\ made[s] \in Nat
        /\ made' = [made EXCEPT ![s] = n]
    BY MakingConn
  <1>2. PICK c : conn' = [conn EXCEPT ![s][n] = c] /\ c.live /\ ~c.closing
    BY MakingConn
  <1>3. made \in [End -> Nat] /\ conn \in [End -> [Num -> Conn]]
    BY DEF TypeOK
  <1>4. n \in Nat /\ n > made[s]
    BY <1>1, SMT
  <1>5. made'[s] = n /\ \A t \in End : t # s => made'[t] = made[t]
    BY <1>1, <1>3
  <1>6. \A t \in End, m \in Num : m # n \/ t # s => conn'[t][m] = conn[t][m]
    BY <1>2, <1>3
  <1> HIDE DEF n
  <1>7. Fresh'
    <2> SUFFICES ASSUME NEW t \in End, NEW m \in Num, m > made'[t]
                 PROVE  ~conn'[t][m].live
      BY DEF Fresh
    <2>1. m \in Nat
      BY Numbers
    <2>2. CASE t = s
      <3>1. m # n /\ m > made[s]
        BY <1>1, <1>4, <1>5, <2>1, <2>2, SMT
      <3> QED
        BY <1>6, <2>2, <3>1 DEF RemovalInv, Fresh
    <2>3. CASE t # s
      BY <1>5, <1>6, <2>3 DEF RemovalInv, Fresh
    <2> QED
      BY <2>2, <2>3
  <1>8. n \in Num => ~conn[s][n].live
    BY <1>4 DEF RemovalInv, Fresh
  <1>9. \A t \in End : Closing(t)' = Closing(t)
    <2>1. CASE n \in Num
      <3>1. \A t \in End : t # s => Closing(t)' = Closing(t)
        BY <1>2, <2>1, OneConn
      <3>2. Closing(s)' = Closing(s) \ {n}
        BY <1>2, <2>1, OneConn
      <3>3. n \notin Closing(s)
        BY <1>8 DEF Closing, Listed
      <3> QED
        BY <3>1, <3>2, <3>3
    <2>2. CASE n \notin Num
      <3>1. \A t \in End, m \in Num : conn'[t][m] = conn[t][m]
        BY <1>6, <2>2
      <3> QED
        BY <3>1 DEF Closing, Listed
    <2> QED
      BY <2>1, <2>2
  <1>10. RemovalsListed'
    BY <1>1, <1>9, RemovalsMatch, EndMatches DEF RemovalInv
  <1> QED
    BY <1>7, <1>10 DEF RemovalInv

(***************************************************************************)
(* A conn that closes enters the ticks.                                    *)
(***************************************************************************)
LEMMA ClosingConnMatches ==
    ASSUME TypeOK, RemovalInv, NEW s \in End, NEW n \in Num,
           conn[s][n].live, ~conn[s][n].closing,
           conn' = [conn EXCEPT ![s][n] = ConnClosed(conn[s][n])],
           ticks' = [ticks EXCEPT ![s] = Append(@, Removal(n))],
           UNCHANGED made
    PROVE  RemovalInv'
  <1>1. conn[s][n] \in Conn /\ ticks[s] \in Seq(Tick)
    BY DEF TypeOK
  <1>2. ConnClosed(conn[s][n]).live /\ ConnClosed(conn[s][n]).closing
    BY <1>1, ConnClosedTyped
  <1>3. /\ Closing(s)' = Closing(s) \cup {n}
        /\ \A t \in End : t # s => Closing(t)' = Closing(t)
    BY <1>2, OneConn
  <1>4. n \notin Closing(s)
    BY DEF Closing
  <1>5. Removal(n) \in Tick /\ Removal(n).what = "conn" /\ Removal(n).n = n
    BY DEF Removal, Tick
  <1>6. Match(ticks[s], Closing(s))
    BY RemovalsMatch DEF RemovalInv
  <1>7. Match(Append(ticks[s], Removal(n)), Closing(s) \cup {n})
    <2>1. Removal(n).n \notin Closing(s)
      BY <1>4, <1>5
    <2>2. Match(Append(ticks[s], Removal(n)), Closing(s) \cup {Removal(n).n})
      BY <1>1, <1>5, <1>6, <2>1, MatchAppend
    <2> QED
      BY <1>5, <2>2
  <1>8. /\ ticks'[s] = Append(ticks[s], Removal(n))
        /\ \A t \in End : t # s => ticks'[t] = ticks[t]
    BY DEF TypeOK
  <1>9. RemovalsListed'
    BY <1>3, <1>7, <1>8, EndMatches DEF RemovalInv
  <1>10. \A t \in End, m \in Num : conn'[t][m].live = conn[t][m].live
    <2>1. \A t \in End, m \in Num :
            conn'[t][m] = IF t = s /\ m = n THEN ConnClosed(conn[s][n]) ELSE conn[t][m]
      BY DEF TypeOK
    <2>2. ConnClosed(conn[s][n]).live = conn[s][n].live
      BY <1>1, ConnClosedTyped
    <2> SUFFICES ASSUME NEW t \in End, NEW m \in Num
                 PROVE  conn'[t][m].live = conn[t][m].live
      OBVIOUS
    <2>3. CASE t = s /\ m = n
      <3>1. conn'[t][m] = ConnClosed(conn[s][n])
        BY <2>1, <2>3
      <3> QED
        BY <2>2, <2>3, <3>1
    <2>4. CASE ~(t = s /\ m = n)
      <3>1. conn'[t][m] = conn[t][m]
        BY <2>1, <2>4
      <3> QED
        BY <3>1
    <2> QED
      BY <2>3, <2>4
  <1>11. Fresh'
    BY <1>10 DEF Fresh, RemovalInv
  <1> QED
    BY <1>9, <1>11 DEF RemovalInv

LEMMA ConnClosingMatches ==
    ASSUME TypeOK, RemovalInv, NEW s \in End, NEW n \in Num, ConnClose(s, n) \/ TimesOut(s, n)
    PROVE  RemovalInv'
  <1>1. /\ conn[s][n].live /\ ~conn[s][n].closing
        /\ conn' = [conn EXCEPT ![s][n] = ConnClosed(conn[s][n])]
        /\ ticks' = [ticks EXCEPT ![s] = Append(@, Removal(n))]
        /\ UNCHANGED made
    BY DEF ConnClose, TimesOut, ConnCloses
  <1> QED
    BY <1>1, ClosingConnMatches

LEMMA RecvClsMatches ==
    ASSUME TypeOK, RemovalInv, NEW s \in End, RecvCls(s)
    PROVE  RemovalInv'
  <1> DEFINE n == FirstWithId(s, Head(chan[s]).id)
  <1>1. n \in Num /\ conn[s][n].live
    BY FirstFound DEF RecvCls
  <1>2. CASE conn[s][n].closing
    <2>1. UNCHANGED <<conn, ticks, made>>
      BY <1>2 DEF RecvCls
    <2> QED
      BY <2>1, SameConnsMatch
  <1>3. CASE ~conn[s][n].closing
    <2>1. /\ conn' = [conn EXCEPT ![s][n] = ConnClosed(conn[s][n])]
          /\ ticks' = [ticks EXCEPT ![s] = Append(@, Removal(n))]
          /\ UNCHANGED made
      BY <1>3 DEF RecvCls
    <2> HIDE DEF n
    <2> QED
      BY <1>1, <1>3, <2>1, ClosingConnMatches
  <1> QED
    BY <1>2, <1>3

(* What MuxClose does to the conns and the ticks of its end. *)
LEMMA MuxClosing ==
    ASSUME TypeOK, NEW s \in End, MuxClose(s)
    PROVE  /\ made' = made
           /\ \A t \in End, n \in Num :
                conn'[t][n] = IF t = s /\ n \in OpenConns(s)
                                THEN ConnClosed(conn[s][n]) ELSE conn[t][n]
           /\ \E sess \in {<<>>, <<[what |-> "sess"]>>} :
                /\ ticks'[s] = (ticks[s] \o RemovalOfAll(s)) \o sess
                /\ \A t \in End : t # s => ticks'[t] = ticks[t]
  <1>1. conn' = [conn EXCEPT ![s] =
                  [n \in Num |-> IF n \in OpenConns(s) THEN ConnClosed(conn[s][n])
                                 ELSE conn[s][n]]]
    BY DEF MuxClose
  <1>2. \A t \in End, n \in Num :
                conn'[t][n] = IF t = s /\ n \in OpenConns(s)
                                THEN ConnClosed(conn[s][n]) ELSE conn[t][n]
    <2> SUFFICES ASSUME NEW t \in End, NEW n \in Num
                 PROVE  conn'[t][n] = IF t = s /\ n \in OpenConns(s)
                                        THEN ConnClosed(conn[s][n]) ELSE conn[t][n]
      OBVIOUS
    <2>1. conn \in [End -> [Num -> Conn]]
      BY DEF TypeOK
    <2>2. CASE t = s
      <3>1. conn'[s] = [m \in Num |-> IF m \in OpenConns(s) THEN ConnClosed(conn[s][m])
                                      ELSE conn[s][m]]
        BY <1>1, <2>1
      <3> QED
        BY <2>2, <3>1
    <2>3. CASE t # s
      BY <1>1, <2>1, <2>3
    <2> QED
      BY <2>2, <2>3
  <1>3. PICK sess \in {<<>>, <<[what |-> "sess"]>>} :
            ticks' = [ticks EXCEPT ![s] = @ \o RemovalOfAll(s) \o sess]
    BY DEF MuxClose
  <1>4. ticks' = [ticks EXCEPT ![s] = (ticks[s] \o RemovalOfAll(s)) \o sess]
    BY <1>3
  <1>5. /\ ticks'[s] = (ticks[s] \o RemovalOfAll(s)) \o sess
        /\ \A t \in End : t # s => ticks'[t] = ticks[t]
    BY <1>4 DEF TypeOK
  <1>6. made' = made
    BY DEF MuxClose
  <1> QED
    BY <1>2, <1>5, <1>6

LEMMA MuxCloseMatches ==
    ASSUME TypeOK, RemovalInv, NEW s \in End, MuxClose(s)
    PROVE  RemovalInv'
  <1>1. \A t \in End, n \in Num :
                conn'[t][n] = IF t = s /\ n \in OpenConns(s)
                                THEN ConnClosed(conn[s][n]) ELSE conn[t][n]
    BY MuxClosing
  <1>2. PICK sess \in {<<>>, <<[what |-> "sess"]>>} :
            /\ ticks'[s] = (ticks[s] \o RemovalOfAll(s)) \o sess
            /\ \A t \in End : t # s => ticks'[t] = ticks[t]
    BY MuxClosing
  <1>3. \A n \in Num : conn[s][n] \in Conn
    BY DEF TypeOK
  <1>4. ticks[s] \in Seq(Tick) /\ RemovalOfAll(s) \in Seq(Tick)
    BY RemovalOfAllTyped DEF TypeOK
  <1>5. \A n \in OpenConns(s) :
          /\ n \in Num /\ conn[s][n].live /\ ~conn[s][n].closing
          /\ ConnClosed(conn[s][n]).live /\ ConnClosed(conn[s][n]).closing
    <2> SUFFICES ASSUME NEW n \in OpenConns(s)
                 PROVE  /\ n \in Num /\ conn[s][n].live /\ ~conn[s][n].closing
                        /\ ConnClosed(conn[s][n]).live /\ ConnClosed(conn[s][n]).closing
      OBVIOUS
    <2>1. n \in Num /\ conn[s][n].live /\ ~conn[s][n].closing
      BY DEF OpenConns, Listed
    <2> QED
      BY <1>3, <2>1, ConnClosedTyped
  <1>6. Closing(s)' = Closing(s) \cup OpenConns(s)
    <2>1. Closing(s)' = {n \in Num : conn'[s][n].live /\ conn'[s][n].closing}
      BY DEF Closing, Listed
    <2>2. Closing(s) = {n \in Num : conn[s][n].live /\ conn[s][n].closing}
      BY DEF Closing, Listed
    <2>3. \A n \in Num : n \in OpenConns(s) => conn'[s][n] = ConnClosed(conn[s][n])
      BY <1>1
    <2>4. \A n \in Num : n \notin OpenConns(s) => conn'[s][n] = conn[s][n]
      BY <1>1
    <2>5. \A n \in Num : (conn'[s][n].live /\ conn'[s][n].closing) <=>
                         ((conn[s][n].live /\ conn[s][n].closing) \/ n \in OpenConns(s))
      BY <1>5, <2>3, <2>4
    <2> QED
      BY <1>5, <2>1, <2>2, <2>5
  <1>7. Closing(s) \cap OpenConns(s) = {}
    BY DEF Closing, OpenConns
  <1>8. Match(ticks[s], Closing(s)) /\ Match(RemovalOfAll(s), OpenConns(s))
    BY RemovalsMatch, MatchAll DEF RemovalInv
  <1> DEFINE q == ticks[s] \o RemovalOfAll(s)
             C == Closing(s) \cup OpenConns(s)
  <1>9. q \in Seq(Tick) /\ Match(q, C)
    BY <1>4, <1>7, <1>8, MatchConcat
  <1>10. sess \in Seq(Tick) /\ Match(sess, {})
    <2>1. [what |-> "sess"] \in Tick /\ [what |-> "sess"].what # "conn"
      BY DEF Tick
    <2>2. <<[what |-> "sess"]>> \in Seq(Tick) /\ Match(<<[what |-> "sess"]>>, {})
      BY <2>1, MatchOne
    <2> QED
      BY <2>2, MatchNone
  <1>11. Match(q \o sess, C)
    <2> HIDE DEF q, C
    <2>1. C \cap {} = {} /\ C \cup {} = C
      OBVIOUS
    <2>2. Match(q \o sess, C \cup {})
      BY <1>9, <1>10, <2>1, MatchConcat
    <2> QED
      BY <2>1, <2>2
  <1>12. \A t \in End : t # s => Closing(t)' = Closing(t)
    <2> SUFFICES ASSUME NEW t \in End, t # s PROVE Closing(t)' = Closing(t)
      OBVIOUS
    <2>1. \A n \in Num : conn'[t][n] = conn[t][n]
      BY <1>1
    <2> QED
      BY <2>1 DEF Closing, Listed
  <1>13. RemovalsListed'
    BY <1>2, <1>6, <1>11, <1>12, EndMatches DEF RemovalInv
  <1>14. Fresh'
    <2>1. \A t \in End, n \in Num : ~conn[t][n].live => ~conn'[t][n].live
      BY <1>1, <1>5
    <2>2. made' = made
      BY MuxClosing
    <2> QED
      BY <2>1, <2>2 DEF Fresh, RemovalInv
  <1> QED
    BY <1>13, <1>14 DEF RemovalInv

(***************************************************************************)
(* Ticks that run, and the others.                                         *)
(***************************************************************************)
LEMMA RemoveConnMatches ==
    ASSUME TypeOK, RemovalInv, NEW s \in End, RemoveConn(s)
    PROVE  RemovalInv'
  <1> DEFINE n == Head(ticks[s]).n
             c == [conn[s][n] EXCEPT !.live = FALSE]
  <1>1. ticks[s] \in Seq(Tick) /\ ticks[s] # <<>> /\ Head(ticks[s]).what = "conn"
    BY DEF RemoveConn, Runs, TypeOK
  <1>2. Head(ticks[s]) \in Tick
    BY <1>1, HeadTailProperties
  <1>3. n \in Num
    BY <1>1, <1>2 DEF Tick
  <1>4. conn[s][n] \in Conn
    BY <1>3 DEF TypeOK
  <1>5. c.live = FALSE
    BY <1>4 DEF Conn
  <1>6. conn' = [conn EXCEPT ![s][n] = c] /\ made' = made
    BY DEF RemoveConn
  <1>7. ticks'[s] = Tail(ticks[s]) /\ \A t \in End : t # s => ticks'[t] = ticks[t]
    BY DEF RemoveConn, TypeOK
  <1>8. Match(ticks[s], Closing(s))
    BY RemovalsMatch DEF RemovalInv
  <1>9. Match(Tail(ticks[s]), Closing(s) \ {n})
    BY <1>1, <1>8, MatchTail
  <1> HIDE DEF n, c
  <1>10. /\ Closing(s)' = Closing(s) \ {n}
         /\ \A t \in End : t # s => Closing(t)' = Closing(t)
    BY <1>3, <1>5, <1>6, OneConn
  <1>11. RemovalsListed'
    BY <1>7, <1>9, <1>10, EndMatches DEF RemovalInv
  <1>12. \A t \in End, m \in Num : ~conn[t][m].live => ~conn'[t][m].live
    <2>1. \A t \in End, m \in Num :
            conn'[t][m] = IF t = s /\ m = n THEN c ELSE conn[t][m]
      BY <1>6 DEF TypeOK
    <2> QED
      BY <1>5, <2>1
  <1>13. Fresh'
    BY <1>6, <1>12 DEF Fresh, RemovalInv
  <1> QED
    BY <1>11, <1>13 DEF RemovalInv

(* The conns stay, and the ticks of s change without a removal. *)
LEMMA TicksOnly ==
    ASSUME RemovalInv, NEW s \in End, UNCHANGED <<conn, made>>,
           \A t \in End : t # s => ticks'[t] = ticks[t],
           Match(ticks'[s], Closing(s))
    PROVE  RemovalInv'
  <1>1. \A t \in End : Closing(t)' = Closing(t)
    BY DEF Closing, Listed
  <1>2. RemovalsListed'
    BY <1>1, EndMatches DEF RemovalInv
  <1>3. Fresh'
    BY DEF Fresh, RemovalInv
  <1> QED
    BY <1>2, <1>3 DEF RemovalInv

LEMMA OtherTicksMatch ==
    ASSUME TypeOK, RemovalInv, NEW s \in End,
           RemoveSess(s) \/ RemoveMux(s) \/ WaitFinExpires(s) \/ SessAcked(s)
    PROVE  RemovalInv'
  <1>1. ticks \in [End -> Seq(Tick)] /\ ticks[s] \in Seq(Tick)
    BY DEF TypeOK
  <1>2. Match(ticks[s], Closing(s))
    BY RemovalsMatch DEF RemovalInv
  <1>3. /\ [what |-> "sess"] \in Tick /\ [what |-> "sess"].what # "conn"
        /\ [what |-> "mux"] \in Tick /\ [what |-> "mux"].what # "conn"
    BY DEF Tick
  <1>4. UNCHANGED <<conn, made>>
    BY DEF RemoveSess, RemoveMux, WaitFinExpires, DeleteSess, SessAcked
  <1>5. ASSUME ticks[s] # <<>>, Head(ticks[s]).what # "conn"
        PROVE  Tail(ticks[s]) \in Seq(Tick) /\ Match(Tail(ticks[s]), Closing(s))
    BY <1>1, <1>2, <1>5, MatchTail, HeadTailProperties
  <1>6. CASE RemoveSess(s)
    <2>1. Tail(ticks[s]) \in Seq(Tick) /\ Match(Tail(ticks[s]), Closing(s))
      BY <1>5, <1>6 DEF RemoveSess, Runs
    <2>2. Match(Append(Tail(ticks[s]), [what |-> "mux"]), Closing(s))
      BY <1>3, <2>1, MatchAppend
    <2>3. /\ ticks'[s] = Append(Tail(ticks[s]), [what |-> "mux"])
          /\ \A t \in End : t # s => ticks'[t] = ticks[t]
      BY <1>1, <1>6 DEF RemoveSess, DeleteSess
    <2> QED
      BY <1>4, <2>2, <2>3, TicksOnly
  <1>7. CASE RemoveMux(s)
    <2>1. Match(Tail(ticks[s]), Closing(s))
      BY <1>5, <1>7 DEF RemoveMux, Runs
    <2>2. ticks'[s] = Tail(ticks[s]) /\ \A t \in End : t # s => ticks'[t] = ticks[t]
      BY <1>1, <1>7 DEF RemoveMux
    <2> QED
      BY <1>4, <2>1, <2>2, TicksOnly
  <1>8. CASE WaitFinExpires(s)
    <2>1. ticks[s] = <<>>
      BY <1>8 DEF WaitFinExpires
    <2>2. Match(Append(ticks[s], [what |-> "mux"]), Closing(s))
      BY <1>1, <1>2, <1>3, MatchAppend
    <2>3. /\ ticks'[s] = Append(ticks[s], [what |-> "mux"])
          /\ \A t \in End : t # s => ticks'[t] = ticks[t]
      BY <1>1, <1>8, <2>1 DEF WaitFinExpires, DeleteSess
    <2> QED
      BY <1>4, <2>2, <2>3, TicksOnly
  <1>9. CASE SessAcked(s)
    <2>1. Match(Append(ticks[s], [what |-> "sess"]), Closing(s))
      BY <1>1, <1>2, <1>3, MatchAppend
    <2>2. /\ ticks'[s] = Append(ticks[s], [what |-> "sess"])
          /\ \A t \in End : t # s => ticks'[t] = ticks[t]
      BY <1>1, <1>9 DEF SessAcked
    <2> QED
      BY <1>4, <2>1, <2>2, TicksOnly
  <1> QED
    BY <1>6, <1>7, <1>8, <1>9

LEMMA QuietSteps ==
    ASSUME NEW s \in End,
           \/ RecvInvalidConnect(s) \/ \E cmd \in Frames : RecvUnknown(s, cmd)
           \/ SessReady(s) \/ RecvSessFin(s) \/ RecvSessFinAck(s)
    PROVE  UNCHANGED <<conn, made, count, ticks>>
  BY DEF RecvInvalidConnect, RecvUnknown, SessReady, RecvSessFin, RecvSessFinAck

LEMMA RemovalStep == TypeOK /\ RemovalInv /\ [Next]_vars => RemovalInv'
  <1> SUFFICES ASSUME TypeOK, RemovalInv, [Next]_vars PROVE RemovalInv'
    OBVIOUS
  <1>1. CASE UNCHANGED vars
    <2>1. UNCHANGED <<conn, made, ticks>>
      BY <1>1 DEF vars
    <2> QED
      BY <2>1, SameConnsMatch
  <1>2. ASSUME NEW s \in End, Steps(s) PROVE RemovalInv'
    <2>1. CASE CreateConn(s) \/ RecvConnectNew(s)
      BY <2>1, MakingConnMatches
    <2>2. ASSUME NEW n \in Num, ConnSend(s, n) \/ SendStopSending(s, n) \/ SendClose(s, n)
          PROVE  RemovalInv'
      <3>1. UNCHANGED <<ticks, made>>
        BY <2>2 DEF ConnSend, SendStopSending, SendClose
      <3>2. conn[s][n] \in Conn
        BY SendingConn
      <3>3. PICK c \in { [conn[s][n] EXCEPT !.send = "ready", !.sent = conn[s][n].sent + 1],
                         [conn[s][n] EXCEPT !.send = "stopped"],
                         [conn[s][n] EXCEPT !.told = TRUE] } :
                conn' = [conn EXCEPT ![s][n] = c]
        BY <2>2, SendingConn
      <3>4. c.live = conn[s][n].live /\ c.closing = conn[s][n].closing
        <4>1. /\ [conn[s][n] EXCEPT !.send = "ready",
                                       !.sent = conn[s][n].sent + 1].live = conn[s][n].live
              /\ [conn[s][n] EXCEPT !.send = "ready",
                                       !.sent = conn[s][n].sent + 1].closing = conn[s][n].closing
          BY <3>2, Fields
        <4>2. /\ [conn[s][n] EXCEPT !.send = "stopped"].live = conn[s][n].live
              /\ [conn[s][n] EXCEPT !.send = "stopped"].closing = conn[s][n].closing
          BY <3>2, Fields
        <4>3. /\ [conn[s][n] EXCEPT !.told = TRUE].live = conn[s][n].live
              /\ [conn[s][n] EXCEPT !.told = TRUE].closing = conn[s][n].closing
          BY <3>2, Fields
        <4> QED
          BY <3>3, <4>1, <4>2, <4>3
      <3> QED
        BY <3>1, <3>3, <3>4, ConnKept
    <2>3. ASSUME NEW n \in Num, ConnClose(s, n) \/ TimesOut(s, n) PROVE RemovalInv'
      BY <2>3, ConnClosingMatches
    <2>4. CASE MuxClose(s)
      BY <2>4, MuxCloseMatches
    <2>5. CASE \/ RecvInvalidConnect(s) \/ \E cmd \in Frames : RecvUnknown(s, cmd)
               \/ SessReady(s) \/ RecvSessFin(s) \/ RecvSessFinAck(s)
      <3>1. UNCHANGED <<conn, made, ticks>>
        BY <2>5, QuietSteps
      <3> QED
        BY <3>1, SameConnsMatch
    <2>6. CASE RecvFin(s) \/ \E cmd \in {"connect", "push"} : RecvData(s, cmd)
      <3>1. UNCHANGED <<ticks, made>>
        BY <2>6, ReceivingConn
      <3>2. PICK n \in Num :
                /\ conn[s][n] \in Conn
                /\ \/ conn' = conn
                   \/ conn' = [conn EXCEPT ![s][n] = [conn[s][n] EXCEPT !.recv = "stop"]]
                   \/ \E k \in Nat : conn' = [conn EXCEPT ![s][n] =
                                       [conn[s][n] EXCEPT !.recv = "ready", !.rcvd = k]]
        BY <2>6, ReceivingConn
      <3>3. CASE conn' = conn
        BY <3>1, <3>3, SameConnsMatch
      <3>4. CASE conn' = [conn EXCEPT ![s][n] = [conn[s][n] EXCEPT !.recv = "stop"]]
        <4>1. /\ [conn[s][n] EXCEPT !.recv = "stop"].live = conn[s][n].live
              /\ [conn[s][n] EXCEPT !.recv = "stop"].closing = conn[s][n].closing
          BY <3>2, Fields
        <4> QED
          BY <3>1, <3>4, <4>1, ConnKept
      <3>5. ASSUME NEW k \in Nat,
                   conn' = [conn EXCEPT ![s][n] =
                              [conn[s][n] EXCEPT !.recv = "ready", !.rcvd = k]]
            PROVE  RemovalInv'
        <4>1. /\ [conn[s][n] EXCEPT !.recv = "ready", !.rcvd = k].live = conn[s][n].live
              /\ [conn[s][n] EXCEPT !.recv = "ready", !.rcvd = k].closing = conn[s][n].closing
          BY <3>2, Fields
        <4> QED
          BY <3>1, <3>5, <4>1, ConnKept
      <3> QED
        BY <3>2, <3>3, <3>4, <3>5
    <2>7. CASE RecvCls(s)
      BY <2>7, RecvClsMatches
    <2>8. CASE SessAcked(s) \/ NextTick(s) \/ WaitFinExpires(s)
      BY <2>8, RemoveConnMatches, OtherTicksMatch DEF NextTick
    <2> QED
      BY <1>2, <2>1, <2>2, <2>3, <2>4, <2>5, <2>6, <2>7, <2>8 DEF Steps
  <1> QED
    BY <1>1, <1>2, NextIsSteps

LEMMA RemovalInit == Init => RemovalInv
  <1> SUFFICES ASSUME Init PROVE RemovalInv
    OBVIOUS
  <1>1. \A s \in End, n \in Num : ~conn[s][n].live
    BY DEF Init, NoConn, NewConn
  <1>2. \A s \in End : Closing(s) = {} /\ ticks[s] = <<>>
    BY <1>1 DEF Closing, Listed, Init
  <1>3. RemovalsListed
    BY <1>2, MatchNone, RemovalsMatch
  <1> QED
    BY <1>1, <1>3 DEF RemovalInv, Fresh

(* The removals scheduled at an end are those of the closing conns of its  *)
(* list, each once: RemoveAndTriggerConnClose finds its conn in the list   *)
(* and frees it once, with any ids and any order of Close, CLS, timeout    *)
(* and Mux::Close.                                                         *)
THEOREM RemovalsAreListed == Spec => []RemovalsListed
  <1>1. Init => RemovalInv
    BY RemovalInit
  <1>2. TypeOK /\ RemovalInv /\ [Next]_vars => RemovalInv'
    BY RemovalStep
  <1>3. RemovalInv => RemovalsListed
    BY DEF RemovalInv
  <1> QED
    BY <1>1, <1>2, <1>3, TypeCorrect, PTL DEF Spec

(***************************************************************************)
(* Streams.  QuietAfterStop is about the order of frames; that it holds    *)
(* rests on every frame in flight being of a conn its sender still knows,  *)
(* on one conn per end carrying a stream, and on a stream being opened by  *)
(* one CONNECT only.                                                       *)
(***************************************************************************)
Made(s) == {n \in Num : n <= made[s]}
Ended(c) == c.send = "stopped" \/ c.told
Stops(f) == f.cmd \in {"fin", "cls"}
IdParity(s) == IF s = A THEN 1 ELSE 0

OwnStreams ==
    \A s \in End : \A n \in Made(s) : conn[s][n].stream[1] = s => conn[s][n].stream[2] = n

OneCarrier ==
    \A s \in End : \A m, n \in Made(s) : conn[s][m].stream = conn[s][n].stream => m = n

Parities ==
    \A s \in End :
        /\ count[s] % 2 = IdParity(s)
        /\ \A n \in Made(s) : conn[s][n].id % 2 = IdParity(conn[s][n].stream[1])

(* A conn made by a CONNECT has, at the other side, the conn that sent it. *)
Connected ==
    \A s \in End : \A n \in Made(s) :
        LET stream == conn[s][n].stream IN
        stream[1] = Peer(s) =>
            stream[2] \in Made(Peer(s)) /\ conn[Peer(s)][stream[2]].send # "none"

Known(s, f) ==
    /\ f.id % 2 = IdParity(f.stream[1])
    /\ \E n \in Made(Peer(s)) :
          /\ conn[Peer(s)][n].stream = f.stream
          /\ f.cmd = "connect" => conn[Peer(s)][n].send # "none"
          /\ Stops(f) => Ended(conn[Peer(s)][n])

FramesKnown ==
    \A s \in End : \A i \in DOMAIN chan[s] : chan[s][i].cmd \in Frames => Known(s, chan[s][i])

Opens(s, f) == f.cmd = "connect" /\ f.stream[1] = Peer(s)

ConnectsOnce ==
    \A s \in End : \A i, j \in DOMAIN chan[s] :
        /\ Opens(s, chan[s][i]) /\ Opens(s, chan[s][j])
        /\ chan[s][i].stream = chan[s][j].stream
        => i = j

NoConnYet ==
    \A s \in End : \A i \in DOMAIN chan[s] :
        Opens(s, chan[s][i]) => \A n \in Made(s) : conn[s][n].stream # chan[s][i].stream

ConnStreams == OwnStreams /\ OneCarrier /\ Parities /\ Connected
FrameStreams == FramesKnown /\ ConnectsOnce /\ QuietAfterStop
StreamInv == ConnStreams /\ FrameStreams /\ NoConnYet

(***************************************************************************)
(* What a step may do to a channel: drop its head, and append frames of N. *)
(***************************************************************************)
Follows(q, w, N) ==
    \E d \in {0, 1} : \A i \in DOMAIN w :
        \/ i + d \in DOMAIN q /\ w[i] = q[i + d]
        \/ i + d \notin DOMAIN q /\ w[i] \in N

LEMMA FollowsSame ==
    ASSUME NEW S, NEW q \in Seq(S), NEW N
    PROVE  Follows(q, q, N)
  <1>1. DOMAIN q = 1..Len(q) /\ Len(q) \in Nat
    BY LenProperties
  <1>2. \A i \in DOMAIN q : i + 0 \in DOMAIN q /\ q[i] = q[i + 0]
    BY <1>1, SMT
  <1> QED
    BY <1>2 DEF Follows

LEMMA FollowsTail ==
    ASSUME NEW S, NEW q \in Seq(S), q # <<>>, NEW N
    PROVE  Follows(q, Tail(q), N)
  <1>1. /\ Tail(q) \in Seq(S) /\ Len(Tail(q)) = Len(q) - 1
        /\ \A i \in 1..Len(Tail(q)) : Tail(q)[i] = q[i + 1]
    BY HeadTailProperties
  <1>2. DOMAIN q = 1..Len(q) /\ Len(q) \in Nat /\ DOMAIN Tail(q) = 1..Len(Tail(q))
    BY <1>1, LenProperties
  <1>3. \A i \in DOMAIN Tail(q) : i + 1 \in DOMAIN q /\ Tail(q)[i] = q[i + 1]
    BY <1>1, <1>2, SMT
  <1> QED
    BY <1>3 DEF Follows

LEMMA FollowsConcat ==
    ASSUME NEW S, NEW q \in Seq(S), NEW r \in Seq(S), NEW N,
           \A i \in 1..Len(r) : r[i] \in N
    PROVE  Follows(q, q \o r, N)
  <1> DEFINE w == q \o r
             k == Len(q)
  <1>1. k \in Nat /\ DOMAIN q = 1..k /\ Len(r) \in Nat
    BY LenProperties
  <1>2. /\ w \in Seq(S) /\ Len(w) = k + Len(r) /\ DOMAIN w = 1..Len(w)
        /\ \A i \in 1..Len(w) : w[i] = IF i <= k THEN q[i] ELSE r[i - k]
    BY ConcatProperties, LenProperties
  <1> HIDE DEF w, k
  <1>3. ASSUME NEW i \in DOMAIN w
        PROVE  \/ i + 0 \in DOMAIN q /\ w[i] = q[i + 0]
               \/ i + 0 \notin DOMAIN q /\ w[i] \in N
    <2>1. i \in 1..Len(w) /\ i \in Int /\ i + 0 = i
      BY <1>2, SMT
    <2>2. CASE i <= k
      BY <1>1, <1>2, <2>1, <2>2, SMT
    <2>3. CASE ~(i <= k)
      <3>1. w[i] = r[i - k]
        BY <1>2, <2>1, <2>3
      <3>2. i - k \in 1..Len(r) /\ i \notin 1..k
        BY <1>1, <1>2, <2>1, <2>3, SMT
      <3> QED
        BY <1>1, <2>1, <3>1, <3>2
    <2> QED
      BY <2>2, <2>3
  <1>4. Follows(q, w, N)
    BY <1>3 DEF Follows
  <1> QED
    BY <1>4 DEF w

(***************************************************************************)
(* Steps that make no conn and send no data.  Told(s) is what an end may   *)
(* be told by such a step: that the session ends, or that a conn has ended.*)
(***************************************************************************)
KeptConn(c, d) ==
    /\ d.stream = c.stream /\ d.id = c.id
    /\ c.send # "none" => d.send # "none"
    /\ Ended(c) => Ended(d)

Told(s) ==
    {f \in Frame \cup SessFrame :
        \/ f.cmd \in SessCmds
        \/ /\ Stops(f)
           /\ f.id % 2 = IdParity(f.stream[1])
           /\ \E n \in Made(Peer(s)) :
                conn[Peer(s)][n].stream = f.stream /\ Ended(conn'[Peer(s)][n])}

(* The conns that were made before the step. *)
Advances ==
    \A t \in End : \A n \in Made(t) : n \in Made(t)' /\ KeptConn(conn[t][n], conn'[t][n])

LEMMA ToldFacts ==
    ASSUME NEW s \in End, NEW f \in Told(s)
    PROVE  /\ f.cmd \in SessCmds \/ Stops(f)
           /\ ~Data(f) /\ ~Opens(s, f)
  <1>1. f.cmd \in SessCmds \/ Stops(f)
    BY DEF Told
  <1> QED
    BY <1>1 DEF SessCmds, Stops, Data, Opens

LEMMA FramesFollow ==
    ASSUME TypeOK, TypeOK', FrameStreams, Advances,
           \A t \in End : Follows(chan[t], chan'[t], Told(t))
    PROVE  FrameStreams'
  <1>1. \A t \in End : /\ DOMAIN chan[t] = 1..Len(chan[t]) /\ Len(chan[t]) \in Nat
                       /\ DOMAIN chan'[t] = 1..Len(chan'[t]) /\ Len(chan'[t]) \in Nat
    BY LenProperties DEF TypeOK
  <1>2. FramesKnown'
    <2> SUFFICES ASSUME NEW t \in End, NEW i \in DOMAIN chan'[t], chan'[t][i].cmd \in Frames
                 PROVE  Known(t, chan[t][i])'
      BY DEF FramesKnown
    <2> DEFINE f == chan'[t][i]
               p == Peer(t)
    <2>1. p \in End
      BY Ends
    <2>2. PICK d \in {0, 1} : \/ i + d \in DOMAIN chan[t] /\ f = chan[t][i + d]
                              \/ f \in Told(t)
      BY DEF Follows
    <2>3. ASSUME NEW n \in Made(p), conn[p][n].stream = f.stream,
                 f.id % 2 = IdParity(f.stream[1]),
                 f.cmd = "connect" => conn[p][n].send # "none",
                 Stops(f) => Ended(conn'[p][n])
          PROVE  Known(t, chan[t][i])'
      <3>1. n \in Made(p)' /\ KeptConn(conn[p][n], conn'[p][n])
        BY <2>1 DEF Advances
      <3>2. conn'[p][n].stream = f.stream /\ (f.cmd = "connect" => conn'[p][n].send # "none")
        BY <2>3, <3>1 DEF KeptConn
      <3> QED
        BY <2>3, <3>1, <3>2 DEF Known, Stops, Ended, IdParity, Peer
    <2>4. CASE i + d \in DOMAIN chan[t] /\ f = chan[t][i + d]
      <3>1. Known(t, chan[t][i + d])
        BY <2>4 DEF FrameStreams, FramesKnown
      <3>2. PICK n \in Made(p) :
                /\ conn[p][n].stream = f.stream
                /\ f.cmd = "connect" => conn[p][n].send # "none"
                /\ Stops(f) => Ended(conn[p][n])
        BY <2>4, <3>1 DEF Known
      <3>3. f.id % 2 = IdParity(f.stream[1])
        BY <2>4, <3>1 DEF Known
      <3>4. Stops(f) => Ended(conn'[p][n])
        BY <2>1, <3>2 DEF Advances, KeptConn
      <3> QED
        BY <2>3, <3>2, <3>3, <3>4
    <2>5. CASE f \in Told(t)
      <3>1. f.cmd \notin SessCmds /\ f.cmd # "connect" /\ Stops(f)
        BY <2>5, ToldFacts DEF Frames, SessCmds, Stops
      <3>2. PICK n \in Made(p) : conn[p][n].stream = f.stream /\ Ended(conn'[p][n])
        BY <2>5, <3>1 DEF Told
      <3>3. f.id % 2 = IdParity(f.stream[1])
        BY <2>5, <3>1 DEF Told
      <3> QED
        BY <2>3, <3>1, <3>2, <3>3
    <2> QED
      BY <2>2, <2>4, <2>5
  <1>3. ConnectsOnce'
    <2> SUFFICES ASSUME NEW t \in End, NEW i \in DOMAIN chan'[t], NEW j \in DOMAIN chan'[t],
                        Opens(t, chan'[t][i]), Opens(t, chan'[t][j]),
                        chan'[t][i].stream = chan'[t][j].stream
                 PROVE  i = j
      BY DEF ConnectsOnce, Opens, Peer
    <2>1. PICK d \in {0, 1} : \A k \in DOMAIN chan'[t] :
              \/ k + d \in DOMAIN chan[t] /\ chan'[t][k] = chan[t][k + d]
              \/ chan'[t][k] \in Told(t)
      BY DEF Follows
    <2>2. /\ i + d \in DOMAIN chan[t] /\ chan'[t][i] = chan[t][i + d]
          /\ j + d \in DOMAIN chan[t] /\ chan'[t][j] = chan[t][j + d]
      BY <2>1, ToldFacts
    <2>3. i + d = j + d
      BY <2>2 DEF FrameStreams, ConnectsOnce
    <2> QED
      BY <1>1, <2>3, SMT
  <1>4. QuietAfterStop'
    <2> SUFFICES ASSUME NEW t \in End, NEW i \in DOMAIN chan'[t], NEW j \in DOMAIN chan'[t],
                        i < j, chan'[t][i].cmd \in {"fin", "cls"}, Data(chan'[t][j])
                 PROVE  chan'[t][i].stream # chan'[t][j].stream
      BY DEF QuietAfterStop, Data
    <2>1. PICK d \in {0, 1} : \A k \in DOMAIN chan'[t] :
              \/ k + d \in DOMAIN chan[t] /\ chan'[t][k] = chan[t][k + d]
              \/ k + d \notin DOMAIN chan[t] /\ chan'[t][k] \in Told(t)
      BY DEF Follows
    <2>2. j + d \in DOMAIN chan[t] /\ chan'[t][j] = chan[t][j + d]
      BY <2>1, ToldFacts
    <2>3. i + d \in DOMAIN chan[t] /\ i + d < j + d
      BY <1>1, <2>2, SMT
    <2>4. chan'[t][i] = chan[t][i + d]
      BY <2>1, <2>3
    <2> QED
      BY <2>2, <2>3, <2>4 DEF FrameStreams, QuietAfterStop
  <1> QED
    BY <1>2, <1>3, <1>4 DEF FrameStreams

(* No conn is made: the streams of the conns stay as they are. *)
NoneMade ==
    /\ UNCHANGED <<made, count>>
    /\ \A t \in End : \A n \in Num : KeptConn(conn[t][n], conn'[t][n])

LEMMA NoneMadeAdvances ==
    ASSUME NoneMade
    PROVE  Advances /\ \A t \in End : Made(t)' = Made(t)
  BY DEF NoneMade, Advances, Made

LEMMA ConnStreamsKept ==
    ASSUME ConnStreams, NoneMade
    PROVE  ConnStreams'
  <1>1. \A t \in End : Made(t)' = Made(t) /\ Made(t) \subseteq Num
    BY NoneMadeAdvances DEF Made
  <1>2. \A t \in End : \A n \in Made(t) :
          /\ conn'[t][n].stream = conn[t][n].stream /\ conn'[t][n].id = conn[t][n].id
          /\ conn[t][n].send # "none" => conn'[t][n].send # "none"
    BY <1>1 DEF NoneMade, KeptConn
  <1>3. OwnStreams'
    BY <1>1, <1>2 DEF ConnStreams, OwnStreams
  <1>4. OneCarrier'
    BY <1>1, <1>2 DEF ConnStreams, OneCarrier
  <1>5. Parities'
    <2>1. count' = count
      BY DEF NoneMade
    <2> QED
      BY <1>1, <1>2, <2>1 DEF ConnStreams, Parities, IdParity
  <1>6. Connected'
    <2> SUFFICES ASSUME NEW t \in End, NEW n \in Made(t), conn'[t][n].stream[1] = Peer(t)
                 PROVE  /\ conn'[t][n].stream[2] \in Made(Peer(t))
                        /\ conn'[Peer(t)][conn'[t][n].stream[2]].send # "none"
      BY <1>1, Ends DEF Connected, Peer
    <2>1. Peer(t) \in End /\ conn'[t][n].stream = conn[t][n].stream
      BY <1>2, Ends
    <2>2. /\ conn[t][n].stream[2] \in Made(Peer(t))
          /\ conn[Peer(t)][conn[t][n].stream[2]].send # "none"
      BY <2>1 DEF ConnStreams, Connected
    <2> QED
      BY <1>2, <2>1, <2>2
  <1> QED
    BY <1>3, <1>4, <1>5, <1>6 DEF ConnStreams

LEMMA StreamsKept ==
    ASSUME TypeOK, TypeOK', StreamInv, NoneMade,
           \A t \in End : Follows(chan[t], chan'[t], Told(t))
    PROVE  StreamInv'
  <1>1. Advances /\ \A t \in End : Made(t)' = Made(t) /\ Made(t) \subseteq Num
    BY NoneMadeAdvances DEF Made
  <1>2. ConnStreams' /\ FrameStreams'
    BY <1>1, ConnStreamsKept, FramesFollow DEF StreamInv
  <1>3. NoConnYet'
    <2> SUFFICES ASSUME NEW t \in End, NEW i \in DOMAIN chan'[t], Opens(t, chan'[t][i]),
                        NEW n \in Made(t)
                 PROVE  conn'[t][n].stream # chan'[t][i].stream
      BY <1>1 DEF NoConnYet, Opens, Peer
    <2>1. conn'[t][n].stream = conn[t][n].stream
      BY <1>1 DEF NoneMade, KeptConn
    <2>2. PICK d \in {0, 1} : i + d \in DOMAIN chan[t] /\ chan'[t][i] = chan[t][i + d]
      BY ToldFacts DEF Follows
    <2> QED
      BY <2>1, <2>2 DEF StreamInv, NoConnYet
  <1> QED
    BY <1>2, <1>3 DEF StreamInv

(***************************************************************************)
(* The actions that make no conn and send no data.                         *)
(***************************************************************************)
LEMMA ListedIsMade ==
    ASSUME TypeOK, RemovalInv, NEW s \in End, NEW n \in Num, conn[s][n].live
    PROVE  n \in Made(s)
  <1>1. made[s] \in Nat /\ n \in Nat
    BY Numbers DEF TypeOK
  <1>2. ~(n > made[s])
    BY DEF RemovalInv, Fresh
  <1> QED
    BY <1>1, <1>2, SMT DEF Made

LEMMA FrameFields ==
    ASSUME NEW s, NEW n, NEW cmd, NEW k
    PROVE  /\ FrameOf(s, n, cmd, k).cmd = cmd
           /\ FrameOf(s, n, cmd, k).id = conn[s][n].id
           /\ FrameOf(s, n, cmd, k).stream = conn[s][n].stream
  BY DEF FrameOf

(* The last frame of a conn that ended. *)
LEMMA LastFrameTold ==
    ASSUME TypeOK, RemovalInv, StreamInv, NEW s \in End, NEW n \in Num, conn[s][n].live,
           Ended(conn'[s][n]), NEW cmd \in {"fin", "cls"}
    PROVE  FrameOf(s, n, cmd, 0) \in Told(Peer(s))
  <1>1. n \in Made(s)
    BY ListedIsMade
  <1>2. FrameOf(s, n, cmd, 0) \in Frame
    BY FrameTyped, Typed, 0 \in Nat DEF Frames
  <1>3. conn[s][n].id % 2 = IdParity(conn[s][n].stream[1])
    BY <1>1 DEF StreamInv, ConnStreams, Parities
  <1>4. Peer(Peer(s)) = s
    BY Ends
  <1> QED
    BY <1>1, <1>2, <1>3, <1>4, FrameFields DEF Told, Stops

LEMMA PostFollows ==
    ASSUME TypeOK, NEW s \in End, NEW frames \in Seq(Frame \cup SessFrame),
           \A i \in 1..Len(frames) : frames[i] \in Told(Peer(s)),
           Post(s, frames)
    PROVE  \A t \in End : Follows(chan[t], chan'[t], Told(t))
  <1>1. chan \in [End -> Seq(Frame \cup SessFrame)] /\ Peer(s) \in End
    BY Ends DEF TypeOK
  <1>2. \A t \in End : t # Peer(s) => chan'[t] = chan[t]
    BY <1>1 DEF Post
  <1>3. chan'[Peer(s)] = chan[Peer(s)] \/ chan'[Peer(s)] = chan[Peer(s)] \o frames
    BY <1>1 DEF Post
  <1>4. \A t \in End : chan'[t] = chan[t] => Follows(chan[t], chan'[t], Told(t))
    <2> SUFFICES ASSUME NEW t \in End, chan'[t] = chan[t]
                 PROVE  Follows(chan[t], chan'[t], Told(t))
      OBVIOUS
    <2>1. Follows(chan[t], chan[t], Told(t))
      BY <1>1, FollowsSame
    <2> QED
      BY <2>1
  <1>5. Follows(chan[Peer(s)], chan[Peer(s)] \o frames, Told(Peer(s)))
    BY <1>1, FollowsConcat
  <1> QED
    BY <1>2, <1>3, <1>4, <1>5

LEMMA ConsumedFollows ==
    ASSUME TypeOK, NEW s \in End, chan[s] # <<>>, Consumed(s)
    PROVE  \A t \in End : Follows(chan[t], chan'[t], Told(t))
  <1>1. chan \in [End -> Seq(Frame \cup SessFrame)]
    BY DEF TypeOK
  <1>2. \A t \in End : t # s => chan'[t] = chan[t]
    BY <1>1 DEF Consumed
  <1>3. chan'[s] = Tail(chan[s])
    BY <1>1 DEF Consumed
  <1>4. Follows(chan[s], Tail(chan[s]), Told(s))
    BY <1>1, FollowsTail
  <1>5. \A t \in End : Follows(chan[t], chan[t], Told(t))
    BY <1>1, FollowsSame
  <1> QED
    BY <1>2, <1>3, <1>4, <1>5

LEMMA UnchangedFollows ==
    ASSUME TypeOK, chan' = chan
    PROVE  \A t \in End : Follows(chan[t], chan'[t], Told(t))
  <1>1. \A t \in End : Follows(chan[t], chan[t], Told(t))
    BY FollowsSame DEF TypeOK
  <1> QED
    BY <1>1

LEMMA KeptUpdates ==
    ASSUME NEW c \in Conn, NEW k
    PROVE  /\ KeptConn(c, c)
           /\ KeptConn(c, [c EXCEPT !.send = "ready", !.sent = k]) \/ c.send = "stopped"
           /\ KeptConn(c, [c EXCEPT !.send = "stopped"])
           /\ Ended([c EXCEPT !.send = "stopped"])
           /\ KeptConn(c, [c EXCEPT !.told = TRUE])
           /\ Ended([c EXCEPT !.told = TRUE])
           /\ KeptConn(c, [c EXCEPT !.recv = "stop"])
           /\ KeptConn(c, [c EXCEPT !.recv = "ready", !.rcvd = k])
           /\ KeptConn(c, [c EXCEPT !.live = FALSE])
           /\ KeptConn(c, ConnClosed(c))
           /\ Ended(ConnClosed(c))
  <1>1. Conn = [live : BOOLEAN, id : Nat, send : SendStates, recv : RecvStates,
                closing : BOOLEAN, stream : Stream, sent : Nat, rcvd : Nat, told : BOOLEAN]
    BY DEF Conn
  <1>2. KeptConn(c, c)
    BY DEF KeptConn
  <1>3. KeptConn(c, [c EXCEPT !.send = "ready", !.sent = k]) \/ c.send = "stopped"
    BY <1>1 DEF KeptConn, Ended
  <1>4. /\ KeptConn(c, [c EXCEPT !.send = "stopped"])
        /\ Ended([c EXCEPT !.send = "stopped"])
    BY <1>1 DEF KeptConn, Ended
  <1>5. /\ KeptConn(c, [c EXCEPT !.told = TRUE])
        /\ Ended([c EXCEPT !.told = TRUE])
    BY <1>1 DEF KeptConn, Ended
  <1>6. KeptConn(c, [c EXCEPT !.recv = "stop"])
    BY <1>1 DEF KeptConn, Ended
  <1>7. KeptConn(c, [c EXCEPT !.recv = "ready", !.rcvd = k])
    BY <1>1 DEF KeptConn, Ended
  <1>8. KeptConn(c, [c EXCEPT !.live = FALSE])
    BY <1>1 DEF KeptConn, Ended
  <1>9. ConnClosed(c).send = "stopped" /\ ConnClosed(c).stream = c.stream
          /\ ConnClosed(c).id = c.id
    BY ConnClosedTyped
  <1>10. KeptConn(c, ConnClosed(c)) /\ Ended(ConnClosed(c))
    BY <1>9 DEF KeptConn, Ended
  <1> QED
    BY <1>2, <1>3, <1>4, <1>5, <1>6, <1>7, <1>8, <1>10

LEMMA OneKept ==
    ASSUME TypeOK, UNCHANGED <<made, count>>, NEW s \in End, NEW n \in Num, NEW c,
           conn' = [conn EXCEPT ![s][n] = c], KeptConn(conn[s][n], c)
    PROVE  NoneMade /\ conn'[s][n] = c
  <1>1. conn'[s][n] = c
    BY DEF TypeOK
  <1>2. \A t \in End : \A m \in Num : KeptConn(conn[t][m], conn'[t][m])
    <2> SUFFICES ASSUME NEW t \in End, NEW m \in Num PROVE KeptConn(conn[t][m], conn'[t][m])
      OBVIOUS
    <2>1. CASE t = s /\ m = n
      BY <1>1, <2>1
    <2>2. CASE ~(t = s /\ m = n)
      <3>1. conn'[t][m] = conn[t][m]
        BY <2>2 DEF TypeOK
      <3> QED
        BY <3>1 DEF KeptConn
    <2> QED
      BY <2>1, <2>2
  <1> QED
    BY <1>1, <1>2 DEF NoneMade

LEMMA ConnsSame ==
    ASSUME UNCHANGED <<conn, made, count>>
    PROVE  NoneMade
  BY DEF NoneMade, KeptConn

LEMMA EndingConnStreams ==
    ASSUME TypeOK, TypeOK', RemovalInv, StreamInv, NEW s \in End, NEW n \in Num,
           SendStopSending(s, n) \/ SendClose(s, n)
    PROVE  StreamInv'
  <1>1. /\ conn[s][n].live /\ conn[s][n] \in Conn
        /\ UNCHANGED <<made, count>>
    BY SendingConn DEF SendStopSending, SendClose
  <1>2. ConnsTyped
    BY Typed
  <1>3. CASE SendStopSending(s, n)
    <2> DEFINE c == [conn[s][n] EXCEPT !.send = "stopped"]
    <2>1. KeptConn(conn[s][n], c) /\ Ended(c) /\ conn' = [conn EXCEPT ![s][n] = c]
      BY <1>1, <1>3, KeptUpdates, SendingConn
    <2> HIDE DEF c
    <2>2. NoneMade /\ conn'[s][n] = c
      BY <1>1, <2>1, OneKept
    <2>3. /\ Post(s, <<FrameOf(s, n, "fin", 0)>>)
          /\ <<FrameOf(s, n, "fin", 0)>> \in Seq(Frame \cup SessFrame)
      BY <1>2, <1>3, FrameTyped, 0 \in Nat DEF SendStopSending, Frames
    <2>4. FrameOf(s, n, "fin", 0) \in Told(Peer(s))
      BY <1>1, <2>1, <2>2, LastFrameTold
    <2>5. \A i \in 1..Len(<<FrameOf(s, n, "fin", 0)>>) :
            <<FrameOf(s, n, "fin", 0)>>[i] \in Told(Peer(s))
      BY <2>4
    <2>6. \A t \in End : Follows(chan[t], chan'[t], Told(t))
      BY <2>3, <2>5, PostFollows
    <2> QED
      BY <2>2, <2>6, StreamsKept
  <1>4. CASE SendClose(s, n)
    <2> DEFINE c == [conn[s][n] EXCEPT !.told = TRUE]
    <2>1. KeptConn(conn[s][n], c) /\ Ended(c) /\ conn' = [conn EXCEPT ![s][n] = c]
      BY <1>1, <1>4, KeptUpdates, SendingConn
    <2> HIDE DEF c
    <2>2. NoneMade /\ conn'[s][n] = c
      BY <1>1, <2>1, OneKept
    <2>3. Post(s, ClsFrames(s, n)) /\ ClsFrames(s, n) \in Seq(Frame \cup SessFrame)
      BY <1>2, <1>4, CloseFramesTyped DEF SendClose
    <2>4. FrameOf(s, n, "cls", 0) \in Told(Peer(s))
      BY <1>1, <2>1, <2>2, LastFrameTold
    <2>5. ClsFrames(s, n) = <<>> \/ ClsFrames(s, n) = <<FrameOf(s, n, "cls", 0)>>
      BY DEF ClsFrames
    <2>6. \A i \in 1..Len(ClsFrames(s, n)) : ClsFrames(s, n)[i] \in Told(Peer(s))
      BY <2>4, <2>5
    <2>7. \A t \in End : Follows(chan[t], chan'[t], Told(t))
      BY <2>3, <2>6, PostFollows
    <2> QED
      BY <2>2, <2>7, StreamsKept
  <1> QED
    BY <1>3, <1>4

(* Conn::Close of a conn that is not closing yet. *)
LEMMA ClosedConn ==
    ASSUME TypeOK, RemovalInv, StreamInv, NEW s \in End, NEW n \in Num,
           conn[s][n].live, UNCHANGED <<made, count>>,
           conn' = [conn EXCEPT ![s][n] = ConnClosed(conn[s][n])]
    PROVE  /\ NoneMade
           /\ CloseFrames(s, n) \in Seq(Frame \cup SessFrame)
           /\ \A i \in 1..Len(CloseFrames(s, n)) : CloseFrames(s, n)[i] \in Told(Peer(s))
  <1>1. conn[s][n] \in Conn /\ ConnsTyped
    BY Typed DEF TypeOK
  <1>2. KeptConn(conn[s][n], ConnClosed(conn[s][n])) /\ Ended(ConnClosed(conn[s][n]))
    BY <1>1, KeptUpdates
  <1>3. NoneMade /\ conn'[s][n] = ConnClosed(conn[s][n])
    BY <1>2, OneKept
  <1>4. FrameOf(s, n, "cls", 0) \in Told(Peer(s))
    BY <1>2, <1>3, LastFrameTold
  <1>5. /\ CloseFrames(s, n) \in Seq(Frame \cup SessFrame)
        /\ CloseFrames(s, n) = <<>> \/ CloseFrames(s, n) = <<FrameOf(s, n, "cls", 0)>>
    BY <1>1, CloseFramesTyped
  <1>6. \A i \in 1..Len(CloseFrames(s, n)) : CloseFrames(s, n)[i] \in Told(Peer(s))
    BY <1>4, <1>5
  <1> QED
    BY <1>3, <1>5, <1>6

LEMMA ConnClosingStreams ==
    ASSUME TypeOK, TypeOK', RemovalInv, StreamInv, NEW s \in End, NEW n \in Num,
           ConnClose(s, n) \/ TimesOut(s, n)
    PROVE  StreamInv'
  <1>1. /\ conn[s][n].live
        /\ conn' = [conn EXCEPT ![s][n] = ConnClosed(conn[s][n])]
        /\ Post(s, CloseFrames(s, n))
        /\ UNCHANGED <<made, count>>
    BY DEF ConnClose, TimesOut, ConnCloses
  <1>2. /\ NoneMade
        /\ CloseFrames(s, n) \in Seq(Frame \cup SessFrame)
        /\ \A i \in 1..Len(CloseFrames(s, n)) : CloseFrames(s, n)[i] \in Told(Peer(s))
    BY <1>1, ClosedConn
  <1>3. \A t \in End : Follows(chan[t], chan'[t], Told(t))
    BY <1>1, <1>2, PostFollows
  <1> QED
    BY <1>2, <1>3, StreamsKept

LEMMA RecvClsStreams ==
    ASSUME TypeOK, TypeOK', RemovalInv, StreamInv, NEW s \in End, RecvCls(s)
    PROVE  StreamInv'
  <1> DEFINE n == FirstWithId(s, Head(chan[s]).id)
  <1>1. n \in Num /\ conn[s][n].live /\ chan[s] # <<>> /\ UNCHANGED <<made, count>>
    BY FirstFound DEF RecvCls, Arrives
  <1>2. chan \in [End -> Seq(Frame \cup SessFrame)] /\ Peer(s) \in End /\ Peer(s) # s
    BY Ends DEF TypeOK
  <1>3. Follows(chan[s], Tail(chan[s]), Told(s))
    BY <1>1, <1>2, FollowsTail
  <1>4. CASE conn[s][n].closing
    <2>1. UNCHANGED conn /\ chan' = [chan EXCEPT ![s] = Tail(@), ![Peer(s)] = @ \o <<>>]
      BY <1>4 DEF RecvCls
    <2>2. chan[Peer(s)] \o <<>> = chan[Peer(s)]
      BY <1>2, ConcatEmptySeq
    <2>3. chan'[s] = Tail(chan[s]) /\ chan'[Peer(s)] = chan[Peer(s)]
      BY <1>2, <2>1, <2>2
    <2>4. Follows(chan[Peer(s)], chan[Peer(s)], Told(Peer(s)))
      BY <1>2, FollowsSame
    <2>5. \A t \in End : Follows(chan[t], chan'[t], Told(t))
      BY <1>3, <2>3, <2>4, Ends
    <2>6. NoneMade
      BY <1>1, <2>1, ConnsSame
    <2> QED
      BY <2>5, <2>6, StreamsKept
  <1>5. CASE ~conn[s][n].closing
    <2>1. /\ conn' = [conn EXCEPT ![s][n] = ConnClosed(conn[s][n])]
          /\ chan' = [chan EXCEPT ![s] = Tail(@), ![Peer(s)] = @ \o CloseFrames(s, n)]
      BY <1>5 DEF RecvCls
    <2> HIDE DEF n
    <2>2. /\ NoneMade
          /\ CloseFrames(s, n) \in Seq(Frame \cup SessFrame)
          /\ \A i \in 1..Len(CloseFrames(s, n)) : CloseFrames(s, n)[i] \in Told(Peer(s))
      BY <1>1, <2>1, ClosedConn
    <2>3. chan'[s] = Tail(chan[s]) /\ chan'[Peer(s)] = chan[Peer(s)] \o CloseFrames(s, n)
      BY <1>2, <2>1
    <2>4. Follows(chan[Peer(s)], chan[Peer(s)] \o CloseFrames(s, n), Told(Peer(s)))
      BY <1>2, <2>2, FollowsConcat
    <2>5. \A t \in End : Follows(chan[t], chan'[t], Told(t))
      BY <1>3, <2>3, <2>4, Ends
    <2> QED
      BY <2>2, <2>5, StreamsKept
  <1> QED
    BY <1>4, <1>5

LEMMA MuxCloseStreams ==
    ASSUME TypeOK, TypeOK', RemovalInv, StreamInv, NEW s \in End, MuxClose(s)
    PROVE  StreamInv'
  <1>1. \A t \in End, n \in Num :
                conn'[t][n] = IF t = s /\ n \in OpenConns(s)
                                THEN ConnClosed(conn[s][n]) ELSE conn[t][n]
    BY MuxClosing
  <1>2. \A t \in End, n \in Num : conn[t][n] \in Conn
    BY DEF TypeOK
  <1>3. \A t \in End : \A n \in Num : KeptConn(conn[t][n], conn'[t][n])
    <2> SUFFICES ASSUME NEW t \in End, NEW n \in Num PROVE KeptConn(conn[t][n], conn'[t][n])
      OBVIOUS
    <2>1. CASE t = s /\ n \in OpenConns(s)
      BY <1>1, <1>2, <2>1, KeptUpdates
    <2>2. CASE ~(t = s /\ n \in OpenConns(s))
      <3>1. conn'[t][n] = conn[t][n]
        BY <1>1, <2>2
      <3> QED
        BY <3>1 DEF KeptConn
    <2> QED
      BY <2>1, <2>2
  <1>4. NoneMade
    BY <1>3 DEF NoneMade, MuxClose
  <1>5. PICK fin \in {<<>>, <<[cmd |-> "sfin"]>>} : Post(s, ClsOfAll(s) \o fin)
    BY DEF MuxClose
  <1>6. \A i \in 1..Len(ClsOfAll(s)) : ClsOfAll(s)[i] \in Told(Peer(s))
    <2> SUFFICES ASSUME NEW i \in 1..Len(ClsOfAll(s)) PROVE ClsOfAll(s)[i] \in Told(Peer(s))
      OBVIOUS
    <2>1. PICK n \in OpenConns(s) : n \in Num /\ ClsOfAll(s)[i] = FrameOf(s, n, "cls", 0)
      BY ClsOfAllTyped, Typed
    <2>2. conn[s][n].live
      BY DEF OpenConns, Listed
    <2>3. Ended(conn'[s][n])
      BY <1>1, <1>2, <2>1, KeptUpdates
    <2> QED
      BY <2>1, <2>2, <2>3, LastFrameTold
  <1>7. fin \in Seq(Frame \cup SessFrame) /\ \A i \in 1..Len(fin) : fin[i] \in Told(Peer(s))
    <2>1. [cmd |-> "sfin"] \in Told(Peer(s)) /\ [cmd |-> "sfin"] \in Frame \cup SessFrame
      BY DEF Told, SessFrame, SessCmds
    <2>2. <<[cmd |-> "sfin"]>> \in Seq(Frame \cup SessFrame) /\ <<>> \in Seq(Frame \cup SessFrame)
      BY <2>1
    <2>3. CASE fin = <<>>
      BY <2>2, <2>3
    <2>4. CASE fin = <<[cmd |-> "sfin"]>>
      <3>1. Len(fin) = 1 /\ fin[1] = [cmd |-> "sfin"]
        BY <2>4
      <3>2. \A i \in 1..Len(fin) : i = 1
        BY <3>1, SMT
      <3> QED
        BY <2>1, <2>2, <2>4, <3>1, <3>2
    <2> QED
      BY <2>3, <2>4
  <1>8. ClsOfAll(s) \in Seq(Frame \cup SessFrame)
    BY ClsOfAllTyped, Typed
  <1> DEFINE out == ClsOfAll(s) \o fin
  <1>9. /\ out \in Seq(Frame \cup SessFrame)
        /\ \A i \in 1..Len(out) : out[i] \in Told(Peer(s))
    <2>1. Follows(ClsOfAll(s), out, Told(Peer(s))) /\ out \in Seq(Frame \cup SessFrame)
      BY <1>7, <1>8, FollowsConcat, ConcatProperties
    <2>2. /\ Len(ClsOfAll(s)) \in Nat /\ Len(fin) \in Nat
          /\ Len(out) = Len(ClsOfAll(s)) + Len(fin)
          /\ \A i \in 1..Len(ClsOfAll(s)) + Len(fin) : out[i] =
                IF i <= Len(ClsOfAll(s)) THEN ClsOfAll(s)[i] ELSE fin[i - Len(ClsOfAll(s))]
      BY <1>7, <1>8, ConcatProperties, LenProperties
    <2> HIDE DEF out
    <2>3. ASSUME NEW i \in 1..Len(out) PROVE out[i] \in Told(Peer(s))
      <3>1. CASE i <= Len(ClsOfAll(s))
        <4>1. i \in 1..Len(ClsOfAll(s)) /\ i \in 1..Len(ClsOfAll(s)) + Len(fin)
          BY <2>2, <3>1, SMT
        <4> QED
          BY <1>6, <2>2, <3>1, <4>1
      <3>2. CASE ~(i <= Len(ClsOfAll(s)))
        <4>1. i - Len(ClsOfAll(s)) \in 1..Len(fin) /\ i \in 1..Len(ClsOfAll(s)) + Len(fin)
          BY <2>2, <3>2, SMT
        <4>2. out[i] = fin[i - Len(ClsOfAll(s))]
          BY <2>2, <3>2, <4>1
        <4> QED
          BY <1>7, <4>1, <4>2
      <3> QED
        BY <3>1, <3>2
    <2> QED
      BY <2>1, <2>3
  <1>10. \A t \in End : Follows(chan[t], chan'[t], Told(t))
    <2> HIDE DEF out
    <2>1. Post(s, out)
      BY <1>5 DEF out
    <2> QED
      BY <1>9, <2>1, PostFollows
  <1> QED
    BY <1>4, <1>10, StreamsKept

LEMMA RecvStreams ==
    ASSUME TypeOK, TypeOK', StreamInv, NEW s \in End,
           \/ RecvFin(s) \/ \E cmd \in {"connect", "push"} : RecvData(s, cmd)
           \/ RecvInvalidConnect(s) \/ \E cmd \in Frames : RecvUnknown(s, cmd)
           \/ RecvSessFinAck(s)
    PROVE  StreamInv'
  <1>1. Consumed(s) /\ chan[s] # <<>> /\ UNCHANGED <<made, count>>
    BY DEF RecvFin, RecvData, DataTo, RecvInvalidConnect, RecvUnknown, RecvSessFinAck, Arrives
  <1>2. \A t \in End : Follows(chan[t], chan'[t], Told(t))
    BY <1>1, ConsumedFollows
  <1>3. NoneMade
    <2>1. CASE RecvFin(s) \/ \E cmd \in {"connect", "push"} : RecvData(s, cmd)
      <3>1. PICK n \in Num :
                /\ conn[s][n] \in Conn
                /\ \/ conn' = conn
                   \/ conn' = [conn EXCEPT ![s][n] = [conn[s][n] EXCEPT !.recv = "stop"]]
                   \/ \E k \in Nat : conn' = [conn EXCEPT ![s][n] =
                                       [conn[s][n] EXCEPT !.recv = "ready", !.rcvd = k]]
        BY <2>1, ReceivingConn
      <3>2. CASE conn' = conn
        BY <1>1, <3>2, ConnsSame
      <3>3. CASE conn' = [conn EXCEPT ![s][n] = [conn[s][n] EXCEPT !.recv = "stop"]]
        <4>1. KeptConn(conn[s][n], [conn[s][n] EXCEPT !.recv = "stop"])
          BY <3>1, KeptUpdates
        <4> QED
          BY <1>1, <3>3, <4>1, OneKept
      <3>4. ASSUME NEW k \in Nat,
                   conn' = [conn EXCEPT ![s][n] =
                              [conn[s][n] EXCEPT !.recv = "ready", !.rcvd = k]]
            PROVE  NoneMade
        <4>1. KeptConn(conn[s][n], [conn[s][n] EXCEPT !.recv = "ready", !.rcvd = k])
          BY <3>1, KeptUpdates
        <4> QED
          BY <1>1, <3>4, <4>1, OneKept
      <3> QED
        BY <3>1, <3>2, <3>3, <3>4
    <2>2. CASE RecvInvalidConnect(s) \/ \E cmd \in Frames : RecvUnknown(s, cmd)
      <3>1. UNCHANGED <<conn, made, count>>
        BY <2>2 DEF RecvInvalidConnect, RecvUnknown
      <3> QED
        BY <3>1, ConnsSame
    <2>3. CASE RecvSessFinAck(s)
      <3>1. UNCHANGED <<conn, made, count>>
        BY <2>3 DEF RecvSessFinAck
      <3> QED
        BY <3>1, ConnsSame
    <2> QED
      BY <2>1, <2>2, <2>3
  <1> QED
    BY <1>2, <1>3, StreamsKept

LEMMA RecvSessFinStreams ==
    ASSUME TypeOK, TypeOK', StreamInv, NEW s \in End, RecvSessFin(s)
    PROVE  StreamInv'
  <1>1. chan[s] # <<>> /\ UNCHANGED <<conn, made, count>>
    BY DEF RecvSessFin, Arrives
  <1>2. chan \in [End -> Seq(Frame \cup SessFrame)] /\ Peer(s) \in End /\ Peer(s) # s
    BY Ends DEF TypeOK
  <1> DEFINE f == [cmd |-> "sfinack"]
  <1>3. f \in Told(Peer(s)) /\ f \in Frame \cup SessFrame
    BY DEF Told, SessFrame, SessCmds
  <1>4. /\ chan'[s] = Tail(chan[s])
        /\ chan'[Peer(s)] = Append(chan[Peer(s)], f)
    BY <1>2 DEF RecvSessFin
  <1> HIDE DEF f
  <1>5. Append(chan[Peer(s)], f) = chan[Peer(s)] \o <<f>> /\ <<f>> \in Seq(Frame \cup SessFrame)
    BY <1>2, <1>3, AppendIsConcat
  <1>6. \A i \in 1..Len(<<f>>) : <<f>>[i] \in Told(Peer(s))
    BY <1>3
  <1>7. Follows(chan[Peer(s)], chan[Peer(s)] \o <<f>>, Told(Peer(s)))
    BY <1>2, <1>5, <1>6, FollowsConcat
  <1>8. Follows(chan[s], Tail(chan[s]), Told(s))
    BY <1>1, <1>2, FollowsTail
  <1>9. \A t \in End : Follows(chan[t], chan'[t], Told(t))
    BY <1>4, <1>5, <1>7, <1>8, Ends
  <1>10. NoneMade
    BY <1>1, ConnsSame
  <1> QED
    BY <1>9, <1>10, StreamsKept

LEMMA TickStreams ==
    ASSUME TypeOK, TypeOK', StreamInv, NEW s \in End,
           NextTick(s) \/ WaitFinExpires(s) \/ SessReady(s) \/ SessAcked(s)
    PROVE  StreamInv'
  <1>1. chan' = chan /\ UNCHANGED <<made, count>>
    BY DEF NextTick, RemoveConn, RemoveSess, RemoveMux, WaitFinExpires, DeleteSess,
           SessReady, SessAcked
  <1>2. NoneMade
    <2>1. CASE RemoveConn(s)
      <3> DEFINE n == Head(ticks[s]).n
      <3>1. conn' = [conn EXCEPT ![s][n] = [conn[s][n] EXCEPT !.live = FALSE]]
        BY <2>1 DEF RemoveConn
      <3>2. ticks[s] \in Seq(Tick) /\ ticks[s] # <<>> /\ Head(ticks[s]).what = "conn"
        BY <2>1 DEF RemoveConn, Runs, TypeOK
      <3>3. Head(ticks[s]) \in Tick
        BY <3>2, HeadTailProperties
      <3>4. n \in Num
        BY <3>2, <3>3 DEF Tick
      <3>5. KeptConn(conn[s][n], [conn[s][n] EXCEPT !.live = FALSE])
        <4>1. conn[s][n] \in Conn
          BY <3>4 DEF TypeOK
        <4> QED
          BY <4>1, KeptUpdates
      <3> HIDE DEF n
      <3> QED
        BY <1>1, <3>1, <3>4, <3>5, OneKept
    <2>2. CASE ~RemoveConn(s)
      <3>1. conn' = conn
        BY <2>2 DEF NextTick, RemoveSess, RemoveMux, WaitFinExpires, DeleteSess,
               SessReady, SessAcked
      <3> QED
        BY <1>1, <3>1, ConnsSame
    <2> QED
      BY <2>1, <2>2
  <1> QED
    BY <1>1, <1>2, UnchangedFollows, StreamsKept

(***************************************************************************)
(* A data frame is sent: by a conn that has not ended, so no frame in      *)
(* flight ends its stream.                                                 *)
(***************************************************************************)
LEMMA ConnSendStreams ==
    ASSUME TypeOK, TypeOK', RemovalInv, StreamInv, NEW s \in End, NEW n \in Num,
           ConnSend(s, n)
    PROVE  StreamInv'
  <1> DEFINE c == [conn[s][n] EXCEPT !.send = "ready", !.sent = conn[s][n].sent + 1]
             cmd == IF conn[s][n].send = "none" THEN "connect" ELSE "push"
             f == FrameOf(s, n, cmd, conn[s][n].sent + 1)
             p == Peer(s)
  <1>1. /\ conn[s][n] \in Conn /\ conn[s][n].live
        /\ conn[s][n].send # "stopped" /\ ~conn[s][n].told
        /\ conn' = [conn EXCEPT ![s][n] = c]
        /\ UNCHANGED <<made, count>>
    BY SendingConn DEF ConnSend
  <1>2. n \in Made(s)
    BY <1>1, ListedIsMade
  <1>3. KeptConn(conn[s][n], c) /\ c.send = "ready"
    <2>1. c.send = "ready"
      BY <1>1 DEF Conn
    <2> QED
      BY <1>1, <2>1, KeptUpdates
  <1>4. /\ f.cmd = cmd /\ f.stream = conn[s][n].stream
        /\ f.id = conn[s][n].id /\ Data(f)
    BY FrameFields DEF Data
  <1>5. p \in End /\ p # s /\ Peer(p) = s
    BY Ends
  <1>6. chan \in [End -> Seq(Frame \cup SessFrame)]
    BY DEF TypeOK
  <1>7. \A t \in End : /\ DOMAIN chan[t] = 1..Len(chan[t]) /\ Len(chan[t]) \in Nat
                       /\ DOMAIN chan'[t] = 1..Len(chan'[t]) /\ Len(chan'[t]) \in Nat
    BY LenProperties DEF TypeOK
  <1>8. Post(s, <<f>>)
    BY DEF ConnSend
  <1>9. <<f>> \in Seq(Frame \cup SessFrame)
    <2>1. conn[s][n].sent + 1 \in Nat /\ cmd \in Frames
      BY <1>1 DEF Conn, Frames
    <2> QED
      BY <2>1, FrameTyped, Typed
  <1> HIDE DEF c, f, cmd, p
  <1>10. NoneMade /\ conn'[s][n] = c
    BY <1>1, <1>3, OneKept
  <1>11. ConnStreams'
    BY <1>10, ConnStreamsKept DEF StreamInv
  <1>12. \A t \in End : Made(t)' = Made(t) /\ Made(t) \subseteq Num
    BY <1>10, NoneMadeAdvances DEF Made
  <1>13. \A t \in End : \A i \in DOMAIN chan'[t] :
           \/ i \in DOMAIN chan[t] /\ chan'[t][i] = chan[t][i]
           \/ t = p /\ i = Len(chan[p]) + 1 /\ chan'[t][i] = f
    <2>1. \A t \in End : t # p => chan'[t] = chan[t]
      BY <1>5, <1>6, <1>8 DEF Post, p
    <2>2. chan'[p] = chan[p] \/ chan'[p] = chan[p] \o <<f>>
      BY <1>5, <1>6, <1>8 DEF Post, p
    <2>3. /\ Len(chan[p] \o <<f>>) = Len(chan[p]) + 1
          /\ \A i \in 1..Len(chan[p]) + 1 :
                (chan[p] \o <<f>>)[i] = IF i <= Len(chan[p]) THEN chan[p][i] ELSE f
      <3>1. /\ Len(<<f>>) = 1 /\ <<f>>[1] = f
            /\ chan[p] \in Seq(Frame \cup SessFrame)
        BY <1>5, <1>6
      <3>2. /\ Len(chan[p] \o <<f>>) = Len(chan[p]) + 1
            /\ \A i \in 1..Len(chan[p]) + 1 : (chan[p] \o <<f>>)[i] =
                 IF i <= Len(chan[p]) THEN chan[p][i] ELSE <<f>>[i - Len(chan[p])]
        BY <1>9, <3>1, ConcatProperties
      <3>3. \A i \in 1..Len(chan[p]) + 1 : ~(i <= Len(chan[p])) => i - Len(chan[p]) = 1
        BY <1>5, <1>7, SMT
      <3> QED
        BY <3>1, <3>2, <3>3
    <2>4. ASSUME NEW i \in DOMAIN chan'[p]
          PROVE  \/ i \in DOMAIN chan[p] /\ chan'[p][i] = chan[p][i]
                 \/ i = Len(chan[p]) + 1 /\ chan'[p][i] = f
      <3>1. CASE chan'[p] = chan[p]
        BY <3>1
      <3>2. CASE chan'[p] = chan[p] \o <<f>>
        <4>1. i \in 1..Len(chan[p]) + 1
          BY <1>5, <1>7, <2>3, <3>2
        <4>2. CASE i <= Len(chan[p])
          <5>1. i \in DOMAIN chan[p]
            BY <1>5, <1>7, <4>1, <4>2, SMT
          <5> QED
            BY <2>3, <3>2, <4>1, <4>2, <5>1
        <4>3. CASE ~(i <= Len(chan[p]))
          <5>1. i = Len(chan[p]) + 1
            BY <1>5, <1>7, <4>1, <4>3, SMT
          <5> QED
            BY <2>3, <3>2, <4>1, <4>3, <5>1
        <4> QED
          BY <4>2, <4>3
      <3> QED
        BY <2>2, <3>1, <3>2
    <2>5. ASSUME NEW t \in End, NEW i \in DOMAIN chan'[t]
          PROVE  \/ i \in DOMAIN chan[t] /\ chan'[t][i] = chan[t][i]
                 \/ t = p /\ i = Len(chan[p]) + 1 /\ chan'[t][i] = f
      BY <2>1, <2>4
    <2> QED
      BY <2>5
  <1>14. \A t \in End : \A m \in Made(t) :
           /\ conn'[t][m].stream = conn[t][m].stream
           /\ conn[t][m].send # "none" => conn'[t][m].send # "none"
           /\ Ended(conn[t][m]) => Ended(conn'[t][m])
    BY <1>10, <1>12 DEF NoneMade, KeptConn
  <1>15. f.id % 2 = IdParity(f.stream[1])
    BY <1>2, <1>4 DEF StreamInv, ConnStreams, Parities
  (* What is in flight of the stream of n. *)
  <1>16. ASSUME NEW i \in DOMAIN chan[p], chan[p][i].cmd \in Frames,
                chan[p][i].stream = f.stream
         PROVE  ~Stops(chan[p][i]) /\ (chan[p][i].cmd = "connect" => conn[s][n].send # "none")
    <2>1. Known(p, chan[p][i])
      BY <1>5, <1>16 DEF StreamInv, FrameStreams, FramesKnown
    <2>2. PICK m \in Made(s) :
              /\ conn[s][m].stream = f.stream
              /\ chan[p][i].cmd = "connect" => conn[s][m].send # "none"
              /\ Stops(chan[p][i]) => Ended(conn[s][m])
      BY <1>5, <1>16, <2>1 DEF Known
    <2>3. m = n
      BY <1>2, <1>4, <2>2 DEF StreamInv, ConnStreams, OneCarrier
    <2> QED
      BY <1>1, <2>2, <2>3 DEF Ended
  <1>17. FramesKnown'
    <2> SUFFICES ASSUME NEW t \in End, NEW i \in DOMAIN chan'[t], chan'[t][i].cmd \in Frames
                 PROVE  Known(t, chan[t][i])'
      BY DEF FramesKnown
    <2>1. Peer(t) \in End
      BY Ends
    <2>2. CASE i \in DOMAIN chan[t] /\ chan'[t][i] = chan[t][i]
      <3>1. Known(t, chan[t][i])
        BY <2>2 DEF StreamInv, FrameStreams, FramesKnown
      <3>2. PICK m \in Made(Peer(t)) :
                /\ conn[Peer(t)][m].stream = chan[t][i].stream
                /\ chan[t][i].cmd = "connect" => conn[Peer(t)][m].send # "none"
                /\ Stops(chan[t][i]) => Ended(conn[Peer(t)][m])
        BY <3>1 DEF Known
      <3>3. /\ conn'[Peer(t)][m].stream = chan[t][i].stream
            /\ chan[t][i].cmd = "connect" => conn'[Peer(t)][m].send # "none"
            /\ Stops(chan[t][i]) => Ended(conn'[Peer(t)][m])
        BY <1>14, <2>1, <3>2
      <3>4. m \in Made(Peer(t))'
        BY <1>12, <2>1
      <3>5. chan[t][i].id % 2 = IdParity(chan[t][i].stream[1])
        BY <3>1 DEF Known
      <3> QED
        BY <2>2, <3>3, <3>4, <3>5 DEF Known, Stops, Ended, IdParity, Peer
    <2>3. CASE t = p /\ i = Len(chan[p]) + 1 /\ chan'[t][i] = f
      <3>1. conn'[s][n].stream = f.stream /\ conn'[s][n].send # "none" /\ n \in Made(s)'
        BY <1>2, <1>3, <1>4, <1>10, <1>12, <1>14
      <3>2. ~Stops(f)
        BY <1>4 DEF Stops, Data
      <3>3. Peer(t) = s
        BY <1>5, <2>3
      <3> QED
        BY <1>15, <2>3, <3>1, <3>2, <3>3 DEF Known, Stops, Ended, IdParity, Peer
    <2> QED
      BY <1>13, <2>2, <2>3
  <1>18. ConnectsOnce'
    <2> SUFFICES ASSUME NEW t \in End, NEW i \in DOMAIN chan'[t], NEW j \in DOMAIN chan'[t],
                        Opens(t, chan'[t][i]), Opens(t, chan'[t][j]),
                        chan'[t][i].stream = chan'[t][j].stream
                 PROVE  i = j
      BY DEF ConnectsOnce, Opens, Peer
    <2>1. ASSUME NEW k \in DOMAIN chan[p], Opens(p, chan[p][k]), Opens(p, f),
                 chan[p][k].stream = f.stream
          PROVE  FALSE
      <3>1. conn[s][n].send # "none"
        BY <1>16, <2>1 DEF Opens, Frames
      <3>2. conn[s][n].send = "none"
        BY <1>4, <2>1 DEF Opens, cmd
      <3> QED
        BY <3>1, <3>2
    <2>2. CASE i \in DOMAIN chan[t] /\ chan'[t][i] = chan[t][i]
               /\ j \in DOMAIN chan[t] /\ chan'[t][j] = chan[t][j]
      BY <2>2 DEF StreamInv, FrameStreams, ConnectsOnce
    <2> QED
      BY <1>13, <2>1, <2>2
  <1>19. QuietAfterStop'
    <2> SUFFICES ASSUME NEW t \in End, NEW i \in DOMAIN chan'[t], NEW j \in DOMAIN chan'[t],
                        i < j, chan'[t][i].cmd \in {"fin", "cls"}, Data(chan'[t][j])
                 PROVE  chan'[t][i].stream # chan'[t][j].stream
      BY DEF QuietAfterStop, Data
    <2>1. ~(chan'[t][i] = f)
      BY <1>4 DEF Data
    <2>2. i \in DOMAIN chan[t] /\ chan'[t][i] = chan[t][i]
      BY <1>13, <2>1
    <2>3. CASE j \in DOMAIN chan[t] /\ chan'[t][j] = chan[t][j]
      BY <2>2, <2>3 DEF StreamInv, FrameStreams, QuietAfterStop
    <2>4. CASE t = p /\ chan'[t][j] = f
      <3>1. chan[p][i].cmd \in Frames /\ Stops(chan[p][i])
        BY <2>2, <2>4 DEF Frames, Stops
      <3>2. chan[p][i].stream # f.stream
        BY <1>16, <2>2, <2>4, <3>1
      <3> QED
        BY <2>2, <2>4, <3>2
    <2> QED
      BY <1>13, <2>3, <2>4
  <1>20. NoConnYet'
    <2> SUFFICES ASSUME NEW t \in End, NEW i \in DOMAIN chan'[t], Opens(t, chan'[t][i]),
                        NEW m \in Made(t)
                 PROVE  conn'[t][m].stream # chan'[t][i].stream
      BY <1>12 DEF NoConnYet, Opens, Peer
    <2>1. conn'[t][m].stream = conn[t][m].stream
      BY <1>14
    <2>2. CASE i \in DOMAIN chan[t] /\ chan'[t][i] = chan[t][i]
      BY <2>1, <2>2 DEF StreamInv, NoConnYet
    <2>3. CASE t = p /\ chan'[t][i] = f
      <3>1. f.stream[1] = s /\ conn[s][n].send = "none"
        BY <1>4, <1>5, <2>3 DEF Opens, cmd
      <3>2. f.stream[2] = n
        BY <1>2, <1>4, <3>1 DEF StreamInv, ConnStreams, OwnStreams
      <3>3. ASSUME conn[p][m].stream = f.stream PROVE FALSE
        <4>1. conn[p][m].stream[1] = Peer(p)
          BY <1>5, <3>1, <3>3
        <4>2. conn[Peer(p)][conn[p][m].stream[2]].send # "none"
          BY <1>5, <2>3, <4>1 DEF StreamInv, ConnStreams, Connected
        <4> QED
          BY <1>5, <3>1, <3>2, <3>3, <4>2
      <3> QED
        BY <2>1, <2>3, <3>3
    <2> QED
      BY <1>13, <2>2, <2>3
  <1> QED
    BY <1>11, <1>17, <1>18, <1>19, <1>20 DEF StreamInv, FrameStreams

(***************************************************************************)
(* A conn is made.  New(s, n, c): the n-th conn of s is c, or is beyond    *)
(* the bound of the model.                                                 *)
(***************************************************************************)
New(s, n, c) ==
    /\ n = made[s] + 1
    /\ made' = [made EXCEPT ![s] = n]
    /\ conn' = [conn EXCEPT ![s][n] = c]

LEMMA NewFacts ==
    ASSUME TypeOK, NEW s \in End, NEW n, NEW c, New(s, n, c)
    PROVE  /\ n \notin Made(s)
           /\ n \in Num => n \in Made(s)' /\ conn'[s][n] = c
           /\ \A t \in End : t # s => Made(t)' = Made(t)
           /\ \A m \in Made(s)' : m \in Made(s) \/ m = n
           /\ \A t \in End : \A m \in Made(t) : m \in Made(t)' /\ conn'[t][m] = conn[t][m]
           /\ Advances
  <1>1. /\ made \in [End -> Nat] /\ conn \in [End -> [Num -> Conn]]
        /\ made[s] \in Nat /\ n = made[s] + 1 /\ Num \subseteq Nat
    BY Numbers DEF TypeOK, New
  <1>2. /\ made'[s] = n
        /\ \A t \in End : t # s => made'[t] = made[t]
    BY <1>1 DEF New
  <1>3. n \notin Made(s)
    BY <1>1, SMT DEF Made
  <1>4. n \in Num => n \in Made(s)' /\ conn'[s][n] = c
    BY <1>1, <1>2, SMT DEF Made, New
  <1>5. \A t \in End : t # s => Made(t)' = Made(t)
    BY <1>2 DEF Made
  <1>6. \A m \in Num : m <= n => m <= made[s] \/ m = n
    BY <1>1, SMT
  <1>7. \A m \in Made(s)' : m \in Made(s) \/ m = n
    BY <1>2, <1>6 DEF Made
  <1>8. \A m \in Made(s) : m \in Made(s)'
    <2>1. \A m \in Num : m <= made[s] => m <= n
      BY <1>1, SMT
    <2> QED
      BY <1>2, <2>1 DEF Made
  <1>9. \A t \in End : \A m \in Made(t) : m \in Made(t)' /\ conn'[t][m] = conn[t][m]
    <2> SUFFICES ASSUME NEW t \in End, NEW m \in Made(t)
                 PROVE  m \in Made(t)' /\ conn'[t][m] = conn[t][m]
      OBVIOUS
    <2>1. m \in Made(t)'
      BY <1>5, <1>8
    <2>2. ~(t = s /\ m = n) /\ m \in Num
      BY <1>3 DEF Made
    <2>3. conn'[t][m] = conn[t][m]
      BY <1>1, <2>2 DEF New
    <2> QED
      BY <2>1, <2>3
  <1>10. Advances
    BY <1>9 DEF Advances, KeptConn
  <1> QED
    BY <1>3, <1>4, <1>5, <1>7, <1>9, <1>10

LEMMA NewConnStreams ==
    ASSUME TypeOK, ConnStreams, NEW s \in End, NEW n, NEW c, New(s, n, c),
           c.stream[1] = s => c.stream[2] = n,
           \A m \in Made(s) : conn[s][m].stream # c.stream,
           c.id % 2 = IdParity(c.stream[1]),
           \A t \in End : count'[t] % 2 = IdParity(t),
           c.stream[1] = Peer(s) =>
             c.stream[2] \in Made(Peer(s)) /\ conn[Peer(s)][c.stream[2]].send # "none"
    PROVE  ConnStreams'
  <1>1. /\ n \notin Made(s)
        /\ n \in Num => n \in Made(s)' /\ conn'[s][n] = c
        /\ \A t \in End : t # s => Made(t)' = Made(t)
        /\ \A m \in Made(s)' : m \in Made(s) \/ m = n
        /\ \A t \in End : \A m \in Made(t) : m \in Made(t)' /\ conn'[t][m] = conn[t][m]
    BY NewFacts
  <1>2. \A t \in End : \A m \in Made(t)' :
          \/ m \in Made(t) /\ conn'[t][m] = conn[t][m]
          \/ t = s /\ m = n /\ conn'[t][m] = c
    <2> SUFFICES ASSUME NEW t \in End, NEW m \in Made(t)', m \notin Made(t)
                 PROVE  t = s /\ m = n /\ conn'[t][m] = c
      BY <1>1
    <2>1. t = s /\ m = n
      BY <1>1
    <2>2. m \in Num
      BY DEF Made
    <2> QED
      BY <1>1, <2>1, <2>2
  <1>3. OwnStreams'
    BY <1>2 DEF ConnStreams, OwnStreams
  <1>4. OneCarrier'
    BY <1>2 DEF ConnStreams, OneCarrier
  <1>5. Parities'
    <2>1. \A t \in End : \A m \in Made(t)' : conn'[t][m].id % 2 = IdParity(conn'[t][m].stream[1])
      BY <1>2 DEF ConnStreams, Parities
    <2> QED
      BY <2>1 DEF Parities, IdParity
  <1>6. Connected'
    <2> SUFFICES ASSUME NEW t \in End, NEW m \in Made(t)', conn'[t][m].stream[1] = Peer(t)
                 PROVE  /\ conn'[t][m].stream[2] \in Made(Peer(t))'
                        /\ conn'[Peer(t)][conn'[t][m].stream[2]].send # "none"
      BY DEF Connected, Peer
    <2> DEFINE x == conn'[t][m].stream[2]
    <2>1. x \in Made(Peer(t)) /\ conn[Peer(t)][x].send # "none"
      BY <1>2 DEF ConnStreams, Connected
    <2>2. Peer(t) \in End
      BY Ends
    <2> QED
      BY <1>1, <2>1, <2>2
  <1> QED
    BY <1>3, <1>4, <1>5, <1>6 DEF ConnStreams

LEMMA Counting ==
    ASSUME TypeOK, Parities, NEW s \in End
    PROVE  /\ NextId(s) % 2 = IdParity(s)
           /\ NextCount(s) % 2 = IdParity(s)
  <1>1. count[s] \in Nat /\ count[s] % 2 = IdParity(s)
    BY DEF TypeOK, Parities
  <1>2. ZeroID(s) % 2 = IdParity(s)
    <2>1. 1 % 2 = 1 /\ 2 % 2 = 0
      BY SMT
    <2> QED
      BY <2>1 DEF ZeroID, IdParity
  <1>3. (count[s] + 2) % 2 = count[s] % 2
    BY <1>1, SMT
  <1> QED
    BY <1>1, <1>2, <1>3 DEF NextId, NextCount

LEMMA CreateConnStreams ==
    ASSUME TypeOK, TypeOK', StreamInv, NEW s \in End, CreateConn(s)
    PROVE  StreamInv'
  <1> DEFINE n == made[s] + 1
             c == NewConn(NextId(s), <<s, n>>)
  <1>1. New(s, n, c) /\ count' = [count EXCEPT ![s] = NextCount(s)] /\ chan' = chan
    BY DEF CreateConn, New
  <1>2. c.stream = <<s, n>> /\ c.stream[1] = s /\ c.stream[2] = n /\ c.id = NextId(s)
    BY DEF NewConn
  <1> HIDE DEF n, c
  <1>3. NextId(s) % 2 = IdParity(s) /\ NextCount(s) % 2 = IdParity(s)
    BY Counting DEF StreamInv, ConnStreams
  <1>4. /\ n \notin Made(s)
        /\ n \in Num => n \in Made(s)' /\ conn'[s][n] = c
        /\ \A t \in End : t # s => Made(t)' = Made(t)
        /\ \A m \in Made(s)' : m \in Made(s) \/ m = n
        /\ \A t \in End : \A m \in Made(t) : m \in Made(t)' /\ conn'[t][m] = conn[t][m]
        /\ Advances
    BY <1>1, NewFacts
  <1>5. \A m \in Made(s) : conn[s][m].stream # c.stream
    BY <1>2, <1>4 DEF StreamInv, ConnStreams, OwnStreams
  <1>6. \A t \in End : count'[t] % 2 = IdParity(t)
    BY <1>1, <1>3 DEF StreamInv, ConnStreams, Parities, TypeOK
  <1>7. s # Peer(s)
    BY Ends
  <1>8. ConnStreams'
    BY <1>1, <1>2, <1>3, <1>5, <1>6, <1>7, NewConnStreams DEF StreamInv
  <1>9. FrameStreams'
    BY <1>1, <1>4, UnchangedFollows, FramesFollow DEF StreamInv
  <1>10. NoConnYet'
    <2> SUFFICES ASSUME NEW t \in End, NEW i \in DOMAIN chan[t], Opens(t, chan[t][i]),
                        NEW m \in Made(t)'
                 PROVE  conn'[t][m].stream # chan[t][i].stream
      BY <1>1 DEF NoConnYet, Opens, Peer
    <2>1. CASE m \in Made(t)
      <3>1. conn'[t][m] = conn[t][m]
        BY <1>4, <2>1
      <3> QED
        BY <2>1, <3>1 DEF StreamInv, NoConnYet
    <2>2. CASE m \notin Made(t)
      <3>1. t = s /\ m = n
        BY <1>4, <2>2
      <3>2. m \in Num
        BY DEF Made
      <3>3. conn'[t][m].stream[1] = s
        BY <1>2, <1>4, <3>1, <3>2
      <3>4. chan[t][i].stream[1] = Peer(s)
        BY <3>1 DEF Opens
      <3> QED
        BY <1>7, <3>3, <3>4
    <2> QED
      BY <2>1, <2>2
  <1> QED
    BY <1>8, <1>9, <1>10 DEF StreamInv

LEMMA RecvConnectNewStreams ==
    ASSUME TypeOK, TypeOK', StreamInv, NEW s \in End, RecvConnectNew(s)
    PROVE  StreamInv'
  <1> DEFINE n == made[s] + 1
             f == Head(chan[s])
             c == [NewConn(f.id, f.stream) EXCEPT !.recv = "ready", !.rcvd = f.k]
             p == Peer(s)
  <1>1. /\ New(s, n, c) /\ count' = count /\ Consumed(s) /\ chan[s] # <<>>
        /\ f.cmd = "connect" /\ IsIdFromOtherSide(s, f.id)
    BY DEF RecvConnectNew, New, Connects, Arrives
  <1>2. c.stream = f.stream /\ c.id = f.id
    BY DEF NewConn
  <1>3. p \in End /\ p # s /\ Peer(p) = s
    BY Ends
  <1>4. chan \in [End -> Seq(Frame \cup SessFrame)]
    BY DEF TypeOK
  <1>5. /\ DOMAIN chan[s] = 1..Len(chan[s]) /\ Len(chan[s]) \in Nat \ {0} /\ f = chan[s][1]
    <2>1. chan[s] \in Seq(Frame \cup SessFrame) /\ chan[s] # <<>>
      BY <1>1, <1>4
    <2> QED
      BY <2>1, LenProperties, EmptySeq
  <1>6. f \in Frame
    <2>1. ChanTyped /\ Arrives(s, "connect")
      BY Typed DEF RecvConnectNew
    <2> QED
      BY <2>1, HeadFrame, "connect" \in Frames DEF Frames
  <1>7. 1 \in DOMAIN chan[s]
    BY <1>5, SMT
  <1> HIDE DEF n, f, c, p
  <1>8. Known(s, f)
    BY <1>1, <1>5, <1>7 DEF StreamInv, FrameStreams, FramesKnown, Frames
  <1>9. f.stream[1] = p
    <2>1. f.stream[1] \in End
      BY <1>6 DEF Frame, Stream
    <2>2. f.id % 2 = IdParity(f.stream[1])
      BY <1>8 DEF Known
    <2>3. f.id % 2 = IF s = B THEN 1 ELSE 0
      BY <1>1 DEF IsIdFromOtherSide, Passive
    <2>4. s = A \/ s = B
      BY DEF End
    <2>5. f.stream[1] # s
      BY <2>2, <2>3, <2>4, EndsDiffer DEF IdParity
    <2> QED
      BY <2>1, <2>5, Ends DEF p
  <1>10. Opens(s, f)
    BY <1>1, <1>9 DEF Opens, p
  <1>11. PICK m \in Made(p) : conn[p][m].stream = f.stream /\ conn[p][m].send # "none"
    BY <1>1, <1>8 DEF Known, p
  <1>12. f.stream[2] = m
    BY <1>3, <1>9, <1>11 DEF StreamInv, ConnStreams, OwnStreams
  <1>13. \A k \in Made(s) : conn[s][k].stream # c.stream
    BY <1>2, <1>5, <1>7, <1>10 DEF StreamInv, NoConnYet
  <1>14. ConnStreams'
    <2>1. c.stream[1] = Peer(s) =>
             c.stream[2] \in Made(Peer(s)) /\ conn[Peer(s)][c.stream[2]].send # "none"
      BY <1>2, <1>11, <1>12 DEF p
    <2>2. c.stream[1] # s
      BY <1>2, <1>3, <1>9
    <2>3. c.id % 2 = IdParity(c.stream[1])
      BY <1>2, <1>8 DEF Known
    <2>4. \A t \in End : count'[t] % 2 = IdParity(t)
      BY <1>1 DEF StreamInv, ConnStreams, Parities
    <2> QED
      BY <1>1, <1>13, <2>1, <2>2, <2>3, <2>4, NewConnStreams DEF StreamInv
  <1>15. /\ n \notin Made(s)
         /\ n \in Num => n \in Made(s)' /\ conn'[s][n] = c
         /\ \A t \in End : t # s => Made(t)' = Made(t)
         /\ \A k \in Made(s)' : k \in Made(s) \/ k = n
         /\ \A t \in End : \A k \in Made(t) : k \in Made(t)' /\ conn'[t][k] = conn[t][k]
         /\ Advances
    BY <1>1, NewFacts
  <1>16. FrameStreams'
    BY <1>1, <1>15, ConsumedFollows, FramesFollow DEF StreamInv
  <1>17. \A t \in End : t # s => chan'[t] = chan[t]
    BY <1>1, <1>4 DEF Consumed
  <1>18. \A i \in DOMAIN chan'[s] : i + 1 \in DOMAIN chan[s] /\ chan'[s][i] = chan[s][i + 1]
                                    /\ i + 1 # 1
    <2>1. chan'[s] = Tail(chan[s])
      BY <1>1, <1>4 DEF Consumed
    <2>2. /\ Tail(chan[s]) \in Seq(Frame \cup SessFrame)
          /\ Len(Tail(chan[s])) = Len(chan[s]) - 1
          /\ \A i \in 1..Len(Tail(chan[s])) : Tail(chan[s])[i] = chan[s][i + 1]
      BY <1>1, <1>4, HeadTailProperties
    <2>3. DOMAIN Tail(chan[s]) = 1..Len(Tail(chan[s]))
      BY <2>2, LenProperties
    <2> QED
      BY <1>5, <2>1, <2>2, <2>3, SMT
  <1>19. NoConnYet'
    <2> SUFFICES ASSUME NEW t \in End, NEW i \in DOMAIN chan'[t], Opens(t, chan'[t][i]),
                        NEW k \in Made(t)'
                 PROVE  conn'[t][k].stream # chan'[t][i].stream
      BY DEF NoConnYet, Opens, Peer
    <2>1. PICK d \in {0, 1} : i + d \in DOMAIN chan[t] /\ chan'[t][i] = chan[t][i + d]
      BY <1>1, ConsumedFollows, ToldFacts DEF Follows
    <2>2. CASE k \in Made(t)
      <3>1. conn'[t][k] = conn[t][k]
        BY <1>15, <2>2
      <3> QED
        BY <2>1, <2>2, <3>1 DEF StreamInv, NoConnYet
    <2>3. CASE k \notin Made(t)
      <3>1. t = s /\ k = n
        BY <1>15, <2>3
      <3>2. k \in Num
        BY DEF Made
      <3>3. conn'[t][k].stream = f.stream
        BY <1>2, <1>15, <3>1, <3>2
      <3>4. i + 1 \in DOMAIN chan[s] /\ chan'[s][i] = chan[s][i + 1] /\ i + 1 # 1
        BY <1>18, <3>1
      <3>5. Opens(s, chan[s][i + 1]) /\ Opens(s, chan[s][1])
        BY <1>5, <1>10, <3>1, <3>4
      <3>6. chan[s][i + 1].stream # chan[s][1].stream
        BY <1>7, <3>4, <3>5 DEF StreamInv, FrameStreams, ConnectsOnce
      <3> QED
        BY <1>5, <3>1, <3>3, <3>4, <3>6
    <2> QED
      BY <2>2, <2>3
  <1> QED
    BY <1>14, <1>16, <1>19 DEF StreamInv

LEMMA StreamInit == Init => StreamInv
  <1> SUFFICES ASSUME Init PROVE StreamInv
    OBVIOUS
  <1>1. \A s \in End : Made(s) = {} /\ chan[s] = <<>> /\ count[s] = ZeroID(s)
    <2>1. \A n \in Num : ~(n <= 0)
      BY Numbers, SMT DEF Num
    <2> QED
      BY <2>1 DEF Init, Made
  <1>2. \A s \in End : DOMAIN chan[s] = {}
    BY <1>1
  <1>3. \A s \in End : ZeroID(s) % 2 = IdParity(s)
    <2>1. 1 % 2 = 1 /\ 2 % 2 = 0
      BY SMT
    <2> QED
      BY <2>1 DEF ZeroID, IdParity
  <1>4. ConnStreams
    BY <1>1, <1>3 DEF ConnStreams, OwnStreams, OneCarrier, Parities, Connected
  <1>5. FrameStreams /\ NoConnYet
    BY <1>2 DEF FrameStreams, FramesKnown, ConnectsOnce, QuietAfterStop, NoConnYet
  <1> QED
    BY <1>4, <1>5 DEF StreamInv

LEMMA StreamStep ==
    TypeOK /\ TypeOK' /\ RemovalInv /\ StreamInv /\ [Next]_vars => StreamInv'
  <1> SUFFICES ASSUME TypeOK, TypeOK', RemovalInv, StreamInv, [Next]_vars
               PROVE  StreamInv'
    OBVIOUS
  <1>1. CASE UNCHANGED vars
    <2>1. UNCHANGED <<conn, made, count>> /\ chan' = chan
      BY <1>1 DEF vars
    <2> QED
      BY <2>1, ConnsSame, UnchangedFollows, StreamsKept
  <1>2. ASSUME NEW s \in End, Steps(s) PROVE StreamInv'
    <2>1. CASE CreateConn(s)
      BY <2>1, CreateConnStreams
    <2>2. CASE RecvConnectNew(s)
      BY <2>2, RecvConnectNewStreams
    <2>3. ASSUME NEW n \in Num, ConnSend(s, n) PROVE StreamInv'
      BY <2>3, ConnSendStreams
    <2>4. ASSUME NEW n \in Num, SendStopSending(s, n) \/ SendClose(s, n) PROVE StreamInv'
      BY <2>4, EndingConnStreams
    <2>5. ASSUME NEW n \in Num, ConnClose(s, n) \/ TimesOut(s, n) PROVE StreamInv'
      BY <2>5, ConnClosingStreams
    <2>6. CASE MuxClose(s)
      BY <2>6, MuxCloseStreams
    <2>7. CASE RecvCls(s)
      BY <2>7, RecvClsStreams
    <2>8. CASE \/ RecvFin(s) \/ \E cmd \in {"connect", "push"} : RecvData(s, cmd)
               \/ RecvInvalidConnect(s) \/ \E cmd \in Frames : RecvUnknown(s, cmd)
               \/ RecvSessFinAck(s)
      BY <2>8, RecvStreams
    <2>9. CASE RecvSessFin(s)
      BY <2>9, RecvSessFinStreams
    <2>10. CASE NextTick(s) \/ WaitFinExpires(s) \/ SessReady(s) \/ SessAcked(s)
      BY <2>10, TickStreams
    <2> QED
      BY <1>2, <2>1, <2>2, <2>3, <2>4, <2>5, <2>6, <2>7, <2>8, <2>9, <2>10 DEF Steps
  <1> QED
    BY <1>1, <1>2, NextIsSteps

(* After the FIN or the CLS of a conn no data of its stream is in flight   *)
(* behind it, also when ids wrap around, the other side closes at the same *)
(* time, or Mux::Close closes every conn at once.                          *)
THEOREM NothingAfterStop == Spec => []QuietAfterStop
  <1>1. Init => RemovalInv /\ StreamInv
    BY RemovalInit, StreamInit
  <1>2. /\ TypeOK /\ TypeOK' /\ RemovalInv /\ StreamInv /\ [Next]_vars
        => RemovalInv' /\ StreamInv'
    BY RemovalStep, StreamStep
  <1>3. StreamInv => QuietAfterStop
    BY DEF StreamInv, FrameStreams
  <1> QED
    BY <1>1, <1>2, <1>3, TypeCorrect, PTL DEF Spec

(* A stream has one conn at each end for ever: a CONNECT never makes a     *)
(* second conn for the stream of an earlier one, whatever its id.          *)
THEOREM StreamsHaveOneCarrier == Spec => []OneCarrier
  <1>1. Init => RemovalInv /\ StreamInv
    BY RemovalInit, StreamInit
  <1>2. /\ TypeOK /\ TypeOK' /\ RemovalInv /\ StreamInv /\ [Next]_vars
        => RemovalInv' /\ StreamInv'
    BY RemovalStep, StreamStep
  <1>3. StreamInv => OneCarrier
    BY DEF StreamInv, ConnStreams
  <1> QED
    BY <1>1, <1>2, <1>3, TypeCorrect, PTL DEF Spec

(* GetIncreaseID does not advance the count when it wraps around: the conn *)
(* made then and the next one get the same id (Mux.cc:113-123), so the     *)
(* properties of streams cannot rest on ids being unique.                  *)
THEOREM WrapRepeatsId ==
    ASSUME TypeOK, NEW s \in End, NEW n \in Num, n = made[s] + 1,
           count[s] > MaxId, CreateConn(s)
    PROVE  /\ conn'[s][n].id = NextId(s)'
           /\ NextId(s)' = ZeroID(s)
  <1>1. NextId(s) = ZeroID(s) /\ NextCount(s) = ZeroID(s)
    BY MuxBounds, SMT DEF TypeOK, NextId, NextCount
  <1>2. count' = [count EXCEPT ![s] = ZeroID(s)]
    BY <1>1 DEF CreateConn
  <1>3. count'[s] = ZeroID(s)
    BY <1>2 DEF TypeOK
  <1>4. NextId(s)' = ZeroID(s)
    BY <1>3 DEF NextId, ZeroID, Passive
  <1>5. conn' = [conn EXCEPT ![s][n] = NewConn(ZeroID(s), <<s, n>>)]
    BY <1>1 DEF CreateConn
  <1>6. conn'[s][n] = NewConn(ZeroID(s), <<s, n>>)
    BY <1>5 DEF TypeOK
  <1> QED
    BY <1>4, <1>6 DEF NewConn

----------------------------------------------------------------------------
(***************************************************************************)
(* What a step does to the conns.  A step of s leaves the other end as it  *)
(* is, but for the frames on their way to it.                              *)
(***************************************************************************)
Later(uses, c, d) ==
    /\ d.id = c.id /\ d.stream = c.stream
    /\ d.live => c.live
    /\ c.live => d.live \/ c.closing
    /\ c.closing => d.closing
    /\ c.send = "stopped" => d.send = "stopped"
    /\ c.send = "ready" => d.send = "ready" \/ d.told \/ "stop" \in uses
    /\ d.send = "stopped" => c.send = "stopped" \/ d.closing \/ "stop" \in uses
    /\ d.closing => c.closing \/ d.send = "stopped"
    /\ c.told => d.told
    /\ c.recv = "stop" => d.recv = "stop"

LEMMA UpdatesLater ==
    ASSUME NEW c \in Conn, NEW k, NEW u
    PROVE  /\ Later(u, c, c)
           /\ c.send # "stopped" => Later(u, c, [c EXCEPT !.send = "ready", !.sent = k])
           /\ "stop" \in u => Later(u, c, [c EXCEPT !.send = "stopped"])
           /\ Later(u, c, [c EXCEPT !.told = TRUE])
           /\ Later(u, c, [c EXCEPT !.recv = "stop"])
           /\ c.recv # "stop" => Later(u, c, [c EXCEPT !.recv = "ready", !.rcvd = k])
           /\ c.closing => Later(u, c, [c EXCEPT !.live = FALSE])
           /\ Later(u, c, ConnClosed(c))
  <1>1. Conn = [live : BOOLEAN, id : Nat, send : SendStates, recv : RecvStates,
                closing : BOOLEAN, stream : Stream, sent : Nat, rcvd : Nat, told : BOOLEAN]
    BY DEF Conn
  <1>2. Later(u, c, c)
    BY DEF Later
  <1>3. c.send # "stopped" => Later(u, c, [c EXCEPT !.send = "ready", !.sent = k])
    BY <1>1 DEF Later
  <1>4. /\ "stop" \in u => Later(u, c, [c EXCEPT !.send = "stopped"])
        /\ Later(u, c, [c EXCEPT !.told = TRUE])
    BY <1>1 DEF Later
  <1>5. Later(u, c, [c EXCEPT !.recv = "stop"])
    BY <1>1 DEF Later
  <1>6. c.recv # "stop" => Later(u, c, [c EXCEPT !.recv = "ready", !.rcvd = k])
    BY <1>1 DEF Later
  <1>7. c.closing => Later(u, c, [c EXCEPT !.live = FALSE])
    BY <1>1 DEF Later
  <1>8. /\ ConnClosed(c).closing /\ ConnClosed(c).send = "stopped"
        /\ ConnClosed(c).recv = "stop" /\ ConnClosed(c).live = c.live
        /\ ConnClosed(c).id = c.id /\ ConnClosed(c).stream = c.stream
        /\ c.told => ConnClosed(c).told
        /\ c.send = "ready" => ConnClosed(c).told
    BY <1>1 DEF ConnClosed
  <1>9. Later(u, c, ConnClosed(c))
    BY <1>8 DEF Later
  <1> QED
    BY <1>2, <1>3, <1>4, <1>5, <1>6, <1>7, <1>9

Latest(s) ==
    /\ UNCHANGED <<made, count>>
    /\ \A t \in End : \A n \in Num : Later(Uses[s], conn[t][n], conn'[t][n])
    /\ \A t \in End : t # s => conn'[t] = conn[t]

LEMMA SameLatest ==
    ASSUME NEW s \in End, UNCHANGED <<conn, made, count>>
    PROVE  Latest(s)
  BY DEF Latest, Later

LEMMA OneLatest ==
    ASSUME TypeOK, UNCHANGED <<made, count>>, NEW s \in End, NEW n \in Num, NEW c,
           conn' = [conn EXCEPT ![s][n] = c], Later(Uses[s], conn[s][n], c)
    PROVE  Latest(s)
  <1>1. conn'[s][n] = c
    BY DEF TypeOK
  <1>2. \A t \in End : \A m \in Num : Later(Uses[s], conn[t][m], conn'[t][m])
    <2> SUFFICES ASSUME NEW t \in End, NEW m \in Num PROVE Later(Uses[s], conn[t][m], conn'[t][m])
      OBVIOUS
    <2>1. CASE t = s /\ m = n
      BY <1>1, <2>1
    <2>2. CASE ~(t = s /\ m = n)
      <3>1. conn'[t][m] = conn[t][m]
        BY <2>2 DEF TypeOK
      <3> QED
        BY <3>1 DEF Later
    <2> QED
      BY <2>1, <2>2
  <1>3. \A t \in End : t # s => conn'[t] = conn[t]
    BY DEF TypeOK
  <1> QED
    BY <1>2, <1>3 DEF Latest

Makes(s) == CreateConn(s) \/ RecvConnectNew(s)

LEMMA StepLatest ==
    ASSUME TypeOK, RemovalInv, NEW s \in End, Steps(s), ~Makes(s)
    PROVE  Latest(s)
  <1>1. \A n \in Num : conn[s][n] \in Conn
    BY DEF TypeOK
  <1>2. ASSUME NEW n \in Num, ConnSend(s, n) PROVE Latest(s)
    <2> DEFINE c == [conn[s][n] EXCEPT !.send = "ready", !.sent = conn[s][n].sent + 1]
    <2>1. UNCHANGED <<made, count>> /\ conn[s][n].send # "stopped"
      BY <1>2 DEF ConnSend
    <2>2. conn' = [conn EXCEPT ![s][n] = c]
      BY <1>2, SendingConn
    <2>3. Later(Uses[s], conn[s][n], c)
      BY <1>1, <2>1, UpdatesLater
    <2> HIDE DEF c
    <2> QED
      BY <2>1, <2>2, <2>3, OneLatest
  <1>3. ASSUME NEW n \in Num, SendStopSending(s, n) PROVE Latest(s)
    <2>1. UNCHANGED <<made, count>> /\ "stop" \in Uses[s]
      BY <1>3 DEF SendStopSending
    <2> QED
      BY <1>1, <1>3, <2>1, SendingConn, UpdatesLater, OneLatest
  <1>4. ASSUME NEW n \in Num, SendClose(s, n) PROVE Latest(s)
    <2>1. UNCHANGED <<made, count>>
      BY <1>4 DEF SendClose
    <2> QED
      BY <1>1, <1>4, <2>1, SendingConn, UpdatesLater, OneLatest
  <1>5. ASSUME NEW n \in Num, ConnClose(s, n) \/ TimesOut(s, n) PROVE Latest(s)
    <2>1. UNCHANGED <<made, count>> /\ conn' = [conn EXCEPT ![s][n] = ConnClosed(conn[s][n])]
      BY <1>5 DEF ConnClose, TimesOut, ConnCloses
    <2> QED
      BY <1>1, <2>1, UpdatesLater, OneLatest
  <1>6. CASE MuxClose(s)
    <2>1. UNCHANGED <<made, count>>
      BY <1>6 DEF MuxClose
    <2>2. \A t \in End, n \in Num :
                conn'[t][n] = IF t = s /\ n \in OpenConns(s)
                                THEN ConnClosed(conn[s][n]) ELSE conn[t][n]
      BY <1>6, MuxClosing
    <2>3. ASSUME NEW t \in End, NEW n \in Num PROVE Later(Uses[s], conn[t][n], conn'[t][n])
      <3>1. CASE t = s /\ n \in OpenConns(s)
        BY <1>1, <2>2, <3>1, UpdatesLater
      <3>2. CASE ~(t = s /\ n \in OpenConns(s))
        <4>1. conn'[t][n] = conn[t][n]
          BY <2>2, <3>2
        <4> QED
          BY <4>1 DEF Later
      <3> QED
        BY <3>1, <3>2
    <2>4. \A t \in End : t # s => conn'[t] = conn[t]
      <3>1. conn' = [conn EXCEPT ![s] =
                  [n \in Num |-> IF n \in OpenConns(s) THEN ConnClosed(conn[s][n])
                                 ELSE conn[s][n]]]
        BY <1>6 DEF MuxClose
      <3> QED
        BY <3>1 DEF TypeOK
    <2> QED
      BY <2>1, <2>3, <2>4 DEF Latest
  <1>7. CASE RecvFin(s) 
    <2> DEFINE n == FirstWithId(s, Head(chan[s]).id)
    <2>1. /\ UNCHANGED <<made, count>> /\ n \in Num
          /\ conn' = [conn EXCEPT ![s][n] = [conn[s][n] EXCEPT !.recv = "stop"]]
      BY <1>7, FirstFound DEF RecvFin
    <2> HIDE DEF n
    <2> QED
      BY <1>1, <2>1, UpdatesLater, OneLatest
  <1>8. ASSUME NEW cmd \in {"connect", "push"}, RecvData(s, cmd) PROVE Latest(s)
    <2> DEFINE n == FirstWithId(s, Head(chan[s]).id)
               k == Head(chan[s]).k
    <2>1. /\ UNCHANGED <<made, count>> /\ n \in Num
          /\ conn' = IF conn[s][n].recv = "stop" THEN conn
                     ELSE [conn EXCEPT ![s][n].recv = "ready", ![s][n].rcvd = k]
      BY <1>8, FirstFound DEF RecvData, DataTo
    <2> HIDE DEF n, k
    <2>2. CASE conn[s][n].recv = "stop"
      BY <2>1, <2>2, SameLatest
    <2>3. CASE conn[s][n].recv # "stop"
      <3> DEFINE c == [conn[s][n] EXCEPT !.recv = "ready", !.rcvd = k]
      <3>1. conn' = [conn EXCEPT ![s][n] = c]
        BY <1>1, <2>1, <2>3 DEF Conn, TypeOK
      <3>2. Later(Uses[s], conn[s][n], c)
        BY <1>1, <2>1, <2>3, UpdatesLater
      <3> HIDE DEF c
      <3> QED
        BY <2>1, <3>1, <3>2, OneLatest
    <2> QED
      BY <2>2, <2>3
  <1>9. CASE RecvCls(s)
    <2> DEFINE n == FirstWithId(s, Head(chan[s]).id)
    <2>1. /\ UNCHANGED <<made, count>> /\ n \in Num
          /\ conn' = conn \/ conn' = [conn EXCEPT ![s][n] = ConnClosed(conn[s][n])]
      BY <1>9, FirstFound DEF RecvCls
    <2> HIDE DEF n
    <2> QED
      BY <1>1, <2>1, SameLatest, UpdatesLater, OneLatest
  <1>10. CASE RemoveConn(s)
    <2> DEFINE n == Head(ticks[s]).n
    <2>1. ticks[s] \in Seq(Tick) /\ ticks[s] # <<>> /\ Head(ticks[s]).what = "conn"
      BY <1>10 DEF RemoveConn, Runs, TypeOK
    <2>2. Head(ticks[s]) \in Tick
      BY <2>1, HeadTailProperties
    <2>3. n \in Num
      BY <2>1, <2>2 DEF Tick
    <2>4. /\ UNCHANGED <<made, count>>
          /\ conn' = [conn EXCEPT ![s][n] = [conn[s][n] EXCEPT !.live = FALSE]]
      BY <1>10 DEF RemoveConn
    <2>5. conn[s][n].closing
      <3>1. Match(ticks[s], Closing(s))
        BY RemovalsMatch DEF RemovalInv
      <3>2. 1 \in RemovalsIn(ticks[s]) /\ ticks[s][1].n = n
        BY <2>1, EmptySeq, LenProperties, SMT DEF RemovalsIn
      <3>3. n \in Closing(s)
        BY <3>1, <3>2 DEF Match
      <3> QED
        BY <3>3 DEF Closing
    <2> HIDE DEF n
    <2> QED
      BY <1>1, <2>3, <2>4, <2>5, UpdatesLater, OneLatest
  <1>11. CASE \/ RecvInvalidConnect(s) \/ \E cmd \in Frames : RecvUnknown(s, cmd)
              \/ SessReady(s) \/ RecvSessFin(s) \/ RecvSessFinAck(s) \/ SessAcked(s)
              \/ RemoveSess(s) \/ RemoveMux(s) \/ WaitFinExpires(s)
    <2>1. UNCHANGED <<conn, made, count>>
      BY <1>11 DEF RecvInvalidConnect, RecvUnknown, SessReady, RecvSessFin, RecvSessFinAck,
         SessAcked, RemoveSess, RemoveMux, WaitFinExpires, DeleteSess
    <2> QED
      BY <2>1, SameLatest
  <1> QED
    BY <1>2, <1>3, <1>4, <1>5, <1>6, <1>7, <1>8, <1>9, <1>10, <1>11 DEF Steps, NextTick, Makes

(* A step of s leaves the state of the other end as it is. *)
Untouched(t) ==
    /\ conn'[t] = conn[t] /\ made'[t] = made[t] /\ mux'[t] = mux[t] /\ link'[t] = link[t]
    /\ waitFin'[t] = waitFin[t] /\ ticks'[t] = ticks[t] /\ closed'[t] = closed[t]
    /\ count'[t] = count[t]

LEMMA StepLocal ==
    ASSUME TypeOK, RemovalInv, NEW s \in End, Steps(s), NEW t \in End, t # s
    PROVE  Untouched(t)
  <1>1. /\ made \in [End -> Nat] /\ mux \in [End -> {"open", "freed"}]
        /\ link \in [End -> Links] /\ waitFin \in [End -> BOOLEAN]
        /\ ticks \in [End -> Seq(Tick)] /\ closed \in [End -> BOOLEAN]
        /\ conn \in [End -> [Num -> Conn]] /\ count \in [End -> Nat]
    BY DEF TypeOK
  <1>2. conn'[t] = conn[t] /\ made'[t] = made[t] /\ count'[t] = count[t]
    <2>1. CASE CreateConn(s)
      BY <1>1, <2>1 DEF CreateConn
    <2>2. CASE RecvConnectNew(s)
      <3>1. /\ \E c : conn' = [conn EXCEPT ![s][made[s] + 1] = c]
            /\ made' = [made EXCEPT ![s] = made[s] + 1] /\ count' = count
        BY <2>2, MakingConn DEF RecvConnectNew
      <3> QED
        BY <1>1, <3>1
    <2>3. CASE ~Makes(s)
      BY <2>3, StepLatest DEF Latest
    <2> QED
      BY <2>1, <2>2, <2>3 DEF Makes
  <1>3. mux'[t] = mux[t]
    <2>1. CASE RemoveMux(s)
      BY <1>1, <2>1 DEF RemoveMux
    <2>2. CASE ~RemoveMux(s)
      <3>1. UNCHANGED mux
        BY <2>2 DEF Steps, CreateConn, ConnSend, SendStopSending, SendClose, ConnClose,
           TimesOut, MuxClose, RecvConnectNew, RecvInvalidConnect, RecvUnknown, RecvData,
           RecvFin, RecvCls, SessReady, RecvSessFin, RecvSessFinAck, SessAcked, NextTick,
           RemoveConn, RemoveSess, DeleteSess, WaitFinExpires
      <3> QED
        BY <3>1
    <2> QED
      BY <2>1, <2>2
  <1>4. closed'[t] = closed[t]
    <2>1. CASE MuxClose(s)
      BY <1>1, <2>1 DEF MuxClose
    <2>2. CASE ~MuxClose(s)
      <3>1. UNCHANGED closed
        BY <2>2 DEF Steps, CreateConn, ConnSend, SendStopSending, SendClose, ConnClose,
           TimesOut, RemoveMux, RecvConnectNew, RecvInvalidConnect, RecvUnknown, RecvData,
           RecvFin, RecvCls, SessReady, RecvSessFin, RecvSessFinAck, SessAcked, NextTick,
           RemoveConn, RemoveSess, DeleteSess, WaitFinExpires
      <3> QED
        BY <3>1
    <2> QED
      BY <2>1, <2>2
  <1>5. link'[t] = link[t]
    <2>1. CASE RecvInvalidConnect(s) \/ RecvFin(s) \/ RecvCls(s) \/ RecvConnectNew(s)
               \/ (\E cmd \in Frames : RecvUnknown(s, cmd))
               \/ (\E cmd \in {"connect", "push"} : RecvData(s, cmd))
      <3>1. Read(s)
        BY <2>1 DEF RecvInvalidConnect, RecvFin, RecvCls, RecvConnectNew, RecvUnknown, RecvData
      <3> QED
        BY <1>1, <3>1 DEF Read
    <2>2. CASE MuxClose(s)
      BY <1>1, <2>2 DEF MuxClose
    <2>3. CASE SessReady(s) \/ RecvSessFin(s) \/ RecvSessFinAck(s) \/ SessAcked(s)
      BY <1>1, <2>3 DEF SessReady, RecvSessFin, RecvSessFinAck, SessAcked
    <2>4. CASE RemoveSess(s) \/ WaitFinExpires(s)
      BY <1>1, <2>4 DEF RemoveSess, WaitFinExpires, DeleteSess
    <2>5. CASE \/ CreateConn(s) \/ RemoveConn(s) \/ RemoveMux(s)
               \/ \E n \in Num : \/ ConnSend(s, n) \/ SendStopSending(s, n) \/ SendClose(s, n)
                                 \/ ConnClose(s, n) \/ TimesOut(s, n)
      <3>1. UNCHANGED link
        BY <2>5 DEF CreateConn, RemoveConn, RemoveMux, ConnSend, SendStopSending, SendClose,
           ConnClose, TimesOut
      <3> QED
        BY <3>1
    <2> QED
      BY <2>1, <2>2, <2>3, <2>4, <2>5 DEF Steps, NextTick
  <1>6. waitFin'[t] = waitFin[t]
    <2>1. CASE MuxClose(s)
      BY <1>1, <2>1 DEF MuxClose
    <2>2. CASE SessAcked(s) \/ RemoveSess(s) \/ WaitFinExpires(s)
      BY <1>1, <2>2 DEF SessAcked, RemoveSess, WaitFinExpires, DeleteSess
    <2>3. CASE ~(MuxClose(s) \/ SessAcked(s) \/ RemoveSess(s) \/ WaitFinExpires(s))
      <3>1. UNCHANGED waitFin
        BY <2>3 DEF Steps, CreateConn, ConnSend, SendStopSending, SendClose, ConnClose,
           TimesOut, RemoveMux, RecvConnectNew, RecvInvalidConnect, RecvUnknown, RecvData,
           RecvFin, RecvCls, SessReady, RecvSessFin, RecvSessFinAck, NextTick, RemoveConn
      <3> QED
        BY <3>1
    <2> QED
      BY <2>1, <2>2, <2>3
  <1>7. ticks'[t] = ticks[t]
    <2>1. CASE MuxClose(s)
      BY <2>1, MuxClosing
    <2>2. CASE SessAcked(s) \/ RemoveSess(s) \/ WaitFinExpires(s) \/ RemoveConn(s) \/ RemoveMux(s)
      BY <1>1, <2>2 DEF SessAcked, RemoveSess, WaitFinExpires, DeleteSess, RemoveConn, RemoveMux
    <2>3. ASSUME NEW n \in Num, ConnClose(s, n) \/ TimesOut(s, n) PROVE ticks'[t] = ticks[t]
      BY <1>1, <2>3 DEF ConnClose, TimesOut, ConnCloses
    <2>4. CASE RecvCls(s)
      <3>1. ticks' = ticks \/ \E x : ticks' = [ticks EXCEPT ![s] = x]
        BY <2>4 DEF RecvCls
      <3> QED
        BY <1>1, <3>1
    <2>5. CASE RecvConnectNew(s) \/ CreateConn(s)
      BY <2>5, MakingConn
    <2>6. CASE \/ RecvFin(s) \/ RecvInvalidConnect(s) \/ SessReady(s)
               \/ RecvSessFin(s) \/ RecvSessFinAck(s)
               \/ (\E cmd \in Frames : RecvUnknown(s, cmd))
               \/ (\E cmd \in {"connect", "push"} : RecvData(s, cmd))
               \/ \E n \in Num : ConnSend(s, n) \/ SendStopSending(s, n) \/ SendClose(s, n)
      <3>1. UNCHANGED ticks
        BY <2>6 DEF RecvFin, RecvInvalidConnect, SessReady, RecvSessFin, RecvSessFinAck,
           RecvUnknown, RecvData, DataTo, ConnSend, SendStopSending, SendClose
      <3> QED
        BY <3>1
    <2> QED
      BY <2>1, <2>2, <2>3, <2>4, <2>5, <2>6 DEF Steps, NextTick
  <1> QED
    BY <1>2, <1>3, <1>4, <1>5, <1>6, <1>7 DEF Untouched

(***************************************************************************)
(* What a step of s does to the channels: it may read the head of its own, *)
(* and appends to that of its peer frames of conns that have not stopped   *)
(* sending, or a frame of the session behind them.                         *)
(***************************************************************************)
SendsData(s, n, f) ==
    ConnSend(s, n) /\ f.k = conn[s][n].sent + 1 /\ (f.cmd = "connect" <=> conn[s][n].send = "none")

Posted(s) ==
    {f \in Frame \cup SessFrame :
        \/ f.cmd = "sfin" /\ MuxClose(s)
        \/ f.cmd = "sfinack" /\ RecvSessFin(s)
        \/ /\ f.cmd \in Frames
           /\ \E n \in Num :
                /\ conn[s][n].live /\ conn[s][n].send # "stopped"
                /\ f.id = conn[s][n].id /\ f.stream = conn[s][n].stream
                /\ Stops(f) \/ SendsData(s, n, f)}

Appended(s, r) ==
    /\ r \in Seq(Frame \cup SessFrame)
    /\ chan'[Peer(s)] = chan[Peer(s)] \o r
    /\ \A i \in 1..Len(r) : r[i] \in Posted(s) /\ (r[i].cmd \in SessCmds => i = Len(r))

Dropped(s) == chan'[s] = chan[s] \/ (chan[s] # <<>> /\ chan'[s] = Tail(chan[s]))

LEMMA NothingAppended ==
    ASSUME TypeOK, NEW s \in End, chan'[Peer(s)] = chan[Peer(s)]
    PROVE  Appended(s, <<>>)
  <1>1. chan[Peer(s)] \in Seq(Frame \cup SessFrame)
    BY Ends DEF TypeOK
  <1>2. chan[Peer(s)] \o <<>> = chan[Peer(s)] /\ Len(<<>>) = 0
    BY <1>1, ConcatEmptySeq
  <1>3. \A i \in 1..0 : FALSE
    BY SMT
  <1> QED
    BY <1>2, <1>3 DEF Appended

LEMMA OneAppended ==
    ASSUME TypeOK, NEW s \in End, NEW f \in Posted(s),
           chan'[Peer(s)] = chan[Peer(s)] \o <<f>>
    PROVE  Appended(s, <<f>>)
  <1>1. f \in Frame \cup SessFrame
    BY DEF Posted
  <1>2. <<f>> \in Seq(Frame \cup SessFrame) /\ Len(<<f>>) = 1 /\ <<f>>[1] = f
    BY <1>1
  <1>3. \A i \in 1..1 : i = 1
    BY SMT
  <1> QED
    BY <1>2, <1>3 DEF Appended

LEMMA PostAppends ==
    ASSUME TypeOK, NEW s \in End, NEW r, Post(s, r), Post(s, r) /\ SessExists(s) => Appended(s, r)
    PROVE  (\E q : Appended(s, q)) /\ Dropped(s)
  <1>1. chan \in [End -> Seq(Frame \cup SessFrame)] /\ Peer(s) \in End /\ Peer(s) # s
    BY Ends DEF TypeOK
  <1>2. chan'[s] = chan[s]
    BY <1>1 DEF Post
  <1>3. CASE SessExists(s)
    BY <1>2, <1>3 DEF Dropped
  <1>4. CASE ~SessExists(s)
    <2>1. chan'[Peer(s)] = chan[Peer(s)]
      BY <1>1, <1>4 DEF Post
    <2> QED
      BY <1>2, <2>1, NothingAppended DEF Dropped
  <1> QED
    BY <1>3, <1>4

LEMMA PostChannels ==
    ASSUME TypeOK, NEW s \in End, NEW r, Post(s, r)
    PROVE  /\ chan'[s] = chan[s]
           /\ SessExists(s) => chan'[Peer(s)] = chan[Peer(s)] \o r
           /\ ~SessExists(s) => chan'[Peer(s)] = chan[Peer(s)]
  <1>1. chan \in [End -> Seq(Frame \cup SessFrame)] /\ Peer(s) \in End /\ Peer(s) # s
    BY Ends DEF TypeOK
  <1> QED
    BY <1>1 DEF Post

(* The last frame of a conn that has not stopped sending. *)
LEMMA LastFramePosted ==
    ASSUME TypeOK, NEW s \in End, NEW n \in Num, conn[s][n].live, conn[s][n].send # "stopped",
           NEW cmd \in {"fin", "cls"}
    PROVE  FrameOf(s, n, cmd, 0) \in Posted(s)
  <1>1. FrameOf(s, n, cmd, 0) \in Frame /\ cmd \in Frames
    BY FrameTyped, Typed, 0 \in Nat DEF Frames
  <1> QED
    BY <1>1, FrameFields DEF Posted, Stops

LEMMA CloseAppends ==
    ASSUME TypeOK, NEW s \in End, NEW n \in Num, conn[s][n].live,
           chan'[Peer(s)] = chan[Peer(s)] \o CloseFrames(s, n)
    PROVE  Appended(s, CloseFrames(s, n))
  <1>1. CASE conn[s][n].send = "ready"
    <2>1. CloseFrames(s, n) = <<FrameOf(s, n, "cls", 0)>>
      BY <1>1 DEF CloseFrames, ClsFrames
    <2>2. FrameOf(s, n, "cls", 0) \in Posted(s)
      BY <1>1, LastFramePosted
    <2> QED
      BY <2>1, <2>2, OneAppended
  <1>2. CASE conn[s][n].send # "ready"
    <2>1. CloseFrames(s, n) = <<>>
      BY <1>2 DEF CloseFrames
    <2>2. chan[Peer(s)] \o <<>> = chan[Peer(s)]
      BY Ends, ConcatEmptySeq DEF TypeOK
    <2> QED
      BY <2>1, <2>2, NothingAppended
  <1> QED
    BY <1>1, <1>2

LEMMA SendingAppends ==
    ASSUME TypeOK, NEW s \in End, NEW n \in Num,
           ConnSend(s, n) \/ SendStopSending(s, n) \/ SendClose(s, n)
           \/ ConnClose(s, n) \/ TimesOut(s, n)
    PROVE  (\E r : Appended(s, r)) /\ Dropped(s)
  <1>1. ConnsTyped /\ conn[s][n] \in Conn
    BY Typed DEF TypeOK
  <1>2. CASE ConnSend(s, n)
    <2> DEFINE cmd == IF conn[s][n].send = "none" THEN "connect" ELSE "push"
               f == FrameOf(s, n, cmd, conn[s][n].sent + 1)
    <2>1. Post(s, <<f>>) /\ conn[s][n].live /\ conn[s][n].send # "stopped"
      BY <1>2 DEF ConnSend
    <2>2. conn[s][n].sent + 1 \in Nat /\ cmd \in Frames
      BY <1>1 DEF Conn, Frames
    <2>3. f \in Frame
      BY <1>1, <2>2, FrameTyped
    <2>4. /\ f.cmd = cmd /\ f.id = conn[s][n].id /\ f.stream = conn[s][n].stream
          /\ f.k = conn[s][n].sent + 1
      BY DEF FrameOf
    <2>5. cmd = "connect" <=> conn[s][n].send = "none"
      OBVIOUS
    <2> HIDE DEF f, cmd
    <2>6. f \in Posted(s)
      BY <1>2, <2>1, <2>2, <2>3, <2>4, <2>5 DEF Posted, SendsData
    <2>7. SessExists(s) => Appended(s, <<f>>)
      BY <2>1, <2>6, PostChannels, OneAppended
    <2> QED
      BY <2>1, <2>7, PostAppends
  <1>3. CASE SendStopSending(s, n)
    <2>1. /\ Post(s, <<FrameOf(s, n, "fin", 0)>>)
          /\ conn[s][n].live /\ conn[s][n].send # "stopped"
      BY <1>3 DEF SendStopSending
    <2>2. FrameOf(s, n, "fin", 0) \in Posted(s)
      BY <2>1, LastFramePosted
    <2>3. SessExists(s) => Appended(s, <<FrameOf(s, n, "fin", 0)>>)
      BY <2>1, <2>2, PostChannels, OneAppended
    <2> QED
      BY <2>1, <2>3, PostAppends
  <1>4. CASE SendClose(s, n)
    <2>1. /\ Post(s, <<FrameOf(s, n, "cls", 0)>>)
          /\ conn[s][n].live /\ conn[s][n].send # "stopped"
      BY <1>4 DEF SendClose, ClsFrames
    <2>2. FrameOf(s, n, "cls", 0) \in Posted(s)
      BY <2>1, LastFramePosted
    <2>3. SessExists(s) => Appended(s, <<FrameOf(s, n, "cls", 0)>>)
      BY <2>1, <2>2, PostChannels, OneAppended
    <2> QED
      BY <2>1, <2>3, PostAppends
  <1>5. CASE ConnClose(s, n) \/ TimesOut(s, n)
    <2>1. Post(s, CloseFrames(s, n)) /\ conn[s][n].live
      BY <1>5 DEF ConnClose, TimesOut, ConnCloses
    <2>2. SessExists(s) => Appended(s, CloseFrames(s, n))
      BY <2>1, PostChannels, CloseAppends
    <2> QED
      BY <2>1, <2>2, PostAppends
  <1> QED
    BY <1>2, <1>3, <1>4, <1>5

LEMMA MuxCloseAppends ==
    ASSUME TypeOK, NEW s \in End, MuxClose(s)
    PROVE  (\E r : Appended(s, r)) /\ Dropped(s)
  <1> DEFINE c == ClsOfAll(s)
  <1>1. PICK fin \in {<<>>, <<[cmd |-> "sfin"]>>} : Post(s, c \o fin)
    BY DEF MuxClose
  <1>2. /\ c \in Seq(Frame \cup SessFrame)
        /\ \A i \in 1..Len(c) : c[i] \in Posted(s) /\ c[i].cmd \notin SessCmds
    <2>1. /\ c \in Seq(Frame \cup SessFrame)
          /\ \A i \in 1..Len(c) : \E n \in Tellers(s) : c[i] = FrameOf(s, n, "cls", 0)
      <3>1. Tellers(s) \in SUBSET Num
        BY DEF Tellers, OpenConns, Listed
      <3>2. /\ Cardinality(Tellers(s)) \in Nat
            /\ InList(Tellers(s)) \in [1..Cardinality(Tellers(s)) -> Tellers(s)]
        BY <3>1, ListOrder
      <3>3. \A n \in Tellers(s) : Head(CloseFrames(s, n)) = FrameOf(s, n, "cls", 0)
        BY <3>1, CloseFramesTyped, Typed DEF Tellers
      <3>4. c \in Seq(Frame \cup SessFrame)
        BY ClsOfAllTyped, Typed
      <3>5. DOMAIN c = 1..Cardinality(Tellers(s)) /\ DOMAIN c = 1..Len(c)
        BY <3>4, LenProperties DEF ClsOfAll
      <3>6. \A i \in 1..Cardinality(Tellers(s)) :
                c[i] = Head(CloseFrames(s, InList(Tellers(s))[i]))
        BY DEF ClsOfAll
      <3> HIDE DEF c
      <3>7. \A i \in 1..Len(c) : /\ InList(Tellers(s))[i] \in Tellers(s)
                                 /\ c[i] = FrameOf(s, InList(Tellers(s))[i], "cls", 0)
        BY <3>2, <3>3, <3>5, <3>6
      <3> QED
        BY <3>4, <3>7
    <2>2. ASSUME NEW n \in Tellers(s)
          PROVE  /\ FrameOf(s, n, "cls", 0) \in Posted(s)
                 /\ FrameOf(s, n, "cls", 0).cmd \notin SessCmds
      <3>1. n \in Num /\ conn[s][n].live /\ conn[s][n].send = "ready"
        BY DEF Tellers, OpenConns, Listed, CloseFrames
      <3> QED
        BY <3>1, LastFramePosted, FrameFields DEF SessCmds
    <2> HIDE DEF c
    <2> QED
      BY <2>1, <2>2
  <1>3. /\ fin \in Seq(Frame \cup SessFrame) /\ Len(fin) \in {0, 1}
        /\ \A i \in 1..Len(fin) : fin[i] \in Posted(s) /\ i = 1 /\ i = Len(fin)
    <2>1. [cmd |-> "sfin"] \in Posted(s) /\ [cmd |-> "sfin"] \in Frame \cup SessFrame
      BY DEF Posted, SessFrame, SessCmds
    <2>2. CASE fin = <<>>
      <3>1. fin \in Seq(Frame \cup SessFrame) /\ Len(fin) = 0
        BY <2>2
      <3>2. \A i \in 1..0 : FALSE
        BY SMT
      <3> QED
        BY <3>1, <3>2
    <2>3. CASE fin = <<[cmd |-> "sfin"]>>
      <3>1. fin \in Seq(Frame \cup SessFrame) /\ Len(fin) = 1 /\ fin[1] = [cmd |-> "sfin"]
        BY <2>1, <2>3
      <3>2. \A i \in 1..1 : i = 1
        BY SMT
      <3> QED
        BY <2>1, <3>1, <3>2
    <2> QED
      BY <2>2, <2>3
  <1> DEFINE r == c \o fin
  <1> HIDE DEF c
  <1>4. /\ r \in Seq(Frame \cup SessFrame) /\ Len(c) \in Nat /\ Len(r) = Len(c) + Len(fin)
        /\ \A i \in 1..Len(c) + Len(fin) : r[i] = IF i <= Len(c) THEN c[i] ELSE fin[i - Len(c)]
    BY <1>2, <1>3, ConcatProperties, LenProperties
  <1> HIDE DEF r
  <1>5. ASSUME NEW i \in 1..Len(r)
        PROVE  r[i] \in Posted(s) /\ (r[i].cmd \in SessCmds => i = Len(r))
    <2>1. CASE i <= Len(c)
      <3>1. i \in 1..Len(c) /\ i \in 1..Len(c) + Len(fin)
        BY <1>4, <2>1, SMT
      <3> QED
        BY <1>2, <1>4, <2>1, <3>1
    <2>2. CASE ~(i <= Len(c))
      <3>1. i - Len(c) \in 1..Len(fin) /\ i \in 1..Len(c) + Len(fin)
        BY <1>3, <1>4, <2>2, SMT
      <3>2. r[i] = fin[i - Len(c)]
        BY <1>4, <2>2, <3>1
      <3>3. r[i] \in Posted(s) /\ i - Len(c) = Len(fin)
        BY <1>3, <3>1, <3>2
      <3>4. i = Len(r)
        BY <1>3, <1>4, <3>3, SMT
      <3> QED
        BY <3>3, <3>4
    <2> QED
      BY <2>1, <2>2
  <1>6. Post(s, r)
    BY <1>1 DEF r
  <1>7. SessExists(s) => Appended(s, r)
    BY <1>4, <1>5, <1>6, PostChannels DEF Appended
  <1> QED
    BY <1>6, <1>7, PostAppends

LEMMA StepChannels ==
    ASSUME TypeOK, NEW s \in End, Steps(s)
    PROVE  (\E r : Appended(s, r)) /\ Dropped(s)
  <1>1. chan \in [End -> Seq(Frame \cup SessFrame)] /\ Peer(s) \in End /\ Peer(s) # s
    BY Ends DEF TypeOK
  <1>2. ASSUME NEW n \in Num,
               ConnSend(s, n) \/ SendStopSending(s, n) \/ SendClose(s, n)
               \/ ConnClose(s, n) \/ TimesOut(s, n)
        PROVE  (\E r : Appended(s, r)) /\ Dropped(s)
    BY <1>2, SendingAppends
  <1>3. CASE MuxClose(s)
    BY <1>3, MuxCloseAppends
  <1>4. CASE \/ RecvConnectNew(s) \/ RecvInvalidConnect(s) \/ RecvFin(s) \/ RecvSessFinAck(s)
             \/ (\E cmd \in Frames : RecvUnknown(s, cmd))
             \/ (\E cmd \in {"connect", "push"} : RecvData(s, cmd))
    <2>1. Consumed(s) /\ chan[s] # <<>>
      BY <1>4 DEF RecvConnectNew, RecvInvalidConnect, RecvFin, RecvSessFinAck, RecvUnknown,
         RecvData, DataTo, Arrives
    <2>2. chan'[s] = Tail(chan[s]) /\ chan'[Peer(s)] = chan[Peer(s)]
      BY <1>1, <2>1 DEF Consumed
    <2> QED
      BY <2>1, <2>2, NothingAppended DEF Dropped
  <1>5. CASE RecvCls(s)
    <2> DEFINE n == FirstWithId(s, Head(chan[s]).id)
    <2>1. /\ n \in Num /\ conn[s][n].live /\ chan[s] # <<>>
          /\ chan' = [chan EXCEPT ![s] = Tail(@), ![Peer(s)] =
                         @ \o (IF conn[s][n].closing THEN <<>> ELSE CloseFrames(s, n))]
      BY <1>5, FirstFound DEF RecvCls, Arrives
    <2> HIDE DEF n
    <2>2. /\ chan'[s] = Tail(chan[s])
          /\ chan'[Peer(s)] =
                chan[Peer(s)] \o (IF conn[s][n].closing THEN <<>> ELSE CloseFrames(s, n))
      BY <1>1, <2>1
    <2>3. CASE conn[s][n].closing
      <3>1. chan'[Peer(s)] = chan[Peer(s)]
        BY <1>1, <2>2, <2>3, ConcatEmptySeq
      <3> QED
        BY <2>1, <2>2, <3>1, NothingAppended DEF Dropped
    <2>4. CASE ~conn[s][n].closing
      <3>1. Appended(s, CloseFrames(s, n))
        BY <2>1, <2>2, <2>4, CloseAppends
      <3> QED
        BY <2>1, <2>2, <3>1 DEF Dropped
    <2> QED
      BY <2>3, <2>4
  <1>6. CASE RecvSessFin(s)
    <2> DEFINE f == [cmd |-> "sfinack"]
    <2>1. chan[s] # <<>> /\ chan'[s] = Tail(chan[s]) /\ chan'[Peer(s)] = Append(chan[Peer(s)], f)
      BY <1>1, <1>6 DEF RecvSessFin, Arrives
    <2>2. f \in Posted(s) /\ f \in Frame \cup SessFrame
      BY <1>6 DEF Posted, SessFrame, SessCmds
    <2>3. chan'[Peer(s)] = chan[Peer(s)] \o <<f>>
      BY <1>1, <2>1, <2>2, AppendIsConcat
    <2> HIDE DEF f
    <2>4. Appended(s, <<f>>)
      BY <2>2, <2>3, OneAppended
    <2> QED
      BY <2>1, <2>4 DEF Dropped
  <1>7. CASE CreateConn(s) \/ SessReady(s) \/ SessAcked(s) \/ NextTick(s) \/ WaitFinExpires(s)
    <2>1. UNCHANGED chan
      BY <1>7 DEF CreateConn, SessReady, SessAcked, NextTick, RemoveConn, RemoveSess,
         RemoveMux, WaitFinExpires, DeleteSess
    <2> QED
      BY <2>1, NothingAppended DEF Dropped
  <1> QED
    BY <1>2, <1>3, <1>4, <1>5, <1>6, <1>7 DEF Steps

LEMMA AppendedAt ==
    ASSUME TypeOK, NEW s \in End, NEW r, Appended(s, r), NEW p, p = Peer(s)
    PROVE  /\ Len(chan[p]) \in Nat /\ Len(chan'[p]) = Len(chan[p]) + Len(r) /\ Len(r) \in Nat
           /\ DOMAIN chan[p] = 1..Len(chan[p]) /\ DOMAIN chan'[p] = 1..Len(chan'[p])
           /\ \A i \in DOMAIN chan[p] : i \in DOMAIN chan'[p] /\ chan'[p][i] = chan[p][i]
           /\ \A i \in DOMAIN chan'[p] :
                \/ i \in DOMAIN chan[p] /\ chan'[p][i] = chan[p][i]
                \/ /\ i \notin DOMAIN chan[p] /\ i > Len(chan[p]) /\ chan'[p][i] \in Posted(s)
                   /\ chan'[p][i].cmd \in SessCmds => i = Len(chan'[p])
           /\ \A j \in 1..Len(r) : /\ j + Len(chan[p]) \in DOMAIN chan'[p]
                                   /\ chan'[p][j + Len(chan[p])] = r[j]
  <1> DEFINE k == Len(chan[p])
             w == chan'[p]
  <1>1. chan[p] \in Seq(Frame \cup SessFrame)
    BY Ends DEF TypeOK
  <1>2. r \in Seq(Frame \cup SessFrame) /\ w = chan[p] \o r
    BY DEF Appended
  <1>3. k \in Nat /\ Len(r) \in Nat /\ DOMAIN chan[p] = 1..k
    BY <1>1, <1>2, LenProperties
  <1>4. /\ Len(w) = k + Len(r) /\ DOMAIN w = 1..Len(w)
        /\ \A i \in 1..k + Len(r) : w[i] = IF i <= k THEN chan[p][i] ELSE r[i - k]
    <2>1. w \in Seq(Frame \cup SessFrame)
      BY <1>1, <1>2, ConcatProperties
    <2> QED
      BY <1>1, <1>2, <2>1, ConcatProperties, LenProperties
  <1> HIDE DEF k, w
  <1>5. \A i \in 1..k : i \in 1..k + Len(r) /\ i <= k
    BY <1>3, SMT
  <1>6. \A i \in DOMAIN chan[p] : i \in DOMAIN w /\ w[i] = chan[p][i]
    BY <1>3, <1>4, <1>5
  <1>7. ASSUME NEW i \in DOMAIN w
        PROVE  \/ i \in DOMAIN chan[p] /\ w[i] = chan[p][i]
               \/ /\ i \notin DOMAIN chan[p] /\ i > k /\ w[i] \in Posted(s)
                  /\ w[i].cmd \in SessCmds => i = Len(w)
    <2>1. i \in 1..k + Len(r)
      BY <1>4
    <2>2. CASE i <= k
      <3>1. i \in 1..k
        BY <1>3, <2>1, <2>2, SMT
      <3> QED
        BY <1>3, <1>6, <3>1
    <2>3. CASE ~(i <= k)
      <3>1. i - k \in 1..Len(r) /\ i \notin 1..k /\ i > k
        BY <1>3, <2>1, <2>3, SMT
      <3>2. w[i] = r[i - k]
        BY <1>4, <2>1, <2>3
      <3>3. w[i] \in Posted(s) /\ (w[i].cmd \in SessCmds => i - k = Len(r))
        BY <3>1, <3>2 DEF Appended
      <3>4. i - k = Len(r) => i = k + Len(r)
        BY <1>3, <2>1, SMT
      <3> QED
        BY <1>3, <1>4, <3>1, <3>3, <3>4
    <2> QED
      BY <2>2, <2>3
  <1>8. ASSUME NEW j \in 1..Len(r) PROVE j + k \in DOMAIN w /\ w[j + k] = r[j]
    <2>1. j + k \in 1..k + Len(r) /\ ~(j + k <= k) /\ (j + k) - k = j
      BY <1>3, SMT
    <2> QED
      BY <1>4, <2>1
  <1> QED
    BY <1>3, <1>4, <1>6, <1>7, <1>8 DEF k, w

LEMMA DroppedAt ==
    ASSUME TypeOK, NEW s \in End, Dropped(s)
    PROVE  /\ Len(chan[s]) \in Nat /\ DOMAIN chan[s] = 1..Len(chan[s])
           /\ DOMAIN chan'[s] = 1..Len(chan'[s])
           /\ \E d \in {0, 1} :
                /\ Len(chan'[s]) = Len(chan[s]) - d
                /\ d = 0 => chan'[s] = chan[s]
                /\ d = 1 => chan[s] # <<>> /\ chan'[s] = Tail(chan[s])
                            /\ Head(chan[s]) = chan[s][1] /\ 1 \in DOMAIN chan[s]
                /\ \A i \in DOMAIN chan'[s] : /\ i + d \in DOMAIN chan[s]
                                              /\ chan'[s][i] = chan[s][i + d]
                /\ \A j \in DOMAIN chan[s] : j > d => /\ j - d \in DOMAIN chan'[s]
                                                      /\ chan'[s][j - d] = chan[s][j]
  <1>1. chan[s] \in Seq(Frame \cup SessFrame)
    BY DEF TypeOK
  <1>2. Len(chan[s]) \in Nat /\ DOMAIN chan[s] = 1..Len(chan[s])
    BY <1>1, LenProperties
  <1>3. CASE chan'[s] = chan[s]
    <2>1. \A i \in DOMAIN chan[s] : i + 0 = i /\ i - 0 = i
      BY <1>2, SMT
    <2>2. Len(chan[s]) = Len(chan[s]) - 0
      BY <1>2, SMT
    <2>3. \E d \in {0, 1} :
                /\ Len(chan'[s]) = Len(chan[s]) - d
                /\ d = 0 => chan'[s] = chan[s]
                /\ d # 1
                /\ \A i \in DOMAIN chan'[s] : /\ i + d \in DOMAIN chan[s]
                                              /\ chan'[s][i] = chan[s][i + d]
                /\ \A j \in DOMAIN chan[s] : j > d => /\ j - d \in DOMAIN chan'[s]
                                                      /\ chan'[s][j - d] = chan[s][j]
      BY <1>3, <2>1, <2>2
    <2> QED
      BY <1>2, <1>3, <2>3
  <1>4. CASE chan[s] # <<>> /\ chan'[s] = Tail(chan[s])
    <2>1. Len(chan[s]) \in Nat \ {0} /\ Head(chan[s]) = chan[s][1]
      BY <1>1, <1>4, EmptySeq, LenProperties
    <2>2. /\ Tail(chan[s]) \in Seq(Frame \cup SessFrame)
          /\ Len(Tail(chan[s])) = Len(chan[s]) - 1
          /\ \A i \in 1..Len(Tail(chan[s])) : Tail(chan[s])[i] = chan[s][i + 1]
      BY <1>1, <1>4, HeadTailProperties
    <2>3. DOMAIN Tail(chan[s]) = 1..Len(Tail(chan[s]))
      BY <2>2, LenProperties
    <2>4. \A i \in DOMAIN Tail(chan[s]) :
            i + 1 \in DOMAIN chan[s] /\ Tail(chan[s])[i] = chan[s][i + 1]
      BY <1>2, <2>1, <2>2, <2>3, SMT
    <2>5. \A j \in DOMAIN chan[s] : j > 1 =>
              j - 1 \in DOMAIN Tail(chan[s]) /\ (j - 1) + 1 = j
      BY <1>2, <2>1, <2>2, <2>3, SMT
    <2>6. \A j \in DOMAIN chan[s] : j > 1 =>
              j - 1 \in DOMAIN Tail(chan[s]) /\ Tail(chan[s])[j - 1] = chan[s][j]
      BY <2>2, <2>3, <2>5
    <2>7. 1 \in DOMAIN chan[s] /\ 1 # 0
      BY <1>2, <2>1, SMT
    <2> QED
      BY <1>2, <1>4, <2>1, <2>2, <2>3, <2>4, <2>6, <2>7
  <1> QED
    BY <1>3, <1>4 DEF Dropped

(* A conn that has just been marked as having told its peer has a CLS      *)
(* behind everything that was on the way.                                  *)
Says(s, n) ==
    \E j \in DOMAIN chan'[Peer(s)] :
        /\ j \notin DOMAIN chan[Peer(s)] /\ j > Len(chan[Peer(s)])
        /\ chan'[Peer(s)][j].cmd = "cls"
        /\ chan'[Peer(s)][j].id = conn[s][n].id
        /\ chan'[Peer(s)][j].stream = conn[s][n].stream

LEMMA OneSays ==
    ASSUME TypeOK, NEW s \in End, NEW n \in Num, conn[s][n].live, conn[s][n].send # "stopped",
           chan'[Peer(s)] = chan[Peer(s)] \o <<FrameOf(s, n, "cls", 0)>>
    PROVE  Says(s, n)
  <1> DEFINE p == Peer(s)
             f == FrameOf(s, n, "cls", 0)
  <1>1. f \in Posted(s)
    BY LastFramePosted
  <1>2. f.cmd = "cls" /\ f.id = conn[s][n].id /\ f.stream = conn[s][n].stream
    BY FrameFields
  <1> HIDE DEF f
  <1>3. Appended(s, <<f>>)
    BY <1>1, OneAppended DEF f
  <1>4. Len(<<f>>) = 1 /\ <<f>>[1] = f /\ 1 \in 1..1
    BY SMT
  <1>5. /\ 1 + Len(chan[p]) \in DOMAIN chan'[p] /\ chan'[p][1 + Len(chan[p])] = f
        /\ Len(chan[p]) \in Nat /\ DOMAIN chan[p] = 1..Len(chan[p])
    <2> HIDE DEF p
    <2>1. p = Peer(s)
      BY DEF p
    <2> QED
      BY <1>3, <1>4, <2>1, AppendedAt
  <1>6. 1 + Len(chan[p]) > Len(chan[p]) /\ 1 + Len(chan[p]) \notin DOMAIN chan[p]
    BY <1>5, SMT
  <1> QED
    BY <1>2, <1>5, <1>6 DEF Says

LEMMA ClosedTells ==
    ASSUME NEW c \in Conn
    PROVE  ConnClosed(c).told <=> c.told \/ c.send = "ready"
  BY DEF ConnClosed, Conn

LEMMA OneUntold ==
    ASSUME TypeOK, NEW s \in End, NEW n \in Num, ~conn[s][n].told, conn'[s][n].told,
           NEW m, NEW c, conn' = [conn EXCEPT ![s][m] = c]
    PROVE  m = n /\ c.told
  <1>1. CASE m # n
    <2>1. conn'[s][n] = conn[s][n]
      BY <1>1 DEF TypeOK
    <2> QED
      BY <2>1
  <1>2. CASE m = n
    <2>1. conn'[s][n] = c
      BY <1>2 DEF TypeOK
    <2> QED
      BY <1>2, <2>1
  <1> QED
    BY <1>1, <1>2

LEMMA ToldSays ==
    ASSUME TypeOK, RemovalInv, NEW s \in End, Steps(s), SessExists(s), NEW n \in Num,
           ~conn[s][n].told, conn'[s][n].told
    PROVE  Says(s, n)
  <1>1. \A m \in Num : conn[s][m] \in Conn
    BY DEF TypeOK
  <1>2. chan \in [End -> Seq(Frame \cup SessFrame)] /\ Peer(s) \in End /\ Peer(s) # s
    BY Ends DEF TypeOK
  (* Closing conn m, with what it sends. *)
  <1>3. ASSUME NEW m \in Num, conn[s][m].live,
               conn' = [conn EXCEPT ![s][m] = ConnClosed(conn[s][m])],
               chan'[Peer(s)] = chan[Peer(s)] \o CloseFrames(s, m)
        PROVE  Says(s, n)
    <2>1. m = n /\ ConnClosed(conn[s][m]).told
      BY <1>3, OneUntold
    <2>2. conn[s][m].send = "ready"
      BY <1>1, <2>1, ClosedTells
    <2>3. CloseFrames(s, m) = <<FrameOf(s, m, "cls", 0)>>
      BY <2>2 DEF CloseFrames, ClsFrames
    <2> QED
      BY <1>3, <2>1, <2>2, <2>3, OneSays
  <1>4. CASE Makes(s)
    <2> DEFINE f == Head(chan[s])
    <2>1. PICK c : conn' = [conn EXCEPT ![s][made[s] + 1] = c] /\ ~c.told
      <3>1. CASE CreateConn(s)
        <4>1. conn' = [conn EXCEPT ![s][made[s] + 1] = NewConn(NextId(s), <<s, made[s] + 1>>)]
          BY <3>1 DEF CreateConn
        <4>2. ~NewConn(NextId(s), <<s, made[s] + 1>>).told
          BY DEF NewConn
        <4> QED
          BY <4>1, <4>2
      <3>2. CASE RecvConnectNew(s)
        <4> DEFINE c == [NewConn(f.id, f.stream) EXCEPT !.recv = "ready", !.rcvd = f.k]
        <4>1. conn' = [conn EXCEPT ![s][made[s] + 1] = c]
          BY <3>2 DEF RecvConnectNew
        <4>2. ~c.told
          BY DEF NewConn
        <4> HIDE DEF c
        <4> QED
          BY <4>1, <4>2
      <3> QED
        BY <1>4, <3>1, <3>2 DEF Makes
    <2> QED
      BY <2>1, OneUntold
  <1>5. ASSUME NEW m \in Num, ConnSend(s, m) \/ SendStopSending(s, m) PROVE Says(s, n)
    <2> DEFINE c == [conn[s][m] EXCEPT !.send = "ready", !.sent = conn[s][m].sent + 1]
               d == [conn[s][m] EXCEPT !.send = "stopped"]
    <2>1. ~c.told /\ ~d.told
      BY <1>1, <1>5 DEF ConnSend, SendStopSending, Conn
    <2>2. conn' = [conn EXCEPT ![s][m] = c] \/ conn' = [conn EXCEPT ![s][m] = d]
      BY <1>5, SendingConn
    <2> HIDE DEF c, d
    <2> QED
      BY <2>1, <2>2, OneUntold
  <1>6. ASSUME NEW m \in Num, SendClose(s, m) PROVE Says(s, n)
    <2>1. /\ conn[s][m].live /\ conn[s][m].send # "stopped"
          /\ Post(s, <<FrameOf(s, m, "cls", 0)>>)
      BY <1>6 DEF SendClose, ClsFrames
    <2>2. m = n
      <3> DEFINE c == [conn[s][m] EXCEPT !.told = TRUE]
      <3>1. conn' = [conn EXCEPT ![s][m] = c]
        BY <1>6, SendingConn
      <3> HIDE DEF c
      <3> QED
        BY <3>1, OneUntold
    <2>3. chan'[Peer(s)] = chan[Peer(s)] \o <<FrameOf(s, m, "cls", 0)>>
      BY <2>1, PostChannels
    <2> QED
      BY <2>1, <2>2, <2>3, OneSays
  <1>7. ASSUME NEW m \in Num, ConnClose(s, m) \/ TimesOut(s, m) PROVE Says(s, n)
    <2>1. /\ conn[s][m].live /\ Post(s, CloseFrames(s, m))
          /\ conn' = [conn EXCEPT ![s][m] = ConnClosed(conn[s][m])]
      BY <1>7 DEF ConnClose, TimesOut, ConnCloses
    <2>2. chan'[Peer(s)] = chan[Peer(s)] \o CloseFrames(s, m)
      BY <2>1, PostChannels
    <2> QED
      BY <1>3, <2>1, <2>2
  <1>8. CASE RecvCls(s)
    <2> DEFINE m == FirstWithId(s, Head(chan[s]).id)
    <2>1. /\ m \in Num /\ conn[s][m].live
          /\ chan' = [chan EXCEPT ![s] = Tail(@), ![Peer(s)] =
                         @ \o (IF conn[s][m].closing THEN <<>> ELSE CloseFrames(s, m))]
          /\ conn[s][m].closing => conn' = conn
          /\ ~conn[s][m].closing => conn' = [conn EXCEPT ![s][m] = ConnClosed(conn[s][m])]
      BY <1>8, FirstFound DEF RecvCls
    <2> HIDE DEF m
    <2>2. ~conn[s][m].closing
      BY <2>1
    <2>3. chan'[Peer(s)] = chan[Peer(s)] \o CloseFrames(s, m)
      BY <1>2, <2>1, <2>2
    <2> QED
      BY <1>3, <2>1, <2>2, <2>3
  <1>9. CASE MuxClose(s)
    <2>1. conn'[s][n] = IF n \in OpenConns(s) THEN ConnClosed(conn[s][n]) ELSE conn[s][n]
      BY <1>9, MuxClosing
    <2>2. n \in OpenConns(s) /\ conn[s][n].send = "ready"
      BY <1>1, <2>1, ClosedTells
    <2>3. n \in Tellers(s)
      <3>1. CloseFrames(s, n) = <<FrameOf(s, n, "cls", 0)>>
        BY <2>2 DEF CloseFrames, ClsFrames
      <3>2. CloseFrames(s, n) # <<>>
        BY <3>1
      <3> QED
        BY <2>2, <3>2 DEF Tellers
    <2> DEFINE c == ClsOfAll(s)
               k == Cardinality(Tellers(s))
    <2>4. PICK fin \in {<<>>, <<[cmd |-> "sfin"]>>} : Post(s, c \o fin)
      BY <1>9 DEF MuxClose
    <2>5. chan'[Peer(s)] = chan[Peer(s)] \o (c \o fin)
      BY <2>4, PostChannels
    <2>6. c \in Seq(Frame \cup SessFrame) /\ k \in Nat /\ Len(c) = k
      <3>1. Tellers(s) \in SUBSET Num
        BY DEF Tellers, OpenConns, Listed
      <3>2. c \in Seq(Frame \cup SessFrame) /\ k \in Nat
        BY <3>1, ListOrder, ClsOfAllTyped, Typed
      <3>3. DOMAIN c = 1..k /\ DOMAIN c = 1..Len(c) /\ Len(c) \in Nat
        BY <3>2, LenProperties DEF ClsOfAll
      <3>4. Len(c) = k
        <4> HIDE DEF c, k
        <4>1. \A x \in Nat, y \in Nat : 1..x = 1..y => x = y
          <5> SUFFICES ASSUME NEW x \in Nat, NEW y \in Nat, 1..x = 1..y PROVE x = y
            OBVIOUS
          <5>1. x = 0 \/ x \in 1..x
            BY SMT
          <5>2. y = 0 \/ y \in 1..y
            BY SMT
          <5> QED
            BY <5>1, <5>2, SMT
        <4> QED
          BY <3>2, <3>3, <4>1
      <3> QED
        BY <3>2, <3>4
    <2>7. PICK j \in 1..k : c[j] = FrameOf(s, n, "cls", 0)
      <3>1. Tellers(s) \in SUBSET Num
        BY DEF Tellers, OpenConns, Listed
      <3>2. PICK j \in 1..k : InList(Tellers(s))[j] = n
        BY <2>3, <3>1, ListOrder
      <3>3. c[j] = Head(CloseFrames(s, n))
        BY <3>2 DEF ClsOfAll
      <3>4. Head(CloseFrames(s, n)) = FrameOf(s, n, "cls", 0)
        BY <2>3, CloseFramesTyped, Typed DEF Tellers
      <3> QED
        BY <3>2, <3>3, <3>4
    <2> HIDE DEF c, k
    <2>8. fin \in Seq(Frame \cup SessFrame)
      <3>1. [cmd |-> "sfin"] \in Frame \cup SessFrame
        BY DEF SessFrame, SessCmds
      <3>2. CASE fin = <<>>
        BY <3>2
      <3>3. CASE fin = <<[cmd |-> "sfin"]>>
        BY <3>1, <3>3
      <3> QED
        BY <3>2, <3>3
    <2>9. /\ c \o fin \in Seq(Frame \cup SessFrame)
          /\ j \in 1..Len(c \o fin) /\ (c \o fin)[j] = c[j]
      <3>1. /\ c \o fin \in Seq(Frame \cup SessFrame) /\ Len(fin) \in Nat
            /\ Len(c \o fin) = k + Len(fin)
            /\ \A i \in 1..k + Len(fin) : (c \o fin)[i] = IF i <= k THEN c[i] ELSE fin[i - k]
        <4>1. /\ c \o fin \in Seq(Frame \cup SessFrame)
              /\ Len(c \o fin) = Len(c) + Len(fin)
              /\ \A i \in 1..Len(c) + Len(fin) :
                    (c \o fin)[i] = IF i <= Len(c) THEN c[i] ELSE fin[i - Len(c)]
          BY <2>6, <2>8, ConcatProperties
        <4>2. Len(fin) \in Nat
          BY <2>8, LenProperties
        <4> QED
          BY <2>6, <4>1, <4>2
      <3>2. j \in 1..k + Len(fin) /\ j <= k
        BY <2>6, <3>1, SMT
      <3> QED
        BY <3>1, <3>2
    <2> DEFINE p == Peer(s)
               q == c \o fin
    <2> HIDE DEF p, q
    <2>10. /\ j + Len(chan[p]) \in DOMAIN chan'[p] /\ chan'[p][j + Len(chan[p])] = q[j]
           /\ Len(chan[p]) \in Nat /\ DOMAIN chan[p] = 1..Len(chan[p])
      <3>1. chan[p] \in Seq(Frame \cup SessFrame) /\ q \in Seq(Frame \cup SessFrame)
            /\ chan'[p] = chan[p] \o q /\ j \in 1..Len(q)
        BY <1>2, <2>5, <2>9 DEF p, q
      <3>2. /\ chan'[p] \in Seq(Frame \cup SessFrame) /\ Len(q) \in Nat /\ Len(chan[p]) \in Nat
            /\ Len(chan'[p]) = Len(chan[p]) + Len(q)
            /\ \A i \in 1..Len(chan[p]) + Len(q) : chan'[p][i] =
                  IF i <= Len(chan[p]) THEN chan[p][i] ELSE q[i - Len(chan[p])]
        BY <3>1, ConcatProperties, LenProperties
      <3>3. DOMAIN chan'[p] = 1..Len(chan[p]) + Len(q) /\ DOMAIN chan[p] = 1..Len(chan[p])
        BY <3>1, <3>2, LenProperties
      <3>4. /\ j + Len(chan[p]) \in 1..Len(chan[p]) + Len(q)
            /\ ~(j + Len(chan[p]) <= Len(chan[p])) /\ (j + Len(chan[p])) - Len(chan[p]) = j
        BY <3>1, <3>2, SMT
      <3> QED
        BY <3>2, <3>3, <3>4
    <2>11. j + Len(chan[p]) > Len(chan[p]) /\ j + Len(chan[p]) \notin DOMAIN chan[p]
      BY <2>6, <2>10, SMT
    <2>12. chan'[p][j + Len(chan[p])] = FrameOf(s, n, "cls", 0)
      BY <2>7, <2>9, <2>10 DEF q
    <2> QED
      BY <2>10, <2>11, <2>12, FrameFields DEF Says, p
  <1>10. CASE RecvFin(s) \/ \E cmd \in {"connect", "push"} : RecvData(s, cmd)
    <2>1. PICK m \in Num :
            /\ conn[s][m] \in Conn
            /\ \/ conn' = conn
               \/ conn' = [conn EXCEPT ![s][m] = [conn[s][m] EXCEPT !.recv = "stop"]]
               \/ \E k \in Nat : conn' = [conn EXCEPT ![s][m] =
                                       [conn[s][m] EXCEPT !.recv = "ready", !.rcvd = k]]
      BY <1>10, ReceivingConn
    <2>2. PICK c : (conn' = conn \/ conn' = [conn EXCEPT ![s][m] = c]) /\ c.told = conn[s][m].told
      <3>1. [conn[s][m] EXCEPT !.recv = "stop"].told = conn[s][m].told
        BY <2>1 DEF Conn
      <3>2. \A k \in Nat : [conn[s][m] EXCEPT !.recv = "ready", !.rcvd = k].told = conn[s][m].told
        BY <2>1 DEF Conn
      <3> QED
        BY <2>1, <3>1, <3>2
    <2>3. conn' = [conn EXCEPT ![s][m] = c]
      BY <2>2
    <2>4. m = n /\ c.told
      BY <2>3, OneUntold
    <2> QED
      BY <2>2, <2>4
  <1>11. CASE RemoveConn(s)
    <2> DEFINE m == Head(ticks[s]).n
    <2>1. ticks[s] \in Seq(Tick) /\ ticks[s] # <<>> /\ Head(ticks[s]).what = "conn"
      BY <1>11 DEF RemoveConn, Runs, TypeOK
    <2>2. Head(ticks[s]) \in Tick
      BY <2>1, HeadTailProperties
    <2>3. m \in Num
      BY <2>1, <2>2 DEF Tick
    <2>4. conn' = [conn EXCEPT ![s][m] = [conn[s][m] EXCEPT !.live = FALSE]]
      BY <1>11 DEF RemoveConn
    <2> HIDE DEF m
    <2>5. [conn[s][m] EXCEPT !.live = FALSE].told = conn[s][m].told
      BY <1>1, <2>3 DEF Conn
    <2> QED
      BY <2>4, <2>5, OneUntold
  <1>12. CASE \/ RecvInvalidConnect(s) \/ (\E cmd \in Frames : RecvUnknown(s, cmd))
              \/ SessReady(s) \/ RecvSessFin(s) \/ RecvSessFinAck(s) \/ SessAcked(s)
              \/ RemoveSess(s) \/ RemoveMux(s) \/ WaitFinExpires(s)
    <2>1. UNCHANGED conn
      BY <1>12 DEF RecvInvalidConnect, RecvUnknown, SessReady, RecvSessFin, RecvSessFinAck,
         SessAcked, RemoveSess, RemoveMux, WaitFinExpires, DeleteSess
    <2> QED
      BY <2>1
  <1> QED
    BY <1>4, <1>5, <1>6, <1>7, <1>8, <1>9, <1>10, <1>11, <1>12 DEF Steps, NextTick, Makes
=============================================================================
