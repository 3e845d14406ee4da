--------------------------- MODULE MuxStreamProofs ---------------------------
(***************************************************************************)
(* What is proved of module Mux about streams: whose data a frame brings,  *)
(* and that a close is told to the other side, while ids do not wrap.      *)
(***************************************************************************)
EXTENDS MuxProofs

LEMMA HeadAt ==
    ASSUME TypeOK, NEW s \in End, chan[s] # <<>>
    PROVE  1 \in DOMAIN chan[s] /\ Head(chan[s]) = chan[s][1]
  <1>1. chan[s] \in Seq(Frame \cup SessFrame)
    BY DEF TypeOK
  <1> QED
    BY <1>1, EmptySeq, LenProperties, SMT

(* A CLS is read by the conn it names.                                     *)
LEMMA ClsRead ==
    ASSUME TypeOK, NEW s \in End, Steps(s), chan[s] # <<>>, Head(chan[s]).cmd = "cls",
           chan'[s] # chan[s]
    PROVE  RecvCls(s) \/ WithId(s, Head(chan[s]).id) = {}
  <1>1. chan \in [End -> Seq(Frame \cup SessFrame)] /\ Peer(s) \in End /\ Peer(s) # s
    BY Ends DEF TypeOK
  <1>2. \A cmd : Arrives(s, cmd) => cmd = "cls"
    BY DEF Arrives
  <1>3. /\ ~RecvConnectNew(s) /\ ~RecvInvalidConnect(s) /\ ~RecvFin(s)
        /\ ~RecvSessFin(s) /\ ~RecvSessFinAck(s)
        /\ \A cmd \in {"connect", "push"} : ~RecvData(s, cmd)
    BY <1>2 DEF RecvConnectNew, RecvInvalidConnect, RecvFin, RecvSessFin, RecvSessFinAck, RecvData
  <1>4. \A r : ~Post(s, r)
    BY <1>1 DEF Post
  <1>5. /\ ~MuxClose(s)
        /\ \A n \in Num : /\ ~ConnSend(s, n) /\ ~SendStopSending(s, n) /\ ~SendClose(s, n)
                          /\ ~ConnClose(s, n) /\ ~TimesOut(s, n)
    BY <1>4 DEF MuxClose, ConnSend, SendStopSending, SendClose, ConnClose, TimesOut, ConnCloses
  <1>6. ~CreateConn(s) /\ ~SessReady(s) /\ ~SessAcked(s) /\ ~NextTick(s) /\ ~WaitFinExpires(s)
    BY DEF CreateConn, SessReady, SessAcked, NextTick, RemoveConn, RemoveSess, RemoveMux,
       WaitFinExpires, DeleteSess
  <1>7. \A cmd \in Frames : RecvUnknown(s, cmd) => WithId(s, Head(chan[s]).id) = {}
    BY DEF RecvUnknown
  <1> QED
    BY <1>3, <1>5, <1>6, <1>7 DEF Steps

(***************************************************************************)
(* Ticks that are all removals of conns.                                   *)
(***************************************************************************)
HasEnd(q) == \E i \in DOMAIN q : q[i].what # "conn"

LEMMA NoTicks == ~HasEnd(<<>>)
  BY DEF HasEnd

LEMMA TicksAppend ==
    ASSUME NEW q \in Seq(Tick), NEW t \in Tick, ~HasEnd(q), t.what = "conn"
    PROVE  ~HasEnd(Append(q, t))
  <1> DEFINE w == Append(q, t)
             k == Len(q)
  <1>1. /\ k \in Nat /\ DOMAIN q = 1..k /\ DOMAIN w = 1..(k + 1) /\ w[k + 1] = t
        /\ \A i \in 1..k : w[i] = q[i]
    BY AppendProperties, LenProperties
  <1> HIDE DEF w, k
  <1>2. ASSUME NEW i \in DOMAIN w PROVE (i \in DOMAIN q /\ w[i] = q[i]) \/ w[i] = t
    BY <1>1, SMT
  <1>3. ~HasEnd(w)
    BY <1>2 DEF HasEnd
  <1> QED
    BY <1>3 DEF w

LEMMA TicksTail ==
    ASSUME NEW q \in Seq(Tick), q # <<>>
    PROVE  /\ HasEnd(Tail(q)) => HasEnd(q)
           /\ Head(q).what # "conn" => HasEnd(q)
  <1> DEFINE r == Tail(q)
  <1>1. Len(q) \in Nat \ {0} /\ DOMAIN q = 1..Len(q) /\ Head(q) = q[1]
    BY EmptySeq, LenProperties
  <1>2. /\ r \in Seq(Tick) /\ Len(r) = Len(q) - 1 /\ DOMAIN r = 1..Len(r)
        /\ \A i \in 1..Len(r) : r[i] = q[i + 1]
    BY HeadTailProperties, LenProperties
  <1> HIDE DEF r
  <1>3. \A i \in DOMAIN r : i + 1 \in DOMAIN q /\ r[i] = q[i + 1]
    BY <1>1, <1>2, SMT
  <1>4. 1 \in DOMAIN q
    BY <1>1, SMT
  <1>5. HasEnd(r) => HasEnd(q)
    BY <1>3 DEF HasEnd
  <1>6. Head(q).what # "conn" => HasEnd(q)
    BY <1>1, <1>4 DEF HasEnd
  <1> QED
    BY <1>5, <1>6 DEF r

(***************************************************************************)
(* What streams carry.  While no end makes more conns than it has ids, an  *)
(* id names one stream: each end counts its ids up, and a conn or a frame  *)
(* has the id of the conn that opened its stream.                          *)
(***************************************************************************)
IdsSuffice == \A s \in End : 2 * Creates[s] <= MaxId

Own(s) == {n \in Made(s) : conn[s][n].stream[1] = s}

Counted ==
    \A s \in End :
        /\ made[s] <= Creates[A] + Creates[B]
        /\ Cardinality(Own(s)) <= Creates[s]
        /\ count[s] = ZeroID(s) + 2 * Cardinality(Own(s))

OwnIds ==
    \A s \in End :
        /\ \A n \in Own(s) : conn[s][n].id < count[s]
        /\ \A m, n \in Own(s) : conn[s][m].id = conn[s][n].id => m = n

SameNames(c, d) == c.stream = d.stream /\ c.id = d.id

ConnsNamed ==
    \A s \in End : \A n \in Made(s) :
        \E t \in End : \E m \in Own(t) : SameNames(conn[s][n], conn[t][m])

FramesNamed ==
    \A s \in End : \A i \in DOMAIN chan[s] :
        chan[s][i].cmd \in Frames =>
            \E n \in Made(Peer(s)) : SameNames(chan[s][i], conn[Peer(s)][n])

IdsInv == Counted /\ OwnIds /\ ConnsNamed /\ FramesNamed

(***************************************************************************)
(* Data frames of a stream are numbered from the last one received.        *)
(***************************************************************************)
DataOf(f, st) == Data(f) /\ f.stream = st
Before(q, st, i) == {j \in 1..(i - 1) : DataOf(q[j], st)}
Count(q, st, i) == Cardinality(Before(q, st, i))
Total(q, st) == Count(q, st, Len(q) + 1)

Unmet(s, st) == st[1] = Peer(s) /\ \A n \in Made(s) : conn[s][n].stream # st

(* What s has received of st, while it still receives: b data frames. *)
Receives(s, st, b) ==
    \/ \E n \in Num : /\ conn[s][n].live /\ conn[s][n].stream = st
                      /\ conn[s][n].recv # "stop" /\ conn[s][n].rcvd = b
    \/ Unmet(s, st) /\ b = 0

NumbersFrom(q, st, b) ==
    \A i \in DOMAIN q : DataOf(q[i], st) => q[i].k = b + Count(q, st, i) + 1

Numbered(s, st, b) ==
    /\ NumbersFrom(chan[s], st, b)
    /\ \A n \in Num : conn[Peer(s)][n].live /\ conn[Peer(s)][n].stream = st /\ SessExists(Peer(s))
                        => conn[Peer(s)][n].sent = b + Total(chan[s], st)
    /\ (\A n \in Made(Peer(s)) : conn[Peer(s)][n].stream # st) => b = 0

AllNumbered ==
    \A s \in End : \A st \in Stream : \A b \in Nat : Receives(s, st, b) => Numbered(s, st, b)

Starts(f) == Data(f) /\ f.k = 1 => f.cmd = "connect"
Started(c) == (c.send = "none" => c.sent = 0) /\ (c.send = "ready" => c.sent > 0)

StartsOnce ==
    /\ \A s \in End : \A i \in DOMAIN chan[s] : Starts(chan[s][i])
    /\ \A s \in End : \A n \in Num : Started(conn[s][n])

DataInv == StartsOnce /\ AllNumbered

(***************************************************************************)
(* Ids name streams.                                                       *)
(***************************************************************************)
LEMMA OwnFinite ==
    ASSUME NEW s \in End
    PROVE  /\ IsFiniteSet(Own(s)) /\ IsFiniteSet(Made(s))
           /\ Cardinality(Own(s)) \in Nat
           /\ Own(s) \subseteq Made(s) /\ Made(s) \subseteq Num
  <1>1. Own(s) \subseteq Made(s) /\ Made(s) \subseteq Num
    BY DEF Own, Made
  <1>2. IsFiniteSet(Made(s)) /\ IsFiniteSet(Own(s))
    BY <1>1, Numbers, FS_Subset
  <1> QED
    BY <1>1, <1>2, FS_CardinalityType

(* The conns of an end are its own and those of its peer, so there is room *)
(* for one more of its own in Num.                                         *)
LEMMA RoomToMake ==
    ASSUME TypeOK, ConnStreams, Counted, ConnsNamed, NEW s \in End,
           Cardinality(Own(s)) < Creates[s]
    PROVE  made[s] + 1 \in Num
  <1> DEFINE p == Peer(s)
             Far == Made(s) \ Own(s)
             g == [n \in Far |-> conn[s][n].stream[2]]
             total == Creates[A] + Creates[B]
  <1>1. p \in End /\ p # s /\ \A t \in End : t = s \/ t = p
    BY Ends
  <1>2. made[s] \in Nat /\ made[s] <= total /\ total \in Nat
    BY Numbers DEF TypeOK, Counted
  <1>3. Made(s) = 1..made[s]
    <2>1. \A n \in Nat : n \in 1..total /\ n <= made[s] <=> n \in 1..made[s]
      BY <1>2, SMT
    <2>2. \A n : n \in 1..total => n \in Nat
      BY <1>2, SMT
    <2>3. \A n : n \in 1..made[s] => n \in Nat
      BY <1>2, SMT
    <2> QED
      BY <2>1, <2>2, <2>3 DEF Made, Num
  <1>4. Cardinality(Made(s)) = made[s]
    <2>1. Cardinality(1..made[s]) = IF 1 > made[s] THEN 0 ELSE made[s] - 1 + 1
      <3>1. 1 \in Int /\ made[s] \in Int
        BY <1>2, SMT
      <3> QED
        BY <3>1, FS_Interval
    <2> QED
      BY <1>2, <1>3, <2>1, SMT
  <1>5. ASSUME NEW n \in Far
        PROVE  /\ g[n] \in Own(p)
               /\ conn[s][n].stream \in Stream /\ conn[s][n].stream[1] = p
    <2>1. n \in Num /\ n \in Made(s) /\ conn[s][n].stream[1] # s
      BY OwnFinite DEF Own
    <2>2. conn[s][n].stream \in Stream
      BY <2>1 DEF TypeOK, Conn
    <2>3. conn[s][n].stream[1] = p
      BY <1>1, <2>1, <2>2 DEF Stream
    <2>4. PICK t \in End : \E m \in Own(t) : SameNames(conn[s][n], conn[t][m])
      BY <2>1 DEF ConnsNamed
    <2>5. PICK m \in Own(t) : SameNames(conn[s][n], conn[t][m])
      BY <2>4
    <2>6. conn[t][m].stream[1] = t /\ m \in Made(t)
      BY <2>5 DEF Own
    <2>7. t = p
      BY <2>3, <2>5, <2>6 DEF SameNames
    <2>8. conn[t][m].stream[2] = m
      BY <2>6 DEF ConnStreams, OwnStreams
    <2>9. g[n] = m
      BY <2>5, <2>8 DEF SameNames
    <2> QED
      BY <2>2, <2>3, <2>5, <2>7, <2>9
  <1>6. g \in Injection(Far, Own(p))
    <2>1. g \in [Far -> Own(p)]
      BY <1>5
    <2>2. ASSUME NEW m \in Far, NEW n \in Far, g[m] = g[n] PROVE m = n
      <3>1. conn[s][m].stream = conn[s][n].stream
        BY <1>5, <2>2 DEF Stream
      <3> QED
        BY <3>1 DEF ConnStreams, OneCarrier
    <2> HIDE DEF g, Far
    <2> QED
      BY <2>1, <2>2 DEF Injection, IsInjective
  <1>7. Cardinality(Far) <= Cardinality(Own(p)) /\ Cardinality(Own(p)) <= Creates[p]
    <2>1. IsFiniteSet(Own(p))
      BY <1>1, OwnFinite
    <2> HIDE DEF g, Far
    <2>2. Cardinality(Far) <= Cardinality(Own(p))
      BY <1>6, <2>1, FS_Injection
    <2> QED
      BY <1>1, <2>2 DEF Counted
  <1>8. Cardinality(Far) = Cardinality(Made(s)) - Cardinality(Own(s))
    <2>1. Cardinality(Far) = Cardinality(Made(s)) - Cardinality(Made(s) \cap Own(s))
      BY OwnFinite, FS_Difference
    <2>2. Made(s) \cap Own(s) = Own(s)
      BY OwnFinite
    <2> QED
      BY <2>1, <2>2
  <1>9. /\ Cardinality(Own(s)) \in Nat /\ Cardinality(Own(p)) \in Nat
        /\ Creates[s] \in Nat /\ Creates[p] \in Nat
    BY <1>1, OwnFinite, MuxBounds
  <1>10. total = Creates[s] + Creates[p]
    <2>1. Creates[A] \in Nat /\ Creates[B] \in Nat
      BY Ends, MuxBounds
    <2>2. CASE s = A
      BY <2>2 DEF Peer
    <2>3. CASE s = B
      BY <2>1, <2>3, EndsDiffer, SMT DEF Peer
    <2> QED
      BY <2>2, <2>3 DEF End
  <1> DEFINE far == Cardinality(Far)
             own == Cardinality(Own(s))
             theirs == Cardinality(Own(p))
  <1> HIDE DEF Far, g
  <1>11. far = made[s] - own /\ far <= theirs /\ theirs <= Creates[p] /\ own < Creates[s]
    BY <1>4, <1>7, <1>8
  <1>12. own \in Nat /\ theirs \in Nat
    BY <1>9
  <1> HIDE DEF far, own, theirs, total
  <1>13. made[s] + 1 \in 1..total
    BY <1>2, <1>9, <1>10, <1>11, <1>12, SMT
  <1> QED
    BY <1>13 DEF Num, total

LEMMA SameIdSameStream ==
    ASSUME TypeOK, ConnStreams, OwnIds, ConnsNamed,
           NEW s \in End, NEW t \in End, NEW m \in Made(s), NEW n \in Made(t)
    PROVE  conn[s][m].id = conn[t][n].id <=> conn[s][m].stream = conn[t][n].stream
  <1>1. PICK s1 \in End : \E m1 \in Own(s1) : SameNames(conn[s][m], conn[s1][m1])
    BY DEF ConnsNamed
  <1>2. PICK m1 \in Own(s1) : SameNames(conn[s][m], conn[s1][m1])
    BY <1>1
  <1>3. PICK t1 \in End : \E n1 \in Own(t1) : SameNames(conn[t][n], conn[t1][n1])
    BY DEF ConnsNamed
  <1>4. PICK n1 \in Own(t1) : SameNames(conn[t][n], conn[t1][n1])
    BY <1>3
  <1>5. /\ m1 \in Made(s1) /\ conn[s1][m1].stream[1] = s1
        /\ n1 \in Made(t1) /\ conn[t1][n1].stream[1] = t1
    BY DEF Own
  <1>6. conn[s1][m1].stream[2] = m1 /\ conn[t1][n1].stream[2] = n1
    BY <1>5 DEF ConnStreams, OwnStreams
  <1>7. conn[s1][m1].id % 2 = IdParity(s1) /\ conn[t1][n1].id % 2 = IdParity(t1)
    BY <1>5 DEF ConnStreams, Parities
  <1>8. ASSUME conn[s][m].id = conn[t][n].id PROVE conn[s][m].stream = conn[t][n].stream
    <2>1. conn[s1][m1].id = conn[t1][n1].id
      BY <1>2, <1>4, <1>8 DEF SameNames
    <2>2. IdParity(s1) = IdParity(t1)
      BY <1>7, <2>1
    <2>3. s1 = t1
      BY <2>2, EndsDiffer DEF IdParity, End
    <2>4. m1 = n1
      BY <2>1, <2>3 DEF OwnIds
    <2> QED
      BY <1>2, <1>4, <2>3, <2>4 DEF SameNames
  <1>9. ASSUME conn[s][m].stream = conn[t][n].stream PROVE conn[s][m].id = conn[t][n].id
    <2>1. conn[s1][m1].stream = conn[t1][n1].stream
      BY <1>2, <1>4, <1>9 DEF SameNames
    <2>2. s1 = t1 /\ m1 = n1
      BY <1>5, <1>6, <2>1
    <2> QED
      BY <1>2, <1>4, <2>2 DEF SameNames
  <1> QED
    BY <1>8, <1>9

(* The conns that were made before a step keep their names. *)
NamesKept ==
    \A t \in End : \A n \in Made(t) : n \in Made(t)' /\ SameNames(conn'[t][n], conn[t][n])

LEMMA StepNames ==
    ASSUME TypeOK, RemovalInv, NEW s \in End, Steps(s)
    PROVE  NamesKept
  <1>1. CASE ~Makes(s)
    <2>1. Latest(s)
      BY <1>1, StepLatest
    <2> QED
      BY <2>1 DEF Latest, Later, NamesKept, SameNames, Made
  <1>2. CASE Makes(s)
    <2>1. PICK c : New(s, made[s] + 1, c)
      BY <1>2 DEF Makes, CreateConn, RecvConnectNew, New
    <2>2. \A t \in End : \A n \in Made(t) : n \in Made(t)' /\ conn'[t][n] = conn[t][n]
      BY <2>1, NewFacts
    <2> QED
      BY <2>2 DEF NamesKept, SameNames
  <1> QED
    BY <1>1, <1>2

LEMMA FramesNamedKept ==
    ASSUME TypeOK, RemovalInv, FramesNamed, NEW s \in End, Steps(s)
    PROVE  FramesNamed'
  <1> DEFINE p == Peer(s)
  <1>1. p \in End /\ p # s /\ Peer(p) = s /\ \A t \in End : t = s \/ t = p
    BY Ends
  <1>2. NamesKept
    BY StepNames
  <1>3. PICK r : Appended(s, r)
    BY StepChannels
  <1>4. Dropped(s)
    BY StepChannels
  <1> HIDE DEF p
  <1>5. ASSUME NEW i \in DOMAIN chan'[s], chan'[s][i].cmd \in Frames
        PROVE  \E n \in Made(p)' : SameNames(chan'[s][i], conn'[p][n])
    <2>1. PICK d \in {0, 1} : \A j \in DOMAIN chan'[s] :
                                 j + d \in DOMAIN chan[s] /\ chan'[s][j] = chan[s][j + d]
      BY <1>4, DroppedAt
    <2>2. i + d \in DOMAIN chan[s] /\ chan'[s][i] = chan[s][i + d]
      BY <2>1
    <2>3. PICK n \in Made(p) : SameNames(chan[s][i + d], conn[p][n])
      BY <1>5, <2>2 DEF FramesNamed, p
    <2>4. n \in Made(p)' /\ SameNames(conn'[p][n], conn[p][n])
      BY <1>1, <1>2 DEF NamesKept
    <2> QED
      BY <2>2, <2>3, <2>4 DEF SameNames
  <1>6. ASSUME NEW i \in DOMAIN chan'[p], chan'[p][i].cmd \in Frames
        PROVE  \E n \in Made(s)' : SameNames(chan'[p][i], conn'[s][n])
    <2>1. \/ i \in DOMAIN chan[p] /\ chan'[p][i] = chan[p][i]
          \/ chan'[p][i] \in Posted(s)
      <3>1. p = Peer(s)
        BY DEF p
      <3> QED
        BY <1>3, <3>1, AppendedAt
    <2>2. CASE i \in DOMAIN chan[p] /\ chan'[p][i] = chan[p][i]
      <3>1. PICK n \in Made(s) : SameNames(chan[p][i], conn[s][n])
        BY <1>1, <1>6, <2>2 DEF FramesNamed
      <3>2. n \in Made(s)' /\ SameNames(conn'[s][n], conn[s][n])
        BY <1>2 DEF NamesKept
      <3> QED
        BY <2>2, <3>1, <3>2 DEF SameNames
    <2>3. CASE chan'[p][i] \in Posted(s)
      <3>1. chan'[p][i].cmd # "sfin" /\ chan'[p][i].cmd # "sfinack"
        BY <1>6 DEF Frames
      <3>2. PICK n \in Num : /\ conn[s][n].live
                             /\ chan'[p][i].id = conn[s][n].id
                             /\ chan'[p][i].stream = conn[s][n].stream
        BY <2>3, <3>1 DEF Posted
      <3>3. n \in Made(s)
        BY <3>2, ListedIsMade
      <3>4. n \in Made(s)' /\ SameNames(conn'[s][n], conn[s][n])
        BY <1>2, <3>3 DEF NamesKept
      <3> QED
        BY <3>2, <3>4 DEF SameNames
    <2> QED
      BY <2>1, <2>2, <2>3
  <1> SUFFICES ASSUME NEW t \in End, NEW i \in DOMAIN chan'[t], chan'[t][i].cmd \in Frames
               PROVE  \E n \in Made(Peer(t))' : SameNames(chan'[t][i], conn'[Peer(t)][n])
    BY DEF FramesNamed, SameNames, Peer
  <1>7. CASE t = s
    <2>1. \E n \in Made(p)' : SameNames(chan'[s][i], conn'[p][n])
      BY <1>5, <1>7
    <2> QED
      BY <1>7, <2>1 DEF p
  <1>8. CASE t = p
    <2>1. \E n \in Made(s)' : SameNames(chan'[p][i], conn'[s][n])
      BY <1>6, <1>8
    <2> QED
      BY <1>1, <1>8, <2>1
  <1> QED
    BY <1>1, <1>7, <1>8

Names == Counted /\ OwnIds /\ ConnsNamed

LEMMA NamesStay ==
    ASSUME TypeOK, Names, NEW s \in End, Latest(s)
    PROVE  Names'
  <1>1. made' = made /\ count' = count
    BY DEF Latest
  <1>2. \A t \in End : \A n \in Num : SameNames(conn'[t][n], conn[t][n])
    BY DEF Latest, Later, SameNames
  <1>3. \A t \in End : Made(t)' = Made(t) /\ Made(t) \subseteq Num
    BY <1>1 DEF Made
  <1>4. \A t \in End : Own(t)' = Own(t) /\ Own(t) \subseteq Num
    BY <1>2, <1>3 DEF Own, SameNames
  <1>5. Counted'
    <2> SUFFICES ASSUME NEW t \in End
                 PROVE  /\ made'[t] <= Creates[A] + Creates[B]
                        /\ Cardinality(Own(t)') <= Creates[t]
                        /\ count'[t] = ZeroID(t) + 2 * Cardinality(Own(t)')
      BY DEF Counted, ZeroID
    <2> QED
      BY <1>1, <1>4 DEF Names, Counted
  <1>6. OwnIds'
    <2> SUFFICES ASSUME NEW t \in End
                 PROVE  /\ \A n \in Own(t)' : conn'[t][n].id < count'[t]
                        /\ \A m, n \in Own(t)' : conn'[t][m].id = conn'[t][n].id => m = n
      BY DEF OwnIds
    <2>1. \A n \in Own(t) : conn'[t][n].id = conn[t][n].id
      BY <1>2, <1>4 DEF SameNames
    <2> QED
      BY <1>1, <1>4, <2>1 DEF Names, OwnIds
  <1>7. ConnsNamed'
    <2> SUFFICES ASSUME NEW t \in End, NEW n \in Made(t)'
                 PROVE  \E u \in End : \E m \in Own(u)' : SameNames(conn'[t][n], conn'[u][m])
      BY DEF ConnsNamed, SameNames
    <2>1. PICK u \in End : \E m \in Own(u) : SameNames(conn[t][n], conn[u][m])
      BY <1>3 DEF Names, ConnsNamed
    <2>2. PICK m \in Own(u) : SameNames(conn[t][n], conn[u][m])
      BY <2>1
    <2>3. SameNames(conn'[t][n], conn[t][n]) /\ SameNames(conn'[u][m], conn[u][m])
      BY <1>2, <1>3, <1>4
    <2> QED
      BY <1>4, <2>2, <2>3 DEF SameNames
  <1> QED
    BY <1>5, <1>6, <1>7 DEF Names

(* A conn of the other side is made: its names are those of a conn there.  *)
LEMMA NamesStayFar ==
    ASSUME TypeOK, RemovalInv, StreamInv, Names, FramesNamed, NEW s \in End, RecvConnectNew(s)
    PROVE  Names'
  <1> DEFINE n == made[s] + 1
             f == Head(chan[s])
             c == [NewConn(f.id, f.stream) EXCEPT !.recv = "ready", !.rcvd = f.k]
             p == Peer(s)
  <1>1. New(s, n, c) /\ count' = count /\ n \in Num /\ made' = [made EXCEPT ![s] = n]
    BY DEF RecvConnectNew, New
  <1>2. f.cmd = "connect" /\ IsIdFromOtherSide(s, f.id) /\ f \in Frame /\ 1 \in DOMAIN chan[s]
        /\ f = chan[s][1]
    <2>1. ChanTyped /\ Arrives(s, "connect")
      BY Typed DEF RecvConnectNew
    <2>2. f \in Frame
      BY <2>1, HeadFrame, "connect" \in Frames DEF Frames
    <2>3. chan[s] # <<>> /\ chan[s] \in Seq(Frame \cup SessFrame)
      BY <2>1 DEF Arrives, ChanTyped
    <2>4. Len(chan[s]) \in Nat \ {0} /\ DOMAIN chan[s] = 1..Len(chan[s]) /\ f = chan[s][1]
      BY <2>3, EmptySeq, LenProperties
    <2>5. 1 \in 1..Len(chan[s])
      BY <2>4, SMT
    <2> QED
      BY <2>2, <2>4, <2>5 DEF RecvConnectNew, Connects
  <1>3. c.id = f.id /\ c.stream = f.stream
    BY DEF NewConn
  <1>4. p \in End /\ p # s /\ Peer(p) = s /\ \A t \in End : t = s \/ t = p
    BY Ends
  <1>5. PICK m \in Made(p) : SameNames(f, conn[p][m])
    BY <1>2 DEF FramesNamed, Frames
  <1>6. f.stream[1] = p
    <2>1. f.stream[1] \in End
      BY <1>2 DEF Frame, Stream
    <2>2. f.id % 2 = IdParity(f.stream[1])
      BY <1>4, <1>5 DEF SameNames, StreamInv, ConnStreams, Parities
    <2>3. f.id % 2 = IF s = B THEN 1 ELSE 0
      BY <1>2 DEF IsIdFromOtherSide, Passive
    <2>4. f.stream[1] # s
      BY <2>2, <2>3, EndsDiffer DEF IdParity, End
    <2> QED
      BY <1>4, <2>1, <2>4
  <1> HIDE DEF n, f, c, p
  <1>7. /\ n \notin Made(s) /\ n \in Made(s)' /\ conn'[s][n] = c
        /\ \A t \in End : t # s => Made(t)' = Made(t)
        /\ \A i \in Made(s)' : i \in Made(s) \/ i = n
        /\ \A t \in End : \A i \in Made(t) : i \in Made(t)' /\ conn'[t][i] = conn[t][i]
    BY <1>1, NewFacts
  <1>8. ASSUME NEW t \in End PROVE Own(t)' = Own(t)
    <2>1. ASSUME NEW i, i \in Own(t)' PROVE i \in Own(t)
      <3>1. i \in Made(t)' /\ conn'[t][i].stream[1] = t
        BY <2>1 DEF Own
      <3>2. CASE i \in Made(t)
        BY <1>7, <3>1, <3>2 DEF Own
      <3>3. CASE i \notin Made(t)
        <4>1. t = s /\ i = n
          BY <1>7, <3>1, <3>3
        <4> QED
          BY <1>3, <1>4, <1>6, <1>7, <3>1, <4>1
      <3> QED
        BY <3>2, <3>3
    <2>2. ASSUME NEW i, i \in Own(t) PROVE i \in Own(t)'
      BY <1>7, <2>2 DEF Own
    <2> QED
      BY <2>1, <2>2
  <1>9. Counted'
    <2> SUFFICES ASSUME NEW t \in End
                 PROVE  /\ made'[t] <= Creates[A] + Creates[B]
                        /\ Cardinality(Own(t)') <= Creates[t]
                        /\ count'[t] = ZeroID(t) + 2 * Cardinality(Own(t)')
      BY DEF Counted, ZeroID
    <2>1. made'[t] <= Creates[A] + Creates[B]
      <3>1. n <= Creates[A] + Creates[B]
        BY <1>1, Numbers, SMT DEF Num
      <3>2. CASE t = s
        BY <1>1, <3>1, <3>2 DEF TypeOK
      <3>3. CASE t # s
        BY <1>1, <3>3 DEF TypeOK, Names, Counted
      <3> QED
        BY <3>2, <3>3
    <2> QED
      BY <1>1, <1>8, <2>1 DEF Names, Counted
  <1>10. OwnIds'
    <2> SUFFICES ASSUME NEW t \in End
                 PROVE  /\ \A i \in Own(t)' : conn'[t][i].id < count'[t]
                        /\ \A i, j \in Own(t)' : conn'[t][i].id = conn'[t][j].id => i = j
      BY DEF OwnIds
    <2>1. \A i \in Own(t) : conn'[t][i] = conn[t][i]
      BY <1>7 DEF Own
    <2> QED
      BY <1>1, <1>8, <2>1 DEF Names, OwnIds
  <1>11. ConnsNamed'
    <2> SUFFICES ASSUME NEW t \in End, NEW i \in Made(t)'
                 PROVE  \E u \in End : \E j \in Own(u)' : SameNames(conn'[t][i], conn'[u][j])
      BY DEF ConnsNamed, SameNames
    <2>1. ASSUME NEW u \in End, NEW j \in Own(u), SameNames(conn'[t][i], conn[u][j])
          PROVE  \E v \in End : \E k \in Own(v)' : SameNames(conn'[t][i], conn'[v][k])
      <3>1. j \in Own(u)' /\ conn'[u][j] = conn[u][j]
        BY <1>7, <1>8 DEF Own
      <3> QED
        BY <2>1, <3>1
    <2>2. CASE i \in Made(t)
      <3>1. PICK u \in End : \E j \in Own(u) : SameNames(conn[t][i], conn[u][j])
        BY <2>2 DEF Names, ConnsNamed
      <3>2. PICK j \in Own(u) : SameNames(conn[t][i], conn[u][j])
        BY <3>1
      <3>3. conn'[t][i] = conn[t][i]
        BY <1>7, <2>2
      <3> QED
        BY <2>1, <3>2, <3>3
    <2>3. CASE i \notin Made(t)
      <3>1. t = s /\ i = n
        BY <1>7, <2>3
      <3>2. PICK u \in End : \E j \in Own(u) : SameNames(conn[p][m], conn[u][j])
        BY <1>4 DEF Names, ConnsNamed
      <3>3. PICK j \in Own(u) : SameNames(conn[p][m], conn[u][j])
        BY <3>2
      <3>4. SameNames(conn'[t][i], conn[u][j])
        BY <1>3, <1>5, <1>7, <3>1, <3>3 DEF SameNames
      <3> QED
        BY <2>1, <3>4
    <2> QED
      BY <2>2, <2>3
  <1> QED
    BY <1>9, <1>10, <1>11 DEF Names

(* A conn of its own: the count has not wrapped around, so the id is new.  *)
LEMMA NamesGrow ==
    ASSUME IdsSuffice, TypeOK, RemovalInv, StreamInv, Names, NEW s \in End, CreateConn(s)
    PROVE  Names'
  <1> DEFINE n == made[s] + 1
             c == NewConn(NextId(s), <<s, n>>)
             own == Cardinality(Own(s))
  <1>1. New(s, n, c) /\ made' = [made EXCEPT ![s] = n]
    BY DEF CreateConn, New
  <1>2. c.id = NextId(s) /\ c.stream[1] = s
    BY DEF NewConn
  <1>3. own < Creates[s] /\ own \in Nat /\ Creates[s] \in Nat /\ MaxId \in Nat
    <2>1. own \in Nat /\ Creates[s] \in Nat /\ MaxId \in Nat
      BY OwnFinite, MuxBounds
    <2>2. Opened(s) = Own(s)
      <3>1. made[s] \in Nat /\ made[s] <= Creates[A] + Creates[B]
        BY DEF TypeOK, Names, Counted
      <3>2. 1..made[s] = Made(s)
        <4>1. \A i \in Nat : i \in 1..Creates[A] + Creates[B] /\ i <= made[s] <=> i \in 1..made[s]
          BY <3>1, Numbers, SMT
        <4>2. \A i : i \in 1..Creates[A] + Creates[B] => i \in Nat
          BY Numbers, SMT
        <4>3. \A i : i \in 1..made[s] => i \in Nat
          BY <3>1, SMT
        <4> QED
          BY <4>1, <4>2, <4>3 DEF Made, Num
      <3> QED
        BY <3>2 DEF Opened, Own
    <2> QED
      BY <2>1, <2>2 DEF CreateConn
  <1>4. n \in Num
    BY <1>3, RoomToMake DEF StreamInv, Names
  <1>5. count[s] = ZeroID(s) + 2 * own /\ ZeroID(s) \in {1, 2}
    BY DEF Names, Counted, ZeroID
  <1>6. count[s] \in Nat /\ count[s] <= MaxId
    <2>1. 2 * Creates[s] <= MaxId
      BY DEF IdsSuffice
    <2> HIDE DEF own
    <2> QED
      BY <1>3, <1>5, <2>1, SMT
  <1>7. NextId(s) = count[s] /\ NextCount(s) = count[s] + 2
    BY <1>6 DEF NextId, NextCount
  <1>8. count' = [count EXCEPT ![s] = count[s] + 2]
    BY <1>7 DEF CreateConn
  <1>9. \A t \in End : count'[t] = IF t = s THEN count[s] + 2 ELSE count[t]
    BY <1>8 DEF TypeOK
  <1> HIDE DEF n, c, own
  <1>10. /\ n \notin Made(s) /\ n \in Made(s)' /\ conn'[s][n] = c
         /\ \A t \in End : t # s => Made(t)' = Made(t)
         /\ \A i \in Made(s)' : i \in Made(s) \/ i = n
         /\ \A t \in End : \A i \in Made(t) : i \in Made(t)' /\ conn'[t][i] = conn[t][i]
    BY <1>1, <1>4, NewFacts
  <1>11. \A t \in End : t # s => Own(t)' = Own(t)
    <2> SUFFICES ASSUME NEW t \in End, t # s PROVE Own(t)' = Own(t)
      OBVIOUS
    <2>1. Made(t)' = Made(t) /\ \A i \in Made(t) : conn'[t][i] = conn[t][i]
      BY <1>10
    <2> QED
      BY <2>1 DEF Own
  <1>12. Own(s)' = Own(s) \cup {n} /\ n \notin Own(s)
    <2>1. ASSUME NEW i, i \in Own(s)' PROVE i \in Own(s) \cup {n}
      <3>1. i \in Made(s)' /\ conn'[s][i].stream[1] = s
        BY <2>1 DEF Own
      <3>2. CASE i \in Made(s)
        BY <1>10, <3>1, <3>2 DEF Own
      <3> QED
        BY <1>10, <3>1, <3>2
    <2>2. ASSUME NEW i, i \in Own(s) PROVE i \in Own(s)'
      BY <1>10, <2>2 DEF Own
    <2>3. n \in Own(s)'
      BY <1>2, <1>10 DEF Own
    <2>4. n \notin Own(s)
      BY <1>10 DEF Own
    <2> QED
      BY <2>1, <2>2, <2>3, <2>4
  <1>13. Cardinality(Own(s)') = own + 1
    <2>1. Cardinality(Own(s) \cup {n}) = IF n \in Own(s) THEN own ELSE own + 1
      BY OwnFinite, FS_AddElement DEF own
    <2> QED
      BY <1>12, <2>1
  <1>14. Counted'
    <2> SUFFICES ASSUME NEW t \in End
                 PROVE  /\ made'[t] <= Creates[A] + Creates[B]
                        /\ Cardinality(Own(t)') <= Creates[t]
                        /\ count'[t] = ZeroID(t) + 2 * Cardinality(Own(t)')
      BY DEF Counted, ZeroID
    <2>1. CASE t # s
      <3>1. made'[t] = made[t] /\ count'[t] = count[t]
        BY <1>1, <1>9, <2>1 DEF TypeOK
      <3> QED
        BY <1>11, <2>1, <3>1 DEF Names, Counted
    <2>2. CASE t = s
      <3>1. made'[s] = n /\ n <= Creates[A] + Creates[B]
        BY <1>1, <1>4, Numbers, SMT DEF Num, TypeOK
      <3>2. own + 1 <= Creates[s] /\ count'[s] = count[s] + 2
        BY <1>3, <1>9, SMT
      <3>3. count[s] + 2 = ZeroID(s) + 2 * (own + 1)
        BY <1>3, <1>5, SMT
      <3> QED
        BY <1>13, <2>2, <3>1, <3>2, <3>3
    <2> QED
      BY <2>1, <2>2
  <1>15. OwnIds'
    <2> SUFFICES ASSUME NEW t \in End
                 PROVE  /\ \A i \in Own(t)' : conn'[t][i].id < count'[t]
                        /\ \A i, j \in Own(t)' : conn'[t][i].id = conn'[t][j].id => i = j
      BY DEF OwnIds
    <2>1. \A i \in Own(t) : conn'[t][i] = conn[t][i] /\ i \in Num
      BY <1>10, OwnFinite DEF Own
    <2>2. CASE t # s
      <3>1. count'[t] = count[t]
        BY <1>9, <2>2
      <3> QED
        BY <1>11, <2>1, <2>2, <3>1 DEF Names, OwnIds
    <2>3. CASE t = s
      <3>1. \A i \in Own(s) : conn[s][i].id < count[s] /\ conn[s][i].id \in Nat
        BY <2>1, <2>3 DEF Names, OwnIds, TypeOK, Conn
      <3>2. conn'[s][n].id = count[s]
        BY <1>2, <1>7, <1>10
      <3>3. \A i \in Own(s) : conn'[s][i].id < count[s] + 2 /\ conn'[s][i].id # count[s]
        <4> SUFFICES ASSUME NEW i \in Own(s)
                     PROVE  conn'[s][i].id < count[s] + 2 /\ conn'[s][i].id # count[s]
          OBVIOUS
        <4>1. conn'[s][i].id = conn[s][i].id
          BY <2>1, <2>3
        <4>2. conn[s][i].id < count[s] + 2 /\ conn[s][i].id # count[s]
          BY <1>6, <3>1, SMT
        <4> QED
          BY <4>1, <4>2
      <3>4. \A i, j \in Own(s) : conn'[s][i].id = conn'[s][j].id => i = j
        BY <2>1, <2>3 DEF Names, OwnIds
      <3>5. count[s] < count[s] + 2 /\ count'[s] = count[s] + 2
        BY <1>6, <1>9, SMT
      <3>6. \A i \in Own(s)' : conn'[s][i].id < count'[s]
        BY <1>12, <3>2, <3>3, <3>5
      <3>7. \A i, j \in Own(s)' : conn'[s][i].id = conn'[s][j].id => i = j
        BY <1>12, <3>2, <3>3, <3>4
      <3> QED
        BY <2>3, <3>6, <3>7
    <2> QED
      BY <2>2, <2>3
  <1>16. ConnsNamed'
    <2> SUFFICES ASSUME NEW t \in End, NEW i \in Made(t)'
                 PROVE  \E u \in End : \E j \in Own(u)' : SameNames(conn'[t][i], conn'[u][j])
      BY DEF ConnsNamed, SameNames
    <2>1. CASE i \in Made(t)
      <3>1. PICK u \in End : \E j \in Own(u) : SameNames(conn[t][i], conn[u][j])
        BY <2>1 DEF Names, ConnsNamed
      <3>2. PICK j \in Own(u) : SameNames(conn[t][i], conn[u][j])
        BY <3>1
      <3>3. conn'[t][i] = conn[t][i]
        BY <1>10, <2>1
      <3>4. j \in Own(u)'
        BY <1>11, <1>12
      <3>5. conn'[u][j] = conn[u][j]
        BY <1>10 DEF Own
      <3> QED
        BY <3>2, <3>3, <3>4, <3>5
    <2>2. CASE i \notin Made(t)
      <3>1. t = s /\ i = n
        BY <1>10, <2>2
      <3>2. n \in Own(s)'
        BY <1>12
      <3>3. SameNames(conn'[s][n], conn'[s][n])
        BY DEF SameNames
      <3> QED
        BY <3>1, <3>2, <3>3
    <2> QED
      BY <2>1, <2>2
  <1> QED
    BY <1>14, <1>15, <1>16 DEF Names

LEMMA IdsInit == Init => IdsInv
  <1> SUFFICES ASSUME Init PROVE IdsInv
    OBVIOUS
  <1>1. \A s \in End : Made(s) = {} /\ chan[s] = <<>> /\ count[s] = ZeroID(s) /\ made[s] = 0
    <2>1. \A n \in Num : ~(n <= 0)
      BY Numbers, SMT DEF Num
    <2> QED
      BY <2>1 DEF Init, Made
  <1>2. \A s \in End : Own(s) = {} /\ DOMAIN chan[s] = {}
    BY <1>1 DEF Own
  <1>3. Cardinality({}) = 0
    BY FS_EmptySet
  <1>4. Counted
    <2> SUFFICES ASSUME NEW s \in End
                 PROVE  /\ made[s] <= Creates[A] + Creates[B]
                        /\ Cardinality(Own(s)) <= Creates[s]
                        /\ count[s] = ZeroID(s) + 2 * Cardinality(Own(s))
      BY DEF Counted
    <2>1. 0 <= Creates[A] + Creates[B] /\ 0 <= Creates[s]
      <3>1. Creates[A] + Creates[B] \in Nat /\ Creates[s] \in Nat
        BY Numbers, MuxBounds
      <3> QED
        BY <3>1, SMT
    <2>2. ZeroID(s) = ZeroID(s) + 2 * 0
      BY SMT DEF ZeroID
    <2> QED
      BY <1>1, <1>2, <1>3, <2>1, <2>2
  <1> QED
    BY <1>1, <1>2, <1>4 DEF IdsInv, OwnIds, ConnsNamed, FramesNamed

LEMMA IdsStep ==
    ASSUME IdsSuffice
    PROVE  TypeOK /\ RemovalInv /\ StreamInv /\ IdsInv /\ [Next]_vars => IdsInv'
  <1> SUFFICES ASSUME TypeOK, RemovalInv, StreamInv, IdsInv, [Next]_vars PROVE IdsInv'
    OBVIOUS
  <1>1. Names /\ FramesNamed
    BY DEF IdsInv, Names
  <1>2. CASE UNCHANGED vars
    <2>1. UNCHANGED <<conn, made, count, chan>>
      BY <1>2 DEF vars
    <2> QED
      BY <2>1 DEF IdsInv, Counted, OwnIds, ConnsNamed, FramesNamed, Own, Made, SameNames, Peer,
                  ZeroID
  <1>3. ASSUME NEW s \in End, Steps(s) PROVE IdsInv'
    <2>1. FramesNamed'
      BY <1>1, <1>3, FramesNamedKept
    <2>2. Names'
      <3>1. CASE ~Makes(s)
        BY <1>1, <1>3, <3>1, StepLatest, NamesStay
      <3>2. CASE Makes(s)
        BY <1>1, <3>2, NamesGrow, NamesStayFar DEF Makes
      <3> QED
        BY <3>1, <3>2
    <2> QED
      BY <2>1, <2>2 DEF IdsInv, Names
  <1> QED
    BY <1>2, <1>3, NextIsSteps

(***************************************************************************)
(* Counting the data frames of a stream in a channel.                      *)
(***************************************************************************)
LEMMA CountIsNat ==
    ASSUME NEW q, NEW st, NEW i \in Nat
    PROVE  IsFiniteSet(Before(q, st, i)) /\ Count(q, st, i) \in Nat
  <1>1. i - 1 \in Int /\ 1 \in Int
    BY SMT
  <1>2. IsFiniteSet(1..(i - 1))
    BY <1>1, FS_Interval
  <1>3. Before(q, st, i) \in SUBSET (1..(i - 1))
    BY DEF Before
  <1>4. IsFiniteSet(Before(q, st, i))
    BY <1>2, <1>3, FS_Subset
  <1> QED
    BY <1>4, FS_CardinalityType DEF Count

LEMMA CountSame ==
    ASSUME NEW q, NEW w, NEW st, NEW i \in Nat, \A j \in 1..(i - 1) : w[j] = q[j]
    PROVE  Count(w, st, i) = Count(q, st, i)
  <1>1. Before(w, st, i) = Before(q, st, i)
    BY DEF Before
  <1> QED
    BY <1>1 DEF Count

LEMMA CountNext ==
    ASSUME NEW q, NEW st, NEW i \in Nat \ {0}
    PROVE  Count(q, st, i + 1) = IF DataOf(q[i], st) THEN Count(q, st, i) + 1
                                                     ELSE Count(q, st, i)
  <1>1. (i + 1) - 1 = i
    BY SMT
  <1>2. \A j : j \in 1..i <=> j \in 1..(i - 1) \/ j = i
    BY SMT
  <1>3. Before(q, st, i + 1) = {j \in 1..i : DataOf(q[j], st)}
    BY <1>1 DEF Before
  <1>4. i \notin Before(q, st, i)
    <2>1. i \notin 1..(i - 1)
      BY SMT
    <2> QED
      BY <2>1 DEF Before
  <1>5. IsFiniteSet(Before(q, st, i))
    BY CountIsNat
  <1>6. CASE DataOf(q[i], st)
    <2>1. Before(q, st, i + 1) = Before(q, st, i) \cup {i}
      BY <1>2, <1>3, <1>6 DEF Before
    <2> QED
      BY <1>4, <1>5, <1>6, <2>1, FS_AddElement DEF Count
  <1>7. CASE ~DataOf(q[i], st)
    <2>1. Before(q, st, i + 1) = Before(q, st, i)
      BY <1>2, <1>3, <1>7 DEF Before
    <2> QED
      BY <1>7, <2>1 DEF Count
  <1> QED
    BY <1>6, <1>7

LEMMA CountTail ==
    ASSUME NEW S, NEW q \in Seq(S), q # <<>>, NEW st, NEW i \in 1..Len(q)
    PROVE  Count(q, st, i + 1) = IF DataOf(q[1], st) THEN Count(Tail(q), st, i) + 1
                                                     ELSE Count(Tail(q), st, i)
  <1> DEFINE w == Tail(q)
             L == Before(w, st, i)
             R == Before(q, st, i + 1)
             g == [j \in L |-> j + 1]
  <1>1. /\ Len(q) \in Nat \ {0} /\ Len(w) = Len(q) - 1
        /\ \A j \in 1..Len(w) : w[j] = q[j + 1]
    BY EmptySeq, LenProperties, HeadTailProperties
  <1>2. i \in Nat \ {0} /\ (i + 1) - 1 = i
    BY <1>1, SMT
  <1>3. \A j \in 1..(i - 1) : w[j] = q[j + 1]
    <2>1. \A j \in 1..(i - 1) : j \in 1..Len(w)
      BY <1>1, <1>2, SMT
    <2> QED
      BY <1>1, <2>1
  <1> HIDE DEF w
  <1>4. /\ L = {j \in 1..(i - 1) : DataOf(q[j + 1], st)}
        /\ R = {j \in 1..i : DataOf(q[j], st)}
    BY <1>2, <1>3 DEF Before
  <1>5. IsFiniteSet(L) /\ IsFiniteSet(R)
    <2>1. i + 1 \in Nat
      BY <1>2, SMT
    <2> QED
      BY <1>2, <2>1, CountIsNat
  <1> HIDE DEF L, R
  <1>6. g \in Bijection(L, R \ {1})
    <2>1. \A j \in 1..(i - 1) : j + 1 \in 1..i /\ j + 1 # 1 /\ j \in Nat
      BY <1>2, SMT
    <2>2. g \in [L -> R \ {1}]
      BY <1>4, <2>1
    <2>3. \A j \in L : \A k \in L : g[j] = g[k] => j = k
      <3>1. \A j \in Nat : \A k \in Nat : j + 1 = k + 1 => j = k
        BY SMT
      <3> QED
        BY <1>4, <2>1, <3>1
    <2>4. \A k \in R \ {1} : \E j \in L : g[j] = k
      <3> SUFFICES ASSUME NEW k \in R \ {1} PROVE \E j \in L : g[j] = k
        OBVIOUS
      <3>1. k \in 1..i /\ DataOf(q[k], st) /\ k # 1
        BY <1>4
      <3>2. k - 1 \in 1..(i - 1) /\ (k - 1) + 1 = k
        BY <1>2, <3>1, SMT
      <3>3. k - 1 \in L
        BY <1>4, <3>1, <3>2
      <3>4. g[k - 1] = k
        BY <3>2, <3>3
      <3> QED
        BY <3>3, <3>4
    <2> HIDE DEF g
    <2>5. g \in Injection(L, R \ {1})
      BY <2>2, <2>3 DEF Injection, IsInjective
    <2>6. g \in Surjection(L, R \ {1})
      BY <2>2, <2>4 DEF Surjection
    <2> QED
      BY <2>5, <2>6 DEF Bijection
  <1>7. Cardinality(R \ {1}) = Cardinality(L)
    <2>1. ExistsBijection(L, R \ {1})
      BY <1>6 DEF ExistsBijection
    <2> QED
      BY <1>5, <2>1, FS_Bijection
  <1>8. Cardinality(R \ {1}) = IF 1 \in R THEN Cardinality(R) - 1 ELSE Cardinality(R)
    BY <1>5, FS_RemoveElement
  <1>9. 1 \in R <=> DataOf(q[1], st)
    <2>1. 1 \in 1..i
      BY <1>2, SMT
    <2> QED
      BY <1>4, <2>1
  <1>10. Cardinality(R) \in Nat
    BY <1>5, FS_CardinalityType
  <1>11. Cardinality(R) = IF DataOf(q[1], st) THEN Cardinality(L) + 1 ELSE Cardinality(L)
    <2>1. CASE DataOf(q[1], st)
      <3>1. Cardinality(L) = Cardinality(R) - 1
        BY <1>7, <1>8, <1>9, <2>1
      <3> HIDE DEF R
      <3>2. Cardinality(R) = Cardinality(L) + 1
        BY <1>10, <3>1, SMT
      <3> QED
        BY <2>1, <3>2
    <2>2. CASE ~DataOf(q[1], st)
      BY <1>7, <1>8, <1>9, <2>2
    <2> QED
      BY <2>1, <2>2
  <1> QED
    BY <1>11 DEF L, R, w, Count

(* Frames without data change no count. *)
LEMMA TotalKept ==
    ASSUME NEW S, NEW q \in Seq(S), NEW r \in Seq(S), NEW st,
           \A i \in 1..Len(r) : ~DataOf(r[i], st)
    PROVE  Total(q \o r, st) = Total(q, st)
  <1> DEFINE w == q \o r
             k == Len(q)
             m == Len(r)
  <1>1. /\ k \in Nat /\ m \in Nat /\ Len(w) = k + m
        /\ \A i \in 1..k + m : w[i] = IF i <= k THEN q[i] ELSE r[i - k]
    BY LenProperties, ConcatProperties
  <1>2. (k + m + 1) - 1 = k + m /\ (k + 1) - 1 = k
    BY <1>1, SMT
  <1> HIDE DEF w, k, m
  <1>3. Before(w, st, k + m + 1) = Before(q, st, k + 1)
    <2>1. ASSUME NEW i, i \in 1..k + m, DataOf(w[i], st) PROVE i \in 1..k /\ DataOf(q[i], st)
      <3>1. CASE i <= k
        <4>1. i \in 1..k
          BY <1>1, <2>1, <3>1, SMT
        <4> QED
          BY <1>1, <2>1, <3>1, <4>1
      <3>2. CASE ~(i <= k)
        <4>1. i - k \in 1..m
          BY <1>1, <2>1, <3>2, SMT
        <4>2. w[i] = r[i - k]
          BY <1>1, <2>1, <3>2
        <4> QED
          BY <2>1, <4>1, <4>2 DEF m
      <3> QED
        BY <3>1, <3>2
    <2>2. ASSUME NEW i, i \in 1..k, DataOf(q[i], st) PROVE i \in 1..k + m /\ DataOf(w[i], st)
      <3>1. i \in 1..k + m /\ i <= k
        BY <1>1, <2>2, SMT
      <3> QED
        BY <1>1, <2>2, <3>1
    <2> QED
      BY <1>2, <2>1, <2>2 DEF Before
  <1> QED
    BY <1>1, <1>3 DEF Total, Count, w, k

(***************************************************************************)
(* What a step does to the numbers a conn has sent and received.           *)
(***************************************************************************)
Steady(c, d) ==
    /\ d.sent = c.sent /\ d.rcvd = c.rcvd
    /\ d.send = c.send \/ d.send = "stopped"

LEMMA UpdatesSteady ==
    ASSUME NEW c \in Conn
    PROVE  /\ Steady(c, c)
           /\ Steady(c, [c EXCEPT !.send = "stopped"])
           /\ Steady(c, [c EXCEPT !.told = TRUE])
           /\ Steady(c, [c EXCEPT !.recv = "stop"])
           /\ Steady(c, [c EXCEPT !.live = FALSE])
           /\ Steady(c, ConnClosed(c))
  <1>1. Conn = [live : BOOLEAN, id : Nat, send : SendStates, recv : RecvStates,
                closing : BOOLEAN, stream : Stream, sent : Nat, rcvd : Nat, told : BOOLEAN]
    BY DEF Conn
  <1>2. Steady(c, c)
    BY DEF Steady
  <1>3. /\ Steady(c, [c EXCEPT !.send = "stopped"])
        /\ Steady(c, [c EXCEPT !.told = TRUE])
    BY <1>1 DEF Steady
  <1>4. /\ Steady(c, [c EXCEPT !.recv = "stop"])
        /\ Steady(c, [c EXCEPT !.live = FALSE])
    BY <1>1 DEF Steady
  <1>5. ConnClosed(c).sent = c.sent /\ ConnClosed(c).rcvd = c.rcvd
        /\ ConnClosed(c).send = "stopped"
    BY <1>1 DEF ConnClosed
  <1>6. Steady(c, ConnClosed(c))
    BY <1>5 DEF Steady
  <1> QED
    BY <1>2, <1>3, <1>4, <1>6

LEMMA OneSteady ==
    ASSUME TypeOK, NEW s \in End, NEW m \in Num, NEW c,
           conn' = [conn EXCEPT ![s][m] = c], Steady(conn[s][m], c), NEW n \in Num
    PROVE  Steady(conn[s][n], conn'[s][n])
  <1>1. CASE n = m
    <2>1. conn'[s][n] = c
      BY <1>1 DEF TypeOK
    <2> QED
      BY <1>1, <2>1
  <1>2. CASE n # m
    <2>1. conn'[s][n] = conn[s][n]
      BY <1>2 DEF TypeOK
    <2> QED
      BY <2>1 DEF Steady
  <1> QED
    BY <1>1, <1>2

LEMMA StepSteady ==
    ASSUME TypeOK, RemovalInv, NEW s \in End, Steps(s), ~Makes(s),
           \A m \in Num : ~ConnSend(s, m),
           \A cmd \in {"connect", "push"} : ~RecvData(s, cmd),
           NEW n \in Num
    PROVE  Steady(conn[s][n], conn'[s][n])
  <1>1. \A m \in Num : conn[s][m] \in Conn
    BY DEF TypeOK
  <1>2. ASSUME NEW m \in Num, SendStopSending(s, m) \/ SendClose(s, m)
        PROVE  Steady(conn[s][n], conn'[s][n])
    BY <1>1, <1>2, SendingConn, UpdatesSteady, OneSteady
  <1>3. ASSUME NEW m \in Num, ConnClose(s, m) \/ TimesOut(s, m)
        PROVE  Steady(conn[s][n], conn'[s][n])
    <2>1. conn' = [conn EXCEPT ![s][m] = ConnClosed(conn[s][m])]
      BY <1>3 DEF ConnClose, TimesOut, ConnCloses
    <2> QED
      BY <1>1, <2>1, UpdatesSteady, OneSteady
  <1>4. CASE MuxClose(s)
    <2>1. conn'[s][n] = IF n \in OpenConns(s) THEN ConnClosed(conn[s][n]) ELSE conn[s][n]
      BY <1>4, MuxClosing
    <2> QED
      BY <1>1, <2>1, UpdatesSteady
  <1>5. CASE RecvFin(s)
    <2> DEFINE m == FirstWithId(s, Head(chan[s]).id)
    <2>1. m \in Num /\ conn' = [conn EXCEPT ![s][m] = [conn[s][m] EXCEPT !.recv = "stop"]]
      BY <1>5, FirstFound DEF RecvFin
    <2> HIDE DEF m
    <2> QED
      BY <1>1, <2>1, UpdatesSteady, OneSteady
  <1>6. CASE RecvCls(s)
    <2> DEFINE m == FirstWithId(s, Head(chan[s]).id)
    <2>1. /\ m \in Num
          /\ conn' = conn \/ conn' = [conn EXCEPT ![s][m] = ConnClosed(conn[s][m])]
      BY <1>6, FirstFound DEF RecvCls
    <2> HIDE DEF m
    <2> QED
      BY <1>1, <2>1, UpdatesSteady, OneSteady
  <1>7. CASE RemoveConn(s)
    <2> DEFINE m == Head(ticks[s]).n
    <2>1. ticks[s] \in Seq(Tick) /\ ticks[s] # <<>> /\ Head(ticks[s]).what = "conn"
      BY <1>7 DEF RemoveConn, Runs, TypeOK
    <2>2. Head(ticks[s]) \in Tick
      BY <2>1, HeadTailProperties
    <2>3. m \in Num
      BY <2>1, <2>2 DEF Tick
    <2>4. conn' = [conn EXCEPT ![s][m] = [conn[s][m] EXCEPT !.live = FALSE]]
      BY <1>7 DEF RemoveConn
    <2> HIDE DEF m
    <2> QED
      BY <1>1, <2>3, <2>4, UpdatesSteady, OneSteady
  <1>8. CASE \/ RecvInvalidConnect(s) \/ \E cmd \in Frames : RecvUnknown(s, cmd)
             \/ SessReady(s) \/ RecvSessFin(s) \/ RecvSessFinAck(s) \/ SessAcked(s)
             \/ RemoveSess(s) \/ RemoveMux(s) \/ WaitFinExpires(s)
    <2>1. conn' = conn
      BY <1>8 DEF RecvInvalidConnect, RecvUnknown, SessReady, RecvSessFin, RecvSessFinAck,
         SessAcked, RemoveSess, RemoveMux, WaitFinExpires, DeleteSess
    <2> QED
      BY <2>1 DEF Steady
  <1> QED
    BY <1>2, <1>3, <1>4, <1>5, <1>6, <1>7, <1>8 DEF Steps, NextTick, Makes

(* Sending a data frame. *)
LEMMA SendsOne ==
    ASSUME TypeOK, NEW s \in End, NEW m \in Num, ConnSend(s, m)
    PROVE  /\ conn'[s][m].sent = conn[s][m].sent + 1 /\ conn'[s][m].send = "ready"
           /\ conn'[s][m].rcvd = conn[s][m].rcvd /\ conn'[s][m].recv = conn[s][m].recv
           /\ conn'[s][m].live = conn[s][m].live /\ conn'[s][m].stream = conn[s][m].stream
           /\ \A n \in Num : n # m => conn'[s][n] = conn[s][n]
  <1> DEFINE c == [conn[s][m] EXCEPT !.send = "ready", !.sent = conn[s][m].sent + 1]
  <1>1. conn[s][m] \in Conn
    BY DEF TypeOK
  <1>2. /\ c.sent = conn[s][m].sent + 1 /\ c.send = "ready" /\ c.rcvd = conn[s][m].rcvd
        /\ c.recv = conn[s][m].recv /\ c.live = conn[s][m].live
        /\ c.stream = conn[s][m].stream
    BY <1>1 DEF Conn
  <1>3. conn' = [conn EXCEPT ![s][m] = c]
    BY SendingConn
  <1> HIDE DEF c
  <1>4. conn'[s][m] = c /\ \A n \in Num : n # m => conn'[s][n] = conn[s][n]
    BY <1>3 DEF TypeOK
  <1> QED
    BY <1>2, <1>4

(* Receiving one. *)
LEMMA ReceivesOne ==
    ASSUME TypeOK, NEW s \in End, NEW cmd \in {"connect", "push"}, RecvData(s, cmd)
    PROVE  LET m == FirstWithId(s, Head(chan[s]).id) IN
           /\ m \in Num /\ conn[s][m].live /\ conn[s][m].id = Head(chan[s]).id
           /\ \A n \in Num : n # m => conn'[s][n] = conn[s][n]
           /\ conn[s][m].recv = "stop" => conn'[s][m] = conn[s][m]
           /\ conn[s][m].recv # "stop" =>
                /\ conn'[s][m].rcvd = Head(chan[s]).k
                /\ conn'[s][m].sent = conn[s][m].sent /\ conn'[s][m].send = conn[s][m].send
  <1> DEFINE m == FirstWithId(s, Head(chan[s]).id)
             k == Head(chan[s]).k
             c == [conn[s][m] EXCEPT !.recv = "ready", !.rcvd = k]
  <1>1. /\ WithId(s, Head(chan[s]).id) # {}
        /\ conn' = IF conn[s][m].recv = "stop" THEN conn
                   ELSE [conn EXCEPT ![s][m].recv = "ready", ![s][m].rcvd = k]
    BY DEF RecvData, DataTo
  <1>2. m \in Num /\ conn[s][m].live /\ conn[s][m].id = Head(chan[s]).id
    <2>1. m \in WithId(s, Head(chan[s]).id)
      BY <1>1, FirstFound
    <2> HIDE DEF m
    <2> QED
      BY <2>1 DEF WithId, Listed
  <1>3. conn[s][m] \in Conn
    BY <1>2 DEF TypeOK
  <1>4. c.rcvd = k /\ c.sent = conn[s][m].sent /\ c.send = conn[s][m].send
    BY <1>3 DEF Conn
  <1> HIDE DEF m, k
  <1>5. conn[s][m].recv # "stop" => conn' = [conn EXCEPT ![s][m] = c]
    BY <1>1, <1>2, <1>3 DEF Conn, TypeOK
  <1> HIDE DEF c
  <1>6. CASE conn[s][m].recv = "stop"
    <2>1. conn' = conn
      BY <1>1, <1>6
    <2> QED
      BY <1>2, <1>6, <2>1 DEF m
  <1>7. CASE conn[s][m].recv # "stop"
    <2>1. conn'[s][m] = c /\ \A n \in Num : n # m => conn'[s][n] = conn[s][n]
      BY <1>2, <1>5, <1>7 DEF TypeOK
    <2> QED
      BY <1>2, <1>4, <1>7, <2>1 DEF m, k
  <1> QED
    BY <1>6, <1>7

(* A data frame that s sends is the next of its conn.                      *)
LEMMA PostedData ==
    ASSUME NEW s \in End, NEW f \in Posted(s), Data(f)
    PROVE  \E n \in Num : /\ ConnSend(s, n) /\ conn[s][n].live /\ conn[s][n].send # "stopped"
                          /\ f.stream = conn[s][n].stream /\ f.k = conn[s][n].sent + 1
                          /\ f.cmd = "connect" <=> conn[s][n].send = "none"
  <1>1. f.cmd \notin SessCmds /\ ~Stops(f)
    BY DEF Data, SessCmds, Stops
  <1> QED
    BY <1>1 DEF Posted, SessCmds, SendsData

(***************************************************************************)
(* The first data frame of a stream is its CONNECT.                        *)
(***************************************************************************)
LEMMA StartsStep ==
    ASSUME TypeOK, RemovalInv, StartsOnce, NEW s \in End, Steps(s)
    PROVE  StartsOnce'
  <1> DEFINE p == Peer(s)
  <1>1. p \in End /\ p # s /\ \A t \in End : t = s \/ t = p
    BY Ends
  <1>2. \A n \in Num : conn[s][n] \in Conn
    BY DEF TypeOK
  <1>3. PICK r : Appended(s, r)
    BY StepChannels
  <1>4. Dropped(s)
    BY StepChannels
  <1> HIDE DEF p
  <1>5. ASSUME NEW i \in DOMAIN chan'[s] PROVE Starts(chan'[s][i])
    <2>1. \E j \in DOMAIN chan[s] : chan'[s][i] = chan[s][j]
      BY <1>4, DroppedAt
    <2> QED
      BY <2>1 DEF StartsOnce
  <1>6. ASSUME NEW i \in DOMAIN chan'[p] PROVE Starts(chan'[p][i])
    <2>1. \/ i \in DOMAIN chan[p] /\ chan'[p][i] = chan[p][i]
          \/ chan'[p][i] \in Posted(s)
      <3>1. p = Peer(s)
        BY DEF p
      <3> QED
        BY <1>3, <3>1, AppendedAt
    <2>2. CASE i \in DOMAIN chan[p] /\ chan'[p][i] = chan[p][i]
      BY <1>1, <2>2 DEF StartsOnce
    <2>3. CASE chan'[p][i] \in Posted(s)
      <3> SUFFICES ASSUME Data(chan'[p][i]), chan'[p][i].k = 1 PROVE chan'[p][i].cmd = "connect"
        BY DEF Starts
      <3>1. PICK n \in Num : /\ conn[s][n].send # "stopped"
                             /\ chan'[p][i].k = conn[s][n].sent + 1
                             /\ chan'[p][i].cmd = "connect" <=> conn[s][n].send = "none"
        BY <2>3, PostedData
      <3>2. conn[s][n].send \in SendStates /\ conn[s][n].sent \in Nat
        BY <1>2 DEF Conn
      <3>3. conn[s][n].sent = 0
        BY <3>1, <3>2, SMT
      <3>4. Started(conn[s][n])
        BY DEF StartsOnce
      <3>5. conn[s][n].send = "none"
        BY <3>1, <3>2, <3>3, <3>4, SMT DEF Started, SendStates
      <3> QED
        BY <3>1, <3>5
    <2> QED
      BY <2>1, <2>2, <2>3
  <1>7. ASSUME NEW n \in Num PROVE Started(conn'[s][n])
    <2>1. Started(conn[s][n])
      BY DEF StartsOnce
    <2>2. CASE Makes(s)
      <3>1. PICK c : New(s, made[s] + 1, c) /\ c.send = "none" /\ c.sent = 0
        <4>1. CASE CreateConn(s)
          <5> DEFINE c == NewConn(NextId(s), <<s, made[s] + 1>>)
          <5>1. c.send = "none" /\ c.sent = 0
            BY DEF NewConn
          <5>2. New(s, made[s] + 1, c)
            BY <4>1 DEF CreateConn, New
          <5> HIDE DEF c
          <5> QED
            BY <5>1, <5>2
        <4>2. CASE RecvConnectNew(s)
          <5> DEFINE f == Head(chan[s])
                     c == [NewConn(f.id, f.stream) EXCEPT !.recv = "ready", !.rcvd = f.k]
          <5>1. c.send = "none" /\ c.sent = 0
            BY DEF NewConn
          <5>2. New(s, made[s] + 1, c)
            BY <4>2 DEF RecvConnectNew, New
          <5> HIDE DEF c
          <5> QED
            BY <5>1, <5>2
        <4> QED
          BY <2>2, <4>1, <4>2 DEF Makes
      <3>2. conn' = [conn EXCEPT ![s][made[s] + 1] = c]
        BY <3>1 DEF New
      <3>3. CASE n = made[s] + 1
        <4>1. conn'[s][n] = c
          BY <3>2, <3>3 DEF TypeOK
        <4> QED
          BY <3>1, <4>1 DEF Started
      <3>4. CASE n # made[s] + 1
        <4>1. conn'[s][n] = conn[s][n]
          BY <3>2, <3>4 DEF TypeOK
        <4> QED
          BY <2>1, <4>1
      <3> QED
        BY <3>3, <3>4
    <2>3. ASSUME NEW m \in Num, ConnSend(s, m) PROVE Started(conn'[s][n])
      <3>1. CASE n = m
        <4>1. conn'[s][n].sent = conn[s][n].sent + 1 /\ conn'[s][n].send = "ready"
          BY <2>3, <3>1, SendsOne
        <4>2. conn[s][n].sent \in Nat
          BY <1>2 DEF Conn
        <4>3. conn'[s][n].sent > 0
          BY <4>1, <4>2, SMT
        <4> QED
          BY <4>1, <4>3 DEF Started
      <3>2. CASE n # m
        <4>1. conn'[s][n] = conn[s][n]
          BY <2>3, <3>2, SendsOne
        <4> QED
          BY <2>1, <4>1
      <3> QED
        BY <3>1, <3>2
    <2>4. ASSUME NEW cmd \in {"connect", "push"}, RecvData(s, cmd) PROVE Started(conn'[s][n])
      <3>1. \/ conn'[s][n] = conn[s][n]
            \/ conn'[s][n].sent = conn[s][n].sent /\ conn'[s][n].send = conn[s][n].send
        BY <2>4, ReceivesOne
      <3> QED
        BY <2>1, <3>1 DEF Started
    <2>5. CASE /\ ~Makes(s) /\ \A m \in Num : ~ConnSend(s, m)
               /\ \A cmd \in {"connect", "push"} : ~RecvData(s, cmd)
      <3>1. Steady(conn[s][n], conn'[s][n])
        BY <2>5, StepSteady
      <3> QED
        BY <2>1, <3>1 DEF Started, Steady
    <2> QED
      BY <2>2, <2>3, <2>4, <2>5
  <1>8. \A n \in Num : Started(conn'[p][n])
    <2>1. conn'[p] = conn[p]
      BY <1>1, StepLocal DEF Untouched
    <2> QED
      BY <1>1, <2>1 DEF StartsOnce
  <1> SUFFICES ASSUME NEW t \in End
               PROVE  /\ \A i \in DOMAIN chan'[t] : Starts(chan'[t][i])
                      /\ \A n \in Num : Started(conn'[t][n])
    BY DEF StartsOnce, Starts, Started, Data
  <1> QED
    BY <1>1, <1>5, <1>6, <1>7, <1>8

(***************************************************************************)
(* Reading a frame.                                                        *)
(***************************************************************************)
Reads(s) == chan[s] # <<>> /\ chan'[s] = Tail(chan[s])

LEMMA TailDiffers ==
    ASSUME NEW S, NEW q \in Seq(S), q # <<>>
    PROVE  Tail(q) # q
  <1>1. Len(q) \in Nat \ {0} /\ Len(Tail(q)) = Len(q) - 1
    BY EmptySeq, LenProperties, HeadTailProperties
  <1> DEFINE k == Len(q)
  <1> HIDE DEF k
  <1>2. k \in Nat /\ Len(Tail(q)) = k - 1
    BY <1>1 DEF k
  <1>3. k - 1 # k
    BY <1>2, SMT
  <1> QED
    BY <1>2, <1>3 DEF k

LEMMA ReadsData ==
    ASSUME TypeOK, NEW s \in End, Steps(s), Reads(s), Data(Head(chan[s]))
    PROVE  \/ RecvConnectNew(s) \/ RecvInvalidConnect(s)
           \/ \E cmd \in Frames : RecvUnknown(s, cmd)
           \/ \E cmd \in {"connect", "push"} : RecvData(s, cmd)
  <1>1. chan \in [End -> Seq(Frame \cup SessFrame)] /\ Peer(s) \in End /\ Peer(s) # s
    BY Ends DEF TypeOK
  <1>2. chan'[s] # chan[s]
    <2>1. chan[s] \in Seq(Frame \cup SessFrame) /\ chan[s] # <<>> /\ chan'[s] = Tail(chan[s])
      BY <1>1 DEF Reads
    <2> QED
      BY <2>1, TailDiffers
  <1>3. ASSUME NEW r, Post(s, r) PROVE FALSE
    BY <1>2, <1>3, PostChannels
  <1>4. ASSUME NEW n \in Num, ConnSend(s, n) \/ SendStopSending(s, n) \/ SendClose(s, n)
        PROVE  FALSE
    BY <1>3, <1>4 DEF ConnSend, SendStopSending, SendClose
  <1>5. ASSUME NEW n \in Num, ConnClose(s, n) \/ TimesOut(s, n) PROVE FALSE
    <2>1. Post(s, CloseFrames(s, n))
      BY <1>5 DEF ConnClose, TimesOut, ConnCloses
    <2> QED
      BY <1>3, <2>1
  <1>6. CASE MuxClose(s)
    <2>1. \E r : Post(s, r)
      BY <1>6 DEF MuxClose
    <2> QED
      BY <1>3, <2>1
  <1>7. CASE CreateConn(s) \/ SessReady(s) \/ SessAcked(s) \/ NextTick(s) \/ WaitFinExpires(s)
    <2>1. UNCHANGED chan
      BY <1>7 DEF CreateConn, SessReady, SessAcked, NextTick, RemoveConn, RemoveSess,
         RemoveMux, WaitFinExpires, DeleteSess
    <2> QED
      BY <1>2, <2>1
  <1>8. CASE RecvFin(s) \/ RecvCls(s) \/ RecvSessFin(s) \/ RecvSessFinAck(s)
    BY <1>8 DEF RecvFin, RecvCls, RecvSessFin, RecvSessFinAck, Arrives, Data
  <1> QED
    BY <1>4, <1>5, <1>6, <1>7, <1>8 DEF Steps

(* The frame at the head of a channel, and the conns its id could name.    *)
LEMMA HeadNames ==
    ASSUME TypeOK, ConnStreams, IdsInv, NEW s \in End, chan[s] # <<>>,
           Head(chan[s]).cmd \in Frames
    PROVE  LET f == Head(chan[s]) IN
           /\ 1 \in DOMAIN chan[s] /\ f = chan[s][1] /\ f \in Frame
           /\ \E m \in Made(Peer(s)) : conn[Peer(s)][m].stream = f.stream
           /\ \A n \in Made(s) : conn[s][n].id = f.id <=> conn[s][n].stream = f.stream
           /\ f.stream[1] = Peer(s) <=> IsIdFromOtherSide(s, f.id)
  <1> DEFINE f == Head(chan[s])
             p == Peer(s)
  <1>1. p \in End /\ p # s /\ \A t \in End : t = s \/ t = p
    BY Ends
  <1>2. chan[s] \in Seq(Frame \cup SessFrame)
    BY DEF TypeOK
  <1>3. 1 \in DOMAIN chan[s] /\ f = chan[s][1] /\ f \in Frame \cup SessFrame
    <2>1. Len(chan[s]) \in Nat \ {0} /\ DOMAIN chan[s] = 1..Len(chan[s]) /\ f = chan[s][1]
      BY <1>2, EmptySeq, LenProperties
    <2>2. 1 \in 1..Len(chan[s])
      BY <2>1, SMT
    <2> QED
      BY <1>2, <2>1, <2>2, HeadTailProperties
  <1>4. f \in Frame
    BY <1>3 DEF Frames, SessFrame, SessCmds
  <1> HIDE DEF f, p
  <1>5. PICK m \in Made(p) : SameNames(f, conn[p][m])
    BY <1>3 DEF IdsInv, FramesNamed, f, p
  <1>6. \A n \in Made(s) : conn[s][n].id = f.id <=> conn[s][n].stream = f.stream
    <2> SUFFICES ASSUME NEW n \in Made(s)
                 PROVE  conn[s][n].id = f.id <=> conn[s][n].stream = f.stream
      OBVIOUS
    <2>1. conn[s][n].id = conn[p][m].id <=> conn[s][n].stream = conn[p][m].stream
      BY <1>1, SameIdSameStream DEF IdsInv
    <2> QED
      BY <1>5, <2>1 DEF SameNames
  <1>7. f.stream[1] = p <=> IsIdFromOtherSide(s, f.id)
    <2>1. f.stream[1] \in End
      BY <1>4 DEF Frame, Stream
    <2>2. f.id % 2 = IdParity(f.stream[1])
      BY <1>1, <1>5 DEF SameNames, ConnStreams, Parities
    <2>3. IsIdFromOtherSide(s, f.id) <=> (f.id % 2 = IF s = B THEN 1 ELSE 0)
      BY DEF IsIdFromOtherSide, Passive
    <2>4. IdParity(p) = IF s = B THEN 1 ELSE 0
      BY <1>1, EndsDiffer DEF IdParity, End
    <2>5. IdParity(s) # IF s = B THEN 1 ELSE 0
      BY EndsDiffer DEF IdParity, End
    <2>6. CASE f.stream[1] = p
      BY <2>2, <2>3, <2>4, <2>6
    <2>7. CASE f.stream[1] = s
      BY <1>1, <2>2, <2>3, <2>5, <2>7
    <2> QED
      BY <1>1, <2>1, <2>6, <2>7
  <1>8. \E i \in Made(p) : conn[p][i].stream = f.stream
    BY <1>5 DEF SameNames
  <1> QED
    BY <1>3, <1>4, <1>6, <1>7, <1>8 DEF f, p

LEMMA CountOfNone ==
    ASSUME NEW q, NEW st
    PROVE  Count(q, st, 1) = 0
  <1>1. Before(q, st, 1) = {}
    <2>1. \A j \in 1..(1 - 1) : FALSE
      BY SMT
    <2> QED
      BY <2>1 DEF Before
  <1> QED
    BY <1>1, FS_EmptySet DEF Count

(* The first data frame in a channel is the next one for who receives it.  *)
LEMMA HeadNumber ==
    ASSUME TypeOK, DataInv, NEW s \in End, NEW st \in Stream, NEW b \in Nat,
           Receives(s, st, b), 1 \in DOMAIN chan[s], DataOf(chan[s][1], st)
    PROVE  chan[s][1].k = b + 1
  <1>1. chan[s][1].k = b + Count(chan[s], st, 1) + 1
    BY DEF DataInv, AllNumbered, Numbered, NumbersFrom
  <1>2. b + 0 + 1 = b + 1
    BY SMT
  <1> QED
    BY <1>1, <1>2, CountOfNone

(* A CONNECT from the other side is for a stream no conn of s carried.     *)
LEMMA ConnectIsNew ==
    ASSUME TypeOK, StreamInv, NEW s \in End, Arrives(s, "connect"),
           Connects(s, Head(chan[s]))
    PROVE  LET f == Head(chan[s]) IN
           /\ f.stream[1] = Peer(s)
           /\ \A n \in Made(s) : conn[s][n].stream # f.stream
  <1> DEFINE f == Head(chan[s])
             p == Peer(s)
  <1>1. f.cmd = "connect" /\ IsIdFromOtherSide(s, f.id) /\ chan[s] # <<>>
    BY DEF Connects, Arrives
  <1>2. DOMAIN chan[s] = 1..Len(chan[s]) /\ Len(chan[s]) \in Nat \ {0} /\ f = chan[s][1]
    <2>1. chan[s] \in Seq(Frame \cup SessFrame)
      BY DEF TypeOK
    <2> QED
      BY <1>1, <2>1, LenProperties, EmptySeq
  <1>3. f \in Frame
    <2>1. ChanTyped
      BY Typed
    <2> QED
      BY <2>1, HeadFrame, "connect" \in Frames DEF Frames
  <1>4. 1 \in DOMAIN chan[s]
    BY <1>2, SMT
  <1> HIDE DEF f, p
  <1>5. Known(s, f)
    BY <1>1, <1>2, <1>4 DEF StreamInv, FrameStreams, FramesKnown, Frames
  <1>6. f.stream[1] = p
    <2>1. f.stream[1] \in End
      BY <1>3 DEF Frame, Stream
    <2>2. f.id % 2 = IdParity(f.stream[1])
      BY <1>5 DEF Known
    <2>3. f.id % 2 = IF s = B THEN 1 ELSE 0
      BY <1>1 DEF IsIdFromOtherSide, Passive
    <2>4. s = A \/ s = B
      BY DEF End
    <2>5. f.stream[1] # s
      BY <2>2, <2>3, <2>4, EndsDiffer DEF IdParity
    <2> QED
      BY <2>1, <2>5, Ends DEF p
  <1>7. Opens(s, chan[s][1])
    BY <1>1, <1>2, <1>6 DEF Opens, p
  <1>8. \A n \in Made(s) : conn[s][n].stream # f.stream
    BY <1>2, <1>4, <1>7 DEF StreamInv, NoConnYet
  <1> QED
    BY <1>6, <1>8 DEF f, p

(***************************************************************************)
(* What s had received of a stream before a step of s.                     *)
(***************************************************************************)
LEMMA UnmetBefore ==
    ASSUME TypeOK, RemovalInv, NEW s \in End, Steps(s), NEW st, Unmet(s, st)'
    PROVE  Unmet(s, st)
  <1>1. NamesKept
    BY StepNames
  <1> QED
    BY <1>1 DEF NamesKept, SameNames, Unmet, Peer

LEMMA SameReceived ==
    ASSUME NEW s \in End, NEW st, NEW b, NEW n \in Num, conn'[s][n] = conn[s][n],
           conn'[s][n].live, conn'[s][n].stream = st, conn'[s][n].recv # "stop",
           conn'[s][n].rcvd = b
    PROVE  Receives(s, st, b)
  BY DEF Receives

(* A step that hands over no data.                                         *)
LEMMA NoneReceived ==
    ASSUME TypeOK, RemovalInv, NEW s \in End, Steps(s), ~Makes(s),
           \A cmd \in {"connect", "push"} : ~RecvData(s, cmd),
           NEW st, NEW b, Receives(s, st, b)'
    PROVE  Receives(s, st, b)
  <1>1. Latest(s)
    BY StepLatest
  <1>2. ASSUME NEW n \in Num, conn'[s][n].live, conn'[s][n].stream = st,
               conn'[s][n].recv # "stop", conn'[s][n].rcvd = b
        PROVE  Receives(s, st, b)
    <2>1. conn[s][n].live /\ conn[s][n].stream = st /\ conn[s][n].recv # "stop"
      BY <1>1, <1>2 DEF Latest, Later
    <2>2. conn[s][n].rcvd = b
      <3>1. CASE \A m \in Num : ~ConnSend(s, m)
        BY <1>2, <3>1, StepSteady DEF Steady
      <3>2. ASSUME NEW m \in Num, ConnSend(s, m) PROVE conn[s][n].rcvd = b
        <4>1. CASE n = m
          BY <1>2, <3>2, <4>1, SendsOne
        <4>2. CASE n # m
          BY <1>2, <3>2, <4>2, SendsOne
        <4> QED
          BY <4>1, <4>2
      <3> QED
        BY <3>1, <3>2
    <2> QED
      BY <2>1, <2>2 DEF Receives
  <1>3. ASSUME Unmet(s, st)', b = 0 PROVE Receives(s, st, b)
    BY <1>3, UnmetBefore DEF Receives
  <1> QED
    BY <1>2, <1>3 DEF Receives, Unmet, Made

(* A conn is made that carries a stream no conn of s ever carried.         *)
LEMMA MakesFresh ==
    ASSUME TypeOK, StreamInv, NEW s \in End, Makes(s)
    PROVE  \E c : /\ New(s, made[s] + 1, c) /\ c.sent = 0 /\ c.send = "none"
                  /\ \A n \in Made(s) : conn[s][n].stream # c.stream
                  /\ CreateConn(s) => c.stream = <<s, made[s] + 1>> /\ c.rcvd = 0
                  /\ RecvConnectNew(s) => /\ c.stream = Head(chan[s]).stream
                                          /\ c.rcvd = Head(chan[s]).k
  <1>1. made[s] \in Nat
    BY DEF TypeOK
  <1>2. CASE CreateConn(s)
    <2> DEFINE c == NewConn(NextId(s), <<s, made[s] + 1>>)
    <2>1. c.send = "none" /\ c.sent = 0 /\ c.stream = <<s, made[s] + 1>> /\ c.rcvd = 0
      BY DEF NewConn
    <2>2. New(s, made[s] + 1, c)
      BY <1>2 DEF CreateConn, New
    <2>3. ~RecvConnectNew(s)
      <3>1. chan' = chan
        BY <1>2 DEF CreateConn
      <3>2. ASSUME RecvConnectNew(s) PROVE FALSE
        <4>1. chan[s] # <<>> /\ Consumed(s)
          BY <3>2 DEF RecvConnectNew, Arrives
        <4>2. chan[s] \in Seq(Frame \cup SessFrame) /\ chan'[s] = Tail(chan[s])
          BY <4>1 DEF TypeOK, Consumed
        <4> QED
          BY <3>1, <4>1, <4>2, TailDiffers
      <3> QED
        BY <3>2
    <2> HIDE DEF c
    <2>4. ASSUME NEW n \in Made(s), conn[s][n].stream = c.stream PROVE FALSE
      <3>1. conn[s][n].stream[1] = s /\ conn[s][n].stream[2] = made[s] + 1
        BY <2>1, <2>4
      <3>2. n = made[s] + 1
        BY <3>1 DEF StreamInv, ConnStreams, OwnStreams
      <3> QED
        BY <1>1, <2>2, <3>2, NewFacts
    <2> QED
      BY <2>1, <2>2, <2>3, <2>4
  <1>3. CASE RecvConnectNew(s)
    <2> DEFINE f == Head(chan[s])
               c == [NewConn(f.id, f.stream) EXCEPT !.recv = "ready", !.rcvd = f.k]
    <2>1. c.send = "none" /\ c.sent = 0 /\ c.stream = f.stream /\ c.rcvd = f.k
      BY DEF NewConn
    <2>2. New(s, made[s] + 1, c)
      BY <1>3 DEF RecvConnectNew, New
    <2>3. chan' # chan
      <3>1. chan[s] # <<>> /\ Consumed(s)
        BY <1>3 DEF RecvConnectNew, Arrives
      <3>2. chan[s] \in Seq(Frame \cup SessFrame) /\ chan'[s] = Tail(chan[s])
        BY <3>1 DEF TypeOK, Consumed
      <3> QED
        BY <3>1, <3>2, TailDiffers
    <2>4. ~CreateConn(s)
      <3>1. CreateConn(s) => chan' = chan
        BY DEF CreateConn
      <3> QED
        BY <2>3, <3>1
    <2>5. \A n \in Made(s) : conn[s][n].stream # f.stream
      <3>1. Arrives(s, "connect") /\ Connects(s, Head(chan[s]))
        BY <1>3 DEF RecvConnectNew
      <3> QED
        BY <3>1, ConnectIsNew
    <2> HIDE DEF c, f
    <2>6. \A n \in Made(s) : conn[s][n].stream # c.stream
      BY <2>1, <2>5
    <2> QED
      BY <2>1, <2>2, <2>4, <2>6 DEF f
  <1> QED
    BY <1>2, <1>3 DEF Makes

(* A step that creates a conn: it received nothing yet.                    *)
LEMMA CreatedReceived ==
    ASSUME TypeOK, RemovalInv, StreamInv, NEW s \in End, CreateConn(s),
           NEW st, NEW b, Receives(s, st, b)'
    PROVE  Receives(s, st, b) \/ (st = <<s, made[s] + 1>> /\ b = 0)
  <1>1. PICK c : New(s, made[s] + 1, c) /\ c.stream = <<s, made[s] + 1>> /\ c.rcvd = 0
    BY MakesFresh DEF Makes
  <1>2. Steps(s)
    BY DEF Steps
  <1>3. ASSUME NEW n \in Num, conn'[s][n].live, conn'[s][n].stream = st,
               conn'[s][n].recv # "stop", conn'[s][n].rcvd = b
        PROVE  Receives(s, st, b) \/ (st = <<s, made[s] + 1>> /\ b = 0)
    <2>1. conn' = [conn EXCEPT ![s][made[s] + 1] = c]
      BY <1>1 DEF New
    <2>2. CASE n = made[s] + 1
      <3>1. conn'[s][n] = c
        BY <2>1, <2>2 DEF TypeOK
      <3> QED
        BY <1>1, <1>3, <3>1
    <2>3. CASE n # made[s] + 1
      <3>1. conn'[s][n] = conn[s][n]
        BY <2>1, <2>3 DEF TypeOK
      <3> QED
        BY <1>3, <3>1, SameReceived
    <2> QED
      BY <2>2, <2>3
  <1>4. ASSUME Unmet(s, st)', b = 0 PROVE Receives(s, st, b)
    BY <1>2, <1>4, UnmetBefore DEF Receives
  <1> QED
    BY <1>3, <1>4 DEF Receives, Unmet, Made

(* A step that reads a data frame: it is the next one, or of a stream that *)
(* is not received here any more.                                          *)
Past(s, st, b) ==
    IF DataOf(Head(chan[s]), st) THEN \E b0 \in Nat : Receives(s, st, b0) /\ b = b0 + 1
                                 ELSE Receives(s, st, b)

LEMMA ConnectReceived ==
    ASSUME TypeOK, RemovalInv, StreamInv, IdsInv, DataInv, NEW s \in End, RecvConnectNew(s),
           NEW st \in Stream, NEW b \in Nat, Receives(s, st, b)'
    PROVE  Past(s, st, b)
  <1> DEFINE f == Head(chan[s])
             n == made[s] + 1
  <1>1. Steps(s) /\ Makes(s) /\ Arrives(s, "connect") /\ Connects(s, f) /\ n \in Num
    BY DEF Steps, Makes, RecvConnectNew
  <1>2. PICK c : New(s, n, c) /\ c.stream = f.stream /\ c.rcvd = f.k
    BY <1>1, MakesFresh
  <1>3. f.stream[1] = Peer(s) /\ \A i \in Made(s) : conn[s][i].stream # f.stream
    BY <1>1, ConnectIsNew
  <1>4. chan[s] # <<>> /\ f.cmd = "connect" /\ f.cmd \in Frames /\ Data(f)
    BY <1>1 DEF Arrives, Frames, Data
  <1>5. 1 \in DOMAIN chan[s] /\ f = chan[s][1]
    BY <1>4, HeadNames DEF StreamInv
  <1> HIDE DEF f
  <1>6. n \in Made(s)' /\ conn'[s][n] = c
    BY <1>1, <1>2, NewFacts
  <1>7. \A i \in Num : i # n => conn'[s][i] = conn[s][i]
    BY <1>2 DEF New, TypeOK
  <1> HIDE DEF n
  <1>8. CASE f.stream = st
    <2>1. Receives(s, st, 0)
      BY <1>3, <1>8 DEF Receives, Unmet
    <2>2. DataOf(f, st)
      BY <1>4, <1>8 DEF DataOf
    <2>3. f.k = 0 + 1
      BY <1>5, <2>1, <2>2, HeadNumber
    <2>4. b = f.k
      <3>1. ASSUME NEW i \in Num, conn'[s][i].live, conn'[s][i].stream = st, conn'[s][i].rcvd = b
            PROVE  b = f.k
        <4>1. CASE i = n
          BY <1>2, <1>6, <3>1, <4>1
        <4>2. CASE i # n
          <5>1. conn[s][i].live /\ conn[s][i].stream = st
            BY <1>7, <3>1, <4>2
          <5>2. i \in Made(s)
            BY <5>1, ListedIsMade
          <5> QED
            BY <1>3, <1>8, <5>1, <5>2
        <4> QED
          BY <4>1, <4>2
      <3>2. ~Unmet(s, st)'
        BY <1>2, <1>6, <1>8 DEF Unmet
      <3> QED
        BY <3>1, <3>2 DEF Receives, Unmet, Made
    <2>5. b = 0 + 1
      BY <2>3, <2>4
    <2> QED
      BY <2>1, <2>2, <2>5 DEF Past, f
  <1>9. CASE f.stream # st
    <2>1. ~DataOf(f, st)
      BY <1>9 DEF DataOf
    <2>2. Receives(s, st, b)
      <3>1. ASSUME NEW i \in Num, conn'[s][i].live, conn'[s][i].stream = st,
                   conn'[s][i].recv # "stop", conn'[s][i].rcvd = b
            PROVE  Receives(s, st, b)
        <4>1. i # n
          BY <1>2, <1>6, <1>9, <3>1
        <4> QED
          BY <1>7, <3>1, <4>1, SameReceived
      <3>2. ASSUME Unmet(s, st)', b = 0 PROVE Receives(s, st, b)
        BY <1>1, <3>2, UnmetBefore DEF Receives
      <3> QED
        BY <3>1, <3>2 DEF Receives, Unmet, Made
    <2> QED
      BY <2>1, <2>2 DEF Past, f
  <1> QED
    BY <1>8, <1>9

LEMMA PushReceived ==
    ASSUME TypeOK, RemovalInv, StreamInv, IdsInv, DataInv, NEW s \in End,
           NEW cmd \in {"connect", "push"}, RecvData(s, cmd),
           NEW st \in Stream, NEW b \in Nat, Receives(s, st, b)'
    PROVE  Past(s, st, b)
  <1> DEFINE f == Head(chan[s])
             m == FirstWithId(s, f.id)
  <1>1. Steps(s) /\ Arrives(s, cmd)
    BY DEF Steps, RecvData
  <1>2. ~Makes(s)
    <2>1. made' = made
      BY DEF RecvData, DataTo
    <2>2. made[s] \in Nat /\ (Makes(s) => made'[s] = made[s] + 1)
      BY MakingConn DEF Makes, TypeOK
    <2>3. ASSUME Makes(s) PROVE FALSE
      <3> DEFINE k == made[s]
      <3>1. k \in Nat /\ k = k + 1
        BY <2>1, <2>2, <2>3
      <3> HIDE DEF k
      <3> QED
        BY <3>1, SMT
    <2> QED
      BY <2>3
  <1>3. Latest(s)
    BY <1>1, <1>2, StepLatest
  <1>4. chan[s] # <<>> /\ f.cmd \in Frames /\ Data(f)
    BY <1>1 DEF Arrives, Frames, Data
  <1>5. /\ 1 \in DOMAIN chan[s] /\ f = chan[s][1]
        /\ \A n \in Made(s) : conn[s][n].id = f.id <=> conn[s][n].stream = f.stream
    BY <1>4, HeadNames DEF StreamInv
  <1>6. /\ m \in Num /\ conn[s][m].live /\ conn[s][m].id = f.id
        /\ \A n \in Num : n # m => conn'[s][n] = conn[s][n]
        /\ conn[s][m].recv # "stop" => conn'[s][m].rcvd = f.k
    BY ReceivesOne
  <1> HIDE DEF f, m
  <1>7. m \in Made(s) /\ conn[s][m].stream = f.stream
    BY <1>5, <1>6, ListedIsMade
  <1>8. ASSUME NEW n \in Num, conn'[s][n].live, conn'[s][n].stream = st,
               conn'[s][n].recv # "stop", conn'[s][n].rcvd = b
        PROVE  Past(s, st, b)
    <2>1. conn[s][n].live /\ conn[s][n].stream = st /\ conn[s][n].recv # "stop"
      BY <1>3, <1>8 DEF Latest, Later
    <2>2. CASE n = m
      <3>1. conn[s][m].rcvd \in Nat
        BY <1>6 DEF TypeOK, Conn
      <3>2. Receives(s, st, conn[s][m].rcvd)
        BY <1>6, <2>1, <2>2 DEF Receives
      <3>3. DataOf(f, st)
        BY <1>4, <1>7, <2>1, <2>2 DEF DataOf
      <3>4. b = conn[s][m].rcvd + 1
        BY <1>5, <1>6, <1>8, <2>1, <2>2, <3>1, <3>2, <3>3, HeadNumber
      <3> QED
        BY <3>1, <3>2, <3>3, <3>4 DEF Past, f
    <2>3. CASE n # m
      <3>1. n \in Made(s)
        BY <2>1, ListedIsMade
      <3>2. st # f.stream
        BY <1>7, <2>1, <2>3, <3>1 DEF StreamInv, ConnStreams, OneCarrier
      <3>3. ~DataOf(f, st)
        BY <3>2 DEF DataOf
      <3>4. Receives(s, st, b)
        BY <1>6, <1>8, <2>3, SameReceived
      <3> QED
        BY <3>3, <3>4 DEF Past, f
    <2> QED
      BY <2>2, <2>3
  <1>9. ASSUME Unmet(s, st)', b = 0 PROVE Past(s, st, b)
    <2>1. Unmet(s, st)
      BY <1>1, <1>9, UnmetBefore
    <2>2. ~DataOf(f, st)
      BY <1>7, <2>1 DEF DataOf, Unmet
    <2> QED
      BY <1>9, <2>1, <2>2 DEF Past, Receives, f
  <1> QED
    BY <1>8, <1>9 DEF Receives, Unmet, Made

(* A frame that is dropped is of no stream that is received.               *)
LEMMA UnknownReceived ==
    ASSUME TypeOK, RemovalInv, StreamInv, IdsInv, DataInv, NEW s \in End,
           NEW cmd \in Frames, RecvUnknown(s, cmd), Data(Head(chan[s])),
           NEW st \in Stream, NEW b \in Nat, Receives(s, st, b)'
    PROVE  Past(s, st, b)
  <1> DEFINE f == Head(chan[s])
  <1>1. /\ chan[s] # <<>> /\ f.cmd \in Frames
        /\ WithId(s, f.id) = {} /\ ~Connects(s, f)
        /\ conn' = conn /\ made' = made
    BY DEF RecvUnknown, Arrives
  <1>2. /\ 1 \in DOMAIN chan[s] /\ f = chan[s][1]
        /\ \A n \in Made(s) : conn[s][n].id = f.id <=> conn[s][n].stream = f.stream
        /\ f.stream[1] = Peer(s) <=> IsIdFromOtherSide(s, f.id)
    BY <1>1, HeadNames DEF StreamInv
  <1> HIDE DEF f
  <1>3. Receives(s, st, b)
    BY <1>1 DEF Receives, Unmet, Made
  <1>4. ASSUME DataOf(f, st) PROVE FALSE
    <2>1. f.stream = st
      BY <1>4 DEF DataOf
    <2>2. CASE \E n \in Num : conn[s][n].live /\ conn[s][n].stream = st
      <3>1. PICK n \in Num : conn[s][n].live /\ conn[s][n].stream = st
        BY <2>2
      <3>2. n \in Made(s)
        BY <3>1, ListedIsMade
      <3>3. conn[s][n].id = f.id
        BY <1>2, <2>1, <3>1, <3>2
      <3>4. n \in WithId(s, f.id)
        BY <3>1, <3>3 DEF WithId, Listed
      <3> QED
        BY <1>1, <3>4
    <2>3. CASE Unmet(s, st) /\ b = 0
      <3>1. f.k = 0 + 1
        BY <1>2, <1>3, <1>4, <2>3, HeadNumber
      <3>2. f.cmd = "connect"
        <4>1. Starts(f)
          BY <1>2 DEF DataInv, StartsOnce
        <4>2. Data(f) /\ f.k = 1
          BY <1>4, <3>1, SMT DEF DataOf
        <4> QED
          BY <4>1, <4>2 DEF Starts
      <3>3. IsIdFromOtherSide(s, f.id)
        BY <1>2, <2>1, <2>3 DEF Unmet
      <3> QED
        BY <1>1, <3>2, <3>3 DEF Connects
    <2> QED
      BY <1>3, <2>2, <2>3 DEF Receives
  <1> QED
    BY <1>3, <1>4 DEF Past, f

(* No second CONNECT arrives.                                              *)
LEMMA NoSecondConnect ==
    ASSUME TypeOK, RemovalInv, StreamInv, IdsInv, NEW s \in End
    PROVE  ~RecvInvalidConnect(s)
  <1> SUFFICES ASSUME RecvInvalidConnect(s) PROVE FALSE
    OBVIOUS
  <1> DEFINE f == Head(chan[s])
             m == FirstWithId(s, f.id)
  <1>1. Arrives(s, "connect") /\ Connects(s, f) /\ WithId(s, f.id) # {}
    BY DEF RecvInvalidConnect, InvalidConnect
  <1>2. \A n \in Made(s) : conn[s][n].stream # f.stream
    BY <1>1, ConnectIsNew
  <1>3. chan[s] # <<>> /\ f.cmd \in Frames
    BY <1>1 DEF Arrives, Frames
  <1>4. \A n \in Made(s) : conn[s][n].id = f.id <=> conn[s][n].stream = f.stream
    BY <1>3, HeadNames DEF StreamInv
  <1>5. m \in WithId(s, f.id)
    BY <1>1, FirstFound
  <1> HIDE DEF f, m
  <1>6. m \in Num /\ conn[s][m].live /\ conn[s][m].id = f.id
    BY <1>5 DEF WithId, Listed
  <1>7. m \in Made(s)
    BY <1>6, ListedIsMade
  <1> QED
    BY <1>2, <1>4, <1>6, <1>7

LEMMA ReadReceived ==
    ASSUME TypeOK, RemovalInv, StreamInv, IdsInv, DataInv, NEW s \in End, Steps(s), Reads(s),
           NEW st \in Stream, NEW b \in Nat, Receives(s, st, b)'
    PROVE  Past(s, st, b)
  <1> DEFINE f == Head(chan[s])
  <1>1. CASE Data(f)
    <2>1. \/ RecvConnectNew(s)
          \/ \E cmd \in Frames : RecvUnknown(s, cmd)
          \/ \E cmd \in {"connect", "push"} : RecvData(s, cmd)
      BY <1>1, ReadsData, NoSecondConnect
    <2> QED
      BY <1>1, <2>1, ConnectReceived, PushReceived, UnknownReceived
  <1>2. CASE ~Data(f)
    <2>1. \A cmd \in {"connect", "push"} : ~RecvData(s, cmd)
      BY <1>2 DEF RecvData, Arrives, Data
    <2>2. ~Makes(s)
      <3>1. ~RecvConnectNew(s)
        BY <1>2 DEF RecvConnectNew, Arrives, Data
      <3>2. ~CreateConn(s)
        <4>1. chan[s] \in Seq(Frame \cup SessFrame) /\ chan[s] # <<>> /\ chan'[s] = Tail(chan[s])
          BY DEF Reads, TypeOK
        <4>2. chan' # chan
          BY <4>1, TailDiffers
        <4>3. CreateConn(s) => chan' = chan
          BY DEF CreateConn
        <4> QED
          BY <4>2, <4>3
      <3> QED
        BY <3>1, <3>2 DEF Makes
    <2>3. Receives(s, st, b)
      BY <2>1, <2>2, NoneReceived
    <2> QED
      BY <1>2, <2>3 DEF Past, DataOf
  <1> QED
    BY <1>1, <1>2

LEMMA UnreadReceived ==
    ASSUME TypeOK, RemovalInv, StreamInv, NEW s \in End, Steps(s), ~Reads(s),
           NEW st \in Stream, NEW b \in Nat, Receives(s, st, b)'
    PROVE  Receives(s, st, b) \/ (CreateConn(s) /\ st = <<s, made[s] + 1>> /\ b = 0)
  <1>1. chan \in [End -> Seq(Frame \cup SessFrame)]
    BY DEF TypeOK
  <1>2. ASSUME NEW cmd \in {"connect", "push"}, RecvData(s, cmd) PROVE FALSE
    <2>1. chan[s] # <<>> /\ Consumed(s)
      BY <1>2 DEF RecvData, DataTo, Arrives
    <2> QED
      BY <1>1, <2>1 DEF Consumed, Reads
  <1>3. ASSUME RecvConnectNew(s) PROVE FALSE
    <2>1. chan[s] # <<>> /\ Consumed(s)
      BY <1>3 DEF RecvConnectNew, Arrives
    <2> QED
      BY <1>1, <2>1 DEF Consumed, Reads
  <1>4. CASE CreateConn(s)
    BY <1>4, CreatedReceived
  <1>5. CASE ~CreateConn(s)
    <2>1. ~Makes(s)
      BY <1>3, <1>5 DEF Makes
    <2> QED
      BY <1>2, <2>1, NoneReceived
  <1> QED
    BY <1>4, <1>5

(***************************************************************************)
(* What a step does to the numbers of the frames in a channel.             *)
(***************************************************************************)
LEMMA TailNumbers ==
    ASSUME NEW S, NEW q \in Seq(S), q # <<>>, NEW st, NEW b0 \in Nat, NEW b \in Nat,
           NumbersFrom(q, st, b0), b = IF DataOf(Head(q), st) THEN b0 + 1 ELSE b0
    PROVE  /\ NumbersFrom(Tail(q), st, b)
           /\ b + Total(Tail(q), st) = b0 + Total(q, st)
  <1> DEFINE w == Tail(q)
             n == Len(q)
  <1>1. /\ n \in Nat \ {0} /\ Len(w) = n - 1 /\ w \in Seq(S)
        /\ \A j \in 1..Len(w) : w[j] = q[j + 1]
        /\ Head(q) = q[1] /\ DOMAIN q = 1..n
    BY EmptySeq, LenProperties, HeadTailProperties
  <1>2. DOMAIN w = 1..Len(w)
    BY <1>1, LenProperties
  <1>3. ASSUME NEW i \in 1..n
        PROVE  /\ Count(q, st, i + 1) \in Nat /\ Count(w, st, i) \in Nat
               /\ b + Count(w, st, i) = b0 + Count(q, st, i + 1)
    <2>1. i \in Nat /\ i + 1 \in Nat
      BY <1>1, SMT
    <2>2. Count(q, st, i + 1) \in Nat /\ Count(w, st, i) \in Nat
      BY <2>1, CountIsNat
    <2>3. Count(q, st, i + 1) = IF DataOf(q[1], st) THEN Count(w, st, i) + 1
                                                    ELSE Count(w, st, i)
      BY CountTail
    <2> DEFINE x == Count(q, st, i + 1)
               y == Count(w, st, i)
    <2> HIDE DEF w, x, y
    <2>4. CASE DataOf(q[1], st)
      <3>1. b = b0 + 1 /\ x = y + 1 /\ x \in Nat /\ y \in Nat
        BY <1>1, <2>2, <2>3, <2>4 DEF x, y
      <3>2. b + y = b0 + x
        BY <3>1, SMT
      <3> QED
        BY <2>2, <3>2 DEF x, y
    <2>5. CASE ~DataOf(q[1], st)
      <3>1. b = b0 /\ x = y
        BY <1>1, <2>2, <2>3, <2>5 DEF x, y
      <3> QED
        BY <2>2, <3>1 DEF x, y
    <2> QED
      BY <2>4, <2>5
  <1> HIDE DEF w, n
  <1>4. NumbersFrom(w, st, b)
    <2> SUFFICES ASSUME NEW i \in DOMAIN w, DataOf(w[i], st)
                 PROVE  w[i].k = b + Count(w, st, i) + 1
      BY DEF NumbersFrom
    <2>1. i \in 1..n /\ i + 1 \in 1..n
      BY <1>1, <1>2, SMT
    <2>2. w[i] = q[i + 1]
      BY <1>1, <1>2
    <2>3. q[i + 1].k = b0 + Count(q, st, i + 1) + 1
      BY <1>1, <2>1, <2>2 DEF NumbersFrom
    <2>4. b + Count(w, st, i) = b0 + Count(q, st, i + 1)
      BY <1>3, <2>1
    <2> QED
      BY <2>2, <2>3, <2>4
  <1>5. b + Total(w, st) = b0 + Total(q, st)
    <2>1. n \in 1..n /\ Len(w) + 1 = n
      BY <1>1, SMT
    <2>2. b + Count(w, st, n) = b0 + Count(q, st, n + 1)
      BY <1>3, <2>1
    <2> QED
      BY <2>1, <2>2 DEF Total, n
  <1> QED
    BY <1>4, <1>5 DEF w

(* The numbers of the frames that were there stay.                         *)
LEMMA FrontNumbers ==
    ASSUME NEW S, NEW q \in Seq(S), NEW r \in Seq(S), NEW st, NEW i \in DOMAIN q
    PROVE  /\ i \in Nat /\ (q \o r)[i] = q[i]
           /\ Count(q \o r, st, i) = Count(q, st, i)
  <1> DEFINE w == q \o r
             n == Len(q)
             m == Len(r)
  <1>1. /\ n \in Nat /\ m \in Nat /\ DOMAIN q = 1..n
        /\ \A j \in 1..n + m : w[j] = IF j <= n THEN q[j] ELSE r[j - n]
    BY LenProperties, ConcatProperties
  <1> HIDE DEF w, n, m
  <1>2. \A j \in 1..n : j \in 1..n + m /\ j <= n /\ j \in Nat
    BY <1>1, SMT
  <1>3. \A j \in 1..n : w[j] = q[j]
    BY <1>1, <1>2
  <1>4. i \in 1..n /\ \A j \in 1..(i - 1) : j \in 1..n
    BY <1>1, SMT
  <1>5. Count(w, st, i) = Count(q, st, i)
    <2>1. \A j \in 1..(i - 1) : w[j] = q[j]
      BY <1>3, <1>4
    <2>2. i \in Nat
      BY <1>2, <1>4
    <2> QED
      BY <2>1, <2>2, CountSame
  <1> QED
    BY <1>2, <1>3, <1>4, <1>5 DEF w

LEMMA QuietNumbers ==
    ASSUME NEW S, NEW q \in Seq(S), NEW r \in Seq(S), NEW st, NEW b \in Nat,
           \A i \in 1..Len(r) : ~DataOf(r[i], st), NumbersFrom(q, st, b)
    PROVE  /\ NumbersFrom(q \o r, st, b)
           /\ Total(q \o r, st) = Total(q, st)
  <1> DEFINE w == q \o r
             n == Len(q)
             m == Len(r)
  <1>1. /\ n \in Nat /\ m \in Nat /\ DOMAIN q = 1..n /\ w \in Seq(S) /\ Len(w) = n + m
        /\ \A j \in 1..n + m : w[j] = IF j <= n THEN q[j] ELSE r[j - n]
    BY LenProperties, ConcatProperties
  <1>2. DOMAIN w = 1..n + m
    BY <1>1, LenProperties
  <1>3. NumbersFrom(w, st, b)
    <2> SUFFICES ASSUME NEW i \in 1..n + m, DataOf(w[i], st)
                 PROVE  w[i].k = b + Count(w, st, i) + 1
      BY <1>2 DEF NumbersFrom
    <2>1. CASE i <= n
      <3>1. i \in DOMAIN q
        <4> HIDE DEF n, m
        <4> QED
          BY <1>1, <2>1, SMT
      <3>2. w[i] = q[i] /\ Count(w, st, i) = Count(q, st, i)
        BY <3>1, FrontNumbers
      <3> QED
        BY <3>1, <3>2 DEF NumbersFrom
    <2>2. CASE ~(i <= n)
      <3>1. w[i] = r[i - n]
        BY <1>1, <2>2
      <3>2. i - n \in 1..m
        <4> HIDE DEF n, m
        <4> QED
          BY <1>1, <2>2, SMT
      <3> QED
        BY <3>1, <3>2
    <2> QED
      BY <2>1, <2>2
  <1> QED
    BY <1>3, TotalKept

LEMMA NextNumber ==
    ASSUME NEW S, NEW q \in Seq(S), NEW f \in S, NEW st, NEW b \in Nat,
           DataOf(f, st), NumbersFrom(q, st, b), f.k = b + Total(q, st) + 1
    PROVE  /\ NumbersFrom(q \o <<f>>, st, b)
           /\ Total(q \o <<f>>, st) = Total(q, st) + 1
  <1> DEFINE w == q \o <<f>>
             n == Len(q)
  <1>1. <<f>> \in Seq(S) /\ Len(<<f>>) = 1 /\ <<f>>[1] = f
    OBVIOUS
  <1>2. /\ n \in Nat /\ DOMAIN q = 1..n /\ w \in Seq(S) /\ Len(w) = n + 1
        /\ \A j \in 1..n + 1 : w[j] = IF j <= n THEN q[j] ELSE <<f>>[j - n]
    BY <1>1, LenProperties, ConcatProperties
  <1>3. DOMAIN w = 1..n + 1
    BY <1>2, LenProperties
  <1>4. n + 1 \in 1..n + 1 /\ ~(n + 1 <= n) /\ (n + 1) - n = 1 /\ n + 1 \in Nat \ {0}
    <2> HIDE DEF n
    <2> QED
      BY <1>2, SMT
  <1>5. w[n + 1] = f
    BY <1>1, <1>2, <1>4
  <1>6. Count(w, st, n + 1) = Total(q, st)
    <2>1. \A j \in 1..((n + 1) - 1) : w[j] = q[j]
      <3>1. \A j \in 1..((n + 1) - 1) : j \in 1..n
        <4> HIDE DEF n
        <4> QED
          BY <1>2, SMT
      <3>2. \A j \in DOMAIN q : w[j] = q[j]
        BY <1>1, FrontNumbers
      <3>3. DOMAIN q = 1..n
        BY <1>2
      <3> HIDE DEF w, n
      <3> QED
        BY <3>1, <3>2, <3>3
    <2>2. Count(w, st, n + 1) = Count(q, st, n + 1)
      <3>1. n + 1 \in Nat
        BY <1>4
      <3> DEFINE k == n + 1
      <3> HIDE DEF w, k
      <3>2. k \in Nat /\ \A j \in 1..(k - 1) : w[j] = q[j]
        BY <2>1, <3>1 DEF k
      <3> QED
        BY <3>2, CountSame DEF k
    <2> QED
      BY <2>2 DEF Total
  <1>7. Total(w, st) = Total(q, st) + 1
    <2>1. Total(w, st) = Count(w, st, (n + 1) + 1)
      BY <1>2 DEF Total
    <2>2. Count(w, st, (n + 1) + 1) = Count(w, st, n + 1) + 1
      BY <1>4, <1>5, CountNext
    <2> QED
      BY <1>6, <2>1, <2>2
  <1>8. NumbersFrom(w, st, b)
    <2> SUFFICES ASSUME NEW i \in 1..n + 1, DataOf(w[i], st)
                 PROVE  w[i].k = b + Count(w, st, i) + 1
      BY <1>3 DEF NumbersFrom
    <2>1. CASE i = n + 1
      BY <1>5, <1>6, <2>1
    <2>2. CASE i # n + 1
      <3>1. i \in DOMAIN q
        <4> HIDE DEF n
        <4> QED
          BY <1>2, <2>2, SMT
      <3>2. w[i] = q[i] /\ Count(w, st, i) = Count(q, st, i)
        BY <1>1, <3>1, FrontNumbers
      <3> QED
        BY <3>1, <3>2 DEF NumbersFrom
    <2> QED
      BY <2>1, <2>2
  <1> QED
    BY <1>7, <1>8

(***************************************************************************)
(* The numbers after a step of s: of the frames to s, and of those from s. *)
(***************************************************************************)
(* A stream that no conn of s carried has no frames from s.                *)
LEMMA NoFramesFrom ==
    ASSUME TypeOK, StreamInv, NEW s \in End, NEW st, \A n \in Made(s) : conn[s][n].stream # st
    PROVE  /\ \A i \in DOMAIN chan[Peer(s)] : ~DataOf(chan[Peer(s)][i], st)
           /\ Total(chan[Peer(s)], st) = 0
  <1> DEFINE p == Peer(s)
  <1>1. p \in End /\ Peer(p) = s
    BY Ends
  <1>2. chan[p] \in Seq(Frame \cup SessFrame)
    BY <1>1 DEF TypeOK
  <1> HIDE DEF p
  <1>3. ASSUME NEW i \in DOMAIN chan[p], DataOf(chan[p][i], st) PROVE FALSE
    <2>1. chan[p][i].cmd \in Frames /\ chan[p][i].stream = st
      BY <1>3 DEF DataOf, Data, Frames
    <2>2. Known(p, chan[p][i])
      BY <1>1, <2>1 DEF StreamInv, FrameStreams, FramesKnown
    <2> QED
      BY <1>1, <2>1, <2>2 DEF Known
  <1>4. Total(chan[p], st) = 0
    <2> DEFINE n == Len(chan[p])
    <2>1. DOMAIN chan[p] = 1..n /\ n \in Nat
      BY <1>2, LenProperties
    <2> HIDE DEF n
    <2>2. (n + 1) - 1 = n
      BY <2>1, SMT
    <2>3. Before(chan[p], st, n + 1) = {}
      BY <1>3, <2>1, <2>2 DEF Before
    <2> QED
      BY <2>3, FS_EmptySet DEF Total, Count, n
  <1> QED
    BY <1>3, <1>4 DEF p

LEMMA ReadNumbers ==
    ASSUME TypeOK, RemovalInv, StreamInv, IdsInv, DataInv, NEW s \in End, Steps(s), Reads(s),
           NEW st \in Stream, NEW b \in Nat, Receives(s, st, b)'
    PROVE  Numbered(s, st, b)'
  <1> DEFINE p == Peer(s)
             q == chan[s]
  <1>1. p \in End /\ p # s
    BY Ends
  <1>2. q \in Seq(Frame \cup SessFrame) /\ q # <<>> /\ chan'[s] = Tail(q)
    BY DEF TypeOK, Reads
  <1>3. conn'[p] = conn[p] /\ made'[p] = made[p] /\ link'[p] = link[p]
    BY <1>1, StepLocal DEF Untouched
  <1>4. PICK b0 \in Nat : Receives(s, st, b0) /\ b = IF DataOf(Head(q), st) THEN b0 + 1 ELSE b0
    BY ReadReceived DEF Past
  <1>5. Numbered(s, st, b0)
    BY <1>4 DEF DataInv, AllNumbered
  <1> HIDE DEF p, q
  <1>6. NumbersFrom(Tail(q), st, b) /\ b + Total(Tail(q), st) = b0 + Total(q, st)
    <2>1. NumbersFrom(q, st, b0)
      BY <1>5 DEF Numbered, q
    <2> QED
      BY <1>2, <1>4, <2>1, TailNumbers
  <1>7. ASSUME NEW n \in Num, conn[p][n].live, conn[p][n].stream = st, link[p] # "gone"
        PROVE  conn[p][n].sent = b + Total(Tail(q), st)
    <2>1. conn[p][n].sent = b0 + Total(q, st)
      BY <1>5, <1>7 DEF Numbered, SessExists, p, q
    <2> QED
      BY <1>6, <2>1
  <1>8. ASSUME \A n \in Made(p) : conn[p][n].stream # st PROVE b = 0
    <2>1. b0 = 0
      BY <1>5, <1>8 DEF Numbered, p
    <2>2. ~DataOf(Head(q), st)
      <3> SUFFICES ASSUME DataOf(Head(q), st) PROVE FALSE
        OBVIOUS
      <3>1. Head(q).cmd \in Frames /\ Head(q).stream = st
        BY DEF DataOf, Data, Frames
      <3>2. \E m \in Made(p) : conn[p][m].stream = Head(q).stream
        BY <1>2, <3>1, HeadNames DEF StreamInv, p, q
      <3> QED
        BY <1>8, <3>1, <3>2
    <2> QED
      BY <1>4, <2>1, <2>2
  <1> QED
    BY <1>2, <1>3, <1>6, <1>7, <1>8 DEF Numbered, SessExists, Peer, p, q, Made, Total

LEMMA UnreadNumbers ==
    ASSUME TypeOK, RemovalInv, StreamInv, DataInv, NEW s \in End, Steps(s), ~Reads(s),
           NEW st \in Stream, NEW b \in Nat, Receives(s, st, b)'
    PROVE  Numbered(s, st, b)'
  <1> DEFINE p == Peer(s)
  <1>1. p \in End /\ p # s /\ Peer(p) = s
    BY Ends
  <1>2. chan'[s] = chan[s]
    BY StepChannels DEF Dropped, Reads
  <1>3. conn'[p] = conn[p] /\ made'[p] = made[p] /\ link'[p] = link[p]
    BY <1>1, StepLocal DEF Untouched
  <1>4. Numbered(s, st, b)
    <2>1. CASE Receives(s, st, b)
      BY <2>1 DEF DataInv, AllNumbered
    <2>2. CASE CreateConn(s) /\ st = <<s, made[s] + 1>> /\ b = 0
      <3>1. \A n \in Made(p) : conn[p][n].stream # st
        <4> SUFFICES ASSUME NEW n \in Made(p), conn[p][n].stream = st PROVE FALSE
          OBVIOUS
        <4>1. conn[p][n].stream[1] = Peer(p) /\ conn[p][n].stream[2] = made[s] + 1
          BY <1>1, <2>2
        <4>2. made[s] + 1 \in Made(s)
          BY <1>1, <4>1 DEF StreamInv, ConnStreams, Connected
        <4>3. made[s] \in Nat /\ made[s] + 1 <= made[s]
          BY <4>2 DEF Made, TypeOK
        <4> DEFINE k == made[s]
        <4> HIDE DEF k
        <4>4. k \in Nat /\ k + 1 <= k
          BY <4>3 DEF k
        <4> QED
          BY <4>4, SMT
      <3>2. \A n \in Num : conn[p][n].live => conn[p][n].stream # st
        BY <1>1, <3>1, ListedIsMade
      <3>3. \A i \in DOMAIN chan[s] : ~DataOf(chan[s][i], st)
        BY <1>1, <3>1, NoFramesFrom
      <3> QED
        BY <2>2, <3>2, <3>3 DEF Numbered, NumbersFrom, p
    <2> QED
      BY <2>1, <2>2, UnreadReceived
  <1> QED
    BY <1>2, <1>3, <1>4 DEF Numbered, SessExists, Peer, p, Made, Total, NumbersFrom

LEMMA GoneStays ==
    ASSUME TypeOK, NEW s \in End, Steps(s), link[s] = "gone"
    PROVE  link'[s] = "gone"
  <1>1. link \in [End -> Links]
    BY DEF TypeOK
  <1>2. CASE \/ \E n \in Num : ConnSend(s, n) \/ SendStopSending(s, n) \/ SendClose(s, n)
             \/ \E n \in Num : ConnClose(s, n) \/ TimesOut(s, n)
             \/ CreateConn(s)
    <2>1. link' = link
      BY <1>2 DEF ConnSend, SendStopSending, SendClose, ConnClose, TimesOut, CreateConn
    <2> QED
      BY <2>1
  <1>3. CASE MuxClose(s)
    BY <1>1, <1>3 DEF MuxClose
  <1>4. CASE SessReady(s) \/ SessAcked(s)
    BY <1>4 DEF SessReady, SessAcked
  <1>5. CASE NextTick(s) \/ WaitFinExpires(s)
    BY <1>1, <1>5 DEF NextTick, RemoveConn, RemoveSess, RemoveMux, WaitFinExpires, DeleteSess
  <1>6. CASE \/ RecvConnectNew(s) \/ RecvInvalidConnect(s)
             \/ \E cmd \in Frames : RecvUnknown(s, cmd)
             \/ \E cmd \in {"connect", "push"} : RecvData(s, cmd)
             \/ RecvFin(s) \/ RecvCls(s) \/ RecvSessFin(s) \/ RecvSessFinAck(s)
    BY <1>6 DEF RecvConnectNew, RecvInvalidConnect, RecvUnknown, RecvData, RecvFin, RecvCls,
       RecvSessFin, RecvSessFinAck, Arrives
  <1> QED
    BY <1>2, <1>3, <1>4, <1>5, <1>6 DEF Steps

(* A step that sends no data.                                              *)
LEMMA NoneSent ==
    ASSUME TypeOK, RemovalInv, NEW s \in End, Steps(s), \A m \in Num : ~ConnSend(s, m),
           NEW st, NEW b \in Nat, NumbersFrom(chan[Peer(s)], st, b)
    PROVE  /\ NumbersFrom(chan'[Peer(s)], st, b)
           /\ Total(chan'[Peer(s)], st) = Total(chan[Peer(s)], st)
  <1> DEFINE p == Peer(s)
  <1>1. chan[p] \in Seq(Frame \cup SessFrame)
    BY Ends DEF TypeOK
  <1>2. PICK r : Appended(s, r)
    BY StepChannels
  <1>3. r \in Seq(Frame \cup SessFrame) /\ chan'[p] = chan[p] \o r
    BY <1>2 DEF Appended
  <1>4. \A i \in 1..Len(r) : ~DataOf(r[i], st)
    <2> SUFFICES ASSUME NEW i \in 1..Len(r), Data(r[i]) PROVE FALSE
      BY DEF DataOf
    <2>1. r[i] \in Posted(s)
      BY <1>2 DEF Appended
    <2> QED
      BY <2>1, PostedData
  <1> HIDE DEF p
  <1> QED
    BY <1>1, <1>3, <1>4, QuietNumbers DEF p

(* The conns of s that were there before a step that sends nothing.        *)
LEMMA NoneSentBy ==
    ASSUME TypeOK, RemovalInv, NEW s \in End, Steps(s), \A m \in Num : ~ConnSend(s, m),
           ~Makes(s), NEW n \in Num, conn'[s][n].live
    PROVE  /\ conn[s][n].live /\ conn'[s][n].stream = conn[s][n].stream
           /\ conn'[s][n].sent = conn[s][n].sent
  <1>1. conn[s][n].live /\ conn'[s][n].stream = conn[s][n].stream
    BY StepLatest DEF Latest, Later
  <1>2. CASE \A cmd \in {"connect", "push"} : ~RecvData(s, cmd)
    BY <1>1, <1>2, StepSteady DEF Steady
  <1>3. ASSUME NEW cmd \in {"connect", "push"}, RecvData(s, cmd)
        PROVE  conn'[s][n].sent = conn[s][n].sent
    <2> DEFINE m == FirstWithId(s, Head(chan[s]).id)
    <2>1. /\ n # m => conn'[s][n] = conn[s][n]
          /\ conn[s][m].recv = "stop" => conn'[s][m] = conn[s][m]
          /\ conn[s][m].recv # "stop" => conn'[s][m].sent = conn[s][m].sent
      BY <1>3, ReceivesOne
    <2> HIDE DEF m
    <2> QED
      BY <2>1
  <1> QED
    BY <1>1, <1>2, <1>3

LEMMA FarNumbers ==
    ASSUME TypeOK, RemovalInv, StreamInv, DataInv, NEW s \in End, Steps(s),
           NEW p \in End, p = Peer(s),
           NEW st \in Stream, NEW b \in Nat, Receives(p, st, b)'
    PROVE  Numbered(p, st, b)'
  <1>1. p # s /\ Peer(p) = s
    BY Ends
  <1>2. Receives(p, st, b)
    <2>1. conn'[p] = conn[p] /\ made'[p] = made[p]
      BY <1>1, StepLocal DEF Untouched
    <2> QED
      BY <2>1 DEF Receives, Unmet, Made
  <1>3. /\ NumbersFrom(chan[p], st, b)
        /\ \A n \in Num : conn[s][n].live /\ conn[s][n].stream = st /\ SessExists(s)
                            => conn[s][n].sent = b + Total(chan[p], st)
        /\ (\A n \in Made(s) : conn[s][n].stream # st) => b = 0
    BY <1>1, <1>2 DEF DataInv, AllNumbered, Numbered
  <1>4. ASSUME \A n \in Made(s)' : conn'[s][n].stream # st PROVE b = 0
    <2>1. NamesKept
      BY StepNames
    <2> QED
      BY <1>3, <1>4, <2>1 DEF NamesKept, SameNames
  <1>5. link'[s] # "gone" => SessExists(s)
    BY GoneStays DEF SessExists
  <1>6. chan[p] \in Seq(Frame \cup SessFrame)
    BY DEF TypeOK
  <1>7. /\ NumbersFrom(chan'[p], st, b)
        /\ \A n \in Num : conn'[s][n].live /\ conn'[s][n].stream = st /\ link'[s] # "gone"
                            => conn'[s][n].sent = b + Total(chan'[p], st)
    <2>1. ASSUME NEW m \in Num, ConnSend(s, m)
          PROVE  /\ NumbersFrom(chan'[p], st, b)
                 /\ \A n \in Num : conn'[s][n].live /\ conn'[s][n].stream = st /\ link'[s] # "gone"
                                     => conn'[s][n].sent = b + Total(chan'[p], st)
      <3> DEFINE f == FrameOf(s, m, IF conn[s][m].send = "none" THEN "connect" ELSE "push",
                              conn[s][m].sent + 1)
      <3>1. Post(s, <<f>>) /\ link' = link /\ conn[s][m].live
        BY <2>1 DEF ConnSend
      <3>2. conn[s][m].sent \in Nat
        <4>1. conn[s][m] \in Conn
          BY DEF TypeOK
        <4> QED
          BY <4>1 DEF Conn
      <3>3. Data(f) /\ f.stream = conn[s][m].stream /\ f.k = conn[s][m].sent + 1
        <4> DEFINE cmd == IF conn[s][m].send = "none" THEN "connect" ELSE "push"
        <4>1. cmd = "connect" \/ cmd = "push"
          OBVIOUS
        <4> HIDE DEF cmd
        <4>2. /\ FrameOf(s, m, cmd, conn[s][m].sent + 1).cmd = cmd
              /\ FrameOf(s, m, cmd, conn[s][m].sent + 1).stream = conn[s][m].stream
              /\ FrameOf(s, m, cmd, conn[s][m].sent + 1).k = conn[s][m].sent + 1
          BY DEF FrameOf
        <4> QED
          BY <4>1, <4>2 DEF Data, cmd
      <3>4. f \in Frame
        <4>1. (IF conn[s][m].send = "none" THEN "connect" ELSE "push") \in Frames
          BY DEF Frames
        <4>2. conn[s][m].sent + 1 \in Nat
          BY <3>2, SMT
        <4>3. ConnsTyped
          BY Typed
        <4> QED
          BY <4>1, <4>2, <4>3, FrameTyped
      <3> HIDE DEF f
      <3>5. /\ conn'[s][m].sent = conn[s][m].sent + 1
            /\ conn'[s][m].live = conn[s][m].live /\ conn'[s][m].stream = conn[s][m].stream
            /\ \A n \in Num : n # m => conn'[s][n] = conn[s][n]
        BY <2>1, SendsOne
      <3>6. CASE ~SessExists(s)
        <4>1. chan'[p] = chan[p]
          BY <3>1, <3>6, PostChannels
        <4> QED
          BY <1>3, <1>5, <3>6, <4>1
      <3>7. CASE SessExists(s)
        <4>1. chan'[p] = chan[p] \o <<f>>
          BY <3>1, <3>7, PostChannels
        <4>2. CASE conn[s][m].stream = st
          <5>1. DataOf(f, st)
            BY <3>3, <4>2 DEF DataOf
          <5>2. conn[s][m].sent = b + Total(chan[p], st)
            BY <1>3, <3>1, <3>7, <4>2
          <5>3. f.k = b + Total(chan[p], st) + 1
            BY <3>3, <5>2
          <5>4. /\ NumbersFrom(chan'[p], st, b)
                /\ Total(chan'[p], st) = Total(chan[p], st) + 1
            BY <1>3, <1>6, <3>4, <4>1, <5>1, <5>3, NextNumber
          <5>5. ASSUME NEW n \in Num, conn'[s][n].live, conn'[s][n].stream = st PROVE n = m
            <6> SUFFICES ASSUME n # m PROVE FALSE
              OBVIOUS
            <6>1. conn[s][n].live /\ conn[s][n].stream = st
              BY <3>5, <5>5
            <6>2. n \in Made(s) /\ m \in Made(s)
              BY <3>1, <6>1, ListedIsMade
            <6> QED
              BY <4>2, <6>1, <6>2 DEF StreamInv, ConnStreams, OneCarrier
          <5>6. conn'[s][m].sent = b + Total(chan'[p], st)
            <6> DEFINE x == Total(chan[p], st)
            <6>1. x \in Nat
              <7>1. Len(chan[p]) + 1 \in Nat
                BY <1>6, LenProperties
              <7> QED
                BY <7>1, CountIsNat DEF Total
            <6>2. conn'[s][m].sent = (b + x) + 1 /\ Total(chan'[p], st) = x + 1
              BY <3>5, <5>2, <5>4
            <6> HIDE DEF x
            <6>3. (b + x) + 1 = b + (x + 1)
              BY <6>1, SMT
            <6> QED
              BY <6>2, <6>3
          <5> QED
            BY <5>4, <5>5, <5>6
        <4>3. CASE conn[s][m].stream # st
          <5>1. ~DataOf(f, st)
            BY <3>3, <4>3 DEF DataOf
          <5>2. /\ <<f>> \in Seq(Frame \cup SessFrame)
                /\ \A i \in 1..Len(<<f>>) : ~DataOf(<<f>>[i], st)
            <6>1. f \in Frame \cup SessFrame
              BY <3>4
            <6>2. <<f>> \in Seq(Frame \cup SessFrame) /\ \A i \in 1..Len(<<f>>) : <<f>>[i] = f
              <7> HIDE DEF Frame, SessFrame
              <7> QED
                BY <6>1
            <6> QED
              BY <5>1, <6>2
          <5>3. NumbersFrom(chan'[p], st, b) /\ Total(chan'[p], st) = Total(chan[p], st)
            <6> DEFINE r == <<f>>
            <6>1. /\ r \in Seq(Frame \cup SessFrame) /\ chan'[p] = chan[p] \o r
                  /\ \A i \in 1..Len(r) : ~DataOf(r[i], st)
              BY <4>1, <5>2
            <6> HIDE DEF r
            <6> QED
              BY <1>3, <1>6, <6>1, QuietNumbers
          <5> QED
            BY <1>3, <3>5, <3>7, <4>3, <5>3
        <4> QED
          BY <4>2, <4>3
      <3> QED
        BY <3>6, <3>7
    <2>2. CASE \A m \in Num : ~ConnSend(s, m)
      <3>1. NumbersFrom(chan'[p], st, b) /\ Total(chan'[p], st) = Total(chan[p], st)
        BY <1>3, <2>2, NoneSent
      <3>2. CASE ~Makes(s)
        <4> SUFFICES ASSUME NEW n \in Num, conn'[s][n].live, conn'[s][n].stream = st,
                            link'[s] # "gone"
                     PROVE  conn'[s][n].sent = b + Total(chan'[p], st)
          BY <3>1
        <4> QED
          BY <1>3, <1>5, <2>2, <3>1, <3>2, NoneSentBy
      <3>3. CASE Makes(s)
        <4> SUFFICES ASSUME NEW n \in Num, conn'[s][n].live, conn'[s][n].stream = st,
                            link'[s] # "gone"
                     PROVE  conn'[s][n].sent = b + Total(chan'[p], st)
          BY <3>1
        <4>1. PICK c : /\ New(s, made[s] + 1, c) /\ c.sent = 0
                       /\ \A i \in Made(s) : conn[s][i].stream # c.stream
          BY <3>3, MakesFresh
        <4>2. conn' = [conn EXCEPT ![s][made[s] + 1] = c]
          BY <4>1 DEF New
        <4>3. CASE n = made[s] + 1
          <5>1. conn'[s][n] = c
            BY <4>2, <4>3 DEF TypeOK
          <5>2. \A i \in Made(s) : conn[s][i].stream # st
            BY <4>1, <5>1
          <5>3. Total(chan[p], st) = 0
            BY <5>2, NoFramesFrom
          <5>4. b = 0
            BY <1>3, <5>2
          <5> QED
            BY <3>1, <4>1, <5>1, <5>3, <5>4
        <4>4. CASE n # made[s] + 1
          <5>1. conn'[s][n] = conn[s][n]
            BY <4>2, <4>4 DEF TypeOK
          <5> QED
            BY <1>3, <1>5, <3>1, <5>1
        <4> QED
          BY <4>3, <4>4
      <3> QED
        BY <3>2, <3>3
    <2> QED
      BY <2>1, <2>2
  <1> QED
    BY <1>1, <1>4, <1>7 DEF Numbered, SessExists, Peer, NumbersFrom, Total, Made

LEMMA DataInit == Init => DataInv
  <1> SUFFICES ASSUME Init PROVE DataInv
    OBVIOUS
  <1>1. \A s \in End : chan[s] = <<>> /\ made[s] = 0 /\ conn[s] = [n \in Num |-> NoConn]
    BY DEF Init
  <1>2. ~NoConn.live /\ NoConn.send = "none" /\ NoConn.sent = 0
    BY DEF NoConn, NewConn
  <1>3. \A s \in End : \A n \in Num : ~conn[s][n].live /\ Started(conn[s][n])
    BY <1>1, <1>2 DEF Started
  <1>4. \A s \in End : DOMAIN chan[s] = {}
    BY <1>1
  <1>5. StartsOnce
    BY <1>3, <1>4 DEF StartsOnce
  <1>6. AllNumbered
    <2> SUFFICES ASSUME NEW s \in End, NEW st \in Stream, NEW b \in Nat, Receives(s, st, b)
                 PROVE  Numbered(s, st, b)
      BY DEF AllNumbered
    <2>1. b = 0
      BY <1>3 DEF Receives
    <2>2. Peer(s) \in End
      BY Ends
    <2> QED
      BY <1>3, <1>4, <2>1, <2>2 DEF Numbered, NumbersFrom
  <1> QED
    BY <1>5, <1>6 DEF DataInv

LEMMA DataStep ==
    TypeOK /\ RemovalInv /\ StreamInv /\ IdsInv /\ DataInv /\ [Next]_vars => DataInv'
  <1> SUFFICES ASSUME TypeOK, RemovalInv, StreamInv, IdsInv, DataInv, [Next]_vars
               PROVE  DataInv'
    OBVIOUS
  <1>1. CASE UNCHANGED vars
    <2>1. UNCHANGED <<conn, made, link, chan>>
      BY <1>1 DEF vars
    <2> QED
      BY <2>1 DEF DataInv, StartsOnce, AllNumbered, Receives, Unmet, Made, Numbered, NumbersFrom,
                  SessExists, Peer, Starts, Started, Total
  <1>2. ASSUME NEW s \in End, Steps(s) PROVE DataInv'
    <2>1. StartsOnce'
      BY <1>2, StartsStep DEF DataInv
    <2>2. AllNumbered'
      <3> SUFFICES ASSUME NEW t \in End, NEW st \in Stream, NEW b \in Nat, Receives(t, st, b)'
                   PROVE  Numbered(t, st, b)'
        BY DEF AllNumbered
      <3>1. CASE t = s
        <4>1. Receives(s, st, b)'
          BY <3>1
        <4>2. Numbered(s, st, b)'
          BY <1>2, <4>1, ReadNumbers, UnreadNumbers
        <4> QED
          BY <3>1, <4>2
      <3>2. CASE t # s
        <4>1. t = Peer(s)
          BY <3>2, Ends
        <4> QED
          BY <1>2, <4>1, FarNumbers
      <3> QED
        BY <3>1, <3>2
    <2> QED
      BY <2>1, <2>2 DEF DataInv
  <1> QED
    BY <1>1, <1>2, NextIsSteps

(***************************************************************************)
(* Every data frame in flight is the next but those before it, and it is   *)
(* for the conn its id names.                                              *)
(***************************************************************************)
LEMMA DataIsIntact ==
    TypeOK /\ RemovalInv /\ StreamInv /\ IdsInv /\ DataInv => StreamIntegrity
  <1> SUFFICES ASSUME TypeOK, RemovalInv, StreamInv, IdsInv, DataInv,
                      NEW s \in End, NEW i \in DOMAIN chan[s], Data(chan[s][i])
               PROVE  /\ \A n \in WithId(s, chan[s][i].id) :
                            /\ conn[s][n].stream = chan[s][i].stream
                            /\ conn[s][n].recv # "stop" =>
                                 chan[s][i].k = conn[s][n].rcvd
                                                + Cardinality(DataBefore(s, i)) + 1
                      /\ chan[s][i].stream[1] # s /\ chan[s][i].cmd = "connect"
                            => WithId(s, chan[s][i].id) = {}
    BY DEF StreamIntegrity
  <1> DEFINE f == chan[s][i]
             p == Peer(s)
  <1>1. p \in End /\ \A t \in End : t = s \/ t = p
    BY Ends
  <1>2. f \in Frame /\ f.stream \in Stream
    <2>1. chan[s] \in Seq(Frame \cup SessFrame)
      BY DEF TypeOK
    <2>2. f \in Frame \cup SessFrame
      BY <2>1, LenProperties
    <2>3. f \in Frame
      BY <2>2 DEF SessFrame, SessCmds, Data
    <2> QED
      BY <2>3 DEF Frame
  <1>3. PICK m \in Made(p) : SameNames(f, conn[p][m])
    <2>1. f.cmd \in Frames
      BY DEF Data, Frames
    <2> QED
      BY <2>1 DEF IdsInv, FramesNamed
  <1> HIDE DEF f
  <1>4. ASSUME NEW n \in WithId(s, f.id)
        PROVE  /\ n \in Num /\ n \in Made(s) /\ conn[s][n].live
               /\ conn[s][n].stream = f.stream
    <2>1. n \in Num /\ conn[s][n].live /\ conn[s][n].id = f.id
      BY DEF WithId, Listed
    <2>2. n \in Made(s)
      BY <2>1, ListedIsMade
    <2>3. conn[s][n].id = conn[p][m].id
      BY <1>3, <2>1 DEF SameNames
    <2>4. conn[s][n].stream = conn[p][m].stream
      BY <1>1, <2>2, <2>3, SameIdSameStream DEF IdsInv, StreamInv
    <2> QED
      BY <1>3, <2>1, <2>2, <2>4 DEF SameNames
  <1>5. ASSUME NEW n \in WithId(s, f.id), conn[s][n].recv # "stop"
        PROVE  f.k = conn[s][n].rcvd + Cardinality(DataBefore(s, i)) + 1
    <2>1. n \in Num /\ conn[s][n].live /\ conn[s][n].stream = f.stream
      BY <1>4
    <2>2. conn[s][n].rcvd \in Nat
      <3>1. conn[s][n] \in Conn
        BY <2>1 DEF TypeOK
      <3> QED
        BY <3>1 DEF Conn
    <2>3. Receives(s, f.stream, conn[s][n].rcvd)
      BY <1>5, <2>1 DEF Receives
    <2>4. NumbersFrom(chan[s], f.stream, conn[s][n].rcvd)
      BY <1>2, <2>2, <2>3 DEF DataInv, AllNumbered, Numbered
    <2>5. DataOf(f, f.stream)
      BY DEF DataOf, f
    <2>6. f.k = conn[s][n].rcvd + Count(chan[s], f.stream, i) + 1
      BY <2>4, <2>5 DEF NumbersFrom, f
    <2>7. Before(chan[s], f.stream, i) = DataBefore(s, i)
      BY DEF Before, DataOf, DataBefore, f
    <2> QED
      BY <2>6, <2>7 DEF Count
  <1>6. ASSUME f.stream[1] # s, f.cmd = "connect" PROVE WithId(s, f.id) = {}
    <2>1. f.stream[1] = p
      BY <1>1, <1>2, <1>6 DEF Stream
    <2>2. Opens(s, chan[s][i])
      BY <1>6, <2>1 DEF Opens, f
    <2>3. \A n \in Made(s) : conn[s][n].stream # f.stream
      BY <2>2 DEF StreamInv, NoConnYet, f
    <2> QED
      BY <1>4, <2>3
  <1> QED
    BY <1>4, <1>5, <1>6 DEF f

(* While ids do not wrap around, a data frame reaches the conn it was sent *)
(* to, whole and in its turn, and a CONNECT finds its id unused            *)
(* (Mux.cc:170-217): conns are looked up by an id that both ends choose.   *)
THEOREM StreamsAreIntact ==
    ASSUME IdsSuffice
    PROVE  Spec => []StreamIntegrity
  <1> DEFINE Inv == RemovalInv /\ StreamInv /\ IdsInv /\ DataInv
  <1>1. Init => Inv
    BY RemovalInit, StreamInit, IdsInit, DataInit
  <1>2. TypeOK /\ TypeOK' /\ Inv /\ [Next]_vars => Inv'
    BY RemovalStep, StreamStep, IdsStep, DataStep
  <1>3. TypeOK /\ Inv => StreamIntegrity
    BY DataIsIntact
  <1> HIDE DEF Inv
  <1> QED
    BY <1>1, <1>2, <1>3, TypeCorrect, PTL DEF Spec

(***************************************************************************)
(* A conn that told its peer it closes: what that peer has of the stream,  *)
(* or will make of a CONNECT on its way, has a CLS coming.                 *)
(***************************************************************************)
Awaits(s, st) ==
    \/ \E m \in Num : conn[s][m].live /\ conn[s][m].stream = st /\ ~conn[s][m].closing
    \/ \E i \in DOMAIN chan[s] : Opens(s, chan[s][i]) /\ chan[s][i].stream = st

ToldArrives ==
    \A s \in End : ~stale[s] /\ link[Peer(s)] \in {"created", "ready"} =>
        \A n \in Made(s) :
            conn[s][n].told /\ Awaits(Peer(s), conn[s][n].stream) =>
                ClsOnTheWay(Peer(s), conn[s][n].stream)

LEMMA StaleStays ==
    ASSUME TypeOK, NEW s \in End, Steps(s), NEW t \in End, stale[t]
    PROVE  stale'[t]
  <1>1. stale \in [End -> BOOLEAN]
    BY DEF TypeOK
  <1>2. ASSUME NEW b, stale' = [stale EXCEPT ![s] = @ \/ b] PROVE stale'[t]
    BY <1>1, <1>2
  <1>3. Touch(s) => stale'[t]
    BY <1>2 DEF Touch
  <1>4. CASE CreateConn(s)
    BY <1>2, <1>4 DEF CreateConn
  <1>5. CASE RemoveConn(s)
    BY <1>2, <1>5 DEF RemoveConn
  <1>6. ASSUME NEW n \in Num, ConnClose(s, n) \/ TimesOut(s, n) PROVE stale'[t]
    <2>1. Touch(s) \/ stale' = stale
      BY <1>6 DEF ConnClose, TimesOut, ConnCloses
    <2> QED
      BY <1>3, <2>1
  <1>7. CASE MuxClose(s) \/ \E n \in Num : ConnSend(s, n) \/ SendStopSending(s, n)
                                           \/ SendClose(s, n)
    BY <1>3, <1>7 DEF MuxClose, ConnSend, SendStopSending, SendClose
  <1>8. CASE \/ RecvConnectNew(s) \/ RecvInvalidConnect(s) \/ RecvFin(s) \/ RecvCls(s)
             \/ (\E cmd \in Frames : RecvUnknown(s, cmd))
             \/ (\E cmd \in {"connect", "push"} : RecvData(s, cmd))
             \/ SessReady(s) \/ RecvSessFin(s) \/ RecvSessFinAck(s) \/ SessAcked(s)
             \/ RemoveSess(s) \/ RemoveMux(s) \/ WaitFinExpires(s)
    <2>1. stale' = stale
      BY <1>8 DEF RecvConnectNew, RecvInvalidConnect, RecvFin, RecvCls, RecvUnknown, RecvData,
         DataTo, SessReady, RecvSessFin, RecvSessFinAck, SessAcked, RemoveSess, RemoveMux,
         WaitFinExpires, DeleteSess
    <2> QED
      BY <2>1
  <1> QED
    BY <1>4, <1>5, <1>6, <1>7, <1>8 DEF Steps, NextTick

LEMMA LinkWasOpen ==
    ASSUME TypeOK, NEW s \in End, Steps(s), link'[s] \in {"created", "ready"}
    PROVE  link[s] \in {"created", "ready"}
  <1>1. link \in [End -> Links]
    BY DEF TypeOK
  <1>2. CASE \/ \E n \in Num : ConnSend(s, n) \/ SendStopSending(s, n) \/ SendClose(s, n)
             \/ \E n \in Num : ConnClose(s, n) \/ TimesOut(s, n)
             \/ CreateConn(s)
    <2>1. link' = link
      BY <1>2 DEF ConnSend, SendStopSending, SendClose, ConnClose, TimesOut, CreateConn
    <2> QED
      BY <2>1
  <1>3. CASE MuxClose(s)
    BY <1>1, <1>3 DEF MuxClose
  <1>4. CASE SessReady(s) \/ SessAcked(s)
    BY <1>1, <1>4 DEF SessReady, SessAcked
  <1>5. CASE NextTick(s) \/ WaitFinExpires(s)
    BY <1>1, <1>5 DEF NextTick, RemoveConn, RemoveSess, RemoveMux, WaitFinExpires, DeleteSess
  <1>6. CASE \/ RecvConnectNew(s) \/ RecvInvalidConnect(s)
             \/ \E cmd \in Frames : RecvUnknown(s, cmd)
             \/ \E cmd \in {"connect", "push"} : RecvData(s, cmd)
             \/ RecvFin(s) \/ RecvCls(s)
    <2>1. Read(s)
      BY <1>6 DEF RecvConnectNew, RecvInvalidConnect, RecvUnknown, RecvData, RecvFin, RecvCls
    <2> QED
      BY <1>1, <2>1 DEF Read
  <1>7. CASE RecvSessFin(s) \/ RecvSessFinAck(s)
    BY <1>1, <1>7 DEF RecvSessFin, RecvSessFinAck
  <1> QED
    BY <1>2, <1>3, <1>4, <1>5, <1>6, <1>7 DEF Steps

(* A conn that tells its peer when the session is gone leaves a trace.     *)
LEMMA ToldIsStale ==
    ASSUME TypeOK, NEW s \in End, Steps(s), ~SessExists(s), NEW n \in Num,
           ~conn[s][n].told, conn'[s][n].told
    PROVE  stale'[s]
  <1>1. stale \in [End -> BOOLEAN] /\ \A m \in Num : conn[s][m] \in Conn
    BY DEF TypeOK
  <1>2. Touch(s) => stale'[s]
    BY <1>1 DEF Touch
  <1>3. CASE MuxClose(s)
    BY <1>2, <1>3 DEF MuxClose
  <1>4. ASSUME NEW m \in Num, ConnSend(s, m) \/ SendStopSending(s, m) \/ SendClose(s, m)
        PROVE  stale'[s]
    BY <1>2, <1>4 DEF ConnSend, SendStopSending, SendClose
  <1>5. ASSUME NEW m \in Num, ConnClose(s, m) \/ TimesOut(s, m) PROVE stale'[s]
    <2>1. /\ conn' = [conn EXCEPT ![s][m] = ConnClosed(conn[s][m])]
          /\ CloseFrames(s, m) # <<>> => Touch(s)
      BY <1>5 DEF ConnClose, TimesOut, ConnCloses
    <2>2. m = n /\ ConnClosed(conn[s][m]).told
      BY <2>1, OneUntold
    <2>3. conn[s][m].send = "ready"
      BY <1>1, <2>2, ClosedTells
    <2>4. CloseFrames(s, m) = <<FrameOf(s, m, "cls", 0)>>
      BY <2>3 DEF CloseFrames, ClsFrames
    <2>5. CloseFrames(s, m) # <<>>
      BY <2>4
    <2> QED
      BY <1>2, <2>1, <2>5
  <1>6. CASE Makes(s)
    <2> DEFINE f == Head(chan[s])
    <2>1. PICK c : conn' = [conn EXCEPT ![s][made[s] + 1] = c] /\ ~c.told
      <3>1. CASE CreateConn(s)
        <4>1. conn' = [conn EXCEPT ![s][made[s] + 1] = NewConn(NextId(s), <<s, made[s] + 1>>)]
          BY <3>1 DEF CreateConn
        <4>2. ~NewConn(NextId(s), <<s, made[s] + 1>>).told
          BY DEF NewConn
        <4> QED
          BY <4>1, <4>2
      <3>2. CASE RecvConnectNew(s)
        BY <3>2 DEF RecvConnectNew, Arrives, SessExists
      <3> QED
        BY <1>6, <3>1, <3>2 DEF Makes
    <2> QED
      BY <2>1, OneUntold
  <1>7. CASE \/ RecvInvalidConnect(s) \/ (\E cmd \in Frames : RecvUnknown(s, cmd))
             \/ (\E cmd \in {"connect", "push"} : RecvData(s, cmd))
             \/ RecvFin(s) \/ RecvCls(s) \/ RecvSessFin(s) \/ RecvSessFinAck(s)
    BY <1>7 DEF RecvInvalidConnect, RecvUnknown, RecvData, RecvFin, RecvCls, RecvSessFin,
       RecvSessFinAck, Arrives, SessExists
  <1>8. CASE SessReady(s) \/ SessAcked(s) \/ RemoveSess(s) \/ RemoveMux(s) \/ WaitFinExpires(s)
    <2>1. conn' = conn
      BY <1>8 DEF SessReady, SessAcked, RemoveSess, RemoveMux, WaitFinExpires, DeleteSess
    <2> QED
      BY <2>1
  <1>9. CASE RemoveConn(s)
    <2> DEFINE m == Head(ticks[s]).n
               c == [conn[s][m] EXCEPT !.live = FALSE]
    <2>1. ticks[s] \in Seq(Tick) /\ ticks[s] # <<>> /\ Head(ticks[s]).what = "conn"
      BY <1>9 DEF RemoveConn, Runs, TypeOK
    <2>2. Head(ticks[s]) \in Tick
      BY <2>1, HeadTailProperties
    <2>3. m \in Num
      BY <2>1, <2>2 DEF Tick
    <2>4. conn' = [conn EXCEPT ![s][m] = c]
      BY <1>9 DEF RemoveConn
    <2> HIDE DEF m
    <2>5. c.told = conn[s][m].told
      BY <1>1, <2>3 DEF Conn
    <2> HIDE DEF c
    <2>6. m = n /\ c.told
      BY <2>4, OneUntold
    <2> QED
      BY <2>5, <2>6
  <1> QED
    BY <1>3, <1>4, <1>5, <1>6, <1>7, <1>8, <1>9 DEF Steps, Makes, NextTick

(* A step of s: what it awaits afterwards it awaited before.               *)
LEMMA AwaitedBefore ==
    ASSUME TypeOK, RemovalInv, StreamInv, NEW s \in End, Steps(s),
           NEW n \in Made(Peer(s)), NEW st, st = conn[Peer(s)][n].stream, Awaits(s, st)'
    PROVE  Awaits(s, st)
  <1> DEFINE p == Peer(s)
  <1>1. p \in End /\ p # s /\ Peer(p) = s
    BY Ends
  <1>2. ASSUME NEW m \in Num, conn'[s][m].live, conn'[s][m].stream = st, ~conn'[s][m].closing
        PROVE  Awaits(s, st)
    <2>1. CASE conn'[s][m] = conn[s][m]
      BY <1>2, <2>1 DEF Awaits
    <2>2. CASE ~Makes(s)
      <3>1. Later(Uses[s], conn[s][m], conn'[s][m])
        BY <2>2, StepLatest DEF Latest
      <3>2. conn[s][m].live /\ conn[s][m].stream = st /\ ~conn[s][m].closing
        BY <1>2, <3>1 DEF Later
      <3> QED
        BY <3>2 DEF Awaits
    <2>3. CASE Makes(s)
      <3>1. PICK c : /\ New(s, made[s] + 1, c)
                     /\ CreateConn(s) => c.stream = <<s, made[s] + 1>>
                     /\ RecvConnectNew(s) => c.stream = Head(chan[s]).stream
        BY <2>3, MakesFresh
      <3> DEFINE k == made[s] + 1
      <3>2. conn' = [conn EXCEPT ![s][k] = c]
        BY <3>1 DEF New
      <3>3. k \notin Made(s)
        BY <3>1, NewFacts
      <3>4. CreateConn(s) => c.stream = <<s, k>>
        BY <3>1
      <3> HIDE DEF k
      <3>5. CASE m # k
        <4>1. conn'[s][m] = conn[s][m]
          BY <3>2, <3>5 DEF TypeOK
        <4> QED
          BY <2>1, <4>1
      <3>6. CASE m = k
        <4>1. conn'[s][m] = c
          BY <3>2, <3>6 DEF TypeOK
        <4>2. c.stream = st
          BY <1>2, <4>1
        <4>3. ASSUME CreateConn(s) PROVE FALSE
          <5>1. conn[p][n].stream = <<s, k>> /\ n \in Made(p)
            BY <3>4, <4>2, <4>3
          <5>2. conn[p][n].stream[1] = Peer(p) /\ conn[p][n].stream[2] = k
            BY <1>1, <5>1
          <5>3. k \in Made(Peer(p))
            BY <1>1, <5>1, <5>2 DEF StreamInv, ConnStreams, Connected
          <5> QED
            BY <1>1, <3>3, <5>3
        <4>4. ASSUME RecvConnectNew(s) PROVE Awaits(s, st)
          <5>1. Arrives(s, "connect") /\ Connects(s, Head(chan[s]))
            BY <4>4 DEF RecvConnectNew
          <5>2. Head(chan[s]).stream[1] = p
            BY <5>1, ConnectIsNew
          <5>3. chan[s] # <<>> /\ Head(chan[s]).cmd = "connect"
            BY <5>1 DEF Arrives
          <5>4. 1 \in DOMAIN chan[s] /\ Head(chan[s]) = chan[s][1]
            BY <5>3, HeadAt
          <5>5. Head(chan[s]).stream = st
            BY <3>1, <4>2, <4>4
          <5> QED
            BY <5>2, <5>3, <5>4, <5>5 DEF Awaits, Opens
        <4> QED
          BY <2>3, <4>3, <4>4 DEF Makes
      <3> QED
        BY <3>5, <3>6
    <2> QED
      BY <2>2, <2>3
  <1>3. ASSUME NEW i \in DOMAIN chan'[s], chan'[s][i].cmd = "connect",
               chan'[s][i].stream[1] = p, chan'[s][i].stream = st
        PROVE  Awaits(s, st)
    <2>1. Dropped(s)
      BY StepChannels
    <2>2. PICK d \in {0, 1} : \A j \in DOMAIN chan'[s] :
                                 j + d \in DOMAIN chan[s] /\ chan'[s][j] = chan[s][j + d]
      BY <2>1, DroppedAt
    <2>3. i + d \in DOMAIN chan[s] /\ chan'[s][i] = chan[s][i + d]
      BY <2>2
    <2> QED
      BY <1>3, <2>3 DEF Awaits, Opens
  <1>4. \/ \E m \in Num : conn'[s][m].live /\ conn'[s][m].stream = st /\ ~conn'[s][m].closing
        \/ \E i \in DOMAIN chan'[s] : /\ chan'[s][i].cmd = "connect"
                                      /\ chan'[s][i].stream[1] = p /\ chan'[s][i].stream = st
    BY DEF Awaits, Opens
  <1> QED
    BY <1>2, <1>3, <1>4

(* ... and reads no CLS before it closes what the CLS is for.              *)
LEMMA ClsKept ==
    ASSUME TypeOK, RemovalInv, StreamInv, IdsInv, NEW s \in End, Steps(s),
           NEW st, Awaits(s, st)', ClsOnTheWay(s, st)
    PROVE  ClsOnTheWay(s, st)'
  <1>1. PICK j \in DOMAIN chan[s] : chan[s][j].cmd = "cls" /\ chan[s][j].stream = st
    BY DEF ClsOnTheWay
  <1>2. Dropped(s)
    BY StepChannels
  <1>3. /\ Len(chan[s]) \in Nat /\ DOMAIN chan[s] = 1..Len(chan[s])
        /\ DOMAIN chan'[s] = 1..Len(chan'[s])
    BY <1>2, DroppedAt
  <1>4. PICK d \in {0, 1} :
                /\ d = 1 => chan[s] # <<>> /\ chan'[s] = Tail(chan[s])
                            /\ Head(chan[s]) = chan[s][1] /\ 1 \in DOMAIN chan[s]
                /\ \A i \in DOMAIN chan'[s] : /\ i + d \in DOMAIN chan[s]
                                              /\ chan'[s][i] = chan[s][i + d]
                /\ \A i \in DOMAIN chan[s] : i > d => /\ i - d \in DOMAIN chan'[s]
                                                      /\ chan'[s][i - d] = chan[s][i]
    BY <1>2, DroppedAt
  <1>5. CASE j > d
    <2>1. j - d \in DOMAIN chan'[s] /\ chan'[s][j - d] = chan[s][j]
      BY <1>4, <1>5
    <2>2. \E i \in DOMAIN chan'[s] : chan'[s][i].cmd = "cls" /\ chan'[s][i].stream = st
      BY <1>1, <2>1
    <2> QED
      BY <2>2 DEF ClsOnTheWay
  <1>6. ASSUME ~(j > d) PROVE FALSE
    <2>1. d = 1 /\ j = 1
      BY <1>3, <1>6, SMT
    <2> DEFINE f == Head(chan[s])
    <2>2. /\ chan[s] # <<>> /\ chan'[s] = Tail(chan[s]) /\ f = chan[s][1] /\ 1 \in DOMAIN chan[s]
          /\ f.cmd = "cls" /\ f.stream = st
      BY <1>1, <1>4, <2>1
    <2>3. chan'[s] # chan[s]
      <3>1. chan[s] \in Seq(Frame \cup SessFrame)
        BY DEF TypeOK
      <3> QED
        BY <2>2, <3>1, TailDiffers
    <2>4. RecvCls(s) \/ WithId(s, f.id) = {}
      BY <2>2, <2>3, ClsRead
    <2>5. \A m \in Made(s) : conn[s][m].id = f.id <=> conn[s][m].stream = st
      <3>1. f.cmd \in Frames
        BY <2>2 DEF Frames
      <3> QED
        BY <2>2, <3>1, HeadNames DEF StreamInv
    <2>6. ~Makes(s)
      BY <2>2, <2>3 DEF Makes, CreateConn, RecvConnectNew, Arrives
    <2> HIDE DEF f
    <2>7. ASSUME NEW i \in DOMAIN chan'[s], chan'[s][i].cmd = "connect", chan'[s][i].stream = st
          PROVE  FALSE
      <3>1. i + 1 \in DOMAIN chan[s] /\ chan'[s][i] = chan[s][i + 1]
        BY <1>4, <2>1
      <3>2. 1 < i + 1
        BY <1>3, SMT
      <3>3. Data(chan[s][i + 1]) /\ chan[s][1].cmd \in {"fin", "cls"}
        BY <2>2, <2>7, <3>1 DEF Data
      <3> DEFINE k == i + 1
      <3> HIDE DEF k
      <3>4. k \in DOMAIN chan[s] /\ 1 < k /\ Data(chan[s][k]) /\ chan[s][k].stream = st
        BY <2>7, <3>1, <3>2, <3>3 DEF k
      <3>5. chan[s][1].stream # chan[s][k].stream
        BY <2>2, <3>3, <3>4 DEF StreamInv, FrameStreams, QuietAfterStop
      <3> QED
        BY <2>2, <3>4, <3>5
    <2>8. ASSUME NEW m \in Num, conn'[s][m].live, conn'[s][m].stream = st, ~conn'[s][m].closing
          PROVE  FALSE
      <3>1. Later(Uses[s], conn[s][m], conn'[s][m])
        BY <2>6, StepLatest DEF Latest
      <3>2. conn[s][m].live /\ conn[s][m].stream = st /\ ~conn[s][m].closing
        BY <2>8, <3>1 DEF Later
      <3>3. m \in Made(s)
        BY <3>2, ListedIsMade
      <3>4. m \in WithId(s, f.id)
        BY <2>5, <3>2, <3>3 DEF WithId, Listed
      <3> DEFINE n == FirstWithId(s, f.id)
      <3>5. /\ RecvCls(s) /\ n \in WithId(s, f.id)
            /\ conn[s][n].closing \/ conn' = [conn EXCEPT ![s][n] = ConnClosed(conn[s][n])]
        BY <2>4, <3>4, FirstFound DEF RecvCls, f
      <3> HIDE DEF n
      <3>6. n \in Num /\ conn[s][n].live /\ conn[s][n].id = f.id
        BY <3>5 DEF WithId, Listed
      <3>7. n \in Made(s)
        BY <3>6, ListedIsMade
      <3>8. m = n
        BY <2>5, <3>2, <3>3, <3>6, <3>7 DEF StreamInv, ConnStreams, OneCarrier
      <3>9. conn'[s][n] = ConnClosed(conn[s][n]) /\ conn[s][n] \in Conn
        BY <3>2, <3>5, <3>6, <3>8 DEF TypeOK
      <3>10. ConnClosed(conn[s][n]).closing
        BY <3>9 DEF ConnClosed, Conn
      <3> QED
        BY <2>8, <3>8, <3>9, <3>10
    <2> QED
      BY <2>7, <2>8 DEF Awaits, Opens
  <1> QED
    BY <1>5, <1>6

LEMMA MakesUntold ==
    ASSUME TypeOK, NEW s \in End, Makes(s)
    PROVE  \E c : New(s, made[s] + 1, c) /\ ~c.told
  <1>1. CASE CreateConn(s)
    <2> DEFINE c == NewConn(NextId(s), <<s, made[s] + 1>>)
    <2>1. New(s, made[s] + 1, c)
      BY <1>1 DEF CreateConn, New
    <2>2. ~c.told
      BY DEF NewConn
    <2> HIDE DEF c
    <2> QED
      BY <2>1, <2>2
  <1>2. CASE RecvConnectNew(s)
    <2> DEFINE f == Head(chan[s])
               c == [NewConn(f.id, f.stream) EXCEPT !.recv = "ready", !.rcvd = f.k]
    <2>1. New(s, made[s] + 1, c)
      BY <1>2 DEF RecvConnectNew, New
    <2>2. ~c.told
      BY DEF NewConn
    <2> HIDE DEF c
    <2> QED
      BY <2>1, <2>2
  <1> QED
    BY <1>1, <1>2 DEF Makes

(* A step of s: the CLS of a conn of s that told its peer is on its way.   *)
LEMMA ToldSent ==
    ASSUME TypeOK, RemovalInv, StreamInv, ToldArrives, NEW s \in End, Steps(s), ~stale'[s],
           link[Peer(s)] \in {"created", "ready"}, NEW n \in Made(s)', conn'[s][n].told,
           NEW st, st = conn'[s][n].stream, Awaits(Peer(s), st)'
    PROVE  ClsOnTheWay(Peer(s), st)'
  <1> DEFINE p == Peer(s)
  <1>1. p \in End /\ p # s /\ Peer(p) = s
    BY Ends
  <1>2. n \in Num
    BY DEF Made
  <1>3. n \in Made(s)
    <2>1. CASE ~Makes(s)
      <3>1. made' = made
        BY <2>1, StepLatest DEF Latest
      <3> QED
        BY <3>1 DEF Made
    <2>2. CASE Makes(s)
      <3>1. PICK c : New(s, made[s] + 1, c) /\ ~c.told
        BY <2>2, MakesUntold
      <3>2. n \in Made(s) \/ n = made[s] + 1
        BY <3>1, NewFacts
      <3>3. n = made[s] + 1 => conn'[s][n] = c
        BY <1>2, <3>1 DEF New, TypeOK
      <3> QED
        BY <3>1, <3>2, <3>3
    <2> QED
      BY <2>1, <2>2
  <1>4. conn[s][n].stream = st
    BY <1>3, StepNames DEF NamesKept, SameNames
  <1>5. ~stale[s]
    BY StaleStays
  <1>6. conn'[p] = conn[p]
    BY <1>1, StepLocal DEF Untouched
  <1>7. PICK r : Appended(s, r)
    BY StepChannels
  <1>8. /\ \A i \in DOMAIN chan[p] : i \in DOMAIN chan'[p] /\ chan'[p][i] = chan[p][i]
        /\ \A i \in DOMAIN chan'[p] : \/ i \in DOMAIN chan[p] /\ chan'[p][i] = chan[p][i]
                                      \/ chan'[p][i] \in Posted(s)
    BY <1>7, AppendedAt
  <1>9. CASE conn[s][n].told
    <2>1. ASSUME NEW i \in DOMAIN chan'[p], Opens(p, chan'[p][i]), chan'[p][i].stream = st
          PROVE  i \in DOMAIN chan[p] /\ chan'[p][i] = chan[p][i]
      <3> DEFINE f == chan'[p][i]
      <3>1. ASSUME f \in Posted(s) PROVE FALSE
        <4>1. Data(f) /\ f.stream = st
          BY <2>1 DEF Data, Opens
        <4> HIDE DEF f
        <4>2. PICK m \in Num : ConnSend(s, m) /\ conn[s][m].live /\ f.stream = conn[s][m].stream
          BY <3>1, <4>1, PostedData
        <4>3. m \in Made(s)
          BY <4>2, ListedIsMade
        <4>4. m = n
          BY <1>3, <1>4, <4>1, <4>2, <4>3 DEF StreamInv, ConnStreams, OneCarrier
        <4> QED
          BY <1>9, <4>2, <4>4 DEF ConnSend
      <3> QED
        BY <1>8, <3>1
    <2>2. \/ \E m \in Num : conn[p][m].live /\ conn[p][m].stream = st /\ ~conn[p][m].closing
          \/ \E i \in DOMAIN chan'[p] : Opens(p, chan'[p][i]) /\ chan'[p][i].stream = st
      <3>1. \/ \E m \in Num : conn'[p][m].live /\ conn'[p][m].stream = st /\ ~conn'[p][m].closing
            \/ \E i \in DOMAIN chan'[p] : Opens(p, chan'[p][i]) /\ chan'[p][i].stream = st
        BY DEF Awaits, Opens
      <3> QED
        BY <1>6, <3>1
    <2>3. Awaits(p, st)
      BY <2>1, <2>2 DEF Awaits
    <2>4. ClsOnTheWay(p, st)
      BY <1>3, <1>4, <1>5, <1>9, <2>3 DEF ToldArrives
    <2>5. PICK i \in DOMAIN chan[p] : chan[p][i].cmd = "cls" /\ chan[p][i].stream = st
      BY <2>4 DEF ClsOnTheWay
    <2>6. i \in DOMAIN chan'[p] /\ chan'[p][i].cmd = "cls" /\ chan'[p][i].stream = st
      BY <1>8, <2>5
    <2> QED
      BY <2>6 DEF ClsOnTheWay
  <1>10. CASE ~conn[s][n].told
    <2>1. SessExists(s)
      BY <1>2, <1>10, ToldIsStale
    <2>2. Says(s, n)
      BY <1>2, <1>10, <2>1, ToldSays
    <2>3. \E i \in DOMAIN chan'[p] : chan'[p][i].cmd = "cls" /\ chan'[p][i].stream = st
      BY <1>4, <2>2 DEF Says
    <2> QED
      BY <2>3 DEF ClsOnTheWay
  <1> QED
    BY <1>9, <1>10

LEMMA ToldArrivesInit == Init => ToldArrives
  <1> SUFFICES ASSUME Init, NEW s \in End, NEW n \in Made(s), conn[s][n].told PROVE FALSE
    BY DEF ToldArrives
  <1>1. n \in Num
    BY DEF Made
  <1> QED
    BY <1>1 DEF Init, NoConn, NewConn

LEMMA ToldArrivesStep ==
    TypeOK /\ RemovalInv /\ StreamInv /\ IdsInv /\ ToldArrives /\ [Next]_vars => ToldArrives'
  <1> SUFFICES ASSUME TypeOK, RemovalInv, StreamInv, IdsInv, ToldArrives, [Next]_vars
               PROVE  ToldArrives'
    OBVIOUS
  <1>1. CASE UNCHANGED vars
    BY <1>1 DEF vars, ToldArrives, Awaits, Opens, ClsOnTheWay, Made
  <1>2. ASSUME NEW a \in End, Steps(a) PROVE ToldArrives'
    <2> SUFFICES ASSUME NEW s \in End, ~stale'[s], link'[Peer(s)] \in {"created", "ready"},
                        NEW n \in Made(s)', conn'[s][n].told,
                        NEW st, st = conn'[s][n].stream, Awaits(Peer(s), st)'
                 PROVE  ClsOnTheWay(Peer(s), st)'
      <3>1. ASSUME NEW s \in End, ~stale'[s], link'[Peer(s)] \in {"created", "ready"},
                   NEW n \in Made(s)', conn'[s][n].told, Awaits(Peer(s), conn[s][n].stream)'
            PROVE  ClsOnTheWay(Peer(s), conn[s][n].stream)'
        <4>1. PICK st : st = conn'[s][n].stream
          OBVIOUS
        <4>2. Awaits(Peer(s), st)'
          BY <3>1, <4>1 DEF Awaits, Opens
        <4>3. ClsOnTheWay(Peer(s), st)'
          BY <3>1, <4>1, <4>2
        <4> QED
          BY <4>1, <4>3 DEF ClsOnTheWay
      <3> QED
        BY <3>1 DEF ToldArrives
    <2> DEFINE p == Peer(s)
    <2>1. p \in End /\ p # s /\ Peer(p) = s /\ (a = s \/ a = p)
      BY Ends
    <2>2. CASE a = s
      <3>1. link'[p] = link[p]
        BY <1>2, <2>1, <2>2, StepLocal DEF Untouched
      <3> QED
        BY <1>2, <2>2, <3>1, ToldSent
    <2>3. CASE a = p
      <3>1. conn'[s] = conn[s] /\ made'[s] = made[s]
        BY <1>2, <2>1, <2>3, StepLocal DEF Untouched
      <3>2. n \in Made(s) /\ conn[s][n].told /\ conn[s][n].stream = st
        BY <3>1 DEF Made
      <3>3. ~stale[s]
        BY <1>2, <2>3, StaleStays
      <3>4. link[p] \in {"created", "ready"}
        BY <1>2, <2>3, LinkWasOpen
      <3> HIDE DEF p
      <3>5. Steps(p) /\ Awaits(p, st)' /\ n \in Made(Peer(p)) /\ st = conn[Peer(p)][n].stream
        BY <1>2, <2>1, <2>3, <3>2 DEF p
      <3>6. Awaits(p, st)
        BY <2>1, <3>5, AwaitedBefore
      <3>7. ClsOnTheWay(p, st)
        BY <3>2, <3>3, <3>4, <3>6 DEF ToldArrives, p
      <3>8. ClsOnTheWay(p, st)'
        BY <2>1, <3>5, <3>7, ClsKept
      <3> QED
        BY <3>8 DEF p
    <2> QED
      BY <2>1, <2>2, <2>3
  <1> QED
    BY <1>1, <1>2, NextIsSteps

LEMMA ToldIsEnough ==
    TypeOK /\ IdsInv /\ ToldArrives /\ NothingStale => ClosePropagates
  <1> SUFFICES ASSUME TypeOK, IdsInv, ToldArrives, NothingStale,
                      NEW s \in End, NEW n \in 1..made[s], conn[s][n].told,
                      link[Peer(s)] \in {"created", "ready"},
                      NEW m \in Carriers(Peer(s), conn[s][n].stream),
                      ~conn[Peer(s)][m].closing
               PROVE  ClsOnTheWay(Peer(s), conn[s][n].stream)
    BY DEF ClosePropagates
  <1>1. n \in Made(s)
    <2>1. made[s] \in Nat /\ made[s] <= Creates[A] + Creates[B]
      BY DEF TypeOK, IdsInv, Counted
    <2>2. Creates[A] \in Nat /\ Creates[B] \in Nat
      BY Ends, MuxBounds
    <2> DEFINE k == made[s]
               t == Creates[A] + Creates[B]
    <2>3. k \in Nat /\ k <= t /\ t \in Nat /\ n \in 1..k
      BY <2>1, <2>2
    <2> HIDE DEF k, t
    <2>4. n \in 1..t /\ n <= k
      BY <2>3, SMT
    <2> QED
      BY <2>4 DEF k, t, Made, Num
  <1>2. Awaits(Peer(s), conn[s][n].stream)
    <2>1. m \in Num /\ conn[Peer(s)][m].live /\ conn[Peer(s)][m].stream = conn[s][n].stream
      BY DEF Carriers, Listed
    <2> QED
      BY <2>1 DEF Awaits
  <1>3. ~stale[s]
    BY DEF NothingStale
  <1> QED
    BY <1>1, <1>2, <1>3 DEF ToldArrives

(* While ids do not wrap around, a conn that is closed after it sent is    *)
(* closed at the other side too, or its CLS is on the way there, as long   *)
(* as no call reached a deleted session: such a call is how a CLS is lost. *)
THEOREM CloseIsTold ==
    ASSUME IdsSuffice
    PROVE  Spec => [](NothingStale => ClosePropagates)
  <1> DEFINE Inv == RemovalInv /\ StreamInv /\ IdsInv /\ ToldArrives
  <1>1. Init => Inv
    BY RemovalInit, StreamInit, IdsInit, ToldArrivesInit
  <1>2. TypeOK /\ TypeOK' /\ Inv /\ [Next]_vars => Inv'
    BY RemovalStep, StreamStep, IdsStep, ToldArrivesStep
  <1>3. TypeOK /\ Inv => (NothingStale => ClosePropagates)
    BY ToldIsEnough
  <1> HIDE DEF Inv
  <1> QED
    BY <1>1, <1>2, <1>3, TypeCorrect, PTL DEF Spec

(* While no application closes its mux, the sessions stay.                 *)
SessionsStay ==
    \A s \in End :
        /\ link[s] \in {"created", "ready"} /\ mux[s] = "open" /\ ~waitFin[s] /\ ~stale[s]
        /\ ~HasEnd(ticks[s])
        /\ \A i \in DOMAIN chan[s] : chan[s][i].cmd \in Frames

LEMMA SessionsStayInit == Init => SessionsStay
  <1> SUFFICES ASSUME Init, NEW s \in End
               PROVE  /\ link[s] = "created" /\ mux[s] = "open" /\ ~waitFin[s] /\ ~stale[s]
                      /\ ~HasEnd(ticks[s]) /\ DOMAIN chan[s] = {}
    BY DEF SessionsStay
  <1>1. ticks[s] = <<>> /\ chan[s] = <<>>
    BY DEF Init
  <1>2. ~HasEnd(ticks[s])
    BY <1>1, NoTicks
  <1> QED
    BY <1>1, <1>2 DEF Init

(* The steps that are left, and what they do to the session and the mux.   *)
LEMMA OnlyConnSteps ==
    ASSUME Closers = {}, TypeOK, SessionsStay, NEW s \in End, Steps(s)
    PROVE  /\ ~MuxClose(s) /\ ~RecvSessFin(s) /\ ~RecvSessFinAck(s) /\ ~SessAcked(s)
           /\ ~RemoveSess(s) /\ ~RemoveMux(s) /\ ~WaitFinExpires(s)
  <1>1. link[s] \in {"created", "ready"} /\ ~waitFin[s]
    BY DEF SessionsStay
  <1>2. ~MuxClose(s) /\ ~SessAcked(s) /\ ~WaitFinExpires(s)
    BY <1>1 DEF MuxClose, SessAcked, WaitFinExpires
  <1>3. chan[s] # <<>> => Head(chan[s]).cmd \in Frames
    BY HeadAt DEF SessionsStay
  <1>4. ~RecvSessFin(s) /\ ~RecvSessFinAck(s)
    BY <1>3 DEF RecvSessFin, RecvSessFinAck, Arrives, Frames
  <1>5. ticks[s] \in Seq(Tick) /\ ~HasEnd(ticks[s])
    BY DEF TypeOK, SessionsStay
  <1>6. ticks[s] # <<>> => ~(Head(ticks[s]).what # "conn")
    BY <1>5, TicksTail
  <1>7. ~RemoveSess(s) /\ ~RemoveMux(s)
    BY <1>6 DEF RemoveSess, RemoveMux, Runs
  <1> QED
    BY <1>2, <1>4, <1>7

LEMMA SessionsStayStep ==
    ASSUME Closers = {}
    PROVE  TypeOK /\ RemovalInv /\ SessionsStay /\ [Next]_vars => SessionsStay'
  <1> SUFFICES ASSUME TypeOK, RemovalInv, SessionsStay, [Next]_vars PROVE SessionsStay'
    OBVIOUS
  <1>1. CASE UNCHANGED vars
    BY <1>1 DEF vars, SessionsStay
  <1>2. ASSUME NEW s \in End, Steps(s) PROVE SessionsStay'
    <2>1. /\ ~MuxClose(s) /\ ~RecvSessFin(s) /\ ~RecvSessFinAck(s) /\ ~SessAcked(s)
          /\ ~RemoveSess(s) /\ ~RemoveMux(s) /\ ~WaitFinExpires(s)
      BY <1>2, OnlyConnSteps
    <2>2. /\ link[s] \in {"created", "ready"} /\ mux[s] = "open" /\ ~waitFin[s] /\ ~stale[s]
          /\ ~HasEnd(ticks[s]) /\ ticks[s] \in Seq(Tick)
          /\ link \in [End -> Links] /\ stale \in [End -> BOOLEAN]
          /\ ticks \in [End -> Seq(Tick)] /\ waitFin \in [End -> BOOLEAN]
      BY DEF TypeOK, SessionsStay
    <2>3. SessExists(s)
      BY <2>2 DEF SessExists
    <2>4. Touch(s) => ~stale'[s]
      BY <2>2, <2>3 DEF Touch
    <2>5. \A n \in Num : Removal(n) \in Tick /\ Removal(n).what = "conn"
      BY DEF Removal, Tick
    <2>6. \A n \in Num : ~HasEnd(Append(ticks[s], Removal(n)))
      BY <2>2, <2>5, TicksAppend
    <2> DEFINE Stays == /\ link'[s] \in {"created", "ready"} /\ mux'[s] = "open"
                        /\ ~waitFin'[s] /\ ~stale'[s] /\ ~HasEnd(ticks'[s])
    <2>7. ASSUME NEW n \in Num, ConnClose(s, n) \/ TimesOut(s, n) PROVE Stays
      <3>1. UNCHANGED <<link, mux, waitFin>>
        BY <2>7 DEF ConnClose, TimesOut
      <3>2. ticks'[s] = Append(ticks[s], Removal(n)) /\ (Touch(s) \/ stale' = stale)
        BY <2>2, <2>7 DEF ConnClose, TimesOut, ConnCloses
      <3> QED
        BY <2>2, <2>4, <2>6, <3>1, <3>2
    <2>8. ASSUME RecvCls(s) PROVE Stays
      <3> DEFINE n == FirstWithId(s, Head(chan[s]).id)
      <3>1. /\ n \in Num /\ Read(s) /\ UNCHANGED <<mux, waitFin, stale>>
            /\ ticks' = ticks \/ ticks' = [ticks EXCEPT ![s] = Append(ticks[s], Removal(n))]
        BY <2>8, FirstFound DEF RecvCls
      <3> HIDE DEF n
      <3>2. ~HasEnd(ticks'[s])
        BY <2>2, <2>6, <3>1
      <3> QED
        BY <2>2, <3>1, <3>2 DEF Read
    <2>9. ASSUME \/ RecvConnectNew(s) \/ RecvInvalidConnect(s) \/ RecvFin(s)
                 \/ (\E cmd \in Frames : RecvUnknown(s, cmd))
                 \/ (\E cmd \in {"connect", "push"} : RecvData(s, cmd))
        PROVE  Stays
      <3>1. Read(s) /\ UNCHANGED <<mux, waitFin, stale, ticks>>
        BY <2>9 DEF RecvConnectNew, RecvInvalidConnect, RecvFin, RecvUnknown, RecvData, DataTo
      <3> QED
        BY <2>2, <3>1 DEF Read
    <2>10. ASSUME \E n \in Num : ConnSend(s, n) \/ SendStopSending(s, n) \/ SendClose(s, n)
           PROVE  Stays
      <3>1. Touch(s) /\ UNCHANGED <<mux, waitFin, link, ticks>>
        BY <2>10 DEF ConnSend, SendStopSending, SendClose
      <3> QED
        BY <2>2, <2>4, <3>1
    <2>11. ASSUME CreateConn(s) PROVE Stays
      <3>1. UNCHANGED <<mux, waitFin, link, ticks>>
        BY <2>11 DEF CreateConn
      <3>2. ~stale'[s]
        BY <2>2, <2>3, <2>11 DEF CreateConn
      <3> QED
        BY <2>2, <3>1, <3>2
    <2>12. ASSUME SessReady(s) PROVE Stays
      <3>1. UNCHANGED <<mux, waitFin, stale, ticks>> /\ link'[s] = "ready"
        BY <2>2, <2>12 DEF SessReady
      <3> QED
        BY <2>2, <3>1
    <2>13. ASSUME RemoveConn(s) PROVE Stays
      <3>1. /\ ticks[s] # <<>> /\ ticks'[s] = Tail(ticks[s]) /\ UNCHANGED <<mux, waitFin, link>>
            /\ stale' = [stale EXCEPT ![s] = stale[s] \/ mux[s] = "freed"]
        BY <2>2, <2>13 DEF RemoveConn, Runs
      <3>2. ~HasEnd(ticks'[s])
        BY <2>2, <3>1, TicksTail
      <3> QED
        BY <2>2, <3>1, <3>2
    <2>14. Stays
      BY <1>2, <2>1, <2>7, <2>8, <2>9, <2>10, <2>11, <2>12, <2>13 DEF Steps, NextTick
    <2> HIDE DEF Stays
    <2>15. ASSUME NEW i \in DOMAIN chan'[s] PROVE chan'[s][i].cmd \in Frames
      <3>1. PICK d \in {0, 1} : \A j \in DOMAIN chan'[s] :
                                   j + d \in DOMAIN chan[s] /\ chan'[s][j] = chan[s][j + d]
        BY <1>2, StepChannels, DroppedAt
      <3> QED
        BY <3>1 DEF SessionsStay
    <2> SUFFICES ASSUME NEW t \in End, t # s
                 PROVE  /\ link'[t] \in {"created", "ready"} /\ mux'[t] = "open"
                        /\ ~waitFin'[t] /\ ~stale'[t] /\ ~HasEnd(ticks'[t])
                        /\ \A i \in DOMAIN chan'[t] : chan'[t][i].cmd \in Frames
      BY <2>14, <2>15 DEF SessionsStay, Stays
    <2>16. t = Peer(s)
      BY Ends
    <2>17. Untouched(t) /\ link[t] \in {"created", "ready"} /\ mux[t] = "open"
           /\ ~waitFin[t] /\ ~stale[t] /\ ~HasEnd(ticks[t])
      BY <1>2, StepLocal DEF SessionsStay
    <2>18. stale'[t] = stale[t]
      <3>1. \E b : stale' = stale \/ stale' = [stale EXCEPT ![s] = b]
        BY <1>2, <2>1 DEF Steps, NextTick, CreateConn, ConnSend, SendStopSending, SendClose,
           ConnClose, TimesOut, ConnCloses, Touch, RecvConnectNew, RecvInvalidConnect,
           RecvUnknown, RecvData, DataTo, RecvFin, RecvCls, SessReady, RemoveConn
      <3> QED
        BY <2>2, <3>1
    <2>19. ASSUME NEW i \in DOMAIN chan'[t] PROVE chan'[t][i].cmd \in Frames
      <3>1. PICK r : Appended(s, r)
        BY <1>2, StepChannels
      <3>2. \/ i \in DOMAIN chan[t] /\ chan'[t][i] = chan[t][i]
            \/ chan'[t][i] \in Posted(s)
        BY <2>16, <3>1, AppendedAt
      <3> QED
        BY <2>1, <3>2 DEF SessionsStay, Posted
    <2> QED
      BY <2>17, <2>18, <2>19 DEF Untouched
  <1> QED
    BY <1>1, <1>2, NextIsSteps

(* While no application closes its mux the sessions stay, so no call is    *)
(* stale and no close is lost, whatever conns are opened, half-closed and  *)
(* closed by either end.  Once a mux is closed a call may be stale: that a *)
(* conn outlives its mux is what the run MuxOrphans shows.                 *)
THEOREM ClosePropagatesWhileOpen ==
    ASSUME IdsSuffice, Closers = {}
    PROVE  Spec => [](ClosePropagates /\ NothingStale)
  <1> DEFINE Inv == RemovalInv /\ SessionsStay
  <1>1. Init => Inv
    BY RemovalInit, SessionsStayInit
  <1>2. TypeOK /\ TypeOK' /\ Inv /\ [Next]_vars => Inv'
    BY RemovalStep, SessionsStayStep
  <1>3. Inv => NothingStale
    BY DEF SessionsStay, NothingStale
  <1>4. Spec => [](NothingStale => ClosePropagates)
    BY CloseIsTold
  <1> HIDE DEF Inv
  <1> QED
    BY <1>1, <1>2, <1>3, <1>4, TypeCorrect, PTL DEF Spec

=============================================================================
