----------------------------- MODULE KcpProofs -----------------------------
(***************************************************************************)
(* What is proved of the arithmetic of modules Serial and Clock, for every *)
(* time, and of module Kcp, for every size of the windows, every modulus   *)
(* of the sequence numbers, every number of messages, and whatever the     *)
(* network loses, duplicates and reorders.                                 *)
(***************************************************************************)
EXTENDS Kcp, Clock, SequenceTheorems, FiniteSetTheorems, WellFoundedInduction, TLAPS

----------------------------------------------------------------------------
(* Times, and the decisions taken from them: t0 and t1 are the values of   *)
(* iclock64(), which iclock() takes modulo 2^32.                           *)
LEMMA Modulus ==
    ASSUME NEW a \in Int
    PROVE  /\ a % Wrap \in Nat /\ a % Wrap < Wrap
           /\ a = Wrap * (a \div Wrap) + (a % Wrap)
  BY WrapAssumption, SMT

LEMMA SmallModulus ==
    ASSUME NEW a \in Nat, a < Wrap
    PROVE  a % Wrap = a
  BY WrapAssumption, SMT

LEMMA OneRemainder ==
    ASSUME NEW k \in Int, NEW r1 \in Nat, NEW r2 \in Nat,
           r1 < Wrap, r2 < Wrap, Wrap * k + r1 = r2
    PROVE  r1 = r2
  <1>1. CASE k >= 1
    <2>1. Wrap * k >= Wrap
      BY <1>1, WrapAssumption, SMT
    <2> QED
      BY <2>1, WrapAssumption, SMT
  <1>2. CASE k <= -1
    <2>1. Wrap * k <= -Wrap
      BY <1>2, WrapAssumption, SMT
    <2> QED
      BY <2>1, WrapAssumption, SMT
  <1>3. CASE k = 0
    BY <1>3, WrapAssumption, SMT
  <1> QED
    BY <1>1, <1>2, <1>3, SMT

(* A whole number of turns makes no difference. *)
LEMMA Turns ==
    ASSUME NEW a \in Int, NEW q \in Int
    PROVE  (Wrap * q + a) % Wrap = a % Wrap
  <1>1. PICK b \in Int : b = Wrap * q + a
    BY WrapAssumption, SMT
  <1>2. PICK p0 \in Int, p1 \in Int : p0 = a \div Wrap /\ p1 = b \div Wrap
    BY WrapAssumption, <1>1, SMT
  <1>3. a = Wrap * p0 + (a % Wrap) /\ b = Wrap * p1 + (b % Wrap)
    BY Modulus, <1>1, <1>2
  <1>4. PICK r0 \in Nat, r1 \in Nat :
           r0 = a % Wrap /\ r1 = b % Wrap /\ r0 < Wrap /\ r1 < Wrap
    BY Modulus, <1>1
  <1>5. PICK k \in Int : k = p1 - q - p0
    OBVIOUS
  <1>6. Wrap * k = Wrap * p1 - Wrap * q - Wrap * p0
    BY <1>5, WrapAssumption, SMT
  <1>7. Wrap * k + r1 = r0
    <2>1. a = Wrap * p0 + r0 /\ b = Wrap * p1 + r1
      BY <1>3, <1>4
    <2>2. PICK x \in Int, y \in Int, z \in Int :
             x = Wrap * p1 /\ y = Wrap * q /\ z = Wrap * p0
      BY WrapAssumption, SMT
    <2> QED
      BY <1>1, <1>6, <2>1, <2>2, WrapAssumption, SMT
  <1>8. r1 = r0
    BY <1>4, <1>7, OneRemainder
  <1> QED
    BY <1>1, <1>4, <1>8

LEMMA ClockDifference ==
    ASSUME NEW t0 \in Int, NEW t1 \in Int
    PROVE  (iclock(t1) - iclock(t0)) % Wrap = (t1 - t0) % Wrap
  <1>1. PICK q0 \in Int, q1 \in Int :
           t0 = Wrap * q0 + iclock(t0) /\ t1 = Wrap * q1 + iclock(t1)
    <2>1. t0 \div Wrap \in Int /\ t1 \div Wrap \in Int
      BY WrapAssumption, SMT
    <2> QED
      BY <2>1, Modulus DEF iclock
  <1>2. iclock(t0) \in Int /\ iclock(t1) \in Int
    BY Modulus, SMT DEF iclock
  <1>3. PICK q \in Int : q = q1 - q0
    OBVIOUS
  <1>4. t1 - t0 = Wrap * q + (iclock(t1) - iclock(t0))
    BY <1>1, <1>2, <1>3, WrapAssumption, SMT
  <1>5. (Wrap * q + (iclock(t1) - iclock(t0))) % Wrap = (iclock(t1) - iclock(t0)) % Wrap
    BY <1>2, Turns
  <1> QED
    BY <1>4, <1>5

LEMMA ClockType ==
    ASSUME NEW t \in Int
    PROVE  iclock(t) \in Nat /\ iclock(t) < Wrap
  BY Modulus DEF iclock

LEMMA ClockPlus ==
    ASSUME NEW t \in Int, NEW n \in Int
    PROVE  Plus(iclock(t), n) = iclock(t + n)
  <1>1. PICK q \in Int, r \in Int : q = t \div Wrap /\ r = iclock(t)
    BY ClockType, WrapAssumption, SMT
  <1>2. t = Wrap * q + r
    BY <1>1, Modulus DEF iclock
  <1>3. t + n = Wrap * q + (r + n)
    BY <1>2, WrapAssumption, SMT
  <1>4. (Wrap * q + (r + n)) % Wrap = (r + n) % Wrap
    BY Turns
  <1> QED
    BY <1>1, <1>3, <1>4 DEF Plus, iclock

(* _itimediff of two clock values is the time between them, also when the  *)
(* clock wrapped around in between, up to 2^31 milliseconds either way.    *)
THEOREM DiffExact ==
    ASSUME NEW t0 \in Int, NEW t1 \in Int,
           2 * (t1 - t0) < Wrap, 2 * (t1 - t0) >= -Wrap
    PROVE  Diff(iclock(t1), iclock(t0)) = t1 - t0
  <1>1. PICK e \in Int : e = t1 - t0
    OBVIOUS
  <1>2. (iclock(t1) - iclock(t0)) % Wrap = e % Wrap
    BY <1>1, ClockDifference
  <1>3. CASE e >= 0
    <2>1. e % Wrap = e
      BY <1>1, <1>3, SmallModulus, WrapAssumption, SMT
    <2> QED
      BY <1>1, <1>2, <2>1, WrapAssumption, SMT DEF Diff
  <1>4. CASE e < 0
    <2>1. e + Wrap \in Nat /\ e + Wrap < Wrap
      BY <1>1, <1>4, WrapAssumption, SMT
    <2>2. (e + Wrap) % Wrap = e + Wrap
      BY <2>1, SmallModulus
    <2>3. (Wrap * 1 + e) % Wrap = e % Wrap
      BY Turns
    <2>4. Wrap * 1 + e = e + Wrap
      BY WrapAssumption, SMT
    <2>5. e % Wrap = e + Wrap
      BY <2>2, <2>3, <2>4
    <2> QED
      BY <1>1, <1>2, <1>4, <2>5, WrapAssumption, SMT DEF Diff
  <1> QED
    BY <1>3, <1>4, SMT

----------------------------------------------------------------------------
(* The idle timeout measures exactly, also across the wrap of the clock.   *)
THEOREM IdleTimeoutExact ==
    ASSUME NEW t0 \in Nat, NEW t1 \in Nat, NEW timeout \in Nat,
           t0 <= t1, t1 - t0 < Wrap
    PROVE  IdleTimeout(iclock(t1), iclock(t0), timeout)
             <=> timeout # 0 /\ t1 - t0 >= timeout
  <1>1. (iclock(t1) - iclock(t0)) % Wrap = (t1 - t0) % Wrap
    BY ClockDifference
  <1>2. (t1 - t0) % Wrap = t1 - t0
    BY SmallModulus, WrapAssumption, SMT
  <1> QED
    BY <1>1, <1>2 DEF IdleTimeout

(* But when the time of day is set back, by a millisecond or more, it      *)
(* takes the session for idle at once: the difference is just under 2^32.  *)
THEOREM IdleTimeoutSetBack ==
    ASSUME NEW t0 \in Nat, NEW t1 \in Nat, NEW timeout \in Nat \ {0},
           t1 < t0, t0 - t1 + timeout <= Wrap
    PROVE  IdleTimeout(iclock(t1), iclock(t0), timeout)
  <1>1. PICK e \in Int : e = t1 - t0
    OBVIOUS
  <1>2. e + Wrap \in Nat /\ e + Wrap < Wrap /\ e + Wrap >= timeout
    BY <1>1, WrapAssumption, SMT
  <1>3. (e + Wrap) % Wrap = e + Wrap
    BY <1>2, SmallModulus
  <1>4. (Wrap * 1 + e) % Wrap = e % Wrap
    BY Turns
  <1>5. Wrap * 1 + e = e + Wrap
    BY WrapAssumption, SMT
  <1>6. (iclock(t1) - iclock(t0)) % Wrap = e + Wrap
    BY <1>1, <1>3, <1>4, <1>5, ClockDifference
  <1>7. timeout # 0
    OBVIOUS
  <1> QED
    BY <1>2, <1>6, <1>7 DEF IdleTimeout

(* While sendTs is not within ten seconds of the wrap, a heartbeat is due  *)
(* exactly ten seconds after the last datagram, until the clock wraps.     *)
THEOREM HeartbeatExact ==
    ASSUME NEW t0 \in Nat, NEW t1 \in Nat,
           t0 \div Wrap = t1 \div Wrap,
           iclock(t0) + HEARTBEAT_INTERVAL < Wrap
    PROVE  HeartbeatDue(iclock(t1), iclock(t0)) <=> t1 - t0 >= HEARTBEAT_INTERVAL
  <1>1. PICK n0 \in Nat, n1 \in Nat : n0 = iclock(t0) /\ n1 = iclock(t1)
    BY ClockType
  <1>2. PICK q \in Int : q = Wrap * (t0 \div Wrap)
    BY WrapAssumption, SMT
  <1>3. t0 = q + n0 /\ t1 = q + n1
    BY <1>1, <1>2, Modulus DEF iclock
  <1>4. Plus(n0, HEARTBEAT_INTERVAL) = n0 + HEARTBEAT_INTERVAL
    <2>1. n0 + HEARTBEAT_INTERVAL \in Nat /\ n0 + HEARTBEAT_INTERVAL < Wrap
      BY <1>1, SMT DEF HEARTBEAT_INTERVAL
    <2> QED
      BY <2>1, SmallModulus DEF Plus
  <1> QED
    BY <1>1, <1>3, <1>4, SMT DEF HeartbeatDue, HEARTBEAT_INTERVAL

(* In the last ten seconds before the wrap the sum wraps around: until the *)
(* clock does, every update finds a heartbeat due.                         *)
THEOREM HeartbeatsFlood ==
    ASSUME NEW n0 \in Nat, NEW n1 \in Nat, n0 < Wrap, n0 <= n1,
           n0 + HEARTBEAT_INTERVAL >= Wrap, HEARTBEAT_INTERVAL <= Wrap
    PROVE  HeartbeatDue(n1, n0)
  <1>1. PICK h \in Nat : h = n0 + HEARTBEAT_INTERVAL - Wrap
    BY WrapAssumption, SMT DEF HEARTBEAT_INTERVAL
  <1>2. h < Wrap /\ h <= n0
    BY <1>1, WrapAssumption, SMT DEF HEARTBEAT_INTERVAL
  <1>3. n0 + HEARTBEAT_INTERVAL = Wrap * 1 + h
    BY <1>1, WrapAssumption, SMT DEF HEARTBEAT_INTERVAL
  <1>4. (Wrap * 1 + h) % Wrap = h % Wrap
    BY Turns
  <1>5. h % Wrap = h
    BY <1>2, SmallModulus
  <1>6. Plus(n0, HEARTBEAT_INTERVAL) = h
    BY <1>3, <1>4, <1>5 DEF Plus
  <1> QED
    BY <1>2, <1>6, SMT DEF HeartbeatDue

(* A heartbeat that was held back until the clock wrapped (by data that    *)
(* waited for its acknowledgement) is due again only a whole turn of the   *)
(* clock later: 49.7 days, however long the link has been silent by then.  *)
THEOREM HeartbeatLate ==
    ASSUME NEW t0 \in Nat, NEW t1 \in Nat,
           t1 \div Wrap = (t0 \div Wrap) + 1,
           iclock(t0) + HEARTBEAT_INTERVAL < Wrap
    PROVE  HeartbeatDue(iclock(t1), iclock(t0)) <=> t1 - t0 >= Wrap + HEARTBEAT_INTERVAL
  <1>1. PICK n0 \in Nat, n1 \in Nat : n0 = iclock(t0) /\ n1 = iclock(t1)
    BY ClockType
  <1>2. PICK d \in Int, q \in Int : d = t0 \div Wrap /\ q = Wrap * d
    BY WrapAssumption, SMT
  <1>3. t0 = q + n0
    BY <1>1, <1>2, Modulus DEF iclock
  <1>4. t1 = q + Wrap + n1
    <2>1. t1 = Wrap * (d + 1) + n1
      BY <1>1, <1>2, Modulus DEF iclock
    <2>2. Wrap * (d + 1) = q + Wrap
      BY <1>2, WrapAssumption, SMT
    <2> QED
      BY <2>1, <2>2
  <1>5. Plus(n0, HEARTBEAT_INTERVAL) = n0 + HEARTBEAT_INTERVAL
    <2>1. n0 + HEARTBEAT_INTERVAL \in Nat /\ n0 + HEARTBEAT_INTERVAL < Wrap
      BY <1>1, SMT DEF HEARTBEAT_INTERVAL
    <2> QED
      BY <2>1, SmallModulus DEF Plus
  <1> QED
    BY <1>1, <1>3, <1>4, <1>5, WrapAssumption, SMT DEF HeartbeatDue, HEARTBEAT_INTERVAL

(* A conn is never timed out early.                                        *)
THEOREM ConnNeverEarly ==
    ASSUME NEW t0 \in Nat, NEW t1 \in Nat, NEW timeout \in Nat, t0 <= t1,
           ConnTimeout(iclock(t1), iclock(t0), timeout)
    PROVE  t1 - t0 >= timeout
  <1>1. PICK n0 \in Nat, n1 \in Nat : n0 = iclock(t0) /\ n1 = iclock(t1)
    BY ClockType
  <1>2. PICK q0 \in Int, q1 \in Int : q0 = t0 \div Wrap /\ q1 = t1 \div Wrap
    BY WrapAssumption, SMT
  <1>3. t0 = Wrap * q0 + n0 /\ t1 = Wrap * q1 + n1
    BY <1>1, <1>2, Modulus DEF iclock
  <1>4. q0 <= q1
    <2>1. SUFFICES ASSUME q1 <= q0 - 1 PROVE FALSE
      BY <1>2, SMT
    <2>2. PICK k \in Nat : k = q0 - 1 - q1
      BY <2>1, SMT
    <2>3. Wrap * q0 = Wrap * q1 + Wrap * k + Wrap /\ Wrap * k >= 0
      BY <2>2, WrapAssumption, SMT
    <2>4. n1 < Wrap
      BY <1>1, ClockType
    <2>5. PICK x \in Int, y \in Nat, z \in Int :
             x = Wrap * q1 /\ y = Wrap * k /\ z = Wrap * q0
      BY WrapAssumption, SMT
    <2> QED
      BY <1>3, <2>3, <2>4, <2>5, WrapAssumption, SMT
  <1>5. PICK k \in Nat : k = q1 - q0
    BY <1>4, SMT
  <1>6. Wrap * q1 = Wrap * q0 + Wrap * k /\ Wrap * k >= 0
    BY <1>5, WrapAssumption, SMT
  <1>7. PICK x \in Int, y \in Nat, z \in Int :
           x = Wrap * q1 /\ y = Wrap * k /\ z = Wrap * q0
    BY WrapAssumption, SMT
  <1>8. n0 + timeout <= n1
    BY <1>1 DEF ConnTimeout
  <1> QED
    BY <1>3, <1>6, <1>7, <1>8, SMT

(* But one that was idle for less than its timeout when the clock wrapped  *)
(* is not timed out at all, until a message refreshes its ts.              *)
THEOREM ConnOutlivesWrap ==
    ASSUME NEW t0 \in Nat, NEW timeout \in Nat, iclock(t0) + timeout >= Wrap
    PROVE  \A t1 \in Nat : ~ConnTimeout(iclock(t1), iclock(t0), timeout)
  <1> SUFFICES ASSUME NEW t1 \in Nat
               PROVE  ~ConnTimeout(iclock(t1), iclock(t0), timeout)
    OBVIOUS
  <1>1. iclock(t1) \in Nat /\ iclock(t1) < Wrap /\ iclock(t0) \in Nat
    BY ClockType
  <1> QED
    BY <1>1, WrapAssumption, SMT DEF ConnTimeout

----------------------------------------------------------------------------
(* The schedule of ikcp_update.  Any ts_flush is the clock at some time u  *)
(* less than half a turn away.                                             *)
LEMMA FlushTime ==
    ASSUME NEW ts \in Nat, ts < Wrap, NEW t \in Int
    PROVE  \E u \in Int : /\ iclock(u) = ts
                          /\ 2 * (t - u) < Wrap /\ 2 * (t - u) >= -Wrap
  <1>1. PICK d \in Nat : d = (t - ts) % Wrap /\ d < Wrap
    BY Modulus, SMT
  <1>2. PICK q \in Int : t - ts = Wrap * q + d
    <2>1. t - ts = Wrap * ((t - ts) \div Wrap) + d
      BY <1>1, Modulus, SMT
    <2>2. (t - ts) \div Wrap \in Int
      BY WrapAssumption, SMT
    <2> QED
      BY <2>1, <2>2
  <1>3. PICK p \in Int : p = Wrap * q
    BY WrapAssumption, SMT
  <1>4. ts % Wrap = ts
    BY SmallModulus
  <1>5. iclock(t - d) = ts
    <2>1. t - d = Wrap * q + ts
      BY <1>2, <1>3, SMT
    <2>2. (Wrap * q + ts) % Wrap = ts % Wrap
      BY Turns
    <2> QED
      BY <1>4, <2>1, <2>2 DEF iclock
  <1>6. iclock(t - d + Wrap) = ts
    <2>1. PICK a \in Int : a = t - d
      OBVIOUS
    <2>2. (Wrap * 1 + a) % Wrap = a % Wrap
      BY Turns
    <2>3. Wrap * 1 + a = t - d + Wrap
      BY <2>1, WrapAssumption, SMT
    <2> QED
      BY <1>5, <2>1, <2>2, <2>3 DEF iclock
  <1>7. CASE 2 * d < Wrap
    <2>1. t - d \in Int /\ 2 * (t - (t - d)) < Wrap /\ 2 * (t - (t - d)) >= -Wrap
      BY <1>7, WrapAssumption, SMT
    <2> QED
      BY <1>5, <2>1
  <1>8. CASE ~(2 * d < Wrap)
    <2>1. PICK u \in Int : u = t - d + Wrap
      BY WrapAssumption, SMT
    <2>2. 2 * (t - u) < Wrap /\ 2 * (t - u) >= -Wrap
      BY <1>1, <1>8, <2>1, WrapAssumption, SMT
    <2> QED
      BY <1>6, <2>1, <2>2
  <1> QED
    BY <1>7, <1>8

(* Once the clock has reached ts_flush the session's loop calls            *)
(* ikcp_update (ikcp_check returns now, also at the wrap) and it flushes.  *)
THEOREM FlushesWhenDue ==
    ASSUME NEW u \in Int, NEW t \in Int, u <= t, 2 * (t - u) < Wrap,
           NEW interval, NEW resend
    PROVE  /\ Flushes(iclock(u), iclock(t))
           /\ Check(iclock(u), iclock(t), interval, resend) = iclock(t)
  <1>1. Diff(iclock(t), iclock(u)) = t - u
    BY DiffExact, WrapAssumption, SMT
  <1>2. Flushes(iclock(u), iclock(t))
    BY <1>1, SMT DEF Flushes
  <1> QED
    BY <1>2 DEF Check

(* After an update, whatever ts_flush was before and also when the time of *)
(* day jumped, the next flush is ahead: within one interval if this update *)
(* flushed, within ten seconds if it did not.                              *)
THEOREM NextFlushSoon ==
    ASSUME NEW ts \in Nat, ts < Wrap, NEW t \in Int,
           NEW interval \in Nat \ {0}, interval <= MaxSlap, 4 * MaxSlap < Wrap
    PROVE  \E u \in Int :
              /\ NextFlush(ts, iclock(t), interval) = iclock(u)
              /\ t < u
              /\ u <= t + MaxSlap
              /\ Flushes(ts, iclock(t)) => u <= t + interval
  <1> MaxSlap = 10000
    BY DEF MaxSlap
  <1>1. PICK v \in Int : iclock(v) = ts /\ 2 * (t - v) < Wrap /\ 2 * (t - v) >= -Wrap
    BY FlushTime
  <1>2. Diff(iclock(t), ts) = t - v
    BY <1>1, DiffExact, WrapAssumption, SMT
  <1>3. Plus(iclock(t), interval) = iclock(t + interval)
    BY ClockPlus
  <1>4. Plus(ts, interval) = iclock(v + interval)
    BY <1>1, ClockPlus
  <1>5. CASE Jumped(ts, iclock(t))
    <2>1. Flushes(ts, iclock(t))
      BY <1>5 DEF Flushes
    <2>2. NextFlush(ts, iclock(t), interval) = Plus(iclock(t), interval)
      BY <1>5, <2>1 DEF NextFlush
    <2>3. t + interval \in Int /\ t < t + interval /\ t + interval <= t + MaxSlap
      BY SMT
    <2> QED
      BY <1>3, <2>2, <2>3
  <1>6. CASE ~Jumped(ts, iclock(t))
    <2>1. t - v < 10000 /\ t - v >= -10000
      BY <1>2, <1>6, SMT DEF Jumped
    <2>2. CASE t < v
      <3>1. ~Flushes(ts, iclock(t))
        BY <1>2, <1>6, <2>2, SMT DEF Flushes
      <3>2. NextFlush(ts, iclock(t), interval) = iclock(v)
        BY <1>1, <3>1 DEF NextFlush
      <3>3. v <= t + MaxSlap
        BY <2>1, SMT
      <3> QED
        BY <2>2, <3>1, <3>2, <3>3
    <2>3. CASE ~(t < v)
      <3>1. Flushes(ts, iclock(t))
        BY <1>2, <2>3, SMT DEF Flushes
      <3>2. Diff(iclock(t), Plus(ts, interval)) = t - (v + interval)
        <4>1. v + interval \in Int /\ 2 * (t - (v + interval)) < Wrap
                /\ 2 * (t - (v + interval)) >= -Wrap
          BY <2>1, <2>3, WrapAssumption, SMT
        <4> QED
          BY <1>4, <4>1, DiffExact
      <3>3. CASE t >= v + interval
        <4>1. Diff(iclock(t), Plus(ts, interval)) >= 0
          BY <3>2, <3>3, SMT
        <4>2. NextFlush(ts, iclock(t), interval) = Plus(iclock(t), interval)
          BY <1>6, <3>1, <4>1 DEF NextFlush
        <4>3. t + interval \in Int /\ t < t + interval /\ t + interval <= t + MaxSlap
          BY SMT
        <4> QED
          BY <1>3, <4>2, <4>3
      <3>4. CASE ~(t >= v + interval)
        <4>1. ~(Diff(iclock(t), Plus(ts, interval)) >= 0)
          BY <3>2, <3>4, SMT
        <4>2. NextFlush(ts, iclock(t), interval) = Plus(ts, interval)
          BY <1>6, <3>1, <4>1 DEF NextFlush
        <4>3. /\ v + interval \in Int /\ t < v + interval
              /\ v + interval <= t + MaxSlap /\ v + interval <= t + interval
          BY <2>3, <3>4, SMT
        <4> QED
          BY <1>4, <4>2, <4>3
      <3> QED
        BY <3>3, <3>4
    <2> QED
      BY <2>2, <2>3
  <1> QED
    BY <1>5, <1>6

(* So updates that keep coming keep flushing: of two updates with ten      *)
(* seconds or more between them the second flushes, after a flush already  *)
(* one that comes an interval later.  Module Kcp takes its fairness from   *)
(* this: a conversation that is updated is flushed for ever.               *)
THEOREM FlushesAgain ==
    ASSUME NEW ts \in Nat, ts < Wrap, NEW t0 \in Int, NEW t1 \in Int,
           NEW interval \in Nat \ {0}, interval <= MaxSlap, 4 * MaxSlap < Wrap,
           t1 - t0 >= (IF Flushes(ts, iclock(t0)) THEN interval ELSE MaxSlap),
           2 * (t1 - t0) < Wrap
    PROVE  Flushes(NextFlush(ts, iclock(t0), interval), iclock(t1))
  <1>1. PICK u \in Int :
           /\ NextFlush(ts, iclock(t0), interval) = iclock(u)
           /\ t0 < u
           /\ u <= t0 + MaxSlap
           /\ Flushes(ts, iclock(t0)) => u <= t0 + interval
    BY NextFlushSoon
  <1>2. u <= t1
    <2>1. CASE Flushes(ts, iclock(t0))
      BY <1>1, <2>1, SMT
    <2>2. CASE ~Flushes(ts, iclock(t0))
      BY <1>1, <2>2, SMT DEF MaxSlap
    <2> QED
      BY <2>1, <2>2
  <1>3. 2 * (t1 - u) < Wrap
    BY <1>1, WrapAssumption, SMT
  <1> QED
    BY <1>1, <1>2, <1>3, FlushesWhenDue

----------------------------------------------------------------------------
(* Sequence numbers.  Those of one conversation are Plus(First, k): as long *)
(* as two of them are less than half a turn apart, Diff tells how far.     *)
LEMMA WrapNat == Wrap \in Nat \ {0}
  BY WrapAssumption

LEMMA PlusType ==
    ASSUME NEW a \in Int, NEW n \in Int
    PROVE  Plus(a, n) \in Sn
  <1>1. Plus(a, n) \in Nat /\ Plus(a, n) < Wrap
    BY Modulus DEF Plus
  <1> QED
    BY <1>1, WrapAssumption DEF Sn

LEMMA SnClock ==
    ASSUME NEW a \in Sn
    PROVE  a \in Int /\ iclock(a) = a
  <1>1. a \in Nat /\ a < Wrap
    BY WrapAssumption DEF Sn
  <1> QED
    BY <1>1, SmallModulus DEF iclock

LEMMA PlusClock ==
    ASSUME NEW a \in Sn, NEW n \in Int
    PROVE  Plus(a, n) = iclock(a + n)
  BY SnClock, ClockPlus

LEMMA PlusZero ==
    ASSUME NEW a \in Sn
    PROVE  Plus(a, 0) = a
  <1>1. a + 0 = a
    BY SnClock
  <1> QED
    BY <1>1, SnClock, PlusClock

LEMMA PlusPlus ==
    ASSUME NEW a \in Sn, NEW m \in Int, NEW n \in Int
    PROVE  Plus(Plus(a, m), n) = Plus(a, m + n)
  <1>1. a \in Int
    BY SnClock
  <1>2. Plus(Plus(a, m), n) = iclock((a + m) + n)
    BY <1>1, PlusClock, ClockPlus
  <1>3. (a + m) + n = a + (m + n)
    BY <1>1
  <1> QED
    BY <1>2, <1>3, PlusClock

LEMMA DiffPlus ==
    ASSUME NEW a \in Sn, NEW m \in Int, NEW n \in Int,
           2 * (m - n) < Wrap, 2 * (m - n) >= -Wrap
    PROVE  Diff(Plus(a, m), Plus(a, n)) = m - n
  <1>1. a \in Int /\ (a + m) - (a + n) = m - n
    BY SnClock
  <1>2. Diff(iclock(a + m), iclock(a + n)) = (a + m) - (a + n)
    BY <1>1, DiffExact
  <1> QED
    BY <1>1, <1>2, PlusClock

LEMMA DiffPlusZero ==
    ASSUME NEW a \in Sn, NEW m \in Int, 2 * m < Wrap, 2 * m >= -Wrap
    PROVE  Diff(Plus(a, m), a) = m /\ Diff(a, Plus(a, -m)) = m
  <1>1. Diff(Plus(a, m), Plus(a, 0)) = m
    BY DiffPlus
  <1>2. Diff(Plus(a, 0), Plus(a, -m)) = m
    BY DiffPlus
  <1> QED
    BY <1>1, <1>2, PlusZero

LEMMA DiffProperties ==
    ASSUME NEW a \in Sn, NEW b \in Sn
    PROVE  /\ Diff(b, a) \in Int
           /\ 2 * Diff(b, a) < Wrap /\ 2 * Diff(b, a) >= -Wrap
           /\ Plus(a, Diff(b, a)) = b
  <1>1. a \in Nat /\ a < Wrap /\ b \in Int
    BY WrapAssumption DEF Sn
  <1>2. PICK u \in Int : iclock(u) = a /\ 2 * (b - u) < Wrap /\ 2 * (b - u) >= -Wrap
    BY <1>1, FlushTime
  <1>3. Diff(b, a) = b - u
    BY <1>1, <1>2, DiffExact, SnClock
  <1>4. Plus(a, b - u) = iclock(u + (b - u))
    BY <1>1, <1>2, ClockPlus
  <1>5. u + (b - u) = b
    BY <1>1
  <1> QED
    BY <1>1, <1>2, <1>3, <1>4, <1>5, SnClock

LEMMA PlusInjective ==
    ASSUME NEW a \in Sn, NEW m \in Int, NEW n \in Int,
           2 * (m - n) < Wrap, 2 * (m - n) >= -Wrap, Plus(a, m) = Plus(a, n)
    PROVE  m = n
  <1>1. Diff(Plus(a, m), Plus(a, n)) = m - n
    BY DiffPlus
  <1>2. Diff(Plus(a, n), Plus(a, n)) = n - n
    BY DiffPlus, WrapAssumption
  <1> QED
    BY <1>1, <1>2

(* Seen from further on, a number is as much further behind. *)
LEMMA DiffBehind ==
    ASSUME NEW a \in Sn, NEW b \in Sn, NEW m \in Int,
           2 * (Diff(b, a) + m) < Wrap, 2 * (Diff(b, a) + m) >= -Wrap
    PROVE  Diff(Plus(b, m), a) = Diff(b, a) + m
  <1>1. PICK d \in Int : d = Diff(b, a)
    BY DiffProperties
  <1>2. b = Plus(a, d)
    BY <1>1, DiffProperties
  <1>3. Plus(b, m) = Plus(a, d + m)
    BY <1>2, PlusPlus
  <1> QED
    BY <1>1, <1>3, DiffPlusZero

LEMMA DiffAhead ==
    ASSUME NEW a \in Sn, NEW b \in Sn, NEW m \in Int,
           2 * (Diff(b, a) - m) < Wrap, 2 * (Diff(b, a) - m) >= -Wrap
    PROVE  Diff(b, Plus(a, m)) = Diff(b, a) - m
  <1>1. PICK d \in Int : d = Diff(b, a)
    BY DiffProperties
  <1>2. b = Plus(a, d)
    BY <1>1, DiffProperties
  <1> QED
    BY <1>1, <1>2, DiffPlus

----------------------------------------------------------------------------
(* Least and greatest numbers.                                             *)
LEMMA Least ==
    ASSUME NEW T, T \subseteq Nat, T # {}
    PROVE  \E x \in T : \A y \in T : x <= y
  <1>1. PICK x \in T : \A y \in T : ~(<<y, x>> \in OpToRel(<, Nat))
    BY NatLessThanWellFounded, WFMin, Zenon
  <1>2. ASSUME NEW y \in T PROVE x <= y
    <2>1. ~(<<y, x>> \in OpToRel(<, Nat))
      BY <1>1
    <2>2. ~(y < x)
      BY <2>1 DEF OpToRel
    <2> QED
      BY <2>2
  <1> QED
    BY <1>2

LEMMA MinProperties ==
    ASSUME NEW T, T \subseteq Nat, T # {}
    PROVE  Min(T) \in T /\ \A y \in T : Min(T) <= y
  <1>1. \E x \in T : \A y \in T : x =< y
    BY Least
  <1> QED
    BY <1>1 DEF Min

LEMMA MaxProperties ==
    ASSUME NEW n \in Nat, NEW T, T \subseteq 0..n, T # {}
    PROVE  Max(T) \in T /\ \A y \in T : Max(T) >= y
  <1> DEFINE U == {n - x : x \in T}
  <1>1. U \subseteq Nat /\ U # {}
    OBVIOUS
  <1>2. PICK u \in U : \A y \in U : u <= y
    BY <1>1, Least
  <1>3. PICK x \in T : u = n - x
    OBVIOUS
  <1>4. ASSUME NEW y \in T PROVE x >= y
    <2>1. n - y \in U
      OBVIOUS
    <2>2. n - x <= n - y
      BY <1>2, <1>3, <2>1
    <2> QED
      BY <2>2
  <1>5. \E z \in T : \A y \in T : z >= y
    BY <1>4
  <1> QED
    BY <1>5 DEF Max

----------------------------------------------------------------------------
(* The receiving side.                                                     *)
LEMMA Constants ==
    /\ SndWnd \in Nat \ {0} /\ RcvWnd \in Nat \ {0} /\ WndRcv \in Nat \ {0}
    /\ First \in Sn /\ RcvWnd >= WndRcv
    /\ 4 * RcvWnd < Wrap /\ 4 * SndWnd < Wrap
  BY WindowsAssumption, WrapAssumption DEF Sn

LEMMA Ends ==
    ASSUME NEW s \in End
    PROVE  Peer(s) \in End /\ Peer(s) # s /\ Peer(Peer(s)) = s
  BY EndsDiffer DEF End, Peer

LEMMA RunProperties ==
    ASSUME NEW buf, NEW nxt, NEW room \in Nat
    PROVE  /\ Run(buf, nxt, room) \in 0..room
           /\ Contiguous(buf, nxt, Run(buf, nxt, room))
           /\ Run(buf, nxt, room) < room =>
                 \A seg \in buf : seg.sn # Plus(nxt, Run(buf, nxt, room))
  <1> DEFINE T == {n \in 0..room : Contiguous(buf, nxt, n)}
             r == Max(T)
  <1>1. Contiguous(buf, nxt, 0)
    BY DEF Contiguous
  <1>2. T \subseteq 0..room /\ T # {}
    BY <1>1
  <1>3. r \in T /\ \A y \in T : r >= y
    BY <1>2, MaxProperties
  <1>4. r \in 0..room /\ Contiguous(buf, nxt, r)
    BY <1>3
  <1>5. ASSUME r < room, NEW seg \in buf, seg.sn = Plus(nxt, r) PROVE FALSE
    <2>1. Contiguous(buf, nxt, r + 1)
      <3> HIDE DEF r
      <3>1. ASSUME NEW i \in 0..r
            PROVE  \E g \in buf : g.sn = Plus(nxt, i)
        <4>1. CASE i = r
          BY <1>5, <4>1
        <4>2. CASE i # r
          <5>1. i \in 0..(r - 1)
            BY <1>4, <4>2
          <5> QED
            BY <1>4, <5>1 DEF Contiguous
        <4> QED
          BY <4>1, <4>2
      <3>2. (r + 1) - 1 = r
        BY <1>4
      <3> QED
        BY <3>1, <3>2, Zenon DEF Contiguous
    <2>2. r + 1 \in T
      <3> HIDE DEF r
      <3> QED
        BY <1>4, <1>5, <2>1
    <2> HIDE DEF r, T
    <2> QED
      BY <1>3, <1>4, <2>2
  <1>6. Run(buf, nxt, room) = r
    BY DEF Run
  <1> HIDE DEF r, T
  <1> QED
    BY <1>4, <1>5, <1>6

LEMMA RunOfProperties ==
    ASSUME NEW buf \in SUBSET Held, NEW nxt \in Sn, NEW n \in Nat, Contiguous(buf, nxt, n)
    PROVE  /\ RunOf(buf, nxt, n) \in Seq(Frag)
           /\ Len(RunOf(buf, nxt, n)) = n
           /\ DOMAIN RunOf(buf, nxt, n) = 1..n
           /\ \A i \in 1..n : \E seg \in buf :
                 seg.sn = Plus(nxt, i - 1) /\ RunOf(buf, nxt, n)[i] = seg.frag
  <1>1. ASSUME NEW i \in 1..n
        PROVE  \E seg \in buf : seg.sn = Plus(nxt, i - 1)
                                  /\ FragAt(buf, Plus(nxt, i - 1)) = seg.frag
    <2>1. i - 1 \in 0..(n - 1)
      OBVIOUS
    <2>2. \E seg \in buf : seg.sn = Plus(nxt, i - 1)
      BY <2>1 DEF Contiguous
    <2> QED
      BY <2>2 DEF FragAt
  <1>2. \A i \in 1..n : FragAt(buf, Plus(nxt, i - 1)) \in Frag
    BY <1>1 DEF Held
  <1>3. RunOf(buf, nxt, n) \in [1..n -> Frag]
    BY <1>2 DEF RunOf
  <1>4. RunOf(buf, nxt, n) \in Seq(Frag) /\ Len(RunOf(buf, nxt, n)) = n
    BY <1>3
  <1> QED
    BY <1>1, <1>4 DEF RunOf

(* The window of a receiver: rcv_queue does not exceed it, what waits in   *)
(* rcv_buf is inside it, and what could be taken has been.                 *)
RcvWindow(queue, buf, nxt) ==
    /\ Len(queue) <= RcvWnd
    /\ IsFiniteSet(buf)
    /\ \A seg \in buf : Diff(seg.sn, nxt) \in 0..(RcvWnd - 1)

Settled(queue, buf, nxt) ==
    Len(queue) < RcvWnd => \A seg \in buf : seg.sn # nxt

LEMMA AbsorbWindow ==
    ASSUME NEW queue \in Seq(Frag), NEW buf \in SUBSET Held, NEW nxt \in Sn,
           RcvWindow(queue, buf, nxt),
           NEW n, n = Run(buf, nxt, RcvWnd - Len(queue))
    PROVE  /\ n \in 0..(RcvWnd - Len(queue)) /\ Contiguous(buf, nxt, n)
           /\ queue \o RunOf(buf, nxt, n) \in Seq(Frag)
           /\ Len(queue \o RunOf(buf, nxt, n)) = Len(queue) + n
           /\ Beyond(buf, nxt, n) \in SUBSET Held
           /\ Plus(nxt, n) \in Sn
           /\ RcvWindow(queue \o RunOf(buf, nxt, n), Beyond(buf, nxt, n), Plus(nxt, n))
           /\ Settled(queue \o RunOf(buf, nxt, n), Beyond(buf, nxt, n), Plus(nxt, n))
  <1>1. Len(queue) \in Nat /\ Len(queue) <= RcvWnd /\ RcvWnd \in Nat
    BY Constants DEF RcvWindow
  <1>2. PICK room \in Nat : room = RcvWnd - Len(queue)
    BY <1>1
  <1>3. n \in 0..room /\ Contiguous(buf, nxt, n)
          /\ (n < room => \A seg \in buf : seg.sn # Plus(nxt, n))
    BY <1>2, RunProperties
  <1>4. n \in Nat
    BY <1>2, <1>3
  <1>5. RunOf(buf, nxt, n) \in Seq(Frag) /\ Len(RunOf(buf, nxt, n)) = n
    BY <1>3, <1>4, RunOfProperties
  <1>6. queue \o RunOf(buf, nxt, n) \in Seq(Frag)
          /\ Len(queue \o RunOf(buf, nxt, n)) = Len(queue) + n
    BY <1>5, ConcatProperties
  <1>7. Beyond(buf, nxt, n) \subseteq buf
    BY DEF Beyond
  <1>8. IsFiniteSet(Beyond(buf, nxt, n))
    BY <1>7, FS_Subset DEF RcvWindow
  <1>9. nxt \in Int
    BY SnClock
  <1>10. Plus(nxt, n) \in Sn
    BY <1>4, <1>9, PlusType
  <1>11. ASSUME NEW seg \in Beyond(buf, nxt, n)
         PROVE  Diff(seg.sn, Plus(nxt, n)) \in 0..(RcvWnd - 1)
    <2>1. seg \in buf /\ seg.sn \in Sn
      BY <1>7 DEF Held
    <2>2. PICK d \in 0..(RcvWnd - 1) : d = Diff(seg.sn, nxt)
      BY <2>1 DEF RcvWindow
    <2>3. Plus(nxt, d) = seg.sn
      BY <2>1, <2>2, DiffProperties
    <2>4. d \notin 0..(n - 1)
      BY <2>3, <1>11 DEF Beyond
    <2>5. d - n \in 0..(RcvWnd - 1)
      BY <1>4, <2>4, Constants
    <2>6. 2 * (d - n) < Wrap /\ 2 * (d - n) >= -Wrap
      BY <2>5, Constants, WrapAssumption
    <2>7. Diff(seg.sn, Plus(nxt, n)) = d - n
      BY <1>4, <2>1, <2>2, <2>6, DiffAhead
    <2> QED
      BY <2>5, <2>7
  <1>12. RcvWindow(queue \o RunOf(buf, nxt, n), Beyond(buf, nxt, n), Plus(nxt, n))
    <2>1. Len(queue) + n <= RcvWnd
      BY <1>1, <1>2, <1>3
    <2> QED
      BY <1>6, <1>8, <1>11, <2>1 DEF RcvWindow
  <1>13. Settled(queue \o RunOf(buf, nxt, n), Beyond(buf, nxt, n), Plus(nxt, n))
    <2>1. ASSUME Len(queue) + n < RcvWnd PROVE n < room
      BY <1>1, <1>2, <1>4, <2>1
    <2> QED
      BY <1>3, <1>6, <1>7, <2>1 DEF Settled
  <1> QED
    BY <1>2, <1>3, <1>6, <1>7, <1>10, <1>12, <1>13

----------------------------------------------------------------------------
(* The sending side.  later keeps some of the segments of buf, in order.   *)
KeepsBy(f, later, buf) ==
    /\ f \in [DOMAIN later -> DOMAIN buf]
    /\ \A i \in DOMAIN later : /\ later[i].sn = buf[f[i]].sn
                               /\ later[i].frag = buf[f[i]].frag
                               /\ Len(later) - i <= Len(buf) - f[i]
    /\ \A i, j \in DOMAIN later : i < j => f[i] < f[j]

Keeps(later, buf) == \E f \in [DOMAIN later -> DOMAIN buf] : KeepsBy(f, later, buf)

(* The window of a sender: the segments of snd_buf are numbered upwards,   *)
(* the oldest of them at most SndWnd behind the next number.               *)
SndWindow(buf, nxt) ==
    /\ \A i \in DOMAIN buf : Diff(nxt, buf[i].sn) \in (Len(buf) - i + 1)..SndWnd
    /\ \A i, j \in DOMAIN buf : i < j => Diff(nxt, buf[i].sn) > Diff(nxt, buf[j].sn)

LEMMA KeepsEach ==
    ASSUME NEW later, NEW buf, Keeps(later, buf), NEW i \in DOMAIN later
    PROVE  \E j \in DOMAIN buf : later[i].sn = buf[j].sn /\ later[i].frag = buf[j].frag
  BY DEF Keeps, KeepsBy

LEMMA KeepsWindow ==
    ASSUME NEW later \in Seq(Seg), NEW buf \in Seq(Seg), Keeps(later, buf),
           NEW nxt, SndWindow(buf, nxt)
    PROVE  SndWindow(later, nxt)
  <1>1. PICK f \in [DOMAIN later -> DOMAIN buf] : KeepsBy(f, later, buf)
    BY DEF Keeps
  <1>2. DOMAIN later = 1..Len(later) /\ DOMAIN buf = 1..Len(buf)
          /\ Len(later) \in Nat /\ Len(buf) \in Nat
    OBVIOUS
  <1>3. ASSUME NEW i \in DOMAIN later
        PROVE  Diff(nxt, later[i].sn) \in (Len(later) - i + 1)..SndWnd
    <2>1. Diff(nxt, later[i].sn) = Diff(nxt, buf[f[i]].sn) /\ f[i] \in DOMAIN buf
            /\ Len(later) - i <= Len(buf) - f[i]
      BY <1>1 DEF KeepsBy
    <2>2. Diff(nxt, buf[f[i]].sn) \in (Len(buf) - f[i] + 1)..SndWnd
      BY <2>1 DEF SndWindow
    <2> QED
      BY <1>2, <2>1, <2>2, Constants
  <1>4. ASSUME NEW i \in DOMAIN later, NEW j \in DOMAIN later, i < j
        PROVE  Diff(nxt, later[i].sn) > Diff(nxt, later[j].sn)
    <2>1. f[i] \in DOMAIN buf /\ f[j] \in DOMAIN buf /\ f[i] < f[j]
            /\ later[i].sn = buf[f[i]].sn /\ later[j].sn = buf[f[j]].sn
      BY <1>1, <1>4 DEF KeepsBy
    <2> QED
      BY <2>1 DEF SndWindow
  <1> QED
    BY <1>3, <1>4 DEF SndWindow

LEMMA KeepsTrans ==
    ASSUME NEW b1 \in Seq(Seg), NEW b2 \in Seq(Seg), NEW b3 \in Seq(Seg),
           Keeps(b3, b2), Keeps(b2, b1)
    PROVE  Keeps(b3, b1)
  <1>1. PICK f \in [DOMAIN b3 -> DOMAIN b2] : KeepsBy(f, b3, b2)
    BY DEF Keeps
  <1>2. PICK g \in [DOMAIN b2 -> DOMAIN b1] : KeepsBy(g, b2, b1)
    BY DEF Keeps
  <1>3. PICK h : h = [i \in DOMAIN b3 |-> g[f[i]]]
    OBVIOUS
  <1>4. h \in [DOMAIN b3 -> DOMAIN b1]
    BY <1>3
  <1>5. DOMAIN b1 \subseteq Nat /\ DOMAIN b2 \subseteq Nat /\ DOMAIN b3 \subseteq Nat
          /\ Len(b1) \in Nat /\ Len(b2) \in Nat /\ Len(b3) \in Nat
    OBVIOUS
  <1>6. ASSUME NEW i \in DOMAIN b3
        PROVE  /\ b3[i].sn = b1[h[i]].sn /\ b3[i].frag = b1[h[i]].frag
               /\ Len(b3) - i <= Len(b1) - h[i]
    <2>1. f[i] \in DOMAIN b2 /\ h[i] = g[f[i]] /\ h[i] \in DOMAIN b1
      BY <1>3, <1>4
    <2>2. b3[i].sn = b2[f[i]].sn /\ b3[i].frag = b2[f[i]].frag
            /\ Len(b3) - i <= Len(b2) - f[i]
      BY <1>1 DEF KeepsBy
    <2>3. b2[f[i]].sn = b1[h[i]].sn /\ b2[f[i]].frag = b1[h[i]].frag
            /\ Len(b2) - f[i] <= Len(b1) - h[i]
      BY <1>2, <2>1 DEF KeepsBy
    <2>4. i \in Nat /\ f[i] \in Nat /\ h[i] \in Nat
      BY <1>5, <2>1
    <2>5. Len(b3) - i <= Len(b1) - h[i]
      BY <1>5, <2>2, <2>3, <2>4
    <2> QED
      BY <2>2, <2>3, <2>5
  <1>7. ASSUME NEW i \in DOMAIN b3, NEW j \in DOMAIN b3, i < j
        PROVE  h[i] < h[j]
    <2>1. f[i] \in DOMAIN b2 /\ f[j] \in DOMAIN b2 /\ f[i] < f[j]
      BY <1>1, <1>7 DEF KeepsBy
    <2> QED
      BY <1>2, <1>3, <2>1 DEF KeepsBy
  <1>8. KeepsBy(h, b3, b1)
    BY <1>4, <1>6, <1>7 DEF KeepsBy
  <1> QED
    BY <1>4, <1>8 DEF Keeps

(* A change of the other fields keeps every segment. *)
LEMMA KeepsAll ==
    ASSUME NEW buf \in Seq(Seg), NEW later \in Seq(Seg), Len(later) = Len(buf),
           \A i \in 1..Len(buf) : later[i].sn = buf[i].sn /\ later[i].frag = buf[i].frag
    PROVE  Keeps(later, buf)
  <1>1. PICK f : f = [i \in 1..Len(buf) |-> i]
    OBVIOUS
  <1>2. DOMAIN buf = 1..Len(buf) /\ DOMAIN later = 1..Len(buf) /\ Len(buf) \in Nat
    OBVIOUS
  <1>3. f \in [DOMAIN later -> DOMAIN buf]
    BY <1>1, <1>2
  <1>4. KeepsBy(f, later, buf)
    BY <1>1, <1>2, <1>3 DEF KeepsBy
  <1> QED
    BY <1>3, <1>4 DEF Keeps

LEMMA SuffixKeeps ==
    ASSUME NEW buf \in Seq(Seg), NEW k \in 0..Len(buf)
    PROVE  /\ SubSeq(buf, 1 + k, Len(buf)) \in Seq(Seg)
           /\ Len(SubSeq(buf, 1 + k, Len(buf))) = Len(buf) - k
           /\ \A i \in 1..(Len(buf) - k) : SubSeq(buf, 1 + k, Len(buf))[i] = buf[i + k]
           /\ Keeps(SubSeq(buf, 1 + k, Len(buf)), buf)
  <1>1. PICK later : later = SubSeq(buf, 1 + k, Len(buf))
    OBVIOUS
  <1>2. Len(buf) \in Nat /\ DOMAIN buf = 1..Len(buf) /\ k \in Nat /\ k <= Len(buf)
    OBVIOUS
  <1>3. later \in Seq(Seg) /\ Len(later) = Len(buf) - k
          /\ \A i \in 1..(Len(buf) - k) : later[i] = buf[i + k]
    <2>1. \A i \in (1 + k)..Len(buf) : buf[i] \in Seg
      BY <1>2
    <2>2. /\ later \in Seq(Seg)
          /\ Len(later) = IF 1 + k <= Len(buf) THEN Len(buf) - (1 + k) + 1 ELSE 0
          /\ \A i \in 1..(Len(buf) - (1 + k) + 1) : later[i] = buf[(1 + k) + i - 1]
      BY <1>1, <1>2, <2>1, SubSeqProperties
    <2>3. Len(later) = Len(buf) - k
      <3>1. PICK n \in Nat : n = Len(buf)
        BY <1>2
      <3>2. Len(later) = IF 1 + k <= n THEN n - (1 + k) + 1 ELSE 0
        BY <2>2, <3>1
      <3>3. Len(later) = n - k
        <4>1. CASE k < n
          <5>1. 1 + k <= n
            BY <1>2, <4>1
          <5>2. Len(later) = n - (1 + k) + 1
            BY <3>2, <5>1
          <5> QED
            BY <1>2, <5>2
        <4>2. CASE k = n
          <5>1. ~(1 + k <= n) /\ n - k = 0
            BY <4>2
          <5> QED
            BY <3>2, <5>1
        <4>3. k \in 0..n
          BY <3>1
        <4>4. k < n \/ k = n
          BY <4>3
        <4> QED
          BY <4>1, <4>2, <4>4
      <3> QED
        BY <3>1, <3>3
    <2>4. ASSUME NEW i \in 1..(Len(buf) - k) PROVE later[i] = buf[i + k]
      <3>1. i \in 1..(Len(buf) - (1 + k) + 1) /\ (1 + k) + i - 1 = i + k
        BY <1>2
      <3> QED
        BY <2>2, <3>1
    <2> QED
      BY <2>2, <2>3, <2>4
  <1>4. PICK f : f = [i \in 1..(Len(buf) - k) |-> i + k]
    OBVIOUS
  <1>5. DOMAIN later = 1..(Len(buf) - k)
    BY <1>3
  <1>6. f \in [DOMAIN later -> DOMAIN buf]
    BY <1>2, <1>4, <1>5
  <1>7. KeepsBy(f, later, buf)
    BY <1>2, <1>3, <1>4, <1>5, <1>6 DEF KeepsBy
  <1>8. Keeps(later, buf)
    BY <1>6, <1>7 DEF Keeps
  <1> QED
    BY <1>1, <1>3, <1>8

LEMMA RemoveAtKeeps ==
    ASSUME NEW buf \in Seq(Seg), NEW k \in 1..Len(buf)
    PROVE  /\ RemoveAt(buf, k) \in Seq(Seg) /\ Keeps(RemoveAt(buf, k), buf)
           /\ \A j \in 1..Len(buf) : j # k =>
                 \E i \in 1..Len(RemoveAt(buf, k)) : RemoveAt(buf, k)[i] = buf[j]
  <1>1. Len(buf) \in Nat /\ DOMAIN buf = 1..Len(buf)
    OBVIOUS
  <1>2. PICK b1, b2 : b1 = SubSeq(buf, 1, k - 1) /\ b2 = SubSeq(buf, k + 1, Len(buf))
    OBVIOUS
  <1>3. b1 \in Seq(Seg) /\ Len(b1) = k - 1 /\ \A i \in 1..(k - 1) : b1[i] = buf[i]
    BY <1>1, <1>2
  <1>4. b2 \in Seq(Seg) /\ Len(b2) = Len(buf) - k
          /\ \A i \in 1..(Len(buf) - k) : b2[i] = buf[i + k]
    <2>1. k \in 0..Len(buf) /\ 1 + k = k + 1
      OBVIOUS
    <2> QED
      BY <1>2, <2>1, SuffixKeeps
  <1>5. PICK later : later = b1 \o b2
    OBVIOUS
  <1>6. later \in Seq(Seg) /\ Len(later) = Len(buf) - 1
          /\ \A i \in 1..(Len(buf) - 1) : later[i] = IF i <= k - 1 THEN buf[i] ELSE buf[i + 1]
    <2>1. /\ later \in Seq(Seg) /\ Len(later) = Len(b1) + Len(b2)
          /\ \A i \in 1..(Len(b1) + Len(b2)) :
                later[i] = IF i <= Len(b1) THEN b1[i] ELSE b2[i - Len(b1)]
      BY <1>3, <1>4, <1>5, ConcatProperties
    <2>2. Len(b1) + Len(b2) = Len(buf) - 1
      BY <1>1, <1>3, <1>4
    <2>3. ASSUME NEW i \in 1..(Len(buf) - 1)
          PROVE  later[i] = IF i <= k - 1 THEN buf[i] ELSE buf[i + 1]
      <3>1. CASE i <= k - 1
        <4>1. i \in 1..(k - 1) /\ i \in 1..(Len(b1) + Len(b2)) /\ i <= Len(b1)
          BY <1>3, <2>2, <3>1
        <4>2. later[i] = b1[i]
          BY <2>1, <4>1
        <4> QED
          BY <1>3, <3>1, <4>1, <4>2
      <3>2. CASE ~(i <= k - 1)
        <4>1. i - (k - 1) \in 1..(Len(buf) - k) /\ (i - (k - 1)) + k = i + 1
          BY <1>1, <3>2
        <4>2. later[i] = b2[i - (k - 1)]
          BY <1>3, <2>1, <2>2, <3>2
        <4> QED
          BY <1>4, <3>2, <4>1, <4>2
      <3> QED
        BY <3>1, <3>2
    <2> QED
      BY <2>1, <2>2, <2>3
  <1>7. PICK f : f = [i \in 1..(Len(buf) - 1) |-> IF i <= k - 1 THEN i ELSE i + 1]
    OBVIOUS
  <1>8. DOMAIN later = 1..(Len(buf) - 1)
    BY <1>1, <1>6
  <1>9. f \in [DOMAIN later -> DOMAIN buf]
    BY <1>1, <1>7, <1>8
  <1>10. ASSUME NEW i \in DOMAIN later
         PROVE  /\ later[i] = buf[f[i]]
                /\ Len(later) - i <= Len(buf) - f[i]
    <2>1. CASE i <= k - 1
      BY <1>1, <1>6, <1>7, <1>8, <2>1
    <2>2. CASE ~(i <= k - 1)
      BY <1>1, <1>6, <1>7, <1>8, <2>2
    <2> QED
      BY <2>1, <2>2
  <1>11. \A i, j \in DOMAIN later : i < j => f[i] < f[j]
    BY <1>1, <1>7, <1>8
  <1>12. KeepsBy(f, later, buf)
    BY <1>9, <1>10, <1>11 DEF KeepsBy
  <1>13. Keeps(later, buf)
    BY <1>9, <1>12 DEF Keeps
  <1>14. ASSUME NEW j \in 1..Len(buf), j # k
         PROVE  \E i \in 1..Len(later) : later[i] = buf[j]
    <2>1. CASE j < k
      <3>1. j \in 1..(Len(buf) - 1) /\ j <= k - 1
        BY <1>1, <2>1
      <3> QED
        BY <1>6, <3>1
    <2>2. CASE j > k
      <3>1. j - 1 \in 1..(Len(buf) - 1) /\ ~(j - 1 <= k - 1) /\ (j - 1) + 1 = j
        BY <1>1, <2>2
      <3> QED
        BY <1>6, <3>1
    <2> QED
      BY <1>1, <1>14, <2>1, <2>2
  <1> QED
    BY <1>2, <1>5, <1>6, <1>13, <1>14 DEF RemoveAt

LEMMA SegFields ==
    ASSUME NEW seg \in Seg
    PROVE  /\ seg.sn \in Sn /\ seg.frag \in Frag /\ seg.xmit \in BOOLEAN
           /\ seg.fastack \in 0..FastResend
  BY DEF Seg

LEMMA AfterUnaProperties ==
    ASSUME NEW buf \in Seq(Seg), NEW una
    PROVE  \E k \in 0..Len(buf) :
              /\ AfterUna(buf, una) = SubSeq(buf, 1 + k, Len(buf))
              /\ \A j \in 1..k : Diff(una, buf[j].sn) > 0
  <1> DEFINE T == {0} \cup {i \in DOMAIN buf : \A j \in 1..i : Diff(una, buf[j].sn) > 0}
  <1>1. T \subseteq 0..Len(buf) /\ T # {} /\ Len(buf) \in Nat
    OBVIOUS
  <1>2. Max(T) \in T
    BY <1>1, MaxProperties
  <1>3. PICK k \in T : k = Max(T)
    BY <1>2
  <1>4. \A j \in 1..k : Diff(una, buf[j].sn) > 0
    OBVIOUS
  <1>5. AfterUna(buf, una) = SubSeq(buf, 1 + k, Len(buf))
    BY <1>3 DEF AfterUna
  <1> QED
    BY <1>1, <1>4, <1>5

LEMMA AfterUnaKeeps ==
    ASSUME NEW buf \in Seq(Seg), NEW una
    PROVE  AfterUna(buf, una) \in Seq(Seg) /\ Keeps(AfterUna(buf, una), buf)
  BY AfterUnaProperties, SuffixKeeps

LEMMA KeepsSelf ==
    ASSUME NEW buf \in Seq(Seg)
    PROVE  Keeps(buf, buf)
  BY KeepsAll

LEMMA AfterAckKeeps ==
    ASSUME NEW s, NEW buf \in Seq(Seg), NEW sn
    PROVE  AfterAck(s, buf, sn) \in Seq(Seg) /\ Keeps(AfterAck(s, buf, sn), buf)
  <1>1. CASE InFlight(s, UnaOf(s, buf), sn) /\ \E i \in DOMAIN buf : buf[i].sn = sn
    <2>1. PICK k \in DOMAIN buf : k = CHOOSE i \in DOMAIN buf : buf[i].sn = sn
      BY <1>1
    <2>2. AfterAck(s, buf, sn) = RemoveAt(buf, k) /\ k \in 1..Len(buf)
      BY <1>1, <2>1 DEF AfterAck
    <2> QED
      BY <2>2, RemoveAtKeeps
  <1>2. CASE ~(InFlight(s, UnaOf(s, buf), sn) /\ \E i \in DOMAIN buf : buf[i].sn = sn)
    BY <1>2, KeepsSelf DEF AfterAck
  <1> QED
    BY <1>1, <1>2

LEMMA MappedKeeps ==
    ASSUME NEW buf \in Seq(Seg), NEW later, DOMAIN later = DOMAIN buf,
           later = [i \in DOMAIN buf |-> later[i]],
           \A i \in DOMAIN buf : /\ later[i] \in Seg
                                 /\ later[i].sn = buf[i].sn /\ later[i].frag = buf[i].frag
    PROVE  later \in Seq(Seg) /\ Len(later) = Len(buf) /\ Keeps(later, buf)
  <1>1. DOMAIN buf = 1..Len(buf) /\ Len(buf) \in Nat
    OBVIOUS
  <1>2. later \in [1..Len(buf) -> Seg]
    BY <1>1
  <1>3. later \in Seq(Seg) /\ Len(later) = Len(buf)
    BY <1>1, <1>2
  <1> QED
    BY <1>1, <1>3, KeepsAll

LEMMA SkippedKeeps ==
    ASSUME NEW s, NEW buf \in Seq(Seg), NEW sn
    PROVE  /\ Skipped(s, buf, sn) \in Seq(Seg) /\ Len(Skipped(s, buf, sn)) = Len(buf)
           /\ \A i \in DOMAIN buf : Skipped(s, buf, sn)[i].sn = buf[i].sn
           /\ Keeps(Skipped(s, buf, sn), buf)
  <1>1. CASE InFlight(s, UnaOf(s, buf), sn)
    <2>1. PICK later : later = Skipped(s, buf, sn)
      OBVIOUS
    <2>2. later = [i \in DOMAIN buf |-> IF Diff(sn, buf[i].sn) > 0 /\ buf[i].fastack < FastResend
                                         THEN [buf[i] EXCEPT !.fastack = @ + 1] ELSE buf[i]]
      BY <1>1, <2>1 DEF Skipped
    <2>3. ASSUME NEW i \in DOMAIN buf
          PROVE  later[i] \in Seg /\ later[i].sn = buf[i].sn /\ later[i].frag = buf[i].frag
      <3>1. buf[i] \in Seg
        OBVIOUS
      <3>2. CASE Diff(sn, buf[i].sn) > 0 /\ buf[i].fastack < FastResend
        <4>1. later[i] = [buf[i] EXCEPT !.fastack = @ + 1]
          BY <2>2, <3>2
        <4>2. buf[i].fastack + 1 \in 0..FastResend
          BY <3>1, <3>2, SegFields DEF FastResend
        <4> QED
          BY <3>1, <4>1, <4>2 DEF Seg
      <3>3. CASE ~(Diff(sn, buf[i].sn) > 0 /\ buf[i].fastack < FastResend)
        BY <2>2, <3>1, <3>3
      <3> QED
        BY <3>2, <3>3
    <2>4. DOMAIN later = DOMAIN buf /\ later = [i \in DOMAIN buf |-> later[i]]
      BY <2>2
    <2>5. later \in Seq(Seg) /\ Len(later) = Len(buf) /\ Keeps(later, buf)
      BY <2>3, <2>4, MappedKeeps
    <2> QED
      BY <2>1, <2>3, <2>5
  <1>2. CASE ~InFlight(s, UnaOf(s, buf), sn)
    BY <1>2, KeepsSelf DEF Skipped
  <1> QED
    BY <1>1, <1>2

LEMMA UnaOfSkipped ==
    ASSUME NEW s, NEW buf \in Seq(Seg), NEW sn
    PROVE  UnaOf(s, Skipped(s, buf, sn)) = UnaOf(s, buf)
  <1>1. PICK later \in Seq(Seg) :
           later = Skipped(s, buf, sn) /\ Len(later) = Len(buf)
             /\ \A i \in DOMAIN buf : later[i].sn = buf[i].sn
    BY SkippedKeeps
  <1>2. CASE buf = <<>>
    <2>1. later = <<>>
      BY <1>1, <1>2
    <2> QED
      BY <1>1, <1>2, <2>1 DEF UnaOf
  <1>3. CASE buf # <<>>
    <2>1. later # <<>> /\ 1 \in DOMAIN buf
      BY <1>1, <1>3
    <2>2. Head(later) = later[1] /\ Head(buf) = buf[1]
      BY <1>3, <2>1
    <2> QED
      BY <1>1, <1>3, <2>1, <2>2 DEF UnaOf
  <1> QED
    BY <1>2, <1>3

LEMMA AfterSendKeeps ==
    ASSUME NEW buf \in Seq(Seg), NEW late
    PROVE  /\ AfterSend(buf, late) \in Seq(Seg) /\ Len(AfterSend(buf, late)) = Len(buf)
           /\ \A i \in DOMAIN buf : /\ AfterSend(buf, late)[i].sn = buf[i].sn
                                    /\ AfterSend(buf, late)[i].frag = buf[i].frag
           /\ Keeps(AfterSend(buf, late), buf)
  <1>1. PICK later : later = AfterSend(buf, late)
    OBVIOUS
  <1>2. later = [i \in DOMAIN buf |-> IF NeedSend(buf[i], late)
                                        THEN Resent(buf[i], late) ELSE buf[i]]
    BY <1>1 DEF AfterSend
  <1>3. ASSUME NEW i \in DOMAIN buf
        PROVE  later[i] \in Seg /\ later[i].sn = buf[i].sn /\ later[i].frag = buf[i].frag
    <2>1. buf[i] \in Seg /\ 0 \in 0..FastResend
      BY DEF FastResend
    <2>2. Resent(buf[i], late) \in Seg /\ Resent(buf[i], late).sn = buf[i].sn
            /\ Resent(buf[i], late).frag = buf[i].frag
      BY <2>1 DEF Resent, Seg
    <2> QED
      BY <1>2, <2>1, <2>2
  <1>4. DOMAIN later = DOMAIN buf /\ later = [i \in DOMAIN buf |-> later[i]]
    BY <1>2
  <1> QED
    BY <1>1, <1>3, <1>4, MappedKeeps

LEMMA MaxTwo ==
    ASSUME NEW a \in Int, NEW b \in Int
    PROVE  Max({a, b}) \in {a, b} /\ Max({a, b}) >= a /\ Max({a, b}) >= b
  <1>1. \E x \in {a, b} : \A y \in {a, b} : x >= y
    <2>1. CASE a >= b
      BY <2>1
    <2>2. CASE b >= a
      BY <2>2
    <2> QED
      BY <2>1, <2>2
  <1> QED
    BY <1>1 DEF Max

LEMMA MinTwo ==
    ASSUME NEW a \in Int, NEW b \in Int
    PROVE  Min({a, b}) \in {a, b} /\ Min({a, b}) <= a /\ Min({a, b}) <= b
  <1>1. \E x \in {a, b} : \A y \in {a, b} : x =< y
    <2>1. CASE a <= b
      BY <2>1
    <2>2. CASE b <= a
      BY <2>2
    <2> QED
      BY <2>1, <2>2
  <1> QED
    BY <1>1 DEF Min

(* How far a sender has numbered beyond the oldest unacknowledged segment. *)
LEMMA Outstanding ==
    ASSUME NEW s, NEW buf \in Seq(Seg), NEW una, snd_nxt[s] \in Sn,
           SndWindow(buf, snd_nxt[s]), una = UnaOf(s, buf)
    PROVE  /\ una \in Sn
           /\ Diff(snd_nxt[s], una) \in Len(buf)..SndWnd
           /\ buf # <<>> => una = buf[1].sn
  <1>1. CASE buf = <<>>
    <2>1. una = snd_nxt[s]
      BY <1>1 DEF UnaOf
    <2>2. Diff(Plus(snd_nxt[s], 0), snd_nxt[s]) = 0
      BY DiffPlusZero, WrapAssumption
    <2> QED
      BY <1>1, <2>1, <2>2, PlusZero, Constants
  <1>2. CASE buf # <<>>
    <2>1. 1 \in DOMAIN buf /\ Len(buf) \in Nat /\ una = buf[1].sn
      BY <1>2 DEF UnaOf
    <2>2. buf[1].sn \in Sn
      BY <2>1, SegFields
    <2>3. Diff(snd_nxt[s], buf[1].sn) \in (Len(buf) - 1 + 1)..SndWnd
      BY <2>1 DEF SndWindow
    <2> QED
      BY <2>1, <2>2, <2>3
  <1> QED
    BY <1>1, <1>2

LEMMA MovesProperties ==
    ASSUME NEW s, snd_buf[s] \in Seq(Seg), snd_nxt[s] \in Sn, snd_queue[s] \in Seq(Frag),
           rmt_wnd[s] \in Nat,
           SndWindow(snd_buf[s], snd_nxt[s]), snd_una[s] = UnaOf(s, snd_buf[s])
    PROVE  /\ Moves(s) \in 0..Len(snd_queue[s])
           /\ Moves(s) # 0 => Diff(snd_nxt[s], snd_una[s]) + Moves(s) <= SndWnd
           /\ Moves(s) <= SndWnd
  <1>1. PICK d \in 0..SndWnd : d = Diff(snd_nxt[s], snd_una[s])
    BY Outstanding, LenProperties
  <1>2. snd_una[s] \in Sn
    BY Outstanding
  <1>3. PICK c \in 0..SndWnd : c = Cwnd(s)
    <2>1. SndWnd \in Int /\ rmt_wnd[s] \in Int /\ SndWnd >= 0
      BY Constants
    <2>2. Min({SndWnd, rmt_wnd[s]}) \in {SndWnd, rmt_wnd[s]}
            /\ Min({SndWnd, rmt_wnd[s]}) <= SndWnd
      BY <2>1, MinTwo
    <2> QED
      BY <2>1, <2>2 DEF Cwnd
  <1>4. PICK x \in Int : x = Diff(Plus(snd_una[s], Cwnd(s)), snd_nxt[s])
    <2>1. snd_una[s] \in Int /\ c \in Int
      BY <1>2, SnClock
    <2>2. Plus(snd_una[s], c) \in Sn
      BY <2>1, PlusType
    <2> QED
      BY <1>3, <2>2, DiffProperties
  <1>5. x = c - d
    <2>1. snd_nxt[s] = Plus(snd_una[s], d)
      BY <1>1, <1>2, DiffProperties
    <2>2. 2 * (c - d) < Wrap /\ 2 * (c - d) >= -Wrap
      BY <1>1, <1>3, Constants, WrapAssumption
    <2> QED
      BY <1>2, <1>3, <1>4, <2>1, <2>2, DiffPlus
  <1>6. PICK y \in Nat : y = Max({0, x}) /\ (y = 0 \/ y = x)
    <2>1. 0 \in Int
      OBVIOUS
    <2>2. Max({0, x}) \in {0, x} /\ Max({0, x}) >= 0
      BY <2>1, MaxTwo
    <2>3. Max({0, x}) \in Nat /\ (Max({0, x}) = 0 \/ Max({0, x}) = x)
      BY <2>2
    <2> QED
      BY <2>3
  <1>8. PICK q \in Nat : q = Len(snd_queue[s])
    BY LenProperties
  <1>9. PICK m \in Nat : m = Moves(s) /\ m \in {q, y} /\ m <= q /\ m <= y
    <2>1. Moves(s) = Min({q, y})
      BY <1>4, <1>6, <1>8 DEF Moves
    <2>2. q \in Int /\ y \in Int
      OBVIOUS
    <2>3. Min({q, y}) \in {q, y} /\ Min({q, y}) <= q /\ Min({q, y}) <= y
      BY <2>2, MinTwo
    <2>4. Min({q, y}) \in Nat
      BY <2>3
    <2> QED
      BY <2>1, <2>3, <2>4
  <1> QED
    BY <1>1, <1>3, <1>5, <1>6, <1>8, <1>9, Constants

LEMMA GrownWindow ==
    ASSUME NEW buf \in Seq(Seg), NEW nxt \in Sn, SndWindow(buf, nxt),
           NEW m \in Nat, m <= SndWnd,
           m # 0 /\ buf # <<>> => Diff(nxt, buf[1].sn) + m <= SndWnd,
           NEW added \in Seq(Seg), Len(added) = m,
           \A i \in 1..m : added[i].sn = Plus(nxt, i - 1)
    PROVE  /\ buf \o added \in Seq(Seg)
           /\ Len(buf \o added) = Len(buf) + m
           /\ \A i \in 1..Len(buf) : (buf \o added)[i] = buf[i]
           /\ \A i \in 1..m : (buf \o added)[Len(buf) + i] = added[i]
           /\ SndWindow(buf \o added, Plus(nxt, m))
  <1>1. PICK all : all = buf \o added
    OBVIOUS
  <1>2. PICK n \in Nat : n = Len(buf)
    BY LenProperties
  <1>3. /\ all \in Seq(Seg) /\ Len(all) = n + m
        /\ \A i \in 1..(n + m) : all[i] = IF i <= n THEN buf[i] ELSE added[i - n]
    BY <1>1, <1>2, ConcatProperties
  <1>4. \A i \in 1..n : i \in 1..(n + m) /\ all[i] = buf[i]
    BY <1>3
  <1>5. ASSUME NEW i \in 1..m PROVE n + i \in 1..(n + m) /\ all[n + i] = added[i]
    <2>1. n + i \in 1..(n + m) /\ ~(n + i <= n) /\ (n + i) - n = i
      OBVIOUS
    <2> QED
      BY <1>3, <2>1
  <1>6. \A i \in 1..n : buf[i].sn \in Sn
    <2>1. \A i \in 1..n : buf[i] \in Seg
      BY <1>2
    <2> QED
      BY <2>1, SegFields
  <1>7. DOMAIN buf = 1..n /\ DOMAIN all = 1..(n + m)
    BY <1>2, <1>3
  <1>8. \A i \in 1..n : Diff(nxt, buf[i].sn) \in (n - i + 1)..SndWnd
    BY <1>2, <1>7 DEF SndWindow
  <1>9. \A i, j \in 1..n : i < j => Diff(nxt, buf[i].sn) > Diff(nxt, buf[j].sn)
    BY <1>7 DEF SndWindow
  <1>10. ASSUME NEW i \in 1..n
         PROVE  /\ Diff(Plus(nxt, m), all[i].sn) = Diff(nxt, buf[i].sn) + m
                /\ Diff(nxt, buf[i].sn) + m <= SndWnd
    <2>1. PICK d \in 1..SndWnd : d = Diff(nxt, buf[i].sn)
      BY <1>8, Constants
    <2>2. d + m <= SndWnd
      <3>1. CASE m = 0
        BY <2>1, <3>1, Constants
      <3>2. CASE m # 0
        <4>1. 1 \in 1..n /\ buf # <<>>
          BY <1>2
        <4>2. Diff(nxt, buf[1].sn) + m <= SndWnd
          BY <3>2, <4>1
        <4>3. PICK d1 \in 1..SndWnd : d1 = Diff(nxt, buf[1].sn)
          BY <1>8, <4>1, Constants
        <4>4. d1 >= d
          <5>1. CASE i = 1
            BY <2>1, <4>3, <5>1
          <5>2. CASE i # 1
            BY <1>9, <2>1, <4>1, <4>3, <5>2
          <5> QED
            BY <5>1, <5>2
        <4> QED
          BY <2>1, <4>2, <4>3, <4>4, Constants
      <3> QED
        BY <3>1, <3>2
    <2>3. 2 * (d + m) < Wrap /\ 2 * (d + m) >= -Wrap
      BY <2>2, Constants, WrapAssumption
    <2>4. Diff(Plus(nxt, m), buf[i].sn) = d + m
      BY <1>6, <2>1, <2>3, DiffBehind
    <2> QED
      BY <1>4, <2>1, <2>2, <2>4
  <1>11. ASSUME NEW i \in 1..m
         PROVE  Diff(Plus(nxt, m), all[n + i].sn) = m - i + 1
    <2>1. all[n + i].sn = Plus(nxt, i - 1)
      BY <1>5
    <2>2. 2 * (m - (i - 1)) < Wrap /\ 2 * (m - (i - 1)) >= -Wrap
      BY Constants, WrapAssumption
    <2>3. Diff(Plus(nxt, m), Plus(nxt, i - 1)) = m - (i - 1)
      BY <2>2, DiffPlus
    <2> QED
      BY <2>1, <2>3
  <1>12. ASSUME NEW i \in 1..(n + m)
         PROVE  Diff(Plus(nxt, m), all[i].sn) \in ((n + m) - i + 1)..SndWnd
    <2>1. CASE i <= n
      <3>1. PICK d \in (n - i + 1)..SndWnd : d = Diff(nxt, buf[i].sn)
        BY <1>8, <2>1
      <3>2. Diff(Plus(nxt, m), all[i].sn) = d + m /\ d + m <= SndWnd
        BY <1>10, <2>1, <3>1
      <3> QED
        BY <3>1, <3>2, Constants
    <2>2. CASE ~(i <= n)
      <3>1. PICK k \in 1..m : i = n + k
        <4>1. i - n \in 1..m /\ i = n + (i - n)
          BY <2>2
        <4> QED
          BY <4>1
      <3>2. Diff(Plus(nxt, m), all[i].sn) = m - k + 1
        BY <1>11, <3>1
      <3> QED
        BY <3>1, <3>2, Constants
    <2> QED
      BY <2>1, <2>2
  <1>13. ASSUME NEW i \in 1..(n + m), NEW j \in 1..(n + m), i < j
         PROVE  Diff(Plus(nxt, m), all[i].sn) > Diff(Plus(nxt, m), all[j].sn)
    <2>1. CASE j <= n
      <3>1. i \in 1..n /\ j \in 1..n
        BY <1>13, <2>1
      <3>2. PICK di \in Int, dj \in Int : di = Diff(nxt, buf[i].sn) /\ dj = Diff(nxt, buf[j].sn)
        BY <1>8, <3>1, Constants
      <3>3. di > dj
        BY <1>9, <1>13, <3>1, <3>2
      <3> QED
        BY <1>10, <3>1, <3>2, <3>3
    <2>2. CASE ~(j <= n)
      <3>1. PICK k \in 1..m : j = n + k
        <4>1. j - n \in 1..m /\ j = n + (j - n)
          BY <2>2
        <4> QED
          BY <4>1
      <3>2. Diff(Plus(nxt, m), all[j].sn) = m - k + 1
        BY <1>11, <3>1
      <3>3. CASE i <= n
        <4>1. PICK d \in (n - i + 1)..SndWnd : d = Diff(nxt, buf[i].sn)
          BY <1>8, <3>3
        <4>2. Diff(Plus(nxt, m), all[i].sn) = d + m
          BY <1>10, <3>3, <4>1
        <4> QED
          BY <3>1, <3>2, <3>3, <4>1, <4>2, Constants
      <3>4. CASE ~(i <= n)
        <4>1. PICK h \in 1..m : i = n + h
          <5>1. i - n \in 1..m /\ i = n + (i - n)
            BY <3>4
          <5> QED
            BY <5>1
        <4>2. Diff(Plus(nxt, m), all[i].sn) = m - h + 1
          BY <1>11, <4>1
        <4> QED
          BY <1>13, <3>1, <3>2, <4>1, <4>2
      <3> QED
        BY <3>3, <3>4
    <2> QED
      BY <2>1, <2>2
  <1>14. SndWindow(all, Plus(nxt, m))
    BY <1>3, <1>7, <1>12, <1>13 DEF SndWindow
  <1> QED
    BY <1>1, <1>2, <1>3, <1>4, <1>5, <1>14

----------------------------------------------------------------------------
(* Types and windows, action by action.                                    *)
WindowInv ==
    \A s \in End :
        /\ SndWindow(snd_buf[s], snd_nxt[s])
        /\ snd_una[s] = UnaOf(s, snd_buf[s])
        /\ RcvWindow(rcv_queue[s], rcv_buf[s], rcv_nxt[s])
        /\ Settled(rcv_queue[s], rcv_buf[s], rcv_nxt[s])

LEMMA TypeAt ==
    ASSUME TypeOK, NEW s \in End
    PROVE  /\ snd_queue[s] \in Seq(Frag) /\ snd_buf[s] \in Seq(Seg)
           /\ snd_una[s] \in Sn /\ snd_nxt[s] \in Sn /\ rcv_nxt[s] \in Sn
           /\ rcv_buf[s] \in SUBSET Held /\ rcv_queue[s] \in Seq(Frag)
           /\ acklist[s] \in SUBSET Sn /\ rmt_wnd[s] \in Nat
           /\ net[s] \in SUBSET Segment
           /\ given[s] \in Seq(Msg) /\ delivered[s] \in Seq(Seq(Frag))
           /\ offered[s] \in Nat /\ promised[s] \in Nat
  BY DEF TypeOK

LEMMA SegmentFields ==
    ASSUME NEW seg \in Segment
    PROVE  /\ seg.una \in Sn /\ seg.wnd \in Nat
           /\ seg.cmd = "push" => seg \in Push /\ seg.sn \in Sn /\ seg.frag \in Frag
           /\ seg.cmd = "ack" => seg.sn \in Sn
  BY DEF Segment, Push, Ack, Tell

LEMMA UnusedType ==
    ASSUME TypeOK, NEW s \in End
    PROVE  Unused(s) \in Nat
  <1>1. PICK n \in Nat : n = Len(rcv_queue[s])
    BY TypeAt, LenProperties
  <1> QED
    BY <1>1, Constants DEF Unused

LEMMA PushBuilt ==
    ASSUME NEW sn \in Sn, NEW frag \in Frag, NEW una \in Sn, NEW wnd \in Nat
    PROVE  [cmd |-> "push", sn |-> sn, frag |-> frag, una |-> una, wnd |-> wnd] \in Segment
  BY DEF Segment, Push

LEMMA AckBuilt ==
    ASSUME NEW sn \in Sn, NEW una \in Sn, NEW wnd \in Nat
    PROVE  [cmd |-> "ack", sn |-> sn, una |-> una, wnd |-> wnd] \in Segment
  BY DEF Segment, Ack

LEMMA TellBuilt ==
    ASSUME NEW cmd \in {"wask", "wins"}, NEW una \in Sn, NEW wnd \in Nat
    PROVE  [cmd |-> cmd, una |-> una, wnd |-> wnd] \in Segment
  BY DEF Segment, Tell

LEMMA AcknowledgeStep ==
    ASSUME TypeOK, WindowInv, NEW s \in End, NEW seg \in Segment, Acknowledge(s, seg)
    PROVE  /\ rmt_wnd' \in [End -> Nat] /\ snd_buf' \in [End -> Seq(Seg)]
           /\ snd_una' \in [End -> Sn]
           /\ UNCHANGED <<snd_queue, snd_nxt, probing>>
           /\ \A t \in End : /\ SndWindow(snd_buf'[t], snd_nxt[t])
                             /\ snd_una'[t] = UnaOf(t, snd_buf'[t])
                             /\ Keeps(snd_buf'[t], snd_buf[t])
  <1>1. PICK buf : buf = AfterUna(snd_buf[s], seg.una)
    OBVIOUS
  <1>2. PICK rest : rest = IF seg.cmd = "ack" THEN AfterAck(s, buf, seg.sn) ELSE buf
    OBVIOUS
  <1>3. PICK last : last = IF seg.cmd = "ack" THEN Skipped(s, rest, seg.sn) ELSE rest
    OBVIOUS
  <1>4. snd_buf[s] \in Seq(Seg) /\ snd_nxt[s] \in Sn /\ SndWindow(snd_buf[s], snd_nxt[s])
    BY TypeAt DEF WindowInv
  <1>5. buf \in Seq(Seg) /\ Keeps(buf, snd_buf[s])
    BY <1>1, <1>4, AfterUnaKeeps
  <1>6. rest \in Seq(Seg) /\ Keeps(rest, buf)
    BY <1>2, <1>5, AfterAckKeeps, KeepsSelf
  <1>7. last \in Seq(Seg) /\ Keeps(last, rest) /\ UnaOf(s, last) = UnaOf(s, rest)
    BY <1>3, <1>6, SkippedKeeps, KeepsSelf, UnaOfSkipped
  <1>8. Keeps(rest, snd_buf[s])
    BY <1>4, <1>5, <1>6, KeepsTrans
  <1>9. Keeps(last, snd_buf[s])
    BY <1>4, <1>6, <1>7, <1>8, KeepsTrans
  <1>10. SndWindow(last, snd_nxt[s]) /\ SndWindow(rest, snd_nxt[s])
    BY <1>4, <1>6, <1>7, <1>8, <1>9, KeepsWindow
  <1>11. UnaOf(s, rest) \in Sn
    BY <1>4, <1>6, <1>10, Outstanding
  <1>12. /\ rmt_wnd' = [rmt_wnd EXCEPT ![s] = seg.wnd]
         /\ snd_buf' = [snd_buf EXCEPT ![s] = last]
         /\ snd_una' = [snd_una EXCEPT ![s] = UnaOf(s, rest)]
         /\ UNCHANGED <<snd_queue, snd_nxt, probing>>
    BY <1>1, <1>2, <1>3 DEF Acknowledge
  <1>13. rmt_wnd \in [End -> Nat] /\ snd_buf \in [End -> Seq(Seg)] /\ snd_una \in [End -> Sn]
    BY DEF TypeOK
  <1>14. rmt_wnd' \in [End -> Nat] /\ snd_buf' \in [End -> Seq(Seg)]
           /\ snd_una' \in [End -> Sn]
    BY <1>7, <1>11, <1>12, <1>13, SegmentFields
  <1>15. ASSUME NEW t \in End
         PROVE  /\ SndWindow(snd_buf'[t], snd_nxt[t])
                /\ snd_una'[t] = UnaOf(t, snd_buf'[t])
                /\ Keeps(snd_buf'[t], snd_buf[t])
    <2>1. CASE t = s
      <3>1. snd_buf'[s] = last /\ snd_una'[s] = UnaOf(s, rest)
        BY <1>12, <1>13
      <3> QED
        BY <1>7, <1>9, <1>10, <2>1, <3>1
    <2>2. CASE t # s
      <3>1. snd_buf'[t] = snd_buf[t] /\ snd_una'[t] = snd_una[t]
        BY <1>12, <1>13, <2>2
      <3>2. snd_buf[t] \in Seq(Seg)
        BY TypeAt
      <3> QED
        BY <3>1, <3>2, KeepsSelf DEF WindowInv
    <2> QED
      BY <2>1, <2>2
  <1> QED
    BY <1>12, <1>14, <1>15

LEMMA AbsorbStep ==
    ASSUME TypeOK, NEW s \in End, NEW buf \in SUBSET Held, NEW queue \in Seq(Frag),
           RcvWindow(queue, buf, rcv_nxt[s]), Absorb(s, buf, queue)
    PROVE  /\ rcv_queue' \in [End -> Seq(Frag)] /\ rcv_buf' \in [End -> SUBSET Held]
           /\ rcv_nxt' \in [End -> Sn]
           /\ RcvWindow(rcv_queue'[s], rcv_buf'[s], rcv_nxt'[s])
           /\ Settled(rcv_queue'[s], rcv_buf'[s], rcv_nxt'[s])
           /\ \E n \in Nat : /\ n <= RcvWnd
                             /\ Contiguous(buf, rcv_nxt[s], n)
                             /\ rcv_queue'[s] = queue \o RunOf(buf, rcv_nxt[s], n)
                             /\ rcv_buf'[s] = Beyond(buf, rcv_nxt[s], n)
                             /\ rcv_nxt'[s] = Plus(rcv_nxt[s], n)
           /\ \A t \in End \ {s} : /\ rcv_queue'[t] = rcv_queue[t]
                                   /\ rcv_buf'[t] = rcv_buf[t]
                                   /\ rcv_nxt'[t] = rcv_nxt[t]
  <1>1. PICK n : n = Run(buf, rcv_nxt[s], RcvWnd - Len(queue))
    OBVIOUS
  <1>2. rcv_nxt[s] \in Sn
    BY TypeAt
  <1>3. /\ n \in 0..(RcvWnd - Len(queue)) /\ Contiguous(buf, rcv_nxt[s], n)
        /\ queue \o RunOf(buf, rcv_nxt[s], n) \in Seq(Frag)
        /\ Beyond(buf, rcv_nxt[s], n) \in SUBSET Held
        /\ Plus(rcv_nxt[s], n) \in Sn
        /\ RcvWindow(queue \o RunOf(buf, rcv_nxt[s], n), Beyond(buf, rcv_nxt[s], n),
                     Plus(rcv_nxt[s], n))
        /\ Settled(queue \o RunOf(buf, rcv_nxt[s], n), Beyond(buf, rcv_nxt[s], n),
                   Plus(rcv_nxt[s], n))
    BY <1>1, <1>2, AbsorbWindow
  <1>4. /\ rcv_queue' = [rcv_queue EXCEPT ![s] = queue \o RunOf(buf, rcv_nxt[s], n)]
        /\ rcv_buf' = [rcv_buf EXCEPT ![s] = Beyond(buf, rcv_nxt[s], n)]
        /\ rcv_nxt' = [rcv_nxt EXCEPT ![s] = Plus(rcv_nxt[s], n)]
    BY <1>1 DEF Absorb
  <1>5. rcv_queue \in [End -> Seq(Frag)] /\ rcv_buf \in [End -> SUBSET Held]
          /\ rcv_nxt \in [End -> Sn]
    BY DEF TypeOK
  <1>6. rcv_queue' \in [End -> Seq(Frag)] /\ rcv_buf' \in [End -> SUBSET Held]
          /\ rcv_nxt' \in [End -> Sn]
    BY <1>3, <1>4, <1>5
  <1>7. /\ rcv_queue'[s] = queue \o RunOf(buf, rcv_nxt[s], n)
        /\ rcv_buf'[s] = Beyond(buf, rcv_nxt[s], n)
        /\ rcv_nxt'[s] = Plus(rcv_nxt[s], n)
    BY <1>4, <1>5
  <1>8. \A t \in End \ {s} : /\ rcv_queue'[t] = rcv_queue[t]
                             /\ rcv_buf'[t] = rcv_buf[t]
                             /\ rcv_nxt'[t] = rcv_nxt[t]
    BY <1>4, <1>5
  <1>9. n \in Nat /\ n <= RcvWnd
    <2>1. Len(queue) \in Nat /\ RcvWnd \in Nat
      BY Constants
    <2> QED
      BY <1>3, <2>1
  <1>10. /\ RcvWindow(rcv_queue'[s], rcv_buf'[s], rcv_nxt'[s])
         /\ Settled(rcv_queue'[s], rcv_buf'[s], rcv_nxt'[s])
    BY <1>3, <1>7
  <1> QED
    BY <1>3, <1>6, <1>7, <1>8, <1>9, <1>10

(* A segment is taken when it is inside the window and new.                *)
Repeats(s, seg) == Diff(seg.sn, rcv_nxt[s]) < 0 \/ \E held \in rcv_buf[s] : held.sn = seg.sn

LEMMA InputPushStep ==
    ASSUME TypeOK, WindowInv, NEW s \in End, NEW seg \in Segment, seg.cmd = "push",
           InputPush(s, seg)
    PROVE  /\ acklist' \in [End -> SUBSET Sn]
           /\ acklist' = acklist \/ acklist' = [acklist EXCEPT ![s] = @ \cup {seg.sn}]
           /\ \/ /\ UNCHANGED <<rcv_nxt, rcv_buf, rcv_queue>>
                 /\ acklist' = acklist \/ Repeats(s, seg)
              \/ LET held == [sn |-> seg.sn, frag |-> seg.frag]
                 IN  /\ held \in Held
                     /\ Diff(seg.sn, rcv_nxt[s]) \in 0..(RcvWnd - 1)
                     /\ RcvWindow(rcv_queue[s], rcv_buf[s] \cup {held}, rcv_nxt[s])
                     /\ Absorb(s, rcv_buf[s] \cup {held}, rcv_queue[s])
  <1> DEFINE held == [sn |-> seg.sn, frag |-> seg.frag]
  <1>1. seg.sn \in Sn /\ seg.frag \in Frag /\ held \in Held
    BY SegmentFields DEF Held
  <1>2. rcv_nxt[s] \in Sn /\ acklist \in [End -> SUBSET Sn]
    BY TypeAt DEF TypeOK
  <1>3. CASE Diff(seg.sn, Plus(rcv_nxt[s], RcvWnd)) >= 0
    BY <1>2, <1>3 DEF InputPush, recvVars
  <1>4. CASE ~(Diff(seg.sn, Plus(rcv_nxt[s], RcvWnd)) >= 0)
    <2>1. acklist' = [acklist EXCEPT ![s] = @ \cup {seg.sn}]
      BY <1>4 DEF InputPush
    <2>2. acklist' \in [End -> SUBSET Sn]
      BY <1>1, <1>2, <2>1
    <2>3. CASE Repeats(s, seg)
      <3>1. UNCHANGED <<rcv_nxt, rcv_buf, rcv_queue>>
        BY <1>4, <2>3 DEF InputPush, Repeats
      <3> QED
        BY <2>1, <2>2, <2>3, <3>1
    <2>4. CASE ~Repeats(s, seg)
      <3>1. Absorb(s, rcv_buf[s] \cup {held}, rcv_queue[s])
        BY <1>4, <2>4 DEF InputPush, Repeats
      <3>2. PICK d \in Nat : d = Diff(seg.sn, rcv_nxt[s])
        BY <1>1, <1>2, <2>4, DiffProperties DEF Repeats
      <3>3. 2 * d < Wrap
        BY <1>1, <1>2, <3>2, DiffProperties
      <3>4. d < RcvWnd
        <4>1. 2 * (d - RcvWnd) < Wrap /\ 2 * (d - RcvWnd) >= -Wrap
          BY <3>3, Constants, WrapAssumption
        <4>2. Diff(seg.sn, Plus(rcv_nxt[s], RcvWnd)) = d - RcvWnd
          BY <1>1, <1>2, <3>2, <4>1, Constants, DiffAhead
        <4> QED
          BY <1>4, <4>2, Constants
      <3>5. d \in 0..(RcvWnd - 1)
        BY <3>4, Constants
      <3>6. RcvWindow(rcv_queue[s], rcv_buf[s] \cup {held}, rcv_nxt[s])
        <4>1. RcvWindow(rcv_queue[s], rcv_buf[s], rcv_nxt[s])
          BY DEF WindowInv
        <4>2. IsFiniteSet(rcv_buf[s] \cup {held})
          BY <4>1, FS_AddElement DEF RcvWindow
        <4>3. \A g \in rcv_buf[s] \cup {held} : Diff(g.sn, rcv_nxt[s]) \in 0..(RcvWnd - 1)
          <5>1. held.sn = seg.sn
            OBVIOUS
          <5> HIDE DEF held
          <5> QED
            BY <3>2, <3>5, <4>1, <5>1 DEF RcvWindow
        <4> QED
          BY <4>1, <4>2, <4>3 DEF RcvWindow
      <3> QED
        BY <1>1, <2>1, <2>2, <3>1, <3>2, <3>5, <3>6
    <2> QED
      BY <2>3, <2>4
  <1> QED
    BY <1>3, <1>4

LEMMA FirstEndProperties ==
    ASSUME NEW queue \in Seq(Frag), queue # <<>>
    PROVE  /\ FirstEnd(queue) \in 1..Len(queue)
           /\ FirstEnd(queue) < Len(queue) => queue[FirstEnd(queue)].frg = 0
           /\ \A i \in 1..Len(queue) : queue[i].frg = 0 => FirstEnd(queue) <= i
  <1> DEFINE T == {Len(queue)} \cup {i \in DOMAIN queue : queue[i].frg = 0}
  <1>1. DOMAIN queue = 1..Len(queue) /\ Len(queue) \in Nat \ {0}
    BY EmptySeq
  <1>2. T \subseteq 1..Len(queue) /\ T # {}
    BY <1>1
  <1>3. T \subseteq Nat
    BY <1>2
  <1>4. Min(T) \in T /\ \A y \in T : Min(T) <= y
    BY <1>2, <1>3, MinProperties
  <1>5. FirstEnd(queue) = Min(T)
    BY DEF FirstEnd
  <1>6. Min(T) < Len(queue) => queue[Min(T)].frg = 0
    BY <1>1, <1>4
  <1>7. ASSUME NEW i \in 1..Len(queue), queue[i].frg = 0 PROVE i \in T
    BY <1>1, <1>7
  <1> HIDE DEF T
  <1> QED
    BY <1>2, <1>4, <1>5, <1>6, <1>7

LEMMA PrefixSuffix ==
    ASSUME NEW queue \in Seq(Frag), NEW n \in 0..Len(queue)
    PROVE  /\ SubSeq(queue, 1, n) \in Seq(Frag) /\ Len(SubSeq(queue, 1, n)) = n
           /\ \A i \in 1..n : SubSeq(queue, 1, n)[i] = queue[i]
           /\ SubSeq(queue, n + 1, Len(queue)) \in Seq(Frag)
           /\ Len(SubSeq(queue, n + 1, Len(queue))) = Len(queue) - n
           /\ \A i \in 1..(Len(queue) - n) :
                 SubSeq(queue, n + 1, Len(queue))[i] = queue[n + i]
  <1>1. PICK k \in Nat : k = Len(queue)
    BY LenProperties
  <1>2. n \in 0..k /\ DOMAIN queue = 1..k /\ \A i \in 1..k : queue[i] \in Frag
    BY <1>1
  <1>3. /\ SubSeq(queue, 1, n) \in Seq(Frag) /\ Len(SubSeq(queue, 1, n)) = n
        /\ \A i \in 1..n : SubSeq(queue, 1, n)[i] = queue[i]
    <2>1. \A i \in 1..n : queue[i] \in Frag
      BY <1>2
    <2>2. /\ SubSeq(queue, 1, n) \in Seq(Frag)
          /\ Len(SubSeq(queue, 1, n)) = IF 1 <= n THEN n - 1 + 1 ELSE 0
          /\ \A i \in 1..(n - 1 + 1) : SubSeq(queue, 1, n)[i] = queue[1 + i - 1]
      BY <1>2, <2>1, SubSeqProperties
    <2> QED
      BY <1>2, <2>2
  <1>4. PICK t : t = SubSeq(queue, n + 1, k)
    OBVIOUS
  <1>5. /\ t \in Seq(Frag)
        /\ Len(t) = IF n + 1 <= k THEN k - (n + 1) + 1 ELSE 0
        /\ \A i \in 1..(k - (n + 1) + 1) : t[i] = queue[(n + 1) + i - 1]
    <2>1. \A i \in (n + 1)..k : queue[i] \in Frag
      BY <1>2
    <2>2. n + 1 \in Int /\ k \in Int
      BY <1>2
    <2> QED
      BY <1>4, <2>1, <2>2, SubSeqProperties
  <1>6. Len(t) = k - n
    <2>1. CASE n < k
      BY <1>2, <1>5, <2>1
    <2>2. CASE n = k
      BY <1>2, <1>5, <2>2
    <2>3. n < k \/ n = k
      BY <1>2
    <2> QED
      BY <2>1, <2>2, <2>3
  <1>7. ASSUME NEW i \in 1..(k - n) PROVE t[i] = queue[n + i]
    <2>1. i \in 1..(k - (n + 1) + 1) /\ (n + 1) + i - 1 = n + i
      BY <1>2
    <2> QED
      BY <1>5, <2>1
  <1> QED
    BY <1>1, <1>3, <1>4, <1>5, <1>6, <1>7

LEMMA FragmentsType ==
    ASSUME NEW m \in Nat, NEW count \in Nat \ {0}
    PROVE  Fragments(m, count) \in Seq(Frag)
  <1>1. \A i \in 1..count : [msg |-> m, frg |-> count - i] \in Frag
    BY DEF Frag
  <1>2. Fragments(m, count) \in [1..count -> Frag]
    BY <1>1 DEF Fragments
  <1> QED
    BY <1>2

LEMMA SendTypes ==
    ASSUME TypeOK, WindowInv, NEW s \in End, NEW count \in Counts, KcpSend(s, count)
    PROVE  TypeOK' /\ WindowInv'
  <1>1. count \in Nat \ {0} /\ MaxMsgs[s] \in Nat
    BY BoundsAssumption
  <1>2. /\ given' = [given EXCEPT
              ![s] = Append(@, [first |-> Total(given[s]), count |-> count])]
        /\ snd_queue' = [snd_queue EXCEPT ![s] = @ \o Fragments(Len(given[s]) + 1, count)]
        /\ UNCHANGED <<snd_buf, snd_una, snd_nxt, rmt_wnd, probing, rcv_nxt, rcv_buf,
                       rcv_queue, acklist, probe, net, delivered, offered, promised>>
    BY DEF KcpSend, recvVars
  <1>3. given[s] \in Seq(Msg) /\ snd_queue[s] \in Seq(Frag) /\ Len(given[s]) \in Nat
    BY TypeAt, LenProperties
  <1>4. Total(given[s]) \in Nat
    <2>1. CASE given[s] = <<>>
      BY <2>1 DEF Total
    <2>2. CASE given[s] # <<>>
      <3>1. Last(given[s]) \in Msg
        BY <1>3, <2>2 DEF Last
      <3> QED
        BY <2>2, <3>1 DEF Total, Msg
    <2> QED
      BY <2>1, <2>2
  <1>5. [first |-> Total(given[s]), count |-> count] \in Msg
    BY <1>1, <1>4 DEF Msg
  <1>6. Append(given[s], [first |-> Total(given[s]), count |-> count]) \in Seq(Msg)
    BY <1>3, <1>5
  <1>7. Fragments(Len(given[s]) + 1, count) \in Seq(Frag)
    <2>1. Len(given[s]) + 1 \in Nat
      BY <1>3
    <2> QED
      BY <1>1, <2>1, FragmentsType
  <1>8. snd_queue[s] \o Fragments(Len(given[s]) + 1, count) \in Seq(Frag)
    BY <1>3, <1>7, ConcatProperties
  <1>9. given \in [End -> Seq(Msg)] /\ snd_queue \in [End -> Seq(Frag)]
    BY DEF TypeOK
  <1>10. given' \in [End -> Seq(Msg)] /\ snd_queue' \in [End -> Seq(Frag)]
    BY <1>2, <1>6, <1>8, <1>9
  <1>11. TypeOK'
    BY <1>2, <1>10 DEF TypeOK
  <1>12. \A t \in End : UnaOf(t, snd_buf[t])' = UnaOf(t, snd_buf[t])
    BY <1>2 DEF UnaOf
  <1>13. WindowInv'
    BY <1>2, <1>12 DEF WindowInv
  <1> QED
    BY <1>11, <1>13

LEMMA RecvTypes ==
    ASSUME TypeOK, WindowInv, NEW s \in End, KcpRecv(s)
    PROVE  TypeOK' /\ WindowInv'
  <1>1. rcv_queue[s] \in Seq(Frag) /\ rcv_queue[s] # <<>> /\ rcv_nxt[s] \in Sn
    BY TypeAt DEF KcpRecv, CanPeek
  <1>2. PICK n \in 1..Len(rcv_queue[s]) : n = FirstEnd(rcv_queue[s])
    BY <1>1, FirstEndProperties
  <1>3. PICK queue : queue = SubSeq(rcv_queue[s], n + 1, Len(rcv_queue[s]))
    OBVIOUS
  <1>4. /\ delivered' = [delivered EXCEPT ![s] = Append(@, SubSeq(rcv_queue[s], 1, n))]
        /\ Absorb(s, rcv_buf[s], queue)
        /\ UNCHANGED <<snd_queue, snd_buf, snd_una, snd_nxt, rmt_wnd, probing,
                       acklist, net, given, offered, promised>>
    BY <1>2, <1>3 DEF KcpRecv, sendVars
  <1>5. probe' \in [End -> SUBSET {"ask", "tell"}]
    <2>1. probe \in [End -> SUBSET {"ask", "tell"}]
      BY DEF TypeOK
    <2>2. PICK b \in BOOLEAN :
             probe' = [probe EXCEPT ![s] = IF b THEN @ \cup {"tell"} ELSE @]
      <3>1. (Len(rcv_queue[s]) >= RcvWnd /\ Len(rcv_queue'[s]) < RcvWnd) \in BOOLEAN
        OBVIOUS
      <3> QED
        BY <3>1 DEF KcpRecv
    <2>3. (IF b THEN probe[s] \cup {"tell"} ELSE probe[s]) \in SUBSET {"ask", "tell"}
      BY <2>1
    <2> QED
      BY <2>1, <2>2, <2>3
  <1>6. n \in 0..Len(rcv_queue[s]) /\ Len(rcv_queue[s]) \in Nat
    BY <1>1, LenProperties
  <1>7. /\ SubSeq(rcv_queue[s], 1, n) \in Seq(Frag)
        /\ queue \in Seq(Frag) /\ Len(queue) = Len(rcv_queue[s]) - n
    BY <1>1, <1>3, <1>6, PrefixSuffix
  <1>8. RcvWindow(rcv_queue[s], rcv_buf[s], rcv_nxt[s]) /\ rcv_buf[s] \in SUBSET Held
    BY TypeAt DEF WindowInv
  <1>9. RcvWindow(queue, rcv_buf[s], rcv_nxt[s])
    <2>1. Len(queue) <= RcvWnd
      BY <1>6, <1>7, <1>8, Constants DEF RcvWindow
    <2> QED
      BY <1>8, <2>1 DEF RcvWindow
  <1>10. delivered' \in [End -> Seq(Seq(Frag))]
    <2>1. delivered \in [End -> Seq(Seq(Frag))] /\ delivered[s] \in Seq(Seq(Frag))
      BY DEF TypeOK
    <2>2. Append(delivered[s], SubSeq(rcv_queue[s], 1, n)) \in Seq(Seq(Frag))
      BY <1>7, <2>1, AppendProperties
    <2> QED
      BY <1>4, <2>1, <2>2
  <1>11. /\ rcv_queue' \in [End -> Seq(Frag)] /\ rcv_buf' \in [End -> SUBSET Held]
         /\ rcv_nxt' \in [End -> Sn]
         /\ RcvWindow(rcv_queue'[s], rcv_buf'[s], rcv_nxt'[s])
         /\ Settled(rcv_queue'[s], rcv_buf'[s], rcv_nxt'[s])
         /\ \A t \in End \ {s} : /\ rcv_queue'[t] = rcv_queue[t]
                                 /\ rcv_buf'[t] = rcv_buf[t]
                                 /\ rcv_nxt'[t] = rcv_nxt[t]
    BY <1>4, <1>7, <1>8, <1>9, AbsorbStep
  <1>12. TypeOK'
    BY <1>4, <1>5, <1>10, <1>11 DEF TypeOK
  <1>13. \A t \in End : UnaOf(t, snd_buf[t])' = UnaOf(t, snd_buf[t])
    BY <1>4 DEF UnaOf
  <1>14. \A t \in End : /\ RcvWindow(rcv_queue'[t], rcv_buf'[t], rcv_nxt'[t])
                        /\ Settled(rcv_queue'[t], rcv_buf'[t], rcv_nxt'[t])
    BY <1>11 DEF WindowInv
  <1>15. WindowInv'
    BY <1>4, <1>13, <1>14 DEF WindowInv
  <1> QED
    BY <1>12, <1>15

LEMMA ArriveTypes ==
    ASSUME TypeOK, WindowInv, NEW s \in End, NEW seg \in net[s], NEW keep \in BOOLEAN,
           Arrive(s, seg, keep)
    PROVE  TypeOK' /\ WindowInv'
  <1>1. seg \in Segment /\ KcpInput(s, seg)
    BY TypeAt DEF Arrive
  <1>2. net' \in [End -> SUBSET Segment]
    BY DEF Arrive, TypeOK
  <1>3. Acknowledge(s, seg) /\ UNCHANGED <<given, delivered, offered, promised>>
    BY <1>1 DEF KcpInput, historyVars
  <1>4. /\ rmt_wnd' \in [End -> Nat] /\ snd_buf' \in [End -> Seq(Seg)]
        /\ snd_una' \in [End -> Sn]
        /\ UNCHANGED <<snd_queue, snd_nxt, probing>>
        /\ \A t \in End : /\ SndWindow(snd_buf'[t], snd_nxt[t])
                          /\ snd_una'[t] = UnaOf(t, snd_buf'[t])
    BY <1>1, <1>3, AcknowledgeStep
  <1>5. probe' \in [End -> SUBSET {"ask", "tell"}]
    <2>1. probe \in [End -> SUBSET {"ask", "tell"}]
      BY DEF TypeOK
    <2>2. probe' = [probe EXCEPT ![s] = IF seg.cmd = "wask" THEN @ \cup {"tell"} ELSE @]
      BY <1>1 DEF KcpInput
    <2>3. (IF seg.cmd = "wask" THEN probe[s] \cup {"tell"} ELSE probe[s])
             \in SUBSET {"ask", "tell"}
      BY <2>1
    <2> QED
      BY <2>1, <2>2, <2>3
  <1>6. /\ acklist' \in [End -> SUBSET Sn] /\ rcv_queue' \in [End -> Seq(Frag)]
        /\ rcv_buf' \in [End -> SUBSET Held] /\ rcv_nxt' \in [End -> Sn]
        /\ \A t \in End : /\ RcvWindow(rcv_queue'[t], rcv_buf'[t], rcv_nxt'[t])
                          /\ Settled(rcv_queue'[t], rcv_buf'[t], rcv_nxt'[t])
    <2>1. /\ acklist \in [End -> SUBSET Sn] /\ rcv_queue \in [End -> Seq(Frag)]
          /\ rcv_buf \in [End -> SUBSET Held] /\ rcv_nxt \in [End -> Sn]
      BY DEF TypeOK
    <2>2. CASE seg.cmd # "push"
      <3>1. UNCHANGED <<rcv_nxt, rcv_buf, rcv_queue, acklist>>
        BY <1>1, <2>2 DEF KcpInput, recvVars
      <3> QED
        BY <2>1, <3>1 DEF WindowInv
    <2>3. CASE seg.cmd = "push"
      <3>1. InputPush(s, seg)
        BY <1>1, <2>3 DEF KcpInput
      <3>2. PICK held : held = [sn |-> seg.sn, frag |-> seg.frag]
        OBVIOUS
      <3>3. /\ acklist' \in [End -> SUBSET Sn]
            /\ \/ UNCHANGED <<rcv_nxt, rcv_buf, rcv_queue>>
               \/ /\ held \in Held
                  /\ RcvWindow(rcv_queue[s], rcv_buf[s] \cup {held}, rcv_nxt[s])
                  /\ Absorb(s, rcv_buf[s] \cup {held}, rcv_queue[s])
        BY <1>1, <2>3, <3>1, <3>2, InputPushStep
      <3>4. CASE UNCHANGED <<rcv_nxt, rcv_buf, rcv_queue>>
        BY <2>1, <3>3, <3>4 DEF WindowInv
      <3>5. CASE /\ held \in Held
                 /\ RcvWindow(rcv_queue[s], rcv_buf[s] \cup {held}, rcv_nxt[s])
                 /\ Absorb(s, rcv_buf[s] \cup {held}, rcv_queue[s])
        <4>1. rcv_buf[s] \cup {held} \in SUBSET Held /\ rcv_queue[s] \in Seq(Frag)
          BY <2>1, <3>5
        <4>2. /\ rcv_queue' \in [End -> Seq(Frag)] /\ rcv_buf' \in [End -> SUBSET Held]
              /\ rcv_nxt' \in [End -> Sn]
              /\ RcvWindow(rcv_queue'[s], rcv_buf'[s], rcv_nxt'[s])
              /\ Settled(rcv_queue'[s], rcv_buf'[s], rcv_nxt'[s])
              /\ \A t \in End \ {s} : /\ rcv_queue'[t] = rcv_queue[t]
                                      /\ rcv_buf'[t] = rcv_buf[t]
                                      /\ rcv_nxt'[t] = rcv_nxt[t]
          BY <3>5, <4>1, AbsorbStep
        <4> QED
          BY <3>3, <4>2 DEF WindowInv
      <3> QED
        BY <3>3, <3>4, <3>5
    <2> QED
      BY <2>2, <2>3
  <1>7. {snd_una, snd_nxt, rcv_nxt}' \subseteq [End -> Sn]
    BY <1>4, <1>6 DEF TypeOK
  <1>8. TypeOK'
    BY <1>2, <1>3, <1>4, <1>5, <1>6, <1>7 DEF TypeOK
  <1>9. \A t \in End : UnaOf(t, snd_buf[t])' = UnaOf(t, snd_buf'[t])
    BY <1>4 DEF UnaOf
  <1>10. WindowInv'
    BY <1>4, <1>6, <1>9 DEF WindowInv
  <1> QED
    BY <1>8, <1>10

(* The segments that enter snd_buf in a flush, and what they do to it. *)
Entering(s) ==
    [i \in 1..Moves(s) |-> NewSeg(Plus(snd_nxt[s], i - 1), snd_queue[s][i])]

LEMMA BufferedProperties ==
    ASSUME TypeOK, WindowInv, NEW s \in End
    PROVE  /\ Moves(s) \in 0..Len(snd_queue[s])
           /\ Buffered(s) \in Seq(Seg)
           /\ Len(Buffered(s)) = Len(snd_buf[s]) + Moves(s)
           /\ \A i \in 1..Len(snd_buf[s]) : Buffered(s)[i] = snd_buf[s][i]
           /\ \A i \in 1..Moves(s) :
                 /\ Buffered(s)[Len(snd_buf[s]) + i].sn = Plus(snd_nxt[s], i - 1)
                 /\ Buffered(s)[Len(snd_buf[s]) + i].frag = snd_queue[s][i]
           /\ SndWindow(Buffered(s), Plus(snd_nxt[s], Moves(s)))
  <1>1. /\ snd_buf[s] \in Seq(Seg) /\ snd_nxt[s] \in Sn /\ snd_queue[s] \in Seq(Frag)
        /\ rmt_wnd[s] \in Nat /\ snd_una[s] \in Sn
        /\ SndWindow(snd_buf[s], snd_nxt[s]) /\ snd_una[s] = UnaOf(s, snd_buf[s])
    BY TypeAt DEF WindowInv
  <1>2. PICK m \in Nat : /\ m = Moves(s) /\ m \in 0..Len(snd_queue[s])
                         /\ m # 0 => Diff(snd_nxt[s], snd_una[s]) + m <= SndWnd
                         /\ m <= SndWnd
    BY <1>1, MovesProperties
  <1>3. PICK added : added = Entering(s)
    OBVIOUS
  <1>4. added = [i \in 1..m |-> NewSeg(Plus(snd_nxt[s], i - 1), snd_queue[s][i])]
    BY <1>2, <1>3 DEF Entering
  <1>5. ASSUME NEW i \in 1..m
        PROVE  /\ added[i] \in Seg /\ added[i].sn = Plus(snd_nxt[s], i - 1)
               /\ added[i].frag = snd_queue[s][i]
    <2>1. Plus(snd_nxt[s], i - 1) \in Sn
      <3>1. snd_nxt[s] \in Int /\ i - 1 \in Int
        BY <1>1, SnClock
      <3> QED
        BY <3>1, PlusType
    <2>2. snd_queue[s][i] \in Frag
      BY <1>1, <1>2
    <2>3. 0 \in 0..FastResend
      BY DEF FastResend
    <2> QED
      BY <1>4, <2>1, <2>2, <2>3 DEF NewSeg, Seg
  <1>6. added \in [1..m -> Seg]
    BY <1>4, <1>5
  <1>7. added \in Seq(Seg) /\ Len(added) = m
    BY <1>2, <1>6
  <1>8. snd_buf[s] # <<>> => snd_una[s] = snd_buf[s][1].sn
    BY <1>1, Outstanding
  <1>9. Buffered(s) = snd_buf[s] \o added
    BY <1>3 DEF Buffered, Entering
  <1>10. m # 0 /\ snd_buf[s] # <<>> => Diff(snd_nxt[s], snd_buf[s][1].sn) + m <= SndWnd
    BY <1>2, <1>8
  <1>11. /\ snd_buf[s] \o added \in Seq(Seg)
         /\ Len(snd_buf[s] \o added) = Len(snd_buf[s]) + m
         /\ \A i \in 1..Len(snd_buf[s]) : (snd_buf[s] \o added)[i] = snd_buf[s][i]
         /\ \A i \in 1..m : (snd_buf[s] \o added)[Len(snd_buf[s]) + i] = added[i]
         /\ SndWindow(snd_buf[s] \o added, Plus(snd_nxt[s], m))
    BY <1>1, <1>2, <1>5, <1>7, <1>10, GrownWindow
  <1> QED
    BY <1>2, <1>5, <1>9, <1>11

LEMMA OutputType ==
    ASSUME TypeOK, WindowInv, NEW s \in End, NEW late, NEW expires
    PROVE  Output(s, late, expires) \subseteq Segment
  <1>1. rcv_nxt[s] \in Sn /\ Unused(s) \in Nat /\ acklist[s] \in SUBSET Sn
    BY TypeAt, UnusedType
  <1>2. Acks(s) \subseteq Segment
    BY <1>1, AckBuilt DEF Acks
  <1>3. Probes(s, expires) \subseteq Segment
    <2> DEFINE cmds == (IF Asks(s, expires) \/ "ask" \in probe[s] THEN {"wask"} ELSE {})
                          \cup (IF "tell" \in probe[s] THEN {"wins"} ELSE {})
    <2>1. cmds \subseteq {"wask", "wins"}
      OBVIOUS
    <2>2. Probes(s, expires) =
             {[cmd |-> cmd, una |-> rcv_nxt[s], wnd |-> Unused(s)] : cmd \in cmds}
      BY DEF Probes
    <2> HIDE DEF cmds
    <2> QED
      BY <1>1, <2>1, <2>2, TellBuilt
  <1>4. Pushes(s, Buffered(s), late) \subseteq Segment
    <2>1. PICK buf \in Seq(Seg) : buf = Buffered(s)
      BY BufferedProperties
    <2>2. ASSUME NEW i \in DOMAIN buf PROVE PushOf(s, buf[i]) \in Segment
      <3>1. buf[i] \in Seg
        OBVIOUS
      <3>2. buf[i].sn \in Sn /\ buf[i].frag \in Frag
        BY <3>1, SegFields
      <3> QED
        BY <1>1, <3>2, PushBuilt DEF PushOf
    <2> QED
      BY <2>1, <2>2 DEF Pushes
  <1> QED
    BY <1>2, <1>3, <1>4 DEF Output

LEMMA InOrderProperties ==
    ASSUME TypeOK, WindowInv, NEW s \in End
    PROVE  \E n \in Nat :
              /\ Contiguous(rcv_buf[s], rcv_nxt[s], n)
              /\ (\A seg \in rcv_buf[s] : seg.sn # rcv_nxt[s]) => n = 0
              /\ InOrder(s) = rcv_queue[s] \o RunOf(rcv_buf[s], rcv_nxt[s], n)
              /\ InOrder(s) \in Seq(Frag)
              /\ Len(InOrder(s)) = Len(rcv_queue[s]) + n
  <1>1. Cardinality(rcv_buf[s]) \in Nat
    BY FS_CardinalityType DEF WindowInv, RcvWindow
  <1>2. PICK n \in Nat : /\ n = Run(rcv_buf[s], rcv_nxt[s], Cardinality(rcv_buf[s]))
                         /\ Contiguous(rcv_buf[s], rcv_nxt[s], n)
    BY <1>1, RunProperties
  <1>3. rcv_buf[s] \in SUBSET Held /\ rcv_nxt[s] \in Sn /\ rcv_queue[s] \in Seq(Frag)
    BY TypeAt
  <1>4. /\ RunOf(rcv_buf[s], rcv_nxt[s], n) \in Seq(Frag)
        /\ Len(RunOf(rcv_buf[s], rcv_nxt[s], n)) = n
    BY <1>2, <1>3, RunOfProperties
  <1>5. InOrder(s) = rcv_queue[s] \o RunOf(rcv_buf[s], rcv_nxt[s], n)
    BY <1>2 DEF InOrder
  <1>6. InOrder(s) \in Seq(Frag) /\ Len(InOrder(s)) = Len(rcv_queue[s]) + n
    <2>1. PICK q \in Seq(Frag), r \in Seq(Frag) :
             q = rcv_queue[s] /\ r = RunOf(rcv_buf[s], rcv_nxt[s], n)
      BY <1>3, <1>4
    <2>2. q \o r \in Seq(Frag) /\ Len(q \o r) = Len(q) + Len(r)
      BY ConcatProperties
    <2> QED
      BY <1>4, <1>5, <2>1, <2>2
  <1>7. ASSUME \A seg \in rcv_buf[s] : seg.sn # rcv_nxt[s] PROVE n = 0
    <2>1. SUFFICES ASSUME n # 0 PROVE FALSE
      OBVIOUS
    <2>2. 0 \in 0..(n - 1)
      BY <2>1
    <2>3. \E seg \in rcv_buf[s] : seg.sn = Plus(rcv_nxt[s], 0)
      BY <1>2, <2>2 DEF Contiguous
    <2> QED
      BY <1>3, <1>7, <2>3, PlusZero
  <1> QED
    BY <1>2, <1>5, <1>6, <1>7

LEMMA GotType ==
    ASSUME TypeOK, WindowInv, NEW s \in End
    PROVE  Got(s) \in Nat
  <1>1. InOrder(s) \in Seq(Frag)
    BY InOrderProperties
  <1>2. IsFiniteSet(DOMAIN InOrder(s))
    BY <1>1, FS_Interval
  <1>3. Cardinality({i \in DOMAIN InOrder(s) : InOrder(s)[i].frg = 0}) \in Nat
    BY <1>2, FS_Subset, FS_CardinalityType
  <1>4. Len(delivered[s]) \in Nat
    BY TypeAt, LenProperties
  <1> QED
    BY <1>3, <1>4 DEF Got

LEMMA FlushTypes ==
    ASSUME TypeOK, WindowInv, NEW s \in End, NEW late, NEW expires, NEW kept,
           KcpFlush(s, late, expires, kept)
    PROVE  TypeOK' /\ WindowInv'
  <1>1. PICK m : m = Moves(s)
    OBVIOUS
  <1>2. PICK buf : buf = AfterSend(Buffered(s), late)
    OBVIOUS
  <1>3. /\ net' = [net EXCEPT ![Peer(s)] = @ \cup kept] /\ kept \subseteq Segment
        /\ acklist' = [acklist EXCEPT ![s] = {}]
        /\ probing' = [probing EXCEPT ![s] = rmt_wnd[s] = 0]
        /\ probe' = [probe EXCEPT ![s] = {}]
        /\ snd_queue' = [snd_queue EXCEPT ![s] = SubSeq(@, m + 1, Len(@))]
        /\ snd_buf' = [snd_buf EXCEPT ![s] = buf]
        /\ snd_nxt' = [snd_nxt EXCEPT ![s] = Plus(@, m)]
        /\ offered' = [offered EXCEPT ![s] = Len(given[s])]
        /\ promised' = [promised EXCEPT ![s] = Got(s)]
        /\ UNCHANGED <<snd_una, rmt_wnd, rcv_nxt, rcv_buf, rcv_queue, given, delivered>>
    BY <1>1, <1>2, OutputType DEF KcpFlush, Transmit
  <1>4. /\ m \in 0..Len(snd_queue[s]) /\ Buffered(s) \in Seq(Seg)
        /\ Len(Buffered(s)) = Len(snd_buf[s]) + m
        /\ \A i \in 1..Len(snd_buf[s]) : Buffered(s)[i] = snd_buf[s][i]
        /\ \A i \in 1..m : Buffered(s)[Len(snd_buf[s]) + i].sn = Plus(snd_nxt[s], i - 1)
        /\ SndWindow(Buffered(s), Plus(snd_nxt[s], m))
    BY <1>1, BufferedProperties
  <1>5. /\ buf \in Seq(Seg) /\ Len(buf) = Len(Buffered(s))
        /\ \A i \in DOMAIN Buffered(s) : buf[i].sn = Buffered(s)[i].sn
        /\ SndWindow(buf, Plus(snd_nxt[s], m))
    BY <1>2, <1>4, AfterSendKeeps, KeepsWindow
  <1>6. /\ snd_queue[s] \in Seq(Frag) /\ snd_buf[s] \in Seq(Seg) /\ snd_nxt[s] \in Sn
        /\ Len(given[s]) \in Nat /\ Got(s) \in Nat /\ Len(snd_buf[s]) \in Nat
    BY TypeAt, LenProperties, GotType
  <1>7. m \in Nat
    <2>1. Len(snd_queue[s]) \in Nat
      BY <1>6, LenProperties
    <2> QED
      BY <1>4, <2>1
  <1>8. Plus(snd_nxt[s], m) \in Sn
    <2>1. snd_nxt[s] \in Int /\ m \in Int
      BY <1>6, <1>7, SnClock
    <2> QED
      BY <2>1, PlusType
  <1>9. SubSeq(snd_queue[s], m + 1, Len(snd_queue[s])) \in Seq(Frag)
    BY <1>4, <1>6, PrefixSuffix
  <1>10. /\ snd_queue \in [End -> Seq(Frag)] /\ snd_buf \in [End -> Seq(Seg)]
         /\ snd_nxt \in [End -> Sn] /\ snd_una \in [End -> Sn] /\ rcv_nxt \in [End -> Sn]
         /\ acklist \in [End -> SUBSET Sn] /\ net \in [End -> SUBSET Segment]
         /\ probing \in [End -> BOOLEAN] /\ probe \in [End -> SUBSET {"ask", "tell"}]
         /\ offered \in [End -> Nat] /\ promised \in [End -> Nat]
    BY DEF TypeOK
  <1>11. snd_queue' \in [End -> Seq(Frag)] /\ snd_buf' \in [End -> Seq(Seg)]
           /\ snd_nxt' \in [End -> Sn]
    BY <1>3, <1>5, <1>8, <1>9, <1>10
  <1>12. net' \in [End -> SUBSET Segment]
    BY <1>3, <1>10
  <1>13. /\ acklist' \in [End -> SUBSET Sn] /\ probing' \in [End -> BOOLEAN]
         /\ probe' \in [End -> SUBSET {"ask", "tell"}]
         /\ offered' \in [End -> Nat] /\ promised' \in [End -> Nat]
    BY <1>3, <1>6, <1>10
  <1>14. TypeOK'
    BY <1>3, <1>10, <1>11, <1>12, <1>13 DEF TypeOK
  <1>15. snd_buf'[s] = buf /\ snd_nxt'[s] = Plus(snd_nxt[s], m)
    BY <1>3, <1>10
  <1>16. snd_una[s] = IF buf = <<>> THEN Plus(snd_nxt[s], m) ELSE Head(buf).sn
    <2>1. snd_una[s] = UnaOf(s, snd_buf[s])
      BY DEF WindowInv
    <2>2. CASE snd_buf[s] = <<>> /\ m = 0
      <3>1. buf = <<>> /\ snd_una[s] = snd_nxt[s]
        BY <1>4, <1>5, <2>1, <2>2 DEF UnaOf
      <3> QED
        BY <1>6, <2>2, <3>1, PlusZero
    <2>3. CASE snd_buf[s] = <<>> /\ m # 0
      <3>1. snd_una[s] = snd_nxt[s]
        BY <2>1, <2>3 DEF UnaOf
      <3>2. Len(snd_buf[s]) = 0 /\ 1 \in 1..m
        BY <1>7, <2>3
      <3>3. Buffered(s)[0 + 1].sn = Plus(snd_nxt[s], 1 - 1)
        BY <1>4, <3>2
      <3>4. Buffered(s)[1].sn = snd_nxt[s]
        BY <1>6, <3>3, PlusZero
      <3>5. 1 \in DOMAIN Buffered(s) /\ buf # <<>>
        BY <1>4, <1>5, <1>7, <3>2
      <3> QED
        BY <1>5, <3>1, <3>4, <3>5
    <2>4. CASE snd_buf[s] # <<>>
      <3>1. snd_una[s] = snd_buf[s][1].sn
        BY <2>1, <2>4 DEF UnaOf
      <3>2. 1 \in 1..Len(snd_buf[s])
        BY <1>6, <2>4
      <3>3. 1 \in DOMAIN Buffered(s) /\ buf # <<>>
        BY <1>4, <1>5, <1>7, <3>2
      <3> QED
        BY <1>4, <1>5, <3>1, <3>2, <3>3
    <2> QED
      BY <2>2, <2>3, <2>4
  <1>17. ASSUME NEW t \in End
         PROVE  SndWindow(snd_buf'[t], snd_nxt'[t]) /\ snd_una'[t] = UnaOf(t, snd_buf[t])'
    <2>1. CASE t = s
      BY <1>3, <1>5, <1>15, <1>16, <2>1 DEF UnaOf
    <2>2. CASE t # s
      <3>1. snd_buf'[t] = snd_buf[t] /\ snd_nxt'[t] = snd_nxt[t] /\ snd_una'[t] = snd_una[t]
        BY <1>3, <1>10, <2>2
      <3> QED
        BY <3>1 DEF UnaOf, WindowInv
    <2> QED
      BY <2>1, <2>2
  <1>18. WindowInv'
    BY <1>3, <1>17 DEF WindowInv
  <1> QED
    BY <1>14, <1>18

LEMMA InitTypes ==
    ASSUME Init
    PROVE  TypeOK /\ WindowInv
  <1>1. <<>> \in Seq(Frag) /\ <<>> \in Seq(Seg) /\ <<>> \in Seq(Msg) /\ <<>> \in Seq(Seq(Frag))
    OBVIOUS
  <1>2. TypeOK
    BY <1>1, Constants DEF Init, TypeOK
  <1>3. ASSUME NEW s \in End
        PROVE  /\ SndWindow(snd_buf[s], snd_nxt[s]) /\ snd_una[s] = UnaOf(s, snd_buf[s])
               /\ RcvWindow(rcv_queue[s], rcv_buf[s], rcv_nxt[s])
               /\ Settled(rcv_queue[s], rcv_buf[s], rcv_nxt[s])
    BY FS_EmptySet, Constants DEF Init, SndWindow, UnaOf, RcvWindow, Settled
  <1> QED
    BY <1>2, <1>3 DEF WindowInv

LEMMA NextTypes ==
    ASSUME TypeOK, WindowInv, [Next]_vars
    PROVE  TypeOK' /\ WindowInv'
  <1>1. CASE Next
    <2>1. PICK s \in End :
             \/ \E count \in Counts : KcpSend(s, count)
             \/ KcpRecv(s)
             \/ \E seg \in net[s], keep \in BOOLEAN : Arrive(s, seg, keep)
             \/ Flush(s)
      BY <1>1 DEF Next
    <2>2. CASE \E count \in Counts : KcpSend(s, count)
      BY <2>2, SendTypes
    <2>3. CASE KcpRecv(s)
      BY <2>3, RecvTypes
    <2>4. CASE \E seg \in net[s], keep \in BOOLEAN : Arrive(s, seg, keep)
      BY <2>4, ArriveTypes
    <2>5. CASE Flush(s)
      BY <2>5, FlushTypes DEF Flush
    <2> QED
      BY <2>1, <2>2, <2>3, <2>4, <2>5
  <1>2. CASE UNCHANGED vars
    <2>1. UNCHANGED <<snd_queue, snd_buf, snd_una, snd_nxt, rmt_wnd, probing, rcv_nxt,
                      rcv_buf, rcv_queue, acklist, probe, net, given, delivered, offered,
                      promised>>
      BY <1>2 DEF vars, sendVars, recvVars, historyVars
    <2>2. \A t \in End : UnaOf(t, snd_buf[t])' = UnaOf(t, snd_buf[t])
      BY <2>1 DEF UnaOf
    <2> QED
      BY <2>1, <2>2 DEF TypeOK, WindowInv
  <1> QED
    BY <1>1, <1>2

(* Every variable of the two control blocks keeps its type: what the merge *)
(* of rcv_buf takes exists, and no number leaves 0..Wrap - 1 at the wrap.  *)
THEOREM TypeCorrect == Spec => []TypeOK
  <1>1. Init => TypeOK /\ WindowInv
    BY InitTypes
  <1>2. (TypeOK /\ WindowInv) /\ [Next]_vars => (TypeOK /\ WindowInv)'
    BY NextTypes
  <1> QED
    BY <1>1, <1>2, PTL DEF Spec

(* Neither end holds more than its window, however late and in whatever    *)
(* order the announcements of it arrive.                                   *)
THEOREM WindowsKept == Spec => []WindowKept
  <1>1. Init => TypeOK /\ WindowInv
    BY InitTypes
  <1>2. (TypeOK /\ WindowInv) /\ [Next]_vars => (TypeOK /\ WindowInv)'
    BY NextTypes
  <1>3. TypeOK /\ WindowInv => WindowKept
    <2> SUFFICES ASSUME TypeOK, WindowInv, NEW s \in End
                 PROVE  /\ Len(rcv_queue[s]) <= RcvWnd
                        /\ \A seg \in rcv_buf[s] :
                              Diff(seg.sn, rcv_nxt[s]) \in 0..(RcvWnd - 1)
                        /\ Len(snd_buf[s]) <= SndWnd
      BY DEF WindowKept
    <2>1. snd_buf[s] \in Seq(Seg) /\ snd_nxt[s] \in Sn /\ snd_una[s] = UnaOf(s, snd_buf[s])
      BY TypeAt DEF WindowInv
    <2>2. PICK n \in Nat : n = Len(snd_buf[s])
      BY <2>1, LenProperties
    <2>3. Diff(snd_nxt[s], snd_una[s]) \in n..SndWnd
      BY <2>1, <2>2, Outstanding DEF WindowInv
    <2>4. n <= SndWnd
      BY <2>3, Constants
    <2> QED
      BY <2>2, <2>4 DEF WindowInv, RcvWindow
  <1> QED
    BY <1>1, <1>2, <1>3, PTL DEF Spec

----------------------------------------------------------------------------
(* Delivery.  The fragments given to an end are numbered from 1; the ones  *)
(* of its first m messages are those up to UpTo(msgs, m).                  *)
UpTo(msgs, m) == IF m = 0 THEN 0 ELSE msgs[m].first + msgs[m].count

MsgsInOrder(msgs) ==
    /\ \A m \in 1..Len(msgs) : /\ msgs[m].first = UpTo(msgs, m - 1)
                               /\ msgs[m].count < WndRcv
    /\ \A m \in 0..Len(msgs) : UpTo(msgs, m) <= m * WndRcv
    /\ \A m, n \in 0..Len(msgs) : m <= n => UpTo(msgs, m) <= UpTo(msgs, n)

IsPart(msgs, f) == f.msg \in 1..Len(msgs) /\ f.frg < msgs[f.msg].count
Number(msgs, f) == msgs[f.msg].first + msgs[f.msg].count - f.frg

(* sn is the sequence number of f, one of the first n fragments. *)
Labelled(msgs, n, sn, f) ==
    /\ IsPart(msgs, f)
    /\ Number(msgs, f) <= n
    /\ sn = Plus(First, Number(msgs, f) - 1)

(* A sender has numbered the first fragments it was given; the others wait *)
(* in order.                                                               *)
Entered(msgs, queue) == Total(msgs) - Len(queue)

Sending(msgs, queue, buf, nxt) ==
    /\ Entered(msgs, queue) >= 0
    /\ nxt = Plus(First, Entered(msgs, queue))
    /\ \A i \in 1..Len(queue) : /\ IsPart(msgs, queue[i])
                                /\ Number(msgs, queue[i]) = Entered(msgs, queue) + i
    /\ \A i \in 1..Len(buf) :
          Labelled(msgs, Entered(msgs, queue), buf[i].sn, buf[i].frag)

(* A receiver has returned the messages dlv, holds in queue the fragments  *)
(* that follow them, and in buf some of the later ones.                    *)
Taken(msgs, dlv, queue) == UpTo(msgs, Len(dlv)) + Len(queue)

Receiving(msgs, n, dlv, queue, buf, nxt) ==
    /\ Len(dlv) <= Len(msgs)
    /\ \A m \in 1..Len(dlv) : dlv[m] = Fragments(m, msgs[m].count)
    /\ Taken(msgs, dlv, queue) <= n
    /\ nxt = Plus(First, Taken(msgs, dlv, queue))
    /\ \A i \in 1..Len(queue) : /\ IsPart(msgs, queue[i])
                                /\ Number(msgs, queue[i]) = UpTo(msgs, Len(dlv)) + i
    /\ \A seg \in buf : /\ Labelled(msgs, n, seg.sn, seg.frag)
                        /\ Number(msgs, seg.frag) > Taken(msgs, dlv, queue)

EnteredAt(s) == Entered(given[s], snd_queue[s])

SenderInv(s) ==
    /\ MsgsInOrder(given[s]) /\ Len(given[s]) <= MaxMsgs[s]
    /\ Sending(given[s], snd_queue[s], snd_buf[s], snd_nxt[s])

ReceiverInv(s) ==
    /\ \A seg \in net[s] : seg.cmd = "push" =>
          Labelled(given[Peer(s)], EnteredAt(Peer(s)), seg.sn, seg.frag)
    /\ Receiving(given[Peer(s)], EnteredAt(Peer(s)), delivered[s], rcv_queue[s],
                 rcv_buf[s], rcv_nxt[s])

DeliveryInv == \A s \in End : SenderInv(s) /\ ReceiverInv(s)

(* An end is given less than half a turn of sequence numbers: no copy the  *)
(* network kept can be taken for a segment of the next turn.               *)
HalfTurn == \A s \in End : 2 * (MaxMsgs[s] * WndRcv) < Wrap

LEMMA UpToType ==
    ASSUME NEW msgs \in Seq(Msg), NEW m \in 0..Len(msgs)
    PROVE  UpTo(msgs, m) \in Nat
  <1>1. CASE m = 0
    BY <1>1 DEF UpTo
  <1>2. CASE m # 0
    <2>1. msgs[m] \in Msg
      BY <1>2
    <2> QED
      BY <1>2, <2>1 DEF UpTo, Msg
  <1> QED
    BY <1>1, <1>2

LEMMA TotalUpTo ==
    ASSUME NEW msgs \in Seq(Msg)
    PROVE  Total(msgs) = UpTo(msgs, Len(msgs)) /\ Total(msgs) \in Nat
  <1>1. Len(msgs) \in Nat /\ Len(msgs) \in 0..Len(msgs)
    BY LenProperties
  <1>2. CASE msgs = <<>>
    <2>1. Len(msgs) = 0
      BY <1>2
    <2> QED
      BY <1>2, <2>1 DEF Total, UpTo
  <1>3. CASE msgs # <<>>
    <2>1. Len(msgs) # 0
      BY <1>3, EmptySeq
    <2>2. Total(msgs) = UpTo(msgs, Len(msgs))
      BY <1>3, <2>1 DEF Total, UpTo, Last
    <2> QED
      BY <1>1, <2>2, UpToType
  <1> QED
    BY <1>2, <1>3

(* A fragment of message m lies between the messages before and m itself.  *)
LEMMA PartNumber ==
    ASSUME NEW msgs \in Seq(Msg), MsgsInOrder(msgs), NEW f \in Frag, IsPart(msgs, f)
    PROVE  /\ Number(msgs, f) \in Nat
           /\ UpTo(msgs, f.msg - 1) < Number(msgs, f)
           /\ Number(msgs, f) <= UpTo(msgs, f.msg)
           /\ Number(msgs, f) <= Total(msgs)
  <1>1. PICK m \in 1..Len(msgs) : m = f.msg
    BY DEF IsPart
  <1>2. Len(msgs) \in Nat /\ m \in Nat /\ m # 0 /\ m \in 0..Len(msgs) /\ m - 1 \in 0..Len(msgs)
          /\ Len(msgs) \in 0..Len(msgs) /\ m <= Len(msgs)
    BY <1>1, LenProperties
  <1>3. msgs[m] \in Msg
    BY <1>1
  <1>4. PICK a \in Nat, c \in Nat \ {0} : a = msgs[m].first /\ c = msgs[m].count
    BY <1>3 DEF Msg
  <1>5. PICK g \in Nat : g = f.frg /\ g < c
    BY <1>1, <1>4 DEF Frag, IsPart
  <1>6. Number(msgs, f) = a + c - g
    BY <1>1, <1>4, <1>5 DEF Number
  <1>7. UpTo(msgs, m) = a + c
    BY <1>2, <1>4 DEF UpTo
  <1>8. UpTo(msgs, m - 1) = a
    BY <1>1, <1>4 DEF MsgsInOrder
  <1>9. UpTo(msgs, m) <= UpTo(msgs, Len(msgs))
    BY <1>2 DEF MsgsInOrder
  <1>10. PICK t \in Nat : t = Total(msgs) /\ a + c <= t
    BY <1>7, <1>9, TotalUpTo
  <1>11. a + c - g \in Nat /\ a < a + c - g /\ a + c - g <= a + c /\ a + c - g <= t
    <2>1. g < c /\ a + c <= t
      BY <1>5, <1>10
    <2> QED
      BY <2>1
  <1> QED
    BY <1>1, <1>6, <1>7, <1>8, <1>10, <1>11

(* Its number says which fragment it is. *)
LEMMA Located ==
    ASSUME NEW msgs \in Seq(Msg), MsgsInOrder(msgs), NEW f \in Frag, IsPart(msgs, f),
           NEW m \in 1..Len(msgs), NEW i \in 1..msgs[m].count,
           Number(msgs, f) = UpTo(msgs, m - 1) + i
    PROVE  f.msg = m /\ f.frg = msgs[m].count - i /\ f = [msg |-> m, frg |-> msgs[m].count - i]
  <1>1. PICK k \in 1..Len(msgs) : k = f.msg
    BY DEF IsPart
  <1>2. Len(msgs) \in Nat
    BY LenProperties
  <1>3. msgs[m] \in Msg
    OBVIOUS
  <1>4. PICK c \in Nat \ {0} : c = msgs[m].count
    BY <1>3 DEF Msg
  <1>5. PICK u \in Nat, v \in Nat, p \in Nat, q \in Nat :
           /\ u = UpTo(msgs, k - 1) /\ v = UpTo(msgs, k)
           /\ p = UpTo(msgs, m - 1) /\ q = UpTo(msgs, m)
    BY <1>2, UpToType
  <1>6. q = p + c
    BY <1>2, <1>4, <1>5 DEF MsgsInOrder, UpTo
  <1>7. u < p + i /\ p + i <= v
    BY <1>1, <1>5, PartNumber
  <1>8. k = m
    <2>1. CASE k < m
      <3>1. k \in 0..Len(msgs) /\ m - 1 \in 0..Len(msgs) /\ k <= m - 1
        BY <1>2, <2>1
      <3>2. v <= p
        BY <1>5, <3>1 DEF MsgsInOrder
      <3> QED
        BY <1>4, <1>7, <3>2
    <2>2. CASE k > m
      <3>1. k - 1 \in 0..Len(msgs) /\ m \in 0..Len(msgs) /\ m <= k - 1
        BY <1>2, <2>2
      <3>2. q <= u
        BY <1>5, <3>1 DEF MsgsInOrder
      <3> QED
        BY <1>4, <1>6, <1>7, <3>2
    <2> QED
      BY <1>2, <2>1, <2>2
  <1>9. PICK g \in Nat : g = f.frg
    BY DEF Frag
  <1>10. msgs[m].first = p
    BY <1>5 DEF MsgsInOrder
  <1>11. Number(msgs, f) = p + c - g
    BY <1>1, <1>4, <1>8, <1>9, <1>10 DEF Number
  <1>12. g = c - i
    <2>1. i \in Nat
      BY <1>4
    <2>2. p + c - g = p + i
      BY <1>5, <1>11
    <2> QED
      BY <2>1, <2>2
  <1>13. f = [msg |-> f.msg, frg |-> f.frg]
    BY DEF Frag
  <1> QED
    BY <1>1, <1>4, <1>8, <1>9, <1>12, <1>13

LEMMA Bound ==
    ASSUME HalfTurn, NEW s \in End, NEW msgs \in Seq(Msg), MsgsInOrder(msgs),
           Len(msgs) <= MaxMsgs[s]
    PROVE  2 * Total(msgs) < Wrap
  <1>1. PICK k \in Nat, M \in Nat : k = Len(msgs) /\ M = MaxMsgs[s] /\ k <= M
    BY LenProperties, BoundsAssumption
  <1>2. Total(msgs) \in Nat /\ Total(msgs) <= k * WndRcv
    BY <1>1, TotalUpTo DEF MsgsInOrder
  <1>3. k * WndRcv <= M * WndRcv /\ k * WndRcv \in Nat /\ M * WndRcv \in Nat
    <2>1. PICK e \in Nat : M = k + e
      <3>1. M - k \in Nat /\ M = k + (M - k)
        BY <1>1
      <3> QED
        BY <3>1
    <2>2. PICK w \in Nat : w = WndRcv
      BY Constants
    <2>3. (k + e) * w = k * w + e * w
      BY SMT
    <2>4. k * w \in Nat /\ e * w \in Nat
      BY SMT
    <2> QED
      BY <2>1, <2>2, <2>3, <2>4
  <1>4. 2 * (M * WndRcv) < Wrap
    BY <1>1 DEF HalfTurn
  <1>5. PICK x \in Nat, y \in Nat : x = k * WndRcv /\ y = M * WndRcv
    BY <1>3
  <1> QED
    BY <1>2, <1>3, <1>4, <1>5, WrapAssumption

Prolongs(new, msgs) ==
    /\ Len(msgs) <= Len(new)
    /\ \A m \in 1..Len(msgs) : new[m] = msgs[m]

(* One more message is given. *)
LEMMA Given ==
    ASSUME NEW msgs \in Seq(Msg), MsgsInOrder(msgs), NEW c \in Nat \ {0}, c < WndRcv,
           NEW new, new = Append(msgs, [first |-> Total(msgs), count |-> c])
    PROVE  /\ new \in Seq(Msg) /\ Len(new) = Len(msgs) + 1
           /\ MsgsInOrder(new)
           /\ Total(new) = Total(msgs) + c
           /\ new[Len(msgs) + 1] = [first |-> Total(msgs), count |-> c]
           /\ Prolongs(new, msgs)
  <1>1. PICK k \in Nat : k = Len(msgs)
    BY LenProperties
  <1>2. PICK t \in Nat : t = Total(msgs) /\ t = UpTo(msgs, k)
    BY <1>1, TotalUpTo
  <1>3. [first |-> t, count |-> c] \in Msg
    BY DEF Msg
  <1>4. /\ new \in Seq(Msg) /\ Len(new) = k + 1
        /\ \A m \in 1..k : new[m] = msgs[m]
        /\ new[k + 1] = [first |-> t, count |-> c]
    BY <1>1, <1>2, <1>3, AppendProperties
  <1>5. ASSUME NEW m \in 0..k PROVE UpTo(new, m) = UpTo(msgs, m)
    BY <1>4 DEF UpTo
  <1>6. UpTo(new, k + 1) = t + c
    BY <1>4 DEF UpTo
  <1>7. Total(new) = t + c
    BY <1>4, <1>6, TotalUpTo
  <1>8. ASSUME NEW m \in 1..(k + 1)
        PROVE  new[m].first = UpTo(new, m - 1) /\ new[m].count < WndRcv
    <2>1. CASE m \in 1..k
      <3>1. m - 1 \in 0..k
        BY <2>1
      <3> QED
        BY <1>1, <1>4, <1>5, <2>1, <3>1 DEF MsgsInOrder
    <2>2. CASE m = k + 1
      <3>1. m - 1 = k /\ k \in 0..k
        BY <2>2
      <3> QED
        BY <1>2, <1>4, <1>5, <2>2, <3>1
    <2>3. m \in 1..k \/ m = k + 1
      OBVIOUS
    <2> QED
      BY <2>1, <2>2, <2>3
  <1>9. ASSUME NEW m \in 0..(k + 1) PROVE UpTo(new, m) <= m * WndRcv
    <2>1. CASE m \in 0..k
      BY <1>1, <1>5, <2>1 DEF MsgsInOrder
    <2>2. CASE m = k + 1
      <3>1. t <= k * WndRcv
        BY <1>1, <1>2 DEF MsgsInOrder
      <3>2. PICK w \in Nat : w = WndRcv
        BY Constants
      <3>3. k * w \in Nat /\ (k + 1) * w = k * w + w
        BY SMT
      <3> QED
        BY <1>6, <2>2, <3>1, <3>2, <3>3
    <2> QED
      BY <2>1, <2>2
  <1>10. ASSUME NEW m \in 0..(k + 1), NEW n \in 0..(k + 1), m <= n
         PROVE  UpTo(new, m) <= UpTo(new, n)
    <2>1. CASE n \in 0..k
      <3>1. m \in 0..k
        BY <1>10, <2>1
      <3> QED
        BY <1>1, <1>5, <1>10, <2>1, <3>1 DEF MsgsInOrder
    <2>2. CASE n = k + 1 /\ m = k + 1
      BY <1>6, <2>2
    <2>3. CASE n = k + 1 /\ m \in 0..k
      <3>1. k \in 0..k /\ m <= k
        BY <2>3
      <3>2. UpTo(msgs, m) \in Nat
        BY <1>1, <2>3, UpToType
      <3>3. UpTo(msgs, m) <= UpTo(msgs, k)
        BY <1>1, <2>3, <3>1 DEF MsgsInOrder
      <3> QED
        BY <1>2, <1>5, <1>6, <2>3, <3>2, <3>3
    <2> QED
      BY <2>1, <2>2, <2>3
  <1>11. MsgsInOrder(new)
    BY <1>4, <1>8, <1>9, <1>10 DEF MsgsInOrder
  <1>12. Prolongs(new, msgs)
    BY <1>1, <1>4 DEF Prolongs
  <1> QED
    BY <1>1, <1>2, <1>4, <1>7, <1>11, <1>12

(* What was given before keeps its number. *)
LEMMA ProlongsPart ==
    ASSUME NEW msgs \in Seq(Msg), NEW new \in Seq(Msg), Prolongs(new, msgs),
           NEW f, IsPart(msgs, f)
    PROVE  IsPart(new, f) /\ Number(new, f) = Number(msgs, f)
  <1>1. Len(new) \in Nat /\ Len(msgs) \in Nat
    BY LenProperties
  <1>2. f.msg \in 1..Len(msgs) /\ f.msg \in 1..Len(new) /\ new[f.msg] = msgs[f.msg]
    BY <1>1 DEF IsPart, Prolongs
  <1> QED
    BY <1>2 DEF IsPart, Number

LEMMA ProlongsLabel ==
    ASSUME NEW msgs \in Seq(Msg), NEW new \in Seq(Msg), Prolongs(new, msgs),
           NEW n, NEW sn, NEW f, Labelled(msgs, n, sn, f)
    PROVE  Labelled(new, n, sn, f)
  BY ProlongsPart DEF Labelled

LEMMA EnteredType ==
    ASSUME NEW msgs \in Seq(Msg), NEW queue \in Seq(Frag), Entered(msgs, queue) >= 0
    PROVE  Entered(msgs, queue) \in Nat /\ Entered(msgs, queue) <= Total(msgs)
  <1>1. PICK t \in Nat, k \in Nat : t = Total(msgs) /\ k = Len(queue)
    BY TotalUpTo, LenProperties
  <1>2. Entered(msgs, queue) = t - k
    BY <1>1 DEF Entered
  <1> QED
    BY <1>1, <1>2

LEMMA GivenSending ==
    ASSUME NEW msgs \in Seq(Msg), NEW c \in Nat \ {0},
           NEW new \in Seq(Msg), Prolongs(new, msgs), Len(new) = Len(msgs) + 1,
           Total(new) = Total(msgs) + c,
           new[Len(msgs) + 1] = [first |-> Total(msgs), count |-> c],
           NEW queue \in Seq(Frag), NEW buf \in Seq(Seg), NEW nxt,
           Sending(msgs, queue, buf, nxt),
           NEW added \in Seq(Frag), added = Fragments(Len(msgs) + 1, c)
    PROVE  /\ Entered(new, queue \o added) = Entered(msgs, queue)
           /\ Sending(new, queue \o added, buf, nxt)
  <1>1. PICK k \in Nat, t \in Nat, l \in Nat :
           k = Len(queue) /\ t = Total(msgs) /\ l = Len(msgs)
    BY LenProperties, TotalUpTo
  <1>2. PICK e \in Nat : e = Entered(msgs, queue) /\ e = t - k
    BY <1>1, EnteredType DEF Entered, Sending
  <1>3. Len(added) = c /\ \A i \in 1..c : added[i] = [msg |-> l + 1, frg |-> c - i]
    BY <1>1 DEF Fragments
  <1>4. PICK all \in Seq(Frag) : all = queue \o added
    BY ConcatProperties
  <1>5. Len(all) = k + c
          /\ \A i \in 1..(k + c) : all[i] = IF i <= k THEN queue[i] ELSE added[i - k]
    <2>1. /\ Len(all) = Len(queue) + Len(added)
          /\ \A i \in 1..(Len(queue) + Len(added)) :
                all[i] = IF i <= Len(queue) THEN queue[i] ELSE added[i - Len(queue)]
      BY <1>4, ConcatProperties
    <2> QED
      BY <1>1, <1>3, <2>1
  <1>6. /\ Len(new) = l + 1 /\ Total(new) = t + c
        /\ new[l + 1] = [first |-> t, count |-> c]
    BY <1>1
  <1>7. Entered(new, all) = e
    BY <1>1, <1>2, <1>5, <1>6 DEF Entered
  <1>8. ASSUME NEW i \in 1..(k + c)
        PROVE  IsPart(new, all[i]) /\ Number(new, all[i]) = e + i
    <2>1. CASE i <= k
      <3>1. i \in 1..k /\ all[i] = queue[i]
        BY <1>5, <2>1
      <3>2. IsPart(msgs, queue[i]) /\ Number(msgs, queue[i]) = e + i
        BY <1>1, <1>2, <3>1 DEF Sending
      <3>3. IsPart(new, queue[i]) /\ Number(new, queue[i]) = Number(msgs, queue[i])
        BY <3>2, ProlongsPart
      <3> QED
        BY <3>1, <3>2, <3>3
    <2>2. CASE ~(i <= k)
      <3>1. PICK j \in 1..c : j = i - k /\ i = k + j
        <4>1. i - k \in 1..c /\ i = k + (i - k)
          BY <2>2
        <4> QED
          BY <4>1
      <3>2. all[i] = [msg |-> l + 1, frg |-> c - j]
        BY <1>3, <1>5, <2>2, <3>1
      <3>3. c - j \in Nat /\ c - j < c /\ t + c - (c - j) = e + i
        <4>1. e = t - k /\ i = k + j
          BY <1>2, <3>1
        <4>2. j \in Nat /\ j <= c /\ 1 <= j
          OBVIOUS
        <4>3. e + i = t + j
          BY <4>1, <4>2
        <4>4. c - j \in Nat /\ c - j < c
          BY <4>2
        <4>5. t + c - (c - j) = t + j
          BY <4>2
        <4> QED
          BY <4>3, <4>4, <4>5
      <3>4. IsPart(new, all[i])
        BY <1>6, <3>2, <3>3 DEF IsPart
      <3>5. Number(new, all[i]) = t + c - (c - j)
        BY <1>6, <3>2 DEF Number
      <3> QED
        BY <3>3, <3>4, <3>5
    <2> QED
      BY <2>1, <2>2
  <1>9. ASSUME NEW i \in 1..Len(buf) PROVE Labelled(new, e, buf[i].sn, buf[i].frag)
    <2>1. Labelled(msgs, e, buf[i].sn, buf[i].frag)
      BY <1>2 DEF Sending
    <2> QED
      BY <2>1, ProlongsLabel
  <1>10. nxt = Plus(First, e)
    BY <1>2 DEF Sending
  <1>11. Sending(new, all, buf, nxt)
    BY <1>5, <1>7, <1>8, <1>9, <1>10 DEF Sending
  <1> QED
    BY <1>2, <1>4, <1>7, <1>11

LEMMA ProlongsReceiving ==
    ASSUME NEW msgs \in Seq(Msg), NEW new \in Seq(Msg), Prolongs(new, msgs),
           NEW n, NEW dlv \in Seq(Seq(Frag)), NEW queue \in Seq(Frag),
           NEW buf \in SUBSET Held, NEW nxt, Receiving(msgs, n, dlv, queue, buf, nxt)
    PROVE  Receiving(new, n, dlv, queue, buf, nxt)
  <1>1. PICK l \in Nat, d \in Nat, m \in Nat :
           l = Len(msgs) /\ d = Len(dlv) /\ m = Len(new) /\ d <= l /\ l <= m
    BY LenProperties DEF Receiving, Prolongs
  <1>2. \A i \in 1..l : new[i] = msgs[i]
    BY <1>1 DEF Prolongs
  <1>3. UpTo(new, Len(dlv)) = UpTo(msgs, Len(dlv))
    BY <1>1, <1>2 DEF UpTo
  <1>4. Taken(new, dlv, queue) = Taken(msgs, dlv, queue)
    BY <1>3 DEF Taken
  <1>5. ASSUME NEW i \in 1..Len(dlv) PROVE dlv[i] = Fragments(i, new[i].count)
    <2>1. dlv[i] = Fragments(i, msgs[i].count)
      BY DEF Receiving
    <2>2. new[i] = msgs[i]
      BY <1>1, <1>2
    <2> QED
      BY <2>1, <2>2
  <1>6. ASSUME NEW i \in 1..Len(queue)
        PROVE  IsPart(new, queue[i]) /\ Number(new, queue[i]) = UpTo(new, Len(dlv)) + i
    <2>1. IsPart(msgs, queue[i]) /\ Number(msgs, queue[i]) = UpTo(msgs, Len(dlv)) + i
      BY DEF Receiving
    <2>2. IsPart(new, queue[i]) /\ Number(new, queue[i]) = Number(msgs, queue[i])
      BY <2>1, ProlongsPart
    <2> QED
      BY <1>3, <2>1, <2>2
  <1>7. ASSUME NEW seg \in buf
        PROVE  /\ Labelled(new, n, seg.sn, seg.frag)
               /\ Number(new, seg.frag) > Taken(new, dlv, queue)
    <2>1. /\ Labelled(msgs, n, seg.sn, seg.frag)
          /\ Number(msgs, seg.frag) > Taken(msgs, dlv, queue)
      BY DEF Receiving
    <2>2. Labelled(new, n, seg.sn, seg.frag)
      BY <2>1, ProlongsLabel
    <2>3. Number(new, seg.frag) = Number(msgs, seg.frag)
      BY <2>1, ProlongsPart DEF Labelled
    <2> QED
      BY <1>4, <2>1, <2>2, <2>3
  <1>8. Len(dlv) <= Len(new)
    BY <1>1
  <1>9. Taken(new, dlv, queue) <= n /\ nxt = Plus(First, Taken(new, dlv, queue))
    BY <1>4 DEF Receiving
  <1> QED
    BY <1>5, <1>6, <1>7, <1>8, <1>9 DEF Receiving

LEMMA LaterLabel ==
    ASSUME NEW msgs \in Seq(Msg), MsgsInOrder(msgs), NEW n \in Nat, NEW later \in Nat,
           n <= later, NEW sn, NEW f \in Frag, Labelled(msgs, n, sn, f)
    PROVE  Labelled(msgs, later, sn, f)
  <1>1. Number(msgs, f) \in Nat /\ Number(msgs, f) <= n
    BY PartNumber DEF Labelled
  <1>2. Number(msgs, f) <= later
    BY <1>1
  <1> QED
    BY <1>2 DEF Labelled

LEMMA LaterReceiving ==
    ASSUME NEW msgs \in Seq(Msg), MsgsInOrder(msgs), NEW n \in Nat, NEW later \in Nat,
           n <= later, NEW dlv \in Seq(Seq(Frag)), NEW queue \in Seq(Frag),
           NEW buf \in SUBSET Held, NEW nxt, Receiving(msgs, n, dlv, queue, buf, nxt)
    PROVE  Receiving(msgs, later, dlv, queue, buf, nxt)
  <1>1. Taken(msgs, dlv, queue) \in Nat
    <2>1. Len(dlv) \in 0..Len(msgs) /\ Len(queue) \in Nat
      BY LenProperties DEF Receiving
    <2> QED
      BY <2>1, UpToType DEF Taken
  <1>2. Taken(msgs, dlv, queue) <= later
    BY <1>1 DEF Receiving
  <1>3. \A seg \in buf : Labelled(msgs, later, seg.sn, seg.frag)
    BY LaterLabel DEF Receiving, Held
  <1> QED
    BY <1>2, <1>3 DEF Receiving

(* A segment that arrives inside the window is one the receiver has not    *)
(* taken.                                                                  *)
LEMMA HeldReceiving ==
    ASSUME NEW msgs \in Seq(Msg), MsgsInOrder(msgs), 2 * Total(msgs) < Wrap,
           NEW n \in Nat, n <= Total(msgs),
           NEW dlv \in Seq(Seq(Frag)), NEW queue \in Seq(Frag),
           NEW buf \in SUBSET Held, NEW nxt, Receiving(msgs, n, dlv, queue, buf, nxt),
           NEW held \in Held, Labelled(msgs, n, held.sn, held.frag), Diff(held.sn, nxt) >= 0
    PROVE  Receiving(msgs, n, dlv, queue, buf \cup {held}, nxt)
  <1>1. PICK t \in Nat : t = Taken(msgs, dlv, queue) /\ t <= n
    <2>1. Len(dlv) \in 0..Len(msgs) /\ Len(queue) \in Nat
      BY LenProperties DEF Receiving
    <2> QED
      BY <2>1, UpToType DEF Taken, Receiving
  <1>2. PICK total \in Nat : total = Total(msgs) /\ n <= total /\ 2 * total < Wrap
    BY TotalUpTo
  <1>3. held.frag \in Frag
    BY DEF Held
  <1>4. PICK k \in Nat : k = Number(msgs, held.frag) /\ k <= n /\ k > 0
    <2>1. IsPart(msgs, held.frag) /\ Number(msgs, held.frag) <= n
      BY DEF Labelled
    <2>2. UpTo(msgs, held.frag.msg - 1) \in Nat
      <3>1. held.frag.msg \in 1..Len(msgs) /\ Len(msgs) \in Nat
        BY <2>1, LenProperties DEF IsPart
      <3>2. held.frag.msg - 1 \in 0..Len(msgs)
        BY <3>1
      <3> QED
        BY <3>2, UpToType
    <2> QED
      BY <1>3, <2>1, <2>2, PartNumber
  <1>5. held.sn = Plus(First, k - 1) /\ nxt = Plus(First, t)
    BY <1>1, <1>4 DEF Labelled, Receiving
  <1>6. Diff(held.sn, nxt) = (k - 1) - t
    <2>1. 2 * ((k - 1) - t) < Wrap /\ 2 * ((k - 1) - t) >= -Wrap
      BY <1>1, <1>2, <1>4, WrapAssumption
    <2> QED
      BY <1>1, <1>4, <1>5, <2>1, Constants, DiffPlus
  <1>7. k > t
    BY <1>1, <1>4, <1>6
  <1> QED
    BY <1>1, <1>4, <1>7 DEF Receiving

(* The queue takes what is next: no sequence number of another fragment    *)
(* can be mistaken for that of the next one.                               *)
LEMMA TakesNext ==
    ASSUME NEW msgs \in Seq(Msg), MsgsInOrder(msgs), 2 * Total(msgs) < Wrap,
           NEW n \in Nat, n <= Total(msgs),
           NEW dlv \in Seq(Seq(Frag)), NEW queue \in Seq(Frag),
           NEW buf \in SUBSET Held, NEW nxt, Receiving(msgs, n, dlv, queue, buf, nxt),
           NEW k \in 0..RcvWnd, Contiguous(buf, nxt, k)
    PROVE  Receiving(msgs, n, dlv, queue \o RunOf(buf, nxt, k), Beyond(buf, nxt, k),
                     Plus(nxt, k))
  <1>1. PICK u \in Nat, q \in Nat, t \in Nat :
           /\ u = UpTo(msgs, Len(dlv)) /\ q = Len(queue)
           /\ t = Taken(msgs, dlv, queue) /\ t = u + q /\ t <= n
    <2>1. Len(dlv) \in 0..Len(msgs) /\ Len(queue) \in Nat
      BY LenProperties DEF Receiving
    <2> QED
      BY <2>1, UpToType DEF Taken, Receiving
  <1>2. PICK total \in Nat : total = Total(msgs) /\ n <= total /\ 2 * total < Wrap
    BY TotalUpTo
  <1>3. PICK w \in Nat : w = RcvWnd /\ 4 * w < Wrap /\ k <= w /\ k \in Nat
    BY Constants
  <1>4. Wrap \in Nat /\ First \in Sn /\ nxt = Plus(First, t) /\ nxt \in Sn
    BY <1>1, WrapNat, Constants, PlusType DEF Receiving, Sn
  <1>5. ASSUME NEW i \in Nat PROVE Plus(nxt, i) = Plus(First, t + i)
    BY <1>1, <1>4, PlusPlus
  <1>6. ASSUME NEW seg \in buf
        PROVE  /\ seg.frag \in Frag /\ Number(msgs, seg.frag) \in Nat
               /\ Number(msgs, seg.frag) > t /\ Number(msgs, seg.frag) <= n
               /\ seg.sn = Plus(First, Number(msgs, seg.frag) - 1)
    <2>1. Labelled(msgs, n, seg.sn, seg.frag) /\ Number(msgs, seg.frag) > t
      BY <1>1 DEF Receiving
    <2>2. seg.frag \in Frag
      BY DEF Held
    <2>3. Number(msgs, seg.frag) \in Nat
      BY <2>1, <2>2, PartNumber DEF Labelled
    <2> QED
      BY <2>1, <2>2, <2>3 DEF Labelled
  <1>7. ASSUME NEW i \in 1..k
        PROVE  /\ IsPart(msgs, RunOf(buf, nxt, k)[i])
               /\ Number(msgs, RunOf(buf, nxt, k)[i]) = t + i
               /\ t + i <= n
    <2>1. PICK seg \in buf : seg.sn = Plus(nxt, i - 1) /\ RunOf(buf, nxt, k)[i] = seg.frag
      BY <1>3, <1>4, RunOfProperties
    <2>2. PICK number \in Nat : /\ number = Number(msgs, seg.frag)
                                /\ number > t /\ number <= n
                                /\ seg.sn = Plus(First, number - 1)
      BY <1>6
    <2>3. i - 1 \in Nat /\ i \in Nat /\ i <= w
      BY <1>3
    <2>4. Plus(First, number - 1) = Plus(First, t + (i - 1))
      BY <1>5, <2>1, <2>2, <2>3
    <2>5. 2 * ((number - 1) - (t + (i - 1))) < Wrap
          /\ 2 * ((number - 1) - (t + (i - 1))) >= -Wrap
      <3>1. /\ number > t /\ number <= n /\ n <= total /\ 2 * total < Wrap
            /\ i \in Nat /\ 1 <= i /\ i <= w /\ 4 * w < Wrap /\ Wrap \in Nat
        BY <1>2, <1>3, <1>4, <2>2, <2>3
      <3> QED
        BY <3>1
    <2>6. number - 1 \in Int /\ t + (i - 1) \in Int
      BY <2>3
    <2>7. number - 1 = t + (i - 1)
      BY <1>4, <2>4, <2>5, <2>6, PlusInjective
    <2>8. number = t + i
      BY <2>3, <2>7
    <2>9. IsPart(msgs, seg.frag)
      BY DEF Receiving, Labelled
    <2> QED
      BY <2>1, <2>2, <2>8, <2>9
  <1>8. PICK run \in Seq(Frag) : run = RunOf(buf, nxt, k) /\ Len(run) = k
    BY <1>3, <1>4, RunOfProperties
  <1>9. PICK all \in Seq(Frag) : all = queue \o run
    BY ConcatProperties
  <1>10. Len(all) = q + k
           /\ \A i \in 1..(q + k) : all[i] = IF i <= q THEN queue[i] ELSE run[i - q]
    <2>1. /\ Len(all) = Len(queue) + Len(run)
          /\ \A i \in 1..(Len(queue) + Len(run)) :
                all[i] = IF i <= Len(queue) THEN queue[i] ELSE run[i - Len(queue)]
      BY <1>9, ConcatProperties
    <2> QED
      BY <1>1, <1>8, <2>1
  <1>11. Taken(msgs, dlv, all) = t + k
    BY <1>1, <1>3, <1>10 DEF Taken
  <1>12. t + k <= n
    <2>1. CASE k = 0
      BY <1>1, <2>1
    <2>2. CASE k # 0
      <3>1. k \in 1..k
        BY <1>3, <2>2
      <3> QED
        BY <1>7, <3>1
    <2> QED
      BY <2>1, <2>2
  <1>13. ASSUME NEW i \in 1..Len(all)
         PROVE  IsPart(msgs, all[i]) /\ Number(msgs, all[i]) = u + i
    <2>1. i \in 1..(q + k)
      BY <1>10
    <2>2. CASE i <= q
      <3>1. i \in 1..Len(queue) /\ all[i] = queue[i]
        BY <1>1, <1>10, <2>1, <2>2
      <3> QED
        BY <1>1, <3>1 DEF Receiving
    <2>3. CASE ~(i <= q)
      <3>1. PICK j \in 1..k : j = i - q /\ i = q + j
        <4>1. i - q \in 1..k /\ i = q + (i - q)
          BY <1>3, <2>1, <2>3
        <4> QED
          BY <4>1
      <3>2. all[i] = run[j]
        BY <1>10, <2>1, <2>3, <3>1
      <3>3. IsPart(msgs, run[j]) /\ Number(msgs, run[j]) = t + j
        BY <1>7, <1>8
      <3>4. t + j = u + i
        <4>1. t = u + q /\ i = q + j /\ j \in Nat
          BY <1>1, <1>3, <3>1
        <4> QED
          BY <4>1
      <3> QED
        BY <3>2, <3>3, <3>4
    <2> QED
      BY <2>2, <2>3
  <1>14. ASSUME NEW seg \in Beyond(buf, nxt, k)
         PROVE  Labelled(msgs, n, seg.sn, seg.frag) /\ Number(msgs, seg.frag) > t + k
    <2>1. seg \in buf /\ \A i \in 0..(k - 1) : seg.sn # Plus(nxt, i)
      BY DEF Beyond
    <2>2. PICK number \in Nat : /\ number = Number(msgs, seg.frag)
                                /\ number > t
                                /\ seg.sn = Plus(First, number - 1)
      BY <1>6, <2>1
    <2>3. number > t + k
      <3>1. SUFFICES ASSUME number <= t + k PROVE FALSE
        BY <1>3, <2>2
      <3>2. number - t - 1 \in 0..(k - 1) /\ number - t - 1 \in Nat
        BY <1>3, <2>2, <3>1
      <3>3. t + (number - t - 1) = number - 1
        OBVIOUS
      <3>4. Plus(nxt, number - t - 1) = Plus(First, number - 1)
        BY <1>5, <3>2, <3>3
      <3> QED
        BY <2>1, <2>2, <3>2, <3>4
    <2> QED
      BY <2>1, <2>2, <2>3 DEF Receiving
  <1>15. Plus(nxt, k) = Plus(First, t + k)
    BY <1>3, <1>5
  <1>16. Receiving(msgs, n, dlv, all, Beyond(buf, nxt, k), Plus(nxt, k))
    BY <1>1, <1>11, <1>12, <1>13, <1>14, <1>15 DEF Receiving
  <1> QED
    BY <1>8, <1>9, <1>16

(* What rcv_queue begins with: the message after those returned.           *)
LEMMA NextMessage ==
    ASSUME NEW msgs \in Seq(Msg), MsgsInOrder(msgs), NEW n \in Nat, n <= Total(msgs),
           NEW dlv \in Seq(Seq(Frag)), NEW queue \in Seq(Frag), queue # <<>>,
           NEW buf \in SUBSET Held, NEW nxt, Receiving(msgs, n, dlv, queue, buf, nxt)
    PROVE  /\ Len(dlv) + 1 \in 1..Len(msgs)
           /\ msgs[Len(dlv) + 1].count \in Nat \ {0}
           /\ msgs[Len(dlv) + 1].count < WndRcv
           /\ \A i \in 1..Len(queue) : i <= msgs[Len(dlv) + 1].count =>
                 queue[i] = [msg |-> Len(dlv) + 1, frg |-> msgs[Len(dlv) + 1].count - i]
  <1>1. PICK d \in Nat, l \in Nat, q \in Nat, u \in Nat :
           d = Len(dlv) /\ l = Len(msgs) /\ q = Len(queue) /\ u = UpTo(msgs, d) /\ d <= l
    <2>1. Len(dlv) \in 0..Len(msgs) /\ Len(dlv) \in Nat /\ Len(msgs) \in Nat
            /\ Len(queue) \in Nat /\ Len(dlv) <= Len(msgs)
      BY LenProperties DEF Receiving
    <2> QED
      BY <2>1, UpToType
  <1>2. q \in Nat \ {0}
    BY <1>1, EmptySeq
  <1>3. \A i \in 1..q : IsPart(msgs, queue[i]) /\ Number(msgs, queue[i]) = u + i
    BY <1>1 DEF Receiving
  <1>4. d # l
    <2>1. SUFFICES ASSUME d = l PROVE FALSE
      OBVIOUS
    <2>2. Total(msgs) = u
      BY <1>1, <2>1, TotalUpTo
    <2>3. 1 \in 1..q
      BY <1>2
    <2>4. IsPart(msgs, queue[1]) /\ Number(msgs, queue[1]) = u + 1
      BY <1>3, <2>3
    <2>5. queue[1] \in Frag
      BY <1>1, <2>3, ElementOfSeq
    <2>6. u + 1 <= u
      BY <2>2, <2>4, <2>5, PartNumber
    <2> QED
      BY <2>6
  <1>5. d + 1 \in 1..l /\ d + 1 \in 1..Len(msgs) /\ (d + 1) - 1 = d
    BY <1>1, <1>4
  <1>6. msgs[d + 1] \in Msg
    BY <1>5, ElementOfSeq
  <1>7. msgs[d + 1].count \in Nat \ {0} /\ msgs[d + 1].count < WndRcv
    BY <1>5, <1>6 DEF Msg, MsgsInOrder
  <1>8. ASSUME NEW i \in 1..q, i <= msgs[d + 1].count
        PROVE  queue[i] = [msg |-> d + 1, frg |-> msgs[d + 1].count - i]
    <2>1. i \in 1..msgs[d + 1].count
      BY <1>7, <1>8
    <2>2. Number(msgs, queue[i]) = UpTo(msgs, (d + 1) - 1) + i /\ IsPart(msgs, queue[i])
      BY <1>1, <1>3, <1>5
    <2>3. queue[i] \in Frag
      BY <1>1, ElementOfSeq
    <2> QED
      BY <1>5, <2>1, <2>2, <2>3, Located
  <1> QED
    BY <1>1, <1>5, <1>7, <1>8

(* ikcp_recv returns that message when all of it is there.                 *)
LEMMA ReturnsOne ==
    ASSUME NEW msgs \in Seq(Msg), MsgsInOrder(msgs), NEW n \in Nat, n <= Total(msgs),
           NEW dlv \in Seq(Seq(Frag)), NEW queue \in Seq(Frag), queue # <<>>,
           NEW buf \in SUBSET Held, NEW nxt, Receiving(msgs, n, dlv, queue, buf, nxt),
           Len(queue) >= Head(queue).frg + 1
    PROVE  Receiving(msgs, n, Append(dlv, SubSeq(queue, 1, FirstEnd(queue))),
                     SubSeq(queue, FirstEnd(queue) + 1, Len(queue)), buf, nxt)
  <1>1. PICK d \in Nat, q \in Nat \ {0}, m \in 1..Len(msgs) :
           d = Len(dlv) /\ q = Len(queue) /\ m = d + 1
    BY NextMessage, LenProperties, EmptySeq
  <1>2. PICK c \in Nat \ {0} : c = msgs[m].count
    BY <1>1, NextMessage
  <1>3. \A i \in 1..q : i <= c => queue[i] = [msg |-> m, frg |-> c - i]
    BY <1>1, <1>2, NextMessage
  <1>4. c <= q
    <2>1. 1 \in 1..q /\ 1 <= c
      BY <1>1, <1>2
    <2>2. queue[1].frg = c - 1
      <3>1. queue[1] = [msg |-> m, frg |-> c - 1]
        BY <1>3, <2>1
      <3> QED
        BY <3>1
    <2>3. Head(queue) = queue[1]
      BY HeadTailProperties
    <2>4. q >= (c - 1) + 1
      BY <1>1, <2>2, <2>3
    <2> QED
      BY <2>4
  <1>5. FirstEnd(queue) = c
    <2>1. PICK e \in 1..q : e = FirstEnd(queue)
      BY <1>1, FirstEndProperties
    <2>2. e <= c
      <3>1. c \in 1..q /\ c <= c
        BY <1>4
      <3>2. queue[c] = [msg |-> m, frg |-> c - c]
        BY <1>3, <3>1
      <3>3. queue[c].frg = 0
        BY <3>2
      <3> QED
        BY <1>1, <2>1, <3>1, <3>3, FirstEndProperties
    <2>3. e < c => FALSE
      <3> SUFFICES ASSUME e < c PROVE FALSE
        OBVIOUS
      <3>1. e <= c /\ e < q
        BY <1>4
      <3>2. queue[e].frg = 0
        BY <1>1, <2>1, <3>1, FirstEndProperties
      <3>3. queue[e].frg = c - e
        <4>1. queue[e] = [msg |-> m, frg |-> c - e]
          BY <1>3, <3>1
        <4> QED
          BY <4>1
      <3> QED
        BY <3>2, <3>3
    <2> QED
      BY <2>1, <2>2, <2>3
  <1>6. c \in 0..Len(queue)
    BY <1>1, <1>4
  <1>7. PICK first \in Seq(Frag), rest \in Seq(Frag) :
           /\ first = SubSeq(queue, 1, c) /\ rest = SubSeq(queue, c + 1, Len(queue))
           /\ Len(first) = c /\ \A i \in 1..c : first[i] = queue[i]
           /\ Len(rest) = q - c /\ \A i \in 1..(q - c) : rest[i] = queue[c + i]
    <2>1. /\ SubSeq(queue, 1, c) \in Seq(Frag) /\ Len(SubSeq(queue, 1, c)) = c
          /\ \A i \in 1..c : SubSeq(queue, 1, c)[i] = queue[i]
          /\ SubSeq(queue, c + 1, Len(queue)) \in Seq(Frag)
          /\ Len(SubSeq(queue, c + 1, Len(queue))) = Len(queue) - c
          /\ \A i \in 1..(Len(queue) - c) :
                SubSeq(queue, c + 1, Len(queue))[i] = queue[c + i]
      BY <1>6, PrefixSuffix
    <2> QED
      BY <1>1, <2>1
  <1>8. first = Fragments(m, c)
    <2>1. \A i \in 1..c : first[i] = [msg |-> m, frg |-> c - i]
      BY <1>3, <1>4, <1>7
    <2>2. DOMAIN first = 1..c /\ first = [i \in 1..c |-> first[i]]
      BY <1>7, LenProperties
    <2> QED
      BY <2>1, <2>2 DEF Fragments
  <1>9. PICK new : /\ new = Append(dlv, first) /\ Len(new) = m
                   /\ new[m] = first /\ \A i \in 1..d : new[i] = dlv[i]
    <2>1. /\ Len(Append(dlv, first)) = Len(dlv) + 1
          /\ \A i \in 1..Len(dlv) : Append(dlv, first)[i] = dlv[i]
          /\ Append(dlv, first)[Len(dlv) + 1] = first
      BY AppendProperties
    <2> QED
      BY <1>1, <2>1
  <1>10. PICK u \in Nat : u = UpTo(msgs, d)
    <2>1. d \in 0..Len(msgs)
      BY <1>1, LenProperties
    <2> QED
      BY <2>1, UpToType
  <1>11. UpTo(msgs, m) = u + c
    <2>1. m - 1 = d /\ m # 0
      BY <1>1
    <2>2. msgs[m].first = u
      BY <1>10, <2>1 DEF MsgsInOrder
    <2> QED
      BY <1>2, <2>1, <2>2 DEF UpTo
  <1>12. Taken(msgs, new, rest) = Taken(msgs, dlv, queue)
    <2>1. Taken(msgs, new, rest) = (u + c) + (q - c)
      BY <1>7, <1>9, <1>11 DEF Taken
    <2>2. Taken(msgs, dlv, queue) = u + q
      BY <1>1, <1>10 DEF Taken
    <2> QED
      BY <2>1, <2>2
  <1>13. ASSUME NEW i \in 1..Len(new) PROVE new[i] = Fragments(i, msgs[i].count)
    <2>1. CASE i \in 1..d
      BY <1>1, <1>9, <2>1 DEF Receiving
    <2>2. CASE i = m
      BY <1>2, <1>8, <1>9, <2>2
    <2>3. i \in 1..d \/ i = m
      BY <1>1, <1>9
    <2> QED
      BY <2>1, <2>2, <2>3
  <1>14. ASSUME NEW i \in 1..Len(rest)
         PROVE  IsPart(msgs, rest[i]) /\ Number(msgs, rest[i]) = UpTo(msgs, Len(new)) + i
    <2>1. i \in 1..(q - c) /\ c + i \in 1..Len(queue) /\ i \in Nat
      BY <1>1, <1>4, <1>7
    <2>2. rest[i] = queue[c + i]
      BY <1>7, <2>1
    <2>3. IsPart(msgs, queue[c + i]) /\ Number(msgs, queue[c + i]) = UpTo(msgs, Len(dlv)) + (c + i)
      BY <2>1 DEF Receiving
    <2>4. u + (c + i) = (u + c) + i
      BY <2>1
    <2> QED
      BY <1>1, <1>9, <1>10, <1>11, <2>2, <2>3, <2>4
  <1>15. Len(new) <= Len(msgs)
    <2>1. m <= Len(msgs)
      BY <1>1, LenProperties
    <2> QED
      BY <1>9, <2>1
  <1>16. Receiving(msgs, n, new, rest, buf, nxt)
    <2>1. Taken(msgs, new, rest) <= n /\ nxt = Plus(First, Taken(msgs, new, rest))
      BY <1>12 DEF Receiving
    <2>2. \A seg \in buf : /\ Labelled(msgs, n, seg.sn, seg.frag)
                           /\ Number(msgs, seg.frag) > Taken(msgs, new, rest)
      BY <1>12 DEF Receiving
    <2> QED
      BY <1>13, <1>14, <1>15, <2>1, <2>2 DEF Receiving
  <1> QED
    BY <1>5, <1>7, <1>9, <1>16

(* The next m fragments are numbered.                                      *)
LEMMA NumbersNext ==
    ASSUME NEW msgs \in Seq(Msg), MsgsInOrder(msgs),
           NEW queue \in Seq(Frag), NEW buf \in Seq(Seg), NEW nxt,
           Sending(msgs, queue, buf, nxt),
           NEW m \in 0..Len(queue), NEW all \in Seq(Seg), Len(all) = Len(buf) + m,
           \A i \in 1..Len(buf) : all[i].sn = buf[i].sn /\ all[i].frag = buf[i].frag,
           \A i \in 1..m : /\ all[Len(buf) + i].sn = Plus(nxt, i - 1)
                           /\ all[Len(buf) + i].frag = queue[i]
    PROVE  /\ Entered(msgs, SubSeq(queue, m + 1, Len(queue))) = Entered(msgs, queue) + m
           /\ Sending(msgs, SubSeq(queue, m + 1, Len(queue)), all, Plus(nxt, m))
  <1>1. PICK q \in Nat, t \in Nat, b \in Nat, e \in Nat :
           /\ q = Len(queue) /\ t = Total(msgs) /\ b = Len(buf)
           /\ e = Entered(msgs, queue) /\ e = t - q
    <2>1. Entered(msgs, queue) \in Nat /\ Entered(msgs, queue) = Total(msgs) - Len(queue)
      BY EnteredType DEF Sending, Entered
    <2> QED
      BY <2>1, LenProperties, TotalUpTo
  <1>2. m \in 0..q /\ m \in Nat
    BY <1>1
  <1>3. PICK rest \in Seq(Frag) :
           /\ rest = SubSeq(queue, m + 1, Len(queue)) /\ Len(rest) = q - m
           /\ \A i \in 1..(q - m) : rest[i] = queue[m + i]
    BY <1>1, PrefixSuffix
  <1>4. Entered(msgs, rest) = e + m
    <2>1. t - (q - m) = e + m
      BY <1>1, <1>2
    <2> QED
      BY <1>1, <1>3, <2>1 DEF Entered
  <1>5. First \in Sn /\ nxt = Plus(First, e)
    BY <1>1, Constants DEF Sending
  <1>6. ASSUME NEW i \in Nat PROVE Plus(nxt, i) = Plus(First, e + i)
    BY <1>1, <1>5, PlusPlus
  <1>7. ASSUME NEW i \in 1..Len(rest)
        PROVE  IsPart(msgs, rest[i]) /\ Number(msgs, rest[i]) = (e + m) + i
    <2>1. i \in 1..(q - m) /\ m + i \in 1..Len(queue) /\ i \in Nat
      <3>1. i \in 1..(q - m) /\ Len(queue) = q
        BY <1>1, <1>3
      <3> QED
        BY <1>2, <3>1
    <2>2. IsPart(msgs, queue[m + i]) /\ Number(msgs, queue[m + i]) = e + (m + i)
      BY <1>1, <2>1 DEF Sending
    <2>3. e + (m + i) = (e + m) + i
      BY <1>2, <2>1
    <2> QED
      BY <1>3, <2>1, <2>2, <2>3
  <1>8. ASSUME NEW i \in 1..Len(all)
        PROVE  Labelled(msgs, e + m, all[i].sn, all[i].frag)
    <2>1. CASE i \in 1..b
      <3>1. buf[i].frag \in Frag
        BY <1>1, <2>1, ElementOfSeq, SegFields
      <3>2. Labelled(msgs, e, buf[i].sn, buf[i].frag)
        BY <1>1, <2>1 DEF Sending
      <3>3. e + m \in Nat /\ e <= e + m
        BY <1>2
      <3>4. Labelled(msgs, e + m, buf[i].sn, buf[i].frag)
        BY <3>1, <3>2, <3>3, LaterLabel
      <3> QED
        BY <1>1, <2>1, <3>4
    <2>2. CASE i \notin 1..b
      <3>1. PICK j \in 1..m : i = b + j
        <4>1. i \in 1..(b + m)
          BY <1>1
        <4>2. i - b \in 1..m /\ i = b + (i - b)
          BY <1>2, <2>2, <4>1
        <4> QED
          BY <4>2
      <3>2. all[i].sn = Plus(nxt, j - 1) /\ all[i].frag = queue[j]
        BY <1>1, <3>1
      <3>3. j \in 1..Len(queue) /\ j \in Nat /\ j - 1 \in Nat /\ j <= m
        BY <1>1, <1>2
      <3>4. IsPart(msgs, queue[j]) /\ Number(msgs, queue[j]) = e + j
        BY <1>1, <3>3 DEF Sending
      <3>5. e + (j - 1) = (e + j) - 1 /\ e + j <= e + m
        BY <1>2, <3>3
      <3>6. all[i].sn = Plus(First, (e + j) - 1)
        BY <1>6, <3>2, <3>3, <3>5
      <3> QED
        BY <3>2, <3>4, <3>5, <3>6 DEF Labelled
    <2> QED
      BY <2>1, <2>2
  <1>9. Plus(nxt, m) = Plus(First, e + m)
    BY <1>2, <1>6
  <1>10. Sending(msgs, rest, all, Plus(nxt, m))
    <2>1. e + m >= 0
      BY <1>2
    <2> QED
      BY <1>4, <1>7, <1>8, <1>9, <2>1 DEF Sending
  <1> QED
    BY <1>1, <1>3, <1>4, <1>10

----------------------------------------------------------------------------
(* Each action keeps DeliveryInv.                                          *)
LEMMA SendMoves ==
    ASSUME TypeOK, DeliveryInv, NEW s \in End, NEW count \in Counts, KcpSend(s, count),
           NEW p \in End, p = Peer(s)
    PROVE  \E new \in Seq(Msg), added \in Seq(Frag) :
              /\ given'[s] = new /\ given'[p] = given[p]
              /\ snd_queue'[s] = snd_queue[s] \o added /\ snd_queue'[p] = snd_queue[p]
              /\ UNCHANGED <<snd_buf, snd_nxt, rcv_nxt, rcv_buf, rcv_queue, net, delivered>>
              /\ Len(new) = Len(given[s]) + 1 /\ Len(new) <= MaxMsgs[s]
              /\ MsgsInOrder(new) /\ Total(new) > Total(given[s])
              /\ Prolongs(new, given[s])
              /\ Sending(new, snd_queue[s] \o added, snd_buf[s], snd_nxt[s])
              /\ EnteredAt(s)' = EnteredAt(s) /\ EnteredAt(p)' = EnteredAt(p)
  <1>1. count \in Nat \ {0} /\ count < WndRcv /\ Len(given[s]) < MaxMsgs[s]
          /\ MaxMsgs[s] \in Nat
    BY BoundsAssumption DEF KcpSend
  <1>2. p # s /\ s = Peer(p)
    BY Ends
  <1>3. given \in [End -> Seq(Msg)] /\ snd_queue \in [End -> Seq(Frag)]
          /\ given[s] \in Seq(Msg) /\ snd_queue[s] \in Seq(Frag) /\ snd_buf[s] \in Seq(Seg)
          /\ Len(given[s]) \in Nat
    BY TypeAt, LenProperties DEF TypeOK
  <1>4. PICK new : new = Append(given[s], [first |-> Total(given[s]), count |-> count])
    OBVIOUS
  <1>5. Fragments(Len(given[s]) + 1, count) \in Seq(Frag)
    <2>1. Len(given[s]) + 1 \in Nat
      BY <1>3
    <2> QED
      BY <1>1, <2>1, FragmentsType
  <1>6. PICK added \in Seq(Frag) : added = Fragments(Len(given[s]) + 1, count)
    BY <1>5
  <1>7. /\ given'[s] = new /\ given'[p] = given[p]
        /\ snd_queue'[s] = snd_queue[s] \o added /\ snd_queue'[p] = snd_queue[p]
        /\ UNCHANGED <<snd_buf, snd_nxt, rcv_nxt, rcv_buf, rcv_queue, net, delivered>>
    BY <1>2, <1>3, <1>4, <1>6 DEF KcpSend, recvVars
  <1>8. /\ MsgsInOrder(given[s])
        /\ Sending(given[s], snd_queue[s], snd_buf[s], snd_nxt[s])
    BY DEF DeliveryInv, SenderInv
  <1>9. /\ new \in Seq(Msg) /\ Len(new) = Len(given[s]) + 1
        /\ MsgsInOrder(new)
        /\ Total(new) = Total(given[s]) + count
        /\ new[Len(given[s]) + 1] = [first |-> Total(given[s]), count |-> count]
        /\ Prolongs(new, given[s])
    BY <1>1, <1>3, <1>4, <1>8, Given
  <1>10. /\ Entered(new, snd_queue[s] \o added) = EnteredAt(s)
         /\ Sending(new, snd_queue[s] \o added, snd_buf[s], snd_nxt[s])
    <2>1. PICK msgs \in Seq(Msg), queue \in Seq(Frag), buf \in Seq(Seg), nxt \in Sn :
             /\ msgs = given[s] /\ queue = snd_queue[s] /\ buf = snd_buf[s]
             /\ nxt = snd_nxt[s]
      BY <1>3, TypeAt
    <2>2. Sending(msgs, queue, buf, nxt)
      BY <1>8, <2>1
    <2>3. added = Fragments(Len(msgs) + 1, count) /\ Prolongs(new, msgs)
            /\ Len(new) = Len(msgs) + 1 /\ Total(new) = Total(msgs) + count
            /\ new[Len(msgs) + 1] = [first |-> Total(msgs), count |-> count]
      BY <1>6, <1>9, <2>1
    <2>4. /\ Entered(new, queue \o added) = Entered(msgs, queue)
          /\ Sending(new, queue \o added, buf, nxt)
      BY <1>1, <1>9, <2>2, <2>3, GivenSending
    <2> QED
      BY <2>1, <2>4 DEF EnteredAt
  <1>11. EnteredAt(s)' = EnteredAt(s) /\ EnteredAt(p)' = EnteredAt(p)
    BY <1>7, <1>10 DEF EnteredAt
  <1>12. Len(new) <= MaxMsgs[s]
    BY <1>1, <1>3, <1>9
  <1>13. Total(new) > Total(given[s])
    <2>1. Total(given[s]) \in Nat
      BY <1>3, TotalUpTo
    <2> QED
      BY <1>1, <1>9, <2>1
  <1> QED
    BY <1>6, <1>7, <1>9, <1>10, <1>11, <1>12, <1>13

LEMMA SendDelivery ==
    ASSUME TypeOK, DeliveryInv, NEW s \in End, NEW count \in Counts, KcpSend(s, count)
    PROVE  DeliveryInv'
  <1>1. PICK p \in End : p = Peer(s) /\ p # s /\ s = Peer(p)
    BY Ends
  <1>2. given[s] \in Seq(Msg)
    BY TypeAt
  <1>3. PICK new \in Seq(Msg), added \in Seq(Frag) :
           /\ given'[s] = new /\ given'[p] = given[p]
           /\ snd_queue'[s] = snd_queue[s] \o added /\ snd_queue'[p] = snd_queue[p]
           /\ UNCHANGED <<snd_buf, snd_nxt, rcv_nxt, rcv_buf, rcv_queue, net, delivered>>
           /\ Len(new) <= MaxMsgs[s] /\ MsgsInOrder(new)
           /\ Prolongs(new, given[s])
           /\ Sending(new, snd_queue[s] \o added, snd_buf[s], snd_nxt[s])
           /\ EnteredAt(s)' = EnteredAt(s) /\ EnteredAt(p)' = EnteredAt(p)
    BY <1>1, SendMoves
  <1>4. SenderInv(s)'
    BY <1>3 DEF SenderInv
  <1>5. SenderInv(p)'
    BY <1>3 DEF DeliveryInv, SenderInv
  <1>6. ReceiverInv(s)'
    BY <1>1, <1>3 DEF DeliveryInv, ReceiverInv
  <1>7. ReceiverInv(p)'
    <2>1. /\ delivered[p] \in Seq(Seq(Frag)) /\ rcv_queue[p] \in Seq(Frag)
          /\ rcv_buf[p] \in SUBSET Held
      BY TypeAt
    <2>2. ReceiverInv(p)
      BY DEF DeliveryInv
    <2>3. ASSUME NEW seg \in net[p], seg.cmd = "push"
          PROVE  Labelled(new, EnteredAt(s), seg.sn, seg.frag)
      <3>1. Labelled(given[s], EnteredAt(s), seg.sn, seg.frag)
        BY <1>1, <2>2, <2>3 DEF ReceiverInv
      <3> QED
        BY <1>2, <1>3, <3>1, ProlongsLabel
    <2>4. Receiving(given[s], EnteredAt(s), delivered[p], rcv_queue[p], rcv_buf[p], rcv_nxt[p])
      BY <1>1, <2>2 DEF ReceiverInv
    <2>5. Receiving(new, EnteredAt(s), delivered[p], rcv_queue[p], rcv_buf[p], rcv_nxt[p])
      BY <1>2, <1>3, <2>1, <2>4, ProlongsReceiving
    <2> QED
      BY <1>1, <1>3, <2>3, <2>5 DEF ReceiverInv
  <1>8. \A t \in End : t = s \/ t = p
    BY <1>1 DEF End, Peer
  <1> QED
    BY <1>4, <1>5, <1>6, <1>7, <1>8 DEF DeliveryInv

(* How much of what was given to an end it has numbered.                   *)
LEMMA EnteredBound ==
    ASSUME TypeOK, DeliveryInv, HalfTurn, NEW s \in End
    PROVE  /\ given[s] \in Seq(Msg) /\ MsgsInOrder(given[s])
           /\ EnteredAt(s) \in Nat /\ EnteredAt(s) <= Total(given[s])
           /\ 2 * Total(given[s]) < Wrap
  <1>1. given[s] \in Seq(Msg) /\ snd_queue[s] \in Seq(Frag)
    BY TypeAt
  <1>2. /\ MsgsInOrder(given[s]) /\ Len(given[s]) <= MaxMsgs[s]
        /\ Entered(given[s], snd_queue[s]) >= 0
    BY DEF DeliveryInv, SenderInv, Sending
  <1> QED
    BY <1>1, <1>2, EnteredType, Bound DEF EnteredAt

(* ikcp_recv returns one message and takes what is next from rcv_buf.      *)
LEMMA RecvMoves ==
    ASSUME TypeOK, WindowInv, DeliveryInv, HalfTurn, NEW s \in End, KcpRecv(s),
           NEW p \in End, p = Peer(s)
    PROVE  \E dlv \in Seq(Seq(Frag)), rest \in Seq(Frag), k \in 0..RcvWnd :
              /\ delivered'[s] = dlv /\ Len(dlv) = Len(delivered[s]) + 1
              /\ Receiving(given[p], EnteredAt(p), dlv, rest, rcv_buf[s], rcv_nxt[s])
              /\ Contiguous(rcv_buf[s], rcv_nxt[s], k)
              /\ rcv_queue'[s] = rest \o RunOf(rcv_buf[s], rcv_nxt[s], k)
              /\ rcv_buf'[s] = Beyond(rcv_buf[s], rcv_nxt[s], k)
              /\ rcv_nxt'[s] = Plus(rcv_nxt[s], k)
              /\ delivered'[p] = delivered[p] /\ rcv_queue'[p] = rcv_queue[p]
              /\ rcv_buf'[p] = rcv_buf[p] /\ rcv_nxt'[p] = rcv_nxt[p]
  <1>1. p # s
    BY Ends
  <1>2. rcv_queue[s] \in Seq(Frag) /\ rcv_queue[s] # <<>> /\ rcv_nxt[s] \in Sn
          /\ Len(rcv_queue[s]) >= Head(rcv_queue[s]).frg + 1
          /\ rcv_buf[s] \in SUBSET Held /\ delivered[s] \in Seq(Seq(Frag))
          /\ delivered \in [End -> Seq(Seq(Frag))]
    BY TypeAt DEF KcpRecv, CanPeek, TypeOK
  <1>3. PICK n \in 1..Len(rcv_queue[s]) : n = FirstEnd(rcv_queue[s])
    BY <1>2, FirstEndProperties
  <1>4. n \in 0..Len(rcv_queue[s]) /\ Len(rcv_queue[s]) \in Nat
    BY <1>2, LenProperties
  <1>5. PICK first \in Seq(Frag), rest \in Seq(Frag) :
           /\ first = SubSeq(rcv_queue[s], 1, n)
           /\ rest = SubSeq(rcv_queue[s], n + 1, Len(rcv_queue[s]))
           /\ Len(rest) = Len(rcv_queue[s]) - n
    BY <1>2, <1>4, PrefixSuffix
  <1>6. /\ delivered'[s] = Append(delivered[s], first) /\ delivered'[p] = delivered[p]
        /\ Absorb(s, rcv_buf[s], rest)
    BY <1>1, <1>2, <1>3, <1>5 DEF KcpRecv
  <1>7. RcvWindow(rest, rcv_buf[s], rcv_nxt[s])
    <2>1. RcvWindow(rcv_queue[s], rcv_buf[s], rcv_nxt[s])
      BY DEF WindowInv
    <2>2. Len(rest) <= RcvWnd
      BY <1>4, <1>5, <2>1, Constants DEF RcvWindow
    <2> QED
      BY <2>1, <2>2 DEF RcvWindow
  <1>8. PICK k \in Nat :
           /\ k <= RcvWnd /\ Contiguous(rcv_buf[s], rcv_nxt[s], k)
           /\ rcv_queue'[s] = rest \o RunOf(rcv_buf[s], rcv_nxt[s], k)
           /\ rcv_buf'[s] = Beyond(rcv_buf[s], rcv_nxt[s], k)
           /\ rcv_nxt'[s] = Plus(rcv_nxt[s], k)
    BY <1>2, <1>5, <1>6, <1>7, AbsorbStep
  <1>9. /\ rcv_queue'[p] = rcv_queue[p] /\ rcv_buf'[p] = rcv_buf[p]
        /\ rcv_nxt'[p] = rcv_nxt[p]
    BY <1>1, <1>2, <1>5, <1>6, <1>7, AbsorbStep
  <1>10. /\ given[p] \in Seq(Msg) /\ MsgsInOrder(given[p])
         /\ EnteredAt(p) \in Nat /\ EnteredAt(p) <= Total(given[p])
         /\ 2 * Total(given[p]) < Wrap
    BY EnteredBound
  <1>11. Receiving(given[p], EnteredAt(p), delivered[s], rcv_queue[s], rcv_buf[s], rcv_nxt[s])
    BY DEF DeliveryInv, ReceiverInv
  <1>12. Receiving(given[p], EnteredAt(p), Append(delivered[s], first), rest,
                   rcv_buf[s], rcv_nxt[s])
    BY <1>2, <1>3, <1>5, <1>10, <1>11, ReturnsOne
  <1>13. PICK dlv \in Seq(Seq(Frag)) : dlv = Append(delivered[s], first)
                                         /\ Len(dlv) = Len(delivered[s]) + 1
    <2>1. PICK old \in Seq(Seq(Frag)) : old = delivered[s]
      BY <1>2
    <2>2. Append(old, first) \in Seq(Seq(Frag)) /\ Len(Append(old, first)) = Len(old) + 1
      BY AppendProperties
    <2> QED
      BY <2>1, <2>2
  <1>14. k \in 0..RcvWnd
    BY <1>8, Constants
  <1> QED
    BY <1>5, <1>6, <1>8, <1>9, <1>12, <1>13, <1>14

LEMMA RecvDelivery ==
    ASSUME TypeOK, WindowInv, DeliveryInv, HalfTurn, NEW s \in End, KcpRecv(s)
    PROVE  DeliveryInv'
  <1>1. PICK p \in End : p = Peer(s) /\ p # s /\ s = Peer(p)
    BY Ends
  <1>2. UNCHANGED <<snd_queue, snd_buf, snd_nxt, net, given>>
    BY DEF KcpRecv, sendVars
  <1>3. PICK dlv \in Seq(Seq(Frag)), rest \in Seq(Frag), k \in 0..RcvWnd :
           /\ delivered'[s] = dlv /\ Len(dlv) = Len(delivered[s]) + 1
           /\ Receiving(given[p], EnteredAt(p), dlv, rest, rcv_buf[s], rcv_nxt[s])
           /\ Contiguous(rcv_buf[s], rcv_nxt[s], k)
           /\ rcv_queue'[s] = rest \o RunOf(rcv_buf[s], rcv_nxt[s], k)
           /\ rcv_buf'[s] = Beyond(rcv_buf[s], rcv_nxt[s], k)
           /\ rcv_nxt'[s] = Plus(rcv_nxt[s], k)
           /\ delivered'[p] = delivered[p] /\ rcv_queue'[p] = rcv_queue[p]
           /\ rcv_buf'[p] = rcv_buf[p] /\ rcv_nxt'[p] = rcv_nxt[p]
    BY <1>1, RecvMoves
  <1>4. /\ given[p] \in Seq(Msg) /\ MsgsInOrder(given[p])
        /\ EnteredAt(p) \in Nat /\ EnteredAt(p) <= Total(given[p])
        /\ 2 * Total(given[p]) < Wrap
    BY EnteredBound
  <1>5. rcv_buf[s] \in SUBSET Held
    BY TypeAt
  <1>6. Receiving(given[p], EnteredAt(p), delivered'[s], rcv_queue'[s], rcv_buf'[s],
                  rcv_nxt'[s])
    BY <1>3, <1>4, <1>5, TakesNext
  <1>7. \A t \in End : EnteredAt(t)' = EnteredAt(t)
    BY <1>2 DEF EnteredAt
  <1>8. SenderInv(s)' /\ SenderInv(p)'
    BY <1>2 DEF DeliveryInv, SenderInv
  <1>9. ReceiverInv(s)'
    BY <1>1, <1>2, <1>6, <1>7 DEF DeliveryInv, ReceiverInv
  <1>10. ReceiverInv(p)'
    BY <1>1, <1>2, <1>3, <1>7 DEF DeliveryInv, ReceiverInv
  <1>11. \A t \in End : t = s \/ t = p
    BY <1>1 DEF End, Peer
  <1> QED
    BY <1>8, <1>9, <1>10, <1>11 DEF DeliveryInv

(* Segments that leave snd_buf, and counters of those that stay, change no *)
(* label.                                                                  *)
LEMMA KeepsSending ==
    ASSUME NEW msgs, NEW queue, NEW buf \in Seq(Seg), NEW nxt, Sending(msgs, queue, buf, nxt),
           NEW later \in Seq(Seg), Keeps(later, buf)
    PROVE  Sending(msgs, queue, later, nxt)
  <1>1. ASSUME NEW i \in 1..Len(later)
        PROVE  Labelled(msgs, Entered(msgs, queue), later[i].sn, later[i].frag)
    <2>1. i \in DOMAIN later
      BY LenProperties
    <2>2. PICK j \in DOMAIN buf : later[i].sn = buf[j].sn /\ later[i].frag = buf[j].frag
      BY <2>1, KeepsEach
    <2>3. j \in 1..Len(buf)
      BY LenProperties
    <2> QED
      BY <2>2, <2>3 DEF Sending
  <1> QED
    BY <1>1 DEF Sending

(* What ikcp_input takes from a segment that brings something new.         *)
LEMMA ArriveMoves ==
    ASSUME TypeOK, WindowInv, DeliveryInv, HalfTurn, NEW s \in End, NEW seg \in net[s],
           KcpInput(s, seg), NEW p \in End, p = Peer(s)
    PROVE  /\ rcv_queue'[p] = rcv_queue[p] /\ rcv_buf'[p] = rcv_buf[p]
           /\ rcv_nxt'[p] = rcv_nxt[p]
           /\ \A sn \in acklist'[s] : sn \in acklist[s] \/ (seg.cmd = "push" /\ sn = seg.sn)
           /\ acklist'[p] = acklist[p]
           /\ \/ /\ UNCHANGED <<rcv_nxt, rcv_buf, rcv_queue>>
                 /\ acklist' = acklist \/ (seg.cmd = "push" /\ Repeats(s, seg))
              \/ \E held \in Held, buf \in SUBSET Held, k \in 0..RcvWnd :
                    /\ seg.cmd = "push" /\ held.sn = seg.sn
                    /\ buf = rcv_buf[s] \cup {held}
                    /\ Receiving(given[p], EnteredAt(p), delivered[s], rcv_queue[s], buf,
                                 rcv_nxt[s])
                    /\ Contiguous(buf, rcv_nxt[s], k)
                    /\ rcv_queue'[s] = rcv_queue[s] \o RunOf(buf, rcv_nxt[s], k)
                    /\ rcv_buf'[s] = Beyond(buf, rcv_nxt[s], k)
                    /\ rcv_nxt'[s] = Plus(rcv_nxt[s], k)
  <1>1. p # s
    BY Ends
  <1>2. seg \in Segment
    BY TypeAt
  <1>3. /\ given[p] \in Seq(Msg) /\ MsgsInOrder(given[p])
        /\ EnteredAt(p) \in Nat /\ EnteredAt(p) <= Total(given[p])
        /\ 2 * Total(given[p]) < Wrap
    BY EnteredBound
  <1>4. /\ Receiving(given[p], EnteredAt(p), delivered[s], rcv_queue[s], rcv_buf[s],
                     rcv_nxt[s])
        /\ seg.cmd = "push" => Labelled(given[p], EnteredAt(p), seg.sn, seg.frag)
    BY DEF DeliveryInv, ReceiverInv
  <1>5. /\ rcv_queue[s] \in Seq(Frag) /\ rcv_buf[s] \in SUBSET Held /\ rcv_nxt[s] \in Sn
        /\ delivered[s] \in Seq(Seq(Frag))
    BY TypeAt
  <1>6. acklist \in [End -> SUBSET Sn]
    BY DEF TypeOK
  <1>7. CASE seg.cmd # "push"
    <2>1. UNCHANGED <<rcv_nxt, rcv_buf, rcv_queue, acklist>>
      BY <1>7 DEF KcpInput, recvVars
    <2> QED
      BY <2>1
  <1>8. CASE seg.cmd = "push"
    <2>1. InputPush(s, seg)
      BY <1>8 DEF KcpInput
    <2>2. acklist' = acklist \/ acklist' = [acklist EXCEPT ![s] = @ \cup {seg.sn}]
      BY <1>2, <1>8, <2>1, InputPushStep
    <2>3. /\ \A sn \in acklist'[s] : sn \in acklist[s] \/ sn = seg.sn
          /\ acklist'[p] = acklist[p]
      BY <1>1, <1>6, <2>2
    <2>4. CASE /\ UNCHANGED <<rcv_nxt, rcv_buf, rcv_queue>>
               /\ acklist' = acklist \/ Repeats(s, seg)
      BY <1>8, <2>3, <2>4
    <2>5. CASE ~(/\ UNCHANGED <<rcv_nxt, rcv_buf, rcv_queue>>
                 /\ acklist' = acklist \/ Repeats(s, seg))
      <3>1. PICK held \in Held : held = [sn |-> seg.sn, frag |-> seg.frag]
        BY <1>2, <1>8, <2>1, <2>5, InputPushStep
      <3>2. /\ Diff(held.sn, rcv_nxt[s]) \in 0..(RcvWnd - 1)
            /\ RcvWindow(rcv_queue[s], rcv_buf[s] \cup {held}, rcv_nxt[s])
            /\ Absorb(s, rcv_buf[s] \cup {held}, rcv_queue[s])
        BY <1>2, <1>8, <2>1, <2>5, <3>1, InputPushStep
      <3>3. /\ Labelled(given[p], EnteredAt(p), held.sn, held.frag)
            /\ Diff(held.sn, rcv_nxt[s]) >= 0 /\ held.sn = seg.sn
        BY <1>4, <1>8, <3>1, <3>2
      <3>4. PICK buf \in SUBSET Held : buf = rcv_buf[s] \cup {held}
        BY <1>5
      <3>5. Receiving(given[p], EnteredAt(p), delivered[s], rcv_queue[s], buf, rcv_nxt[s])
        BY <1>3, <1>4, <1>5, <3>3, <3>4, HeldReceiving
      <3>6. PICK k \in Nat :
               /\ k <= RcvWnd /\ Contiguous(buf, rcv_nxt[s], k)
               /\ rcv_queue'[s] = rcv_queue[s] \o RunOf(buf, rcv_nxt[s], k)
               /\ rcv_buf'[s] = Beyond(buf, rcv_nxt[s], k)
               /\ rcv_nxt'[s] = Plus(rcv_nxt[s], k)
        BY <1>5, <3>2, <3>4, AbsorbStep
      <3>7. k \in 0..RcvWnd
        BY <3>6, Constants
      <3>8. /\ rcv_queue'[p] = rcv_queue[p] /\ rcv_buf'[p] = rcv_buf[p]
            /\ rcv_nxt'[p] = rcv_nxt[p]
        BY <1>1, <1>5, <3>2, <3>4, AbsorbStep
      <3> QED
        BY <1>8, <2>3, <3>3, <3>4, <3>5, <3>6, <3>7, <3>8
    <2> QED
      BY <2>4, <2>5
  <1> QED
    BY <1>7, <1>8

LEMMA ArriveDelivery ==
    ASSUME TypeOK, WindowInv, DeliveryInv, HalfTurn, NEW s \in End, NEW seg \in net[s],
           NEW keep \in BOOLEAN, Arrive(s, seg, keep)
    PROVE  DeliveryInv'
  <1>1. PICK p \in End : p = Peer(s) /\ p # s /\ s = Peer(p)
    BY Ends
  <1>2. seg \in Segment /\ KcpInput(s, seg)
    BY TypeAt DEF Arrive
  <1>3. Acknowledge(s, seg) /\ UNCHANGED <<given, delivered>>
    BY <1>2 DEF KcpInput, historyVars
  <1>4. /\ snd_buf' \in [End -> Seq(Seg)] /\ UNCHANGED <<snd_queue, snd_nxt>>
        /\ \A t \in End : Keeps(snd_buf'[t], snd_buf[t])
    BY <1>2, <1>3, AcknowledgeStep
  <1>5. \A t \in End : EnteredAt(t)' = EnteredAt(t)
    BY <1>3, <1>4 DEF EnteredAt
  <1>6. ASSUME NEW t \in End PROVE SenderInv(t)'
    <2>1. SenderInv(t)
      BY DEF DeliveryInv
    <2>2. snd_buf[t] \in Seq(Seg) /\ snd_buf'[t] \in Seq(Seg)
            /\ Keeps(snd_buf'[t], snd_buf[t])
      BY <1>4, TypeAt
    <2>3. Sending(given[t], snd_queue[t], snd_buf'[t], snd_nxt[t])
      BY <2>1, <2>2, KeepsSending DEF SenderInv
    <2> QED
      BY <1>3, <1>4, <2>1, <2>3 DEF SenderInv
  <1>7. \A t \in End : net'[t] \subseteq net[t]
    BY DEF Arrive, TypeOK
  <1>8. ASSUME NEW t \in End, NEW held \in net'[t], held.cmd = "push"
        PROVE  Labelled(given'[Peer(t)], EnteredAt(Peer(t))', held.sn, held.frag)
    <2>1. ReceiverInv(t) /\ Peer(t) \in End /\ held \in net[t]
      BY <1>7, Ends DEF DeliveryInv
    <2> QED
      BY <1>3, <1>5, <1>8, <2>1 DEF ReceiverInv
  <1>9. /\ given[p] \in Seq(Msg) /\ MsgsInOrder(given[p])
        /\ EnteredAt(p) \in Nat /\ EnteredAt(p) <= Total(given[p])
        /\ 2 * Total(given[p]) < Wrap
    BY EnteredBound
  <1>10. /\ Receiving(given[p], EnteredAt(p), delivered[s], rcv_queue[s], rcv_buf[s],
                      rcv_nxt[s])
         /\ seg.cmd = "push" => Labelled(given[p], EnteredAt(p), seg.sn, seg.frag)
    BY <1>1 DEF DeliveryInv, ReceiverInv
  <1>11. /\ rcv_queue[s] \in Seq(Frag) /\ rcv_buf[s] \in SUBSET Held /\ rcv_nxt[s] \in Sn
         /\ delivered[s] \in Seq(Seq(Frag))
    BY TypeAt
  <1>12. /\ Receiving(given[p], EnteredAt(p), delivered[s], rcv_queue'[s], rcv_buf'[s],
                      rcv_nxt'[s])
         /\ rcv_queue'[p] = rcv_queue[p] /\ rcv_buf'[p] = rcv_buf[p]
         /\ rcv_nxt'[p] = rcv_nxt[p]
    <2>1. CASE UNCHANGED <<rcv_nxt, rcv_buf, rcv_queue>>
      BY <1>10, <2>1
    <2>2. CASE ~UNCHANGED <<rcv_nxt, rcv_buf, rcv_queue>>
      <3>1. PICK buf \in SUBSET Held, k \in 0..RcvWnd :
               /\ Receiving(given[p], EnteredAt(p), delivered[s], rcv_queue[s], buf,
                            rcv_nxt[s])
               /\ Contiguous(buf, rcv_nxt[s], k)
               /\ rcv_queue'[s] = rcv_queue[s] \o RunOf(buf, rcv_nxt[s], k)
               /\ rcv_buf'[s] = Beyond(buf, rcv_nxt[s], k)
               /\ rcv_nxt'[s] = Plus(rcv_nxt[s], k)
        BY <1>1, <1>2, <2>2, ArriveMoves
      <3>2. Receiving(given[p], EnteredAt(p), delivered[s], rcv_queue'[s], rcv_buf'[s],
                      rcv_nxt'[s])
        BY <1>9, <1>11, <3>1, TakesNext
      <3> QED
        BY <1>1, <1>2, <3>2, ArriveMoves
    <2> QED
      BY <2>1, <2>2
  <1>13. ReceiverInv(s)'
    <2>1. Receiving(given'[Peer(s)], EnteredAt(Peer(s))', delivered'[s], rcv_queue'[s],
                    rcv_buf'[s], rcv_nxt'[s])
      BY <1>1, <1>3, <1>5, <1>12
    <2> QED
      BY <1>8, <2>1 DEF ReceiverInv
  <1>14. ReceiverInv(p)'
    <2>1. Receiving(given[s], EnteredAt(s), delivered[p], rcv_queue[p], rcv_buf[p], rcv_nxt[p])
      BY <1>1 DEF DeliveryInv, ReceiverInv
    <2>2. Receiving(given'[Peer(p)], EnteredAt(Peer(p))', delivered'[p], rcv_queue'[p],
                    rcv_buf'[p], rcv_nxt'[p])
      BY <1>1, <1>3, <1>5, <1>12, <2>1
    <2> QED
      BY <1>8, <2>2 DEF ReceiverInv
  <1>15. \A t \in End : t = s \/ t = p
    BY <1>1 DEF End, Peer
  <1> QED
    BY <1>6, <1>13, <1>14, <1>15 DEF DeliveryInv

LEMMA FlushDelivery ==
    ASSUME TypeOK, WindowInv, DeliveryInv, HalfTurn, NEW s \in End, NEW late, NEW expires,
           NEW kept, KcpFlush(s, late, expires, kept)
    PROVE  DeliveryInv'
  <1>1. PICK p \in End : p = Peer(s) /\ p # s /\ s = Peer(p)
    BY Ends
  <1>2. PICK m : m = Moves(s)
    OBVIOUS
  <1>3. PICK buf : buf = AfterSend(Buffered(s), late)
    OBVIOUS
  <1>4. /\ net'[p] = net[p] \cup kept /\ net'[s] = net[s]
        /\ snd_queue'[s] = SubSeq(snd_queue[s], m + 1, Len(snd_queue[s]))
        /\ snd_buf'[s] = buf /\ snd_nxt'[s] = Plus(snd_nxt[s], m)
        /\ snd_queue'[p] = snd_queue[p] /\ snd_buf'[p] = snd_buf[p]
        /\ snd_nxt'[p] = snd_nxt[p]
        /\ UNCHANGED <<rcv_nxt, rcv_buf, rcv_queue, given, delivered>>
    BY <1>1, <1>2, <1>3 DEF KcpFlush, Transmit, TypeOK
  <1>5. /\ m \in 0..Len(snd_queue[s]) /\ Buffered(s) \in Seq(Seg)
        /\ Len(Buffered(s)) = Len(snd_buf[s]) + m
        /\ \A i \in 1..Len(snd_buf[s]) : Buffered(s)[i] = snd_buf[s][i]
        /\ \A i \in 1..m : /\ Buffered(s)[Len(snd_buf[s]) + i].sn = Plus(snd_nxt[s], i - 1)
                           /\ Buffered(s)[Len(snd_buf[s]) + i].frag = snd_queue[s][i]
    BY <1>2, BufferedProperties
  <1>6. /\ buf \in Seq(Seg) /\ Keeps(buf, Buffered(s))
    BY <1>3, <1>5, AfterSendKeeps
  <1>7. /\ snd_queue[s] \in Seq(Frag) /\ snd_buf[s] \in Seq(Seg)
        /\ m \in Nat /\ Len(snd_buf[s]) \in Nat
    <2>1. snd_queue[s] \in Seq(Frag) /\ snd_buf[s] \in Seq(Seg)
      BY TypeAt
    <2>2. Len(snd_queue[s]) \in Nat /\ Len(snd_buf[s]) \in Nat
      BY <2>1, LenProperties
    <2> QED
      BY <1>5, <2>1, <2>2
  <1>8. PICK rest, nxt : /\ rest = SubSeq(snd_queue[s], m + 1, Len(snd_queue[s]))
                          /\ nxt = snd_nxt[s]
    OBVIOUS
  <1>9. PICK msgs \in Seq(Msg), e \in Nat :
           /\ msgs = given[s] /\ MsgsInOrder(msgs) /\ Len(msgs) <= MaxMsgs[s]
           /\ e = EnteredAt(s) /\ e = Entered(msgs, snd_queue[s])
           /\ Sending(msgs, snd_queue[s], snd_buf[s], nxt)
    <2>1. given[s] \in Seq(Msg) /\ EnteredAt(s) \in Nat
      BY EnteredBound
    <2>2. SenderInv(s)
      BY DEF DeliveryInv
    <2>3. /\ given[s] \in Seq(Msg) /\ MsgsInOrder(given[s])
          /\ Len(given[s]) <= MaxMsgs[s] /\ EnteredAt(s) \in Nat
          /\ EnteredAt(s) = Entered(given[s], snd_queue[s])
          /\ Sending(given[s], snd_queue[s], snd_buf[s], snd_nxt[s])
      BY <2>1, <2>2 DEF SenderInv, EnteredAt
    <2> QED
      BY <1>8, <2>3
  <1>10. Entered(msgs, rest) = e + m /\ Sending(msgs, rest, Buffered(s), Plus(nxt, m))
    <2>1. \A i \in 1..Len(snd_buf[s]) : /\ Buffered(s)[i].sn = snd_buf[s][i].sn
                                        /\ Buffered(s)[i].frag = snd_buf[s][i].frag
      BY <1>5
    <2>2. \A i \in 1..m : /\ Buffered(s)[Len(snd_buf[s]) + i].sn = Plus(nxt, i - 1)
                          /\ Buffered(s)[Len(snd_buf[s]) + i].frag = snd_queue[s][i]
      BY <1>5, <1>8, <1>9
    <2>3. PICK queue \in Seq(Frag), old \in Seq(Seg), all \in Seq(Seg) :
             queue = snd_queue[s] /\ old = snd_buf[s] /\ all = Buffered(s)
      BY <1>5, <1>7
    <2>4. /\ Sending(msgs, queue, old, nxt) /\ m \in 0..Len(queue)
          /\ Len(all) = Len(old) + m
          /\ \A i \in 1..Len(old) : all[i].sn = old[i].sn /\ all[i].frag = old[i].frag
          /\ \A i \in 1..m : /\ all[Len(old) + i].sn = Plus(nxt, i - 1)
                             /\ all[Len(old) + i].frag = queue[i]
      BY <1>5, <1>8, <1>9, <2>1, <2>2, <2>3
    <2>5. /\ Entered(msgs, SubSeq(queue, m + 1, Len(queue))) = Entered(msgs, queue) + m
          /\ Sending(msgs, SubSeq(queue, m + 1, Len(queue)), all, Plus(nxt, m))
      <3>1. MsgsInOrder(msgs)
        BY <1>9
      <3> QED
        BY <2>4, <3>1, NumbersNext
    <2> QED
      BY <1>8, <1>9, <2>3, <2>5
  <1>11. Sending(msgs, rest, buf, Plus(nxt, m))
    BY <1>5, <1>6, <1>10, KeepsSending
  <1>12. EnteredAt(s)' = e + m /\ EnteredAt(p)' = EnteredAt(p)
    BY <1>4, <1>8, <1>9, <1>10 DEF EnteredAt
  <1>13. e + m \in Nat /\ e <= e + m
    BY <1>7
  <1>14. SenderInv(s)'
    BY <1>4, <1>8, <1>9, <1>11 DEF SenderInv
  <1>15. SenderInv(p)'
    BY <1>4 DEF DeliveryInv, SenderInv
  <1>16. ReceiverInv(s)'
    <2>1. ReceiverInv(s)
      BY DEF DeliveryInv
    <2> QED
      BY <1>1, <1>4, <1>12, <2>1 DEF ReceiverInv
  <1>17. ASSUME NEW seg \in net[p] \cup kept, seg.cmd = "push"
         PROVE  Labelled(msgs, e + m, seg.sn, seg.frag)
    <2>1. CASE seg \in net[p]
      <3>1. Labelled(msgs, e, seg.sn, seg.frag)
        BY <1>1, <1>9, <1>17, <2>1 DEF DeliveryInv, ReceiverInv
      <3>2. seg.frag \in Frag
        BY <1>17, <2>1, TypeAt, SegmentFields
      <3> QED
        BY <1>9, <1>13, <3>1, <3>2, LaterLabel
    <2>2. CASE seg \in kept
      <3>1. seg \in Acks(s) \cup Probes(s, expires) \cup Pushes(s, Buffered(s), late)
        BY <2>2 DEF KcpFlush, Output
      <3>2. seg \notin Acks(s)
        BY <1>17 DEF Acks
      <3>3. seg \notin Probes(s, expires)
        BY <1>17 DEF Probes
      <3>4. PICK i \in DOMAIN Buffered(s) : seg = PushOf(s, Buffered(s)[i])
        BY <3>1, <3>2, <3>3 DEF Pushes
      <3>5. seg.sn = Buffered(s)[i].sn /\ seg.frag = Buffered(s)[i].frag
        BY <3>4 DEF PushOf
      <3>6. i \in 1..Len(Buffered(s))
        BY <1>5, LenProperties
      <3> QED
        BY <1>10, <3>5, <3>6 DEF Sending
    <2> QED
      BY <2>1, <2>2
  <1>18. Receiving(msgs, e + m, delivered[p], rcv_queue[p], rcv_buf[p], rcv_nxt[p])
    <2>1. Receiving(msgs, e, delivered[p], rcv_queue[p], rcv_buf[p], rcv_nxt[p])
      BY <1>1, <1>9 DEF DeliveryInv, ReceiverInv
    <2>2. /\ delivered[p] \in Seq(Seq(Frag)) /\ rcv_queue[p] \in Seq(Frag)
          /\ rcv_buf[p] \in SUBSET Held
      BY TypeAt
    <2> QED
      BY <1>9, <1>13, <2>1, <2>2, LaterReceiving
  <1>19. ReceiverInv(p)'
    BY <1>1, <1>4, <1>9, <1>12, <1>17, <1>18 DEF ReceiverInv
  <1>20. \A t \in End : t = s \/ t = p
    BY <1>1 DEF End, Peer
  <1> QED
    BY <1>14, <1>15, <1>16, <1>19, <1>20 DEF DeliveryInv

LEMMA InitDelivery ==
    ASSUME Init
    PROVE  DeliveryInv
  <1>1. <<>> \in Seq(Msg) /\ Len(<<>>) = 0 /\ 1..0 = {}
    BY EmptySeq
  <1>2. \A s \in End : MaxMsgs[s] \in Nat
    BY BoundsAssumption
  <1>3. PICK none : none = <<>>
    OBVIOUS
  <1>4. MsgsInOrder(none)
    <2>1. \A m \in 0..Len(none) : m = 0
      BY <1>1, <1>3
    <2>2. UpTo(none, 0) = 0 /\ 0 * WndRcv = 0
      BY Constants DEF UpTo
    <2> QED
      BY <1>1, <1>3, <2>1, <2>2 DEF MsgsInOrder
  <1>5. Entered(none, none) = 0
    <2>1. Total(none) = 0
      BY <1>3 DEF Total
    <2> QED
      BY <1>1, <1>3, <2>1 DEF Entered
  <1>6. Plus(First, 0) = First
    BY Constants, PlusZero
  <1>7. Sending(none, none, none, First)
    BY <1>1, <1>3, <1>5, <1>6 DEF Sending
  <1>8. Taken(none, none, none) = 0
    BY <1>1, <1>3 DEF Taken, UpTo
  <1>9. Receiving(none, 0, none, none, {}, First)
    BY <1>1, <1>3, <1>6, <1>8 DEF Receiving
  <1>10. ASSUME NEW s \in End PROVE SenderInv(s) /\ ReceiverInv(s)
    <2>1. /\ given[s] = none /\ snd_queue[s] = none /\ snd_buf[s] = none
          /\ snd_nxt[s] = First
          /\ delivered[s] = none /\ rcv_queue[s] = none /\ rcv_buf[s] = {}
          /\ rcv_nxt[s] = First /\ net[s] = {}
          /\ given[Peer(s)] = none /\ snd_queue[Peer(s)] = none
      BY <1>3, Ends DEF Init
    <2>2. EnteredAt(Peer(s)) = 0
      BY <1>5, <2>1 DEF EnteredAt
    <2>3. SenderInv(s)
      BY <1>1, <1>2, <1>3, <1>4, <1>7, <2>1 DEF SenderInv
    <2>4. ReceiverInv(s)
      BY <1>9, <2>1, <2>2 DEF ReceiverInv
    <2> QED
      BY <2>3, <2>4
  <1> QED
    BY <1>10 DEF DeliveryInv

LEMMA NextDelivery ==
    ASSUME HalfTurn, TypeOK, WindowInv, DeliveryInv, [Next]_vars
    PROVE  DeliveryInv'
  <1>1. CASE Next
    <2>1. PICK s \in End :
             \/ \E count \in Counts : KcpSend(s, count)
             \/ KcpRecv(s)
             \/ \E seg \in net[s], keep \in BOOLEAN : Arrive(s, seg, keep)
             \/ Flush(s)
      BY <1>1 DEF Next
    <2>2. CASE \E count \in Counts : KcpSend(s, count)
      BY <2>2, SendDelivery
    <2>3. CASE KcpRecv(s)
      BY <2>3, RecvDelivery
    <2>4. CASE \E seg \in net[s], keep \in BOOLEAN : Arrive(s, seg, keep)
      BY <2>4, ArriveDelivery
    <2>5. CASE Flush(s)
      BY <2>5, FlushDelivery DEF Flush
    <2> QED
      BY <2>1, <2>2, <2>3, <2>4, <2>5
  <1>2. CASE UNCHANGED vars
    <2>1. UNCHANGED <<snd_queue, snd_buf, snd_nxt, rcv_nxt, rcv_buf, rcv_queue, net, given,
                      delivered>>
      BY <1>2 DEF vars, sendVars, recvVars, historyVars
    <2>2. \A s \in End : EnteredAt(s)' = EnteredAt(s)
      BY <2>1 DEF EnteredAt
    <2>3. ASSUME NEW s \in End PROVE SenderInv(s)' /\ ReceiverInv(s)'
      <3>1. SenderInv(s) /\ ReceiverInv(s) /\ Peer(s) \in End
        BY Ends DEF DeliveryInv
      <3> QED
        BY <2>1, <2>2, <3>1 DEF SenderInv, ReceiverInv
    <2> QED
      BY <2>3 DEF DeliveryInv
  <1> QED
    BY <1>1, <1>2

(* Whatever the network loses, duplicates and reorders, and wherever the   *)
(* sequence numbers start, ikcp_recv returns the messages of the peer, each *)
(* once, whole and in the order ikcp_send took them.                       *)
THEOREM DeliveredInOrder ==
    ASSUME HalfTurn
    PROVE  Spec => []InOrderDelivery
  <1>1. Init => TypeOK /\ WindowInv /\ DeliveryInv
    BY InitTypes, InitDelivery
  <1>2. (TypeOK /\ WindowInv /\ DeliveryInv) /\ [Next]_vars
          => (TypeOK /\ WindowInv /\ DeliveryInv)'
    BY NextTypes, NextDelivery
  <1>3. TypeOK /\ WindowInv /\ DeliveryInv => InOrderDelivery
    <2> SUFFICES ASSUME TypeOK, DeliveryInv, NEW s \in End, NEW m \in DOMAIN delivered[s]
                 PROVE  /\ m \in DOMAIN given[Peer(s)]
                        /\ delivered[s][m] = Fragments(m, given[Peer(s)][m].count)
      BY DEF InOrderDelivery
    <2>1. PICK msgs \in Seq(Msg), dlv \in Seq(Seq(Frag)) :
             msgs = given[Peer(s)] /\ dlv = delivered[s]
      BY TypeAt, Ends
    <2>2. /\ Len(dlv) <= Len(msgs)
          /\ \A i \in 1..Len(dlv) : dlv[i] = Fragments(i, msgs[i].count)
      BY <2>1 DEF DeliveryInv, ReceiverInv, Receiving
    <2>3. /\ m \in 1..Len(dlv) /\ DOMAIN msgs = 1..Len(msgs)
          /\ Len(dlv) \in Nat /\ Len(msgs) \in Nat
      BY <2>1, LenProperties
    <2>4. m \in 1..Len(msgs)
      BY <2>2, <2>3
    <2> QED
      BY <2>1, <2>2, <2>3, <2>4
  <1> QED
    BY <1>1, <1>2, <1>3, PTL DEF Spec

(* A message is complete in rcv_queue exactly when ikcp_recv finds it so.  *)
LEMMA PeekComplete ==
    ASSUME TypeOK, WindowInv, DeliveryInv, HalfTurn, NEW s \in End
    PROVE  CanPeek(s) <=> \E i \in 1..Len(InOrder(s)) : InOrder(s)[i].frg = 0
  <1>1. /\ rcv_queue[s] \in Seq(Frag) /\ rcv_buf[s] \in SUBSET Held /\ rcv_nxt[s] \in Sn
        /\ delivered[s] \in Seq(Seq(Frag)) /\ Peer(s) \in End
    BY TypeAt, Ends
  <1>2. PICK n \in Nat :
           /\ Contiguous(rcv_buf[s], rcv_nxt[s], n)
           /\ (\A seg \in rcv_buf[s] : seg.sn # rcv_nxt[s]) => n = 0
           /\ InOrder(s) = rcv_queue[s] \o RunOf(rcv_buf[s], rcv_nxt[s], n)
           /\ Len(InOrder(s)) = Len(rcv_queue[s]) + n
    BY InOrderProperties
  <1>3. PICK q \in Nat : q = Len(rcv_queue[s])
    BY <1>1, LenProperties
  <1>4. \A i \in 1..q : InOrder(s)[i] = rcv_queue[s][i]
    <2>1. PICK queue \in Seq(Frag), run \in Seq(Frag) :
             queue = rcv_queue[s] /\ run = RunOf(rcv_buf[s], rcv_nxt[s], n) /\ Len(run) = n
      BY <1>1, <1>2, RunOfProperties
    <2>2. \A i \in 1..(Len(queue) + Len(run)) :
             (queue \o run)[i] = IF i <= Len(queue) THEN queue[i] ELSE run[i - Len(queue)]
      BY ConcatProperties
    <2>3. Len(queue) = q /\ InOrder(s) = queue \o run
      BY <1>2, <1>3, <2>1
    <2>4. ASSUME NEW i \in 1..q PROVE InOrder(s)[i] = queue[i]
      <3>1. i \in 1..(q + n) /\ i <= q
        OBVIOUS
      <3> QED
        BY <2>1, <2>2, <2>3, <3>1
    <2> QED
      BY <2>1, <2>4
  <1>5. q < RcvWnd => n = 0
    BY <1>2, <1>3 DEF WindowInv, Settled
  <1>6. CASE rcv_queue[s] = <<>>
    <2>1. ~CanPeek(s)
      BY <1>6 DEF CanPeek
    <2>2. q = 0 /\ n = 0
      BY <1>3, <1>5, <1>6, Constants
    <2>3. Len(InOrder(s)) = 0
      BY <1>2, <1>3, <2>2
    <2> QED
      BY <2>1, <2>3
  <1>7. CASE rcv_queue[s] # <<>>
    <2>1. /\ given[Peer(s)] \in Seq(Msg) /\ MsgsInOrder(given[Peer(s)])
          /\ EnteredAt(Peer(s)) \in Nat /\ EnteredAt(Peer(s)) <= Total(given[Peer(s)])
      BY <1>1, EnteredBound
    <2>2. Receiving(given[Peer(s)], EnteredAt(Peer(s)), delivered[s], rcv_queue[s],
                    rcv_buf[s], rcv_nxt[s])
      BY DEF DeliveryInv, ReceiverInv
    <2>3. PICK m, c \in Nat \ {0} :
             /\ c < WndRcv
             /\ \A i \in 1..Len(rcv_queue[s]) : i <= c =>
                   rcv_queue[s][i] = [msg |-> m, frg |-> c - i]
      <3>1. PICK msgs \in Seq(Msg), d \in Nat :
               msgs = given[Peer(s)] /\ d = Len(delivered[s])
        BY <1>1, <2>1, LenProperties
      <3>2. /\ msgs[d + 1].count \in Nat \ {0} /\ msgs[d + 1].count < WndRcv
            /\ \A i \in 1..Len(rcv_queue[s]) : i <= msgs[d + 1].count =>
                  rcv_queue[s][i] = [msg |-> d + 1, frg |-> msgs[d + 1].count - i]
        BY <1>1, <1>7, <2>1, <2>2, <3>1, NextMessage
      <3>3. d + 1 \in Nat \ {0}
        OBVIOUS
      <3> QED
        BY <3>2, <3>3
    <2>4. q # 0 /\ 1 \in 1..q /\ 1 <= c
      BY <1>1, <1>3, <1>7, EmptySeq
    <2>5. Head(rcv_queue[s]) = rcv_queue[s][1]
      BY <1>1, <1>7, HeadTailProperties
    <2>6. Head(rcv_queue[s]).frg = c - 1
      <3>1. rcv_queue[s][1] = [msg |-> m, frg |-> c - 1]
        BY <1>3, <2>3, <2>4
      <3> QED
        BY <2>5, <3>1
    <2>7. CanPeek(s) <=> c <= q
      <3>1. CanPeek(s) <=> q >= (c - 1) + 1
        BY <1>3, <1>7, <2>6 DEF CanPeek
      <3> QED
        BY <3>1
    <2>8. ASSUME c <= q PROVE \E i \in 1..Len(InOrder(s)) : InOrder(s)[i].frg = 0
      <3>1. c \in 1..q /\ c \in 1..Len(rcv_queue[s]) /\ c <= c
        BY <1>3, <2>8
      <3>2. rcv_queue[s][c] = [msg |-> m, frg |-> c - c]
        BY <2>3, <3>1
      <3>3. InOrder(s)[c].frg = 0
        BY <1>4, <3>1, <3>2
      <3>4. c \in 1..Len(InOrder(s))
        BY <1>2, <1>3, <3>1
      <3> QED
        BY <3>3, <3>4
    <2>9. ASSUME NEW i \in 1..Len(InOrder(s)), InOrder(s)[i].frg = 0 PROVE c <= q
      <3>1. CASE q < RcvWnd
        <4>1. i \in 1..q /\ i \in 1..Len(rcv_queue[s])
          BY <1>2, <1>3, <1>5, <3>1
        <4>2. rcv_queue[s][i].frg = 0
          BY <1>4, <2>9, <4>1
        <4>3. SUFFICES ASSUME i <= c PROVE c <= q
          BY <4>1
        <4>4. rcv_queue[s][i] = [msg |-> m, frg |-> c - i]
          BY <2>3, <4>1, <4>3
        <4>5. c - i = 0
          BY <4>2, <4>4
        <4> QED
          BY <4>1, <4>5
      <3>2. CASE ~(q < RcvWnd)
        BY <2>3, <3>2, Constants
      <3> QED
        BY <3>1, <3>2
    <2> QED
      BY <2>7, <2>8, <2>9
  <1> QED
    BY <1>6, <1>7

(* ikcp_recv never fails on a message that is held and never returns one   *)
(* that is not: the window is larger than any message (ikcp_wndsize), and  *)
(* whatever was next when rcv_queue had room is in it.                     *)
THEOREM RecvIsComplete ==
    ASSUME HalfTurn
    PROVE  Spec => []RecvComplete
  <1>1. Init => TypeOK /\ WindowInv /\ DeliveryInv
    BY InitTypes, InitDelivery
  <1>2. (TypeOK /\ WindowInv /\ DeliveryInv) /\ [Next]_vars
          => (TypeOK /\ WindowInv /\ DeliveryInv)'
    BY NextTypes, NextDelivery
  <1>3. TypeOK /\ WindowInv /\ DeliveryInv => RecvComplete
    <2> SUFFICES ASSUME TypeOK, WindowInv, DeliveryInv, NEW s \in End
                 PROVE  CanPeek(s) <=> Link!CanRecv(s)
      BY DEF RecvComplete
    <2> DEFINE ends == {i \in DOMAIN InOrder(s) : InOrder(s)[i].frg = 0}
    <2>1. InOrder(s) \in Seq(Frag) /\ DOMAIN InOrder(s) = 1..Len(InOrder(s))
            /\ Len(InOrder(s)) \in Nat
      BY InOrderProperties, LenProperties
    <2>2. IsFiniteSet(ends) /\ Cardinality(ends) \in Nat
      <3>1. IsFiniteSet(DOMAIN InOrder(s))
        BY <2>1, FS_Interval
      <3> QED
        BY <3>1, FS_Subset, FS_CardinalityType
    <2>3. Cardinality(ends) > 0 <=> ends # {}
      BY <2>2, FS_EmptySet
    <2>4. ends # {} <=> CanPeek(s)
      BY <2>1, PeekComplete
    <2>5. PICK d \in Nat : d = Len(delivered[s])
      BY TypeAt, LenProperties
    <2>6. Got(s) = d + Cardinality(ends)
      BY <2>5 DEF Got
    <2>7. Link!CanRecv(s) <=> d < Got(s)
      BY <2>5 DEF Link!CanRecv
    <2> QED
      BY <2>2, <2>3, <2>4, <2>6, <2>7
  <1> QED
    BY <1>1, <1>2, <1>3, PTL DEF Spec

----------------------------------------------------------------------------
(* The link.  A fragment is known by the sequence number of its place.     *)
LEMMA Places ==
    ASSUME NEW total \in Nat, 2 * total < Wrap, NEW i \in 0..total, NEW j \in 0..total
    PROVE  /\ Diff(Plus(First, i), Plus(First, j)) = i - j
           /\ Plus(First, i) = Plus(First, j) => i = j
  <1>1. 2 * (i - j) < Wrap /\ 2 * (i - j) >= -Wrap
    BY WrapAssumption
  <1> QED
    BY <1>1, Constants, DiffPlus, PlusInjective

(* No message is empty. *)
LEMMA UpToStrict ==
    ASSUME NEW msgs \in Seq(Msg), MsgsInOrder(msgs), NEW m \in 0..Len(msgs),
           NEW n \in 0..Len(msgs)
    PROVE  m <= n <=> UpTo(msgs, m) <= UpTo(msgs, n)
  <1>1. m <= n => UpTo(msgs, m) <= UpTo(msgs, n)
    BY DEF MsgsInOrder
  <1>2. ASSUME ~(m <= n) PROVE ~(UpTo(msgs, m) <= UpTo(msgs, n))
    <2>1. PICK l \in Nat : l = Len(msgs)
      BY LenProperties
    <2>2. m \in 1..l /\ m - 1 \in 0..l /\ n <= m - 1 /\ m # 0
      BY <1>2, <2>1
    <2>3. msgs[m] \in Msg
      BY <2>1, <2>2, ElementOfSeq
    <2>4. PICK f \in Nat, c \in Nat \ {0} : f = msgs[m].first /\ c = msgs[m].count
      BY <2>3 DEF Msg
    <2>5. f = UpTo(msgs, m - 1) /\ UpTo(msgs, m) = f + c
      BY <2>1, <2>2, <2>4 DEF MsgsInOrder, UpTo
    <2>6. UpTo(msgs, n) <= f
      BY <2>1, <2>2, <2>5 DEF MsgsInOrder
    <2>7. UpTo(msgs, n) \in Nat
      BY UpToType
    <2> QED
      BY <2>4, <2>5, <2>6, <2>7
  <1> QED
    BY <1>1, <1>2

(* The run that follows rcv_queue ends at a gap.                           *)
LEMMA RunEnds ==
    ASSUME NEW buf \in SUBSET Held, NEW nxt \in Sn, IsFiniteSet(buf),
           \A seg \in buf : Diff(seg.sn, nxt) \in 0..(RcvWnd - 1),
           NEW n, n = Run(buf, nxt, Cardinality(buf))
    PROVE  /\ n \in 0..RcvWnd /\ Contiguous(buf, nxt, n)
           /\ \A seg \in buf : seg.sn # Plus(nxt, n)
  <1>1. PICK c \in Nat : c = Cardinality(buf)
    BY FS_CardinalityType
  <1>2. /\ n \in 0..c /\ Contiguous(buf, nxt, n)
        /\ n < c => \A seg \in buf : seg.sn # Plus(nxt, n)
    BY <1>1, RunProperties
  <1>3. ASSUME NEW i \in Nat, i <= RcvWnd PROVE Diff(Plus(nxt, i), nxt) = i
    <2>1. 2 * i < Wrap /\ 2 * i >= -Wrap /\ i \in Int
      BY <1>3, Constants, WrapAssumption
    <2> QED
      BY <2>1, DiffPlusZero
  <1>4. n <= RcvWnd
    <2>1. SUFFICES ASSUME n > RcvWnd PROVE FALSE
      BY <1>2, Constants
    <2>2. RcvWnd \in Nat /\ RcvWnd \in 0..(n - 1)
      BY <1>2, <2>1, Constants
    <2>3. PICK seg \in buf : seg.sn = Plus(nxt, RcvWnd)
      BY <1>2, <2>2 DEF Contiguous
    <2>4. Diff(seg.sn, nxt) = RcvWnd
      BY <1>3, <2>2, <2>3
    <2> QED
      BY <2>2, <2>4
  <1>5. ASSUME NEW last \in buf, last.sn = Plus(nxt, n) PROVE FALSE
    <2>1. n = c
      BY <1>2, <1>5
    <2>2. ASSUME NEW i \in 0..n PROVE \E seg \in buf : seg.sn = Plus(nxt, i)
      <3>1. i \in 0..(n - 1) \/ i = n
        BY <1>2
      <3> QED
        BY <1>2, <1>5, <3>1 DEF Contiguous
    <2>3. PICK f : f = [i \in 0..n |-> CHOOSE seg \in buf : seg.sn = Plus(nxt, i)]
      OBVIOUS
    <2>4. ASSUME NEW i \in 0..n PROVE f[i] \in buf /\ f[i].sn = Plus(nxt, i)
      BY <2>2, <2>3
    <2>5. ASSUME NEW i \in 0..n, NEW j \in 0..n, f[i] = f[j] PROVE i = j
      <3>1. i \in Nat /\ j \in Nat /\ i <= RcvWnd /\ j <= RcvWnd
        BY <1>2, <1>4, Constants
      <3>2. Plus(nxt, i) = Plus(nxt, j)
        BY <2>4, <2>5
      <3> QED
        BY <1>3, <3>1, <3>2
    <2>6. f \in [0..n -> buf]
      BY <2>3, <2>4
    <2>7. f \in Injection(0..n, buf)
      BY <2>5, <2>6 DEF Injection, IsInjective
    <2>8. Cardinality(0..n) <= Cardinality(buf)
      BY <2>7, FS_Injection
    <2>9. Cardinality(0..n) = n + 1
      <3>1. 0 \in Int /\ n \in Int /\ ~(0 > n) /\ n - 0 + 1 = n + 1
        BY <1>2
      <3> QED
        BY <3>1, FS_Interval
    <2> QED
      BY <1>1, <1>2, <2>1, <2>8, <2>9
  <1> QED
    BY <1>2, <1>4, <1>5, Constants

(* The last fragments among those taken are those of the complete messages *)
(* that are not returned.                                                  *)
LEMMA LastFragments ==
    ASSUME NEW msgs \in Seq(Msg), MsgsInOrder(msgs), NEW n \in Nat, n <= Total(msgs),
           NEW dlv \in Seq(Seq(Frag)), NEW all \in Seq(Frag), NEW buf, NEW nxt,
           Receiving(msgs, n, dlv, all, buf, nxt)
    PROVE  \E g \in 0..Len(msgs) :
              /\ g = Len(dlv) + Cardinality({i \in DOMAIN all : all[i].frg = 0})
              /\ \A m \in 0..Len(msgs) : m <= g <=> UpTo(msgs, m) <= Taken(msgs, dlv, all)
  <1>1. PICK d \in Nat, l \in Nat, k \in Nat, u \in Nat, h \in Nat :
           /\ d = Len(dlv) /\ l = Len(msgs) /\ k = Len(all) /\ u = UpTo(msgs, d)
           /\ h = Taken(msgs, dlv, all) /\ h = u + k /\ d <= l /\ h <= n
    <2>1. Len(dlv) \in 0..Len(msgs) /\ Len(dlv) \in Nat /\ Len(msgs) \in Nat
            /\ Len(all) \in Nat /\ Len(dlv) <= Len(msgs)
            /\ Taken(msgs, dlv, all) <= n
      BY LenProperties DEF Receiving
    <2>2. UpTo(msgs, Len(dlv)) \in Nat
      BY <2>1, UpToType
    <2>3. Taken(msgs, dlv, all) = UpTo(msgs, Len(dlv)) + Len(all)
      BY DEF Taken
    <2> QED
      BY <2>1, <2>2, <2>3
  <1>2. \A i \in 1..k : /\ all[i] \in Frag /\ IsPart(msgs, all[i])
                        /\ Number(msgs, all[i]) = u + i
    BY <1>1, ElementOfSeq DEF Receiving
  <1>3. \A m \in 0..l : UpTo(msgs, m) \in Nat
    BY <1>1, UpToType
  <1>4. \A m \in 0..l : \A j \in 0..l : m <= j <=> UpTo(msgs, m) <= UpTo(msgs, j)
    BY <1>1, UpToStrict
  <1>5. PICK T : T = {m \in 0..l : UpTo(msgs, m) <= h}
    OBVIOUS
  <1>6. d \in T /\ T \subseteq 0..l
    BY <1>1, <1>5
  <1>7. PICK g \in T : \A m \in T : g >= m
    <2>1. T # {}
      BY <1>6
    <2>2. Max(T) \in T /\ \A m \in T : Max(T) >= m
      BY <1>6, <2>1, MaxProperties
    <2> QED
      BY <2>2
  <1>8. g \in 0..l /\ d <= g /\ UpTo(msgs, g) <= h
    BY <1>1, <1>5, <1>6, <1>7
  <1>9. ASSUME NEW m \in 0..l PROVE m <= g <=> UpTo(msgs, m) <= h
    <2>1. ASSUME m <= g PROVE UpTo(msgs, m) <= h
      <3>1. UpTo(msgs, m) <= UpTo(msgs, g)
        BY <1>4, <1>8, <2>1
      <3> QED
        BY <1>3, <1>8, <3>1
    <2>2. ASSUME UpTo(msgs, m) <= h PROVE m <= g
      BY <1>5, <1>6, <1>7, <2>2
    <2> QED
      BY <2>1, <2>2
  <1>10. PICK Z : Z = {i \in DOMAIN all : all[i].frg = 0}
    OBVIOUS
  <1>11. DOMAIN all = 1..k
    BY <1>1
  <1>12. PICK f : f = [m \in (d + 1)..g |-> UpTo(msgs, m) - u]
    OBVIOUS
  <1>13. ASSUME NEW m \in (d + 1)..g PROVE f[m] \in Z
    <2>1. m \in 1..l /\ m \in 0..l /\ d \in 0..l /\ m - 1 \in 0..l /\ ~(m <= d) /\ m <= g
            /\ d <= m - 1 /\ m # 0
      BY <1>1, <1>8
    <2>2. msgs[m] \in Msg
      BY <1>1, <2>1, ElementOfSeq
    <2>3. PICK a \in Nat, c \in Nat \ {0} : a = msgs[m].first /\ c = msgs[m].count
      BY <2>2 DEF Msg
    <2>4. a = UpTo(msgs, m - 1) /\ UpTo(msgs, m) = a + c
      BY <1>1, <2>1, <2>3 DEF MsgsInOrder, UpTo
    <2>5. u <= a /\ a + c <= h
      <3>1. u <= a
        BY <1>1, <1>4, <2>1, <2>4
      <3>2. UpTo(msgs, m) <= h
        BY <1>9, <2>1
      <3> QED
        BY <2>4, <3>1, <3>2
    <2>6. PICK i \in 1..k : i = (a + c) - u
      <3>1. (a + c) - u \in 1..k
        BY <1>1, <2>5
      <3> QED
        BY <3>1
    <2>7. f[m] = i
      BY <1>12, <2>4, <2>6
    <2>8. Number(msgs, all[i]) = UpTo(msgs, m - 1) + c
      <3>1. u + i = a + c
        BY <2>6
      <3> QED
        BY <1>2, <2>4, <3>1
    <2>9. all[i].frg = msgs[m].count - c
      <3>1. c \in 1..msgs[m].count /\ m \in 1..Len(msgs)
        <4>1. c \in 1..c
          BY <2>3
        <4> QED
          BY <1>1, <2>1, <2>3, <4>1
      <3>2. all[i] \in Frag /\ IsPart(msgs, all[i])
        BY <1>2
      <3> QED
        BY <2>8, <3>1, <3>2, Located
    <2>10. all[i].frg = 0
      BY <2>3, <2>9
    <2> QED
      BY <1>10, <1>11, <2>7, <2>10
  <1>14. ASSUME NEW i \in Z PROVE \E m \in (d + 1)..g : f[m] = i
    <2>1. i \in 1..k /\ all[i].frg = 0
      BY <1>10, <1>11
    <2>2. all[i] \in Frag /\ IsPart(msgs, all[i]) /\ Number(msgs, all[i]) = u + i
      BY <1>2, <2>1
    <2>3. PICK m \in 1..l : m = all[i].msg
      BY <1>1, <2>2 DEF IsPart
    <2>4. m \in 0..l /\ m # 0 /\ msgs[m] \in Msg
      BY <1>1, <2>3, ElementOfSeq
    <2>5. PICK a \in Nat, c \in Nat \ {0} : a = msgs[m].first /\ c = msgs[m].count
      BY <2>4 DEF Msg
    <2>6. UpTo(msgs, m) = a + c /\ Number(msgs, all[i]) = a + c - 0
      BY <2>1, <2>3, <2>4, <2>5 DEF UpTo, Number
    <2>7. UpTo(msgs, m) = u + i
      BY <2>2, <2>5, <2>6
    <2>8. m <= g
      <3>1. u + i <= h
        BY <1>1, <2>1
      <3> QED
        BY <1>9, <2>4, <2>7, <3>1
    <2>9. ~(m <= d)
      <3>1. ~(u + i <= u) /\ d \in 0..l
        BY <1>1, <2>1
      <3> QED
        BY <1>1, <1>4, <2>4, <2>7, <3>1
    <2>10. m \in (d + 1)..g
      BY <1>1, <1>8, <2>3, <2>8, <2>9
    <2>11. f[m] = i
      <3>1. (u + i) - u = i
        BY <2>1
      <3> QED
        BY <1>12, <2>7, <2>10, <3>1
    <2> QED
      BY <2>10, <2>11
  <1>15. ASSUME NEW m \in (d + 1)..g, NEW j \in (d + 1)..g, f[m] = f[j] PROVE m = j
    <2>1. m \in 0..l /\ j \in 0..l
      BY <1>1, <1>8
    <2>2. PICK x \in Nat, y \in Nat : x = UpTo(msgs, m) /\ y = UpTo(msgs, j)
      BY <1>3, <2>1
    <2>3. x - u = y - u
      BY <1>12, <1>15, <2>2
    <2>4. x <= y /\ y <= x
      BY <2>3
    <2>5. m <= j /\ j <= m
      BY <1>4, <2>1, <2>2, <2>4
    <2> QED
      BY <2>5
  <1>16. f \in Bijection((d + 1)..g, Z)
    <2>1. f \in [(d + 1)..g -> Z]
      BY <1>12, <1>13
    <2> QED
      BY <1>14, <1>15, <2>1 DEF Bijection, Injection, IsInjective, Surjection
  <1>17. Cardinality(Z) = g - d
    <2>1. d + 1 \in Int /\ g \in Int
      BY <1>8
    <2>2. IsFiniteSet((d + 1)..g)
            /\ Cardinality((d + 1)..g) = IF d + 1 > g THEN 0 ELSE g - (d + 1) + 1
      BY <2>1, FS_Interval
    <2>3. Cardinality((d + 1)..g) = g - d
      BY <1>8, <2>2
    <2>4. ExistsBijection((d + 1)..g, Z)
      BY <1>16 DEF ExistsBijection
    <2> QED
      BY <2>2, <2>3, <2>4, FS_Bijection
  <1>18. g = Len(dlv) + Cardinality({i \in DOMAIN all : all[i].frg = 0})
    BY <1>1, <1>8, <1>10, <1>17
  <1> QED
    BY <1>1, <1>8, <1>9, <1>18

(* Fragment i waits for an acknowledgement, is held by the receiver that   *)
(* has taken t fragments, is reported as held by a segment on its way.     *)
Awaits(buf, i) == \E j \in 1..Len(buf) : buf[j].sn = Plus(First, i - 1)
Holds(t, buf, i) == i <= t \/ \E seg \in buf : seg.sn = Plus(First, i - 1)
Reports(seg, i) ==
    \/ seg.cmd = "ack" /\ seg.sn = Plus(First, i - 1)
    \/ Diff(seg.una, Plus(First, i - 1)) > 0

TakenAt(s) == Taken(given[Peer(s)], delivered[s], rcv_queue[s])

(* What Got counts: the messages whose fragments are all held.             *)
LEMMA GotMessages ==
    ASSUME TypeOK, WindowInv, DeliveryInv, HalfTurn, NEW s \in End
    PROVE  /\ Got(s) \in 0..Len(given[Peer(s)])
           /\ \A m \in 0..Len(given[Peer(s)]) :
                 m <= Got(s) <=> \A i \in 1..UpTo(given[Peer(s)], m) :
                                     Holds(TakenAt(s), rcv_buf[s], i)
  <1>1. PICK p \in End : p = Peer(s)
    BY Ends
  <1>2. PICK msgs \in Seq(Msg), e \in Nat :
           /\ msgs = given[p] /\ MsgsInOrder(msgs) /\ e = EnteredAt(p) /\ e <= Total(msgs)
           /\ 2 * Total(msgs) < Wrap
    BY EnteredBound
  <1>3. PICK dlv \in Seq(Seq(Frag)), queue \in Seq(Frag), buf \in SUBSET Held, nxt \in Sn :
           dlv = delivered[s] /\ queue = rcv_queue[s] /\ buf = rcv_buf[s] /\ nxt = rcv_nxt[s]
    BY TypeAt
  <1>4. Receiving(msgs, e, dlv, queue, buf, nxt)
    BY <1>1, <1>2, <1>3 DEF DeliveryInv, ReceiverInv
  <1>5. PICK t \in Nat : t = Taken(msgs, dlv, queue) /\ nxt = Plus(First, t)
    <2>1. Len(dlv) \in 0..Len(msgs) /\ Len(queue) \in Nat
      BY <1>4, LenProperties DEF Receiving
    <2> QED
      BY <1>4, <2>1, UpToType DEF Taken, Receiving
  <1>6. PICK n \in 0..RcvWnd :
           /\ n = Run(buf, nxt, Cardinality(buf)) /\ Contiguous(buf, nxt, n)
           /\ \A seg \in buf : seg.sn # Plus(nxt, n)
    <2>1. IsFiniteSet(buf) /\ \A seg \in buf : Diff(seg.sn, nxt) \in 0..(RcvWnd - 1)
      BY <1>3 DEF WindowInv, RcvWindow
    <2> QED
      BY <2>1, RunEnds
  <1>7. n \in Nat
    BY Constants
  <1>8. PICK run \in Seq(Frag) : run = RunOf(buf, nxt, n) /\ Len(run) = n
    BY <1>6, <1>7, RunOfProperties
  <1>9. PICK all \in Seq(Frag) : all = queue \o run /\ Len(all) = Len(queue) + n
    <2>1. queue \o run \in Seq(Frag) /\ Len(queue \o run) = Len(queue) + Len(run)
      BY ConcatProperties
    <2> QED
      BY <1>8, <2>1
  <1>10. Receiving(msgs, e, dlv, all, Beyond(buf, nxt, n), Plus(nxt, n))
    <2>1. Receiving(msgs, e, dlv, queue \o RunOf(buf, nxt, n), Beyond(buf, nxt, n), Plus(nxt, n))
      BY <1>2, <1>4, <1>6, TakesNext
    <2> QED
      BY <1>8, <1>9, <2>1
  <1>11. PICK h \in Nat : h = t + n /\ h = Taken(msgs, dlv, all)
    <2>1. Taken(msgs, dlv, all) = Taken(msgs, dlv, queue) + n
      <3>1. PICK q \in Nat : q = Len(queue)
        BY LenProperties
      <3>2. PICK u \in Nat : u = UpTo(msgs, Len(dlv))
        <4>1. Len(dlv) \in 0..Len(msgs)
          BY <1>4, LenProperties DEF Receiving
        <4> QED
          BY <4>1, UpToType
      <3>3. Taken(msgs, dlv, queue) = u + q /\ Taken(msgs, dlv, all) = u + (q + n)
        BY <1>9, <3>1, <3>2 DEF Taken
      <3> QED
        BY <1>7, <3>3
    <2> QED
      BY <1>5, <1>7, <2>1
  <1>12. PICK g \in 0..Len(msgs) :
           /\ g = Len(dlv) + Cardinality({i \in DOMAIN all : all[i].frg = 0})
           /\ \A m \in 0..Len(msgs) : m <= g <=> UpTo(msgs, m) <= h
    <2>1. PICK later, nxt2 : later = Beyond(buf, nxt, n) /\ nxt2 = Plus(nxt, n)
      OBVIOUS
    <2>2. Receiving(msgs, e, dlv, all, later, nxt2) /\ MsgsInOrder(msgs) /\ e <= Total(msgs)
      BY <1>2, <1>10, <2>1
    <2>3. \E g \in 0..Len(msgs) :
             /\ g = Len(dlv) + Cardinality({i \in DOMAIN all : all[i].frg = 0})
             /\ \A m \in 0..Len(msgs) : m <= g <=> UpTo(msgs, m) <= Taken(msgs, dlv, all)
      BY <2>2, LastFragments
    <2> QED
      BY <1>11, <2>3
  <1>13. Got(s) = g
    <2>1. InOrder(s) = all
      BY <1>3, <1>6, <1>8, <1>9 DEF InOrder
    <2> QED
      BY <1>3, <1>12, <2>1 DEF Got
  <1>14. Plus(nxt, n) = Plus(First, h)
    BY <1>5, <1>7, <1>11, Constants, PlusPlus
  <1>15. ASSUME NEW m \in 0..Len(msgs), UpTo(msgs, m) <= h, NEW i \in 1..UpTo(msgs, m)
         PROVE  Holds(t, buf, i)
    <2>1. UpTo(msgs, m) \in Nat
      BY UpToType
    <2>2. i \in 1..h
      BY <1>15, <2>1
    <2>3. CASE i <= t
      BY <2>3 DEF Holds
    <2>4. CASE i > t
      <3>1. PICK j \in 0..(n - 1) : j = i - 1 - t
        <4>1. i - 1 - t \in 0..(n - 1)
          BY <1>7, <1>11, <2>2, <2>4
        <4> QED
          BY <4>1
      <3>2. PICK seg \in buf : seg.sn = Plus(nxt, j)
        BY <1>6 DEF Contiguous
      <3>3. t + j = i - 1 /\ j \in Int
        BY <2>2, <3>1
      <3>4. Plus(nxt, j) = Plus(First, i - 1)
        BY <1>5, <3>3, Constants, PlusPlus
      <3> QED
        BY <3>2, <3>4 DEF Holds
    <2> QED
      BY <2>2, <2>3, <2>4
  <1>16. ASSUME NEW m \in 0..Len(msgs), ~(UpTo(msgs, m) <= h)
         PROVE  \E i \in 1..UpTo(msgs, m) : ~Holds(t, buf, i)
    <2>1. UpTo(msgs, m) \in Nat
      BY UpToType
    <2>2. h + 1 \in 1..UpTo(msgs, m) /\ ~(h + 1 <= t) /\ (h + 1) - 1 = h
      BY <1>7, <1>11, <1>16, <2>1
    <2>3. ~Holds(t, buf, h + 1)
      BY <1>6, <1>14, <2>2 DEF Holds
    <2> QED
      BY <2>2, <2>3
  <1>17. t = TakenAt(s) /\ buf = rcv_buf[s] /\ msgs = given[Peer(s)]
    BY <1>1, <1>2, <1>3, <1>5 DEF TakenAt
  <1> QED
    BY <1>12, <1>13, <1>15, <1>16, <1>17

(* What Acked counts: the messages of which no fragment waits, neither to  *)
(* be numbered nor to be acknowledged.                                     *)
LEMMA AckedMessages ==
    ASSUME TypeOK, WindowInv, DeliveryInv, HalfTurn, NEW s \in End
    PROVE  /\ Acked(s) \in 0..Len(given[s])
           /\ \A m \in 0..Len(given[s]) :
                 m <= Acked(s) <=> /\ UpTo(given[s], m) <= EnteredAt(s)
                                   /\ \A i \in 1..UpTo(given[s], m) : ~Awaits(snd_buf[s], i)
  <1>1. PICK msgs \in Seq(Msg), e \in Nat, total \in Nat :
           /\ msgs = given[s] /\ MsgsInOrder(msgs) /\ e = EnteredAt(s)
           /\ total = Total(msgs) /\ e <= total /\ 2 * total < Wrap
    BY EnteredBound, TotalUpTo
  <1>2. PICK queue \in Seq(Frag), buf \in Seq(Seg), nxt \in Sn :
           queue = snd_queue[s] /\ buf = snd_buf[s] /\ nxt = snd_nxt[s]
    BY TypeAt
  <1>3. PICK l \in Nat, q \in Nat, b \in Nat :
           l = Len(msgs) /\ q = Len(queue) /\ b = Len(buf)
    BY LenProperties
  <1>4. /\ nxt = Plus(First, e)
        /\ \A i \in 1..q : IsPart(msgs, queue[i]) /\ Number(msgs, queue[i]) = e + i
        /\ \A i \in 1..b : Labelled(msgs, e, buf[i].sn, buf[i].frag)
        /\ e = total - q
    <2>1. Sending(msgs, queue, buf, nxt) /\ e = Entered(msgs, queue)
      BY <1>1, <1>2 DEF DeliveryInv, SenderInv, EnteredAt
    <2> QED
      BY <1>1, <1>3, <2>1 DEF Sending, Entered
  <1>5. \A m \in 0..l : UpTo(msgs, m) \in Nat
    BY <1>3, UpToType
  <1>6. \A m \in 0..l : \A j \in 0..l : m <= j <=> UpTo(msgs, m) <= UpTo(msgs, j)
    BY <1>1, <1>3, UpToStrict
  <1>7. WaitSnd(s) = b + q
    BY <1>2, <1>3 DEF WaitSnd
  <1> DEFINE Out(m) == /\ UpTo(msgs, m) <= e
                       /\ \A i \in 1..UpTo(msgs, m) : ~Awaits(buf, i)
  <1>8. Acked(s) \in 0..l /\ \A m \in 0..l : m <= Acked(s) <=> Out(m)
    <2>1. CASE b + q = 0
      <3>1. b = 0 /\ q = 0
        BY <2>1
      <3>2. Acked(s) = l
        BY <1>1, <1>3, <1>7, <2>1 DEF Acked
      <3>3. \A i : ~Awaits(buf, i)
        BY <1>3, <3>1 DEF Awaits
      <3>4. ASSUME NEW m \in 0..l PROVE UpTo(msgs, m) <= e
        <4>1. e = UpTo(msgs, l)
          BY <1>1, <1>3, <1>4, <3>1, TotalUpTo
        <4>2. l \in 0..l /\ m <= l
          OBVIOUS
        <4> QED
          BY <1>6, <4>1, <4>2
      <3> QED
        BY <3>2, <3>3, <3>4
    <2>2. CASE b = 0 /\ q # 0
      <3>1. buf = <<>> /\ queue # <<>> /\ 1 \in 1..q
        <4>1. 1 \in 1..q /\ Len(buf) = 0 /\ Len(queue) # 0
          BY <1>3, <2>2
        <4> QED
          BY <4>1, EmptySeq
      <3>2. PICK f \in Frag : f = queue[1] /\ Head(queue) = queue[1]
        BY <1>3, <3>1, ElementOfSeq, HeadTailProperties
      <3>3. IsPart(msgs, f) /\ Number(msgs, f) = e + 1
        BY <1>4, <3>1, <3>2
      <3>4. PICK a \in 1..l : a = f.msg
        BY <1>3, <3>3 DEF IsPart
      <3>5. Acked(s) = a - 1
        BY <1>2, <1>7, <2>2, <3>1, <3>2, <3>4 DEF Acked
      <3>6. UpTo(msgs, a - 1) < e + 1 /\ e + 1 <= UpTo(msgs, a)
        BY <1>1, <3>3, <3>4, PartNumber
      <3>7. \A i : ~Awaits(buf, i)
        BY <1>3, <2>2 DEF Awaits
      <3>8. a \in 0..l /\ a - 1 \in 0..l
        OBVIOUS
      <3>9. ASSUME NEW m \in 0..l PROVE m <= a - 1 <=> UpTo(msgs, m) <= e
        <4>1. PICK x \in Nat, y \in Nat, z \in Nat :
                 x = UpTo(msgs, m) /\ y = UpTo(msgs, a - 1) /\ z = UpTo(msgs, a)
          BY <1>5, <3>8
        <4>2. y <= e /\ e < z
          BY <3>6, <4>1
        <4>3. m <= a - 1 <=> x <= y
          BY <1>6, <3>8, <4>1
        <4>4. a <= m <=> z <= x
          BY <1>6, <3>8, <4>1
        <4>5. CASE m <= a - 1
          BY <4>1, <4>2, <4>3, <4>5
        <4>6. CASE a <= m
          BY <4>1, <4>2, <4>4, <4>6
        <4> QED
          BY <4>5, <4>6
      <3> QED
        BY <3>5, <3>7, <3>8, <3>9
    <2>3. CASE b # 0
      <3>1. buf # <<>> /\ 1 \in 1..b
        BY <1>3, <2>3, EmptySeq
      <3>2. buf[1] \in Seg /\ Head(buf) = buf[1]
        BY <1>3, <3>1, ElementOfSeq, HeadTailProperties
      <3>3. PICK f \in Frag : f = buf[1].frag
        BY <3>2, SegFields
      <3>4. IsPart(msgs, f) /\ Labelled(msgs, e, buf[1].sn, f)
        BY <1>4, <3>1, <3>3 DEF Labelled
      <3>5. PICK a \in 1..l : a = f.msg
        BY <1>3, <3>4 DEF IsPart
      <3>6. PICK k \in Nat : /\ k = Number(msgs, f) /\ k <= e
                             /\ buf[1].sn = Plus(First, k - 1)
        BY <1>1, <3>4, PartNumber DEF Labelled
      <3>7. UpTo(msgs, a - 1) < k /\ k <= UpTo(msgs, a)
        BY <1>1, <3>4, <3>5, <3>6, PartNumber
      <3>8. Acked(s) = a - 1
        <4>1. b + q # 0
          BY <2>3
        <4> QED
          BY <1>2, <1>7, <3>1, <3>2, <3>3, <3>5, <4>1 DEF Acked
      <3>9. a \in 0..l /\ a - 1 \in 0..l
        OBVIOUS
      <3>10. k # 0
        BY <1>5, <3>7, <3>9
      <3>11. Awaits(buf, k)
        BY <1>3, <3>1, <3>6 DEF Awaits
      <3>12. ASSUME NEW i \in 1..(k - 1), Awaits(buf, i) PROVE FALSE
        <4>1. PICK j \in 1..b : buf[j].sn = Plus(First, i - 1)
          BY <1>3, <3>12 DEF Awaits
        <4>2. i - 1 \in 0..total /\ k - 1 \in 0..total /\ e \in 0..total
          BY <1>1, <3>6, <3>10
        <4>3. Diff(nxt, buf[1].sn) = e - (k - 1) /\ Diff(nxt, buf[j].sn) = e - (i - 1)
          <5>1. Diff(Plus(First, e), Plus(First, k - 1)) = e - (k - 1)
            BY <1>1, <4>2, Places
          <5>2. Diff(Plus(First, e), Plus(First, i - 1)) = e - (i - 1)
            BY <1>1, <4>2, Places
          <5> QED
            BY <1>4, <3>6, <4>1, <5>1, <5>2
        <4>4. j # 1 => Diff(nxt, buf[1].sn) > Diff(nxt, buf[j].sn)
          <5>1. SndWindow(buf, nxt)
            BY <1>2 DEF WindowInv
          <5>2. DOMAIN buf = 1..b
            BY <1>3
          <5>3. j # 1 => 1 < j
            OBVIOUS
          <5> QED
            BY <3>1, <5>1, <5>2, <5>3 DEF SndWindow
        <4>5. CASE j = 1
          BY <3>6, <4>3, <4>5
        <4>6. CASE j # 1
          <5>1. e - (k - 1) > e - (i - 1)
            BY <4>3, <4>4, <4>6
          <5> QED
            BY <3>6, <5>1
        <4> QED
          BY <4>5, <4>6
      <3>13. ASSUME NEW m \in 0..l PROVE m <= a - 1 <=> Out(m)
        <4>1. PICK x \in Nat, y \in Nat, z \in Nat :
                 x = UpTo(msgs, m) /\ y = UpTo(msgs, a - 1) /\ z = UpTo(msgs, a)
          BY <1>5, <3>9
        <4>2. y < k /\ k <= z
          BY <3>7, <4>1
        <4>3. m <= a - 1 <=> x <= y
          BY <1>6, <3>9, <4>1
        <4>4. a <= m <=> z <= x
          BY <1>6, <3>9, <4>1
        <4>5. CASE m <= a - 1
          <5>1. x < k
            BY <4>2, <4>3, <4>5
          <5>2. x <= e
            BY <3>6, <5>1
          <5>3. \A i \in 1..x : ~Awaits(buf, i)
            <6>1. 1..x \subseteq 1..(k - 1)
              BY <5>1
            <6> QED
              BY <3>12, <6>1
          <5> QED
            BY <4>1, <4>5, <5>2, <5>3
        <4>6. CASE a <= m
          <5>1. k \in 1..x
            BY <3>10, <4>2, <4>4, <4>6
          <5>2. ~Out(m)
            BY <3>11, <4>1, <5>1
          <5>3. ~(m <= a - 1)
            BY <4>6
          <5> QED
            BY <5>2, <5>3
        <4> QED
          BY <4>5, <4>6
      <3> HIDE DEF Out
      <3> QED
        BY <3>8, <3>9, <3>13
    <2> QED
      BY <2>1, <2>2, <2>3
  <1> QED
    BY <1>1, <1>2, <1>3, <1>8

(* A receiver holds nothing that has no number.                            *)
LEMMA HoldsNumbered ==
    ASSUME NEW msgs \in Seq(Msg), MsgsInOrder(msgs), 2 * Total(msgs) < Wrap,
           NEW n \in Nat, n <= Total(msgs),
           NEW dlv, NEW queue, NEW buf \in SUBSET Held, NEW nxt,
           Receiving(msgs, n, dlv, queue, buf, nxt),
           NEW t \in Nat, t = Taken(msgs, dlv, queue),
           NEW i \in 1..Total(msgs), Holds(t, buf, i)
    PROVE  i <= n
  <1>1. CASE i <= t
    <2>1. t <= n
      BY DEF Receiving
    <2> QED
      BY <1>1, <2>1, TotalUpTo
  <1>2. CASE ~(i <= t)
    <2>1. PICK total \in Nat : total = Total(msgs)
      BY TotalUpTo
    <2>2. PICK seg \in buf : seg.sn = Plus(First, i - 1)
      BY <1>2 DEF Holds
    <2>3. seg.frag \in Frag /\ Labelled(msgs, n, seg.sn, seg.frag)
      BY DEF Receiving, Held
    <2>4. PICK k \in Nat : /\ k = Number(msgs, seg.frag) /\ k <= n /\ seg.sn = Plus(First, k - 1)
                           /\ k # 0
      <3>1. IsPart(msgs, seg.frag)
        BY <2>3 DEF Labelled
      <3>2. Number(msgs, seg.frag) \in Nat
              /\ UpTo(msgs, seg.frag.msg - 1) < Number(msgs, seg.frag)
        BY <2>3, <3>1, PartNumber
      <3>3. UpTo(msgs, seg.frag.msg - 1) \in Nat
        <4>1. seg.frag.msg \in 1..Len(msgs) /\ Len(msgs) \in Nat
          BY <3>1, LenProperties DEF IsPart
        <4>2. seg.frag.msg - 1 \in 0..Len(msgs)
          BY <4>1
        <4> QED
          BY <4>2, UpToType
      <3>4. Number(msgs, seg.frag) # 0
        BY <3>2, <3>3
      <3> QED
        BY <2>3, <3>2, <3>4 DEF Labelled
    <2>5. i - 1 \in 0..total /\ k - 1 \in 0..total
      BY <2>1, <2>4
    <2>6. i - 1 = k - 1
      BY <2>1, <2>2, <2>4, <2>5, Places
    <2> QED
      BY <2>4, <2>6
  <1> QED
    BY <1>1, <1>2

(* Taking from rcv_buf into rcv_queue changes nothing of what is held.     *)
LEMMA AbsorbHolds ==
    ASSUME NEW total \in Nat, 2 * total < Wrap, NEW t \in Nat, NEW nxt, nxt = Plus(First, t),
           NEW buf, NEW k \in Nat, Contiguous(buf, nxt, k), t + k <= total,
           NEW i \in 1..total
    PROVE  Holds(t + k, Beyond(buf, nxt, k), i) <=> Holds(t, buf, i)
  <1>1. \A j \in Int : Plus(nxt, j) = Plus(First, t + j)
    BY Constants, PlusPlus
  <1>2. ASSUME NEW j \in 0..(k - 1) PROVE \E seg \in buf : seg.sn = Plus(First, t + j)
    <2>1. PICK seg \in buf : seg.sn = Plus(nxt, j)
      BY DEF Contiguous
    <2> QED
      BY <1>1, <2>1
  <1>3. ASSUME Holds(t + k, Beyond(buf, nxt, k), i) PROVE Holds(t, buf, i)
    <2>1. CASE i <= t
      BY <2>1 DEF Holds
    <2>2. CASE i > t /\ i <= t + k
      <3>1. PICK j \in 0..(k - 1) : i - 1 = t + j
        <4>1. i - 1 - t \in 0..(k - 1) /\ i - 1 = t + (i - 1 - t)
          BY <2>2
        <4> QED
          BY <4>1
      <3> QED
        BY <1>2, <3>1 DEF Holds
    <2>3. CASE ~(i <= t + k)
      <3>1. PICK seg \in Beyond(buf, nxt, k) : seg.sn = Plus(First, i - 1)
        BY <1>3, <2>3 DEF Holds
      <3> QED
        BY <3>1 DEF Beyond, Holds
    <2> QED
      BY <2>1, <2>2, <2>3
  <1>4. ASSUME Holds(t, buf, i) PROVE Holds(t + k, Beyond(buf, nxt, k), i)
    <2>1. CASE i <= t + k
      BY <2>1 DEF Holds
    <2>2. CASE ~(i <= t + k)
      <3>1. ~(i <= t)
        BY <2>2
      <3>2. PICK seg \in buf : seg.sn = Plus(First, i - 1)
        BY <1>4, <3>1 DEF Holds
      <3>3. ASSUME NEW j \in 0..(k - 1) PROVE seg.sn # Plus(nxt, j)
        <4>1. t + j \in 0..total /\ i - 1 \in 0..total /\ t + j # i - 1
          BY <2>2
        <4> QED
          BY <1>1, <3>2, <4>1, Places
      <3>4. seg \in Beyond(buf, nxt, k)
        BY <3>3 DEF Beyond
      <3> QED
        BY <3>2, <3>4 DEF Holds
    <2> QED
      BY <2>1, <2>2
  <1> QED
    BY <1>3, <1>4

(* What ikcp_input drops from snd_buf the segment reports.                 *)
LEMMA AfterUnaReports ==
    ASSUME NEW buf \in Seq(Seg), NEW seg, NEW i,
           Awaits(buf, i), ~Awaits(AfterUna(buf, seg.una), i)
    PROVE  Reports(seg, i)
  <1>1. PICK k \in 0..Len(buf) :
           /\ AfterUna(buf, seg.una) = SubSeq(buf, 1 + k, Len(buf))
           /\ \A j \in 1..k : Diff(seg.una, buf[j].sn) > 0
    BY AfterUnaProperties
  <1>2. PICK later : later = SubSeq(buf, 1 + k, Len(buf))
    OBVIOUS
  <1>3. /\ Len(later) = Len(buf) - k
        /\ \A j \in 1..(Len(buf) - k) : later[j] = buf[j + k]
    BY <1>2, SuffixKeeps
  <1>4. PICK j \in 1..Len(buf) : buf[j].sn = Plus(First, i - 1)
    BY DEF Awaits
  <1>5. j <= k
    <2>1. SUFFICES ASSUME ~(j <= k) PROVE FALSE
      BY <1>1, LenProperties
    <2>2. j - k \in 1..(Len(buf) - k) /\ (j - k) + k = j
      BY <2>1, LenProperties
    <2>3. later[j - k] = buf[j] /\ j - k \in 1..Len(later)
      BY <1>3, <2>2
    <2> QED
      BY <1>1, <1>2, <1>4, <2>3 DEF Awaits
  <1>6. j \in 1..k
    BY <1>5
  <1> QED
    BY <1>1, <1>4, <1>6 DEF Reports

LEMMA AfterAckReports ==
    ASSUME NEW s, NEW buf \in Seq(Seg), NEW seg, seg.cmd = "ack", NEW i,
           Awaits(buf, i), ~Awaits(AfterAck(s, buf, seg.sn), i)
    PROVE  Reports(seg, i)
  <1>1. CASE InFlight(s, UnaOf(s, buf), seg.sn) /\ \E j \in DOMAIN buf : buf[j].sn = seg.sn
    <2>1. PICK k \in DOMAIN buf :
             k = (CHOOSE j \in DOMAIN buf : buf[j].sn = seg.sn) /\ buf[k].sn = seg.sn
      BY <1>1
    <2>2. AfterAck(s, buf, seg.sn) = RemoveAt(buf, k) /\ k \in 1..Len(buf)
      BY <1>1, <2>1 DEF AfterAck
    <2>3. PICK later : later = RemoveAt(buf, k)
      OBVIOUS
    <2>4. \A j \in 1..Len(buf) : j # k => \E n \in 1..Len(later) : later[n] = buf[j]
      BY <2>2, <2>3, RemoveAtKeeps
    <2>5. PICK j \in 1..Len(buf) : buf[j].sn = Plus(First, i - 1)
      BY DEF Awaits
    <2>6. j = k
      BY <2>2, <2>3, <2>4, <2>5 DEF Awaits
    <2> QED
      BY <2>1, <2>5, <2>6 DEF Reports
  <1>2. CASE ~(InFlight(s, UnaOf(s, buf), seg.sn) /\ \E j \in DOMAIN buf : buf[j].sn = seg.sn)
    BY <1>2 DEF AfterAck
  <1> QED
    BY <1>1, <1>2

LEMMA KeepsAwaits ==
    ASSUME NEW later \in Seq(Seg), NEW buf \in Seq(Seg), Keeps(later, buf), NEW i,
           Awaits(later, i)
    PROVE  Awaits(buf, i)
  <1>1. PICK j \in 1..Len(later) : later[j].sn = Plus(First, i - 1)
    BY DEF Awaits
  <1>2. j \in DOMAIN later
    BY LenProperties
  <1>3. PICK k \in DOMAIN buf : later[j].sn = buf[k].sn
    BY <1>2, KeepsEach
  <1>4. k \in 1..Len(buf)
    BY LenProperties
  <1> QED
    BY <1>1, <1>3, <1>4 DEF Awaits

LEMMA AcknowledgeReports ==
    ASSUME TypeOK, NEW s \in End, NEW seg \in Segment, Acknowledge(s, seg), NEW i,
           Awaits(snd_buf[s], i), ~Awaits(snd_buf'[s], i)
    PROVE  Reports(seg, i)
  <1>1. PICK buf : buf = AfterUna(snd_buf[s], seg.una)
    OBVIOUS
  <1>2. PICK rest : rest = IF seg.cmd = "ack" THEN AfterAck(s, buf, seg.sn) ELSE buf
    OBVIOUS
  <1>3. PICK last : last = IF seg.cmd = "ack" THEN Skipped(s, rest, seg.sn) ELSE rest
    OBVIOUS
  <1>4. snd_buf'[s] = last
    BY <1>1, <1>2, <1>3 DEF Acknowledge, TypeOK
  <1>5. snd_buf[s] \in Seq(Seg)
    BY TypeAt
  <1>6. buf \in Seq(Seg)
    BY <1>1, <1>5, AfterUnaKeeps
  <1>7. rest \in Seq(Seg)
    BY <1>2, <1>6, AfterAckKeeps
  <1>8. ASSUME Awaits(rest, i) PROVE Awaits(last, i)
    <2>1. CASE seg.cmd = "ack"
      <3>1. PICK more \in Seq(Seg) : /\ more = last /\ Len(more) = Len(rest)
                                     /\ \A j \in DOMAIN rest : more[j].sn = rest[j].sn
        BY <1>3, <1>7, <2>1, SkippedKeeps
      <3>2. DOMAIN rest = 1..Len(rest)
        BY <1>7
      <3> QED
        BY <1>8, <3>1, <3>2 DEF Awaits
    <2>2. CASE seg.cmd # "ack"
      BY <1>3, <1>8, <2>2
    <2> QED
      BY <2>1, <2>2
  <1>9. ~Awaits(rest, i)
    BY <1>4, <1>8
  <1>10. CASE Awaits(buf, i)
    <2>1. seg.cmd = "ack"
      BY <1>2, <1>9, <1>10
    <2> QED
      BY <1>2, <1>6, <1>9, <1>10, <2>1, AfterAckReports
  <1>11. CASE ~Awaits(buf, i)
    BY <1>1, <1>5, <1>11, AfterUnaReports
  <1> QED
    BY <1>10, <1>11

(* sn is the sequence number of one of the first n fragments, and the      *)
(* receiver holds that one.                                                *)
HeldPlace(n, t, held, sn) == \E i \in 1..n : sn = Plus(First, i - 1) /\ Holds(t, held, i)

(* What a sender no longer waits for is held, and so is what the receiver  *)
(* is about to acknowledge or has acknowledged.                            *)
Reported(n, buf, segs, t, held, acks) ==
    /\ \A i \in 1..n : Awaits(buf, i) \/ Holds(t, held, i)
    /\ \A sn \in acks : HeldPlace(n, t, held, sn)
    /\ \A seg \in segs : /\ seg.cmd = "ack" => HeldPlace(n, t, held, seg.sn)
                         /\ \E k \in 0..t : seg.una = Plus(First, k)

(* The sender knows, or will when segs arrive, that fragment i is held.    *)
Known(buf, segs, i) == Awaits(buf, i) => \E seg \in segs : Reports(seg, i)

(* Of no more than the first done messages.                                *)
Believed(msgs, n, buf, segs, done) ==
    \A m \in 1..Len(msgs) :
        UpTo(msgs, m) <= n /\ (\A i \in 1..UpTo(msgs, m) : Known(buf, segs, i)) => m <= done

LEMMA ReportsHeld ==
    ASSUME NEW total \in Nat, 2 * total < Wrap, NEW n \in 0..total, NEW t \in 0..total,
           NEW held, NEW seg, NEW i \in 1..total, Reports(seg, i),
           seg.cmd = "ack" => HeldPlace(n, t, held, seg.sn),
           \E k \in 0..t : seg.una = Plus(First, k)
    PROVE  Holds(t, held, i)
  <1>1. i - 1 \in 0..total
    OBVIOUS
  <1>2. CASE seg.cmd = "ack" /\ seg.sn = Plus(First, i - 1)
    <2>1. PICK j \in 1..n : seg.sn = Plus(First, j - 1) /\ Holds(t, held, j)
      BY <1>2 DEF HeldPlace
    <2>2. j - 1 \in 0..total
      OBVIOUS
    <2>3. j - 1 = i - 1
      BY <1>1, <1>2, <2>1, <2>2, Places
    <2>4. j = i
      BY <2>3
    <2> QED
      BY <2>1, <2>4
  <1>3. CASE Diff(seg.una, Plus(First, i - 1)) > 0
    <2>1. PICK k \in 0..t : seg.una = Plus(First, k)
      OBVIOUS
    <2>2. k \in 0..total
      OBVIOUS
    <2>3. Diff(Plus(First, k), Plus(First, i - 1)) = k - (i - 1)
      BY <1>1, <2>2, Places
    <2>4. k - (i - 1) > 0
      BY <1>3, <2>1, <2>3
    <2>5. i <= t
      BY <2>4
    <2> QED
      BY <2>5 DEF Holds
  <1> QED
    BY <1>2, <1>3 DEF Reports

(* The receiver comes to hold more, and notes what it holds.               *)
LEMMA ReportedHolds ==
    ASSUME NEW n \in Nat, NEW buf, NEW segs, NEW t \in Nat, NEW held, NEW acks,
           Reported(n, buf, segs, t, held, acks),
           NEW t2 \in Nat, t <= t2, NEW held2, NEW acks2,
           \A i \in 1..n : Holds(t, held, i) => Holds(t2, held2, i),
           \A sn \in acks2 : sn \in acks \/ HeldPlace(n, t2, held2, sn)
    PROVE  Reported(n, buf, segs, t2, held2, acks2)
  <1>1. \A sn : HeldPlace(n, t, held, sn) => HeldPlace(n, t2, held2, sn)
    BY DEF HeldPlace
  <1>2. \A i \in 1..n : Awaits(buf, i) \/ Holds(t2, held2, i)
    BY DEF Reported
  <1>3. \A sn \in acks2 : HeldPlace(n, t2, held2, sn)
    BY <1>1 DEF Reported
  <1>4. ASSUME NEW seg \in segs
        PROVE  /\ seg.cmd = "ack" => HeldPlace(n, t2, held2, seg.sn)
               /\ \E k \in 0..t2 : seg.una = Plus(First, k)
    <2>1. /\ seg.cmd = "ack" => HeldPlace(n, t, held, seg.sn)
          /\ \E k \in 0..t : seg.una = Plus(First, k)
      BY DEF Reported
    <2>2. 0..t \subseteq 0..t2
      OBVIOUS
    <2> QED
      BY <1>1, <2>1, <2>2
  <1> QED
    BY <1>2, <1>3, <1>4 DEF Reported

(* The sender drops what a segment that has arrived reports.               *)
LEMMA ReportedDrops ==
    ASSUME NEW total \in Nat, 2 * total < Wrap, NEW n \in 0..total, NEW t \in 0..total,
           NEW buf, NEW segs, NEW held, NEW acks,
           Reported(n, buf, segs, t, held, acks),
           NEW buf2, NEW segs2, segs2 \subseteq segs,
           \A i \in 1..n : Awaits(buf, i) => Awaits(buf2, i) \/ \E seg \in segs : Reports(seg, i)
    PROVE  Reported(n, buf2, segs2, t, held, acks)
  <1>1. ASSUME NEW i \in 1..n PROVE Awaits(buf2, i) \/ Holds(t, held, i)
    <2>1. CASE Awaits(buf, i) /\ ~Awaits(buf2, i)
      <3>1. PICK seg \in segs : Reports(seg, i)
        BY <2>1
      <3>2. /\ seg.cmd = "ack" => HeldPlace(n, t, held, seg.sn)
            /\ \E k \in 0..t : seg.una = Plus(First, k)
        BY DEF Reported
      <3>3. i \in 1..total
        OBVIOUS
      <3> QED
        BY <3>1, <3>2, <3>3, ReportsHeld
    <2> QED
      BY <2>1 DEF Reported
  <1> QED
    BY <1>1 DEF Reported

LEMMA BelievedDrops ==
    ASSUME NEW msgs \in Seq(Msg), MsgsInOrder(msgs), NEW n \in Nat, NEW buf, NEW segs, NEW done,
           Believed(msgs, n, buf, segs, done),
           NEW buf2, NEW segs2, segs2 \subseteq segs,
           \A i \in 1..n : Awaits(buf, i) => Awaits(buf2, i) \/ \E seg \in segs : Reports(seg, i)
    PROVE  Believed(msgs, n, buf2, segs2, done)
  <1>1. ASSUME NEW i \in 1..n, Known(buf2, segs2, i) PROVE Known(buf, segs, i)
    BY <1>1 DEF Known
  <1>2. ASSUME NEW m \in 1..Len(msgs), UpTo(msgs, m) <= n,
               \A i \in 1..UpTo(msgs, m) : Known(buf2, segs2, i)
        PROVE  m <= done
    <2>1. UpTo(msgs, m) \in Nat
      <3>1. m \in 0..Len(msgs)
        OBVIOUS
      <3> QED
        BY <3>1, UpToType
    <2>2. \A i \in 1..UpTo(msgs, m) : i \in 1..n
      BY <1>2, <2>1
    <2>3. \A i \in 1..UpTo(msgs, m) : Known(buf, segs, i)
      BY <1>1, <1>2, <2>2
    <2> QED
      BY <1>2, <2>3 DEF Believed
  <1> QED
    BY <1>2 DEF Believed

(* The sender numbers more fragments.                                      *)
LEMMA ReportedNumbers ==
    ASSUME NEW n \in Nat, NEW buf, NEW segs, NEW t, NEW held, NEW acks,
           Reported(n, buf, segs, t, held, acks),
           NEW n2 \in Nat, n <= n2, NEW buf2,
           \A i \in 1..n : Awaits(buf, i) => Awaits(buf2, i),
           \A i \in 1..n2 : i > n => Awaits(buf2, i)
    PROVE  Reported(n2, buf2, segs, t, held, acks)
  <1>1. 1..n \subseteq 1..n2
    OBVIOUS
  <1>2. \A sn : HeldPlace(n, t, held, sn) => HeldPlace(n2, t, held, sn)
    BY <1>1 DEF HeldPlace
  <1>3. ASSUME NEW i \in 1..n2 PROVE Awaits(buf2, i) \/ Holds(t, held, i)
    <2>1. CASE i > n
      BY <2>1
    <2>2. CASE i \in 1..n
      BY <2>2 DEF Reported
    <2> QED
      BY <2>1, <2>2
  <1> QED
    BY <1>2, <1>3 DEF Reported

LEMMA BelievedNumbers ==
    ASSUME NEW msgs \in Seq(Msg), MsgsInOrder(msgs), NEW n \in Nat, NEW buf, NEW segs, NEW done,
           Believed(msgs, n, buf, segs, done),
           NEW n2 \in Nat, n2 <= Total(msgs), NEW buf2,
           \A i \in 1..n : Awaits(buf, i) => Awaits(buf2, i),
           \A i \in 1..n2 : i > n => Awaits(buf2, i),
           \A i \in 1..n2 : i > n => ~\E seg \in segs : Reports(seg, i)
    PROVE  Believed(msgs, n2, buf2, segs, done)
  <1>1. ASSUME NEW m \in 1..Len(msgs), UpTo(msgs, m) <= n2,
               \A i \in 1..UpTo(msgs, m) : Known(buf2, segs, i)
        PROVE  m <= done
    <2>1. UpTo(msgs, m) \in Nat
      <3>1. m \in 0..Len(msgs)
        OBVIOUS
      <3> QED
        BY <3>1, UpToType
    <2>2. CASE UpTo(msgs, m) <= n
      <3>1. ASSUME NEW i \in 1..UpTo(msgs, m) PROVE Known(buf, segs, i)
        <4>1. i \in 1..n
          BY <2>1, <2>2
        <4> QED
          BY <1>1, <4>1 DEF Known
      <3> QED
        BY <2>2, <3>1 DEF Believed
    <2>3. CASE ~(UpTo(msgs, m) <= n)
      <3>1. PICK i \in 1..n2 : i = UpTo(msgs, m) /\ i > n /\ i \in 1..UpTo(msgs, m)
        BY <1>1, <2>1, <2>3
      <3>2. Known(buf2, segs, i)
        BY <1>1, <3>1
      <3> QED
        BY <3>1, <3>2 DEF Known
    <2> QED
      BY <2>2, <2>3
  <1> QED
    BY <1>1 DEF Believed

(* The receiver sends its acknowledgements.                                *)
LEMMA ReportedAcks ==
    ASSUME NEW n, NEW buf, NEW segs, NEW t \in Nat, NEW held, NEW acks,
           Reported(n, buf, segs, t, held, acks),
           NEW kept, \A seg \in kept : /\ seg.cmd = "ack" => seg.sn \in acks
                                       /\ seg.una = Plus(First, t)
    PROVE  Reported(n, buf, segs \cup kept, t, held, {})
  <1>1. t \in 0..t
    OBVIOUS
  <1> QED
    BY <1>1 DEF Reported

(* A fragment the sender knows to be held is.                              *)
LEMMA KnownHeld ==
    ASSUME NEW total \in Nat, 2 * total < Wrap, NEW n \in 0..total, NEW t \in 0..total,
           NEW buf, NEW segs, NEW held, NEW acks,
           Reported(n, buf, segs, t, held, acks),
           NEW i \in 1..n, Known(buf, segs, i)
    PROVE  Holds(t, held, i)
  <1>1. CASE ~Awaits(buf, i)
    BY <1>1 DEF Reported
  <1>2. CASE Awaits(buf, i)
    <2>1. PICK seg \in segs : Reports(seg, i)
      BY <1>2 DEF Known
    <2>2. /\ seg.cmd = "ack" => HeldPlace(n, t, held, seg.sn)
          /\ \E k \in 0..t : seg.una = Plus(First, k)
      BY DEF Reported
    <2>3. i \in 1..total
      OBVIOUS
    <2> QED
      BY <2>1, <2>2, <2>3, ReportsHeld
  <1> QED
    BY <1>1, <1>2

(* Between a sender and its peer: only what was flushed is numbered, and   *)
(* what the sender may conclude from what is in flight was promised.       *)
Answered(s) ==
    /\ offered[s] <= Len(given[s]) /\ EnteredAt(s) <= UpTo(given[s], offered[s])
    /\ Reported(EnteredAt(s), snd_buf[s], net[s], TakenAt(Peer(s)), rcv_buf[Peer(s)],
                acklist[Peer(s)])
    /\ Believed(given[s], EnteredAt(s), snd_buf[s], net[s], promised[Peer(s)])

AnsweredInv == \A s \in End : Answered(s)

LEMMA Direction ==
    ASSUME TypeOK, DeliveryInv, HalfTurn, NEW s \in End, NEW p \in End, p = Peer(s)
    PROVE  \E total \in Nat :
              /\ total = Total(given[s]) /\ 2 * total < Wrap
              /\ given[s] \in Seq(Msg) /\ MsgsInOrder(given[s])
              /\ EnteredAt(s) \in 0..total /\ TakenAt(p) \in 0..total
              /\ TakenAt(p) = Taken(given[s], delivered[p], rcv_queue[p])
              /\ rcv_nxt[p] = Plus(First, TakenAt(p))
              /\ \A i \in 1..total : Holds(TakenAt(p), rcv_buf[p], i) => i <= EnteredAt(s)
  <1>1. s = Peer(p)
    BY Ends
  <1>2. PICK msgs \in Seq(Msg), e \in Nat, total \in Nat :
           /\ msgs = given[s] /\ MsgsInOrder(msgs) /\ e = EnteredAt(s)
           /\ total = Total(msgs) /\ e <= total /\ 2 * total < Wrap
    BY EnteredBound, TotalUpTo
  <1>3. PICK dlv \in Seq(Seq(Frag)), queue \in Seq(Frag), buf \in SUBSET Held, nxt \in Sn :
           dlv = delivered[p] /\ queue = rcv_queue[p] /\ buf = rcv_buf[p] /\ nxt = rcv_nxt[p]
    BY TypeAt
  <1>4. Receiving(msgs, e, dlv, queue, buf, nxt)
    BY <1>1, <1>2, <1>3 DEF DeliveryInv, ReceiverInv
  <1>5. PICK t \in Nat : t = Taken(msgs, dlv, queue) /\ t <= e /\ nxt = Plus(First, t)
    <2>1. Len(dlv) \in 0..Len(msgs) /\ Len(queue) \in Nat
      BY <1>4, LenProperties DEF Receiving
    <2>2. UpTo(msgs, Len(dlv)) \in Nat
      BY <2>1, UpToType
    <2>3. Taken(msgs, dlv, queue) \in Nat
      BY <2>1, <2>2 DEF Taken
    <2> QED
      BY <1>4, <2>3 DEF Receiving
  <1>6. TakenAt(p) = t
    BY <1>1, <1>2, <1>3, <1>5 DEF TakenAt
  <1>7. \A i \in 1..total : Holds(t, buf, i) => i <= e
    BY <1>2, <1>4, <1>5, HoldsNumbered
  <1>8. e \in 0..total /\ t \in 0..total
    BY <1>2, <1>5
  <1> QED
    BY <1>2, <1>3, <1>5, <1>6, <1>7, <1>8

(* What a receiver holds when ikcp_recv has returned a message.            *)
LEMMA RecvHolds ==
    ASSUME TypeOK, WindowInv, DeliveryInv, HalfTurn,
           NEW s \in End, KcpRecv(s), NEW p \in End, p = Peer(s)
    PROVE  /\ TakenAt(s)' \in Nat /\ TakenAt(s) <= TakenAt(s)'
           /\ \A i \in 1..Total(given[p]) :
                 Holds(TakenAt(s), rcv_buf[s], i) <=> Holds(TakenAt(s)', rcv_buf'[s], i)
           /\ TakenAt(p)' = TakenAt(p) /\ rcv_buf'[p] = rcv_buf[p]
           /\ Len(delivered'[s]) = Len(delivered[s]) + 1
           /\ Len(delivered'[p]) = Len(delivered[p])
  <1>1. p # s /\ s = Peer(p)
    BY Ends
  <1>2. UNCHANGED given
    BY DEF KcpRecv
  <1>3. PICK dlv \in Seq(Seq(Frag)), rest \in Seq(Frag), k \in 0..RcvWnd :
           /\ delivered'[s] = dlv /\ Len(dlv) = Len(delivered[s]) + 1
           /\ Receiving(given[p], EnteredAt(p), dlv, rest, rcv_buf[s], rcv_nxt[s])
           /\ Contiguous(rcv_buf[s], rcv_nxt[s], k)
           /\ rcv_queue'[s] = rest \o RunOf(rcv_buf[s], rcv_nxt[s], k)
           /\ rcv_buf'[s] = Beyond(rcv_buf[s], rcv_nxt[s], k)
           /\ rcv_nxt'[s] = Plus(rcv_nxt[s], k)
           /\ delivered'[p] = delivered[p] /\ rcv_queue'[p] = rcv_queue[p]
           /\ rcv_buf'[p] = rcv_buf[p] /\ rcv_nxt'[p] = rcv_nxt[p]
    BY RecvMoves
  <1>4. k \in Nat
    BY Constants
  <1>5. PICK total \in Nat :
           /\ total = Total(given[p]) /\ 2 * total < Wrap
           /\ given[p] \in Seq(Msg) /\ MsgsInOrder(given[p]) /\ EnteredAt(p) \in 0..total
           /\ TakenAt(s) \in 0..total /\ rcv_nxt[s] = Plus(First, TakenAt(s))
    BY <1>1, Direction
  <1>6. rcv_buf[s] \in SUBSET Held /\ rcv_nxt[s] \in Sn
    BY TypeAt
  <1>7. Taken(given[p], dlv, rest) = TakenAt(s) /\ UpTo(given[p], Len(dlv)) \in Nat
    <2>1. Len(dlv) \in 0..Len(given[p]) /\ Len(rest) \in Nat
      BY <1>3, <1>5, LenProperties DEF Receiving
    <2>2. UpTo(given[p], Len(dlv)) \in Nat
      BY <1>5, <2>1, UpToType
    <2>3. PICK t \in Nat : t = Taken(given[p], dlv, rest)
      BY <2>1, <2>2 DEF Taken
    <2>4. t <= EnteredAt(p) /\ rcv_nxt[s] = Plus(First, t)
      BY <1>3, <2>3 DEF Receiving
    <2>5. t \in 0..total
      BY <1>5, <2>4
    <2>6. t = TakenAt(s)
      BY <1>5, <2>4, <2>5, Places
    <2> QED
      BY <2>2, <2>3, <2>6
  <1>8. Taken(given[p], dlv, rcv_queue'[s]) = TakenAt(s) + k
    <2>1. PICK run \in Seq(Frag) : run = RunOf(rcv_buf[s], rcv_nxt[s], k) /\ Len(run) = k
      BY <1>3, <1>4, <1>6, RunOfProperties
    <2>2. Len(rest \o run) = Len(rest) + k
      BY <2>1, ConcatProperties
    <2>3. PICK r \in Nat, u \in Nat : r = Len(rest) /\ u = UpTo(given[p], Len(dlv))
      BY <1>7, LenProperties
    <2>4. Taken(given[p], dlv, rest) = u + r
      BY <2>3 DEF Taken
    <2>5. Taken(given[p], dlv, rcv_queue'[s]) = u + (r + k)
      BY <1>3, <2>1, <2>2, <2>3 DEF Taken
    <2> QED
      BY <1>4, <1>7, <2>4, <2>5
  <1>9. TakenAt(s)' = TakenAt(s) + k
    BY <1>2, <1>3, <1>8 DEF TakenAt
  <1>10. TakenAt(s) + k <= total
    <2>1. Receiving(given[p], EnteredAt(p), delivered'[s], rcv_queue'[s], rcv_buf'[s],
                    rcv_nxt'[s])
      BY <1>3, <1>5, <1>6, TakesNext
    <2>2. TakenAt(s) + k <= EnteredAt(p)
      BY <1>3, <1>8, <2>1 DEF Receiving
    <2> QED
      BY <1>4, <1>5, <2>2
  <1>11. ASSUME NEW i \in 1..total
         PROVE  Holds(TakenAt(s), rcv_buf[s], i) <=> Holds(TakenAt(s)', rcv_buf'[s], i)
    <2>1. PICK t \in Nat, nxt \in Sn, buf \in SUBSET Held :
             t = TakenAt(s) /\ nxt = rcv_nxt[s] /\ buf = rcv_buf[s] /\ nxt = Plus(First, t)
      BY <1>5, <1>6
    <2>2. Contiguous(buf, nxt, k) /\ t + k <= total
      BY <1>3, <1>10, <2>1
    <2>3. Holds(t + k, Beyond(buf, nxt, k), i) <=> Holds(t, buf, i)
      BY <1>4, <1>5, <2>1, <2>2, AbsorbHolds
    <2> QED
      BY <1>3, <1>9, <2>1, <2>3
  <1>12. TakenAt(p)' = TakenAt(p)
    BY <1>2, <1>3 DEF TakenAt
  <1>13. TakenAt(s)' \in Nat /\ TakenAt(s) <= TakenAt(s)'
    BY <1>4, <1>5, <1>9
  <1> QED
    BY <1>3, <1>5, <1>11, <1>12, <1>13

(* What a receiver holds, and is to acknowledge, after ikcp_input.         *)
LEMMA ArriveHolds ==
    ASSUME TypeOK, WindowInv, DeliveryInv, HalfTurn,
           NEW s \in End, NEW seg \in net[s], KcpInput(s, seg), NEW p \in End, p = Peer(s)
    PROVE  /\ TakenAt(s)' \in Nat /\ TakenAt(s) <= TakenAt(s)'
           /\ \A i \in 1..Total(given[p]) :
                 Holds(TakenAt(s), rcv_buf[s], i) => Holds(TakenAt(s)', rcv_buf'[s], i)
           /\ \A sn \in acklist'[s] :
                 sn \in acklist[s] \/ HeldPlace(EnteredAt(p), TakenAt(s)', rcv_buf'[s], sn)
           /\ TakenAt(p)' = TakenAt(p) /\ rcv_buf'[p] = rcv_buf[p] /\ acklist'[p] = acklist[p]
  <1>1. p # s /\ s = Peer(p)
    BY Ends
  <1>2. UNCHANGED <<given, delivered>>
    BY DEF KcpInput, historyVars
  <1>3. /\ rcv_queue'[p] = rcv_queue[p] /\ rcv_buf'[p] = rcv_buf[p] /\ acklist'[p] = acklist[p]
        /\ \A sn \in acklist'[s] : sn \in acklist[s] \/ (seg.cmd = "push" /\ sn = seg.sn)
    BY ArriveMoves
  <1>4. PICK total \in Nat :
           /\ total = Total(given[p]) /\ 2 * total < Wrap
           /\ given[p] \in Seq(Msg) /\ MsgsInOrder(given[p]) /\ EnteredAt(p) \in 0..total
           /\ TakenAt(s) \in 0..total /\ rcv_nxt[s] = Plus(First, TakenAt(s))
           /\ TakenAt(s) = Taken(given[p], delivered[s], rcv_queue[s])
    BY <1>1, Direction
  <1>5. PICK t \in Nat, n \in Nat, nxt \in Sn, old \in SUBSET Held :
           t = TakenAt(s) /\ n = EnteredAt(p) /\ nxt = rcv_nxt[s] /\ old = rcv_buf[s]
    <2>1. TakenAt(s) \in Nat /\ EnteredAt(p) \in Nat
      BY <1>4
    <2>2. rcv_nxt[s] \in Sn /\ rcv_buf[s] \in SUBSET Held
      BY TypeAt
    <2> QED
      BY <2>1, <2>2
  <1>6. TakenAt(p)' = TakenAt(p)
    BY <1>2, <1>3 DEF TakenAt
  (* Where the segment that arrived belongs. *)
  <1>7. ASSUME seg.cmd = "push"
        PROVE  \E j \in 1..n : seg.sn = Plus(First, j - 1)
    <2>1. /\ Labelled(given[p], EnteredAt(p), seg.sn, seg.frag)
          /\ seg.frag \in Frag
      BY <1>1, <1>7, TypeAt, SegmentFields DEF DeliveryInv, ReceiverInv
    <2>2. PICK f \in Frag, msgs \in Seq(Msg) : f = seg.frag /\ msgs = given[p]
      BY <1>4, <2>1
    <2>3. /\ IsPart(msgs, f) /\ Number(msgs, f) <= n /\ seg.sn = Plus(First, Number(msgs, f) - 1)
          /\ MsgsInOrder(msgs)
      BY <1>4, <1>5, <2>1, <2>2 DEF Labelled
    <2>4. Number(msgs, f) \in Nat /\ UpTo(msgs, f.msg - 1) < Number(msgs, f)
      BY <2>3, PartNumber
    <2>5. f.msg - 1 \in 0..Len(msgs)
      <3>1. f.msg \in 1..Len(msgs) /\ Len(msgs) \in Nat
        BY <2>3, LenProperties DEF IsPart
      <3> QED
        BY <3>1
    <2>6. UpTo(msgs, f.msg - 1) \in Nat
      BY <2>5, UpToType
    <2>7. Number(msgs, f) \in 1..n
      BY <2>3, <2>4, <2>6
    <2> QED
      BY <2>3, <2>7
  <1>8. CASE /\ UNCHANGED <<rcv_nxt, rcv_buf, rcv_queue>>
             /\ acklist' = acklist \/ (seg.cmd = "push" /\ Repeats(s, seg))
    <2>1. TakenAt(s)' = TakenAt(s) /\ rcv_buf'[s] = rcv_buf[s]
      BY <1>2, <1>8 DEF TakenAt
    <2>2. ASSUME NEW sn \in acklist'[s], sn \notin acklist[s]
          PROVE  HeldPlace(n, t, old, sn)
      <3>1. seg.cmd = "push" /\ Repeats(s, seg) /\ sn = seg.sn
        BY <1>3, <1>8, <2>2
      <3>2. PICK j \in 1..n : sn = Plus(First, j - 1)
        BY <1>7, <3>1
      <3>3. CASE Diff(sn, nxt) < 0
        <4>1. j - 1 \in 0..total /\ t \in 0..total
          BY <1>4, <1>5
        <4>2. Diff(sn, nxt) = (j - 1) - t
          BY <1>4, <1>5, <3>2, <4>1, Places
        <4>3. j <= t
          BY <3>3, <4>2
        <4> QED
          BY <3>2, <4>3 DEF HeldPlace, Holds
      <3>4. CASE ~(Diff(sn, nxt) < 0)
        <4>1. PICK held \in old : held.sn = sn
          BY <1>5, <3>1, <3>4 DEF Repeats
        <4> QED
          BY <3>2, <4>1 DEF HeldPlace, Holds
      <3> QED
        BY <3>3, <3>4
    <2> QED
      BY <1>3, <1>5, <1>6, <2>1, <2>2
  <1>9. CASE ~(/\ UNCHANGED <<rcv_nxt, rcv_buf, rcv_queue>>
               /\ acklist' = acklist \/ (seg.cmd = "push" /\ Repeats(s, seg)))
    <2>1. PICK held \in Held, buf \in SUBSET Held, k \in 0..RcvWnd :
             /\ seg.cmd = "push" /\ held.sn = seg.sn
             /\ buf = rcv_buf[s] \cup {held}
             /\ Receiving(given[p], EnteredAt(p), delivered[s], rcv_queue[s], buf, rcv_nxt[s])
             /\ Contiguous(buf, rcv_nxt[s], k)
             /\ rcv_queue'[s] = rcv_queue[s] \o RunOf(buf, rcv_nxt[s], k)
             /\ rcv_buf'[s] = Beyond(buf, rcv_nxt[s], k)
             /\ rcv_nxt'[s] = Plus(rcv_nxt[s], k)
      BY <1>9, ArriveMoves
    <2>2. k \in Nat
      BY Constants
    <2>3. rcv_queue[s] \in Seq(Frag) /\ delivered[s] \in Seq(Seq(Frag))
      BY TypeAt
    <2>4. Taken(given[p], delivered[s], rcv_queue'[s]) = t + k
      <3>1. PICK run \in Seq(Frag) : run = RunOf(buf, nxt, k) /\ Len(run) = k
        BY <1>5, <2>1, <2>2, RunOfProperties
      <3>2. PICK queue \in Seq(Frag) : queue = rcv_queue[s]
        BY <2>3
      <3>3. Len(queue \o run) = Len(queue) + k
        BY <3>1, ConcatProperties
      <3>4. PICK q \in Nat, u \in Nat : q = Len(queue) /\ u = UpTo(given[p], Len(delivered[s]))
        <4>1. Len(delivered[s]) \in 0..Len(given[p])
          BY <1>4, <2>1, <2>3, LenProperties DEF Receiving
        <4> QED
          BY <1>4, <4>1, LenProperties, UpToType
      <3>5. t = u + q
        BY <1>4, <1>5, <3>2, <3>4 DEF Taken
      <3>6. Taken(given[p], delivered[s], rcv_queue'[s]) = u + (q + k)
        BY <1>5, <2>1, <3>1, <3>2, <3>3, <3>4 DEF Taken
      <3> QED
        BY <2>2, <3>5, <3>6
    <2>5. TakenAt(s)' = t + k
      BY <1>2, <2>4 DEF TakenAt
    <2>6. t + k <= total
      <3>1. Receiving(given[p], EnteredAt(p), delivered[s], rcv_queue'[s], rcv_buf'[s],
                      rcv_nxt'[s])
        BY <1>4, <1>5, <2>1, <2>3, TakesNext
      <3>2. t + k <= n
        BY <1>5, <2>4, <3>1 DEF Receiving
      <3> QED
        BY <1>4, <1>5, <2>2, <3>2
    <2>7. ASSUME NEW i \in 1..total, Holds(t, buf, i) PROVE Holds(TakenAt(s)', rcv_buf'[s], i)
      <3>1. nxt = Plus(First, t) /\ Contiguous(buf, nxt, k)
        BY <1>4, <1>5, <2>1
      <3>2. Holds(t + k, Beyond(buf, nxt, k), i)
        BY <1>4, <2>2, <2>6, <2>7, <3>1, AbsorbHolds
      <3> QED
        BY <1>5, <2>1, <2>5, <3>2
    <2>8. \A i : Holds(t, old, i) => Holds(t, buf, i)
      BY <1>5, <2>1 DEF Holds
    <2>9. ASSUME NEW sn \in acklist'[s], sn \notin acklist[s]
          PROVE  HeldPlace(n, TakenAt(s)', rcv_buf'[s], sn)
      <3>1. PICK j \in 1..n : sn = Plus(First, j - 1) /\ sn = seg.sn
        BY <1>3, <1>7, <2>9
      <3>2. Holds(t, buf, j)
        BY <2>1, <3>1 DEF Holds
      <3>3. j \in 1..total
        BY <1>4, <1>5
      <3> QED
        BY <2>7, <3>1, <3>2, <3>3 DEF HeldPlace
    <2>10. TakenAt(s)' \in Nat /\ TakenAt(s) <= TakenAt(s)'
      BY <1>5, <2>2, <2>5
    <2> QED
      BY <1>3, <1>4, <1>5, <1>6, <2>7, <2>8, <2>9, <2>10
  <1> QED
    BY <1>8, <1>9

LEMMA ProlongsUpTo ==
    ASSUME NEW msgs \in Seq(Msg), NEW new \in Seq(Msg), Prolongs(new, msgs),
           NEW m \in 0..Len(msgs)
    PROVE  UpTo(new, m) = UpTo(msgs, m)
  <1>1. CASE m = 0
    BY <1>1 DEF UpTo
  <1>2. CASE m # 0
    <2>1. m \in 1..Len(msgs)
      BY <1>2
    <2> QED
      BY <1>2, <2>1 DEF UpTo, Prolongs
  <1> QED
    BY <1>1, <1>2

(* Each action keeps AnsweredInv.                                          *)
LEMMA InitAnswered ==
    ASSUME Init
    PROVE  AnsweredInv
  <1>1. <<>> \in Seq(Msg) /\ Len(<<>>) = 0 /\ 1..0 = {}
    BY EmptySeq
  <1>2. ASSUME NEW s \in End PROVE Answered(s)
    <2>1. PICK p \in End : p = Peer(s)
      BY Ends
    <2>2. PICK none : none = <<>>
      OBVIOUS
    <2>3. /\ given[s] = none /\ snd_queue[s] = none /\ snd_buf[s] = none /\ net[s] = {}
          /\ acklist[p] = {} /\ offered[s] = 0
      BY <2>2 DEF Init
    <2>4. EnteredAt(s) = 0
      <3>1. Total(none) = 0
        BY <2>2 DEF Total
      <3>2. Entered(none, none) = 0
        BY <1>1, <2>2, <3>1 DEF Entered
      <3> QED
        BY <2>3, <3>2 DEF EnteredAt
    <2>5. 0 <= Len(none) /\ UpTo(none, 0) = 0
      BY <1>1, <2>2 DEF UpTo
    <2>6. Reported(0, none, {}, TakenAt(p), rcv_buf[p], {})
      BY <1>1 DEF Reported
    <2>7. Believed(none, 0, none, {}, promised[p])
      BY <1>1, <2>2 DEF Believed
    <2> QED
      BY <2>1, <2>3, <2>4, <2>5, <2>6, <2>7 DEF Answered
  <1> QED
    BY <1>2 DEF AnsweredInv

(* What is given changes nothing of what was numbered or taken.            *)
LEMMA SendHolds ==
    ASSUME TypeOK, DeliveryInv, NEW s \in End, NEW count \in Counts, KcpSend(s, count),
           NEW p \in End, p = Peer(s)
    PROVE  \E new \in Seq(Msg) :
              /\ given'[s] = new /\ given'[p] = given[p]
              /\ Len(new) = Len(given[s]) + 1 /\ Total(new) > Total(given[s])
              /\ Prolongs(new, given[s])
              /\ EnteredAt(s)' = EnteredAt(s) /\ EnteredAt(p)' = EnteredAt(p)
              /\ TakenAt(s)' = TakenAt(s) /\ TakenAt(p)' = TakenAt(p)
              /\ UNCHANGED <<snd_buf, rcv_buf, net, delivered, acklist, offered, promised>>
  <1>1. p # s /\ s = Peer(p)
    BY Ends
  <1>2. PICK msgs \in Seq(Msg) : msgs = given[s]
    BY TypeAt
  <1>3. PICK new \in Seq(Msg) :
           /\ given'[s] = new /\ given'[p] = given[p]
           /\ UNCHANGED <<snd_buf, rcv_buf, rcv_queue, net, delivered>>
           /\ Len(new) = Len(msgs) + 1 /\ Total(new) > Total(msgs) /\ Prolongs(new, msgs)
           /\ EnteredAt(s)' = EnteredAt(s) /\ EnteredAt(p)' = EnteredAt(p)
    BY <1>2, SendMoves
  <1>4. UNCHANGED <<acklist, offered, promised>>
    BY DEF KcpSend, recvVars
  <1>5. TakenAt(s)' = TakenAt(s)
    BY <1>3 DEF TakenAt
  <1>6. TakenAt(p)' = TakenAt(p)
    <2>1. delivered[p] \in Seq(Seq(Frag)) /\ Len(delivered[p]) <= Len(msgs)
      BY <1>1, <1>2, TypeAt DEF DeliveryInv, ReceiverInv, Receiving
    <2>2. Len(delivered[p]) \in 0..Len(msgs)
      BY <2>1, LenProperties
    <2>3. UpTo(new, Len(delivered[p])) = UpTo(msgs, Len(delivered[p]))
      BY <1>3, <2>2, ProlongsUpTo
    <2> QED
      BY <1>1, <1>2, <1>3, <2>3 DEF TakenAt, Taken
  <1> QED
    BY <1>2, <1>3, <1>4, <1>5, <1>6

LEMMA SendAnswered ==
    ASSUME TypeOK, DeliveryInv, HalfTurn, AnsweredInv,
           NEW s \in End, NEW count \in Counts, KcpSend(s, count)
    PROVE  AnsweredInv'
  <1>1. PICK p \in End : p = Peer(s) /\ p # s /\ s = Peer(p)
    BY Ends
  <1>2. PICK msgs \in Seq(Msg) : msgs = given[s]
    BY TypeAt
  <1>3. PICK new \in Seq(Msg) :
           /\ given'[s] = new /\ given'[p] = given[p]
           /\ Len(new) = Len(msgs) + 1 /\ Total(new) > Total(msgs) /\ Prolongs(new, msgs)
           /\ EnteredAt(s)' = EnteredAt(s) /\ EnteredAt(p)' = EnteredAt(p)
           /\ TakenAt(s)' = TakenAt(s) /\ TakenAt(p)' = TakenAt(p)
           /\ UNCHANGED <<snd_buf, rcv_buf, net, delivered, acklist, offered, promised>>
    BY <1>1, <1>2, SendHolds
  <1>4. Answered(p)'
    BY <1>1, <1>3 DEF AnsweredInv, Answered
  <1>5. PICK k \in Nat, total \in Nat, more \in Nat, e \in Nat, off \in Nat :
           /\ k = Len(msgs) /\ off \in 0..k
           /\ total = Total(msgs) /\ more = Total(new) /\ e = EnteredAt(s)
           /\ e <= total /\ more = UpTo(new, k + 1) /\ off = offered[s] /\ e <= UpTo(msgs, off)
    <2>1. Len(msgs) \in Nat /\ Total(msgs) \in Nat /\ Total(new) \in Nat
            /\ Total(new) = UpTo(new, Len(new))
      BY LenProperties, TotalUpTo
    <2>2. EnteredAt(s) \in Nat /\ EnteredAt(s) <= Total(msgs)
      BY <1>2, EnteredBound
    <2>3. offered[s] \in Nat /\ offered[s] <= Len(msgs) /\ EnteredAt(s) <= UpTo(msgs, offered[s])
      BY <1>2, TypeAt DEF AnsweredInv, Answered
    <2> QED
      BY <1>3, <2>1, <2>2, <2>3
  <1>6. off <= Len(new) /\ e <= UpTo(new, off)
    BY <1>3, <1>5, ProlongsUpTo
  <1>7. Believed(new, e, snd_buf[s], net[s], promised[p])
    <2>1. ASSUME NEW m \in 1..Len(new), UpTo(new, m) <= e,
                 \A i \in 1..UpTo(new, m) : Known(snd_buf[s], net[s], i)
          PROVE  m <= promised[p]
      <3>1. m # k + 1
        BY <1>3, <1>5, <2>1
      <3>2. m \in 1..k
        BY <1>3, <1>5, <3>1
      <3>3. UpTo(new, m) = UpTo(msgs, m)
        BY <1>3, <1>5, <3>2, ProlongsUpTo
      <3>4. Believed(msgs, e, snd_buf[s], net[s], promised[p])
        BY <1>1, <1>2, <1>5 DEF AnsweredInv, Answered
      <3> QED
        BY <1>5, <2>1, <3>2, <3>3, <3>4 DEF Believed
    <2> QED
      BY <2>1 DEF Believed
  <1>8. Reported(e, snd_buf[s], net[s], TakenAt(p), rcv_buf[p], acklist[p])
    BY <1>1, <1>5 DEF AnsweredInv, Answered
  <1>9. Answered(s)'
    BY <1>1, <1>3, <1>5, <1>6, <1>7, <1>8 DEF Answered
  <1>10. \A t \in End : t = s \/ t = p
    BY <1>1 DEF End, Peer
  <1> QED
    BY <1>4, <1>9, <1>10 DEF AnsweredInv

LEMMA RecvAnswered ==
    ASSUME TypeOK, WindowInv, DeliveryInv, HalfTurn, AnsweredInv, NEW s \in End, KcpRecv(s)
    PROVE  AnsweredInv'
  <1>1. PICK p \in End : p = Peer(s) /\ p # s /\ s = Peer(p)
    BY Ends
  <1>2. UNCHANGED <<snd_queue, snd_buf, net, acklist, given, offered, promised>>
    BY DEF KcpRecv, sendVars
  <1>3. \A t \in End : EnteredAt(t)' = EnteredAt(t)
    BY <1>2 DEF EnteredAt
  <1>4. PICK total \in Nat : total = Total(given[p]) /\ EnteredAt(p) \in 0..total
                               /\ TakenAt(s) \in 0..total
    BY <1>1, Direction
  <1>5. /\ TakenAt(s)' \in Nat /\ TakenAt(s) <= TakenAt(s)'
        /\ \A i \in 1..total :
              Holds(TakenAt(s), rcv_buf[s], i) <=> Holds(TakenAt(s)', rcv_buf'[s], i)
        /\ TakenAt(p)' = TakenAt(p) /\ rcv_buf'[p] = rcv_buf[p]
    BY <1>1, <1>4, RecvHolds
  <1>6. Answered(s)'
    BY <1>1, <1>2, <1>3, <1>5 DEF AnsweredInv, Answered
  <1>7. PICK t \in Nat, t2 \in Nat, n \in Nat :
           t = TakenAt(s) /\ t2 = TakenAt(s)' /\ n = EnteredAt(p) /\ n <= total
    BY <1>4, <1>5
  <1>8. Reported(n, snd_buf[p], net[p], t2, rcv_buf'[s], acklist[s])
    <2>1. Reported(n, snd_buf[p], net[p], t, rcv_buf[s], acklist[s])
      BY <1>1, <1>7 DEF AnsweredInv, Answered
    <2>2. ASSUME NEW i \in 1..n, Holds(t, rcv_buf[s], i) PROVE Holds(t2, rcv_buf'[s], i)
      <3>1. i \in 1..total
        BY <1>7
      <3> QED
        BY <1>5, <1>7, <2>2, <3>1
    <2>3. t <= t2
      BY <1>5, <1>7
    <2> QED
      BY <2>1, <2>2, <2>3, ReportedHolds
  <1>9. Answered(p)'
    BY <1>1, <1>2, <1>3, <1>7, <1>8 DEF AnsweredInv, Answered
  <1>10. \A x \in End : x = s \/ x = p
    BY <1>1 DEF End, Peer
  <1> QED
    BY <1>6, <1>9, <1>10 DEF AnsweredInv

LEMMA ArriveAnswered ==
    ASSUME TypeOK, WindowInv, DeliveryInv, HalfTurn, AnsweredInv,
           NEW s \in End, NEW seg \in net[s], NEW keep \in BOOLEAN, Arrive(s, seg, keep)
    PROVE  AnsweredInv'
  <1>1. PICK p \in End : p = Peer(s) /\ p # s /\ s = Peer(p)
    BY Ends
  <1>2. seg \in Segment /\ KcpInput(s, seg)
    BY TypeAt DEF Arrive
  <1>3. Acknowledge(s, seg) /\ UNCHANGED <<given, delivered, offered, promised>>
    BY <1>2 DEF KcpInput, historyVars
  <1>4. UNCHANGED snd_queue /\ snd_buf'[p] = snd_buf[p]
    BY <1>1, <1>3 DEF Acknowledge, TypeOK
  <1>5. \A t \in End : EnteredAt(t)' = EnteredAt(t)
    BY <1>3, <1>4 DEF EnteredAt
  <1>6. net'[s] \subseteq net[s] /\ net'[p] = net[p]
    BY <1>1 DEF Arrive, TypeOK
  <1>7. /\ TakenAt(s)' \in Nat /\ TakenAt(s) <= TakenAt(s)'
        /\ \A i \in 1..Total(given[p]) :
              Holds(TakenAt(s), rcv_buf[s], i) => Holds(TakenAt(s)', rcv_buf'[s], i)
        /\ \A sn \in acklist'[s] :
              sn \in acklist[s] \/ HeldPlace(EnteredAt(p), TakenAt(s)', rcv_buf'[s], sn)
        /\ TakenAt(p)' = TakenAt(p) /\ rcv_buf'[p] = rcv_buf[p] /\ acklist'[p] = acklist[p]
    BY <1>1, <1>2, ArriveHolds
  (* What s believes. *)
  <1>8. PICK total \in Nat, msgs \in Seq(Msg), e \in Nat, t \in Nat :
           /\ 2 * total < Wrap /\ e \in 0..total /\ t \in 0..total
           /\ msgs = given[s] /\ MsgsInOrder(msgs) /\ e = EnteredAt(s) /\ t = TakenAt(p)
    <2>1. \E total \in Nat :
             /\ 2 * total < Wrap
             /\ given[s] \in Seq(Msg) /\ MsgsInOrder(given[s])
             /\ EnteredAt(s) \in 0..total /\ TakenAt(p) \in 0..total
      BY <1>1, Direction
    <2> QED
      BY <2>1
  <1>9. \A i : Awaits(snd_buf[s], i) => Awaits(snd_buf'[s], i) \/ \E x \in net[s] : Reports(x, i)
    BY <1>2, <1>3, AcknowledgeReports
  <1>10. Reported(e, snd_buf'[s], net'[s], t, rcv_buf[p], acklist[p])
    <2>1. Reported(e, snd_buf[s], net[s], t, rcv_buf[p], acklist[p])
      BY <1>1, <1>8 DEF AnsweredInv, Answered
    <2> QED
      BY <1>6, <1>8, <1>9, <2>1, ReportedDrops
  <1>11. Believed(msgs, e, snd_buf'[s], net'[s], promised[p])
    <2>1. Believed(msgs, e, snd_buf[s], net[s], promised[p])
      BY <1>1, <1>8 DEF AnsweredInv, Answered
    <2> QED
      BY <1>6, <1>8, <1>9, <2>1, BelievedDrops
  <1>12. Answered(s)'
    BY <1>1, <1>3, <1>5, <1>7, <1>8, <1>10, <1>11 DEF AnsweredInv, Answered
  (* What p may be told. *)
  <1>13. PICK all \in Nat, n \in Nat, u \in Nat, u2 \in Nat :
           /\ all = Total(given[p]) /\ n = EnteredAt(p) /\ n <= all
           /\ u = TakenAt(s) /\ u2 = TakenAt(s)'
    <2>1. \E all \in Nat : all = Total(given[p]) /\ EnteredAt(p) \in 0..all
                             /\ TakenAt(s) \in 0..all
      BY <1>1, Direction
    <2> QED
      BY <1>7, <2>1
  <1>14. Reported(n, snd_buf[p], net[p], u2, rcv_buf'[s], acklist'[s])
    <2>1. Reported(n, snd_buf[p], net[p], u, rcv_buf[s], acklist[s])
      BY <1>1, <1>13 DEF AnsweredInv, Answered
    <2>2. ASSUME NEW i \in 1..n, Holds(u, rcv_buf[s], i) PROVE Holds(u2, rcv_buf'[s], i)
      <3>1. i \in 1..all
        BY <1>13
      <3> QED
        BY <1>7, <1>13, <2>2, <3>1
    <2>3. u <= u2
      BY <1>7, <1>13
    <2>4. \A sn \in acklist'[s] : sn \in acklist[s] \/ HeldPlace(n, u2, rcv_buf'[s], sn)
      BY <1>7, <1>13
    <2> QED
      BY <2>1, <2>2, <2>3, <2>4, ReportedHolds
  <1>15. Answered(p)'
    BY <1>1, <1>3, <1>4, <1>5, <1>6, <1>13, <1>14 DEF AnsweredInv, Answered
  <1>16. \A x \in End : x = s \/ x = p
    BY <1>1 DEF End, Peer
  <1> QED
    BY <1>12, <1>15, <1>16 DEF AnsweredInv

(* What ikcp_flush numbers waits for an acknowledgement.                   *)
LEMMA FlushAwaits ==
    ASSUME TypeOK, WindowInv, DeliveryInv, HalfTurn, NEW s \in End, NEW late, NEW expires,
           NEW kept, KcpFlush(s, late, expires, kept), NEW p \in End, p = Peer(s)
    PROVE  /\ EnteredAt(s)' \in Nat /\ EnteredAt(s) <= EnteredAt(s)'
           /\ EnteredAt(s)' <= Total(given[s]) /\ EnteredAt(p)' = EnteredAt(p)
           /\ snd_buf'[s] \in Seq(Seg) /\ snd_buf'[p] = snd_buf[p]
           /\ \A i \in 1..EnteredAt(s) : Awaits(snd_buf[s], i) <=> Awaits(snd_buf'[s], i)
           /\ \A i \in 1..EnteredAt(s)' : i > EnteredAt(s) => Awaits(snd_buf'[s], i)
  <1>1. p # s
    BY Ends
  <1>2. PICK queue \in Seq(Frag), old \in Seq(Seg), nxt \in Sn :
           queue = snd_queue[s] /\ old = snd_buf[s] /\ nxt = snd_nxt[s]
    BY TypeAt
  <1>3. PICK q \in Nat, b \in Nat, m \in Nat :
           q = Len(queue) /\ b = Len(old) /\ m = Moves(s) /\ m \in 0..q
    <2>1. Len(queue) \in Nat /\ Len(old) \in Nat
      BY LenProperties
    <2>2. Moves(s) \in 0..Len(queue)
      BY <1>2, BufferedProperties
    <2> QED
      BY <2>1, <2>2
  <1>4. PICK all \in Seq(Seg) :
           /\ all = Buffered(s) /\ Len(all) = b + m
           /\ \A i \in 1..b : all[i] = old[i]
           /\ \A i \in 1..m : all[b + i].sn = Plus(nxt, i - 1)
    BY <1>2, <1>3, BufferedProperties
  <1>5. PICK later \in Seq(Seg) :
           /\ later = AfterSend(all, late) /\ Len(later) = b + m
           /\ \A i \in 1..(b + m) : later[i].sn = all[i].sn
    <2>1. DOMAIN all = 1..(b + m)
      BY <1>4, LenProperties
    <2> QED
      BY <1>4, <2>1, AfterSendKeeps
  <1>6. PICK rest \in Seq(Frag) : /\ rest = SubSeq(queue, m + 1, Len(queue))
                                  /\ Len(rest) = q - m
    BY <1>3, PrefixSuffix
  <1>7. /\ snd_buf'[s] = later /\ snd_buf'[p] = snd_buf[p]
        /\ snd_queue'[s] = rest /\ snd_queue'[p] = snd_queue[p]
        /\ UNCHANGED given
    BY <1>1, <1>2, <1>3, <1>4, <1>5, <1>6 DEF KcpFlush, TypeOK
  <1>8. PICK total \in Nat, e \in Nat : total = Total(given[s]) /\ e = EnteredAt(s)
                                          /\ e = total - q /\ nxt = Plus(First, e)
    <2>1. EnteredAt(s) \in Nat /\ Total(given[s]) \in Nat
      BY EnteredBound, TotalUpTo
    <2>2. EnteredAt(s) = Total(given[s]) - q
      BY <1>2, <1>3 DEF EnteredAt, Entered
    <2>3. nxt = Plus(First, EnteredAt(s))
      BY <1>2 DEF DeliveryInv, SenderInv, Sending, EnteredAt
    <2> QED
      BY <2>1, <2>2, <2>3
  <1>9. EnteredAt(s)' = e + m /\ EnteredAt(p)' = EnteredAt(p)
    <2>1. Entered(given[s], rest) = total - (q - m)
      BY <1>6, <1>8 DEF Entered
    <2>2. EnteredAt(s)' = total - (q - m)
      BY <1>7, <2>1 DEF EnteredAt
    <2> QED
      BY <1>7, <1>8, <2>2 DEF EnteredAt
  <1>10. ASSUME NEW i \in 1..e, Awaits(old, i) PROVE Awaits(later, i)
    <2>1. PICK j \in 1..b : old[j].sn = Plus(First, i - 1)
      BY <1>3, <1>10 DEF Awaits
    <2>2. j \in 1..(b + m)
      OBVIOUS
    <2>3. later[j].sn = Plus(First, i - 1)
      BY <1>4, <1>5, <2>1, <2>2
    <2> QED
      BY <1>5, <2>2, <2>3 DEF Awaits
  <1>12. e + m \in Nat /\ e <= e + m /\ e + m <= total /\ 2 * total < Wrap
    <2>1. 2 * total < Wrap
      BY <1>8, EnteredBound
    <2>2. e + m \in Nat /\ e <= e + m /\ e + m <= total
      BY <1>3, <1>8
    <2> QED
      BY <2>1, <2>2
  <1>13. ASSUME NEW i \in 1..e, Awaits(later, i) PROVE Awaits(old, i)
    <2>1. PICK j \in 1..(b + m) : later[j].sn = Plus(First, i - 1)
      BY <1>5, <1>13 DEF Awaits
    <2>2. CASE j \in 1..b
      <3>1. old[j].sn = Plus(First, i - 1)
        BY <1>4, <1>5, <2>1, <2>2
      <3> QED
        BY <1>3, <2>2, <3>1 DEF Awaits
    <2>3. CASE j \notin 1..b
      <3>1. PICK k \in 1..m : j = b + k
        <4>1. j - b \in 1..m /\ j = b + (j - b)
          BY <2>3
        <4> QED
          BY <4>1
      <3>2. all[b + k].sn = Plus(nxt, k - 1)
        BY <1>4
      <3>3. k - 1 \in Int /\ e \in Int
        OBVIOUS
      <3>4. later[j].sn = Plus(First, e + (k - 1))
        BY <1>5, <1>8, <3>1, <3>2, <3>3, Constants, PlusPlus
      <3>5. e + (k - 1) \in 0..total /\ i - 1 \in 0..total
        BY <1>12
      <3>6. e + (k - 1) = i - 1
        BY <1>12, <2>1, <3>4, <3>5, Places
      <3> QED
        BY <3>6
    <2> QED
      BY <2>2, <2>3
  <1>11. ASSUME NEW i \in 1..(e + m), i > e PROVE Awaits(later, i)
    <2>1. PICK j \in 1..m : e + (j - 1) = i - 1
      <3>1. i - e \in 1..m /\ e + ((i - e) - 1) = i - 1
        BY <1>11
      <3> QED
        BY <3>1
    <2>2. b + j \in 1..(b + m)
      OBVIOUS
    <2>3. all[b + j].sn = Plus(nxt, j - 1)
      BY <1>4
    <2>4. j - 1 \in Int /\ e \in Int
      OBVIOUS
    <2>5. Plus(nxt, j - 1) = Plus(First, i - 1)
      BY <1>8, <2>1, <2>4, Constants, PlusPlus
    <2>6. later[b + j].sn = Plus(First, i - 1)
      BY <1>5, <2>2, <2>3, <2>5
    <2> QED
      BY <1>5, <2>2, <2>6 DEF Awaits
  <1> QED
    BY <1>2, <1>7, <1>8, <1>9, <1>10, <1>11, <1>12, <1>13

(* The acknowledgements ikcp_flush writes.                                 *)
LEMMA OutputReports ==
    ASSUME NEW s, NEW late, NEW expires, NEW seg \in Output(s, late, expires)
    PROVE  /\ seg.cmd = "ack" => seg.sn \in acklist[s]
           /\ seg.una = rcv_nxt[s]
  <1>1. CASE seg \in Acks(s)
    BY <1>1 DEF Acks
  <1>2. CASE seg \in Probes(s, expires)
    BY <1>2 DEF Probes
  <1>3. CASE seg \in Pushes(s, Buffered(s), late)
    BY <1>3 DEF Pushes, PushOf
  <1> QED
    BY <1>1, <1>2, <1>3 DEF Output

LEMMA FlushAnswered ==
    ASSUME TypeOK, WindowInv, DeliveryInv, HalfTurn, AnsweredInv, NEW s \in End, NEW late,
           NEW expires, NEW kept, KcpFlush(s, late, expires, kept)
    PROVE  AnsweredInv'
  <1>1. PICK p \in End : p = Peer(s) /\ p # s /\ s = Peer(p)
    BY Ends
  <1>2. /\ net'[p] = net[p] \cup kept /\ net'[s] = net[s]
        /\ kept \subseteq Output(s, late, expires)
        /\ acklist'[s] = {} /\ acklist'[p] = acklist[p]
        /\ offered'[s] = Len(given[s]) /\ offered'[p] = offered[p]
        /\ promised'[s] = Got(s) /\ promised'[p] = promised[p]
        /\ UNCHANGED <<rcv_buf, rcv_queue, given, delivered>>
    BY <1>1 DEF KcpFlush, Transmit, TypeOK
  <1>3. \A t \in End : TakenAt(t)' = TakenAt(t)
    BY <1>2 DEF TakenAt
  <1>4. /\ EnteredAt(s)' \in Nat /\ EnteredAt(s) <= EnteredAt(s)'
        /\ EnteredAt(s)' <= Total(given[s]) /\ EnteredAt(p)' = EnteredAt(p)
        /\ snd_buf'[p] = snd_buf[p]
        /\ \A i \in 1..EnteredAt(s) : Awaits(snd_buf[s], i) => Awaits(snd_buf'[s], i)
        /\ \A i \in 1..EnteredAt(s)' : i > EnteredAt(s) => Awaits(snd_buf'[s], i)
    BY <1>1, FlushAwaits
  (* What s waits for. *)
  <1>5. PICK total \in Nat, msgs \in Seq(Msg), e \in Nat, e2 \in Nat, t \in Nat :
           /\ 2 * total < Wrap /\ total = Total(msgs) /\ e \in 0..total /\ t \in 0..total
           /\ msgs = given[s] /\ MsgsInOrder(msgs) /\ e = EnteredAt(s) /\ t = TakenAt(p)
           /\ e2 = EnteredAt(s)' /\ e <= e2 /\ e2 <= total
           /\ \A i \in 1..total : Holds(t, rcv_buf[p], i) => i <= e
    <2>1. \E total \in Nat :
             /\ total = Total(given[s]) /\ 2 * total < Wrap
             /\ given[s] \in Seq(Msg) /\ MsgsInOrder(given[s])
             /\ EnteredAt(s) \in 0..total /\ TakenAt(p) \in 0..total
             /\ \A i \in 1..total : Holds(TakenAt(p), rcv_buf[p], i) => i <= EnteredAt(s)
      BY <1>1, Direction
    <2> QED
      BY <1>4, <2>1
  <1>6. /\ \A i \in 1..e : Awaits(snd_buf[s], i) => Awaits(snd_buf'[s], i)
        /\ \A i \in 1..e2 : i > e => Awaits(snd_buf'[s], i)
    BY <1>4, <1>5
  <1>7. /\ Reported(e, snd_buf[s], net[s], t, rcv_buf[p], acklist[p])
        /\ Believed(msgs, e, snd_buf[s], net[s], promised[p])
    BY <1>1, <1>5 DEF AnsweredInv, Answered
  <1>8. Reported(e2, snd_buf'[s], net[s], t, rcv_buf[p], acklist[p])
    BY <1>5, <1>6, <1>7, ReportedNumbers
  <1>9. ASSUME NEW i \in 1..e2, i > e, NEW seg \in net[s], Reports(seg, i) PROVE FALSE
    <2>1. i \in 1..total
      BY <1>5
    <2>2. /\ seg.cmd = "ack" => HeldPlace(e, t, rcv_buf[p], seg.sn)
          /\ \E k \in 0..t : seg.una = Plus(First, k)
      BY <1>7 DEF Reported
    <2>3. Holds(t, rcv_buf[p], i)
      BY <1>5, <1>9, <2>1, <2>2, ReportsHeld
    <2> QED
      BY <1>5, <1>9, <2>1, <2>3
  <1>10. Believed(msgs, e2, snd_buf'[s], net[s], promised[p])
    BY <1>5, <1>6, <1>7, <1>9, BelievedNumbers
  <1>11. Answered(s)'
    <2>1. offered'[s] = Len(msgs) /\ Len(msgs) \in Nat /\ e2 <= UpTo(msgs, Len(msgs))
      BY <1>2, <1>5, TotalUpTo, LenProperties
    <2>2. Len(msgs) <= Len(msgs)
      BY <2>1
    <2> QED
      BY <1>1, <1>2, <1>3, <1>5, <1>8, <1>10, <2>1, <2>2 DEF Answered
  (* What p may be told. *)
  <1>12. PICK all \in Nat, of \in Seq(Msg), n \in Nat, u \in Nat :
           /\ 2 * all < Wrap /\ n \in 0..all /\ u \in 0..all
           /\ of = given[p] /\ n = EnteredAt(p) /\ u = TakenAt(s)
           /\ rcv_nxt[s] = Plus(First, u)
    <2>1. \E all \in Nat :
             /\ 2 * all < Wrap /\ given[p] \in Seq(Msg)
             /\ EnteredAt(p) \in 0..all /\ TakenAt(s) \in 0..all
             /\ rcv_nxt[s] = Plus(First, TakenAt(s))
      BY <1>1, Direction
    <2> QED
      BY <2>1
  <1>13. Reported(n, snd_buf[p], net'[p], u, rcv_buf[s], {})
    <2>1. Reported(n, snd_buf[p], net[p], u, rcv_buf[s], acklist[s])
      BY <1>1, <1>12 DEF AnsweredInv, Answered
    <2>2. ASSUME NEW seg \in kept
          PROVE  (seg.cmd = "ack" => seg.sn \in acklist[s]) /\ seg.una = Plus(First, u)
      <3>1. seg \in Output(s, late, expires)
        BY <1>2
      <3>2. (seg.cmd = "ack" => seg.sn \in acklist[s]) /\ seg.una = rcv_nxt[s]
        BY <3>1, OutputReports
      <3> QED
        BY <1>12, <3>2
    <2>3. Reported(n, snd_buf[p], net[p] \cup kept, u, rcv_buf[s], {})
      BY <2>1, <2>2, ReportedAcks
    <2> QED
      BY <1>2, <2>3
  <1>14. Believed(of, n, snd_buf[p], net'[p], Got(s))
    <2>1. ASSUME NEW m \in 1..Len(of), UpTo(of, m) <= n,
                 \A i \in 1..UpTo(of, m) : Known(snd_buf[p], net'[p], i)
          PROVE  m <= Got(s)
      <3>1. m \in 0..Len(of)
        BY LenProperties
      <3>2. UpTo(of, m) \in Nat
        BY <3>1, UpToType
      <3>3. ASSUME NEW i \in 1..UpTo(of, m) PROVE Holds(TakenAt(s), rcv_buf[s], i)
        <4>1. i \in 1..n
          BY <2>1, <3>2
        <4>2. Known(snd_buf[p], net'[p], i)
          BY <2>1
        <4> QED
          BY <1>12, <1>13, <4>1, <4>2, KnownHeld
      <3> QED
        BY <1>1, <1>12, <3>1, <3>3, GotMessages
    <2> QED
      BY <2>1 DEF Believed
  <1>15. Answered(p)'
    BY <1>1, <1>2, <1>3, <1>4, <1>12, <1>13, <1>14 DEF AnsweredInv, Answered
  <1>16. \A x \in End : x = s \/ x = p
    BY <1>1 DEF End, Peer
  <1> QED
    BY <1>11, <1>15, <1>16 DEF AnsweredInv

LEMMA NextAnswered ==
    ASSUME HalfTurn, TypeOK, WindowInv, DeliveryInv, AnsweredInv, [Next]_vars
    PROVE  AnsweredInv'
  <1>1. CASE Next
    <2>1. PICK s \in End :
             \/ \E count \in Counts : KcpSend(s, count)
             \/ KcpRecv(s)
             \/ \E seg \in net[s], keep \in BOOLEAN : Arrive(s, seg, keep)
             \/ Flush(s)
      BY <1>1 DEF Next
    <2>2. CASE \E count \in Counts : KcpSend(s, count)
      BY <2>2, SendAnswered
    <2>3. CASE KcpRecv(s)
      BY <2>3, RecvAnswered
    <2>4. CASE \E seg \in net[s], keep \in BOOLEAN : Arrive(s, seg, keep)
      BY <2>4, ArriveAnswered
    <2>5. CASE Flush(s)
      BY <2>5, FlushAnswered DEF Flush
    <2> QED
      BY <2>1, <2>2, <2>3, <2>4, <2>5
  <1>2. CASE UNCHANGED vars
    <2>1. UNCHANGED <<snd_queue, snd_buf, rcv_buf, rcv_queue, acklist, net, given, delivered,
                      offered, promised>>
      BY <1>2 DEF vars, sendVars, recvVars, historyVars
    <2>2. \A s \in End : EnteredAt(s)' = EnteredAt(s) /\ TakenAt(s)' = TakenAt(s)
      BY <2>1 DEF EnteredAt, TakenAt
    <2>3. ASSUME NEW s \in End PROVE Answered(s)'
      <3>1. PICK p \in End : p = Peer(s)
        BY Ends
      <3> QED
        BY <2>1, <2>2, <3>1 DEF AnsweredInv, Answered
    <2> QED
      BY <2>3 DEF AnsweredInv
  <1> QED
    BY <1>1, <1>2

(* A counter of messages that is right about which fragments are where: it *)
(* covers the messages all of whose fragments are in places.               *)
Covers(c, msgs, places) ==
    /\ c \in 0..Len(msgs)
    /\ \A m \in 0..Len(msgs) : m <= c <=> \A i \in 1..UpTo(msgs, m) : i \in places

HeldAt(s) == {i \in 1..Total(given[Peer(s)]) : Holds(TakenAt(s), rcv_buf[s], i)}
LeftAt(s) == {i \in 1..Total(given[s]) : i <= EnteredAt(s) /\ ~Awaits(snd_buf[s], i)}

CountersInv ==
    \A s \in End :
        /\ Covers(Got(s), given[Peer(s)], HeldAt(s))
        /\ HeldAt(s) \subseteq 1..EnteredAt(Peer(s))
        /\ Covers(Acked(s), given[s], LeftAt(s))
        /\ Got(s) <= offered[Peer(s)]
        /\ Acked(s) <= promised[Peer(s)]

LEMMA UpToTotal ==
    ASSUME NEW msgs \in Seq(Msg), MsgsInOrder(msgs), NEW m \in 0..Len(msgs)
    PROVE  UpTo(msgs, m) \in Nat /\ UpTo(msgs, m) <= Total(msgs)
  <1>1. Len(msgs) \in 0..Len(msgs) /\ m <= Len(msgs)
    BY LenProperties
  <1> QED
    BY <1>1, UpToType, TotalUpTo DEF MsgsInOrder

LEMMA CoversGrows ==
    ASSUME NEW msgs \in Seq(Msg), MsgsInOrder(msgs), NEW c, NEW d, NEW places, NEW more,
           Covers(c, msgs, places), Covers(d, msgs, more),
           \A i \in 1..Total(msgs) : i \in places => i \in more
    PROVE  c <= d
  <1>1. c \in 0..Len(msgs) /\ c <= c
    BY LenProperties DEF Covers
  <1>2. PICK u \in Nat, total \in Nat : u = UpTo(msgs, c) /\ total = Total(msgs) /\ u <= total
    BY <1>1, UpToTotal, TotalUpTo
  <1>3. ASSUME NEW i \in 1..u PROVE i \in more
    <2>1. i \in places
      BY <1>1, <1>2 DEF Covers
    <2>2. i \in 1..total
      BY <1>2
    <2> QED
      BY <1>2, <2>1, <2>2
  <1> QED
    BY <1>1, <1>2, <1>3 DEF Covers

LEMMA CoversSame ==
    ASSUME NEW msgs \in Seq(Msg), MsgsInOrder(msgs), NEW c, NEW d, NEW places, NEW more,
           Covers(c, msgs, places), Covers(d, msgs, more),
           \A i \in 1..Total(msgs) : i \in places <=> i \in more
    PROVE  c = d
  <1>1. c <= d /\ d <= c
    BY CoversGrows
  <1>2. c \in Int /\ d \in Int
    BY LenProperties DEF Covers
  <1> QED
    BY <1>1, <1>2

(* One more message, of which a fragment is missing.                       *)
LEMMA CoversMore ==
    ASSUME NEW msgs \in Seq(Msg), MsgsInOrder(msgs), NEW new \in Seq(Msg),
           Prolongs(new, msgs), Len(new) = Len(msgs) + 1,
           NEW c, NEW d, NEW places, NEW more,
           Covers(c, msgs, places), Covers(d, new, more),
           \A i \in 1..Total(msgs) : i \in places <=> i \in more,
           Total(new) > 0, Total(new) \notin more
    PROVE  c = d
  <1>1. PICK k \in Nat, all \in Nat : k = Len(msgs) /\ all = Total(new)
                                       /\ all = UpTo(new, k + 1)
    BY LenProperties, TotalUpTo
  <1>2. c \in 0..k /\ d \in 0..(k + 1)
    BY <1>1 DEF Covers
  <1>3. d # k + 1
    <2>1. SUFFICES ASSUME d = k + 1 PROVE FALSE
      OBVIOUS
    <2>2. \A i \in 1..all : i \in more
      BY <1>1, <1>2, <2>1 DEF Covers
    <2>3. all \in 1..all
      BY <1>1
    <2> QED
      BY <1>1, <2>2, <2>3
  <1>4. ASSUME NEW m \in 0..k
        PROVE  (\A i \in 1..UpTo(msgs, m) : i \in places)
                 <=> (\A i \in 1..UpTo(new, m) : i \in more)
    <2>1. PICK u \in Nat, total \in Nat :
             u = UpTo(msgs, m) /\ u = UpTo(new, m) /\ total = Total(msgs) /\ u <= total
      BY <1>1, UpToTotal, TotalUpTo, ProlongsUpTo
    <2>2. \A i \in 1..u : i \in 1..total
      BY <2>1
    <2> QED
      BY <2>1, <2>2
  <1>5. \A m \in 0..k : m <= c <=> m <= d
    <2>1. ASSUME NEW m \in 0..k PROVE m <= c <=> m <= d
      <3>1. m \in 0..(k + 1)
        BY <1>1
      <3>2. m <= c <=> \A i \in 1..UpTo(msgs, m) : i \in places
        BY <1>1 DEF Covers
      <3>3. m <= d <=> \A i \in 1..UpTo(new, m) : i \in more
        BY <1>1, <3>1 DEF Covers
      <3> QED
        BY <1>4, <3>2, <3>3
    <2> QED
      BY <2>1
  <1>6. d \in 0..k
    <2>1. d \in Int /\ 0 <= d /\ d <= k + 1 /\ d # k + 1
      BY <1>2, <1>3
    <2> QED
      BY <2>1
  <1>7. c \in 0..k /\ c <= c /\ d <= d
    BY <1>2
  <1>8. c <= d /\ d <= c
    BY <1>5, <1>6, <1>7
  <1> QED
    BY <1>6, <1>7, <1>8

(* The counters are right.                                                 *)
LEMMA CountersRight ==
    ASSUME HalfTurn, TypeOK, WindowInv, DeliveryInv, AnsweredInv
    PROVE  CountersInv
  <1>1. SUFFICES ASSUME NEW s \in End
                 PROVE  /\ Covers(Got(s), given[Peer(s)], HeldAt(s))
                        /\ HeldAt(s) \subseteq 1..EnteredAt(Peer(s))
                        /\ Covers(Acked(s), given[s], LeftAt(s))
                        /\ Got(s) <= offered[Peer(s)]
                        /\ Acked(s) <= promised[Peer(s)]
    BY DEF CountersInv
  <1>2. PICK p \in End : p = Peer(s) /\ s = Peer(p)
    BY Ends
  <1>3. PICK msgs \in Seq(Msg), total \in Nat, e \in Nat :
           /\ msgs = given[p] /\ MsgsInOrder(msgs) /\ total = Total(msgs) /\ e = EnteredAt(p)
           /\ \A i \in 1..total : Holds(TakenAt(s), rcv_buf[s], i) => i <= e
    <2>1. \E total \in Nat :
             /\ total = Total(given[p])
             /\ given[p] \in Seq(Msg) /\ MsgsInOrder(given[p]) /\ EnteredAt(p) \in 0..total
             /\ \A i \in 1..total : Holds(TakenAt(s), rcv_buf[s], i) => i <= EnteredAt(p)
      BY <1>2, Direction
    <2> QED
      BY <2>1
  <1>4. HeldAt(s) = {i \in 1..total : Holds(TakenAt(s), rcv_buf[s], i)}
    BY <1>2, <1>3 DEF HeldAt
  <1>5. Covers(Got(s), msgs, HeldAt(s))
    <2>1. PICK g \in 0..Len(msgs) :
             /\ g = Got(s)
             /\ \A m \in 0..Len(msgs) :
                   m <= g <=> \A i \in 1..UpTo(msgs, m) : Holds(TakenAt(s), rcv_buf[s], i)
      BY <1>2, <1>3, GotMessages
    <2>2. ASSUME NEW m \in 0..Len(msgs)
          PROVE  m <= g <=> \A i \in 1..UpTo(msgs, m) : i \in HeldAt(s)
      <3>1. PICK u \in Nat : u = UpTo(msgs, m) /\ u <= total
        BY <1>3, UpToTotal
      <3>2. \A i \in 1..u : i \in 1..total
        BY <3>1
      <3> QED
        BY <1>4, <2>1, <3>1, <3>2
    <2> QED
      BY <2>1, <2>2 DEF Covers
  <1>6. HeldAt(s) \subseteq 1..e
    BY <1>3, <1>4
  <1>7. Got(s) <= offered[p]
    <2>1. PICK g \in 0..Len(msgs), off \in 0..Len(msgs) :
             g = Got(s) /\ off = offered[p] /\ e <= UpTo(msgs, off)
      <3>1. Got(s) \in 0..Len(msgs)
        BY <1>5 DEF Covers
      <3>2. offered[p] \in Nat /\ offered[p] <= Len(msgs) /\ e <= UpTo(msgs, offered[p])
        BY <1>3, TypeAt DEF AnsweredInv, Answered
      <3>3. offered[p] \in 0..Len(msgs)
        BY <3>2, LenProperties
      <3> QED
        BY <3>1, <3>2, <3>3
    <2>2. PICK u \in Nat, v \in Nat : u = UpTo(msgs, g) /\ v = UpTo(msgs, off) /\ e <= v
      BY <2>1, UpToType
    <2>3. g <= g
      OBVIOUS
    <2>4. \A i \in 1..u : i \in 1..e
      BY <1>5, <1>6, <2>1, <2>2, <2>3 DEF Covers
    <2>5. u <= e
      <3>1. CASE u = 0
        BY <3>1
      <3>2. CASE u # 0
        <4>1. u \in 1..u
          BY <3>2
        <4> QED
          BY <2>4, <4>1
      <3> QED
        BY <3>1, <3>2
    <2>6. u <= v
      BY <2>2, <2>5
    <2> QED
      BY <1>3, <2>1, <2>2, <2>6, UpToStrict
  <1>8. PICK mine \in Seq(Msg), all \in Nat, n \in Nat :
           mine = given[s] /\ MsgsInOrder(mine) /\ all = Total(mine) /\ n = EnteredAt(s)
             /\ n <= all
    BY EnteredBound, TotalUpTo
  <1>9. LeftAt(s) = {i \in 1..all : i <= n /\ ~Awaits(snd_buf[s], i)}
    BY <1>8 DEF LeftAt
  <1>10. PICK a \in 0..Len(mine) :
            /\ a = Acked(s)
            /\ \A m \in 0..Len(mine) :
                  m <= a <=> /\ UpTo(mine, m) <= n
                             /\ \A i \in 1..UpTo(mine, m) : ~Awaits(snd_buf[s], i)
    BY <1>8, AckedMessages
  <1>11. Covers(a, mine, LeftAt(s))
    <2>1. ASSUME NEW m \in 0..Len(mine)
          PROVE  m <= a <=> \A i \in 1..UpTo(mine, m) : i \in LeftAt(s)
      <3>1. PICK u \in Nat : u = UpTo(mine, m) /\ u <= all
        BY <1>8, UpToTotal
      <3>2. m <= a <=> u <= n /\ \A i \in 1..u : ~Awaits(snd_buf[s], i)
        BY <1>10, <3>1
      <3>3. \A i \in 1..u : i \in 1..all
        BY <3>1
      <3>4. u <= n <=> \A i \in 1..u : i <= n
        <4>1. CASE u = 0
          BY <4>1
        <4>2. CASE u # 0
          <5>1. u \in 1..u
            BY <4>2
          <5> QED
            BY <5>1
        <4> QED
          BY <4>1, <4>2
      <3>5. (\A i \in 1..u : i \in LeftAt(s))
              <=> (\A i \in 1..u : i <= n) /\ (\A i \in 1..u : ~Awaits(snd_buf[s], i))
        BY <1>9, <3>3
      <3> QED
        BY <3>1, <3>2, <3>4, <3>5
    <2> QED
      BY <2>1 DEF Covers
  <1>12. Acked(s) <= promised[p]
    <2>1. promised[p] \in Nat
      BY TypeAt
    <2>2. CASE a = 0
      BY <1>10, <2>1, <2>2
    <2>3. CASE a # 0
      <3>1. a \in 1..Len(mine) /\ a <= a
        BY <2>3
      <3>2. UpTo(mine, a) <= n /\ \A i \in 1..UpTo(mine, a) : ~Awaits(snd_buf[s], i)
        BY <1>10, <3>1
      <3>3. Believed(mine, n, snd_buf[s], net[s], promised[p])
        BY <1>2, <1>8 DEF AnsweredInv, Answered
      <3>4. \A i \in 1..UpTo(mine, a) : Known(snd_buf[s], net[s], i)
        BY <3>2 DEF Known
      <3> QED
        BY <1>10, <3>1, <3>2, <3>3, <3>4 DEF Believed
    <2> QED
      BY <2>2, <2>3
  <1> QED
    BY <1>2, <1>3, <1>5, <1>6, <1>7, <1>8, <1>10, <1>11, <1>12

(* What the counters do in a step.                                         *)
LEMMA SendCounters ==
    ASSUME TypeOK, DeliveryInv, HalfTurn, CountersInv, CountersInv',
           NEW s \in End, NEW count \in Counts, KcpSend(s, count)
    PROVE  \A x \in End : Got(x)' = Got(x) /\ Acked(x)' = Acked(x)
  <1>1. PICK p \in End : p = Peer(s) /\ p # s /\ s = Peer(p)
    BY Ends
  <1>2. PICK msgs \in Seq(Msg), total \in Nat, e \in Nat :
           msgs = given[s] /\ MsgsInOrder(msgs) /\ total = Total(msgs) /\ e = EnteredAt(s)
             /\ e <= total
    BY EnteredBound, TotalUpTo
  <1>3. PICK new \in Seq(Msg) :
           /\ given'[s] = new /\ given'[p] = given[p]
           /\ Len(new) = Len(msgs) + 1 /\ Total(new) > total /\ Prolongs(new, msgs)
           /\ EnteredAt(s)' = e /\ EnteredAt(p)' = EnteredAt(p)
           /\ TakenAt(s)' = TakenAt(s) /\ TakenAt(p)' = TakenAt(p)
           /\ UNCHANGED <<snd_buf, rcv_buf>>
    BY <1>1, <1>2, SendHolds
  <1>4. PICK all \in Nat : all = Total(new) /\ all > total
    BY <1>2, <1>3, TotalUpTo
  <1>5. /\ Covers(Got(s), given[p], HeldAt(s)) /\ Covers(Got(s)', given'[p], HeldAt(s)')
        /\ Covers(Got(p), given[s], HeldAt(p)) /\ Covers(Got(p)', given'[s], HeldAt(p)')
        /\ HeldAt(p)' \subseteq 1..EnteredAt(s)'
        /\ Covers(Acked(s), given[s], LeftAt(s)) /\ Covers(Acked(s)', given'[s], LeftAt(s)')
        /\ Covers(Acked(p), given[p], LeftAt(p)) /\ Covers(Acked(p)', given'[p], LeftAt(p)')
    BY <1>1 DEF CountersInv
  <1>6. Got(s)' = Got(s)
    <2>1. HeldAt(s)' = HeldAt(s)
      BY <1>1, <1>3 DEF HeldAt
    <2> QED
      BY <1>3, <1>5, <2>1, EnteredBound, CoversSame
  <1>7. Acked(p)' = Acked(p)
    <2>1. LeftAt(p)' = LeftAt(p)
      BY <1>1, <1>3 DEF LeftAt
    <2> QED
      BY <1>3, <1>5, <2>1, EnteredBound, CoversSame
  <1>8. Got(p)' = Got(p)
    <2>1. HeldAt(p) = {i \in 1..total : Holds(TakenAt(p), rcv_buf[p], i)}
      BY <1>1, <1>2 DEF HeldAt
    <2>2. HeldAt(p)' = {i \in 1..all : Holds(TakenAt(p), rcv_buf[p], i)}
      BY <1>1, <1>3, <1>4 DEF HeldAt
    <2>3. \A i \in 1..total : i \in HeldAt(p) <=> i \in HeldAt(p)'
      <3>1. \A i \in 1..total : i \in 1..all
        BY <1>4
      <3> QED
        BY <2>1, <2>2, <3>1
    <2>4. all \notin HeldAt(p)' /\ all > 0
      <3>1. all \notin 1..e /\ all > 0
        BY <1>2, <1>4
      <3> QED
        BY <1>3, <1>5, <3>1
    <2> QED
      BY <1>2, <1>3, <1>4, <1>5, <2>3, <2>4, CoversMore
  <1>9. Acked(s)' = Acked(s)
    <2>1. LeftAt(s) = {i \in 1..total : i <= e /\ ~Awaits(snd_buf[s], i)}
      BY <1>2 DEF LeftAt
    <2>2. LeftAt(s)' = {i \in 1..all : i <= e /\ ~Awaits(snd_buf[s], i)}
      BY <1>3, <1>4 DEF LeftAt
    <2>3. \A i \in 1..total : i \in LeftAt(s) <=> i \in LeftAt(s)'
      <3>1. \A i \in 1..total : i \in 1..all
        BY <1>4
      <3> QED
        BY <2>1, <2>2, <3>1
    <2>4. all \notin LeftAt(s)' /\ all > 0
      <3>1. ~(all <= e) /\ all > 0
        BY <1>2, <1>4
      <3> QED
        BY <2>2, <3>1
    <2> QED
      BY <1>2, <1>3, <1>4, <1>5, <2>3, <2>4, CoversMore
  <1>10. \A x \in End : x = s \/ x = p
    BY <1>1 DEF End, Peer
  <1> QED
    BY <1>6, <1>7, <1>8, <1>9, <1>10

LEMMA RecvCounters ==
    ASSUME TypeOK, WindowInv, DeliveryInv, HalfTurn, CountersInv, CountersInv',
           NEW s \in End, KcpRecv(s)
    PROVE  \A x \in End : Got(x)' = Got(x) /\ Acked(x)' = Acked(x)
  <1>1. PICK p \in End : p = Peer(s) /\ p # s /\ s = Peer(p)
    BY Ends
  <1>2. UNCHANGED <<snd_queue, snd_buf, given>>
    BY DEF KcpRecv, sendVars
  <1>3. \A x \in End : EnteredAt(x)' = EnteredAt(x)
    BY <1>2 DEF EnteredAt
  <1>4. /\ \A i \in 1..Total(given[p]) :
              Holds(TakenAt(s), rcv_buf[s], i) <=> Holds(TakenAt(s)', rcv_buf'[s], i)
        /\ TakenAt(p)' = TakenAt(p) /\ rcv_buf'[p] = rcv_buf[p]
    BY <1>1, RecvHolds
  <1>5. HeldAt(s)' = HeldAt(s) /\ HeldAt(p)' = HeldAt(p)
    BY <1>1, <1>2, <1>4 DEF HeldAt
  <1>6. LeftAt(s)' = LeftAt(s) /\ LeftAt(p)' = LeftAt(p)
    BY <1>2, <1>3 DEF LeftAt
  <1>7. \A x \in End : x = s \/ x = p
    BY <1>1 DEF End, Peer
  <1>8. ASSUME NEW x \in End PROVE Got(x)' = Got(x) /\ Acked(x)' = Acked(x)
    <2>1. PICK y \in End : y = Peer(x)
      BY Ends
    <2>2. HeldAt(x)' = HeldAt(x) /\ LeftAt(x)' = LeftAt(x)
      BY <1>5, <1>6, <1>7
    <2>3. /\ Covers(Got(x), given[y], HeldAt(x)) /\ Covers(Got(x)', given[y], HeldAt(x))
          /\ Covers(Acked(x), given[x], LeftAt(x)) /\ Covers(Acked(x)', given[x], LeftAt(x))
      BY <1>2, <2>1, <2>2 DEF CountersInv
    <2> QED
      BY <2>3, EnteredBound, CoversSame
  <1> QED
    BY <1>8

LEMMA ArriveCounters ==
    ASSUME TypeOK, WindowInv, DeliveryInv, HalfTurn, CountersInv, CountersInv',
           NEW s \in End, NEW seg \in net[s], NEW keep \in BOOLEAN, Arrive(s, seg, keep),
           NEW p \in End, p = Peer(s)
    PROVE  /\ Got(p)' = Got(p) /\ Acked(p)' = Acked(p)
           /\ Got(s) <= Got(s)' /\ Acked(s) <= Acked(s)'
  <1>1. p # s /\ s = Peer(p)
    BY Ends
  <1>2. seg \in Segment /\ KcpInput(s, seg)
    BY TypeAt DEF Arrive
  <1>3. Acknowledge(s, seg) /\ UNCHANGED given
    BY <1>2 DEF KcpInput, historyVars
  <1>4. UNCHANGED snd_queue /\ snd_buf'[p] = snd_buf[p]
    BY <1>1, <1>3 DEF Acknowledge, TypeOK
  <1>5. \A x \in End : EnteredAt(x)' = EnteredAt(x)
    BY <1>3, <1>4 DEF EnteredAt
  <1>6. /\ \A i \in 1..Total(given[p]) :
              Holds(TakenAt(s), rcv_buf[s], i) => Holds(TakenAt(s)', rcv_buf'[s], i)
        /\ TakenAt(p)' = TakenAt(p) /\ rcv_buf'[p] = rcv_buf[p]
    BY <1>2, ArriveHolds
  <1>7. HeldAt(p)' = HeldAt(p) /\ HeldAt(s) \subseteq HeldAt(s)'
    BY <1>1, <1>3, <1>6 DEF HeldAt
  <1>8. LeftAt(p)' = LeftAt(p) /\ LeftAt(s) \subseteq LeftAt(s)'
    <2>1. /\ snd_buf[s] \in Seq(Seg) /\ snd_buf'[s] \in Seq(Seg)
          /\ Keeps(snd_buf'[s], snd_buf[s])
      BY <1>2, <1>3, TypeAt, AcknowledgeStep
    <2>2. \A i : Awaits(snd_buf'[s], i) => Awaits(snd_buf[s], i)
      BY <2>1, KeepsAwaits
    <2> QED
      BY <1>3, <1>4, <1>5, <2>2 DEF LeftAt
  <1>9. /\ Covers(Got(s), given[p], HeldAt(s)) /\ Covers(Got(s)', given[p], HeldAt(s)')
        /\ Covers(Got(p), given[s], HeldAt(p)) /\ Covers(Got(p)', given[s], HeldAt(p))
        /\ Covers(Acked(s), given[s], LeftAt(s)) /\ Covers(Acked(s)', given[s], LeftAt(s)')
        /\ Covers(Acked(p), given[p], LeftAt(p)) /\ Covers(Acked(p)', given[p], LeftAt(p))
    BY <1>1, <1>3, <1>7, <1>8 DEF CountersInv
  <1>10. Got(p)' = Got(p) /\ Acked(p)' = Acked(p)
    BY <1>9, EnteredBound, CoversSame
  <1>11. Got(s) <= Got(s)'
    BY <1>7, <1>9, EnteredBound, CoversGrows
  <1>12. Acked(s) <= Acked(s)'
    BY <1>8, <1>9, EnteredBound, CoversGrows
  <1> QED
    BY <1>10, <1>11, <1>12

LEMMA FlushCounters ==
    ASSUME TypeOK, WindowInv, DeliveryInv, HalfTurn, CountersInv, CountersInv',
           NEW s \in End, NEW late, NEW expires, NEW kept, KcpFlush(s, late, expires, kept)
    PROVE  \A x \in End : Got(x)' = Got(x) /\ Acked(x)' = Acked(x)
  <1>1. PICK p \in End : p = Peer(s) /\ p # s /\ s = Peer(p)
    BY Ends
  <1>2. UNCHANGED <<rcv_buf, rcv_queue, given, delivered>>
    BY DEF KcpFlush
  <1>3. \A x \in End : TakenAt(x)' = TakenAt(x)
    BY <1>2 DEF TakenAt
  <1>4. HeldAt(s)' = HeldAt(s) /\ HeldAt(p)' = HeldAt(p)
    BY <1>2, <1>3 DEF HeldAt
  <1>5. /\ EnteredAt(s)' \in Nat /\ EnteredAt(s) <= EnteredAt(s)'
        /\ EnteredAt(p)' = EnteredAt(p) /\ snd_buf'[p] = snd_buf[p]
        /\ \A i \in 1..EnteredAt(s) : Awaits(snd_buf[s], i) <=> Awaits(snd_buf'[s], i)
        /\ \A i \in 1..EnteredAt(s)' : i > EnteredAt(s) => Awaits(snd_buf'[s], i)
    BY <1>1, FlushAwaits
  <1>6. LeftAt(p)' = LeftAt(p)
    BY <1>2, <1>5 DEF LeftAt
  <1>7. LeftAt(s)' = LeftAt(s)
    <2>1. PICK e \in Nat, e2 \in Nat, total \in Nat :
             e = EnteredAt(s) /\ e2 = EnteredAt(s)' /\ e <= e2 /\ total = Total(given[s])
      BY <1>5, EnteredBound, TotalUpTo
    <2>2. LeftAt(s) = {i \in 1..total : i <= e /\ ~Awaits(snd_buf[s], i)}
      BY <2>1 DEF LeftAt
    <2>3. LeftAt(s)' = {i \in 1..total : i <= e2 /\ ~Awaits(snd_buf'[s], i)}
      BY <1>2, <2>1 DEF LeftAt
    <2>4. ASSUME NEW i \in 1..total
          PROVE  (i <= e /\ ~Awaits(snd_buf[s], i)) <=> (i <= e2 /\ ~Awaits(snd_buf'[s], i))
      <3>1. CASE i <= e
        <4>1. i \in 1..e /\ i <= e2
          BY <2>1, <3>1
        <4> QED
          BY <1>5, <2>1, <4>1
      <3>2. CASE ~(i <= e) /\ i <= e2
        <4>1. i \in 1..e2 /\ i > e
          BY <3>2
        <4> QED
          BY <1>5, <2>1, <3>2, <4>1
      <3>3. CASE ~(i <= e) /\ ~(i <= e2)
        BY <3>3
      <3> QED
        BY <3>1, <3>2, <3>3
    <2> QED
      BY <2>2, <2>3, <2>4
  <1>8. \A x \in End : x = s \/ x = p
    BY <1>1 DEF End, Peer
  <1>9. ASSUME NEW x \in End PROVE Got(x)' = Got(x) /\ Acked(x)' = Acked(x)
    <2>1. PICK y \in End : y = Peer(x)
      BY Ends
    <2>2. HeldAt(x)' = HeldAt(x) /\ LeftAt(x)' = LeftAt(x)
      BY <1>4, <1>6, <1>7, <1>8
    <2>3. /\ Covers(Got(x), given[y], HeldAt(x)) /\ Covers(Got(x)', given[y], HeldAt(x))
          /\ Covers(Acked(x), given[x], LeftAt(x)) /\ Covers(Acked(x)', given[x], LeftAt(x))
      BY <1>2, <2>1, <2>2 DEF CountersInv
    <2> QED
      BY <2>3, EnteredBound, CoversSame
  <1> QED
    BY <1>9

(* The steps of the link.                                                  *)
LEMMA OneMorePush ==
    ASSUME NEW msgs \in Seq(Msg), NEW new \in Seq(Msg), Len(new) = Len(msgs) + 1
    PROVE  [m \in DOMAIN new |-> "push"] = Append([m \in DOMAIN msgs |-> "push"], "push")
  <1>1. PICK k \in Nat : k = Len(msgs)
    BY LenProperties
  <1>2. DOMAIN msgs = 1..k /\ DOMAIN new = 1..(k + 1)
    BY <1>1, LenProperties
  <1>3. PICK push : push = {"push"}
    OBVIOUS
  <1>4. PICK old \in [1..k -> push] : old = [m \in 1..k |-> "push"]
    BY <1>3
  <1>5. PICK more \in [1..(k + 1) -> push] : more = [m \in 1..(k + 1) |-> "push"]
    BY <1>3
  <1>6. old \in Seq(push) /\ Len(old) = k /\ "push" \in push
    BY <1>3
  <1>7. Append(old, "push") \in Seq(push) /\ Len(Append(old, "push")) = k + 1
    BY <1>6, AppendProperties
  <1>8. PICK next \in [1..(k + 1) -> push] : next = Append(old, "push")
    BY <1>7, LenProperties
  <1>9. \A m \in 1..(k + 1) : next[m] = more[m]
    BY <1>3
  <1>10. next = more
    BY <1>9
  <1> QED
    BY <1>2, <1>4, <1>5, <1>8, <1>10

LEMMA SendLinks ==
    ASSUME TypeOK, DeliveryInv, HalfTurn, CountersInv, CountersInv',
           NEW s \in End, NEW count \in Counts, KcpSend(s, count)
    PROVE  Link!LinkNext
  <1>1. PICK p \in End : p = Peer(s) /\ p # s /\ s = Peer(p)
    BY Ends
  <1>2. PICK msgs \in Seq(Msg) : msgs = given[s]
    BY TypeAt
  <1>3. PICK new \in Seq(Msg) :
           /\ given'[s] = new /\ given'[p] = given[p] /\ Len(new) = Len(msgs) + 1
           /\ UNCHANGED <<delivered, offered, promised>>
    BY <1>1, <1>2, SendHolds
  <1>4. \A x \in End : Got(x)' = Got(x) /\ Acked(x)' = Acked(x)
    BY SendCounters
  <1>5. \A x \in End : x = s \/ x = p
    BY <1>1 DEF End, Peer
  <1>6. [x \in End |-> [m \in DOMAIN given'[x] |-> "push"]]
          = [[x \in End |-> [m \in DOMAIN given[x] |-> "push"]] EXCEPT ![s] = Append(@, "push")]
    <2>1. [m \in DOMAIN given'[s] |-> "push"]
            = Append([m \in DOMAIN given[s] |-> "push"], "push")
      BY <1>2, <1>3, OneMorePush
    <2> QED
      BY <1>1, <1>3, <1>5, <2>1
  <1>7. /\ [x \in End |-> Got(x)'] = [x \in End |-> Got(x)]
        /\ [x \in End |-> Acked(x)'] = [x \in End |-> Acked(x)]
        /\ [x \in End |-> Len(delivered'[x])] = [x \in End |-> Len(delivered[x])]
    BY <1>3, <1>4
  <1>8. Link!LinkSend(s, "push")
    BY <1>6 DEF Link!LinkSend
  <1>9. "push" \in Link!Cmd /\ s \in Link!End
    BY DEF Link!Cmd, Link!End, End
  <1> QED
    BY <1>3, <1>7, <1>8, <1>9 DEF Link!LinkNext

LEMMA RecvLinks ==
    ASSUME TypeOK, WindowInv, DeliveryInv, HalfTurn, CountersInv, CountersInv', RecvComplete,
           NEW s \in End, KcpRecv(s)
    PROVE  Link!LinkNext
  <1>1. PICK p \in End : p = Peer(s) /\ p # s
    BY Ends
  <1>2. UNCHANGED <<given, offered, promised>>
    BY DEF KcpRecv
  <1>3. Link!CanRecv(s)
    BY DEF KcpRecv, RecvComplete
  <1>4. \A x \in End : Got(x)' = Got(x) /\ Acked(x)' = Acked(x)
    BY RecvCounters
  <1>5. Len(delivered'[s]) = Len(delivered[s]) + 1 /\ Len(delivered'[p]) = Len(delivered[p])
    BY <1>1, RecvHolds
  <1>6. \A x \in End : x = s \/ x = p
    BY <1>1 DEF End, Peer
  <1>7. [x \in End |-> Len(delivered'[x])]
          = [[x \in End |-> Len(delivered[x])] EXCEPT ![s] = @ + 1]
    BY <1>1, <1>5, <1>6
  <1>8. /\ [x \in End |-> Got(x)'] = [x \in End |-> Got(x)]
        /\ [x \in End |-> Acked(x)'] = [x \in End |-> Acked(x)]
    BY <1>4
  <1>9. Link!LinkRecv(s)
    BY <1>7 DEF Link!LinkRecv
  <1>10. s \in Link!End
    BY DEF Link!End, End
  <1> QED
    BY <1>2, <1>3, <1>8, <1>9, <1>10 DEF Link!LinkNext

LEMMA ArriveLinks ==
    ASSUME TypeOK, WindowInv, DeliveryInv, HalfTurn, CountersInv, CountersInv',
           NEW s \in End, NEW seg \in net[s], NEW keep \in BOOLEAN, Arrive(s, seg, keep)
    PROVE  Link!LinkNext
  <1>1. PICK p \in End : p = Peer(s) /\ p # s
    BY Ends
  <1>2. UNCHANGED historyVars
    BY DEF Arrive, KcpInput
  <1>3. UNCHANGED <<given, delivered, offered, promised>>
    BY <1>2 DEF historyVars
  <1>4. /\ Got(p)' = Got(p) /\ Acked(p)' = Acked(p)
        /\ Got(s) <= Got(s)' /\ Acked(s) <= Acked(s)'
    BY <1>1, ArriveCounters
  <1>5. \A x \in End : x = s \/ x = p
    BY <1>1 DEF End, Peer
  <1>6. /\ [x \in End |-> Got(x)'] = [[x \in End |-> Got(x)] EXCEPT ![s] = Got(s)']
        /\ [x \in End |-> Acked(x)'] = [[x \in End |-> Acked(x)] EXCEPT ![s] = Acked(s)']
    BY <1>1, <1>4, <1>5
  <1>7. Got(s)' \in Got(s)..offered[p] /\ Acked(s)' \in Acked(s)..promised[p]
    <2>1. Got(s)' <= offered[p] /\ Acked(s)' <= promised[p]
      BY <1>1, <1>3 DEF CountersInv
    <2>2. Got(s) \in Int /\ Acked(s) \in Int /\ Got(s)' \in Int /\ Acked(s)' \in Int
      <3>1. /\ Got(s) \in 0..Len(given[p]) /\ Acked(s) \in 0..Len(given[s])
            /\ Got(s)' \in 0..Len(given'[p]) /\ Acked(s)' \in 0..Len(given'[s])
        BY <1>1 DEF CountersInv, Covers
      <3> QED
        BY <3>1
    <2>3. offered[p] \in Int /\ promised[p] \in Int
      BY TypeAt
    <2> QED
      BY <1>4, <2>1, <2>2, <2>3
  <1>8. Link!LinkInput(s, Got(s)', Acked(s)')
    BY <1>6 DEF Link!LinkInput
  <1>9. /\ [x \in End |-> Got(x)][s] = Got(s) /\ [x \in End |-> Acked(x)][s] = Acked(s)
        /\ Link!Peer(s) = p /\ s \in Link!End
    BY <1>1 DEF Link!Peer, Peer, Link!End, End
  <1> QED
    BY <1>3, <1>7, <1>8, <1>9 DEF Link!LinkNext

LEMMA FlushLinks ==
    ASSUME TypeOK, WindowInv, DeliveryInv, HalfTurn, CountersInv, CountersInv',
           NEW s \in End, NEW late, NEW expires, NEW kept, KcpFlush(s, late, expires, kept)
    PROVE  Link!LinkNext
  <1>1. /\ UNCHANGED <<given, delivered>>
        /\ offered' = [offered EXCEPT ![s] = Len(given[s])]
        /\ promised' = [promised EXCEPT ![s] = Got(s)]
    BY DEF KcpFlush
  <1>2. \A x \in End : Got(x)' = Got(x) /\ Acked(x)' = Acked(x)
    BY FlushCounters
  <1>3. /\ [x \in End |-> Got(x)'] = [x \in End |-> Got(x)]
        /\ [x \in End |-> Acked(x)'] = [x \in End |-> Acked(x)]
    BY <1>2
  <1>4. Len([m \in DOMAIN given[s] |-> "push"]) = Len(given[s])
    <2>1. DOMAIN given[s] = 1..Len(given[s]) /\ Len(given[s]) \in Nat
      BY TypeAt, LenProperties
    <2> QED
      BY <2>1
  <1>5. /\ [x \in End |-> [m \in DOMAIN given[x] |-> "push"]][s]
             = [m \in DOMAIN given[s] |-> "push"]
        /\ [x \in End |-> Got(x)][s] = Got(s)
    OBVIOUS
  <1>6. Link!LinkFlush(s)
    BY <1>1, <1>4, <1>5 DEF Link!LinkFlush
  <1>7. s \in Link!End
    BY DEF Link!End, End
  <1> QED
    BY <1>1, <1>3, <1>6, <1>7 DEF Link!LinkNext

LEMMA InitLinks ==
    ASSUME Init, CountersInv
    PROVE  Link!LinkInit
  <1>1. <<>> \in Seq(Msg) /\ Len(<<>>) = 0 /\ DOMAIN <<>> = {} /\ 0..0 = {0}
    BY EmptySeq
  <1>2. \A x \in End : /\ given[x] = <<>> /\ delivered[x] = <<>>
                       /\ Got(x) = 0 /\ Acked(x) = 0
    BY <1>1, Ends DEF Init, CountersInv, Covers
  <1>3. [m \in {} |-> "push"] = <<>>
    OBVIOUS
  <1>4. \A x \in End : [m \in DOMAIN given[x] |-> "push"] = <<>> /\ Len(delivered[x]) = 0
    BY <1>1, <1>2, <1>3
  <1>5. /\ [x \in End |-> [m \in DOMAIN given[x] |-> "push"]] = [x \in End |-> <<>>]
        /\ [x \in End |-> Len(delivered[x])] = [x \in End |-> 0]
        /\ [x \in End |-> Got(x)] = [x \in End |-> 0]
        /\ [x \in End |-> Acked(x)] = [x \in End |-> 0]
    BY <1>2, <1>4
  <1>6. Link!End = End
    BY DEF Link!End, End
  <1> QED
    BY <1>5, <1>6 DEF Link!LinkInit, Init

LEMMA NextLinks ==
    ASSUME HalfTurn, TypeOK, WindowInv, DeliveryInv, CountersInv, CountersInv', RecvComplete,
           [Next]_vars
    PROVE  [Link!LinkNext]_(Link!linkVars)
  <1>1. CASE Next
    <2>1. PICK s \in End :
             \/ \E count \in Counts : KcpSend(s, count)
             \/ KcpRecv(s)
             \/ \E seg \in net[s], keep \in BOOLEAN : Arrive(s, seg, keep)
             \/ Flush(s)
      BY <1>1 DEF Next
    <2>2. CASE \E count \in Counts : KcpSend(s, count)
      BY <2>2, SendLinks
    <2>3. CASE KcpRecv(s)
      BY <2>3, RecvLinks
    <2>4. CASE \E seg \in net[s], keep \in BOOLEAN : Arrive(s, seg, keep)
      BY <2>4, ArriveLinks
    <2>5. CASE Flush(s)
      BY <2>5, FlushLinks DEF Flush
    <2> QED
      BY <2>1, <2>2, <2>3, <2>4, <2>5
  <1>2. CASE UNCHANGED vars
    <2>1. UNCHANGED vars
      BY <1>2
    <2> QED
      BY <2>1 DEF vars, sendVars, recvVars, historyVars, Link!linkVars, Got, Acked, InOrder, Run,
                  RunOf, FragAt, Contiguous, WaitSnd
  <1> QED
    BY <1>1, <1>2

(* Two control blocks and a network that loses, duplicates and reorders    *)
(* implement the reliable link the session is built on, for every number   *)
(* of messages, size of them and window, wherever the sequence numbers     *)
(* start: what ikcp_send took reaches the peer only after a flush, what a  *)
(* sender drops as acknowledged is held by its peer and was promised in a  *)
(* flush, and no counter ever goes back.                                   *)
THEOREM LinkImplemented ==
    ASSUME HalfTurn
    PROVE  Spec => ImplementsLink
  <1>1. Init => TypeOK /\ WindowInv /\ DeliveryInv /\ AnsweredInv
    BY InitTypes, InitDelivery, InitAnswered
  <1>2. (TypeOK /\ WindowInv /\ DeliveryInv /\ AnsweredInv) /\ [Next]_vars
          => (TypeOK /\ WindowInv /\ DeliveryInv /\ AnsweredInv)'
    BY NextTypes, NextDelivery, NextAnswered
  <1>3. TypeOK /\ WindowInv /\ DeliveryInv /\ AnsweredInv => CountersInv
    BY CountersRight
  <1>4. Spec => []RecvComplete
    BY RecvIsComplete
  <1>5. Init /\ CountersInv => Link!LinkInit
    BY InitLinks
  <1>6. TypeOK /\ WindowInv /\ DeliveryInv /\ CountersInv /\ CountersInv' /\ RecvComplete
          /\ [Next]_vars => [Link!LinkNext]_(Link!linkVars)
    BY NextLinks
  <1> QED
    BY <1>1, <1>2, <1>3, <1>4, <1>5, <1>6, PTL DEF Spec, ImplementsLink, Link!LinkSpec

=============================================================================
