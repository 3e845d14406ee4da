-------------------------------- MODULE Clock --------------------------------
(***************************************************************************)
(* The decisions taken from the clock.  iclock() is the time of day in     *)
(* milliseconds modulo 2^32: it wraps around every 49.7 days, and jumps    *)
(* with the time of day.                                                   *)
(***************************************************************************)
EXTENDS Serial

HEARTBEAT_INTERVAL == 10000     \* KCPUV_SESS_HEARTBEAT_INTERVAL
MaxSlap == 10000                \* of ikcp_update and ikcp_check

iclock(t) == t % Wrap

(***************************************************************************)
(* The session and the conns.                                              *)
(***************************************************************************)
(* now - sess->recvTs is an unsigned subtraction. *)
IdleTimeout(now, recvTs, timeout) == timeout # 0 /\ (now - recvTs) % Wrap >= timeout

HeartbeatDue(now, sendTs) == Plus(sendTs, HEARTBEAT_INTERVAL) <= now

(* conn->ts + conn->GetTimeout() is a sum of unsigned long. *)
ConnTimeout(now, ts, timeout) == timeout # 0 /\ ts + timeout <= now

(***************************************************************************)
(* ikcp_update: when it flushes, and the next time it wants to.            *)
(***************************************************************************)
Jumped(ts_flush, current) ==
    Diff(current, ts_flush) >= MaxSlap \/ Diff(current, ts_flush) < -MaxSlap

Flushes(ts_flush, current) == Jumped(ts_flush, current) \/ Diff(current, ts_flush) >= 0

NextFlush(ts_flush, current, interval) ==
    LET base == IF Jumped(ts_flush, current) THEN current ELSE ts_flush
    IN  IF ~Flushes(ts_flush, current) THEN ts_flush
        ELSE IF Diff(current, Plus(base, interval)) >= 0 THEN Plus(current, interval)
        ELSE Plus(base, interval)

(* ikcp_check: the time the session's loop compares with now.  resend is   *)
(* the least time to a retransmission, 2^31 - 1 when nothing waits.        *)
Check(ts_flush, current, interval, resend) ==
    IF Flushes(ts_flush, current) \/ resend <= 0 THEN current
    ELSE LET wait == -Diff(current, ts_flush)
             least == IF resend < wait THEN resend ELSE wait
         IN  Plus(current, IF least >= interval THEN interval ELSE least)
=============================================================================
