----------------------------- MODULE MCSession -----------------------------
(***************************************************************************)
(* Bounds of the Session runs: how many messages and calls of Close the    *)
(* active end A and the passive end B may make, and who has the idle       *)
(* timeout enabled.                                                        *)
(***************************************************************************)
EXTENDS Session

Each(n) == [s \in End |-> n]

Once  == Each(1)
MoreByA == [s \in End |-> IF s = A THEN 2 ELSE 1]
OnceByA == [s \in End |-> IF s = A THEN 1 ELSE 0]

(* Which ends have the idle timeout enabled. *)
Nobody == [s \in End |-> FALSE]
OnlyB  == [s \in End |-> s = B]
============================================================================
