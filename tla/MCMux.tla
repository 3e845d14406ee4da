------------------------------- MODULE MCMux -------------------------------
(***************************************************************************)
(* Bounds of the Mux runs: how many conns each end opens, who closes its   *)
(* mux, and which calls besides Send and Close are made.                   *)
(***************************************************************************)
EXTENDS Mux

A2   == [s \in End |-> IF s = A THEN 2 ELSE 0]
A1   == [s \in End |-> IF s = A THEN 1 ELSE 0]
A1B1 == [s \in End |-> 1]

None  == {}
OnlyA == {A}
Both  == {A, B}

NoCalls == [s \in End |-> {}]
StopsByA == [s \in End |-> IF s = A THEN {"stop"} ELSE {}]
MoreByA == [s \in End |-> IF s = A THEN {"stop", "cls"} ELSE {"stop"}]
============================================================================
