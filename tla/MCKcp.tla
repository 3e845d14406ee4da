------------------------------- MODULE MCKcp -------------------------------
(***************************************************************************)
(* Bounds of the Kcp runs: the messages A is given, and the segments that  *)
(* may be on their way.  Acknowledgements travel to A.                     *)
(***************************************************************************)
EXTENDS Kcp

A2 == [s \in End |-> IF s = A THEN 2 ELSE 0]
A3 == [s \in End |-> IF s = A THEN 3 ELSE 0]

Single == [s \in End |-> 1]
TwoToA == [s \in End |-> IF s = A THEN 2 ELSE 1]
============================================================================
