------------------------------ MODULE MCRelay ------------------------------
(***************************************************************************)
(* Bounds of the Relay run: the chunks each program may write.             *)
(***************************************************************************)
EXTENDS Relay

Chunks == [s \in End |-> 1]
============================================================================
