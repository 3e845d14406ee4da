------------------------------- MODULE Serial -------------------------------
(***************************************************************************)
(* Numbers that wrap around: the sequence numbers of KCP and the clock of  *)
(* iclock() are IUINT32, compared by their signed difference               *)
(* (_itimediff, lib/kcp/ikcp.c).                                           *)
(***************************************************************************)
EXTENDS Integers

CONSTANT Wrap           \* 2^32

ASSUME WrapAssumption == Wrap \in Nat \ {0}

(* Mutant: the counter does not wrap around. *)
MutPlus(a, n) == a + n

Plus(a, n) == (a + n) % Wrap

(* Mutant: the plain comparison. *)
MutDiff(later, earlier) == later - earlier

(* _itimediff: the unsigned difference read as a signed integer. *)
Diff(later, earlier) ==
    LET d == (later - earlier) % Wrap IN IF 2 * d < Wrap THEN d ELSE d - Wrap
=============================================================================
