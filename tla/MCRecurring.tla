----------------------------- MODULE MCRecurring -----------------------------
(* Instances of Recurring for TLC.                                         *)
EXTENDS Recurring

CONSTANTS r1, r2, p1, p2, c1

OneTick == MaxTime + 1   \* Horizon for intervals of 1
Forever == {Never}
OneEnd  == {1, Never}
=============================================================================
