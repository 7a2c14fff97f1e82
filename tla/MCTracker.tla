------------------------------ MODULE MCTracker ------------------------------
(* An instance of Tracker for TLC.                                         *)
EXTENDS Tracker, TLC

CONSTANTS p1, u1, x1, x2, s1, s2

(* January to April of a common year; a subscription falls due on the last *)
(* days of January.                                                        *)
FourMonths  == <<0, 31, 59, 90, 120>>
LateJanuary == {27, 30}

Interchange == Permutations(Txs) \cup Permutations(Sessions)
=============================================================================
