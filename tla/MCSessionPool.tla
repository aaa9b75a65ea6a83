----------------------------- MODULE MCSessionPool -----------------------------
(* Instances of SessionPool for TLC.                                        *)
EXTENDS SessionPool

CONSTANTS r1, r2, a, b

OneTarget == {a}
TwoTargets == {a, b}
TwoRequests == {r1, r2}
None == {}
=============================================================================
