------------------------------ MODULE MCStreamMux ------------------------------
(* Instances of StreamMux for TLC: requests are interchangeable.            *)
EXTENDS StreamMux, TLC

CONSTANTS r1, r2

TwoRequests == {r1, r2}
RequestSymmetry == Permutations(Requests)
=============================================================================
