--------------------------- MODULE MCEstablishLocks ---------------------------
(* EstablishLocks for TLC: more threads and more targets than slots, so     *)
(* that slots are shared, recycled and exhausted.                           *)
EXTENDS EstablishLocks

CONSTANTS t1, t2, t3, t4, k1, k2, k3

FourThreads == {t1, t2, t3, t4}
ThreeKeys == {k1, k2, k3}
=============================================================================
