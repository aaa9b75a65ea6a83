----------------------------- MODULE TargetMutex -----------------------------
(***************************************************************************)
(* What handleSession() needs from the establish locks: for each lock key, *)
(* at most one thread at a time is between acquireEstablishLock() and      *)
(* releaseEstablishLock(); different keys never wait for each other.       *)
(* EstablishLocks implements it for every table size, with one key for     *)
(* each session identity and one for the fallback mutex; only a table with *)
(* a slot for every thread keeps all requests off the fallback.            *)
(***************************************************************************)
CONSTANTS Threads,   \* the application's threads that call handleSession()
          Keys,      \* the session identities of buildSessionKey(), and the fallback
          NoKey      \* "no request in progress"

VARIABLES phase,     \* phase[t]: outside, waiting for, or inside the section
          target     \* target[t]: the session identity t asked for

vars == <<phase, target>>

Init ==
    /\ phase = [t \in Threads |-> "outside"]
    /\ target = [t \in Threads |-> NoKey]

Ask(t, k) ==
    /\ phase[t] = "outside"
    /\ phase' = [phase EXCEPT ![t] = "waiting"]
    /\ target' = [target EXCEPT ![t] = k]

Enter(t) ==
    /\ phase[t] = "waiting"
    /\ \A u \in Threads : ~(phase[u] = "inside" /\ target[u] = target[t])
    /\ phase' = [phase EXCEPT ![t] = "inside"]
    /\ UNCHANGED target

Leave(t) ==
    /\ phase[t] = "inside"
    /\ phase' = [phase EXCEPT ![t] = "outside"]
    /\ target' = [target EXCEPT ![t] = NoKey]

Next ==
    \E t \in Threads :
        \/ \E k \in Keys : Ask(t, k)
        \/ Enter(t)
        \/ Leave(t)

Spec == Init /\ [][Next]_vars
=============================================================================
