---------------------------- MODULE EstablishLocks ----------------------------
(***************************************************************************)
(* The per-target session-establish locks of Session.c: a fixed table of   *)
(* reference-counted mutexes, each claimed for one session identity while  *)
(* some thread uses it, and a global fallback mutex for a full table.      *)
(*                                                                         *)
(* A thread runs acquireEstablishLock(), the find-or-create section of     *)
(* handleSession() and releaseEstablishLock().  The registry mutex makes   *)
(* the table scan one step and the reference drop one step; the slot's own *)
(* mutex is locked and unlocked outside it, which is where threads         *)
(* interleave.                                                             *)
(***************************************************************************)
EXTENDS Naturals, FiniteSets

CONSTANTS Threads,    \* threads that call handleSession()
          Keys,       \* session identities (buildSessionKey)
          NumSlots,   \* MAX_SESSIONS, the size of establishLocks[]
          NoKey,      \* the empty key of a free slot; also "no request"
          NoThread,   \* an unlocked mutex
          Fallback    \* the abstract name of establishLockFallbackMutex

ASSUME ThreadsAssumption == IsFiniteSet(Threads) /\ NoThread \notin Threads
ASSUME KeysAssumption == NoKey \notin Keys
ASSUME FallbackAssumption == Fallback \notin Keys \cup {NoKey}
ASSUME SlotsAssumption == NumSlots \in Nat

Slots == 1 .. NumSlots
NoSlot == 0   \* the NULL that acquireEstablishLock() returns for a full table

VARIABLES slot,           \* establishLocks[]: key, refCount and inUse
          owner,          \* owner[i]: the thread that holds slot i's mutex
          fallbackOwner,  \* the thread that holds the fallback mutex
          pc,             \* where each thread is in handleSession()
          key,            \* the session identity of each thread's request
          mySlot          \* the slot pointer each thread carries

vars == <<slot, owner, fallbackOwner, pc, key, mySlot>>

FreeSlot == [key |-> NoKey, refCount |-> 0, inUse |-> FALSE]

Init ==
    /\ slot = [i \in Slots |-> FreeSlot]
    /\ owner = [i \in Slots |-> NoThread]
    /\ fallbackOwner = NoThread
    /\ pc = [t \in Threads |-> "idle"]
    /\ key = [t \in Threads |-> NoKey]
    /\ mySlot = [t \in Threads |-> NoSlot]

-----------------------------------------------------------------------------
(* What a request starts and ends with.                                     *)

Matches(i, k) == slot[i].inUse /\ slot[i].key = k

Begin(t, k, i, next) ==
    /\ pc[t] = "idle"
    /\ pc' = [pc EXCEPT ![t] = next]
    /\ key' = [key EXCEPT ![t] = k]
    /\ mySlot' = [mySlot EXCEPT ![t] = i]
    /\ UNCHANGED fallbackOwner

Finish(t) ==
    /\ pc' = [pc EXCEPT ![t] = "idle"]
    /\ key' = [key EXCEPT ![t] = NoKey]
    /\ mySlot' = [mySlot EXCEPT ![t] = NoSlot]

-----------------------------------------------------------------------------
(* Plausible bugs, each used to show that a property can fail.              *)

\* The scan gives up when a slot holds another target.
OverflowEarly(t, k) ==
    /\ \E i \in Slots : slot[i].inUse /\ slot[i].key # k
    /\ \A i \in Slots : ~Matches(i, k)
    /\ UNCHANGED <<slot, owner>>
    /\ Begin(t, k, NoSlot, "lockFallback")

\* The fallback mutex is waited for only when the same target holds it.
LockFallbackPerKey(t) ==
    /\ pc[t] = "lockFallback"
    /\ \A u \in Threads : fallbackOwner = u => key[u] # key[t]
    /\ fallbackOwner' = t
    /\ pc' = [pc EXCEPT ![t] = "holdFallback"]
    /\ UNCHANGED <<slot, owner, key, mySlot>>

\* The NULL slot is released without unlocking the fallback mutex.
UnlockFallbackForgotten(t) ==
    /\ pc[t] = "holdFallback"
    /\ Finish(t)
    /\ UNCHANGED <<slot, owner, fallbackOwner>>
-----------------------------------------------------------------------------
(* The registry scan of acquireEstablishLock(), one critical section.       *)

\* The first slot in use for this key takes one more reference.
JoinSlot(t, k) ==
    \E i \in Slots :
        /\ Matches(i, k)
        /\ \A j \in Slots : j < i => ~Matches(j, k)
        /\ slot' = [slot EXCEPT ![i].refCount = @ + 1]
        /\ UNCHANGED owner
        /\ Begin(t, k, i, "lock")

\* No slot has this key: the first free one is keyed, its mutex initialised.
ClaimSlot(t, k) ==
    /\ \A i \in Slots : ~Matches(i, k)
    /\ \E i \in Slots :
        /\ ~slot[i].inUse
        /\ \A j \in Slots : j < i => slot[j].inUse
        /\ slot' = [slot EXCEPT ![i] = [key |-> k, refCount |-> 1, inUse |-> TRUE]]
        /\ owner' = [owner EXCEPT ![i] = NoThread]
        /\ Begin(t, k, i, "lock")

\* The table is full: NULL, and handleSession() turns to the fallback mutex.
Overflow(t, k) ==
    /\ \A i \in Slots : slot[i].inUse /\ slot[i].key # k
    /\ UNCHANGED <<slot, owner>>
    /\ Begin(t, k, NoSlot, "lockFallback")

-----------------------------------------------------------------------------
(* Locking, and releaseEstablishLock().                                     *)

LockSlot(t) ==
    /\ pc[t] = "lock"
    /\ owner[mySlot[t]] = NoThread
    /\ owner' = [owner EXCEPT ![mySlot[t]] = t]
    /\ pc' = [pc EXCEPT ![t] = "hold"]
    /\ UNCHANGED <<slot, fallbackOwner, key, mySlot>>

UnlockSlot(t) ==
    /\ pc[t] = "hold"
    /\ owner' = [owner EXCEPT ![mySlot[t]] = NoThread]
    /\ pc' = [pc EXCEPT ![t] = "drop"]
    /\ UNCHANGED <<slot, fallbackOwner, key, mySlot>>

\* The reference goes; the last user destroys the mutex and frees the slot.
DropRef(t) ==
    /\ pc[t] = "drop"
    /\ LET i == mySlot[t]
           n == slot[i].refCount - 1
       IN  slot' = [slot EXCEPT ![i] = IF n = 0 THEN FreeSlot
                                       ELSE [@ EXCEPT !.refCount = n]]
    /\ Finish(t)
    /\ UNCHANGED <<owner, fallbackOwner>>

LockFallback(t) ==
    /\ pc[t] = "lockFallback"
    /\ fallbackOwner = NoThread
    /\ fallbackOwner' = t
    /\ pc' = [pc EXCEPT ![t] = "holdFallback"]
    /\ UNCHANGED <<slot, owner, key, mySlot>>

UnlockFallback(t) ==
    /\ pc[t] = "holdFallback"
    /\ fallbackOwner' = NoThread
    /\ Finish(t)
    /\ UNCHANGED <<slot, owner>>

Acquire(t, k) == JoinSlot(t, k) \/ ClaimSlot(t, k) \/ Overflow(t, k)

Progress(t) == \/ LockSlot(t)     \/ UnlockSlot(t)     \/ DropRef(t)
               \/ LockFallback(t) \/ UnlockFallback(t)

Next == \E t \in Threads : (\E k \in Keys : Acquire(t, k)) \/ Progress(t)

(* A thread inside handleSession() keeps running: no step of it waits for   *)
(* anything but a mutex.  Nothing obliges a thread to start a request, and  *)
(* pthread mutexes promise no order among waiters, so fairness is weak.     *)
Spec == Init /\ [][Next]_vars /\ \A t \in Threads : WF_vars(Progress(t))

-----------------------------------------------------------------------------
(* Every variable stays in its range: reference counts never go below zero. *)
TypeOK ==
    /\ slot \in [Slots -> [key : Keys \cup {NoKey}, refCount : Nat, inUse : BOOLEAN]]
    /\ owner \in [Slots -> Threads \cup {NoThread}]
    /\ fallbackOwner \in Threads \cup {NoThread}
    /\ pc \in [Threads -> {"idle", "lock", "hold", "drop", "lockFallback", "holdFallback"}]
    /\ key \in [Threads -> Keys \cup {NoKey}]
    /\ mySlot \in [Threads -> Slots \cup {NoSlot}]

Users(i) == {t \in Threads : mySlot[t] = i}

(* Session.c 64: "Locks are ref-counted and the slot is reclaimed when the  *)
(* last user leaves".  The count is exactly the number of threads carrying  *)
(* a pointer to the slot, and the slot is in use exactly while there is one.*)
RefCountExact ==
    \A i \in Slots : /\ slot[i].refCount = Cardinality(Users(i))
                     /\ slot[i].inUse <=> Users(i) # {}

(* Between acquireEstablishLock() and the end of releaseEstablishLock() the *)
(* slot a thread points to is never destroyed or given to another target,   *)
(* although the thread holds neither mutex while it waits.                  *)
SlotStable ==
    \A t \in Threads : mySlot[t] # NoSlot => Matches(mySlot[t], key[t])

(* A target never has two mutexes: the scan joins before it claims.         *)
OneSlotPerKey ==
    \A i, j \in Slots : slot[i].inUse /\ slot[j].inUse /\ slot[i].key = slot[j].key => i = j

InSection(t) == pc[t] \in {"hold", "holdFallback"}
OnFallback(t) == pc[t] \in {"lockFallback", "holdFallback"}

(* Whatever the table's size, two threads in the find-or-create section for *)
(* the same target can only be one on the slot and one on the fallback.     *)
SlotExclusion ==
    \A t, u \in Threads :
        /\ InSection(t) /\ InSection(u) /\ key[t] = key[u]
        /\ OnFallback(t) <=> OnFallback(u)
        => t = u

(* Session.c 99-103: find and create are atomic per target.                 *)
KeyExclusion ==
    \A t, u \in Threads : InSection(t) /\ InSection(u) /\ key[t] = key[u] => t = u

Crowded(t) == Cardinality({u \in Threads \ {t} : mySlot[u] # NoSlot}) >= NumSlots

(* Session.c 75-76: the fallback is for a table that really is full.  A     *)
(* request is sent to it only while at least NumSlots other threads hold a  *)
(* reference to a slot: no slot is lost, whatever came before.              *)
OverflowOnlyWhenCrowded ==
    [][\A t \in Threads :
          pc[t] # "lockFallback" /\ pc'[t] = "lockFallback" => Crowded(t)]_vars

(* Session.c 75-76: the fallback "should not happen: distinct in-flight     *)
(* targets are bounded by the worker-thread count".                         *)
NoOverflow == \A t \in Threads : ~OnFallback(t)

(* The program counters, the slot pointers and the mutexes agree: a thread  *)
(* owns a mutex exactly while it is in the section it guards.               *)
LocksAgree ==
    /\ \A t \in Threads : mySlot[t] # NoSlot <=> pc[t] \in {"lock", "hold", "drop"}
    /\ \A t \in Threads, i \in Slots :
           owner[i] = t <=> pc[t] = "hold" /\ mySlot[t] = i
    /\ \A t \in Threads : fallbackOwner = t <=> pc[t] = "holdFallback"

(* The inductive invariant behind the theorems of EstablishLocks_proofs.    *)
IInv == TypeOK /\ LocksAgree /\ SlotStable /\ OneSlotPerKey /\ RefCountExact

Quiet == /\ \A t \in Threads : pc[t] = "idle"
         /\ \A i \in Slots : slot[i] = FreeSlot /\ owner[i] = NoThread
         /\ fallbackOwner = NoThread

(* Unless new requests keep arriving for ever, every thread gets through    *)
(* the section and the table ends empty: no mutex is left locked, no        *)
(* reference leaks.                                                         *)
Drains == []<><<\E t \in Threads, k \in Keys : Acquire(t, k)>>_vars \/ <>[]Quiet

-----------------------------------------------------------------------------
(* The abstract view: the unlock is the moment a thread leaves the section; *)
(* dropping the reference afterwards is invisible.                          *)
Outside(t) == pc[t] \in {"idle", "drop"}

AbsPhase(t) == CASE Outside(t) -> "outside"
                 [] pc[t] \in {"lock", "lockFallback"} -> "waiting"
                 [] InSection(t) -> "inside"

AbsTarget(t) == IF Outside(t) THEN NoKey
                ELSE IF OnFallback(t) THEN Fallback ELSE key[t]

Abstract == INSTANCE TargetMutex WITH
    Keys <- Keys \cup {Fallback},
    phase <- [t \in Threads |-> AbsPhase(t)],
    target <- [t \in Threads |-> AbsTarget(t)]

(* The table, its reference counts and its recycled mutexes behave as one   *)
(* mutex per target and one more for the requests that found it full,       *)
(* whatever its size.                                                       *)
ImplementsTargetMutex == Abstract!Spec

=============================================================================
