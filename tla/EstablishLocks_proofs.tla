------------------------- MODULE EstablishLocks_proofs -------------------------
(***************************************************************************)
(* The establish-lock table is correct for every set of threads, every set *)
(* of targets and every table size.                                        *)
(***************************************************************************)
EXTENDS EstablishLocks, FiniteSetTheorems, TLAPS

USE DEF NoSlot

-----------------------------------------------------------------------------
(* Users: who points to a slot, and how the two registry sections change it *)

\* A slot has finitely many users, and their number is zero when there are none.
LEMMA UsersFinite ==
    ASSUME NEW i
    PROVE  /\ IsFiniteSet(Users(i))
           /\ Cardinality(Users(i)) \in Nat
           /\ Cardinality(Users(i)) = 0 <=> Users(i) = {}
<1>1. IsFiniteSet(Users(i))
  BY ThreadsAssumption, FS_Subset DEF Users
<1>2. QED
  BY <1>1, FS_CardinalityType, FS_EmptySet

\* So it has after a step.
LEMMA UsersFiniteNext ==
    ASSUME NEW i
    PROVE  IsFiniteSet(Users(i)')
BY ThreadsAssumption, FS_Subset DEF Users

\* A thread that points nowhere takes a pointer to slot i.
LEMMA UsersAfterBegin ==
    ASSUME TypeOK, NEW t \in Threads, mySlot[t] = NoSlot,
           NEW i \in Slots, mySlot' = [mySlot EXCEPT ![t] = i]
    PROVE  /\ Users(i)' = Users(i) \cup {t}
           /\ Cardinality(Users(i)') = Cardinality(Users(i)) + 1
           /\ \A j \in Slots : j # i => Users(j)' = Users(j)
<1>1. i # NoSlot
  BY SlotsAssumption DEF Slots
<1>2. Users(i)' = Users(i) \cup {t} /\ t \notin Users(i)
  BY <1>1 DEF Users, TypeOK
<1>3. \A j \in Slots : j # i => Users(j)' = Users(j)
  <2> SUFFICES ASSUME NEW j \in Slots, j # i PROVE Users(j)' = Users(j)
    OBVIOUS
  <2>1. j # NoSlot
    BY SlotsAssumption DEF Slots
  <2>2. QED
    BY <2>1 DEF Users, TypeOK
<1>4. QED
  BY <1>2, <1>3, UsersFinite, FS_AddElement

\* A thread gives its pointer up.
LEMMA UsersAfterFinish ==
    ASSUME TypeOK, NEW t \in Threads, NEW i \in Slots, mySlot[t] = i,
           mySlot' = [mySlot EXCEPT ![t] = NoSlot]
    PROVE  /\ Users(i)' = Users(i) \ {t}
           /\ Cardinality(Users(i)') = Cardinality(Users(i)) - 1
           /\ \A j \in Slots : j # i => Users(j)' = Users(j)
<1>1. \A j \in Slots : j # NoSlot
  BY SlotsAssumption DEF Slots
<1>2. Users(i)' = Users(i) \ {t} /\ t \in Users(i)
  BY <1>1 DEF Users, TypeOK
<1>3. \A j \in Slots : j # i => Users(j)' = Users(j)
  BY <1>1 DEF Users, TypeOK
<1>4. QED
  BY <1>2, <1>3, UsersFinite, FS_RemoveElement

-----------------------------------------------------------------------------
(* The inductive invariant.  RefCountExact is what makes SlotStable         *)
(* inductive: a slot with a user has refCount >= 1, so the drop that brings *)
(* the count to zero is the last user's own.                                *)

\* An empty table satisfies the inductive invariant.
LEMMA InitEstablishesIInv == Init => IInv
<1> SUFFICES ASSUME Init PROVE IInv
  OBVIOUS
<1> USE DEF Init, FreeSlot
<1>1. TypeOK
  BY DEF TypeOK
<1>2. LocksAgree
  BY ThreadsAssumption DEF LocksAgree
<1>3. SlotStable /\ OneSlotPerKey
  BY DEF SlotStable, OneSlotPerKey
<1>4. RefCountExact
  <2>1. \A i \in Slots : Users(i) = {}
    BY SlotsAssumption DEF Users, Slots
  <2>2. QED
    BY <2>1, FS_EmptySet DEF RefCountExact
<1>5. QED
  BY <1>1, <1>2, <1>3, <1>4 DEF IInv

\* acquireEstablishLock() finds the key in the table.
LEMMA JoinSlotPreserves ==
    ASSUME IInv, NEW t \in Threads, NEW k \in Keys, JoinSlot(t, k)
    PROVE  IInv'
<1> USE DEF IInv
<1>1. PICK i \in Slots : /\ Matches(i, k)
                         /\ slot' = [slot EXCEPT ![i].refCount = @ + 1]
                         /\ UNCHANGED owner
                         /\ Begin(t, k, i, "lock")
  BY DEF JoinSlot
<1>2. mySlot[t] = NoSlot /\ i # NoSlot
  BY <1>1, SlotsAssumption DEF Begin, LocksAgree, Slots
<1>3. TypeOK'
  BY <1>1 DEF TypeOK, Begin
<1>4. LocksAgree'
  BY <1>1, <1>2 DEF TypeOK, LocksAgree, Begin
<1>5. SlotStable'
  BY <1>1, <1>2 DEF TypeOK, SlotStable, Begin, Matches
<1>6. OneSlotPerKey'
  BY <1>1 DEF TypeOK, OneSlotPerKey
<1>7. RefCountExact'
  <2>1. mySlot' = [mySlot EXCEPT ![t] = i]
    BY <1>1 DEF Begin
  <2>2. /\ Users(i)' = Users(i) \cup {t}
        /\ Cardinality(Users(i)') = Cardinality(Users(i)) + 1
        /\ \A j \in Slots : j # i => Users(j)' = Users(j)
    BY <2>1, <1>2, UsersAfterBegin
  <2>3. ASSUME NEW j \in Slots
        PROVE  /\ slot'[j].refCount = Cardinality(Users(j)')
               /\ slot'[j].inUse <=> Users(j)' # {}
    <3>1. CASE j = i
      <4>1. slot'[i].refCount = slot[i].refCount + 1 /\ slot'[i].inUse
        BY <1>1 DEF TypeOK, Matches
      <4>2. QED
        BY <3>1, <4>1, <2>2 DEF RefCountExact
    <3>2. CASE j # i
      BY <3>2, <1>1, <2>2 DEF TypeOK, RefCountExact
    <3>3. QED
      BY <3>1, <3>2
  <2>4. QED
    BY <2>3 DEF RefCountExact
<1>8. QED
  BY <1>3, <1>4, <1>5, <1>6, <1>7

\* acquireEstablishLock() claims a free slot: its key is new to the table.
LEMMA ClaimSlotPreserves ==
    ASSUME IInv, NEW t \in Threads, NEW k \in Keys, ClaimSlot(t, k)
    PROVE  IInv'
<1> USE DEF IInv
<1>1. PICK i \in Slots :
         /\ ~slot[i].inUse
         /\ slot' = [slot EXCEPT ![i] = [key |-> k, refCount |-> 1, inUse |-> TRUE]]
         /\ owner' = [owner EXCEPT ![i] = NoThread]
         /\ Begin(t, k, i, "lock")
  BY DEF ClaimSlot
<1>2. mySlot[t] = NoSlot /\ i # NoSlot
  BY <1>1, SlotsAssumption DEF Begin, LocksAgree, Slots
<1>3. Users(i) = {} /\ Cardinality(Users(i)) = 0
  BY <1>1, UsersFinite DEF RefCountExact
<1>4. TypeOK'
  BY <1>1 DEF TypeOK, Begin
<1>5. LocksAgree'
  <2>1. \A u \in Threads : mySlot[u] # i
    BY <1>3 DEF Users
  <2>2. QED
    BY <1>1, <1>2, <2>1, ThreadsAssumption DEF TypeOK, LocksAgree, Begin
<1>6. SlotStable'
  <2>1. \A u \in Threads : mySlot[u] # i
    BY <1>3 DEF Users
  <2>2. QED
    BY <1>1, <1>2, <2>1 DEF TypeOK, SlotStable, Begin, Matches
<1>7. OneSlotPerKey'
  <2>1. \A j \in Slots : slot[j].inUse => slot[j].key # k
    BY DEF ClaimSlot, Matches
  <2>2. QED
    BY <1>1, <2>1 DEF TypeOK, OneSlotPerKey
<1>8. RefCountExact'
  <2>1. mySlot' = [mySlot EXCEPT ![t] = i]
    BY <1>1 DEF Begin
  <2>2. /\ Users(i)' = Users(i) \cup {t}
        /\ Cardinality(Users(i)') = Cardinality(Users(i)) + 1
        /\ \A j \in Slots : j # i => Users(j)' = Users(j)
    BY <2>1, <1>2, UsersAfterBegin
  <2>3. ASSUME NEW j \in Slots
        PROVE  /\ slot'[j].refCount = Cardinality(Users(j)')
               /\ slot'[j].inUse <=> Users(j)' # {}
    <3>1. CASE j = i
      <4>1. slot'[i].refCount = 1 /\ slot'[i].inUse
        BY <1>1 DEF TypeOK
      <4>2. QED
        BY <3>1, <4>1, <2>2, <1>3
    <3>2. CASE j # i
      BY <3>2, <1>1, <2>2 DEF TypeOK, RefCountExact
    <3>3. QED
      BY <3>1, <3>2
  <2>4. QED
    BY <2>3 DEF RefCountExact
<1>9. QED
  BY <1>4, <1>5, <1>6, <1>7, <1>8

\* releaseEstablishLock() drops the reference, and the slot with the last one.
LEMMA DropRefPreserves ==
    ASSUME IInv, NEW t \in Threads, DropRef(t)
    PROVE  IInv'
<1> USE DEF IInv
<1>1. PICK i \in Slots : i = mySlot[t]
  BY SlotsAssumption DEF DropRef, TypeOK, LocksAgree, Slots
<1> DEFINE n == slot[i].refCount - 1
           left == IF n = 0 THEN FreeSlot ELSE [slot[i] EXCEPT !.refCount = n]
<1>2. /\ pc[t] = "drop"
      /\ i # NoSlot
      /\ slot' = [slot EXCEPT ![i] = left]
      /\ mySlot' = [mySlot EXCEPT ![t] = NoSlot]
  BY <1>1, SlotsAssumption DEF DropRef, Finish, Slots
<1>3. slot[i].inUse /\ slot[i].key = key[t]
  BY <1>1, <1>2 DEF SlotStable, Matches
<1>4. /\ Users(i)' = Users(i) \ {t}
      /\ Cardinality(Users(i)') = Cardinality(Users(i)) - 1
      /\ \A j \in Slots : j # i => Users(j)' = Users(j)
  BY <1>1, <1>2, UsersAfterFinish
<1>5. n \in Nat /\ n = Cardinality(Users(i)')
  <2>1. slot[i].refCount = Cardinality(Users(i))
    BY <1>1 DEF RefCountExact
  <2>2. Cardinality(Users(i)') \in Nat
    BY UsersFiniteNext, FS_CardinalityType
  <2>3. QED
    BY <1>4, <2>1, <2>2
<1>6. n = 0 <=> Users(i)' = {}
  BY <1>5, UsersFiniteNext, FS_EmptySet
<1>7. TypeOK'
  <2>1. left \in [key : Keys \cup {NoKey}, refCount : Nat, inUse : BOOLEAN]
    BY <1>5 DEF TypeOK, FreeSlot
  <2>2. QED
    <3>1. slot' \in [Slots -> [key : Keys \cup {NoKey}, refCount : Nat, inUse : BOOLEAN]]
      <4> HIDE DEF left
      <4> QED
        BY <1>2, <2>1 DEF TypeOK
    <3>2. QED
      BY <1>1, <3>1 DEF TypeOK, DropRef, Finish
<1>8. LocksAgree'
  BY <1>1, <1>2 DEF LocksAgree, DropRef, Finish, TypeOK
<1>9. SlotStable'
  <2> SUFFICES ASSUME NEW u \in Threads, mySlot'[u] # NoSlot
               PROVE  slot'[mySlot'[u]].inUse /\ slot'[mySlot'[u]].key = key'[u]
    BY DEF SlotStable, Matches
  <2>1. u # t /\ mySlot'[u] = mySlot[u] /\ key'[u] = key[u] /\ mySlot[u] \in Slots
    BY <1>2 DEF TypeOK, DropRef, Finish
  <2>2. slot[mySlot[u]].inUse /\ slot[mySlot[u]].key = key[u]
    BY <2>1 DEF SlotStable, Matches
  <2>3. CASE mySlot[u] = i
    <3>1. u \in Users(i)'
      BY <2>1, <2>3, <1>4 DEF Users
    <3>2. left = [slot[i] EXCEPT !.refCount = n]
      BY <3>1, <1>6
    <3>3. slot'[i].inUse = slot[i].inUse /\ slot'[i].key = slot[i].key
      BY <3>2, <1>2 DEF TypeOK
    <3>4. QED
      BY <2>1, <2>2, <2>3, <3>3
  <2>4. CASE mySlot[u] # i
    BY <2>1, <2>2, <2>4, <1>2 DEF TypeOK
  <2>5. QED
    BY <2>3, <2>4
<1>10. OneSlotPerKey'
  <2>1. \A j \in Slots : slot'[j].inUse => slot[j].inUse /\ slot'[j].key = slot[j].key
    BY <1>2, <1>3 DEF TypeOK, FreeSlot
  <2>2. QED
    BY <2>1 DEF OneSlotPerKey
<1>11. RefCountExact'
  <2>1. ASSUME NEW j \in Slots
        PROVE  /\ slot'[j].refCount = Cardinality(Users(j)')
               /\ slot'[j].inUse <=> Users(j)' # {}
    <3>1. CASE j = i
      <4>1. slot'[j] = left
        BY <3>1, <1>2 DEF TypeOK
      <4>2. CASE n = 0
        BY <3>1, <4>1, <4>2, <1>5, <1>6 DEF FreeSlot
      <4>3. CASE n # 0
        <5>1. slot'[j].refCount = n /\ slot'[j].inUse
          BY <4>1, <4>3, <1>2, <1>3 DEF TypeOK
        <5>2. QED
          BY <3>1, <5>1, <4>3, <1>5, <1>6
      <4>4. QED
        BY <4>2, <4>3
    <3>2. CASE j # i
      BY <3>2, <1>2, <1>4 DEF TypeOK, RefCountExact
    <3>3. QED
      BY <3>1, <3>2
  <2>2. QED
    BY <2>1 DEF RefCountExact
<1>12. QED
  BY <1>7, <1>8, <1>9, <1>10, <1>11

\* The steps that leave the table alone: the slot pointers do not move either.
LEMMA TableUnchangedPreserves ==
    ASSUME IInv, UNCHANGED <<slot, mySlot>>,
           \A t \in Threads : mySlot[t] # NoSlot => key'[t] = key[t]
    PROVE  SlotStable' /\ OneSlotPerKey' /\ RefCountExact'
<1>1. \A i : Users(i)' = Users(i)
  BY DEF Users
<1>2. QED
  BY <1>1 DEF IInv, SlotStable, OneSlotPerKey, RefCountExact, Matches

\* The mutex steps, and a request that finds the table full.
LEMMA LockStepsPreserve ==
    ASSUME IInv, NEW t \in Threads,
           \/ \E k \in Keys : Overflow(t, k)
           \/ LockSlot(t) \/ UnlockSlot(t) \/ LockFallback(t) \/ UnlockFallback(t)
    PROVE  IInv'
<1> USE DEF IInv
<1>1. ASSUME NEW k \in Keys, Overflow(t, k) PROVE IInv'
  <2>1. mySlot[t] = NoSlot /\ UNCHANGED mySlot
    BY <1>1 DEF Overflow, Begin, LocksAgree, TypeOK
  <2>2. TypeOK'
    BY <1>1 DEF Overflow, Begin, TypeOK
  <2>3. LocksAgree'
    BY <1>1, <2>1 DEF Overflow, Begin, TypeOK, LocksAgree
  <2>4. \A u \in Threads : mySlot[u] # NoSlot => key'[u] = key[u]
    BY <1>1, <2>1 DEF Overflow, Begin, TypeOK
  <2>5. QED
    BY <1>1, <2>1, <2>2, <2>3, <2>4, TableUnchangedPreserves DEF Overflow
<1>2. CASE LockSlot(t)
  <2>1. TypeOK'
    BY <1>2 DEF LockSlot, TypeOK, LocksAgree
  <2>2. LocksAgree'
    BY <1>2, ThreadsAssumption DEF LockSlot, TypeOK, LocksAgree
  <2>3. QED
    BY <1>2, <2>1, <2>2, TableUnchangedPreserves DEF LockSlot
<1>3. CASE UnlockSlot(t)
  <2>1. TypeOK'
    BY <1>3 DEF UnlockSlot, TypeOK, LocksAgree
  <2>2. LocksAgree'
    BY <1>3, ThreadsAssumption DEF UnlockSlot, TypeOK, LocksAgree
  <2>3. QED
    BY <1>3, <2>1, <2>2, TableUnchangedPreserves DEF UnlockSlot
<1>4. CASE LockFallback(t)
  <2>1. TypeOK'
    BY <1>4 DEF LockFallback, TypeOK
  <2>2. LocksAgree'
    BY <1>4, ThreadsAssumption DEF LockFallback, TypeOK, LocksAgree
  <2>3. QED
    BY <1>4, <2>1, <2>2, TableUnchangedPreserves DEF LockFallback
<1>5. CASE UnlockFallback(t)
  <2>1. mySlot[t] = NoSlot /\ UNCHANGED mySlot
    BY <1>5 DEF UnlockFallback, Finish, LocksAgree, TypeOK
  <2>2. TypeOK'
    BY <1>5 DEF UnlockFallback, Finish, TypeOK
  <2>3. LocksAgree'
    BY <1>5, <2>1, ThreadsAssumption DEF UnlockFallback, Finish, TypeOK, LocksAgree
  <2>4. \A u \in Threads : mySlot[u] # NoSlot => key'[u] = key[u]
    BY <1>5, <2>1 DEF UnlockFallback, Finish, TypeOK
  <2>5. QED
    BY <1>5, <2>1, <2>2, <2>3, <2>4, TableUnchangedPreserves DEF UnlockFallback
<1>6. QED
  BY <1>1, <1>2, <1>3, <1>4, <1>5

\* Every step of acquireEstablishLock() and releaseEstablishLock() preserves it.
LEMMA NextPreservesIInv == IInv /\ [Next]_vars => IInv'
<1> SUFFICES ASSUME IInv, [Next]_vars PROVE IInv'
  OBVIOUS
<1>1. ASSUME NEW t \in Threads, NEW k \in Keys, Acquire(t, k) PROVE IInv'
  BY <1>1, JoinSlotPreserves, ClaimSlotPreserves, LockStepsPreserve DEF Acquire
<1>2. ASSUME NEW t \in Threads, Progress(t) PROVE IInv'
  BY <1>2, DropRefPreserves, LockStepsPreserve DEF Progress
<1>3. CASE UNCHANGED vars
  <2> USE <1>3 DEF vars, IInv
  <2>1. TypeOK' /\ LocksAgree'
    BY DEF TypeOK, LocksAgree
  <2>2. QED
    BY <2>1, TableUnchangedPreserves
<1>4. QED
  BY <1>1, <1>2, <1>3 DEF Next

(* The inductive invariant of the establish locks (Session.c 297-347): in   *)
(* every reachable state every reference is counted, no slot in use is      *)
(* recycled and no target has two slots.                                    *)
THEOREM InductiveInvariant == Spec => []IInv
<1>1. Init => IInv
  BY InitEstablishesIInv
<1>2. IInv /\ [Next]_vars => IInv'
  BY NextPreservesIInv
<1>3. QED
  BY <1>1, <1>2, PTL DEF Spec

(* The variables keep their types.                                          *)
THEOREM TypeCorrect == Spec => []TypeOK
<1>1. IInv => TypeOK
  BY DEF IInv
<1>2. QED
  BY <1>1, InductiveInvariant, PTL

(* A thread that waits for, holds or is releasing a slot's mutex always     *)
(* finds the slot alive and keyed with its own target: the reference count  *)
(* keeps pthread_mutex_destroy() away from a mutex someone still needs.     *)
THEOREM SlotNeverRecycledUnderUser == Spec => [](SlotStable /\ RefCountExact)
<1>1. IInv => SlotStable /\ RefCountExact
  BY DEF IInv
<1>2. QED
  BY <1>1, InductiveInvariant, PTL

\* A mutex has one owner, and threads of one target wait for one mutex.
LEMMA IInvImpliesSlotExclusion == IInv => SlotExclusion
<1> SUFFICES ASSUME IInv, NEW t \in Threads, NEW u \in Threads,
                    InSection(t), InSection(u), key[t] = key[u],
                    OnFallback(t) <=> OnFallback(u)
             PROVE  t = u
  BY DEF SlotExclusion
<1>1. CASE OnFallback(t)
  BY <1>1 DEF IInv, LocksAgree, OnFallback, InSection
<1>2. CASE ~OnFallback(t)
  <2>1. pc[t] = "hold" /\ pc[u] = "hold"
    BY <1>2 DEF OnFallback, InSection
  <2>2. mySlot[t] # NoSlot /\ mySlot[u] # NoSlot
    BY <2>1 DEF IInv, LocksAgree
  <2>3. mySlot[t] \in Slots /\ mySlot[u] \in Slots
    BY <2>2 DEF IInv, TypeOK
  <2>4. mySlot[t] = mySlot[u]
    BY <2>2, <2>3 DEF IInv, SlotStable, OneSlotPerKey, Matches
  <2>5. QED
    BY <2>1, <2>3, <2>4 DEF IInv, LocksAgree
<1>3. QED
  BY <1>1, <1>2

(* Two threads in the section for one target are one on the slot and one on *)
(* the fallback mutex, whatever the size of the table.                      *)
THEOREM SlotMutualExclusion == Spec => []SlotExclusion
<1>1. QED
  BY IInvImpliesSlotExclusion, InductiveInvariant, PTL

-----------------------------------------------------------------------------
(* The table is never full when it has a slot for every thread: a full      *)
(* table has a user in every slot, all of them other threads than the one   *)
(* that scans it.                                                           *)

\* A scan that finds every slot in use has a user other than the scanner for each.
LEMMA FullTableIsCrowded ==
    ASSUME IInv, NEW t \in Threads, mySlot[t] = NoSlot,
           \A i \in Slots : slot[i].inUse
    PROVE  Crowded(t)
<1> DEFINE others == {u \in Threads \ {t} : mySlot[u] # NoSlot}
           userOf == [i \in Slots |-> CHOOSE u \in Threads : mySlot[u] = i]
<1>1. \A i \in Slots : userOf[i] \in Threads /\ mySlot[userOf[i]] = i
  BY DEF IInv, RefCountExact, Users
<1>2. \A i \in Slots : i # NoSlot
  BY SlotsAssumption DEF Slots
<1>3. userOf \in [Slots -> others]
  BY <1>1, <1>2
<1>4. userOf \in Injection(Slots, others)
  <2> HIDE DEF userOf
  <2> QED
    BY <1>1, <1>3 DEF Injection, IsInjective
<1>5. IsFiniteSet(others) /\ Cardinality(others) \in Nat
  BY ThreadsAssumption, FS_Subset, FS_CardinalityType
<1>6. Cardinality(Slots) <= Cardinality(others)
  BY <1>4, <1>5, FS_Injection
<1>7. Cardinality(Slots) = NumSlots
  BY SlotsAssumption, FS_Interval DEF Slots
<1>8. QED
  BY <1>5, <1>6, <1>7, SlotsAssumption DEF Crowded

\* Only a scan that finds the table full sends its thread to the fallback mutex.
LEMMA OverflowStepIsCrowded ==
    ASSUME IInv, [Next]_vars, NEW t \in Threads,
           pc[t] # "lockFallback", pc'[t] = "lockFallback"
    PROVE  Crowded(t)
<1>1. CASE \E u \in Threads, k \in Keys : Overflow(u, k)
  <2>1. PICK u \in Threads, k \in Keys : Overflow(u, k)
    BY <1>1
  <2>2. u = t
    BY <2>1 DEF Overflow, Begin, IInv, TypeOK
  <2>3. mySlot[t] = NoSlot
    BY <2>1, <2>2 DEF Overflow, Begin, IInv, LocksAgree
  <2>4. QED
    BY <2>1, <2>3, FullTableIsCrowded DEF Overflow
<1>2. ASSUME NEW u \in Threads, NEW k \in Keys, JoinSlot(u, k) \/ ClaimSlot(u, k)
      PROVE  FALSE
  <2>1. pc' = [pc EXCEPT ![u] = "lock"]
    BY <1>2 DEF JoinSlot, ClaimSlot, Begin
  <2>2. QED
    BY <2>1 DEF IInv, TypeOK
<1>3. ASSUME NEW u \in Threads, Progress(u) PROVE FALSE
  BY <1>3 DEF IInv, TypeOK, Progress, LockSlot, UnlockSlot,
              DropRef, LockFallback, UnlockFallback, Finish
<1>4. CASE UNCHANGED vars
  BY <1>4 DEF vars
<1>5. QED
  BY <1>1, <1>2, <1>3, <1>4 DEF Next, Acquire

(* No slot is ever lost: a request overflows to the fallback mutex only     *)
(* while every slot of the table is referenced by another thread.           *)
THEOREM OverflowMeansFullTable == Spec => OverflowOnlyWhenCrowded
<1>1. IInv /\ [Next]_vars =>
        [\A t \in Threads :
            pc[t] # "lockFallback" /\ pc'[t] = "lockFallback" => Crowded(t)]_vars
  BY OverflowStepIsCrowded
<1>2. QED
  BY <1>1, InductiveInvariant, PTL DEF Spec, OverflowOnlyWhenCrowded

EnoughSlots == Cardinality(Threads) <= NumSlots

\* With a slot for every thread no state is crowded.
LEMMA EnoughSlotsNeverCrowded ==
    ASSUME EnoughSlots, NEW t \in Threads
    PROVE  ~Crowded(t)
<1> DEFINE others == {u \in Threads \ {t} : mySlot[u] # NoSlot}
<1>1. /\ IsFiniteSet(Threads \ {t})
      /\ Cardinality(Threads \ {t}) = Cardinality(Threads) - 1
      /\ Cardinality(Threads) \in Nat
  BY ThreadsAssumption, FS_RemoveElement, FS_CardinalityType
<1>2. Cardinality(others) \in Nat /\ Cardinality(others) <= Cardinality(Threads \ {t})
  BY <1>1, FS_Subset, FS_CardinalityType
<1>3. QED
  BY <1>1, <1>2, SlotsAssumption DEF EnoughSlots, Crowded

(* Session.c 75-76 is right: as long as there are no more threads than      *)
(* slots, no request ever takes the fallback mutex.                         *)
THEOREM FallbackNeverNeeded == ASSUME EnoughSlots PROVE Spec => []NoOverflow
<1>1. Init => NoOverflow
  BY DEF Init, NoOverflow, OnFallback
<1>2. IInv /\ NoOverflow /\ [Next]_vars => NoOverflow'
  <2> SUFFICES ASSUME IInv, NoOverflow, [Next]_vars, NEW t \in Threads
               PROVE  pc'[t] \notin {"lockFallback", "holdFallback"}
    BY DEF NoOverflow, OnFallback
  <2>1. pc[t] \notin {"lockFallback", "holdFallback"}
    BY DEF NoOverflow, OnFallback
  <2>2. pc'[t] # "lockFallback"
    BY <2>1, OverflowStepIsCrowded, EnoughSlotsNeverCrowded
  <2>3. pc'[t] # "holdFallback"
    BY <2>1 DEF IInv, TypeOK, vars, Next, Acquire, JoinSlot, ClaimSlot, Overflow, Begin,
                Progress, LockSlot, UnlockSlot, DropRef, LockFallback, UnlockFallback, Finish
  <2>4. QED
    BY <2>2, <2>3
<1>3. QED
  BY <1>1, <1>2, InductiveInvariant, PTL DEF Spec

(* Session.c 99-103: with a slot for every thread, find-or-create is atomic *)
(* per target.                                                              *)
THEOREM TargetMutualExclusion == ASSUME EnoughSlots PROVE Spec => []KeyExclusion
<1>1. SlotExclusion /\ NoOverflow => KeyExclusion
  BY DEF SlotExclusion, NoOverflow, KeyExclusion
<1>2. QED
  BY <1>1, SlotMutualExclusion, FallbackNeverNeeded, PTL

-----------------------------------------------------------------------------
(* The refinement: unlocking is the abstract Leave, dropping the reference  *)
(* is invisible.                                                            *)

\* Every step is a step of TargetMutex or changes nothing it sees.
LEMMA StepRefines ==
    ASSUME IInv, [Next]_vars
    PROVE  [Abstract!Next]_(Abstract!vars)
<1> USE DEF Abstract!vars, AbsPhase, AbsTarget, InSection, OnFallback, Outside
<1>1. ASSUME NEW t \in Threads, NEW k \in Keys, JoinSlot(t, k) \/ ClaimSlot(t, k)
      PROVE  Abstract!Ask(t, k)
  <2>1. pc[t] = "idle" /\ pc' = [pc EXCEPT ![t] = "lock"] /\ key' = [key EXCEPT ![t] = k]
    BY <1>1 DEF JoinSlot, ClaimSlot, Begin
  <2>2. QED
    BY <2>1 DEF Abstract!Ask, IInv, TypeOK
<1>2. ASSUME NEW t \in Threads, NEW k \in Keys, Overflow(t, k)
      PROVE  Abstract!Ask(t, Fallback)
  BY <1>2 DEF Overflow, Begin, Abstract!Ask, IInv, TypeOK
<1>3. ASSUME NEW t \in Threads, LockSlot(t)
      PROVE  Abstract!Enter(t)
  <2>1. \A u \in Threads : pc[u] = "hold" => key[u] # key[t]
    <3> SUFFICES ASSUME NEW u \in Threads, pc[u] = "hold", key[u] = key[t]
                 PROVE  FALSE
      OBVIOUS
    <3>1. mySlot[u] \in Slots /\ mySlot[t] \in Slots
      BY <1>3 DEF IInv, LocksAgree, TypeOK, LockSlot
    <3>2. mySlot[u] = mySlot[t]
      BY <3>1, <1>3 DEF IInv, LocksAgree, SlotStable, OneSlotPerKey, Matches, LockSlot
    <3>3. QED
      BY <3>1, <3>2, <1>3, ThreadsAssumption DEF IInv, LocksAgree, LockSlot
  <2>2. key[t] # Fallback
    BY FallbackAssumption DEF IInv, TypeOK
  <2>3. \A u \in Threads : ~(AbsPhase(u) = "inside" /\ AbsTarget(u) = AbsTarget(t))
    BY <1>3, <2>1, <2>2 DEF LockSlot, IInv, TypeOK
  <2>4. QED
    BY <1>3, <2>3 DEF Abstract!Enter, LockSlot, IInv, TypeOK
<1>4. ASSUME NEW t \in Threads, LockFallback(t)
      PROVE  Abstract!Enter(t)
  <2>1. \A u \in Threads : pc[u] # "holdFallback"
    BY <1>4, ThreadsAssumption DEF LockFallback, IInv, LocksAgree
  <2>2. \A u \in Threads : key[u] # Fallback
    BY FallbackAssumption DEF IInv, TypeOK
  <2>3. \A u \in Threads : ~(AbsPhase(u) = "inside" /\ AbsTarget(u) = AbsTarget(t))
    BY <1>4, <2>1, <2>2 DEF LockFallback, IInv, TypeOK
  <2>4. QED
    BY <1>4, <2>3 DEF Abstract!Enter, LockFallback, IInv, TypeOK
<1>5. ASSUME NEW t \in Threads, UnlockSlot(t) \/ UnlockFallback(t)
      PROVE  Abstract!Leave(t)
  BY <1>5 DEF Abstract!Leave, UnlockSlot, UnlockFallback, Finish, IInv, TypeOK
<1>6. ASSUME NEW t \in Threads, DropRef(t) PROVE UNCHANGED Abstract!vars
  BY <1>6 DEF DropRef, Finish, IInv, TypeOK
<1>7. CASE UNCHANGED vars
  BY <1>7 DEF vars
<1>8. QED
  BY <1>1, <1>2, <1>3, <1>4, <1>5, <1>6, <1>7 DEF Next, Acquire, Progress, Abstract!Next

(* The lock table implements one mutex per target, and one more for the     *)
(* requests that find it full, for every number of threads and slots.       *)
THEOREM Refinement == Spec => ImplementsTargetMutex
<1>1. Init => Abstract!Init
  BY DEF Init, Abstract!Init, AbsPhase, AbsTarget, Outside, OnFallback, InSection
<1>2. IInv /\ [Next]_vars => [Abstract!Next]_(Abstract!vars)
  BY StepRefines
<1>3. QED
  BY <1>1, <1>2, InductiveInvariant, PTL
  DEF Spec, ImplementsTargetMutex, Abstract!Spec
=============================================================================
