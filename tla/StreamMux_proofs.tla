---------------------------- MODULE StreamMux_proofs ----------------------------
(***************************************************************************)
(* The hand-over-hand locking of one connection's streams is correct for   *)
(* every number of requests, slots and frames: the reader never touches a  *)
(* freed stream, the in-flight count is exact, no wake-up is lost and no   *)
(* stream ends unreported.                                                 *)
(***************************************************************************)
EXTENDS StreamMux, FiniteSetTheorems, TLAPS

-----------------------------------------------------------------------------
(* The table                                                                *)

\* session->streams[] holds finitely many streams.
LEMMA RegisteredFinite ==
    /\ IsFiniteSet(Registered)
    /\ Cardinality(Registered) \in Nat
BY MuxAssumption, FS_Subset, FS_CardinalityType DEF Registered

\* registerStream() adds exactly its stream.
LEMMA RegisteredAfterRegister ==
    ASSUME TypeOK, NEW r \in Requests, r \notin Registered,
           NEW i \in Slots, slots[i] = None, slots' = [slots EXCEPT ![i] = r]
    PROVE  /\ Registered' = Registered \cup {r}
           /\ Cardinality(Registered') = Cardinality(Registered) + 1
<1>1. Registered' = Registered \cup {r}
  BY MuxAssumption DEF Registered, TypeOK
<1>2. QED
  BY <1>1, RegisteredFinite, FS_AddElement

\* unregisterStream() removes exactly its stream.
LEMMA RegisteredAfterDetach ==
    ASSUME TypeOK, NEW r \in Requests, r \in Registered,
           slots' = [i \in Slots |-> IF slots[i] = r THEN None ELSE slots[i]]
    PROVE  /\ Registered' = Registered \ {r}
           /\ Cardinality(Registered') = Cardinality(Registered) - 1
           /\ Cardinality(Registered) > 0
<1>1. Registered' = Registered \ {r}
  BY MuxAssumption DEF Registered, TypeOK
<1>2. Cardinality(Registered') = Cardinality(Registered) - 1
  BY <1>1, RegisteredFinite, FS_RemoveElement
<1>3. IsFiniteSet(Registered')
  BY <1>1, RegisteredFinite, FS_RemoveElement
<1>4. Cardinality(Registered') \in Nat
  BY <1>3, FS_CardinalityType
<1>5. QED
  BY <1>1, <1>2, <1>4, RegisteredFinite

\* failAllStreams() goes on to the next slot.
LEMMA NextSlotType ==
    ASSUME TypeOK, NextSlot
    PROVE  sweep' \in [slot : Nat, onlyPending : BOOLEAN]
<1>1. sweep \in [slot : Nat, onlyPending : BOOLEAN]
  BY DEF TypeOK
<1>2. sweep' = [sweep EXCEPT !.slot = sweep.slot + 1] /\ sweep.slot + 1 \in Nat
  BY <1>1 DEF NextSlot
<1>3. QED
  BY <1>1, <1>2

-----------------------------------------------------------------------------
(* The inductive invariant                                                  *)

\* A connection without streams satisfies the inductive invariant.
LEMMA InitEstablishesIInv == Init => IInv
<1> SUFFICES ASSUME Init PROVE IInv
  OBVIOUS
<1> USE DEF Init, NoSweep
<1>1. TypeOK
  BY DEF TypeOK, RequestStates, ReaderStates, FrameKinds, ClientIds
<1>2. Registered = {}
  BY MuxAssumption DEF Registered
<1>3. ObjectOwned /\ LocksHeld /\ SignalledFirst /\ NoLostWakeup
  BY MuxAssumption DEF ObjectOwned, LocksHeld, SignalledFirst, NoLostWakeup, Registering, Reading
<1>4. TableOwned
  BY <1>2 DEF TableOwned, Registering
<1>5. InflightExact
  BY <1>2, FS_EmptySet DEF InflightExact
<1>6. CompletionsCounted /\ EndedIsReported
  BY DEF CompletionsCounted, EndedIsReported
<1>7. QED
  BY <1>1, <1>3, <1>4, <1>5, <1>6 DEF IInv

\* registerStream(): the object is built; only its own thread knows it.
LEMMA AssignStreamIdPreserves ==
    ASSUME IInv, NEW r \in Requests, AssignStreamId(r)
    PROVE  IInv'
<1> USE MuxAssumption DEF IInv, AssignStreamId, GoTo, readerVars
<1>1. TypeOK'
  BY DEF TypeOK, RequestStates, ReaderStates, ClientIds
<1>2. Registered' = Registered
  BY DEF Registered
<1>3. ObjectOwned'
  BY DEF TypeOK, ObjectOwned, Registering
<1>4. TableOwned' /\ InflightExact'
  BY <1>2 DEF TypeOK, TableOwned, InflightExact, Registering
<1>5. LocksHeld'
  BY <1>2 DEF TypeOK, LocksHeld, TableOwned, Registered, Registering, Reading
<1>6. SignalledFirst' /\ NoLostWakeup'
  BY DEF TypeOK, LocksHeld, SignalledFirst, NoLostWakeup, Reading
<1>7. CompletionsCounted' /\ EndedIsReported'
  BY DEF TypeOK, LocksHeld, CompletionsCounted, EndedIsReported, Reading
<1>8. QED
  BY <1>1, <1>3, <1>4, <1>5, <1>6, <1>7

\* registerStream(): the stream enters a free slot and is counted.
LEMMA RegisterStreamPreserves ==
    ASSUME IInv, NEW r \in Requests, RegisterStream(r)
    PROVE  IInv'
<1> USE MuxAssumption DEF IInv, RegisterStream, GoTo, streamVars, readerVars
<1>1. PICK i \in Slots : slots[i] = None /\ slots' = [slots EXCEPT ![i] = r]
  BY DEF RegisterStream
<1>2. r \notin Registered
  BY DEF TableOwned, Registering
<1>3. /\ Registered' = Registered \cup {r}
      /\ Cardinality(Registered') = Cardinality(Registered) + 1
  BY <1>1, <1>2, RegisteredAfterRegister
<1>4. TypeOK'
  BY <1>1 DEF TypeOK, RequestStates, ReaderStates
<1>5. ObjectOwned'
  BY DEF TypeOK, ObjectOwned, Registering
<1>6. TableOwned'
  <2>1. \A q \in Requests : pc'[q] \in Registering <=> q \in Registered'
    BY <1>3 DEF TypeOK, TableOwned, Registering
  <2>2. \A j, l \in Slots : slots'[j] = slots'[l] /\ slots'[j] # None => j = l
    BY <1>1, <1>2 DEF TypeOK, TableOwned, Registered
  <2>3. QED
    BY <2>1, <2>2 DEF TableOwned
<1>7. InflightExact'
  BY <1>1, <1>3 DEF TypeOK, InflightExact
<1>8. LocksHeld'
  BY <1>1, <1>3 DEF TypeOK, LocksHeld, TableOwned, Registered, Registering, Reading
<1>9. SignalledFirst' /\ NoLostWakeup'
  BY DEF TypeOK, LocksHeld, SignalledFirst, NoLostWakeup, Reading
<1>10. CompletionsCounted' /\ EndedIsReported'
  BY DEF TypeOK, LocksHeld, CompletionsCounted, EndedIsReported, Reading
<1>11. QED
  BY <1>4, <1>5, <1>6, <1>7, <1>8, <1>9, <1>10

\* registerStream(): no slot, and the object never was in the table.
LEMMA NoFreeSlotPreserves ==
    ASSUME IInv, NEW r \in Requests, NoFreeSlot(r)
    PROVE  IInv'
<1> USE MuxAssumption DEF IInv, NoFreeSlot, GoTo, tableVars, readerVars
<1>1. TypeOK'
  BY DEF TypeOK, RequestStates, ReaderStates
<1>2. Registered' = Registered
  BY DEF Registered
<1>3. ObjectOwned'
  BY DEF TypeOK, ObjectOwned, Registering
<1>4. TableOwned' /\ InflightExact'
  BY <1>2 DEF TypeOK, TableOwned, InflightExact, Registering
<1>5. LocksHeld'
  BY <1>2 DEF TypeOK, LocksHeld, TableOwned, Registered, Registering, Reading
<1>6. SignalledFirst' /\ NoLostWakeup'
  BY DEF TypeOK, LocksHeld, SignalledFirst, NoLostWakeup, Reading
<1>7. CompletionsCounted' /\ EndedIsReported'
  BY DEF TypeOK, LocksHeld, CompletionsCounted, EndedIsReported, Reading
<1>8. QED
  BY <1>1, <1>3, <1>4, <1>5, <1>6, <1>7

\* handleHttp2Request() changes no stream.
LEMMA SendRequestPreserves ==
    ASSUME IInv, NEW r \in Requests, SendRequest(r)
    PROVE  IInv'
<1> USE MuxAssumption DEF IInv, SendRequest, GoTo, streamVars, readerVars
<1>1. TypeOK'
  BY DEF TypeOK, RequestStates, ReaderStates
<1>2. Registered' = Registered
  BY DEF Registered
<1>3. ObjectOwned'
  BY DEF TypeOK, ObjectOwned, Registering
<1>4. TableOwned' /\ InflightExact'
  BY <1>2 DEF TypeOK, TableOwned, InflightExact, Registering
<1>5. LocksHeld'
  BY <1>2 DEF TypeOK, LocksHeld, TableOwned, Registered, Registering, Reading
<1>6. SignalledFirst' /\ NoLostWakeup'
  BY DEF TypeOK, LocksHeld, SignalledFirst, NoLostWakeup, Reading
<1>7. CompletionsCounted' /\ EndedIsReported'
  BY DEF TypeOK, LocksHeld, CompletionsCounted, EndedIsReported, Reading
<1>8. QED
  BY <1>1, <1>3, <1>4, <1>5, <1>6, <1>7

\* handleHttp2Request() fails and changes no stream.
LEMMA SendFailsPreserves ==
    ASSUME IInv, NEW r \in Requests, SendFails(r)
    PROVE  IInv'
<1> USE MuxAssumption DEF IInv, SendFails, GoTo, streamVars, readerVars
<1>1. Append(wire, streamId[r]) \in Seq(ClientIds \cup {0})
  BY DEF TypeOK
<1>2. TypeOK'
  BY <1>1 DEF TypeOK, RequestStates, ReaderStates
<1>3. Registered' = Registered
  BY DEF Registered
<1>4. ObjectOwned'
  BY DEF TypeOK, ObjectOwned, Registering
<1>5. TableOwned' /\ InflightExact'
  BY <1>3 DEF TypeOK, TableOwned, InflightExact, Registering
<1>6. LocksHeld'
  BY <1>3 DEF TypeOK, LocksHeld, TableOwned, Registered, Registering, Reading
<1>7. SignalledFirst' /\ NoLostWakeup'
  BY DEF TypeOK, LocksHeld, SignalledFirst, NoLostWakeup, Reading
<1>8. CompletionsCounted' /\ EndedIsReported'
  BY DEF TypeOK, LocksHeld, CompletionsCounted, EndedIsReported, Reading
<1>9. QED
  BY <1>2, <1>4, <1>5, <1>6, <1>7, <1>8

\* executeRequest() tests sink->completed.
LEMMA AbandonCheckPreserves ==
    ASSUME IInv, NEW r \in Requests, AbandonCheck(r)
    PROVE  IInv'
<1> USE MuxAssumption DEF IInv, AbandonCheck, GoTo, streamVars, tableVars, readerVars
<1>1. TypeOK'
  BY DEF TypeOK, RequestStates, ReaderStates
<1>2. Registered' = Registered
  BY DEF Registered
<1>3. ObjectOwned'
  BY DEF TypeOK, ObjectOwned, Registering
<1>4. TableOwned' /\ InflightExact'
  BY <1>2 DEF TypeOK, TableOwned, InflightExact, Registering
<1>5. LocksHeld'
  BY <1>2 DEF TypeOK, LocksHeld, TableOwned, Registered, Registering, Reading
<1>6. SignalledFirst' /\ NoLostWakeup'
  BY DEF TypeOK, LocksHeld, SignalledFirst, NoLostWakeup, Reading
<1>7. CompletionsCounted' /\ EndedIsReported'
  BY DEF TypeOK, LocksHeld, CompletionsCounted, EndedIsReported, Reading
<1>8. QED
  BY <1>1, <1>3, <1>4, <1>5, <1>6, <1>7

\* executeRequest() ends the callbacks of a request that was not sent.
LEMMA AbandonCompletePreserves ==
    ASSUME IInv, NEW r \in Requests, AbandonComplete(r)
    PROVE  IInv'
<1> USE MuxAssumption DEF IInv, AbandonComplete, GoTo, tableVars, readerVars
<1>1. TypeOK'
  BY DEF TypeOK, RequestStates, ReaderStates
<1>2. Registered' = Registered
  BY DEF Registered
<1>3. ObjectOwned'
  BY DEF TypeOK, ObjectOwned, Registering
<1>4. TableOwned' /\ InflightExact'
  BY <1>2 DEF TypeOK, TableOwned, InflightExact, Registering
<1>5. LocksHeld'
  BY <1>2 DEF TypeOK, LocksHeld, TableOwned, Registered, Registering, Reading
<1>6. SignalledFirst' /\ NoLostWakeup'
  BY DEF TypeOK, LocksHeld, SignalledFirst, NoLostWakeup, Reading
<1>7. CompletionsCounted' /\ EndedIsReported'
  BY DEF TypeOK, LocksHeld, CompletionsCounted, EndedIsReported, Reading
<1>8. QED
  BY <1>1, <1>3, <1>4, <1>5, <1>6, <1>7

\* awaitStream(): a thread goes to sleep only on a stream that has not ended.
LEMMA AwaitPreserves ==
    ASSUME IInv, NEW r \in Requests, Await(r)
    PROVE  IInv'
<1> USE MuxAssumption DEF IInv, Await, GoTo, streamVars, tableVars, readerVars
<1>1. TypeOK'
  BY DEF TypeOK, RequestStates, ReaderStates
<1>2. Registered' = Registered
  BY DEF Registered
<1>3. ObjectOwned'
  BY DEF TypeOK, ObjectOwned, Registering
<1>4. TableOwned' /\ InflightExact'
  BY <1>2 DEF TypeOK, TableOwned, InflightExact, Registering
<1>5. LocksHeld'
  BY <1>2 DEF TypeOK, LocksHeld, TableOwned, Registered, Registering, Reading
<1>6. SignalledFirst' /\ NoLostWakeup'
  BY DEF TypeOK, LocksHeld, SignalledFirst, NoLostWakeup, Reading
<1>7. CompletionsCounted' /\ EndedIsReported'
  BY DEF TypeOK, LocksHeld, CompletionsCounted, EndedIsReported, Reading
<1>8. QED
  BY <1>1, <1>3, <1>4, <1>5, <1>6, <1>7

\* awaitStream(): woken by a signal.
LEMMA WakePreserves ==
    ASSUME IInv, NEW r \in Requests, Wake(r)
    PROVE  IInv'
<1> USE MuxAssumption DEF IInv, Wake, GoTo, tableVars, readerVars
<1>1. TypeOK'
  BY DEF TypeOK, RequestStates, ReaderStates
<1>2. Registered' = Registered
  BY DEF Registered
<1>3. ObjectOwned'
  BY DEF TypeOK, ObjectOwned, Registering
<1>4. TableOwned' /\ InflightExact'
  BY <1>2 DEF TypeOK, TableOwned, InflightExact, Registering
<1>5. LocksHeld'
  BY <1>2 DEF TypeOK, LocksHeld, TableOwned, Registered, Registering, Reading
<1>6. SignalledFirst' /\ NoLostWakeup'
  BY DEF TypeOK, LocksHeld, SignalledFirst, NoLostWakeup, Reading
<1>7. CompletionsCounted' /\ EndedIsReported'
  BY DEF TypeOK, LocksHeld, CompletionsCounted, EndedIsReported, Reading
<1>8. QED
  BY <1>1, <1>3, <1>4, <1>5, <1>6, <1>7

\* awaitStream(): the deadline passed.
LEMMA TimeOutPreserves ==
    ASSUME IInv, NEW r \in Requests, TimeOut(r)
    PROVE  IInv'
<1> USE MuxAssumption DEF IInv, TimeOut, GoTo, tableVars, readerVars
<1>1. TypeOK'
  BY DEF TypeOK, RequestStates, ReaderStates
<1>2. Registered' = Registered
  BY DEF Registered
<1>3. ObjectOwned'
  BY DEF TypeOK, ObjectOwned, Registering
<1>4. TableOwned' /\ InflightExact'
  BY <1>2 DEF TypeOK, TableOwned, InflightExact, Registering
<1>5. LocksHeld'
  BY <1>2 DEF TypeOK, LocksHeld, TableOwned, Registered, Registering, Reading
<1>6. SignalledFirst' /\ NoLostWakeup'
  BY DEF TypeOK, LocksHeld, SignalledFirst, NoLostWakeup, Reading
<1>7. CompletionsCounted' /\ EndedIsReported'
  BY DEF TypeOK, LocksHeld, CompletionsCounted, EndedIsReported, Reading
<1>8. QED
  BY <1>1, <1>3, <1>4, <1>5, <1>6, <1>7

\* finalizeStreamIntoBasket() keeps the stream registered.
LEMMA FinalizePreserves ==
    ASSUME IInv, NEW r \in Requests, Finalize(r)
    PROVE  IInv'
<1> USE MuxAssumption DEF IInv, Finalize, GoTo, streamVars, tableVars, readerVars
<1>1. TypeOK'
  BY DEF TypeOK, RequestStates, ReaderStates
<1>2. Registered' = Registered
  BY DEF Registered
<1>3. ObjectOwned'
  BY DEF TypeOK, ObjectOwned, Registering
<1>4. TableOwned' /\ InflightExact'
  BY <1>2 DEF TypeOK, TableOwned, InflightExact, Registering
<1>5. LocksHeld'
  BY <1>2 DEF TypeOK, LocksHeld, TableOwned, Registered, Registering, Reading
<1>6. SignalledFirst' /\ NoLostWakeup'
  BY DEF TypeOK, LocksHeld, SignalledFirst, NoLostWakeup, Reading
<1>7. CompletionsCounted' /\ EndedIsReported'
  BY DEF TypeOK, LocksHeld, CompletionsCounted, EndedIsReported, Reading
<1>8. QED
  BY <1>1, <1>3, <1>4, <1>5, <1>6, <1>7

\* unregisterStream(): the stream leaves the table and is counted off.
LEMMA DetachPreserves ==
    ASSUME IInv, NEW r \in Requests, Detach(r)
    PROVE  IInv'
<1> USE MuxAssumption DEF IInv, Detach, GoTo, streamVars, readerVars
<1>1. slots' = [i \in Slots |-> IF slots[i] = r THEN None ELSE slots[i]]
  BY DEF Detach
<1>2. r \in Registered
  BY DEF TableOwned, Registering
<1>3. /\ Registered' = Registered \ {r}
      /\ Cardinality(Registered') = Cardinality(Registered) - 1
      /\ Cardinality(Registered) > 0
  BY <1>1, <1>2, RegisteredAfterDetach
<1>4. TypeOK'
  BY <1>1 DEF TypeOK, RequestStates, ReaderStates
<1>5. ObjectOwned'
  BY DEF TypeOK, ObjectOwned, Registering
<1>6. TableOwned'
  BY <1>1, <1>3 DEF TypeOK, TableOwned, Registering
<1>7. InflightExact'
  BY <1>1, <1>3 DEF TypeOK, InflightExact
<1>8. LocksHeld'
  BY <1>1, <1>3 DEF TypeOK, LocksHeld, TableOwned, Registered, Registering, Reading
<1>9. SignalledFirst' /\ NoLostWakeup'
  BY DEF TypeOK, LocksHeld, SignalledFirst, NoLostWakeup, Reading
<1>10. CompletionsCounted' /\ EndedIsReported'
  BY DEF TypeOK, LocksHeld, CompletionsCounted, EndedIsReported, Reading
<1>11. QED
  BY <1>4, <1>5, <1>6, <1>7, <1>8, <1>9, <1>10

\* unregisterStream(): past the barrier, the reader does not hold the stream.
LEMMA BarrierPreserves ==
    ASSUME IInv, NEW r \in Requests, Barrier(r)
    PROVE  IInv'
<1> USE MuxAssumption DEF IInv, Barrier, GoTo, streamVars, tableVars, readerVars
<1>1. TypeOK'
  BY DEF TypeOK, RequestStates, ReaderStates
<1>2. Registered' = Registered
  BY DEF Registered
<1>3. ObjectOwned'
  BY DEF TypeOK, ObjectOwned, Registering
<1>4. TableOwned' /\ InflightExact'
  BY <1>2 DEF TypeOK, TableOwned, InflightExact, Registering
<1>5. LocksHeld'
  BY <1>2 DEF TypeOK, LocksHeld, TableOwned, Registered, Registering, Reading
<1>6. SignalledFirst' /\ NoLostWakeup'
  BY DEF TypeOK, LocksHeld, SignalledFirst, NoLostWakeup, Reading
<1>7. CompletionsCounted' /\ EndedIsReported'
  BY DEF TypeOK, LocksHeld, CompletionsCounted, EndedIsReported, Reading
<1>8. QED
  BY <1>1, <1>3, <1>4, <1>5, <1>6, <1>7

\* unregisterStream(): the stream is in no slot and not in the reader's hands.
LEMMA FreeStreamPreserves ==
    ASSUME IInv, NEW r \in Requests, FreeStream(r)
    PROVE  IInv'
<1> USE MuxAssumption DEF IInv, FreeStream, GoTo, tableVars, readerVars
<1>1. TypeOK'
  BY DEF TypeOK, RequestStates, ReaderStates
<1>2. Registered' = Registered
  BY DEF Registered
<1>3. ObjectOwned'
  BY DEF TypeOK, ObjectOwned, Registering
<1>4. TableOwned' /\ InflightExact'
  BY <1>2 DEF TypeOK, TableOwned, InflightExact, Registering
<1>5. LocksHeld'
  BY <1>2 DEF TypeOK, LocksHeld, TableOwned, Registered, Registering, Reading
<1>6. SignalledFirst' /\ NoLostWakeup'
  BY DEF TypeOK, LocksHeld, SignalledFirst, NoLostWakeup, Reading
<1>7. CompletionsCounted' /\ EndedIsReported'
  BY DEF TypeOK, LocksHeld, CompletionsCounted, EndedIsReported, Reading
<1>8. QED
  BY <1>1, <1>3, <1>4, <1>5, <1>6, <1>7

\* readerDispatch() finds a stream and keeps the table locked.
LEMMA DispatchFramePreserves ==
    ASSUME IInv, NEW k \in FrameKinds, NEW r \in Requests, DispatchFrame(k, r)
    PROVE  IInv'
<1> USE MuxAssumption DEF IInv, DispatchFrame, streamVars, tableVars
<1>1. TypeOK'
  BY DEF TypeOK, RequestStates, ReaderStates, FrameKinds
<1>2. Registered' = Registered
  BY DEF Registered
<1>3. ObjectOwned'
  BY DEF TypeOK, ObjectOwned, Registering
<1>4. TableOwned' /\ InflightExact'
  BY <1>2 DEF TypeOK, TableOwned, InflightExact, Registering
<1>5. LocksHeld'
  BY <1>2 DEF TypeOK, LocksHeld, TableOwned, Registered, Registering, Reading
<1>6. SignalledFirst' /\ NoLostWakeup'
  BY DEF TypeOK, LocksHeld, SignalledFirst, NoLostWakeup, Reading
<1>7. CompletionsCounted' /\ EndedIsReported'
  BY DEF TypeOK, LocksHeld, CompletionsCounted, EndedIsReported, Reading
<1>8. QED
  BY <1>1, <1>3, <1>4, <1>5, <1>6, <1>7

\* readerDispatch() locks the stream, which cannot have left the table yet.
LEMMA LockTargetPreserves ==
    ASSUME IInv, LockTarget
    PROVE  IInv'
<1> USE MuxAssumption DEF IInv, LockTarget, streamVars, tableVars
<1>1. TypeOK'
  BY DEF TypeOK, RequestStates, ReaderStates, LocksHeld, Registered
<1>2. Registered' = Registered
  BY DEF Registered
<1>3. ObjectOwned'
  BY DEF TypeOK, ObjectOwned, Registering
<1>4. TableOwned' /\ InflightExact'
  BY <1>2 DEF TypeOK, TableOwned, InflightExact, Registering
<1>5. LocksHeld'
  BY <1>2 DEF TypeOK, LocksHeld, TableOwned, Registered, Registering, Reading
<1>6. SignalledFirst' /\ NoLostWakeup'
  BY DEF TypeOK, LocksHeld, SignalledFirst, NoLostWakeup, Reading
<1>7. CompletionsCounted' /\ EndedIsReported'
  BY DEF TypeOK, LocksHeld, CompletionsCounted, EndedIsReported, Reading
<1>8. QED
  BY <1>1, <1>3, <1>4, <1>5, <1>6, <1>7

\* handleStreamFrame() runs with the stream locked.
LEMMA HandleFramePreserves ==
    ASSUME IInv, HandleFrame
    PROVE  IInv'
<1> USE MuxAssumption DEF IInv, HandleFrame, tableVars
<1>1. TypeOK'
  BY DEF TypeOK, RequestStates, ReaderStates, LocksHeld, Reading
<1>2. Registered' = Registered
  BY DEF Registered
<1>3. ObjectOwned'
  BY DEF TypeOK, ObjectOwned, Registering
<1>4. TableOwned' /\ InflightExact'
  BY <1>2 DEF TypeOK, TableOwned, InflightExact, Registering
<1>5. LocksHeld'
  BY <1>2 DEF TypeOK, LocksHeld, TableOwned, Registered, Registering, Reading
<1>6. SignalledFirst' /\ NoLostWakeup'
  BY DEF TypeOK, LocksHeld, SignalledFirst, NoLostWakeup, Reading
<1>7. CompletionsCounted' /\ EndedIsReported'
  BY DEF TypeOK, LocksHeld, CompletionsCounted, EndedIsReported, Reading
<1>8. QED
  BY <1>1, <1>3, <1>4, <1>5, <1>6, <1>7

\* endStreamReading() signals before it completes or unlocks.
LEMMA EndReadingPreserves ==
    ASSUME IInv, EndReading
    PROVE  IInv'
<1> USE MuxAssumption DEF IInv, EndReading, tableVars, Signal, Over, Fires, LetGo
<1>1. TypeOK'
  BY DEF TypeOK, RequestStates, ReaderStates, FrameKinds, LocksHeld, Reading
<1>2. Registered' = Registered
  BY DEF Registered
<1>3. ObjectOwned'
  BY DEF TypeOK, ObjectOwned, Registering
<1>4. TableOwned' /\ InflightExact'
  BY <1>2 DEF TypeOK, TableOwned, InflightExact, Registering
<1>5. LocksHeld'
  BY <1>2 DEF TypeOK, LocksHeld, TableOwned, Registered, Registering, Reading
<1>6. SignalledFirst' /\ NoLostWakeup'
  <2>1. CASE Fires
    <3>1. target \in Requests /\ lock' = lock /\ lock[target] = Reader
      BY <2>1 DEF LocksHeld, Reading
    <3>2. Over /\ Signal(target) /\ reader' = "firing" /\ UNCHANGED <<pc, target>>
      BY <2>1
    <3>3. pc[target] = "waiting" => signalled'[target]
      BY <3>1, <3>2 DEF TypeOK
    <3>4. \A r \in Requests : r # target => signalled'[r] = signalled[r] /\ ended'[r] = ended[r]
      BY <3>1, <3>2 DEF TypeOK
    <3>5. SignalledFirst'
      BY <3>2, <3>3 DEF SignalledFirst
    <3>6. NoLostWakeup'
      BY <3>1, <3>2, <3>3, <3>4 DEF NoLostWakeup
    <3>7. QED
      BY <3>5, <3>6
  <2>2. CASE ~Fires
    BY <2>2 DEF TypeOK, LocksHeld, SignalledFirst, NoLostWakeup, Reading
  <2>3. QED
    BY <2>1, <2>2
<1>7. CompletionsCounted' /\ EndedIsReported'
  BY DEF TypeOK, LocksHeld, CompletionsCounted, EndedIsReported, Reading
<1>8. QED
  BY <1>1, <1>3, <1>4, <1>5, <1>6, <1>7

\* completeResponseSink() on the reader thread.
LEMMA FireCompletePreserves ==
    ASSUME IInv, FireComplete
    PROVE  IInv'
<1> USE MuxAssumption DEF IInv, FireComplete, tableVars, LetGo
<1>1. target \in Requests
  BY DEF LocksHeld, Reading
<1>2. TypeOK'
  BY <1>1 DEF TypeOK, RequestStates, ReaderStates, FrameKinds
<1>3. Registered' = Registered
  BY DEF Registered
<1>4. ObjectOwned'
  BY DEF TypeOK, ObjectOwned, Registering
<1>5. TableOwned' /\ InflightExact'
  BY <1>3 DEF TypeOK, TableOwned, InflightExact, Registering
<1>6. LocksHeld'
  BY <1>3 DEF TypeOK, LocksHeld, TableOwned, Registered, Registering, Reading
<1>7. SignalledFirst' /\ NoLostWakeup'
  BY DEF TypeOK, LocksHeld, SignalledFirst, NoLostWakeup, Reading
<1>8. CompletionsCounted' /\ EndedIsReported'
  BY DEF TypeOK, LocksHeld, CompletionsCounted, EndedIsReported, Reading
<1>9. QED
  BY <1>2, <1>4, <1>5, <1>6, <1>7, <1>8

\* failAllStreams() locks the table.
LEMMA BeginSweepPreserves ==
    ASSUME IInv, NEW p \in BOOLEAN, BeginSweep(p)
    PROVE  IInv'
<1> USE MuxAssumption DEF IInv, BeginSweep, streamVars, tableVars
<1>1. TypeOK'
  BY DEF TypeOK, RequestStates, ReaderStates
<1>2. Registered' = Registered
  BY DEF Registered
<1>3. ObjectOwned'
  BY DEF TypeOK, ObjectOwned, Registering
<1>4. TableOwned' /\ InflightExact'
  BY <1>2 DEF TypeOK, TableOwned, InflightExact, Registering
<1>5. LocksHeld'
  BY <1>2 DEF TypeOK, LocksHeld, TableOwned, Registered, Registering, Reading
<1>6. SignalledFirst' /\ NoLostWakeup'
  BY DEF TypeOK, LocksHeld, SignalledFirst, NoLostWakeup, Reading
<1>7. CompletionsCounted' /\ EndedIsReported'
  BY DEF TypeOK, LocksHeld, CompletionsCounted, EndedIsReported, Reading
<1>8. QED
  BY <1>1, <1>3, <1>4, <1>5, <1>6, <1>7

\* failAllStreams() passes over a slot.
LEMMA SweepSkipPreserves ==
    ASSUME IInv, SweepSkip
    PROVE  IInv'
<1> USE MuxAssumption DEF IInv, SweepSkip, streamVars, tableVars, NextSlot, Doomed
<1>1. sweep' \in [slot : Nat, onlyPending : BOOLEAN]
  BY NextSlotType DEF TypeOK
<1>2. TypeOK'
  BY <1>1 DEF TypeOK, RequestStates, ReaderStates
<1>3. Registered' = Registered
  BY DEF Registered
<1>4. ObjectOwned'
  BY DEF TypeOK, ObjectOwned, Registering
<1>5. TableOwned' /\ InflightExact'
  BY <1>3 DEF TypeOK, TableOwned, InflightExact, Registering
<1>6. LocksHeld'
  BY <1>3 DEF TypeOK, LocksHeld, TableOwned, Registered, Registering, Reading
<1>7. SignalledFirst' /\ NoLostWakeup'
  BY DEF TypeOK, LocksHeld, SignalledFirst, NoLostWakeup, Reading
<1>8. CompletionsCounted' /\ EndedIsReported'
  BY DEF TypeOK, LocksHeld, CompletionsCounted, EndedIsReported, Reading
<1>9. QED
  BY <1>2, <1>4, <1>5, <1>6, <1>7, <1>8

\* failAllStreams() fails one stream under its lock.
LEMMA SweepFailPreserves ==
    ASSUME IInv, SweepFail
    PROVE  IInv'
<1> USE MuxAssumption DEF IInv, SweepFail, tableVars, Signal, NextSlot, Doomed
<1>1. sweep' \in [slot : Nat, onlyPending : BOOLEAN]
  BY NextSlotType DEF TypeOK
<1>2. slots[sweep.slot] \in Requests
  BY DEF TypeOK
<1>3. TypeOK'
  BY <1>1, <1>2 DEF TypeOK, RequestStates, ReaderStates
<1>4. Registered' = Registered
  BY DEF Registered
<1>5. ObjectOwned'
  BY DEF TypeOK, ObjectOwned, Registering
<1>6. TableOwned' /\ InflightExact'
  BY <1>4 DEF TypeOK, TableOwned, InflightExact, Registering
<1>7. LocksHeld'
  BY <1>4 DEF TypeOK, LocksHeld, TableOwned, Registered, Registering, Reading
<1>8. SignalledFirst' /\ NoLostWakeup'
  BY DEF TypeOK, LocksHeld, SignalledFirst, NoLostWakeup, Reading
<1>9. CompletionsCounted' /\ EndedIsReported'
  BY DEF TypeOK, LocksHeld, CompletionsCounted, EndedIsReported, Reading
<1>10. QED
  BY <1>3, <1>5, <1>6, <1>7, <1>8, <1>9

\* failAllStreams() ends the callbacks of one stream.
LEMMA SweepFirePreserves ==
    ASSUME IInv, SweepFire
    PROVE  IInv'
<1> USE MuxAssumption DEF IInv, SweepFire, tableVars, NextSlot
<1>1. sweep' \in [slot : Nat, onlyPending : BOOLEAN]
  BY NextSlotType DEF TypeOK
<1>2. slots[sweep.slot] \in Requests
  BY DEF TypeOK, LocksHeld
<1>3. TypeOK'
  BY <1>1, <1>2 DEF TypeOK, RequestStates, ReaderStates
<1>4. Registered' = Registered
  BY DEF Registered
<1>5. ObjectOwned'
  BY DEF TypeOK, ObjectOwned, Registering
<1>6. TableOwned' /\ InflightExact'
  BY <1>4 DEF TypeOK, TableOwned, InflightExact, Registering
<1>7. LocksHeld'
  BY <1>4 DEF TypeOK, LocksHeld, TableOwned, Registered, Registering, Reading
<1>8. SignalledFirst' /\ NoLostWakeup'
  BY DEF TypeOK, LocksHeld, SignalledFirst, NoLostWakeup, Reading
<1>9. CompletionsCounted' /\ EndedIsReported'
  BY DEF TypeOK, LocksHeld, CompletionsCounted, EndedIsReported, Reading
<1>10. QED
  BY <1>3, <1>5, <1>6, <1>7, <1>8, <1>9

\* failAllStreams() unlocks the table.
LEMMA EndSweepPreserves ==
    ASSUME IInv, EndSweep
    PROVE  IInv'
<1> USE MuxAssumption DEF IInv, EndSweep, streamVars, tableVars, NoSweep
<1>1. TypeOK'
  BY DEF TypeOK, RequestStates, ReaderStates
<1>2. Registered' = Registered
  BY DEF Registered
<1>3. ObjectOwned'
  BY DEF TypeOK, ObjectOwned, Registering
<1>4. TableOwned' /\ InflightExact'
  BY <1>2 DEF TypeOK, TableOwned, InflightExact, Registering
<1>5. LocksHeld'
  BY <1>2 DEF TypeOK, LocksHeld, TableOwned, Registered, Registering, Reading
<1>6. SignalledFirst' /\ NoLostWakeup'
  BY DEF TypeOK, LocksHeld, SignalledFirst, NoLostWakeup, Reading
<1>7. CompletionsCounted' /\ EndedIsReported'
  BY DEF TypeOK, LocksHeld, CompletionsCounted, EndedIsReported, Reading
<1>8. QED
  BY <1>1, <1>3, <1>4, <1>5, <1>6, <1>7

\* Every step of the request threads and of the reader preserves it.
LEMMA NextPreservesIInv == IInv /\ [Next]_vars => IInv'
<1> SUFFICES ASSUME IInv, [Next]_vars PROVE IInv'
  OBVIOUS
<1>1. CASE UNCHANGED vars
  BY <1>1 DEF vars, streamVars, tableVars, readerVars, IInv, TypeOK, ObjectOwned, TableOwned,
         InflightExact, LocksHeld, SignalledFirst, NoLostWakeup, CompletionsCounted,
         EndedIsReported, Registered
<1>2. ASSUME NEW r \in Requests, RequestStep(r) PROVE IInv'
  BY <1>2, AssignStreamIdPreserves, RegisterStreamPreserves, NoFreeSlotPreserves,
     AbandonCheckPreserves, AbandonCompletePreserves, AwaitPreserves, WakePreserves, FinalizePreserves,
     DetachPreserves, BarrierPreserves, FreeStreamPreserves DEF RequestStep
<1>3. CASE ReaderStep
  BY <1>3, LockTargetPreserves, EndReadingPreserves,
     FireCompletePreserves, SweepSkipPreserves, SweepFailPreserves, SweepFirePreserves,
     EndSweepPreserves DEF ReaderStep
<1>4. QED
  BY <1>1, <1>2, <1>3, SendRequestPreserves, SendFailsPreserves, TimeOutPreserves, HandleFramePreserves,
     DispatchFramePreserves, BeginSweepPreserves DEF Next

-----------------------------------------------------------------------------
(* The theorems                                                             *)

\* The inductive invariant holds in every reachable state.
THEOREM InductiveInvariant == Spec => []IInv
BY InitEstablishesIInv, NextPreservesIInv, PTL DEF Spec

\* Every variable keeps its type; the stream ids registerStream() draws are odd.
THEOREM TypeCorrect == Spec => []TypeOK
<1>1. IInv => TypeOK
  BY DEF IInv
<1>2. QED
  BY <1>1, InductiveInvariant, PTL

\* readerDispatch() and failAllStreams() never touch a stream unregisterStream()
\* has freed, however frames, timeouts and sweeps interleave.
THEOREM ReaderNeverTouchesFreedStream == Spec => []NoUseAfterFree
<1>1. IInv => NoUseAfterFree
  <2> SUFFICES ASSUME IInv PROVE NoUseAfterFree
    OBVIOUS
  <2>1. \A i \in Slots : slots[i] # None => life[slots[i]] = "live"
    BY DEF IInv, TypeOK, TableOwned, ObjectOwned, Registered
  <2>2. reader \in {"found", "handling", "ending", "firing"} => life[target] = "live"
    BY DEF IInv, TypeOK, LocksHeld, TableOwned, ObjectOwned, Registered, Registering, Reading
  <2>3. QED
    BY <2>1, <2>2 DEF NoUseAfterFree
<1>2. QED
  BY <1>1, InductiveInvariant, PTL

\* session->inflightCount is the number of registered streams.
THEOREM InflightCountExact == Spec => []InflightExact
<1>1. IInv => InflightExact
  BY DEF IInv
<1>2. QED
  BY <1>1, InductiveInvariant, PTL

\* awaitStream() never sleeps through the end of its stream, and no stream ends
\* without its onComplete.
THEOREM EndIsNoticed == Spec => [](NoLostWakeup /\ EndedIsReported)
<1>1. IInv => NoLostWakeup /\ EndedIsReported
  BY DEF IInv
<1>2. QED
  BY <1>1, InductiveInvariant, PTL
=============================================================================
