------------------------ MODULE AsyncRegistry_proofs ------------------------
(***************************************************************************)
(* Proofs about AsyncRegistry, for every set of requests, any assignment of *)
(* polling threads to handles and every size of the registry.               *)
(*                                                                         *)
(* The basket of a request that has returned its handle is in one of three  *)
(* places: published in exactly one slot, in the hands of the one poll that *)
(* took it out of there, or freed.  That and what each place says about the *)
(* stream is inductive; the properties are read off it.                     *)
(***************************************************************************)
EXTENDS AsyncRegistry, TLAPS

Holding(r) == pc[r] \in {"execute", "sent", "publish"}
\* A poll has taken its snapshot of the entry and not yet reported.
Snapped == {"check", "finalize", "copy", "detach", "free"}

\* A request on its way to "returned": what it has acquired so far.
StartingOK(r) ==
    /\ pc[r] = "start" => /\ basket[r] = "absent" /\ stream[r] = "absent"
                          /\ error[r] = "none" /\ worker[r] = "none" /\ attempts[r] = 0
    /\ pc[r] = "execute" => /\ stream[r] = "absent" /\ error[r] = "none"
                            /\ worker[r] = "none" /\ attempts[r] <= 1
    /\ pc[r] = "refused" => basket[r] = "freed" /\ stream[r] = "absent"
    /\ r \notin Http11 => worker[r] = "none"
    /\ r \notin Http11 /\ pc[r] = "sent" => error[r] = "none"
    /\ r \notin Http11 /\ pc[r] = "publish" /\ stream[r] = "live" => error[r] = "none"

\* It holds a slot of its own that nothing is published in yet.
HoldingOK(r) ==
    Holding(r) => /\ basket[r] = "live"
                  /\ slotOf[r] \in Slots
                  /\ entry[slotOf[r]].inUse
                  /\ entry[slotOf[r]].basket = None
                  /\ \A s \in Requests : Holding(s) /\ slotOf[s] = slotOf[r] => s = r

\* A published basket is live, in one slot only, and the slot knows of its stream.
EntryOK(i) ==
    /\ ~entry[i].inUse => entry[i].basket = None
    /\ \A r \in Requests : entry[i].basket = r =>
        /\ pc[r] = "returned" /\ basket[r] = "live"
        /\ entry[i].hasStream => stream[r] = "live"
        /\ r \notin Http11 /\ stream[r] = "live" => entry[i].hasStream
        /\ \A j \in Slots : entry[j].basket = r => j = i

\* A returned request's basket is published, being freed, or freed with its stream.
ReturnedOK(r) ==
    pc[r] = "returned" =>
        \/ /\ basket[r] = "live"
           /\ \/ \E i \in Slots : entry[i].basket = r
              \/ \E p \in Polls : p[1] = r /\ poll[p].at = "free"
        \/ basket[r] = "freed" /\ (r \notin Http11 => stream[r] # "live")

\* The poll that frees a basket is the only one, and has it out of the registry.
FreeOK(p) ==
    poll[p].at = "free" =>
        /\ basket[p[1]] = "live"
        /\ \A i \in Slots : entry[i].basket # p[1]
        /\ \A q \in Polls : q[1] = p[1] /\ poll[q].at = "free" => q = p

\* A poll's snapshot knows of the stream of an HTTP/2 request as long as there is one.
PollOK(p) ==
    /\ poll[p].at # "idle" => pc[p[1]] = "returned"
    /\ poll[p].at \in Snapped /\ p[1] \notin Http11 /\ stream[p[1]] = "live" => poll[p].hasStream
    /\ poll[p].at \in {"detach", "free"} => poll[p].code = 1
    /\ poll[p].at = "return" => poll[p].code \in {1, 2, -1}
    /\ poll[p].code \in {2, -1} => p[1] \in Truncates

\* Only the sole poller of a handle takes it out of the registry.
SoleOK(p) ==
    SolePoller(p[1]) /\ pc[p[1]] = "returned" =>
        /\ ~down /\ \/ poll[p].at \in {"idle", "lookup", "check", "finalize", "copy", "detach"}
                    \/ poll[p].at = "return" /\ poll[p].code = 2
             => \E i \in Slots : entry[i].basket = p[1]
        /\ poll[p].at \in Snapped /\ poll[p].hasStream => stream[p[1]] = "live"
        /\ poll[p].at = "return" /\ poll[p].code = 1 => basket[p[1]] = "freed"
        /\ poll[p].at = "stopped" /\ p[1] \notin Truncates => basket[p[1]] = "freed"

\* After cleanupEnv() the registry is empty and no call is in progress.
DownOK ==
    down => /\ Quiet
            /\ \A i \in Slots : entry[i].basket = None
            /\ \A r \in Requests : basket[r] # "live"

IInv ==
    /\ TypeOK
    /\ \A r \in Requests : StartingOK(r) /\ HoldingOK(r) /\ ReturnedOK(r)
    /\ \A i \in Slots : EntryOK(i)
    /\ \A p \in Polls : FreeOK(p) /\ PollOK(p) /\ SoleOK(p)
    /\ DownOK

-----------------------------------------------------------------------------
\* handleResponse() returns: the call is over, and its locals are gone.
LEMMA ReturnEndsCall ==
    ASSUME TypeOK, NEW p \in Polls, NEW code \in Int, Return(p, code)
    PROVE  /\ poll' \in [Polls -> PollType]
           /\ \A q \in Polls \ {p} : poll'[q] = poll[q]
           /\ poll'[p].at = IF code \in {0, 2} THEN "idle" ELSE "stopped"
           /\ poll'[p].code = 0
<1>. DEFINE where == IF code \in {0, 2} THEN "idle" ELSE "stopped"
            returned == [IdlePoll EXCEPT !.at = where]
<1>1. poll \in [Polls -> PollType] /\ poll' = [poll EXCEPT ![p] = returned]
  BY DEF TypeOK, Return
<1>2. where \in {"idle", "stopped"}
  OBVIOUS
<1>. HIDE DEF where
<1>3. returned \in PollType /\ returned.at = where /\ returned.code = 0
  BY <1>2 DEF IdlePoll, PollType
<1>. HIDE DEF returned
<1>4. poll'[p] = returned /\ poll' \in [Polls -> PollType] /\ \A q \in Polls \ {p} : poll'[q] = poll[q]
  BY <1>1, <1>3
<1>. QED BY <1>3, <1>4 DEF where

\* Initially the registry is empty and nothing has been allocated.
LEMMA InitHolds == Init => IInv
<1>. SUFFICES ASSUME Init
              PROVE  IInv
  OBVIOUS
<1>. USE RegistryAssumption
<1>1. TypeOK
  <2>1. entry \in [Slots -> EntryType]
    BY DEF Init, FreeEntry, EntryType
  <2>2. poll \in [Polls -> PollType]
    BY DEF Init, IdlePoll, PollType
  <2>3. slotOf \in [Requests -> Slots \cup {NoSlot}] /\ attempts \in [Requests -> 0 .. 2]
    BY DEF Init
  <2>4. pc \in [Requests -> {"start", "execute", "sent", "publish", "returned", "refused"}]
    BY DEF Init
  <2>. QED BY <2>1, <2>2, <2>3, <2>4 DEF Init, TypeOK, Errors
<1>2. \A r \in Requests : StartingOK(r) /\ HoldingOK(r) /\ ReturnedOK(r)
  BY DEF Init, StartingOK, HoldingOK, Holding, ReturnedOK
<1>3. \A i \in Slots : EntryOK(i)
  BY DEF Init, EntryOK, FreeEntry
<1>4. \A p \in Polls : FreeOK(p) /\ PollOK(p) /\ SoleOK(p)
  BY DEF Init, FreeOK, PollOK, SoleOK, Snapped, IdlePoll
<1>5. DownOK
  BY DEF Init, DownOK
<1>. QED BY <1>1, <1>2, <1>3, <1>4, <1>5 DEF IInv

\* asyncAllocEntry(): a slot that was free has one holder.
LEMMA AllocEntryStep ==
    ASSUME IInv, NEW r \in Requests, AllocEntry(r)
    PROVE  IInv'
<1>. USE RegistryAssumption DEF IInv, AllocEntry
<1>1. TypeOK'
  <2>1. [FreeEntry EXCEPT !.inUse = TRUE] \in EntryType
    BY DEF FreeEntry, EntryType
  <2>. QED BY <2>1 DEF TypeOK
<1>2. \A s \in Requests : StartingOK(s)'
  BY DEF TypeOK, StartingOK
<1>3. \A s \in Requests : HoldingOK(s)'
  BY DEF TypeOK, HoldingOK, Holding, FreeEntry
<1>4. \A s \in Requests : ReturnedOK(s)'
  BY DEF TypeOK, ReturnedOK, EntryOK
<1>5. \A i \in Slots : EntryOK(i)'
  BY DEF TypeOK, EntryOK, FreeEntry
<1>6. \A p \in Polls : FreeOK(p)'
  BY DEF TypeOK, FreeOK, FreeEntry
<1>7. \A p \in Polls : PollOK(p)'
  BY DEF TypeOK, PollOK
<1>8. \A p \in Polls : SoleOK(p)'
  BY DEF TypeOK, SoleOK, SolePoller, EntryOK, PollOK, FreeEntry
<1>9. DownOK'
  BY DEF TypeOK, DownOK
<1>. QED BY <1>1, <1>2, <1>3, <1>4, <1>5, <1>6, <1>7, <1>8, <1>9

\* A request that is refused leaves nothing behind.
LEMMA RegistryFullStep ==
    ASSUME IInv, NEW r \in Requests, RegistryFull(r)
    PROVE  IInv'
<1>. USE RegistryAssumption DEF IInv, RegistryFull
<1>1. TypeOK'
  BY DEF TypeOK, EntryType, PollType, StartingOK
<1>2. \A s \in Requests : StartingOK(s)'
  BY DEF TypeOK, PollOK, StartingOK
<1>3. \A s \in Requests : HoldingOK(s)'
  BY DEF TypeOK, HoldingOK, Holding, EntryOK
<1>4. \A s \in Requests : ReturnedOK(s)'
  BY DEF TypeOK, ReturnedOK, EntryOK, FreeOK, PollOK, HoldingOK, Holding, PollType
<1>5. \A i \in Slots : EntryOK(i)'
  BY DEF TypeOK, EntryOK, FreeOK, HoldingOK, Holding, StartingOK
<1>6. \A q \in Polls : FreeOK(q)'
  BY DEF TypeOK, FreeOK, EntryOK, HoldingOK, Holding, PollOK
<1>7. \A q \in Polls : PollOK(q)'
  BY DEF TypeOK, PollOK, PollType, EntryOK, Snapped, StartingOK
<1>8. \A q \in Polls : SoleOK(q)'
  BY DEF TypeOK, SoleOK, SolePoller, EntryOK, PollOK, FreeOK, PollType, Snapped
<1>9. DownOK'
  BY DEF TypeOK, DownOK, Quiet, EntryOK, ReturnedOK, StartingOK
<1>. QED BY <1>1, <1>2, <1>3, <1>4, <1>5, <1>6, <1>7, <1>8, <1>9

\* executeRequest() gives a request that holds a slot its stream.
LEMMA ExecuteStep ==
    ASSUME IInv, NEW r \in Requests, Execute(r)
    PROVE  IInv'
<1>. USE RegistryAssumption DEF IInv, Execute
<1>1. TypeOK'
  BY DEF TypeOK, EntryType, PollType, StartingOK
<1>2. \A s \in Requests : StartingOK(s)'
  BY DEF TypeOK, PollOK, StartingOK
<1>3. \A s \in Requests : HoldingOK(s)'
  BY DEF TypeOK, HoldingOK, Holding, EntryOK
<1>4. \A s \in Requests : ReturnedOK(s)'
  BY DEF TypeOK, ReturnedOK, EntryOK, FreeOK, PollOK, HoldingOK, Holding, PollType
<1>5. \A i \in Slots : EntryOK(i)'
  BY DEF TypeOK, EntryOK, FreeOK, HoldingOK, Holding, StartingOK
<1>6. \A q \in Polls : FreeOK(q)'
  BY DEF TypeOK, FreeOK, EntryOK, HoldingOK, Holding, PollOK
<1>7. \A q \in Polls : PollOK(q)'
  BY DEF TypeOK, PollOK, PollType, EntryOK, Snapped, StartingOK
<1>8. \A q \in Polls : SoleOK(q)'
  BY DEF TypeOK, SoleOK, SolePoller, EntryOK, PollOK, FreeOK, PollType, Snapped
<1>9. DownOK'
  BY DEF TypeOK, DownOK, Quiet, EntryOK, ReturnedOK, StartingOK
<1>. QED BY <1>1, <1>2, <1>3, <1>4, <1>5, <1>6, <1>7, <1>8, <1>9

\* A failed executeRequest() leaves an error and no stream.
LEMMA ExecuteFailsStep ==
    ASSUME IInv, NEW r \in Requests, NEW e \in Errors \ {"none"}, ExecuteFails(r, e)
    PROVE  IInv'
<1>. USE RegistryAssumption DEF IInv, ExecuteFails, Errors
<1>1. TypeOK'
  BY DEF TypeOK, EntryType, PollType, StartingOK
<1>2. \A s \in Requests : StartingOK(s)'
  BY DEF TypeOK, PollOK, StartingOK
<1>3. \A s \in Requests : HoldingOK(s)'
  BY DEF TypeOK, HoldingOK, Holding, EntryOK
<1>4. \A s \in Requests : ReturnedOK(s)'
  BY DEF TypeOK, ReturnedOK, EntryOK, FreeOK, PollOK, HoldingOK, Holding, PollType
<1>5. \A i \in Slots : EntryOK(i)'
  BY DEF TypeOK, EntryOK, FreeOK, HoldingOK, Holding, StartingOK
<1>6. \A q \in Polls : FreeOK(q)'
  BY DEF TypeOK, FreeOK, EntryOK, HoldingOK, Holding, PollOK
<1>7. \A q \in Polls : PollOK(q)'
  BY DEF TypeOK, PollOK, PollType, EntryOK, Snapped, StartingOK
<1>8. \A q \in Polls : SoleOK(q)'
  BY DEF TypeOK, SoleOK, SolePoller, EntryOK, PollOK, FreeOK, PollType, Snapped
<1>9. DownOK'
  BY DEF TypeOK, DownOK, Quiet, EntryOK, ReturnedOK, StartingOK
<1>. QED BY <1>1, <1>2, <1>3, <1>4, <1>5, <1>6, <1>7, <1>8, <1>9

\* An error that is noticed takes the stream with it.
LEMMA SettleStep ==
    ASSUME IInv, NEW r \in Requests, Settle(r)
    PROVE  IInv'
<1>. USE RegistryAssumption DEF IInv, Settle
<1>1. TypeOK'
  BY DEF TypeOK, EntryType, PollType, StartingOK
<1>2. \A s \in Requests : StartingOK(s)'
  BY DEF TypeOK, PollOK, StartingOK
<1>3. \A s \in Requests : HoldingOK(s)'
  BY DEF TypeOK, HoldingOK, Holding, EntryOK
<1>4. \A s \in Requests : ReturnedOK(s)'
  BY DEF TypeOK, ReturnedOK, EntryOK, FreeOK, PollOK, HoldingOK, Holding, PollType
<1>5. \A i \in Slots : EntryOK(i)'
  BY DEF TypeOK, EntryOK, FreeOK, HoldingOK, Holding, StartingOK
<1>6. \A q \in Polls : FreeOK(q)'
  BY DEF TypeOK, FreeOK, EntryOK, HoldingOK, Holding, PollOK
<1>7. \A q \in Polls : PollOK(q)'
  BY DEF TypeOK, PollOK, PollType, EntryOK, Snapped, StartingOK
<1>8. \A q \in Polls : SoleOK(q)'
  BY DEF TypeOK, SoleOK, SolePoller, EntryOK, PollOK, FreeOK, PollType, Snapped
<1>9. DownOK'
  BY DEF TypeOK, DownOK, Quiet, EntryOK, ReturnedOK, StartingOK
<1>. QED BY <1>1, <1>2, <1>3, <1>4, <1>5, <1>6, <1>7, <1>8, <1>9

\* The slot that is published knows of the stream exactly when there is one to wait for.
LEMMA PublishStep ==
    ASSUME IInv, NEW r \in Requests, Publish(r)
    PROVE  IInv'
<1>. USE RegistryAssumption DEF IInv, Publish
<1>0. /\ entry' \in [Slots -> EntryType]
      /\ slotOf[r] \in Slots
      /\ entry'[slotOf[r]].inUse /\ entry'[slotOf[r]].basket = r
      /\ (entry'[slotOf[r]].hasStream <=> stream[r] = "live" /\ error[r] = "none")
      /\ \A i \in Slots \ {slotOf[r]} : entry'[i] = entry[i]
      /\ \A i \in Slots : entry[i].basket # r
  <2>1. slotOf[r] \in Slots /\ entry \in [Slots -> EntryType]
    BY DEF HoldingOK, Holding, TypeOK
  <2>2. entry[slotOf[r]] \in EntryType
    BY <2>1
  <2>3. entry' = [entry EXCEPT ![slotOf[r]] = [@ EXCEPT !.basket = r,
                                      !.hasStream = stream[r] = "live" /\ error[r] = "none"]]
    BY <2>1
  <2>4. \A i \in Slots : entry[i].basket # r
    BY DEF EntryOK
  <2>. QED BY <2>1, <2>2, <2>3, <2>4 DEF EntryType, HoldingOK, Holding
<1>1. TypeOK'
  BY <1>0 DEF TypeOK
<1>2. \A s \in Requests : StartingOK(s)'
  BY DEF TypeOK, PollOK, StartingOK
<1>3. \A s \in Requests : HoldingOK(s)'
  BY DEF TypeOK, HoldingOK, Holding, EntryOK
<1>4. \A s \in Requests : ReturnedOK(s)'
  BY DEF TypeOK, ReturnedOK, EntryOK, FreeOK, PollOK, HoldingOK, Holding, PollType
<1>5. \A i \in Slots : EntryOK(i)'
  <2>. TAKE i \in Slots
  <2>1. CASE i = slotOf[r]
    BY <1>0, <2>1 DEF TypeOK, EntryOK, HoldingOK, Holding, StartingOK
  <2>2. CASE i # slotOf[r]
    BY <1>0, <2>2 DEF TypeOK, EntryOK
  <2>. QED BY <2>1, <2>2
<1>6. \A q \in Polls : FreeOK(q)'
  BY DEF TypeOK, FreeOK, EntryOK, HoldingOK, Holding, PollOK
<1>7. \A q \in Polls : PollOK(q)'
  BY DEF TypeOK, PollOK, PollType, EntryOK, Snapped, StartingOK
<1>8. \A q \in Polls : SoleOK(q)'
  <2>. TAKE q \in Polls
  <2>1. CASE q[1] = r
    <3>1. poll[q].at = "idle"
      BY <2>1 DEF PollOK
    <3>. QED BY <1>0, <2>1, <3>1 DEF TypeOK, SoleOK, Snapped
  <2>2. CASE q[1] # r
    <3>1. \A i \in Slots : entry[i].basket = q[1] => entry'[i] = entry[i]
      BY <1>0, <2>2 DEF HoldingOK, Holding
    <3>. QED BY <2>2, <3>1 DEF TypeOK, SoleOK, SolePoller, Snapped
  <2>. QED BY <2>1, <2>2
<1>9. DownOK'
  BY DEF TypeOK, DownOK, Quiet, EntryOK, ReturnedOK, StartingOK
<1>. QED BY <1>1, <1>2, <1>3, <1>4, <1>5, <1>6, <1>7, <1>8, <1>9

\* The reader only ends a stream; what is reclaimed does not depend on that.
LEMMA StreamEndsStep ==
    ASSUME IInv, NEW r \in Requests, StreamEnds(r)
    PROVE  IInv'
<1>. USE RegistryAssumption DEF IInv, reqVars, StreamEnds
<1>1. TypeOK'
  BY DEF TypeOK, EntryType, PollType, StartingOK
<1>2. \A s \in Requests : StartingOK(s)'
  BY DEF TypeOK, PollOK, StartingOK
<1>3. \A s \in Requests : HoldingOK(s)'
  BY DEF TypeOK, HoldingOK, Holding, EntryOK
<1>4. \A s \in Requests : ReturnedOK(s)'
  BY DEF TypeOK, ReturnedOK, EntryOK, FreeOK, PollOK, HoldingOK, Holding, PollType
<1>5. \A i \in Slots : EntryOK(i)'
  BY DEF TypeOK, EntryOK, FreeOK, HoldingOK, Holding, StartingOK
<1>6. \A q \in Polls : FreeOK(q)'
  BY DEF TypeOK, FreeOK, EntryOK, HoldingOK, Holding, PollOK
<1>7. \A q \in Polls : PollOK(q)'
  BY DEF TypeOK, PollOK, PollType, EntryOK, Snapped, StartingOK
<1>8. \A q \in Polls : SoleOK(q)'
  BY DEF TypeOK, SoleOK, SolePoller, EntryOK, PollOK, FreeOK, PollType, Snapped
<1>9. DownOK'
  BY DEF TypeOK, DownOK, Quiet, EntryOK, ReturnedOK, StartingOK
<1>. QED BY <1>1, <1>2, <1>3, <1>4, <1>5, <1>6, <1>7, <1>8, <1>9

\* Nor does it on the HTTP/1.1 thread ending its stream.
LEMMA WorkerEndsStreamStep ==
    ASSUME IInv, NEW r \in Requests, WorkerEndsStream(r)
    PROVE  IInv'
<1>. USE RegistryAssumption DEF IInv, reqVars, WorkerEndsStream
<1>1. TypeOK'
  BY DEF TypeOK, EntryType, PollType, StartingOK
<1>2. \A s \in Requests : StartingOK(s)'
  BY DEF TypeOK, PollOK, StartingOK
<1>3. \A s \in Requests : HoldingOK(s)'
  BY DEF TypeOK, HoldingOK, Holding, EntryOK
<1>4. \A s \in Requests : ReturnedOK(s)'
  BY DEF TypeOK, ReturnedOK, EntryOK, FreeOK, PollOK, HoldingOK, Holding, PollType
<1>5. \A i \in Slots : EntryOK(i)'
  BY DEF TypeOK, EntryOK, FreeOK, HoldingOK, Holding, StartingOK
<1>6. \A q \in Polls : FreeOK(q)'
  BY DEF TypeOK, FreeOK, EntryOK, HoldingOK, Holding, PollOK
<1>7. \A q \in Polls : PollOK(q)'
  BY DEF TypeOK, PollOK, PollType, EntryOK, Snapped, StartingOK
<1>8. \A q \in Polls : SoleOK(q)'
  BY DEF TypeOK, SoleOK, SolePoller, EntryOK, PollOK, FreeOK, PollType, Snapped
<1>9. DownOK'
  BY DEF TypeOK, DownOK, Quiet, EntryOK, ReturnedOK, StartingOK
<1>. QED BY <1>1, <1>2, <1>3, <1>4, <1>5, <1>6, <1>7, <1>8, <1>9

\* The HTTP/1.1 thread only changes the error of its own request.
LEMMA WorkerReturnsStep ==
    ASSUME IInv, NEW r \in Requests, WorkerReturns(r)
    PROVE  IInv'
<1>. USE RegistryAssumption DEF IInv, reqVars, WorkerReturns, Errors
<1>1. TypeOK'
  BY DEF TypeOK, EntryType, PollType, StartingOK
<1>2. \A s \in Requests : StartingOK(s)'
  BY DEF TypeOK, PollOK, StartingOK
<1>3. \A s \in Requests : HoldingOK(s)'
  BY DEF TypeOK, HoldingOK, Holding, EntryOK
<1>4. \A s \in Requests : ReturnedOK(s)'
  BY DEF TypeOK, ReturnedOK, EntryOK, FreeOK, PollOK, HoldingOK, Holding, PollType
<1>5. \A i \in Slots : EntryOK(i)'
  BY DEF TypeOK, EntryOK, FreeOK, HoldingOK, Holding, StartingOK
<1>6. \A q \in Polls : FreeOK(q)'
  BY DEF TypeOK, FreeOK, EntryOK, HoldingOK, Holding, PollOK
<1>7. \A q \in Polls : PollOK(q)'
  BY DEF TypeOK, PollOK, PollType, EntryOK, Snapped, StartingOK
<1>8. \A q \in Polls : SoleOK(q)'
  BY DEF TypeOK, SoleOK, SolePoller, EntryOK, PollOK, FreeOK, PollType, Snapped
<1>9. DownOK'
  BY DEF TypeOK, DownOK, Quiet, EntryOK, ReturnedOK, StartingOK
<1>. QED BY <1>1, <1>2, <1>3, <1>4, <1>5, <1>6, <1>7, <1>8, <1>9

\* handleResponse() is called with a handle that handleRequest() has returned.
LEMMA CallStep ==
    ASSUME IInv, NEW p \in Polls, Call(p)
    PROVE  IInv'
<1>. USE RegistryAssumption DEF IInv, reqVars, Call, PollAt
<1>1. TypeOK'
  BY DEF TypeOK, EntryType, PollType, StartingOK
<1>2. \A s \in Requests : StartingOK(s)'
  BY DEF TypeOK, PollOK, StartingOK
<1>3. \A s \in Requests : HoldingOK(s)'
  BY DEF TypeOK, HoldingOK, Holding, EntryOK
<1>4. \A s \in Requests : ReturnedOK(s)'
  BY DEF TypeOK, ReturnedOK, EntryOK, FreeOK, PollOK, HoldingOK, Holding, PollType
<1>5. \A i \in Slots : EntryOK(i)'
  BY DEF TypeOK, EntryOK, FreeOK, HoldingOK, Holding, StartingOK
<1>6. \A q \in Polls : FreeOK(q)'
  BY DEF TypeOK, FreeOK, EntryOK, HoldingOK, Holding, PollOK
<1>7. \A q \in Polls : PollOK(q)'
  BY DEF TypeOK, PollOK, PollType, EntryOK, Snapped, StartingOK
<1>8. \A q \in Polls : SoleOK(q)'
  BY DEF TypeOK, SoleOK, SolePoller, EntryOK, PollOK, FreeOK, PollType, Snapped
<1>9. DownOK'
  BY DEF TypeOK, DownOK, Quiet, EntryOK, ReturnedOK, StartingOK
<1>. QED BY <1>1, <1>2, <1>3, <1>4, <1>5, <1>6, <1>7, <1>8, <1>9

\* The snapshot a poll takes is that of the one slot its basket is published in.
LEMMA LookupStep ==
    ASSUME IInv, NEW p \in Polls, Lookup(p)
    PROVE  IInv'
<1>. USE RegistryAssumption DEF IInv, reqVars, Lookup, PollAt, Published
<1>0. /\ poll' \in [Polls -> PollType]
      /\ \A q \in Polls \ {p} : poll'[q] = poll[q]
      /\ \/ /\ poll'[p].at = "check" /\ poll'[p].code = poll[p].code
            /\ \E i \in Slots : entry[i].basket = p[1] /\ poll'[p].hasStream = entry[i].hasStream
         \/ /\ poll'[p].at = "stopped" /\ poll'[p].code = 0
            /\ \A i \in Slots : entry[i].basket # p[1]
  <2>1. poll[p] \in PollType
    BY DEF TypeOK
  <2>2. CASE Published(p[1]) # {}
    <3>1. PICK i \in Published(p[1]) :
             poll' = [poll EXCEPT ![p] = [@ EXCEPT !.at = "check", !.hasStream = entry[i].hasStream]]
      BY <2>2 DEF TypeOK
    <3>2. i \in Slots /\ entry[i].basket = p[1] /\ entry[i] \in EntryType
      BY DEF TypeOK
    <3>. QED BY <2>1, <3>1, <3>2 DEF TypeOK, PollType, EntryType
  <2>3. CASE Published(p[1]) = {}
    <3>1. Return(p, -1)
      BY <2>3
    <3>2. \A i \in Slots : entry[i].basket # p[1]
      BY <2>3 DEF EntryOK
    <3>. QED BY <3>1, <3>2, ReturnEndsCall
  <2>. QED BY <2>2, <2>3
<1>1. TypeOK'
  BY <1>0 DEF TypeOK
<1>2. \A s \in Requests : StartingOK(s)'
  BY DEF TypeOK, PollOK, StartingOK
<1>3. \A s \in Requests : HoldingOK(s)'
  BY DEF TypeOK, HoldingOK, Holding, EntryOK
<1>4. \A s \in Requests : ReturnedOK(s)'
  BY <1>0 DEF TypeOK, ReturnedOK
<1>5. \A i \in Slots : EntryOK(i)'
  BY DEF EntryOK
<1>6. \A q \in Polls : FreeOK(q)'
  BY <1>0 DEF TypeOK, FreeOK
<1>7. \A q \in Polls : PollOK(q)'
  BY <1>0 DEF TypeOK, PollOK, EntryOK, Snapped
<1>8. \A q \in Polls : SoleOK(q)'
  <2>. TAKE q \in Polls
  <2>1. CASE q = p
    BY <1>0, <2>1 DEF TypeOK, SoleOK, SolePoller, EntryOK, PollOK, DownOK, Quiet, Snapped
  <2>2. CASE q # p
    BY <1>0, <2>2 DEF TypeOK, SoleOK, SolePoller, Snapped
  <2>. QED BY <2>1, <2>2
<1>9. DownOK'
  BY DEF TypeOK, DownOK, Quiet, EntryOK, ReturnedOK, StartingOK
<1>. QED BY <1>1, <1>2, <1>3, <1>4, <1>5, <1>6, <1>7, <1>8, <1>9

\* A poll that finds the request in flight leaves it where it is.
LEMMA CheckPendingStep ==
    ASSUME IInv, NEW p \in Polls, CheckPending(p)
    PROVE  IInv'
<1>. USE RegistryAssumption DEF IInv, reqVars, CheckPending, PollAt
<1>0. /\ poll' \in [Polls -> PollType]
      /\ \A q \in Polls \ {p} : poll'[q] = poll[q]
      /\ poll'[p].at = "idle" /\ poll'[p].code = 0
  BY ReturnEndsCall
<1>1. TypeOK'
  BY <1>0 DEF TypeOK
<1>2. \A s \in Requests : StartingOK(s)'
  BY DEF StartingOK
<1>3. \A s \in Requests : HoldingOK(s)'
  BY DEF HoldingOK, Holding
<1>4. \A s \in Requests : ReturnedOK(s)'
  BY <1>0 DEF TypeOK, ReturnedOK
<1>5. \A i \in Slots : EntryOK(i)'
  BY DEF EntryOK
<1>6. \A q \in Polls : FreeOK(q)'
  BY <1>0 DEF TypeOK, FreeOK
<1>7. \A q \in Polls : PollOK(q)'
  BY <1>0 DEF TypeOK, PollOK, Snapped
<1>8. \A q \in Polls : SoleOK(q)'
  BY <1>0 DEF TypeOK, SoleOK, SolePoller, PollOK, Snapped
<1>9. DownOK'
  BY <1>0 DEF TypeOK, DownOK, Quiet
<1>. QED BY <1>1, <1>2, <1>3, <1>4, <1>5, <1>6, <1>7, <1>8, <1>9

\* A poll that finds the request done goes on with its snapshot.
LEMMA CheckDoneStep ==
    ASSUME IInv, NEW p \in Polls, CheckDone(p)
    PROVE  IInv'
<1>. USE RegistryAssumption DEF IInv, reqVars, CheckDone, PollAt
<1>0. poll[p].at # "free" /\ \A q \in Polls \ {p} : poll'[q] = poll[q]
  BY DEF TypeOK
<1>1. TypeOK'
  <2>1. poll'[p] \in PollType
    BY DEF TypeOK, PollType
  <2>. QED BY <2>1 DEF TypeOK
<1>2. \A s \in Requests : StartingOK(s)'
  BY DEF TypeOK, PollOK, StartingOK
<1>3. \A s \in Requests : HoldingOK(s)'
  BY DEF TypeOK, HoldingOK, Holding, EntryOK
<1>4. \A s \in Requests : ReturnedOK(s)'
  BY <1>0 DEF ReturnedOK
<1>5. \A i \in Slots : EntryOK(i)'
  BY DEF TypeOK, EntryOK, FreeOK, HoldingOK, Holding, StartingOK
<1>6. \A q \in Polls : FreeOK(q)'
  BY DEF TypeOK, FreeOK, EntryOK, HoldingOK, Holding, PollOK
<1>7. \A q \in Polls : PollOK(q)'
  BY DEF TypeOK, PollOK, PollType, EntryOK, Snapped, StartingOK
<1>8. \A q \in Polls : SoleOK(q)'
  BY DEF TypeOK, SoleOK, SolePoller, EntryOK, PollOK, FreeOK, PollType, Snapped
<1>9. DownOK'
  BY DEF TypeOK, DownOK, Quiet, EntryOK, ReturnedOK, StartingOK
<1>. QED BY <1>1, <1>2, <1>3, <1>4, <1>5, <1>6, <1>7, <1>8, <1>9

\* So does one whose request has timed out.
LEMMA CheckTimedOutStep ==
    ASSUME IInv, NEW p \in Polls, CheckTimedOut(p)
    PROVE  IInv'
<1>. USE RegistryAssumption DEF IInv, reqVars, CheckTimedOut, PollAt, Errors
<1>1. TypeOK'
  <2>1. poll'[p] \in PollType
    BY DEF TypeOK, PollType
  <2>. QED BY <2>1 DEF TypeOK
<1>2. \A s \in Requests : StartingOK(s)'
  BY DEF TypeOK, PollOK, StartingOK
<1>3. \A s \in Requests : HoldingOK(s)'
  BY DEF TypeOK, HoldingOK, Holding, EntryOK
<1>4. \A s \in Requests : ReturnedOK(s)'
  BY DEF TypeOK, ReturnedOK
<1>5. \A i \in Slots : EntryOK(i)'
  BY DEF TypeOK, EntryOK, FreeOK, HoldingOK, Holding, StartingOK
<1>6. \A q \in Polls : FreeOK(q)'
  BY DEF TypeOK, FreeOK, EntryOK, HoldingOK, Holding, PollOK
<1>7. \A q \in Polls : PollOK(q)'
  BY DEF TypeOK, PollOK, PollType, EntryOK, Snapped, StartingOK
<1>8. \A q \in Polls : SoleOK(q)'
  BY DEF TypeOK, SoleOK, SolePoller, EntryOK, PollOK, FreeOK, PollType, Snapped
<1>9. DownOK'
  BY DEF TypeOK, DownOK, Quiet, EntryOK, ReturnedOK, StartingOK
<1>. QED BY <1>1, <1>2, <1>3, <1>4, <1>5, <1>6, <1>7, <1>8, <1>9

\* finalizeStreamIntoBasket() changes nothing but the error.
LEMMA FinalizeStep ==
    ASSUME IInv, NEW p \in Polls, Finalize(p)
    PROVE  IInv'
<1>. USE RegistryAssumption DEF IInv, reqVars, Finalize, PollAt, Errors
<1>1. TypeOK'
  <2>1. poll'[p] \in PollType
    BY DEF TypeOK, PollType
  <2>. QED BY <2>1 DEF TypeOK
<1>2. \A s \in Requests : StartingOK(s)'
  BY DEF TypeOK, PollOK, StartingOK
<1>3. \A s \in Requests : HoldingOK(s)'
  BY DEF TypeOK, HoldingOK, Holding, EntryOK
<1>4. \A s \in Requests : ReturnedOK(s)'
  BY DEF TypeOK, ReturnedOK, EntryOK, FreeOK, PollOK, HoldingOK, Holding, PollType
<1>5. \A i \in Slots : EntryOK(i)'
  BY DEF TypeOK, EntryOK, FreeOK, HoldingOK, Holding, StartingOK
<1>6. \A q \in Polls : FreeOK(q)'
  BY DEF TypeOK, FreeOK, EntryOK, HoldingOK, Holding, PollOK
<1>7. \A q \in Polls : PollOK(q)'
  BY DEF TypeOK, PollOK, PollType, EntryOK, Snapped, StartingOK
<1>8. \A q \in Polls : SoleOK(q)'
  BY DEF TypeOK, SoleOK, SolePoller, EntryOK, PollOK, FreeOK, PollType, Snapped
<1>9. DownOK'
  BY DEF TypeOK, DownOK, Quiet, EntryOK, ReturnedOK, StartingOK
<1>. QED BY <1>1, <1>2, <1>3, <1>4, <1>5, <1>6, <1>7, <1>8, <1>9

\* A result that fits is on its way to being reclaimed, any other stays published.
LEMMA CopyStep ==
    ASSUME IInv, NEW p \in Polls, Copy(p)
    PROVE  IInv'
<1>. USE RegistryAssumption DEF IInv, reqVars, Copy, PollAt
<1>0. /\ poll' \in [Polls -> PollType]
      /\ \A q \in Polls \ {p} : poll'[q] = poll[q]
      /\ \/ poll'[p].at = "detach" /\ poll'[p].code = 1
         \/ poll'[p].at = "return" /\ poll'[p].code \in {2, -1} /\ p[1] \in Truncates
      /\ poll'[p].hasStream = poll[p].hasStream
  <2>1. poll \in [Polls -> PollType] /\ poll[p] \in PollType
    BY DEF TypeOK
  <2>2. PICK code \in IF p[1] \in Truncates THEN {1, 2, -1} ELSE {1} :
           poll' = [poll EXCEPT ![p].at = IF code = 1 THEN "detach" ELSE "return", ![p].code = code]
    OBVIOUS
  <2>3. CASE code = 1
    <3>1. poll' = [poll EXCEPT ![p].at = "detach", ![p].code = 1]
      BY <2>2, <2>3
    <3>. QED BY <2>1, <3>1 DEF PollType
  <2>4. CASE code # 1
    <3>1. code \in {2, -1} /\ p[1] \in Truncates
      BY <2>2, <2>4
    <3>2. poll' = [poll EXCEPT ![p].at = "return", ![p].code = code]
      BY <2>2, <2>4, <3>1
    <3>. QED BY <2>1, <3>1, <3>2 DEF PollType
  <2>. QED BY <2>3, <2>4
<1>1. TypeOK'
  BY <1>0 DEF TypeOK
<1>2. \A s \in Requests : StartingOK(s)'
  BY DEF StartingOK
<1>3. \A s \in Requests : HoldingOK(s)'
  BY DEF HoldingOK, Holding
<1>4. \A s \in Requests : ReturnedOK(s)'
  BY <1>0 DEF TypeOK, ReturnedOK
<1>5. \A i \in Slots : EntryOK(i)'
  BY DEF EntryOK
<1>6. \A q \in Polls : FreeOK(q)'
  BY <1>0 DEF TypeOK, FreeOK
<1>7. \A q \in Polls : PollOK(q)'
  BY <1>0 DEF TypeOK, PollOK, Snapped
<1>8. \A q \in Polls : SoleOK(q)'
  BY <1>0 DEF TypeOK, SoleOK, SolePoller, PollOK, Snapped
<1>9. DownOK'
  BY <1>0 DEF TypeOK, DownOK, Quiet
<1>. QED BY <1>1, <1>2, <1>3, <1>4, <1>5, <1>6, <1>7, <1>8, <1>9

\* One poll at most takes the basket out of the registry, and it is then the one to free it.
LEMMA DetachStep ==
    ASSUME IInv, NEW p \in Polls, Detach(p)
    PROVE  IInv'
<1>. USE RegistryAssumption DEF IInv, reqVars, Detach, PollAt
<1>0. /\ entry' \in [Slots -> EntryType]
      /\ \A i \in Slots : IF entry[i].basket = p[1] THEN entry'[i] = FreeEntry ELSE entry'[i] = entry[i]
      /\ poll' \in [Polls -> PollType]
      /\ \A q \in Polls \ {p} : poll'[q] = poll[q]
      /\ poll'[p].at = IF \E i \in Slots : entry[i].basket = p[1] THEN "free" ELSE "return"
      /\ poll'[p].hasStream = poll[p].hasStream /\ poll'[p].code = poll[p].code
  <2>1. \A i \in Slots : i \in Published(p[1]) <=> entry[i].basket = p[1]
    BY DEF EntryOK, Published
  <2>2. FreeEntry \in EntryType /\ entry \in [Slots -> EntryType]
    BY DEF TypeOK, FreeEntry, EntryType
  <2>3. poll[p] \in PollType /\ poll \in [Polls -> PollType]
    BY DEF TypeOK
  <2>4. (Published(p[1]) # {}) <=> \E i \in Slots : entry[i].basket = p[1]
    BY <2>1 DEF Published
  <2>5. poll' = [poll EXCEPT ![p] = [@ EXCEPT !.at = IF Published(p[1]) # {} THEN "free" ELSE "return"]]
    BY <2>3
  <2>6. /\ poll' \in [Polls -> PollType]
        /\ \A q \in Polls \ {p} : poll'[q] = poll[q]
        /\ poll'[p].at = IF Published(p[1]) # {} THEN "free" ELSE "return"
        /\ poll'[p].hasStream = poll[p].hasStream /\ poll'[p].code = poll[p].code
    BY <2>3, <2>5 DEF PollType
  <2>. QED BY <2>1, <2>2, <2>4, <2>6
<1>00. FreeEntry.basket = None /\ ~FreeEntry.inUse
  BY DEF FreeEntry
<1>1. TypeOK'
  BY <1>0 DEF TypeOK
<1>2. \A s \in Requests : StartingOK(s)'
  BY DEF StartingOK
<1>3. \A s \in Requests : HoldingOK(s)'
  BY <1>0 DEF HoldingOK, Holding
<1>4. \A s \in Requests : ReturnedOK(s)'
  BY <1>0 DEF TypeOK, ReturnedOK, EntryOK
<1>5. \A i \in Slots : EntryOK(i)'
  BY <1>0, <1>00 DEF EntryOK
<1>6. \A q \in Polls : FreeOK(q)'
  BY <1>0, <1>00 DEF TypeOK, FreeOK, EntryOK
<1>7. \A q \in Polls : PollOK(q)'
  BY <1>0 DEF TypeOK, PollOK, Snapped
<1>8. \A q \in Polls : SoleOK(q)'
  <2>. TAKE q \in Polls
  <2>1. CASE q[1] = p[1]
    BY <1>0, <2>1 DEF TypeOK, SoleOK, SolePoller, PollOK, DownOK, Quiet, Snapped
  <2>2. CASE q[1] # p[1]
    BY <1>0, <2>2 DEF TypeOK, SoleOK, SolePoller, Snapped
  <2>. QED BY <2>1, <2>2
<1>9. DownOK'
  BY <1>0 DEF TypeOK, DownOK, Quiet
<1>. QED BY <1>1, <1>2, <1>3, <1>4, <1>5, <1>6, <1>7, <1>8, <1>9

\* The basket is freed by the poll that took it out, with the stream its snapshot knows of.
LEMMA FreeStep ==
    ASSUME IInv, NEW p \in Polls, Free(p)
    PROVE  IInv'
<1>. USE RegistryAssumption DEF IInv, reqVars, Free, PollAt
<1>0. /\ basket' \in [Requests -> {"absent", "live", "freed"}]
      /\ stream' \in [Requests -> {"absent", "live", "freed"}]
      /\ basket'[p[1]] = "freed"
      /\ stream'[p[1]] = IF poll[p].hasStream THEN "freed" ELSE stream[p[1]]
      /\ \A s \in Requests \ {p[1]} : basket'[s] = basket[s] /\ stream'[s] = stream[s]
  BY DEF TypeOK, Reclaim
<1>00. /\ poll' \in [Polls -> PollType]
       /\ \A q \in Polls \ {p} : poll'[q] = poll[q]
       /\ poll'[p].at = "return" /\ poll'[p].code = poll[p].code
  <2>1. poll \in [Polls -> PollType] /\ poll[p] \in PollType
    BY DEF TypeOK
  <2>. QED BY <2>1 DEF PollType
<1>1. TypeOK'
  BY <1>0, <1>00 DEF TypeOK
<1>2. \A s \in Requests : StartingOK(s)'
  BY <1>0 DEF StartingOK, PollOK
<1>3. \A s \in Requests : HoldingOK(s)'
  BY <1>0 DEF HoldingOK, Holding, PollOK
<1>4. \A s \in Requests : ReturnedOK(s)'
  <2>. TAKE s \in Requests
  <2>1. CASE s = p[1]
    BY <1>0, <2>1 DEF ReturnedOK, PollOK, Snapped
  <2>2. CASE s # p[1]
    BY <1>0, <1>00, <2>2 DEF ReturnedOK
  <2>. QED BY <2>1, <2>2
<1>5. \A i \in Slots : EntryOK(i)'
  BY <1>0 DEF EntryOK, FreeOK
<1>6. \A q \in Polls : FreeOK(q)'
  BY <1>0, <1>00 DEF TypeOK, FreeOK
<1>7. \A q \in Polls : PollOK(q)'
  <2>. TAKE q \in Polls
  <2>1. CASE q = p
    BY <1>00, <2>1 DEF PollOK, Snapped
  <2>2. CASE q # p /\ q[1] = p[1]
    BY <1>0, <1>00, <2>2 DEF PollOK, Snapped
  <2>3. CASE q # p /\ q[1] # p[1]
    BY <1>0, <1>00, <2>3 DEF PollOK, Snapped
  <2>. QED BY <2>1, <2>2, <2>3
<1>8. \A q \in Polls : SoleOK(q)'
  <2>. TAKE q \in Polls
  <2>1. CASE q[1] = p[1]
    BY <1>0, <1>00, <2>1 DEF SoleOK, SolePoller, PollOK, DownOK, Quiet, Snapped
  <2>2. CASE q[1] # p[1]
    BY <1>0, <1>00, <2>2 DEF SoleOK, SolePoller, Snapped
  <2>. QED BY <2>1, <2>2
<1>9. DownOK'
  BY DEF DownOK, Quiet
<1>. QED BY <1>1, <1>2, <1>3, <1>4, <1>5, <1>6, <1>7, <1>8, <1>9

\* A sole poller that is told to forget the handle has freed it, unless its result was not copied.
LEMMA ReportStatusStep ==
    ASSUME IInv, NEW p \in Polls, ReportStatus(p)
    PROVE  IInv'
<1>. USE RegistryAssumption DEF IInv, reqVars, ReportStatus, PollAt
<1>0. /\ poll' \in [Polls -> PollType]
      /\ \A q \in Polls \ {p} : poll'[q] = poll[q]
      /\ poll'[p].at \in {"idle", "stopped"} /\ poll'[p].code = 0
      /\ poll'[p].at = "idle" => poll[p].code = 2
  <2>1. poll[p].code \in {1, 2, -1}
    BY DEF PollOK
  <2>. QED BY <2>1, ReturnEndsCall
<1>1. TypeOK'
  BY <1>0 DEF TypeOK
<1>2. \A s \in Requests : StartingOK(s)'
  BY DEF StartingOK
<1>3. \A s \in Requests : HoldingOK(s)'
  BY DEF HoldingOK, Holding
<1>4. \A s \in Requests : ReturnedOK(s)'
  BY <1>0 DEF TypeOK, ReturnedOK
<1>5. \A i \in Slots : EntryOK(i)'
  BY DEF EntryOK
<1>6. \A q \in Polls : FreeOK(q)'
  BY <1>0 DEF TypeOK, FreeOK
<1>7. \A q \in Polls : PollOK(q)'
  BY <1>0 DEF TypeOK, PollOK, Snapped
<1>8. \A q \in Polls : SoleOK(q)'
  BY <1>0 DEF TypeOK, SoleOK, SolePoller, PollOK, Snapped
<1>9. DownOK'
  BY <1>0 DEF TypeOK, DownOK, Quiet
<1>. QED BY <1>1, <1>2, <1>3, <1>4, <1>5, <1>6, <1>7, <1>8, <1>9

\* cleanupAsyncRequests() finds every basket that is not freed in the registry.
LEMMA CleanupStep ==
    ASSUME IInv, CleanupAsyncRequests
    PROVE  IInv'
<1>. USE RegistryAssumption DEF IInv, reqVars, CleanupAsyncRequests
<1>. DEFINE all == {r \in Requests : Published(r) # {}}
<1>0. /\ basket' \in [Requests -> {"absent", "live", "freed"}]
      /\ stream' \in [Requests -> {"absent", "live", "freed"}]
      /\ \A r \in Requests : IF \E i \in Slots : entry[i].basket = r
                            THEN /\ basket'[r] = "freed"
                                 /\ r \notin Http11 => stream'[r] # "live"
                            ELSE basket'[r] = basket[r] /\ stream'[r] = stream[r]
  <2>1. \A r \in Requests, i \in Slots : i \in Published(r) <=> entry[i].basket = r
    BY DEF EntryOK, Published
  <2>2. \A r \in Requests : r \in all <=> \E i \in Slots : entry[i].basket = r
    BY <2>1 DEF Published
  <2>3. Reclaim(all, {r \in all : \E i \in Published(r) : entry[i].hasStream})
    OBVIOUS
  <2>4. /\ basket' = [r \in Requests |-> IF r \in all THEN "freed" ELSE basket[r]]
        /\ stream' = [r \in Requests |-> IF r \in all /\ (\E i \in Published(r) : entry[i].hasStream)
                                         THEN "freed" ELSE stream[r]]
    BY <2>3 DEF Reclaim
  <2>. HIDE DEF all
  <2>5. /\ basket' \in [Requests -> {"absent", "live", "freed"}]
        /\ stream' \in [Requests -> {"absent", "live", "freed"}]
    BY <2>4 DEF TypeOK
  <2>6. ASSUME NEW r \in Requests, NEW i \in Slots, entry[i].basket = r
        PROVE  basket'[r] = "freed" /\ (r \notin Http11 => stream'[r] # "live")
    BY <2>1, <2>2, <2>4, <2>6 DEF EntryOK
  <2>7. ASSUME NEW r \in Requests, ~\E i \in Slots : entry[i].basket = r
        PROVE  basket'[r] = basket[r] /\ stream'[r] = stream[r]
    BY <2>2, <2>4, <2>7
  <2>. QED BY <2>5, <2>6, <2>7
<1>. HIDE DEF CleanupAsyncRequests
<1>00. /\ ~down /\ Quiet /\ down'
       /\ entry' = [i \in Slots |-> FreeEntry]
       /\ UNCHANGED <<pc, slotOf, attempts, error, ended, worker, poll>>
  BY DEF CleanupAsyncRequests
<1>1. TypeOK'
  <2>1. FreeEntry \in EntryType
    BY DEF FreeEntry, EntryType
  <2>. QED BY <1>0, <1>00, <2>1 DEF TypeOK
<1>2. \A s \in Requests : StartingOK(s)'
  BY <1>0, <1>00 DEF StartingOK, EntryOK, Quiet
<1>3. \A s \in Requests : HoldingOK(s)'
  BY <1>00 DEF HoldingOK, Holding, Quiet
<1>4. \A s \in Requests : ReturnedOK(s)'
  BY <1>0, <1>00 DEF ReturnedOK, Quiet
<1>5. \A i \in Slots : EntryOK(i)'
  BY <1>00 DEF EntryOK, FreeEntry
<1>6. \A q \in Polls : FreeOK(q)'
  BY <1>00 DEF FreeOK, Quiet
<1>7. \A q \in Polls : PollOK(q)'
  BY <1>00 DEF PollOK, Quiet, Snapped
<1>8. \A q \in Polls : SoleOK(q)'
  BY <1>0, <1>00 DEF SoleOK, SolePoller, Quiet, Snapped
<1>9. DownOK'
  BY <1>0, <1>00 DEF DownOK, Quiet, FreeEntry, ReturnedOK, StartingOK, HoldingOK, TypeOK
<1>. QED BY <1>1, <1>2, <1>3, <1>4, <1>5, <1>6, <1>7, <1>8, <1>9

-----------------------------------------------------------------------------
(* The theorems                                                             *)

\* The invariant is preserved by every step.
LEMMA NextHolds == IInv /\ [Next]_vars => IInv'
<1>. SUFFICES ASSUME IInv, [Next]_vars
              PROVE  IInv'
  OBVIOUS
<1>1. ASSUME NEW r \in Requests, Starting(r)
      PROVE  IInv'
  BY <1>1, AllocEntryStep, RegistryFullStep, ExecuteStep, ExecuteFailsStep, SettleStep, PublishStep
     DEF Starting
<1>2. ASSUME NEW r \in Requests, Background(r)
      PROVE  IInv'
  BY <1>2, StreamEndsStep, WorkerEndsStreamStep, WorkerReturnsStep DEF Background
<1>3. ASSUME NEW p \in Polls, Polling(p)
      PROVE  IInv'
  BY <1>3, CallStep, LookupStep, CheckPendingStep, CheckDoneStep, CheckTimedOutStep, FinalizeStep,
     CopyStep, DetachStep, FreeStep, ReportStatusStep DEF Polling
<1>4. CASE UNCHANGED vars
  BY <1>4 DEF vars, reqVars, IInv, TypeOK, StartingOK, HoldingOK, Holding, ReturnedOK, EntryOK, FreeOK,
     PollOK, SoleOK, DownOK, Quiet
<1>. QED BY <1>1, <1>2, <1>3, <1>4, CleanupStep DEF Next

\* Where a basket is, and what is known of its stream there, holds in every reachable state.
THEOREM Invariance == Spec => []IInv
BY InitHolds, NextHolds, PTL DEF Spec

\* Registry, baskets, streams and polls stay in their types.
THEOREM TypeCorrect == Spec => []TypeOK
<1>1. IInv => TypeOK
  BY DEF IInv
<1>. QED BY <1>1, Invariance, PTL

\* handleResponse() by the only thread that polls a handle never follows it, or the
\* stream pointer it took from the registry, to freed memory.
THEOREM SolePollerSafe == Spec => []PollsTouchLiveMemory
<1>1. IInv => PollsTouchLiveMemory
  <2>. SUFFICES ASSUME IInv, NEW p \in Polls, SolePoller(p[1])
                PROVE  /\ poll[p].at \in {"lookup", "check", "finalize", "copy"} => basket[p[1]] = "live"
                       /\ poll[p].at \in {"check", "finalize"} /\ poll[p].hasStream => stream[p[1]] = "live"
    BY DEF PollsTouchLiveMemory
  <2>1. p[1] \in Requests
    BY RegistryAssumption
  <2>2. poll[p].at \in {"lookup", "check", "finalize", "copy"} =>
          pc[p[1]] = "returned" /\ ~down /\ \E i \in Slots : entry[i].basket = p[1]
    BY DEF IInv, PollOK, SoleOK, DownOK, Quiet
  <2>. QED BY <2>1, <2>2 DEF IInv, EntryOK, SoleOK, Snapped
<1>. QED BY <1>1, Invariance, PTL

\* However many threads poll a handle, freeBasket() is called once, by one of them.
THEOREM NoDoubleFree == Spec => []FreedOnce
<1>1. IInv => FreedOnce
  BY DEF IInv, FreedOnce, FreeOK
<1>. QED BY <1>1, Invariance, PTL

\* Neither a handle that its caller was told to forget nor the end of the process
\* leaves a basket, or the stream of an HTTP/2 request, behind.
THEOREM EverythingReclaimed == Spec => []NothingLeaks
<1>1. IInv => NothingLeaks
  <2>. SUFFICES ASSUME IInv
                PROVE  NothingLeaks
    OBVIOUS
  <2>1. ASSUME NEW p \in Polls, poll[p].at = "stopped", SolePoller(p[1]), p[1] \notin Truncates
        PROVE  basket[p[1]] = "freed" /\ (p[1] \notin Http11 => stream[p[1]] # "live")
    <3>1. p[1] \in Requests /\ pc[p[1]] = "returned"
      BY <2>1, RegistryAssumption DEF IInv, PollOK
    <3>2. basket[p[1]] = "freed"
      BY <2>1, <3>1 DEF IInv, SoleOK
    <3>. QED BY <3>1, <3>2 DEF IInv, ReturnedOK
  <2>2. ASSUME down, NEW r \in Requests
        PROVE  basket[r] # "live" /\ (r \notin Http11 => stream[r] # "live")
    <3>1. basket[r] # "live" /\ pc[r] \in {"start", "returned", "refused"}
      BY <2>2 DEF IInv, DownOK, Quiet
    <3>. QED BY <3>1 DEF IInv, ReturnedOK, StartingOK
  <2>. QED BY <2>1, <2>2 DEF NothingLeaks
<1>. QED BY <1>1, Invariance, PTL
=============================================================================
