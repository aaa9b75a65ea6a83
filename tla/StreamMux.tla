------------------------------- MODULE StreamMux -------------------------------
(***************************************************************************)
(* The streams of one HTTP/2 connection: request threads register a Stream,*)
(* send, wait on its condition variable, detach and free it, while the     *)
(* connection's reader thread looks streams up by id, locks and updates    *)
(* them, and fails them all on GOAWAY or connection loss.                  *)
(*                                                                         *)
(* The locks are the code's: session->streamsMutex guards the table, each  *)
(* stream->lock its stream, and the reader goes from one to the other hand *)
(* over hand.  A critical section that calls nothing that blocks is one    *)
(* step, enabled when the mutex is free.  Each request owns one Stream     *)
(* object, so streams are named by their requests; freeing it is a state   *)
(* of the object, so that a late access would be seen.                     *)
(***************************************************************************)
EXTENDS Integers, FiniteSets, Sequences

CONSTANTS Requests,    \* request threads, one stream each
          Reader,      \* the connection's reader thread
          None,        \* no owner, no stream
          NumSlots,    \* MAX_CONCURRENT_STREAMS_PER_SESSION
          MaxFrames    \* bound on the stream frames the peer sends

ASSUME MuxAssumption ==
    /\ Reader \notin Requests /\ None \notin Requests /\ Reader # None
    /\ IsFiniteSet(Requests)
    /\ NumSlots \in Nat /\ MaxFrames \in Nat

Slots == 1 .. NumSlots
FrameKinds == {"headers", "data", "end", "reset", "abort"}

VARIABLES pc,            \* where each request thread is
          streamId,      \* stream->streamId; 0 before it is assigned
          life,          \* the Stream object: "absent", "live" or "freed"
          ended,         \* stream->isEnded
          pending,       \* stream->numHeaders = 0
          failed,        \* stream->error is set
          signalled,     \* a pthread_cond_signal() the waiter has not consumed
          completed,     \* sink->completed
          completions,   \* how many times onComplete was called
          slots,         \* session->streams[]
          inflight,      \* session->inflightCount
          nextId,        \* session->streamId
          wire,          \* ids of the HEADERS frames sent, in order
          streamsMutex,  \* owner of session->streamsMutex
          lock,          \* owner of each stream->lock, when held across steps
          reader,        \* the reader thread's program counter
          target,        \* the stream the reader points to
          frame,         \* the kind of frame the reader dispatches
          sweep,         \* failAllStreams(): next slot and onlyPending
          frames         \* stream frames received so far

streamVars == <<life, ended, pending, failed, signalled, completed, completions>>
tableVars == <<slots, inflight, nextId, wire>>
readerVars == <<reader, target, frame, sweep, frames>>
vars == <<pc, streamId, streamVars, tableVars, streamsMutex, lock, readerVars>>

NoSweep == [slot |-> 1, onlyPending |-> FALSE]

Init ==
    /\ pc = [r \in Requests |-> "start"]
    /\ streamId = [r \in Requests |-> 0]
    /\ life = [r \in Requests |-> "absent"]
    /\ ended = [r \in Requests |-> FALSE]
    /\ pending = [r \in Requests |-> TRUE]
    /\ failed = [r \in Requests |-> FALSE]
    /\ signalled = [r \in Requests |-> FALSE]
    /\ completed = [r \in Requests |-> FALSE]
    /\ completions = [r \in Requests |-> 0]
    /\ slots = [i \in Slots |-> None]
    /\ inflight = 0
    /\ nextId = 1
    /\ wire = <<>>
    /\ streamsMutex = None
    /\ lock = [r \in Requests |-> None]
    /\ reader = "idle"
    /\ target = None
    /\ frame = "data"
    /\ sweep = NoSweep
    /\ frames = 0

Registered == {r \in Requests : \E i \in Slots : slots[i] = r}
GoTo(r, where) == pc' = [pc EXCEPT ![r] = where]

-----------------------------------------------------------------------------
(* registerStream() and handleHttp2Request()                                *)

\* The object is built and its id drawn before the table is locked.
AssignStreamId(r) ==
    /\ pc[r] = "start"
    /\ life' = [life EXCEPT ![r] = "live"]
    /\ streamId' = [streamId EXCEPT ![r] = nextId]
    /\ nextId' = nextId + 2
    /\ GoTo(r, "register")
    /\ UNCHANGED <<ended, pending, failed, signalled, completed, completions, slots,
                   inflight, wire, streamsMutex, lock, readerVars>>

RegisterStream(r) ==
    /\ pc[r] = "register"
    /\ streamsMutex = None
    /\ \E i \in Slots :
        /\ slots[i] = None
        /\ \A j \in Slots : j < i => slots[j] # None
        /\ slots' = [slots EXCEPT ![i] = r]
    /\ inflight' = inflight + 1
    /\ GoTo(r, "send")
    /\ UNCHANGED <<streamId, streamVars, nextId, wire, streamsMutex, lock, readerVars>>

\* Every slot is taken: the object is freed again and the request fails.
NoFreeSlot(r) ==
    /\ pc[r] = "register"
    /\ streamsMutex = None
    /\ \A i \in Slots : slots[i] # None
    /\ life' = [life EXCEPT ![r] = "freed"]
    /\ GoTo(r, "done")
    /\ UNCHANGED <<streamId, ended, pending, failed, signalled, completed, completions,
                   tableVars, streamsMutex, lock, readerVars>>

\* HEADERS and DATA leave under writeMutex, in one piece.
SendRequest(r) ==
    /\ pc[r] = "send"
    /\ wire' = Append(wire, streamId[r])
    /\ GoTo(r, "await")
    /\ UNCHANGED <<streamId, streamVars, slots, inflight, nextId, streamsMutex, lock, readerVars>>

\* The write fails on HEADERS, or on DATA once HEADERS are out.
SendFails(r) ==
    /\ pc[r] = "send"
    /\ wire' \in {wire, Append(wire, streamId[r])}
    /\ GoTo(r, "abandon")
    /\ UNCHANGED <<streamId, streamVars, slots, inflight, nextId, streamsMutex, lock, readerVars>>

\* executeRequest() ends the callbacks itself, and takes no lock to do it.
AbandonCheck(r) ==
    /\ pc[r] = "abandon"
    /\ GoTo(r, IF completed[r] THEN "detach" ELSE "complete")
    /\ UNCHANGED <<streamId, streamVars, tableVars, streamsMutex, lock, readerVars>>

AbandonComplete(r) ==
    /\ pc[r] = "complete"
    /\ completed' = [completed EXCEPT ![r] = TRUE]
    /\ completions' = [completions EXCEPT ![r] = @ + 1]
    /\ GoTo(r, "detach")
    /\ UNCHANGED <<streamId, life, ended, pending, failed, signalled, tableVars,
                   streamsMutex, lock, readerVars>>

-----------------------------------------------------------------------------
(* awaitStream(), finalizeStreamIntoBasket() and unregisterStream()         *)

\* Under stream->lock: go on when the stream ended, else sleep on the condition.
Await(r) ==
    /\ pc[r] = "await"
    /\ lock[r] = None
    /\ GoTo(r, IF ended[r] THEN "finalize" ELSE "waiting")
    /\ UNCHANGED <<streamId, streamVars, tableVars, streamsMutex, lock, readerVars>>

\* A signal wakes the waiter, which looks again.
Wake(r) ==
    /\ pc[r] = "waiting"
    /\ signalled[r]
    /\ lock[r] = None
    /\ signalled' = [signalled EXCEPT ![r] = FALSE]
    /\ GoTo(r, "await")
    /\ UNCHANGED <<streamId, life, ended, pending, failed, completed, completions,
                   tableVars, streamsMutex, lock, readerVars>>

\* The deadline passes and is not renewed; a stream that ended meanwhile counts.
TimeOut(r) ==
    /\ pc[r] = "waiting"
    /\ lock[r] = None
    /\ signalled' = [signalled EXCEPT ![r] = FALSE]
    /\ GoTo(r, IF ended[r] THEN "finalize" ELSE "detach")
    /\ UNCHANGED <<streamId, life, ended, pending, failed, completed, completions,
                   tableVars, streamsMutex, lock, readerVars>>

Finalize(r) ==
    /\ pc[r] = "finalize"
    /\ lock[r] = None
    /\ GoTo(r, "detach")
    /\ UNCHANGED <<streamId, streamVars, tableVars, streamsMutex, lock, readerVars>>

Detach(r) ==
    /\ pc[r] = "detach"
    /\ streamsMutex = None
    /\ slots' = [i \in Slots |-> IF slots[i] = r THEN None ELSE slots[i]]
    /\ inflight' = IF inflight > 0 THEN inflight - 1 ELSE inflight
    /\ GoTo(r, "barrier")
    /\ UNCHANGED <<streamId, streamVars, nextId, wire, streamsMutex, lock, readerVars>>

\* Lock and unlock: a reader that still holds the stream is waited for.
BarrierSkipped(r) ==
    /\ pc[r] = "barrier"
    /\ GoTo(r, "free")
    /\ UNCHANGED <<streamId, streamVars, tableVars, streamsMutex, lock, readerVars>>

Barrier(r) ==
    /\ pc[r] = "barrier"
    /\ lock[r] = None
    /\ GoTo(r, "free")
    /\ UNCHANGED <<streamId, streamVars, tableVars, streamsMutex, lock, readerVars>>

\* The fields go with the object; the sink (completed) is the basket's.
FreeStream(r) ==
    /\ pc[r] = "free"
    /\ life' = [life EXCEPT ![r] = "freed"]
    /\ ended' = [ended EXCEPT ![r] = FALSE]
    /\ pending' = [pending EXCEPT ![r] = TRUE]
    /\ failed' = [failed EXCEPT ![r] = FALSE]
    /\ GoTo(r, "done")
    /\ UNCHANGED <<streamId, signalled, completed, completions, tableVars, streamsMutex,
                   lock, readerVars>>

-----------------------------------------------------------------------------
(* The reader thread: readerDispatch(), handleStreamFrame() and             *)
(* endStreamReading()                                                       *)

\* The peer answers requests it received, and sends no body before headers.
PeerMaySend(k, r) ==
    /\ \E n \in DOMAIN wire : wire[n] = streamId[r]
    /\ k \in {"data", "abort"} => ~pending[r]

\* findStream() under streamsMutex, which stays locked when a stream is found.
\* A frame for a stream that is not registered touches no stream.
DispatchFrame(k, r) ==
    /\ reader = "idle"
    /\ frames < MaxFrames
    /\ streamsMutex = None
    /\ r \in Registered
    /\ PeerMaySend(k, r)
    /\ frames' = frames + 1
    /\ frame' = k
    /\ target' = r
    /\ streamsMutex' = Reader
    /\ reader' = "found"
    /\ UNCHANGED <<pc, streamId, streamVars, tableVars, lock, sweep>>

\* Hand over hand: the stream is locked before the table is released.
LockTargetKeepsTable ==
    /\ reader = "found"
    /\ lock[target] = None
    /\ lock' = [lock EXCEPT ![target] = Reader]
    /\ reader' = "handling"
    /\ UNCHANGED <<pc, streamId, streamVars, tableVars, streamsMutex, target, frame, sweep, frames>>

LockTarget ==
    /\ reader = "found"
    /\ lock[target] = None
    /\ lock' = [lock EXCEPT ![target] = Reader]
    /\ streamsMutex' = None
    /\ reader' = "handling"
    /\ UNCHANGED <<pc, streamId, streamVars, tableVars, target, frame, sweep, frames>>

\* "end" is any frame with END_STREAM, "reset" RST_STREAM, "abort" a DATA frame
\* whose consumer asks to stop.  Callbacks run here, with the stream locked.
HandleFrame ==
    /\ reader = "handling"
    /\ pending' = [pending EXCEPT ![target] = @ /\ frame \notin {"headers", "end"}]
    /\ ended' = [ended EXCEPT ![target] = @ \/ frame \in {"end", "reset"}]
    /\ failed' = [failed EXCEPT ![target] = @ \/ frame \in {"reset", "abort"}]
    /\ reader' = "ending"
    /\ UNCHANGED <<pc, streamId, life, signalled, completed, completions, tableVars,
                   streamsMutex, lock, target, frame, sweep, frames>>

\* pthread_cond_signal(): nothing happens when nobody waits.
SignalDropped(r) == UNCHANGED signalled
Signal(r) == signalled' = [signalled EXCEPT ![r] = @ \/ pc[r] = "waiting"]

\* The stream is unlocked and the reader's pointer to it goes out of scope.
LetGo ==
    /\ lock' = [lock EXCEPT ![target] = None]
    /\ target' = None
    /\ frame' = "data"
    /\ reader' = "idle"

\* endStreamReading(): a stream that ended, or that its consumer cancelled, is
\* signalled and its callback sequence ended, unless it was before.
Over == ended[target] \/ frame = "abort"
Fires == Over /\ ~completed[target]

\* Mutant: the stream is unlocked before its callback runs.
EndReadingUnlocksFirst ==
    /\ reader = "ending"
    /\ ended' = [ended EXCEPT ![target] = Over]
    /\ IF Over THEN Signal(target) ELSE UNCHANGED signalled
    /\ IF Fires
       THEN reader' = "firing" /\ lock' = [lock EXCEPT ![target] = None] /\ UNCHANGED <<target, frame>>
       ELSE LetGo
    /\ UNCHANGED <<pc, streamId, life, pending, failed, completed, completions, tableVars,
                   streamsMutex, sweep, frames>>

EndReading ==
    /\ reader = "ending"
    /\ ended' = [ended EXCEPT ![target] = Over]
    /\ IF Over THEN Signal(target) ELSE UNCHANGED signalled
    /\ IF Fires
       THEN reader' = "firing" /\ UNCHANGED <<lock, target, frame>>
       ELSE LetGo
    /\ UNCHANGED <<pc, streamId, life, pending, failed, completed, completions, tableVars,
                   streamsMutex, sweep, frames>>

\* completeResponseSink() past its test of sink->completed.
FireComplete ==
    /\ reader = "firing"
    /\ completed' = [completed EXCEPT ![target] = TRUE]
    /\ completions' = [completions EXCEPT ![target] = @ + 1]
    /\ LetGo
    /\ UNCHANGED <<pc, streamId, life, ended, pending, failed, signalled, tableVars,
                   streamsMutex, sweep, frames>>

-----------------------------------------------------------------------------
(* The reader thread: failAllStreams()                                      *)

\* GOAWAY fails the streams without a response; the reader goes on.
\* Connection loss fails every unfinished stream, and the reader exits.
BeginSweep(onlyPending) ==
    /\ reader = "idle"
    /\ onlyPending => frames < MaxFrames
    /\ streamsMutex = None
    /\ streamsMutex' = Reader
    /\ sweep' = [slot |-> 1, onlyPending |-> onlyPending]
    /\ frames' = IF onlyPending THEN frames + 1 ELSE frames
    /\ reader' = "sweep"
    /\ UNCHANGED <<pc, streamId, streamVars, tableVars, lock, target, frame>>

NextSlot == sweep' = [sweep EXCEPT !.slot = @ + 1]

\* The streams that will never complete.
Doomed(r) == ~ended[r] /\ (sweep.onlyPending => pending[r])

\* An empty slot, or a stream this sweep spares.
SweepSkip ==
    /\ reader = "sweep"
    /\ sweep.slot \in Slots
    /\ LET r == slots[sweep.slot] IN
        r # None => lock[r] = None /\ ~Doomed(r)
    /\ NextSlot
    /\ UNCHANGED <<pc, streamId, streamVars, tableVars, streamsMutex, lock, reader,
                   target, frame, frames>>

\* The stream is failed and signalled under its lock.
SweepFail ==
    /\ reader = "sweep"
    /\ sweep.slot \in Slots
    /\ slots[sweep.slot] # None
    /\ LET r == slots[sweep.slot] IN
        /\ lock[r] = None
        /\ Doomed(r)
        /\ failed' = [failed EXCEPT ![r] = TRUE]
        /\ ended' = [ended EXCEPT ![r] = TRUE]
        /\ Signal(r)
        /\ IF completed[r]
           THEN NextSlot /\ UNCHANGED <<reader, lock>>
           ELSE /\ reader' = "sweepFire"
                /\ lock' = [lock EXCEPT ![r] = Reader]
                /\ UNCHANGED sweep
    /\ UNCHANGED <<pc, streamId, life, pending, completed, completions, tableVars,
                   streamsMutex, target, frame, frames>>

SweepFire ==
    /\ reader = "sweepFire"
    /\ LET r == slots[sweep.slot] IN
        /\ completed' = [completed EXCEPT ![r] = TRUE]
        /\ completions' = [completions EXCEPT ![r] = @ + 1]
        /\ lock' = [lock EXCEPT ![r] = None]
    /\ NextSlot
    /\ reader' = "sweep"
    /\ UNCHANGED <<pc, streamId, life, ended, pending, failed, signalled, tableVars,
                   streamsMutex, target, frame, frames>>

EndSweep ==
    /\ reader = "sweep"
    /\ sweep.slot \notin Slots
    /\ streamsMutex' = None
    /\ reader' = IF sweep.onlyPending THEN "idle" ELSE "exited"
    /\ sweep' = NoSweep
    /\ UNCHANGED <<pc, streamId, streamVars, tableVars, lock, target, frame, frames>>

-----------------------------------------------------------------------------
(* Specification                                                            *)

\* What a request thread does besides the write and the timed wait.
RequestStep(r) ==
    \/ AssignStreamId(r) \/ RegisterStream(r) \/ NoFreeSlot(r)
    \/ AbandonCheck(r) \/ AbandonComplete(r)
    \/ Await(r) \/ Wake(r) \/ Finalize(r) \/ Detach(r) \/ Barrier(r) \/ FreeStream(r)

\* What the reader does with a frame, or with a sweep, it has begun, besides
\* handling the frame, for which it may have to write.
ReaderStep ==
    \/ LockTarget \/ EndReading \/ FireComplete
    \/ SweepSkip \/ SweepFail \/ SweepFire \/ EndSweep

Next ==
    \/ \E r \in Requests : RequestStep(r) \/ SendRequest(r) \/ SendFails(r) \/ TimeOut(r)
    \/ \E k \in FrameKinds, r \in Requests : DispatchFrame(k, r)
    \/ \E onlyPending \in BOOLEAN : BeginSweep(onlyPending)
    \/ ReaderStep \/ HandleFrame

(* Threads go on, and the timed wait ends.  Nothing is assumed of writes:   *)
(* SSL_write() on a blocking socket returns when the peer has read enough.  *)
Fairness ==
    /\ \A r \in Requests : WF_vars(RequestStep(r)) /\ WF_vars(TimeOut(r))
    /\ WF_vars(ReaderStep)

Spec == Init /\ [][Next]_vars /\ Fairness

-----------------------------------------------------------------------------
(* Properties                                                               *)

RequestStates == {"start", "register", "send", "abandon", "complete", "await", "waiting",
                  "finalize", "detach", "barrier", "free", "done"}
ReaderStates == {"idle", "found", "handling", "ending", "firing", "sweep", "sweepFire", "exited"}

ClientIds == {n \in Nat : n % 2 = 1}

\* Every variable stays in its range; the ids given to streams are odd.
TypeOK ==
    /\ pc \in [Requests -> RequestStates]
    /\ streamId \in [Requests -> ClientIds \cup {0}]
    /\ life \in [Requests -> {"absent", "live", "freed"}]
    /\ ended \in [Requests -> BOOLEAN]
    /\ pending \in [Requests -> BOOLEAN]
    /\ failed \in [Requests -> BOOLEAN]
    /\ signalled \in [Requests -> BOOLEAN]
    /\ completed \in [Requests -> BOOLEAN]
    /\ completions \in [Requests -> Nat]
    /\ slots \in [Slots -> Requests \cup {None}]
    /\ inflight \in Nat
    /\ nextId \in ClientIds
    /\ wire \in Seq(ClientIds \cup {0})
    /\ streamsMutex \in {None, Reader}
    /\ lock \in [Requests -> {None, Reader}]
    /\ reader \in ReaderStates
    /\ target \in Requests \cup {None}
    /\ frame \in FrameKinds
    /\ sweep \in [slot : Nat, onlyPending : BOOLEAN]
    /\ frames \in Nat

\* The reader never follows a pointer to a stream its request has freed: neither
\* the one it found for a frame, nor one the table still names.
NoUseAfterFree ==
    /\ reader \in {"found", "handling", "ending", "firing"} => life[target] = "live"
    /\ \A i \in Slots : slots[i] # None => life[slots[i]] = "live"

\* inflightCount, which shields a connection from the reaper, is the number of
\* registered streams.
InflightExact == inflight = Cardinality(Registered)

\* A request never sleeps on a stream that ended without a signal under way.
NoLostWakeup ==
    \A r \in Requests :
        pc[r] = "waiting" /\ ended[r] => signalled[r] \/ lock[r] = Reader

\* Once the reader lets go of a stream that ended, its consumer has been told:
\* the request cannot harvest and free it before onComplete has run.
EndedIsReported ==
    \A r \in Requests : ended[r] /\ lock[r] = None => completed[r] /\ completions[r] > 0

\* No SSL_write() waits for ever: neither a request's nor the one with which the
\* reader answers a frame.
WritesReturn == (\A r \in Requests : []<>(pc[r] # "send")) /\ []<>(reader # "handling")

\* Every request ends and frees its stream, whatever the peer sends, as long as
\* writes return: no thread is left behind a lock or asleep.  A peer that renews
\* the deadline for ever with new frames is cut off by MaxFrames.
EveryRequestEnds == WritesReturn => <>(\A r \in Requests : pc[r] = "done")

-----------------------------------------------------------------------------
(* The inductive invariant of the proofs                                    *)

\* A request in one of these states is in the table.
Registering == {"send", "abandon", "complete", "await", "waiting", "finalize", "detach"}
Reading == {"handling", "ending", "firing"}

\* The object lives from its allocation to FreeStream.
ObjectOwned ==
    \A r \in Requests :
        life[r] = "live" <=> pc[r] \in Registering \cup {"register", "barrier", "free"}

\* The table holds each registered stream, once.
TableOwned ==
    /\ \A r \in Requests : pc[r] \in Registering <=> r \in Registered
    /\ \A i, j \in Slots : slots[i] = slots[j] /\ slots[i] # None => i = j

\* What the reader holds when it follows a pointer: the table's lock while the
\* pointer comes from the table, the stream's own lock afterwards.
LocksHeld ==
    /\ streamsMutex = Reader <=> reader \in {"found", "sweep", "sweepFire"}
    /\ reader = "found" => target \in Registered
    /\ reader \in Reading =>
        /\ target \in Requests
        /\ lock[target] = Reader
        /\ pc[target] \in Registering \cup {"barrier"}
    /\ reader = "sweepFire" =>
        /\ sweep.slot \in Slots
        /\ slots[sweep.slot] # None
        /\ lock[slots[sweep.slot]] = Reader

\* A stream whose onComplete is about to run has been signalled.
SignalledFirst ==
    /\ reader = "firing" /\ pc[target] = "waiting" => signalled[target]
    /\ reader = "sweepFire" /\ pc[slots[sweep.slot]] = "waiting" => signalled[slots[sweep.slot]]

\* sink->completed is set with the call of onComplete.
CompletionsCounted == \A r \in Requests : completed[r] => completions[r] > 0

IInv ==
    /\ TypeOK
    /\ ObjectOwned
    /\ TableOwned
    /\ InflightExact
    /\ LocksHeld
    /\ SignalledFirst
    /\ NoLostWakeup
    /\ CompletionsCounted
    /\ EndedIsReported

-----------------------------------------------------------------------------
(* What comments of the code say, and the code does not do                  *)

\* ResponseStream.c: "Idempotent: only the first caller ends the callback sequence."
CompletedOnce == \A r \in Requests : completions[r] <= 1

\* ResponseStream.h: onComplete is "Delivered once per attempt".
EveryAttemptReported ==
    \A r \in Requests : pc[r] = "done" /\ (\E n \in DOMAIN wire : wire[n] = streamId[r])
        => completions[r] > 0

\* failAllStreams(): on connection loss "every unfinished stream is failed", so
\* that no request waits for a response nobody will read.
NobodyWaitsOnDeadConnection ==
    \A r \in Requests : reader = "exited" /\ pc[r] = "waiting" => ended[r]

\* Stream ids open in increasing order on the wire.
IdsIncrease == \A m, n \in DOMAIN wire : m < n => wire[m] < wire[n]

=============================================================================
