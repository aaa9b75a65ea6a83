----------------------------- MODULE AsyncRegistry -----------------------------
(***************************************************************************)
(* Non-blocking requests: handleRequest() takes a registry slot, starts    *)
(* the request and publishes its basket; handleResponse() polls the        *)
(* handle, and the poll that copies the whole result out reclaims slot,    *)
(* stream and basket; cleanupAsyncRequests() reclaims the rest at exit.    *)
(*                                                                         *)
(* A request's basket and stream are named by the request; an HTTP/1.1     *)
(* request also has the background thread that runs its exchange.  Every   *)
(* step is one critical section, or one stretch of unlocked accesses to    *)
(* the basket or the stream.  Callers follow the contract: they poll again *)
(* on status 0 and 2, and forget the handle on 1 and -1.                   *)
(***************************************************************************)
EXTENDS Integers, FiniteSets

CONSTANTS Requests,     \* one non-blocking handleRequest() call each
          Polls,        \* who polls what: pairs of a request and a thread
          Http11,       \* the requests that run over HTTP/1.1
          Truncates,    \* the requests whose result may not get into the buffer they are polled with
          NumSlots,     \* MAX_ASYNC_REQUESTS
          None

ASSUME RegistryAssumption ==
    /\ \A p \in Polls : p[1] \in Requests
    /\ Http11 \subseteq Requests
    /\ Truncates \subseteq Requests
    /\ NumSlots \in Nat
    /\ None \notin Requests

Slots == 1 .. NumSlots
NoSlot == 0
Errors == {"none", "retryable", "other"}

VARIABLES entry,     \* asyncRegistry[]: inUse, and the basket once it is published
          pc,        \* handleRequestAsync()
          slotOf,    \* the entry pointer it holds
          attempts,  \* executeRequest() calls made
          basket,    \* "absent", "live" or "freed"
          error,     \* basket->error
          stream,    \* "absent", "live" or "freed"
          ended,     \* stream->isEnded
          worker,    \* http11ExchangeThread(): "none", "running", "ended" or "gone"
          poll,      \* handleResponse() calls, by request and polling thread
          down       \* cleanupEnv() has run

reqVars == <<pc, slotOf, attempts>>
vars == <<entry, reqVars, basket, error, stream, ended, worker, poll, down>>

FreeEntry == [inUse |-> FALSE, basket |-> None, hasStream |-> FALSE]
IdlePoll == [at |-> "idle", hasStream |-> FALSE, failed |-> FALSE, code |-> 0]

Init ==
    /\ entry = [i \in Slots |-> FreeEntry]
    /\ pc = [r \in Requests |-> "start"]
    /\ slotOf = [r \in Requests |-> NoSlot]
    /\ attempts = [r \in Requests |-> 0]
    /\ basket = [r \in Requests |-> "absent"]
    /\ error = [r \in Requests |-> "none"]
    /\ stream = [r \in Requests |-> "absent"]
    /\ ended = [r \in Requests |-> FALSE]
    /\ worker = [r \in Requests |-> "none"]
    /\ poll = [p \in Polls |-> IdlePoll]
    /\ down = FALSE

\* asyncFindSlotByBasket()
Published(r) == {i \in Slots : entry[i].inUse /\ entry[i].basket = r}

-----------------------------------------------------------------------------
(* handleRequestAsync()                                                     *)

\* asyncAllocEntry(): the first free slot.
AllocEntry(r) ==
    /\ pc[r] = "start"
    /\ ~down
    /\ \E i \in Slots :
        /\ ~entry[i].inUse
        /\ \A j \in Slots : j < i => entry[j].inUse
        /\ entry' = [entry EXCEPT ![i] = [FreeEntry EXCEPT !.inUse = TRUE]]
        /\ slotOf' = [slotOf EXCEPT ![r] = i]
    /\ basket' = [basket EXCEPT ![r] = "live"]
    /\ pc' = [pc EXCEPT ![r] = "execute"]
    /\ UNCHANGED <<attempts, error, stream, ended, worker, poll, down>>

\* Registry full: the basket is freed and the caller gets handle 0.
RegistryFull(r) ==
    /\ pc[r] = "start"
    /\ ~down
    /\ \A i \in Slots : entry[i].inUse
    /\ basket' = [basket EXCEPT ![r] = "freed"]
    /\ pc' = [pc EXCEPT ![r] = "refused"]
    /\ UNCHANGED <<entry, slotOf, attempts, error, stream, ended, worker, poll, down>>

\* executeRequest() registers a stream and sends, or starts the HTTP/1.1 thread.
Execute(r) ==
    /\ pc[r] = "execute"
    /\ attempts' = [attempts EXCEPT ![r] = @ + 1]
    /\ stream' = [stream EXCEPT ![r] = "live"]
    /\ worker' = [worker EXCEPT ![r] = IF r \in Http11 THEN "running" ELSE "none"]
    /\ pc' = [pc EXCEPT ![r] = "sent"]
    /\ UNCHANGED <<entry, slotOf, basket, error, ended, poll, down>>

\* executeRequest() looks for an error, which an HTTP/1.1 thread that is done by
\* now has left, and unregisters the stream when there is one.
Settle(r) ==
    /\ pc[r] = "sent"
    /\ stream' = [stream EXCEPT ![r] = IF error[r] = "none" THEN @ ELSE "freed"]
    /\ pc' = [pc EXCEPT ![r] = "publish"]
    /\ UNCHANGED <<entry, slotOf, attempts, basket, error, ended, worker, poll, down>>

\* It fails before anything is sent; a connection-level error is retried once.
ExecuteFails(r, e) ==
    /\ pc[r] = "execute"
    /\ attempts' = [attempts EXCEPT ![r] = @ + 1]
    /\ IF e = "retryable" /\ attempts[r] = 0
       THEN UNCHANGED <<error, pc>>
       ELSE /\ error' = [error EXCEPT ![r] = e]
            /\ pc' = [pc EXCEPT ![r] = "publish"]
    /\ UNCHANGED <<entry, slotOf, basket, stream, ended, worker, poll, down>>

\* The stream pointer is dropped when the basket has an error by now.
Publish(r) ==
    /\ pc[r] = "publish"
    /\ entry' = [entry EXCEPT ![slotOf[r]].basket = r,
                              ![slotOf[r]].hasStream = stream[r] = "live" /\ error[r] = "none"]
    /\ pc' = [pc EXCEPT ![r] = "returned"]
    /\ UNCHANGED <<slotOf, attempts, basket, error, stream, ended, worker, poll, down>>

-----------------------------------------------------------------------------
(* The exchange in the background                                           *)

\* The HTTP/2 reader ends the stream, cleanly or with an error that waits in
\* stream->error for finalizeStreamIntoBasket().
StreamEnds(r) ==
    /\ r \notin Http11
    /\ stream[r] = "live" /\ ~ended[r]
    /\ ended' = [ended EXCEPT ![r] = TRUE]
    /\ UNCHANGED <<entry, reqVars, basket, error, stream, worker, poll, down>>

\* endStream(): from here a poll may harvest the request.
WorkerEndsStream(r) ==
    /\ worker[r] = "running"
    /\ ended' = [ended EXCEPT ![r] = TRUE]
    /\ worker' = [worker EXCEPT ![r] = "ended"]
    /\ UNCHANGED <<entry, reqVars, basket, error, stream, poll, down>>

\* The thread then reads stream->error and copies it into the basket.
WorkerReturns(r) ==
    /\ worker[r] = "ended"
    /\ worker' = [worker EXCEPT ![r] = "gone"]
    /\ \E failed \in BOOLEAN : error' = [error EXCEPT ![r] = IF failed THEN "other" ELSE @]
    /\ UNCHANGED <<entry, reqVars, basket, stream, ended, poll, down>>

-----------------------------------------------------------------------------
(* handleResponse()                                                         *)

PollAt(p, at) == poll[p].at = at
ReturnKeepsHandle(p, code) == poll' = [poll EXCEPT ![p] = IdlePoll]

Return(p, code) ==
    poll' = [poll EXCEPT ![p] = [IdlePoll EXCEPT !.at = IF code \in {0, 2} THEN "idle" ELSE "stopped"]]

\* handleResponse() reads basket->nonBlocking from the handle it is given.
Call(p) ==
    /\ PollAt(p, "idle")
    /\ pc[p[1]] = "returned"
    /\ ~down
    /\ poll' = [poll EXCEPT ![p].at = "lookup"]
    /\ UNCHANGED <<entry, reqVars, basket, error, stream, ended, worker, down>>

\* Under asyncRegistryMutex: snapshot the entry, or an unknown handle.
Lookup(p) ==
    /\ PollAt(p, "lookup")
    /\ IF Published(p[1]) # {}
       THEN \E i \in Published(p[1]) :
              poll' = [poll EXCEPT ![p].at = "check", ![p].hasStream = entry[i].hasStream]
       ELSE Return(p, -1)
    /\ UNCHANGED <<entry, reqVars, basket, error, stream, ended, worker, down>>

\* Still in flight.
CheckPending(p) ==
    /\ PollAt(p, "check")
    /\ IF poll[p].hasStream THEN ~ended[p[1]] ELSE error[p[1]] = "none"
    /\ Return(p, 0)
    /\ UNCHANGED <<entry, reqVars, basket, error, stream, ended, worker, down>>

\* The stream ended, or the request never started.
CheckDone(p) ==
    /\ PollAt(p, "check")
    /\ IF poll[p].hasStream THEN ended[p[1]] ELSE error[p[1]] # "none"
    /\ poll' = [poll EXCEPT ![p].at = "finalize", ![p].failed = ~poll[p].hasStream]
    /\ UNCHANGED <<entry, reqVars, basket, error, stream, ended, worker, down>>

\* No activity for the reading timeout.
CheckNeverTimesOut(p) ==
    /\ PollAt(p, "check")
    /\ poll[p].hasStream /\ ended[p[1]]
    /\ error' = [error EXCEPT ![p[1]] = "other"]
    /\ poll' = [poll EXCEPT ![p].at = "finalize", ![p].failed = TRUE]
    /\ UNCHANGED <<entry, reqVars, basket, stream, ended, worker, down>>

CheckTimedOut(p) ==
    /\ PollAt(p, "check")
    /\ poll[p].hasStream /\ ~ended[p[1]]
    /\ error' = [error EXCEPT ![p[1]] = "other"]
    /\ poll' = [poll EXCEPT ![p].at = "finalize", ![p].failed = TRUE]
    /\ UNCHANGED <<entry, reqVars, basket, stream, ended, worker, down>>

\* finalizeStreamIntoBasket(): the basket inherits stream->error, if any.
Finalize(p) ==
    /\ PollAt(p, "finalize")
    /\ IF poll[p].hasStream /\ error[p[1]] = "none"
       THEN \E e \in Errors : error' = [error EXCEPT ![p[1]] = e]
       ELSE UNCHANGED error
    /\ poll' = [poll EXCEPT ![p].at = "copy"]
    /\ UNCHANGED <<entry, reqVars, basket, stream, ended, worker, down>>

\* copyBasketResult(): 1 when the result fits, 2 when it is cut, -1 when there
\* was no memory to serialize it.
Copy(p) ==
    /\ PollAt(p, "copy")
    /\ \E code \in IF p[1] \in Truncates THEN {1, 2, -1} ELSE {1} :
        poll' = [poll EXCEPT ![p].at = IF code = 1 THEN "detach" ELSE "return", ![p].code = code]
    /\ UNCHANGED <<entry, reqVars, basket, error, stream, ended, worker, down>>

\* Under asyncRegistryMutex: only one poll finds the basket still registered.
DetachUnclaimed(p) ==
    /\ PollAt(p, "detach")
    /\ entry' = [i \in Slots |-> IF i \in Published(p[1]) THEN FreeEntry ELSE entry[i]]
    /\ poll' = [poll EXCEPT ![p].at = "free"]
    /\ UNCHANGED <<reqVars, basket, error, stream, ended, worker, down>>

Detach(p) ==
    /\ PollAt(p, "detach")
    /\ entry' = [i \in Slots |-> IF i \in Published(p[1]) THEN FreeEntry ELSE entry[i]]
    /\ poll' = [poll EXCEPT ![p].at = IF Published(p[1]) # {} THEN "free" ELSE "return"]
    /\ UNCHANGED <<reqVars, basket, error, stream, ended, worker, down>>

\* freeBasket(), and unregisterStream() for the streams the registry knew of.
Reclaim(rs, withStream) ==
    /\ stream' = [r \in Requests |-> IF r \in rs \cap withStream THEN "freed" ELSE stream[r]]
    /\ basket' = [r \in Requests |-> IF r \in rs THEN "freed" ELSE basket[r]]

Free(p) ==
    /\ PollAt(p, "free")
    /\ Reclaim({p[1]}, IF poll[p].hasStream THEN {p[1]} ELSE {})
    /\ poll' = [poll EXCEPT ![p].at = "return"]
    /\ UNCHANGED <<entry, reqVars, error, ended, worker, down>>

ReportStatus(p) ==
    /\ PollAt(p, "return")
    /\ Return(p, IF poll[p].failed THEN -1 ELSE poll[p].code)
    /\ UNCHANGED <<entry, reqVars, basket, error, stream, ended, worker, down>>

-----------------------------------------------------------------------------
(* cleanupAsyncRequests(), once no call is in progress                      *)

Quiet ==
    /\ \A r \in Requests : pc[r] \in {"start", "returned", "refused"}
    /\ \A p \in Polls : poll[p].at \in {"idle", "stopped"}

CleanupKeepsBaskets ==
    /\ ~down /\ Quiet
    /\ entry' = [i \in Slots |-> FreeEntry]
    /\ down' = TRUE
    /\ UNCHANGED <<reqVars, basket, stream, error, ended, worker, poll>>

CleanupAsyncRequests ==
    /\ ~down /\ Quiet
    /\ LET all == {r \in Requests : Published(r) # {}}
       IN  Reclaim(all, {r \in all : \E i \in Published(r) : entry[i].hasStream})
    /\ entry' = [i \in Slots |-> FreeEntry]
    /\ down' = TRUE
    /\ UNCHANGED <<reqVars, error, ended, worker, poll>>

-----------------------------------------------------------------------------
(* Specification                                                            *)

Starting(r) ==
    \/ AllocEntry(r) \/ RegistryFull(r) \/ Execute(r)
    \/ \E e \in Errors \ {"none"} : ExecuteFails(r, e)
    \/ Settle(r) \/ Publish(r)

Background(r) == StreamEnds(r) \/ WorkerEndsStream(r) \/ WorkerReturns(r)

Polling(p) ==
    \/ Call(p) \/ Lookup(p) \/ CheckPending(p) \/ CheckDone(p) \/ CheckTimedOut(p)
    \/ Finalize(p) \/ Copy(p) \/ Detach(p) \/ Free(p) \/ ReportStatus(p)

Next ==
    \/ \E r \in Requests : Starting(r) \/ Background(r)
    \/ \E p \in Polls : Polling(p)
    \/ CleanupAsyncRequests

\* A started request goes on, callers poll, and time passes between two polls,
\* so that a poll in the end finds the stream ended or the timeout over.
Fairness ==
    /\ \A r \in Requests : WF_vars(Starting(r) /\ pc[r] # "start")
    /\ \A p \in Polls : WF_vars(Polling(p)) /\ SF_vars(CheckTimedOut(p))

Spec == Init /\ [][Next]_vars /\ Fairness

-----------------------------------------------------------------------------
(* Properties                                                               *)

EntryType == [inUse : BOOLEAN, basket : Requests \cup {None}, hasStream : BOOLEAN]
PollType == [at : {"idle", "lookup", "check", "finalize", "copy", "detach", "free", "return", "stopped"},
             hasStream : BOOLEAN, failed : BOOLEAN, code : {0, 1, 2, -1}]

\* Every variable stays in its range.
TypeOK ==
    /\ entry \in [Slots -> EntryType]
    /\ pc \in [Requests -> {"start", "execute", "sent", "publish", "returned", "refused"}]
    /\ slotOf \in [Requests -> Slots \cup {NoSlot}]
    /\ attempts \in [Requests -> 0 .. 2]
    /\ basket \in [Requests -> {"absent", "live", "freed"}]
    /\ error \in [Requests -> Errors]
    /\ stream \in [Requests -> {"absent", "live", "freed"}]
    /\ ended \in [Requests -> BOOLEAN]
    /\ worker \in [Requests -> {"none", "running", "ended", "gone"}]
    /\ poll \in [Polls -> PollType]
    /\ down \in BOOLEAN

SolePoller(r) == \A p, q \in Polls : p[1] = r /\ q[1] = r => p = q

\* A handle polled by one thread: no poll follows it, or a stream pointer taken
\* from the registry, to memory that was freed, whatever other handles go through.
PollsTouchLiveMemory ==
    \A p \in Polls : SolePoller(p[1]) =>
        /\ poll[p].at \in {"lookup", "check", "finalize", "copy"} => basket[p[1]] = "live"
        /\ poll[p].at \in {"check", "finalize"} /\ poll[p].hasStream => stream[p[1]] = "live"

\* However many threads poll a handle, its basket is freed once.
FreedOnce ==
    /\ \A p \in Polls : poll[p].at = "free" => basket[p[1]] = "live"
    /\ \A p, q \in Polls : p[1] = q[1] /\ poll[p].at = "free" /\ poll[q].at = "free" => p = q

\* A caller that is told to forget its handle (one poller, a buffer that fits)
\* and cleanupEnv() leave no basket behind, and no stream of an HTTP/2 request.
NothingLeaks ==
    /\ \A p \in Polls :
        poll[p].at = "stopped" /\ SolePoller(p[1]) /\ p[1] \notin Truncates =>
            basket[p[1]] = "freed" /\ (p[1] \notin Http11 => stream[p[1]] # "live")
    /\ down => \A r \in Requests :
        basket[r] # "live" /\ (r \notin Http11 => stream[r] # "live")

\* Every handle that is polled to the end with a large enough buffer is reclaimed,
\* also when the server never answers.
EveryHandleReclaimed ==
    \A r \in Requests \ Truncates : pc[r] = "returned" ~> basket[r] = "freed"

-----------------------------------------------------------------------------
(* What the comments say, and the code does not do                          *)

\* handleResponseAsync(): releasing the slot is a "no-op if another poller already
\* did", so polling one handle from several threads would be safe.
EveryPollTouchesLiveMemory ==
    \A p \in Polls : poll[p].at \in {"lookup", "check", "finalize", "copy"} => basket[p[1]] = "live"

\* The same of the streams of HTTP/1.1 requests and of truncated results.
NothingEverLeaks ==
    /\ \A p \in Polls : poll[p].at = "stopped" /\ SolePoller(p[1]) =>
        basket[p[1]] = "freed" /\ stream[p[1]] # "live"
    /\ down => \A r \in Requests : basket[r] # "live" /\ stream[r] # "live"

\* unregisterStream(): "ensure any in-progress reader access to this stream has
\* finished before we free it".
WorkerTouchesLiveMemory ==
    \A r \in Requests :
        worker[r] \in {"running", "ended"} => stream[r] = "live" /\ basket[r] = "live"

\* handleRequestAsync(): connection-level errors are "retryable once, same as the
\* blocking path".
RetryableRetried ==
    \A p \in Polls : poll[p].at = "copy" /\ error[p[1]] = "retryable" => attempts[p[1]] = 2

=============================================================================
