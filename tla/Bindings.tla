------------------------------ MODULE Bindings ------------------------------
(***************************************************************************)
(* The lifetime of the streaming callbacks in the Node.js addon and in the  *)
(* JNI bridge.  The core calls back on a thread of its own for as long as a *)
(* stream is registered.  The addon's StreamBridge copies each event into   *)
(* the queue of a threadsafe function, which the JS thread drains, and dies *)
(* with the last of its two owners; the bridge's JniStreamContext calls the *)
(* listener at once and is kept, for a polled request, in a list under the  *)
(* request's handle until the poll that reaps it.  The handle is the        *)
(* address of the basket, which is used again once the basket is freed.     *)
(*                                                                         *)
(* The core is here what its callers see of it: handleRequest(),            *)
(* handleResponse() and the callbacks between them.  A step of the JS       *)
(* thread is atomic for the JS thread; Java has as many threads as requests.*)
(***************************************************************************)
EXTENDS Naturals, Sequences

CONSTANTS Requests,  \* requests with callbacks
          Styles,    \* which of them block their caller and which are polled
          Handles,   \* addresses of baskets
          MaxChunks  \* bound on the chunks of an attempt

ASSUME BindingsAssumption ==
    /\ Styles \subseteq [Requests -> {"blocking", "polled"}]
    /\ MaxChunks \in Nat

VARIABLES binding,  \* "node" or "java"
          style,    \* per request: "blocking" or "polled"
          caller,   \* per request: where its caller is
          handle,   \* per request: what handleRequest() returned
          core,     \* per request: what the core may still call
          attempt,  \* per request: the attempt under way
          chunks,   \* per request: the chunks of the attempt
          context,  \* per request: StreamBridge or JniStreamContext
          refs,     \* Node: the references to the bridge
          tsfn,     \* Node: the threadsafe function
          queue,    \* Node: the events that have been posted
          stop,     \* Node: abortRequested
          registry, \* pendingStreams or streamContexts
          seen,     \* history: the attempts whose onComplete the consumer was called with
          late,     \* history: whose events found their threadsafe function finalized
          givenUp,  \* history: the contexts that were given up on purpose
          shared,   \* history: the requests that had an address in common
          stray,    \* the reaped requests whose HTTP/1.1 exchange thread runs on
          unreaped  \* the requests given up by their pollers, but still registered

bindingVars == <<binding, style, caller, handle, core, attempt, chunks, context, refs, tsfn, queue, stop,
                 registry, seen, late, givenUp, shared, stray, unreaped>>
requestVars == <<binding, style, attempt, late, givenUp, shared, stray, unreaped>>
bridgeVars == <<refs, tsfn, queue, stop>>

Node == binding = "node"
Java == binding = "java"
NoHandle == 0

BridgeInit ==
    /\ binding \in {"node", "java"}
    /\ style \in Styles
    /\ caller = [r \in Requests |-> "new"]
    /\ handle = [r \in Requests |-> NoHandle]
    /\ core = [r \in Requests |-> "off"]
    /\ attempt = [r \in Requests |-> 1]
    /\ chunks = [r \in Requests |-> 0]
    /\ context = [r \in Requests |-> "none"]
    /\ refs = [r \in Requests |-> 0]
    /\ tsfn = [r \in Requests |-> "none"]
    /\ queue = [r \in Requests |-> <<>>]
    /\ stop = [r \in Requests |-> FALSE]
    /\ registry = <<>>
    /\ seen = [r \in Requests |-> {}]
    /\ late = {}
    /\ givenUp = {}
    /\ shared = {}
    /\ stray = {}
    /\ unreaped = {}

-----------------------------------------------------------------------------
(* Contexts                                                                 *)

\* A bug: only the request is thought to own the bridge.
OneOwner == 1
\* refCount: the request that reaps the result, and the threadsafe function.
Owners == 2

\* CreateStreamBridge() and createStreamContext()
Create(r) ==
    /\ context' = [context EXCEPT ![r] = "live"]
    /\ refs' = [refs EXCEPT ![r] = IF Node THEN Owners ELSE 0]
    /\ tsfn' = [tsfn EXCEPT ![r] = IF Node THEN "open" ELSE "none"]

\* DropStreamBridge()
Drop(r) ==
    /\ refs' = [refs EXCEPT ![r] = @ - 1]
    /\ context' = [context EXCEPT ![r] = IF refs[r] = 1 THEN "freed" ELSE @]

\* RetireStreamBridge(): the first time only, and what is queued still runs.
Retired(t) == IF t = "open" THEN "released" ELSE t

\* The context of request r goes: ReleaseStreamBridge() or freeStreamContext().
Release(r) ==
    IF Node
    THEN Drop(r) /\ tsfn' = [tsfn EXCEPT ![r] = Retired(@)]
    ELSE context' = [context EXCEPT ![r] = "freed"] /\ UNCHANGED <<refs, tsfn>>

\* The entry of a handle: the map has one, the list may have several, of which the
\* newest is found first.
Entries(h) == {i \in 1 .. Len(registry) : registry[i].handle = h}
Newest(h) == CHOOSE i \in Entries(h) : \A j \in Entries(h) : i <= j
Without(i) == SubSeq(registry, 1, i - 1) \o SubSeq(registry, i + 1, Len(registry))
\* registerStreamContext(), or an assignment to pendingStreams[id].
Registered(r, h) ==
    LET others == IF Node /\ Entries(h) # {} THEN Without(Newest(h)) ELSE registry
    IN  <<[handle |-> h, request |-> r]>> \o others

\* takeStreamContext() and the release of what it returns.
TakeAndRelease(h) ==
    IF Entries(h) = {}
    THEN UNCHANGED <<registry, context, refs, tsfn>>
    ELSE registry' = Without(Newest(h)) /\ Release(registry[Newest(h)].request)

-----------------------------------------------------------------------------
(* Starting a request                                                       *)

\* requestAsync() queues the blocking call for a worker, runBlockingRequest() makes
\* it.  The exchange may fail before there is a stream.
StartBlocking(r, start) ==
    /\ caller[r] = "new" /\ style[r] = "blocking"
    /\ caller' = [caller EXCEPT ![r] = "running"]
    /\ core' = [core EXCEPT ![r] = start]
    /\ Create(r)
    /\ UNCHANGED <<requestVars, handle, chunks, queue, stop, registry, seen>>

\* Where a new basket may lie.  An answer frees the old one before its context has
\* been taken from the list.
Free(h) == \A q \in Requests : handle[q] = h => caller[q] \in {"reaping", "over"} /\ q \notin unreaped
Awaited(h) == {q \in Requests : handle[q] = h /\ caller[q] = "reaping"}

\* handleRequest() has sent the request and returns: the addon files the bridge in
\* the same step of the JS thread, the JNI bridge is yet to register the context.
StartPolled(r, h, start) ==
    /\ caller[r] = "new" /\ style[r] = "polled"
    /\ Free(h)
    /\ handle' = [handle EXCEPT ![r] = h]
    /\ core' = [core EXCEPT ![r] = start]
    /\ Create(r)
    /\ caller' = [caller EXCEPT ![r] = IF Node THEN "polling" ELSE "starting"]
    /\ registry' = IF Node THEN Registered(r, h) ELSE registry
    /\ shared' = IF Awaited(h) = {} /\ Entries(h) = {} THEN shared ELSE shared \cup Awaited(h) \cup {r}
    /\ UNCHANGED <<binding, style, attempt, late, givenUp, stray, unreaped, chunks, queue, stop, seen>>

\* handleRequest() returns 0: nothing will call back.
StartFails(r) ==
    /\ caller[r] = "new" /\ style[r] = "polled"
    /\ caller' = [caller EXCEPT ![r] = "over"]
    /\ context' = [context EXCEPT ![r] = IF Node THEN "live" ELSE "freed"]
    /\ refs' = [refs EXCEPT ![r] = IF Node THEN Owners - 1 ELSE 0]
    /\ tsfn' = [tsfn EXCEPT ![r] = IF Node THEN "released" ELSE "none"]
    /\ UNCHANGED <<requestVars, handle, core, chunks, queue, stop, registry, seen>>

RegisterStreamContext(r) ==
    /\ caller[r] = "starting"
    /\ caller' = [caller EXCEPT ![r] = "polling"]
    /\ registry' = Registered(r, handle[r])
    /\ UNCHANGED <<requestVars, handle, core, chunks, context, bridgeVars, seen>>

\* There is no memory for the entry: "leaking it is the safe side".
RegisterStreamContextFails(r) ==
    /\ caller[r] = "starting"
    /\ caller' = [caller EXCEPT ![r] = "polling"]
    /\ givenUp' = givenUp \cup {r}
    /\ UNCHANGED <<binding, style, attempt, late, shared, stray, unreaped, handle, core, chunks, context,
                   bridgeVars, registry, seen>>

-----------------------------------------------------------------------------
(* Callbacks                                                                *)

Completes(event) == IF event.name = "complete" THEN {event.attempt} ELSE {}

\* The consumer gets the event at once, or by the queue.  A threadsafe function
\* whose queue has drained after its release is gone.  due: the event is one of those
\* up to onComplete.
Deliver(r, name, due) ==
    LET event == [attempt |-> attempt[r], name |-> name]
    IN  IF Node
        THEN /\ queue' = [queue EXCEPT ![r] = IF tsfn[r] = "closed" THEN @ ELSE Append(@, event)]
             /\ late' = IF tsfn[r] = "closed" /\ due
                        THEN late \cup {[request |-> r, attempt |-> attempt[r]]} ELSE late
             /\ UNCHANGED seen
        ELSE /\ seen' = [seen EXCEPT ![r] = @ \cup Completes(event)]
             /\ UNCHANGED <<queue, late>>

callbackVars == <<binding, style, givenUp, shared, stray, unreaped, caller, handle, context, refs, tsfn, stop,
                  registry>>

\* The exchange goes on.
InFlight(r) == core[r] \in {"headers", "body", "aborting"}
\* onComplete has been called; the failure can be tried again ("retryable"), DATA may
\* follow what could not be decoded ("leftover"), and a request whose sending fails
\* just as the reader ends its stream is completed once more ("doubled").
Ends == {"ended", "retryable", "leftover", "doubled"}

OnHeaders(r) ==
    /\ core[r] = "headers"
    /\ core' = [core EXCEPT ![r] = "body"]
    /\ Deliver(r, "headers", TRUE)
    /\ UNCHANGED <<callbackVars, attempt, chunks>>

\* A chunk.  JS has its say by a flag that the next chunk honours, Java at once.
OnData(r, refused) ==
    /\ core[r] \in {"body", "leftover"} /\ chunks[r] < MaxChunks
    /\ Node => refused = stop[r]
    /\ chunks' = [chunks EXCEPT ![r] = @ + 1]
    /\ core' = [core EXCEPT ![r] = IF ~refused THEN @ ELSE IF @ = "body" THEN "aborting" ELSE "ended"]
    /\ IF Node /\ refused THEN UNCHANGED <<queue, late, seen>> ELSE Deliver(r, "data", core[r] = "body")
    /\ UNCHANGED <<callbackVars, attempt>>

OnComplete(r, end) ==
    /\ InFlight(r) \/ core[r] = "doubled"
    /\ core[r] \in {"aborting", "doubled"} => end = "ended"
    /\ end = "leftover" => core[r] = "body" /\ r \notin stray
    /\ end \in {"retryable", "doubled"} => caller[r] = "running"
    /\ core' = [core EXCEPT ![r] = end]
    /\ Deliver(r, "complete", InFlight(r))
    /\ UNCHANGED <<callbackVars, attempt, chunks>>

\* handleRequestSync() tries a retryable failure again, on a new stream.
Retry(r) ==
    /\ caller[r] = "running" /\ core[r] = "retryable" /\ attempt[r] = 1
    /\ attempt' = [attempt EXCEPT ![r] = 2]
    /\ core' = [core EXCEPT ![r] = "headers"]
    /\ chunks' = [chunks EXCEPT ![r] = 0]
    /\ UNCHANGED <<callbackVars, queue, seen, late>>

-----------------------------------------------------------------------------
(* The end of a blocking request                                            *)

\* handleRequest() returns, the stream unregistered, whether it ended or its time
\* was up; handleResponse() frees the basket.
ExecuteRequest(r) ==
    /\ Node /\ caller[r] = "running"
    /\ core' = [core EXCEPT ![r] = "off"]
    /\ caller' = [caller EXCEPT ![r] = "collected"]
    /\ UNCHANGED <<requestVars, handle, chunks, context, bridgeVars, registry, seen>>

\* A bug: onComplete is relied on to release the bridge.
CompleteRequestOnly(r) ==
    /\ caller[r] = "collected"
    /\ caller' = [caller EXCEPT ![r] = "over"]
    /\ UNCHANGED <<requestVars, handle, core, chunks, context, bridgeVars, registry, seen>>
CompleteRequest(r) ==
    /\ caller[r] = "collected"
    /\ caller' = [caller EXCEPT ![r] = "over"]
    /\ Release(r)
    /\ UNCHANGED <<requestVars, handle, core, chunks, queue, stop, registry, seen>>

RunBlockingRequest(r) ==
    /\ Java /\ caller[r] = "running"
    /\ core' = [core EXCEPT ![r] = "off"]
    /\ caller' = [caller EXCEPT ![r] = "over"]
    /\ Release(r)
    /\ UNCHANGED <<requestVars, handle, chunks, queue, stop, registry, seen>>

-----------------------------------------------------------------------------
(* The end of a polled request                                              *)

\* handleResponse() answers with something other than "in flight".  The stream has
\* ended, was never there, or has been silent for too long, and goes with the basket;
\* the thread of an HTTP/1.1 exchange, if there is one, is not told.  An answer that
\* could not be serialized or copied leaves everything as it is.
FinalAnswer(r, how) ==
    /\ how = "stray" => InFlight(r)
    /\ core' = IF how = "reaped" THEN [core EXCEPT ![r] = "off"] ELSE core
    /\ stray' = IF how = "stray" THEN stray \cup {r} ELSE stray
    /\ unreaped' = IF how = "unreaped" THEN unreaped \cup {r} ELSE unreaped
    /\ UNCHANGED <<binding, style, attempt, late, givenUp, shared>>

\* PollRequest(), a step of the JS thread.
PollRequest(r, how) ==
    /\ Node /\ caller[r] = "polling"
    /\ FinalAnswer(r, how)
    /\ caller' = [caller EXCEPT ![r] = "over"]
    /\ TakeAndRelease(handle[r])
    /\ UNCHANGED <<handle, chunks, queue, stop, seen>>

\* collectResponse() returns; the context is still in the list.
CollectResponse(r, how) ==
    /\ Java /\ caller[r] = "polling"
    /\ FinalAnswer(r, how)
    /\ caller' = [caller EXCEPT ![r] = "reaping"]
    /\ UNCHANGED <<handle, chunks, context, bridgeVars, registry, seen>>

TakeStreamContext(r) ==
    /\ caller[r] = "reaping"
    /\ caller' = [caller EXCEPT ![r] = "over"]
    /\ TakeAndRelease(handle[r])
    /\ UNCHANGED <<requestVars, handle, core, chunks, queue, stop, seen>>

\* nativeCleanup(), while no other call is under way: cleanupEnv() reaps what is
\* registered, then the list is emptied.  Nobody polls any more.  running: the requests
\* whose HTTP/1.1 exchange thread runs on.
NativeCleanup(running) ==
    LET reaped == {r \in Requests : caller[r] = "polling"} \cup unreaped
    IN  /\ Java /\ \A r \in Requests : caller[r] \in {"new", "polling", "over"}
        /\ reaped # {}
        /\ running \subseteq reaped /\ \A r \in running : InFlight(r)
        /\ core' = [r \in Requests |-> IF r \in reaped \ running THEN "off" ELSE core[r]]
        /\ stray' = stray \cup running
        /\ unreaped' = {}
        /\ caller' = [r \in Requests |-> IF caller[r] = "polling" THEN "over" ELSE caller[r]]
        /\ context' = [r \in Requests |->
                          IF \E i \in 1 .. Len(registry) : registry[i].request = r THEN "freed" ELSE context[r]]
        /\ registry' = <<>>
        /\ UNCHANGED <<binding, style, attempt, late, givenUp, shared, handle, chunks, bridgeVars, seen>>

-----------------------------------------------------------------------------
(* The JS thread                                                            *)

\* A bug: the first event is taken for the last.
LastOfAny(event) == TRUE
LastEvent(event) == event.name = "complete"

\* A bug: a consumer that has asked to stop is not called any more.
ShownUnlessStopped(r, event) == IF stop[r] THEN {} ELSE Completes(event)
Shown(r, event) == Completes(event)

\* RunStreamEvent(): the callback returns, asks to stop or throws.
RunStreamEvent(r, stops) ==
    /\ queue[r] # <<>>
    /\ queue' = [queue EXCEPT ![r] = Tail(@)]
    /\ seen' = [seen EXCEPT ![r] = @ \cup Shown(r, Head(queue[r]))]
    /\ stop' = [stop EXCEPT ![r] = @ \/ stops]
    /\ tsfn' = [tsfn EXCEPT ![r] = IF LastEvent(Head(queue[r])) THEN Retired(@) ELSE @]
    /\ UNCHANGED <<requestVars, caller, handle, core, chunks, context, refs, registry>>

\* A threadsafe function that has been released and drained is finalized:
\* FinalizeStreamBridge().
FinalizeStreamBridge(r) ==
    /\ tsfn[r] = "released" /\ queue[r] = <<>>
    /\ tsfn' = [tsfn EXCEPT ![r] = "closed"]
    /\ Drop(r)
    /\ UNCHANGED <<requestVars, caller, handle, core, chunks, queue, stop, registry, seen>>

-----------------------------------------------------------------------------

Start(r) ==
    \/ \E start \in {"headers", "off"} : StartBlocking(r, start) \/ \E h \in Handles : StartPolled(r, h, start)
    \/ StartFails(r)
Callback(r) ==
    \/ OnHeaders(r)
    \/ \E refused \in BOOLEAN : OnData(r, refused)
    \/ \E end \in Ends : OnComplete(r, end)
    \/ Retry(r)
\* The calls that were begun and the polls that go on.
Caller(r) ==
    \/ RegisterStreamContext(r) \/ RegisterStreamContextFails(r)
    \/ ExecuteRequest(r) \/ CompleteRequest(r) \/ RunBlockingRequest(r)
    \/ \E how \in {"reaped", "stray", "unreaped"} : PollRequest(r, how) \/ CollectResponse(r, how)
    \/ TakeStreamContext(r)
EventLoop(r) == (\E stops \in BOOLEAN : RunStreamEvent(r, stops)) \/ FinalizeStreamBridge(r)
Over == (\A r \in Requests : caller[r] = "over") /\ UNCHANGED bindingVars

BridgeNext ==
    \/ \E r \in Requests : Start(r) \/ Callback(r) \/ Caller(r) \/ EventLoop(r)
    \/ \E running \in SUBSET Requests : NativeCleanup(running)
    \/ Over

\* Every exchange ends or times out, a poller polls on, and the event loop runs.
BridgeFairness == \A r \in Requests : WF_bindingVars(Caller(r)) /\ WF_bindingVars(EventLoop(r))

BridgeSpec == BridgeInit /\ [][BridgeNext]_bindingVars /\ BridgeFairness

-----------------------------------------------------------------------------
(* Properties                                                               *)

\* What is posted to the JS thread, what was posted too late, and what the registry of
\* polled requests holds.
Event == [attempt : {1, 2}, name : {"headers", "data", "complete"}]
LateEvent == [request : Requests, attempt : {1, 2}]
Entry == [handle : Handles \cup {NoHandle}, request : Requests]
CoreState == {"off", "headers", "body", "aborting"} \cup Ends

\* The types of the bindings.
BridgeTypeOK ==
    /\ binding \in {"node", "java"}
    /\ style \in [Requests -> {"blocking", "polled"}]
    /\ caller \in [Requests -> {"new", "running", "starting", "polling", "collected", "reaping", "over"}]
    /\ handle \in [Requests -> Handles \cup {NoHandle}]
    /\ core \in [Requests -> CoreState]
    /\ attempt \in [Requests -> {1, 2}]
    /\ chunks \in [Requests -> Nat]
    /\ context \in [Requests -> {"none", "live", "freed"}]
    /\ refs \in [Requests -> 0 .. Owners]
    /\ tsfn \in [Requests -> {"none", "open", "released", "closed"}]
    /\ queue \in [Requests -> Seq(Event)]
    /\ stop \in [Requests -> BOOLEAN]
    /\ registry \in Seq(Entry)
    /\ seen \in [Requests -> SUBSET {1, 2}]
    /\ late \in SUBSET LateEvent
    /\ givenUp \in SUBSET Requests
    /\ shared \in SUBSET Requests
    /\ stray \in SUBSET Requests
    /\ unreaped \in SUBSET Requests

\* The requests whose context may go while the core can still call it: the basket lay
\* where that of another request had been whose context was yet to be taken; the poll
\* that timed out did not stop the thread of the HTTP/1.1 exchange; or a poll reported
\* a failure without unregistering the stream.
Adrift == shared \cup stray \cup unreaped

\* While the core may call back, and while an event that points to it is queued, the
\* bridge or context of a request has not been freed, whichever owner goes first: but
\* for the requests that are adrift.  What is queued never points to a freed bridge.
ContextLive ==
    \A r \in Requests :
        /\ core[r] # "off" /\ r \notin Adrift => context[r] = "live"
        /\ queue[r] # <<>> => context[r] = "live"

\* No event of a first attempt, up to its onComplete, finds its threadsafe function
\* finalized.  What the core calls after onComplete may, and so may a retry, when the JS
\* thread has run the onComplete by then.
FirstAttemptPosted == \A e \in late : e.request \notin Adrift => e.attempt = 2

\* When the core has called onComplete, the consumer is told, in JS also if the result
\* has long been collected: of each attempt in Java, of the first one in JS, where that
\* of a retry may be lost.
CompletionReachesConsumer ==
    \A r \in Requests : \A a \in {1, 2} :
        core[r] \in Ends /\ attempt[r] = a /\ (Node => a = 1) /\ r \notin Adrift
            ~> a \in seen[r]

\* Every bridge and context is given back in the end, with the listener and the JS
\* functions it keeps alive, however the request ends.
EveryContextReclaimed ==
    \A r \in Requests : context[r] = "live" ~> (context[r] = "freed" \/ r \in givenUp)

-----------------------------------------------------------------------------
(* Stated by the code, and not so                                           *)

\* "A connection-level retry replays the whole callback sequence from scratch", and
\* "No further event may be posted" once onComplete has retired the bridge.
RetryPosted == \A e \in late : e.request \in Adrift

\* "only then may the listener go, since the reader thread calls it right up to here":
\* the answer of a poll is not always the end of the calls, and what is found under the
\* address is not always the context of the request.
ListenerOutlivesCalls == \A r \in Requests : core[r] # "off" => context[r] = "live"
=============================================================================
