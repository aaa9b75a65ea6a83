------------------------- MODULE SessionPool_proofs -------------------------
(***************************************************************************)
(* Proofs about SessionPool, for every set of requests and targets and      *)
(* every number of sessions and pool slots.                                 *)
(*                                                                         *)
(* Two arguments meet.  What a thread has taken out of the pool to close is *)
(* out of everybody's reach, so that nothing is closed twice.  And between  *)
(* the search of a request and the registration of what it creates, the     *)
(* establish lock keeps every other request for the target from creating    *)
(* one, so that an HTTP/2 target has one connection.                        *)
(***************************************************************************)
EXTENDS SessionPool, FiniteSetTheorems, NaturalsInduction, WellFoundedInduction, TLAPS

Closers == Requests \cup {App}
OnStream == {"queue", "exchange", "await"}
\* The requests that have a stream on session s.
StreamsOn(s) == {r \in Requests : req[r].pc \in OnStream /\ req[r].session = s}

\* From the search to the unlock the request holds the lock of its key.
LockOK(r) ==
    /\ req[r].pc \notin {"start", "done"} => req[r].target \in Targets
    /\ req[r].pc \in {"find", "create", "register", "unlock"} => lock[Key(r)] = r

\* The session a request points to has been made.
SessionKnown(r) ==
    /\ req[r].session \in Sessions => heap[req[r].session].life # "absent"
    /\ req[r].pc \in OnStream \cup {"register", "stream", "retry"} => req[r].session \in Sessions
    /\ req[r].pc = "unlock" /\ req[r].outcome = "none" => req[r].session \in Sessions

\* A session on its way into the pool is known to its maker only.
RegisterOK(r) ==
    req[r].pc = "register" =>
        LET s == req[r].session
        IN  /\ Open(s) /\ s \notin Pooled
            /\ \A c \in Closers : s \notin toClose[c]
            /\ \A q \in Requests : req[q].session = s => q = r
            /\ heap[s].target = req[r].target
            /\ heap[s].proto = "h2" => ~req[r].force

\* What the search has shown still holds when the connection is made.
NoneReusable(t) == \A s \in Sessions : Reusable(s) => heap[s].target # t
CreateOK(r) == req[r].pc = "create" /\ ~req[r].force => NoneReusable(req[r].target)

\* A thread has sessions to close only while it closes them.
ClosingOK(r) == toClose[r] # {} => req[r].pc = "closing"

RequestOK(r) == LockOK(r) /\ SessionKnown(r) /\ RegisterOK(r) /\ CreateOK(r) /\ ClosingOK(r)

\* A socket has no pending error before its connection breaks, and the streams
\* of a session are counted.
SessionOK(s) ==
    /\ heap[s].up => ~heap[s].sockError
    /\ Open(s) => heap[s].inflight = Cardinality(StreamsOn(s))

PoolOK ==
    /\ \A i, j \in PoolSlots : pool[i] # NoSession /\ pool[i] = pool[j] => i = j
    /\ \A s \in Pooled : Open(s)
    /\ sessionCount = Cardinality(Pooled)

CloseOK ==
    /\ \A c \in Closers : \A s \in toClose[c] : Open(s) /\ s \notin Pooled
    /\ \A c, d \in Closers : c # d => toClose[c] \cap toClose[d] = {}

ExitOK ==
    /\ appDone => AllDone /\ Pooled = {}
    /\ ~appDone => toClose[App] = {}

IInv ==
    /\ TypeOK
    /\ \A r \in Requests : RequestOK(r)
    /\ \A s \in Sessions : SessionOK(s)
    /\ PoolOK
    /\ CloseOK
    /\ ExitOK
    /\ OneConnectionPerTarget

\* Every open session can still be found by somebody who will close it, unless
\* there was no slot for it.
Located ==
    \A s \in Sessions : Open(s) =>
        \/ s \in Pooled \/ heap[s].unpooled
        \/ \E c \in Closers : s \in toClose[c]
        \/ \E r \in Requests : req[r].pc = "register" /\ req[r].session = s

\* What every step does: it keeps the invariant, and leaves no open session that
\* nobody will close.
Keeps == IInv' /\ (Located => Located')

-----------------------------------------------------------------------------
(* What a step may do to the sessions and to a request                      *)

\* Sessions stay what they are, and do not become reusable.
HeapKept ==
    \A s \in Sessions :
        /\ heap'[s].life = heap[s].life
        /\ heap'[s].target = heap[s].target
        /\ heap'[s].proto = heap[s].proto
        /\ heap'[s].up => heap[s].up /\ ~heap'[s].sockError
        /\ heap[s].goingAway => heap'[s].goingAway
        /\ heap[s].unpooled => heap'[s].unpooled

\* A request neither makes nor registers a session, and takes one from the pool.
RequestKept(r) ==
    /\ req'[r].pc = "register" => req[r].pc = "register" /\ req'[r].session = req[r].session
    /\ req[r].pc = "register" => req'[r].pc = "register" \/ heap'[req[r].session].unpooled
    /\ req'[r].pc \in {"register", "create"} =>
          req'[r].target = req[r].target /\ req'[r].force = req[r].force
    /\ req'[r].pc = "create" /\ ~req'[r].force => req[r].pc = "create" \/ NoneReusable(req[r].target)
    /\ req'[r].session = req[r].session \/ req'[r].session \in Pooled \cup {NoSession}
    /\ req[r].pc = "done" => req'[r].pc = "done"

\* A request's streams stay where they are.
StreamKept(r) ==
    /\ req'[r].pc \in OnStream <=> req[r].pc \in OnStream
    /\ req[r].pc \in OnStream => req'[r].session = req[r].session

\* The part of a request's invariant that its own step has to restore.
OwnOK(r) == LockOK(r) /\ SessionKnown(r) /\ ClosingOK(r)

\* A step that leaves the pool alone makes no session reusable.
LEMMA NotNewlyReusable ==
    ASSUME HeapKept, \A r \in Requests : RequestKept(r), UNCHANGED pool, NEW s \in Sessions, Reusable(s)'
    PROVE  Reusable(s)
<1>1. Pooled' = Pooled
  BY DEF Pooled
<1>. QED BY <1>1 DEF HeapKept, RequestKept, Reusable

\* A step that leaves the pool alone keeps the invariant, if it keeps the
\* counts of the streams and what each request knows of its own.
LEMMA StepWithoutPool ==
    ASSUME IInv, TypeOK', UNCHANGED <<pool, sessionCount, toClose, appDone>>, HeapKept,
           \A r \in Requests : OwnOK(r)' /\ RequestKept(r),
           \A s \in Sessions : Open(s) => heap'[s].inflight = Cardinality(StreamsOn(s)')
    PROVE  Keeps
<1>1. Pooled' = Pooled
  BY DEF Pooled
<1>2. Pooled \subseteq Sessions
  BY DEF IInv, TypeOK, Pooled
<1>3. ASSUME NEW r \in Requests
      PROVE  RegisterOK(r)'
  <2>. SUFFICES ASSUME req'[r].pc = "register"
                PROVE  RegisterOK(r)'
    BY DEF RegisterOK
  <2>1. /\ req[r].pc = "register" /\ req'[r].session = req[r].session
        /\ req'[r].target = req[r].target /\ req'[r].force = req[r].force
    BY DEF RequestKept
  <2>2. req[r].session \in Sessions /\ req[r].session # NoSession
    BY <2>1, PoolAssumption DEF IInv, RequestOK, SessionKnown, Sessions
  <2>3. RegisterOK(r)
    BY DEF IInv, RequestOK
  <2>4. \A q \in Requests : req'[q].session = req[r].session => q = r
    BY <2>1, <2>2, <2>3 DEF RequestKept, RegisterOK
  <2>. QED BY <1>1, <2>1, <2>2, <2>3, <2>4 DEF RegisterOK, HeapKept, Open
<1>4. ASSUME NEW r \in Requests
      PROVE  CreateOK(r)'
  <2>. SUFFICES ASSUME req'[r].pc = "create", ~req'[r].force, NEW s \in Sessions, Reusable(s)'
                PROVE  heap'[s].target # req'[r].target
    BY DEF CreateOK, NoneReusable
  <2>1. Reusable(s)
    BY NotNewlyReusable
  <2>2. NoneReusable(req[r].target)
    BY DEF IInv, RequestOK, CreateOK, RequestKept
  <2>. QED BY <2>1, <2>2 DEF NoneReusable, HeapKept, RequestKept
<1>5. \A s \in Sessions : SessionOK(s)'
  BY DEF SessionOK, HeapKept, Open
<1>6. PoolOK' /\ CloseOK'
  BY <1>1, <1>2 DEF IInv, PoolOK, CloseOK, HeapKept, Open, TypeOK, Closers
<1>7. ExitOK'
  BY <1>1 DEF IInv, ExitOK, AllDone, RequestKept
<1>8. OneConnectionPerTarget'
  BY NotNewlyReusable DEF IInv, OneConnectionPerTarget, HeapKept
<1>9. Located => Located'
  BY <1>1 DEF Located, Open, HeapKept, RequestKept
<1>. QED BY <1>3, <1>4, <1>5, <1>6, <1>7, <1>8, <1>9 DEF IInv, RequestOK, OwnOK, Keeps

\* The streams of every session are counted as before.
LEMMA SameCounts ==
    ASSUME IInv, \A s \in Sessions : heap'[s].inflight = heap[s].inflight, \A r \in Requests : StreamKept(r)
    PROVE  \A s \in Sessions : Open(s) => heap'[s].inflight = Cardinality(StreamsOn(s)')
<1>. TAKE s \in Sessions
<1>1. StreamsOn(s)' = StreamsOn(s)
  BY DEF StreamsOn, StreamKept
<1>. QED BY <1>1 DEF IInv, SessionOK

\* The stop at undefined behaviour changes nothing else.
LEMMA CrashStep ==
    ASSUME IInv, crashed' = TRUE, UNCHANGED <<heap, pool, sessionCount, lock, req, toClose, appDone, events>>
    PROVE  Keeps
<1>1. TypeOK'
  BY DEF IInv, TypeOK
<1>2. HeapKept
  BY DEF IInv, SessionOK, HeapKept
<1>3. \A r \in Requests : OwnOK(r)' /\ RequestKept(r) /\ StreamKept(r)
  BY DEF IInv, RequestOK, OwnOK, LockOK, SessionKnown, ClosingOK, RequestKept, StreamKept, CreateOK, Key
<1>. QED BY <1>1, <1>2, <1>3, SameCounts, StepWithoutPool

\* Streams that end keep everything but their outcome.
LEMMA EndAllKeeps ==
    ASSUME TypeOK, NEW s \in Sessions, NEW rs \in SUBSET Awaiting(s),
           NEW outcome \in {"error"} \cup Retryable, req' = EndAll(rs, outcome)
    PROVE  /\ req' \in [Requests -> RequestType]
           /\ \A r \in Requests :
                 /\ req'[r].pc = req[r].pc /\ req'[r].target = req[r].target
                 /\ req'[r].force = req[r].force /\ req'[r].session = req[r].session
                 /\ req'[r].outcome = req[r].outcome \/ req[r].pc = "await"
<1>1. ASSUME NEW r \in Requests
      PROVE  /\ req'[r] \in RequestType
             /\ req'[r].pc = req[r].pc /\ req'[r].target = req[r].target
             /\ req'[r].force = req[r].force /\ req'[r].session = req[r].session
             /\ req'[r].outcome = req[r].outcome \/ req[r].pc = "await"
  <2>1. CASE r \in rs
    BY <2>1 DEF EndAll, Awaiting, TypeOK, RequestType
  <2>2. CASE r \notin rs
    BY <2>2 DEF EndAll, TypeOK
  <2>. QED BY <2>1, <2>2
<1>2. req' = [r \in Requests |-> req'[r]]
  BY DEF EndAll
<1>. QED BY <1>1, <1>2

\* The error a stream of s gets is one a request can end with.
LEMMA FailureOfType ==
    ASSUME TypeOK, NEW s \in Sessions
    PROVE  FailureOf(s) \in {"error"} \cup Retryable
BY DEF FailureOf, TypeOK, SessionType

\* Every step at which streams end keeps what the requests know.
LEMMA StreamsEnd ==
    ASSUME IInv, NEW s \in Sessions, NEW rs \in SUBSET Awaiting(s),
           NEW outcome \in {"error"} \cup Retryable, req' = EndAll(rs, outcome),
           UNCHANGED <<lock, toClose>>,
           \A u \in Sessions : heap'[u].life = heap[u].life
    PROVE  /\ req' \in [Requests -> RequestType]
           /\ \A r \in Requests : OwnOK(r)' /\ RequestKept(r) /\ StreamKept(r)
<1>1. /\ req' \in [Requests -> RequestType]
      /\ \A r \in Requests :
            /\ req'[r].pc = req[r].pc /\ req'[r].target = req[r].target
            /\ req'[r].force = req[r].force /\ req'[r].session = req[r].session
            /\ req'[r].outcome = req[r].outcome \/ req[r].pc = "await"
  BY EndAllKeeps DEF IInv
<1>. QED BY <1>1 DEF IInv, RequestOK, OwnOK, LockOK, SessionKnown, ClosingOK, RequestKept, StreamKept,
                     CreateOK, Key

\* A step of one request that leaves the pool and the locks alone.
LEMMA OneRequestMoves ==
    ASSUME IInv, NEW r \in Requests, req' \in [Requests -> RequestType],
           \A q \in Requests \ {r} : req'[q] = req[q],
           heap' \in [Sessions -> SessionType], HeapKept, OwnOK(r)', RequestKept(r), crashed' = crashed,
           UNCHANGED <<pool, sessionCount, lock, toClose, appDone, events>>,
           \A s \in Sessions : Open(s) => heap'[s].inflight = Cardinality(StreamsOn(s)')
    PROVE  Keeps
<1>1. TypeOK'
  BY DEF IInv, TypeOK
<1>2. ASSUME NEW q \in Requests, q # r
      PROVE  OwnOK(q)' /\ RequestKept(q)
  <2>1. req'[q] = req[q]
    BY <1>2
  <2>2. LockOK(q)' /\ ClosingOK(q)'
    BY <2>1 DEF IInv, RequestOK, LockOK, ClosingOK, Key
  <2>3. SessionKnown(q)'
    BY <2>1 DEF IInv, RequestOK, SessionKnown, HeapKept
  <2>4. RequestKept(q)
    BY <2>1 DEF IInv, RequestOK, CreateOK, RequestKept
  <2>. QED BY <2>2, <2>3, <2>4 DEF OwnOK
<1>. QED BY <1>1, <1>2, StepWithoutPool

\* The same, when no stream is opened or closed.
LEMMA SameStreams ==
    ASSUME IInv, NEW r \in Requests, \A q \in Requests \ {r} : req'[q] = req[q], StreamKept(r),
           \A s \in Sessions : heap'[s].inflight = heap[s].inflight
    PROVE  \A s \in Sessions : Open(s) => heap'[s].inflight = Cardinality(StreamsOn(s)')
BY SameCounts DEF StreamKept

\* A step that leaves the sessions alone.
LEMMA HeapSame ==
    ASSUME IInv, UNCHANGED heap
    PROVE  /\ heap' \in [Sessions -> SessionType] /\ HeapKept
           /\ \A s \in Sessions : heap'[s].inflight = heap[s].inflight
BY DEF IInv, TypeOK, SessionOK, HeapKept

\* One session changes, and does not become reusable.
LEMMA OneSessionChanges ==
    ASSUME IInv, NEW s \in Sessions, NEW new \in SessionType, heap' = [heap EXCEPT ![s] = new],
           new.life = heap[s].life, new.target = heap[s].target, new.proto = heap[s].proto,
           new.up => heap[s].up /\ ~new.sockError, heap[s].goingAway => new.goingAway,
           heap[s].unpooled => new.unpooled
    PROVE  /\ heap' \in [Sessions -> SessionType] /\ HeapKept /\ heap'[s] = new
           /\ \A u \in Sessions \ {s} : heap'[u] = heap[u]
<1>1. heap' \in [Sessions -> SessionType] /\ heap'[s] = new /\ \A u \in Sessions \ {s} : heap'[u] = heap[u]
  BY DEF IInv, TypeOK
<1>. QED BY <1>1 DEF IInv, SessionOK, HeapKept

-----------------------------------------------------------------------------
(* The steps that leave the pool alone                                      *)

\* A request starts: it holds nothing yet.
LEMMA StartStep ==
    ASSUME IInv, NEW r \in Requests, NEW t \in Targets, NEW force \in BOOLEAN, Start(r, t, force)
    PROVE  Keeps
<1>0. /\ req[r].pc = "start" /\ req'[r].pc = "reap"
      /\ req'[r].target = t /\ req'[r].session = req[r].session
      /\ req'[r].outcome = req[r].outcome
      /\ \A q \in Requests \ {r} : req'[q] = req[q]
      /\ UNCHANGED <<pool, sessionCount, lock, toClose, appDone, events, crashed>>
  BY DEF Start, At, IInv, TypeOK, RequestType
<1>1. req' \in [Requests -> RequestType]
  <2>. DEFINE new == [req[r] EXCEPT !.pc = "reap", !.target = t, !.force = force]
  <2>1. req \in [Requests -> RequestType]
    BY DEF IInv, TypeOK
  <2>2. new \in RequestType
    BY <2>1 DEF RequestType
  <2>3. req' = [req EXCEPT ![r] = new]
    BY <2>1 DEF Start, At, RequestType
  <2>. HIDE DEF new
  <2>. QED BY <2>1, <2>2, <2>3
<1>2. UNCHANGED heap
  BY DEF Start, At
<1>3. /\ heap' \in [Sessions -> SessionType] /\ HeapKept
      /\ \A s \in Sessions : heap'[s].inflight = heap[s].inflight
  BY <1>2, HeapSame
<1>4. OwnOK(r)'
  <2>1. LockOK(r)' /\ ClosingOK(r)'
    BY <1>0 DEF IInv, RequestOK, LockOK, ClosingOK, Key
  <2>2. SessionKnown(r)'
    BY <1>0, <1>3, PoolAssumption DEF IInv, RequestOK, SessionKnown, OnStream, HeapKept, Sessions
  <2>. QED BY <2>1, <2>2 DEF OwnOK
<1>5. RequestKept(r) /\ StreamKept(r)
  BY <1>0 DEF IInv, RequestOK, CreateOK, RequestKept, StreamKept, OnStream
<1>6. \A s \in Sessions : Open(s) => heap'[s].inflight = Cardinality(StreamsOn(s)')
  BY <1>0, <1>3, <1>5, SameStreams
<1>. QED BY <1>0, <1>1, <1>3, <1>4, <1>5, <1>6, OneRequestMoves

\* createSession() fails: the error keeps the session from being used.
LEMMA CreateFailsStep ==
    ASSUME IInv, NEW r \in Requests, CreateFails(r)
    PROVE  Keeps
<1>0. /\ req[r].pc = "create" /\ req'[r].pc = "unlock"
      /\ req'[r].target = req[r].target /\ req'[r].session = req[r].session
      /\ req'[r].force = req[r].force /\ req'[r].outcome = "error"
      /\ \A q \in Requests \ {r} : req'[q] = req[q]
      /\ UNCHANGED <<pool, sessionCount, lock, toClose, appDone, events, crashed>>
  BY DEF CreateFails, At, IInv, TypeOK, RequestType
<1>1. req' \in [Requests -> RequestType]
  <2>. DEFINE new == [req[r] EXCEPT !.pc = "unlock", !.outcome = "error"]
  <2>1. req \in [Requests -> RequestType]
    BY DEF IInv, TypeOK
  <2>2. new \in RequestType
    BY <2>1 DEF RequestType, Retryable
  <2>3. req' = [req EXCEPT ![r] = new]
    BY <2>1 DEF CreateFails, At, RequestType
  <2>. HIDE DEF new
  <2>. QED BY <2>1, <2>2, <2>3
<1>2. UNCHANGED heap
  BY DEF CreateFails, At
<1>3. /\ heap' \in [Sessions -> SessionType] /\ HeapKept
      /\ \A s \in Sessions : heap'[s].inflight = heap[s].inflight
  BY <1>2, HeapSame
<1>4. OwnOK(r)'
  <2>1. LockOK(r)' /\ ClosingOK(r)'
    BY <1>0 DEF IInv, RequestOK, LockOK, ClosingOK, Key
  <2>2. SessionKnown(r)'
    BY <1>0, <1>3, PoolAssumption DEF IInv, RequestOK, SessionKnown, OnStream, HeapKept, Sessions
  <2>. QED BY <2>1, <2>2 DEF OwnOK
<1>5. RequestKept(r) /\ StreamKept(r)
  BY <1>0 DEF IInv, RequestOK, CreateOK, RequestKept, StreamKept, OnStream
<1>6. \A s \in Sessions : Open(s) => heap'[s].inflight = Cardinality(StreamsOn(s)')
  BY <1>0, <1>3, <1>5, SameStreams
<1>. QED BY <1>0, <1>1, <1>3, <1>4, <1>5, <1>6, OneRequestMoves

\* markProxySessionsGoingAway() only retires sessions.
LEMMA CreateFailsAtProxyStep ==
    ASSUME IInv, NEW r \in Requests, CreateFailsAtProxy(r)
    PROVE  Keeps
<1>0. /\ req[r].pc = "create" /\ req'[r].pc = "unlock"
      /\ req'[r].target = req[r].target /\ req'[r].session = req[r].session
      /\ req'[r].force = req[r].force /\ req'[r].outcome = "error"
      /\ \A q \in Requests \ {r} : req'[q] = req[q]
      /\ UNCHANGED <<pool, sessionCount, lock, toClose, appDone, events, crashed>>
  BY DEF CreateFailsAtProxy, At, IInv, TypeOK, RequestType
<1>1. req' \in [Requests -> RequestType]
  <2>. DEFINE new == [req[r] EXCEPT !.pc = "unlock", !.outcome = "error"]
  <2>1. req \in [Requests -> RequestType]
    BY DEF IInv, TypeOK
  <2>2. new \in RequestType
    BY <2>1 DEF RequestType, Retryable
  <2>3. req' = [req EXCEPT ![r] = new]
    BY <2>1 DEF CreateFailsAtProxy, At, RequestType
  <2>. HIDE DEF new
  <2>. QED BY <2>1, <2>2, <2>3
<1>3. /\ heap' \in [Sessions -> SessionType] /\ HeapKept
      /\ \A s \in Sessions : heap'[s].inflight = heap[s].inflight
  <2>1. heap \in [Sessions -> SessionType]
    BY DEF IInv, TypeOK
  <2>2. ASSUME NEW s \in Sessions
        PROVE  /\ heap'[s] \in SessionType /\ heap'[s].inflight = heap[s].inflight
               /\ heap'[s].life = heap[s].life /\ heap'[s].target = heap[s].target
               /\ heap'[s].proto = heap[s].proto /\ heap'[s].up = heap[s].up
               /\ heap'[s].sockError = heap[s].sockError /\ heap'[s].unpooled = heap[s].unpooled
               /\ heap[s].goingAway => heap'[s].goingAway
    <3>1. CASE s \in Pooled /\ heap[s].target \in Proxied
      <4>1. heap'[s] = [heap[s] EXCEPT !.goingAway = TRUE]
        BY <3>1 DEF CreateFailsAtProxy
      <4>. QED BY <2>1, <4>1 DEF SessionType
    <3>2. CASE ~(s \in Pooled /\ heap[s].target \in Proxied)
      <4>1. heap'[s] = heap[s]
        BY <3>2 DEF CreateFailsAtProxy
      <4>. QED BY <2>1, <4>1
    <3>. QED BY <3>1, <3>2
  <2>3. heap' = [s \in Sessions |-> heap'[s]]
    BY DEF CreateFailsAtProxy
  <2>. QED BY <2>2, <2>3 DEF IInv, SessionOK, HeapKept
<1>4. OwnOK(r)'
  <2>1. LockOK(r)' /\ ClosingOK(r)'
    BY <1>0 DEF IInv, RequestOK, LockOK, ClosingOK, Key
  <2>2. SessionKnown(r)'
    BY <1>0, <1>3, PoolAssumption DEF IInv, RequestOK, SessionKnown, OnStream, HeapKept, Sessions
  <2>. QED BY <2>1, <2>2 DEF OwnOK
<1>5. RequestKept(r) /\ StreamKept(r)
  BY <1>0 DEF IInv, RequestOK, CreateOK, RequestKept, StreamKept, OnStream
<1>6. \A s \in Sessions : Open(s) => heap'[s].inflight = Cardinality(StreamsOn(s)')
  BY <1>0, <1>3, <1>5, SameStreams
<1>. QED BY <1>0, <1>1, <1>3, <1>4, <1>5, <1>6, OneRequestMoves

\* No stream slot is left: no stream is counted.
LEMMA NoFreeStreamStep ==
    ASSUME IInv, NEW r \in Requests, NoFreeStream(r)
    PROVE  Keeps
<1>. SUFFICES ASSUME ~Dangling(r)
             PROVE  Keeps
  BY CrashStep DEF NoFreeStream, Touch
<1>0. /\ req[r].pc = "stream" /\ req'[r].pc = "report"
      /\ req'[r].target = req[r].target /\ req'[r].session = req[r].session
      /\ req'[r].force = req[r].force /\ req'[r].outcome = "error"
      /\ \A q \in Requests \ {r} : req'[q] = req[q]
      /\ UNCHANGED <<pool, sessionCount, lock, toClose, appDone, events, crashed>>
  BY DEF NoFreeStream, At, Touch, IInv, TypeOK, RequestType
<1>1. req' \in [Requests -> RequestType]
  <2>. DEFINE new == [req[r] EXCEPT !.pc = "report", !.outcome = "error"]
  <2>1. req \in [Requests -> RequestType]
    BY DEF IInv, TypeOK
  <2>2. new \in RequestType
    BY <2>1 DEF RequestType, Retryable
  <2>3. req' = [req EXCEPT ![r] = new]
    BY <2>1 DEF NoFreeStream, At, Touch, RequestType
  <2>. HIDE DEF new
  <2>. QED BY <2>1, <2>2, <2>3
<1>2. UNCHANGED heap
  BY DEF NoFreeStream, At, Touch
<1>3. /\ heap' \in [Sessions -> SessionType] /\ HeapKept
      /\ \A s \in Sessions : heap'[s].inflight = heap[s].inflight
  BY <1>2, HeapSame
<1>4. OwnOK(r)'
  <2>1. LockOK(r)' /\ ClosingOK(r)'
    BY <1>0 DEF IInv, RequestOK, LockOK, ClosingOK, Key
  <2>2. SessionKnown(r)'
    BY <1>0, <1>3, PoolAssumption DEF IInv, RequestOK, SessionKnown, OnStream, HeapKept, Sessions
  <2>. QED BY <2>1, <2>2 DEF OwnOK
<1>5. RequestKept(r) /\ StreamKept(r)
  BY <1>0 DEF IInv, RequestOK, CreateOK, RequestKept, StreamKept, OnStream
<1>6. \A s \in Sessions : Open(s) => heap'[s].inflight = Cardinality(StreamsOn(s)')
  BY <1>0, <1>3, <1>5, SameStreams
<1>. QED BY <1>0, <1>1, <1>3, <1>4, <1>5, <1>6, OneRequestMoves

\* The exchange starts on the stream that was counted.
LEMMA BeginHttp11ExchangeStep ==
    ASSUME IInv, NEW r \in Requests, BeginHttp11Exchange(r)
    PROVE  Keeps
<1>. SUFFICES ASSUME ~Dangling(r)
             PROVE  Keeps
  BY CrashStep DEF BeginHttp11Exchange, Touch
<1>0. /\ req[r].pc = "queue" /\ req'[r].pc = "exchange"
      /\ req'[r].target = req[r].target /\ req'[r].session = req[r].session
      /\ req'[r].force = req[r].force /\ req'[r].outcome = req[r].outcome
      /\ \A q \in Requests \ {r} : req'[q] = req[q]
      /\ UNCHANGED <<pool, sessionCount, lock, toClose, appDone, events, crashed>>
  BY DEF BeginHttp11Exchange, At, Touch, GoTo, IInv, TypeOK, RequestType
<1>1. req' \in [Requests -> RequestType]
  <2>. DEFINE new == [req[r] EXCEPT !.pc = "exchange"]
  <2>1. req \in [Requests -> RequestType]
    BY DEF IInv, TypeOK
  <2>2. new \in RequestType
    BY <2>1 DEF RequestType
  <2>3. req' = [req EXCEPT ![r] = new]
    BY <2>1 DEF BeginHttp11Exchange, At, Touch, GoTo, RequestType
  <2>. HIDE DEF new
  <2>. QED BY <2>1, <2>2, <2>3
<1>2. req[r].session \in Sessions
  BY <1>0 DEF IInv, RequestOK, SessionKnown, OnStream
<1>3. /\ heap' \in [Sessions -> SessionType] /\ HeapKept
      /\ heap'[req[r].session].inflight = heap[req[r].session].inflight
      /\ \A s \in Sessions \ {req[r].session} : heap'[s] = heap[s]
  <2>. DEFINE old == heap[req[r].session]
              new == [old EXCEPT !.writer = r]
  <2>1. heap \in [Sessions -> SessionType] /\ old \in SessionType /\ (old.up => ~old.sockError)
    BY <1>2 DEF IInv, TypeOK, SessionOK
  <2>2. heap' = [heap EXCEPT ![req[r].session] = new]
    BY <1>2, <2>1 DEF BeginHttp11Exchange, At, Touch, GoTo, SessionType
  <2>. HIDE DEF old
  <2>3. new \in SessionType
    BY <2>1 DEF SessionType
  <2>4. /\ new.unpooled = old.unpooled /\ new.life = old.life /\ new.target = old.target /\ new.proto = old.proto
        /\ new.inflight = old.inflight /\ new.up = old.up /\ new.sockError = old.sockError
    BY <2>1 DEF SessionType
  <2>5. old.goingAway => new.goingAway
    BY <2>1 DEF SessionType
  <2>. HIDE DEF new
  <2>. QED BY <1>2, <2>1, <2>2, <2>3, <2>4, <2>5, OneSessionChanges DEF old
<1>4. OwnOK(r)'
  <2>1. LockOK(r)' /\ ClosingOK(r)'
    BY <1>0 DEF IInv, RequestOK, LockOK, ClosingOK, Key
  <2>2. SessionKnown(r)'
    BY <1>0, <1>3, PoolAssumption DEF IInv, RequestOK, SessionKnown, OnStream, HeapKept, Sessions
  <2>. QED BY <2>1, <2>2 DEF OwnOK
<1>5. RequestKept(r) /\ StreamKept(r)
  BY <1>0 DEF IInv, RequestOK, CreateOK, RequestKept, StreamKept, OnStream
<1>6. \A s \in Sessions : Open(s) => heap'[s].inflight = Cardinality(StreamsOn(s)')
  BY <1>0, <1>3, <1>5, SameStreams
<1>. QED BY <1>0, <1>1, <1>3, <1>4, <1>5, <1>6, OneRequestMoves

\* A whole HTTP/1.1 response; the stream is still counted.
LEMMA Http11CompleteStep ==
    ASSUME IInv, NEW r \in Requests, NEW single \in BOOLEAN, Http11Complete(r, single)
    PROVE  Keeps
<1>. SUFFICES ASSUME ~Dangling(r)
             PROVE  Keeps
  BY CrashStep DEF Http11Complete, Touch
<1>0. /\ req[r].pc = "exchange" /\ req'[r].pc = "await"
      /\ req'[r].target = req[r].target /\ req'[r].session = req[r].session
      /\ req'[r].force = req[r].force /\ req'[r].outcome = "ok"
      /\ \A q \in Requests \ {r} : req'[q] = req[q]
      /\ UNCHANGED <<pool, sessionCount, lock, toClose, appDone, events, crashed>>
  BY DEF Http11Complete, At, Touch, IInv, TypeOK, RequestType
<1>1. req' \in [Requests -> RequestType]
  <2>. DEFINE new == [req[r] EXCEPT !.pc = "await", !.outcome = "ok"]
  <2>1. req \in [Requests -> RequestType]
    BY DEF IInv, TypeOK
  <2>2. new \in RequestType
    BY <2>1 DEF RequestType, Retryable
  <2>3. req' = [req EXCEPT ![r] = new]
    BY <2>1 DEF Http11Complete, At, Touch, RequestType
  <2>. HIDE DEF new
  <2>. QED BY <2>1, <2>2, <2>3
<1>2. req[r].session \in Sessions
  BY <1>0 DEF IInv, RequestOK, SessionKnown, OnStream
<1>3. /\ heap' \in [Sessions -> SessionType] /\ HeapKept
      /\ heap'[req[r].session].inflight = heap[req[r].session].inflight
      /\ \A s \in Sessions \ {req[r].session} : heap'[s] = heap[s]
  <2>. DEFINE old == heap[req[r].session]
              new == [old EXCEPT !.writer = NoRequest, !.goingAway = @ \/ single]
  <2>1. heap \in [Sessions -> SessionType] /\ old \in SessionType /\ (old.up => ~old.sockError)
    BY <1>2 DEF IInv, TypeOK, SessionOK
  <2>2. heap' = [heap EXCEPT ![req[r].session] = new]
    BY <1>2, <2>1 DEF Http11Complete, At, Touch, SessionType
  <2>. HIDE DEF old
  <2>3. new \in SessionType
    BY <2>1 DEF SessionType
  <2>4. /\ new.unpooled = old.unpooled /\ new.life = old.life /\ new.target = old.target /\ new.proto = old.proto
        /\ new.inflight = old.inflight /\ new.up = old.up /\ new.sockError = old.sockError
    BY <2>1 DEF SessionType
  <2>5. old.goingAway => new.goingAway
    BY <2>1 DEF SessionType
  <2>. HIDE DEF new
  <2>. QED BY <1>2, <2>1, <2>2, <2>3, <2>4, <2>5, OneSessionChanges DEF old
<1>4. OwnOK(r)'
  <2>1. LockOK(r)' /\ ClosingOK(r)'
    BY <1>0 DEF IInv, RequestOK, LockOK, ClosingOK, Key
  <2>2. SessionKnown(r)'
    BY <1>0, <1>3, PoolAssumption DEF IInv, RequestOK, SessionKnown, OnStream, HeapKept, Sessions
  <2>. QED BY <2>1, <2>2 DEF OwnOK
<1>5. RequestKept(r) /\ StreamKept(r)
  BY <1>0 DEF IInv, RequestOK, CreateOK, RequestKept, StreamKept, OnStream
<1>6. \A s \in Sessions : Open(s) => heap'[s].inflight = Cardinality(StreamsOn(s)')
  BY <1>0, <1>3, <1>5, SameStreams
<1>. QED BY <1>0, <1>1, <1>3, <1>4, <1>5, <1>6, OneRequestMoves

\* A broken HTTP/1.1 exchange retires the session.
LEMMA Http11IncompleteStep ==
    ASSUME IInv, NEW r \in Requests, Http11Incomplete(r)
    PROVE  Keeps
<1>. SUFFICES ASSUME ~Dangling(r)
             PROVE  Keeps
  BY CrashStep DEF Http11Incomplete, Touch
<1>0. /\ req[r].pc = "exchange" /\ req'[r].pc = "await"
      /\ req'[r].target = req[r].target /\ req'[r].session = req[r].session
      /\ req'[r].force = req[r].force /\ req'[r].outcome = "error"
      /\ \A q \in Requests \ {r} : req'[q] = req[q]
      /\ UNCHANGED <<pool, sessionCount, lock, toClose, appDone, events, crashed>>
  BY DEF Http11Incomplete, At, Touch, IInv, TypeOK, RequestType
<1>1. req' \in [Requests -> RequestType]
  <2>. DEFINE new == [req[r] EXCEPT !.pc = "await", !.outcome = "error"]
  <2>1. req \in [Requests -> RequestType]
    BY DEF IInv, TypeOK
  <2>2. new \in RequestType
    BY <2>1 DEF RequestType, Retryable
  <2>3. req' = [req EXCEPT ![r] = new]
    BY <2>1 DEF Http11Incomplete, At, Touch, RequestType
  <2>. HIDE DEF new
  <2>. QED BY <2>1, <2>2, <2>3
<1>2. req[r].session \in Sessions
  BY <1>0 DEF IInv, RequestOK, SessionKnown, OnStream
<1>3. /\ heap' \in [Sessions -> SessionType] /\ HeapKept
      /\ heap'[req[r].session].inflight = heap[req[r].session].inflight
      /\ \A s \in Sessions \ {req[r].session} : heap'[s] = heap[s]
  <2>. DEFINE old == heap[req[r].session]
              new == [old EXCEPT !.writer = NoRequest, !.goingAway = TRUE, !.dirty = TRUE]
  <2>1. heap \in [Sessions -> SessionType] /\ old \in SessionType /\ (old.up => ~old.sockError)
    BY <1>2 DEF IInv, TypeOK, SessionOK
  <2>2. heap' = [heap EXCEPT ![req[r].session] = new]
    BY <1>2, <2>1 DEF Http11Incomplete, At, Touch, SessionType
  <2>. HIDE DEF old
  <2>3. new \in SessionType
    BY <2>1 DEF SessionType
  <2>4. /\ new.unpooled = old.unpooled /\ new.life = old.life /\ new.target = old.target /\ new.proto = old.proto
        /\ new.inflight = old.inflight /\ new.up = old.up /\ new.sockError = old.sockError
    BY <2>1 DEF SessionType
  <2>5. old.goingAway => new.goingAway
    BY <2>1 DEF SessionType
  <2>. HIDE DEF new
  <2>. QED BY <1>2, <2>1, <2>2, <2>3, <2>4, <2>5, OneSessionChanges DEF old
<1>4. OwnOK(r)'
  <2>1. LockOK(r)' /\ ClosingOK(r)'
    BY <1>0 DEF IInv, RequestOK, LockOK, ClosingOK, Key
  <2>2. SessionKnown(r)'
    BY <1>0, <1>3, PoolAssumption DEF IInv, RequestOK, SessionKnown, OnStream, HeapKept, Sessions
  <2>. QED BY <2>1, <2>2 DEF OwnOK
<1>5. RequestKept(r) /\ StreamKept(r)
  BY <1>0 DEF IInv, RequestOK, CreateOK, RequestKept, StreamKept, OnStream
<1>6. \A s \in Sessions : Open(s) => heap'[s].inflight = Cardinality(StreamsOn(s)')
  BY <1>0, <1>3, <1>5, SameStreams
<1>. QED BY <1>0, <1>1, <1>3, <1>4, <1>5, <1>6, OneRequestMoves

\* The end of an HTTP/2 exchange is an outcome.
LEMMA EndHttp2ExchangeStep ==
    ASSUME IInv, NEW r \in Requests, NEW outcome \in {"ok", "error"}, EndHttp2Exchange(r, outcome)
    PROVE  Keeps
<1>0. /\ req[r].pc = "await" /\ req'[r].pc = req[r].pc
      /\ req'[r].target = req[r].target /\ req'[r].session = req[r].session
      /\ req'[r].force = req[r].force /\ req'[r].outcome = outcome
      /\ \A q \in Requests \ {r} : req'[q] = req[q]
      /\ UNCHANGED <<pool, sessionCount, lock, toClose, appDone, events, crashed>>
  BY DEF EndHttp2Exchange, At, IInv, TypeOK, RequestType
<1>1. req' \in [Requests -> RequestType]
  <2>. DEFINE new == [req[r] EXCEPT !.outcome = outcome]
  <2>1. req \in [Requests -> RequestType]
    BY DEF IInv, TypeOK
  <2>2. new \in RequestType
    BY <2>1 DEF RequestType, Retryable
  <2>3. req' = [req EXCEPT ![r] = new]
    BY <2>1 DEF EndHttp2Exchange, At, RequestType
  <2>. HIDE DEF new
  <2>. QED BY <2>1, <2>2, <2>3
<1>2. UNCHANGED heap
  BY DEF EndHttp2Exchange, At
<1>3. /\ heap' \in [Sessions -> SessionType] /\ HeapKept
      /\ \A s \in Sessions : heap'[s].inflight = heap[s].inflight
  BY <1>2, HeapSame
<1>4. OwnOK(r)'
  <2>1. LockOK(r)' /\ ClosingOK(r)'
    BY <1>0 DEF IInv, RequestOK, LockOK, ClosingOK, Key
  <2>2. SessionKnown(r)'
    BY <1>0, <1>3, PoolAssumption DEF IInv, RequestOK, SessionKnown, OnStream, HeapKept, Sessions
  <2>. QED BY <2>1, <2>2 DEF OwnOK
<1>5. RequestKept(r) /\ StreamKept(r)
  BY <1>0 DEF IInv, RequestOK, CreateOK, RequestKept, StreamKept, OnStream
<1>6. \A s \in Sessions : Open(s) => heap'[s].inflight = Cardinality(StreamsOn(s)')
  BY <1>0, <1>3, <1>5, SameStreams
<1>. QED BY <1>0, <1>1, <1>3, <1>4, <1>5, <1>6, OneRequestMoves

\* A retry forgets its session, and retires it.
LEMMA PrepareRetryStep ==
    ASSUME IInv, NEW r \in Requests, PrepareRetry(r)
    PROVE  Keeps
<1>. SUFFICES ASSUME ~Dangling(r)
             PROVE  Keeps
  BY CrashStep DEF PrepareRetry, Touch
<1>0. /\ req[r].pc = "retry" /\ req'[r].pc = "reap"
      /\ req'[r].target = req[r].target /\ req'[r].session = NoSession
      /\ req'[r].outcome = "none"
      /\ \A q \in Requests \ {r} : req'[q] = req[q]
      /\ UNCHANGED <<pool, sessionCount, lock, toClose, appDone, events, crashed>>
  BY DEF PrepareRetry, At, Touch, IInv, TypeOK, RequestType
<1>1. req' \in [Requests -> RequestType]
  <2>. DEFINE new == [req[r] EXCEPT !.pc = "reap", !.session = NoSession,
                                    !.force = @ \/ req[r].outcome = "h11",
                                    !.attempt = 1, !.outcome = "none"]
  <2>1. req \in [Requests -> RequestType]
    BY DEF IInv, TypeOK
  <2>2. new \in RequestType
    BY <2>1 DEF RequestType, Retryable
  <2>3. req' = [req EXCEPT ![r] = new]
    BY <2>1 DEF PrepareRetry, At, Touch, RequestType
  <2>. HIDE DEF new
  <2>. QED BY <2>1, <2>2, <2>3
<1>2. req[r].session \in Sessions
  BY <1>0 DEF IInv, RequestOK, SessionKnown, OnStream
<1>3. /\ heap' \in [Sessions -> SessionType] /\ HeapKept
      /\ heap'[req[r].session].inflight = heap[req[r].session].inflight
      /\ \A s \in Sessions \ {req[r].session} : heap'[s] = heap[s]
  <2>. DEFINE old == heap[req[r].session]
              new == [old EXCEPT !.goingAway = TRUE]
  <2>1. heap \in [Sessions -> SessionType] /\ old \in SessionType /\ (old.up => ~old.sockError)
    BY <1>2 DEF IInv, TypeOK, SessionOK
  <2>2. heap' = [heap EXCEPT ![req[r].session] = new]
    BY <1>2, <2>1 DEF PrepareRetry, At, Touch, SessionType
  <2>. HIDE DEF old
  <2>3. new \in SessionType
    BY <2>1 DEF SessionType
  <2>4. /\ new.unpooled = old.unpooled /\ new.life = old.life /\ new.target = old.target /\ new.proto = old.proto
        /\ new.inflight = old.inflight /\ new.up = old.up /\ new.sockError = old.sockError
    BY <2>1 DEF SessionType
  <2>5. old.goingAway => new.goingAway
    BY <2>1 DEF SessionType
  <2>. HIDE DEF new
  <2>. QED BY <1>2, <2>1, <2>2, <2>3, <2>4, <2>5, OneSessionChanges DEF old
<1>4. OwnOK(r)'
  <2>1. LockOK(r)' /\ ClosingOK(r)'
    BY <1>0 DEF IInv, RequestOK, LockOK, ClosingOK, Key
  <2>2. SessionKnown(r)'
    BY <1>0, <1>3, PoolAssumption DEF IInv, RequestOK, SessionKnown, OnStream, HeapKept, Sessions
  <2>. QED BY <2>1, <2>2 DEF OwnOK
<1>5. RequestKept(r) /\ StreamKept(r)
  BY <1>0 DEF IInv, RequestOK, CreateOK, RequestKept, StreamKept, OnStream
<1>6. \A s \in Sessions : Open(s) => heap'[s].inflight = Cardinality(StreamsOn(s)')
  BY <1>0, <1>3, <1>5, SameStreams
<1>. QED BY <1>0, <1>1, <1>3, <1>4, <1>5, <1>6, OneRequestMoves

\* The result is read and the basket freed.
LEMMA ReportStep ==
    ASSUME IInv, NEW r \in Requests, Report(r)
    PROVE  Keeps
<1>. SUFFICES ASSUME ~Dangling(r)
             PROVE  Keeps
  BY CrashStep DEF Report, Touch
<1>0. /\ req[r].pc = "report" /\ req'[r].pc = "done"
      /\ req'[r].target = NoTarget /\ req'[r].session = NoSession
      /\ req'[r].force = FALSE /\ req'[r].outcome = "none"
      /\ \A q \in Requests \ {r} : req'[q] = req[q]
      /\ UNCHANGED <<pool, sessionCount, lock, toClose, appDone, events, crashed>>
  BY DEF Report, At, Touch, Reported, NewRequest, IInv, TypeOK, RequestType
<1>1. req' \in [Requests -> RequestType]
  <2>. DEFINE new == Reported
  <2>1. req \in [Requests -> RequestType]
    BY DEF IInv, TypeOK
  <2>2. new \in RequestType
    BY <2>1 DEF RequestType, Reported, NewRequest
  <2>3. req' = [req EXCEPT ![r] = new]
    BY <2>1 DEF Report, At, Touch, Reported, NewRequest, RequestType
  <2>. HIDE DEF new
  <2>. QED BY <2>1, <2>2, <2>3
<1>2. UNCHANGED heap
  BY DEF Report, At, Touch, Reported, NewRequest
<1>3. /\ heap' \in [Sessions -> SessionType] /\ HeapKept
      /\ \A s \in Sessions : heap'[s].inflight = heap[s].inflight
  BY <1>2, HeapSame
<1>4. OwnOK(r)'
  <2>1. LockOK(r)' /\ ClosingOK(r)'
    BY <1>0 DEF IInv, RequestOK, LockOK, ClosingOK, Key
  <2>2. SessionKnown(r)'
    BY <1>0, <1>3, PoolAssumption DEF IInv, RequestOK, SessionKnown, OnStream, HeapKept, Sessions
  <2>. QED BY <2>1, <2>2 DEF OwnOK
<1>5. RequestKept(r) /\ StreamKept(r)
  BY <1>0 DEF IInv, RequestOK, CreateOK, RequestKept, StreamKept, OnStream
<1>6. \A s \in Sessions : Open(s) => heap'[s].inflight = Cardinality(StreamsOn(s)')
  BY <1>0, <1>3, <1>5, SameStreams
<1>. QED BY <1>0, <1>1, <1>3, <1>4, <1>5, <1>6, OneRequestMoves

\* A new stream is counted.
LEMMA RegisterStreamStep ==
    ASSUME IInv, NEW r \in Requests, RegisterStream(r)
    PROVE  Keeps
<1>. SUFFICES ASSUME ~Dangling(r)
             PROVE  Keeps
  BY CrashStep DEF RegisterStream, Touch
<1>0. /\ req[r].pc = "stream" /\ req'[r].pc \in {"queue", "await"}
      /\ req'[r].target = req[r].target /\ req'[r].session = req[r].session
      /\ req'[r].force = req[r].force /\ req'[r].outcome = req[r].outcome
      /\ \A q \in Requests \ {r} : req'[q] = req[q]
      /\ UNCHANGED <<pool, sessionCount, lock, toClose, appDone, events, crashed>>
  BY DEF RegisterStream, At, Touch, GoTo, IInv, TypeOK, RequestType
<1>1. req' \in [Requests -> RequestType]
  <2>. DEFINE new == [req[r] EXCEPT !.pc = IF heap[req[r].session].proto = "h1" THEN "queue" ELSE "await"]
  <2>1. req \in [Requests -> RequestType]
    BY DEF IInv, TypeOK
  <2>2. new \in RequestType
    BY <2>1 DEF RequestType
  <2>3. req' = [req EXCEPT ![r] = new]
    BY <2>1 DEF RegisterStream, At, Touch, GoTo, RequestType
  <2>. HIDE DEF new
  <2>. QED BY <2>1, <2>2, <2>3
<1>2. req[r].session \in Sessions
  BY <1>0 DEF IInv, RequestOK, SessionKnown, OnStream
<1>3. /\ heap' \in [Sessions -> SessionType] /\ HeapKept
      /\ heap'[req[r].session].inflight = heap[req[r].session].inflight + 1
      /\ \A s \in Sessions \ {req[r].session} : heap'[s] = heap[s]
  <2>. DEFINE old == heap[req[r].session]
              new == [old EXCEPT !.inflight = @ + 1]
  <2>1. heap \in [Sessions -> SessionType] /\ old \in SessionType /\ (old.up => ~old.sockError)
    BY <1>2 DEF IInv, TypeOK, SessionOK
  <2>2. heap' = [heap EXCEPT ![req[r].session] = new]
    BY <1>2, <2>1 DEF RegisterStream, At, Touch, GoTo, SessionType
  <2>. HIDE DEF old
  <2>3. new \in SessionType
    BY <2>1 DEF SessionType
  <2>4. /\ new.unpooled = old.unpooled /\ new.life = old.life /\ new.target = old.target /\ new.proto = old.proto
        /\ new.inflight = old.inflight + 1 /\ new.up = old.up /\ new.sockError = old.sockError
    BY <2>1 DEF SessionType
  <2>5. old.goingAway => new.goingAway
    BY <2>1 DEF SessionType
  <2>. HIDE DEF new
  <2>. QED BY <1>2, <2>1, <2>2, <2>3, <2>4, <2>5, OneSessionChanges DEF old
<1>4. OwnOK(r)'
  <2>1. LockOK(r)' /\ ClosingOK(r)'
    BY <1>0 DEF IInv, RequestOK, LockOK, ClosingOK, Key
  <2>2. SessionKnown(r)'
    BY <1>0, <1>3, PoolAssumption DEF IInv, RequestOK, SessionKnown, OnStream, HeapKept, Sessions
  <2>. QED BY <2>1, <2>2 DEF OwnOK
<1>5. RequestKept(r)
  BY <1>0 DEF IInv, RequestOK, CreateOK, RequestKept, StreamKept, OnStream
<1>6. ASSUME NEW s \in Sessions, Open(s)
      PROVE  heap'[s].inflight = Cardinality(StreamsOn(s)')
  <2>1. IsFiniteSet(StreamsOn(s))
    BY PoolAssumption, FS_Subset DEF StreamsOn
  <2>2. heap[s].inflight = Cardinality(StreamsOn(s))
    BY <1>6 DEF IInv, SessionOK
  <2>3. CASE s = req[r].session
    <3>1. StreamsOn(s)' = StreamsOn(s) \cup {r}
      BY <1>0, <2>3 DEF StreamsOn, OnStream
    <3>2. r \notin StreamsOn(s)
      BY <1>0, <2>3 DEF StreamsOn, OnStream
    <3>. QED BY <1>3, <2>1, <2>2, <2>3, <3>1, <3>2, FS_AddElement
  <2>4. CASE s # req[r].session
    <3>1. StreamsOn(s)' = StreamsOn(s)
      BY <1>0, <2>4 DEF StreamsOn, OnStream
    <3>. QED BY <1>3, <2>2, <2>4, <3>1
  <2>. QED BY <2>3, <2>4
<1>. QED BY <1>0, <1>1, <1>3, <1>4, <1>5, <1>6, OneRequestMoves

\* A stream that is taken off was counted.
LEMMA UnregisterStreamStep ==
    ASSUME IInv, NEW r \in Requests, UnregisterStream(r)
    PROVE  Keeps
<1>. SUFFICES ASSUME ~Dangling(r)
             PROVE  Keeps
  BY CrashStep DEF UnregisterStream, Touch
<1>0. /\ req[r].pc = "await" /\ req'[r].pc \in {"retry", "report"}
      /\ req'[r].target = req[r].target /\ req'[r].session = req[r].session
      /\ req'[r].force = req[r].force /\ req'[r].outcome = req[r].outcome
      /\ \A q \in Requests \ {r} : req'[q] = req[q]
      /\ UNCHANGED <<pool, sessionCount, lock, toClose, appDone, events, crashed>>
  BY DEF UnregisterStream, At, Touch, GoTo, IInv, TypeOK, RequestType
<1>1. req' \in [Requests -> RequestType]
  <2>. DEFINE new == [req[r] EXCEPT !.pc = IF req[r].outcome \in Retryable /\ req[r].attempt = 0 THEN "retry" ELSE "report"]
  <2>1. req \in [Requests -> RequestType]
    BY DEF IInv, TypeOK
  <2>2. new \in RequestType
    BY <2>1 DEF RequestType
  <2>3. req' = [req EXCEPT ![r] = new]
    BY <2>1 DEF UnregisterStream, At, Touch, GoTo, RequestType
  <2>. HIDE DEF new
  <2>. QED BY <2>1, <2>2, <2>3
<1>2. req[r].session \in Sessions
  BY <1>0 DEF IInv, RequestOK, SessionKnown, OnStream
<1>3. /\ heap' \in [Sessions -> SessionType] /\ HeapKept
      /\ heap'[req[r].session].inflight = heap[req[r].session].inflight - 1
      /\ \A s \in Sessions \ {req[r].session} : heap'[s] = heap[s]
  <2>. DEFINE old == heap[req[r].session]
              new == [old EXCEPT !.inflight = @ - 1]
  <2>1. heap \in [Sessions -> SessionType] /\ old \in SessionType /\ (old.up => ~old.sockError)
    BY <1>2 DEF IInv, TypeOK, SessionOK
  <2>0. old.inflight - 1 \in Nat
    <3>1. Open(req[r].session)
      <4>1. req[r].session # NoSession /\ heap[req[r].session].life # "absent"
        BY <1>2, PoolAssumption DEF IInv, RequestOK, SessionKnown, Sessions
      <4>2. heap[req[r].session].life \in {"absent", "open", "freed"}
        BY <1>2, <2>1 DEF SessionType
      <4>. QED BY <4>1, <4>2 DEF Dangling, Open
    <3>2. IsFiniteSet(StreamsOn(req[r].session)) /\ r \in StreamsOn(req[r].session)
      BY <1>0, PoolAssumption, FS_Subset DEF StreamsOn, OnStream
    <3>3. heap[req[r].session].inflight = Cardinality(StreamsOn(req[r].session))
      BY <1>2, <3>1 DEF IInv, SessionOK
    <3>4. /\ IsFiniteSet(StreamsOn(req[r].session) \ {r})
          /\ Cardinality(StreamsOn(req[r].session) \ {r}) = Cardinality(StreamsOn(req[r].session)) - 1
      BY <3>2, FS_RemoveElement
    <3>. QED BY <3>3, <3>4, FS_CardinalityType
  <2>2. heap' = [heap EXCEPT ![req[r].session] = new]
    BY <1>2, <2>1 DEF UnregisterStream, At, Touch, GoTo, SessionType
  <2>. HIDE DEF old
  <2>3. new \in SessionType
    BY <2>1, <2>0 DEF SessionType
  <2>4. /\ new.unpooled = old.unpooled /\ new.life = old.life /\ new.target = old.target /\ new.proto = old.proto
        /\ new.inflight = old.inflight - 1 /\ new.up = old.up /\ new.sockError = old.sockError
    BY <2>1 DEF SessionType
  <2>5. old.goingAway => new.goingAway
    BY <2>1 DEF SessionType
  <2>. HIDE DEF new
  <2>. QED BY <1>2, <2>1, <2>2, <2>3, <2>4, <2>5, OneSessionChanges DEF old
<1>4. OwnOK(r)'
  <2>1. LockOK(r)' /\ ClosingOK(r)'
    BY <1>0 DEF IInv, RequestOK, LockOK, ClosingOK, Key
  <2>2. SessionKnown(r)'
    BY <1>0, <1>3, PoolAssumption DEF IInv, RequestOK, SessionKnown, OnStream, HeapKept, Sessions
  <2>. QED BY <2>1, <2>2 DEF OwnOK
<1>5. RequestKept(r)
  BY <1>0 DEF IInv, RequestOK, CreateOK, RequestKept, StreamKept, OnStream
<1>6. ASSUME NEW s \in Sessions, Open(s)
      PROVE  heap'[s].inflight = Cardinality(StreamsOn(s)')
  <2>1. IsFiniteSet(StreamsOn(s))
    BY PoolAssumption, FS_Subset DEF StreamsOn
  <2>2. heap[s].inflight = Cardinality(StreamsOn(s))
    BY <1>6 DEF IInv, SessionOK
  <2>3. CASE s = req[r].session
    <3>1. StreamsOn(s)' = StreamsOn(s) \ {r}
      BY <1>0, <2>3 DEF StreamsOn, OnStream
    <3>2. r \in StreamsOn(s)
      BY <1>0, <2>3 DEF StreamsOn, OnStream
    <3>. QED BY <1>3, <2>1, <2>2, <2>3, <3>1, <3>2, FS_RemoveElement
  <2>4. CASE s # req[r].session
    <3>1. StreamsOn(s)' = StreamsOn(s)
      BY <1>0, <2>4 DEF StreamsOn, OnStream
    <3>. QED BY <1>3, <2>2, <2>4, <3>1
  <2>. QED BY <2>3, <2>4
<1>. QED BY <1>0, <1>1, <1>3, <1>4, <1>5, <1>6, OneRequestMoves

\* A free establish lock has no other holder.
LEMMA AcquireEstablishLockStep ==
    ASSUME IInv, NEW r \in Requests, AcquireEstablishLock(r)
    PROVE  Keeps
<1>0. /\ req[r].pc = "closing" /\ req'[r].pc = "find"
      /\ req'[r].target = req[r].target /\ req'[r].session = req[r].session
      /\ req'[r].force = req[r].force /\ req'[r].outcome = req[r].outcome
      /\ req' \in [Requests -> RequestType]
      /\ \A q \in Requests \ {r} : req'[q] = req[q]
      /\ toClose[r] = {} /\ lock[Key(r)] = NoRequest /\ lock' = [lock EXCEPT ![Key(r)] = r]
      /\ UNCHANGED <<heap, pool, sessionCount, toClose, appDone, crashed, events>>
  BY DEF AcquireEstablishLock, At, GoTo, IInv, TypeOK, RequestType
<1>1. Key(r) \in LockKeys
  BY <1>0 DEF IInv, TypeOK, RequestType, RequestOK, LockOK, Key, LockKeys
<1>2. lock' \in [LockKeys -> Requests \cup {NoRequest}] /\ lock'[Key(r)] = r
  BY <1>0, <1>1 DEF IInv, TypeOK
<1>3. TypeOK'
  BY <1>0, <1>2 DEF IInv, TypeOK
<1>4. ASSUME NEW q \in Requests
      PROVE  OwnOK(q)' /\ RequestKept(q) /\ StreamKept(q)
  <2>1. CASE q = r
    <3>1. Key(r)' = Key(r)
      BY <1>0 DEF Key
    <3>2. LockOK(r)' /\ ClosingOK(r)'
      BY <1>0, <1>2, <3>1 DEF IInv, RequestOK, LockOK, ClosingOK
    <3>3. SessionKnown(r)'
      BY <1>0 DEF IInv, RequestOK, SessionKnown, OnStream
    <3>4. RequestKept(r) /\ StreamKept(r)
      BY <1>0 DEF RequestKept, StreamKept, OnStream
    <3>. QED BY <2>1, <3>2, <3>3, <3>4 DEF OwnOK
  <2>2. CASE q # r
    <3>1. req'[q] = req[q]
      BY <1>0, <2>2
    <3>2. LockOK(q)'
      <4>. SUFFICES ASSUME req[q].pc \in {"find", "create", "register", "unlock"}
                    PROVE  lock'[Key(q)] = q
        BY <3>1 DEF IInv, RequestOK, LockOK, Key
      <4>1. lock[Key(q)] = q /\ Key(q) # Key(r)
        BY <1>0, PoolAssumption DEF IInv, RequestOK, LockOK
      <4>2. Key(q) \in LockKeys
        BY DEF IInv, TypeOK, RequestType, RequestOK, LockOK, Key, LockKeys
      <4>. QED BY <1>0, <4>1, <4>2 DEF IInv, TypeOK
    <3>3. SessionKnown(q)' /\ ClosingOK(q)'
      BY <1>0, <3>1 DEF IInv, RequestOK, SessionKnown, ClosingOK
    <3>4. RequestKept(q) /\ StreamKept(q)
      BY <3>1 DEF IInv, RequestOK, CreateOK, RequestKept, StreamKept
    <3>. QED BY <3>2, <3>3, <3>4 DEF OwnOK
  <2>. QED BY <2>1, <2>2
<1>. QED BY <1>0, <1>3, <1>4, HeapSame, SameCounts, StepWithoutPool

\* Only the holder gives the establish lock back.
LEMMA ReleaseEstablishLockStep ==
    ASSUME IInv, NEW r \in Requests, ReleaseEstablishLock(r)
    PROVE  Keeps
<1>. DEFINE next == IF req[r].outcome = "none" THEN "stream" ELSE "report"
<1>0. /\ req[r].pc = "unlock" /\ req'[r].pc = next
      /\ req'[r].target = req[r].target /\ req'[r].session = req[r].session
      /\ req'[r].force = req[r].force /\ req'[r].outcome = req[r].outcome
      /\ req' \in [Requests -> RequestType]
      /\ \A q \in Requests \ {r} : req'[q] = req[q]
      /\ lock' = [lock EXCEPT ![Key(r)] = NoRequest]
      /\ UNCHANGED <<heap, pool, sessionCount, toClose, appDone, crashed, events>>
  <2>1. req' = [req EXCEPT ![r].pc = next] /\ next \in {"stream", "report"}
    BY DEF ReleaseEstablishLock, GoTo
  <2>. HIDE DEF next
  <2>2. req' \in [Requests -> RequestType]
    BY <2>1 DEF IInv, TypeOK, RequestType
  <2>. QED BY <2>1, <2>2 DEF ReleaseEstablishLock, At, IInv, TypeOK, RequestType
<1>1. Key(r) \in LockKeys /\ lock[Key(r)] = r
  BY <1>0 DEF IInv, TypeOK, RequestType, RequestOK, LockOK, Key, LockKeys
<1>2. lock' \in [LockKeys -> Requests \cup {NoRequest}]
  BY <1>0, <1>1 DEF IInv, TypeOK
<1>3. TypeOK'
  BY <1>0, <1>2 DEF IInv, TypeOK
<1>4. ASSUME NEW q \in Requests
      PROVE  OwnOK(q)' /\ RequestKept(q) /\ StreamKept(q)
  <2>1. CASE q = r
    <3>1. LockOK(r)' /\ ClosingOK(r)'
      BY <1>0 DEF IInv, RequestOK, LockOK, ClosingOK
    <3>2. SessionKnown(r)'
      BY <1>0 DEF IInv, RequestOK, SessionKnown, OnStream
    <3>3. RequestKept(r) /\ StreamKept(r)
      BY <1>0 DEF RequestKept, StreamKept, OnStream
    <3>. QED BY <2>1, <3>1, <3>2, <3>3 DEF OwnOK
  <2>2. CASE q # r
    <3>1. req'[q] = req[q]
      BY <1>0, <2>2
    <3>2. LockOK(q)'
      <4>. SUFFICES ASSUME req[q].pc \in {"find", "create", "register", "unlock"}
                    PROVE  lock'[Key(q)] = q
        BY <3>1 DEF IInv, RequestOK, LockOK, Key
      <4>1. lock[Key(q)] = q /\ Key(q) # Key(r)
        BY <1>1, <2>2 DEF IInv, RequestOK, LockOK
      <4>2. Key(q) \in LockKeys
        BY DEF IInv, TypeOK, RequestType, RequestOK, LockOK, Key, LockKeys
      <4>. QED BY <1>0, <4>1, <4>2 DEF IInv, TypeOK
    <3>3. SessionKnown(q)' /\ ClosingOK(q)'
      BY <1>0, <3>1 DEF IInv, RequestOK, SessionKnown, ClosingOK
    <3>4. RequestKept(q) /\ StreamKept(q)
      BY <3>1 DEF IInv, RequestOK, CreateOK, RequestKept, StreamKept
    <3>. QED BY <3>2, <3>3, <3>4 DEF OwnOK
  <2>. QED BY <2>1, <2>2
<1>. QED BY <1>0, <1>3, <1>4, HeapSame, SameCounts, StepWithoutPool

-----------------------------------------------------------------------------
(* The search                                                               *)

\* Among pool slots there is a first one.
LEMMA FirstSlot ==
    ASSUME NEW S \in SUBSET PoolSlots, S # {}
    PROVE  \E i \in S : \A j \in S : i <= j
<1>1. S \subseteq Nat
  BY DEF PoolSlots
<1>2. PICK i \in S : \A j \in S : ~(<<j, i>> \in OpToRel(<, Nat))
  <2>1. IsWellFoundedOn(OpToRel(<, Nat), Nat)
    BY NatLessThanWellFounded
  <2>. QED BY <1>1, <2>1, WFMin
<1>3. \A j \in S : i <= j
  <2>. TAKE j \in S
  <2>1. ~(j < i)
    BY <1>1, <1>2 DEF OpToRel
  <2>. QED BY <1>1, <2>1
<1>. QED BY <1>3

\* A reusable session of the target of a request that searches for HTTP/2 is
\* in the pool: whoever would be registering it holds the same lock.
LEMMA ReusableIsPooled ==
    ASSUME IInv, NEW r \in Requests, req[r].pc = "find", ~req[r].force,
           NEW s \in Sessions, Reusable(s), heap[s].target = req[r].target
    PROVE  \E i \in PoolSlots : pool[i] = s /\ Candidate(i, r) /\ ~heap[pool[i]].sockError
<1>1. ASSUME NEW q \in Requests, req[q].pc = "register", req[q].session = s
      PROVE  FALSE
  <2>1. req[q].target = req[r].target /\ ~req[q].force
    BY <1>1 DEF IInv, RequestOK, RegisterOK, Reusable
  <2>2. lock[Key(q)] = q /\ lock[Key(r)] = r
    BY <1>1 DEF IInv, RequestOK, LockOK
  <2>3. req[q].force = FALSE /\ req[r].force = FALSE
    BY <2>1 DEF IInv, TypeOK, RequestType
  <2>. QED BY <1>1, <2>1, <2>2, <2>3 DEF Key
<1>2. PICK i \in PoolSlots : pool[i] = s /\ s # NoSession
  BY <1>1 DEF Reusable, Pooled
<1>3. ~heap[s].sockError
  BY DEF IInv, SessionOK, Reusable
<1>4. Candidate(i, r)
  BY <1>2 DEF Candidate, ProtocolUsable, Reusable
<1>. QED BY <1>2, <1>3, <1>4

\* getSessionInfo(): what is found is pooled, and when nothing is found there
\* is no HTTP/2 connection to reuse.
LEMMA FindSessionStep ==
    ASSUME IInv, NEW r \in Requests, FindSession(r)
    PROVE  Keeps
<1>. DEFINE healthy == {i \in PoolSlots : Candidate(i, r) /\ ~heap[pool[i]].sockError}
            chosen  == {i \in healthy : \A j \in healthy : i <= j}
            probed  == {pool[i] : i \in {j \in PoolSlots : Candidate(j, r) /\ \A i \in chosen : j < i}}
            found   == {pool[i] : i \in chosen}
<1>0. /\ req[r].pc = "find"
      /\ heap' = [s \in Sessions |-> [heap[s] EXCEPT !.sockError = @ /\ s \notin probed,
                                                     !.stale = @ /\ s \notin found]]
      /\ \/ found = {} /\ req' = [req EXCEPT ![r].pc = "create"]
         \/ \E s \in found : req' = [req EXCEPT ![r].pc = "unlock", ![r].session = s]
      /\ UNCHANGED <<pool, sessionCount, lock, toClose, appDone, crashed, events>>
  BY DEF FindSession, At, GoTo
<1>1. found \subseteq Pooled
  BY DEF Candidate, Pooled
<1>2. ASSUME found = {}, ~req[r].force
      PROVE  NoneReusable(req[r].target)
  <2>. SUFFICES ASSUME NEW s \in Sessions, Reusable(s), heap[s].target = req[r].target
                PROVE  FALSE
    BY DEF NoneReusable
  <2>1. healthy # {}
    BY <1>0, <1>2, ReusableIsPooled
  <2>2. chosen # {}
    BY <2>1, FirstSlot
  <2>. QED BY <1>2, <2>2
<1>. HIDE DEF healthy, chosen, probed, found
<1>3. /\ heap' \in [Sessions -> SessionType] /\ HeapKept
      /\ \A s \in Sessions : heap'[s].inflight = heap[s].inflight
  <2>1. ASSUME NEW s \in Sessions
        PROVE  /\ heap'[s] \in SessionType /\ heap'[s].inflight = heap[s].inflight
               /\ heap'[s].life = heap[s].life /\ heap'[s].target = heap[s].target
               /\ heap'[s].proto = heap[s].proto /\ heap'[s].up = heap[s].up
               /\ heap'[s].goingAway = heap[s].goingAway /\ heap'[s].unpooled = heap[s].unpooled
               /\ heap'[s].sockError => heap[s].sockError
    <3>. DEFINE old == heap[s]
                a == old.sockError /\ s \notin probed
                b == old.stale /\ s \notin found
                new == [old EXCEPT !.sockError = a, !.stale = b]
    <3>1. /\ heap'[s] = new /\ old \in SessionType /\ a \in BOOLEAN /\ b \in BOOLEAN
          /\ a => old.sockError
      BY <1>0 DEF IInv, TypeOK
    <3>. HIDE DEF a, b, old
    <3>2. new \in SessionType
      BY <3>1 DEF SessionType
    <3>3. /\ new.inflight = old.inflight /\ new.unpooled = old.unpooled /\ new.life = old.life
          /\ new.target = old.target /\ new.proto = old.proto /\ new.up = old.up
          /\ new.goingAway = old.goingAway
      BY <3>1 DEF SessionType
    <3>4. new.sockError = a
      BY <3>1 DEF SessionType
    <3>. HIDE DEF new
    <3>. QED BY <3>1, <3>2, <3>3, <3>4 DEF old
  <2>2. heap' = [s \in Sessions |-> heap'[s]]
    BY <1>0
  <2>. QED BY <2>1, <2>2 DEF IInv, SessionOK, HeapKept
<1>4. CASE found = {} /\ req' = [req EXCEPT ![r].pc = "create"]
  <2>1. /\ req'[r].pc = "create" /\ req'[r].target = req[r].target /\ req'[r].session = req[r].session
        /\ req'[r].force = req[r].force /\ req'[r].outcome = req[r].outcome
        /\ req' \in [Requests -> RequestType]
        /\ \A q \in Requests \ {r} : req'[q] = req[q]
    BY <1>4 DEF IInv, TypeOK, RequestType
  <2>2. LockOK(r)' /\ ClosingOK(r)'
    BY <1>0, <2>1 DEF IInv, RequestOK, LockOK, ClosingOK, Key
  <2>3. SessionKnown(r)'
    BY <1>0, <1>3, <2>1 DEF IInv, RequestOK, SessionKnown, OnStream, HeapKept
  <2>4. RequestKept(r) /\ StreamKept(r)
    BY <1>0, <1>2, <1>4, <2>1 DEF RequestKept, StreamKept, OnStream
  <2>5. \A s \in Sessions : Open(s) => heap'[s].inflight = Cardinality(StreamsOn(s)')
    BY <1>3, <2>1, <2>4, SameStreams
  <2>. QED BY <1>0, <1>3, <2>1, <2>2, <2>3, <2>4, <2>5, OneRequestMoves DEF OwnOK
<1>5. ASSUME NEW s \in found, req' = [req EXCEPT ![r].pc = "unlock", ![r].session = s]
      PROVE  Keeps
  <2>1. s \in Sessions /\ s \in Pooled /\ heap[s].life = "open"
    BY <1>1 DEF IInv, TypeOK, Pooled, PoolOK, Open
  <2>2. /\ req'[r].pc = "unlock" /\ req'[r].target = req[r].target /\ req'[r].session = s
        /\ req'[r].force = req[r].force
        /\ \A q \in Requests \ {r} : req'[q] = req[q]
    BY <1>5 DEF IInv, TypeOK, RequestType
  <2>3. req' \in [Requests -> RequestType]
    <3>. DEFINE new == [req[r] EXCEPT !.pc = "unlock", !.session = s]
    <3>1. req \in [Requests -> RequestType]
      BY DEF IInv, TypeOK
    <3>2. new \in RequestType
      BY <2>1, <3>1 DEF RequestType
    <3>3. req' = [req EXCEPT ![r] = new]
      BY <1>5, <3>1 DEF RequestType
    <3>. HIDE DEF new
    <3>. QED BY <3>1, <3>2, <3>3
  <2>4. LockOK(r)' /\ ClosingOK(r)'
    BY <1>0, <2>2 DEF IInv, RequestOK, LockOK, ClosingOK, Key
  <2>5. SessionKnown(r)'
    BY <1>3, <2>1, <2>2 DEF SessionKnown, OnStream, HeapKept
  <2>6. RequestKept(r) /\ StreamKept(r)
    BY <1>0, <2>1, <2>2 DEF RequestKept, StreamKept, OnStream
  <2>7. \A u \in Sessions : Open(u) => heap'[u].inflight = Cardinality(StreamsOn(u)')
    BY <1>3, <2>2, <2>6, SameStreams
  <2>. QED BY <1>0, <1>3, <2>2, <2>3, <2>4, <2>5, <2>6, <2>7, OneRequestMoves DEF OwnOK
<1>. QED BY <1>0, <1>4, <1>5

-----------------------------------------------------------------------------
(* Peers, the reader threads and the clock                                  *)

\* A step of the surroundings that keeps what requests and sessions are.
LEMMA OutsideStep ==
    ASSUME IInv, req' \in [Requests -> RequestType],
           \A r \in Requests : OwnOK(r)' /\ RequestKept(r) /\ StreamKept(r),
           heap' \in [Sessions -> SessionType], HeapKept,
           \A s \in Sessions : heap'[s].inflight = heap[s].inflight,
           UNCHANGED <<pool, sessionCount, lock, toClose, appDone, crashed>>, events' \in 0 .. MaxEvents
    PROVE  Keeps
<1>1. TypeOK'
  BY DEF IInv, TypeOK
<1>. QED BY <1>1, SameCounts, StepWithoutPool

\* A step that leaves the requests alone.
LEMMA RequestsSame ==
    ASSUME IInv, UNCHANGED <<req, lock, toClose>>, \A s \in Sessions : heap'[s].life = heap[s].life
    PROVE  /\ req' \in [Requests -> RequestType]
           /\ \A r \in Requests : OwnOK(r)' /\ RequestKept(r) /\ StreamKept(r)
BY DEF IInv, TypeOK, RequestOK, OwnOK, LockOK, SessionKnown, ClosingOK, RequestKept, StreamKept, CreateOK, Key

\* The peer closes: an error can only be pending once the connection is down.
LEMMA PeerClosesStep ==
    ASSUME IInv, NEW s \in Sessions, NEW reset \in BOOLEAN, PeerCloses(s, reset), events' \in 0 .. MaxEvents
    PROVE  Keeps
<1>. DEFINE old == heap[s]
            new == [old EXCEPT !.up = FALSE, !.sockError = reset]
<1>1. heap \in [Sessions -> SessionType] /\ old \in SessionType
  BY DEF IInv, TypeOK
<1>2. heap' = [heap EXCEPT ![s] = new]
  BY <1>1 DEF PeerCloses, SessionType
<1>. HIDE DEF old
<1>3. new \in SessionType
  BY <1>1 DEF SessionType
<1>4. /\ new.unpooled = old.unpooled /\ new.life = old.life /\ new.target = old.target /\ new.proto = old.proto
      /\ new.inflight = old.inflight /\ new.up = FALSE /\ new.goingAway = old.goingAway
  BY <1>1 DEF SessionType
<1>. HIDE DEF new
<1>5. /\ heap' \in [Sessions -> SessionType] /\ HeapKept
      /\ \A u \in Sessions : heap'[u].inflight = heap[u].inflight
  BY <1>1, <1>2, <1>3, <1>4, OneSessionChanges DEF old
<1>6. UNCHANGED <<pool, sessionCount, lock, req, toClose, appDone, crashed>>
  BY DEF PeerCloses
<1>. QED BY <1>5, <1>6, RequestsSame, OutsideStep DEF HeapKept

\* Idle time passes.
LEMMA ExpireStep ==
    ASSUME IInv, NEW s \in Sessions, Expire(s), events' \in 0 .. MaxEvents
    PROVE  Keeps
<1>. DEFINE old == heap[s]
            new == [old EXCEPT !.stale = TRUE]
<1>1. heap \in [Sessions -> SessionType] /\ old \in SessionType /\ (old.up => ~old.sockError)
  BY DEF IInv, TypeOK, SessionOK
<1>2. heap' = [heap EXCEPT ![s] = new]
  BY <1>1 DEF Expire, SessionType
<1>. HIDE DEF old
<1>3. new \in SessionType
  BY <1>1 DEF SessionType
<1>4. /\ new.unpooled = old.unpooled /\ new.life = old.life /\ new.target = old.target /\ new.proto = old.proto
      /\ new.inflight = old.inflight /\ new.up = old.up /\ new.sockError = old.sockError
      /\ new.goingAway = old.goingAway
  BY <1>1 DEF SessionType
<1>. HIDE DEF new
<1>5. /\ heap' \in [Sessions -> SessionType] /\ HeapKept
      /\ \A u \in Sessions : heap'[u].inflight = heap[u].inflight
  BY <1>1, <1>2, <1>3, <1>4, OneSessionChanges DEF old
<1>6. UNCHANGED <<pool, sessionCount, lock, req, toClose, appDone, crashed>>
  BY DEF Expire
<1>. QED BY <1>5, <1>6, RequestsSame, OutsideStep DEF HeapKept

\* The reader sees the end: the session is retired before its streams fail.
LEMMA ReaderSeesEndStep ==
    ASSUME IInv, NEW s \in Sessions, ReaderSeesEnd(s)
    PROVE  Keeps
<1>. DEFINE old == heap[s]
            new == [old EXCEPT !.goingAway = TRUE, !.sockError = FALSE, !.reader = FALSE]
<1>1. heap \in [Sessions -> SessionType] /\ old \in SessionType
  BY DEF IInv, TypeOK
<1>2. heap' = [heap EXCEPT ![s] = new]
  BY <1>1 DEF ReaderSeesEnd, SessionType
<1>. HIDE DEF old
<1>3. new \in SessionType
  BY <1>1 DEF SessionType
<1>4. /\ new.unpooled = old.unpooled /\ new.life = old.life /\ new.target = old.target /\ new.proto = old.proto
      /\ new.inflight = old.inflight /\ new.up = old.up /\ new.sockError = FALSE /\ new.goingAway = TRUE
  BY <1>1 DEF SessionType
<1>. HIDE DEF new
<1>5. /\ heap' \in [Sessions -> SessionType] /\ HeapKept
      /\ \A u \in Sessions : heap'[u].inflight = heap[u].inflight
  BY <1>1, <1>2, <1>3, <1>4, OneSessionChanges DEF old
<1>6. req' = EndAll(Awaiting(s), FailureOf(s)) /\ FailureOf(s) \in {"error"} \cup Retryable
  BY FailureOfType DEF ReaderSeesEnd, IInv
<1>7. UNCHANGED <<pool, sessionCount, lock, toClose, appDone, crashed>> /\ events' \in 0 .. MaxEvents
  BY DEF ReaderSeesEnd, IInv, TypeOK
<1>8. /\ req' \in [Requests -> RequestType]
      /\ \A r \in Requests : OwnOK(r)' /\ RequestKept(r) /\ StreamKept(r)
  BY <1>5, <1>6, <1>7, StreamsEnd DEF HeapKept
<1>. QED BY <1>5, <1>7, <1>8, OutsideStep

\* GOAWAY and HTTP_1_1_REQUIRED retire the session and end some of its streams.
LEMMA RetireStep ==
    ASSUME IInv, NEW s \in Sessions, NEW why \in Retryable,
           heap' = [heap EXCEPT ![s].goingAway = TRUE, ![s].connError = why],
           NEW rs \in SUBSET Awaiting(s), req' = EndAll(rs, why),
           UNCHANGED <<pool, sessionCount, lock, toClose, appDone, crashed>>, events' \in 0 .. MaxEvents
    PROVE  Keeps
<1>. DEFINE old == heap[s]
            new == [old EXCEPT !.goingAway = TRUE, !.connError = why]
<1>1. heap \in [Sessions -> SessionType] /\ old \in SessionType /\ (old.up => ~old.sockError)
  BY DEF IInv, TypeOK, SessionOK
<1>2. heap' = [heap EXCEPT ![s] = new]
  BY <1>1 DEF SessionType
<1>. HIDE DEF old
<1>3. new \in SessionType
  BY <1>1 DEF SessionType
<1>4. /\ new.unpooled = old.unpooled /\ new.life = old.life /\ new.target = old.target /\ new.proto = old.proto
      /\ new.inflight = old.inflight /\ new.up = old.up /\ new.sockError = old.sockError
      /\ new.goingAway = TRUE
  BY <1>1 DEF SessionType
<1>. HIDE DEF new
<1>5. /\ heap' \in [Sessions -> SessionType] /\ HeapKept
      /\ \A u \in Sessions : heap'[u].inflight = heap[u].inflight
  BY <1>1, <1>2, <1>3, <1>4, OneSessionChanges DEF old
<1>6. /\ req' \in [Requests -> RequestType]
      /\ \A r \in Requests : OwnOK(r)' /\ RequestKept(r) /\ StreamKept(r)
  BY <1>5, StreamsEnd DEF HeapKept
<1>. QED BY <1>5, <1>6, OutsideStep

\* What peers, sockets and clocks may do to a session.
LEMMA EnvironmentStep ==
    ASSUME IInv, NEW s \in Sessions, Environment(s)
    PROVE  Keeps
<1>1. events' \in 0 .. MaxEvents
  BY PoolAssumption DEF Environment, IInv, TypeOK
<1>2. ASSUME NEW why \in Retryable, GoAway(s, why)
      PROVE  Keeps
  BY <1>1, <1>2, RetireStep DEF GoAway
<1>3. ASSUME ResetHttp11Required(s)
      PROVE  Keeps
  <2>1. PICK r \in Awaiting(s) : req' = EndAll({r}, "h11")
    BY <1>3 DEF ResetHttp11Required
  <2>2. {r} \in SUBSET Awaiting(s) /\ "h11" \in Retryable
    BY DEF Retryable
  <2>. QED BY <1>1, <1>3, <2>1, <2>2, RetireStep DEF ResetHttp11Required
<1>. QED BY <1>1, <1>2, <1>3, PeerClosesStep, ExpireStep DEF Environment

-----------------------------------------------------------------------------
(* Reaping                                                                  *)

\* What a reaper takes is out of the pool, and the pool counts what is left.
LEMMA Collected ==
    ASSUME IInv, NEW c \in Closers, NEW isAll \in BOOLEAN, Collect(c, isAll)
    PROVE  /\ toClose' \in [Closers -> SUBSET Sessions]
           /\ toClose'[c] = {s \in Pooled : Reapable(s, isAll)}
           /\ \A d \in Closers \ {c} : toClose'[d] = toClose[d]
           /\ pool' \in [PoolSlots -> Sessions \cup {NoSession}]
           /\ \A i \in PoolSlots : pool'[i] = pool[i] \/ pool'[i] = NoSession
           /\ Pooled' = Pooled \ toClose'[c]
           /\ sessionCount' = Cardinality(Pooled') /\ sessionCount' \in 0 .. PoolSize
<1>. DEFINE reaped == {s \in Pooled : Reapable(s, isAll)}
<1>1. /\ toClose' = [toClose EXCEPT ![c] = reaped]
      /\ pool' = [i \in PoolSlots |-> IF pool[i] \in reaped THEN NoSession ELSE pool[i]]
      /\ sessionCount' = sessionCount - Cardinality(reaped)
  BY DEF Collect
<1>2. reaped \subseteq Pooled /\ Pooled \subseteq Sessions /\ NoSession \notin Pooled
  BY DEF IInv, TypeOK, Pooled
<1>. HIDE DEF reaped
<1>3. /\ toClose' \in [Closers -> SUBSET Sessions] /\ toClose'[c] = reaped
      /\ \A d \in Closers \ {c} : toClose'[d] = toClose[d]
  BY <1>1, <1>2 DEF IInv, TypeOK, Closers
<1>4. /\ pool' \in [PoolSlots -> Sessions \cup {NoSession}]
      /\ \A i \in PoolSlots : pool'[i] = pool[i] \/ pool'[i] = NoSession
  BY <1>1 DEF IInv, TypeOK
<1>5. Pooled' = Pooled \ reaped
  BY <1>1, <1>2 DEF Pooled
<1>6. IsFiniteSet(Pooled)
  <2>1. IsFiniteSet(Sessions)
    BY PoolAssumption, FS_Interval DEF Sessions
  <2>. QED BY <1>2, <2>1, FS_Subset
<1>7. Cardinality(Pooled \ reaped) = Cardinality(Pooled) - Cardinality(reaped)
  <2>1. Pooled \cap reaped = reaped
    BY <1>2
  <2>. QED BY <1>6, <2>1, FS_Difference
<1>8. /\ Cardinality(Pooled \ reaped) \in Nat
      /\ Cardinality(Pooled \ reaped) <= Cardinality(Pooled)
  <2>1. Pooled \ reaped \in SUBSET Pooled
    OBVIOUS
  <2>. QED BY <1>6, <2>1, FS_Subset, FS_CardinalityType
<1>9. sessionCount = Cardinality(Pooled) /\ sessionCount \in 0 .. PoolSize
  BY DEF IInv, PoolOK, TypeOK
<1>. QED BY <1>1, <1>3, <1>4, <1>5, <1>7, <1>8, <1>9, PoolAssumption DEF reaped

\* A reaper moves sessions from the pool into its own hands.
LEMMA CollectStep ==
    ASSUME IInv, NEW c \in Closers, NEW isAll \in BOOLEAN, Collect(c, isAll),
           UNCHANGED <<heap, lock, crashed, events>>, appDone' \in BOOLEAN, ExitOK', toClose[c] = {},
           req' \in [Requests -> RequestType],
           \A r \in Requests : OwnOK(r)' /\ RequestKept(r) /\ StreamKept(r) /\ req'[r].session = req[r].session
    PROVE  Keeps
<1>0. /\ toClose' \in [Closers -> SUBSET Sessions] /\ toClose'[c] \subseteq Pooled
      /\ \A d \in Closers \ {c} : toClose'[d] = toClose[d]
      /\ pool' \in [PoolSlots -> Sessions \cup {NoSession}]
      /\ \A i \in PoolSlots : pool'[i] = pool[i] \/ pool'[i] = NoSession
      /\ Pooled' = Pooled \ toClose'[c]
      /\ sessionCount' = Cardinality(Pooled') /\ sessionCount' \in 0 .. PoolSize
  BY Collected
<1>1. TypeOK'
  BY <1>0 DEF IInv, TypeOK, Closers
<1>2. ASSUME NEW s \in Sessions, Reusable(s)'
      PROVE  Reusable(s)
  BY <1>0, <1>2 DEF Reusable, RequestKept
<1>3. ASSUME NEW r \in Requests
      PROVE  RegisterOK(r)'
  <2>. SUFFICES ASSUME req'[r].pc = "register"
                PROVE  RegisterOK(r)'
    BY DEF RegisterOK
  <2>1. /\ req[r].pc = "register" /\ req'[r].session = req[r].session
        /\ req'[r].target = req[r].target /\ req'[r].force = req[r].force
    BY DEF RequestKept
  <2>2. RegisterOK(r)
    BY DEF IInv, RequestOK
  <2>3. \A d \in Closers : req[r].session \notin toClose'[d]
    BY <1>0, <2>1, <2>2 DEF RegisterOK
  <2>. QED BY <1>0, <2>1, <2>2, <2>3 DEF RegisterOK, Open
<1>4. ASSUME NEW r \in Requests
      PROVE  CreateOK(r)'
  <2>. SUFFICES ASSUME req'[r].pc = "create", ~req'[r].force, NEW s \in Sessions, Reusable(s)'
                PROVE  heap'[s].target # req'[r].target
    BY DEF CreateOK, NoneReusable
  <2>1. NoneReusable(req[r].target)
    BY DEF IInv, RequestOK, CreateOK, RequestKept
  <2>. QED BY <1>2, <2>1 DEF NoneReusable, RequestKept
<1>5. \A s \in Sessions : SessionOK(s)'
  BY SameCounts DEF IInv, SessionOK, Open
<1>6. PoolOK'
  <2>1. \A i, j \in PoolSlots : pool'[i] # NoSession /\ pool'[i] = pool'[j] => i = j
    BY <1>0 DEF IInv, PoolOK
  <2>2. \A s \in Pooled' : Open(s)'
    BY <1>0 DEF IInv, PoolOK, Open
  <2>. QED BY <1>0, <2>1, <2>2 DEF PoolOK
<1>7. CloseOK'
  <2>1. \A d \in Closers : \A s \in toClose'[d] : Open(s)' /\ s \notin Pooled'
    BY <1>0 DEF IInv, CloseOK, PoolOK, Open
  <2>2. \A d \in Closers : d # c => toClose'[c] \cap toClose'[d] = {}
    BY <1>0 DEF IInv, CloseOK
  <2>3. \A d, e \in Closers : d # e => toClose'[d] \cap toClose'[e] = {}
    BY <1>0, <2>2 DEF IInv, CloseOK
  <2>. QED BY <2>1, <2>3 DEF CloseOK
<1>8. OneConnectionPerTarget'
  BY <1>2 DEF IInv, OneConnectionPerTarget
<1>9. Located => Located'
  BY <1>0 DEF Located, Open, RequestKept
<1>. QED BY <1>1, <1>3, <1>4, <1>5, <1>6, <1>7, <1>8, <1>9 DEF IInv, RequestOK, OwnOK, Keeps

\* cleanupSessions(): the thread takes the idle sessions out of the pool, to close them.
LEMMA ReapStep ==
    ASSUME IInv, NEW r \in Requests, Reap(r)
    PROVE  Keeps
<1>0. /\ req[r].pc = "reap" /\ req'[r].pc = "closing" /\ req'[r].target = req[r].target
      /\ req'[r].session = req[r].session /\ req'[r].force = req[r].force
      /\ req'[r].outcome = req[r].outcome /\ req' \in [Requests -> RequestType]
      /\ \A q \in Requests \ {r} : req'[q] = req[q]
      /\ Collect(r, FALSE) /\ UNCHANGED <<heap, lock, appDone, crashed, events>>
  BY DEF Reap, At, GoTo, IInv, TypeOK, RequestType
<1>1. r \in Closers /\ FALSE \in BOOLEAN
  BY DEF Closers
<1>2. \A d \in Closers \ {r} : toClose'[d] = toClose[d]
  BY <1>0, <1>1, Collected
<1>3. ASSUME NEW q \in Requests
      PROVE  OwnOK(q)' /\ RequestKept(q) /\ StreamKept(q) /\ req'[q].session = req[q].session
  <2>1. CASE q = r
    <3>1. LockOK(r)' /\ ClosingOK(r)'
      BY <1>0 DEF IInv, RequestOK, LockOK, ClosingOK
    <3>2. SessionKnown(r)'
      BY <1>0 DEF IInv, RequestOK, SessionKnown, OnStream
    <3>3. RequestKept(r) /\ StreamKept(r)
      BY <1>0 DEF RequestKept, StreamKept, OnStream
    <3>. QED BY <1>0, <2>1, <3>1, <3>2, <3>3 DEF OwnOK
  <2>2. CASE q # r
    <3>1. req'[q] = req[q] /\ toClose'[q] = toClose[q]
      BY <1>0, <1>2, <2>2 DEF Closers
    <3>2. LockOK(q)' /\ ClosingOK(q)'
      BY <1>0, <3>1 DEF IInv, RequestOK, LockOK, ClosingOK, Key
    <3>3. SessionKnown(q)'
      BY <1>0, <3>1 DEF IInv, RequestOK, SessionKnown
    <3>4. RequestKept(q) /\ StreamKept(q)
      BY <3>1 DEF IInv, RequestOK, CreateOK, RequestKept, StreamKept
    <3>. QED BY <3>1, <3>2, <3>3, <3>4 DEF OwnOK
  <2>. QED BY <2>1, <2>2
<1>4. ~appDone
  BY <1>0 DEF IInv, ExitOK, AllDone
<1>5. ExitOK'
  BY <1>0, <1>2, <1>4, PoolAssumption DEF IInv, ExitOK, Closers
<1>6. appDone' \in BOOLEAN /\ toClose[r] = {}
  BY <1>0 DEF IInv, TypeOK, RequestOK, ClosingOK
<1>. QED BY <1>0, <1>1, <1>3, <1>5, <1>6, CollectStep

\* Nothing is in flight when no request runs: cleanupEnv() takes every session.
LEMMA CleanupEnvStep ==
    ASSUME IInv, CleanupEnv
    PROVE  Keeps
<1>0. /\ AllDone /\ ~appDone /\ Collect(App, TRUE) /\ appDone' = TRUE
      /\ UNCHANGED <<heap, lock, req, crashed, events>>
  BY DEF CleanupEnv
<1>1. App \in Closers /\ TRUE \in BOOLEAN
  BY DEF Closers
<1>2. /\ \A d \in Closers \ {App} : toClose'[d] = toClose[d]
      /\ toClose'[App] = {s \in Pooled : Reapable(s, TRUE)}
      /\ Pooled' = Pooled \ toClose'[App]
  BY <1>0, <1>1, Collected
<1>3. ASSUME NEW s \in Pooled
      PROVE  Reapable(s, TRUE)
  <2>1. s \in Sessions /\ Open(s)
    BY DEF IInv, TypeOK, Pooled, PoolOK
  <2>2. StreamsOn(s) = {}
    BY <1>0 DEF AllDone, StreamsOn, OnStream
  <2>. QED BY <2>1, <2>2, FS_EmptySet DEF IInv, SessionOK, Reapable
<1>4. ExitOK'
  BY <1>0, <1>2, <1>3 DEF ExitOK, AllDone
<1>5. ASSUME NEW r \in Requests
      PROVE  OwnOK(r)' /\ RequestKept(r) /\ StreamKept(r) /\ req'[r].session = req[r].session
  <2>1. toClose'[r] = toClose[r]
    BY <1>2, PoolAssumption DEF Closers
  <2>. QED BY <1>0, <2>1 DEF IInv, RequestOK, OwnOK, LockOK, SessionKnown, ClosingOK, RequestKept,
                             StreamKept, CreateOK, Key
<1>6. req' \in [Requests -> RequestType] /\ appDone' \in BOOLEAN /\ toClose[App] = {}
  BY <1>0 DEF IInv, TypeOK, ExitOK
<1>. QED BY <1>0, <1>1, <1>4, <1>5, <1>6, CollectStep

\* closeSession(): what is closed is in nobody else's hands.
LEMMA CloseStep ==
    ASSUME IInv, NEW c \in Closers, Close(c)
    PROVE  Keeps
<1>0. PICK s \in toClose[c] :
        /\ toClose' = [toClose EXCEPT ![c] = @ \ {s}]
        /\ heap' = [heap EXCEPT ![s] = Freed]
        /\ req' = EndAll(Awaiting(s), FailureOf(s))
        /\ UNCHANGED <<pool, sessionCount, lock, appDone, crashed, events>>
  BY DEF Close
<1>1. s \in Sessions /\ Open(s) /\ s \notin Pooled /\ Pooled' = Pooled
  BY <1>0 DEF IInv, TypeOK, CloseOK, Closers, Pooled
<1>2. /\ req' \in [Requests -> RequestType]
      /\ \A r \in Requests :
            /\ req'[r].pc = req[r].pc /\ req'[r].target = req[r].target
            /\ req'[r].force = req[r].force /\ req'[r].session = req[r].session
            /\ req'[r].outcome = req[r].outcome \/ req[r].pc = "await"
  BY <1>0, <1>1, FailureOfType, EndAllKeeps DEF IInv
<1>3. /\ heap' \in [Sessions -> SessionType]
      /\ heap'[s].life = "freed" /\ ~heap'[s].up
      /\ \A u \in Sessions \ {s} : heap'[u] = heap[u]
  <2>1. Freed \in SessionType /\ Freed.life = "freed" /\ ~Freed.up
    BY DEF Freed, Absent, SessionType
  <2>. QED BY <1>0, <1>1, <2>1 DEF IInv, TypeOK
<1>4. /\ toClose' \in [Closers -> SUBSET Sessions] /\ toClose'[c] = toClose[c] \ {s}
      /\ \A d \in Closers \ {c} : toClose'[d] = toClose[d]
      /\ \A d \in Closers : toClose'[d] \subseteq toClose[d] /\ s \notin toClose'[d]
  <2>1. \A d \in Closers \ {c} : s \notin toClose[d]
    BY <1>0 DEF IInv, CloseOK
  <2>. QED BY <1>0, <2>1 DEF IInv, TypeOK, Closers
<1>5. TypeOK'
  BY <1>0, <1>2, <1>3, <1>4 DEF IInv, TypeOK, Closers
<1>6. ASSUME NEW u \in Sessions, Reusable(u)'
      PROVE  Reusable(u) /\ u # s
  BY <1>1, <1>2, <1>3, <1>6 DEF Reusable
<1>7. ASSUME NEW r \in Requests
      PROVE  RequestOK(r)'
  <2>1. LockOK(r)'
    BY <1>0, <1>2 DEF IInv, RequestOK, LockOK, Key
  <2>2. SessionKnown(r)'
    BY <1>2, <1>3 DEF IInv, RequestOK, SessionKnown, OnStream
  <2>3. ClosingOK(r)'
    BY <1>2, <1>4 DEF IInv, RequestOK, ClosingOK, Closers
  <2>4. RegisterOK(r)'
    <3>. SUFFICES ASSUME req'[r].pc = "register"
                  PROVE  RegisterOK(r)'
      BY DEF RegisterOK
    <3>1. RegisterOK(r) /\ req[r].pc = "register" /\ req[r].session \in Sessions
      BY <1>2 DEF IInv, RequestOK, SessionKnown
    <3>2. req[r].session # s
      BY <1>0, <3>1 DEF RegisterOK
    <3>. QED BY <1>1, <1>2, <1>3, <1>4, <3>1, <3>2 DEF RegisterOK, Open
  <2>5. CreateOK(r)'
    BY <1>2, <1>3, <1>6 DEF IInv, RequestOK, CreateOK, NoneReusable
  <2>. QED BY <2>1, <2>2, <2>3, <2>4, <2>5 DEF RequestOK
<1>8. ASSUME NEW u \in Sessions
      PROVE  SessionOK(u)'
  <2>1. CASE u = s
    BY <1>3, <2>1 DEF SessionOK, Open
  <2>2. CASE u # s
    <3>1. StreamsOn(u)' = StreamsOn(u)
      BY <1>2 DEF StreamsOn
    <3>. QED BY <1>3, <2>2, <3>1 DEF IInv, SessionOK, Open
  <2>. QED BY <2>1, <2>2
<1>9. PoolOK'
  <2>1. \A u \in Pooled : u \in Sessions /\ u # s
    BY <1>1 DEF IInv, TypeOK, Pooled
  <2>. QED BY <1>0, <1>1, <1>3, <2>1 DEF IInv, PoolOK, Open
<1>10. CloseOK'
  BY <1>1, <1>3, <1>4 DEF IInv, CloseOK, Open
<1>11. ExitOK'
  BY <1>0, <1>1, <1>2, <1>4 DEF IInv, ExitOK, AllDone, Closers
<1>12. OneConnectionPerTarget'
  BY <1>3, <1>6 DEF IInv, OneConnectionPerTarget
<1>13. Located => Located'
  BY <1>1, <1>2, <1>3, <1>4 DEF Located, Open
<1>. QED BY <1>5, <1>7, <1>8, <1>9, <1>10, <1>11, <1>12, <1>13 DEF IInv, Keeps

-----------------------------------------------------------------------------
(* Making and registering a session                                         *)

\* The establish lock, and the search before it, leave the new connection the
\* only reusable one of its target.
LEMMA CreateSessionStep ==
    ASSUME IInv, NEW r \in Requests, CreateSession(r)
    PROVE  Keeps
<1>. DEFINE made == [Absent EXCEPT !.life = "open", !.up = TRUE, !.target = req[r].target,
                                   !.proto = IF NegotiatesH2(r) THEN "h2" ELSE "h1",
                                   !.reader = NegotiatesH2(r)]
<1>0. PICK s \in Sessions :
        /\ heap[s].life = "absent"
        /\ heap' = [heap EXCEPT ![s] = made]
        /\ req' = [req EXCEPT ![r].pc = "register", ![r].session = s]
  BY DEF CreateSession
<1>1. req[r].pc = "create" /\ UNCHANGED <<pool, sessionCount, lock, toClose, appDone, crashed, events>>
  BY DEF CreateSession, At
<1>2. /\ made \in SessionType /\ made.life = "open" /\ made.target = req[r].target
      /\ made.inflight = 0 /\ ~made.sockError
      /\ made.proto = "h2" => ~req[r].force
  <2>. DEFINE t == req[r].target
              h == NegotiatesH2(r)
              p == IF h THEN "h2" ELSE "h1"
              new == [Absent EXCEPT !.life = "open", !.up = TRUE, !.target = t, !.proto = p, !.reader = h]
  <2>1. made = new /\ t \in Targets \cup {NoTarget} /\ h \in BOOLEAN /\ p \in {"h2", "h1"}
    BY DEF IInv, TypeOK, RequestType, NegotiatesH2
  <2>2. p = "h2" => ~req[r].force
    BY DEF NegotiatesH2
  <2>. HIDE DEF t, h, p
  <2>3. new \in SessionType
    BY <2>1 DEF Absent, SessionType
  <2>4. new.life = "open" /\ new.target = t /\ new.inflight = 0 /\ new.proto = p /\ ~new.sockError
    BY <2>1 DEF Absent
  <2>. HIDE DEF made, new
  <2>. QED BY <2>1, <2>2, <2>3, <2>4 DEF t
<1>. HIDE DEF made
<1>3. /\ heap' \in [Sessions -> SessionType] /\ heap'[s] = made
      /\ \A u \in Sessions \ {s} : heap'[u] = heap[u]
  BY <1>0, <1>2 DEF IInv, TypeOK
<1>4. /\ req'[r].pc = "register" /\ req'[r].session = s /\ req'[r].target = req[r].target
      /\ req'[r].force = req[r].force
      /\ \A q \in Requests \ {r} : req'[q] = req[q]
  BY <1>0 DEF IInv, TypeOK, RequestType
<1>5. req' \in [Requests -> RequestType]
  <2>. DEFINE new == [req[r] EXCEPT !.pc = "register", !.session = s]
  <2>1. req \in [Requests -> RequestType]
    BY DEF IInv, TypeOK
  <2>2. new \in RequestType
    BY <2>1 DEF RequestType
  <2>3. req' = [req EXCEPT ![r] = new]
    BY <1>0, <2>1 DEF RequestType
  <2>. HIDE DEF new
  <2>. QED BY <2>1, <2>2, <2>3
<1>6. TypeOK'
  BY <1>1, <1>3, <1>5 DEF IInv, TypeOK
<1>7. /\ Pooled' = Pooled /\ s \notin Pooled
      /\ \A c \in Closers : s \notin toClose[c]
      /\ \A q \in Requests : req[q].session # s
  <2>1. Pooled' = Pooled
    BY <1>1 DEF Pooled
  <2>. QED BY <1>0, <2>1 DEF IInv, PoolOK, CloseOK, RequestOK, SessionKnown, Open
<1>8. ASSUME NEW u \in Sessions, u # s, Reusable(u)'
      PROVE  Reusable(u)
  BY <1>3, <1>4, <1>7, <1>8 DEF Reusable
<1>9. Reusable(s)' => ~req[r].force /\ NoneReusable(req[r].target)
  BY <1>1, <1>2, <1>3 DEF IInv, RequestOK, CreateOK, Reusable
<1>10. ASSUME NEW q \in Requests
       PROVE  RequestOK(q)'
  <2>1. CASE q = r
    <3>1. LockOK(r)' /\ ClosingOK(r)'
      BY <1>1, <1>4 DEF IInv, RequestOK, LockOK, ClosingOK, Key
    <3>2. SessionKnown(r)'
      BY <1>2, <1>3, <1>4 DEF SessionKnown, OnStream
    <3>3. RegisterOK(r)'
      BY <1>1, <1>2, <1>3, <1>4, <1>7 DEF RegisterOK, Open
    <3>4. CreateOK(r)'
      BY <1>4 DEF CreateOK
    <3>. QED BY <2>1, <3>1, <3>2, <3>3, <3>4 DEF RequestOK
  <2>2. CASE q # r
    <3>1. req'[q] = req[q]
      BY <1>4, <2>2
    <3>2. LockOK(q)' /\ ClosingOK(q)'
      BY <1>1, <3>1 DEF IInv, RequestOK, LockOK, ClosingOK, Key
    <3>3. SessionKnown(q)'
      BY <1>3, <1>7, <3>1 DEF IInv, RequestOK, SessionKnown
    <3>4. RegisterOK(q)'
      <4>. SUFFICES ASSUME req'[q].pc = "register"
                    PROVE  RegisterOK(q)'
        BY DEF RegisterOK
      <4>1. RegisterOK(q) /\ req[q].pc = "register" /\ req[q].session \in Sessions /\ req[q].session # s
        BY <1>7, <3>1 DEF IInv, RequestOK, SessionKnown
      <4>2. \A p \in Requests : req'[p].session = req[q].session => p = q
        BY <1>4, <4>1 DEF RegisterOK
      <4>. QED BY <1>1, <1>3, <1>7, <3>1, <4>1, <4>2 DEF RegisterOK, Open
    <3>5. CreateOK(q)'
      <4>. SUFFICES ASSUME req[q].pc = "create", ~req[q].force, NEW u \in Sessions, Reusable(u)'
                    PROVE  heap'[u].target # req[q].target
        BY <3>1 DEF CreateOK, NoneReusable
      <4>1. CASE u # s
        BY <1>3, <1>8, <4>1 DEF IInv, RequestOK, CreateOK, NoneReusable
      <4>2. CASE u = s
        <5>1. lock[Key(q)] = q /\ lock[Key(r)] = r
          BY <1>1 DEF IInv, RequestOK, LockOK
        <5>2. req[q].force = FALSE /\ req[r].force = FALSE
          BY <1>9, <4>2 DEF IInv, TypeOK, RequestType
        <5>. QED BY <1>2, <1>3, <2>2, <4>2, <5>1, <5>2 DEF Key
      <4>. QED BY <4>1, <4>2
    <3>. QED BY <3>2, <3>3, <3>4, <3>5 DEF RequestOK
  <2>. QED BY <2>1, <2>2
<1>11. ASSUME NEW u \in Sessions
       PROVE  SessionOK(u)'
  <2>1. CASE u = s
    <3>1. StreamsOn(s)' = {}
      BY <1>4, <1>7 DEF StreamsOn, OnStream
    <3>. QED BY <1>2, <1>3, <2>1, <3>1, FS_EmptySet DEF SessionOK
  <2>2. CASE u # s
    <3>1. StreamsOn(u)' = StreamsOn(u)
      BY <1>1, <1>4, <2>2 DEF StreamsOn, OnStream
    <3>. QED BY <1>3, <2>2, <3>1 DEF IInv, SessionOK, Open
  <2>. QED BY <2>1, <2>2
<1>12. PoolOK'
  <2>1. \A u \in Pooled : u \in Sessions \ {s}
    BY <1>7 DEF IInv, TypeOK, Pooled
  <2>. QED BY <1>1, <1>3, <1>7, <2>1 DEF IInv, PoolOK, Open
<1>13. CloseOK'
  <2>1. \A c \in Closers : toClose[c] \subseteq Sessions \ {s}
    BY <1>7 DEF IInv, TypeOK, Closers
  <2>. QED BY <1>1, <1>3, <1>7, <2>1 DEF IInv, CloseOK, Open
<1>14. ExitOK'
  BY <1>1 DEF IInv, ExitOK, AllDone
<1>15. OneConnectionPerTarget'
  <2>1. ASSUME NEW u \in Sessions, u # s, Reusable(u)', Reusable(s)', heap'[u].target = heap'[s].target
        PROVE  FALSE
    BY <1>2, <1>3, <1>8, <1>9, <2>1 DEF NoneReusable
  <2>. QED BY <1>3, <1>8, <2>1 DEF IInv, OneConnectionPerTarget
<1>16. Located => Located'
  BY <1>1, <1>3, <1>4, <1>7 DEF Located, Open
<1>. QED BY <1>6, <1>10, <1>11, <1>12, <1>13, <1>14, <1>15, <1>16 DEF IInv, Keeps

\* No more sessions are pooled than there are slots.
LEMMA PooledFits ==
    ASSUME NEW p \in [PoolSlots -> Sessions \cup {NoSession}]
    PROVE  LET held == {p[i] : i \in PoolSlots} \ {NoSession}
           IN  IsFiniteSet(held) /\ Cardinality(held) \in 0 .. PoolSize
<1>. DEFINE image == {p[i] : i \in PoolSlots}
            held == image \ {NoSession}
<1>1. IsFiniteSet(PoolSlots) /\ Cardinality(PoolSlots) = PoolSize
  BY PoolAssumption, FS_Interval DEF PoolSlots
<1>2. p \in Surjection(PoolSlots, image)
  BY DEF Surjection
<1>. HIDE DEF image
<1>3. IsFiniteSet(image) /\ Cardinality(image) <= PoolSize
  BY <1>1, <1>2, FS_Surjection
<1>4. held \in SUBSET image
  OBVIOUS
<1>5. IsFiniteSet(held) /\ Cardinality(held) <= Cardinality(image)
  BY <1>3, <1>4, FS_Subset
<1>6. Cardinality(held) \in 0 .. PoolSize
  BY <1>3, <1>5, FS_CardinalityType, PoolAssumption
<1>. QED BY <1>5, <1>6 DEF image

\* registerSession(): the session takes a free slot, or stays out of the pool.
LEMMA RegisterSessionStep ==
    ASSUME IInv, NEW r \in Requests, RegisterSession(r)
    PROVE  Keeps
<1>. DEFINE s == req[r].session
            free == {i \in PoolSlots : pool[i] = NoSession}
<1>0. /\ req[r].pc = "register" /\ req'[r].pc = "unlock" /\ req'[r].target = req[r].target
      /\ req'[r].session = s /\ req'[r].force = req[r].force
      /\ req' \in [Requests -> RequestType]
      /\ \A q \in Requests \ {r} : req'[q] = req[q]
      /\ UNCHANGED <<lock, toClose, appDone, crashed, events>>
  BY DEF RegisterSession, At, GoTo, IInv, TypeOK, RequestType
<1>1. /\ s \in Sessions /\ s # NoSession /\ Open(s) /\ s \notin Pooled
      /\ \A c \in Closers : s \notin toClose[c]
      /\ \A q \in Requests : req[q].session = s => q = r
  BY <1>0, PoolAssumption DEF IInv, RequestOK, SessionKnown, RegisterOK, Sessions
<1>2. CASE free = {} /\ heap' = [heap EXCEPT ![s].unpooled = TRUE] /\ UNCHANGED <<pool, sessionCount>>
  <2>1. LockOK(r)' /\ ClosingOK(r)'
    BY <1>0 DEF IInv, RequestOK, LockOK, ClosingOK, Key
  <2>2. /\ heap' \in [Sessions -> SessionType] /\ HeapKept /\ heap'[s].unpooled
        /\ \A u \in Sessions : heap'[u].inflight = heap[u].inflight
    <3>. DEFINE old == heap[s]
                new == [old EXCEPT !.unpooled = TRUE]
    <3>1. heap \in [Sessions -> SessionType] /\ old \in SessionType /\ (old.up => ~old.sockError)
      BY <1>1 DEF IInv, TypeOK, SessionOK
    <3>2. heap' = [heap EXCEPT ![s] = new]
      BY <1>1, <1>2, <3>1 DEF SessionType
    <3>. HIDE DEF old
    <3>3. new \in SessionType
      BY <3>1 DEF SessionType
    <3>4. /\ new.unpooled /\ new.life = old.life /\ new.target = old.target /\ new.proto = old.proto
          /\ new.inflight = old.inflight /\ new.up = old.up /\ new.sockError = old.sockError
          /\ new.goingAway = old.goingAway
      BY <3>1 DEF SessionType
    <3>. HIDE DEF new
    <3>. QED BY <1>1, <3>1, <3>2, <3>3, <3>4, OneSessionChanges DEF old
  <2>3. SessionKnown(r)'
    BY <1>0, <1>1, <2>2 DEF SessionKnown, OnStream, HeapKept, Open
  <2>4. RequestKept(r) /\ StreamKept(r)
    BY <1>0, <2>2 DEF RequestKept, StreamKept, OnStream
  <2>6. \A u \in Sessions : Open(u) => heap'[u].inflight = Cardinality(StreamsOn(u)')
    BY <1>0, <2>2, <2>4, SameStreams
  <2>. QED BY <1>0, <1>2, <2>1, <2>2, <2>3, <2>4, <2>6, OneRequestMoves DEF OwnOK
<1>3. ASSUME NEW i \in free, pool' = [pool EXCEPT ![i] = s], sessionCount' = sessionCount + 1,
             heap' = [heap EXCEPT ![s].stale = FALSE]
      PROVE  Keeps
  <2>1. /\ heap' \in [Sessions -> SessionType] /\ HeapKept
        /\ \A u \in Sessions : heap'[u].inflight = heap[u].inflight
    <3>. DEFINE old == heap[s]
                new == [old EXCEPT !.stale = FALSE]
    <3>1. heap \in [Sessions -> SessionType] /\ old \in SessionType /\ (old.up => ~old.sockError)
      BY <1>1 DEF IInv, TypeOK, SessionOK
    <3>2. heap' = [heap EXCEPT ![s] = new]
      BY <1>1, <1>3, <3>1 DEF SessionType
    <3>. HIDE DEF old
    <3>3. new \in SessionType
      BY <3>1 DEF SessionType
    <3>4. /\ new.unpooled = old.unpooled /\ new.life = old.life /\ new.target = old.target /\ new.proto = old.proto
          /\ new.inflight = old.inflight /\ new.up = old.up /\ new.sockError = old.sockError
          /\ new.goingAway = old.goingAway
      BY <3>1 DEF SessionType
    <3>. HIDE DEF new
    <3>. QED BY <1>1, <3>1, <3>2, <3>3, <3>4, OneSessionChanges DEF old
  <2>2. /\ pool' \in [PoolSlots -> Sessions \cup {NoSession}] /\ i \in PoolSlots /\ pool'[i] = s
        /\ pool[i] = NoSession /\ \A j \in PoolSlots \ {i} : pool'[j] = pool[j]
    BY <1>1, <1>3 DEF IInv, TypeOK
  <2>. HIDE DEF s, free
  <2>3. Pooled' = Pooled \cup {s}
    <3>1. Pooled' \subseteq Pooled \cup {s}
      BY <2>2 DEF Pooled
    <3>2. s \in Pooled'
      BY <1>1, <2>2 DEF Pooled
    <3>3. Pooled \subseteq Pooled'
      <4>. SUFFICES ASSUME NEW j \in PoolSlots, pool[j] # NoSession
                    PROVE  pool[j] \in Pooled'
        BY DEF Pooled
      <4>. QED BY <2>2 DEF Pooled
    <3>. QED BY <3>1, <3>2, <3>3
  <2>4. sessionCount' = Cardinality(Pooled') /\ sessionCount' \in 0 .. PoolSize
    <3>1. IsFiniteSet(Pooled)
      BY PooledFits DEF IInv, TypeOK, Pooled
    <3>2. Cardinality(Pooled') = Cardinality(Pooled) + 1
      BY <1>1, <2>3, <3>1, FS_AddElement
    <3>3. Cardinality(Pooled') \in 0 .. PoolSize
      BY <2>2, PooledFits DEF Pooled
    <3>. QED BY <1>3, <3>2, <3>3 DEF IInv, PoolOK
  <2>5. TypeOK'
    BY <1>0, <2>1, <2>2, <2>4 DEF IInv, TypeOK
  <2>6. ASSUME NEW u \in Sessions, Reusable(u)'
        PROVE  Reusable(u)
    <3>1. /\ u \in Pooled \/ u = s \/ \E q \in Requests : req'[q].pc = "register" /\ req'[q].session = u
          /\ heap[u].up /\ ~heap[u].goingAway /\ heap[u].proto = "h2"
      BY <2>1, <2>3, <2>6 DEF Reusable, HeapKept
    <3>. QED BY <1>0, <3>1 DEF Reusable, s
  <2>7. ASSUME NEW q \in Requests
        PROVE  RequestOK(q)'
    <3>1. LockOK(q)' /\ ClosingOK(q)'
      BY <1>0 DEF IInv, RequestOK, LockOK, ClosingOK, Key
    <3>2. SessionKnown(q)'
      BY <1>0, <1>1, <2>1 DEF IInv, RequestOK, SessionKnown, OnStream, HeapKept, s
    <3>3. RegisterOK(q)'
      <4>. SUFFICES ASSUME req'[q].pc = "register"
                    PROVE  RegisterOK(q)'
        BY DEF RegisterOK
      <4>1. q # r /\ req'[q] = req[q]
        BY <1>0
      <4>2. RegisterOK(q) /\ req[q].pc = "register" /\ req[q].session \in Sessions /\ req[q].session # s
        BY <1>1, <4>1 DEF IInv, RequestOK, SessionKnown
      <4>3. \A p \in Requests : req'[p].session = req[q].session => p = q
        BY <1>0, <4>2 DEF RegisterOK
      <4>. QED BY <1>0, <2>1, <2>3, <4>1, <4>2, <4>3 DEF RegisterOK, Open, HeapKept
    <3>4. CreateOK(q)'
      <4>. SUFFICES ASSUME req'[q].pc = "create", ~req'[q].force, NEW u \in Sessions, Reusable(u)'
                    PROVE  heap'[u].target # req'[q].target
        BY DEF CreateOK, NoneReusable
      <4>1. req'[q] = req[q]
        BY <1>0
      <4>2. NoneReusable(req[q].target)
        BY <4>1 DEF IInv, RequestOK, CreateOK
      <4>. QED BY <2>1, <2>6, <4>1, <4>2 DEF NoneReusable, HeapKept
    <3>. QED BY <3>1, <3>2, <3>3, <3>4 DEF RequestOK
  <2>8. ASSUME NEW u \in Sessions
        PROVE  SessionOK(u)'
    <3>1. StreamsOn(u)' = StreamsOn(u)
      BY <1>0 DEF StreamsOn, OnStream
    <3>. QED BY <2>1, <3>1 DEF IInv, SessionOK, Open, HeapKept
  <2>9. PoolOK'
    <3>1. \A j \in PoolSlots : pool[j] # s
      BY <1>1 DEF Pooled
    <3>2. \A j, k \in PoolSlots : pool'[j] # NoSession /\ pool'[j] = pool'[k] => j = k
      BY <2>2, <3>1 DEF IInv, PoolOK
    <3>3. Pooled \subseteq Sessions
      BY DEF IInv, TypeOK, Pooled
    <3>4. \A u \in Pooled' : Open(u)'
      BY <1>1, <2>1, <2>3, <3>3 DEF IInv, PoolOK, Open, HeapKept
    <3>. QED BY <2>4, <3>2, <3>4 DEF PoolOK
  <2>10. CloseOK'
    <3>1. \A c \in Closers : toClose[c] \subseteq Sessions
      BY DEF IInv, TypeOK, Closers
    <3>. QED BY <1>0, <1>1, <2>1, <2>3, <3>1 DEF IInv, CloseOK, Open, HeapKept
  <2>11. ExitOK'
    BY <1>0 DEF IInv, ExitOK, AllDone
  <2>12. OneConnectionPerTarget'
    BY <2>1, <2>6 DEF IInv, OneConnectionPerTarget, HeapKept
  <2>13. Located => Located'
    <3>1. \A q \in Requests : req[q].pc = "register" /\ q # r => req'[q].pc = "register" /\ req'[q].session = req[q].session
      BY <1>0
    <3>. QED BY <1>0, <2>1, <2>3, <3>1 DEF Located, Open, HeapKept, s
  <2>. QED BY <2>5, <2>7, <2>8, <2>9, <2>10, <2>11, <2>12, <2>13 DEF IInv, Keeps
<1>. QED BY <1>2, <1>3 DEF RegisterSession

-----------------------------------------------------------------------------
(* The theorems                                                             *)

\* At the start the pool and the heap are empty.
LEMMA InitHolds ==
    ASSUME Init
    PROVE  IInv /\ Located
<1>0. PICK idle \in 0 .. MaxIdle, t \in Targets :
          /\ heap = [s \in Sessions |-> IF s <= idle THEN Idle(t) ELSE Absent]
          /\ pool = [i \in PoolSlots |-> IF i <= idle THEN i ELSE NoSession]
          /\ sessionCount = idle
  BY DEF Init
<1>. DEFINE first == 1 .. idle
<1>1. idle \in Nat /\ idle <= NumSessions /\ idle <= PoolSize
  BY PoolAssumption
<1>2. first \subseteq Sessions /\ \A i \in PoolSlots : i <= idle <=> i \in first
  BY <1>1, PoolAssumption DEF Sessions, PoolSlots
<1>3. /\ Absent \in SessionType /\ Idle(t) \in SessionType
      /\ Absent.life = "absent" /\ Absent.proto = "h2" /\ ~Absent.up
      /\ Idle(t).life = "open" /\ Idle(t).proto = "h1" /\ ~Idle(t).sockError /\ Idle(t).inflight = 0
  BY DEF Absent, Idle, SessionType
<1>4. \A r \in Requests : req[r].pc = "start" /\ req[r].session = NoSession
  BY DEF Init, NewRequest
<1>5. TypeOK
  <2>1. NewRequest \in RequestType
    BY DEF NewRequest, RequestType
  <2>2. heap \in [Sessions -> SessionType] /\ req \in [Requests -> RequestType]
    BY <1>0, <1>3, <2>1 DEF Init
  <2>3. pool \in [PoolSlots -> Sessions \cup {NoSession}]
    BY <1>0, <1>2
  <2>4. lock \in [LockKeys -> Requests \cup {NoRequest}] /\ toClose \in [Requests \cup {App} -> SUBSET Sessions]
    BY DEF Init
  <2>5. sessionCount \in 0 .. PoolSize /\ events \in 0 .. MaxEvents
    BY <1>0, <1>1, PoolAssumption DEF Init
  <2>. QED BY <2>2, <2>3, <2>4, <2>5 DEF TypeOK, Init
<1>6. \A s \in Sessions : Open(s) <=> s \in first
  <2>. SUFFICES ASSUME NEW s \in Sessions
                PROVE  Open(s) <=> s \in first
    OBVIOUS
  <2>1. s <= idle <=> s \in first
    BY <1>1, PoolAssumption DEF Sessions
  <2>. QED BY <1>0, <1>3, <2>1 DEF Open
<1>7. Pooled = first
  <2>1. Pooled \subseteq first
    BY <1>0, <1>2 DEF Pooled
  <2>2. first \subseteq Pooled
    <3>. SUFFICES ASSUME NEW i \in first
                  PROVE  i \in Pooled
      OBVIOUS
    <3>1. i \in PoolSlots /\ i \in Sessions
      BY <1>1, <1>2, PoolAssumption DEF PoolSlots
    <3>2. pool[i] = i /\ i # NoSession
      BY <1>0, <1>2, <3>1, PoolAssumption DEF Sessions
    <3>. QED BY <3>1, <3>2 DEF Pooled
  <2>. QED BY <2>1, <2>2
<1>8. \A r \in Requests : RequestOK(r)
  BY <1>4, PoolAssumption DEF Init, RequestOK, LockOK, SessionKnown, RegisterOK, CreateOK, ClosingOK, OnStream, Sessions
<1>9. \A s \in Sessions : heap[s].proto = "h2" => ~heap[s].up
  BY <1>0, <1>3
<1>10. ASSUME NEW s \in Sessions
       PROVE  SessionOK(s)
  <2>1. StreamsOn(s) = {}
    BY <1>4 DEF StreamsOn, OnStream
  <2>. QED BY <1>0, <1>3, <2>1, FS_EmptySet DEF SessionOK, Open
<1>11. PoolOK
  <2>1. Cardinality(first) = idle
    BY <1>1, FS_Interval
  <2>2. \A i, j \in PoolSlots : pool[i] # NoSession /\ pool[i] = pool[j] => i = j
    BY <1>0
  <2>. QED BY <1>0, <1>2, <1>6, <1>7, <2>1, <2>2 DEF PoolOK
<1>12. CloseOK /\ ExitOK
  BY DEF Init, CloseOK, ExitOK, Closers
<1>13. OneConnectionPerTarget
  BY <1>9 DEF OneConnectionPerTarget, Reusable
<1>14. Located
  BY <1>6, <1>7 DEF Located
<1>. QED BY <1>5, <1>8, <1>10, <1>11, <1>12, <1>13, <1>14 DEF IInv

\* One step for each action.
LEMMA NextHolds ==
    ASSUME IInv, [Next]_vars
    PROVE  Keeps
<1>1. ASSUME NEW r \in Requests, NEW t \in Targets, NEW force \in BOOLEAN, Start(r, t, force)
      PROVE  Keeps
  BY <1>1, StartStep
<1>2. ASSUME NEW r \in Requests, RequestStep(r)
      PROVE  Keeps
  <2>1. CASE Reap(r) \/ (CloseReaped(r))
    BY <2>1, ReapStep, CloseStep DEF CloseReaped, Closers
  <2>2. CASE AcquireEstablishLock(r) \/ FindSession(r) \/ ReleaseEstablishLock(r)
    BY <2>2, AcquireEstablishLockStep, FindSessionStep, ReleaseEstablishLockStep
  <2>3. CASE CreateSession(r) \/ CreateFails(r) \/ CreateFailsAtProxy(r) \/ RegisterSession(r)
    BY <2>3, CreateSessionStep, CreateFailsStep, CreateFailsAtProxyStep, RegisterSessionStep
  <2>4. CASE RegisterStream(r) \/ NoFreeStream(r) \/ UnregisterStream(r)
    BY <2>4, RegisterStreamStep, NoFreeStreamStep, UnregisterStreamStep
  <2>5. CASE BeginHttp11Exchange(r) \/ Http11Incomplete(r) \/ PrepareRetry(r) \/ Report(r)
    BY <2>5, BeginHttp11ExchangeStep, Http11IncompleteStep, PrepareRetryStep, ReportStep
  <2>6. CASE \E single \in BOOLEAN : Http11Complete(r, single)
    BY <2>6, Http11CompleteStep
  <2>7. CASE \E outcome \in {"ok", "error"} : EndHttp2Exchange(r, outcome)
    BY <2>7, EndHttp2ExchangeStep
  <2>. QED BY <1>2, <2>1, <2>2, <2>3, <2>4, <2>5, <2>6, <2>7 DEF RequestStep, LocalStep, ExchangeEnds
<1>3. ASSUME NEW s \in Sessions, Environment(s) \/ ReaderSeesEnd(s)
      PROVE  Keeps
  BY <1>3, EnvironmentStep, ReaderSeesEndStep
<1>4. CASE CleanupEnv
  BY <1>4, CleanupEnvStep
<1>5. CASE CloseAtExit
  BY <1>5, CloseStep DEF CloseAtExit, Closers
<1>6. CASE UNCHANGED vars
  <2>1. UNCHANGED <<heap, pool, sessionCount, lock, req, toClose, appDone, crashed, events>>
    BY <1>6 DEF vars
  <2>2. events' \in 0 .. MaxEvents
    BY <2>1 DEF IInv, TypeOK
  <2>. QED BY <2>1, <2>2, HeapSame, RequestsSame, OutsideStep
<1>. QED BY <1>1, <1>2, <1>3, <1>4, <1>5, <1>6 DEF Next

(* The inductive invariant: reaped sessions are in one thread's hands,      *)
(* requests between search and unlock hold their establish lock, streams    *)
(* are counted.                                                             *)
THEOREM Invariance == Spec => []IInv
<1>1. Init => IInv
  BY InitHolds
<1>2. IInv /\ [Next]_vars => IInv'
  BY NextHolds DEF Keeps
<1>. QED BY <1>1, <1>2, PTL DEF Spec

(* Every variable keeps its range: pool.sessionCount never leaves           *)
(* 0 .. MAX_SESSIONS, and no count of streams goes below zero.              *)
THEOREM TypeCorrect == Spec => []TypeOK
<1>1. IInv => TypeOK
  BY DEF IInv
<1>. QED BY <1>1, Invariance, PTL

(* handleSession(): concurrent requests share one HTTP/2 connection per     *)
(* target, whatever peers, clocks and reapers do in between.                *)
THEOREM SharesConnection == Spec => []OneConnectionPerTarget
<1>1. IInv => OneConnectionPerTarget
  BY DEF IInv
<1>. QED BY <1>1, Invariance, PTL

(* cleanupSessions(): no session is closed twice or left in the pool when   *)
(* it is closed, and pool.sessionCount is the number of sessions pooled.    *)
THEOREM ClosedByOne == Spec => []ReapedOnce
<1>1. ASSUME IInv
      PROVE  ReapedOnce
  <2>1. ASSUME NEW s \in Pooled
        PROVE  Open(s) /\ Cardinality({i \in PoolSlots : pool[i] = s}) = 1
    <3>1. PICK i \in PoolSlots : pool[i] = s /\ s # NoSession
      BY DEF Pooled
    <3>2. {j \in PoolSlots : pool[j] = s} = {i}
      BY <1>1, <3>1 DEF IInv, PoolOK
    <3>. QED BY <1>1, <3>2, FS_Singleton DEF IInv, PoolOK
  <2>. QED BY <1>1, <2>1 DEF IInv, PoolOK, CloseOK, ReapedOnce, Closers
<1>. QED BY <1>1, Invariance, PTL

(* cleanupEnv(): however many connections a process opens and however small *)
(* the pool is, the shutdown closes every connection that was ever in the   *)
(* pool; what stays open is what registerSession() found no slot for.       *)
THEOREM CleanupClosesPooled == Spec => []CleanupLeavesNothing
<1>1. Init => IInv /\ Located
  BY InitHolds
<1>2. IInv /\ Located /\ [Next]_vars => IInv' /\ Located'
  BY NextHolds DEF Keeps
<1>3. IInv /\ Located => CleanupLeavesNothing
  <2>. SUFFICES ASSUME IInv, Located, appDone, toClose[App] = {}, NEW s \in Sessions, Open(s)
                PROVE  heap[s].unpooled
    BY DEF CleanupLeavesNothing, Finished
  <2>1. \A r \in Requests : req[r].pc = "done"
    BY DEF IInv, ExitOK, AllDone
  <2>2. \A c \in Closers : toClose[c] = {}
    BY <2>1 DEF IInv, RequestOK, ClosingOK, Closers
  <2>. QED BY <2>1, <2>2 DEF IInv, ExitOK, Located
<1>. QED BY <1>1, <1>2, <1>3, PTL DEF Spec

-----------------------------------------------------------------------------
(* The pool and the promise of the establish locks                          *)

\* A request that is outside stays outside, one that waits or is inside goes on so,
\* for the key it has asked for.
Unmoved(r) ==
    /\ SectionPhase(r)' = SectionPhase(r)
    /\ SectionPhase(r) # "outside" => Key(r)' = Key(r)

\* A step that moves nobody in or out is none of the locks.
LEMMA NobodyMoves ==
    ASSUME \A r \in Requests : Unmoved(r)
    PROVE  UNCHANGED Locking!vars
<1>1. \A r \in Requests : SectionPhase(r)' = SectionPhase(r) /\ SectionKey(r)' = SectionKey(r)
  BY DEF Unmoved, SectionKey
<1>. QED BY <1>1 DEF Locking!vars

\* What ends the waits of requests moves nobody.
LEMMA EndAllMovesNobody ==
    ASSUME TypeOK, NEW rs, NEW o, req' = EndAll(rs, o)
    PROVE  \A r \in Requests : Unmoved(r)
<1>1. \A r \in Requests : req'[r].pc = req[r].pc /\ req'[r].target = req[r].target /\ req'[r].force = req[r].force
  BY DEF TypeOK, EndAll, RequestType
<1>. QED BY <1>1 DEF Unmoved, SectionPhase, Key

\* The same for a step that leaves the requests alone.
LEMMA SameRequestsMoveNobody ==
    ASSUME UNCHANGED req
    PROVE  \A r \in Requests : Unmoved(r)
BY DEF Unmoved, SectionPhase, Key

\* One request moves, and it is outside before and after.
LEMMA MovesOutside ==
    ASSUME NEW r \in Requests, \A q \in Requests \ {r} : req'[q] = req[q],
           SectionPhase(r) = "outside", SectionPhase(r)' = "outside"
    PROVE  UNCHANGED Locking!vars
<1>1. \A q \in Requests \ {r} : Unmoved(q)
  BY DEF Unmoved, SectionPhase, Key
<1>. QED BY <1>1, NobodyMoves DEF Unmoved

\* One request moves, and it is inside before and after, under the same key.
LEMMA MovesInside ==
    ASSUME NEW r \in Requests, \A q \in Requests \ {r} : req'[q] = req[q],
           SectionPhase(r) = "inside", SectionPhase(r)' = "inside", Key(r)' = Key(r)
    PROVE  UNCHANGED Locking!vars
<1>1. \A q \in Requests \ {r} : Unmoved(q)
  BY DEF Unmoved, SectionPhase, Key
<1>. QED BY <1>1, NobodyMoves DEF Unmoved

\* A step on the session, undefined or not, is outside the section.
LEMMA StreamStepsOutside ==
    ASSUME TypeOK, NEW r \in Requests,
           \/ \E t \in Targets, force \in BOOLEAN : Start(r, t, force)
           \/ RegisterStream(r) \/ NoFreeStream(r) \/ BeginHttp11Exchange(r) \/ Http11Incomplete(r)
           \/ \E single \in BOOLEAN : Http11Complete(r, single)
           \/ \E outcome \in {"ok", "error"} : EndHttp2Exchange(r, outcome)
           \/ UnregisterStream(r) \/ PrepareRetry(r) \/ Report(r)
    PROVE  UNCHANGED Locking!vars
<1>. DEFINE out == {"start", "reap", "stream", "queue", "exchange", "await", "retry", "report", "done"}
<1>0. req \in [Requests -> RequestType]
  BY DEF TypeOK
<1>1. ASSUME req[r].pc \in out, req'[r].pc \in out, \A q \in Requests \ {r} : req'[q] = req[q]
      PROVE  UNCHANGED Locking!vars
  BY <1>1, MovesOutside DEF SectionPhase
<1>2. CASE UNCHANGED req
  BY <1>2, SameRequestsMoveNobody, NobodyMoves
<1>3. CASE \E t \in Targets, force \in BOOLEAN : Start(r, t, force)
  <2>1. PICK t \in Targets, force \in BOOLEAN :
            req' = [req EXCEPT ![r].pc = "reap", ![r].target = t, ![r].force = force]
    BY <1>3 DEF Start
  <2>2. req[r].pc = "start"
    BY <1>3 DEF Start, At
  <2>3. req'[r].pc = "reap" /\ \A q \in Requests \ {r} : req'[q] = req[q]
    BY <1>0, <2>1 DEF RequestType
  <2>. QED BY <1>1, <2>2, <2>3
<1>4. CASE RegisterStream(r)
  BY <1>0, <1>1, <1>2, <1>4 DEF RegisterStream, At, GoTo, Touch, RequestType
<1>5. CASE NoFreeStream(r)
  BY <1>0, <1>1, <1>2, <1>5 DEF NoFreeStream, At, Touch, RequestType
<1>6. CASE BeginHttp11Exchange(r)
  BY <1>0, <1>1, <1>2, <1>6 DEF BeginHttp11Exchange, At, GoTo, Touch, RequestType
<1>7. CASE Http11Incomplete(r)
  BY <1>0, <1>1, <1>2, <1>7 DEF Http11Incomplete, At, Touch, RequestType
<1>8. CASE \E single \in BOOLEAN : Http11Complete(r, single)
  BY <1>0, <1>1, <1>2, <1>8 DEF Http11Complete, At, Touch, RequestType
<1>9. CASE \E outcome \in {"ok", "error"} : EndHttp2Exchange(r, outcome)
  BY <1>0, <1>1, <1>9 DEF EndHttp2Exchange, At, RequestType
<1>10. CASE UnregisterStream(r)
  BY <1>0, <1>1, <1>2, <1>10 DEF UnregisterStream, At, GoTo, Touch, RequestType
<1>11. CASE PrepareRetry(r)
  BY <1>0, <1>1, <1>2, <1>11 DEF PrepareRetry, At, Touch, RequestType
<1>12. CASE Report(r)
  BY <1>0, <1>1, <1>2, <1>12 DEF Report, At, Touch, Reported, NewRequest, RequestType
<1>. QED BY <1>3, <1>4, <1>5, <1>6, <1>7, <1>8, <1>9, <1>10, <1>11, <1>12

\* Find-or-create stays inside the section, under the key it was entered for.
LEMMA FindOrCreateInside ==
    ASSUME TypeOK, NEW r \in Requests,
           \/ FindSession(r) \/ CreateSession(r) \/ CreateFails(r) \/ CreateFailsAtProxy(r)
           \/ RegisterSession(r)
    PROVE  UNCHANGED Locking!vars
<1>. DEFINE in == {"find", "create", "register", "unlock"}
<1>0. req \in [Requests -> RequestType]
  BY DEF TypeOK
<1>1. ASSUME req[r].pc \in in, req'[r].pc \in in, \A q \in Requests \ {r} : req'[q] = req[q],
             req'[r].target = req[r].target, req'[r].force = req[r].force
      PROVE  UNCHANGED Locking!vars
  BY <1>1, MovesInside DEF SectionPhase, Key
<1>2. CASE FindSession(r)
  <2>1. /\ req[r].pc = "find"
        /\ \/ req' = [req EXCEPT ![r].pc = "create"]
           \/ \E s : req' = [req EXCEPT ![r].pc = "unlock", ![r].session = s]
    BY <1>2 DEF FindSession, At, GoTo
  <2>. QED BY <1>0, <1>1, <2>1 DEF RequestType
<1>3. CASE CreateSession(r)
  <2>1. /\ req[r].pc = "create"
        /\ \E s : req' = [req EXCEPT ![r].pc = "register", ![r].session = s]
    BY <1>3 DEF CreateSession, At
  <2>. QED BY <1>0, <1>1, <2>1 DEF RequestType
<1>4. CASE CreateFails(r) \/ CreateFailsAtProxy(r)
  <2>1. req[r].pc = "create" /\ req' = [req EXCEPT ![r].pc = "unlock", ![r].outcome = "error"]
    BY <1>4 DEF CreateFails, CreateFailsAtProxy, At
  <2>. QED BY <1>0, <1>1, <2>1 DEF RequestType
<1>5. CASE RegisterSession(r)
  <2>1. req[r].pc = "register" /\ req' = [req EXCEPT ![r].pc = "unlock"]
    BY <1>5 DEF RegisterSession, At, GoTo
  <2>. QED BY <1>0, <1>1, <2>1 DEF RequestType
<1>. QED BY <1>2, <1>3, <1>4, <1>5

\* Having reaped, a request asks for the lock of its key.
LEMMA ReapAsks ==
    ASSUME IInv, NEW r \in Requests, Reap(r)
    PROVE  Locking!Ask(r, Key(r)) /\ Key(r) \in LockKeys
<1>1. TypeOK /\ req \in [Requests -> RequestType] /\ LockOK(r)
  BY DEF IInv, TypeOK, RequestOK
<1>2. req[r].pc = "reap" /\ req' = [req EXCEPT ![r].pc = "closing"]
  BY DEF Reap, At, GoTo
<1>3. /\ req'[r].pc = "closing" /\ Key(r)' = Key(r)
      /\ \A q \in Requests \ {r} : req'[q] = req[q]
  BY <1>1, <1>2 DEF Key, RequestType
<1>4. /\ SectionPhase(r) = "outside" /\ SectionPhase(r)' = "waiting" /\ SectionKey(r)' = Key(r)
      /\ \A q \in Requests \ {r} : SectionPhase(q)' = SectionPhase(q) /\ SectionKey(q)' = SectionKey(q)
  BY <1>2, <1>3 DEF SectionPhase, SectionKey, Key
<1>5. Key(r) \in LockKeys
  BY <1>1, <1>2 DEF LockOK, Key, LockKeys, RequestType
<1>. QED BY <1>4, <1>5 DEF Locking!Ask

\* The lock is free only when nobody is inside under its key.
LEMMA AcquireEnters ==
    ASSUME IInv, NEW r \in Requests, AcquireEstablishLock(r)
    PROVE  Locking!Enter(r)
<1>1. req \in [Requests -> RequestType]
  BY DEF IInv, TypeOK
<1>2. req[r].pc = "closing" /\ lock[Key(r)] = NoRequest /\ req' = [req EXCEPT ![r].pc = "find"]
  BY DEF AcquireEstablishLock, At, GoTo
<1>3. /\ req'[r].pc = "find" /\ Key(r)' = Key(r)
      /\ \A q \in Requests \ {r} : req'[q] = req[q]
  BY <1>1, <1>2 DEF Key, RequestType
<1>4. /\ SectionPhase(r) = "waiting" /\ SectionPhase(r)' = "inside" /\ SectionKey(r) = Key(r)
      /\ SectionKey(r)' = Key(r)
      /\ \A q \in Requests \ {r} : SectionPhase(q)' = SectionPhase(q) /\ SectionKey(q)' = SectionKey(q)
  BY <1>2, <1>3 DEF SectionPhase, SectionKey, Key
<1>5. ASSUME NEW q \in Requests, SectionPhase(q) = "inside", SectionKey(q) = Key(r)
      PROVE  FALSE
  <2>1. lock[Key(q)] = q
    BY <1>5 DEF IInv, RequestOK, LockOK, SectionPhase
  <2>. QED BY <1>2, <1>5, <2>1, PoolAssumption DEF SectionKey
<1>. QED BY <1>4, <1>5 DEF Locking!Enter

\* The unlock leaves the section.
LEMMA ReleaseLeaves ==
    ASSUME IInv, NEW r \in Requests, ReleaseEstablishLock(r)
    PROVE  Locking!Leave(r)
<1>1. req \in [Requests -> RequestType]
  BY DEF IInv, TypeOK
<1>2. /\ req[r].pc = "unlock" /\ req'[r].pc \in {"stream", "report"}
      /\ \A q \in Requests \ {r} : req'[q] = req[q]
  BY <1>1 DEF ReleaseEstablishLock, At, GoTo, RequestType
<1>3. /\ SectionPhase(r) = "inside" /\ SectionPhase(r)' = "outside" /\ SectionKey(r)' = NoTarget
      /\ \A q \in Requests \ {r} : SectionPhase(q)' = SectionPhase(q) /\ SectionKey(q)' = SectionKey(q)
  BY <1>2 DEF SectionPhase, SectionKey, Key
<1>. QED BY <1>3 DEF Locking!Leave

\* Peers, readers, clocks and the shutdown move nobody.
LEMMA EnvironmentMovesNobody ==
    ASSUME TypeOK,
           \/ \E s \in Sessions : Environment(s) \/ ReaderSeesEnd(s)
           \/ \E c : Close(c)
           \/ CleanupEnv \/ UNCHANGED vars
    PROVE  UNCHANGED Locking!vars
<1>1. UNCHANGED req \/ \E rs, o : req' = EndAll(rs, o)
  BY DEF Environment, PeerCloses, GoAway, ResetHttp11Required, Expire, ReaderSeesEnd, Close, CleanupEnv, vars
<1>. QED BY <1>1, EndAllMovesNobody, SameRequestsMoveNobody, NobodyMoves

(* The pool drives the establish locks as TargetMutex has them, for every   *)
(* number of requests, targets and sessions: together with the refinement   *)
(* proved of EstablishLocks, find-or-create runs on the table of Session.c  *)
(* as it does here.                                                         *)
THEOREM PoolLocksTargets == Spec => LocksAsTargetMutex
<1>1. Init => Locking!Init
  BY DEF Init, NewRequest, Locking!Init, SectionPhase, SectionKey
<1>2. ASSUME IInv, [Next]_vars
      PROVE  [Locking!Next]_(Locking!vars)
  <2>0. TypeOK
    BY <1>2 DEF IInv
  <2>1. ASSUME NEW r \in Requests, RequestStep(r)
        PROVE  [Locking!Next]_(Locking!vars)
    <3>1. CASE Reap(r)
      BY <1>2, <3>1, ReapAsks DEF Locking!Next
    <3>2. CASE AcquireEstablishLock(r)
      BY <1>2, <3>2, AcquireEnters DEF Locking!Next
    <3>3. CASE ReleaseEstablishLock(r)
      BY <1>2, <3>3, ReleaseLeaves DEF Locking!Next
    <3>4. CASE CloseReaped(r)
      BY <2>0, <3>4, EnvironmentMovesNobody DEF CloseReaped
    <3>. QED BY <2>0, <2>1, <3>1, <3>2, <3>3, <3>4, StreamStepsOutside, FindOrCreateInside
              DEF RequestStep, LocalStep, ExchangeEnds
  <2>2. ASSUME NEW r \in Requests, NEW t \in Targets, NEW force \in BOOLEAN, Start(r, t, force)
        PROVE  UNCHANGED Locking!vars
    BY <2>0, <2>2, StreamStepsOutside
  <2>3. CASE (\E s \in Sessions : Environment(s) \/ ReaderSeesEnd(s)) \/ CleanupEnv \/ CloseAtExit
                \/ UNCHANGED vars
    BY <2>0, <2>3, EnvironmentMovesNobody DEF CloseAtExit
  <2>. QED BY <1>2, <2>1, <2>2, <2>3 DEF Next
<1>. QED BY <1>1, <1>2, Invariance, PTL DEF Spec, LocksAsTargetMutex, Locking!Spec
=============================================================================
