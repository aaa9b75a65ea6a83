------------------------------ MODULE SessionPool ------------------------------
(***************************************************************************)
(* The shared connection pool of Session.c and the life of a Session in it.*)
(*                                                                         *)
(* Every request runs handleSession() (reap, establish lock, find or       *)
(* create, register), puts a stream on the session it got, exchanges, takes*)
(* the stream off again, perhaps retries once, and finally reports its     *)
(* result, which still reads the session.  Meanwhile peers close           *)
(* connections or send GOAWAY, connections grow idle, and other requests   *)
(* reap.  The establish locks are the mutex per target that EstablishLocks *)
(* is shown to implement.  A Session is an entry of heap; closeSession()   *)
(* frees it, and a step that touches a freed one is undefined behaviour:   *)
(* it sets crashed and the model stops there.                              *)
(***************************************************************************)
EXTENDS Naturals, FiniteSets

CONSTANTS Requests,     \* blocking requests, each on a thread of its own
          App,          \* the application's main thread, which calls cleanupEnv()
          Targets,      \* scheme + host + port + proxy + non-blocking
          Proxied,      \* the targets reached through the (one) proxy
          SpeaksH2,     \* the targets whose server selects h2 by ALPN
          NumSessions,  \* bound on the connections opened in a behaviour
          PoolSize,     \* MAX_SESSIONS
          MaxIdle,      \* bound on the connections that earlier requests left in the pool
          MaxEvents,    \* bound on what peers and clocks do in a behaviour
          NoSession, NoRequest, NoTarget

ASSUME PoolAssumption ==
    /\ IsFiniteSet(Requests) /\ App \notin Requests /\ NoRequest \notin Requests
    /\ Proxied \subseteq Targets /\ SpeaksH2 \subseteq Targets
    /\ NumSessions \in Nat /\ PoolSize \in Nat /\ MaxEvents \in Nat
    /\ MaxIdle \in Nat /\ MaxIdle <= NumSessions /\ MaxIdle <= PoolSize
    /\ NoSession \notin 1 .. NumSessions

Sessions == 1 .. NumSessions
PoolSlots == 1 .. PoolSize
LockKeys == Targets \X BOOLEAN      \* buildSessionKey(): the target and forceHttp11
Retryable == {"goaway", "h11"}      \* isRetryableError()

VARIABLES heap,          \* the Session objects
          pool,          \* pool.sessions[] with pool.sessionMap[]
          sessionCount,  \* pool.sessionCount
          lock,          \* holder of the establish lock of each key
          req,           \* each request's basket and program counter
          toClose,       \* cleanupSessions(): collected and not yet closed
          appDone,       \* cleanupEnv() was called
          crashed,       \* a freed Session was touched
          events         \* how often peers and clocks acted

vars == <<heap, pool, sessionCount, lock, req, toClose, appDone, crashed, events>>

Absent == [life |-> "absent", target |-> NoTarget, proto |-> "h2", inflight |-> 0,
           goingAway |-> FALSE, connError |-> "none", up |-> FALSE,
           sockError |-> FALSE, reader |-> FALSE, stale |-> FALSE, dirty |-> FALSE,
           writer |-> NoRequest, unpooled |-> FALSE]
Freed == [Absent EXCEPT !.life = "freed"]

NewRequest == [pc |-> "start", target |-> NoTarget, force |-> FALSE,
               session |-> NoSession, attempt |-> 0, outcome |-> "none"]
Reported == [NewRequest EXCEPT !.pc = "done"]

\* A keep-alive connection to t that an earlier request has left idle.
Idle(t) == [Absent EXCEPT !.life = "open", !.up = TRUE, !.target = t, !.proto = "h1"]

\* The pool is empty when the process starts, and holds idle connections later.
Init ==
    /\ \E idle \in 0 .. MaxIdle, t \in Targets :
          /\ heap = [s \in Sessions |-> IF s <= idle THEN Idle(t) ELSE Absent]
          /\ pool = [i \in PoolSlots |-> IF i <= idle THEN i ELSE NoSession]
          /\ sessionCount = idle
    /\ lock = [k \in LockKeys |-> NoRequest]
    /\ req = [r \in Requests |-> NewRequest]
    /\ toClose = [c \in Requests \cup {App} |-> {}]
    /\ appDone = FALSE
    /\ crashed = FALSE
    /\ events = 0

Pooled == {pool[i] : i \in PoolSlots} \ {NoSession}
Open(s) == heap[s].life = "open"
At(r, where) == req[r].pc = where /\ ~crashed
GoTo(r, where) == req' = [req EXCEPT ![r].pc = where]

\* The requests that wait for a response on session s.
Awaiting(s) == {r \in Requests : req[r].pc = "await" /\ req[r].session = s /\ req[r].outcome = "none"}
EndAll(rs, outcome) == [r \in Requests |-> IF r \in rs THEN [req[r] EXCEPT !.outcome = outcome] ELSE req[r]]

\* failAllStreams(): the error a stream is failed with.
FailureOf(s) == IF heap[s].connError = "none" THEN "error" ELSE heap[s].connError

-----------------------------------------------------------------------------
(* cleanupSessions(isAll): collect under pool.mutex, close outside it.      *)

\* Mutant: the shutdown flag is not looked at.
ReapableNotAtExit(s, isAll) ==
    heap[s].inflight = 0 /\ (heap[s].goingAway \/ heap[s].sockError \/ heap[s].stale)

\* isConnecting() reads and thereby clears SO_ERROR of every session it is asked about.
Reapable(s, isAll) ==
    /\ heap[s].inflight = 0
    /\ isAll \/ heap[s].goingAway \/ heap[s].sockError \/ heap[s].stale

\* Mutant: the reaped sessions stay in their slots.
CollectKeepsSlots(c, isAll) ==
    LET reaped == {s \in Pooled : Reapable(s, isAll)}
    IN  /\ toClose' = [toClose EXCEPT ![c] = reaped]
        /\ sessionCount' = sessionCount - Cardinality(reaped)
        /\ UNCHANGED pool

Collect(c, isAll) ==
    LET reaped == {s \in Pooled : Reapable(s, isAll)}
    IN  /\ toClose' = [toClose EXCEPT ![c] = reaped]
        /\ pool' = [i \in PoolSlots |-> IF pool[i] \in reaped THEN NoSession ELSE pool[i]]
        /\ sessionCount' = sessionCount - Cardinality(reaped)

\* closeSession(): joins the reader, fails what is still registered, frees.
Close(c) ==
    \E s \in toClose[c] :
        /\ toClose' = [toClose EXCEPT ![c] = @ \ {s}]
        /\ heap' = [heap EXCEPT ![s] = Freed]
        /\ req' = EndAll(Awaiting(s), FailureOf(s))
        /\ UNCHANGED <<pool, sessionCount, lock, appDone, crashed, events>>

-----------------------------------------------------------------------------
(* handleSession()                                                          *)

Start(r, t, force) ==
    /\ At(r, "start")
    /\ req' = [req EXCEPT ![r].pc = "reap", ![r].target = t, ![r].force = force]
    /\ UNCHANGED <<heap, pool, sessionCount, lock, toClose, appDone, crashed, events>>

Reap(r) ==
    /\ At(r, "reap")
    /\ Collect(r, FALSE)
    /\ GoTo(r, "closing")
    /\ UNCHANGED <<heap, lock, appDone, crashed, events>>

CloseReaped(r) == At(r, "closing") /\ Close(r)

Key(r) == <<req[r].target, req[r].force>>

\* Mutant: find-or-create without waiting for the lock.
AcquireWithoutWaiting(r) ==
    /\ At(r, "closing")
    /\ toClose[r] = {}
    /\ lock' = [lock EXCEPT ![Key(r)] = r]
    /\ GoTo(r, "find")
    /\ UNCHANGED <<heap, pool, sessionCount, toClose, appDone, crashed, events>>

AcquireEstablishLock(r) ==
    /\ At(r, "closing")
    /\ toClose[r] = {}
    /\ lock[Key(r)] = NoRequest
    /\ lock' = [lock EXCEPT ![Key(r)] = r]
    /\ GoTo(r, "find")
    /\ UNCHANGED <<heap, pool, sessionCount, toClose, appDone, crashed, events>>

ProtocolUsable(s, r) ==
    /\ req[r].force => heap[s].proto = "h1"
    /\ ~(heap[s].proto = "h1" /\ heap[s].inflight > 0)

Candidate(i, r) ==
    /\ pool[i] # NoSession
    /\ ~heap[pool[i]].goingAway
    /\ heap[pool[i]].target = req[r].target
    /\ ProtocolUsable(pool[i], r)

\* getSessionInfo(): the first candidate without a pending socket error.  The
\* candidates passed over on the way have theirs cleared by isConnecting().
FindSession(r) ==
    /\ At(r, "find")
    /\ LET healthy == {i \in PoolSlots : Candidate(i, r) /\ ~heap[pool[i]].sockError}
           chosen  == {i \in healthy : \A j \in healthy : i <= j}
           probed  == {pool[i] : i \in {j \in PoolSlots :
                          Candidate(j, r) /\ \A i \in chosen : j < i}}
           found   == {pool[i] : i \in chosen}
       IN  /\ heap' = [s \in Sessions |->
                          [heap[s] EXCEPT !.sockError = @ /\ s \notin probed,
                                          !.stale = @ /\ s \notin found]]
           /\ \/ /\ found = {}
                 /\ GoTo(r, "create")
              \/ \E s \in found :
                    req' = [req EXCEPT ![r].pc = "unlock", ![r].session = s]
    /\ UNCHANGED <<pool, sessionCount, lock, toClose, appDone, crashed, events>>

NegotiatesH2(r) == req[r].target \in SpeaksH2 /\ ~req[r].force

\* createSession(): connects, or fails without a session.  Nobody else sees the
\* new Session yet.  forceHttp11 offers http/1.1 only.
CreateSession(r) ==
    /\ At(r, "create")
    /\ \E s \in Sessions :
        /\ heap[s].life = "absent"
        /\ \A u \in Sessions : u < s => heap[u].life # "absent"
        /\ heap' = [heap EXCEPT ![s] =
                      [Absent EXCEPT !.life = "open", !.up = TRUE, !.target = req[r].target,
                                     !.proto = IF NegotiatesH2(r) THEN "h2" ELSE "h1",
                                     !.reader = NegotiatesH2(r)]]
        /\ req' = [req EXCEPT ![r].pc = "register", ![r].session = s]
    /\ UNCHANGED <<pool, sessionCount, lock, toClose, appDone, crashed, events>>

CreateFails(r) ==
    /\ At(r, "create")
    /\ req' = [req EXCEPT ![r].pc = "unlock", ![r].outcome = "error"]
    /\ UNCHANGED <<heap, pool, sessionCount, lock, toClose, appDone, crashed, events>>

\* The proxy refused: markProxySessionsGoingAway() for everything behind it.
CreateFailsAtProxy(r) ==
    /\ At(r, "create")
    /\ req[r].target \in Proxied
    /\ heap' = [s \in Sessions |->
                  IF s \in Pooled /\ heap[s].target \in Proxied
                  THEN [heap[s] EXCEPT !.goingAway = TRUE] ELSE heap[s]]
    /\ req' = [req EXCEPT ![r].pc = "unlock", ![r].outcome = "error"]
    /\ UNCHANGED <<pool, sessionCount, lock, toClose, appDone, crashed, events>>

\* registerSession(): the first free slot; with none, the session stays out of
\* the pool for good (unpooled records it).
RegisterSession(r) ==
    /\ At(r, "register")
    /\ LET free == {i \in PoolSlots : pool[i] = NoSession}
           s    == req[r].session
       IN  \/ \E i \in free :
                 /\ \A j \in free : i <= j
                 /\ pool' = [pool EXCEPT ![i] = s]
                 /\ sessionCount' = sessionCount + 1
                 /\ heap' = [heap EXCEPT ![s].stale = FALSE]
           \/ /\ free = {}
              /\ heap' = [heap EXCEPT ![s].unpooled = TRUE]
              /\ UNCHANGED <<pool, sessionCount>>
    /\ GoTo(r, "unlock")
    /\ UNCHANGED <<lock, toClose, appDone, crashed, events>>

\* Mutant: the error path returns without unlocking.
ReleaseOnlyOnSuccess(r) ==
    /\ At(r, "unlock")
    /\ lock' = [lock EXCEPT ![Key(r)] = IF req[r].outcome = "none" THEN NoRequest ELSE @]
    /\ GoTo(r, IF req[r].outcome = "none" THEN "stream" ELSE "report")
    /\ UNCHANGED <<heap, pool, sessionCount, toClose, appDone, crashed, events>>

ReleaseEstablishLock(r) ==
    /\ At(r, "unlock")
    /\ lock' = [lock EXCEPT ![Key(r)] = NoRequest]
    /\ GoTo(r, IF req[r].outcome = "none" THEN "stream" ELSE "report")
    /\ UNCHANGED <<heap, pool, sessionCount, toClose, appDone, crashed, events>>

-----------------------------------------------------------------------------
(* executeRequest() and handleRequestSync() on the session                  *)

\* basket->session points at freed memory.
Dangling(r) == req[r].session # NoSession /\ heap[req[r].session].life = "freed"

\* A step of r that touches its session: undefined once the session is freed.
Touch(r, effect) ==
    IF Dangling(r) THEN crashed' = TRUE /\ UNCHANGED <<heap, req>>
    ELSE effect /\ UNCHANGED crashed

RegisterStream(r) ==
    /\ At(r, "stream")
    /\ LET s == req[r].session
       IN  Touch(r, /\ heap' = [heap EXCEPT ![s].inflight = @ + 1]
                    /\ GoTo(r, IF heap[s].proto = "h1" THEN "queue" ELSE "await"))
    /\ UNCHANGED <<pool, sessionCount, lock, toClose, appDone, events>>

\* Every stream slot of the session is taken: the request fails without one.
NoFreeStream(r) ==
    /\ At(r, "stream")
    /\ Touch(r, /\ req' = [req EXCEPT ![r].pc = "report", ![r].outcome = "error"]
                /\ UNCHANGED heap)
    /\ UNCHANGED <<pool, sessionCount, lock, toClose, appDone, events>>

\* handleHttp11RequestSync(): writeMutex spans the whole exchange.
BeginHttp11Exchange(r) ==
    /\ At(r, "queue")
    /\ LET s == req[r].session
       IN  Touch(r, /\ heap[s].writer = NoRequest
                    /\ heap' = [heap EXCEPT ![s].writer = r]
                    /\ GoTo(r, "exchange"))
    /\ UNCHANGED <<pool, sessionCount, lock, toClose, appDone, events>>

\* The whole response left the connection; "Connection: close" may retire it.
Http11Complete(r, single) ==
    /\ At(r, "exchange")
    /\ LET s == req[r].session
       IN  Touch(r, /\ heap[s].up
                    /\ heap' = [heap EXCEPT ![s].writer = NoRequest,
                                            ![s].goingAway = @ \/ single]
                    /\ req' = [req EXCEPT ![r].pc = "await", ![r].outcome = "ok"])
    /\ UNCHANGED <<pool, sessionCount, lock, toClose, appDone, events>>

\* A timeout, a cancelled body or a failed read or write: bytes of this
\* response may be left, and closeSessionIfSingleUse() retires the connection.
Http11Incomplete(r) ==
    /\ At(r, "exchange")
    /\ LET s == req[r].session
       IN  Touch(r, /\ heap' = [heap EXCEPT ![s].writer = NoRequest,
                                            ![s].goingAway = TRUE, ![s].dirty = TRUE]
                    /\ req' = [req EXCEPT ![r].pc = "await", ![r].outcome = "error"])
    /\ UNCHANGED <<pool, sessionCount, lock, toClose, appDone, events>>

\* HTTP/2: the stream completes, or the send or the wait fails.
EndHttp2Exchange(r, outcome) ==
    /\ At(r, "await")
    /\ req[r].outcome = "none"
    /\ outcome = "ok" => heap[req[r].session].reader
    /\ req' = [req EXCEPT ![r].outcome = outcome]
    /\ UNCHANGED <<heap, pool, sessionCount, lock, toClose, appDone, crashed, events>>

UnregisterStream(r) ==
    /\ At(r, "await")
    /\ req[r].outcome # "none"
    /\ LET s == req[r].session
           retry == req[r].outcome \in Retryable /\ req[r].attempt = 0
       IN  Touch(r, /\ heap' = [heap EXCEPT ![s].inflight = @ - 1]
                    /\ GoTo(r, IF retry THEN "retry" ELSE "report"))
    /\ UNCHANGED <<pool, sessionCount, lock, toClose, appDone, events>>

\* prepareRetry() runs after the stream is gone: nothing pins the session.
PrepareRetry(r) ==
    /\ At(r, "retry")
    /\ LET s == req[r].session
       IN  Touch(r, /\ heap' = [heap EXCEPT ![s].goingAway = TRUE]
                    /\ req' = [req EXCEPT ![r].pc = "reap", ![r].session = NoSession,
                                          ![r].force = @ \/ req[r].outcome = "h11",
                                          ![r].attempt = 1, ![r].outcome = "none"])
    /\ UNCHANGED <<pool, sessionCount, lock, toClose, appDone, events>>

\* handleResponse(): basketToString() reads basket->session.
Report(r) ==
    /\ At(r, "report")
    /\ Touch(r, req' = [req EXCEPT ![r] = Reported] /\ UNCHANGED heap)
    /\ UNCHANGED <<pool, sessionCount, lock, toClose, appDone, events>>

-----------------------------------------------------------------------------
(* Peers, the reader threads and the clock                                  *)

PeerCloses(s, reset) ==
    /\ Open(s) /\ heap[s].up
    /\ heap' = [heap EXCEPT ![s].up = FALSE, ![s].sockError = reset]
    /\ UNCHANGED <<pool, sessionCount, lock, req, toClose, appDone, crashed>>

\* readerLoop() reads the end of the connection: every stream fails, it exits.
ReaderSeesEnd(s) ==
    /\ ~crashed /\ heap[s].reader /\ ~heap[s].up
    /\ heap' = [heap EXCEPT ![s].goingAway = TRUE, ![s].sockError = FALSE, ![s].reader = FALSE]
    /\ req' = EndAll(Awaiting(s), FailureOf(s))
    /\ UNCHANGED <<pool, sessionCount, lock, toClose, appDone, crashed, events>>

\* GOAWAY fails the streams that have no response yet; the others may finish.
GoAway(s, why) ==
    /\ heap[s].reader /\ heap[s].up
    /\ heap' = [heap EXCEPT ![s].goingAway = TRUE, ![s].connError = why]
    /\ \E pending \in SUBSET Awaiting(s) : req' = EndAll(pending, why)
    /\ UNCHANGED <<pool, sessionCount, lock, toClose, appDone, crashed>>

\* RST_STREAM with HTTP_1_1_REQUIRED ends one stream and retires the connection.
ResetHttp11Required(s) ==
    /\ heap[s].reader /\ heap[s].up
    /\ \E r \in Awaiting(s) : req' = EndAll({r}, "h11")
    /\ heap' = [heap EXCEPT ![s].goingAway = TRUE, ![s].connError = "h11"]
    /\ UNCHANGED <<pool, sessionCount, lock, toClose, appDone, crashed>>

\* The idle time passes expirationInMilliseconds.
Expire(s) ==
    /\ Open(s) /\ ~heap[s].stale
    /\ heap' = [heap EXCEPT ![s].stale = TRUE]
    /\ UNCHANGED <<pool, sessionCount, lock, req, toClose, appDone, crashed>>

-----------------------------------------------------------------------------
(* cleanupEnv(), once no request runs                                       *)

AllDone == \A r \in Requests : req[r].pc = "done"

CleanupEnv ==
    /\ AllDone /\ ~appDone /\ ~crashed
    /\ Collect(App, TRUE)
    /\ appDone' = TRUE
    /\ UNCHANGED <<heap, lock, req, crashed, events>>

CloseAtExit == ~crashed /\ Close(App)

Finished == appDone /\ toClose[App] = {}

\* What a request does between two waits for its peer.
LocalStep(r) ==
    \/ Reap(r) \/ CloseReaped(r) \/ AcquireEstablishLock(r) \/ FindSession(r)
    \/ CreateSession(r) \/ CreateFails(r) \/ CreateFailsAtProxy(r)
    \/ RegisterSession(r) \/ ReleaseEstablishLock(r) \/ RegisterStream(r) \/ NoFreeStream(r)
    \/ BeginHttp11Exchange(r) \/ UnregisterStream(r) \/ PrepareRetry(r) \/ Report(r)

\* The end of what it has on the wire.
ExchangeEnds(r) ==
    \/ Http11Incomplete(r)
    \/ \E single \in BOOLEAN : Http11Complete(r, single)
    \/ \E outcome \in {"ok", "error"} : EndHttp2Exchange(r, outcome)

RequestStep(r) == LocalStep(r) \/ ExchangeEnds(r)

Environment(s) ==
    /\ ~crashed /\ ~AllDone
    /\ events < MaxEvents /\ events' = events + 1
    /\ \/ \E reset \in BOOLEAN : PeerCloses(s, reset)
       \/ \E why \in Retryable : GoAway(s, why)
       \/ ResetHttp11Required(s) \/ Expire(s)

Next ==
    \/ \E r \in Requests :
          \/ \E t \in Targets, force \in BOOLEAN : Start(r, t, force)
          \/ RequestStep(r)
    \/ \E s \in Sessions : Environment(s) \/ ReaderSeesEnd(s)
    \/ CleanupEnv \/ CloseAtExit

(* Between its waits for the peer a request runs on: it waits for mutexes   *)
(* and for a connect, which has a timeout.  Nothing bounds an exchange: the *)
(* socket is a blocking one after the connect, and SSL_write() waits for    *)
(* the peer as long as it takes.  The application issues its requests and   *)
(* ends with cleanupEnv().  Peers and clocks promise nothing.               *)
Spec == /\ Init /\ [][Next]_vars
        /\ \A r \in Requests : /\ WF_vars(\E t \in Targets, force \in BOOLEAN : Start(r, t, force))
                               /\ WF_vars(LocalStep(r))
        /\ WF_vars(CleanupEnv) /\ WF_vars(CloseAtExit)

-----------------------------------------------------------------------------
SessionType ==
    [life : {"absent", "open", "freed"}, target : Targets \cup {NoTarget}, proto : {"h2", "h1"},
     inflight : Nat, goingAway : BOOLEAN, connError : {"none"} \cup Retryable, up : BOOLEAN,
     sockError : BOOLEAN, reader : BOOLEAN, stale : BOOLEAN, dirty : BOOLEAN,
     writer : Requests \cup {NoRequest}, unpooled : BOOLEAN]
RequestType ==
    [pc : {"start", "reap", "closing", "find", "create", "register", "unlock", "stream",
           "queue", "exchange", "await", "retry", "report", "done"},
     target : Targets \cup {NoTarget}, force : BOOLEAN, session : Sessions \cup {NoSession},
     attempt : {0, 1}, outcome : {"none", "ok", "error"} \cup Retryable]

(* Every variable stays in its range: pool.sessionCount never leaves        *)
(* 0 .. MAX_SESSIONS.                                                       *)
TypeOK ==
    /\ heap \in [Sessions -> SessionType]
    /\ pool \in [PoolSlots -> Sessions \cup {NoSession}]
    /\ sessionCount \in 0 .. PoolSize
    /\ lock \in [LockKeys -> Requests \cup {NoRequest}]
    /\ req \in [Requests -> RequestType]
    /\ toClose \in [Requests \cup {App} -> SUBSET Sessions]
    /\ appDone \in BOOLEAN /\ crashed \in BOOLEAN /\ events \in 0 .. MaxEvents

(* A connection that a later request for the target could be given, or is   *)
(* about to be registered.                                                  *)
Reusable(s) ==
    /\ \/ s \in Pooled
       \/ \E r \in Requests : req[r].pc = "register" /\ req[r].session = s
    /\ heap[s].up /\ ~heap[s].goingAway /\ heap[s].proto = "h2"

(* Session.c 61-62 and 99-103: concurrent requests to the same target share *)
(* ONE multiplexed connection: there are never two reusable HTTP/2          *)
(* connections to a target, pooled or on their way into the pool.           *)
OneConnectionPerTarget ==
    \A s, u \in Sessions : Reusable(s) /\ Reusable(u) /\ heap[s].target = heap[u].target => s = u

(* Concurrent reapers never close a Session twice and never leave a closed  *)
(* one in the pool: the pool holds open sessions, each once, the sessions   *)
(* being closed are open, out of the pool and in one thread's hands, and    *)
(* pool.sessionCount counts the slots in use.                               *)
ReapedOnce ==
    /\ \A s \in Pooled : Open(s) /\ Cardinality({i \in PoolSlots : pool[i] = s}) = 1
    /\ \A c \in Requests \cup {App} : \A s \in toClose[c] : Open(s) /\ s \notin Pooled
    /\ \A c, d \in Requests \cup {App} : c # d => toClose[c] \cap toClose[d] = {}
    /\ sessionCount = Cardinality(Pooled)

(* Session.c 150, "cleanup all sessions before stopping the process": after *)
(* cleanupEnv() the only connections left open are the ones that            *)
(* registerSession() had found no slot for (Session.c 1026): whatever was   *)
(* in the pool once, reaped or not, has been closed.                        *)
CleanupLeavesNothing ==
    Finished => \A s \in Sessions : Open(s) => heap[s].unpooled

\* r waits for its peer: an exchange or a stream of it is under way.
OnTheWire(r) ==
    req[r].pc = "exchange" \/ (req[r].pc = "await" /\ req[r].outcome = "none")

(* If every exchange ends some time (no SSL_write() waits for ever) and no  *)
(* request touches a freed Session, then every request gets through its     *)
(* locks, its wait and its retry and is reported, and the application can   *)
(* shut down: whatever is reaped, reset or refused meanwhile, no lock of    *)
(* handleSession() is left held.                                            *)
EventuallyFinished ==
    []~crashed /\ (\A r \in Requests : []<>~OnTheWire(r)) => <>Finished

(* Session.c 145: "Never reap a connection with in-flight (multiplexed)     *)
(* streams."                                                                *)
NeverReapInFlight ==
    [][\A s \in Sessions : Open(s) /\ heap'[s].life = "freed" => heap[s].inflight = 0]_vars

(* HttpClient.c 148-150: a blocking request's handle points at a complete   *)
(* basket that handleResponse() can serialize whenever it is called.        *)
HandleStaysReadable ==
    \A r \in Requests : req[r].pc = "report" => ~Dangling(r)

(* Http11ResponseHandler.c 126-128: "The connection can only be reused when *)
(* the whole body left it": no exchange runs on a connection that still     *)
(* holds bytes of an earlier response.                                      *)
NoExchangeOnDirtyConnection ==
    \A r \in Requests : req[r].pc = "exchange" => ~heap[req[r].session].dirty

-----------------------------------------------------------------------------
(* The establish locks as handleSession() uses them: a request asks when it *)
(* has reaped, and is inside from the search to the unlock.                 *)
SectionPhase(r) == CASE req[r].pc = "closing" -> "waiting"
                     [] req[r].pc \in {"find", "create", "register", "unlock"} -> "inside"
                     [] OTHER -> "outside"

SectionKey(r) == IF SectionPhase(r) = "outside" THEN NoTarget ELSE Key(r)

Locking == INSTANCE TargetMutex WITH
    Threads <- Requests,
    Keys <- LockKeys,
    NoKey <- NoTarget,
    phase <- [r \in Requests |-> SectionPhase(r)],
    target <- [r \in Requests |-> SectionKey(r)]

(* Session.c 99-103: find-or-create is one critical section per session     *)
(* key, whatever else requests, readers and peers do to the pool meanwhile: *)
(* the pool asks of the establish locks what EstablishLocks implements.     *)
LocksAsTargetMutex == Locking!Spec
=============================================================================
