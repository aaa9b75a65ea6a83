------------------------------ MODULE Connect ------------------------------
(***************************************************************************)
(* createSession(): from a request to a connection that can carry it.      *)
(* Addresses are tried in turn, a proxy is asked for a tunnel, TLS is set   *)
(* up and shaken hands on, the HTTP/2 transport is opened, the Session is   *)
(* made and its reader started.  Every step can fail, and what was acquired *)
(* before it must then be given back.  The connections share the cache of   *)
(* TLS session tickets, which their readers fill for as long as they live.  *)
(*                                                                         *)
(* One connection belongs to one request here; the pool that shares it is   *)
(* module SessionPool.                                                     *)
(***************************************************************************)
EXTENDS Naturals, FiniteSets

CONSTANTS Conns,        \* connections
          Requests,     \* what they are made for
          NoProxy,      \* a request without a proxy
          MaxAddresses, \* bound on the addresses of a host
          MaxTickets,   \* bound on the tickets a server issues to a connection
          CacheSize     \* MAX_TLS_SESSION_CACHE

RequestFields == {"tls", "host", "proxy", "nonBlocking", "forceHttp11", "enablePreSharedKey"}

ASSUME ConnectAssumption ==
    /\ MaxAddresses \in Nat /\ MaxTickets \in Nat /\ CacheSize \in Nat \ {0}
    /\ \A r \in Requests :
          /\ DOMAIN r = RequestFields
          /\ {r.tls, r.nonBlocking, r.forceHttp11, r.enablePreSharedKey} \subseteq BOOLEAN

VARIABLES request,  \* what a connection is made for
          pc,       \* the next step of createSession()
          error,    \* basket->error: none, one that isProxyError() lists, or another
          tried,    \* the addresses tried
          held,     \* what has been acquired and not given back
          timed,    \* SO_RCVTIMEO and SO_SNDTIMEO are set
          blocking, \* the mode of the socket; stuck when it could not be set back
          protocol, \* what ALPN settled
          basket,   \* the request's memory is still there
          callback, \* newSessionCallback() holds a pointer to connInfo
          tickets,  \* tickets issued
          cache,    \* tlsSessionCache
          offered,  \* the ticket a connection offers to resume, if any
          refs,     \* SSL_SESSION references that were taken and that no step drops
          exchange  \* the thread of an HTTP/1.1 exchange, and whether its request waits for it

vars == <<request, pc, error, tried, held, timed, blocking, protocol, basket, callback, tickets, cache, offered,
          refs, exchange>>

Slots == 1 .. CacheSize
Empty == [used |-> FALSE]
NoTicket == [used |-> FALSE]

\* What the cache compares: host and port, and the whole of the proxy.
Key(c) == <<request[c].host, request[c].proxy>>
Keys == {<<r.host, r.proxy>> : r \in Requests}

ViaProxy(c) == request[c].proxy # NoProxy
\* An error of the connection itself, named for whom it was made to.
AtProxy(c) == IF ViaProxy(c) THEN "proxy" ELSE "other"

Init ==
    /\ request \in [Conns -> Requests]
    /\ pc = [c \in Conns |-> "resolve"]
    /\ error = [c \in Conns |-> "none"]
    /\ tried = [c \in Conns |-> 0]
    /\ held = [c \in Conns |-> {}]
    /\ timed = [c \in Conns |-> FALSE]
    /\ blocking = [c \in Conns |-> "yes"]
    /\ protocol = [c \in Conns |-> "none"]
    /\ basket = [c \in Conns |-> TRUE]
    /\ callback = [c \in Conns |-> FALSE]
    /\ tickets = [c \in Conns |-> 0]
    /\ cache = [i \in Slots |-> Empty]
    /\ offered = [c \in Conns |-> NoTicket]
    /\ refs = [c \in Conns |-> {}]
    /\ exchange = [c \in Conns |-> "none"]

-----------------------------------------------------------------------------
(* What the steps have in common                                            *)

cacheVars == <<request, basket, callback, tickets, cache, offered, refs, exchange>>
socketVars == <<tried, timed, blocking, protocol>>

Goto(c, from, to) == pc[c] = from /\ pc' = [pc EXCEPT ![c] = to]
Acquire(c, what) == held' = [held EXCEPT ![c] = @ \cup what]
\* An early return: what it frees and the error it leaves.
Fail(c, from, frees, e) ==
    /\ Goto(c, from, "failed")
    /\ held' = [held EXCEPT ![c] = @ \ frees]
    /\ error' = [error EXCEPT ![c] = e]
    /\ UNCHANGED <<socketVars, cacheVars>>

\* freeSession() with everything that precedes it once TLS is set up.
TlsResources == {"ssl", "sslCtx", "sockfd", "connInfo"}

-----------------------------------------------------------------------------
(* createSocket() and connectWithTimeout()                                  *)

Resolve(c) == Goto(c, "resolve", "address") /\ UNCHANGED <<error, held, socketVars, cacheVars>>
ResolveFails(c) == Fail(c, "resolve", {}, "other")

\* socket() and setSocketNonBlocking(), for the next address of the list.
OpenSocket(c) ==
    /\ Goto(c, "address", "connecting")
    /\ tried[c] < MaxAddresses
    /\ tried' = [tried EXCEPT ![c] = @ + 1]
    /\ Acquire(c, {"sockfd"})
    /\ blocking' = [blocking EXCEPT ![c] = "no"]
    /\ UNCHANGED <<error, timed, protocol, cacheVars>>

OpenSocketFails(c) ==
    /\ pc[c] = "address"
    /\ tried[c] < MaxAddresses
    /\ tried' = [tried EXCEPT ![c] = @ + 1]
    /\ error' = [error EXCEPT ![c] = "other"]
    /\ UNCHANGED <<pc, held, timed, blocking, protocol, cacheVars>>

\* The address refuses, fails or does not answer in time; FD_SETSIZE is the one
\* failure that isProxyError() does not list.
AddressFails(c, e) ==
    /\ Goto(c, "connecting", "address")
    /\ held' = [held EXCEPT ![c] = @ \ {"sockfd"}]
    /\ error' = [error EXCEPT ![c] = e]
    /\ UNCHANGED <<socketVars, cacheVars>>

\* The socket is blocking again, or is not: the result of setSocketBlocking() is not
\* looked at.  Nothing clears the error of an earlier address.
Connected(c, restored) ==
    /\ Goto(c, "connecting", CASE ~request[c].tls -> "mode"
                               [] request[c].tls /\ ViaProxy(c) -> "tunnel"
                               [] OTHER -> "context")
    /\ blocking' = [blocking EXCEPT ![c] = IF restored THEN "yes" ELSE "stuck"]
    /\ UNCHANGED <<error, held, tried, timed, protocol, cacheVars>>

NoAddressLeft(c) ==
    /\ tried[c] > 0
    /\ Fail(c, "address", {}, error[c])

-----------------------------------------------------------------------------
(* connectToProxy()                                                         *)

SendConnect(c) ==
    /\ Goto(c, "tunnel", "reply")
    /\ timed' = [timed EXCEPT ![c] = TRUE]
    /\ UNCHANGED <<error, held, tried, blocking, protocol, cacheVars>>
SendConnectFails(c) == Fail(c, "tunnel", {"sockfd"}, "proxy")

TunnelOpen(c) == Goto(c, "reply", "context") /\ UNCHANGED <<error, held, socketVars, cacheVars>>
\* 407, another status, an answer that does not come in one piece, a socket
\* error; or an empty one, which isProxyError() does not list.
TunnelRefused(c, e) == Fail(c, "reply", {"sockfd"}, e)
TunnelTimesOut(c) == timed[c] /\ Fail(c, "reply", {"sockfd"}, "proxy")

-----------------------------------------------------------------------------
(* TLS                                                                      *)

CreateSSLContext(c) ==
    /\ Goto(c, "context", "ssl")
    /\ Acquire(c, {"sslCtx"})
    /\ UNCHANGED <<error, socketVars, cacheVars>>
CreateSSLContextFails(c) == Fail(c, "context", {"sockfd"}, "other")

CreateSSL(c) ==
    /\ Goto(c, "ssl", "settings")
    /\ Acquire(c, {"ssl"})
    /\ UNCHANGED <<error, socketVars, cacheVars>>
CreateSSLFails(c) == Fail(c, "ssl", {"sslCtx", "sockfd"}, "other")

ConfigureSSLSettings(c) == Goto(c, "settings", "offer") /\ UNCHANGED <<error, held, socketVars, cacheVars>>
ConfigureSSLSettingsFails(c) == Fail(c, "settings", {"ssl", "sslCtx", "sockfd"}, "other")

\* A bug: a ticket of the host is taken whatever proxy it came through.
MatchesHost(entry, key) == entry.used /\ entry.key[1] = key[1]
Matches(entry, key) == entry.used /\ entry.key = key
Found(key) == {i \in Slots : Matches(cache[i], key)}
First(S) == CHOOSE i \in S : \A j \in S : i <= j

\* lookupTLSSession() and SSL_set_session(), which takes a reference of its own and
\* leaves the caller's; then connInfo, which points into the request's memory.
OfferSession(c) ==
    LET resumes == request[c].enablePreSharedKey /\ Found(Key(c)) # {}
    IN  /\ Goto(c, "offer", "bound")
        /\ offered' = [offered EXCEPT ![c] = IF resumes THEN cache[First(Found(Key(c)))] ELSE NoTicket]
        /\ refs' = [refs EXCEPT ![c] = IF resumes THEN @ \cup {"offered"} ELSE @]
        /\ Acquire(c, {"connInfo"})
        /\ UNCHANGED <<error, socketVars, request, basket, callback, tickets, cache, exchange>>

\* A bug: the handshake runs under what the tunnel has set, if there was one.
BoundHandshakeNot(c) ==
    /\ Goto(c, "bound", "handshake")
    /\ UNCHANGED <<error, held, socketVars, cacheVars>>
BoundHandshake(c) ==
    /\ Goto(c, "bound", "handshake")
    /\ timed' = [timed EXCEPT ![c] = TRUE]
    /\ UNCHANGED <<error, held, tried, blocking, protocol, cacheVars>>
BoundHandshakeFails(c) == Fail(c, "bound", TlsResources, "other")

\* SSL_connect() succeeds and the server has selected a protocol.
Handshake(c, alpn) ==
    /\ ~callback[c]
    /\ request[c].forceHttp11 \/ alpn \in {"h2", "http/1.1", "none"}
    /\ Goto(c, "handshake", "established")
    /\ protocol' = [protocol EXCEPT ![c] =
                       IF alpn = "h2" /\ ~request[c].forceHttp11 THEN "h2" ELSE "http/1.1"]
    /\ UNCHANGED <<error, held, tried, timed, blocking, cacheVars>>
\* SSL_connect() fails, or the protocol is one the client does not speak.
HandshakeFails(c) == ~callback[c] /\ Fail(c, "handshake", TlsResources, "other")
HandshakeTimesOut(c) == timed[c] /\ HandshakeFails(c)

\* A bug: only HTTP/2 is thought to need the timeouts cleared.
ClearTimeoutsForH2(c) ==
    /\ Goto(c, "established", "mode")
    /\ timed' = [timed EXCEPT ![c] = protocol[c] # "h2"]
    /\ UNCHANGED <<error, held, tried, blocking, protocol, cacheVars>>
ClearTimeouts(c) ==
    /\ Goto(c, "established", "mode")
    /\ timed' = [timed EXCEPT ![c] = FALSE]
    /\ UNCHANGED <<error, held, tried, blocking, protocol, cacheVars>>
ClearTimeoutsFails(c) == Fail(c, "established", TlsResources, "other")

-----------------------------------------------------------------------------
(* The session                                                              *)

\* setSocketNonBlocking() when the request asks for it.
SetMode(c) ==
    /\ Goto(c, "mode", IF protocol[c] = "h2" THEN "transport" ELSE "init")
    /\ blocking' = [blocking EXCEPT ![c] = IF request[c].nonBlocking THEN "no" ELSE @]
    /\ UNCHANGED <<error, held, tried, timed, protocol, cacheVars>>
SetModeFails(c) ==
    /\ request[c].nonBlocking
    /\ Fail(c, "mode", IF request[c].tls THEN TlsResources ELSE {"sockfd"}, "other")

EstablishTransport(c) == Goto(c, "transport", "init") /\ UNCHANGED <<error, held, socketVars, cacheVars>>
\* A bug: connInfo is forgotten.
TransportFailsPartly(c) == Fail(c, "transport", TlsResources \ {"connInfo"}, "other")
EstablishTransportFails(c) == Fail(c, "transport", TlsResources, "other")

\* initSession(), with what it allocates.
Made(c, hpack) == {"session"} \cup (IF hpack THEN {"hpackCtx"} ELSE {})
InitSession(c) ==
    /\ error[c] = "none"
    /\ Goto(c, "init", IF protocol[c] = "h2" THEN "reader" ELSE "ready")
    /\ Acquire(c, Made(c, protocol[c] = "h2"))
    /\ UNCHANGED <<error, socketVars, cacheVars>>
\* sessionInitFailed(): the Session cannot be allocated, its HPACK context
\* cannot, or basket->error is set, by whatever it was.  The Session itself is
\* not freed.
Discard(c, made, e) ==
    /\ Goto(c, "init", "failed")
    /\ held' = [held EXCEPT ![c] = (@ \cup made) \ (IF request[c].tls THEN TlsResources ELSE {"sockfd"})]
    /\ error' = [error EXCEPT ![c] = e]
    /\ UNCHANGED <<socketVars, cacheVars>>
InitSessionFails(c) == Discard(c, {}, "other")
InitHpackFails(c) == protocol[c] = "h2" /\ Discard(c, Made(c, FALSE), "other")
StaleErrorFails(c) == error[c] # "none" /\ Discard(c, Made(c, protocol[c] = "h2"), error[c])

StartReader(c) ==
    /\ Goto(c, "reader", "ready")
    /\ Acquire(c, {"reader"})
    /\ UNCHANGED <<error, socketVars, cacheVars>>
\* closeSession() of a session without a reader frees all of it.
StartReaderFails(c) == Fail(c, "reader", TlsResources \cup {"session", "hpackCtx"}, "other")

-----------------------------------------------------------------------------
(* The connection's life: exchanges, tickets, the end of the request,       *)
(* closeSession()                                                           *)

\* An HTTP/1.1 exchange reads on a thread of its own, one at a time.
StartExchange(c) ==
    /\ pc[c] = "ready" /\ protocol[c] # "h2"
    /\ exchange[c] = "none"
    /\ exchange' = [exchange EXCEPT ![c] = "awaited"]
    /\ UNCHANGED <<request, pc, error, held, socketVars, basket, callback, tickets, cache, offered, refs>>

\* handleResponse() after the timeout: the stream is unregistered, and nothing tells
\* the thread.
AbandonExchange(c) ==
    /\ exchange[c] = "awaited"
    /\ exchange' = [exchange EXCEPT ![c] = "abandoned"]
    /\ UNCHANGED <<request, pc, error, held, socketVars, basket, callback, tickets, cache, offered, refs>>

EndExchange(c) ==
    /\ exchange[c] # "none" /\ ~callback[c]
    /\ exchange' = [exchange EXCEPT ![c] = "none"]
    /\ UNCHANGED <<request, pc, error, held, socketVars, basket, callback, tickets, cache, offered, refs>>

\* Somebody is in SSL_connect() or SSL_read(): the creating thread, the reader or
\* an exchange.  What SSL_read() does with an SSL that was freed is left out.
Reading(c) ==
    \/ pc[c] = "handshake"
    \/ request[c].tls /\ "reader" \in held[c]
    \/ request[c].tls /\ "ssl" \in held[c] /\ exchange[c] # "none"

\* newSessionCallback(): app_data is read.
TicketArrives(c) ==
    /\ Reading(c)
    /\ ~callback[c]
    /\ tickets[c] < MaxTickets
    /\ tickets' = [tickets EXCEPT ![c] = @ + 1]
    /\ callback' = [callback EXCEPT ![c] = TRUE]
    /\ UNCHANGED <<request, pc, error, held, socketVars, basket, cache, offered, refs, exchange>>

\* The slot cacheTLSSession() fills: the one of the key, else an empty one, else
\* the oldest, which may be any.
SlotFor(key) ==
    LET free == {i \in Slots : ~cache[i].used}
    IN  CASE Found(key) # {} -> {First(Found(key))}
          [] Found(key) = {} /\ free # {} -> {First(free)}
          [] OTHER -> Slots

\* cacheTLSSession(): the key is read through connInfo into the request.  When either
\* has been freed its memory may be another's by now.
KeyReadable(c) == basket[c] /\ "connInfo" \in held[c]

\* The cache takes a reference, and the callback keeps the one it was given.  An entry
\* of another key that makes room is not freed.
CacheTicket(c, key, slot) ==
    /\ callback[c]
    /\ KeyReadable(c) => key = Key(c)
    /\ slot \in SlotFor(key)
    /\ cache' = [cache EXCEPT ![slot] =
                    [used |-> TRUE, key |-> key, issuer |-> Key(c), dangling |-> ~KeyReadable(c)]]
    /\ refs' = [refs EXCEPT ![c] = @ \cup {"filed"} \cup
                    (IF cache[slot].used /\ cache[slot].key # key THEN {"evicted"} ELSE {})]
    /\ callback' = [callback EXCEPT ![c] = FALSE]
    /\ UNCHANGED <<request, pc, error, held, socketVars, basket, tickets, offered, exchange>>

\* freeBasket(): the request is over, the connection stays.
FreeBasket(c) ==
    /\ pc[c] \in {"ready", "failed", "closed"}
    /\ basket[c]
    /\ basket' = [basket EXCEPT ![c] = FALSE]
    /\ UNCHANGED <<request, pc, error, held, socketVars, callback, tickets, cache, offered, refs, exchange>>

\* A bug: connInfo is freed before the reader is known to have stopped.
CloseAtOnce(c) ==
    /\ Goto(c, "ready", "closing")
    /\ held' = [held EXCEPT ![c] = @ \ {"connInfo"}]
    /\ UNCHANGED <<error, socketVars, cacheVars>>
\* A session is reaped when no request is in flight on it; stopReader() waits for the
\* reader, if there is one, to leave.  Nothing waits for an exchange that was given up.
StopReader(c) ==
    /\ Goto(c, "ready", "closing")
    /\ exchange[c] # "awaited"
    /\ "reader" \in held[c] => ~callback[c]
    /\ held' = [held EXCEPT ![c] = @ \ {"reader"}]
    /\ UNCHANGED <<error, socketVars, cacheVars>>

FreeSession(c) ==
    /\ Goto(c, "closing", "closed")
    /\ held' = [held EXCEPT ![c] = @ \ (TlsResources \cup {"session", "hpackCtx"})]
    /\ UNCHANGED <<error, socketVars, cacheVars>>

\* cleanupTLSSessionCache(), the last step of cleanupEnv().
CleanupTLSSessionCache ==
    /\ \A c \in Conns : pc[c] \in {"failed", "closed"}
    /\ \E i \in Slots : cache[i].used
    /\ cache' = [i \in Slots |-> Empty]
    /\ UNCHANGED <<request, pc, error, held, socketVars, basket, callback, tickets, offered, refs, exchange>>

-----------------------------------------------------------------------------

\* What the creating thread does by itself, or a timeout does for it.
Step(c) ==
    \/ Resolve(c) \/ ResolveFails(c)
    \/ OpenSocket(c) \/ OpenSocketFails(c) \/ NoAddressLeft(c)
    \/ \E e \in {AtProxy(c), "other"} : AddressFails(c, e)
    \/ SendConnect(c) \/ SendConnectFails(c) \/ TunnelTimesOut(c)
    \/ CreateSSLContext(c) \/ CreateSSLContextFails(c) \/ CreateSSL(c) \/ CreateSSLFails(c)
    \/ ConfigureSSLSettings(c) \/ ConfigureSSLSettingsFails(c)
    \/ OfferSession(c) \/ BoundHandshake(c) \/ BoundHandshakeFails(c) \/ HandshakeTimesOut(c)
    \/ ClearTimeouts(c) \/ ClearTimeoutsFails(c) \/ SetMode(c) \/ SetModeFails(c)
    \/ EstablishTransport(c) \/ EstablishTransportFails(c)
    \/ InitSession(c) \/ InitSessionFails(c) \/ InitHpackFails(c) \/ StaleErrorFails(c)
    \/ StartReader(c) \/ StartReaderFails(c)

\* What the other side does, if it does.
Peer(c) ==
    \/ \E restored \in BOOLEAN : Connected(c, restored)
    \/ TunnelOpen(c) \/ \E e \in {"proxy", "other"} : TunnelRefused(c, e)
    \/ \E alpn \in {"h2", "http/1.1", "none", "other"} : Handshake(c, alpn)
    \/ HandshakeFails(c)
    \/ TicketArrives(c)

CallbackReturns(c) == \E key \in Keys, slot \in Slots : CacheTicket(c, key, slot)

Exchange(c) == StartExchange(c) \/ AbandonExchange(c) \/ EndExchange(c)

Reaper(c) == FreeBasket(c) \/ StopReader(c) \/ FreeSession(c)

Over == (\A c \in Conns : pc[c] \in {"ready", "failed", "closed"}) /\ UNCHANGED vars

Next ==
    \/ \E c \in Conns : Step(c) \/ Peer(c) \/ CallbackReturns(c) \/ Exchange(c) \/ Reaper(c)
    \/ CleanupTLSSessionCache
    \/ Over

\* The creating thread runs on, waits only as long as its timeouts allow, and a
\* callback returns.  Nothing is assumed of servers and proxies.
Fairness == \A c \in Conns : WF_vars(Step(c)) /\ WF_vars(CallbackReturns(c))

Spec == Init /\ [][Next]_vars /\ Fairness

-----------------------------------------------------------------------------
(* Properties                                                               *)

Resources == TlsResources \cup {"session", "hpackCtx", "reader"}
PCs == {"resolve", "address", "connecting", "tunnel", "reply", "context", "ssl", "settings", "offer",
        "bound", "handshake", "established", "mode", "transport", "init", "reader", "ready",
        "closing", "closed", "failed"}
Entries == [used : {TRUE}, key : Keys, issuer : Keys, dangling : BOOLEAN] \cup {Empty}

TypeOK ==
    /\ request \in [Conns -> Requests]
    /\ pc \in [Conns -> PCs]
    /\ error \in [Conns -> {"none", "proxy", "other"}]
    /\ tried \in [Conns -> 0 .. MaxAddresses]
    /\ held \in [Conns -> SUBSET Resources]
    /\ timed \in [Conns -> BOOLEAN]
    /\ blocking \in [Conns -> {"yes", "no", "stuck"}]
    /\ protocol \in [Conns -> {"none", "h2", "http/1.1"}]
    /\ basket \in [Conns -> BOOLEAN]
    /\ callback \in [Conns -> BOOLEAN]
    /\ tickets \in [Conns -> 0 .. MaxTickets]
    /\ cache \in [Slots -> Entries]
    /\ offered \in [Conns -> Entries]
    /\ refs \in [Conns -> SUBSET {"offered", "filed", "evicted"}]
    /\ exchange \in [Conns -> {"none", "awaited", "abandoned"}]

\* An attempt that fails, at whatever step, and a session that is closed leave no
\* descriptor, SSL or SSL_CTX, no connInfo and no reader behind.  Two things are left:
\* the Session structure of a connection that sessionInitFailed() turns down, which
\* takes a failed HPACK context or an address that failed before; and references to
\* SSL_SESSIONs, one if the connection offered a ticket, others only if it was issued
\* tickets of its own.
NothingLeaks ==
    \A c \in Conns : pc[c] \in {"failed", "closed"} =>
        /\ refs[c] \subseteq (IF offered[c].used THEN {"offered"} ELSE {})
                               \cup (IF tickets[c] > 0 THEN {"filed", "evicted"} ELSE {})
        /\ held[c] \subseteq {"session", "hpackCtx"}
        /\ "session" \in held[c] => pc[c] = "failed" /\ (tried[c] > 1 \/ (protocol[c] = "h2" /\ "hpackCtx" \notin held[c]))
        /\ "hpackCtx" \in held[c] => "session" \in held[c]

\* A session that is handed out is whole and ready: no error is set, no connect
\* timeout is left on the socket, its mode is the one asked for (or it could not be
\* made blocking again, which connectWithTimeout() overlooks), and exactly what its
\* protocol needs has been made, the reader thread included.
ReadyToTransfer ==
    \A c \in Conns : pc[c] = "ready" =>
        /\ error[c] = "none"
        /\ ~timed[c]
        /\ blocking[c] \in (IF request[c].nonBlocking THEN {"no"} ELSE {"yes", "stuck"})
        /\ held[c] = {"sockfd", "session"} \cup (IF request[c].tls THEN TlsResources ELSE {})
                                           \cup (IF protocol[c] = "h2" THEN {"hpackCtx", "reader"} ELSE {})

\* While newSessionCallback() runs, in the handshake, on the reader or in an exchange
\* that a request waits for, the connInfo it was given has not been freed by
\* closeSession() or by a failing createSession().
ConnInfoLive ==
    \A c \in Conns : callback[c] /\ exchange[c] # "abandoned" => "connInfo" \in held[c]

\* The ticket offered to a server is one that this server issued over the same
\* route, unless it was filed after the request whose memory holds its key was over.
OffersOwnTicket ==
    \A c \in Conns : offered[c].used /\ ~offered[c].dangling => offered[c].issuer = Key(c)

\* An attempt to connect comes to an end, whether or not anybody answers.
AttemptEnds ==
    \A c \in Conns : pc[c] = "resolve" ~> pc[c] \in {"ready", "failed"}

-----------------------------------------------------------------------------
(* Stated by the code, and not so                                           *)

\* "loop all available addresses": when one of them answers and nothing else goes
\* wrong, the connection is used.
FallbackAddressUsed ==
    [][\A c \in Conns : ~StaleErrorFails(c)]_vars

\* "clear SSL app_data before freeing SSL (so callback won't access freed connInfo)"
CallbackWontAccessFreed == \A c \in Conns : callback[c] => "connInfo" \in held[c]

\* "we take ownership": the reference that newSessionCallback() keeps is dropped.
ReferencesDropped == \A c \in Conns : pc[c] \in {"failed", "closed"} => refs[c] = {}

\* "the connInfo lives for the session's lifetime"
TicketsFiledRight == \A i \in Slots : cache[i].used => cache[i].key = cache[i].issuer
=============================================================================
