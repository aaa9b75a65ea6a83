--------------------------- MODULE Connect_proofs ---------------------------
(***************************************************************************)
(* For every number of connections, addresses, tickets and cache entries:   *)
(* what createSession() has acquired is a function of where it is, so that   *)
(* each failure gives back exactly that; and a ticket is filed and offered   *)
(* under the key of its issuer while the request that is named lives.        *)
(***************************************************************************)
EXTENDS Connect, NaturalsInduction, WellFoundedInduction, TLAPS

Base(c) == IF request[c].tls THEN TlsResources ELSE {"sockfd"}
Full(c) == Base(c) \cup Made(c, protocol[c] = "h2")

\* Where a connection is before there is one, and once it is given up.
Unconnected == {"resolve", "address", "failed"}
Tunnelling == {"tunnel", "reply", "context"}
Securing == {"bound", "handshake", "established"}
Finishing == {"mode", "transport", "init", "reader", "ready", "closing", "closed"}

\* What is held at each step.
HeldAt(c) ==
    /\ pc[c] \in {"resolve", "address", "closed"} => held[c] = {}
    /\ pc[c] \in {"connecting"} \cup Tunnelling => held[c] = {"sockfd"}
    /\ pc[c] = "ssl" => held[c] = {"sockfd", "sslCtx"}
    /\ pc[c] \in {"settings", "offer"} => held[c] = {"sockfd", "sslCtx", "ssl"}
    /\ pc[c] \in Securing \cup {"mode", "transport", "init"} => held[c] = Base(c)
    /\ pc[c] \in {"reader", "closing"} => held[c] = Full(c)
    /\ pc[c] = "ready" => held[c] = Full(c) \cup (IF protocol[c] = "h2" THEN {"reader"} ELSE {})
    /\ pc[c] = "failed" =>
          \/ held[c] = {}
          \/ held[c] = {"session"} /\ (tried[c] > 1 \/ protocol[c] = "h2")
          \/ held[c] = {"session", "hpackCtx"} /\ tried[c] > 1

\* TLS steps are taken for TLS requests, HTTP/2 steps once it was negotiated.
Secured(c) ==
    /\ pc[c] \in Tunnelling \cup Securing \cup {"ssl", "settings", "offer", "transport", "reader"}
          => request[c].tls
    /\ protocol[c] = "h2" => request[c].tls
    /\ pc[c] \in {"transport", "reader"} => protocol[c] = "h2"
    /\ pc[c] \notin Finishing \cup {"established", "failed"} => protocol[c] = "none"
    /\ pc[c] \notin Finishing \cup Securing \cup {"failed"} => "offered" \notin refs[c]

\* The socket: connect timeouts are gone, and its mode is settled, before the
\* transfer; an error that is set is that of an address before the one in use.
SocketAt(c) ==
    /\ pc[c] \in Finishing \cup {"connecting"} => ~timed[c]
    /\ pc[c] \in {"address", "resolve"} => ~timed[c]
    /\ pc[c] \in Tunnelling \cup Securing \cup {"ssl", "settings", "offer", "mode"} => blocking[c] # "no"
    /\ pc[c] \in Finishing \ {"mode"} =>
          blocking[c] \in (IF request[c].nonBlocking THEN {"no"} ELSE {"yes", "stuck"})
    /\ pc[c] \notin Unconnected => tried[c] > 0
    /\ pc[c] = "address" /\ error[c] # "none" => tried[c] > 0
    /\ pc[c] = "resolve" => error[c] = "none"
    /\ pc[c] \notin Unconnected /\ error[c] # "none" => tried[c] > 1
    /\ pc[c] \in {"reader", "ready", "closing", "closed"} => error[c] = "none"

\* newSessionCallback() runs within the handshake, on the reader or in an exchange; an
\* exchange that is waited for keeps its session from being reaped.
CallbackAt(c) ==
    /\ exchange[c] # "none" => protocol[c] # "h2" /\ pc[c] \in {"ready", "closing", "closed"}
    /\ exchange[c] = "awaited" => pc[c] = "ready"
    /\ callback[c] => /\ request[c].tls
                      /\ \/ pc[c] = "handshake"
                         \/ pc[c] = "ready" /\ (protocol[c] = "h2" \/ exchange[c] # "none")
                         \/ pc[c] \in {"closing", "closed"} /\ exchange[c] = "abandoned"

\* Which references to SSL_SESSIONs nobody drops.
RefsAt(c) ==
    /\ "offered" \in refs[c] => offered[c].used
    /\ callback[c] \/ "filed" \in refs[c] \/ "evicted" \in refs[c] => tickets[c] > 0

ConnAt(c) == HeldAt(c) /\ Secured(c) /\ SocketAt(c) /\ CallbackAt(c)

RefsOK == \A c \in Conns : RefsAt(c)

\* What is filed by a live request is filed under its issuer.
Filed == \A i \in Slots : cache[i].used /\ ~cache[i].dangling => cache[i].key = cache[i].issuer

IInv ==
    /\ TypeOK
    /\ \A c \in Conns : ConnAt(c)
    /\ RefsOK
    /\ Filed
    /\ OffersOwnTicket

-----------------------------------------------------------------------------

\* A step of connection c that leaves the tickets alone is judged by c only.
LEMMA LocalStep ==
    ASSUME IInv, NEW c \in Conns, TypeOK', ConnAt(c)', UNCHANGED cacheVars,
           \A d \in Conns \ {c} :
              /\ pc'[d] = pc[d] /\ error'[d] = error[d] /\ tried'[d] = tried[d] /\ held'[d] = held[d]
              /\ timed'[d] = timed[d] /\ blocking'[d] = blocking[d] /\ protocol'[d] = protocol[d]
    PROVE  IInv'
<1>1. ASSUME NEW d \in Conns, d # c
      PROVE  ConnAt(d)'
  <2>1. HeldAt(d)'
    BY DEF IInv, ConnAt, HeldAt, Base, Full, cacheVars
  <2>2. Secured(d)' /\ SocketAt(d)' /\ CallbackAt(d)'
    BY DEF IInv, ConnAt, Secured, SocketAt, CallbackAt, cacheVars
  <2>. QED BY <2>1, <2>2 DEF ConnAt
<1>2. Filed' /\ OffersOwnTicket' /\ RefsOK'
  BY DEF IInv, Filed, OffersOwnTicket, Key, RefsOK, RefsAt, cacheVars
<1>. QED BY <1>1, <1>2 DEF IInv

\* getaddrinfo() answers: nothing is held yet.
LEMMA ResolveStep ==
    ASSUME IInv, NEW c \in Conns, Resolve(c)
    PROVE  IInv'
<1>. USE DEF IInv, Resolve, Goto, cacheVars, socketVars
<1>1. TypeOK'
  BY DEF TypeOK, PCs
<1>2. HeldAt(c)'
  BY DEF TypeOK, ConnAt, HeldAt, Secured, SocketAt, Base, Full, TlsResources, Tunnelling, Securing
<1>3. Secured(c)'
  BY DEF ConnAt, Secured, Tunnelling, Securing, Finishing
<1>4. SocketAt(c)'
  BY DEF ConnAt, SocketAt, Tunnelling, Securing, Finishing, Unconnected
<1>5. CallbackAt(c)'
  BY DEF TypeOK, ConnAt, CallbackAt, Secured, Finishing, Tunnelling, Securing
<1>. QED BY <1>1, <1>2, <1>3, <1>4, <1>5, LocalStep DEF ConnAt

\* getaddrinfo() fails: there is nothing to give back.
LEMMA ResolveFailsStep ==
    ASSUME IInv, NEW c \in Conns, ResolveFails(c)
    PROVE  IInv'
<1>. USE DEF IInv, ResolveFails, Fail, Goto, cacheVars, socketVars
<1>1. TypeOK'
  BY DEF TypeOK, PCs
<1>2. HeldAt(c)'
  BY DEF TypeOK, ConnAt, HeldAt, Secured, SocketAt, Base, Full, TlsResources, Tunnelling, Securing
<1>3. Secured(c)'
  BY DEF ConnAt, Secured, Tunnelling, Securing, Finishing
<1>4. SocketAt(c)'
  BY DEF TypeOK, SocketAt, Tunnelling, Securing, Finishing, Unconnected
<1>5. CallbackAt(c)'
  BY DEF TypeOK, ConnAt, CallbackAt, Secured, Finishing, Tunnelling, Securing
<1>. QED BY <1>1, <1>2, <1>3, <1>4, <1>5, LocalStep DEF ConnAt

\* The next address is tried with a socket of its own.
LEMMA OpenSocketStep ==
    ASSUME IInv, NEW c \in Conns, OpenSocket(c)
    PROVE  IInv'
<1>. USE DEF IInv, OpenSocket, Goto, Acquire, cacheVars
<1>1. TypeOK'
  BY ConnectAssumption DEF TypeOK, PCs, Resources, TlsResources
<1>2. HeldAt(c)'
  BY DEF TypeOK, ConnAt, HeldAt, Secured, SocketAt, Base, Full, TlsResources, Tunnelling, Securing
<1>3. Secured(c)'
  BY DEF ConnAt, Secured, Tunnelling, Securing, Finishing
<1>4. SocketAt(c)'
  BY DEF TypeOK, ConnAt, SocketAt, Tunnelling, Securing, Finishing
<1>5. CallbackAt(c)'
  BY DEF TypeOK, ConnAt, CallbackAt, Secured, Finishing, Tunnelling, Securing
<1>. QED BY <1>1, <1>2, <1>3, <1>4, <1>5, LocalStep DEF TypeOK, ConnAt

\* A socket that cannot be made leaves only the error and the next address.
LEMMA OpenSocketFailsStep ==
    ASSUME IInv, NEW c \in Conns, OpenSocketFails(c)
    PROVE  IInv'
<1>. USE DEF IInv, OpenSocketFails, cacheVars
<1>1. TypeOK'
  BY ConnectAssumption DEF TypeOK
<1>2. HeldAt(c)'
  BY DEF TypeOK, ConnAt, HeldAt, Secured, SocketAt, Base, Full, TlsResources, Tunnelling, Securing
<1>3. Secured(c)'
  BY DEF ConnAt, Secured, Tunnelling, Securing, Finishing
<1>4. SocketAt(c)'
  BY DEF TypeOK, ConnAt, SocketAt
<1>5. CallbackAt(c)'
  BY DEF TypeOK, ConnAt, CallbackAt, Secured, Finishing, Tunnelling, Securing
<1>. QED BY <1>1, <1>2, <1>3, <1>4, <1>5, LocalStep DEF ConnAt

\* When the list is used up the last socket has been closed.
LEMMA NoAddressLeftStep ==
    ASSUME IInv, NEW c \in Conns, NoAddressLeft(c)
    PROVE  IInv'
<1>. USE DEF IInv, NoAddressLeft, Fail, Goto, cacheVars, socketVars
<1>1. TypeOK'
  BY DEF TypeOK, PCs
<1>2. HeldAt(c)'
  BY DEF TypeOK, ConnAt, HeldAt, Secured, SocketAt, Base, Full, TlsResources, Tunnelling, Securing
<1>3. Secured(c)'
  BY DEF ConnAt, Secured, Tunnelling, Securing, Finishing
<1>4. SocketAt(c)'
  BY DEF ConnAt, SocketAt, Tunnelling, Securing, Finishing, Unconnected
<1>5. CallbackAt(c)'
  BY DEF TypeOK, ConnAt, CallbackAt, Secured, Finishing, Tunnelling, Securing
<1>. QED BY <1>1, <1>2, <1>3, <1>4, <1>5, LocalStep DEF ConnAt

\* An address that does not answer closes its own socket.
LEMMA AddressFailsStep ==
    ASSUME IInv, NEW c \in Conns, NEW e \in {AtProxy(c), "other"}, AddressFails(c, e)
    PROVE  IInv'
<1>. USE DEF IInv, AddressFails, Goto, cacheVars, socketVars
<1>1. TypeOK'
  BY DEF TypeOK, PCs, AtProxy
<1>2. HeldAt(c)'
  BY DEF TypeOK, ConnAt, HeldAt, Secured, SocketAt, Base, Full, TlsResources, Tunnelling, Securing
<1>3. Secured(c)'
  BY DEF ConnAt, Secured, Tunnelling, Securing, Finishing
<1>4. SocketAt(c)'
  BY DEF TypeOK, ConnAt, SocketAt, Tunnelling, Securing, Finishing, Unconnected
<1>5. CallbackAt(c)'
  BY DEF TypeOK, ConnAt, CallbackAt, Secured, Finishing, Tunnelling, Securing
<1>. QED BY <1>1, <1>2, <1>3, <1>4, <1>5, LocalStep DEF ConnAt

\* Once connected the socket is blocking again and without timeouts.
LEMMA ConnectedStep ==
    ASSUME IInv, NEW c \in Conns, NEW restored \in BOOLEAN, Connected(c, restored)
    PROVE  IInv'
<1>. USE DEF IInv, Connected, Goto, cacheVars
<1>1. TypeOK'
  BY DEF TypeOK, PCs
<1>2. HeldAt(c)'
  BY DEF TypeOK, ConnAt, HeldAt, Secured, SocketAt, Base, Full, TlsResources, Tunnelling, Securing
<1>3. Secured(c)'
  BY DEF ConnAt, Secured, Tunnelling, Securing, Finishing
<1>4. SocketAt(c)'
  BY DEF TypeOK, ConnAt, SocketAt, Finishing, Unconnected
<1>5. CallbackAt(c)'
  BY DEF TypeOK, ConnAt, CallbackAt, Secured, Finishing, Tunnelling, Securing
<1>. QED BY <1>1, <1>2, <1>3, <1>4, <1>5, LocalStep DEF TypeOK, ConnAt

\* The CONNECT request goes out under the timeouts of the tunnel.
LEMMA SendConnectStep ==
    ASSUME IInv, NEW c \in Conns, SendConnect(c)
    PROVE  IInv'
<1>. USE DEF IInv, SendConnect, Goto, cacheVars
<1>1. TypeOK'
  BY DEF TypeOK, PCs
<1>2. HeldAt(c)'
  BY DEF TypeOK, ConnAt, HeldAt, Secured, SocketAt, Base, Full, TlsResources, Tunnelling, Securing
<1>3. Secured(c)'
  BY DEF ConnAt, Secured, Tunnelling, Finishing, Securing
<1>4. SocketAt(c)'
  BY DEF ConnAt, SocketAt, Tunnelling, Finishing, Unconnected
<1>5. CallbackAt(c)'
  BY DEF TypeOK, ConnAt, CallbackAt, Secured, Finishing, Tunnelling, Securing
<1>. QED BY <1>1, <1>2, <1>3, <1>4, <1>5, LocalStep DEF TypeOK, ConnAt

\* A CONNECT that cannot be sent closes the socket.
LEMMA SendConnectFailsStep ==
    ASSUME IInv, NEW c \in Conns, SendConnectFails(c)
    PROVE  IInv'
<1>. USE DEF IInv, SendConnectFails, Fail, Goto, cacheVars, socketVars
<1>1. TypeOK'
  BY DEF TypeOK, PCs
<1>2. HeldAt(c)'
  BY DEF TypeOK, ConnAt, HeldAt, Secured, SocketAt, Base, Full, TlsResources, Tunnelling, Securing
<1>3. Secured(c)'
  BY DEF ConnAt, Secured, Tunnelling, Securing, Finishing
<1>4. SocketAt(c)'
  BY DEF TypeOK, SocketAt, Tunnelling, Securing, Finishing, Unconnected
<1>5. CallbackAt(c)'
  BY DEF TypeOK, ConnAt, CallbackAt, Secured, Finishing, Tunnelling, Securing
<1>. QED BY <1>1, <1>2, <1>3, <1>4, <1>5, LocalStep DEF ConnAt

\* A proxy that does not answer in time costs the socket.
LEMMA TunnelTimesOutStep ==
    ASSUME IInv, NEW c \in Conns, TunnelTimesOut(c)
    PROVE  IInv'
<1>. USE DEF IInv, TunnelTimesOut, Fail, Goto, cacheVars, socketVars
<1>1. TypeOK'
  BY DEF TypeOK, PCs
<1>2. HeldAt(c)'
  BY DEF TypeOK, ConnAt, HeldAt, Secured, SocketAt, Base, Full, TlsResources, Tunnelling, Securing
<1>3. Secured(c)'
  BY DEF ConnAt, Secured, Tunnelling, Securing, Finishing
<1>4. SocketAt(c)'
  BY DEF TypeOK, SocketAt, Tunnelling, Securing, Finishing, Unconnected
<1>5. CallbackAt(c)'
  BY DEF TypeOK, ConnAt, CallbackAt, Secured, Finishing, Tunnelling, Securing
<1>. QED BY <1>1, <1>2, <1>3, <1>4, <1>5, LocalStep DEF ConnAt

\* An open tunnel holds what the connection held.
LEMMA TunnelOpenStep ==
    ASSUME IInv, NEW c \in Conns, TunnelOpen(c)
    PROVE  IInv'
<1>. USE DEF IInv, TunnelOpen, Goto, cacheVars, socketVars
<1>1. TypeOK'
  BY DEF TypeOK, PCs
<1>2. HeldAt(c)'
  BY DEF TypeOK, ConnAt, HeldAt, Secured, SocketAt, Base, Full, TlsResources, Tunnelling, Securing
<1>3. Secured(c)'
  BY DEF ConnAt, Secured, Tunnelling, Finishing, Securing
<1>4. SocketAt(c)'
  BY DEF ConnAt, SocketAt, Tunnelling, Finishing, Unconnected
<1>5. CallbackAt(c)'
  BY DEF TypeOK, ConnAt, CallbackAt, Secured, Finishing, Tunnelling, Securing
<1>. QED BY <1>1, <1>2, <1>3, <1>4, <1>5, LocalStep DEF ConnAt

\* A refused tunnel closes the socket.
LEMMA TunnelRefusedStep ==
    ASSUME IInv, NEW c \in Conns, NEW e \in {"proxy", "other"}, TunnelRefused(c, e)
    PROVE  IInv'
<1>. USE DEF IInv, TunnelRefused, Fail, Goto, cacheVars, socketVars
<1>1. TypeOK'
  BY DEF TypeOK, PCs
<1>2. HeldAt(c)'
  BY DEF TypeOK, ConnAt, HeldAt, Secured, SocketAt, Base, Full, TlsResources, Tunnelling, Securing
<1>3. Secured(c)'
  BY DEF ConnAt, Secured, Tunnelling, Securing, Finishing
<1>4. SocketAt(c)'
  BY DEF TypeOK, SocketAt, Tunnelling, Securing, Finishing, Unconnected
<1>5. CallbackAt(c)'
  BY DEF TypeOK, ConnAt, CallbackAt, Secured, Finishing, Tunnelling, Securing
<1>. QED BY <1>1, <1>2, <1>3, <1>4, <1>5, LocalStep DEF ConnAt

\* The TLS context joins the socket.
LEMMA CreateSSLContextStep ==
    ASSUME IInv, NEW c \in Conns, CreateSSLContext(c)
    PROVE  IInv'
<1>. USE DEF IInv, CreateSSLContext, Goto, Acquire, cacheVars, socketVars
<1>1. TypeOK'
  BY DEF TypeOK, PCs, Resources, TlsResources
<1>2. HeldAt(c)'
  BY DEF TypeOK, ConnAt, HeldAt, Secured, SocketAt, Base, Full, TlsResources, Tunnelling, Securing
<1>3. Secured(c)'
  BY DEF ConnAt, Secured, Tunnelling, Finishing, Securing
<1>4. SocketAt(c)'
  BY DEF ConnAt, SocketAt, Tunnelling, Finishing, Unconnected
<1>5. CallbackAt(c)'
  BY DEF TypeOK, ConnAt, CallbackAt, Secured, Finishing, Tunnelling, Securing
<1>. QED BY <1>1, <1>2, <1>3, <1>4, <1>5, LocalStep DEF ConnAt

\* Without a TLS context only the socket is closed.
LEMMA CreateSSLContextFailsStep ==
    ASSUME IInv, NEW c \in Conns, CreateSSLContextFails(c)
    PROVE  IInv'
<1>. USE DEF IInv, CreateSSLContextFails, Fail, Goto, cacheVars, socketVars
<1>1. TypeOK'
  BY DEF TypeOK, PCs
<1>2. HeldAt(c)'
  BY DEF TypeOK, ConnAt, HeldAt, Secured, SocketAt, Base, Full, TlsResources, Tunnelling, Securing
<1>3. Secured(c)'
  BY DEF ConnAt, Secured, Tunnelling, Securing, Finishing
<1>4. SocketAt(c)'
  BY DEF TypeOK, SocketAt, Tunnelling, Securing, Finishing, Unconnected
<1>5. CallbackAt(c)'
  BY DEF TypeOK, ConnAt, CallbackAt, Secured, Finishing, Tunnelling, Securing
<1>. QED BY <1>1, <1>2, <1>3, <1>4, <1>5, LocalStep DEF ConnAt

\* The TLS object joins the context.
LEMMA CreateSSLStep ==
    ASSUME IInv, NEW c \in Conns, CreateSSL(c)
    PROVE  IInv'
<1>. USE DEF IInv, CreateSSL, Goto, Acquire, cacheVars, socketVars
<1>1. TypeOK'
  BY DEF TypeOK, PCs, Resources, TlsResources
<1>2. HeldAt(c)'
  BY DEF TypeOK, ConnAt, HeldAt, Secured, SocketAt, Base, Full, TlsResources, Tunnelling, Securing
<1>3. Secured(c)'
  BY DEF ConnAt, Secured, Finishing, Tunnelling, Securing
<1>4. SocketAt(c)'
  BY DEF ConnAt, SocketAt, Finishing, Unconnected
<1>5. CallbackAt(c)'
  BY DEF TypeOK, ConnAt, CallbackAt, Secured, Finishing, Tunnelling, Securing
<1>. QED BY <1>1, <1>2, <1>3, <1>4, <1>5, LocalStep DEF ConnAt

\* Without a TLS object context and socket are freed.
LEMMA CreateSSLFailsStep ==
    ASSUME IInv, NEW c \in Conns, CreateSSLFails(c)
    PROVE  IInv'
<1>. USE DEF IInv, CreateSSLFails, Fail, Goto, cacheVars, socketVars
<1>1. TypeOK'
  BY DEF TypeOK, PCs
<1>2. HeldAt(c)'
  BY DEF TypeOK, ConnAt, HeldAt, Secured, SocketAt, Base, Full, TlsResources, Tunnelling, Securing
<1>3. Secured(c)'
  BY DEF ConnAt, Secured, Tunnelling, Securing, Finishing
<1>4. SocketAt(c)'
  BY DEF TypeOK, SocketAt, Tunnelling, Securing, Finishing, Unconnected
<1>5. CallbackAt(c)'
  BY DEF TypeOK, ConnAt, CallbackAt, Secured, Finishing, Tunnelling, Securing
<1>. QED BY <1>1, <1>2, <1>3, <1>4, <1>5, LocalStep DEF ConnAt

\* The settings of the browser hold nothing by themselves.
LEMMA ConfigureSSLSettingsStep ==
    ASSUME IInv, NEW c \in Conns, ConfigureSSLSettings(c)
    PROVE  IInv'
<1>. USE DEF IInv, ConfigureSSLSettings, Goto, cacheVars, socketVars
<1>1. TypeOK'
  BY DEF TypeOK, PCs
<1>2. HeldAt(c)'
  BY DEF TypeOK, ConnAt, HeldAt, Secured, SocketAt, Base, Full, TlsResources, Tunnelling, Securing
<1>3. Secured(c)'
  BY DEF ConnAt, Secured, Finishing, Tunnelling, Securing
<1>4. SocketAt(c)'
  BY DEF ConnAt, SocketAt, Finishing, Unconnected
<1>5. CallbackAt(c)'
  BY DEF TypeOK, ConnAt, CallbackAt, Secured, Finishing, Tunnelling, Securing
<1>. QED BY <1>1, <1>2, <1>3, <1>4, <1>5, LocalStep DEF ConnAt

\* Settings that are refused free object, context and socket.
LEMMA ConfigureSSLSettingsFailsStep ==
    ASSUME IInv, NEW c \in Conns, ConfigureSSLSettingsFails(c)
    PROVE  IInv'
<1>. USE DEF IInv, ConfigureSSLSettingsFails, Fail, Goto, cacheVars, socketVars
<1>1. TypeOK'
  BY DEF TypeOK, PCs
<1>2. HeldAt(c)'
  BY DEF TypeOK, ConnAt, HeldAt, Secured, SocketAt, Base, Full, TlsResources, Tunnelling, Securing
<1>3. Secured(c)'
  BY DEF ConnAt, Secured, Tunnelling, Securing, Finishing
<1>4. SocketAt(c)'
  BY DEF TypeOK, SocketAt, Tunnelling, Securing, Finishing, Unconnected
<1>5. CallbackAt(c)'
  BY DEF TypeOK, ConnAt, CallbackAt, Secured, Finishing, Tunnelling, Securing
<1>. QED BY <1>1, <1>2, <1>3, <1>4, <1>5, LocalStep DEF ConnAt

\* The handshake gets its own timeouts.
LEMMA BoundHandshakeStep ==
    ASSUME IInv, NEW c \in Conns, BoundHandshake(c)
    PROVE  IInv'
<1>. USE DEF IInv, BoundHandshake, Goto, cacheVars
<1>1. TypeOK'
  BY DEF TypeOK, PCs
<1>2. HeldAt(c)'
  BY DEF TypeOK, ConnAt, HeldAt, Secured, SocketAt, Base, Full, TlsResources, Tunnelling, Securing
<1>3. Secured(c)'
  BY DEF ConnAt, Secured, Securing, Finishing, Tunnelling
<1>4. SocketAt(c)'
  BY DEF ConnAt, SocketAt, Securing, Finishing, Unconnected
<1>5. CallbackAt(c)'
  BY DEF TypeOK, ConnAt, CallbackAt, Secured, Finishing, Tunnelling, Securing
<1>. QED BY <1>1, <1>2, <1>3, <1>4, <1>5, LocalStep DEF TypeOK, ConnAt

\* Timeouts that cannot be set free all of TLS.
LEMMA BoundHandshakeFailsStep ==
    ASSUME IInv, NEW c \in Conns, BoundHandshakeFails(c)
    PROVE  IInv'
<1>. USE DEF IInv, BoundHandshakeFails, Fail, Goto, cacheVars, socketVars
<1>1. TypeOK'
  BY DEF TypeOK, PCs
<1>2. HeldAt(c)'
  BY DEF TypeOK, ConnAt, HeldAt, Secured, SocketAt, Base, Full, TlsResources, Tunnelling, Securing
<1>3. Secured(c)'
  BY DEF ConnAt, Secured, Securing, Tunnelling, Finishing
<1>4. SocketAt(c)'
  BY DEF TypeOK, SocketAt, Tunnelling, Securing, Finishing, Unconnected
<1>5. CallbackAt(c)'
  BY DEF TypeOK, ConnAt, CallbackAt, Secured, Finishing, Tunnelling, Securing
<1>. QED BY <1>1, <1>2, <1>3, <1>4, <1>5, LocalStep DEF ConnAt

\* The handshake is over when no callback runs in it any more.
LEMMA HandshakeStep ==
    ASSUME IInv, NEW c \in Conns, NEW alpn \in {"h2", "http/1.1", "none", "other"}, Handshake(c, alpn)
    PROVE  IInv'
<1>. USE DEF IInv, Handshake, Goto, cacheVars
<1>1. TypeOK'
  BY DEF TypeOK, PCs
<1>2. HeldAt(c)'
  BY DEF TypeOK, ConnAt, HeldAt, Secured, SocketAt, Base, Full, TlsResources, Tunnelling, Securing
<1>3. Secured(c)'
  BY DEF TypeOK, ConnAt, Secured, Securing, Tunnelling, Finishing
<1>4. SocketAt(c)'
  BY DEF ConnAt, SocketAt, Securing, Finishing, Unconnected
<1>5. CallbackAt(c)'
  BY DEF TypeOK, ConnAt, CallbackAt, HeldAt, Full, Secured, Finishing, Tunnelling, Securing
<1>. QED BY <1>1, <1>2, <1>3, <1>4, <1>5, LocalStep DEF ConnAt

\* A failed handshake frees all of TLS, connInfo included, outside the callback.
LEMMA HandshakeFailsStep ==
    ASSUME IInv, NEW c \in Conns, HandshakeFails(c)
    PROVE  IInv'
<1>. USE DEF IInv, HandshakeFails, Fail, Goto, cacheVars, socketVars
<1>1. TypeOK'
  BY DEF TypeOK, PCs
<1>2. HeldAt(c)'
  BY DEF TypeOK, ConnAt, HeldAt, Secured, SocketAt, Base, Full, TlsResources, Tunnelling, Securing
<1>3. Secured(c)'
  BY DEF ConnAt, Secured, Securing, Tunnelling, Finishing
<1>4. SocketAt(c)'
  BY DEF TypeOK, SocketAt, Tunnelling, Securing, Finishing, Unconnected
<1>5. CallbackAt(c)'
  BY DEF TypeOK, ConnAt, CallbackAt, HeldAt, Full, Secured, Finishing, Tunnelling, Securing
<1>. QED BY <1>1, <1>2, <1>3, <1>4, <1>5, LocalStep DEF ConnAt

\* The timeouts of the handshake are taken off again.
LEMMA ClearTimeoutsStep ==
    ASSUME IInv, NEW c \in Conns, ClearTimeouts(c)
    PROVE  IInv'
<1>. USE DEF IInv, ClearTimeouts, Goto, cacheVars
<1>1. TypeOK'
  BY DEF TypeOK, PCs
<1>2. HeldAt(c)'
  BY DEF TypeOK, ConnAt, HeldAt, Secured, SocketAt, Base, Full, TlsResources, Tunnelling, Securing
<1>3. Secured(c)'
  BY DEF ConnAt, Secured, Securing, Finishing, Tunnelling
<1>4. SocketAt(c)'
  BY DEF TypeOK, ConnAt, SocketAt, Securing, Unconnected
<1>5. CallbackAt(c)'
  BY DEF TypeOK, ConnAt, CallbackAt, Secured, Finishing, Tunnelling, Securing
<1>. QED BY <1>1, <1>2, <1>3, <1>4, <1>5, LocalStep DEF TypeOK, ConnAt

\* Timeouts that cannot be cleared free all of TLS.
LEMMA ClearTimeoutsFailsStep ==
    ASSUME IInv, NEW c \in Conns, ClearTimeoutsFails(c)
    PROVE  IInv'
<1>. USE DEF IInv, ClearTimeoutsFails, Fail, Goto, cacheVars, socketVars
<1>1. TypeOK'
  BY DEF TypeOK, PCs
<1>2. HeldAt(c)'
  BY DEF TypeOK, ConnAt, HeldAt, Secured, SocketAt, Base, Full, TlsResources, Tunnelling, Securing
<1>3. Secured(c)'
  BY DEF ConnAt, Secured, Securing, Tunnelling, Finishing
<1>4. SocketAt(c)'
  BY DEF TypeOK, SocketAt, Tunnelling, Securing, Finishing, Unconnected
<1>5. CallbackAt(c)'
  BY DEF TypeOK, ConnAt, CallbackAt, Secured, Finishing, Tunnelling, Securing
<1>. QED BY <1>1, <1>2, <1>3, <1>4, <1>5, LocalStep DEF ConnAt

\* From here on the socket is in the mode that was asked for.
LEMMA SetModeStep ==
    ASSUME IInv, NEW c \in Conns, SetMode(c)
    PROVE  IInv'
<1>. USE DEF IInv, SetMode, Goto, cacheVars
<1>1. TypeOK'
  BY DEF TypeOK, PCs
<1>2. HeldAt(c)'
  BY DEF TypeOK, ConnAt, HeldAt, Secured, SocketAt, Base, Full, TlsResources, Tunnelling, Securing
<1>3. Secured(c)'
  BY DEF ConnAt, Secured, Tunnelling, Securing, Finishing
<1>4. SocketAt(c)'
  BY DEF TypeOK, ConnAt, SocketAt, Tunnelling, Securing, Finishing, Unconnected
<1>5. CallbackAt(c)'
  BY DEF TypeOK, ConnAt, CallbackAt, Secured, Finishing, Tunnelling, Securing
<1>. QED BY <1>1, <1>2, <1>3, <1>4, <1>5, LocalStep DEF TypeOK, ConnAt

\* A mode that cannot be set frees what the scheme of the request had made.
LEMMA SetModeFailsStep ==
    ASSUME IInv, NEW c \in Conns, SetModeFails(c)
    PROVE  IInv'
<1>. USE DEF IInv, SetModeFails, Fail, Goto, cacheVars, socketVars
<1>1. TypeOK'
  BY DEF TypeOK, PCs
<1>2. HeldAt(c)'
  BY DEF TypeOK, ConnAt, HeldAt, Secured, SocketAt, Base, Full, TlsResources, Tunnelling, Securing
<1>3. Secured(c)'
  BY DEF ConnAt, Secured, Tunnelling, Securing, Finishing
<1>4. SocketAt(c)'
  BY DEF TypeOK, SocketAt, Tunnelling, Securing, Finishing, Unconnected
<1>5. CallbackAt(c)'
  BY DEF TypeOK, ConnAt, CallbackAt, Secured, Finishing, Tunnelling, Securing
<1>. QED BY <1>1, <1>2, <1>3, <1>4, <1>5, LocalStep DEF ConnAt

\* The HTTP/2 preface holds nothing by itself.
LEMMA EstablishTransportStep ==
    ASSUME IInv, NEW c \in Conns, EstablishTransport(c)
    PROVE  IInv'
<1>. USE DEF IInv, EstablishTransport, Goto, cacheVars, socketVars
<1>1. TypeOK'
  BY DEF TypeOK, PCs
<1>2. HeldAt(c)'
  BY DEF TypeOK, ConnAt, HeldAt, Secured, SocketAt, Base, Full, TlsResources, Tunnelling, Securing
<1>3. Secured(c)'
  BY DEF ConnAt, Secured, Finishing, Tunnelling, Securing
<1>4. SocketAt(c)'
  BY DEF ConnAt, SocketAt, Tunnelling, Securing, Finishing, Unconnected
<1>5. CallbackAt(c)'
  BY DEF TypeOK, ConnAt, CallbackAt, Secured, Finishing, Tunnelling, Securing
<1>. QED BY <1>1, <1>2, <1>3, <1>4, <1>5, LocalStep DEF ConnAt

\* A preface that cannot be sent frees all of TLS.
LEMMA EstablishTransportFailsStep ==
    ASSUME IInv, NEW c \in Conns, EstablishTransportFails(c)
    PROVE  IInv'
<1>. USE DEF IInv, EstablishTransportFails, Fail, Goto, cacheVars, socketVars
<1>1. TypeOK'
  BY DEF TypeOK, PCs
<1>2. HeldAt(c)'
  BY DEF TypeOK, ConnAt, HeldAt, Secured, SocketAt, Base, Full, TlsResources, Tunnelling, Securing
<1>3. Secured(c)'
  BY DEF ConnAt, Secured, Tunnelling, Securing, Finishing
<1>4. SocketAt(c)'
  BY DEF TypeOK, SocketAt, Tunnelling, Securing, Finishing, Unconnected
<1>5. CallbackAt(c)'
  BY DEF TypeOK, ConnAt, CallbackAt, Secured, Finishing, Tunnelling, Securing
<1>. QED BY <1>1, <1>2, <1>3, <1>4, <1>5, LocalStep DEF ConnAt

\* initSession() adds the Session, and the HPACK context of HTTP/2.
LEMMA InitSessionStep ==
    ASSUME IInv, NEW c \in Conns, InitSession(c)
    PROVE  IInv'
<1>. USE DEF InitSession, Goto, Acquire, Fail, Discard, Made, cacheVars, socketVars, IInv
<1>1. TypeOK'
  BY ConnectAssumption DEF TypeOK, PCs, Resources, TlsResources, AtProxy
<1>2. HeldAt(c)'
  BY DEF TypeOK, ConnAt, HeldAt, Secured, SocketAt, Base, Full, TlsResources, Tunnelling, Securing
<1>3. Secured(c)'
  BY DEF TypeOK, ConnAt, Secured, Tunnelling, Securing, Finishing
<1>4. SocketAt(c)'
  BY DEF TypeOK, ConnAt, Secured, SocketAt, Tunnelling, Securing, Finishing, Unconnected
<1>5. CallbackAt(c)'
  BY DEF TypeOK, ConnAt, CallbackAt
<1>. QED BY <1>1, <1>2, <1>3, <1>4, <1>5, LocalStep DEF TypeOK, ConnAt

\* Without a Session everything that preceded it is freed.
LEMMA InitSessionFailsStep ==
    ASSUME IInv, NEW c \in Conns, InitSessionFails(c)
    PROVE  IInv'
<1>. USE DEF IInv, InitSessionFails, Discard, Goto, cacheVars, socketVars
<1>1. TypeOK'
  BY DEF TypeOK, PCs
<1>2. HeldAt(c)'
  BY DEF TypeOK, ConnAt, HeldAt, Secured, SocketAt, Base, Full, TlsResources, Tunnelling, Securing
<1>3. Secured(c)'
  BY DEF ConnAt, Secured, Tunnelling, Securing, Finishing
<1>4. SocketAt(c)'
  BY DEF TypeOK, SocketAt, Tunnelling, Securing, Finishing, Unconnected
<1>5. CallbackAt(c)'
  BY DEF TypeOK, ConnAt, CallbackAt, Secured, Finishing, Tunnelling, Securing
<1>. QED BY <1>1, <1>2, <1>3, <1>4, <1>5, LocalStep DEF ConnAt

\* Without an HPACK context the Session itself is left over.
LEMMA InitHpackFailsStep ==
    ASSUME IInv, NEW c \in Conns, InitHpackFails(c)
    PROVE  IInv'
<1>. USE DEF IInv, InitHpackFails, Discard, Made, Goto, cacheVars, socketVars
<1>1. TypeOK'
  BY DEF TypeOK, PCs, Resources
<1>2. HeldAt(c)'
  BY DEF TypeOK, ConnAt, HeldAt, Secured, SocketAt, Base, Full, TlsResources, Tunnelling, Securing
<1>3. Secured(c)'
  BY DEF ConnAt, Secured, Tunnelling, Securing, Finishing
<1>4. SocketAt(c)'
  BY DEF TypeOK, SocketAt, Tunnelling, Securing, Finishing, Unconnected
<1>5. CallbackAt(c)'
  BY DEF TypeOK, ConnAt, CallbackAt, Secured, Finishing, Tunnelling, Securing
<1>. QED BY <1>1, <1>2, <1>3, <1>4, <1>5, LocalStep DEF ConnAt

\* The error of an earlier address turns the Session down and leaves it over.
LEMMA StaleErrorFailsStep ==
    ASSUME IInv, NEW c \in Conns, StaleErrorFails(c)
    PROVE  IInv'
<1>. USE DEF IInv, StaleErrorFails, Discard, Made, Goto, cacheVars, socketVars
<1>1. TypeOK'
  BY DEF TypeOK, PCs, Resources
<1>2. HeldAt(c)'
  BY DEF TypeOK, ConnAt, HeldAt, Secured, SocketAt, Base, Full, TlsResources, Tunnelling, Securing, Unconnected
<1>3. Secured(c)'
  BY DEF ConnAt, Secured, Tunnelling, Securing, Finishing
<1>4. SocketAt(c)'
  BY DEF ConnAt, SocketAt, Tunnelling, Securing, Finishing, Unconnected
<1>5. CallbackAt(c)'
  BY DEF TypeOK, ConnAt, CallbackAt, Secured, Finishing, Tunnelling, Securing
<1>. QED BY <1>1, <1>2, <1>3, <1>4, <1>5, LocalStep DEF ConnAt

\* With its reader the HTTP/2 session is whole.
LEMMA StartReaderStep ==
    ASSUME IInv, NEW c \in Conns, StartReader(c)
    PROVE  IInv'
<1>. USE DEF IInv, StartReader, Goto, Acquire, cacheVars, socketVars
<1>1. TypeOK'
  BY DEF TypeOK, PCs, Resources
<1>2. HeldAt(c)'
  BY DEF TypeOK, ConnAt, HeldAt, Secured, SocketAt, Base, Full, TlsResources, Tunnelling, Securing
<1>3. Secured(c)'
  BY DEF ConnAt, Secured, Finishing, Tunnelling, Securing
<1>4. SocketAt(c)'
  BY DEF ConnAt, SocketAt, Tunnelling, Securing, Finishing, Unconnected
<1>5. CallbackAt(c)'
  BY DEF TypeOK, ConnAt, CallbackAt, Secured, Finishing, Tunnelling, Securing
<1>. QED BY <1>1, <1>2, <1>3, <1>4, <1>5, LocalStep DEF ConnAt

\* A session without its reader is closed as a whole.
LEMMA StartReaderFailsStep ==
    ASSUME IInv, NEW c \in Conns, StartReaderFails(c)
    PROVE  IInv'
<1>. USE DEF IInv, StartReaderFails, Fail, Goto, cacheVars, socketVars, Made
<1>1. TypeOK'
  BY DEF TypeOK, PCs
<1>2. HeldAt(c)'
  BY DEF TypeOK, ConnAt, HeldAt, Secured, SocketAt, Base, Full, TlsResources, Tunnelling, Securing
<1>3. Secured(c)'
  BY DEF ConnAt, Secured, Tunnelling, Securing, Finishing
<1>4. SocketAt(c)'
  BY DEF TypeOK, SocketAt, Tunnelling, Securing, Finishing, Unconnected
<1>5. CallbackAt(c)'
  BY DEF TypeOK, ConnAt, CallbackAt, Secured, Finishing, Tunnelling, Securing
<1>. QED BY <1>1, <1>2, <1>3, <1>4, <1>5, LocalStep DEF ConnAt

\* The reader has left, and no callback with it, before the session is freed.
LEMMA StopReaderStep ==
    ASSUME IInv, NEW c \in Conns, StopReader(c)
    PROVE  IInv'
<1>. USE DEF IInv, StopReader, Goto, cacheVars, socketVars, Made
<1>1. TypeOK'
  BY DEF TypeOK, PCs
<1>2. HeldAt(c)'
  BY DEF TypeOK, ConnAt, HeldAt, Secured, SocketAt, Base, Full, TlsResources, Tunnelling, Securing
<1>3. Secured(c)'
  BY DEF ConnAt, Secured, Tunnelling, Securing, Finishing
<1>4. SocketAt(c)'
  BY DEF ConnAt, SocketAt, Tunnelling, Securing, Finishing, Unconnected
<1>5. CallbackAt(c)'
  BY DEF TypeOK, ConnAt, CallbackAt, HeldAt, Full, Secured, Finishing, Tunnelling, Securing
<1>. QED BY <1>1, <1>2, <1>3, <1>4, <1>5, LocalStep DEF ConnAt

\* closeSession() frees all that the session held.
LEMMA FreeSessionStep ==
    ASSUME IInv, NEW c \in Conns, FreeSession(c)
    PROVE  IInv'
<1>. USE DEF IInv, FreeSession, Goto, cacheVars, socketVars, Made
<1>1. TypeOK'
  BY DEF TypeOK, PCs
<1>2. HeldAt(c)'
  BY DEF TypeOK, ConnAt, HeldAt, Secured, SocketAt, Base, Full, TlsResources, Tunnelling, Securing
<1>3. Secured(c)'
  BY DEF ConnAt, Secured, Tunnelling, Securing, Finishing
<1>4. SocketAt(c)'
  BY DEF ConnAt, SocketAt, Tunnelling, Securing, Finishing, Unconnected
<1>5. CallbackAt(c)'
  BY DEF TypeOK, ConnAt, CallbackAt, Secured, Finishing, Tunnelling, Securing
<1>. QED BY <1>1, <1>2, <1>3, <1>4, <1>5, LocalStep DEF ConnAt
-----------------------------------------------------------------------------
(* The tickets                                                              *)

\* lookupTLSSession() and cacheTLSSession() take the first slot of those that fit.
LEMMA FirstIsOne ==
    ASSUME NEW S \in SUBSET Slots, S # {}
    PROVE  First(S) \in S
<1>1. S \subseteq Nat
  BY DEF Slots
<1>2. PICK i \in S : \A j \in S : ~(<<j, i>> \in OpToRel(<, Nat))
  <2>1. IsWellFoundedOn(OpToRel(<, Nat), Nat)
    BY NatLessThanWellFounded
  <2>. QED BY <1>1, <2>1, WFMin
<1>3. \A j \in S : i <= j
  <2>. TAKE j \in S
  <2>1. ~(j < i)
    BY <1>1, <1>2 DEF OpToRel
  <2>. QED BY <1>1, <2>1
<1>. QED BY <1>3 DEF First

\* A ticket that is found under a key was filed under it.
LEMMA FoundMatches ==
    ASSUME NEW key, Found(key) # {}
    PROVE  First(Found(key)) \in Slots /\ cache[First(Found(key))].used /\ cache[First(Found(key))].key = key
<1>1. Found(key) \in SUBSET Slots
  BY DEF Found
<1>2. First(Found(key)) \in Found(key)
  BY <1>1, FirstIsOne
<1>. QED BY <1>2 DEF Found, Matches

\* The ticket that is offered was filed under the key of the connection.
LEMMA OfferSessionStep ==
    ASSUME IInv, NEW c \in Conns, OfferSession(c)
    PROVE  IInv'
<1>. USE DEF OfferSession, Goto, Acquire, socketVars, IInv
<1>. DEFINE ticket == IF request[c].enablePreSharedKey /\ Found(Key(c)) # {}
                      THEN cache[First(Found(Key(c)))] ELSE NoTicket
<1>0. /\ offered' = [offered EXCEPT ![c] = ticket]
      /\ ticket \in Entries
      /\ ticket.used /\ ~ticket.dangling => ticket.issuer = Key(c)
      /\ refs'[c] = refs[c] \/ (refs'[c] = refs[c] \cup {"offered"} /\ ticket.used)
  <2>1. CASE request[c].enablePreSharedKey /\ Found(Key(c)) # {}
    <3>1. /\ First(Found(Key(c))) \in Slots
          /\ cache[First(Found(Key(c)))].used /\ cache[First(Found(Key(c)))].key = Key(c)
      BY <2>1, FoundMatches
    <3>2. ticket = cache[First(Found(Key(c)))]
      BY <2>1
    <3>. QED BY <3>1, <3>2 DEF TypeOK, Filed
  <2>2. CASE ~(request[c].enablePreSharedKey /\ Found(Key(c)) # {})
    BY <2>2 DEF TypeOK, NoTicket, Entries, Empty
  <2>. QED BY <2>1, <2>2
<1>. HIDE DEF ticket
<1>1. TypeOK'
  BY <1>0 DEF TypeOK, PCs, Resources, TlsResources
<1>2. ASSUME NEW d \in Conns
      PROVE  ConnAt(d)'
  <2>1. HeldAt(d)'
    BY DEF TypeOK, ConnAt, HeldAt, Secured, Base, Full, Made, TlsResources, Tunnelling, Securing
  <2>2. Secured(d)'
    BY DEF TypeOK, ConnAt, Secured, Tunnelling, Securing, Finishing
  <2>3. SocketAt(d)'
    BY DEF TypeOK, ConnAt, SocketAt, Tunnelling, Securing, Finishing, Unconnected
  <2>4. CallbackAt(d)'
    BY DEF TypeOK, ConnAt, CallbackAt
  <2>. QED BY <2>1, <2>2, <2>3, <2>4 DEF ConnAt
<1>3. Filed'
  BY DEF Filed
<1>4. OffersOwnTicket'
  BY <1>0 DEF TypeOK, OffersOwnTicket, Key
<1>5. RefsOK'
  <2>1. ASSUME NEW d \in Conns, d # c
        PROVE  RefsAt(d)'
    BY <2>1 DEF TypeOK, RefsOK, RefsAt
  <2>2. offered'[c] = ticket /\ "offered" \notin refs[c]
    BY <1>0 DEF TypeOK, ConnAt, Secured, Securing, Finishing
  <2>3. RefsAt(c)'
    BY <1>0, <2>2 DEF RefsOK, RefsAt
  <2>. QED BY <2>1, <2>3 DEF RefsOK
<1>. QED BY <1>1, <1>2, <1>3, <1>4, <1>5

\* A step that leaves the connections themselves alone.
LEMMA TicketStep ==
    ASSUME IInv, TypeOK', Filed', RefsOK', UNCHANGED <<request, pc, error, held, socketVars, offered>>,
           \A d \in Conns : CallbackAt(d)' /\ ("offered" \in refs'[d] => "offered" \in refs[d])
    PROVE  IInv'
<1>1. ASSUME NEW d \in Conns
      PROVE  HeldAt(d)' /\ Secured(d)' /\ SocketAt(d)'
  BY DEF IInv, ConnAt, HeldAt, Base, Full, Secured, SocketAt, socketVars
<1>2. OffersOwnTicket'
  BY DEF IInv, OffersOwnTicket, Key
<1>. QED BY <1>1, <1>2 DEF IInv, ConnAt

\* A ticket arrives within the handshake, or on the reader of a session in use.
LEMMA TicketArrivesStep ==
    ASSUME IInv, NEW c \in Conns, TicketArrives(c)
    PROVE  IInv'
<1>. USE DEF TicketArrives, IInv
<1>1. TypeOK'
  BY ConnectAssumption DEF TypeOK, socketVars
<1>2. \A d \in Conns : CallbackAt(d)'
  <2>. TAKE d \in Conns
  <2>1. CallbackAt(d) /\ HeldAt(d) /\ Secured(d)
    BY DEF ConnAt
  <2>2. d # c => CallbackAt(d)'
    BY <2>1 DEF TypeOK, CallbackAt, socketVars
  <2>3. CASE d = c
    BY <2>1, <2>3 DEF TypeOK, CallbackAt, HeldAt, Secured, socketVars, Reading, Full, Base, Made, TlsResources,
                      Tunnelling, Securing, Finishing, PCs
  <2>. QED BY <2>2, <2>3
<1>3. Filed'
  BY DEF Filed
<1>4. RefsOK'
  BY DEF TypeOK, RefsOK, RefsAt
<1>. QED BY <1>1, <1>2, <1>3, <1>4, TicketStep

\* A ticket is filed under the key of its issuer unless the request was over.
LEMMA CacheTicketStep ==
    ASSUME IInv, NEW c \in Conns, NEW key \in Keys, NEW slot \in Slots, CacheTicket(c, key, slot)
    PROVE  IInv'
<1>. USE DEF CacheTicket, IInv
<1>. DEFINE ticket == [used |-> TRUE, key |-> key, issuer |-> Key(c), dangling |-> ~KeyReadable(c)]
<1>0. ticket \in Entries
  BY DEF TypeOK, Key, Keys, Entries, KeyReadable
<1>1. TypeOK'
  BY <1>0 DEF TypeOK, socketVars
<1>2. \A d \in Conns : CallbackAt(d)'
  BY DEF TypeOK, ConnAt, CallbackAt, socketVars
<1>4. RefsOK'
  BY ConnectAssumption DEF TypeOK, RefsOK, RefsAt
<1>3. Filed'
  BY DEF TypeOK, Filed
<1>. QED BY <1>1, <1>2, <1>3, <1>4, TicketStep DEF TypeOK

\* The end of a request leaves its connection alone.
LEMMA FreeBasketStep ==
    ASSUME IInv, NEW c \in Conns, FreeBasket(c)
    PROVE  IInv'
<1>. USE DEF FreeBasket, IInv
<1>1. TypeOK'
  BY DEF TypeOK, socketVars
<1>2. \A d \in Conns : CallbackAt(d)'
  BY DEF TypeOK, ConnAt, CallbackAt, socketVars
<1>4. RefsOK'
  BY ConnectAssumption DEF TypeOK, RefsOK, RefsAt
<1>3. Filed'
  BY DEF Filed
<1>. QED BY <1>1, <1>2, <1>3, <1>4, TicketStep

\* An exchange begins on a session in use, and may outlive its request.
LEMMA ExchangeStep ==
    ASSUME IInv, NEW c \in Conns, Exchange(c)
    PROVE  IInv'
<1>. USE DEF Exchange, StartExchange, AbandonExchange, EndExchange, IInv
<1>1. TypeOK'
  BY DEF TypeOK, socketVars
<1>2. \A d \in Conns : CallbackAt(d)'
  BY DEF TypeOK, ConnAt, CallbackAt, socketVars
<1>3. Filed'
  BY DEF Filed
<1>4. RefsOK'
  BY DEF RefsOK, RefsAt
<1>. QED BY <1>1, <1>2, <1>3, <1>4, TicketStep

\* cleanupTLSSessionCache() empties every slot.
LEMMA CleanupStep ==
    ASSUME IInv, CleanupTLSSessionCache
    PROVE  IInv'
<1>. USE DEF CleanupTLSSessionCache, IInv
<1>1. TypeOK'
  BY DEF TypeOK, socketVars, Entries
<1>2. \A d \in Conns : CallbackAt(d)'
  BY DEF TypeOK, ConnAt, CallbackAt, socketVars
<1>4. RefsOK'
  BY ConnectAssumption DEF TypeOK, RefsOK, RefsAt
<1>3. Filed'
  BY DEF Filed, Empty
<1>. QED BY <1>1, <1>2, <1>3, <1>4, TicketStep

-----------------------------------------------------------------------------
(* The theorems                                                             *)

\* Nothing is held, offered or cached at the start.
LEMMA InitHolds == Init => IInv
<1>. SUFFICES ASSUME Init
              PROVE  IInv
  OBVIOUS
<1>. USE DEF Init
<1>1. TypeOK
  BY ConnectAssumption DEF TypeOK, PCs, Entries, Empty, NoTicket
<1>2. \A c \in Conns : ConnAt(c)
  BY DEF ConnAt, HeldAt, Secured, SocketAt, CallbackAt, Tunnelling, Securing, Finishing, Unconnected
<1>3. Filed /\ OffersOwnTicket /\ RefsOK
  BY DEF Filed, OffersOwnTicket, RefsOK, RefsAt, Empty, NoTicket
<1>. QED BY <1>1, <1>2, <1>3 DEF IInv

\* Every step preserves the invariant.
LEMMA NextHolds == IInv /\ [Next]_vars => IInv'
<1>. SUFFICES ASSUME IInv, [Next]_vars
              PROVE  IInv'
  OBVIOUS
<1>1. ASSUME NEW c \in Conns, Step(c)
      PROVE  IInv'
  BY <1>1, ResolveStep, ResolveFailsStep, OpenSocketStep, OpenSocketFailsStep, NoAddressLeftStep,
     AddressFailsStep, SendConnectStep, SendConnectFailsStep, TunnelTimesOutStep, CreateSSLContextStep,
     CreateSSLContextFailsStep, CreateSSLStep, CreateSSLFailsStep, ConfigureSSLSettingsStep,
     ConfigureSSLSettingsFailsStep, OfferSessionStep, BoundHandshakeStep, BoundHandshakeFailsStep,
     HandshakeFailsStep, ClearTimeoutsStep, ClearTimeoutsFailsStep, SetModeStep, SetModeFailsStep,
     EstablishTransportStep, EstablishTransportFailsStep, InitSessionStep, InitSessionFailsStep,
     InitHpackFailsStep, StaleErrorFailsStep, StartReaderStep, StartReaderFailsStep
     DEF Step, HandshakeTimesOut
<1>2. ASSUME NEW c \in Conns, Peer(c)
      PROVE  IInv'
  BY <1>2, ConnectedStep, TunnelOpenStep, TunnelRefusedStep, HandshakeStep, HandshakeFailsStep,
     TicketArrivesStep DEF Peer
<1>3. ASSUME NEW c \in Conns, CallbackReturns(c) \/ Exchange(c) \/ Reaper(c)
      PROVE  IInv'
  BY <1>3, CacheTicketStep, ExchangeStep, FreeBasketStep, StopReaderStep, FreeSessionStep DEF CallbackReturns, Reaper
<1>4. CASE UNCHANGED vars
  <2>1. TypeOK' /\ Filed' /\ RefsOK'
    BY <1>4 DEF vars, IInv, TypeOK, Filed, RefsOK, RefsAt
  <2>2. \A d \in Conns : CallbackAt(d)'
    BY <1>4 DEF vars, IInv, ConnAt, CallbackAt
  <2>. QED BY <1>4, <2>1, <2>2, TicketStep DEF vars, socketVars
<1>. QED BY <1>1, <1>2, <1>3, <1>4, CleanupStep DEF Next, Over

\* What createSession() holds at each step, and whose tickets the cache holds, is so
\* in every reachable state.
THEOREM Invariance == Spec => []IInv
BY InitHolds, NextHolds, PTL DEF Spec

\* Connections, sockets and cache slots stay in their types.
THEOREM TypeCorrect == Spec => []TypeOK
<1>1. IInv => TypeOK
  BY DEF IInv
<1>. QED BY <1>1, Invariance, PTL

\* Whatever step of createSession() fails, and when a session is closed, descriptor, SSL,
\* SSL_CTX, connInfo and reader are given back.  What stays is a Session that
\* sessionInitFailed() turned down, and references to SSL_SESSIONs that were offered or
\* issued.
THEOREM FailuresGiveBack == Spec => []NothingLeaks
<1>1. IInv => NothingLeaks
  BY DEF IInv, TypeOK, ConnAt, HeldAt, RefsOK, RefsAt, NothingLeaks
<1>. QED BY <1>1, Invariance, PTL

\* createSession() hands out sessions that are whole: no error, no connect timeout left
\* on the socket, the mode asked for, and what the protocol needs.
THEOREM SessionWhole == Spec => []ReadyToTransfer
<1>1. IInv => ReadyToTransfer
  <2>. SUFFICES ASSUME IInv, NEW c \in Conns, pc[c] = "ready"
                PROVE  /\ error[c] = "none"
                       /\ ~timed[c]
                       /\ blocking[c] \in (IF request[c].nonBlocking THEN {"no"} ELSE {"yes", "stuck"})
                       /\ held[c] = {"sockfd", "session"}
                                      \cup (IF request[c].tls THEN TlsResources ELSE {})
                                      \cup (IF protocol[c] = "h2" THEN {"hpackCtx", "reader"} ELSE {})
    BY DEF ReadyToTransfer
  <2>1. /\ error[c] = "none" /\ ~timed[c]
        /\ blocking[c] \in (IF request[c].nonBlocking THEN {"no"} ELSE {"yes", "stuck"})
    BY DEF IInv, ConnAt, SocketAt, Finishing
  <2>2. held[c] = Full(c) \cup (IF protocol[c] = "h2" THEN {"reader"} ELSE {})
    BY DEF IInv, ConnAt, HeldAt
  <2>. QED BY <2>1, <2>2 DEF Full, Base, Made, TlsResources
<1>. QED BY <1>1, Invariance, PTL

\* newSessionCallback() never follows a connInfo that closeSession() or a failing
\* createSession() has freed, unless it runs in an exchange whose request has given up.
THEOREM CallbackSafe == Spec => []ConnInfoLive
<1>1. IInv => ConnInfoLive
  BY DEF IInv, ConnAt, CallbackAt, HeldAt, Securing, Full, Base, TlsResources, ConnInfoLive
<1>. QED BY <1>1, Invariance, PTL

\* lookupTLSSession() offers a server only what it issued over the same route, tickets
\* filed after their request was over excepted.
THEOREM ResumesOwnTicket == Spec => []OffersOwnTicket
<1>1. IInv => OffersOwnTicket
  BY DEF IInv
<1>. QED BY <1>1, Invariance, PTL
=============================================================================
