----------------------------- MODULE MCConnect -----------------------------
(* Two connections: directly or through a proxy, TLS or plain.              *)
EXTENDS Connect

CONSTANTS h1, h2, p1

Request(tls, host, proxy, nonBlocking, forceHttp11, psk) ==
    [tls |-> tls, host |-> host, proxy |-> proxy, nonBlocking |-> nonBlocking,
     forceHttp11 |-> forceHttp11, enablePreSharedKey |-> psk]

\* One that may negotiate HTTP/2, one for the same host through a proxy that asks for
\* HTTP/1.1, and one without TLS.
MCRequests == {Request(TRUE, h1, NoProxy, FALSE, FALSE, TRUE),
               Request(TRUE, h1, p1, TRUE, TRUE, TRUE),
               Request(FALSE, h2, p1, TRUE, FALSE, FALSE)}
=============================================================================
