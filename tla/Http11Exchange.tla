---------------------------- MODULE Http11Exchange ----------------------------
(***************************************************************************)
(* The exchanges of one HTTP/1.1 connection, one after the other: send the *)
(* request, read the head and the body through a private buffer, then      *)
(* decide whether the connection may carry another exchange.               *)
(*                                                                         *)
(* Bytes are abstracted to the units the reader tells apart: a status line *)
(* with its headers, a piece of body, the last chunk with its trailers.    *)
(* Each carries the number of the exchange it answers.  How the units fall *)
(* into reads is arbitrary, as TCP and TLS make it.                        *)
(***************************************************************************)
EXTENDS Integers, Sequences

CONSTANTS Responses,      \* the responses the server may give, see ResponseShape
          NumExchanges,   \* bound on the exchanges of the connection
          MayCloseEarly   \* whether the server may close in mid-response

Framings == {"none", "length", "chunked", "close"}
Flaws == {"none", "negative", "garbled"}
\* interim: a 1xx response precedes the final one; close: "Connection: close";
\* flaw: what is wrong with the size line of its last chunk of data.
ResponseShape == [framing : Framings, body : Nat, interim : BOOLEAN, close : BOOLEAN, flaw : Flaws]

ASSUME ExchangeAssumption ==
    /\ \A r \in Responses : r \in ResponseShape /\ (r.framing = "none" => r.body = 0)
                             /\ (r.flaw # "none" => r.framing = "chunked" /\ r.body > 0)
    /\ NumExchanges \in Nat
    /\ MayCloseEarly \in BOOLEAN

VARIABLES n,          \* the current exchange; 0 before the first
          phase,      \* "idle", "send", "head", "body" or "over"
          response,   \* the response the server gives to exchange n
          outbox,     \* server: units still to be written
          inbound,    \* units in the socket
          closed,     \* the server closed the connection
          buf,        \* Http11Reader: buffered units not yet consumed
          ending,     \* Http11Reader.eof and err: "open", "eof", "error", "timeout"
          head,       \* the head that was parsed
          remaining,  \* content-length units still expected
          got,        \* units of the response handed to the stream
          result,     \* "none", "ok" or "failed"
          goingAway,  \* session->goingAway
          waiting,    \* requests handed this connection that wait for writeMutex
          late,       \* history: exchange n began after the connection was given up
          blocked     \* the reader is inside SSL_read(), which has no deadline

serverVars == <<response, outbox, inbound, closed>>
readerVars == <<buf, ending, head, remaining, got>>
handVars == <<waiting, late>>
vars == <<n, phase, serverVars, readerVars, result, goingAway, handVars, blocked>>

Unit(of, kind) == [of |-> of, kind |-> kind]
HeadUnit(of, r) == [of |-> of, kind |-> "head", framing |-> r.framing, body |-> r.body, close |-> r.close]
NoHead == [of |-> 0, kind |-> "head", framing |-> "none", body |-> 0, close |-> FALSE]
Body(of, r) == [i \in 1 .. r.body |-> Unit(of, "data")]

\* What the server writes for exchange `of`.  The unit of a flawed chunk is its
\* size line with all that follows, down to the empty line that ends the response.
Script(of, r) ==
    (IF r.interim THEN <<Unit(of, "interim")>> ELSE <<>>)
    \o <<HeadUnit(of, r)>>
    \o (IF r.flaw # "none" THEN Append(Tail(Body(of, r)), Unit(of, r.flaw))
        ELSE IF r.framing = "chunked" THEN Append(Body(of, r), Unit(of, "last"))
        ELSE Body(of, r))

Init ==
    /\ n = 0
    /\ phase = "idle"
    /\ response \in Responses
    /\ outbox = <<>>
    /\ inbound = <<>>
    /\ closed = FALSE
    /\ buf = <<>>
    /\ ending = "open"
    /\ head = NoHead
    /\ remaining = 0
    /\ got = <<>>
    /\ result = "none"
    /\ goingAway = FALSE
    /\ waiting = 0
    /\ late = FALSE
    /\ blocked = FALSE

-----------------------------------------------------------------------------
(* The server                                                               *)

ServerWrites ==
    /\ ~closed /\ outbox # <<>>
    /\ inbound' = Append(inbound, outbox[1])
    /\ outbox' = Tail(outbox)
    /\ UNCHANGED <<n, phase, response, closed, readerVars, result, goingAway, handVars, blocked>>

ServerCloses ==
    /\ ~closed
    /\ outbox = <<>> \/ MayCloseEarly
    /\ closed' = TRUE
    /\ outbox' = <<>>
    /\ UNCHANGED <<n, phase, response, inbound, readerVars, result, goingAway, handVars, blocked>>

-----------------------------------------------------------------------------
(* handleHttp11RequestSync() and sendHttp11Request()                        *)

\* getSessionInfo() hands out a connection that is not going away and has no
\* registered request; several lookups may come before the first registration.
HandOut ==
    /\ phase \in {"idle", "over"}
    /\ ~goingAway
    /\ n + waiting < NumExchanges
    /\ waiting' = waiting + 1
    /\ UNCHANGED <<n, phase, serverVars, readerVars, result, goingAway, late, blocked>>

\* The request gets writeMutex.  goingAway is not tested again: the exchange that
\* held the mutex before may have given the connection up since the lookup.
\* receiveHttp11Response() starts with an empty reader.
Begin ==
    /\ phase \in {"idle", "over"}
    /\ waiting > 0
    /\ waiting' = waiting - 1
    /\ late' = goingAway
    /\ n' = n + 1
    /\ response' \in Responses
    /\ phase' = "send"
    /\ buf' = <<>> /\ ending' = "open" /\ head' = NoHead /\ remaining' = 0 /\ got' = <<>>
    /\ result' = "none"
    /\ UNCHANGED <<outbox, inbound, closed, goingAway, blocked>>

\* A write into a connection the server has closed may still succeed here.
Send ==
    /\ phase = "send"
    /\ outbox' = IF closed THEN outbox ELSE outbox \o Script(n, response)
    /\ phase' = "head"
    /\ UNCHANGED <<n, response, inbound, closed, readerVars, result, goingAway, handVars, blocked>>

SendFails ==
    /\ phase = "send"
    /\ result' = "failed"
    /\ goingAway' = TRUE
    /\ phase' = "over"
    /\ UNCHANGED <<n, serverVars, readerVars, handVars, blocked>>

-----------------------------------------------------------------------------
(* readerFill() over sessionReadTimed()                                     *)

\* A line or body read that the buffer cannot serve.
NeedsInput ==
    /\ buf = <<>> /\ ending = "open"
    /\ \/ phase = "head"
       \/ phase = "body" /\ head.framing = "chunked"
       \/ phase = "body" /\ head.framing = "length" /\ remaining > 0

FillBuffer ==
    /\ NeedsInput
    /\ \E k \in 1 .. Len(inbound) :
        /\ buf' = buf \o SubSeq(inbound, 1, k)
        /\ inbound' = SubSeq(inbound, k + 1, Len(inbound))
    /\ blocked' = FALSE
    /\ UNCHANGED <<n, phase, response, outbox, closed, ending, head, remaining, got, result, goingAway, handVars>>

\* select() reported a record that is not there in full, or one without data:
\* SSL_read() on the blocking socket waits for the rest, past the deadline.
WaitsForInput == NeedsInput \/ (phase = "body" /\ head.framing = "close")
FillBlocks ==
    /\ WaitsForInput
    /\ inbound = <<>> /\ ~closed /\ ~blocked
    /\ blocked' = TRUE
    /\ UNCHANGED <<n, phase, serverVars, readerVars, result, goingAway, handVars>>

\* EOF once everything has been read; the deadline passes in select().
EndingsNoDeadline == IF inbound = <<>> /\ closed THEN {"eof"} ELSE {}
Endings ==
    IF inbound # <<>> THEN {} ELSE IF closed THEN {"eof"} ELSE IF blocked THEN {} ELSE {"timeout"}

FillEnds ==
    /\ NeedsInput
    /\ ending' \in Endings
    /\ blocked' = FALSE
    /\ UNCHANGED <<n, phase, serverVars, buf, head, remaining, got, result, goingAway, handVars>>

\* A read may fail at any time.
FillFails ==
    /\ NeedsInput
    /\ ending' = "error"
    /\ blocked' = FALSE
    /\ UNCHANGED <<n, phase, serverVars, buf, head, remaining, got, result, goingAway, handVars>>

-----------------------------------------------------------------------------
(* readResponseHead()                                                       *)

\* The body units a head announces.
Announced(h) == h.body

\* Interim responses are parsed as any other head, and carry no body.
ReadHead ==
    /\ phase = "head"
    /\ buf # <<>>
    /\ buf[1].kind \in {"head", "interim"}
    /\ head' = IF buf[1].kind = "head" THEN buf[1] ELSE NoHead
    /\ remaining' = Announced(head')
    /\ got' = Append(got, buf[1])
    /\ buf' = Tail(buf)
    /\ phase' = "body"
    /\ UNCHANGED <<n, serverVars, ending, result, goingAway, handVars, blocked>>

\* A connection without a usable head stays in the pool.
HeadFailsKeeps ==
    /\ phase = "head"
    /\ IF buf = <<>> THEN ending # "open" ELSE buf[1].kind \notin {"head", "interim"}
    /\ result' = "failed"
    /\ phase' = "over"
    /\ UNCHANGED <<n, serverVars, readerVars, goingAway, handVars, blocked>>

\* A malformed status line, or no complete head before the connection ended.
HeadFails ==
    /\ phase = "head"
    /\ IF buf = <<>> THEN ending # "open" ELSE buf[1].kind \notin {"head", "interim"}
    /\ result' = "failed"
    /\ goingAway' = TRUE
    /\ phase' = "over"
    /\ UNCHANGED <<n, serverVars, readerVars, handVars, blocked>>

-----------------------------------------------------------------------------
(* readBody() and closeSessionIfSingleUse()                                 *)

\* readBody()'s code: 1 the whole body, 0 end of input, -1 anything else.  The
\* consumer stopping the response also comes out as -1.
FinishForgetful(rc) ==
    /\ phase' = "over"
    /\ result' = IF rc \in {0, 1} THEN "ok" ELSE "failed"
    /\ goingAway' = (goingAway \/ head.framing = "close" \/ head.close)

FinishOptimistic(rc) ==
    /\ phase' = "over"
    /\ result' = "ok"
    /\ goingAway' = (goingAway \/ head.framing = "close" \/ rc \notin {0, 1} \/ head.close)

Finish(rc) ==
    /\ phase' = "over"
    /\ result' = IF rc \in {0, 1} THEN "ok" ELSE "failed"
    /\ goingAway' = (goingAway \/ head.framing = "close" \/ rc \notin {0, 1} \/ head.close)

\* appendStreamPayload(), with what the consumer answers.
Deliver(units) == got' = got \o units

\* No body, or all of content-length, or the last chunk.
BodyComplete ==
    /\ phase = "body"
    /\ \/ head.framing = "none"
       \/ head.framing = "length" /\ remaining = 0
    /\ Finish(1)
    /\ UNCHANGED <<n, serverVars, readerVars, handVars, blocked>>

\* strtol() reads a size line that is no number as 0: the trailers are skipped
\* down to the next empty line.
LastChunk ==
    /\ phase = "body" /\ head.framing = "chunked"
    /\ buf # <<>> /\ buf[1].kind \in {"last", "garbled"}
    /\ buf' = Tail(buf)
    /\ Finish(1)
    /\ UNCHANGED <<n, serverVars, ending, head, remaining, got, handVars, blocked>>

\* readerReadBody() takes the bytes that come next, whatever they are.
WantsPiece ==
    \/ head.framing = "length" /\ remaining > 0
    \/ head.framing = "chunked" /\ buf[1].kind = "data"

ReadPiece ==
    /\ phase = "body" /\ buf # <<>>
    /\ WantsPiece
    /\ Deliver(<<buf[1]>>)
    /\ buf' = Tail(buf)
    /\ remaining' = IF head.framing = "length" THEN remaining - 1 ELSE remaining
    /\ \/ UNCHANGED <<phase, result, goingAway>>
       \/ Finish(-1)
    /\ UNCHANGED <<n, serverVars, ending, head, handVars, blocked>>

\* The only size line that is refused is a negative one.
MalformedChunk ==
    /\ phase = "body" /\ head.framing = "chunked"
    /\ buf # <<>> /\ buf[1].kind = "negative"
    /\ Finish(-1)
    /\ UNCHANGED <<n, serverVars, readerVars, handVars, blocked>>

\* The input ended inside the body: end of input is code 0.
BodyEnds ==
    /\ phase = "body" /\ buf = <<>> /\ ending # "open"
    /\ head.framing = "chunked" \/ (head.framing = "length" /\ remaining > 0)
    /\ Finish(IF ending = "eof" THEN 0 ELSE -1)
    /\ UNCHANGED <<n, serverVars, readerVars, handVars, blocked>>

\* readUntilCloseBody() reads the socket, not the buffer.
ReadUntilClose ==
    /\ phase = "body" /\ head.framing = "close"
    /\ \E k \in 1 .. Len(inbound) :
        /\ Deliver(SubSeq(inbound, 1, k))
        /\ inbound' = SubSeq(inbound, k + 1, Len(inbound))
    /\ \/ UNCHANGED <<phase, result, goingAway>>
       \/ Finish(-1)
    /\ blocked' = FALSE
    /\ UNCHANGED <<n, response, outbox, closed, buf, ending, head, remaining, handVars>>

UntilCloseEnds ==
    /\ phase = "body" /\ head.framing = "close"
    /\ \E e \in Endings : Finish(IF e = "eof" THEN 0 ELSE -1)
    /\ blocked' = FALSE
    /\ UNCHANGED <<n, serverVars, readerVars, handVars>>

UntilCloseFails ==
    /\ phase = "body" /\ head.framing = "close"
    /\ Finish(-1)
    /\ blocked' = FALSE
    /\ UNCHANGED <<n, serverVars, readerVars, handVars>>

-----------------------------------------------------------------------------
(* Specification                                                            *)

\* The steps whose waits the deadline bounds.
Exchange ==
    \/ FillBuffer \/ FillEnds \/ ReadHead \/ HeadFails
    \/ BodyComplete \/ LastChunk \/ ReadPiece \/ MalformedChunk \/ BodyEnds
    \/ ReadUntilClose \/ UntilCloseEnds

\* Writes and reads on the blocking socket may take for ever, and need not fail.
Unbounded == Send \/ SendFails \/ FillBlocks \/ FillFails \/ UntilCloseFails

Next == ServerWrites \/ ServerCloses \/ HandOut \/ Begin \/ Exchange \/ Unbounded

Spec == Init /\ [][Next]_vars /\ WF_vars(Exchange)

-----------------------------------------------------------------------------
(* Properties                                                               *)

Kinds == {"head", "interim", "data", "last"} \cup (Flaws \ {"none"})

\* Every variable stays in its range; no read goes past content-length.
TypeOK ==
    /\ n \in 0 .. NumExchanges
    /\ phase \in {"idle", "send", "head", "body", "over"}
    /\ response \in Responses
    /\ \A s \in {outbox, inbound, buf, got} :
        \A i \in 1 .. Len(s) : s[i].kind \in Kinds /\ s[i].of \in 1 .. NumExchanges
    /\ closed \in BOOLEAN
    /\ ending \in {"open", "eof", "error", "timeout"}
    /\ head.framing \in Framings
    /\ remaining \in Nat
    /\ result \in {"none", "ok", "failed"}
    /\ goingAway \in BOOLEAN /\ late \in BOOLEAN /\ blocked \in BOOLEAN
    /\ n + waiting \in 0 .. NumExchanges /\ waiting \in Nat

\* A request that gets writeMutex while the connection is still good only ever sees
\* bytes of its own response, whatever the exchanges before it left behind: every
\* exchange that leaves bytes on the connection gives it up.  (A late request is
\* exempt: it may read the rest of the response before its own.)
NoCrossTalk == ~late => \A i \in 1 .. Len(got) : got[i].of = n

\* "The connection can only be reused when the whole body left it": once an
\* exchange is over and the connection stays in use, nothing of it is still to come.
CleanReuse == phase = "over" /\ ~goingAway => outbox = <<>> /\ inbound = <<>> /\ buf = <<>>

Whole == <<HeadUnit(n, response)>> \o Body(n, response)

\* A success reported while the connection is still open delivered the whole of a
\* delimited response, in whatever pieces it came: content-length was counted down
\* exactly, no chunk was dropped, and a consumer's stop is not a success.  (A late
\* request is exempt, and so is one whose connection ended inside the body.)
DelimitedResponseWhole ==
    ~late /\ phase = "over" /\ result = "ok" /\ ending = "open"
        /\ head.framing # "close" /\ response.flaw # "garbled" => got = Whole

\* Every exchange that reports success delivered the final response, whole.
WholeResponse == phase = "over" /\ result = "ok" => got = Whole

\* Once its request is sent, every exchange comes to an end, however the server
\* behaves, unless a read of a TLS record that never completes holds it for ever.
EveryExchangeEnds == []<>~blocked => (phase = "head" ~> phase = "over")

=============================================================================
