---------------------------- MODULE ResponseSink ----------------------------
(***************************************************************************)
(* The callback contract of one blocking HTTP/2 request with a             *)
(* ResponseStream: onHeaders, onData and onComplete, called by the reader  *)
(* thread of the connection while the request's own thread sends, waits,   *)
(* gives up or retries.  Every attempt has its own connection and Stream;  *)
(* the ResponseSink behind them is the same.                               *)
(*                                                                         *)
(* A frame is handled with stream->lock held, so receiving it, calling     *)
(* back and ending the stream are one step (module StreamMux has the       *)
(* locks).  The peer keeps to RFC 9113: header blocks may be split, the    *)
(* body lies between the final headers and END_STREAM or the trailers.     *)
(***************************************************************************)
EXTENDS Integers, Sequences

CONSTANTS MaxPieces,   \* bound on the DATA frames of both attempts
          Behaviours   \* what the peer may do beside a plain response

\* interim: a 1xx header block; trailers: a header block after the body;
\* endingBlock: END_STREAM on a header block that is split; lateReset:
\* RST_STREAM after the complete response; garbled: a body that cannot be
\* decoded; unreadable: a header block that cannot be decoded.
ASSUME SinkAssumption ==
    /\ MaxPieces \in Nat
    /\ Behaviours \subseteq {"interim", "trailers", "endingBlock", "lateReset", "garbled", "unreadable"}

Attempts == {1, 2}
Kinds == {"interim", "final", "trailers"}
RetryableErrors == {"goAway", "http11Required"}
Errors == RetryableErrors \cup {"connection", "reset", "headers", "aborted", "inflate"}

VARIABLES attempt,   \* the attempt under way
          pc,        \* the request thread
          result,    \* basket->error, "none" when there is none
          peer,      \* per attempt, what the server has sent
          connError, \* per attempt, session->connError
          stream,    \* per attempt, the Stream
          sink,      \* the ResponseSink
          calls,     \* history: per attempt, the callbacks made during it
          resets     \* history: RST_STREAM frames queued in this attempt

vars == <<attempt, pc, result, peer, connError, stream, sink, calls, resets>>

NewPeer == [stage |-> "idle", block |-> "final", ends |-> FALSE, encoded |-> FALSE, sent |-> 0]
NewStream == [registered |-> FALSE, headers |-> "none", awaitingContinuation |-> FALSE,
              error |-> "none", isEnded |-> FALSE]
\* What buildResponseSink() returns and prepareStreamRetry() restores.
NewSink == [decompressor |-> FALSE, headersDelivered |-> FALSE, completed |-> FALSE, aborted |-> FALSE,
            cancelled |-> FALSE, cancellationTaken |-> FALSE, error |-> "none"]

Init ==
    /\ attempt = 1
    /\ pc = "register"
    /\ result = "none"
    /\ peer = [a \in Attempts |-> NewPeer]
    /\ connError = [a \in Attempts |-> "none"]
    /\ stream = [a \in Attempts |-> NewStream]
    /\ sink = NewSink
    /\ calls = [a \in Attempts |-> <<>>]
    /\ resets = 0

-----------------------------------------------------------------------------
(* The sink.  `s` is a Stream, `k` the ResponseSink, `log` the callbacks.   *)

Call(a, name, what) == [stream |-> a, name |-> name, what |-> what]
Logged(log) == calls' = [calls EXCEPT ![attempt] = @ \o log]

\* deliverResponseHeaders() with prepareStreamDecoder(): the encoding is read off
\* the block that is delivered, and only the final headers name one.  A decoder that
\* cannot be built tears the response down; onHeaders is still called.
DeliversHeaders(s, k) == s.error = "none" /\ ~k.headersDelivered
WithHeaders(s, k, encoded, built) ==
    LET wanted == s.headers = "final" /\ encoded
        told == [k EXCEPT !.headersDelivered = TRUE, !.decompressor = wanted /\ built]
    IN  IF ~DeliversHeaders(s, k) THEN [stream |-> s, sink |-> k]
        ELSE IF wanted /\ ~built
        THEN [stream |-> [s EXCEPT !.error = "inflate"],
              sink |-> [told EXCEPT !.error = "inflate", !.cancelled = TRUE]]
        ELSE [stream |-> s, sink |-> told]
HeadersCall(a, s, k) == IF DeliversHeaders(s, k) THEN <<Call(a, "onHeaders", s.headers)>> ELSE <<>>

\* completeResponseSink()
Completed(k) == [k EXCEPT !.completed = TRUE, !.decompressor = FALSE]
CompleteCall(a, s, k) ==
    IF k.completed THEN <<>>
    ELSE <<Call(a, "onComplete", IF k.error # "none" THEN k.error ELSE s.error)>>

\* A bug: the consumer's stop never reaches the wire.
TakesFailuresOnly(k) == k.cancelled /\ ~k.cancellationTaken /\ ~k.aborted
\* takeResponseCancellation()
Takes(k) == k.cancelled /\ ~k.cancellationTaken

\* endStreamReading(): a stream that is over ends the callbacks; a cancelled one
\* is over too, and is reset on the wire the first time.
EndStreamReading(a, s, k, log) ==
    LET over == s.isEnded \/ Takes(k)
    IN  /\ stream' = [stream EXCEPT ![a] = [s EXCEPT !.isEnded = over]]
        /\ sink' = [(IF over THEN Completed(k) ELSE k)
                      EXCEPT !.cancellationTaken = @ \/ Takes(k)]
        /\ Logged(log \o (IF over THEN CompleteCall(a, s, k) ELSE <<>>))
        /\ resets' = IF Takes(k) THEN resets + 1 ELSE resets

-----------------------------------------------------------------------------
(* Frames: what the peer may send, and handleStreamFrame() on it            *)

\* A header block as decodeHeadersFrame() leaves it: read, read in part with an
\* error, or not read at all.  Each block replaces the headers of the one before.
Outcomes == IF "unreadable" \in Behaviours THEN {"read", "partly", "unread"} ELSE {"read"}
Decoded(s, kind, outcome) ==
    [s EXCEPT !.headers = IF outcome = "unread" THEN "none" ELSE kind,
              !.awaitingContinuation = FALSE,
              !.error = IF outcome = "read" THEN @ ELSE "headers"]

\* The server's next header block: its kind, and whether it ends the stream.
NextBlock(p, kind, ends) ==
    /\ kind = "interim" => p.stage = "headers" /\ ~ends /\ "interim" \in Behaviours
    /\ kind = "final" => p.stage = "headers"
    /\ kind = "trailers" => p.stage = "body" /\ ends /\ "trailers" \in Behaviours

AfterBlock(kind, ends) ==
    IF ends THEN "ended" ELSE IF kind = "interim" THEN "headers" ELSE "body"

\* HEADERS with END_HEADERS
ReceiveHeaders(a, kind, ends, encoded, outcome, built) ==
    /\ stream[a].registered
    /\ NextBlock(peer[a], kind, ends)
    /\ encoded => kind = "final"
    /\ peer' = [peer EXCEPT ![a].stage = AfterBlock(kind, ends), ![a].encoded = @ \/ encoded]
    /\ LET s == Decoded([stream[a] EXCEPT !.isEnded = @ \/ ends], kind, outcome)
           told == WithHeaders(s, sink, encoded, built)
       IN  EndStreamReading(a, told.stream, told.sink, HeadersCall(a, s, sink))
    /\ UNCHANGED <<attempt, pc, result, connError>>

\* HEADERS without END_HEADERS: the fragment is kept; END_STREAM counts at once.
ReceiveOpenBlock(a, kind, ends, encoded) ==
    /\ stream[a].registered
    /\ NextBlock(peer[a], kind, ends)
    /\ ends => "endingBlock" \in Behaviours
    /\ encoded => kind = "final"
    /\ peer' = [peer EXCEPT ![a].stage = "open", ![a].block = kind, ![a].ends = ends,
                            ![a].encoded = @ \/ encoded]
    /\ EndStreamReading(a, [stream[a] EXCEPT !.awaitingContinuation = TRUE, !.isEnded = @ \/ ends],
                        sink, <<>>)
    /\ UNCHANGED <<attempt, pc, result, connError>>

\* CONTINUATION with END_HEADERS.  A stream in error does not decode its block.
ReceiveContinuation(a, outcome, built) ==
    /\ stream[a].registered
    /\ peer[a].stage = "open"
    /\ peer' = [peer EXCEPT ![a].stage = AfterBlock(peer[a].block, peer[a].ends),
                            ![a].block = "final", ![a].ends = FALSE]
    /\ LET s == IF stream[a].error = "none" THEN Decoded(stream[a], peer[a].block, outcome)
                ELSE [stream[a] EXCEPT !.awaitingContinuation = FALSE]
           told == WithHeaders(s, sink, peer[a].encoded, built)
       IN  EndStreamReading(a, told.stream, told.sink, HeadersCall(a, s, sink))
    /\ UNCHANGED <<attempt, pc, result, connError>>

\* A bug: what the decoder cannot read is dropped.
FeedDropsErrors(s, k, outcome) ==
    IF outcome = "stopped"
    THEN [stream |-> [s EXCEPT !.error = "aborted"],
          sink |-> [k EXCEPT !.aborted = TRUE, !.cancelled = TRUE, !.error = "aborted"]]
    ELSE [stream |-> s, sink |-> k]

\* deliverStreamPayload(): the piece is taken, the consumer stops the response, or
\* the decoder fails on it.  Without a decoder the piece is passed on as it is.  A
\* frame may also be empty, or decode to nothing yet.  Which text a decoder makes of
\* its input, and what it may lose, is module StreamDecode's.
Feed(s, k, outcome) ==
    CASE outcome \in {"taken", "empty"} -> [stream |-> s, sink |-> k]
      [] outcome = "stopped" ->
           [stream |-> [s EXCEPT !.error = "aborted"],
            sink |-> [k EXCEPT !.aborted = TRUE, !.cancelled = TRUE, !.error = "aborted"]]
      [] outcome = "garbled" ->
           [stream |-> [s EXCEPT !.error = "inflate"],
            sink |-> [k EXCEPT !.cancelled = TRUE, !.error = "inflate"]]

DataCall(a, k) == <<Call(a, "onData", IF k.decompressor = peer[a].encoded THEN "readable" ELSE "raw")>>

Ignores(k) == k.aborted

ReceiveData(a, ends, outcome) ==
    /\ stream[a].registered
    /\ peer[a].stage = "body"
    /\ outcome # "empty" => peer[1].sent + peer[2].sent < MaxPieces
    /\ outcome = "garbled" => sink.decompressor /\ sink.error = "none" /\ "garbled" \in Behaviours
    /\ peer' = [peer EXCEPT ![a].sent = IF outcome = "empty" THEN @ ELSE @ + 1,
                            ![a].stage = IF ends THEN "ended" ELSE @]
    /\ LET s == [stream[a] EXCEPT !.isEnded = @ \/ ends]
           fed == Feed(s, sink, outcome)
       IN  IF Ignores(sink) THEN EndStreamReading(a, s, sink, <<>>)
           ELSE EndStreamReading(a, fed.stream, fed.sink,
                                 IF outcome \in {"garbled", "empty"} THEN <<>> ELSE DataCall(a, sink))
    /\ UNCHANGED <<attempt, pc, result, connError>>

\* RST_STREAM; with HTTP_1_1_REQUIRED the connection is given up too.
ReceiveReset(a, error) ==
    /\ stream[a].registered
    /\ peer[a].stage \in {"headers", "body"} \/ (peer[a].stage = "ended" /\ "lateReset" \in Behaviours)
    /\ error = "http11Required" => peer[a].stage = "headers"
    /\ peer' = [peer EXCEPT ![a].stage = "reset"]
    /\ connError' = [connError EXCEPT ![a] = IF error = "http11Required" THEN error ELSE @]
    /\ EndStreamReading(a, [stream[a] EXCEPT !.error = error, !.isEnded = TRUE], sink, <<>>)
    /\ UNCHANGED <<attempt, pc, result>>

\* A bug: the waiting thread is woken and the consumer is not told.
FailStreamSilently(a, onlyPending, error) ==
    LET s == stream[a]
    IN  /\ stream' = IF s.registered /\ ~s.isEnded /\ (onlyPending => s.headers = "none")
                     THEN [stream EXCEPT ![a].error = error, ![a].isEnded = TRUE] ELSE stream
        /\ UNCHANGED <<sink, calls>>

\* failAllStreams(), for the one stream of interest.
FailStream(a, onlyPending, error) ==
    LET s == stream[a]
        failed == [s EXCEPT !.error = error, !.isEnded = TRUE]
    IN  IF s.registered /\ ~s.isEnded /\ (onlyPending => s.headers = "none")
        THEN /\ stream' = [stream EXCEPT ![a] = failed]
             /\ sink' = Completed(sink)
             /\ Logged(CompleteCall(a, failed, sink))
        ELSE UNCHANGED <<stream, sink, calls>>

\* GOAWAY, also before the request is sent.  The peer may go on with its streams.
ReceiveGoAway(a) ==
    /\ stream[a].registered
    /\ peer[a].stage \notin {"open", "lost"} /\ connError[a] = "none"
    /\ connError' = [connError EXCEPT ![a] = "goAway"]
    /\ FailStream(a, TRUE, "goAway")
    /\ UNCHANGED <<attempt, pc, result, peer, resets>>

\* The end of readerLoop()
LoseConnection(a) ==
    /\ stream[a].registered
    /\ peer[a].stage # "lost"
    /\ peer' = [peer EXCEPT ![a].stage = "lost"]
    /\ FailStream(a, FALSE, IF connError[a] # "none" THEN connError[a] ELSE "connection")
    /\ UNCHANGED <<attempt, pc, result, connError, resets>>

-----------------------------------------------------------------------------
(* The request thread: handleRequestSync()                                  *)

RegisterStream ==
    /\ pc = "register"
    /\ stream' = [stream EXCEPT ![attempt].registered = TRUE]
    /\ pc' = "sending"
    /\ UNCHANGED <<attempt, result, peer, connError, sink, calls, resets>>

\* sendHeadersFrame(): the server may answer from here on.  Writing to a connection
\* that has just been lost may succeed.
SendHeaders ==
    /\ pc = "sending"
    /\ peer' = [peer EXCEPT ![attempt].stage = IF @ = "idle" THEN "headers" ELSE @]
    /\ pc' = "sent"
    /\ UNCHANGED <<attempt, result, connError, stream, sink, calls, resets>>

\* The request body, if there is one, is on its way.
SendData ==
    /\ pc = "sent"
    /\ pc' = "awaiting"
    /\ UNCHANGED <<attempt, result, peer, connError, stream, sink, calls, resets>>

\* executeRequest() completes the sink of a request that could not be sent without
\* stream->lock, while the stream is still on the table.
SendFails ==
    /\ pc \in {"sending", "sent"}
    /\ result' = "send"
    /\ pc' = "failing"
    /\ UNCHANGED <<attempt, peer, connError, stream, sink, calls, resets>>

\* completeResponseSink() reads sink->completed ...
CheckCompleted ==
    /\ pc = "failing"
    /\ pc' = IF sink.completed THEN "detaching" ELSE "completing"
    /\ UNCHANGED <<attempt, result, peer, connError, stream, sink, calls, resets>>

\* ... and acts on what it read; the reader may have completed the sink since, or be
\* about to call back a second time (the two calls in either order).
CompleteUnlocked ==
    /\ pc = "completing"
    /\ sink' = Completed(sink)
    /\ Logged(CompleteCall(attempt, stream[attempt], [sink EXCEPT !.completed = FALSE]))
    /\ pc' = "detaching"
    /\ UNCHANGED <<attempt, result, peer, connError, stream, resets>>

Await ==
    /\ pc = "awaiting"
    /\ stream[attempt].isEnded
    /\ pc' = "finalizing"
    /\ UNCHANGED <<attempt, result, peer, connError, stream, sink, calls, resets>>

TimeOut ==
    /\ pc = "awaiting"
    /\ ~stream[attempt].isEnded
    /\ result' = "timeout"
    /\ pc' = "detaching"
    /\ UNCHANGED <<attempt, peer, connError, stream, sink, calls, resets>>

\* finalizeStreamIntoBasket()
Finalize ==
    /\ pc = "finalizing"
    /\ result' = stream[attempt].error
    /\ pc' = "detaching"
    /\ UNCHANGED <<attempt, peer, connError, stream, sink, calls, resets>>

\* A bug: a stream that is to be retried stays in the table.
UnregisterUnlessRetried ==
    /\ pc = "detaching"
    /\ stream' = [stream EXCEPT ![attempt].registered = result \in RetryableErrors]
    /\ pc' = IF attempt = 1 /\ result \in RetryableErrors THEN "retrying" ELSE "done"
    /\ UNCHANGED <<attempt, result, peer, connError, sink, calls, resets>>

UnregisterStream ==
    /\ pc = "detaching"
    /\ stream' = [stream EXCEPT ![attempt].registered = FALSE]
    /\ pc' = IF attempt = 1 /\ result \in RetryableErrors THEN "retrying" ELSE "done"
    /\ UNCHANGED <<attempt, result, peer, connError, sink, calls, resets>>

\* prepareRetry() with prepareStreamRetry(), and a new session.  A retry over
\* HTTP/1.1 leaves this module.
PrepareRetry ==
    /\ pc = "retrying"
    /\ sink' = NewSink
    /\ resets' = 0
    /\ result' = "none"
    /\ IF result = "http11Required"
       THEN pc' = "downgraded" /\ UNCHANGED attempt
       ELSE pc' = "register" /\ attempt' = 2
    /\ UNCHANGED <<peer, connError, stream, calls>>

Idle == pc \in {"done", "downgraded"} /\ UNCHANGED vars

Request ==
    \/ RegisterStream \/ SendHeaders \/ SendData \/ SendFails \/ CheckCompleted \/ CompleteUnlocked
    \/ Await \/ TimeOut \/ Finalize \/ UnregisterStream \/ PrepareRetry

Reader(a) ==
    \/ \E kind \in Kinds, ends, encoded, built \in BOOLEAN, o \in Outcomes :
        ReceiveHeaders(a, kind, ends, encoded, o, built)
    \/ \E kind \in Kinds, ends, encoded \in BOOLEAN : ReceiveOpenBlock(a, kind, ends, encoded)
    \/ \E o \in Outcomes, built \in BOOLEAN : ReceiveContinuation(a, o, built)
    \/ \E ends \in BOOLEAN, o \in {"taken", "stopped", "garbled", "empty"} : ReceiveData(a, ends, o)
    \/ \E e \in {"reset", "http11Required"} : ReceiveReset(a, e)
    \/ ReceiveGoAway(a)
    \/ LoseConnection(a)

Next == Request \/ (\E a \in Attempts : Reader(a)) \/ Idle

Spec == Init /\ [][Next]_vars

-----------------------------------------------------------------------------
(* Properties                                                               *)

PeerType == [stage : {"idle", "headers", "open", "body", "ended", "reset", "lost"},
             block : Kinds, ends : BOOLEAN, encoded : BOOLEAN, sent : Nat]
StreamType == [registered : BOOLEAN, headers : Kinds \cup {"none"},
               awaitingContinuation : BOOLEAN, error : Errors \cup {"none"}, isEnded : BOOLEAN]
SinkType == [decompressor : BOOLEAN, headersDelivered : BOOLEAN, completed : BOOLEAN, aborted : BOOLEAN,
             cancelled : BOOLEAN, cancellationTaken : BOOLEAN, error : Errors \cup {"none"}]

TypeOK ==
    /\ attempt \in Attempts
    /\ pc \in {"register", "sending", "sent", "failing", "completing", "awaiting", "finalizing",
               "detaching", "retrying", "done", "downgraded"}
    /\ result \in Errors \cup {"none", "send", "timeout"}
    /\ peer \in [Attempts -> PeerType]
    /\ peer[1].sent + peer[2].sent <= MaxPieces
    /\ connError \in [Attempts -> RetryableErrors \cup {"none"}]
    /\ stream \in [Attempts -> StreamType]
    /\ sink \in SinkType
    /\ resets \in {0, 1}

Ends(a) == {i \in 1 .. Len(calls[a]) : calls[a][i].name = "onComplete"}
EndedOnce(a) == \E i \in Ends(a) : Ends(a) = {i}
EndedTwice(a) == \E i, j \in Ends(a) : i # j /\ Ends(a) = {i, j}

\* The callbacks a consumer should see for the response of attempt a.
WholeSequence(a) ==
    LET n == peer[a].sent
    IN  [i \in 1 .. n + 2 |->
            CASE i = 1 -> Call(a, "onHeaders", "final")
              [] i = n + 2 -> Call(a, "onComplete", "none")
              [] OTHER -> Call(a, "onData", "readable")]

EndsCleanly(a) == \E i \in 1 .. Len(calls[a]) : calls[a][i] = Call(a, "onComplete", "none")

\* An attempt whose onComplete reports no error gave the consumer the final headers
\* first, then every piece of the body, decoded, and nothing after the end: whatever
\* failed or was cut off is reported as an error.  (The one exception is a request
\* that could not be sent, see CleanEndMeansWhole.)
SuccessSequence ==
    \A a \in Attempts :
        EndsCleanly(a) => (calls[a] = WholeSequence(a) \/ (a = attempt /\ result = "send"))

\* onComplete with no error means that the body ended cleanly (ResponseStream.h).
CleanEndMeansWhole == \A a \in Attempts : EndsCleanly(a) => calls[a] = WholeSequence(a)

\* A stream that is torn down is reset on the wire, once, and its callbacks have ended.
CancelledIsReset == sink.cancelled => resets = 1 /\ sink.completed /\ stream[attempt].isEnded

\* The callbacks of an attempt end at most once, by whichever of the reader's frames,
\* GOAWAY and the loss of the connection comes first, and exactly once by the time
\* the attempt is over, unless it ran into its timeout; one that succeeded ended them
\* cleanly, one that is retried did not.  A request that could not be sent ends them
\* at least once, and twice only when the reader ends the stream too.
OutcomeReported ==
    LET over == pc \in {"retrying", "done"}
        unsent(a) == a = attempt /\ result = "send"
    IN  /\ \A a \in Attempts : a # attempt => Ends(a) = {} \/ EndedOnce(a)
        /\ Ends(attempt) # {} =>
              EndedOnce(attempt) \/ (unsent(attempt) /\ stream[attempt].isEnded /\ EndedTwice(attempt))
        /\ over /\ result # "timeout" => Ends(attempt) # {}
        /\ over /\ result = "none" => EndsCleanly(attempt)
        /\ attempt = 2 => EndedOnce(1) /\ ~EndsCleanly(1)

\* A retry replays the callbacks from scratch: no frame of the first connection
\* reaches the consumer once the second attempt has begun.
RetryFromScratch == \A a \in Attempts : \A i \in 1 .. Len(calls[a]) : calls[a][i].stream = a

-----------------------------------------------------------------------------
(* Stated by the code or its documentation, and not so                      *)

\* "Only the first caller ends the callback sequence" (ResponseStream.c).
EndsAtMostOnce == \A a \in Attempts : Ends(a) = {} \/ EndedOnce(a)

\* "No further chunk can arrive" after the end (ResponseStream.c).
NoChunkAfterCompletion ==
    \A a \in Attempts : \A i \in Ends(a), j \in 1 .. Len(calls[a]) :
        calls[a][j].name = "onData" => j < i

\* onHeaders is given the headers of the response, before the body (ResponseStream.h).
HeadersBeforeAll ==
    \A a \in Attempts : \A i \in 1 .. Len(calls[a]) : calls[a][i].name = "onHeaders" =>
        calls[a][i].what = "final" /\ calls[a][1].name = "onHeaders"

\* The basket of a successful request has the headers of the response (README.md).
BasketHasFinalHeaders == pc = "done" /\ result = "none" => stream[attempt].headers = "final"

\* handleResponse() and onComplete agree on the outcome.
OutcomesAgree == pc = "done" /\ EndsCleanly(attempt) => result = "none"
=============================================================================
