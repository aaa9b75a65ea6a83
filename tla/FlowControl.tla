----------------------------- MODULE FlowControl -----------------------------
(***************************************************************************)
(* Flow control of the response bodies of one HTTP/2 connection: the       *)
(* windows the server may fill, and the credit the reader thread gives     *)
(* back.  Credit is collected per stream and per connection, turned into   *)
(* WINDOW_UPDATE frames when enough has gathered, and written at the end   *)
(* of a batch of frames.                                                   *)
(*                                                                         *)
(* A DATA frame is sent and received in one step; what is under way at the *)
(* end of a batch reaches the server in one step, or is lost when the      *)
(* write fails.  Requests give streams up at any time.                     *)
(***************************************************************************)
EXTENDS Integers, FiniteSets

CONSTANTS Streams,           \* streams of the connection
          InitialStream,     \* SETTINGS_INITIAL_WINDOW_SIZE of the profile
          InitialConn,       \* the connection window, with the profile's WINDOW_UPDATE
          InitialTarget,     \* HTTP2_INITIAL_FLOW_CONTROL_WINDOW
          MaxTarget,         \* CONNECTION_WINDOW_MAX
          StreamThreshold,   \* STREAM_WINDOW_UPDATE_THRESHOLD
          ConnThreshold,     \* CONNECTION_WINDOW_UPDATE_THRESHOLD
          LedgerSize,        \* MAX_CONCURRENT_STREAMS_PER_SESSION
          MaxFrame,          \* the longest DATA frame
          MaxBody            \* bound on the length of a body

ASSUME WindowAssumption ==
    /\ InitialStream \in Nat /\ InitialConn \in Nat /\ InitialTarget \in Nat
    /\ MaxTarget \in Nat /\ StreamThreshold \in Nat /\ ConnThreshold \in Nat \ {0}
    /\ LedgerSize \in Nat /\ MaxFrame \in Nat /\ MaxBody \in Nat
    /\ InitialTarget <= MaxTarget
    /\ StreamThreshold < InitialStream
    /\ ConnThreshold <= InitialConn

VARIABLES connWindow,  \* server: what it may send on the connection
          window,      \* server: what it may send on each stream
          left,        \* server: what it has still to send; -1 when it is done
          registered,  \* streams in session->streams
          ended,       \* streams with isEnded
          pending,     \* session->pendingConnWindow
          due,         \* session->connWindowFlushDue
          target,      \* session->connWindowTarget
          growth,      \* session->connWindowSinceGrowth
          listed,      \* streams with an entry in session->pendingStreamWindows
          credit,      \* the credit of these entries
          update,      \* pendingWire: stream credit
          resets,      \* pendingWire: streams to be reset
          inBatch,     \* frames were handled since the last flush
          leaked,      \* history: connection credit that is given back by nobody
          unpaid       \* history: the same for each stream

serverVars == <<connWindow, window, left>>
ledgerVars == <<pending, due, target, growth, listed, credit>>
wireVars == <<update, resets, inBatch>>
vars == <<serverVars, registered, ended, ledgerVars, wireVars, leaked, unpaid>>

Zero == [s \in Streams |-> 0]

Init ==
    /\ connWindow = InitialConn
    /\ window = [s \in Streams |-> InitialStream]
    /\ left \in [Streams -> 0 .. MaxBody]
    /\ registered = Streams
    /\ ended = {}
    /\ pending = 0 /\ due = FALSE /\ target = InitialTarget /\ growth = 0
    /\ listed = {} /\ credit = Zero
    /\ update = Zero /\ resets = {} /\ inBatch = FALSE
    /\ leaked = 0 /\ unpaid = Zero

-----------------------------------------------------------------------------
(* The reader's ledger                                                      *)

\* tuneConnectionWindow(): n more bytes complete a full window.
Grows(n) == n > 0 /\ target < MaxTarget /\ growth + n >= target
Doubled == IF 2 * target < MaxTarget THEN 2 * target ELSE MaxTarget

Tune(n) ==
    /\ target' = IF Grows(n) THEN Doubled ELSE target
    /\ growth' = IF Grows(n) THEN growth + n - target
                 ELSE IF target < MaxTarget THEN growth + n ELSE growth

\* A bug: the growth is counted and not announced.
OwedWithoutGrowth(n) == pending + n
\* The credit owed to the connection once n more bytes are consumed.
Owed(n) == pending + n + (IF Grows(n) THEN Doubled - target ELSE 0)

\* A bug: credit waits for the end of a stream.
FlushDueAtEnd(n, over) == due \/ Grows(n) \/ over
\* replenishStreamWindow(): whether the batch end must flush connection credit.
FlushDue(n, over) == due \/ Grows(n) \/ over \/ Owed(n) >= ConnThreshold

\* discardPendingStreamWindow()
Discard(s) ==
    /\ listed' = listed \ {s}
    /\ credit' = [credit EXCEPT ![s] = 0]
    /\ UNCHANGED <<update, unpaid>>

\* addStreamWindowCredit(): a full ledger forgets the credit of a new stream.
AddCredit(s, n) ==
    IF s \notin listed /\ Cardinality(listed) >= LedgerSize
    THEN /\ unpaid' = [unpaid EXCEPT ![s] = @ + n]
         /\ UNCHANGED <<listed, credit, update>>
    ELSE LET c == credit[s] + n
         IN  /\ listed' = listed \cup {s}
             /\ IF c > StreamThreshold
                THEN /\ update' = [update EXCEPT ![s] = @ + c]
                     /\ credit' = [credit EXCEPT ![s] = 0]
                ELSE /\ credit' = [credit EXCEPT ![s] = c]
                     /\ UNCHANGED update
             /\ UNCHANGED unpaid

-----------------------------------------------------------------------------
(* Frames                                                                   *)

\* The server sends n bytes on s, as its windows permit; `last` is END_STREAM.
ServerSends(s, n, last) ==
    /\ n <= left[s] /\ n <= connWindow /\ n <= window[s]
    /\ last <=> n = left[s]
    /\ n > 0 \/ last
    /\ connWindow' = connWindow - n
    /\ window' = [window EXCEPT ![s] = @ - n]
    /\ left' = [left EXCEPT ![s] = IF last THEN -1 ELSE @ - n]

\* DATA for a registered stream; `stop` when the consumer wants no more of it.
ReceiveData(s, n, last, stop) ==
    /\ s \in registered
    /\ stop => n > 0 /\ s \notin ended
    /\ ServerSends(s, n, last)
    /\ pending' = Owed(n)
    /\ Tune(n)
    /\ LET over == last \/ s \in ended
       IN  /\ due' = FlushDue(n, over)
           /\ IF over \/ stop THEN Discard(s)
              ELSE IF n > 0 THEN AddCredit(s, n)
              ELSE UNCHANGED <<listed, credit, update, unpaid>>
    /\ ended' = IF last \/ stop THEN ended \cup {s} ELSE ended
    /\ resets' = IF stop THEN resets \cup {s} ELSE resets
    /\ inBatch' = TRUE
    /\ UNCHANGED <<registered, leaked>>

\* DATA for a stream that is not registered is not accounted for.
ReceiveUnknownData(s, n, last) ==
    /\ s \notin registered
    /\ ServerSends(s, n, last)
    /\ leaked' = leaked + n
    /\ inBatch' = TRUE
    /\ UNCHANGED <<registered, ended, ledgerVars, update, resets, unpaid>>

\* A bug: only DATA can end a stream.
ReceiveEndIgnored(s) ==
    /\ left[s] >= 0
    /\ left' = [left EXCEPT ![s] = -1]
    /\ inBatch' = TRUE
    /\ UNCHANGED <<connWindow, window, registered, ended, ledgerVars, update, resets, leaked, unpaid>>

\* Trailers or RST_STREAM end a stream without DATA.
ReceiveEnd(s) ==
    /\ left[s] >= 0
    /\ left' = [left EXCEPT ![s] = -1]
    /\ inBatch' = TRUE
    /\ IF s \in registered
       THEN ended' = ended \cup {s} /\ due' = TRUE /\ Discard(s)
       ELSE UNCHANGED <<ended, due, listed, credit, update, unpaid>>
    /\ UNCHANGED <<connWindow, window, registered, pending, target, growth, resets, leaked>>

\* flushReaderWrites() at the end of a batch: the server gets what was queued.
Flushed == IF due THEN pending ELSE 0
FlushReaderWrites ==
    /\ inBatch
    /\ connWindow' = connWindow + Flushed
    /\ window' = [s \in Streams |-> window[s] + update[s]]
    /\ left' = [s \in Streams |-> IF s \in resets THEN -1 ELSE left[s]]
    /\ pending' = pending - Flushed
    /\ due' = FALSE
    /\ update' = Zero /\ resets' = {} /\ inBatch' = FALSE
    /\ UNCHANGED <<registered, ended, target, growth, listed, credit, leaked, unpaid>>

\* The write fails: its frames are gone, the connection stays.
FlushFails ==
    /\ inBatch
    /\ leaked' = leaked + Flushed
    /\ unpaid' = [s \in Streams |-> unpaid[s] + update[s]]
    /\ pending' = pending - Flushed
    /\ due' = FALSE
    /\ update' = Zero /\ resets' = {} /\ inBatch' = FALSE
    /\ UNCHANGED <<serverVars, registered, ended, target, growth, listed, credit>>

\* unregisterStream(), after the response or after a timeout.  The server is not
\* told, and the ledger keeps its entry.
UnregisterStream(s) ==
    /\ s \in registered
    /\ registered' = registered \ {s}
    /\ UNCHANGED <<serverVars, ended, ledgerVars, wireVars, leaked, unpaid>>

ReceiveSome(s) == \E n \in 0 .. MaxFrame, last \in BOOLEAN : ReceiveData(s, n, last, FALSE)

Next ==
    \/ \E s \in Streams :
        \/ \E n \in 0 .. MaxFrame, last, stop \in BOOLEAN : ReceiveData(s, n, last, stop)
        \/ \E n \in 0 .. MaxFrame, last \in BOOLEAN : ReceiveUnknownData(s, n, last)
        \/ ReceiveEnd(s)
        \/ UnregisterStream(s)
    \/ FlushReaderWrites
    \/ FlushFails

\* The reader ends every batch; a server that has data and room sends.
Fairness == WF_vars(FlushReaderWrites \/ FlushFails) /\ \A s \in Streams : WF_vars(ReceiveSome(s))

Spec == Init /\ [][Next]_vars /\ Fairness
-----------------------------------------------------------------------------
(* Properties                                                               *)

TypeOK ==
    /\ connWindow \in Nat /\ window \in [Streams -> Nat]
    /\ left \in [Streams -> -1 .. MaxBody]
    /\ registered \subseteq Streams /\ ended \subseteq Streams
    /\ pending \in Nat /\ due \in BOOLEAN
    /\ target \in InitialTarget .. MaxTarget /\ growth \in Nat
    /\ listed \subseteq Streams /\ credit \in [Streams -> Nat]
    /\ update \in [Streams -> Nat] /\ resets \subseteq Streams /\ inBatch \in BOOLEAN
    /\ leaked \in Nat /\ unpaid \in [Streams -> Nat]

\* Streams whose body is still wanted.
Live == registered \ ended

\* The windows of the connection, and of a stream whose body is still wanted.
ConnAccounted == connWindow + pending + leaked = InitialConn + target - InitialTarget
StreamAccounted == \A s \in Live : window[s] + credit[s] + update[s] + unpaid[s] = InitialStream

\* Every byte of a window is the server's to use, owed to it, or lost with a stream
\* that was given up, a full ledger or a write that failed; the connection window has
\* grown by what tuneConnectionWindow() announced.
CreditConserved == ConnAccounted /\ StreamAccounted

\* Between batches the server is never out of window because credit lies unsent in
\* the ledger: unless more was lost than the window has to spare, it may send on the
\* connection and on every stream whose body is wanted.
NoStall ==
    ~inBatch =>
        /\ leaked <= InitialConn - ConnThreshold => connWindow > 0
        /\ \A s \in Live : unpaid[s] < InitialStream - StreamThreshold => window[s] > 0

Lost(s) == leaked > InitialConn - ConnThreshold \/ unpaid[s] >= InitialStream - StreamThreshold

\* A body that nobody gives up arrives, however much longer it is than the windows,
\* unless too much credit was lost.
BodyArrives == \A s \in Streams : <>(s \in ended \/ s \notin registered \/ Lost(s))

-----------------------------------------------------------------------------
(* Stated by the code or its documentation, and not so                      *)

\* The connection does not stall (Http2ResponseHandler.c).
NeverStalls == ~inBatch => connWindow > 0

\* The connection window is at most CONNECTION_WINDOW_MAX (README.md).
WindowWithinMax == connWindow <= MaxTarget

\* A dead stream never gets an update (README.md).
NoTrailingUpdate == \A s \in ended : update[s] = 0
=============================================================================
