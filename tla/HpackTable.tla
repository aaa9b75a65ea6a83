------------------------------ MODULE HpackTable ------------------------------
(***************************************************************************)
(* The dynamic table of an HTTP/2 connection: the one the server's encoder *)
(* keeps and the one decodeHeadersFrame() keeps for all streams of the     *)
(* connection.  They must stay in step over every header block, also over  *)
(* those of streams the client has given up.                               *)
(*                                                                         *)
(* A header field is a model value with a size; a block is a sequence of   *)
(* instructions.  The transport keeps order and only the reader thread     *)
(* decodes, so a frame is sent and received in one step.                   *)
(***************************************************************************)
EXTENDS Integers, Sequences, SequencesExt

CONSTANTS Fields,       \* header fields
          Size(_),      \* the size of a field in the table
          Streams,      \* stream ids; 0 is the connection itself
          InitialMax,   \* the encoder's table size before any update
          Advertised,   \* SETTINGS_HEADER_TABLE_SIZE, the most the encoder may use
          MaxHeaders,   \* RESPONSE_HEADERS_MAX_SIZE
          MaxFields,    \* bound on the instructions of a block
          MaxBlocks     \* bound on the header blocks

ASSUME TableAssumption ==
    /\ \A f \in Fields : Size(f) \in Nat \ {0}
    /\ {InitialMax, Advertised, MaxHeaders, MaxFields, MaxBlocks} \subseteq Nat
    /\ InitialMax <= Advertised
    /\ Streams \subseteq Nat \ {0}

VARIABLES enc, encMax,   \* the encoder's table, newest entry first, and its size
          block,         \* the instructions of the block being encoded
          fields,        \* the fields they stand for
          open,          \* the split block: [stream, rest], or NoBlock
          blocks,        \* header blocks begun
          dec, decMax,   \* ctx->dynamicTable, ctx->dynamicTableMaxSize
          stream,        \* per stream: see NewStream
          last,          \* history: the headers of the last block of a registered
                         \* stream, as decoded and as sent
          skipped        \* history: an instruction for the table was not carried out

encoderVars == <<enc, encMax, block, fields>>
vars == <<encoderVars, open, blocks, dec, decMax, stream, last, skipped>>

NoBlock == [stream |-> 0, rest |-> <<>>]
NewStream == [registered |-> TRUE, error |-> "none", awaitingContinuation |-> FALSE,
              headerBlock |-> <<>>, begun |-> FALSE]
NoHeaders == [headers |-> <<>>, sent |-> <<>>]

Init ==
    /\ enc = <<>> /\ encMax = InitialMax
    /\ block = <<>> /\ fields = <<>>
    /\ open = NoBlock
    /\ blocks = 0
    /\ dec = <<>> /\ decMax = Advertised
    /\ stream = [s \in Streams |-> NewStream]
    /\ last = NoHeaders
    /\ skipped = FALSE

Used(table) == FoldLeft(LAMBDA n, f : n + Size(f), 0, table)

-----------------------------------------------------------------------------
(* The server's encoder (RFC 7541)                                          *)

\* Eviction keeps the newest entries that fit.
Fitting(table, room) ==
    CHOOSE t \in Prefixes(table) :
        Used(t) <= room /\ \A u \in Prefixes(table) : Used(u) <= room => Len(u) <= Len(t)

Encodes(instruction, field) ==
    /\ open = NoBlock
    /\ blocks < MaxBlocks
    /\ Len(block) < MaxFields
    /\ block' = Append(block, instruction)
    /\ fields' = fields \o field
    /\ last' = NoHeaders
    /\ UNCHANGED <<open, blocks, dec, decMax, stream, skipped>>

\* A size update stands at the beginning of a block.
EncodeUpdate(max) ==
    /\ block = <<>>
    /\ encMax' = max
    /\ enc' = Fitting(enc, max)
    /\ Encodes([op |-> "update", max |-> max], <<>>)

EncodeIndexed(i) ==
    /\ Encodes([op |-> "indexed", index |-> i], <<enc[i]>>)
    /\ UNCHANGED <<enc, encMax>>

EncodeInsert(f) ==
    /\ enc' = IF Size(f) > encMax THEN <<>> ELSE <<f>> \o Fitting(enc, encMax - Size(f))
    /\ Encodes([op |-> "insert", field |-> f], <<f>>)
    /\ UNCHANGED encMax

EncodeLiteral(f) ==
    /\ Encodes([op |-> "literal", field |-> f], <<f>>)
    /\ UNCHANGED <<enc, encMax>>

-----------------------------------------------------------------------------
(* The decoder.  `ctx` is the dynamic table with the headers decoded so far. *)

\* The eviction loops: hpackEvictFromTail() until the entries fit or none is left.
Evicted(table, room) ==
    LET stops == {n \in 0 .. Len(table) : n = 0 \/ Used(SubSeq(table, 1, n)) <= room}
    IN  SubSeq(table, 1, CHOOSE n \in stops : \A m \in stops : m <= n)

AddToDynamicTable(table, max, f) ==
    IF Size(f) > max THEN <<>> ELSE <<f>> \o Evicted(table, max - Size(f))

\* Store a header.  A scratch stream keeps none; a stream whose headers are full
\* gives up the rest of the block.
Stored(ctx, f) ==
    CASE ctx.scratch -> ctx
      [] ~ctx.scratch /\ Len(ctx.headers) < MaxHeaders -> [ctx EXCEPT !.headers = Append(@, f)]
      [] OTHER -> [ctx EXCEPT !.stopped = TRUE]

\* A bug: an index counts from the oldest entry.
StepFromOldest(ctx, i) ==
    CASE i.op = "update" -> [ctx EXCEPT !.max = i.max, !.table = Evicted(@, i.max)]
      [] i.op = "indexed" ->
           IF i.index > Len(ctx.table) THEN [ctx EXCEPT !.error = "decoding"]
           ELSE Stored(ctx, ctx.table[Len(ctx.table) + 1 - i.index])
      [] i.op = "insert" -> Stored([ctx EXCEPT !.table = AddToDynamicTable(@, ctx.max, i.field)], i.field)
      [] i.op = "literal" -> Stored(ctx, i.field)

\* One turn of the loop of decodeHeadersFrame().
Step(ctx, i) ==
    CASE i.op = "update" -> [ctx EXCEPT !.max = i.max, !.table = Evicted(@, i.max)]
      [] i.op = "indexed" ->
           IF i.index > Len(ctx.table) THEN [ctx EXCEPT !.error = "decoding"]
           ELSE Stored(ctx, ctx.table[i.index])
      [] i.op = "insert" -> Stored([ctx EXCEPT !.table = AddToDynamicTable(@, ctx.max, i.field)], i.field)
      [] i.op = "literal" -> Stored(ctx, i.field)

ForTable(i) == i.op \in {"update", "insert"}
StepUnlessStopped(ctx, i) ==
    IF ctx.stopped THEN [ctx EXCEPT !.skipped = @ \/ ForTable(i)] ELSE Step(ctx, i)

Context(st) == [table |-> dec, max |-> decMax, scratch |-> ~st.registered, headers |-> <<>>,
                error |-> st.error, stopped |-> FALSE, skipped |-> skipped]

\* decodeHeadersFrame() of a whole block, for the stream s or for a scratch stream.
\* An empty block changes nothing.
DecodeHeadersFrame(s, instructions, sent) ==
    LET st == stream[s]
        ctx == FoldLeft(StepUnlessStopped, Context(st), instructions)
        done == [st EXCEPT !.awaitingContinuation = FALSE, !.headerBlock = <<>>]
    IN  IF instructions = <<>>
        THEN stream' = [stream EXCEPT ![s] = done] /\ UNCHANGED <<dec, decMax, last, skipped>>
        ELSE /\ dec' = ctx.table
             /\ decMax' = ctx.max
             /\ skipped' = ctx.skipped
             /\ IF st.registered
                THEN /\ stream' = [stream EXCEPT ![s] = [done EXCEPT !.begun = TRUE, !.error = ctx.error]]
                     /\ last' = [headers |-> ctx.headers, sent |-> sent]
                ELSE UNCHANGED <<stream, last>>

\* HEADERS with END_HEADERS
ReceiveHeaders(s) ==
    /\ open = NoBlock /\ blocks < MaxBlocks /\ block # <<>>
    /\ DecodeHeadersFrame(s, block, fields)
    /\ blocks' = blocks + 1
    /\ block' = <<>> /\ fields' = <<>>
    /\ UNCHANGED <<enc, encMax, open>>

\* HEADERS without END_HEADERS: the first n instructions.  A scratch stream forgets
\* them.
ReceiveOpenBlock(s, n) ==
    /\ open = NoBlock /\ blocks < MaxBlocks /\ block # <<>>
    /\ open' = [stream |-> s, rest |-> SubSeq(block, n + 1, Len(block))]
    /\ stream' = IF stream[s].registered
                 THEN [stream EXCEPT ![s].awaitingContinuation = TRUE,
                                     ![s].headerBlock = SubSeq(block, 1, n)]
                 ELSE stream
    /\ blocks' = blocks + 1
    /\ UNCHANGED <<encoderVars, dec, decMax, last, skipped>>

\* CONTINUATION with END_HEADERS.  It is dropped when its stream is unknown or
\* awaits none, and not decoded when its stream is in error.
Decodes(st) == st.registered /\ st.awaitingContinuation /\ st.error = "none"
ReceiveContinuation ==
    /\ open # NoBlock
    /\ LET s == open.stream
           whole == stream[s].headerBlock \o open.rest
       IN  IF Decodes(stream[s])
           THEN DecodeHeadersFrame(s, whole, fields)
           ELSE /\ stream' = [stream EXCEPT ![s].awaitingContinuation = FALSE, ![s].headerBlock = <<>>]
                /\ skipped' = (skipped \/ \E i \in 1 .. Len(block) : ForTable(block[i]))
                /\ UNCHANGED <<dec, decMax, last>>
    /\ open' = NoBlock
    /\ block' = <<>> /\ fields' = <<>>
    /\ UNCHANGED <<enc, encMax, blocks>>

\* unregisterStream(), after a response or a timeout.
Unregister(s) ==
    /\ stream[s].registered
    /\ stream' = [stream EXCEPT ![s] = [NewStream EXCEPT !.registered = FALSE]]
    /\ UNCHANGED <<encoderVars, open, blocks, dec, decMax, last, skipped>>

\* The consumer stops the body: the stream is in error and still registered.
ConsumerStops(s) ==
    /\ stream[s].registered /\ stream[s].error = "none" /\ stream[s].begun
    /\ open = NoBlock
    /\ stream' = [stream EXCEPT ![s].error = "aborted"]
    /\ UNCHANGED <<encoderVars, open, blocks, dec, decMax, last, skipped>>

Next ==
    \/ \E max \in {0, InitialMax, Advertised} : EncodeUpdate(max)
    \/ \E i \in 1 .. Len(enc) : EncodeIndexed(i)
    \/ \E f \in Fields : EncodeInsert(f) \/ EncodeLiteral(f)
    \/ \E s \in Streams :
        \/ ReceiveHeaders(s)
        \/ \E n \in 0 .. Len(block) : ReceiveOpenBlock(s, n)
        \/ Unregister(s)
        \/ ConsumerStops(s)
    \/ ReceiveContinuation

Spec == Init /\ [][Next]_vars

-----------------------------------------------------------------------------
(* Properties                                                               *)

Table == UNION {[1 .. n -> Fields] : n \in 0 .. Advertised}

TypeOK ==
    /\ enc \in Table /\ dec \in Table
    /\ encMax \in 0 .. Advertised /\ decMax \in 0 .. Advertised
    /\ blocks \in 0 .. MaxBlocks
    /\ \A s \in Streams : stream[s].error \in {"none", "aborted", "decoding"}
    /\ Len(last.headers) <= MaxHeaders
    /\ skipped \in BOOLEAN

Settled == open = NoBlock /\ block = <<>>

\* A registered stream has the headers the server sent, all of them up to the limit,
\* and no block that was encoded correctly is an error: until the decoder drops an
\* instruction for the table (a split block of a stream that is not registered, or what
\* follows a full header list), after which nothing is claimed.  AlwaysInStep is about that.
HeadersRight ==
    ~skipped =>
        /\ \A s \in Streams : stream[s].error # "decoding"
        /\ last.headers = SubSeq(last.sent, 1, IF Len(last.sent) < MaxHeaders THEN Len(last.sent) ELSE MaxHeaders)

-----------------------------------------------------------------------------
(* Stated by the code, and not so                                           *)

\* The dynamic table stays in sync with the arrival order on the wire, unknown
\* streams included (Http2ResponseHandler.c).
AlwaysInStep == Settled => IsPrefix(enc, dec)
=============================================================================
