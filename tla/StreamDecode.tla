---------------------------- MODULE StreamDecode ----------------------------
(***************************************************************************)
(* The decoding of one response body.  The body arrives in chunks, however  *)
(* the peer and the network cut it.  When the headers that deliverResponse- *)
(* Headers() saw name the encoding, each chunk is fed to an incremental     *)
(* decoder with a fixed output buffer; when they do not (a 1xx block came   *)
(* first), the chunks are collected and a one-shot decoder with a growing   *)
(* buffer runs over all of them at the end.                                *)
(*                                                                         *)
(* An encoded body is a sequence of units.  A unit yields so many bytes of  *)
(* plain text once it has been read, and may end a frame, of which zstd     *)
(* bodies, and gzip bodies, whose frames are called members, may have       *)
(* several.  A byte of plain text is its position in the text.              *)
(***************************************************************************)
EXTENDS Integers, Sequences

CONSTANTS Bodies,   \* the bodies: [format, sized, units]
          OutSize,  \* STREAM_DECOMPRESS_CHUNK
          FirstSize \* the first size of the one-shot decoders' buffer

Formats == {"gzip", "zlib", "raw", "br", "zstd"}

\* from: the text before the unit; out: the text of the unit.
Unit == [from : Nat, out : Nat, ends : BOOLEAN]

\* The text of the units is the text of the body, in their order.
Laid(units) ==
    /\ units[1].from = 0
    /\ \A i, j \in 1 .. Len(units) : i < j =>
          /\ units[i].from + units[i].out <= units[j].from
          /\ j = i + 1 => units[i].from + units[i].out = units[j].from

\* sized: the zstd frame header tells the size of its content.  The checksum that
\* ends a gzip member or a zlib body is no text.
ASSUME DecodeAssumption ==
    /\ OutSize \in Nat \ {0} /\ FirstSize \in Nat \ {0}
    /\ \A b \in Bodies :
          /\ b.format \in Formats /\ b.sized \in BOOLEAN
          /\ b.units \in Seq(Unit) /\ Len(b.units) > 0 /\ Laid(b.units)
          /\ b.units[Len(b.units)].ends
          /\ b.format \notin {"zstd", "gzip"} => \A i \in 1 .. Len(b.units) - 1 : ~b.units[i].ends
          /\ b.format \in {"gzip", "zlib"} => \A i \in 1 .. Len(b.units) : b.units[i].ends => b.units[i].out = 0

VARIABLES body,    \* the body the peer sends
          oneShot, \* it is collected first
          sent,    \* the units that have arrived
          pc,      \* "wait" for a chunk, within a "call" of the library, "done"
          wbits,   \* the inflate window: none, raw or wrapped
          pos,     \* the units that have been given to the decoder
          last,    \* the last unit it has read
          broken,  \* it has met something it cannot decode
          held,    \* the plain text it holds
          out,     \* the output buffer
          moved,   \* the present call has done something
          size,    \* the size of the one-shot buffer
          taken,   \* the plain text the response has got
          raw,     \* the units it has got as they were, undecoded
          result   \* none, aborted, failed, or refused: failed, and aborted after that

decodeVars == <<body, oneShot, sent, pc, wbits, pos, last, broken, held, out, moved, size, taken, raw, result>>

DecodeInit ==
    /\ body \in Bodies
    /\ oneShot \in BOOLEAN
    /\ sent = 0
    /\ pc = "wait"
    /\ wbits = "none"
    /\ pos = 0
    /\ last = 0
    /\ broken = FALSE
    /\ held = <<>>
    /\ out = <<>>
    /\ moved = FALSE
    /\ size = FirstSize
    /\ taken = <<>>
    /\ raw = 0
    /\ result = "none"

Units == body.units
Zlib == body.format \in {"gzip", "zlib", "raw"}
Deflated == body.format \in {"zlib", "raw"}
Bytes(i) == [j \in 1 .. Units[i].out |-> Units[i].from + j]
\* The text up to the end of a unit.
Upto(i) == IF i = 0 THEN 0 ELSE Units[i].from + Units[i].out
Plain == [j \in 1 .. Upto(Len(Units)) |-> j]
FirstFrame == CHOOSE i \in 1 .. Len(Units) : Units[i].ends /\ \A j \in 1 .. i - 1 : ~Units[j].ends

-----------------------------------------------------------------------------
(* The libraries: a unit is read when nothing of the one before is left, and  *)
(* a call returns when the output buffer is full, the input is drained or a   *)
(* frame has ended.                                                          *)

Room == (IF oneShot THEN size ELSE OutSize) - Len(out)
\* After the end of a frame zstd goes on with the next call.  To everything else the
\* first end is the end for good: inflate() is never reset for another gzip member.
FrameEnded == held = <<>> /\ last > 0 /\ Units[last].ends /\ (body.format # "zstd" \/ moved)
\* What makes no sense to the decoder: a wrapper that is not the one the window is
\* for, seen by its second byte, and a unit after a hole, unless a frame ended
\* before the hole and another begins after it.
Garbled(i) ==
    \/ Deflated /\ i = 2 /\ wbits # (IF body.format = "raw" THEN "raw" ELSE "wrapped")
    \/ i # last + 1 /\ ~(Units[last].ends /\ Units[i - 1].ends)

Emits == held # <<>> /\ Room > 0 /\ ~broken
Reads == held = <<>> /\ pos < sent /\ ~FrameEnded /\ ~broken

Emit ==
    /\ pc = "call" /\ Emits
    /\ LET n == IF Len(held) < Room THEN Len(held) ELSE Room
       IN  /\ out' = out \o SubSeq(held, 1, n)
           /\ held' = SubSeq(held, n + 1, Len(held))
    /\ moved' = TRUE
    /\ UNCHANGED <<body, oneShot, sent, pc, wbits, pos, last, broken, size, taken, raw, result>>

Read ==
    /\ pc = "call" /\ Reads
    /\ pos' = pos + 1
    /\ last' = pos + 1
    /\ broken' = Garbled(pos + 1)
    /\ held' = IF Garbled(pos + 1) THEN <<>> ELSE Bytes(pos + 1)
    /\ moved' = TRUE
    /\ UNCHANGED <<body, oneShot, sent, pc, wbits, out, size, taken, raw, result>>

\* What a call returns when it can do no more.  zlib has an error of its own for
\* a call that could do nothing at all, and zstd gives up after a few of them.
Returns == pc = "call" /\ ~Emits /\ ~Reads
Status ==
    CASE broken \/ (body.format # "br" /\ ~moved /\ ~FrameEnded) -> "error"
      [] ~broken /\ FrameEnded -> "end"
      [] OTHER -> IF held # <<>> THEN "more output" ELSE "more input"

-----------------------------------------------------------------------------
(* The incremental decoder                                                  *)

\* buildStreamDecompressor() returns NULL: the sink is cancelled, which ends the
\* stream, and the pointer to the decompressor stays NULL.
BuildStreamDecompressorFails ==
    /\ pc = "wait" /\ sent = 0 /\ result = "none" /\ ~oneShot
    /\ result' = "failed"
    /\ UNCHANGED <<body, oneShot, sent, pc, wbits, pos, last, broken, held, out, moved, size, taken, raw>>

\* openDeflateWindow(), on the first chunk of a deflate body.
DeflateWindow(k) ==
    CASE ~Deflated \/ wbits # "none" -> wbits
      [] OTHER -> IF body.format = "raw" /\ k >= 2 THEN "raw" ELSE "wrapped"

\* appendStreamPayload() with a decompressor, or without a sink: k units arrive in
\* one chunk.
ReceiveChunk(k) ==
    /\ pc = "wait" /\ result = "none"
    /\ sent + k <= Len(Units)
    /\ sent' = sent + k
    /\ IF oneShot
       THEN UNCHANGED <<pc, wbits, pos, out, moved>>
       ELSE /\ pc' = "call"
            /\ wbits' = DeflateWindow(k)
            /\ pos' = sent
            /\ out' = <<>>
            /\ moved' = FALSE
    /\ UNCHANGED <<body, oneShot, last, broken, held, size, taken, raw, result>>

\* appendStreamPayload() after a failure that did not come from the consumer: the
\* sink is complete and its decompressor freed, but only an abort keeps what still
\* arrives for the stream from the consumer, who gets it as it is.
PassThrough(k, aborts) ==
    /\ pc = "wait" /\ result = "failed"
    /\ sent + k <= Len(Units)
    /\ sent' = sent + k
    /\ raw' = raw + k
    /\ result' = IF aborts THEN "refused" ELSE "failed"
    /\ UNCHANGED <<body, oneShot, pc, wbits, pos, last, broken, held, out, moved, size, taken>>

ZlibGoesOn == Status # "end" /\ pos < sent
\* A bug: drained input is taken for the end of the chunk.
BrotliStopsWhenDrained == Status # "end" /\ pos < sent
\* A bug: whatever is not the end calls for another round.
BrotliRunsToTheEnd == Status # "end"
BrotliGoesOn == Status # "end" /\ (pos < sent \/ Status = "more output")
\* A bug: the end of a frame is taken for the end of the body.
ZstdStopsAtFrame == Status # "end" /\ out # <<>> /\ pos < sent
\* "stalled" is what put nothing out.
ZstdGoesOn == out # <<>> /\ pos < sent
GoesOn == IF body.format = "br" THEN BrotliGoesOn ELSE IF body.format = "zstd" THEN ZstdGoesOn ELSE ZlibGoesOn

\* One round of feedZlib(), feedBrotli() or feedZstd() after the library's call:
\* the consumer gets what was put out, and may ask to stop.
Feed(aborts) ==
    /\ Returns /\ ~oneShot
    /\ aborts => out # <<>>
    /\ taken' = taken \o out
    /\ result' = IF aborts THEN "aborted" ELSE IF Status = "error" THEN "failed" ELSE "none"
    /\ pc' = IF result' = "none" /\ GoesOn THEN "call" ELSE "wait"
    /\ out' = <<>>
    /\ moved' = FALSE
    /\ UNCHANGED <<body, oneShot, sent, wbits, pos, last, broken, held, size, raw>>

-----------------------------------------------------------------------------
(* The one-shot decoders                                                    *)

\* Where a decoder starts: a raw window first for deflate; a buffer of the very
\* size of the (first) frame when zstd knows it.
StartOneShot(w) ==
    /\ pc' = "call"
    /\ wbits' = w
    /\ pos' = 0
    /\ last' = 0
    /\ broken' = FALSE
    /\ held' = <<>>
    /\ out' = <<>>
    /\ moved' = FALSE
    /\ size' = IF body.sized THEN Upto(FirstFrame) ELSE FirstSize
    /\ UNCHANGED <<body, oneShot, sent, taken, raw, result>>

\* The last round is over: the payload is terminated and handed out, or there is
\* none.
Conclude(success) ==
    /\ pc' = "done"
    /\ taken' = IF success THEN out ELSE <<>>
    /\ result' = IF success THEN "none" ELSE "failed"
    /\ UNCHANGED <<body, oneShot, sent, wbits, pos, last, broken, held, out, moved, size, raw>>

\* Another round, with the buffer doubled where the code doubles it.
Again(grows) ==
    /\ moved' = FALSE
    /\ size' = IF grows THEN 2 * size ELSE size
    /\ UNCHANGED <<body, oneShot, sent, pc, wbits, pos, last, broken, held, out, taken, raw, result>>

\* END_STREAM: nothing more can arrive, whether or not the body is whole.
\* finalizeResponsePayload() decodes what was collected.
EndStream ==
    /\ pc = "wait"
    /\ IF oneShot /\ sent > 0
       THEN StartOneShot(IF Deflated THEN "raw" ELSE "none")
       ELSE pc' = "done" /\ UNCHANGED <<body, oneShot, sent, wbits, pos, last, broken, held, out,
                                        moved, size, taken, raw, result>>

\* decompress_GZip() and decompress_Deflate(): anything but the end or an error
\* asks for more room.
DecompressZlib ==
    /\ Returns /\ oneShot /\ Zlib
    /\ CASE Status = "end" -> Conclude(TRUE)
         [] Status = "error" -> IF Deflated /\ wbits = "raw" THEN StartOneShot("wrapped") ELSE Conclude(FALSE)
         [] OTHER -> Again(TRUE)

\* A bug: only an error is an error.
DecompressBrotliLoosely ==
    /\ Returns /\ oneShot /\ body.format = "br"
    /\ CASE Status = "more output" -> Again(TRUE)
         [] OTHER -> Conclude(Status # "error")
DecompressBrotli ==
    /\ Returns /\ oneShot /\ body.format = "br"
    /\ CASE Status = "more output" -> Again(TRUE)
         [] OTHER -> Conclude(Status = "end")

\* The content size is unknown: up to the end of the first frame.
DecompressZstd ==
    /\ Returns /\ oneShot /\ body.format = "zstd" /\ ~body.sized
    /\ CASE Status = "end" -> Conclude(TRUE)
         [] Status = "error" -> Conclude(FALSE)
         [] OTHER -> Again(Room = 0)

\* ZSTD_decompress(): all frames, into a buffer of the size of the first.
DecompressZstdSized ==
    /\ Returns /\ oneShot /\ body.sized
    /\ CASE Status = "end" -> IF pos = sent THEN Conclude(TRUE) ELSE Again(FALSE)
         [] OTHER -> Conclude(FALSE)

\* A decoder, a first buffer or a larger one cannot be had.
AllocationFails ==
    /\ pc = "call" /\ oneShot /\ ~moved
    /\ out = <<>> \/ size > FirstSize
    /\ Conclude(FALSE)

-----------------------------------------------------------------------------

Work == Emit \/ Read
Decode == (\E aborts \in BOOLEAN : Feed(aborts)) \/ DecompressZlib \/ DecompressBrotli \/ DecompressZstd
              \/ DecompressZstdSized \/ AllocationFails
Network ==
    \/ \E k \in 1 .. Len(Units) : ReceiveChunk(k) \/ (\E aborts \in BOOLEAN : PassThrough(k, aborts))
    \/ EndStream
    \/ BuildStreamDecompressorFails
Decoded == pc = "done" /\ UNCHANGED decodeVars

DecodeNext == Work \/ Decode \/ Network \/ Decoded

\* The decoding thread runs on.  Nothing is assumed of the peer.
DecodeSpec == DecodeInit /\ [][DecodeNext]_decodeVars /\ WF_decodeVars(Work) /\ WF_decodeVars(Decode)

-----------------------------------------------------------------------------
(* Properties                                                               *)

\* The types, and the order of the positions: what is read has been given to the
\* decoder, what is given to it has arrived.
DecodeTypeOK ==
    /\ body \in Bodies
    /\ oneShot \in BOOLEAN
    /\ sent \in 0 .. Len(Units)
    /\ pc \in {"wait", "call", "done"}
    /\ wbits \in {"none", "raw", "wrapped"}
    /\ pos \in 0 .. sent
    /\ last \in 0 .. pos
    /\ broken \in BOOLEAN
    /\ held \in Seq(Nat)
    /\ out \in Seq(Nat)
    /\ moved \in BOOLEAN
    /\ size \in Nat
    /\ taken \in Seq(Nat)
    /\ raw \in Nat
    /\ result \in {"none", "aborted", "failed", "refused"}

Whole == sent = Len(Units)
\* What ends a zstd frame that is followed by another yields text.
FramesEndInText == body.format = "zstd" => \A i \in 1 .. Len(Units) - 1 : Units[i].ends => Units[i].out > 0
OneFrame == \A i \in 1 .. Len(Units) - 1 : ~Units[i].ends

\* A streamed body that arrived whole and is reported without an error has been
\* delivered whole, however it was cut into chunks: for gzip, zlib and brotli, whose
\* decoders never leave text behind at the end of the last chunk.  The exception is a
\* gzip body of several members, of which feedZlib() delivers the first and reports
\* success.
StreamedBodyWhole ==
    pc = "done" /\ ~oneShot /\ Whole /\ result = "none" /\ body.format \in {"gzip", "zlib", "br"} /\ OneFrame
        => taken = Plain

\* What the consumer has been given decoded is at every moment the beginning of the
\* text: no byte is skipped or repeated where a chunk, a buffer or a frame ends; and
\* nothing is given to it undecoded unless the decoding has failed, which it was told
\* of.  The exception is a zstd body of several frames: where the end of one yields no
\* text, feedZstd() may take the round for a stall and skip what follows in the chunk.
NoGap ==
    /\ FramesEndInText => Len(taken) <= Len(Plain) /\ \A j \in 1 .. Len(taken) : taken[j] = Plain[j]
    /\ raw > 0 => result \in {"failed", "refused"}

\* A collected body of one frame decodes to all of its text or to an error, a body
\* that was cut short included, whichever window, size or number of rounds it takes.
BufferedBodyWhole ==
    pc = "done" /\ oneShot /\ sent > 0 /\ result = "none" /\ OneFrame => taken = Plain

\* The rounds over a chunk or over a collected body come to an end: the reader
\* thread, which serves all streams of the connection, never spins in a decoder.
DecodingEnds == pc = "call" ~> pc # "call"

-----------------------------------------------------------------------------
(* Stated by the code, and not so                                           *)

\* "exiting there would silently drop the decompressed tail": feedZstd() and, for a
\* raw stream, feedZlib() do exit there, and feedZlib() exits where the first of
\* several gzip members ends.
EveryStreamedBodyWhole == pc = "done" /\ ~oneShot /\ Whole /\ result = "none" => taken = Plain

\* "anything too short to judge, which zlib's own detection resolves on a later chunk"
ShortFirstChunkResolved == Deflated /\ ~oneShot => ~broken

\* "Null-terminate for safety": there is a byte left for the terminator.
TerminatorFits == pc = "done" /\ oneShot /\ result = "none" /\ sent > 0 /\ ~body.sized => Room > 0
=============================================================================
