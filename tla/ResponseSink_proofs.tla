------------------------ MODULE ResponseSink_proofs ------------------------
(***************************************************************************)
(* Proofs about ResponseSink, for every number of DATA frames and every     *)
(* behaviour of the peer.                                                   *)
(*                                                                         *)
(* A frame ends a stream and its callbacks in one step, so that a stream    *)
(* that has ended has been reported with the error the request thread will  *)
(* find, and once: only the thread of a request that could not be sent,     *)
(* which takes no lock, may report a second time what the reader reported.  *)
(* A stream that is off the table is out of the reader's reach before the   *)
(* sink is reset for the second attempt.  That a clean end follows the      *)
(* whole response needs more: what has been said so far is what the peer    *)
(* has sent, as long as nothing has failed.                                 *)
(***************************************************************************)
EXTENDS ResponseSink, SequenceTheorems, TLAPS

\* A callback that was made.
CallType == [stream : Attempts, name : {"onHeaders", "onData", "onComplete"},
             what : Kinds \cup Errors \cup {"none", "readable", "raw"}]

\* Every call was made during the attempt of its stream.
CallsOK ==
    /\ calls \in [Attempts -> Seq(CallType)]
    /\ RetryFromScratch

\* Where the request thread is while its stream is on the table, and once it
\* knows the outcome.
Failing == {"failing", "completing"}
Attached == Failing \cup {"sending", "sent", "awaiting", "finalizing", "detaching"}
Left == {"detaching", "retrying", "done"}

\* Only the stream of the attempt under way is on the table.
AttachedOK ==
    /\ \A a \in Attempts : stream[a].registered => a = attempt /\ pc \in Attached
    /\ pc \in {"register", "downgraded"} => sink = NewSink /\ resets = 0
    /\ pc = "sending" => peer[attempt].stage \in {"idle", "lost"}

\* Nothing has happened yet in an attempt that has not begun.
UnusedOK ==
    \A a \in Attempts : a > attempt \/ (a = attempt /\ pc = "register") =>
        calls[a] = <<>> /\ stream[a] = NewStream /\ peer[a] = NewPeer

\* A response that is torn down has ended, with an error, and was reset once.
CancelOK ==
    /\ sink.cancelled => /\ sink.cancellationTaken /\ sink.completed /\ resets = 1
                         /\ stream[attempt].isEnded /\ stream[attempt].error # "none"
    /\ ~sink.cancelled => /\ ~sink.cancellationTaken /\ ~sink.aborted /\ resets = 0
                          /\ sink.error = "none"

\* The reader ended the stream between the check and the call of CompleteUnlocked.
DoubleEnd ==
    result = "send" /\ pc \in {"detaching", "done"} /\ stream[attempt].isEnded /\ EndedTwice(attempt)

\* sink->completed says whether the end was reported; it is when the stream ends.
EndOK ==
    /\ pc # "downgraded" /\ sink.completed => EndedOnce(attempt) \/ DoubleEnd
    /\ pc # "downgraded" /\ ~sink.completed => Ends(attempt) = {}
    /\ pc # "downgraded" /\ stream[attempt].isEnded => sink.completed
    /\ sink.completed => stream[attempt].isEnded \/ (result = "send" /\ pc \notin Failing)

\* The peer has said its last word, which may go on in a CONTINUATION.
Finished(p) == p.stage \in {"ended", "reset", "lost"} \/ (p.stage = "open" /\ p.ends)

\* The end is reported clean exactly when the stream has no error; an error that
\* calls for a retry cannot follow it.
CleanOK ==
    /\ EndsCleanly(attempt) /\ result # "send" =>
          stream[attempt].error \notin RetryableErrors /\ Finished(peer[attempt])
    /\ stream[attempt].error = "none" /\ sink.completed => EndsCleanly(attempt)

\* What the request thread reports is what the consumer was told.
ResultOK ==
    /\ pc \notin Left \cup Failing => result = "none"
    /\ pc \in Failing => result = "send"
    /\ pc = "finalizing" => stream[attempt].isEnded
    /\ pc \in Left /\ result # "timeout" => sink.completed
    /\ pc \in Left /\ result = "none" => EndsCleanly(attempt)
    /\ result \in RetryableErrors => ~EndsCleanly(attempt)
    /\ pc = "retrying" => result \in RetryableErrors /\ attempt = 1

\* The first attempt ended once, with an error, before the second began.
RetryOK ==
    /\ attempt = 2 => EndedOnce(1) /\ ~EndsCleanly(1)
    /\ pc = "downgraded" => EndedOnce(attempt) /\ ~EndsCleanly(attempt)

IInv ==
    /\ TypeOK
    /\ CallsOK
    /\ AttachedOK
    /\ UnusedOK
    /\ CancelOK
    /\ EndOK
    /\ CleanOK
    /\ ResultOK
    /\ RetryOK

-----------------------------------------------------------------------------
(* The callbacks                                                            *)

Whats == Kinds \cup Errors \cup {"none", "readable", "raw"}

\* What a frame says before the end: nothing, the headers or a piece.
Talk(log) ==
    \/ log = <<>>
    \/ \E name \in {"onHeaders", "onData"}, what \in Whats : log = <<Call(attempt, name, what)>>
\* The end, or nothing.
EndCall(end, w) == end = <<>> \/ end = <<Call(attempt, "onComplete", w)>>

\* What Logged() makes of the calls of the attempt, and of the others.
LEMMA Appended ==
    ASSUME attempt \in Attempts, calls \in [Attempts -> Seq(CallType)], NEW log \in Seq(CallType), Logged(log)
    PROVE  /\ calls' \in [Attempts -> Seq(CallType)]
           /\ \A a \in Attempts \ {attempt} : calls'[a] = calls[a]
           /\ Len(calls'[attempt]) = Len(calls[attempt]) + Len(log)
           /\ \A i \in 1 .. Len(calls[attempt]) : calls'[attempt][i] = calls[attempt][i]
           /\ \A i \in 1 .. Len(log) : calls'[attempt][Len(calls[attempt]) + i] = log[i]
<1>. DEFINE old == calls[attempt]
<1>1. old \in Seq(CallType)
  OBVIOUS
<1>2. /\ calls' = [calls EXCEPT ![attempt] = old \o log]
  BY DEF Logged
<1>. HIDE DEF old
<1>3. /\ old \o log \in Seq(CallType)
      /\ Len(old \o log) = Len(old) + Len(log)
      /\ \A i \in 1 .. Len(old) + Len(log) : (old \o log)[i] = IF i <= Len(old) THEN old[i] ELSE log[i - Len(old)]
  BY <1>1, ConcatProperties
<1>4. Len(old) \in Nat /\ Len(log) \in Nat
  BY <1>1
<1>5. /\ calls' \in [Attempts -> Seq(CallType)]
      /\ \A a \in Attempts \ {attempt} : calls'[a] = calls[a]
      /\ calls'[attempt] = old \o log
  BY <1>2, <1>3
<1>6. \A i \in 1 .. Len(old) : (old \o log)[i] = old[i]
  BY <1>3, <1>4
<1>7. \A i \in 1 .. Len(log) : (old \o log)[Len(old) + i] = log[i]
  BY <1>3, <1>4
<1>. QED BY <1>3, <1>5, <1>6, <1>7 DEF old

\* The calls of a frame, one by one: at most one of them is an end, the last.
LEMMA LogShape ==
    ASSUME attempt \in Attempts, NEW log, Talk(log), NEW w \in Whats, NEW end, EndCall(end, w)
    PROVE  /\ log \o end \in Seq(CallType)
           /\ \A i \in 1 .. Len(log \o end) : (log \o end)[i].stream = attempt
           /\ end = <<>> => \A i \in 1 .. Len(log \o end) : (log \o end)[i].name # "onComplete"
           /\ end # <<>> => /\ Len(log \o end) \in {1, 2}
                            /\ (log \o end)[Len(log \o end)] = Call(attempt, "onComplete", w)
                            /\ \A i \in 1 .. Len(log \o end) - 1 : (log \o end)[i].name # "onComplete"
<1>0. end \in Seq(CallType)
  <2>1. Call(attempt, "onComplete", w) \in CallType
    BY DEF Call, CallType, Whats
  <2>2. CASE end = <<>>
    BY <2>2
  <2>3. CASE end = <<Call(attempt, "onComplete", w)>>
    BY <2>1, <2>3
  <2>. QED BY <2>2, <2>3 DEF EndCall
<1>1. CASE log = <<>>
  <2>1. end \in Seq(CallType)
    BY <1>0
  <2>2. log \o end = end
    BY <1>1, <2>1, ConcatEmptySeq
  <2>. QED BY <2>1, <2>2 DEF EndCall, Call
<1>2. ASSUME NEW name \in {"onHeaders", "onData"}, NEW what \in Whats, log = <<Call(attempt, name, what)>>
      PROVE  /\ log \o end \in Seq(CallType)
             /\ \A i \in 1 .. Len(log \o end) : (log \o end)[i].stream = attempt
             /\ end = <<>> => \A i \in 1 .. Len(log \o end) : (log \o end)[i].name # "onComplete"
             /\ end # <<>> => /\ Len(log \o end) \in {1, 2}
                              /\ (log \o end)[Len(log \o end)] = Call(attempt, "onComplete", w)
                              /\ \A i \in 1 .. Len(log \o end) - 1 : (log \o end)[i].name # "onComplete"
  <2>0. log \in Seq(CallType)
    BY <1>2 DEF Call, CallType, Whats
  <2>1. CASE end = <<>>
    <3>1. log \o end = log
      BY <2>0, <2>1, ConcatEmptySeq
    <3>. QED BY <1>2, <2>0, <2>1, <3>1 DEF Call
  <2>2. CASE end # <<>>
    <3>1. end = <<Call(attempt, "onComplete", w)>>
      BY <2>2 DEF EndCall
    <3>2. Len(log) = 1 /\ Len(end) = 1 /\ log[1] = Call(attempt, name, what)
          /\ end[1] = Call(attempt, "onComplete", w)
      BY <1>2, <3>1
    <3>3. /\ log \o end \in Seq(CallType) /\ Len(log \o end) = 2
          /\ (log \o end)[1] = Call(attempt, name, what)
          /\ (log \o end)[2] = Call(attempt, "onComplete", w)
      <4>1. /\ log \o end \in Seq(CallType) /\ Len(log \o end) = Len(log) + Len(end)
            /\ \A i \in 1 .. Len(log) + Len(end) : (log \o end)[i] =
                                   IF i <= Len(log) THEN log[i] ELSE end[i - Len(log)]
        BY <1>0, <2>0, ConcatProperties
      <4>. QED BY <3>2, <4>1
    <3>. HIDE DEF Call
    <3>4. /\ Call(attempt, name, what).stream = attempt /\ Call(attempt, name, what).name = name
          /\ Call(attempt, "onComplete", w).stream = attempt
      BY DEF Call
    <3>. QED BY <2>2, <3>3, <3>4
  <2>. QED BY <2>1, <2>2
<1>. QED BY <1>1, <1>2 DEF Talk

\* What the calls of a frame add to the ends of the attempt.
LEMMA EndLogged ==
    ASSUME attempt \in Attempts, calls \in [Attempts -> Seq(CallType)], RetryFromScratch, UNCHANGED attempt,
           NEW log, Talk(log), NEW w \in Whats, NEW end, EndCall(end, w), Logged(log \o end)
    PROVE  /\ CallsOK'
           /\ \A a \in Attempts \ {attempt} : /\ calls'[a] = calls[a]
                                              /\ EndedOnce(a)' <=> EndedOnce(a)
                                              /\ EndsCleanly(a)' <=> EndsCleanly(a)
           /\ end = <<>> => /\ Ends(attempt)' = Ends(attempt)
                            /\ EndsCleanly(attempt)' <=> EndsCleanly(attempt)
           /\ end # <<>> /\ Ends(attempt) = {} => EndedOnce(attempt)'
           /\ end # <<>> /\ EndedOnce(attempt) => EndedTwice(attempt)'
           /\ end # <<>> => (EndsCleanly(attempt)' <=> EndsCleanly(attempt) \/ w = "none")
<1>. DEFINE full == log \o end
            n == Len(calls[attempt])
            m == Len(full)
<1>1. /\ full \in Seq(CallType)
      /\ \A i \in 1 .. m : full[i].stream = attempt
      /\ end = <<>> => \A i \in 1 .. m : full[i].name # "onComplete"
      /\ end # <<>> => /\ m \in {1, 2} /\ full[m] = Call(attempt, "onComplete", w)
                       /\ \A i \in 1 .. m - 1 : full[i].name # "onComplete"
  BY LogShape
<1>2. Logged(full)
  OBVIOUS
<1>. HIDE DEF full
<1>3. n \in Nat /\ m \in Nat
  BY <1>1
<1>4. /\ calls' \in [Attempts -> Seq(CallType)]
      /\ \A a \in Attempts \ {attempt} : calls'[a] = calls[a]
      /\ Len(calls'[attempt]) = n + m
      /\ \A i \in 1 .. n : calls'[attempt][i] = calls[attempt][i]
      /\ \A i \in 1 .. m : calls'[attempt][n + i] = full[i]
  BY <1>1, <1>2, Appended
<1>5. \A i \in 1 .. n + m : i \in 1 .. n \/ (i - n \in 1 .. m /\ calls'[attempt][i] = full[i - n])
  <2>. TAKE i \in 1 .. n + m
  <2>1. CASE i <= n
    BY <1>3, <2>1
  <2>2. CASE i > n
    <3>1. i - n \in 1 .. m /\ n + (i - n) = i
      BY <1>3, <2>2
    <3>2. calls'[attempt][n + (i - n)] = full[i - n]
      BY <1>4, <3>1
    <3>. QED BY <3>1, <3>2
  <2>. QED BY <1>3, <2>1, <2>2
<1>. HIDE DEF n, m
<1>6. CallsOK'
  <2>1. \A i \in 1 .. n : calls[attempt][i].stream = attempt
    BY DEF RetryFromScratch, n
  <2>2. \A i \in 1 .. n + m : calls'[attempt][i].stream = attempt
    <3>. TAKE i \in 1 .. n + m
    <3>1. CASE i \in 1 .. n
      BY <1>4, <2>1, <3>1 DEF n
    <3>2. CASE i \notin 1 .. n
      BY <1>1, <1>5, <3>2
    <3>. QED BY <3>1, <3>2
  <2>3. \A a \in Attempts \ {attempt} : \A i \in 1 .. Len(calls'[a]) : calls'[a][i].stream = a
    BY <1>4 DEF RetryFromScratch
  <2>. QED BY <1>4, <2>2, <2>3 DEF CallsOK, RetryFromScratch
<1>7. \A a \in Attempts \ {attempt} : /\ calls'[a] = calls[a]
                                      /\ EndedOnce(a)' <=> EndedOnce(a)
                                      /\ EndsCleanly(a)' <=> EndsCleanly(a)
  BY <1>4 DEF EndedOnce, Ends, EndsCleanly
<1>8. ASSUME end = <<>>
      PROVE  /\ Ends(attempt)' = Ends(attempt)
             /\ EndsCleanly(attempt)' <=> EndsCleanly(attempt)
  <2>1. \A i \in 1 .. n + m : i \in 1 .. n \/ calls'[attempt][i].name # "onComplete"
    BY <1>1, <1>5, <1>8
  <2>2. Ends(attempt)' = Ends(attempt)
    BY <1>3, <1>4, <2>1 DEF Ends, n
  <2>3. EndsCleanly(attempt)' <=> EndsCleanly(attempt)
    BY <1>3, <1>4, <2>1 DEF EndsCleanly, n, Call
  <2>. QED BY <2>2, <2>3
<1>9. ASSUME end # <<>>
      PROVE  /\ Ends(attempt) = {} => EndedOnce(attempt)'
             /\ EndedOnce(attempt) => EndedTwice(attempt)'
             /\ EndsCleanly(attempt)' <=> EndsCleanly(attempt) \/ w = "none"
  <2>0. m \in {1, 2}
    BY <1>1, <1>9
  <2>1. calls'[attempt][n + m] = Call(attempt, "onComplete", w)
    BY <1>1, <1>4, <1>9, <2>0
  <2>2. \A i \in 1 .. n + m : i \in 1 .. n \/ i = n + m \/ calls'[attempt][i].name # "onComplete"
    <3>. TAKE i \in 1 .. n + m
    <3>1. CASE i \in 1 .. n \/ i = n + m
      BY <3>1
    <3>2. CASE i \notin 1 .. n /\ i # n + m
      <4>1. i - n \in 1 .. m - 1 /\ calls'[attempt][i] = full[i - n]
        BY <1>3, <1>5, <3>2
      <4>. QED BY <1>1, <1>9, <4>1
    <3>. QED BY <3>1, <3>2
  <2>3. n + m \in 1 .. n + m /\ n + m \notin 1 .. n /\ 1 .. n \subseteq 1 .. n + m
    BY <1>3, <2>0
  <2>4. Ends(attempt)' = Ends(attempt) \cup {n + m}
    BY <1>4, <2>1, <2>2, <2>3 DEF Ends, n, Call
  <2>5. Ends(attempt) = {} => EndedOnce(attempt)'
    BY <2>4 DEF EndedOnce
  <2>7. EndedOnce(attempt) => EndedTwice(attempt)'
    <3>1. n + m \notin Ends(attempt)
      BY <2>3 DEF Ends, n
    <3>. QED BY <2>4, <3>1 DEF EndedOnce, EndedTwice
  <2>6. EndsCleanly(attempt)' <=> EndsCleanly(attempt) \/ w = "none"
    <3>1. ASSUME EndsCleanly(attempt)'
          PROVE  EndsCleanly(attempt) \/ w = "none"
      <4>1. PICK i \in 1 .. n + m : calls'[attempt][i] = Call(attempt, "onComplete", "none")
        BY <1>4, <3>1 DEF EndsCleanly
      <4>2. calls'[attempt][i].name = "onComplete"
        BY <4>1 DEF Call
      <4>3. CASE i \in 1 .. n
        BY <1>4, <4>1, <4>3 DEF EndsCleanly, n
      <4>4. CASE i = n + m
        BY <2>1, <4>1, <4>4 DEF Call
      <4>. QED BY <2>2, <4>2, <4>3, <4>4
    <3>2. ASSUME EndsCleanly(attempt)
          PROVE  EndsCleanly(attempt)'
      BY <1>4, <2>3, <3>2 DEF EndsCleanly, n, Call
    <3>3. ASSUME w = "none"
          PROVE  EndsCleanly(attempt)'
      BY <1>4, <2>1, <2>3, <3>3 DEF EndsCleanly, Call
    <3>. QED BY <3>1, <3>2, <3>3
  <2>. QED BY <2>5, <2>6, <2>7
<1>. QED BY <1>6, <1>7, <1>8, <1>9

-----------------------------------------------------------------------------
(* Frames                                                                   *)

\* No end, no clean end.
LEMMA CleanIsEnd ==
    ASSUME NEW a \in Attempts, Ends(a) = {}
    PROVE  ~EndsCleanly(a)
BY DEF Ends, EndsCleanly, Call

\* What a frame has to see to, whatever it is.
LEMMA FrameKeeps ==
    ASSUME IInv, stream[attempt].registered,
           pc = "sending" => peer'[attempt].stage \in {"idle", "lost"},
           UNCHANGED <<attempt, pc, result>>, TypeOK', CancelOK',
           NEW log, Talk(log), NEW w \in Whats, NEW end, EndCall(end, w), Logged(log \o end),
           \A a \in Attempts \ {attempt} : stream'[a] = stream[a] /\ peer'[a] = peer[a],
           stream[attempt].isEnded => stream'[attempt].isEnded,
           stream[attempt].error # "none" => stream'[attempt].error # "none",
           sink.completed => sink'.completed,
           end # <<>> <=> sink'.completed /\ ~sink.completed,
           stream'[attempt].isEnded => sink'.completed,
           sink'.completed => sink.completed \/ stream'[attempt].isEnded,
           end # <<>> => (w = "none" <=> stream'[attempt].error = "none"),
           end # <<>> /\ w = "none" => Finished(peer'[attempt]),
           Finished(peer[attempt]) => Finished(peer'[attempt]),
           stream'[attempt].error \in RetryableErrors =>
              stream[attempt].error \in RetryableErrors \/ ~Finished(peer[attempt]) \/ ~stream[attempt].isEnded
    PROVE  IInv'
<1>0. /\ attempt \in Attempts /\ calls \in [Attempts -> Seq(CallType)] /\ RetryFromScratch
      /\ pc \in Attached /\ pc \notin {"register", "retrying", "done", "downgraded"}
  BY DEF IInv, TypeOK, CallsOK, AttachedOK, Attached, Failing
<1>1. /\ CallsOK'
      /\ \A a \in Attempts \ {attempt} : /\ calls'[a] = calls[a]
                                         /\ EndedOnce(a)' <=> EndedOnce(a)
                                         /\ EndsCleanly(a)' <=> EndsCleanly(a)
      /\ end = <<>> => /\ Ends(attempt)' = Ends(attempt)
                       /\ EndsCleanly(attempt)' <=> EndsCleanly(attempt)
      /\ end # <<>> /\ Ends(attempt) = {} => EndedOnce(attempt)'
      /\ end # <<>> => (EndsCleanly(attempt)' <=> EndsCleanly(attempt) \/ w = "none")
  BY <1>0, EndLogged
<1>2. AttachedOK'
  BY <1>0 DEF IInv, AttachedOK
<1>3. UnusedOK'
  BY <1>0, <1>1 DEF IInv, UnusedOK, Attempts
<1>4. /\ sink.completed => EndedOnce(attempt) \/ DoubleEnd
      /\ ~sink.completed => Ends(attempt) = {} /\ ~EndsCleanly(attempt)
  BY <1>0, CleanIsEnd DEF IInv, EndOK
<1>5. EndOK'
  <2>1. end = <<>> => /\ EndedOnce(attempt)' <=> EndedOnce(attempt)
                      /\ DoubleEnd => DoubleEnd'
    BY <1>1 DEF EndedOnce, EndedTwice, DoubleEnd
  <2>. QED BY <1>0, <1>1, <1>4, <2>1 DEF IInv, EndOK
<1>6. CleanOK'
  <2>1. EndsCleanly(attempt)' /\ result # "send" =>
            stream'[attempt].error \notin RetryableErrors /\ Finished(peer'[attempt])
    <3>1. CASE EndsCleanly(attempt) /\ result # "send"
      <4>1. sink.completed /\ stream[attempt].isEnded
        BY <1>4, <3>1 DEF IInv, EndOK
      <4>. QED BY <3>1, <4>1 DEF IInv, CleanOK
    <3>2. CASE ~EndsCleanly(attempt)
      BY <1>1, <3>2 DEF RetryableErrors
    <3>. QED BY <3>1, <3>2
  <2>2. stream'[attempt].error = "none" /\ sink'.completed => EndsCleanly(attempt)'
    BY <1>1 DEF IInv, CleanOK
  <2>. QED BY <2>1, <2>2 DEF CleanOK, Finished
<1>7. ResultOK'
  <2>1. pc \in Left /\ result # "timeout" => sink.completed
    BY DEF IInv, ResultOK
  <2>2. result \in RetryableErrors => sink.completed /\ ~EndsCleanly(attempt)
    BY <2>1 DEF IInv, ResultOK, RetryableErrors
  <2>3. EndsCleanly(attempt) => EndsCleanly(attempt)'
    BY <1>1
  <2>4. result \in RetryableErrors => ~EndsCleanly(attempt)'
    BY <1>1, <2>2
  <2>. QED BY <1>0, <2>1, <2>3, <2>4 DEF IInv, ResultOK, Left, Failing
<1>8. RetryOK'
  BY <1>0, <1>1 DEF IInv, RetryOK, Attempts
<1>. QED BY <1>1, <1>2, <1>3, <1>5, <1>6, <1>7, <1>8 DEF IInv

\* endStreamReading(), after a frame has made s and k of the Stream and the sink.
LEMMA EndReading ==
    ASSUME IInv, stream[attempt].registered, peer[attempt].stage \notin {"idle", "lost"},
           UNCHANGED <<attempt, pc, result>>,
           NEW s \in StreamType, NEW k \in SinkType, NEW log, Talk(log),
           EndStreamReading(attempt, s, k, log),
           connError' \in [Attempts -> RetryableErrors \cup {"none"}],
           peer' \in [Attempts -> PeerType], peer'[1].sent + peer'[2].sent <= MaxPieces,
           \A a \in Attempts \ {attempt} : peer'[a] = peer[a],
           s.registered, stream[attempt].isEnded => s.isEnded,
           stream[attempt].error # "none" => s.error # "none",
           k.completed = sink.completed, k.cancellationTaken = sink.cancellationTaken,
           sink.cancelled => k.cancelled,
           k.cancelled => s.error # "none",
           ~k.cancelled => ~k.aborted /\ k.error = "none",
           s.isEnded /\ ~stream[attempt].isEnded /\ s.error = "none" => Finished(peer'[attempt]),
           Finished(peer[attempt]) => Finished(peer'[attempt]),
           s.error \in RetryableErrors =>
              stream[attempt].error \in RetryableErrors \/ ~Finished(peer[attempt]) \/ ~stream[attempt].isEnded
    PROVE  /\ IInv'
           /\ LET over == s.isEnded \/ Takes(k)
              IN  /\ stream'[attempt].isEnded = over
                  /\ stream'[attempt].error = s.error
                  /\ sink'.completed <=> k.completed \/ over
                  /\ sink'.headersDelivered = k.headersDelivered
                  /\ sink'.decompressor = (k.decompressor /\ ~over)
<1>. DEFINE over == s.isEnded \/ Takes(k)
            s2 == [s EXCEPT !.isEnded = over]
            k2 == [(IF over THEN Completed(k) ELSE k) EXCEPT !.cancellationTaken = @ \/ Takes(k)]
            end == IF over THEN CompleteCall(attempt, s, k) ELSE <<>>
            w == IF k.error # "none" THEN k.error ELSE s.error
<1>0. attempt \in Attempts /\ Takes(k) \in BOOLEAN
  BY DEF IInv, TypeOK, Takes, SinkType
<1>1. /\ stream' = [stream EXCEPT ![attempt] = s2]
      /\ sink' = k2
      /\ Logged(log \o end)
      /\ resets' = IF Takes(k) THEN resets + 1 ELSE resets
  BY DEF EndStreamReading
<1>2. /\ s2 \in StreamType /\ s2.registered = s.registered /\ s2.isEnded = over /\ s2.error = s.error
      /\ s2.headers = s.headers
  BY <1>0 DEF StreamType
<1>3. /\ k2 \in SinkType /\ (k2.completed <=> k.completed \/ over)
      /\ k2.cancelled = k.cancelled /\ k2.aborted = k.aborted /\ k2.error = k.error
      /\ (k2.cancellationTaken <=> k.cancellationTaken \/ Takes(k))
      /\ k2.headersDelivered = k.headersDelivered
      /\ k2.decompressor = (k.decompressor /\ ~over)
  <2>1. CASE over
    BY <1>0, <2>1 DEF SinkType, Completed
  <2>2. CASE ~over
    BY <1>0, <2>2 DEF SinkType
  <2>. QED BY <2>1, <2>2
<1>4. w \in Whats /\ EndCall(end, w)
  BY DEF StreamType, SinkType, Whats, EndCall, CompleteCall
<1>. HIDE DEF s2, k2
<1>5. /\ stream' \in [Attempts -> StreamType] /\ stream'[attempt] = s2
      /\ \A a \in Attempts \ {attempt} : stream'[a] = stream[a]
  BY <1>0, <1>1, <1>2 DEF IInv, TypeOK
<1>6. /\ end # <<>> <=> over /\ ~k.completed
  BY <1>0 DEF CompleteCall
<1>7. Takes(k) <=> k.cancelled /\ ~sink.cancellationTaken
  BY DEF Takes
<1>8. CancelOK'
  <2>1. CASE k.cancelled
    <3>1. resets' = 1 /\ (Takes(k) \/ sink.cancelled)
      BY <1>1, <1>7, <2>1 DEF IInv, CancelOK
    <3>2. over /\ s2.isEnded /\ k2.completed /\ k2.cancellationTaken
      BY <1>2, <1>3, <3>1 DEF IInv, CancelOK
    <3>. QED BY <1>1, <1>2, <1>3, <1>5, <2>1, <3>1, <3>2 DEF CancelOK
  <2>2. CASE ~k.cancelled
    BY <1>1, <1>2, <1>3, <1>5, <1>7, <2>2 DEF IInv, CancelOK
  <2>. QED BY <2>1, <2>2
<1>9. resets' \in {0, 1}
  BY <1>1, <1>7 DEF IInv, CancelOK, TypeOK
<1>10. TypeOK'
  BY <1>1, <1>3, <1>5, <1>9 DEF IInv, TypeOK
<1>11. k.error # "none" => s.error # "none"
  BY DEF SinkType
<1>12. end # <<>> => (w = "none" <=> s.error = "none")
  BY <1>11
<1>13. end # <<>> /\ w = "none" => Finished(peer'[attempt])
  <2>. SUFFICES ASSUME end # <<>>, w = "none"
                PROVE  Finished(peer'[attempt])
    OBVIOUS
  <2>1. s.error = "none" /\ ~k.cancelled
    BY <1>12
  <2>2. s.isEnded /\ ~sink.completed
    BY <1>6, <1>7, <2>1
  <2>3. ~stream[attempt].isEnded
    BY <1>0, <2>2 DEF IInv, EndOK, AttachedOK, Attached, Failing
  <2>. QED BY <2>1, <2>2, <2>3
<1>. HIDE DEF over, end, w
<1>15. pc # "sending"
  BY DEF IInv, AttachedOK
<1>14. IInv'
  BY <1>1, <1>2, <1>3, <1>4, <1>15, <1>5, <1>6, <1>8, <1>10, <1>12, <1>13, FrameKeeps DEF over
<1>. QED BY <1>1, <1>2, <1>3, <1>5, <1>14 DEF over

-----------------------------------------------------------------------------
(* A response that ends cleanly was whole                                   *)

\* No header blocks before the final one, and no END_STREAM on a block that goes on.
Plain == "interim" \notin Behaviours /\ "endingBlock" \notin Behaviours

\* The final headers and a piece for every one sent; then the end.
Begun(a) ==
    /\ Len(calls[a]) = peer[a].sent + 1
    /\ calls[a][1] = Call(a, "onHeaders", "final")
    /\ \A i \in 2 .. Len(calls[a]) : calls[a][i] = Call(a, "onData", "readable")
Whole(a) ==
    /\ Len(calls[a]) = peer[a].sent + 2
    /\ calls[a][1] = Call(a, "onHeaders", "final")
    /\ calls[a][Len(calls[a])] = Call(a, "onComplete", "none")
    /\ \A i \in 2 .. Len(calls[a]) - 1 : calls[a][i] = Call(a, "onData", "readable")

\* As long as nothing has failed or ended, what was said is what was sent.
ProgressOK ==
    stream[attempt].error = "none" /\ ~sink.completed /\ pc # "downgraded" =>
        /\ peer[attempt].stage \in {"idle", "headers", "open", "body"}
        /\ peer[attempt].stage # "body" =>
              calls[attempt] = <<>> /\ ~sink.headersDelivered /\ peer[attempt].sent = 0
        /\ peer[attempt].stage \in {"idle", "headers"} => ~peer[attempt].encoded
        /\ peer[attempt].stage = "body" =>
              Begun(attempt) /\ sink.headersDelivered /\ sink.decompressor = peer[attempt].encoded
\* A block that goes on is the final one.
OpenOK == peer[attempt].stage = "open" => peer[attempt].block = "final" /\ ~peer[attempt].ends
\* A clean end is the last word.
WholeOK ==
    EndsCleanly(attempt) /\ result # "send" =>
        Whole(attempt) /\ peer[attempt].stage \in {"ended", "reset", "lost"} /\ stream[attempt].isEnded

SInv == ProgressOK /\ OpenOK /\ WholeOK

\* What a frame adds to the calls, and whether the end follows.
Extends(log) ==
    \/ calls[attempt] = <<>> /\ log = <<Call(attempt, "onHeaders", "final")>> /\ peer'[attempt].sent = 0
    \/ Begun(attempt) /\ log = <<>> /\ peer'[attempt].sent = peer[attempt].sent
    \/ Begun(attempt) /\ log = <<Call(attempt, "onData", "readable")>>
          /\ peer'[attempt].sent = peer[attempt].sent + 1

\* The sequence goes on.
LEMMA StillBegun ==
    ASSUME IInv, UNCHANGED attempt, NEW log, Extends(log), Logged(log \o <<>>)
    PROVE  Begun(attempt)'
<1>0. attempt \in Attempts /\ calls \in [Attempts -> Seq(CallType)] /\ peer[attempt].sent \in Nat
  BY DEF IInv, TypeOK, CallsOK, PeerType
<1>1. log \in Seq(CallType) /\ log \o <<>> = log
  <2>1. Call(attempt, "onHeaders", "final") \in CallType /\ Call(attempt, "onData", "readable") \in CallType
    BY <1>0 DEF Call, CallType, Kinds
  <2>2. log \in Seq(CallType)
    <3>1. CASE log = <<>>
      BY <3>1
    <3>2. CASE log = <<Call(attempt, "onHeaders", "final")>>
      BY <2>1, <3>2
    <3>3. CASE log = <<Call(attempt, "onData", "readable")>>
      BY <2>1, <3>3
    <3>. QED BY <3>1, <3>2, <3>3 DEF Extends
  <2>. QED BY <2>2, ConcatEmptySeq
<1>2. /\ Len(calls'[attempt]) = Len(calls[attempt]) + Len(log)
      /\ \A i \in 1 .. Len(calls[attempt]) : calls'[attempt][i] = calls[attempt][i]
      /\ \A i \in 1 .. Len(log) : calls'[attempt][Len(calls[attempt]) + i] = log[i]
  BY <1>0, <1>1, Appended
<1>3. CASE calls[attempt] = <<>> /\ log = <<Call(attempt, "onHeaders", "final")>> /\ peer'[attempt].sent = 0
  <2>1. Len(log) = 1 /\ log[1] = Call(attempt, "onHeaders", "final") /\ Len(calls[attempt]) = 0
    BY <1>3
  <2>2. Len(calls'[attempt]) = 1 /\ calls'[attempt][1] = Call(attempt, "onHeaders", "final")
    BY <1>2, <2>1
  <2>. QED BY <1>3, <2>2 DEF Begun, Call
<1>4. CASE Begun(attempt) /\ log = <<>> /\ peer'[attempt].sent = peer[attempt].sent
  <2>1. Len(log) = 0
    BY <1>4
  <2>2. Len(calls'[attempt]) = Len(calls[attempt]) /\ Len(calls[attempt]) = peer[attempt].sent + 1
    BY <1>0, <1>2, <1>4, <2>1 DEF Begun
  <2>. QED BY <1>0, <1>2, <1>4, <2>2 DEF Begun, Call
<1>5. CASE /\ Begun(attempt) /\ log = <<Call(attempt, "onData", "readable")>>
           /\ peer'[attempt].sent = peer[attempt].sent + 1
  <2>1. Len(log) = 1 /\ log[1] = Call(attempt, "onData", "readable")
    BY <1>5
  <2>2. Len(calls[attempt]) = peer[attempt].sent + 1 /\ Len(calls'[attempt]) = peer[attempt].sent + 2
    BY <1>0, <1>2, <1>5, <2>1 DEF Begun
  <2>3. calls'[attempt][peer[attempt].sent + 2] = Call(attempt, "onData", "readable")
    BY <1>0, <1>2, <2>1, <2>2
  <2>4. /\ calls'[attempt][1] = Call(attempt, "onHeaders", "final")
        /\ \A i \in 2 .. peer[attempt].sent + 1 : calls'[attempt][i] = Call(attempt, "onData", "readable")
    <3>1. \A i \in 1 .. peer[attempt].sent + 1 : calls'[attempt][i] = calls[attempt][i]
      BY <1>2, <2>2
    <3>2. 1 \in 1 .. peer[attempt].sent + 1
      BY <1>0
    <3>3. \A i \in 2 .. peer[attempt].sent + 1 : i \in 1 .. peer[attempt].sent + 1
      BY <1>0
    <3>4. /\ calls[attempt][1] = Call(attempt, "onHeaders", "final")
          /\ \A i \in 2 .. peer[attempt].sent + 1 : calls[attempt][i] = Call(attempt, "onData", "readable")
      BY <1>5, <2>2 DEF Begun
    <3>. QED BY <3>1, <3>2, <3>3, <3>4
  <2>5. \A i \in 2 .. peer[attempt].sent + 2 : calls'[attempt][i] = Call(attempt, "onData", "readable")
    <3>1. \A i \in 2 .. peer[attempt].sent + 2 : i = peer[attempt].sent + 2 \/ i \in 2 .. peer[attempt].sent + 1
      BY <1>0
    <3>. QED BY <2>3, <2>4, <3>1
  <2>. QED BY <1>0, <1>5, <2>2, <2>4, <2>5 DEF Begun, Call
<1>. QED BY <1>3, <1>4, <1>5 DEF Extends

\* The sequence is complete.
LEMMA NowWhole ==
    ASSUME IInv, UNCHANGED attempt, NEW log, Extends(log),
           Logged(log \o <<Call(attempt, "onComplete", "none")>>)
    PROVE  Whole(attempt)'
<1>. DEFINE end == <<Call(attempt, "onComplete", "none")>>
            all == log \o end
<1>0. attempt \in Attempts /\ calls \in [Attempts -> Seq(CallType)] /\ peer[attempt].sent \in Nat
  BY DEF IInv, TypeOK, CallsOK, PeerType
<1>1. log \in Seq(CallType) /\ end \in Seq(CallType) /\ Len(end) = 1 /\ end[1] = Call(attempt, "onComplete", "none")
  <2>1. /\ Call(attempt, "onHeaders", "final") \in CallType /\ Call(attempt, "onData", "readable") \in CallType
        /\ Call(attempt, "onComplete", "none") \in CallType
    BY <1>0 DEF Call, CallType, Kinds
  <2>2. log \in Seq(CallType)
    <3>1. CASE log = <<>>
      BY <3>1
    <3>2. CASE log = <<Call(attempt, "onHeaders", "final")>>
      BY <2>1, <3>2
    <3>3. CASE log = <<Call(attempt, "onData", "readable")>>
      BY <2>1, <3>3
    <3>. QED BY <3>1, <3>2, <3>3 DEF Extends
  <2>. QED BY <2>1, <2>2
<1>. HIDE DEF end
<1>2. /\ all \in Seq(CallType) /\ Len(all) = Len(log) + 1
      /\ \A i \in 1 .. Len(log) : all[i] = log[i]
      /\ all[Len(log) + 1] = Call(attempt, "onComplete", "none")
  <2>1. Len(log) \in Nat
    BY <1>1
  <2>2. /\ all \in Seq(CallType) /\ Len(all) = Len(log) + Len(end)
        /\ \A i \in 1 .. Len(log) + Len(end) : all[i] = IF i <= Len(log) THEN log[i] ELSE end[i - Len(log)]
    BY <1>1, ConcatProperties
  <2>. QED BY <1>1, <2>1, <2>2
<1>3. Logged(all)
  BY DEF end
<1>. HIDE DEF all
<1>4. /\ Len(calls'[attempt]) = Len(calls[attempt]) + Len(all)
      /\ \A i \in 1 .. Len(calls[attempt]) : calls'[attempt][i] = calls[attempt][i]
      /\ \A i \in 1 .. Len(all) : calls'[attempt][Len(calls[attempt]) + i] = all[i]
  BY <1>0, <1>2, <1>3, Appended
<1>5. CASE calls[attempt] = <<>> /\ log = <<Call(attempt, "onHeaders", "final")>> /\ peer'[attempt].sent = 0
  <2>1. Len(log) = 1 /\ log[1] = Call(attempt, "onHeaders", "final") /\ Len(calls[attempt]) = 0
    BY <1>5
  <2>2. /\ Len(calls'[attempt]) = 2 /\ calls'[attempt][1] = Call(attempt, "onHeaders", "final")
        /\ calls'[attempt][2] = Call(attempt, "onComplete", "none")
    BY <1>2, <1>4, <2>1
  <2>. QED BY <1>5, <2>2 DEF Whole, Call
<1>6. CASE Begun(attempt) /\ log = <<>> /\ peer'[attempt].sent = peer[attempt].sent
  <2>1. Len(log) = 0 /\ Len(all) = 1 /\ all[1] = Call(attempt, "onComplete", "none")
    BY <1>2, <1>6
  <2>2. Len(calls[attempt]) = peer[attempt].sent + 1 /\ Len(calls'[attempt]) = peer[attempt].sent + 2
    BY <1>0, <1>4, <1>6, <2>1 DEF Begun
  <2>3. calls'[attempt][peer[attempt].sent + 2] = Call(attempt, "onComplete", "none")
    BY <1>0, <1>4, <2>1, <2>2
  <2>4. /\ calls'[attempt][1] = Call(attempt, "onHeaders", "final")
        /\ \A i \in 2 .. peer[attempt].sent + 1 : calls'[attempt][i] = Call(attempt, "onData", "readable")
    <3>1. \A i \in 1 .. peer[attempt].sent + 1 : calls'[attempt][i] = calls[attempt][i]
      BY <1>4, <2>2
    <3>2. 1 \in 1 .. peer[attempt].sent + 1
      BY <1>0
    <3>3. \A i \in 2 .. peer[attempt].sent + 1 : i \in 1 .. peer[attempt].sent + 1
      BY <1>0
    <3>4. /\ calls[attempt][1] = Call(attempt, "onHeaders", "final")
          /\ \A i \in 2 .. peer[attempt].sent + 1 : calls[attempt][i] = Call(attempt, "onData", "readable")
      BY <1>6, <2>2 DEF Begun
    <3>. QED BY <3>1, <3>2, <3>3, <3>4
  <2>. QED BY <1>0, <1>6, <2>2, <2>3, <2>4 DEF Whole, Call
<1>7. CASE /\ Begun(attempt) /\ log = <<Call(attempt, "onData", "readable")>>
           /\ peer'[attempt].sent = peer[attempt].sent + 1
  <2>1. /\ Len(all) = 2 /\ all[1] = Call(attempt, "onData", "readable")
        /\ all[2] = Call(attempt, "onComplete", "none")
    BY <1>2, <1>7
  <2>2. Len(calls[attempt]) = peer[attempt].sent + 1 /\ Len(calls'[attempt]) = peer[attempt].sent + 3
    BY <1>0, <1>4, <1>7, <2>1 DEF Begun
  <2>3. /\ calls'[attempt][peer[attempt].sent + 2] = Call(attempt, "onData", "readable")
        /\ calls'[attempt][peer[attempt].sent + 3] = Call(attempt, "onComplete", "none")
    BY <1>0, <1>4, <2>1, <2>2
  <2>4. /\ calls'[attempt][1] = Call(attempt, "onHeaders", "final")
        /\ \A i \in 2 .. peer[attempt].sent + 1 : calls'[attempt][i] = Call(attempt, "onData", "readable")
    <3>1. \A i \in 1 .. peer[attempt].sent + 1 : calls'[attempt][i] = calls[attempt][i]
      BY <1>4, <2>2
    <3>2. 1 \in 1 .. peer[attempt].sent + 1
      BY <1>0
    <3>3. \A i \in 2 .. peer[attempt].sent + 1 : i \in 1 .. peer[attempt].sent + 1
      BY <1>0
    <3>4. /\ calls[attempt][1] = Call(attempt, "onHeaders", "final")
          /\ \A i \in 2 .. peer[attempt].sent + 1 : calls[attempt][i] = Call(attempt, "onData", "readable")
      BY <1>7, <2>2 DEF Begun
    <3>. QED BY <3>1, <3>2, <3>3, <3>4
  <2>5. \A i \in 2 .. peer[attempt].sent + 2 : calls'[attempt][i] = Call(attempt, "onData", "readable")
    BY <1>0, <2>3, <2>4
  <2>. QED BY <1>0, <1>7, <2>2, <2>3, <2>4, <2>5 DEF Whole, Call
<1>. QED BY <1>5, <1>6, <1>7 DEF Extends

\* endStreamReading() for a response that is whole so far: the frame says what
\* is next, or fails it; nothing comes after the end but a reset.
LEMMA WholeStep ==
    ASSUME IInv, IInv', SInv, UNCHANGED <<attempt, pc, result>>, stream[attempt].registered,
           NEW s \in StreamType, NEW k \in SinkType, NEW log, Talk(log),
           EndStreamReading(attempt, s, k, log),
           NEW over \in BOOLEAN, over <=> s.isEnded \/ Takes(k),
           stream'[attempt].isEnded = over, stream'[attempt].error = s.error,
           sink'.completed <=> k.completed \/ over,
           sink'.headersDelivered = k.headersDelivered,
           sink'.decompressor = (k.decompressor /\ ~over),
           k.completed = sink.completed,
           k.cancelled => s.error # "none", k.error # "none" => s.error # "none",
           stream[attempt].error # "none" => s.error # "none",
           stream[attempt].isEnded => s.isEnded,
           OpenOK',
           peer[attempt].stage \in {"ended", "reset", "lost"} =>
              log = <<>> /\ peer'[attempt].stage \in {"ended", "reset", "lost"}
                /\ peer'[attempt].sent = peer[attempt].sent,
           s.error = "none" /\ ~sink.completed =>
              \/ Extends(log) /\ (IF s.isEnded THEN peer'[attempt].stage \in {"ended", "reset", "lost"}
                                  ELSE /\ peer'[attempt].stage = "body" /\ k.headersDelivered
                                       /\ k.decompressor = peer'[attempt].encoded)
              \/ log = <<>> /\ ~s.isEnded /\ calls[attempt] = <<>> /\ ~k.headersDelivered
                   /\ peer'[attempt].stage = "open" /\ peer'[attempt].sent = 0
    PROVE  SInv'
<1>. DEFINE end == IF over THEN CompleteCall(attempt, s, k) ELSE <<>>
            w == IF k.error # "none" THEN k.error ELSE s.error
<1>0. /\ attempt \in Attempts /\ calls \in [Attempts -> Seq(CallType)] /\ RetryFromScratch
      /\ pc \in Attached /\ pc # "downgraded"
  BY DEF IInv, TypeOK, CallsOK, AttachedOK, Attached, Failing
<1>1. Logged(log \o end)
  BY DEF EndStreamReading
<1>2. w \in Whats /\ EndCall(end, w) /\ (end # <<>> <=> over /\ ~sink.completed)
  BY DEF StreamType, SinkType, Whats, EndCall, CompleteCall
<1>. HIDE DEF end
<1>3. /\ end = <<>> => (EndsCleanly(attempt)' <=> EndsCleanly(attempt))
      /\ end # <<>> => (EndsCleanly(attempt)' <=> EndsCleanly(attempt) \/ w = "none")
  BY <1>0, <1>1, <1>2, EndLogged
<1>4. s.error = "none" => (over <=> s.isEnded)
  BY DEF Takes
<1>5. ProgressOK'
  <2>. SUFFICES ASSUME s.error = "none", ~sink'.completed
                PROVE  /\ peer'[attempt].stage \in {"idle", "headers", "open", "body"}
                       /\ peer'[attempt].stage # "body" =>
                             calls'[attempt] = <<>> /\ ~sink'.headersDelivered /\ peer'[attempt].sent = 0
                       /\ peer'[attempt].stage \in {"idle", "headers"} => ~peer'[attempt].encoded
                       /\ peer'[attempt].stage = "body" =>
                             Begun(attempt)' /\ sink'.headersDelivered
                               /\ sink'.decompressor = peer'[attempt].encoded
    BY DEF ProgressOK, Begun
  <2>1. ~sink.completed /\ ~over /\ ~s.isEnded /\ end = <<>>
    BY <1>2
  <2>2. CASE Extends(log) /\ peer'[attempt].stage = "body" /\ k.headersDelivered
               /\ k.decompressor = peer'[attempt].encoded
    <3>1. Begun(attempt)'
      BY <1>1, <2>1, <2>2, StillBegun
    <3>2. sink'.decompressor = k.decompressor
      BY <2>1 DEF SinkType
    <3>. QED BY <2>2, <3>1, <3>2
  <2>3. CASE log = <<>> /\ calls[attempt] = <<>> /\ ~k.headersDelivered
                   /\ peer'[attempt].stage = "open" /\ peer'[attempt].sent = 0
    <3>1. calls' = [calls EXCEPT ![attempt] = <<>> \o (<<>> \o <<>>)]
      BY <1>1, <2>1, <2>3 DEF Logged
    <3>2. <<>> \o (<<>> \o <<>>) = <<>>
      BY EmptySeq, ConcatEmptySeq
    <3>3. calls'[attempt] = <<>>
      BY <1>0, <3>1, <3>2
    <3>. QED BY <2>3, <3>3
  <2>. QED BY <2>1, <2>2, <2>3
<1>6. WholeOK'
  <2>. SUFFICES ASSUME EndsCleanly(attempt)', result # "send"
                PROVE  Whole(attempt)' /\ peer'[attempt].stage \in {"ended", "reset", "lost"} /\ over
    BY DEF WholeOK, Whole, EndsCleanly
  <2>1. CASE EndsCleanly(attempt)
    <3>1. Whole(attempt) /\ peer[attempt].stage \in {"ended", "reset", "lost"} /\ stream[attempt].isEnded
      BY <2>1 DEF SInv, WholeOK
    <3>2. sink.completed /\ over
      BY <1>0, <3>1 DEF IInv, EndOK
    <3>3. log = <<>> /\ end = <<>>
      BY <1>2, <3>1, <3>2
    <3>4. calls'[attempt] = calls[attempt]
      <4>1. <<>> \o <<>> = <<>> /\ calls[attempt] \o <<>> = calls[attempt]
        BY <1>0, EmptySeq, ConcatEmptySeq
      <4>. QED BY <1>0, <1>1, <3>3, <4>1 DEF Logged
    <3>. QED BY <3>1, <3>2, <3>4 DEF Whole
  <2>2. CASE ~EndsCleanly(attempt)
    <3>1. end # <<>> /\ w = "none"
      BY <1>3, <2>2
    <3>2. s.error = "none" /\ k.error = "none" /\ over /\ s.isEnded /\ ~sink.completed
      BY <1>2, <1>4, <3>1
    <3>3. end = <<Call(attempt, "onComplete", "none")>>
      BY <1>2, <3>1 DEF EndCall
    <3>. QED BY <1>1, <3>2, <3>3, NowWhole
  <2>. QED BY <2>1, <2>2
<1>. QED BY <1>5, <1>6 DEF SInv

-----------------------------------------------------------------------------
(* One lemma per frame                                                      *)

\* What every step keeps.
Keeps == IInv' /\ (Plain /\ SInv => SInv')

\* A header block that is read, for the Stream and the sink.
LEMMA DecodedType ==
    ASSUME NEW s \in StreamType, NEW kind \in Kinds, NEW outcome \in Outcomes
    PROVE  /\ Decoded(s, kind, outcome) \in StreamType
           /\ Decoded(s, kind, outcome).registered = s.registered
           /\ Decoded(s, kind, outcome).isEnded = s.isEnded
           /\ outcome = "read" => Decoded(s, kind, outcome).error = s.error
                                    /\ Decoded(s, kind, outcome).headers = kind
           /\ outcome # "read" => Decoded(s, kind, outcome).error = "headers"
<1>1. outcome \in {"read", "partly", "unread"}
  BY DEF Outcomes
<1>. QED BY <1>1 DEF Decoded, StreamType, Errors

\* deliverResponseHeaders(): what is left of the Stream and the sink.
LEMMA WithHeadersType ==
    ASSUME NEW s \in StreamType, NEW k \in SinkType, NEW encoded \in BOOLEAN, NEW built \in BOOLEAN
    PROVE  /\ WithHeaders(s, k, encoded, built).stream \in StreamType
           /\ WithHeaders(s, k, encoded, built).sink \in SinkType
           /\ WithHeaders(s, k, encoded, built).stream.registered = s.registered
           /\ WithHeaders(s, k, encoded, built).stream.isEnded = s.isEnded
           /\ WithHeaders(s, k, encoded, built).stream.headers = s.headers
           /\ WithHeaders(s, k, encoded, built).sink.completed = k.completed
           /\ WithHeaders(s, k, encoded, built).sink.cancellationTaken = k.cancellationTaken
           /\ WithHeaders(s, k, encoded, built).sink.aborted = k.aborted
           /\ WithHeaders(s, k, encoded, built).stream.error \in {s.error, "inflate"}
           /\ s.error # "none" => WithHeaders(s, k, encoded, built).stream.error # "none"
           /\ \/ /\ WithHeaders(s, k, encoded, built).sink.cancelled = k.cancelled
                 /\ WithHeaders(s, k, encoded, built).sink.error = k.error
              \/ /\ WithHeaders(s, k, encoded, built).sink.cancelled
                 /\ WithHeaders(s, k, encoded, built).stream.error # "none"
           /\ WithHeaders(s, k, encoded, built).sink.headersDelivered <=> k.headersDelivered \/ s.error = "none"
           /\ WithHeaders(s, k, encoded, built).stream.error = "none" /\ ~k.headersDelivered =>
                 (WithHeaders(s, k, encoded, built).sink.decompressor <=> s.headers = "final" /\ encoded)
           /\ k.headersDelivered => WithHeaders(s, k, encoded, built).sink = k
<1>1. CASE DeliversHeaders(s, k)
  BY <1>1 DEF WithHeaders, DeliversHeaders, SinkType, StreamType, Errors
<1>2. CASE ~DeliversHeaders(s, k)
  BY <1>2 DEF WithHeaders, DeliversHeaders, SinkType, StreamType
<1>. QED BY <1>1, <1>2

\* deliverResponseHeaders(): onHeaders is called at most once.
LEMMA HeadersTalk ==
    ASSUME NEW s \in StreamType, NEW k \in SinkType
    PROVE  /\ Talk(HeadersCall(attempt, s, k))
           /\ s.error = "none" /\ ~k.headersDelivered =>
                 HeadersCall(attempt, s, k) = <<Call(attempt, "onHeaders", s.headers)>>
           /\ k.headersDelivered => HeadersCall(attempt, s, k) = <<>>
BY DEF HeadersCall, DeliversHeaders, Talk, StreamType, Whats

\* A frame is for the attempt under way.
LEMMA OnlyCurrent ==
    ASSUME IInv, NEW a \in Attempts, stream[a].registered
    PROVE  a = attempt
BY DEF IInv, AttachedOK

\* HEADERS: the final ones open the response, trailers end it.
LEMMA ReceiveHeadersStep ==
    ASSUME IInv, NEW a \in Attempts, NEW kind \in Kinds, NEW ends \in BOOLEAN, NEW encoded \in BOOLEAN,
           NEW outcome \in Outcomes, NEW built \in BOOLEAN,
           ReceiveHeaders(a, kind, ends, encoded, outcome, built)
    PROVE  Keeps
<1>. DEFINE s1 == [stream[attempt] EXCEPT !.isEnded = @ \/ ends]
            s0 == Decoded(s1, kind, outcome)
            s == WithHeaders(s0, sink, encoded, built).stream
            k == WithHeaders(s0, sink, encoded, built).sink
            log == HeadersCall(attempt, s0, sink)
            p == [peer[attempt] EXCEPT !.stage = AfterBlock(kind, ends), !.encoded = @ \/ encoded]
            over == s.isEnded \/ Takes(k)
<1>0. /\ a = attempt /\ attempt \in Attempts /\ UNCHANGED <<attempt, pc, result, connError>>
      /\ stream[attempt].registered /\ stream[attempt] \in StreamType /\ sink \in SinkType
      /\ peer[attempt] \in PeerType /\ peer \in [Attempts -> PeerType]
      /\ connError \in [Attempts -> RetryableErrors \cup {"none"}]
      /\ NextBlock(peer[attempt], kind, ends) /\ (encoded => kind = "final")
  BY OnlyCurrent DEF ReceiveHeaders, IInv, TypeOK
<1>1. /\ s1 \in StreamType /\ s1.registered /\ (s1.isEnded <=> stream[attempt].isEnded \/ ends)
      /\ s1.error = stream[attempt].error
  BY <1>0 DEF StreamType
<1>2. /\ p \in PeerType /\ p.stage = AfterBlock(kind, ends) /\ p.sent = peer[attempt].sent
      /\ (p.encoded <=> peer[attempt].encoded \/ encoded)
  BY <1>0 DEF PeerType, AfterBlock
<1>3. peer' = [peer EXCEPT ![attempt] = p] /\ EndStreamReading(attempt, s, k, log)
  BY <1>0 DEF ReceiveHeaders
<1>. HIDE DEF s1, p
<1>13. /\ s0 \in StreamType /\ s0.registered /\ (s0.isEnded <=> stream[attempt].isEnded \/ ends)
       /\ outcome = "read" => s0.error = stream[attempt].error /\ s0.headers = kind
       /\ outcome # "read" => s0.error = "headers"
  BY <1>1, DecodedType
<1>. HIDE DEF s0
<1>14. /\ s \in StreamType /\ s.registered = s0.registered /\ s.isEnded = s0.isEnded /\ s.headers = s0.headers
       /\ s.error \in {s0.error, "inflate"} /\ (s0.error # "none" => s.error # "none")
       /\ k \in SinkType /\ k.completed = sink.completed
       /\ k.cancellationTaken = sink.cancellationTaken /\ k.aborted = sink.aborted
       /\ \/ k.cancelled = sink.cancelled /\ k.error = sink.error
          \/ k.cancelled /\ s.error # "none"
       /\ k.headersDelivered <=> sink.headersDelivered \/ s0.error = "none"
       /\ s.error = "none" /\ ~sink.headersDelivered => (k.decompressor <=> s0.headers = "final" /\ encoded)
       /\ sink.headersDelivered => k = sink
  <2>. s0 \in StreamType /\ sink \in SinkType
    BY <1>0, <1>13
  <2>. QED BY WithHeadersType
<1>15. /\ Talk(log)
       /\ s0.error = "none" /\ ~sink.headersDelivered => log = <<Call(attempt, "onHeaders", s0.headers)>>
       /\ sink.headersDelivered => log = <<>>
  BY <1>0, <1>13, HeadersTalk
<1>. HIDE DEF s, k, log
<1>4. /\ s \in StreamType /\ s.registered /\ (s.isEnded <=> stream[attempt].isEnded \/ ends)
      /\ stream[attempt].error # "none" => s.error # "none"
      /\ s.error = "none" => outcome = "read" /\ stream[attempt].error = "none" /\ s.headers = kind
      /\ s.error \in {stream[attempt].error, "headers", "inflate"}
  BY <1>13, <1>14
<1>5. /\ k \in SinkType /\ k.completed = sink.completed
      /\ k.cancellationTaken = sink.cancellationTaken /\ k.aborted = sink.aborted
      /\ \/ k.cancelled = sink.cancelled /\ k.error = sink.error
         \/ k.cancelled /\ s.error # "none"
      /\ s.error = "none" => k.headersDelivered
      /\ s.error = "none" /\ ~sink.headersDelivered => (k.decompressor <=> s.headers = "final" /\ encoded)
      /\ sink.headersDelivered => k = sink
  BY <1>13, <1>14
<1>6. /\ Talk(log)
      /\ s.error = "none" /\ ~sink.headersDelivered => log = <<Call(attempt, "onHeaders", s.headers)>>
      /\ sink.headersDelivered => log = <<>>
  BY <1>13, <1>14, <1>15
<1>7. /\ peer' \in [Attempts -> PeerType] /\ peer'[attempt] = p
      /\ \A b \in Attempts \ {attempt} : peer'[b] = peer[b]
      /\ peer'[1].sent + peer'[2].sent <= MaxPieces
  BY <1>0, <1>2, <1>3 DEF IInv, TypeOK, Attempts
<1>8. peer[attempt].stage \in {"headers", "body"} /\ ~Finished(peer[attempt]) /\ peer[attempt].stage \notin {"idle", "lost"}
  BY <1>0 DEF NextBlock, Kinds, Finished
<1>9. s.isEnded /\ ~stream[attempt].isEnded => Finished(p)
  BY <1>2, <1>4 DEF Finished, AfterBlock
<1>10. /\ sink.cancelled => k.cancelled
       /\ k.cancelled => s.error # "none"
       /\ k.error # "none" => s.error # "none"
       /\ ~k.cancelled => ~k.aborted /\ k.error = "none"
  BY <1>4, <1>5 DEF IInv, CancelOK, SinkType
<1>11. /\ IInv'
       /\ stream'[attempt].isEnded = over
       /\ stream'[attempt].error = s.error
       /\ sink'.completed <=> k.completed \/ over
       /\ sink'.headersDelivered = k.headersDelivered
       /\ sink'.decompressor = (k.decompressor /\ ~over)
  BY <1>0, <1>3, <1>4, <1>5, <1>6, <1>7, <1>8, <1>9, <1>10, EndReading
<1>12. ASSUME Plain, SInv
       PROVE  SInv'
  <2>1. kind \in {"final", "trailers"}
    BY <1>0, <1>12 DEF Kinds, NextBlock, Plain
  <2>2. OpenOK'
    BY <1>0, <1>2, <1>7, <2>1 DEF OpenOK, AfterBlock
  <2>3. ASSUME s.error = "none", ~sink.completed
        PROVE  /\ Extends(log)
               /\ IF s.isEnded THEN peer'[attempt].stage \in {"ended", "reset", "lost"}
                  ELSE /\ peer'[attempt].stage = "body" /\ k.headersDelivered
                       /\ k.decompressor = peer'[attempt].encoded
    <3>1. stream[attempt].error = "none" /\ s.headers = kind
      BY <1>4, <2>3
    <3>2. pc # "downgraded" /\ ~stream[attempt].isEnded
      BY <1>0, <2>3 DEF IInv, AttachedOK, Attached, Failing, EndOK
    <3>3. CASE kind = "final"
      <4>1. calls[attempt] = <<>> /\ ~sink.headersDelivered /\ peer[attempt].sent = 0 /\ ~peer[attempt].encoded
        BY <1>0, <1>12, <2>3, <3>1, <3>2, <3>3 DEF SInv, ProgressOK, NextBlock
      <4>2. Extends(log)
        BY <1>2, <1>6, <1>7, <2>3, <3>1, <3>3, <4>1 DEF Extends
      <4>3. k.headersDelivered /\ k.decompressor = p.encoded
        BY <1>2, <1>5, <2>3, <3>1, <3>3, <4>1 DEF SinkType, PeerType
      <4>. QED BY <1>2, <1>4, <1>7, <3>2, <3>3, <4>2, <4>3 DEF AfterBlock
    <3>4. CASE kind = "trailers"
      <4>1. peer[attempt].stage = "body" /\ ends /\ Begun(attempt) /\ sink.headersDelivered
        BY <1>0, <1>12, <2>3, <3>1, <3>2, <3>4 DEF SInv, ProgressOK, NextBlock
      <4>2. Extends(log)
        BY <1>2, <1>6, <1>7, <4>1 DEF Extends
      <4>. QED BY <1>2, <1>4, <1>7, <4>1, <4>2 DEF AfterBlock
    <3>. QED BY <2>1, <3>3, <3>4
  <2>. HIDE DEF over
  <2>4. over \in BOOLEAN /\ (over <=> s.isEnded \/ Takes(k))
    BY <1>4, <1>5 DEF over, Takes, StreamType, SinkType
  <2>. QED BY <1>0, <1>3, <1>4, <1>5, <1>6, <1>8, <1>10, <1>11, <1>12, <2>2, <2>3, <2>4, WholeStep
<1>. QED BY <1>11, <1>12 DEF Keeps

\* HEADERS that go on: nothing is said yet.
LEMMA ReceiveOpenBlockStep ==
    ASSUME IInv, NEW a \in Attempts, NEW kind \in Kinds, NEW ends \in BOOLEAN, NEW encoded \in BOOLEAN,
           ReceiveOpenBlock(a, kind, ends, encoded)
    PROVE  Keeps
<1>. DEFINE s == [stream[attempt] EXCEPT !.awaitingContinuation = TRUE, !.isEnded = @ \/ ends]
            p == [peer[attempt] EXCEPT !.stage = "open", !.block = kind, !.ends = ends,
                                       !.encoded = @ \/ encoded]
            over == s.isEnded \/ Takes(sink)
<1>0. /\ a = attempt /\ attempt \in Attempts /\ UNCHANGED <<attempt, pc, result, connError>>
      /\ stream[attempt].registered /\ stream[attempt] \in StreamType /\ sink \in SinkType
      /\ peer[attempt] \in PeerType /\ peer \in [Attempts -> PeerType]
      /\ connError \in [Attempts -> RetryableErrors \cup {"none"}]
      /\ NextBlock(peer[attempt], kind, ends) /\ (ends => "endingBlock" \in Behaviours)
  BY OnlyCurrent DEF ReceiveOpenBlock, IInv, TypeOK
<1>1. /\ s \in StreamType /\ s.registered /\ (s.isEnded <=> stream[attempt].isEnded \/ ends)
      /\ s.error = stream[attempt].error
  BY <1>0 DEF StreamType
<1>2. /\ p \in PeerType /\ p.stage = "open" /\ p.block = kind /\ p.ends = ends
      /\ p.sent = peer[attempt].sent
  BY <1>0 DEF PeerType
<1>3. peer' = [peer EXCEPT ![attempt] = p] /\ EndStreamReading(attempt, s, sink, <<>>)
  BY <1>0 DEF ReceiveOpenBlock
<1>. HIDE DEF s, p
<1>4. /\ peer' \in [Attempts -> PeerType] /\ peer'[attempt] = p
      /\ \A b \in Attempts \ {attempt} : peer'[b] = peer[b]
      /\ peer'[1].sent + peer'[2].sent <= MaxPieces
  BY <1>0, <1>2, <1>3 DEF IInv, TypeOK, Attempts
<1>5. peer[attempt].stage \in {"headers", "body"} /\ ~Finished(peer[attempt]) /\ peer[attempt].stage \notin {"idle", "lost"}
  BY <1>0 DEF NextBlock, Kinds, Finished
<1>6. s.isEnded /\ ~stream[attempt].isEnded => Finished(p)
  BY <1>1, <1>2 DEF Finished
<1>7. /\ sink.cancelled => s.error # "none"
      /\ sink.error # "none" => s.error # "none"
      /\ ~sink.cancelled => ~sink.aborted /\ sink.error = "none"
  BY <1>1 DEF IInv, CancelOK
<1>8. Talk(<<>>)
  BY DEF Talk
<1>9. /\ IInv'
      /\ stream'[attempt].isEnded = over
      /\ stream'[attempt].error = s.error
      /\ sink'.completed <=> sink.completed \/ over
      /\ sink'.headersDelivered = sink.headersDelivered
      /\ sink'.decompressor = (sink.decompressor /\ ~over)
  BY <1>0, <1>1, <1>3, <1>4, <1>5, <1>6, <1>7, <1>8, EndReading
<1>10. ASSUME Plain, SInv
       PROVE  SInv'
  <2>1. kind = "final" /\ ~ends /\ peer[attempt].stage = "headers"
    BY <1>0, <1>10 DEF Kinds, NextBlock, Plain
  <2>2. OpenOK'
    BY <1>0, <1>2, <1>4, <2>1 DEF OpenOK
  <2>3. ASSUME s.error = "none", ~sink.completed
        PROVE  /\ ~s.isEnded /\ calls[attempt] = <<>> /\ ~sink.headersDelivered
               /\ peer'[attempt].stage = "open" /\ peer'[attempt].sent = 0
    <3>1. pc # "downgraded" /\ ~stream[attempt].isEnded
      BY <1>0, <2>3 DEF IInv, AttachedOK, Attached, Failing, EndOK
    <3>2. calls[attempt] = <<>> /\ ~sink.headersDelivered /\ peer[attempt].sent = 0
      BY <1>1, <1>10, <2>1, <2>3, <3>1 DEF SInv, ProgressOK
    <3>. QED BY <1>1, <1>2, <1>4, <2>1, <3>1, <3>2
  <2>. HIDE DEF over
  <2>4. over \in BOOLEAN /\ (over <=> s.isEnded \/ Takes(sink))
    BY <1>0, <1>1 DEF over, Takes, StreamType, SinkType
  <2>. QED BY <1>0, <1>1, <1>3, <1>5, <1>7, <1>8, <1>9, <1>10, <2>2, <2>3, <2>4, WholeStep
<1>. QED BY <1>9, <1>10 DEF Keeps

\* CONTINUATION: a split block is delivered once it is whole.
LEMMA ReceiveContinuationStep ==
    ASSUME IInv, NEW a \in Attempts, NEW outcome \in Outcomes, NEW built \in BOOLEAN,
           ReceiveContinuation(a, outcome, built)
    PROVE  Keeps
<1>. DEFINE kind == peer[attempt].block
            s0 == IF stream[attempt].error = "none" THEN Decoded(stream[attempt], kind, outcome)
                  ELSE [stream[attempt] EXCEPT !.awaitingContinuation = FALSE]
            s == WithHeaders(s0, sink, peer[attempt].encoded, built).stream
            k == WithHeaders(s0, sink, peer[attempt].encoded, built).sink
            log == HeadersCall(attempt, s0, sink)
            p == [peer[attempt] EXCEPT !.stage = AfterBlock(kind, peer[attempt].ends),
                                       !.block = "final", !.ends = FALSE]
            over == s.isEnded \/ Takes(k)
<1>0. /\ a = attempt /\ attempt \in Attempts /\ UNCHANGED <<attempt, pc, result, connError>>
      /\ stream[attempt].registered /\ stream[attempt] \in StreamType /\ sink \in SinkType
      /\ peer[attempt] \in PeerType /\ peer \in [Attempts -> PeerType]
      /\ connError \in [Attempts -> RetryableErrors \cup {"none"}]
      /\ peer[attempt].stage = "open" /\ kind \in Kinds /\ peer[attempt].encoded \in BOOLEAN
  BY OnlyCurrent DEF ReceiveContinuation, IInv, TypeOK, PeerType
<1>1. /\ p \in PeerType /\ p.stage = AfterBlock(kind, peer[attempt].ends) /\ p.sent = peer[attempt].sent
      /\ p.encoded = peer[attempt].encoded
  BY <1>0 DEF PeerType, AfterBlock, Kinds
<1>2. peer' = [peer EXCEPT ![attempt] = p] /\ EndStreamReading(attempt, s, k, log)
  BY <1>0 DEF ReceiveContinuation
<1>. HIDE DEF p
<1>11. /\ s0 \in StreamType /\ s0.registered /\ s0.isEnded = stream[attempt].isEnded
       /\ stream[attempt].error = "none" /\ outcome = "read" => s0.error = "none" /\ s0.headers = kind
       /\ stream[attempt].error = "none" /\ outcome # "read" => s0.error = "headers"
       /\ stream[attempt].error # "none" => s0.error = stream[attempt].error
  <2>1. CASE stream[attempt].error = "none"
    BY <1>0, <2>1, DecodedType
  <2>2. CASE stream[attempt].error # "none"
    BY <1>0, <2>2 DEF StreamType
  <2>. QED BY <2>1, <2>2
<1>. HIDE DEF s0
<1>12. /\ s \in StreamType /\ s.registered = s0.registered /\ s.isEnded = s0.isEnded /\ s.headers = s0.headers
       /\ s.error \in {s0.error, "inflate"} /\ (s0.error # "none" => s.error # "none")
       /\ k \in SinkType /\ k.completed = sink.completed
       /\ k.cancellationTaken = sink.cancellationTaken /\ k.aborted = sink.aborted
       /\ \/ k.cancelled = sink.cancelled /\ k.error = sink.error
          \/ k.cancelled /\ s.error # "none"
       /\ k.headersDelivered <=> sink.headersDelivered \/ s0.error = "none"
       /\ s.error = "none" /\ ~sink.headersDelivered =>
             (k.decompressor <=> s0.headers = "final" /\ peer[attempt].encoded)
       /\ sink.headersDelivered => k = sink
  <2>. s0 \in StreamType /\ sink \in SinkType /\ peer[attempt].encoded \in BOOLEAN
    BY <1>0, <1>11
  <2>. QED BY WithHeadersType
<1>13. /\ Talk(log)
       /\ s0.error = "none" /\ ~sink.headersDelivered => log = <<Call(attempt, "onHeaders", s0.headers)>>
       /\ sink.headersDelivered => log = <<>>
  BY <1>0, <1>11, HeadersTalk
<1>. HIDE DEF s, k, log
<1>3. /\ s \in StreamType /\ s.registered /\ s.isEnded = stream[attempt].isEnded
      /\ stream[attempt].error # "none" => s.error # "none"
      /\ s.error = "none" => stream[attempt].error = "none" /\ s.headers = kind
      /\ s.error \in {stream[attempt].error, "headers", "inflate"}
  BY <1>11, <1>12
<1>4. /\ k \in SinkType /\ k.completed = sink.completed
      /\ k.cancellationTaken = sink.cancellationTaken /\ k.aborted = sink.aborted
      /\ \/ k.cancelled = sink.cancelled /\ k.error = sink.error
         \/ k.cancelled /\ s.error # "none"
      /\ s.error = "none" => k.headersDelivered
      /\ s.error = "none" /\ ~sink.headersDelivered =>
            (k.decompressor <=> s.headers = "final" /\ peer[attempt].encoded)
      /\ sink.headersDelivered => k = sink
  BY <1>11, <1>12
<1>5. /\ Talk(log)
      /\ s.error = "none" /\ ~sink.headersDelivered => log = <<Call(attempt, "onHeaders", s.headers)>>
      /\ sink.headersDelivered => log = <<>>
  BY <1>11, <1>12, <1>13
<1>6. /\ peer' \in [Attempts -> PeerType] /\ peer'[attempt] = p
      /\ \A b \in Attempts \ {attempt} : peer'[b] = peer[b]
      /\ peer'[1].sent + peer'[2].sent <= MaxPieces
  BY <1>0, <1>1, <1>2 DEF IInv, TypeOK, Attempts
<1>7. Finished(peer[attempt]) => Finished(p)
  BY <1>0, <1>1 DEF Finished, AfterBlock
<1>8. /\ sink.cancelled => k.cancelled
      /\ k.cancelled => s.error # "none"
      /\ k.error # "none" => s.error # "none"
      /\ ~k.cancelled => ~k.aborted /\ k.error = "none"
      /\ s.error \in RetryableErrors => stream[attempt].error \in RetryableErrors
  BY <1>3, <1>4 DEF IInv, CancelOK, SinkType, RetryableErrors
<1>9. /\ IInv'
      /\ stream'[attempt].isEnded = over
      /\ stream'[attempt].error = s.error
      /\ sink'.completed <=> k.completed \/ over
      /\ sink'.headersDelivered = k.headersDelivered
      /\ sink'.decompressor = (k.decompressor /\ ~over)
  BY <1>0, <1>2, <1>3, <1>4, <1>5, <1>6, <1>7, <1>8, EndReading
<1>10. ASSUME Plain, SInv
       PROVE  SInv'
  <2>1. kind = "final" /\ ~peer[attempt].ends /\ p.stage = "body"
    BY <1>0, <1>1, <1>10 DEF SInv, OpenOK, AfterBlock
  <2>2. OpenOK'
    BY <1>0, <1>6, <2>1 DEF OpenOK
  <2>3. ASSUME s.error = "none", ~sink.completed
        PROVE  /\ Extends(log) /\ ~s.isEnded /\ peer'[attempt].stage = "body"
               /\ k.headersDelivered /\ k.decompressor = peer'[attempt].encoded
    <3>1. stream[attempt].error = "none" /\ s.headers = "final"
      BY <1>3, <2>1, <2>3
    <3>2. pc # "downgraded" /\ ~stream[attempt].isEnded
      BY <1>0, <2>3 DEF IInv, AttachedOK, Attached, Failing, EndOK
    <3>3. calls[attempt] = <<>> /\ ~sink.headersDelivered /\ peer[attempt].sent = 0
      BY <1>0, <1>10, <2>3, <3>1, <3>2 DEF SInv, ProgressOK
    <3>4. Extends(log)
      BY <1>1, <1>5, <1>6, <2>3, <3>1, <3>3 DEF Extends
    <3>5. k.headersDelivered /\ k.decompressor = p.encoded
      BY <1>0, <1>1, <1>4, <2>3, <3>1, <3>3 DEF SinkType
    <3>. QED BY <1>3, <1>6, <2>1, <3>2, <3>4, <3>5
  <2>. HIDE DEF over
  <2>4. over \in BOOLEAN /\ (over <=> s.isEnded \/ Takes(k))
    BY <1>3, <1>4 DEF over, Takes, StreamType, SinkType
  <2>. QED BY <1>0, <1>2, <1>3, <1>4, <1>5, <1>8, <1>9, <1>10, <2>2, <2>3, <2>4, WholeStep
<1>. QED BY <1>9, <1>10 DEF Keeps

\* RST_STREAM: an open stream ends with the error, one that has ended says nothing more.
LEMMA ReceiveResetStep ==
    ASSUME IInv, NEW a \in Attempts, NEW error \in {"reset", "http11Required"}, ReceiveReset(a, error)
    PROVE  Keeps
<1>. DEFINE s == [stream[attempt] EXCEPT !.error = error, !.isEnded = TRUE]
            p == [peer[attempt] EXCEPT !.stage = "reset"]
            over == s.isEnded \/ Takes(sink)
<1>0. /\ a = attempt /\ attempt \in Attempts /\ UNCHANGED <<attempt, pc, result>>
      /\ stream[attempt].registered /\ stream[attempt] \in StreamType /\ sink \in SinkType
      /\ peer[attempt] \in PeerType /\ peer \in [Attempts -> PeerType]
      /\ peer[attempt].stage \in {"headers", "body", "ended"}
      /\ error = "http11Required" => peer[attempt].stage = "headers"
  BY OnlyCurrent DEF ReceiveReset, IInv, TypeOK
<1>1. s \in StreamType /\ s.registered /\ s.isEnded /\ s.error = error
  BY <1>0 DEF StreamType, Errors, RetryableErrors
<1>2. p \in PeerType /\ p.stage = "reset" /\ p.sent = peer[attempt].sent
  BY <1>0 DEF PeerType
<1>3. peer' = [peer EXCEPT ![attempt] = p] /\ EndStreamReading(attempt, s, sink, <<>>)
  BY <1>0 DEF ReceiveReset
<1>. HIDE DEF s, p
<1>4. /\ peer' \in [Attempts -> PeerType] /\ peer'[attempt] = p
      /\ \A b \in Attempts \ {attempt} : peer'[b] = peer[b]
      /\ peer'[1].sent + peer'[2].sent <= MaxPieces
  BY <1>0, <1>2, <1>3 DEF IInv, TypeOK, Attempts
<1>5. connError' \in [Attempts -> RetryableErrors \cup {"none"}]
  BY <1>0 DEF ReceiveReset, IInv, TypeOK, RetryableErrors
<1>6. peer[attempt].stage \notin {"idle", "lost"} /\ Finished(p) /\ (error \in RetryableErrors => ~Finished(peer[attempt]))
  BY <1>0, <1>2 DEF Finished, RetryableErrors
<1>7. s.error # "none" /\ (~sink.cancelled => ~sink.aborted /\ sink.error = "none")
  BY <1>1 DEF IInv, CancelOK
<1>8. Talk(<<>>)
  BY DEF Talk
<1>9. /\ IInv'
      /\ stream'[attempt].isEnded = over
      /\ stream'[attempt].error = s.error
      /\ sink'.completed <=> sink.completed \/ over
      /\ sink'.headersDelivered = sink.headersDelivered
      /\ sink'.decompressor = (sink.decompressor /\ ~over)
  BY <1>0, <1>1, <1>3, <1>4, <1>5, <1>6, <1>7, <1>8, EndReading
<1>10. ASSUME SInv
       PROVE  SInv'
  <2>1. OpenOK'
    BY <1>0, <1>2, <1>4 DEF OpenOK
  <2>. HIDE DEF over
  <2>2. over \in BOOLEAN /\ (over <=> s.isEnded \/ Takes(sink))
    BY <1>0, <1>1 DEF over, Takes, StreamType, SinkType
  <2>. QED BY <1>0, <1>1, <1>2, <1>3, <1>4, <1>7, <1>8, <1>9, <1>10, <2>1, <2>2, WholeStep
<1>. QED BY <1>9, <1>10 DEF Keeps

\* deliverStreamPayload(): what is left of the Stream and the sink.
LEMMA FeedType ==
    ASSUME NEW s \in StreamType, NEW k \in SinkType, NEW outcome \in {"taken", "stopped", "garbled", "empty"}
    PROVE  /\ Feed(s, k, outcome).stream \in StreamType
           /\ Feed(s, k, outcome).stream.registered = s.registered
           /\ Feed(s, k, outcome).stream.isEnded = s.isEnded
           /\ Feed(s, k, outcome).sink \in SinkType
           /\ Feed(s, k, outcome).sink.completed = k.completed
           /\ Feed(s, k, outcome).sink.cancellationTaken = k.cancellationTaken
           /\ outcome \in {"taken", "empty"} => Feed(s, k, outcome).stream = s /\ Feed(s, k, outcome).sink = k
           /\ outcome \in {"stopped", "garbled"} =>
                 /\ Feed(s, k, outcome).stream.error \in {"aborted", "inflate"}
                 /\ Feed(s, k, outcome).sink.cancelled
<1>1. CASE outcome \in {"taken", "empty"}
  <2>1. Feed(s, k, outcome) = [stream |-> s, sink |-> k]
    BY <1>1 DEF Feed
  <2>. QED BY <1>1, <2>1
<1>2. CASE outcome = "stopped"
  <2>1. Feed(s, k, outcome) =
           [stream |-> [s EXCEPT !.error = "aborted"],
            sink |-> [k EXCEPT !.aborted = TRUE, !.cancelled = TRUE, !.error = "aborted"]]
    BY <1>2 DEF Feed
  <2>. DEFINE t == [s EXCEPT !.error = "aborted"]
              l == [k EXCEPT !.aborted = TRUE, !.cancelled = TRUE, !.error = "aborted"]
  <2>2. /\ t \in StreamType /\ t.registered = s.registered /\ t.isEnded = s.isEnded /\ t.error = "aborted"
    BY DEF StreamType, Errors
  <2>3. /\ l \in SinkType /\ l.completed = k.completed /\ l.cancellationTaken = k.cancellationTaken
        /\ l.cancelled
    BY DEF SinkType, Errors
  <2>4. Feed(s, k, outcome).stream = t /\ Feed(s, k, outcome).sink = l
    BY <2>1
  <2>. HIDE DEF t, l
  <2>. QED BY <1>2, <2>2, <2>3, <2>4
<1>3. CASE outcome = "garbled"
  <2>1. Feed(s, k, outcome) = [stream |-> [s EXCEPT !.error = "inflate"],
                               sink |-> [k EXCEPT !.cancelled = TRUE, !.error = "inflate"]]
    BY <1>3 DEF Feed
  <2>. DEFINE t == [s EXCEPT !.error = "inflate"]
              l == [k EXCEPT !.cancelled = TRUE, !.error = "inflate"]
  <2>2. /\ t \in StreamType /\ t.registered = s.registered /\ t.isEnded = s.isEnded /\ t.error = "inflate"
    BY DEF StreamType, Errors
  <2>3. /\ l \in SinkType /\ l.completed = k.completed /\ l.cancellationTaken = k.cancellationTaken
        /\ l.cancelled
    BY DEF SinkType, Errors
  <2>4. Feed(s, k, outcome).stream = t /\ Feed(s, k, outcome).sink = l
    BY <2>1
  <2>. HIDE DEF t, l
  <2>. QED BY <1>3, <2>2, <2>3, <2>4
<1>. QED BY <1>1, <1>2, <1>3

\* DATA: a piece is passed on, or the response is torn down.
LEMMA ReceiveDataStep ==
    ASSUME IInv, NEW a \in Attempts, NEW ends \in BOOLEAN,
           NEW outcome \in {"taken", "stopped", "garbled", "empty"}, ReceiveData(a, ends, outcome)
    PROVE  Keeps
<1>. DEFINE s1 == [stream[attempt] EXCEPT !.isEnded = @ \/ ends]
            s == IF Ignores(sink) THEN s1 ELSE Feed(s1, sink, outcome).stream
            k == IF Ignores(sink) THEN sink ELSE Feed(s1, sink, outcome).sink
            log == IF Ignores(sink) \/ outcome \in {"garbled", "empty"} THEN <<>> ELSE DataCall(attempt, sink)
            p == [peer[attempt] EXCEPT !.sent = IF outcome = "empty" THEN @ ELSE @ + 1,
                                       !.stage = IF ends THEN "ended" ELSE @]
            over == s.isEnded \/ Takes(k)
<1>0. /\ a = attempt /\ attempt \in Attempts /\ UNCHANGED <<attempt, pc, result, connError>>
      /\ stream[attempt].registered /\ stream[attempt] \in StreamType /\ sink \in SinkType
      /\ peer[attempt] \in PeerType /\ peer \in [Attempts -> PeerType] /\ peer[attempt].stage = "body"
      /\ connError \in [Attempts -> RetryableErrors \cup {"none"}]
      /\ outcome # "empty" => peer[1].sent + peer[2].sent < MaxPieces
  BY OnlyCurrent DEF ReceiveData, IInv, TypeOK
<1>1. /\ s1 \in StreamType /\ s1.registered /\ (s1.isEnded <=> stream[attempt].isEnded \/ ends)
      /\ s1.error = stream[attempt].error
  BY <1>0 DEF StreamType
<1>2. /\ p \in PeerType /\ p.stage = (IF ends THEN "ended" ELSE "body") /\ p.encoded = peer[attempt].encoded
      /\ p.sent = IF outcome = "empty" THEN peer[attempt].sent ELSE peer[attempt].sent + 1
  <2>1. CASE outcome = "empty"
    BY <1>0, <2>1 DEF PeerType
  <2>2. CASE outcome # "empty"
    <3>1. peer[attempt].sent + 1 \in Nat
      BY <1>0 DEF PeerType
    <3>. QED BY <1>0, <2>2, <3>1 DEF PeerType
  <2>. QED BY <2>1, <2>2
<1>3. peer' = [peer EXCEPT ![attempt] = p]
  BY <1>0 DEF ReceiveData
<1>4. EndStreamReading(attempt, s, k, log)
  BY <1>0 DEF ReceiveData
<1>. HIDE DEF s1, p
<1>5. /\ s \in StreamType /\ s.registered /\ (s.isEnded <=> stream[attempt].isEnded \/ ends)
      /\ k \in SinkType /\ k.completed = sink.completed /\ k.cancellationTaken = sink.cancellationTaken
      /\ Ignores(sink) \/ outcome \in {"taken", "empty"} => s.error = stream[attempt].error /\ k = sink
      /\ ~Ignores(sink) /\ outcome \in {"stopped", "garbled"} => s.error \in {"aborted", "inflate"} /\ k.cancelled
  <2>1. CASE Ignores(sink)
    BY <1>0, <1>1, <2>1
  <2>2. CASE ~Ignores(sink)
    BY <1>0, <1>1, <2>2, FeedType
  <2>. QED BY <2>1, <2>2
<1>6. /\ Talk(log)
      /\ ~Ignores(sink) /\ outcome = "taken" /\ sink.decompressor = peer[attempt].encoded =>
            log = <<Call(attempt, "onData", "readable")>>
      /\ outcome = "empty" => log = <<>>
  BY DEF Talk, DataCall, Whats
<1>. HIDE DEF s, k, log
<1>7. /\ peer' \in [Attempts -> PeerType] /\ peer'[attempt] = p
      /\ \A b \in Attempts \ {attempt} : peer'[b] = peer[b]
  BY <1>0, <1>2, <1>3
<1>8. peer'[1].sent + peer'[2].sent <= MaxPieces
  <2>1. peer[1].sent \in Nat /\ peer[2].sent \in Nat /\ MaxPieces \in Nat
        /\ peer[1].sent + peer[2].sent <= MaxPieces
    BY SinkAssumption DEF IInv, TypeOK, PeerType, Attempts
  <2>2. CASE attempt = 1
    <3>1. peer'[2] = peer[2] /\ peer'[1] = p
      BY <1>7, <2>2 DEF Attempts
    <3>. QED BY <1>0, <1>2, <2>1, <2>2, <3>1
  <2>3. CASE attempt = 2
    <3>1. peer'[1] = peer[1] /\ peer'[2] = p
      BY <1>7, <2>3 DEF Attempts
    <3>. QED BY <1>0, <1>2, <2>1, <2>3, <3>1
  <2>. QED BY <1>0, <2>2, <2>3 DEF Attempts
<1>9. /\ ~Finished(peer[attempt]) /\ peer[attempt].stage \notin {"idle", "lost"}
      /\ s.isEnded /\ ~stream[attempt].isEnded => Finished(p)
  BY <1>0, <1>2, <1>5 DEF Finished
<1>10. /\ stream[attempt].error # "none" => s.error # "none"
       /\ sink.cancelled => k.cancelled
       /\ k.cancelled => s.error # "none"
       /\ ~k.cancelled => ~k.aborted /\ k.error = "none"
       /\ k.error # "none" => s.error # "none"
  BY <1>5 DEF IInv, CancelOK
<1>11. /\ IInv'
       /\ stream'[attempt].isEnded = over
       /\ stream'[attempt].error = s.error
       /\ sink'.completed <=> k.completed \/ over
       /\ sink'.headersDelivered = k.headersDelivered
       /\ sink'.decompressor = (k.decompressor /\ ~over)
  BY <1>0, <1>4, <1>5, <1>6, <1>7, <1>8, <1>9, <1>10, EndReading
<1>12. ASSUME SInv
       PROVE  SInv'
  <2>1. OpenOK'
    BY <1>0, <1>2, <1>7 DEF OpenOK
  <2>2. ASSUME s.error = "none", ~sink.completed
        PROVE  /\ Extends(log)
               /\ IF s.isEnded THEN peer'[attempt].stage \in {"ended", "reset", "lost"}
                  ELSE /\ peer'[attempt].stage = "body" /\ k.headersDelivered
                       /\ k.decompressor = peer'[attempt].encoded
    <3>1. pc # "downgraded" /\ ~stream[attempt].isEnded /\ ~Ignores(sink) /\ stream[attempt].error = "none"
      BY <1>0, <1>10, <2>2 DEF IInv, AttachedOK, Attached, Failing, EndOK, CancelOK, Ignores
    <3>2. outcome \in {"taken", "empty"} /\ k = sink
      BY <1>5, <2>2, <3>1
    <3>3. Begun(attempt) /\ sink.headersDelivered /\ sink.decompressor = peer[attempt].encoded
      BY <1>0, <1>12, <2>2, <3>1 DEF SInv, ProgressOK
    <3>4. Extends(log)
      BY <1>2, <1>6, <1>7, <3>1, <3>2, <3>3 DEF Extends
    <3>. QED BY <1>2, <1>5, <1>7, <3>1, <3>2, <3>3, <3>4
  <2>. HIDE DEF over
  <2>3. over \in BOOLEAN /\ (over <=> s.isEnded \/ Takes(k))
    BY <1>5 DEF over, Takes, StreamType, SinkType
  <2>. QED BY <1>0, <1>4, <1>5, <1>6, <1>10, <1>11, <1>12, <2>1, <2>2, <2>3, WholeStep
<1>. QED BY <1>11, <1>12 DEF Keeps

-----------------------------------------------------------------------------
(* The connection fails, and the request thread                             *)

\* failAllStreams(): a stream that has not ended yet ends with the error.
LEMMA FailStreamStep ==
    ASSUME IInv, stream[attempt].registered,
           UNCHANGED <<attempt, pc, result, resets>>,
           NEW error \in RetryableErrors \cup {"connection"}, NEW onlyPending \in BOOLEAN,
           FailStream(attempt, onlyPending, error),
           connError' \in [Attempts -> RetryableErrors \cup {"none"}],
           peer' \in [Attempts -> PeerType], peer'[1].sent + peer'[2].sent <= MaxPieces,
           \A b \in Attempts \ {attempt} : peer'[b] = peer[b],
           Finished(peer[attempt]) => Finished(peer'[attempt]),
           peer'[attempt].sent = peer[attempt].sent,
           \/ peer'[attempt] = peer[attempt]
           \/ ~onlyPending /\ peer'[attempt].stage = "lost"
    PROVE  Keeps
<1>. DEFINE failed == [stream[attempt] EXCEPT !.error = error, !.isEnded = TRUE]
            k2 == Completed(sink)
            end == CompleteCall(attempt, failed, sink)
<1>0. /\ attempt \in Attempts /\ stream[attempt] \in StreamType /\ sink \in SinkType /\ pc # "downgraded"
      /\ calls \in [Attempts -> Seq(CallType)] /\ RetryFromScratch /\ calls[attempt] \in Seq(CallType)
  BY DEF IInv, TypeOK, CallsOK, AttachedOK, Attached, Failing
<1>3. pc = "sending" => peer'[attempt].stage \in {"idle", "lost"}
  BY DEF IInv, AttachedOK
<1>1. CASE ~stream[attempt].isEnded /\ (onlyPending => stream[attempt].headers = "none")
  <2>1. /\ stream' = [stream EXCEPT ![attempt] = failed] /\ sink' = k2 /\ Logged(end)
    BY <1>1 DEF FailStream
  <2>2. failed \in StreamType /\ failed.registered /\ failed.isEnded /\ failed.error = error
    BY <1>0 DEF StreamType, Errors
  <2>3. /\ k2 \in SinkType /\ k2.completed /\ k2.cancelled = sink.cancelled /\ k2.error = sink.error
        /\ k2.aborted = sink.aborted /\ k2.cancellationTaken = sink.cancellationTaken
    BY <1>0 DEF SinkType, Completed
  <2>. HIDE DEF failed, k2
  <2>4. ~sink.cancelled /\ sink.error = "none"
    BY <1>1 DEF IInv, CancelOK
  <2>5. EndCall(end, error) /\ error \in Whats /\ (end # <<>> <=> ~sink.completed) /\ error # "none"
    BY <2>2, <2>4 DEF EndCall, CompleteCall, Whats, Errors, RetryableErrors
  <2>. HIDE DEF end
  <2>6. Talk(<<>>) /\ Logged(<<>> \o end)
    <3>1. end \in Seq(CallType)
      <4>1. Call(attempt, "onComplete", error) \in CallType
        BY <1>0, <2>5 DEF Call, CallType, Whats
      <4>2. CASE end = <<>>
        BY <4>2
      <4>3. CASE end = <<Call(attempt, "onComplete", error)>>
        BY <4>1, <4>3
      <4>. QED BY <2>5, <4>2, <4>3 DEF EndCall
    <3>. QED BY <2>1, <3>1, ConcatEmptySeq DEF Talk
  <2>7. /\ stream' \in [Attempts -> StreamType] /\ stream'[attempt] = failed
        /\ \A b \in Attempts \ {attempt} : stream'[b] = stream[b]
    BY <1>0, <2>1, <2>2 DEF IInv, TypeOK
  <2>8. TypeOK' /\ CancelOK'
    BY <2>1, <2>3, <2>4, <2>7 DEF IInv, TypeOK, CancelOK
  <2>9. IInv'
    BY <1>1, <1>3, <2>1, <2>2, <2>3, <2>5, <2>6, <2>7, <2>8, FrameKeeps
  <2>10. ASSUME SInv
         PROVE  SInv'
    <3>1. EndsCleanly(attempt)' <=> EndsCleanly(attempt)
      BY <1>0, <2>5, <2>6, EndLogged
    <3>2. ProgressOK'
      BY <2>1, <2>3 DEF ProgressOK
    <3>3. OpenOK'
      BY <2>10 DEF SInv, OpenOK
    <3>4. WholeOK'
      BY <1>1, <2>10, <3>1 DEF SInv, WholeOK
    <3>. QED BY <3>2, <3>3, <3>4 DEF SInv
  <2>. QED BY <2>9, <2>10 DEF Keeps
<1>2. CASE ~(~stream[attempt].isEnded /\ (onlyPending => stream[attempt].headers = "none"))
  <2>1. UNCHANGED <<stream, sink, calls>>
    BY <1>2 DEF FailStream
  <2>2. Talk(<<>>) /\ EndCall(<<>>, "none") /\ Logged(<<>> \o <<>>) /\ "none" \in Whats
    <3>1. calls[attempt] \o (<<>> \o <<>>) = calls[attempt]
      BY <1>0, EmptySeq, ConcatEmptySeq
    <3>. QED BY <1>0, <2>1, <3>1 DEF Talk, EndCall, Logged, Whats
  <2>3. TypeOK' /\ CancelOK'
    BY <2>1 DEF IInv, TypeOK, CancelOK
  <2>4. stream[attempt].isEnded => sink.completed
    BY <1>0 DEF IInv, EndOK
  <2>5. IInv'
    BY <1>3, <2>1, <2>2, <2>3, <2>4, FrameKeeps
  <2>6. ASSUME SInv
        PROVE  SInv'
    <3>1. peer'[attempt] = peer[attempt] \/ sink.completed
      BY <1>2, <2>4
    <3>2. (EndsCleanly(attempt)' <=> EndsCleanly(attempt)) /\ (Begun(attempt)' <=> Begun(attempt))
          /\ (Whole(attempt)' <=> Whole(attempt))
      BY <2>1 DEF EndsCleanly, Begun, Whole
    <3>3. ProgressOK'
      BY <2>1, <2>6, <3>1, <3>2 DEF SInv, ProgressOK
    <3>4. OpenOK'
      BY <2>6 DEF SInv, OpenOK
    <3>5. WholeOK'
      BY <2>1, <2>6, <3>2 DEF SInv, WholeOK
    <3>. QED BY <3>3, <3>4, <3>5 DEF SInv
  <2>. QED BY <2>5, <2>6 DEF Keeps
<1>. QED BY <1>1, <1>2

\* GOAWAY fails a stream that has no headers yet.
LEMMA ReceiveGoAwayStep ==
    ASSUME IInv, NEW a \in Attempts, ReceiveGoAway(a)
    PROVE  Keeps
<1>1. a = attempt /\ attempt \in Attempts /\ connError \in [Attempts -> RetryableErrors \cup {"none"}]
  BY OnlyCurrent DEF IInv, TypeOK, ReceiveGoAway
<1>2. connError' \in [Attempts -> RetryableErrors \cup {"none"}]
  BY <1>1 DEF ReceiveGoAway, RetryableErrors
<1>3. peer' = peer /\ peer \in [Attempts -> PeerType] /\ peer[1].sent + peer[2].sent <= MaxPieces
  BY DEF ReceiveGoAway, IInv, TypeOK
<1>4. /\ stream[attempt].registered /\ UNCHANGED <<attempt, pc, result, resets>>
      /\ FailStream(attempt, TRUE, "goAway") /\ "goAway" \in RetryableErrors \cup {"connection"}
  BY <1>1 DEF ReceiveGoAway, RetryableErrors
<1>. QED BY <1>2, <1>3, <1>4, FailStreamStep

\* The end of readerLoop() fails a stream that has not ended.
LEMMA LoseConnectionStep ==
    ASSUME IInv, NEW a \in Attempts, LoseConnection(a)
    PROVE  Keeps
<1>. DEFINE error == IF connError[attempt] # "none" THEN connError[attempt] ELSE "connection"
            p == [peer[attempt] EXCEPT !.stage = "lost"]
<1>1. a = attempt /\ attempt \in Attempts /\ connError \in [Attempts -> RetryableErrors \cup {"none"}]
  BY OnlyCurrent DEF IInv, TypeOK, LoseConnection
<1>2. connError' = connError /\ error \in RetryableErrors \cup {"connection"}
  BY <1>1 DEF LoseConnection
<1>3. p \in PeerType /\ p.stage = "lost" /\ p.sent = peer[attempt].sent
  BY <1>1 DEF IInv, TypeOK, PeerType
<1>4. peer' = [peer EXCEPT ![attempt] = p]
  BY <1>1 DEF LoseConnection
<1>. HIDE DEF p
<1>5. /\ peer' \in [Attempts -> PeerType] /\ peer'[attempt] = p /\ Finished(p)
      /\ \A b \in Attempts \ {attempt} : peer'[b] = peer[b]
      /\ peer'[1].sent + peer'[2].sent <= MaxPieces
  BY <1>1, <1>3, <1>4 DEF IInv, TypeOK, Attempts, Finished
<1>6. /\ stream[attempt].registered /\ UNCHANGED <<attempt, pc, result, resets>>
      /\ FailStream(attempt, FALSE, error)
  BY <1>1 DEF LoseConnection
<1>. HIDE DEF error
<1>. QED BY <1>1, <1>2, <1>3, <1>5, <1>6, FailStreamStep

\* A step of the request thread that neither the consumer nor the peer sees.
LEMMA QuietStep ==
    ASSUME IInv, UNCHANGED <<attempt, calls, sink, resets, connError, peer>>, TypeOK',
           stream' \in [Attempts -> StreamType],
           \A b \in Attempts : stream'[b].isEnded = stream[b].isEnded /\ stream'[b].error = stream[b].error,
           pc # "downgraded", pc' # "downgraded", result = "send" => result' = "send",
           sink.completed => stream[attempt].isEnded \/ (result' = "send" /\ pc' \notin Failing),
           DoubleEnd => pc' \in {"detaching", "done"},
           AttachedOK', UnusedOK', ResultOK'
    PROVE  Keeps
<1>0. attempt \in Attempts
  BY DEF IInv, TypeOK
<1>1. \A b \in Attempts : /\ EndsCleanly(b)' <=> EndsCleanly(b)
                          /\ EndedOnce(b)' <=> EndedOnce(b)
                          /\ EndedTwice(b)' <=> EndedTwice(b)
                          /\ Ends(b)' = Ends(b)
                          /\ Whole(b)' <=> Whole(b)
                          /\ Begun(b)' <=> Begun(b)
  BY DEF EndsCleanly, EndedOnce, EndedTwice, Ends, Whole, Begun
<1>2. /\ EndsCleanly(attempt)' <=> EndsCleanly(attempt)
      /\ EndedOnce(attempt)' <=> EndedOnce(attempt)
      /\ EndedTwice(attempt)' <=> EndedTwice(attempt)
      /\ Ends(attempt)' = Ends(attempt)
      /\ Whole(attempt)' <=> Whole(attempt)
      /\ Begun(attempt)' <=> Begun(attempt)
  BY <1>0, <1>1
<1>3. CallsOK' /\ CancelOK'
  BY <1>0 DEF IInv, CallsOK, RetryFromScratch, CancelOK
<1>4. EndOK'
  BY <1>0, <1>2 DEF IInv, EndOK, DoubleEnd
<1>5. CleanOK'
  BY <1>0, <1>2 DEF IInv, CleanOK, Finished
<1>6. RetryOK'
  BY <1>1 DEF IInv, RetryOK, Attempts
<1>7. IInv'
  BY <1>3, <1>4, <1>5, <1>6 DEF IInv
<1>8. ASSUME SInv
      PROVE  SInv'
  <2>1. ProgressOK'
    BY <1>0, <1>2, <1>8 DEF SInv, ProgressOK
  <2>2. OpenOK'
    BY <1>8 DEF SInv, OpenOK
  <2>3. WholeOK'
    BY <1>0, <1>2, <1>8 DEF SInv, WholeOK
  <2>. QED BY <2>1, <2>2, <2>3 DEF SInv
<1>. QED BY <1>7, <1>8 DEF Keeps

\* registerStream(): from here on frames are for this attempt.
LEMMA RegisterStreamStep ==
    ASSUME IInv, RegisterStream
    PROVE  Keeps
<1>. DEFINE s == [stream[attempt] EXCEPT !.registered = TRUE]
<1>0. /\ attempt \in Attempts /\ stream[attempt] \in StreamType /\ pc = "register" /\ pc' = "sending"
      /\ UNCHANGED <<attempt, result, peer, connError, sink, calls, resets>>
  BY DEF IInv, TypeOK, RegisterStream
<1>1. s \in StreamType /\ s.isEnded = stream[attempt].isEnded /\ s.error = stream[attempt].error
  BY <1>0 DEF StreamType
<1>2. stream' = [stream EXCEPT ![attempt] = s]
  BY DEF RegisterStream
<1>. HIDE DEF s
<1>3. /\ stream' \in [Attempts -> StreamType] /\ stream'[attempt] = s
      /\ \A b \in Attempts \ {attempt} : stream'[b] = stream[b]
  BY <1>0, <1>1, <1>2 DEF IInv, TypeOK
<1>4. TypeOK'
  BY <1>0, <1>3 DEF IInv, TypeOK
<1>5. AttachedOK'
  BY <1>0, <1>3 DEF IInv, AttachedOK, UnusedOK, Attached, Failing, NewPeer
<1>6. UnusedOK'
  BY <1>0, <1>3 DEF IInv, UnusedOK, Attempts
<1>7. ResultOK' /\ result = "none"
  <2>1. result = "none"
    BY <1>0 DEF IInv, ResultOK, Left, Failing
  <2>. QED BY <1>0, <2>1 DEF ResultOK, Left, Failing, RetryableErrors
<1>8. ~sink.completed /\ \A b \in Attempts : stream'[b].isEnded = stream[b].isEnded
                                             /\ stream'[b].error = stream[b].error
  BY <1>0, <1>1, <1>3 DEF IInv, AttachedOK, NewSink
<1>. QED BY <1>0, <1>3, <1>4, <1>5, <1>6, <1>7, <1>8, QuietStep DEF DoubleEnd

\* sendHeadersFrame(): the peer had nothing to answer before.
LEMMA SendHeadersStep ==
    ASSUME IInv, SendHeaders
    PROVE  Keeps
<1>. DEFINE p == [peer[attempt] EXCEPT !.stage = IF @ = "idle" THEN "headers" ELSE @]
<1>0. /\ attempt \in Attempts /\ peer[attempt] \in PeerType /\ pc = "sending" /\ pc' = "sent"
      /\ UNCHANGED <<attempt, result, connError, stream, sink, calls, resets>>
      /\ peer[attempt].stage \in {"idle", "lost"} /\ result = "none"
      /\ peer \in [Attempts -> PeerType]
  BY DEF IInv, TypeOK, SendHeaders, AttachedOK, ResultOK, Left, Failing
<1>1. /\ p \in PeerType /\ p.sent = peer[attempt].sent /\ p.encoded = peer[attempt].encoded
      /\ p.stage = IF peer[attempt].stage = "idle" THEN "headers" ELSE "lost"
      /\ p.block = peer[attempt].block /\ p.ends = peer[attempt].ends
  BY <1>0 DEF PeerType
<1>2. peer' = [peer EXCEPT ![attempt] = p]
  BY <1>0 DEF SendHeaders
<1>. HIDE DEF p
<1>3. /\ peer' \in [Attempts -> PeerType] /\ peer'[attempt] = p
      /\ \A b \in Attempts \ {attempt} : peer'[b] = peer[b]
      /\ peer'[1].sent + peer'[2].sent <= MaxPieces
  BY <1>0, <1>1, <1>2 DEF IInv, TypeOK, Attempts
<1>4. \A b \in Attempts : /\ EndsCleanly(b)' <=> EndsCleanly(b)
                          /\ EndedOnce(b)' <=> EndedOnce(b)
                          /\ Ends(b)' = Ends(b)
  BY <1>0 DEF EndsCleanly, EndedOnce, Ends
<1>5. EndsCleanly(attempt) => peer[attempt].stage = "lost" /\ stream[attempt].error \notin RetryableErrors
  BY <1>0 DEF IInv, CleanOK, Finished
<1>6. TypeOK' /\ CallsOK' /\ CancelOK'
  BY <1>0, <1>3 DEF IInv, TypeOK, CallsOK, RetryFromScratch, CancelOK
<1>7. AttachedOK' /\ UnusedOK'
  BY <1>0, <1>3 DEF IInv, AttachedOK, UnusedOK, Attached, Failing, Attempts
<1>8. EndOK'
  BY <1>0, <1>4 DEF IInv, EndOK, DoubleEnd
<1>9. CleanOK'
  BY <1>0, <1>1, <1>3, <1>4, <1>5 DEF IInv, CleanOK, Finished
<1>10. ResultOK' /\ RetryOK'
  BY <1>0, <1>4 DEF IInv, ResultOK, RetryOK, Left, Failing, RetryableErrors, Attempts
<1>11. ASSUME SInv
       PROVE  SInv'
  <2>1. ProgressOK'
    BY <1>0, <1>1, <1>3, <1>11 DEF SInv, ProgressOK
  <2>2. OpenOK'
    BY <1>0, <1>1, <1>3 DEF OpenOK
  <2>3. WholeOK'
    <3>1. Whole(attempt)' <=> Whole(attempt)
      BY <1>0, <1>1, <1>3 DEF Whole
    <3>. QED BY <1>0, <1>1, <1>3, <1>4, <1>5, <1>11, <3>1 DEF SInv, WholeOK
  <2>. QED BY <2>1, <2>2, <2>3 DEF SInv
<1>. QED BY <1>6, <1>7, <1>8, <1>9, <1>10, <1>11 DEF IInv, Keeps

\* executeRequest() on a request that cannot be sent: it has not touched the sink yet.
LEMMA SendFailsStep ==
    ASSUME IInv, SendFails \/ CheckCompleted
    PROVE  Keeps
<1>0. /\ UNCHANGED <<attempt, calls, sink, resets, connError, peer, stream>>
      /\ attempt \in Attempts /\ stream \in [Attempts -> StreamType] /\ result' = "send"
      /\ \/ pc \in {"sending", "sent"} /\ pc' = "failing" /\ result = "none"
         \/ pc = "failing" /\ pc' = (IF sink.completed THEN "detaching" ELSE "completing")
               /\ result = "send"
  BY DEF SendFails, CheckCompleted, IInv, TypeOK, ResultOK, Left, Failing
<1>1. TypeOK'
  BY <1>0 DEF IInv, TypeOK
<1>2. AttachedOK' /\ UnusedOK'
  BY <1>0 DEF IInv, AttachedOK, UnusedOK, Attached, Failing
<1>3. ResultOK'
  BY <1>0 DEF ResultOK, Left, Failing, RetryableErrors
<1>4. sink.completed => stream[attempt].isEnded
  BY <1>0 DEF IInv, EndOK, Failing
<1>. QED BY <1>0, <1>1, <1>2, <1>3, <1>4, QuietStep DEF DoubleEnd

\* completeResponseSink() without the lock: the callbacks end a second time if a frame
\* has ended them since.
LEMMA CompleteUnlockedStep ==
    ASSUME IInv, CompleteUnlocked
    PROVE  Keeps
<1>. DEFINE k2 == Completed(sink)
            end == CompleteCall(attempt, stream[attempt], [sink EXCEPT !.completed = FALSE])
            w == IF sink.error # "none" THEN sink.error ELSE stream[attempt].error
<1>0. /\ attempt \in Attempts /\ stream[attempt] \in StreamType /\ sink \in SinkType
      /\ calls \in [Attempts -> Seq(CallType)] /\ RetryFromScratch
      /\ pc = "completing" /\ pc' = "detaching" /\ result = "send"
      /\ UNCHANGED <<attempt, result, peer, connError, stream, resets>> /\ sink' = k2 /\ Logged(end)
  BY DEF IInv, TypeOK, CallsOK, CompleteUnlocked, ResultOK, Failing
<1>1. /\ k2 \in SinkType /\ k2.completed /\ k2.cancelled = sink.cancelled /\ k2.error = sink.error
      /\ k2.aborted = sink.aborted /\ k2.cancellationTaken = sink.cancellationTaken
  BY <1>0 DEF SinkType, Completed
<1>2. /\ w \in Whats /\ EndCall(end, w) /\ end # <<>>
      /\ sink.error # "none" => stream[attempt].error # "none"
      /\ w = "none" <=> stream[attempt].error = "none"
  BY <1>0 DEF StreamType, SinkType, Whats, EndCall, CompleteCall, IInv, CancelOK
<1>. HIDE DEF k2, end, w
<1>3. Talk(<<>>) /\ Logged(<<>> \o end)
  <2>1. end \in Seq(CallType)
    <3>1. Call(attempt, "onComplete", w) \in CallType
      BY <1>0, <1>2 DEF Call, CallType, Whats
    <3>2. CASE end = <<>>
      BY <3>2
    <3>3. CASE end = <<Call(attempt, "onComplete", w)>>
      BY <3>1, <3>3
    <3>. QED BY <1>2, <3>2, <3>3 DEF EndCall
  <2>. QED BY <1>0, <2>1, ConcatEmptySeq DEF Talk
<1>4. /\ CallsOK'
      /\ \A a \in Attempts \ {attempt} : /\ calls'[a] = calls[a]
                                         /\ EndedOnce(a)' <=> EndedOnce(a)
                                         /\ EndsCleanly(a)' <=> EndsCleanly(a)
      /\ end = <<>> => /\ Ends(attempt)' = Ends(attempt)
                       /\ EndsCleanly(attempt)' <=> EndsCleanly(attempt)
      /\ end # <<>> /\ Ends(attempt) = {} => EndedOnce(attempt)'
      /\ end # <<>> /\ EndedOnce(attempt) => EndedTwice(attempt)'
      /\ end # <<>> => (EndsCleanly(attempt)' <=> EndsCleanly(attempt) \/ w = "none")
  BY <1>0, <1>2, <1>3, EndLogged
<1>5. TypeOK' /\ CancelOK'
  BY <1>0, <1>1 DEF IInv, TypeOK, CancelOK
<1>6. AttachedOK' /\ UnusedOK'
  BY <1>0, <1>4 DEF IInv, AttachedOK, UnusedOK, Attached, Failing, Attempts
<1>7. EndOK'
  <2>1. sink.completed => EndedOnce(attempt) /\ stream[attempt].isEnded
    BY <1>0 DEF IInv, EndOK, DoubleEnd, Failing
  <2>2. ~sink.completed => Ends(attempt) = {}
    BY <1>0 DEF IInv, EndOK
  <2>3. EndedOnce(attempt)' \/ DoubleEnd'
    BY <1>0, <1>2, <1>4, <2>1, <2>2 DEF DoubleEnd
  <2>. QED BY <1>0, <1>1, <2>3 DEF EndOK, Failing
<1>8. CleanOK'
  BY <1>0, <1>1, <1>2, <1>4 DEF IInv, CleanOK
<1>9. ResultOK'
  BY <1>0, <1>1 DEF ResultOK, Left, Failing, RetryableErrors
<1>10. RetryOK'
  BY <1>0, <1>4 DEF IInv, RetryOK, Attempts
<1>11. ASSUME SInv
       PROVE  SInv'
  <2>1. ProgressOK' /\ WholeOK'
    BY <1>0, <1>1 DEF ProgressOK, WholeOK
  <2>2. OpenOK'
    BY <1>0, <1>11 DEF SInv, OpenOK
  <2>. QED BY <2>1, <2>2 DEF SInv
<1>. QED BY <1>4, <1>5, <1>6, <1>7, <1>8, <1>9, <1>10, <1>11 DEF IInv, Keeps

\* What the request thread finds, it reports.
LEMMA ThreadStep ==
    ASSUME IInv, SendData \/ Await \/ TimeOut \/ Finalize
    PROVE  Keeps
<1>0. /\ UNCHANGED <<attempt, calls, sink, resets, connError, peer, stream>>
      /\ pc \in {"sent", "awaiting", "finalizing"} /\ pc' \in {"awaiting", "finalizing", "detaching"}
      /\ attempt \in Attempts /\ stream[attempt] \in StreamType /\ stream \in [Attempts -> StreamType]
      /\ result = "none"
  BY DEF SendData, Await, TimeOut, Finalize, IInv, TypeOK, ResultOK, Left, Failing
<1>1. TypeOK'
  BY <1>0 DEF IInv, TypeOK, StreamType, SendData, Await, TimeOut, Finalize
<1>2. AttachedOK' /\ UnusedOK'
  BY <1>0 DEF IInv, AttachedOK, UnusedOK, Attached, Failing
<1>3. EndsCleanly(attempt)' <=> EndsCleanly(attempt)
  BY <1>0 DEF EndsCleanly
<1>4. ResultOK'
  <2>1. CASE SendData \/ Await
    BY <1>0, <1>3, <2>1 DEF ResultOK, Left, Failing, RetryableErrors, SendData, Await
  <2>2. CASE TimeOut
    BY <1>0, <2>2 DEF ResultOK, Left, Failing, RetryableErrors, TimeOut
  <2>3. CASE Finalize
    <3>1. result' = stream[attempt].error /\ pc = "finalizing" /\ pc' = "detaching"
      BY <2>3 DEF Finalize
    <3>2. stream[attempt].isEnded /\ sink.completed
      BY <1>0, <3>1 DEF IInv, ResultOK, EndOK
    <3>3. /\ stream[attempt].error = "none" => EndsCleanly(attempt)
          /\ stream[attempt].error \in RetryableErrors => ~EndsCleanly(attempt)
      BY <1>0, <3>2 DEF IInv, CleanOK
    <3>. QED BY <1>0, <1>3, <3>1, <3>2, <3>3 DEF ResultOK, Left, Failing, RetryableErrors
  <2>. QED BY <2>1, <2>2, <2>3
<1>5. sink.completed => stream[attempt].isEnded
  BY <1>0 DEF IInv, EndOK
<1>. QED BY <1>0, <1>1, <1>2, <1>4, <1>5, QuietStep DEF DoubleEnd

\* unregisterStream(): no frame reaches the attempt from here on.
LEMMA UnregisterStreamStep ==
    ASSUME IInv, UnregisterStream
    PROVE  Keeps
<1>. DEFINE s == [stream[attempt] EXCEPT !.registered = FALSE]
<1>0. /\ attempt \in Attempts /\ stream[attempt] \in StreamType /\ pc = "detaching"
      /\ pc' = IF attempt = 1 /\ result \in RetryableErrors THEN "retrying" ELSE "done"
      /\ UNCHANGED <<attempt, result, peer, connError, sink, calls, resets>>
  BY DEF IInv, TypeOK, UnregisterStream
<1>1. s \in StreamType /\ s.isEnded = stream[attempt].isEnded /\ s.error = stream[attempt].error /\ ~s.registered
  BY <1>0 DEF StreamType
<1>2. stream' = [stream EXCEPT ![attempt] = s]
  BY DEF UnregisterStream
<1>. HIDE DEF s
<1>3. /\ stream' \in [Attempts -> StreamType] /\ stream'[attempt] = s
      /\ \A b \in Attempts \ {attempt} : stream'[b] = stream[b]
  BY <1>0, <1>1, <1>2 DEF IInv, TypeOK
<1>4. TypeOK'
  BY <1>0, <1>3 DEF IInv, TypeOK
<1>5. AttachedOK'
  BY <1>0, <1>1, <1>3 DEF IInv, AttachedOK
<1>6. UnusedOK'
  BY <1>0, <1>3 DEF IInv, UnusedOK, Attempts
<1>7. ResultOK'
  <2>1. EndsCleanly(attempt)' <=> EndsCleanly(attempt)
    BY <1>0 DEF EndsCleanly
  <2>. QED BY <1>0, <2>1 DEF IInv, ResultOK, Left, Failing
<1>8. /\ sink.completed => stream[attempt].isEnded \/ result = "send"
      /\ DoubleEnd => pc' = "done"
      /\ pc' \notin Failing
      /\ \A b \in Attempts : stream'[b].isEnded = stream[b].isEnded /\ stream'[b].error = stream[b].error
  BY <1>0, <1>1, <1>3 DEF IInv, EndOK, DoubleEnd, Failing, RetryableErrors
<1>. QED BY <1>0, <1>3, <1>4, <1>5, <1>6, <1>7, <1>8, QuietStep

\* prepareRetry(): the second attempt begins with nothing of the first.
LEMMA PrepareRetryStep ==
    ASSUME IInv, PrepareRetry
    PROVE  Keeps
<1>0. /\ pc = "retrying" /\ attempt = 1 /\ sink' = NewSink /\ resets' = 0 /\ result' = "none"
      /\ UNCHANGED <<peer, connError, stream, calls>> /\ result \in RetryableErrors
      /\ \/ pc' = "downgraded" /\ attempt' = 1
         \/ pc' = "register" /\ attempt' = 2
  BY DEF PrepareRetry, IInv, ResultOK
<1>1. /\ EndedOnce(1) /\ ~EndsCleanly(1)
      /\ calls[2] = <<>> /\ stream[2] = NewStream /\ peer[2] = NewPeer
      /\ \A b \in Attempts : ~stream[b].registered
  BY <1>0 DEF IInv, ResultOK, EndOK, DoubleEnd, UnusedOK, AttachedOK, Left, Attempts, Attached, Failing, RetryableErrors
<1>2. Ends(2)' = {} /\ ~EndsCleanly(2)' /\ EndedOnce(1)' /\ ~EndsCleanly(1)'
  BY <1>0, <1>1 DEF Ends, EndsCleanly, EndedOnce
<1>3. TypeOK' /\ CallsOK'
  BY <1>0 DEF IInv, TypeOK, CallsOK, RetryFromScratch, Attempts, NewSink, SinkType
<1>4. AttachedOK' /\ UnusedOK'
  BY <1>0, <1>1 DEF AttachedOK, UnusedOK, Attempts
<1>5. CancelOK'
  BY <1>0 DEF CancelOK, NewSink
<1>6. EndOK'
  BY <1>0, <1>1, <1>2 DEF EndOK, NewSink, NewStream
<1>7. CleanOK' /\ ResultOK' /\ RetryOK'
  BY <1>0, <1>2 DEF CleanOK, ResultOK, RetryOK, NewSink, Left, Failing, RetryableErrors
<1>8. ASSUME SInv
      PROVE  SInv'
  <2>1. ProgressOK'
    BY <1>0, <1>1 DEF ProgressOK, NewSink, NewPeer
  <2>2. OpenOK'
    BY <1>0, <1>1, <1>8 DEF SInv, OpenOK, NewPeer
  <2>3. WholeOK'
    BY <1>0, <1>2 DEF WholeOK
  <2>. QED BY <2>1, <2>2, <2>3 DEF SInv
<1>. QED BY <1>3, <1>4, <1>5, <1>6, <1>7, <1>8 DEF IInv, Keeps

-----------------------------------------------------------------------------
(* The theorems                                                             *)

\* Nothing was sent or said at the start.
LEMMA InitHolds == Init => IInv /\ SInv
<1>. SUFFICES ASSUME Init
              PROVE  IInv /\ SInv
  OBVIOUS
<1>. USE DEF Init
<1>0. Ends(1) = {} /\ ~EndsCleanly(1)
  BY DEF Ends, EndsCleanly, Attempts
<1>1. TypeOK
  BY SinkAssumption DEF TypeOK, Attempts, NewPeer, PeerType, NewStream, StreamType, NewSink, SinkType, Kinds
<1>2. CallsOK
  BY DEF CallsOK, RetryFromScratch
<1>3. AttachedOK /\ UnusedOK /\ CancelOK
  BY DEF AttachedOK, UnusedOK, CancelOK, NewSink, NewStream, Attempts
<1>4. EndOK /\ CleanOK /\ ResultOK /\ RetryOK
  BY <1>0 DEF EndOK, CleanOK, ResultOK, RetryOK, NewSink, NewStream, Attempts, Left, Failing, RetryableErrors
<1>5. SInv
  BY <1>0 DEF SInv, ProgressOK, OpenOK, WholeOK, NewPeer, NewSink, Attempts
<1>. QED BY <1>1, <1>2, <1>3, <1>4, <1>5 DEF IInv

\* Every step keeps both invariants.
LEMMA NextHolds ==
    ASSUME IInv, [Next]_vars
    PROVE  Keeps
<1>1. ASSUME NEW a \in Attempts, Reader(a)
      PROVE  Keeps
  BY <1>1, ReceiveHeadersStep, ReceiveOpenBlockStep, ReceiveContinuationStep, ReceiveDataStep,
     ReceiveResetStep, ReceiveGoAwayStep, LoseConnectionStep DEF Reader
<1>2. CASE Request
  BY <1>2, RegisterStreamStep, SendHeadersStep, SendFailsStep, CompleteUnlockedStep, ThreadStep,
     UnregisterStreamStep, PrepareRetryStep DEF Request
<1>3. CASE UNCHANGED vars
  <2>0. \A b \in Attempts : /\ EndsCleanly(b)' <=> EndsCleanly(b)
                            /\ EndedOnce(b)' <=> EndedOnce(b)
                            /\ EndedTwice(b)' <=> EndedTwice(b)
                            /\ Ends(b)' = Ends(b)
    BY <1>3 DEF vars, EndsCleanly, EndedOnce, EndedTwice, Ends
  <2>1. IInv'
    <3>0. attempt \in Attempts
      BY DEF IInv, TypeOK
    <3>1. TypeOK' /\ CallsOK'
      BY <1>3 DEF vars, IInv, TypeOK, CallsOK, RetryFromScratch
    <3>2. AttachedOK' /\ UnusedOK' /\ CancelOK'
      BY <1>3 DEF vars, IInv, AttachedOK, UnusedOK, CancelOK
    <3>3. EndOK' /\ CleanOK'
      BY <1>3, <2>0, <3>0 DEF vars, IInv, EndOK, DoubleEnd, CleanOK
    <3>4. ResultOK' /\ RetryOK'
      BY <1>3, <2>0, <3>0 DEF vars, IInv, ResultOK, RetryOK, Attempts
    <3>. QED BY <3>1, <3>2, <3>3, <3>4 DEF IInv
  <2>2. SInv => SInv'
    BY <1>3 DEF vars, SInv, ProgressOK, OpenOK, WholeOK, Begun, Whole, EndsCleanly
  <2>. QED BY <2>1, <2>2 DEF Keeps
<1>. QED BY <1>1, <1>2, <1>3 DEF Next, Idle

\* Who may call back, how the callbacks have ended and what the request thread makes of
\* it: so in every reachable state, whatever the peer does.
THEOREM Invariance == Spec => []IInv
<1>1. Init => IInv
  BY InitHolds
<1>2. IInv /\ [Next]_vars => IInv'
  BY NextHolds DEF Keeps
<1>. QED BY <1>1, <1>2, PTL DEF Spec

\* Peer, Stream and sink stay in their types.
THEOREM TypeCorrect == Spec => []TypeOK
<1>1. IInv => TypeOK
  BY DEF IInv
<1>. QED BY <1>1, Invariance, PTL

\* takeResponseCancellation(): a response that the consumer stops or that cannot be
\* decoded is reset on the wire exactly once, and its callbacks have ended.
THEOREM TornDownOnTheWire == Spec => []CancelledIsReset
<1>1. IInv => CancelledIsReset
  BY DEF IInv, CancelOK, CancelledIsReset
<1>. QED BY <1>1, Invariance, PTL

\* completeResponseSink(): one onComplete for each attempt that did not time out, clean
\* for the request that succeeded and not for the one that is retried; a second one only
\* for a request that could not be sent and whose stream the reader ended as well.
THEOREM EndsAsReported == Spec => []OutcomeReported
<1>1. ASSUME IInv
      PROVE  OutcomeReported
  <2>0. attempt \in Attempts
    BY <1>1 DEF IInv, TypeOK
  <2>1. \A a \in Attempts : a # attempt => Ends(a) = {} \/ EndedOnce(a)
    <3>. SUFFICES ASSUME NEW a \in Attempts, a # attempt
                  PROVE  Ends(a) = {} \/ EndedOnce(a)
      OBVIOUS
    <3>1. CASE attempt = 2
      BY <1>1, <3>1 DEF IInv, RetryOK, Attempts
    <3>2. CASE attempt = 1
      <4>1. calls[a] = <<>>
        BY <1>1, <3>2 DEF IInv, UnusedOK, Attempts
      <4>. QED BY <4>1 DEF Ends
    <3>. QED BY <2>0, <3>1, <3>2 DEF Attempts
  <2>2. Ends(attempt) # {} =>
            EndedOnce(attempt) \/ (result = "send" /\ stream[attempt].isEnded /\ EndedTwice(attempt))
    BY <1>1 DEF IInv, EndOK, DoubleEnd, RetryOK
  <2>3. EndedOnce(attempt) \/ EndedTwice(attempt) => Ends(attempt) # {}
    BY DEF EndedOnce, EndedTwice
  <2>4. pc \in {"retrying", "done"} /\ result # "timeout" => Ends(attempt) # {}
    BY <1>1, <2>3 DEF IInv, ResultOK, EndOK, DoubleEnd, Left
  <2>5. pc \in {"retrying", "done"} /\ result = "none" => EndsCleanly(attempt)
    BY <1>1 DEF IInv, ResultOK, Left
  <2>. QED BY <1>1, <2>1, <2>2, <2>4, <2>5 DEF IInv, RetryOK, OutcomeReported
<1>. QED BY <1>1, Invariance, PTL

\* unregisterStream() before prepareStreamRetry(): the reader of the first connection
\* never speaks during the second attempt.
THEOREM ReplayedFromScratch == Spec => []RetryFromScratch
<1>1. IInv => RetryFromScratch
  BY DEF IInv, CallsOK
<1>. QED BY <1>1, Invariance, PTL

\* The sequence the consumer should see, call by call.
LEMMA WholeIsSequence ==
    ASSUME IInv, NEW a \in Attempts, Whole(a)
    PROVE  calls[a] = WholeSequence(a)
<1>. DEFINE n == peer[a].sent
            seq == WholeSequence(a)
<1>0. n \in Nat /\ calls[a] \in Seq(CallType) /\ Len(calls[a]) = n + 2
  BY DEF IInv, TypeOK, PeerType, CallsOK, Whole
<1>1. calls[a] \in [1 .. n + 2 -> CallType]
  BY <1>0
<1>2. \A i \in 1 .. n + 2 : seq[i] = CASE i = 1 -> Call(a, "onHeaders", "final")
                                       [] i = n + 2 -> Call(a, "onComplete", "none")
                                       [] OTHER -> Call(a, "onData", "readable")
  BY DEF WholeSequence
<1>3. \A i \in 1 .. n + 2 : calls[a][i] = seq[i]
  <2>. TAKE i \in 1 .. n + 2
  <2>1. CASE i = 1
    BY <1>2, <2>1 DEF Whole
  <2>2. CASE i = n + 2 /\ i # 1
    <3>1. seq[i] = Call(a, "onComplete", "none")
      BY <1>2, <2>2
    <3>. QED BY <1>0, <2>2, <3>1 DEF Whole
  <2>3. CASE i # 1 /\ i # n + 2
    <3>1. seq[i] = Call(a, "onData", "readable")
      BY <1>2, <2>3
    <3>2. i \in 2 .. Len(calls[a]) - 1
      BY <1>0, <2>3
    <3>. QED BY <3>1, <3>2 DEF Whole
  <2>. QED BY <2>1, <2>2, <2>3
<1>4. DOMAIN seq = 1 .. n + 2 /\ seq = [i \in 1 .. n + 2 |-> seq[i]]
  BY DEF WholeSequence
<1>. HIDE DEF seq, n
<1>5. calls[a] = [i \in 1 .. n + 2 |-> calls[a][i]]
  BY <1>1
<1>6. calls[a] = seq
  BY <1>3, <1>4, <1>5
<1>. QED BY <1>6 DEF seq

\* onComplete without an error follows the final headers and every piece of the body,
\* decoded, if the peer sends no 1xx block and no END_STREAM on a block that goes on.
THEOREM CleanEndIsWhole ==
    ASSUME Plain
    PROVE  Spec => []SuccessSequence
<1>1. Init => IInv /\ SInv
  BY InitHolds
<1>2. IInv /\ SInv /\ [Next]_vars => IInv' /\ SInv'
  BY NextHolds DEF Keeps
<1>3. ASSUME IInv, SInv
      PROVE  SuccessSequence
  <2>. SUFFICES ASSUME NEW a \in Attempts, EndsCleanly(a), ~(a = attempt /\ result = "send")
                PROVE  calls[a] = WholeSequence(a)
    BY DEF SuccessSequence
  <2>1. a = attempt
    <3>1. CASE attempt = 2
      BY <1>3, <3>1 DEF IInv, RetryOK, Attempts
    <3>2. CASE attempt = 1 /\ a = 2
      <4>1. calls[a] = <<>>
        BY <1>3, <3>2 DEF IInv, UnusedOK, Attempts
      <4>. QED BY <4>1 DEF EndsCleanly
    <3>. QED BY <1>3, <3>1, <3>2 DEF IInv, TypeOK, Attempts
  <2>2. Whole(a)
    BY <1>3, <2>1 DEF SInv, WholeOK
  <2>. QED BY <1>3, <2>2, WholeIsSequence
<1>. QED BY <1>1, <1>2, <1>3, PTL DEF Spec
=============================================================================
