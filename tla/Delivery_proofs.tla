--------------------------- MODULE Delivery_proofs ---------------------------
(***************************************************************************)
(* Proofs about the way of a response body to its caller.                  *)
(*                                                                         *)
(* First its windows (FlowControl), for every set of streams and every     *)
(* window size and threshold that WindowAssumption admits.  The two        *)
(* accounts (ConnAccounted, StreamAccounted) are inductive with the types. *)
(* That the server is never out of window between batches (NoStall) needs  *)
(* three more facts about what may lie in the ledger.                      *)
(*                                                                         *)
(* Then its decoder (StreamDecode), for every set of bodies that           *)
(* DecodeAssumption admits and every way they fall into chunks.  What the  *)
(* response, the output buffer and the decoder hold is the text in one     *)
(* piece (InOnePiece), and it is the text of all that was read (UptoLast,  *)
(* NoHole).                                                                *)
(*                                                                         *)
(* Last the bindings that hand it over (Bindings), for every set of        *)
(* requests and addresses.  The references of a context count its owners   *)
(* (Counted), and the registry of the polled requests leads from every     *)
(* handle to its own request (Filed, Findable, HandlesApart).              *)
(***************************************************************************)
EXTENDS FlowControl, StreamDecode, Bindings, SequenceTheorems,
        NaturalsInduction, WellFoundedInduction, TLAPS

-----------------------------------------------------------------------------
(* The ledger of the windows                                                *)

\* A stream's credit above the threshold is queued at once.
CreditBounded == \A s \in Streams : credit[s] <= StreamThreshold

\* Connection credit at the threshold or above is due at the batch end.
PendingBounded == due \/ pending < ConnThreshold

\* The end of a batch leaves nothing queued.
BatchClosed == ~inBatch => ~due /\ update = Zero

\* The invariant of the ledger.
IInv ==
    /\ TypeOK
    /\ ConnAccounted
    /\ StreamAccounted
    /\ CreditBounded
    /\ PendingBounded
    /\ BatchClosed

-----------------------------------------------------------------------------
(* The operators of the ledger                                              *)

\* tuneConnectionWindow(): a target below the maximum grows, up to the maximum.
LEMMA DoubledGrows ==
    ASSUME TypeOK, target < MaxTarget
    PROVE  Doubled \in target .. MaxTarget
BY WindowAssumption DEF TypeOK, Doubled

\* tuneConnectionWindow() keeps the target in its range, and what it announces is
\* what the target grew by.
LEMMA TuneAnnounced ==
    ASSUME TypeOK, NEW n \in Nat, Tune(n)
    PROVE  /\ target' \in InitialTarget .. MaxTarget
           /\ growth' \in Nat
           /\ Owed(n) \in Nat
           /\ Owed(n) = pending + n + target' - target
<1>1. target \in InitialTarget .. MaxTarget /\ target \in Nat /\ growth \in Nat /\ pending \in Nat
  BY WindowAssumption DEF TypeOK
<1>2. CASE Grows(n)
  <2>1. Doubled \in target .. MaxTarget
    BY <1>2, DoubledGrows DEF Grows
  <2>2. target' = Doubled /\ growth' = growth + n - target /\ Owed(n) = pending + n + (Doubled - target)
    BY <1>2 DEF Tune, Owed
  <2>3. growth + n >= target
    BY <1>2 DEF Grows
  <2>. QED BY <1>1, <2>1, <2>2, <2>3, WindowAssumption
<1>3. CASE ~Grows(n)
  <2>1. target' = target /\ growth' \in {growth, growth + n} /\ Owed(n) = pending + n + 0
    BY <1>3 DEF Tune, Owed
  <2>. QED BY <1>1, <2>1
<1>. QED BY <1>2, <1>3

\* addStreamWindowCredit(): the n bytes are entered, queued or forgotten, and what
\* stays in the ledger is below the threshold.
LEMMA AddCreditBalances ==
    ASSUME TypeOK, CreditBounded, NEW s \in Streams, NEW n \in Nat, AddCredit(s, n)
    PROVE  /\ listed' \subseteq Streams
           /\ credit' \in [Streams -> Nat]
           /\ update' \in [Streams -> Nat]
           /\ unpaid' \in [Streams -> Nat]
           /\ CreditBounded'
           /\ credit'[s] + update'[s] + unpaid'[s] = credit[s] + update[s] + unpaid[s] + n
           /\ \A t \in Streams \ {s} :
                credit'[t] = credit[t] /\ update'[t] = update[t] /\ unpaid'[t] = unpaid[t]
<1>. DEFINE c == credit[s] + n
<1>1. c \in Nat
  BY DEF TypeOK
<1>2. CASE s \notin listed /\ Cardinality(listed) >= LedgerSize
  <2>1. /\ unpaid' = [unpaid EXCEPT ![s] = @ + n]
        /\ UNCHANGED <<listed, credit, update>>
    BY <1>2 DEF AddCredit
  <2>. QED BY <2>1, WindowAssumption DEF TypeOK, CreditBounded
<1>3. CASE ~(s \notin listed /\ Cardinality(listed) >= LedgerSize) /\ c > StreamThreshold
  <2>1. /\ listed' = listed \cup {s}
        /\ update' = [update EXCEPT ![s] = @ + c]
        /\ credit' = [credit EXCEPT ![s] = 0]
        /\ UNCHANGED unpaid
    BY <1>3 DEF AddCredit
  <2>. QED BY <1>1, <2>1, WindowAssumption DEF TypeOK, CreditBounded
<1>4. CASE ~(s \notin listed /\ Cardinality(listed) >= LedgerSize) /\ ~(c > StreamThreshold)
  <2>1. /\ listed' = listed \cup {s}
        /\ credit' = [credit EXCEPT ![s] = c]
        /\ UNCHANGED <<update, unpaid>>
    BY <1>4 DEF AddCredit
  <2>. QED BY <1>1, <1>4, <2>1, WindowAssumption DEF TypeOK, CreditBounded
<1>. QED BY <1>2, <1>3, <1>4

\* discardPendingStreamWindow(): only the entry of s goes.
LEMMA DiscardClears ==
    ASSUME TypeOK, CreditBounded, NEW s \in Streams, Discard(s)
    PROVE  /\ listed' \subseteq Streams
           /\ credit' \in [Streams -> Nat]
           /\ update' = update /\ unpaid' = unpaid
           /\ CreditBounded'
           /\ \A t \in Streams \ {s} : credit'[t] = credit[t]
BY WindowAssumption DEF TypeOK, CreditBounded, Discard

\* The server spends exactly what it sends, from the connection and from one stream.
LEMMA ServerSpends ==
    ASSUME TypeOK, NEW s \in Streams, NEW n \in 0 .. MaxFrame, NEW fin \in BOOLEAN,
           ServerSends(s, n, fin)
    PROVE  /\ n \in Nat
           /\ connWindow' \in Nat /\ connWindow' = connWindow - n
           /\ window' \in [Streams -> Nat] /\ window'[s] = window[s] - n
           /\ \A t \in Streams \ {s} : window'[t] = window[t]
           /\ left' \in [Streams -> -1 .. MaxBody]
BY WindowAssumption DEF TypeOK, ServerSends

-----------------------------------------------------------------------------
(* The steps                                                                *)

\* The initial state has empty ledgers and full windows.
LEMMA InitHolds == Init => IInv
<1>. SUFFICES ASSUME Init
              PROVE  IInv
  OBVIOUS
<1>1. left \in [Streams -> -1 .. MaxBody]
  <2>1. left \in [Streams -> 0 .. MaxBody]
    BY DEF Init
  <2>. QED BY <2>1, WindowAssumption
<1>2. TypeOK
  <2>1. Zero \in [Streams -> Nat] /\ window \in [Streams -> Nat]
    BY WindowAssumption DEF Init, Zero
  <2>2. target \in InitialTarget .. MaxTarget /\ connWindow \in Nat
    BY WindowAssumption DEF Init
  <2>. QED BY <1>1, <2>1, <2>2 DEF Init, TypeOK
<1>3. ConnAccounted /\ StreamAccounted
  BY WindowAssumption DEF Init, ConnAccounted, StreamAccounted, Live, Zero
<1>4. CreditBounded /\ PendingBounded /\ BatchClosed
  BY WindowAssumption DEF Init, CreditBounded, PendingBounded, BatchClosed, Zero
<1>. QED BY <1>2, <1>3, <1>4 DEF IInv

\* DATA of a registered stream: replenishStreamWindow() enters both credits.
LEMMA ReceiveDataKeeps ==
    ASSUME IInv, NEW s \in Streams, NEW n \in 0 .. MaxFrame, NEW fin \in BOOLEAN, NEW cut \in BOOLEAN,
           ReceiveData(s, n, fin, cut)
    PROVE  IInv'
<1>. DEFINE over == fin \/ s \in ended
<1>a. TypeOK /\ CreditBounded
  BY DEF IInv
<1>0. /\ n \in Nat
      /\ connWindow' \in Nat /\ connWindow' = connWindow - n
      /\ window' \in [Streams -> Nat] /\ window'[s] = window[s] - n
      /\ \A t \in Streams \ {s} : window'[t] = window[t]
      /\ left' \in [Streams -> -1 .. MaxBody]
  BY <1>a, ServerSpends DEF ReceiveData
<1>1. /\ target' \in InitialTarget .. MaxTarget
      /\ growth' \in Nat
      /\ pending' \in Nat
      /\ pending' = pending + n + target' - target
  BY <1>0, <1>a, TuneAnnounced DEF ReceiveData
<1>2. /\ listed' \subseteq Streams
      /\ credit' \in [Streams -> Nat]
      /\ update' \in [Streams -> Nat]
      /\ unpaid' \in [Streams -> Nat]
      /\ CreditBounded'
      /\ \A t \in Streams \ {s} :
            credit'[t] = credit[t] /\ update'[t] = update[t] /\ unpaid'[t] = unpaid[t]
      /\ s \in Live' => credit'[s] + update'[s] + unpaid'[s] = credit[s] + update[s] + unpaid[s] + n
  <2>1. CASE over \/ cut
    <3>1. Discard(s)
      BY <2>1 DEF ReceiveData
    <3>2. s \notin Live'
      BY <2>1 DEF ReceiveData, Live
    <3>. QED BY <1>a, <3>1, <3>2, DiscardClears DEF TypeOK
  <2>2. CASE ~(over \/ cut) /\ n > 0
    <3>1. AddCredit(s, n)
      BY <2>2 DEF ReceiveData
    <3>. QED BY <1>a, <1>0, <3>1, AddCreditBalances
  <2>3. CASE ~(over \/ cut) /\ ~(n > 0)
    <3>1. UNCHANGED <<listed, credit, update, unpaid>>
      BY <2>3 DEF ReceiveData
    <3>2. n = 0
      BY <1>0, <2>3
    <3>. QED BY <1>a, <3>1, <3>2 DEF TypeOK, CreditBounded
  <2>. QED BY <2>1, <2>2, <2>3
<1>3. due' = FlushDue(n, over) /\ pending' = Owed(n)
  BY DEF ReceiveData
<1>4. TypeOK'
  BY <1>a, <1>0, <1>1, <1>2, <1>3 DEF ReceiveData, TypeOK, FlushDue, Grows
<1>5. ConnAccounted'
  <2>1. leaked' = leaked
    BY DEF ReceiveData
  <2>. QED BY <1>a, <1>0, <1>1, <2>1, WindowAssumption DEF IInv, TypeOK, ConnAccounted
<1>6. StreamAccounted'
  <2>1. Live' \subseteq Live /\ Live \subseteq Streams
    BY <1>a DEF ReceiveData, Live, TypeOK
  <2>. SUFFICES ASSUME NEW t \in Live'
                PROVE  window'[t] + credit'[t] + update'[t] + unpaid'[t] = InitialStream
    BY DEF StreamAccounted
  <2>2. t \in Streams /\ window[t] + credit[t] + update[t] + unpaid[t] = InitialStream
    BY <2>1 DEF IInv, StreamAccounted
  <2>3. CASE t = s
    BY <1>a, <1>0, <1>2, <2>2, <2>3, WindowAssumption DEF TypeOK
  <2>4. CASE t # s
    BY <1>0, <1>2, <2>2, <2>4
  <2>. QED BY <2>3, <2>4
<1>7. PendingBounded'
  <2>1. CASE Owed(n) >= ConnThreshold
    <3>1. FlushDue(n, over)
      BY <2>1 DEF FlushDue
    <3>. QED BY <1>3, <3>1 DEF PendingBounded
  <2>2. CASE ~(Owed(n) >= ConnThreshold)
    BY <1>1, <1>3, <2>2, WindowAssumption DEF PendingBounded
  <2>. QED BY <2>1, <2>2
<1>8. BatchClosed'
  BY DEF BatchClosed, ReceiveData
<1>. QED BY <1>2, <1>4, <1>5, <1>6, <1>7, <1>8 DEF IInv

\* DATA of an unknown stream leaves the ledger alone.
LEMMA ReceiveUnknownDataKeeps ==
    ASSUME IInv, NEW s \in Streams, NEW n \in 0 .. MaxFrame, NEW fin \in BOOLEAN,
           ReceiveUnknownData(s, n, fin)
    PROVE  IInv'
<1>a. TypeOK
  BY DEF IInv
<1>0. /\ n \in Nat
      /\ connWindow' \in Nat /\ connWindow' = connWindow - n
      /\ window' \in [Streams -> Nat]
      /\ \A t \in Streams \ {s} : window'[t] = window[t]
      /\ left' \in [Streams -> -1 .. MaxBody]
  BY <1>a, ServerSpends DEF ReceiveUnknownData
<1>1. TypeOK'
  BY <1>a, <1>0 DEF ReceiveUnknownData, TypeOK, ledgerVars
<1>2. ConnAccounted'
  BY <1>a, <1>0, WindowAssumption DEF IInv, TypeOK, ConnAccounted, ReceiveUnknownData, ledgerVars
<1>3. StreamAccounted'
  <2>1. Live' = Live /\ Live \subseteq Streams \ {s}
    BY <1>a DEF ReceiveUnknownData, Live, TypeOK
  <2>. QED BY <1>0, <2>1 DEF IInv, StreamAccounted, ReceiveUnknownData, ledgerVars
<1>. QED BY <1>1, <1>2, <1>3
         DEF IInv, CreditBounded, PendingBounded, BatchClosed, ReceiveUnknownData, ledgerVars

\* Trailers and RST_STREAM discard the entry of their stream.
LEMMA ReceiveEndKeeps ==
    ASSUME IInv, NEW s \in Streams, ReceiveEnd(s)
    PROVE  IInv'
<1>a. TypeOK /\ CreditBounded
  BY DEF IInv
<1>0. left' \in [Streams -> -1 .. MaxBody]
  BY <1>a, WindowAssumption DEF ReceiveEnd, TypeOK
<1>1. CASE s \in registered
  <2>1. ended' = ended \cup {s} /\ due' = TRUE /\ Discard(s)
    BY <1>1 DEF ReceiveEnd
  <2>2. /\ listed' \subseteq Streams
        /\ credit' \in [Streams -> Nat]
        /\ update' = update /\ unpaid' = unpaid
        /\ CreditBounded'
        /\ \A t \in Streams \ {s} : credit'[t] = credit[t]
    BY <1>a, <2>1, DiscardClears
  <2>3. Live' \subseteq Live \ {s} /\ Live \subseteq Streams
    BY <1>a, <2>1 DEF ReceiveEnd, Live, TypeOK
  <2>4. TypeOK'
    BY <1>a, <1>0, <2>1, <2>2 DEF ReceiveEnd, TypeOK
  <2>5. ConnAccounted' /\ StreamAccounted'
    BY <2>2, <2>3 DEF IInv, ReceiveEnd, ConnAccounted, StreamAccounted
  <2>6. PendingBounded' /\ BatchClosed'
    BY <2>1 DEF ReceiveEnd, PendingBounded, BatchClosed
  <2>. QED BY <2>2, <2>4, <2>5, <2>6 DEF IInv
<1>2. CASE s \notin registered
  <2>1. UNCHANGED <<ended, due, listed, credit, update, unpaid>>
    BY <1>2 DEF ReceiveEnd
  <2>. QED BY <1>0, <2>1 DEF IInv, TypeOK, ConnAccounted, StreamAccounted, CreditBounded, PendingBounded,
                             BatchClosed, ReceiveEnd, Live
<1>. QED BY <1>1, <1>2

\* What the batch end takes from the ledger is what the server, or nobody, gets.
LEMMA FlushedTakes ==
    ASSUME IInv
    PROVE  Flushed \in Nat /\ pending - Flushed \in Nat /\ pending - Flushed < ConnThreshold
BY WindowAssumption DEF IInv, TypeOK, PendingBounded, Flushed

\* flushReaderWrites() moves the queued credit to the server.
LEMMA FlushReaderWritesKeeps ==
    ASSUME IInv, FlushReaderWrites
    PROVE  IInv'
<1>0. Flushed \in Nat /\ pending - Flushed \in Nat /\ pending - Flushed < ConnThreshold
  BY FlushedTakes
<1>1. TypeOK'
  <2>a. TypeOK
    BY DEF IInv
  <2>1. left' \in [Streams -> -1 .. MaxBody]
    BY <2>a, WindowAssumption DEF FlushReaderWrites, TypeOK
  <2>2. connWindow' \in Nat /\ window' \in [Streams -> Nat] /\ leaked' \in Nat /\ unpaid' \in [Streams -> Nat]
    BY <1>0, <2>a DEF FlushReaderWrites, TypeOK
  <2>3. pending' \in Nat /\ due' \in BOOLEAN /\ update' \in [Streams -> Nat] /\ resets' \subseteq Streams
    BY <1>0 DEF FlushReaderWrites, Zero
  <2>. QED BY <2>a, <2>1, <2>2, <2>3 DEF FlushReaderWrites, TypeOK
<1>2. ConnAccounted'
  BY <1>0, WindowAssumption DEF IInv, FlushReaderWrites, TypeOK, ConnAccounted
<1>3. StreamAccounted'
  BY WindowAssumption DEF IInv, FlushReaderWrites, TypeOK, StreamAccounted, Live, Zero
<1>. QED BY <1>0, <1>1, <1>2, <1>3
         DEF IInv, FlushReaderWrites, CreditBounded, PendingBounded, BatchClosed

\* A failed write moves it to what is lost.
LEMMA FlushFailsKeeps ==
    ASSUME IInv, FlushFails
    PROVE  IInv'
<1>0. Flushed \in Nat /\ pending - Flushed \in Nat /\ pending - Flushed < ConnThreshold
  BY FlushedTakes
<1>1. TypeOK'
  <2>a. TypeOK
    BY DEF IInv
  <2>1. left' \in [Streams -> -1 .. MaxBody]
    BY <2>a, WindowAssumption DEF FlushFails, TypeOK, serverVars
  <2>2. connWindow' \in Nat /\ window' \in [Streams -> Nat] /\ leaked' \in Nat /\ unpaid' \in [Streams -> Nat]
    BY <1>0, <2>a DEF FlushFails, TypeOK, serverVars
  <2>3. pending' \in Nat /\ due' \in BOOLEAN /\ update' \in [Streams -> Nat] /\ resets' \subseteq Streams
    BY <1>0 DEF FlushFails, Zero
  <2>. QED BY <2>a, <2>1, <2>2, <2>3 DEF FlushFails, TypeOK
<1>2. ConnAccounted'
  BY <1>0, WindowAssumption DEF IInv, FlushFails, TypeOK, ConnAccounted, serverVars
<1>3. StreamAccounted'
  BY WindowAssumption DEF IInv, FlushFails, TypeOK, StreamAccounted, Live, Zero, serverVars
<1>. QED BY <1>0, <1>1, <1>2, <1>3
         DEF IInv, FlushFails, CreditBounded, PendingBounded, BatchClosed

\* unregisterStream() leaves the ledger alone, and stutters keep everything.
LEMMA UnregisterStreamKeeps ==
    ASSUME IInv, NEW s \in Streams, UnregisterStream(s)
    PROVE  IInv'
BY DEF IInv, TypeOK, ConnAccounted, StreamAccounted, CreditBounded, PendingBounded, BatchClosed,
       UnregisterStream, Live, serverVars, ledgerVars, wireVars

\* Every step keeps the invariant.
LEMMA NextKeeps == IInv /\ [Next]_vars => IInv'
<1>. SUFFICES ASSUME IInv, [Next]_vars
              PROVE  IInv'
  OBVIOUS
<1>1. CASE UNCHANGED vars
  BY <1>1 DEF IInv, TypeOK, ConnAccounted, StreamAccounted, CreditBounded, PendingBounded, BatchClosed,
              Live, vars, serverVars, ledgerVars, wireVars
<1>2. CASE Next
  BY <1>2, ReceiveDataKeeps, ReceiveUnknownDataKeeps, ReceiveEndKeeps, UnregisterStreamKeeps,
     FlushReaderWritesKeeps, FlushFailsKeeps DEF Next
<1>. QED BY <1>1, <1>2

\* The inductive invariant holds in every behaviour.
LEMMA Invariance == Spec => []IInv
BY InitHolds, NextKeeps, PTL DEF Spec

-----------------------------------------------------------------------------
(* The theorems                                                             *)

\* Every value keeps its type: no window, no credit and no sum of credit becomes
\* negative, and tuneConnectionWindow() never aims above CONNECTION_WINDOW_MAX.
THEOREM TypeCorrect == Spec => []TypeOK
<1>1. IInv => TypeOK
  BY DEF IInv
<1>. QED BY <1>1, Invariance, PTL

\* Credit is never invented and never forgotten, neither that of the connection nor
\* that of a stream whose body is still wanted, whatever the order of frames, batch
\* ends, failed writes and streams given up.
THEOREM CreditIsConserved == Spec => []CreditConserved
<1>1. IInv => CreditConserved
  BY DEF IInv, CreditConserved
<1>. QED BY <1>1, Invariance, PTL

\* The thresholds never starve the server: between batches it has window on the
\* connection and on every stream that is wanted, unless too much was lost.
THEOREM ThresholdsNeverStarve == Spec => []NoStall
<1>1. IInv => NoStall
  <2>. SUFFICES ASSUME IInv, ~inBatch
                PROVE  /\ leaked <= InitialConn - ConnThreshold => connWindow > 0
                       /\ \A s \in Live : unpaid[s] < InitialStream - StreamThreshold => window[s] > 0
    BY DEF NoStall
  <2>1. leaked <= InitialConn - ConnThreshold => connWindow > 0
    BY WindowAssumption DEF IInv, TypeOK, ConnAccounted, PendingBounded, BatchClosed
  <2>2. ASSUME NEW s \in Live, unpaid[s] < InitialStream - StreamThreshold
        PROVE  window[s] > 0
    <3>1. s \in Streams /\ update[s] = 0
      BY DEF Live, IInv, TypeOK, BatchClosed, Zero
    <3>2. window[s] + credit[s] + update[s] + unpaid[s] = InitialStream /\ credit[s] <= StreamThreshold
      BY <3>1 DEF IInv, StreamAccounted, CreditBounded
    <3>. QED BY <2>2, <3>1, <3>2, WindowAssumption DEF IInv, TypeOK
  <2>. QED BY <2>1, <2>2
<1>. QED BY <1>1, Invariance, PTL

-----------------------------------------------------------------------------
(* The invariant of the decoder                                            *)

\* What a call of the library has put out and what the decoder holds are on the way
\* to the response; not so any more once a collected body has been concluded.
OnTheWay == oneShot => pc # "done"

\* A sequence is the text behind its first n bytes.
Spells(s, n) == \A j \in 1 .. Len(s) : s[j] = n + j

\* The response, the output buffer and the decoder hold the text in one piece.
InOnePiece ==
    /\ Spells(taken, 0)
    /\ OnTheWay => Spells(out, Len(taken)) /\ Spells(held, Len(taken) + Len(out))

\* It is the text of all that was read, unless the decoder gave up.
UptoLast ==
    /\ Len(taken) <= Upto(Len(Units))
    /\ OnTheWay => /\ Len(taken) + Len(out) + Len(held) <= Upto(Len(Units))
                   /\ ~broken => Len(taken) + Len(out) + Len(held) = Upto(last)

\* The decoder is where the input is, or done with its only frame.
Position == IF pc = "call" \/ oneShot THEN pos ELSE sent
NoHole ==
    OnTheWay /\ result = "none" /\ ~broken =>
        last = Position \/ (last > 0 /\ Units[last].ends /\ body.format # "zstd")

\* What the decoder holds belongs to the last unit it has read.
HeldOfLast == held # <<>> => last > 0 /\ ~broken /\ Len(held) <= Units[last].out

\* A round that put nothing out has read units without text.
EmptyRound ==
    pc = "call" /\ moved /\ ~broken /\ out = <<>> /\ held = <<>> => last > 0 /\ Units[last].out = 0

\* Between the rounds of an incremental decoder.
AtRest ==
    ~oneShot /\ pc # "call" =>
        /\ out = <<>>
        /\ broken => result # "none"
        /\ body.format = "br" /\ result = "none" => held = <<>>

\* A collected body: nothing happens before its end, and all is handed out then.
Collected ==
    oneShot => /\ pc = "wait" => pos = 0 /\ last = 0 /\ ~broken /\ out = <<>> /\ held = <<>>
               /\ pc # "done" => taken = <<>> /\ result = "none"
               /\ pc = "done" /\ sent > 0 /\ result = "none" /\ OneFrame => Len(taken) = Upto(Len(Units))

\* The consumer stops a body between two rounds only.
Undecided == pc = "call" => result = "none"

\* The text is in order, for bodies whose frames each end in text.
TextInOrder == FramesEndInText => InOnePiece /\ UptoLast /\ NoHole

\* The invariant of the decoder.
DecodeIInv ==
    /\ DecodeTypeOK
    /\ Undecided
    /\ HeldOfLast
    /\ EmptyRound
    /\ AtRest
    /\ Collected
    /\ TextInOrder
-----------------------------------------------------------------------------
(* The body and its text                                                    *)

\* What DecodeAssumption says of the body that was chosen.
LEMMA BodyFacts ==
    ASSUME body \in Bodies
    PROVE  /\ body.format \in Formats /\ body.sized \in BOOLEAN
           /\ Len(Units) \in Nat /\ Len(Units) > 0
           /\ \A i \in 1 .. Len(Units) : /\ Units[i].from \in Nat
                                         /\ Units[i].out \in Nat
                                         /\ Units[i].ends \in BOOLEAN
           /\ Units[Len(Units)].ends
           /\ body.format \notin {"zstd", "gzip"} => OneFrame
           /\ body.format \in {"gzip", "zlib"} => Units[Len(Units)].out = 0
  <1>1. Units \in Seq(Unit)
    BY DecodeAssumption DEF Units
  <1>2. Len(Units) \in Nat /\ \A i \in 1 .. Len(Units) : Units[i] \in Unit
    BY <1>1
  <1>3. \A i \in 1 .. Len(Units) : /\ Units[i].from \in Nat
                                   /\ Units[i].out \in Nat
                                   /\ Units[i].ends \in BOOLEAN
    BY <1>2 DEF Unit
  <1>. QED BY <1>2, <1>3, DecodeAssumption DEF Units, OneFrame

\* Each unit adds its text to that of the units before it.
LEMMA UptoGrows ==
    ASSUME body \in Bodies
    PROVE  /\ \A i \in 0 .. Len(Units) : Upto(i) \in Nat /\ Upto(i) <= Upto(Len(Units))
           /\ \A i \in 0 .. Len(Units) - 1 : /\ Units[i + 1].from = Upto(i)
                                             /\ Upto(i + 1) = Upto(i) + Units[i + 1].out
  <1>. DEFINE N == Len(Units)
  <1>1. N \in Nat /\ N > 0 /\ \A i \in 1 .. N : Units[i].from \in Nat /\ Units[i].out \in Nat
    BY BodyFacts
  <1>2. Laid(Units)
    BY DecodeAssumption DEF Units
  <1>3. \A i \in 0 .. N : Upto(i) \in Nat /\ Upto(i) <= Upto(N)
    <2>. SUFFICES ASSUME NEW i \in 0 .. N
                  PROVE  Upto(i) \in Nat /\ Upto(i) <= Upto(N)
      OBVIOUS
    <2>1. CASE i = 0
      BY <1>1, <2>1 DEF Upto
    <2>2. CASE i \in 1 .. N - 1
      <3>1. Units[i].from + Units[i].out <= Units[N].from
        BY <1>1, <1>2, <2>2 DEF Laid
      <3>. QED BY <1>1, <2>2, <3>1 DEF Upto
    <2>3. CASE i = N
      BY <1>1, <2>3 DEF Upto
    <2>. QED BY <1>1, <2>1, <2>2, <2>3
  <1>4. \A i \in 0 .. N - 1 : Units[i + 1].from = Upto(i) /\ Upto(i + 1) = Upto(i) + Units[i + 1].out
    <2>. SUFFICES ASSUME NEW i \in 0 .. N - 1
                  PROVE  Units[i + 1].from = Upto(i) /\ Upto(i + 1) = Upto(i) + Units[i + 1].out
      OBVIOUS
    <2>1. Units[i + 1].from = Upto(i)
      <3>1. CASE i = 0
        BY <1>1, <1>2, <3>1 DEF Laid, Upto
      <3>2. CASE i \in 1 .. N - 1
        <4>1. i \in 1 .. N /\ i + 1 \in 1 .. N /\ i < i + 1 /\ i # 0
          BY <1>1, <3>2
        <4>2. Units[i].from + Units[i].out = Units[i + 1].from
          BY <1>2, <4>1 DEF Laid
        <4>. QED BY <4>1, <4>2 DEF Upto
      <3>. QED BY <1>1, <3>1, <3>2
    <2>2. i + 1 # 0
      BY <1>1
    <2>. QED BY <2>1, <2>2 DEF Upto
  <1>. QED BY <1>3, <1>4

\* The first frame ends somewhere, and so the size of a sized body is a number.
LEMMA FirstFrameEnds ==
    ASSUME body \in Bodies
    PROVE  FirstFrame \in 1 .. Len(Units)
  <1>. DEFINE S == {i \in 1 .. Len(Units) : Units[i].ends}
  <1>1. S \in SUBSET Nat /\ S # {}
    <2>1. Len(Units) \in S
      BY BodyFacts
    <2>. QED BY <2>1
  <1>2. PICK m \in S : \A y \in S : ~(<<y, m>> \in OpToRel(<, Nat))
    <2>1. IsWellFoundedOn(OpToRel(<, Nat), Nat)
      BY NatLessThanWellFounded
    <2>. QED BY <1>1, <2>1, WFMin
  <1>3. \A j \in 1 .. m - 1 : ~Units[j].ends
    <2>. SUFFICES ASSUME NEW j \in 1 .. m - 1, Units[j].ends
                  PROVE  FALSE
      OBVIOUS
    <2>1. m \in 1 .. Len(Units) /\ Len(Units) \in Nat
      BY BodyFacts
    <2>2. j \in S /\ j < m /\ j \in Nat /\ m \in Nat
      BY <2>1
    <2>. QED BY <1>2, <2>2 DEF OpToRel
  <1>. QED BY <1>3 DEF FirstFrame

\* Text that follows text is text.
LEMMA SpellsConcat ==
    ASSUME NEW s \in Seq(Nat), NEW t \in Seq(Nat), NEW n \in Nat
    PROVE  /\ s \o t \in Seq(Nat)
           /\ Len(s \o t) = Len(s) + Len(t)
           /\ Spells(s, n) /\ Spells(t, n + Len(s)) => Spells(s \o t, n)
  <1>1. /\ s \o t \in Seq(Nat)
        /\ Len(s \o t) = Len(s) + Len(t)
        /\ \A i \in 1 .. Len(s) + Len(t) : (s \o t)[i] = IF i <= Len(s) THEN s[i] ELSE t[i - Len(s)]
    BY ConcatProperties
  <1>2. ASSUME Spells(s, n), Spells(t, n + Len(s)), NEW j \in 1 .. Len(s) + Len(t)
        PROVE  (s \o t)[j] = n + j
    <2>1. Len(s) \in Nat /\ Len(t) \in Nat
      OBVIOUS
    <2>2. CASE j <= Len(s)
      BY <1>1, <1>2, <2>1, <2>2 DEF Spells
    <2>3. CASE j > Len(s)
      <3>1. j - Len(s) \in 1 .. Len(t)
        BY <2>1, <2>3
      <3>2. t[j - Len(s)] = n + Len(s) + (j - Len(s))
        BY <1>2, <3>1 DEF Spells
      <3>. QED BY <1>1, <2>1, <2>3, <3>2
    <2>. QED BY <2>1, <2>2, <2>3
  <1>. QED BY <1>1, <1>2 DEF Spells

\* Text that is cut is text on both sides of the cut.
LEMMA SpellsCut ==
    ASSUME NEW s \in Seq(Nat), NEW n \in Nat, NEW k \in 0 .. Len(s)
    PROVE  /\ SubSeq(s, 1, k) \in Seq(Nat) /\ Len(SubSeq(s, 1, k)) = k
           /\ SubSeq(s, k + 1, Len(s)) \in Seq(Nat) /\ Len(SubSeq(s, k + 1, Len(s))) = Len(s) - k
           /\ Spells(s, n) => Spells(SubSeq(s, 1, k), n) /\ Spells(SubSeq(s, k + 1, Len(s)), n + k)
  <1>1. Len(s) \in Nat
    OBVIOUS
  <1>2. /\ SubSeq(s, 1, k) \in Seq(Nat) /\ Len(SubSeq(s, 1, k)) = k
        /\ \A j \in 1 .. k : SubSeq(s, 1, k)[j] = s[j]
    BY <1>1
  <1>3. /\ SubSeq(s, k + 1, Len(s)) \in Seq(Nat) /\ Len(SubSeq(s, k + 1, Len(s))) = Len(s) - k
        /\ \A j \in 1 .. Len(s) - k : SubSeq(s, k + 1, Len(s))[j] = s[k + j]
    BY <1>1
  <1>4. ASSUME Spells(s, n), NEW j \in 1 .. Len(s) - k
        PROVE  SubSeq(s, k + 1, Len(s))[j] = n + k + j
    <2>1. k + j \in 1 .. Len(s)
      BY <1>1
    <2>. QED BY <1>1, <1>3, <1>4, <2>1 DEF Spells
  <1>. QED BY <1>1, <1>2, <1>3, <1>4 DEF Spells

\* There is nothing wrong with no text.
LEMMA SpellsNothing ==
    ASSUME NEW n
    PROVE  Spells(<<>>, n) /\ <<>> \in Seq(Nat) /\ Len(<<>>) = 0
BY DEF Spells

\* What a unit yields.
LEMMA BytesSpell ==
    ASSUME body \in Bodies, NEW i \in 1 .. Len(Units)
    PROVE  Bytes(i) \in Seq(Nat) /\ Len(Bytes(i)) = Units[i].out /\ Spells(Bytes(i), Units[i].from)
  <1>1. Units[i].from \in Nat /\ Units[i].out \in Nat
    BY BodyFacts
  <1>. QED BY <1>1 DEF Bytes, Spells

-----------------------------------------------------------------------------
(* Every step keeps the types of the decoder                                *)

\* The part of what is held that fits into the buffer.
Fits == IF Len(held) < Room THEN Len(held) ELSE Room

\* The room is a number, and what fits into it is a part of what is held.
LEMMA RoomForSome ==
    ASSUME DecodeTypeOK
    PROVE  /\ Room \in Int
           /\ Room > 0 /\ held # <<>> => Fits \in 1 .. Len(held)
  <1>1. Room \in Int
    <2>1. Len(out) \in Nat /\ size \in Nat /\ OutSize \in Nat
      BY DecodeAssumption DEF DecodeTypeOK
    <2>. QED BY <2>1 DEF Room
  <1>2. held # <<>> => Len(held) \in Nat /\ Len(held) > 0
    BY EmptySeq DEF DecodeTypeOK
  <1>. QED BY <1>1, <1>2 DEF Fits

\* The library's steps: emitting text and reading a unit.
LEMMA WorkTypes ==
    ASSUME DecodeTypeOK, Work
    PROVE  DecodeTypeOK'
  <1>1. CASE Emit
    <2>1. Fits \in 0 .. Len(held)
      BY <1>1, RoomForSome DEF Emit, Emits
    <2>2. out' = out \o SubSeq(held, 1, Fits) /\ held' = SubSeq(held, Fits + 1, Len(held))
      BY <1>1 DEF Emit, Fits
    <2>3. SubSeq(held, 1, Fits) \in Seq(Nat) /\ SubSeq(held, Fits + 1, Len(held)) \in Seq(Nat)
      BY <2>1, SpellsCut DEF DecodeTypeOK
    <2>4. out' \in Seq(Nat) /\ held' \in Seq(Nat)
      BY <2>2, <2>3, SpellsConcat DEF DecodeTypeOK
    <2>. QED BY <1>1, <2>4 DEF Emit, DecodeTypeOK, Units
  <1>2. CASE Read
    <2>1. pos \in Nat /\ sent \in Nat /\ pos < sent /\ sent <= Len(Units) /\ Len(Units) \in Nat
      BY <1>2, BodyFacts DEF Read, Reads, DecodeTypeOK
    <2>2. pos + 1 \in 1 .. Len(Units) /\ pos + 1 \in 0 .. sent
      BY <2>1
    <2>3. Bytes(pos + 1) \in Seq(Nat) /\ <<>> \in Seq(Nat)
      BY <2>2, BytesSpell, SpellsNothing DEF DecodeTypeOK
    <2>4. held' \in Seq(Nat)
      BY <1>2, <2>3 DEF Read
    <2>5. broken' \in BOOLEAN
      BY <1>2 DEF Read, Garbled
    <2>6. pos' \in 0 .. sent /\ last' \in 0 .. pos' /\ moved' \in BOOLEAN
      BY <1>2, <2>2 DEF Read
    <2>. QED BY <1>2, <2>4, <2>5, <2>6 DEF Read, DecodeTypeOK, Units
  <1>. QED BY <1>1, <1>2 DEF Work

\* The start of a one-shot decoder.
LEMMA StartTypes ==
    ASSUME DecodeTypeOK, NEW w \in {"none", "raw", "wrapped"}, StartOneShot(w)
    PROVE  DecodeTypeOK'
  <1>1. Upto(FirstFrame) \in Nat
    BY FirstFrameEnds, UptoGrows DEF DecodeTypeOK
  <1>2. size' \in Nat
    BY <1>1, DecodeAssumption DEF StartOneShot
  <1>3. <<>> \in Seq(Nat) /\ 0 \in 0 .. sent /\ 0 \in 0 .. 0
    BY DEF DecodeTypeOK
  <1>. QED BY <1>2, <1>3 DEF StartOneShot, DecodeTypeOK, Units

\* The end of a one-shot decoder.
LEMMA ConcludeTypes ==
    ASSUME DecodeTypeOK, NEW success \in BOOLEAN, Conclude(success)
    PROVE  DecodeTypeOK'
  <1>1. <<>> \in Seq(Nat)
    OBVIOUS
  <1>2. taken' \in Seq(Nat) /\ result' \in {"none", "aborted", "failed"} /\ pc' = "done"
    BY <1>1 DEF Conclude, DecodeTypeOK
  <1>. QED BY <1>2 DEF Conclude, DecodeTypeOK, Units

\* Another round of a one-shot decoder.
LEMMA AgainTypes ==
    ASSUME DecodeTypeOK, NEW grows \in BOOLEAN, Again(grows)
    PROVE  DecodeTypeOK'
  <1>1. size' = IF grows THEN 2 * size ELSE size
    BY DEF Again
  <1>2. size \in Nat
    BY DEF DecodeTypeOK
  <1>3. size' \in Nat
    BY <1>1, <1>2
  <1>4. moved' \in BOOLEAN
    BY DEF Again
  <1>. QED BY <1>3, <1>4 DEF Again, DecodeTypeOK, Units

\* What the one-shot decoders do: start anew with a wrapped window, conclude, with
\* success only at the end of a frame, or go on.
OneShotStep ==
    \/ Deflated /\ StartOneShot("wrapped")
    \/ Conclude(FALSE)
    \/ Status = "end" /\ Conclude(TRUE)
    \/ (\E grows \in BOOLEAN : Again(grows))

\* A step of a decoder is a round of feeding, or one of those.
LEMMA DecodeCases ==
    ASSUME Decode
    PROVE  \/ \E aborts \in BOOLEAN : Feed(aborts)
           \/ pc = "call" /\ oneShot /\ OneShotStep
  <1>1. ASSUME DecompressZlib
        PROVE  pc = "call" /\ oneShot /\ OneShotStep
    BY <1>1 DEF DecompressZlib, Returns, OneShotStep
  <1>2. ASSUME DecompressBrotli
        PROVE  pc = "call" /\ oneShot /\ OneShotStep
    <2>1. CASE Status = "end"
      <3>1. (Status = "end") = TRUE
        BY <2>1
      <3>. QED BY <1>2, <2>1, <3>1 DEF DecompressBrotli, Returns, OneShotStep
    <2>2. CASE Status # "end"
      <3>1. (Status = "end") = FALSE
        BY <2>2
      <3>. QED BY <1>2, <2>2, <3>1 DEF DecompressBrotli, Returns, OneShotStep
    <2>. QED BY <2>1, <2>2
  <1>3. ASSUME DecompressZstd
        PROVE  pc = "call" /\ oneShot /\ OneShotStep
    <2>1. (Room = 0) \in BOOLEAN
      OBVIOUS
    <2>. QED BY <1>3, <2>1 DEF DecompressZstd, Returns, OneShotStep
  <1>4. ASSUME DecompressZstdSized
        PROVE  pc = "call" /\ oneShot /\ OneShotStep
    BY <1>4 DEF DecompressZstdSized, Returns, OneShotStep
  <1>5. ASSUME AllocationFails
        PROVE  pc = "call" /\ oneShot /\ OneShotStep
    BY <1>5 DEF AllocationFails, OneShotStep
  <1>. QED BY <1>1, <1>2, <1>3, <1>4, <1>5 DEF Decode

\* What a round of feeding does.
LEMMA FeedFacts ==
    ASSUME NEW aborts \in BOOLEAN, Feed(aborts)
    PROVE  /\ Returns /\ ~oneShot
           /\ taken' = taken \o out /\ out' = <<>> /\ moved' = FALSE
           /\ result' \in {"none", "aborted", "failed"}
           /\ result' = "none" => Status # "error"
           /\ pc' \in {"call", "wait"}
           /\ pc' = "call" => result' = "none"
           /\ pc' = "wait" /\ result' = "none" => ~GoesOn
           /\ UNCHANGED <<body, oneShot, sent, wbits, pos, last, broken, held, size, raw>>
  <1>1. /\ Returns /\ ~oneShot
        /\ taken' = taken \o out /\ out' = <<>> /\ moved' = FALSE
        /\ result' = IF aborts THEN "aborted" ELSE IF Status = "error" THEN "failed" ELSE "none"
        /\ pc' = IF result' = "none" /\ GoesOn THEN "call" ELSE "wait"
        /\ UNCHANGED <<body, oneShot, sent, wbits, pos, last, broken, held, size, raw>>
    BY Zenon DEF Feed
  <1>2. result' \in {"none", "aborted", "failed"} /\ (result' = "none" => Status # "error")
    BY <1>1
  <1>3. /\ pc' \in {"call", "wait"} /\ (pc' = "call" => result' = "none")
        /\ pc' = "wait" /\ result' = "none" => ~GoesOn
    BY <1>1
  <1>. QED BY <1>1, <1>2, <1>3

\* The decoders' steps.
LEMMA DecodeTypes ==
    ASSUME DecodeTypeOK, Decode
    PROVE  DecodeTypeOK'
  <1>1. ASSUME NEW aborts \in BOOLEAN, Feed(aborts)
        PROVE  DecodeTypeOK'
    <2>1. taken' \in Seq(Nat)
      BY <1>1, FeedFacts, SpellsConcat DEF DecodeTypeOK
    <2>2. out' \in Seq(Nat)
      <3>1. <<>> \in Seq(Nat)
        OBVIOUS
      <3>. QED BY <1>1, <3>1, FeedFacts
    <2>3. moved' \in BOOLEAN /\ result' \in {"none", "aborted", "failed", "refused"} /\ pc' \in {"wait", "call", "done"}
      BY <1>1, FeedFacts, Zenon
    <2>4. UNCHANGED <<body, oneShot, sent, wbits, pos, last, broken, held, size, raw>>
      BY <1>1, FeedFacts
    <2>. QED BY <2>1, <2>2, <2>3, <2>4 DEF DecodeTypeOK, Units
  <1>2. ASSUME OneShotStep
        PROVE  DecodeTypeOK'
    BY <1>2, StartTypes, ConcludeTypes, AgainTypes DEF OneShotStep
  <1>. QED BY <1>1, <1>2, DecodeCases

\* What arrives from the network.
LEMMA NetworkTypes ==
    ASSUME DecodeTypeOK, Network
    PROVE  DecodeTypeOK'
  <1>1. ASSUME NEW k \in 1 .. Len(Units), ReceiveChunk(k)
        PROVE  DecodeTypeOK'
    <2>1. Len(Units) \in Nat /\ sent \in Nat /\ k \in Nat /\ sent + k <= Len(Units)
      BY <1>1, BodyFacts DEF ReceiveChunk, DecodeTypeOK
    <2>2. sent' \in 0 .. Len(Units) /\ sent' = sent + k
      BY <1>1, <2>1 DEF ReceiveChunk
    <2>3. pos' \in 0 .. sent' /\ last' \in 0 .. pos'
      <3>1. pos' \in {pos, sent} /\ last' = last
        BY <1>1 DEF ReceiveChunk
      <3>. QED BY <2>1, <2>2, <3>1 DEF DecodeTypeOK
    <2>4. wbits' \in {"none", "raw", "wrapped"} /\ pc' \in {"wait", "call"} /\ moved' \in BOOLEAN
      BY <1>1 DEF ReceiveChunk, DeflateWindow, DecodeTypeOK
    <2>5. out' \in Seq(Nat)
      <3>1. <<>> \in Seq(Nat)
        OBVIOUS
      <3>. QED BY <1>1, <3>1 DEF ReceiveChunk, DecodeTypeOK
    <2>. QED BY <1>1, <2>2, <2>3, <2>4, <2>5 DEF ReceiveChunk, DecodeTypeOK, Units
  <1>2. ASSUME NEW k \in 1 .. Len(Units), NEW aborts \in BOOLEAN, PassThrough(k, aborts)
        PROVE  DecodeTypeOK'
    <2>1. Len(Units) \in Nat /\ sent \in Nat /\ k \in Nat /\ raw \in Nat /\ sent + k <= Len(Units)
      BY <1>2, BodyFacts DEF PassThrough, DecodeTypeOK
    <2>2. sent' \in 0 .. Len(Units) /\ sent' = sent + k /\ raw' \in Nat
      BY <1>2, <2>1 DEF PassThrough
    <2>3. pos \in 0 .. sent'
      BY <2>1, <2>2 DEF DecodeTypeOK
    <2>4. result' \in {"none", "aborted", "failed", "refused"}
      BY <1>2 DEF PassThrough
    <2>. QED BY <1>2, <2>2, <2>3, <2>4 DEF PassThrough, DecodeTypeOK, Units
  <1>3. ASSUME EndStream
        PROVE  DecodeTypeOK'
    <2>1. CASE oneShot /\ sent > 0
      BY <1>3, <2>1, StartTypes DEF EndStream
    <2>2. CASE ~(oneShot /\ sent > 0)
      BY <1>3, <2>2 DEF EndStream, DecodeTypeOK, Units
    <2>. QED BY <2>1, <2>2
  <1>4. ASSUME BuildStreamDecompressorFails
        PROVE  DecodeTypeOK'
    BY <1>4 DEF BuildStreamDecompressorFails, DecodeTypeOK, Units
  <1>. QED BY <1>1, <1>2, <1>3, <1>4 DEF Network

\* Every step.
LEMMA DecodeNextTypes ==
    ASSUME DecodeTypeOK, [DecodeNext]_decodeVars
    PROVE  DecodeTypeOK'
  <1>1. ASSUME UNCHANGED decodeVars
        PROVE  DecodeTypeOK'
    BY <1>1 DEF decodeVars, DecodeTypeOK, Units
  <1>. QED BY <1>1, WorkTypes, DecodeTypes, NetworkTypes DEF DecodeNext, Decoded

-----------------------------------------------------------------------------
(* Every step keeps the text in order                                       *)

\* The status of a call: it is the end where a frame has ended, the decoder is not
\* broken unless it is an error, and there is nothing left unless it says so.
LEMMA StatusFacts ==
    /\ Status = "end" => ~broken /\ FrameEnded
    /\ Status # "error" => ~broken
    /\ Status \notin {"error", "end", "more output"} => held = <<>>
BY DEF Status

\* Nothing about the body changes.
LEMMA SameBody ==
    ASSUME body' = body
    PROVE  /\ Units' = Units
           /\ FramesEndInText' <=> FramesEndInText
           /\ OneFrame' <=> OneFrame
           /\ last' = last => Upto(last)' = Upto(last)
           /\ Upto(Len(Units))' = Upto(Len(Units))
BY DEF Units, FramesEndInText, OneFrame, Upto

\* A step that changes none of the decoder's state but rounds and sizes.
LEMMA AgainKeeps ==
    ASSUME DecodeIInv, NEW grows \in BOOLEAN, Again(grows), oneShot, pc = "call"
    PROVE  DecodeIInv'
  <1>1. DecodeTypeOK'
    BY AgainTypes DEF DecodeIInv
  <1>2. /\ UNCHANGED <<body, oneShot, sent, pc, wbits, pos, last, broken, held, out, taken, raw, result>>
        /\ moved' = FALSE
    BY DEF Again
  <1>3. Undecided' /\ HeldOfLast' /\ EmptyRound' /\ AtRest' /\ Collected'
    BY <1>2, SameBody
       DEF DecodeIInv, Undecided, HeldOfLast, EmptyRound, AtRest, Collected
  <1>4. TextInOrder'
    BY <1>2, SameBody
       DEF DecodeIInv, TextInOrder, InOnePiece, UptoLast, NoHole, OnTheWay, Position, Spells
  <1>. QED BY <1>1, <1>3, <1>4 DEF DecodeIInv

\* No text at all is in order.
LEMMA FreshKeeps ==
    ASSUME DecodeTypeOK', body' = body, last' = 0, pos' = 0, broken' = FALSE,
           held' = <<>>, out' = <<>>, taken' = <<>>, oneShot', pc' = "call"
    PROVE  TextInOrder'
  <1>1. Upto(last)' = 0
    BY DEF Upto
  <1>2. Upto(Len(Units))' \in Nat
    <2>1. Upto(Len(Units)) \in Nat /\ body \in Bodies
      BY BodyFacts, UptoGrows DEF DecodeTypeOK
    <2>. QED BY <2>1, SameBody
  <1>. QED BY <1>1, <1>2, SpellsNothing
           DEF TextInOrder, InOnePiece, UptoLast, NoHole, OnTheWay, Position, Spells

\* A one-shot decoder starts from nothing.
LEMMA StartKeeps ==
    ASSUME DecodeIInv, NEW w \in {"none", "raw", "wrapped"}, StartOneShot(w), oneShot, pc # "done"
    PROVE  DecodeIInv'
  <1>1. DecodeTypeOK'
    BY StartTypes DEF DecodeIInv
  <1>2. taken = <<>> /\ result = "none"
    BY DEF DecodeIInv, Collected
  <1>3. /\ body' = body /\ last' = 0 /\ pos' = 0 /\ broken' = FALSE /\ moved' = FALSE
        /\ held' = <<>> /\ out' = <<>> /\ taken' = <<>> /\ oneShot' = oneShot /\ pc' = "call"
        /\ result' = "none"
    BY <1>2 DEF StartOneShot
  <1>4. Undecided' /\ HeldOfLast' /\ EmptyRound' /\ AtRest' /\ Collected'
    BY <1>3 DEF Undecided, HeldOfLast, EmptyRound, AtRest, Collected
  <1>5. TextInOrder'
    BY <1>1, <1>3, FreshKeeps
  <1>. QED BY <1>1, <1>4, <1>5 DEF DecodeIInv

\* The end of a frame of a body with one frame is the end of its text.
LEMMA FrameEndIsEnd ==
    ASSUME DecodeIInv, FrameEnded, OneFrame
    PROVE  last = Len(Units)
  <1>1. last \in 1 .. Len(Units) /\ Units[last].ends /\ Len(Units) \in Nat
    BY BodyFacts DEF DecodeIInv, DecodeTypeOK, FrameEnded
  <1>2. last \notin 1 .. Len(Units) - 1
    BY <1>1 DEF OneFrame
  <1>. QED BY <1>1, <1>2

\* A body of one frame has no frame that another follows.
LEMMA OneFrameEndsInText ==
    OneFrame => FramesEndInText
BY DEF OneFrame, FramesEndInText

\* A one-shot decoder hands out what it has put out, and all of the text when it has
\* come to the end, or nothing.
LEMMA ConcludeKeeps ==
    ASSUME DecodeIInv, NEW success \in BOOLEAN, Conclude(success), oneShot, pc = "call",
           success => Status = "end"
    PROVE  DecodeIInv'
  <1>1. DecodeTypeOK'
    BY ConcludeTypes DEF DecodeIInv
  <1>2. /\ UNCHANGED <<body, oneShot, sent, wbits, pos, last, broken, held, out, moved, size, raw>>
        /\ pc' = "done" /\ taken = <<>>
    BY DEF Conclude, DecodeIInv, Collected
  <1>3. body \in Bodies /\ out \in Seq(Nat) /\ Len(out) \in Nat /\ Len(held) \in Nat
    BY DEF DecodeIInv, DecodeTypeOK
  <1>4. CASE success
    <2>1. taken' = out /\ result' = "none" /\ ~broken /\ FrameEnded
      BY <1>4, StatusFacts DEF Conclude
    <2>2. held = <<>> /\ Len(held) = 0 /\ Len(taken) = 0
      BY <1>2, <2>1, SpellsNothing DEF FrameEnded
    <2>3. FramesEndInText => /\ Spells(out, 0)
                             /\ Len(out) <= Upto(Len(Units))
                             /\ Len(out) = Upto(last)
      <3>1. FramesEndInText => /\ Spells(out, Len(taken))
                               /\ Len(taken) + Len(out) + Len(held) <= Upto(Len(Units))
                               /\ Len(taken) + Len(out) + Len(held) = Upto(last)
        BY <2>1 DEF DecodeIInv, TextInOrder, InOnePiece, UptoLast, OnTheWay
      <3>. QED BY <1>3, <2>2, <3>1
    <2>4. OneFrame => Len(out) = Upto(Len(Units))
      BY <2>1, <2>3, FrameEndIsEnd, OneFrameEndsInText
    <2>5. Collected'
      BY <1>2, <2>1, <2>4, SameBody DEF Collected
    <2>6. TextInOrder'
      BY <1>2, <2>1, <2>3, SameBody DEF TextInOrder, InOnePiece, UptoLast, NoHole, OnTheWay, Spells
    <2>7. Undecided' /\ HeldOfLast' /\ EmptyRound' /\ AtRest'
      BY <1>2, SameBody DEF DecodeIInv, Undecided, HeldOfLast, EmptyRound, AtRest
    <2>. QED BY <1>1, <2>5, <2>6, <2>7 DEF DecodeIInv
  <1>5. CASE ~success
    <2>1. taken' = <<>> /\ result' = "failed"
      BY <1>5 DEF Conclude
    <2>2. Upto(Len(Units)) \in Nat
      BY <1>3, BodyFacts, UptoGrows
    <2>3. TextInOrder'
      BY <1>2, <2>1, <2>2, SameBody, SpellsNothing
         DEF TextInOrder, InOnePiece, UptoLast, NoHole, OnTheWay, Spells
    <2>4. Undecided' /\ HeldOfLast' /\ EmptyRound' /\ AtRest' /\ Collected'
      BY <1>2, <2>1, SameBody DEF DecodeIInv, Undecided, HeldOfLast, EmptyRound, AtRest, Collected
    <2>. QED BY <1>1, <2>3, <2>4 DEF DecodeIInv
  <1>. QED BY <1>4, <1>5

\* Emitting moves text from what is held to the end of what is put out.
LEMMA EmitKeeps ==
    ASSUME DecodeIInv, Emit
    PROVE  DecodeIInv'
  <1>. DEFINE A == SubSeq(held, 1, Fits)
              B == SubSeq(held, Fits + 1, Len(held))
  <1>1. DecodeTypeOK'
    BY WorkTypes DEF DecodeIInv, Work
  <1>2. /\ UNCHANGED <<body, oneShot, sent, pc, wbits, pos, last, broken, size, taken, raw, result>>
        /\ out' = out \o A /\ held' = B /\ moved' = TRUE
        /\ pc = "call" /\ held # <<>> /\ Room > 0 /\ ~broken
    BY DEF Emit, Emits, Fits
  <1>3. DecodeTypeOK /\ body \in Bodies
    BY DEF DecodeIInv, DecodeTypeOK
  <1>4. out \in Seq(Nat) /\ held \in Seq(Nat) /\ Len(out) \in Nat /\ Len(held) \in Nat /\ Len(taken) \in Nat
    BY <1>3 DEF DecodeTypeOK
  <1>5. Fits \in 1 .. Len(held) /\ Fits \in Nat
    BY <1>2, <1>3, <1>4, RoomForSome
  <1>6. /\ A \in Seq(Nat) /\ Len(A) = Fits /\ B \in Seq(Nat) /\ Len(B) = Len(held) - Fits
        /\ \A n \in Nat : Spells(held, n) => Spells(A, n) /\ Spells(B, n + Fits)
    BY <1>4, <1>5, SpellsCut
  <1>. HIDE DEF A, B
  <1>7. /\ Len(out') = Len(out) + Fits
        /\ \A n \in Nat : Spells(out, n) /\ Spells(A, n + Len(out)) => Spells(out', n)
    BY <1>2, <1>4, <1>6, SpellsConcat
  <1>8. out' # <<>>
    BY <1>4, <1>5, <1>7, SpellsNothing
  <1>9. last > 0 /\ Len(held) <= Units[last].out /\ last \in 1 .. Len(Units) /\ Units[last].out \in Nat
    BY <1>2, <1>3, BodyFacts DEF DecodeIInv, HeldOfLast, DecodeTypeOK
  <1>10. HeldOfLast'
    <2>1. Len(held') <= Units[last].out
      BY <1>2, <1>4, <1>5, <1>6, <1>9
    <2>. QED BY <1>2, <1>9, <2>1, SameBody DEF HeldOfLast
  <1>11. Undecided' /\ EmptyRound' /\ AtRest' /\ Collected'
    BY <1>2, <1>8, SameBody DEF DecodeIInv, Undecided, EmptyRound, AtRest, Collected
  <1>12. ASSUME FramesEndInText
         PROVE  InOnePiece' /\ UptoLast' /\ NoHole'
    <2>1. InOnePiece /\ UptoLast /\ NoHole
      BY <1>12 DEF DecodeIInv, TextInOrder
    <2>2. OnTheWay /\ OnTheWay'
      BY <1>2 DEF OnTheWay
    <2>3. InOnePiece'
      <3>1. Spells(taken, 0) /\ Spells(out, Len(taken)) /\ Spells(held, Len(taken) + Len(out))
        BY <2>1, <2>2 DEF InOnePiece
      <3>2. Spells(A, Len(taken) + Len(out)) /\ Spells(B, Len(taken) + Len(out) + Fits)
        BY <1>4, <1>6, <3>1
      <3>3. Spells(out', Len(taken))
        BY <1>4, <1>7, <3>1, <3>2
      <3>4. Len(taken) + Len(out') = Len(taken) + Len(out) + Fits
        BY <1>4, <1>5, <1>7
      <3>5. Spells(held', Len(taken) + Len(out'))
        BY <1>2, <3>2, <3>4
      <3>. QED BY <1>2, <3>1, <3>3, <3>5 DEF InOnePiece, Spells
    <2>4. UptoLast'
      <3>1. Len(taken) + Len(out') + Len(held') = Len(taken) + Len(out) + Len(held)
        BY <1>2, <1>4, <1>5, <1>6, <1>7
      <3>. QED BY <1>2, <2>1, <2>2, <3>1, SameBody DEF UptoLast
    <2>5. NoHole'
      BY <1>2, <2>1, <2>2, SameBody DEF NoHole, Position
    <2>. QED BY <2>3, <2>4, <2>5
  <1>13. TextInOrder'
    BY <1>2, <1>12, SameBody DEF TextInOrder
  <1>. QED BY <1>1, <1>10, <1>11, <1>13 DEF DecodeIInv

\* A unit is read where the text of the one before it ends.
LEMMA ReadKeeps ==
    ASSUME DecodeIInv, Read
    PROVE  DecodeIInv'
  <1>1. DecodeTypeOK'
    BY WorkTypes DEF DecodeIInv, Work
  <1>2. /\ UNCHANGED <<body, oneShot, sent, pc, wbits, out, size, taken, raw, result>>
        /\ pos' = pos + 1 /\ last' = pos + 1 /\ moved' = TRUE
        /\ broken' = Garbled(pos + 1)
        /\ held' = IF Garbled(pos + 1) THEN <<>> ELSE Bytes(pos + 1)
        /\ pc = "call" /\ held = <<>> /\ pos < sent /\ ~FrameEnded /\ ~broken
    BY DEF Read, Reads
  <1>3. DecodeTypeOK /\ body \in Bodies /\ Len(out) \in Nat /\ Len(taken) \in Nat
    BY DEF DecodeIInv, DecodeTypeOK
  <1>4. /\ Len(Units) \in Nat /\ pos \in Nat /\ pos + 1 \in 1 .. Len(Units) /\ pos \in 0 .. Len(Units) - 1
        /\ pos + 1 > 0 /\ last \in 0 .. pos
    BY <1>2, <1>3, BodyFacts DEF DecodeTypeOK
  <1>5. Units[pos + 1].out \in Nat /\ Units[pos + 1].from \in Nat
    BY <1>3, <1>4, BodyFacts
  <1>6. Bytes(pos + 1) \in Seq(Nat) /\ Len(Bytes(pos + 1)) = Units[pos + 1].out
          /\ Spells(Bytes(pos + 1), Units[pos + 1].from)
    BY <1>3, <1>4, BytesSpell
  <1>7. HeldOfLast'
    <2>1. CASE Garbled(pos + 1)
      BY <1>2, <2>1 DEF HeldOfLast
    <2>2. CASE ~Garbled(pos + 1)
      BY <1>2, <1>4, <1>5, <1>6, <2>2, SameBody DEF HeldOfLast
    <2>. QED BY <2>1, <2>2
  <1>8. EmptyRound'
    <2>1. CASE Garbled(pos + 1)
      BY <1>2, <2>1 DEF EmptyRound
    <2>2. CASE ~Garbled(pos + 1)
      <3>1. held' = <<>> => Units[pos + 1].out = 0
        BY <1>2, <1>6, <2>2, SpellsNothing
      <3>. QED BY <1>2, <1>4, <3>1, SameBody DEF EmptyRound
    <2>. QED BY <2>1, <2>2
  <1>9. Undecided' /\ AtRest' /\ Collected'
    BY <1>2, SameBody DEF DecodeIInv, Undecided, AtRest, Collected
  <1>10. ASSUME FramesEndInText
         PROVE  InOnePiece' /\ UptoLast' /\ NoHole'
    <2>1. InOnePiece /\ UptoLast /\ NoHole /\ result = "none"
      BY <1>2, <1>10 DEF DecodeIInv, TextInOrder, Undecided
    <2>2. OnTheWay /\ OnTheWay'
      BY <1>2 DEF OnTheWay
    <2>3. last = pos
      <3>1. last = pos \/ (last > 0 /\ Units[last].ends /\ body.format # "zstd")
        BY <1>2, <2>1, <2>2 DEF NoHole, Position
      <3>. QED BY <1>2, <3>1 DEF FrameEnded
    <2>4. /\ Upto(pos) \in Nat /\ Upto(pos) <= Upto(Len(Units)) /\ Upto(Len(Units)) \in Nat
          /\ Units[pos + 1].from = Upto(pos) /\ Upto(pos + 1) = Upto(pos) + Units[pos + 1].out
          /\ Upto(pos + 1) <= Upto(Len(Units))
      BY <1>3, <1>4, UptoGrows
    <2>5. Len(held) = 0 /\ Len(taken) + Len(out) = Upto(pos)
      <3>1. Len(held) = 0
        BY <1>2, SpellsNothing
      <3>2. Len(taken) + Len(out) + Len(held) = Upto(last)
        BY <1>2, <2>1, <2>2 DEF UptoLast
      <3>. QED BY <1>3, <2>3, <3>1, <3>2
    <2>6. Spells(held', Len(taken) + Len(out)) /\ Len(taken) + Len(out) + Len(held') <= Upto(Len(Units))
          /\ (~broken' => Len(taken) + Len(out) + Len(held') = Upto(pos + 1))
      <3>1. CASE Garbled(pos + 1)
        <4>1. held' = <<>> /\ broken' /\ Len(held') = 0
          BY <1>2, <3>1, SpellsNothing
        <4>. QED BY <2>4, <2>5, <4>1, SpellsNothing
      <3>2. CASE ~Garbled(pos + 1)
        <4>1. held' = Bytes(pos + 1)
          BY <1>2, <3>2
        <4>. QED BY <1>5, <1>6, <2>4, <2>5, <4>1
      <3>. QED BY <3>1, <3>2
    <2>7. Upto(last)' = Upto(pos + 1)
      BY <1>2 DEF Upto, Units
    <2>8. InOnePiece'
      BY <1>2, <2>1, <2>2, <2>6 DEF InOnePiece, Spells
    <2>9. UptoLast'
      BY <1>2, <2>1, <2>2, <2>6, <2>7, SameBody DEF UptoLast
    <2>10. NoHole'
      BY <1>2 DEF NoHole, Position
    <2>. QED BY <2>8, <2>9, <2>10
  <1>11. TextInOrder'
    BY <1>2, <1>10, SameBody DEF TextInOrder
  <1>. QED BY <1>1, <1>7, <1>8, <1>9, <1>11 DEF DecodeIInv

\* A round of feeding hands over what was put out.  When no other follows, all that
\* has arrived has been read: a zstd decoder that put nothing out stops early only
\* at the end of a frame without text, which is the end of the body.
LEMMA FeedKeeps ==
    ASSUME DecodeIInv, NEW aborts \in BOOLEAN, Feed(aborts)
    PROVE  DecodeIInv'
  <1>1. DecodeTypeOK'
    <2>1. DecodeTypeOK /\ Decode
      BY DEF DecodeIInv, Decode
    <2>. QED BY <2>1, DecodeTypes
  <1>2. /\ pc = "call" /\ ~Emits /\ ~Reads /\ ~oneShot
        /\ taken' = taken \o out /\ out' = <<>> /\ moved' = FALSE
        /\ result' = "none" => Status # "error"
        /\ pc' \in {"call", "wait"}
        /\ pc' = "call" => result' = "none"
        /\ pc' = "wait" /\ result' = "none" => ~GoesOn
        /\ UNCHANGED <<body, oneShot, sent, wbits, pos, last, broken, held, size, raw>>
    BY FeedFacts DEF Returns
  <1>3. DecodeTypeOK /\ body \in Bodies /\ result = "none"
    BY <1>2 DEF DecodeIInv, DecodeTypeOK, Undecided
  <1>4. /\ out \in Seq(Nat) /\ held \in Seq(Nat) /\ taken \in Seq(Nat)
        /\ Len(out) \in Nat /\ Len(held) \in Nat /\ Len(taken) \in Nat /\ Len(out') = 0
    BY <1>2, <1>3 DEF DecodeTypeOK
  <1>5. Undecided' /\ HeldOfLast' /\ EmptyRound' /\ Collected'
    BY <1>2, SameBody DEF DecodeIInv, Undecided, HeldOfLast, EmptyRound, Collected
  <1>6. AtRest'
    <2>1. ASSUME pc' = "wait", result' = "none", body.format = "br"
          PROVE  held = <<>>
      <3>1. ~BrotliGoesOn /\ Status # "error"
        BY <1>2, <2>1 DEF GoesOn
      <3>2. Status = "end" \/ Status # "more output"
        BY <3>1 DEF BrotliGoesOn
      <3>3. CASE Status = "end"
        BY <3>3, StatusFacts DEF FrameEnded
      <3>4. CASE Status # "end"
        BY <3>1, <3>2, <3>4, StatusFacts
      <3>. QED BY <3>3, <3>4
    <2>2. broken => result' # "none"
      BY <1>2, StatusFacts
    <2>. QED BY <1>2, <2>1, <2>2 DEF AtRest
  <1>7. ASSUME FramesEndInText
        PROVE  InOnePiece' /\ UptoLast' /\ NoHole'
    <2>1. InOnePiece /\ UptoLast /\ NoHole
      BY <1>7 DEF DecodeIInv, TextInOrder
    <2>2. OnTheWay /\ OnTheWay'
      BY <1>2 DEF OnTheWay
    <2>3. Len(taken') = Len(taken) + Len(out)
      BY <1>2, <1>4, SpellsConcat
    <2>4. InOnePiece'
      <3>1. Spells(taken, 0) /\ Spells(out, Len(taken)) /\ Spells(held, Len(taken) + Len(out))
        BY <2>1, <2>2 DEF InOnePiece
      <3>2. 0 + Len(taken) = Len(taken)
        BY <1>4
      <3>3. Spells(taken', 0)
        BY <1>2, <1>4, <3>1, <3>2, SpellsConcat
      <3>4. Spells(out', Len(taken'))
        BY <1>2, SpellsNothing
      <3>5. Len(taken') + Len(out') = Len(taken) + Len(out)
        BY <1>4, <2>3
      <3>6. Spells(held', Len(taken') + Len(out'))
        BY <1>2, <3>1, <3>5
      <3>. QED BY <3>3, <3>4, <3>6 DEF InOnePiece, Spells
    <2>5. UptoLast'
      <3>1. /\ Len(taken) + Len(out) + Len(held) <= Upto(Len(Units))
            /\ ~broken => Len(taken) + Len(out) + Len(held) = Upto(last)
        BY <2>1, <2>2 DEF UptoLast
      <3>2. Upto(Len(Units)) \in Nat
        BY <1>3, BodyFacts, UptoGrows
      <3>3. Len(taken') + Len(out') + Len(held') = Len(taken) + Len(out) + Len(held)
        BY <1>2, <1>4, <2>3
      <3>4. Len(taken') <= Upto(Len(Units))
        BY <1>4, <2>3, <3>1, <3>2
      <3>. QED BY <1>2, <3>1, <3>3, <3>4, SameBody DEF UptoLast
    <2>6. NoHole'
      <3>1. ASSUME ~broken, result' = "none"
            PROVE  last = Position' \/ (last > 0 /\ Units[last].ends /\ body.format # "zstd")
        <4>1. last = pos \/ (last > 0 /\ Units[last].ends /\ body.format # "zstd")
          BY <1>2, <1>3, <2>1, <2>2, <3>1 DEF NoHole, Position
        <4>2. CASE pc' = "call"
          BY <1>2, <4>1, <4>2 DEF Position
        <4>3. CASE pc' = "wait"
          <5>1. ~GoesOn /\ Position' = sent /\ pos \in 0 .. sent /\ sent \in 0 .. Len(Units)
            BY <1>2, <1>3, <3>1, <4>3 DEF Position, DecodeTypeOK
          <5>2. sent \in Nat /\ pos \in Nat /\ pos <= sent /\ sent <= Len(Units) /\ Len(Units) \in Nat
            BY <1>3, <5>1, BodyFacts
          <5>3. CASE body.format = "zstd"
            <6>1. out = <<>> \/ ~(pos < sent)
              BY <5>1, <5>3 DEF GoesOn, ZstdGoesOn
            <6>2. CASE ~(pos < sent)
              BY <4>1, <5>1, <5>2, <5>3, <6>2
            <6>3. CASE pos < sent /\ out = <<>>
              <7>1. Room > 0
                <8>1. Room = OutSize - Len(out) /\ Len(out) = 0
                  BY <1>2, <6>3, SpellsNothing DEF Room
                <8>. QED BY <8>1, DecodeAssumption
              <7>2. held = <<>> /\ FrameEnded
                BY <1>2, <3>1, <6>3, <7>1 DEF Emits, Reads
              <7>3. moved /\ last > 0 /\ Units[last].ends
                BY <5>3, <7>2 DEF FrameEnded
              <7>4. Units[last].out = 0
                BY <1>2, <3>1, <6>3, <7>2, <7>3 DEF DecodeIInv, EmptyRound
              <7>5. last \in 1 .. Len(Units) /\ last <= pos
                BY <1>3, <5>2, <7>3 DEF DecodeTypeOK
              <7>6. last \notin 1 .. Len(Units) - 1
                BY <1>7, <5>3, <7>3, <7>4 DEF FramesEndInText
              <7>. QED BY <5>2, <6>3, <7>5, <7>6
            <6>. QED BY <6>1, <6>2, <6>3
          <5>4. CASE body.format # "zstd"
            <6>1. CASE Status = "end"
              BY <5>4, <6>1, StatusFacts DEF FrameEnded
            <6>2. CASE Status # "end"
              <7>1. ~(pos < sent)
                BY <5>1, <5>4, <6>2 DEF GoesOn, BrotliGoesOn, ZlibGoesOn
              <7>. QED BY <4>1, <5>1, <5>2, <7>1
            <6>. QED BY <6>1, <6>2
          <5>. QED BY <5>3, <5>4
        <4>. QED BY <1>2, <4>2, <4>3
      <3>. QED BY <1>2, <3>1, SameBody DEF NoHole
    <2>. QED BY <2>4, <2>5, <2>6
  <1>8. TextInOrder'
    BY <1>2, <1>7, SameBody DEF TextInOrder
  <1>. QED BY <1>1, <1>5, <1>6, <1>8 DEF DecodeIInv

\* A chunk arrives: it is collected, or it is the decoder's next input.
LEMMA ReceiveKeeps ==
    ASSUME DecodeIInv, NEW k \in 1 .. Len(Units), ReceiveChunk(k)
    PROVE  DecodeIInv'
  <1>1. DecodeTypeOK'
    <2>1. DecodeTypeOK /\ Network
      BY DEF DecodeIInv, Network
    <2>. QED BY <2>1, NetworkTypes
  <1>2. /\ pc = "wait" /\ result = "none"
        /\ UNCHANGED <<body, oneShot, last, broken, held, size, taken, raw, result>>
    BY DEF ReceiveChunk
  <1>3. CASE oneShot
    <2>1. UNCHANGED <<pc, wbits, pos, out, moved>>
      BY <1>3 DEF ReceiveChunk
    <2>2. Undecided' /\ HeldOfLast' /\ EmptyRound' /\ AtRest' /\ Collected'
      BY <1>2, <1>3, <2>1, SameBody
         DEF DecodeIInv, Undecided, HeldOfLast, EmptyRound, AtRest, Collected
    <2>3. TextInOrder'
      BY <1>2, <1>3, <2>1, SameBody
         DEF DecodeIInv, TextInOrder, InOnePiece, UptoLast, NoHole, OnTheWay, Position, Spells
    <2>. QED BY <1>1, <2>2, <2>3 DEF DecodeIInv
  <1>4. CASE ~oneShot
    <2>1. pc' = "call" /\ pos' = sent /\ out' = <<>> /\ moved' = FALSE
      BY <1>4 DEF ReceiveChunk
    <2>2. out = <<>> /\ ~broken
      BY <1>2, <1>4 DEF DecodeIInv, AtRest
    <2>3. Undecided' /\ HeldOfLast' /\ EmptyRound' /\ AtRest' /\ Collected'
      BY <1>2, <1>4, <2>1, SameBody
         DEF DecodeIInv, Undecided, HeldOfLast, EmptyRound, AtRest, Collected
    <2>4. TextInOrder'
      BY <1>2, <1>4, <2>1, <2>2, SameBody
         DEF DecodeIInv, TextInOrder, InOnePiece, UptoLast, NoHole, OnTheWay, Position, Spells
    <2>. QED BY <1>1, <2>3, <2>4 DEF DecodeIInv
  <1>. QED BY <1>3, <1>4

\* What arrives after a failure changes nothing about the text.
LEMMA PassThroughKeeps ==
    ASSUME DecodeIInv, NEW k \in 1 .. Len(Units), NEW aborts \in BOOLEAN, PassThrough(k, aborts)
    PROVE  DecodeIInv'
  <1>1. DecodeTypeOK'
    <2>1. DecodeTypeOK /\ Network
      BY DEF DecodeIInv, Network
    <2>. QED BY <2>1, NetworkTypes
  <1>2. /\ pc = "wait" /\ result = "failed" /\ result' # "none"
        /\ UNCHANGED <<body, oneShot, pc, wbits, pos, last, broken, held, out, moved, size, taken>>
    BY DEF PassThrough
  <1>3. ~oneShot
    BY <1>2 DEF DecodeIInv, Collected
  <1>4. Undecided' /\ HeldOfLast' /\ EmptyRound' /\ AtRest' /\ Collected'
    BY <1>2, <1>3, SameBody
       DEF DecodeIInv, Undecided, HeldOfLast, EmptyRound, AtRest, Collected
  <1>5. TextInOrder'
    BY <1>2, <1>3, SameBody
       DEF DecodeIInv, TextInOrder, InOnePiece, UptoLast, NoHole, OnTheWay, Spells
  <1>. QED BY <1>1, <1>4, <1>5 DEF DecodeIInv

\* The stream ends: a collected body is decoded, any other is left as it is.
LEMMA EndStreamKeeps ==
    ASSUME DecodeIInv, EndStream
    PROVE  DecodeIInv'
  <1>1. pc = "wait"
    BY DEF EndStream
  <1>2. CASE oneShot /\ sent > 0
    <2>1. CASE Deflated
      BY <1>1, <1>2, <2>1, StartKeeps DEF EndStream
    <2>2. CASE ~Deflated
      BY <1>1, <1>2, <2>2, StartKeeps DEF EndStream
    <2>. QED BY <2>1, <2>2
  <1>3. CASE ~(oneShot /\ sent > 0)
    <2>1. /\ pc' = "done"
          /\ UNCHANGED <<body, oneShot, sent, wbits, pos, last, broken, held, out, moved, size, taken, raw, result>>
      BY <1>3 DEF EndStream
    <2>2. DecodeTypeOK'
      <3>1. DecodeTypeOK /\ Network
        BY DEF DecodeIInv, Network
      <3>. QED BY <3>1, NetworkTypes
    <2>3. Undecided' /\ HeldOfLast' /\ EmptyRound' /\ AtRest' /\ Collected'
      BY <1>1, <1>3, <2>1, SameBody
         DEF DecodeIInv, Undecided, HeldOfLast, EmptyRound, AtRest, Collected
    <2>4. TextInOrder'
      BY <1>1, <2>1, SameBody
         DEF DecodeIInv, TextInOrder, InOnePiece, UptoLast, NoHole, OnTheWay, Position, Spells
    <2>. QED BY <2>2, <2>3, <2>4 DEF DecodeIInv
  <1>. QED BY <1>2, <1>3

\* There is no decoder: the response fails before anything is decoded.
LEMMA BuildFailsKeeps ==
    ASSUME DecodeIInv, BuildStreamDecompressorFails
    PROVE  DecodeIInv'
  <1>1. DecodeTypeOK'
    <2>1. DecodeTypeOK /\ Network
      BY DEF DecodeIInv, Network
    <2>. QED BY <2>1, NetworkTypes
  <1>2. /\ pc = "wait" /\ ~oneShot /\ result' = "failed"
        /\ UNCHANGED <<body, oneShot, sent, pc, wbits, pos, last, broken, held, out, moved, size, taken, raw>>
    BY DEF BuildStreamDecompressorFails
  <1>3. Undecided' /\ HeldOfLast' /\ EmptyRound' /\ AtRest' /\ Collected'
    BY <1>2, SameBody DEF DecodeIInv, Undecided, HeldOfLast, EmptyRound, AtRest, Collected
  <1>4. TextInOrder'
    BY <1>2, SameBody
       DEF DecodeIInv, TextInOrder, InOnePiece, UptoLast, NoHole, OnTheWay, Position, Spells
  <1>. QED BY <1>1, <1>3, <1>4 DEF DecodeIInv

-----------------------------------------------------------------------------
(* The theorems about the decoder                                           *)

\* The decoder starts from nothing, whatever body it will meet.
LEMMA DecodeInitIInv ==
    ASSUME DecodeInit
    PROVE  DecodeIInv
  <1>1. body \in Bodies /\ Len(Units) \in Nat /\ FirstSize \in Nat /\ <<>> \in Seq(Nat)
    BY BodyFacts, DecodeAssumption DEF DecodeInit
  <1>2. DecodeTypeOK
    <2>1. oneShot \in BOOLEAN /\ broken \in BOOLEAN /\ moved \in BOOLEAN
      BY Zenon DEF DecodeInit
    <2>2. sent \in 0 .. Len(Units) /\ pos \in 0 .. sent /\ last \in 0 .. pos
      BY <1>1 DEF DecodeInit
    <2>. QED BY <1>1, <2>1, <2>2 DEF DecodeInit, DecodeTypeOK
  <1>3. Undecided /\ HeldOfLast /\ EmptyRound /\ AtRest /\ Collected
    BY DEF DecodeInit, Undecided, HeldOfLast, EmptyRound, AtRest, Collected
  <1>4. Upto(last) = 0 /\ Upto(Len(Units)) \in Nat
    BY <1>1, UptoGrows DEF DecodeInit, Upto
  <1>5. InOnePiece
    BY SpellsNothing DEF DecodeInit, InOnePiece
  <1>6. UptoLast
    BY <1>4, SpellsNothing DEF DecodeInit, UptoLast
  <1>7. NoHole
    BY DEF DecodeInit, NoHole, Position
  <1>. QED BY <1>2, <1>3, <1>5, <1>6, <1>7 DEF DecodeIInv, TextInOrder

\* Every step keeps the invariant.
LEMMA DecodeNextIInv ==
    ASSUME DecodeIInv, [DecodeNext]_decodeVars
    PROVE  DecodeIInv'
  <1>1. ASSUME UNCHANGED decodeVars
        PROVE  DecodeIInv'
    <2>1. UNCHANGED <<body, oneShot, sent, pc, wbits, pos, last, broken, held, out, moved, size, taken, raw, result>>
      BY <1>1 DEF decodeVars
    <2>2. DecodeTypeOK'
      BY DecodeNextTypes DEF DecodeIInv
    <2>3. Undecided' /\ HeldOfLast' /\ EmptyRound' /\ AtRest' /\ Collected'
      BY <2>1, SameBody DEF DecodeIInv, Undecided, HeldOfLast, EmptyRound, AtRest, Collected
    <2>4. TextInOrder'
      BY <2>1, SameBody
         DEF DecodeIInv, TextInOrder, InOnePiece, UptoLast, NoHole, OnTheWay, Position, Spells
    <2>. QED BY <2>2, <2>3, <2>4 DEF DecodeIInv
  <1>2. ASSUME Work
        PROVE  DecodeIInv'
    BY <1>2, EmitKeeps, ReadKeeps DEF Work
  <1>3. ASSUME Decode
        PROVE  DecodeIInv'
    <2>1. ASSUME pc = "call", oneShot, OneShotStep
          PROVE  DecodeIInv'
      <3>1. ASSUME StartOneShot("wrapped")
            PROVE  DecodeIInv'
        BY <2>1, <3>1, StartKeeps
      <3>2. ASSUME Conclude(FALSE)
            PROVE  DecodeIInv'
        BY <2>1, <3>2, ConcludeKeeps
      <3>3. ASSUME Status = "end", Conclude(TRUE)
            PROVE  DecodeIInv'
        BY <2>1, <3>3, ConcludeKeeps
      <3>4. ASSUME NEW grows \in BOOLEAN, Again(grows)
            PROVE  DecodeIInv'
        BY <2>1, <3>4, AgainKeeps
      <3>. QED BY <2>1, <3>1, <3>2, <3>3, <3>4 DEF OneShotStep
    <2>. QED BY <1>3, <2>1, DecodeCases, FeedKeeps
  <1>4. ASSUME Network
        PROVE  DecodeIInv'
    BY <1>4, ReceiveKeeps, PassThroughKeeps, EndStreamKeeps, BuildFailsKeeps DEF Network
  <1>. QED BY <1>1, <1>2, <1>3, <1>4 DEF DecodeNext, Decoded

\* The invariant holds throughout.
LEMMA DecodeInvariant ==
    DecodeSpec => []DecodeIInv
  <1>1. DecodeInit => DecodeIInv
    BY DecodeInitIInv
  <1>2. DecodeIInv /\ [DecodeNext]_decodeVars => DecodeIInv'
    BY DecodeNextIInv
  <1>. QED BY <1>1, <1>2, PTL DEF DecodeSpec

\* The decoder never reads past what it was given, nor is it given what has not
\* arrived, and all its variables have their types.
THEOREM DecodeTypeCorrect ==
    DecodeSpec => []DecodeTypeOK
  <1>1. DecodeIInv => DecodeTypeOK
    BY DEF DecodeIInv
  <1>. QED BY <1>1, DecodeInvariant, PTL

\* Nothing is passed on undecoded but after a failure, which no later step revokes.
RawAfterFailure == raw > 0 => result \in {"failed", "refused"}

LEMMA RawAfterFailureInvariant ==
    DecodeSpec => []RawAfterFailure
  <1>1. DecodeInit => RawAfterFailure
    BY DEF DecodeInit, RawAfterFailure
  <1>2. ASSUME DecodeIInv, RawAfterFailure, [DecodeNext]_decodeVars
        PROVE  RawAfterFailure'
    <2>1. ASSUME UNCHANGED <<raw, result>>
          PROVE  RawAfterFailure'
      BY <1>2, <2>1 DEF RawAfterFailure
    <2>2. ASSUME raw' = raw, result = "none"
          PROVE  RawAfterFailure'
      <3>1. raw \in Nat /\ ~(raw > 0)
        BY <1>2, <2>2 DEF RawAfterFailure, DecodeIInv, DecodeTypeOK
      <3>. QED BY <2>2, <3>1 DEF RawAfterFailure
    <2>3. ASSUME Work \/ Decoded \/ UNCHANGED decodeVars
          PROVE  UNCHANGED <<raw, result>>
      BY <2>3 DEF Work, Emit, Read, Decoded, decodeVars
    <2>4. ASSUME Decode
          PROVE  UNCHANGED <<raw, result>> \/ (raw' = raw /\ result = "none")
      <3>1. CASE \E aborts \in BOOLEAN : Feed(aborts)
        <4>1. pc = "call" /\ raw' = raw
          BY <3>1, FeedFacts DEF Returns
        <4>. QED BY <1>2, <4>1 DEF DecodeIInv, Undecided
      <3>2. CASE pc = "call" /\ oneShot /\ OneShotStep
        <4>1. raw' = raw
          BY <3>2 DEF OneShotStep, StartOneShot, Conclude, Again
        <4>. QED BY <1>2, <3>2, <4>1 DEF DecodeIInv, Undecided
      <3>. QED BY <2>4, <3>1, <3>2, DecodeCases
    <2>5. ASSUME Network
          PROVE  RawAfterFailure'
      <3>1. ASSUME NEW k \in 1 .. Len(Units), ReceiveChunk(k)
            PROVE  UNCHANGED <<raw, result>>
        BY <3>1 DEF ReceiveChunk
      <3>2. ASSUME NEW k \in 1 .. Len(Units), NEW aborts \in BOOLEAN, PassThrough(k, aborts)
            PROVE  RawAfterFailure'
        BY <3>2 DEF PassThrough, RawAfterFailure
      <3>3. ASSUME EndStream
            PROVE  UNCHANGED <<raw, result>>
        BY <3>3 DEF EndStream, StartOneShot
      <3>4. ASSUME BuildStreamDecompressorFails
            PROVE  raw' = raw /\ result = "none"
        BY <3>4 DEF BuildStreamDecompressorFails
      <3>. QED BY <2>1, <2>2, <2>5, <3>1, <3>2, <3>3, <3>4 DEF Network
    <2>. QED BY <1>2, <2>1, <2>2, <2>3, <2>4, <2>5 DEF DecodeNext
  <1>. QED BY <1>1, <1>2, DecodeInvariant, PTL DEF DecodeSpec

\* What consumeResponseBody() has handed on decoded is at every moment the beginning of
\* the text: feedZlib(), feedBrotli() and feedZstd() skip and repeat no byte, for every
\* body but zstd ones with text-less frame ends, every cut into chunks and every buffer
\* size; and deliverStreamPayload() hands on undecoded bytes only after a failure.
THEOREM TextWithoutGap ==
    DecodeSpec => []NoGap
  <1>1. DecodeIInv /\ RawAfterFailure => NoGap
    <2>. SUFFICES ASSUME DecodeIInv, FramesEndInText
                  PROVE  Len(taken) <= Len(Plain) /\ \A j \in 1 .. Len(taken) : taken[j] = Plain[j]
      BY DEF NoGap, RawAfterFailure
    <2>1. Spells(taken, 0) /\ Len(taken) <= Upto(Len(Units))
      BY DEF DecodeIInv, TextInOrder, InOnePiece, UptoLast
    <2>2. Upto(Len(Units)) \in Nat /\ Len(taken) \in Nat
      BY BodyFacts, UptoGrows DEF DecodeIInv, DecodeTypeOK
    <2>3. Len(Plain) = Upto(Len(Units)) /\ \A j \in 1 .. Upto(Len(Units)) : Plain[j] = j
      BY <2>2 DEF Plain
    <2>. QED BY <2>1, <2>2, <2>3 DEF Spells
  <1>. QED BY <1>1, DecodeInvariant, RawAfterFailureInvariant, PTL

\* Text of the full length is the plain text.
LEMMA FullIsPlain ==
    ASSUME DecodeIInv, FramesEndInText, Len(taken) = Upto(Len(Units))
    PROVE  taken = Plain
  <1>1. Spells(taken, 0) /\ taken \in Seq(Nat)
    BY DEF DecodeIInv, DecodeTypeOK, TextInOrder, InOnePiece
  <1>2. Upto(Len(Units)) \in Nat
    BY BodyFacts, UptoGrows DEF DecodeIInv, DecodeTypeOK
  <1>3. /\ Plain \in Seq(Nat) /\ Len(Plain) = Upto(Len(Units))
        /\ \A j \in 1 .. Upto(Len(Units)) : Plain[j] = j
    BY <1>2 DEF Plain
  <1>4. \A j \in 1 .. Len(taken) : taken[j] = Plain[j]
    BY <1>1, <1>2, <1>3 DEF Spells
  <1>. QED BY <1>1, <1>3, <1>4, SeqEqual

\* A gzip, zlib or brotli body of one frame that arrived whole and was decoded without
\* an error has been handed on whole.
THEOREM StreamedWhole ==
    DecodeSpec => []StreamedBodyWhole
  <1>1. DecodeIInv => StreamedBodyWhole
    <2>. SUFFICES ASSUME DecodeIInv, pc = "done", ~oneShot, Whole, result = "none",
                         body.format \in {"gzip", "zlib", "br"}, OneFrame
                  PROVE  taken = Plain
      BY DEF StreamedBodyWhole
    <2>1. /\ OneFrame /\ FramesEndInText /\ Units[Len(Units)].ends
          /\ body.format \in {"gzip", "zlib"} => Units[Len(Units)].out = 0
      BY BodyFacts, OneFrameEndsInText DEF DecodeIInv, DecodeTypeOK
    <2>2. out = <<>> /\ ~broken /\ (body.format = "br" => held = <<>>) /\ OnTheWay
      BY DEF DecodeIInv, AtRest, OnTheWay
    <2>3. last \in 0 .. Len(Units) /\ Len(Units) \in Nat /\ Len(taken) \in Nat /\ held \in Seq(Nat)
      BY BodyFacts DEF DecodeIInv, DecodeTypeOK
    <2>4. last = Len(Units)
      <3>1. last = Len(Units) \/ (last > 0 /\ Units[last].ends)
        BY <2>1, <2>2 DEF DecodeIInv, TextInOrder, NoHole, Position, Whole
      <3>2. last \in 1 .. Len(Units) - 1 => ~Units[last].ends
        BY <2>1 DEF OneFrame
      <3>. QED BY <2>3, <3>1, <3>2
    <2>5. held = <<>>
      <3>1. CASE body.format = "br"
        BY <2>2, <3>1
      <3>2. CASE body.format \in {"gzip", "zlib"}
        <4>1. held # <<>> => Len(held) <= 0
          BY <2>1, <2>4, <3>2 DEF DecodeIInv, HeldOfLast
        <4>. QED BY <2>3, <4>1, EmptySeq
      <3>. QED BY <3>1, <3>2
    <2>6. Len(taken) + Len(out) + Len(held) = Upto(Len(Units))
      BY <2>1, <2>2, <2>4 DEF DecodeIInv, TextInOrder, UptoLast
    <2>7. Len(taken) = Upto(Len(Units))
      BY <2>2, <2>3, <2>5, <2>6, SpellsNothing
    <2>. QED BY <2>1, <2>7, FullIsPlain
  <1>. QED BY <1>1, DecodeInvariant, PTL

\* A collected body of one frame is decoded to all of its text or reported as an
\* error by decompress_GZip(), decompress_Deflate(), decompress_Brotli() and
\* decompress_Zstd(), wherever it was cut off and however often the buffer grows.
THEOREM BufferedWhole ==
    DecodeSpec => []BufferedBodyWhole
  <1>1. DecodeIInv => BufferedBodyWhole
    <2>. SUFFICES ASSUME DecodeIInv, pc = "done", oneShot, sent > 0, result = "none", OneFrame
                  PROVE  taken = Plain
      BY DEF BufferedBodyWhole
    <2>1. Len(taken) = Upto(Len(Units)) /\ FramesEndInText
      BY OneFrameEndsInText DEF DecodeIInv, Collected
    <2>. QED BY <2>1, FullIsPlain
  <1>. QED BY <1>1, DecodeInvariant, PTL

-----------------------------------------------------------------------------
(* The invariant of the bindings                                           *)

\* Who owns the context of a request: its caller, and the threadsafe function.
CallerOwns(r) == caller[r] \in {"running", "starting", "polling", "collected", "reaping"}
TsfnOwns(r) == tsfn[r] \in {"open", "released"}
OwnersOf(r) == (IF CallerOwns(r) THEN 1 ELSE 0) + (IF TsfnOwns(r) THEN 1 ELSE 0)

\* The references of a bridge count its owners, and it lives as long as there is one;
\* a JNI context lives as long as its caller has not let it go, or for good, unless
\* another request has had the same address.
Counted(r) ==
    /\ Node => refs[r] = OwnersOf(r) /\ (context[r] = "live" <=> refs[r] > 0)
    /\ Java => /\ r \notin shared => (context[r] = "live" <=> (CallerOwns(r) \/ r \in givenUp))
               /\ tsfn[r] = "none" /\ queue[r] = <<>>

\* A poll has given its final answer, and the exchange goes on.
Loose(r) == r \in stray \/ r \in unreaped

\* The core calls back only while a call of the request is under way, or the request
\* is loose.
CoreWithinCall(r) ==
    /\ ~Loose(r) /\ core[r] # "off" => caller[r] \in {"running", "starting", "polling"}
    /\ Loose(r) => caller[r] \in {"reaping", "over"}

\* A threadsafe function that is gone has an empty queue; there is one from the start
\* of a request in the addon.
QueueOfTsfn(r) ==
    /\ queue[r] # <<>> => TsfnOwns(r)
    /\ caller[r] = "new" => tsfn[r] = "none"
    /\ Node /\ caller[r] # "new" => tsfn[r] # "none"

\* Only the JNI bridge has a time between the start and the registration of a request,
\* and between its answer and its reaping, in which its address is used again, and
\* gives up contexts.
JavaOnly(r) ==
    /\ caller[r] \in {"starting", "reaping"} => Java
    /\ r \in givenUp => Java /\ caller[r] \in {"polling", "reaping", "over"}
    /\ r \in shared => Java /\ caller[r] \in {"starting", "polling", "reaping", "over"}

\* As long as the first attempt calls back, nothing has retired its threadsafe
\* function, nor will what is queued.
FirstAttemptOpen(r) ==
    Node /\ attempt[r] = 1 /\ InFlight(r) /\ ~Loose(r) =>
        /\ tsfn[r] = "open"
        /\ \A i \in 1 .. Len(queue[r]) : queue[r][i].name # "complete"

\* What comes too late is of a second attempt, or of a request that is loose.
LateRetry(r) == \A e \in late : e.request = r => Node /\ (Loose(r) \/ e.attempt = 2)

\* What holds of each request by itself.
Sound(r) ==
    /\ Counted(r)
    /\ CoreWithinCall(r)
    /\ QueueOfTsfn(r)
    /\ JavaOnly(r)
    /\ FirstAttemptOpen(r)
    /\ LateRetry(r)

\* An entry of the registry is that of a polled request, its only one, and goes when
\* the request is reaped, unless there was another request of that address.
Filed ==
    /\ \A i \in 1 .. Len(registry) :
          /\ registry[i].handle = handle[registry[i].request]
          /\ caller[registry[i].request] \in {"polling", "reaping", "over"}
          /\ registry[i].request \notin givenUp
          /\ registry[i].request \notin shared => caller[registry[i].request] \in {"polling", "reaping"}
    /\ \A i, j \in 1 .. Len(registry) : registry[i].request = registry[j].request => i = j

\* Every request still to be reaped has one, unless it was given up or shared its
\* address.
Findable ==
    \A r \in Requests : caller[r] \in {"polling", "reaping"} /\ r \notin givenUp /\ r \notin shared =>
        \E i \in 1 .. Len(registry) : registry[i].request = r

\* The requests whose basket or entry has an address.
Active(r) == caller[r] \in {"starting", "polling", "reaping"}

\* Only requests known to share their address do: the others have theirs alone.
HandlesApart ==
    \A r \in Requests : Active(r) /\ r \notin shared =>
        /\ \A q \in Requests : Active(q) /\ handle[q] = handle[r] => q = r
        /\ \A i \in 1 .. Len(registry) : registry[i].handle = handle[r] => registry[i].request = r

\* The invariant of the bindings.
BridgeIInv ==
    /\ BridgeTypeOK
    /\ \A r \in Requests : Sound(r)
    /\ Filed
    /\ Findable
    /\ HandlesApart

\* A bridge or context whose request is over, and whose threadsafe function is gone,
\* has been freed, unless it was given up or has the address of another request.
NothingKept ==
    \A r \in Requests :
        /\ caller[r] = "over" /\ tsfn[r] \in {"none", "closed"}
        /\ r \notin givenUp /\ r \notin shared
        => context[r] # "live"

-----------------------------------------------------------------------------
(* The registry                                                             *)

\* An entry that is looked for is found if there is one, and it is the first.
LEMMA NewestIsEntry ==
    ASSUME NEW h, registry \in Seq(Entry), Entries(h) # {}
    PROVE  Newest(h) \in Entries(h) /\ Newest(h) \in 1 .. Len(registry)
  <1>1. Entries(h) \in SUBSET Nat
    BY DEF Entries
  <1>2. PICK m \in Entries(h) : \A y \in Entries(h) : ~(<<y, m>> \in OpToRel(<, Nat))
    <2>1. IsWellFoundedOn(OpToRel(<, Nat), Nat)
      BY NatLessThanWellFounded
    <2>. QED BY <1>1, <2>1, WFMin
  <1>3. \A j \in Entries(h) : m <= j
    <2>. SUFFICES ASSUME NEW j \in Entries(h)
                  PROVE  m <= j
      OBVIOUS
    <2>1. j \in Nat /\ m \in Nat
      BY <1>1
    <2>2. ~(j < m)
      BY <1>2, <2>1 DEF OpToRel
    <2>. QED BY <2>1, <2>2
  <1>4. Newest(h) \in Entries(h)
    BY <1>3 DEF Newest
  <1>. QED BY <1>4 DEF Entries

\* What an entry tells.
LEMMA EntryFields ==
    ASSUME BridgeTypeOK
    PROVE  /\ Len(registry) \in Nat
           /\ \A i \in 1 .. Len(registry) : registry[i].request \in Requests
  <1>1. registry \in Seq(Entry)
    BY DEF BridgeTypeOK
  <1>2. Len(registry) \in Nat /\ \A i \in 1 .. Len(registry) : registry[i] \in Entry
    BY <1>1
  <1>. QED BY <1>2 DEF Entry

\* A list without one of its entries has all the others, in their order.
LEMMA WithoutOne ==
    ASSUME NEW S, registry \in Seq(S), NEW i \in 1 .. Len(registry)
    PROVE  /\ Without(i) \in Seq(S) /\ Len(Without(i)) = Len(registry) - 1
           /\ \A k \in 1 .. Len(registry) - 1 :
                 Without(i)[k] = IF k < i THEN registry[k] ELSE registry[k + 1]
  <1>. DEFINE A == SubSeq(registry, 1, i - 1)
              B == SubSeq(registry, i + 1, Len(registry))
  <1>1. Len(registry) \in Nat
    OBVIOUS
  <1>2. A \in Seq(S) /\ Len(A) = i - 1 /\ \A k \in 1 .. i - 1 : A[k] = registry[k]
    BY <1>1
  <1>3. B \in Seq(S) /\ Len(B) = Len(registry) - i /\ \A k \in 1 .. Len(registry) - i : B[k] = registry[i + k]
    BY <1>1
  <1>. HIDE DEF A, B
  <1>4. /\ A \o B \in Seq(S) /\ Len(A \o B) = Len(A) + Len(B)
        /\ \A k \in 1 .. Len(A) + Len(B) : (A \o B)[k] = IF k <= Len(A) THEN A[k] ELSE B[k - Len(A)]
    BY <1>2, <1>3, ConcatProperties
  <1>5. Without(i) = A \o B
    BY DEF Without, A, B
  <1>6. ASSUME NEW k \in 1 .. Len(registry) - 1
        PROVE  (A \o B)[k] = IF k < i THEN registry[k] ELSE registry[k + 1]
    <2>1. k \in 1 .. Len(A) + Len(B)
      BY <1>1, <1>2, <1>3
    <2>2. CASE k < i
      <3>1. k <= Len(A) /\ k \in 1 .. i - 1
        BY <1>1, <1>2, <2>2
      <3>. QED BY <1>2, <1>4, <2>1, <2>2, <3>1
    <2>3. CASE ~(k < i)
      <3>1. ~(k <= Len(A)) /\ k - Len(A) = k - (i - 1) /\ k - (i - 1) \in 1 .. Len(registry) - i
              /\ i + (k - (i - 1)) = k + 1
        BY <1>1, <1>2, <2>3
      <3>2. (A \o B)[k] = B[k - (i - 1)]
        BY <1>4, <2>1, <3>1
      <3>. QED BY <1>3, <2>3, <3>1, <3>2
    <2>. QED BY <2>2, <2>3
  <1>7. Without(i) \in Seq(S) /\ Len(Without(i)) = Len(registry) - 1
    BY <1>1, <1>2, <1>3, <1>4, <1>5
  <1>8. \A k \in 1 .. Len(registry) - 1 :
           Without(i)[k] = IF k < i THEN registry[k] ELSE registry[k + 1]
    BY <1>5, <1>6
  <1>. QED BY <1>7, <1>8

\* A new entry comes first.
LEMMA InFront ==
    ASSUME NEW S, NEW s \in Seq(S), NEW e \in S
    PROVE  /\ <<e>> \o s \in Seq(S) /\ Len(<<e>> \o s) = Len(s) + 1
           /\ (<<e>> \o s)[1] = e
           /\ \A k \in 2 .. Len(s) + 1 : (<<e>> \o s)[k] = s[k - 1]
  <1>1. <<e>> \in Seq(S) /\ Len(<<e>>) = 1 /\ <<e>>[1] = e /\ Len(s) \in Nat
    OBVIOUS
  <1>2. /\ <<e>> \o s \in Seq(S) /\ Len(<<e>> \o s) = 1 + Len(s)
        /\ \A k \in 1 .. 1 + Len(s) : (<<e>> \o s)[k] = IF k <= 1 THEN <<e>>[k] ELSE s[k - 1]
    BY <1>1, ConcatProperties
  <1>3. ASSUME NEW k \in 2 .. Len(s) + 1
        PROVE  (<<e>> \o s)[k] = s[k - 1]
    BY <1>1, <1>2
  <1>. QED BY <1>1, <1>2, <1>3

-----------------------------------------------------------------------------
(* What the parts of an action do                                           *)

\* CreateStreamBridge() and createStreamContext(): a context with all its owners.
LEMMA CreateFacts ==
    ASSUME BridgeTypeOK, NEW r \in Requests, Create(r)
    PROVE  /\ context' = [context EXCEPT ![r] = "live"]
           /\ refs' = [refs EXCEPT ![r] = IF Node THEN 2 ELSE 0]
           /\ tsfn' = [tsfn EXCEPT ![r] = IF Node THEN "open" ELSE "none"]
           /\ context' \in [Requests -> {"none", "live", "freed"}]
           /\ refs' \in [Requests -> 0 .. Owners]
           /\ tsfn' \in [Requests -> {"none", "open", "released", "closed"}]
BY DEF BridgeTypeOK, Create, Owners

\* DropStreamBridge(): one owner less, and the last one frees the bridge.
LEMMA DropFacts ==
    ASSUME BridgeIInv, NEW r \in Requests, Drop(r), Node, refs[r] > 0
    PROVE  /\ refs' = [refs EXCEPT ![r] = @ - 1]
           /\ context' \in [Requests -> {"none", "live", "freed"}]
           /\ refs' \in [Requests -> 0 .. Owners]
           /\ \A q \in Requests : q # r => context'[q] = context[q] /\ refs'[q] = refs[q]
           /\ refs'[r] = refs[r] - 1
           /\ context'[r] = "live" <=> refs'[r] > 0
  <1>1. /\ context \in [Requests -> {"none", "live", "freed"}] /\ refs \in [Requests -> 0 .. 2]
        /\ refs[r] \in 0 .. 2 /\ context[r] = "live"
    BY DEF BridgeIInv, BridgeTypeOK, Sound, Counted, Owners
  <1>2. /\ refs' = [refs EXCEPT ![r] = @ - 1]
        /\ context' = [context EXCEPT ![r] = IF refs[r] = 1 THEN "freed" ELSE @]
    BY DEF Drop
  <1>3. refs[r] - 1 \in 0 .. 2
    BY <1>1
  <1>4. refs' \in [Requests -> 0 .. Owners]
    BY <1>1, <1>2, <1>3 DEF Owners
  <1>5. refs'[r] = refs[r] - 1 /\ \A q \in Requests : q # r => refs'[q] = refs[q]
    BY <1>1, <1>2
  <1>6. /\ context' \in [Requests -> {"none", "live", "freed"}]
        /\ \A q \in Requests : q # r => context'[q] = context[q]
        /\ context'[r] = IF refs[r] = 1 THEN "freed" ELSE "live"
    BY <1>1, <1>2
  <1>7. context'[r] = "live" <=> refs'[r] > 0
    BY <1>1, <1>5, <1>6
  <1>. QED BY <1>2, <1>4, <1>5, <1>6, <1>7

\* ReleaseStreamBridge() and freeStreamContext(): the caller lets its context go.
LEMMA ReleaseFacts ==
    ASSUME BridgeIInv, NEW r \in Requests, Node => CallerOwns(r), Release(r)
    PROVE  /\ context' \in [Requests -> {"none", "live", "freed"}]
           /\ refs' \in [Requests -> 0 .. Owners]
           /\ tsfn' \in [Requests -> {"none", "open", "released", "closed"}]
           /\ \A q \in Requests : q # r => context'[q] = context[q] /\ refs'[q] = refs[q] /\ tsfn'[q] = tsfn[q]
           /\ Node => /\ refs'[r] = refs[r] - 1
                      /\ context'[r] = "live" <=> refs'[r] > 0
                      /\ tsfn'[r] = Retired(tsfn[r])
           /\ Java => context'[r] = "freed" /\ tsfn'[r] = tsfn[r]
  <1>1. BridgeTypeOK
    BY DEF BridgeIInv
  <1>2. CASE Node
    <2>1. refs[r] > 0
      <3>1. refs[r] = OwnersOf(r) /\ refs[r] \in 0 .. 2
        BY <1>1, <1>2 DEF BridgeIInv, Sound, Counted, BridgeTypeOK, Owners
      <3>. QED BY <1>2, <3>1 DEF OwnersOf
    <2>2. Drop(r) /\ tsfn' = [tsfn EXCEPT ![r] = Retired(@)]
      BY <1>2 DEF Release
    <2>3. /\ tsfn' \in [Requests -> {"none", "open", "released", "closed"}]
          /\ \A q \in Requests : q # r => tsfn'[q] = tsfn[q]
          /\ tsfn'[r] = Retired(tsfn[r])
      BY <1>1, <2>2 DEF BridgeTypeOK, Retired
    <2>4. ~Java
      BY <1>2 DEF Node, Java
    <2>. QED BY <1>2, <2>1, <2>2, <2>3, <2>4, DropFacts
  <1>3. CASE ~Node
    <2>1. context' = [context EXCEPT ![r] = "freed"] /\ refs' = refs /\ tsfn' = tsfn
      BY <1>3 DEF Release
    <2>2. /\ context \in [Requests -> {"none", "live", "freed"}] /\ refs \in [Requests -> 0 .. Owners]
          /\ tsfn \in [Requests -> {"none", "open", "released", "closed"}]
      BY <1>1 DEF BridgeTypeOK
    <2>. QED BY <1>3, <2>1, <2>2
  <1>. QED BY <1>2, <1>3

\* PostStreamEvent(), or the call of the listener.
LEMMA DeliverFacts ==
    ASSUME BridgeTypeOK, NEW r \in Requests, NEW name \in {"headers", "data", "complete"}, NEW counts \in BOOLEAN,
           Deliver(r, name, counts)
    PROVE  LET event == [attempt |-> attempt[r], name |-> name]
           IN  /\ event \in Event
               /\ queue' \in [Requests -> Seq(Event)]
               /\ seen' \in [Requests -> SUBSET {1, 2}]
               /\ late' \in SUBSET LateEvent
               /\ Node => /\ queue' = [queue EXCEPT ![r] = IF tsfn[r] = "closed" THEN @ ELSE Append(@, event)]
                          /\ late' = IF tsfn[r] = "closed" /\ counts
                                     THEN late \cup {[request |-> r, attempt |-> attempt[r]]} ELSE late
               /\ ~Node => queue' = queue /\ late' = late
  <1>. DEFINE event == [attempt |-> attempt[r], name |-> name]
              e == [request |-> r, attempt |-> attempt[r]]
  <1>0. attempt[r] \in {1, 2} /\ seen \in [Requests -> SUBSET {1, 2}] /\ late \in SUBSET LateEvent
          /\ queue \in [Requests -> Seq(Event)]
    BY DEF BridgeTypeOK
  <1>1. event \in Event /\ e \in LateEvent /\ Completes(event) \in SUBSET {1, 2}
    BY <1>0 DEF Event, LateEvent, Completes
  <1>2. /\ Node => /\ queue' = [queue EXCEPT ![r] = IF tsfn[r] = "closed" THEN @ ELSE Append(@, event)]
                   /\ late' = IF tsfn[r] = "closed" /\ counts THEN late \cup {e} ELSE late
                   /\ seen' = seen
        /\ ~Node => /\ seen' = [seen EXCEPT ![r] = @ \cup Completes(event)]
                    /\ queue' = queue /\ late' = late
    BY DEF Deliver
  <1>. HIDE DEF event, e
  <1>3. CASE Node
    <2>1. queue[r] \in Seq(Event) /\ Append(queue[r], event) \in Seq(Event)
      BY <1>0, <1>1
    <2>2. queue' \in [Requests -> Seq(Event)]
      BY <1>0, <1>2, <1>3, <2>1
    <2>3. late' \in SUBSET LateEvent
      BY <1>0, <1>1, <1>2, <1>3
    <2>. QED BY <1>0, <1>1, <1>2, <1>3, <2>2, <2>3 DEF event, e
  <1>4. CASE ~Node
    <2>1. seen[r] \cup Completes(event) \in SUBSET {1, 2}
      BY <1>0, <1>1
    <2>2. seen' \in [Requests -> SUBSET {1, 2}]
      BY <1>0, <1>2, <1>4, <2>1
    <2>. QED BY <1>0, <1>1, <1>2, <1>4, <2>2 DEF event
  <1>. QED BY <1>3, <1>4

-----------------------------------------------------------------------------
(* What a step leaves alone                                                 *)

\* A request of which nothing changes stays sound, also when another is given its
\* address.
LEMMA OthersSound ==
    ASSUME NEW q \in Requests, Sound(q), binding' = binding,
           caller'[q] = caller[q], core'[q] = core[q], attempt'[q] = attempt[q],
           context'[q] = context[q], refs'[q] = refs[q], tsfn'[q] = tsfn[q], queue'[q] = queue[q],
           \A e \in late' : e.request = q => e \in late,
           q \in givenUp' <=> q \in givenUp, q \in stray' <=> q \in stray, q \in unreaped' <=> q \in unreaped,
           q \in shared => q \in shared', q \in shared' => q \in shared \/ caller[q] = "reaping"
    PROVE  Sound(q)'
  <1>0. Loose(q)' <=> Loose(q)
    BY DEF Loose
  <1>1. Counted(q)'
    BY DEF Sound, Counted, OwnersOf, CallerOwns, TsfnOwns, Node, Java
  <1>2. CoreWithinCall(q)' /\ QueueOfTsfn(q)' /\ JavaOnly(q)'
    BY <1>0 DEF Sound, CoreWithinCall, QueueOfTsfn, JavaOnly, TsfnOwns, Node, Java
  <1>3. FirstAttemptOpen(q)'
    BY <1>0 DEF Sound, FirstAttemptOpen, InFlight, Node
  <1>4. LateRetry(q)'
    BY <1>0 DEF Sound, LateRetry, Node
  <1>. QED BY <1>1, <1>2, <1>3, <1>4 DEF Sound

\* The registry stays in order while no caller moves.
LEMMA RegistryKept ==
    ASSUME Filed, Findable, HandlesApart, UNCHANGED <<caller, handle, registry, givenUp, shared>>
    PROVE  Filed' /\ Findable' /\ HandlesApart'
BY DEF Filed, Findable, HandlesApart, Active

\* It stays in order when a caller without an entry moves on to where it has none.
LEMMA RegistryKeptByOne ==
    ASSUME BridgeTypeOK, Filed, Findable, HandlesApart, NEW r \in Requests, NEW c,
           caller' = [caller EXCEPT ![r] = c], UNCHANGED <<handle, registry, givenUp, shared>>,
           caller[r] \notin {"polling", "reaping", "over"}, c \notin {"starting", "polling", "reaping"}
    PROVE  Filed' /\ Findable' /\ HandlesApart'
  <1>1. caller'[r] = c /\ \A q \in Requests : q # r => caller'[q] = caller[q]
    BY DEF BridgeTypeOK
  <1>2. \A i \in 1 .. Len(registry) : registry[i].request \in Requests
    BY EntryFields
  <1>3. Filed'
    BY <1>1, <1>2 DEF Filed
  <1>4. Findable'
    BY <1>1 DEF Findable
  <1>5. HandlesApart'
    BY <1>1 DEF HandlesApart, Active
  <1>. QED BY <1>3, <1>4, <1>5

-----------------------------------------------------------------------------
(* The callbacks                                                            *)

\* A callback finds its threadsafe function open in a first attempt, and what it
\* queues is not the end unless the core has ended.
LEMMA CallbackKeeps ==
    ASSUME BridgeIInv, NEW r \in Requests, NEW c \in CoreState, NEW name \in {"headers", "data", "complete"},
           NEW counts \in BOOLEAN, core[r] # "off", core' = [core EXCEPT ![r] = c], Deliver(r, name, counts),
           c \in {"headers", "body", "aborting"} => InFlight(r) /\ name # "complete", counts => InFlight(r),
           chunks' \in [Requests -> Nat], attempt' = attempt, UNCHANGED callbackVars
    PROVE  BridgeIInv'
  <1>. DEFINE event == [attempt |-> attempt[r], name |-> name]
              e == [request |-> r, attempt |-> attempt[r]]
  <1>1. BridgeTypeOK /\ Sound(r)
    BY DEF BridgeIInv
  <1>2. UNCHANGED <<binding, style, givenUp, shared, stray, unreaped, caller, handle, context, refs, tsfn, stop,
                    registry>>
    BY DEF callbackVars
  <1>3. /\ event \in Event
        /\ queue' \in [Requests -> Seq(Event)] /\ seen' \in [Requests -> SUBSET {1, 2}]
        /\ late' \in SUBSET LateEvent
        /\ Node => /\ queue' = [queue EXCEPT ![r] = IF tsfn[r] = "closed" THEN @ ELSE Append(@, event)]
                   /\ late' = IF tsfn[r] = "closed" /\ counts THEN late \cup {e} ELSE late
        /\ ~Node => queue' = queue /\ late' = late
    BY <1>1, DeliverFacts
  <1>4. e.request = r /\ e.attempt = attempt[r] /\ event.name = name
    OBVIOUS
  <1>. HIDE DEF event, e
  <1>5. core' \in [Requests -> CoreState] /\ core'[r] = c /\ \A q \in Requests : q # r => core'[q] = core[q]
    BY <1>1 DEF BridgeTypeOK
  <1>6. BridgeTypeOK'
    BY <1>1, <1>2, <1>3, <1>5 DEF BridgeTypeOK
  <1>7. ASSUME NEW q \in Requests, q # r
        PROVE  Sound(q)'
    <2>1. Sound(q) /\ core'[q] = core[q] /\ queue'[q] = queue[q]
      BY <1>1, <1>3, <1>5, <1>7 DEF BridgeIInv, BridgeTypeOK
    <2>2. \A x \in late' : x.request = q => x \in late
      BY <1>3, <1>4, <1>7
    <2>. QED BY <1>2, <2>1, <2>2, OthersSound
  <1>8. Sound(r)'
    <2>0. (Loose(r)' <=> Loose(r)) /\ (InFlight(r)' => InFlight(r) /\ name # "complete")
      BY <1>2, <1>5 DEF Loose, InFlight
    <2>1. caller[r] # "new" /\ tsfn[r] \in {"none", "open", "released", "closed"} /\ attempt[r] \in {1, 2}
      BY <1>1 DEF Sound, CoreWithinCall, BridgeTypeOK
    <2>2. queue[r] \in Seq(Event) /\ queue'[r] \in Seq(Event)
      BY <1>1, <1>3 DEF BridgeTypeOK
    <2>3. CoreWithinCall(r)' /\ JavaOnly(r)'
      BY <1>1, <1>2, <2>0 DEF Sound, CoreWithinCall, JavaOnly, Java
    <2>4. CASE Node
      <3>1. tsfn[r] # "none" /\ ~Java
        BY <1>1, <2>1, <2>4 DEF Sound, QueueOfTsfn, Node, Java
      <3>2. queue'[r] = IF tsfn[r] = "closed" THEN queue[r] ELSE Append(queue[r], event)
        BY <1>1, <1>3, <2>4 DEF BridgeTypeOK
      <3>3. Counted(r)'
        BY <1>1, <1>2, <3>1 DEF Sound, Counted, OwnersOf, CallerOwns, TsfnOwns, Node, Java
      <3>4. QueueOfTsfn(r)'
        BY <1>1, <1>2, <2>1, <3>1, <3>2 DEF Sound, QueueOfTsfn, TsfnOwns, Node
      <3>5. ASSUME attempt[r] = 1, InFlight(r), ~Loose(r)
            PROVE  /\ tsfn[r] = "open"
                   /\ name # "complete" => \A i \in 1 .. Len(queue'[r]) : queue'[r][i].name # "complete"
        <4>1. tsfn[r] = "open" /\ \A i \in 1 .. Len(queue[r]) : queue[r][i].name # "complete"
          BY <1>1, <2>4, <3>5 DEF Sound, FirstAttemptOpen
        <4>2. queue'[r] = Append(queue[r], event)
          BY <3>2, <4>1
        <4>3. ASSUME name # "complete", NEW i \in 1 .. Len(queue'[r])
              PROVE  queue'[r][i].name # "complete"
          <5>1. /\ Len(queue'[r]) = Len(queue[r]) + 1 /\ queue'[r][Len(queue[r]) + 1] = event
                /\ \A k \in 1 .. Len(queue[r]) : queue'[r][k] = queue[r][k]
            BY <1>3, <2>2, <4>2, AppendProperties
          <5>2. i = Len(queue[r]) + 1 \/ i \in 1 .. Len(queue[r])
            BY <2>2, <4>3, <5>1
          <5>. QED BY <1>4, <4>1, <4>3, <5>1, <5>2
        <4>. QED BY <4>1, <4>3
      <3>6. FirstAttemptOpen(r)'
        BY <1>2, <2>0, <3>5 DEF FirstAttemptOpen
      <3>7. LateRetry(r)'
        <4>. SUFFICES ASSUME NEW x \in late', x.request = r
                      PROVE  Node' /\ (Loose(r)' \/ x.attempt = 2)
          BY DEF LateRetry
        <4>1. Node'
          BY <1>2, <2>4 DEF Node
        <4>2. CASE x \in late
          BY <1>1, <2>0, <4>1, <4>2 DEF Sound, LateRetry
        <4>3. CASE x = e /\ tsfn[r] = "closed" /\ counts
          BY <1>4, <2>0, <2>1, <3>5, <4>1, <4>3
        <4>. QED BY <1>3, <2>4, <4>2, <4>3
      <3>. QED BY <2>3, <3>3, <3>4, <3>6, <3>7 DEF Sound
    <2>5. CASE ~Node
      <3>1. Counted(r)' /\ QueueOfTsfn(r)' /\ FirstAttemptOpen(r)'
        BY <1>1, <1>2, <1>3, <2>1, <2>5
           DEF Sound, Counted, CallerOwns, TsfnOwns, QueueOfTsfn, FirstAttemptOpen, Node, Java
      <3>2. LateRetry(r)'
        BY <1>1, <1>3, <2>5 DEF Sound, LateRetry
      <3>. QED BY <2>3, <3>1, <3>2 DEF Sound
    <2>. QED BY <2>4, <2>5
  <1>9. Filed' /\ Findable' /\ HandlesApart'
    BY <1>2, RegistryKept DEF BridgeIInv
  <1>. QED BY <1>6, <1>7, <1>8, <1>9 DEF BridgeIInv

\* A chunk that the addon refuses is not posted.
LEMMA RefusedKeeps ==
    ASSUME BridgeIInv, NEW r \in Requests, NEW c \in CoreState,
           core[r] # "off", core' = [core EXCEPT ![r] = c], c \in {"headers", "body", "aborting"} => InFlight(r),
           chunks' \in [Requests -> Nat], UNCHANGED <<queue, late, seen, attempt>>, UNCHANGED callbackVars
    PROVE  BridgeIInv'
  <1>0. BridgeTypeOK /\ Sound(r)
    BY DEF BridgeIInv
  <1>1. UNCHANGED <<queue, late, seen, attempt, binding, style, givenUp, shared, stray, unreaped, caller, handle,
                    context, refs, tsfn, stop, registry>>
    BY DEF callbackVars
  <1>2. core' \in [Requests -> CoreState] /\ core'[r] = c /\ \A q \in Requests : q # r => core'[q] = core[q]
    BY <1>0 DEF BridgeTypeOK
  <1>3. BridgeTypeOK'
    BY <1>0, <1>1, <1>2 DEF BridgeTypeOK
  <1>4. ASSUME NEW q \in Requests, q # r
        PROVE  Sound(q)'
    <2>1. Sound(q)
      BY DEF BridgeIInv
    <2>. QED BY <1>1, <1>2, <1>4, <2>1, OthersSound
  <1>5. Sound(r)'
    <2>1. (Loose(r)' <=> Loose(r)) /\ (InFlight(r)' => InFlight(r))
      BY <1>1, <1>2 DEF Loose, InFlight
    <2>2. Counted(r)' /\ QueueOfTsfn(r)'
      BY <1>0, <1>1 DEF Sound, Counted, OwnersOf, CallerOwns, TsfnOwns, QueueOfTsfn, Node, Java
    <2>3. CoreWithinCall(r)' /\ JavaOnly(r)'
      BY <1>0, <1>1, <2>1 DEF Sound, CoreWithinCall, JavaOnly, Java
    <2>4. FirstAttemptOpen(r)' /\ LateRetry(r)'
      BY <1>0, <1>1, <2>1 DEF Sound, FirstAttemptOpen, LateRetry, Node
    <2>. QED BY <2>2, <2>3, <2>4 DEF Sound
  <1>6. Filed' /\ Findable' /\ HandlesApart'
    BY <1>1, RegistryKept DEF BridgeIInv
  <1>. QED BY <1>3, <1>4, <1>5, <1>6 DEF BridgeIInv

\* OnHeaders, OnData and OnComplete are such callbacks.
LEMMA CallbacksKeep ==
    ASSUME BridgeIInv, NEW r \in Requests,
           \/ OnHeaders(r) \/ (\E refused \in BOOLEAN : OnData(r, refused))
           \/ (\E end \in Ends : OnComplete(r, end))
    PROVE  BridgeIInv'
  <1>0. BridgeTypeOK
    BY DEF BridgeIInv
  <1>1. ASSUME OnHeaders(r)
        PROVE  BridgeIInv'
    <2>1. /\ core[r] = "headers" /\ core' = [core EXCEPT ![r] = "body"] /\ Deliver(r, "headers", TRUE)
          /\ UNCHANGED callbackVars /\ attempt' = attempt /\ chunks' = chunks
      BY <1>1 DEF OnHeaders
    <2>2. chunks' \in [Requests -> Nat] /\ "body" \in CoreState /\ InFlight(r)
      BY <1>0, <2>1 DEF BridgeTypeOK, CoreState, InFlight
    <2>. QED BY <2>1, <2>2, CallbackKeeps
  <1>2. ASSUME NEW refused \in BOOLEAN, OnData(r, refused)
        PROVE  BridgeIInv'
    <2>. DEFINE c == IF ~refused THEN core[r] ELSE IF core[r] = "body" THEN "aborting" ELSE "ended"
    <2>1. /\ core[r] \in {"body", "leftover"} /\ core' = [core EXCEPT ![r] = c]
          /\ chunks' = [chunks EXCEPT ![r] = @ + 1]
          /\ IF Node /\ refused THEN UNCHANGED <<queue, late, seen>> ELSE Deliver(r, "data", core[r] = "body")
          /\ UNCHANGED callbackVars /\ attempt' = attempt
      BY <1>2 DEF OnData
    <2>2. chunks' \in [Requests -> Nat]
      BY <1>0, <2>1 DEF BridgeTypeOK
    <2>3. c \in CoreState /\ (c \in {"headers", "body", "aborting"} => InFlight(r)) /\ (core[r] = "body" => InFlight(r))
      BY <2>1 DEF CoreState, Ends, InFlight
    <2>. HIDE DEF c
    <2>4. CASE ~(Node /\ refused)
      BY <2>1, <2>2, <2>3, <2>4, CallbackKeeps
    <2>5. CASE Node /\ refused
      BY <2>1, <2>2, <2>3, <2>5, RefusedKeeps
    <2>. QED BY <2>4, <2>5
  <1>3. ASSUME NEW end \in Ends, OnComplete(r, end)
        PROVE  BridgeIInv'
    <2>. DEFINE counts == core[r] \in {"headers", "body", "aborting"}
    <2>1. /\ InFlight(r) \/ core[r] = "doubled"
          /\ core' = [core EXCEPT ![r] = end] /\ Deliver(r, "complete", counts)
          /\ UNCHANGED callbackVars /\ attempt' = attempt /\ chunks' = chunks
      BY <1>3 DEF OnComplete, InFlight
    <2>2. chunks' \in [Requests -> Nat] /\ core[r] # "off"
      BY <1>0, <2>1 DEF BridgeTypeOK, InFlight
    <2>3. end \in CoreState /\ end \notin {"headers", "body", "aborting"}
      BY DEF CoreState, Ends
    <2>4. counts \in BOOLEAN /\ (counts => InFlight(r))
      BY DEF InFlight
    <2>. HIDE DEF counts
    <2>. QED BY <2>1, <2>2, <2>3, <2>4, CallbackKeeps
  <1>. QED BY <1>1, <1>2, <1>3

\* A second attempt may find anything.
LEMMA RetryKeeps ==
    ASSUME BridgeIInv, NEW r \in Requests, Retry(r)
    PROVE  BridgeIInv'
  <1>0. BridgeTypeOK /\ Sound(r)
    BY DEF BridgeIInv
  <1>1. /\ caller[r] = "running" /\ attempt' = [attempt EXCEPT ![r] = 2]
        /\ core' = [core EXCEPT ![r] = "headers"] /\ chunks' = [chunks EXCEPT ![r] = 0]
        /\ UNCHANGED <<queue, late, seen, binding, style, givenUp, shared, stray, unreaped, caller, handle,
                       context, refs, tsfn, stop, registry>>
    BY DEF Retry, callbackVars
  <1>2. /\ core' \in [Requests -> CoreState]
        /\ core'[r] = "headers" /\ \A q \in Requests : q # r => core'[q] = core[q]
    BY <1>0, <1>1 DEF BridgeTypeOK, CoreState
  <1>3. /\ attempt' \in [Requests -> {1, 2}]
        /\ attempt'[r] = 2 /\ \A q \in Requests : q # r => attempt'[q] = attempt[q]
    BY <1>0, <1>1 DEF BridgeTypeOK
  <1>4. BridgeTypeOK'
    BY <1>0, <1>1, <1>2, <1>3 DEF BridgeTypeOK
  <1>5. ASSUME NEW q \in Requests, q # r
        PROVE  Sound(q)'
    <2>1. Sound(q)
      BY DEF BridgeIInv
    <2>. QED BY <1>1, <1>2, <1>3, <1>5, <2>1, OthersSound
  <1>6. Sound(r)'
    <2>1. Loose(r)' <=> Loose(r)
      BY <1>1 DEF Loose
    <2>2. Counted(r)' /\ QueueOfTsfn(r)'
      BY <1>0, <1>1 DEF Sound, Counted, OwnersOf, CallerOwns, TsfnOwns, QueueOfTsfn, Node, Java
    <2>3. CoreWithinCall(r)' /\ JavaOnly(r)'
      BY <1>0, <1>1, <2>1 DEF Sound, CoreWithinCall, JavaOnly, Java
    <2>4. FirstAttemptOpen(r)' /\ LateRetry(r)'
      BY <1>0, <1>1, <1>3, <2>1 DEF Sound, FirstAttemptOpen, LateRetry, Node
    <2>. QED BY <2>2, <2>3, <2>4 DEF Sound
  <1>7. Filed' /\ Findable' /\ HandlesApart'
    BY <1>1, RegistryKept DEF BridgeIInv
  <1>. QED BY <1>4, <1>5, <1>6, <1>7 DEF BridgeIInv

-----------------------------------------------------------------------------
(* The JS thread                                                            *)

\* An event has run: the last one retires the threadsafe function, which keeps the
\* bridge until its queue has drained.
LEMMA RunStreamEventKeeps ==
    ASSUME BridgeIInv, NEW r \in Requests, NEW stops \in BOOLEAN, RunStreamEvent(r, stops)
    PROVE  BridgeIInv'
  <1>0. BridgeTypeOK /\ Sound(r)
    BY DEF BridgeIInv
  <1>. DEFINE t == IF LastEvent(Head(queue[r])) THEN Retired(tsfn[r]) ELSE tsfn[r]
  <1>1. /\ queue[r] # <<>> /\ queue' = [queue EXCEPT ![r] = Tail(@)]
        /\ seen' = [seen EXCEPT ![r] = @ \cup Completes(Head(queue[r]))]
        /\ stop' = [stop EXCEPT ![r] = @ \/ stops]
        /\ tsfn' = [tsfn EXCEPT ![r] = t]
        /\ UNCHANGED <<binding, style, attempt, late, givenUp, shared, stray, unreaped, caller, handle, core, chunks,
                       context, refs, registry>>
    BY DEF RunStreamEvent, Shown, requestVars
  <1>2. queue[r] \in Seq(Event)
    BY <1>0 DEF BridgeTypeOK
  <1>3. /\ Head(queue[r]) \in Event /\ Tail(queue[r]) \in Seq(Event)
        /\ Len(Tail(queue[r])) = Len(queue[r]) - 1 /\ Len(queue[r]) \in Nat /\ Len(queue[r]) > 0
        /\ \A i \in 1 .. Len(Tail(queue[r])) : Tail(queue[r])[i] = queue[r][i + 1]
        /\ Head(queue[r]) = queue[r][1]
    BY <1>1, <1>2, HeadTailProperties, EmptySeq
  <1>4. tsfn[r] \in {"open", "released"} /\ Node
    BY <1>0, <1>1 DEF Sound, QueueOfTsfn, TsfnOwns, Counted, Node, Java, BridgeTypeOK
  <1>5. t \in {"open", "released"} /\ (t # tsfn[r] => Head(queue[r]).name = "complete")
    BY <1>4 DEF Retired, LastEvent
  <1>. HIDE DEF t
  <1>6. /\ tsfn' \in [Requests -> {"none", "open", "released", "closed"}]
        /\ tsfn'[r] = t /\ \A q \in Requests : q # r => tsfn'[q] = tsfn[q]
    BY <1>0, <1>1, <1>5 DEF BridgeTypeOK
  <1>7. /\ queue' \in [Requests -> Seq(Event)]
        /\ queue'[r] = Tail(queue[r]) /\ \A q \in Requests : q # r => queue'[q] = queue[q]
    BY <1>0, <1>1, <1>3 DEF BridgeTypeOK
  <1>8. seen' \in [Requests -> SUBSET {1, 2}]
    <2>1. seen[r] \cup Completes(Head(queue[r])) \in SUBSET {1, 2}
      BY <1>0, <1>3 DEF BridgeTypeOK, Event, Completes
    <2>. QED BY <1>0, <1>1, <2>1 DEF BridgeTypeOK
  <1>9. stop' \in [Requests -> BOOLEAN]
    <2>1. (stop[r] \/ stops) \in BOOLEAN
      OBVIOUS
    <2>. QED BY <1>0, <1>1, <2>1 DEF BridgeTypeOK
  <1>10. BridgeTypeOK'
    BY <1>0, <1>1, <1>6, <1>7, <1>8, <1>9 DEF BridgeTypeOK
  <1>11. ASSUME NEW q \in Requests, q # r
         PROVE  Sound(q)'
    <2>1. Sound(q)
      BY DEF BridgeIInv
    <2>. QED BY <1>1, <1>6, <1>7, <1>11, <2>1, OthersSound
  <1>12. Sound(r)'
    <2>1. Counted(r)'
      BY <1>0, <1>1, <1>4, <1>5, <1>6 DEF Sound, Counted, OwnersOf, CallerOwns, TsfnOwns, Node, Java
    <2>0. (Loose(r)' <=> Loose(r)) /\ (InFlight(r)' <=> InFlight(r))
      BY <1>1 DEF Loose, InFlight
    <2>2. CoreWithinCall(r)' /\ JavaOnly(r)' /\ LateRetry(r)'
      BY <1>0, <1>1, <2>0 DEF Sound, CoreWithinCall, JavaOnly, LateRetry, Node, Java
    <2>3. QueueOfTsfn(r)'
      BY <1>0, <1>1, <1>4, <1>5, <1>6 DEF Sound, QueueOfTsfn, TsfnOwns, Node
    <2>4. FirstAttemptOpen(r)'
      <3>. SUFFICES ASSUME attempt[r] = 1, InFlight(r), ~Loose(r)
                    PROVE  /\ tsfn'[r] = "open"
                           /\ \A i \in 1 .. Len(queue'[r]) : queue'[r][i].name # "complete"
        BY <1>1, <2>0 DEF FirstAttemptOpen
      <3>1. tsfn[r] = "open" /\ \A i \in 1 .. Len(queue[r]) : queue[r][i].name # "complete"
        BY <1>0, <1>4 DEF Sound, FirstAttemptOpen
      <3>2. tsfn'[r] = "open"
        BY <1>3, <1>5, <1>6, <3>1
      <3>3. ASSUME NEW i \in 1 .. Len(queue'[r])
            PROVE  queue'[r][i].name # "complete"
        <4>1. i \in 1 .. Len(Tail(queue[r])) /\ i + 1 \in 1 .. Len(queue[r])
          BY <1>3, <1>7
        <4>. QED BY <1>3, <1>7, <3>1, <4>1
      <3>. QED BY <3>2, <3>3
    <2>. QED BY <2>1, <2>2, <2>3, <2>4 DEF Sound
  <1>13. Filed' /\ Findable' /\ HandlesApart'
    BY <1>1, RegistryKept DEF BridgeIInv
  <1>. QED BY <1>10, <1>11, <1>12, <1>13 DEF BridgeIInv

\* The threadsafe function is finalized and lets the bridge go.
LEMMA FinalizeKeeps ==
    ASSUME BridgeIInv, NEW r \in Requests, FinalizeStreamBridge(r)
    PROVE  BridgeIInv'
  <1>0. BridgeTypeOK /\ Sound(r)
    BY DEF BridgeIInv
  <1>1. /\ tsfn[r] = "released" /\ queue[r] = <<>> /\ tsfn' = [tsfn EXCEPT ![r] = "closed"] /\ Drop(r)
        /\ UNCHANGED <<binding, style, attempt, late, givenUp, shared, stray, unreaped, caller, handle, core, chunks,
                       queue, stop, registry, seen>>
    BY DEF FinalizeStreamBridge, requestVars
  <1>2. Node /\ ~Java
    BY <1>0, <1>1 DEF Sound, Counted, Node, Java, BridgeTypeOK
  <1>3. refs[r] = OwnersOf(r) /\ refs[r] > 0
    BY <1>0, <1>1, <1>2 DEF Sound, Counted, OwnersOf, TsfnOwns
  <1>4. /\ context' \in [Requests -> {"none", "live", "freed"}]
        /\ refs' \in [Requests -> 0 .. Owners]
        /\ \A q \in Requests : q # r => context'[q] = context[q] /\ refs'[q] = refs[q]
        /\ refs'[r] = refs[r] - 1
        /\ context'[r] = "live" <=> refs'[r] > 0
    BY <1>1, <1>2, <1>3, DropFacts
  <1>5. /\ tsfn' \in [Requests -> {"none", "open", "released", "closed"}]
        /\ tsfn'[r] = "closed" /\ \A q \in Requests : q # r => tsfn'[q] = tsfn[q]
    BY <1>0, <1>1 DEF BridgeTypeOK
  <1>6. BridgeTypeOK'
    BY <1>0, <1>1, <1>4, <1>5 DEF BridgeTypeOK
  <1>7. ASSUME NEW q \in Requests, q # r
        PROVE  Sound(q)'
    <2>1. Sound(q)
      BY DEF BridgeIInv
    <2>. QED BY <1>1, <1>4, <1>5, <1>7, <2>1, OthersSound
  <1>8. Sound(r)'
    <2>1. Counted(r)'
      <3>1. OwnersOf(r)' = OwnersOf(r) - 1
        BY <1>1, <1>5 DEF OwnersOf, CallerOwns, TsfnOwns
      <3>. QED BY <1>1, <1>2, <1>3, <1>4, <3>1 DEF Counted, Node, Java
    <2>0. (Loose(r)' <=> Loose(r)) /\ (InFlight(r)' <=> InFlight(r))
      BY <1>1 DEF Loose, InFlight
    <2>2. CoreWithinCall(r)' /\ JavaOnly(r)' /\ LateRetry(r)'
      BY <1>0, <1>1, <2>0 DEF Sound, CoreWithinCall, JavaOnly, LateRetry, Node, Java
    <2>3. QueueOfTsfn(r)'
      BY <1>0, <1>1, <1>5 DEF Sound, QueueOfTsfn, TsfnOwns, Node
    <2>4. FirstAttemptOpen(r)'
      BY <1>0, <1>1, <1>2, <2>0 DEF Sound, FirstAttemptOpen, Node
    <2>. QED BY <2>1, <2>2, <2>3, <2>4 DEF Sound
  <1>9. Filed' /\ Findable' /\ HandlesApart'
    BY <1>1, RegistryKept DEF BridgeIInv
  <1>. QED BY <1>6, <1>7, <1>8, <1>9 DEF BridgeIInv

-----------------------------------------------------------------------------
(* Starting a request                                                       *)

\* A request that has not been started has no bridge, and what is created for it has
\* both owners.
LEMMA StartSound ==
    ASSUME BridgeIInv, NEW r \in Requests, NEW c \in {"running", "starting", "polling"}, NEW start \in {"headers", "off"},
           caller[r] = "new", caller' = [caller EXCEPT ![r] = c], core' = [core EXCEPT ![r] = start],
           Create(r), UNCHANGED <<binding, attempt, late, givenUp, stray, unreaped, queue>>, c = "starting" => Java,
           \A q \in Requests : q \in shared => q \in shared',
           \A q \in Requests : q \in shared' =>
              q \in shared \/ (q # r /\ caller[q] = "reaping") \/ (q = r /\ c = "starting")
    PROVE  /\ caller' \in [Requests -> {"new", "running", "starting", "polling", "collected", "reaping", "over"}]
           /\ core' \in [Requests -> CoreState]
           /\ context' \in [Requests -> {"none", "live", "freed"}]
           /\ refs' \in [Requests -> 0 .. Owners]
           /\ tsfn' \in [Requests -> {"none", "open", "released", "closed"}]
           /\ \A q \in Requests : Sound(q)'
  <1>0. BridgeTypeOK /\ Sound(r)
    BY DEF BridgeIInv
  <1>1. UNCHANGED <<binding, attempt, late, givenUp, stray, unreaped, queue>>
    OBVIOUS
  <1>2. /\ caller' \in [Requests -> {"new", "running", "starting", "polling", "collected", "reaping", "over"}]
        /\ caller'[r] = c /\ \A q \in Requests : q # r => caller'[q] = caller[q]
    BY <1>0 DEF BridgeTypeOK
  <1>3. /\ core' \in [Requests -> CoreState]
        /\ core'[r] = start /\ \A q \in Requests : q # r => core'[q] = core[q]
    BY <1>0 DEF BridgeTypeOK, CoreState
  <1>4. /\ context' = [context EXCEPT ![r] = "live"]
        /\ refs' = [refs EXCEPT ![r] = IF Node THEN 2 ELSE 0]
        /\ tsfn' = [tsfn EXCEPT ![r] = IF Node THEN "open" ELSE "none"]
        /\ context' \in [Requests -> {"none", "live", "freed"}]
        /\ refs' \in [Requests -> 0 .. Owners]
        /\ tsfn' \in [Requests -> {"none", "open", "released", "closed"}]
    BY <1>0, CreateFacts
  <1>5. /\ context'[r] = "live" /\ refs'[r] = (IF Node THEN 2 ELSE 0)
        /\ tsfn'[r] = (IF Node THEN "open" ELSE "none")
        /\ \A q \in Requests : q # r => context'[q] = context[q] /\ refs'[q] = refs[q] /\ tsfn'[q] = tsfn[q]
    BY <1>0, <1>4 DEF BridgeTypeOK
  <1>6. ASSUME NEW q \in Requests, q # r
        PROVE  Sound(q)'
    <2>1. Sound(q)
      BY DEF BridgeIInv
    <2>. QED BY <1>1, <1>2, <1>3, <1>5, <1>6, <2>1, OthersSound
  <1>7. Sound(r)'
    <2>1. queue[r] = <<>> /\ r \notin givenUp /\ ~Loose(r) /\ ~Loose(r)' /\ r \notin shared
      BY <1>0, <1>1 DEF Sound, QueueOfTsfn, TsfnOwns, JavaOnly, CoreWithinCall, Loose
    <2>2. Counted(r)'
      <3>1. CASE Node
        BY <1>1, <1>2, <1>5, <3>1 DEF Counted, OwnersOf, CallerOwns, TsfnOwns, Node, Java
      <3>2. CASE ~Node
        BY <1>1, <1>2, <1>5, <2>1, <3>2 DEF Counted, CallerOwns, Node
      <3>. QED BY <3>1, <3>2
    <2>3. CoreWithinCall(r)' /\ JavaOnly(r)' /\ LateRetry(r)'
      BY <1>0, <1>1, <1>2, <2>1 DEF Sound, CoreWithinCall, JavaOnly, LateRetry, Node, Java
    <2>4. QueueOfTsfn(r)'
      BY <1>1, <1>2, <1>5, <2>1 DEF QueueOfTsfn, TsfnOwns, Node
    <2>5. FirstAttemptOpen(r)'
      <3>1. Len(queue'[r]) = 0
        BY <1>1, <2>1
      <3>. QED BY <1>1, <1>5, <3>1 DEF FirstAttemptOpen, Node
    <2>. QED BY <2>2, <2>3, <2>4, <2>5 DEF Sound
  <1>. QED BY <1>2, <1>3, <1>4, <1>6, <1>7

\* A blocking request is started.
LEMMA StartBlockingKeeps ==
    ASSUME BridgeIInv, NEW r \in Requests, NEW start \in {"headers", "off"}, StartBlocking(r, start)
    PROVE  BridgeIInv'
  <1>0. BridgeTypeOK
    BY DEF BridgeIInv
  <1>1. /\ caller[r] = "new" /\ caller' = [caller EXCEPT ![r] = "running"] /\ core' = [core EXCEPT ![r] = start]
        /\ Create(r)
        /\ UNCHANGED <<binding, style, attempt, late, givenUp, shared, stray, unreaped, queue>>
        /\ UNCHANGED <<handle, chunks, stop, registry, seen>>
    BY DEF StartBlocking, requestVars
  <1>2. /\ caller' \in [Requests -> {"new", "running", "starting", "polling", "collected", "reaping", "over"}]
        /\ core' \in [Requests -> CoreState]
        /\ context' \in [Requests -> {"none", "live", "freed"}]
        /\ refs' \in [Requests -> 0 .. Owners]
        /\ tsfn' \in [Requests -> {"none", "open", "released", "closed"}]
        /\ \A q \in Requests : Sound(q)'
    BY <1>1, StartSound
  <1>3. BridgeTypeOK'
    BY <1>0, <1>1, <1>2 DEF BridgeTypeOK
  <1>4. Filed' /\ Findable' /\ HandlesApart'
    BY <1>0, <1>1, RegistryKeptByOne DEF BridgeIInv
  <1>. QED BY <1>2, <1>3, <1>4 DEF BridgeIInv

\* In the addon no entry has a handle that a new basket may have, and nobody awaits one.
LEMMA FreeHasNoEntry ==
    ASSUME BridgeIInv, Node, NEW h, Free(h)
    PROVE  Entries(h) = {} /\ Awaited(h) = {}
  <1>1. ASSUME NEW q \in Requests
        PROVE  caller[q] # "reaping" /\ q \notin shared
    BY DEF BridgeIInv, Sound, JavaOnly, Node, Java
  <1>2. ASSUME NEW i \in 1 .. Len(registry), registry[i].handle = h
        PROVE  FALSE
    <2>1. /\ registry[i].request \in Requests /\ handle[registry[i].request] = h
          /\ registry[i].request \notin shared => caller[registry[i].request] \in {"polling", "reaping"}
      BY <1>2, EntryFields DEF BridgeIInv, Filed
    <2>2. caller[registry[i].request] \in {"reaping", "over"}
      BY <2>1 DEF Free
    <2>. QED BY <1>1, <2>1, <2>2
  <1>. QED BY <1>1, <1>2 DEF Entries, Awaited

\* A request of its own handle is filed: its entry is the only one it has, and found.
LEMMA RegisterKeeps ==
    ASSUME BridgeIInv, NEW r \in Requests, NEW h \in Handles \cup {NoHandle},
           handle' \in [Requests -> Handles \cup {NoHandle}], handle'[r] = h,
           \A q \in Requests : q # r => handle'[q] = handle[q],
           caller' = [caller EXCEPT ![r] = "polling"], givenUp' = givenUp, shared' = shared, r \notin givenUp,
           caller[r] \in {"new", "starting"}, Node => Entries(h) = {}, registry' = Registered(r, h),
           \A q \in Requests : q # r /\ Active(q) /\ handle[q] = h => q \in shared /\ r \in shared,
           r \notin shared => Entries(h) = {}
    PROVE  registry' \in Seq(Entry) /\ Filed' /\ Findable' /\ HandlesApart'
  <1>. DEFINE e == [handle |-> h, request |-> r]
  <1>0. BridgeTypeOK /\ registry \in Seq(Entry) /\ Len(registry) \in Nat
    BY DEF BridgeIInv, BridgeTypeOK
  <1>1. caller'[r] = "polling" /\ \A q \in Requests : q # r => caller'[q] = caller[q]
    BY <1>0 DEF BridgeTypeOK
  <1>2. e \in Entry /\ e.handle = h /\ e.request = r
    BY DEF Entry
  <1>3. registry' = <<e>> \o registry
    BY DEF Registered
  <1>. HIDE DEF e
  <1>4. /\ registry' \in Seq(Entry) /\ Len(registry') = Len(registry) + 1
        /\ registry'[1] = e /\ \A k \in 2 .. Len(registry) + 1 : registry'[k] = registry[k - 1]
    BY <1>0, <1>2, <1>3, InFront
  <1>5. \A i \in 1 .. Len(registry) :
           /\ registry[i].request \in Requests /\ registry[i].request # r
           /\ registry[i].handle = handle'[registry[i].request]
           /\ caller'[registry[i].request] \in {"polling", "reaping", "over"}
           /\ registry[i].request \notin givenUp
           /\ registry[i].request \notin shared => caller'[registry[i].request] \in {"polling", "reaping"}
    BY <1>0, <1>1, EntryFields DEF BridgeIInv, Filed
  <1>6. ASSUME NEW k \in 1 .. Len(registry')
        PROVE  k = 1 \/ (k \in 2 .. Len(registry) + 1 /\ k - 1 \in 1 .. Len(registry))
    BY <1>0, <1>4
  <1>7. ASSUME NEW k \in 1 .. Len(registry')
        PROVE  /\ registry'[k].handle = handle'[registry'[k].request]
               /\ caller'[registry'[k].request] \in {"polling", "reaping", "over"}
               /\ registry'[k].request \notin givenUp'
               /\ registry'[k].request \notin shared' => caller'[registry'[k].request] \in {"polling", "reaping"}
    <2>1. CASE k = 1
      BY <1>1, <1>2, <1>4, <2>1
    <2>2. CASE k \in 2 .. Len(registry) + 1 /\ k - 1 \in 1 .. Len(registry)
      BY <1>4, <1>5, <2>2
    <2>. QED BY <1>6, <2>1, <2>2
  <1>8. ASSUME NEW i \in 1 .. Len(registry'), NEW j \in 1 .. Len(registry'),
               registry'[i].request = registry'[j].request
        PROVE  i = j
    <2>1. CASE i = 1 /\ j = 1
      BY <2>1
    <2>2. CASE i = 1 /\ j \in 2 .. Len(registry) + 1 /\ j - 1 \in 1 .. Len(registry)
      BY <1>2, <1>4, <1>5, <1>8, <2>2
    <2>3. CASE j = 1 /\ i \in 2 .. Len(registry) + 1 /\ i - 1 \in 1 .. Len(registry)
      BY <1>2, <1>4, <1>5, <1>8, <2>3
    <2>4. CASE i \in 2 .. Len(registry) + 1 /\ i - 1 \in 1 .. Len(registry)
               /\ j \in 2 .. Len(registry) + 1 /\ j - 1 \in 1 .. Len(registry)
      <3>1. registry[i - 1].request = registry[j - 1].request
        BY <1>4, <1>8, <2>4
      <3>2. i - 1 = j - 1
        BY <2>4, <3>1 DEF BridgeIInv, Filed
      <3>. QED BY <2>4, <3>2
    <2>. QED BY <1>6, <2>1, <2>2, <2>3, <2>4
  <1>9. Filed'
    BY <1>7, <1>8 DEF Filed
  <1>10. Findable'
    <2>. SUFFICES ASSUME NEW q \in Requests, caller'[q] \in {"polling", "reaping"}, q \notin givenUp',
                         q \notin shared'
                  PROVE  \E i \in 1 .. Len(registry') : registry'[i].request = q
      BY DEF Findable
    <2>1. CASE q = r
      <3>1. 1 \in 1 .. Len(registry') /\ registry'[1].request = q
        BY <1>0, <1>2, <1>4, <2>1
      <3>. QED BY <3>1
    <2>2. CASE q # r
      <3>1. PICK i \in 1 .. Len(registry) : registry[i].request = q
        BY <1>1, <2>2 DEF BridgeIInv, Findable
      <3>2. i + 1 \in 2 .. Len(registry) + 1 /\ i + 1 \in 1 .. Len(registry') /\ (i + 1) - 1 = i
        BY <1>0, <1>4
      <3>3. registry'[i + 1] = registry[i]
        BY <1>4, <3>2
      <3>. QED BY <3>1, <3>2, <3>3
    <2>. QED BY <2>1, <2>2
  <1>11. HandlesApart'
    <2>. SUFFICES ASSUME NEW q \in Requests, Active(q)', q \notin shared'
                  PROVE  /\ \A p \in Requests : Active(p)' /\ handle'[p] = handle'[q] => p = q
                         /\ \A k \in 1 .. Len(registry') : registry'[k].handle = handle'[q] => registry'[k].request = q
      BY DEF HandlesApart
    <2>1. CASE q = r
      <3>1. \A p \in Requests : Active(p)' /\ handle'[p] = h => p = r
        BY <1>1, <2>1 DEF Active
      <3>2. \A i \in 1 .. Len(registry) : registry[i].handle # h
        BY <2>1 DEF Entries
      <3>3. \A k \in 1 .. Len(registry') : registry'[k].handle = h => registry'[k].request = r
        BY <1>2, <1>4, <1>6, <3>2
      <3>. QED BY <2>1, <3>1, <3>3
    <2>2. CASE q # r
      <3>1. Active(q) /\ handle[q] # h /\ handle'[q] = handle[q]
        BY <1>1, <2>2 DEF Active
      <3>2. \A p \in Requests : Active(p)' /\ handle'[p] = handle'[q] => p = q
        BY <1>1, <3>1 DEF BridgeIInv, HandlesApart, Active
      <3>3. \A i \in 1 .. Len(registry) : registry[i].handle = handle[q] => registry[i].request = q
        BY <3>1 DEF BridgeIInv, HandlesApart
      <3>4. \A k \in 1 .. Len(registry') : registry'[k].handle = handle'[q] => registry'[k].request = q
        <4>. SUFFICES ASSUME NEW k \in 1 .. Len(registry'), registry'[k].handle = handle[q]
                      PROVE  registry'[k].request = q
          BY <3>1
        <4>1. k # 1
          BY <1>2, <1>4, <3>1
        <4>2. k \in 2 .. Len(registry) + 1 /\ k - 1 \in 1 .. Len(registry)
          BY <1>6, <4>1
        <4>. QED BY <1>4, <3>3, <4>2
      <3>. QED BY <3>2, <3>4
    <2>. QED BY <2>1, <2>2
  <1>. QED BY <1>4, <1>9, <1>10, <1>11

\* A polled request is started: filed at once by the addon, not yet by the JNI bridge.
LEMMA StartPolledKeeps ==
    ASSUME BridgeIInv, NEW r \in Requests, NEW h \in Handles, NEW start \in {"headers", "off"},
           StartPolled(r, h, start)
    PROVE  BridgeIInv'
  <1>. DEFINE c == IF Node THEN "polling" ELSE "starting"
  <1>0. BridgeTypeOK /\ Sound(r)
    BY DEF BridgeIInv
  <1>1. /\ caller[r] = "new" /\ caller' = [caller EXCEPT ![r] = c] /\ core' = [core EXCEPT ![r] = start]
        /\ Create(r) /\ Free(h)
        /\ handle' = [handle EXCEPT ![r] = h]
        /\ registry' = IF Node THEN Registered(r, h) ELSE registry
        /\ shared' = IF Awaited(h) = {} /\ Entries(h) = {} THEN shared ELSE shared \cup Awaited(h) \cup {r}
        /\ UNCHANGED <<binding, style, attempt, late, givenUp, stray, unreaped, chunks, queue, stop, seen>>
    BY DEF StartPolled
  <1>2. Node => Entries(h) = {} /\ Awaited(h) = {} /\ shared' = shared
    BY <1>1, FreeHasNoEntry
  <1>3. /\ c \in {"running", "starting", "polling"} /\ (c = "starting" => Java)
        /\ c = IF Node THEN "polling" ELSE "starting"
    BY <1>0 DEF BridgeTypeOK, Node, Java
  <1>. HIDE DEF c
  <1>4. /\ \A q \in Requests : q \in shared => q \in shared'
        /\ \A q \in Requests : q \in shared' =>
              q \in shared \/ (q # r /\ caller[q] = "reaping") \/ (q = r /\ c = "starting")
        /\ shared' \in SUBSET Requests
    <2>1. CASE Node
      BY <1>0, <1>2, <2>1 DEF BridgeTypeOK
    <2>2. CASE ~Node
      BY <1>0, <1>1, <1>3, <2>2 DEF BridgeTypeOK, Awaited
    <2>. QED BY <2>1, <2>2
  <1>5. /\ caller' \in [Requests -> {"new", "running", "starting", "polling", "collected", "reaping", "over"}]
        /\ core' \in [Requests -> CoreState]
        /\ context' \in [Requests -> {"none", "live", "freed"}]
        /\ refs' \in [Requests -> 0 .. Owners]
        /\ tsfn' \in [Requests -> {"none", "open", "released", "closed"}]
        /\ \A q \in Requests : Sound(q)'
    BY <1>1, <1>3, <1>4, StartSound
  <1>6. /\ handle' \in [Requests -> Handles \cup {NoHandle}]
        /\ handle'[r] = h /\ \A q \in Requests : q # r => handle'[q] = handle[q]
    BY <1>0, <1>1 DEF BridgeTypeOK
  <1>7. r \notin givenUp /\ r \notin shared
    BY <1>0, <1>1 DEF Sound, JavaOnly
  <1>8. \A q \in Requests : Active(q) /\ handle[q] = h => q \in Awaited(h)
    BY <1>1 DEF Free, Active, Awaited
  <1>9. registry' \in Seq(Entry) /\ Filed' /\ Findable' /\ HandlesApart'
    <2>1. CASE Node
      <3>1. caller' = [caller EXCEPT ![r] = "polling"] /\ registry' = Registered(r, h) /\ shared' = shared
        BY <1>1, <1>2, <1>3, <2>1
      <3>2. \A q \in Requests : q # r /\ Active(q) /\ handle[q] = h => q \in shared /\ r \in shared
        BY <1>2, <1>8, <2>1
      <3>. QED BY <1>1, <1>2, <1>6, <1>7, <2>1, <3>1, <3>2, RegisterKeeps
    <2>2. CASE ~Node
      <3>1. /\ caller'[r] = "starting" /\ \A q \in Requests : q # r => caller'[q] = caller[q]
        BY <1>0, <1>1, <1>3, <2>2 DEF BridgeTypeOK
      <3>2. registry' = registry
        BY <1>1, <2>2
      <3>3. \A i \in 1 .. Len(registry) : registry[i].request \in Requests /\ registry[i].request # r
        BY <1>0, <1>1, EntryFields DEF BridgeIInv, Filed
      <3>4. Filed'
        BY <1>1, <1>4, <1>6, <3>1, <3>2, <3>3 DEF BridgeIInv, Filed
      <3>5. Findable'
        BY <1>1, <1>4, <3>1, <3>2 DEF BridgeIInv, Findable
      <3>6. HandlesApart'
        <4>. SUFFICES ASSUME NEW q \in Requests, Active(q)', q \notin shared'
                      PROVE  /\ \A p \in Requests : Active(p)' /\ handle'[p] = handle'[q] => p = q
                             /\ \A i \in 1 .. Len(registry) : registry[i].handle = handle'[q] => registry[i].request = q
          BY <3>2 DEF HandlesApart
        <4>1. CASE q = r
          <5>1. Awaited(h) = {} /\ Entries(h) = {}
            BY <1>1, <4>1
          <5>2. \A p \in Requests : Active(p)' /\ handle'[p] = h => p = r
            BY <1>6, <1>8, <3>1, <5>1 DEF Active
          <5>3. \A i \in 1 .. Len(registry) : registry[i].handle # h
            BY <5>1 DEF Entries
          <5>. QED BY <1>6, <4>1, <5>2, <5>3
        <4>2. CASE q # r
          <5>1. Active(q) /\ q \notin shared /\ handle'[q] = handle[q]
            BY <1>4, <1>6, <3>1, <4>2 DEF Active
          <5>2. handle[q] # h
            BY <1>1, <1>8, <5>1
          <5>3. /\ \A p \in Requests : Active(p) /\ handle[p] = handle[q] => p = q
                /\ \A i \in 1 .. Len(registry) : registry[i].handle = handle[q] => registry[i].request = q
            BY <5>1 DEF BridgeIInv, HandlesApart
          <5>4. \A p \in Requests : Active(p)' /\ handle'[p] = handle[q] => p = q
            BY <1>6, <3>1, <5>2, <5>3 DEF Active
          <5>. QED BY <5>1, <5>3, <5>4
        <4>. QED BY <4>1, <4>2
      <3>7. registry' \in Seq(Entry)
        BY <1>0, <3>2 DEF BridgeTypeOK
      <3>. QED BY <3>4, <3>5, <3>6, <3>7
    <2>. QED BY <2>1, <2>2
  <1>10. BridgeTypeOK'
    BY <1>0, <1>1, <1>4, <1>5, <1>6, <1>9 DEF BridgeTypeOK
  <1>. QED BY <1>5, <1>9, <1>10 DEF BridgeIInv

\* The start of a polled request fails: only the threadsafe function is left of it.
LEMMA StartFailsKeeps ==
    ASSUME BridgeIInv, NEW r \in Requests, StartFails(r)
    PROVE  BridgeIInv'
  <1>0. BridgeTypeOK /\ Sound(r)
    BY DEF BridgeIInv
  <1>1. /\ caller[r] = "new" /\ caller' = [caller EXCEPT ![r] = "over"]
        /\ context' = [context EXCEPT ![r] = IF Node THEN "live" ELSE "freed"]
        /\ refs' = [refs EXCEPT ![r] = IF Node THEN 1 ELSE 0]
        /\ tsfn' = [tsfn EXCEPT ![r] = IF Node THEN "released" ELSE "none"]
        /\ UNCHANGED <<binding, style, attempt, late, givenUp, shared, stray, unreaped, handle, core, chunks, queue,
                       stop, registry, seen>>
    BY DEF StartFails, requestVars, Owners
  <1>2. /\ caller' \in [Requests -> {"new", "running", "starting", "polling", "collected", "reaping", "over"}]
        /\ caller'[r] = "over" /\ \A q \in Requests : q # r => caller'[q] = caller[q]
    BY <1>0, <1>1 DEF BridgeTypeOK
  <1>3. /\ context' \in [Requests -> {"none", "live", "freed"}]
        /\ refs' \in [Requests -> 0 .. Owners]
        /\ tsfn' \in [Requests -> {"none", "open", "released", "closed"}]
    BY <1>0, <1>1 DEF BridgeTypeOK, Owners
  <1>4. /\ context'[r] = (IF Node THEN "live" ELSE "freed") /\ refs'[r] = (IF Node THEN 1 ELSE 0)
        /\ tsfn'[r] = (IF Node THEN "released" ELSE "none")
        /\ \A q \in Requests : q # r => context'[q] = context[q] /\ refs'[q] = refs[q] /\ tsfn'[q] = tsfn[q]
    BY <1>0, <1>1 DEF BridgeTypeOK
  <1>5. BridgeTypeOK'
    BY <1>0, <1>1, <1>2, <1>3 DEF BridgeTypeOK
  <1>6. ASSUME NEW q \in Requests, q # r
        PROVE  Sound(q)'
    <2>1. Sound(q)
      BY DEF BridgeIInv
    <2>. QED BY <1>1, <1>2, <1>4, <1>6, <2>1, OthersSound
  <1>7. Sound(r)'
    <2>1. queue[r] = <<>> /\ r \notin givenUp /\ r \notin shared /\ core[r] = "off" /\ ~Loose(r) /\ ~Loose(r)'
      BY <1>0, <1>1 DEF Sound, QueueOfTsfn, TsfnOwns, JavaOnly, CoreWithinCall, Loose
    <2>2. Counted(r)'
      <3>1. CASE Node
        BY <1>1, <1>2, <1>4, <3>1 DEF Counted, OwnersOf, CallerOwns, TsfnOwns, Node, Java
      <3>2. CASE ~Node
        BY <1>1, <1>2, <1>4, <2>1, <3>2 DEF Counted, CallerOwns, Node
      <3>. QED BY <3>1, <3>2
    <2>3. CoreWithinCall(r)' /\ JavaOnly(r)' /\ LateRetry(r)'
      BY <1>0, <1>1, <1>2, <2>1 DEF Sound, CoreWithinCall, JavaOnly, LateRetry, Node
    <2>4. QueueOfTsfn(r)' /\ FirstAttemptOpen(r)'
      BY <1>1, <1>2, <1>4, <2>1 DEF QueueOfTsfn, TsfnOwns, Node, FirstAttemptOpen, InFlight
    <2>. QED BY <2>2, <2>3, <2>4 DEF Sound
  <1>8. Filed' /\ Findable' /\ HandlesApart'
    BY <1>0, <1>1, RegistryKeptByOne DEF BridgeIInv
  <1>. QED BY <1>5, <1>6, <1>7, <1>8 DEF BridgeIInv

-----------------------------------------------------------------------------
(* The calls that were begun                                                *)

\* A caller moves on without letting its context go.
LEMMA MovesOnSound ==
    ASSUME BridgeIInv, NEW r \in Requests,
           NEW c \in {"polling", "collected", "reaping"}, NEW k \in CoreState,
           CallerOwns(r), caller' = [caller EXCEPT ![r] = c], core' = [core EXCEPT ![r] = k],
           k \in {core[r], "off"}, k # "off" /\ ~Loose(r)' => c = "polling", c = "reaping" => Java,
           binding' = binding, attempt' = attempt, late' = late, shared' = shared,
           UNCHANGED <<context, bridgeVars>>,
           \A q \in Requests : q # r => /\ q \in givenUp' <=> q \in givenUp
                                        /\ q \in stray' <=> q \in stray
                                        /\ q \in unreaped' <=> q \in unreaped,
           Loose(r) => Loose(r)', Loose(r)' => c = "reaping",
           r \in givenUp' => Java /\ c \in {"polling", "reaping"}, r \in shared => c \in {"polling", "reaping"}
    PROVE  /\ caller' \in [Requests -> {"new", "running", "starting", "polling", "collected", "reaping", "over"}]
           /\ core' \in [Requests -> CoreState]
           /\ \A q \in Requests : Sound(q)'
  <1>0. BridgeTypeOK /\ Sound(r)
    BY DEF BridgeIInv
  <1>1. /\ caller' \in [Requests -> {"new", "running", "starting", "polling", "collected", "reaping", "over"}]
        /\ caller'[r] = c /\ \A q \in Requests : q # r => caller'[q] = caller[q]
    BY <1>0 DEF BridgeTypeOK
  <1>2. core' \in [Requests -> CoreState] /\ core'[r] = k /\ \A q \in Requests : q # r => core'[q] = core[q]
    BY <1>0 DEF BridgeTypeOK
  <1>3. UNCHANGED <<refs, tsfn, queue, stop>>
    BY DEF bridgeVars
  <1>4. ASSUME NEW q \in Requests, q # r
        PROVE  Sound(q)'
    <2>1. Sound(q)
      BY DEF BridgeIInv
    <2>. QED BY <1>1, <1>2, <1>3, <1>4, <2>1, OthersSound
  <1>5. Sound(r)'
    <2>1. Counted(r)'
      BY <1>0, <1>1, <1>3 DEF Sound, Counted, OwnersOf, CallerOwns, TsfnOwns, Node, Java
    <2>2. CoreWithinCall(r)' /\ JavaOnly(r)'
      BY <1>0, <1>1, <1>2 DEF Sound, CoreWithinCall, JavaOnly, Java
    <2>3. QueueOfTsfn(r)'
      BY <1>0, <1>1, <1>3 DEF Sound, QueueOfTsfn, TsfnOwns, Node, CallerOwns
    <2>4. FirstAttemptOpen(r)'
      BY <1>0, <1>2, <1>3 DEF Sound, FirstAttemptOpen, InFlight, Node
    <2>5. LateRetry(r)'
      BY <1>0 DEF Sound, LateRetry, Node
    <2>. QED BY <2>1, <2>2, <2>3, <2>4, <2>5 DEF Sound
  <1>. QED BY <1>1, <1>2, <1>4, <1>5

\* A core that stays as it is.
LEMMA SameCore ==
    ASSUME BridgeTypeOK, NEW r \in Requests, core' = core
    PROVE  core' = [core EXCEPT ![r] = core[r]] /\ core[r] \in CoreState
BY DEF BridgeTypeOK

\* registerStreamContext() files the context or, without memory, gives it up.
LEMMA RegisterStreamContextKeeps ==
    ASSUME BridgeIInv, NEW r \in Requests, RegisterStreamContext(r) \/ RegisterStreamContextFails(r)
    PROVE  BridgeIInv'
  <1>0. BridgeTypeOK /\ Sound(r)
    BY DEF BridgeIInv
  <1>1. /\ caller[r] = "starting" /\ caller' = [caller EXCEPT ![r] = "polling"]
        /\ UNCHANGED <<binding, style, attempt, late, shared, stray, unreaped, handle, core, chunks, context,
                       bridgeVars, seen>>
    BY DEF RegisterStreamContext, RegisterStreamContextFails, requestVars
  <1>2. Java /\ ~Node /\ r \notin givenUp /\ CallerOwns(r) /\ ~Loose(r) /\ ~Loose(r)' /\ Active(r)
    BY <1>0, <1>1 DEF Sound, JavaOnly, CallerOwns, CoreWithinCall, Loose, Active, Node, Java
  <1>3. core' = [core EXCEPT ![r] = core[r]] /\ core[r] \in CoreState
    BY <1>0, <1>1, SameCore
  <1>4. \/ givenUp' = givenUp /\ registry' = Registered(r, handle[r])
        \/ givenUp' = givenUp \cup {r} /\ registry' = registry
    BY DEF RegisterStreamContext, RegisterStreamContextFails, requestVars
  <1>5. \A q \in Requests : q # r => (q \in givenUp' <=> q \in givenUp)
    BY <1>4
  <1>6. /\ caller' \in [Requests -> {"new", "running", "starting", "polling", "collected", "reaping", "over"}]
        /\ core' \in [Requests -> CoreState]
        /\ \A q \in Requests : Sound(q)'
    BY <1>1, <1>2, <1>3, <1>5, MovesOnSound
  <1>7. /\ caller'[r] = "polling" /\ \A q \in Requests : q # r => caller'[q] = caller[q]
    BY <1>0, <1>1 DEF BridgeTypeOK
  <1>8. \A i \in 1 .. Len(registry) : registry[i].request \in Requests /\ registry[i].request # r
    BY <1>0, <1>1, EntryFields DEF BridgeIInv, Filed
  <1>9. registry' \in Seq(Entry) /\ Filed' /\ Findable' /\ HandlesApart'
    <2>1. CASE givenUp' = givenUp /\ registry' = Registered(r, handle[r])
      <3>1. \A q \in Requests : q # r /\ Active(q) /\ handle[q] = handle[r] => q \in shared /\ r \in shared
        BY <1>2 DEF BridgeIInv, HandlesApart
      <3>2. r \notin shared => Entries(handle[r]) = {}
        BY <1>2, <1>8 DEF BridgeIInv, HandlesApart, Entries
      <3>3. /\ handle' \in [Requests -> Handles \cup {NoHandle}] /\ handle'[r] = handle[r]
            /\ \A q \in Requests : q # r => handle'[q] = handle[q]
        BY <1>0, <1>1 DEF BridgeTypeOK
      <3>4. handle[r] \in Handles \cup {NoHandle}
        BY <1>0 DEF BridgeTypeOK
      <3>. QED BY <1>1, <1>2, <2>1, <3>1, <3>2, <3>3, <3>4, RegisterKeeps
    <2>2. CASE givenUp' = givenUp \cup {r} /\ registry' = registry
      <3>1. Filed'
        BY <1>1, <1>7, <1>8, <2>2 DEF BridgeIInv, Filed
      <3>2. Findable'
        BY <1>1, <1>7, <2>2 DEF BridgeIInv, Findable
      <3>3. HandlesApart'
        BY <1>1, <1>2, <1>7, <2>2 DEF BridgeIInv, HandlesApart, Active
      <3>4. registry' \in Seq(Entry)
        BY <1>0, <2>2 DEF BridgeTypeOK
      <3>. QED BY <3>1, <3>2, <3>3, <3>4
    <2>. QED BY <1>4, <2>1, <2>2
  <1>10. BridgeTypeOK'
    <2>1. givenUp' \in SUBSET Requests
      BY <1>0, <1>4 DEF BridgeTypeOK
    <2>. QED BY <1>0, <1>1, <1>6, <1>9, <2>1 DEF BridgeTypeOK, bridgeVars
  <1>. QED BY <1>6, <1>9, <1>10 DEF BridgeIInv

\* What the final answer of a poll does to the core, the stray and the unreaped requests.
LEMMA FinalAnswerFacts ==
    ASSUME BridgeTypeOK, NEW r \in Requests, NEW how, FinalAnswer(r, how)
    PROVE  /\ \E k \in CoreState : /\ core' = [core EXCEPT ![r] = k] /\ k \in {core[r], "off"}
                                   /\ how = "reaped" => k = "off"
           /\ stray' \in SUBSET Requests /\ unreaped' \in SUBSET Requests
           /\ \A q \in Requests : q # r => /\ q \in stray' <=> q \in stray
                                           /\ q \in unreaped' <=> q \in unreaped
           /\ (Loose(r) => Loose(r)') /\ (how \in {"stray", "unreaped"} => Loose(r)')
           /\ UNCHANGED <<binding, style, attempt, late, givenUp, shared>>
  <1>1. /\ core' = IF how = "reaped" THEN [core EXCEPT ![r] = "off"] ELSE core
        /\ stray' = IF how = "stray" THEN stray \cup {r} ELSE stray
        /\ unreaped' = IF how = "unreaped" THEN unreaped \cup {r} ELSE unreaped
        /\ UNCHANGED <<binding, style, attempt, late, givenUp, shared>>
    BY DEF FinalAnswer
  <1>2. core \in [Requests -> CoreState] /\ stray \in SUBSET Requests /\ unreaped \in SUBSET Requests
    BY DEF BridgeTypeOK
  <1>3. "off" \in CoreState /\ core[r] \in CoreState
    BY <1>2 DEF CoreState
  <1>4. \E k \in CoreState : core' = [core EXCEPT ![r] = k] /\ k \in {core[r], "off"} /\ (how = "reaped" => k = "off")
    <2>1. CASE how = "reaped"
      BY <1>1, <1>3, <2>1
    <2>2. CASE how # "reaped"
      <3>1. core' = [core EXCEPT ![r] = core[r]]
        BY <1>1, <1>2, <2>2
      <3>. QED BY <1>3, <2>2, <3>1
    <2>. QED BY <2>1, <2>2
  <1>5. stray' \in SUBSET Requests /\ unreaped' \in SUBSET Requests
    BY <1>1, <1>2
  <1>6. \A q \in Requests : q # r => (q \in stray' <=> q \in stray) /\ (q \in unreaped' <=> q \in unreaped)
    BY <1>1
  <1>7. (Loose(r) => Loose(r)') /\ (how \in {"stray", "unreaped"} => Loose(r)')
    BY <1>1 DEF Loose
  <1>. QED BY <1>1, <1>4, <1>5, <1>6, <1>7

\* The blocking call returns to the addon.
LEMMA ExecuteRequestKeeps ==
    ASSUME BridgeIInv, NEW r \in Requests, ExecuteRequest(r)
    PROVE  BridgeIInv'
  <1>0. BridgeTypeOK /\ Sound(r)
    BY DEF BridgeIInv
  <1>1. /\ caller[r] = "running" /\ caller' = [caller EXCEPT ![r] = "collected"] /\ core' = [core EXCEPT ![r] = "off"]
        /\ UNCHANGED <<binding, style, attempt, late, givenUp, shared, stray, unreaped, handle, chunks, context,
                       bridgeVars, registry, seen>>
    BY DEF ExecuteRequest, requestVars
  <1>2. CallerOwns(r) /\ r \notin givenUp /\ r \notin shared /\ ~Loose(r) /\ ~Loose(r)' /\ "off" \in CoreState
    BY <1>0, <1>1 DEF CallerOwns, Sound, JavaOnly, CoreWithinCall, Loose, CoreState
  <1>3. /\ caller' \in [Requests -> {"new", "running", "starting", "polling", "collected", "reaping", "over"}]
        /\ core' \in [Requests -> CoreState]
        /\ \A q \in Requests : Sound(q)'
    BY <1>1, <1>2, MovesOnSound
  <1>4. BridgeTypeOK'
    BY <1>0, <1>1, <1>3 DEF BridgeTypeOK, bridgeVars
  <1>5. Filed' /\ Findable' /\ HandlesApart'
    BY <1>0, <1>1, RegistryKeptByOne DEF BridgeIInv
  <1>. QED BY <1>3, <1>4, <1>5 DEF BridgeIInv

\* The answer of a poll returns to the JNI bridge.
LEMMA CollectResponseKeeps ==
    ASSUME BridgeIInv, NEW r \in Requests, NEW how \in {"reaped", "stray", "unreaped"}, CollectResponse(r, how)
    PROVE  BridgeIInv'
  <1>0. BridgeTypeOK /\ Sound(r)
    BY DEF BridgeIInv
  <1>1. /\ caller[r] = "polling" /\ Java /\ caller' = [caller EXCEPT ![r] = "reaping"] /\ FinalAnswer(r, how)
        /\ UNCHANGED <<handle, chunks, context, bridgeVars, registry, seen>>
    BY DEF CollectResponse
  <1>2. /\ stray' \in SUBSET Requests /\ unreaped' \in SUBSET Requests
        /\ \A q \in Requests : q # r => /\ q \in stray' <=> q \in stray
                                        /\ q \in unreaped' <=> q \in unreaped
        /\ (Loose(r) => Loose(r)') /\ (how \in {"stray", "unreaped"} => Loose(r)')
        /\ UNCHANGED <<binding, style, attempt, late, givenUp, shared>>
    BY <1>0, <1>1, FinalAnswerFacts
  <1>3. PICK k \in CoreState : /\ core' = [core EXCEPT ![r] = k] /\ k \in {core[r], "off"}
                               /\ how = "reaped" => k = "off"
    BY <1>0, <1>1, FinalAnswerFacts
  <1>4. CallerOwns(r) /\ (k # "off" => Loose(r)')
    BY <1>1, <1>2, <1>3 DEF CallerOwns
  <1>5. /\ caller' \in [Requests -> {"new", "running", "starting", "polling", "collected", "reaping", "over"}]
        /\ core' \in [Requests -> CoreState]
        /\ \A q \in Requests : Sound(q)'
    BY <1>1, <1>2, <1>3, <1>4, MovesOnSound
  <1>6. BridgeTypeOK'
    BY <1>0, <1>1, <1>2, <1>5 DEF BridgeTypeOK, bridgeVars
  <1>7. caller'[r] = "reaping" /\ \A q \in Requests : q # r => caller'[q] = caller[q]
    BY <1>0, <1>1 DEF BridgeTypeOK
  <1>8. \A i \in 1 .. Len(registry) : registry[i].request \in Requests
    BY <1>0, EntryFields
  <1>9. Filed'
    BY <1>1, <1>2, <1>7, <1>8 DEF BridgeIInv, Filed
  <1>10. Findable'
    BY <1>1, <1>2, <1>7 DEF BridgeIInv, Findable
  <1>11. HandlesApart'
    BY <1>1, <1>2, <1>7 DEF BridgeIInv, HandlesApart, Active
  <1>. QED BY <1>5, <1>6, <1>9, <1>10, <1>11 DEF BridgeIInv

\* A caller lets its own context go and is over: an owner less, and no callback to come,
\* unless the request is loose.
LEMMA ReleaseSound ==
    ASSUME BridgeIInv, NEW r \in Requests, CallerOwns(r), Release(r), r \notin givenUp,
           caller' = [caller EXCEPT ![r] = "over"], NEW k \in CoreState, core' = [core EXCEPT ![r] = k],
           k # "off" => Loose(r)', Loose(r) => Loose(r)',
           \A q \in Requests : q # r => (q \in stray' <=> q \in stray) /\ (q \in unreaped' <=> q \in unreaped),
           UNCHANGED <<binding, attempt, late, givenUp, shared, queue>>
    PROVE  /\ context' \in [Requests -> {"none", "live", "freed"}]
           /\ refs' \in [Requests -> 0 .. Owners]
           /\ tsfn' \in [Requests -> {"none", "open", "released", "closed"}]
           /\ \A q \in Requests : Sound(q)'
  <1>0. BridgeTypeOK /\ Sound(r)
    BY DEF BridgeIInv
  <1>1. /\ caller'[r] = "over" /\ core'[r] = k
        /\ \A q \in Requests : q # r => caller'[q] = caller[q] /\ core'[q] = core[q]
    BY <1>0 DEF BridgeTypeOK
  <1>2. /\ context' \in [Requests -> {"none", "live", "freed"}]
        /\ refs' \in [Requests -> 0 .. Owners]
        /\ tsfn' \in [Requests -> {"none", "open", "released", "closed"}]
        /\ \A q \in Requests : q # r => context'[q] = context[q] /\ refs'[q] = refs[q] /\ tsfn'[q] = tsfn[q]
        /\ Node => /\ refs'[r] = refs[r] - 1
                   /\ context'[r] = "live" <=> refs'[r] > 0
                   /\ tsfn'[r] = Retired(tsfn[r])
        /\ Java => context'[r] = "freed" /\ tsfn'[r] = tsfn[r]
    BY ReleaseFacts
  <1>3. ASSUME NEW q \in Requests, q # r
        PROVE  Sound(q)'
    <2>1. Sound(q)
      BY DEF BridgeIInv
    <2>. QED BY <1>1, <1>2, <1>3, <2>1, OthersSound
  <1>4. Sound(r)'
    <2>1. tsfn[r] \in {"none", "open", "released", "closed"} /\ binding \in {"node", "java"}
      BY <1>0 DEF BridgeTypeOK
    <2>2. Node => (TsfnOwns(r)' <=> TsfnOwns(r)) /\ (tsfn'[r] = "none" <=> tsfn[r] = "none")
      BY <1>2, <2>1 DEF TsfnOwns, Retired
    <2>3. Counted(r)'
      <3>1. CASE Node
        <4>1. OwnersOf(r)' = OwnersOf(r) - 1 /\ refs[r] = OwnersOf(r)
          BY <1>0, <1>1, <2>2, <3>1 DEF Sound, Counted, OwnersOf, CallerOwns
        <4>2. ~Java
          BY <3>1 DEF Node, Java
        <4>. QED BY <1>2, <3>1, <4>1, <4>2 DEF Counted, Node, Java
      <3>2. CASE Java
        <4>1. ~Node /\ ~CallerOwns(r)'
          BY <1>1, <3>2 DEF Node, Java, CallerOwns
        <4>. QED BY <1>0, <1>2, <3>2, <4>1 DEF Sound, Counted, Node, Java
      <3>. QED BY <2>1, <3>1, <3>2 DEF Node, Java
    <2>4. CoreWithinCall(r)' /\ JavaOnly(r)' /\ FirstAttemptOpen(r)' /\ LateRetry(r)'
      BY <1>0, <1>1 DEF Sound, CoreWithinCall, JavaOnly, FirstAttemptOpen, InFlight, LateRetry, Node, Java
    <2>5. QueueOfTsfn(r)'
      <3>1. CASE Node
        BY <1>0, <1>1, <2>2, <3>1 DEF Sound, QueueOfTsfn, CallerOwns, Node
      <3>2. CASE Java
        BY <1>0, <1>1, <3>2 DEF Sound, Counted, QueueOfTsfn, Node, Java
      <3>. QED BY <2>1, <3>1, <3>2 DEF Node, Java
    <2>. QED BY <2>3, <2>4, <2>5 DEF Sound
  <1>. QED BY <1>2, <1>3, <1>4

\* A blocking request is over: CompleteRequest() in the addon, runBlockingRequest() in
\* the JNI bridge.
LEMMA BlockingOverKeeps ==
    ASSUME BridgeIInv, NEW r \in Requests, CompleteRequest(r) \/ RunBlockingRequest(r)
    PROVE  BridgeIInv'
  <1>0. BridgeTypeOK /\ Sound(r)
    BY DEF BridgeIInv
  <1>1. /\ caller[r] \in {"collected", "running"} /\ caller' = [caller EXCEPT ![r] = "over"] /\ Release(r)
        /\ UNCHANGED <<binding, style, attempt, late, givenUp, shared, stray, unreaped, handle, chunks, queue, stop,
                       registry, seen>>
        /\ (core' = core /\ caller[r] = "collected") \/ core' = [core EXCEPT ![r] = "off"]
    BY DEF CompleteRequest, RunBlockingRequest, requestVars
  <1>2. core' = [core EXCEPT ![r] = "off"]
    <2>1. CASE core' = core /\ caller[r] = "collected"
      <3>1. core[r] = "off"
        BY <1>0, <2>1 DEF Sound, CoreWithinCall
      <3>. QED BY <1>0, <2>1, <3>1 DEF BridgeTypeOK
    <2>. QED BY <1>1, <2>1
  <1>3. /\ CallerOwns(r) /\ r \notin givenUp /\ ~Loose(r) /\ "off" \in CoreState
        /\ core' \in [Requests -> CoreState]
    BY <1>0, <1>1, <1>2 DEF CallerOwns, Sound, JavaOnly, CoreWithinCall, CoreState, BridgeTypeOK
  <1>4. /\ context' \in [Requests -> {"none", "live", "freed"}]
        /\ refs' \in [Requests -> 0 .. Owners]
        /\ tsfn' \in [Requests -> {"none", "open", "released", "closed"}]
        /\ \A q \in Requests : Sound(q)'
    BY <1>1, <1>2, <1>3, ReleaseSound
  <1>5. BridgeTypeOK'
    BY <1>0, <1>1, <1>3, <1>4 DEF BridgeTypeOK
  <1>6. Filed' /\ Findable' /\ HandlesApart'
    BY <1>0, <1>1, RegistryKeptByOne DEF BridgeIInv
  <1>. QED BY <1>4, <1>5, <1>6 DEF BridgeIInv

\* takeStreamContext() finds the entry of the very request that asks, though it only
\* knows its handle, or none when that was given up; a request that has shared its
\* address may find that of another one that has.
LEMMA TakesItsOwn ==
    ASSUME BridgeIInv, NEW r \in Requests, caller[r] \in {"polling", "reaping"}, TakeAndRelease(handle[r])
    PROVE  \/ (r \in givenUp \/ r \in shared) /\ UNCHANGED <<registry, context, refs, tsfn>>
           \/ \E i \in 1 .. Len(registry) :
                 /\ registry' = Without(i) /\ Release(registry[i].request)
                 /\ registry[i].request \in Requests /\ registry[i].request \notin givenUp
                 /\ \/ registry[i].request = r /\ r \notin shared
                    \/ registry[i].request \in shared /\ r \in shared
  <1>0. BridgeTypeOK /\ registry \in Seq(Entry)
    BY DEF BridgeIInv, BridgeTypeOK
  <1>1. CASE Entries(handle[r]) = {}
    <2>1. r \in givenUp \/ r \in shared
      <3>. SUFFICES ASSUME r \notin givenUp, r \notin shared
                    PROVE  FALSE
        OBVIOUS
      <3>1. PICK i \in 1 .. Len(registry) : registry[i].request = r
        BY DEF BridgeIInv, Findable
      <3>2. i \in Entries(handle[r])
        BY <3>1 DEF BridgeIInv, Filed, Entries
      <3>. QED BY <1>1, <3>2
    <2>. QED BY <1>1, <2>1 DEF TakeAndRelease
  <1>2. CASE Entries(handle[r]) # {}
    <2>. DEFINE n == Newest(handle[r])
    <2>1. n \in Entries(handle[r]) /\ n \in 1 .. Len(registry)
      BY <1>0, <1>2, NewestIsEntry
    <2>2. registry' = Without(n) /\ Release(registry[n].request)
      BY <1>2 DEF TakeAndRelease
    <2>. HIDE DEF n
    <2>3. /\ registry[n].request \in Requests /\ registry[n].request \notin givenUp
          /\ registry[n].handle = handle[r] /\ handle[registry[n].request] = handle[r]
          /\ registry[n].request \notin shared => Active(registry[n].request)
      BY <1>0, <2>1, EntryFields DEF BridgeIInv, Filed, Entries, Active
    <2>4. r \notin shared => registry[n].request = r
      BY <2>1, <2>3 DEF BridgeIInv, HandlesApart, Active
    <2>5. r \in shared => registry[n].request \in shared
      BY <2>3 DEF BridgeIInv, HandlesApart, Active
    <2>. QED BY <2>1, <2>2, <2>3, <2>4, <2>5
  <1>. QED BY <1>1, <1>2

\* The registry without the entry that a request takes which is over.
LEMMA TakenRegistry ==
    ASSUME BridgeIInv, NEW r \in Requests, caller[r] \in {"polling", "reaping"},
           caller' = [caller EXCEPT ![r] = "over"], UNCHANGED <<handle, givenUp, shared>>,
           \/ (r \in givenUp \/ r \in shared) /\ registry' = registry
           \/ \E i \in 1 .. Len(registry) :
                 /\ registry' = Without(i)
                 /\ \/ registry[i].request = r /\ r \notin shared
                    \/ registry[i].request \in shared /\ r \in shared
    PROVE  registry' \in Seq(Entry) /\ Filed' /\ Findable' /\ HandlesApart'
  <1>0. BridgeTypeOK /\ registry \in Seq(Entry) /\ Len(registry) \in Nat
    BY DEF BridgeIInv, BridgeTypeOK
  <1>1. caller'[r] = "over" /\ \A q \in Requests : q # r => caller'[q] = caller[q]
    BY <1>0 DEF BridgeTypeOK
  <1>2. \A i \in 1 .. Len(registry) : registry[i].request \in Requests
    BY <1>0, EntryFields
  <1>3. CASE (r \in givenUp \/ r \in shared) /\ registry' = registry
    <2>1. \A i \in 1 .. Len(registry) : registry[i].request = r => r \in shared
      BY <1>3 DEF BridgeIInv, Filed
    <2>2. Filed'
      BY <1>1, <1>2, <1>3, <2>1 DEF BridgeIInv, Filed
    <2>3. Findable'
      BY <1>1, <1>3 DEF BridgeIInv, Findable
    <2>4. HandlesApart'
      BY <1>1, <1>3 DEF BridgeIInv, HandlesApart, Active
    <2>. QED BY <1>0, <1>3, <2>2, <2>3, <2>4
  <1>4. ASSUME NEW n \in 1 .. Len(registry), registry' = Without(n),
               \/ registry[n].request = r /\ r \notin shared
               \/ registry[n].request \in shared /\ r \in shared
        PROVE  registry' \in Seq(Entry) /\ Filed' /\ Findable' /\ HandlesApart'
    <2>1. /\ registry' \in Seq(Entry) /\ Len(registry') = Len(registry) - 1
          /\ \A k \in 1 .. Len(registry) - 1 : registry'[k] = IF k < n THEN registry[k] ELSE registry[k + 1]
      BY <1>0, <1>4, WithoutOne
    <2>. DEFINE old(k) == IF k < n THEN k ELSE k + 1
    <2>2. ASSUME NEW k \in 1 .. Len(registry')
          PROVE  old(k) \in 1 .. Len(registry) /\ old(k) # n /\ registry'[k] = registry[old(k)]
      <3>1. k \in 1 .. Len(registry) - 1 /\ k + 1 \in 1 .. Len(registry)
        BY <1>0, <2>1
      <3>. QED BY <1>0, <2>1, <3>1
    <2>3. \A i, j \in 1 .. Len(registry') : old(i) = old(j) => i = j
      BY <1>0, <2>1
    <2>. HIDE DEF old
    <2>4. ASSUME NEW k \in 1 .. Len(registry')
          PROVE  /\ registry'[k].handle = handle'[registry'[k].request]
                 /\ caller'[registry'[k].request] \in {"polling", "reaping", "over"}
                 /\ registry'[k].request \notin givenUp'
                 /\ registry'[k].request \notin shared' => caller'[registry'[k].request] \in {"polling", "reaping"}
      <3>1. registry[old(k)].request \in Requests /\ (registry[old(k)].request = r => r \in shared)
        BY <1>2, <1>4, <2>2 DEF BridgeIInv, Filed
      <3>. QED BY <1>1, <2>2, <3>1 DEF BridgeIInv, Filed
    <2>5. ASSUME NEW i \in 1 .. Len(registry'), NEW j \in 1 .. Len(registry'),
                 registry'[i].request = registry'[j].request
          PROVE  i = j
      <3>1. /\ old(i) \in 1 .. Len(registry) /\ old(j) \in 1 .. Len(registry)
            /\ registry'[i] = registry[old(i)] /\ registry'[j] = registry[old(j)]
        BY <2>2
      <3>2. \A a, b \in 1 .. Len(registry) : registry[a].request = registry[b].request => a = b
        BY DEF BridgeIInv, Filed
      <3>3. old(i) = old(j)
        BY <2>5, <3>1, <3>2
      <3>. QED BY <2>3, <3>3
    <2>6. Filed'
      BY <2>4, <2>5 DEF Filed
    <2>7. Findable'
      <3>. SUFFICES ASSUME NEW q \in Requests, caller'[q] \in {"polling", "reaping"}, q \notin givenUp',
                           q \notin shared'
                    PROVE  \E i \in 1 .. Len(registry') : registry'[i].request = q
        BY DEF Findable
      <3>1. PICK i \in 1 .. Len(registry) : registry[i].request = q
        BY <1>1 DEF BridgeIInv, Findable
      <3>2. i # n
        BY <1>1, <1>4, <3>1
      <3>3. CASE i < n
        <4>1. i \in 1 .. Len(registry) - 1 /\ i \in 1 .. Len(registry')
          BY <1>0, <2>1, <3>3
        <4>. QED BY <2>1, <3>1, <3>3, <4>1
      <3>4. CASE i > n
        <4>1. i - 1 \in 1 .. Len(registry) - 1 /\ i - 1 \in 1 .. Len(registry') /\ ~(i - 1 < n) /\ (i - 1) + 1 = i
          BY <1>0, <2>1, <3>4
        <4>. QED BY <2>1, <3>1, <4>1
      <3>. QED BY <3>2, <3>3, <3>4
    <2>8. HandlesApart'
      BY <1>1, <2>2 DEF BridgeIInv, HandlesApart, Active
    <2>. QED BY <2>1, <2>6, <2>7, <2>8
  <1>. QED BY <1>3, <1>4

\* A request that has shared its address is over, and lets go what it finds, if it
\* does: nothing that the others depend on.
LEMMA SharedOverSound ==
    ASSUME BridgeIInv, NEW r \in Requests, r \in shared,
           caller' = [caller EXCEPT ![r] = "over"], NEW k \in CoreState, core' = [core EXCEPT ![r] = k],
           k # "off" => Loose(r)', Loose(r) => Loose(r)',
           \A q \in Requests : q # r => (q \in stray' <=> q \in stray) /\ (q \in unreaped' <=> q \in unreaped),
           UNCHANGED <<binding, attempt, late, givenUp, shared, queue>>,
           \/ UNCHANGED <<context, refs, tsfn>>
           \/ \E p \in Requests : p \in shared /\ Release(p)
    PROVE  /\ context' \in [Requests -> {"none", "live", "freed"}]
           /\ refs' \in [Requests -> 0 .. Owners]
           /\ tsfn' \in [Requests -> {"none", "open", "released", "closed"}]
           /\ \A q \in Requests : Sound(q)'
  <1>0. BridgeTypeOK /\ Sound(r)
    BY DEF BridgeIInv
  <1>1. /\ caller'[r] = "over" /\ core'[r] = k
        /\ \A q \in Requests : q # r => caller'[q] = caller[q] /\ core'[q] = core[q]
    BY <1>0 DEF BridgeTypeOK
  <1>2. Java /\ ~Node
    BY <1>0 DEF Sound, JavaOnly, Node, Java
  <1>3. /\ context' \in [Requests -> {"none", "live", "freed"}]
        /\ refs' \in [Requests -> 0 .. Owners] /\ refs' = refs
        /\ tsfn' \in [Requests -> {"none", "open", "released", "closed"}] /\ tsfn' = tsfn
        /\ \A q \in Requests : q \notin shared => context'[q] = context[q]
    BY <1>0, <1>2 DEF BridgeTypeOK, Release
  <1>4. ASSUME NEW q \in Requests
        PROVE  Sound(q)'
    <2>0. Sound(q)
      BY DEF BridgeIInv
    <2>1. Counted(q)'
      BY <1>1, <1>2, <1>3, <2>0 DEF Sound, Counted, CallerOwns, Node, Java
    <2>2. QueueOfTsfn(q)' /\ FirstAttemptOpen(q)'
      BY <1>2, <1>3, <2>0, <2>1 DEF Sound, Counted, QueueOfTsfn, FirstAttemptOpen, TsfnOwns, Node, Java
    <2>3. CoreWithinCall(q)' /\ JavaOnly(q)'
      <3>1. q # r => (Loose(q)' <=> Loose(q))
        BY DEF Loose
      <3>. QED BY <1>1, <1>2, <2>0, <3>1 DEF Sound, CoreWithinCall, JavaOnly, Java
    <2>4. LateRetry(q)'
      BY <1>2, <2>0 DEF Sound, LateRetry
    <2>. QED BY <2>1, <2>2, <2>3, <2>4 DEF Sound
  <1>. QED BY <1>3, <1>4

\* A polled request is over, and so is its entry, or its context had been given up.
LEMMA PolledOverKeeps ==
    ASSUME BridgeIInv, NEW r \in Requests,
           (\E how \in {"reaped", "stray", "unreaped"} : PollRequest(r, how)) \/ TakeStreamContext(r)
    PROVE  BridgeIInv'
  <1>0. BridgeTypeOK /\ Sound(r)
    BY DEF BridgeIInv
  <1>1. /\ caller[r] \in {"polling", "reaping"} /\ caller' = [caller EXCEPT ![r] = "over"]
        /\ TakeAndRelease(handle[r]) /\ UNCHANGED <<handle, chunks, queue, stop, seen>>
    BY DEF PollRequest, TakeStreamContext
  <1>2. /\ stray' \in SUBSET Requests /\ unreaped' \in SUBSET Requests
        /\ \A q \in Requests : q # r => /\ q \in stray' <=> q \in stray
                                        /\ q \in unreaped' <=> q \in unreaped
        /\ Loose(r) => Loose(r)'
        /\ UNCHANGED <<binding, style, attempt, late, givenUp, shared>>
        /\ \E k \in CoreState : core' = [core EXCEPT ![r] = k] /\ (k # "off" => Loose(r)')
    <2>1. ASSUME NEW how \in {"reaped", "stray", "unreaped"}, FinalAnswer(r, how)
          PROVE  /\ stray' \in SUBSET Requests /\ unreaped' \in SUBSET Requests
                 /\ \A q \in Requests : q # r => /\ q \in stray' <=> q \in stray
                                                 /\ q \in unreaped' <=> q \in unreaped
                 /\ Loose(r) => Loose(r)'
                 /\ UNCHANGED <<binding, style, attempt, late, givenUp, shared>>
                 /\ \E k \in CoreState : core' = [core EXCEPT ![r] = k] /\ (k # "off" => Loose(r)')
      BY <1>0, <2>1, FinalAnswerFacts
    <2>2. CASE TakeStreamContext(r)
      <3>1. /\ caller[r] = "reaping"
            /\ UNCHANGED <<binding, style, attempt, late, givenUp, shared, stray, unreaped, core>>
        BY <2>2 DEF TakeStreamContext, requestVars
      <3>2. core[r] # "off" => Loose(r)
        BY <1>0, <3>1 DEF Sound, CoreWithinCall
      <3>. QED BY <1>0, <3>1, <3>2 DEF BridgeTypeOK, Loose
    <2>. QED BY <2>1, <2>2 DEF PollRequest
  <1>3. PICK k \in CoreState : core' = [core EXCEPT ![r] = k] /\ (k # "off" => Loose(r)')
    BY <1>2
  <1>4. \/ (r \in givenUp \/ r \in shared) /\ UNCHANGED <<registry, context, refs, tsfn>>
        \/ \E i \in 1 .. Len(registry) :
              /\ registry' = Without(i) /\ Release(registry[i].request)
              /\ registry[i].request \in Requests /\ registry[i].request \notin givenUp
              /\ \/ registry[i].request = r /\ r \notin shared
                 \/ registry[i].request \in shared /\ r \in shared
    BY <1>1, TakesItsOwn
  <1>5. registry' \in Seq(Entry) /\ Filed' /\ Findable' /\ HandlesApart'
    BY <1>1, <1>2, <1>4, TakenRegistry
  <1>6. /\ caller'[r] = "over" /\ core'[r] = k
        /\ \A q \in Requests : q # r => caller'[q] = caller[q] /\ core'[q] = core[q]
        /\ caller' \in [Requests -> {"new", "running", "starting", "polling", "collected", "reaping", "over"}]
        /\ core' \in [Requests -> CoreState]
    BY <1>0, <1>1, <1>3 DEF BridgeTypeOK
  <1>7. /\ context' \in [Requests -> {"none", "live", "freed"}]
        /\ refs' \in [Requests -> 0 .. Owners]
        /\ tsfn' \in [Requests -> {"none", "open", "released", "closed"}]
        /\ \A q \in Requests : Sound(q)'
    <2>1. CASE r \in shared
      <3>1. UNCHANGED <<context, refs, tsfn>> \/ \E p \in Requests : p \in shared /\ Release(p)
        BY <1>4, <2>1
      <3>. QED BY <1>1, <1>2, <1>3, <2>1, <3>1, SharedOverSound
    <2>2. CASE r \notin shared /\ r \notin givenUp /\ Release(r)
      <3>1. CallerOwns(r)
        BY <1>1 DEF CallerOwns
      <3>. QED BY <1>1, <1>2, <1>3, <2>2, <3>1, ReleaseSound
    <2>3. CASE r \in givenUp /\ UNCHANGED <<registry, context, refs, tsfn>>
      <3>1. ASSUME NEW q \in Requests, q # r
            PROVE  Sound(q)'
        <4>1. Sound(q)
          BY DEF BridgeIInv
        <4>. QED BY <1>1, <1>2, <1>6, <2>3, <3>1, <4>1, OthersSound
      <3>2. Java /\ ~Node
        BY <1>0, <2>3 DEF Sound, JavaOnly, Node, Java
      <3>3. Counted(r)' /\ QueueOfTsfn(r)' /\ FirstAttemptOpen(r)'
        BY <1>0, <1>1, <1>2, <1>6, <2>3, <3>2
           DEF Sound, Counted, CallerOwns, QueueOfTsfn, TsfnOwns, FirstAttemptOpen, Node, Java
      <3>4. CoreWithinCall(r)' /\ JavaOnly(r)' /\ LateRetry(r)'
        BY <1>0, <1>2, <1>3, <1>6, <2>3, <3>2 DEF Sound, CoreWithinCall, JavaOnly, LateRetry, Java
      <3>. QED BY <1>0, <2>3, <3>1, <3>3, <3>4 DEF BridgeTypeOK, Sound
    <2>. QED BY <1>4, <2>1, <2>2, <2>3
  <1>8. BridgeTypeOK'
    BY <1>0, <1>1, <1>2, <1>5, <1>6, <1>7 DEF BridgeTypeOK
  <1>. QED BY <1>5, <1>7, <1>8 DEF BridgeIInv

\* nativeCleanup() ends every request that is still polled or registered, and frees what
\* is listed.
LEMMA NativeCleanupKeeps ==
    ASSUME BridgeIInv, NEW running \in SUBSET Requests, NativeCleanup(running)
    PROVE  BridgeIInv'
  <1>0. BridgeTypeOK
    BY DEF BridgeIInv
  <1>. DEFINE among(r) == \E i \in 1 .. Len(registry) : registry[i].request = r
              reaped == {r \in Requests : caller[r] = "polling"} \cup unreaped
  <1>1. /\ Java /\ \A r \in Requests : caller[r] \in {"new", "polling", "over"}
        /\ running \subseteq reaped
        /\ core' = [r \in Requests |-> IF r \in reaped \ running THEN "off" ELSE core[r]]
        /\ stray' = stray \cup running /\ unreaped' = {}
        /\ caller' = [r \in Requests |-> IF caller[r] = "polling" THEN "over" ELSE caller[r]]
        /\ context' = [r \in Requests |-> IF among(r) THEN "freed" ELSE context[r]]
        /\ registry' = <<>>
        /\ UNCHANGED <<binding, style, attempt, late, givenUp, shared, handle, chunks, refs, tsfn, queue, stop, seen>>
    BY DEF NativeCleanup, bridgeVars
  <1>2. \A r \in Requests : r \notin shared =>
           /\ among(r) => caller[r] = "polling" /\ r \notin givenUp
           /\ caller[r] = "polling" /\ r \notin givenUp => among(r)
    BY <1>1 DEF BridgeIInv, Filed, Findable
  <1>. HIDE DEF among
  <1>3. /\ core' \in [Requests -> CoreState]
        /\ caller' \in [Requests -> {"new", "running", "starting", "polling", "collected", "reaping", "over"}]
        /\ context' \in [Requests -> {"none", "live", "freed"}]
        /\ stray' \in SUBSET Requests /\ unreaped' \in SUBSET Requests
    BY <1>0, <1>1 DEF BridgeTypeOK, CoreState
  <1>4. registry' \in Seq(Entry) /\ Len(registry') = 0
    BY <1>1
  <1>5. BridgeTypeOK'
    BY <1>0, <1>1, <1>3, <1>4 DEF BridgeTypeOK
  <1>6. \A r \in Requests : caller'[r] \in {"new", "over"}
    BY <1>1
  <1>7. Filed' /\ Findable' /\ HandlesApart'
    BY <1>4, <1>6 DEF Filed, Findable, HandlesApart, Active
  <1>8. ASSUME NEW r \in Requests
        PROVE  Sound(r)'
    <2>0. Sound(r) /\ ~Node
      BY <1>1 DEF BridgeIInv, Node, Java
    <2>1. Counted(r)'
      <3>1. caller'[r] = (IF caller[r] = "polling" THEN "over" ELSE caller[r])
              /\ context'[r] = (IF among(r) THEN "freed" ELSE context[r])
        BY <1>1
      <3>. QED BY <1>1, <1>2, <2>0, <3>1 DEF Sound, Counted, CallerOwns, Node, Java
    <2>2. QueueOfTsfn(r)' /\ FirstAttemptOpen(r)' /\ LateRetry(r)'
      BY <1>1, <2>0 DEF Sound, Counted, QueueOfTsfn, FirstAttemptOpen, LateRetry, TsfnOwns, Node
    <2>3. JavaOnly(r)'
      BY <1>1, <2>0 DEF Sound, JavaOnly, Java
    <2>4. CoreWithinCall(r)'
      <3>1. r \in stray' => caller'[r] = "over"
        BY <1>1, <2>0 DEF Sound, CoreWithinCall, Loose
      <3>2. core'[r] # "off" => r \in stray'
        BY <1>1, <2>0 DEF Sound, CoreWithinCall, Loose
      <3>. QED BY <1>1, <3>1, <3>2 DEF CoreWithinCall, Loose
    <2>. QED BY <2>1, <2>2, <2>3, <2>4 DEF Sound
  <1>. QED BY <1>5, <1>7, <1>8 DEF BridgeIInv

-----------------------------------------------------------------------------
(* The theorems about the bindings                                          *)

\* Nothing has been started.
LEMMA BridgeInitIInv ==
    ASSUME BridgeInit
    PROVE  BridgeIInv
  <1>1. BridgeTypeOK
    <2>1. <<>> \in Seq(Event) /\ <<>> \in Seq(Entry)
      OBVIOUS
    <2>2. stop \in [Requests -> BOOLEAN]
      BY Zenon DEF BridgeInit
    <2>. QED BY <2>1, <2>2, BindingsAssumption DEF BridgeInit, BridgeTypeOK, Owners, CoreState
  <1>2. ASSUME NEW r \in Requests
        PROVE  Sound(r)
    <2>1. /\ caller[r] = "new" /\ core[r] = "off" /\ context[r] = "none" /\ refs[r] = 0 /\ tsfn[r] = "none"
          /\ queue[r] = <<>> /\ late = {} /\ givenUp = {} /\ shared = {} /\ stray = {} /\ unreaped = {}
      BY DEF BridgeInit
    <2>. QED BY <2>1 DEF Sound, Counted, OwnersOf, CallerOwns, TsfnOwns, CoreWithinCall, QueueOfTsfn, JavaOnly,
                         FirstAttemptOpen, InFlight, LateRetry, Loose
  <1>3. \A r \in Requests : caller[r] = "new"
    BY DEF BridgeInit
  <1>4. Len(registry) = 0
    BY DEF BridgeInit
  <1>5. Filed /\ Findable /\ HandlesApart
    BY <1>3, <1>4 DEF Filed, Findable, HandlesApart, Active
  <1>. QED BY <1>1, <1>2, <1>5 DEF BridgeIInv

\* Every step keeps the invariant.
LEMMA BridgeNextIInv ==
    ASSUME BridgeIInv, [BridgeNext]_bindingVars
    PROVE  BridgeIInv'
  <1>1. ASSUME UNCHANGED bindingVars
        PROVE  BridgeIInv'
    <2>0. UNCHANGED <<binding, style, caller, handle, core, attempt, chunks, context, refs, tsfn, queue, stop,
                      registry, seen, late, givenUp, shared, stray, unreaped>>
      BY <1>1 DEF bindingVars
    <2>1. BridgeTypeOK'
      BY <2>0 DEF BridgeIInv, BridgeTypeOK
    <2>2. ASSUME NEW q \in Requests
          PROVE  Sound(q)'
      <3>1. Sound(q)
        BY DEF BridgeIInv
      <3>. QED BY <2>0, <3>1, OthersSound
    <2>3. Filed' /\ Findable' /\ HandlesApart'
      BY <2>0, RegistryKept DEF BridgeIInv
    <2>. QED BY <2>1, <2>2, <2>3 DEF BridgeIInv
  <1>2. ASSUME NEW r \in Requests, Start(r)
        PROVE  BridgeIInv'
    BY <1>2, StartBlockingKeeps, StartPolledKeeps, StartFailsKeeps DEF Start
  <1>3. ASSUME NEW r \in Requests, Callback(r)
        PROVE  BridgeIInv'
    BY <1>3, CallbacksKeep, RetryKeeps DEF Callback
  <1>4. ASSUME NEW r \in Requests, Caller(r)
        PROVE  BridgeIInv'
    BY <1>4, RegisterStreamContextKeeps, ExecuteRequestKeeps, CollectResponseKeeps, BlockingOverKeeps,
       PolledOverKeeps DEF Caller
  <1>5. ASSUME NEW r \in Requests, EventLoop(r)
        PROVE  BridgeIInv'
    BY <1>5, RunStreamEventKeeps, FinalizeKeeps DEF EventLoop
  <1>. QED BY <1>1, <1>2, <1>3, <1>4, <1>5, NativeCleanupKeeps DEF BridgeNext, Over

\* The invariant holds throughout.
LEMMA BridgeInvariant == BridgeSpec => []BridgeIInv
  <1>1. BridgeInit => BridgeIInv
    BY BridgeInitIInv
  <1>2. BridgeIInv /\ [BridgeNext]_bindingVars => BridgeIInv'
    BY BridgeNextIInv
  <1>. QED BY <1>1, <1>2, PTL DEF BridgeSpec

\* The reference counts, states and queues of bridges and contexts have their types.
THEOREM BridgeTypeCorrect == BridgeSpec => []BridgeTypeOK
  <1>1. BridgeIInv => BridgeTypeOK
    BY DEF BridgeIInv
  <1>. QED BY <1>1, BridgeInvariant, PTL

\* What the core calls back into is alive, unless the request has had the address of
\* another one or its exchange goes on after the final answer of its poll; what a
\* queued event points to always is.  No DropStreamBridge() and no freeStreamContext()
\* comes too early, for any number of requests, handles and chunks, whichever of the
\* owners goes first.
THEOREM ContextAlwaysLive == BridgeSpec => []ContextLive
  <1>1. BridgeIInv => ContextLive
    <2>. SUFFICES ASSUME BridgeIInv, NEW r \in Requests
                  PROVE  /\ core[r] # "off" /\ r \notin Adrift => context[r] = "live"
                         /\ queue[r] # <<>> => context[r] = "live"
      BY DEF ContextLive
    <2>1. Sound(r) /\ binding \in {"node", "java"}
      BY DEF BridgeIInv, BridgeTypeOK
    <2>2. core[r] # "off" /\ r \notin Adrift => CallerOwns(r) /\ r \notin shared
      BY <2>1 DEF Sound, CoreWithinCall, CallerOwns, Adrift, Loose
    <2>3. queue[r] # <<>> => TsfnOwns(r)
      BY <2>1 DEF Sound, QueueOfTsfn
    <2>4. CASE Node
      <3>1. CallerOwns(r) \/ TsfnOwns(r) => OwnersOf(r) > 0
        BY DEF OwnersOf
      <3>. QED BY <2>1, <2>2, <2>3, <2>4, <3>1 DEF Sound, Counted
    <2>5. CASE Java
      BY <2>1, <2>2, <2>5 DEF Sound, Counted
    <2>. QED BY <2>1, <2>4, <2>5 DEF Node, Java
  <1>. QED BY <1>1, BridgeInvariant, PTL

\* No event of a first attempt, up to its onComplete, finds its threadsafe function
\* finalized, unless its exchange goes on after the final answer of its poll: only the
\* onComplete of that attempt, or the end of its call, retires it.
THEOREM FirstAttemptAlwaysPosted == BridgeSpec => []FirstAttemptPosted
  <1>1. BridgeIInv => FirstAttemptPosted
    <2>. SUFFICES ASSUME BridgeIInv, NEW e \in late, e.request \notin Adrift
                  PROVE  e.attempt = 2
      BY DEF FirstAttemptPosted
    <2>1. e.request \in Requests
      BY DEF BridgeIInv, BridgeTypeOK, LateEvent
    <2>. QED BY <2>1 DEF BridgeIInv, Sound, LateRetry, Adrift, Loose
  <1>. QED BY <1>1, BridgeInvariant, PTL

\* When a request is over and its threadsafe function finalized, DropStreamBridge() or
\* freeStreamContext() has freed what it had, however it ended: nothing keeps the JS
\* functions or the listener, but for a context that could not be registered, and for
\* one that another request of the same address is to take.
THEOREM NoContextKept == BridgeSpec => []NothingKept
  <1>1. BridgeIInv => NothingKept
    <2>. SUFFICES ASSUME BridgeIInv, NEW r \in Requests, caller[r] = "over", tsfn[r] \in {"none", "closed"},
                         r \notin givenUp, r \notin shared
                  PROVE  context[r] # "live"
      BY DEF NothingKept
    <2>1. Sound(r) /\ binding \in {"node", "java"}
      BY DEF BridgeIInv, BridgeTypeOK
    <2>2. ~CallerOwns(r) /\ ~TsfnOwns(r)
      BY DEF CallerOwns, TsfnOwns
    <2>3. CASE Node
      BY <2>1, <2>2, <2>3 DEF Sound, Counted, OwnersOf
    <2>4. CASE Java
      BY <2>1, <2>2, <2>4 DEF Sound, Counted
    <2>. QED BY <2>1, <2>3, <2>4 DEF Node, Java
  <1>. QED BY <1>1, BridgeInvariant, PTL
=============================================================================
