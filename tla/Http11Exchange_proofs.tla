----------------------- MODULE Http11Exchange_proofs -----------------------
(***************************************************************************)
(* For every set of responses without interim ones, every number of        *)
(* exchanges and every way the bytes fall into reads: a request sees only  *)
(* its own response, a connection is reused only when it is empty, and a   *)
(* success delivered the whole of a delimited response.  A request that    *)
(* got the connection before, and writeMutex after, it was given up is     *)
(* exempt: for it only the types and goingAway are kept.                   *)
(*                                                                         *)
(* What ties the reader to the server is that the units handed over, those *)
(* buffered, those in the socket and those still to be written spell, one  *)
(* after the other, the response the server gives (Aligned): all of it     *)
(* while the connection is open, the front of it once the server closed.   *)
(* A reader that stops where the response stops leaves nothing behind.     *)
(* A body read until close leaves the order out and gives the connection   *)
(* up instead.                                                             *)
(***************************************************************************)
EXTENDS Http11Exchange, SequenceTheorems, TLAPS

\* The units a server writes.
UnitType == {Unit(of, kind) : of \in 1 .. NumExchanges, kind \in Kinds \ {"head"}}
              \cup {HeadUnit(of, r) : of \in 1 .. NumExchanges, r \in Responses}

\* No response is preceded by an interim one, which readResponseHead() would take
\* for the final response and leave the final one on the connection.
NoInterim == \A r \in Responses : ~r.interim

\* The number of units of a response, and the kind of the one that ends a chunked one.
ScriptLength(r) == IF r.framing = "chunked" /\ r.flaw = "none" THEN r.body + 2 ELSE r.body + 1
LastKind(r) == IF r.flaw = "none" THEN "last" ELSE r.flaw

\* The units of a response, wherever they are.
Total(g, b, q, o) == Len(g) + Len(b) + Len(q) + Len(o)
\* Handed over, buffered, in the socket and to be written, s is spelled in order.
Aligned(g, b, q, o, s) ==
    /\ \A i \in 1 .. Len(g) : g[i] = s[i]
    /\ \A i \in 1 .. Len(b) : b[i] = s[Len(g) + i]
    /\ \A i \in 1 .. Len(q) : q[i] = s[Len(g) + Len(b) + i]
    /\ \A i \in 1 .. Len(o) : o[i] = s[Len(g) + Len(b) + Len(q) + i]
    /\ Total(g, b, q, o) <= Len(s)

\* The phases of an exchange under way.
InUse == {"send", "head", "body"}
\* The heads that can be parsed.
HeadType == [of : 0 .. NumExchanges, kind : {"head"}, framing : Framings, body : Nat, close : BOOLEAN]

\* The variables and their ranges, the units exactly.
Typed ==
    /\ n \in 0 .. NumExchanges /\ (phase # "idle" => n >= 1)
    /\ phase \in InUse \cup {"idle", "over"}
    /\ response \in Responses
    /\ outbox \in Seq(UnitType) /\ inbound \in Seq(UnitType)
    /\ buf \in Seq(UnitType) /\ got \in Seq(UnitType)
    /\ closed \in BOOLEAN
    /\ ending \in {"open", "eof", "error", "timeout"}
    /\ head \in HeadType
    /\ remaining \in Nat
    /\ result \in {"none", "ok", "failed"}
    /\ goingAway \in BOOLEAN /\ late \in BOOLEAN /\ blocked \in BOOLEAN
    /\ waiting \in Nat /\ n + waiting <= NumExchanges

\* Between exchanges nothing is left, unless the connection is given up.
RestOK ==
    /\ phase \in InUse \cup {"idle"} => ~goingAway
    /\ phase \in {"idle", "send"} => got = <<>>
    /\ phase \notin {"head", "body"} /\ ~goingAway => outbox = <<>> /\ inbound = <<>> /\ buf = <<>>

\* A closed connection brings nothing new.
ClosedOK ==
    /\ closed => outbox = <<>>
    /\ ending = "eof" => closed /\ inbound = <<>>

\* All of s answers exchange `of`.
From(s, of) == \A i \in 1 .. Len(s) : s[i].of = of
\* Whatever is on the connection during an exchange answers it.
OwnOK ==
    /\ From(got, n)
    /\ phase \in {"head", "body"} => From(buf, n) /\ From(inbound, n) /\ From(outbox, n)

\* The response is on its way in order.
OnTheWay ==
    /\ Aligned(got, buf, inbound, outbox, Script(n, response))
    /\ ~closed => Total(got, buf, inbound, outbox) = Len(Script(n, response))

\* Where the reader stands in the response: before the head, or behind it with the
\* body still owed by content-length.
ReadingOK ==
    /\ phase = "head" => OnTheWay /\ got = <<>>
    /\ phase = "body" => head = HeadUnit(n, response)
    /\ phase = "body" /\ head.framing # "close" =>
          /\ OnTheWay
          /\ Len(got) >= 1
          /\ head.framing = "length" => remaining + Len(got) = head.body + 1

\* What holds of an exchange that began on a connection in use.
Sound == Typed /\ RestOK /\ ClosedOK /\ OwnOK /\ ReadingOK /\ DelimitedResponseWhole

\* The inductive invariant: a late exchange runs on a connection given up for good.
IInv == Typed /\ (IF late THEN goingAway ELSE Sound)

-----------------------------------------------------------------------------

\* Every unit names its exchange and its kind.
LEMMA UnitFields ==
    ASSUME NEW u \in UnitType
    PROVE  u.kind \in Kinds /\ u.of \in 1 .. NumExchanges
BY DEF UnitType, Unit, HeadUnit, Kinds

\* A unit of kind "head" can be parsed as one.
LEMMA HeadUnits ==
    ASSUME NEW u \in UnitType, u.kind = "head"
    PROVE  u \in HeadType
<1>1. PICK of \in 1 .. NumExchanges, r \in Responses : u = HeadUnit(of, r)
  BY DEF UnitType, Unit, Kinds
<1>2. r.framing \in Framings /\ r.body \in Nat /\ r.close \in BOOLEAN
  BY ExchangeAssumption DEF ResponseShape
<1>. QED BY <1>1, <1>2 DEF HeadUnit, HeadType

\* Taking the first element of a sequence.
LEMMA Pop ==
    ASSUME NEW U, NEW s \in Seq(U), s # <<>>
    PROVE  /\ Len(s) \in Nat /\ Len(s) >= 1 /\ s[1] \in U
           /\ Tail(s) \in Seq(U) /\ Len(Tail(s)) = Len(s) - 1
           /\ \A i \in 1 .. Len(s) - 1 : Tail(s)[i] = s[i + 1]
<1>1. Len(s) \in Nat /\ Len(s) >= 1
  BY EmptySeq
<1>2. s[1] \in U
  BY <1>1, ElementOfSeq
<1>. QED BY <1>1, <1>2, HeadTailProperties

\* Adding an element at the end of a sequence.
LEMMA Push ==
    ASSUME NEW U, NEW s \in Seq(U), NEW e \in U
    PROVE  /\ Append(s, e) \in Seq(U) /\ Len(Append(s, e)) = Len(s) + 1
           /\ \A i \in 1 .. Len(s) : Append(s, e)[i] = s[i]
           /\ Append(s, e)[Len(s) + 1] = e
           /\ s \o <<e>> = Append(s, e)
BY AppendProperties, AppendIsConcat

\* Cutting a sequence in two, as a read does.
LEMMA Split ==
    ASSUME NEW U, NEW s \in Seq(U), NEW k \in 1 .. Len(s)
    PROVE  /\ SubSeq(s, 1, k) \in Seq(U) /\ Len(SubSeq(s, 1, k)) = k
           /\ \A i \in 1 .. k : SubSeq(s, 1, k)[i] = s[i]
           /\ SubSeq(s, k + 1, Len(s)) \in Seq(U) /\ Len(SubSeq(s, k + 1, Len(s))) = Len(s) - k
           /\ \A i \in 1 .. Len(s) - k : SubSeq(s, k + 1, Len(s))[i] = s[k + i]
<1>0. Len(s) \in Nat /\ \A i \in 1 .. Len(s) : s[i] \in U
  BY ElementOfSeq
<1>1. /\ SubSeq(s, 1, k) \in Seq(U)
      /\ Len(SubSeq(s, 1, k)) = IF 1 <= k THEN k - 1 + 1 ELSE 0
      /\ \A i \in 1 .. k - 1 + 1 : SubSeq(s, 1, k)[i] = s[1 + i - 1]
  <2>1. \A i \in 1 .. k : s[i] \in U
    BY <1>0
  <2>. QED BY <2>1, SubSeqProperties
<1>2. /\ SubSeq(s, k + 1, Len(s)) \in Seq(U)
      /\ Len(SubSeq(s, k + 1, Len(s))) = IF k + 1 <= Len(s) THEN Len(s) - (k + 1) + 1 ELSE 0
      /\ \A i \in 1 .. Len(s) - (k + 1) + 1 : SubSeq(s, k + 1, Len(s))[i] = s[k + 1 + i - 1]
  <2>1. \A i \in k + 1 .. Len(s) : s[i] \in U
    BY <1>0
  <2>2. k + 1 \in Int /\ Len(s) \in Int
    BY <1>0
  <2>. QED BY <2>1, <2>2, SubSeqProperties
<1>3. /\ Len(SubSeq(s, 1, k)) = k /\ \A i \in 1 .. k : SubSeq(s, 1, k)[i] = s[i]
  BY <1>0, <1>1
<1>4. Len(SubSeq(s, k + 1, Len(s))) = Len(s) - k
  BY <1>0, <1>2
<1>5. \A i \in 1 .. Len(s) - k : SubSeq(s, k + 1, Len(s))[i] = s[k + i]
  <2>. TAKE i \in 1 .. Len(s) - k
  <2>1. i \in 1 .. Len(s) - (k + 1) + 1 /\ k + 1 + i - 1 = k + i
    BY <1>0
  <2>. QED BY <1>2, <2>1
<1>. QED BY <1>1, <1>2, <1>3, <1>4, <1>5

\* A unit written by the server keeps its place in the response.
LEMMA AlignWrite ==
    ASSUME NEW U, NEW g \in Seq(U), NEW b \in Seq(U), NEW q \in Seq(U), NEW o \in Seq(U), NEW s \in Seq(U),
           Aligned(g, b, q, o, s), o # <<>>
    PROVE  /\ Aligned(g, b, Append(q, o[1]), Tail(o), s)
           /\ Total(g, b, Append(q, o[1]), Tail(o)) = Total(g, b, q, o)
<1>. DEFINE q2 == Append(q, o[1])
            o2 == Tail(o)
<1>0. Len(g) \in Nat /\ Len(b) \in Nat /\ Len(q) \in Nat /\ Len(s) \in Nat
  OBVIOUS
<1>1. /\ Len(o) \in Nat /\ Len(o) >= 1 /\ o[1] \in U
      /\ Len(o2) = Len(o) - 1
      /\ \A i \in 1 .. Len(o) - 1 : o2[i] = o[i + 1]
  BY Pop
<1>2. /\ Len(q2) = Len(q) + 1
      /\ \A i \in 1 .. Len(q) : q2[i] = q[i]
      /\ q2[Len(q) + 1] = o[1]
  BY <1>1, Push
<1>. HIDE DEF q2, o2
<1>3. \A i \in 1 .. Len(q2) : q2[i] = s[Len(g) + Len(b) + i]
  <2>. TAKE i \in 1 .. Len(q2)
  <2>1. CASE i \in 1 .. Len(q)
    BY <1>2, <2>1 DEF Aligned
  <2>2. CASE i = Len(q) + 1
    <3>1. o[1] = s[Len(g) + Len(b) + Len(q) + 1]
      BY <1>1 DEF Aligned
    <3>2. Len(g) + Len(b) + Len(q) + 1 = Len(g) + Len(b) + i
      BY <1>0, <2>2
    <3>. QED BY <1>2, <2>2, <3>1, <3>2
  <2>3. i \in 1 .. Len(q) + 1
    BY <1>2
  <2>. QED BY <1>0, <2>1, <2>2, <2>3
<1>4. \A i \in 1 .. Len(o2) : o2[i] = s[Len(g) + Len(b) + Len(q2) + i]
  <2>. TAKE i \in 1 .. Len(o2)
  <2>1. i + 1 \in 1 .. Len(o) /\ i \in 1 .. Len(o) - 1
    BY <1>1
  <2>2. o[i + 1] = s[Len(g) + Len(b) + Len(q) + (i + 1)]
    BY <2>1 DEF Aligned
  <2>3. Len(g) + Len(b) + Len(q) + (i + 1) = Len(g) + Len(b) + Len(q2) + i
    BY <1>0, <1>2
  <2>. QED BY <1>1, <2>1, <2>2, <2>3
<1>5. Total(g, b, q2, o2) = Total(g, b, q, o)
  BY <1>0, <1>1, <1>2 DEF Total
<1>6. Aligned(g, b, q2, o2, s)
  BY <1>3, <1>4, <1>5 DEF Aligned
<1>. QED BY <1>5, <1>6 DEF q2, o2

\* Filling the empty buffer keeps every unit in its place.
LEMMA AlignFill ==
    ASSUME NEW U, NEW g \in Seq(U), NEW q \in Seq(U), NEW o \in Seq(U), NEW s \in Seq(U),
           Aligned(g, <<>>, q, o, s), NEW k \in 1 .. Len(q)
    PROVE  /\ Aligned(g, SubSeq(q, 1, k), SubSeq(q, k + 1, Len(q)), o, s)
           /\ Total(g, SubSeq(q, 1, k), SubSeq(q, k + 1, Len(q)), o) = Total(g, <<>>, q, o)
<1>. DEFINE b2 == SubSeq(q, 1, k)
            q2 == SubSeq(q, k + 1, Len(q))
<1>0. Len(g) \in Nat /\ Len(o) \in Nat /\ Len(q) \in Nat /\ Len(s) \in Nat /\ Len(<<>>) = 0
  OBVIOUS
<1>1. /\ Len(b2) = k /\ \A i \in 1 .. k : b2[i] = q[i]
      /\ Len(q2) = Len(q) - k /\ \A i \in 1 .. Len(q) - k : q2[i] = q[k + i]
  BY Split
<1>. HIDE DEF b2, q2
<1>2. \A i \in 1 .. Len(q) : q[i] = s[Len(g) + i]
  BY <1>0 DEF Aligned
<1>3. \A i \in 1 .. Len(b2) : b2[i] = s[Len(g) + i]
  <2>1. \A i \in 1 .. k : i \in 1 .. Len(q)
    BY <1>0
  <2>. QED BY <1>1, <1>2, <2>1
<1>4. \A i \in 1 .. Len(q2) : q2[i] = s[Len(g) + Len(b2) + i]
  <2>. TAKE i \in 1 .. Len(q2)
  <2>1. k + i \in 1 .. Len(q) /\ Len(g) + (k + i) = Len(g) + Len(b2) + i
    BY <1>0, <1>1
  <2>. QED BY <1>1, <1>2, <2>1
<1>5. \A i \in 1 .. Len(o) : o[i] = s[Len(g) + Len(b2) + Len(q2) + i]
  <2>. TAKE i \in 1 .. Len(o)
  <2>1. o[i] = s[Len(g) + Len(<<>>) + Len(q) + i]
    BY DEF Aligned
  <2>2. Len(g) + Len(<<>>) + Len(q) + i = Len(g) + Len(b2) + Len(q2) + i
    BY <1>0, <1>1
  <2>. QED BY <2>1, <2>2
<1>6. Total(g, b2, q2, o) = Total(g, <<>>, q, o)
  BY <1>0, <1>1 DEF Total
<1>7. Aligned(g, b2, q2, o, s)
  BY <1>3, <1>4, <1>5, <1>6 DEF Aligned
<1>. QED BY <1>6, <1>7 DEF b2, q2

\* The reader hands over the next unit of the response.
LEMMA AlignRead ==
    ASSUME NEW U, NEW g \in Seq(U), NEW b \in Seq(U), NEW q \in Seq(U), NEW o \in Seq(U), NEW s \in Seq(U),
           Aligned(g, b, q, o, s), b # <<>>
    PROVE  /\ Aligned(Append(g, b[1]), Tail(b), q, o, s)
           /\ Total(Append(g, b[1]), Tail(b), q, o) = Total(g, b, q, o)
           /\ b[1] = s[Len(g) + 1] /\ Len(g) + 1 \in 1 .. Len(s)
<1>. DEFINE g2 == Append(g, b[1])
            b2 == Tail(b)
<1>0. Len(g) \in Nat /\ Len(q) \in Nat /\ Len(o) \in Nat /\ Len(s) \in Nat
  OBVIOUS
<1>1. /\ Len(b) \in Nat /\ Len(b) >= 1 /\ b[1] \in U
      /\ Len(b2) = Len(b) - 1
      /\ \A i \in 1 .. Len(b) - 1 : b2[i] = b[i + 1]
  BY Pop
<1>2. /\ Len(g2) = Len(g) + 1
      /\ \A i \in 1 .. Len(g) : g2[i] = g[i]
      /\ g2[Len(g) + 1] = b[1]
  BY <1>1, Push
<1>. HIDE DEF g2, b2
<1>3. b[1] = s[Len(g) + 1] /\ Len(g) + 1 \in 1 .. Len(s)
  BY <1>0, <1>1 DEF Aligned, Total
<1>4. \A i \in 1 .. Len(g2) : g2[i] = s[i]
  <2>1. \A i \in 1 .. Len(g2) : i \in 1 .. Len(g) \/ i = Len(g) + 1
    BY <1>0, <1>2
  <2>. QED BY <1>2, <1>3, <2>1 DEF Aligned
<1>5. \A i \in 1 .. Len(b2) : b2[i] = s[Len(g2) + i]
  <2>. TAKE i \in 1 .. Len(b2)
  <2>1. i + 1 \in 1 .. Len(b) /\ i \in 1 .. Len(b) - 1 /\ Len(g) + (i + 1) = Len(g2) + i
    BY <1>0, <1>1, <1>2
  <2>2. b[i + 1] = s[Len(g) + (i + 1)]
    BY <2>1 DEF Aligned
  <2>. QED BY <1>1, <2>1, <2>2
<1>6. Len(g2) + Len(b2) = Len(g) + Len(b)
  BY <1>0, <1>1, <1>2
<1>7. Total(g2, b2, q, o) = Total(g, b, q, o)
  BY <1>6 DEF Total
<1>8. Aligned(g2, b2, q, o, s)
  BY <1>4, <1>5, <1>6, <1>7 DEF Aligned
<1>. QED BY <1>3, <1>7, <1>8 DEF g2, b2

\* What a closing server does not write was the end of the response.
LEMMA AlignClose ==
    ASSUME NEW U, NEW g \in Seq(U), NEW b \in Seq(U), NEW q \in Seq(U), NEW o \in Seq(U), NEW s \in Seq(U),
           Aligned(g, b, q, o, s)
    PROVE  Aligned(g, b, q, <<>>, s)
<1>1. Len(g) \in Nat /\ Len(b) \in Nat /\ Len(q) \in Nat /\ Len(o) \in Nat /\ Len(s) \in Nat /\ Len(<<>>) = 0
  OBVIOUS
<1>. QED BY <1>1 DEF Aligned, Total

-----------------------------------------------------------------------------
(* The script                                                               *)

\* The response without interim ones: the head, then data, with the last chunk, or
\* the flawed one, at the end of a chunked body and nowhere else.
LEMMA ScriptShape ==
    ASSUME NEW r \in Responses, ~r.interim, NEW of \in 1 .. NumExchanges
    PROVE  /\ Script(of, r) \in Seq(UnitType)
           /\ Len(Script(of, r)) = ScriptLength(r)
           /\ Script(of, r)[1] = HeadUnit(of, r)
           /\ \A i \in 2 .. ScriptLength(r) :
                 Script(of, r)[i] = IF r.framing = "chunked" /\ i = ScriptLength(r)
                                    THEN Unit(of, LastKind(r)) ELSE Unit(of, "data")
<1>. DEFINE body == Body(of, r)
            rest == IF r.flaw # "none" THEN Append(Tail(body), Unit(of, r.flaw))
                    ELSE IF r.framing = "chunked" THEN Append(body, Unit(of, "last"))
                    ELSE body
<1>0. /\ r \in ResponseShape /\ r.body \in Nat /\ r.flaw \in Flaws
      /\ r.flaw # "none" => r.framing = "chunked" /\ r.body > 0
  BY ExchangeAssumption DEF ResponseShape
<1>1. \A k \in Kinds \ {"head"} : Unit(of, k) \in UnitType
  BY DEF UnitType
<1>2. Unit(of, "data") \in UnitType /\ Unit(of, "last") \in UnitType
      /\ (r.flaw # "none" => Unit(of, r.flaw) \in UnitType)
  BY <1>0, <1>1 DEF Kinds, Flaws
<1>3. HeadUnit(of, r) \in UnitType
  BY DEF UnitType
<1>4. body \in Seq(UnitType) /\ Len(body) = r.body /\ \A i \in 1 .. r.body : body[i] = Unit(of, "data")
  BY <1>0, <1>2 DEF Body
<1>. HIDE DEF body
<1>5. /\ rest \in Seq(UnitType) /\ Len(rest) = ScriptLength(r) - 1
      /\ \A i \in 1 .. Len(rest) : rest[i] = IF r.framing = "chunked" /\ i = ScriptLength(r) - 1
                                             THEN Unit(of, LastKind(r)) ELSE Unit(of, "data")
  <2>1. CASE r.flaw # "none"
    <3>0. body # <<>>
      BY <1>0, <1>4, <2>1
    <3>1. /\ Tail(body) \in Seq(UnitType) /\ Len(Tail(body)) = r.body - 1
          /\ \A i \in 1 .. r.body - 1 : Tail(body)[i] = body[i + 1]
      BY <1>4, <3>0, Pop
    <3>2. \A i \in 1 .. r.body - 1 : Tail(body)[i] = Unit(of, "data")
      BY <1>0, <1>4, <3>1
    <3>3. /\ rest \in Seq(UnitType) /\ Len(rest) = Len(Tail(body)) + 1
          /\ \A i \in 1 .. Len(Tail(body)) : rest[i] = Tail(body)[i]
          /\ rest[Len(Tail(body)) + 1] = Unit(of, r.flaw)
      BY <1>2, <2>1, <3>1, Push
    <3>. HIDE DEF rest
    <3>4. Len(rest) = r.body /\ ScriptLength(r) = r.body + 1
      BY <1>0, <2>1, <3>1, <3>3 DEF ScriptLength
    <3>. QED BY <1>0, <2>1, <3>1, <3>2, <3>3, <3>4 DEF LastKind
  <2>2. CASE r.flaw = "none" /\ r.framing = "chunked"
    <3>1. /\ rest \in Seq(UnitType) /\ Len(rest) = r.body + 1
          /\ \A i \in 1 .. r.body : rest[i] = body[i]
          /\ rest[r.body + 1] = Unit(of, "last")
      BY <1>2, <1>4, <2>2, Push
    <3>. HIDE DEF rest
    <3>2. ScriptLength(r) = r.body + 2
      BY <2>2 DEF ScriptLength
    <3>. QED BY <1>0, <1>4, <2>2, <3>1, <3>2 DEF LastKind
  <2>3. CASE r.flaw = "none" /\ r.framing # "chunked"
    <3>1. rest = body /\ ScriptLength(r) = r.body + 1
      BY <2>3 DEF ScriptLength
    <3>. QED BY <1>0, <1>4, <2>3, <3>1
  <2>. QED BY <2>1, <2>2, <2>3
<1>6. Script(of, r) = (<<>> \o <<HeadUnit(of, r)>>) \o rest
  BY DEF Script, body
<1>7. <<>> \o <<HeadUnit(of, r)>> = <<HeadUnit(of, r)>> /\ <<HeadUnit(of, r)>> \in Seq(UnitType)
  BY <1>3, ConcatEmptySeq
<1>. HIDE DEF rest
<1>8. /\ Len(<<HeadUnit(of, r)>>) = 1 /\ <<HeadUnit(of, r)>>[1] = HeadUnit(of, r)
  OBVIOUS
<1>9. /\ Script(of, r) \in Seq(UnitType)
      /\ Len(Script(of, r)) = 1 + Len(rest)
      /\ \A i \in 1 .. 1 + Len(rest) :
            Script(of, r)[i] = IF i <= 1 THEN <<HeadUnit(of, r)>>[i] ELSE rest[i - 1]
  BY <1>5, <1>6, <1>7, <1>8, ConcatProperties
<1>10. ScriptLength(r) \in Nat
  BY <1>0 DEF ScriptLength
<1>11. \A i \in 2 .. ScriptLength(r) : i - 1 \in 1 .. Len(rest) /\ Script(of, r)[i] = rest[i - 1]
  BY <1>5, <1>9, <1>10
<1>12. Script(of, r)[1] = HeadUnit(of, r)
  BY <1>5, <1>8, <1>9, <1>10
<1>. QED BY <1>5, <1>9, <1>10, <1>11, <1>12

\* The server answers the exchange it was asked in.
LEMMA ScriptIsOwn ==
    ASSUME NEW r \in Responses, ~r.interim, NEW of \in 1 .. NumExchanges
    PROVE  From(Script(of, r), of)
<1>1. ScriptLength(r) \in Nat
  BY ExchangeAssumption DEF ResponseShape, ScriptLength
<1>2. \A i \in 1 .. ScriptLength(r) : i = 1 \/ i \in 2 .. ScriptLength(r)
  BY <1>1
<1>3. HeadUnit(of, r).of = of /\ Unit(of, LastKind(r)).of = of /\ Unit(of, "data").of = of
  BY DEF Unit, HeadUnit
<1>4. /\ Len(Script(of, r)) = ScriptLength(r)
      /\ Script(of, r)[1] = HeadUnit(of, r)
      /\ \A i \in 2 .. ScriptLength(r) :
            \/ Script(of, r)[i] = Unit(of, LastKind(r))
            \/ Script(of, r)[i] = Unit(of, "data")
  BY ScriptShape
<1>. QED BY <1>2, <1>3, <1>4 DEF From

\* The first body + 1 units of a flawless response are the head and the whole body.
LEMMA WholeGot ==
    ASSUME NEW r \in Responses, ~r.interim, r.flaw = "none", NEW of \in 1 .. NumExchanges,
           NEW g \in Seq(UnitType), Len(g) = r.body + 1,
           \A i \in 1 .. Len(g) : g[i] = Script(of, r)[i]
    PROVE  g = <<HeadUnit(of, r)>> \o Body(of, r)
<1>. DEFINE w == <<HeadUnit(of, r)>> \o Body(of, r)
<1>0. r.body \in Nat
  BY ExchangeAssumption DEF ResponseShape
<1>1. Unit(of, "data") \in UnitType /\ HeadUnit(of, r) \in UnitType
  BY DEF UnitType, Kinds
<1>. DEFINE body == Body(of, r)
<1>2. body \in Seq(UnitType) /\ Len(body) = r.body /\ \A i \in 1 .. r.body : body[i] = Unit(of, "data")
  BY <1>0, <1>1 DEF Body
<1>. HIDE DEF body
<1>3. <<HeadUnit(of, r)>> \in Seq(UnitType) /\ Len(<<HeadUnit(of, r)>>) = 1
      /\ <<HeadUnit(of, r)>>[1] = HeadUnit(of, r)
  BY <1>1
<1>4. /\ w \in Seq(UnitType) /\ Len(w) = 1 + r.body
      /\ \A i \in 1 .. 1 + r.body : w[i] = IF i <= 1 THEN <<HeadUnit(of, r)>>[i] ELSE body[i - 1]
  <2>1. w = <<HeadUnit(of, r)>> \o body
    BY DEF body
  <2>. HIDE DEF w
  <2>2. /\ w \in Seq(UnitType) /\ Len(w) = 1 + Len(body)
        /\ \A i \in 1 .. 1 + Len(body) : w[i] = IF i <= 1 THEN <<HeadUnit(of, r)>>[i] ELSE body[i - 1]
    BY <1>2, <1>3, <2>1, ConcatProperties
  <2>. QED BY <1>2, <2>2
<1>. HIDE DEF w
<1>5. \A i \in 1 .. Len(g) : g[i] = w[i]
  <2>. TAKE i \in 1 .. Len(g)
  <2>1. CASE i = 1
    <3>1. w[1] = HeadUnit(of, r)
      BY <1>0, <1>3, <1>4
    <3>2. g[1] = HeadUnit(of, r)
      BY <1>0, <2>1, ScriptShape
    <3>. QED BY <2>1, <3>1, <3>2
  <2>2. CASE i # 1
    <3>1. i \in 2 .. ScriptLength(r) /\ i - 1 \in 1 .. r.body
          /\ ~(r.framing = "chunked" /\ i = ScriptLength(r))
      BY <1>0, <2>2 DEF ScriptLength
    <3>2. g[i] = Unit(of, "data")
      BY <3>1, ScriptShape
    <3>3. w[i] = body[i - 1]
      <4>1. i \in 1 .. 1 + r.body /\ ~(i <= 1)
        BY <1>0, <2>2
      <4>. QED BY <1>4, <4>1
    <3>. QED BY <1>2, <3>1, <3>2, <3>3
  <2>. QED BY <2>1, <2>2
<1>6. Len(g) = Len(w)
  BY <1>0, <1>4
<1>7. g = w
  BY <1>4, <1>5, <1>6, SeqEqual
<1>. QED BY <1>7 DEF w

-----------------------------------------------------------------------------
(* Whose units they are                                                     *)

\* Taking from a sequence leaves its owner.
LEMMA FromPop ==
    ASSUME NEW U, NEW s \in Seq(U), s # <<>>, NEW of, From(s, of)
    PROVE  s[1].of = of /\ From(Tail(s), of)
<1>1. /\ Len(s) \in Nat /\ Len(s) >= 1
      /\ Len(Tail(s)) = Len(s) - 1
      /\ \A i \in 1 .. Len(s) - 1 : Tail(s)[i] = s[i + 1]
  BY Pop
<1>2. \A i \in 1 .. Len(s) - 1 : i + 1 \in 1 .. Len(s)
  BY <1>1
<1>3. 1 \in 1 .. Len(s)
  BY <1>1
<1>. QED BY <1>1, <1>2, <1>3 DEF From

\* Adding an own unit leaves the owner.
LEMMA FromPush ==
    ASSUME NEW U, NEW s \in Seq(U), NEW e \in U, NEW of, From(s, of), e.of = of
    PROVE  From(Append(s, e), of)
<1>1. /\ Len(Append(s, e)) = Len(s) + 1
      /\ \A i \in 1 .. Len(s) : Append(s, e)[i] = s[i]
      /\ Append(s, e)[Len(s) + 1] = e
  BY Push
<1>2. \A i \in 1 .. Len(s) + 1 : i \in 1 .. Len(s) \/ i = Len(s) + 1
  OBVIOUS
<1>. QED BY <1>1, <1>2 DEF From

\* Both parts of a cut sequence have its owner.
LEMMA FromSplit ==
    ASSUME NEW U, NEW s \in Seq(U), NEW k \in 1 .. Len(s), NEW of, From(s, of)
    PROVE  From(SubSeq(s, 1, k), of) /\ From(SubSeq(s, k + 1, Len(s)), of)
<1>0. Len(s) \in Nat
  OBVIOUS
<1>1. /\ Len(SubSeq(s, 1, k)) = k
      /\ \A i \in 1 .. k : SubSeq(s, 1, k)[i] = s[i]
      /\ Len(SubSeq(s, k + 1, Len(s))) = Len(s) - k
      /\ \A i \in 1 .. Len(s) - k : SubSeq(s, k + 1, Len(s))[i] = s[k + i]
  BY Split
<1>2. (\A i \in 1 .. k : i \in 1 .. Len(s)) /\ (\A i \in 1 .. Len(s) - k : k + i \in 1 .. Len(s))
  BY <1>0
<1>. QED BY <1>1, <1>2 DEF From

\* Two sequences of one owner joined have it too.
LEMMA FromConcat ==
    ASSUME NEW U, NEW s \in Seq(U), NEW t \in Seq(U), NEW of, From(s, of), From(t, of)
    PROVE  From(s \o t, of)
<1>1. /\ Len(s) \in Nat /\ Len(t) \in Nat
      /\ Len(s \o t) = Len(s) + Len(t)
      /\ \A i \in 1 .. Len(s) + Len(t) : (s \o t)[i] = IF i <= Len(s) THEN s[i] ELSE t[i - Len(s)]
  BY ConcatProperties
<1>2. \A i \in 1 .. Len(s) + Len(t) : i \in 1 .. Len(s) \/ (~(i <= Len(s)) /\ i - Len(s) \in 1 .. Len(t))
  BY <1>1
<1>. QED BY <1>1, <1>2 DEF From

\* The empty sequence has every owner.
LEMMA FromEmpty == \A of : From(<<>>, of)
BY DEF From

-----------------------------------------------------------------------------
(* Types                                                                    *)

\* A response, interim or not, consists of units.
LEMMA ScriptType ==
    ASSUME NEW r \in Responses, NEW of \in 1 .. NumExchanges
    PROVE  Script(of, r) \in Seq(UnitType)
<1>. DEFINE first == IF r.interim THEN <<Unit(of, "interim")>> ELSE <<>>
            body == Body(of, r)
            rest == IF r.flaw # "none" THEN Append(Tail(body), Unit(of, r.flaw))
                    ELSE IF r.framing = "chunked" THEN Append(body, Unit(of, "last"))
                    ELSE body
<1>0. r.body \in Nat /\ r.flaw \in Flaws /\ (r.flaw # "none" => r.body > 0)
  BY ExchangeAssumption DEF ResponseShape
<1>1. \A k \in Kinds \ {"head"} : Unit(of, k) \in UnitType
  BY DEF UnitType
<1>2. /\ Unit(of, "data") \in UnitType /\ Unit(of, "last") \in UnitType /\ Unit(of, "interim") \in UnitType
      /\ (r.flaw # "none" => Unit(of, r.flaw) \in UnitType)
  BY <1>0, <1>1 DEF Kinds, Flaws
<1>3. HeadUnit(of, r) \in UnitType
  BY DEF UnitType
<1>4. body \in Seq(UnitType) /\ Len(body) = r.body
  BY <1>0, <1>2 DEF Body
<1>. HIDE DEF body
<1>5. rest \in Seq(UnitType)
  <2>1. CASE r.flaw # "none"
    <3>1. body # <<>>
      BY <1>0, <1>4, <2>1
    <3>2. Tail(body) \in Seq(UnitType)
      BY <1>4, <3>1, Pop
    <3>. QED BY <1>2, <2>1, <3>2, Push
  <2>2. CASE r.flaw = "none" /\ r.framing = "chunked"
    BY <1>2, <1>4, <2>2, Push
  <2>3. CASE r.flaw = "none" /\ r.framing # "chunked"
    BY <1>4, <2>3
  <2>. QED BY <2>1, <2>2, <2>3
<1>6. first \in Seq(UnitType) /\ <<HeadUnit(of, r)>> \in Seq(UnitType)
  BY <1>2, <1>3
<1>7. Script(of, r) = (first \o <<HeadUnit(of, r)>>) \o rest
  BY DEF Script, body
<1>. HIDE DEF first, rest
<1>8. first \o <<HeadUnit(of, r)>> \in Seq(UnitType)
  BY <1>6, ConcatProperties
<1>. QED BY <1>5, <1>7, <1>8, ConcatProperties

\* closeSessionIfSingleUse() gives the connection up after a failed body.
LEMMA FinishFails ==
    ASSUME Finish(-1)
    PROVE  phase' = "over" /\ result' = "failed" /\ goingAway' /\ goingAway' \in BOOLEAN
<1>1. -1 \notin {0, 1}
  OBVIOUS
<1>. QED BY <1>1 DEF Finish

\* An exchange that read its body, or the end of input, succeeds.
LEMMA FinishEnds ==
    ASSUME NEW rc \in {0, 1}, Finish(rc)
    PROVE  /\ phase' = "over" /\ result' = "ok" /\ goingAway' \in BOOLEAN
           /\ head.framing = "close" => goingAway'
BY DEF Finish

\* The types hold at the start.
LEMMA TypedInit ==
    ASSUME Init
    PROVE  Typed
<1>1. <<>> \in Seq(UnitType) /\ NoHead \in HeadType /\ 0 \in 0 .. NumExchanges
  BY ExchangeAssumption DEF NoHead, HeadType, Framings
<1>2. waiting \in Nat /\ n + waiting <= NumExchanges
  BY ExchangeAssumption DEF Init
<1>3. late \in BOOLEAN /\ blocked \in BOOLEAN /\ goingAway \in BOOLEAN /\ closed \in BOOLEAN
  BY DEF Init
<1>. QED BY <1>1, <1>2, <1>3 DEF Init, Typed

\* Every step keeps the types, interim responses included.
LEMMA TypedNext ==
    ASSUME Typed, [Next]_vars
    PROVE  Typed'
<1>. USE DEF Typed, serverVars, readerVars, handVars
<1>0. <<>> \in Seq(UnitType)
  OBVIOUS
<1>1. CASE ServerWrites
  <2>1. outbox[1] \in UnitType /\ Tail(outbox) \in Seq(UnitType)
    BY <1>1, Pop DEF ServerWrites
  <2>2. Append(inbound, outbox[1]) \in Seq(UnitType)
    BY <2>1, Push
  <2>. QED BY <1>1, <2>1, <2>2 DEF ServerWrites
<1>2. CASE ServerCloses
  BY <1>0, <1>2 DEF ServerCloses
<1>3. CASE Begin
  <2>1. n + 1 \in 1 .. NumExchanges /\ NoHead \in HeadType
    BY <1>3, ExchangeAssumption DEF Begin, NoHead, HeadType, Framings
  <2>. QED BY <1>0, <1>3, <2>1, ExchangeAssumption DEF Begin, InUse
<1>4. CASE Send
  <2>1. n \in 1 .. NumExchanges
    BY <1>4, ExchangeAssumption DEF Send
  <2>2. outbox \o Script(n, response) \in Seq(UnitType)
    BY <2>1, ScriptType, ConcatProperties
  <2>. QED BY <1>4, <2>2 DEF Send, InUse
<1>5. CASE SendFails
  BY <1>5 DEF SendFails
<1>6. CASE FillBuffer
  <2>1. PICK k \in 1 .. Len(inbound) :
          buf' = buf \o SubSeq(inbound, 1, k) /\ inbound' = SubSeq(inbound, k + 1, Len(inbound))
    BY <1>6 DEF FillBuffer
  <2>2. SubSeq(inbound, 1, k) \in Seq(UnitType) /\ SubSeq(inbound, k + 1, Len(inbound)) \in Seq(UnitType)
    BY Split
  <2>3. buf' \in Seq(UnitType)
    BY <2>1, <2>2, ConcatProperties
  <2>. QED BY <1>6, <2>1, <2>2, <2>3 DEF FillBuffer
<1>7. CASE FillEnds
  <2>1. ending' \in {"open", "eof", "error", "timeout"}
    BY <1>7 DEF FillEnds, Endings
  <2>. QED BY <1>7, <2>1 DEF FillEnds
<1>8. CASE ReadHead
  <2>1. buf[1] \in UnitType /\ Tail(buf) \in Seq(UnitType)
    BY <1>8, Pop DEF ReadHead
  <2>2. Append(got, buf[1]) \in Seq(UnitType)
    BY <2>1, Push
  <2>3. NoHead \in HeadType
    BY ExchangeAssumption DEF NoHead, HeadType, Framings
  <2>4. head' \in HeadType
    BY <1>8, <2>1, <2>3, HeadUnits DEF ReadHead
  <2>5. remaining' \in Nat
    BY <1>8, <2>4 DEF ReadHead, Announced, HeadType
  <2>. QED BY <1>8, <2>1, <2>2, <2>4, <2>5 DEF ReadHead, InUse
<1>9. CASE HeadFails
  BY <1>9 DEF HeadFails
<1>10. CASE BodyComplete
  <2>1. phase' = "over" /\ result' = "ok" /\ goingAway' \in BOOLEAN
    BY <1>10, FinishEnds DEF BodyComplete
  <2>. QED BY <1>10, <2>1 DEF BodyComplete
<1>11. CASE LastChunk
  <2>1. phase' = "over" /\ result' = "ok" /\ goingAway' \in BOOLEAN
    BY <1>11, FinishEnds DEF LastChunk
  <2>2. Tail(buf) \in Seq(UnitType)
    BY <1>11, Pop DEF LastChunk
  <2>. QED BY <1>11, <2>1, <2>2 DEF LastChunk
<1>12. CASE ReadPiece
  <2>1. buf[1] \in UnitType /\ Tail(buf) \in Seq(UnitType)
    BY <1>12, Pop DEF ReadPiece
  <2>2. got \o <<buf[1]>> \in Seq(UnitType)
    BY <2>1, Push
  <2>3. remaining' \in Nat
    BY <1>12 DEF ReadPiece, WantsPiece
  <2>4. phase' \in {"body", "over"} /\ result' \in {"none", "ok", "failed"} /\ goingAway' \in BOOLEAN
    BY <1>12, FinishFails DEF ReadPiece
  <2>. QED BY <1>12, <2>1, <2>2, <2>3, <2>4 DEF ReadPiece, Deliver, InUse
<1>13. CASE MalformedChunk
  <2>1. phase' = "over" /\ result' = "failed" /\ goingAway' \in BOOLEAN
    BY <1>13, FinishFails DEF MalformedChunk
  <2>. QED BY <1>13, <2>1 DEF MalformedChunk
<1>14. CASE BodyEnds
  <2>1. phase' = "over" /\ result' \in {"ok", "failed"} /\ goingAway' \in BOOLEAN
    BY <1>14, FinishEnds, FinishFails DEF BodyEnds
  <2>. QED BY <1>14, <2>1 DEF BodyEnds
<1>15. CASE ReadUntilClose
  <2>1. PICK k \in 1 .. Len(inbound) :
          got' = got \o SubSeq(inbound, 1, k) /\ inbound' = SubSeq(inbound, k + 1, Len(inbound))
    BY <1>15 DEF ReadUntilClose, Deliver
  <2>2. SubSeq(inbound, 1, k) \in Seq(UnitType) /\ SubSeq(inbound, k + 1, Len(inbound)) \in Seq(UnitType)
    BY Split
  <2>3. got' \in Seq(UnitType)
    BY <2>1, <2>2, ConcatProperties
  <2>4. phase' \in {"body", "over"} /\ result' \in {"none", "ok", "failed"} /\ goingAway' \in BOOLEAN
    BY <1>15, FinishFails DEF ReadUntilClose
  <2>. QED BY <1>15, <2>1, <2>2, <2>3, <2>4 DEF ReadUntilClose, InUse
<1>16. CASE UntilCloseEnds
  <2>1. PICK e \in Endings : Finish(IF e = "eof" THEN 0 ELSE -1)
    BY <1>16 DEF UntilCloseEnds
  <2>2. phase' = "over" /\ result' \in {"ok", "failed"} /\ goingAway' \in BOOLEAN
    BY <2>1, FinishEnds, FinishFails
  <2>. QED BY <1>16, <2>2 DEF UntilCloseEnds
<1>17. CASE UNCHANGED vars
  BY <1>17 DEF vars
<1>18. CASE HandOut
  BY <1>18, ExchangeAssumption DEF HandOut
<1>19. CASE FillBlocks
  BY <1>19 DEF FillBlocks
<1>20. CASE FillFails
  BY <1>20 DEF FillFails
<1>21. CASE UntilCloseFails
  <2>1. phase' = "over" /\ result' = "failed" /\ goingAway' \in BOOLEAN
    BY <1>21, FinishFails DEF UntilCloseFails
  <2>. QED BY <1>21, <2>1 DEF UntilCloseFails
<1>. QED BY <1>1, <1>2, <1>3, <1>4, <1>5, <1>6, <1>7, <1>8, <1>9, <1>10, <1>11, <1>12, <1>13, <1>14,
            <1>15, <1>16, <1>17, <1>18, <1>19, <1>20, <1>21 DEF Next, Exchange, Unbounded

-----------------------------------------------------------------------------
(* The steps                                                                *)

\* What is known of the response during an exchange.
LEMMA TheResponse ==
    ASSUME Typed, NoInterim, phase # "idle"
    PROVE  /\ n \in 1 .. NumExchanges
           /\ response \in Responses /\ response \in ResponseShape /\ ~response.interim
           /\ response.body \in Nat /\ ScriptLength(response) \in Nat
           /\ (response.framing = "none" => response.body = 0)
           /\ (response.flaw # "none" => response.framing = "chunked")
           /\ HeadUnit(n, response) \in HeadType
           /\ Script(n, response) \in Seq(UnitType)
           /\ Len(Script(n, response)) = ScriptLength(response)
<1>1. n \in 1 .. NumExchanges /\ response \in Responses
  BY ExchangeAssumption DEF Typed
<1>2. /\ response \in ResponseShape /\ ~response.interim /\ response.body \in Nat
      /\ (response.framing = "none" => response.body = 0)
      /\ (response.flaw # "none" => response.framing = "chunked")
  BY <1>1, ExchangeAssumption DEF NoInterim, ResponseShape
<1>3. HeadUnit(n, response) \in HeadType
  BY <1>1, <1>2, ExchangeAssumption DEF HeadUnit, HeadType, ResponseShape
<1>4. ScriptLength(response) \in Nat
  BY <1>2 DEF ScriptLength
<1>. QED BY <1>1, <1>2, <1>3, <1>4, ScriptShape

\* An exchange that ends keeps the invariant when the connection is given up or empty.
LEMMA Over ==
    ASSUME Typed', ClosedOK', From(got, n)', n' >= 1, phase' = "over", DelimitedResponseWhole',
           goingAway' \/ (outbox' = <<>> /\ inbound' = <<>> /\ buf' = <<>>)
    PROVE  Sound'
BY DEF Sound, RestOK, OwnOK, ReadingOK, InUse

\* The server writes the next unit: it moves from the outbox to the socket.
LEMMA WritesHolds ==
    ASSUME Sound, Typed', NoInterim, ServerWrites
    PROVE  Sound'
<1>. USE DEF Sound
<1>1. /\ ~closed /\ outbox # <<>> /\ inbound' = Append(inbound, outbox[1]) /\ outbox' = Tail(outbox)
      /\ n' = n /\ phase' = phase /\ response' = response /\ closed' = closed /\ buf' = buf
      /\ ending' = ending /\ head' = head /\ remaining' = remaining /\ got' = got
      /\ result' = result /\ goingAway' = goingAway /\ late' = late
  BY DEF ServerWrites, readerVars, handVars
<1>2. outbox[1] \in UnitType /\ Tail(outbox) \in Seq(UnitType)
  BY <1>1, Pop DEF Typed
<1>5. RestOK'
  BY <1>1 DEF RestOK
<1>6. ClosedOK'
  BY <1>1 DEF ClosedOK
<1>7. OwnOK'
  <2>1. CASE phase \in {"head", "body"}
    <3>1. outbox[1].of = n /\ From(Tail(outbox), n)
      BY <1>1, <2>1, FromPop DEF Typed, OwnOK
    <3>2. From(Append(inbound, outbox[1]), n)
      BY <1>2, <2>1, <3>1, FromPush DEF Typed, OwnOK
    <3>. QED BY <1>1, <2>1, <3>1, <3>2 DEF OwnOK
  <2>2. CASE phase \notin {"head", "body"}
    BY <1>1, <2>2 DEF OwnOK
  <2>. QED BY <2>1, <2>2
<1>8. ReadingOK'
  <2>1. phase # "idle" /\ OnTheWay => OnTheWay'
    <3>. SUFFICES ASSUME phase # "idle", OnTheWay PROVE OnTheWay'
      OBVIOUS
    <3>1. Script(n, response) \in Seq(UnitType)
      BY TheResponse
    <3>2. /\ Aligned(got, buf, Append(inbound, outbox[1]), Tail(outbox), Script(n, response))
          /\ Total(got, buf, Append(inbound, outbox[1]), Tail(outbox)) = Total(got, buf, inbound, outbox)
      BY <1>1, <3>1, AlignWrite DEF OnTheWay, Typed
    <3>. QED BY <1>1, <3>2 DEF OnTheWay
  <2>. QED BY <1>1, <2>1 DEF ReadingOK
<1>9. DelimitedResponseWhole'
  BY <1>1 DEF DelimitedResponseWhole, Whole
<1>. QED BY <1>5, <1>6, <1>7, <1>8, <1>9

\* The server closes: the rest of its response never comes.
LEMMA ClosesHolds ==
    ASSUME Sound, Typed', NoInterim, ServerCloses
    PROVE  Sound'
<1>. USE DEF Sound
<1>1. /\ ~closed /\ closed' = TRUE /\ outbox' = <<>> /\ inbound' = inbound
      /\ n' = n /\ phase' = phase /\ response' = response /\ buf' = buf
      /\ ending' = ending /\ head' = head /\ remaining' = remaining /\ got' = got
      /\ result' = result /\ goingAway' = goingAway /\ late' = late
  BY DEF ServerCloses, readerVars, handVars
<1>5. RestOK'
  BY <1>1 DEF RestOK
<1>6. ClosedOK'
  BY <1>1 DEF ClosedOK
<1>7. OwnOK'
  BY <1>1, FromEmpty DEF OwnOK
<1>8. ReadingOK'
  <2>1. phase # "idle" /\ OnTheWay => OnTheWay'
    <3>. SUFFICES ASSUME phase # "idle", OnTheWay PROVE OnTheWay'
      OBVIOUS
    <3>1. Script(n, response) \in Seq(UnitType)
      BY TheResponse
    <3>2. Aligned(got, buf, inbound, <<>>, Script(n, response))
      BY <3>1, AlignClose DEF OnTheWay, Typed
    <3>. QED BY <1>1, <3>2 DEF OnTheWay
  <2>. QED BY <1>1, <2>1 DEF ReadingOK
<1>9. DelimitedResponseWhole'
  BY <1>1 DEF DelimitedResponseWhole, Whole
<1>. QED BY <1>5, <1>6, <1>7, <1>8, <1>9

\* A hand-out, and a read that blocks, leave the exchange alone.
LEMMA WaitHolds ==
    ASSUME Sound, Typed', HandOut \/ FillBlocks
    PROVE  Sound'
<1>1. /\ n' = n /\ phase' = phase /\ response' = response /\ outbox' = outbox /\ inbound' = inbound
      /\ closed' = closed /\ buf' = buf /\ ending' = ending /\ head' = head /\ remaining' = remaining
      /\ got' = got /\ result' = result /\ goingAway' = goingAway /\ late' = late
  BY DEF HandOut, FillBlocks, serverVars, readerVars, handVars
<1>. QED BY <1>1 DEF Sound, RestOK, ClosedOK, OwnOK, ReadingOK, OnTheWay, DelimitedResponseWhole, Whole

\* A connection that is not given up is empty when the next exchange begins.
LEMMA BeginHolds ==
    ASSUME Sound, Typed', NoInterim, Begin, ~goingAway
    PROVE  Sound'
<1>. USE DEF Sound
<1>1. /\ phase \in {"idle", "over"} /\ waiting > 0 /\ n' = n + 1
      /\ response' \in Responses /\ phase' = "send" /\ buf' = <<>> /\ ending' = "open"
      /\ head' = NoHead /\ remaining' = 0 /\ got' = <<>> /\ result' = "none"
      /\ outbox' = outbox /\ inbound' = inbound /\ closed' = closed /\ goingAway' = goingAway
  BY DEF Begin
<1>5. RestOK'
  BY <1>1 DEF RestOK, InUse
<1>6. ClosedOK'
  BY <1>1 DEF ClosedOK
<1>7. OwnOK'
  BY <1>1, FromEmpty DEF OwnOK
<1>8. ReadingOK' /\ DelimitedResponseWhole'
  BY <1>1 DEF ReadingOK, DelimitedResponseWhole
<1>. QED BY <1>5, <1>6, <1>7, <1>8

\* The request makes the server owe exactly its response.
LEMMA SendHolds ==
    ASSUME Sound, Typed', NoInterim, Send
    PROVE  Sound'
<1>. USE DEF Sound
<1>1. /\ phase = "send" /\ outbox' = (IF closed THEN outbox ELSE outbox \o Script(n, response))
      /\ phase' = "head" /\ n' = n /\ response' = response /\ inbound' = inbound /\ closed' = closed
      /\ buf' = buf /\ ending' = ending /\ head' = head /\ remaining' = remaining /\ got' = got
      /\ result' = result /\ goingAway' = goingAway
  BY DEF Send, readerVars
<1>2. outbox = <<>> /\ inbound = <<>> /\ buf = <<>> /\ got = <<>> /\ ~goingAway
  BY <1>1 DEF RestOK, InUse
<1>3. /\ n \in 1 .. NumExchanges /\ response \in Responses /\ ~response.interim
      /\ Script(n, response) \in Seq(UnitType) /\ Len(Script(n, response)) \in Nat
  BY <1>1, TheResponse
<1>4. outbox' = (IF closed THEN <<>> ELSE Script(n, response))
  BY <1>1, <1>2, <1>3, ConcatEmptySeq
<1>5. <<>> \in Seq(UnitType) /\ Len(<<>>) = 0
  OBVIOUS
<1>7. RestOK'
  BY <1>1, <1>2, <1>3 DEF RestOK, InUse
<1>8. ClosedOK'
  BY <1>1, <1>4 DEF ClosedOK
<1>9. OwnOK'
  <2>1. From(outbox', n)
    BY <1>3, <1>4, ScriptIsOwn, FromEmpty
  <2>. QED BY <1>1, <1>2, <2>1, FromEmpty DEF OwnOK
<1>10. ReadingOK'
  <2>1. Aligned(<<>>, <<>>, <<>>, <<>>, Script(n, response))
    BY <1>3, <1>5 DEF Aligned, Total
  <2>2. Aligned(<<>>, <<>>, <<>>, Script(n, response), Script(n, response))
        /\ Total(<<>>, <<>>, <<>>, Script(n, response)) = Len(Script(n, response))
    BY <1>3, <1>5 DEF Aligned, Total
  <2>3. OnTheWay'
    BY <1>1, <1>2, <1>4, <2>1, <2>2 DEF OnTheWay
  <2>. QED BY <1>1, <1>2, <2>3 DEF ReadingOK
<1>11. DelimitedResponseWhole'
  BY <1>1 DEF DelimitedResponseWhole
<1>. QED BY <1>7, <1>8, <1>9, <1>10, <1>11

\* Every failure gives the connection up.
LEMMA FailsHold ==
    ASSUME Sound, Typed', NoInterim, SendFails \/ HeadFails \/ MalformedChunk
    PROVE  Sound'
<1>. USE DEF Sound
<1>1. /\ phase # "idle" /\ result' = "failed" /\ goingAway' /\ goingAway' \in BOOLEAN /\ phase' = "over"
      /\ n' = n /\ response' = response /\ outbox' = outbox /\ inbound' = inbound /\ closed' = closed
      /\ buf' = buf /\ ending' = ending /\ head' = head /\ remaining' = remaining /\ got' = got
  <2>1. CASE SendFails
    BY <2>1 DEF SendFails, serverVars, readerVars
  <2>2. CASE HeadFails
    BY <2>2 DEF HeadFails, serverVars, readerVars
  <2>3. CASE MalformedChunk
    BY <2>3, FinishFails DEF MalformedChunk, serverVars, readerVars
  <2>. QED BY <2>1, <2>2, <2>3
<1>3. ClosedOK'
  BY <1>1 DEF ClosedOK
<1>4. From(got, n)' /\ n' >= 1
  BY <1>1 DEF OwnOK, Typed
<1>5. DelimitedResponseWhole'
  BY <1>1 DEF DelimitedResponseWhole
<1>. QED BY <1>1, <1>3, <1>4, <1>5, Over

\* readerFill() takes the front of the socket into the empty buffer.
LEMMA FillHolds ==
    ASSUME Sound, Typed', NoInterim, FillBuffer
    PROVE  Sound'
<1>. USE DEF Sound
<1>1. /\ NeedsInput
      /\ n' = n /\ phase' = phase /\ response' = response /\ outbox' = outbox /\ closed' = closed
      /\ ending' = ending /\ head' = head /\ remaining' = remaining /\ got' = got
      /\ result' = result /\ goingAway' = goingAway
  BY DEF FillBuffer
<1>2. PICK k \in 1 .. Len(inbound) :
        buf' = buf \o SubSeq(inbound, 1, k) /\ inbound' = SubSeq(inbound, k + 1, Len(inbound))
  BY DEF FillBuffer
<1>3. /\ buf = <<>> /\ ending = "open" /\ phase \in {"head", "body"}
      /\ phase = "body" => head.framing # "close"
  BY <1>1 DEF NeedsInput
<1>4. SubSeq(inbound, 1, k) \in Seq(UnitType) /\ SubSeq(inbound, k + 1, Len(inbound)) \in Seq(UnitType)
  BY Split DEF Typed
<1>5. buf' = SubSeq(inbound, 1, k)
  BY <1>2, <1>3, <1>4, ConcatEmptySeq
<1>7. RestOK'
  BY <1>1, <1>3 DEF RestOK
<1>8. ClosedOK'
  BY <1>1, <1>3 DEF ClosedOK
<1>9. OwnOK'
  <2>1. From(SubSeq(inbound, 1, k), n) /\ From(SubSeq(inbound, k + 1, Len(inbound)), n)
    BY <1>3, FromSplit DEF Typed, OwnOK
  <2>. QED BY <1>1, <1>2, <1>3, <1>5, <2>1 DEF OwnOK
<1>10. ReadingOK'
  <2>1. OnTheWay
    BY <1>3 DEF ReadingOK
  <2>2. Script(n, response) \in Seq(UnitType)
    BY <1>3, TheResponse
  <2>3. Aligned(got, <<>>, inbound, outbox, Script(n, response))
    BY <1>3, <2>1 DEF OnTheWay
  <2>4. /\ Aligned(got, SubSeq(inbound, 1, k), SubSeq(inbound, k + 1, Len(inbound)), outbox, Script(n, response))
        /\ Total(got, SubSeq(inbound, 1, k), SubSeq(inbound, k + 1, Len(inbound)), outbox)
             = Total(got, <<>>, inbound, outbox)
    BY <2>2, <2>3, AlignFill DEF Typed
  <2>5. OnTheWay'
    BY <1>1, <1>2, <1>3, <1>5, <2>1, <2>4 DEF OnTheWay
  <2>. QED BY <1>1, <2>5 DEF ReadingOK
<1>11. DelimitedResponseWhole'
  BY <1>1, <1>3 DEF DelimitedResponseWhole
<1>. QED BY <1>7, <1>8, <1>9, <1>10, <1>11

\* The input ends: end of file only behind the last unit.
LEMMA FillEndsHolds ==
    ASSUME Sound, Typed', NoInterim, FillEnds \/ FillFails
    PROVE  Sound'
<1>. USE DEF Sound
<1>1. /\ NeedsInput /\ ending' \in Endings \cup {"error"}
      /\ n' = n /\ phase' = phase /\ response' = response /\ outbox' = outbox /\ inbound' = inbound
      /\ closed' = closed /\ buf' = buf /\ head' = head /\ remaining' = remaining /\ got' = got
      /\ result' = result /\ goingAway' = goingAway
  BY DEF FillEnds, FillFails, serverVars
<1>2. phase \in {"head", "body"}
  BY <1>1 DEF NeedsInput
<1>3. ending' \in {"open", "eof", "error", "timeout"} /\ (ending' = "eof" => inbound = <<>> /\ closed)
  BY <1>1 DEF Endings
<1>5. RestOK'
  BY <1>1 DEF RestOK
<1>6. ClosedOK'
  BY <1>1, <1>3 DEF ClosedOK
<1>7. OwnOK'
  BY <1>1 DEF OwnOK
<1>8. ReadingOK'
  BY <1>1 DEF ReadingOK, OnTheWay
<1>9. DelimitedResponseWhole'
  BY <1>1, <1>2 DEF DelimitedResponseWhole
<1>. QED BY <1>5, <1>6, <1>7, <1>8, <1>9

\* The first unit is the final head, and content-length is what is then owed.
LEMMA ReadHeadHolds ==
    ASSUME Sound, Typed', NoInterim, ReadHead
    PROVE  Sound'
<1>. USE DEF Sound
<1>1. /\ phase = "head" /\ buf # <<>>
      /\ head' = (IF buf[1].kind = "head" THEN buf[1] ELSE NoHead)
      /\ remaining' = head'.body /\ got' = Append(got, buf[1]) /\ buf' = Tail(buf) /\ phase' = "body"
      /\ n' = n /\ response' = response /\ outbox' = outbox /\ inbound' = inbound /\ closed' = closed
      /\ ending' = ending /\ result' = result /\ goingAway' = goingAway
  BY DEF ReadHead, Announced, serverVars
<1>2. /\ n \in 1 .. NumExchanges /\ response \in Responses /\ ~response.interim
      /\ response.body \in Nat
      /\ HeadUnit(n, response) \in HeadType /\ Script(n, response) \in Seq(UnitType)
  BY <1>1, TheResponse
<1>3. OnTheWay /\ got = <<>> /\ Len(got) = 0 /\ ~goingAway
  BY <1>1 DEF ReadingOK, RestOK, InUse
<1>4. buf[1] \in UnitType /\ Tail(buf) \in Seq(UnitType)
  BY <1>1, Pop DEF Typed
<1>5. got' \in Seq(UnitType) /\ Len(got') = 1
  BY <1>1, <1>3, <1>4, Push DEF Typed
<1>6. /\ Aligned(Append(got, buf[1]), Tail(buf), inbound, outbox, Script(n, response))
      /\ Total(Append(got, buf[1]), Tail(buf), inbound, outbox) = Total(got, buf, inbound, outbox)
      /\ buf[1] = Script(n, response)[Len(got) + 1]
  <2>1. Aligned(got, buf, inbound, outbox, Script(n, response))
    BY <1>3 DEF OnTheWay
  <2>2. got \in Seq(UnitType) /\ buf \in Seq(UnitType) /\ inbound \in Seq(UnitType) /\ outbox \in Seq(UnitType)
    BY DEF Typed
  <2>. QED BY <1>1, <1>2, <2>1, <2>2, AlignRead
<1>7. buf[1] = HeadUnit(n, response)
  BY <1>2, <1>3, <1>6, ScriptShape
<1>8. head' = HeadUnit(n, response) /\ remaining' = response.body /\ head'.body = response.body
  <2>1. HeadUnit(n, response).kind = "head" /\ HeadUnit(n, response).body = response.body
    BY DEF HeadUnit
  <2>. QED BY <1>1, <1>7, <2>1
<1>10. RestOK'
  BY <1>1, <1>3 DEF RestOK, InUse
<1>11. ClosedOK'
  BY <1>1 DEF ClosedOK
<1>12. OwnOK'
  <2>1. buf[1].of = n /\ From(Tail(buf), n)
    BY <1>1, FromPop DEF Typed, OwnOK
  <2>2. From(Append(got, buf[1]), n)
    BY <1>4, <2>1, FromPush DEF Typed, OwnOK
  <2>. QED BY <1>1, <2>1, <2>2 DEF OwnOK
<1>13. ReadingOK'
  <2>1. OnTheWay'
    BY <1>1, <1>3, <1>6 DEF OnTheWay
  <2>2. remaining' + Len(got') = head'.body + 1
    BY <1>2, <1>5, <1>8
  <2>. QED BY <1>1, <1>5, <1>8, <2>1, <2>2 DEF ReadingOK
<1>14. DelimitedResponseWhole'
  BY <1>1 DEF DelimitedResponseWhole
<1>. QED BY <1>10, <1>11, <1>12, <1>13, <1>14

\* During the body, the parsed head is that of the response.
LEMMA TheHead ==
    ASSUME Typed, ReadingOK, phase = "body"
    PROVE  head.framing = response.framing /\ head.body = response.body
BY DEF ReadingOK, HeadUnit

\* When the response is all handed over or buffered, nothing more is to come.
LEMMA Emptied ==
    ASSUME Typed, NoInterim, phase # "idle", OnTheWay,
           Len(got) + Len(buf) >= Len(Script(n, response))
    PROVE  inbound = <<>> /\ outbox = <<>> /\ Len(got) + Len(buf) = Len(Script(n, response))
<1>1. /\ Len(got) \in Nat /\ Len(buf) \in Nat /\ Len(inbound) \in Nat /\ Len(outbox) \in Nat
      /\ Len(Script(n, response)) \in Nat
  BY TheResponse DEF Typed
<1>2. Len(got) + Len(buf) + Len(inbound) + Len(outbox) <= Len(Script(n, response))
  BY DEF OnTheWay, Aligned, Total
<1>3. Len(inbound) = 0 /\ Len(outbox) = 0 /\ Len(got) + Len(buf) = Len(Script(n, response))
  BY <1>1, <1>2
<1>. QED BY <1>3, EmptySeq DEF Typed

\* Without a body, or with content-length counted down, the reader stands exactly
\* at the end of the response.
LEMMA BodyCompleteHolds ==
    ASSUME Sound, Typed', NoInterim, BodyComplete
    PROVE  Sound'
<1>. USE DEF Sound
<1>1. /\ phase = "body" /\ (head.framing = "none" \/ (head.framing = "length" /\ remaining = 0))
      /\ n' = n /\ response' = response /\ outbox' = outbox /\ inbound' = inbound /\ closed' = closed
      /\ buf' = buf /\ ending' = ending /\ head' = head /\ remaining' = remaining /\ got' = got
      /\ Finish(1)
  BY DEF BodyComplete, serverVars, readerVars
<1>2. phase' = "over" /\ result' = "ok" /\ goingAway' \in BOOLEAN
  BY <1>1, FinishEnds
<1>3. /\ n \in 1 .. NumExchanges /\ response \in Responses /\ ~response.interim
      /\ response.body \in Nat /\ (response.framing = "none" => response.body = 0)
      /\ (response.flaw # "none" => response.framing = "chunked")
      /\ Len(Script(n, response)) = ScriptLength(response)
  BY <1>1, TheResponse
<1>4. head.framing = response.framing /\ head.body = response.body
  BY <1>1, TheHead
<1>5. OnTheWay /\ Len(got) >= 1 /\ Len(got) \in Nat /\ Len(buf) \in Nat
      /\ (head.framing = "length" => remaining + Len(got) = head.body + 1)
  BY <1>1 DEF ReadingOK, Typed
<1>6. response.flaw = "none" /\ ScriptLength(response) = response.body + 1
  BY <1>1, <1>3, <1>4 DEF ScriptLength
<1>7. Len(got) + Len(buf) >= Len(Script(n, response))
  BY <1>1, <1>3, <1>4, <1>5, <1>6
<1>8. inbound = <<>> /\ outbox = <<>> /\ Len(got) + Len(buf) = response.body + 1
  BY <1>1, <1>3, <1>5, <1>6, <1>7, Emptied
<1>9. Len(got) = response.body + 1 /\ Len(buf) = 0
  BY <1>1, <1>3, <1>4, <1>5, <1>8
<1>10. buf = <<>>
  BY <1>9, EmptySeq DEF Typed
<1>11. got = Whole
  <2>1. \A i \in 1 .. Len(got) : got[i] = Script(n, response)[i]
    BY <1>5 DEF OnTheWay, Aligned
  <2>. QED BY <1>3, <1>6, <1>9, <2>1, WholeGot DEF Whole, Typed
<1>13. ClosedOK'
  BY <1>1 DEF ClosedOK
<1>14. From(got, n)' /\ n' >= 1
  BY <1>1, <1>3 DEF OwnOK
<1>15. DelimitedResponseWhole'
  BY <1>1, <1>11 DEF DelimitedResponseWhole, Whole
<1>. QED BY <1>1, <1>2, <1>8, <1>10, <1>13, <1>14, <1>15, Over

\* A last or garbled chunk stands only at the end of the response.
LEMMA LastChunkHolds ==
    ASSUME Sound, Typed', NoInterim, LastChunk
    PROVE  Sound'
<1>. USE DEF Sound
<1>1. /\ phase = "body" /\ head.framing = "chunked" /\ buf # <<>> /\ buf[1].kind \in {"last", "garbled"}
      /\ buf' = Tail(buf)
      /\ n' = n /\ response' = response /\ outbox' = outbox /\ inbound' = inbound /\ closed' = closed
      /\ ending' = ending /\ head' = head /\ remaining' = remaining /\ got' = got
      /\ Finish(1)
  BY DEF LastChunk, serverVars
<1>2. phase' = "over" /\ result' = "ok" /\ goingAway' \in BOOLEAN
  BY <1>1, FinishEnds
<1>3. /\ n \in 1 .. NumExchanges /\ response \in Responses /\ ~response.interim
      /\ response.body \in Nat /\ ScriptLength(response) \in Nat
      /\ Script(n, response) \in Seq(UnitType)
      /\ Len(Script(n, response)) = ScriptLength(response)
  BY <1>1, TheResponse
<1>4. response.framing = "chunked"
  BY <1>1, TheHead
<1>5. OnTheWay /\ Len(got) >= 1 /\ Len(got) \in Nat
  BY <1>1 DEF ReadingOK, Typed
<1>6. /\ Len(buf) \in Nat /\ Len(buf) >= 1
      /\ Tail(buf) \in Seq(UnitType) /\ Len(Tail(buf)) = Len(buf) - 1
  BY <1>1, Pop DEF Typed
<1>7. buf[1] = Script(n, response)[Len(got) + 1] /\ Len(got) + 1 \in 1 .. ScriptLength(response)
  BY <1>1, <1>3, <1>5, AlignRead DEF OnTheWay, Typed
<1>8. Len(got) + 1 \in 2 .. ScriptLength(response)
  BY <1>5, <1>7
<1>9. Len(got) + 1 = ScriptLength(response) /\ buf[1].kind = LastKind(response)
  <2>1. Unit(n, "data").kind = "data" /\ Unit(n, LastKind(response)).kind = LastKind(response)
    BY DEF Unit
  <2>2. buf[1] = IF Len(got) + 1 = ScriptLength(response)
                 THEN Unit(n, LastKind(response)) ELSE Unit(n, "data")
    BY <1>3, <1>4, <1>7, <1>8, ScriptShape
  <2>. QED BY <1>1, <2>1, <2>2
<1>10. inbound = <<>> /\ outbox = <<>> /\ Len(got) + Len(buf) = ScriptLength(response)
  <2>1. Len(got) + Len(buf) >= Len(Script(n, response))
    BY <1>3, <1>5, <1>6, <1>9
  <2>. QED BY <1>1, <1>3, <1>5, <2>1, Emptied
<1>11. Tail(buf) = <<>>
  <2>1. Len(Tail(buf)) = 0
    BY <1>5, <1>6, <1>9, <1>10
  <2>. QED BY <1>6, <2>1, EmptySeq
<1>12. response.flaw # "garbled" => got = Whole
  <2>. SUFFICES ASSUME response.flaw # "garbled" PROVE got = Whole
    OBVIOUS
  <2>1. response.flaw = "none"
    BY <1>1, <1>3, <1>9, ExchangeAssumption DEF LastKind, ResponseShape, Flaws
  <2>2. Len(got) = response.body + 1
    BY <1>3, <1>4, <1>5, <1>9, <2>1 DEF ScriptLength
  <2>3. \A i \in 1 .. Len(got) : got[i] = Script(n, response)[i]
    BY <1>5 DEF OnTheWay, Aligned
  <2>. QED BY <1>3, <2>1, <2>2, <2>3, WholeGot DEF Whole, Typed
<1>14. ClosedOK'
  BY <1>1 DEF ClosedOK
<1>15. From(got, n)' /\ n' >= 1
  BY <1>1, <1>3 DEF OwnOK
<1>16. DelimitedResponseWhole'
  BY <1>1, <1>12 DEF DelimitedResponseWhole, Whole
<1>. QED BY <1>1, <1>2, <1>10, <1>11, <1>14, <1>15, <1>16, Over

\* A piece of body goes to the stream; the consumer may stop the response there.
LEMMA ReadPieceHolds ==
    ASSUME Sound, Typed', NoInterim, ReadPiece
    PROVE  Sound'
<1>. USE DEF Sound
<1>1. /\ phase = "body" /\ buf # <<>> /\ WantsPiece
      /\ got' = got \o <<buf[1]>> /\ buf' = Tail(buf)
      /\ remaining' = (IF head.framing = "length" THEN remaining - 1 ELSE remaining)
      /\ n' = n /\ response' = response /\ outbox' = outbox /\ inbound' = inbound /\ closed' = closed
      /\ ending' = ending /\ head' = head
      /\ \/ phase' = phase /\ result' = result /\ goingAway' = goingAway
         \/ Finish(-1)
  BY DEF ReadPiece, Deliver, serverVars
<1>2. /\ n \in 1 .. NumExchanges /\ Script(n, response) \in Seq(UnitType)
  BY <1>1, TheResponse
<1>3. head.framing # "close" /\ (head.framing = "length" => remaining > 0)
  BY <1>1 DEF WantsPiece
<1>4. OnTheWay /\ Len(got) >= 1 /\ Len(got) \in Nat
      /\ (head.framing = "length" => remaining + Len(got) = head.body + 1)
  BY <1>1, <1>3 DEF ReadingOK, Typed
<1>5. buf[1] \in UnitType /\ Tail(buf) \in Seq(UnitType)
  BY <1>1, Pop DEF Typed
<1>6. got' = Append(got, buf[1]) /\ got' \in Seq(UnitType) /\ Len(got') = Len(got) + 1
  BY <1>1, <1>5, Push DEF Typed
<1>8. From(got', n) /\ From(Tail(buf), n)
  <2>1. buf[1].of = n /\ From(Tail(buf), n)
    BY <1>1, FromPop DEF Typed, OwnOK
  <2>2. From(Append(got, buf[1]), n)
    BY <1>5, <2>1, FromPush DEF Typed, OwnOK
  <2>. QED BY <1>6, <2>1, <2>2
<1>9. ClosedOK'
  BY <1>1 DEF ClosedOK
<1>10. CASE phase' = phase /\ result' = result /\ goingAway' = goingAway
  <2>2. RestOK'
    BY <1>1, <1>10 DEF RestOK
  <2>3. OwnOK'
    BY <1>1, <1>8, <1>10 DEF OwnOK
  <2>4. /\ Aligned(Append(got, buf[1]), Tail(buf), inbound, outbox, Script(n, response))
        /\ Total(Append(got, buf[1]), Tail(buf), inbound, outbox) = Total(got, buf, inbound, outbox)
    BY <1>1, <1>2, <1>4, AlignRead DEF OnTheWay, Typed
  <2>5. OnTheWay'
    BY <1>1, <1>4, <1>6, <2>4 DEF OnTheWay
  <2>6. head.framing = "length" => remaining' + Len(got') = head.body + 1
    BY <1>1, <1>4, <1>6 DEF Typed, HeadType
  <2>7. ReadingOK'
    BY <1>1, <1>4, <1>6, <1>10, <2>5, <2>6 DEF ReadingOK
  <2>8. DelimitedResponseWhole'
    BY <1>1, <1>10 DEF DelimitedResponseWhole
  <2>. QED BY <1>9, <2>2, <2>3, <2>7, <2>8
<1>11. CASE Finish(-1)
  <2>1. phase' = "over" /\ result' = "failed" /\ goingAway' /\ goingAway' \in BOOLEAN
    BY <1>11, FinishFails
  <2>3. DelimitedResponseWhole'
    BY <2>1 DEF DelimitedResponseWhole
  <2>4. From(got, n)' /\ n' >= 1
    BY <1>1, <1>2, <1>8
  <2>. QED BY <1>9, <2>1, <2>3, <2>4, Over
<1>. QED BY <1>1, <1>10, <1>11

\* End of input inside a body: the server has closed and nothing is left.
LEMMA BodyEndsHolds ==
    ASSUME Sound, Typed', NoInterim, BodyEnds
    PROVE  Sound'
<1>. USE DEF Sound
<1>1. /\ phase = "body" /\ buf = <<>> /\ ending # "open"
      /\ n' = n /\ response' = response /\ outbox' = outbox /\ inbound' = inbound /\ closed' = closed
      /\ buf' = buf /\ ending' = ending /\ head' = head /\ remaining' = remaining /\ got' = got
      /\ Finish(IF ending = "eof" THEN 0 ELSE -1)
  BY DEF BodyEnds, serverVars, readerVars
<1>2. /\ phase' = "over" /\ result' \in {"ok", "failed"} /\ goingAway' \in BOOLEAN
      /\ ending # "eof" => goingAway'
  BY <1>1, FinishEnds, FinishFails
<1>4. ClosedOK'
  BY <1>1 DEF ClosedOK
<1>5. From(got, n)' /\ n' >= 1
  BY <1>1 DEF OwnOK, Typed
<1>6. DelimitedResponseWhole'
  BY <1>1 DEF DelimitedResponseWhole
<1>7. ending = "eof" => outbox = <<>> /\ inbound = <<>>
  BY DEF ClosedOK
<1>. QED BY <1>1, <1>2, <1>4, <1>5, <1>6, <1>7, Over

\* A body read until close takes whatever is in the socket, all of it its own.
LEMMA ReadUntilCloseHolds ==
    ASSUME Sound, Typed', NoInterim, ReadUntilClose
    PROVE  Sound'
<1>. USE DEF Sound
<1>1. /\ phase = "body" /\ head.framing = "close"
      /\ n' = n /\ response' = response /\ outbox' = outbox /\ closed' = closed
      /\ buf' = buf /\ ending' = ending /\ head' = head /\ remaining' = remaining
      /\ \/ phase' = phase /\ result' = result /\ goingAway' = goingAway
         \/ Finish(-1)
  BY DEF ReadUntilClose
<1>2. PICK k \in 1 .. Len(inbound) :
        got' = got \o SubSeq(inbound, 1, k) /\ inbound' = SubSeq(inbound, k + 1, Len(inbound))
  BY DEF ReadUntilClose, Deliver
<1>3. SubSeq(inbound, 1, k) \in Seq(UnitType) /\ SubSeq(inbound, k + 1, Len(inbound)) \in Seq(UnitType)
  BY Split DEF Typed
<1>5. From(SubSeq(inbound, 1, k), n) /\ From(SubSeq(inbound, k + 1, Len(inbound)), n)
  BY <1>1, FromSplit DEF Typed, OwnOK
<1>6. From(got', n)
  BY <1>2, <1>3, <1>5, FromConcat DEF Typed, OwnOK
<1>7. inbound # <<>> /\ ending # "eof"
  <2>1. inbound # <<>>
    BY <1>2, EmptySeq DEF Typed
  <2>. QED BY <2>1 DEF ClosedOK
<1>8. ClosedOK'
  BY <1>1, <1>7 DEF ClosedOK
<1>9. CASE phase' = phase /\ result' = result /\ goingAway' = goingAway
  <2>2. RestOK'
    BY <1>1, <1>9 DEF RestOK
  <2>3. OwnOK'
    BY <1>1, <1>2, <1>5, <1>6, <1>9 DEF OwnOK
  <2>4. ReadingOK' /\ DelimitedResponseWhole'
    BY <1>1, <1>9 DEF ReadingOK, DelimitedResponseWhole
  <2>. QED BY <1>8, <2>2, <2>3, <2>4
<1>10. CASE Finish(-1)
  <2>1. phase' = "over" /\ result' = "failed" /\ goingAway' /\ goingAway' \in BOOLEAN
    BY <1>10, FinishFails
  <2>3. DelimitedResponseWhole'
    BY <2>1 DEF DelimitedResponseWhole
  <2>4. From(got, n)' /\ n' >= 1
    BY <1>1, <1>6 DEF Typed
  <2>. QED BY <1>8, <2>1, <2>3, <2>4, Over
<1>. QED BY <1>1, <1>9, <1>10

\* A body read until close gives the connection up.
LEMMA UntilCloseEndsHolds ==
    ASSUME Sound, Typed', NoInterim, UntilCloseEnds \/ UntilCloseFails
    PROVE  Sound'
<1>. USE DEF Sound
<1>1. /\ phase = "body" /\ head.framing = "close"
      /\ n' = n /\ response' = response /\ outbox' = outbox /\ inbound' = inbound /\ closed' = closed
      /\ buf' = buf /\ ending' = ending /\ head' = head /\ remaining' = remaining /\ got' = got
  BY DEF UntilCloseEnds, UntilCloseFails, serverVars, readerVars
<1>2. Finish(0) \/ Finish(-1)
  BY DEF UntilCloseEnds, UntilCloseFails
<1>3. phase' = "over" /\ result' \in {"ok", "failed"} /\ goingAway' \in BOOLEAN /\ goingAway'
  BY <1>1, <1>2, FinishEnds, FinishFails
<1>5. ClosedOK'
  BY <1>1 DEF ClosedOK
<1>6. From(got, n)' /\ n' >= 1
  BY <1>1 DEF OwnOK, Typed
<1>7. DelimitedResponseWhole'
  BY <1>1 DEF DelimitedResponseWhole
<1>. QED BY <1>3, <1>5, <1>6, <1>7, Over

-----------------------------------------------------------------------------
(* The theorems                                                             *)

\* The invariant holds at the start.
LEMMA InitHolds ==
    ASSUME Init
    PROVE  IInv
<1>1. Typed
  BY TypedInit
<1>. QED BY <1>1, FromEmpty
     DEF Init, IInv, Sound, RestOK, ClosedOK, OwnOK, ReadingOK, DelimitedResponseWhole, InUse

\* An exchange on a connection in use stays sound.
LEMMA SoundNext ==
    ASSUME Sound, Typed', NoInterim, Next, Begin => ~goingAway
    PROVE  Sound'
BY WritesHolds, ClosesHolds, WaitHolds, BeginHolds, SendHolds, FailsHold, FillHolds, FillEndsHolds,
   ReadHeadHolds, BodyCompleteHolds, LastChunkHolds, ReadPieceHolds, BodyEndsHolds,
   ReadUntilCloseHolds, UntilCloseEndsHolds
   DEF Next, Exchange, Unbounded

\* Only the start of an exchange decides whether it is late.
LEMMA LateStays ==
    ASSUME Next, ~Begin
    PROVE  late' = late
BY DEF Next, Exchange, Unbounded, ServerWrites, ServerCloses, HandOut, Send, SendFails, FillBuffer, FillBlocks,
       FillEnds, FillFails, ReadHead, HeadFails, BodyComplete, LastChunk, ReadPiece, MalformedChunk, BodyEnds,
       ReadUntilClose, UntilCloseEnds, UntilCloseFails, handVars

\* A connection given up stays given up.
LEMMA GivenUpStays ==
    ASSUME Typed, Typed', Next, goingAway
    PROVE  goingAway'
<1>1. ASSUME NEW rc, Finish(rc)
      PROVE  goingAway'
  BY <1>1 DEF Finish
<1>. QED BY <1>1
     DEF Next, Exchange, Unbounded, ServerWrites, ServerCloses, HandOut, Begin, Send, SendFails, FillBuffer,
         FillBlocks, FillEnds, FillFails, ReadHead, HeadFails, BodyComplete, LastChunk, ReadPiece, MalformedChunk,
         BodyEnds, ReadUntilClose, UntilCloseEnds, UntilCloseFails

\* Every step keeps the invariant.
LEMMA NextHolds ==
    ASSUME IInv, NoInterim, [Next]_vars
    PROVE  IInv'
<1>0. Typed /\ Typed' /\ late \in BOOLEAN /\ goingAway \in BOOLEAN
  BY TypedNext DEF IInv, Typed
<1>1. CASE Next /\ Begin
  <2>1. late' = goingAway /\ goingAway' = goingAway
    BY <1>1 DEF Begin
  <2>2. CASE goingAway
    BY <1>0, <2>1, <2>2 DEF IInv
  <2>3. CASE ~goingAway
    <3>1. Sound
      BY <2>3 DEF IInv
    <3>2. Sound'
      BY <1>0, <1>1, <2>3, <3>1, BeginHolds
    <3>. QED BY <1>0, <2>1, <2>3, <3>2 DEF IInv
  <2>. QED BY <2>2, <2>3
<1>2. CASE Next /\ ~Begin
  <2>1. late' = late
    BY <1>2, LateStays
  <2>2. CASE late
    <3>1. goingAway'
      BY <1>0, <1>2, <2>2, GivenUpStays DEF IInv
    <3>. QED BY <1>0, <2>1, <2>2, <3>1 DEF IInv
  <2>3. CASE ~late
    <3>1. Sound'
      BY <1>0, <1>2, <2>3, SoundNext DEF IInv
    <3>. QED BY <1>0, <2>1, <2>3, <3>1 DEF IInv
  <2>. QED BY <2>2, <2>3
<1>3. CASE UNCHANGED vars
  BY <1>0, <1>3 DEF vars, serverVars, readerVars, handVars, IInv, Sound, RestOK, ClosedOK, OwnOK, ReadingOK,
              OnTheWay, DelimitedResponseWhole, Whole
<1>. QED BY <1>1, <1>2, <1>3

\* Http11Exchange has the inductive invariant, when no response is interim.
THEOREM Invariance == ASSUME NoInterim PROVE Spec => []IInv
<1>1. IInv /\ [Next]_vars => IInv'
  BY NextHolds
<1>. QED BY <1>1, InitHolds, PTL DEF Spec

\* Every variable stays in its range, whatever the responses.
THEOREM TypeCorrect == Spec => []TypeOK
<1>1. Typed => TypeOK
  <2>. SUFFICES ASSUME Typed PROVE TypeOK
    OBVIOUS
  <2>1. ASSUME NEW s \in {outbox, inbound, buf, got}, NEW i \in 1 .. Len(s)
        PROVE  s[i].kind \in Kinds /\ s[i].of \in 1 .. NumExchanges
    <3>1. s \in Seq(UnitType)
      BY DEF Typed
    <3>2. s[i] \in UnitType
      BY <3>1, ElementOfSeq
    <3>. QED BY <3>2, UnitFields
  <2>. QED BY <2>1 DEF Typed, TypeOK, InUse, HeadType
<1>. QED BY <1>1, TypedInit, TypedNext, PTL DEF Spec

\* A request that began on a connection in use sees only units of its own response,
\* whatever the exchanges before it left behind: pieces of body, a half read
\* response, a closed connection.
THEOREM OwnResponse == ASSUME NoInterim PROVE Spec => []NoCrossTalk
<1>1. IInv => NoCrossTalk
  BY DEF IInv, Sound, OwnOK, From, NoCrossTalk
<1>. QED BY <1>1, Invariance, PTL

\* The connection stays in use after an exchange only when the whole response has
\* left it, even though goingAway is tested at the lookup alone.
THEOREM ReusedClean == ASSUME NoInterim PROVE Spec => []CleanReuse
<1>1. IInv => CleanReuse
  BY DEF IInv, Sound, RestOK, CleanReuse
<1>. QED BY <1>1, Invariance, PTL

\* A success on an open connection delivered the head and the whole body of a
\* delimited response, however it fell into reads, when the exchange began on a
\* connection in use.
THEOREM DeliveredWhole == ASSUME NoInterim PROVE Spec => []DelimitedResponseWhole
<1>1. IInv => DelimitedResponseWhole
  BY DEF IInv, Sound, DelimitedResponseWhole
<1>. QED BY <1>1, Invariance, PTL
=============================================================================
