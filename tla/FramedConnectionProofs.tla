------------------------ MODULE FramedConnectionProofs ------------------------
(****************************************************************************)
(* Theorems about FramedConnection, for frames of any size, headers and     *)
(* transports of any size, and every way of cutting sends and receives.     *)
(*                                                                          *)
(* The invariant follows one frame through the connection.  Bytes of at     *)
(* most one direction are under way, all of them belong to the last         *)
(* request, and what the receiver holds followed by what is on the wire is  *)
(* the beginning of that frame.                                             *)
(****************************************************************************)
EXTENDS FramedConnection, TLAPS

-----------------------------------------------------------------------------
(* The inductive invariant *)

\* The sequence holds the bytes of frame n that follow the first "from" ones.
Numbered(s, n, from) == \A i \in 1 .. Len(s) : s[i] = <<n, from + i>>

FullSize(e, n) == kFrameHeaderSize + PayloadSize(e, n)

Underway(e) == Len(inbox[Other(e)]) + Len(wire[e])

Silent(e) == inbox[Other(e)] = <<>> /\ wire[e] = <<>>

\* What is under way from end e, if anything, is the beginning of its current
\* frame; while e sends, it is exactly the bytes that were sent.
StreamOK(e) ==
  \/ Silent(e) /\ phase[e] # "sending"
  \/ /\ Current > 0
     /\ Numbered(inbox[Other(e)], Current, 0)
     /\ Numbered(wire[e], Current, Len(inbox[Other(e)]))
     /\ Underway(e) <= FullSize(e, Current)
     /\ phase[e] = "sending" => Underway(e) = sent[e] /\ sent[e] < FullSize(e, Current)

\* An idle peer has all its answers and nothing is under way.
IdleOK ==
  phase["peer"] = "idle" =>
    /\ Len(asked) = Len(answers)
    /\ Silent("peer") /\ Silent("handler") /\ phase["handler"] # "sending"

\* A peer that sends or receives has exactly one request without an answer.
PendingOK == phase["peer"] \in {"sending", "receiving"} => Len(asked) = Len(answers) + 1

Answering == phase["handler"] = "sending" \/ ~Silent("handler")

\* An answer is under way only when the request was read to its end and was
\* accepted, and the peer has stopped sending.
AnsweringOK ==
  Answering =>
    /\ Current > 0 /\ Silent("peer") /\ phase["peer"] # "sending"
    /\ asked[Current].known /\ asked[Current].size <= kMaxFramePayload

ConnInv ==
  /\ ConnTypeOK
  /\ \A e \in Ends : StreamOK(e)
  /\ IdleOK /\ PendingOK /\ AnsweringOK
  /\ phase["handler"] # "idle"

-----------------------------------------------------------------------------
(* Lemmas *)

LEMMA TwoEnds ==
  /\ Ends = {"peer", "handler"}
  /\ Other("peer") = "handler" /\ Other("handler") = "peer"
  /\ \A e \in Ends : Other(e) \in Ends /\ Other(Other(e)) = e /\ Other(e) # e
BY DEF Ends, Other

LEMMA Sums ==
  ASSUME NEW a \in Nat, NEW b \in Nat, NEW c \in Nat
  PROVE  /\ a + (b + c) = (a + b) + c
         /\ c <= b => (a + c) + (b - c) = a + b
         /\ a + b # c /\ a + b <= c => a + b < c
OBVIOUS

LEMMA SumNat ==
  ASSUME NEW a \in Nat, NEW b \in Nat
  PROVE  a + b \in Nat /\ a + 0 \in Nat /\ a + 0 <= a + b /\ a <= a + b
OBVIOUS

\* Every frame has a size, and its bytes are numbered from 1.
LEMMA SizeOK ==
  ASSUME ConnTypeOK, NEW e \in Ends, NEW n \in 1 .. Len(asked)
  PROVE  /\ PayloadSize(e, n) \in Nat
         /\ FullSize(e, n) \in Nat /\ FullSize(e, n) >= kFrameHeaderSize
         /\ FullSize(e, n) = kFrameHeaderSize + PayloadSize(e, n)
         /\ Bytes(e, n) \in Seq(Byte) /\ Len(Bytes(e, n)) = FullSize(e, n)
         /\ Numbered(Bytes(e, n), n, 0)
<1>1. asked[n] \in [size : Nat, answer : Nat, known : BOOLEAN, registers : BOOLEAN]
  BY ConnectionAssumption DEF ConnTypeOK
<1>2. PayloadSize(e, n) \in Nat
  BY <1>1 DEF PayloadSize
<1>3. /\ FullSize(e, n) \in Nat /\ FullSize(e, n) >= kFrameHeaderSize
      /\ FullSize(e, n) = kFrameHeaderSize + PayloadSize(e, n)
  BY <1>2, ConnectionAssumption DEF FullSize
<1>4. Bytes(e, n) = [i \in 1 .. FullSize(e, n) |-> <<n, i>>]
  BY DEF Bytes, FullSize
<1>5. n \in 1 .. MaxRequests
  BY ConnectionAssumption DEF ConnTypeOK
<1>6. \A i \in 1 .. FullSize(e, n) : <<n, i>> \in Byte
  BY <1>3, <1>5 DEF Byte
<1>7. Bytes(e, n) \in Seq(Byte) /\ Len(Bytes(e, n)) = FullSize(e, n)
  BY <1>3, <1>4, <1>6
<1>8. Numbered(Bytes(e, n), n, 0)
  BY <1>3, <1>4, <1>7 DEF Numbered
<1> QED BY <1>2, <1>3, <1>7, <1>8

\* The part of a numbered sequence from a + 1 to b is numbered from a.
LEMMA NumberedPart ==
  ASSUME NEW S, NEW s \in Seq(S), NEW n, NEW from \in Nat, Numbered(s, n, from),
         NEW a \in Nat, NEW b \in Nat, a <= b, b <= Len(s)
  PROVE  /\ SubSeq(s, a + 1, b) \in Seq(S)
         /\ Len(SubSeq(s, a + 1, b)) = b - a
         /\ Numbered(SubSeq(s, a + 1, b), n, from + a)
<1>1. SubSeq(s, a + 1, b) \in Seq(S) /\ Len(SubSeq(s, a + 1, b)) = b - a
  OBVIOUS
<1>2. \A i \in 1 .. b - a : SubSeq(s, a + 1, b)[i] = s[a + i]
  OBVIOUS
<1>3. \A i \in 1 .. b - a : s[a + i] = <<n, from + (a + i)>>
  BY DEF Numbered
<1>4. \A i \in 1 .. b - a : SubSeq(s, a + 1, b)[i] = <<n, (from + a) + i>>
  BY <1>2, <1>3
<1> QED BY <1>1, <1>4 DEF Numbered

LEMMA NumberedHead ==
  ASSUME NEW S, NEW s \in Seq(S), NEW n, NEW from \in Nat, Numbered(s, n, from),
         NEW b \in Nat, b <= Len(s)
  PROVE  /\ SubSeq(s, 1, b) \in Seq(S) /\ Len(SubSeq(s, 1, b)) = b
         /\ Numbered(SubSeq(s, 1, b), n, from)
<1>1. SubSeq(s, 1, b) \in Seq(S) /\ Len(SubSeq(s, 1, b)) = b
  OBVIOUS
<1>2. \A i \in 1 .. b : SubSeq(s, 1, b)[i] = s[i] /\ i \in 1 .. Len(s)
  OBVIOUS
<1> QED BY <1>1, <1>2 DEF Numbered

\* Two numbered sequences, the second of which goes on where the first ends.
LEMMA NumberedJoin ==
  ASSUME NEW S, NEW s \in Seq(S), NEW t \in Seq(S), NEW n, NEW from \in Nat,
         Numbered(s, n, from), Numbered(t, n, from + Len(s))
  PROVE  /\ s \o t \in Seq(S) /\ Len(s \o t) = Len(s) + Len(t)
         /\ Numbered(s \o t, n, from)
<1>1. s \o t \in Seq(S) /\ Len(s \o t) = Len(s) + Len(t)
  OBVIOUS
<1>2. ASSUME NEW i \in 1 .. Len(s \o t) PROVE (s \o t)[i] = <<n, from + i>>
  <2>1. CASE i <= Len(s)
    BY <2>1 DEF Numbered
  <2>2. CASE i > Len(s)
    <3>1. i - Len(s) \in 1 .. Len(t)
      BY <1>1, <2>2
    <3>2. (s \o t)[i] = t[i - Len(s)]
      BY <1>1, <2>2
    <3>3. t[i - Len(s)] = <<n, (from + Len(s)) + (i - Len(s))>>
      BY <3>1 DEF Numbered
    <3> QED BY <3>2, <3>3
  <2> QED BY <1>1, <2>1, <2>2
<1> QED BY <1>1, <1>2 DEF Numbered

\* Two sequences of one length with the same numbering are the same.
LEMMA NumberedSame ==
  ASSUME NEW S, NEW s \in Seq(S), NEW t \in Seq(S), NEW n, Len(s) = Len(t),
         Numbered(s, n, 0), Numbered(t, n, 0)
  PROVE  s = t
<1>1. \A i \in 1 .. Len(s) : s[i] = t[i]
  BY DEF Numbered
<1> QED BY <1>1

\* A stream that nobody touches keeps its invariant, also when its end stops
\* sending.
LEMMA StreamUntouched ==
  ASSUME NEW e \in Ends, StreamOK(e), asked' = asked,
         inbox'[Other(e)] = inbox[Other(e)], wire'[e] = wire[e],
         phase'[e] # "sending" \/ (phase'[e] = phase[e] /\ sent'[e] = sent[e])
  PROVE  StreamOK(e)'
<1>1. CASE Silent(e) /\ phase[e] # "sending"
  BY <1>1 DEF StreamOK, Silent
<1>2. CASE ~(Silent(e) /\ phase[e] # "sending")
  BY <1>2 DEF StreamOK, Silent, Underway, Current, FullSize, PayloadSize
<1> QED BY <1>1, <1>2

\* A frame that was read to its end is the current one, and nothing more is
\* under way from its sender, who has stopped sending.
LEMMA FrameReadOK ==
  ASSUME ConnInv, NEW e \in Ends, FrameRead(e)
  PROVE  /\ Current \in 1 .. Len(asked) /\ Announced(e) = Current
         /\ wire[Other(e)] = <<>> /\ phase[Other(e)] # "sending"
         /\ ~Silent(Other(e))
         /\ PayloadSize(Other(e), Current) <= kMaxFramePayload
         /\ e = "handler" => asked[Current].known
<1> DEFINE o == Other(e)
<1>1. o \in Ends /\ Other(o) = e
  BY TwoEnds
<1>2. /\ asked \in Seq(Frames) /\ inbox[e] \in Seq(Byte) /\ wire[o] \in Seq(Byte)
      /\ kFrameHeaderSize \in Nat \ {0}
  BY <1>1, ConnectionAssumption DEF ConnInv, ConnTypeOK
<1>3. Len(inbox[e]) >= kFrameHeaderSize
  BY DEF FrameRead, HeaderRead
<1>4. inbox[e] # <<>> /\ ~Silent(o)
  BY <1>1, <1>2, <1>3 DEF Silent
<1>5. /\ Current > 0 /\ Numbered(inbox[e], Current, 0)
      /\ Underway(o) <= FullSize(o, Current)
      /\ phase[o] = "sending" => Underway(o) < FullSize(o, Current)
  BY <1>1, <1>4 DEF ConnInv, StreamOK
<1>6. Current \in 1 .. Len(asked)
  BY <1>2, <1>5 DEF Current
<1>7. Announced(e) = Current
  BY <1>2, <1>3, <1>5 DEF Announced, Numbered
<1>8. FullSize(o, Current) \in Nat /\ FullSize(o, Current) = kFrameHeaderSize + PayloadSize(o, Current)
  BY <1>1, <1>6, SizeOK DEF ConnInv
<1>9. Len(inbox[e]) = FullSize(o, Current)
  <2>1. PayloadSize(o, Current) \in Nat
    BY <1>1, <1>6, SizeOK DEF ConnInv
  <2>2. Wanted(e) = kFrameHeaderSize + PayloadSize(o, Current) - Len(inbox[e])
    BY <1>7 DEF FrameRead, Wanted
  <2>3. Wanted(e) = 0
    BY DEF FrameRead
  <2> HIDE DEF o
  <2> QED BY <1>2, <1>8, <2>1, <2>2, <2>3
<1>10. Len(wire[o]) = 0 /\ phase[o] # "sending"
  <2>1. Underway(o) = Len(inbox[e]) + Len(wire[o])
    BY <1>1 DEF Underway
  <2>2. Len(wire[o]) \in Nat /\ Len(inbox[e]) \in Nat
    BY <1>2
  <2> HIDE DEF o
  <2> QED BY <1>5, <1>8, <1>9, <2>1, <2>2
<1>11. wire[o] = <<>>
  BY <1>2, <1>10
<1>12. /\ PayloadSize(o, Current) <= kMaxFramePayload
       /\ o = "peer" => asked[Current].known
  BY <1>7 DEF FrameRead, HeaderAccepted
<1> QED BY <1>4, <1>6, <1>7, <1>10, <1>11, <1>12, TwoEnds

-----------------------------------------------------------------------------
(* Every step preserves the invariant *)

LEMMA AskKeeps ==
  ASSUME ConnInv, NEW f \in Frames, Ask(f)
  PROVE  ConnInv'
<1>1. /\ asked \in Seq(Frames) /\ phase \in [Ends -> {"idle", "sending", "receiving", "left", "closed"}]
      /\ sent \in [Ends -> Nat] /\ "peer" \in Ends /\ "handler" \in Ends
  BY TwoEnds DEF ConnInv, ConnTypeOK
<1>2. /\ asked' = Append(asked, f) /\ wire' = wire /\ inbox' = inbox /\ answers' = answers
      /\ phase' = [phase EXCEPT !["peer"] = "sending"]
      /\ sent' = [sent EXCEPT !["peer"] = 0]
  BY DEF Ask
<1>3. asked' \in Seq(Frames) /\ Len(asked') = Len(asked) + 1 /\ Len(asked) < MaxRequests
  BY <1>1, <1>2 DEF Ask
<1>4. ConnTypeOK'
  <2>1. Len(asked') <= MaxRequests
    BY <1>1, <1>3, ConnectionAssumption
  <2>2. phase' \in [Ends -> {"idle", "sending", "receiving", "left", "closed"}] /\ sent' \in [Ends -> Nat]
    BY <1>1, <1>2
  <2>3. loop' \in {"dispatch", "agent", "client"}
    BY DEF Ask, ConnInv, ConnTypeOK
  <2> QED BY <1>2, <1>3, <2>1, <2>2, <2>3 DEF ConnInv, ConnTypeOK, Byte
<1>5. /\ Len(asked) = Len(answers)
      /\ Silent("peer") /\ Silent("handler") /\ phase["handler"] # "sending"
  BY DEF ConnInv, IdleOK, Ask
<1>6. /\ Silent("peer")' /\ Silent("handler")'
      /\ phase'["peer"] = "sending" /\ phase'["handler"] = phase["handler"] /\ sent'["peer"] = 0
  BY <1>1, <1>2, <1>5 DEF Silent
<1>7. StreamOK("handler")'
  BY <1>5, <1>6 DEF StreamOK
<1>8. StreamOK("peer")'
  <2>1. Current' > 0 /\ Current' \in 1 .. Len(asked')
    BY <1>1, <1>3 DEF Current
  <2>2. FullSize("peer", Current)' \in Nat /\ FullSize("peer", Current)' >= kFrameHeaderSize
    <3>1. asked'[Current'] \in [size : Nat, answer : Nat, known : BOOLEAN, registers : BOOLEAN]
      BY <1>3, <2>1, ConnectionAssumption
    <3> QED BY <3>1, ConnectionAssumption DEF FullSize, PayloadSize
  <2>3. inbox'["handler"] = <<>> /\ wire'["peer"] = <<>>
    BY <1>6, TwoEnds DEF Silent
  <2>4. Numbered(inbox'["handler"], Current', 0) /\ Numbered(wire'["peer"], Current', 0)
    BY <2>3 DEF Numbered
  <2>5. Underway("peer")' = 0 /\ Len(inbox'["handler"]) = 0
    BY <2>3, TwoEnds DEF Underway
  <2> QED BY <1>6, <2>1, <2>2, <2>4, <2>5, ConnectionAssumption, TwoEnds DEF StreamOK
<1>9. IdleOK' /\ PendingOK' /\ AnsweringOK' /\ phase'["handler"] # "idle"
  BY <1>2, <1>3, <1>5, <1>6 DEF ConnInv, IdleOK, PendingOK, AnsweringOK, Answering
<1> QED BY <1>4, <1>7, <1>8, <1>9, TwoEnds DEF ConnInv

LEMMA PushKeeps ==
  ASSUME ConnInv, NEW e \in Ends, NEW k \in 1 .. WireCapacity, Push(e, k)
  PROVE  ConnInv'
<1> DEFINE o == Other(e)
           part == SubSeq(Bytes(e, Current), sent[e] + 1, sent[e] + k)
<1>1. o \in Ends /\ Other(o) = e /\ o # e
  BY TwoEnds
<1>2. /\ asked \in Seq(Frames) /\ inbox[o] \in Seq(Byte) /\ wire[e] \in Seq(Byte)
      /\ wire \in [Ends -> Seq(Byte)] /\ sent \in [Ends -> Nat] /\ sent[e] \in Nat
      /\ phase \in [Ends -> {"idle", "sending", "receiving", "left", "closed"}]
      /\ k \in Nat /\ k > 0
  BY <1>1, ConnectionAssumption DEF ConnInv, ConnTypeOK
<1>3. /\ phase[e] = "sending" /\ Current > 0
      /\ Numbered(inbox[o], Current, 0) /\ Numbered(wire[e], Current, Len(inbox[o]))
      /\ Underway(e) = sent[e] /\ sent[e] < FullSize(e, Current)
  BY DEF ConnInv, StreamOK, Push
<1>4. Current \in 1 .. Len(asked)
  BY <1>2, <1>3 DEF Current
<1>5. /\ FullSize(e, Current) \in Nat /\ Len(Bytes(e, Current)) = FullSize(e, Current)
      /\ Bytes(e, Current) \in Seq(Byte) /\ Numbered(Bytes(e, Current), Current, 0)
  BY <1>4, SizeOK DEF ConnInv
<1>6. sent[e] + k <= FullSize(e, Current) /\ Len(wire[e]) + k <= WireCapacity
  BY <1>5 DEF Push
<1>7. part \in Seq(Byte) /\ Len(part) = k /\ Numbered(part, Current, sent[e])
  <2>1. sent[e] + k \in Nat /\ sent[e] <= sent[e] + k /\ sent[e] + k <= Len(Bytes(e, Current))
    BY <1>2, <1>5, <1>6
  <2>2. /\ part \in Seq(Byte) /\ Len(part) = (sent[e] + k) - sent[e]
        /\ Numbered(part, Current, 0 + sent[e])
    BY <1>2, <1>5, <2>1, NumberedPart
  <2> HIDE DEF part
  <2> QED BY <1>2, <2>2
<1>8. Len(inbox[o]) + Len(wire[e]) = sent[e]
  BY <1>3 DEF Underway
<1>9. /\ wire[e] \o part \in Seq(Byte) /\ Len(wire[e] \o part) = Len(wire[e]) + k
      /\ Numbered(wire[e] \o part, Current, Len(inbox[o]))
  <2> HIDE DEF part, o
  <2>1. Numbered(part, Current, Len(inbox[o]) + Len(wire[e])) /\ Len(inbox[o]) \in Nat
    BY <1>2, <1>7, <1>8
  <2> QED BY <1>2, <1>3, <1>7, <2>1, NumberedJoin
<1>10. /\ wire' = [wire EXCEPT ![e] = wire[e] \o part]
       /\ sent' = [sent EXCEPT ![e] = sent[e] + k]
       /\ phase' = [phase EXCEPT ![e] = IF sent'[e] = Len(Bytes(e, Current)) THEN "receiving" ELSE phase[e]]
       /\ inbox' = inbox /\ asked' = asked /\ answers' = answers
  BY DEF Push
<1> HIDE DEF part
<1>11. /\ wire'[e] = wire[e] \o part /\ wire'[o] = wire[o]
       /\ sent'[e] = sent[e] + k /\ sent'[o] = sent[o] /\ phase'[o] = phase[o]
       /\ phase'[e] = IF sent[e] + k = FullSize(e, Current) THEN "receiving" ELSE "sending"
  BY <1>1, <1>2, <1>3, <1>5, <1>10
<1>12. ConnTypeOK'
  <2>1. wire' \in [Ends -> Seq(Byte)] /\ sent' \in [Ends -> Nat]
    BY <1>2, <1>9, <1>10
  <2>2. phase' \in [Ends -> {"idle", "sending", "receiving", "left", "closed"}]
    BY <1>2, <1>3, <1>10
  <2>3. \A d \in Ends : Len(wire'[d]) <= WireCapacity
    <3>1. Len(wire'[e]) <= WireCapacity
      BY <1>6, <1>9, <1>11
    <3>2. Len(wire'[o]) <= WireCapacity
      BY <1>1, <1>11 DEF ConnInv, ConnTypeOK
    <3>3. \A d \in Ends : d = e \/ d = o
      BY TwoEnds
    <3> QED BY <3>1, <3>2, <3>3
  <2>4. loop' \in {"dispatch", "agent", "client"}
    BY DEF Push, ConnInv, ConnTypeOK
  <2> QED BY <1>10, <2>1, <2>2, <2>3, <2>4 DEF ConnInv, ConnTypeOK, Byte
<1>13. StreamOK(e)'
  <2>1. Current' = Current /\ FullSize(e, Current)' = FullSize(e, Current)
    BY <1>10 DEF Current, FullSize, PayloadSize
  <2>2. Underway(e)' = sent[e] + k
    <3>1. Underway(e)' = Len(inbox[o]) + (Len(wire[e]) + k)
      BY <1>9, <1>10, <1>11 DEF Underway
    <3>2. Len(inbox[o]) \in Nat /\ Len(wire[e]) \in Nat /\ k \in Nat
      BY <1>2
    <3>3. Len(inbox[o]) + (Len(wire[e]) + k) = (Len(inbox[o]) + Len(wire[e])) + k
      BY <3>2, Sums, ZenonT(60)
    <3> QED BY <1>8, <3>1, <3>3
  <2>3. sent[e] + k # FullSize(e, Current) => sent[e] + k < FullSize(e, Current)
    <3>1. sent[e] \in Nat /\ k \in Nat
      BY <1>2
    <3> QED BY <1>5, <1>6, <3>1, Sums, Zenon
  <2>4. Numbered(inbox[o], Current, 0)' /\ Numbered(wire[e], Current, Len(inbox[o]))'
    BY <1>3, <1>9, <1>10, <1>11, <2>1
  <2> QED BY <1>3, <1>6, <1>11, <2>1, <2>2, <2>3, <2>4 DEF StreamOK
<1>14. StreamOK(o)'
  BY <1>1, <1>10, <1>11, StreamUntouched DEF ConnInv
<1>15. phase["peer"] # "idle" /\ phase'["peer"] # "idle" /\ phase'["handler"] # "idle"
  BY <1>3, <1>10, <1>11, TwoEnds DEF ConnInv, IdleOK
<1>16. IdleOK' /\ PendingOK'
  BY <1>3, <1>10, <1>11, <1>15, TwoEnds DEF ConnInv, IdleOK, PendingOK
<1>17. AnsweringOK'
  <2>1. CASE e = "peer"
    <3>1. ~Answering
      BY <1>3, <2>1 DEF ConnInv, AnsweringOK
    <3>2. ~Answering'
      BY <1>10, <1>11, <2>1, <3>1, TwoEnds DEF Answering, Silent
    <3> QED BY <3>2 DEF AnsweringOK
  <2>2. CASE e = "handler"
    <3>1. Answering
      BY <1>3, <2>2 DEF Answering
    <3> QED BY <1>10, <1>11, <2>2, <3>1, TwoEnds DEF ConnInv, AnsweringOK, Silent, Current
  <2> QED BY <2>1, <2>2, TwoEnds
<1> QED BY <1>12, <1>13, <1>14, <1>15, <1>16, <1>17, <1>1, TwoEnds DEF ConnInv

LEMMA PullKeeps ==
  ASSUME ConnInv, NEW e \in Ends, NEW k \in 1 .. WireCapacity, Pull(e, k)
  PROVE  ConnInv'
<1> DEFINE o == Other(e)
           head == SubSeq(wire[o], 1, k)
           tail == SubSeq(wire[o], k + 1, Len(wire[o]))
<1>1. o \in Ends /\ Other(o) = e /\ o # e
  BY TwoEnds
<1>2. /\ asked \in Seq(Frames) /\ inbox[e] \in Seq(Byte) /\ wire[o] \in Seq(Byte)
      /\ wire \in [Ends -> Seq(Byte)] /\ inbox \in [Ends -> Seq(Byte)]
      /\ k \in Nat /\ k > 0
  BY <1>1, ConnectionAssumption DEF ConnInv, ConnTypeOK
<1>3. phase[e] = "receiving" /\ k <= Len(wire[o])
  BY DEF Pull
<1>4. wire[o] # <<>> /\ ~Silent(o)
  BY <1>2, <1>3 DEF Silent
<1>5. /\ Current > 0
      /\ Numbered(inbox[e], Current, 0) /\ Numbered(wire[o], Current, Len(inbox[e]))
      /\ Underway(o) <= FullSize(o, Current)
      /\ phase[o] = "sending" => Underway(o) = sent[o] /\ sent[o] < FullSize(o, Current)
  BY <1>1, <1>4 DEF ConnInv, StreamOK
<1>6. /\ head \in Seq(Byte) /\ Len(head) = k /\ Numbered(head, Current, Len(inbox[e]))
      /\ tail \in Seq(Byte) /\ Len(tail) = Len(wire[o]) - k
      /\ Numbered(tail, Current, Len(inbox[e]) + k)
  <2> HIDE DEF o
  <2>1. Len(inbox[e]) \in Nat /\ Len(wire[o]) \in Nat
    BY <1>2
  <2>2. head \in Seq(Byte) /\ Len(head) = k /\ Numbered(head, Current, Len(inbox[e]))
    BY <1>2, <1>3, <1>5, <2>1, NumberedHead
  <2>3. /\ tail \in Seq(Byte) /\ Len(tail) = Len(wire[o]) - k
        /\ Numbered(tail, Current, Len(inbox[e]) + k)
    BY <1>2, <1>3, <1>5, <2>1, NumberedPart
  <2> QED BY <2>2, <2>3
<1>7. /\ inbox' = [inbox EXCEPT ![e] = inbox[e] \o head]
      /\ wire' = [wire EXCEPT ![o] = tail]
      /\ phase' = phase /\ sent' = sent /\ asked' = asked /\ answers' = answers
  BY DEF Pull
<1> HIDE DEF head, tail
<1>8. /\ inbox[e] \o head \in Seq(Byte) /\ Len(inbox[e] \o head) = Len(inbox[e]) + k
      /\ Numbered(inbox[e] \o head, Current, 0)
  <2>1. Numbered(head, Current, 0 + Len(inbox[e]))
    BY <1>2, <1>6
  <2> QED BY <1>2, <1>5, <1>6, <2>1, NumberedJoin
<1>9. /\ inbox'[e] = inbox[e] \o head /\ inbox'[o] = inbox[o]
      /\ wire'[o] = tail /\ wire'[e] = wire[e]
  BY <1>1, <1>2, <1>7
<1>10. ConnTypeOK'
  <2>1. wire' \in [Ends -> Seq(Byte)] /\ inbox' \in [Ends -> Seq(Byte)]
    BY <1>1, <1>2, <1>6, <1>7, <1>8
  <2>2. Len(wire'[o]) <= WireCapacity
    <3>1. Len(wire[o]) <= WireCapacity
      BY <1>1 DEF ConnInv, ConnTypeOK
    <3>2. Len(wire[o]) \in Nat
      BY <1>2
    <3> HIDE DEF o
    <3> QED BY <1>2, <1>6, <1>9, <3>1, <3>2, ConnectionAssumption
  <2>3. Len(wire'[e]) <= WireCapacity
    BY <1>9 DEF ConnInv, ConnTypeOK
  <2>4. \A d \in Ends : d = e \/ d = o
    BY TwoEnds
  <2>5. loop' \in {"dispatch", "agent", "client"}
    BY DEF Pull, ConnInv, ConnTypeOK
  <2> QED BY <1>7, <2>1, <2>2, <2>3, <2>4, <2>5 DEF ConnInv, ConnTypeOK, Byte
<1>11. Underway(o)' = Underway(o)
  <2>1. Underway(o) = Len(inbox[e]) + Len(wire[o])
    BY <1>1 DEF Underway
  <2>2. Underway(o)' = (Len(inbox[e]) + k) + (Len(wire[o]) - k)
    BY <1>1, <1>6, <1>8, <1>9 DEF Underway
  <2>3. Len(inbox[e]) \in Nat /\ Len(wire[o]) \in Nat
    BY <1>2
  <2>4. k \in Nat /\ k <= Len(wire[o])
    BY <1>2, <1>3
  <2>5. (Len(inbox[e]) + k) + (Len(wire[o]) - k) = Len(inbox[e]) + Len(wire[o])
    BY <2>3, <2>4, Sums, ZenonT(60)
  <2> QED BY <2>1, <2>2, <2>5
<1>12. StreamOK(o)'
  <2>1. Current' = Current /\ FullSize(o, Current)' = FullSize(o, Current)
    BY <1>7 DEF Current, FullSize, PayloadSize
  <2>2. Numbered(inbox[e], Current, 0)' /\ Numbered(wire[o], Current, Len(inbox[e]))'
    BY <1>6, <1>8, <1>9, <2>1
  <2> QED BY <1>1, <1>5, <1>7, <1>11, <2>1, <2>2 DEF StreamOK
<1>13. StreamOK(e)'
  BY <1>7, <1>9, StreamUntouched DEF ConnInv
<1>14. PendingOK' /\ IdleOK'
  <2>1. phase["peer"] # "idle"
    BY <1>3, <1>4, TwoEnds DEF ConnInv, IdleOK
  <2> QED BY <1>7, <2>1 DEF ConnInv, PendingOK, IdleOK
<1>15. AnsweringOK'
  <2>1. CASE e = "peer"
    <3>1. Answering
      BY <1>4, <2>1, TwoEnds DEF Answering
    <3>2. Silent("peer")'
      BY <1>9, <2>1, <3>1, TwoEnds DEF ConnInv, AnsweringOK, Silent
    <3> QED BY <1>7, <3>1, <3>2 DEF ConnInv, AnsweringOK, Current
  <2>2. CASE e = "handler"
    <3>1. ~Answering
      BY <1>4, <2>2, TwoEnds DEF ConnInv, AnsweringOK
    <3>2. ~Answering'
      BY <1>7, <1>9, <2>2, <3>1, TwoEnds DEF Answering, Silent
    <3> QED BY <3>2 DEF AnsweringOK
  <2> QED BY <2>1, <2>2, TwoEnds
<1>16. \A d \in Ends : d = e \/ d = o
  BY TwoEnds
<1> QED BY <1>7, <1>10, <1>12, <1>13, <1>14, <1>15, <1>16 DEF ConnInv

LEMMA HandleKeeps ==
  ASSUME ConnInv, Handle
  PROVE  ConnInv'
<1>1. /\ asked \in Seq(Frames) /\ phase \in [Ends -> {"idle", "sending", "receiving", "left", "closed"}]
      /\ sent \in [Ends -> Nat] /\ inbox \in [Ends -> Seq(Byte)]
      /\ "peer" \in Ends /\ "handler" \in Ends
      /\ Other("peer") = "handler" /\ Other("handler") = "peer"
  BY TwoEnds DEF ConnInv, ConnTypeOK
<1>2. /\ Current \in 1 .. Len(asked)
      /\ wire["peer"] = <<>> /\ phase["peer"] # "sending" /\ ~Silent("peer")
      /\ PayloadSize("peer", Current) <= kMaxFramePayload /\ asked[Current].known
  BY <1>1, FrameReadOK DEF Handle
<1>3. ~Answering /\ phase["peer"] # "idle"
  BY <1>2 DEF ConnInv, AnsweringOK, IdleOK
<1>4. /\ inbox' = [inbox EXCEPT !["handler"] = <<>>]
      /\ phase' = [phase EXCEPT !["handler"] = "sending"]
      /\ sent' = [sent EXCEPT !["handler"] = 0]
      /\ wire' = wire /\ asked' = asked /\ answers' = answers
  BY DEF Handle
<1>5. /\ inbox'["handler"] = <<>> /\ inbox'["peer"] = inbox["peer"]
      /\ phase'["handler"] = "sending" /\ phase'["peer"] = phase["peer"]
      /\ sent'["handler"] = 0
  BY <1>1, <1>4
<1>6. ConnTypeOK'
  <2>1. inbox' \in [Ends -> Seq(Byte)] /\ sent' \in [Ends -> Nat]
    BY <1>1, <1>4
  <2>2. phase' \in [Ends -> {"idle", "sending", "receiving", "left", "closed"}]
    BY <1>1, <1>4
  <2>3. loop' \in {"dispatch", "agent", "client"}
    BY DEF Handle, LoopFor, ConnInv, ConnTypeOK
  <2> QED BY <1>4, <2>1, <2>2, <2>3 DEF ConnInv, ConnTypeOK, Byte
<1>7. Silent("peer")' /\ StreamOK("peer")'
  BY <1>1, <1>2, <1>4, <1>5 DEF Silent, StreamOK
<1>8. inbox'["peer"] = <<>> /\ wire'["handler"] = <<>>
  BY <1>1, <1>3, <1>4, <1>5 DEF Answering, Silent
<1>9. StreamOK("handler")'
  <2>1. Current' > 0 /\ FullSize("handler", Current)' = FullSize("handler", Current)
    BY <1>2, <1>4 DEF Current, FullSize, PayloadSize
  <2>2. FullSize("handler", Current) > 0
    <3>1. /\ FullSize("handler", Current) \in Nat
          /\ FullSize("handler", Current) >= kFrameHeaderSize
      BY <1>1, <1>2, SizeOK DEF ConnInv
    <3> QED BY <3>1, ConnectionAssumption
  <2>3. Numbered(inbox'["peer"], Current', 0) /\ Numbered(wire'["handler"], Current', 0)
    BY <1>8 DEF Numbered
  <2>4. Underway("handler")' = 0 /\ Len(inbox'["peer"]) = 0
    BY <1>1, <1>8 DEF Underway
  <2>5. FullSize("handler", Current) \in Nat
    BY <1>1, <1>2, SizeOK DEF ConnInv
  <2> QED BY <1>1, <1>5, <2>1, <2>2, <2>3, <2>4, <2>5 DEF StreamOK
<1>10. IdleOK' /\ PendingOK' /\ phase'["handler"] # "idle"
  BY <1>3, <1>4, <1>5 DEF ConnInv, IdleOK, PendingOK
<1>11. AnsweringOK'
  <2>1. asked[Current].size <= kMaxFramePayload
    BY <1>2 DEF PayloadSize
  <2> QED BY <1>2, <1>4, <1>5, <1>7, <2>1 DEF AnsweringOK, Current
<1> QED BY <1>6, <1>7, <1>9, <1>10, <1>11, TwoEnds DEF ConnInv

LEMMA TakeAnswerKeeps ==
  ASSUME ConnInv, TakeAnswer
  PROVE  ConnInv'
<1>1. /\ asked \in Seq(Frames) /\ phase \in [Ends -> {"idle", "sending", "receiving", "left", "closed"}]
      /\ answers \in Seq(1 .. MaxRequests) /\ inbox \in [Ends -> Seq(Byte)]
      /\ "peer" \in Ends /\ "handler" \in Ends
      /\ Other("peer") = "handler" /\ Other("handler") = "peer"
  BY TwoEnds DEF ConnInv, ConnTypeOK
<1>2. /\ Current \in 1 .. Len(asked) /\ Announced("peer") = Current
      /\ wire["handler"] = <<>> /\ phase["handler"] # "sending" /\ ~Silent("handler")
  BY <1>1, FrameReadOK DEF TakeAnswer
<1>3. Silent("peer")
  BY <1>2 DEF ConnInv, AnsweringOK, Answering
<1>4. /\ answers' = Append(answers, Current)
      /\ inbox' = [inbox EXCEPT !["peer"] = <<>>]
      /\ phase' = [phase EXCEPT !["peer"] = "idle"]
      /\ wire' = wire /\ sent' = sent /\ asked' = asked
  BY <1>2 DEF TakeAnswer
<1>5. /\ inbox'["peer"] = <<>> /\ inbox'["handler"] = inbox["handler"]
      /\ phase'["peer"] = "idle" /\ phase'["handler"] = phase["handler"]
  BY <1>1, <1>4
<1>6. answers' \in Seq(1 .. MaxRequests) /\ Len(answers') = Len(answers) + 1
  <2>1. Current \in 1 .. MaxRequests
    BY <1>1, <1>2, ConnectionAssumption DEF ConnInv, ConnTypeOK
  <2> QED BY <1>1, <1>4, <2>1
<1>7. ConnTypeOK'
  <2>1. inbox' \in [Ends -> Seq(Byte)]
    BY <1>1, <1>4
  <2>2. phase' \in [Ends -> {"idle", "sending", "receiving", "left", "closed"}]
    BY <1>1, <1>4
  <2>3. loop' \in {"dispatch", "agent", "client"}
    BY DEF TakeAnswer, ConnInv, ConnTypeOK
  <2> QED BY <1>4, <1>6, <2>1, <2>2, <2>3 DEF ConnInv, ConnTypeOK, Byte
<1>8. Silent("peer")' /\ Silent("handler")'
  BY <1>1, <1>2, <1>3, <1>4, <1>5 DEF Silent
<1>9. StreamOK("peer")' /\ StreamOK("handler")'
  BY <1>2, <1>5, <1>8 DEF StreamOK
<1>10. Len(asked) = Len(answers) + 1
  BY DEF ConnInv, PendingOK, TakeAnswer
<1>11. IdleOK' /\ PendingOK' /\ AnsweringOK' /\ phase'["handler"] # "idle"
  BY <1>2, <1>4, <1>5, <1>6, <1>8, <1>10 DEF ConnInv, IdleOK, PendingOK, AnsweringOK, Answering
<1> QED BY <1>7, <1>9, <1>11, TwoEnds DEF ConnInv

\* An end that stops (or, for the handler, goes back to receiving) disturbs
\* nothing: the peer only ever stops.
LEMMA StopKeeps ==
  ASSUME ConnInv, NEW e \in Ends, NEW p \in {"receiving", "left", "closed"},
         p # "closed" => e = "handler",
         phase' = [phase EXCEPT ![e] = p], UNCHANGED <<wire, sent, inbox, asked, answers, loop>>
  PROVE  ConnInv'
<1>1. /\ phase \in [Ends -> {"idle", "sending", "receiving", "left", "closed"}]
      /\ "peer" \in Ends /\ "handler" \in Ends
  BY TwoEnds DEF ConnInv, ConnTypeOK
<1>2. /\ wire' = wire /\ sent' = sent /\ inbox' = inbox /\ asked' = asked /\ answers' = answers
      /\ phase'[e] = p /\ \A d \in Ends \ {e} : phase'[d] = phase[d]
  BY <1>1
<1>3. ConnTypeOK'
  <2>1. phase' \in [Ends -> {"idle", "sending", "receiving", "left", "closed"}]
    BY <1>1
  <2> QED BY <1>2, <2>1 DEF ConnInv, ConnTypeOK, Byte
<1>4. \A d \in Ends : phase'[d] # "sending" \/ phase'[d] = phase[d]
  BY <1>2
<1>5. \A d \in Ends : StreamOK(d)'
  BY <1>2, <1>4, StreamUntouched DEF ConnInv
<1>6. /\ phase'["peer"] = phase["peer"] \/ phase'["peer"] = "closed"
      /\ phase'["handler"] # "sending" \/ phase'["handler"] = phase["handler"]
      /\ phase'["handler"] # "idle"
  BY <1>1, <1>2 DEF ConnInv
<1>7. Silent("peer")' = Silent("peer") /\ Silent("handler")' = Silent("handler")
  BY <1>2 DEF Silent
<1>8. IdleOK' /\ PendingOK'
  BY <1>2, <1>6, <1>7 DEF ConnInv, IdleOK, PendingOK
<1>9. AnsweringOK'
  BY <1>2, <1>6, <1>7 DEF ConnInv, AnsweringOK, Answering, Current
<1> QED BY <1>3, <1>5, <1>6, <1>8, <1>9 DEF ConnInv

LEMMA ResetKeeps ==
  ASSUME ConnInv, NEW e \in Ends, Reset(e)
  PROVE  ConnInv'
<1> DEFINE o == Other(e)
<1>1. /\ o \in Ends /\ Other(o) = e /\ o # e
      /\ asked \in Seq(Frames) /\ wire \in [Ends -> Seq(Byte)]
      /\ inbox[o] \in Seq(Byte) /\ wire[e] \in Seq(Byte)
  BY TwoEnds DEF ConnInv, ConnTypeOK
<1>2. /\ phase[e] = "closed" /\ wire[e] # <<>>
      /\ wire' = [wire EXCEPT ![e] = <<>>]
      /\ phase' = phase /\ sent' = sent /\ inbox' = inbox /\ asked' = asked /\ answers' = answers
  BY DEF Reset, Gone
<1>3. wire'[e] = <<>> /\ wire'[o] = wire[o]
  BY <1>1, <1>2
<1>4. ConnTypeOK'
  <2>1. wire' \in [Ends -> Seq(Byte)]
    BY <1>1, <1>2
  <2>2. \A d \in Ends : Len(wire'[d]) <= WireCapacity
    BY <1>1, <1>3, ConnectionAssumption, TwoEnds DEF ConnInv, ConnTypeOK
  <2>3. loop' \in {"dispatch", "agent", "client"}
    BY DEF Reset, ConnInv, ConnTypeOK
  <2> QED BY <1>2, <2>1, <2>2, <2>3 DEF ConnInv, ConnTypeOK, Byte
<1>5. ~Silent(e)
  BY <1>2 DEF Silent
<1>6. StreamOK(e)'
  <2>1. /\ Current > 0 /\ Numbered(inbox[o], Current, 0)
        /\ Underway(e) <= FullSize(e, Current)
    BY <1>5 DEF ConnInv, StreamOK
  <2>2. Current' = Current /\ FullSize(e, Current)' = FullSize(e, Current)
    BY <1>2 DEF Current, FullSize, PayloadSize
  <2>3. Underway(e)' <= FullSize(e, Current)
    <3>1. Underway(e) = Len(inbox[o]) + Len(wire[e]) /\ Underway(e)' = Len(inbox[o]) + 0
      BY <1>2, <1>3 DEF Underway
    <3>2. Len(inbox[o]) \in Nat /\ Len(wire[e]) \in Nat
      BY <1>1
    <3>3. Current \in 1 .. Len(asked)
      BY <1>1, <2>1 DEF Current
    <3>4. FullSize(e, Current) \in Nat
      BY <3>3, SizeOK DEF ConnInv
    <3>5. Underway(e)' <= Underway(e) /\ Underway(e) \in Nat /\ Underway(e)' \in Nat
      BY <3>1, <3>2, SumNat, Zenon
    <3> QED BY <2>1, <3>4, <3>5
  <2>4. Numbered(wire'[e], Current', Len(inbox'[o]))
    BY <1>3 DEF Numbered
  <2> QED BY <1>2, <2>1, <2>2, <2>3, <2>4 DEF StreamOK
<1>7. StreamOK(o)'
  BY <1>1, <1>2, <1>3, StreamUntouched DEF ConnInv
<1>8. phase["peer"] # "idle"
  BY <1>5, TwoEnds DEF ConnInv, IdleOK
<1>9. IdleOK' /\ PendingOK'
  BY <1>2, <1>8 DEF ConnInv, IdleOK, PendingOK
<1>10. AnsweringOK'
  <2>1. CASE e = "peer"
    <3>1. ~Answering
      BY <1>5, <2>1 DEF ConnInv, AnsweringOK
    <3> QED BY <1>2, <1>3, <2>1, <3>1, TwoEnds DEF AnsweringOK, Answering, Silent
  <2>2. CASE e = "handler"
    <3>1. Answering
      BY <1>5, <2>2 DEF Answering
    <3> QED BY <1>2, <1>3, <2>2, <3>1, TwoEnds DEF ConnInv, AnsweringOK, Silent, Current
  <2> QED BY <2>1, <2>2, TwoEnds
<1>11. \A d \in Ends : d = e \/ d = o
  BY TwoEnds
<1> QED BY <1>2, <1>4, <1>6, <1>7, <1>9, <1>10, <1>11 DEF ConnInv

LEMMA NextKeeps == ConnInv /\ [ConnNext]_connVars => ConnInv'
<1> SUFFICES ASSUME ConnInv, [ConnNext]_connVars PROVE ConnInv'
  OBVIOUS
<1>1. ASSUME NEW f \in Frames, Ask(f) PROVE ConnInv'
  BY <1>1, AskKeeps
<1>2. ASSUME NEW e \in Ends, Progress(e) PROVE ConnInv'
  <2>1. ASSUME NEW k \in 1 .. WireCapacity, Push(e, k) PROVE ConnInv'
    BY <2>1, PushKeeps
  <2>2. ASSUME NEW k \in 1 .. WireCapacity, Pull(e, k) PROVE ConnInv'
    BY <2>2, PullKeeps
  <2>3. CASE Handle
    BY <2>3, HandleKeeps
  <2>4. CASE TakeAnswer
    BY <2>4, TakeAnswerKeeps
  <2>5. CASE Refuse(e)
    BY <2>5, StopKeeps DEF Refuse, GivenUp
  <2>6. CASE ReceiveFails(e)
    BY <2>6, StopKeeps DEF ReceiveFails, GivenUp
  <2>7. CASE SendFails(e)
    BY <2>7, StopKeeps, TwoEnds DEF SendFails
  <2> QED BY <1>2, <2>1, <2>2, <2>3, <2>4, <2>5, <2>6, <2>7 DEF Progress
<1>3. ASSUME NEW e \in Ends, Close(e) PROVE ConnInv'
  BY <1>3, StopKeeps DEF Close
<1>4. ASSUME NEW e \in Ends, Reset(e) PROVE ConnInv'
  BY <1>4, ResetKeeps
<1>5. CASE UNCHANGED connVars
  BY <1>5 DEF connVars, ConnInv, ConnTypeOK, StreamOK, Silent, Underway, Current, FullSize,
              PayloadSize, IdleOK, PendingOK, AnsweringOK, Answering, Byte
<1> QED BY <1>1, <1>2, <1>3, <1>4, <1>5 DEF ConnNext

LEMMA InitHolds == ConnInit => ConnInv
<1> SUFFICES ASSUME ConnInit PROVE ConnInv
  OBVIOUS
<1>1. /\ "peer" \in Ends /\ "handler" \in Ends
      /\ phase["peer"] = "idle" /\ phase["handler"] = "receiving"
      /\ \A e \in Ends : wire[e] = <<>> /\ inbox[e] = <<>> /\ phase[e] # "sending"
  BY TwoEnds DEF ConnInit
<1>2. ConnTypeOK
  <2>1. /\ asked \in Seq(Frames) /\ answers \in Seq(1 .. MaxRequests)
        /\ Len(asked) <= MaxRequests
    BY ConnectionAssumption DEF ConnInit
  <2>2. /\ phase \in [Ends -> {"idle", "sending", "receiving", "left", "closed"}]
        /\ loop \in {"dispatch", "agent", "client"}
        /\ sent \in [Ends -> Nat]
        /\ wire \in [Ends -> Seq(Byte)] /\ inbox \in [Ends -> Seq(Byte)]
    BY DEF ConnInit
  <2>3. \A e \in Ends : Len(wire[e]) <= WireCapacity
    BY <1>1, ConnectionAssumption
  <2> QED BY <2>1, <2>2, <2>3 DEF ConnTypeOK
<1>3. \A e \in Ends : Silent(e) /\ StreamOK(e)
  BY <1>1, TwoEnds DEF Silent, StreamOK
<1>4. Len(asked) = Len(answers)
  BY DEF ConnInit
<1> QED BY <1>1, <1>2, <1>3, <1>4 DEF ConnInv, IdleOK, PendingOK, AnsweringOK, Answering

LEMMA ConnInvHolds == ConnSpec => []ConnInv
BY InitHolds, NextKeeps, PTL DEF ConnSpec

-----------------------------------------------------------------------------
(* The theorems *)

\* Streams and inboxes hold bytes of frames that were asked for or answer them,
\* and send_all never puts more on the wire than it holds.
THEOREM ConnTypeCorrect == ConnSpec => []ConnTypeOK
<1>1. ConnInv => ConnTypeOK
  BY DEF ConnInv
<1> QED BY <1>1, ConnInvHolds, PTL

\* recv_frame never takes a payload for a header, however the transport cuts
\* the stream and whatever the sizes of frames and buffers are.
THEOREM InStepHolds == ConnSpec => []InStep
<1>1. ASSUME ConnInv PROVE InStep
  <2> SUFFICES ASSUME NEW e \in Ends, inbox[e] # <<>>
               PROVE  \E n \in 1 .. Current :
                        /\ Len(inbox[e]) <= Len(Bytes(Other(e), n))
                        /\ inbox[e] = SubSeq(Bytes(Other(e), n), 1, Len(inbox[e]))
    BY DEF InStep
  <2> DEFINE o == Other(e)
  <2>1. o \in Ends /\ Other(o) = e
    BY TwoEnds
  <2>2. asked \in Seq(Frames) /\ inbox[e] \in Seq(Byte) /\ wire[o] \in Seq(Byte)
    BY <1>1, <2>1 DEF ConnInv, ConnTypeOK
  <2>3. /\ Current > 0 /\ Numbered(inbox[e], Current, 0)
        /\ Underway(o) <= FullSize(o, Current)
    BY <1>1, <2>1 DEF ConnInv, StreamOK, Silent
  <2>4. Current \in 1 .. Current /\ Current \in 1 .. Len(asked)
    BY <2>2, <2>3 DEF Current
  <2>5. /\ Bytes(o, Current) \in Seq(Byte) /\ Len(Bytes(o, Current)) = FullSize(o, Current)
        /\ Numbered(Bytes(o, Current), Current, 0) /\ FullSize(o, Current) \in Nat
    BY <1>1, <2>1, <2>4, SizeOK DEF ConnInv
  <2>6. Len(inbox[e]) <= Len(Bytes(o, Current))
    <3>1. Underway(o) = Len(inbox[e]) + Len(wire[o])
      BY <2>1 DEF Underway
    <3>2. Len(inbox[e]) \in Nat /\ Len(wire[o]) \in Nat
      BY <2>2
    <3>3. Len(inbox[e]) <= Underway(o) /\ Underway(o) \in Nat
      BY <3>1, <3>2, SumNat, Zenon
    <3> QED BY <2>3, <2>5, <3>2, <3>3
  <2>7. /\ SubSeq(Bytes(o, Current), 1, Len(inbox[e])) \in Seq(Byte)
        /\ Len(SubSeq(Bytes(o, Current), 1, Len(inbox[e]))) = Len(inbox[e])
        /\ Numbered(SubSeq(Bytes(o, Current), 1, Len(inbox[e])), Current, 0)
    BY <2>2, <2>5, <2>6, NumberedHead
  <2>8. inbox[e] = SubSeq(Bytes(o, Current), 1, Len(inbox[e]))
    BY <2>2, <2>3, <2>7, NumberedSame
  <2> QED BY <2>4, <2>6, <2>8
<1> QED BY <1>1, ConnInvHolds, PTL

\* The coordinator's thread and its peer never both sit in send_all, where each
\* would wait for the other to read.
THEOREM OneSendsHolds == ConnSpec => []OneSends
<1>1. ConnInv => OneSends
  BY DEF ConnInv, AnsweringOK, Answering, OneSends
<1> QED BY <1>1, ConnInvHolds, PTL

\* The framing and the two loops implement one-at-a-time requests with answers
\* in order: without a correlation number being compared, every answer that a
\* peer takes belongs to the request it waits for.
THEOREM RefinesRequestReply == ConnSpec => ImplementsRequestReply
<1>1. ConnInit => Dialogue!Init
  BY DEF ConnInit, Dialogue!Init, Gone, Ends
<1>2. ConnInv /\ [ConnNext]_connVars => [Dialogue!Next]_<<asked, answers, Gone("peer")>>
  <2> SUFFICES ASSUME ConnInv, [ConnNext]_connVars
               PROVE  [Dialogue!Next]_<<asked, answers, Gone("peer")>>
    OBVIOUS
  <2>1. /\ asked \in Seq(Frames) /\ answers \in Seq(1 .. MaxRequests)
        /\ phase \in [Ends -> {"idle", "sending", "receiving", "left", "closed"}]
        /\ "peer" \in Ends
    BY TwoEnds DEF ConnInv, ConnTypeOK
  <2>2. ASSUME NEW f \in Frames, Ask(f) PROVE Dialogue!Next
    <3>1. phase["peer"] = "idle" /\ Len(asked) = Len(answers)
      BY <2>2 DEF Ask, ConnInv, IdleOK
    <3>2. ~Gone("peer") /\ UNCHANGED Gone("peer")
      BY <2>1, <2>2, <3>1 DEF Ask, Gone
    <3>3. Dialogue!Ask(f)
      BY <2>1, <2>2, <3>1, <3>2 DEF Ask, Dialogue!Ask, Dialogue!Waiting
    <3> QED BY <3>3 DEF Dialogue!Next
  <2>3. CASE TakeAnswer
    <3>1. /\ Current \in 1 .. Len(asked) /\ Announced("peer") = Current
          /\ ~Silent("handler") /\ PayloadSize("handler", Current) <= kMaxFramePayload
      BY <2>1, <2>3, FrameReadOK, TwoEnds DEF TakeAnswer
    <3>2. Permitted(asked[Current])
      BY <3>1 DEF ConnInv, AnsweringOK, Answering, Permitted, PayloadSize
    <3>3. Len(asked) > Len(answers)
      BY <2>1, <2>3 DEF ConnInv, PendingOK, TakeAnswer
    <3>4. ~Gone("peer") /\ UNCHANGED Gone("peer")
      BY <2>1, <2>3 DEF TakeAnswer, Gone
    <3>5. Dialogue!Answer
      BY <2>3, <3>1, <3>2, <3>3, <3>4 DEF TakeAnswer, Dialogue!Answer, Dialogue!Waiting, Current
    <3> QED BY <3>5 DEF Dialogue!Next
  <2>4. ASSUME asked' = asked, answers' = answers,
               phase'["peer"] = "closed" \/ (phase["peer"] # "closed" /\ phase'["peer"] # "closed")
                 \/ phase'["peer"] = phase["peer"]
        PROVE  [Dialogue!Next]_<<asked, answers, Gone("peer")>>
    <3>1. CASE Gone("peer")'
      BY <2>4, <3>1 DEF Dialogue!Next, Dialogue!End
    <3>2. CASE ~Gone("peer")'
      BY <2>4, <3>2 DEF Gone
    <3> QED BY <3>1, <3>2
  <2>5. ASSUME NEW e \in Ends, NEW k \in 1 .. WireCapacity, Push(e, k)
        PROVE  [Dialogue!Next]_<<asked, answers, Gone("peer")>>
    BY <2>1, <2>4, <2>5 DEF Push
  <2>6. ASSUME NEW e \in Ends, NEW k \in 1 .. WireCapacity, Pull(e, k)
        PROVE  [Dialogue!Next]_<<asked, answers, Gone("peer")>>
    BY <2>4, <2>6 DEF Pull
  <2>7. CASE Handle
    BY <2>1, <2>4, <2>7 DEF Handle
  <2>8. ASSUME NEW e \in Ends, Refuse(e) \/ ReceiveFails(e) \/ Close(e)
        PROVE  [Dialogue!Next]_<<asked, answers, Gone("peer")>>
    BY <2>1, <2>4, <2>8 DEF Refuse, ReceiveFails, Close, GivenUp
  <2>9. ASSUME NEW e \in Ends, SendFails(e)
        PROVE  [Dialogue!Next]_<<asked, answers, Gone("peer")>>
    BY <2>1, <2>4, <2>9 DEF SendFails
  <2>10. ASSUME NEW e \in Ends, Reset(e)
         PROVE  [Dialogue!Next]_<<asked, answers, Gone("peer")>>
    BY <2>4, <2>10 DEF Reset
  <2>11. CASE UNCHANGED connVars
    BY <2>4, <2>11 DEF connVars
  <2>12. ASSUME NEW e \in Ends, Progress(e)
         PROVE  [Dialogue!Next]_<<asked, answers, Gone("peer")>>
    BY <2>3, <2>5, <2>6, <2>7, <2>8, <2>9, <2>12 DEF Progress
  <2> QED BY <2>2, <2>8, <2>10, <2>11, <2>12 DEF ConnNext
<1> QED BY <1>1, <1>2, ConnInvHolds, PTL DEF ConnSpec, ImplementsRequestReply, Dialogue!Spec

================================================================================
