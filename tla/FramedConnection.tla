--------------------------- MODULE FramedConnection ---------------------------
(****************************************************************************)
(* One connection between a peer (an agent or a client) and its handler in  *)
(* the coordinator: the framing of net.cpp over a byte stream that takes    *)
(* and yields any number of bytes at a time, and the two loops above it.    *)
(*                                                                          *)
(* The peer sends a request and waits for the answer (register_self,        *)
(* send_capacity, a client); the handler receives a frame, answers it and   *)
(* receives again.  Nobody looks at the correlation number.  A byte is the  *)
(* number of its frame and its position there; frames are numbered by the   *)
(* request they are, or answer.  Either end may be gone at any moment.      *)
(*                                                                          *)
(* The handler starts in dispatch, and its first frame decides between the  *)
(* loop of an agent and the loop of a client.  A client's socket is a local *)
(* of its loop and is closed when the loop ends.  An agent's socket belongs *)
(* to the context in agents_: when its loop ends the agent is fenced, and   *)
(* the socket stays open, with nobody at it, until the same identity        *)
(* registers again or the coordinator ends.                                 *)
(****************************************************************************)
EXTENDS Integers, Sequences

CONSTANTS
  Frames,             \* requests: payload size, size of the answer, same version or not,
                      \* registration of an agent or not
  kFrameHeaderSize,
  kMaxFramePayload,
  WireCapacity,       \* bytes that the transport holds in one direction
  MaxRequests         \* bound on the requests of a behaviour

ASSUME ConnectionAssumption ==
  /\ Frames \subseteq [size : Nat, answer : Nat, known : BOOLEAN, registers : BOOLEAN]
  /\ kFrameHeaderSize \in Nat \ {0} /\ kMaxFramePayload \in Nat
  /\ WireCapacity \in Nat \ {0} /\ MaxRequests \in Nat

Ends == {"peer", "handler"}

VARIABLES
  wire,      \* for each end, the bytes it has written that the other has not read
  phase,     \* what each end is doing
  loop,      \* the function that the handler's thread is in
  sent,      \* for each end, how much of its current frame is written
  inbox,     \* for each end, the bytes of the frame it is receiving
  asked,     \* the requests so far
  answers    \* for every answer received, the request it belongs to

connVars == <<wire, phase, loop, sent, inbox, asked, answers>>

Other(e) == IF e = "peer" THEN "handler" ELSE "peer"

Gone(e) == phase[e] = "closed"

\* What becomes of an end whose loop is over.
GivenUp(e) == IF e = "handler" /\ loop = "agent" THEN "left" ELSE "closed"

\* The loop that handles frame f.
LoopFor(f) ==
  IF loop # "dispatch" THEN loop ELSE IF f.registers THEN "agent" ELSE "client"

-----------------------------------------------------------------------------
(* Frames *)

PayloadSize(e, n) == IF e = "peer" THEN asked[n].size ELSE asked[n].answer

\* The bytes of frame n of end e: header, then payload.
Bytes(e, n) == [i \in 1 .. kFrameHeaderSize + PayloadSize(e, n) |-> <<n, i>>]

HeaderRead(e) == Len(inbox[e]) >= kFrameHeaderSize

\* The frame that the header in the inbox announces.
Announced(e) == inbox[e][1][1]

\* Mutant: the limit is compared with the size of a whole frame.
HeaderAcceptedLarger(e) ==
  /\ Other(e) = "peer" => asked[Announced(e)].known
  /\ PayloadSize(Other(e), Announced(e)) <= kMaxFramePayload + kFrameHeaderSize

\* unpack_header: this version, and a payload within the limit.
HeaderAccepted(e) ==
  /\ Other(e) = "peer" => asked[Announced(e)].known
  /\ PayloadSize(Other(e), Announced(e)) <= kMaxFramePayload

\* How many bytes recv_exact still waits for.
Wanted(e) ==
  IF ~HeaderRead(e) THEN kFrameHeaderSize - Len(inbox[e])
  ELSE kFrameHeaderSize + PayloadSize(Other(e), Announced(e)) - Len(inbox[e])

FrameRead(e) == HeaderRead(e) /\ HeaderAccepted(e) /\ Wanted(e) = 0

-----------------------------------------------------------------------------
(* Sending and receiving *)

\* The frame an end is sending: the last request, or its answer.
Current == Len(asked)

Ask(f) ==
  /\ phase["peer"] = "idle" /\ Len(asked) < MaxRequests
  /\ asked' = Append(asked, f)
  /\ phase' = [phase EXCEPT !["peer"] = "sending"]
  /\ sent' = [sent EXCEPT !["peer"] = 0]
  /\ UNCHANGED <<wire, inbox, answers, loop>>

\* One call of send takes some of the bytes; send_all goes on until all are
\* taken.  Then the peer waits for its answer, the handler for a request.
Push(e, k) ==
  /\ phase[e] = "sending"
  /\ sent[e] + k <= Len(Bytes(e, Current)) /\ Len(wire[e]) + k <= WireCapacity
  /\ wire' = [wire EXCEPT ![e] = @ \o SubSeq(Bytes(e, Current), sent[e] + 1, sent[e] + k)]
  /\ sent' = [sent EXCEPT ![e] = @ + k]
  /\ phase' = [phase EXCEPT ![e] = IF sent'[e] = Len(Bytes(e, Current)) THEN "receiving" ELSE @]
  /\ UNCHANGED <<inbox, asked, answers, loop>>

\* One call of recv yields some of the bytes that are wanted.
Pull(e, k) ==
  LET o == Other(e)
  IN /\ phase[e] = "receiving"
     /\ k <= Len(wire[o]) /\ k <= Wanted(e)
     /\ HeaderRead(e) => HeaderAccepted(e)
     /\ inbox' = [inbox EXCEPT ![e] = @ \o SubSeq(wire[o], 1, k)]
     /\ wire' = [wire EXCEPT ![o] = SubSeq(@, k + 1, Len(@))]
     /\ UNCHANGED <<phase, sent, asked, answers, loop>>

\* Mutant: after a header that is refused, the next one is read.
RefuseAndGoOn(e) ==
  /\ phase[e] = "receiving" /\ HeaderRead(e) /\ ~HeaderAccepted(e)
  /\ inbox' = [inbox EXCEPT ![e] = <<>>]
  /\ UNCHANGED <<wire, phase, sent, asked, answers, loop>>

\* After a header that is refused there is no way to find the next one: every
\* loop gives the connection up.
Refuse(e) ==
  /\ phase[e] = "receiving" /\ HeaderRead(e) /\ ~HeaderAccepted(e)
  /\ phase' = [phase EXCEPT ![e] = GivenUp(e)]
  /\ UNCHANGED <<wire, sent, inbox, asked, answers, loop>>

\* Mutant: the handler drops a frame it has no answer for.
HandleSilently ==
  /\ phase["handler"] = "receiving" /\ FrameRead("handler")
  /\ inbox' = [inbox EXCEPT !["handler"] = <<>>]
  /\ UNCHANGED <<wire, phase, sent, asked, answers, loop>>

\* Mutant: the handler answers as soon as it has the header.
HandleEarly ==
  /\ phase["handler"] = "receiving" /\ HeaderRead("handler") /\ HeaderAccepted("handler")
  /\ inbox' = [inbox EXCEPT !["handler"] = <<>>]
  /\ phase' = [phase EXCEPT !["handler"] = "sending"]
  /\ loop' = LoopFor(asked[Announced("handler")])
  /\ sent' = [sent EXCEPT !["handler"] = 0]
  /\ UNCHANGED <<wire, asked, answers>>

\* The handler answers every frame, malformed and unknown ones included.  (It
\* closes after a shutdown, a refused registration and a malformed one: Close.)
Handle ==
  /\ phase["handler"] = "receiving" /\ FrameRead("handler")
  /\ inbox' = [inbox EXCEPT !["handler"] = <<>>]
  /\ phase' = [phase EXCEPT !["handler"] = "sending"]
  /\ loop' = LoopFor(asked[Announced("handler")])
  /\ sent' = [sent EXCEPT !["handler"] = 0]
  /\ UNCHANGED <<wire, asked, answers>>

TakeAnswer ==
  /\ phase["peer"] = "receiving" /\ FrameRead("peer")
  /\ answers' = Append(answers, Announced("peer"))
  /\ inbox' = [inbox EXCEPT !["peer"] = <<>>]
  /\ phase' = [phase EXCEPT !["peer"] = "idle"]
  /\ UNCHANGED <<wire, sent, asked, loop>>

-----------------------------------------------------------------------------
(* Ends that are gone *)

\* stop(), the death of the process, or a registration that replaces the
\* context of an agent whose handler has left.
Close(e) ==
  /\ ~Gone(e)
  /\ phase' = [phase EXCEPT ![e] = "closed"]
  /\ UNCHANGED <<wire, sent, inbox, asked, answers, loop>>

\* A reset: what an end that is gone had written is lost.
Reset(e) ==
  /\ Gone(e) /\ wire[e] # <<>>
  /\ wire' = [wire EXCEPT ![e] = <<>>]
  /\ UNCHANGED <<phase, sent, inbox, asked, answers, loop>>

\* recv returns 0 or fails: every loop ends.  An idle agent waits in run().
ReceiveFails(e) ==
  /\ phase[e] = "receiving" \/ (e = "peer" /\ phase[e] = "idle")
  /\ Gone(Other(e)) /\ wire[Other(e)] = <<>>
  /\ phase' = [phase EXCEPT ![e] = GivenUp(e)]
  /\ UNCHANGED <<wire, sent, inbox, asked, answers, loop>>

\* send fails: the peer gives up; the handler does not look at the result, and
\* receives again.
SendFails(e) ==
  /\ phase[e] = "sending" /\ Gone(Other(e))
  /\ phase' = [phase EXCEPT ![e] = IF e = "peer" THEN "closed" ELSE "receiving"]
  /\ UNCHANGED <<wire, sent, inbox, asked, answers, loop>>

-----------------------------------------------------------------------------
ConnInit ==
  /\ wire = [e \in Ends |-> <<>>]
  /\ phase = [e \in Ends |-> IF e = "peer" THEN "idle" ELSE "receiving"]
  /\ loop = "dispatch"
  /\ sent = [e \in Ends |-> 0]
  /\ inbox = [e \in Ends |-> <<>>]
  /\ asked = <<>>
  /\ answers = <<>>

\* What one end does by itself once it is called.
Progress(e) ==
  \/ \E k \in 1 .. WireCapacity : Push(e, k)
  \/ \E k \in 1 .. WireCapacity : Pull(e, k)
  \/ Refuse(e)
  \/ e = "handler" /\ Handle
  \/ e = "peer" /\ TakeAnswer
  \/ ReceiveFails(e)
  \/ SendFails(e)

ConnNext ==
  \/ \E f \in Frames : Ask(f)
  \/ \E e \in Ends : Progress(e)
  \/ \E e \in Ends : Close(e)
  \/ \E e \in Ends : Reset(e)

\* The thread of an end is scheduled, and the transport moves bytes as long as
\* both ends are there and reports the loss of one.
ConnSpec == ConnInit /\ [][ConnNext]_connVars /\ \A e \in Ends : WF_connVars(Progress(e))

-----------------------------------------------------------------------------
(* Properties *)

Byte == (1 .. MaxRequests) \X Nat

\* Streams and inboxes are sequences of bytes of frames, no direction holds more
\* than the transport does, and each end is in one of its phases.
ConnTypeOK ==
  /\ asked \in Seq(Frames) /\ Len(asked) <= MaxRequests
  /\ answers \in Seq(1 .. MaxRequests)
  /\ phase \in [Ends -> {"idle", "sending", "receiving", "left", "closed"}]
  /\ loop \in {"dispatch", "agent", "client"}
  /\ sent \in [Ends -> Nat]
  /\ wire \in [Ends -> Seq(Byte)] /\ inbox \in [Ends -> Seq(Byte)]
  /\ \A e \in Ends : Len(wire[e]) <= WireCapacity

\* However sends and receives are cut, what an end holds of a frame is the
\* beginning of one frame: the stream never gets out of step, so no payload is
\* ever read as a header.
InStep ==
  \A e \in Ends :
    inbox[e] # <<>> =>
      \E n \in 1 .. Current :
        /\ Len(inbox[e]) <= Len(Bytes(Other(e), n))
        /\ inbox[e] = SubSeq(Bytes(Other(e), n), 1, Len(inbox[e]))

\* Never are both ends sending: with bounded buffers and no timeouts, that
\* could leave each waiting for the other to read.
OneSends == ~(phase["peer"] = "sending" /\ phase["handler"] = "sending")

Permitted(f) == f.known /\ f.size <= kMaxFramePayload /\ f.answer <= kMaxFramePayload

\* The connection implements one-at-a-time requests with answers in order,
\* although no correlation number is ever compared.
Dialogue ==
  INSTANCE RequestReply WITH Allowed <- Permitted, over <- Gone("peer")

ImplementsRequestReply == Dialogue!Spec

\* unpack_header accepts the header of the request.
Acceptable(f) == f.known /\ f.size <= kMaxFramePayload

\* A peer that waits is answered or learns that the connection is over: it
\* never waits for ever, whichever end goes away in the middle of a frame, with
\* one exception.  A registered agent whose request has a header that is
\* refused is fenced, is told nothing and finds its socket open.
WaitEnds ==
  [](Len(asked) > Len(answers) /\ (loop = "agent" => Acceptable(asked[Current]))
       => <>(Len(asked) = Len(answers) \/ Gone("peer")))
================================================================================
