------------------------------ MODULE RequestReply ------------------------------
(****************************************************************************)
(* What a peer of the coordinator (an agent or a client) may rely on: its   *)
(* requests are answered one at a time and in order, an answer is the       *)
(* answer to the request that is waiting, and only a request that the       *)
(* protocol allows is answered.  The connection may end at any moment.      *)
(****************************************************************************)
EXTENDS Naturals, Sequences

CONSTANTS
  Frames,       \* the requests
  Allowed(_)    \* the protocol allows the request and its answer

VARIABLES
  asked,        \* the requests so far
  answers,      \* for every answer, the position of the request it answers
  over          \* the peer has given the connection up

Init == asked = <<>> /\ answers = <<>> /\ over = FALSE

Waiting == Len(asked) > Len(answers)

Ask(f) ==
  /\ ~over /\ ~Waiting
  /\ asked' = Append(asked, f)
  /\ UNCHANGED <<answers, over>>

Answer ==
  /\ ~over /\ Waiting
  /\ Allowed(asked[Len(asked)])
  /\ answers' = Append(answers, Len(asked))
  /\ UNCHANGED <<asked, over>>

End == over' = TRUE /\ UNCHANGED <<asked, answers>>

Next == (\E f \in Frames : Ask(f)) \/ Answer \/ End

Spec == Init /\ [][Next]_<<asked, answers, over>>
================================================================================
