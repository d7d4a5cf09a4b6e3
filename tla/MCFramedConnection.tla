-------------------------- MODULE MCFramedConnection --------------------------
(* Values of the constants for model checking FramedConnection. *)
EXTENDS FramedConnection

Frame(size, answer) ==
  [size |-> size, answer |-> answer, known |-> TRUE, registers |-> FALSE]

\* A registration, an empty request, one at the limit, one beyond it, one with an answer beyond
\* it, and one of another protocol version.
MCFrames ==
  {[Frame(1, 1) EXCEPT !.registers = TRUE], Frame(0, 1), Frame(2, 0), Frame(3, 0), Frame(1, 3),
   [Frame(1, 1) EXCEPT !.known = FALSE]}
================================================================================
