----------------------------- MODULE MCCoordinator -----------------------------
(* Values of the constants for model checking Coordinator. *)
EXTENDS Coordinator, MCAdmissionEngine, TLC

\* Connections are interchangeable.
ConnSymmetry == Permutations(Conn)

\* Two nodes: a large one, and a small one that also runs quantized work.
LargeNode == [snapshot |-> [Roomy EXCEPT !.timestamp = Start], free |-> 4]
SmallNode ==
  [snapshot |-> [Roomy EXCEPT !.timestamp = Start, !.total = V(2, 2),
                              !.capabilities = {"backend=cuda", "quant=q8"}],
   free |-> 2]

\* Work that runs anywhere, and work that needs a backend and a quantization.
Anywhere  == Base
Quantized == [Base EXCEPT !.id = q2, !.capabilities = {"backend=cuda", "quant=q8"}]

CoordDescriptors == {Anywhere, Quantized}
CoordPredictions == [d \in CoordDescriptors |-> {Answer(V(2, 1))}]
CoordPlacement   ==
  [d \in CoordDescriptors |-> IF d = Quantized THEN {"backend=cuda"} ELSE {}]

CoordReports  == {LargeNode, SmallNode}
OneReport     == {LargeNode}
OneDescriptor == {Anywhere}
OnePrediction == [d \in OneDescriptor |-> {Answer(V(2, 1))}]
OnePlacement  == [d \in OneDescriptor |-> {}]
================================================================================
