---------------------------- MODULE ResourceVectors ----------------------------
(****************************************************************************)
(* The multi-dimensional capacity vectors of resource.hpp and the checked   *)
(* and saturating 64-bit arithmetic of checked.hpp they are built on.       *)
(*                                                                          *)
(* UMax stands for UINT64_MAX: every component of a vector is a machine     *)
(* word in 0..UMax, and every addition says what happens past UMax.         *)
(****************************************************************************)
EXTENDS Integers

CONSTANTS
  Resource,   \* the dimensions of a vector (enum ResourceId)
  UMax        \* the largest machine word

ASSUME UMaxAssumption == UMax \in Nat

Word == 0 .. UMax
Vec  == [Resource -> Word]

Zero == [d \in Resource |-> 0]

IsZero(v) == \A d \in Resource : v[d] = 0

FitsIn(u, v) == \A d \in Resource : u[d] <= v[d]

\* checked_add / checked_sub in every dimension: the operation is refused as
\* a whole when one dimension would wrap.
CanAdd(u, v) == \A d \in Resource : v[d] <= UMax - u[d]
CanSub(u, v) == FitsIn(v, u)

Plus(u, v)  == [d \in Resource |-> u[d] + v[d]]
Minus(u, v) == [d \in Resource |-> u[d] - v[d]]

SatAdd(a, b) == IF b > UMax - a THEN UMax ELSE a + b
SatSub(a, b) == IF a >= b THEN a - b ELSE 0

VecSatAdd(u, v) == [d \in Resource |-> SatAdd(u[d], v[d])]
VecSatSub(u, v) == [d \in Resource |-> SatSub(u[d], v[d])]

\* How far a policy lets reservations go beyond the physical total.
OvercommitMode == {"None", "Bounded", "PredictionAware"}
================================================================================
