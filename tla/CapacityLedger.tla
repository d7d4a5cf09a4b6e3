----------------------------- MODULE CapacityLedger -----------------------------
(****************************************************************************)
(* What the reservation manager promises its callers, with nothing of how   *)
(* it keeps its promise: no running totals, no clock, no reason codes.      *)
(*                                                                          *)
(* A claim is made once, for a whole demand vector; it is made only when    *)
(* the claims held at that moment leave room for it in every dimension; it  *)
(* can be confirmed while it is provisional; once closed it stays closed.   *)
(* The envelope can be resized at any time, which never revokes a claim.    *)
(****************************************************************************)
EXTENDS ResourceVectors, FiniteSets

CONSTANTS
  ClaimId,    \* the identities of claims
  Demand      \* the demand vectors that may be claimed

VARIABLES
  envelope,   \* how much may be claimed, per dimension
  phase,      \* the phase of every claim
  claim       \* the demand of every claim

ledgerVars == <<envelope, phase, claim>>

Phase == {"free", "provisional", "confirmed", "closed"}

HeldUnits(d) ==
  {u \in {i \in ClaimId : phase[i] \in {"provisional", "confirmed"}} \X (1 .. UMax) :
     u[2] <= claim[u[1]][d]}

Held(d) == Cardinality(HeldUnits(d))

Claim(i, demand) ==
  /\ phase[i] = "free"
  /\ \E d \in Resource : demand[d] > 0
  /\ \A d \in Resource : Held(d) + demand[d] <= envelope[d]
  /\ phase' = [phase EXCEPT ![i] = "provisional"]
  /\ claim' = [claim EXCEPT ![i] = demand]
  /\ UNCHANGED envelope

Confirm(i) ==
  /\ phase[i] = "provisional"
  /\ phase' = [phase EXCEPT ![i] = "confirmed"]
  /\ UNCHANGED <<envelope, claim>>

\* A whole batch of provisional claims may lapse at once; a confirmed claim
\* is only ever closed on its own.
Lapse(S) ==
  /\ S # {}
  /\ \A i \in S : phase[i] = "provisional"
  /\ phase' = [i \in ClaimId |-> IF i \in S THEN "closed" ELSE phase[i]]
  /\ UNCHANGED <<envelope, claim>>

Return(i) ==
  /\ phase[i] = "confirmed"
  /\ phase' = [phase EXCEPT ![i] = "closed"]
  /\ UNCHANGED <<envelope, claim>>

Resize ==
  /\ envelope' \in Vec
  /\ UNCHANGED <<phase, claim>>

LedgerInit ==
  /\ envelope \in Vec
  /\ phase = [i \in ClaimId |-> "free"]
  /\ claim = [i \in ClaimId |-> Zero]

LedgerNext ==
  \/ \E i \in ClaimId, demand \in Demand : Claim(i, demand)
  \/ \E i \in ClaimId : Confirm(i)
  \/ \E S \in SUBSET ClaimId : Lapse(S)
  \/ \E i \in ClaimId : Return(i)
  \/ Resize

LedgerSpec == LedgerInit /\ [][LedgerNext]_ledgerVars
================================================================================
