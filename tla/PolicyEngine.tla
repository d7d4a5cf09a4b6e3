------------------------------ MODULE PolicyEngine ------------------------------
(****************************************************************************)
(* The versioned policy library (policy.hpp): a bounded map from policy     *)
(* generations to policies, the generation in force, and the counter that   *)
(* numbers new generations.                                                 *)
(*                                                                          *)
(* A policy is a record of the fields that a decision reads.  Ratios and    *)
(* confidences are percentages (the code uses doubles in [0, 1]), and may   *)
(* be out of range before validation.  An override is a selector key and a  *)
(* record holding only the fields it sets.                                  *)
(****************************************************************************)
EXTENDS ResourceVectors, Sequences, FiniteSets

CONSTANTS
  Descriptors,      \* the requests that clients may submit
  Policies,         \* the policies that an operator may try to install
  NoPolicy,         \* no policy under a generation
  IdMax,            \* the largest 64-bit identity or generation
  kMaxGenerations   \* bound on the policy history

\* The fields that an override may replace.
Overridable ==
  {"safety_headroom_ratio", "overcommit", "overcommit_allowance",
   "min_predictor_confidence", "require_reservation"}

PolicyFields ==
  Overridable \cup
  {"absolute_safety_margin", "max_snapshot_age", "accept_stale_snapshot",
   "max_reservation_lifetime", "fairness_window"}

FieldType(f) ==
  CASE f = "overcommit" -> OvercommitMode
    [] f \in {"overcommit_allowance", "absolute_safety_margin"} -> Vec
    [] f \in {"require_reservation", "accept_stale_snapshot"} -> BOOLEAN
    [] OTHER -> Nat

ASSUME PolicyAssumption ==
  /\ IdMax \in Nat \ {0}
  /\ kMaxGenerations \in Nat \ {0}
  /\ NoPolicy \notin Policies
  /\ \A p \in Policies :
       /\ DOMAIN p = PolicyFields \cup {"overrides"}
       /\ \A f \in PolicyFields : p[f] \in FieldType(f)
       /\ Len(p.overrides) \in Nat /\ DOMAIN p.overrides = 1 .. Len(p.overrides)
       /\ \A i \in DOMAIN p.overrides :
            LET s == p.overrides[i].set
            IN /\ DOMAIN s \subseteq Overridable
               /\ \A f \in DOMAIN s : s[f] \in FieldType(f)

VARIABLES
  policies,         \* policies_
  latest,           \* latest_, 0 when nothing was installed yet
  policy_counter    \* counter_

policyVars == <<policies, latest, policy_counter>>

PolicyGen == 1 .. IdMax

Installed == {g \in PolicyGen : policies[g] # NoPolicy}

-----------------------------------------------------------------------------
\* Mutant: the overrides are not looked at.
ValidateBaseOnly(p) ==
  /\ p.safety_headroom_ratio < 100
  /\ p.min_predictor_confidence <= 100
  /\ p.overcommit = "None" => IsZero(p.overcommit_allowance)
  /\ p.max_reservation_lifetime > 0

Validate(p) ==
  /\ p.safety_headroom_ratio < 100
  /\ p.min_predictor_confidence <= 100
  /\ p.overcommit = "None" => IsZero(p.overcommit_allowance)
  /\ p.max_reservation_lifetime > 0
  /\ \A i \in DOMAIN p.overrides :
       LET s == p.overrides[i].set
       IN "safety_headroom_ratio" \in DOMAIN s => s.safety_headroom_ratio < 100

\* The overrides of p that match the descriptor and set field f, by position:
\* the last one in the list wins.
Setting(d, p, f) ==
  {i \in DOMAIN p.overrides : p.overrides[i].key \in d.keys /\ f \in DOMAIN p.overrides[i].set}

Last(I) == CHOOSE i \in I : \A j \in I : j <= i

Effective(d, p) ==
  [f \in DOMAIN p |->
     IF Setting(d, p, f) = {} THEN p[f] ELSE p.overrides[Last(Setting(d, p, f))].set[f]]

NextCounter == IF policy_counter = IdMax THEN 1 ELSE policy_counter + 1

\* Mutant: the history is not bounded.
HistoryNeverFull == FALSE

HistoryFull == Cardinality(Installed) >= kMaxGenerations /\ policies[policy_counter] = NoPolicy

\* A generation number is spent before the history is found to be full.
InstallRefused(p) ==
  /\ Validate(p)
  /\ HistoryFull
  /\ policy_counter' = NextCounter
  /\ UNCHANGED <<policies, latest>>

InstallNext(p) ==
  /\ Validate(p)
  /\ ~HistoryFull
  /\ policies' = [policies EXCEPT ![policy_counter] = p]
  /\ latest' = policy_counter
  /\ policy_counter' = NextCounter

\* Recovery installs the saved policies under their own generations.
InstallAtGeneration(p, gen) ==
  /\ Validate(p)
  /\ policies[gen] = NoPolicy
  /\ policies' = [policies EXCEPT ![gen] = p]
  /\ latest' = IF gen >= latest THEN gen ELSE latest
  /\ UNCHANGED policy_counter

-----------------------------------------------------------------------------
PolicyInit ==
  /\ policies = [g \in PolicyGen |-> NoPolicy]
  /\ latest = 0
  /\ policy_counter = 1

PolicyNext ==
  \/ \E p \in Policies : InstallRefused(p)
  \/ \E p \in Policies : InstallNext(p)
  \/ \E p \in Policies, gen \in PolicyGen : InstallAtGeneration(p, gen)

PolicySpec == PolicyInit /\ [][PolicyNext]_policyVars

-----------------------------------------------------------------------------
(* Properties *)

\* The library maps generations to policies; the current generation names one
\* of them as soon as any is installed, so latest() finds a policy.
PolicyTypeOK ==
  /\ policies \in [PolicyGen -> Policies \cup {NoPolicy}]
  /\ latest \in Installed \cup {0}
  /\ latest = 0 => Installed = {}
  /\ policy_counter \in PolicyGen

\* Whatever overrides apply, and in whatever order, the headroom ratio of the
\* effective policy stays below one: a policy in the library never reserves
\* the whole of the available capacity as headroom.
EffectiveRatioInRange ==
  \A g \in Installed, d \in Descriptors : Effective(d, policies[g]).safety_headroom_ratio < 100

\* install never lets the history grow beyond kMaxGenerations, and nothing
\* ever drops a generation from it (the current one in particular).
BoundedHistory ==
  [][/\ Installed \subseteq Installed'
     /\ policy_counter' # policy_counter /\ Installed' # Installed
          => Cardinality(Installed') <= kMaxGenerations]_policyVars
================================================================================
