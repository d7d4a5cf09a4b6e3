------------------------------- MODULE Predictor -------------------------------
(****************************************************************************)
(* The workload predictor (prediction.hpp): a bounded table of profiles,    *)
(* what has been learned from observations, and the predictions made from   *)
(* the two.                                                                 *)
(*                                                                          *)
(* A key is a model (with its revision) and the rest of the key string, a   *)
(* number in the order of the strings; 0 is the rest that names no backend. *)
(* Ratios are counted in thousandths, as rat_of does; decode rates and      *)
(* their moving average are integers where the code has doubles.            *)
(****************************************************************************)
EXTENDS Integers, FiniteSets

CONSTANTS
  UMax,                \* the largest machine word
  Models,              \* models with their revisions
  Details,             \* the rest of a key, in the order of the strings
  Profiles,            \* the contents of a profile that an operator may register
  NoProfile,           \* no profile under a key
  Requests,            \* the descriptors that predictions are asked for
  Observations,        \* what may be observed
  Earned,              \* the confidence that a number of samples gives, in percent
  kMaxProfiles,        \* bound on the profile table
  kMaxSamplesPerKey,   \* bound on the sample count
  MaxGeneration        \* bound on the generations of the model

Word == 0 .. UMax
Key  == Models \X Details

ProfileFields ==
  {"fixed", "overhead", "kv", "tensor", "workspace", "staging", "pinned", "host", "transfer",
   "safety", "fragmentation", "prefill_rate", "decode_rate", "transfer_rate"}

Kinds == {"Completed", "Failed", "Aborted"}

ASSUME PredictorAssumption ==
  /\ UMax \in Nat
  /\ Models \subseteq Nat /\ Details \subseteq Nat /\ IsFiniteSet(Key)
  /\ kMaxProfiles \in Nat /\ kMaxSamplesPerKey \in Nat \ {0} /\ MaxGeneration \in Nat \ {0}
  /\ \A p \in Profiles : p \in [ProfileFields -> Word]
  /\ NoProfile \notin Profiles
  /\ Requests \subseteq [key : Key, input : Nat, expected : Nat, max : Nat]
  /\ Observations \subseteq [key : Key, kind : Kinds, valid : BOOLEAN, peak : Word, rate : Nat]
  /\ Earned \in [1 .. kMaxSamplesPerKey -> 60 .. 98]
  /\ \A m, n \in 1 .. kMaxSamplesPerKey : m <= n => Earned[m] <= Earned[n]

VARIABLES
  profs,        \* profs_, without the generations
  stamps,       \* the generation of every profile, 0 when there is none
  seen,         \* the keys marked in seen_
  learn,        \* learn_
  generation    \* generation_

predictorVars == <<profs, stamps, seen, learn, generation>>

Registered == {k \in Key : profs[k] # NoProfile}

NothingLearned == [count |-> 0, last_peak |-> 0, decode_ema |-> 0]

-----------------------------------------------------------------------------
(* Keys *)

SameModel(k) == {j \in Registered : j[1] = k[1]}

FirstOf(K) == CHOOSE k \in K : \A j \in K : k[2] <= j[2]

\* Mutant: the first profile of the model is preferred to the exact one.
ResolveByModel(k) == IF SameModel(k) # {} THEN FirstOf(SameModel(k)) ELSE k

\* resolve_key: the key itself when it is registered, else the first
\* registered key of the model, else the key itself.
Resolve(k) ==
  IF k \in Registered THEN k
  ELSE IF SameModel(k) # {} THEN FirstOf(SameModel(k))
  ELSE k

\* A profile that names no backend is found, and not used.
Usable(k) == k \in Registered /\ k[2] # 0

-----------------------------------------------------------------------------
(* Memory footprints.  Sums wrap, products saturate. *)

Wrap(n) == n % (UMax + 1)

Saturate(n) == IF n > UMax THEN UMax ELSE n

RatOf(b, ratio) == IF b * ratio > UMax THEN UMax ELSE (b * ratio) \div 1000

BaseOf(f) == Wrap(f.fixed + f.overhead + f.kv + f.tensor + f.workspace + f.staging)

PeakOf(f) == Wrap(BaseOf(f) + f.margin + f.fragmentation)

SustainedOf(f) == Wrap(f.fixed + f.tensor + f.staging)

WithMargins(f, safety, fragmentation) ==
  [f EXCEPT !.margin = RatOf(BaseOf(f), safety), !.fragmentation = RatOf(BaseOf(f), fragmentation)]

OutputBound(d) == IF d.max # 0 THEN d.max ELSE d.expected

\* What the profile alone says.
ProfileFootprint(d, p) ==
  WithMargins([fixed |-> p.fixed, overhead |-> p.overhead,
               kv |-> Saturate(p.kv * (d.input + d.expected)),
               tensor |-> Saturate(p.tensor * (d.input + OutputBound(d))),
               workspace |-> p.workspace, staging |-> p.staging, pinned |-> p.pinned,
               margin |-> 0, fragmentation |-> 0],
              p.safety, p.fragmentation)

\* Cold start: a generic estimate (in the model's own units).
ColdFootprint(d) ==
  LET tokens == IF d.input + OutputBound(d) = 0 THEN 1 ELSE d.input + OutputBound(d)
  IN WithMargins([fixed |-> 256, overhead |-> 0, kv |-> Saturate(8 * tokens),
                  tensor |-> Saturate(8 * tokens), workspace |-> 0, staging |-> 64,
                  pinned |-> 0, margin |-> 0, fragmentation |-> 0], 150, 80)

Clamp(x, low, high) == IF x < low THEN low ELSE IF x > high THEN high ELSE x

\* Mutant: an observation far from the estimate is followed all the way.
AdjustedFreely(f, st) ==
  IF st.count = 0 \/ st.last_peak = 0 \/ PeakOf(f) = 0 THEN f
  ELSE LET ratio == (1000 * st.last_peak) \div PeakOf(f)
       IN WithMargins([f EXCEPT !.kv = RatOf(@, ratio), !.tensor = RatOf(@, ratio),
                                !.staging = RatOf(@, ratio)], 100, 50)

\* apply_learned_adjustment: the variable parts follow the last observed peak,
\* and the margins become those of a default profile.
Adjusted(f, st) ==
  IF st.count = 0 \/ st.last_peak = 0 \/ PeakOf(f) = 0 THEN f
  ELSE LET ratio == Clamp((1000 * st.last_peak) \div PeakOf(f), 800, 2000)
       IN WithMargins([f EXCEPT !.kv = RatOf(@, ratio), !.tensor = RatOf(@, ratio),
                                !.staging = RatOf(@, ratio)], 100, 50)

\* predict_memory, for what has been learned under the key of the profile.
Footprint(d, k, st) ==
  IF Usable(k) THEN Adjusted(ProfileFootprint(d, profs[k]), st) ELSE ColdFootprint(d)

Estimate(d) == Footprint(d, Resolve(d.key), learn[Resolve(d.key)])

\* The evidence and the confidence that predict_memory reports.
Evidence(d) == LET k == Resolve(d.key) IN IF Usable(k) THEN learn[k].count ELSE 0

Confidence(d) ==
  IF ~Usable(Resolve(d.key)) THEN 10
  ELSE IF Evidence(d) = 0 THEN 60 ELSE Earned[Evidence(d)]

\* predict_demand, by dimension.
Demand(d) ==
  LET f == Estimate(d)
      k == Resolve(d.key)
      host == IF Usable(k) THEN profs[k].host ELSE 0
  IN [accelerator |-> PeakOf(f),
      host |-> IF host > SustainedOf(f) THEN host ELSE SustainedOf(f),
      pinned |-> f.pinned, kv |-> f.kv, tensor |-> f.tensor,
      cache |-> IF Usable(k) THEN profs[k].transfer ELSE 0]

-----------------------------------------------------------------------------
(* Durations, in milliseconds; decode rates in thousandths *)

TimeFor(amount, rate) == IF rate = 0 THEN 0 ELSE (1000 * amount) \div rate

\* effective_decode_rate: the average of observed over expected rates scales
\* the profile's rate; a profile without a rate takes the ratio for a rate.
DecodeRate(k) ==
  LET ema == learn[k].decode_ema
      rate == profs[k].decode_rate
  IN IF ema = 0 THEN 1000 * rate ELSE IF rate > 0 THEN rate * ema ELSE ema

DurationAt(d, p, decode) ==
  TimeFor(d.input, p.prefill_rate) + TimeFor(1000 * d.expected, decode)
    + TimeFor(p.transfer, p.transfer_rate)

\* predict_duration.
Duration(d) ==
  LET k == Resolve(d.key)
  IN IF Usable(k) THEN DurationAt(d, profs[k], DecodeRate(k))
     ELSE TimeFor(d.input, 1000) + TimeFor(d.expected, 40)

-----------------------------------------------------------------------------
(* Operations *)

\* Mutant: the table is found full one profile too late.
HasRoomOffByOne == Cardinality(Registered) <= kMaxProfiles

HasRoom == Cardinality(Registered) < kMaxProfiles

\* A new key needs room in the table; a known one is replaced, and keeps what
\* was learned under it.
RegisterProfile(k, p) ==
  /\ generation < MaxGeneration
  /\ k \in seen \/ HasRoom
  /\ seen' = seen \cup {k}
  /\ profs' = [profs EXCEPT ![k] = p]
  /\ generation' = generation + 1
  /\ stamps' = [stamps EXCEPT ![k] = generation + 1]
  /\ UNCHANGED learn

\* Three fifths of the old average and two fifths of the new ratio.
Blend(ema, ratio) == IF ema = 0 THEN ratio ELSE (6 * ema + 4 * ratio) \div 10

RateRatio(k, o) ==
  IF profs[k].decode_rate = 0 THEN 200
  ELSE Clamp((1000 * o.rate) \div profs[k].decode_rate, 200, 5000)

CountOne(st) == [st EXCEPT !.count = IF @ >= kMaxSamplesPerKey THEN kMaxSamplesPerKey ELSE @ + 1]

\* A run that did not complete counts as evidence and teaches nothing else.
Learn(st, k, o) ==
  IF o.kind # "Completed" THEN CountOne(st)
  ELSE [CountOne(st) EXCEPT
          !.last_peak = o.peak,
          !.decode_ema = IF o.rate > 0 /\ k \in Registered THEN Blend(@, RateRatio(k, o)) ELSE @]

\* An observation that does not validate, or names no backend, is dropped.
Observe(o) ==
  LET k == Resolve(o.key)
  IN /\ o.valid /\ o.key[2] # 0
     /\ learn' = [learn EXCEPT ![k] = Learn(@, k, o)]
     /\ UNCHANGED <<profs, stamps, seen, generation>>

\* Position of a registered key in the order of the table.
Position(k) ==
  Cardinality({j \in Registered : j[1] < k[1] \/ (j[1] = k[1] /\ j[2] <= k[2])})

\* Mutant: the saved profiles keep their generations, the counter starts again.
RecoverKeepingStamps ==
  /\ generation' = 1
  /\ learn' = [k \in Key |-> NothingLearned]
  /\ UNCHANGED <<profs, stamps, seen>>

\* A new engine registers the saved profiles in the order of their keys, which
\* numbers them again; what was learned is not saved.
Recover ==
  /\ stamps' = [k \in Key |-> IF k \in Registered THEN 1 + Position(k) ELSE 0]
  /\ generation' = 1 + Cardinality(Registered)
  /\ seen' = Registered
  /\ learn' = [k \in Key |-> NothingLearned]
  /\ UNCHANGED profs

-----------------------------------------------------------------------------
PredictorInit ==
  /\ profs = [k \in Key |-> NoProfile]
  /\ stamps = [k \in Key |-> 0]
  /\ seen = {}
  /\ learn = [k \in Key |-> NothingLearned]
  /\ generation = 1

PredictorNext ==
  \/ \E k \in Key, p \in Profiles : RegisterProfile(k, p)
  \/ \E o \in Observations : Observe(o)
  \/ Recover

PredictorSpec == PredictorInit /\ [][PredictorNext]_predictorVars

-----------------------------------------------------------------------------
(* Properties *)

\* What is kept of a key: a bounded count, the last peak, and an average that
\* is 0 before the first rate and between a fifth and five times one after it.
Count   == 0 .. kMaxSamplesPerKey
Average == {0} \cup (200 .. 5000)
Learned == [count : Count, last_peak : Word, decode_ema : Average]

\* The predictor's variables have their types, and the keys marked as seen are
\* the keys of the table.
PredictorTypeOK ==
  /\ profs \in [Key -> Profiles \cup {NoProfile}]
  /\ stamps \in [Key -> 0 .. MaxGeneration]
  /\ seen = Registered
  /\ learn \in [Key -> Learned]
  /\ generation \in 1 .. MaxGeneration

\* The table never holds more than kMaxProfiles profiles: the bound is tested
\* on one map while another one decides whether it is tested at all.
TableBounded == Cardinality(Registered) <= kMaxProfiles

\* A generation names one profile: profiles that are registered together never
\* share one, and none is ahead of the generation that predictions quote, also
\* after a recovery has numbered them again.
StampsIdentify ==
  \A j \in Registered :
    /\ stamps[j] \in 2 .. generation
    /\ \A k \in Registered \ {j} : stamps[j] # stamps[k]

\* The sizes, margins included, for which no product or sum of a prediction
\* leaves a word.
Sane(f) ==
  LET parts == f.fixed + f.overhead + f.kv + f.tensor + f.workspace + f.staging
  IN 3000 * parts <= UMax /\ parts + f.margin + f.fragmentation <= UMax

\* Whatever was observed, in whatever order: the fixed part of an estimate is
\* the profile's, each variable part stays between 0.8 and 2 times the
\* profile's, the peak that is reserved covers all parts, and the duration is at
\* most 5 times, up to rounding, the one at the profile's decode rate.  How much
\* shorter a learned rate makes the duration is not stated.
LearnedWithinBounds ==
  \A d \in Requests :
    LET k == Resolve(d.key)
        p == profs[k]
        f == Estimate(d)
        g == ProfileFootprint(d, p)
    IN Usable(k) /\ Sane(g) =>
         /\ f.fixed = g.fixed
         /\ \A part \in {"kv", "tensor", "staging"} :
              (800 * g[part]) \div 1000 <= f[part] /\ f[part] <= 2 * g[part]
         /\ Demand(d).accelerator >=
              f.fixed + f.overhead + f.workspace + f.staging + Demand(d).kv + Demand(d).tensor
         /\ p.decode_rate > 0 =>
              Duration(d) <= 5 * DurationAt(d, p, 1000 * p.decode_rate) + 5

\* A request whose own key is registered stays bound to that profile whatever
\* else is registered for the model, and what is reported for it, evidence and
\* confidence, never falls, but for a recovery, which forgets all of it.
BindingStable ==
  [][\A d \in Requests :
       d.key \in Registered =>
         /\ Resolve(d.key)' = Resolve(d.key)
         /\ \/ Evidence(d)' >= Evidence(d) /\ Confidence(d)' >= Confidence(d)
            \/ \A k \in Key : learn'[k].count = 0]_predictorVars
================================================================================
