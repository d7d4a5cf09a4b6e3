# Admission Fabric in TLA+

A verification project for Admission Fabric, a C++ runtime that decides whether
inference work may start now (ADMIT with a reservation), later (DEFER) or never
(REJECT). The modules are translated from the source under `src/`; `PROJECT.json`
maps every definition to the lines it models.

## 1. The system

| Component | State | Operations | Talks to |
|---|---|---|---|
| Reservation manager (`reservation.hpp`) | reservation table, running sums `reserved_sum`, `used_sum`, envelope (`total`, overcommit mode and allowance) | `reserve`, `commit`, `rollback`, `release`, `expire_stale`, `set_total`, overcommit setters, `verify_accounting`, `restore` | called by the engine; reads the clock |
| Policy engine (`policy.hpp`) | policies by generation, generation in force, counter | `install`, `install_at_generation`, `effective` | called by the engine and by recovery |
| Admission engine (`engine.cpp`) | request records, snapshot, quota, counters, metrics | `evaluate` (ten stages, fourteen exits), `commit_admission`, `release_reservation`, `cancel_request`, inputs | the manager, the policies, the predictor, the fairness controller |
| Fairness controller (`fairness.hpp`) | last admission per tenant, bounded table | `note_admission`, `should_defer_large` | asked by `evaluate` |
| Predictor (`prediction.hpp`) | profiles by key, learned state by key, generation | `register_profile`, `observe`, `predict_memory`, `predict_demand`, `predict_duration` | asked by `evaluate`, fed by `observe`, refilled by recovery |
| State store (`persistence.cpp`) | state file, temporary file | `save`, `load` | copies the engine's state out and in |
| Coordinator (`coordinator.cpp`) | agent map, epoch, one engine | one thread per connection: registration, capacity updates, loss, client frames | agents and clients over framed TCP |
| Agent (`agent.cpp`) | identity, boot identity, epoch learnt | `register_self`, `send_capacity`, `run` | the coordinator |
| Codec and framing (`codec.cpp`, `protocol.cpp`, `serialize.hpp`) | position and failure of a reader | an encoder and a decoder per structure | the state store, the wire |
| Sockets (`net.cpp`) | a byte stream each way | `send_all`, `recv_exact`, `send_frame`, `recv_frame` | agents, clients, the coordinator's threads |
| Backends, tools | none | device queries, command line | everybody |

What is hard, and what each component must get right:

* **Reservation manager.** The sums are kept beside the table, with checked
  64-bit arithmetic; commit, release, rollback and expiry race for the same
  entry, and a commit may come after the TTL. The envelope moves underneath.
  Correct means: the sums are the table's sums, nothing is claimed beyond the
  envelope of its moment, no live entry becomes impossible to free, entries only
  move forward.
* **Policy engine.** The generation counter spends numbers on refused installs
  and wraps; recovery installs without it. Correct means: the generation in force
  exists, overrides cannot reserve everything, history is bounded.
* **Admission engine.** Records, reservations, totals and counters are four
  books kept by fourteen exits; requests are resubmitted, cancelled and committed
  in any order. Correct means: the books agree.
* **State store.** A save takes several steps and the process may die between
  any two. Correct means: the file is always one whole moment of the engine, and
  a recovered engine is as good as the one that died.
* **Coordinator and agents.** Threads share an engine without a lock, the epoch
  is read and written outside the mutex, losses are noticed late, and agents are
  refused, exit and are restarted. Correct means: dead capacity is not
  offered and is eventually fenced, a registered process is the one on offer,
  an agent that is restarted gets back in, requests meet the capacity chosen for
  them.
* **Predictor.** Estimates follow the last observation, keys resolve to other
  keys, two maps guard one bound, recovery renumbers. Correct means: an estimate
  stays within the bounds of its profile, a bound key stays bound, tables and
  counters stay bounded, a generation names one profile.
* **Sockets.** A stream cuts frames anywhere, either end may vanish, nothing has
  a timeout and nobody compares correlation numbers. Correct means: the stream
  never gets out of step, every answer is the answer to the request that waits,
  nobody waits for ever (but for the agent of section 3).
* **Codec.** Encoders and decoders are two lists of fields in two places.
  Correct means: a decoder reads what the encoder wrote, refuses what was cut and
  never reads past the end, whatever a length or a count says.

`PROJECT.json` lists every hazard at its line, with the property that covers it.

## 2. The modules

```
ResourceVectors            vectors and checked / saturating arithmetic
  CapacityLedger           abstract: claims against an envelope
  ReservationManager       reservation.hpp          -> implements CapacityLedger
  PolicyEngine             policy.hpp
    AdmissionEngine        engine.cpp, EXTENDS ReservationManager, PolicyEngine
      StateStore           persistence.cpp, save_state, restore_state, restore
      Coordinator          coordinator.cpp, agent.cpp: data and interleavings
AgentSession               coordinator.cpp, agent.cpp, apps/agent: restarts, liveness
RequestReply               abstract: one request at a time, answers in order
  FramedConnection         net.cpp and the loops above it -> implements RequestReply
Predictor                  prediction.hpp, observation.hpp
Codec                      codec.cpp, protocol.cpp, serialize.hpp
```

Each `XProofs` module holds the theorems about `X` (those about PolicyEngine are
in AdmissionEngineProofs), each `MCX` module the values of its constants for TLC.

**ResourceVectors.** A `ResourceVector` is a function from `Resource` to
`Word == 0 .. UMax`. `UMax` stands for 2^64 - 1: `CanAdd`/`CanSub` are the checks
of `try_add`/`try_sub`, `SatAdd`/`SatSub` saturate as `sat_add`/`sat_sub` do.

**ReservationManager.** The variables are the members of the class. A
reservation that is not in the map has status `Absent`. Every public operation
is one action (the class is used by one thread at a time); an operation that
fails and changes nothing is a stutter, one that fails and changes something
(`commit` after the TTL expires the entry) is an action (`CommitTooLate`).
`SumOf` counts the units of a set of entries, which is how the sum of the loop
in `verify_accounting` is written without recursion. The clock steps either
way, since `system_clock` may be set back.

**CapacityLedger.** What callers are promised: claims, made once and whole, only
within the envelope; confirmed, lapsed or returned once. No sums and no clock.
`ImplementsLedger` in ReservationManager is the refinement mapping.

**PolicyEngine.** Policies by generation; a generation that is not in the map is
`NoPolicy`. `Validate` is the code's validation of the fields that decisions
read, overrides included; ratios and confidences are percentages where the code
has doubles. Override keys are strings that a descriptor matches or does not.

**AdmissionEngine.** `evaluate` is one step, with one action per exit. The
predicates `Entered`, `Governed`, `Capable`, `Informed`, `Entitled`, `Timely`,
`Fits`, `InTurn` and `Reservable` say how far a descriptor got; each exit is guarded by the
stages it passed and the one it failed. `Govern` is the side effect that starts
at the policy stage: the request's own overrides set the envelope of the shared
manager, and it stays. `Emit` is `transition_` as the code has it: a refused
transition is dropped while the decision is stored. Every exit counts for itself.
The predictor's answer is chosen from `Predictions[d]`. `OnceSpec` is `EngineSpec`
for clients that submit every id once. The code lets an id that was deferred be
evaluated again, and some of its tests do; `OnceSpec` leaves that out, because two
properties (`NoOrphan`, `TerminalFinal`) hold only without it. `ChargedOnce` is
what is left with it.

**StateStore.** `BuildPayload` copies the engine's state (`SaveState`: exactly
the fields that `save_state` writes), `OpenTemp` truncates the temporary file,
`WriteTemp` writes it, `AtomicReplace` renames it. `SaveFails` is any of the I/O
errors. The engine's own actions interleave with these. `Crash` loses memory
and keeps files. `LoadState` is the whole of a successful load into a new
engine, `LoadRefused` a load that is refused by the reservation table after the
policies were installed. A load that is refused by the frame changes nothing.

**Coordinator.** `contexts` holds the `AgentConn` of each connection, with the
position of its handler; `agents` is the map guarded by the mutex. A step ends
where another thread can see a difference: `Register` (the locked part of
`dispatch`), `Acknowledge` (the epoch read after unlocking), `CapacityUpdate`,
`Lose` (the locked part of `on_agent_loss`), `ReadEpoch` and `WriteEpoch`
(`epoch_ = epoch_.next()`). A client's evaluation is three steps:
`ChooseSnapshot` (locked), `SupplySnapshot` (the pointer is read, unlocked; a
freed context may yield any snapshot) and `EvaluateFrame`. An agent waits for each answer,
so a message in flight is the handler's next step.

**AgentSession.** The same threads as in Coordinator, without the data and
without a bound on restarts. A process is the boot it runs under and the
call of `main` it is in; an error from `register_self` or `send_capacity` ends it.
The coordinator's thread for a connection goes from `dispatch` to `acknowledge`,
`serve` and, when the connection ends, to the fence and the two halves of the
roll. Boots and epochs are only ever compared for equality, so a boot that
nobody refers to may be used again, and of the epoch the module keeps which
connections were told the present one. A store that another store overtook may
write an epoch that was there before; which connections are current
afterwards is then a free choice. The module assumes that a connection ends only
with its process: `handle_agent` fences on any failed receive, so a reset of a
connection whose process lives, or a header it refuses, would fence a live agent.
Connections that break at any time are in Coordinator, whose safety properties
do not need the assumption.

**FramedConnection.** `wire` is the byte stream in each direction; `Push` and
`Pull` move any number of bytes, as `send` and `recv` may. A byte is the number of
its frame and its position, so a header that is not one would be seen. The
peer asks and waits; the handler receives, answers and receives again, gives up on a
header it refuses, and ignores a failed send. `loop` is the function its thread is
in, which the first frame decides; what giving up means depends on it (`GivenUp`).
The socket of `dispatch` and of a client's loop is a local and is closed. The socket of
an agent's loop stays in `agents_`: the thread has left, the connection is open.
`Close`, `Reset`, `ReceiveFails` and `SendFails` are the ways a connection ends; for
a handler that has left, `Close` is the next registration of the same identity or
the end of the coordinator. RequestReply is
what a caller may rely on.

**Predictor.** Keys are a model with its revision and the rest of the key string,
ordered as the strings are. `Resolve` is `resolve_key`; `Observe` the whole of
`observe`; the predictions are operators over the state. `Recover` is what a
save and a load do to the predictor: profiles come back renumbered, learned
state does not. Ratios are thousandths, as `rat_of` makes them.

**Codec.** For every structure the list of fields its encoder writes and the
list its decoder reads, one operator for each of the two functions, and one
reader for both the state file and the wire. A byte carries the name of the
field it was written for, so a decoder that reads it into another field is
caught. An encoder runs in one step, a decoder one field at a time; in between
the bytes may be cut at any place, or one of them altered. A shape says of every
field that varies how long it is or whether it is there.

### Abstractions

* One call of the engine is one step, also in Coordinator, and so is the copy of
  one snapshot. Two threads inside the engine at once, or a torn snapshot, are a
  data race of the code that the model does not follow.
* A descriptor's `validate()` is the field `valid`; its backend, dtype and
  quantization are capability strings; `small` says that its expected output is
  below 512 tokens.
* Decisions keep their reason, reservation, admission generation and policy
  generation. Texts, snapshot generations and the per-reason counters are left out.
* Policy fields that no decision reads are left out (Codec has them all).
* In the engine the predictor's answer is an input; Predictor says what it can be.
* In AgentSession an agent that is restarted has a boot of its own, as the
  comment in `Agent::run` asks of the caller.
* In Codec integers are two or three bytes wide and the limits are small.
* In Coordinator time stands still; TTLs and snapshot ages are the subject of
  the engine's runs.
* In StateStore one save runs at a time, only the process dies (the operating
  system keeps what was written), and a load goes to a new engine, as the
  comment in `restore_state` has it. The profiles of an image are in Predictor.

## 3. What is checked

Every run is TLC on a small instance. Fairness is stated in two modules. In
FramedConnection it is weak fairness of what one end does by itself: its thread
is scheduled, the transport moves bytes while both ends are there, and a
receive or a send on a connection whose other end is gone fails. Nothing is
assumed about the closing of a socket that an agent's loop has left behind. In
AgentSession it is weak fairness of each thread of the coordinator, and of the
restart of an agent that is down; the restart is the caller's duty
(`agent.cpp:79-80`), not the code's, and `RestartRegisters` and `Settles` rest on
it. Crashes and closes are never fair. The engine and its parts state no fairness:
nothing in the code schedules a sweep of expired reservations or a retry.

| Run | Instance | Shows |
|---|---|---|
| `reservation_manager` | 3 reservations, 2 dimensions, words up to 8, 2 envelopes, overcommit on and off, a clock of 2 ticks; reservations are interchangeable | `Accounting`, `NeverStuck`, `NoOverclaim`, `ForwardOnly`, and `ImplementsLedger` |
| `engine_lifecycle` | 2 requests that do not fit together, a malformed resubmission, 4 evaluations, identities that wrap at 2, 3 ticks | type, `SoleOwner`, `BackedByCapacity`, `ChargedOnce`, `EvidenceAddsUp` |
| `engine_gates` | 7 descriptors, one per gate, 2 policies with overrides and overcommit, refused ones, a history of 1, 3 snapshots, a quota, 2 evaluations | every exit of `evaluate`; `HeadroomKept`, `NoOverclaim`, `EffectiveRatioInRange`, `BoundedHistory` |
| `engine_once` | as `engine_lifecycle`, each id submitted once | `NoOrphan`, `TerminalFinal` |
| `state_store` | 2 interchangeable requests, 1 evaluation per life of the process, 1 crash, saves at any time | `FileIntact`, `CountersAhead`, and `Accounting` and `BackedByCapacity` across a recovery |
| `coordinator` | 3 interchangeable connections, 2 agents, 2 boots, 1 client | `DeadNotOffered`, `EpochCountsLosses`, `AuthorityLapses` |
| `agent_session` | 2 agents, 2 boots each, 3 crashes, any number of exits and restarts | `RegisteredIsOffered`; under fairness `DeadIsFenced`, `RestartRegisters`, `Settles` |
| `framed_connection` | 3 requests of 6 kinds (a registration, empty, at and over the limit, an answer over it, another version), a header of 3 bytes, a wire of 4 | `InStep`, `OneSends`, `ImplementsRequestReply`; under fairness `WaitEnds` |
| `predictor` | 2 models with 3 keys each, 2 profiles, a table of 2, 4 observations, 4 requests, 4 generations | `TableBounded`, `StampsIdentify`, `LearnedWithinBounds`, `BindingStable` |
| `codec` | 10 structures, every set of full fields, every cut, every byte altered to 4 values | `RoundTrip`, `CutRefused`, `NeverPastEnd`, `FailureFinal` |

The type invariants of the modules that have a proof module are theorems
(section 4); the runs of the reservation manager and the engine check theirs as
well.

Why the bounds are enough for the cases they are about: three reservations give
one to hold, one to free and one to refuse; four evaluations resubmit both
requests and wrap the identity counter; two evaluations suffice for a first one to leave
an envelope or a deferral behind and a second one to meet it; one crash with
saves before and after it meets every step of a save; three connections let one
agent be lost, replaced and lost late while another agent is lost at the same
time; in AgentSession two boots per agent are a process and one earlier process
whose registration, loss or roll is still under way, and the crashes are bounded
because a system that crashes for ever settles never. A wire shorter than a
frame makes both cuts and back-pressure happen. A table of two profiles fills up
while one model has two keys registered and a third key that resolves to them.
`coordinator` and `framed_connection` say `CHECK_DEADLOCK FALSE` because each
connection is used once and a behaviour ends when all are closed,
`agent_session` because agents that run and crash no more have nothing left to do.

`ChargedOnce` is what holds of an id that is evaluated again after a deferral. Such a
request may hold several provisional reservations, of which its record names the
last; it may be cancelled and committed all the same. But a commit makes the
record `ADMITTED`, which neither `evaluate` nor `cancel_request` lets go of, so no
second reservation is ever committed for the id.

`AuthorityLapses` is the comment of `on_agent_loss` ("Roll coordinator epoch so any
pre-loss authority is invalidated") with the one exception that the code makes:
unless two losses have read the same epoch, a report is accepted only from a connection
that was told an epoch later than every loss handled so far. Without the exception
it is false. With four connections TLC finds two losses that read the same epoch
and a third one that reads the epoch they rolled; the last write of the three
puts the older epoch back, and an agent that was told it before the third loss
has its report accepted. With the exception the property was checked with four
connections too, without clients.

`WaitEnds` has an exception as well, and is false without it: a registered agent
whose request has a header that the coordinator refuses (too large, or of another
version) is fenced and gets neither an answer nor an end of its connection. The
agents of this repository send no such header.

`Settles` is as much as can be said about agents getting to work: when the
epoch rests, all agents run. That the epoch rests is not guaranteed even for one
agent. The roll comes after the fence has opened the door for the next boot,
so a registration in between is told the old epoch; its report is refused, the
process exits, and its loss rolls the epoch again.

### Where the code and its documentation part

Each of these runs checks one statement that a comment, an error text or the
README makes, and TLC shows a behaviour of the code that contradicts it. The
quotes are in `PROJECT.json`.

| Run | What happens |
|---|---|
| `saved_state_loads` | after one release, no saved state can be loaded |
| `admits_on_live_capacity` | a request is admitted on an agent that was fenced after it had been chosen |

Other disagreements are visible in the definitions without a run:

* A request that was deferred, then admitted on re-evaluation, stays `Deferred`
  (`Emit`); `cancel_request` cancels it without a rollback, and
  `commit_admission`, which does not look at the lifecycle, can still commit it.
  `TerminalFinal` and `NoOrphan` therefore hold for `OnceSpec` only.
* Losses at once can write the epoch backwards (`ReadEpoch`, `WriteEpoch`),
  where a comment says that any authority from before the loss is invalidated; see
  `AuthorityLapses` above.
* `handle_agent` returns on a refused header without closing the socket
  (`GivenUp`), and the agent waits; see `WaitEnds` above.
* A load that the reservation table refuses leaves the saved policies installed
  (`LoadRefused`), where the comment in `restore_state` speaks of a fresh target. They
  govern from then on, and loading again fails at the first of them, since its
  generation exists.
* Between a client's `set_snapshot` and its `evaluate` another client's snapshot may
  come. `AdmitsOnLiveCapacity` is about one whose agent is fenced by then; a live one
  that was chosen for the other client's descriptor is not told apart. The admission
  stays within whichever is in force (`CoordNoOverclaimHolds`).
* A loss that is noticed after its agent has reconnected under the same boot
  fences the new connection (`Lose` goes by the agent's id). With fresh boots it
  does not happen: `RegisteredIsOffered`.
* `prediction.hpp` says that repeated under-prediction increases the margin;
  `Adjusted` looks at the last peak only and resets the margins to those of a
  default profile, so one small observation takes back what was learned.
* A profile without a decode rate takes the learned ratio for a rate
  (`DecodeRate`); runs that failed raise the confidence (`CountOne`); the sum of
  saturated parts of an estimate wraps (`PeakOf`).
* The README and the comments of the codec say that readers reject trailing
  bytes and values out of range. Only the load of a state file looks for
  trailing bytes, and only the status of a reservation is compared with its
  range (`ReadEnum`). Writers bound no length where readers do, and `send_frame`
  sends what `recv_frame` refuses (`HeaderAccepted`).
* `verify_accounting` also fails, with exact books, when the reported capacity
  shrinks.
* The first install after a recovery overwrites a recovered generation
  (`InstallAtGeneration` leaves the counter alone).
* A decision carries the client's policy generation and not the governing one
  (`Conclude`).
* No call of the engine sweeps expired reservations, so one past its TTL defers
  others.
* A deferred request counts among the small requests it is deferred for
  (`PendingSmall`).
* Without a capable agent a request is rejected, where the coordinator's
  comment says deferred (`RejectCapability` comes before `DeferUnknown`).
* Placement ignores the quantization that the engine requires (`Eligible`
  against `Capable`).

## 4. What is proved

The theorems hold for every word size, every finite set of resources,
reservations, requests and tenants and every set of inputs that satisfies the
modules' named assumptions.

* **ReservationManagerProofs.** The type invariant is inductive as it stands.
  `Accounting` is inductive with it, by lemmas on `SumOf`: the sum over a union
  of disjoint sets, and what one entry that joins or leaves a set adds or takes
  (`SumOfOne`, `SumOfUnion`, `SumSplit`, `SumAgree`). `NeverStuck` needs more: commit adds to
  `used_sum` what it takes from `reserved_sum`, which cannot overflow because
  `LoadFits` (the two together fit in a word) is an invariant; that one follows from
  `NoOverclaim`, the action property that capacity is only taken within the
  envelope. `ForwardOnly` needs that an absent entry carries nothing
  (`AbsentIsEmpty`). `RefinesLedger` combines these: the units held by the
  ledger's claims are the manager's sums (`HeldIsLoad`), so the manager's check
  on sums is the ledger's check on claims.
* **AdmissionEngineProofs.** First the policy library by itself: its type
  invariant with the fact that the generation in force exists; that every
  installed policy passed validation, from which a chain of overrides keeps the
  ratio below one (`EffectiveField`); the bound on the history. Then type
  correctness of the composition and `Accounting`, with the manager's lemmas, one
  per action. `OwnershipInv` is
  the strengthening behind `SoleOwner` and `BackedByCapacity`: what a decision
  names is in the table, is named by nobody else, and has a status that fits
  the lifecycle. It survives the wrap of the identity counter because
  `reserve` refuses an identity that is in the table. `OnceInv`, for clients that
  submit each id once, adds that every entry has a holder and that the lifecycle
  and the status determine each other; `NoOrphan` and `TerminalFinal` follow.
  `ChargedOnce`, for all clients, is `ChargeInv` in other words, inductive with
  `OwnershipInv`: a request that was charged is `ADMITTED` or `RELEASED`, and by
  `OwnershipInv` what the record of such a request names, if anything, is committed
  or released and cannot be committed again.

  `NoOverclaim` and `HeadroomKept` rest on two lemmas: only an admission raises the
  load (`EngineLoadStep`), and an admission adds exactly the predicted demand to a
  load that stays within the envelope it leaves behind (`AdmitLoad`). The margin
  survives because no override reaches it (`MarginNotOverridden`), and because a
  positive demand can only fit in the headroom when the saturating sum of share
  and margin has not exceeded what is free (`HeadroomLeavesMargin`).

  `EvidenceAddsUp` is inductive: every exit counts one evaluation and one outcome.
* **StateStoreProofs.** The image that `BuildPayload` copies satisfies, as a
  value, what the engine satisfies at that moment (`SoundImage`: types, books,
  ownership); the invariant says so of the payload, the temporary file when it is
  whole, and the state file. `LoadState` then gives back to the engine what the image
  has, and `Crash` an empty engine. `FileIntact`, `Accounting`, `SoleOwner` and
  `BackedByCapacity` follow, for any number of crashes.

  `CountersAhead` cannot hold for ever: the counters wrap. Under the assumption
  that all evaluations of all lives of the process together stay below the number of
  identities, `(MaxCrashes + 1) * MaxEvaluations < IdMax`, `CountersInv` is
  inductive: the counters of the engine, and those of every image under way or on
  disk, are above what that engine or image has in use, and are at most what the
  evaluations made so far can have spent. With 64-bit counters the assumption
  is no restriction in practice; it is stated in the theorem and not of the
  constants, because nothing else needs it.
* **CoordinatorProofs.** `CoordTypeOK` needs that the snapshot `choose_snapshot`
  prefers exists: a non-empty finite set of naturals has a least element, by
  well-founded induction on strict subsets. `DeadNotOffered` is inductive
  with `AgentsOK` (the map names contexts that registered). `EpochCountsLosses` is not inductive: a
  handler may hold an epoch it has read and not yet written. `RollsOK` adds that
  the epoch, and each value read, together with the rolls still pending is at
  most one more than the number of fenced contexts. `AuthorityLapses` rests on
  `SerialRolls`: as long as all losses read different epochs, a loss that has read and
  not yet written holds the present epoch, and the epoch is above what every finished
  loss has read. The engine's `Accounting`,
  `SoleOwner`, `BackedByCapacity`, `ChargedOnce`, `NoOverclaim` and `HeadroomKept` carry over to
  clients interleaved by the coordinator: every step of it is one of the
  engine's or the arrival of some client's snapshot, which moves the ceiling and
  takes nothing (`CoordEngineStep`, `SuppliedLoad`).
* **AgentSessionProofs.** `RegisteredIsOffered` is not inductive. `Served` adds that
  a thread past its registration whose own loss is not handled yet still has its
  own context in the map, alive, and that a process that runs has its thread.
* **PredictorProofs.** That the marked keys are the keys of the table is what makes
  `TableBounded` hold; `StampsIdentify` across a recovery rests on `Position`
  being injective and at most the size of the table; `BindingStable` on the
  resolution of a registered key to itself. `LearnedWithinBounds` is arithmetic:
  the factor that an observation earns is between 0.8 and 2 whatever was
  observed, the learned rate is at least a fifth of the profile's, and scaling a part of the profile by it stays between the
  bounds, rounding included; lemmas on scaling keep products of two variables
  out of the solver's sight. Its premise `Sane` excludes the profiles whose figures saturate, and the
  proof needed it in full: that three thousand times the sum of the parts
  and the sum of the parts with both margins are machine words.
* **FramedConnectionProofs.** `ConnInv` follows one frame: bytes of one direction only
  are under way, they belong to the last request, and what the receiver holds
  followed by what is on the wire is the beginning of that frame, exactly as much
  as was sent while its end sends (`StreamOK`); an answer is under way only after
  its request was read whole and accepted (`AnsweringOK`). `InStep`, `OneSends` and
  `RefinesRequestReply` follow for every size of header, frame and transport and
  every way the stream is cut.

* **CodecProofs.** The three safety properties and `FailureFinal` for every
  structure, every shape and every width and bound. A run of the reader has no
  memory but its record, so `CodecInv` says where it must be: an undamaged
  buffer has been read up to the end of what the encoder wrote for the fields
  before the current one (`WholeRead`); on a cut one, either the reader has
  failed, or it is where it would be on the whole buffer (`CutRead`), and since
  it is never past the end of its buffer, that cannot be the end of the structure. The step is the lemma that each kind of
  field reads back what was written for it (`ItemBack`), and that on a cut
  buffer each read does the same or fails (`SameOrFailed`). An encoder and its
  decoder agree because their lists of fields do (`ListsAgree`). The loops over
  strings, fields and overrides are recursive functions on `0 .. n`. That the
  functions exist, and what they return at every position, is shown without the
  library's induction rules, by the least position at which a claim would fail:
  a claim is a set of positions (`UpTo`), not an operator.

**Only model-checked:** all liveness (`DeadIsFenced`, `RestartRegisters`, `Settles`,
`WaitEnds`), which with `ENABLED` is out of the prover's reach, and the runs that end in
a violation. No module has a RECURSIVE operator, which the prover could not
reason about; recursion is by functions over an interval.

## 5. What is not modelled

`ResourceAccount`, which the engine does not use; fairness counters that no
decision reads; the values of checksums; Winsock calls, addresses and the listening
socket; the CPU and CUDA backends, which are stateless queries; `ctl`, examples
and benchmarks, which only call what is modelled. Of the predictor: rounding of
doubles and the exponential behind a confidence (`Earned` is any increasing
table). Of persistence: two saves at once into the same temporary path, and a loss
of power (the code does not sync). Admissions made after the last save are lost in a
crash, and their generations are issued again; the model has it, no property is about it. Of the coordinator: teardown with detached
threads still running, two threads inside the engine at once, and torn reads; all
three are undefined behaviour.

## 6. What could come next

1. Two saves that share the temporary file; generations issued again after a
   crash, seen from clients that hold older ones.
2. The engine with the predictor in place of `Predictions`, for properties that
   relate what was observed to what is admitted.
3. A bound on the load across a recovery: `LoadState` puts all saved reservations
   back in one step, under the envelope saved with them, which may have shrunk
   since they were admitted; `NoOverclaim` is about one admission at a time and is
   not stated for `RecoverySpec`.
