------------------------------ MODULE Coordinator ------------------------------
(****************************************************************************)
(* The coordinator (coordinator.cpp), its capacity agents (agent.cpp) and   *)
(* the client connections that share one admission engine.                  *)
(*                                                                          *)
(* Every connection has a thread.  The map from agent identities to agent   *)
(* contexts is guarded by a mutex; the contexts' contents, the epoch and    *)
(* the engine are not.  A thread's step ends where another thread can see   *)
(* a difference: at the lock, at each access of the epoch, and between the  *)
(* calls an evaluation makes (choose_snapshot, set_snapshot, evaluate).     *)
(* One call of the engine, and the copy of one snapshot, are single steps.  *)
(*                                                                          *)
(* An agent waits for each answer before it sends its next message and      *)
(* quotes the epoch of its registration in all of them, so a message in     *)
(* flight is the handler's next step.  A frame that is refused or malformed *)
(* and a heartbeat change nothing.  Time stands still at Start.             *)
(****************************************************************************)
EXTENDS AdmissionEngine

CONSTANTS
  AgentId,     \* agent identities, in the order of the map
  Boot,        \* boot identities
  Conn,        \* agent connections; each is used once
  NoConn,      \* no context
  Client,      \* client connections
  Reports,     \* what a capacity update may carry: a snapshot and its headroom
  MaxReport,   \* bound on the snapshot generations
  Placement,   \* for each descriptor, its backend and dtype as capabilities
  Start        \* the time

ASSUME CoordinatorAssumption ==
  /\ AgentId \subseteq Nat /\ IsFiniteSet(AgentId)
  /\ NoConn \notin Conn /\ IsFiniteSet(Conn) /\ IsFiniteSet(Client)
  /\ \A r \in Reports : r.snapshot \in Snapshot /\ r.free \in Word
  /\ MaxReport \in Nat /\ Start \in Nat
  /\ DOMAIN Placement = Descriptors

VARIABLES
  epoch,      \* epoch_
  agents,     \* agents_
  contexts,   \* the AgentConn of every connection, and its handler's position
  clients     \* the position of every client thread in handle_client_frame

coordVars == <<epoch, agents, contexts, clients>>
allVars   == <<engineVars, coordVars>>

\* A snapshot that was never filled in: it has a time long past and no
\* dimension marked as unavailable.
DefaultSnapshot == [NoSnapshot EXCEPT !.present = TRUE]

\* What evaluate is given when no agent qualifies.
EmptySnapshot == [NoSnapshot EXCEPT !.present = TRUE, !.timestamp = Start, !.unavailable = TRUE]

NoReport == [snapshot |-> DefaultSnapshot, free |-> 0]

Phases == {"new", "registered", "serving", "fenced", "rolling", "closed"}

Context ==
  [phase : Phases, id : AgentId \cup {0}, boot : Boot \cup {0}, alive : BOOLEAN,
   generation : 0 .. MaxReport, report : Reports \cup {NoReport},
   quoted : 0 .. IdMax, seen : 0 .. IdMax]

NewContext ==
  [phase |-> "new", id |-> 0, boot |-> 0, alive |-> FALSE, generation |-> 0,
   report |-> NoReport, quoted |-> 0, seen |-> 0]

ClientSteps == {"idle", "chosen", "supplied"}

Idle(t) == clients[t].step = "idle"

-----------------------------------------------------------------------------
(* Agent connections *)

\* Only a dead context, or one of the same boot, is replaced.
MayRegister(a, b) ==
  agents[a] # NoConn /\ contexts[agents[a]].alive => contexts[agents[a]].boot = b

Register(c, a, b) ==
  /\ contexts[c].phase = "new"
  /\ MayRegister(a, b)
  /\ contexts' = [contexts EXCEPT ![c] = [NewContext EXCEPT !.phase = "registered", !.id = a,
                                                            !.boot = b, !.alive = TRUE]]
  /\ agents' = [agents EXCEPT ![a] = c]
  /\ UNCHANGED <<engineVars, epoch, clients>>

\* The agent keeps the epoch of its registration, and quotes it from then on.
LearnEpoch(context, e) == [context EXCEPT !.phase = "serving", !.quoted = e]

Quotes(c, e) == contexts[c].quoted = e

\* The answer carries the epoch of a moment after the lock was released.
Acknowledge(c) ==
  /\ contexts[c].phase = "registered"
  /\ contexts' = [contexts EXCEPT ![c] = LearnEpoch(@, epoch)]
  /\ UNCHANGED <<engineVars, epoch, agents, clients>>

\* The three checks of a capacity update.  An agent's own messages carry its
\* own identity and boot, so what is left are the epoch and the generation.
CapacityUpdate(c, report, g) ==
  /\ contexts[c].phase = "serving"
  /\ Quotes(c, epoch)
  /\ contexts[c].generation # 0 => g > contexts[c].generation
  /\ contexts' = [contexts EXCEPT ![c].report = report, ![c].generation = g]
  /\ UNCHANGED <<engineVars, epoch, agents, clients>>

\* Mutant: the loss is counted again for an agent that is already fenced.
LoseAgain(c) ==
  LET k == agents[contexts[c].id]
  IN /\ contexts[c].phase = "serving"
     /\ contexts' = [contexts EXCEPT ![k].alive = FALSE, ![c].phase = "fenced"]
     /\ UNCHANGED <<engineVars, epoch, agents, clients>>

\* Mutant: only a loss that finds its agent replaced fences it.
LoseOthers(c) ==
  LET k == agents[contexts[c].id]
  IN /\ contexts[c].phase = "serving"
     /\ contexts' = IF contexts[k].alive /\ k # c
                    THEN [contexts EXCEPT ![k].alive = FALSE, ![c].phase = "fenced"]
                    ELSE [contexts EXCEPT ![c].phase = "closed"]
     /\ UNCHANGED <<engineVars, epoch, agents, clients>>

\* The connection breaks.  The context that the map holds for the agent at
\* this moment is fenced, whichever connection it belongs to.
Lose(c) ==
  LET k == agents[contexts[c].id]
  IN /\ contexts[c].phase = "serving"
     /\ contexts' = IF contexts[k].alive
                    THEN [contexts EXCEPT ![k].alive = FALSE, ![c].phase = "fenced"]
                    ELSE [contexts EXCEPT ![c].phase = "closed"]
     /\ UNCHANGED <<engineVars, epoch, agents, clients>>

\* epoch_ = epoch_.next() is a read and a write, outside the lock.
ReadEpoch(c) ==
  /\ contexts[c].phase = "fenced"
  /\ contexts' = [contexts EXCEPT ![c].phase = "rolling", ![c].seen = epoch]
  /\ UNCHANGED <<engineVars, epoch, agents, clients>>

NextEpoch(e) == IF e = IdMax THEN e ELSE e + 1

\* Mutant: the epoch that the lost connection was told is rolled.
WriteEpochAfterQuoted(c) ==
  /\ contexts[c].phase = "rolling"
  /\ epoch' = NextEpoch(contexts[c].quoted)
  /\ contexts' = [contexts EXCEPT ![c].phase = "closed"]
  /\ UNCHANGED <<engineVars, agents, clients>>

WriteEpoch(c) ==
  /\ contexts[c].phase = "rolling"
  /\ epoch' = NextEpoch(contexts[c].seen)
  /\ contexts' = [contexts EXCEPT ![c].phase = "closed"]
  /\ UNCHANGED <<engineVars, agents, clients>>

-----------------------------------------------------------------------------
(* Client connections *)

Offered == {agents[a] : a \in {b \in AgentId : agents[b] # NoConn /\ contexts[agents[b]].alive}}

\* The live agents whose last report has the backend and the dtype.
Eligible(d) == {c \in Offered : Placement[d] \subseteq contexts[c].report.snapshot.capabilities}

\* The most free accelerator memory wins; among equals, the first of the map.
Preferred(S) ==
  IF S = {} THEN NoConn
  ELSE CHOOSE c \in S :
         \A o \in S \ {c} :
           \/ contexts[o].report.free < contexts[c].report.free
           \/ contexts[o].report.free = contexts[c].report.free /\ contexts[c].id < contexts[o].id

Busy == {t \in Client : ~Idle(t)}

ChooseSnapshot(t, d) ==
  /\ Idle(t)
  /\ metrics.evaluations + Cardinality(Busy) < MaxEvaluations
  /\ clients' = [clients EXCEPT ![t] = [step |-> "chosen", request |-> d,
                                        choice |-> Preferred(Eligible(d))]]
  /\ UNCHANGED <<engineVars, epoch, agents, contexts>>

\* A context that was replaced in the map lives as long as its handler.
Freed(c) == contexts[c].phase = "closed" /\ agents[contexts[c].id] # c

\* The chosen context is read after the lock was released; one that has been
\* freed by then may hold anything.
SupplySnapshot(t) ==
  /\ clients[t].step = "chosen"
  /\ \E s \in IF clients[t].choice = NoConn THEN {EmptySnapshot}
              ELSE IF Freed(clients[t].choice) THEN {r.snapshot : r \in Reports \cup {NoReport}}
              ELSE {contexts[clients[t].choice].report.snapshot} : SetSnapshot(s)
  /\ clients' = [clients EXCEPT ![t].step = "supplied"]
  /\ UNCHANGED <<epoch, agents, contexts>>

EvaluateFrame(t) ==
  /\ clients[t].step = "supplied"
  /\ Evaluate(clients[t].request)
  /\ clients' = [clients EXCEPT ![t].step = "idle", ![t].choice = NoConn]
  /\ UNCHANGED <<epoch, agents, contexts>>

CommitFrame(t, q, g) ==
  /\ Idle(t)
  /\ CommitAdmission(q, g) \/ CommitAdmissionTooLate(q, g)
  /\ UNCHANGED coordVars

ReleaseFrame(t, r) ==
  /\ Idle(t)
  /\ ReleaseReservation(r)
  /\ UNCHANGED coordVars

-----------------------------------------------------------------------------
\* main() installs a policy before it starts to listen.
CoordInit ==
  /\ total = Zero /\ reserved_sum = Zero /\ used_sum = Zero
  /\ reservations = [r \in ReservationId |-> NoReservation]
  /\ generation = 1 /\ now = Start
  /\ \E p \in Policies :
       /\ policies = [g \in PolicyGen |-> IF g = 1 THEN p ELSE NoPolicy]
       /\ mode = p.overcommit /\ allowance = AllowanceOf(p)
  /\ latest = 1 /\ policy_counter = IF IdMax = 1 THEN 1 ELSE 2
  /\ snapshot = NoSnapshot /\ quota = NoQuota
  /\ requests = [q \in RequestId |-> NoRequest]
  /\ admission_generation = 1 /\ reservation_counter = 1
  /\ metrics = [evaluations |-> 0, admissions |-> 0, deferrals |-> 0, rejections |-> 0,
                active_reservations |-> 0]
  /\ last_admit = [t \in Tenant |-> Never]
  /\ epoch = 1
  /\ agents = [a \in AgentId |-> NoConn]
  /\ contexts = [c \in Conn |-> NewContext]
  /\ \E d \in Descriptors :
       clients = [t \in Client |-> [step |-> "idle", request |-> d, choice |-> NoConn]]

CoordNext ==
  \/ \E c \in Conn, a \in AgentId, b \in Boot : Register(c, a, b)
  \/ \E c \in Conn : Acknowledge(c)
  \/ \E c \in Conn, r \in Reports, g \in 1 .. MaxReport : CapacityUpdate(c, r, g)
  \/ \E c \in Conn : Lose(c)
  \/ \E c \in Conn : ReadEpoch(c)
  \/ \E c \in Conn : WriteEpoch(c)
  \/ \E t \in Client, d \in Descriptors : ChooseSnapshot(t, d)
  \/ \E t \in Client : SupplySnapshot(t)
  \/ \E t \in Client : EvaluateFrame(t)
  \/ \E t \in Client, q \in RequestId, g \in 0 .. IdMax : CommitFrame(t, q, g)
  \/ \E t \in Client, r \in ReservationId : ReleaseFrame(t, r)

CoordSpec == CoordInit /\ [][CoordNext]_allVars

-----------------------------------------------------------------------------
(* Properties *)

\* The coordinator's variables have their types, and the map holds every
\* context under the identity it registered with.
CoordTypeOK ==
  /\ epoch \in 1 .. IdMax
  /\ agents \in [AgentId -> Conn \cup {NoConn}]
  /\ contexts \in [Conn -> Context]
  /\ clients \in [Client -> [step : ClientSteps, request : Descriptors,
                             choice : Conn \cup {NoConn}]]
  /\ \A a \in AgentId :
       agents[a] # NoConn => contexts[agents[a]].id = a /\ contexts[agents[a]].phase # "new"

\* The capacity of a dead connection is never on offer: from the moment its
\* loss was handled, the context of a connection is not a live entry of the
\* map, whatever registers or breaks in between.
DeadNotOffered ==
  \A c \in Conn : contexts[c].phase \in {"fenced", "rolling", "closed"} => c \notin Offered

\* Every roll of the epoch belongs to one loss: the epoch, which invalidates
\* every other agent's authority as well, is never above one plus the number
\* of contexts that have been fenced.
EpochCountsLosses ==
  epoch <= 1 + Cardinality({c \in Conn : contexts[c].phase # "new" /\ ~contexts[c].alive})

\* Two losses have read the same epoch: one of their rolls is lost, and the
\* epoch may go back when the later one is written.
Collided ==
  \E c, o \in Conn : c # o /\ contexts[c].seen # 0 /\ contexts[c].seen = contexts[o].seen

\* Pre-loss authority is invalidated (the comment in on_agent_loss), as long as
\* no two losses read the same epoch: whoever has a report accepted was told an
\* epoch later than the one that any loss handled so far has rolled.  No
\* replaced, fenced or merely older connection has one accepted, and a roll is
\* neither lost nor undone.  (Until the 64-bit epoch saturates.)
AuthorityLapses ==
  [][\A c, o \in Conn :
       /\ contexts'[c].generation > contexts[c].generation
       /\ contexts[o].phase = "closed" /\ contexts[o].seen \in 1 .. IdMax - 1
       /\ ~Collided
       => contexts[o].seen < contexts[c].quoted]_allVars

\* Requests are evaluated against live agents, and the capacity of an agent is
\* fenced when it dies: an admission is granted on what some connection that
\* is not fenced has last reported.
AdmitsOnLiveCapacity ==
  [][\A t \in Client :
       EvaluateFrame(t) /\ metrics'.admissions > metrics.admissions =>
         \E c \in Conn : contexts[c].alive /\ snapshot = contexts[c].report.snapshot]_allVars
================================================================================
