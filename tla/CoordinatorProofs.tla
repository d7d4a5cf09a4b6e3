--------------------------- MODULE CoordinatorProofs ---------------------------
(****************************************************************************)
(* Proofs about Coordinator, for every number of agents, connections and    *)
(* clients, and every word size.                                            *)
(*                                                                          *)
(* The map and the contexts are what the agents' threads change; the        *)
(* clients' threads only read them.  ClientStep gathers the latter, so each *)
(* invariant about agents is shown for six actions and one kind of step.    *)
(****************************************************************************)
EXTENDS Coordinator, AdmissionEngineProofs, WellFoundedInduction

\* The map holds every context under the identity it registered with.
MapOK ==
  \A a \in AgentId :
    agents[a] # NoConn => contexts[agents[a]].id = a /\ contexts[agents[a]].phase # "new"

\* A context past its registration has an identity the map knows.
Mapped ==
  \A c \in Conn :
    contexts[c].phase # "new" => contexts[c].id \in AgentId /\ agents[contexts[c].id] # NoConn

\* What is known of the agents' side of the state.
AgentsOK ==
  /\ epoch \in 1 .. IdMax
  /\ agents \in [AgentId -> Conn \cup {NoConn}]
  /\ contexts \in [Conn -> Context]
  /\ MapOK
  /\ Mapped

\* A step of a client's thread.
ClientStep == UNCHANGED <<epoch, agents, contexts>>

\* Every step, by what it does to the agents' side.
LEMMA CoordCases ==
  ASSUME [CoordNext]_allVars
  PROVE  \/ \E c \in Conn, a \in AgentId, b \in Boot : Register(c, a, b)
         \/ \E c \in Conn : Acknowledge(c)
         \/ \E c \in Conn, r \in Reports, g \in 1 .. MaxReport : CapacityUpdate(c, r, g)
         \/ \E c \in Conn : Lose(c)
         \/ \E c \in Conn : ReadEpoch(c)
         \/ \E c \in Conn : WriteEpoch(c)
         \/ ClientStep
BY DEF CoordNext, allVars, coordVars, ClientStep, ChooseSnapshot, SupplySnapshot, EvaluateFrame,
       CommitFrame, ReleaseFrame

-----------------------------------------------------------------------------
(* Types, and the map *)

LEMMA NewContextType ==
  /\ NewContext \in Context
  /\ \A a \in AgentId, b \in Boot :
       [NewContext EXCEPT !.phase = "registered", !.id = a, !.boot = b, !.alive = TRUE] \in Context
<1>1. /\ 0 \in 0 .. MaxReport /\ 0 \in 0 .. IdMax
      /\ 0 \in AgentId \cup {0} /\ 0 \in Boot \cup {0}
      /\ NoReport \in Reports \cup {NoReport}
      /\ "new" \in Phases /\ "registered" \in Phases
  BY CoordinatorAssumption, PolicyAssumption DEF Phases
<1> QED BY <1>1 DEF NewContext, Context

\* The steps that change one context, and neither its identity nor the map.
LEMMA ContextChange ==
  ASSUME AgentsOK, NEW c \in Conn, NEW x \in Context,
         contexts' = [contexts EXCEPT ![c] = x], x.id = contexts[c].id,
         (x.phase = "new") = (contexts[c].phase = "new"),
         UNCHANGED agents, epoch' \in 1 .. IdMax
  PROVE  AgentsOK'
<1>1. contexts' \in [Conn -> Context]
  BY DEF AgentsOK
<1>2. \A d \in Conn : /\ contexts'[d].id = contexts[d].id
                      /\ (contexts'[d].phase = "new") = (contexts[d].phase = "new")
  BY DEF AgentsOK
<1>3. MapOK'
  BY <1>2, CoordinatorAssumption DEF AgentsOK, MapOK
<1>4. Mapped'
  BY <1>2 DEF AgentsOK, Mapped
<1> QED BY <1>1, <1>3, <1>4 DEF AgentsOK

LEMMA RegisterAgents ==
  ASSUME AgentsOK, NEW c \in Conn, NEW a \in AgentId, NEW b \in Boot, Register(c, a, b)
  PROVE  AgentsOK'
<1> DEFINE x == [NewContext EXCEPT !.phase = "registered", !.id = a, !.boot = b, !.alive = TRUE]
<1>1. x \in Context /\ x.id = a /\ x.phase = "registered"
  BY NewContextType DEF NewContext
<1>2. contexts' = [contexts EXCEPT ![c] = x] /\ agents' = [agents EXCEPT ![a] = c]
  BY DEF Register
<1> HIDE DEF x
<1>3. contexts' \in [Conn -> Context] /\ agents' \in [AgentId -> Conn \cup {NoConn}]
  BY <1>1, <1>2 DEF AgentsOK
<1>4. MapOK'
  <2> SUFFICES ASSUME NEW e \in AgentId, agents'[e] # NoConn
               PROVE  contexts'[agents'[e]].id = e /\ contexts'[agents'[e]].phase # "new"
    BY DEF MapOK
  <2>1. CASE e = a
    BY <1>1, <1>2, <2>1 DEF AgentsOK
  <2>2. CASE e # a
    <3>1. agents'[e] = agents[e] /\ agents[e] \in Conn
      BY <1>2, <2>2 DEF AgentsOK
    <3>2. contexts[agents[e]].id = e /\ contexts[agents[e]].phase # "new"
      BY <3>1 DEF AgentsOK, MapOK
    <3>3. agents[e] # c
      BY <3>2 DEF Register
    <3> QED BY <1>2, <3>1, <3>2, <3>3 DEF AgentsOK
  <2> QED BY <2>1, <2>2
<1>5. Mapped'
  <2> SUFFICES ASSUME NEW d \in Conn, contexts'[d].phase # "new"
               PROVE  contexts'[d].id \in AgentId /\ agents'[contexts'[d].id] # NoConn
    BY DEF Mapped
  <2>1. CASE d = c
    BY <1>1, <1>2, <2>1, CoordinatorAssumption DEF AgentsOK
  <2>2. CASE d # c
    BY <1>2, <2>2, CoordinatorAssumption DEF AgentsOK, Mapped
  <2> QED BY <2>1, <2>2
<1> QED BY <1>3, <1>4, <1>5 DEF AgentsOK, Register

\* The context that a loss finds in the map.
LEMMA LossFinds ==
  ASSUME AgentsOK, NEW c \in Conn, contexts[c].phase = "serving"
  PROVE  /\ contexts[c].id \in AgentId
         /\ agents[contexts[c].id] \in Conn
         /\ contexts[agents[contexts[c].id]].phase # "new"
         /\ contexts[agents[contexts[c].id]].id = contexts[c].id
<1>1. contexts[c].id \in AgentId /\ agents[contexts[c].id] # NoConn
  BY DEF AgentsOK, Mapped
<1>2. agents[contexts[c].id] \in Conn
  BY <1>1 DEF AgentsOK
<1> QED BY <1>1, <1>2 DEF AgentsOK, MapOK

\* What a loss does to the contexts, one field at a time.
LEMMA LoseEffect ==
  ASSUME AgentsOK, NEW c \in Conn, Lose(c)
  PROVE  LET k == agents[contexts[c].id]
         IN /\ contexts' \in [Conn -> Context]
            /\ UNCHANGED <<agents, epoch>>
            /\ contexts[c].phase = "serving"
            /\ k \in Conn
            /\ ~contexts'[k].alive
            /\ contexts'[c].phase = IF contexts[k].alive THEN "fenced" ELSE "closed"
            /\ \A d \in Conn \ {c} : contexts'[d].phase = contexts[d].phase
            /\ \A d \in Conn \ {k} : contexts'[d].alive = contexts[d].alive
            /\ \A d \in Conn : /\ contexts'[d].id = contexts[d].id
                               /\ contexts'[d].seen = contexts[d].seen
<1> DEFINE k == agents[contexts[c].id]
<1>1. k \in Conn /\ contexts[c].phase = "serving" /\ contexts \in [Conn -> Context]
  BY LossFinds DEF Lose, AgentsOK
<1>2. UNCHANGED <<agents, epoch>>
  BY DEF Lose
<1>3. CASE contexts[k].alive
  <2>1. contexts' = [contexts EXCEPT ![k].alive = FALSE, ![c].phase = "fenced"]
    BY <1>3 DEF Lose
  <2> HIDE DEF k
  <2>2. ASSUME NEW d \in Conn
        PROVE  /\ contexts'[d] \in Context
               /\ contexts'[d].alive = IF d = k THEN FALSE ELSE contexts[d].alive
               /\ contexts'[d].phase = IF d = c THEN "fenced" ELSE contexts[d].phase
               /\ contexts'[d].id = contexts[d].id
               /\ contexts'[d].seen = contexts[d].seen
    <3>1. contexts[d] \in Context
      BY <1>1
    <3>2. CASE d = k /\ d = c
      <4>1. contexts'[d] = [contexts[d] EXCEPT !.alive = FALSE, !.phase = "fenced"]
        BY <1>1, <2>1, <3>1, <3>2 DEF Context
      <4> QED BY <3>1, <3>2, <4>1 DEF Context, Phases
    <3>3. CASE d = k /\ d # c
      <4>1. contexts'[d] = [contexts[d] EXCEPT !.alive = FALSE]
        BY <1>1, <2>1, <3>1, <3>3 DEF Context
      <4> QED BY <3>1, <3>3, <4>1 DEF Context, Phases
    <3>4. CASE d # k /\ d = c
      <4>1. contexts'[d] = [contexts[d] EXCEPT !.phase = "fenced"]
        BY <1>1, <2>1, <3>1, <3>4 DEF Context
      <4> QED BY <3>1, <3>4, <4>1 DEF Context, Phases
    <3>5. CASE d # k /\ d # c
      BY <1>1, <2>1, <3>1, <3>5
    <3> QED BY <3>2, <3>3, <3>4, <3>5
  <2>3. contexts' \in [Conn -> Context]
    BY <1>1, <2>1, <2>2
  <2> QED BY <1>1, <1>2, <1>3, <2>2, <2>3 DEF k
<1>4. CASE ~contexts[k].alive
  <2>1. contexts' = [contexts EXCEPT ![c].phase = "closed"]
    BY <1>4 DEF Lose
  <2> HIDE DEF k
  <2> QED BY <1>1, <1>2, <1>4, <2>1 DEF Context, Phases, k
<1> QED BY <1>3, <1>4

LEMMA LoseAgents ==
  ASSUME AgentsOK, NEW c \in Conn, Lose(c)
  PROVE  AgentsOK'
<1>1. \A d \in Conn : /\ contexts'[d].id = contexts[d].id
                      /\ (contexts'[d].phase = "new") = (contexts[d].phase = "new")
  BY LoseEffect
<1>2. MapOK'
  BY <1>1, LoseEffect, CoordinatorAssumption DEF AgentsOK, MapOK
<1>3. Mapped'
  BY <1>1, LoseEffect DEF AgentsOK, Mapped
<1> QED BY <1>2, <1>3, LoseEffect DEF AgentsOK

\* Every step keeps the map and the contexts in order.
LEMMA AgentsStep ==
  ASSUME AgentsOK, [CoordNext]_allVars
  PROVE  AgentsOK'
<1>0. epoch \in 0 .. IdMax /\ \A g \in 1 .. MaxReport : g \in 0 .. MaxReport
  BY PolicyAssumption, CoordinatorAssumption DEF AgentsOK
<1>1. ASSUME NEW c \in Conn, Acknowledge(c) PROVE AgentsOK'
  <2> DEFINE x == LearnEpoch(contexts[c], epoch)
  <2>1. x \in Context /\ x.id = contexts[c].id /\ x.phase # "new" /\ contexts[c].phase # "new"
    BY <1>1, <1>0 DEF Acknowledge, LearnEpoch, AgentsOK, Context, Phases
  <2> QED BY <1>1, <2>1, ContextChange DEF Acknowledge, AgentsOK
<1>2. ASSUME NEW c \in Conn, NEW r \in Reports, NEW g \in 1 .. MaxReport, CapacityUpdate(c, r, g)
      PROVE  AgentsOK'
  <2> DEFINE x == [contexts[c] EXCEPT !.report = r, !.generation = g]
  <2>1. x \in Context /\ x.id = contexts[c].id /\ x.phase = contexts[c].phase
    BY <1>2, <1>0 DEF AgentsOK, Context
  <2>2. contexts' = [contexts EXCEPT ![c] = x]
    BY <1>2 DEF CapacityUpdate, AgentsOK
  <2> QED BY <1>2, <2>1, <2>2, ContextChange DEF CapacityUpdate, AgentsOK
<1>3. ASSUME NEW c \in Conn, ReadEpoch(c) PROVE AgentsOK'
  <2> DEFINE x == [contexts[c] EXCEPT !.phase = "rolling", !.seen = epoch]
  <2>1. x \in Context /\ x.id = contexts[c].id /\ x.phase # "new" /\ contexts[c].phase # "new"
    BY <1>3, <1>0 DEF ReadEpoch, AgentsOK, Context, Phases
  <2>2. contexts' = [contexts EXCEPT ![c] = x]
    BY <1>3 DEF ReadEpoch, AgentsOK
  <2> QED BY <1>3, <2>1, <2>2, ContextChange DEF ReadEpoch, AgentsOK
<1>4. ASSUME NEW c \in Conn, WriteEpoch(c) PROVE AgentsOK'
  <2> DEFINE x == [contexts[c] EXCEPT !.phase = "closed"]
  <2>1. x \in Context /\ x.id = contexts[c].id /\ x.phase # "new" /\ contexts[c].phase # "new"
    BY <1>4 DEF WriteEpoch, AgentsOK, Context, Phases
  <2>2. contexts' = [contexts EXCEPT ![c] = x]
    BY <1>4 DEF WriteEpoch, AgentsOK
  <2>3. epoch' \in 1 .. IdMax
    BY <1>4, PolicyAssumption DEF WriteEpoch, NextEpoch, AgentsOK, Context
  <2> QED BY <1>4, <2>1, <2>2, <2>3, ContextChange DEF WriteEpoch
<1>5. CASE ClientStep
  BY <1>5 DEF ClientStep, AgentsOK, MapOK, Mapped
<1> QED BY <1>1, <1>2, <1>3, <1>4, <1>5, RegisterAgents, LoseAgents, CoordCases

LEMMA AgentsInit == CoordInit => AgentsOK
<1>1. NewContext \in Context
  BY NewContextType
<1>2. NewContext.phase = "new"
  BY DEF NewContext
<1> SUFFICES ASSUME CoordInit PROVE AgentsOK
  OBVIOUS
<1>3. /\ epoch = 1 /\ agents = [a \in AgentId |-> NoConn]
      /\ contexts = [c \in Conn |-> NewContext]
  BY DEF CoordInit
<1> QED BY <1>1, <1>2, <1>3, PolicyAssumption DEF AgentsOK, MapOK, Mapped

LEMMA AgentsInvariant == CoordSpec => []AgentsOK
BY AgentsInit, AgentsStep, PTL DEF CoordSpec

-----------------------------------------------------------------------------
(* What the map offers *)

\* A connection on offer is the one the map holds for its identity, alive.
LEMMA OfferedFacts ==
  ASSUME AgentsOK, NEW c \in Conn
  PROVE  c \in Offered <=> /\ contexts[c].id \in AgentId /\ agents[contexts[c].id] = c
                          /\ contexts[c].alive
<1>1. ASSUME c \in Offered
      PROVE  contexts[c].id \in AgentId /\ agents[contexts[c].id] = c /\ contexts[c].alive
  <2>1. PICK a \in AgentId : agents[a] = c /\ contexts[c].alive /\ agents[a] # NoConn
    BY <1>1 DEF Offered
  <2> QED BY <2>1 DEF AgentsOK, MapOK
<1>2. ASSUME contexts[c].id \in AgentId, agents[contexts[c].id] = c, contexts[c].alive
      PROVE  c \in Offered
  BY <1>2, CoordinatorAssumption DEF Offered
<1> QED BY <1>1, <1>2

LEMMA OfferedFactsNext ==
  ASSUME AgentsOK', NEW c \in Conn
  PROVE  c \in Offered' <=> /\ contexts'[c].id \in AgentId /\ agents'[contexts'[c].id] = c
                           /\ contexts'[c].alive
<1>1. ASSUME c \in Offered'
      PROVE  contexts'[c].id \in AgentId /\ agents'[contexts'[c].id] = c /\ contexts'[c].alive
  <2>1. PICK a \in AgentId : agents'[a] = c /\ contexts'[c].alive /\ agents'[a] # NoConn
    BY <1>1 DEF Offered
  <2> QED BY <2>1 DEF AgentsOK, MapOK
<1>2. ASSUME contexts'[c].id \in AgentId, agents'[contexts'[c].id] = c, contexts'[c].alive
      PROVE  c \in Offered'
  BY <1>2, CoordinatorAssumption DEF Offered
<1> QED BY <1>1, <1>2

\* A loss takes its own context off the offer: either the map holds it, and it
\* is fenced, or the map holds another one for the identity.
LEMMA DeadStep ==
  ASSUME AgentsOK, AgentsOK', DeadNotOffered, [CoordNext]_allVars
  PROVE  DeadNotOffered'
<1> SUFFICES ASSUME NEW d \in Conn, contexts'[d].phase \in {"fenced", "rolling", "closed"},
                    d \in Offered'
             PROVE  FALSE
  BY DEF DeadNotOffered
<1> USE DEF AgentsOK
<1>1. contexts'[d].id \in AgentId /\ agents'[contexts'[d].id] = d /\ contexts'[d].alive
  BY OfferedFactsNext
<1>2. contexts[d].phase \in {"fenced", "rolling", "closed"} =>
        ~(contexts[d].id \in AgentId /\ agents[contexts[d].id] = d /\ contexts[d].alive)
  BY OfferedFacts DEF DeadNotOffered
<1>3. ASSUME NEW c \in Conn, NEW a \in AgentId, NEW b \in Boot, Register(c, a, b) PROVE FALSE
  <2>1. contexts'[c].phase = "registered" /\ contexts[c].phase = "new"
    BY <1>3 DEF Register, NewContext
  <2>2. d # c /\ contexts'[d] = contexts[d]
    BY <1>3, <2>1 DEF Register
  <2>3. agents[contexts[d].id] = d
    BY <1>1, <1>3, <2>2 DEF Register
  <2> QED BY <1>1, <1>2, <2>2, <2>3
<1>4. ASSUME NEW c \in Conn, Acknowledge(c) PROVE FALSE
  BY <1>1, <1>2, <1>4 DEF Acknowledge, LearnEpoch, Context
<1>5. ASSUME NEW c \in Conn, NEW r \in Reports, NEW g \in 1 .. MaxReport, CapacityUpdate(c, r, g)
      PROVE  FALSE
  BY <1>1, <1>2, <1>5 DEF CapacityUpdate, Context
<1>6. ASSUME NEW c \in Conn, Lose(c) PROVE FALSE
  <2>1. contexts'[d].id = contexts[d].id /\ UNCHANGED agents
    BY <1>6, LoseEffect
  <2>2. d # agents[contexts[c].id]
    BY <1>1, <1>6, LoseEffect
  <2>3. d # c
    BY <1>1, <2>1, <2>2
  <2>4. contexts'[d].phase = contexts[d].phase /\ contexts'[d].alive = contexts[d].alive
    BY <1>6, <2>2, <2>3, LoseEffect
  <2> QED BY <1>1, <1>2, <2>1, <2>4
<1>7. ASSUME NEW c \in Conn, ReadEpoch(c) PROVE FALSE
  BY <1>1, <1>2, <1>7 DEF ReadEpoch, Context
<1>8. ASSUME NEW c \in Conn, WriteEpoch(c) PROVE FALSE
  BY <1>1, <1>2, <1>8 DEF WriteEpoch, Context
<1>9. CASE ClientStep
  BY <1>1, <1>2, <1>9 DEF ClientStep
<1> QED BY <1>3, <1>4, <1>5, <1>6, <1>7, <1>8, <1>9, CoordCases

\* The capacity of a connection whose loss was handled is never on offer,
\* although the loss goes by the identity and the map may have moved on.
THEOREM DeadNotOfferedHolds == CoordSpec => []DeadNotOffered
<1>1. CoordInit => DeadNotOffered
  BY DEF CoordInit, DeadNotOffered, Offered, NewContext
<1> QED BY <1>1, DeadStep, AgentsInvariant, PTL DEF CoordSpec

-----------------------------------------------------------------------------
(* The epoch and the losses *)

\* The contexts that have been fenced, and the threads that fenced one and have
\* not rolled the epoch yet.
Dead    == {c \in Conn : contexts[c].phase # "new" /\ ~contexts[c].alive}
Pending == {c \in Conn : contexts[c].phase \in {"fenced", "rolling"}}

\* What the threads have rolled so far bounds the epoch, and the value that a
\* thread in the middle of its roll has read.
RollsOK ==
  /\ epoch + Cardinality(Pending) <= 1 + Cardinality(Dead)
  /\ \A c \in Conn :
       contexts[c].phase = "rolling" =>
         contexts[c].seen + Cardinality(Pending) <= 1 + Cardinality(Dead)

LEMMA RollSets ==
  /\ IsFiniteSet(Dead) /\ Cardinality(Dead) \in Nat
  /\ IsFiniteSet(Pending) /\ Cardinality(Pending) \in Nat
BY CoordinatorAssumption, FS_Subset, FS_CardinalityType DEF Dead, Pending

\* A loss that fences adds one to each set, and one that finds its agent
\* fenced already adds to neither.
LEMMA LoseSets ==
  ASSUME AgentsOK, NEW c \in Conn, Lose(c)
  PROVE  Cardinality(Dead') - Cardinality(Pending') = Cardinality(Dead) - Cardinality(Pending)
<1> DEFINE k == agents[contexts[c].id]
<1>1. k \in Conn /\ contexts[k].phase # "new" /\ contexts[c].phase = "serving"
  BY LossFinds, LoseEffect
<1>2. CASE contexts[k].alive
  <2>1. Dead' = Dead \cup {k} /\ k \notin Dead
    BY <1>1, <1>2, LoseEffect DEF Dead
  <2>2. Pending' = Pending \cup {c} /\ c \notin Pending
    BY <1>1, <1>2, LoseEffect DEF Pending
  <2>3. Cardinality(Dead') = Cardinality(Dead) + 1
    BY <2>1, RollSets, FS_AddElement
  <2>4. Cardinality(Pending') = Cardinality(Pending) + 1
    BY <2>2, RollSets, FS_AddElement
  <2> QED BY <2>3, <2>4, RollSets
<1>3. CASE ~contexts[k].alive
  <2>1. Dead' = Dead
    BY <1>1, <1>3, LoseEffect DEF Dead
  <2>2. Pending' = Pending
    BY <1>1, <1>3, LoseEffect DEF Pending
  <2> QED BY <2>1, <2>2
<1> QED BY <1>2, <1>3

LEMMA RollsStep ==
  ASSUME AgentsOK, AgentsOK', RollsOK, [CoordNext]_allVars
  PROVE  RollsOK'
<1> USE DEF AgentsOK
<1>0. /\ epoch \in Nat /\ epoch' \in Nat
      /\ \A c \in Conn : contexts[c].seen \in Nat /\ contexts'[c].seen \in Nat
  BY PolicyAssumption DEF Context
<1>1. ASSUME Dead' = Dead, Pending' = Pending, epoch' = epoch,
             \A c \in Conn : contexts'[c].phase = "rolling" =>
                             contexts[c].phase = "rolling" /\ contexts'[c].seen = contexts[c].seen
      PROVE  RollsOK'
  BY <1>1 DEF RollsOK
<1>2. ASSUME NEW c \in Conn, NEW a \in AgentId, NEW b \in Boot, Register(c, a, b) PROVE RollsOK'
  <2>1. contexts'[c].phase = "registered" /\ contexts'[c].alive /\ contexts[c].phase = "new"
    BY <1>2 DEF Register, NewContext
  <2>2. \A d \in Conn \ {c} : contexts'[d] = contexts[d]
    BY <1>2 DEF Register
  <2> QED BY <1>1, <1>2, <2>1, <2>2 DEF Register, Dead, Pending
<1>3. ASSUME NEW c \in Conn, Acknowledge(c) PROVE RollsOK'
  <2>1. /\ contexts'[c].phase = "serving" /\ contexts'[c].alive = contexts[c].alive
        /\ contexts[c].phase = "registered"
    BY <1>3 DEF Acknowledge, LearnEpoch, Context
  <2>2. \A d \in Conn \ {c} : contexts'[d] = contexts[d]
    BY <1>3 DEF Acknowledge
  <2> QED BY <1>1, <1>3, <2>1, <2>2 DEF Acknowledge, Dead, Pending
<1>4. ASSUME NEW c \in Conn, NEW r \in Reports, NEW g \in 1 .. MaxReport, CapacityUpdate(c, r, g)
      PROVE  RollsOK'
  <2>1. \A d \in Conn : /\ contexts'[d].phase = contexts[d].phase
                        /\ contexts'[d].alive = contexts[d].alive
                        /\ contexts'[d].seen = contexts[d].seen
    BY <1>4 DEF CapacityUpdate, Context
  <2> QED BY <1>1, <1>4, <2>1 DEF CapacityUpdate, Dead, Pending
<1>5. ASSUME NEW c \in Conn, Lose(c) PROVE RollsOK'
  <2>1. epoch' = epoch
    BY <1>5, LoseEffect
  <2>2. \A d \in Conn : contexts'[d].phase = "rolling" =>
                         contexts[d].phase = "rolling" /\ contexts'[d].seen = contexts[d].seen
    BY <1>5, LoseEffect
  <2>3. Cardinality(Dead') \in Nat /\ Cardinality(Pending') \in Nat
    BY CoordinatorAssumption, FS_Subset, FS_CardinalityType DEF Dead, Pending
  <2> QED BY <1>0, <1>5, <2>1, <2>2, <2>3, LoseSets, RollSets DEF RollsOK
<1>6. ASSUME NEW c \in Conn, ReadEpoch(c) PROVE RollsOK'
  <2>1. /\ contexts'[c].phase = "rolling" /\ contexts'[c].alive = contexts[c].alive
        /\ contexts[c].phase = "fenced" /\ contexts'[c].seen = epoch
    BY <1>6 DEF ReadEpoch, Context
  <2>2. \A d \in Conn \ {c} : contexts'[d] = contexts[d]
    BY <1>6 DEF ReadEpoch
  <2>3. Dead' = Dead /\ Pending' = Pending
    BY <2>1, <2>2 DEF Dead, Pending
  <2>4. epoch' = epoch
    BY <1>6 DEF ReadEpoch
  <2> QED BY <2>1, <2>2, <2>3, <2>4 DEF RollsOK
<1>7. ASSUME NEW c \in Conn, WriteEpoch(c) PROVE RollsOK'
  <2>1. /\ contexts'[c].phase = "closed" /\ contexts'[c].alive = contexts[c].alive
        /\ contexts[c].phase = "rolling"
    BY <1>7 DEF WriteEpoch, Context
  <2>2. \A d \in Conn \ {c} : contexts'[d] = contexts[d]
    BY <1>7 DEF WriteEpoch
  <2>3. Dead' = Dead /\ Pending' = Pending \ {c} /\ c \in Pending
    BY <2>1, <2>2 DEF Dead, Pending
  <2>4. Cardinality(Pending') = Cardinality(Pending) - 1
    BY <2>3, RollSets, FS_RemoveElement
  <2>5. epoch' <= contexts[c].seen + 1
    BY <1>0, <1>7 DEF WriteEpoch, NextEpoch
  <2>6. contexts[c].seen + Cardinality(Pending) <= 1 + Cardinality(Dead)
    BY <2>1 DEF RollsOK
  <2>7. epoch' + Cardinality(Pending') <= 1 + Cardinality(Dead')
    BY <1>0, <2>3, <2>4, <2>5, <2>6, RollSets
  <2>8. ASSUME NEW d \in Conn, contexts'[d].phase = "rolling"
        PROVE  contexts'[d].seen + Cardinality(Pending') <= 1 + Cardinality(Dead')
    <3>1. contexts'[d] = contexts[d]
      BY <2>1, <2>2, <2>8
    <3> QED BY <1>0, <2>3, <2>4, <2>8, <3>1, RollSets DEF RollsOK
  <2> QED BY <2>7, <2>8 DEF RollsOK
<1>8. CASE ClientStep
  BY <1>1, <1>8 DEF ClientStep, Dead, Pending
<1> QED BY <1>2, <1>3, <1>4, <1>5, <1>6, <1>7, <1>8, CoordCases

LEMMA RollsInit == CoordInit => RollsOK
<1> SUFFICES ASSUME CoordInit PROVE RollsOK
  OBVIOUS
<1>1. Pending = {} /\ Dead = {} /\ epoch = 1 /\ \A c \in Conn : contexts[c].phase # "rolling"
  BY DEF CoordInit, NewContext, Pending, Dead
<1> QED BY <1>1, FS_EmptySet DEF RollsOK

\* The epoch, which takes every other agent's authority away as well, rolls at
\* most once for every context that was fenced, however the reads and writes of
\* the rolls interleave.
THEOREM EpochCountsLossesHolds == CoordSpec => []EpochCountsLosses
<1>1. AgentsOK /\ RollsOK => EpochCountsLosses
  BY RollSets, PolicyAssumption DEF AgentsOK, RollsOK, EpochCountsLosses, Dead
<1> QED BY <1>1, RollsInit, RollsStep, AgentsInvariant, PTL DEF CoordSpec

\* As long as no two losses have read the same epoch, the thread in the middle
\* of its roll has read the epoch of now, and the rolls that are done have read
\* earlier ones.
SerialRolls ==
  /\ \A c \in Conn : contexts[c].phase \notin {"rolling", "closed"} => contexts[c].seen = 0
  /\ \A c \in Conn : contexts[c].phase = "rolling" => contexts[c].seen # 0
  /\ ~Collided =>
       \A c \in Conn :
         /\ contexts[c].phase = "rolling" => contexts[c].seen = epoch
         /\ contexts[c].phase = "closed" => contexts[c].seen < epoch \/ contexts[c].seen = IdMax

\* A step that reads and rolls nothing.
LEMMA SerialKept ==
  ASSUME AgentsOK, SerialRolls, UNCHANGED epoch,
         \A c \in Conn : /\ contexts'[c].seen = contexts[c].seen
                         /\ \/ contexts'[c].phase = contexts[c].phase
                            \/ /\ contexts[c].phase \notin {"rolling", "closed"}
                               /\ contexts'[c].phase # "rolling"
  PROVE  SerialRolls'
<1>1. epoch \in 1 .. IdMax
  BY DEF AgentsOK
<1>2. Collided' <=> Collided
  BY DEF Collided
<1> QED BY <1>1, <1>2, PolicyAssumption DEF SerialRolls

LEMMA SerialStep ==
  ASSUME AgentsOK, SerialRolls, [CoordNext]_allVars
  PROVE  SerialRolls'
<1>0. /\ contexts \in [Conn -> Context] /\ epoch \in 1 .. IdMax /\ IdMax \in Nat \ {0}
      /\ \A c \in Conn : contexts[c].seen \in 0 .. IdMax
  BY PolicyAssumption DEF AgentsOK, Context
<1>1. ASSUME NEW c \in Conn, NEW a \in AgentId, NEW b \in Boot, Register(c, a, b)
      PROVE  SerialRolls'
  <2>1. /\ contexts[c].phase = "new" /\ UNCHANGED epoch
        /\ contexts'[c].phase = "registered" /\ contexts'[c].seen = 0
        /\ \A o \in Conn \ {c} : contexts'[o] = contexts[o]
    BY <1>0, <1>1 DEF Register, NewContext
  <2>2. contexts[c].seen = 0
    BY <2>1 DEF SerialRolls
  <2> QED BY <2>1, <2>2, SerialKept
<1>2. ASSUME NEW c \in Conn, Acknowledge(c)
      PROVE  SerialRolls'
  <2>1. /\ contexts[c].phase = "registered" /\ UNCHANGED epoch
        /\ contexts'[c].phase = "serving" /\ contexts'[c].seen = contexts[c].seen
        /\ \A o \in Conn \ {c} : contexts'[o] = contexts[o]
    BY <1>0, <1>2 DEF Acknowledge, LearnEpoch, Context
  <2> QED BY <2>1, SerialKept
<1>3. ASSUME NEW c \in Conn, NEW r \in Reports, NEW g \in 1 .. MaxReport, CapacityUpdate(c, r, g)
      PROVE  SerialRolls'
  <2>1. /\ UNCHANGED epoch
        /\ contexts'[c].phase = contexts[c].phase /\ contexts'[c].seen = contexts[c].seen
        /\ \A o \in Conn \ {c} : contexts'[o] = contexts[o]
    BY <1>0, <1>3 DEF CapacityUpdate, Context
  <2> QED BY <2>1, SerialKept
<1>4. ASSUME NEW c \in Conn, Lose(c)
      PROVE  SerialRolls'
  <2>1. /\ contexts[c].phase = "serving" /\ UNCHANGED epoch
        /\ contexts'[c].phase \in {"fenced", "closed"}
        /\ \A o \in Conn : contexts'[o].seen = contexts[o].seen
        /\ \A o \in Conn \ {c} : contexts'[o].phase = contexts[o].phase
    BY <1>0, <1>4, SMTT(30) DEF Lose, Context
  <2> QED BY <2>1, SerialKept
<1>5. ASSUME NEW c \in Conn, ReadEpoch(c)
      PROVE  SerialRolls'
  <2>1. /\ contexts[c].phase = "fenced" /\ UNCHANGED epoch
        /\ contexts'[c].phase = "rolling" /\ contexts'[c].seen = epoch
        /\ \A o \in Conn \ {c} : contexts'[o] = contexts[o]
    BY <1>0, <1>5 DEF ReadEpoch, Context
  <2>2. contexts[c].seen = 0 /\ epoch # 0
    BY <1>0, <2>1 DEF SerialRolls
  <2>3. Collided => Collided'
    BY <2>1, <2>2 DEF Collided
  <2> QED BY <1>0, <2>1, <2>2, <2>3 DEF SerialRolls
<1>6. ASSUME NEW c \in Conn, WriteEpoch(c)
      PROVE  SerialRolls'
  <2>1. /\ contexts[c].phase = "rolling" /\ epoch' = NextEpoch(contexts[c].seen)
        /\ contexts'[c].phase = "closed" /\ contexts'[c].seen = contexts[c].seen
        /\ \A o \in Conn \ {c} : contexts'[o] = contexts[o]
    BY <1>0, <1>6 DEF WriteEpoch, Context
  <2>2. Collided' <=> Collided
    BY <2>1 DEF Collided
  <2>3. ASSUME ~Collided
        PROVE  /\ contexts[c].seen = epoch
               /\ \A o \in Conn \ {c} : contexts[o].phase # "rolling"
    BY <2>1, <2>3 DEF SerialRolls, Collided
  <2>4. ASSUME ~Collided, NEW o \in Conn, contexts'[o].phase = "closed"
        PROVE  contexts'[o].seen < epoch' \/ contexts'[o].seen = IdMax
    <3>1. contexts[c].seen = epoch
      BY <2>3, <2>4
    <3>2. epoch' = IF epoch = IdMax THEN epoch ELSE epoch + 1
      BY <2>1, <3>1 DEF NextEpoch
    <3>3. CASE o = c
      BY <1>0, <2>1, <3>1, <3>2, <3>3
    <3>4. CASE o # c
      BY <1>0, <2>1, <2>4, <3>2, <3>4 DEF SerialRolls
    <3> QED BY <3>3, <3>4
  <2> QED BY <2>1, <2>2, <2>3, <2>4 DEF SerialRolls
<1>7. CASE ClientStep
  BY <1>7, SerialKept DEF ClientStep
<1> QED
  BY <1>1, <1>2, <1>3, <1>4, <1>5, <1>6, <1>7, CoordCases

\* Only a capacity update under the epoch of now raises the generation of a
\* context.
LEMMA OnlyUpdatesRaise ==
  ASSUME AgentsOK, [CoordNext]_allVars, NEW c \in Conn,
         contexts'[c].generation > contexts[c].generation
  PROVE  contexts[c].quoted = epoch
<1>0. /\ contexts \in [Conn -> Context] /\ contexts[c].generation \in Nat
  BY DEF AgentsOK, Context
<1>1. ASSUME NEW k \in Conn, NEW a \in AgentId, NEW b \in Boot, Register(k, a, b)
      PROVE  FALSE
  <2>1. contexts'[c] = contexts[c] \/ contexts'[c].generation = 0
    BY <1>0, <1>1 DEF Register, NewContext
  <2> QED BY <1>0, <2>1
<1>2. ASSUME NEW k \in Conn, Acknowledge(k)
      PROVE  FALSE
  <2>1. contexts'[c].generation = contexts[c].generation
    BY <1>0, <1>2 DEF Acknowledge, LearnEpoch, Context
  <2> QED BY <1>0, <2>1
<1>3. ASSUME NEW k \in Conn, NEW r \in Reports, NEW g \in 1 .. MaxReport, CapacityUpdate(k, r, g)
      PROVE  contexts[c].quoted = epoch
  <2>1. CASE c # k
    BY <1>0, <1>3, <2>1 DEF CapacityUpdate
  <2>2. CASE c = k
    BY <1>3, <2>2 DEF CapacityUpdate, Quotes
  <2> QED BY <2>1, <2>2
<1>4. ASSUME NEW k \in Conn, Lose(k) \/ ReadEpoch(k) \/ WriteEpoch(k)
      PROVE  FALSE
  <2>1. contexts'[c].generation = contexts[c].generation
    BY <1>0, <1>4, SMTT(30) DEF Lose, ReadEpoch, WriteEpoch, Context
  <2> QED BY <1>0, <2>1
<1>5. CASE ClientStep
  BY <1>0, <1>5 DEF ClientStep
<1> QED
  BY <1>1, <1>2, <1>3, <1>4, <1>5, CoordCases

\* Unless two losses read the same epoch, a report is accepted only from a
\* connection that was told its epoch after every loss handled so far
\* (AuthorityLapses): the epoch then never goes back.
THEOREM AuthorityLapsesHolds == CoordSpec => AuthorityLapses
<1> DEFINE Lapsed ==
      \A c, o \in Conn :
        /\ contexts'[c].generation > contexts[c].generation
        /\ contexts[o].phase = "closed" /\ contexts[o].seen \in 1 .. IdMax - 1
        /\ ~Collided
        => contexts[o].seen < contexts[c].quoted
<1>1. CoordInit => SerialRolls
  BY PolicyAssumption DEF CoordInit, SerialRolls, NewContext
<1>2. ASSUME AgentsOK, SerialRolls, [CoordNext]_allVars
      PROVE  Lapsed
  <2> SUFFICES ASSUME NEW c \in Conn, NEW o \in Conn,
                      contexts'[c].generation > contexts[c].generation,
                      contexts[o].phase = "closed", contexts[o].seen \in 1 .. IdMax - 1,
                      ~Collided
               PROVE  contexts[o].seen < contexts[c].quoted
    OBVIOUS
  <2>1. contexts[o].seen < epoch
    BY <1>2, PolicyAssumption DEF SerialRolls
  <2>2. contexts[c].quoted = epoch
    BY <1>2, OnlyUpdatesRaise
  <2> QED BY <2>1, <2>2
<1>3. AgentsOK /\ SerialRolls /\ [CoordNext]_allVars => [Lapsed]_allVars
  BY <1>2
<1> QED
  BY <1>1, <1>3, SerialStep, AgentsInvariant, PTL DEF CoordSpec, AuthorityLapses

-----------------------------------------------------------------------------
(* The choice of an agent *)

LEMMA LeastNatural ==
  ASSUME NEW S \in SUBSET Nat, S # {}
  PROVE  \E n \in S : \A m \in S : n <= m
<1> DEFINE T == {0 .. (n - 1) : n \in S}
           R == StrictSubsetOrdering(Nat)
<1>1. T \subseteq FiniteSubsetsOf(Nat) /\ T # {}
  <2>1. \A n \in S : 0 .. (n - 1) \in SUBSET Nat /\ IsFiniteSet(0 .. (n - 1))
    <3> SUFFICES ASSUME NEW n \in S
                 PROVE  0 .. (n - 1) \in SUBSET Nat /\ IsFiniteSet(0 .. (n - 1))
      OBVIOUS
    <3>1. 0 \in Int /\ n - 1 \in Int
      OBVIOUS
    <3> QED BY <3>1, FS_Interval
  <2> QED BY <2>1 DEF FiniteSubsetsOf
<1>2. PICK x \in T : \A y \in T : <<y, x>> \notin R
  BY <1>1, FS_StrictSubsetOrderingWellFounded, WFMin
<1>3. PICK n \in S : x = 0 .. (n - 1)
  OBVIOUS
<1>4. \A m \in S : n <= m
  <2> SUFFICES ASSUME NEW m \in S, m < n
               PROVE  FALSE
    BY <1>3
  <2>1. /\ 0 .. (m - 1) \in SUBSET Nat /\ 0 .. (n - 1) \in SUBSET Nat
        /\ 0 .. (m - 1) \subseteq 0 .. (n - 1)
    OBVIOUS
  <2>2. m \in 0 .. (n - 1) /\ m \notin 0 .. (m - 1)
    OBVIOUS
  <2>3. <<0 .. (m - 1), 0 .. (n - 1)>> \in R
    BY <2>1, <2>2 DEF StrictSubsetOrdering
  <2> QED BY <1>2, <1>3, <2>3
<1> QED BY <1>4

\* What an agent reported last, as numbers that can be compared.
LEMMA FreeType ==
  ASSUME AgentsOK, NEW c \in Conn
  PROVE  contexts[c].report.free \in Nat /\ contexts[c].report.free <= UMax
         /\ contexts[c].report.snapshot \in Snapshot
<1>1. contexts[c].report \in Reports \cup {NoReport}
  BY DEF AgentsOK, Context
<1>2. NoReport.free = 0 /\ NoReport.snapshot = DefaultSnapshot
  BY DEF NoReport
<1>3. DefaultSnapshot \in Snapshot
  BY ZeroVec DEF DefaultSnapshot, NoSnapshot, Snapshot, PressureLevel
<1>4. UMax \in Nat
  BY UMaxAssumption
<1> QED BY <1>1, <1>2, <1>3, <1>4, CoordinatorAssumption DEF Word

\* Among agents on offer there is exactly one that choose_snapshot can mean:
\* no two have the same identity.
LEMMA PreferredOffered ==
  ASSUME AgentsOK, NEW S \in SUBSET Offered, S # {}
  PROVE  /\ Preferred(S) \in S
         /\ \A o \in S \ {Preferred(S)} :
              \/ contexts[o].report.free < contexts[Preferred(S)].report.free
              \/ /\ contexts[o].report.free = contexts[Preferred(S)].report.free
                 /\ contexts[Preferred(S)].id < contexts[o].id
<1> DEFINE f(c) == contexts[c].report.free
           id(c) == contexts[c].id
<1>1. S \subseteq Conn
  BY DEF Offered, AgentsOK
<1>2. \A c \in S : f(c) \in Nat /\ f(c) <= UMax
  BY <1>1, FreeType
<1>3. \A c \in S : id(c) \in Nat /\ agents[id(c)] = c
  BY <1>1, OfferedFacts, CoordinatorAssumption
<1>4. PICK m \in {UMax - f(c) : c \in S} : \A n \in {UMax - f(c) : c \in S} : m <= n
  <2>1. {UMax - f(c) : c \in S} \in SUBSET Nat
    BY <1>2, UMaxAssumption
  <2>2. {UMax - f(c) : c \in S} # {}
    OBVIOUS
  <2> HIDE DEF f
  <2> QED BY <2>1, <2>2, LeastNatural
<1> DEFINE T == {c \in S : UMax - f(c) = m}
<1>5. PICK i \in {id(c) : c \in T} : \A j \in {id(c) : c \in T} : i <= j
  <2>1. {id(c) : c \in T} \in SUBSET Nat
    BY <1>3
  <2>2. {id(c) : c \in T} # {}
    BY <1>4
  <2> HIDE DEF id, T
  <2> QED BY <2>1, <2>2, LeastNatural
<1>6. PICK c \in T : id(c) = i
  BY <1>5
<1>7. \A o \in S \ {c} : f(o) < f(c) \/ (f(o) = f(c) /\ id(c) < id(o))
  <2> SUFFICES ASSUME NEW o \in S \ {c}
               PROVE  f(o) < f(c) \/ (f(o) = f(c) /\ id(c) < id(o))
    OBVIOUS
  <2>1. UMax - f(c) <= UMax - f(o)
    BY <1>4, <1>6
  <2>2. f(o) <= f(c)
    BY <1>2, <1>6, <2>1, UMaxAssumption
  <2>3. CASE f(o) = f(c)
    <3>1. o \in T
      BY <1>6, <2>3
    <3>2. id(c) <= id(o)
      BY <1>5, <1>6, <3>1
    <3>3. id(c) # id(o)
      BY <1>3, <1>6
    <3>4. id(c) \in Nat /\ id(o) \in Nat
      BY <1>3, <1>6
    <3> HIDE DEF f, id
    <3> QED BY <2>3, <3>2, <3>3, <3>4
  <2>4. CASE f(o) # f(c)
    <3>1. f(c) \in Nat /\ f(o) \in Nat
      BY <1>2, <1>6
    <3> HIDE DEF f, id
    <3> QED BY <2>2, <2>4, <3>1
  <2> QED BY <2>3, <2>4
<1>8. c \in S
  BY <1>6
<1> QED BY <1>7, <1>8 DEF Preferred

\* The clients' positions.
ClientsOK ==
  clients \in [Client -> [step : ClientSteps, request : Descriptors, choice : Conn \cup {NoConn}]]

LEMMA ClientsInvariant ==
  ASSUME AgentsOK, ClientsOK, [CoordNext]_allVars
  PROVE  ClientsOK'
<1>1. ASSUME NEW t \in Client, NEW d \in Descriptors, ChooseSnapshot(t, d)
      PROVE  ClientsOK'
  <2>1. Preferred(Eligible(d)) \in Conn \cup {NoConn}
    <3>1. CASE Eligible(d) = {}
      BY <3>1 DEF Preferred
    <3>2. CASE Eligible(d) # {}
      <4>1. Eligible(d) \in SUBSET Offered /\ Offered \subseteq Conn
        BY DEF Eligible, Offered, AgentsOK
      <4> QED BY <3>2, <4>1, PreferredOffered
    <3> QED BY <3>1, <3>2
  <2> DEFINE x == Preferred(Eligible(d))
  <2>2. clients' = [clients EXCEPT ![t] = [step |-> "chosen", request |-> d, choice |-> x]]
    BY <1>1 DEF ChooseSnapshot
  <2> HIDE DEF x
  <2> QED BY <2>1, <2>2 DEF ClientsOK, ClientSteps, x
<1>2. ASSUME NEW t \in Client, SupplySnapshot(t)
      PROVE  ClientsOK'
  BY <1>2 DEF SupplySnapshot, ClientsOK, ClientSteps
<1>3. ASSUME NEW t \in Client, EvaluateFrame(t)
      PROVE  ClientsOK'
  BY <1>3, ZenonT(60) DEF EvaluateFrame, ClientsOK, ClientSteps
<1>4. CASE UNCHANGED clients
  BY <1>4 DEF ClientsOK
<1> QED
  BY <1>1, <1>2, <1>3, <1>4
  DEF CoordNext, allVars, coordVars, Register, Acknowledge, CapacityUpdate, Lose, ReadEpoch,
      WriteEpoch, CommitFrame, ReleaseFrame

\* The client side's assumption on the first state.
LEMMA ClientsInit == CoordInit => ClientsOK
BY DEF CoordInit, ClientsOK, ClientSteps

LEMMA ClientsAlways == CoordSpec => []ClientsOK
BY ClientsInit, ClientsInvariant, AgentsInvariant, PTL DEF CoordSpec

\* Types of the coordinator, and the map: choose_snapshot always finds what it
\* looks for, and every context is in the map under its own identity.
THEOREM CoordTypeCorrect == CoordSpec => []CoordTypeOK
<1>1. AgentsOK /\ ClientsOK => CoordTypeOK
  BY DEF AgentsOK, MapOK, ClientsOK, CoordTypeOK
<1> QED BY <1>1, AgentsInvariant, ClientsAlways, PTL

-----------------------------------------------------------------------------
(* The engine behind the coordinator.  Its steps are those of the engine's    *)
(* own specification, but for the snapshots, which are whatever the chosen    *)
(* context, dead, freed or alive, holds.                                      *)

LEMMA SupplyType ==
  ASSUME AgentsOK, ClientsOK, NEW t \in Client, SupplySnapshot(t)
  PROVE  \E s \in Snapshot : SetSnapshot(s)
<1>1. EmptySnapshot \in Snapshot
  BY ZeroVec, CoordinatorAssumption DEF EmptySnapshot, NoSnapshot, Snapshot, PressureLevel
<1>2. \A r \in Reports \cup {NoReport} : r.snapshot \in Snapshot
  <2>1. DefaultSnapshot \in Snapshot
    BY ZeroVec DEF DefaultSnapshot, NoSnapshot, Snapshot, PressureLevel
  <2> QED BY <2>1, CoordinatorAssumption DEF NoReport
<1>3. clients[t].choice # NoConn =>
        contexts[clients[t].choice].report \in Reports \cup {NoReport}
  BY DEF ClientsOK, AgentsOK, Context
<1> QED BY <1>1, <1>2, <1>3 DEF SupplySnapshot

LEMMA CoordEngineStep ==
  ASSUME AgentsOK, ClientsOK, [CoordNext]_allVars
  PROVE  [EngineNext]_engineVars \/ \E s \in Snapshot : SetSnapshot(s)
<1>1. ASSUME NEW t \in Client, EvaluateFrame(t) PROVE EngineNext
  BY <1>1 DEF EvaluateFrame, ClientsOK, EngineNext
<1>2. ASSUME NEW t \in Client, NEW q \in RequestId, NEW g \in 0 .. IdMax, CommitFrame(t, q, g)
      PROVE  EngineNext
  BY <1>2 DEF CommitFrame, EngineNext, Transition
<1>3. ASSUME NEW t \in Client, NEW r \in ReservationId, ReleaseFrame(t, r) PROVE EngineNext
  BY <1>3 DEF ReleaseFrame, EngineNext, Transition
<1>4. CASE UNCHANGED engineVars
  BY <1>4
<1> QED
  BY <1>1, <1>2, <1>3, <1>4, SupplyType
  DEF CoordNext, allVars, coordVars, Register, Acknowledge, CapacityUpdate, Lose, ReadEpoch,
      WriteEpoch, ChooseSnapshot

\* What the engine promises its clients, whatever its callers interleave.
EnginePromise == EngineTypeOK /\ Accounting /\ OwnershipInv /\ ChargeInv

LEMMA SuppliedPromise ==
  ASSUME EnginePromise, NEW s \in Snapshot, SetSnapshot(s)
  PROVE  EnginePromise'
<1>1. EngineTypeOK'
  <2>1. s.total \in Vec
    BY DEF Snapshot
  <2> QED
    BY <2>1, PolicyUnchanged
    DEF EnginePromise, SetSnapshot, EngineTypeOK, RMTypeOK, tableVars, counterVars
<1>2. Accounting'
  BY QuietAccounting DEF SetSnapshot, EnginePromise, tableVars
<1>3. UNCHANGED <<requests, reservations>>
  BY DEF SetSnapshot, tableVars
<1>4. OwnershipInv'
  BY <1>3 DEF EnginePromise, OwnershipInv, SoleOwner, BackedByCapacity
<1>5. ChargeInv'
  BY <1>3, ChargeKept DEF EnginePromise
<1> QED BY <1>1, <1>2, <1>4, <1>5 DEF EnginePromise

LEMMA PromiseStep ==
  ASSUME AgentsOK, ClientsOK, EnginePromise, [CoordNext]_allVars
  PROVE  EnginePromise'
BY CoordEngineStep, SuppliedPromise, EngineTypeStep, EngineAccountingStep, OwnershipStep,
   ChargeStep
DEF EnginePromise

LEMMA PromiseInit == CoordInit => EnginePromise
<1> SUFFICES ASSUME CoordInit PROVE EnginePromise
  OBVIOUS
<1>1. PICK p \in Policies : /\ policies = [g \in PolicyGen |-> IF g = 1 THEN p ELSE NoPolicy]
                           /\ mode = p.overcommit /\ allowance = AllowanceOf(p)
  BY DEF CoordInit
<1>2. p.overcommit \in OvercommitMode /\ p.overcommit_allowance \in Vec
  <2>1. "overcommit" \in PolicyFields /\ "overcommit_allowance" \in PolicyFields
    BY DEF PolicyFields, Overridable
  <2>2. p.overcommit \in FieldType("overcommit")
        /\ p.overcommit_allowance \in FieldType("overcommit_allowance")
    BY <2>1, PolicyAssumption
  <2> QED BY <2>2 DEF FieldType
<1>3. mode \in OvercommitMode /\ allowance \in Vec
  BY <1>1, <1>2, ZeroVec DEF AllowanceOf
<1>4. RMTypeOK
  <2>1. NoReservation \in Reservation
    BY ZeroVec, UMaxAssumption, ReservationAssumption DEF Word, Reservation, NoReservation, Status
  <2>2. generation \in Word /\ now \in Nat
    BY UMaxAssumption, ReservationAssumption, CoordinatorAssumption DEF CoordInit, Word
  <2> QED BY <1>3, <2>1, <2>2, ZeroVec DEF CoordInit, RMTypeOK
<1>5. PolicyTypeOK
  <2>1. 1 \in PolicyGen /\ p # NoPolicy
    BY PolicyAssumption DEF PolicyGen
  <2>2. policy_counter \in PolicyGen /\ latest = 1
    BY PolicyAssumption DEF CoordInit, PolicyGen
  <2> QED BY <1>1, <2>1, <2>2 DEF PolicyTypeOK, Installed
<1>6. snapshot \in Snapshot /\ quota \in Quota
  BY ZeroVec DEF CoordInit, Snapshot, Quota, NoSnapshot, NoQuota, PressureLevel
<1>7. NoRequest \in Request
  BY PolicyAssumption DEF NoRequest, Request, NoDecision, Decision, ReasonCode, Lifecycle, None
<1>8. 1 \in 1 .. IdMax /\ 1 \in ReservationId
  BY PolicyAssumption, EngineAssumption
<1>9. EngineTypeOK
  BY <1>4, <1>5, <1>6, <1>7, <1>8 DEF CoordInit, EngineTypeOK
<1>10. OwnershipInv
  BY DEF CoordInit, OwnershipInv, SoleOwner, BackedByCapacity, NoRequest, NoDecision, None
<1>11. Accounting
  BY EmptyAccounting DEF CoordInit
<1>12. ChargeInv
  BY DEF CoordInit, NoReservation, ChargeInv, Charged
<1> QED BY <1>9, <1>10, <1>11, <1>12 DEF EnginePromise

LEMMA PromiseHolds == CoordSpec => []EnginePromise
BY PromiseInit, PromiseStep, AgentsInvariant, ClientsAlways, PTL DEF CoordSpec

\* Behind the coordinator, with any number of clients whose evaluations overlap
\* and whose snapshots are replaced by one another's, the books of the
\* reservation manager balance (Accounting).
THEOREM CoordAccountingHolds == CoordSpec => []Accounting
<1>1. EnginePromise => Accounting
  BY DEF EnginePromise
<1> QED BY <1>1, PromiseHolds, PTL

\* And no reservation backs the requests of two clients (SoleOwner).
THEOREM CoordSoleOwnerHolds == CoordSpec => []SoleOwner
<1>1. EnginePromise => SoleOwner
  BY DEF EnginePromise, OwnershipInv
<1> QED BY <1>1, PromiseHolds, PTL

\* And the lifecycle of a request agrees with its reservation (BackedByCapacity).
THEOREM CoordBackedHolds == CoordSpec => []BackedByCapacity
<1>1. EnginePromise => BackedByCapacity
  BY DEF EnginePromise, OwnershipInv
<1> QED BY <1>1, PromiseHolds, PTL

\* Several clients that evaluate, commit and release the same ids through their
\* own connections never have a request charged twice (ChargedOnce).
THEOREM CoordChargedOnceHolds == CoordSpec => []ChargedOnce
<1>1. EnginePromise => ChargedOnce
  BY DEF EnginePromise, ChargeInv, Charged, Charge, ChargedOnce, ChargedTo, Final
<1> QED BY <1>1, PromiseHolds, PTL

\* A snapshot that arrives between the steps of another client moves the
\* ceiling and takes no capacity.
LEMMA SuppliedLoad ==
  ASSUME NEW s, SetSnapshot(s), EngineTypeOK, NEW e \in Resource
  PROVE  ~(Load(e)' > Load(e))
<1>1. UNCHANGED <<reserved_sum, used_sum>>
  BY DEF SetSnapshot, tableVars
<1>2. Load(e) \in Nat /\ Load(e)' = Load(e)
  BY <1>1, UMaxAssumption DEF EngineTypeOK, RMTypeOK, Load, Vec, Word
<1> QED BY <1>2

LEMMA CoordRaisedWithinBounds ==
  ASSUME AgentsOK, ClientsOK, EnginePromise, [CoordNext]_allVars,
         NEW e \in Resource, Load(e)' > Load(e)
  PROVE  /\ \A i \in Resource : Load(i)' <= Ceiling'[i]
         /\ Ceiling'[e] - Load(e)' >= policies[latest].absolute_safety_margin[e]
BY CoordEngineStep, SuppliedLoad, RaisedWithinBounds DEF EnginePromise

\* However the snapshots of overlapping evaluations replace each other in the
\* shared engine, no client takes capacity past the envelope of the moment it
\* is admitted in (NoOverclaim).
THEOREM CoordNoOverclaimHolds == CoordSpec => NoOverclaim
<1>1. AgentsOK /\ ClientsOK /\ EnginePromise /\ [CoordNext]_allVars =>
        [\A d \in Resource : Load(d)' > Load(d) => \A e \in Resource : Load(e)' <= Ceiling'[e]]_rmVars
  BY CoordRaisedWithinBounds
<1> QED BY <1>1, AgentsInvariant, ClientsAlways, PromiseHolds, PTL DEF CoordSpec, NoOverclaim

\* And what it takes leaves the policy's absolute safety margin free
\* (HeadroomKept), on whichever client's snapshot the engine decides.
THEOREM CoordHeadroomKeptHolds == CoordSpec => HeadroomKept
<1>1. AgentsOK /\ ClientsOK /\ EnginePromise /\ [CoordNext]_allVars =>
        [\A d \in Resource :
           Load(d)' > Load(d) =>
             Ceiling'[d] - Load(d)' >= policies[latest].absolute_safety_margin[d]]_engineVars
  BY CoordRaisedWithinBounds
<1> QED BY <1>1, AgentsInvariant, ClientsAlways, PromiseHolds, PTL DEF CoordSpec, HeadroomKept
================================================================================
