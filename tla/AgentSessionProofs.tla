--------------------------- MODULE AgentSessionProofs ---------------------------
(****************************************************************************)
(* For every number of agents, boots and crashes: the type invariant of the *)
(* agents' sessions, and that a process that was told it is registered is   *)
(* the one on offer until it ends.                                          *)
(*                                                                          *)
(* The second is not inductive: a thread that notices the loss of its       *)
(* process fences whatever the map holds for the agent.  What excludes the  *)
(* living is that a thread past its registration, with its own loss not     *)
(* handled yet, still has its own context in the map, alive (Served).       *)
(****************************************************************************)
EXTENDS AgentSession, TLAPS

\* What Served says of one connection.
ServedAt(a, b) ==
  /\ handler[<<a, b>>] \in {"acknowledge", "serve"} => a \in alive /\ entry[a] = b
  /\ proc[a] = b /\ stage[a] = "registering" => handler[<<a, b>>] \in {"dispatch", "acknowledge"}
  /\ proc[a] = b /\ stage[a] # "registering" => handler[<<a, b>>] = "serve"

\* A thread that registered its process and has not noticed its loss has its
\* own context in the map, alive; a process that runs has its thread.
Served ==
  \A a \in Agents : \A b \in Boots : ServedAt(a, b)

SessionInv == SessionTypeOK /\ Served

\* A connection is a pair, and its two parts name it.
LEMMA ConnFacts ==
  ASSUME NEW a \in Agents, NEW b \in Boots, NEW c \in Agents, NEW d \in Boots
  PROVE  <<a, b>> \in Conn /\ (<<a, b>> = <<c, d>> <=> a = c /\ b = d)
BY DEF Conn

\* SessionInv holds at the start: there is neither a process nor a thread.
LEMMA SessionInitInv == SessionInit => SessionInv
BY SessionAssumption DEF SessionInit, SessionInv, SessionTypeOK, Served, ServedAt, Conn, Handlers, Stages

\* The start of a process meets no context of its boot.
LEMMA StartInv ==
  ASSUME SessionInv, NEW a \in Agents, NEW b \in Boots, Start(a, b)
  PROVE  SessionInv'
<1> USE SessionAssumption, ConnFacts DEF SessionInv, Start
<1>1. SessionTypeOK'
  BY DEF SessionTypeOK, Conn, Handlers, Stages
<1>2. Served'
  <2> SUFFICES ASSUME NEW c \in Agents, NEW d \in Boots PROVE ServedAt(c, d)'
    BY DEF Served
  <2>1. ServedAt(c, d) /\ ServedAt(a, d)
    BY DEF Served
  <2> QED
    BY <2>1 DEF SessionTypeOK, ServedAt, Conn
<1> QED BY <1>1, <1>2

LEMMA CrashInv ==
  ASSUME SessionInv, NEW a \in Agents, Crash(a)
  PROVE  SessionInv'
<1> USE SessionAssumption DEF SessionInv, Crash
<1>1. SessionTypeOK'
  BY DEF SessionTypeOK
<1>2. Served'
  <2> SUFFICES ASSUME NEW c \in Agents, NEW d \in Boots PROVE ServedAt(c, d)'
    BY DEF Served
  <2>1. ServedAt(c, d) /\ ServedAt(a, d)
    BY DEF Served
  <2> QED
    BY <2>1 DEF SessionTypeOK, ServedAt
<1> QED BY <1>1, <1>2

\* A refused registration touches neither the map nor any other thread.
LEMMA RefuseInv ==
  ASSUME SessionInv, NEW a \in Agents, NEW b \in Boots, RefuseRegister(a, b)
  PROVE  SessionInv'
<1> USE SessionAssumption, ConnFacts DEF SessionInv, RefuseRegister, Exit
<1>1. SessionTypeOK'
  BY DEF SessionTypeOK, Conn, Handlers, Mismatch
<1>2. Served'
  <2> SUFFICES ASSUME NEW c \in Agents, NEW d \in Boots PROVE ServedAt(c, d)'
    BY DEF Served
  <2>1. ServedAt(c, d) /\ ServedAt(a, d)
    BY DEF Served
  <2> QED
    BY <2>1 DEF SessionTypeOK, ServedAt, Conn
<1> QED BY <1>1, <1>2

\* An accepted one replaces no context whose thread still serves: that context
\* would be alive under another boot.
LEMMA AcceptInv ==
  ASSUME SessionInv, NEW a \in Agents, NEW b \in Boots, AcceptRegister(a, b)
  PROVE  SessionInv'
<1> USE SessionAssumption, ConnFacts DEF SessionInv, AcceptRegister
<1>1. SessionTypeOK'
  BY DEF SessionTypeOK, Conn, Handlers
<1>2. \A d \in Boots : handler[<<a, d>>] \notin {"acknowledge", "serve"}
  BY DEF Served, ServedAt, Mismatch, SessionTypeOK
<1>3. Served'
  <2> SUFFICES ASSUME NEW c \in Agents, NEW d \in Boots PROVE ServedAt(c, d)'
    BY DEF Served
  <2>1. ServedAt(c, d) /\ ServedAt(a, d)
    BY DEF Served
  <2> QED
    BY <2>1, <1>2  DEF SessionTypeOK, ServedAt, Conn
<1> QED BY <1>1, <1>3

LEMMA DispatchFailsInv ==
  ASSUME SessionInv, NEW a \in Agents, NEW b \in Boots, DispatchFails(a, b)
  PROVE  SessionInv'
<1> USE SessionAssumption, ConnFacts DEF SessionInv, DispatchFails
<1>1. SessionTypeOK'
  BY DEF SessionTypeOK, Conn, Handlers
<1>2. Served'
  <2> SUFFICES ASSUME NEW c \in Agents, NEW d \in Boots PROVE ServedAt(c, d)'
    BY DEF Served
  <2>1. ServedAt(c, d) /\ ServedAt(a, d)
    BY DEF Served
  <2> QED
    BY <2>1 DEF SessionTypeOK, ServedAt, Conn
<1> QED BY <1>1, <1>2

LEMMA AcknowledgeInv ==
  ASSUME SessionInv, NEW a \in Agents, NEW b \in Boots, Acknowledge(a, b)
  PROVE  SessionInv'
<1> USE SessionAssumption, ConnFacts DEF SessionInv, Acknowledge, Proceed
<1>1. SessionTypeOK'
  BY DEF SessionTypeOK, Conn, Handlers, Stages
<1>2. Served'
  <2> SUFFICES ASSUME NEW c \in Agents, NEW d \in Boots PROVE ServedAt(c, d)'
    BY DEF Served
  <2>1. ServedAt(c, d) /\ ServedAt(a, d)
    BY DEF Served
  <2> QED
    BY <2>1 DEF SessionTypeOK, ServedAt, Conn
<1> QED BY <1>1, <1>2

LEMMA HandleUpdateInv ==
  ASSUME SessionInv, NEW a \in Agents, NEW b \in Boots, HandleUpdate(a, b)
  PROVE  SessionInv'
<1> USE SessionAssumption, ConnFacts DEF SessionInv, HandleUpdate, Proceed, Exit
<1>1. SessionTypeOK'
  BY DEF SessionTypeOK, Stages
<1>2. Served'
  <2> SUFFICES ASSUME NEW c \in Agents, NEW d \in Boots PROVE ServedAt(c, d)'
    BY DEF Served
  <2>1. ServedAt(c, d) /\ ServedAt(a, d)
    BY DEF Served
  <2> QED
    BY <2>1 DEF SessionTypeOK, ServedAt
<1> QED BY <1>1, <1>2

\* The thread that fences finds its own context in the map, so no other thread
\* loses its own.
LEMMA NoticeLossInv ==
  ASSUME SessionInv, NEW a \in Agents, NEW b \in Boots, NoticeLoss(a, b)
  PROVE  SessionInv'
<1> USE SessionAssumption, ConnFacts DEF SessionInv, NoticeLoss
<1>1. a \in alive /\ entry[a] = b
  BY DEF Served, ServedAt
<1>2. SessionTypeOK'
  BY <1>1 DEF SessionTypeOK, Conn, Handlers
<1>3. \A d \in Boots : d # b => handler[<<a, d>>] \notin {"acknowledge", "serve"}
  BY <1>1 DEF Served, ServedAt
<1>4. Served'
  <2> SUFFICES ASSUME NEW c \in Agents, NEW d \in Boots PROVE ServedAt(c, d)'
    BY DEF Served
  <2>1. ServedAt(c, d) /\ ServedAt(a, d)
    BY DEF Served
  <2> QED
    BY <2>1, <1>1, <1>3  DEF SessionTypeOK, ServedAt, Conn
<1> QED BY <1>2, <1>4

LEMMA LoadEpochInv ==
  ASSUME SessionInv, NEW a \in Agents, NEW b \in Boots, LoadEpoch(a, b)
  PROVE  SessionInv'
<1> USE SessionAssumption, ConnFacts DEF SessionInv, LoadEpoch
<1>1. SessionTypeOK'
  BY DEF SessionTypeOK, Conn, Handlers
<1>2. Served'
  <2> SUFFICES ASSUME NEW c \in Agents, NEW d \in Boots PROVE ServedAt(c, d)'
    BY DEF Served
  <2>1. ServedAt(c, d) /\ ServedAt(a, d)
    BY DEF Served
  <2> QED
    BY <2>1 DEF SessionTypeOK, ServedAt, Conn
<1> QED BY <1>1, <1>2

LEMMA StoreEpochInv ==
  ASSUME SessionInv, NEW a \in Agents, NEW b \in Boots, StoreEpoch(a, b)
  PROVE  SessionInv'
<1> USE SessionAssumption, ConnFacts DEF SessionInv, StoreEpoch
<1>1. current' \subseteq Conn /\ raced' \subseteq Conn
  BY DEF SessionTypeOK
<1>2. SessionTypeOK'
  BY <1>1 DEF SessionTypeOK, Conn, Handlers
<1>3. Served'
  <2> SUFFICES ASSUME NEW c \in Agents, NEW d \in Boots PROVE ServedAt(c, d)'
    BY DEF Served
  <2>1. ServedAt(c, d) /\ ServedAt(a, d)
    BY DEF Served
  <2> QED
    BY <2>1 DEF SessionTypeOK, ServedAt, Conn
<1> QED BY <1>2, <1>3

\* Every step of a process or a thread preserves SessionInv.
LEMMA SessionStepInv == SessionInv /\ [SessionNext]_sessionVars => SessionInv'
<1> SUFFICES ASSUME SessionInv, [SessionNext]_sessionVars
             PROVE  SessionInv'
  OBVIOUS
<1>1. CASE \E a \in Agents, b \in Boots : Start(a, b)
  BY <1>1, StartInv
<1>2. CASE \E a \in Agents : Crash(a)
  BY <1>2, CrashInv
<1>3. CASE \E a \in Agents, b \in Boots : Serve(a, b)
  <2> PICK a \in Agents, b \in Boots : Serve(a, b)
    BY <1>3
  <2> QED
    BY RefuseInv, AcceptInv, DispatchFailsInv, AcknowledgeInv, HandleUpdateInv, NoticeLossInv,
       LoadEpochInv, StoreEpochInv DEF Serve
<1>4. CASE UNCHANGED sessionVars
  BY <1>4 DEF sessionVars, SessionInv, SessionTypeOK, Served, ServedAt
<1> QED BY <1>1, <1>2, <1>3, <1>4 DEF SessionNext

LEMMA SessionInvariant == SessionSpec => []SessionInv
BY SessionInitInv, SessionStepInv, PTL DEF SessionSpec

\* The variables keep their types, and a context on offer has a thread that
\* will notice the end of its connection.
THEOREM SessionTypeCorrect == SessionSpec => []SessionTypeOK
BY SessionInvariant, PTL DEF SessionInv

\* A process that was told it is registered is the one the coordinator offers,
\* until it ends: no late registration and no loss of an earlier process takes
\* its place or fences it, although on_agent_loss goes by the identity alone.
THEOREM RegisteredIsOfferedHolds == SessionSpec => []RegisteredIsOffered
<1>1. SessionInv => RegisteredIsOffered
  <2> SUFFICES ASSUME SessionInv, NEW a \in Agents, proc[a] # NoBoot, stage[a] # "registering"
               PROVE  a \in alive /\ entry[a] = proc[a]
    BY DEF RegisteredIsOffered
  <2>1. proc[a] \in Boots
    BY DEF SessionInv, SessionTypeOK
  <2>2. ServedAt(a, proc[a])
    BY <2>1 DEF SessionInv, Served
  <2> QED BY <2>2 DEF ServedAt
<1> QED BY <1>1, SessionInvariant, PTL
================================================================================
