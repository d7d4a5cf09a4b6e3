------------------------------ MODULE AgentSession ------------------------------
(****************************************************************************)
(* The life of agent processes and of the coordinator's threads that serve  *)
(* them: registration, the first capacity report, crashes, the noticing of  *)
(* a loss, and the restart with a fresh boot identity that the comments of  *)
(* Agent::run ask of the caller.  Coordinator.tla has the data (snapshots,  *)
(* generations, the values of the epoch); this module has the control, for  *)
(* any number of restarts, and what must eventually happen.                 *)
(*                                                                          *)
(* Every start of an agent has a boot identity and a connection of its own. *)
(* A boot that neither a process nor a thread refers to any more may be     *)
(* taken again: boots are compared for equality only, and only with the     *)
(* boot of a context that is alive.  Epochs are compared for equality too,  *)
(* so what is kept of them is whether the one a process was told is still   *)
(* the coordinator's.                                                       *)
(*                                                                          *)
(* Assumption on the environment: a connection ends only with its process.  *)
(* handle_agent fences on any failed receive; a reset of a connection whose *)
(* process lives on, or a header it refuses, would fence a live process     *)
(* too.  Agents send headers that are accepted, and Coordinator.tla has     *)
(* connections that break at any time.                                      *)
(****************************************************************************)
EXTENDS Integers

CONSTANTS
  Agents,       \* agent identities
  Boots,        \* boot identities
  NoBoot,       \* no process, no context
  MaxCrashes    \* bound on the crashes

ASSUME SessionAssumption == NoBoot \notin Boots /\ MaxCrashes \in Nat

VARIABLES
  proc,       \* the boot of the running process of an agent
  stage,      \* what that process does: register_self, send_capacity, run
  entry,      \* agents_: the boot of the context the map holds
  alive,      \* the agents whose context in the map is alive
  handler,    \* the coordinator's thread for a connection, and where it is
  current,    \* the connections on which the epoch told is epoch_
  raced,      \* the rolls that another one's store came in between
  crashes     \* crashes so far

sessionVars == <<proc, stage, entry, alive, handler, current, raced, crashes>>

Stages   == {"registering", "reporting", "running"}
Handlers == {"none", "dispatch", "acknowledge", "serve", "load", "store"}

Conn == Agents \X Boots

-----------------------------------------------------------------------------
(* The agent's process *)

\* A caller restarts an agent that is down: main connects, with a boot that is
\* fresh, and sends the registration; the coordinator accepts and dispatches.
Start(a, b) ==
  /\ proc[a] = NoBoot /\ handler[<<a, b>>] = "none"
  /\ proc' = [proc EXCEPT ![a] = b]
  /\ stage' = [stage EXCEPT ![a] = "registering"]
  /\ handler' = [handler EXCEPT ![<<a, b>>] = "dispatch"]
  /\ UNCHANGED <<entry, alive, current, raced, crashes>>

\* The process is killed; its frames that are under way may still be read.
Crash(a) ==
  /\ proc[a] # NoBoot /\ crashes < MaxCrashes
  /\ proc' = [proc EXCEPT ![a] = NoBoot]
  /\ crashes' = crashes + 1
  /\ UNCHANGED <<stage, entry, alive, handler, current, raced>>

\* What main does with an error: it returns.
Exit(a, b) == IF proc[a] = b THEN [proc EXCEPT ![a] = NoBoot] ELSE proc

\* The process reads the answer it waits for, if there still is a process.
Proceed(a, b, s) == IF proc[a] = b THEN [stage EXCEPT ![a] = s] ELSE stage

-----------------------------------------------------------------------------
(* The coordinator's thread for a connection *)

\* Mutant: the newest registration wins.
MismatchNever(a, b) == FALSE

\* Mutant: a context that was fenced still defends its boot.
MismatchDeadToo(a, b) == entry[a] # NoBoot /\ entry[a] # b

\* A live agent claiming a different boot identity is stale.
Mismatch(a, b) == entry[a] # NoBoot /\ a \in alive /\ entry[a] # b

\* dispatch, refusing: the process reads the error and ends, and so does the
\* thread, without a word to on_agent_loss.
RefuseRegister(a, b) ==
  /\ handler[<<a, b>>] = "dispatch" /\ Mismatch(a, b)
  /\ handler' = [handler EXCEPT ![<<a, b>>] = "none"]
  /\ proc' = Exit(a, b)
  /\ UNCHANGED <<stage, entry, alive, current, raced, crashes>>

\* dispatch, accepting: the context replaces the one in the map.
AcceptRegister(a, b) ==
  /\ handler[<<a, b>>] = "dispatch" /\ ~Mismatch(a, b)
  /\ entry' = [entry EXCEPT ![a] = b]
  /\ alive' = alive \cup {a}
  /\ handler' = [handler EXCEPT ![<<a, b>>] = "acknowledge"]
  /\ UNCHANGED <<proc, stage, current, raced, crashes>>

\* The connection ended before the registration was sent.
DispatchFails(a, b) ==
  /\ handler[<<a, b>>] = "dispatch" /\ proc[a] # b
  /\ handler' = [handler EXCEPT ![<<a, b>>] = "none"]
  /\ UNCHANGED <<proc, stage, entry, alive, current, raced, crashes>>

\* After the lock is gone the epoch is read and told; the process goes on to
\* report its capacity.
Acknowledge(a, b) ==
  /\ handler[<<a, b>>] = "acknowledge"
  /\ current' = current \cup {<<a, b>>}
  /\ stage' = Proceed(a, b, "reporting")
  /\ handler' = [handler EXCEPT ![<<a, b>>] = "serve"]
  /\ UNCHANGED <<proc, entry, alive, raced, crashes>>

\* Mutant: a report under a stale epoch is dropped without an answer.
HandleUpdateSilently(a, b) ==
  /\ handler[<<a, b>>] = "serve" /\ proc[a] = b /\ stage[a] = "reporting" /\ <<a, b>> \in current
  /\ stage' = Proceed(a, b, "running")
  /\ UNCHANGED <<proc, entry, alive, handler, current, raced, crashes>>

\* handle_agent, a capacity update: accepted under the current epoch; under
\* another one it is refused, and main returns.
HandleUpdate(a, b) ==
  /\ handler[<<a, b>>] = "serve" /\ proc[a] = b /\ stage[a] = "reporting"
  /\ \/ <<a, b>> \in current /\ stage' = Proceed(a, b, "running") /\ UNCHANGED proc
     \/ <<a, b>> \notin current /\ proc' = Exit(a, b) /\ UNCHANGED stage
  /\ UNCHANGED <<entry, alive, handler, current, raced, crashes>>

\* Mutant: the thread ends when its connection does.
NoticeLossSilently(a, b) ==
  /\ handler[<<a, b>>] = "serve" /\ proc[a] # b
  /\ current' = current \ {<<a, b>>}
  /\ handler' = [handler EXCEPT ![<<a, b>>] = "none"]
  /\ UNCHANGED <<proc, stage, entry, alive, raced, crashes>>

\* handle_agent's receive fails, by the assumption above because the process is
\* gone, and on_agent_loss fences, under the lock, the context the map holds for
\* the agent, whichever that is.
NoticeLoss(a, b) ==
  /\ handler[<<a, b>>] = "serve" /\ proc[a] # b
  /\ current' = current \ {<<a, b>>}
  /\ \/ /\ a \in alive
        /\ alive' = alive \ {a}
        /\ handler' = [handler EXCEPT ![<<a, b>>] = "load"]
     \/ /\ a \notin alive
        /\ handler' = [handler EXCEPT ![<<a, b>>] = "none"]
        /\ UNCHANGED alive
  /\ UNCHANGED <<proc, stage, entry, raced, crashes>>

\* epoch_ = epoch_.next(), without the lock: the load ...
LoadEpoch(a, b) ==
  /\ handler[<<a, b>>] = "load"
  /\ handler' = [handler EXCEPT ![<<a, b>>] = "store"]
  /\ raced' = raced \ {<<a, b>>}
  /\ UNCHANGED <<proc, stage, entry, alive, current, crashes>>

\* ... and the store.  One that another store overtook may write the epoch that
\* is there already, or one that was there before: which of the epochs told are
\* current afterwards is not determined.
StoreEpoch(a, b) ==
  /\ handler[<<a, b>>] = "store"
  /\ handler' = [handler EXCEPT ![<<a, b>>] = "none"]
  /\ current' \in IF <<a, b>> \in raced THEN SUBSET {c \in Conn : handler[c] = "serve"} ELSE {{}}
  /\ raced' = (raced \cup {c \in Conn : handler[c] = "store"}) \ {<<a, b>>}
  /\ UNCHANGED <<proc, stage, entry, alive, crashes>>

Serve(a, b) ==
  \/ RefuseRegister(a, b) \/ AcceptRegister(a, b) \/ DispatchFails(a, b)
  \/ Acknowledge(a, b) \/ HandleUpdate(a, b) \/ NoticeLoss(a, b)
  \/ LoadEpoch(a, b) \/ StoreEpoch(a, b)

-----------------------------------------------------------------------------
SessionInit ==
  /\ proc = [a \in Agents |-> NoBoot]
  /\ stage = [a \in Agents |-> "registering"]
  /\ entry = [a \in Agents |-> NoBoot]
  /\ alive = {}
  /\ handler = [c \in Conn |-> "none"]
  /\ current = {}
  /\ raced = {}
  /\ crashes = 0

SessionNext ==
  \/ \E a \in Agents, b \in Boots : Start(a, b)
  \/ \E a \in Agents : Crash(a)
  \/ \E a \in Agents, b \in Boots : Serve(a, b)

\* Threads that can run do run, and the caller restarts an agent that is down.
SessionFairness ==
  \A a \in Agents :
    /\ WF_sessionVars(\E b \in Boots : Start(a, b))
    /\ \A b \in Boots : WF_sessionVars(Serve(a, b))

SessionSpec == SessionInit /\ [][SessionNext]_sessionVars /\ SessionFairness

-----------------------------------------------------------------------------
(* Properties *)

\* The variables have their types, and a context that is offered has a thread
\* that will notice when its connection ends.
SessionTypeOK ==
  /\ proc \in [Agents -> Boots \cup {NoBoot}]
  /\ stage \in [Agents -> Stages]
  /\ entry \in [Agents -> Boots \cup {NoBoot}]
  /\ alive \subseteq Agents
  /\ handler \in [Conn -> Handlers]
  /\ current \subseteq Conn
  /\ raced \subseteq Conn
  /\ crashes \in 0 .. MaxCrashes
  /\ \A a \in Agents : a \in alive => entry[a] \in Boots /\ handler[<<a, entry[a]>>] \in {"acknowledge", "serve"}

\* A process that was told it is registered is the one that the coordinator
\* offers for its agent, until it ends: neither a late registration nor the
\* loss of an earlier process of the same agent takes its place or fences it,
\* although on_agent_loss goes by the agent's identity alone.
RegisteredIsOffered ==
  \A a \in Agents :
    proc[a] # NoBoot /\ stage[a] # "registering" => a \in alive /\ entry[a] = proc[a]

\* The context of a process that is gone is eventually offered no more.
DeadIsFenced ==
  \A a \in Agents, b \in Boots :
    (a \in alive /\ entry[a] = b /\ proc[a] # b) ~> ~(a \in alive /\ entry[a] = b /\ proc[a] # b)

\* An agent that is down is eventually registered again, if it is restarted
\* with a fresh boot whenever it ends, however long the loss of its earlier
\* processes takes to be noticed.
RestartRegisters ==
  \A a \in Agents : (proc[a] = NoBoot) ~> (proc[a] # NoBoot /\ a \in alive /\ entry[a] = proc[a])

\* The rolls of the epoch are all that keeps agents from their work: when no
\* thread rolls it any more, all agents get to run.
Settles ==
  <>[](\A c \in Conn : handler[c] \notin {"load", "store"})
    => <>[](\A a \in Agents : proc[a] # NoBoot /\ stage[a] = "running")
================================================================================
