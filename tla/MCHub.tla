------------------------------- MODULE MCHub -------------------------------
(***************************************************************************)
(* Small instances, for TLC, of the parts of the hub that are not checked  *)
(* in runs of their own: its control plane (HubControl), the hub processes *)
(* and the commands that start and stop them (HubDaemon), handles that are *)
(* removed and spawned again (Supervisor), the agents' logs (AgentLogs)    *)
(* and the audit log (AuditLog).  The modules share no state: a behaviour  *)
(* runs one part and leaves the others where they begin.  HubControl and   *)
(* HubDaemon come with two values of their bounds, generous in different   *)
(* ones.                                                                   *)
(***************************************************************************)
EXTENDS HubDaemon, HubControl, Supervisor, HubLogs

CONSTANTS c1, c2 \* command-line processes or callers

VARIABLE part

ControlParts == {"control", "control long"}
DaemonParts == {"daemon overlapping", "daemon serial"}
LogParts == {"logs of two", "logs of one"}
Parts == {"respawn", "audit"} \union LogParts \union ControlParts \union DaemonParts

----------------------------------------------------------------------------
(* The instances *)

\* The constants of HubDaemon itself give two commands at a time, and an agent
\* that is added while a hub runs.  Here: one command at a time, more of them, and
\* agents that die; no agent is added.
DSerial == INSTANCE HubDaemon WITH
  Addable <- {}, Commands <- {c1}, MaxInvocations <- 3, MaxDeaths <- 1

\* The constants of HubControl itself give two agents, one of them disabled by
\* its agent.toml.  Here: more requests, all about one agent.
OneConfigured == <<"a">>
HLong == INSTANCE HubControl WITH Requested <- {"a"}, MaxRequests <- 3

\* The constants of Supervisor give the same ID spawned twice, by the caller that
\* also removes it.
NoneConfigured == <<>>
TwoProcs == 1..2

\* The constants of AgentLogs itself give two agents.  Here: lines of one of them,
\* more lines and processes.
LLong == INSTANCE AgentLogs WITH
  Kinds <- {"debug", "other", "plain"}, MinLevels <- {"info"},
  ChanCap <- 2, MaxLines <- 3, MaxExits <- 2
OneLogs == alive \ {"a"} = LogAgents \ {"a"} /\ \A n \in Lines : owner[n] = "a"

ASSUME InstancesAssumption ==
  DSerial!DaemonAssumption /\ HLong!HubAssumption

----------------------------------------------------------------------------

InPart(name) == part = name

MCInit ==
  /\ part \in Parts
  /\ Init /\ ControlInit
  /\ SupervisorInit /\ AuditInit
  /\ IF InPart("logs of one") THEN LLong!LogsInit ELSE LogsInit

ButDaemon == UNCHANGED <<controlVars, supVars, logVars, auditVars>>
ButControl == UNCHANGED <<vars, supVars, logVars, auditVars>>
ButSupervisor == UNCHANGED <<vars, controlVars, logVars, auditVars>>
ButLogs == UNCHANGED <<vars, controlVars, supVars, auditVars>>
ButAudit == UNCHANGED <<vars, controlVars, supVars, logVars>>

MCNext ==
  /\ UNCHANGED part
  /\ \/ InPart("daemon overlapping") /\ Next /\ ButDaemon
     \/ InPart("daemon serial") /\ DSerial!Next /\ ButDaemon
     \/ InPart("control") /\ ControlNext /\ ButControl
     \/ InPart("control long") /\ HLong!ControlNext /\ ButControl
     \/ InPart("respawn") /\ SupervisorNext /\ ButSupervisor
     \/ InPart("logs of two") /\ LogsNext /\ ButLogs
     \/ InPart("logs of one") /\ LLong!LogsNext /\ OneLogs' /\ ButLogs
     \/ InPart("audit") /\ AuditNext /\ ButAudit

\* The fairness of HubControl and of HubDaemon.
ControlHandles(t) ==
  (InPart("control") /\ HandlerStep(t)) \/ (InPart("control long") /\ HLong!HandlerStep(t))
HubGoesOn(n) ==
  \/ InPart("daemon overlapping") /\ HubStep(n)
  \/ InPart("daemon serial") /\ DSerial!HubStep(n)
AgentStarts(n, a) ==
  \/ InPart("daemon overlapping") /\ AgentGoesOn(n, a)
  \/ InPart("daemon serial") /\ DSerial!AgentGoesOn(n, a)
MCFairness ==
  /\ \A t \in Threads : WF_controlVars(ControlHandles(t))
  /\ WF_controlVars((InPart("control") /\ WatcherStep)
                    \/ (InPart("control long") /\ HLong!WatcherStep))
  /\ \A n \in Hubs :
       WF_vars(HubGoesOn(n)) /\ \A a \in Agents : WF_vars(AgentStarts(n, a))

allVars == <<part, vars, controlVars, supVars, logVars, auditVars>>
MCSpec == MCInit /\ [][MCNext]_allVars /\ MCFairness

----------------------------------------------------------------------------
(* The properties are named in the cfg as their modules have them.  Those  *)
(* of HubDaemon (NoDoubleOnBus, HubFindable, ConfiguredJoin), of           *)
(* HubControl (FileAgentsSupervised, InStepWhenSerial, AddedIsSupervised)  *)
(* and of the logs (LogsKept) hold for both values of their bounds, and    *)
(* like the Supervisor's RemovedAreStopped where nothing moves: the        *)
(* variables, hubs, agents and initial states are the same, as the serial  *)
(* daemon gives its second command nothing to do.                          *)
=============================================================================
