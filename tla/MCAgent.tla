------------------------------ MODULE MCAgent ------------------------------
(***************************************************************************)
(* Small instances, for TLC, of the parts of one agent process: its loop   *)
(* (AgentLoop), its sessions and adapters (Session), its cron scheduler    *)
(* (Cron, CronExpr), its calls of the model (LLMCall) with their system    *)
(* prompt (SystemPrompt), its memories (MemoryStore) and its configuration *)
(* (AgentConfig).  The modules share no state, so no interleaving of two   *)
(* parts can show more than each of them alone: a behaviour runs one part  *)
(* and leaves the others where they begin.  Session has three instances    *)
(* and Cron two parts, each generous where another one is not.             *)
(***************************************************************************)
EXTENDS Cron, CronExpr, Session, MemoryStore, AgentLoop, AgentConfig,
  SystemPrompt, LLMCall

CONSTANT client \* an attached command line

VARIABLE part

SessionParts == {"session", "chat", "attached"}
CronParts == {"cron file", "cron runs"}
Parts ==
  {"loop", "expression", "call", "prompt", "memories", "config"}
    \union SessionParts \union CronParts

----------------------------------------------------------------------------
(* The instances *)

\* The jobs of Cron: one for every minute, one whose schedule does not parse (the
\* tools accept both).
OftenAndBroken ==
  [id \in JobIDs |-> [m \in 0..(Minutes - 1) |-> IF id = "often" THEN "yes" ELSE "error"]]

AllLevels == <<"strip_thinking", "strip_tool_results", "drop_pairs">>

\* The constants of Session itself give a chat and a command line on one session.
\* Here: a chat alone, whose sink /clear may replace.
SChat == INSTANCE Session WITH
  Conns <- {}, ChatSinks <- 1..2, MaxDeltas <- 1, MaxDisturbances <- 2

\* A command line alone.
SAttached == INSTANCE Session WITH
  Conns <- {client}, ChatSinks <- {}, MaxDeltas <- 1, MaxDisturbances <- 2

\* A field of one or two parts, then one that matches at 1, at any time, or does
\* not parse.
AllParts == {Part(l, h, s) : l \in 0..2, h \in 0..2, s \in 1..2} \union {Unparsable}
TwoFields ==
  {<<m, h>> : m \in {<<q>> : q \in AllParts} \union {<<q, r>> : q, r \in AllParts},
              h \in {<<Part(1, 1, 1)>>, <<Part(0, 2, 1)>>, <<Unparsable>>}}
TwoTimes == {<<m, h>> : m, h \in 0..1}
OneSchedule == <<<<Unparsable>>, <<Unparsable>>>>

TwoBlocks == <<"self-identity", "memory-behavior">>
TwoPersonalities == {<<"soul1">>, <<"soul2">>}
NoneOrOneSkill == {<<>>, <<"skill">>}

\* What the modules assume of their constants holds of these instances.
ASSUME InstancesAssumption ==
  SChat!SessionAssumption /\ SAttached!SessionAssumption

----------------------------------------------------------------------------

InPart(name) == part = name

MCInit ==
  /\ part \in Parts
  /\ Init /\ (part \notin CronParts => jobs = {})
  /\ LoopInit /\ ConfigInit
  /\ CASE InPart("chat") -> SChat!SessionInit
       [] InPart("attached") -> SAttached!SessionInit
       [] OTHER -> SessionInit
  /\ ExprInit /\ (~InPart("expression") => fields = OneSchedule /\ time = <<0, 0>>)
  /\ CallInit /\ (~InPart("call") => streaming /\ provider = "openai")
  /\ PromptInit /\ (~InPart("prompt") =>
                  /\ backend = "openai" /\ PromptCaching
                  /\ skillsSection = <<>> /\ persona = <<"soul1">>)
  /\ MemoryInit /\ (~InPart("memories") =>
                  /\ files = [id \in Ids |-> "no file"]
                  /\ index = [id \in Ids |-> "no entry"])

ButLoop ==
  UNCHANGED <<sessionVars, vars, exprVars, callVars, promptVars, memoryVars, configVars>>
ButSession ==
  UNCHANGED <<loopVars, vars, exprVars, callVars, promptVars, memoryVars, configVars>>
ButCron ==
  UNCHANGED <<loopVars, sessionVars, exprVars, callVars, promptVars, memoryVars, configVars>>
ButExpression ==
  UNCHANGED <<loopVars, sessionVars, vars, callVars, promptVars, memoryVars, configVars>>
ButCall ==
  UNCHANGED <<loopVars, sessionVars, vars, exprVars, promptVars, memoryVars, configVars>>
ButPrompt ==
  UNCHANGED <<loopVars, sessionVars, vars, exprVars, callVars, memoryVars, configVars>>
ButMemories ==
  UNCHANGED <<loopVars, sessionVars, vars, exprVars, callVars, promptVars, configVars>>
ButConfig ==
  UNCHANGED <<loopVars, sessionVars, vars, exprVars, callVars, promptVars, memoryVars>>

\* Cron in two parts, to keep it small: the file with two calls at a time while no
\* minute passes, and the clock and the runs with one call at a time.
FileNext == Next /\ UNCHANGED cronVars
RunsNext == Next /\ ~Busy("call2")'

MCNext ==
  /\ UNCHANGED part
  /\ \/ InPart("loop") /\ LoopNext /\ ButLoop
     \/ InPart("session") /\ SessionNext /\ ButSession
     \/ InPart("chat") /\ SChat!SessionNext /\ ButSession
     \/ InPart("attached") /\ SAttached!SessionNext /\ ButSession
     \/ InPart("cron file") /\ FileNext /\ ButCron
     \/ InPart("cron runs") /\ RunsNext /\ ButCron
     \/ InPart("expression") /\ ExprNext /\ ButExpression
     \/ InPart("call") /\ CallNext /\ ButCall
     \/ InPart("prompt") /\ PromptNext /\ ButPrompt
     \/ InPart("memories") /\ MemoryNext /\ ButMemories
     \/ InPart("config") /\ ConfigNext /\ ButConfig

\* The fairness of AgentLoop, of Session and of Cron.
MCFairness ==
  /\ WF_pc(TurnGoesOn)
  /\ WF_sessionVars(InPart("session") /\ LoopGoesOn)
  /\ WF_sessionVars(InPart("session") /\ ConnGoesOn(client))
  /\ WF_sessionVars(InPart("session") /\ ChatGoesOn(1))
  /\ WF_sessionVars(InPart("chat") /\ SChat!LoopGoesOn)
  /\ \A s \in 1..2 : WF_sessionVars(InPart("chat") /\ SChat!ChatGoesOn(s))
  /\ WF_sessionVars(InPart("attached") /\ SAttached!LoopGoesOn)
  /\ WF_sessionVars(InPart("attached") /\ SAttached!ConnGoesOn(client))
  /\ WF_cronVars(InPart("cron runs") /\ (WholeMinute \/ tick))
  /\ WF_cronVars(InPart("cron runs") /\ \E x \in fired : TryLock(x))
  /\ WF_cronVars(InPart("cron runs") /\ \E x \in active : RunEnds(x))

allVars ==
  <<part, vars, loopVars, sessionVars, exprVars, callVars, promptVars, memoryVars,
    configVars>>
MCSpec == MCInit /\ [][MCNext]_allVars /\ MCFairness

----------------------------------------------------------------------------
(* The properties of the parts, named for the cfg.  Those of Cron          *)
(* (OneRunPerJob, CronInStepWhenSerial), CronExpr (ExpressionsDenote),     *)
(* Session (ClientsFollowTurns, ChatShowsTurns, DrainWaits), MemoryStore   *)
(* (MemoriesKept), AgentLoop (HistoryKept, LoopRequestsSound), LLMCall     *)
(* (ResponseMatchesStream), AgentConfig (PromptFollowsFiles) and           *)
(* SystemPrompt (LayersCached, StickyAlwaysSent) hold in every part and    *)
(* are named there as they are: they are the same for all values of the    *)
(* bounds, and where nothing moves.                                        *)

\* Every module's variables have their types.
PartsTypeOK ==
  /\ InPart("loop") => LoopTypeOK
  /\ InPart("session") => SessionTypeOK
  /\ InPart("chat") => SChat!SessionTypeOK
  /\ InPart("attached") => SAttached!SessionTypeOK
  /\ part \in CronParts => TypeOK
  /\ InPart("call") => CallTypeOK
  /\ InPart("memories") => MemoryTypeOK
  /\ InPart("config") => ConfigTypeOK

\* AgentLoop.TurnsEnd and Session.QueuedTurnsEnd: a queued turn is run to its
\* end, which is an answer or an error.
AllTurnsEnd == TurnsEnd /\ QueuedTurnsEnd

\* Cron.DueJobsRun: a job on the list is run again and again.
ScheduledJobsRun == InPart("cron runs") => DueJobsRun
=============================================================================
