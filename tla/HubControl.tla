----------------------------- MODULE HubControl -----------------------------
(***************************************************************************)
(* The hub's control plane: zlaw.toml and the supervised set, changed by   *)
(*   - the control socket, one goroutine per connection (hub/control.go),  *)
(*   - the management and the tool inbox, one callback at a time each      *)
(*     (hub/inbox.go, hub/inbox_tool.go),                                  *)
(*   - the watcher of zlaw.toml (app/hub.go).                              *)
(* No lock spans two of a handler's steps, and zlaw.toml is rewritten in   *)
(* place: it is empty between the truncation and the write.  A thread's    *)
(* remaining steps are a sequence of <<step, agent>> pairs.                *)
(*                                                                         *)
(* What Stop, Restart and Remove do to the process is Supervisor's         *)
(* business, what Deregister does to the registry is Registry's: here an   *)
(* agent is unknown to the supervisor, live (a monitor launches it as      *)
(* policy says) or stopped (its monitor has ended).                        *)
(***************************************************************************)
EXTENDS Integers, FiniteSets, SequencesExt

CONSTANTS
  AgentIDs,     \* agent IDs
  Configured,   \* the agents of zlaw.toml when the hub first starts, in its order
  Conns,        \* goroutines serving control-socket connections
  TomlDisabled, \* agents whose agent.toml says disabled = true
  Requested,    \* bounds: the agents that requests are about,
  MaxRequests,  \* requests sent
  MaxRestarts   \* and hub restarts

\* There are finitely many agents; the inboxes and the watcher are no connections.
ASSUME HubAssumption ==
  /\ IsFiniteSet(AgentIDs)
  /\ Configured \in Seq(AgentIDs)
  /\ Requested \subseteq AgentIDs
  /\ Conns \cap {"mgmt", "tool", "watcher"} = {}

Threads == Conns \union {"mgmt", "tool", "watcher"}

VARIABLES
  up,         \* the hub process runs
  file,       \* zlaw.toml: its agent entries, and whether it still parses
  sup,        \* supervisor's map: "none", "live" or "stopped"
  pending,    \* the watcher saw a write since its last reload
  steps,      \* thread -> steps it has still to do
  content,    \* thread -> the entries it read from zlaw.toml
  requests, restarts,  \* counters of the bounds
  requestsOverlapped   \* two requests were in progress at the same time

countVars == <<requests, restarts>>
controlVars == <<up, file, sup, pending, steps, content, countVars, requestsOverlapped>>

Entry(a, d) == [id |-> a, disabled |-> d]
IDsOf(entries) == {entries[i].id : i \in DOMAIN entries}
IsListed(a) == a \in IDsOf(file.entries)

ControlInit ==
  /\ up = TRUE
  /\ file = [entries |-> [i \in DOMAIN Configured |-> Entry(Configured[i], FALSE)],
             torn |-> FALSE]
  /\ sup = [a \in AgentIDs |-> IF IsListed(a) THEN "live" ELSE "none"]
  /\ pending = FALSE
  /\ steps = [t \in Threads |-> <<>>]
  /\ content = [t \in Threads |-> <<>>]
  /\ requests = 0 /\ restarts = 0
  /\ requestsOverlapped = FALSE

----------------------------------------------------------------------------
(* The handlers, as the steps they take when every one of them succeeds *)

RewriteFile(a, how) == <<<<how, a>>, <<"truncate", a>>, <<"write", a>>>>

\* Supervisor.Remove: stop the handle, later delete the name from the map.
SupervisorRemove(a) == <<<<"stop", a>>, <<"delete", a>>>>

agentStop(a) == <<<<"stopOrFail", a>>>>
agentRestart(a) == <<<<"restart", a>>>>

\* Mutant of agentRemove: zlaw.toml first, the supervisor afterwards.
agentRemoveFileFirst(a) ==
  RewriteFile(a, "readToRemove") \o SupervisorRemove(a)

agentRemove(a) ==
  SupervisorRemove(a) \o RewriteFile(a, "readToRemove")

agentDisable(a) == <<<<"stop", a>>>> \o RewriteFile(a, "readToDisable")
agentEnable(a) == RewriteFile(a, "readToEnable")

\* The socket passes the ID under the key "name": the inbox's handler misses
\* its "id" and fails before it does anything.
AgentCreate(a) == <<<<"fail", a>>>>

opAgentCreate(a) ==
  <<<<"checkDir", a>>>> \o RewriteFile(a, "readToAdd") \o <<<<"spawnOrFail", a>>>>
opAgentStop(a) == <<<<"stopOrFail", a>>>>
opAgentRestart(a) == <<<<"restart", a>>>>
\* The inbox's remove leaves zlaw.toml and the supervisor's map alone.
opAgentRemove(a) == <<<<"stop", a>>>>

\* ControlSocket.dispatch, ManagementHandler.dispatch and
\* HubInbox.HandleToolRequest; reads change nothing and are left out.
dispatch(a) == {AgentCreate(a), agentStop(a), agentRestart(a), agentDisable(a),
                agentEnable(a), agentRemove(a)}
managementDispatch(a) ==
  {opAgentCreate(a), opAgentStop(a), opAgentRestart(a), opAgentRemove(a)}
HandleToolRequest(a) == {agentStop(a), agentRestart(a)}

Handlers(t, a) ==
  CASE t \in Conns -> dispatch(a)
    [] t = "mgmt" -> managementDispatch(a)
    [] t = "tool" -> HandleToolRequest(a)
    [] OTHER -> {}

\* A request arrives.  A client that gave up waiting (its deadline is 1 s)
\* may send the next one while its first is still being handled.
Request(t, a) ==
  /\ up
  /\ steps[t] = <<>>
  /\ requests < MaxRequests
  /\ \E h \in Handlers(t, a) : steps' = [steps EXCEPT ![t] = h]
  /\ requests' = requests + 1
  /\ requestsOverlapped' =
       (requestsOverlapped \/ \E u \in Threads \ {"watcher"} : steps[u] # <<>>)
  /\ UNCHANGED <<up, file, sup, pending, content, restarts>>

----------------------------------------------------------------------------
(* One step of a handler *)

Doing(t, step) == steps[t] # <<>> /\ steps[t][1][1] = step
Subject(t) == steps[t][1][2]

Leave(t, rest) == steps' = [steps EXCEPT ![t] = rest]
StepDone(t) == Leave(t, Tail(steps[t]))

\* An error return, and the error reply, skip the remaining steps.
Fail(t) == Leave(t, <<>>)

\* The agent's directory need not exist.
FailEarly(t) ==
  /\ Doing(t, "fail") \/ Doing(t, "checkDir")
  /\ Fail(t)
  /\ UNCHANGED <<up, file, sup, pending, content, countVars, requestsOverlapped>>

DirExists(t) ==
  /\ Doing(t, "checkDir")
  /\ StepDone(t)
  /\ UNCHANGED <<up, file, sup, pending, content, countVars, requestsOverlapped>>

\* Supervisor.Stop.  Its error ends a stop request; disable and remove log it
\* and go on; inside Supervisor.Remove it also skips the deletion.
Stop(t) ==
  /\ Doing(t, "stop") \/ Doing(t, "stopOrFail")
  /\ sup' = [sup EXCEPT ![Subject(t)] = IF @ = "none" THEN "none" ELSE "stopped"]
  /\ \/ sup[Subject(t)] # "none" /\ StepDone(t)
     \/ sup[Subject(t)] = "none" /\ Doing(t, "stopOrFail") /\ Fail(t)
     \/ /\ sup[Subject(t)] = "none" /\ Doing(t, "stop")
        /\ Leave(t, IF Len(steps[t]) > 1 /\ steps[t][2][1] = "delete"
                      THEN Tail(Tail(steps[t])) ELSE Tail(steps[t]))
  /\ UNCHANGED <<up, file, pending, content, countVars, requestsOverlapped>>

Delete(t) ==
  /\ Doing(t, "delete")
  /\ sup' = [sup EXCEPT ![Subject(t)] = "none"]
  /\ StepDone(t)
  /\ UNCHANGED <<up, file, pending, content, countVars, requestsOverlapped>>

\* A live agent's process is replaced; a stopped one's monitor has ended.
Restart(t) ==
  /\ Doing(t, "restart")
  /\ IF sup[Subject(t)] = "none" THEN Fail(t) ELSE StepDone(t)
  /\ UNCHANGED <<up, file, sup, pending, content, countVars, requestsOverlapped>>

SupervisorSpawn(t) ==
  /\ Doing(t, "spawn") \/ Doing(t, "spawnOrFail")
  /\ sup' = [sup EXCEPT ![Subject(t)] = IF @ = "none" THEN "live" ELSE @]
  /\ IF Doing(t, "spawnOrFail") /\ sup[Subject(t)] # "none" THEN Fail(t) ELSE StepDone(t)
  /\ UNCHANGED <<up, file, pending, content, countVars, requestsOverlapped>>

----------------------------------------------------------------------------
(* zlaw.toml: read, change, truncate, write *)

\* An empty list is written and read back as no "agents" section at all.
HasAgentsSection == file.entries # <<>>

\* The loop that copies the entries of all but some IDs: the k-th that is kept
\* has k - 1 kept ones before it.
EntriesBut(entries, ids) ==
  LET kept == {i \in DOMAIN entries : entries[i].id \notin ids}
      Before(i) == Cardinality({j \in kept : j < i})
  IN [k \in 1..Cardinality(kept) |-> entries[CHOOSE i \in kept : Before(i) = k - 1]]

RemoveAgent(entries, a) == EntriesBut(entries, {a})
AddAgent(entries, a) == Append(entries, Entry(a, FALSE))

\* Only the first entry with the ID is changed.
SetAgentDisabled(entries, a, d) ==
  LET first == CHOOSE i \in DOMAIN entries :
                 /\ entries[i].id = a
                 /\ \A j \in 1..(i - 1) : entries[j].id # a
  IN [entries EXCEPT ![first].disabled = d]

\* The read half of RemoveAgent, AddAgent and SetAgentDisabled.
ReadConfig(t) ==
  /\ \E how \in {"readToAdd", "readToRemove", "readToDisable", "readToEnable"} :
       /\ Doing(t, how)
       /\ LET a == Subject(t) IN
          IF \/ file.torn
             \/ how # "readToAdd" /\ ~HasAgentsSection
             \/ how \in {"readToDisable", "readToEnable"} /\ ~IsListed(a)
          THEN Fail(t) /\ UNCHANGED content
          ELSE /\ content' = [content EXCEPT ![t] =
                    CASE how = "readToAdd" -> AddAgent(file.entries, a)
                      [] how = "readToRemove" -> RemoveAgent(file.entries, a)
                      [] how = "readToDisable" -> SetAgentDisabled(file.entries, a, TRUE)
                      [] OTHER -> SetAgentDisabled(file.entries, a, FALSE)]
               /\ StepDone(t)
  /\ UNCHANGED <<up, file, sup, pending, countVars, requestsOverlapped>>

\* os.WriteFile, first half: O_TRUNC.  The watcher is told of both halves.
Truncate(t) ==
  /\ Doing(t, "truncate")
  /\ file' = [entries |-> <<>>, torn |-> FALSE]
  /\ pending' = TRUE
  /\ StepDone(t)
  /\ UNCHANGED <<up, sup, content, countVars, requestsOverlapped>>

\* Bytes of the entries: a disabled entry has one line more.
Size(entries) == Len(entries) + Cardinality({i \in DOMAIN entries : entries[i].disabled})

\* What a file holding old may hold after new is written over its beginning:
\* the tail of a longer old content is left, and may or may not parse.
Overwritten(old, new) ==
  IF Size(old) <= Size(new) THEN {[entries |-> new, torn |-> FALSE]}
  ELSE {[entries |-> <<>>, torn |-> TRUE]}
       \union {[entries |-> new \o SubSeq(old, Len(new) + 1, Len(old)), torn |-> FALSE]}

\* Mutant of Write: the watcher is told of the truncation only.
WriteUnnoticed(t) ==
  /\ Doing(t, "write")
  /\ file' \in Overwritten(file.entries, content[t])
  /\ content' = [content EXCEPT ![t] = <<>>]
  /\ StepDone(t)
  /\ UNCHANGED <<up, sup, pending, countVars, requestsOverlapped>>

Write(t) ==
  /\ Doing(t, "write")
  /\ file' \in Overwritten(file.entries, content[t])
  /\ pending' = TRUE
  /\ content' = [content EXCEPT ![t] = <<>>]
  /\ StepDone(t)
  /\ UNCHANGED <<up, sup, countVars, requestsOverlapped>>

----------------------------------------------------------------------------
(* The watcher *)

\* The debounce ticker fires after a write.
Tick ==
  /\ up /\ pending
  /\ steps["watcher"] = <<>>
  /\ pending' = FALSE
  /\ steps' = [steps EXCEPT !["watcher"] = <<<<"load", "">>>>]
  /\ UNCHANGED <<up, file, sup, content, countVars, requestsOverlapped>>

Load ==
  /\ Doing("watcher", "load")
  /\ steps' = [steps EXCEPT !["watcher"] = IF file.torn THEN <<>> ELSE <<<<"snapshot", "">>>>]
  /\ content' = [content EXCEPT !["watcher"] = file.entries]
  /\ UNCHANGED <<up, file, sup, pending, countVars, requestsOverlapped>>

\* What reloadConfig is going to do, from the list it loaded and the names it
\* found supervised.  A stopped agent is still supervised; zlaw.toml's own
\* disabled flag is not looked at.
reloadConfig ==
  LET supervised == {a \in AgentIDs : sup[a] # "none"}
      gone == SetToSeq(supervised \ IDsOf(content["watcher"]))
      new == EntriesBut(content["watcher"], supervised \union TomlDisabled)
  IN [i \in 1..(2 * Len(gone)) |-> SupervisorRemove(gone[(i + 1) \div 2])[2 - (i % 2)]]
     \o [i \in DOMAIN new |-> <<"spawn", new[i].id>>]

\* Mutant of Snapshot: the flag is cleared once the reload is under way.
SnapshotClearsPending ==
  /\ Doing("watcher", "snapshot")
  /\ steps' = [steps EXCEPT !["watcher"] = reloadConfig]
  /\ content' = [content EXCEPT !["watcher"] = <<>>]
  /\ pending' = FALSE
  /\ UNCHANGED <<up, file, sup, countVars, requestsOverlapped>>

Snapshot ==
  /\ Doing("watcher", "snapshot")
  /\ steps' = [steps EXCEPT !["watcher"] = reloadConfig]
  /\ content' = [content EXCEPT !["watcher"] = <<>>]
  /\ UNCHANGED <<up, file, sup, pending, countVars, requestsOverlapped>>

----------------------------------------------------------------------------
(* The hub process and its agents *)

\* The monitor takes an exit as final.
MonitorEnds(a) ==
  /\ sup[a] = "live"
  /\ sup' = [sup EXCEPT ![a] = "stopped"]
  /\ UNCHANGED <<up, file, pending, steps, content, countVars, requestsOverlapped>>

\* Shutdown or crash, at any point of a handler.
HubStops ==
  /\ up
  /\ restarts < MaxRestarts
  /\ up' = FALSE
  /\ restarts' = restarts + 1
  /\ sup' = [a \in AgentIDs |-> "none"]
  /\ pending' = FALSE
  /\ steps' = [t \in Threads |-> <<>>]
  /\ content' = [t \in Threads |-> <<>>]
  /\ UNCHANGED <<file, requests, requestsOverlapped>>

\* Supervisor.Start spawns every entry, disabled or not.
runHub ==
  /\ ~up
  /\ ~file.torn
  /\ up' = TRUE
  /\ sup' = [a \in AgentIDs |-> IF IsListed(a) THEN "live" ELSE "none"]
  /\ requestsOverlapped' = FALSE
  /\ UNCHANGED <<file, pending, steps, content, countVars>>

HandlerStep(t) ==
  \/ FailEarly(t) \/ DirExists(t) \/ Stop(t) \/ Delete(t) \/ Restart(t)
  \/ SupervisorSpawn(t) \/ ReadConfig(t) \/ Truncate(t) \/ Write(t)

WatcherStep == Tick \/ Load \/ Snapshot

ControlNext ==
  \/ \E t \in Threads : (\E a \in Requested : Request(t, a)) \/ HandlerStep(t)
  \/ WatcherStep
  \/ \E a \in AgentIDs : MonitorEnds(a)
  \/ HubStops \/ runHub

ControlSpec == ControlInit /\ [][ControlNext]_controlVars

\* Handlers run to their end and the watcher's ticker keeps ticking; nobody has
\* to send requests, and the hub need not be started again.
FairControlSpec ==
  /\ ControlSpec
  /\ \A t \in Threads : WF_controlVars(HandlerStep(t))
  /\ WF_controlVars(WatcherStep)

----------------------------------------------------------------------------
(* Properties *)

Quiet == up /\ ~pending /\ \A t \in Threads : steps[t] = <<>>

Supervised == {a \in AgentIDs : sup[a] # "none"}

\* However requests, reloads and hub restarts interleave, once everything is
\* quiet each agent that zlaw.toml lists is supervised (unless its agent.toml
\* disables it): the order of a removal's steps and of the watcher's leave no
\* listed agent behind.
FileAgentsSupervised ==
  Quiet => IDsOf(file.entries) \ TomlDisabled \subseteq Supervised

\* As long as requests come one after the other, zlaw.toml parses and the
\* supervised set is exactly its list when everything is quiet, although the
\* watcher may have reloaded between any two steps of a request.
InStepWhenSerial ==
  ~requestsOverlapped =>
    /\ ~file.torn
    /\ Quiet => IDsOf(file.entries) \ TomlDisabled = Supervised \ TomlDisabled

\* An agent added to zlaw.toml is supervised in the end, or leaves the file
\* again, also if a reload in between saw the file empty and removed it.
AddedIsSupervised ==
  \A a \in AgentIDs \ TomlDisabled :
    up /\ IsListed(a) ~> ~up \/ sup[a] # "none" \/ ~IsListed(a)

=============================================================================
