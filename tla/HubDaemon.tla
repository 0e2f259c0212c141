------------------------------ MODULE HubDaemon ------------------------------
(***************************************************************************)
(* Hub processes and what outlives them: the commands `zlaw hub start`,    *)
(* `stop`, `restart` and `run` (app/hub_daemon.go), the PID file and the   *)
(* control socket's path they share, the start-up and the end of a hub     *)
(* process (runHub in app/hub.go, hub/nats.go, hub/acl.go), and the agent  *)
(* processes with their connections to the embedded NATS server.           *)
(*                                                                         *)
(* Hub processes are numbered in the order they are created; 0 stands for  *)
(* none.  A hub's agents are not its children to kill: they outlive it.    *)
(* Agents have the default restart policy, and fail whenever they exit.    *)
(***************************************************************************)
EXTENDS Integers, Sequences, FiniteSets

CONSTANTS
  Agents,    \* agent IDs
  Listed,    \* the agents of zlaw.toml at first
  Addable,   \* agents that may be added to it
  Commands,  \* command-line processes
  MaxHubs,   \* bounds: hub processes created,
  MaxInvocations, \* commands given,
  MaxDeaths  \* and deaths of agent processes

\* The bound on hub processes is a number: 0 names none of them.
ASSUME DaemonAssumption == MaxHubs \in Nat

VARIABLES
  listed,   \* agents of zlaw.toml
  pidFile,  \* hub named by hub.pid; 0: there is no file, or it is empty
  sock,     \* hub whose listener was bound to control.sock; 0: no such file
  port,     \* hub whose server listens on the NATS address
  stage,    \* hub -> "none", "created", "nats", "spawned", "serving" or "gone"
  signal,   \* hub -> "none", "TERM" or "KILL"
  tokens,   \* hub -> agents it made a token for
  proc,     \* <<hub, agent>> -> the agent process that hub started
  todo,     \* command -> steps it has still to do
  pid,      \* command -> hub it works on
  invocations, deaths, \* counters of the bounds
  overlapped \* two commands ran at once, or a hub was run in the foreground

hubVars == <<stage, signal, tokens, port, sock>>
commandVars == <<todo, pid, invocations, overlapped>>
vars == <<listed, pidFile, hubVars, proc, deaths, commandVars>>

Hubs == 1..MaxHubs
Alive(n) == stage[n] \notin {"none", "gone"}
Created == Cardinality({n \in Hubs : stage[n] # "none"})

Init ==
  /\ listed = Listed
  /\ pidFile = 0 /\ sock = 0 /\ port = 0
  /\ stage = [n \in Hubs |-> "none"]
  /\ signal = [n \in Hubs |-> "none"]
  /\ tokens = [n \in Hubs |-> {}]
  /\ proc = [p \in Hubs \X Agents |-> "none"]
  /\ todo = [c \in Commands |-> <<>>]
  /\ pid = [c \in Commands |-> 0]
  /\ invocations = 0 /\ deaths = 0
  /\ overlapped = FALSE

----------------------------------------------------------------------------
(* The commands *)

isHubRunning == <<"readPID", "checkPID">>
StartHub == isHubRunning \o <<"removeSocket", "fork", "writePID">>
StopHub == isHubRunning \o <<"terminate", "wait", "cleanup">>

Invocations == {StartHub, StopHub, StopHub \o StartHub, <<"fork">>}

Invoke(c) ==
  /\ todo[c] = <<>>
  /\ invocations < MaxInvocations
  /\ \E command \in Invocations :
       /\ todo' = [todo EXCEPT ![c] = command]
       /\ overlapped' = (overlapped \/ command = <<"fork">> \/ \E d \in Commands : todo[d] # <<>>)
  /\ pid' = [pid EXCEPT ![c] = 0]
  /\ invocations' = invocations + 1
  /\ UNCHANGED <<listed, pidFile, hubVars, proc, deaths>>

At(c, step) == todo[c] # <<>> /\ Head(todo[c]) = step
Continue(c, rest) == todo' = [todo EXCEPT ![c] = rest] /\ UNCHANGED <<invocations, overlapped>>
Proceed(c) == Continue(c, Tail(todo[c]))

Stopping(c) == Len(todo[c]) > 1 /\ todo[c][2] = "terminate"
\* What is left once there turned out to be no hub to stop.
NotRunning(c) == IF Stopping(c) THEN SubSeq(todo[c], 5, Len(todo[c])) ELSE Tail(todo[c])

ReadPID(c) ==
  /\ At(c, "readPID")
  /\ pid' = [pid EXCEPT ![c] = pidFile]
  /\ Proceed(c)
  /\ UNCHANGED <<listed, pidFile, hubVars, proc, deaths>>

\* Signal 0; the PID file of a hub that is gone is removed.
CheckPID(c) ==
  /\ At(c, "checkPID")
  /\ \/ /\ pid[c] # 0 /\ Alive(pid[c])
        /\ Continue(c, IF Stopping(c) THEN Tail(todo[c]) ELSE <<>>)
        /\ UNCHANGED pidFile
     \/ /\ pid[c] # 0 /\ ~Alive(pid[c])
        /\ Continue(c, NotRunning(c))
        /\ pidFile' = 0
     \/ /\ pid[c] = 0
        /\ Continue(c, NotRunning(c))
        /\ UNCHANGED pidFile
  /\ UNCHANGED <<listed, hubVars, proc, deaths, pid>>

\* A socket file is taken to be left over from a crashed hub.
RemoveSocket(c) ==
  /\ At(c, "removeSocket")
  /\ sock' = 0
  /\ Proceed(c)
  /\ UNCHANGED <<listed, pidFile, stage, signal, tokens, port, proc, deaths, pid>>

Fork(c) ==
  /\ At(c, "fork")
  /\ Created < MaxHubs
  /\ stage' = [stage EXCEPT ![Created + 1] = "created"]
  /\ pid' = [pid EXCEPT ![c] = Created + 1]
  /\ Proceed(c)
  /\ UNCHANGED <<listed, pidFile, signal, tokens, port, sock, proc, deaths>>

\* os.WriteFile: the file is empty for a moment.
WritePID(c) ==
  /\ At(c, "writePID")
  /\ \/ /\ pidFile # 0
        /\ pidFile' = 0
        /\ UNCHANGED <<todo, invocations, overlapped>>
     \/ /\ pidFile = 0
        /\ pidFile' = pid[c]
        /\ Proceed(c)
  /\ UNCHANGED <<listed, hubVars, proc, deaths, pid>>

\* SIGTERM.  If the hub is gone by now the command fails and leaves the file.
Terminate(c) ==
  /\ At(c, "terminate")
  /\ \/ /\ Alive(pid[c])
        /\ signal' = [signal EXCEPT ![pid[c]] = IF @ = "KILL" THEN @ ELSE "TERM"]
        /\ Proceed(c)
     \/ /\ ~Alive(pid[c])
        /\ Continue(c, <<>>)
        /\ UNCHANGED signal
  /\ UNCHANGED <<listed, pidFile, stage, tokens, port, sock, proc, deaths, pid>>

\* Mutant of Waits: the command does not wait.
WaitsNot(c) ==
  /\ At(c, "wait")
  /\ Proceed(c)
  /\ UNCHANGED <<listed, pidFile, hubVars, proc, deaths, pid>>

\* Five seconds for the hub to go, then SIGKILL, whose effect is not awaited.
Waits(c) ==
  /\ At(c, "wait")
  /\ \/ ~Alive(pid[c]) /\ UNCHANGED signal
     \/ Alive(pid[c]) /\ signal' = [signal EXCEPT ![pid[c]] = "KILL"]
  /\ Proceed(c)
  /\ UNCHANGED <<listed, pidFile, stage, tokens, port, sock, proc, deaths, pid>>

cleanupPIDFile(c) ==
  /\ At(c, "cleanup")
  /\ pidFile' = 0
  /\ Proceed(c)
  /\ UNCHANGED <<listed, hubVars, proc, deaths, pid>>

CommandStep(c) ==
  \/ ReadPID(c) \/ CheckPID(c) \/ RemoveSocket(c) \/ Fork(c) \/ WritePID(c)
  \/ Terminate(c) \/ Waits(c) \/ cleanupPIDFile(c)

----------------------------------------------------------------------------
(* A hub process *)

Runs(n, s) == stage[n] = s /\ signal[n] # "KILL"
Reaches(n, s) == stage' = [stage EXCEPT ![n] = s]

\* The agents that get a token, for this server only: those listed now.
BuildHubACL == listed

\* With the address taken the server never gets ready, and the hub fails.
StartNATS(n) ==
  /\ Runs(n, "created")
  /\ \/ /\ port = 0
        /\ port' = n
        /\ tokens' = [tokens EXCEPT ![n] = BuildHubACL]
        /\ Reaches(n, "nats")
     \/ /\ port # 0
        /\ Reaches(n, "gone")
        /\ UNCHANGED <<port, tokens>>
  /\ UNCHANGED <<listed, pidFile, signal, sock, proc, deaths, commandVars>>

StartSupervisor(n) ==
  /\ Runs(n, "nats")
  /\ Reaches(n, "spawned")
  /\ proc' = [p \in Hubs \X Agents |->
                IF p[1] = n /\ p[2] \in tokens[n] THEN "starting" ELSE proc[p]]
  /\ UNCHANGED <<listed, pidFile, signal, tokens, port, sock, deaths, commandVars>>

\* A process that was connected to n's server notices that it is gone.
Disconnected(n) == [p \in Hubs \X Agents |-> IF proc[p] = "connected" THEN "cut" ELSE proc[p]]

\* The end of hub n, after which the control socket's file is file.
Ends(n, file) ==
  /\ Reaches(n, "gone")
  /\ sock' = file
  /\ IF port = n THEN port' = 0 /\ proc' = Disconnected(n) ELSE UNCHANGED <<port, proc>>
  /\ UNCHANGED <<listed, pidFile, signal, tokens, deaths, commandVars>>

\* A file in the way, live or stale, fails the hub; its agents run by now.
StartControlSocket(n) ==
  /\ Runs(n, "spawned")
  /\ \/ /\ sock = 0
        /\ sock' = n
        /\ Reaches(n, "serving")
        /\ UNCHANGED <<listed, pidFile, signal, tokens, port, proc, deaths, commandVars>>
     \/ /\ sock # 0
        /\ Ends(n, sock)

\* ctx is done: the server is shut down by a goroutine of its own,
StopNATS(n) ==
  /\ Alive(n)
  /\ signal[n] = "TERM"
  /\ port = n
  /\ port' = 0
  /\ proc' = Disconnected(n)
  /\ UNCHANGED <<listed, pidFile, stage, signal, tokens, sock, deaths, commandVars>>

\* and the listener's Close removes the file, whoever bound it.
Shutdown(n) ==
  /\ Alive(n)
  /\ signal[n] = "TERM"
  /\ Ends(n, IF stage[n] = "serving" THEN 0 ELSE sock)

\* Killed, or crashed.
Dies(n) ==
  /\ Alive(n)
  /\ Ends(n, sock)

HubStep(n) ==
  \/ StartNATS(n) \/ StartSupervisor(n) \/ StartControlSocket(n)
  \/ StopNATS(n) \/ Shutdown(n)
  \/ (signal[n] = "KILL" /\ Dies(n))

----------------------------------------------------------------------------
(* Agents *)

\* The control socket adds an agent to zlaw.toml.
AgentAdded(a) ==
  /\ a \in Addable \ listed
  /\ sock # 0 /\ stage[sock] = "serving"
  /\ listed' = listed \union {a}
  /\ UNCHANGED <<pidFile, hubVars, proc, deaths, commandVars>>

\* Mutant of Spawn: an agent that has failed is not started again.
SpawnOnce(n, a) ==
  /\ Runs(n, "spawned") \/ Runs(n, "serving")
  /\ deaths = 0
  /\ a \in tokens[n] \/ (stage[n] = "serving" /\ a \in listed)
  /\ proc[<<n, a>>] = "none"
  /\ proc' = [proc EXCEPT ![<<n, a>>] = "starting"]
  /\ UNCHANGED <<listed, pidFile, hubVars, deaths, commandVars>>

\* The monitor launches a failed agent again; the watcher spawns an added one.
Spawn(n, a) ==
  /\ Runs(n, "spawned") \/ Runs(n, "serving")
  /\ a \in tokens[n] \/ (stage[n] = "serving" /\ a \in listed)
  /\ proc[<<n, a>>] = "none"
  /\ proc' = [proc EXCEPT ![<<n, a>>] = "starting"]
  /\ UNCHANGED <<listed, pidFile, hubVars, deaths, commandVars>>

\* Mutant of Accepts: an agent's token is the same for every server.
AcceptsSameToken(server, p) == p[2] \in tokens[p[1]] /\ p[2] \in tokens[server]

\* The process has a token, and this server knows it.
Accepts(server, p) == p[2] \in tokens[p[1]] /\ server = p[1]

\* Without a server, or turned away by it, a starting agent fails.
Connects(p) ==
  /\ proc[p] = "starting"
  /\ proc' = [proc EXCEPT ![p] = IF port # 0 /\ Accepts(port, p) THEN "connected" ELSE "none"]
  /\ UNCHANGED <<listed, pidFile, hubVars, deaths, commandVars>>

\* A running agent tries again until it is turned away or has tried too often;
\* then it goes on without a connection.
Reconnects(p) ==
  /\ proc[p] = "cut"
  /\ proc' = [proc EXCEPT ![p] = IF port # 0 /\ Accepts(port, p) THEN "connected" ELSE "alone"]
  /\ UNCHANGED <<listed, pidFile, hubVars, deaths, commandVars>>

AgentDies(p) ==
  /\ proc[p] # "none"
  /\ deaths < MaxDeaths
  /\ deaths' = deaths + 1
  /\ proc' = [proc EXCEPT ![p] = "none"]
  /\ UNCHANGED <<listed, pidFile, hubVars, commandVars>>

Next ==
  \/ \E c \in Commands : Invoke(c) \/ CommandStep(c)
  \/ \E n \in Hubs : HubStep(n) \/ Dies(n)
  \/ \E a \in Agents : AgentAdded(a) \/ \E n \in Hubs : Spawn(n, a)
  \/ \E p \in Hubs \X Agents : Connects(p) \/ Reconnects(p) \/ AgentDies(p)

Spec == Init /\ [][Next]_vars

\* Hubs and agents get on with what they do; no command need be given.
AgentGoesOn(n, a) == Spawn(n, a) \/ Connects(<<n, a>>)
FairSpec ==
  /\ Spec
  /\ \A n \in Hubs : WF_vars(HubStep(n)) /\ \A a \in Agents : WF_vars(AgentGoesOn(n, a))

----------------------------------------------------------------------------
(* Properties *)

\* Although agents outlive their hub and the next hub starts them once more, no
\* two processes of an agent are on the bus, where they would share one inbox
\* consumer: servers replace one another, and each knows only its own tokens.
NoDoubleOnBus ==
  \A p, q \in Hubs \X Agents :
    proc[p] = "connected" /\ proc[q] = "connected" /\ p[2] = q[2] => p = q

\* As long as commands are given one after the other and no hub is run in the
\* foreground, a hub that lives can be found by those that come after: its PID
\* is in the file, and once it serves, its socket is where the clients look.
HubFindable ==
  ~overlapped /\ (\A c \in Commands : todo[c] = <<>>) =>
    \A n \in Hubs :
      Alive(n) /\ signal[n] = "none" => pidFile = n /\ (stage[n] = "serving" => sock = n)

\* The hub that serves made a token for a when it started.
ServedWithToken(a) == \E n \in Hubs : stage[n] = "serving" /\ a \in tokens[n]

\* The agents a hub found in zlaw.toml when it started join its bus, whatever
\* other hub processes and their agents do, unless the hub goes first.
ConfiguredJoin ==
  \A a \in Agents :
    ServedWithToken(a) ~>
      ~ServedWithToken(a) \/ \E n \in Hubs : stage[n] = "serving" /\ proc[<<n, a>>] = "connected"

=============================================================================
