----------------------------- MODULE AgentLogs -----------------------------
(***************************************************************************)
(* The way of an agent's log lines: the agent process writes them into its *)
(* standard output, a pipe, which the hub copies in chunks of any size     *)
(* into an agentLogWriter (hub/logging.go, made anew for every process by  *)
(* the supervisor's buildCmd); that writer splits them at the newlines,    *)
(* prints them and publishes those that are JSON; `zlaw agent logs`        *)
(* (cmd/zlaw/agent_logs.go) subscribes, holds what it cannot print at once *)
(* in a bounded channel, and shows the lines of a minimum level.           *)
(*                                                                         *)
(* Lines are numbered in the order they are begun.  Each is written in two *)
(* pieces, the second of which ends with the newline.                      *)
(***************************************************************************)
EXTENDS LogLines

CONSTANTS
  LogAgents,        \* agent IDs
  Kinds,         \* of lines: levels of JSON lines, and "plain" text
  MinLevels,     \* what --level may say
  ChanCap,       \* capacity of logCh
  MaxLines, MaxExits \* bounds: lines written and processes that end

VARIABLES
  kind,      \* line -> its kind, in the order the lines are begun
  owner,     \* line -> the agent that wrote it
  open,      \* agent -> the line it is in the middle of, or 0
  whole,     \* lines written to their end
  alive,     \* agents whose process runs
  pipe,      \* agent -> pieces written and not yet copied
  buf,       \* agent -> pieces in its agentLogWriter
  attached,  \* the agents whose lines the command line asked for
  minLevel,
  bus,       \* lines on their way to the subscriber
  logCh,     \* lines in its channel
  shown,     \* lines it printed
  missed,    \* lines published before it subscribed, or with the channel full
  exits      \* counter of the bound

agentVars == <<kind, owner, open, whole, alive, pipe, buf, exits>>
followerVars == <<attached, minLevel, bus, logCh, shown, missed>>
logVars == <<agentVars, followerVars>>

Lines == DOMAIN kind

LogsInit ==
  /\ kind = <<>> /\ owner = <<>>
  /\ open = [a \in LogAgents |-> 0]
  /\ whole = {}
  /\ alive = LogAgents
  /\ pipe = [a \in LogAgents |-> <<>>]
  /\ buf = [a \in LogAgents |-> <<>>]
  /\ attached = {}
  /\ minLevel \in MinLevels
  /\ bus = <<>> /\ logCh = <<>> /\ shown = <<>>
  /\ missed = {}
  /\ exits = 0

----------------------------------------------------------------------------
(* The agent process *)

\* Of a line written in pieces the first is in the pipe.
BeginLine(a) ==
  /\ a \in alive /\ open[a] = 0
  /\ Len(kind) < MaxLines
  /\ \E k \in Kinds : kind' = Append(kind, k)
  /\ owner' = Append(owner, a)
  /\ open' = [open EXCEPT ![a] = Len(kind) + 1]
  /\ pipe' = [pipe EXCEPT ![a] = Append(@, Piece(Len(kind) + 1, FALSE))]
  /\ UNCHANGED <<whole, alive, buf, exits, followerVars>>

EndLine(a) ==
  /\ a \in alive /\ open[a] # 0
  /\ pipe' = [pipe EXCEPT ![a] = Append(@, Piece(open[a], TRUE))]
  /\ open' = [open EXCEPT ![a] = 0]
  /\ whole' = whole \union {open[a]}
  /\ UNCHANGED <<kind, owner, alive, buf, exits, followerVars>>

\* The process ends, possibly in the middle of a line.
AgentExits(a) ==
  /\ a \in alive
  /\ exits < MaxExits
  /\ alive' = alive \ {a}
  /\ open' = [open EXCEPT ![a] = 0]
  /\ exits' = exits + 1
  /\ UNCHANGED <<kind, owner, whole, pipe, buf, followerVars>>

----------------------------------------------------------------------------
(* The hub *)

\* writeLine publishes what parses as JSON and prints the rest as it is.
writeLine(lines) == Picked(lines, {i \in DOMAIN lines : kind[lines[i]] # "plain"})

\* NATS passes them on to the subscriber there is.
Publish(a, lines) ==
  IF a \in attached
    THEN bus' = bus \o lines /\ UNCHANGED missed
    ELSE missed' = missed \union ToSet(lines) /\ UNCHANGED bus

\* Mutant of WriteChunk: the buffer is emptied with every chunk.
WriteForgets(a, chunk) ==
  /\ Publish(a, writeLine(WholeLines(buf[a] \o chunk)))
  /\ buf' = [buf EXCEPT ![a] =
               IF \E i \in 1..Len(chunk) : chunk[i].last THEN <<>> ELSE @ \o chunk]

\* agentLogWriter.Write, for one chunk.
WriteChunk(a, chunk) ==
  /\ Publish(a, writeLine(WholeLines(buf[a] \o chunk)))
  /\ buf' = [buf EXCEPT ![a] = Rest(@ \o chunk)]

\* os/exec copies what the pipe holds, as much as it gets at a time.
Copy(a) ==
  /\ \E size \in 1..Len(pipe[a]) :
       /\ WriteChunk(a, SubSeq(pipe[a], 1, size))
       /\ pipe' = [pipe EXCEPT ![a] = SubSeq(@, size + 1, Len(@))]
  /\ UNCHANGED <<kind, owner, open, whole, alive, exits, attached, minLevel, logCh, shown>>

\* Wait returns once the pipe is empty; the next process gets its own writer.
Relaunch(a) ==
  /\ a \notin alive /\ pipe[a] = <<>>
  /\ alive' = alive \union {a}
  /\ buf' = [buf EXCEPT ![a] = <<>>]
  /\ UNCHANGED <<kind, owner, open, whole, pipe, exits, followerVars>>

----------------------------------------------------------------------------
(* zlaw agent logs *)

\* Run subscribes to the lines of one agent or of all.
Subscribe ==
  /\ attached = {}
  /\ attached' \in {LogAgents} \union {{a} : a \in LogAgents}
  /\ UNCHANGED <<agentVars, minLevel, bus, logCh, shown, missed>>

\* The subscription's handler: a line that finds the channel full is dropped.
Receive ==
  /\ bus # <<>>
  /\ bus' = Tail(bus)
  /\ IF Len(logCh) < ChanCap
       THEN logCh' = Append(logCh, Head(bus)) /\ UNCHANGED missed
       ELSE missed' = missed \union {Head(bus)} /\ UNCHANGED logCh
  /\ UNCHANGED <<agentVars, attached, minLevel, shown>>

\* A level it does not know counts as info, in the command and in a line.
levelToInt(level) ==
  CASE level = "debug" -> 0
    [] level = "warn" -> 2
    [] level = "error" -> 3
    [] OTHER -> 1

Selected(n) == levelToInt(kind[n]) >= levelToInt(minLevel)

printLogEntry ==
  /\ logCh # <<>>
  /\ logCh' = Tail(logCh)
  /\ shown' = IF Selected(Head(logCh)) THEN Append(shown, Head(logCh)) ELSE shown
  /\ UNCHANGED <<agentVars, attached, minLevel, bus, missed>>

LogsNext ==
  \/ \E a \in LogAgents : BeginLine(a) \/ EndLine(a) \/ AgentExits(a) \/ Copy(a) \/ Relaunch(a)
  \/ Subscribe \/ Receive \/ printLogEntry

LogsSpec == LogsInit /\ [][LogsNext]_logVars

----------------------------------------------------------------------------
(* Properties *)

\* The lines of a that a follower is to see.
Due(a) == {n \in Lines : owner[n] = a /\ kind[n] # "plain" /\ Selected(n)}

\* The lines a follower has shown, holds or is still to get are, agent by agent,
\* the whole JSON lines of its level that the agent's processes have written, in
\* their order and each once: chunks lose and join nothing, nor does a process
\* that dies in the middle of a line.  Excepted are lines published before the
\* subscription and lines that found the channel full.
FollowerGetsLines ==
  \A a \in LogAgents :
    LET lines == shown \o logCh \o bus \o WholeLines(buf[a] \o pipe[a])
    IN  /\ ToSet(lines) \intersect Due(a) = (whole \ missed) \intersect Due(a)
        /\ \A i, j \in DOMAIN lines :
             i < j /\ owner[lines[i]] = a /\ owner[lines[j]] = a => lines[i] < lines[j]
=============================================================================
