------------------------------ MODULE CronFile ------------------------------
(***************************************************************************)
(* cron.toml and the scheduler's list of jobs.  The tools cronjob_create   *)
(* and cronjob_delete (tools/builtin/cronjobs.go) read, change and rewrite *)
(* the file, then reload the scheduler; the calls of one model response    *)
(* run concurrently.  The config watcher (config/config.go) reloads it as  *)
(* well.  No lock covers more than one of these steps.                     *)
(***************************************************************************)
EXTENDS AtomicFile

CONSTANTS
  JobIDs, \* jobs a tool call may create
  Calls,  \* concurrent tool calls
  MaxOps  \* bound on tool calls

VARIABLES
  jobs,    \* Scheduler.jobs
  step,    \* thread -> next step of its handler
  local,   \* thread -> the list it has in hand
  op,      \* call -> the change it makes
  pending, \* an event on cron.toml that the watcher has not handled
  promised,\* the jobs that exist according to the answers given
  ops,     \* tool calls so far
  overlapped \* two calls have been in progress at the same time

cronFileVars == <<fileVars, jobs, step, local, op, pending, promised, ops, overlapped>>

NoOp == [kind |-> "none", id |-> "none"]
Busy(t) == step[t] # "idle"

\* The agent starts with any cron.toml.
CronFileInit ==
  /\ jobs \in SUBSET JobIDs
  /\ FileInit(jobs)
  /\ step = [t \in Threads |-> "idle"]
  /\ local = [t \in Threads |-> {}]
  /\ op = [c \in Calls |-> NoOp]
  /\ pending = FALSE
  /\ promised = jobs /\ ops = 0 /\ overlapped = FALSE

Goes(t, next) == step' = [step EXCEPT ![t] = next]
Holds(t, list) == local' = [local EXCEPT ![t] = list]

\* LoadCronConfig, then the check for a duplicate or a missing ID; an error ends
\* the call.
Begin(c, kind, id) ==
  /\ ~Busy(c) /\ ops < MaxOps
  /\ ops' = ops + 1
  /\ overlapped' = (overlapped \/ \E d \in Calls \ {c} : Busy(d))
  /\ IF file.torn \/ (kind = "create") = (id \in file.value)
     THEN UNCHANGED <<step, local, op>>
     ELSE /\ Goes(c, "open")
          /\ Holds(c, IF kind = "create" THEN file.value \union {id} ELSE file.value \ {id})
          /\ op' = [op EXCEPT ![c] = [kind |-> kind, id |-> id]]
  /\ UNCHANGED <<fileVars, jobs, pending, promised>>

CreateCronjob(c, id) == Begin(c, "create", id)
DeleteCronjob(c, id) == Begin(c, "delete", id)

Open(c) ==
  /\ step[c] = "open"
  /\ OpenTmp(c)
  /\ Goes(c, "write")
  /\ UNCHANGED <<jobs, local, op, pending, promised, ops, overlapped>>

Write(c) ==
  /\ step[c] = "write"
  /\ WriteTmp(c, local[c])
  /\ pending' = (pending \/ fd[c] = "file")
  /\ Goes(c, "rename") /\ Holds(c, {})
  /\ UNCHANGED <<jobs, op, promised, ops, overlapped>>

\* A failed rename is the call's error.
Rename(c) ==
  /\ step[c] = "rename"
  /\ IF CanRename
     THEN /\ RenameTmp
          /\ pending' = TRUE
          /\ Goes(c, "load")
     ELSE /\ UNCHANGED <<fileVars, pending>>
          /\ Goes(c, "idle")
  /\ UNCHANGED <<jobs, local, op, promised, ops, overlapped>>

\* ReloadCron does nothing when the file does not parse.
LoadAgain(c) ==
  /\ step[c] = "load"
  /\ Goes(c, IF file.torn THEN "answer" ELSE "reload")
  /\ Holds(c, file.value)
  /\ UNCHANGED <<fileVars, jobs, op, pending, promised, ops, overlapped>>

Reload(c) ==
  /\ step[c] = "reload"
  /\ jobs' = local[c]
  /\ Goes(c, "answer")
  /\ UNCHANGED <<fileVars, local, op, pending, promised, ops, overlapped>>

Applied(c) ==
  IF op[c].kind = "create" THEN promised \union {op[c].id} ELSE promised \ {op[c].id}

Answer(c) ==
  /\ step[c] = "answer"
  /\ promised' = Applied(c)
  /\ op' = [op EXCEPT ![c] = NoOp]
  /\ Holds(c, {})
  /\ Goes(c, "idle")
  /\ UNCHANGED <<fileVars, jobs, pending, ops, overlapped>>

\* Watch takes an event; a file that does not parse is logged.
WatchLoad ==
  /\ step["watcher"] = "idle" /\ pending
  /\ pending' = FALSE
  /\ IF file.torn THEN UNCHANGED <<step, local>>
     ELSE Goes("watcher", "reload") /\ Holds("watcher", file.value)
  /\ UNCHANGED <<fileVars, jobs, op, promised, ops, overlapped>>

\* Mutant of WatchReload: events that came during the reload are dropped.
WatchReloadDrains ==
  /\ step["watcher"] = "reload"
  /\ jobs' = local["watcher"]
  /\ pending' = FALSE
  /\ Goes("watcher", "idle") /\ Holds("watcher", {})
  /\ UNCHANGED <<fileVars, op, promised, ops, overlapped>>

WatchReload ==
  /\ step["watcher"] = "reload"
  /\ jobs' = local["watcher"]
  /\ Goes("watcher", "idle") /\ Holds("watcher", {})
  /\ UNCHANGED <<fileVars, op, pending, promised, ops, overlapped>>

CallStep(c) ==
  \/ Open(c) \/ Write(c) \/ Rename(c) \/ LoadAgain(c) \/ Reload(c) \/ Answer(c)
Watcher == WatchLoad \/ WatchReload

\* The agent dies and is started again: the initial LoadCronConfig.  A change
\* in progress was or was not made; nothing was promised about it.
RestartAgent ==
  /\ Die(Threads)
  /\ jobs' = IF file.torn THEN {} ELSE file.value
  /\ step' = [t \in Threads |-> "idle"]
  /\ local' = [t \in Threads |-> {}]
  /\ op' = [c \in Calls |-> NoOp]
  /\ pending' = FALSE
  /\ promised' = IF \E c \in Calls : Busy(c) /\ file.value = Applied(c)
                 THEN file.value ELSE promised
  /\ UNCHANGED <<ops, overlapped>>
=============================================================================
