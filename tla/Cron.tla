-------------------------------- MODULE Cron --------------------------------
(***************************************************************************)
(* The cron scheduler of an agent (src/internal/cron/scheduler.go): its    *)
(* ticks and the runs of its jobs, over the list of jobs that CronFile     *)
(* keeps.  Schedules are what CronExpr says of them.  Time is a minute     *)
(* that goes round; a run may take any number of minutes.                  *)
(***************************************************************************)
EXTENDS CronFile

CONSTANTS
  Minutes, \* 0..Minutes-1 go round
  Matches  \* job -> minute -> what matchesCron says: "yes", "no" or "error"

\* The watcher is a goroutine of its own; an empty cron.toml is a list of jobs.
ASSUME CronAssumption ==
  /\ Threads = Calls \union {"watcher"} /\ "watcher" \notin Calls
  /\ EmptyValue \subseteq JobIDs
  /\ MaxOps \in Nat /\ Minutes \in Nat \ {0}

----------------------------------------------------------------------------
(* The scheduler *)

VARIABLES
  minute,  \* the wall clock
  phase,   \* Run: "align" until the first whole minute, then "loop"
  ticked,  \* the ticker's channel holds a tick
  fired,   \* goroutines that have not tried their job's lock yet
  active  \* jobs whose lock is held, with the minute they fired at

cronVars == <<minute, phase, ticked, fired, active>>
vars == <<cronFileVars, cronVars>>

Fire(id, at) == [id |-> id, at |-> at]
DueOf(list) == {id \in list : Matches[id][minute] = "yes"}

Init ==
  /\ CronFileInit
  /\ minute = 0 /\ phase = "align" /\ ticked = FALSE
  /\ fired = {} /\ active = {}

\* A whole minute.  The first one only starts the ticker; a tick that the loop
\* has not taken yet would swallow the next, but the loop takes it in time.
WholeMinute ==
  /\ ~ticked
  /\ minute' = (minute + 1) % Minutes
  /\ IF phase = "align" THEN phase' = "loop" /\ UNCHANGED ticked
                        ELSE ticked' = TRUE /\ UNCHANGED phase
  /\ UNCHANGED <<cronFileVars, fired, active>>

\* Mutant of tick: an invalid schedule ends it.
tickReturns ==
  /\ ticked
  /\ ticked' = FALSE
  /\ fired' = IF \E id \in jobs : Matches[id][minute] = "error"
              THEN fired ELSE fired \union {Fire(id, minute) : id \in DueOf(jobs)}
  /\ UNCHANGED <<cronFileVars, minute, phase, active>>

\* Each job that is due gets a goroutine; an invalid schedule is logged.
tick ==
  /\ ticked
  /\ ticked' = FALSE
  /\ fired' = fired \union {Fire(id, minute) : id \in DueOf(jobs)}
  /\ UNCHANGED <<cronFileVars, minute, phase, active>>

\* Mutant of TryLock: a run is kept apart only from the same firing.
TryLockPerFiring(f) ==
  /\ f \in fired
  /\ fired' = fired \ {f}
  /\ active' = active \union {f}
  /\ UNCHANGED <<cronFileVars, minute, phase, ticked>>

\* runJob skips while an earlier run of the job holds its lock.
TryLock(f) ==
  /\ f \in fired
  /\ fired' = fired \ {f}
  /\ active' = IF \E r \in active : r.id = f.id THEN active ELSE active \union {f}
  /\ UNCHANGED <<cronFileVars, minute, phase, ticked>>

\* The run fails, has no target, cannot be pushed, or is delivered: the deferred
\* Unlock comes on every path.
RunEnds(r) ==
  /\ r \in active
  /\ active' = active \ {r}
  /\ UNCHANGED <<cronFileVars, minute, phase, ticked, fired>>

Restart ==
  /\ RestartAgent
  /\ phase' = "align" /\ ticked' = FALSE
  /\ fired' = {} /\ active' = {}
  /\ UNCHANGED minute

Tools ==
  \E c \in Calls :
    \/ CallStep(c)
    \/ \E id \in JobIDs : CreateCronjob(c, id) \/ DeleteCronjob(c, id)

Firings == [id : JobIDs, at : 0..(Minutes - 1)]
Runs ==
  \/ WholeMinute \/ tick
  \/ \E f \in fired : TryLock(f)
  \/ \E r \in active : RunEnds(r)

Next ==
  \/ (Tools \/ Watcher) /\ UNCHANGED cronVars
  \/ Runs \/ Restart

Spec == Init /\ [][Next]_vars

\* The clock and every goroutine go on; runs end (their turns do).
FairSpec ==
  /\ Spec
  /\ WF_cronVars(WholeMinute \/ tick)
  /\ WF_cronVars(\E f \in fired : TryLock(f))
  /\ WF_cronVars(\E r \in active : RunEnds(r))

----------------------------------------------------------------------------
(* Properties *)

Contents == [value : SUBSET JobIDs, torn : BOOLEAN]

\* The variables have their types, and a descriptor is open between the open
\* and the write only.
TypeOK ==
  /\ file \in Contents /\ tmp \in Contents \union {NoTmp}
  /\ jobs \subseteq JobIDs /\ promised \subseteq JobIDs
  /\ step \in [Threads -> {"idle", "open", "write", "rename", "load", "reload", "answer"}]
  /\ local \in [Threads -> SUBSET JobIDs]
  /\ \A t \in Threads : fd[t] # "none" <=> step[t] = "write"
  /\ ops \in 0..MaxOps /\ pending \in BOOLEAN /\ overlapped \in BOOLEAN
  /\ minute \in 0..(Minutes - 1) /\ phase \in {"align", "loop"} /\ ticked \in BOOLEAN
  /\ fired \subseteq Firings /\ active \subseteq Firings

\* "Per-job mutexes prevent duplicate concurrent runs", also when the job is
\* deleted and created again, or the list reloaded, while it runs.
OneRunPerJob == \A r, s \in active : r.id = s.id => r = s

Quiet == ~pending /\ \A t \in Threads : ~Busy(t)

\* As long as tool calls come one after the other, cron.toml always parses and
\* holds what the answers promised, and the scheduler follows it, whatever the
\* watcher does in between and wherever the agent dies.
CronInStepWhenSerial ==
  ~overlapped =>
    /\ ~file.torn
    /\ (\A c \in Calls : ~Busy(c)) => file.value = promised
    /\ Quiet => jobs = file.value

\* A job that stays on the list is run again and again: no error path keeps its
\* lock, and no restart of the scheduler loses it.
DueJobsRun ==
  \A id \in {j \in JobIDs : \E m \in 0..(Minutes - 1) : Matches[j][m] = "yes"} :
    \/ []<>(id \notin jobs) \/ []<>(phase = "align")
    \/ []<>(\E r \in active : r.id = id) /\ []<>(\A r \in active : r.id # id)
=============================================================================
