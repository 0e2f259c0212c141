-------------------------- MODULE AgentFileProofs ----------------------------
(***************************************************************************)
(* Proofs about the files of an agent: cron.json (CronFile, Cron) with the *)
(* schedules in it (CronExpr), its configuration (AgentConfig), its        *)
(* memories (MemoryStore), and the system prompt they are written into     *)
(* (SystemPrompt).  They hold for any jobs, schedules, models, memories,   *)
(* texts, sticky blocks, personalities and skills, and any numbers of      *)
(* concurrent tool calls, of edits and of restarts.                        *)
(***************************************************************************)
EXTENDS Cron, CronExpr, AgentConfig, MemoryStore, SystemPrompt, SequenceTheorems, TLAPS

----------------------------------------------------------------------------
(* Runs of a job *)

\* A run begins only under its job's lock, which is free; all else about the
\* list of runs is that they end.
LEMMA OneRunNext == OneRunPerJob /\ [Next]_vars => OneRunPerJob'
<1> SUFFICES ASSUME OneRunPerJob, [Next]_vars
             PROVE  OneRunPerJob'
  OBVIOUS
<1>1. ASSUME NEW f \in fired, TryLock(f)
      PROVE  OneRunPerJob'
  BY <1>1 DEF TryLock, OneRunPerJob
<1>2. ASSUME NEW r \in active, RunEnds(r)
      PROVE  OneRunPerJob'
  BY <1>2 DEF RunEnds, OneRunPerJob
<1>3. CASE Restart
  BY <1>3 DEF Restart, OneRunPerJob
<1>4. CASE UNCHANGED active
  BY <1>4 DEF OneRunPerJob
<1> QED
  BY <1>1, <1>2, <1>3, <1>4 DEF Next, Runs, WholeMinute, tick, vars, cronVars

\* Per-job locks "prevent duplicate concurrent runs" (scheduler.go), for jobs that
\* are created, deleted and reloaded while they run, and for agents that die.
THEOREM OneRunCorrect == Spec => []OneRunPerJob
<1>1. Init => OneRunPerJob
  BY DEF Init, OneRunPerJob
<1> QED
  BY <1>1, OneRunNext, PTL DEF Spec

----------------------------------------------------------------------------
(* Types *)

Places == {"none", "tmp", "file", "unlinked"}
CallSteps == {"idle", "open", "write", "rename", "load", "reload", "answer"}
OpRecords == [kind : {"create", "delete"}, id : JobIDs] \union {NoOp}

\* The part of TypeOK about cron.toml, with what it takes to be inductive: the
\* domains of the functions, and that the watcher has no steps but its own.
FileTypes ==
  /\ file \in Contents /\ tmp \in Contents \union {NoTmp}
  /\ jobs \subseteq JobIDs /\ promised \subseteq JobIDs
  /\ step \in [Threads -> CallSteps]
  /\ step["watcher"] \in {"idle", "reload"}
  /\ local \in [Threads -> SUBSET JobIDs]
  /\ fd \in [Threads -> Places]
  /\ \A t \in Threads : fd[t] # "none" <=> step[t] = "write"
  /\ op \in [Calls -> OpRecords]
  /\ ops \in 0..MaxOps /\ pending \in BOOLEAN /\ overlapped \in BOOLEAN

\* The part of TypeOK about the scheduler.
ClockTypes ==
  /\ minute \in 0..(Minutes - 1) /\ phase \in {"align", "loop"} /\ ticked \in BOOLEAN
  /\ fired \subseteq Firings /\ active \subseteq Firings

\* What the operators on files return.
LEMMA FileValues ==
  /\ Empty \in Contents /\ Torn \in Contents
  /\ \A v \in SUBSET JobIDs : Content(v) \in Contents
  /\ \A old, v : Written(old, v) \subseteq {Content(v), Torn}
BY CronAssumption DEF Empty, Torn, Content, Contents, Written

\* Every step of a call, the watcher and a restart keeps FileTypes.
LEMMA FileTypesNext ==
  ASSUME FileTypes, [Next]_vars
  PROVE  FileTypes'
<1> USE DEF FileTypes
<1>0. "watcher" \notin Calls /\ Calls \subseteq Threads /\ "watcher" \in Threads
  BY CronAssumption
<1>1. ASSUME NEW c \in Calls, NEW kind \in {"create", "delete"}, NEW id \in JobIDs,
             Begin(c, kind, id)
      PROVE  FileTypes'
  <2>1. file.value \subseteq JobIDs
    BY DEF Contents
  <2>2. [kind |-> kind, id |-> id] \in OpRecords
    BY DEF OpRecords
  <2>3. ops' \in 0..MaxOps
    BY <1>1, CronAssumption DEF Begin
  <2>4. overlapped' \in BOOLEAN
    BY <1>1 DEF Begin
  <2>5. step[c] = "idle"
    BY <1>1 DEF Begin, Busy
  <2>6. UNCHANGED <<step, local, op>> \/ (step' = [step EXCEPT ![c] = "open"]
          /\ local' \in [Threads -> SUBSET JobIDs] /\ op' \in [Calls -> OpRecords])
    BY <1>0, <1>1, <2>1, <2>2 DEF Begin, Goes, Holds
  <2> QED
    BY <1>0, <1>1, <2>3, <2>4, <2>5, <2>6 DEF Begin, fileVars, CallSteps
<1>2. ASSUME NEW c \in Calls, Open(c)
      PROVE  FileTypes'
  BY <1>0, <1>2, FileValues DEF Open, OpenTmp, Goes, CallSteps, Places
<1>3. ASSUME NEW c \in Calls, Write(c)
      PROVE  FileTypes'
  <2>1. file' \in Contents /\ tmp' \in Contents \union {NoTmp}
    BY <1>0, <1>3, FileValues DEF Write, WriteTmp
  <2>2. pending' \in BOOLEAN
    BY <1>3 DEF Write
  <2> QED
    BY <1>0, <1>3, <2>1, <2>2 DEF Write, WriteTmp, Goes, Holds, CallSteps, Places
<1>4. ASSUME NEW c \in Calls, Rename(c)
      PROVE  FileTypes'
  <2>1. CASE CanRename
    BY <1>0, <1>4, <2>1 DEF Rename, CanRename, RenameTmp, Goes, CallSteps, Places
  <2>2. CASE ~CanRename
    BY <1>0, <1>4, <2>2 DEF Rename, fileVars, Goes, CallSteps
  <2> QED
    BY <2>1, <2>2
<1>5. ASSUME NEW c \in Calls, LoadAgain(c)
      PROVE  FileTypes'
  BY <1>0, <1>5 DEF LoadAgain, Goes, Holds, fileVars, CallSteps, Contents
<1>6. ASSUME NEW c \in Calls, Reload(c)
      PROVE  FileTypes'
  BY <1>0, <1>6 DEF Reload, Goes, fileVars, CallSteps
<1>7. ASSUME NEW c \in Calls, Answer(c)
      PROVE  FileTypes'
  <2>1. promised' \subseteq JobIDs
    <3>1. op[c] \in OpRecords /\ promised' = Applied(c)
      BY <1>7 DEF Answer
    <3>2. NoOp.kind = "none"
      BY DEF NoOp
    <3> QED
      BY <3>1, <3>2 DEF Applied, OpRecords
  <2>2. NoOp \in OpRecords
    BY DEF OpRecords
  <2> QED
    BY <1>0, <1>7, <2>1, <2>2 DEF Answer, Goes, Holds, fileVars, CallSteps
<1>8. CASE Watcher
  <2>1. CASE WatchLoad
    <3>1. /\ step' = step \/ step' = [step EXCEPT !["watcher"] = "reload"]
          /\ local' = local \/ local' = [local EXCEPT !["watcher"] = file.value]
          /\ pending' = FALSE /\ step["watcher"] = "idle"
          /\ UNCHANGED <<fileVars, jobs, op, promised, ops, overlapped>>
      BY <2>1 DEF WatchLoad, Goes, Holds
    <3>2. file.value \subseteq JobIDs
      BY DEF Contents
    <3>3. local' \in [Threads -> SUBSET JobIDs]
      BY <3>1, <3>2
    <3> QED
      BY <1>0, <3>1, <3>3 DEF fileVars, CallSteps
  <2>2. CASE WatchReload
    BY <1>0, <2>2 DEF WatchReload, Goes, Holds, fileVars, CallSteps
  <2> QED
    BY <1>8, <2>1, <2>2 DEF Watcher
<1>9. CASE Restart
  <2>1. NoOp \in OpRecords
    BY DEF OpRecords
  <2>2. file.value \subseteq JobIDs
    BY DEF Contents
  <2> QED
    BY <1>0, <1>9, <2>1, <2>2 DEF Restart, RestartAgent, Die, CallSteps, Places
<1>10. CASE UNCHANGED cronFileVars
  BY <1>10 DEF cronFileVars, fileVars
<1> QED
  BY <1>1, <1>2, <1>3, <1>4, <1>5, <1>6, <1>7, <1>8, <1>9, <1>10
  DEF Next, Tools, CallStep, CreateCronjob, DeleteCronjob, Runs, WholeMinute, tick, TryLock,
      RunEnds, vars

\* Every step of the scheduler and of its runs keeps ClockTypes.
LEMMA ClockTypesNext ==
  ASSUME FileTypes, ClockTypes, [Next]_vars
  PROVE  ClockTypes'
<1> USE DEF ClockTypes
<1>1. CASE WholeMinute
  <2>1. \A m \in Nat, n \in Nat \ {0} : (m + 1) % n \in 0..(n - 1)
    OBVIOUS
  <2>2. minute \in Nat /\ Minutes \in Nat \ {0}
    BY CronAssumption
  <2>3. minute' \in 0..(Minutes - 1)
    BY <1>1, <2>1, <2>2 DEF WholeMinute
  <2>4. phase' \in {"align", "loop"} /\ ticked' \in BOOLEAN /\ UNCHANGED <<fired, active>>
    BY <1>1 DEF WholeMinute
  <2> QED
    BY <2>3, <2>4 DEF Firings
<1>2. CASE tick
  <2>1. {Fire(id, minute) : id \in DueOf(jobs)} \subseteq Firings
    BY DEF FileTypes, Fire, DueOf, Firings
  <2> QED
    BY <1>2, <2>1 DEF tick
<1>3. ASSUME NEW f \in fired, TryLock(f)
      PROVE  ClockTypes'
  BY <1>3 DEF TryLock
<1>4. ASSUME NEW r \in active, RunEnds(r)
      PROVE  ClockTypes'
  BY <1>4 DEF RunEnds
<1>5. CASE Restart
  BY <1>5 DEF Restart
<1>6. CASE UNCHANGED cronVars
  BY <1>6 DEF cronVars
<1> QED
  BY <1>1, <1>2, <1>3, <1>4, <1>5, <1>6 DEF Next, Runs, vars

TypeInv == FileTypes /\ ClockTypes

\* Both hold when the agent starts.
LEMMA TypeInit ==
  ASSUME Init
  PROVE  TypeInv
<1>1. file \in Contents /\ tmp \in Contents \union {NoTmp} /\ jobs \subseteq JobIDs
  BY FileValues DEF Init, CronFileInit, FileInit
<1>2. FileTypes
  <2>1. fd = [t \in Threads |-> "none"] /\ step = [t \in Threads |-> "idle"]
    BY DEF Init, CronFileInit, FileInit
  <2>2. local \in [Threads -> SUBSET JobIDs] /\ op \in [Calls -> OpRecords]
    BY DEF Init, CronFileInit, OpRecords
  <2>3. promised = jobs /\ ops = 0 /\ pending = FALSE /\ overlapped = FALSE
    BY DEF Init, CronFileInit
  <2> QED
    <3>1. 0 \in 0..MaxOps
      BY CronAssumption
    <3> QED
      BY <1>1, <2>1, <2>2, <2>3, <3>1, CronAssumption DEF FileTypes, Places, CallSteps
<1>3. ClockTypes
  <2>1. \A n \in Nat \ {0} : 0 \in 0..(n - 1)
    OBVIOUS
  <2>2. minute \in 0..(Minutes - 1)
    BY <2>1, CronAssumption DEF Init
  <2> QED
    BY <2>2 DEF Init, ClockTypes
<1> QED
  BY <1>2, <1>3 DEF TypeInv

\* Together they are kept by every step.
LEMMA TypeNext == ASSUME TypeInv, [Next]_vars PROVE TypeInv'
BY FileTypesNext, ClockTypesNext DEF TypeInv

\* Every variable of cron.toml's users and of the scheduler keeps its type, and a
\* descriptor on the file is open only between os.WriteFile's open and write.
THEOREM TypeCorrect == Spec => []TypeOK
<1>1. TypeInv => TypeOK
  BY DEF TypeInv, FileTypes, ClockTypes, TypeOK, CallSteps
<1> QED
  BY <1>1, TypeInit, TypeNext, PTL DEF Spec

----------------------------------------------------------------------------
(* cron.toml and the scheduler, as long as calls come one after the other *)

\* How far the call has got says what the file, its temporary file and the call's
\* own list hold: the old list up to the rename, the new one from there on.
CallInv(c) ==
  LET old == Content(promised)
      new == Content(Applied(c))
  IN  CASE step[c] = "open" -> file = old /\ local[c] = Applied(c)
        [] step[c] = "write" -> file = old /\ local[c] = Applied(c) /\ tmp = Empty
        [] step[c] = "rename" -> file = old /\ tmp = new
        [] step[c] = "load" -> file = new
        [] step[c] = "reload" -> file = new /\ local[c] = Applied(c)
        [] step[c] = "answer" -> file = new
        [] OTHER -> TRUE

\* The inductive invariant: one call at a time, which alone has a descriptor, on
\* the temporary file; and unless an event is still to come, the watcher holds or
\* the scheduler has the list that is in the file.
SerialInv ==
  /\ \A c, d \in Calls : Busy(c) /\ Busy(d) => c = d
  /\ ~file.torn
  /\ \A t \in Threads : fd[t] \in {"none", "tmp"}
  /\ (\A c \in Calls : ~Busy(c)) => file.value = promised
  /\ \A c \in Calls : CallInv(c)
  /\ ~pending /\ step["watcher"] = "reload" => local["watcher"] = file.value
  /\ ~pending /\ step["watcher"] = "idle" => jobs = file.value

InStep == ~overlapped => SerialInv

\* The operators on files, for one writer: what it has written is not torn, is not
\* taken for a missing file, and a write over an empty file leaves just that.
LEMMA OneWriter ==
  /\ ~Empty.torn
  /\ \A v : ~Content(v).torn /\ Content(v).value = v /\ Content(v) # NoTmp
  /\ \A v : Written(Empty, v) = {Content(v)}
BY DEF Empty, Content, NoTmp, Written

\* A file that parses is the content of its value.
LEMMA Parsed ==
  ASSUME NEW f \in Contents, ~f.torn
  PROVE  f = Content(f.value)
BY DEF Contents, Content

\* Begin keeps SerialInv: the new call has the list it read, changed.
LEMMA BeginInStep ==
  ASSUME FileTypes, InStep, ~overlapped', NEW c \in Calls,
         NEW kind \in {"create", "delete"}, NEW id \in JobIDs, Begin(c, kind, id)
  PROVE  SerialInv'
<1>1. SerialInv /\ (\A d \in Calls : ~Busy(d))
  BY DEF Begin, InStep
<1>2. UNCHANGED <<file, tmp, fd, jobs, pending, promised>>
  BY DEF Begin, fileVars
<1>3. Calls \subseteq Threads /\ "watcher" \in Threads \ Calls
  BY CronAssumption
<1>4. CASE UNCHANGED <<step, local, op>>
  BY <1>1, <1>2, <1>4 DEF SerialInv, CallInv, Applied, Busy
<1>5. CASE ~UNCHANGED <<step, local, op>>
  <2>1. /\ step' = [step EXCEPT ![c] = "open"]
        /\ local' = [local EXCEPT ![c] = IF kind = "create" THEN file.value \union {id}
                                                           ELSE file.value \ {id}]
        /\ op' = [op EXCEPT ![c] = [kind |-> kind, id |-> id]]
    BY <1>5 DEF Begin, Goes, Holds
  <2>2. file = Content(promised) /\ file.value = promised
    BY <1>1, Parsed DEF SerialInv, FileTypes
  <2>3. local'[c] = Applied(c)'
    BY <1>2, <1>3, <2>1, <2>2 DEF Applied, FileTypes
  <2>4. step'[c] = "open" /\ \A t \in Threads \ {c} : step'[t] = step[t] /\ local'[t] = local[t]
    BY <1>3, <2>1 DEF FileTypes
  <2>5. \A d \in Calls \ {c} : step'[d] = "idle"
    BY <1>1, <1>3, <2>4 DEF Busy
  <2>6. \A d \in Calls : CallInv(d)'
    BY <1>2, <2>2, <2>3, <2>4, <2>5 DEF CallInv
  <2> QED
    BY <1>1, <1>2, <1>3, <2>4, <2>5, <2>6 DEF SerialInv, Busy
<1> QED
  BY <1>4, <1>5

\* Every step of a call in progress keeps SerialInv.
LEMMA CallInStep ==
  ASSUME FileTypes, SerialInv, NEW c \in Calls, CallStep(c)
  PROVE  SerialInv'
<1>1. Calls \subseteq Threads /\ "watcher" \in Threads \ Calls
  BY CronAssumption
<1>2. Busy(c)
  BY DEF CallStep, Open, Write, Rename, LoadAgain, Reload, Answer, Busy
<1>3. CallInv(c) /\ \A d \in Calls \ {c} : step[d] = "idle"
  BY <1>2 DEF SerialInv, Busy
<1>4. \A t \in Threads \ {c} : fd[t] = "none"
  <2>1. \A t \in Threads \ {c} : step[t] # "write"
    BY <1>3, CronAssumption DEF FileTypes
  <2> QED
    BY <2>1 DEF FileTypes
<1>5. CASE Open(c)
  <2>1. /\ step[c] = "open" /\ step' = [step EXCEPT ![c] = "write"]
        /\ tmp' = Empty /\ fd' = [fd EXCEPT ![c] = "tmp"]
        /\ UNCHANGED <<file, jobs, local, op, pending, promised>>
    BY <1>5 DEF Open, OpenTmp, Goes
  <2>2. CallInv(c)'
    BY <1>1, <1>3, <2>1 DEF CallInv, Applied, FileTypes
  <2> QED
    BY <1>1, <1>3, <1>4, <2>1, <2>2 DEF SerialInv, CallInv, Busy, FileTypes
<1>6. CASE Write(c)
  <2>1. /\ step[c] = "write" /\ step' = [step EXCEPT ![c] = "rename"]
        /\ local' = [local EXCEPT ![c] = {}] /\ fd' = [fd EXCEPT ![c] = "none"]
        /\ UNCHANGED <<jobs, op, promised>>
    BY <1>6 DEF Write, WriteTmp, Goes, Holds
  <2>2. fd[c] = "tmp"
    BY <1>1, <2>1 DEF FileTypes, SerialInv
  <2>3. tmp' = Content(Applied(c)) /\ UNCHANGED <<file, pending>>
    <3>1. tmp = Empty /\ local[c] = Applied(c)
      BY <1>3, <2>1 DEF CallInv
    <3>2. tmp' \in Written(tmp, local[c]) /\ UNCHANGED file
      BY <1>6, <2>2 DEF Write, WriteTmp
    <3>3. pending' = pending
      BY <1>6, <2>2 DEF Write, FileTypes
    <3> QED
      BY <3>1, <3>2, <3>3, OneWriter
  <2>4. CallInv(c)'
    BY <1>1, <1>3, <2>1, <2>3 DEF CallInv, Applied, FileTypes
  <2> QED
    BY <1>1, <1>3, <1>4, <2>1, <2>3, <2>4 DEF SerialInv, CallInv, Busy, FileTypes
<1>7. CASE Rename(c)
  <2>1. step[c] = "rename" /\ tmp = Content(Applied(c))
    BY <1>3, <1>7 DEF CallInv, Rename
  <2>2. /\ step' = [step EXCEPT ![c] = "load"] /\ file' = tmp /\ pending' = TRUE
        /\ UNCHANGED <<jobs, local, op, promised>>
    BY <1>7, <2>1, OneWriter DEF Rename, CanRename, RenameTmp, Goes
  <2>3. \A t \in Threads : fd[t] = "none"
    BY <1>1, <1>4, <2>1 DEF FileTypes
  <2>4. \A t \in Threads : fd'[t] = "none"
    BY <1>7, <2>1, <2>3, OneWriter DEF Rename, CanRename, RenameTmp
  <2>5. CallInv(c)' /\ ~file'.torn
    BY <1>1, <2>1, <2>2, OneWriter DEF CallInv, Applied, FileTypes
  <2> QED
    BY <1>1, <1>3, <2>2, <2>4, <2>5 DEF SerialInv, CallInv, Busy, FileTypes
<1>8. CASE LoadAgain(c)
  <2>1. step[c] = "load" /\ file = Content(Applied(c)) /\ ~file.torn /\ file.value = Applied(c)
    BY <1>3, <1>8, OneWriter DEF LoadAgain, CallInv
  <2>2. /\ step' = [step EXCEPT ![c] = "reload"] /\ local' = [local EXCEPT ![c] = file.value]
        /\ UNCHANGED <<file, tmp, fd, jobs, op, pending, promised>>
    BY <1>8, <2>1 DEF LoadAgain, Goes, Holds, fileVars
  <2>3. CallInv(c)'
    BY <1>1, <2>1, <2>2 DEF CallInv, Applied, FileTypes
  <2> QED
    BY <1>1, <1>3, <2>2, <2>3 DEF SerialInv, CallInv, Busy, FileTypes
<1>9. CASE Reload(c)
  <2>1. step[c] = "reload" /\ file = Content(Applied(c)) /\ local[c] = file.value
    BY <1>3, <1>9, OneWriter DEF Reload, CallInv
  <2>2. /\ step' = [step EXCEPT ![c] = "answer"] /\ jobs' = file.value
        /\ UNCHANGED <<file, tmp, fd, local, op, pending, promised>>
    BY <1>9, <2>1 DEF Reload, Goes, fileVars
  <2>3. CallInv(c)'
    BY <1>1, <2>1, <2>2 DEF CallInv, Applied, FileTypes
  <2> QED
    BY <1>1, <1>3, <2>2, <2>3 DEF SerialInv, CallInv, Busy, FileTypes
<1>10. CASE Answer(c)
  <2>1. step[c] = "answer" /\ file = Content(Applied(c)) /\ file.value = Applied(c)
    BY <1>3, <1>10, OneWriter DEF Answer, CallInv
  <2>2. /\ step' = [step EXCEPT ![c] = "idle"] /\ promised' = Applied(c)
        /\ local' = [local EXCEPT ![c] = {}]
        /\ UNCHANGED <<file, tmp, fd, jobs, pending>>
    BY <1>10 DEF Answer, Goes, Holds, fileVars
  <2>3. \A d \in Calls : step'[d] = "idle"
    BY <1>1, <1>3, <2>2 DEF FileTypes
  <2> QED
    BY <1>1, <2>1, <2>2, <2>3 DEF SerialInv, CallInv, Busy, FileTypes
<1> QED
  BY <1>5, <1>6, <1>7, <1>8, <1>9, <1>10 DEF CallStep

\* So does the watcher, which takes the list that is in the file or is told again.
LEMMA WatcherInStep ==
  ASSUME FileTypes, SerialInv, Watcher
  PROVE  SerialInv'
<1>1. Calls \subseteq Threads /\ "watcher" \in Threads \ Calls
  BY CronAssumption
<1>2. UNCHANGED <<file, tmp, fd, op, promised>>
  BY DEF Watcher, WatchLoad, WatchReload, fileVars
<1>3. \A c \in Calls : step'[c] = step[c] /\ local'[c] = local[c]
  BY <1>1 DEF Watcher, WatchLoad, WatchReload, Goes, Holds, FileTypes
<1>4. \A c \in Calls : CallInv(c)'
  BY <1>2, <1>3 DEF SerialInv, CallInv, Applied
<1>5. CASE WatchLoad
  <2>1. step' = [step EXCEPT !["watcher"] = "reload"]
        /\ local' = [local EXCEPT !["watcher"] = file.value]
    BY <1>5 DEF WatchLoad, SerialInv, Goes, Holds
  <2> QED
    BY <1>1, <1>2, <1>3, <1>4, <2>1 DEF SerialInv, Busy, FileTypes
<1>6. CASE WatchReload
  <2>1. /\ step["watcher"] = "reload" /\ step' = [step EXCEPT !["watcher"] = "idle"]
        /\ jobs' = local["watcher"] /\ UNCHANGED pending
    BY <1>6 DEF WatchReload, Goes
  <2> QED
    BY <1>1, <1>2, <1>3, <1>4, <2>1 DEF SerialInv, Busy, FileTypes
<1> QED
  BY <1>5, <1>6 DEF Watcher

\* An agent that dies in the middle of a call has made the change or has not.
LEMMA RestartInStep ==
  ASSUME FileTypes, SerialInv, RestartAgent
  PROVE  SerialInv'
<1>1. Calls \subseteq Threads /\ "watcher" \in Threads
  BY CronAssumption
<1>2. \A t \in Threads : step'[t] = "idle" /\ fd'[t] = "none"
  BY DEF RestartAgent, Die
<1>3. file' = file /\ jobs' = file.value
  BY DEF RestartAgent, Die, SerialInv
<1>4. promised' = file.value
  <2>1. CASE \E c \in Calls : Busy(c) /\ file.value = Applied(c)
    BY <2>1 DEF RestartAgent
  <2>2. CASE \A c \in Calls : Busy(c) => file.value # Applied(c)
    <3>1. promised' = promised
      BY <2>2 DEF RestartAgent
    <3>2. ASSUME NEW c \in Calls, Busy(c)
          PROVE  file.value = promised
      <4>1. CallInv(c) /\ file.value # Applied(c)
        BY <2>2, <3>2 DEF SerialInv
      <4>2. step[c] \in CallSteps \ {"idle"}
        BY <1>1, <3>2 DEF Busy, FileTypes
      <4> QED
        BY <4>1, <4>2, OneWriter DEF CallInv, CallSteps
    <3> QED
      BY <3>1, <3>2 DEF SerialInv
  <2> QED
    BY <2>1, <2>2
<1> QED
  BY <1>1, <1>2, <1>3, <1>4 DEF SerialInv, CallInv, Busy

\* Every step keeps InStep.
LEMMA InStepNext ==
  ASSUME FileTypes, InStep, [Next]_vars
  PROVE  InStep'
<1> SUFFICES ASSUME ~overlapped'
             PROVE  SerialInv'
  BY DEF InStep
<1>1. ASSUME NEW c \in Calls, NEW kind \in {"create", "delete"}, NEW id \in JobIDs,
             Begin(c, kind, id)
      PROVE  SerialInv'
  BY <1>1, BeginInStep
<1>2. ASSUME NEW c \in Calls, CallStep(c)
      PROVE  SerialInv'
  <2>1. ~overlapped
    BY <1>2 DEF CallStep, Open, Write, Rename, LoadAgain, Reload, Answer
  <2> QED
    BY <1>2, <2>1, CallInStep DEF InStep
<1>3. CASE Watcher
  <2>1. ~overlapped
    BY <1>3 DEF Watcher, WatchLoad, WatchReload
  <2> QED
    BY <1>3, <2>1, WatcherInStep DEF InStep
<1>4. CASE Restart
  <2>1. ~overlapped /\ RestartAgent
    BY <1>4 DEF Restart, RestartAgent
  <2> QED
    BY <2>1, RestartInStep DEF InStep
<1>5. CASE UNCHANGED cronFileVars
  BY <1>5 DEF InStep, SerialInv, CallInv, Applied, Busy, cronFileVars, fileVars
<1> QED
  BY <1>1, <1>2, <1>3, <1>4, <1>5
  DEF Next, Tools, CreateCronjob, DeleteCronjob, Runs, WholeMinute, tick, TryLock, RunEnds, vars

\* Tool calls that come one after the other (tools/builtin/cronjobs.go) leave a
\* cron.toml that parses and holds what the answers said, and a scheduler that
\* follows it, wherever the watcher and the agent's deaths come in.
THEOREM InStepCorrect == Spec => []CronInStepWhenSerial
<1>1. Init => InStep
  BY OneWriter, CronAssumption DEF Init, CronFileInit, FileInit, InStep, SerialInv, CallInv, Busy
<1>2. TypeInv /\ InStep => CronInStepWhenSerial
  BY CronAssumption DEF TypeInv, FileTypes, InStep, SerialInv, CronInStepWhenSerial, Quiet, Busy
<1>3. InStep /\ TypeInv /\ [Next]_vars => InStep'
  BY InStepNext DEF TypeInv
<1> QED
  BY <1>1, <1>2, <1>3, TypeInit, TypeNext, PTL DEF Spec

----------------------------------------------------------------------------
(* runtime.toml and the prompt *)

ModelValues == Models \union {NoModel}
SoulTexts == Souls \union {NoSoul}
Tomls == [value : ModelValues, torn : BOOLEAN]
WriterSteps == {"idle", "open", "write", "rename", "reload", "apply"}

\* The part of ConfigTypeOK about runtime.toml and its writers, with the domains of
\* the functions.
TomlTypes ==
  /\ toml \in Tomls /\ tomlTmp \in Tomls \union {Toml!NoTmp}
  /\ tomlFd \in [Writers -> {"none", "tmp", "file", "unlinked"}]
  /\ writer \in [Writers -> [step : WriterSteps, model : ModelValues, soul : SoulTexts]]
  /\ \A w \in Writers : tomlFd[w] # "none" <=> writer[w].step = "write"
  /\ lastModel \in ModelValues

\* The part about SOUL.md and the watcher.
PromptTypes ==
  /\ soul \in SoulTexts /\ personality \in SoulTexts /\ prompt \in SoulTexts
  /\ editing \in Souls \union {"none"}
  /\ watcher \in [step : {"idle", "load", "apply"}, soul : SoulTexts]
  /\ watching \in BOOLEAN /\ notified \in BOOLEAN /\ unseen \in BOOLEAN
  /\ collided \in BOOLEAN

\* The tool has put the file in place and not answered yet.
Placed(w) == writer[w].step \in {"reload", "apply"}

\* While nothing has collided: one writer at a time, the temporary file is its own
\* and becomes what it was to write; runtime.toml holds the model of the tool that
\* put it there, or else the one last answered.
SerialToml ==
  /\ \A v, w \in Writers : Writing(v) /\ Writing(w) => v = w
  /\ ~toml.torn
  /\ \A w \in Writers :
       /\ writer[w].step = "write" => tomlFd[w] = "tmp" /\ tomlTmp = Toml!Empty
       /\ writer[w].step = "rename" => tomlTmp = Toml!Content(writer[w].model)
       /\ Placed(w) => w \in ToolCallers /\ toml.value = writer[w].model
  /\ (\A w \in Writers : ~Placed(w)) => toml.value = lastModel

\* While nothing has collided, a tool that is about to call onChange and a watcher
\* exclude each other; and unless an edit is still to be told of, whoever is on the
\* way to the prompt brings SOUL.md, and a watcher that is not has left it there.
SerialPrompt ==
  /\ \A w \in Writers : Reloads(w) => watcher.step = "idle"
  /\ ~notified /\ ~unseen =>
       /\ watcher.step = "idle" => prompt = soul
       /\ watcher.step # "idle" => watcher.soul = soul
       /\ watcher.step # "load" => personality = soul
       /\ \A w \in Writers : Reloads(w) => writer[w].soul = soul

ConfigInv ==
  TomlTypes /\ PromptTypes /\ (~collided => SerialToml /\ SerialPrompt)

\* What the operators on the file return.
LEMMA TomlValues ==
  /\ Toml!Empty \in Tomls /\ Toml!Torn \in Tomls /\ Toml!Content(NoModel) = Toml!Empty
  /\ \A v \in ModelValues : Toml!Content(v) \in Tomls
  /\ \A v : Toml!Content(v).value = v /\ ~Toml!Content(v).torn
  /\ \A v : Toml!Written(Toml!Empty, v) = {Toml!Content(v)}
  /\ \A old, v : Toml!Written(old, v) \subseteq {Toml!Content(v), Toml!Torn}
BY DEF Toml!Empty, Toml!Torn, Toml!Content, Tomls, ModelValues, Toml!Written

LEMMA ConfigInvInit == ConfigInit => ConfigInv
<1> SUFFICES ASSUME ConfigInit PROVE ConfigInv
  OBVIOUS
<1>1. toml = Toml!Content(NoModel) /\ tomlTmp = Toml!NoTmp
      /\ tomlFd = [w \in Writers |-> "none"]
  BY DEF ConfigInit, Toml!FileInit
<1>2. IdleWriter \in [step : WriterSteps, model : ModelValues, soul : SoulTexts]
      /\ IdleWatcher \in [step : {"idle", "load", "apply"}, soul : SoulTexts]
  BY DEF IdleWriter, IdleWatcher, WriterSteps, ModelValues, SoulTexts
<1>3. TomlTypes
  BY <1>1, <1>2, TomlValues DEF ConfigInit, TomlTypes, IdleWriter, ModelValues
<1>4. PromptTypes
  BY <1>2 DEF ConfigInit, PromptTypes, SoulTexts
<1>5. SerialToml
  BY <1>1, TomlValues DEF ConfigInit, SerialToml, Writing, Placed, IdleWriter
<1>6. SerialPrompt
  BY DEF ConfigInit, SerialPrompt, Reloads, IdleWriter, IdleWatcher
<1> QED
  BY <1>3, <1>4, <1>5, <1>6 DEF ConfigInv

\* A writer that has not collided starts alone.
LEMMA WriteRuntimeFieldKeeps ==
  ASSUME ConfigInv, NEW w \in Writers, NEW model \in Models, WriteRuntimeField(w, model)
  PROVE  ConfigInv'
<1> DEFINE new == [step |-> "open", model |-> model, soul |-> NoSoul]
<1>1. writer' = writer \/ writer' = [writer EXCEPT ![w] = new]
  BY DEF WriteRuntimeField
<1>2. UNCHANGED <<toml, tomlTmp, tomlFd, soul, editing, personality, prompt, watcher,
                  watching, notified, unseen, lastModel>>
  BY DEF WriteRuntimeField, tomlVars
<1>3. writer[w].step = "idle" /\ collided' \in BOOLEAN
      /\ (~collided' => ~collided /\ \A v \in Writers : ~Writing(v))
  BY DEF WriteRuntimeField, Writing
<1>4. TomlTypes'
  <2>1. new \in [step : WriterSteps, model : ModelValues, soul : SoulTexts]
    BY DEF WriterSteps, ModelValues, SoulTexts
  <2> QED
    BY <1>1, <1>2, <1>3, <2>1 DEF ConfigInv, TomlTypes
<1>5. PromptTypes'
  BY <1>2, <1>3 DEF ConfigInv, PromptTypes
<1>6. ASSUME ~collided' PROVE SerialToml' /\ SerialPrompt'
  <2>1. SerialToml'
    BY <1>1, <1>2, <1>3, <1>6 DEF ConfigInv, TomlTypes, SerialToml, Writing, Placed
  <2>2. SerialPrompt'
    BY <1>1, <1>2, <1>3, <1>6 DEF ConfigInv, TomlTypes, SerialPrompt, Reloads
  <2> QED
    BY <2>1, <2>2
<1> QED
  BY <1>4, <1>5, <1>6 DEF ConfigInv

\* A writer opens the temporary file, whatever was left in it.
LEMMA OpensKeeps ==
  ASSUME ConfigInv, NEW w \in Writers, Opens(w)
  PROVE  ConfigInv'
<1>1. /\ writer[w].step = "open" /\ writer' = [writer EXCEPT ![w].step = "write"]
      /\ tomlTmp' = Toml!Empty /\ tomlFd' = [tomlFd EXCEPT ![w] = "tmp"]
      /\ UNCHANGED <<toml, soul, editing, personality, prompt, watcher, watching, notified,
                     unseen, lastModel, collided>>
  BY DEF Opens, WriterGoes, Toml!OpenTmp, OtherThanWriter
<1>2. TomlTypes'
  BY <1>1, TomlValues DEF ConfigInv, TomlTypes, WriterSteps
<1>3. PromptTypes'
  BY <1>1 DEF ConfigInv, PromptTypes
<1>4. ASSUME ~collided' PROVE SerialToml'
  BY <1>1, <1>4 DEF ConfigInv, TomlTypes, SerialToml, Writing, Placed
<1>5. ASSUME ~collided' PROVE SerialPrompt'
  BY <1>1, <1>5 DEF ConfigInv, TomlTypes, SerialPrompt, Reloads
<1> QED
  BY <1>2, <1>3, <1>4, <1>5 DEF ConfigInv

\* It writes its model to the temporary file, which it alone has open.
LEMMA WritesKeeps ==
  ASSUME ConfigInv, NEW w \in Writers, Writes(w)
  PROVE  ConfigInv'
<1>1. /\ writer[w].step = "write" /\ writer' = [writer EXCEPT ![w].step = "rename"]
      /\ tomlFd' = [tomlFd EXCEPT ![w] = "none"]
      /\ UNCHANGED <<soul, editing, personality, prompt, watcher, watching, unseen, lastModel,
                     collided>>
  BY DEF Writes, WriterGoes, Toml!WriteTmp, OtherThanWriter
<1>2. notified' = (notified \/ (watching /\ tomlFd[w] = "file"))
  BY DEF Writes
<1>3. /\ toml' = toml \/ toml' \in Toml!Written(toml, writer[w].model)
      /\ tomlTmp' = tomlTmp \/ tomlTmp' \in Toml!Written(tomlTmp, writer[w].model)
      /\ tomlFd[w] = "tmp" =>
           toml' = toml /\ tomlTmp' \in Toml!Written(tomlTmp, writer[w].model)
  BY DEF Writes, Toml!WriteTmp
<1>4. TomlTypes'
  <2>1. toml' \in Tomls /\ tomlTmp' \in Tomls \union {Toml!NoTmp}
    BY <1>3, TomlValues DEF ConfigInv, TomlTypes
  <2> QED
    BY <1>1, <2>1 DEF ConfigInv, TomlTypes, WriterSteps
<1>5. PromptTypes'
  BY <1>1, <1>2 DEF ConfigInv, PromptTypes
<1>6. ASSUME ~collided' PROVE SerialToml'
  <2>1. SerialToml /\ ~collided
    BY <1>1, <1>6 DEF ConfigInv
  <2>2. toml' = toml /\ tomlTmp' = Toml!Content(writer[w].model)
    BY <1>1, <1>3, <2>1, TomlValues DEF SerialToml
  <2> QED
    BY <1>1, <2>1, <2>2 DEF ConfigInv, TomlTypes, SerialToml, Writing, Placed
<1>7. ASSUME ~collided' PROVE SerialPrompt'
  BY <1>1, <1>2, <1>7 DEF ConfigInv, TomlTypes, PromptTypes, SerialPrompt, Reloads
<1> QED
  BY <1>4, <1>5, <1>6, <1>7 DEF ConfigInv

\* It puts the temporary file in place; the hub has answered then.
LEMMA RenamesKeeps ==
  ASSUME ConfigInv, NEW w \in Writers, Renames(w)
  PROVE  ConfigInv'
<1> DEFINE idle == [step |-> "idle", model |-> NoModel, soul |-> NoSoul]
<1>1. /\ writer[w].step = "rename"
      /\ UNCHANGED <<soul, editing, personality, prompt, watcher, watching, unseen, collided>>
  BY DEF Renames, OtherThanWriter
<1>2. notified' \in BOOLEAN /\ (~notified' => ~notified)
  BY DEF Renames, ConfigInv, PromptTypes
<1>3. idle \in [step : WriterSteps, model : ModelValues, soul : SoulTexts]
  BY DEF WriterSteps, ModelValues, SoulTexts
<1>4. CASE ~Toml!CanRename
  <2>1. UNCHANGED <<toml, tomlTmp, tomlFd, notified, lastModel>>
        /\ writer' = [writer EXCEPT ![w] = idle]
    BY <1>4 DEF Renames, tomlVars, IdleWriter
  <2>2. TomlTypes'
    BY <1>1, <1>3, <2>1 DEF ConfigInv, TomlTypes
  <2>3. PromptTypes'
    BY <1>1, <2>1 DEF ConfigInv, PromptTypes
  <2>4. ASSUME ~collided' PROVE SerialToml'
    BY <1>1, <2>1, <2>4 DEF ConfigInv, TomlTypes, SerialToml, Writing, Placed
  <2>5. ASSUME ~collided' PROVE SerialPrompt'
    BY <1>1, <2>1, <2>5 DEF ConfigInv, TomlTypes, SerialPrompt, Reloads
  <2> QED
    BY <2>2, <2>3, <2>4, <2>5 DEF ConfigInv
<1>5. CASE Toml!CanRename
  <2>1. toml' = tomlTmp /\ tomlTmp' = Toml!NoTmp /\ tomlTmp # Toml!NoTmp
    BY <1>5 DEF Renames, Toml!RenameTmp, Toml!CanRename
  <2>2. /\ tomlFd' \in [Writers -> {"none", "tmp", "file", "unlinked"}]
        /\ \A v \in Writers : tomlFd'[v] # "none" <=> tomlFd[v] # "none"
    BY <1>5 DEF Renames, Toml!RenameTmp, ConfigInv, TomlTypes
  <2>3. IF w \in ToolCallers
        THEN writer' = [writer EXCEPT ![w].step = "reload"] /\ lastModel' = lastModel
        ELSE writer' = [writer EXCEPT ![w] = idle] /\ lastModel' = writer[w].model
    BY <1>5 DEF Renames, WriterGoes, IdleWriter, ToolCallers
  <2>4. TomlTypes'
    BY <1>1, <1>3, <2>1, <2>2, <2>3 DEF ConfigInv, TomlTypes, WriterSteps
  <2>5. PromptTypes'
    BY <1>1, <1>2 DEF ConfigInv, PromptTypes
  <2>6. ASSUME ~collided' PROVE SerialToml'
    <3>1. SerialToml /\ TomlTypes
      BY <1>1, <2>6 DEF ConfigInv
    <3>2. toml'.value = writer[w].model /\ ~toml'.torn
      BY <1>1, <2>1, <3>1, TomlValues DEF SerialToml
    <3>3. \A v \in Writers : v # w => writer[v].step = "idle" /\ writer'[v] = writer[v]
      BY <1>1, <2>3, <3>1 DEF SerialToml, Writing, TomlTypes
    <3> QED
      BY <1>1, <2>3, <3>1, <3>2, <3>3 DEF SerialToml, TomlTypes, Writing, Placed
  <2>7. ASSUME ~collided' PROVE SerialPrompt'
    BY <1>1, <1>2, <2>3, <2>7 DEF ConfigInv, TomlTypes, SerialPrompt, Reloads
  <2> QED
    BY <2>4, <2>5, <2>6, <2>7 DEF ConfigInv
<1> QED
  BY <1>4, <1>5

\* A tool reloads: the personality it takes is SOUL.md unless an edit is still to be
\* told of, for no watcher is on its way.
LEMMA ReloadRuntimeKeeps ==
  ASSUME ConfigInv, NEW w \in Writers, ReloadRuntime(w)
  PROVE  ConfigInv'
<1> DEFINE idle == [step |-> "idle", model |-> NoModel, soul |-> NoSoul]
<1>1. /\ writer[w].step = "reload"
      /\ writer' = IF toml.torn THEN [writer EXCEPT ![w] = idle]
                   ELSE [writer EXCEPT ![w] = [writer[w] EXCEPT !.step = "apply",
                                                                 !.soul = personality]]
      /\ UNCHANGED <<toml, tomlTmp, tomlFd, soul, editing, personality, prompt, watcher,
                     watching, notified, unseen, lastModel>>
  BY DEF ReloadRuntime, IdleWriter, tomlVars, OtherThanWriter
<1>2. collided' \in BOOLEAN /\ (~collided' => ~collided /\ watcher.step = "idle")
  BY DEF ReloadRuntime
<1>3. idle \in [step : WriterSteps, model : ModelValues, soul : SoulTexts]
  BY DEF WriterSteps, ModelValues, SoulTexts
<1>4. TomlTypes'
  BY <1>1, <1>3 DEF ConfigInv, TomlTypes, PromptTypes, WriterSteps
<1>5. PromptTypes'
  BY <1>1, <1>2 DEF ConfigInv, PromptTypes
<1>6. ASSUME ~collided' PROVE SerialToml'
  <2>1. SerialToml /\ TomlTypes /\ ~toml.torn
    BY <1>2, <1>6 DEF ConfigInv, SerialToml
  <2> QED
    BY <1>1, <2>1 DEF TomlTypes, SerialToml, Writing, Placed
<1>7. ASSUME ~collided' PROVE SerialPrompt'
  <2>1. SerialToml /\ SerialPrompt /\ TomlTypes /\ ~toml.torn
    BY <1>2, <1>7 DEF ConfigInv, SerialToml
  <2> QED
    BY <1>1, <1>2, <1>7, <2>1 DEF TomlTypes, SerialPrompt, Reloads
<1> QED
  BY <1>4, <1>5, <1>6, <1>7 DEF ConfigInv

\* It stores the prompt of that personality and answers.
LEMMA ToolOnChangeKeeps ==
  ASSUME ConfigInv, NEW w \in Writers, ToolOnChange(w)
  PROVE  ConfigInv'
<1> DEFINE idle == [step |-> "idle", model |-> NoModel, soul |-> NoSoul]
<1>1. /\ writer[w].step = "apply" /\ writer' = [writer EXCEPT ![w] = idle]
      /\ prompt' = writer[w].soul /\ lastModel' = writer[w].model
      /\ UNCHANGED <<toml, tomlTmp, tomlFd, soul, editing, personality, watcher, watching,
                     notified, unseen, collided>>
  BY DEF ToolOnChange, Reloads, IdleWriter, tomlVars, OtherThanWriter
<1>2. idle \in [step : WriterSteps, model : ModelValues, soul : SoulTexts]
  BY DEF WriterSteps, ModelValues, SoulTexts
<1>3. TomlTypes'
  BY <1>1, <1>2 DEF ConfigInv, TomlTypes
<1>4. PromptTypes'
  BY <1>1 DEF ConfigInv, TomlTypes, PromptTypes
<1>5. ASSUME ~collided' PROVE SerialToml'
  <2>1. SerialToml /\ TomlTypes
    BY <1>1, <1>5 DEF ConfigInv
  <2> QED
    BY <1>1, <2>1 DEF TomlTypes, SerialToml, Writing, Placed
<1>6. ASSUME ~collided' PROVE SerialPrompt'
  BY <1>1, <1>6 DEF ConfigInv, TomlTypes, SerialPrompt, Reloads
<1> QED
  BY <1>3, <1>4, <1>5, <1>6 DEF ConfigInv

\* What the user's editor and the watcher do leaves runtime.toml as it is.
LEMMA TomlFrame ==
  ASSUME ConfigInv, UNCHANGED <<tomlVars, writer, lastModel>>, ~collided' => ~collided
  PROVE  TomlTypes' /\ (~collided' => SerialToml')
BY DEF ConfigInv, tomlVars, TomlTypes, SerialToml, Writing, Placed

\* An edit is told of, or unseen.
LEMMA EditedKeeps ==
  ASSUME ConfigInv, NEW text \in SoulTexts, Edited(text), editing' \in Souls \union {"none"}
  PROVE  ConfigInv'
<1>1. /\ soul' = text
      /\ UNCHANGED <<tomlVars, personality, prompt, writer, watcher, watching, lastModel,
                     collided>>
      /\ notified' \in BOOLEAN /\ unseen' \in BOOLEAN /\ (notified' \/ unseen')
  BY DEF Edited, ConfigInv, PromptTypes
<1>2. PromptTypes'
  BY <1>1 DEF ConfigInv, PromptTypes
<1>3. ASSUME ~collided' PROVE SerialPrompt'
  BY <1>1, <1>3 DEF ConfigInv, SerialPrompt, Reloads
<1> QED
  BY <1>1, <1>2, <1>3, TomlFrame DEF ConfigInv

\* The watcher's reload: it takes an event and reads SOUL.md, then runtime.toml, and
\* stores the prompt of what it read.
LEMMA WatcherKeeps ==
  ASSUME ConfigInv, StartsWatching \/ Watch \/ LoadConfig \/ WatcherOnChange
  PROVE  ConfigInv'
<1>1. UNCHANGED <<tomlVars, soul, editing, writer, lastModel>>
      /\ collided' \in BOOLEAN /\ (~collided' => ~collided)
  BY DEF StartsWatching, Watch, LoadConfig, WatcherOnChange, OtherThanWatcher, ConfigInv,
         PromptTypes
<1>2. PromptTypes'
  <2>1. PromptTypes /\ IdleWatcher \in [step : {"idle", "load", "apply"}, soul : SoulTexts]
    BY DEF ConfigInv, IdleWatcher, SoulTexts
  <2>2. CASE StartsWatching
    BY <1>1, <2>1, <2>2 DEF StartsWatching, PromptTypes
  <2>3. CASE Watch
    BY <1>1, <2>1, <2>3 DEF Watch, OtherThanWatcher, PromptTypes
  <2>4. CASE LoadConfig
    BY <1>1, <2>1, <2>4 DEF LoadConfig, OtherThanWatcher, PromptTypes
  <2>5. CASE WatcherOnChange
    BY <1>1, <2>1, <2>5 DEF WatcherOnChange, OtherThanWatcher, PromptTypes
  <2> QED
    BY <2>2, <2>3, <2>4, <2>5
<1>3. ASSUME ~collided' PROVE SerialPrompt'
  <2>1. SerialPrompt /\ ~toml.torn /\ PromptTypes
    BY <1>1, <1>3 DEF ConfigInv, SerialToml
  <2>2. CASE StartsWatching
    BY <1>1, <2>1, <2>2 DEF StartsWatching, SerialPrompt, Reloads
  <2>3. CASE Watch
    BY <1>1, <1>3, <2>1, <2>3 DEF Watch, SerialPrompt, Reloads
  <2>4. CASE LoadConfig
    BY <1>1, <2>1, <2>4 DEF LoadConfig, SerialPrompt, Reloads, PromptTypes
  <2>5. CASE WatcherOnChange
    BY <1>1, <2>1, <2>5 DEF WatcherOnChange, SerialPrompt, Reloads, IdleWatcher
  <2> QED
    BY <2>2, <2>3, <2>4, <2>5
<1> QED
  BY <1>1, <1>2, <1>3, TomlFrame DEF ConfigInv

\* An agent that died leaves the hub's writer where it was, and the temporary file as
\* its own writer left it; it starts from the files.
LEMMA StartsAgainKeeps ==
  ASSUME ConfigInv, StartsAgain
  PROVE  ConfigInv'
<1> DEFINE idle == [step |-> "idle", model |-> NoModel, soul |-> NoSoul]
<1>1. /\ tomlFd' = [w \in Writers |-> IF w \in ToolCallers THEN "none" ELSE tomlFd[w]]
      /\ writer' = [w \in Writers |-> IF w \in ToolCallers THEN idle ELSE writer[w]]
      /\ UNCHANGED <<toml, tomlTmp, soul, editing, collided>>
      /\ watcher' = IdleWatcher /\ watching' = FALSE /\ notified' = FALSE /\ unseen' = FALSE
      /\ personality' = soul /\ prompt' = soul /\ ~toml.torn
  BY DEF StartsAgain, Toml!Die, ToolCallers, IdleWriter
<1>2. lastModel' = IF \E w \in ToolCallers : Writing(w) THEN toml.value ELSE lastModel
  BY DEF StartsAgain
<1>3. idle \in [step : WriterSteps, model : ModelValues, soul : SoulTexts]
  BY DEF WriterSteps, ModelValues, SoulTexts
<1>4. TomlTypes'
  BY <1>1, <1>2, <1>3 DEF ConfigInv, TomlTypes, Tomls
<1>5. PromptTypes'
  BY <1>1 DEF ConfigInv, PromptTypes, IdleWatcher, SoulTexts
<1>6. ASSUME ~collided' PROVE SerialToml'
  <2>1. SerialToml /\ TomlTypes
    BY <1>1, <1>6 DEF ConfigInv
  <2>2. \A w \in Writers : writer'[w] = idle \/ (w \notin ToolCallers /\ writer'[w] = writer[w]
                                                 /\ tomlFd'[w] = tomlFd[w])
    BY <1>1
  <2>3. toml'.value = lastModel'
    BY <1>1, <1>2, <2>1 DEF SerialToml, Placed, Writing, ToolCallers
  <2> QED
    BY <1>1, <2>1, <2>2, <2>3 DEF SerialToml, Writing, Placed
<1>7. ASSUME ~collided' PROVE SerialPrompt'
  <2>1. SerialToml /\ TomlTypes
    BY <1>1, <1>7 DEF ConfigInv
  <2> QED
    BY <1>1, <2>1 DEF SerialToml, SerialPrompt, Reloads, Placed, IdleWatcher
<1> QED
  BY <1>4, <1>5, <1>6, <1>7 DEF ConfigInv

LEMMA ConfigInvNext == ConfigInv /\ [ConfigNext]_configVars => ConfigInv'
<1> SUFFICES ASSUME ConfigInv, [ConfigNext]_configVars
             PROVE  ConfigInv'
  OBVIOUS
<1>1. ASSUME NEW w \in Writers, WriterStep(w) PROVE ConfigInv'
  BY <1>1, OpensKeeps, WritesKeeps, RenamesKeeps, ReloadRuntimeKeeps, ToolOnChangeKeeps
  DEF WriterStep
<1>2. ASSUME NEW w \in Writers, NEW model \in Models, WriteRuntimeField(w, model)
      PROVE  ConfigInv'
  BY <1>2, WriteRuntimeFieldKeeps
<1>3. CASE EditorWrites
  <2>1. editing \in SoulTexts /\ editing' \in Souls \union {"none"} /\ Edited(editing)
    BY <1>3 DEF EditorWrites, ConfigInv, PromptTypes, SoulTexts
  <2> QED
    BY <2>1, EditedKeeps
<1>4. ASSUME NEW text \in Souls, EditorTruncates(text)
      PROVE  ConfigInv'
  <2>1. NoSoul \in SoulTexts /\ editing' \in Souls \union {"none"} /\ Edited(NoSoul)
    BY <1>4 DEF EditorTruncates, SoulTexts
  <2> QED
    BY <2>1, EditedKeeps
<1>5. CASE StartsWatching \/ Watch \/ LoadConfig \/ WatcherOnChange
  BY <1>5, WatcherKeeps
<1>6. CASE StartsAgain
  BY <1>6, StartsAgainKeeps
<1>7. CASE UNCHANGED configVars
  <2>1. /\ UNCHANGED <<tomlVars, writer, lastModel, collided>>
        /\ UNCHANGED <<soul, editing, personality, prompt, watcher, watching, notified, unseen>>
    BY <1>7 DEF configVars
  <2>2. PromptTypes' /\ (~collided' => SerialPrompt')
    BY <2>1 DEF ConfigInv, PromptTypes, SerialPrompt, Reloads
  <2> QED
    BY <2>1, <2>2, TomlFrame DEF ConfigInv
<1> QED
  BY <1>1, <1>2, <1>3, <1>4, <1>5, <1>6, <1>7 DEF ConfigNext

\* Types of what the hub, the tool, the editor, the watcher and a restart leave, in
\* any order, collisions included.
THEOREM ConfigTypesCorrect == ConfigSpec => []ConfigTypeOK
<1>1. ConfigInv => ConfigTypeOK
  BY DEF ConfigInv, TomlTypes, PromptTypes, ConfigTypeOK, Tomls, ModelValues, SoulTexts
<1> QED
  BY <1>1, ConfigInvInit, ConfigInvNext, PTL DEF ConfigSpec

\* "Hot reload" (config.go): unless writers, or a tool's and the watcher's reload,
\* collide, runtime.toml parses and holds the model last answered, and at rest the
\* prompt is SOUL.md, for any number of tool calls, edits and restarts.
THEOREM PromptCorrect == ConfigSpec => []PromptFollowsFiles
<1>1. ConfigInv => PromptFollowsFiles
  BY DEF ConfigInv, SerialToml, SerialPrompt, PromptFollowsFiles, AllIdle, Writing, Placed,
         ConfigQuiet
<1> QED
  BY <1>1, ConfigInvInit, ConfigInvNext, PTL DEF ConfigSpec

----------------------------------------------------------------------------
(* Cron expressions *)

\* The quotient and the remainder of a number, and what determines them.
LEMMA DivMod ==
  ASSUME NEW a \in Int, NEW d \in Nat \ {0}
  PROVE  a = d * (a \div d) + (a % d) /\ (a \div d) \in Int
OBVIOUS

LEMMA MultipleMod ==
  ASSUME NEW k \in Int, NEW d \in Nat \ {0}
  PROVE  (k * d) % d = 0
<1>1. k * d \in Int
  OBVIOUS
<1> QED
  BY <1>1

\* Between two multiples of d there is at least d.
LEMMA MultiplesApart ==
  ASSUME NEW a \in Int, NEW b \in Int, NEW d \in Nat \ {0}, a % d = 0, b % d = 0, a < b
  PROVE  a + d <= b
<1> DEFINE j == a \div d
           k == b \div d
<1>1. j \in Int /\ k \in Int /\ a = j * d /\ b = k * d
  BY DivMod
<1> HIDE DEF j, k
<1>2. j < k
  BY <1>1
<1>3. (k - (j + 1)) * d >= 0
  BY <1>1, <1>2
<1> QED
  BY <1>1, <1>3

\* From one multiple of d to the next.
LEMMA NextMultiple ==
  ASSUME NEW a \in Int, NEW d \in Nat \ {0}, a % d = 0
  PROVE  (a + d) % d = 0
<1> DEFINE j == a \div d
<1>1. j \in Int /\ a = j * d
  BY DivMod
<1> HIDE DEF j
<1>2. a + d = (j + 1) * d /\ j + 1 \in Int
  BY <1>1
<1> QED
  BY <1>2, MultipleMod

\* The inductive invariant: the fields before this one match, the parts before this
\* one parse and do not; in its loop matchPart has passed the values below the
\* one it is at, which is one of the part's unless it is past the end.
FieldsBefore == \A i \in 1..(fieldNo - 1) : Denotes(fields[i], time[i])

PartsBefore ==
  \A j \in 1..(partNo - 1) :
    /\ fields[fieldNo][j] # Unparsable
    /\ time[fieldNo] \notin Values(fields[fieldNo][j])

ValuesBefore ==
  /\ Current # Unparsable
  /\ tried \in Int /\ Current.low <= tried
  /\ (tried - Current.low) % Current.by = 0
  /\ time[fieldNo] \in Values(Current) => tried <= time[fieldNo]

ExprInv ==
  /\ fields \in Schedules /\ time \in Times
  /\ fieldNo \in DOMAIN fields /\ partNo \in DOMAIN fields[fieldNo]
  /\ FieldsBefore /\ PartsBefore
  /\ looping \in BOOLEAN /\ (looping => ValuesBefore)
  /\ ExpressionsDenote

\* What the constants' assumption says of the part that is being matched.
LEMMA CurrentPart ==
  ASSUME ExprInv
  PROVE  /\ fields \in Seq(Seq(Ranges \union {Unparsable})) /\ time \in Seq(Int)
         /\ Len(time) = Len(fields) /\ Len(fields) \in Nat
         /\ fields[fieldNo] \in Seq(Ranges \union {Unparsable})
         /\ \A i \in 1..Len(fields) : Len(fields[i]) \in Nat /\ 1 \in 1..Len(fields[i])
         /\ fieldNo \in 1..Len(fields) /\ partNo \in 1..Len(fields[fieldNo])
         /\ DOMAIN fields = 1..Len(fields)
         /\ DOMAIN fields[fieldNo] = 1..Len(fields[fieldNo])
         /\ time[fieldNo] \in Int
         /\ Current \in Ranges \union {Unparsable}
<1> DEFINE PartsOf == Ranges \union {Unparsable}
           FieldsOf == Seq(PartsOf)
<1>1. fields \in Seq(FieldsOf) /\ time \in Seq(Int) /\ Len(time) = Len(fields)
  BY ExprAssumption DEF ExprInv
<1>2. \A i \in DOMAIN fields : fields[i] # <<>>
  BY ExprAssumption DEF ExprInv
<1> HIDE DEF FieldsOf
<1>3. /\ Len(fields) \in Nat /\ DOMAIN fields = 1..Len(fields)
      /\ fieldNo \in 1..Len(fields) /\ time[fieldNo] \in Int
      /\ \A i \in 1..Len(fields) : fields[i] \in FieldsOf
  BY <1>1 DEF ExprInv
<1> USE DEF FieldsOf
<1> HIDE DEF PartsOf
<1>4. ASSUME NEW i \in 1..Len(fields)
      PROVE  Len(fields[i]) \in Nat /\ 1 \in 1..Len(fields[i])
  <2>1. fields[i] \in Seq(PartsOf) /\ fields[i] # <<>>
    BY <1>2, <1>3
  <2> QED
    BY <2>1
<1>5. fields[fieldNo] \in Seq(PartsOf)
  BY <1>3
<1>6. /\ DOMAIN fields[fieldNo] = 1..Len(fields[fieldNo])
      /\ partNo \in 1..Len(fields[fieldNo]) /\ Current \in PartsOf
  BY <1>5 DEF ExprInv, Current
<1> QED
  BY <1>1, <1>3, <1>4, <1>5, <1>6 DEF PartsOf

LEMMA ExprInvInit == ExprInit => ExprInv
<1> SUFFICES ASSUME ExprInit PROVE ExprInv
  OBVIOUS
<1>1. /\ fields \in Schedules /\ time \in Times /\ fieldNo = 1 /\ partNo = 1
      /\ looping = FALSE /\ verdict = "none"
  BY DEF ExprInit
<1>2. 1 \in DOMAIN fields /\ 1 \in DOMAIN fields[1]
  BY <1>1, ExprAssumption
<1>3. FieldsBefore /\ PartsBefore
  BY <1>1 DEF FieldsBefore, PartsBefore
<1> QED
  BY <1>1, <1>2, <1>3 DEF ExprInv, ExpressionsDenote

LEMMA ParsePartKeeps ==
  ASSUME ExprInv, ParsePart, verdict = "none"
  PROVE  ExprInv'
<1>1. UNCHANGED <<fields, time, fieldNo, partNo>>
  BY DEF ParsePart
<1>2. FieldsBefore' /\ PartsBefore' /\ Current' = Current
  BY <1>1 DEF ExprInv, FieldsBefore, PartsBefore, Current
<1>3. CASE Current = Unparsable
  <2>1. verdict' = "error" /\ looping' = FALSE
    BY <1>3 DEF ParsePart, ExprInv
  <2>2. ~Parses(fields[fieldNo])
    BY <1>3, CurrentPart DEF Parses, Current
  <2>3. ExpressionsDenote'
    BY <1>1, <2>1, <2>2, CurrentPart DEF ExpressionsDenote
  <2> QED
    BY <1>1, <1>2, <2>1, <2>3 DEF ExprInv
<1>4. CASE Current # Unparsable
  <2>1. looping' = TRUE /\ tried' = Current.low /\ verdict' = "none"
    BY <1>4 DEF ParsePart
  <2>2. Current.low \in Int /\ Current.by \in Nat \ {0}
    BY <1>4, CurrentPart DEF Ranges
  <2>3. (tried' - Current.low) % Current.by = 0
    BY <2>1, <2>2, MultipleMod
  <2>4. ValuesBefore'
    BY <1>1, <1>2, <1>4, <2>1, <2>2, <2>3 DEF ValuesBefore, Values
  <2>5. ExpressionsDenote'
    BY <2>1 DEF ExpressionsDenote
  <2> QED
    BY <1>1, <1>2, <2>1, <2>4, <2>5 DEF ExprInv
<1> QED
  BY <1>3, <1>4

\* The next value of the part is low plus a multiple of by, and none lies between.
LEMMA matchPartKeeps ==
  ASSUME ExprInv, matchPart, verdict = "none"
  PROVE  ExprInv'
<1>1. /\ UNCHANGED <<fields, time, fieldNo, partNo, looping, verdict>>
      /\ tried' = tried + Current.by
      /\ looping /\ tried # time[fieldNo] /\ ValuesBefore
  BY DEF matchPart, ExprInv
<1>2. FieldsBefore' /\ PartsBefore' /\ Current' = Current /\ ExpressionsDenote'
  BY <1>1 DEF ExprInv, FieldsBefore, PartsBefore, Current, ExpressionsDenote
<1> DEFINE low == Current.low
           by == Current.by
           val == time[fieldNo]
<1>3. low \in Int /\ by \in Nat \ {0} /\ val \in Int /\ tried \in Int
  BY <1>1, CurrentPart DEF Ranges, ValuesBefore
<1>4. low <= tried /\ (tried - low) % by = 0
  BY <1>1 DEF ValuesBefore
<1>5. low <= tried' /\ tried' \in Int
  BY <1>1, <1>3, <1>4
<1>6. (tried' - low) % by = 0
  <2>1. ((tried - low) + by) % by = 0
    BY <1>3, <1>4, NextMultiple
  <2>2. tried' - low = (tried - low) + by
    BY <1>1, <1>3
  <2> QED
    BY <2>1, <2>2
<1>7. ASSUME val \in Values(Current) PROVE tried' <= val
  <2>1. (val - low) % by = 0 /\ tried < val
    BY <1>1, <1>3, <1>7 DEF Values, ValuesBefore
  <2>2. (tried - low) + by <= val - low
    BY <1>3, <1>4, <2>1, MultiplesApart
  <2> QED
    BY <1>1, <1>3, <2>2
<1>8. ValuesBefore'
  BY <1>1, <1>2, <1>5, <1>6, <1>7 DEF ValuesBefore
<1> QED
  BY <1>1, <1>2, <1>8 DEF ExprInv

\* Past the end of the part the value is none of it.
LEMMA matchFieldKeeps ==
  ASSUME ExprInv, matchField, verdict = "none"
  PROVE  ExprInv'
<1>1. UNCHANGED <<fields, time, fieldNo, tried>> /\ looping /\ ValuesBefore
  BY DEF matchField, ExprInv
<1>2. Current # Unparsable /\ time[fieldNo] \notin Values(Current)
  BY <1>1, CurrentPart DEF matchField, InRange, ValuesBefore, Values, Ranges
<1>3. FieldsBefore'
  BY <1>1 DEF ExprInv, FieldsBefore
<1>4. CASE partNo = Len(fields[fieldNo])
  <2>1. verdict' = "no" /\ partNo' = partNo /\ looping' = looping
    BY <1>4 DEF matchField
  <2>2. \A j \in 1..Len(fields[fieldNo]) :
          fields[fieldNo][j] # Unparsable /\ time[fieldNo] \notin Values(fields[fieldNo][j])
    BY <1>2, <1>4, CurrentPart DEF ExprInv, PartsBefore, Current
  <2>3. Parses(fields[fieldNo]) /\ ~Denotes(fields[fieldNo], time[fieldNo])
    BY <2>2, CurrentPart DEF Parses, Denotes
  <2>4. ExpressionsDenote'
    BY <1>1, <2>1, <2>3, CurrentPart DEF ExpressionsDenote
  <2>5. PartsBefore' /\ ValuesBefore'
    BY <1>1, <2>1 DEF ExprInv, PartsBefore, ValuesBefore, Current
  <2> QED
    BY <1>1, <1>3, <2>1, <2>4, <2>5 DEF ExprInv
<1>5. CASE partNo # Len(fields[fieldNo])
  <2>1. verdict' = "none" /\ partNo' = partNo + 1 /\ looping' = FALSE
    BY <1>5 DEF matchField
  <2>2. partNo' \in DOMAIN fields[fieldNo]
    BY <1>5, <2>1, CurrentPart
  <2>3. PartsBefore'
    BY <1>1, <1>2, <2>1, CurrentPart DEF ExprInv, PartsBefore, Current
  <2>4. ExpressionsDenote'
    BY <2>1 DEF ExpressionsDenote
  <2> QED
    BY <1>1, <1>3, <2>1, <2>2, <2>3, <2>4 DEF ExprInv
<1> QED
  BY <1>4, <1>5

\* The value is one of the part's, for the part is in range.
LEMMA matchesCronKeeps ==
  ASSUME ExprInv, matchesCron, verdict = "none"
  PROVE  ExprInv'
<1>1. UNCHANGED <<fields, time, tried>> /\ looping /\ ValuesBefore
  BY DEF matchesCron, ExprInv
<1>2. Current # Unparsable /\ time[fieldNo] \in Values(Current)
  BY <1>1, CurrentPart DEF matchesCron, InRange, ValuesBefore, Values, Ranges
<1>3. Denotes(fields[fieldNo], time[fieldNo])
  BY <1>2, CurrentPart DEF Denotes, Current
<1>4. \A i \in 1..fieldNo : Denotes(fields[i], time[i])
  <2>1. \A i \in 1..(fieldNo - 1) : Denotes(fields[i], time[i])
    BY DEF ExprInv, FieldsBefore
  <2>2. \A i \in 1..fieldNo : i = fieldNo \/ i \in 1..(fieldNo - 1)
    BY CurrentPart
  <2> QED
    BY <1>3, <2>1, <2>2
<1>5. CASE fieldNo = Len(fields)
  <2>1. verdict' = "yes" /\ fieldNo' = fieldNo /\ partNo' = partNo /\ looping' = looping
    BY <1>5 DEF matchesCron
  <2>2. ExpressionsDenote'
    BY <1>1, <1>4, <1>5, <2>1, CurrentPart DEF ExpressionsDenote
  <2>3. FieldsBefore' /\ PartsBefore' /\ ValuesBefore'
    BY <1>1, <2>1 DEF ExprInv, FieldsBefore, PartsBefore, ValuesBefore, Current
  <2> QED
    BY <1>1, <2>1, <2>2, <2>3 DEF ExprInv
<1>6. CASE fieldNo # Len(fields)
  <2>1. verdict' = "none" /\ fieldNo' = fieldNo + 1 /\ partNo' = 1 /\ looping' = FALSE
    BY <1>6 DEF matchesCron
  <2>2. fieldNo' \in DOMAIN fields /\ partNo' \in DOMAIN fields[fieldNo']
    <3>1. fieldNo' \in 1..Len(fields)
      BY <1>6, <2>1, CurrentPart
    <3>2. fields[fieldNo'] \in Seq(Ranges \union {Unparsable})
      BY <3>1, CurrentPart
    <3> QED
      BY <2>1, <3>1, <3>2, CurrentPart
  <2>3. FieldsBefore'
    BY <1>1, <1>4, <2>1, CurrentPart DEF FieldsBefore
  <2>4. PartsBefore'
    BY <2>1 DEF PartsBefore
  <2>5. ExpressionsDenote'
    BY <2>1 DEF ExpressionsDenote
  <2> QED
    BY <1>1, <2>1, <2>2, <2>3, <2>4, <2>5 DEF ExprInv
<1> QED
  BY <1>5, <1>6

LEMMA ExprInvNext == ExprInv /\ [ExprNext]_exprVars => ExprInv'
<1> SUFFICES ASSUME ExprInv, [ExprNext]_exprVars
             PROVE  ExprInv'
  OBVIOUS
<1>1. CASE ExprNext
  BY <1>1, ParsePartKeeps, matchPartKeeps, matchFieldKeeps, matchesCronKeeps DEF ExprNext
<1>2. CASE UNCHANGED exprVars
  BY <1>2 DEF exprVars, ExprInv, FieldsBefore, PartsBefore, ValuesBefore, Current,
              ExpressionsDenote
<1> QED
  BY <1>1, <1>2

\* The three loops of expr.go give a schedule its meaning, for every schedule and
\* every time: whatever ranges, steps and lists its fields are made of.
THEOREM DenotesCorrect == ExprSpec => []ExpressionsDenote
<1>1. ExprInv => ExpressionsDenote
  BY DEF ExprInv
<1> QED
  BY <1>1, ExprInvInit, ExprInvNext, PTL DEF ExprSpec

----------------------------------------------------------------------------
(* Memories *)

CallRecords ==
  [step : Steps, id : Ids \union {"none"}, text : Texts \union {NoFile, "none"},
   unlinked : BOOLEAN]

\* MemoryTypeOK with what it takes to be inductive: what a call in progress is about.
MemoryTypeInv ==
  /\ MemoryTypeOK
  /\ call \in [ToolCalls -> CallRecords]
  /\ \A c \in ToolCalls :
       /\ call[c].step # "idle" => call[c].id \in Ids
       /\ call[c].step \in {"open", "write"} => call[c].text \in Bodies
       /\ call[c].step \in {"remove", "forget"} => call[c].text = NoFile
       /\ call[c].step \in {"load", "drop entry", "add entry"} => call[c].text \in Texts

\* Idle's fields.
LEMMA IdleCall == Idle \in CallRecords /\ Idle.step = "idle"
BY DEF Idle, CallRecords, Steps

\* A store that starts with any files and no call in progress has its types.
LEMMA MemoryTypeInit == ASSUME MemoryInit PROVE MemoryTypeInv
<1>1. call \in [ToolCalls -> CallRecords] /\ \A c \in ToolCalls : call[c].step = "idle"
  BY IdleCall DEF MemoryInit
<1>2. /\ files \in [Ids -> Texts \union {NoFile, Truncated}]
      /\ index \in [Ids -> Texts \union {NoEntry}]
  BY DEF MemoryInit, Texts
<1>3. told \in [Ids -> Bodies \union {NoFile, Unknown, Mixed}]
  BY DEF MemoryInit
<1>4. toolCalls \in 0..MaxToolCalls /\ restarts \in 0..MaxRestarts
  BY MemoryAssumption DEF MemoryInit
<1> QED
  BY <1>1, <1>2, <1>3, <1>4 DEF MemoryInit, MemoryTypeInv, MemoryTypeOK, Steps

\* A call that begins works on one memory and has nothing open.
LEMMA BeginsTyped ==
  ASSUME MemoryTypeInv, NEW c \in ToolCalls, NEW id \in Ids, NEW text, NEW first,
         (first = "open" /\ text \in Bodies) \/ (first = "remove" /\ text = NoFile),
         Begins(c, first, id, text)
  PROVE  MemoryTypeInv'
<1> DEFINE new == [Idle EXCEPT !.step = first, !.id = id, !.text = text]
<1>1. new \in CallRecords /\ new.step = first /\ new.id = id /\ new.text = text
  BY DEF Idle, CallRecords, Steps, Texts
<1>2. call' = [call EXCEPT ![c] = new] /\ store # "rebuilding"
      /\ UNCHANGED <<files, index, store, restarts, unembedded>>
  BY DEF Begins
<1>3. told' \in [Ids -> Bodies \union {NoFile, Unknown, Mixed}] /\ raced' \subseteq Ids
  BY DEF Begins, MemoryTypeInv, MemoryTypeOK
<1>4. toolCalls' \in 0..MaxToolCalls
  <2>1. toolCalls < MaxToolCalls /\ toolCalls' = toolCalls + 1
    BY DEF Begins
  <2>2. toolCalls \in 0..MaxToolCalls /\ MaxToolCalls \in Nat
    BY MemoryAssumption DEF MemoryTypeInv, MemoryTypeOK
  <2> QED
    BY <2>1, <2>2
<1>5. \A d \in ToolCalls : call'[d] = IF d = c THEN new ELSE call[d]
  BY <1>2 DEF MemoryTypeInv
<1> QED
  BY <1>1, <1>2, <1>3, <1>4, <1>5 DEF MemoryTypeInv, MemoryTypeOK, Steps

\* A step of call c that leaves the other calls alone, and makes of it an idle one
\* or one of the given step, keeps the part of MemoryTypeInv about calls.
LEMMA StepTyped ==
  ASSUME MemoryTypeInv, store # "rebuilding", NEW c \in ToolCalls, NEW new \in CallRecords,
         call' = [call EXCEPT ![c] = new], store' = store,
         store = "markdown" => new.step \in {"idle", "open", "write", "remove"},
         new.step # "idle" => new.id \in Ids,
         new.step \in {"open", "write"} => new.text \in Bodies,
         new.step \in {"remove", "forget"} => new.text = NoFile,
         new.step \in {"load", "drop entry", "add entry"} => new.text \in Texts
  PROVE  /\ call' \in [ToolCalls -> CallRecords]
         /\ \A d \in ToolCalls :
              /\ call'[d].step \in Steps
              /\ store' = "markdown" => call'[d].step \in {"idle", "open", "write", "remove"}
              /\ call'[d].step # "idle" => call'[d].id \in Ids
              /\ call'[d].step \in {"open", "write"} => call'[d].text \in Bodies
              /\ call'[d].step \in {"remove", "forget"} => call'[d].text = NoFile
              /\ call'[d].step \in {"load", "drop entry", "add entry"} => call'[d].text \in Texts
<1>1. /\ call' \in [ToolCalls -> CallRecords]
      /\ \A d \in ToolCalls : call'[d] = IF d = c THEN new ELSE call[d]
  BY DEF MemoryTypeInv
<1>2. new.step \in Steps
  BY DEF CallRecords
<1> QED
  BY <1>1, <1>2 DEF MemoryTypeInv, MemoryTypeOK

\* Every step of a call that touches no other call keeps MemoryTypeInv.
LEMMA CallTyped ==
  ASSUME MemoryTypeInv, NEW c \in ToolCalls, MemoryStep(c), ~Removes(c)
  PROVE  MemoryTypeInv'
<1>1. call[c] \in CallRecords /\ call[c].id \in Ids /\ store # "rebuilding" /\ call[c].step # "idle"
  <2>1. call[c].step # "idle"
    BY DEF MemoryStep, SaveOpens, SaveWrites, Load, DropEntry, AddDocument, Forgets
  <2> QED
    BY <2>1, IdleCall DEF MemoryTypeInv, MemoryTypeOK
<1>2. call' \in [ToolCalls -> CallRecords]
      /\ (\A d \in ToolCalls :
           /\ call'[d].step \in Steps
           /\ store' = "markdown" => call'[d].step \in {"idle", "open", "write", "remove"}
           /\ call'[d].step # "idle" => call'[d].id \in Ids
           /\ call'[d].step \in {"open", "write"} => call'[d].text \in Bodies
           /\ call'[d].step \in {"remove", "forget"} => call'[d].text = NoFile
           /\ call'[d].step \in {"load", "drop entry", "add entry"} => call'[d].text \in Texts)
  <2> DEFINE At(s) == [call[c] EXCEPT !.step = s]
  <2>0. \A s \in Steps : /\ At(s) \in CallRecords /\ At(s).step = s /\ At(s).id = call[c].id
                         /\ At(s).text = call[c].text
    BY <1>1 DEF CallRecords
  <2> HIDE DEF At
  <2>1. CASE SaveOpens(c)
    <3>1. call[c].text \in Bodies /\ call' = [call EXCEPT ![c] = At("write")] /\ store' = store
      BY <2>1 DEF SaveOpens, MovesTo, MemoryTypeInv, At
    <3> QED
      BY <1>1, <2>0, <3>1, StepTyped DEF Steps
  <2>2. CASE SaveWrites(c)
    <3>1. call[c].text \in Bodies /\ store' = store
      BY <2>2 DEF SaveWrites, MemoryTypeInv
    <3>2. CASE store = "markdown"
      <4>1. call' = [call EXCEPT ![c] = Idle]
        BY <2>2, <3>2 DEF SaveWrites, Answers
      <4> QED
        BY <1>1, <3>1, <4>1, IdleCall, StepTyped
    <3>3. CASE store # "markdown"
      <4>1. call' = [call EXCEPT ![c] = At("load")]
        BY <2>2, <3>3 DEF SaveWrites, MovesTo, At
      <4> QED
        BY <1>1, <2>0, <3>1, <3>3, <4>1, StepTyped DEF Steps, Texts
    <3> QED
      BY <3>2, <3>3
  <2>3. CASE Load(c)
    <3>1. store' = store /\ store # "markdown"
      BY <2>3 DEF Load, MemoryTypeInv, MemoryTypeOK
    <3>2. CASE files[call[c].id] \in {NoFile, Truncated}
      <4>1. call' = [call EXCEPT ![c] = Idle]
        BY <2>3, <3>2 DEF Load, Answers
      <4> QED
        BY <1>1, <3>1, <4>1, IdleCall, StepTyped
    <3>3. CASE files[call[c].id] \notin {NoFile, Truncated}
      <4> DEFINE new == [call[c] EXCEPT !.step = "drop entry", !.text = files[call[c].id]]
      <4>1. call' = [call EXCEPT ![c] = new]
        BY <2>3, <3>3 DEF Load
      <4>2. files[call[c].id] \in Texts
        BY <1>1, <3>3 DEF MemoryTypeInv, MemoryTypeOK
      <4>3. /\ new \in CallRecords /\ new.step = "drop entry" /\ new.id = call[c].id
            /\ new.text = files[call[c].id]
        BY <1>1, <4>2 DEF CallRecords, Steps
      <4> HIDE DEF new
      <4> QED
        BY <1>1, <3>1, <4>1, <4>2, <4>3, StepTyped
    <3> QED
      BY <3>2, <3>3
  <2>4. CASE DropEntry(c)
    <3>1. store' = store /\ store # "markdown" /\ call[c].text \in Texts
      BY <2>4 DEF DropEntry, MemoryTypeInv, MemoryTypeOK
    <3>2. call' = [call EXCEPT ![c] = At("add entry")]
      BY <2>4 DEF DropEntry, MovesTo, At
    <3> QED
      BY <1>1, <2>0, <3>1, <3>2, StepTyped DEF Steps
  <2>5. CASE AddDocument(c) \/ Forgets(c)
    <3>1. call' = [call EXCEPT ![c] = Idle] /\ store' = store
      BY <2>5 DEF AddDocument, Forgets, Answers
    <3> QED
      BY <1>1, <3>1, IdleCall, StepTyped
  <2> QED
    BY <2>1, <2>2, <2>3, <2>4, <2>5 DEF MemoryStep
<1>3. files' \in [Ids -> Texts \union {NoFile, Truncated}]
  <2>1. CASE SaveOpens(c)
    BY <2>1 DEF SaveOpens, MemoryTypeInv, MemoryTypeOK
  <2>2. CASE SaveWrites(c)
    <3>1. call[c].text \in Bodies
      BY <2>2 DEF SaveWrites, MemoryTypeInv
    <3>2. \E text \in {call[c].text, Mixed} :
            files' = IF call[c].unlinked THEN files ELSE [files EXCEPT ![call[c].id] = text]
      BY <2>2 DEF SaveWrites
    <3> QED
      BY <3>1, <3>2 DEF MemoryTypeInv, MemoryTypeOK, Texts
  <2>3. CASE UNCHANGED files
    BY <2>3 DEF MemoryTypeInv, MemoryTypeOK
  <2> QED
    BY <2>1, <2>2, <2>3 DEF MemoryStep, Load, DropEntry, AddDocument, Forgets
<1>4. index' \in [Ids -> Texts \union {NoEntry}]
  <2>1. CASE AddDocument(c)
    <3>1. call[c].text \in Texts
      BY <2>1 DEF AddDocument, MemoryTypeInv
    <3> QED
      BY <2>1, <3>1 DEF AddDocument, MemoryTypeInv, MemoryTypeOK
  <2>2. CASE DropEntry(c) \/ Forgets(c)
    BY <2>2 DEF DropEntry, Forgets, MemoryTypeInv, MemoryTypeOK
  <2> QED
    BY <2>1, <2>2 DEF MemoryStep, SaveOpens, SaveWrites, Load, MemoryTypeInv, MemoryTypeOK
<1>5. told' \in [Ids -> Bodies \union {NoFile, Unknown, Mixed}]
  <2>1. told' = told
        \/ (told' = [told EXCEPT ![call[c].id] = call[c].text]
            /\ call[c].step \in {"write", "add entry", "forget"})
    BY DEF MemoryStep, SaveOpens, SaveWrites, Load, DropEntry, AddDocument, Forgets, Answers
  <2>2. call[c].step \in {"write", "add entry", "forget"} => call[c].text \in Texts \union {NoFile}
    BY DEF MemoryTypeInv, Texts
  <2> QED
    BY <2>1, <2>2 DEF MemoryTypeInv, MemoryTypeOK, Texts
<1>6. UNCHANGED <<store, toolCalls, restarts, raced>> /\ unembedded' \subseteq Ids
  BY <1>1 DEF MemoryStep, SaveOpens, SaveWrites, Load, DropEntry, AddDocument, Forgets, MemoryTypeInv,
              MemoryTypeOK
<1> QED
  BY <1>1, <1>2, <1>3, <1>4, <1>5, <1>6 DEF MemoryTypeInv, MemoryTypeOK

\* A deletion marks the saves of the same memory that have the file open.
LEMMA RemovesTyped ==
  ASSUME MemoryTypeInv, NEW c \in ToolCalls, Removes(c)
  PROVE  MemoryTypeInv'
<1>1. call[c].id \in Ids /\ call[c].step = "remove" /\ call[c].text = NoFile
  BY DEF Removes, MemoryTypeInv
<1>2. store # "rebuilding"
  BY <1>1, IdleCall DEF MemoryTypeInv, MemoryTypeOK
<1>3. \A d \in ToolCalls :
        \/ call'[d] = [call[d] EXCEPT !.unlinked = TRUE] \/ call'[d] = call[d]
        \/ d = c /\ store = "markdown" /\ call'[d] = Idle
        \/ d = c /\ store # "markdown" /\ call'[d] = [call[d] EXCEPT !.step = "forget"]
  BY DEF Removes
<1>4. \A d \in ToolCalls :
        /\ call'[d] \in CallRecords
        /\ call'[d].step # "idle" => call'[d].id \in Ids
        /\ \/ call'[d].step = call[d].step /\ call'[d].text = call[d].text
           \/ call'[d].step = "idle"
           \/ store # "markdown" /\ call'[d].step = "forget" /\ call'[d].text = NoFile
  <2> TAKE d \in ToolCalls
  <2>1. call[d] \in CallRecords /\ (call[d].step # "idle" => call[d].id \in Ids)
    BY DEF MemoryTypeInv
  <2>2. CASE call'[d] = [call[d] EXCEPT !.unlinked = TRUE] \/ call'[d] = call[d]
    BY <2>1, <2>2 DEF CallRecords
  <2>3. CASE call'[d] = Idle
    BY <2>3, IdleCall
  <2>4. CASE d = c /\ store # "markdown" /\ call'[d] = [call[d] EXCEPT !.step = "forget"]
    BY <1>1, <2>1, <2>4 DEF CallRecords, Steps
  <2> QED
    BY <1>3, <2>2, <2>3, <2>4
<1>5. call' \in [ToolCalls -> CallRecords]
  <2>1. call' = [d \in ToolCalls |-> call'[d]]
    BY DEF Removes
  <2> QED
    BY <1>4, <2>1
<1>6. /\ files' \in [Ids -> Texts \union {NoFile, Truncated}]
      /\ told' \in [Ids -> Bodies \union {NoFile, Unknown, Mixed}]
      /\ UNCHANGED <<index, store, toolCalls, restarts, unembedded, raced>>
  BY <1>1 DEF Removes, MemoryTypeInv, MemoryTypeOK
<1>7. \A d \in ToolCalls : call[d].step \in Steps
  BY DEF MemoryTypeInv, MemoryTypeOK
<1> QED
  BY <1>2, <1>4, <1>5, <1>6, <1>7 DEF MemoryTypeInv, MemoryTypeOK, Steps

\* Every step keeps MemoryTypeInv.
LEMMA MemoryTypeNext == ASSUME MemoryTypeInv, [MemoryNext]_memoryVars PROVE MemoryTypeInv'
<1>1. CASE rebuildIndex
  BY <1>1, IdleCall DEF rebuildIndex, MemoryTypeInv, MemoryTypeOK
<1>2. ASSUME NEW id \in Ids, rebuildEntry(id)
      PROVE  MemoryTypeInv'
  <2>1. files[id] \in Texts
    BY <1>2 DEF rebuildEntry, Stale, OnDisk, MemoryTypeInv, MemoryTypeOK
  <2>2. index' \in [Ids -> Texts \union {NoEntry}] /\ store' \in {"rebuilding", "markdown"}
    BY <1>2, <2>1 DEF rebuildEntry, MemoryTypeInv, MemoryTypeOK
  <2>3. \A c \in ToolCalls : call[c] = Idle
    BY <1>2 DEF rebuildEntry, MemoryTypeInv, MemoryTypeOK
  <2> QED
    BY <1>2, <2>2, <2>3, IdleCall DEF rebuildEntry, MemoryTypeInv, MemoryTypeOK
<1>3. ASSUME NEW c \in ToolCalls, NEW id \in Ids, NEW text \in Bodies, MemorySave(c, id, text)
      PROVE  MemoryTypeInv'
  BY <1>3, BeginsTyped DEF MemorySave
<1>4. ASSUME NEW c \in ToolCalls, NEW id \in Ids, MemoryDelete(c, id)
      PROVE  MemoryTypeInv'
  BY <1>4, BeginsTyped DEF MemoryDelete
<1>5. ASSUME NEW c \in ToolCalls, MemoryStep(c)
      PROVE  MemoryTypeInv'
  BY <1>5, CallTyped, RemovesTyped
<1>6. CASE StoreRestarts
  <2>1. call' = [c \in ToolCalls |-> Idle]
    BY <1>6 DEF StoreRestarts
  <2>2. restarts' \in 0..MaxRestarts
    <3>1. restarts < MaxRestarts /\ restarts' = restarts + 1
      BY <1>6 DEF StoreRestarts
    <3>2. restarts \in 0..MaxRestarts /\ MaxRestarts \in Nat
      BY MemoryAssumption DEF MemoryTypeInv, MemoryTypeOK
    <3> QED
      BY <3>1, <3>2
  <2> QED
    BY <1>6, <2>1, <2>2, IdleCall DEF StoreRestarts, MemoryTypeInv, MemoryTypeOK, Steps
<1>7. CASE UNCHANGED memoryVars
  BY <1>7 DEF memoryVars, MemoryTypeInv, MemoryTypeOK
<1> QED
  BY <1>1, <1>2, <1>3, <1>4, <1>5, <1>6, <1>7 DEF MemoryNext

\* Files, index and calls in progress keep their types; without the index no call
\* is at a step that works on it.
THEOREM MemoryTypeCorrect == MemorySpec => []MemoryTypeOK
<1>1. MemoryTypeInv => MemoryTypeOK
  BY DEF MemoryTypeInv
<1> QED
  BY <1>1, MemoryTypeInit, MemoryTypeNext, PTL DEF MemorySpec

----------------------------------------------------------------------------
(* Files and index *)

\* What memory id, which one call at a time has worked on, looks like at each of
\* that call's steps; while it works, nothing is promised about it.
ToolCallInv(c, id) ==
  Works(c, id) =>
    /\ told[id] = Unknown
    /\ ~call[c].unlinked
    /\ call[c].step = "write" => files[id] = Truncated
    /\ call[c].step \in {"load", "drop entry", "add entry", "forget"} => files[id] = call[c].text

\* The inductive form of MemoriesKept, for one memory.
KeptInv(id) ==
  /\ \A c, d \in ToolCalls : Works(c, id) /\ Works(d, id) => c = d
  /\ \A c \in ToolCalls : ToolCallInv(c, id)
  /\ told[id] # Unknown => files[id] = told[id]
  /\ store = "semantic" /\ id \in OnDisk \ unembedded /\ (\A c \in ToolCalls : ~Works(c, id)) =>
       index[id] = files[id]

Kept == \A id \in Ids \ raced : KeptInv(id)

\* A call that begins on another memory, or is the first on this one, keeps it.
LEMMA BeginsKept ==
  ASSUME MemoryTypeInv, Kept, NEW c \in ToolCalls, NEW id \in Ids, NEW text,
         NEW first \in {"open", "remove"}, Begins(c, first, id, text), NEW i \in Ids \ raced'
  PROVE  KeptInv(i)'
<1> DEFINE new == [Idle EXCEPT !.step = first, !.id = id, !.text = text]
<1>1. new.step = first /\ new.id = id /\ new.unlinked = FALSE
  BY DEF Idle
<1>2. /\ call[c].step = "idle" /\ call' = [call EXCEPT ![c] = new]
      /\ told' = [told EXCEPT ![id] = Unknown]
      /\ UNCHANGED <<files, index, store, unembedded>>
  BY IdleCall DEF Begins
<1>3. i \notin raced /\ (i = id => \A d \in ToolCalls : ~Works(d, i))
  BY DEF Begins
<1>4. KeptInv(i)
  BY <1>3 DEF Kept
<1>5. \A d \in ToolCalls : call'[d] = IF d = c THEN new ELSE call[d]
  BY <1>2 DEF MemoryTypeInv
<1>6. CASE i = id
  <2>1. told'[i] = Unknown
    BY <1>2, <1>6 DEF MemoryTypeInv, MemoryTypeOK
  <2>2. \A d \in ToolCalls : Works(d, i)' <=> d = c
    BY <1>1, <1>3, <1>5, <1>6 DEF Works
  <2> QED
    BY <1>1, <1>5, <2>1, <2>2 DEF KeptInv, ToolCallInv
<1>7. CASE i # id
  <2>1. told'[i] = told[i]
    BY <1>2, <1>7 DEF MemoryTypeInv, MemoryTypeOK
  <2>2. \A d \in ToolCalls : (Works(d, i)' <=> Works(d, i)) /\ (Works(d, i) => call'[d] = call[d])
    BY <1>1, <1>2, <1>5, <1>7 DEF Works
  <2> QED
    BY <1>2, <1>4, <2>1, <2>2 DEF KeptInv, ToolCallInv, OnDisk
<1> QED
  BY <1>6, <1>7

\* A step of a call on another memory does not touch this one.
LEMMA OtherKept ==
  ASSUME MemoryTypeInv, NEW c \in ToolCalls, MemoryStep(c), NEW i \in Ids, KeptInv(i), call[c].id # i
  PROVE  KeptInv(i)'
<1>1. call[c].id \in Ids /\ call[c].step # "idle"
  BY DEF MemoryStep, SaveOpens, SaveWrites, Load, DropEntry, AddDocument, Removes, Forgets, MemoryTypeInv
<1>2. /\ UNCHANGED <<files[i], index[i], told[i], store>>
      /\ i \in unembedded <=> i \in unembedded'
  <2>1. store' = store /\ (i \in unembedded <=> i \in unembedded')
    BY DEF MemoryStep, SaveOpens, SaveWrites, Load, DropEntry, AddDocument, Removes, Forgets
  <2>2. files'[i] = files[i]
    <3>1. CASE SaveWrites(c)
      <4>1. PICK text : files' = IF call[c].unlinked THEN files
                                 ELSE [files EXCEPT ![call[c].id] = text]
        BY <3>1 DEF SaveWrites
      <4> QED
        BY <4>1 DEF MemoryTypeInv, MemoryTypeOK
    <3>2. CASE ~SaveWrites(c)
      BY <3>2 DEF MemoryStep, SaveOpens, Load, DropEntry, AddDocument, Removes, Forgets, MemoryTypeInv,
                  MemoryTypeOK
    <3> QED
      BY <3>1, <3>2
  <2>3. index'[i] = index[i]
    BY DEF MemoryStep, SaveOpens, SaveWrites, Load, DropEntry, AddDocument, Removes, Forgets,
           MemoryTypeInv, MemoryTypeOK
  <2>4. told'[i] = told[i]
    <3>1. \/ told' = told \/ told' = [told EXCEPT ![call[c].id] = call[c].text]
          \/ told' = [told EXCEPT ![call[c].id] = NoFile]
      BY DEF MemoryStep, SaveOpens, SaveWrites, Load, DropEntry, AddDocument, Removes, Forgets,
             Answers
    <3> QED
      BY <3>1 DEF MemoryTypeInv, MemoryTypeOK
  <2> QED
    BY <2>1, <2>2, <2>3, <2>4
<1>3. ~Works(c, i) /\ ~Works(c, i)'
  <2>1. call'[c] = Idle \/ call'[c].id = call[c].id
    <3>1. call[c] \in CallRecords
      BY DEF MemoryTypeInv
    <3>2. CASE Removes(c)
      BY <3>1, <3>2 DEF Removes, CallRecords
    <3>3. CASE SaveOpens(c) \/ SaveWrites(c) \/ DropEntry(c)
      <4>1. \/ call' = [call EXCEPT ![c] = Idle]
            \/ \E s \in Steps : call' = [call EXCEPT ![c] = [call[c] EXCEPT !.step = s]]
        BY <3>3 DEF SaveOpens, SaveWrites, DropEntry, Answers, MovesTo, Steps
      <4>2. \A s \in Steps : [call[c] EXCEPT !.step = s].id = call[c].id
        BY <3>1 DEF CallRecords
      <4> QED
        BY <4>1, <4>2 DEF MemoryTypeInv
    <3>4. CASE Load(c)
      <4> DEFINE new == [call[c] EXCEPT !.step = "drop entry", !.text = files[call[c].id]]
      <4>1. call' = [call EXCEPT ![c] = Idle] \/ call' = [call EXCEPT ![c] = new]
        BY <3>4 DEF Load, Answers
      <4>2. new.id = call[c].id
        BY <3>1 DEF CallRecords
      <4> HIDE DEF new
      <4> QED
        BY <4>1, <4>2 DEF MemoryTypeInv
    <3>5. CASE AddDocument(c) \/ Forgets(c)
      BY <3>5 DEF AddDocument, Forgets, Answers, MemoryTypeInv
    <3> QED
      BY <3>2, <3>3, <3>4, <3>5 DEF MemoryStep
  <2> QED
    BY <2>1, IdleCall DEF Works
<1>4. \A d \in ToolCalls \ {c} : Works(d, i) \/ Works(d, i)' => call'[d] = call[d]
  <2>1. CASE Removes(c)
    <3>1. \A d \in ToolCalls \ {c} :
            call'[d] = IF Works(d, call[c].id) /\ call[d].step = "write"
                       THEN [call[d] EXCEPT !.unlinked = TRUE] ELSE call[d]
      BY <2>1 DEF Removes
    <3>2. \A d \in ToolCalls \ {c} : call[d] \in CallRecords
      BY DEF MemoryTypeInv
    <3>3. \A d \in ToolCalls \ {c} : call'[d].id = call[d].id
      BY <3>1, <3>2 DEF CallRecords
    <3> QED
      BY <3>1, <3>3 DEF Works
  <2>2. CASE ~Removes(c)
    BY <2>2 DEF MemoryStep, SaveOpens, SaveWrites, Load, DropEntry, AddDocument, Forgets, Answers,
                MovesTo, MemoryTypeInv
  <2> QED
    BY <2>1, <2>2
<1>5. \A d \in ToolCalls : (Works(d, i)' <=> Works(d, i)) /\ (Works(d, i) => call'[d] = call[d])
  BY <1>3, <1>4 DEF Works
<1> QED
  BY <1>2, <1>5 DEF KeptInv, ToolCallInv, OnDisk

\* A step of the call on this memory makes of it what its next step needs.
LEMMA OwnKept ==
  ASSUME MemoryTypeInv, NEW c \in ToolCalls, MemoryStep(c), NEW i \in Ids, KeptInv(i),
         call[c].id = i
  PROVE  KeptInv(i)'
<1>1. call[c].step # "idle" /\ Works(c, i)
  BY DEF MemoryStep, SaveOpens, SaveWrites, Load, DropEntry, AddDocument, Removes, Forgets, Works
<1>2. /\ told[i] = Unknown /\ ~call[c].unlinked
      /\ call[c].step = "write" => files[i] = Truncated
      /\ call[c].step \in {"load", "drop entry", "add entry", "forget"} => files[i] = call[c].text
      /\ \A d \in ToolCalls \ {c} : ~Works(d, i)
  BY <1>1 DEF KeptInv, ToolCallInv
<1>3. \A d \in ToolCalls \ {c} : ~Works(d, i)'
  <2>1. CASE Removes(c)
    BY <1>2, <2>1 DEF Removes, Works
  <2>2. CASE ~Removes(c)
    BY <1>2, <2>2 DEF MemoryStep, SaveOpens, SaveWrites, Load, DropEntry, AddDocument, Forgets,
                      Answers, MovesTo, Works, MemoryTypeInv
  <2> QED
    BY <2>1, <2>2
\* It is enough to look at the call's own next step.
<1>4. ASSUME call'[c] = Idle, told'[i] \in {Unknown, files'[i]},
             store' = "semantic" /\ files'[i] # NoFile /\ i \notin unembedded' =>
               index'[i] = files'[i]
      PROVE  KeptInv(i)'
  <2>1. \A d \in ToolCalls : ~Works(d, i)'
    BY <1>3, <1>4, IdleCall DEF Works
  <2> QED
    BY <1>4, <2>1 DEF KeptInv, ToolCallInv, OnDisk
<1>5. ASSUME told'[i] = Unknown, ~call'[c].unlinked, call'[c].step # "idle", call'[c].id = i,
             call'[c].step = "write" => files'[i] = Truncated,
             call'[c].step \in {"load", "drop entry", "add entry", "forget"} =>
               files'[i] = call'[c].text
      PROVE  KeptInv(i)'
  <2>1. \A d \in ToolCalls : Works(d, i)' <=> d = c
    BY <1>3, <1>5 DEF Works
  <2> QED
    BY <1>5, <2>1 DEF KeptInv, ToolCallInv
<1>6. call[c] \in CallRecords
  BY DEF MemoryTypeInv
<1>7. CASE SaveOpens(c)
  <2>1. call'[c] = [call[c] EXCEPT !.step = "write"] /\ files'[i] = Truncated /\ told' = told
    BY <1>7 DEF SaveOpens, MovesTo, MemoryTypeInv, MemoryTypeOK
  <2> QED
    BY <1>2, <1>5, <1>6, <2>1 DEF CallRecords
<1>8. CASE SaveWrites(c)
  <2>1. files'[i] = call[c].text
    BY <1>2, <1>8 DEF SaveWrites, MemoryTypeInv, MemoryTypeOK
  <2>2. CASE store = "markdown"
    <3>1. /\ call' = [call EXCEPT ![c] = Idle] /\ store' = "markdown"
          /\ told' = [told EXCEPT ![call[c].id] = call[c].text]
      BY <1>8, <2>2 DEF SaveWrites, Answers
    <3>2. call'[c] = Idle /\ told'[i] = call[c].text
      BY <3>1 DEF MemoryTypeInv, MemoryTypeOK
    <3> QED
      BY <1>4, <2>1, <3>1, <3>2
  <2>3. CASE store # "markdown"
    <3>1. call'[c] = [call[c] EXCEPT !.step = "load"] /\ told' = told
      BY <1>8, <2>3 DEF SaveWrites, MovesTo, MemoryTypeInv
    <3> QED
      BY <1>2, <1>5, <1>6, <2>1, <3>1 DEF CallRecords
  <2> QED
    BY <2>2, <2>3
<1>9. CASE Load(c)
  <2>1. files[i] = call[c].text /\ files[i] \in Texts
    BY <1>2, <1>9 DEF Load, MemoryTypeInv
  <2>2. files[i] \notin {NoFile, Truncated}
    BY <2>1, MemoryAssumption DEF Texts, NoFile, Truncated, Mixed
  <2> DEFINE new == [call[c] EXCEPT !.step = "drop entry", !.text = files[i]]
  <2>3. call' = [call EXCEPT ![c] = new] /\ told' = told /\ files' = files
    BY <1>9, <2>2 DEF Load
  <2>4. call'[c] = new
    BY <2>3 DEF MemoryTypeInv
  <2>5. /\ new.step = "drop entry" /\ new.text = files[i] /\ new.id = i
        /\ new.unlinked = call[c].unlinked
    BY <1>6 DEF CallRecords
  <2> QED
    BY <1>2, <1>5, <2>1, <2>3, <2>4, <2>5
<1>10. CASE DropEntry(c)
  <2>1. call'[c] = [call[c] EXCEPT !.step = "add entry"] /\ told' = told /\ files' = files
    BY <1>10 DEF DropEntry, MovesTo, MemoryTypeInv
  <2>2. files[i] = call[c].text
    BY <1>2, <1>10 DEF DropEntry
  <2> QED
    BY <1>2, <1>5, <1>6, <2>1, <2>2 DEF CallRecords
<1>11. CASE AddDocument(c)
  <2>1. files'[i] = call[c].text /\ call'[c] = Idle
    BY <1>2, <1>11 DEF AddDocument, Answers, MemoryTypeInv
  <2>2. \/ index'[i] = call[c].text /\ told'[i] = call[c].text
        \/ i \in unembedded' /\ told'[i] = told[i]
    BY <1>11 DEF AddDocument, Answers, MemoryTypeInv, MemoryTypeOK
  <2> QED
    BY <1>2, <1>4, <2>1, <2>2
<1>12. CASE Removes(c)
  <2>1. files'[i] = NoFile /\ call[c].text = NoFile
    BY <1>12 DEF Removes, MemoryTypeInv, MemoryTypeOK
  <2>2. CASE store = "markdown"
    <3>1. call'[c] = Idle /\ told'[i] = NoFile
      BY <1>12, <2>2 DEF Removes, MemoryTypeInv, MemoryTypeOK
    <3> QED
      BY <1>4, <2>1, <3>1
  <2>3. CASE store # "markdown"
    <3>1. call'[c] = [call[c] EXCEPT !.step = "forget"] /\ told' = told
      BY <1>12, <2>3 DEF Removes
    <3> QED
      BY <1>2, <1>5, <1>6, <2>1, <3>1 DEF CallRecords
  <2> QED
    BY <2>2, <2>3
<1>13. CASE Forgets(c)
  <2>1. files'[i] = NoFile /\ call[c].text = NoFile /\ call'[c] = Idle /\ told'[i] = NoFile
    BY <1>2, <1>13 DEF Forgets, Answers, MemoryTypeInv, MemoryTypeOK
  <2> QED
    BY <1>4, <2>1
<1> QED
  BY <1>7, <1>8, <1>9, <1>10, <1>11, <1>12, <1>13 DEF MemoryStep

\* Starting: what the index has is what the files have, before the store is
\* semantic.
LEMMA StartKept ==
  ASSUME MemoryTypeInv, NEW i \in Ids, KeptInv(i),
         rebuildIndex \/ (\E id \in Ids : rebuildEntry(id)) \/ StoreRestarts
  PROVE  KeptInv(i)'
<1>1. UNCHANGED <<files, told>>
  BY DEF rebuildIndex, rebuildEntry, StoreRestarts
<1>2. \A c \in ToolCalls : call'[c].step = "idle"
  <2>1. CASE StoreRestarts
    BY <2>1, IdleCall DEF StoreRestarts
  <2>2. CASE ~StoreRestarts
    <3>1. call' = call /\ store = "rebuilding"
      BY <2>2 DEF rebuildIndex, rebuildEntry
    <3> QED
      BY <3>1, IdleCall DEF MemoryTypeInv, MemoryTypeOK
  <2> QED
    BY <2>1, <2>2
<1>3. store' = "semantic" /\ i \in OnDisk => index'[i] = files[i]
  BY DEF rebuildIndex, rebuildEntry, StoreRestarts, Stale
<1> QED
  BY <1>1, <1>2, <1>3 DEF KeptInv, ToolCallInv, Works, OnDisk

\* Every step keeps Kept.
LEMMA KeptNext == ASSUME MemoryTypeInv, Kept, [MemoryNext]_memoryVars PROVE Kept'
<1> SUFFICES ASSUME NEW i \in Ids \ raced'
             PROVE  KeptInv(i)'
  BY DEF Kept
<1>1. i \in Ids /\ i \notin raced
  <2>1. CASE \E c \in ToolCalls : MemoryStep(c)
    BY <2>1 DEF MemoryStep, SaveOpens, SaveWrites, Load, DropEntry, AddDocument, Removes, Forgets
  <2>2. CASE \E c \in ToolCalls, id \in Ids :
               MemoryDelete(c, id) \/ \E text \in Bodies : MemorySave(c, id, text)
    BY <2>2 DEF MemorySave, MemoryDelete, Begins
  <2>3. CASE \/ rebuildIndex \/ (\E id \in Ids : rebuildEntry(id))
             \/ StoreRestarts \/ UNCHANGED memoryVars
    BY <2>3 DEF rebuildIndex, rebuildEntry, StoreRestarts, memoryVars
  <2> QED
    BY <2>1, <2>2, <2>3 DEF MemoryNext
<1>2. KeptInv(i)
  BY <1>1, Zenon DEF Kept
<1>3. ASSUME NEW c \in ToolCalls, NEW id \in Ids, NEW text \in Bodies, MemorySave(c, id, text)
      PROVE  KeptInv(i)'
  BY <1>3, BeginsKept DEF MemorySave
<1>4. ASSUME NEW c \in ToolCalls, NEW id \in Ids, MemoryDelete(c, id)
      PROVE  KeptInv(i)'
  BY <1>4, BeginsKept DEF MemoryDelete
<1>5. ASSUME NEW c \in ToolCalls, MemoryStep(c)
      PROVE  KeptInv(i)'
  BY <1>2, <1>5, OtherKept, OwnKept
<1>6. CASE UNCHANGED memoryVars
  BY <1>2, <1>6 DEF memoryVars, KeptInv, ToolCallInv, Works, OnDisk
<1> QED
  BY <1>2, <1>3, <1>4, <1>5, <1>6, StartKept DEF MemoryNext

\* A memory that calls worked on one at a time (tools/builtin/memory.go,
\* memory_semantic.go) is on disk as the last answer said, and a semantic store's
\* index has its text, over crashes, failed embeddings and starts without the index.
THEOREM KeptCorrect == MemorySpec => []MemoriesKept
<1>1. MemoryInit => Kept
  BY IdleCall DEF MemoryInit, Kept, KeptInv, ToolCallInv, Works
<1>2. Kept => MemoriesKept
  BY DEF Kept, KeptInv, MemoriesKept
<1> QED
  BY <1>1, <1>2, MemoryTypeInit, MemoryTypeNext, KeptNext, PTL DEF MemorySpec

----------------------------------------------------------------------------
(* The system prompt *)

\* A sequence with one of length 1 after it.
LEMMA OneAdded ==
  ASSUME NEW S, NEW s \in Seq(S), NEW t \in Seq(S), NEW n \in Nat, Len(s) = n, Len(t) = 1
  PROVE  /\ s \o t \in Seq(S) /\ Len(s \o t) = n + 1
         /\ \A i \in 1..n : (s \o t)[i] = s[i]
         /\ (s \o t)[n + 1] = t[1]
<1> DEFINE u == s \o t
<1>1. /\ u \in Seq(S) /\ Len(u) = Len(s) + Len(t)
      /\ \A i \in 1..Len(s) + Len(t) : u[i] = IF i <= Len(s) THEN s[i] ELSE t[i - Len(s)]
  BY ConcatProperties
<1>2. Len(u) = n + 1 /\ \A i \in 1..(n + 1) : u[i] = IF i <= n THEN s[i] ELSE t[i - n]
  BY <1>1
<1> HIDE DEF u
<1>3. n + 1 \in 1..(n + 1) /\ ~(n + 1 <= n) /\ n + 1 - n = 1
  OBVIOUS
<1>4. u[n + 1] = t[1]
  BY <1>2, <1>3
<1>5. \A i \in 1..n : u[i] = s[i]
  BY <1>2
<1> QED
  BY <1>1, <1>2, <1>4, <1>5 DEF u

\* Which is the sequence with the same elements.
LEMMA AddedIs ==
  ASSUME NEW S, NEW s \in Seq(S), NEW t \in Seq(S), NEW u \in Seq(S), NEW n \in Nat,
         Len(s) = n, Len(t) = 1, Len(u) = n + 1,
         \A i \in 1..n : u[i] = s[i], u[n + 1] = t[1]
  PROVE  s \o t = u
<1> DEFINE v == s \o t
<1>1. /\ v \in Seq(S) /\ Len(v) = n + 1
      /\ \A i \in 1..n : v[i] = s[i]
      /\ v[n + 1] = t[1]
  BY OneAdded
<1> HIDE DEF v
<1>2. \A i \in 1..(n + 1) : i \in 1..n \/ i = n + 1
  OBVIOUS
<1>3. \A i \in 1..(n + 1) : v[i] = u[i]
  BY <1>1, <1>2
<1>4. v = u
  <2>1. Len(v) = Len(u) /\ \A i \in 1..Len(v) : v[i] = u[i]
    BY <1>1, <1>3
  <2> QED
    BY <1>1, <2>1, SeqEqual
<1> QED
  BY <1>4 DEF v

\* Tuples put together, as sections are.
LEMMA NoneAdded ==
  ASSUME NEW a, NEW b, NEW c
  PROVE  <<a, b>> \o <<>> = <<a, b>> /\ <<a, b, c>> \o <<>> = <<a, b, c>>
<1>1. <<a, b>> \o <<>> = <<a, b>>
  OBVIOUS
<1>2. <<a, b, c>> \o <<>> = <<a, b, c>>
  OBVIOUS
<1> QED
  BY <1>1, <1>2

LEMMA TwoJoined ==
  ASSUME NEW a, NEW b PROVE <<a>> \o <<b>> = <<a, b>>
<1> DEFINE S == {a, b}
           s == <<a>>
           t == <<b>>
           u == <<a, b>>
           n == 1
<1>1. /\ s \in Seq(S) /\ Len(s) = n
      /\ t \in Seq(S) /\ Len(t) = 1
      /\ u \in Seq(S) /\ Len(u) = n + 1
      /\ n \in Nat
  OBVIOUS
<1>2. (\A i \in 1..n : u[i] = s[i]) /\ u[n + 1] = t[1]
  OBVIOUS
<1> HIDE DEF S, s, t, u, n
<1>3. s \o t = u
  BY <1>1, <1>2, AddedIs, ZenonT(30)
<1> QED
  BY <1>3 DEF s, t, u

LEMMA ThreeJoined ==
  ASSUME NEW a, NEW b, NEW c PROVE <<a, b>> \o <<c>> = <<a, b, c>>
<1> DEFINE S == {a, b, c}
           s == <<a, b>>
           t == <<c>>
           u == <<a, b, c>>
           n == 2
<1>1. /\ s \in Seq(S) /\ Len(s) = n
      /\ t \in Seq(S) /\ Len(t) = 1
      /\ u \in Seq(S) /\ Len(u) = n + 1
      /\ n \in Nat
  OBVIOUS
<1>2. (\A i \in 1..n : u[i] = s[i]) /\ u[n + 1] = t[1]
  OBVIOUS
<1> HIDE DEF S, s, t, u, n
<1>3. s \o t = u
  BY <1>1, <1>2, AddedIs, ZenonT(30)
<1> QED
  BY <1>3 DEF s, t, u

LEMMA FourJoined ==
  ASSUME NEW a, NEW b, NEW c, NEW d PROVE <<a, b, c>> \o <<d>> = <<a, b, c, d>>
<1> DEFINE S == {a, b, c, d}
           s == <<a, b, c>>
           t == <<d>>
           u == <<a, b, c, d>>
           n == 3
<1>1. /\ s \in Seq(S) /\ Len(s) = n
      /\ t \in Seq(S) /\ Len(t) = 1
      /\ u \in Seq(S) /\ Len(u) = n + 1
      /\ n \in Nat
  OBVIOUS
<1>2. (\A i \in 1..n : u[i] = s[i]) /\ u[n + 1] = t[1]
  OBVIOUS
<1> HIDE DEF S, s, t, u, n
<1>3. s \o t = u
  BY <1>1, <1>2, AddedIs
<1> QED
  BY <1>3 DEF s, t, u

\* The identity block keeps the personality's section from being left out.
LEMMA AddedNotEmpty == ASSUME NEW T, NEW s \in Seq(T), NEW x PROVE s \o <<x>> # <<>>
<1> DEFINE S == T \union {x}
           n == Len(s)
           t == <<x>>
<1>1. t \in Seq(S) /\ Len(t) = 1
  OBVIOUS
<1>2. s \in Seq(S) /\ n \in Nat
  BY SeqMonotonic
<1> HIDE DEF S, t
<1>3. Len(s \o t) = n + 1
  BY <1>1, <1>2, OneAdded
<1>4. Len(<<>>) = 0
  OBVIOUS
<1> HIDE DEF n
<1> QED
  BY <1>2, <1>4, <1>3 DEF t

\* The layers that do not change from one request to the next, and a prompt of
\* them with the block of the memories, which has no checkpoint.
Layers(p) ==
  LET sticky == SystemBlock(Sticky, PromptCaching)
      skills == SystemBlock(skillsSection, PromptCaching)
      ofPersona(cached) == SystemBlock(p \o <<"agent_id">>, cached)
  IN IF skillsSection = <<>> THEN <<sticky, ofPersona(PromptCaching)>>
                             ELSE <<sticky, ofPersona(FALSE), skills>>
LayersAnd(p, mem) ==
  LET layers == Layers(p)
      last == SystemBlock(mem, FALSE)
  IN IF skillsSection = <<>> THEN <<layers[1], layers[2], last>>
                             ELSE <<layers[1], layers[2], layers[3], last>>

IsPrompt(blocks, p) == blocks = Layers(p) \/ \E mem : blocks = LayersAnd(p, mem)

\* The last Anthropic request had the prompt of the personality of then.
PromptInv ==
  /\ persona \in Seq(STRING) /\ sentPersona \in Seq(STRING) /\ skillsSection \in Seq(STRING)
  /\ PromptCaching \in BOOLEAN
  /\ backend = "anthropic" /\ requested => IsPrompt(sentPrompt, sentPersona)

LayerCount == IF skillsSection = <<>> THEN 2 ELSE 3

\* The layers, one by one.
LEMMA LayerBlocks ==
  ASSUME PromptInv, NEW p
  PROVE  /\ DOMAIN Layers(p) = 1..LayerCount
         /\ Layers(p) = [i \in 1..LayerCount |-> Layers(p)[i]]
         /\ Layers(p)[1] = SystemBlock(Sticky, PromptCaching)
         /\ Layers(p)[2].content = p \o <<"agent_id">>
         /\ skillsSection # <<>> => LayerCount = 3 /\ Layers(p)[3].content = skillsSection
         /\ Layers(p)[LayerCount].cached = PromptCaching
         /\ ~PromptCaching => \A i \in 1..LayerCount : Layers(p)[i].cached = FALSE
<1> DEFINE a == SystemBlock(Sticky, PromptCaching)
           b(cached) == SystemBlock(p \o <<"agent_id">>, cached)
           c == SystemBlock(skillsSection, PromptCaching)
<1>1. /\ a.cached = PromptCaching /\ c.cached = PromptCaching /\ c.content = skillsSection
      /\ \A cached : b(cached).content = p \o <<"agent_id">> /\ b(cached).cached = cached
  BY DEF SystemBlock
<1>2. Layers(p) = IF skillsSection = <<>> THEN <<a, b(PromptCaching)>> ELSE <<a, b(FALSE), c>>
  BY DEF Layers
<1> DEFINE b1 == b(PromptCaching)
           b2 == b(FALSE)
<1>3. /\ b1.content = p \o <<"agent_id">> /\ b1.cached = PromptCaching
      /\ b2.content = p \o <<"agent_id">> /\ b2.cached = FALSE
  BY <1>1
<1>4. Layers(p) = IF skillsSection = <<>> THEN <<a, b1>> ELSE <<a, b2, c>>
  BY <1>2
<1> DEFINE layers == Layers(p)
<1>5. a = SystemBlock(Sticky, PromptCaching)
  OBVIOUS
<1> HIDE DEF a, b, c, b1, b2, layers
<1>8. PromptCaching = TRUE \/ PromptCaching = FALSE
  BY DEF PromptInv
<1>6. CASE skillsSection = <<>>
  <2>1. LayerCount = 2 /\ layers = <<a, b1>>
    BY <1>4, <1>6 DEF LayerCount, layers
  <2>2. /\ DOMAIN layers = 1..2 /\ layers = [i \in 1..2 |-> layers[i]]
        /\ layers[1] = a /\ layers[2] = b1
    BY <2>1
  <2>3. \A i \in 1..2 : layers[i] = a \/ layers[i] = b1
    BY <2>2
  <2>4. ~PromptCaching => \A i \in 1..2 : layers[i].cached = FALSE
    BY <1>8, <1>1, <1>3, <2>3, Zenon
  <2> QED
    BY <1>1, <1>3, <1>5, <1>6, <2>1, <2>2, <2>4, Zenon DEF layers
<1>7. CASE skillsSection # <<>>
  <2>1. LayerCount = 3 /\ layers = <<a, b2, c>>
    BY <1>4, <1>7 DEF LayerCount, layers
  <2>2. /\ DOMAIN layers = 1..3 /\ layers = [i \in 1..3 |-> layers[i]]
        /\ layers[1] = a /\ layers[2] = b2 /\ layers[3] = c
    BY <2>1
  <2>3. \A i \in 1..3 : layers[i] = a \/ layers[i] = b2 \/ layers[i] = c
    BY <2>2
  <2>4. ~PromptCaching => \A i \in 1..3 : layers[i].cached = FALSE
    BY <1>8, <1>1, <1>3, <2>3, Zenon
  <2> QED
    BY <1>1, <1>3, <1>5, <1>7, <2>1, <2>2, <2>4, Zenon DEF layers
<1> QED
  BY <1>6, <1>7

\* A prompt's blocks, one by one.
LEMMA PromptBlocks ==
  ASSUME PromptInv, NEW blocks, NEW p, IsPrompt(blocks, p)
  PROVE  /\ DOMAIN blocks = 1..LayerCount \/ DOMAIN blocks = 1..(LayerCount + 1)
         /\ \A i \in 1..LayerCount : blocks[i] = Layers(p)[i]
         /\ LayerCount + 1 \in DOMAIN blocks => blocks[LayerCount + 1].cached = FALSE
         /\ blocks = [i \in DOMAIN blocks |-> blocks[i]]
<1> DEFINE layers == Layers(p)
<1>1. DOMAIN layers = 1..LayerCount /\ layers = [i \in 1..LayerCount |-> layers[i]]
  BY LayerBlocks
<1> HIDE DEF layers
<1>2. LayerCount = 2 \/ LayerCount = 3
  BY DEF LayerCount
<1>3. CASE blocks = layers
  <2>1. LayerCount + 1 \notin 1..LayerCount
    BY <1>2
  <2> QED
    BY <1>1, <1>3, <2>1 DEF layers
<1>4. CASE \E mem : blocks = LayersAnd(p, mem)
  <2>1. PICK mem : blocks = LayersAnd(p, mem)
    BY <1>4
  <2> DEFINE last == SystemBlock(mem, FALSE)
  <2>2. last.cached = FALSE
    BY DEF SystemBlock
  <2>3. blocks = IF skillsSection = <<>> THEN <<layers[1], layers[2], last>>
                 ELSE <<layers[1], layers[2], layers[3], last>>
    BY <2>1 DEF LayersAnd, layers
  <2> HIDE DEF last
  <2>4. CASE skillsSection = <<>>
    <3>1. LayerCount = 2 /\ blocks = <<layers[1], layers[2], last>>
      BY <2>3, <2>4 DEF LayerCount
    <3>2. /\ DOMAIN blocks = 1..3 /\ blocks = [i \in 1..3 |-> blocks[i]]
          /\ blocks[1] = layers[1] /\ blocks[2] = layers[2] /\ blocks[3] = last
      BY <3>1
    <3>3. \A i \in 1..2 : blocks[i] = layers[i]
      BY <3>2
    <3>4. LayerCount + 1 = 3
      BY <3>1
    <3> QED
      BY <2>2, <3>1, <3>2, <3>3, <3>4, Zenon DEF layers
  <2>5. CASE skillsSection # <<>>
    <3>1. LayerCount = 3 /\ blocks = <<layers[1], layers[2], layers[3], last>>
      BY <2>3, <2>5 DEF LayerCount
    <3>2. /\ DOMAIN blocks = 1..4 /\ blocks = [i \in 1..4 |-> blocks[i]]
          /\ blocks[1] = layers[1] /\ blocks[2] = layers[2] /\ blocks[3] = layers[3]
          /\ blocks[4] = last
      BY <3>1
    <3>3. \A i \in 1..3 : blocks[i] = layers[i]
      BY <3>2
    <3>4. LayerCount + 1 = 4
      BY <3>1
    <3> QED
      BY <2>2, <3>1, <3>2, <3>3, <3>4, Zenon DEF layers
  <2> QED
    BY <2>4, <2>5
<1> QED
  BY <1>3, <1>4 DEF IsPrompt, layers

\* The first of them.
LEMMA FirstBlock ==
  ASSUME PromptInv, NEW blocks, NEW p, IsPrompt(blocks, p)
  PROVE  blocks[1] = SystemBlock(Sticky, PromptCaching)
<1>1. \A i \in 1..LayerCount : blocks[i] = Layers(p)[i]
  BY PromptBlocks, ZenonT(30)
<1>2. 1 \in 1..LayerCount
  BY DEF LayerCount
<1>3. Layers(p)[1] = SystemBlock(Sticky, PromptCaching)
  BY LayerBlocks
<1> QED
  BY <1>1, <1>2, <1>3

\* The cached prefix of a prompt depends on the personality only: it ends with
\* the layers, or there is none.
CachedLayers(p) == IF PromptCaching THEN Layers(p) ELSE <<>>

LEMMA PrefixIsLayers ==
  ASSUME PromptInv, NEW blocks, NEW p, IsPrompt(blocks, p)
  PROVE  CachedPrefix(blocks) = CachedLayers(p)
<1> DEFINE marked == {i \in DOMAIN blocks : blocks[i].cached}
           S == {blocks[i] : i \in DOMAIN blocks}
           n == LayerCount
           layers == Layers(p)
<1>1. /\ DOMAIN blocks = 1..n \/ DOMAIN blocks = 1..(n + 1)
      /\ \A i \in 1..n : blocks[i] = layers[i]
      /\ n + 1 \in DOMAIN blocks => blocks[n + 1].cached = FALSE
  BY PromptBlocks, ZenonT(30)
<1>2. /\ layers = [i \in 1..n |-> layers[i]]
      /\ layers[n].cached = PromptCaching
      /\ ~PromptCaching => \A i \in 1..n : layers[i].cached = FALSE
  BY LayerBlocks
<1>3. n = 2 \/ n = 3
  BY DEF LayerCount
<1>4. \A i \in 1..n : blocks[i] \in S
  BY <1>1, <1>3
<1>5. \A i \in DOMAIN blocks : i \in Int /\ (i \in 1..n \/ i = n + 1)
  BY <1>1, <1>3
<1> HIDE DEF n, layers
<1>6. CASE ~PromptCaching
  <2>1. \A i \in DOMAIN blocks : blocks[i].cached = FALSE
    BY <1>1, <1>2, <1>5, <1>6, Zenon
  <2>2. marked = {}
    BY <2>1, Zenon
  <2>3. CachedPrefix(blocks) = SubSeq(blocks, 1, 0)
    BY <2>2 DEF CachedPrefix
  <2>4. SubSeq(blocks, 1, 0) = <<>>
    BY SubSeqEmpty
  <2> QED
    BY <1>6, <2>3, <2>4 DEF CachedLayers
<1>7. CASE PromptCaching
  <2>1. n \in 1..n /\ n \in DOMAIN blocks
    BY <1>1, <1>3
  <2>2. blocks[n].cached
    <3>1. blocks[n] = layers[n]
      BY <1>1, <2>1
    <3> QED
      BY <1>2, <1>7, <3>1, Zenon
  <2>3. n \in marked
    BY <2>1, <2>2, Zenon
  <2>4. n + 1 \notin marked
    BY <1>1, Zenon
  <2>5. \A j \in marked : j \in 1..n \/ j = n + 1
    BY <1>5
  <2>6. CachedPrefix(blocks) =
          SubSeq(blocks, 1, CHOOSE i \in marked : \A j \in marked : j <= i)
    BY <2>3 DEF CachedPrefix
  <2> HIDE DEF marked
  <2>7. \A j \in marked : j \in 1..n
    BY <2>4, <2>5, Zenon
  <2>8. \A j \in marked : j <= n /\ j \in Int
    BY <1>3, <2>7
  <2>9. \A i \in marked : (\A j \in marked : j <= i) => i = n
    BY <1>3, <2>3, <2>8
  <2>10. (CHOOSE i \in marked : \A j \in marked : j <= i) = n
    BY <2>3, <2>8, <2>9, Zenon
  <2>11. SubSeq(blocks, 1, n) = [i \in 1..n |-> blocks[i]]
    BY <1>3
  <2>12. [i \in 1..n |-> blocks[i]] = [i \in 1..n |-> layers[i]]
    BY <1>1
  <2> QED
    BY <1>2, <1>7, <2>6, <2>10, <2>11, <2>12 DEF CachedLayers, layers
<1> QED
  BY <1>6, <1>7

\* A request's sections, each with what Anthropic's format makes of it.
AsBlock(section) == SystemBlock(section.content, PromptCaching /\ section.checkpoint)

LEMMA SectionBlocks ==
  ASSUME NEW a, NEW b, NEW c, NEW d
  PROVE  /\ [i \in DOMAIN <<a, b>> |-> AsBlock(<<a, b>>[i])] = <<AsBlock(a), AsBlock(b)>>
         /\ [i \in DOMAIN <<a, b, c>> |-> AsBlock(<<a, b, c>>[i])] =
            <<AsBlock(a), AsBlock(b), AsBlock(c)>>
         /\ [i \in DOMAIN <<a, b, c, d>> |-> AsBlock(<<a, b, c, d>>[i])] =
            <<AsBlock(a), AsBlock(b), AsBlock(c), AsBlock(d)>>
OBVIOUS

\* What Request sends in Anthropic's format is a prompt of the present personality:
\* only the memories' section may be left out.
LEMMA RequestIsPrompt ==
  ASSUME PromptInv
  PROVE  IsPrompt(toAnthropicRequest(SystemOf(BuildSystemPrompt)), persona)
<1> DEFINE mem == BuildMemoriesSection
           text == BuildSystemPrompt
           sections == agentSystemSections(text) \o Section(mem, FALSE)
           a == [content |-> Sticky, checkpoint |-> TRUE]
           b(checkpoint) == [content |-> text, checkpoint |-> checkpoint]
           c == [content |-> skillsSection, checkpoint |-> TRUE]
           d == [content |-> mem, checkpoint |-> FALSE]
           b1 == b(TRUE)
           b2 == b(FALSE)
<1>1. text = persona \o <<"agent_id">> /\ text # <<>>
  BY AddedNotEmpty DEF BuildSystemPrompt, PromptInv
<1>2. Sticky # <<>>
  BY PromptAssumption
<1>3. SystemOf(text).SystemSections = sections
  BY <1>2 DEF SystemOf
<1>4. toAnthropicRequest(SystemOf(text)) =
        IF sections # <<>> THEN [i \in DOMAIN sections |-> AsBlock(sections[i])]
        ELSE toAnthropicRequest(SystemOf(text))
  <2> DEFINE req == SystemOf(text)
  <2>1. req.SystemSections = sections
    BY <1>3
  <2> HIDE DEF req, sections
  <2> QED
    BY <2>1 DEF toAnthropicRequest, AsBlock, req
<1>5. /\ AsBlock(a) = SystemBlock(Sticky, PromptCaching)
      /\ AsBlock(b1) = SystemBlock(text, PromptCaching)
      /\ AsBlock(b2) = SystemBlock(text, FALSE)
      /\ AsBlock(c) = SystemBlock(skillsSection, PromptCaching)
      /\ AsBlock(d) = SystemBlock(mem, FALSE)
  BY DEF AsBlock, SystemBlock, PromptInv
<1>6. /\ Section(Sticky, TRUE) = <<a>> 
      /\ Section(text, TRUE) = <<b1>> /\ Section(text, FALSE) = <<b2>>
      /\ Section(skillsSection, TRUE) = IF skillsSection = <<>> THEN <<>> ELSE <<c>>
      /\ Section(mem, FALSE) = IF mem = <<>> THEN <<>> ELSE <<d>>
  BY <1>1, <1>2 DEF Section
<1>7. agentSystemSections(text) = IF skillsSection = <<>> THEN <<a, b1>> ELSE <<a, b2, c>>
  <2> HIDE DEF a, b, c, d, b1, b2, text
  <2>1. CASE skillsSection = <<>>
    <3>1. agentSystemSections(text) = <<a>> \o <<b1>> \o <<>>
      BY <1>6, <2>1 DEF agentSystemSections
    <3> QED
      BY <2>1, <3>1, TwoJoined, NoneAdded
  <2>2. CASE skillsSection # <<>>
    <3>1. agentSystemSections(text) = <<a>> \o <<b2>> \o <<c>>
      BY <1>6, <2>2 DEF agentSystemSections
    <3>2. <<a>> \o <<b2>> = <<a, b2>>
      BY TwoJoined
    <3> QED
      BY <2>2, <3>1, <3>2, ThreeJoined
  <2> QED
    BY <2>1, <2>2
<1> HIDE DEF text, mem, a, b, c, d, b1, b2
<1>8. sections = IF skillsSection = <<>>
                 THEN IF mem = <<>> THEN <<a, b1>> ELSE <<a, b1, d>>
                 ELSE IF mem = <<>> THEN <<a, b2, c>> ELSE <<a, b2, c, d>>
  <2>1. CASE mem = <<>>
    BY <1>6, <1>7, <2>1, NoneAdded
  <2>2. CASE mem # <<>>
    <3>1. CASE skillsSection = <<>>
      BY <1>6, <1>7, <2>2, <3>1, ThreeJoined
    <3>2. CASE skillsSection # <<>>
      BY <1>6, <1>7, <2>2, <3>2, FourJoined
    <3> QED
      BY <3>1, <3>2
  <2> QED
    BY <2>1, <2>2
<1> HIDE DEF sections
<1> DEFINE sent == [i \in DOMAIN sections |-> AsBlock(sections[i])]
<1>9. sections # <<>>
  BY <1>8
<1>10. toAnthropicRequest(SystemOf(text)) = sent
  BY <1>4, <1>9
<1>11. sent = IF skillsSection = <<>>
              THEN IF mem = <<>> THEN <<AsBlock(a), AsBlock(b1)>>
                                 ELSE <<AsBlock(a), AsBlock(b1), AsBlock(d)>>
              ELSE IF mem = <<>> THEN <<AsBlock(a), AsBlock(b2), AsBlock(c)>>
                                 ELSE <<AsBlock(a), AsBlock(b2), AsBlock(c), AsBlock(d)>>
  <2>1. CASE skillsSection = <<>> /\ mem = <<>>
    BY <1>8, <2>1, SectionBlocks
  <2>2. CASE skillsSection = <<>> /\ mem # <<>>
    BY <1>8, <2>2, SectionBlocks
  <2>3. CASE skillsSection # <<>> /\ mem = <<>>
    BY <1>8, <2>3, SectionBlocks
  <2>4. CASE skillsSection # <<>> /\ mem # <<>>
    BY <1>8, <2>4, SectionBlocks
  <2> QED
    BY <2>1, <2>2, <2>3, <2>4
<1>12. Layers(persona) = IF skillsSection = <<>> THEN <<AsBlock(a), AsBlock(b1)>>
                                                 ELSE <<AsBlock(a), AsBlock(b2), AsBlock(c)>>
  BY <1>1, <1>5 DEF Layers
<1>13. mem # <<>> => sent = LayersAnd(persona, mem)
  <2> DEFINE layers == Layers(persona)
             last == AsBlock(d)
             A == AsBlock(a)
             B1 == AsBlock(b1)
             B2 == AsBlock(b2)
             C == AsBlock(c)
  <2>1. LayersAnd(persona, mem) =
          IF skillsSection = <<>> THEN <<layers[1], layers[2], last>>
                                  ELSE <<layers[1], layers[2], layers[3], last>>
    BY <1>5 DEF LayersAnd
  <2>2. layers = IF skillsSection = <<>> THEN <<A, B1>> ELSE <<A, B2, C>>
    BY <1>12
  <2>3. mem # <<>> => sent = IF skillsSection = <<>> THEN <<A, B1, last>> ELSE <<A, B2, C, last>>
    BY <1>11
  <2> HIDE DEF layers, last, A, B1, B2, C, sent
  <2>4. CASE skillsSection = <<>>
    BY <2>1, <2>2, <2>3, <2>4
  <2>5. CASE skillsSection # <<>>
    BY <2>1, <2>2, <2>3, <2>5
  <2> QED
    BY <2>4, <2>5
<1>14. mem = <<>> => sent = Layers(persona)
  BY <1>11, <1>12
<1> QED
  BY <1>10, <1>13, <1>14, Zenon DEF IsPrompt, text

LEMMA PromptInvInit == PromptInit => PromptInv
BY PromptAssumption DEF PromptInit, PromptInv

\* Requests make prompts; nothing else touches what was sent.
LEMMA PromptInvNext == PromptInv /\ [PromptNext]_promptVars => PromptInv'
<1> SUFFICES ASSUME PromptInv, [PromptNext]_promptVars PROVE PromptInv'
  OBVIOUS
<1>1. CASE Request
  <2>1. /\ persona' = persona /\ skillsSection' = skillsSection
        /\ PromptCaching' = PromptCaching /\ backend' = backend /\ sentPersona' = persona
    BY <1>1 DEF Request, agentVars
  <2>2. backend = "anthropic" =>
          sentPrompt' = toAnthropicRequest(SystemOf(BuildSystemPrompt))
    BY <1>1 DEF Request
  <2>3. backend = "anthropic" => IsPrompt(sentPrompt', persona)
    BY <2>2, RequestIsPrompt
  <2> QED
    BY <2>1, <2>3 DEF PromptInv, IsPrompt, Layers, LayersAnd
<1>2. ASSUME UNCHANGED <<backend, PromptCaching, skillsSection, sentPrompt, sentPersona, requested>>,
             persona' \in Seq(STRING)
      PROVE  PromptInv'
  BY <1>2 DEF PromptInv, IsPrompt, Layers, LayersAnd
<1>3. CASE ReloadPersonality
  BY <1>2, <1>3, PromptAssumption DEF ReloadPersonality, requestVars
<1>4. CASE \E id \in Memories : Save(id) \/ Delete(id)
  <2>1. UNCHANGED <<backend, PromptCaching, skillsSection, sentPrompt, sentPersona, requested>>
        /\ persona' = persona
    BY <1>4 DEF Save, Delete, requestVars
  <2> QED
    BY <1>2, <2>1 DEF PromptInv
<1>5. CASE UNCHANGED promptVars
  <2>1. UNCHANGED <<backend, PromptCaching, skillsSection, sentPrompt, sentPersona, requested>>
        /\ persona' = persona
    BY <1>5 DEF promptVars, agentVars, requestVars
  <2> QED
    BY <1>2, <2>1 DEF PromptInv
<1> QED
  BY <1>1, <1>3, <1>4, <1>5 DEF PromptNext

\* The content of a block is among the prompt's parts.
LEMMA PartOfBlock ==
  ASSUME NEW blocks, NEW j \in DOMAIN blocks
  PROVE  {blocks[j].content[i] : i \in DOMAIN blocks[j].content} \subseteq PromptParts(blocks)
BY Zenon DEF PromptParts

\* Requests only change what was sent.
LEMMA OnlyRequests ==
  ASSUME [PromptNext]_promptVars, ~UNCHANGED requestVars PROVE Request
<1>1. ~ReloadPersonality
  BY DEF ReloadPersonality
<1>2. \A id : ~Save(id) /\ ~Delete(id)
  BY DEF Save, Delete
<1>3. ~UNCHANGED promptVars
  BY DEF promptVars
<1> QED
  BY <1>1, <1>2, <1>3 DEF PromptNext

\* What LayersCached says of two prompts.
LayersKept(p, q, old, new) ==
  /\ p = q => CachedPrefix(new) = CachedPrefix(old)
  /\ PromptCaching => /\ new[1] = old[1]
                      /\ old[1].content = Sticky /\ old[1].cached
  /\ {q[i] : i \in DOMAIN q} \subseteq PromptParts(new)
  /\ {skillsSection[i] : i \in DOMAIN skillsSection} \subseteq PromptParts(new)

LEMMA LayersStay ==
  ASSUME PromptInv, NEW p \in Seq(STRING), NEW q \in Seq(STRING), NEW old, NEW new,
         IsPrompt(old, p), IsPrompt(new, q)
  PROVE  LayersKept(p, q, old, new)
<1>1. p = q => CachedPrefix(new) = CachedPrefix(old)
  BY PrefixIsLayers
<1>2. LayerCount = 2 \/ LayerCount = 3
  BY DEF LayerCount
<1>3. 1 \in 1..LayerCount /\ 2 \in 1..LayerCount
  BY <1>2
<1>4. /\ old[1] = SystemBlock(Sticky, PromptCaching)
      /\ new[1] = SystemBlock(Sticky, PromptCaching)
  BY FirstBlock
<1>5. PromptCaching => new[1] = old[1] /\ old[1].content = Sticky /\ old[1].cached
  BY <1>4 DEF SystemBlock
<1>6. \A i \in 1..LayerCount : i \in DOMAIN new /\ new[i] = Layers(q)[i]
  <2>1. DOMAIN new = 1..LayerCount \/ DOMAIN new = 1..(LayerCount + 1)
    BY PromptBlocks
  <2>2. \A i \in 1..LayerCount : i \in DOMAIN new
    BY <1>2, <2>1
  <2>3. \A i \in 1..LayerCount : new[i] = Layers(q)[i]
    BY PromptBlocks, ZenonT(30)
  <2> QED
    BY <2>2, <2>3
<1>7. {q[i] : i \in DOMAIN q} \subseteq PromptParts(new)
  <2> DEFINE all == q \o <<"agent_id">>
  <2>1. 2 \in DOMAIN new /\ new[2].content = all
    <3>1. Layers(q)[2].content = all
      BY LayerBlocks
    <3> QED
      BY <1>3, <1>6, <3>1
  <2>2. {all[i] : i \in DOMAIN all} \subseteq PromptParts(new)
    <3> HIDE DEF all
    <3> QED
      BY <2>1, PartOfBlock
  <2>3. \A i \in DOMAIN q : i \in DOMAIN all /\ all[i] = q[i]
    <3> DEFINE S == STRING \union {"agent_id"}
               t == <<"agent_id">>
               n == Len(q)
    <3>1. t \in Seq(S) /\ Len(t) = 1
      OBVIOUS
    <3>2. q \in Seq(S) /\ n \in Nat /\ DOMAIN q = 1..n
      BY SeqMonotonic
    <3> HIDE DEF S, t
    <3>3. q \o t \in Seq(S) /\ Len(q \o t) = n + 1 /\ \A i \in 1..n : (q \o t)[i] = q[i]
      BY <3>1, <3>2, OneAdded
    <3> HIDE DEF n
    <3>4. DOMAIN (q \o t) = 1..(n + 1)
      BY <3>3
    <3> QED
      BY <3>2, <3>3, <3>4 DEF t
  <2> QED
    BY <2>2, <2>3
<1>8. {skillsSection[i] : i \in DOMAIN skillsSection} \subseteq PromptParts(new)
  <2>1. CASE skillsSection = <<>>
    BY <2>1
  <2>2. CASE skillsSection # <<>>
    <3>1. LayerCount = 3 /\ Layers(q)[3].content = skillsSection
      BY <2>2, LayerBlocks
    <3>2. 3 \in DOMAIN new /\ new[3].content = skillsSection
      BY <1>6, <3>1
    <3> QED
      BY <3>2, PartOfBlock
  <2> QED
    BY <2>1, <2>2
<1> QED
  BY <1>1, <1>5, <1>7, <1>8 DEF LayersKept

\* The cached part of the system prompt stays what it was from one request to the
\* next, for any personalities, skills, memories and limit on them: memories come
\* after the last checkpoint, and nothing of the layers before it depends on them.
THEOREM LayersCorrect == PromptSpec => LayersCached
<1> DEFINE Stay == backend = "anthropic" /\ requested =>
        /\ sentPersona' = sentPersona => CachedPrefix(sentPrompt') = CachedPrefix(sentPrompt)
        /\ PromptCaching => /\ sentPrompt'[1] = sentPrompt[1]
                            /\ sentPrompt[1].content = Sticky /\ sentPrompt[1].cached
        /\ {sentPersona'[i] : i \in DOMAIN sentPersona'} \subseteq PromptParts(sentPrompt')
        /\ {skillsSection[i] : i \in DOMAIN skillsSection} \subseteq PromptParts(sentPrompt')
<1>1. PromptInv /\ [PromptNext]_promptVars => [Stay]_requestVars
  <2> SUFFICES ASSUME PromptInv, [PromptNext]_promptVars, ~UNCHANGED requestVars,
                      backend = "anthropic", requested
               PROVE  Stay
    OBVIOUS
  <2>1. Request
    BY OnlyRequests
  <2>2. IsPrompt(sentPrompt, sentPersona) /\ sentPersona \in Seq(STRING)
    BY DEF PromptInv
  <2>3. /\ sentPersona' = persona /\ persona \in Seq(STRING)
        /\ sentPrompt' = toAnthropicRequest(SystemOf(BuildSystemPrompt))
    BY <2>1 DEF Request, PromptInv
  <2>4. IsPrompt(sentPrompt', persona)
    BY <2>3, RequestIsPrompt
  <2>5. IsPrompt(sentPrompt', sentPersona') /\ sentPersona' \in Seq(STRING)
    BY <2>3, <2>4
  <2>6. LayersKept(sentPersona, sentPersona', sentPrompt, sentPrompt')
    BY <2>2, <2>5, LayersStay
  <2> QED
    BY <2>6, Zenon DEF LayersKept
<1> QED
  BY <1>1, PromptInvInit, PromptInvNext, PTL DEF PromptSpec, LayersCached
=============================================================================
