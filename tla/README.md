# A TLA+ model of zlaw

zlaw runs LLM agents as operating-system processes under a *hub*. The hub spawns
and supervises them, keeps a registry of the live ones, carries messages between
them over an embedded NATS server with JetStream, and takes management requests
from a control socket and from NATS. An agent runs conversations (sessions), a
scheduler for cron jobs, adapters (CLI, Telegram) and an inbox for tasks that
other agents delegate to it.

This directory models that program, model-checks it with TLC and proves
invariants of it with TLAPS. Paths below are relative to the repository root.

## 1. Components

| Component | State | Operations | What makes it hard | What makes it correct |
|---|---|---|---|---|
| **Process supervisor** `internal/hub/supervisor.go` | map ID -> `managedAgent` (cmd, running, stopOnce, stopCh), one monitor goroutine each | Start, Spawn, Stop, Restart, Remove, Status; monitor: check, back off, build, start, wait | callers and monitor interleave; `stopOnce`/`stopCh` written under a lock that readers do not take; processes start between check and bookkeeping | a process has exactly one owner; status tells the truth; a stop ends supervision; the policy justifies every relaunch; a restart restarts |
| **Agent registry** `internal/hub/registry.go` | map ID -> entry (status, last heartbeat), RWMutex | registration/heartbeat, ticker sweep, Deregister, query | deadline computed outside the lock; nested read lock; late heartbeats | disconnected only after two missed intervals, noticed within one more; queries answered |
| **Task delegation** `internal/tools/builtin/delegate.go`, `internal/agent/hubclient.go`, `internal/hub/stream.go`, `internal/messaging/nats.go` | a call with its reply channel, the work queue, the inbox loop | agent_delegate, fetch, run, reply, ack; redelivery, expiry | at-least-once delivery, lost acks and replies, time-outs, cyclic waits, crashes | a result is that of this task; acked tasks were run; repeats only for lost acks; every call returns; queued tasks are run |
| **Hub configuration, control plane, watcher** `internal/config/hub.go`, `internal/hub/inbox.go`, `inbox_tool.go`, `control.go`, `internal/app/hub.go` | `zlaw.toml`, supervised set | create, remove, stop, restart, enable, disable from three sources; debounced reload | read-modify-write without a lock, in-place rewrite, reload racing requests | the supervised set converges to the file; no listed agent is left behind |
| **Hub daemon** `internal/app/hub_daemon.go`, `app/hub.go`, `hub/nats.go`, `hub/acl.go` | `hub.pid`, `control.sock`, the NATS address, tokens, agent processes | hub start, stop, restart, run; crashes; connecting agents | checks and actions of two commands interleave; agents outlive their hub; tokens change with every hub | no two processes of an agent on the bus; a live hub can be found; its agents join |
| **Agent logs, audit log** `internal/hub/logging.go`, `cmd/zlaw/agent_logs.go`, `internal/hub/audit.go` | line buffers, a bounded channel, an append-only file | write, split, publish, follow; append, read | chunks that end anywhere, cut writes, deaths in mid-line, concurrent handlers | lines arrive whole, in order, once |
| **Agent loop and history** `internal/agent/agent.go`, `history.go`, `store.go` | message list per session, cache and JSONL file | Run: append, complete, execute tools, append; Clear, Archive | lazy load, clears and crashes in mid-turn, failed turns | cache equals file; tool calls are followed by their results |
| **Context optimizer** `internal/agent/optimizer.go`, `prune.go`, `summarize.go` | none | summarise, prune | order of levels, shifting offsets, what must survive | the current turn survives whole; the budget is met or nothing is left to prune |
| **Session manager, sinks** `internal/session` | session map, bounded turn queue, sinks | Submit, Broadcast, Drain | full queue, drain races, slow sinks | turns run one at a time, in order, to an end; drain waits for the turn in flight |
| **Adapters** `internal/adapters` | connections, Telegram edit buffer | attach, push, edit, /clear | late deltas, replaced sinks | each answer is one message, in order |
| **Cron** `internal/cron`, `internal/tools/builtin/cronjobs.go`, `internal/config/cron.go` | job list, per-job locks, `cron.toml` | tick, Reload, create, delete | overlap of runs, reload races, read-modify-write | a job runs at most once at a time, when its expression matches; file and scheduler agree |
| **LLM clients, retry** `internal/llm` | a parser's blocks, two attempt counters | Complete, CompleteStream | errors half-way, events by index, cancelled calls | the answer is what the server sent, shown once |
| **System prompt** `internal/agent/agent.go`, `context.go`, `internal/llm` | the layers of a request's prompt | assemble, convert to two formats | layers change at different paces | cached layers stay; none is lost |
| **Agent configuration** `internal/config/config.go`, `app/agent_serve.go` | runtime.toml, SOUL.md, the prompt in use | Watch, Load, WriteRuntimeField | write races reload, shared temporary file | the last write is what is loaded; the prompt follows the file |
| **Memory store** `internal/agent/memory.go`, `memory_semantic.go` | markdown files, vector index | save, delete, search, rebuild | two stores, failing embeddings, crashes in between | files and index follow the answers given |
| **Command line** `cmd/zlaw` | - | builds one request, prints its answer | none of its own | - |

Interactions: the control socket, the NATS inboxes and the `zlaw.toml`
watcher call the supervisor and the registry from goroutines of their own. Agents
reach the hub only through NATS: `zlaw.registry` (registrations),
`zlaw.registry.list` (queries), `agent.<id>.inbox` (tasks, stored in the JetStream
work queue `AGENT_INBOX`), `agent.<id>.logs`, `_INBOX.>` (replies, plain NATS). The
supervisor relaunches agents that die, which is what lets queued tasks survive. Inside an
agent, adapters, cron jobs and the inbox start turns of the agent loop; the tools the
loop calls change cron.toml, runtime.toml and the memories, and the configuration watcher
brings such changes back into the scheduler and the system prompt.

## 2. Modules

| Module | Models | Kind |
|---|---|---|
| `Supervisor` | the supervisor, its callers and the agent processes | model and properties |
| `Registry` | the registry, its lock, its clock | model and properties |
| `DelegationContract` | what a call of `agent_delegate` promises | abstract specification |
| `Delegation` | tool, work queue, inbox loops, process deaths; implements `DelegationContract` | model, refinement, properties |
| `HubControl` | requests, inboxes and watcher over `zlaw.toml` and the supervised set | model and properties |
| `HubDaemon` | the hub commands, hub processes, what outlives them | model and properties |
| `Subsequences` | the elements of a sequence at a set of positions (a loop's `append` of what it selects) | operators |
| `LogLines` | streams of JSON lines in pieces; extends it | operators |
| `AgentLogs`, `AuditLog` | an agent's output up to `zlaw agent logs`; the audit file | model and properties |
| `HubLogs` | the two together | properties |
| `ContextOptimizer` | pruning and summarising a history | operators |
| `RequestFormats` | a history in the two API formats; extends it | operators |
| `AgentLoop` | turns of one session over its history; extends it | model and properties |
| `SystemPrompt` | the layers of a prompt in the two formats | model and properties |
| `LLMCall` | one call: retries around either client and its parser | model and properties |
| `Session` | one live session with its sinks and the drain | model and properties |
| `AtomicFile` | a file replaced through one shared `.tmp` | operators |
| `CronFile`, `Cron` | cron.toml and its users; the scheduler, which extends it | model and properties |
| `CronExpr` | evaluation of a cron expression, against its meaning | model and properties |
| `AgentConfig` | runtime.toml, SOUL.md and the prompt in use | model and properties |
| `MemoryStore` | memory files and vector index | model and properties |
| `MCSupervisor`, `MCRegistry`, `MCDelegation` | constants for TLC | model checking |
| `MCHub` | the parts of the hub without a run of their own | model checking |
| `MCAgent` | the parts of an agent process | model checking |
| `SupervisorProofs`, `DelegationProofs`, `AgentFileProofs` (Cron, CronExpr, AgentConfig, MemoryStore, SystemPrompt), `LoopProofs` (AgentLoop, ContextOptimizer, RequestFormats, LLMCall), `SessionProofs`, `HubControlProofs` (HubControl, Registry), `HubDaemonProofs` (HubDaemon, the logs) | see section 4 | proofs |
| `SequenceLemmas` | induction, recursive functions, what `Picked` and `FlattenSeq` return | lemmas |

### Supervisor

`agents` is `Supervisor.agents`; a *handle* (a number) is a `managedAgent` object.
A monitor's program counter `mon[h]` walks through the loop of `monitor`:

    check -> (backoff) -> build -> start -> started -> wait -> reap -> check | exited

The states are the points between which another goroutine can act: `started` is
the gap between `cmd.Start` and `setRunning`, `reap` the gap between `cmd.Wait` and
`setStopped`. API calls are records in `call[c]`: the handle they looked up, and
where they are. `sync.Once` is modelled as it is implemented, an entry, a body and
a completion (`OnceEnter`, `CloseStopCh`), because `Restart` overwrites it without
regard for a `Do` in progress. `stopCh[h]` numbers the channels a handle has had,
`closed[h]` says which are closed. `kill` reads the handle under its lock and
signals later (`KillReads`, `Signal`). `Locked(h)` is `Restart` between its two
assignments, which `ma.mu` protects from `kill`, `setRunning` and `setStopped` only.
Panics (a double close, a `Once` overwritten while it runs) end the hub.

Left out: `pid` and `lastErr` (they follow `running`), the error return of `Signal` other
than "process done" (it cannot occur for one's own child), the log pipes, the length of the back-off.
Agent processes never disappear from the model when the hub does, since nothing
stops them (`exec.Command` without a context, `runHub` returns at once).

### Registry

One variable per goroutine says where it is; `writer` is the write lock, which
a goroutine first *asks* for (no new reader gets in from then on) and then owns
once readers have left. The clock counts thirds of the heartbeat interval. A
payload is a record, and `Decoded` reads its `id` field as `registrationMsg`
does; `hubRegistration` is what the program's own `HubClient` sends.

### Delegation

A *task* is one call of `agent_delegate`. `call[t]` is where the caller's `Execute`
stands, `replyCh[t]` its channel of capacity one, `inbox[t]` the task's message in
the work queue, `loop[a]` the inbox loop of agent `a`. A call may be made from a
session or from inside the run of another task (`within`), and a run ends only
when the calls it made have returned (`ExecuteAll` waits for all). `Dies` ends a
process at any point with everything in it; `Relaunched` is the supervisor.
`DeliverReply` may never happen to a reply, which is how replies get lost.
NATS and JetStream are modelled by what the consumer settings ask of them
(explicit ack, AckWait, MaxDeliver, MaxAge).

Left open: the order of different messages (any ready one may be fetched), and whether
`RegistryCache` knows the target (`Refuse` may happen to any call). Left out: the plain
NATS inbox that is used without JetStream, and envelopes from other senders, in
particular malformed ones.

### HubControl

A handler is the sequence of steps it takes between which others can act: `steps[t]` holds
what thread `t` has still to do, `content[t]` the entries it read. `file.entries` is the list
in `zlaw.toml`; `Truncate` and `Write` are the two halves of `os.WriteFile`, and `Overwritten`
is what is left when two writers' bytes lie over each other. `sup` has, of the supervisor,
what reload compares: an ID is unknown, live or stopped. The watcher's steps are
`Tick`, `Load`, `Snapshot` and what the snapshot put on its list. `HubStops` ends every handler
where it is; `runHub` starts again from the file.

### HubDaemon

Hub processes are numbered in the order of their creation. `pidFile`, `sock` and `port` say whose
number the PID file holds, whose listener made the file `control.sock`, who has the NATS address. A
command is a sequence of steps too (`StartHub`, `StopHub`, both, or a bare fork for a foreground
`hub run`). Agents hold the token of the hub that started them; `Accepts` is the server's test.
Left out: the time-outs' lengths (`Waits` may go on at any time) and a hub's messages to the terminal.

### AgentLogs, AuditLog

A line is two pieces, the second of which ends with the newline, and `WholeLines` (`LogLines`) is what a reader
makes of a sequence of pieces. `AgentLogs` follows an agent's output from the process over the
pipe and `agentLogWriter`'s buffer to the bus and the follower's bounded channel, counting
what the follower could not take (`missed`). `AuditLog` has a handler per subject that builds an
entry before it takes the lock, writes cut short, hubs that end anywhere, and `ReadAuditLog`.

### ContextOptimizer, RequestFormats, AgentLoop

A message is its kind, its turn and two sizes. `Optimize` is `Optimizer.Optimize`, with the levels in
their configured order. `AgentLoop` runs one turn after another over `cache`, `log`, `count`: history
in memory, JSONL file, count in the metadata file. `Clear` may come at any step, `Crash` too, with the
line under way lost, torn or whole. `RequestFormats` has the conversion of a history to Anthropic's
and OpenAI's messages and says what either API demands of them.

### SystemPrompt, LLMCall

`SystemPrompt` assembles a prompt from its layers for every request and converts it as either client
does; personality, memories and skills change in between. `LLMCall` is one call: the retry loop with its two
counters, requests and streams that fail anywhere, the parser of Anthropic's events with blocks by
index, the accumulator of OpenAI's. Left out: durations, tool schemas.

### Session

`queue` and `runSession`'s states, a broadcast that goes over a copy of the sinks one send
at a time, connections that attach, stall and leave, the Telegram chat whose sink keeps a buffer and a
message in progress, `/clear`, and the shutdown with `Drain`. What a chat message shows is the set of turns
its text comes from.

### AtomicFile, CronFile, Cron, CronExpr, AgentConfig

`AtomicFile` is the idiom of `cron.toml` and `runtime.toml`: open and truncate one shared `.tmp`, write,
rename. A descriptor follows its file when another writer's rename moves it, which is how a torn
file comes about. Both modules of such a file take its operators, `CronFile` by extending it, `AgentConfig` as the instance `Toml`. `CronFile` has the tools and the watcher over `cron.toml`, `Cron` the scheduler with its per-job locks, `CronExpr` the
three nested loops of the matcher one step at a time against what an expression means.
`AgentConfig` has the writers of `runtime.toml`, the user's editor on SOUL.md, and the two paths
(`ReloadRuntime`, `LoadConfig`) by which the prompt is replaced.

### MemoryStore

One file and one index entry per memory; saves and deletions in steps, embeddings that fail, an
index rebuilt at start, the plain store when that fails.

## 3. What the runs check

| Run | Instance | Properties | Shows |
|---|---|---|---|
| `supervisor` | 1 configured agent, any policy, 2 callers, 2 process slots, 1 Restart per handle, builds and starts may fail; callers are symmetric | `TypeOK`, `MonitorOwnsProcess`, `StatusMatchesMonitor`, `RestartsJustified`, `AtMostOneLateStart`, `OnceMatchesChannel` | the invariants of the handle under all interleavings of two calls |
| `supervisor_live` | 1 agent that is spawned, 1 caller, 2 Restarts, all policies and faults; fair | `StopEndsMonitor`, `AlwaysRelaunches` | stops end supervision, exits lead to relaunches |
| `sup_stop` | 1 agent, 1 caller; fair | `StopTakesEffect` | **violated**: finding 1 |
| `sup_restart` | 1 agent, policy on-failure; fair | `RestartSpawnsFresh` | **violated**: finding 2 |
| `registry` | 1 ID, 2 publishers, 1 remover, 4 intervals; fair | `TypeOK`, `DisconnectJustified`, `SilenceNoticed` | the heartbeat arithmetic under lock delays |
| `registry_query` | the same | `QueryAnswered` | **violated**: finding 3 |
| `registry_listed` | only the program's own publisher | `AgentsListed` | **violated**: finding 4 |
| `delegation` | agent a asks b and itself; 2 tasks, 2 deliveries, 1 death | `TypeOK`, `AckedWasRun`, `RepeatedOnlyAfterLostAck`, `ContractKept` | the contract and the queue under losses and crashes |
| `delegation_live` | one agent asks another, whose run may ask its own agent; runs succeed; fair | `CallsReturn`, `QueuedTasksRun` | no wait is for ever, nothing is forgotten |
| `hub` | the parts of the hub, see below; fair | `FileAgentsSupervised`, `InStepWhenSerial`, `AddedIsSupervised` (HubControl); `NoDoubleOnBus`, `HubFindable`, `ConfiguredJoin` (HubDaemon); `RemovedAreStopped` (Supervisor); `LogsKept` (HubLogs) | the control plane, the hub's life, the two logs |
| `agent` | the parts of an agent, see below; fair | `PartsTypeOK`; `HistoryKept`, `LoopRequestsSound` (AgentLoop); `ClientsFollowTurns`, `ChatShowsTurns`, `DrainWaits`, `AllTurnsEnd` (Session); `OneRunPerJob`, `ScheduledJobsRun`, `CronInStepWhenSerial` (Cron); `ExpressionsDenote`; `ResponseMatchesStream`; `LayersCached`; `MemoriesKept`; `PromptFollowsFiles` | one agent process |
| `agent_prompt` | the same | `StickyAlwaysSent` | **violated**: finding 5 |

`MCHub` and `MCAgent` put modules together that share no state. A behaviour picks one part (`part`)
and leaves the variables of the others where they begin, so the states add up instead of multiplying, and nothing is
missed: no step of one part reads or writes another's variables. A module that needs two
different bounds to be generous in has two instances. `MCHub` extends `HubDaemon`, `HubControl`, `Supervisor` and `HubLogs`, `MCAgent` extends
`Cron`, `CronExpr`, `Session`, `MemoryStore`, `AgentLoop`, `AgentConfig`, `SystemPrompt` and `LLMCall`: the cfg files name the properties of these modules themselves, which are the ones
section 4 proves; the other modules are instances, and for them a property
says "in the part that runs, the module's property". In `CronInStepWhenSerial`, `InStepWhenSerial`, `PromptFollowsFiles`
and `HubFindable` the premise (no two requests, writers or commands at the same time) is a history variable of the
module; without it the properties are false, as section 5 says.

| Part of `hub` | Instance |
|---|---|
| control | 2 agents, one of them disabled by its agent.toml; 1 connection, both inboxes, watcher; 2 requests, 1 hub restart |
| control long | the same, but requests are about one agent only (`Requested`); 3 requests, 1 hub restart |
| daemon overlapping | 2 commands at a time, 2 in all; 3 hubs; an agent listed, another one added |
| daemon serial | 3 commands in a row; 3 hubs; 1 agent, which may die once |
| respawn | one ID spawned twice, 1 caller that also removes it |
| logs of two, logs of one | 2 agents with 2 lines, or 1 with 3 lines and 2 exits; channel of 1 or 2 |
| audit | 2 subjects and the hub; 4 entries, 1 cut write, 1 end of the hub |

| Part of `agent` | Instance |
|---|---|
| loop | 3 turns of at most 2 model calls, token counts below and above the budget of 5, 1 /clear, 1 crash; levels strip_thinking, strip_tool_results, drop_pairs |
| session, chat, attached | 2 turns, queue of 1; a chat and a client together with 1 disturbance (/clear, failed call, stall, shutdown), or either alone with 2 and a delta |
| cron file | 2 tool calls at a time and the watcher, 2 jobs; no minute passes |
| cron runs | 1 call at a time; a job due every minute and one that does not parse; 2 minutes that go round |
| expression | two fields of up to 2 parts each with bounds 0..2 and steps 1..2, or unparsable |
| call | either backend, streaming or not; 3 attempts, 2 for overload; 3 blocks of up to 2 pieces, in any order of arrival |
| prompt | either backend, caching on or off, 2 sticky blocks; 4 changes of personality, memories, requests |
| memories | 2 memories with 2 texts, 2 concurrent calls, 2 operations, 2 crashes |
| config | 2 concurrent tools and the hub, 2 models, 2 texts of SOUL.md; 2 writes, 1 edit, 1 restart |

Every property of a passing run has a mutant in `PROJECT.json`: a plausible bug in
the code, written next to the definition it changes, under which TLC finds the
property violated.

### Bounds and why they are enough

- *Supervisor.* `MaxHandles`: handles of different IDs share nothing but the
  map, so one handle shows the handshake and two show the map. Two callers
  suffice for the overlaps the code allows, as three calls overlap pairwise.
  `MaxResets` = 1 gives an old and a new channel; 2 (in `supervisor_live`) gives
  stop, restart, stop. `MaxAttempt` only saturates: the code compares
  `attempt` with 0. Two process slots let a signal be late for a process that has been replaced.
- *Registry.* `MaxNow` = 12 thirds is four intervals, one more than the three after which silence must show.
  One ID, since entries do not interact; the two publishers are a correct one and `HubClient`.
- *Delegation.* Two tasks give nesting, cycles, parallel calls of one agent and
  competition for one inbox loop; `MaxDeliver` = 2 (10 in the code) gives one
  redelivery and exhaustion; one death. In `delegation_live` runs only succeed, as no liveness property looks at the outcome.
- *HubControl.* Two requests and the watcher give every pair of read, truncate, write and reload; a third
  request gives remove after create after remove. The lost updates that need two writers are seen as such
  (`requestsOverlapped`), and only excused where a property says so.
- *HubDaemon.* Three hubs: one that dies, one that replaces it, one that a racing start creates. Two commands
  race pairwise; three in a row give start, stop, start.
- *AgentLoop.* Three turns: one to cut, one before the current one, the current one. A budget of 5 with bodies of 1 and 2 makes a history of
  two turns exceed it. `maxIterations` = 2 (20 in the code) gives a turn that calls tools and one that runs out.
- *Session.* A queue of 1 (8 in the code) is full with one turn running and one waiting. Two turns give order and leaks from one into the next.
- *Cron.* Two minutes suffice for "the next firing"; a run may take any number of them. Two calls give the lost update.
- *LLMCall.* Three attempts cover first, middle and last; two pieces tell a piece from its block.
- *MemoryStore, AgentConfig.* Two concurrent operations on one file and one on another; crashes and edits once or twice each, at any point.

### Fairness

- Monitor goroutines and API calls that can run, run (the Go scheduler). Nobody
  has to call the API. A process that was interrupted exits (`agent serve`
  returns on SIGINT); one that was not may run for ever.
- Writers get the registry's lock eventually, as `sync.RWMutex` blocks new
  readers for them; the goroutines between the lock and the unlock run. Strong
  fairness on asking is the mutex's freedom from starvation. Publishing, deregistering, querying
  and the passing of time are not fair.
- A delegation's timer fires, AckWait passes, a relaunch happens; a run ends
  (the LLM client has a time-out and `maxIterations` bounds the loop), and
  the fetch loop keeps polling. Fetching is strongly fair per task, as the stream offers the oldest
  message first. Delivery of a reply is not fair.
- Handlers of the hub run to their end and the debounce ticker ticks (`HubControl`); hub processes go through their start or end, and
  starting agents try to connect (`HubDaemon`). No request and no command need come, nothing need crash.
- A turn's model call and tools return (`AgentLoop`); the session goroutine, sends to clients that are not stalled and calls of
  Telegram return (`Session`); the clock ticks, and goroutines that were fired get to their lock and end (`Cron`). Clients, users and
  `/clear` are not fair.

## 4. What is proved

TLAPS checks the following for every value of the constants that satisfies the
named assumptions. `ConfiguredAssumption`, `PayloadAssumption`, `DelegationAssumption`, `HubAssumption`,
`DaemonAssumption`, `CronAssumption`, `SessionAssumption`, `MemoryAssumption`, `LoopAssumption`,
`OptimizerAssumption`, `CallAssumption`, `ExprAssumption` and `PromptAssumption` are `ASSUME`s of
their modules, which TLC evaluates in every run: bounds and budgets are naturals, a call is attempted and a turn calls the model at least once, a summary takes in a turn at least, there are finitely many agents, configured entries
are agent IDs, chat sinks are numbered from 1 and no client is one, sentinels are not values; a parsed schedule has as many fields as a time has
numbers, no field is without a part and no step is 0 (`cron/expr.go`); and the sticky blocks are not empty, as both commands
that run an agent append the one about its identity (`app/agent_serve.go:76`, `app/agent_run.go:52`). No other fact is assumed,
except where a theorem says so (`OneAtATime`).

**Supervisor.** `TypeOK` is not inductive: `Remove` deletes
`agents[entry[h]]`, which needs a created handle. `TypeInv` adds `MapMatchesEntries` (the map
only names created handles of that ID), and `TypeCorrect` follows
action by action. `TypesAndFresh` adds `FreshHandles`: a handle that does not exist yet
has its initial state, so that `Spawn` cannot inherit a child or a closed
channel. On top of the two:

- `OwnershipCorrect`: no strengthening is needed beyond them; the proof is that only
  `StartProcess` makes a process and only of a free slot, and only `WaitReturns` frees it.
- `StatusCorrect`, `RestartsCorrect`: one case per action that touches the monitor or the flags.
- `LateStartCorrect`: `LateStartInv` adds that a monitor which has started a late
  process is past its look at the channel (`AtMostOneLateStart` alone would let it come back to build).
- `HandshakeCorrect`: `StopHandshake` orders the channels, allows one reset
  at a time, and says for each handle that no call has overlapped how the
  `Once`, the channel and the callers inside `Do` fit together. The invariant speaks of
  handles without overlap only because with one it is false: that is the hazard at
  `supervisor.go:214`.
- `RemovalCorrect`, for one caller and agents listed once (`OneAtATime`): `RemoveInv` says that the name a call
  looked up still leads to its handle, and that a `Remove` past `stopOnce` has closed the channel. With two
  callers `DeleteEntry` may delete a handle that another one has spawned under the name, and a handle may leave
  the map unstopped; the part `respawn` of the run `hub` has one caller for the same reason.

**Registry.** `TypeCorrect`; `JustifiedCorrect` (inductive once it is said
that the deadline in use is not younger than the one that could be computed now); `NoticedCorrect`
with `TickerInv`, which relates the clock, the pending tick and the deadline of the sweep in progress.

**Delegation.** `TypeOK` is not inductive, since `Fetch` counts a delivery: `TypeInv` adds
`DeliveriesLeft` (an offered message has a delivery left, a call not made has no message).
On top of it:

- `RepetitionCorrect`: `RunsAccounted` says which tasks may still complete - those in a
  run and those with a message that can be fetched - and that each has a completion left;
  a run that waits for its ack has none, and only a lost ack gives it back.
- `AckedCorrect` and `ContractCorrect`: `OutcomesAreRuns` follows an outcome on its way
  from the loop over the reply subject to the caller's channel; that reply subjects
  differ is where it would fail. Each step then is one of `DelegationContract`
  or does not show in it.

**HubControl.** `FileAgentsSupervised` speaks of quiet states only, so it says nothing of the steps before one.
`ControlInv` does: in `ListedInv`, a listed agent that is not supervised is one the watcher still has to do something about
(`WillSpawn`): a write it has not looked at, a list it has loaded with the agent in it, or a "spawn" among its steps; or somebody is about to
write the file, and so to tell the watcher. What a handler and a reload can have left
to do is in `Shapes`: that every deletion is followed by a rewrite of the file, or is the reload's own, is what would be false if
`agentRemove` changed the file first. `SupervisedCorrect` follows. For
`InStepCorrect`, `StepInv` adds `SerialControl` while no two requests have overlapped: one handler at most
has steps left and it writes over an empty file, an agent is listed before its creation spawns it, and a name that is supervised but
not listed is due to be deleted by a reload. The proof found a `CASE` in `Stop` whose
arms overlapped, which TLC reads in order and TLA+ does not; the action is now a disjunction.

**HubDaemon.** `NoDoubleCorrect`: in `BusInv`, whoever is connected is connected to the server of the hub that
started it, because no other server accepts its token. There is one server on the address, so two
processes of one agent cannot both be connected. Agents outliving their hub are no danger for this reason only.
`FindableCorrect` is about commands that do not overlap. `SerialInv` says that at most one of them has steps left, and what
that one has made sure of at each step (no process answers to the PID it read, the socket path is free, the hub it forked is
the latest one); that a hub which got a TERM has a command waiting for its end; and that hubs are numbered in the order in which they
were forked, so that the PID file cannot name an older one than the socket does.

**Cron.** `OneRunCorrect` needs nothing: a run begins under its job's lock. `TypeCorrect` adds to
`TypeOK` that the watcher has no steps but its own. `InStepCorrect` rests on `SerialInv`: one call at a
time, and `CallInv`, which says for each of its steps what the file, the temporary file and the
call's list hold (the old list up to the rename, the new one from there on), so that a death at any
of them leaves one or the other; and unless an event is still to come, the watcher holds or the
scheduler has the list that is in the file.

**CronExpr.** `DenotesCorrect`, with integers of any size: `ExprInv` says that the fields before the present one match, that the parts
before the present one parse and do not, and that `matchPart`'s loop has passed by every value below the one it is at. That a value not met
by the loop is no multiple of the step away needs some arithmetic of remainders (`MultiplesApart`, `NextMultiple`).

**AgentConfig.** `ConfigTypesCorrect`; `PromptCorrect` with `ConfigInv`: as long as nothing has collided, in `SerialToml` the temporary file
is the one writer's own and becomes what it was to write, and runtime.toml holds the model of the tool that has put it in place, or else the one last answered;
in `SerialPrompt` a tool that reloads and the watcher exclude each other, and unless an edit is still to be told of, whoever is on the way to
the prompt brings the SOUL.md on disk. An event not yet taken is what excuses a prompt that is behind, so that edits between any two
steps of a reload are covered.

**Session.** `DrainCorrect`: `DrainInv` follows the turn in flight at shutdown. `QueueInv` (what waits is queued,
and nothing waits twice) is what keeps `runSession` from beginning it a second time, `RunningInv` says
that its outcome is final when its last event is sent, `FlightInv` that it is running or has ended.

- `ClientsCorrect`: `EventsInTurnOrder` does not say what comes next. `OrderInv` does: turns begin in the order of their numbers,
  so the running turn is above all that have begun and below all that wait. With it `ReceivedInv` says that a client has got nothing but deltas
  of the running turn until its last event was sent to this client. `AttachedInv` follows one
  client through the broadcast's copy of the sinks: it is among the sinks, none of its sends has
  failed, and of each turn that began after it came it has seen the end or is still to be sent it. A client that
  has not come yet is in no copy, which is why one that comes in the middle of a broadcast is not closed with the failed ones.
- `ChatCorrect`: `BufferInv` says that a chat sink's buffer holds text of the running turn only and is empty, with no message
  in progress, once it has been sent the turn's end; that needs a sink with text to stay on the broadcaster, so that it is sent that end.
  Both are false after a turn has failed (`Send` leaves the buffer alone), hence the
  premise. `AnswersInv`, without a `/clear`, says that there is one chat sink, that its message in progress is the chat's last, and that
  the running turn's answer is not there before its last event; with a second sink each answer is posted twice.

**AgentLoop.** `HistoryCorrect`: `LoadInv` says how far apart cache and log may be before the first `Get`: the
log's last message at most, the turn's user message, and this only between `RunBegins` and `SendRequest`. `CopiesInv` says that from
then on the cache is the log with one message more at some place, in a form that appending to both preserves (the lemma `Removed` relates
it to `RemoveAt`). `CountInv` adds what `RecordUsage` is about to write back, `AnsweredInv` follows
an answer into the archive. `/clear`s in the same second are excused, as are the crash between the two writes and the `/clear` between
the two halves of `RecordUsage`: without the excuses the property is false.

`RequestsCorrect` is about what is sent. `RequestInv` adds to the history's invariant `CopiesSound`, of every moment, and `SentSound`, of a
model call under way:

- The current turn. Cache and log end alike, with the turn's messages (`TurnAtEnd`: some number `n` of messages begins at a user's message and holds no other, and
  is the end of both). Ends are compared, not positions: the cache may hold a message more than the log, and what the optimizer makes is shorter than either.
- The order. `Adjacent` says that each tool message follows the call of its turn, in both copies. That needs the calls to be at the end of both copies while the tools run
  (`EndsWithCall`), also of a log that a dying process appends the results to. A turn that a `/clear` came in is exempt: its call is in the archive, its results are not.
- The optimizer. Whatever it does is a step that `Shortens`: it drops messages up to the start of a turn, perhaps for a summary in front, and of what it leaves
  changes the sizes only, the last turn's not even those. Stripping, dropping and summarizing are such steps (`StripShortens`, `PruneShortens`, `SummaryShortens`), such
  steps keep the last turn and `Adjacent` (`EndsKept`, `AdjacentKept`), and so does any order of levels (`LevelsKeep`, by induction over the configured levels). What
  `drop_pairs` leaves fits the budget or has one user message, and later levels keep it so (`Cut`): the property has no other premise on the levels than that `drop_pairs` is among them.
- The formats. `AnthropicFollows` is message by message. `OpenAIFollows` is by induction over the history, as one message becomes several: the request of a history that ends with
  calls ends with a message of these calls (`Follows`), and a result's messages come next (`FollowsOne`).

The proof corrected the model's property: `clearedIn` was the last turn a `/clear` came in, and with two clears TLC shows a request that
has results without calls of an earlier such turn. It is the set of these turns now; the run `agent` has one clear, the theorem any number.
`LoopTypeCorrect` adds to `RequestInv` that a turn which reads its history has model calls left (`TurnInv`).

**LLMCall.** `ResponseCorrect` and `CallTypeCorrect` share `CallInv`. A stream begins from nothing and is never tried again: no streaming call sleeps, and at its one request nothing
was heard. `StreamInv` says that while it is read the parser's blocks are what the server has sent, thoughts aside (`Matches`), and that the handler has heard their text: an event
that adds a piece to the last block adds the same piece to both (`OnePieceMore`). What a client leaves out of its answer (thoughts and empty texts) changes neither
the text nor the tool calls (`KeptIsSpoken`, `KeptFacts`), so the answer says what the server said. Requests that are not streams may be repeated, as each starts from nothing.

**MemoryStore.** `MemoryTypeCorrect`; `KeptCorrect` with `KeptInv` per memory: as long as one call at a time has
worked on it, `ToolCallInv` says what each of its steps has made of the file, and an idle memory's index entry
is its file's text unless an embedding failed. Crashes leave what the next start's rebuild repairs.

**SystemPrompt.** `LayersCorrect`: `PromptInv` says that what the last Anthropic request sent is a prompt of the personality of then (`IsPrompt`),
that is `Layers` of it, perhaps with one more block that has no checkpoint. `RequestIsPrompt` is that every request makes such a prompt,
whatever the memories; `PrefixIsLayers` is that the cached prefix of any such prompt ends with the layers, so that two
of one personality have the same. That the personality's section is never left out hangs on the agent's id in it (`AddedNotEmpty`).

**Logs.** `LogsAreKept` puts `FollowerComplete` and `AuditComplete` together.

- `FollowerComplete`: the argument is about one stream per agent, what its writer has buffered followed by what is in the pipe. `StreamInv` says
  that lines are in it whole and in order, except perhaps an unfinished one at its end, and `EndInv` that
  this is the line the process is in the middle of, if it lives. What a dead process leaves of a line is in the buffer by the time `Relaunch` finds the pipe empty,
  and goes with it: that keeps it from being joined to the next process's first line. `FrontInv` says that what has been published (shown, held or on the bus) is JSON, was written whole, is in order agent by agent, and
  comes before the stream; `NoneLost`, that a line written whole is published, missed, or in the stream. A chunk of any size moves a
  prefix of the pipe into the buffer: that the lines the writer takes out of it, followed by those still in it, are the lines that
  were there is a fact about `WholeLines` of two halves of a sequence.
- `AuditComplete`: `BuildInv` says that the entry a handler has built is its subject's latest and is not in the file, `FileInv` that an entry is in the file
  once, as one piece or as two in a row, and after the older ones of its subject, `IntactInv` that the whole lines of the file are the entries counted as intact. A cut
  write spoils the line it is on and the entry after it, no other. What `ReadAuditLog` returns is then the end of the sequence of the file's whole lines of a type.

Both rest on `Picked`, the loop that appends what it selects, and so do the starts of turns in the optimizer, the blocks of one type in a request and the blocks a client keeps;
the conversion to OpenAI's messages and the text of a response rest on `FlattenSeq` of the community modules. Both are defined by recursion over the positions, and
`SequenceLemmas` proves what they return (of `Picked`: elements of the sequence, all the selected ones, in their order; of both: what one element more adds) by induction. The library's induction
theorems take an operator as a parameter, which the provers do not instantiate, but the well-foundedness of `<` on the naturals gives
every non-empty set of naturals a least element (`Least`), and so induction over the *set* of numbers with a property (`Induction`); `RecursionExists` is that a function
defined by recursion exists, and `RecursionTyped` that it stays in a set its step stays in (the token estimate and the levels of the optimizer are such functions).

**Only model-checked.** Liveness (`StopEndsMonitor`, `AlwaysRelaunches`, `CallsReturn`, `QueuedTasksRun`,
`AddedIsSupervised`, `ConfiguredJoin`, `AllTurnsEnd`, `ScheduledJobsRun`), which needs reasoning about
ENABLED that the installed provers do not do; and `PartsTypeOK`, the types of all parts of `agent` and their three instances of `Session` at once, which
is no module's own property: those of `Cron` with `CronFile`, `AgentConfig`, `MemoryStore`, `AgentLoop` and `LLMCall` are theorems above, and those
of `Session`, `CronExpr` and `SystemPrompt` are conjuncts of the inductive invariants used there.

## 5. Findings

1. **A stop can be lost** (`supervisor.go:194`). Between the monitor's look at
   `stopCh` and `setRunning`, `Stop` finds nothing to signal and returns nil; the
   process is started and runs on. `AtMostOneLateStart` is the part that does hold.
2. **A restart may only stop** (`supervisor.go:204`). Whether a fresh process is
   started is up to the policy; an agent that exits cleanly on the interrupt is not
   restarted under the default policy.
3. **A query can lock up the registry** (`registry.go:175`): a read lock taken twice by one
   goroutine with a writer waiting in between.
4. **Agents are never listed** (`registry.go:47`, `hubclient.go:36`): the field names of the
   registration differ between its two ends.
5. **The OpenAI backend sends no system prompt** (`openai_compat.go:160`): it reads `SystemPrompt`, and the agent
   fills `SystemSections` only.

`PROJECT.json` quotes the lines that say otherwise and lists the hazards of the code.

### Other divergences met while modelling

They have no run of their own: the models follow the code, and where a property would be false
because of one, its premise or the instance excludes the case.

Hub:

- `zlaw.toml`'s `disabled` flag (`config/hub.go:63`) is not looked at by Start or by the reload; only agent.toml's is.
- `agent.create` over the control socket fails always: the request has `name`, the handler wants `id`.
  `enable` edits the file and never respawns a stopped agent. `RemoveAgent` says "atomically"
  (`config/hub.go:97`) and truncates in place.
- The watcher of `zlaw.toml` ignores Create events, so an editor that renames a new file into place goes unnoticed.
- An agent added at run time has no NATS token (`supervisor.go:437`): it connects in vain until the hub is restarted.
- A foreground `hub run` writes no PID file: a later `hub start` removes its live socket and forks a
  hub that cannot get the NATS port. Two racing starts do the same to each other. After a
  crash, a stale `control.sock` makes the control socket's Start fail once the agents have been spawned, who then outlive the hub.
- `StopHub` tests for `*exec.Error` where `os.ErrProcessDone` is what comes.
- Agents that outlived their hub keep their cron jobs, chats and sockets.
- A late heartbeat after `Deregister` registers the agent again (`registry.go:138`).
- The stream `AGENT_INBOX` has the subject `agent.>` and thus stores the agents' logs too.
- The tools `agent_stop` and `agent_restart` send a field `tool` where the inbox requires `op`, and get no reply;
  `acl.go` does not let agents publish there either.
- `zlaw agent logs` connects without a user name, so that its token is not used.
- `ReadAuditLog` fails as a whole on a line over 64 KB; "newest-last" is the order of writing. Nothing calls it.

Agent:

- A session's first message is repeated when its first `Append` meets an unloaded history (`history.go:112`, `122`).
- A crash between a tool call and its results leaves the call without results in the log; both APIs refuse every later request until `/clear`.
- `cronjob_create` and `cronjob_delete` at the same time lose a change (`config/cron.go:44`) or tear the shared `.tmp`;
  so do two writers of `runtime.toml`. Schedules are not validated when created; the first whole minute
  after the start is skipped; day of month and day of week are joined by "and".
- Telegram: a failed final send takes the sink out of the broadcaster but not out of `a.sinks` (`telegram/adapter.go:179`), so
  the chat gets no more answers; `/clear` leaves the old sink, and the chat gets each answer twice. `chatSink` keeps its buffer on an error event.
- A command line that does not read blocks `Broadcast`, and so the session and every other client.
- Shutdown waits up to `ShutdownTimeoutSec` for turns whose contexts it has cancelled.
- The tool `configure` "takes effect immediately"; what it changes besides the prompt does so at the next start.
  `ReloadRuntime`, "safe to call concurrently", can put an older prompt back (`config.go:272`). An edit of SOUL.md between load and watch goes unnoticed.
- The skills index never reaches the prompt in serve mode: `agent_serve.go:117` passes nil (`plans/planning.md:38`).
- LLM: `CompleteStream` is never retried; an error event in a stream is ignored; a gap in block indexes loses
  what follows; the OpenAI conversion drops text beside tool calls; `jitteredExp` panics for a tiny base and overflows for a huge one.
- `Optimize` triggers on the known token count and prunes by its own estimate. `StripThinking` may leave an empty message.
- Memory: a torn file fails every listing; a save whose embedding fails answers with an error although the
  file is written; `Search` returns the error its comment says it falls back from.
- Two archives of a session in one second have one name (`store.go:145`). `RecordUsage` updates the metadata outside `History.mu`.

### Hazards no property covers

A failed run is acked like a successful one (`hubclient.go:144`): `Ack` has it, and
`RepeatedOnlyAfterLostAck` relies on it. Others of the list above - duplicate IDs in `Start`
(`supervisor.go:166`), heartbeats behind a long task (`hubclient.go:128`), the numbers of the
back-off (`retry.go:171`) - are outside the instances or outside the models.

## 6. Not modelled

- Durations and their arithmetic: back-off, jitter, debounce. A delay may end at any time.
- Data without control: permission tables, credentials and API-key resolution, tool schemas, TOML and markdown syntax, the ranking of
  memories, usage counters, the text format of logs, pretty printing and the handlers of `internal/logging`.
- An external NATS server, and the plain-NATS inbox used without JetStream.
- The terminal interface, push delivery, slash commands that only answer, argument parsing and the forms of `zlaw ctl`.
- Vendored code, skills and example files.

What is left of the plan: the arithmetic of the back-off with its integer width; the registry composed with busy inbox loops.

## 7. How to run

    tlc -config Supervisor.cfg MCSupervisor.tla        # likewise the other .cfg files
    tlapm SupervisorProofs.tla                         # likewise the other proof modules

`CHECK_DEADLOCK FALSE` is set everywhere because each system may stop: the hub exits, the
clock reaches its bound, all calls have returned.
