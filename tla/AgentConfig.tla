----------------------------- MODULE AgentConfig -----------------------------
(***************************************************************************)
(* An agent's runtime.toml and its system prompt (src/internal/config/     *)
(* config.go, app/agent_serve.go).  runtime.toml is written by the tool    *)
(* configure, which then reloads it, and by the hub for agent.configure;   *)
(* the Loader watches it and the personality files (SOUL.md stands for     *)
(* them), which the user edits.  The Loader's mutex covers its cached      *)
(* personality, not the reads of the files nor the calls of onChange.      *)
(***************************************************************************)
EXTENDS Integers

CONSTANTS
  Writers,          \* the hub, and the concurrent calls of configure
  Models, Souls,    \* values of llm.model and texts of SOUL.md
  MaxWrites, MaxEdits, MaxStarts

NoModel == "" \* runtime.toml overrides nothing
NoSoul == ""
ToolCallers == Writers \ {"hub"}

VARIABLES
  toml, tomlTmp, tomlFd, \* runtime.toml and who writes it, as in AtomicFile
  soul,        \* SOUL.md on disk
  editing,     \* the text the user's editor is about to write, or "none"
  personality, \* Loader.personality
  prompt,      \* what onChange stored in promptPtr
  writer,      \* writer -> [step, model, soul]
  watcher,     \* [step, soul]
  watching,    \* Watch has added the directories
  notified,    \* an event the watcher has not taken
  unseen,      \* SOUL.md was edited when nothing watched, and no event came since
  lastModel,   \* the model of the last answer that said so
  writes, edits, starts,
  collided     \* two writers, or two reloads, at the same time

tomlVars == <<toml, tomlTmp, tomlFd>>
configVars ==
  <<tomlVars, soul, editing, personality, prompt, writer, watcher, watching, notified,
    unseen, lastModel, writes, edits, starts, collided>>

Toml == INSTANCE AtomicFile WITH
  Threads <- Writers, EmptyValue <- NoModel, file <- toml, tmp <- tomlTmp, fd <- tomlFd

IdleWriter == [step |-> "idle", model |-> NoModel, soul |-> NoSoul]
IdleWatcher == [step |-> "idle", soul |-> NoSoul]

ConfigInit ==
  /\ Toml!FileInit(NoModel)
  /\ soul = NoSoul /\ editing = "none"
  /\ personality = soul /\ prompt = soul
  /\ writer = [w \in Writers |-> IdleWriter] /\ watcher = IdleWatcher
  /\ watching = FALSE /\ notified = FALSE /\ unseen = FALSE /\ lastModel = NoModel
  /\ writes = 0 /\ edits = 0 /\ starts = 0 /\ collided = FALSE

Writing(w) == writer[w].step # "idle"
WriterGoes(w, step) == writer' = [writer EXCEPT ![w].step = step]
Reloads(w) == writer[w].step = "apply"

----------------------------------------------------------------------------
(* runtime.toml *)

\* The tool's WriteRuntimeField and the hub's WriteRuntimeFieldToDir: what is
\* there must parse, or the call fails.
WriteRuntimeField(w, model) ==
  /\ ~Writing(w) /\ writes < MaxWrites
  /\ writes' = writes + 1
  /\ collided' = (collided \/ \E v \in Writers : Writing(v))
  /\ writer' = IF toml.torn THEN writer
               ELSE [writer EXCEPT
                       ![w] = [step |-> "open", model |-> model, soul |-> NoSoul]]
  /\ UNCHANGED <<tomlVars, soul, editing, personality, prompt, watcher, watching,
                 notified, unseen, lastModel, edits, starts>>

OtherThanWriter ==
  UNCHANGED <<soul, editing, watcher, watching, unseen, writes, edits, starts>>

Opens(w) ==
  /\ writer[w].step = "open"
  /\ Toml!OpenTmp(w) /\ WriterGoes(w, "write")
  /\ UNCHANGED <<personality, prompt, notified, lastModel, collided>> /\ OtherThanWriter

Writes(w) ==
  /\ writer[w].step = "write"
  /\ Toml!WriteTmp(w, writer[w].model) /\ WriterGoes(w, "rename")
  /\ notified' = (notified \/ (watching /\ tomlFd[w] = "file"))
  /\ UNCHANGED <<personality, prompt, lastModel, collided>> /\ OtherThanWriter

\* The hub answers when the file is in place, the tool reloads first.
Renames(w) ==
  /\ writer[w].step = "rename"
  /\ IF Toml!CanRename
       THEN Toml!RenameTmp /\ notified' = (notified \/ watching)
       ELSE UNCHANGED <<tomlVars, notified>>
  /\ IF Toml!CanRename /\ w \in ToolCallers
       THEN WriterGoes(w, "reload")
       ELSE writer' = [writer EXCEPT ![w] = IdleWriter]
  /\ lastModel' = IF Toml!CanRename /\ w = "hub" THEN writer[w].model ELSE lastModel
  /\ UNCHANGED <<personality, prompt, collided>> /\ OtherThanWriter

\* ReloadRuntime takes the cached personality and reads runtime.toml; one that
\* does not parse is the call's error.
ReloadRuntime(w) ==
  /\ writer[w].step = "reload"
  /\ collided' = (collided \/ watcher.step # "idle" \/ \E v \in Writers : Reloads(v))
  /\ writer' = IF toml.torn THEN [writer EXCEPT ![w] = IdleWriter]
               ELSE [writer EXCEPT ![w].step = "apply", ![w].soul = personality]
  /\ UNCHANGED <<tomlVars, personality, prompt, notified, lastModel>> /\ OtherThanWriter

\* onChange stores the prompt; it does not look at the model.
ToolOnChange(w) ==
  /\ Reloads(w)
  /\ prompt' = writer[w].soul
  /\ lastModel' = writer[w].model
  /\ writer' = [writer EXCEPT ![w] = IdleWriter]
  /\ UNCHANGED <<tomlVars, personality, notified, collided>> /\ OtherThanWriter

WriterStep(w) ==
  \/ Opens(w) \/ Writes(w) \/ Renames(w)
  \/ ReloadRuntime(w) \/ ToolOnChange(w)

----------------------------------------------------------------------------
(* SOUL.md and the watcher *)

\* The user saves another text: the file is truncated, then written.
Edited(text) ==
  /\ soul' = text
  /\ IF watching THEN notified' = TRUE /\ UNCHANGED unseen
                 ELSE unseen' = TRUE /\ UNCHANGED notified
  /\ UNCHANGED <<tomlVars, personality, prompt, writer, watcher, watching, lastModel,
                 writes, starts, collided>>

EditorTruncates(text) ==
  /\ editing = "none" /\ edits < MaxEdits
  /\ edits' = edits + 1 /\ editing' = text
  /\ Edited(NoSoul)

EditorWrites ==
  /\ editing # "none"
  /\ editing' = "none"
  /\ Edited(editing) /\ UNCHANGED edits

OtherThanWatcher ==
  UNCHANGED <<tomlVars, soul, editing, writer, watching, lastModel, writes, edits, starts>>

\* ServeAgent loads the configuration first and starts to watch last: a change in
\* between raises no event.
StartsWatching ==
  /\ ~watching
  /\ watching' = TRUE
  /\ UNCHANGED <<tomlVars, soul, editing, personality, prompt, writer, watcher, notified,
                 unseen, lastModel, writes, edits, starts, collided>>

\* Watch takes an event; Load reads the personality first.
Watch ==
  /\ notified /\ watcher.step = "idle"
  /\ notified' = FALSE /\ unseen' = FALSE
  /\ watcher' = [step |-> "load", soul |-> soul]
  /\ collided' = (collided \/ \E w \in Writers : Reloads(w))
  /\ UNCHANGED <<personality, prompt>> /\ OtherThanWatcher

\* Mutant of LoadConfig: what was read is not kept for ReloadRuntime.
LoadUncached ==
  /\ watcher.step = "load"
  /\ watcher' = IF toml.torn THEN IdleWatcher ELSE [watcher EXCEPT !.step = "apply"]
  /\ UNCHANGED <<personality, prompt, notified, unseen, collided>> /\ OtherThanWatcher

\* Then runtime.toml; if that fails, nothing is reloaded, the prompt neither.
LoadConfig ==
  /\ watcher.step = "load"
  /\ IF toml.torn
     THEN watcher' = IdleWatcher /\ UNCHANGED personality
     ELSE watcher' = [watcher EXCEPT !.step = "apply"] /\ personality' = watcher.soul
  /\ UNCHANGED <<prompt, notified, unseen, collided>> /\ OtherThanWatcher

WatcherOnChange ==
  /\ watcher.step = "apply"
  /\ prompt' = watcher.soul
  /\ watcher' = IdleWatcher
  /\ UNCHANGED <<personality, notified, unseen, collided>> /\ OtherThanWatcher

\* The agent, not the hub, dies and starts again; it does not start with a
\* runtime.toml that is torn.
StartsAgain ==
  /\ starts < MaxStarts /\ ~toml.torn
  /\ starts' = starts + 1
  /\ Toml!Die(ToolCallers)
  /\ writer' = [w \in Writers |-> IF w = "hub" THEN writer[w] ELSE IdleWriter]
  /\ watcher' = IdleWatcher /\ watching' = FALSE /\ notified' = FALSE /\ unseen' = FALSE
  /\ personality' = soul /\ prompt' = soul
  /\ lastModel' = IF \E w \in ToolCallers : Writing(w) THEN toml.value ELSE lastModel
  /\ UNCHANGED <<soul, editing, writes, edits, collided>>

----------------------------------------------------------------------------

ConfigNext ==
  \/ \E w \in Writers :
       WriterStep(w) \/ \E model \in Models : WriteRuntimeField(w, model)
  \/ EditorWrites \/ \E text \in Souls : EditorTruncates(text)
  \/ StartsWatching \/ Watch \/ LoadConfig \/ WatcherOnChange
  \/ StartsAgain

ConfigSpec == ConfigInit /\ [][ConfigNext]_configVars

----------------------------------------------------------------------------
(* Properties *)

\* The variables have their types; only a writer between its open and its write
\* has a descriptor.
ConfigTypeOK ==
  /\ toml.value \in Models \union {NoModel}
  /\ {soul, personality, prompt} \subseteq Souls \union {NoSoul}
  /\ editing \in Souls \union {"none"}
  /\ \A w \in Writers : tomlFd[w] # "none" <=> writer[w].step = "write"
  /\ watcher.step \in {"idle", "load", "apply"}
  /\ lastModel \in Models \union {NoModel}

AllIdle == \A w \in Writers : ~Writing(w)
ConfigQuiet == ~notified /\ editing = "none" /\ watcher.step = "idle" /\ AllIdle

\* As long as writers come one after the other and no tool reloads while the
\* watcher does: runtime.toml always parses and holds the model last answered,
\* and when everything has come to rest the prompt is the SOUL.md on disk,
\* however the events fell, whichever reload came last, unless the edit fell
\* between the start's Load and its Watch.
PromptFollowsFiles ==
  ~collided =>
    /\ ~toml.torn
    /\ AllIdle => toml.value = lastModel
    /\ ConfigQuiet /\ ~unseen => prompt = soul
=============================================================================
