----------------------------- MODULE MemoryStore -----------------------------
(***************************************************************************)
(* An agent's long-term memories: one markdown file each (src/internal/    *)
(* agent/memory.go) and the vector index over them (memory_semantic.go),   *)
(* used by the tools memory_save and memory_delete (tools/builtin/         *)
(* memory.go), whose calls of one model response run concurrently without  *)
(* a lock.  The index persists like the files; NewSemanticMemoryStore      *)
(* brings it up to date when the agent starts, and when that fails         *)
(* buildMemoryStore (app/agent_run.go) goes on without it.                 *)
(***************************************************************************)
EXTENDS Integers, FiniteSets

CONSTANTS
  Ids, Bodies, \* the memories' IDs and texts
  ToolCalls,   \* concurrent tool calls
  MaxToolCalls, MaxRestarts \* bounds on tool calls and on restarts

NoFile == "no file"
Truncated == "empty"  \* truncated: parseMemoryFile refuses it
Mixed == "mixed"  \* two writes over each other
NoEntry == "no entry"
Unknown == "unknown"

Texts == Bodies \union {Mixed}

\* The marks for what is no memory's text are no texts.
ASSUME MemoryAssumption ==
  /\ Bodies \cap {NoFile, Truncated, Mixed, NoEntry, Unknown} = {}
  /\ MaxToolCalls \in Nat /\ MaxRestarts \in Nat

VARIABLES
  files,    \* id -> the text of <id>.md, NoFile or Empty
  index,    \* id -> the text whose hash and embedding the index has, or NoEntry
  store,    \* "rebuilding", "semantic" or "markdown"
  call,     \* call -> [step, id, text, unlinked]
  toolCalls, restarts,
  told, \* id -> what the last answer says of it, or Unknown
  unembedded, \* ids whose last embedding failed
  raced     \* ids two calls have worked on at the same time

memoryVars == <<files, index, store, call, toolCalls, restarts, told, unembedded, raced>>

Idle == [step |-> "idle", id |-> "none", text |-> "none", unlinked |-> FALSE]
Works(c, id) == call[c].step # "idle" /\ call[c].id = id

\* The agent starts with any memories; some were edited since they were indexed.
MemoryInit ==
  /\ files \in [Ids -> Bodies \union {NoFile}]
  /\ index \in [Ids -> Bodies \union {NoEntry}]
  /\ store = "rebuilding"
  /\ call = [c \in ToolCalls |-> Idle]
  /\ toolCalls = 0 /\ restarts = 0
  /\ told = files
  /\ unembedded = {} /\ raced = {}

MovesTo(c, step) == call' = [call EXCEPT ![c].step = step]
OnDisk == {id \in Ids : files[id] # NoFile}

----------------------------------------------------------------------------
(* Starting *)

\* Mutant of Stale: an entry is enough, whatever text it was made from.
StaleIfMissing == {id \in OnDisk : index[id] = NoEntry}

Stale == {id \in OnDisk : index[id] # files[id]}

\* List fails on the first file that does not parse, and the store with it.
rebuildIndex ==
  /\ store = "rebuilding"
  /\ IF \E id \in Ids : files[id] = Truncated THEN store' = "markdown"
                                          ELSE Stale = {} /\ store' = "semantic"
  /\ UNCHANGED <<files, index, call, toolCalls, restarts, told, unembedded, raced>>

\* upsertIndex for one file; without its embedding the store is given up.
rebuildEntry(id) ==
  /\ store = "rebuilding" /\ \A other \in Ids : files[other] # Truncated
  /\ id \in Stale
  /\ \/ index' = [index EXCEPT ![id] = files[id]] /\ UNCHANGED store
     \/ index' = [index EXCEPT ![id] = NoEntry] /\ store' = "markdown"
  /\ UNCHANGED <<files, call, toolCalls, restarts, told, unembedded, raced>>

----------------------------------------------------------------------------
(* The tools *)

Begins(c, step, id, text) ==
  /\ store # "rebuilding" /\ call[c] = Idle /\ toolCalls < MaxToolCalls
  /\ toolCalls' = toolCalls + 1
  /\ call' = [call EXCEPT ![c] = [Idle EXCEPT !.step = step, !.id = id, !.text = text]]
  /\ told' = [told EXCEPT ![id] = Unknown]
  /\ raced' = IF \E d \in ToolCalls : Works(d, id) THEN raced \union {id} ELSE raced
  /\ UNCHANGED <<files, index, store, restarts, unembedded>>

MemorySave(c, id, text) == Begins(c, "open", id, text)
MemoryDelete(c, id) == Begins(c, "remove", id, NoFile)

\* The answer of a call: a success promises what the call was about.
Answers(c, ok) ==
  /\ call' = [call EXCEPT ![c] = Idle]
  /\ told' = IF ok THEN [told EXCEPT ![call[c].id] = call[c].text] ELSE told

\* MarkdownFileStore.Save: os.WriteFile truncates, then writes.
SaveOpens(c) ==
  /\ call[c].step = "open"
  /\ files' = [files EXCEPT ![call[c].id] = Truncated]
  /\ MovesTo(c, "write")
  /\ UNCHANGED <<index, store, toolCalls, restarts, told, unembedded, raced>>

SaveWrites(c) ==
  LET id == call[c].id IN
  /\ call[c].step = "write"
  /\ \E text \in IF files[id] \in {Truncated, NoFile} THEN {call[c].text}
                 ELSE {call[c].text, Mixed} :
       files' = IF call[c].unlinked THEN files ELSE [files EXCEPT ![id] = text]
  /\ IF store = "markdown" THEN Answers(c, TRUE)
                           ELSE MovesTo(c, "load") /\ UNCHANGED told
  /\ UNCHANGED <<index, store, toolCalls, restarts, unembedded, raced>>

\* What is indexed is what the file holds now.
Load(c) ==
  LET text == files[call[c].id] IN
  /\ call[c].step = "load"
  /\ IF text \in {NoFile, Truncated} THEN Answers(c, FALSE)
     ELSE call' = [call EXCEPT ![c] = [@ EXCEPT !.step = "drop entry", !.text = text]]
          /\ UNCHANGED told
  /\ UNCHANGED <<files, index, store, toolCalls, restarts, unembedded, raced>>

\* upsertIndex: the old entry goes, then the text is embedded and added.
DropEntry(c) ==
  /\ call[c].step = "drop entry"
  /\ index' = [index EXCEPT ![call[c].id] = NoEntry]
  /\ MovesTo(c, "add entry")
  /\ UNCHANGED <<files, store, toolCalls, restarts, told, unembedded, raced>>

\* A failed embedding is the call's error; the file stays.
AddDocument(c) ==
  LET id == call[c].id IN
  /\ call[c].step = "add entry"
  /\ \/ /\ index' = [index EXCEPT ![id] = call[c].text]
        /\ unembedded' = unembedded \ {id}
        /\ Answers(c, TRUE)
     \/ /\ unembedded' = unembedded \union {id}
        /\ Answers(c, FALSE)
        /\ UNCHANGED index
  /\ UNCHANGED <<files, store, toolCalls, restarts, raced>>

\* A file that is not there is as good as removed.  A descriptor that is open for
\* writing loses its name.
Removes(c) ==
  LET id == call[c].id
      After == IF store = "markdown" THEN Idle ELSE [call[c] EXCEPT !.step = "forget"]
  IN
  /\ call[c].step = "remove"
  /\ files' = [files EXCEPT ![id] = NoFile]
  /\ call' = [d \in ToolCalls |->
       IF d = c THEN After
       ELSE IF Works(d, id) /\ call[d].step = "write" THEN [call[d] EXCEPT !.unlinked = TRUE]
       ELSE call[d]]
  /\ told' = IF store = "markdown" THEN [told EXCEPT ![id] = NoFile] ELSE told
  /\ UNCHANGED <<index, store, toolCalls, restarts, unembedded, raced>>

Forgets(c) ==
  /\ call[c].step = "forget"
  /\ index' = [index EXCEPT ![call[c].id] = NoEntry]
  /\ unembedded' = unembedded \ {call[c].id}
  /\ Answers(c, TRUE)
  /\ UNCHANGED <<files, store, toolCalls, restarts, raced>>

MemoryStep(c) ==
  \/ SaveOpens(c) \/ SaveWrites(c) \/ Load(c) \/ DropEntry(c) \/ AddDocument(c)
  \/ Removes(c) \/ Forgets(c)

----------------------------------------------------------------------------

\* The agent dies and is started again; files and index stay.
StoreRestarts ==
  /\ restarts < MaxRestarts
  /\ restarts' = restarts + 1
  /\ store' = "rebuilding"
  /\ call' = [c \in ToolCalls |-> Idle]
  /\ unembedded' = {}
  /\ UNCHANGED <<files, index, toolCalls, told, raced>>

MemoryNext ==
  \/ rebuildIndex \/ \E id \in Ids : rebuildEntry(id)
  \/ \E c \in ToolCalls, id \in Ids :
       MemoryDelete(c, id) \/ \E text \in Bodies : MemorySave(c, id, text)
  \/ \E c \in ToolCalls : MemoryStep(c)
  \/ StoreRestarts

MemorySpec == MemoryInit /\ [][MemoryNext]_memoryVars

----------------------------------------------------------------------------
(* Properties *)

Steps == {"idle", "open", "write", "load", "drop entry", "add entry", "remove", "forget"}

\* The variables have their types, and without an index no call works on one.
MemoryTypeOK ==
  /\ files \in [Ids -> Texts \union {NoFile, Truncated}]
  /\ index \in [Ids -> Texts \union {NoEntry}]
  /\ store \in {"rebuilding", "semantic", "markdown"}
  /\ toolCalls \in 0..MaxToolCalls /\ restarts \in 0..MaxRestarts
  /\ told \in [Ids -> Bodies \union {NoFile, Unknown, Mixed}]
  /\ unembedded \subseteq Ids /\ raced \subseteq Ids
  /\ \A c \in ToolCalls : call[c].step \in Steps
  /\ \A c \in ToolCalls : store = "rebuilding" => call[c] = Idle
  /\ \A c \in ToolCalls : store = "markdown" => call[c].step \in {"idle", "open", "write", "remove"}

\* A memory that no two calls worked on at once is on disk as the last answer
\* said, after any crash; and a search finds it by the text it has, in a store
\* that is semantic: the index follows every save, and starting again repairs
\* what a crash, a failed embedding or a time without the index left behind.
MemoriesKept ==
  \A id \in Ids \ raced :
    /\ told[id] # Unknown => files[id] = told[id]
    /\ store = "semantic" /\ id \in OnDisk \ unembedded /\ (\A c \in ToolCalls : ~Works(c, id)) =>
         index[id] = files[id]
=============================================================================
