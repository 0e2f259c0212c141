------------------------------ MODULE AgentLoop ------------------------------
(***************************************************************************)
(* One session of an agent: the ReAct loop of a turn (src/internal/agent/  *)
(* agent.go) over the session's history, which is a cache in memory        *)
(* (history.go) and a JSONL log with a metadata file on disk (store.go).   *)
(* Turns of a session come one at a time; /clear comes from another        *)
(* goroutine, at any moment.  History's methods hold its mutex, except     *)
(* RecordUsage, whose read and write of the metadata are steps of their    *)
(* own.  The process may die anywhere and be started again.                *)
(***************************************************************************)
EXTENDS RequestFormats

CONSTANTS
  maxIterations, \* model calls in one turn (20 in the code)
  Usages,        \* input token counts the model may report
  MaxRuns,       \* bounds on what the environment does
  MaxClears,
  MaxCrashes

\* A turn calls the model at least once; bounds are numbers.
ASSUME LoopAssumption ==
  /\ maxIterations \in Nat \ {0}
  /\ Usages \subseteq Nat
  /\ MaxRuns \in Nat /\ MaxClears \in Nat /\ MaxCrashes \in Nat

VARIABLES
  cache, loaded, \* History.cache and History.loaded of the session
  log, torn,     \* the JSONL file, and whether its last line is incomplete
  count,         \* MessageCount of the metadata file, 0 if there is none
  archived,      \* the archived logs, oldest first
  pc,            \* the turn: "idle", "get", "llm", "tools" or "usage"
  turn,          \* number of the current or last turn
  iteration,     \* model calls of this turn so far
  known,         \* lastInputTokens
  context,       \* messages of the last request
  usage,         \* metadata count RecordUsage has read
  answered,      \* turns that returned a text
  clears, crashes,
  clearedIn,     \* the turns during which a /clear came
  overwritten,   \* an archive replaced one of the same second
  miscounted     \* the metadata's count may be off, see CountMatchesLog

historyVars == <<cache, loaded, log, torn, count, archived>>
turnVars == <<pc, turn, iteration, known, context, usage, answered>>
faultVars == <<clears, crashes, clearedIn, overwritten, miscounted>>
loopVars == <<historyVars, turnVars, faultVars>>

LoopInit ==
  /\ cache = <<>> /\ loaded = FALSE
  /\ log = <<>> /\ torn = FALSE
  /\ count = 0
  /\ archived = <<>>
  /\ pc = "idle" /\ turn = 0 /\ iteration = 0 /\ known = 0
  /\ context = <<>>
  /\ usage = 0
  /\ answered = {}
  /\ clears = 0 /\ crashes = 0 /\ clearedIn = {}
  /\ overwritten = FALSE /\ miscounted = FALSE

----------------------------------------------------------------------------
(* History *)

\* A line appended after an incomplete one makes that line longer, not whole.
HistoryAppend(m) ==
  /\ cache' = Append(cache, m)
  /\ log' = Append(log, m)
  /\ count' = count + 1
  /\ UNCHANGED <<loaded, torn, archived>>

\* Store.Load fails on an incomplete line, and the history starts empty.
StoreLoad == IF torn THEN <<>> ELSE log

\* What Get returns.
Messages == IF loaded THEN cache ELSE StoreLoad \o cache

\* Mutant of HistoryGet: every call loads the log.
HistoryGetReloads ==
  /\ cache' = StoreLoad \o cache
  /\ loaded' = TRUE
  /\ UNCHANGED <<log, torn, count, archived>>

\* The first Get puts what the log holds before what the cache holds.
HistoryGet ==
  /\ cache' = Messages
  /\ loaded' = TRUE
  /\ UNCHANGED <<log, torn, count, archived>>

\* Store.Archive.  The archive's name has a time stamp in seconds: two archives
\* of one second are one file.
Archive(sameSecond) ==
  /\ log' = <<>> /\ torn' = FALSE
  /\ archived' = IF log = <<>> THEN archived
                 ELSE IF sameSecond THEN Append(Front(archived), log)
                 ELSE Append(archived, log)
  /\ overwritten' = (overwritten \/ (sameSecond /\ log # <<>>))

HistoryClear ==
  /\ cache' = <<>>
  /\ loaded' = TRUE
  /\ count' = 0

----------------------------------------------------------------------------
(* A turn *)

\* run: the user's message is appended before the history is first read.
RunBegins ==
  /\ pc = "idle" /\ turn < MaxRuns
  /\ turn' = turn + 1
  /\ HistoryAppend(Message("user", turn', 0, 1))
  /\ pc' = "get"
  /\ iteration' = 0 /\ known' = 0
  /\ UNCHANGED <<context, usage, answered, faultVars>>

SendRequest ==
  /\ pc = "get"
  /\ HistoryGet
  /\ \E summarizes \in BOOLEAN : context' = Optimize(Messages, known, summarizes)
  /\ pc' = "llm"
  /\ iteration' = iteration + 1
  /\ UNCHANGED <<turn, known, usage, answered, faultVars>>

\* The model call fails, or the turn's context is cancelled.
LLMError ==
  /\ pc = "llm"
  /\ pc' = "idle"
  /\ UNCHANGED <<historyVars, turn, iteration, known, context, usage, answered, faultVars>>

\* What the model answers: a text, tool calls, or something cut off, which is
\* appended before its stop reason fails the turn.
Responses == {Message("text", turn, 1, 1), Message("call", turn, 1, 1), Message("cut", turn, 1, 0)}

LLMResponds ==
  /\ pc = "llm"
  /\ \E r \in Responses, tokens \in Usages :
       /\ HistoryAppend(r)
       /\ known' = tokens
       /\ pc' = CASE r.kind = "text" -> "usage" [] r.kind = "call" -> "tools" [] OTHER -> "idle"
       /\ answered' = IF r.kind = "text" THEN answered \union {turn} ELSE answered
       /\ usage' = IF r.kind = "text" THEN count' ELSE usage
  /\ UNCHANGED <<turn, iteration, context, faultVars>>

\* RecordUsage's second half writes back the metadata it read.
RecordUsage ==
  /\ pc = "usage"
  /\ count' = usage
  /\ pc' = "idle"
  /\ UNCHANGED <<cache, loaded, log, torn, archived,
                 turn, iteration, known, context, usage, answered, faultVars>>

\* Mutant of ToolsReturn: the loop has no bound.
ToolsReturnForever ==
  /\ pc = "tools"
  /\ HistoryAppend(Message("tool", turn, 0, 2))
  /\ pc' = "get"
  /\ UNCHANGED <<turn, iteration, known, context, usage, answered, faultVars>>

\* ExecuteAll returned a result for every call; after maxIterations model calls
\* the turn fails.
ToolsReturn ==
  /\ pc = "tools"
  /\ HistoryAppend(Message("tool", turn, 0, 2))
  /\ pc' = IF iteration = maxIterations THEN "idle" ELSE "get"
  /\ UNCHANGED <<turn, iteration, known, context, usage, answered, faultVars>>

----------------------------------------------------------------------------
(* The environment *)

\* /clear, also in the middle of a turn.
Clear ==
  /\ clears < MaxClears
  /\ HistoryClear
  /\ \E sameSecond \in IF archived = <<>> THEN {FALSE} ELSE BOOLEAN : Archive(sameSecond)
  /\ clears' = clears + 1
  /\ clearedIn' = IF pc = "idle" THEN clearedIn ELSE clearedIn \union {turn}
  /\ miscounted' = (pc = "usage")
  /\ UNCHANGED <<turnVars, crashes>>

\* Messages the process may be appending when it dies.
InProgress == CASE pc = "llm" -> Responses
                [] pc = "tools" -> {Message("tool", turn, 0, 2)}
                [] OTHER -> {}

\* The process dies, maybe inside an append: the line is then incomplete, or
\* complete and not yet counted.
Crash ==
  /\ crashes < MaxCrashes
  /\ crashes' = crashes + 1
  /\ cache' = <<>> /\ loaded' = FALSE
  /\ pc' = "idle"
  /\ \/ UNCHANGED <<log, torn, miscounted>>
     \/ /\ pc \in {"llm", "tools"}
        /\ torn' = TRUE
        /\ UNCHANGED <<log, miscounted>>
     \/ \E m \in InProgress :
          /\ log' = Append(log, m)
          /\ miscounted' = TRUE
          /\ UNCHANGED torn
  /\ UNCHANGED <<count, archived, turn, iteration, known, context, usage, answered,
                 clears, clearedIn, overwritten>>

LoopNext ==
  \/ RunBegins \/ SendRequest \/ LLMError \/ LLMResponds \/ RecordUsage \/ ToolsReturn
  \/ Clear \/ Crash

LoopSpec == LoopInit /\ [][LoopNext]_loopVars

\* A turn does not stop where it is: the model and the tools answer or fail in
\* the end (both have timeouts).
Phases == {"idle", "get", "llm", "tools", "usage"}
TurnGoesOn == pc # "idle" /\ pc' \in Phases \ {pc}
FairLoopSpec == LoopSpec /\ WF_pc(TurnGoesOn)

----------------------------------------------------------------------------
(* Properties *)

Kinds == {"user", "call", "tool", "text", "cut", "summary"}
AnyMessage == [kind : Kinds, turn : 0..MaxRuns, thinking : 0..1, body : 0..2]

\* The variables have their types.
LoopTypeOK ==
  /\ \A msgs \in {cache, log, context} \union Range(archived) : msgs \in Seq(AnyMessage)
  /\ loaded \in BOOLEAN /\ torn \in BOOLEAN
  /\ overwritten \in BOOLEAN /\ miscounted \in BOOLEAN
  /\ pc \in Phases
  /\ turn \in 0..MaxRuns /\ answered \subseteq 1..turn /\ clearedIn \subseteq 1..turn
  /\ iteration \in 0..maxIterations
  /\ count \in Nat /\ usage \in Nat /\ known \in Usages \union {0}
  /\ clears \in 0..MaxClears /\ crashes \in 0..MaxCrashes

\* What the process believes of the session is what the log says, over
\* restarts and clears, but for one message: a session's first Get merges the
\* log, which the turn's user message is already in, with a cache that holds it
\* too, and so repeats it (the merge "shouldn't happen", history.go:122).
CacheIsLog ==
  loaded /\ ~torn =>
    \/ cache = log
    \/ \E i \in DOMAIN cache : RemoveAt(cache, i) = log

\* Whatever summarizing and pruning drop, the model is sent the current turn
\* whole, as the log has it, unless /clear came in the middle of it.
CurrentTurnKept ==
  pc = "llm" /\ turn \notin clearedIn => IsSuffix(From(log, lastTurnStart(log)), context)

\* Tool results are sent right after the calls they answer, in the format of
\* either API: no cut of the history, no crash and no restart separates them;
\* only /clear does, for a turn it came in.
ResultsFollowCalls == pc = "llm" => ResultsFollow(context, clearedIn)

\* When the history is found to be over budget and one of the levels drops whole
\* turns, what is sent fits the budget or has at most one user message.
DropsTurns == \E k \in DOMAIN Levels : Levels[k] = "drop_pairs"
OverBudgetIsCut ==
  /\ pc = "llm" /\ Budget > 0 /\ DropsTurns
  /\ (IF known > 0 THEN known ELSE EstimateTokens(cache)) > Budget
  => EstimateTokens(context) <= Budget \/ Len(UserStarts(context)) <= 1

\* An answered turn's text is in the log or an archive, also after a crash,
\* unless a second /clear came within the second of the one before.
AnsweredIsLogged ==
  ~overwritten =>
    \A t \in answered :
      \E msgs \in {log} \union Range(archived) :
        \E i \in DOMAIN msgs : msgs[i].kind = "text" /\ msgs[i].turn = t

\* The metadata counts the log's messages, except after a crash between the two
\* writes, or a /clear between RecordUsage's read and write.
CountMatchesLog == ~miscounted => count = Len(log)

\* The three copies of a session agree, over clears, crashes and restarts: cache,
\* log and metadata; and no answer given is missing from the log.
HistoryKept == CacheIsLog /\ AnsweredIsLogged /\ CountMatchesLog

\* The optimizer cuts what it must and leaves what it must: the current turn is
\* sent whole, and a history over budget is cut down to it if need be.
CutKeepsTurn == CurrentTurnKept /\ OverBudgetIsCut

\* Whatever is cut or crashes, a request holds the current turn whole, fits the
\* budget if it can, and has tool results only right after their calls, in either
\* API's format.
LoopRequestsSound == CutKeepsTurn /\ ResultsFollowCalls

\* A turn ends: with an answer, an error, or after maxIterations model calls.
TurnsEnd == pc # "idle" ~> pc = "idle"
=============================================================================
