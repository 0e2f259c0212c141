-------------------------- MODULE ContextOptimizer --------------------------
(***************************************************************************)
(* What an agent sends to the model instead of its whole history           *)
(* (src/internal/agent/optimizer.go, prune.go).                            *)
(*                                                                         *)
(* A message is a record: its kind, the turn it belongs to, and the sizes  *)
(* of its thinking block and of the rest, in tokens.  An assistant message *)
(* of kind "call" holds tool calls, the "tool" message after it holds      *)
(* their results.                                                          *)
(***************************************************************************)
EXTENDS Subsequences, SequencesExt

CONSTANTS
  Budget,         \* TokenBudget; 0 disables everything
  SummarizeAt,    \* TokenBudget * SummarizeThreshold; 0: no summarizer
  SummarizeTurns, \* turns collapsed by one summary
  PruneLevels     \* the configured levels, in order

\* Budgets are numbers, and a summary takes in a turn at least.
ASSUME OptimizerAssumption ==
  /\ Budget \in Nat /\ SummarizeAt \in Nat
  /\ SummarizeTurns \in Nat \ {0}
  /\ PruneLevels \in Seq({"strip_thinking", "strip_tool_results", "drop_pairs"})

Message(kind, turn, thinking, body) ==
  [kind |-> kind, turn |-> turn, thinking |-> thinking, body |-> body]

IsUser(m) == m.kind = "user"
Summary == Message("summary", 0, 0, 1)

EstimateTokens(msgs) ==
  LET sum[n \in 0..Len(msgs)] ==
        IF n = 0 THEN 0 ELSE sum[n - 1] + msgs[n].thinking + msgs[n].body
  IN sum[Len(msgs)]

\* Where the turns of msgs begin; messages before the first user message are a
\* turn of their own.
Indices(msgs) == [i \in DOMAIN msgs |-> i]
UserStarts(msgs) == Picked(Indices(msgs), {i \in DOMAIN msgs : IsUser(msgs[i])})
TurnStarts(msgs) == Picked(Indices(msgs), {i \in DOMAIN msgs : i = 1 \/ IsUser(msgs[i])})
lastTurnStart(msgs) ==
  LET starts == UserStarts(msgs) IN IF starts = <<>> THEN 1 ELSE Last(starts)

From(msgs, i) == SubSeq(msgs, i, Len(msgs))

\* Both strippers leave the most recent turn alone.
StripThinking(msgs) ==
  LET last == lastTurnStart(msgs)
  IN [i \in DOMAIN msgs |-> IF i < last THEN [msgs[i] EXCEPT !.thinking = 0] ELSE msgs[i]]

StripToolResults(msgs) ==
  LET last == lastTurnStart(msgs)
  IN [i \in DOMAIN msgs |-> IF i < last /\ msgs[i].kind = "tool"
                            THEN [msgs[i] EXCEPT !.body = 0] ELSE msgs[i]]

\* Mutant of PruneMessages: messages are dropped one by one.
PruneOneByOne(msgs) ==
  LET fits(k) == EstimateTokens(From(msgs, k)) <= Budget
      first == CHOOSE k \in 1..Len(msgs) :
                 /\ fits(k) \/ k = lastTurnStart(msgs)
                 /\ \A j \in 1..(k - 1) : ~fits(j) /\ j # lastTurnStart(msgs)
  IN From(msgs, first)

\* Drop oldest turns until the rest fits or is the last turn.
PruneMessages(msgs) ==
  LET starts == UserStarts(msgs)
      rest(k) == IF k = 1 THEN msgs ELSE From(msgs, starts[k])
      enough(k) == EstimateTokens(rest(k)) <= Budget \/ k = Len(starts)
      k == CHOOSE k \in DOMAIN starts : enough(k) /\ \A j \in 1..(k - 1) : ~enough(j)
  IN IF Budget <= 0 \/ Len(starts) <= 1 THEN msgs ELSE rest(k)

ApplyLevel(level, msgs) ==
  CASE level = "strip_thinking" -> StripThinking(msgs)
    [] level = "strip_tool_results" -> StripToolResults(msgs)
    [] OTHER -> PruneMessages(msgs)

Levels == IF PruneLevels = <<>> THEN <<"drop_pairs">> ELSE PruneLevels

\* Each level only if the levels before it were not enough.
applyPruneLevels(msgs) ==
  LET after[n \in 0..Len(Levels)] ==
        IF n = 0 THEN msgs
        ELSE IF EstimateTokens(after[n - 1]) <= Budget THEN after[n - 1]
        ELSE ApplyLevel(Levels[n], after[n - 1])
  IN after[Len(Levels)]

\* The oldest turns become one message; the current turn never does.
summarizeTurns(msgs) ==
  LET starts == TurnStarts(msgs)
      n == IF SummarizeTurns >= Len(starts) THEN Len(starts) - 1 ELSE SummarizeTurns
  IN IF Len(starts) <= 1 THEN msgs ELSE <<Summary>> \o From(msgs, starts[n + 1])

\* known: the input tokens of the last response, 0 before the first one.
\* summarizes: the summarizer's own model call succeeds.
Optimize(msgs, known, summarizes) ==
  LET est == IF known > 0 THEN known ELSE EstimateTokens(msgs)
      trySummary == SummarizeAt > 0 /\ est > SummarizeAt /\ summarizes
      shorter == IF trySummary THEN summarizeTurns(msgs) ELSE msgs
      est2 == IF trySummary THEN EstimateTokens(shorter) ELSE est
  IN IF Budget <= 0 \/ est <= Budget THEN msgs
     ELSE IF est2 > Budget THEN applyPruneLevels(shorter) ELSE shorter
=============================================================================
