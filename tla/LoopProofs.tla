----------------------------- MODULE LoopProofs -----------------------------
(***************************************************************************)
(* Proofs about an agent's loop: the history of a session and the requests *)
(* made of it (AgentLoop), for any numbers of turns, model calls, clears   *)
(* and crashes and any settings of the optimizer; and each call of the     *)
(* model (LLMCall), for any retry budgets and any answers of the server.   *)
(***************************************************************************)
EXTENDS AgentLoop, LLMCall, SequenceLemmas

----------------------------------------------------------------------------
(* What the optimizer sends *)

\* p lists the positions of I up to n, in their order.
Ascends(p, I, n) ==
  /\ p \in Seq(Nat)
  /\ \A j \in 1..Len(p) : p[j] \in 1..n /\ p[j] \in I
  /\ \A j, k \in 1..Len(p) : j < k => p[j] < p[k]
  /\ \A i \in 1..n : i \in I => \E j \in 1..Len(p) : p[j] = i

\* The picked positions of a sequence, in their order.
LEMMA PositionsAscend ==
  ASSUME NEW S, NEW s \in Seq(S), NEW I
  PROVE  Ascends(Picked(Indices(s), I), I, Len(s))
<1> DEFINE x == Indices(s)
           n == Len(s)
           p == Picked(x, I)
<1>1. n \in Nat /\ x \in Seq(Nat) /\ Len(x) = n /\ \A i \in 1..n : x[i] = i
  <2>1. DOMAIN s = 1..n /\ n \in Nat
    OBVIOUS
  <2>2. x = [i \in 1..n |-> i]
    BY <2>1 DEF Indices
  <2> HIDE DEF x, n
  <2>3. x \in [1..n -> Nat]
    BY <2>1, <2>2
  <2> QED
    BY <2>1, <2>2, <2>3, SeqDef, LenProperties
<1> HIDE DEF x, n
<1>2. p \in Seq(Nat) /\ Selects(p, x, I)
  BY <1>1, PickedFacts
<1> HIDE DEF p
<1>3. Len(p) \in Nat
  BY <1>2
<1>4. ASSUME NEW j \in 1..Len(p) PROVE p[j] \in 1..n /\ p[j] \in I
  <2>1. PICK i \in 1..n : i \in I /\ p[j] = x[i]
    BY <1>1, <1>2 DEF Selects
  <2> QED
    BY <1>1, <2>1
<1>5. ASSUME NEW j \in 1..Len(p), NEW k \in 1..Len(p), j < k PROVE p[j] < p[k]
  <2>1. PICK h \in 1..n, i \in 1..n : h < i /\ p[j] = x[h] /\ p[k] = x[i]
    BY <1>1, <1>2, <1>5 DEF Selects
  <2> QED
    BY <1>1, <2>1
<1>6. ASSUME NEW i \in 1..n, i \in I PROVE \E j \in 1..Len(p) : p[j] = i
  <2>1. \E j \in 1..Len(p) : p[j] = x[i]
    BY <1>1, <1>2, <1>6 DEF Selects
  <2> QED
    BY <1>1, <2>1
<1>7. Ascends(p, I, n)
  BY <1>2, <1>4, <1>5, <1>6 DEF Ascends
<1> QED
  BY <1>7 DEF p, x, n

\* The places of the user's messages.
Users(msgs) == {i \in 1..Len(msgs) : IsUser(msgs[i])}

LEMMA StartsAscend ==
  ASSUME NEW msgs \in Seq(AnyMessage)
  PROVE  /\ Ascends(UserStarts(msgs), Users(msgs), Len(msgs))
         /\ Ascends(TurnStarts(msgs), {i \in 1..Len(msgs) : i = 1
               \/ IsUser(msgs[i])}, Len(msgs))
<1>1. DOMAIN msgs = 1..Len(msgs)
  OBVIOUS
<1>2. /\ UserStarts(msgs) = Picked(Indices(msgs), Users(msgs))
      /\ TurnStarts(msgs) = Picked(Indices(msgs), {i \in 1..Len(msgs) : i = 1
            \/ IsUser(msgs[i])})
  BY <1>1 DEF UserStarts, TurnStarts, Users
<1> QED
  BY <1>2, PositionsAscend

\* The last n messages of msgs are those of a turn.
HasTurn(msgs, n) ==
  /\ n \in 1..Len(msgs) /\ IsUser(msgs[Len(msgs) - n + 1])
  /\ \A i \in (Len(msgs) - n + 2)..Len(msgs) : ~IsUser(msgs[i])

\* The last turn starts where its messages do.
LEMMA LastStart ==
  ASSUME NEW msgs \in Seq(AnyMessage), NEW n, HasTurn(msgs, n)
  PROVE  lastTurnStart(msgs) = Len(msgs) - n + 1
<1> DEFINE u == UserStarts(msgs)
           m == Len(msgs)
           I == Users(msgs)
           l == m - n + 1
<1>1. Ascends(u, I, m)
  BY StartsAscend
<1>2. m \in Nat /\ n \in 1..m /\ l \in 1..m /\ l \in I
  BY DEF HasTurn, Users
<1>3. \A i \in I : i <= l
  <2>1. \A i \in (m - n + 2)..m : i \notin I
    BY DEF HasTurn, Users
  <2>2. \A i \in I : i \in 1..m
    BY DEF Users
  <2> HIDE DEF m, I
  <2> QED
    BY <1>2, <2>1, <2>2
<1> HIDE DEF u, m, I, l
<1>4. PICK j \in 1..Len(u) : u[j] = l
  BY <1>1, <1>2 DEF Ascends
<1>5. Len(u) \in Nat /\ u \in Seq(Nat) /\ u # <<>>
  BY <1>1, <1>4 DEF Ascends
<1>6. u[Len(u)] <= l /\ u[Len(u)] \in Nat
  BY <1>1, <1>3, <1>4, <1>5 DEF Ascends
<1>7. Len(u) = j
  <2> SUFFICES ASSUME j < Len(u) PROVE FALSE
    BY <1>4, <1>5
  <2>1. u[j] < u[Len(u)]
    BY <1>1, <1>5 DEF Ascends
  <2> QED
    BY <1>2, <1>4, <1>6, <2>1
<1> QED
  BY <1>4, <1>5, <1>7 DEF lastTurnStart, Last, u, l, m

\* No two messages of msgs are the user's.
OneUser(msgs) == \A i, j \in Users(msgs) : i = j

\* At most one start of a turn is at most one user's message.
LEMMA OneUserStart ==
  ASSUME NEW msgs \in Seq(AnyMessage)
  PROVE  /\ Len(UserStarts(msgs)) \in Nat
         /\ Len(UserStarts(msgs)) <= 1 <=> OneUser(msgs)
<1> DEFINE u == UserStarts(msgs)
           I == Users(msgs)
<1>1. Ascends(u, I, Len(msgs)) /\ \A i \in I : i \in 1..Len(msgs)
  BY StartsAscend DEF Users
<1> HIDE DEF u, I
<1>2. Len(u) \in Nat
  BY <1>1 DEF Ascends
<1>3. ASSUME Len(u) <= 1, NEW i \in I, NEW j \in I PROVE i = j
  <2>1. PICK h \in 1..Len(u), k \in 1..Len(u) : u[h] = i /\ u[k] = j
    BY <1>1 DEF Ascends
  <2>2. h = 1 /\ k = 1
    BY <1>2, <1>3
  <2> QED
    BY <2>1, <2>2
<1>4. ASSUME ~(Len(u) <= 1) PROVE \E i, j \in I : i # j
  <2>1. 1 \in 1..Len(u) /\ 2 \in 1..Len(u)
    BY <1>2, <1>4
  <2>2. u[1] < u[2] /\ u[1] \in I /\ u[2] \in I /\ u[1] \in Nat /\ u[2] \in Nat
    BY <1>1, <2>1 DEF Ascends
  <2> QED
    BY <2>2
<1> QED
  BY <1>2, <1>3, <1>4 DEF OneUser, u, I

\* What a step of the optimizer may do: it drops messages up to a turn's start,
\* maybe for a summary in front, and of the rest changes the sizes only, the last
\* turn's not even those.
Shortens(msgs, out, i, h) ==
  /\ i \in 1..(Len(msgs) + 1) /\ h \in {0, 1}
  /\ out \in Seq(AnyMessage) /\ Len(out) = Len(msgs) - i + 1 + h
  /\ h = 1 => i > 1 /\ out[1] = Summary
  /\ i = 1 \/ (i <= Len(msgs) /\ IsUser(msgs[i]))
  /\ \A j \in i..Len(msgs) :
       /\ out[j - i + 1 + h].kind = msgs[j].kind /\ out[j - i + 1 + h].turn = msgs[j].turn
       /\ j >= lastTurnStart(msgs) => out[j - i + 1 + h] = msgs[j]

\* The last n messages are the same.
EndsAlike(s, t, n) ==
  /\ n <= Len(s) /\ n <= Len(t)
  /\ \A d \in 0..(n - 1) : s[Len(s) - d] = t[Len(t) - d]

\* Such a step keeps the last turn whole.
LEMMA EndsKept ==
  ASSUME NEW msgs \in Seq(AnyMessage), NEW out, NEW i, NEW h, Shortens(msgs, out, i, h),
         NEW n, HasTurn(msgs, n)
  PROVE  EndsAlike(msgs, out, n)
<1> DEFINE m == Len(msgs)
           l == m - n + 1
<1>1. m \in Nat /\ n \in 1..m /\ l \in 1..m /\ i \in 1..(m + 1) /\ h \in {0, 1}
  BY DEF HasTurn, Shortens
<1>2. lastTurnStart(msgs) = l
  BY LastStart
<1>3. i <= l
  <2>1. i = 1 \/ (i \in 1..m /\ IsUser(msgs[i]))
    BY <1>1 DEF Shortens
  <2>2. \A j \in (m - n + 2)..m : ~IsUser(msgs[j])
    BY DEF HasTurn
  <2> HIDE DEF m
  <2> QED
    BY <1>1, <2>1, <2>2
<1>4. Len(out) = m - i + 1 + h /\ \A j \in i..m : j >= l => out[j - i + 1 + h] = msgs[j]
  BY <1>2 DEF Shortens
<1> HIDE DEF m
<1>5. ASSUME NEW d \in 0..(n - 1) PROVE msgs[m - d] = out[Len(out) - d]
  <2>1. m - d \in i..m /\ m - d >= l /\ (m - d) - i + 1 + h = Len(out) - d
    BY <1>1, <1>3, <1>4
  <2> QED
    BY <1>4, <2>1
<1>6. n <= m /\ n <= Len(out)
  BY <1>1, <1>3, <1>4
<1> QED
  BY <1>5, <1>6 DEF EndsAlike, m

\* Each tool message, but for those of the exempt turns, follows the call of its
\* turn.
Adjacent(msgs, exempt) ==
  \A i \in 1..Len(msgs) :
    msgs[i].kind = "tool" /\ msgs[i].turn \notin exempt =>
      i > 1 /\ msgs[i - 1].kind = "call" /\ msgs[i - 1].turn = msgs[i].turn

\* It separates no result from its call: what it drops ends before a turn.
LEMMA AdjacentKept ==
  ASSUME NEW msgs \in Seq(AnyMessage), NEW out, NEW i, NEW h, Shortens(msgs, out, i, h),
         NEW exempt, Adjacent(msgs, exempt)
  PROVE  Adjacent(out, exempt)
<1> DEFINE m == Len(msgs)
<1>1. m \in Nat /\ i \in 1..(m + 1) /\ h \in {0, 1} /\ Len(out) = m - i + 1 + h
  BY DEF Shortens
<1>2. \A j \in i..m : out[j - i + 1 + h].kind = msgs[j].kind
        /\ out[j - i + 1 + h].turn = msgs[j].turn
  BY DEF Shortens
<1>3. h = 1 => out[1].kind = "summary"
  BY DEF Shortens, Summary, Message
<1>4. \A j \in 1..m : msgs[j].kind = "tool" /\ msgs[j].turn \notin exempt =>
         j > 1 /\ msgs[j - 1].kind = "call" /\ msgs[j - 1].turn = msgs[j].turn
  BY DEF Adjacent
<1>5. i = 1 \/ msgs[i].kind = "user"
  BY DEF Shortens, IsUser
<1> HIDE DEF m
<1> SUFFICES ASSUME NEW k \in 1..Len(out), out[k].kind = "tool", out[k].turn \notin exempt
             PROVE  k > 1 /\ out[k - 1].kind = "call" /\ out[k - 1].turn = out[k].turn
  BY DEF Adjacent
<1>6. k > h
  BY <1>1, <1>3
<1> DEFINE j == k + i - 1 - h
<1>7. j \in i..m /\ j - i + 1 + h = k /\ j \in 1..m
  BY <1>1, <1>6
<1>8. msgs[j].kind = "tool" /\ msgs[j].turn \notin exempt /\ msgs[j].turn = out[k].turn
  BY <1>2, <1>7
<1>9. j > 1 /\ msgs[j - 1].kind = "call" /\ msgs[j - 1].turn = msgs[j].turn
  BY <1>4, <1>7, <1>8
<1> HIDE DEF j
<1>10. j # i
  <2>1. i = 1 => j # i
    BY <1>1, <1>9
  <2>2. msgs[i].kind = "user" => j # i
    BY <1>8
  <2> QED
    BY <1>5, <2>1, <2>2
<1>11. j - 1 \in i..m /\ (j - 1) - i + 1 + h = k - 1 /\ k > 1
  BY <1>1, <1>7, <1>10 DEF j
<1>12. out[k - 1].kind = msgs[j - 1].kind /\ out[k - 1].turn = msgs[j - 1].turn
  BY <1>2, <1>11
<1> QED
  BY <1>8, <1>9, <1>11, <1>12

LEMMA LastStartTyped == ASSUME NEW msgs \in Seq(AnyMessage) PROVE lastTurnStart(msgs) \in Nat
<1> DEFINE u == UserStarts(msgs)
<1>1. u \in Seq(Nat)
  BY StartsAscend DEF Ascends
<1> HIDE DEF u
<1>2. u # <<>> => Last(u) \in Nat
  BY <1>1 DEF Last
<1> QED
  BY <1>2 DEF lastTurnStart, u

\* A message with no thinking block, or no content.
LEMMA Stripped ==
  ASSUME NEW m \in AnyMessage
  PROVE  /\ [m EXCEPT !.thinking = 0] \in AnyMessage /\ [m EXCEPT !.body = 0] \in AnyMessage
         /\ [m EXCEPT !.thinking = 0].kind = m.kind /\ [m EXCEPT !.thinking = 0].turn = m.turn
         /\ [m EXCEPT !.body = 0].kind = m.kind /\ [m EXCEPT !.body = 0].turn = m.turn
  BY DEF AnyMessage

\* Changing no more than sizes before the last turn is such a step.
LEMMA SameShortens ==
  ASSUME NEW msgs \in Seq(AnyMessage), NEW out \in Seq(AnyMessage), Len(out) = Len(msgs),
         \A j \in 1..Len(msgs) :
           /\ out[j].kind = msgs[j].kind /\ out[j].turn = msgs[j].turn
           /\ j >= lastTurnStart(msgs) => out[j] = msgs[j]
  PROVE  Shortens(msgs, out, 1, 0) /\ Users(out) = Users(msgs)
<1> DEFINE m == Len(msgs)
<1>1. m \in Nat /\ Len(out) = m
  OBVIOUS
<1> HIDE DEF m
<1>2. 1 \in 1..(m + 1) /\ m - 1 + 1 + 0 = m /\ \A j \in 1..m : j - 1 + 1 + 0 = j
  BY <1>1
<1>3. Shortens(msgs, out, 1, 0)
  BY <1>1, <1>2 DEF Shortens, m
<1>4. Users(out) = Users(msgs)
  BY DEF Users, IsUser
<1> QED
  BY <1>3, <1>4

\* The strippers shorten nothing and leave the last turn alone.
LEMMA StripShortens ==
  ASSUME NEW msgs \in Seq(AnyMessage), NEW out \in {StripThinking(msgs), StripToolResults(msgs)}
  PROVE  Shortens(msgs, out, 1, 0) /\ Users(out) = Users(msgs)
<1> DEFINE n == Len(msgs)
           last == lastTurnStart(msgs)
<1>1. n \in Nat /\ DOMAIN msgs = 1..n /\ last \in Nat /\ \A j \in 1..n : msgs[j] \in AnyMessage
  BY LastStartTyped
<1>2. \/ out = [i \in 1..n |-> IF i < last THEN [msgs[i] EXCEPT !.thinking = 0] ELSE msgs[i]]
      \/ out = [i \in 1..n |-> IF i < last /\ msgs[i].kind = "tool"
                               THEN [msgs[i] EXCEPT !.body = 0] ELSE msgs[i]]
  BY <1>1 DEF StripThinking, StripToolResults
<1> HIDE DEF n, last
<1>3. ASSUME NEW j \in 1..n
      PROVE  /\ out[j] \in AnyMessage
             /\ out[j].kind = msgs[j].kind /\ out[j].turn = msgs[j].turn
             /\ j >= last => out[j] = msgs[j]
  <2>1. \/ out[j] = [msgs[j] EXCEPT !.thinking = 0] /\ j < last
        \/ out[j] = [msgs[j] EXCEPT !.body = 0] /\ j < last
        \/ out[j] = msgs[j]
    BY <1>2
  <2>2. CASE out[j] = msgs[j]
    BY <1>1, <2>2
  <2>3. CASE out[j] = [msgs[j] EXCEPT !.thinking = 0] /\ j < last
    <3> DEFINE b == msgs[j]
               c == [b EXCEPT !.thinking = 0]
    <3>1. b \in AnyMessage /\ out[j] = c
      BY <1>1, <2>3
    <3> HIDE DEF b
    <3>2. c \in AnyMessage /\ c.kind = b.kind /\ c.turn = b.turn
      BY <3>1, Stripped
    <3>3. ~(j >= last)
      BY <1>1, <2>3
    <3> HIDE DEF c
    <3> QED
      BY <3>1, <3>2, <3>3 DEF b
  <2>4. CASE out[j] = [msgs[j] EXCEPT !.body = 0] /\ j < last
    <3> DEFINE b == msgs[j]
               c == [b EXCEPT !.body = 0]
    <3>1. b \in AnyMessage /\ out[j] = c
      BY <1>1, <2>4
    <3> HIDE DEF b
    <3>2. c \in AnyMessage /\ c.kind = b.kind /\ c.turn = b.turn
      BY <3>1, Stripped
    <3>3. ~(j >= last)
      BY <1>1, <2>4
    <3> HIDE DEF c
    <3> QED
      BY <3>1, <3>2, <3>3 DEF b
  <2> QED
    BY <2>1, <2>2, <2>3, <2>4
<1>4. out \in [1..n -> AnyMessage]
  BY <1>2, <1>3
<1>5. out \in Seq(AnyMessage) /\ Len(out) = n
  BY <1>1, <1>4, SeqDef, LenProperties
<1> QED
  BY <1>3, <1>5, SameShortens DEF n, last

\* The messages from a turn's start on.
LEMMA CutShortens ==
  ASSUME NEW msgs \in Seq(AnyMessage), NEW i \in 1..Len(msgs), IsUser(msgs[i])
  PROVE  /\ Shortens(msgs, From(msgs, i), i, 0)
         /\ From(msgs, i) \in Seq(AnyMessage) /\ Len(From(msgs, i)) = Len(msgs) - i + 1
         /\ \A j \in i..Len(msgs) : From(msgs, i)[j - i + 1] = msgs[j]
         /\ (\A k \in Users(msgs) : k <= i) => OneUser(From(msgs, i))
<1> DEFINE m == Len(msgs)
           out == From(msgs, i)
<1>1. m \in Nat /\ i \in 1..m /\ \A j \in i..m : msgs[j] \in AnyMessage
  OBVIOUS
<1>2. /\ out \in Seq(AnyMessage) /\ Len(out) = m - i + 1
      /\ \A k \in 1..(m - i + 1) : out[k] = msgs[i + k - 1]
  <2> HIDE DEF m
  <2>1. i \in Int /\ m \in Int /\ i <= m
    BY <1>1
  <2>2. /\ SubSeq(msgs, i, m) \in Seq(AnyMessage)
        /\ Len(SubSeq(msgs, i, m)) = IF i <= m THEN m - i + 1 ELSE 0
        /\ \A k \in 1..(m - i + 1) : SubSeq(msgs, i, m)[k] = msgs[i + k - 1]
    BY <1>1, <2>1, SubSeqProperties
  <2> QED
    BY <2>1, <2>2 DEF From, m
<1> HIDE DEF m, out
<1>3. \A j \in i..m : out[j - i + 1] = msgs[j]
  <2> SUFFICES ASSUME NEW j \in i..m PROVE out[j - i + 1] = msgs[j]
    OBVIOUS
  <2>1. j - i + 1 \in 1..(m - i + 1) /\ i + (j - i + 1) - 1 = j
    BY <1>1
  <2> QED
    BY <1>2, <2>1
<1>4. Shortens(msgs, out, i, 0)
  <2>1. i \in 1..(m + 1) /\ m - i + 1 + 0 = m - i + 1
          /\ \A j \in i..m : j - i + 1 + 0 = j - i + 1
    BY <1>1
  <2> QED
    BY <1>1, <1>2, <1>3, <2>1 DEF Shortens, m
<1>5. ASSUME \A k \in Users(msgs) : k <= i PROVE OneUser(out)
  <2>1. ASSUME NEW k \in Users(out) PROVE k = 1
    <3>1. k \in 1..(m - i + 1) /\ IsUser(out[k]) /\ out[k] = msgs[i + k - 1]
      BY <1>2 DEF Users
    <3>2. i + k - 1 \in 1..m
      BY <1>1, <3>1
    <3>3. i + k - 1 \in Users(msgs)
      BY <3>1, <3>2 DEF Users, m
    <3> QED
      BY <1>1, <1>5, <3>1, <3>3
  <2> QED
    BY <2>1 DEF OneUser
<1> QED
  BY <1>2, <1>3, <1>4, <1>5 DEF m, out

\* So is doing nothing.
LEMMA NothingShortens ==
  ASSUME NEW msgs \in Seq(AnyMessage) PROVE Shortens(msgs, msgs, 1, 0)
  BY SameShortens

\* PruneMessages drops whole turns, and enough of them.
LEMMA PruneShortens ==
  ASSUME NEW msgs \in Seq(AnyMessage)
  PROVE  /\ \E i : Shortens(msgs, PruneMessages(msgs), i, 0)
         /\ OneUser(msgs) => PruneMessages(msgs) = msgs
         /\ Budget > 0 => \/ EstimateTokens(PruneMessages(msgs)) <= Budget
                          \/ OneUser(PruneMessages(msgs))
<1> DEFINE u == UserStarts(msgs)
           n == Len(u)
           rest(k) == IF k = 1 THEN msgs ELSE From(msgs, u[k])
           enough(k) == EstimateTokens(rest(k)) <= Budget \/ k = n
           least(k) == enough(k) /\ \A j \in 1..(k - 1) : ~enough(j)
           K == CHOOSE k \in DOMAIN u : least(k)
<1>1. PruneMessages(msgs) = IF Budget <= 0 \/ n <= 1 THEN msgs ELSE rest(K)
  BY DEF PruneMessages
<1>2. Ascends(u, Users(msgs), Len(msgs)) /\ n \in Nat /\ (n <= 1 <=> OneUser(msgs))
  BY StartsAscend, OneUserStart
<1>3. DOMAIN u = 1..n
  BY <1>2 DEF Ascends
<1>4. Budget \in Nat
  BY OptimizerAssumption
<1>5. CASE Budget <= 0 \/ n <= 1
  <2>1. PruneMessages(msgs) = msgs
    BY <1>1, <1>5
  <2>2. Budget > 0 => OneUser(msgs)
    BY <1>2, <1>4, <1>5
  <2>3. Shortens(msgs, msgs, 1, 0)
    BY NothingShortens
  <2> QED
    BY <2>1, <2>2, <2>3
<1>6. CASE ~(Budget <= 0 \/ n <= 1)
  <2>1. PruneMessages(msgs) = rest(K) /\ Budget > 0 /\ n > 1
    BY <1>1, <1>2, <1>4, <1>6
  <2>2. K \in 1..n /\ enough(K)
    <3> HIDE DEF n, enough
    <3>1. \E k \in 1..n : enough(k) /\ \A j \in 1..(k - 1) : ~enough(j)
      <4> DEFINE T == {k \in 1..n : enough(k)}
      <4>1. n \in T
        BY <2>1, <1>2 DEF enough
      <4>2. T \subseteq Nat /\ T # {}
        BY <4>1
      <4> HIDE DEF T
      <4>3. PICK k \in T : \A j \in T : k <= j
        BY <4>2, Least
      <4> QED
        BY <4>3, <1>2 DEF T
    <3>2. \E k \in DOMAIN u : least(k)
      BY <1>3, <3>1
    <3>3. K \in DOMAIN u /\ least(K)
      BY <3>2, Zenon
    <3> QED
      BY <1>3, <3>3
  <2> HIDE DEF K
  <2>3. CASE K = 1
    <3>1. rest(K) = msgs
      BY <2>3
    <3>2. EstimateTokens(msgs) <= Budget
      <4>1. EstimateTokens(rest(K)) <= Budget \/ K = n
        BY <2>2
      <4>2. K # n
        <5>1. n > 1 /\ n \in Nat
          BY <1>2, <2>1
        <5> HIDE DEF n
        <5> QED
          BY <2>3, <5>1
      <4> QED
        BY <3>1, <4>1, <4>2
    <3> QED
      BY <1>2, <2>1, <3>1, <3>2, NothingShortens
  <2>4. CASE K # 1
    <3>1. rest(K) = From(msgs, u[K])
      BY <2>4
    <3>2. u[K] \in 1..Len(msgs) /\ u[K] \in Users(msgs)
      BY <1>2, <2>2 DEF Ascends
    <3>3. IsUser(msgs[u[K]])
      BY <3>2 DEF Users
    <3>4. Shortens(msgs, From(msgs, u[K]), u[K], 0)
      BY <3>2, <3>3, CutShortens
    <3>5. CASE K = n
      <4>1. ASSUME NEW k \in Users(msgs) PROVE k <= u[n]
        <5>1. k \in 1..Len(msgs)
          BY DEF Users
        <5>2. PICK j \in 1..n : u[j] = k
          BY <1>2, <5>1 DEF Ascends
        <5>3. j = n \/ u[j] < u[n]
          BY <1>2, <2>2, <3>5 DEF Ascends
        <5>4. u[n] \in Nat /\ k \in Nat
          BY <3>2, <3>5, <5>1
        <5> QED
          BY <5>2, <5>3, <5>4
      <4>2. OneUser(From(msgs, u[K]))
        BY <3>2, <3>3, <3>5, <4>1, CutShortens
      <4> QED
        BY <1>2, <2>1, <3>1, <3>4, <4>2
    <3>6. CASE K # n
      <4>1. EstimateTokens(From(msgs, u[K])) <= Budget
        BY <2>2, <3>1, <3>6
      <4> QED
        BY <1>2, <2>1, <3>1, <3>4, <4>1
    <3> QED
      BY <3>5, <3>6
  <2> QED
    BY <2>3, <2>4
<1> QED
  BY <1>5, <1>6

\* The summary takes the place of whole turns, the last one not among them.
LEMMA SummaryShortens ==
  ASSUME NEW msgs \in Seq(AnyMessage)
  PROVE  \E i, h : Shortens(msgs, summarizeTurns(msgs), i, h)
<1> DEFINE u == TurnStarts(msgs)
           l == Len(u)
           n == IF SummarizeTurns >= l THEN l - 1 ELSE SummarizeTurns
           m == Len(msgs)
<1>1. summarizeTurns(msgs) = IF l <= 1 THEN msgs ELSE <<Summary>> \o From(msgs, u[n + 1])
  BY DEF summarizeTurns
<1>2. Ascends(u, {i \in 1..m : i = 1 \/ IsUser(msgs[i])}, m)
  BY StartsAscend
<1>3. l \in Nat /\ m \in Nat
  BY <1>2 DEF Ascends
<1>4. CASE l <= 1
  BY <1>1, <1>4, NothingShortens
<1>5. CASE ~(l <= 1)
  <2> DEFINE i == u[n + 1]
             y == From(msgs, i)
             out == <<Summary>> \o y
  <2>1. summarizeTurns(msgs) = out
    BY <1>1, <1>5
  <2>2. 1 \in 1..l /\ n + 1 \in 1..l /\ 1 < n + 1
    BY <1>3, <1>5, OptimizerAssumption
  <2> HIDE DEF l, n
  <2>3. u[1] < i /\ i \in 1..m /\ (i = 1 \/ IsUser(msgs[i])) /\ u[1] \in 1..m
    BY <1>2, <2>2 DEF Ascends, l
  <2> HIDE DEF i
  <2>4. i > 1 /\ IsUser(msgs[i]) /\ i \in 1..m
    BY <1>3, <2>3
  <2>5. /\ y \in Seq(AnyMessage) /\ Len(y) = m - i + 1
        /\ \A j \in i..m : y[j - i + 1] = msgs[j]
    BY <2>4, CutShortens
  <2>6. Summary \in AnyMessage
    <3>1. MaxRuns \in Nat
      BY LoopAssumption
    <3> QED
      BY <3>1 DEF Summary, Message, AnyMessage, Kinds
  <2> HIDE DEF y, m
  <2>7. /\ out \in Seq(AnyMessage) /\ Len(out) = 1 + Len(y) /\ out[1] = Summary
        /\ \A k \in 1..Len(y) : out[k + 1] = y[k]
    <3> DEFINE s == <<Summary>>
    <3>1. s \in Seq(AnyMessage) /\ Len(s) = 1 /\ s[1] = Summary
      BY <2>6
    <3> HIDE DEF s
    <3>2. /\ s \o y \in Seq(AnyMessage) /\ Len(s \o y) = Len(s) + Len(y)
          /\ \A k \in 1..(Len(s) + Len(y)) : (s \o y)[k] = IF k <= Len(s) THEN s[k]
                ELSE y[k - Len(s)]
      BY <2>5, <3>1, ConcatProperties
    <3>3. Len(y) \in Nat
      BY <2>5
    <3>4. 1 \in 1..(1 + Len(y)) /\ \A k \in 1..Len(y) : k + 1 \in 1..(1 + Len(y))
            /\ ~(k + 1 <= 1) /\ k + 1 - 1 = k
      BY <3>3
    <3>5. out = s \o y
      BY DEF s
    <3> HIDE DEF out
    <3> QED
      BY <3>1, <3>2, <3>3, <3>4, <3>5
  <2> HIDE DEF out
  <2>8. /\ i \in 1..(m + 1) /\ Len(out) = m - i + 1 + 1
        /\ \A j \in i..m : j - i + 1 \in 1..Len(y)
    BY <1>3, <2>4, <2>5, <2>7
  <2>9. \A j \in i..m : out[j - i + 1 + 1] = msgs[j]
    BY <2>5, <2>7, <2>8
  <2>10. Shortens(msgs, out, i, 1)
    <3>1. /\ out \in Seq(AnyMessage) /\ out[1] = Summary /\ i > 1 /\ 1 \in {0, 1}
          /\ i <= m /\ IsUser(msgs[i])
      BY <1>3, <2>4, <2>7
    <3>2. \A j \in i..m :
            /\ out[j - i + 1 + 1].kind = msgs[j].kind /\ out[j - i + 1 + 1].turn = msgs[j].turn
            /\ j >= lastTurnStart(msgs) => out[j - i + 1 + 1] = msgs[j]
      BY <2>9
    <3> QED
      BY <2>8, <3>1, <3>2 DEF Shortens, m
  <2> QED
    BY <2>1, <2>10
<1> QED
  BY <1>4, <1>5

\* Estimates are numbers.
LEMMA Estimated ==
  ASSUME NEW msgs \in Seq(AnyMessage)
  PROVE  EstimateTokens(msgs) \in Nat
<1> DEFINE n == Len(msgs)
           G == [x \in Nat \X Nat |-> x[2] + msgs[x[1]].thinking + msgs[x[1]].body]
<1>1. n \in Nat /\ \A k \in 1..n : msgs[k].thinking \in Nat /\ msgs[k].body \in Nat
  <2>1. n \in Nat /\ \A k \in 1..n : msgs[k] \in AnyMessage
    OBVIOUS
  <2>2. \A m \in AnyMessage : m.thinking \in Nat /\ m.body \in Nat
    BY DEF AnyMessage
  <2> QED
    BY <2>1, <2>2
<1>2. \A k \in Nat, x \in Nat : G[<<k, x>>] = x + msgs[k].thinking + msgs[k].body
  OBVIOUS
<1> HIDE DEF G
<1>3. ASSUME NEW k \in 1..n, NEW x \in Nat PROVE G[<<k, x>>] \in Nat
  <2>1. k \in Nat /\ msgs[k].thinking \in Nat /\ msgs[k].body \in Nat
    BY <1>1
  <2>2. G[<<k, x>>] = x + msgs[k].thinking + msgs[k].body
    BY <1>2, <2>1
  <2> QED
    BY <2>1, <2>2
<1>4. PICK f : FollowsFrom(f, 0, n, 0, G) /\ \A k \in 0..n : f[k] \in Nat
  <2> HIDE DEF n
  <2> QED BY <1>1, <1>3, RecursionTyped
<1> DEFINE W(k) == IF k = 0 THEN 0 ELSE f[k - 1] + msgs[k].thinking + msgs[k].body
<1>5. \A k \in 0..n : f[k] = W(k)
  <2> HIDE DEF n
  <2> SUFFICES ASSUME NEW k \in 0..n PROVE f[k] = W(k)
    OBVIOUS
  <2>1. f[k] = IF k = 0 THEN 0 ELSE G[<<k, f[k - 1]>>]
    BY <1>4 DEF FollowsFrom
  <2>2. CASE k # 0
    <3>1. k \in Nat /\ k - 1 \in 0..n
      BY <1>1, <2>2
    <3>2. f[k - 1] \in Nat
      BY <1>4, <3>1
    <3> QED
      BY <1>2, <2>1, <2>2, <3>1, <3>2
  <2> QED
    BY <2>1, <2>2
<1>6. f = [k \in 0..n |-> W(k)]
  <2>1. f = [k \in 0..n |-> f[k]]
    BY <1>4 DEF FollowsFrom
  <2> HIDE DEF W, n
  <2> QED BY <1>5, <2>1
<1> DEFINE sum[k \in 0..Len(msgs)] ==
             IF k = 0 THEN 0 ELSE sum[k - 1] + msgs[k].thinking + msgs[k].body
<1>7. EstimateTokens(msgs) = sum[Len(msgs)]
  BY DEF EstimateTokens
<1>8. \E g : g = [k \in 0..Len(msgs) |->
                    IF k = 0 THEN 0 ELSE g[k - 1] + msgs[k].thinking + msgs[k].body]
  BY <1>6, Zenon
<1>9. sum = [k \in 0..Len(msgs) |->
               IF k = 0 THEN 0 ELSE sum[k - 1] + msgs[k].thinking + msgs[k].body]
  BY <1>8, Zenon
<1> HIDE DEF sum
<1>10. \A k \in 0..n : sum[k] = IF k = 0 THEN 0
         ELSE sum[k - 1] + msgs[k].thinking + msgs[k].body
  BY <1>9, Zenon
<1> DEFINE T == {k \in Nat : k <= n => sum[k] \in Nat}
<1> HIDE DEF n
<1>11. 0 \in T
  BY <1>1, <1>10
<1>12. ASSUME NEW k \in Nat, k \in T PROVE k + 1 \in T
  <2> SUFFICES ASSUME k + 1 <= n PROVE sum[k + 1] \in Nat
    OBVIOUS
  <2>1. k + 1 \in 1..n /\ k + 1 \in 0..n /\ k + 1 # 0 /\ (k + 1) - 1 = k /\ sum[k] \in Nat
    BY <1>1, <1>12
  <2>2. sum[k + 1] = sum[k] + msgs[k + 1].thinking + msgs[k + 1].body
    BY <1>10, <2>1
  <2> QED
    BY <1>1, <2>1, <2>2
<1>13. sum[n] \in Nat
  <2>1. Nat \subseteq T
    <3> HIDE DEF T
    <3> QED BY <1>11, <1>12, Induction
  <2> QED
    BY <1>1, <2>1
<1> QED
  BY <1>7, <1>13 DEF n

LEMMA NothingEstimated == EstimateTokens(<<>>) = 0
<1> DEFINE sum[k \in 0..Len(<<>>)] ==
             IF k = 0 THEN 0 ELSE sum[k - 1] + <<>>[k].thinking + <<>>[k].body
<1>1. EstimateTokens(<<>>) = sum[Len(<<>>)]
  BY DEF EstimateTokens
<1>2. Len(<<>>) = 0
  OBVIOUS
<1> DEFINE f == [k \in 0..Len(<<>>) |-> 0]
<1>3. f = [k \in 0..Len(<<>>) |-> IF k = 0 THEN 0
        ELSE f[k - 1] + <<>>[k].thinking + <<>>[k].body]
  BY <1>2
<1>4. \E g : g = [k \in 0..Len(<<>>) |-> IF k = 0 THEN 0
        ELSE g[k - 1] + <<>>[k].thinking + <<>>[k].body]
  BY <1>3, Zenon
<1>5. sum = [k \in 0..Len(<<>>) |-> IF k = 0 THEN 0
        ELSE sum[k - 1] + <<>>[k].thinking + <<>>[k].body]
  BY <1>4, Zenon
<1> HIDE DEF sum
<1>6. 0 \in 0..Len(<<>>) => sum[0] = 0
  BY <1>5, Zenon
<1> QED
  BY <1>1, <1>2, <1>6

\* What the optimizer does keeps the last turn and the results at their calls.
Keeps(msgs, out) ==
  /\ out \in Seq(AnyMessage)
  /\ \A n : HasTurn(msgs, n) => HasTurn(out, n) /\ EndsAlike(msgs, out, n)
  /\ \A exempt : Adjacent(msgs, exempt) => Adjacent(out, exempt)

\* The last turn is found by the end.
LEMMA TurnByEnd ==
  ASSUME NEW msgs \in Seq(AnyMessage), NEW out \in Seq(AnyMessage), NEW n,
         HasTurn(msgs, n), EndsAlike(msgs, out, n)
  PROVE  HasTurn(out, n)
<1> DEFINE m == Len(msgs)
           l == Len(out)
<1>1. m \in Nat /\ l \in Nat /\ n \in 1..m /\ n <= l
  BY DEF HasTurn, EndsAlike
<1>2. \A d \in 0..(n - 1) : msgs[m - d] = out[l - d]
  BY DEF EndsAlike
<1>3. IsUser(msgs[m - n + 1]) /\ \A i \in (m - n + 2)..m : ~IsUser(msgs[i])
  BY DEF HasTurn
<1> HIDE DEF m, l
<1>4. IsUser(out[l - n + 1])
  <2>1. n - 1 \in 0..(n - 1) /\ m - (n - 1) = m - n + 1 /\ l - (n - 1) = l - n + 1
    BY <1>1
  <2> QED
    BY <1>2, <1>3, <2>1
<1>5. ASSUME NEW i \in (l - n + 2)..l PROVE ~IsUser(out[i])
  <2>1. l - i \in 0..(n - 1) /\ l - (l - i) = i /\ m - (l - i) \in (m - n + 2)..m
    BY <1>1
  <2> QED
    BY <1>2, <1>3, <2>1
<1>6. n \in 1..l
  BY <1>1
<1> QED
  BY <1>4, <1>5, <1>6 DEF HasTurn, l

\* One step.
LEMMA ShortensKeeps ==
  ASSUME NEW msgs \in Seq(AnyMessage), NEW out, NEW i, NEW h, Shortens(msgs, out, i, h)
  PROVE  Keeps(msgs, out)
<1>1. out \in Seq(AnyMessage)
  BY DEF Shortens
<1>2. ASSUME NEW n, HasTurn(msgs, n) PROVE HasTurn(out, n) /\ EndsAlike(msgs, out, n)
  <2>1. EndsAlike(msgs, out, n)
    BY <1>2, EndsKept
  <2> QED
    BY <1>1, <1>2, <2>1, TurnByEnd
<1>3. ASSUME NEW exempt, Adjacent(msgs, exempt) PROVE Adjacent(out, exempt)
  BY <1>3, AdjacentKept
<1> QED
  BY <1>1, <1>2, <1>3 DEF Keeps

\* Two steps.
LEMMA KeepsOn ==
  ASSUME NEW a \in Seq(AnyMessage), NEW b, NEW c, Keeps(a, b), Keeps(b, c)
  PROVE  Keeps(a, c)
<1>1. ASSUME NEW n, HasTurn(a, n) PROVE HasTurn(c, n) /\ EndsAlike(a, c, n)
  <2>1. HasTurn(b, n) /\ EndsAlike(a, b, n) /\ HasTurn(c, n) /\ EndsAlike(b, c, n)
    BY <1>1 DEF Keeps
  <2>2. EndsAlike(a, c, n)
    BY <2>1 DEF EndsAlike
  <2> QED
    BY <2>1, <2>2
<1> QED
  BY <1>1 DEF Keeps

\* Each level keeps so much, and drop_pairs leaves one turn at most, or what fits;
\* the other levels keep the user messages as they are.
LEMMA LevelKeeps ==
  ASSUME NEW msgs \in Seq(AnyMessage), NEW level
  PROVE  /\ Keeps(msgs, ApplyLevel(level, msgs))
         /\ OneUser(msgs) => OneUser(ApplyLevel(level, msgs))
         /\ level = "drop_pairs" /\ Budget > 0 =>
              \/ EstimateTokens(ApplyLevel(level, msgs)) <= Budget
              \/ OneUser(ApplyLevel(level, msgs))
<1> DEFINE out == ApplyLevel(level, msgs)
<1>1. CASE level \in {"strip_thinking", "strip_tool_results"}
  <2>1. out \in {StripThinking(msgs), StripToolResults(msgs)} /\ level # "drop_pairs"
    BY <1>1 DEF ApplyLevel
  <2> HIDE DEF out
  <2>2. Shortens(msgs, out, 1, 0) /\ Users(out) = Users(msgs)
    BY <2>1, StripShortens
  <2>3. Keeps(msgs, out)
    BY <2>2, ShortensKeeps
  <2> QED
    BY <2>1, <2>2, <2>3 DEF OneUser, out
<1>2. CASE level \notin {"strip_thinking", "strip_tool_results"}
  <2>1. out = PruneMessages(msgs)
    BY <1>2 DEF ApplyLevel
  <2> HIDE DEF out
  <2>2. PICK i : Shortens(msgs, out, i, 0)
    BY <2>1, PruneShortens
  <2>3. Keeps(msgs, out)
    BY <2>2, ShortensKeeps
  <2>4. /\ OneUser(msgs) => OneUser(out)
        /\ Budget > 0 => EstimateTokens(out) <= Budget \/ OneUser(out)
    BY <2>1, PruneShortens
  <2> QED
    BY <2>3, <2>4 DEF out
<1> QED
  BY <1>1, <1>2

LEMMA LevelsTyped == Len(Levels) \in Nat /\ DOMAIN Levels = 1..Len(Levels)
<1>1. CASE PruneLevels = <<>>
  <2>1. Levels = <<"drop_pairs">>
    BY <1>1 DEF Levels
  <2> QED
    BY <2>1
<1>2. CASE PruneLevels # <<>>
  <2> DEFINE S == {"strip_thinking", "strip_tool_results", "drop_pairs"}
  <2>1. Levels \in Seq(S)
    BY <1>2, OptimizerAssumption DEF Levels
  <2> HIDE DEF S
  <2> QED
    BY <2>1
<1> QED
  BY <1>1, <1>2

\* The messages after each level.
LEMMA LevelsBy ==
  ASSUME NEW msgs \in Seq(AnyMessage)
  PROVE  \E f : /\ f[0] = msgs /\ f[Len(Levels)] = applyPruneLevels(msgs)
                /\ \A k \in 0..Len(Levels) : f[k] \in Seq(AnyMessage)
                /\ \A k \in 1..Len(Levels) :
                     f[k] = IF EstimateTokens(f[k - 1]) <= Budget THEN f[k - 1]
                            ELSE ApplyLevel(Levels[k], f[k - 1])
<1> DEFINE n == Len(Levels)
           S == Seq(AnyMessage)
           G == [x \in Nat \X S |-> IF EstimateTokens(x[2]) <= Budget THEN x[2]
                                    ELSE ApplyLevel(Levels[x[1]], x[2])]
           Level(k, x) == IF EstimateTokens(x) <= Budget THEN x ELSE ApplyLevel(Levels[k], x)
<1>1. n \in Nat
  BY LevelsTyped
<1>2. \A k \in Nat, x \in S : G[<<k, x>>] = Level(k, x)
  OBVIOUS
<1>3. ASSUME NEW k \in 1..n, NEW x \in S PROVE Level(k, x) \in S
  <2>1. ApplyLevel(Levels[k], x) \in S
    BY LevelKeeps DEF Keeps
  <2> QED
    BY <2>1
<1> HIDE DEF G, Level, n
<1>4. ASSUME NEW k \in 1..n, NEW x \in S PROVE G[<<k, x>>] \in S
  <2>1. G[<<k, x>>] = Level(k, x)
    BY <1>1, <1>2
  <2> QED
    BY <1>3, <2>1
<1>5. PICK f : FollowsFrom(f, 0, n, msgs, G) /\ \A k \in 0..n : f[k] \in S
  <2> HIDE DEF S
  <2>1. msgs \in S
    BY DEF S
  <2> QED BY <1>1, <1>4, <2>1, RecursionTyped
<1> DEFINE W(k) == IF k = 0 THEN msgs ELSE Level(k, f[k - 1])
<1>6. \A k \in 0..n : f[k] = W(k)
  <2> SUFFICES ASSUME NEW k \in 0..n PROVE f[k] = W(k)
    OBVIOUS
  <2>1. f[k] = IF k = 0 THEN msgs ELSE G[<<k, f[k - 1]>>]
    BY <1>5 DEF FollowsFrom
  <2>2. CASE k # 0
    <3>1. k \in Nat /\ k - 1 \in 0..n
      BY <1>1, <2>2
    <3>2. f[k - 1] \in S
      BY <1>5, <3>1
    <3> QED
      BY <1>2, <2>1, <2>2, <3>1, <3>2
  <2> QED
    BY <2>1, <2>2
<1>7. f = [k \in 0..n |-> W(k)]
  <2>1. f = [k \in 0..n |-> f[k]]
    BY <1>5 DEF FollowsFrom
  <2> HIDE DEF W
  <2> QED BY <1>6, <2>1
<1> DEFINE after[k \in 0..Len(Levels)] ==
             IF k = 0 THEN msgs
             ELSE IF EstimateTokens(after[k - 1]) <= Budget THEN after[k - 1]
             ELSE ApplyLevel(Levels[k], after[k - 1])
<1>8. applyPruneLevels(msgs) = after[Len(Levels)]
  BY DEF applyPruneLevels
<1>9. \E g : g = [k \in 0..Len(Levels) |->
                    IF k = 0 THEN msgs
                    ELSE IF EstimateTokens(g[k - 1]) <= Budget THEN g[k - 1]
                    ELSE ApplyLevel(Levels[k], g[k - 1])]
  BY <1>7, Zenon DEF n, Level
<1>10. after = [k \in 0..Len(Levels) |->
                    IF k = 0 THEN msgs
                    ELSE IF EstimateTokens(after[k - 1]) <= Budget THEN after[k - 1]
                    ELSE ApplyLevel(Levels[k], after[k - 1])]
  BY <1>9, Zenon
<1> HIDE DEF after
<1>11. \A k \in 0..n : after[k] = IF k = 0 THEN msgs ELSE Level(k, after[k - 1])
  BY <1>10, Zenon DEF n, Level
<1>12. after[0] = msgs /\ \A k \in 1..n : after[k] = Level(k, after[k - 1])
  <2>1. 0 \in 0..n /\ \A k \in 1..n : k \in 0..n /\ k # 0
    BY <1>1
  <2> QED
    BY <1>11, <2>1
<1> DEFINE T == {k \in Nat : k <= n => after[k] \in S}
<1>13. 0 \in T
  BY <1>12
<1>14. ASSUME NEW k \in Nat, k \in T PROVE k + 1 \in T
  <2> SUFFICES ASSUME k + 1 <= n PROVE after[k + 1] \in S
    OBVIOUS
  <2>1. k + 1 \in 1..n /\ (k + 1) - 1 = k /\ after[k] \in S
    BY <1>1, <1>14
  <2> HIDE DEF S
  <2> QED
    BY <1>3, <1>12, <2>1
<1>15. \A k \in 0..n : after[k] \in S
  <2>1. Nat \subseteq T
    <3> HIDE DEF T
    <3> QED BY <1>13, <1>14, Induction
  <2> QED
    BY <1>1, <2>1
<1> QED
  BY <1>8, <1>12, <1>15, Zenon DEF n, Level, S

\* What is cut fits the budget, or has at most one user's message.
Cut(msgs) == EstimateTokens(msgs) <= Budget \/ OneUser(msgs)

\* All the levels: each starts from what the ones before it left.
LEMMA LevelsKeep ==
  ASSUME NEW msgs \in Seq(AnyMessage)
  PROVE  /\ Keeps(msgs, applyPruneLevels(msgs))
         /\ Budget > 0 /\ DropsTurns => Cut(applyPruneLevels(msgs))
<1> DEFINE n == Len(Levels)
<1>1. PICK f : /\ f[0] = msgs /\ f[n] = applyPruneLevels(msgs)
               /\ \A k \in 0..n : f[k] \in Seq(AnyMessage)
               /\ \A k \in 1..n : f[k] = IF EstimateTokens(f[k - 1]) <= Budget THEN f[k - 1]
                                         ELSE ApplyLevel(Levels[k], f[k - 1])
  BY LevelsBy
<1>2. n \in Nat /\ DOMAIN Levels = 1..n
  BY LevelsTyped
<1> HIDE DEF n
<1> DEFINE Drops(k) == \E j \in 1..k : Levels[j] = "drop_pairs"
           Fine(k) == Keeps(msgs, f[k]) /\ (Budget > 0 /\ Drops(k) => Cut(f[k]))
           T == {k \in Nat : k <= n => Fine(k)}
<1>3. 0 \in T
  <2>1. Keeps(msgs, msgs)
    BY NothingShortens, ShortensKeeps
  <2> QED
    BY <1>1, <2>1
<1>4. ASSUME NEW k \in Nat, k \in T PROVE k + 1 \in T
  <2> SUFFICES ASSUME k + 1 <= n PROVE Fine(k + 1)
    OBVIOUS
  <2>1. k \in 0..n /\ k + 1 \in 1..n /\ (k + 1) - 1 = k /\ Fine(k)
    BY <1>2, <1>4
  <2>2. \A j \in 1..(k + 1) : j \in 1..k \/ j = k + 1
    OBVIOUS
  <2>3. /\ f[k] \in Seq(AnyMessage)
        /\ f[k + 1] = IF EstimateTokens(f[k]) <= Budget THEN f[k]
              ELSE ApplyLevel(Levels[k + 1], f[k])
    BY <1>1, <2>1
  <2>4. CASE EstimateTokens(f[k]) <= Budget
    BY <2>1, <2>3, <2>4 DEF Cut
  <2>5. CASE ~(EstimateTokens(f[k]) <= Budget)
    <3> DEFINE x == f[k]
               l == Levels[k + 1]
               y == ApplyLevel(l, x)
    <3>1. f[k + 1] = y
      BY <2>3, <2>5
    <3>2. x \in Seq(AnyMessage) /\ Keeps(msgs, x) /\ (Budget > 0 /\ Drops(k) => OneUser(x))
      BY <2>1, <2>3, <2>5 DEF Cut
    <3>3. Drops(k + 1) => Drops(k) \/ l = "drop_pairs"
      BY <2>2
    <3> HIDE DEF x, l, Drops
    <3>4. /\ Keeps(x, y)
          /\ OneUser(x) => OneUser(y)
          /\ l = "drop_pairs" /\ Budget > 0 => Cut(y)
      BY <3>2, LevelKeeps DEF Cut
    <3> HIDE DEF y
    <3>5. Keeps(msgs, y)
      BY <3>2, <3>4, KeepsOn
    <3> QED
      BY <3>1, <3>2, <3>3, <3>4, <3>5 DEF Cut
  <2> QED
    BY <2>4, <2>5
<1>5. Fine(n)
  <2>1. Nat \subseteq T
    <3> HIDE DEF T
    <3> QED BY <1>3, <1>4, Induction
  <2> HIDE DEF Fine
  <2> QED
    BY <1>2, <2>1
<1> QED
  BY <1>1, <1>2, <1>5 DEF DropsTurns

\* What is sent instead of msgs.
LEMMA OptimizeKeeps ==
  ASSUME NEW msgs \in Seq(AnyMessage), NEW input \in Nat, NEW summarizes \in BOOLEAN
  PROVE  /\ Keeps(msgs, Optimize(msgs, input, summarizes))
         /\ Budget > 0 /\ DropsTurns /\ (IF input > 0 THEN input
               ELSE EstimateTokens(msgs)) > Budget =>
              Cut(Optimize(msgs, input, summarizes))
<1> DEFINE est == IF input > 0 THEN input ELSE EstimateTokens(msgs)
           trySummary == SummarizeAt > 0 /\ est > SummarizeAt /\ summarizes
           shorter == IF trySummary THEN summarizeTurns(msgs) ELSE msgs
           est2 == IF trySummary THEN EstimateTokens(shorter) ELSE est
           out == Optimize(msgs, input, summarizes)
<1>1. out = IF Budget <= 0 \/ est <= Budget THEN msgs
            ELSE IF est2 > Budget THEN applyPruneLevels(shorter) ELSE shorter
  BY DEF Optimize
<1>2. Keeps(msgs, msgs)
  BY NothingShortens, ShortensKeeps
<1>3. Keeps(msgs, summarizeTurns(msgs))
  <2>1. PICK i, h : Shortens(msgs, summarizeTurns(msgs), i, h)
    BY SummaryShortens
  <2> QED
    BY <2>1, ShortensKeeps
<1>4. Keeps(msgs, shorter) /\ shorter \in Seq(AnyMessage)
  BY <1>2, <1>3 DEF Keeps
<1>5. est \in Nat /\ Budget \in Nat
  BY Estimated, OptimizerAssumption
<1>6. est2 \in Nat /\ (est2 = est \/ est2 = EstimateTokens(shorter))
  <2>1. EstimateTokens(shorter) \in Nat
    <3> HIDE DEF shorter
    <3> QED BY <1>4, Estimated
  <2> QED
    BY <1>5, <2>1
<1> HIDE DEF est, est2, shorter, out
<1>7. CASE Budget <= 0 \/ est <= Budget
  <2>1. out = msgs /\ (Budget > 0 => ~(est > Budget))
    BY <1>1, <1>5, <1>7
  <2> QED
    BY <1>2, <2>1 DEF est, out
<1>8. CASE ~(Budget <= 0 \/ est <= Budget) /\ est2 > Budget
  <2>1. out = applyPruneLevels(shorter)
    BY <1>1, <1>8
  <2>2. Keeps(shorter, out) /\ (Budget > 0 /\ DropsTurns => Cut(out))
    BY <1>4, <2>1, LevelsKeep
  <2>3. Keeps(msgs, out)
    BY <1>4, <2>2, KeepsOn
  <2> QED
    BY <2>2, <2>3 DEF out
<1>9. CASE ~(Budget <= 0 \/ est <= Budget) /\ ~(est2 > Budget)
  <2>1. out = shorter
    BY <1>1, <1>9
  <2>2. est2 = EstimateTokens(shorter) /\ est2 <= Budget
    BY <1>5, <1>6, <1>9
  <2>3. Cut(out)
    BY <2>1, <2>2 DEF Cut
  <2> QED
    BY <1>4, <2>1, <2>3 DEF out
<1> QED
  BY <1>7, <1>8, <1>9

----------------------------------------------------------------------------
(* The history *)

\* The types of the history's copies and of the turn.
HistoryTypes ==
  /\ cache \in Seq(AnyMessage) /\ log \in Seq(AnyMessage)
  /\ archived \in Seq(Seq(AnyMessage))
  /\ loaded \in BOOLEAN /\ torn \in BOOLEAN
  /\ overwritten \in BOOLEAN /\ miscounted \in BOOLEAN
  /\ pc \in Phases /\ turn \in 0..MaxRuns
  /\ count \in Nat /\ usage \in Nat

\* Until the log is loaded the cache holds the turn's user message at most, which
\* is the log's last then.
LoadInv ==
  ~loaded =>
    \/ pc = "idle" /\ cache = <<>>
    \/ /\ pc = "get" /\ Len(cache) = 1
       /\ Len(log) # 0 /\ log[Len(log)] = cache[1]

\* The cache is the log with one message more.
Repeats(i) ==
  /\ i \in 1..Len(cache) /\ Len(cache) = Len(log) + 1
  /\ \A j \in 1..Len(log) : log[j] = IF j < i THEN cache[j] ELSE cache[j + 1]
CopiesInv == loaded /\ ~torn => cache = log \/ \E i \in Nat : Repeats(i)

\* What RecordUsage is about to write back is right too.
CountInv ==
  ~miscounted => count = Len(log) /\ (pc = "usage" => usage = Len(log))

\* A turn's answer in a log.
AnswerIn(msgs, t) == \E i \in 1..Len(msgs) : msgs[i].kind = "text" /\ msgs[i].turn = t
AnsweredInv ==
  ~overwritten =>
    \A t \in answered :
      AnswerIn(log, t) \/ \E k \in 1..Len(archived) : AnswerIn(archived[k], t)

HistoryInv == HistoryTypes /\ LoadInv /\ CopiesInv /\ CountInv /\ AnsweredInv

\* A new session's history is empty.
LEMMA HistoryInit == ASSUME LoopInit PROVE HistoryInv
<1>1. HistoryTypes
  <2>1. <<>> \in Seq(AnyMessage) /\ <<>> \in Seq(Seq(AnyMessage))
    OBVIOUS
  <2>2. 0 \in 0..MaxRuns /\ 0 \in Nat
    BY LoopAssumption
  <2> QED
    BY <2>1, <2>2 DEF LoopInit, HistoryTypes, Phases
<1>2. LoadInv /\ CopiesInv /\ CountInv /\ AnsweredInv
  BY DEF LoopInit, LoadInv, CopiesInv, CountInv, AnsweredInv
<1> QED
  BY <1>1, <1>2 DEF HistoryInv

\* A log with a line more.
LEMMA Longer ==
  ASSUME NEW s \in Seq(AnyMessage), NEW m \in AnyMessage
  PROVE  /\ Append(s, m) \in Seq(AnyMessage) /\ Len(Append(s, m)) = Len(s) + 1
         /\ Len(s) \in Nat /\ Append(s, m)[Len(s) + 1] = m
         /\ \A i \in 1..Len(s) : Append(s, m)[i] = s[i]
         /\ \A t : AnswerIn(s, t) => AnswerIn(Append(s, m), t)
<1>1. /\ Append(s, m) \in Seq(AnyMessage) /\ Len(Append(s, m)) = Len(s) + 1
      /\ Len(s) \in Nat /\ Append(s, m)[Len(s) + 1] = m
      /\ \A i \in 1..Len(s) : Append(s, m)[i] = s[i]
  OBVIOUS
<1> QED
  BY <1>1 DEF AnswerIn

\* History.Append puts the same message at the end of both copies, and counts it.
LEMMA AppendKeepsHistory ==
  ASSUME HistoryInv, NEW m \in AnyMessage, HistoryAppend(m),
         UNCHANGED <<overwritten, miscounted>>
  PROVE  /\ cache' \in Seq(AnyMessage) /\ log' \in Seq(AnyMessage)
         /\ Len(cache') = Len(cache) + 1 /\ Len(cache) \in Nat /\ cache'[Len(cache')] = m
         /\ Len(log') = Len(log) + 1 /\ Len(log) \in Nat /\ log'[Len(log')] = m
         /\ count' = count + 1 /\ count' \in Nat /\ UNCHANGED <<loaded, torn, archived>>
         /\ CopiesInv'
         /\ \A t : AnswerIn(log, t) => AnswerIn(log', t)
<1>1. /\ cache \in Seq(AnyMessage) /\ log \in Seq(AnyMessage) /\ count \in Nat
      /\ cache' = Append(cache, m) /\ log' = Append(log, m) /\ count' = count + 1
      /\ UNCHANGED <<loaded, torn, archived>>
  BY DEF HistoryInv, HistoryTypes, HistoryAppend
<1>2. /\ cache' \in Seq(AnyMessage) /\ Len(cache') = Len(cache) + 1 /\ Len(cache) \in Nat
      /\ cache'[Len(cache) + 1] = m
      /\ \A i \in 1..Len(cache) : cache'[i] = cache[i]
  BY <1>1, Longer
<1>3. /\ log' \in Seq(AnyMessage) /\ Len(log') = Len(log) + 1 /\ Len(log) \in Nat
      /\ log'[Len(log) + 1] = m
      /\ \A i \in 1..Len(log) : log'[i] = log[i]
      /\ \A t : AnswerIn(log, t) => AnswerIn(log', t)
  BY <1>1, Longer
<1>4. CopiesInv'
  <2>1. ASSUME NEW i \in Nat, Repeats(i) PROVE Repeats(i)'
    <3> DEFINE n == Len(log)
    <3>1. /\ n \in Nat /\ Len(cache) = n + 1 /\ Len(log') = n + 1 /\ Len(cache') = n + 2
          /\ i \in 1..(n + 1)
      BY <1>2, <1>3, <2>1 DEF Repeats
    <3>2. \A j \in 1..n : /\ log'[j] = IF j < i THEN cache'[j] ELSE cache'[j + 1]
      <4>1. ASSUME NEW j \in 1..n PROVE log'[j] = IF j < i THEN cache'[j] ELSE cache'[j + 1]
        <5>1. j \in 1..Len(cache) /\ j + 1 \in 1..Len(cache) /\ j \in 1..Len(log)
          BY <3>1
        <5>2. log'[j] = log[j] /\ cache'[j] = cache[j] /\ cache'[j + 1] = cache[j + 1]
          BY <1>2, <1>3, <5>1
        <5> QED
          BY <2>1, <5>1, <5>2 DEF Repeats
      <4> QED
        BY <4>1
    <3>3. log'[n + 1] = m /\ cache'[n + 2] = m
      BY <1>2, <1>3, <3>1
    <3> HIDE DEF n
    <3>4. i \in 1..(n + 2) /\ n + 2 = (n + 1) + 1 /\ ~(n + 1 < i)
      BY <3>1
    <3>5. \A j \in 1..(n + 1) : log'[j] = IF j < i THEN cache'[j] ELSE cache'[j + 1]
      BY <3>1, <3>2, <3>3, <3>4
    <3> QED
      BY <3>1, <3>4, <3>5 DEF Repeats
  <2> QED
    BY <1>1, <2>1 DEF HistoryInv, CopiesInv
<1> QED
  BY <1>1, <1>2, <1>3, <1>4

\* The first Get repeats the one message that both copies hold.
LEMMA GetKeepsHistory ==
  ASSUME HistoryInv, SendRequest
  PROVE  HistoryInv'
<1>1. /\ pc = "get" /\ pc' = "llm" /\ loaded' = TRUE
      /\ cache' = IF loaded THEN cache ELSE StoreLoad \o cache
      /\ UNCHANGED <<log, torn, count, archived, turn, usage, answered, overwritten,
         miscounted>>
  BY DEF SendRequest, HistoryGet, Messages, faultVars
<1>2. cache \in Seq(AnyMessage) /\ log \in Seq(AnyMessage)
  BY DEF HistoryInv, HistoryTypes
<1>3. cache' \in Seq(AnyMessage)
  BY <1>1, <1>2 DEF StoreLoad
<1>4. HistoryTypes'
  BY <1>1, <1>3 DEF HistoryInv, HistoryTypes, Phases
<1>5. CopiesInv'
  <2>1. CASE loaded
    BY <1>1, <2>1 DEF HistoryInv, CopiesInv, Repeats
  <2>2. CASE ~loaded /\ ~torn
    <3>1. /\ Len(cache) = 1 /\ Len(log) \in Nat \ {0} /\ log[Len(log)] = cache[1]
          /\ cache' = log \o cache
      BY <1>1, <1>2, <2>2 DEF HistoryInv, LoadInv, StoreLoad
    <3>2. /\ Len(cache') = Len(log) + 1
          /\ \A j \in 1..Len(log) : cache'[j] = log[j]
          /\ cache'[Len(log) + 1] = cache[1]
      <4>1. /\ Len(log \o cache) = Len(log) + Len(cache)
            /\ \A j \in 1..(Len(log) + Len(cache)) :
                 (log \o cache)[j] = IF j <= Len(log) THEN log[j] ELSE cache[j - Len(log)]
        BY <1>2, ConcatProperties
      <4> QED
        BY <3>1, <4>1
    <3>3. Repeats(Len(log))'
      BY <1>1, <3>1, <3>2 DEF Repeats
    <3> QED
      BY <1>1, <3>1, <3>3 DEF CopiesInv
  <2> QED
    BY <1>1, <2>1, <2>2 DEF CopiesInv
<1>6. LoadInv' /\ CountInv' /\ AnsweredInv'
  BY <1>1 DEF HistoryInv, LoadInv, CountInv, AnsweredInv
<1> QED
  BY <1>4, <1>5, <1>6 DEF HistoryInv

\* The user's message is the first that an unloaded history holds.
LEMMA RunKeepsHistory ==
  ASSUME HistoryInv, RunBegins
  PROVE  HistoryInv'
<1> DEFINE m == Message("user", turn', 0, 1)
<1>1. /\ pc = "idle" /\ pc' = "get" /\ turn' \in 0..MaxRuns
      /\ HistoryAppend(m)
      /\ UNCHANGED <<usage, answered, overwritten, miscounted>>
  BY LoopAssumption DEF RunBegins, HistoryInv, HistoryTypes, faultVars
<1>2. m \in AnyMessage
  BY <1>1 DEF Message, AnyMessage, Kinds
<1> HIDE DEF m
<1>3. /\ cache' \in Seq(AnyMessage) /\ log' \in Seq(AnyMessage)
      /\ Len(cache') = Len(cache) + 1 /\ Len(cache) \in Nat /\ cache'[Len(cache')] = m
      /\ Len(log') = Len(log) + 1 /\ Len(log) \in Nat /\ log'[Len(log')] = m
      /\ count' = count + 1 /\ count' \in Nat /\ UNCHANGED <<loaded, torn, archived>>
      /\ CopiesInv'
      /\ \A t : AnswerIn(log, t) => AnswerIn(log', t)
  BY <1>1, <1>2, AppendKeepsHistory
<1>4. HistoryTypes' /\ CountInv' /\ AnsweredInv'
  BY <1>1, <1>3 DEF HistoryInv, HistoryTypes, CountInv, AnsweredInv, Phases
<1>5. LoadInv'
  <2>1. ~loaded => Len(cache) = 0
    BY <1>1 DEF HistoryInv, LoadInv
  <2> QED
    BY <1>1, <1>3, <2>1 DEF LoadInv
<1> QED
  BY <1>3, <1>4, <1>5 DEF HistoryInv

\* A response or tool results come when the log is loaded; an answer is in it.
LEMMA ResponseKeepsHistory ==
  ASSUME HistoryInv, LLMResponds \/ ToolsReturn
  PROVE  HistoryInv'
<1>1. PICK m \in AnyMessage :
        /\ HistoryAppend(m) /\ pc \in {"llm", "tools"} /\ pc' \in Phases
        /\ answered' \in {answered, answered \union {turn}}
        /\ answered' = answered \/ (m.kind = "text" /\ m.turn = turn)
        /\ usage' = usage \/ usage' = count'
        /\ pc' = "usage" => usage' = count'
        /\ UNCHANGED <<turn, overwritten, miscounted>>
  <2>1. CASE ToolsReturn
    <3>1. Message("tool", turn, 0, 2) \in AnyMessage
      BY DEF HistoryInv, HistoryTypes, Message, AnyMessage, Kinds
    <3> QED
      BY <2>1, <3>1 DEF ToolsReturn, Phases, faultVars
  <2>2. CASE LLMResponds
    <3>1. PICK m \in Responses :
            /\ HistoryAppend(m)
            /\ pc' = CASE m.kind = "text" -> "usage" [] m.kind = "call" -> "tools"
                       [] OTHER -> "idle"
            /\ answered' = IF m.kind = "text" THEN answered \union {turn} ELSE answered
            /\ usage' = IF m.kind = "text" THEN count' ELSE usage
      BY <2>2 DEF LLMResponds
    <3>2. m \in AnyMessage /\ m.turn = turn /\ m.kind \in {"text", "call", "cut"}
      BY <3>1 DEF HistoryInv, HistoryTypes, Responses, Message, AnyMessage, Kinds
    <3>3. pc = "llm" /\ UNCHANGED <<turn, overwritten, miscounted>>
      BY <2>2 DEF LLMResponds, faultVars
    <3> QED
      BY <3>1, <3>2, <3>3 DEF Phases
  <2> QED
    BY <2>1, <2>2
<1>2. /\ cache' \in Seq(AnyMessage) /\ log' \in Seq(AnyMessage)
      /\ Len(log') = Len(log) + 1 /\ Len(log) \in Nat /\ log'[Len(log')] = m
      /\ count' = count + 1 /\ count' \in Nat /\ UNCHANGED <<loaded, torn, archived>>
      /\ CopiesInv'
      /\ \A t : AnswerIn(log, t) => AnswerIn(log', t)
  BY <1>1, AppendKeepsHistory
<1>3. HistoryTypes' /\ LoadInv' /\ CountInv'
  BY <1>1, <1>2 DEF HistoryInv, HistoryTypes, LoadInv, CountInv
<1>4. AnsweredInv'
  <2>1. answered' = answered \/ AnswerIn(log', turn)
    BY <1>1, <1>2 DEF AnswerIn
  <2> QED
    BY <1>1, <1>2, <2>1 DEF HistoryInv, AnsweredInv
<1> QED
  BY <1>2, <1>3, <1>4 DEF HistoryInv

\* /clear empties all three copies, and archives what the log held.
LEMMA ClearKeepsHistory ==
  ASSUME HistoryInv, Clear
  PROVE  HistoryInv'
<1>1. PICK sameSecond \in BOOLEAN :
        /\ sameSecond => archived # <<>>
        /\ archived' = IF log = <<>> THEN archived
                       ELSE IF sameSecond THEN Append(Front(archived), log)
                       ELSE Append(archived, log)
        /\ overwritten' = (overwritten \/ (sameSecond /\ log # <<>>))
  BY DEF Clear, Archive
<1>2. /\ cache' = <<>> /\ loaded' = TRUE /\ count' = 0 /\ log' = <<>> /\ torn' = FALSE
      /\ miscounted' = (pc = "usage")
      /\ UNCHANGED <<pc, turn, usage, answered>>
  BY DEF Clear, HistoryClear, Archive, turnVars
<1>3. archived \in Seq(Seq(AnyMessage)) /\ log \in Seq(AnyMessage)
  BY DEF HistoryInv, HistoryTypes
<1>4. archived' \in Seq(Seq(AnyMessage))
  <2>1. archived # <<>> => Front(archived) \in Seq(Seq(AnyMessage))
    BY <1>3 DEF Front
  <2> QED
    BY <1>1, <1>3, <2>1, AppendProperties
<1>5. HistoryTypes'
  <2>1. <<>> \in Seq(AnyMessage) /\ 0 \in Nat
    OBVIOUS
  <2> QED
    BY <1>1, <1>2, <1>4, <2>1, Zenon DEF HistoryInv, HistoryTypes
<1>6. LoadInv' /\ CopiesInv' /\ CountInv'
  BY <1>2 DEF LoadInv, CopiesInv, CountInv
<1>7. ASSUME ~overwritten', NEW t \in answered'
      PROVE  \E k \in 1..Len(archived') : AnswerIn(archived'[k], t)
  <2>1. /\ ~overwritten /\ t \in answered
        /\ archived' = IF log = <<>> THEN archived ELSE Append(archived, log)
    BY <1>1, <1>2, <1>7
  <2>2. AnswerIn(log, t) \/ \E k \in 1..Len(archived) : AnswerIn(archived[k], t)
    BY <2>1 DEF HistoryInv, AnsweredInv
  <2>3. CASE log = <<>>
    BY <2>1, <2>2, <2>3 DEF AnswerIn
  <2>4. CASE log # <<>>
    <3>1. /\ Len(archived') = Len(archived) + 1 /\ Len(archived) \in Nat
          /\ archived'[Len(archived) + 1] = log
          /\ \A k \in 1..Len(archived) : archived'[k] = archived[k]
      BY <1>3, <2>1, <2>4
    <3> QED
      BY <2>2, <3>1
  <2> QED
    BY <2>3, <2>4
<1> QED
  BY <1>5, <1>6, <1>7 DEF HistoryInv, AnsweredInv

\* A process that dies leaves the log as it is, or with a line more that the
\* metadata does not count.
LEMMA CrashKeepsHistory ==
  ASSUME HistoryInv, Crash
  PROVE  HistoryInv'
<1>1. /\ cache' = <<>> /\ loaded' = FALSE /\ pc' = "idle"
      /\ UNCHANGED <<count, archived, turn, usage, answered, overwritten>>
  BY DEF Crash
<1>2. /\ torn' \in BOOLEAN
      /\ \/ log' = log /\ miscounted' = miscounted
         \/ miscounted' = TRUE /\ \E m \in AnyMessage : log' = Append(log, m)
  <2>1. InProgress \subseteq AnyMessage
    BY DEF HistoryInv, HistoryTypes, InProgress, Responses, Message, AnyMessage, Kinds, Phases
  <2> QED
    BY <2>1 DEF HistoryInv, HistoryTypes, Crash
<1>3. log' \in Seq(AnyMessage) /\ \A t : AnswerIn(log, t) => AnswerIn(log', t)
  BY <1>2, Longer DEF HistoryInv, HistoryTypes
<1>4. HistoryTypes'
  <2>1. cache' \in Seq(AnyMessage)
    BY <1>1
  <2>2. miscounted' \in BOOLEAN
    BY <1>2, Zenon DEF HistoryInv, HistoryTypes
  <2> QED
    BY <1>1, <1>2, <1>3, <2>1, <2>2, Zenon DEF HistoryInv, HistoryTypes, Phases
<1>5. LoadInv' /\ CopiesInv'
  BY <1>1 DEF LoadInv, CopiesInv
<1>6. CountInv'
  BY <1>1, <1>2 DEF HistoryInv, CountInv
<1>7. AnsweredInv'
  BY <1>1, <1>3 DEF HistoryInv, AnsweredInv
<1> QED
  BY <1>4, <1>5, <1>6, <1>7 DEF HistoryInv

\* Every step of the turn, /clear or a crash keeps HistoryInv.
LEMMA HistoryNext ==
  ASSUME HistoryInv, [LoopNext]_loopVars
  PROVE  HistoryInv'
<1>1. CASE LLMError
  <2>1. pc' = "idle" /\ pc = "llm"
          /\ UNCHANGED <<historyVars, turn, usage, answered, faultVars>>
    BY <1>1 DEF LLMError
  <2> QED
    BY <2>1 DEF HistoryInv, HistoryTypes, LoadInv, CopiesInv, Repeats, CountInv, AnsweredInv,
                historyVars, faultVars, Phases
<1>2. CASE RecordUsage
  <2>1. /\ pc = "usage" /\ pc' = "idle" /\ count' = usage
        /\ UNCHANGED <<cache, loaded, log, torn, archived, turn, usage, answered, faultVars>>
    BY <1>2 DEF RecordUsage
  <2> QED
    BY <2>1 DEF HistoryInv, HistoryTypes, LoadInv, CopiesInv, Repeats, CountInv, AnsweredInv,
                faultVars, Phases
<1>3. CASE UNCHANGED loopVars
  BY <1>3 DEF HistoryInv, HistoryTypes, LoadInv, CopiesInv, Repeats, CountInv, AnsweredInv,
              loopVars, historyVars, turnVars, faultVars
<1> QED
  BY <1>1, <1>2, <1>3, RunKeepsHistory, GetKeepsHistory, ResponseKeepsHistory,
     ClearKeepsHistory, CrashKeepsHistory DEF LoopNext

\* A sequence without one of its elements.
LEMMA Removed ==
  ASSUME NEW S, NEW s \in Seq(S), NEW i \in 1..Len(s)
  PROVE  /\ RemoveAt(s, i) \in Seq(S) /\ Len(RemoveAt(s, i)) = Len(s) - 1
         /\ \A j \in 1..(Len(s) - 1) : RemoveAt(s, i)[j] = IF j < i THEN s[j] ELSE s[j + 1]
<1> DEFINE before == SubSeq(s, 1, i - 1)
           after == SubSeq(s, i + 1, Len(s))
<1>1. Len(s) \in Nat /\ i \in Nat /\ 1 <= i /\ i <= Len(s)
  OBVIOUS
<1>2. /\ before \in Seq(S) /\ Len(before) = i - 1
      /\ \A j \in 1..(i - 1) : before[j] = s[j]
  BY <1>1
<1>3. /\ after \in Seq(S) /\ Len(after) = Len(s) - i
      /\ \A j \in 1..(Len(s) - i) : after[j] = s[i + j]
  BY <1>1
<1>4. RemoveAt(s, i) = before \o after
  BY DEF RemoveAt
<1> HIDE DEF before, after
<1>5. /\ before \o after \in Seq(S) /\ Len(before \o after) = Len(before) + Len(after)
      /\ \A j \in 1..(Len(before) + Len(after)) :
           (before \o after)[j] = IF j <= Len(before) THEN before[j] ELSE after[j - Len(before)]
  BY <1>2, <1>3, ConcatProperties
<1>6. ASSUME NEW j \in 1..(Len(s) - 1)
      PROVE  (before \o after)[j] = IF j < i THEN s[j] ELSE s[j + 1]
  BY <1>1, <1>2, <1>3, <1>5, <1>6
<1> QED
  BY <1>1, <1>2, <1>3, <1>4, <1>5, <1>6

\* History (src/internal/agent/history.go, store.go): over any turns, /clears,
\* crashes and restarts the cache is the log but for one message repeated, the
\* metadata counts the log's messages, and a turn's answer is in the log or an
\* archive, with the exceptions that the three properties name.
THEOREM HistoryCorrect == LoopSpec => []HistoryKept
<1>1. HistoryInv => HistoryKept
  <2> SUFFICES ASSUME HistoryInv
               PROVE  CacheIsLog /\ AnsweredIsLogged /\ CountMatchesLog
    BY DEF HistoryKept
  <2>1. /\ cache \in Seq(AnyMessage) /\ log \in Seq(AnyMessage)
        /\ archived \in Seq(Seq(AnyMessage))
    BY DEF HistoryInv, HistoryTypes
  <2>2. CacheIsLog
    <3>1. ASSUME NEW i \in Nat, Repeats(i) PROVE i \in DOMAIN cache /\ RemoveAt(cache, i) = log
      <4>1. /\ i \in 1..Len(cache) /\ Len(log) = Len(cache) - 1
            /\ \A j \in 1..Len(log) : log[j] = IF j < i THEN cache[j] ELSE cache[j + 1]
        BY <2>1, <3>1 DEF Repeats
      <4>2. /\ RemoveAt(cache, i) \in Seq(AnyMessage) /\ Len(RemoveAt(cache, i)) = Len(log)
            /\ \A j \in 1..Len(log) : RemoveAt(cache, i)[j] = log[j]
        BY <2>1, <4>1, Removed
      <4>3. RemoveAt(cache, i) = log
        BY <2>1, <4>2, SeqEqual
      <4> QED
        BY <2>1, <4>1, <4>3
    <3> QED
      BY <3>1 DEF HistoryInv, CopiesInv, CacheIsLog
  <2>3. AnsweredIsLogged
    <3>1. ASSUME NEW msgs \in Seq(AnyMessage), NEW t, AnswerIn(msgs, t)
          PROVE  \E i \in DOMAIN msgs : msgs[i].kind = "text" /\ msgs[i].turn = t
      BY <3>1 DEF AnswerIn
    <3>2. \A k \in 1..Len(archived) :
            archived[k] \in Seq(AnyMessage) /\ archived[k] \in Range(archived)
      BY <2>1 DEF Range
    <3> QED
      <4> SUFFICES ASSUME ~overwritten, NEW t \in answered
                   PROVE  \E msgs \in {log} \union Range(archived) :
                            \E i \in DOMAIN msgs : msgs[i].kind = "text" /\ msgs[i].turn = t
        BY DEF AnsweredIsLogged
      <4>1. \E msgs \in {log} \union Range(archived) :
              msgs \in Seq(AnyMessage) /\ AnswerIn(msgs, t)
        BY <2>1, <3>2 DEF HistoryInv, AnsweredInv
      <4> QED
        BY <3>1, <4>1
  <2>4. CountMatchesLog
    BY DEF HistoryInv, CountInv, CountMatchesLog
  <2> QED
    BY <2>2, <2>3, <2>4
<1> QED
  BY <1>1, HistoryInit, HistoryNext, PTL DEF LoopSpec

----------------------------------------------------------------------------
(* The requests *)

\* What is sent after the log's last turn began: the turn, at the end of both copies
\* of the history, and of the request.
TurnAtEnd == \E n : HasTurn(log, n) /\ EndsAlike(log, cache, n)
TurnSent == \E n : HasTurn(log, n) /\ EndsAlike(log, context, n)

\* The last message of msgs is the call of turn t.
EndsWithCall(msgs, t) ==
  Len(msgs) # 0 /\ msgs[Len(msgs)].kind = "call" /\ msgs[Len(msgs)].turn = t

OverBudget == Budget > 0 /\ (IF known > 0 THEN known ELSE EstimateTokens(cache)) > Budget

\* Between the calls of the model: both copies of the history end with the current
\* turn, and their results are at their calls.
CopiesSound ==
  /\ clearedIn \subseteq 1..turn /\ known \in Nat
  /\ pc # "idle" => turn # 0
  /\ Adjacent(log, clearedIn) /\ Adjacent(cache, clearedIn)
  /\ ~loaded /\ pc = "get" => Len(cache) = 1 /\ cache[1].kind = "user"
  /\ pc # "idle" /\ turn \notin clearedIn => TurnAtEnd
  /\ pc = "tools" /\ turn \notin clearedIn => EndsWithCall(log, turn)
        /\ EndsWithCall(cache, turn)

\* During one: so does what was sent.
SentSound ==
  pc = "llm" =>
    /\ context \in Seq(AnyMessage)
    /\ Adjacent(context, clearedIn)
    /\ turn \notin clearedIn => TurnSent
    /\ OverBudget /\ DropsTurns => Cut(context)

RequestInv == HistoryInv /\ CopiesSound /\ SentSound

\* A message more.
LEMMA AdjacentAppend ==
  ASSUME NEW s \in Seq(AnyMessage), NEW exempt, Adjacent(s, exempt), NEW m \in AnyMessage,
         m.kind = "tool" => m.turn \in exempt \/ EndsWithCall(s, m.turn)
  PROVE  Adjacent(Append(s, m), exempt)
<1> DEFINE n == Len(s)
           t == Append(s, m)
<1>1. /\ n \in Nat /\ Len(t) = n + 1 /\ t[n + 1] = m /\ \A i \in 1..n : t[i] = s[i]
  OBVIOUS
<1>2. \A i \in 1..n : s[i].kind = "tool" /\ s[i].turn \notin exempt =>
         i > 1 /\ s[i - 1].kind = "call" /\ s[i - 1].turn = s[i].turn
  BY DEF Adjacent
<1>3. EndsWithCall(s, m.turn) => n # 0 /\ s[n].kind = "call" /\ s[n].turn = m.turn
  BY DEF EndsWithCall
<1> HIDE DEF n, t
<1> SUFFICES ASSUME NEW i \in 1..Len(t), t[i].kind = "tool", t[i].turn \notin exempt
             PROVE  i > 1 /\ t[i - 1].kind = "call" /\ t[i - 1].turn = t[i].turn
  BY DEF Adjacent, t
<1>4. CASE i = n + 1
  <2>1. n # 0 /\ s[n].kind = "call" /\ s[n].turn = m.turn
    BY <1>1, <1>3, <1>4
  <2>2. i > 1 /\ i - 1 = n /\ n \in 1..n
    BY <1>1, <1>4, <2>1
  <2> QED
    BY <1>1, <1>4, <2>1, <2>2
<1>5. CASE i # n + 1
  <2>1. i \in 1..n /\ i - 1 \in Int
    BY <1>1, <1>5
  <2>2. i > 1 /\ s[i - 1].kind = "call" /\ s[i - 1].turn = s[i].turn
    BY <1>1, <1>2, <2>1
  <2>3. i - 1 \in 1..n
    BY <1>1, <2>1, <2>2
  <2> QED
    BY <1>1, <2>1, <2>2, <2>3
<1> QED
  BY <1>4, <1>5

\* A message that is not the user's makes the last turn longer.
LEMMA TurnGrows ==
  ASSUME NEW s \in Seq(AnyMessage), NEW t \in Seq(AnyMessage), NEW m \in AnyMessage, ~IsUser(m),
         NEW n, HasTurn(s, n), EndsAlike(s, t, n)
  PROVE  HasTurn(Append(s, m), n + 1) /\ EndsAlike(Append(s, m), Append(t, m), n + 1)
<1> DEFINE k == Len(s)
           l == Len(t)
           x == Append(s, m)
           y == Append(t, m)
<1>1. /\ k \in Nat /\ Len(x) = k + 1 /\ x[k + 1] = m /\ \A i \in 1..k : x[i] = s[i]
      /\ l \in Nat /\ Len(y) = l + 1 /\ y[l + 1] = m /\ \A i \in 1..l : y[i] = t[i]
  OBVIOUS
<1>2. n \in 1..k /\ IsUser(s[k - n + 1]) /\ \A i \in (k - n + 2)..k : ~IsUser(s[i])
  BY DEF HasTurn
<1>3. n <= l /\ \A d \in 0..(n - 1) : s[k - d] = t[l - d]
  BY DEF EndsAlike
<1> HIDE DEF k, l, x, y
<1>4. HasTurn(x, n + 1)
  <2>1. n + 1 \in 1..(k + 1) /\ (k + 1) - (n + 1) + 1 = k - n + 1 /\ k - n + 1 \in 1..k
        /\ (k + 1) - (n + 1) + 2 = k - n + 2
    BY <1>1, <1>2
  <2>2. ASSUME NEW i \in (k - n + 2)..(k + 1) PROVE ~IsUser(x[i])
    <3>1. i = k + 1 \/ (i \in (k - n + 2)..k /\ i \in 1..k)
      BY <1>1, <1>2
    <3> QED
      BY <1>1, <1>2, <3>1
  <2>3. IsUser(x[k - n + 1])
    BY <1>1, <1>2, <2>1
  <2> QED
    BY <1>1, <2>1, <2>2, <2>3 DEF HasTurn
<1>5. EndsAlike(x, y, n + 1)
  <2>1. ASSUME NEW d \in 0..n PROVE x[Len(x) - d] = y[Len(y) - d]
    <3>1. CASE d = 0
      <4>1. Len(x) - d = k + 1 /\ Len(y) - d = l + 1
        BY <1>1, <3>1
      <4> QED
        BY <1>1, <4>1
    <3>2. CASE d # 0
      <4>0. d \in Int /\ n \in Int /\ 1 <= d /\ d <= n /\ n <= k /\ n <= l
        BY <1>1, <1>2, <1>3, <3>2
      <4>1. d - 1 \in 0..(n - 1) /\ k - (d - 1) \in 1..k /\ l - (d - 1) \in 1..l
        <5>1. k \in Nat /\ l \in Nat
          BY <1>1
        <5> QED
          BY <4>0, <5>1
      <4>2. s[k - (d - 1)] = t[l - (d - 1)]
        BY <1>3, <4>1
      <4>3. Len(x) - d = k - (d - 1) /\ Len(y) - d = l - (d - 1)
        BY <1>1, <4>0
      <4> QED
        BY <1>1, <4>1, <4>2, <4>3
    <3> QED
      BY <3>1, <3>2
  <2>2. n + 1 <= Len(x) /\ n + 1 <= Len(y) /\ (n + 1) - 1 = n
    BY <1>1, <1>2, <1>3
  <2> QED
    BY <2>1, <2>2 DEF EndsAlike
<1> QED
  BY <1>4, <1>5 DEF x, y

\* One that is begins a turn.
LEMMA TurnBegins ==
  ASSUME NEW s \in Seq(AnyMessage), NEW t \in Seq(AnyMessage), NEW m \in AnyMessage, IsUser(m)
  PROVE  HasTurn(Append(s, m), 1) /\ EndsAlike(Append(s, m), Append(t, m), 1)
<1> DEFINE k == Len(s)
           l == Len(t)
           x == Append(s, m)
           y == Append(t, m)
<1>1. /\ k \in Nat /\ Len(x) = k + 1 /\ x[k + 1] = m
      /\ l \in Nat /\ Len(y) = l + 1 /\ y[l + 1] = m
  OBVIOUS
<1> HIDE DEF k, l, x, y
<1>2. HasTurn(x, 1)
  <2>1. 1 \in 1..(k + 1) /\ (k + 1) - 1 + 1 = k + 1 /\ \A i \in (k + 1 - 1 + 2)..(k + 1) : FALSE
    BY <1>1
  <2> QED
    BY <1>1, <2>1 DEF HasTurn
<1>3. EndsAlike(x, y, 1)
  <2>1. 1 <= k + 1 /\ 1 <= l + 1 /\ \A d \in 0..(1 - 1) : k + 1 - d = k + 1 /\ l + 1 - d = l + 1
    BY <1>1
  <2> QED
    BY <1>1, <2>1 DEF EndsAlike
<1> QED
  BY <1>2, <1>3 DEF x, y

\* An append keeps both copies sound, if a result is appended after its call.
LEMMA AppendKeepsSound ==
  ASSUME RequestInv, NEW m \in AnyMessage, HistoryAppend(m), UNCHANGED clearedIn,
         m.kind = "tool" =>
           m.turn \in clearedIn \/ (EndsWithCall(log, m.turn) /\ EndsWithCall(cache, m.turn))
  PROVE  /\ Adjacent(log, clearedIn)' /\ Adjacent(cache, clearedIn)'
         /\ IsUser(m) \/ TurnAtEnd => TurnAtEnd'
         /\ m.kind = "call" => EndsWithCall(log', m.turn) /\ EndsWithCall(cache', m.turn)
<1>1. cache' = Append(cache, m) /\ log' = Append(log, m) /\ clearedIn' = clearedIn
  BY DEF HistoryAppend
<1>2. /\ cache \in Seq(AnyMessage) /\ log \in Seq(AnyMessage)
      /\ Adjacent(log, clearedIn) /\ Adjacent(cache, clearedIn)
  BY DEF RequestInv, HistoryInv, HistoryTypes, CopiesSound
<1>3. Adjacent(log, clearedIn)' /\ Adjacent(cache, clearedIn)'
  BY <1>1, <1>2, AdjacentAppend
<1>4. m.kind = "call" => EndsWithCall(log', m.turn) /\ EndsWithCall(cache', m.turn)
  <2>1. \A s \in {log, cache} :
          Len(Append(s, m)) = Len(s) + 1 /\ Len(s) \in Nat /\ Append(s, m)[Len(s) + 1] = m
    BY <1>2, AppendProperties
  <2> QED
    BY <1>1, <2>1 DEF EndsWithCall
<1>5. CASE IsUser(m)
  <2>1. HasTurn(log', 1) /\ EndsAlike(log', cache', 1)
    BY <1>1, <1>2, <1>5, TurnBegins
  <2>2. TurnAtEnd'
    BY <2>1 DEF TurnAtEnd
  <2> QED
    BY <1>3, <1>4, <2>2
<1>6. ASSUME ~IsUser(m), TurnAtEnd PROVE TurnAtEnd'
  <2>1. PICK n : HasTurn(log, n) /\ EndsAlike(log, cache, n)
    BY <1>6 DEF TurnAtEnd
  <2>2. HasTurn(log', n + 1) /\ EndsAlike(log', cache', n + 1)
    BY <1>1, <1>2, <1>6, <2>1, TurnGrows
  <2> QED
    BY <2>2 DEF TurnAtEnd
<1> QED
  BY <1>3, <1>5, <1>6, <1>4

\* A run's user message is the last turn of both copies.
LEMMA RunKeepsSound == ASSUME RequestInv, RunBegins PROVE CopiesSound' /\ SentSound'
<1> DEFINE m == Message("user", turn', 0, 1)
<1>1. /\ pc = "idle" /\ pc' = "get" /\ turn' = turn + 1 /\ turn' \in 0..MaxRuns /\ turn \in Nat
      /\ HistoryAppend(m) /\ known' = 0 /\ clearedIn' = clearedIn /\ loaded' = loaded
      /\ cache' = Append(cache, m)
  BY LoopAssumption DEF RunBegins, HistoryAppend, RequestInv, HistoryInv, HistoryTypes,
     faultVars
<1>2. m \in AnyMessage /\ m.kind = "user" /\ IsUser(m)
  BY <1>1 DEF Message, AnyMessage, Kinds, IsUser
<1> HIDE DEF m
<1>3. Adjacent(log, clearedIn)' /\ Adjacent(cache, clearedIn)' /\ TurnAtEnd'
  BY <1>1, <1>2, AppendKeepsSound
<1>4. clearedIn' \subseteq 1..turn'
  BY <1>1 DEF RequestInv, CopiesSound
<1>5. ASSUME ~loaded' PROVE Len(cache') = 1 /\ cache'[1].kind = "user"
  <2>1. cache = <<>>
    BY <1>1, <1>5 DEF RequestInv, HistoryInv, LoadInv
  <2>2. cache' = Append(<<>>, m)
    BY <1>1, <2>1
  <2> QED
    BY <1>2, <2>2
<1> QED
  BY <1>1, <1>3, <1>4, <1>5 DEF CopiesSound, SentSound

\* The first read of a session's history puts the log before its user message.
LEMMA MessagesSound ==
  ASSUME RequestInv, pc = "get"
  PROVE  /\ Messages \in Seq(AnyMessage) /\ Adjacent(Messages, clearedIn)
         /\ \A n : HasTurn(log, n) /\ EndsAlike(log, cache, n) => EndsAlike(log, Messages, n)
<1>1. /\ cache \in Seq(AnyMessage) /\ log \in Seq(AnyMessage)
      /\ Adjacent(log, clearedIn) /\ Adjacent(cache, clearedIn)
  BY DEF RequestInv, HistoryInv, HistoryTypes, CopiesSound
<1>2. CASE loaded
  BY <1>1, <1>2 DEF Messages
<1>3. CASE ~loaded
  <2> DEFINE s == StoreLoad
             m == cache[1]
             k == Len(s)
  <2>1. Len(cache) = 1 /\ m.kind = "user" /\ m \in AnyMessage
    <3>1. Len(cache) = 1 /\ cache[1].kind = "user"
      BY <1>3 DEF RequestInv, CopiesSound
    <3>2. 1 \in 1..Len(cache)
      BY <3>1
    <3>3. cache[1] \in AnyMessage
      BY <1>1, <3>2
    <3> QED
      BY <3>1, <3>3
  <2>2. s \in Seq(AnyMessage) /\ Adjacent(s, clearedIn) /\ k \in Nat
    <3>1. <<>> \in Seq(AnyMessage) /\ Adjacent(<<>>, clearedIn)
      BY DEF Adjacent
    <3>2. s \in Seq(AnyMessage) /\ Adjacent(s, clearedIn)
      BY <1>1, <3>1 DEF StoreLoad
    <3> QED
      BY <3>2
  <2> HIDE DEF s
  <2>3. cache = <<m>>
    <3>1. <<m>> \in Seq(AnyMessage) /\ Len(<<m>>) = 1 /\ <<m>>[1] = m
      BY <2>1
    <3>2. \A i \in 1..1 : cache[i] = <<m>>[i]
      BY <3>1
    <3> DEFINE t == <<m>>
    <3> HIDE DEF t
    <3> QED
      BY <1>1, <2>1, <3>1, <3>2, SeqEqual DEF t
  <2> HIDE DEF m
  <2>4. Messages = Append(s, m)
    <3>1. Messages = s \o <<m>>
      BY <1>3, <2>3 DEF Messages, s
    <3> QED
      BY <2>1, <2>2, <3>1, AppendIsConcat
  <2>5. Adjacent(Messages, clearedIn) /\ Messages \in Seq(AnyMessage)
    BY <2>1, <2>2, <2>4, AdjacentAppend, AppendProperties
  <2>6. ASSUME NEW n, HasTurn(log, n), EndsAlike(log, cache, n)
          PROVE EndsAlike(log, Messages, n)
    <3>1. n \in 1..Len(log) /\ n <= 1 /\ \A d \in 0..(n - 1) : log[Len(log) - d] = cache[1 - d]
      BY <2>1, <2>6 DEF HasTurn, EndsAlike
    <3>2. n = 1 /\ Len(log) \in Nat
      BY <1>1, <3>1
    <3>3. log[Len(log) - 0] = cache[1 - 0]
      BY <3>1, <3>2
    <3>4. Len(Messages) = k + 1 /\ Messages[k + 1] = m
      BY <2>1, <2>2, <2>4, AppendProperties
    <3>5. log[Len(log) - 0] = Messages[k + 1 - 0]
      BY <2>2, <3>3, <3>4 DEF m
    <3> HIDE DEF k
    <3>6. n <= Len(Messages) /\ \A d \in 0..(n - 1) : d = 0
      BY <2>2, <3>2, <3>4
    <3> QED
      BY <3>1, <3>2, <3>4, <3>5, <3>6 DEF EndsAlike
  <2> QED
    BY <2>5, <2>6
<1> QED
  BY <1>2, <1>3

\* What is sent is what the optimizer makes of the history.
LEMMA SendKeepsSound == ASSUME RequestInv, SendRequest PROVE CopiesSound' /\ SentSound'
<1>1. /\ pc = "get" /\ pc' = "llm" /\ cache' = Messages /\ loaded' = TRUE
      /\ UNCHANGED <<log, turn, known, clearedIn>>
  BY DEF SendRequest, HistoryGet, faultVars
<1>2. PICK summarizes \in BOOLEAN : context' = Optimize(Messages, known, summarizes)
  BY DEF SendRequest
<1>3. /\ Messages \in Seq(AnyMessage) /\ Adjacent(Messages, clearedIn)
      /\ \A n : HasTurn(log, n) /\ EndsAlike(log, cache, n) => EndsAlike(log, Messages, n)
  BY <1>1, MessagesSound
<1>4. /\ clearedIn \subseteq 1..turn /\ known \in Nat /\ turn # 0
      /\ Adjacent(log, clearedIn)
      /\ turn \notin clearedIn => TurnAtEnd
      /\ log \in Seq(AnyMessage)
  BY <1>1 DEF RequestInv, CopiesSound, HistoryInv, HistoryTypes
<1> DEFINE est == IF known > 0 THEN known ELSE EstimateTokens(Messages)
<1>5. /\ Keeps(Messages, context')
      /\ Budget > 0 /\ DropsTurns /\ est > Budget => Cut(context')
  BY <1>2, <1>3, <1>4, OptimizeKeeps
<1>6. context' \in Seq(AnyMessage) /\ Adjacent(context', clearedIn')
  BY <1>1, <1>3, <1>5 DEF Keeps
<1>7. ASSUME turn' \notin clearedIn' PROVE TurnAtEnd' /\ TurnSent'
  <2>1. PICK n : HasTurn(log, n) /\ EndsAlike(log, cache, n)
    BY <1>1, <1>4, <1>7 DEF TurnAtEnd
  <2>2. EndsAlike(log, Messages, n)
    BY <1>3, <2>1
  <2>3. HasTurn(Messages, n)
    BY <1>3, <1>4, <2>1, <2>2, TurnByEnd
  <2>4. EndsAlike(Messages, context', n)
    BY <1>5, <2>3 DEF Keeps
  <2>5. EndsAlike(log, context', n)
    BY <2>2, <2>4 DEF EndsAlike
  <2>6. TurnAtEnd'
    BY <1>1, <2>1, <2>2 DEF TurnAtEnd
  <2>7. TurnSent'
    BY <1>1, <2>1, <2>5 DEF TurnSent
  <2> QED
    BY <2>6, <2>7
<1>8. OverBudget' /\ DropsTurns => Cut(context')
  BY <1>1, <1>5 DEF OverBudget
<1>9. CopiesSound'
  BY <1>1, <1>3, <1>4, <1>7 DEF CopiesSound
<1> QED
  BY <1>6, <1>7, <1>8, <1>9 DEF SentSound

\* Calls end both copies while the tools run.
LEMMA ResponseKeepsSound == ASSUME RequestInv, LLMResponds PROVE CopiesSound' /\ SentSound'
<1>1. PICK m \in Responses, tokens \in Usages :
        /\ HistoryAppend(m) /\ known' = tokens

                  /\ pc' = CASE m.kind = "text" -> "usage" [] m.kind = "call" -> "tools" [] OTHER -> "idle"
  BY DEF LLMResponds
<1>2. /\ m \in AnyMessage /\ m.turn = turn /\ m.kind \in {"text", "call", "cut"}
  BY <1>1 DEF RequestInv, HistoryInv, HistoryTypes, Responses, Message, AnyMessage, Kinds
<1>3. /\ pc = "llm" /\ UNCHANGED turn /\ UNCHANGED clearedIn /\ UNCHANGED loaded
      /\ known' \in Nat
  BY <1>1, LoopAssumption DEF LLMResponds, HistoryAppend, faultVars
<1>4. clearedIn \subseteq 1..turn /\ turn # 0 /\ (turn \notin clearedIn => TurnAtEnd)
  BY <1>3 DEF RequestInv, CopiesSound
<1>5. /\ Adjacent(log, clearedIn)' /\ Adjacent(cache, clearedIn)'
      /\ IsUser(m) \/ TurnAtEnd => TurnAtEnd'
      /\ m.kind = "call" => EndsWithCall(log', m.turn) /\ EndsWithCall(cache', m.turn)
  BY <1>1, <1>2, <1>3, AppendKeepsSound
<1>6. pc' \in {"usage", "tools", "idle"} /\ (pc' = "tools" => m.kind = "call")
  BY <1>1, <1>2
<1> QED
  BY <1>2, <1>3, <1>4, <1>5, <1>6 DEF CopiesSound, SentSound

\* So their results come right after them.
LEMMA ToolsKeepSound == ASSUME RequestInv, ToolsReturn PROVE CopiesSound' /\ SentSound'
<1> DEFINE m == Message("tool", turn, 0, 2)
<1>1. /\ pc = "tools" /\ HistoryAppend(m) /\ pc' \in {"idle", "get"}
      /\ UNCHANGED turn /\ UNCHANGED clearedIn /\ UNCHANGED loaded /\ UNCHANGED known
  BY DEF ToolsReturn, HistoryAppend, faultVars
<1>2. m \in AnyMessage /\ m.kind = "tool" /\ m.turn = turn
  BY DEF RequestInv, HistoryInv, HistoryTypes, Message, AnyMessage, Kinds
<1> HIDE DEF m
<1>3. /\ clearedIn \subseteq 1..turn /\ known \in Nat /\ turn # 0
      /\ turn \notin clearedIn =>
           TurnAtEnd /\ EndsWithCall(log, turn) /\ EndsWithCall(cache, turn)
  BY <1>1 DEF RequestInv, CopiesSound
<1>4. loaded
  BY <1>1 DEF RequestInv, HistoryInv, LoadInv
<1>5. /\ Adjacent(log, clearedIn)' /\ Adjacent(cache, clearedIn)'
      /\ IsUser(m) \/ TurnAtEnd => TurnAtEnd'
  BY <1>1, <1>2, <1>3, AppendKeepsSound
<1> QED
  BY <1>1, <1>3, <1>4, <1>5 DEF CopiesSound, SentSound

\* A larger set of exempt turns exempts more.
LEMMA MoreExempt ==
  ASSUME NEW msgs, NEW a, NEW b, a \subseteq b, Adjacent(msgs, a) PROVE Adjacent(msgs, b)
  BY DEF Adjacent

\* A turn that /clear came in is exempt from then on.
LEMMA ClearKeepsSound == ASSUME RequestInv, Clear PROVE CopiesSound' /\ SentSound'
<1>1. /\ cache' = <<>> /\ log' = <<>> /\ loaded' = TRUE
      /\ clearedIn' = IF pc = "idle" THEN clearedIn ELSE clearedIn \union {turn}
      /\ UNCHANGED turnVars
  BY DEF Clear, HistoryClear, Archive
<1>2. UNCHANGED <<pc, turn, known, context>>
  BY <1>1 DEF turnVars
<1>3. /\ clearedIn \subseteq 1..turn /\ known \in Nat /\ turn \in Nat
      /\ pc # "idle" => turn \in 1..turn
  <2>1. /\ clearedIn \subseteq 1..turn /\ known \in Nat /\ turn \in 0..MaxRuns
    BY DEF RequestInv, CopiesSound, HistoryInv, HistoryTypes
  <2>2. pc # "idle" => turn # 0
    BY DEF RequestInv, CopiesSound
  <2> QED
    BY <2>1, <2>2, LoopAssumption
<1>4. Adjacent(log', clearedIn') /\ Adjacent(cache', clearedIn')
  BY <1>1 DEF Adjacent
<1>5. CopiesSound'
  BY <1>1, <1>2, <1>3, <1>4 DEF CopiesSound
<1>6. ASSUME pc' = "llm"
      PROVE  /\ context' \in Seq(AnyMessage) /\ Adjacent(context', clearedIn')
             /\ turn' \in clearedIn'
             /\ OverBudget' /\ DropsTurns => Cut(context')
  <2>1. /\ context \in Seq(AnyMessage) /\ Adjacent(context, clearedIn)
        /\ OverBudget /\ DropsTurns => Cut(context)
    BY <1>2, <1>6 DEF RequestInv, SentSound
  <2>2. Adjacent(context, clearedIn')
    BY <1>1, <2>1, MoreExempt
  <2>3. OverBudget' => OverBudget
    <3>1. Budget \in Nat /\ known' = known
      BY <1>2, OptimizerAssumption
    <3>2. EstimateTokens(cache') = 0
      BY <1>1, NothingEstimated
    <3> QED
      BY <3>1, <3>2 DEF OverBudget
  <2> QED
    BY <1>1, <1>2, <1>6, <2>1, <2>2, <2>3
<1> QED
  BY <1>5, <1>6 DEF SentSound

\* What a dying process appends comes after its call as well.
LEMMA CrashKeepsSound == ASSUME RequestInv, Crash PROVE CopiesSound' /\ SentSound'
<1>1. /\ cache' = <<>> /\ pc' = "idle"
      /\ UNCHANGED turn /\ UNCHANGED known /\ UNCHANGED clearedIn
      /\ log' = log \/ \E m \in InProgress : log' = Append(log, m)
  BY DEF Crash
<1>2. /\ clearedIn \subseteq 1..turn /\ known \in Nat
      /\ log \in Seq(AnyMessage) /\ Adjacent(log, clearedIn)
      /\ pc = "tools" /\ turn \notin clearedIn => EndsWithCall(log, turn)
  BY DEF RequestInv, CopiesSound, HistoryInv, HistoryTypes
<1>3. Adjacent(log', clearedIn')
  <2>1. ASSUME NEW m \in InProgress PROVE Adjacent(Append(log, m), clearedIn)
    <3>1. /\ m \in AnyMessage /\ m.turn = turn
          /\ m.kind = "tool" => pc = "tools"
      BY DEF InProgress, RequestInv, HistoryInv, HistoryTypes, Responses, Message,
         AnyMessage, Kinds
    <3> QED
      BY <1>2, <3>1, AdjacentAppend
  <2> QED
    BY <1>1, <1>2, <2>1
<1>4. Adjacent(cache', clearedIn')
  BY <1>1 DEF Adjacent
<1> QED
  BY <1>1, <1>2, <1>3, <1>4 DEF CopiesSound, SentSound

\* A new session has sent nothing.
LEMMA RequestInit == ASSUME LoopInit PROVE RequestInv
<1>1. HistoryInv
  BY HistoryInit
<1>2. Adjacent(log, clearedIn) /\ Adjacent(cache, clearedIn)
  BY DEF LoopInit, Adjacent
<1>3. CopiesSound /\ SentSound
  BY <1>2 DEF LoopInit, CopiesSound, SentSound
<1> QED
  BY <1>1, <1>3 DEF RequestInv

\* Every step of the turn, /clear or a crash keeps RequestInv.
LEMMA RequestNext == ASSUME RequestInv, [LoopNext]_loopVars PROVE RequestInv'
<1>1. HistoryInv'
  BY HistoryNext DEF RequestInv
<1>2. CASE LLMError \/ RecordUsage
  <2>1. /\ pc' = "idle"
        /\ UNCHANGED <<cache, log, loaded, turn, known, clearedIn>>
    BY <1>2 DEF LLMError, RecordUsage, historyVars, faultVars
  <2>2. CopiesSound' /\ SentSound'
    BY <2>1 DEF RequestInv, CopiesSound, SentSound
  <2> QED
    BY <1>1, <2>2 DEF RequestInv
<1>3. CASE UNCHANGED loopVars
  <2>1. UNCHANGED <<pc, cache, log, loaded, turn, known, clearedIn, context>>
    BY <1>3 DEF loopVars, historyVars, turnVars, faultVars
  <2>2. CopiesSound' /\ SentSound'
    BY <2>1 DEF RequestInv, CopiesSound, SentSound, TurnAtEnd, TurnSent, OverBudget
  <2> QED
    BY <1>1, <2>2 DEF RequestInv
<1> QED
  BY <1>1, <1>2, <1>3, RunKeepsSound, SendKeepsSound, ResponseKeepsSound, ToolsKeepSound,
     ClearKeepsSound, CrashKeepsSound DEF LoopNext, RequestInv

\* A sequence that ends like a log whose last n messages are its last turn has that
\* turn as its suffix.
LEMMA SuffixByEnd ==
  ASSUME NEW s \in Seq(AnyMessage), NEW t \in Seq(AnyMessage), NEW n,
         HasTurn(s, n), EndsAlike(s, t, n)
  PROVE  IsSuffix(From(s, lastTurnStart(s)), t)
<1> DEFINE k == Len(s)
           l == Len(t)
           x == SubSeq(s, k - n + 1, k)
           a == Reverse(x)
           b == Reverse(t)
<1>1. /\ k \in Nat /\ l \in Nat /\ n \in 1..k /\ n <= l
      /\ \A d \in 0..(n - 1) : s[k - d] = t[l - d]
      /\ \A i \in 1..k : s[i] \in AnyMessage
  BY DEF HasTurn, EndsAlike
<1>2. From(s, lastTurnStart(s)) = x
  BY LastStart DEF From
<1>3. x \in Seq(AnyMessage) /\ Len(x) = n /\ \A i \in 1..n : x[i] = s[k - n + i]
  <2>1. k - n + 1 \in Int /\ k \in Int /\ (k - n + 1)..k \subseteq 1..k
        /\ k - (k - n + 1) + 1 = n /\ k - n + 1 <= k
        /\ \A i \in 1..n : k - n + 1 + i - 1 = k - n + i
    BY <1>1
  <2>2. \A i \in (k - n + 1)..k : s[i] \in AnyMessage
    BY <1>1, <2>1
  <2> HIDE DEF k
  <2>3. /\ x \in Seq(AnyMessage) /\ Len(x) = k - (k - n + 1) + 1
        /\ \A i \in 1..(k - (k - n + 1) + 1) : x[i] = s[k - n + 1 + i - 1]
    BY <2>1, <2>2, SubSeqProperties
  <2> HIDE DEF x
  <2> QED
    BY <2>1, <2>3
<1> HIDE DEF x, k
<1>4. a \in Seq(AnyMessage) /\ Len(a) = n /\ \A i \in 1..n : a[i] = s[k - i + 1]
  <2>1. a \in Seq(AnyMessage) /\ Len(a) = n /\ \A i \in 1..n : a[i] = x[n - i + 1]
    BY <1>3, Reversed
  <2>2. \A i \in 1..n : n - i + 1 \in 1..n /\ k - n + (n - i + 1) = k - i + 1
    BY <1>1
  <2> QED
    BY <1>3, <2>1, <2>2
<1>5. b \in Seq(AnyMessage) /\ Len(b) = l /\ \A i \in 1..l : b[i] = t[l - i + 1]
  BY Reversed
<1> HIDE DEF a, b, l
<1>6. \A i \in 1..n : a[i] = b[i]
  <2>1. \A i \in 1..n : i \in 1..l /\ i - 1 \in 0..(n - 1) /\ k - (i - 1) = k - i + 1
          /\ l - (i - 1) = l - i + 1
    BY <1>1
  <2> SUFFICES ASSUME NEW i \in 1..n PROVE a[i] = b[i]
    OBVIOUS
  <2>2. a[i] = s[k - (i - 1)] /\ b[i] = t[l - (i - 1)]
    BY <1>4, <1>5, <2>1
  <2> QED
    BY <1>1, <2>1, <2>2
<1>7. SubSeq(a, 1, n) = SubSeq(b, 1, n)
  <2>1. n \in Int /\ 1 \in Int /\ n - 1 + 1 = n /\ 1 <= n /\ \A i \in 1..n : 1 + i - 1 = i
    BY <1>1
  <2>2. \A i \in 1..n : a[i] \in AnyMessage /\ b[i] \in AnyMessage
    BY <1>1, <1>4, <1>6
  <2>3. /\ SubSeq(a, 1, n) \in Seq(AnyMessage) /\ Len(SubSeq(a, 1, n)) = n - 1 + 1
        /\ \A i \in 1..(n - 1 + 1) : SubSeq(a, 1, n)[i] = a[1 + i - 1]
    BY <2>1, <2>2, SubSeqProperties
  <2>4. /\ SubSeq(b, 1, n) \in Seq(AnyMessage) /\ Len(SubSeq(b, 1, n)) = n - 1 + 1
        /\ \A i \in 1..(n - 1 + 1) : SubSeq(b, 1, n)[i] = b[1 + i - 1]
    BY <2>1, <2>2, SubSeqProperties
  <2> DEFINE y == SubSeq(a, 1, n)
             z == SubSeq(b, 1, n)
  <2> HIDE DEF y, z
  <2>5. /\ y \in Seq(AnyMessage) /\ z \in Seq(AnyMessage) /\ Len(y) = Len(z)
        /\ \A i \in 1..Len(y) : y[i] = z[i]
    BY <1>6, <2>1, <2>3, <2>4 DEF y, z
  <2>6. y = z
    BY <2>5, SeqEqual
  <2> QED
    BY <2>6 DEF y, z
<1>8. IsPrefix(a, b)
  BY <1>1, <1>4, <1>5, <1>7 DEF IsPrefix
<1> QED
  BY <1>2, <1>8 DEF IsSuffix, a, b

----------------------------------------------------------------------------
(* The two formats *)

\* The types of both formats; the identifiers of the calls of turn t.
AnyBlock == [type : {"text", "tool_use", "tool_result"}, id : Seq(Nat)]
ServerMessage == [role : {"user", "tool", "assistant"}, content : Seq(AnyBlock)]
CallIDs(t) == {<<t, 1>>, <<t, 2>>}

\* What a message holds: calls with a text before them, results, or a text.
LEMMA CallContent ==
  ASSUME NEW m \in AnyMessage, m.kind = "call"
  PROVE  /\ ContentOf(m) \in Seq(AnyBlock) /\ Len(ContentOf(m)) = 3
         /\ ContentOf(m)[1] = Text
         /\ ContentOf(m)[2] = Block("tool_use", <<m.turn, 1>>)
         /\ ContentOf(m)[3] = Block("tool_use", <<m.turn, 2>>)
<1> DEFINE t == m.turn
           p == [k \in 1..2 |-> Block("tool_use", <<t, k>>)]
           c == <<Text>> \o p
<1>1. ContentOf(m) = c
  BY DEF ContentOf, Positions
<1>2. t \in Nat
  BY LoopAssumption DEF AnyMessage
<1> HIDE DEF t
<1>3. Text \in AnyBlock /\ \A k \in 1..2 : Block("tool_use", <<t, k>>) \in AnyBlock
  BY <1>2 DEF Text, Block, AnyBlock
<1>4. p \in [1..2 -> AnyBlock] /\ p[1] = Block("tool_use", <<t, 1>>)
        /\ p[2] = Block("tool_use", <<t, 2>>)
  BY <1>3
<1>5. p \in Seq(AnyBlock) /\ Len(p) = 2
  BY <1>4, SeqDef, LenProperties
<1> DEFINE h == <<Text>>
<1>6. h \in Seq(AnyBlock) /\ Len(h) = 1 /\ h[1] = Text
  BY <1>3
<1> HIDE DEF p, h
<1> DEFINE d == h \o p
<1>7. /\ d \in Seq(AnyBlock) /\ Len(d) = Len(h) + Len(p)
      /\ \A i \in 1..(Len(h) + Len(p)) : d[i] = IF i <= Len(h) THEN h[i] ELSE p[i - Len(h)]
  BY <1>5, <1>6, ConcatProperties
<1>8. c = d
  BY DEF h
<1> HIDE DEF c, d
<1>9. Len(d) = 3 /\ d[1] = h[1] /\ d[2] = p[1] /\ d[3] = p[2]
  <2>1. 1 + 2 = 3 /\ 1 \in 1..3 /\ 2 \in 1..3 /\ 3 \in 1..3 /\ 2 - 1 = 1 /\ 3 - 1 = 2
        /\ 1 <= 1 /\ ~(2 <= 1) /\ ~(3 <= 1)
    OBVIOUS
  <2> QED
    BY <1>5, <1>6, <1>7, <2>1
<1> QED
  BY <1>1, <1>4, <1>6, <1>7, <1>8, <1>9 DEF t

\* The results have the identifiers of the calls.
LEMMA ToolContent ==
  ASSUME NEW m \in AnyMessage, m.kind = "tool"
  PROVE  /\ ContentOf(m) \in Seq(AnyBlock) /\ Len(ContentOf(m)) = 2
         /\ ContentOf(m)[1] = Block("tool_result", <<m.turn, 1>>)
         /\ ContentOf(m)[2] = Block("tool_result", <<m.turn, 2>>)
<1> DEFINE t == m.turn
           p == [k \in 1..2 |-> Block("tool_result", <<t, k>>)]
<1>1. ContentOf(m) = p
  BY DEF ContentOf, Positions
<1>2. t \in Nat
  BY LoopAssumption DEF AnyMessage
<1> HIDE DEF t
<1>3. \A k \in 1..2 : Block("tool_result", <<t, k>>) \in AnyBlock
  BY <1>2 DEF Block, AnyBlock
<1>4. p \in [1..2 -> AnyBlock] /\ p[1] = Block("tool_result", <<t, 1>>)
        /\ p[2] = Block("tool_result", <<t, 2>>)
  BY <1>3
<1>5. p \in Seq(AnyBlock) /\ Len(p) = 2
  BY <1>4, SeqDef, LenProperties
<1> QED
  BY <1>1, <1>4, <1>5 DEF t

\* Everything else is a text.
LEMMA OtherContent ==
  ASSUME NEW m \in AnyMessage, m.kind \notin {"call", "tool"}
  PROVE  /\ ContentOf(m) \in Seq(AnyBlock) /\ Len(ContentOf(m)) = 1 /\ ContentOf(m)[1] = Text
<1>1. ContentOf(m) = <<Text>>
  BY DEF ContentOf
<1>2. Text \in AnyBlock
  BY DEF Text, Block, AnyBlock
<1>3. <<Text>> \in Seq(AnyBlock) /\ Len(<<Text>>) = 1 /\ <<Text>>[1] = Text
  BY <1>2
<1> QED
  BY <1>1, <1>3

\* Every result has the turn of its call, and one of two places in it.
LEMMA ContentIDs ==
  ASSUME NEW m \in AnyMessage
  PROVE  /\ m.kind = "tool" => IDs(ContentOf(m), "tool_result") = CallIDs(m.turn)
         /\ m.kind # "tool" => IDs(ContentOf(m), "tool_result") = {}
         /\ m.kind = "call" => IDs(ContentOf(m), "tool_use") = CallIDs(m.turn)
<1> DEFINE c == ContentOf(m)
           t == m.turn
<1>1. \A type, id : Block(type, id).type = type /\ Block(type, id).id = id
  BY DEF Block
<1>2. CASE m.kind = "tool"
  <2> DEFINE a == <<t, 1>>
             b == <<t, 2>>
  <2>0. /\ c \in Seq(AnyBlock) /\ Len(c) = 2
        /\ c[1] = Block("tool_result", a) /\ c[2] = Block("tool_result", b)
    BY <1>2, ToolContent
  <2> HIDE DEF a, b, c
  <2>1. /\ c[1].type = "tool_result" /\ c[1].id = a
        /\ c[2].type = "tool_result" /\ c[2].id = b
    BY <1>1, <2>0
  <2>2. DOMAIN c = {1, 2}
    BY <2>0
  <2>3. IDs(c, "tool_result") = {a, b}
    BY <2>1, <2>2 DEF IDs, a, b
  <2> QED
    BY <1>2, <2>3 DEF CallIDs, a, b, c
<1>3. CASE m.kind = "call"
  <2> DEFINE a == <<t, 1>>
             b == <<t, 2>>
  <2>0. /\ c \in Seq(AnyBlock) /\ Len(c) = 3 /\ c[1] = Text
        /\ c[2] = Block("tool_use", a) /\ c[3] = Block("tool_use", b)
    BY <1>3, CallContent
  <2> HIDE DEF a, b, c
  <2>1. /\ c[1].type = "text"
        /\ c[2].type = "tool_use" /\ c[2].id = a
        /\ c[3].type = "tool_use" /\ c[3].id = b
    BY <1>1, <2>0 DEF Text
  <2>2. DOMAIN c = {1, 2, 3}
    BY <2>0
  <2>3. IDs(c, "tool_use") = {a, b}
    BY <2>1, <2>2 DEF IDs, a, b
  <2>4. IDs(c, "tool_result") = {}
    BY <2>1, <2>2 DEF IDs
  <2> QED
    BY <1>3, <2>3, <2>4 DEF CallIDs, a, b, c
<1>4. CASE m.kind \notin {"call", "tool"}
  <2>1. DOMAIN c = 1..1 /\ c[1].type = "text"
    BY <1>1, <1>4, OtherContent DEF Text
  <2>2. DOMAIN c = {1}
    BY <2>1
  <2> HIDE DEF c
  <2>4. IDs(c, "tool_result") = {}
    BY <2>1, <2>2 DEF IDs
  <2> QED
    BY <1>4, <2>4 DEF c
<1> QED
  BY <1>2, <1>3, <1>4

\* Message by message: the results are in the message after their calls.
LEMMA AnthropicFollows ==
  ASSUME NEW msgs \in Seq(AnyMessage), NEW exempt, Adjacent(msgs, exempt)
  PROVE  AnthropicResultsFollow(toAnthropicMessages(msgs), exempt)
<1> DEFINE ms == toAnthropicMessages(msgs)
<1>1. /\ DOMAIN ms = 1..Len(msgs) /\ Len(msgs) \in Nat
      /\ \A i \in 1..Len(msgs) : ms[i].content = ContentOf(msgs[i]) /\ msgs[i] \in AnyMessage
      /\ \A i \in 1..Len(msgs) : msgs[i].kind = "tool" => ms[i].role = "user"
  BY DEF toAnthropicMessages, Role
<1> HIDE DEF ms
<1> SUFFICES ASSUME NEW i \in 1..Len(msgs), NEW id \in IDs(ms[i].content, "tool_result"),
                    id[1] \notin exempt
             PROVE  ms[i].role = "user" /\ i > 1 /\ id \in IDs(ms[i - 1].content, "tool_use")
  BY <1>1 DEF AnthropicResultsFollow, ms
<1>2. msgs[i].kind = "tool" /\ id \in CallIDs(msgs[i].turn)
  BY <1>1, ContentIDs
<1>3. id[1] = msgs[i].turn
  BY <1>2 DEF CallIDs
<1>4. i > 1 /\ msgs[i - 1].kind = "call" /\ msgs[i - 1].turn = msgs[i].turn
  BY <1>2, <1>3 DEF Adjacent
<1>5. i - 1 \in 1..Len(msgs)
  BY <1>1, <1>4
<1> QED
  BY <1>1, <1>2, <1>4, <1>5, ContentIDs

\* The blocks of one type have that type, and the IDs of that type.
LEMMA OfTypeFacts ==
  ASSUME NEW c \in Seq(AnyBlock), NEW type
  PROVE  /\ OfType(c, type) \in Seq(AnyBlock)
         /\ \A j \in 1..Len(OfType(c, type)) :
              OfType(c, type)[j].type = type /\ OfType(c, type)[j].id \in IDs(c, type)
         /\ IDs(c, type) \subseteq IDs(OfType(c, type), type)
         /\ \A other : other # type => IDs(OfType(c, type), other) = {}
<1> DEFINE I == {k \in DOMAIN c : c[k].type = type}
           p == Picked(c, I)
<1>1. OfType(c, type) = p
  BY DEF OfType
<1>2. p \in Seq(AnyBlock) /\ Selects(p, c, I)
  BY PickedFacts
<1>3. DOMAIN c = 1..Len(c)
  OBVIOUS
<1> HIDE DEF p
<1>4. \A j \in 1..Len(p) : \E i \in I : p[j] = c[i]
  BY <1>2, <1>3 DEF Selects
<1>5. \A i \in I : \E j \in 1..Len(p) : p[j] = c[i]
  BY <1>2, <1>3 DEF Selects
<1>6. DOMAIN p = 1..Len(p)
  BY <1>2
<1>7. \A i \in I : c[i].type = type /\ c[i].id \in IDs(c, type)
  BY DEF IDs
<1>8. \A j \in 1..Len(p) : p[j].type = type /\ p[j].id \in IDs(c, type)
  BY <1>4, <1>7
<1>9. ASSUME NEW id \in IDs(c, type) PROVE id \in IDs(p, type)
  <2>1. PICK i \in I : c[i].id = id
    BY DEF IDs
  <2>2. PICK j \in 1..Len(p) : p[j] = c[i]
    BY <1>5
  <2>3. p[j].type = type /\ p[j].id = id
    BY <2>1, <2>2, <1>7
  <2> QED
    BY <1>6, <2>3 DEF IDs
<1>10. ASSUME NEW other, other # type PROVE IDs(p, other) = {}
  BY <1>6, <1>8, <1>10 DEF IDs
<1> QED
  BY <1>1, <1>2, <1>8, <1>9, <1>10

\* What the OpenAI format has for one message.
PartOf(m, p) ==
  /\ p \in Seq(ServerMessage)
  /\ m.kind = "tool" =>
       \A i \in 1..Len(p) :
         p[i].role = "tool" /\ IDs(p[i].content, "tool_result") \subseteq CallIDs(m.turn)
  /\ m.kind # "tool" => \A i \in 1..Len(p) : IDs(p[i].content, "tool_result") = {}
  /\ m.kind = "call" => Len(p) = 1 /\ CallIDs(m.turn) \subseteq IDs(p[1].content, "tool_use")

\* A call is one message, each result is one.
LEMMA OpenAIPart == ASSUME NEW m \in AnyMessage PROVE PartOf(m, OpenAIMessagesOf(m))
<1> DEFINE c == ContentOf(m)
           calls == OfType(c, "tool_use")
           results == OfType(c, "tool_result")
           text == OfType(c, "text")
           p == OpenAIMessagesOf(m)
<1>1. c \in Seq(AnyBlock)
  BY CallContent, ToolContent, OtherContent
<1>2. /\ calls \in Seq(AnyBlock) /\ results \in Seq(AnyBlock) /\ text \in Seq(AnyBlock)
      /\ IDs(calls, "tool_result") = {} /\ IDs(text, "tool_result") = {}
      /\ IDs(c, "tool_use") \subseteq IDs(calls, "tool_use")
      /\ \A j \in 1..Len(results) : results[j].id \in IDs(c, "tool_result")
  <2> HIDE DEF c
  <2> QED
    BY <1>1, OfTypeFacts
<1>3. Role(m) \in {"user", "tool", "assistant"} /\ (Role(m) = "tool" <=> m.kind = "tool")
  BY DEF Role
<1>4. p = IF Role(m) = "tool"
            THEN [k \in DOMAIN results |-> [role |-> "tool", content |-> <<results[k]>>]]
          ELSE IF calls # <<>> THEN <<[role |-> "assistant", content |-> calls]>>
          ELSE <<[role |-> Role(m), content |-> text]>>
  BY DEF OpenAIMessagesOf
<1>5. /\ m.kind = "tool" => IDs(c, "tool_result") = CallIDs(m.turn)
      /\ m.kind = "call" => IDs(c, "tool_use") = CallIDs(m.turn)
  BY ContentIDs
<1> HIDE DEF c, calls, results, text, p
<1>6. ASSUME NEW q \in ServerMessage, p = <<q>>, m.kind # "tool",
             IDs(q.content, "tool_result") = {},
             m.kind = "call" => CallIDs(m.turn) \subseteq IDs(q.content, "tool_use")
      PROVE  PartOf(m, p)
  <2>1. <<q>> \in Seq(ServerMessage) /\ Len(<<q>>) = 1 /\ <<q>>[1] = q
    OBVIOUS
  <2>2. p \in Seq(ServerMessage) /\ Len(p) = 1 /\ p[1] = q /\ \A i \in 1..1 : i = 1
    BY <1>6, <2>1
  <2> QED
    BY <1>6, <2>2 DEF PartOf
<1>7. CASE m.kind = "tool"
  <2> DEFINE n == Len(results)
  <2>1. n \in Nat /\ DOMAIN results = 1..n /\ \A k \in 1..n : results[k] \in AnyBlock
    BY <1>2
  <2>2. p = [k \in 1..n |-> [role |-> "tool", content |-> <<results[k]>>]]
    <3>1. p = [k \in DOMAIN results |-> [role |-> "tool", content |-> <<results[k]>>]]
      BY <1>3, <1>4, <1>7
    <3> QED
      BY <2>1, <3>1
  <2> HIDE DEF n
  <2>3. ASSUME NEW k \in 1..n
        PROVE  /\ p[k] \in ServerMessage /\ p[k].role = "tool"
               /\ IDs(p[k].content, "tool_result") \subseteq CallIDs(m.turn)
    <3> DEFINE r == results[k]
               s == <<r>>
    <3>1. r \in AnyBlock /\ r.id \in CallIDs(m.turn)
      BY <1>2, <1>5, <1>7, <2>1 DEF n
    <3> HIDE DEF r
    <3>2. s \in Seq(AnyBlock) /\ DOMAIN s = {1} /\ s[1] = r
      BY <3>1
    <3>3. p[k] = [role |-> "tool", content |-> s]
      BY <2>2 DEF r
    <3> HIDE DEF s
    <3>4. IDs(s, "tool_result") \subseteq {r.id}
      BY <3>2 DEF IDs
    <3> QED
      BY <3>1, <3>2, <3>3, <3>4 DEF ServerMessage
  <2>4. p \in [1..n -> ServerMessage]
    BY <2>2, <2>3
  <2>5. p \in Seq(ServerMessage) /\ Len(p) = n
    BY <2>1, <2>4, SeqDef, LenProperties
  <2> QED
    BY <1>7, <2>3, <2>5 DEF PartOf, p
<1>8. CASE m.kind # "tool" /\ calls # <<>>
  <2> DEFINE q == [role |-> "assistant", content |-> calls]
  <2>1. q \in ServerMessage /\ q.content = calls
    BY <1>2 DEF ServerMessage
  <2>2. p = <<q>>
    BY <1>3, <1>4, <1>8
  <2> HIDE DEF q
  <2> QED
    BY <1>2, <1>5, <1>6, <1>8, <2>1, <2>2 DEF p
<1>9. CASE m.kind # "tool" /\ calls = <<>>
  <2> DEFINE q == [role |-> Role(m), content |-> text]
  <2>1. q \in ServerMessage /\ q.content = text
    BY <1>2, <1>3 DEF ServerMessage
  <2>2. p = <<q>>
    BY <1>3, <1>4, <1>9
  <2>3. m.kind # "call"
    <3>1. IDs(calls, "tool_use") = {}
      BY <1>9 DEF IDs
    <3>2. CallIDs(m.turn) # {}
      BY DEF CallIDs
    <3> QED
      BY <1>2, <1>5, <3>1, <3>2
  <2> HIDE DEF q
  <2> QED
    BY <1>2, <1>6, <1>9, <2>1, <2>2, <2>3 DEF p
<1> QED
  BY <1>7, <1>8, <1>9

\* More messages keep the order if each result among them finds its call at the end.
LEMMA FollowOn ==
  ASSUME NEW o \in Seq(ServerMessage), NEW p \in Seq(ServerMessage), NEW exempt,
         OpenAIResultsFollow(o, exempt),
         \A q \in 1..Len(p) : \A id \in IDs(p[q].content, "tool_result") :
           id[1] \notin exempt =>
             /\ Len(o) # 0 /\ id \in IDs(o[Len(o)].content, "tool_use")
             /\ \A r \in 1..Len(p) : p[r].role = "tool"
  PROVE  OpenAIResultsFollow(o \o p, exempt)
<1> DEFINE n == Len(o)
           l == Len(p)
           x == o \o p
<1>1. /\ n \in Nat /\ l \in Nat /\ DOMAIN x = 1..(n + l) /\ DOMAIN o = 1..n
      /\ \A i \in 1..n : x[i] = o[i]
  BY ConcatProperties
<1>2. \A i \in 1..(n + l) : i \notin 1..n => i - n \in 1..l /\ x[i] = p[i - n]
  <2> SUFFICES ASSUME NEW i \in 1..(n + l), i \notin 1..n PROVE i - n \in 1..l
        /\ x[i] = p[i - n]
    OBVIOUS
  <2>1. x[i] = IF i <= n THEN o[i] ELSE p[i - n]
    BY ConcatProperties
  <2> HIDE DEF n, l, x
  <2> QED
    BY <1>1, <2>1
<1>3. \A i \in 1..n : \A id \in IDs(o[i].content, "tool_result") :
        id[1] \notin exempt =>
          \E j \in 1..(i - 1) :
            id \in IDs(o[j].content, "tool_use") /\ \A k \in (j + 1)..i : o[k].role = "tool"
  BY <1>1 DEF OpenAIResultsFollow
<1>4. \A q \in 1..l : \A id \in IDs(p[q].content, "tool_result") :
        id[1] \notin exempt =>
          n # 0 /\ id \in IDs(o[n].content, "tool_use") /\ \A r \in 1..l : p[r].role = "tool"
  OBVIOUS
<1> HIDE DEF n, l, x
<1> SUFFICES ASSUME NEW i \in 1..(n + l), NEW id \in IDs(x[i].content, "tool_result"),
                    id[1] \notin exempt
             PROVE  \E j \in 1..(i - 1) :
                      /\ id \in IDs(x[j].content, "tool_use")
                      /\ \A k \in (j + 1)..i : x[k].role = "tool"
  BY <1>1 DEF OpenAIResultsFollow, x
<1>5. CASE i \in 1..n
  <2>1. PICK j \in 1..(i - 1) :
          id \in IDs(o[j].content, "tool_use") /\ \A k \in (j + 1)..i : o[k].role = "tool"
    BY <1>1, <1>3, <1>5
  <2>2. j \in 1..n /\ (j + 1)..i \subseteq 1..n
    BY <1>1, <1>5
  <2> QED
    BY <1>1, <2>1, <2>2
<1>6. CASE i \notin 1..n
  <2>1. i - n \in 1..l /\ x[i] = p[i - n]
    BY <1>2, <1>6
  <2>2. n # 0 /\ id \in IDs(o[n].content, "tool_use") /\ \A r \in 1..l : p[r].role = "tool"
    BY <1>4, <2>1
  <2>3. n \in 1..(i - 1) /\ n \in 1..n /\ \A k \in (n + 1)..i : k \in 1..(n + l)
          /\ k \notin 1..n
    BY <1>1, <1>6, <2>2
  <2>4. \A k \in (n + 1)..i : x[k].role = "tool"
    BY <1>2, <2>2, <2>3
  <2>5. id \in IDs(x[n].content, "tool_use")
    BY <1>1, <2>2, <2>3
  <2> QED
    BY <2>3, <2>4, <2>5
<1> QED
  BY <1>5, <1>6

\* The request of msgs is in order, and ends with the calls that msgs ends with.
Follows(msgs, o, exempt) ==
  /\ o \in Seq(ServerMessage) /\ OpenAIResultsFollow(o, exempt)
  /\ Len(msgs) # 0 /\ msgs[Len(msgs)].kind = "call" =>
       Len(o) # 0 /\ CallIDs(msgs[Len(msgs)].turn) \subseteq IDs(o[Len(o)].content, "tool_use")

\* One message more.
LEMMA FollowsOne ==
  ASSUME NEW s \in Seq(AnyMessage), NEW m \in AnyMessage, NEW exempt,
         Adjacent(Append(s, m), exempt), Follows(s, toOpenAIMessages(s), exempt)
  PROVE  Follows(Append(s, m), toOpenAIMessages(Append(s, m)), exempt)
<1> DEFINE o == toOpenAIMessages(s)
           p == OpenAIMessagesOf(m)
           t == Append(s, m)
           n == Len(s)
<1>1. /\ n \in Nat /\ Len(t) = n + 1 /\ t[n + 1] = m /\ t \in Seq(AnyMessage)
      /\ \A i \in 1..n : t[i] = s[i] /\ s[i] \in AnyMessage
      /\ DOMAIN t = 1..(n + 1) /\ DOMAIN s = 1..n
  OBVIOUS
<1>2. PartOf(m, p) /\ p \in Seq(ServerMessage)
  BY OpenAIPart DEF PartOf
<1>3. toOpenAIMessages(t) = o \o p
  <2> DEFINE ss == [i \in DOMAIN s |-> OpenAIMessagesOf(s[i])]
             tt == [i \in DOMAIN t |-> OpenAIMessagesOf(t[i])]
  <2>1. ss = [i \in 1..n |-> OpenAIMessagesOf(s[i])]
          /\ tt = [i \in 1..(n + 1) |-> OpenAIMessagesOf(t[i])]
    BY <1>1
  <2>2. \A i \in 1..n : OpenAIMessagesOf(s[i]) \in Seq(ServerMessage)
    BY <1>1, OpenAIPart DEF PartOf
  <2>3. o = FlattenSeq(ss) /\ toOpenAIMessages(t) = FlattenSeq(tt)
    BY DEF toOpenAIMessages
  <2> HIDE DEF ss, tt, n, t, o, p
  <2>4. ss \in [1..n -> Seq(ServerMessage)] /\ \A i \in 1..n : ss[i] = OpenAIMessagesOf(s[i])
    BY <2>1, <2>2
  <2>5. ss \in Seq(Seq(ServerMessage)) /\ Len(ss) = n
    BY <1>1, <2>4, SeqDef, LenProperties
  <2>6. /\ Append(ss, p) \in Seq(Seq(ServerMessage)) /\ Len(Append(ss, p)) = n + 1
        /\ Append(ss, p)[n + 1] = p /\ \A i \in 1..n : Append(ss, p)[i] = ss[i]
    BY <1>2, <2>5, AppendProperties
  <2>7. \A i \in 1..(n + 1) : tt[i] = Append(ss, p)[i]
    <3> SUFFICES ASSUME NEW i \in 1..(n + 1) PROVE tt[i] = Append(ss, p)[i]
      OBVIOUS
    <3>1. i \in 1..n \/ i = n + 1
      BY <1>1
    <3>2. tt[i] = OpenAIMessagesOf(t[i])
      BY <2>1
    <3> QED
      BY <1>1, <2>4, <2>6, <3>1, <3>2 DEF p
  <2>8. tt \in Seq(Seq(ServerMessage)) /\ Len(tt) = n + 1
    <3>1. \A i \in 1..(n + 1) : Append(ss, p)[i] \in Seq(ServerMessage)
      <4>1. \A i \in 1..(n + 1) : i \in 1..n \/ i = n + 1
        BY <1>1
      <4>2. \A i \in 1..n : ss[i] \in Seq(ServerMessage)
        BY <2>4
      <4> QED
        BY <1>2, <2>6, <4>1, <4>2
    <3>3. \A i \in 1..(n + 1) : tt[i] \in Seq(ServerMessage)
      BY <2>7, <3>1
    <3>2. tt \in [1..(n + 1) -> Seq(ServerMessage)] /\ n + 1 \in Nat
      BY <1>1, <2>1, <3>3
    <3> QED
      BY <3>2, SeqDef, LenProperties
  <2> DEFINE rr == Append(ss, p)
             S == Seq(ServerMessage)
  <2>9. rr \in Seq(S) /\ tt \in Seq(S) /\ Len(rr) = Len(tt)
          /\ \A i \in 1..Len(tt) : tt[i] = rr[i]
    BY <2>6, <2>7, <2>8
  <2> HIDE DEF rr
  <2>10. tt = rr
    BY <2>9, SeqEqual
  <2>11. FlattenSeq(Append(ss, p)) = FlattenSeq(ss) \o p
    BY <1>2, <2>5, FlattenAppend
  <2> QED
    BY <2>3, <2>10, <2>11 DEF rr
<1>4. o \in Seq(ServerMessage) /\ OpenAIResultsFollow(o, exempt)
  BY DEF Follows
<1>5. /\ n # 0 /\ s[n].kind = "call" =>
           Len(o) # 0 /\ CallIDs(s[n].turn) \subseteq IDs(o[Len(o)].content, "tool_use")
  BY DEF Follows
<1>6. m.kind = "tool" /\ m.turn \notin exempt => n # 0 /\ s[n].kind = "call"
        /\ s[n].turn = m.turn
  <2>1. \A i \in 1..(n + 1) : t[i].kind = "tool" /\ t[i].turn \notin exempt =>
           i > 1 /\ t[i - 1].kind = "call" /\ t[i - 1].turn = t[i].turn
    BY <1>1 DEF Adjacent
  <2> HIDE DEF n, t
  <2>2. n + 1 \in 1..(n + 1) /\ (n + 1) - 1 = n /\ (n + 1 > 1 => n # 0 /\ n \in 1..n)
    BY <1>1
  <2> QED
    BY <1>1, <2>1, <2>2
<1> HIDE DEF o, p, t, n
<1>7. OpenAIResultsFollow(o \o p, exempt)
  <2>1. ASSUME NEW q \in 1..Len(p), NEW id \in IDs(p[q].content, "tool_result"),
     id[1] \notin exempt
        PROVE  /\ Len(o) # 0 /\ id \in IDs(o[Len(o)].content, "tool_use")
               /\ \A r \in 1..Len(p) : p[r].role = "tool"
    <3>1. m.kind = "tool" /\ id \in CallIDs(m.turn)
      BY <1>2 DEF PartOf
    <3>2. id[1] = m.turn
      BY <3>1 DEF CallIDs
    <3> QED
      BY <1>2, <1>5, <1>6, <2>1, <3>1, <3>2 DEF PartOf
  <2> QED
    BY <1>2, <1>4, <2>1, FollowOn
<1>8. o \o p \in Seq(ServerMessage)
  BY <1>2, <1>4, ConcatProperties
<1>9. ASSUME m.kind = "call"
      PROVE  Len(o \o p) # 0
            /\ CallIDs(m.turn) \subseteq IDs((o \o p)[Len(o \o p)].content, "tool_use")
  <2>1. Len(p) = 1 /\ CallIDs(m.turn) \subseteq IDs(p[1].content, "tool_use")
    BY <1>2, <1>9 DEF PartOf
  <2> DEFINE x == o \o p
             l == Len(o)
  <2>2. /\ l \in Nat /\ Len(x) = l + 1
        /\ \A i \in 1..(l + 1) : x[i] = IF i <= l THEN o[i] ELSE p[i - l]
    <3>1. /\ Len(x) = Len(o) + Len(p) /\ Len(o) \in Nat
          /\ \A i \in 1..(Len(o) + Len(p)) : x[i] = IF i <= Len(o) THEN o[i] ELSE p[i - Len(o)]
      BY <1>2, <1>4, ConcatProperties
    <3> HIDE DEF x
    <3> QED
      BY <2>1, <3>1
  <2> HIDE DEF x, l
  <2>3. Len(x) # 0 /\ x[l + 1] = p[1]
    <3>1. l + 1 \in 1..(l + 1) /\ ~(l + 1 <= l) /\ (l + 1) - l = 1 /\ l + 1 # 0
      BY <2>2
    <3> QED
      BY <2>2, <3>1
  <2> QED
    BY <2>1, <2>2, <2>3 DEF x
<1>10. Follows(t, o \o p, exempt)
  BY <1>1, <1>7, <1>8, <1>9 DEF Follows
<1> QED
  BY <1>3, <1>10 DEF t

\* However long the history: the results follow their calls.
LEMMA OpenAIFollows ==
  ASSUME NEW exempt
  PROVE  \A msgs \in Seq(AnyMessage) :
           Adjacent(msgs, exempt) => OpenAIResultsFollow(toOpenAIMessages(msgs), exempt)
<1> DEFINE Good(s) == Adjacent(s, exempt) => Follows(s, toOpenAIMessages(s), exempt)
           T == {n \in Nat : \A s \in Seq(AnyMessage) : Len(s) = n => Good(s)}
<1>1. 0 \in T
  <2> SUFFICES ASSUME NEW s \in Seq(AnyMessage), Len(s) = 0 PROVE Good(s)
    OBVIOUS
  <2>1. s = <<>>
    OBVIOUS
  <2>2. [i \in DOMAIN s |-> OpenAIMessagesOf(s[i])] = <<>>
    BY <2>1
  <2>3. toOpenAIMessages(s) = <<>>
    BY <2>2, FlattenNone DEF toOpenAIMessages
  <2>4. <<>> \in Seq(ServerMessage) /\ OpenAIResultsFollow(<<>>, exempt)
    BY DEF OpenAIResultsFollow
  <2> QED
    BY <2>3, <2>4 DEF Follows
<1>2. ASSUME NEW n \in Nat, n \in T PROVE n + 1 \in T
  <2> SUFFICES ASSUME NEW t \in Seq(AnyMessage), Len(t) = n + 1, Adjacent(t, exempt)
               PROVE  Follows(t, toOpenAIMessages(t), exempt)
    BY <1>2
  <2> DEFINE s == SubSeq(t, 1, Len(t) - 1)
             m == t[Len(t)]
  <2>1. Len(t) # 0 /\ Len(t) - 1 = n
    BY <1>2
  <2>2. t[Len(t)] \in AnyMessage
    BY <2>1
  <2>3. s \in Seq(AnyMessage) /\ m \in AnyMessage /\ Len(s) = n /\ t = Append(s, m)
    BY <2>1, <2>2, FrontAndLast
  <2> HIDE DEF s, m
  <2>4. Adjacent(s, exempt)
    <3>1. \A i \in 1..n : t[i] = s[i]
      BY <2>3
    <3>2. \A i \in 1..(n + 1) : t[i].kind = "tool" /\ t[i].turn \notin exempt =>
             i > 1 /\ t[i - 1].kind = "call" /\ t[i - 1].turn = t[i].turn
      BY DEF Adjacent
    <3>3. \A i \in 1..n : i \in 1..(n + 1) /\ (i > 1 => i - 1 \in 1..n)
      BY <1>2
    <3> QED
      BY <2>3, <3>1, <3>2, <3>3 DEF Adjacent
  <2>5. Follows(s, toOpenAIMessages(s), exempt)
    BY <1>2, <2>3, <2>4
  <2> QED
    BY <2>3, <2>5, FollowsOne
<1>3. Nat \subseteq T
  <2> HIDE DEF T
  <2> QED BY <1>1, <1>2, Induction
<1> SUFFICES ASSUME NEW msgs \in Seq(AnyMessage), Adjacent(msgs, exempt)
             PROVE  OpenAIResultsFollow(toOpenAIMessages(msgs), exempt)
  OBVIOUS
<1>4. Len(msgs) \in T
  BY <1>3
<1> QED
  BY <1>4 DEF Follows

\* The optimizer leaves the current turn whole and cuts what is over budget, and both
\* servers accept a request's tool results: whatever a run, /clear, a crash or a
\* restart did before, and whatever was summarized, stripped or dropped.
THEOREM RequestsCorrect == LoopSpec => []LoopRequestsSound
<1>1. RequestInv => LoopRequestsSound
  <2> SUFFICES ASSUME RequestInv, pc = "llm"
               PROVE  CurrentTurnKept /\ OverBudgetIsCut /\ ResultsFollowCalls
    BY DEF LoopRequestsSound, CutKeepsTurn, CurrentTurnKept, OverBudgetIsCut, ResultsFollowCalls
  <2>1. /\ log \in Seq(AnyMessage) /\ context \in Seq(AnyMessage)
        /\ Adjacent(context, clearedIn)
        /\ turn \notin clearedIn => TurnSent
        /\ OverBudget /\ DropsTurns => Cut(context)
    BY DEF RequestInv, SentSound, HistoryInv, HistoryTypes
  <2>2. CurrentTurnKept
    BY <2>1, SuffixByEnd DEF CurrentTurnKept, TurnSent
  <2>3. OverBudgetIsCut
    BY <2>1, OneUserStart DEF OverBudgetIsCut, OverBudget, Cut
  <2>4. ResultsFollowCalls
    BY <2>1, AnthropicFollows, OpenAIFollows DEF ResultsFollowCalls, ResultsFollow
  <2> QED
    BY <2>2, <2>3, <2>4
<1>2. LoopInit => RequestInv
  BY RequestInit
<1>3. RequestInv /\ [LoopNext]_loopVars => RequestInv'
  BY RequestNext
<1> QED
  BY <1>1, <1>2, <1>3, PTL DEF LoopSpec

\* What LoopTypeOK needs besides RequestInv: a turn that reads its history has model
\* calls left.
TurnInv ==
  /\ RequestInv
  /\ context \in Seq(AnyMessage)
  /\ answered \subseteq 1..turn
  /\ iteration \in 0..maxIterations /\ (pc = "get" => iteration < maxIterations)
  /\ known \in Usages \union {0}
  /\ clears \in 0..MaxClears /\ crashes \in 0..MaxCrashes

\* The variables of a session's loop have their types, and a turn calls the model
\* maxIterations times at most.
THEOREM LoopTypeCorrect == LoopSpec => []LoopTypeOK
<1>1. TurnInv => LoopTypeOK
  <2> SUFFICES ASSUME TurnInv PROVE LoopTypeOK
    OBVIOUS
  <2>1. HistoryTypes /\ clearedIn \subseteq 1..turn
    BY DEF TurnInv, RequestInv, HistoryInv, CopiesSound
  <2>2. \A msgs \in Range(archived) : msgs \in Seq(AnyMessage)
    BY <2>1 DEF HistoryTypes, Range
  <2> QED
    BY <2>1, <2>2 DEF TurnInv, LoopTypeOK, HistoryTypes
<1>2. LoopInit => TurnInv
  <2> SUFFICES ASSUME LoopInit PROVE TurnInv
    OBVIOUS
  <2>1. context \in Seq(AnyMessage) /\ answered \subseteq 1..turn
    BY DEF LoopInit
  <2>2. /\ iteration \in 0..maxIterations /\ pc # "get" /\ known \in Usages \union {0}
        /\ clears \in 0..MaxClears /\ crashes \in 0..MaxCrashes
    BY LoopAssumption DEF LoopInit
  <2> QED
    BY <2>1, <2>2, RequestInit DEF TurnInv
<1>3. TurnInv /\ [LoopNext]_loopVars => TurnInv'
  <2> SUFFICES ASSUME TurnInv, [LoopNext]_loopVars PROVE TurnInv'
    OBVIOUS
  <2>1. RequestInv /\ RequestInv'
    BY RequestNext DEF TurnInv
  <2>2. /\ context \in Seq(AnyMessage) /\ answered \subseteq 1..turn
        /\ iteration \in 0..maxIterations /\ (pc = "get" => iteration < maxIterations)
        /\ known \in Usages \union {0}
        /\ clears \in 0..MaxClears /\ crashes \in 0..MaxCrashes
        /\ turn \in Nat
        /\ pc # "idle" => turn # 0
    BY <2>1, LoopAssumption DEF TurnInv, RequestInv, HistoryInv, HistoryTypes, CopiesSound
  <2> USE <2>1, <2>2, LoopAssumption DEF TurnInv
  <2>3. CASE RunBegins
    BY <2>3 DEF RunBegins, faultVars
  <2>4. CASE SendRequest
    <3>1. context' \in Seq(AnyMessage)
      BY <2>4 DEF SendRequest, RequestInv, SentSound
    <3> QED
      BY <2>4, <3>1 DEF SendRequest, faultVars
  <2>5. CASE LLMResponds
    <3>1. answered' \subseteq 1..turn' /\ known' \in Usages
      BY <2>5 DEF LLMResponds
    <3>2. pc' # "get"
      BY <2>5 DEF LLMResponds, Responses, Message
    <3> QED
      BY <2>5, <3>1, <3>2 DEF LLMResponds, faultVars
  <2>6. CASE ToolsReturn
    BY <2>6 DEF ToolsReturn, faultVars
  <2>7. CASE LLMError \/ RecordUsage
    BY <2>7 DEF LLMError, RecordUsage, faultVars
  <2>8. CASE Clear
    BY <2>8 DEF Clear, turnVars
  <2>9. CASE Crash
    BY <2>9 DEF Crash
  <2>10. CASE UNCHANGED loopVars
    BY <2>10 DEF loopVars, turnVars, faultVars
  <2> QED
    BY <2>3, <2>4, <2>5, <2>6, <2>7, <2>8, <2>9, <2>10 DEF LoopNext
<1> QED
  BY <1>1, <1>2, <1>3, PTL DEF LoopSpec

----------------------------------------------------------------------------
(* The calls of the model *)

ContentBlocks == [type : BlockTypes, pieces : Seq(Nat \X Nat)]

\* The text a block adds.
TextPart(b) == IF b.type = "text" THEN b.pieces ELSE <<>>

LEMMA PartIsText ==
  ASSUME NEW b \in ContentBlocks
  PROVE  /\ TextPart(b) \in Seq(Nat \X Nat)
         /\ ~Says(b) => TextPart(b) = <<>>
<1>1. b.pieces \in Seq(Nat \X Nat)
  BY DEF ContentBlocks
<1> QED
  BY <1>1 DEF TextPart, Says

LEMMA ContentTyped ==
  ASSUME NEW i \in Nat, NEW b \in Blocks
  PROVE  BlockContent(i, b) \in ContentBlocks
<1>1. b.pieces \in Nat /\ b.type \in BlockTypes
  BY CallAssumption DEF Blocks
<1>2. Pieces(i, b.pieces) \in Seq(Nat \X Nat)
  <2> DEFINE n == b.pieces
  <2>1. n \in Nat
    BY <1>1
  <2> HIDE DEF n
  <2>2. [k \in 1..n |-> <<i, k>>] \in [1..n -> Nat \X Nat]
    OBVIOUS
  <2>3. [k \in 1..n |-> <<i, k>>] \in Seq(Nat \X Nat)
    BY <2>1, <2>2, SeqDef
  <2> QED
    BY <2>3 DEF Pieces, n
<1> QED
  BY <1>1, <1>2 DEF BlockContent, ContentBlocks

LEMMA ContentsFacts ==
  ASSUME NEW bs \in Seq(Blocks)
  PROVE  /\ BlockContents(bs) \in Seq(ContentBlocks) /\ Len(BlockContents(bs)) = Len(bs)
         /\ \A i \in 1..Len(bs) : BlockContents(bs)[i] = BlockContent(i, bs[i])
<1>1. Len(bs) \in Nat /\ DOMAIN bs = 1..Len(bs) /\ \A i \in 1..Len(bs) : bs[i] \in Blocks
  OBVIOUS
<1>2. \A i \in 1..Len(bs) : BlockContent(i, bs[i]) \in ContentBlocks
  BY <1>1, ContentTyped
<1>3. BlockContents(bs) = [i \in 1..Len(bs) |-> BlockContent(i, bs[i])]
  BY <1>1 DEF BlockContents
<1>4. BlockContents(bs) \in [1..Len(bs) -> ContentBlocks]
  BY <1>2, <1>3
<1> QED
  BY <1>1, <1>3, <1>4, SeqDef, LenProperties

\* One block more.
LEMMA SpokenAppend ==
  ASSUME NEW c \in Seq(ContentBlocks), NEW b \in ContentBlocks
  PROVE  Spoken(Append(c, b)) = IF Says(b) THEN Append(Spoken(c), b) ELSE Spoken(c)
<1> DEFINE n == Len(c)
           d == Append(c, b)
           I == {i \in DOMAIN c : Says(c[i])}
           J == {i \in DOMAIN d : Says(d[i])}
<1>1. /\ n \in Nat /\ DOMAIN c = 1..n /\ DOMAIN d = 1..(n + 1)
      /\ d[n + 1] = b /\ \A i \in 1..n : d[i] = c[i]
  OBVIOUS
<1>2. Picked(d, J) = IF n + 1 \in J THEN Append(Picked(c, J), b) ELSE Picked(c, J)
  <2> HIDE DEF J
  <2> QED BY PickedAppend
<1> HIDE DEF d, n
<1>3. /\ \A i \in 1..n : i \in I <=> i \in J
      /\ n + 1 \in J <=> Says(b)
  BY <1>1
<1> HIDE DEF I, J
<1>4. Picked(c, I) = Picked(c, J)
  BY <1>1, <1>3, PickedAgree DEF n
<1> QED
  BY <1>2, <1>3, <1>4 DEF Spoken, I, J, d

TextParts(c) == [i \in 1..Len(c) |-> TextPart(c[i])]

LEMMA PartsTyped ==
  ASSUME NEW c \in Seq(ContentBlocks)
  PROVE  TextParts(c) \in Seq(Seq(Nat \X Nat)) /\ Len(TextParts(c)) = Len(c)
<1>1. Len(c) \in Nat /\ \A i \in 1..Len(c) : c[i] \in ContentBlocks
  OBVIOUS
<1>2. \A i \in 1..Len(c) : TextPart(c[i]) \in Seq(Nat \X Nat)
  BY <1>1, PartIsText
<1>3. TextParts(c) \in [1..Len(c) -> Seq(Nat \X Nat)]
  BY <1>2 DEF TextParts
<1> QED
  BY <1>1, <1>3, SeqDef, LenProperties

LEMMA TextIsParts == ASSUME NEW c PROVE TextOf(c) = FlattenSeq(TextParts(c))
  BY DEF TextOf, TextParts, TextPart

\* A block more adds its text at the end.
LEMMA TextAppend ==
  ASSUME NEW c \in Seq(ContentBlocks), NEW b \in ContentBlocks
  PROVE  TextOf(Append(c, b)) = TextOf(c) \o TextPart(b) /\ TextOf(c) \in Seq(Nat \X Nat)
<1> DEFINE n == Len(c)
           d == Append(c, b)
<1>1. /\ n \in Nat /\ d \in Seq(ContentBlocks) /\ Len(d) = n + 1
      /\ d[n + 1] = b /\ \A i \in 1..n : d[i] = c[i]
  OBVIOUS
<1>2. TextPart(b) \in Seq(Nat \X Nat)
  BY PartIsText
<1>3. /\ TextParts(c) \in Seq(Seq(Nat \X Nat)) /\ Len(TextParts(c)) = n
      /\ TextParts(d) \in Seq(Seq(Nat \X Nat)) /\ Len(TextParts(d)) = n + 1
  <2>1. TextParts(d) \in Seq(Seq(Nat \X Nat)) /\ Len(TextParts(d)) = Len(d)
    <3> HIDE DEF d
    <3> QED BY <1>1, PartsTyped
  <2> QED
    BY <1>1, <2>1, PartsTyped
<1> HIDE DEF n, d
<1>4. TextParts(d) = Append(TextParts(c), TextPart(b))
  <2> DEFINE p == TextParts(c)
             q == TextParts(d)
             r == Append(p, TextPart(b))
  <2>1. q = [i \in 1..(n + 1) |-> TextPart(d[i])] /\ p = [i \in 1..n |-> TextPart(c[i])]
    BY <1>1 DEF TextParts, n
  <2>2. /\ r \in Seq(Seq(Nat \X Nat)) /\ Len(r) = n + 1
        /\ r[n + 1] = TextPart(b) /\ \A i \in 1..n : r[i] = p[i]
    BY <1>2, <1>3, AppendProperties
  <2>3. ASSUME NEW i \in 1..(n + 1) PROVE q[i] = r[i]
    <3>1. CASE i = n + 1
      BY <1>1, <2>1, <2>2, <3>1
    <3>2. CASE i # n + 1
      <4>1. i \in 1..n
        BY <1>1, <3>2
      <4> QED
        BY <1>1, <2>1, <2>2, <4>1
    <3> QED
      BY <3>1, <3>2
  <2>4. q \in Seq(Seq(Nat \X Nat)) /\ Len(q) = n + 1
    BY <1>3
  <2> HIDE DEF q, r
  <2> QED
    BY <1>1, <2>2, <2>3, <2>4, SeqEqual DEF q, r
<1>5. /\ FlattenSeq(TextParts(d)) = FlattenSeq(TextParts(c)) \o TextPart(b)
      /\ FlattenSeq(TextParts(c)) \in Seq(Nat \X Nat)
  BY <1>2, <1>3, <1>4, FlattenAppend
<1> QED
  BY <1>5, TextIsParts DEF d

\* What says nothing may be left out: neither what is spoken nor the text changes.
LEMMA KeptIsSpoken ==
  ASSUME NEW c \in Seq(ContentBlocks), NEW keep,
         \A i \in 1..Len(c) : i \notin keep => ~Says(c[i])
  PROVE  /\ Spoken(Picked(c, keep)) = Spoken(c)
         /\ TextOf(Picked(c, keep)) = TextOf(c)
<1> DEFINE n == Len(c)
<1>1. n \in Nat /\ \A i \in 1..n : c[i] \in ContentBlocks
  OBVIOUS
<1>2. PICK f : f[n] = Picked(c, keep) /\ IsUpTo(f, c, keep, n)
  BY <1>1, PickedBy
<1> DEFINE Same(k) ==
             /\ f[k] \in Seq(ContentBlocks)
             /\ Spoken(f[k]) = Spoken(SubSeq(c, 1, k))
             /\ TextOf(f[k]) = TextOf(SubSeq(c, 1, k))
           T == {k \in Nat : k <= n => Same(k)}
<1>3. 0 \in T
  <2>1. f[0] = <<>> /\ SubSeq(c, 1, 0) = <<>> /\ <<>> \in Seq(ContentBlocks)
    BY <1>2 DEF IsUpTo
  <2> QED
    BY <2>1
<1>4. ASSUME NEW k \in Nat, k \in T PROVE k + 1 \in T
  <2> SUFFICES ASSUME k + 1 <= n PROVE Same(k + 1)
    OBVIOUS
  <2> DEFINE p == SubSeq(c, 1, k)
  <2>1. /\ k + 1 \in 1..n /\ (k + 1) - 1 = k
        /\ Same(k)
    BY <1>1, <1>4
  <2>2. p \in Seq(ContentBlocks) /\ SubSeq(c, 1, k + 1) = Append(p, c[k + 1])
    <3>1. k \in 0..n /\ k + 1 \in 1..n
      BY <1>1, <2>1
    <3> QED
      BY <3>1
  <2>3. c[k + 1] \in ContentBlocks
    BY <1>1, <2>1
  <2>4. f[k + 1] = IF k + 1 \in keep THEN Append(f[k], c[k + 1]) ELSE f[k]
    BY <1>2, <2>1 DEF IsUpTo
  <2> HIDE DEF p, n
  <2>5. /\ f[k] \in Seq(ContentBlocks)
        /\ Spoken(f[k]) = Spoken(p) /\ TextOf(f[k]) = TextOf(p)
    BY <2>1 DEF p
  <2>6. /\ Spoken(Append(p, c[k + 1]))
          = IF Says(c[k + 1]) THEN Append(Spoken(p), c[k + 1]) ELSE Spoken(p)
        /\ TextOf(Append(p, c[k + 1])) = TextOf(p) \o TextPart(c[k + 1])
        /\ TextOf(p) \in Seq(Nat \X Nat)
    BY <2>2, <2>3, SpokenAppend, TextAppend
  <2>7. CASE k + 1 \in keep
    <3> DEFINE q == f[k]
               b == c[k + 1]
    <3>1. f[k + 1] = Append(q, b)
      BY <2>4, <2>7
    <3>2. q \in Seq(ContentBlocks) /\ b \in ContentBlocks
      BY <2>3, <2>5
    <3>3. Spoken(q) = Spoken(p) /\ TextOf(q) = TextOf(p)
      BY <2>5
    <3> HIDE DEF q, b
    <3>4. /\ Spoken(Append(q, b)) = IF Says(b) THEN Append(Spoken(q), b) ELSE Spoken(q)
          /\ TextOf(Append(q, b)) = TextOf(q) \o TextPart(b)
      BY <3>2, SpokenAppend, TextAppend
    <3>5. Append(q, b) \in Seq(ContentBlocks)
      BY <3>2
    <3>6. /\ Spoken(SubSeq(c, 1, k + 1)) = IF Says(b) THEN Append(Spoken(p), b) ELSE Spoken(p)
          /\ TextOf(SubSeq(c, 1, k + 1)) = TextOf(p) \o TextPart(b)
      BY <2>2, <2>6 DEF b
    <3> QED
      BY <3>1, <3>3, <3>4, <3>5, <3>6
  <2>8. CASE k + 1 \notin keep
    <3>1. ~Says(c[k + 1])
      BY <2>1, <2>8 DEF n
    <3>2. TextPart(c[k + 1]) = <<>>
      BY <2>3, <3>1, PartIsText
    <3>3. TextOf(p) \o <<>> = TextOf(p)
      BY <2>6, ConcatEmptySeq
    <3> QED
      BY <2>2, <2>4, <2>5, <2>6, <2>8, <3>1, <3>2, <3>3
  <2> QED
    BY <2>7, <2>8
<1>5. Same(n)
  <2>1. Nat \subseteq T
    <3> HIDE DEF T
    <3> QED BY <1>3, <1>4, Induction
  <2> QED
    BY <1>1, <2>1
<1>6. SubSeq(c, 1, n) = c
  OBVIOUS
<1> QED
  BY <1>2, <1>5, <1>6

\* The response made of bs: its own blocks that say something, and its text.
LEMMA KeptFacts ==
  ASSUME NEW bs \in Seq(Blocks), NEW keep,
         \/ Finished(bs) \subseteq keep
         \/ \A i \in DOMAIN bs : bs[i].type # "thinking" => i \in keep
  PROVE  /\ Spoken(Kept(bs, keep)) = Spoken(BlockContents(bs))
         /\ TextOf(Kept(bs, keep)) = TextOf(BlockContents(bs))
<1>1. /\ BlockContents(bs) \in Seq(ContentBlocks) /\ Len(BlockContents(bs)) = Len(bs)
      /\ \A i \in 1..Len(bs) : BlockContents(bs)[i] = BlockContent(i, bs[i])
  BY ContentsFacts
<1>2. ASSUME NEW i \in 1..Len(bs), i \notin keep PROVE ~Says(BlockContents(bs)[i])
  <2>1. i \in DOMAIN bs /\ bs[i] \in Blocks
    OBVIOUS
  <2>2. bs[i].type \in BlockTypes /\ bs[i].pieces \in Nat
    BY <2>1, CallAssumption DEF Blocks
  <2>3. /\ BlockContents(bs)[i].type = bs[i].type
        /\ BlockContents(bs)[i].pieces = Pieces(i, bs[i].pieces)
    <3>1. BlockContents(bs)[i] = BlockContent(i, bs[i])
      BY <1>1
    <3> QED
      BY <3>1 DEF BlockContent
  <2>4. bs[i].pieces = 0 => Pieces(i, bs[i].pieces) = <<>>
    BY DEF Pieces
  <2>5. bs[i].type = "thinking" \/ (bs[i].type = "text" /\ bs[i].pieces = 0)
    BY <1>2, <2>1, <2>2 DEF Finished, BlockTypes
  <2> QED
    BY <2>3, <2>4, <2>5 DEF Says
<1> QED
  BY <1>1, <1>2, KeptIsSpoken DEF Kept

\* The parser's blocks are what the server has sent, but for the thoughts.
Matches(bs, ss) ==
  /\ Len(bs) = Len(ss)
  /\ \A i \in 1..Len(ss) :
       bs[i].type = ss[i].type /\ (ss[i].type # "thinking" => bs[i] = ss[i])

\* Lists of blocks that match say the same.
LEMMA MatchingSpeaks ==
  ASSUME NEW bs \in Seq(Blocks), NEW ss \in Seq(Blocks), Matches(bs, ss)
  PROVE  Spoken(BlockContents(bs)) = Spoken(BlockContents(ss))
<1> DEFINE c == BlockContents(bs)
           d == BlockContents(ss)
           I == {i \in DOMAIN c : Says(c[i])}
           J == {i \in DOMAIN d : Says(d[i])}
           n == Len(ss)
<1>1. /\ c \in Seq(ContentBlocks) /\ Len(c) = n /\ n \in Nat
      /\ d \in Seq(ContentBlocks) /\ Len(d) = n
      /\ \A i \in 1..n : c[i] = BlockContent(i, bs[i]) /\ d[i] = BlockContent(i, ss[i])
  BY ContentsFacts DEF Matches
<1>2. ASSUME NEW i \in 1..n
      PROVE  (Says(c[i]) <=> Says(d[i])) /\ (Says(c[i]) => c[i] = d[i])
  <2>1. CASE ss[i].type = "thinking"
    <3>1. c[i].type = "thinking" /\ d[i].type = "thinking"
      <4>1. bs[i].type = "thinking"
        BY <2>1 DEF Matches
      <4>2. c[i] = BlockContent(i, bs[i]) /\ d[i] = BlockContent(i, ss[i])
        BY <1>1
      <4> HIDE DEF c, d
      <4> QED
        BY <2>1, <4>1, <4>2 DEF BlockContent
    <3> QED
      BY <3>1 DEF Says
  <2>2. CASE ss[i].type # "thinking"
    BY <1>1, <2>2 DEF Matches
  <2> QED
    BY <2>1, <2>2
<1> HIDE DEF c, d, n
<1>3. DOMAIN c = 1..n /\ DOMAIN d = 1..n
  BY <1>1
<1>4. \A i \in 1..n : (i \in I <=> i \in J) /\ (i \in I => c[i] = d[i])
  BY <1>2, <1>3
<1> HIDE DEF I, J
<1>5. Picked(c, I) = Picked(d, J)
  BY <1>1, <1>4, PickedAgree
<1> QED
  BY <1>5 DEF Spoken, I, J, c, d

\* The text of the last block comes last.
LEMMA LastText ==
  ASSUME NEW bs \in Seq(Blocks), NEW b \in Blocks
  PROVE  TextOf(BlockContents(Append(bs, b))) =
           TextOf(BlockContents(bs)) \o TextPart(BlockContent(Len(bs) + 1, b))
<1> DEFINE n == Len(bs)
           as == Append(bs, b)
           c == BlockContents(bs)
           d == BlockContents(as)
<1>1. /\ n \in Nat /\ as \in Seq(Blocks) /\ Len(as) = n + 1
      /\ as[n + 1] = b /\ \A i \in 1..n : as[i] = bs[i]
  OBVIOUS
<1>2. /\ c \in Seq(ContentBlocks) /\ Len(c) = n
      /\ \A i \in 1..n : c[i] = BlockContent(i, bs[i])
  BY ContentsFacts
<1>3. /\ d \in Seq(ContentBlocks) /\ Len(d) = n + 1
      /\ \A i \in 1..(n + 1) : d[i] = BlockContent(i, as[i])
  <2>1. /\ d \in Seq(ContentBlocks) /\ Len(d) = Len(as)
        /\ \A i \in 1..Len(as) : d[i] = BlockContent(i, as[i])
    <3> HIDE DEF as
    <3> QED BY <1>1, ContentsFacts
  <2> QED
    BY <1>1, <2>1
<1> DEFINE x == BlockContent(n + 1, b)
           r == Append(c, x)
<1>4. x \in ContentBlocks
  BY <1>1, ContentTyped
<1> HIDE DEF as, c, d, n, x
<1>5. /\ r \in Seq(ContentBlocks) /\ Len(r) = n + 1
      /\ r[n + 1] = x /\ \A i \in 1..n : r[i] = c[i]
  BY <1>1, <1>2, <1>4, AppendProperties
<1>6. ASSUME NEW i \in 1..(n + 1) PROVE d[i] = r[i]
  <2>1. CASE i = n + 1
    BY <1>1, <1>3, <1>5, <2>1 DEF x
  <2>2. CASE i # n + 1
    <3>1. i \in 1..n
      BY <1>1, <2>2
    <3>2. d[i] = BlockContent(i, as[i]) /\ as[i] = bs[i]
            /\ c[i] = BlockContent(i, bs[i]) /\ r[i] = c[i]
      BY <1>1, <1>2, <1>3, <1>5, <3>1
    <3> QED
      BY <3>2
  <2> QED
    BY <2>1, <2>2
<1> HIDE DEF r
<1>7. d = r
  BY <1>1, <1>3, <1>5, <1>6, SeqEqual
<1>8. TextOf(r) = TextOf(c) \o TextPart(x)
  BY <1>2, <1>4, TextAppend DEF r
<1> QED
  BY <1>7, <1>8 DEF as, c, d, n, x

\* A piece more.
LEMMA OnePieceMore ==
  ASSUME NEW i \in Nat, NEW n \in Nat
  PROVE  Pieces(i, n + 1) = Append(Pieces(i, n), <<i, n + 1>>)
<1> DEFINE p == Pieces(i, n)
           q == Pieces(i, n + 1)
           r == Append(p, <<i, n + 1>>)
<1>1. \A m \in Nat : Pieces(i, m) \in Seq(Nat \X Nat) /\ Len(Pieces(i, m)) = m
  <2> SUFFICES ASSUME NEW m \in Nat
               PROVE  Pieces(i, m) \in Seq(Nat \X Nat) /\ Len(Pieces(i, m)) = m
    OBVIOUS
  <2>1. [k \in 1..m |-> <<i, k>>] \in [1..m -> Nat \X Nat]
    OBVIOUS
  <2> QED
    BY <2>1, SeqDef, LenProperties DEF Pieces
<1>2. /\ p \in Seq(Nat \X Nat) /\ Len(p) = n
      /\ q \in Seq(Nat \X Nat) /\ Len(q) = n + 1
  BY <1>1
<1>3. /\ \A k \in 1..n : p[k] = <<i, k>>
      /\ \A k \in 1..(n + 1) : q[k] = <<i, k>>
  BY DEF Pieces
<1> HIDE DEF p, q
<1>4. /\ r \in Seq(Nat \X Nat) /\ Len(r) = n + 1
      /\ r[n + 1] = <<i, n + 1>> /\ \A k \in 1..n : r[k] = p[k]
  BY <1>2, AppendProperties
<1>5. \A k \in 1..(n + 1) : q[k] = r[k]
  <2> SUFFICES ASSUME NEW k \in 1..(n + 1) PROVE q[k] = r[k]
    OBVIOUS
  <2>1. CASE k = n + 1
    BY <1>3, <1>4, <2>1
  <2>2. CASE k # n + 1
    <3>1. k \in 1..n
      BY <2>2
    <3> QED
      BY <1>3, <1>4, <3>1
  <2> QED
    BY <2>1, <2>2
<1> HIDE DEF r
<1>6. q = r
  BY <1>2, <1>4, <1>5, SeqEqual
<1> QED
  BY <1>6 DEF p, q, r

\* The inductive invariant: a stream is begun once, from nothing, and what its
\* handler has heard is the text of the parser's blocks.
StreamInv ==
  callPhase = "stream" =>
    streaming /\ Matches(blocks, sent) /\ heard = TextOf(BlockContents(blocks))

CallInv ==
  /\ CallTypeOK /\ StreamInv /\ ResponseMatchesStream
  /\ callPhase # "returned" => ~response.ok
  /\ callPhase = "request" /\ streaming => sent = <<>> /\ heard = <<>>
  /\ callPhase = "sleep" => ~streaming

\* A stream without a block.
LEMMA EmptyStream ==
  TextOf(BlockContents(<<>>)) = <<>> /\ Matches(<<>>, <<>>) /\ <<>> \in Seq(Blocks)
<1>1. BlockContents(<<>>) = <<>>
  BY DEF BlockContents
<1>2. TextOf(<<>>) = <<>>
  <2>1. TextParts(<<>>) = <<>>
    BY DEF TextParts
  <2> QED
    BY <2>1, TextIsParts, FlattenNone
<1> QED
  BY <1>1, <1>2 DEF Matches

\* Before the first attempt nothing was heard or kept.
LEMMA CallInitInv == CallInit => CallInv
<1> SUFFICES ASSUME CallInit PROVE CallInv
  OBVIOUS
<1>1. CallTypeOK
  <2>1. generalAttempt \in 0..maxAttempts /\ overloadedRetry \in 0..(overloadedMaxRetries + 1)
    BY CallAssumption DEF CallInit
  <2>2. callPhase # "returned" => generalAttempt < maxAttempts
          /\ overloadedRetry <= overloadedMaxRetries
    BY CallAssumption DEF CallInit
  <2>3. \A bs \in {blocks, sent} : bs \in Seq(Blocks) /\ Len(bs) <= MaxBlocks
    <3>1. blocks = <<>> /\ sent = <<>>
      BY DEF CallInit
    <3>2. Len(<<>>) = 0 /\ 0 <= MaxBlocks
      BY CallAssumption
    <3> QED
      BY <3>1, <3>2, EmptyStream
  <2> QED
    BY <2>1, <2>2, <2>3 DEF CallInit, CallTypeOK
<1>2. ~response.ok
  BY DEF CallInit, NoResponse
<1> QED
  BY <1>1, <1>2 DEF CallInit, CallInv, StreamInv, ResponseMatchesStream

\* A call that is given up returns no response.
LEMMA NothingReturned ==
  ASSUME CallInv, Return(NoResponse), CallTypeOK'
  PROVE  CallInv'
<1>1. callPhase' = "returned" /\ ~response'.ok
  BY DEF Return, NoResponse
<1> QED
  BY <1>1 DEF CallInv, StreamInv, ResponseMatchesStream

\* The retry loop gives up, or sleeps on.
LEMMA FailsKeepsCall ==
  ASSUME CallInv, NEW err \in Errors, Fails(err), callPhase \in {"request", "stream"},
         UNCHANGED <<provider, streaming, callCancelled, serverVars, blocks, stopReason, heard>>
  PROVE  CallInv'
<1>1. CASE Return(NoResponse) /\ UNCHANGED retryVars
  <2>1. CallTypeOK'
    BY <1>1 DEF CallInv, CallTypeOK, Return, retryVars, serverVars
  <2> QED
    BY <1>1, <2>1, NothingReturned
<1>2. CASE ~(Return(NoResponse) /\ UNCHANGED retryVars)
  <2>1. /\ ~streaming /\ ~callCancelled /\ Complete(err)
    BY <1>2 DEF Fails, CompleteStream, Complete
  <2>2. generalAttempt \in Nat /\ overloadedRetry \in Nat
    BY CallAssumption DEF CallInv, CallTypeOK
  <2>3. generalAttempt < maxAttempts /\ overloadedRetry <= overloadedMaxRetries
    BY DEF CallInv, CallTypeOK
  <2>4. CASE err = "ErrOverloaded"
    <3>1. /\ generalAttempt' = generalAttempt /\ overloadedRetry' = overloadedRetry + 1
          /\ IF overloadedRetry + 1 > overloadedMaxRetries THEN Return(NoResponse)
             ELSE callPhase' = "sleep" /\ UNCHANGED response
      BY <2>1, <2>2, <2>4 DEF Complete
    <3>2. generalAttempt' < maxAttempts \/ Return(NoResponse)
      BY <2>3, <3>1
    <3>3. CallTypeOK'
      BY <2>2, <2>3, <3>1, CallAssumption DEF CallInv, CallTypeOK, Return, serverVars
    <3>4. CASE Return(NoResponse)
      BY <3>3, <3>4, NothingReturned
    <3>5. CASE ~Return(NoResponse)
      BY <2>1, <3>1, <3>3, <3>5 DEF CallInv, StreamInv, ResponseMatchesStream, serverVars
    <3> QED
      BY <3>4, <3>5
  <2>5. CASE err # "ErrOverloaded"
    <3>1. /\ generalAttempt' = generalAttempt + 1 /\ overloadedRetry' = overloadedRetry
          /\ IF generalAttempt + 1 >= maxAttempts THEN Return(NoResponse)
             ELSE callPhase' = "sleep" /\ UNCHANGED response
      BY <2>1, <2>2, <2>5 DEF Complete
    <3>3. CallTypeOK'
      BY <2>2, <2>3, <3>1, CallAssumption DEF CallInv, CallTypeOK, Return, serverVars
    <3>4. CASE Return(NoResponse)
      BY <3>3, <3>4, NothingReturned
    <3>5. CASE ~Return(NoResponse)
      BY <2>1, <3>1, <3>3, <3>5 DEF CallInv, StreamInv, ResponseMatchesStream, serverVars
    <3> QED
      BY <3>4, <3>5
  <2> QED
    BY <2>4, <2>5
<1> QED
  BY <1>1, <1>2

\* The steps of a call: waiting for the next attempt,
LEMMA SleepKeepsCall == CallInv /\ sleep => CallInv'
<1> SUFFICES ASSUME CallInv, sleep PROVE CallInv'
  OBVIOUS
<1>1. ~streaming /\ UNCHANGED <<provider, streaming, callCancelled, blocks, stopReason, heard>>
      /\ UNCHANGED retryVars /\ sent' = <<>> /\ stopped' = FALSE
  BY DEF CallInv, sleep
<1>2. generalAttempt < maxAttempts /\ overloadedRetry <= overloadedMaxRetries
  BY DEF CallInv, CallTypeOK, sleep
<1>3. sent' \in Seq(Blocks) /\ Len(sent') <= MaxBlocks
  BY <1>1, EmptyStream, CallAssumption
<1>4. callPhase' \in {"request", "returned"}
  BY DEF sleep, Return
<1>5. CallTypeOK'
  BY <1>1, <1>2, <1>3, <1>4 DEF CallInv, CallTypeOK, retryVars
<1>6. CASE Return(NoResponse)
  BY <1>5, <1>6, NothingReturned
<1>7. CASE ~Return(NoResponse)
  <2>1. callPhase' = "request" /\ UNCHANGED response
    BY <1>7 DEF sleep
  <2>2. ~response.ok
    BY DEF sleep, CallInv
  <2> QED
    BY <1>1, <1>5, <2>1, <2>2 DEF CallInv, StreamInv, ResponseMatchesStream
<1> QED
  BY <1>6, <1>7

\* a failed request,
LEMMA RequestFailsKeepsCall == CallInv /\ RequestFails => CallInv'
<1> SUFFICES ASSUME CallInv, RequestFails PROVE CallInv'
  OBVIOUS
<1>1. PICK err \in Errors : Fails(err)
  BY DEF RequestFails
<1> QED
  BY <1>1, FailsKeepsCall DEF RequestFails

\* a connection that breaks,
LEMMA ReadFailsKeepsCall == CallInv /\ ReadFails => CallInv'
  BY FailsKeepsCall DEF ReadFails, Errors

\* A message of the server is a message.
LEMMA MessageTyped ==
  ASSUME NEW m \in ServerMessages
  PROVE  m \in Seq(Blocks) /\ Len(m) <= MaxBlocks
<1>1. PICK n \in 0..MaxBlocks : m \in [1..n -> Blocks]
  BY DEF ServerMessages, SeqOf, Blocks
<1>2. n \in Nat /\ n <= MaxBlocks
  BY CallAssumption
<1> QED
  BY <1>1, <1>2, SeqDef, LenProperties

\* A whole response is returned.
LEMMA MessageReturned ==
  ASSUME CallInv, NEW m \in ServerMessages, NEW keep,
         Finished(m) \subseteq keep \/ \A i \in DOMAIN m : m[i].type # "thinking" => i \in keep,
         callPhase = "request", ~streaming, sent' = m, stopped' = TRUE,
         Return([ok |-> TRUE, stopReason |-> "end_turn", content |-> Kept(m, keep)]),
         UNCHANGED <<provider, streaming, retryVars, callCancelled, blocks, stopReason, heard>>
  PROVE  CallInv'
<1>1. m \in Seq(Blocks) /\ Len(m) <= MaxBlocks
  BY MessageTyped
<1>2. Spoken(Kept(m, keep)) = Spoken(BlockContents(m))
  BY <1>1, KeptFacts
<1>3. callPhase' = "returned" /\ response'.content = Kept(m, keep)
  BY DEF Return
<1>4. CallTypeOK'
  BY <1>1, <1>3 DEF CallInv, CallTypeOK, retryVars
<1>5. Spoken(response'.content) = Spoken(BlockContents(sent'))
  BY <1>2, <1>3
<1> QED
  BY <1>3, <1>4, <1>5 DEF CallInv, StreamInv, ResponseMatchesStream

\* a whole response, of either server,
LEMMA CompletionKeepsCall == CallInv /\ fromOpenAICompletion => CallInv'
<1> SUFFICES ASSUME CallInv, fromOpenAICompletion PROVE CallInv'
  OBVIOUS
<1>1. PICK m \in ServerMessages :
        /\ sent' = m /\ stopped' = TRUE
        /\ Return([ok |-> TRUE, stopReason |-> "end_turn", content |-> Kept(m, Finished(m))])
  BY DEF fromOpenAICompletion
<1> QED
  BY <1>1, MessageReturned DEF fromOpenAICompletion

LEMMA ResponseKeepsCall == CallInv /\ parseAnthropicResponse => CallInv'
<1> SUFFICES ASSUME CallInv, parseAnthropicResponse PROVE CallInv'
  OBVIOUS
<1>1. PICK m \in ServerMessages :
        /\ sent' = m /\ stopped' = TRUE
        /\ Return([ok |-> TRUE, stopReason |-> "end_turn",
                   content |-> Kept(m, {i \in DOMAIN m : m[i].type # "thinking"})])
  BY DEF parseAnthropicResponse
<1> DEFINE keep == {i \in DOMAIN m : m[i].type # "thinking"}
<1>2. \A i \in DOMAIN m : m[i].type # "thinking" => i \in keep
  OBVIOUS
<1>3. Return([ok |-> TRUE, stopReason |-> "end_turn", content |-> Kept(m, keep)])
  BY <1>1
<1> HIDE DEF keep
<1> QED
  BY <1>1, <1>2, <1>3, MessageReturned DEF parseAnthropicResponse

\* a stream that begins,
LEMMA StreamBeginsKeepsCall == CallInv /\ StreamBegins => CallInv'
<1> SUFFICES ASSUME CallInv, StreamBegins PROVE CallInv'
  OBVIOUS
<1>1. callPhase = "request" /\ streaming /\ callPhase' = "stream" /\ blocks' = <<>>
      /\ UNCHANGED <<provider, streaming, callCancelled, heard, response>>
      /\ UNCHANGED retryVars /\ UNCHANGED serverVars
  BY DEF StreamBegins
<1>2. sent = <<>> /\ heard = <<>> /\ ~response.ok
  BY <1>1 DEF CallInv
<1>3. CallTypeOK'
  <2>1. blocks' \in Seq(Blocks) /\ Len(blocks') <= MaxBlocks
    BY <1>1, EmptyStream, CallAssumption
  <2> QED
    BY <1>1, <2>1 DEF CallInv, CallTypeOK, retryVars, serverVars
<1>4. Matches(blocks, sent)' /\ (heard = TextOf(BlockContents(blocks)))'
  BY <1>1, <1>2, EmptyStream DEF serverVars
<1> QED
  BY <1>1, <1>2, <1>3, <1>4 DEF CallInv, StreamInv, ResponseMatchesStream

\* An event of the stream keeps the invariant when it keeps the blocks like what
\* was sent, and what was heard the text of them.
LEMMA EventKeepsCall ==
  ASSUME CallInv, Sends, WhileStreaming, CallTypeOK',
         Matches(blocks', sent'), heard' = TextOf(BlockContents(blocks'))
  PROVE  CallInv'
<1>1. callPhase = "stream" /\ UNCHANGED <<streaming, callPhase, response>>
  BY DEF Sends, WhileStreaming
<1>2. streaming /\ ~response.ok
  BY <1>1 DEF CallInv, StreamInv
<1> QED
  BY <1>1, <1>2 DEF CallInv, StreamInv, ResponseMatchesStream

\* The last two elements may be of a kind of their own.
LEMMA MatchesAppend ==
  ASSUME NEW bs \in Seq(Blocks), NEW ss \in Seq(Blocks), Matches(bs, ss),
         NEW b \in Blocks, NEW s \in Blocks,
         b.type = s.type, s.type # "thinking" => b = s
  PROVE  Matches(Append(bs, b), Append(ss, s))
<1> DEFINE n == Len(ss)
           cs == Append(bs, b)
           ts == Append(ss, s)
<1>1. /\ n \in Nat /\ Len(bs) = n
      /\ \A i \in 1..n : bs[i].type = ss[i].type /\ (ss[i].type # "thinking" => bs[i] = ss[i])
  BY DEF Matches
<1>2. /\ Len(ts) = n + 1 /\ ts[n + 1] = s /\ \A i \in 1..n : ts[i] = ss[i]
  OBVIOUS
<1>3. /\ Len(cs) = n + 1 /\ cs[n + 1] = b /\ \A i \in 1..n : cs[i] = bs[i]
  BY <1>1
<1> HIDE DEF n, cs, ts
<1>4. \A i \in 1..(n + 1) : i = n + 1 \/ i \in 1..n
  BY <1>1
<1>5. \A i \in 1..(n + 1) :
        cs[i].type = ts[i].type /\ (ts[i].type # "thinking" => cs[i] = ts[i])
  BY <1>1, <1>2, <1>3, <1>4
<1>6. Matches(cs, ts)
  <2>1. Len(cs) = n + 1 /\ Len(ts) = n + 1
    BY <1>2, <1>3
  <2> QED
    BY <2>1, <1>5 DEF Matches
<1> QED
  BY <1>6 DEF cs, ts

\* a block that begins,
LEMMA StartKeepsCall ==
  ASSUME NEW type \in BlockTypes, CallInv, content_block_start(type)
  PROVE  CallInv'
<1> DEFINE b == [type |-> type, pieces |-> 0]
<1>1. /\ Sends /\ Len(sent) < MaxBlocks /\ WhileStreaming
      /\ sent' = Append(sent, b) /\ blocks' = Append(blocks, b)
      /\ UNCHANGED stopped /\ UNCHANGED heard
  BY DEF content_block_start
<1>2. b \in Blocks /\ b.pieces = 0
  BY CallAssumption DEF Blocks
<1> HIDE DEF b
<1>3. blocks \in Seq(Blocks) /\ sent \in Seq(Blocks)
  BY DEF CallInv, CallTypeOK
<1>4. Matches(blocks, sent) /\ heard = TextOf(BlockContents(blocks))
  BY <1>1 DEF CallInv, StreamInv, Sends
<1>5. Matches(blocks', sent')
  BY <1>1, <1>2, <1>3, <1>4, MatchesAppend
<1>6. heard' = TextOf(BlockContents(blocks'))
  <2>1. TextPart(BlockContent(Len(blocks) + 1, b)) = <<>>
    BY <1>2 DEF TextPart, BlockContent, Pieces
  <2>2. TextOf(BlockContents(blocks)) \in Seq(Nat \X Nat)
    <3>1. BlockContents(blocks) \in Seq(ContentBlocks)
      BY <1>3, ContentsFacts
    <3>2. BlockContent(1, b) \in ContentBlocks
      BY <1>2, ContentTyped
    <3> QED
      BY <3>1, <3>2, TextAppend
  <2>3. TextOf(BlockContents(blocks')) = TextOf(BlockContents(blocks)) \o <<>>
    BY <1>1, <1>2, <1>3, <2>1, LastText
  <2> QED
    BY <1>1, <1>4, <2>2, <2>3, ConcatEmptySeq
<1>7. CallTypeOK'
  <2>1. /\ Append(blocks, b) \in Seq(Blocks) /\ Len(Append(blocks, b)) = Len(blocks) + 1
        /\ Append(sent, b) \in Seq(Blocks) /\ Len(Append(sent, b)) = Len(sent) + 1
    BY <1>2, <1>3
  <2>2. Len(blocks) = Len(sent) /\ Len(sent) \in Nat /\ Len(sent) + 1 <= MaxBlocks
    BY <1>1, <1>3, <1>4, CallAssumption DEF Matches
  <2>3. \A bs \in {blocks', sent'} : bs \in Seq(Blocks) /\ Len(bs) <= MaxBlocks
    BY <1>1, <2>1, <2>2
  <2> QED
    BY <1>1, <2>3 DEF CallInv, CallTypeOK, WhileStreaming, retryVars
<1> QED
  BY <1>1, <1>5, <1>6, <1>7, EventKeepsCall

\* the stop reason,
LEMMA StopKeepsCall == CallInv /\ message_delta => CallInv'
<1> SUFFICES ASSUME CallInv, message_delta PROVE CallInv'
  OBVIOUS
<1>1. Sends /\ WhileStreaming /\ stopped' = TRUE /\ UNCHANGED <<sent, blocks, heard>>
  BY DEF message_delta
<1>2. CallTypeOK'
  BY <1>1 DEF CallInv, CallTypeOK, WhileStreaming, retryVars
<1>3. Matches(blocks, sent) /\ heard = TextOf(BlockContents(blocks))
  BY <1>1 DEF CallInv, StreamInv, Sends
<1>4. Matches(blocks', sent') /\ heard' = TextOf(BlockContents(blocks'))
  BY <1>1, <1>3
<1> QED
  BY <1>1, <1>2, <1>4, EventKeepsCall

\* the stream's end,
LEMMA EndKeepsCall == CallInv /\ parseStream => CallInv'
<1> SUFFICES ASSUME CallInv, parseStream PROVE CallInv'
  OBVIOUS
<1> DEFINE content == Kept(blocks, Finished(blocks))
<1>1. /\ callPhase = "stream" /\ callPhase' = "returned"
      /\ response'.content = content
      /\ UNCHANGED <<provider, streaming, callCancelled, blocks, heard>>
      /\ UNCHANGED retryVars /\ UNCHANGED serverVars
  BY DEF parseStream, Return
<1>2. /\ blocks \in Seq(Blocks) /\ sent \in Seq(Blocks)
      /\ Matches(blocks, sent) /\ heard = TextOf(BlockContents(blocks))
  BY <1>1 DEF CallInv, StreamInv, CallTypeOK
<1>3. Spoken(content) = Spoken(BlockContents(blocks))
        /\ TextOf(content) = TextOf(BlockContents(blocks))
  BY <1>2, KeptFacts
<1>4. Spoken(BlockContents(blocks)) = Spoken(BlockContents(sent))
  BY <1>2, MatchingSpeaks
<1> HIDE DEF content
<1>5. /\ Spoken(response'.content) = Spoken(BlockContents(sent'))
      /\ heard' = TextOf(response'.content)
  BY <1>1, <1>2, <1>3, <1>4 DEF serverVars
<1>6. CallTypeOK'
  BY <1>1 DEF CallInv, CallTypeOK, retryVars, serverVars
<1> QED
  BY <1>1, <1>5, <1>6 DEF CallInv, StreamInv, ResponseMatchesStream

\* a cancellation,
LEMMA CancelKeepsCall == CallInv /\ CancelCall => CallInv'
  BY DEF CallInv, CallTypeOK, StreamInv, ResponseMatchesStream, CancelCall, retryVars,
     serverVars

\* nothing,
LEMMA StutterKeepsCall == CallInv /\ UNCHANGED callVars => CallInv'
  BY DEF CallInv, CallTypeOK, StreamInv, ResponseMatchesStream, callVars, retryVars, serverVars

\* and a piece of a block, which the handler hears.
LEMMA DeltaKeepsCall == CallInv /\ content_block_delta => CallInv'
<1> SUFFICES ASSUME CallInv, content_block_delta PROVE CallInv'
  OBVIOUS
<1> DEFINE i == Len(sent)
           s == sent[i]
           b == blocks[i]
           more(x) == [type |-> x.type, pieces |-> x.pieces + 1]
           c == IF s.type = "thinking" THEN b ELSE more(b)
           ss == SubSeq(sent, 1, i - 1)
           bs == SubSeq(blocks, 1, i - 1)
<1>1. /\ Sends /\ WhileStreaming /\ i > 0 /\ s.pieces < MaxPieces
      /\ sent' = [sent EXCEPT ![i].pieces = @ + 1]
      /\ blocks' = IF s.type = "thinking" THEN blocks ELSE [blocks EXCEPT ![i].pieces = @ + 1]
      /\ heard' = IF s.type = "text" THEN Append(heard, <<i, s.pieces + 1>>) ELSE heard
      /\ UNCHANGED stopped
  BY DEF content_block_delta
<1>2. /\ blocks \in Seq(Blocks) /\ sent \in Seq(Blocks) /\ Len(sent) <= MaxBlocks
      /\ Matches(blocks, sent) /\ heard = TextOf(BlockContents(blocks))
  BY <1>1 DEF CallInv, CallTypeOK, StreamInv, Sends
<1>3. /\ i \in Nat \ {0} /\ Len(blocks) = i
      /\ s \in Blocks /\ b \in Blocks
      /\ b.type = s.type /\ (s.type # "thinking" => b = s)
  BY <1>1, <1>2 DEF Matches
<1>4. /\ s = [type |-> s.type, pieces |-> s.pieces] /\ s.type \in BlockTypes /\ s.pieces \in Nat
      /\ b = [type |-> b.type, pieces |-> b.pieces] /\ b.type \in BlockTypes /\ b.pieces \in Nat
  BY <1>3, CallAssumption DEF Blocks
<1>5. /\ more(s) \in Blocks /\ c \in Blocks /\ c.type = s.type
      /\ s.type # "thinking" => c = more(s)
  BY <1>1, <1>3, <1>4, CallAssumption DEF Blocks
<1>6. /\ sent' = [sent EXCEPT ![i] = more(s)]
      /\ blocks' = [blocks EXCEPT ![i] = c]
  <2>1. [s EXCEPT !.pieces = @ + 1] = more(s) /\ [b EXCEPT !.pieces = @ + 1] = more(b)
    BY <1>4
  <2>2. sent' = [sent EXCEPT ![i] = [s EXCEPT !.pieces = @ + 1]]
    BY <1>1
  <2>3. CASE s.type = "thinking"
    <3>1. blocks = [blocks EXCEPT ![i] = b]
      BY <1>2, <1>3
    <3> QED
      BY <1>1, <2>1, <2>2, <2>3, <3>1
  <2>4. CASE s.type # "thinking"
    <3>1. blocks' = [blocks EXCEPT ![i] = [b EXCEPT !.pieces = @ + 1]]
      BY <1>1, <2>4
    <3> QED
      BY <2>1, <2>2, <2>4, <3>1
  <2> QED
    BY <2>3, <2>4
<1> HIDE DEF s, b, c, i, more
<1>7. /\ ss \in Seq(Blocks) /\ Len(ss) = i - 1 /\ sent = Append(ss, s)
      /\ sent' = Append(ss, more(s))
  BY <1>2, <1>3, <1>5, <1>6, FrontAndLast DEF i, s
<1>8. /\ bs \in Seq(Blocks) /\ Len(bs) = i - 1 /\ blocks = Append(bs, b)
      /\ blocks' = Append(bs, c)
  BY <1>2, <1>3, <1>5, <1>6, FrontAndLast DEF b
<1>9. Matches(bs, ss)
  <2>1. \A k \in 1..(i - 1) : bs[k] = blocks[k] /\ ss[k] = sent[k] /\ k \in 1..i
    BY <1>2, <1>3 DEF i
  <2>2. \A k \in 1..(i - 1) :
          bs[k].type = ss[k].type /\ (ss[k].type # "thinking" => bs[k] = ss[k])
    BY <1>2, <2>1 DEF Matches, i
  <2> QED
    BY <1>7, <1>8, <2>2 DEF Matches
<1> HIDE DEF ss, bs
<1>10. Matches(blocks', sent')
  <2>1. more(s).type = s.type
    BY DEF more
  <2> QED
    BY <1>5, <1>7, <1>8, <1>9, <2>1, MatchesAppend
<1>11. heard' = TextOf(BlockContents(blocks'))
  <2> DEFINE t == TextOf(BlockContents(bs))
  <2>1. /\ TextOf(BlockContents(blocks)) = t \o TextPart(BlockContent(i, b))
        /\ TextOf(BlockContents(blocks')) = t \o TextPart(BlockContent(i, c))
    <3>1. Len(bs) + 1 = i
      BY <1>3, <1>8
    <3> QED
      BY <1>3, <1>5, <1>8, <3>1, LastText
  <2>2. CASE s.type # "text"
    <3>1. TextPart(BlockContent(i, b)) = <<>> /\ TextPart(BlockContent(i, c)) = <<>>
      BY <1>3, <1>5, <2>2 DEF TextPart, BlockContent
    <3> QED
      BY <1>1, <1>2, <2>1, <2>2, <3>1
  <2>3. CASE s.type = "text"
    <3> DEFINE n == s.pieces
               x == <<i, n + 1>>
               p == Pieces(i, n)
    <3>1. b = s /\ c = more(s)
      BY <1>3, <1>5, <2>3
    <3>2. TextPart(BlockContent(i, b)) = p /\ TextPart(BlockContent(i, c)) = Pieces(i, n + 1)
      BY <2>3, <3>1 DEF TextPart, BlockContent, more
    <3>3. Pieces(i, n + 1) = Append(p, x)
      BY <1>3, <1>4, OnePieceMore
    <3>4. t \in Seq(Nat \X Nat)
      <4>1. BlockContents(bs) \in Seq(ContentBlocks)
        BY <1>8, ContentsFacts
      <4>2. BlockContent(1, b) \in ContentBlocks
        BY <1>3, ContentTyped
      <4> QED
        BY <4>1, <4>2, TextAppend
    <3>5. p \in Seq(Nat \X Nat) /\ x \in Nat \X Nat
      <4>1. p = TextPart(BlockContent(i, b))
        BY <3>2
      <4>2. BlockContent(i, b) \in ContentBlocks
        BY <1>3, ContentTyped
      <4>3. x \in Nat \X Nat
        BY <1>3, <1>4
      <4> QED
        BY <4>1, <4>2, <4>3, PartIsText
    <3>6. heard' = Append(t \o p, x)
      BY <1>1, <1>2, <2>1, <2>3, <3>2
    <3> HIDE DEF t, p, x
    <3>7. Append(t \o p, x) = t \o Append(p, x)
      <4>1. <<x>> \in Seq(Nat \X Nat) /\ t \o p \in Seq(Nat \X Nat)
        BY <3>4, <3>5, ConcatProperties
      <4>2. (t \o p) \o <<x>> = t \o (p \o <<x>>)
        <5> DEFINE T == Nat \X Nat
                   u == <<x>>
        <5>1. t \in Seq(T) /\ p \in Seq(T) /\ u \in Seq(T)
          BY <3>4, <3>5, <4>1
        <5> HIDE DEF T, u
        <5>2. (t \o p) \o u = t \o (p \o u)
          BY <5>1, ConcatAssociative
        <5> QED
          BY <5>2 DEF u
      <4> QED
        BY <3>4, <3>5, <4>1, <4>2, AppendIsConcat
    <3> QED
      BY <2>1, <3>2, <3>3, <3>6, <3>7 DEF p
  <2> QED
    BY <2>2, <2>3
<1>12. CallTypeOK'
  <2>1. sent' \in Seq(Blocks) /\ Len(sent') = i
    BY <1>3, <1>5, <1>7, AppendProperties
  <2>2. blocks' \in Seq(Blocks) /\ Len(blocks') = i
    BY <1>3, <1>5, <1>8, AppendProperties
  <2>3. i <= MaxBlocks
    BY <1>2 DEF i
  <2>4. \A x \in {blocks', sent'} : x \in Seq(Blocks) /\ Len(x) <= MaxBlocks
    BY <2>1, <2>2, <2>3
  <2> QED
    BY <1>1, <2>4 DEF CallInv, CallTypeOK, WhileStreaming, retryVars
<1> QED
  BY <1>1, <1>10, <1>11, <1>12, EventKeepsCall

\* Every step of a call keeps CallInv.
LEMMA CallNextInv == CallInv /\ [CallNext]_callVars => CallInv'
  BY SleepKeepsCall, RequestFailsKeepsCall, ReadFailsKeepsCall, CompletionKeepsCall,
     ResponseKeepsCall, StreamBeginsKeepsCall, StartKeepsCall, DeltaKeepsCall, StopKeepsCall,
     EndKeepsCall, CancelKeepsCall, StutterKeepsCall DEF CallNext

\* A call of the model keeps to its types, and to its two retry budgets.
THEOREM CallTypeCorrect == CallSpec => []CallTypeOK
<1>1. CallInv => CallTypeOK
  BY DEF CallInv
<1> QED
  BY <1>1, CallInitInv, CallNextInv, PTL DEF CallSpec

\* A response with a stop reason is the answer the server gave, whatever attempts
\* failed before it, and a stream's handler heard exactly its text: RetryClient
\* never repeats a stream that has begun.
THEOREM ResponseCorrect == CallSpec => []ResponseMatchesStream
<1>1. CallInv => ResponseMatchesStream
  BY DEF CallInv
<1> QED
  BY <1>1, CallInitInv, CallNextInv, PTL DEF CallSpec
=============================================================================
