--------------------------- MODULE SequenceLemmas ---------------------------
(***************************************************************************)
(* What Picked selects, whatever the sequence: Picked is defined by        *)
(* recursion on the positions, and its facts are proved by induction over  *)
(* the set of the positions up to which they hold.                         *)
(***************************************************************************)
EXTENDS Subsequences, SequencesExt, SequenceTheorems, WellFoundedInduction, TLAPS

\* A set of naturals that is not empty has a least element.
LEMMA Least ==
  ASSUME NEW T, T \subseteq Nat, T # {}
  PROVE  \E m \in T : \A k \in T : m <= k
<1>1. IsWellFoundedOn(OpToRel(<, Nat), Nat)
  BY NatLessThanWellFounded
<1>2. PICK m \in T : \A k \in T : ~ (<<k, m>> \in OpToRel(<, Nat))
  BY <1>1, WFMin
<1>3. \A k \in T : ~(k < m)
  BY <1>2 DEF OpToRel
<1> QED
  BY <1>3

\* Induction, over the set of the numbers that have a property.
LEMMA Induction ==
  ASSUME NEW T, 0 \in T, \A n \in Nat : n \in T => n + 1 \in T
  PROVE  Nat \subseteq T
<1> SUFFICES ASSUME Nat \ T # {} PROVE FALSE
  OBVIOUS
<1>1. PICK m \in Nat \ T : \A k \in Nat \ T : m <= k
  BY Least
<1>2. m # 0 /\ m - 1 \in Nat
  BY <1>1
<1>3. m - 1 \in T
  BY <1>1, <1>2
<1> QED
  BY <1>1, <1>2, <1>3

\* What is needed of the function that Picked is defined by.
IsUpTo(f, s, I, n) ==
  /\ f[0] = <<>>
  /\ \A k \in 1..n : f[k] = IF k \in I THEN Append(f[k - 1], s[k]) ELSE f[k - 1]

LEMMA UpToExists ==
  ASSUME NEW s, NEW I, Len(s) \in Nat
  PROVE  \E f : f = [k \in 0..Len(s) |-> IF k = 0 THEN <<>>
                       ELSE IF k \in I THEN Append(f[k - 1], s[k]) ELSE f[k - 1]]
<1> DEFINE Step(f, k) == IF k = 0 THEN <<>>
                       ELSE IF k \in I THEN Append(f[k - 1], s[k]) ELSE f[k - 1]
           T == {m \in Nat : \E f : f = [k \in 0..m |-> Step(f, k)]}
<1>1. 0 \in T
  <2> DEFINE f == [k \in 0..0 |-> <<>>]
  <2>1. f = [k \in 0..0 |-> Step(f, k)]
    OBVIOUS
  <2> QED
    BY <2>1, Zenon
<1>2. ASSUME NEW m \in Nat, m \in T PROVE m + 1 \in T
  <2>1. PICK f : f = [k \in 0..m |-> Step(f, k)]
    BY <1>2
  <2> DEFINE g == [k \in 0..(m + 1) |-> IF k = m + 1 THEN (IF m + 1 \in I THEN Append(f[m], s[m+1]) ELSE f[m])
                                        ELSE f[k]]
  <2>2. ASSUME NEW k \in 0..(m+1) PROVE g[k] = Step(g, k)
    <3>1. CASE k = m + 1
      <4>1. g[m] = f[m]
        OBVIOUS
      <4>2. g[k] = IF m + 1 \in I THEN Append(f[m], s[m+1]) ELSE f[m]
        BY <3>1
      <4>3. k # 0 /\ k - 1 = m
        BY <3>1
      <4> QED
        BY <4>1, <4>2, <4>3, <3>1
    <3>2. CASE k # m + 1
      <4>1. k \in 0..m /\ g[k] = f[k]
        BY <3>2
      <4>2. f[k] = Step(f, k)
        BY <2>1, <4>1
      <4>3. k # 0 => k - 1 \in 0..m /\ g[k - 1] = f[k - 1]
        BY <4>1
      <4> QED
        BY <4>1, <4>2, <4>3
    <3> QED
      BY <3>1, <3>2
  <2>3. g = [k \in 0..(m+1) |-> g[k]]
    OBVIOUS
  <2> HIDE DEF g
  <2>4. g = [k \in 0..(m+1) |-> Step(g, k)]
    <3> HIDE DEF Step
    <3> QED BY <2>2, <2>3
  <2> HIDE DEF Step
  <2>5. \E h : h = [k \in 0..(m+1) |-> Step(h, k)]
    BY <2>4, Zenon
  <2> QED
    BY <2>5
<1>3. Len(s) \in T
  <2> HIDE DEF T
  <2> QED BY <1>1, <1>2, Induction
<1> QED
  BY <1>3

\* Picked, one position after the other.
LEMMA PickedBy ==
  ASSUME NEW s, NEW I, Len(s) \in Nat
  PROVE  \E f : f[Len(s)] = Picked(s, I) /\ IsUpTo(f, s, I, Len(s))
<1> DEFINE upto[k \in 0..Len(s)] == IF k = 0 THEN <<>>
                       ELSE IF k \in I THEN Append(upto[k - 1], s[k]) ELSE upto[k - 1]
<1>1. Picked(s, I) = upto[Len(s)]
  BY DEF Picked
<1>0. \E f : f = [k \in 0..Len(s) |-> IF k = 0 THEN <<>>
                       ELSE IF k \in I THEN Append(f[k - 1], s[k]) ELSE f[k - 1]]
  BY UpToExists
<1>2. upto = [k \in 0..Len(s) |-> IF k = 0 THEN <<>>
                       ELSE IF k \in I THEN Append(upto[k - 1], s[k]) ELSE upto[k - 1]]
  BY <1>0, Zenon
<1> HIDE DEF upto
<1>3. \A k \in 0..Len(s) : upto[k] = IF k = 0 THEN <<>>
                       ELSE IF k \in I THEN Append(upto[k - 1], s[k]) ELSE upto[k - 1]
  BY <1>2, Zenon
<1>4. upto[0] = <<>>
  <2> 0 \in 0..Len(s) OBVIOUS
  <2> QED BY <1>3
<1>5. ASSUME NEW k \in 1..Len(s) PROVE upto[k] = IF k \in I THEN Append(upto[k - 1], s[k]) ELSE upto[k - 1]
  <2> k \in 0..Len(s) /\ k # 0 OBVIOUS
  <2> QED BY <1>3
<1> QED
  BY <1>1, <1>4, <1>5, Zenon DEF IsUpTo

\* f lists the positions of I up to n in their order.
Enumerates(f, m, I, n) ==
  /\ m \in Nat /\ f \in [1..m -> 1..n]
  /\ \A j \in 1..m : f[j] \in I
  /\ \A j, k \in 1..m : j < k => f[j] < f[k]
  /\ \A i \in 1..n : i \in I => \E j \in 1..m : f[j] = i

\* p has the elements of s at the positions of I up to n, in their order.
Lists(p, s, I, n) ==
  \E m, f : Enumerates(f, m, I, n) /\ p = [j \in 1..m |-> s[f[j]]]

LEMMA EnumerateNone == ASSUME NEW I PROVE Enumerates(<<>>, 0, I, 0)
  BY DEF Enumerates

LEMMA EnumerateNot ==
  ASSUME NEW f, NEW m, NEW I, NEW n \in Nat, Enumerates(f, m, I, n), n + 1 \notin I
  PROVE  Enumerates(f, m, I, n + 1)
  BY DEF Enumerates

LEMMA EnumerateOne ==
  ASSUME NEW f, NEW m, NEW I, NEW n \in Nat, Enumerates(f, m, I, n), n + 1 \in I
  PROVE  Enumerates([j \in 1..(m + 1) |-> IF j = m + 1 THEN n + 1 ELSE f[j]], m + 1, I, n + 1)
<1> DEFINE g == [j \in 1..(m + 1) |-> IF j = m + 1 THEN n + 1 ELSE f[j]]
<1>1. m \in Nat /\ f \in [1..m -> 1..n]
  BY DEF Enumerates
<1>2. /\ g[m + 1] = n + 1
      /\ \A j \in 1..m : g[j] = f[j]
  BY <1>1
<1>3. g \in [1..(m + 1) -> 1..(n + 1)]
  BY <1>1
<1> HIDE DEF g
<1>4. \A j \in 1..(m + 1) : j = m + 1 \/ j \in 1..m
  BY <1>1
<1>5. \A j \in 1..(m + 1) : g[j] \in I
  BY <1>2, <1>4 DEF Enumerates
<1>6. ASSUME NEW j \in 1..(m + 1), NEW k \in 1..(m + 1), j < k PROVE g[j] < g[k]
  <2>1. j \in 1..m /\ g[j] = f[j] /\ f[j] \in 1..n
    BY <1>1, <1>2, <1>6
  <2>2. CASE k = m + 1
    BY <1>2, <2>1, <2>2
  <2>3. CASE k \in 1..m
    BY <1>2, <2>1, <2>3, <1>6 DEF Enumerates
  <2> QED
    BY <1>4, <2>2, <2>3
<1>7. ASSUME NEW i \in 1..(n + 1), i \in I PROVE \E j \in 1..(m + 1) : g[j] = i
  <2>1. CASE i = n + 1
    BY <1>1, <1>2, <2>1
  <2>2. CASE i \in 1..n
    <3>1. PICK j \in 1..m : f[j] = i
      BY <1>7, <2>2 DEF Enumerates
    <3> QED
      BY <1>1, <1>2, <3>1
  <2> QED
    BY <2>1, <2>2
<1>8. m + 1 \in Nat
  BY <1>1
<1>9. Enumerates(g, m + 1, I, n + 1)
  BY <1>3, <1>5, <1>6, <1>7, <1>8 DEF Enumerates
<1> QED
  BY <1>9 DEF g

\* Picked lists the elements at the positions of I, in their order and each once.
LEMMA PickedIs ==
  ASSUME NEW S, NEW s \in Seq(S), NEW I
  PROVE  Lists(Picked(s, I), s, I, Len(s))
<1>1. Len(s) \in Nat
  OBVIOUS
<1>2. PICK u : u[Len(s)] = Picked(s, I) /\ IsUpTo(u, s, I, Len(s))
  BY <1>1, PickedBy
<1> DEFINE T == {n \in Nat : n <= Len(s) => Lists(u[n], s, I, n)}
<1>3. 0 \in T
  <2>1. u[0] = [j \in 1..0 |-> s[<<>>[j]]]
    BY <1>2 DEF IsUpTo
  <2>2. \E f : Enumerates(f, 0, I, 0) /\ u[0] = [j \in 1..0 |-> s[f[j]]]
    BY <2>1, EnumerateNone
  <2>3. Lists(u[0], s, I, 0)
    BY <2>2 DEF Lists
  <2> QED
    BY <2>3
<1>4. ASSUME NEW n \in Nat, n \in T, n + 1 <= Len(s) PROVE Lists(u[n + 1], s, I, n + 1)
  <2>1. PICK m, f : Enumerates(f, m, I, n) /\ u[n] = [j \in 1..m |-> s[f[j]]]
    <3>1. Lists(u[n], s, I, n)
      BY <1>1, <1>4
    <3> QED
      BY <3>1 DEF Lists
  <2>2. m \in Nat /\ f \in [1..m -> 1..n]
    BY <2>1 DEF Enumerates
  <2>3. n + 1 \in 1..Len(s) /\ n + 1 - 1 = n
    BY <1>1, <1>4
  <2>4. u[n + 1] = IF n + 1 \in I THEN Append(u[n], s[n + 1]) ELSE u[n]
    BY <1>2, <2>3 DEF IsUpTo
  <2>5. CASE n + 1 \notin I
    BY <2>1, <2>4, <2>5, EnumerateNot DEF Lists
  <2>6. CASE n + 1 \in I
    <3> DEFINE g == [j \in 1..(m + 1) |-> IF j = m + 1 THEN n + 1 ELSE f[j]]
    <3>1. Enumerates(g, m + 1, I, n + 1)
      BY <2>1, <2>6, EnumerateOne
    <3>2. u[n] \in Seq(S) /\ Len(u[n]) = m
      <4>1. \A j \in 1..m : f[j] \in 1..Len(s)
        BY <1>1, <1>4, <2>2
      <4>2. \A j \in 1..m : s[f[j]] \in S
        BY <4>1
      <4>3. u[n] \in [1..m -> S]
        BY <2>1, <4>2
      <4> QED
        BY <2>2, <4>3, SeqDef, LenProperties
    <3>3. u[n + 1] = Append(u[n], s[n + 1]) /\ s[n + 1] \in S
      BY <2>3, <2>4, <2>6
    <3>4. u[n + 1] = [j \in 1..(m + 1) |-> IF j = m + 1 THEN s[n + 1] ELSE u[n][j]]
      BY <3>2, <3>3
    <3>5. ASSUME NEW j \in 1..(m + 1)
          PROVE  (IF j = m + 1 THEN s[n + 1] ELSE u[n][j]) = s[g[j]]
      <4>1. CASE j = m + 1
        BY <4>1
      <4>2. CASE j # m + 1
        <5>1. j \in 1..m
          BY <2>2, <4>2
        <5> QED
          BY <2>1, <4>2, <5>1
      <4> QED
        BY <4>1, <4>2
    <3> HIDE DEF g
    <3>6. u[n + 1] = [j \in 1..(m + 1) |-> s[g[j]]]
      BY <3>4, <3>5
    <3> QED
      BY <3>1, <3>6 DEF Lists
  <2> QED
    BY <2>5, <2>6
<1>5. \A n \in Nat : n \in T => n + 1 \in T
  BY <1>4
<1>6. Len(s) \in T
  <2> HIDE DEF T
  <2> QED
    BY <1>1, <1>3, <1>5, Induction
<1>7. Lists(u[Len(s)], s, I, Len(s))
  BY <1>1, <1>6
<1> QED
  BY <1>2, <1>7

\* p has the elements of s at the positions of I, and what holds of any two of those
\* positions holds of two of its elements.
Selects(p, s, I) ==
  /\ \A j \in 1..Len(p) : \E i \in 1..Len(s) : i \in I /\ p[j] = s[i]
  /\ \A i \in 1..Len(s) : i \in I => \E j \in 1..Len(p) : p[j] = s[i]
  /\ \A j, k \in 1..Len(p) :
       j < k => \E h, i \in 1..Len(s) : h \in I /\ i \in I /\ h < i /\ p[j] = s[h] /\ p[k] = s[i]
  /\ \A h, i \in 1..Len(s) :
       h \in I /\ i \in I /\ h < i => \E j, k \in 1..Len(p) : j < k /\ p[j] = s[h] /\ p[k] = s[i]

\* What a use of Picked needs.
LEMMA PickedFacts ==
  ASSUME NEW S, NEW s \in Seq(S), NEW I
  PROVE  Picked(s, I) \in Seq(S) /\ Selects(Picked(s, I), s, I)
<1> DEFINE p == Picked(s, I)
<1>0. Lists(p, s, I, Len(s))
  BY PickedIs
<1> HIDE DEF p
<1>1. PICK m, f : Enumerates(f, m, I, Len(s)) /\ p = [j \in 1..m |-> s[f[j]]]
  BY <1>0 DEF Lists
<1>2. m \in Nat /\ f \in [1..m -> 1..Len(s)]
  BY <1>1 DEF Enumerates
<1>3. \A j \in 1..m : f[j] \in 1..Len(s) /\ f[j] \in I /\ p[j] = s[f[j]] /\ s[f[j]] \in S
  BY <1>1, <1>2 DEF Enumerates
<1>4. p \in Seq(S) /\ Len(p) = m
  <2>1. p \in [1..m -> S]
    BY <1>1, <1>3
  <2> QED
    BY <1>2, <2>1, SeqDef, LenProperties
<1>5. \A j \in 1..Len(p) : \E i \in 1..Len(s) : i \in I /\ p[j] = s[i]
  BY <1>3, <1>4
<1>6. \A i \in 1..Len(s) : i \in I => \E j \in 1..Len(p) : f[j] = i /\ p[j] = s[i]
  BY <1>1, <1>3, <1>4 DEF Enumerates
<1>7. ASSUME NEW j \in 1..Len(p), NEW k \in 1..Len(p), j < k
      PROVE  \E h, i \in 1..Len(s) : h \in I /\ i \in I /\ h < i /\ p[j] = s[h] /\ p[k] = s[i]
  BY <1>1, <1>3, <1>4, <1>7 DEF Enumerates
<1>8. ASSUME NEW h \in 1..Len(s), NEW i \in 1..Len(s), h \in I, i \in I, h < i
      PROVE  \E j, k \in 1..Len(p) : j < k /\ p[j] = s[h] /\ p[k] = s[i]
  <2>1. PICK j \in 1..Len(p) : f[j] = h /\ p[j] = s[h]
    BY <1>6, <1>8
  <2>2. PICK k \in 1..Len(p) : f[k] = i /\ p[k] = s[i]
    BY <1>6, <1>8
  <2>3. j < k
    <3>1. j \in 1..m /\ k \in 1..m /\ j \in Int /\ k \in Int
      BY <1>2, <1>4
    <3>2. ~(k < j)
      BY <1>1, <1>2, <1>8, <2>1, <2>2, <3>1 DEF Enumerates
    <3> QED
      BY <1>8, <2>1, <2>2, <3>1, <3>2
  <2> QED
    BY <2>1, <2>2, <2>3
<1>9. Selects(p, s, I)
  BY <1>5, <1>6, <1>7, <1>8 DEF Selects
<1> QED
  BY <1>4, <1>9 DEF p

\* Two subsequences are the same as long as what is selected is the same.
LEMMA UpToAgree ==
  ASSUME NEW f, NEW s, NEW I, NEW g, NEW t, NEW J, NEW n \in Nat,
         IsUpTo(f, s, I, n), IsUpTo(g, t, J, n),
         \A k \in 1..n : (k \in I <=> k \in J) /\ (k \in I => s[k] = t[k])
  PROVE  f[n] = g[n]
<1> DEFINE T == {k \in Nat : k <= n => f[k] = g[k]}
<1>1. 0 \in T
  BY DEF IsUpTo
<1>2. ASSUME NEW k \in Nat, k \in T PROVE k + 1 \in T
  <2> SUFFICES ASSUME k + 1 <= n PROVE f[k + 1] = g[k + 1]
    OBVIOUS
  <2>1. k + 1 \in 1..n /\ (k + 1) - 1 = k /\ f[k] = g[k]
    BY <1>2
  <2>2. /\ f[k + 1] = IF k + 1 \in I THEN Append(f[k], s[k + 1]) ELSE f[k]
        /\ g[k + 1] = IF k + 1 \in J THEN Append(g[k], t[k + 1]) ELSE g[k]
    BY <2>1 DEF IsUpTo
  <2> QED
    BY <2>1, <2>2
<1>3. n \in T
  <2> HIDE DEF T
  <2> QED BY <1>1, <1>2, Induction
<1> QED
  BY <1>3

LEMMA PickedAgree ==
  ASSUME NEW s, NEW I, NEW t, NEW J, Len(s) \in Nat, Len(t) = Len(s),
         \A k \in 1..Len(s) : (k \in I <=> k \in J) /\ (k \in I => s[k] = t[k])
  PROVE  Picked(s, I) = Picked(t, J)
<1>1. PICK f : f[Len(s)] = Picked(s, I) /\ IsUpTo(f, s, I, Len(s))
  BY PickedBy
<1>2. PICK g : g[Len(t)] = Picked(t, J) /\ IsUpTo(g, t, J, Len(t))
  BY PickedBy
<1> DEFINE n == Len(s)
<1> HIDE DEF n
<1>3. f[n] = g[n]
  <2>1. n \in Nat /\ IsUpTo(f, s, I, n) /\ IsUpTo(g, t, J, n)
    BY <1>1, <1>2 DEF n
  <2>2. \A k \in 1..n : (k \in I <=> k \in J) /\ (k \in I => s[k] = t[k])
    BY DEF n
  <2> QED
    BY <2>1, <2>2, UpToAgree
<1> QED
  BY <1>1, <1>2, <1>3 DEF n

\* One element more.
LEMMA PickedAppend ==
  ASSUME NEW S, NEW s \in Seq(S), NEW x \in S, NEW I
  PROVE  Picked(Append(s, x), I) =
           IF Len(s) + 1 \in I THEN Append(Picked(s, I), x) ELSE Picked(s, I)
<1> DEFINE n == Len(s)
           t == Append(s, x)
<1>1. n \in Nat /\ Len(t) = n + 1 /\ t[n + 1] = x /\ \A k \in 1..n : t[k] = s[k]
  OBVIOUS
<1>2. PICK f : f[n] = Picked(s, I) /\ IsUpTo(f, s, I, n)
  BY <1>1, PickedBy
<1>3. PICK g : g[n + 1] = Picked(t, I) /\ IsUpTo(g, t, I, n + 1)
  <2>1. Len(t) \in Nat BY <1>1
  <2>2. PICK g : g[Len(t)] = Picked(t, I) /\ IsUpTo(g, t, I, Len(t))
    <3> HIDE DEF t
    <3> QED BY <2>1, PickedBy
  <2> QED BY <1>1, <2>2
<1> HIDE DEF n, t
<1>4. IsUpTo(g, t, I, n)
  BY <1>1, <1>3 DEF IsUpTo
<1>5. g[n] = f[n]
  <2>1. \A k \in 1..n : (k \in I <=> k \in I) /\ (k \in I => t[k] = s[k])
    BY <1>1
  <2> QED
    BY <1>1, <1>2, <1>4, <2>1, UpToAgree
<1>6. g[n + 1] = IF n + 1 \in I THEN Append(g[n], x) ELSE g[n]
  <2>1. n + 1 \in 1..(n + 1) /\ (n + 1) - 1 = n
    BY <1>1
  <2> QED
    BY <1>1, <1>3, <2>1 DEF IsUpTo
<1> QED
  BY <1>2, <1>3, <1>5, <1>6 DEF n, t

\* f is a function over b..n, and G gives its next values.
FollowsFrom(f, b, n, v, G) ==
  /\ DOMAIN f = b..n /\ f = [k \in DOMAIN f |-> f[k]]
  /\ \A k \in b..n : f[k] = IF k = b THEN v ELSE G[<<k, f[k - 1]>>]

\* Such functions exist.
LEMMA RecursionExists ==
  ASSUME NEW b \in Nat, NEW n \in Nat, NEW v, NEW G
  PROVE  \E f : FollowsFrom(f, b, n, v, G)
<1> DEFINE T == {m \in Nat : \E f : FollowsFrom(f, b, m, v, G)}
<1>1. 0 \in T
  <2> DEFINE f == [k \in b..0 |-> v]
  <2>1. FollowsFrom(f, b, 0, v, G)
    BY DEF FollowsFrom
  <2> QED
    BY <2>1
<1>2. ASSUME NEW m \in Nat, m \in T PROVE m + 1 \in T
  <2>1. PICK f : FollowsFrom(f, b, m, v, G)
    BY <1>2
  <2> DEFINE x == G[<<m + 1, f[m]>>]
  <2> HIDE DEF x
  <2> DEFINE g == [k \in b..(m + 1) |-> IF k = m + 1 THEN (IF m + 1 = b THEN v ELSE x) ELSE f[k]]
  <2>2. ASSUME NEW k \in b..(m + 1)
        PROVE  g[k] = IF k = b THEN v ELSE G[<<k, g[k - 1]>>]
    <3>1. CASE k = m + 1 /\ k = b
      BY <3>1
    <3>2. CASE k = m + 1 /\ k # b
      <4>1. m \in b..(m + 1) /\ m # m + 1 /\ k - 1 = m
        BY <3>2
      <4>2. g[k - 1] = f[m]
        BY <4>1
      <4>3. g[k] = x
        BY <3>2
      <4> QED
        BY <3>2, <4>2, <4>3 DEF x
    <3>3. CASE k # m + 1
      <4>1. k \in b..m /\ g[k] = f[k]
        BY <3>3
      <4>2. f[k] = IF k = b THEN v ELSE G[<<k, f[k - 1]>>]
        BY <2>1, <4>1 DEF FollowsFrom
      <4>3. k # b => g[k - 1] = f[k - 1]
        BY <3>3
      <4> QED
        BY <4>1, <4>2, <4>3
    <3> QED
      BY <3>1, <3>2, <3>3
  <2>3. DOMAIN g = b..(m + 1) /\ g = [k \in DOMAIN g |-> g[k]]
    OBVIOUS
  <2> HIDE DEF g
  <2>4. FollowsFrom(g, b, m + 1, v, G)
    BY <2>2, <2>3 DEF FollowsFrom
  <2> QED
    BY <2>4
<1>3. n \in T
  <2> HIDE DEF T
  <2> QED BY <1>1, <1>2, Induction
<1> QED
  BY <1>3

\* Such a function stays in a set that G stays in.
LEMMA RecursionTyped ==
  ASSUME NEW S, NEW n \in Nat, NEW v \in S, NEW G,
         \A k \in 1..n, x \in S : G[<<k, x>>] \in S
  PROVE  \E f : FollowsFrom(f, 0, n, v, G) /\ \A k \in 0..n : f[k] \in S
<1>1. PICK f : FollowsFrom(f, 0, n, v, G)
  BY RecursionExists
<1>2. \A k \in 0..n : f[k] = IF k = 0 THEN v ELSE G[<<k, f[k - 1]>>]
  BY <1>1 DEF FollowsFrom
<1> DEFINE T == {k \in Nat : k <= n => f[k] \in S}
<1>3. 0 \in T
  <2>1. 0 \in 0..n
    OBVIOUS
  <2>2. f[0] = v
    BY <1>2, <2>1
  <2> QED
    BY <2>2
<1>4. ASSUME NEW k \in Nat, k \in T PROVE k + 1 \in T
  <2> SUFFICES ASSUME k + 1 <= n PROVE f[k + 1] \in S
    OBVIOUS
  <2>1. k + 1 \in 1..n /\ k + 1 \in 0..n /\ k + 1 # 0 /\ (k + 1) - 1 = k /\ f[k] \in S
    BY <1>4
  <2> QED
    BY <1>2, <2>1
<1>5. \A k \in 0..n : f[k] \in S
  <2>1. Nat \subseteq T
    <3> HIDE DEF T
    <3> QED BY <1>3, <1>4, Induction
  <2> QED
    BY <2>1
<1> QED
  BY <1>1, <1>5

\* f[k] is the concatenation of the first k sequences of ss.
IsFlatUpTo(f, ss, n) ==
  /\ f[1] = ss[1]
  /\ \A k \in 2..n : f[k] = f[k - 1] \o ss[k]

LEMMA FlattenBy ==
  ASSUME NEW S, NEW ss \in Seq(Seq(S)), Len(ss) # 0
  PROVE  \E f : /\ f[Len(ss)] = FlattenSeq(ss) /\ IsFlatUpTo(f, ss, Len(ss))
                /\ \A k \in 1..Len(ss) : f[k] \in Seq(S)
<1> DEFINE n == Len(ss)
           G == [x \in Nat \X Seq(S) |-> x[2] \o ss[x[1]]]
<1>1. n \in Nat \ {0} /\ \A k \in 1..n : ss[k] \in Seq(S)
  OBVIOUS
<1>2. \A k \in Nat, x \in Seq(S) : G[<<k, x>>] = x \o ss[k]
  OBVIOUS
<1> HIDE DEF G
<1>3. PICK f : FollowsFrom(f, 1, n, ss[1], G)
  <2>1. n \in Nat /\ 1 \in Nat
    BY <1>1
  <2> HIDE DEF n
  <2> QED BY <2>1, RecursionExists
<1>4. \A k \in 1..n : f[k] = IF k = 1 THEN ss[1] ELSE G[<<k, f[k - 1]>>]
  BY <1>3 DEF FollowsFrom
<1> HIDE DEF n
<1> DEFINE T == {k \in Nat : k \in 1..n => f[k] \in Seq(S)}
<1>5. 0 \in T
  OBVIOUS
<1>6. ASSUME NEW k \in Nat, k \in T PROVE k + 1 \in T
  <2> SUFFICES ASSUME k + 1 \in 1..n PROVE f[k + 1] \in Seq(S)
    OBVIOUS
  <2>1. CASE k = 0
    <3>1. k + 1 = 1 /\ 1 \in 1..n
      BY <2>1
    <3>2. f[1] = ss[1] /\ ss[1] \in Seq(S)
      BY <1>1, <1>4, <3>1
    <3> QED
      BY <3>1, <3>2
  <2>2. CASE k # 0
    <3>1. k \in 1..n /\ k + 1 # 1 /\ (k + 1) - 1 = k
      BY <1>1, <2>2
    <3>2. f[k + 1] = G[<<k + 1, f[k]>>] /\ f[k] \in Seq(S)
      BY <1>4, <1>6, <3>1
    <3>3. G[<<k + 1, f[k]>>] = f[k] \o ss[k + 1] /\ ss[k + 1] \in Seq(S)
      <4>1. k + 1 \in Nat /\ ss[k + 1] \in Seq(S)
        BY <1>1
      <4> QED
        BY <1>2, <3>2, <4>1
    <3> QED
      BY <3>2, <3>3
  <2> QED
    BY <2>1, <2>2
<1>7. \A k \in 1..n : f[k] \in Seq(S)
  <2>1. Nat \subseteq T
    <3> HIDE DEF T
    <3> QED BY <1>5, <1>6, Induction
  <2> QED
    BY <2>1
<1>8. \A k \in 1..n : f[k] = IF k = 1 THEN ss[k] ELSE f[k - 1] \o ss[k]
  <2> SUFFICES ASSUME NEW k \in 1..n PROVE f[k] = IF k = 1 THEN ss[k] ELSE f[k - 1] \o ss[k]
    OBVIOUS
  <2>1. CASE k = 1
    BY <1>4, <2>1
  <2>2. CASE k # 1
    <3>1. k \in Nat /\ k - 1 \in 1..n
      BY <1>1, <2>2
    <3>2. f[k - 1] \in Seq(S)
      BY <1>7, <3>1
    <3> QED
      BY <1>2, <1>4, <2>2, <3>1, <3>2
  <2> QED
    BY <2>1, <2>2
<1>9. f = [k \in 1..n |-> IF k = 1 THEN ss[k] ELSE f[k - 1] \o ss[k]]
  <2>1. f = [k \in 1..n |-> f[k]]
    BY <1>3 DEF FollowsFrom
  <2> DEFINE W(k) == IF k = 1 THEN ss[k] ELSE f[k - 1] \o ss[k]
  <2>2. \A k \in 1..n : f[k] = W(k)
    BY <1>8
  <2> HIDE DEF W
  <2>3. f = [k \in 1..n |-> W(k)]
    BY <2>1, <2>2
  <2> QED BY <2>3 DEF W
<1> DEFINE flatten[k \in 1..Len(ss)] == IF k = 1 THEN ss[k] ELSE flatten[k - 1] \o ss[k]
<1>10. FlattenSeq(ss) = flatten[Len(ss)]
  BY DEF FlattenSeq
<1>11. \E g : g = [k \in 1..Len(ss) |-> IF k = 1 THEN ss[k] ELSE g[k - 1] \o ss[k]]
  BY <1>9, Zenon DEF n
<1>12. flatten = [k \in 1..Len(ss) |-> IF k = 1 THEN ss[k] ELSE flatten[k - 1] \o ss[k]]
  BY <1>11, Zenon
<1> HIDE DEF flatten
<1>13. \A k \in 1..n : flatten[k] = IF k = 1 THEN ss[k] ELSE flatten[k - 1] \o ss[k]
  BY <1>12, Zenon DEF n
<1> DEFINE U == {k \in Nat : k \in 1..n => flatten[k] = f[k]}
<1>14. 0 \in U
  OBVIOUS
<1>15. ASSUME NEW k \in Nat, k \in U PROVE k + 1 \in U
  <2> SUFFICES ASSUME k + 1 \in 1..n PROVE flatten[k + 1] = f[k + 1]
    OBVIOUS
  <2>1. CASE k = 0
    BY <1>8, <1>13, <2>1
  <2>2. CASE k # 0
    <3>1. k \in 1..n /\ k + 1 # 1 /\ (k + 1) - 1 = k
      BY <1>1, <2>2
    <3> QED
      BY <1>8, <1>13, <1>15, <3>1
  <2> QED
    BY <2>1, <2>2
<1>16. flatten[n] = f[n]
  <2>1. Nat \subseteq U
    <3> HIDE DEF U
    <3> QED BY <1>14, <1>15, Induction
  <2>2. n \in Nat /\ n \in 1..n
    BY <1>1
  <2> QED
    BY <2>1, <2>2
<1>17. IsFlatUpTo(f, ss, n)
  <2>1. 1 \in 1..n
    BY <1>1
  <2>2. \A k \in 2..n : k \in 1..n /\ k # 1
    OBVIOUS
  <2> QED
    BY <1>8, <2>1, <2>2 DEF IsFlatUpTo
<1> QED
  BY <1>7, <1>10, <1>16, <1>17 DEF n

\* No sequence at all, and one sequence more.
LEMMA FlattenNone == FlattenSeq(<<>>) = <<>>
  BY DEF FlattenSeq

LEMMA FlattenAppend ==
  ASSUME NEW S, NEW ss \in Seq(Seq(S)), NEW s \in Seq(S)
  PROVE  /\ FlattenSeq(Append(ss, s)) = FlattenSeq(ss) \o s
         /\ FlattenSeq(ss) \in Seq(S)
<1> DEFINE n == Len(ss)
           tt == Append(ss, s)
<1>1. /\ n \in Nat /\ tt \in Seq(Seq(S)) /\ Len(tt) = n + 1
      /\ tt[n + 1] = s /\ \A k \in 1..n : tt[k] = ss[k]
  OBVIOUS
<1>2. PICK g : /\ g[n + 1] = FlattenSeq(tt) /\ IsFlatUpTo(g, tt, n + 1)
               /\ \A k \in 1..(n + 1) : g[k] \in Seq(S)
  <2>1. \E g : /\ g[Len(tt)] = FlattenSeq(tt) /\ IsFlatUpTo(g, tt, Len(tt))
               /\ \A k \in 1..Len(tt) : g[k] \in Seq(S)
    <3>1. tt \in Seq(Seq(S)) /\ Len(tt) # 0
      BY <1>1
    <3> HIDE DEF tt
    <3> QED BY <3>1, FlattenBy
  <2> QED
    BY <1>1, <2>1
<1>3. CASE n = 0
  <2>1. ss = <<>>
    BY <1>3
  <2>2. FlattenSeq(ss) = <<>>
    BY <2>1, FlattenNone
  <2>3. FlattenSeq(tt) = s
    BY <1>1, <1>2, <1>3 DEF IsFlatUpTo
  <2>4. <<>> \o s = s /\ <<>> \in Seq(S)
    OBVIOUS
  <2> QED
    BY <2>2, <2>3, <2>4
<1>4. CASE n # 0
  <2>1. PICK f : /\ f[n] = FlattenSeq(ss) /\ IsFlatUpTo(f, ss, n)
                 /\ \A k \in 1..n : f[k] \in Seq(S)
    BY <1>4, FlattenBy
  <2> HIDE DEF n, tt
  <2> DEFINE T == {k \in Nat : k \in 1..n => f[k] = g[k]}
  <2>2. 0 \in T
    OBVIOUS
  <2>3. ASSUME NEW k \in Nat, k \in T PROVE k + 1 \in T
    <3> SUFFICES ASSUME k + 1 \in 1..n PROVE f[k + 1] = g[k + 1]
      OBVIOUS
    <3>1. CASE k = 0
      <4>1. tt[1] = ss[1]
        BY <1>1, <3>1
      <4> QED
        BY <1>2, <2>1, <3>1, <4>1 DEF IsFlatUpTo
    <3>2. CASE k # 0
      <4>1. k \in 1..n /\ k + 1 \in 2..n /\ k + 1 \in 2..(n + 1) /\ (k + 1) - 1 = k
        BY <1>1, <3>2
      <4>2. f[k + 1] = f[k] \o ss[k + 1] /\ g[k + 1] = g[k] \o tt[k + 1]
        BY <1>2, <2>1, <4>1 DEF IsFlatUpTo
      <4> QED
        BY <1>1, <2>3, <4>1, <4>2
    <3> QED
      BY <3>1, <3>2
  <2>4. f[n] = g[n] /\ f[n] \in Seq(S)
    <3>1. Nat \subseteq T
      <4> HIDE DEF T
      <4> QED BY <2>2, <2>3, Induction
    <3>2. n \in 1..n /\ n \in Nat
      BY <1>1, <1>4
    <3> QED
      BY <2>1, <3>1, <3>2
  <2>5. g[n + 1] = g[n] \o s
    <3>1. n + 1 \in 2..(n + 1) /\ (n + 1) - 1 = n
      BY <1>1, <1>4
    <3> QED
      BY <1>1, <1>2, <3>1 DEF IsFlatUpTo
  <2> QED
    BY <1>2, <2>1, <2>4, <2>5 DEF tt
<1> QED
  BY <1>3, <1>4

\* A sequence from its end to its beginning.
LEMMA Reversed ==
  ASSUME NEW S, NEW s \in Seq(S)
  PROVE  /\ Reverse(s) \in Seq(S) /\ Len(Reverse(s)) = Len(s)
         /\ \A i \in 1..Len(s) : Reverse(s)[i] = s[Len(s) - i + 1]
<1> DEFINE n == Len(s)
           r == Reverse(s)
<1>1. n \in Nat /\ \A i \in 1..n : s[i] \in S
  OBVIOUS
<1>2. r = [i \in 1..n |-> s[(n - i) + 1]]
  BY DEF Reverse
<1> HIDE DEF n, r
<1>3. \A i \in 1..n : r[i] = s[n - i + 1] /\ n - i + 1 \in 1..n
  BY <1>1, <1>2
<1>4. r \in [1..n -> S]
  BY <1>1, <1>2, <1>3
<1>5. r \in Seq(S) /\ Len(r) = n
  BY <1>1, <1>4, SeqDef, LenProperties
<1> QED
  BY <1>3, <1>5 DEF n, r

\* A sequence that is not empty, by its last element.
LEMMA FrontAndLast ==
  ASSUME NEW S, NEW s \in Seq(S), NEW x \in S, Len(s) # 0
  PROVE  /\ SubSeq(s, 1, Len(s) - 1) \in Seq(S) /\ s[Len(s)] \in S
         /\ Len(SubSeq(s, 1, Len(s) - 1)) = Len(s) - 1
         /\ s = Append(SubSeq(s, 1, Len(s) - 1), s[Len(s)])
         /\ [s EXCEPT ![Len(s)] = x] = Append(SubSeq(s, 1, Len(s) - 1), x)
<1> DEFINE n == Len(s)
           p == SubSeq(s, 1, n - 1)
           a == Append(p, s[n])
           b == Append(p, x)
           t == [s EXCEPT ![n] = x]
<1>1. /\ n \in Nat \ {0} /\ DOMAIN s = 1..n /\ n - 1 \in Nat
      /\ \A i \in 1..n : s[i] \in S
  OBVIOUS
<1>2. p \in Seq(S) /\ Len(p) = n - 1 /\ \A i \in 1..(n - 1) : p[i] = s[i]
  <2> DEFINE m == n - 1
  <2>1. m \in 0..Len(s)
    BY <1>1
  <2> HIDE DEF m, n
  <2>2. SubSeq(s, 1, m) \in Seq(S) /\ Len(SubSeq(s, 1, m)) = m
        /\ \A i \in 1..m : SubSeq(s, 1, m)[i] = s[i]
    BY <2>1
  <2> QED
    BY <2>2 DEF m
<1>3. /\ t \in Seq(S) /\ Len(t) = n /\ t[n] = x /\ \A i \in 1..(n - 1) : t[i] = s[i]
  <2> HIDE DEF n
  <2>0. s \in [1..n -> S]
    BY <1>1, LenProperties DEF n
  <2>1. t \in [1..n -> S] /\ t[n] = x /\ \A i \in 1..(n - 1) : t[i] = s[i]
    BY <1>1, <2>0
  <2> QED
    BY <1>1, <2>1, SeqDef, LenProperties
<1>4. s[n] \in S
  BY <1>1
<1> HIDE DEF n, p, t
<1>5. /\ a \in Seq(S) /\ Len(a) = n /\ a[n] = s[n] /\ \A i \in 1..(n - 1) : a[i] = s[i]
      /\ b \in Seq(S) /\ Len(b) = n /\ b[n] = x /\ \A i \in 1..(n - 1) : b[i] = s[i]
  BY <1>1, <1>2, <1>4, AppendProperties
<1>6. \A i \in 1..n : i = n \/ i \in 1..(n - 1)
  BY <1>1
<1> HIDE DEF a, b
<1>7. s = a
  <2>1. Len(s) = n
    BY DEF n
  <2> QED
    BY <1>5, <1>6, <2>1, SeqEqual
<1>8. t = b
  BY <1>3, <1>5, <1>6, SeqEqual
<1> QED
  BY <1>2, <1>4, <1>7, <1>8 DEF n, p, t, a, b
=============================================================================
