------------------------------ MODULE CronExpr ------------------------------
(***************************************************************************)
(* Whether a cron schedule matches a time (src/internal/cron/expr.go): the *)
(* fields of the schedule from left to right, the comma-separated parts of *)
(* a field from left to right, the values of a part from low to high.  The *)
(* first part that matches decides its field, the first field that does    *)
(* not match decides the schedule, and a part that does not parse is found *)
(* only when the loops get to it.                                          *)
(***************************************************************************)
EXTENDS Integers, Sequences

CONSTANTS
  Schedules, \* sequences of fields; a field is a sequence of parts
  Times      \* sequences of numbers, one for each field

\* "*", "N", "N-M", each with or without "/N", are all of this form.
Part(low, high, by) == [low |-> low, high |-> high, by |-> by]
Unparsable == Part(0, 0, 0)
Ranges == [low : Int, high : Int, by : Nat \ {0}]

\* matchesCron has as many fields as numbers; strings.Fields and strings.Split
\* leave none of them without a part; and a step is at least 1.
ASSUME ExprAssumption ==
  /\ Schedules \subseteq Seq(Seq(Ranges \union {Unparsable}))
  /\ Times \subseteq Seq(Int)
  /\ \A s \in Schedules :
       /\ s # <<>> /\ \A i \in DOMAIN s : s[i] # <<>>
       /\ \A t \in Times : Len(t) = Len(s)

VARIABLES
  fields, time,
  fieldNo, partNo, \* the field and the part being matched
  looping,         \* matchPart has parsed it, and loops
  tried,           \* matchPart's v
  verdict          \* "none", "yes", "no" or "error"

exprVars == <<fields, time, fieldNo, partNo, looping, tried, verdict>>

Current == fields[fieldNo][partNo]

ExprInit ==
  /\ fields \in Schedules /\ time \in Times
  /\ fieldNo = 1 /\ partNo = 1
  /\ looping = FALSE /\ tried = 0 /\ verdict = "none"

ParsePart ==
  /\ ~looping
  /\ IF Current = Unparsable
     THEN verdict' = "error" /\ UNCHANGED <<looping, tried>>
     ELSE looping' = TRUE /\ tried' = Current.low /\ UNCHANGED verdict
  /\ UNCHANGED <<fields, time, fieldNo, partNo>>

\* Mutant of InRange: the end of a range is left out.
InRangeOpen == tried < Current.high

InRange == tried <= Current.high

matchPart ==
  /\ looping /\ InRange /\ tried # time[fieldNo]
  /\ tried' = tried + Current.by
  /\ UNCHANGED <<fields, time, fieldNo, partNo, looping, verdict>>

\* No value of the part matched.
matchField ==
  /\ looping /\ ~InRange
  /\ IF partNo = Len(fields[fieldNo])
     THEN verdict' = "no" /\ UNCHANGED <<partNo, looping>>
     ELSE partNo' = partNo + 1 /\ looping' = FALSE /\ UNCHANGED verdict
  /\ UNCHANGED <<fields, time, fieldNo, tried>>

\* The part, and so the field, matches.
matchesCron ==
  /\ looping /\ InRange /\ tried = time[fieldNo]
  /\ IF fieldNo = Len(fields)
     THEN verdict' = "yes" /\ UNCHANGED <<fieldNo, partNo, looping>>
     ELSE fieldNo' = fieldNo + 1 /\ partNo' = 1 /\ looping' = FALSE /\ UNCHANGED verdict
  /\ UNCHANGED <<fields, time, tried>>

ExprNext == verdict = "none" /\ (ParsePart \/ matchPart \/ matchField \/ matchesCron)

ExprSpec == ExprInit /\ [][ExprNext]_exprVars

----------------------------------------------------------------------------
(* What a schedule denotes *)

\* The values of a part: low, low + by, low + 2 by, ... up to high.
Values(q) == {v \in q.low..q.high : (v - q.low) % q.by = 0}
Denotes(field, val) == \E i \in DOMAIN field : field[i] # Unparsable /\ val \in Values(field[i])
Parses(field) == \A i \in DOMAIN field : field[i] # Unparsable

\* The loops of expr.go give a schedule its meaning: "yes" exactly if every
\* field has a part whose values include the time's, for schedules that parse.
\* One that does not parse is never taken to match unless the broken part comes
\* after one that matches, and is an error only if nothing before it decided.
ExpressionsDenote ==
  /\ verdict = "yes" => \A i \in DOMAIN fields : Denotes(fields[i], time[i])
  /\ verdict = "no" => \E i \in DOMAIN fields : Parses(fields[i]) /\ ~Denotes(fields[i], time[i])
  /\ verdict = "error" => \E i \in DOMAIN fields : ~Parses(fields[i])
=============================================================================
