------------------------------ MODULE AuditLog ------------------------------
(***************************************************************************)
(* The hub's audit log (hub/audit.go): an append-only file of JSON lines,  *)
(* one for each message on the audited subjects and for the hub's own      *)
(* start and stop.  Each subscription calls its handler in a goroutine of  *)
(* its own; a write may come to a halt in the middle (a full disk).        *)
(* runHub opens and closes the log (app/hub.go).  Entries are numbered in  *)
(* the order they are built, which is the order of their timestamps.       *)
(***************************************************************************)
EXTENDS LogLines

CONSTANTS
  Subjects,   \* audited NATS subjects
  MaxEntries, MaxShort, MaxStops \* bounds: entries, writes cut short, hubs that end

VARIABLES
  hubPhase,  \* "down", "subscribed", "serving", "stopping" or "closed"
  subject,   \* entry -> its subject, or "hub" for an event of the hub
  building,  \* thread -> the entry it has built and not yet written, or 0
  auditFile, \* pieces of the log
  intact,    \* entries written whole, on a line of their own
  short, stops \* counters of the bounds

auditVars == <<hubPhase, subject, building, auditFile, intact, short, stops>>

AuditThreads == Subjects \union {"hub"}

AuditInit ==
  /\ hubPhase = "down"
  /\ subject = <<>>
  /\ building = [s \in AuditThreads |-> 0]
  /\ auditFile = <<>>
  /\ intact = <<>>
  /\ short = 0 /\ stops = 0

----------------------------------------------------------------------------

AtLineStart == auditFile = <<>> \/ Last(auditFile).last

\* al.mu is held from the first byte to the last.  An error is only logged: what
\* was written of a cut line stays, and the next entry continues that line.
writeEntry(n) ==
  \/ /\ auditFile' = auditFile \o <<Piece(n, FALSE), Piece(n, TRUE)>>
     /\ intact' = IF AtLineStart THEN Append(intact, n) ELSE intact
     /\ UNCHANGED short
  \/ /\ short < MaxShort
     /\ short' = short + 1
     /\ auditFile' = Append(auditFile, Piece(n, FALSE))
     /\ UNCHANGED intact

\* NewAuditLogger and Start.
OpenAudit ==
  /\ hubPhase = "down"
  /\ hubPhase' = "subscribed"
  /\ UNCHANGED <<subject, building, auditFile, intact, short, stops>>

\* An entry of s with its timestamp; al.mu is not held yet.
Build(s) ==
  /\ building[s] = 0
  /\ Len(subject) < MaxEntries
  /\ subject' = Append(subject, s)
  /\ building' = [building EXCEPT ![s] = Len(subject) + 1]
  /\ UNCHANGED <<auditFile, intact, short, stops>>

\* The hub's own events: it has started, it is about to stop.
LogEvent ==
  /\ \/ hubPhase = "subscribed" /\ hubPhase' = "serving"
     \/ hubPhase = "serving" /\ hubPhase' = "stopping"
  /\ Build("hub")

\* The handler of a message on s; s has one at a time.
buildEntry(s) ==
  /\ hubPhase \in {"subscribed", "serving", "stopping"}
  /\ Build(s)
  /\ UNCHANGED hubPhase

\* Once the file is closed the entry cannot be written.
Handle(s) ==
  /\ building[s] # 0
  /\ building' = [building EXCEPT ![s] = 0]
  /\ IF hubPhase = "closed" THEN UNCHANGED <<auditFile, intact, short>> ELSE writeEntry(building[s])
  /\ UNCHANGED <<hubPhase, subject, stops>>

\* It does not wait for the handlers under way.
CloseAudit ==
  /\ hubPhase = "stopping" /\ building["hub"] = 0
  /\ hubPhase' = "closed"
  /\ UNCHANGED <<subject, building, auditFile, intact, short, stops>>

\* The process ends, at once or after Close, and its handlers with it.
HubEnds ==
  /\ hubPhase # "down"
  /\ stops < MaxStops
  /\ stops' = stops + 1
  /\ hubPhase' = "down"
  /\ building' = [s \in AuditThreads |-> 0]
  /\ UNCHANGED <<subject, auditFile, intact, short>>

AuditNext ==
  \/ OpenAudit \/ LogEvent \/ CloseAudit \/ HubEnds
  \/ \E s \in Subjects : buildEntry(s)
  \/ \E s \in AuditThreads : Handle(s)

AuditSpec == AuditInit /\ [][AuditNext]_auditVars

----------------------------------------------------------------------------
(* Reading *)

LastOf(s, limit) == IF Len(s) > limit THEN SubSeq(s, Len(s) - limit + 1, Len(s)) ELSE s

\* The last limit entries of a type, or of any if type is ""; lines that do not
\* parse are skipped.  The type of an entry is that of its subject.
ReadAuditLog(limit, type) ==
  LET entries == WholeLines(auditFile)
  IN  LastOf(Picked(entries, {i \in DOMAIN entries : type \in {"", subject[entries[i]]}}), limit)

----------------------------------------------------------------------------
(* Properties *)

\* Whatever goes on between handlers, the end of the hub and cut writes, an entry
\* that was written whole can be read back, once, unless the write before it was
\* cut short: for every type, the last so many of them.  Entries of one subject
\* come in the order of their timestamps.
EntriesReadBack ==
  \A type \in AuditThreads \union {""} : \A limit \in 0..MaxEntries :
    LET read == ReadAuditLog(limit, type)
        due == {n \in ToSet(intact) : type \in {"", subject[n]}}
    IN  /\ ToSet(read) \subseteq due
        /\ Len(read) = IF Cardinality(due) < limit THEN Cardinality(due) ELSE limit
        /\ \A i, j \in 1..Len(read) :
             i < j /\ subject[read[i]] = subject[read[j]] => read[i] < read[j]
        /\ \A n \in due \ ToSet(read) : \A i \in 1..Len(read) :
             subject[n] = subject[read[i]] => n < read[i]

=============================================================================
