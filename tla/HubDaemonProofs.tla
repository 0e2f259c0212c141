-------------------------- MODULE HubDaemonProofs --------------------------
(***************************************************************************)
(* Proofs about what runHub runs: HubDaemon, for any agents, commands and  *)
(* numbers of hub processes, commands given and deaths, and the two logs   *)
(* it keeps (HubLogs), for any agents, subjects, lines, sizes of chunks,   *)
(* full channels, writes cut short and processes that end.                 *)
(***************************************************************************)
EXTENDS HubDaemon, HubLogs, SequenceLemmas, FiniteSetTheorems

Processes == Hubs \X Agents

\* The inductive invariant: whoever is connected is connected to the server of
\* the hub that started it, for no other server accepts its token.
BusInv ==
  /\ proc \in [Processes -> {"none", "starting", "connected", "cut", "alone"}]
  /\ \A p \in Processes : proc[p] = "connected" => port = p[1]

\* The end of a server leaves nobody connected to it.
LEMMA DisconnectedLeavesNone ==
  ASSUME BusInv, NEW n \in Hubs
  PROVE  /\ Disconnected(n) \in [Processes -> {"none", "starting", "connected", "cut", "alone"}]
         /\ \A p \in Processes : Disconnected(n)[p] # "connected"
BY DEF BusInv, Disconnected, Processes

\* A hub's end keeps BusInv, whether its server was the one on the address or not.
LEMMA EndsKeepsBus ==
  ASSUME BusInv, NEW n \in Hubs, NEW f, Ends(n, f)
  PROVE  BusInv'
<1>1. CASE port = n
  <2>1. proc' = Disconnected(n)
    BY <1>1 DEF Ends
  <2> QED
    BY <2>1, DisconnectedLeavesNone DEF BusInv
<1>2. CASE port # n
  BY <1>2 DEF Ends, BusInv
<1> QED
  BY <1>1, <1>2

\* BusInv holds of the first state, where no process exists.
LEMMA BusInit == Init => BusInv
BY DEF Init, BusInv, Processes

\* Every step of a command, a hub or an agent keeps BusInv.
LEMMA BusNext ==
  ASSUME BusInv, [Next]_vars
  PROVE  BusInv'
<1>1. ASSUME NEW c \in Commands, Invoke(c) \/ CommandStep(c)
      PROVE  BusInv'
  <2>1. UNCHANGED <<proc, port>>
    BY <1>1 DEF Invoke, CommandStep, ReadPID, CheckPID, RemoveSocket, Fork, WritePID, Terminate,
                Waits, cleanupPIDFile, hubVars
  <2> QED
    BY <2>1 DEF BusInv
<1>2. ASSUME NEW n \in Hubs, StartNATS(n)
      PROVE  BusInv'
  <2>1. proc' = proc /\ (port = 0 \/ port' = port)
    BY <1>2 DEF StartNATS
  <2>2. \A p \in Processes : p[1] # 0
    BY DaemonAssumption DEF Hubs, Processes
  <2> QED
    BY <2>1, <2>2 DEF BusInv
<1>3. ASSUME NEW n \in Hubs, StartSupervisor(n)
      PROVE  BusInv'
  BY <1>3 DEF StartSupervisor, BusInv, Processes
<1>4. ASSUME NEW n \in Hubs, StartControlSocket(n)
      PROVE  BusInv'
  <2>1. CASE Ends(n, sock)
    BY <2>1, EndsKeepsBus
  <2>2. CASE UNCHANGED <<port, proc>>
    BY <2>2 DEF BusInv
  <2> QED
    BY <1>4, <2>1, <2>2 DEF StartControlSocket
<1>5. ASSUME NEW n \in Hubs, StopNATS(n)
      PROVE  BusInv'
  <2>1. proc' = Disconnected(n)
    BY <1>5 DEF StopNATS
  <2> QED
    BY <2>1, DisconnectedLeavesNone DEF BusInv
<1>6. ASSUME NEW n \in Hubs, Shutdown(n) \/ Dies(n)
      PROVE  BusInv'
  BY <1>6, EndsKeepsBus DEF Shutdown, Dies
<1>7. ASSUME NEW a \in Agents, AgentAdded(a)
      PROVE  BusInv'
  BY <1>7 DEF AgentAdded, BusInv, hubVars
<1>8. ASSUME NEW n \in Hubs, NEW a \in Agents, Spawn(n, a)
      PROVE  BusInv'
  <2>1. <<n, a>> \in Processes
    BY DEF Processes
  <2> QED
    BY <1>8, <2>1 DEF Spawn, BusInv, hubVars
<1>9. ASSUME NEW p \in Processes, Connects(p) \/ Reconnects(p) \/ AgentDies(p)
      PROVE  BusInv'
  <2>1. UNCHANGED port
    BY <1>9 DEF Connects, Reconnects, AgentDies, hubVars
  <2>2. PICK s \in {"none", "connected", "alone"} :
          /\ proc' = [proc EXCEPT ![p] = s]
          /\ s = "connected" => port = p[1]
    BY <1>9 DEF Connects, Reconnects, AgentDies, Accepts
  <2> QED
    BY <2>1, <2>2 DEF BusInv
<1>10. CASE UNCHANGED vars
  BY <1>10 DEF BusInv, vars, hubVars
<1> QED
  BY <1>1, <1>2, <1>3, <1>4, <1>5, <1>6, <1>7, <1>8, <1>9, <1>10 DEF Next, HubStep, Processes

\* Whatever commands are given and whichever hubs crash, no two processes of an
\* agent are ever on the bus together (hub/nats.go, hub/acl.go): agents outlive
\* their hub, but not its tokens.
THEOREM NoDoubleCorrect == Spec => []NoDoubleOnBus
<1>1. BusInv => NoDoubleOnBus
  BY DEF BusInv, NoDoubleOnBus, Processes
<1> QED
  BY <1>1, BusInit, BusNext, PTL DEF Spec

----------------------------------------------------------------------------
(* A hub that lives can be found.  While commands do not overlap, what a   *)
(* command knows and has done at each of its steps tells which hubs may    *)
(* live; that needs what may follow which step, and hence a few facts      *)
(* about the sequences of steps.                                           *)

StepNames == {"readPID", "checkPID", "terminate", "wait", "cleanup", "removeSocket", "fork",
              "writePID"}

\* Step t follows step s in a command.
Follows(s, t) ==
  \/ s = "readPID" /\ t = "checkPID"
  \/ s = "checkPID" /\ t \in {"terminate", "removeSocket"}
  \/ s = "terminate" /\ t = "wait"
  \/ s = "wait" /\ t = "cleanup"
  \/ s = "cleanup" /\ t = "readPID"
  \/ s = "removeSocket" /\ t = "fork"
  \/ s = "fork" /\ t = "writePID"

\* Each of the steps is followed by one that may follow it.
Chained(steps) ==
  /\ steps \in Seq(StepNames)
  /\ \A i \in 1..(Len(steps) - 1) : Follows(steps[i], steps[i + 1])

\* steps is what is left of start, stop or restart.
Ordered(steps) ==
  /\ Chained(steps)
  /\ steps # <<>> => steps[Len(steps)] \in {"cleanup", "writePID"}

\* The elements of one sequence appended to another.
LEMMA ConcatElement ==
  ASSUME NEW s \in Seq(StepNames), NEW r \in Seq(StepNames)
  PROVE  /\ s \o r \in Seq(StepNames) /\ Len(s \o r) = Len(s) + Len(r)
         /\ \A i \in 1..Len(s) : (s \o r)[i] = s[i]
         /\ \A i \in 1..Len(r) : (s \o r)[Len(s) + i] = r[i]
<1> DEFINE both == s \o r
<1>1. /\ both \in Seq(StepNames) /\ Len(both) = Len(s) + Len(r)
      /\ \A i \in 1..(Len(s) + Len(r)) : both[i] = IF i <= Len(s) THEN s[i] ELSE r[i - Len(s)]
  BY ConcatProperties, Zenon
<1> HIDE DEF both
<1>2. PICK m \in Nat, n \in Nat : Len(s) = m /\ Len(r) = n
  OBVIOUS
<1>3. \A i \in 1..(m + n) : both[i] = IF i <= m THEN s[i] ELSE r[i - m]
  BY <1>1, <1>2
<1>4. \A i \in 1..Len(s) : both[i] = s[i]
  BY <1>2, <1>3
<1>5. ASSUME NEW i \in 1..Len(r)
      PROVE  both[Len(s) + i] = r[i]
  <2>1. i \in 1..n /\ m + i \in 1..(m + n) /\ ~(m + i <= m) /\ (m + i) - m = i
    BY <1>2
  <2> QED
    BY <1>2, <1>3, <2>1
<1> QED
  BY <1>1, <1>4, <1>5 DEF both

\* Steps may be given after others if the first of them may follow the last of those.
LEMMA ConcatChained ==
  ASSUME NEW s \in Seq(StepNames), NEW r \in Seq(StepNames), Len(s) # 0, Len(r) # 0,
         Chained(s), Chained(r), Follows(s[Len(s)], r[1])
  PROVE  /\ s \o r \in Seq(StepNames) /\ Chained(s \o r) /\ Len(s \o r) = Len(s) + Len(r)
         /\ (s \o r)[1] = s[1] /\ (s \o r)[Len(s) + Len(r)] = r[Len(r)]
<1> DEFINE both == s \o r
<1>1. /\ both \in Seq(StepNames) /\ Len(both) = Len(s) + Len(r)
      /\ \A i \in 1..Len(s) : both[i] = s[i]
      /\ \A i \in 1..Len(r) : both[Len(s) + i] = r[i]
  BY ConcatElement, Zenon
<1> HIDE DEF both
<1>2. PICK m \in Nat \ {0}, n \in Nat \ {0} : Len(s) = m /\ Len(r) = n
  OBVIOUS
<1>3. /\ \A i \in 1..m : both[i] = s[i]
      /\ \A i \in 1..n : both[m + i] = r[i]
  BY <1>1, <1>2
<1>4. ASSUME NEW i \in 1..(m + n - 1)
      PROVE  Follows(both[i], both[i + 1])
  <2>1. CASE i < m
    <3>1. i \in 1..(m - 1) /\ both[i] = s[i] /\ both[i + 1] = s[i + 1]
      BY <1>3, <2>1
    <3> QED
      BY <1>2, <3>1 DEF Chained
  <2>2. CASE i = m
    <3>1. both[i] = s[m] /\ both[i + 1] = r[1]
      BY <1>3, <2>2
    <3> QED
      BY <1>2, <3>1
  <2>3. CASE i > m
    <3>1. PICK j \in 1..(n - 1) : i = m + j
      <4>1. i - m \in 1..(n - 1) /\ i = m + (i - m)
        BY <2>3
      <4> QED
        BY <4>1
    <3>2. both[i] = r[j] /\ both[i + 1] = r[j + 1]
      <4>1. j \in 1..n /\ j + 1 \in 1..n /\ i + 1 = m + (j + 1)
        BY <3>1
      <4> QED
        BY <1>3, <3>1, <4>1
    <3> QED
      BY <1>2, <3>1, <3>2 DEF Chained
  <2> QED
    BY <2>1, <2>2, <2>3
<1>5. both[1] = s[1] /\ both[m + n] = r[n]
  BY <1>3
<1> QED
  BY <1>1, <1>2, <1>4, <1>5 DEF Chained, both

\* Nothing is left.
LEMMA EmptyOrdered == Ordered(<<>>)
BY EmptySeq DEF Ordered, Chained

\* The three commands that look for a running hub first are such commands.
LEMMA CommandsOrdered ==
  ASSUME NEW command \in {StartHub, StopHub, StopHub \o StartHub}
  PROVE  Ordered(command) /\ command # <<>> /\ Head(command) = "readPID"
<1> DEFINE check == isHubRunning
           start == <<"removeSocket", "fork", "writePID">>
           stop == <<"terminate", "wait", "cleanup">>
<1>1. /\ check \in Seq(StepNames) /\ Chained(check) /\ Len(check) = 2
      /\ check[1] = "readPID" /\ check[2] = "checkPID"
  BY DEF isHubRunning, Chained, Follows, StepNames
<1>2. /\ start \in Seq(StepNames) /\ Chained(start) /\ Len(start) = 3
      /\ start[1] = "removeSocket" /\ start[3] = "writePID"
  BY DEF Chained, Follows, StepNames
<1>3. /\ stop \in Seq(StepNames) /\ Chained(stop) /\ Len(stop) = 3
      /\ stop[1] = "terminate" /\ stop[3] = "cleanup"
  BY DEF Chained, Follows, StepNames
<1>4. StartHub = check \o start /\ StopHub = check \o stop
  BY DEF StartHub, StopHub
<1> HIDE DEF check, start, stop
<1>5. Follows(check[2], start[1]) /\ Follows(check[2], stop[1])
  BY <1>1, <1>2, <1>3 DEF Follows
<1>6. /\ StartHub \in Seq(StepNames) /\ Chained(StartHub) /\ Len(StartHub) = 5
      /\ StartHub[1] = "readPID" /\ StartHub[5] = "writePID"
  <2>1. Len(check) # 0 /\ Len(start) # 0 /\ Follows(check[Len(check)], start[1])
    BY <1>1, <1>2, <1>5
  <2>2. /\ StartHub \in Seq(StepNames) /\ Chained(StartHub) /\ Len(StartHub) = Len(check) + Len(start)
        /\ StartHub[1] = check[1] /\ StartHub[Len(check) + Len(start)] = start[Len(start)]
    BY <1>1, <1>2, <1>4, <2>1, ConcatChained, Zenon
  <2> QED
    BY <2>2, <1>1, <1>2
<1>7. /\ StopHub \in Seq(StepNames) /\ Chained(StopHub) /\ Len(StopHub) = 5
      /\ StopHub[1] = "readPID" /\ StopHub[5] = "cleanup"
  <2>1. Len(check) # 0 /\ Len(stop) # 0 /\ Follows(check[Len(check)], stop[1])
    BY <1>1, <1>3, <1>5
  <2>2. /\ StopHub \in Seq(StepNames) /\ Chained(StopHub) /\ Len(StopHub) = Len(check) + Len(stop)
        /\ StopHub[1] = check[1] /\ StopHub[Len(check) + Len(stop)] = stop[Len(stop)]
    BY <1>1, <1>3, <1>4, <2>1, ConcatChained, Zenon
  <2> QED
    BY <2>2, <1>1, <1>3
<1> DEFINE restart == StopHub \o StartHub
<1>8. /\ restart \in Seq(StepNames) /\ Chained(restart) /\ Len(restart) = 10
      /\ restart[1] = "readPID" /\ restart[10] = "writePID"
  <2>1. Follows(StopHub[5], StartHub[1])
    BY <1>6, <1>7 DEF Follows
  <2>2. /\ Len(StopHub) # 0 /\ Len(StartHub) # 0
        /\ Follows(StopHub[Len(StopHub)], StartHub[1])
    BY <1>6, <1>7, <2>1
  <2>3. /\ restart \in Seq(StepNames) /\ Chained(restart)
        /\ Len(restart) = Len(StopHub) + Len(StartHub) /\ restart[1] = StopHub[1]
        /\ restart[Len(StopHub) + Len(StartHub)] = StartHub[Len(StartHub)]
    BY <1>6, <1>7, <2>2, ConcatChained, Zenon
  <2> HIDE DEF restart
  <2> QED
    BY <2>3, <1>6, <1>7
<1>9. ASSUME NEW steps \in Seq(StepNames), NEW n \in {5, 10}, Chained(steps), Len(steps) = n,
             steps[1] = "readPID", steps[n] \in {"cleanup", "writePID"}
      PROVE  Ordered(steps) /\ steps # <<>> /\ Head(steps) = "readPID"
  BY <1>9 DEF Ordered
<1> HIDE DEF restart
<1>10. command = StartHub \/ command = StopHub \/ command = restart
  BY DEF restart
<1> QED
  BY <1>6, <1>7, <1>8, <1>9, <1>10

\* Whatever is left of such a command is such a command.
LEMMA RestOrdered ==
  ASSUME NEW steps \in Seq(StepNames), NEW n \in Nat, Len(steps) = n, Ordered(steps),
         NEW k \in 1..n
  PROVE  LET rest == SubSeq(steps, k, n)
         IN Ordered(rest) /\ rest # <<>> /\ Head(rest) = steps[k]
<1> DEFINE rest == SubSeq(steps, k, n)
           m == n - k + 1
<1>1. /\ \A i \in 1..n : steps[i] \in StepNames
      /\ \A i \in 1..(n - 1) : Follows(steps[i], steps[i + 1])
      /\ steps # <<>> /\ steps[n] \in {"cleanup", "writePID"}
  BY EmptySeq DEF Ordered, Chained
<1>2. m \in Nat \ {0} /\ \A i \in k..n : steps[i] \in StepNames
  BY <1>1
<1>3. rest \in Seq(StepNames) /\ Len(rest) = m /\ \A i \in 1..m : rest[i] = steps[k + i - 1]
  <2>1. /\ rest \in Seq(StepNames) /\ Len(rest) = IF k <= n THEN n - k + 1 ELSE 0
        /\ \A i \in 1..(n - k + 1) : rest[i] = steps[k + i - 1]
    BY <1>2, SubSeqProperties
  <2> HIDE DEF rest
  <2> QED
    BY <2>1
<1> HIDE DEF rest
<1>4. ASSUME NEW i \in 1..(m - 1)
      PROVE  Follows(rest[i], rest[i + 1])
  <2>1. i \in 1..m /\ i + 1 \in 1..m /\ k + i - 1 \in 1..(n - 1)
    OBVIOUS
  <2>2. k + (i + 1) - 1 = (k + i - 1) + 1
    OBVIOUS
  <2> QED
    BY <1>1, <1>3, <2>1, <2>2
<1>5. rest[m] = steps[n] /\ rest[1] = steps[k]
  BY <1>2, <1>3
<1> HIDE DEF m
<1>6. rest # <<>> /\ Head(rest) = rest[1]
  BY <1>2, <1>3
<1> QED
  BY <1>1, <1>3, <1>4, <1>5, <1>6 DEF Ordered, Chained, rest

\* What the next step of a command leaves of it.
LEMMA TailOrdered ==
  ASSUME NEW steps \in Seq(StepNames), Ordered(steps), steps # <<>>
  PROVE  /\ Ordered(Tail(steps))
         /\ Tail(steps) # <<>> => Follows(Head(steps), Head(Tail(steps)))
         /\ Tail(steps) = <<>> => Head(steps) \in {"cleanup", "writePID"}
<1>1. PICK n \in Nat \ {0} : Len(steps) = n
  BY EmptySeq
<1>2. Head(steps) = steps[1] /\ Tail(steps) = SubSeq(steps, 2, n)
  BY <1>1
<1>3. CASE n = 1
  <2>1. Tail(steps) = <<>>
    BY <1>2, <1>3, SubSeqEmpty
  <2>2. steps[1] \in {"cleanup", "writePID"}
    BY <1>1, <1>3 DEF Ordered
  <2> QED
    BY <2>1, <2>2, <1>2, EmptyOrdered
<1>4. CASE n # 1
  <2>1. Follows(steps[1], steps[2])
    BY <1>1, <1>4 DEF Ordered, Chained
  <2>2. 2 \in 1..n
    BY <1>4
  <2> QED
    BY <1>1, <1>2, <2>1, <2>2, RestOrdered
<1> QED
  BY <1>3, <1>4

\* What is left of a command to stop a hub that turns out not to run.
LEMMA RestOfCheck ==
  ASSUME NEW steps \in Seq(StepNames), Ordered(steps), Len(steps) > 1, steps[2] = "terminate"
  PROVE  LET rest == SubSeq(steps, 5, Len(steps))
         IN Ordered(rest) /\ (rest # <<>> => Head(rest) = "readPID")
<1>1. PICK n \in Nat : Len(steps) = n
  OBVIOUS
<1>2. /\ \A i \in 1..(n - 1) : Follows(steps[i], steps[i + 1])
      /\ steps[n] \in {"cleanup", "writePID"}
  BY <1>1, EmptySeq DEF Ordered, Chained
<1>3. n > 1 /\ steps[2] = "terminate"
  BY <1>1
<1>4. n # 2 /\ steps[3] = "wait"
  BY <1>2, <1>3 DEF Follows
<1>5. n # 3 /\ steps[4] = "cleanup"
  BY <1>2, <1>3, <1>4 DEF Follows
<1>6. CASE n = 4
  <2>1. SubSeq(steps, 5, 4) = <<>>
    BY SubSeqEmpty
  <2> QED
    BY <1>1, <1>6, <2>1, EmptyOrdered
<1>7. CASE n # 4
  <2>1. 5 \in 1..n /\ steps[5] = "readPID"
    BY <1>2, <1>3, <1>4, <1>5, <1>7 DEF Follows
  <2> QED
    BY <1>1, <2>1, RestOrdered
<1> QED
  BY <1>6, <1>7

----------------------------------------------------------------------------

Free(n) == Alive(n) /\ signal[n] = "none"

\* Types, as far as they are needed; hubs are numbered in the order they are created,
\* and only hubs that were created have been signalled.
HubTypes ==
  /\ pidFile \in 0..MaxHubs
  /\ pid \in [Commands -> 0..MaxHubs]
  /\ signal \in [Hubs -> {"none", "TERM", "KILL"}]
  /\ stage \in [Hubs -> {"none", "created", "nats", "spawned", "serving", "gone"}]
  /\ \A n \in Hubs : signal[n] # "none" => stage[n] # "none"
  /\ \E k \in 0..MaxHubs : \A n \in Hubs : stage[n] # "none" <=> n <= k

\* What a command has found out and done, at its step.
CommandInv(c) ==
  /\ At(c, "checkPID") => pid[c] = pidFile
  /\ At(c, "terminate") => pid[c] \in Hubs /\ pidFile = pid[c]
  /\ At(c, "wait") => pid[c] \in Hubs
  /\ At(c, "writePID") => pid[c] \in Hubs /\ \A n \in Hubs : Free(n) => n = pid[c]
  /\ \A s \in {"wait", "cleanup", "removeSocket", "fork"} : At(c, s) => \A n \in Hubs : ~Free(n)

\* Where a hub that lives is found; one told to stop has a command waiting for it.
HubInv(n) ==
  /\ Free(n) => pidFile = n \/ \E c \in Commands : At(c, "writePID")
  /\ Free(n) /\ stage[n] = "serving" => sock = n
  /\ Alive(n) /\ signal[n] = "TERM" => \E c \in Commands : At(c, "wait") /\ pid[c] = n

SerialInv ==
  /\ todo \in [Commands -> Seq(StepNames)]
  /\ \A c \in Commands : Ordered(todo[c]) /\ CommandInv(c)
  /\ \A c, d \in Commands : todo[c] # <<>> /\ todo[d] # <<>> => c = d
  /\ \A n \in Hubs : HubInv(n)

FindInv == HubTypes /\ (~overlapped => SerialInv)

\* The number of hubs created is the number of the last.
LEMMA CreatedCount ==
  ASSUME HubTypes
  PROVE  /\ Created \in 0..MaxHubs
         /\ \A n \in Hubs : stage[n] # "none" <=> n <= Created
<1>1. PICK k \in 0..MaxHubs : \A n \in Hubs : stage[n] # "none" <=> n <= k
  BY DEF HubTypes
<1>2. {n \in Hubs : stage[n] # "none"} = 1..k
  BY <1>1, DaemonAssumption DEF Hubs
<1>3. k \in Nat /\ 1 \in Int /\ k \in Int
  BY DaemonAssumption
<1>4. Cardinality(1..k) = IF 1 > k THEN 0 ELSE k - 1 + 1
  BY <1>3, FS_Interval
<1>5. Cardinality(1..k) = k
  BY <1>3, <1>4
<1>6. Created = k
  BY <1>2, <1>5, Zenon DEF Created
<1> QED
  BY <1>1, <1>6

LEMMA FindInit == Init => FindInv
<1> SUFFICES ASSUME Init
             PROVE  FindInv
  OBVIOUS
<1>1. HubTypes
  <2>1. \A n \in Hubs : stage[n] # "none" <=> n <= 0
    BY DaemonAssumption DEF Init, Hubs
  <2>2. 0 \in 0..MaxHubs
    BY DaemonAssumption
  <2> QED
    BY <2>1, <2>2 DEF Init, HubTypes
<1>2. SerialInv
  <2>1. \A c \in Commands : todo[c] = <<>>
    BY DEF Init
  <2>2. todo \in [Commands -> Seq(StepNames)]
    BY EmptySeq DEF Init
  <2>3. \A c \in Commands : CommandInv(c)
    BY <2>1 DEF CommandInv, At
  <2>4. \A n \in Hubs : HubInv(n)
    BY DEF Init, HubInv, Free, Alive
  <2> QED
    BY <2>1, <2>2, <2>3, <2>4, EmptyOrdered DEF SerialInv
<1> QED
  BY <1>1, <1>2 DEF FindInv

\* Of a step of command c: what it leaves to do, and that no other has anything to do.
LEMMA SerialStep ==
  ASSUME SerialInv, NEW c \in Commands, NEW rest, todo' = [todo EXCEPT ![c] = rest],
         Ordered(rest), todo[c] # <<>>
  PROVE  /\ todo' \in [Commands -> Seq(StepNames)]
         /\ \A d \in Commands : Ordered(todo'[d])
         /\ \A d, e \in Commands : todo'[d] # <<>> /\ todo'[e] # <<>> => d = e
         /\ todo'[c] = rest
         /\ \A d \in Commands \ {c} : todo[d] = <<>> /\ todo'[d] = <<>>
BY DEF SerialInv, Ordered, Chained

\* The types are kept.
LEMMA TypesNext ==
  ASSUME HubTypes, [Next]_vars
  PROVE  HubTypes'
<1>0. /\ Created \in 0..MaxHubs
      /\ \A n \in Hubs : stage[n] # "none" <=> n <= Created
  BY CreatedCount
<1> USE DEF HubTypes
<1>1. ASSUME NEW c \in Commands, Fork(c)
      PROVE  HubTypes'
  <2>1. /\ Created \in 0..MaxHubs /\ Created + 1 \in Hubs
        /\ \A n \in Hubs : stage[n] # "none" <=> n <= Created
    BY <1>0, <1>1, DaemonAssumption DEF Fork, Hubs
  <2>2. /\ stage' = [stage EXCEPT ![Created + 1] = "created"]
        /\ pid' = [pid EXCEPT ![c] = Created + 1]
        /\ UNCHANGED <<pidFile, signal>>
    BY <1>1 DEF Fork
  <2> DEFINE k == Created + 1
  <2>3. k \in 0..MaxHubs /\ k \in Hubs /\ \A n \in Hubs : stage[n] # "none" <=> n <= k - 1
    BY <2>1, DaemonAssumption DEF Hubs
  <2> HIDE DEF k
  <2>4. \A n \in Hubs : stage'[n] # "none" <=> n <= k
    BY <2>2, <2>3, DaemonAssumption DEF Hubs, k
  <2>5. stage' \in [Hubs -> {"none", "created", "nats", "spawned", "serving", "gone"}]
    BY <2>2
  <2>6. pid' \in [Commands -> 0..MaxHubs]
    BY <2>2, <2>3 DEF k
  <2>7. \A n \in Hubs : signal'[n] # "none" => stage'[n] # "none"
    BY <2>2
  <2> QED
    BY <2>2, <2>3, <2>4, <2>5, <2>6, <2>7
<1>2. ASSUME NEW c \in Commands, Invoke(c) \/ ReadPID(c) \/ CheckPID(c) \/ RemoveSocket(c)
                                 \/ WritePID(c) \/ cleanupPIDFile(c)
      PROVE  HubTypes'
  <2>1. UNCHANGED <<stage, signal>>
    BY <1>2 DEF Invoke, ReadPID, CheckPID, RemoveSocket, WritePID, cleanupPIDFile, hubVars
  <2>2. pidFile' \in 0..MaxHubs /\ pid' \in [Commands -> 0..MaxHubs]
    BY <1>2, DaemonAssumption
       DEF Invoke, ReadPID, CheckPID, RemoveSocket, WritePID, cleanupPIDFile
  <2> QED
    BY <2>1, <2>2
<1>3. ASSUME NEW c \in Commands, Terminate(c) \/ Waits(c)
      PROVE  HubTypes'
  <2>1. /\ UNCHANGED <<stage, pidFile, pid>>
        /\ \/ signal' = signal
           \/ /\ Alive(pid[c])
              /\ \E s \in {"TERM", "KILL"} : signal' = [signal EXCEPT ![pid[c]] = s]
    BY <1>3 DEF Terminate, Waits
  <2> QED
    BY <2>1 DEF Alive
<1>4. ASSUME NEW n \in Hubs, HubStep(n) \/ Dies(n)
      PROVE  HubTypes'
  <2>1. UNCHANGED <<signal, pidFile, pid>>
    BY <1>4 DEF HubStep, StartNATS, StartSupervisor, StartControlSocket, StopNATS, Shutdown, Dies,
                Ends, commandVars
  <2>2. \/ stage' = stage
        \/ /\ stage[n] # "none"
           /\ \E s \in {"nats", "spawned", "serving", "gone"} : stage' = [stage EXCEPT ![n] = s]
    BY <1>4 DEF HubStep, StartNATS, StartSupervisor, StartControlSocket, StopNATS, Shutdown, Dies,
                Ends, Reaches, Runs, Alive
  <2> QED
    BY <2>1, <2>2
<1>5. ASSUME \/ \E a \in Agents : AgentAdded(a) \/ \E n \in Hubs : Spawn(n, a)
             \/ \E p \in Hubs \X Agents : Connects(p) \/ Reconnects(p) \/ AgentDies(p)
      PROVE  HubTypes'
  BY <1>5 DEF AgentAdded, Spawn, Connects, Reconnects, AgentDies, hubVars, commandVars
<1>6. CASE UNCHANGED vars
  BY <1>6 DEF vars, hubVars, commandVars
<1> QED
  BY <1>1, <1>2, <1>3, <1>4, <1>5, <1>6 DEF Next, CommandStep

LEMMA SerialCommand ==
  ASSUME SerialInv, NEW c \in Commands, NEW rest, todo' = [todo EXCEPT ![c] = rest],
         Ordered(rest), todo[c] # <<>>, CommandInv(c)', \A n \in Hubs : HubInv(n)'
  PROVE  SerialInv'
<1>1. /\ todo' \in [Commands -> Seq(StepNames)]
      /\ \A d \in Commands : Ordered(todo'[d])
      /\ \A d, e \in Commands : todo'[d] # <<>> /\ todo'[e] # <<>> => d = e
      /\ \A d \in Commands \ {c} : todo'[d] = <<>>
  BY SerialStep
<1>2. \A d \in Commands \ {c} : CommandInv(d)'
  BY <1>1 DEF CommandInv, At
<1> QED
  BY <1>1, <1>2 DEF SerialInv, Ordered, Chained

LEMMA SerialHub ==
  ASSUME SerialInv, UNCHANGED <<todo, pid, pidFile>>,
         \A n \in Hubs : (Free(n)' => Free(n)) /\ HubInv(n)'
  PROVE  SerialInv'
<1>1. \A c \in Commands : CommandInv(c)'
  BY DEF SerialInv, CommandInv, At
<1> QED
  BY <1>1 DEF SerialInv, Ordered, Chained

\* While commands do not overlap, every step of a command keeps SerialInv:
\* a new command,
LEMMA InvokeKeeps ==
  ASSUME HubTypes, SerialInv, NEW c \in Commands, Invoke(c), ~overlapped'
  PROVE  SerialInv'
<1>1. PICK command \in Invocations :
        /\ todo' = [todo EXCEPT ![c] = command]
        /\ overlapped' = (overlapped \/ command = <<"fork">> \/ \E d \in Commands : todo[d] # <<>>)
  BY DEF Invoke
<1>2. command # <<"fork">> /\ \A d \in Commands : todo[d] = <<>>
  BY <1>1
<1>3. Ordered(command) /\ command # <<>> /\ Head(command) = "readPID"
  BY <1>2, CommandsOrdered DEF Invocations
<1>4. /\ todo' \in [Commands -> Seq(StepNames)] /\ todo'[c] = command
      /\ \A d \in Commands \ {c} : todo'[d] = <<>>
  BY <1>1, <1>2, <1>3 DEF SerialInv, Ordered, Chained
<1>5. UNCHANGED <<pidFile, hubVars>>
  BY DEF Invoke
<1>6. \A d \in Commands : CommandInv(d)'
  BY <1>3, <1>4 DEF CommandInv, At
<1>7. \A n \in Hubs : HubInv(n)'
  BY <1>2, <1>5 DEF SerialInv, HubInv, At, Free, Alive, hubVars
<1>8. Ordered(<<>>)
  BY EmptyOrdered
<1>9. \A d \in Commands : Ordered(todo'[d])
  <2> TAKE d \in Commands
  <2>1. CASE d = c
    BY <2>1, <1>3, <1>4
  <2>2. CASE d # c
    BY <2>2, <1>4, <1>8
  <2> QED
    BY <2>1, <2>2
<1>10. \A d, e \in Commands : todo'[d] # <<>> /\ todo'[e] # <<>> => d = e
  BY <1>4, Zenon
<1>11. (\A d \in Commands : Ordered(todo[d]))' <=> \A d \in Commands : Ordered(todo'[d])
  BY DEF Ordered, Chained
<1> QED
  BY <1>4, <1>6, <1>7, <1>9, <1>10, <1>11 DEF SerialInv

\* What is left of a serial command after its next step.
LEMMA ProceedOrdered ==
  ASSUME SerialInv, NEW c \in Commands, todo[c] # <<>>
  PROVE  /\ Ordered(Tail(todo[c]))
         /\ Tail(todo[c]) # <<>> => Follows(Head(todo[c]), Head(Tail(todo[c])))
         /\ Tail(todo[c]) = <<>> => Head(todo[c]) \in {"cleanup", "writePID"}
<1>1. todo[c] \in Seq(StepNames) /\ Ordered(todo[c])
  BY DEF SerialInv
<1> QED
  BY <1>1, TailOrdered

\* A command that proceeds is at the step that follows, and at no other.
LEMMA ProceedAt ==
  ASSUME SerialInv, NEW c \in Commands, todo[c] # <<>>, todo' = [todo EXCEPT ![c] = Tail(todo[c])]
  PROVE  /\ At(c, "readPID") => \A s : At(c, s)' => s = "checkPID"
         /\ At(c, "checkPID") => \A s : At(c, s)' => s \in {"terminate", "removeSocket"}
         /\ At(c, "terminate") => \A s : At(c, s)' => s = "wait"
         /\ At(c, "wait") => \A s : At(c, s)' => s = "cleanup"
         /\ At(c, "cleanup") => \A s : At(c, s)' => s = "readPID"
         /\ At(c, "removeSocket") => \A s : At(c, s)' => s = "fork"
         /\ At(c, "fork") => At(c, "writePID")' /\ \A s : At(c, s)' => s = "writePID"
         /\ At(c, "writePID") => \A s : ~At(c, s)'
<1>1. todo'[c] = Tail(todo[c])
  BY DEF SerialInv
<1>2. /\ Tail(todo[c]) # <<>> => Follows(Head(todo[c]), Head(Tail(todo[c])))
      /\ Tail(todo[c]) = <<>> => Head(todo[c]) \in {"cleanup", "writePID"}
  BY ProceedOrdered
<1>3. \A s, s2 : At(c, s) /\ At(c, s2)' => Follows(s, s2)
  BY <1>1, <1>2 DEF At
<1>4. \A s : At(c, s) /\ (\A s2 : ~At(c, s2)') => s \in {"cleanup", "writePID"}
  BY <1>1, <1>2 DEF At
<1> QED
  BY <1>3, <1>4 DEF Follows

\* the look at the PID file,
LEMMA ReadPIDKeeps ==
  ASSUME HubTypes, SerialInv, NEW c \in Commands, ReadPID(c)
  PROVE  SerialInv'
<1>1. /\ At(c, "readPID") /\ todo[c] # <<>> /\ todo' = [todo EXCEPT ![c] = Tail(todo[c])]
      /\ pid' = [pid EXCEPT ![c] = pidFile]
      /\ UNCHANGED <<pidFile, hubVars>>
  BY DEF ReadPID, Proceed, Continue, At
<1>2. \A s : At(c, s)' => s = "checkPID"
  BY <1>1, ProceedAt
<1>3. CommandInv(c)'
  BY <1>1, <1>2 DEF CommandInv, HubTypes
<1>4. \A d \in Commands : \A s \in {"writePID", "wait"} : ~At(d, s)
  BY <1>1 DEF SerialInv, At
<1>5. \A n \in Hubs : HubInv(n)'
  BY <1>1, <1>4 DEF SerialInv, HubInv, Free, Alive, hubVars
<1> QED
  BY <1>1, <1>3, <1>5, ProceedOrdered, SerialCommand

\* the check whether that hub runs: if it does not, none does,
LEMMA CheckPIDKeeps ==
  ASSUME HubTypes, SerialInv, NEW c \in Commands, CheckPID(c)
  PROVE  SerialInv'
<1>1. /\ At(c, "checkPID") /\ todo[c] # <<>> /\ UNCHANGED <<hubVars, pid>>
      /\ pid[c] = pidFile /\ pidFile \in 0..MaxHubs
  BY DEF CheckPID, At, SerialInv, CommandInv, HubTypes
<1>2. \A d \in Commands : \A s \in {"writePID", "wait"} : ~At(d, s)
  BY <1>1 DEF SerialInv, At
<1>3. \A n \in Hubs : /\ Free(n) => pidFile = n
                      /\ Free(n) /\ stage[n] = "serving" => sock = n
                      /\ ~(Alive(n) /\ signal[n] = "TERM")
  BY <1>2 DEF SerialInv, HubInv
<1>4. \A n : (Free(n)' <=> Free(n)) /\ (Alive(n)' <=> Alive(n))
  BY <1>1 DEF Free, Alive, hubVars
<1>5. CASE pid[c] # 0 /\ Alive(pid[c])
  <2>1. UNCHANGED pidFile /\ pid[c] \in Hubs
    BY <1>1, <1>5, DaemonAssumption DEF CheckPID, Hubs
  <2>2. \A n \in Hubs : HubInv(n)'
    BY <1>1, <1>3, <1>4, <2>1 DEF HubInv, hubVars
  <2>3. CASE Stopping(c)
    <3>1. todo' = [todo EXCEPT ![c] = Tail(todo[c])]
      BY <1>5, <2>3 DEF CheckPID, Continue
    <3>2. \A s : At(c, s)' => s \in {"terminate", "removeSocket"}
      BY <1>1, <3>1, ProceedAt
    <3>3. todo[c] \in Seq(StepNames) /\ todo'[c] = Tail(todo[c]) /\ todo[c][2] = "terminate"
          /\ Len(todo[c]) > 1
      BY <3>1, <2>3 DEF SerialInv, Stopping
    <3>4. At(c, "removeSocket")' => FALSE
      BY <3>3 DEF At
    <3>5. CommandInv(c)'
      BY <1>1, <2>1, <3>2, <3>4 DEF CommandInv
    <3> QED
      BY <1>1, <2>2, <3>1, <3>5, ProceedOrdered, SerialCommand
  <2>4. CASE ~Stopping(c)
    <3>1. todo' = [todo EXCEPT ![c] = <<>>]
      BY <1>5, <2>4 DEF CheckPID, Continue
    <3>2. CommandInv(c)'
      BY <3>1 DEF CommandInv, At, SerialInv
    <3> QED
      BY <1>1, <2>2, <3>1, <3>2, EmptyOrdered, SerialCommand
  <2> QED
    BY <2>3, <2>4
<1>6. CASE pid[c] = 0 \/ ~Alive(pid[c])
  <2>1. \A n \in Hubs : ~Free(n)
    BY <1>1, <1>3, <1>6, DaemonAssumption DEF Free, Hubs
  <2>2. \A n \in Hubs : HubInv(n)' /\ ~Free(n)'
    BY <2>1, <1>1, <1>3, <1>4 DEF HubInv, hubVars
  <2>3. todo' = [todo EXCEPT ![c] = NotRunning(c)]
    BY <1>6 DEF CheckPID, Continue
  <2>4. Ordered(NotRunning(c)) /\ \A s : At(c, s)' => s \in {"readPID", "removeSocket"}
    <3>1. todo[c] \in Seq(StepNames) /\ Ordered(todo[c])
      BY DEF SerialInv
    <3>2. todo'[c] = NotRunning(c)
      BY <2>3 DEF SerialInv
    <3>3. CASE Stopping(c)
      <4>1. NotRunning(c) = SubSeq(todo[c], 5, Len(todo[c])) /\ Len(todo[c]) > 1 /\ todo[c][2] = "terminate"
        BY <3>3 DEF NotRunning, Stopping
      <4>2. Ordered(NotRunning(c)) /\ (NotRunning(c) # <<>> => Head(NotRunning(c)) = "readPID")
        BY <3>1, <4>1, RestOfCheck
      <4> QED
        BY <3>2, <4>2 DEF At
    <3>4. CASE ~Stopping(c)
      <4>1. NotRunning(c) = Tail(todo[c])
        BY <3>4 DEF NotRunning
      <4>2. \A s : At(c, s)' => s \in {"terminate", "removeSocket"}
        BY <1>1, <2>3, <4>1, ProceedAt
      <4>3. At(c, "terminate")' => FALSE
        BY <3>1, <3>2, <3>4, <4>1, <1>1, EmptySeq DEF At, Stopping
      <4> QED
        BY <1>1, <4>1, <4>2, <4>3, ProceedOrdered
    <3> QED
      BY <3>3, <3>4
  <2>5. CommandInv(c)'
    BY <2>4, <2>2 DEF CommandInv
  <2> QED
    BY <1>1, <2>2, <2>3, <2>4, <2>5, SerialCommand
<1> QED
  BY <1>5, <1>6

\* the removal of a socket file that nobody serves,
LEMMA RemoveSocketKeeps ==
  ASSUME HubTypes, SerialInv, NEW c \in Commands, RemoveSocket(c)
  PROVE  SerialInv'
<1>1. /\ At(c, "removeSocket") /\ todo[c] # <<>> /\ todo' = [todo EXCEPT ![c] = Tail(todo[c])]
      /\ UNCHANGED <<pidFile, pid, stage, signal>>
  BY DEF RemoveSocket, Proceed, Continue, At
<1>2. \A n \in Hubs : ~Free(n) /\ ~Free(n)'
  BY <1>1 DEF SerialInv, CommandInv, Free, Alive
<1>3. \A s : At(c, s)' => s = "fork"
  BY <1>1, ProceedAt
<1>4. CommandInv(c)'
  BY <1>2, <1>3 DEF CommandInv
<1>5. \A d \in Commands : \A s \in {"writePID", "wait"} : ~At(d, s)
  BY <1>1 DEF SerialInv, At
<1>6. \A n \in Hubs : HubInv(n)'
  BY <1>1, <1>2, <1>5 DEF SerialInv, HubInv, Alive
<1> QED
  BY <1>1, <1>4, <1>6, ProceedOrdered, SerialCommand

\* the creation of a hub, known to nobody yet,
LEMMA ForkKeeps ==
  ASSUME HubTypes, SerialInv, NEW c \in Commands, Fork(c)
  PROVE  SerialInv'
<1>0. PICK k : k = Created + 1
  OBVIOUS
<1>1. /\ At(c, "fork") /\ todo[c] # <<>> /\ todo' = [todo EXCEPT ![c] = Tail(todo[c])]
      /\ stage' = [stage EXCEPT ![k] = "created"] /\ pid' = [pid EXCEPT ![c] = k]
      /\ UNCHANGED <<pidFile, signal, sock>>
  BY <1>0 DEF Fork, Proceed, Continue, At
<1>2. k \in Hubs /\ stage[k] = "none"
  <2>1. Created \in 0..MaxHubs /\ k \in Hubs /\ ~(k <= Created)
    BY <1>0, CreatedCount, DaemonAssumption DEF Fork, Hubs
  <2>2. \A n \in Hubs : stage[n] # "none" <=> n <= Created
    BY CreatedCount
  <2> QED
    BY <2>1, <2>2
<1>3. signal[k] = "none" /\ pid'[c] = k /\ stage'[k] = "created"
  BY <1>1, <1>2 DEF HubTypes
<1>4. \A n \in Hubs : ~Free(n)
  BY <1>1 DEF SerialInv, CommandInv
<1>5. \A n \in Hubs \ {k} : stage'[n] = stage[n] /\ (Alive(n)' <=> Alive(n)) /\ (Free(n)' <=> Free(n))
  BY <1>1 DEF HubTypes, Free, Alive
<1>6. At(c, "writePID")' /\ \A s : At(c, s)' => s = "writePID"
  BY <1>1, ProceedAt
<1>7. CommandInv(c)'
  BY <1>2, <1>3, <1>4, <1>5, <1>6 DEF CommandInv
<1>8. \A d \in Commands : ~At(d, "wait")
  BY <1>1 DEF SerialInv, At
<1>9. \A n \in Hubs \ {k} : HubInv(n)'
  BY <1>1, <1>4, <1>5, <1>8 DEF SerialInv, HubInv
<1>10. HubInv(k)'
  BY <1>1, <1>3, <1>6 DEF HubInv
<1>11. \A n \in Hubs : HubInv(n)'
  BY <1>9, <1>10
<1> QED
  BY <1>1, <1>7, <1>11, ProceedOrdered, SerialCommand

\* the two halves of the write of its PID,
LEMMA WritePIDKeeps ==
  ASSUME HubTypes, SerialInv, NEW c \in Commands, WritePID(c)
  PROVE  SerialInv'
<1>1. /\ At(c, "writePID") /\ todo[c] # <<>> /\ UNCHANGED <<hubVars, pid>>
      /\ pid[c] \in Hubs /\ \A n \in Hubs : Free(n) => n = pid[c]
  BY DEF WritePID, At, SerialInv, CommandInv
<1>2. \A n : (Free(n)' <=> Free(n)) /\ (Alive(n)' <=> Alive(n))
  BY <1>1 DEF Free, Alive, hubVars
<1>3. \A d \in Commands : ~At(d, "wait")
  BY <1>1 DEF SerialInv, At
<1>4. CASE UNCHANGED todo
  <2>1. \A n \in Hubs : HubInv(n)'
    BY <1>1, <1>2, <1>3, <1>4 DEF SerialInv, HubInv, At, hubVars
  <2>2. \A s : At(c, s)' => s = "writePID"
    BY <1>1, <1>4 DEF At
  <2>3. CommandInv(c)'
    BY <1>1, <1>2, <2>2 DEF CommandInv
  <2>4. todo' = [todo EXCEPT ![c] = todo[c]] /\ Ordered(todo[c])
    BY <1>4 DEF SerialInv
  <2> QED
    BY <1>1, <2>1, <2>3, <2>4, SerialCommand
<1>5. CASE pidFile' = pid[c] /\ todo' = [todo EXCEPT ![c] = Tail(todo[c])]
  <2>1. \A n \in Hubs : HubInv(n)'
    BY <1>1, <1>2, <1>3, <1>5 DEF SerialInv, HubInv, hubVars
  <2>2. \A s : ~At(c, s)'
    BY <1>1, <1>5, ProceedAt
  <2>3. CommandInv(c)'
    BY <2>2 DEF CommandInv
  <2> QED
    BY <1>1, <1>5, <2>1, <2>3, ProceedOrdered, SerialCommand
<1> QED
  BY <1>4, <1>5 DEF WritePID, Proceed, Continue

\* the signal to the hub, the only one that may be running,
LEMMA TerminateKeeps ==
  ASSUME HubTypes, SerialInv, NEW c \in Commands, Terminate(c)
  PROVE  SerialInv'
<1>1. /\ At(c, "terminate") /\ todo[c] # <<>> /\ UNCHANGED <<pidFile, pid, stage, sock>>
      /\ pid[c] \in Hubs /\ pidFile = pid[c]
  BY DEF Terminate, At, SerialInv, CommandInv
<1>2. \A d \in Commands : ~At(d, "wait") /\ ~At(d, "writePID")
  BY <1>1 DEF SerialInv, At
<1>3. \A n \in Hubs : /\ Free(n) => n = pid[c]
                      /\ Free(n) /\ stage[n] = "serving" => sock = n
                      /\ ~(Alive(n) /\ signal[n] = "TERM")
  BY <1>1, <1>2 DEF SerialInv, HubInv
<1>4. \A n : Alive(n)' <=> Alive(n)
  BY <1>1 DEF Alive
<1>5. CASE Alive(pid[c])
  <2>1. PICK s \in {"TERM", "KILL"} :
          signal' = [signal EXCEPT ![pid[c]] = s] /\ todo' = [todo EXCEPT ![c] = Tail(todo[c])]
    BY <1>5 DEF Terminate, Proceed, Continue
  <2>2. signal'[pid[c]] = s /\ \A n \in Hubs \ {pid[c]} : signal'[n] = signal[n]
    BY <1>1, <2>1 DEF HubTypes
  <2>3. \A s2 : At(c, s2)' => s2 = "wait"
    BY <1>1, <2>1, ProceedAt
  <2>4. At(c, "wait")'
    <3>1. todo'[c] = Tail(todo[c])
      BY <2>1 DEF SerialInv
    <3>2. Tail(todo[c]) # <<>>
      BY <1>1, ProceedOrdered DEF At
    <3> QED
      BY <2>3, <3>1, <3>2 DEF At
  <2>5. \A n \in Hubs : ~Free(n)'
    BY <1>3, <1>4, <2>2 DEF Free
  <2>6. CommandInv(c)'
    BY <1>1, <2>3, <2>5 DEF CommandInv
  <2>7. \A n \in Hubs : HubInv(n)'
    BY <1>1, <1>3, <1>4, <2>2, <2>4, <2>5 DEF HubInv
  <2> QED
    BY <1>1, <2>1, <2>6, <2>7, ProceedOrdered, SerialCommand
<1>6. CASE ~Alive(pid[c])
  <2>1. UNCHANGED signal /\ todo' = [todo EXCEPT ![c] = <<>>]
    BY <1>6 DEF Terminate, Continue
  <2>2. \A n \in Hubs : HubInv(n)'
    BY <1>1, <1>3, <1>4, <1>6, <2>1 DEF HubInv, Free
  <2>3. CommandInv(c)'
    BY <2>1 DEF CommandInv, At, SerialInv
  <2> QED
    BY <1>1, <2>1, <2>2, <2>3, EmptyOrdered, SerialCommand
<1> QED
  BY <1>5, <1>6

\* the wait, after which it is gone or killed,
LEMMA WaitsKeeps ==
  ASSUME HubTypes, SerialInv, NEW c \in Commands, Waits(c)
  PROVE  SerialInv'
<1>1. /\ At(c, "wait") /\ todo[c] # <<>> /\ todo' = [todo EXCEPT ![c] = Tail(todo[c])]
      /\ UNCHANGED <<pidFile, pid, stage, sock>> /\ pid[c] \in Hubs
  BY DEF Waits, Proceed, Continue, At, SerialInv, CommandInv
<1>2. \A n : Alive(n)' <=> Alive(n)
  BY <1>1 DEF Alive
<1>3. \A n \in Hubs : ~Free(n) /\ (Alive(n) /\ signal[n] = "TERM" => n = pid[c])
  BY <1>1 DEF SerialInv, CommandInv, HubInv, At
<1>4. \/ ~Alive(pid[c]) /\ UNCHANGED signal
      \/ signal' = [signal EXCEPT ![pid[c]] = "KILL"]
  BY DEF Waits
<1>5. \A n \in Hubs : ~Free(n)' /\ ~(Alive(n) /\ signal[n] = "TERM")'
  BY <1>1, <1>2, <1>3, <1>4 DEF HubTypes, Free
<1>6. \A s : At(c, s)' => s = "cleanup"
  BY <1>1, ProceedAt
<1>7. CommandInv(c)'
  BY <1>5, <1>6 DEF CommandInv
<1>8. \A n \in Hubs : HubInv(n)'
  BY <1>5 DEF HubInv
<1> QED
  BY <1>1, <1>7, <1>8, ProceedOrdered, SerialCommand

\* and the removal of the PID file.
LEMMA CleanupKeeps ==
  ASSUME HubTypes, SerialInv, NEW c \in Commands, cleanupPIDFile(c)
  PROVE  SerialInv'
<1>1. /\ At(c, "cleanup") /\ todo[c] # <<>> /\ todo' = [todo EXCEPT ![c] = Tail(todo[c])]
      /\ UNCHANGED <<pid, hubVars>>
  BY DEF cleanupPIDFile, Proceed, Continue, At
<1>2. \A n : (Free(n)' <=> Free(n)) /\ (Alive(n)' <=> Alive(n))
  BY <1>1 DEF Free, Alive, hubVars
<1>3. \A n \in Hubs : ~Free(n)'
  BY <1>1, <1>2 DEF SerialInv, CommandInv
<1>4. \A d \in Commands : ~At(d, "wait")
  BY <1>1 DEF SerialInv, At
<1>5. \A n \in Hubs : HubInv(n)'
  BY <1>1, <1>2, <1>3, <1>4 DEF SerialInv, HubInv, hubVars
<1>6. \A s : At(c, s)' => s = "readPID"
  BY <1>1, ProceedAt
<1>7. CommandInv(c)'
  BY <1>6 DEF CommandInv
<1> QED
  BY <1>1, <1>5, <1>7, ProceedOrdered, SerialCommand

\* No step of a hub makes a hub unfindable: only one that was told to stop takes the
\* socket file away, and a command is waiting for that one.
LEMMA HubKeepsFindable ==
  ASSUME HubTypes, SerialInv, NEW m \in Hubs, HubStep(m) \/ Dies(m)
  PROVE  SerialInv'
<1>1. UNCHANGED <<todo, pid, pidFile, signal>>
  BY DEF HubStep, StartNATS, StartSupervisor, StartControlSocket, StopNATS, Shutdown, Dies, Ends,
         commandVars
<1>2. /\ \A n \in Hubs \ {m} : stage'[n] = stage[n]
      /\ Alive(m)' => Alive(m)
  BY DEF HubTypes, HubStep, StartNATS, StartSupervisor, StartControlSocket, StopNATS, Shutdown, Dies,
         Ends, Reaches, Runs, Alive
<1>3. \A n \in Hubs : (Alive(n)' => Alive(n)) /\ (Free(n)' => Free(n))
  BY <1>1, <1>2 DEF Free, Alive
<1>4. \A n \in Hubs : Free(n)' /\ stage'[n] = "serving" => sock' = n
  <2>1. CASE Shutdown(m)
    <3>1. PICK c \in Commands : At(c, "wait")
      BY <2>1 DEF Shutdown, SerialInv, HubInv
    <3>2. \A n \in Hubs : ~Free(n)
      BY <3>1 DEF SerialInv, CommandInv
    <3> QED
      BY <1>3, <3>2
  <2>2. CASE /\ sock = 0 /\ sock' = m /\ stage' = [stage EXCEPT ![m] = "serving"]
    <3>1. \A n \in Hubs : n # 0
      BY DaemonAssumption DEF Hubs
    <3> QED
      BY <1>2, <1>3, <2>2, <3>1 DEF SerialInv, HubInv
  <2>3. CASE sock' = sock /\ (stage' = stage \/ stage'[m] # "serving")
    BY <1>2, <1>3, <2>3 DEF SerialInv, HubInv
  <2> QED
    BY <2>1, <2>2, <2>3
       DEF HubTypes, HubStep, StartNATS, StartSupervisor, StartControlSocket, StopNATS, Dies, Ends,
           Reaches
<1>5. \A n \in Hubs : HubInv(n)'
  BY <1>1, <1>3, <1>4 DEF SerialInv, HubInv, At
<1> QED
  BY <1>1, <1>3, <1>5, SerialHub

\* FindInv holds of every step.
LEMMA FindNext ==
  ASSUME FindInv, [Next]_vars
  PROVE  FindInv'
<1>1. HubTypes /\ HubTypes'
  BY TypesNext DEF FindInv
<1>2. ASSUME ~overlapped'
      PROVE  SerialInv'
  <2>1. SerialInv
    BY <1>2 DEF FindInv, Next, Invoke, CommandStep, ReadPID, CheckPID, RemoveSocket, Fork, WritePID,
        Terminate, Waits, cleanupPIDFile, Proceed, Continue, HubStep, StartNATS, StartSupervisor,
        StartControlSocket, StopNATS, Shutdown, Dies, Ends, AgentAdded, Spawn, Connects, Reconnects,
        AgentDies, commandVars, vars
  <2>2. ASSUME NEW c \in Commands, CommandStep(c)
        PROVE  SerialInv'
    BY <1>1, <2>1, <2>2, ReadPIDKeeps, CheckPIDKeeps, RemoveSocketKeeps, ForkKeeps, WritePIDKeeps,
       TerminateKeeps, WaitsKeeps, CleanupKeeps DEF CommandStep
  <2>3. ASSUME NEW c \in Commands, Invoke(c)
        PROVE  SerialInv'
    BY <1>1, <1>2, <2>1, <2>3, InvokeKeeps
  <2>4. ASSUME NEW n \in Hubs, HubStep(n) \/ Dies(n)
        PROVE  SerialInv'
    BY <1>1, <2>1, <2>4, HubKeepsFindable
  <2>5. ASSUME UNCHANGED <<todo, pid, pidFile, hubVars>>
        PROVE  SerialInv'
    <3>1. \A n \in Hubs : (Free(n)' => Free(n)) /\ HubInv(n)'
      BY <2>1, <2>5 DEF SerialInv, HubInv, Free, Alive, At, hubVars
    <3> QED
      BY <2>1, <2>5, <3>1, SerialHub
  <2>6. ASSUME \/ \E a \in Agents : AgentAdded(a) \/ \E n \in Hubs : Spawn(n, a)
               \/ \E p \in Hubs \X Agents : Connects(p) \/ Reconnects(p) \/ AgentDies(p)
               \/ UNCHANGED vars
        PROVE  UNCHANGED <<todo, pid, pidFile, hubVars>>
    BY <2>6 DEF AgentAdded, Spawn, Connects, Reconnects, AgentDies, commandVars, vars
  <2> QED
    BY <2>2, <2>3, <2>4, <2>5, <2>6 DEF Next
<1> QED
  BY <1>1, <1>2 DEF FindInv

\* As long as commands follow one another, a hub that lives can be found by the
\* commands that come after (app/hub_daemon.go), whatever dies or is killed meanwhile.
THEOREM FindableCorrect == Spec => []HubFindable
<1>1. FindInv => HubFindable
  BY DEF FindInv, SerialInv, HubInv, HubFindable, Free, At
<1> QED
  BY <1>1, FindInit, FindNext, PTL DEF Spec

----------------------------------------------------------------------------
(* The lines of the agents (AgentLogs) *)

Pieces == [line : Nat, last : BOOLEAN]

\* In a stream every first piece begins a line, and every last one follows its first.
Paired(data) ==
  \A i \in 1..Len(data) :
    IF data[i].last
    THEN i > 1 /\ ~data[i - 1].last /\ data[i].line = data[i - 1].line
    ELSE i = 1 \/ data[i - 1].last

\* What the hub has read or can still read of an agent, and what a follower has
\* shown, holds or is to get.
Data(a) == buf[a] \o pipe[a]
Published == shown \o logCh \o bus

LogTypes ==
  /\ kind \in Seq(Kinds) /\ owner \in Seq(LogAgents) /\ Len(owner) = Len(kind)
  /\ open \in [LogAgents -> Nat]
  /\ pipe \in [LogAgents -> Seq(Pieces)] /\ buf \in [LogAgents -> Seq(Pieces)]
  /\ alive \subseteq LogAgents
  /\ whole \subseteq 1..Len(kind) /\ missed \subseteq whole
  /\ shown \in Seq(Nat) /\ logCh \in Seq(Nat) /\ bus \in Seq(Nat)

\* The end of an agent's stream: the line it is in the middle of, or a newline,
\* or whatever a process left that died.
EndInv(a) ==
  /\ open[a] # 0 =>
       /\ open[a] \in 1..Len(kind) /\ owner[open[a]] = a
       /\ \A n \in whole : owner[n] = a => n < open[a]
       /\ Len(Data(a)) > 0 /\ Data(a)[Len(Data(a))] = Piece(open[a], FALSE)
  /\ open[a] = 0 /\ a \in alive => Len(Data(a)) = 0 \/ Data(a)[Len(Data(a))].last
  /\ a \notin alive => open[a] = 0

\* The lines in an agent's stream are its own, in their order, and not yet published.
StreamInv(a) ==
  /\ Paired(Data(a))
  /\ \A i \in 1..Len(buf[a]) : ~buf[a][i].last
  /\ \A i \in 1..Len(Data(a)) :
       /\ Data(a)[i].line \in 1..Len(kind) /\ owner[Data(a)[i].line] = a
       /\ Data(a)[i].last => Data(a)[i].line \in whole \ missed
  /\ \A i, j \in 1..Len(Data(a)) :
       i < j /\ Data(a)[i].last /\ Data(a)[j].last => Data(a)[i].line < Data(a)[j].line

\* Published lines are JSON, in the order of their agent, and come before those
\* that are still in its stream.
FrontInv ==
  /\ \A i \in 1..Len(Published) : Published[i] \in whole \ missed /\ kind[Published[i]] # "plain"
  /\ \A i, j \in 1..Len(Published) : i < j /\ owner[Published[i]] = owner[Published[j]] => Published[i] < Published[j]
  /\ \A i \in 1..Len(Published) : \A a \in LogAgents : \A j \in 1..Len(Data(a)) :
       owner[Published[i]] = a /\ Data(a)[j].last => Published[i] < Data(a)[j].line

\* No line a follower is to see is lost.
NoneLost(a) ==
  \A n \in (whole \ missed) \intersect Due(a) :
    \/ \E i \in 1..Len(Published) : Published[i] = n
    \/ \E i \in 1..Len(Data(a)) : Data(a)[i].last /\ Data(a)[i].line = n

LogsInv ==
  /\ LogTypes /\ FrontInv
  /\ \A a \in LogAgents : EndInv(a) /\ StreamInv(a) /\ NoneLost(a)

\* lines are those of the last pieces of data, in their order.
AreWhole(lines, data) ==
  /\ lines \in Seq(Nat)
  /\ \A j \in 1..Len(lines) : \E i \in 1..Len(data) : data[i].last /\ lines[j] = data[i].line
  /\ \A i \in 1..Len(data) : data[i].last => \E j \in 1..Len(lines) : lines[j] = data[i].line
  /\ \A j, k \in 1..Len(lines) :
       j < k => \E h, i \in 1..Len(data) :
                  /\ h < i /\ data[h].last /\ data[i].last
                  /\ lines[j] = data[h].line /\ lines[k] = data[i].line

\* The whole lines of a paired stream are those of its last pieces.
LEMMA WholeFacts ==
  ASSUME NEW data \in Seq(Pieces), Paired(data)
  PROVE  AreWhole(WholeLines(data), data)
<1> DEFINE s == LinesOf(data)
           I == {i \in 1..Len(data) : WholeAt(data, i)}
<1>1. \A i \in 1..Len(data) : data[i] \in Pieces
  OBVIOUS
<1>2. \A i \in 1..Len(data) : i \in I <=> data[i].last
  <2> SUFFICES ASSUME NEW i \in 1..Len(data)
               PROVE  WholeAt(data, i) <=> data[i].last
    OBVIOUS
  <2>1. CASE ~data[i].last
    BY <2>1 DEF WholeAt
  <2>2. CASE data[i].last
    <3>1. i > 1 /\ ~data[i - 1].last /\ data[i].line = data[i - 1].line
      BY <2>2 DEF Paired
    <3>2. i - 1 \in 1..Len(data) /\ i - 1 - 1 = i - 2 /\ (i - 1 = 1 => i = 2)
      BY <3>1
    <3>3. i - 1 = 1 \/ data[i - 1 - 1].last
      BY <3>1, <3>2 DEF Paired
    <3> QED
      BY <2>2, <3>1, <3>2, <3>3 DEF WholeAt
  <2> QED
    BY <2>1, <2>2
<1>3. s \in Seq(Nat) /\ Len(s) = Len(data) /\ \A i \in 1..Len(data) : s[i] = data[i].line
  <2>1. \A i \in 1..Len(data) : data[i].line \in Nat
    BY <1>1 DEF Pieces
  <2>2. s = [i \in 1..Len(data) |-> data[i].line] /\ Len(data) \in Nat
    BY DEF LinesOf
  <2> QED
    BY <2>1, <2>2
<1>4. WholeLines(data) = Picked(s, I)
  BY DEF WholeLines
<1> HIDE DEF s, I
<1>5. WholeLines(data) \in Seq(Nat) /\ Selects(WholeLines(data), s, I)
  BY <1>3, <1>4, PickedFacts
<1> DEFINE w == WholeLines(data)
           n == Len(data)
<1>6. /\ Len(s) = n /\ \A i \in 1..n : s[i] = data[i].line
      /\ \A i \in 1..n : i \in I <=> data[i].last
  BY <1>2, <1>3
<1>7. w \in Seq(Nat) /\ Selects(w, s, I)
  BY <1>5
<1> HIDE DEF w, n
<1>8. ASSUME NEW j \in 1..Len(w) PROVE \E i \in 1..n : data[i].last /\ w[j] = data[i].line
  <2>1. PICK i \in 1..n : i \in I /\ w[j] = s[i]
    BY <1>6, <1>7 DEF Selects
  <2> QED
    BY <1>6, <2>1
<1>9. ASSUME NEW i \in 1..n, data[i].last PROVE \E j \in 1..Len(w) : w[j] = data[i].line
  <2>1. i \in I /\ s[i] = data[i].line
    BY <1>6, <1>9
  <2>2. PICK j \in 1..Len(w) : w[j] = s[i]
    BY <1>6, <1>7, <2>1 DEF Selects
  <2> QED
    BY <2>1, <2>2
<1>10. ASSUME NEW j \in 1..Len(w), NEW k \in 1..Len(w), j < k
       PROVE  \E h, i \in 1..n : /\ h < i /\ data[h].last /\ data[i].last
                                 /\ w[j] = data[h].line /\ w[k] = data[i].line
  <2>1. PICK h \in 1..n, i \in 1..n : h \in I /\ i \in I /\ h < i /\ w[j] = s[h] /\ w[k] = s[i]
    BY <1>6, <1>7, <1>10 DEF Selects
  <2> QED
    BY <1>6, <2>1
<1>11. w \in Seq(Nat)
  BY <1>7
<1> QED
  BY <1>8, <1>9, <1>10, <1>11, Zenon DEF AreWhole, w, n

LEMMA PieceAfter ==
  \A s, t \in Seq(Pieces) : \A e \in Pieces : s \o Append(t, e) = Append(s \o t, e)
  BY AppendProperties, ConcatProperties, SeqEqual

LEMMA NumberAfter ==
  \A s, t \in Seq(Nat) : \A e \in Nat : s \o Append(t, e) = Append(s \o t, e)
  BY AppendProperties, ConcatProperties, SeqEqual

LEMMA NumbersAssociate ==
  \A s, t, u \in Seq(Nat) : s \o (t \o u) = (s \o t) \o u
  BY ConcatAssociative, SMTT(30)

\* json are the JSON lines of lines, in their order.
AreJSON(json, lines) ==
  /\ json \in Seq(Nat)
  /\ \A j \in 1..Len(json) : \E i \in 1..Len(lines) : kind[lines[i]] # "plain" /\ json[j] = lines[i]
  /\ \A i \in 1..Len(lines) : kind[lines[i]] # "plain" => \E j \in 1..Len(json) : json[j] = lines[i]
  /\ \A j, k \in 1..Len(json) :
       j < k => \E h, i \in 1..Len(lines) : h < i /\ json[j] = lines[h] /\ json[k] = lines[i]

LEMMA WriteLineFacts ==
  ASSUME NEW lines \in Seq(Nat)
  PROVE  AreJSON(writeLine(lines), lines)
<1> DEFINE I == {i \in DOMAIN lines : kind[lines[i]] # "plain"}
<1>1. writeLine(lines) = Picked(lines, I)
  BY DEF writeLine
<1>2. \A i \in 1..Len(lines) : i \in I <=> kind[lines[i]] # "plain"
  OBVIOUS
<1> HIDE DEF I
<1>3. writeLine(lines) \in Seq(Nat) /\ Selects(writeLine(lines), lines, I)
  BY <1>1, PickedFacts
<1> QED
  BY <1>2, <1>3 DEF AreJSON, Selects

\* The invariant says what a follower gets.
LEMMA FollowerFollows == ASSUME LogsInv PROVE FollowerGetsLines
<1> SUFFICES ASSUME NEW a \in LogAgents
             PROVE  LET lines == shown \o logCh \o bus \o WholeLines(buf[a] \o pipe[a])
                    IN  /\ ToSet(lines) \intersect Due(a) = (whole \ missed) \intersect Due(a)
                        /\ \A i, j \in DOMAIN lines :
                             i < j /\ owner[lines[i]] = a /\ owner[lines[j]] = a
                               => lines[i] < lines[j]
  BY DEF FollowerGetsLines
<1> DEFINE w == WholeLines(Data(a))
           f == Published
           lines == f \o w
           m == Len(f)
<1>1. StreamInv(a) /\ FrontInv /\ LogTypes /\ NoneLost(a)
  BY DEF LogsInv
<1>2. f \in Seq(Nat) /\ Data(a) \in Seq(Pieces) /\ Paired(Data(a))
  BY <1>1 DEF LogTypes, Published, Data, StreamInv
<1>3. /\ w \in Seq(Nat)
      /\ \A j \in 1..Len(w) : \E i \in 1..Len(Data(a)) : Data(a)[i].last /\ w[j] = Data(a)[i].line
      /\ \A i \in 1..Len(Data(a)) :
           Data(a)[i].last => \E j \in 1..Len(w) : w[j] = Data(a)[i].line
      /\ \A j, k \in 1..Len(w) :
           j < k => \E h, i \in 1..Len(Data(a)) :
                      /\ h < i /\ Data(a)[h].last /\ Data(a)[i].last
                      /\ w[j] = Data(a)[h].line /\ w[k] = Data(a)[i].line
  BY <1>2, WholeFacts DEF AreWhole
<1>4. lines = shown \o logCh \o bus \o WholeLines(buf[a] \o pipe[a])
  BY DEF Published, Data
<1> HIDE DEF w, f
<1>5. /\ lines \in Seq(Nat) /\ Len(lines) = m + Len(w) /\ m \in Nat /\ Len(w) \in Nat
      /\ DOMAIN lines = 1..Len(lines)
      /\ \A i \in 1..m : lines[i] = f[i]
      /\ \A i \in 1..Len(lines) : i > m => i - m \in 1..Len(w) /\ lines[i] = w[i - m]
      /\ \A i \in 1..Len(w) : m + i \in 1..Len(lines) /\ lines[m + i] = w[i]
  BY <1>2, <1>3, ConcatProperties, SMTT(30)
<1> HIDE DEF lines, m
<1>6. \A i \in 1..m : f[i] \in whole \ missed
  BY <1>1 DEF FrontInv, f, m
<1>7. ASSUME NEW j \in 1..Len(w) PROVE w[j] \in whole \ missed /\ owner[w[j]] = a
  <2>1. PICK i \in 1..Len(Data(a)) : Data(a)[i].last /\ w[j] = Data(a)[i].line
    BY <1>3
  <2> QED
    BY <1>1, <2>1 DEF StreamInv
<1>8. ToSet(lines) \intersect Due(a) = (whole \ missed) \intersect Due(a)
  <2>1. ToSet(lines) = {lines[i] : i \in 1..Len(lines)}
    BY <1>5 DEF ToSet
  <2>2. ASSUME NEW i \in 1..Len(lines) PROVE lines[i] \in whole \ missed
    <3>1. CASE i <= m
      <4>1. i \in 1..m
        BY <1>5, <3>1
      <4> QED
        BY <1>5, <1>6, <4>1
    <3>2. CASE i > m
      BY <1>5, <1>7, <3>2
    <3> QED
      BY <1>5, <3>1, <3>2
  <2>3. ASSUME NEW n \in (whole \ missed) \intersect Due(a) PROVE \E i \in 1..Len(lines) : lines[i] = n
    <3>1. CASE \E i \in 1..m : f[i] = n
      BY <1>5, <3>1
    <3>2. CASE \E i \in 1..Len(Data(a)) : Data(a)[i].last /\ Data(a)[i].line = n
      <4>1. PICK i \in 1..Len(Data(a)) : Data(a)[i].last /\ Data(a)[i].line = n
        BY <3>2
      <4>2. PICK j \in 1..Len(w) : w[j] = Data(a)[i].line
        BY <1>3, <4>1
      <4>3. m + j \in 1..Len(lines) /\ lines[m + j] = n
        BY <1>5, <4>1, <4>2
      <4> QED
        BY <4>3
    <3> QED
      BY <1>1, <3>1, <3>2 DEF NoneLost, f, m
  <2> QED
    BY <2>1, <2>2, <2>3
<1>9. ASSUME NEW i \in 1..Len(lines), NEW j \in 1..Len(lines),
             i < j, owner[lines[i]] = a, owner[lines[j]] = a
      PROVE  lines[i] < lines[j]
  <2>1. CASE j <= m
    <3>1. i \in 1..m /\ j \in 1..m
      BY <1>5, <1>9, <2>1
    <3>2. lines[i] = f[i] /\ lines[j] = f[j]
      BY <1>5, <3>1
    <3> QED
      BY <1>1, <1>9, <3>1, <3>2 DEF FrontInv, f, m
  <2>2. CASE i > m
    <3>1. /\ i - m \in 1..Len(w) /\ j - m \in 1..Len(w) /\ i - m < j - m
          /\ lines[i] = w[i - m] /\ lines[j] = w[j - m]
      <4>1. i > m /\ j > m
        BY <1>5, <1>9, <2>2
      <4>2. i - m < j - m
        BY <1>5, <1>9
      <4> QED
        BY <1>5, <4>1, <4>2
    <3>2. PICK h \in 1..Len(Data(a)), k \in 1..Len(Data(a)) :
            /\ h < k /\ Data(a)[h].last /\ Data(a)[k].last
            /\ w[i - m] = Data(a)[h].line /\ w[j - m] = Data(a)[k].line
      BY <1>3, <3>1
    <3>3. Data(a)[h].line < Data(a)[k].line
      BY <1>1, <3>2 DEF StreamInv
    <3> QED
      BY <3>1, <3>2, <3>3
  <2>3. CASE i <= m /\ j > m
    <3>1. i \in 1..m /\ j - m \in 1..Len(w) /\ lines[i] = f[i] /\ lines[j] = w[j - m]
      BY <1>5, <2>3
    <3>2. PICK h \in 1..Len(Data(a)) : Data(a)[h].last /\ w[j - m] = Data(a)[h].line
      BY <1>3, <3>1
    <3>3. f[i] < Data(a)[h].line
      BY <1>1, <1>9, <3>1, <3>2 DEF FrontInv, f, m
    <3> QED
      BY <3>1, <3>2, <3>3
  <2> QED
    BY <1>5, <2>1, <2>2, <2>3
<1> QED
  BY <1>4, <1>5, <1>8, <1>9

LEMMA PairedGrows ==
  ASSUME NEW d \in Seq(Pieces), NEW p \in Pieces, Paired(d),
         IF p.last THEN Len(d) > 0 /\ ~d[Len(d)].last /\ d[Len(d)].line = p.line
                   ELSE Len(d) = 0 \/ d[Len(d)].last
  PROVE  Paired(Append(d, p))
<1> DEFINE e == Append(d, p)
<1>1. /\ Len(d) \in Nat /\ Len(e) = Len(d) + 1
      /\ e[Len(d) + 1] = p
      /\ \A i \in 1..Len(d) : e[i] = d[i]
  BY AppendProperties
<1> HIDE DEF e
<1>2. ASSUME NEW i \in 1..Len(e)
      PROVE  IF e[i].last
             THEN i > 1 /\ ~e[i - 1].last /\ e[i].line = e[i - 1].line
             ELSE i = 1 \/ e[i - 1].last
  <2>1. CASE i = Len(d) + 1
    <3>1. i - 1 = Len(d) /\ e[i] = p
      BY <1>1, <2>1
    <3>2. CASE Len(d) = 0
      BY <2>1, <3>1, <3>2
    <3>3. CASE Len(d) # 0
      <4>1. Len(d) \in 1..Len(d) /\ i > 1
        BY <1>1, <2>1, <3>3
      <4>2. e[i - 1] = d[Len(d)]
        BY <1>1, <3>1, <4>1
      <4> QED
        BY <3>1, <3>3, <4>1, <4>2
    <3> QED
      BY <3>2, <3>3
  <2>2. CASE i # Len(d) + 1
    <3>1. i \in 1..Len(d) /\ e[i] = d[i]
      BY <1>1, <2>2
    <3>2. i # 1 => i - 1 \in 1..Len(d) /\ e[i - 1] = d[i - 1]
      BY <1>1, <3>1
    <3> QED
      BY <3>1, <3>2 DEF Paired
  <2> QED
    BY <2>1, <2>2
<1>3. Paired(e)
  BY <1>2 DEF Paired
<1> QED
  BY <1>3 DEF e

\* Where an agent's stream and the published lines are made of.
LEMMA StreamTypes ==
  ASSUME LogTypes
  PROVE  /\ Published \in Seq(Nat) /\ Len(Published) \in Nat
         /\ \A a \in LogAgents : Data(a) \in Seq(Pieces) /\ Len(Data(a)) \in Nat
         /\ Len(kind) \in Nat
  BY DEF LogTypes, Published, Data

LEMMA LogsInitInv == ASSUME LogsInit PROVE LogsInv
<1>1. /\ kind = <<>> /\ owner = <<>> /\ bus = <<>> /\ logCh = <<>> /\ shown = <<>>
      /\ whole = {} /\ missed = {} /\ open = [a \in LogAgents |-> 0] /\ alive = LogAgents
      /\ pipe = [a \in LogAgents |-> <<>>] /\ buf = [a \in LogAgents |-> <<>>]
  BY DEF LogsInit
<1>2. LogTypes
  BY <1>1 DEF LogTypes
<1>3. Len(Published) = 0 /\ \A a \in LogAgents : Len(Data(a)) = 0 /\ Len(buf[a]) = 0
  BY <1>1 DEF Published, Data
<1>4. FrontInv
  BY <1>3 DEF FrontInv
<1>5. \A a \in LogAgents : EndInv(a) /\ StreamInv(a) /\ NoneLost(a)
  BY <1>1, <1>3 DEF EndInv, StreamInv, NoneLost, Paired
<1> QED
  BY <1>2, <1>4, <1>5 DEF LogsInv

\* What an agent's write leaves as it is.
LEMMA OneAppended ==
  ASSUME LogTypes, NEW a \in LogAgents, NEW p \in Pieces,
         pipe' = [pipe EXCEPT ![a] = Append(@, p)], UNCHANGED <<buf, shown, logCh, bus>>
  PROVE  /\ pipe' \in [LogAgents -> Seq(Pieces)]
         /\ Data(a)' = Append(Data(a), p)
         /\ Len(Data(a)') = Len(Data(a)) + 1
         /\ Data(a)'[Len(Data(a)) + 1] = p
         /\ \A i \in 1..Len(Data(a)) : Data(a)'[i] = Data(a)[i]
         /\ \A b \in LogAgents : b # a => Data(b)' = Data(b)
         /\ Published' = Published
<1>1. pipe[a] \in Seq(Pieces) /\ buf[a] \in Seq(Pieces) /\ pipe'[a] = Append(pipe[a], p)
  BY DEF LogTypes
<1>2. pipe' \in [LogAgents -> Seq(Pieces)]
  BY <1>1 DEF LogTypes
<1>3. Data(a)' = Append(Data(a), p)
  <2>1. buf[a] \o Append(pipe[a], p) = Append(buf[a] \o pipe[a], p)
    BY <1>1, PieceAfter
  <2>2. buf'[a] = buf[a]
    OBVIOUS
  <2> QED
    BY <1>1, <2>1, <2>2 DEF Data
<1>4. \A b \in LogAgents : b # a => Data(b)' = Data(b)
  BY DEF Data, LogTypes
<1>5. Published' = Published
  BY DEF Published
<1>6. Data(a) \in Seq(Pieces)
  BY StreamTypes
<1> QED
  BY <1>2, <1>3, <1>4, <1>5, <1>6, AppendProperties

LEMMA BeginLineKeeps ==
  ASSUME LogsInv, NEW a \in LogAgents, BeginLine(a)
  PROVE  LogsInv'
<1> DEFINE n == Len(kind)
           p == Piece(n + 1, FALSE)
<1>1. LogTypes /\ FrontInv /\ \A b \in LogAgents : EndInv(b) /\ StreamInv(b) /\ NoneLost(b)
  BY DEF LogsInv
<1>2. n \in Nat /\ p \in Pieces /\ p.line = n + 1 /\ p.last = FALSE
  BY <1>1, StreamTypes DEF Piece, Pieces
<1>3. PICK k \in Kinds : kind' = Append(kind, k)
  BY DEF BeginLine
<1>4. /\ a \in alive /\ open[a] = 0
      /\ owner' = Append(owner, a)
      /\ open' = [open EXCEPT ![a] = n + 1]
      /\ pipe' = [pipe EXCEPT ![a] = Append(@, p)]
      /\ UNCHANGED <<whole, alive, buf, attached, minLevel, bus, logCh, shown, missed>>
  BY DEF BeginLine, followerVars
<1>5. /\ kind' \in Seq(Kinds) /\ owner' \in Seq(LogAgents)
      /\ Len(kind') = n + 1 /\ Len(owner') = n + 1
      /\ \A i \in 1..n : kind'[i] = kind[i] /\ owner'[i] = owner[i]
      /\ owner'[n + 1] = a
  BY <1>1, <1>3, <1>4, AppendProperties DEF LogTypes
<1>6. /\ pipe' \in [LogAgents -> Seq(Pieces)]
      /\ Data(a)' = Append(Data(a), p)
      /\ Len(Data(a)') = Len(Data(a)) + 1
      /\ Data(a)'[Len(Data(a)) + 1] = p
      /\ \A i \in 1..Len(Data(a)) : Data(a)'[i] = Data(a)[i]
      /\ \A b \in LogAgents : b # a => Data(b)' = Data(b)
      /\ Published' = Published
  BY <1>1, <1>2, <1>4, OneAppended
<1>7. LogTypes'
  <2>1. open' \in [LogAgents -> Nat]
    BY <1>1, <1>2, <1>4 DEF LogTypes
  <2>2. \A i \in 1..n : i \in 1..(n + 1)
    BY <1>2
  <2>3. whole' \subseteq 1..Len(kind')
    BY <1>1, <1>4, <1>5, <2>2 DEF LogTypes
  <2> HIDE DEF n, p
  <2> QED
    BY <1>1, <1>4, <1>5, <1>6, <2>1, <2>3 DEF LogTypes
<1>8. Data(a) \in Seq(Pieces) /\ Len(Data(a)) \in Nat /\ Len(Published) \in Nat
  BY <1>1, StreamTypes
<1> HIDE DEF n, p
<1>9. \A i \in whole : i \in 1..n /\ owner'[i] = owner[i] /\ kind'[i] = kind[i]
  BY <1>1, <1>5 DEF LogTypes, n
<1>10. \A b \in LogAgents : whole \intersect Due(b)' = whole \intersect Due(b)
  <2>1. \A i \in whole : i \in DOMAIN kind /\ i \in DOMAIN kind'
    BY <1>1, <1>2, <1>5, <1>7, <1>9 DEF LogTypes, n
  <2>2. \A i \in whole : Selected(i)' <=> Selected(i)
    BY <1>4, <1>9 DEF Selected, levelToInt
  <2> QED
    BY <1>9, <2>1, <2>2 DEF Due, Lines
<1>11. FrontInv'
  <2>1. \A i \in 1..Len(Published) : Published[i] \in whole
    BY <1>1 DEF FrontInv
  <2>2. ASSUME NEW i \in 1..Len(Published), NEW b \in LogAgents, NEW j \in 1..Len(Data(b)'),
               owner'[Published[i]] = b, Data(b)'[j].last
        PROVE  Published[i] < Data(b)'[j].line
    <3>1. j \in 1..Len(Data(b)) /\ Data(b)'[j] = Data(b)[j]
      <4>1. CASE b # a
        BY <1>6, <4>1
      <4>2. CASE b = a
        BY <1>2, <1>6, <1>8, <2>2, <4>2
      <4> QED
        BY <4>1, <4>2
    <3> QED
      BY <1>1, <1>9, <2>1, <2>2, <3>1 DEF FrontInv
  <2>3. \A i \in 1..Len(Published) : Published[i] \in whole \ missed /\ kind'[Published[i]] # "plain"
    BY <1>1, <1>9, <2>1 DEF FrontInv
  <2>4. \A i, j \in 1..Len(Published) :
          i < j /\ owner'[Published[i]] = owner'[Published[j]] => Published[i] < Published[j]
    BY <1>1, <1>9, <2>1 DEF FrontInv
  <2> QED
    BY <1>4, <1>6, <2>2, <2>3, <2>4 DEF FrontInv
<1>12. ASSUME NEW b \in LogAgents PROVE EndInv(b)' /\ StreamInv(b)' /\ NoneLost(b)'
  <2>1. CASE b # a
    <3>1. Data(b)' = Data(b) /\ open'[b] = open[b] /\ buf'[b] = buf[b]
      BY <1>1, <1>4, <1>6, <2>1 DEF LogTypes
    <3>2. \A i \in 1..n : i \in 1..Len(kind')
      BY <1>2, <1>5
    <3>3. EndInv(b)'
      <4>1. EndInv(b)
        BY <1>1
      <4>2. open[b] \in 1..n => open[b] \in 1..Len(kind') /\ owner'[open[b]] = owner[open[b]]
        BY <1>5, <3>2
      <4> QED
        BY <1>4, <1>9, <3>1, <4>1, <4>2 DEF EndInv, n
    <3>4. StreamInv(b)'
      <4>1. StreamInv(b)
        BY <1>1
      <4>2. \A i \in 1..n : i \in 1..Len(kind') /\ owner'[i] = owner[i]
        BY <1>5, <3>2
      <4>3. Paired(Data(b))'
        BY <3>1, <4>1 DEF StreamInv, Paired
      <4> QED
        BY <1>4, <3>1, <4>1, <4>2, <4>3 DEF StreamInv, n
    <3>5. NoneLost(b)'
      <4>1. (whole' \ missed') \intersect Due(b)' = (whole \ missed) \intersect Due(b)
        BY <1>4, <1>10
      <4>2. NoneLost(b)
        BY <1>1
      <4> QED
        BY <1>6, <3>1, <4>1, <4>2 DEF NoneLost
    <3> QED
      BY <3>3, <3>4, <3>5
  <2>2. CASE b = a
    <3>1. \A i \in 1..Len(Data(a)') : i = Len(Data(a)) + 1 \/ i \in 1..Len(Data(a))
      BY <1>6, <1>8
    <3>2. open'[a] = n + 1 /\ n + 1 # 0
      BY <1>1, <1>2, <1>4 DEF LogTypes
    <3>3. EndInv(a)'
      <4>1. \A i \in whole : i < n + 1
        BY <1>2, <1>9
      <4>2. n + 1 \in 1..Len(kind') /\ owner'[n + 1] = a
        BY <1>2, <1>5
      <4>3. Len(Data(a)') > 0 /\ Data(a)'[Len(Data(a)')] = p
        BY <1>6, <1>8
      <4> QED
        BY <1>4, <3>2, <4>1, <4>2, <4>3 DEF EndInv, p
    <3>4. Paired(Data(a))'
      <4>1. Len(Data(a)) = 0 \/ Data(a)[Len(Data(a))].last
        BY <1>1, <1>4 DEF EndInv
      <4>2. Paired(Append(Data(a), p))
        BY <1>1, <1>2, <1>8, <4>1, PairedGrows DEF StreamInv
      <4> QED
        BY <1>6, <4>2 DEF Paired
    <3>5. StreamInv(a)'
      <4>1. \A i \in 1..Len(Data(a)') :
              Data(a)'[i].last => i \in 1..Len(Data(a)) /\ Data(a)'[i] = Data(a)[i]
        BY <1>2, <1>6, <3>1
      <4>2. ASSUME NEW i \in 1..Len(Data(a)')
            PROVE  Data(a)'[i].line \in 1..Len(kind') /\ owner'[Data(a)'[i].line] = a
        <5>1. CASE i = Len(Data(a)) + 1
          BY <1>2, <1>5, <1>6, <5>1
        <5>2. CASE i \in 1..Len(Data(a))
          <6>1. Data(a)[i].line \in 1..n /\ owner[Data(a)[i].line] = a
            BY <1>1, <5>2 DEF StreamInv, n
          <6>2. \A h \in 1..n : h \in 1..Len(kind')
            BY <1>2, <1>5
          <6> QED
            BY <1>5, <1>6, <5>2, <6>1, <6>2
        <5> QED
          BY <3>1, <5>1, <5>2
      <4>3. \A i \in 1..Len(buf'[a]) : ~buf'[a][i].last
        BY <1>1, <1>4 DEF StreamInv
      <4>4. \A i \in 1..Len(Data(a)') : Data(a)'[i].last => Data(a)'[i].line \in whole' \ missed'
        BY <1>1, <1>4, <4>1 DEF StreamInv
      <4>5. \A i, j \in 1..Len(Data(a)') :
              i < j /\ Data(a)'[i].last /\ Data(a)'[j].last => Data(a)'[i].line < Data(a)'[j].line
        BY <1>1, <4>1 DEF StreamInv
      <4> QED
        BY <3>4, <4>2, <4>3, <4>4, <4>5 DEF StreamInv
    <3>6. NoneLost(a)'
      <4>1. \A i \in 1..Len(Data(a)) : i \in 1..Len(Data(a)')
        BY <1>6, <1>8
      <4> QED
        BY <1>1, <1>4, <1>6, <1>10, <4>1 DEF NoneLost
    <3> QED
      BY <2>2, <3>3, <3>5, <3>6
  <2> QED
    BY <2>1, <2>2
<1> QED
  BY <1>7, <1>11, <1>12 DEF LogsInv

LEMMA EndLineKeeps ==
  ASSUME LogsInv, NEW a \in LogAgents, EndLine(a)
  PROVE  LogsInv'
<1> DEFINE m == open[a]
           p == Piece(m, TRUE)
<1>1. LogTypes /\ FrontInv /\ \A b \in LogAgents : EndInv(b) /\ StreamInv(b) /\ NoneLost(b)
  BY DEF LogsInv
<1>2. /\ a \in alive /\ m # 0 /\ m \in 1..Len(kind) /\ owner[m] = a
      /\ \A i \in whole : owner[i] = a => i < m
      /\ Len(Data(a)) > 0 /\ Data(a)[Len(Data(a))] = Piece(m, FALSE)
  BY <1>1 DEF EndLine, EndInv
<1>3. /\ pipe' = [pipe EXCEPT ![a] = Append(@, p)]
      /\ open' = [open EXCEPT ![a] = 0]
      /\ whole' = whole \union {m}
      /\ UNCHANGED <<kind, owner, alive, buf, attached, minLevel, bus, logCh, shown, missed>>
  BY DEF EndLine, followerVars
<1>4. p \in Pieces /\ p.line = m /\ p.last = TRUE
  BY <1>1, <1>2, StreamTypes DEF Piece, Pieces
<1>5. /\ pipe' \in [LogAgents -> Seq(Pieces)]
      /\ Data(a)' = Append(Data(a), p)
      /\ Len(Data(a)') = Len(Data(a)) + 1
      /\ Data(a)'[Len(Data(a)) + 1] = p
      /\ \A i \in 1..Len(Data(a)) : Data(a)'[i] = Data(a)[i]
      /\ \A b \in LogAgents : b # a => Data(b)' = Data(b)
      /\ Published' = Published
  BY <1>1, <1>3, <1>4, OneAppended
<1>6. Data(a) \in Seq(Pieces) /\ Len(Data(a)) \in Nat /\ Len(Published) \in Nat
  BY <1>1, StreamTypes
<1>7. m \in Int /\ m \notin whole
  BY <1>1, <1>2 DEF LogTypes
<1> HIDE DEF m, p
<1>8. LogTypes'
  <2>1. open' \in [LogAgents -> Nat]
    BY <1>1, <1>3 DEF LogTypes
  <2> QED
    BY <1>1, <1>2, <1>3, <1>5, <2>1 DEF LogTypes
<1>9. \A i \in 1..Len(Data(a)') : i = Len(Data(a)) + 1 \/ i \in 1..Len(Data(a))
  BY <1>5, <1>6
<1>10. \A b \in LogAgents : Due(b)' = Due(b)
  BY <1>3 DEF Due, Lines, Selected
<1>11. \A i \in 1..Len(Published) : Published[i] \in whole \ missed
  BY <1>1 DEF FrontInv
<1>12. FrontInv'
  <2>1. ASSUME NEW i \in 1..Len(Published), NEW b \in LogAgents, NEW j \in 1..Len(Data(b)'),
               owner[Published[i]] = b, Data(b)'[j].last
        PROVE  Published[i] < Data(b)'[j].line
    <3>1. CASE b # a
      BY <1>1, <1>5, <2>1, <3>1 DEF FrontInv
    <3>2. CASE b = a /\ j \in 1..Len(Data(a))
      <4>1. Data(a)'[j] = Data(a)[j] /\ Data(a)[j].last /\ owner[Published[i]] = a
        BY <1>5, <2>1, <3>2
      <4>2. Published[i] < Data(a)[j].line
        BY <1>1, <3>2, <4>1 DEF FrontInv
      <4> QED
        BY <3>2, <4>1, <4>2
    <3>3. CASE b = a /\ j = Len(Data(a)) + 1
      BY <1>2, <1>4, <1>5, <1>11, <2>1, <3>3
    <3> QED
      BY <1>9, <3>1, <3>2, <3>3
  <2> QED
    BY <1>1, <1>3, <1>5, <1>11, <2>1 DEF FrontInv
<1>13. ASSUME NEW b \in LogAgents PROVE EndInv(b)' /\ StreamInv(b)' /\ NoneLost(b)'
  <2>1. CASE b # a
    <3>1. Data(b)' = Data(b) /\ open'[b] = open[b] /\ buf'[b] = buf[b]
      BY <1>1, <1>3, <1>5, <2>1 DEF LogTypes
    <3>2. EndInv(b) /\ StreamInv(b) /\ NoneLost(b)
      BY <1>1
    <3>3. EndInv(b)'
      BY <1>2, <1>3, <2>1, <3>1, <3>2 DEF EndInv
    <3>4. StreamInv(b)'
      <4>1. Paired(Data(b))'
        BY <3>1, <3>2 DEF StreamInv, Paired
      <4> QED
        BY <1>3, <3>1, <3>2, <4>1 DEF StreamInv
    <3>5. NoneLost(b)'
      <4>1. m \notin Due(b)
        BY <1>2, <2>1 DEF Due
      <4> QED
        BY <1>3, <1>5, <1>10, <3>1, <3>2, <4>1 DEF NoneLost
    <3> QED
      BY <3>3, <3>4, <3>5
  <2>2. CASE b = a
    <3>1. open'[a] = 0
      BY <1>1, <1>3 DEF LogTypes
    <3>2. EndInv(a)'
      BY <1>3, <1>4, <1>5, <1>6, <3>1 DEF EndInv
    <3>3. Paired(Data(a))'
      <4>1. Paired(Append(Data(a), p))
        BY <1>1, <1>2, <1>4, <1>6, PairedGrows DEF StreamInv, Piece
      <4> QED
        BY <1>5, <4>1 DEF Paired
    <3>4. ASSUME NEW i \in 1..Len(Data(a)')
          PROVE  /\ Data(a)'[i].line \in 1..Len(kind) /\ owner[Data(a)'[i].line] = a
                 /\ Data(a)'[i].last => Data(a)'[i].line \in whole' \ missed
      <4>1. CASE i = Len(Data(a)) + 1
        BY <1>1, <1>2, <1>3, <1>4, <1>5, <1>7, <4>1 DEF LogTypes
      <4>2. CASE i \in 1..Len(Data(a))
        BY <1>1, <1>3, <1>5, <4>2 DEF StreamInv
      <4> QED
        BY <1>9, <4>1, <4>2
    <3>5. ASSUME NEW i \in 1..Len(Data(a)'), NEW j \in 1..Len(Data(a)'),
                 i < j, Data(a)'[i].last, Data(a)'[j].last
          PROVE  Data(a)'[i].line < Data(a)'[j].line
      <4>1. i \in 1..Len(Data(a))
        BY <1>5, <1>6, <3>5
      <4>2. CASE j = Len(Data(a)) + 1
        <5>1. Data(a)[i].line \in whole /\ owner[Data(a)[i].line] = a
          BY <1>1, <1>5, <3>5, <4>1 DEF StreamInv
        <5> QED
          BY <1>2, <1>4, <1>5, <4>1, <4>2, <5>1
      <4>3. CASE j \in 1..Len(Data(a))
        BY <1>1, <1>5, <3>5, <4>1, <4>3 DEF StreamInv
      <4> QED
        BY <1>9, <4>2, <4>3
    <3>6. \A i \in 1..Len(buf'[a]) : ~buf'[a][i].last
      BY <1>1, <1>3 DEF StreamInv
    <3>7. StreamInv(a)'
      BY <1>3, <3>3, <3>4, <3>5, <3>6 DEF StreamInv
    <3>8. NoneLost(a)'
      <4>1. \A i \in 1..Len(Data(a)) : i \in 1..Len(Data(a)')
        BY <1>5, <1>6
      <4>2. Len(Data(a)) + 1 \in 1..Len(Data(a)')
        BY <1>5, <1>6
      <4> QED
        BY <1>1, <1>3, <1>4, <1>5, <1>10, <4>1, <4>2 DEF NoneLost
    <3> QED
      BY <2>2, <3>2, <3>7, <3>8
  <2> QED
    BY <2>1, <2>2
<1> QED
  BY <1>8, <1>12, <1>13 DEF LogsInv

\* An agent that dies leaves its stream as it is.
LEMMA AgentExitsKeeps ==
  ASSUME LogsInv, NEW a \in LogAgents, AgentExits(a)
  PROVE  LogsInv'
<1>1. LogTypes /\ FrontInv /\ \A b \in LogAgents : EndInv(b) /\ StreamInv(b) /\ NoneLost(b)
  BY DEF LogsInv
<1>2. /\ alive' = alive \ {a} /\ open' = [open EXCEPT ![a] = 0]
      /\ UNCHANGED <<kind, owner, whole, pipe, buf, minLevel, bus, logCh, shown, missed>>
  BY DEF AgentExits, followerVars
<1>3. LogTypes'
  BY <1>1, <1>2 DEF LogTypes
<1>4. Published' = Published /\ \A b \in LogAgents : Data(b)' = Data(b) /\ Due(b)' = Due(b)
  BY <1>2 DEF Published, Data, Due, Lines, Selected
<1>5. FrontInv'
  BY <1>1, <1>2, <1>4 DEF FrontInv
<1>6. ASSUME NEW b \in LogAgents PROVE EndInv(b)' /\ StreamInv(b)' /\ NoneLost(b)'
  <2>1. EndInv(b) /\ StreamInv(b) /\ NoneLost(b) /\ Data(b)' = Data(b) /\ Due(b)' = Due(b)
    BY <1>1, <1>4
  <2>2. b # a => open'[b] = open[b] /\ (b \in alive' <=> b \in alive)
    BY <1>1, <1>2 DEF LogTypes
  <2>3. b = a => open'[b] = 0 /\ b \notin alive'
    BY <1>1, <1>2 DEF LogTypes
  <2>4. EndInv(b)'
    BY <1>2, <2>1, <2>2, <2>3 DEF EndInv
  <2>5. Paired(Data(b))'
    BY <2>1 DEF StreamInv, Paired
  <2>6. StreamInv(b)' /\ NoneLost(b)'
    BY <1>2, <1>4, <2>1, <2>5 DEF StreamInv, NoneLost
  <2> QED
    BY <2>4, <2>6
<1> QED
  BY <1>3, <1>5, <1>6 DEF LogsInv

\* An agent that is started again has nothing of an old line in its way.
LEMMA RelaunchKeeps ==
  ASSUME LogsInv, NEW a \in LogAgents, Relaunch(a)
  PROVE  LogsInv'
<1>1. LogTypes /\ FrontInv /\ \A b \in LogAgents : EndInv(b) /\ StreamInv(b) /\ NoneLost(b)
  BY DEF LogsInv
<1>2. /\ a \notin alive /\ pipe[a] = <<>>
      /\ alive' = alive \union {a} /\ buf' = [buf EXCEPT ![a] = <<>>]
      /\ UNCHANGED <<kind, owner, open, whole, pipe, minLevel, bus, logCh, shown, missed>>
  BY DEF Relaunch, followerVars
<1>3. LogTypes'
  BY <1>1, <1>2 DEF LogTypes
<1>4. Published' = Published /\ \A b \in LogAgents : Due(b)' = Due(b)
  BY <1>2 DEF Published, Due, Lines, Selected
<1>5. \A b \in LogAgents : b # a => Data(b)' = Data(b) /\ buf'[b] = buf[b]
  BY <1>1, <1>2 DEF Data, LogTypes
<1>6. Data(a) = buf[a]
  BY <1>1, <1>2 DEF Data, LogTypes
<1>7. Len(Data(a)') = 0 /\ Len(buf'[a]) = 0
  BY <1>1, <1>2 DEF Data, LogTypes
<1>8. \A i \in 1..Len(Data(a)) : ~Data(a)[i].last
  BY <1>1, <1>6 DEF StreamInv
<1>9. FrontInv'
  <2>1. ASSUME NEW i \in 1..Len(Published), NEW b \in LogAgents, NEW j \in 1..Len(Data(b)'),
               owner[Published[i]] = b, Data(b)'[j].last
        PROVE  Published[i] < Data(b)'[j].line
    <3>1. b # a
      BY <1>7, <2>1
    <3> QED
      BY <1>1, <1>5, <2>1, <3>1 DEF FrontInv
  <2> QED
    BY <1>1, <1>2, <1>4, <2>1 DEF FrontInv
<1>10. ASSUME NEW b \in LogAgents PROVE EndInv(b)' /\ StreamInv(b)' /\ NoneLost(b)'
  <2>1. EndInv(b) /\ StreamInv(b) /\ NoneLost(b) /\ Due(b)' = Due(b)
    BY <1>1, <1>4
  <2>2. CASE b # a
    <3>1. Data(b)' = Data(b) /\ buf'[b] = buf[b] /\ (b \in alive' <=> b \in alive)
      BY <1>2, <1>5, <2>2
    <3>2. Paired(Data(b))'
      BY <2>1, <3>1 DEF StreamInv, Paired
    <3>3. EndInv(b)'
      BY <1>2, <2>1, <2>2, <3>1 DEF EndInv
    <3>4. StreamInv(b)'
      BY <1>2, <2>1, <3>1, <3>2 DEF StreamInv
    <3>5. NoneLost(b)'
      BY <1>2, <1>4, <2>1, <3>1 DEF NoneLost
    <3> QED
      BY <3>3, <3>4, <3>5
  <2>3. CASE b = a
    <3>1. open'[a] = 0
      BY <1>1, <1>2 DEF EndInv
    <3>2. EndInv(a)'
      BY <1>2, <1>7, <3>1 DEF EndInv
    <3>3. StreamInv(a)'
      BY <1>7 DEF StreamInv, Paired
    <3>4. NoneLost(a)'
      BY <1>1, <1>2, <1>4, <1>8 DEF NoneLost
    <3> QED
      BY <2>3, <3>2, <3>3, <3>4
  <2> QED
    BY <2>2, <2>3
<1> QED
  BY <1>3, <1>9, <1>10 DEF LogsInv

\* g is f, of length n, without the element at p.
IsWithout(g, f, p, n) ==
  /\ n \in Nat /\ p \in 1..n
  /\ Len(f) = n /\ Len(g) = n - 1
  /\ \A i \in 1..(n - 1) : i < p => g[i] = f[i]
  /\ \A i \in 1..(n - 1) : i >= p => g[i] = f[i + 1]

\* How to show it.
LEMMA WithoutIntro ==
  ASSUME NEW g, NEW f, NEW p, NEW n \in Nat, NEW k, k = n - 1,
         p \in 1..n, Len(f) = n, Len(g) = k,
         \A i \in 1..k : i < p => g[i] = f[i],
         \A i \in 1..k : i >= p => g[i] = f[i + 1]
  PROVE  IsWithout(g, f, p, n)
  BY DEF IsWithout

LEMMA TailIsWithout ==
  ASSUME NEW s \in Seq(Nat), NEW t \in Seq(Nat), t # <<>>
  PROVE  IsWithout(s \o Tail(t), s \o t, Len(s) + 1, Len(s) + Len(t))
<1>1. Len(s) \in Nat /\ Len(t) \in Nat /\ Len(t) > 0
  OBVIOUS
<1>2. /\ Tail(t) \in Seq(Nat) /\ Len(Tail(t)) = Len(t) - 1
      /\ \A i \in 1..(Len(t) - 1) : Tail(t)[i] = t[i + 1]
  BY HeadTailProperties
<1> DEFINE m == Len(s)
           n == Len(t)
           f == s \o t
           g == s \o Tail(t)
<1>3. /\ Len(f) = m + n
      /\ \A i \in 1..(m + n) : f[i] = IF i <= m THEN s[i] ELSE t[i - m]
  BY ConcatProperties
<1>4. /\ Len(g) = m + n - 1
      /\ \A i \in 1..(m + n - 1) : g[i] = IF i <= m THEN s[i] ELSE Tail(t)[i - m]
  BY <1>1, <1>2, ConcatProperties
<1>0. m \in Nat /\ n \in Nat
  BY <1>1
<1> HIDE DEF f, g, m, n
<1>5. ASSUME NEW i \in 1..(m + n - 1), i < m + 1 PROVE g[i] = f[i]
  <2>1. i <= m /\ i \in 1..(m + n)
    BY <1>1, <1>5 DEF m, n
  <2> QED
    BY <1>3, <1>4, <2>1
<1>6. ASSUME NEW i \in 1..(m + n - 1), i >= m + 1 PROVE g[i] = f[i + 1]
  <2>1. /\ i - m \in 1..(n - 1) /\ i - m + 1 = i + 1 - m /\ i + 1 \in 1..(m + n)
        /\ ~(i + 1 <= m) /\ ~(i <= m)
    BY <1>1, <1>6 DEF m, n
  <2>2. Tail(t)[i - m] = t[i + 1 - m]
    BY <1>2, <2>1 DEF n
  <2>3. g[i] = Tail(t)[i - m]
    BY <1>4, <2>1
  <2>4. \A k \in 1..(m + n) : ~(k <= m) => f[k] = t[k - m]
    BY <1>3
  <2>5. f[i + 1] = t[i + 1 - m]
    BY <1>0, <2>1, <2>4
  <2> QED
    BY <2>2, <2>3, <2>5
<1>7. m + 1 \in 1..(m + n) /\ m + n \in Nat
  BY <1>1 DEF m, n
<1>8. IsWithout(g, f, m + 1, m + n)
  <2>1. PICK k \in Nat, h \in Nat : k = m + n /\ h = m + n - 1 /\ h = k - 1
    BY <1>0, <1>7
  <2>2. m + 1 \in 1..k /\ Len(f) = k /\ Len(g) = h
    BY <1>3, <1>4, <1>7, <2>1
  <2>3. \A i \in 1..h : i < m + 1 => g[i] = f[i]
    BY <1>5, <2>1
  <2>4. \A i \in 1..h : i >= m + 1 => g[i] = f[i + 1]
    BY <1>6, <2>1
  <2>5. IsWithout(g, f, m + 1, k)
    BY <2>1, <2>2, <2>3, <2>4, WithoutIntro, Zenon
  <2> QED
    BY <2>1, <2>5
<1> QED
  BY <1>8 DEF f, g, m, n

LEMMA WithoutBefore ==
  ASSUME NEW g \in Seq(Nat), NEW f \in Seq(Nat), NEW u \in Seq(Nat), NEW p, NEW m,
         IsWithout(g, f, p, m)
  PROVE  IsWithout(g \o u, f \o u, p, m + Len(u))
<1> DEFINE n == Len(u)
           fu == f \o u
           gu == g \o u
<1>1. m \in Nat /\ n \in Nat /\ p \in 1..m /\ Len(g) = m - 1 /\ Len(f) = m
  BY DEF IsWithout
<1>2. Len(fu) = m + n /\ \A i \in 1..(m + n) : fu[i] = IF i <= m THEN f[i] ELSE u[i - m]
  <2>1. Len(fu) = Len(f) + n /\ \A i \in 1..(Len(f) + n) : fu[i] = IF i <= Len(f) THEN f[i] ELSE u[i - Len(f)]
    BY ConcatProperties
  <2> HIDE DEF n, fu
  <2> QED
    BY <1>1, <2>1
<1>4. Len(gu) = m + n - 1 /\ \A i \in 1..(m + n - 1) : gu[i] = IF i <= m - 1 THEN g[i] ELSE u[i - (m - 1)]
  <2>1. Len(gu) = Len(g) + n /\ \A i \in 1..(Len(g) + n) : gu[i] = IF i <= Len(g) THEN g[i] ELSE u[i - Len(g)]
    BY ConcatProperties
  <2>2. (m - 1) + n = m + n - 1
    BY <1>1
  <2> HIDE DEF n, gu
  <2> QED
    BY <1>1, <2>1, <2>2
<1> HIDE DEF n, fu, gu
<1>5. ASSUME NEW i \in 1..(m + n - 1), i <= m - 1
      PROVE  (i < p => gu[i] = fu[i]) /\ (i >= p => gu[i] = fu[i + 1])
  <2>1. i \in 1..(m - 1) /\ i \in 1..(m + n) /\ i <= m /\ i + 1 \in 1..(m + n) /\ i + 1 <= m
    BY <1>1, <1>5
  <2>2. (i < p => g[i] = f[i]) /\ (i >= p => g[i] = f[i + 1])
    BY <2>1 DEF IsWithout
  <2>3. gu[i] = g[i]
    BY <1>4, <1>5
  <2>4. \A k \in 1..(m + n) : k <= m => fu[k] = f[k]
    BY <1>2
  <2>5. fu[i] = f[i] /\ fu[i + 1] = f[i + 1]
    BY <2>1, <2>4
  <2> QED
    BY <2>2, <2>3, <2>5
<1>6. ASSUME NEW i \in 1..(m + n - 1), ~(i <= m - 1)
      PROVE  ~(i < p) /\ gu[i] = fu[i + 1]
  <2>1. ~(i < p) /\ i + 1 \in 1..(m + n) /\ ~(i + 1 <= m) /\ i + 1 - m = i - (m - 1)
    BY <1>1, <1>6
  <2>2. gu[i] = u[i - (m - 1)]
    BY <1>4, <1>6
  <2>3. \A k \in 1..(m + n) : ~(k <= m) => fu[k] = u[k - m]
    BY <1>2
  <2>4. fu[i + 1] = u[i + 1 - m]
    BY <1>1, <2>1, <2>3
  <2> QED
    BY <2>1, <2>2, <2>4
<1>7. p \in 1..(m + n) /\ m + n \in Nat
  BY <1>1
<1>8. \A i \in 1..(m + n - 1) : (i < p => gu[i] = fu[i]) /\ (i >= p => gu[i] = fu[i + 1])
  <2> SUFFICES ASSUME NEW i \in 1..(m + n - 1)
               PROVE  (i < p => gu[i] = fu[i]) /\ (i >= p => gu[i] = fu[i + 1])
    OBVIOUS
  <2> QED
    BY <1>5, <1>6
<1>9. IsWithout(gu, fu, p, m + n)
  <2>1. PICK k \in Nat, h \in Nat : k = m + n /\ h = m + n - 1 /\ h = k - 1
    BY <1>1, <1>7
  <2>2. p \in 1..k /\ Len(fu) = k /\ Len(gu) = h
    BY <1>2, <1>4, <1>7, <2>1
  <2>3. \A i \in 1..h : i < p => gu[i] = fu[i]
    BY <1>8, <2>1
  <2>4. \A i \in 1..h : i >= p => gu[i] = fu[i + 1]
    BY <1>8, <2>1
  <2>5. IsWithout(gu, fu, p, k)
    BY <2>1, <2>2, <2>3, <2>4, WithoutIntro, Zenon
  <2> QED
    BY <2>1, <2>5
<1> QED
  BY <1>9 DEF fu, gu, n

LEMMA MoveOne ==
  \A s, t \in Seq(Nat) : t # <<>> => Append(s, Head(t)) \o Tail(t) = s \o t
<1> SUFFICES ASSUME NEW s \in Seq(Nat), NEW t \in Seq(Nat), t # <<>>
             PROVE  Append(s, Head(t)) \o Tail(t) = s \o t
  OBVIOUS
<1> DEFINE h == Append(s, Head(t))
           g == h \o Tail(t)
           f == s \o t
           m == Len(s)
           n == Len(t)
<1>1. m \in Nat /\ n \in Nat /\ n > 0 /\ Head(t) \in Nat /\ Head(t) = t[1]
  OBVIOUS
<1>2. /\ Tail(t) \in Seq(Nat) /\ Len(Tail(t)) = n - 1
      /\ \A i \in 1..(n - 1) : Tail(t)[i] = t[i + 1]
  BY HeadTailProperties
<1>3. /\ h \in Seq(Nat) /\ Len(h) = m + 1 /\ h[m + 1] = t[1]
      /\ \A i \in 1..m : h[i] = s[i]
  BY <1>1, AppendProperties
<1>4. f \in Seq(Nat) /\ Len(f) = m + n /\ \A i \in 1..(m + n) : f[i] = IF i <= m THEN s[i] ELSE t[i - m]
  BY ConcatProperties
<1> HIDE DEF h, f
<1>5. /\ g \in Seq(Nat) /\ Len(g) = Len(h) + Len(Tail(t))
      /\ \A i \in 1..(Len(h) + Len(Tail(t))) : g[i] = IF i <= Len(h) THEN h[i] ELSE Tail(t)[i - Len(h)]
  BY <1>2, <1>3, ConcatProperties
<1> HIDE DEF g, m, n
<1>6. g \in Seq(Nat) /\ Len(g) = m + n
      /\ \A i \in 1..(m + n) : g[i] = IF i <= m + 1 THEN h[i] ELSE Tail(t)[i - (m + 1)]
  <2>1. (m + 1) + (n - 1) = m + n
    BY <1>1
  <2>2. Len(h) + Len(Tail(t)) = m + n
    BY <1>2, <1>3, <2>1, Zenon
  <2> QED
    BY <1>3, <1>5, <2>2, Zenon
<1>7. ASSUME NEW i \in 1..(m + n) PROVE g[i] = f[i]
  <2>1. CASE i <= m
    <3>1. i \in 1..m /\ i <= m + 1
      BY <1>1, <2>1
    <3>2. h[i] = s[i]
      BY <1>3, <3>1
    <3>3. g[i] = h[i]
      BY <1>6, <3>1
    <3>4. f[i] = s[i]
      BY <1>4, <2>1
    <3> QED
      BY <3>2, <3>3, <3>4
  <2>2. CASE i = m + 1
    <3>1. i - m = 1 /\ ~(i <= m)
      BY <1>1, <2>2
    <3> QED
      BY <1>3, <1>4, <1>6, <2>2, <3>1
  <2>3. CASE i > m + 1
    <3>1. i - (m + 1) \in 1..(n - 1) /\ i - (m + 1) + 1 = i - m
      BY <1>1, <2>3
    <3>2. Tail(t)[i - (m + 1)] = t[i - m]
      BY <1>2, <3>1
    <3>3. ~(i <= m + 1) /\ ~(i <= m)
      BY <1>1, <2>3
    <3>4. g[i] = Tail(t)[i - (m + 1)] /\ f[i] = t[i - m]
      BY <1>4, <1>6, <3>3, Zenon
    <3> QED
      BY <3>2, <3>4
  <2> QED
    BY <1>1, <2>1, <2>2, <2>3
<1>8. g = f
  BY <1>4, <1>6, <1>7, SeqEqual
<1> QED
  BY <1>8 DEF g, f, h

\* A step that leaves the published lines together and the streams alone.
LEMMA SameLinesKeep ==
  ASSUME LogsInv, LogTypes', Published' = Published,
         UNCHANGED <<kind, owner, open, whole, alive, pipe, buf, minLevel, missed>>
  PROVE  LogsInv'
<1>1. FrontInv /\ \A b \in LogAgents : EndInv(b) /\ StreamInv(b) /\ NoneLost(b)
  BY DEF LogsInv
<1>2. \A b \in LogAgents : Data(b)' = Data(b) /\ Due(b)' = Due(b)
  BY DEF Data, Due, Lines, Selected
<1>3. FrontInv'
  BY <1>1, <1>2 DEF FrontInv
<1>4. ASSUME NEW b \in LogAgents PROVE EndInv(b)' /\ StreamInv(b)' /\ NoneLost(b)'
  <2>1. EndInv(b) /\ StreamInv(b) /\ NoneLost(b) /\ Data(b)' = Data(b) /\ Due(b)' = Due(b)
    BY <1>1, <1>2
  <2>2. EndInv(b)'
    BY <2>1 DEF EndInv
  <2>3. Paired(Data(b))'
    BY <2>1 DEF StreamInv, Paired
  <2>4. StreamInv(b)' /\ NoneLost(b)'
    BY <2>1, <2>3 DEF StreamInv, NoneLost
  <2> QED
    BY <2>2, <2>4
<1> QED
  BY <1>3, <1>4 DEF LogsInv

\* A step that takes one of the published lines away: it found the channel full, or
\* it is below the level.
LEMMA OneLineLess ==
  ASSUME LogsInv, LogTypes', NEW p, NEW n, IsWithout(Published', Published, p, n),
         UNCHANGED <<kind, owner, open, whole, alive, pipe, buf, minLevel>>,
         \/ missed' = missed \union {Published[p]}
         \/ missed' = missed /\ ~Selected(Published[p])
  PROVE  LogsInv'
<1> DEFINE x == Published[p]
<1>1. LogTypes /\ FrontInv /\ \A b \in LogAgents : EndInv(b) /\ StreamInv(b) /\ NoneLost(b)
  BY DEF LogsInv
<1>2. \A b \in LogAgents : Data(b)' = Data(b) /\ Due(b)' = Due(b)
  BY DEF Data, Due, Lines, Selected
<1>3. n \in Nat /\ p \in 1..n /\ Len(Published) = n /\ Len(Published') = n - 1
  BY DEF IsWithout
<1>4. ASSUME NEW i \in 1..(n - 1)
      PROVE  \E k \in 1..n : /\ Published'[i] = Published[k] /\ k # p
                             /\ k = IF i < p THEN i ELSE i + 1
  <2>1. i \in 1..n /\ i + 1 \in 1..n
    BY <1>3
  <2>2. CASE i < p
    BY <1>3, <2>1, <2>2 DEF IsWithout
  <2>3. CASE i >= p
    BY <1>3, <2>1, <2>3 DEF IsWithout
  <2> QED
    BY <1>3, <2>2, <2>3
<1>5. \A i \in 1..n : Published[i] \in whole \ missed /\ kind[Published[i]] # "plain"
  BY <1>1, <1>3 DEF FrontInv
<1>6. \A i, j \in 1..n : i < j /\ owner[Published[i]] = owner[Published[j]] => Published[i] < Published[j]
  BY <1>1, <1>3 DEF FrontInv
<1>7. whole \subseteq Int /\ x \in whole
  BY <1>1, <1>3, <1>5, StreamTypes DEF LogTypes
<1>8. \A i \in 1..n : i # p => Published[i] # x
  <2> SUFFICES ASSUME NEW i \in 1..n, i # p, Published[i] = x PROVE FALSE
    OBVIOUS
  <2>1. Published[p] < Published[i] \/ Published[i] < Published[p]
    <3>1. i < p \/ p < i
      BY <1>3
    <3>2. owner[Published[i]] = owner[Published[p]]
      OBVIOUS
    <3> QED
      BY <1>3, <1>6, <3>1, <3>2
  <2>2. x < x /\ x \in Int
    BY <1>7, <2>1
  <2> HIDE DEF x
  <2> QED
    BY <2>2
<1>9. missed' \subseteq missed \union {x}
  OBVIOUS
<1>10. ASSUME NEW b \in LogAgents, NEW j \in 1..Len(Data(b)), Data(b)[j].last
       PROVE  Data(b)[j].line \in whole \ missed'
  <2>1. Data(b)[j].line \in whole \ missed /\ owner[Data(b)[j].line] = b
    BY <1>1, <1>10 DEF StreamInv
  <2>2. owner[x] = b => x < Data(b)[j].line
    BY <1>1, <1>3, <1>10 DEF FrontInv
  <2>3. x \in Int
    BY <1>7
  <2> HIDE DEF x
  <2>4. Data(b)[j].line # x
    BY <2>1, <2>2, <2>3
  <2> QED
    BY <1>9, <2>1, <2>4
<1>11. FrontInv'
  <2>1. ASSUME NEW i \in 1..(n - 1)
        PROVE  Published'[i] \in whole \ missed' /\ kind[Published'[i]] # "plain"
    <3>1. PICK k \in 1..n : Published'[i] = Published[k] /\ k # p
      BY <1>4
    <3> QED
      BY <1>5, <1>8, <1>9, <3>1
  <2>2. ASSUME NEW i \in 1..(n - 1), NEW j \in 1..(n - 1), i < j,
               owner[Published'[i]] = owner[Published'[j]]
        PROVE  Published'[i] < Published'[j]
    <3>1. PICK k \in 1..n : Published'[i] = Published[k] /\ k = IF i < p THEN i ELSE i + 1
      BY <1>4
    <3>2. PICK h \in 1..n : Published'[j] = Published[h] /\ h = IF j < p THEN j ELSE j + 1
      BY <1>4
    <3>3. k < h
      BY <1>3, <2>2, <3>1, <3>2
    <3> QED
      BY <1>6, <2>2, <3>1, <3>2, <3>3
  <2>3. ASSUME NEW i \in 1..(n - 1), NEW b \in LogAgents, NEW j \in 1..Len(Data(b)),
               owner[Published'[i]] = b, Data(b)[j].last
        PROVE  Published'[i] < Data(b)[j].line
    <3>1. PICK k \in 1..n : Published'[i] = Published[k]
      BY <1>4
    <3> QED
      BY <1>1, <1>3, <2>3, <3>1 DEF FrontInv
  <2> QED
    BY <1>2, <1>3, <2>1, <2>2, <2>3 DEF FrontInv
<1>12. ASSUME NEW b \in LogAgents PROVE EndInv(b)' /\ StreamInv(b)' /\ NoneLost(b)'
  <2>1. EndInv(b) /\ StreamInv(b) /\ NoneLost(b) /\ Data(b)' = Data(b) /\ Due(b)' = Due(b)
    BY <1>1, <1>2
  <2>2. EndInv(b)'
    BY <2>1 DEF EndInv
  <2>3. Paired(Data(b))'
    BY <2>1 DEF StreamInv, Paired
  <2>4. \A i \in 1..Len(Data(b)) : Data(b)[i].last => Data(b)[i].line \in whole \ missed'
    BY <1>10
  <2>5. StreamInv(b)'
    BY <2>1, <2>3, <2>4 DEF StreamInv
  <2>6. NoneLost(b)'
    <3>1. ASSUME NEW m \in (whole \ missed') \intersect Due(b)
          PROVE  \/ \E i \in 1..(n - 1) : Published'[i] = m
                 \/ \E i \in 1..Len(Data(b)) : Data(b)[i].last /\ Data(b)[i].line = m
      <4>1. m # x /\ m \in (whole \ missed) \intersect Due(b)
        BY <3>1 DEF Due
      <4>2. CASE \E i \in 1..n : Published[i] = m
        <5>1. PICK i \in 1..n : Published[i] = m
          BY <4>2
        <5>2. i # p
          BY <4>1, <5>1
        <5>3. CASE i < p
          <6>1. i \in 1..(n - 1)
            BY <1>3, <5>3
          <6> QED
            BY <1>3, <5>1, <5>3, <6>1 DEF IsWithout
        <5>4. CASE i > p
          <6>1. i - 1 \in 1..(n - 1) /\ i - 1 >= p /\ (i - 1) + 1 = i
            BY <1>3, <5>4
          <6>2. Published'[i - 1] = Published[(i - 1) + 1]
            BY <6>1 DEF IsWithout
          <6> QED
            BY <5>1, <6>1, <6>2
        <5> QED
          BY <1>3, <5>2, <5>3, <5>4
      <4> QED
        BY <1>3, <2>1, <4>1, <4>2 DEF NoneLost
    <3> QED
      BY <1>3, <2>1, <3>1 DEF NoneLost
  <2> QED
    BY <2>2, <2>5, <2>6
<1> QED
  BY <1>11, <1>12 DEF LogsInv

LEMMA SubscribeKeeps == ASSUME LogsInv, Subscribe PROVE LogsInv'
<1>1. UNCHANGED <<agentVars, minLevel, bus, logCh, shown, missed>>
  BY DEF Subscribe
<1>2. Published' = Published
  BY <1>1 DEF Published
<1>3. LogTypes'
  BY <1>1 DEF LogsInv, LogTypes, agentVars
<1> QED
  BY <1>1, <1>2, <1>3, SameLinesKeep DEF agentVars

\* What the subscription's handler takes in, or drops.
LEMMA ReceiveKeeps == ASSUME LogsInv, Receive PROVE LogsInv'
<1>1. LogTypes
  BY DEF LogsInv
<1>2. /\ bus # <<>> /\ bus' = Tail(bus)
      /\ UNCHANGED <<kind, owner, open, whole, alive, pipe, buf, minLevel, shown>>
  BY DEF Receive, agentVars
<1>3. /\ shown \in Seq(Nat) /\ logCh \in Seq(Nat) /\ bus \in Seq(Nat) /\ Head(bus) \in Nat
      /\ Tail(bus) \in Seq(Nat)
  BY <1>1, <1>2 DEF LogTypes
<1>4. CASE logCh' = Append(logCh, Head(bus)) /\ UNCHANGED missed
  <2>1. LogTypes'
    <3>1. Append(logCh, Head(bus)) \in Seq(Nat)
      BY <1>3
    <3> QED
      BY <1>1, <1>2, <1>3, <1>4, <3>1, Zenon DEF LogTypes
  <2>2. Published' = Published
    <3>1. shown \o Append(logCh, Head(bus)) = Append(shown \o logCh, Head(bus))
      BY <1>3, NumberAfter
    <3>2. shown \o logCh \in Seq(Nat)
      BY <1>3
    <3>3. Append(shown \o logCh, Head(bus)) \o Tail(bus) = (shown \o logCh) \o bus
      BY <1>2, <1>3, <3>2, MoveOne
    <3> QED
      BY <1>2, <1>4, <3>1, <3>3 DEF Published
  <2> QED
    BY <1>2, <1>4, <2>1, <2>2, SameLinesKeep
<1>5. CASE missed' = missed \union {Head(bus)} /\ UNCHANGED logCh
  <2> DEFINE s == shown \o logCh
             p == Len(s) + 1
  <2>1. s \in Seq(Nat) /\ Len(s) \in Nat /\ Len(bus) \in Nat /\ Len(bus) > 0
    BY <1>2, <1>3
  <2>2. IsWithout(s \o Tail(bus), s \o bus, p, Len(s) + Len(bus))
    BY <1>2, <1>3, <2>1, TailIsWithout
  <2>3. Published' = s \o Tail(bus) /\ Published = s \o bus
    BY <1>2, <1>5 DEF Published
  <2>4. Published[p] = Head(bus)
    <3>1. Head(bus) = bus[1]
      OBVIOUS
    <3> HIDE DEF s
    <3>2. (s \o bus)[Len(s) + 1] = bus[1]
      <4>1. Len(s) + 1 \in 1..(Len(s) + Len(bus)) /\ ~(Len(s) + 1 <= Len(s)) /\ Len(s) + 1 - Len(s) = 1
        BY <2>1
      <4> QED
        BY <1>3, <2>1, <4>1, ConcatProperties
    <3> QED
      BY <2>3, <3>1, <3>2
  <2>5. Head(bus) \in whole
    <3>1. p \in 1..Len(Published)
      <4> HIDE DEF s
      <4> QED
        BY <2>1, <2>2, <2>3 DEF IsWithout
    <3> QED
      BY <2>4, <3>1 DEF LogsInv, FrontInv
  <2>6. LogTypes'
    BY <1>1, <1>2, <1>3, <1>5, <2>5 DEF LogTypes
  <2> HIDE DEF s, p
  <2> QED
    BY <1>2, <1>5, <2>2, <2>3, <2>4, <2>6, OneLineLess
<1> QED
  BY <1>4, <1>5 DEF Receive

\* What the command prints, or leaves out.
LEMMA printLogEntryKeeps == ASSUME LogsInv, printLogEntry PROVE LogsInv'
<1>1. LogTypes
  BY DEF LogsInv
<1>2. /\ logCh # <<>> /\ logCh' = Tail(logCh)
      /\ UNCHANGED <<kind, owner, open, whole, alive, pipe, buf, minLevel, bus, missed>>
  BY DEF printLogEntry, agentVars
<1>3. /\ shown \in Seq(Nat) /\ logCh \in Seq(Nat) /\ bus \in Seq(Nat) /\ Head(logCh) \in Nat
      /\ Tail(logCh) \in Seq(Nat)
  BY <1>1, <1>2 DEF LogTypes
<1>4. CASE Selected(Head(logCh))
  <2>1. shown' = Append(shown, Head(logCh))
    BY <1>4 DEF printLogEntry
  <2>2. LogTypes'
    <3>1. Append(shown, Head(logCh)) \in Seq(Nat)
      BY <1>3
    <3> QED
      BY <1>1, <1>2, <1>3, <2>1, <3>1, Zenon DEF LogTypes
  <2>3. Published' = Published
    BY <1>2, <1>3, <2>1, MoveOne DEF Published
  <2> QED
    BY <1>2, <2>2, <2>3, SameLinesKeep
<1>5. CASE ~Selected(Head(logCh))
  <2>1. shown' = shown
    BY <1>5 DEF printLogEntry
  <2>2. LogTypes'
    BY <1>1, <1>2, <1>3, <2>1 DEF LogTypes
  <2> DEFINE f == shown \o logCh
             g == shown \o Tail(logCh)
             p == Len(shown) + 1
             m == Len(shown) + Len(logCh)
  <2>3. f \in Seq(Nat) /\ g \in Seq(Nat) /\ Len(shown) \in Nat /\ Len(logCh) \in Nat /\ Len(logCh) > 0
    BY <1>2, <1>3
  <2>4. IsWithout(g, f, p, m)
    BY <1>2, <1>3, TailIsWithout
  <2>5. Published' = g \o bus /\ Published = f \o bus
    BY <1>2, <2>1 DEF Published
  <2>6. IsWithout(g \o bus, f \o bus, p, m + Len(bus))
    <3> HIDE DEF f, g, p, m
    <3> QED
      BY <1>3, <2>3, <2>4, WithoutBefore
  <2>7. Published[p] = Head(logCh)
    <3>1. Head(logCh) = logCh[1]
      OBVIOUS
    <3>2. f[Len(shown) + 1] = logCh[1]
      <4>1. /\ Len(shown) + 1 \in 1..(Len(shown) + Len(logCh)) /\ ~(Len(shown) + 1 <= Len(shown))
            /\ Len(shown) + 1 - Len(shown) = 1
        BY <2>3
      <4> QED
        BY <1>3, <2>3, <4>1, ConcatProperties
    <3>3. p \in 1..Len(f) /\ Len(f) \in Nat
      <4> HIDE DEF f, g, p, m
      <4> QED
        BY <2>3, <2>4 DEF IsWithout
    <3> HIDE DEF f, g, m
    <3>4. (f \o bus)[p] = f[p]
      <4>1. p \in 1..(Len(f) + Len(bus)) /\ p <= Len(f)
        BY <1>3, <3>3
      <4> HIDE DEF p
      <4> QED
        BY <1>3, <2>3, <4>1, ConcatProperties
    <3> QED
      BY <2>5, <3>1, <3>2, <3>4
  <2> HIDE DEF f, g, p, m
  <2> QED
    BY <1>2, <1>5, <2>2, <2>5, <2>6, <2>7, OneLineLess
<1> QED
  BY <1>4, <1>5

\* The greatest of some numbers up to m.
LEMMA MaxOf ==
  ASSUME NEW m \in Nat, NEW T, T \subseteq 0..m, 0 \in T
  PROVE  Max(T) \in T /\ \A y \in T : y <= Max(T)
<1> DEFINE U == {n \in 0..m : m - n \in T}
<1>1. U \subseteq Nat /\ U # {}
  <2>1. m \in U
    OBVIOUS
  <2> QED
    BY <2>1
<1>2. PICK n \in U : \A k \in U : n <= k
  BY <1>1, Least
<1>3. m - n \in T /\ \A y \in T : m - n >= y
  <2>1. ASSUME NEW y \in T PROVE m - n >= y
    <3>1. y \in Nat /\ m - y \in 0..m /\ m - (m - y) = y
      OBVIOUS
    <3>2. n <= m - y
      BY <1>2, <3>1
    <3> QED
      BY <1>2, <3>1, <3>2
  <2> QED
    BY <1>2, <2>1
<1> HIDE DEF U
<1>4. \E x \in T : \A y \in T : x >= y
  BY <1>3
<1>5. Max(T) \in T /\ \A y \in T : Max(T) >= y
  BY <1>4, Zenon DEF Max
<1> QED
  BY <1>5

\* What follows the last newline: nothing of it ends a line.
LEMMA RestFacts ==
  ASSUME NEW w \in Seq(Pieces)
  PROVE  \E k \in 0..Len(w) :
           /\ k = 0 \/ w[k].last
           /\ Rest(w) \in Seq(Pieces) /\ Len(Rest(w)) = Len(w) - k
           /\ \A i \in 1..(Len(w) - k) : Rest(w)[i] = w[k + i] /\ ~Rest(w)[i].last
<1> DEFINE T == {0} \union Newlines(w)
           k == Max(T)
           n == Len(w)
<1>1. n \in Nat
  OBVIOUS
<1>2. T \subseteq 0..n /\ 0 \in T
  BY DEF Newlines
<1>3. k \in T /\ \A y \in T : y <= k
  <2> HIDE DEF T, n
  <2> QED
    BY <1>1, <1>2, MaxOf
<1>4. Rest(w) = SubSeq(w, k + 1, n)
  BY DEF Rest
<1> HIDE DEF k
<1>5. k \in 0..n /\ (k = 0 \/ w[k].last)
  BY <1>3 DEF Newlines
<1>6. ASSUME NEW i \in (k + 1)..n PROVE w[i] \in Pieces /\ ~w[i].last
  <2>1. i \in 1..n /\ ~(i <= k)
    BY <1>5
  <2>2. i \notin Newlines(w)
    BY <1>3, <2>1
  <2> QED
    BY <2>1, <2>2 DEF Newlines
<1> HIDE DEF n, T
<1>7. /\ Rest(w) \in Seq(Pieces)
      /\ Len(Rest(w)) = IF k + 1 <= n THEN n - (k + 1) + 1 ELSE 0
      /\ \A i \in 1..(n - (k + 1) + 1) : Rest(w)[i] = w[k + 1 + i - 1]
  <2>1. k + 1 \in Int /\ n \in Int
    BY <1>1, <1>5
  <2> QED
    BY <1>4, <1>6, <2>1, SubSeqProperties
<1>8. Len(Rest(w)) = n - k
  BY <1>1, <1>5, <1>7
<1>9. ASSUME NEW i \in 1..(n - k) PROVE Rest(w)[i] = w[k + i] /\ ~Rest(w)[i].last
  <2>1. i \in 1..(n - (k + 1) + 1) /\ k + 1 + i - 1 = k + i /\ k + i \in (k + 1)..n
    BY <1>1, <1>5
  <2> QED
    BY <1>6, <1>7, <2>1
<1> QED
  BY <1>5, <1>7, <1>8, <1>9 DEF n

\* With the buffer b and the pipe p, d is what the hub can read; size pieces of the
\* pipe are copied, and w is what the writer sees of d.
LEMMA ChunkFacts ==
  ASSUME NEW b \in Seq(Pieces), NEW p \in Seq(Pieces), NEW size \in 1..Len(p)
  PROVE  /\ b \o SubSeq(p, 1, size) \in Seq(Pieces)
         /\ Len(b \o SubSeq(p, 1, size)) = Len(b) + size
         /\ \A i \in 1..(Len(b) + size) : (b \o SubSeq(p, 1, size))[i] = (b \o p)[i]
         /\ SubSeq(p, size + 1, Len(p)) \in Seq(Pieces)
         /\ Len(SubSeq(p, size + 1, Len(p))) = Len(p) - size
         /\ \A i \in 1..(Len(p) - size) :
              SubSeq(p, size + 1, Len(p))[i] = (b \o p)[Len(b) + size + i]
<1> DEFINE n == Len(b)
           m == Len(p)
           c == SubSeq(p, 1, size)
           r == SubSeq(p, size + 1, m)
<1>1. n \in Nat /\ m \in Nat /\ size \in 1..m
  OBVIOUS
<1>2. c \in Seq(Pieces) /\ Len(c) = size /\ \A i \in 1..size : c[i] = p[i]
  <2>1. \A i \in 1..size : p[i] \in Pieces
    OBVIOUS
  <2>2. /\ SubSeq(p, 1, size) \in Seq(Pieces)
        /\ Len(SubSeq(p, 1, size)) = IF 1 <= size THEN size - 1 + 1 ELSE 0
        /\ \A i \in 1..(size - 1 + 1) : SubSeq(p, 1, size)[i] = p[1 + i - 1]
    BY <1>1, <2>1, SubSeqProperties
  <2> QED
    BY <1>1, <2>2
<1>3. r \in Seq(Pieces) /\ Len(r) = m - size /\ \A i \in 1..(m - size) : r[i] = p[size + i]
  <2>1. \A i \in (size + 1)..m : p[i] \in Pieces
    BY <1>1
  <2> HIDE DEF m
  <2>2. /\ SubSeq(p, size + 1, m) \in Seq(Pieces)
        /\ Len(SubSeq(p, size + 1, m)) = IF size + 1 <= m THEN m - (size + 1) + 1 ELSE 0
        /\ \A i \in 1..(m - (size + 1) + 1) : SubSeq(p, size + 1, m)[i] = p[size + 1 + i - 1]
    BY <1>1, <2>1, SubSeqProperties
  <2>3. Len(r) = m - size
    BY <1>1, <2>2
  <2>4. ASSUME NEW i \in 1..(m - size) PROVE r[i] = p[size + i]
    <3>1. i \in 1..(m - (size + 1) + 1) /\ size + 1 + i - 1 = size + i
      BY <1>1
    <3> QED
      BY <2>2, <3>1
  <2> QED
    BY <2>2, <2>3, <2>4
<1>4. \A i \in 1..(n + m) : (b \o p)[i] = IF i <= n THEN b[i] ELSE p[i - n]
  BY ConcatProperties
<1> HIDE DEF c, r
<1>5. /\ b \o c \in Seq(Pieces) /\ Len(b \o c) = n + size
      /\ \A i \in 1..(n + size) : (b \o c)[i] = IF i <= n THEN b[i] ELSE c[i - n]
  BY <1>2, ConcatProperties
<1> HIDE DEF n, m
<1>6. ASSUME NEW i \in 1..(n + size) PROVE (b \o c)[i] = (b \o p)[i]
  <2>1. i \in 1..(n + m)
    BY <1>1
  <2>2. CASE i <= n
    BY <1>4, <1>5, <2>1, <2>2
  <2>3. CASE ~(i <= n)
    <3>1. i - n \in 1..size
      BY <1>1, <2>3
    <3>2. (b \o c)[i] = c[i - n]
      BY <1>5, <2>3
    <3>3. (b \o p)[i] = p[i - n]
      BY <1>4, <2>1, <2>3
    <3> QED
      BY <1>2, <3>1, <3>2, <3>3
  <2> QED
    BY <2>2, <2>3
<1>7. ASSUME NEW i \in 1..(m - size) PROVE r[i] = (b \o p)[n + size + i]
  <2>1. n + size + i \in 1..(n + m) /\ ~(n + size + i <= n) /\ n + size + i - n = size + i
    BY <1>1
  <2>2. \A k \in 1..(n + m) : ~(k <= n) => (b \o p)[k] = p[k - n]
    BY <1>4
  <2>3. (b \o p)[n + size + i] = p[n + size + i - n]
    <3>1. PICK k \in 1..(n + m) : k = n + size + i /\ ~(k <= n)
      BY <2>1
    <3>2. (b \o p)[k] = p[k - n]
      BY <2>2, <3>1
    <3> QED
      BY <1>1, <2>1, <3>1, <3>2
  <2> QED
    BY <1>3, <2>1, <2>3
<1> QED
  BY <1>3, <1>5, <1>6, <1>7 DEF n, m, c, r

\* Any two of lines are those of two pieces of d up to k, in the same order.
InStreamOrder(d, k, lines) ==
  \A x, y \in 1..Len(lines) : x < y => \E g, h \in 1..k :
    g < h /\ d[g].last /\ d[h].last /\ lines[x] = d[g].line /\ lines[y] = d[h].line

\* The writer cuts the stream d behind a newline, at k: c is what is left of it, and
\* lines are the JSON lines before.
IsCut(d, c, k, lines) ==
  /\ k \in 0..Len(d) /\ (k = 0 \/ d[k].last)
  /\ Len(c) = Len(d) - k
  /\ \A i \in 1..(Len(d) - k) : c[i] = d[k + i]
  /\ lines \in Seq(Nat)
  /\ \A j \in 1..Len(lines) : \E i \in 1..k :
       d[i].last /\ kind[d[i].line] # "plain" /\ lines[j] = d[i].line
  /\ \A i \in 1..k :
       d[i].last /\ kind[d[i].line] # "plain" => \E j \in 1..Len(lines) : lines[j] = d[i].line
  /\ InStreamOrder(d, k, lines)

LEMMA WriteCuts ==
  ASSUME NEW b \in Seq(Pieces), NEW p \in Seq(Pieces), NEW size \in 1..Len(p), Paired(b \o p)
  PROVE  LET w == b \o SubSeq(p, 1, size)
             r == SubSeq(p, size + 1, Len(p))
         IN  /\ Rest(w) \in Seq(Pieces) /\ r \in Seq(Pieces)
             /\ \A i \in 1..Len(Rest(w)) : ~Rest(w)[i].last
             /\ \E k : IsCut(b \o p, Rest(w) \o r, k, writeLine(WholeLines(w)))
<1> DEFINE w == b \o SubSeq(p, 1, size)
           r == SubSeq(p, size + 1, Len(p))
           d == b \o p
           m == Len(b) + size
           n == Len(p) - size
           c == Rest(w) \o r
           whl == WholeLines(w)
           lines == writeLine(whl)
<1>1. /\ w \in Seq(Pieces) /\ Len(w) = m
      /\ \A i \in 1..m : w[i] = d[i]
      /\ r \in Seq(Pieces) /\ Len(r) = n
      /\ \A i \in 1..n : r[i] = d[m + i]
  BY ChunkFacts
<1>2. m \in Nat /\ n \in Nat /\ Len(d) = m + n
  <2>1. Len(d) = Len(b) + Len(p) /\ Len(b) \in Nat /\ Len(p) \in Nat
    BY ConcatProperties
  <2> HIDE DEF d
  <2> QED
    BY <2>1
<1> HIDE DEF w, r, d, m, n
<1>3. PICK k \in 0..m :
        /\ k = 0 \/ w[k].last
        /\ Rest(w) \in Seq(Pieces) /\ Len(Rest(w)) = m - k
        /\ \A i \in 1..(m - k) : Rest(w)[i] = w[k + i] /\ ~Rest(w)[i].last
  BY <1>1, RestFacts
<1>4. Paired(w)
  <2>1. Paired(d)
    BY DEF d
  <2>2. \A i \in 1..m : i \in 1..(m + n) /\ (i # 1 => i - 1 \in 1..m)
    BY <1>2
  <2>3. ASSUME NEW i \in 1..m
        PROVE  IF w[i].last THEN i > 1 /\ ~w[i - 1].last /\ w[i].line = w[i - 1].line
                            ELSE i = 1 \/ w[i - 1].last
    <3>1. IF d[i].last THEN i > 1 /\ ~d[i - 1].last /\ d[i].line = d[i - 1].line
                       ELSE i = 1 \/ d[i - 1].last
      BY <1>2, <2>1, <2>2 DEF Paired
    <3>2. w[i] = d[i] /\ (i # 1 => w[i - 1] = d[i - 1])
      BY <1>1, <2>2
    <3>3. CASE i = 1
      BY <3>1, <3>2, <3>3
    <3>4. CASE i # 1
      BY <3>1, <3>2, <3>4
    <3> QED
      BY <3>3, <3>4
  <2> QED
    BY <1>1, <2>3 DEF Paired
<1>5. AreWhole(whl, w)
  BY <1>1, <1>4, WholeFacts
<1> HIDE DEF whl
<1>6. AreJSON(lines, whl)
  <2>1. whl \in Seq(Nat)
    BY <1>5 DEF AreWhole
  <2> QED
    BY <2>1, WriteLineFacts
<1> HIDE DEF lines
<1>7. \A i \in 1..m : w[i].last => i \in 1..k
  <2> SUFFICES ASSUME NEW i \in 1..m, ~(i <= k) PROVE ~w[i].last
    BY <1>2, <1>3
  <2>1. i - k \in 1..(m - k) /\ k + (i - k) = i
    BY <1>2, <1>3
  <2>2. Rest(w)[i - k] = w[k + (i - k)] /\ ~Rest(w)[i - k].last
    BY <1>3, <2>1
  <2> QED
    BY <2>1, <2>2
<1>8. k \in 0..Len(d) /\ \A i \in 1..k : i \in 1..m /\ w[i] = d[i]
  BY <1>1, <1>2, <1>3
<1>9. Len(c) = Len(d) - k /\ \A i \in 1..(Len(d) - k) : c[i] = d[k + i]
  <2>1. /\ Len(c) = (m - k) + n
        /\ \A i \in 1..((m - k) + n) : c[i] = IF i <= m - k THEN Rest(w)[i] ELSE r[i - (m - k)]
    <3>1. /\ Len(c) = Len(Rest(w)) + Len(r)
          /\ \A i \in 1..(Len(Rest(w)) + Len(r)) :
               c[i] = IF i <= Len(Rest(w)) THEN Rest(w)[i] ELSE r[i - Len(Rest(w))]
      <4>1. Rest(w) \in Seq(Pieces) /\ r \in Seq(Pieces)
        BY <1>1, <1>3
      <4> QED
        BY <4>1, ConcatProperties
    <3>2. Len(Rest(w)) = m - k /\ Len(r) = n
      BY <1>1, <1>3
    <3> HIDE DEF c
    <3> QED
      BY <3>1, <3>2, Zenon
  <2>2. (m - k) + n = Len(d) - k
    BY <1>2, <1>3
  <2> HIDE DEF c
  <2>3. ASSUME NEW i \in 1..((m - k) + n) PROVE c[i] = d[k + i]
    <3>1. CASE i <= m - k
      <4>1. i \in 1..(m - k) /\ k + i \in 1..m
        BY <1>2, <1>3, <3>1
      <4> QED
        BY <1>1, <1>3, <2>1, <3>1, <4>1
    <3>2. CASE ~(i <= m - k)
      <4>1. i - (m - k) \in 1..n /\ m + (i - (m - k)) = k + i
        BY <1>2, <1>3, <3>2
      <4>2. c[i] = r[i - (m - k)]
        BY <2>1, <3>2
      <4>3. r[i - (m - k)] = d[m + (i - (m - k))]
        BY <1>1, <4>1
      <4> QED
        BY <4>1, <4>2, <4>3
    <3> QED
      BY <3>1, <3>2
  <2> QED
    BY <2>1, <2>2, <2>3
<1>10. ASSUME NEW j \in 1..Len(lines)
       PROVE  \E i \in 1..k : d[i].last /\ kind[d[i].line] # "plain" /\ lines[j] = d[i].line
  <2>1. PICK h \in 1..Len(whl) : kind[whl[h]] # "plain" /\ lines[j] = whl[h]
    BY <1>6 DEF AreJSON
  <2>2. PICK i \in 1..m : w[i].last /\ whl[h] = w[i].line
    BY <1>1, <1>5 DEF AreWhole
  <2> QED
    BY <1>1, <1>7, <2>1, <2>2
<1>11. ASSUME NEW i \in 1..k, d[i].last, kind[d[i].line] # "plain"
       PROVE  \E j \in 1..Len(lines) : lines[j] = d[i].line
  <2>1. i \in 1..m /\ w[i] = d[i]
    BY <1>8
  <2>2. PICK h \in 1..Len(whl) : whl[h] = w[i].line
    BY <1>1, <1>5, <1>11, <2>1 DEF AreWhole
  <2> QED
    BY <1>6, <1>11, <2>1, <2>2 DEF AreJSON
<1>12. ASSUME NEW i \in 1..Len(lines), NEW j \in 1..Len(lines), i < j
       PROVE  \E f, g \in 1..k : /\ f < g /\ d[f].last /\ d[g].last
                                 /\ lines[i] = d[f].line /\ lines[j] = d[g].line
  <2>1. PICK e \in 1..Len(whl), h \in 1..Len(whl) : e < h /\ lines[i] = whl[e] /\ lines[j] = whl[h]
    BY <1>6, <1>12 DEF AreJSON
  <2>2. PICK f \in 1..m, g \in 1..m :
          f < g /\ w[f].last /\ w[g].last /\ whl[e] = w[f].line /\ whl[h] = w[g].line
    BY <1>1, <1>5, <2>1 DEF AreWhole
  <2> QED
    BY <1>1, <1>7, <2>1, <2>2
<1> HIDE DEF c
<1>13. IsCut(d, c, k, lines)
  <2>1. lines \in Seq(Nat)
    BY <1>6 DEF AreJSON
  <2>2. k = 0 \/ d[k].last
    BY <1>1, <1>3
  <2> HIDE DEF lines
  <2>3. InStreamOrder(d, k, lines)
    BY <1>12 DEF InStreamOrder
  <2> QED
    BY <2>1, <2>2, <2>3, <1>8, <1>9, <1>10, <1>11, <1>12, Zenon DEF IsCut
<1>14. \A i \in 1..Len(Rest(w)) : ~Rest(w)[i].last
  BY <1>3
<1> QED
  BY <1>1, <1>3, <1>13, <1>14 DEF w, r, d, c, lines, whl

\* What one chunk does to an agent's stream.
LEMMA CopyCuts ==
  ASSUME LogsInv, NEW a \in LogAgents, Copy(a)
  PROVE  /\ LogTypes' /\ UNCHANGED <<kind, owner, open, whole, alive, minLevel, logCh, shown>>
         /\ \A b \in LogAgents : b # a => Data(b)' = Data(b) /\ buf'[b] = buf[b]
         /\ \A i \in 1..Len(buf'[a]) : ~buf'[a][i].last
         /\ \E k, lines : IsCut(Data(a), Data(a)', k, lines) /\ Publish(a, lines)
<1>1. LogTypes /\ StreamInv(a)
  BY DEF LogsInv
<1>2. UNCHANGED <<kind, owner, open, whole, alive, attached, minLevel, logCh, shown>>
  BY DEF Copy
<1>3. PICK size \in 1..Len(pipe[a]) :
        /\ WriteChunk(a, SubSeq(pipe[a], 1, size))
        /\ pipe' = [pipe EXCEPT ![a] = SubSeq(@, size + 1, Len(@))]
  BY DEF Copy
<1> DEFINE w == buf[a] \o SubSeq(pipe[a], 1, size)
           r == SubSeq(pipe[a], size + 1, Len(pipe[a]))
           lines == writeLine(WholeLines(w))
<1>4. buf[a] \in Seq(Pieces) /\ pipe[a] \in Seq(Pieces) /\ Paired(buf[a] \o pipe[a])
  BY <1>1 DEF LogTypes, StreamInv, Data
<1>5. /\ Rest(w) \in Seq(Pieces) /\ r \in Seq(Pieces)
      /\ \A i \in 1..Len(Rest(w)) : ~Rest(w)[i].last
      /\ \E k : IsCut(buf[a] \o pipe[a], Rest(w) \o r, k, lines)
  BY <1>4, WriteCuts
<1>6. buf' = [buf EXCEPT ![a] = Rest(w)] /\ Publish(a, lines)
  BY <1>3 DEF WriteChunk
<1>7. pipe' = [pipe EXCEPT ![a] = r]
  BY <1>3
<1> HIDE DEF w, r, lines
<1>8. /\ buf' \in [LogAgents -> Seq(Pieces)] /\ pipe' \in [LogAgents -> Seq(Pieces)]
      /\ buf'[a] = Rest(w) /\ pipe'[a] = r
      /\ \A b \in LogAgents : b # a => buf'[b] = buf[b] /\ pipe'[b] = pipe[b]
  BY <1>1, <1>5, <1>6, <1>7 DEF LogTypes
<1>9. PICK k : IsCut(Data(a), Data(a)', k, lines)
  BY <1>5, <1>8 DEF Data
<1>10. LogTypes'
  <2>1. lines \in Seq(Nat) /\ k \in 0..Len(Data(a))
    BY <1>9 DEF IsCut
  <2>2. ToSet(lines) \subseteq whole
    <3>1. ASSUME NEW j \in 1..Len(lines) PROVE lines[j] \in whole
      <4>1. PICK i \in 1..k : Data(a)[i].last /\ lines[j] = Data(a)[i].line
        BY <1>9, <3>1 DEF IsCut
      <4>2. i \in 1..Len(Data(a))
        BY <1>1, <2>1, StreamTypes
      <4> QED
        BY <1>1, <4>1, <4>2 DEF StreamInv
    <3> QED
      BY <2>1, <3>1 DEF ToSet
  <2>3. bus \o lines \in Seq(Nat)
    BY <1>1, <2>1 DEF LogTypes
  <2>4. bus' \in Seq(Nat) /\ missed' \subseteq whole
    BY <1>1, <1>6, <2>2, <2>3 DEF Publish, LogTypes
  <2> QED
    BY <1>1, <1>2, <1>8, <2>4 DEF LogTypes
<1>11. \A b \in LogAgents : b # a => Data(b)' = Data(b)
  BY <1>8 DEF Data
<1> QED
  BY <1>2, <1>5, <1>6, <1>8, <1>9, <1>10, <1>11

\* What the hub copies is not lost, and stays in its order.
LEMMA CopyKeeps == ASSUME LogsInv, NEW a \in LogAgents, Copy(a) PROVE LogsInv'
<1>1. LogTypes /\ FrontInv /\ \A b \in LogAgents : EndInv(b) /\ StreamInv(b) /\ NoneLost(b)
  BY DEF LogsInv
<1>2. /\ LogTypes' /\ UNCHANGED <<kind, owner, open, whole, alive, minLevel, logCh, shown>>
      /\ \A b \in LogAgents : b # a => Data(b)' = Data(b) /\ buf'[b] = buf[b]
      /\ \A i \in 1..Len(buf'[a]) : ~buf'[a][i].last
  BY CopyCuts
<1>3. PICK k, lines : IsCut(Data(a), Data(a)', k, lines) /\ Publish(a, lines)
  BY CopyCuts
<1> DEFINE d == Data(a)
           c == Data(a)'
           n == Len(d)
           f == Published
           m == Len(f)
           q == Len(lines)
<1>4. /\ n \in Nat /\ k \in 0..n /\ (k = 0 \/ d[k].last)
      /\ Len(c) = n - k
      /\ \A i \in 1..(n - k) : c[i] = d[k + i] /\ k + i \in 1..n
      /\ \A i \in 1..k : i \in 1..n
      /\ lines \in Seq(Nat) /\ q \in Nat
  <2>1. n \in Nat /\ k \in 0..n
    BY <1>1, <1>3, StreamTypes DEF IsCut
  <2>2. \A i \in 1..(n - k) : k + i \in 1..n
    BY <2>1
  <2>3. \A i \in 1..k : i \in 1..n
    BY <2>1
  <2> QED
    BY <1>3, <2>1, <2>2, <2>3 DEF IsCut
<1>5. \A b \in LogAgents : Due(b)' = Due(b)
  BY <1>2 DEF Due, Lines, Selected
<1>6. /\ Paired(d)
      /\ \A i \in 1..n : d[i].line \in 1..Len(kind) /\ owner[d[i].line] = a
      /\ \A i \in 1..n : d[i].last => d[i].line \in whole \ missed
      /\ \A i, j \in 1..n : i < j /\ d[i].last /\ d[j].last => d[i].line < d[j].line
  BY <1>1 DEF StreamInv
<1>7. whole \subseteq Int
  BY <1>1, StreamTypes DEF LogTypes
<1>8. \A i \in 1..m : \A b \in LogAgents : \A j \in 1..Len(Data(b)) :
        owner[f[i]] = b /\ Data(b)[j].last => f[i] < Data(b)[j].line
  BY <1>1 DEF FrontInv
<1>9. \A i \in 1..m : f[i] \in whole \ missed /\ kind[f[i]] # "plain"
  BY <1>1 DEF FrontInv
<1>10. f \in Seq(Nat) /\ m \in Nat
  BY <1>1, StreamTypes
<1> HIDE DEF d, c, n, f, m, q
<1>11. ASSUME NEW j \in 1..q
       PROVE  \E i \in 1..k : d[i].last /\ kind[d[i].line] # "plain" /\ lines[j] = d[i].line
  BY <1>3 DEF IsCut, d, q
<1>12. ASSUME NEW j \in 1..q
       PROVE  lines[j] \in whole \ missed /\ kind[lines[j]] # "plain" /\ owner[lines[j]] = a
  BY <1>4, <1>6, <1>11
<1>13. ASSUME NEW i \in 1..q, NEW j \in 1..q, i < j PROVE lines[i] < lines[j]
  <2>1. \A x, y \in 1..q : x < y => \E g, h \in 1..k :
          g < h /\ d[g].last /\ d[h].last /\ lines[x] = d[g].line /\ lines[y] = d[h].line
    <3>1. InStreamOrder(d, k, lines)
      BY <1>3 DEF IsCut, d
    <3> QED
      BY <3>1 DEF InStreamOrder, q
  <2>2. PICK g \in 1..k, h \in 1..k :
          g < h /\ d[g].last /\ d[h].last /\ lines[i] = d[g].line /\ lines[j] = d[h].line
    BY <1>13, <2>1, Zenon
  <2> QED
    BY <1>4, <1>6, <2>2
<1>14. ASSUME NEW j \in 1..q, NEW i \in 1..(n - k), c[i].last PROVE lines[j] < c[i].line
  <2>1. PICK h \in 1..k : d[h].last /\ lines[j] = d[h].line
    BY <1>11
  <2>2. h < k + i /\ c[i] = d[k + i] /\ k + i \in 1..n /\ h \in 1..n
    BY <1>4, <2>1
  <2> QED
    BY <1>6, <1>14, <2>1, <2>2
<1>15. ASSUME NEW i \in 1..m, NEW j \in 1..q, owner[f[i]] = a PROVE f[i] < lines[j]
  <2>1. PICK h \in 1..k : d[h].last /\ lines[j] = d[h].line
    BY <1>11
  <2>2. h \in 1..Len(Data(a)) /\ Data(a)[h].last /\ lines[j] = Data(a)[h].line
    BY <1>4, <2>1 DEF d, n
  <2> QED
    BY <1>8, <1>15, <2>2
<1>16. \/ attached' = attached /\ Published' = f \o lines /\ missed' = missed
       \/ attached' = attached /\ Published' = f /\ missed' = missed \union ToSet(lines)
  <2>1. attached' = attached
    BY DEF Copy
  <2>2. CASE bus' = bus \o lines /\ UNCHANGED missed
    <3>1. shown \in Seq(Nat) /\ logCh \in Seq(Nat) /\ bus \in Seq(Nat)
      BY <1>1 DEF LogTypes
    <3>2. shown \o logCh \in Seq(Nat)
      BY <3>1
    <3>3. (shown \o logCh) \o (bus \o lines) = ((shown \o logCh) \o bus) \o lines
      BY <1>4, <3>1, <3>2, NumbersAssociate, Zenon
    <3>4. Published' = shown \o logCh \o (bus \o lines)
      BY <1>2, <2>2 DEF Published
    <3> QED
      BY <2>1, <2>2, <3>3, <3>4 DEF Published, f
  <2>3. CASE missed' = missed \union ToSet(lines) /\ UNCHANGED bus
    <3>1. Published' = Published
      BY <1>2, <2>3 DEF Published
    <3> QED
      BY <2>1, <2>3, <3>1 DEF f
  <2> QED
    BY <1>3, <2>2, <2>3 DEF Publish
<1>17. ToSet(lines) = {lines[j] : j \in 1..q}
  BY <1>4 DEF ToSet, q
<1>18. missed' \subseteq missed \union {lines[j] : j \in 1..q}
  BY <1>16, <1>17
<1>19. ASSUME NEW b \in LogAgents, NEW i \in 1..Len(Data(b)'), Data(b)'[i].last
       PROVE  Data(b)'[i].line \in whole \ missed'
  <2>1. CASE b # a
    <3>1. Data(b)[i].line \in whole \ missed /\ owner[Data(b)[i].line] = b /\ Data(b)' = Data(b)
      BY <1>1, <1>2, <1>19, <2>1 DEF StreamInv
    <3> QED
      BY <1>12, <1>18, <2>1, <3>1
  <2>2. CASE b = a
    <3>1. i \in 1..(n - k) /\ c[i] = Data(b)'[i] /\ c[i].last
      BY <1>4, <1>19, <2>2 DEF c
    <3>2. c[i].line \in whole \ missed
      BY <1>4, <1>6, <3>1
    <3>3. \A j \in 1..q : lines[j] < c[i].line
      BY <1>14, <3>1
    <3>4. c[i].line \in Int
      BY <1>7, <3>2
    <3>5. \A j \in 1..q : lines[j] # c[i].line
      BY <3>3, <3>4
    <3> QED
      BY <1>18, <3>1, <3>2, <3>5
  <2> QED
    BY <2>1, <2>2
<1>20. \A i \in 1..m : f[i] \notin {lines[j] : j \in 1..q}
  <2> SUFFICES ASSUME NEW i \in 1..m, NEW j \in 1..q, f[i] = lines[j] PROVE FALSE
    OBVIOUS
  <2>1. owner[f[i]] = a /\ lines[j] \in Int
    BY <1>7, <1>12
  <2>2. f[i] < lines[j]
    BY <1>15, <2>1
  <2> QED
    BY <2>1, <2>2
<1>21. FrontInv'
  <2> DEFINE g == Published'
  <2>1. /\ g \in Seq(Nat) /\ Len(g) \in Nat /\ m <= Len(g)
        /\ \A i \in 1..m : g[i] = f[i]
        /\ \A i \in 1..Len(g) : i > m => i - m \in 1..q /\ g[i] = lines[i - m] /\ missed' = missed
    <3>1. CASE g = f
      BY <1>10, <3>1 DEF m
    <3>2. CASE g = f \o lines /\ missed' = missed
      <4>1. /\ f \o lines \in Seq(Nat) /\ Len(f \o lines) = m + q
            /\ \A i \in 1..(m + q) : (f \o lines)[i] = IF i <= m THEN f[i] ELSE lines[i - m]
        BY <1>4, <1>10, ConcatProperties DEF m, q
      <4> HIDE DEF g
      <4>2. \A i \in 1..m : i \in 1..(m + q) /\ i <= m
        BY <1>4, <1>10
      <4>3. \A i \in 1..(m + q) : i > m => i - m \in 1..q /\ ~(i <= m)
        BY <1>4, <1>10
      <4>4. ASSUME NEW i \in 1..(m + q), i > m
            PROVE  i - m \in 1..q /\ g[i] = lines[i - m] /\ missed' = missed
        <5>1. i - m \in 1..q /\ ~(i <= m)
          BY <4>3, <4>4
        <5> QED
          BY <3>2, <4>1, <5>1
      <4>5. \A i \in 1..m : g[i] = f[i]
        BY <3>2, <4>1, <4>2
      <4>6. g \in Seq(Nat) /\ Len(g) = m + q /\ m + q \in Nat /\ m <= m + q
        BY <1>4, <1>10, <3>2, <4>1
      <4> QED
        BY <4>4, <4>5, <4>6
    <3> QED
      BY <1>16, <3>1, <3>2
  <2> HIDE DEF g
  <2>2. \A i \in 1..Len(g) : i \in 1..m \/ i > m
    BY <1>10, <2>1
  <2>3. ASSUME NEW i \in 1..Len(g) PROVE g[i] \in whole \ missed' /\ kind[g[i]] # "plain"
    <3>1. CASE i \in 1..m
      BY <1>9, <1>18, <1>20, <2>1, <3>1
    <3>2. CASE i > m
      BY <1>12, <2>1, <3>2
    <3> QED
      BY <2>2, <3>1, <3>2
  <2>4. ASSUME NEW i \in 1..Len(g), NEW j \in 1..Len(g), i < j, owner[g[i]] = owner[g[j]]
        PROVE  g[i] < g[j]
    <3>1. CASE j \in 1..m
      <4>1. i \in 1..m
        BY <1>10, <2>1, <2>4, <3>1
      <4>2. f[i] < f[j]
        BY <1>1, <2>1, <2>4, <3>1, <4>1 DEF FrontInv, f, m
      <4> QED
        BY <2>1, <3>1, <4>1, <4>2
    <3>2. CASE i \in 1..m /\ j > m
      <4>1. j - m \in 1..q /\ g[j] = lines[j - m] /\ g[i] = f[i]
        BY <2>1, <3>2
      <4>2. owner[f[i]] = a
        BY <1>12, <2>4, <4>1
      <4> QED
        BY <1>15, <3>2, <4>1, <4>2
    <3>3. CASE i > m
      <4>1. j > m
        BY <1>10, <2>1, <2>4, <3>3
      <4>2. i - m \in 1..q /\ j - m \in 1..q /\ g[i] = lines[i - m] /\ g[j] = lines[j - m]
        BY <2>1, <3>3, <4>1
      <4>3. i - m < j - m
        BY <1>10, <2>1, <2>4
      <4> QED
        BY <1>13, <4>2, <4>3
    <3> QED
      BY <2>2, <3>1, <3>2, <3>3
  <2>5. ASSUME NEW i \in 1..Len(g), NEW b \in LogAgents, NEW j \in 1..Len(Data(b)'),
               owner[g[i]] = b, Data(b)'[j].last
        PROVE  g[i] < Data(b)'[j].line
    <3>1. CASE b # a
      <4>1. Data(b)' = Data(b)
        BY <1>2, <3>1
      <4>2. i \in 1..m
        BY <1>12, <2>1, <2>2, <2>5, <3>1
      <4>3. g[i] = f[i] /\ j \in 1..Len(Data(b)) /\ Data(b)[j].last
        BY <2>1, <2>5, <4>1, <4>2
      <4> QED
        BY <1>8, <2>5, <4>1, <4>2, <4>3
    <3>2. CASE b = a
      <4>1. j \in 1..(n - k) /\ c[j] = Data(b)'[j] /\ c[j].last
        BY <1>4, <2>5, <3>2 DEF c
      <4>2. CASE i \in 1..m
        <5>1. k + j \in 1..n /\ c[j] = d[k + j]
          BY <1>4, <4>1
        <5>2. k + j \in 1..Len(Data(a)) /\ Data(a)[k + j].last /\ Data(a)[k + j] = c[j]
          BY <4>1, <5>1 DEF d, n
        <5>3. g[i] = f[i] /\ owner[f[i]] = a
          BY <2>1, <2>5, <3>2, <4>2
        <5>4. f[i] < Data(a)[k + j].line
          BY <1>8, <4>2, <5>2, <5>3
        <5> QED
          BY <4>1, <5>2, <5>3, <5>4
      <4>3. CASE i > m
        <5>1. i - m \in 1..q /\ g[i] = lines[i - m]
          BY <2>1, <4>3
        <5> QED
          BY <1>14, <4>1, <5>1
      <4> QED
        BY <2>2, <4>2, <4>3
    <3> QED
      BY <3>1, <3>2
  <2> QED
    BY <1>2, <2>3, <2>4, <2>5 DEF FrontInv, g
<1>22. ASSUME NEW b \in LogAgents PROVE EndInv(b)' /\ StreamInv(b)' /\ NoneLost(b)'
  <2>1. EndInv(b) /\ StreamInv(b) /\ NoneLost(b)
    BY <1>1
  <2>2. ASSUME NEW x \in (whole \ missed') \intersect Due(b), \E i \in 1..m : f[i] = x
        PROVE  \E i \in 1..Len(Published') : Published'[i] = x
    <3>1. CASE Published' = f
      BY <2>2, <3>1 DEF m
    <3>2. CASE Published' = f \o lines
      <4>1. PICK i \in 1..m : f[i] = x
        BY <2>2
      <4>2. /\ Len(f \o lines) = m + q
            /\ \A h \in 1..(m + q) : (f \o lines)[h] = IF h <= m THEN f[h] ELSE lines[h - m]
        BY <1>4, <1>10, ConcatProperties DEF m, q
      <4>3. i \in 1..(m + q) /\ i <= m
        BY <1>4, <1>10
      <4> QED
        BY <3>2, <4>1, <4>2, <4>3
    <3> QED
      BY <1>16, <3>1, <3>2
  <2>3. ASSUME NEW x \in whole \ missed', NEW j \in 1..q, lines[j] = x
        PROVE  \E i \in 1..Len(Published') : Published'[i] = x
    <3>1. Published' = f \o lines
      BY <1>16, <1>17, <2>3
    <3>2. /\ Len(f \o lines) = m + q
          /\ \A h \in 1..(m + q) : (f \o lines)[h] = IF h <= m THEN f[h] ELSE lines[h - m]
      BY <1>4, <1>10, ConcatProperties DEF m, q
    <3>3. PICK i \in 1..(m + q) : i - m = j /\ ~(i <= m)
      <4>1. m + j \in 1..(m + q) /\ (m + j) - m = j /\ ~(m + j <= m)
        BY <1>4, <1>10
      <4> QED
        BY <4>1
    <3> QED
      BY <2>3, <3>1, <3>2, <3>3
  <2>4. missed \subseteq missed'
    BY <1>16
  <2>5. CASE b # a
    <3>1. Data(b)' = Data(b) /\ buf'[b] = buf[b]
      BY <1>2, <2>5
    <3>2. Paired(Data(b))'
      BY <2>1, <3>1 DEF StreamInv, Paired
    <3>3. EndInv(b)'
      BY <1>2, <2>1, <3>1 DEF EndInv
    <3>4. \A i \in 1..Len(Data(b)) : Data(b)[i].last => Data(b)[i].line \in whole \ missed'
      BY <1>19, <3>1
    <3>5. StreamInv(b)'
      BY <1>2, <2>1, <3>1, <3>2, <3>4 DEF StreamInv
    <3>6. NoneLost(b)'
      <4>1. ASSUME NEW x \in (whole \ missed') \intersect Due(b)
            PROVE  \/ \E i \in 1..Len(Published') : Published'[i] = x
                   \/ \E i \in 1..Len(Data(b)) : Data(b)[i].last /\ Data(b)[i].line = x
        <5>1. x \in (whole \ missed) \intersect Due(b)
          BY <2>4
        <5> QED
          BY <2>1, <2>2, <5>1 DEF NoneLost, f, m
      <4> QED
        BY <1>2, <1>5, <3>1, <4>1 DEF NoneLost
    <3> QED
      BY <3>3, <3>5, <3>6
  <2>6. CASE b = a
    <3>1. \A i \in 1..(n - k) : c[i] = d[k + i] /\ k + i \in 1..n
      BY <1>4
    <3>2. EndInv(a)'
      <4>1. Len(d) = n /\ Len(c) = n - k /\ n \in Nat /\ k \in 0..n
        BY <1>4 DEF n
      <4>2. ~(n = k) => c[n - k] = d[n]
        BY <1>4
      <4>3. ASSUME open[a] # 0 PROVE n - k > 0 /\ c[n - k] = Piece(open[a], FALSE)
        <5>1. n > 0 /\ d[n] = Piece(open[a], FALSE)
          BY <1>1, <4>3 DEF EndInv, d, n
        <5>2. n # k
          BY <1>4, <5>1 DEF Piece
        <5>3. n - k > 0
          BY <4>1, <5>2
        <5>4. c[n - k] = d[n]
          BY <4>2, <5>2, Zenon
        <5> QED
          BY <5>1, <5>3, <5>4, Zenon
      <4>4. ASSUME open[a] = 0, a \in alive PROVE n - k = 0 \/ c[n - k].last
        <5>1. n = 0 \/ d[n].last
          BY <1>1, <4>4 DEF EndInv, d, n
        <5> QED
          BY <4>1, <4>2, <5>1
      <4>5. EndInv(a)
        BY <1>1
      <4>6. Len(Data(a)') = n - k /\ Data(a)'[n - k] = c[n - k]
        BY <4>1 DEF c
      <4> QED
        BY <1>2, <4>3, <4>4, <4>5, <4>6 DEF EndInv
    <3>3. Paired(c)
      <4>1. ASSUME NEW i \in 1..(n - k)
            PROVE  IF c[i].last THEN i > 1 /\ ~c[i - 1].last /\ c[i].line = c[i - 1].line
                               ELSE i = 1 \/ c[i - 1].last
        <5>1. IF d[k + i].last THEN /\ k + i > 1 /\ ~d[k + i - 1].last
                                   /\ d[k + i].line = d[k + i - 1].line
                              ELSE k + i = 1 \/ d[k + i - 1].last
          BY <1>4, <1>6 DEF Paired, n
        <5>2. CASE i = 1
          <6>1. k + i - 1 = k
            BY <1>4, <5>2
          <6>2. ~d[k + i].last
            BY <1>4, <5>1, <5>2, <6>1
          <6> QED
            BY <3>1, <5>2, <6>2
        <5>3. CASE i # 1
          <6>1. i - 1 \in 1..(n - k) /\ k + (i - 1) = k + i - 1 /\ i > 1 /\ k + i # 1
            BY <1>4, <5>3
          <6>2. c[i] = d[k + i] /\ c[i - 1] = d[k + i - 1]
            BY <3>1, <6>1
          <6> QED
            BY <5>1, <6>1, <6>2
        <5> QED
          BY <5>2, <5>3
      <4> QED
        BY <1>4, <4>1 DEF Paired
    <3>4. StreamInv(a)'
      <4>1. Paired(Data(a))'
        BY <3>3 DEF c, Paired
      <4>2. \A i \in 1..(n - k) : c[i].line \in 1..Len(kind) /\ owner[c[i].line] = a
        BY <1>6, <3>1
      <4>3. \A i \in 1..(n - k) : c[i].last => c[i].line \in whole \ missed'
        BY <1>4, <1>19 DEF c
      <4>4. ASSUME NEW i \in 1..(n - k), NEW j \in 1..(n - k), i < j, c[i].last, c[j].last
            PROVE  c[i].line < c[j].line
        <5>1. k + i < k + j
          BY <1>4, <4>4
        <5> QED
          BY <1>6, <3>1, <4>4, <5>1
      <4>5. Len(c) = n - k
        BY <1>4
      <4> QED
        BY <1>2, <4>1, <4>2, <4>3, <4>4, <4>5 DEF StreamInv, c
    <3>5. NoneLost(a)'
      <4>1. ASSUME NEW x \in (whole \ missed') \intersect Due(a)
            PROVE  \/ \E i \in 1..Len(Published') : Published'[i] = x
                   \/ \E i \in 1..(n - k) : c[i].last /\ c[i].line = x
        <5>1. x \in (whole \ missed) \intersect Due(a) /\ kind[x] # "plain"
          BY <2>4 DEF Due
        <5>2. CASE \E i \in 1..m : f[i] = x
          BY <2>2, <2>6, <5>2
        <5>3. CASE \E i \in 1..n : d[i].last /\ d[i].line = x
          <6>1. PICK i \in 1..n : d[i].last /\ d[i].line = x
            BY <5>3
          <6>2. CASE i <= k
            <7>1. i \in 1..k
              BY <1>4, <6>2
            <7>2. PICK j \in 1..q : lines[j] = x
              BY <1>3, <5>1, <6>1, <7>1 DEF IsCut, d, q
            <7> QED
              BY <2>3, <7>2
          <6>3. CASE i > k
            <7>1. i - k \in 1..(n - k) /\ k + (i - k) = i
              BY <1>4, <6>3
            <7>2. c[i - k] = d[i]
              BY <3>1, <7>1
            <7> QED
              BY <6>1, <7>1, <7>2
          <6> QED
            BY <1>4, <6>2, <6>3
        <5> QED
          BY <1>1, <5>1, <5>2, <5>3 DEF NoneLost, d, n, f, m
      <4>2. Len(Data(a)') = n - k
        BY <1>4 DEF c
      <4> QED
        BY <1>2, <1>5, <4>1, <4>2 DEF NoneLost, c
    <3> QED
      BY <2>6, <3>2, <3>4, <3>5
  <2> QED
    BY <2>5, <2>6
<1> QED
  BY <1>2, <1>21, <1>22 DEF LogsInv

LEMMA LogsStep == ASSUME LogsInv, [LogsNext]_logVars PROVE LogsInv'
<1>1. CASE UNCHANGED logVars
  <2>1. UNCHANGED <<kind, owner, open, whole, alive, pipe, buf, minLevel, bus, logCh, shown, missed>>
    BY <1>1 DEF logVars, agentVars, followerVars
  <2>2. Published' = Published /\ LogTypes'
    BY <2>1 DEF LogsInv, LogTypes, Published
  <2> QED
    BY <2>1, <2>2, SameLinesKeep
<1>2. ASSUME NEW a \in LogAgents,
             BeginLine(a) \/ EndLine(a) \/ AgentExits(a) \/ Copy(a) \/ Relaunch(a)
      PROVE  LogsInv'
  BY <1>2, BeginLineKeeps, EndLineKeeps, AgentExitsKeeps, CopyKeeps, RelaunchKeeps
<1>3. CASE Subscribe \/ Receive \/ printLogEntry
  BY <1>3, SubscribeKeeps, ReceiveKeeps, printLogEntryKeeps
<1> QED
  BY <1>1, <1>2, <1>3 DEF LogsNext

\* A follower gets the lines of its agents, whole, in their order and each once, however
\* the hub cuts them into chunks and wherever an agent dies.
THEOREM FollowerComplete == LogsSpec => []FollowerGetsLines
<1>1. LogsSpec => []LogsInv
  BY LogsInitInv, LogsStep, PTL DEF LogsSpec
<1> QED
  BY <1>1, FollowerFollows, PTL

----------------------------------------------------------------------------
(* The audit log (AuditLog) *)

AuditTypes ==
  /\ subject \in Seq(AuditThreads)
  /\ building \in [AuditThreads -> Nat]
  /\ auditFile \in Seq(Pieces) /\ intact \in Seq(Nat)

\* What a handler is about to write is later than what is in the file of its subject.
BuildInv(s) ==
  building[s] # 0 =>
    /\ building[s] \in 1..Len(subject) /\ subject[building[s]] = s
    /\ \A i \in 1..Len(auditFile) :
         subject[auditFile[i].line] = s => auditFile[i].line < building[s]

\* A last piece comes at once after its first, and the entries of a subject come in
\* their order.
FileInv ==
  /\ \A i \in 1..Len(auditFile) : auditFile[i].line \in 1..Len(subject)
  /\ \A i \in 1..Len(auditFile) :
       auditFile[i].last =>
         i > 1 /\ ~auditFile[i - 1].last /\ auditFile[i - 1].line = auditFile[i].line
  /\ \A i, j \in 1..Len(auditFile) :
       /\ i < j /\ ~auditFile[i].last /\ ~auditFile[j].last
       /\ subject[auditFile[i].line] = subject[auditFile[j].line]
       => auditFile[i].line < auditFile[j].line

\* The entries written on a line of their own are those a reader can find.
IntactInv ==
  /\ \A j \in 1..Len(intact) :
       \E i \in 1..Len(auditFile) : WholeAt(auditFile, i) /\ auditFile[i].line = intact[j]
  /\ \A i \in 1..Len(auditFile) :
       WholeAt(auditFile, i) => \E j \in 1..Len(intact) : intact[j] = auditFile[i].line

AuditInv == AuditTypes /\ FileInv /\ IntactInv /\ \A s \in AuditThreads : BuildInv(s)

\* Entries read of a type: those of the whole lines of the file, in their order.
OfType(type, n) == type \in {"", subject[n]}

AreEntries(e, type) ==
  /\ e \in Seq(Nat)
  /\ \A j \in 1..Len(e) : \E i \in 1..Len(auditFile) :
       WholeAt(auditFile, i) /\ e[j] = auditFile[i].line /\ OfType(type, e[j])
  /\ \A i \in 1..Len(auditFile) :
       WholeAt(auditFile, i) /\ OfType(type, auditFile[i].line) =>
         \E j \in 1..Len(e) : e[j] = auditFile[i].line
  /\ \A j, k \in 1..Len(e) : j < k => \E h, i \in 1..Len(auditFile) :
       /\ h < i /\ WholeAt(auditFile, h) /\ WholeAt(auditFile, i)
       /\ e[j] = auditFile[h].line /\ e[k] = auditFile[i].line

LEMMA EntriesFacts ==
  ASSUME AuditTypes, NEW type
  PROVE  LET w == WholeLines(auditFile)
         IN  AreEntries(Picked(w, {i \in DOMAIN w : type \in {"", subject[w[i]]}}), type)
<1> DEFINE s == LinesOf(auditFile)
           I == {i \in 1..Len(auditFile) : WholeAt(auditFile, i)}
           w == WholeLines(auditFile)
           J == {i \in DOMAIN w : type \in {"", subject[w[i]]}}
           e == Picked(w, J)
<1>1. auditFile \in Seq(Pieces)
  BY DEF AuditTypes
<1>2. s \in Seq(Nat) /\ Len(s) = Len(auditFile) /\ \A i \in 1..Len(auditFile) : s[i] = auditFile[i].line
  <2>1. \A i \in 1..Len(auditFile) : auditFile[i].line \in Nat
    <3>1. \A i \in 1..Len(auditFile) : auditFile[i] \in Pieces
      BY <1>1
    <3> QED
      BY <3>1 DEF Pieces
  <2>2. s = [i \in 1..Len(auditFile) |-> auditFile[i].line] /\ Len(auditFile) \in Nat
    BY <1>1 DEF LinesOf
  <2> QED
    BY <2>1, <2>2
<1>3. w = Picked(s, I)
  BY DEF WholeLines
<1> HIDE DEF s, w
<1>4. w \in Seq(Nat) /\ Selects(w, s, I)
  BY <1>2, <1>3, PickedFacts
<1>5. \A i \in 1..Len(w) : i \in J <=> OfType(type, w[i])
  <2>1. DOMAIN w = 1..Len(w)
    BY <1>4
  <2> QED
    BY <2>1, Zenon DEF OfType
<1>6. \A i \in 1..Len(auditFile) : i \in I <=> WholeAt(auditFile, i)
  OBVIOUS
<1> HIDE DEF J, I
<1>7. e \in Seq(Nat) /\ Selects(e, w, J)
  BY <1>4, PickedFacts
<1> HIDE DEF e
<1>8. ASSUME NEW j \in 1..Len(e)
      PROVE  \E i \in 1..Len(auditFile) :
               WholeAt(auditFile, i) /\ e[j] = auditFile[i].line /\ OfType(type, e[j])
  <2>1. PICK k \in 1..Len(w) : k \in J /\ e[j] = w[k]
    BY <1>7 DEF Selects
  <2>2. PICK i \in 1..Len(s) : i \in I /\ w[k] = s[i]
    BY <1>4 DEF Selects
  <2> QED
    BY <1>2, <1>5, <1>6, <2>1, <2>2
<1>9. ASSUME NEW i \in 1..Len(auditFile), WholeAt(auditFile, i), OfType(type, auditFile[i].line)
      PROVE  \E j \in 1..Len(e) : e[j] = auditFile[i].line
  <2>1. i \in 1..Len(s) /\ i \in I /\ s[i] = auditFile[i].line
    BY <1>2, <1>6, <1>9
  <2>2. PICK k \in 1..Len(w) : w[k] = s[i]
    BY <1>4, <2>1 DEF Selects
  <2>3. k \in J
    BY <1>5, <1>9, <2>1, <2>2
  <2>4. PICK j \in 1..Len(e) : e[j] = w[k]
    BY <1>7, <2>3 DEF Selects
  <2> QED
    BY <2>1, <2>2, <2>4
<1>10. ASSUME NEW j \in 1..Len(e), NEW k \in 1..Len(e), j < k
       PROVE  \E h, i \in 1..Len(auditFile) :
                /\ h < i /\ WholeAt(auditFile, h) /\ WholeAt(auditFile, i)
                /\ e[j] = auditFile[h].line /\ e[k] = auditFile[i].line
  <2>1. PICK x \in 1..Len(w), y \in 1..Len(w) : x < y /\ e[j] = w[x] /\ e[k] = w[y]
    BY <1>7, <1>10 DEF Selects
  <2>2. PICK h \in 1..Len(s), i \in 1..Len(s) :
          h \in I /\ i \in I /\ h < i /\ w[x] = s[h] /\ w[y] = s[i]
    BY <1>4, <2>1 DEF Selects
  <2> QED
    BY <1>2, <1>6, <2>1, <2>2
<1>11. AreEntries(e, type)
  <2>1. e \in Seq(Nat)
    BY <1>7
  <2> QED
    BY <2>1, <1>8, <1>9, <1>10, Zenon DEF AreEntries
<1> QED
  BY <1>11 DEF e, J, w

\* Two whole lines of a subject come in the order of its entries.
LEMMA WholeInOrder ==
  ASSUME AuditTypes, FileInv, NEW h \in 1..Len(auditFile), NEW i \in 1..Len(auditFile), h < i,
         WholeAt(auditFile, h), WholeAt(auditFile, i),
         subject[auditFile[h].line] = subject[auditFile[i].line]
  PROVE  auditFile[h].line < auditFile[i].line
<1>1. Len(auditFile) \in Nat
  BY DEF AuditTypes
<1>2. /\ h - 1 \in 1..Len(auditFile) /\ i - 1 \in 1..Len(auditFile) /\ h - 1 < i - 1
      /\ ~auditFile[h - 1].last /\ auditFile[h - 1].line = auditFile[h].line
      /\ ~auditFile[i - 1].last /\ auditFile[i - 1].line = auditFile[i].line
  BY <1>1 DEF WholeAt
<1> QED
  BY <1>2 DEF FileInv

LEMMA SetOfSequence == \A s \in Seq(Nat) : ToSet(s) = {s[i] : i \in 1..Len(s)}
  BY DEF ToSet

\* A sequence without repetitions is as long as it has elements.
LEMMA CountedOnce ==
  ASSUME NEW e \in Seq(Nat), \A i, j \in 1..Len(e) : i < j => e[i] # e[j]
  PROVE  Cardinality(ToSet(e)) = Len(e)
<1> DEFINE n == Len(e)
           R == ToSet(e)
<1>1. n \in Nat /\ e \in [1..n -> Nat] /\ R = {e[i] : i \in 1..n}
  BY DEF ToSet
<1>2. \A i, j \in 1..n : e[i] = e[j] => i = j
  <2> SUFFICES ASSUME NEW i \in 1..n, NEW j \in 1..n, e[i] = e[j], i # j PROVE FALSE
    OBVIOUS
  <2>1. i < j \/ j < i
    BY <1>1
  <2> QED
    BY <2>1
<1> HIDE DEF n, R
<1>3. e \in Bijection(1..n, R)
  BY <1>1, <1>2 DEF Bijection, Injection, Surjection, IsInjective
<1>4. ExistsBijection(1..n, R)
  BY <1>3 DEF ExistsBijection
<1>5. Cardinality(R) = n
  BY <1>1, <1>4, FS_CountingElements
<1> QED
  BY <1>5 DEF n, R

\* What the last limit elements of a sequence are.
IsLast(r, e, limit) ==
  \E k \in 0..Len(e) :
    /\ k = IF Len(e) > limit THEN Len(e) - limit ELSE 0
    /\ r \in Seq(Nat) /\ Len(r) = Len(e) - k
    /\ \A i \in 1..(Len(e) - k) : r[i] = e[k + i]

LEMMA LastOfFacts ==
  ASSUME NEW e \in Seq(Nat), NEW limit \in Nat
  PROVE  IsLast(LastOf(e, limit), e, limit)
<1> DEFINE n == Len(e)
<1>1. n \in Nat /\ \A i \in 1..n : e[i] \in Nat
  OBVIOUS
<1>2. CASE n > limit
  <2> DEFINE k == n - limit
  <2>1. k \in 0..n /\ LastOf(e, limit) = SubSeq(e, k + 1, n)
    BY <1>1, <1>2 DEF LastOf
  <2> HIDE DEF k, n
  <2>2. \A i \in (k + 1)..n : e[i] \in Nat
    BY <1>1, <2>1
  <2>3. /\ SubSeq(e, k + 1, n) \in Seq(Nat)
        /\ Len(SubSeq(e, k + 1, n)) = IF k + 1 <= n THEN n - (k + 1) + 1 ELSE 0
        /\ \A i \in 1..(n - (k + 1) + 1) : SubSeq(e, k + 1, n)[i] = e[k + 1 + i - 1]
    <3>1. k + 1 \in Int /\ n \in Int
      BY <1>1, <2>1
    <3> QED
      BY <2>2, <3>1, SubSeqProperties
  <2>4. Len(SubSeq(e, k + 1, n)) = n - k
    BY <1>1, <2>1, <2>3
  <2>5. ASSUME NEW i \in 1..(n - k) PROVE SubSeq(e, k + 1, n)[i] = e[k + i]
    <3>1. i \in 1..(n - (k + 1) + 1) /\ k + 1 + i - 1 = k + i
      BY <1>1, <2>1
    <3> QED
      BY <2>3, <3>1
  <2> QED
    BY <1>2, <2>1, <2>3, <2>4, <2>5 DEF IsLast, k, n
<1>3. CASE ~(n > limit)
  <2>1. LastOf(e, limit) = e
    BY <1>3 DEF LastOf
  <2>2. 0 \in 0..n /\ n - 0 = n /\ \A i \in 1..n : 0 + i = i
    BY <1>1
  <2>3. \A i \in 1..(n - 0) : e[i] = e[0 + i]
    BY <1>1, <2>2
  <2> QED
    BY <1>3, <2>1, <2>2, <2>3 DEF IsLast
<1> QED
  BY <1>2, <1>3

\* What EntriesReadBack says of one type and one limit.
ReadBack(type, limit) ==
  LET read == ReadAuditLog(limit, type)
      due == {n \in ToSet(intact) : type \in {"", subject[n]}}
  IN  /\ ToSet(read) \subseteq due
      /\ Len(read) = IF Cardinality(due) < limit THEN Cardinality(due) ELSE limit
      /\ \A i, j \in 1..Len(read) :
           i < j /\ subject[read[i]] = subject[read[j]] => read[i] < read[j]
      /\ \A n \in due \ ToSet(read) : \A i \in 1..Len(read) :
           subject[n] = subject[read[i]] => n < read[i]

LEMMA ReadBackOne ==
  ASSUME AuditInv, NEW type, NEW limit \in Nat
  PROVE  ReadBack(type, limit)
<1> DEFINE w == WholeLines(auditFile)
           e == Picked(w, {i \in DOMAIN w : type \in {"", subject[w[i]]}})
           read == ReadAuditLog(limit, type)
           due == {n \in ToSet(intact) : type \in {"", subject[n]}}
<1>1. AuditTypes /\ FileInv /\ IntactInv
  BY DEF AuditInv
<1>2. AreEntries(e, type)
  BY <1>1, EntriesFacts
<1>3. read = LastOf(e, limit)
  BY DEF ReadAuditLog
<1>4. limit \in Nat
  OBVIOUS
<1>5. \A x : x \in due <=> x \in ToSet(intact) /\ OfType(type, x)
  BY Zenon DEF OfType
<1> HIDE DEF w, e, read, due
<1>6. e \in Seq(Nat) /\ Len(e) \in Nat
  BY <1>2 DEF AreEntries
<1>7. ASSUME NEW i \in 1..Len(e), NEW j \in 1..Len(e), i < j, subject[e[i]] = subject[e[j]]
      PROVE  e[i] < e[j]
  <2>1. PICK g \in 1..Len(auditFile), h \in 1..Len(auditFile) :
          /\ g < h /\ WholeAt(auditFile, g) /\ WholeAt(auditFile, h)
          /\ e[i] = auditFile[g].line /\ e[j] = auditFile[h].line
    BY <1>2, <1>7 DEF AreEntries
  <2> QED
    BY <1>1, <1>7, <2>1, WholeInOrder
<1>8. ToSet(intact) = {intact[j] : j \in 1..Len(intact)} /\ ToSet(e) = {e[j] : j \in 1..Len(e)}
  <2>1. intact \in Seq(Nat)
    BY <1>1 DEF AuditTypes
  <2> QED
    BY <1>6, <2>1, SetOfSequence
<1>9. ToSet(e) = due
  <2>1. ASSUME NEW j \in 1..Len(e) PROVE e[j] \in due
    <3>1. PICK i \in 1..Len(auditFile) :
            WholeAt(auditFile, i) /\ e[j] = auditFile[i].line /\ OfType(type, e[j])
      BY <1>2 DEF AreEntries
    <3>2. PICK k \in 1..Len(intact) : intact[k] = auditFile[i].line
      BY <1>1, <3>1 DEF IntactInv
    <3> QED
      BY <1>5, <1>8, <3>1, <3>2
  <2>2. ASSUME NEW x \in due PROVE \E j \in 1..Len(e) : e[j] = x
    <3>1. PICK k \in 1..Len(intact) : intact[k] = x
      BY <1>5, <1>8
    <3>2. PICK i \in 1..Len(auditFile) : WholeAt(auditFile, i) /\ auditFile[i].line = intact[k]
      BY <1>1 DEF IntactInv
    <3>3. OfType(type, auditFile[i].line)
      BY <1>5, <3>1, <3>2
    <3> QED
      BY <1>2, <3>1, <3>2, <3>3 DEF AreEntries
  <2> QED
    BY <1>8, <2>1, <2>2
<1>10. Cardinality(due) = Len(e)
  <2>1. \A i, j \in 1..Len(e) : i < j => e[i] # e[j]
    <3> SUFFICES ASSUME NEW i \in 1..Len(e), NEW j \in 1..Len(e), i < j, e[i] = e[j]
                 PROVE  FALSE
      OBVIOUS
    <3>1. e[i] < e[j] /\ e[i] \in Nat
      BY <1>6, <1>7
    <3> QED
      BY <3>1
  <2> QED
    BY <1>6, <1>9, <2>1, CountedOnce
<1>11. IsLast(read, e, limit)
  BY <1>3, <1>4, <1>6, LastOfFacts
<1> DEFINE n == Len(e)
<1>12. PICK k \in 0..n :
         /\ k = IF n > limit THEN n - limit ELSE 0
         /\ read \in Seq(Nat) /\ Len(read) = n - k
         /\ \A i \in 1..(n - k) : read[i] = e[k + i]
  BY <1>11 DEF IsLast
<1> HIDE DEF n
<1>13. n \in Nat /\ \A i \in 1..(n - k) : k + i \in 1..n
  <2>1. n \in Nat
    BY <1>6 DEF n
  <2> QED
    BY <1>12, <2>1
<1>14. ToSet(read) = {read[i] : i \in 1..(n - k)}
  BY <1>12 DEF ToSet
<1>15. ToSet(read) \subseteq due
  BY <1>8, <1>9, <1>12, <1>13, <1>14 DEF n
<1>16. Len(read) = IF n < limit THEN n ELSE limit
  BY <1>4, <1>12, <1>13
<1>17. ASSUME NEW i \in 1..Len(read), NEW j \in 1..Len(read), i < j,
              subject[read[i]] = subject[read[j]]
       PROVE  read[i] < read[j]
  <2>1. /\ k + i \in 1..n /\ k + j \in 1..n /\ k + i < k + j
        /\ read[i] = e[k + i] /\ read[j] = e[k + j]
    BY <1>12, <1>13, <1>17
  <2> QED
    BY <1>7, <1>17, <2>1 DEF n
<1>18. ASSUME NEW x \in due \ ToSet(read), NEW i \in 1..Len(read), subject[x] = subject[read[i]]
       PROVE  x < read[i]
  <2>1. PICK j \in 1..n : e[j] = x
    BY <1>8, <1>9 DEF n
  <2>2. j <= k
    <3> SUFFICES ASSUME ~(j <= k) PROVE FALSE
      OBVIOUS
    <3>1. j - k \in 1..(n - k) /\ k + (j - k) = j
      BY <1>12, <1>13
    <3>2. read[j - k] = x
      BY <1>12, <2>1, <3>1
    <3> QED
      BY <1>14, <1>18, <3>1, <3>2
  <2>3. k + i \in 1..n /\ j < k + i /\ read[i] = e[k + i]
    BY <1>12, <1>13, <2>2
  <2> QED
    BY <1>7, <1>18, <2>1, <2>3 DEF n
<1> QED
  BY <1>10, <1>15, <1>16, <1>17, <1>18, Zenon DEF read, due, n, ReadBack

\* The invariant says what a reader of the audit log gets.
LEMMA EntriesFollow == ASSUME AuditInv PROVE EntriesReadBack
<1>1. \A limit \in 0..MaxEntries : limit \in Nat
  OBVIOUS
<1>2. \A type : \A limit \in 0..MaxEntries : ReadBack(type, limit)
  BY <1>1, ReadBackOne
<1> QED
  BY <1>2, Zenon DEF EntriesReadBack, ReadBack

LEMMA AuditInitInv == ASSUME AuditInit PROVE AuditInv
<1>1. /\ subject = <<>> /\ auditFile = <<>> /\ intact = <<>>
      /\ building = [s \in AuditThreads |-> 0]
  BY DEF AuditInit
<1>2. Len(auditFile) = 0 /\ Len(intact) = 0
  BY <1>1
<1> QED
  BY <1>1, <1>2 DEF AuditInv, AuditTypes, FileInv, IntactInv, BuildInv

\* The file is as it was, and no entry is built.
LEMMA SameFileKeeps ==
  ASSUME AuditInv, UNCHANGED <<subject, auditFile, intact>>,
         building' \in [AuditThreads -> Nat],
         \A s \in AuditThreads : building'[s] = building[s] \/ building'[s] = 0
  PROVE  AuditInv'
<1>1. AuditTypes /\ FileInv /\ IntactInv /\ \A s \in AuditThreads : BuildInv(s)
  BY DEF AuditInv
<1>2. AuditTypes'
  BY <1>1 DEF AuditTypes
<1>3. FileInv'
  BY <1>1 DEF FileInv
<1>4. IntactInv'
  BY <1>1 DEF IntactInv, WholeAt
<1>5. ASSUME NEW s \in AuditThreads PROVE BuildInv(s)'
  <2>1. building'[s] = building[s] \/ building'[s] = 0
    OBVIOUS
  <2>2. BuildInv(s)
    BY <1>1
  <2> QED
    BY <2>1, <2>2 DEF BuildInv
<1> QED
  BY <1>2, <1>3, <1>4, <1>5 DEF AuditInv

\* An entry that is built is later than all that there are.
LEMMA BuildKeeps == ASSUME AuditInv, NEW s \in AuditThreads, Build(s) PROVE AuditInv'
<1> DEFINE n == Len(subject)
<1>1. AuditTypes /\ FileInv /\ IntactInv /\ \A t \in AuditThreads : BuildInv(t)
  BY DEF AuditInv
<1>2. /\ subject' = Append(subject, s)
      /\ building' = [building EXCEPT ![s] = n + 1]
      /\ UNCHANGED <<auditFile, intact>>
  BY DEF Build
<1>3. /\ n \in Nat /\ subject' \in Seq(AuditThreads) /\ Len(subject') = n + 1
      /\ subject'[n + 1] = s /\ \A i \in 1..n : subject'[i] = subject[i]
  BY <1>1, <1>2, AppendProperties DEF AuditTypes
<1>4. \A i \in 1..Len(auditFile) :
        auditFile[i].line \in 1..n /\ subject'[auditFile[i].line] = subject[auditFile[i].line]
  BY <1>1, <1>3 DEF FileInv
<1> HIDE DEF n
<1>5. \A i \in 1..n : i \in 1..Len(subject') /\ i < n + 1
  BY <1>3
<1>6. AuditTypes'
  <2>1. building' \in [AuditThreads -> Nat]
    BY <1>1, <1>2, <1>3 DEF AuditTypes
  <2> QED
    BY <1>1, <1>2, <1>3, <2>1 DEF AuditTypes
<1>7. FileInv'
  BY <1>1, <1>2, <1>4, <1>5 DEF FileInv
<1>8. IntactInv'
  BY <1>1, <1>2 DEF IntactInv, WholeAt
<1>9. ASSUME NEW t \in AuditThreads PROVE BuildInv(t)'
  <2>1. CASE t = s
    <3>1. building'[s] = n + 1
      BY <1>1, <1>2 DEF AuditTypes
    <3>2. n + 1 \in 1..Len(subject')
      BY <1>3
    <3> QED
      BY <1>2, <1>3, <1>4, <1>5, <2>1, <3>1, <3>2 DEF BuildInv
  <2>2. CASE t # s
    <3>1. building'[t] = building[t] /\ BuildInv(t)
      BY <1>1, <1>2, <2>2 DEF AuditTypes
    <3>2. building[t] \in 1..n => building[t] \in 1..Len(subject') /\ subject'[building[t]] = subject[building[t]]
      BY <1>3, <1>5
    <3> QED
      BY <1>2, <1>4, <3>1, <3>2 DEF BuildInv, n
  <2> QED
    BY <2>1, <2>2
<1> QED
  BY <1>6, <1>7, <1>8, <1>9 DEF AuditInv

\* An entry that is written, to its end or not.
LEMMA WriteKeeps ==
  ASSUME AuditInv, NEW s \in AuditThreads, building[s] # 0, NEW whl \in BOOLEAN,
         building' = [building EXCEPT ![s] = 0], UNCHANGED subject,
         auditFile' \in Seq(Pieces),
         Len(auditFile') = Len(auditFile) + (IF whl THEN 2 ELSE 1),
         \A i \in 1..Len(auditFile) : auditFile'[i] = auditFile[i],
         auditFile'[Len(auditFile) + 1] = Piece(building[s], FALSE),
         whl => auditFile'[Len(auditFile) + 2] = Piece(building[s], TRUE),
         intact' = IF whl /\ AtLineStart THEN Append(intact, building[s]) ELSE intact
  PROVE  AuditInv'
<1> DEFINE n == building[s]
           m == Len(auditFile)
           f == auditFile
           g == auditFile'
<1>1. AuditTypes /\ FileInv /\ IntactInv /\ \A t \in AuditThreads : BuildInv(t)
  BY DEF AuditInv
<1>2. /\ n \in 1..Len(subject) /\ subject[n] = s
      /\ \A i \in 1..m : subject[f[i].line] = s => f[i].line < n
      /\ n \in Nat /\ m \in Nat
  BY <1>1 DEF BuildInv, AuditTypes
<1>3. /\ g \in Seq(Pieces) /\ Len(g) = m + (IF whl THEN 2 ELSE 1)
      /\ \A i \in 1..m : g[i] = f[i]
      /\ g[m + 1].line = n /\ g[m + 1].last = FALSE
      /\ whl => g[m + 2].line = n /\ g[m + 2].last = TRUE
  BY DEF Piece
<1>4. intact' = IF whl /\ AtLineStart THEN Append(intact, n) ELSE intact
  OBVIOUS
<1>5. /\ building' \in [AuditThreads -> Nat] /\ building'[s] = 0
      /\ \A t \in AuditThreads : t # s => building'[t] = building[t]
  BY <1>1 DEF AuditTypes
<1> HIDE DEF n, m, f, g
<1>6. \A i \in 1..Len(g) : i \in 1..m \/ i = m + 1 \/ (whl /\ i = m + 2)
  BY <1>2, <1>3
<1>7. /\ \A i \in 1..m : i \in 1..Len(g)
      /\ m + 1 \in 1..Len(g) /\ (whl => m + 2 \in 1..Len(g))
      /\ m + 2 - 1 = m + 1 /\ m + 2 - 2 = m
  BY <1>2, <1>3
<1>8. AuditTypes'
  <2>1. intact' \in Seq(Nat)
    BY <1>1, <1>2, <1>4 DEF AuditTypes
  <2> QED
    BY <1>1, <1>3, <1>5, <2>1 DEF AuditTypes, g
<1>9. /\ \A i \in 1..m : f[i].line \in 1..Len(subject)
      /\ \A i \in 1..m :
           f[i].last => i > 1 /\ i - 1 \in 1..m /\ ~f[i - 1].last /\ f[i - 1].line = f[i].line
      /\ \A i, j \in 1..m : i < j /\ ~f[i].last /\ ~f[j].last /\ subject[f[i].line] = subject[f[j].line]
                              => f[i].line < f[j].line
  BY <1>1, <1>2 DEF FileInv, f, m
<1>10. \A i \in 1..Len(g) : g[i].line \in 1..Len(subject)
  BY <1>2, <1>3, <1>6, <1>9
<1>11. ASSUME NEW i \in 1..Len(g), g[i].last
       PROVE  i > 1 /\ ~g[i - 1].last /\ g[i - 1].line = g[i].line
  <2>1. CASE i \in 1..m
    BY <1>3, <1>9, <1>11, <2>1
  <2>2. CASE whl /\ i = m + 2
    BY <1>2, <1>3, <1>7, <2>2
  <2> QED
    BY <1>3, <1>6, <1>11, <2>1, <2>2
<1>12. ASSUME NEW i \in 1..Len(g), NEW j \in 1..Len(g), i < j, ~g[i].last, ~g[j].last,
              subject[g[i].line] = subject[g[j].line]
       PROVE  g[i].line < g[j].line
  <2>1. CASE j \in 1..m
    <3>1. i \in 1..m
      BY <1>2, <1>6, <1>12, <2>1
    <3> QED
      BY <1>3, <1>9, <1>12, <2>1, <3>1
  <2>2. CASE j = m + 1
    <3>1. i \in 1..m
      BY <1>2, <1>6, <1>12, <2>2
    <3> QED
      BY <1>2, <1>3, <1>12, <2>2, <3>1
  <2> QED
    BY <1>3, <1>6, <1>12, <2>1, <2>2
<1>13. FileInv'
  BY <1>10, <1>11, <1>12 DEF FileInv, g
<1>14. \A i \in 1..m : WholeAt(g, i) <=> WholeAt(f, i)
  <2> SUFFICES ASSUME NEW i \in 1..m PROVE WholeAt(g, i) <=> WholeAt(f, i)
    OBVIOUS
  <2>1. i > 1 => i - 1 \in 1..m
    BY <1>2
  <2>2. i > 1 /\ i # 2 => i - 2 \in 1..m
    BY <1>2
  <2> QED
    BY <1>3, <2>1, <2>2 DEF WholeAt
<1>15. ~WholeAt(g, m + 1)
  BY <1>3 DEF WholeAt
<1>16. AtLineStart <=> m = 0 \/ f[m].last
  <2>1. f \in Seq(Pieces) /\ (f = <<>> <=> m = 0)
    BY <1>1 DEF AuditTypes, f, m
  <2> QED
    BY <2>1 DEF AtLineStart, Last, f, m
<1>17. whl => (WholeAt(g, m + 2) <=> AtLineStart)
  <2> SUFFICES ASSUME whl PROVE WholeAt(g, m + 2) <=> AtLineStart
    OBVIOUS
  <2>1. CASE m = 0
    BY <1>2, <1>3, <1>7, <1>16, <2>1 DEF WholeAt
  <2>2. CASE m # 0
    <3>1. m \in 1..m /\ m + 2 > 1 /\ m + 2 # 2
      BY <1>2, <2>2
    <3>2. g[m] = f[m]
      BY <1>3, <3>1
    <3> QED
      BY <1>3, <1>7, <1>16, <2>2, <3>1, <3>2 DEF WholeAt
  <2> QED
    BY <2>1, <2>2
<1>18. IntactInv'
  <2>1. /\ \A j \in 1..Len(intact) : \E i \in 1..m : WholeAt(f, i) /\ f[i].line = intact[j]
        /\ \A i \in 1..m : WholeAt(f, i) => \E j \in 1..Len(intact) : intact[j] = f[i].line
    BY <1>1 DEF IntactInv, f, m
  <2>2. CASE whl /\ AtLineStart
    <3>1. /\ Len(intact) \in Nat /\ Len(intact') = Len(intact) + 1
          /\ intact'[Len(intact) + 1] = n
          /\ \A j \in 1..Len(intact) : intact'[j] = intact[j]
      BY <1>1, <1>2, <1>4, <2>2, AppendProperties DEF AuditTypes
    <3>2. ASSUME NEW j \in 1..Len(intact')
          PROVE  \E i \in 1..Len(g) : WholeAt(g, i) /\ g[i].line = intact'[j]
      <4>1. CASE j \in 1..Len(intact)
        <5>1. PICK i \in 1..m : WholeAt(f, i) /\ f[i].line = intact[j]
          BY <2>1, <4>1
        <5> QED
          BY <1>3, <1>7, <1>14, <3>1, <4>1, <5>1
      <4>2. CASE j = Len(intact) + 1
        BY <1>3, <1>7, <1>17, <2>2, <3>1, <4>2
      <4> QED
        BY <3>1, <4>1, <4>2
    <3>3. ASSUME NEW i \in 1..Len(g), WholeAt(g, i)
          PROVE  \E j \in 1..Len(intact') : intact'[j] = g[i].line
      <4>1. CASE i \in 1..m
        <5>1. PICK j \in 1..Len(intact) : intact[j] = f[i].line
          BY <1>14, <2>1, <3>3, <4>1
        <5>2. j \in 1..Len(intact')
          BY <3>1
        <5> QED
          BY <1>3, <3>1, <4>1, <5>1, <5>2
      <4>2. CASE i = m + 2
        <5>1. Len(intact) + 1 \in 1..Len(intact')
          BY <3>1
        <5> QED
          BY <1>3, <2>2, <3>1, <4>2, <5>1
      <4> QED
        BY <1>6, <1>15, <3>3, <4>1, <4>2
    <3> QED
      BY <3>2, <3>3 DEF IntactInv, g
  <2>3. CASE ~(whl /\ AtLineStart)
    <3>1. intact' = intact
      BY <1>4, <2>3
    <3>2. ASSUME NEW j \in 1..Len(intact)
          PROVE  \E i \in 1..Len(g) : WholeAt(g, i) /\ g[i].line = intact[j]
      <4>1. PICK i \in 1..m : WholeAt(f, i) /\ f[i].line = intact[j]
        BY <2>1
      <4> QED
        BY <1>3, <1>7, <1>14, <4>1
    <3>3. ASSUME NEW i \in 1..Len(g), WholeAt(g, i)
          PROVE  \E j \in 1..Len(intact) : intact[j] = g[i].line
      <4>1. i \in 1..m
        BY <1>6, <1>15, <1>17, <2>3, <3>3
      <4>2. WholeAt(f, i) /\ g[i] = f[i]
        BY <1>3, <1>14, <3>3, <4>1
      <4>3. PICK j \in 1..Len(intact) : intact[j] = f[i].line
        BY <2>1, <4>1, <4>2
      <4> QED
        BY <4>2, <4>3
    <3> QED
      BY <3>1, <3>2, <3>3 DEF IntactInv, g
  <2> QED
    BY <2>2, <2>3
<1>19. ASSUME NEW t \in AuditThreads PROVE BuildInv(t)'
  <2>1. CASE t = s
    BY <1>5, <2>1 DEF BuildInv
  <2>2. CASE t # s
    <3>1. building'[t] = building[t]
      BY <1>5, <2>2
    <3>2. building[t] # 0 =>
            /\ building[t] \in 1..Len(subject) /\ subject[building[t]] = t
            /\ \A i \in 1..m : subject[f[i].line] = t => f[i].line < building[t]
      BY <1>1 DEF BuildInv, f, m
    <3>3. \A i \in 1..Len(g) : subject[g[i].line] = t => i \in 1..m /\ g[i] = f[i]
      BY <1>2, <1>3, <1>6, <2>2
    <3> QED
      BY <3>1, <3>2, <3>3 DEF BuildInv, g
  <2> QED
    BY <2>1, <2>2
<1> QED
  BY <1>8, <1>13, <1>18, <1>19 DEF AuditInv

LEMMA HandleKeeps == ASSUME AuditInv, NEW s \in AuditThreads, Handle(s) PROVE AuditInv'
<1>1. AuditTypes /\ BuildInv(s)
  BY DEF AuditInv
<1>2. /\ building[s] # 0 /\ building' = [building EXCEPT ![s] = 0] /\ UNCHANGED subject
      /\ IF hubPhase = "closed" THEN UNCHANGED <<auditFile, intact, short>> ELSE writeEntry(building[s])
  BY DEF Handle
<1> DEFINE p == Piece(building[s], FALSE)
           q == Piece(building[s], TRUE)
<1>3. auditFile \in Seq(Pieces) /\ p \in Pieces /\ q \in Pieces /\ Len(auditFile) \in Nat
  BY <1>1, <1>2 DEF AuditTypes, Piece, Pieces
<1> HIDE DEF p, q
<1>4. CASE UNCHANGED <<auditFile, intact>>
  <2>1. /\ building' \in [AuditThreads -> Nat]
        /\ \A t \in AuditThreads : building'[t] = building[t] \/ building'[t] = 0
    BY <1>1, <1>2 DEF AuditTypes
  <2> QED
    BY <1>2, <1>4, <2>1, SameFileKeeps
<1>5. CASE /\ auditFile' = auditFile \o <<p, q>>
           /\ intact' = IF AtLineStart THEN Append(intact, building[s]) ELSE intact
  <2>1. <<p, q>> \in Seq(Pieces) /\ Len(<<p, q>>) = 2 /\ <<p, q>>[1] = p /\ <<p, q>>[2] = q
    BY <1>3
  <2> DEFINE u == <<p, q>>
             m == Len(auditFile)
  <2>2. u \in Seq(Pieces) /\ Len(u) = 2 /\ u[1] = p /\ u[2] = q /\ auditFile' = auditFile \o u
    BY <1>5, <2>1
  <2> HIDE DEF u
  <2>3. /\ auditFile \o u \in Seq(Pieces) /\ Len(auditFile \o u) = m + Len(u)
        /\ \A i \in 1..(m + Len(u)) : (auditFile \o u)[i] = IF i <= m THEN auditFile[i] ELSE u[i - m]
    BY <1>3, <2>2, ConcatProperties
  <2> HIDE DEF m
  <2>4. m \in Nat
    BY <1>3 DEF m
  <2>5. \A i \in 1..m : auditFile'[i] = auditFile[i]
    <3>1. \A i \in 1..m : i \in 1..(m + 2) /\ i <= m
      BY <2>4
    <3> QED
      BY <2>2, <2>3, <3>1
  <2>6. auditFile'[m + 1] = p /\ auditFile'[m + 2] = q
    <3>1. /\ m + 1 \in 1..(m + 2) /\ ~(m + 1 <= m) /\ (m + 1) - m = 1
          /\ m + 2 \in 1..(m + 2) /\ ~(m + 2 <= m) /\ (m + 2) - m = 2
      BY <2>4
    <3>2. \A i \in 1..(m + 2) : ~(i <= m) => auditFile'[i] = u[i - m]
      BY <2>2, <2>3
    <3>3. auditFile'[m + 1] = u[(m + 1) - m] /\ auditFile'[m + 2] = u[(m + 2) - m]
      BY <2>4, <3>1, <3>2
    <3> QED
      BY <2>2, <3>1, <3>3
  <2>7. /\ auditFile' \in Seq(Pieces)
        /\ Len(auditFile') = Len(auditFile) + (IF TRUE THEN 2 ELSE 1)
        /\ intact' = IF TRUE /\ AtLineStart THEN Append(intact, building[s]) ELSE intact
    BY <1>5, <2>2, <2>3 DEF m
  <2> QED
    BY <1>2, <2>5, <2>6, <2>7, WriteKeeps DEF m, p, q
<1>6. CASE auditFile' = Append(auditFile, p) /\ UNCHANGED intact
  <2>1. /\ auditFile' \in Seq(Pieces)
        /\ Len(auditFile') = Len(auditFile) + (IF FALSE THEN 2 ELSE 1)
        /\ \A i \in 1..Len(auditFile) : auditFile'[i] = auditFile[i]
        /\ auditFile'[Len(auditFile) + 1] = p
        /\ intact' = IF FALSE /\ AtLineStart THEN Append(intact, building[s]) ELSE intact
    BY <1>3, <1>6, AppendProperties
  <2> QED
    BY <1>2, <2>1, WriteKeeps DEF p
<1> QED
  BY <1>2, <1>4, <1>5, <1>6 DEF writeEntry, p, q

LEMMA AuditStep == ASSUME AuditInv, [AuditNext]_auditVars PROVE AuditInv'
<1>1. building \in [AuditThreads -> Nat]
  BY DEF AuditInv, AuditTypes
<1>2. CASE UNCHANGED <<subject, building, auditFile, intact>>
  BY <1>1, <1>2, SameFileKeeps
<1>3. CASE HubEnds
  <2>1. UNCHANGED <<subject, auditFile, intact>> /\ building' = [s \in AuditThreads |-> 0]
    BY <1>3 DEF HubEnds
  <2> QED
    BY <2>1, SameFileKeeps
<1>4. CASE LogEvent
  BY <1>4, BuildKeeps DEF LogEvent, AuditThreads
<1>5. ASSUME NEW s \in Subjects, buildEntry(s) PROVE AuditInv'
  BY <1>5, BuildKeeps DEF buildEntry, AuditThreads
<1>6. ASSUME NEW s \in AuditThreads, Handle(s) PROVE AuditInv'
  BY <1>6, HandleKeeps
<1> QED
  BY <1>2, <1>3, <1>4, <1>5, <1>6 DEF AuditNext, auditVars, OpenAudit, CloseAudit

\* A reader of the audit log gets the entries that were written whole, the last so many,
\* each once and in the order of their subject, whatever the hub and its disk do.
THEOREM AuditComplete == AuditSpec => []EntriesReadBack
<1>1. AuditSpec => []AuditInv
  BY AuditInitInv, AuditStep, PTL DEF AuditSpec
<1> QED
  BY <1>1, EntriesFollow, PTL

\* Both logs of the hub, side by side.
THEOREM LogsAreKept == LogsSpec /\ AuditSpec => []LogsKept
  BY FollowerComplete, AuditComplete, PTL DEF LogsKept
=============================================================================
