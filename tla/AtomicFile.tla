----------------------------- MODULE AtomicFile -----------------------------
(***************************************************************************)
(* A configuration file that several goroutines rewrite "atomically":      *)
(* os.WriteFile to one and the same <path>.tmp, then os.Rename             *)
(* (config/cron.go WriteCronConfig, config/config.go writeRuntimeTOML).    *)
(* os.WriteFile opens and truncates, then writes; a writer's descriptor    *)
(* follows the inode when another writer's rename moves it.                *)
(*                                                                         *)
(* A file's content is a value, or torn: it does not parse.                *)
(***************************************************************************)
EXTENDS Integers, FiniteSets

CONSTANTS
  Threads,   \* goroutines that may write
  EmptyValue \* what an empty or missing file is read as

VARIABLES
  file, \* content under the path
  tmp,  \* content under <path>.tmp, or NoTmp
  fd    \* thread -> where its open file is: "none", "tmp", "file" or "unlinked"

fileVars == <<file, tmp, fd>>

Content(value) == [value |-> value, torn |-> FALSE]
Empty == Content(EmptyValue)
Torn == [value |-> EmptyValue, torn |-> TRUE]
NoTmp == [value |-> EmptyValue, torn |-> TRUE, none |-> TRUE]

FileInit(value) ==
  /\ file = Content(value) /\ tmp = NoTmp
  /\ fd = [t \in Threads |-> "none"]

\* os.WriteFile, first half.
OpenTmp(t) ==
  /\ tmp' = Empty
  /\ fd' = [fd EXCEPT ![t] = "tmp"]
  /\ UNCHANGED file

\* Writing over another writer's bytes may leave the tail of a longer content.
Written(old, value) ==
  IF old = Empty THEN {Content(value)} ELSE {Content(value), Torn}

\* os.WriteFile, second half.
WriteTmp(t, value) ==
  /\ IF fd[t] = "tmp" THEN tmp' \in Written(tmp, value) ELSE UNCHANGED tmp
  /\ IF fd[t] = "file" THEN file' \in Written(file, value) ELSE UNCHANGED file
  /\ fd' = [fd EXCEPT ![t] = "none"]

\* Whoever comes second finds no tmp file: its rename fails.
CanRename == tmp # NoTmp

RenameTmp ==
  /\ file' = tmp
  /\ tmp' = NoTmp
  /\ fd' = [t \in Threads |-> CASE fd[t] = "tmp" -> "file"
                                [] fd[t] = "file" -> "unlinked"
                                [] OTHER -> fd[t]]

\* The process of the threads ts dies; the files stay.
Die(ts) ==
  /\ fd' = [t \in Threads |-> IF t \in ts THEN "none" ELSE fd[t]]
  /\ UNCHANGED <<file, tmp>>
=============================================================================
