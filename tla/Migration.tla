---- MODULE Migration ----
(***************************************************************************)
(* The import of the version 1 JSON files into the database, run by every  *)
(* process that opens the default store (core/store.rs:                    *)
(* open_default_with_migration, migrate_legacy_json, recover_stale_jsons). *)
(*                                                                         *)
(* The flag is read, the files are read and renamed outside the            *)
(* transaction that imports them; processes start, die and import at the   *)
(* same time, and a version 1 process may still be running and writing its *)
(* files.  A "process" is one connection: the export and import dialogs of *)
(* the IBus daemon open another one.                                       *)
(***************************************************************************)
EXTENDS Integers, FiniteSets

CONSTANTS
  Procs,
  Words,          \* identities of entries and of scores
  LegacyWords,    \* the words in user_dict.json before the first start
  LegacyCounts,   \* the counts in user_scores.json before the first start
  MaxCount,       \* bound: no count is recorded beyond it
  Mishaps,        \* bound: refused store calls, unreadable files, failed renames
  V1Writes,       \* bound: writes of the version 1 process
  V1Overlaps      \* TRUE: it may write while a process is importing

ASSUME MigrationAssumption ==
  /\ LegacyWords \subseteq Words
  /\ MaxCount \in Nat /\ LegacyCounts \in [Words -> 0..MaxCount]
  /\ Mishaps \in Nat /\ V1Writes \in Nat
  /\ V1Overlaps \in BOOLEAN

VARIABLES
  entries,    \* the table user_entries
  scores,     \* the table user_scores; 0 stands for no row
  migrated,   \* the row legacy_json_migrated of meta
  dictFile,   \* user_dict.json: the set of its words; {} stands for no file
  scoresFile, \* user_scores.json: its counts; all 0 stands for no file
  pc,         \* where a process is in open_default_with_migration
  path,       \* of a process: "first" import, or "stale" files to recover
  rename,     \* of a process: the files it will rename
  readWords,  \* of a process: what it read from user_dict.json
  readCounts, \* of a process: what it read from user_scores.json
  mishaps, v1Writes,   \* how many of each have happened
  v1Words, v1Counts,   \* what the version 1 process has in memory
  deleted,    \* history: words the user has deleted since the upgrade
  recorded    \* history: how often each word was recorded since the upgrade

tables == <<entries, scores, migrated>>
files == <<dictFile, scoresFile>>
v1 == <<v1Writes, v1Words, v1Counts>>
local == <<path, rename, readWords, readCounts>>
history == <<deleted, recorded>>
vars == <<tables, files, pc, local, mishaps, v1, history>>

NoCounts == [w \in Words |-> 0]
Higher(a, b) == IF a > b THEN a ELSE b
Steps == {"down", "check", "sample", "readDict", "readScores", "commit", "renameDict",
          "renameScores", "up"}
Importing == {p \in Procs : pc[p] \notin {"down", "up"}}

Init ==
  /\ entries = {} /\ scores = NoCounts /\ migrated = FALSE
  /\ dictFile = LegacyWords /\ scoresFile = LegacyCounts
  /\ pc = [p \in Procs |-> "down"]
  /\ path = [p \in Procs |-> "first"]
  /\ rename = [p \in Procs |-> {}]
  /\ readWords = [p \in Procs |-> {}]
  /\ readCounts = [p \in Procs |-> NoCounts]
  /\ mishaps = 0 /\ v1Writes = 0
  /\ v1Words = LegacyWords /\ v1Counts = LegacyCounts
  /\ deleted = {} /\ recorded = NoCounts

Goto(p, from, to) == pc[p] = from /\ pc' = [pc EXCEPT ![p] = to]

(* One of the faults the code meets by logging it and going on.            *)
Mishap == mishaps < Mishaps /\ mishaps' = mishaps + 1

(* Mutant: the files are renamed although the import was refused.          *)
BuggyGiveUp(p) ==
  /\ pc[p] \in {"readDict", "readScores", "commit"}
  /\ Mishap
  /\ pc' = [pc EXCEPT ![p] = "renameDict"]
  /\ UNCHANGED <<tables, files, local, v1, history>>

(* The error is logged and the store is used as it is.                     *)
GiveUp(p) ==
  /\ pc[p] \in {"readDict", "readScores", "commit"}
  /\ Mishap
  /\ pc' = [pc EXCEPT ![p] = "up"]
  /\ UNCHANGED <<tables, files, local, v1, history>>

Open(p) ==
  /\ Goto(p, "down", "check")
  /\ UNCHANGED <<tables, files, local, mishaps, v1, history>>

(* is_migrated: a query that fails counts as "no".                         *)
CheckFlag(p) ==
  /\ pc[p] = "check"
  /\ \/ /\ migrated
        /\ pc' = [pc EXCEPT ![p] = "sample"]
        /\ path' = [path EXCEPT ![p] = "stale"]
        /\ UNCHANGED <<rename, mishaps>>
     \/ /\ IF migrated THEN Mishap ELSE UNCHANGED mishaps
        /\ pc' = [pc EXCEPT ![p] = "readDict"]
        /\ path' = [path EXCEPT ![p] = "first"]
        /\ rename' = [rename EXCEPT ![p] = {"dict", "scores"}]
  /\ UNCHANGED <<tables, files, readWords, readCounts, v1, history>>

(* recover_stale_jsons: the files that are there will be renamed.          *)
Sample(p) ==
  LET found == {f \in {"dict", "scores"} :
                  IF f = "dict" THEN dictFile # {} ELSE scoresFile # NoCounts}
  IN /\ Goto(p, "sample", IF found = {} THEN "up" ELSE "readDict")
     /\ rename' = [rename EXCEPT ![p] = found]
     /\ UNCHANGED <<tables, files, path, readWords, readCounts, mishaps, v1, history>>

ReadDict(p) ==
  /\ Goto(p, "readDict", "readScores")
  /\ readWords' = [readWords EXCEPT ![p] = IF "dict" \in rename[p] THEN dictFile ELSE {}]
  /\ UNCHANGED <<tables, files, path, rename, readCounts, mishaps, v1, history>>

ReadScores(p) ==
  /\ Goto(p, "readScores", "commit")
  /\ readCounts' = [readCounts EXCEPT ![p] =
                      IF "scores" \in rename[p] THEN scoresFile ELSE NoCounts]
  /\ UNCHANGED <<tables, files, path, rename, readWords, mishaps, v1, history>>

(* Mutant: the counts of a stale file are added to the table's.            *)
BuggyMerged(p, w) ==
  IF readCounts[p][w] = 0 THEN scores[w]
  ELSE IF path[p] = "first" THEN readCounts[p][w]
  ELSE scores[w] + readCounts[p][w]

(* The count a word has after the import: the first import overwrites, a   *)
(* recovery takes the higher one.                                          *)
Merged(p, w) ==
  IF readCounts[p][w] = 0 THEN scores[w]
  ELSE IF path[p] = "first" THEN readCounts[p][w]
  ELSE Higher(scores[w], readCounts[p][w])

(* INSERT OR IGNORE of the words, the counts and the flag, in one          *)
(* transaction.                                                            *)
Commit(p) ==
  /\ Goto(p, "commit", "renameDict")
  /\ entries' = entries \cup readWords[p]
  /\ scores' = [w \in Words |-> Merged(p, w)]
  /\ migrated' = TRUE
  /\ UNCHANGED <<files, local, mishaps, v1, history>>

(* A file that was renamed by somebody else, or not there to begin with,   *)
(* is left alone; a rename that fails is ignored.                          *)
RenameDict(p) ==
  /\ Goto(p, "renameDict", "renameScores")
  /\ \/ /\ dictFile' = IF "dict" \in rename[p] THEN {} ELSE dictFile
        /\ UNCHANGED mishaps
     \/ /\ "dict" \in rename[p] /\ dictFile # {}
        /\ Mishap
        /\ UNCHANGED dictFile
  /\ UNCHANGED <<tables, scoresFile, local, v1, history>>

RenameScores(p) ==
  /\ Goto(p, "renameScores", "up")
  /\ \/ /\ scoresFile' = IF "scores" \in rename[p] THEN NoCounts ELSE scoresFile
        /\ UNCHANGED mishaps
     \/ /\ "scores" \in rename[p] /\ scoresFile # NoCounts
        /\ Mishap
        /\ UNCHANGED scoresFile
  /\ UNCHANGED <<tables, dictFile, local, v1, history>>

(* The process ends, or dies wherever it is.                               *)
Die(p) ==
  /\ pc[p] # "down"
  /\ pc' = [pc EXCEPT ![p] = "down"]
  /\ path' = [path EXCEPT ![p] = "first"]
  /\ rename' = [rename EXCEPT ![p] = {}]
  /\ readWords' = [readWords EXCEPT ![p] = {}]
  /\ readCounts' = [readCounts EXCEPT ![p] = NoCounts]
  /\ UNCHANGED <<tables, files, mishaps, v1, history>>

(* What a process with the store open does to the tables: the user deletes *)
(* a word, or commits one.                                                 *)
DeleteWord(p, w) ==
  /\ pc[p] = "up"
  /\ w \in entries
  /\ entries' = entries \ {w}
  /\ deleted' = deleted \cup {w}
  /\ UNCHANGED <<scores, migrated, files, pc, local, mishaps, v1, recorded>>

RecordWord(p, w) ==
  /\ pc[p] = "up"
  /\ scores[w] < MaxCount /\ recorded[w] < MaxCount
  /\ scores' = [scores EXCEPT ![w] = @ + 1]
  /\ recorded' = [recorded EXCEPT ![w] = @ + 1]
  /\ UNCHANGED <<entries, migrated, files, pc, local, mishaps, v1, deleted>>

(* The version 1 process writes a whole file from what it has in memory.   *)
V1Quiet == V1Overlaps \/ Importing = {}

V1Register(w) ==
  /\ v1Writes < V1Writes /\ V1Quiet
  /\ v1Writes' = v1Writes + 1
  /\ v1Words' = v1Words \cup {w}
  /\ dictFile' = v1Words'
  /\ UNCHANGED <<tables, scoresFile, pc, local, mishaps, v1Counts, history>>

V1Record(w) ==
  /\ v1Writes < V1Writes /\ V1Quiet
  /\ v1Counts[w] < MaxCount
  /\ v1Writes' = v1Writes + 1
  /\ v1Counts' = [v1Counts EXCEPT ![w] = @ + 1]
  /\ scoresFile' = v1Counts'
  /\ UNCHANGED <<tables, dictFile, pc, local, mishaps, v1Words, history>>

Next ==
  \/ \E p \in Procs :
       \/ Open(p) \/ CheckFlag(p) \/ Sample(p) \/ ReadDict(p) \/ ReadScores(p)
       \/ Commit(p) \/ RenameDict(p) \/ RenameScores(p) \/ GiveUp(p) \/ Die(p)
       \/ \E w \in Words : DeleteWord(p, w) \/ RecordWord(p, w)
  \/ \E w \in Words : V1Register(w) \/ V1Record(w)

Spec == Init /\ [][Next]_vars

-----------------------------------------------------------------------------
TypeOK ==
  /\ entries \subseteq Words
  /\ scores \in [Words -> 0..MaxCount]
  /\ migrated \in BOOLEAN
  /\ dictFile \subseteq Words /\ scoresFile \in [Words -> 0..MaxCount]
  /\ pc \in [Procs -> Steps]
  /\ path \in [Procs -> {"first", "stale"}]
  /\ rename \in [Procs -> SUBSET {"dict", "scores"}]
  /\ readWords \in [Procs -> SUBSET Words]
  /\ readCounts \in [Procs -> [Words -> 0..MaxCount]]
  /\ mishaps \in 0..Mishaps /\ v1Writes \in 0..V1Writes
  /\ v1Words \subseteq Words /\ v1Counts \in [Words -> 0..MaxCount]
  /\ deleted \subseteq Words /\ recorded \in [Words -> 0..MaxCount]

(* A word or a count that version 1 has written is in the table, or still  *)
(* in the file for the next start to import, whoever died where and        *)
(* whatever was refused; only the user makes a word go.                    *)
LegacyKept ==
  /\ \A w \in v1Words \ deleted : w \in entries \cup dictFile
  /\ \A w \in Words : Higher(scores[w], scoresFile[w]) >= v1Counts[w]

(* "Recover keystrokes captured only by the stale process without double-  *)
(* counting keystrokes already recorded in SQLite": a count never exceeds  *)
(* what version 1 counted plus what was recorded since, although files may *)
(* be imported again after a crash or a failed rename.                     *)
NotCountedTwice == \A w \in Words : scores[w] <= v1Counts[w] + recorded[w]

(* "Idempotent: a meta flag prevents repeated runs": once the import has   *)
(* been made, no later step of an import takes back what was recorded.     *)
FlagPreventsRerun ==
  [][migrated => \A w \in Words : scores'[w] >= scores[w]]_vars

(* "Existing SQLite entries win on conflict - the v2.0+ engine is the      *)
(* source of truth": a word the user has deleted does not come back out of *)
(* a file the engine has already imported.                                 *)
DeletedStaysDeleted == entries \cap deleted = {}
====
