-------------------------------- MODULE Store --------------------------------
(* The SQLite store: the import of the files of version 1 (Migration), and    *)
(* what processes keep in memory of the tables of learned choices             *)
(* (UserLearning) and of user entries (UserDictionary).  Once the import is   *)
(* over the tables are independent of each other.                             *)
EXTENDS Migration, Sequences, Functions

CONSTANTS
  Learners, Choices, Phrases, Layouts, NoLayout, ScoreCap, LayoutCap, TopCount,
  Users, ReadingOf, Builtin, Typed, Files, Dialogs, None, StoreMayFail

VARIABLES
  scoreRows, layoutRows, mode, counts, learned, forgotten,
  rows, state, userEntries, posting, picked, current

learningVars == <<scoreRows, layoutRows, mode, counts, learned, forgotten>>
wordVars == <<rows, state, userEntries, posting, picked, current>>

Learning == INSTANCE UserLearning WITH
  Processes <- Learners, Words <- Choices, MaxCount <- TopCount,
  scores <- scoreRows, layouts <- layoutRows

UserWords == INSTANCE UserDictionary WITH
  Procs <- Users, entries <- userEntries

ASSUME LearningAssumption ==
  /\ ScoreCap \in Nat \ {0} /\ LayoutCap \in Nat \ {0} /\ TopCount \in Nat \ {0}
  /\ NoLayout \notin Layouts

FileEntries == [word : Words, frequency : Nat]

ASSUME WordsAssumption ==
  /\ DOMAIN ReadingOf = Words
  /\ Builtin \in Seq(FileEntries) /\ Typed \in Nat /\ Files \subseteq Seq(FileEntries)
  /\ None \notin Words

\* Memory has learned nothing the store does not have (UserLearning).
NoPhantomLearning == Learning!NoPhantomLearning

\* The row just learned stays, the weakest goes (UserLearning).
EvictsWeakest == Learning!EvictsWeakest

\* Memory and rows agree on the words nobody else wrote (UserDictionary).
MemoryIsStore == UserWords!MemoryIsStore

\* A lookup answers the most frequent entry first (UserDictionary).
LookupByFrequency == UserWords!LookupByFrequency

\* Nobody deletes a word it has not listed (UserDictionary).
OthersWordsSurvive == UserWords!OthersWordsSurvive
=============================================================================
