---------------------------- MODULE UserLearning ----------------------------
(***************************************************************************)
(* What the user's choices teach: the tables user_scores and                *)
(* user_segmentations of the SQLite store (src/src/core/store.rs), and the  *)
(* maps that every process loads from them at its start and keeps in step   *)
(* with its own writes (src/src/core/user_scorer.rs).  Two processes, the   *)
(* Fcitx5 addon and the IBus engine, may share one store.                   *)
(*                                                                          *)
(* A table is the sequence of its rows in the order of their ROWIDs; a      *)
(* write and the eviction after it are one transaction.  A process stops at *)
(* any time, in a crash or not.                                             *)
(***************************************************************************)
EXTENDS Naturals, Sequences, FiniteSets, Ordered

CONSTANTS
  Processes,
  Words,         \* keys of user_scores: a reading and a surface
  Phrases,       \* keys of user_segmentations: kana
  Layouts,       \* boundaries of the segments of a phrase
  NoLayout,
  ScoreCap,      \* MAX_USER_SCORES
  LayoutCap,     \* MAX_USER_SEGMENTATIONS
  MaxCount,      \* bound: count of a row
  StoreMayFail   \* the store may refuse a write or a load

VARIABLES
  scores,     \* rows of user_scores
  layouts,    \* rows of user_segmentations
  mode,       \* state of every process
  counts,     \* its counts: 0 where it has none
  learned,    \* its segmentations
  forgotten   \* phrases whose layout was last forgotten, not learned

vars == <<scores, layouts, mode, counts, learned, forgotten>>

-----------------------------------------------------------------------------
(* Tables                                                                   *)

ScoreRow(w) == [key |-> w, count |-> 1]
LayoutRow(f, l) == [key |-> f, count |-> 1, layout |-> l]

Keys(table) == {table[i].key : i \in DOMAIN table}
RowOf(table, k) == table[CHOOSE i \in DOMAIN table : table[i].key = k]
Without(table, keys) ==
  Retained(table, {table[i] : i \in {j \in DOMAIN table : table[j].key \notin keys}})

\* INSERT, ON CONFLICT DO UPDATE count + 1 and the new data.
Upserted(table, row) ==
  IF row.key \in Keys(table)
    THEN [i \in DOMAIN table |->
            IF table[i].key = row.key
              THEN [row EXCEPT !.count = table[i].count + 1] ELSE table[i]]
    ELSE Append(table, row)

Excess(table, cap) == IF Len(table) <= cap THEN 0 ELSE Len(table) - cap

\* Mutant: the oldest rows go, however often they were used.
OldestEvicted(table, k, cap) ==
  LET others == {i \in DOMAIN table : table[i].key # k}
      older == {x \in others \X others : x[1] < x[2]}
  IN  {table[i].key : i \in {j \in others : Place(j, others, older) <= Excess(table, cap)}}

\* ORDER BY count ASC, ROWID ASC.
Weaker(table, rowids) ==
  {x \in rowids \X rowids :
     \/ table[x[1]].count < table[x[2]].count
     \/ table[x[1]].count = table[x[2]].count /\ x[1] < x[2]}

\* enforce_row_cap: the keys of the rows that exceed the cap, weakest and
\* oldest first, but for the row of k, which was just written.
Evicted(table, k, cap) ==
  LET others == {i \in DOMAIN table : table[i].key # k}
      Victim(i) == Place(i, others, Weaker(table, others)) <= Excess(table, cap)
  IN  {table[i].key : i \in {j \in others : Victim(j)}}

\* What a process loads.
CountsOf(table) ==
  [w \in Words |-> IF w \in Keys(table) THEN RowOf(table, w).count ELSE 0]
LayoutsOf(table) ==
  [f \in Phrases |-> IF f \in Keys(table) THEN RowOf(table, f).layout
                     ELSE NoLayout]

-----------------------------------------------------------------------------
Tables(keys, cap) ==
  UNION {{t \in [1 .. n -> keys] : \A i, j \in 1 .. n : i # j => t[i] # t[j]} :
         n \in 0 .. cap + 1}

NoCounts == [w \in Words |-> 0]
NoLayouts == [f \in Phrases |-> NoLayout]

\* A store as an earlier session or the import of legacy files leaves it;
\* the import does not heed the caps.
Init ==
  /\ \E keys \in Tables(Words, ScoreCap) :
       \E n \in [DOMAIN keys -> 1 .. MaxCount] :
         scores = [i \in DOMAIN keys |-> [key |-> keys[i], count |-> n[i]]]
  /\ \E keys \in Tables(Phrases, LayoutCap) :
       \E l \in [DOMAIN keys -> Layouts] :
         layouts = [i \in DOMAIN keys |-> LayoutRow(keys[i], l[i])]
  /\ mode = [p \in Processes |-> "stopped"]
  /\ counts = [p \in Processes |-> NoCounts]
  /\ learned = [p \in Processes |-> NoLayouts]
  /\ forgotten = {}

Running(p) == mode[p] # "stopped"

\* from_store; without it SharedCore learns in memory only.
Start(p) ==
  /\ mode[p] = "stopped"
  /\ \/ /\ mode' = [mode EXCEPT ![p] = "attached"]
        /\ counts' = [counts EXCEPT ![p] = CountsOf(scores)]
        /\ learned' = [learned EXCEPT ![p] = LayoutsOf(layouts)]
     \/ /\ StoreMayFail
        /\ mode' = [mode EXCEPT ![p] = "detached"]
        /\ UNCHANGED <<counts, learned>>
  /\ UNCHANGED <<scores, layouts, forgotten>>

Stop(p) ==
  /\ Running(p)
  /\ mode' = [mode EXCEPT ![p] = "stopped"]
  /\ counts' = [counts EXCEPT ![p] = NoCounts]
  /\ learned' = [learned EXCEPT ![p] = NoLayouts]
  /\ UNCHANGED <<scores, layouts, forgotten>>

\* record, for a candidate the user chose.  When the store refuses, memory
\* stays as it is.
Record(p, w) ==
  /\ mode[p] = "attached"
  /\ w \in Keys(scores) => RowOf(scores, w).count < MaxCount
  /\ counts[p][w] < MaxCount
  /\ LET written == Upserted(scores, ScoreRow(w))
         evicted == Evicted(written, w, ScoreCap)
     IN  /\ scores' = Without(written, evicted)
         /\ counts' = [counts EXCEPT ![p] =
                         [v \in Words |->
                            IF v \in evicted THEN 0
                            ELSE IF v = w THEN counts[p][v] + 1
                            ELSE counts[p][v]]]
  /\ UNCHANGED <<layouts, mode, learned, forgotten>>

RecordDetached(p, w) ==
  /\ mode[p] = "detached"
  /\ counts[p][w] < MaxCount
  /\ counts' = [counts EXCEPT ![p][w] = @ + 1]
  /\ UNCHANGED <<scores, layouts, mode, learned, forgotten>>

\* Mutant: memory learns first, and keeps it when the store refuses.
BuggyRecordLayout(p, f, l) ==
  /\ mode[p] = "attached"
  /\ f \in Keys(layouts) => RowOf(layouts, f).count < MaxCount
  /\ learned' = [learned EXCEPT ![p][f] = l]
  /\ \/ LET written == Upserted(layouts, LayoutRow(f, l))
        IN  layouts' = Without(written, Evicted(written, f, LayoutCap))
     \/ UNCHANGED layouts
  /\ forgotten' = forgotten \ {f}
  /\ UNCHANGED <<scores, mode, counts>>

\* record_segmentation, for a layout that is new or was confirmed.
RecordLayout(p, f, l) ==
  /\ mode[p] = "attached"
  /\ f \in Keys(layouts) => RowOf(layouts, f).count < MaxCount
  /\ LET written == Upserted(layouts, LayoutRow(f, l))
         evicted == Evicted(written, f, LayoutCap)
     IN  /\ layouts' = Without(written, evicted)
         /\ learned' = [learned EXCEPT ![p] =
                          [g \in Phrases |->
                             IF g \in evicted THEN NoLayout
                             ELSE IF g = f THEN l ELSE learned[p][g]]]
  /\ forgotten' = forgotten \ {f}
  /\ UNCHANGED <<scores, mode, counts>>

RecordLayoutDetached(p, f, l) ==
  /\ mode[p] = "detached"
  /\ learned' = [learned EXCEPT ![p][f] = l]
  /\ UNCHANGED <<scores, layouts, mode, counts, forgotten>>

\* forget_segmentation: memory first; a store that refuses is only logged.
ForgetLayout(p, f) ==
  /\ Running(p)
  /\ learned[p][f] # NoLayout
  /\ learned' = [learned EXCEPT ![p][f] = NoLayout]
  /\ IF mode[p] = "attached"
       THEN /\ \/ layouts' = Without(layouts, {f})
               \/ StoreMayFail /\ UNCHANGED layouts
            /\ forgotten' = forgotten \cup {f}
       ELSE UNCHANGED <<layouts, forgotten>>
  /\ UNCHANGED <<scores, mode, counts>>

\* clear_scores: both tables in one transaction, then memory; nothing when
\* the store refuses.
Clear(p) ==
  /\ Running(p)
  /\ IF mode[p] = "attached" THEN scores' = <<>> /\ layouts' = <<>>
     ELSE UNCHANGED <<scores, layouts>>
  /\ counts' = [counts EXCEPT ![p] = NoCounts]
  /\ learned' = [learned EXCEPT ![p] = NoLayouts]
  /\ UNCHANGED <<mode, forgotten>>

Next ==
  \E p \in Processes :
    \/ Start(p) \/ Stop(p) \/ Clear(p)
    \/ \E w \in Words : Record(p, w) \/ RecordDetached(p, w)
    \/ \E f \in Phrases :
         \/ ForgetLayout(p, f)
         \/ \E l \in Layouts : RecordLayout(p, f, l) \/ RecordLayoutDetached(p, f, l)

Spec == Init /\ [][Next]_vars

-----------------------------------------------------------------------------
(* Properties                                                               *)

NoKeyTwice(table) ==
  \A i, j \in DOMAIN table : table[i].key = table[j].key => i = j

TypeOK ==
  /\ scores \in Seq([key : Words, count : 1 .. MaxCount]) /\ NoKeyTwice(scores)
  /\ layouts \in Seq([key : Phrases, count : 1 .. MaxCount, layout : Layouts])
  /\ NoKeyTwice(layouts)
  /\ mode \in [Processes -> {"stopped", "attached", "detached"}]
  /\ counts \in [Processes -> [Words -> 0 .. MaxCount]]
  /\ learned \in [Processes -> [Phrases -> Layouts \cup {NoLayout}]]
  /\ forgotten \subseteq Phrases

\* A process by itself has learned nothing that its store does not have: what
\* it acts on, a restart brings back, with the same weight, whatever the store
\* evicted or refused and whatever was cleared.
NoPhantomLearning ==
  \A p \in Processes : mode[p] = "attached" =>
    /\ \A w \in Words : counts[p][w] > 0 =>
         w \in Keys(scores) /\ RowOf(scores, w).count = counts[p][w]
    /\ \A f \in Phrases : learned[p][f] # NoLayout =>
         f \in Keys(layouts) /\ RowOf(layouts, f).layout = learned[p][f]

\* What was just learned is not evicted by its own write, and then the table
\* is within its cap, even if an import had overfilled it; and no choice the
\* user has made more often than another is evicted before it.
EvictsWeakest ==
  [][\A p \in Processes, w \in Words : Record(p, w) =>
       /\ w \in Keys(scores') /\ Len(scores') <= ScoreCap
       /\ \A i \in DOMAIN scores, j \in DOMAIN scores' :
            scores[i].key \notin Keys(scores') /\ scores'[j].key # w
              => scores[i].count <= scores'[j].count]_vars

\* The comment on record (user_scorer.rs:54-57): what memory answers no longer
\* diverges from the store when rows are evicted.
NoEvictedInMemory ==
  \A p \in Processes : mode[p] = "attached" =>
    \A w \in Words : counts[p][w] > 0 => w \in Keys(scores)

\* The doc of forget_segmentation (user_scorer.rs:157-162): a layout that is
\* dropped is dropped from memory and the store, and does not come back.
StaysForgotten ==
  \A p \in Processes, f \in Phrases :
    mode[p] = "attached" /\ f \in forgotten => learned[p][f] = NoLayout
=============================================================================
