---- MODULE UserDictionary ----
(***************************************************************************)
(* The user's own words: the user part of Dictionary with its trie, and    *)
(* the table user_entries of DictStore (core/dictionary/mod.rs,            *)
(* core/dictionary/trie.rs, core/store.rs).                                *)
(*                                                                         *)
(* Every process (the IBus daemon, Fcitx5, the command line) loads the     *)
(* table once, keeps its own copy in memory and writes single rows         *)
(* through.  A call holds the dictionary's write lock and a store call is  *)
(* one statement or one transaction, so a call is one step; an import,     *)
(* which upserts row after row, is cut short where the store refuses.      *)
(* The dialogs are not: they pick a word from a list and delete or edit it *)
(* later, when other dialogs may have changed the words.                   *)
(***************************************************************************)
EXTENDS Integers, Sequences, FiniteSets, Functions, Ordered

CONSTANTS
  Procs,        \* processes that share the database
  Words,        \* identities of entries: (reading, surface)
  ReadingOf,    \* the reading of a word
  Builtin,      \* the entries of the built-in dictionary, in load order
  Typed,        \* the frequency a registered word gets (8000)
  Files,        \* contents of the files that may be imported
  Dialogs,      \* dictionary-manager dialogs a process can have open
  None,         \* the dialog is closed
  StoreMayFail  \* TRUE: any call to the store may be refused

VARIABLES
  rows,      \* the table user_entries: a function from words to frequencies
  state,     \* of a process: "down", "attached" or "detached" (no store)
  entries,   \* of a process: Dictionary::entries from user_start on
  posting,   \* of a process: the trie's posting list of every reading
  picked,    \* of a process: the word each of its dialogs has picked
  current    \* history: the words whose rows nobody else has written since
             \* this process read or wrote them

vars == <<rows, state, entries, posting, picked, current>>

Readings == {ReadingOf[w] : w \in Words}
Entry(w, f) == [word |-> w, frequency |-> f]
AllFrequencies == {Typed} \cup {e.frequency : e \in UNION {Range(s) : s \in Files \cup {Builtin}}}
Entries == [word : Words, frequency : AllFrequencies]
UserStart == Len(Builtin)

-----------------------------------------------------------------------------
(* The entries in memory and the trie.  A dictionary is a record           *)
(* [user, lists]: the user's entries and the posting lists, which hold     *)
(* indices into Builtin \o user.                                           *)

AllEntries(d) == Builtin \o d.user

(* sort_by on descending frequency, which is stable.                       *)
ByFrequency(ixs, all) ==
  LET places == 1..Len(ixs)
      before == {x \in places \X places :
                   \/ all[ixs[x[1]]].frequency > all[ixs[x[2]]].frequency
                   \/ /\ all[ixs[x[1]]].frequency = all[ixs[x[2]]].frequency
                      /\ x[1] < x[2]}
      order == InOrder(places, before)
  IN [r \in places |-> ixs[order[r]]]

Resort(d, reading) ==
  [d EXCEPT !.lists[reading] = ByFrequency(@, AllEntries(d))]

AddEntry(d, e) ==
  LET reading == ReadingOf[e.word]
      longer  == [user  |-> Append(d.user, e),
                  lists |-> [d.lists EXCEPT ![reading] =
                               Append(@, UserStart + Len(d.user) + 1)]]
  IN Resort(longer, reading)

WithoutUser(d) ==
  [user  |-> <<>>,
   lists |-> [r \in Readings |-> Retained(d.lists[r], 1..UserStart)]]

(* add_entry for one entry after the other.                                *)
Added(d, es) ==
  LET after[n \in 0..Len(es)] ==
        IF n = 0 THEN d ELSE AddEntry(after[n - 1], es[n])
  IN after[Len(es)]

ReplaceUserEntries(d, es) == Added(WithoutUser(d), es)

(* Dictionary::new: the built-in words, sorted once.                       *)
NewDictionary ==
  LET IndicesOf(r) == Retained([i \in 1..UserStart |-> i],
                               {i \in 1..UserStart : ReadingOf[Builtin[i].word] = r})
  IN [user  |-> <<>>,
      lists |-> [r \in Readings |-> ByFrequency(IndicesOf(r), Builtin)]]

HasUserEntry(d, w) == \E i \in DOMAIN d.user : d.user[i].word = w
HasEntry(d, w) ==
  \E i \in Range(d.lists[ReadingOf[w]]) : AllEntries(d)[i].word = w

FrequencyOf(d, w) ==
  d.user[CHOOSE i \in DOMAIN d.user : d.user[i].word = w].frequency

(* The user's entries with the frequency of w overwritten.                 *)
Overwritten(user, e) ==
  [i \in DOMAIN user |-> IF user[i].word = e.word THEN e ELSE user[i]]

(* Mutant: an overwritten frequency does not resort the posting list.      *)
BuggyUpserted(d, e) ==
  IF HasUserEntry(d, e.word)
  THEN [d EXCEPT !.user = Overwritten(@, e)]
  ELSE AddEntry(d, e)

(* The half of add_user_entry_and_persist that changes memory.             *)
Upserted(d, e) ==
  IF HasUserEntry(d, e.word)
  THEN Resort([d EXCEPT !.user = Overwritten(@, e)], ReadingOf[e.word])
  ELSE AddEntry(d, e)

Without(user, w) == Retained(user, {e \in Range(user) : e.word # w})

(* Mutant: a word that is already there keeps its old frequency.           *)
StaleRenamed(d, old, new) ==
  LET e    == Entry(new, FrequencyOf(d, old))
      kept == Without(d.user, old)
  IN ReplaceUserEntries(d,
       IF \E i \in DOMAIN kept : kept[i].word = new THEN kept ELSE Append(kept, e))

(* The half of update_user_entry_and_persist that changes memory.          *)
Renamed(d, old, new) ==
  LET e    == Entry(new, FrequencyOf(d, old))
      kept == Without(d.user, old)
  IN ReplaceUserEntries(d,
       IF \E i \in DOMAIN kept : kept[i].word = new
       THEN Overwritten(kept, e) ELSE Append(kept, e))

(* The entries of a file that import_and_persist adds, in their order.     *)
Fresh(d, file) ==
  LET Known(i) == \/ HasEntry(d, file[i].word)
                  \/ \E j \in 1..(i - 1) : file[j].word = file[i].word
      fresh == Retained([i \in DOMAIN file |-> i], {i \in DOMAIN file : ~Known(i)})
  IN [k \in DOMAIN fresh |-> file[fresh[k]]]

-----------------------------------------------------------------------------
(* The table.                                                              *)

Upsert(table, e) ==
  [w \in DOMAIN table \cup {e.word} |-> IF w = e.word THEN e.frequency ELSE table[w]]
(* One upsert after the other, of different words.                         *)
Upserts(table, es) ==
  [w \in DOMAIN table \cup {es[i].word : i \in DOMAIN es} |->
     IF \E i \in DOMAIN es : es[i].word = w
     THEN es[CHOOSE i \in DOMAIN es : es[i].word = w].frequency ELSE table[w]]
Delete(table, w) == [v \in DOMAIN table \ {w} |-> table[v]]

-----------------------------------------------------------------------------
DictionaryOf(p) == [user |-> entries[p], lists |-> posting[p]]

(* The process's copy becomes d.                                           *)
Remember(p, d) ==
  /\ entries' = [entries EXCEPT ![p] = d.user]
  /\ posting' = [posting EXCEPT ![p] = d.lists]

(* The rows of the words ws were written by p.                             *)
Wrote(p, ws) ==
  current' = [q \in Procs |-> IF q = p THEN current[q] \cup ws ELSE current[q] \ ws]

Up(p) == state[p] # "down"

Init ==
  /\ rows = <<>>
  /\ state = [p \in Procs |-> "down"]
  /\ entries = [p \in Procs |-> <<>>]
  /\ posting = [p \in Procs |-> NewDictionary.lists]
  /\ picked = [p \in Procs |-> [d \in Dialogs |-> None]]
  /\ current = [p \in Procs |-> {}]

(* SharedCore::global: the store opens and its rows are loaded, in the     *)
(* order the database gives them.                                          *)
StartLoaded(p) ==
  /\ state[p] = "down"
  /\ \E order \in Bijection(1..Cardinality(DOMAIN rows), DOMAIN rows) :
       Remember(p, Added(NewDictionary,
                     [i \in DOMAIN order |-> Entry(order[i], rows[order[i]])]))
  /\ state' = [state EXCEPT ![p] = "attached"]
  /\ current' = [current EXCEPT ![p] = Words]
  /\ UNCHANGED <<rows, picked>>

(* The store does not open, or opens but cannot be read: the process goes  *)
(* on without the user's words, and in the second case still writes them.  *)
StartEmpty(p) ==
  /\ state[p] = "down"
  /\ StoreMayFail
  /\ \E s \in {"attached", "detached"} : state' = [state EXCEPT ![p] = s]
  /\ Remember(p, NewDictionary)
  /\ current' = [current EXCEPT ![p] = {}]
  /\ UNCHANGED <<rows, picked>>

Stop(p) ==
  /\ Up(p)
  /\ state' = [state EXCEPT ![p] = "down"]
  /\ Remember(p, NewDictionary)
  /\ picked' = [picked EXCEPT ![p] = [d \in Dialogs |-> None]]
  /\ current' = [current EXCEPT ![p] = {}]
  /\ UNCHANGED rows

(* add_user_entry_and_persist, for the word a register dialog returns.     *)
Add(p, w) ==
  LET e == Entry(w, Typed)
  IN /\ Up(p)
     /\ Remember(p, Upserted(DictionaryOf(p), e))
     /\ IF state[p] = "attached"
        THEN rows' = Upsert(rows, e) /\ Wrote(p, {w})
        ELSE UNCHANGED <<rows, current>>
     /\ UNCHANGED <<state, picked>>

(* A manager dialog lists the words in memory and the user picks one.      *)
Pick(p, d) ==
  /\ Up(p)
  /\ picked[p][d] = None
  /\ \E e \in Range(entries[p]) : picked' = [picked EXCEPT ![p][d] = e.word]
  /\ UNCHANGED <<rows, state, entries, posting, current>>

Close(p, d) == picked' = [picked EXCEPT ![p][d] = None]

(* The dialog is dismissed; or its word is gone from memory and the call   *)
(* returns Ok(false); or the store refuses and the call stops there.       *)
Dismiss(p, d) ==
  /\ picked[p][d] # None
  /\ Close(p, d)
  /\ UNCHANGED <<rows, state, entries, posting, current>>

(* Mutant: the whole table is replaced by this process's entries.          *)
SyncingRemoveEntry(p, d) ==
  LET w    == picked[p][d]
      kept == Without(entries[p], w)
      Rows == [v \in {kept[i].word : i \in DOMAIN kept} |->
                 kept[CHOOSE i \in DOMAIN kept : kept[i].word = v].frequency]
  IN /\ w # None
     /\ HasUserEntry(DictionaryOf(p), w)
     /\ Remember(p, ReplaceUserEntries(DictionaryOf(p), kept))
     /\ IF state[p] = "attached"
        THEN rows' = Rows /\ Wrote(p, Words)
        ELSE UNCHANGED <<rows, current>>
     /\ Close(p, d)
     /\ UNCHANGED state

(* remove_user_entry_and_persist.                                          *)
RemoveEntry(p, d) ==
  LET w == picked[p][d]
  IN /\ w # None
     /\ HasUserEntry(DictionaryOf(p), w)
     /\ Remember(p, ReplaceUserEntries(DictionaryOf(p), Without(entries[p], w)))
     /\ IF state[p] = "attached"
        THEN rows' = Delete(rows, w) /\ Wrote(p, {w})
        ELSE UNCHANGED <<rows, current>>
     /\ Close(p, d)
     /\ UNCHANGED state

(* update_user_entry_and_persist: DELETE and INSERT in one transaction,    *)
(* whether or not there was a row to delete.                               *)
UpdateEntry(p, d, new) ==
  LET old == picked[p][d]
      f   == FrequencyOf(DictionaryOf(p), old)
  IN /\ old # None /\ new # old
     /\ HasUserEntry(DictionaryOf(p), old)
     /\ Remember(p, Renamed(DictionaryOf(p), old, new))
     /\ IF state[p] = "attached"
        THEN rows' = Upsert(Delete(rows, old), Entry(new, f)) /\ Wrote(p, {old, new})
        ELSE UNCHANGED <<rows, current>>
     /\ Close(p, d)
     /\ UNCHANGED state

(* import_and_persist: entry by entry to the store and then to memory; the *)
(* first refusal ends it, and what was written until then stays.           *)
Import(p, file) ==
  LET fresh == Fresh(DictionaryOf(p), file)
  IN /\ Up(p)
     /\ \E n \in 0..Len(fresh) :
          LET done == SubSeq(fresh, 1, n)
          IN /\ n = Len(fresh) \/ (StoreMayFail /\ state[p] = "attached")
             /\ Remember(p, Added(DictionaryOf(p), done))
             /\ IF state[p] = "attached"
                THEN /\ rows' = Upserts(rows, done)
                     /\ Wrote(p, {done[i].word : i \in 1..n})
                ELSE UNCHANGED <<rows, current>>
     /\ UNCHANGED <<state, picked>>

Next ==
  \E p \in Procs :
    \/ StartLoaded(p)
    \/ StartEmpty(p)
    \/ Stop(p)
    \/ \E w \in Words : Add(p, w)
    \/ \E d \in Dialogs :
         \/ Pick(p, d)
         \/ Dismiss(p, d)
         \/ RemoveEntry(p, d)
         \/ \E w \in Words : UpdateEntry(p, d, w)
    \/ \E f \in Files : Import(p, f)

Spec == Init /\ [][Next]_vars

-----------------------------------------------------------------------------
(* Types, and the trie never points at an entry that is gone: lookup       *)
(* indexes the entries with what the posting lists hold.                   *)
TypeOK ==
  /\ DOMAIN rows \subseteq Words
  /\ \A w \in DOMAIN rows : rows[w] \in AllFrequencies
  /\ state \in [Procs -> {"down", "attached", "detached"}]
  /\ picked \in [Procs -> [Dialogs -> Words \cup {None}]]
  /\ current \in [Procs -> SUBSET Words]
  /\ \A p \in Procs :
       /\ \A i \in DOMAIN entries[p] : entries[p][i] \in Entries
       /\ \A r \in Readings :
            Range(posting[p][r]) \subseteq 1..(UserStart + Len(entries[p]))

(* "Both memory and DB are updated by identity", "in agreement on          *)
(* metadata": for a word whose row no other process has written, a process *)
(* with a store has the row in memory exactly once and with the row's      *)
(* frequency, or has neither - whatever it added, renamed onto another     *)
(* word, imported, was refused by the store or reloaded.                   *)
MemoryIsStore ==
  \A p \in Procs : state[p] = "attached" =>
    \A w \in current[p] :
      LET here == {i \in DOMAIN entries[p] : entries[p][i].word = w}
      IN IF w \in DOMAIN rows
         THEN /\ Cardinality(here) = 1
              /\ \A i \in here : entries[p][i].frequency = rows[w]
         ELSE here = {}

(* lookup answers from the posting list as it stands: it holds every entry *)
(* of its reading once, the most frequent first, whatever the sequence of  *)
(* appends, overwrites and rebuilds that led there.                        *)
LookupByFrequency ==
  \A p \in Procs, r \in Readings :
    LET all  == Builtin \o entries[p]
        list == posting[p][r]
    IN /\ IsInjective(list)
       /\ Range(list) = {i \in DOMAIN all : ReadingOf[all[i].word] = r}
       /\ \A j, k \in DOMAIN list :
            j < k => all[list[j]].frequency >= all[list[k]].frequency

(* "Other processes' concurrent additions survive": a row disappears only  *)
(* in a call that also drops the word from the memory of a process that    *)
(* had it, so nobody deletes a word it has not listed.                     *)
OthersWordsSurvive ==
  [][\A w \in DOMAIN rows \ DOMAIN rows' :
       \E p \in Procs : /\ \E i \in DOMAIN entries[p] : entries[p][i].word = w
                        /\ \A i \in DOMAIN entries'[p] : entries'[p][i].word # w]_vars

(* update_user_entry_and_persist "returns Ok(true) when the old row was    *)
(* found and updated, Ok(false) when nothing matched": an edit of a word   *)
(* whose row another process has deleted does not put it back.             *)
EditNeedsRow ==
  [][\A p \in Procs, d \in Dialogs, w \in Words :
       (UpdateEntry(p, d, w) /\ state[p] = "attached" /\ picked[p][d] \notin DOMAIN rows)
         => rows' = rows]_vars
====
