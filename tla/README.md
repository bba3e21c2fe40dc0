# Bonolith in TLA+

Bonolith is a Japanese input method: it turns Latin keystrokes into kana,
converts kana into kanji and kana with a dictionary and a segmenter, reorders
candidates in the background with a language model, and learns from what the
user commits. It runs inside IBus (Rust, D-Bus) or Fcitx5 (C++ over a C FFI).
This directory holds TLA+ models of its stateful parts, the TLC runs that check
them and the TLAPS proofs about them. Paths below are relative to the
repository root unless they start with `src/src/`, which is the form
`PROJECT.json` uses.

## The system

| Component | State | Operations | Talks to |
|---|---|---|---|
| Romaji converter (`src/core/romaji`) | `output`, `buffer`, `raw_input` | `process_key`, `flush`, `delete_last`, `append_raw`, `flush_pending_as_literal`, `restore_buffer`, `reset` | called by the engine |
| Conversion (`src/engine/mod.rs`) | `Option<ConversionState>`: kana, segments (reading, start, candidates, selection), focus, raw snapshot, initial layout, pending letters | `start_conversion`, `start_kana_conversion`, `move_focus`, `cycle_candidate`, `resize_segment`, `convert_focused_to`, `apply_llm_rerank`, `commit`, `commit_conversion`, `cancel_conversion`, `clear_conversion` | romaji converter, dictionary, user scorer, rerank worker, `llm` mutex |
| Rerank protocol (`src/engine/mod.rs`) | `rerank_generation`, `llm_rerank_result`, `rerank_inflight`, one thread per pass | `trigger_llm_rerank`, worker body, `apply_llm_rerank`, `invalidate_rerank_state` | frontends poll the flag and the epoch |
| Committed-text history (`SharedCore`, `src/core/llm/mod.rs`) | `LlmEngine.context`, `pending_llm_context`, the mutexes around both | `update_llm_context_or_defer`, `drain_pending_llm_context`, tiebreak in `filter_segmentation` | every engine of the process |
| Key dispatch (`src/engine/dispatch.rs`) | the caller's `converting` flag | `dispatch_key` | engine, both frontends |
| User learning (`src/core/user_scorer.rs`, `src/core/store.rs`) | counts and layouts in memory; two SQLite tables with row caps | `record`, `record_segmentation`, `forget_segmentation`, `clear_scores` | engine; the database is shared by processes |
| User dictionary (`src/core/dictionary/mod.rs`, `src/core/store.rs`) | entries in memory and in SQLite | add, remove, update, import | menus of the frontends |
| Migration (`src/core/store.rs`) | legacy JSON files, marker row | `migrate_legacy_json`, `recover_stale_jsons` | start-up |
| HTTP scorer (`src/core/llm/http_scorer.rs`) | time of the last failure | `score`, `is_available` | worker, tiebreak |
| IBus frontend (`src/ibus`) | `converting`, enabled and mode flags, the engine's mutex, refresh tasks | D-Bus methods, `spawn_rerank_refresh`, factory with its force-enable window | engine |
| Fcitx5 frontend (`src/ffi.rs`, `fcitx5/`) | `converting`, `pending_commit`, refresh timer | FFI calls | engine |
| Segmentation, ranking, grammar, tables | none | pure functions | engine |

What is hard here:

* **Interleaving.** A worker of an old pass may finish, or panic, at any point
  of a newer pass. The epoch is bumped without the slot's mutex, so a worker's
  test under that mutex may be out of date when it stores.
* **Locks.** Workers hold `llm` while they score (seconds); frontends must not
  wait for it, and their texts must reach the history in order all the same.
  A panicking worker poisons the mutex.
* **Bookkeeping over many keystrokes.** A letter that does not yet make a kana
  may live in `buffer`, in `raw_input`, in the conversion's kana, in
  `pending_from_romaji`, or in several of them, depending on how the
  conversion was started and how it ends.
* **Positions kept by hand.** Resizing moves kana between segments, removes,
  appends and splits segments, while starts, focus and selections are indices.
* **Three layouts.** What the heuristic says, what the model chose and what
  the user taught disagree in every combination.
* **Partial failure and staleness.** A store that fails or evicts, two
  processes on one database, a v1.x program that still writes its files, a
  crash at any step of the migration.
* **A desktop around it.** D-Bus calls that overlap between their signals, a
  refresh task beside them, a compositor that commits preedits by itself,
  releases whose press went elsewhere, timers that race the worker.

`PROJECT.json` lists each hazard at the line where it bites, with the
properties that watch it.

## Modules

| Module | What it is |
|---|---|
| `PassService` | abstract specification: one current rerank pass that begins, is discarded, finishes, fails or is delivered |
| `Rerank` | the epoch/slot/flag protocol, one step per atomic access; implements `PassService` |
| `LlmContext` | the history, its queue and the two mutexes; frontend threads, workers, tiebreak |
| `Romaji` | the converter as operators on its three fields |
| `Conversion` | typing, conversions, editing, learning of layouts, commit and cancel; extends `Romaji` |
| `Dispatch` | `dispatch_key` as an operator from engine, flag and key to engine, flag and outcome |
| `IbusFrontend` | one IBus context: calls as sequences of signals, the flag, the refresh tasks, the client; extends `Dispatch` |
| `IbusGate` | which keys reach an IBus engine at all: on/off, Henkan and Muhenkan, releases, grace period, ForceEnable |
| `Ibus` | `IbusFrontend` and an instance of `IbusGate`: the whole IBus side |
| `FcitxFrontend` | one Fcitx5 context: addon, C interface, refresh timer, compositor; extends `Dispatch` |
| `FcitxUi` | the candidate window and the preedit slots of `bonolith_get_ui_state` |
| `Fcitx` | `FcitxFrontend` and an instance of `FcitxUi`: the whole Fcitx5 side |
| `ScorerPass` | one scoring pass over the segments, the HTTP scorer's cooldown, the clocks |
| `UserLearning` | counts and layouts in memory and in SQLite with row caps |
| `UserDictionary` | user entries in memory, trie and SQLite, in several processes with dialogs |
| `Migration` | the import of the files of version 1 at start-up |
| `Store` | `Migration` and instances of `UserLearning` and `UserDictionary`: all three users of the SQLite file |
| `Ordered` | elements in an order and the kept part of a sequence: `ORDER BY`, `sort_by`, `retain` |
| `RerankProofs`, `LlmContextProofs`, `ConversionProofs`, `DispatchProofs`, `FcitxProofs`, `IbusProofs`, `StoreProofs`, `ScorerPassProofs` | inductive invariants, lemmas and theorems |
| `MCRerank`, `MCLlmContext`, `MCConversion`, `MCScorerPass` | constants for TLC |
| `MCIbus`, `MCFcitx`, `MCStore` | constants for TLC, two or three modules in one run |

How they fit: `Conversion` is the state of one engine with passes as
`PassService` describes them (a set `pass` with at most one snapshot that is
replaced, dropped or delivered). `Rerank` shows that the code's protocol is that
service. `LlmContext` is what `commit`, `commit_conversion`,
`start_conversion` and the worker do with the shared history; it has several
engines and no conversions. `Dispatch` is the engine as the frontends see it:
the sequences of keystrokes in its output, buffer, raw input and conversion, the
text it displays (a stamp tells apart what a conversion can show) and the phase
of `PassService`; both frontends are built on it. `IbusGate` stands in front of `IbusFrontend` and keeps of the engine only
whether it holds a composition. `UserLearning` and `UserDictionary` own different
tables; `Store` puts both next to `Migration`, which writes both, when a store is
opened and before its process loads them: to the other two an import is where the rows of the initial state, or
those another process wrote, come from.

`MCIbus`, `MCFcitx` and `MCStore` each check modules that share no variable.
`part` says which of them moves in a behaviour; the others stay in an initial
state. A step of one changes nothing that another reads, so their interleavings
would add states and no cases.

### Rerank

`engine` is the program counter of the one thread that can be inside the
engine (its methods take `&mut self`; frontends keep it in a mutex): `clear`
and `arm` are the rest of `trigger_llm_rerank`, `retract` and `disarm` the rest
of `invalidate_rerank_state`, `apply` the part of `apply_llm_rerank` after
`take()`. `worker[g]` is the program counter of the worker of epoch `g`. The
slot's mutex is held across several worker steps (`slotLock`); the engine's
accesses are one step each, allowed when the mutex is free. A job stands for a
segmentation with its candidates.

Steps interleave, atomics included: the epoch is accessed with acquire/release
ordering, and the relaxed stores to `rerank_inflight` are ordered by the slot's
mutex on the worker side and by the program order of the thread that owns the
engine on the other, so that sequential interleavings are the ones the flag's
readers can see.

`PhaseOf` maps to the abstract phase. Between bump and spawn the pass counts as
running; between bump and disarm of an invalidation there is none.

### LlmContext

Commits are numbered by the order in which they get the queue's mutex and a
character is a pair of commit and place, which is all that order, loss and
truncation depend on. `log` (commits applied) and `seen` (commits made when a
holder of `llm` got there) are history variables. `TiebreakLock` and
`CommitTry` need a mutex that is free and not poisoned (`try_lock`), `WorkerLock`
takes it poisoned or not. `WorkerFinish` and `TiebreakUnlock` may poison it.

### Romaji and Conversion

A keystroke is an identity and a kind of letter (`n`, another consonant, a
vowel, a symbol that bypasses the table), a kana is the sequence of keystrokes
it was made of, a surface is the keystrokes it spells and its form. So a property
can say where a keystroke went. The table, the dictionary, the segmenter and
the model answer nondeterministically: any spelling that ends in a vowel is a
hit, other spellings are prefixes, doubled or discarded; any layout is
possible; a worker may give any order of the candidates. Texts are compared by
their letters (`Text`), which is what keys the learned layouts.

`dispatch_key` decides which engine method a key calls, and `Conversion` calls
them under the same conditions. A printable key during a conversion commits and
then types; that is two steps here. `choice` (what the user picked in a segment),
`preedit` (what was shown when the conversion began), `origin` and `sent` are
history variables.

### Dispatch and the frontends

A keystroke is a number, and a text is the sequence of the keystrokes it stands
for, in which one may come twice: "n" F7 makes the text *kana n, letter n* of one
keystroke (`Reading`), a cancel leaves the same preedit, and F9/F10 show `raw`, the
raw input, in which letters that the table discarded are still there and
letters that a cancel restored come again. `Nasals` are the keystrokes that are
the letter n, since `flush` treats a lone one unlike all others. Which kana letters
make is left out: a letter cuts the buffer at any place, the head goes to `kana`,
the rest stays or is discarded. A conversion knows its pending letters, whether
`commit_conversion` puts them back (`keeps`), and where its romaji form stands:
no raw input known, known, in the candidates, or selected. `DispatchKey` has one
operator per arm of the ladder (`TabKey`, `KanaFormKey`, `ConversionKey`,
`SpaceKey`, `PreeditKey`, `TypingKey`), each of which returns the engine, the
caller's flag and the outcome (consumed, committed text, display, refresh). The
engine's methods answer with every result that `Conversion` allows, seen from
outside.

Three fields of the engine are history: `gone` counts how often a keystroke was
deleted, one key or method at a time (Backspace, Escape, a reset, the table's
discard); `ghosts` are the keystrokes that the raw input has more or less often
than the preedit; `strayed` are those that left the engine otherwise than once.
A commit or a loss of focus adds to `strayed` only what `InDoubt` names
beforehand, from the conversion alone; nothing is deduced from where a
keystroke is missing.

`IbusFrontend`: a method call is a task that gives way at every signal, so a
call in progress is the list `todo[c]` of the steps it has left (flag, signals,
clearing the engine, spawning a refresh); the refresh task has a program counter
for its polls, its test of the flag, its application under the mutex, its second
test and its two signals. `ProcessKeyEvent` dispatches under the mutex and
writes the flag back afterwards, as the code does. `client` is the panel as the
comments describe it: hiding a preedit of mode 1 commits it. `sent`, `auto`
and `crossed` are history variables: how often each keystroke was committed by
`commit_text` and by IBus, and whether a refresh task has taken a result or sent
signals amid a call's.

`IbusGate`: one action per key role, plus releases, focus, `disable`,
`destroy`, the factory and the clock. Turning off is two steps (`TurnOff`,
`Off`) because `cancel_input` sends signals before the switch is thrown. A key
whose context loses the focus while it is down has its release sent to another
client (`Elsewhere`).

`FcitxFrontend`: the addon runs on one event loop, so a handler is one step and
only `WorkerEnds` comes in between. `pending` is `pending_commit`. The
compositor inserts the preedit on the screen before the addon hears of the loss
of focus; `finalised` counts what it inserted, `sent` what `commitString` sent.
`FcitxUi` numbers segments and candidates from 0 as the code does and
has the three computations of `bonolith_get_ui_state` and
`compress_segments_for_display` as operators over a conversion that moves.

### The store and the scorer

`UserLearning`: a table is the sequence of its rows in ROWID order; a write and
the eviction after it are one transaction, hence one step; a process starts
attached or, when the store refuses, detached, and stops at any time.
`UserDictionary`: a call holds the write lock and does one store call, so it is
one step, except that an import may be cut short after any row; dialogs pick a
word and act on it later. `current` (history) says for which rows this process
was the last to write or read. `Migration` goes transaction by transaction and
rename by rename, with a `Die` at any step and bounded `Mishaps`. In all three, a
"process" is one connection to the database. Filters and sorts are `Retained` and
`InOrder` of `Ordered`, which say by counting which element comes at which place; the
adding of entries one after the other is `Added`, a recursive function. `ScorerPass`: real time, the wall
clock and the deadline are apart; `lag` bounds how long the pass may take between
two of its own steps.

## Runs

| Run | Result | Question |
|---|---|---|
| `rerank` | passes | Do epoch, slot and flag behave as one current pass in every interleaving, and does a pass that stays current settle? |
| `llm_context` | passes | Does every commit reach the history once and in order, cut to its tail, does a worker score with the commits made before it drained, and does a commit return however long scoring lasts? |
| `conversion` | passes | Where does every keystroke end up after commits and cancels? |
| `conversion_segments` | passes | Do segments tile the kana, do selections stay the user's, do learned layouts win? |
| `ibus` | passes | Does a switching key's release follow its press, does a context that is off hold nothing, and, with one call at a time and a refresh beside it, do screen, flag and engine agree and is every keystroke counted once? |
| `fcitx` | passes | Does the panel show the engine, is every keystroke counted once, does the timer stop and show what arrives, and does the fixed-size structure show the selection and the whole text? |
| `store` | passes | Does the migration lose or double nothing, does memory only know what the store has, does eviction take the weakest, do memory, trie and rows of the user dictionary agree? |
| `scorer` | passes | Is a segment never ranked by mixed scores, every segment answered for, at most one request late? |
| `conversion_space_pending` | violated | Does a Space commit keep the pending consonant, as the field's doc says? |
| `conversion_cancel` | violated | Does a cancel restore the exact preedit, as the field's doc says? |
| `ibus_ghost` | violated | Does the guard of the refresh task prevent duplicate insertion, as its comment says? |
| `fcitx_focus` | violated | Is text in progress committed, not discarded, on focus loss, as the comment says? |

The properties, by module:

* `Rerank`: `NoStaleResult` (what is taken from the slot is current and
  aligned; the arm that would latch the flag is unreachable), `FlagHasPass` and
  `PassHasFlag` (between calls the flag is up exactly while a result waits or
  can come), `PassSettles` (liveness), `ImplementsPassService` (refinement).
* `LlmContext`: `NoCommitLost`, `ContextIsTail`, `ScoringSeesCommits`,
  `CommitReturns` (liveness). The run checks deadlock too: commits take the
  queue's mutex before `llm`, workers the other way round, and only `try_lock`
  keeps that from locking up.
* `Conversion`: `SegmentsTile`, `UserChoiceStands`, `CandidatesSpellSegment`,
  `RawEndsWithBuffer`, and the action properties `NothingCommittedTwice`,
  `InputKept`, `LearnedLayoutShown`.
* `IbusGate`: `ReleaseFollowsPress` (`OwnReleaseConsumed` and `NoStaleDebt`),
  `OffHoldsNothing`.
* `IbusFrontend`: `ScreenIsEngine`, `FlagMirrorsEngine`, `EveryLetterOnce`,
  `GuardCatchesEnd` (action property), `ResultTaken` (liveness).
* `FcitxFrontend`: `PanelIsEngine`, `EveryLetterOnce`, `TimerStops`,
  `ResultShown` (liveness). `FcitxUi`: `WindowShowsSelection`,
  `PreeditShowsText`.
* `Migration`: `LegacyKept`, `NotCountedTwice`. `UserLearning`:
  `NoPhantomLearning`, `EvictsWeakest` (action property). `UserDictionary`:
  `MemoryIsStore`, `LookupByFrequency`, `OthersWordsSurvive` (action property).
* `ScorerPass`: `NoMixedRanking`, `EverySegmentAnswered`, `OneLateRequest`.

Every module with state has one type invariant, `TypeOK`. It is proved for
`Rerank`, `LlmContext`, `Conversion` (where it says that every selection lies in
its list, and which a run checks too), `FcitxFrontend`, `FcitxUi`, `IbusGate`,
`IbusFrontend` (one call at a time), `Migration`, `UserLearning`, `UserDictionary` and
`ScorerPass`.

### What the violated runs show

1. `conversion_space_pending`: "sit" Space Enter. The kana is one segment, the
   raw input is tracked, so `pending_consumed_in_kana` is set although the
   selected word does not hold the "t"; the commit does not put it back.
2. `conversion_cancel`: "n" F7 Esc. The "n" is captured as pending and flushed to
   its kana; the cancel puts the letter behind the kana. The text of the
   conversion has both already, so "n" F7 Enter commits them.
3. `ibus_ghost`: the refresh task re-checks flag and generation under the mutex,
   gives it up, the user commits, and the task then emits the preedit of the
   conversion that is over. IBus commits it when the focus goes: the text is in
   the application twice.
4. `fcitx_focus`: a letter that a Space conversion set aside is not in the panel,
   which is what the compositor inserts; the reset that follows drops it.

`InputKept` states what does hold: it leaves out the conversions of (1) and (2)
(`Accounted`) and the romaji forms, which show the raw input as typed, letters
that rule 6 discarded and ghost letters included.

`EveryLetterOnce` of both frontends follows the keystrokes on through any number
of conversions, to the application and the compositor. Every keystroke typed
counts once in: what was sent, what IBus or the compositor inserted, what a
commit would still send or keep (`Remains`), and what was deleted. It excuses
exactly the keystrokes that (`InDoubt`, and `InDoubtUnfocused` at a loss of focus)

* are the lone n that an F-key conversion doubles, committed or cancelled: (2);
* are pending at Space under a raw input that covers them and is not shown: (1);
* are ghosts of the raw input, where F9 or F10 shows it: discarded letters, which
  the code brings back by design (`src/src/core/romaji/mod.rs:112-126`), and
  letters that a cancel wrote into it once more (`NoGhostInput` below);
* were put aside by a Space conversion that loses the focus: (4).

All other keystrokes, of the same conversion and of later ones, are accounted for.
`ScreenIsEngine` and `EveryLetterOnce` of `IbusFrontend` also leave out the
behaviours in which a refresh has crossed a call: (3).

### Known deviations

The modules state further properties that the code's docs promise and its
behaviour breaks. No run checks them; adding one to the cfg named here, with the
constants given, makes TLC print the behaviour.

| Property | Where | What the code does | What it says |
|---|---|---|---|
| `FlushedByNextHolder` | `LlmContext`, `MCLlmContext.cfg` | the tiebreak of a Space takes `llm` after a worker and scores without the text deferred meanwhile | doc of `pending_llm_context`: whoever next takes the lock flushes |
| `NoGhostInput` | `Conversion`, `MCConversion.cfg` | "vim" F7 Esc: `flush` leaves `raw_input` alone and `restore_buffer` appends the "m" to it once more | a cancel leaves no ghost input |
| `ResizeKeepsOtherChoices` | `Conversion`, `MCConversionSegments.cfg` | extending a segment over a one-kana neighbour looks the one after it up again, so the choice made there goes | only the affected segments are looked up |
| `FlagMirrorsEngine`, `InsertedOnce` | `IbusFrontend`, `MCIbus.cfg` with two `Calls` | two key calls at once write the flag, or send their signals, in the other order than they changed the engine | `dispatch.rs:13-15`: the frontends mirror the conversion; `engine_impl.rs:682-683`: "combine cleanly" |
| `GuardCatchesStale` | `IbusFrontend`, `MCIbus.cfg` | cycling or moving the focus does not bump the generation, so an older snapshot passes the guard | `engine_impl.rs:850-852`: a mismatch means stale, relied on for the converse |
| `EveryReleaseConsumed` | `IbusGate`, `MCIbus.cfg` | the press of Henkan is consumed and not recorded; its release can reach the application | `engine_impl.rs:285-286`: any key whose press was consumed has its release consumed |
| `ForceTurnsOneOn` | `IbusGate`, `MCIbus.cfg` with `MaxEngines = 2` | nobody clears the window, so every context that gets a key or the focus within it is turned on | `factory.rs:64-65`: "the next engine" flips itself on |
| `ReleasesConsumed` | `FcitxFrontend`, `MCFcitx.cfg` | Enter that commits ends the composition, so its own release is passed on | `ffi.rs:181-186`: all releases while composing are consumed |
| `NoEvictedInMemory` | `UserLearning`, `MCStore.cfg` with two `Learners` | rows evicted by the other process stay in memory | `user_scorer.rs:54-57`: memory no longer diverges from the store |
| `StaysForgotten` | `UserLearning`, `MCStore.cfg` | memory is changed first; when the store refuses, the row is loaded again at the next start | `user_scorer.rs:157-162`: dropped from memory and the store |
| `EditNeedsRow` | `UserDictionary`, `MCStore.cfg` | `update_entry` decides by its own memory; an entry another process deleted comes back | `dictionary/mod.rs:399-400`: `Ok(false)` when nothing matched |
| `FlagPreventsRerun` | `Migration`, `MCStore.cfg` | the marker is read outside the transaction: two processes that start together both import | `store.rs:173-174`: a meta flag prevents repeated runs |
| `DeletedStaysDeleted` | `Migration`, `MCStore.cfg` | the error of a rename is ignored; the next start brings back what the user deleted in between | `store.rs:247-248`: existing entries win |
| `LegacyKept` | `Migration`, `MCStore.cfg` with `V1Overlaps = TRUE` | what a v1.x program writes between the reading and the rename of a file is renamed away unread | `store.rs:178-180`: such content is recovered |
| `RecoversInTime` | `ScorerPass`, `MCScorerPass.cfg` | a wall clock that is set back after a failure keeps the scorer off until it has caught up | `http_scorer.rs:45-47`: stamps re-arm the probe |

(`src/core/`, `src/ibus/`, `src/engine/` left out of the file names. For the properties
of a packed run, write the operator in the MC module, as for the others, and
set `Parts` to the part at hand.)

### Bounds

* `MaxGen = 4` (rerank): four bumps give up to four workers at once; three are
  enough for an old, a current and a next pass, the fourth lets an
  invalidation fall between them. Two segmentations let a later pass be for
  the segmentation of an earlier one. The `u64` epoch does not wrap in practice.
* `MaxCommits = 5`, `MaxChars = 3` (200 in the code), texts of one or two characters
  (llm_context): the history overflows several times, with cuts inside a
  commit's text and at its edge. Two threads and two workers: one of each inside
  a critical section and one waiting. No symmetry, since a liveness property is
  among those checked.
* Three keystroke identities, `MaxKeys = 3` (conversion): the runs need a kana
  and a pending letter beside it, three segments for the resize cases, and a
  letter typed after a commit. `MaxKeys` bounds the preedit and the raw input,
  not the number of keystrokes or conversions: identities are used again once
  they are gone from both. `Alive` stops typing and converting when ghost letters
  have grown beyond the bound. Identities are compared for equality only, so
  the passing runs use symmetry over them.
* `MaxLearned = 1`: the second learned layout evicts the first.
* `StoreOutcomes`: `conversion_segments` has a store that succeeds or fails;
  the other `conversion` runs have a read-only one, so nothing is learned and
  the question of where keystrokes go is asked alone.
* `KanaForms`, `Orders`: one F-key form and one lookup order a run; katakana and
  a kana-plus-word list where selections matter, romaji and kana only where the
  raw input matters.

* `MCIbus`: one context at the gate (`ReleaseFollowsPress` is about one context;
  the proof covers any number), three ticks of the clock with a grace of one and
  a window of two, so that each is open, closed and closed again. In the
  frontend `MaxEvents = 5` calls, two keystrokes, one call at a time and one
  refresh task with one poll: a conversion, its refresh, an edit, a commit and
  a focus change fit. One of the two keystrokes is an n (`Nasals`). Calls of one context overlap only when the daemon does not
  wait for a reply. Then the flag and the order of the signals do go wrong, which
  the known deviations list; `ScreenIsEngine` and `FlagMirrorsEngine` say nothing
  of it. The theorems cover any numbers of keystrokes, calls, refresh tasks and
  polls, with one call at a time.
* `MCFcitx`: six events, three letters and a timer of two ticks: a pass can be
  outlived, a letter set aside, a commit followed by a new preedit. Two of the
  three keystrokes are an n, so that an n can be alone, first and last. Up to three
  segments over two slots, up to five candidates over a window of three: more
  than, as many as and fewer than there is room for.
* `MCStore`: `Migration` has two processes, two words of which one is in the old
  files, counts to 2, one mishap and one write of version 1 (the theorems hold
  for any numbers). `UserLearning` has one process, three choices over a table
  of two and two phrases over one, from every table an earlier session or an
  import beyond the caps can leave. `UserDictionary` has two processes with one
  dialog each and two homophones, one of them built in.
* `MCScorerPass`: two segments of two candidates, a cooldown of three seconds
  and seven in all, so that it can run out within a pass and a second failure
  follow; `MaxLag = 2 < Cooldown` stands for a pass that takes milliseconds
  between its looks at a thirty-second stamp; the wall clock is set once at most.

`CHECK_DEADLOCK FALSE` stands where the bounds make the system stop: all epochs
used up (`MCRerank`), ghost letters beyond `MaxKeys` (`MCConversion`), all events
spent (`MCIbus`, `MCFcitx`).

### Fairness

* `Rerank.FairSpec`: weak fairness of each worker (a thread that is always
  able to run does run; each HTTP request has a timeout, so the scoring closure
  returns) and of the rest of an engine call that has begun. Nothing is assumed
  about the user or the frontends.
* `LlmContext.FairSpec`: weak fairness of the steps of a commit and of the
  worker's draining, strong fairness of getting the queue's mutex, whose critical
  sections are a few pushes. None for `WorkerFinish` and `TiebreakUnlock`:
  `CommitReturns` holds although scoring may never end.
* `IbusFrontend.FairSpec`: weak fairness of the steps of every call and every
  refresh task: the async runtime runs a task that is ready, and sending a signal
  returns. None for the daemon's calls and the worker.
* `FcitxFrontend.FairSpec`: weak fairness of the timer: the event loop fires a
  timer whose time has come. None for the user, the compositor and the worker.

## Proofs

| Module | For any | Assumed | Theorems |
|---|---|---|---|
| `RerankProofs` | set of segmentations, number of passes | `NoJobAssumption`, `MaxGenAssumption` | `TypeCorrect`, `NoStaleResultHolds`, `FlagHasPassHolds`, `PassHasFlagHolds`, `Implementation` |
| `LlmContextProofs` | number of threads, workers, commits, lengths of texts and limit | `ThreadsAssumption`, `BoundsAssumption` | `TypeCorrect`, `NoCommitLostHolds`, `ScoringSeesCommitsHolds`, `ContextIsTailHolds` |
| `ConversionProofs` | kinds of letters and forms, lookups, layouts, number of keystrokes, store outcomes, cap | `LettersAssumption`, `FormsAssumption`, `StoreAssumption`, `BoundsAssumption` | `TypeCorrect`, `RawEndsWithBufferHolds`, `SegmentsTileHolds`, `CandidatesSpellSegmentHolds`, `UserChoiceStandsHolds`, `LearnedLayoutShownHolds`, `NothingCommittedTwiceHolds`, `InputKeptHolds` |
| `DispatchProofs` | engine, key, keystroke | `NoConversionAssumption` | `DispatchFine`, `DispatchTells`, `DispatchLater` |
| `FcitxProofs` | keys, number of letters, events and ticks; number of slots, segments, candidates, length of text | `KeysAssumption`, `BoundsAssumption`, `SlotsAssumption`, `SizesAssumption` | `TypeCorrect`, `PanelIsEngineHolds`, `EveryLetterOnceHolds`, `UiTypeCorrect`, `WindowShowsSelectionHolds`, `PreeditShowsTextHolds` |
| `IbusProofs` | number of contexts, length of the windows, time; keys, number of letters, calls, refresh tasks and polls | `ClockAssumption`, `BoundsAssumption`, and `[][Waits]_vars` for the frontend | `GateTypeCorrect`, `ReleaseFollowsPressHolds`, `OffHoldsNothingHolds`, `FrontendTypeCorrect`, `ScreenIsEngineHolds`, `FlagMirrorsEngineHolds`, `EveryLetterOnceHolds`, `GuardCatchesEndHolds` |
| `StoreProofs` | set of processes and words, number of faults and writes; choices, phrases, layouts, caps; files, built-in words, dialogs | `MigrationAssumption`, `LearningAssumption`, `WordsAssumption`; `~V1Overlaps` for `LegacyKeptHolds`, `[]Alone` for `NoPhantomLearningHolds` | `MigrationTypeCorrect`, `NotCountedTwiceHolds`, `LegacyKeptHolds`, `LearningTypeCorrect`, `EvictsWeakestHolds`, `NoPhantomLearningHolds`, `WordsTypeCorrect`, `LookupByFrequencyHolds`, `MemoryIsStoreHolds`, `OthersWordsSurviveHolds` |
| `ScorerPassProofs` | number of segments and candidates, cooldown, time, settings of the clock | `ScorerAssumption` (`MaxLag < Cooldown`) | `TypeCorrect`, `EverySegmentAnsweredHolds`, `OneLateRequestHolds`, `NoMixedRankingHolds` |

**`Rerank`.** None of the three invariants is inductive. `IInv` adds what they
rest on:

* `LockInv`: `slotLock` names the only worker inside the critical section.
* `SpawnInv`: there are no workers of epochs to come, and none of the current
  epoch until it has been spawned.
* `StoreInv`: outside the window between a bump and the clear that follows it,
  a worker past its second test is the current one. This is the heart: in the
  window an old worker may still store, but it holds the mutex, so the clear
  waits for it and wipes what it stored; after the clear nobody can pass the
  test any more.
* `JobInv`, `SlotInv`, `TakenInv`: the current worker's snapshot, the slot and
  what the engine has taken are about the live segmentation.
* `FlagInv`: between calls, the flag is up exactly when a pass is pending.

There is one lemma per action, each with one step for every conjunct that the
action can disturb. `Implementation` uses `IInv` to map each step to a step of
`PassService` or a stutter.

**`LlmContext`.** `NoCommitLost` says that the line *applied, in a worker's hand,
queued, entering* is all commits in order. `LocksInv` says who can be at which
step: whoever is past a lock holds it, a thread at the queue is the one that
enters, and only the holder of `llm` has anything in hand. Each step then moves the
head of one part of the line to the end of the part before it (`MoveHead`).
`SeenInv` ties what a worker drained to what was made by then. `ContextIsTail`
needs `TailInv`, that the context is a suffix of the text of the log and is cut
only where the limit demands it.

**`Conversion`.** `CInv` says of a conversion that its segments tile the kana
(`Tiles`), that every candidate spells its segment's reading or is the raw input
of the only one (`Spelled`), that a selection exists and is the user's where it is
marked so (`Selected`), and where the keystrokes of the preedit are (`Source`). It
also says that tracked raw input ends with the buffer, that learned layouts are
layouts of their kana, and that the snapshot of a pass spells its readings. None of
the properties is inductive alone: a rerank keeps `CandidatesSpellSegment` only
because the snapshot spells, and resizing keeps it only because the raw input is
forgotten. Resizing is a lemma about cutting and gluing tiles (`TilesConcat`,
`TilesPrefix`, `TilesSuffix`, `ResizedOK`), used by extending and shrinking alike.
That a commit sends what the kana spells (`ComposedSpells`) is an induction over the
segments. `FlattenSeq` of the community modules is a recursive function, of which the
provers know nothing; that it distributes over `Append` and concatenation is proved
here from its definition, by an induction over the naturals that is stated for sets
(`NatSetInduction`), since the library's induction theorems take an operator.

**`Dispatch` and `FcitxFrontend`** (in `DispatchProofs`, `FcitxProofs`)**.** `Count` is the
cardinality of a set of positions; the first lemmas say what it is of a
concatenation, a prefix and a suffix. `Credit` is how often the engine has a
keystroke, as typed (`Own`) or as deleted. `Balance` compares two engines: committed plus
credit is what it was, plus one for the key typed. What a commit sends and keeps
(`Remains`) has every keystroke as often as `Own`, but for those in doubt
(`RemainsOwn`); this is where the engine has to be `Sound`. `RawSound` says that
tracked raw input has, ghosts aside, every keystroke as often as the preedit and
ends with the buffer, so that showing it sends the right letters and deleting
the last letter takes it from both; `ConversionSound` that letters are put back
only where no romaji form can show them. `DispatchFine` gathers this over every arm of the
ladder: the engine stays `Sound`, the flag mirrors it, the keystrokes balance, a
key that commits is consumed (`Fine`), and a key marks no keystroke but those in
doubt before it and deletes none unless it is a letter, Backspace or Escape
(`Spares`). `DispatchTells` says that the outcome's display is what the engine it
comes with calls for, and `DispatchLater` that generations only grow and that
within one a conversion goes on over the same keystrokes. `FInv` rests on
these: it adds to the types that `pending_commit` is empty between events, that
the panel shows the engine, and that sent, inserted and credit of every keystroke
that has not strayed make one (`Accounts`).

**`IbusFrontend`** (in `IbusProofs`)**.** Nothing in the frontend keeps two method calls
apart, and with two under way at once each of these properties fails (see the known
deviations), so the theorems say what holds with a daemon that waits for a call to return
before it makes the next one: `[][Waits]_vars`, an assumption about the environment alone.
Any number of refresh tasks may run in between. Between two signals of a call neither the
screen nor the flag nor the accounts are right, and the invariant says what puts them
right: the steps left. `Fits` lists the endings a call can have (a table; a preedit and
its table; a commit before either; the neutral preedit before everything; the flag before
all of that; and the four steps of `focus_out`) and, for each, the text still to be sent,
which the accounts of the keystrokes count (`Accounts`), what must be on the screen by
then (`Suits`), and that while a context leaves, the text IBus has just committed
counts for the application and for the engine (`Twice`). That `ApplyOutcome`
builds such an ending from every outcome is `OutcomeSignals`, which rests on
`DispatchTells`. `Current` allows the screen to be older than the engine if a refresh
task is coming that will pass the guard and show it (`Coming`). `Flagged` says the same
of the flag, `Guarded` that a snapshot of this generation is of the conversion there is
(from `DispatchLater`), and `Away` that a context out of focus is empty or being emptied.

**`IbusGate`** (in `IbusProofs`)**.** A release is consumed because it is owed, because the context is
on, or because of the grace period; only the first is sure. `GateInv` adds to the
properties that every switching key which is down after a consumed press is owed
by the context in focus or will be when that has turned off (`Debts`), and that a
context in the middle of turning off still has the focus and the press
(`Closing`).

**`FcitxUi`** (in `FcitxProofs`)**.** `UiInv` is the type invariant with the selection within its list.
That the ends of the segments increase is part of the types and has to be kept
by the moves of `Select`, which shift all ends after the focus. What the panel
shows then follows by arithmetic, by cases on whether a list or a segmentation
fits.

**`Migration`** (in `StoreProofs`)**.** `CountInv` says that neither the file nor any process's copy of it
counts more than version 1 has in memory; the merge takes the higher of two
counts and so never exceeds what was counted plus what was recorded. `KeptInv`
needs `~V1Overlaps`: a file is then what version 1 has in memory, or gone
(`WholeFiles`); who is about to commit and will rename a file has read all of it
(`WordsRead`, `CountsRead`); who is about to rename it has it in the tables
(`Imported`); and so it is in the one or in the other (`Kept`).

**`UserLearning`** (in `StoreProofs`)**.** The lemmas are about one table: what its rows
are after an upsert, after the eviction and after a deletion, and that no key occurs
twice (`NoKeyTwice`, part of the types), without which "the row of a key" means nothing.
`EvictsWeakestHolds` counts: the rows behind the others, by count and then by ROWID,
have the places up to the excess, the places of a finite order are the numbers from 1 to
its size (`PlaceTaken`, `FirstPlaces`), and so exactly as many rows go as are too many. The
row just written is not among the candidates, and a cap is at least one, so the table is
within its cap. `NoPhantomLearningHolds` has the hypothesis `[]Alone`: at most one process
at a time has the store open. With two, one evicts what the other remembers and the
property fails (`NoEvictedInMemory` under the known deviations); detached processes may
run beside it, and processes may follow each other. `NoPhantomLearning` is not inductive:
a choice that memory does not have but a row does would come into memory with count 1
and in the row with one more. `MatchInv` therefore has the counts equal in both directions,
0 where there is no row. For layouts only one direction holds, since a store may refuse
what `ForgetLayout` has already dropped from memory, and that is enough, as a layout is
overwritten, not counted.

**`UserDictionary`** (in `StoreProofs`)**.** `WordsInv` says that every process's dictionary is
a good one and that it agrees with the table. A good dictionary (`GoodDictionary`) has
every user word once, and in the posting list of every reading the indices of all
entries of that reading, each once and by descending frequency. The trie is rebuilt by
truncating and adding, appended to, and resorted after an overwrite; `AddEntryOK`,
`WithoutUserOK`, `AddedOK`, `UpsertedOK`, `RemovedOK`, `RenamedOK` and `ImportedOK` show
that each of these leaves a good dictionary, from any good one. That a removal leaves the
built-in entries behind in their order rests on `Retained` keeping orders
(`ListRetained`). What memory says of a word is `Says(entries, w, f)`, what the table says
is `Row(rows, w, f)`, and each operation changes both in the same way (`Puts`, `Drops`):
that is `Agreed`, for every process and every word in its `current`. A write of one
process takes the word out of the `current` of all others, so theirs is kept
(`OthersAgree`). `MemoryIsStore` is not inductive: it is silent on words that are not in
`current`, and one of those, were it in memory twice, would still be there twice when
an overwrite makes it current; `WordsOnce` is about all words. `OthersWordsSurviveHolds` looks at the
two actions that delete rows.

That adding a sequence of entries keeps a dictionary good is an induction over its
length (`AddedOK`), by the same lemma on sets as in `Conversion` (`NatSetInduction`). The
library's `SelectSeq` and `FoldLeft` are recursive operators whose definition the
provers do not unfold; this is why filters are stated with `Ordered` and the fold over
entries as a function.

**`ScorerPass`.** Four invariants, one for each concern, the last resting on the
first two. `Clocks` bounds clocks and stamps. `Progress` adds to the types that
the segments to do and the segments answered for make up the pass, and that a
request is only in flight for a candidate without a score. `Budget` says that
nothing is late before the deadline nor while a request is in flight, so the one
request that was sent in time is the only one that can become late. `Unmixed`
follows a failure's neutral score: while the clock is not set it can only be
there at `check`, with a stamp no older than the time since the last step
(`wall - warnedAt <= lag`). As `MaxLag < Cooldown` the caller's look at the stamp
finds the cooldown still active and drops the segment.

Only model-checked: every liveness property (`PassSettles`, `CommitReturns`,
`ResultTaken`, `TimerStops`, `ResultShown`), which is out of TLAPS' reach. Every safety
invariant and action property of the passing runs is a theorem.

## Not modelled

* Scores, costs, segmentation and merge rules, grammar tables and kana string
  conversions are pure functions over data and floating-point numbers; their
  answers are nondeterministic here. How the counts of the user scorer weigh in a
  ranking is left out for the same reason.
* The built-in dictionary and the generators are data and offline tools. The
  generated `builtin_dict.rs` is 99,559 of the repository's 117,996 lines, so no
  model of the code can cover a large share of the lines.
* IBus: the settings menu, the child processes of the dialogs, the configuration
  file, key codes. What the dialogs call on the dictionary is in `UserDictionary`.
* Fcitx5: `bonolith_commit_input` and `bonolith_poll_commit`, which the addon
  never calls; the actions that start dialogs.
* Store: the purge of rows that cannot be parsed, the export file, and
  `sync_user_entries_to_store`, which only tests call. `warm_cache` of the
  scorer has no caller.
* Several input contexts are in `IbusGate` and `LlmContext`; `IbusFrontend`,
  `FcitxFrontend` and `Conversion` have one. Engines share nothing but the store,
  the dictionary and the llm mutex, which have modules of their own.
* A `thread::spawn` that panics after the flag was raised (the process has no
  threads left) is not modelled.

## Plan

`FcitxFrontend` over `Conversion` itself instead of `Dispatch`'s view of it,
as a refinement: every step of `Conversion` is one that `Dispatch` allows.
