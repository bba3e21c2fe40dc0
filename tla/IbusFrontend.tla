---------------------------- MODULE IbusFrontend ----------------------------
(***************************************************************************)
(* One input context of the IBus frontend (src/src/ibus/engine_impl.rs):    *)
(* the engine behind its mutex, the flag "converting" behind another, the   *)
(* method calls of the IBus daemon, each a task of its own that gives way   *)
(* at every signal it sends, and the tasks of spawn_rerank_refresh.         *)
(*                                                                          *)
(* A call in progress is the list of the steps it has left.  The client is  *)
(* what the comments in the code say of IBus: a hidden preedit of mode 1    *)
(* is committed, one of mode 0 is dropped.                                  *)
(***************************************************************************)
EXTENDS Dispatch

CONSTANTS
  Calls,       \* slots for method calls that run at the same time
  Tasks,       \* slots for refresh tasks
  KeyKinds,    \* kinds of keys explored
  MaxEvents,   \* bound: method calls
  MaxLetters,  \* bound: keystrokes typed
  MaxPolls     \* MAX_POLLS, the polls of a refresh task

ASSUME BoundsAssumption == {MaxEvents, MaxLetters, MaxPolls} \subseteq Nat

VARIABLES
  engine,      \* the ConversionEngine
  converting,  \* the flag
  client,      \* preedit and lookup table on the screen
  focused,     \* the daemon has this context in focus
  todo,        \* steps every call has left
  task,        \* refresh tasks
  sent,        \* how often each keystroke was sent with commit_text
  auto,        \* how often IBus committed it with a hidden preedit
  crossed,     \* a refresh task has taken a result or sent signals amid a call's
  typed,       \* keystrokes so far
  events       \* method calls so far

vars == <<engine, converting, client, focused, todo, task, sent, auto,
          crossed, typed, events>>

Letters == 1 .. MaxLetters
Shown == [text : Seq(Letters), stamp : Nat]

\* The steps of a call.
Update(shown, mode) == [op |-> "update", shown |-> shown, mode |-> mode]
Lookup(stamp) == [op |-> "lookup", stamp |-> stamp]
Hide == [op |-> "hide"]
CommitText(text) == [op |-> "commit", text |-> text]
Clear == [op |-> "clear"]
SetFlag(value) == [op |-> "flag", value |-> value]
Spawn == [op |-> "spawn"]

Steps ==
  [op : {"update"}, shown : Shown, mode : {0, 1}]
    \cup [op : {"lookup"}, stamp : Nat] \cup [op : {"commit"}, text : Seq(Letters)]
    \cup [op : {"flag"}, value : BOOLEAN] \cup [op : {"hide", "clear", "spawn"}]

NoTask == [pc |-> "none", polls |-> 0, shown |-> Nothing, generation |-> 0]

TypeOK ==
  /\ engine \in Engines(Letters)
  /\ converting \in BOOLEAN
  /\ client \in [shown : Shown, mode : {0, 1}, lookup : Nat]
  /\ focused \in BOOLEAN
  /\ todo \in [Calls -> Seq(Steps)]
  /\ task \in [Tasks -> [pc : {"none", "poll", "check", "apply", "recheck",
                               "emit", "table"},
                         polls : 0 .. MaxPolls, shown : Shown,
                         generation : Nat]]
  /\ sent \in [Letters -> Nat]
  /\ auto \in [Letters -> Nat]
  /\ crossed \in BOOLEAN
  /\ typed \in 0 .. MaxLetters
  /\ events \in 0 .. MaxEvents

Init ==
  /\ engine = NewEngine(Letters)
  /\ converting = FALSE
  /\ client = [shown |-> Nothing, mode |-> 0, lookup |-> 0]
  /\ focused = TRUE
  /\ todo = [c \in Calls |-> <<>>]
  /\ task = [t \in Tasks |-> NoTask]
  /\ sent = [i \in Letters |-> 0]
  /\ auto = [i \in Letters |-> 0]
  /\ crossed = FALSE
  /\ typed = 0
  /\ events = 0

Counted(count, text) == [i \in Letters |-> count[i] + Count(text, i)]

-----------------------------------------------------------------------------
(* The signals of a call                                                    *)

HideAll == <<Hide, Lookup(0)>>

\* An empty preedit of mode 0, so that hiding commits nothing.
Neutralise == <<Update(Nothing, 0)>>

\* emit_conversion_state and send_preedit.
ShowDisplay(shown) == <<Update(shown, 1), Lookup(shown.stamp)>>

\* Mutant: the old preedit is not neutralised before a commit.
BuggyApplyOutcome(o, e) ==
  LET commit == o.commit # <<>>
  IN  (IF o.display = "cleared" /\ ~commit THEN Neutralise ELSE <<>>)
      \o (IF commit THEN <<CommitText(o.commit)>> ELSE <<>>)
      \o (CASE o.display = "unchanged" -> <<>>
            [] o.display = "cleared" -> HideAll
            [] o.display = "preedit" ->
                 (IF commit THEN <<Lookup(0)>> ELSE <<>>)
                 \o ShowDisplay([text |-> Preedit(e), stamp |-> 0])
            [] o.display = "conversion" -> ShowDisplay(Display(e)))
      \o (IF o.refresh THEN <<Spawn>> ELSE <<>>)

\* apply_outcome; e is the engine as the call left it, snapshot included.
ApplyOutcome(o, e) ==
  LET commit == o.commit # <<>>
  IN  (IF commit \/ o.display = "cleared" THEN Neutralise ELSE <<>>)
      \o (IF commit THEN <<CommitText(o.commit)>> ELSE <<>>)
      \o (CASE o.display = "unchanged" -> <<>>
            [] o.display = "cleared" -> HideAll
            [] o.display = "preedit" ->
                 (IF commit THEN <<Lookup(0)>> ELSE <<>>)
                 \o ShowDisplay([text |-> Preedit(e), stamp |-> 0])
            [] o.display = "conversion" -> ShowDisplay(Display(e)))
      \o (IF o.refresh THEN <<Spawn>> ELSE <<>>)

-----------------------------------------------------------------------------
(* Method calls                                                             *)

Idle(c) == todo[c] = <<>>

\* The daemon calls: keys, resets and focus_out come in focus, focus_in (and
\* enable with it) out of focus.
Begin(c, steps) ==
  /\ Idle(c)
  /\ events < MaxEvents
  /\ events' = events + 1
  /\ todo' = [todo EXCEPT ![c] = steps]

\* process_key_event for a press that reaches the engine: the flag is read
\* and the key dispatched under the engine's mutex; the flag is written back
\* when that mutex has been given up, and then the signals are sent.
ProcessKeyEvent(c) ==
  \E key \in KeyKinds :
    /\ focused
    /\ key \in TypingKinds => typed < MaxLetters
    /\ typed' = IF key \in TypingKinds THEN typed + 1 ELSE typed
    /\ \E r \in DispatchKey(engine, converting, key, typed + 1) :
         /\ engine' = r.engine
         /\ Begin(c, <<SetFlag(r.flag)>> \o ApplyOutcome(r.outcome, r.engine))
    /\ UNCHANGED <<converting, client, focused, task, sent, auto, crossed>>

\* focus_in and enable.
FocusIn(c) ==
  /\ ~focused
  /\ focused' = TRUE
  /\ Begin(c, HideAll)
  /\ UNCHANGED <<engine, converting, client, task, sent, auto, typed,
                 crossed>>

\* focus_out: the preedit on the screen is hidden, which commits it, and
\* then the engine is cleared.
FocusOut(c) ==
  /\ focused
  /\ focused' = FALSE
  /\ Begin(c, HideAll \o <<Clear, SetFlag(FALSE)>>)
  /\ UNCHANGED <<engine, converting, client, task, sent, auto, typed,
                 crossed>>

\* cancel_input: reset, disable, toggle-off and the Muhenkan key.
CancelInput(c) ==
  /\ Begin(c, <<SetFlag(FALSE)>> \o Neutralise \o HideAll)
  /\ engine' = Cancelled(engine)
  /\ UNCHANGED <<converting, client, focused, task, sent, auto, typed,
                 crossed>>

-----------------------------------------------------------------------------
(* The next step of a call                                                  *)

Advance(c) == todo' = [todo EXCEPT ![c] = Tail(@)]

NextIs(c, op) == todo[c] # <<>> /\ Head(todo[c]).op = op

StepFlag(c) ==
  /\ NextIs(c, "flag")
  /\ converting' = Head(todo[c]).value
  /\ Advance(c)
  /\ UNCHANGED <<engine, client, focused, task, sent, auto, typed, events,
                 crossed>>

\* reset and clear_conversion under the mutex.
StepClear(c) ==
  /\ NextIs(c, "clear")
  /\ engine' = Unfocused(engine)
  /\ Advance(c)
  /\ UNCHANGED <<converting, client, focused, task, sent, auto, typed, events,
                 crossed>>

StepUpdate(c) ==
  /\ NextIs(c, "update")
  /\ client' = [client EXCEPT !.shown = Head(todo[c]).shown,
                              !.mode = Head(todo[c]).mode]
  /\ Advance(c)
  /\ UNCHANGED <<engine, converting, focused, task, sent, auto, typed,
                 events, crossed>>

StepLookup(c) ==
  /\ NextIs(c, "lookup")
  /\ client' = [client EXCEPT !.lookup = Head(todo[c]).stamp]
  /\ Advance(c)
  /\ UNCHANGED <<engine, converting, focused, task, sent, auto, typed,
                 events, crossed>>

StepCommit(c) ==
  /\ NextIs(c, "commit")
  /\ sent' = Counted(sent, Head(todo[c]).text)
  /\ Advance(c)
  /\ UNCHANGED <<engine, converting, client, focused, task, auto, typed,
                 events, crossed>>

\* hide_preedit_text: IBus commits a preedit of mode 1.
StepHide(c) ==
  /\ NextIs(c, "hide")
  /\ auto' = IF client.mode = 1 THEN Counted(auto, client.shown.text) ELSE auto
  /\ client' = [client EXCEPT !.shown = Nothing]
  /\ Advance(c)
  /\ UNCHANGED <<engine, converting, focused, task, sent, typed, events,
                 crossed>>

\* spawn_rerank_refresh (waits for a free slot where the bound has none).
StepSpawn(c) ==
  /\ NextIs(c, "spawn")
  /\ \E t \in Tasks :
       /\ task[t].pc = "none"
       /\ task' = [task EXCEPT ![t] = [NoTask EXCEPT !.pc = "poll"]]
  /\ Advance(c)
  /\ UNCHANGED <<engine, converting, client, focused, sent, auto, typed,
                 events, crossed>>

Step(c) ==
  \/ StepFlag(c) \/ StepClear(c) \/ StepUpdate(c) \/ StepLookup(c)
  \/ StepCommit(c) \/ StepHide(c) \/ StepSpawn(c)

-----------------------------------------------------------------------------
(* Refresh tasks                                                            *)

\* The worker stores its result, as PassService promises.
ResultArrives ==
  /\ engine.pass = "running"
  /\ engine' = [engine EXCEPT !.pass = "ready"]
  /\ UNCHANGED <<converting, client, focused, todo, task, sent, auto, typed,
                 events, crossed>>

AllIdle == \A c \in Calls : Idle(c)
At(t, pc) == task[t].pc = pc
TaskGoes(t, pc) == task' = [task EXCEPT ![t].pc = pc]
TaskEnds(t) == task' = [task EXCEPT ![t] = NoTask]

\* Mutant: at the end of its budget a task does not look at the slot.
BuggyPoll(t) ==
  /\ At(t, "poll")
  /\ IF task[t].polls = MaxPolls THEN TaskEnds(t)
     ELSE IF engine.pass = "ready" THEN TaskGoes(t, "check")
     ELSE task' = [task EXCEPT ![t].polls = @ + 1]
  /\ UNCHANGED <<engine, converting, client, focused, todo, sent, auto, typed,
                 events, crossed>>

\* One poll, or the end of the budget.
Poll(t) ==
  /\ At(t, "poll")
  /\ IF engine.pass = "ready" \/ task[t].polls = MaxPolls
       THEN TaskGoes(t, "check")
       ELSE task' = [task EXCEPT ![t].polls = @ + 1]
  /\ UNCHANGED <<engine, converting, client, focused, todo, sent, auto, typed,
                 events, crossed>>

CheckFlag(t) ==
  /\ At(t, "check")
  /\ IF converting THEN TaskGoes(t, "apply") ELSE TaskEnds(t)
  /\ UNCHANGED <<engine, converting, client, focused, todo, sent, auto, typed,
                 events, crossed>>

\* apply_llm_rerank and the snapshot under one lock; with no result, or one
\* that changes nothing, the task is done.
Apply(t) ==
  /\ At(t, "apply")
  /\ \/ /\ engine.pass = "ready" /\ Converting(engine)
        /\ engine' = Changed([engine EXCEPT !.pass = "none"])
        /\ task' = [task EXCEPT ![t] = [@ EXCEPT !.pc = "recheck",
                                          !.shown = Display(engine'),
                                          !.generation = engine.generation]]
        /\ crossed' = (crossed \/ ~AllIdle)
     \/ /\ engine' = IF engine.pass = "ready"
                       THEN [engine EXCEPT !.pass = "none"] ELSE engine
        /\ TaskEnds(t)
        /\ UNCHANGED crossed
  /\ UNCHANGED <<converting, client, focused, todo, sent, auto, typed,
                 events>>

\* Mutant: the flag alone is looked at.
BuggyGuardPasses(t) == converting

GuardPasses(t) == converting /\ engine.generation = task[t].generation

\* The flag and the epoch are looked at again under the mutex ...
Recheck(t) ==
  /\ At(t, "recheck")
  /\ IF GuardPasses(t) THEN TaskGoes(t, "emit") ELSE TaskEnds(t)
  /\ UNCHANGED <<engine, converting, client, focused, todo, sent, auto, typed,
                 events, crossed>>

\* ... and the signals are sent after it has been given up: a call may have
\* changed the engine since, or be sending its own.
Crosses(t) == ~AllIdle \/ task[t].shown # Display(engine)

Emit(t) ==
  /\ At(t, "emit")
  /\ client' = [client EXCEPT !.shown = task[t].shown, !.mode = 1]
  /\ crossed' = (crossed \/ Crosses(t))
  /\ TaskGoes(t, "table")
  /\ UNCHANGED <<engine, converting, focused, todo, sent, auto, typed,
                 events>>

EmitTable(t) ==
  /\ At(t, "table")
  /\ client' = [client EXCEPT !.lookup = task[t].shown.stamp]
  /\ crossed' = (crossed \/ Crosses(t))
  /\ TaskEnds(t)
  /\ UNCHANGED <<engine, converting, focused, todo, sent, auto, typed,
                 events>>

RefreshStep(t) ==
  \/ Poll(t) \/ CheckFlag(t) \/ Apply(t) \/ Recheck(t) \/ Emit(t)
  \/ EmitTable(t)

-----------------------------------------------------------------------------
Next ==
  \/ \E c \in Calls :
       ProcessKeyEvent(c) \/ FocusIn(c) \/ FocusOut(c) \/ CancelInput(c)
         \/ Step(c)
  \/ ResultArrives
  \/ \E t \in Tasks : RefreshStep(t)

Spec == Init /\ [][Next]_vars

\* The runtime runs every task that can run; sending a signal returns.
\* Nothing is assumed about the daemon or the worker.
FairSpec ==
  /\ Spec
  /\ \A c \in Calls : WF_vars(Step(c))
  /\ \A t \in Tasks : WF_vars(RefreshStep(t))

-----------------------------------------------------------------------------
(* Properties                                                               *)

Settled == AllIdle /\ \A t \in Tasks : task[t].pc \in {"none", "poll", "check"}

\* When no call and no refresh is under way the screen shows what the engine
\* would commit, the preedit or the conversion, with the candidates exactly
\* while there is one: only a refresh that crosses a call can break this.
ScreenIsEngine ==
  Settled /\ ~crossed =>
    /\ client.shown = Display(engine)
    /\ client.lookup = Display(engine).stamp

\* Between calls the flag mirrors the engine, as dispatch.rs says both
\* frontends keep it; refresh tasks never disturb it.
FlagMirrorsEngine == AllIdle => (converting <=> Converting(engine))

Places(i) ==
  sent[i] + auto[i] + Count(Remains(engine), i) + engine.gone[i]

Excused(i) == i \in engine.strayed \cup InDoubt(engine)

\* Between calls, unless a refresh has crossed one, every keystroke is once in
\* the text given to the application (with commit_text, or by IBus at a focus
\* change), in what the engine would still commit, or among the deleted: by
\* Backspace, Escape or a reset, or discarded because no kana begins with it.
\* Excused are those the engine itself counts otherwise: the lone n that an
\* F-key conversion doubles; letters of the raw input, where it is shown, that
\* were discarded or that a cancel put back twice; the letters pending at Space
\* where the raw input covers them but is not shown; and at a focus loss the
\* pending letters, which are not on the screen.
EveryLetterOnce ==
  AllIdle /\ ~crossed => \A i \in 1 .. typed : ~Excused(i) => Places(i) = 1

\* The comments on apply_outcome and on the guard of the refresh task: what
\* IBus commits when a preedit is hidden and what commit_text sends combine
\* without inserting text twice, whatever a refresh does.
InsertedOnce == \A i \in Letters : sent[i] + auto[i] <= 1

\* A snapshot of a conversion that has ended does not pass the guard of its
\* refresh task, even when another conversion is up by then.
GuardCatchesEnd ==
  [][\A t \in Tasks :
       At(t, "recheck") /\ task'[t].pc = "emit" =>
         /\ Converting(engine)
         /\ task[t].shown.text \in {Reading(engine), engine.raw}]_vars

\* The comment on the guard of the refresh task: a snapshot that is no longer
\* current does not pass it.
GuardCatchesStale ==
  [][\A t \in Tasks :
       At(t, "recheck") /\ task'[t].pc = "emit"
         => task[t].shown = Display(engine)]_vars

\* A result that comes while a task polls is taken out of the slot.
ResultTaken ==
  \A t \in Tasks : At(t, "poll") /\ engine.pass = "ready" ~> engine.pass # "ready"
=============================================================================
