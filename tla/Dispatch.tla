------------------------------ MODULE Dispatch ------------------------------
(***************************************************************************)
(* dispatch_key (src/src/engine/dispatch.rs), which both frontends call for *)
(* every key press, as an operator from the engine, the caller's flag       *)
(* "converting" and a key to the possible results.                          *)
(*                                                                          *)
(* The engine is what the module Conversion does, seen from outside: which  *)
(* keystrokes it holds, where, and which of them it would commit.  A        *)
(* keystroke is a number, and a text is the sequence of the keystrokes it   *)
(* stands for, in which one may come twice.  A stamp tells apart what a     *)
(* conversion can show.                                                     *)
(***************************************************************************)
EXTENDS Naturals, FiniteSets, SequencesExt

CONSTANTS
  NoConversion,  \* conversion = None
  Untracked,     \* raw_input = None
  Nasals         \* keystrokes that are the letter n

\* Kinds of keys, as the ladder tells them apart: letters go through the
\* romaji converter, symbols around it; Shift+Space; Space and the keys that
\* start or act on a conversion; anything else; a press with Ctrl or Alt.
TypingKinds == {"letter", "symbol", "fullspace"}
Kinds == TypingKinds \cup
  {"space", "cycle", "focus", "resize", "fkey", "enter", "tab", "escape",
   "backspace", "other", "shortcut"}

\* pending is what the conversion captured from the romaji buffer, keeps
\* whether a commit puts it back, fkey whether F6 to F10 started it.  raw is
\* where its romaji form stands, the raw input as typed: it has none, knows
\* it, lists it as a candidate or shows it.
Conversions(Letters) ==
  [pending : Seq(Letters), keeps : BOOLEAN, fkey : BOOLEAN,
   raw : {"none", "known", "listed", "shown"}]

ASSUME NoConversionAssumption == NoConversion \notin Conversions(Nat)

\* The last three fields are history, which only the properties read: how
\* often a keystroke was deleted, cancelled or discarded; the keystrokes that
\* the raw input has otherwise than the preedit; and those that left the
\* engine otherwise than once.
Engines(Letters) ==
  [kana : Seq(Letters), buffer : Seq(Letters),
   raw : Seq(Letters) \cup {Untracked},
   conversion : Conversions(Letters) \cup {NoConversion},
   stamp : Nat, generation : Nat, pass : {"none", "running", "ready"},
   gone : [Letters -> Nat], ghosts : SUBSET Letters,
   strayed : SUBSET Letters]

NewEngine(Letters) ==
  [kana |-> <<>>, buffer |-> <<>>, raw |-> <<>>, conversion |-> NoConversion,
   stamp |-> 0, generation |-> 0, pass |-> "none",
   gone |-> [i \in Letters |-> 0], ghosts |-> {}, strayed |-> {}]

\* How often the keystroke i is in a text.
Count(text, i) == Cardinality({j \in DOMAIN text : text[j] = i})

Converting(e) == e.conversion # NoConversion
Preedit(e) == e.kana \o e.buffer
LoneN(buffer) == Len(buffer) = 1 /\ buffer[1] \in Nasals
Spelt(e) == e.raw \notin {Untracked, <<>>}

\* The kana of a conversion.  start_kana_conversion puts the pending letters
\* behind the flushed output.
Reading(e) ==
  IF e.conversion.fkey THEN e.kana \o e.conversion.pending ELSE e.kana

\* Mutant: the pending letters are put back though the text has them.
BuggyPutBack(e) == e.conversion.pending

\* What commit_conversion puts back into the buffer.
PutBack(e) == IF e.conversion.keeps THEN e.conversion.pending ELSE <<>>

\* composed_text
Text(e) == IF e.conversion.raw = "shown" THEN e.raw ELSE Reading(e)

\* What a display of the engine shows: the preedit, or the composed text of
\* the conversion with its candidates.
Nothing == [text |-> <<>>, stamp |-> 0]
Display(e) ==
  IF Converting(e) THEN [text |-> Text(e), stamp |-> e.stamp]
  ELSE [text |-> Preedit(e), stamp |-> 0]

-----------------------------------------------------------------------------
(* What becomes of a keystroke                                              *)

\* A lone n that an F-key conversion captured before the flush made it a
\* kana: it is in the kana and pending.
Doubled(e) == e.conversion.fkey /\ LoneN(e.conversion.pending)

\* What was typed and not deleted, every keystroke once.
Own(e) ==
  IF ~Converting(e) THEN Preedit(e)
  ELSE e.kana \o (IF Doubled(e) THEN <<>> ELSE e.conversion.pending)

\* What a commit would send and leave in the engine.
Remains(e) ==
  IF ~Converting(e) THEN Preedit(e) ELSE Text(e) \o PutBack(e)

\* Keystrokes that a commit does not send or keep just once: ghosts of the raw
\* input, where it is shown; the doubled n; and the letters pending at Space
\* that only the romaji form would send.
InDoubt(e) ==
  IF ~Converting(e) THEN {}
  ELSE IF e.conversion.raw = "shown" THEN e.ghosts
  ELSE IF Doubled(e) \/ ~(e.conversion.fkey \/ e.conversion.keeps)
    THEN ToSet(e.conversion.pending)
  ELSE {}

\* A loss of focus inserts the text; the pending letters it leaves out are
\* cleared with the engine.
InDoubtUnfocused(e) ==
  IF Converting(e) THEN InDoubt(e) \cup ToSet(PutBack(e)) ELSE {}

Gone(e, text) ==
  [e EXCEPT !.gone = [i \in DOMAIN @ |-> @[i] + Count(text, i)]]

Strayed(e, letters) == [e EXCEPT !.strayed = @ \cup letters]

\* The raw input has the letters otherwise than the preedit from now on.
Ghosts(e, letters) ==
  IF e.raw = Untracked THEN e ELSE [e EXCEPT !.ghosts = @ \cup letters]

-----------------------------------------------------------------------------
(* What the engine's methods do (modules Romaji, Conversion, PassService)   *)

Tracked(raw, text) == IF raw = Untracked THEN raw ELSE raw \o text

\* Letters at the head of the buffer become kana and the rest is kept, or
\* matches nothing and is discarded, though not from raw_input.
ProcessKey(e, k) ==
  LET b == Append(e.buffer, k)
      Split(n) ==
        [e EXCEPT !.kana = @ \o SubSeq(b, 1, n),
                  !.buffer = SubSeq(b, n + 1, Len(b)),
                  !.raw = Tracked(@, <<k>>)]
      Discarded(s) ==
        Ghosts(Gone([s EXCEPT !.buffer = <<>>], s.buffer), ToSet(s.buffer))
  IN  {Split(n) : n \in 0 .. Len(b)}
        \cup {Discarded(Split(n)) : n \in {m \in 0 .. Len(b) : m + 2 <= Len(b)}}

AppendRaw(e, k) ==
  [e EXCEPT !.kana = Append(Preedit(e), k), !.buffer = <<>>,
            !.raw = Untracked]

\* One letter of the buffer, or else one kana, which several letters made.
DeleteLast(e) ==
  IF e.buffer # <<>>
    THEN {Gone([e EXCEPT !.buffer = Front(@),
                         !.raw = IF Spelt(e) THEN Front(@) ELSE @],
               <<Last(e.buffer)>>)}
    ELSE {Gone([e EXCEPT !.kana = SubSeq(@, 1, n), !.raw = Untracked],
               SubSeq(e.kana, n + 1, Len(e.kana))) :
            n \in 0 .. Len(e.kana) - 1}

Trigger(e) == [e EXCEPT !.generation = @ + 1, !.pass = "running"]
Invalidate(e) == [e EXCEPT !.generation = @ + 1, !.pass = "none"]
Changed(e) == [e EXCEPT !.stamp = @ + 1]

Converted(e, conversion) ==
  Changed([e EXCEPT !.kana = IF LoneN(e.buffer) THEN Preedit(e) ELSE @,
                    !.buffer = <<>>, !.conversion = conversion])

\* Without any kana, made by flush from a lone n at least, there is nothing to
\* convert.  The raw input is known for a single segment only; it covers the
\* pending letters, which otherwise stay out of the text and are put back.
StartConversion(e) ==
  IF e.kana = <<>> /\ ~LoneN(e.buffer) THEN {}
  ELSE LET pending == IF LoneN(e.buffer) THEN <<>> ELSE e.buffer
       IN  {Trigger(Converted(e,
              [pending |-> pending, fkey |-> FALSE, raw |-> raw,
               keeps |-> ~(raw = "known" /\ pending # <<>>)])) :
              raw \in IF Spelt(e) THEN {"none", "known"} ELSE {"none"}}

\* The whole preedit in a kana form, or the raw input as typed.
StartKanaConversion(e) ==
  IF Preedit(e) = <<>> THEN {}
  ELSE {Converted(e, [pending |-> e.buffer, fkey |-> TRUE, raw |-> raw,
                      keeps |-> FALSE]) :
          raw \in IF Spelt(e) THEN {"listed", "shown"} ELSE {"none"}}

\* Where a key leaves the romaji form: F9 and F10 add and show it, cycling
\* may pass it, once listed.
Forms(raw, key) ==
  IF key = "focus" \/ raw = "none" THEN {raw}
  ELSE IF key = "fkey" THEN {"shown", IF raw = "known" THEN raw ELSE "listed"}
  ELSE IF raw = "known" THEN {raw} ELSE {"listed", "shown"}

\* cycle_candidate, move_focus, convert_focused_to: the display may change.
Edit(e, key) ==
  IF ~Converting(e) THEN {e}
  ELSE {e} \cup {Changed([e EXCEPT !.conversion.raw = raw]) :
                   raw \in Forms(e.conversion.raw, key)}

\* resize_segment: refused at the edges, else a new pass starts and the raw
\* input, which no segment spells alone, is forgotten.
Resize(e) ==
  IF ~Converting(e) THEN {e}
  ELSE {e, Trigger(Changed([e EXCEPT !.conversion.raw = "none"]))}

\* reset of the converter, and then restore_buffer.
Restored(e, pending) ==
  [e EXCEPT !.kana = <<>>, !.buffer = pending, !.raw = pending, !.ghosts = {}]

Commit(e) == Restored(e, <<>>)

\* commit_conversion: the text, if there is a conversion, and the engine.
CommitConversion(e) ==
  IF ~Converting(e) THEN [text |-> <<>>, engine |-> e]
  ELSE [text |-> Text(e),
        engine |-> Invalidate(Strayed(
          [Restored(e, PutBack(e)) EXCEPT !.conversion = NoConversion],
          InDoubt(e)))]

\* The pending letters go back to the buffer and behind the raw input, which
\* has them already; a lone n goes behind the kana that flush made of it.
CancelConversion(e) ==
  Invalidate(
    IF ~Converting(e) THEN e
    ELSE LET pending == e.conversion.pending
             back == IF e.buffer # <<>> THEN e
                     ELSE [e EXCEPT !.buffer = pending,
                                    !.raw = Tracked(@, pending)]
         IN  Strayed(Ghosts([back EXCEPT !.conversion = NoConversion],
                            ToSet(pending)),
                     IF Doubled(e) THEN ToSet(pending) ELSE {}))

\* reset and clear_conversion.
ClearAll(e) ==
  Invalidate([Restored(e, <<>>) EXCEPT !.conversion = NoConversion])

\* The same where the user walks away from the text, and where the focus is
\* lost and the text inserted.
Cancelled(e) == Gone(ClearAll(e), Own(e))
Unfocused(e) == Strayed(ClearAll(e), InDoubtUnfocused(e))

-----------------------------------------------------------------------------
(* KeyOutcome                                                               *)

Outcome(consumed, commit, display, refresh) ==
  [consumed |-> consumed, commit |-> commit, display |-> display,
   refresh |-> refresh]

Ignored(consumed) == Outcome(consumed, <<>>, "unchanged", FALSE)
ShowConversion(refresh) == Outcome(TRUE, <<>>, "conversion", refresh)
CommitAndClear(text) == Outcome(TRUE, text, "cleared", FALSE)

\* Mutant: what is left after a commit is not shown.
BuggyPreeditOrCleared(commit, e) ==
  Outcome(TRUE, commit, IF Preedit(e) = <<>> \/ commit # <<>> THEN "cleared"
                        ELSE "preedit", FALSE)

\* After a commit or a cancel: what is left in the engine is shown.
PreeditOrCleared(commit, e) ==
  Outcome(TRUE, commit, IF Preedit(e) = <<>> THEN "cleared" ELSE "preedit",
          FALSE)

Result(e, flag, outcome) ==
  [engine |-> e, flag |-> flag, outcome |-> outcome]

-----------------------------------------------------------------------------
(* The ladder                                                               *)

\* Typing during a conversion commits it first.
TypingKey(e, flag, key, k) ==
  LET done == IF flag THEN CommitConversion(e) ELSE [text |-> <<>>, engine |-> e]
      typed == IF key = "letter" THEN ProcessKey(done.engine, k)
               ELSE {AppendRaw(done.engine, k)}
  IN  {Result(t, FALSE, Outcome(TRUE, done.text, "preedit", FALSE)) :
         t \in typed}

\* Mutant: the flag is left up by the key that commits.
BuggyTabKey(e, flag) ==
  LET done == IF flag THEN CommitConversion(e)
              ELSE [text |-> Preedit(e), engine |-> Commit(e)]
  IN  {Result(done.engine, flag, PreeditOrCleared(done.text, done.engine))}

TabKey(e, flag) ==
  IF flag
    THEN LET done == CommitConversion(e)
         IN  {Result(done.engine, FALSE,
                     IF done.text # <<>>
                       THEN PreeditOrCleared(done.text, done.engine)
                       ELSE CommitAndClear(<<>>))}
  ELSE IF Preedit(e) = <<>> THEN {Result(e, flag, Ignored(FALSE))}
  ELSE {Result(Commit(e), flag, CommitAndClear(Preedit(e)))}

\* F6 to F10: another form in a conversion, or a conversion of its own.
KanaFormKey(e, flag) ==
  IF flag
    THEN IF Converting(e)
           THEN {Result(n, TRUE, ShowConversion(FALSE)) : n \in Edit(e, "fkey")}
           ELSE {Result(e, TRUE, Ignored(TRUE))}
  ELSE IF Preedit(e) = <<>> THEN {Result(e, FALSE, Ignored(TRUE))}
  ELSE {Result(n, TRUE, ShowConversion(FALSE)) : n \in StartKanaConversion(e)}

\* The keys conversion_key knows, and any other, which is swallowed.
ConversionKey(e, key) ==
  CASE key \in {"space", "cycle", "focus"} ->
         {Result(n, TRUE, ShowConversion(FALSE)) : n \in Edit(e, key)}
    [] key = "resize" ->
         {Result(n, TRUE, ShowConversion(TRUE)) : n \in Resize(e)}
    [] key = "enter" ->
         LET done == CommitConversion(e)
         IN  {Result(done.engine, FALSE,
                     PreeditOrCleared(done.text, done.engine))}
    [] key \in {"escape", "backspace"} ->
         LET n == CancelConversion(e)
         IN  {Result(n, FALSE, PreeditOrCleared(<<>>, n))}
    [] OTHER -> {Result(e, TRUE, Ignored(TRUE))}

SpaceKey(e) ==
  {Result(n, TRUE, ShowConversion(TRUE)) : n \in StartConversion(e)}
    \cup (IF StartConversion(e) = {}
            THEN {Result(e, FALSE, Ignored(Preedit(e) # <<>>))} ELSE {})

\* Keys without a conversion.
PreeditKey(e, key) ==
  CASE key = "space" -> SpaceKey(e)
    [] key = "enter" /\ Preedit(e) # <<>> ->
         {Result(Commit(e), FALSE, CommitAndClear(Preedit(e)))}
    [] key = "escape" /\ Preedit(e) # <<>> ->
         {Result(Cancelled(e), FALSE, CommitAndClear(<<>>))}
    [] key = "backspace" /\ Preedit(e) # <<>> ->
         {Result(n, FALSE, PreeditOrCleared(<<>>, n)) : n \in DeleteLast(e)}
    [] key \in {"enter", "escape", "backspace"} /\ Preedit(e) = <<>> ->
         {Result(e, FALSE, Ignored(FALSE))}
    [] OTHER -> {Result(e, FALSE, Ignored(Preedit(e) # <<>>))}

\* dispatch_key; k is the keystroke that a typing key makes.
DispatchKey(e, flag, key, k) ==
  CASE key = "shortcut" -> {Result(e, flag, Ignored(FALSE))}
    [] key \in TypingKinds -> TypingKey(e, flag, key, k)
    [] key = "tab" -> TabKey(e, flag)
    [] key = "fkey" -> KanaFormKey(e, flag)
    [] OTHER -> IF flag THEN ConversionKey(e, key) ELSE PreeditKey(e, key)
=============================================================================
