----------------------------- MODULE Conversion -----------------------------
(***************************************************************************)
(* The conversion of a ConversionEngine (src/src/engine/mod.rs): typing    *)
(* through the romaji converter, Space and F-key starts, editing the       *)
(* segments, background reranks as PassService promises them, commit with  *)
(* learning, and cancel, called in the order dispatch_key calls them.      *)
(*                                                                         *)
(* A surface is the keystrokes it spells and its form: a dictionary word,  *)
(* or one of the forms of the F-keys.  What the dictionary, the segmenter  *)
(* and the language model answer is nondeterministic.  Indices count from  *)
(* 1, start positions from 0 as in the code.                               *)
(***************************************************************************)
EXTENDS Romaji, FiniteSets

CONSTANTS
  Letters,       \* kinds of keys the user types
  KanaForms,     \* forms the user asks for with the F-keys
  Orders,        \* orders in which a lookup can list kana and words
  Ids,           \* bound: keystrokes in the preedit or the raw input
  StoreOutcomes, \* what a write to the store can come to
  MaxLearned,    \* MAX_USER_SEGMENTATIONS, rows of the learned layouts
  NoConversion   \* conversion = None

ASSUME LettersAssumption == Letters \subseteq {"n", "c", "v", "s"}
\* A dictionary word; F6; F7 and F8, which differ in their glyphs only; F9
\* and F10, likewise.
Forms == {"word", "hiragana", "katakana", "romaji"}

ASSUME FormsAssumption ==
  /\ KanaForms \subseteq Forms \ {"word"}
  /\ \A order \in Orders : order \in Seq(Forms) /\ "hiragana" \in ToSet(order)
ASSUME StoreAssumption == StoreOutcomes \subseteq {"ok", "error"}
ASSUME BoundsAssumption == IsFiniteSet(Ids) /\ MaxLearned \in Nat \ {0}

MaxKeys == Cardinality(Ids)

VARIABLES
  romaji,      \* the RomajiConverter
  conversion,  \* the ConversionState, or NoConversion
  learned,     \* UserScorer.segmentations: kana text -> boundaries
  pass,        \* snapshot of the current rerank pass: at most one element
  sent         \* keystrokes of the text the last call gave the application

vars == <<romaji, conversion, learned, pass, sent>>

Keys == [id : Ids, letter : {"n", "c", "v", "s"}]
Kana == Seq(Keys)
Surfaces == [keys : Seq(Keys), form : Forms]

\* choice is a history variable: the surface the user last picked in the
\* segment, if any.
Segments ==
  [reading : Seq(Kana), start : Nat, candidates : Seq(Surfaces),
   selected : Nat \ {0}, userSelected : BOOLEAN,
   choice : Surfaces \cup {NoConversion}]

\* preedit is a history variable: what was on display when the conversion
\* was started.
ConversionStates ==
  [kana : Seq(Kana), segments : Seq(Segments), focus : Nat \ {0},
   raw : Seq(Keys) \cup {Untracked}, initial : Seq(Nat),
   pending : Seq(Keys), consumed : BOOLEAN, learnedHit : BOOLEAN,
   origin : {"space", "fkey"}, preedit : Seq(Keys)]

\* The selected candidate and the focused segment exist, and there is a
\* segment: composed_text and the handlers index without a check.
InRange(cv) ==
  /\ cv.segments # <<>>
  /\ cv.focus \in 1 .. Len(cv.segments)
  /\ \A i \in 1 .. Len(cv.segments) :
       cv.segments[i].selected \in 1 .. Len(cv.segments[i].candidates)

TypeOK ==
  /\ romaji \in [output : Seq(Kana), buffer : Seq(Keys),
                 raw : Seq(Keys) \cup {Untracked}]
  /\ conversion # NoConversion =>
       conversion \in ConversionStates /\ InRange(conversion)
  /\ \A text \in DOMAIN learned : learned[text] \in Seq(Nat)
  /\ Cardinality(DOMAIN learned) <= MaxLearned
  /\ \A snapshot \in pass :
       \A i \in 1 .. Len(snapshot) : snapshot[i].candidates \in Seq(Surfaces)
  /\ sent \in Seq(Keys)

Init ==
  /\ romaji = NewConverter
  /\ conversion = NoConversion
  /\ learned = [text \in {} |-> <<>>]
  /\ pass = {}
  /\ sent = <<>>

NothingSent == sent' = <<>>

-----------------------------------------------------------------------------
(* Segments and candidates                                                 *)

\* What the user sees of a kana string: equal strings are learned alike,
\* whichever keystrokes made them.
Text(kana) ==
  [i \in DOMAIN kana |-> [j \in DOMAIN kana[i] |-> kana[i][j].letter]]

Surface(reading, form) == [keys |-> Spell(reading), form |-> form]

\* What a lookup finds for a reading, the kana itself always among it.
Candidates(reading, order) ==
  [i \in 1 .. Len(order) |-> Surface(reading, order[i])]

NewSegment(reading, start, order) ==
  [reading |-> reading, start |-> start,
   candidates |-> Candidates(reading, order), selected |-> 1,
   userSelected |-> FALSE, choice |-> NoConversion]

\* Boundary layouts of a string of n kana: increasing positions inside it.
Layouts(n) ==
  {b \in UNION {[1 .. k -> 1 .. n - 1] : k \in 0 .. n - 1} :
     \A i, j \in DOMAIN b : i < j => b[i] < b[j]}

\* The segment lists that a layout of the kana from position base on gives,
\* with whatever candidates a lookup finds.
SegmentLists(kana, base, boundaries) ==
  LET cuts == <<0>> \o boundaries \o <<Len(kana)>>
      count == Len(boundaries) + 1
  IN  {[i \in 1 .. count |->
          NewSegment(SubSeq(kana, cuts[i] + 1, cuts[i + 1]), base + cuts[i],
                     orders[i])] :
         orders \in [1 .. count -> Orders]}

BoundariesOf(segments) ==
  [i \in 1 .. Len(segments) - 1 |-> segments[i + 1].start]

ComposedKeys(segments) ==
  FlattenSeq([i \in 1 .. Len(segments) |->
                segments[i].candidates[segments[i].selected].keys])

Snapshot(segments) ==
  [i \in 1 .. Len(segments) |->
     [reading |-> segments[i].reading, candidates |-> segments[i].candidates]]

-----------------------------------------------------------------------------
(* Typing, with no conversion (dispatch_key, process_char)                 *)

RawKeys == IF romaji.raw = Untracked THEN <<>> ELSE romaji.raw

LiveKeys == ToSet(Preedit(romaji)) \cup ToSet(RawKeys)

\* What MaxKeys bounds.  A cancel can double keystrokes (see NoGhostInput),
\* and then nothing is typed or converted beyond the bound
\* (StartKanaConversion bounds the kana it makes, too).
Alive ==
  IF Len(RawKeys) > Len(Preedit(romaji)) THEN Len(RawKeys)
  ELSE Len(Preedit(romaji))

FreshKeys(letter) ==
  {Key(id, letter) : id \in Ids \ {k.id : k \in LiveKeys}}

TypeKey ==
  /\ conversion = NoConversion
  /\ Alive < MaxKeys
  /\ \E letter \in Letters : \E k \in FreshKeys(letter) :
       IF letter = "s"
         THEN romaji' = AppendRaw(FlushPendingAsLiteral(romaji), k)
         ELSE romaji' \in ProcessKey(romaji, k)
  /\ NothingSent
  /\ UNCHANGED <<conversion, learned, pass>>

Backspace ==
  /\ conversion = NoConversion
  /\ Preedit(romaji) # <<>>
  /\ romaji' = DeleteLast(romaji)
  /\ NothingSent
  /\ UNCHANGED <<conversion, learned, pass>>

\* commit: the preedit goes to the application as it is.
CommitPreedit ==
  /\ conversion = NoConversion
  /\ Preedit(romaji) # <<>>
  /\ romaji' = NewConverter
  /\ sent' = Preedit(romaji)
  /\ UNCHANGED <<conversion, learned, pass>>

\* Escape in the preedit, and at any time the frontends' global cancels:
\* reset and clear_conversion.
ClearAll ==
  /\ romaji' = NewConverter
  /\ conversion' = NoConversion
  /\ pass' = {}
  /\ NothingSent
  /\ UNCHANGED learned

-----------------------------------------------------------------------------
(* Starting a conversion                                                   *)

\* Mutant: a learned layout the segmenter alone would give is not applied
\* when the language model has made another choice.
BuggyOverrides(text, heuristic, chosen) ==
  /\ text \in DOMAIN learned
  /\ learned[text] # chosen
  /\ learned[text] # heuristic

\* The learned layout wins over the one chosen now.
Overrides(text, heuristic, chosen) ==
  /\ text \in DOMAIN learned
  /\ learned[text] # chosen

\* The learned layout says nothing new, with the model or without it.
Redundant(text, heuristic, chosen) ==
  /\ text \in DOMAIN learned
  /\ learned[text] = chosen
  /\ learned[text] = heuristic

\* start_conversion.  heuristic is the layout the segmenter would give with
\* the language model off and chosen the one it gives now; a learned layout
\* overrides a chosen one that differs, and is forgotten when both agree
\* with it.
StartConversion ==
  /\ conversion = NoConversion
  /\ romaji.output # <<>> \/ IsLoneN(romaji.buffer)
  /\ Alive <= MaxKeys
  /\ NothingSent
  /\ LET flushed == Flush(romaji)
         kana == flushed.output
         pending == IF IsLoneN(romaji.buffer) THEN <<>> ELSE romaji.buffer
         text == Text(kana)
     IN  /\ romaji' = flushed
         /\ \E heuristic, chosen \in Layouts(Len(kana)) :
              LET redundant == Redundant(text, heuristic, chosen)
                  layout == IF Overrides(text, heuristic, chosen)
                              THEN learned[text] ELSE chosen
              IN  \E segments \in SegmentLists(kana, 0, layout) :
                    LET raw == IF Len(segments) = 1 THEN romaji.raw
                               ELSE Untracked
                    IN  /\ conversion' =
                             [kana |-> kana, segments |-> segments,
                              focus |-> 1, raw |-> raw,
                              initial |-> BoundariesOf(segments),
                              pending |-> pending,
                              consumed |-> raw # Untracked /\ pending # <<>>,
                              learnedHit |-> text \in DOMAIN learned
                                               /\ ~redundant,
                              origin |-> "space",
                              preedit |-> Preedit(romaji)]
                        /\ learned' = IF redundant
                                        THEN [t \in DOMAIN learned \ {text} |->
                                                learned[t]]
                                        ELSE learned
                        /\ pass' = {Snapshot(segments)}

\* The surface of an F-key form: romaji forms take the raw input as typed
\* where it is tracked.
FormSurface(raw, reading, form) ==
  IF form = "romaji" /\ raw # Untracked /\ raw # <<>>
    THEN [keys |-> raw, form |-> form]
    ELSE Surface(reading, form)

\* start_kana_conversion.  The pending letters are captured before the flush
\* and put behind the flushed output.
StartKanaConversion(form) ==
  /\ conversion = NoConversion
  /\ Preedit(romaji) # <<>>
  /\ Alive <= MaxKeys
  /\ LET pending == romaji.buffer
         flushed == Flush(romaji)
         kana == flushed.output \o Literal(pending)
         forms == <<"hiragana", "katakana", "romaji">>
         candidates ==
           [i \in 1 .. 3 |-> FormSurface(romaji.raw, kana, forms[i])]
         selected == CHOOSE i \in 1 .. 3 : forms[i] = form
     IN  /\ Len(kana) <= MaxKeys
         /\ romaji' = flushed
         /\ conversion' =
              [kana |-> kana,
               segments |->
                 <<[reading |-> kana, start |-> 0, candidates |-> candidates,
                    selected |-> selected, userSelected |-> form # "hiragana",
                    choice |-> candidates[selected]]>>,
               focus |-> 1, raw |-> romaji.raw, initial |-> <<>>,
               pending |-> pending, consumed |-> TRUE, learnedHit |-> FALSE,
               origin |-> "fkey", preedit |-> Preedit(romaji)]
  /\ NothingSent
  /\ UNCHANGED <<learned, pass>>

-----------------------------------------------------------------------------
(* Editing a conversion                                                    *)

Focused == conversion.segments[conversion.focus]

MoveFocus ==
  /\ conversion # NoConversion
  /\ \E step \in {1, Len(conversion.segments) - 1} :
       conversion' =
         [conversion EXCEPT
            !.focus = ((@ - 1 + step) % Len(conversion.segments)) + 1]
  /\ NothingSent
  /\ UNCHANGED <<romaji, learned, pass>>

Pick(segment, i) ==
  [segment EXCEPT !.selected = i, !.userSelected = TRUE,
                  !.choice = segment.candidates[i]]

CycleCandidate ==
  /\ conversion # NoConversion
  /\ LET len == Len(Focused.candidates)
     IN  \E step \in {1, len - 1} :
           conversion' =
             [conversion EXCEPT
                !.segments[conversion.focus] =
                  Pick(@, ((@.selected - 1 + step) % len) + 1)]
  /\ NothingSent
  /\ UNCHANGED <<romaji, learned, pass>>

\* convert_focused_to: the form is selected where it is listed, else it is
\* added at the end.
ConvertFocusedTo(form) ==
  /\ conversion # NoConversion
  /\ LET surface == FormSurface(conversion.raw, Focused.reading, form)
         listed == {i \in 1 .. Len(Focused.candidates) :
                      Focused.candidates[i] = surface}
         grown == IF listed # {} THEN Focused
                  ELSE [Focused EXCEPT !.candidates = Append(@, surface)]
         place == IF listed # {} THEN Min(listed) ELSE Len(grown.candidates)
     IN  conversion' =
           [conversion EXCEPT !.segments[conversion.focus] = Pick(grown, place)]
  /\ NothingSent
  /\ UNCHANGED <<romaji, learned, pass>>

\* Mutant: the selection index is kept for the new candidates.
BuggyRelookup(segment) ==
  {[NewSegment(segment.reading, segment.start, order) EXCEPT
      !.selected = segment.selected] : order \in Orders}

\* relookup_segment: new candidates, and no selection by the user.
Relookup(segment) ==
  {NewSegment(segment.reading, segment.start, order) : order \in Orders}

\* relookup_or_split_segment: the segmenter is asked about the reading.
RelookupOrSplit(segment) ==
  UNION {SegmentLists(segment.reading, segment.start, b) :
           b \in Layouts(Len(segment.reading))}

WithReading(segment, reading, start) ==
  [segment EXCEPT !.reading = reading, !.start = start]

\* Mutant: the raw input stays although two segments share it.
BuggyResized(focused, following, restFrom) ==
  LET segments == conversion.segments
      f == conversion.focus
  IN  \E s \in Relookup(focused), next \in following :
        LET new == SubSeq(segments, 1, f - 1) \o <<s>> \o next
                     \o SubSeq(segments, restFrom, Len(segments))
        IN  /\ conversion' = [conversion EXCEPT !.segments = new]
            /\ pass' = {Snapshot(new)}

\* The segments after a boundary moved: up to the focused one, the focused
\* one looked up again, those that follow it (at most one of them new) and
\* the rest.  Then the rerank is triggered and the raw input forgotten.
Resized(focused, following, restFrom) ==
  LET segments == conversion.segments
      f == conversion.focus
  IN  \E s \in Relookup(focused), next \in following :
        LET new == SubSeq(segments, 1, f - 1) \o <<s>> \o next
                     \o SubSeq(segments, restFrom, Len(segments))
        IN  /\ conversion' = [conversion EXCEPT !.segments = new,
                                                !.raw = Untracked]
            /\ pass' = {Snapshot(new)}

AsLists(S) == {<<s>> : s \in S}

\* Shift+Right: the first kana of the next segment moves over.  A next
\* segment of one kana disappears, and then the one after it is looked up
\* again in its place.
ExtendSegment ==
  /\ conversion # NoConversion
  /\ conversion.focus < Len(conversion.segments)
  /\ LET segments == conversion.segments
         f == conversion.focus
         next == segments[f + 1]
         longer == Append(Focused.reading, Head(next.reading))
         focused == WithReading(Focused, longer, Focused.start)
     IN  IF Len(next.reading) > 1
           THEN Resized(focused,
                        AsLists(Relookup(WithReading(next, Tail(next.reading),
                                                     next.start + 1))),
                        f + 2)
         ELSE IF f + 2 <= Len(segments)
           THEN Resized(focused, AsLists(Relookup(segments[f + 2])), f + 3)
           ELSE Resized(focused, {<<>>}, f + 2)
  /\ NothingSent
  /\ UNCHANGED <<romaji, learned>>

\* Mutant: the start of the segment that got the kana is not moved.
BuggyShrinkSegment ==
  /\ conversion # NoConversion
  /\ Len(Focused.reading) > 1
  /\ LET segments == conversion.segments
         f == conversion.focus
         focused == WithReading(Focused, Front(Focused.reading), Focused.start)
         kana == Last(Focused.reading)
         next == IF f < Len(segments)
                   THEN WithReading(segments[f + 1],
                                    <<kana>> \o segments[f + 1].reading,
                                    segments[f + 1].start)
                   ELSE NewSegment(<<kana>>,
                                   focused.start + Len(focused.reading),
                                   <<"hiragana">>)
     IN  Resized(focused, RelookupOrSplit(next), f + 2)
  /\ NothingSent
  /\ UNCHANGED <<romaji, learned>>

\* Shift+Left: the last kana of the focused segment moves into the next
\* segment, or into a new one behind the last; that segment may be split.
ShrinkSegment ==
  /\ conversion # NoConversion
  /\ Len(Focused.reading) > 1
  /\ LET segments == conversion.segments
         f == conversion.focus
         focused == WithReading(Focused, Front(Focused.reading), Focused.start)
         kana == Last(Focused.reading)
         next == IF f < Len(segments)
                   THEN WithReading(segments[f + 1],
                                    <<kana>> \o segments[f + 1].reading,
                                    segments[f + 1].start - 1)
                   ELSE NewSegment(<<kana>>,
                                   focused.start + Len(focused.reading),
                                   <<"hiragana">>)
     IN  Resized(focused, RelookupOrSplit(next), f + 2)
  /\ NothingSent
  /\ UNCHANGED <<romaji, learned>>

\* The orders a worker can give the candidates of one segment: single kana
\* are never reranked.
Reranked(entry) ==
  IF Len(entry.reading) < 2 THEN {entry.candidates}
  ELSE {[i \in DOMAIN entry.candidates |-> entry.candidates[p[i]]] :
          p \in {q \in [DOMAIN entry.candidates -> DOMAIN entry.candidates] :
                   \A i, j \in DOMAIN q : q[i] = q[j] => i = j}}

\* Mutant: the segments the user chose for are reranked like the others.
BuggyOpenToRerank(segments) == DOMAIN segments

OpenToRerank(segments) ==
  {i \in DOMAIN segments : ~segments[i].userSelected}

WithOrder(segment, candidates) ==
  IF segment.candidates = candidates THEN segment
  ELSE [segment EXCEPT !.candidates = candidates, !.selected = 1]

\* apply_llm_rerank for the result of the current pass (PassService says
\* that no other gets through): the segments the user has not chosen for
\* take the order computed for them.
ApplyRerank ==
  /\ conversion # NoConversion
  /\ \E snapshot \in pass :
       LET segments == conversion.segments
           open == OpenToRerank(segments)
           aligned == [i \in DOMAIN snapshot |-> snapshot[i].reading]
                        = [i \in DOMAIN segments |-> segments[i].reading]
       IN  IF aligned
             THEN \E r \in [open ->
                             UNION {Reranked(snapshot[i]) : i \in open}] :
                    /\ \A i \in open : r[i] \in Reranked(snapshot[i])
                    /\ conversion' =
                         [conversion EXCEPT
                            !.segments = [i \in DOMAIN segments |->
                                            IF i \in open
                                              THEN WithOrder(segments[i], r[i])
                                              ELSE segments[i]]]
             ELSE UNCHANGED conversion
  /\ pass' = {}
  /\ NothingSent
  /\ UNCHANGED <<romaji, learned>>

\* The worker panics: no result will come.
PassFails ==
  /\ pass # {}
  /\ pass' = {}
  /\ NothingSent
  /\ UNCHANGED <<romaji, conversion, learned>>

-----------------------------------------------------------------------------
(* Ending a conversion                                                     *)

\* record_segmentation: the row is written and others may be evicted to stay
\* at the cap, or the store fails and nothing changes.
Recorded(text, boundaries) ==
  LET kept(rows) == [t \in rows \cup {text} |->
                       IF t = text THEN boundaries ELSE learned[t]]
      others == DOMAIN learned \ {text}
  IN  {learned : x \in StoreOutcomes \cap {"error"}} \cup
        {kept(rows) : rows \in {r \in SUBSET others :
                                  /\ "ok" \in StoreOutcomes
                                  /\ Cardinality(r) < MaxLearned
                                  /\ \/ r = others
                                     \/ Cardinality(r) = MaxLearned - 1}}

\* Mutant: the letters go back whether or not the commit holds them.
BuggyRestored(cv) == cv.pending

\* What commit_conversion puts back into the romaji buffer.
Restored(cv) == IF cv.consumed THEN <<>> ELSE cv.pending

\* commit_conversion: the composed text goes to the application.
CommitConversion ==
  /\ conversion # NoConversion
  /\ LET final == BoundariesOf(conversion.segments)
     IN  learned' \in IF final # conversion.initial \/ conversion.learnedHit
                        THEN Recorded(Text(conversion.kana), final)
                        ELSE {learned}
  /\ romaji' = RestoreBuffer(NewConverter, Restored(conversion))
  /\ conversion' = NoConversion
  /\ pass' = {}
  /\ sent' = ComposedKeys(conversion.segments)

\* cancel_conversion: Escape and Backspace.
CancelConversion ==
  /\ conversion # NoConversion
  /\ romaji' = RestoreBuffer(romaji, conversion.pending)
  /\ conversion' = NoConversion
  /\ pass' = {}
  /\ NothingSent
  /\ UNCHANGED learned

Next ==
  \/ TypeKey \/ Backspace \/ CommitPreedit \/ ClearAll
  \/ StartConversion
  \/ \E form \in KanaForms : StartKanaConversion(form) \/ ConvertFocusedTo(form)
  \/ MoveFocus \/ CycleCandidate \/ ExtendSegment \/ ShrinkSegment
  \/ ApplyRerank \/ PassFails
  \/ CommitConversion \/ CancelConversion

Spec == Init /\ [][Next]_vars

-----------------------------------------------------------------------------
(* Properties                                                              *)

Converting == conversion # NoConversion

\* Whatever is resized, split, merged or looked up again, the segments are
\* the kana cut into consecutive non-empty pieces: no kana is lost, doubled
\* or moved, and each start is the position the learned layout is built from.
SegmentsTile ==
  Converting =>
    LET segments == conversion.segments
        end(i) == segments[i].start + Len(segments[i].reading)
    IN  /\ segments[1].start = 0
        /\ end(Len(segments)) = Len(conversion.kana)
        /\ \A i \in 1 .. Len(segments) :
             /\ segments[i].reading # <<>>
             /\ segments[i].reading =
                  SubSeq(conversion.kana, segments[i].start + 1, end(i))
             /\ i < Len(segments) => segments[i + 1].start = end(i)

\* Every candidate stands for its own segment: it spells the segment's
\* reading, or it is the raw input and then the segment is the only one.
CandidatesSpellSegment ==
  Converting =>
    \A i \in 1 .. Len(conversion.segments) :
      LET segment == conversion.segments[i]
      IN  \A k \in 1 .. Len(segment.candidates) :
            \/ segment.candidates[k].keys = Spell(segment.reading)
            \/ /\ segment.candidates[k].form = "romaji"
               /\ segment.candidates[k].keys = conversion.raw
               /\ Len(conversion.segments) = 1

\* A segment marked as chosen by the user shows what the user chose, after
\* any edit of its neighbours and any rerank: commit_conversion learns no
\* surface the user has not picked for that reading.
UserChoiceStands ==
  Converting =>
    \A i \in 1 .. Len(conversion.segments) :
      LET segment == conversion.segments[i]
      IN  segment.userSelected =>
            segment.candidates[segment.selected] = segment.choice

\* While raw_input is tracked it ends with the pending letters, also after a
\* cancel or commit put them back: deleting one deletes the same keystroke
\* from both.  (What F9 and F10 show may have letters more: those discarded,
\* and those that a cancel wrote into raw_input again.)
RawEndsWithBuffer ==
  (~Converting /\ romaji.raw # Untracked) => IsSuffix(romaji.buffer, romaji.raw)

\* No keystroke goes to the application with the commit and stays in the
\* romaji buffer as well, if the preedit had it once.
NothingCommittedTwice ==
  [][CommitConversion /\ IsInjective(conversion.preedit) =>
       ToSet(sent') \cap ToSet(romaji'.buffer) = {}]_vars

\* Conversions that hold their pending letters in one place only.
Accounted ==
  \/ conversion.pending = <<>>
  \/ conversion.origin = "space" /\ ~conversion.consumed
  \/ conversion.origin = "fkey" /\ ~IsLoneN(conversion.pending)

RawShown ==
  \E i \in 1 .. Len(conversion.segments) :
    conversion.segments[i].candidates[conversion.segments[i].selected].form
      = "romaji"

\* A commit sends every keystroke of the preedit once and in order, or leaves
\* it in the buffer, and a cancel leaves them all in the preedit; romaji
\* forms, which show the raw input as typed, are left out.
InputKept ==
  [][Converting /\ Accounted =>
       /\ CommitConversion /\ ~RawShown =>
            sent' \o romaji'.buffer = conversion.preedit
       /\ CancelConversion => Preedit(romaji') = conversion.preedit]_vars

\* A learned layout is what the user sees when the same kana is converted
\* again, whatever the segmenter and the language model say by then.
LearnedLayoutShown ==
  [][\A text \in DOMAIN learned :
       (StartConversion /\ Text(conversion'.kana) = text) =>
         BoundariesOf(conversion'.segments) = learned[text]]_vars

\* What the doc of pending_consumed_in_kana says of the Space path: its kana
\* excludes the pending letters, so a commit puts them back.
SpaceCommitKeepsPending ==
  [][CommitConversion /\ conversion.origin = "space" /\ ~RawShown =>
       romaji'.buffer = conversion.pending]_vars

\* What the doc of pending_from_romaji says: a cancel restores the exact
\* preedit the user had before.
CancelRestoresPreedit ==
  [][CancelConversion => Preedit(romaji') = conversion.preedit]_vars

\* What the comment on restore_buffer says: a cancel reintroduces no ghost
\* input, so the raw input has every keystroke once.
NoGhostInput ==
  romaji.raw # Untracked => IsInjective(romaji.raw)

\* What the doc of resize_segment says: candidates are looked up again in the
\* affected regions, so a segment that keeps its reading and its place keeps
\* what the user chose for it.
ResizeKeepsOtherChoices ==
  [][ExtendSegment =>
       \A i \in 1 .. Len(conversion.segments) :
         LET segment == conversion.segments[i]
         IN  segment.userSelected =>
               \A k \in 1 .. Len(conversion'.segments) :
                 LET after == conversion'.segments[k]
                 IN  (after.start = segment.start
                        /\ after.reading = segment.reading) =>
                       after.choice = segment.choice]_vars
=============================================================================
