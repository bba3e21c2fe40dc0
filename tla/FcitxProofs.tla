----------------------------- MODULE FcitxProofs -----------------------------
(***************************************************************************)
(* Proofs about FcitxFrontend for any keys, any number of letters, events  *)
(* and ticks: the types, with a pending_commit that is empty between       *)
(* events, the panel that shows the engine, and every keystroke in one     *)
(* place.                                                                  *)
(***************************************************************************)
EXTENDS Fcitx, DispatchProofs

LEMMA LettersNat == Letters \in SUBSET Nat
BY BoundsAssumption DEF Letters

(* The engine is sound and shown.                                          *)
Mirrored ==
  /\ Sound(engine, Letters)
  /\ NothingParked
  /\ PanelIsEngine

(* Where a keystroke that has not gone astray is, from the moment it is    *)
(* typed.                                                                  *)
Account(i) ==
  i \notin engine.strayed =>
    sent[i] + finalised[i] + Credit(engine, i) = IF i <= typed THEN 1 ELSE 0

Accounts == \A i \in Letters : Account(i)

(* The inductive invariant.                                                *)
FInv == TypeOK /\ Mirrored /\ Accounts

(* The C interface and the engine agree on what there is to show.          *)
LEMMA UiStateShows ==
  ASSUME NEW e, NEW flag \in BOOLEAN, flag <=> Converting(e)
  PROVE  UiState(e, flag) = Display(e)
BY DEF UiState, Display

(* Nothing is shown of an engine that holds nothing for display.           *)
LEMMA NothingShown ==
  ASSUME NEW e, NEW flag \in BOOLEAN, flag <=> Converting(e), ~Showing(e, flag)
  PROVE  Display(e) = Nothing
BY DEF Showing, Display, Nothing

LEMMA CountedType ==
  ASSUME NEW count \in [Letters -> Nat], NEW text \in Seq(Letters)
  PROVE  /\ Counted(count, text) \in [Letters -> Nat]
         /\ \A i \in Letters : Counted(count, text)[i] = count[i] + Count(text, i)
<1>1. \A i \in Letters : Count(text, i) \in Nat
  BY CountNat
<1> QED
  BY <1>1 DEF Counted

LEMMA CountedNothing ==
  ASSUME NEW count \in [Letters -> Nat]
  PROVE  Counted(count, <<>>) = count
<1>1. \A i \in Letters : Count(<<>>, i) = 0
  BY CountEmpty
<1> QED
  BY <1>1 DEF Counted

(* What an event leaves on the panel, whatever it parks is sent.           *)
LEMMA PanelFollowsShows ==
  ASSUME TypeOK, Mirrored, NEW e, Sound(e, Letters), NEW flag \in BOOLEAN,
         flag <=> Converting(e), NEW consumed \in BOOLEAN, NEW parked,
         parked # <<>> => consumed, PanelFollows(e, flag, consumed, parked)
  PROVE  pending' = <<>> /\ panel' = Display(e) /\ sent' = Counted(sent, parked)
<1>1. CASE UpdateUI(e, flag, parked)
  BY <1>1, UiStateShows DEF UpdateUI
<1>2. CASE ~(consumed \/ Showing(engine, converting) \/ Showing(e, flag))
  <2>1. NoUpdate(parked) /\ parked = <<>>
    BY <1>2 DEF PanelFollows
  <2>2. Display(engine) = Nothing /\ Display(e) = Nothing
    BY <1>2, NothingShown DEF TypeOK, Mirrored, PanelIsEngine
  <2>3. Counted(sent, <<>>) = sent
    BY CountedNothing DEF TypeOK
  <2> QED
    BY <2>1, <2>2, <2>3 DEF NoUpdate, Mirrored, PanelIsEngine, NothingParked
<1> QED
  BY <1>1, <1>2 DEF PanelFollows

LEMMA NothingType == Nothing \in [text : Seq(Letters), stamp : Nat]
<1>1. <<>> \in Seq(Letters)
  OBVIOUS
<1> QED
  BY <1>1 DEF Nothing

LEMMA Initially == Init => FInv
<1> SUFFICES ASSUME Init PROVE FInv
  OBVIOUS
<1>1. /\ AtRest(engine, Letters) /\ engine \in Engines(Letters) /\ Preedit(engine) = <<>>
      /\ \A i \in Letters : Credit(engine, i) = 0
  BY NewEngineFine DEF Init
<1>2. Sound(engine, Letters) /\ ~Converting(engine) /\ Display(engine) = Nothing
  BY <1>1 DEF AtRest, Display, Nothing
<1>3. Mirrored
  BY <1>2 DEF Init, Mirrored, NothingParked, PanelIsEngine
<1>4. Accounts
  BY <1>1, BoundsAssumption DEF Init, Accounts, Account, Letters
<1>5. panel \in [text : Seq(Letters), stamp : Nat] /\ <<>> \in Seq(Letters)
  BY NothingType DEF Init
<1>6. engine \in Engines(Letters) /\ converting \in BOOLEAN /\ pending \in Seq(Letters)
  BY <1>1, <1>5 DEF Init
<1>7. typed \in 0 .. MaxLetters /\ events \in 0 .. MaxEvents
  BY BoundsAssumption DEF Init
<1>8. sent \in [Letters -> Nat] /\ finalised \in [Letters -> Nat]
  BY DEF Init
<1>9. timer \in 0 .. MaxTicks - 1 \cup {NoTimer}
  BY DEF Init
<1>10. down \in KeyKinds \cup {"none"} /\ orphan \in BOOLEAN
  BY DEF Init
<1>11. TypeOK
  BY <1>5, <1>6, <1>7, <1>8, <1>9, <1>10 DEF TypeOK
<1> QED
  BY <1>3, <1>4, <1>11 DEF FInv

(* What balances the engine and is sent or inserted keeps the accounts.    *)
LEMMA BalanceAccounts ==
  ASSUME TypeOK, Accounts, engine' \in Engines(Letters), NEW news,
         \A i \in Letters : i <= typed' <=> i <= typed \/ i \in news,
         \A i \in news : ~(i <= typed),
         NEW commit, Balance(engine, engine', commit, news, Letters),
         \A i \in Letters : /\ sent'[i] \in Nat /\ finalised'[i] \in Nat
                            /\ sent'[i] + finalised'[i]
                                 = sent[i] + finalised[i] + Count(commit, i)
  PROVE  Accounts'
<1> SUFFICES ASSUME NEW i \in Letters, i \notin engine'.strayed
             PROVE  sent'[i] + finalised'[i] + Credit(engine', i)
                      = IF i <= typed' THEN 1 ELSE 0
  BY DEF Accounts, Account, Letters, Credit, Own, Converting, Preedit, Doubled, LoneN
<1>1. /\ i \notin engine.strayed /\ commit \in Seq(Letters)
      /\ Count(commit, i) + Credit(engine', i)
           = Credit(engine, i) + (IF i \in news THEN 1 ELSE 0)
  BY DEF Balance
<1>2. /\ sent[i] \in Nat /\ finalised[i] \in Nat /\ sent'[i] \in Nat /\ finalised'[i] \in Nat
      /\ sent'[i] + finalised'[i] = sent[i] + finalised[i] + Count(commit, i)
  BY DEF TypeOK
<1>3. Count(commit, i) \in Nat /\ Credit(engine, i) \in Nat /\ Credit(engine', i) \in Nat
  BY <1>1, CountNat, OwnType DEF TypeOK
<1>4. sent[i] + finalised[i] + Credit(engine, i) = IF i <= typed THEN 1 ELSE 0
  BY <1>1 DEF Accounts, Account
<1>5. CASE i \in news
  BY <1>1, <1>2, <1>3, <1>4, <1>5
<1>6. CASE i \notin news
  BY <1>1, <1>2, <1>3, <1>4, <1>6
<1> QED
  BY <1>5, <1>6

LEMMA MirroredNext ==
  ASSUME Sound(engine', Letters), pending' = <<>>, panel' = Display(engine'),
         converting' <=> Converting(engine')
  PROVE  Mirrored'
BY DEF Mirrored, NothingParked, PanelIsEngine, Letters, Sound, Engines, RawSound,
       ConversionSound, Converting, Display, Own, Preedit, Doubled, LoneN, Reading,
       Spelt, PutBack, Text

(* An event that only deletes keeps the accounts.                          *)
LEMMA QuietAccounts ==
  ASSUME TypeOK, Accounts, engine' \in Engines(Letters),
         Balance(engine, engine', <<>>, {}, Letters),
         typed' = typed, sent' = sent, finalised' = finalised
  PROVE  Accounts'
<1>1. ASSUME NEW i \in Letters
      PROVE  /\ sent'[i] \in Nat /\ finalised'[i] \in Nat
             /\ sent'[i] + finalised'[i] = sent[i] + finalised[i] + Count(<<>>, i)
  <2>1. sent[i] \in Nat /\ finalised[i] \in Nat /\ Count(<<>>, i) = 0
    BY CountEmpty DEF TypeOK
  <2> QED
    BY <2>1
<1>2. \A i \in Letters : i <= typed' <=> i <= typed \/ i \in {}
  OBVIOUS
<1> QED
  BY <1>1, <1>2, BalanceAccounts

(* A step that moves no text.                                              *)
Resting(e) ==
  /\ e \in Engines(Letters) /\ e.generation = engine.generation
  /\ e.kana = engine.kana /\ e.buffer = engine.buffer /\ e.raw = engine.raw
  /\ e.conversion = engine.conversion /\ e.gone = engine.gone
  /\ e.ghosts = engine.ghosts /\ e.strayed = engine.strayed

LEMMA SameText ==
  ASSUME FInv, Resting(engine'), panel' = Display(engine'),
         UNCHANGED <<converting, pending, sent, finalised, typed>>
  PROVE  Mirrored' /\ Accounts'
<1>1. /\ Sound(engine', Letters) /\ (Converting(engine') <=> Converting(engine))
      /\ Balance(engine, engine', <<>>, {}, Letters)
  BY Untouched DEF FInv, Mirrored, Resting
<1>2. Mirrored'
  BY <1>1, MirroredNext DEF FInv, Mirrored, PanelIsEngine, NothingParked
<1>3. Accounts'
  BY <1>1, QuietAccounts DEF FInv, Resting
<1> QED
  BY <1>2, <1>3

LEMMA SameEngine ==
  ASSUME FInv, engine' = engine
  PROVE  Resting(engine') /\ Display(engine') = Display(engine)
<1>1. engine \in Engines(Letters)
  BY DEF FInv, TypeOK
<1> QED
  BY <1>1 DEF Resting

LEMMA RestingDisplay ==
  ASSUME NEW e, Resting(e), e.stamp = engine.stamp
  PROVE  Display(e) = Display(engine)
BY DEF Resting, Display, Converting, Preedit, Text, Reading

(* To discard no text changes nothing.                                     *)
LEMMA GoneNothing ==
  ASSUME NEW L, NEW c, AtRest(c, L), Preedit(c) = <<>>, NEW g, g = Gone(c, <<>>)
  PROVE  g = c
<1>1. c \in Engines(L)
  BY DEF AtRest, Sound
<1>2. \A i : Count(<<>>, i) = 0
  BY CountEmpty
<1>3. c.gone = [i \in DOMAIN c.gone |-> c.gone[i] + Count(<<>>, i)]
  BY <1>1, <1>2 DEF Engines
<1>4. g = [c EXCEPT !.gone = c.gone]
  BY <1>3 DEF Gone
<1> QED
  BY <1>1, <1>4 DEF Engines

LEMMA KeyPressKeeps ==
  ASSUME FInv, NEW key \in KeyKinds, KeyPress(key)
  PROVE  FInv'
<1> DEFINE news == IF key \in TypingKinds THEN {typed + 1} ELSE {}
<1>1. /\ typed \in Nat /\ typed <= MaxLetters /\ MaxLetters \in Nat
      /\ key \in TypingKinds => typed + 1 <= MaxLetters
  BY BoundsAssumption DEF FInv, TypeOK, KeyPress
<1>2. PICK r \in DispatchKey(engine, converting, key, typed + 1) :
        /\ engine' = r.engine /\ converting' = r.flag
        /\ PanelFollows(r.engine, r.flag, r.outcome.consumed, Parked(r.outcome.commit))
        /\ Schedule(r.engine)
        /\ down' = IF r.outcome.consumed THEN key ELSE "none"
  BY DEF KeyPress
<1>3. key \in TypingKinds => typed + 1 \in Letters
  BY <1>1 DEF Letters
<1>4. Fine(engine, news, r, Letters)
  BY <1>3, LettersNat, DispatchFine DEF FInv, Mirrored, PanelIsEngine, TypeOK
<1>5. /\ Sound(r.engine, Letters) /\ r.flag \in BOOLEAN /\ (r.flag <=> Converting(r.engine))
      /\ Balance(engine, r.engine, r.outcome.commit, news, Letters)
      /\ r.outcome.consumed \in BOOLEAN
      /\ r.outcome.commit # <<>> => r.outcome.consumed
      /\ r.outcome.commit \in Seq(Letters)
  BY <1>4 DEF Fine, Balance
<1>6. Parked(r.outcome.commit) = r.outcome.commit
  BY DEF Parked, FInv, Mirrored, NothingParked
<1>7. pending' = <<>> /\ panel' = Display(r.engine) /\ sent' = Counted(sent, r.outcome.commit)
  BY <1>2, <1>5, <1>6, PanelFollowsShows DEF FInv
<1>8. Mirrored'
  <2>1. Sound(engine', Letters) /\ panel' = Display(engine') /\ (converting' <=> Converting(engine'))
    BY <1>2, <1>5, <1>7
  <2> QED
    BY <1>7, <2>1, MirroredNext
<1>9. typed' \in 0 .. MaxLetters
  BY <1>1 DEF KeyPress
<1>10. /\ sent' \in [Letters -> Nat] /\ finalised' = finalised
       /\ \A i \in Letters : sent'[i] = sent[i] + Count(r.outcome.commit, i)
  BY <1>5, <1>7, CountedType DEF FInv, TypeOK, KeyPress
<1>11. Accounts'
  <2>1. \A i \in Letters : i <= typed' <=> i <= typed \/ i \in news
    BY <1>1 DEF KeyPress, Letters
  <2>2. \A i \in news : ~(i <= typed)
    BY <1>1
  <2>3. ASSUME NEW i \in Letters
        PROVE  /\ sent'[i] \in Nat /\ finalised'[i] \in Nat
               /\ sent'[i] + finalised'[i]
                    = sent[i] + finalised[i] + Count(r.outcome.commit, i)
    <3>1. sent[i] \in Nat /\ finalised[i] \in Nat /\ Count(r.outcome.commit, i) \in Nat
      BY <1>5, CountNat DEF FInv, TypeOK
    <3> QED
      BY <1>10, <3>1
  <2>4. engine' \in Engines(Letters) /\ Balance(engine, engine', r.outcome.commit, news, Letters)
    BY <1>2, <1>5 DEF Sound
  <2> HIDE DEF news
  <2> QED
    BY <2>1, <2>2, <2>3, <2>4, BalanceAccounts DEF FInv
<1>12. TypeOK'
  <2>1. engine' \in Engines(Letters) /\ converting' \in BOOLEAN /\ pending' \in Seq(Letters)
    BY <1>2, <1>5, <1>7 DEF Sound
  <2>2. panel' \in [text : Seq(Letters), stamp : Nat]
    BY <1>5, <1>7, DisplayType
  <2>3. timer' \in 0 .. MaxTicks - 1 \cup {NoTimer}
    BY <1>2, BoundsAssumption DEF Schedule, FInv, TypeOK
  <2>4. down' \in KeyKinds \cup {"none"} /\ orphan' \in BOOLEAN
    BY <1>2 DEF KeyPress
  <2>5. sent' \in [Letters -> Nat] /\ finalised' \in [Letters -> Nat]
    BY <1>10 DEF FInv, TypeOK
  <2>6. events' \in 0 .. MaxEvents
    BY BoundsAssumption DEF FInv, TypeOK, KeyPress, Event
  <2> QED
    BY <1>9, <2>1, <2>2, <2>3, <2>4, <2>5, <2>6 DEF TypeOK, Letters
<1> QED
  BY <1>8, <1>11, <1>12 DEF FInv

(* A release changes nothing but which key is down: what it shows is what  *)
(* was shown.                                                              *)
LEMMA KeyReleaseKeeps ==
  ASSUME FInv, KeyRelease
  PROVE  FInv'
<1>1. ReleaseConsumed(down) \in BOOLEAN
  BY DEF ReleaseConsumed, Showing, FInv, TypeOK
<1>2. /\ Sound(engine, Letters) /\ converting \in BOOLEAN /\ (converting <=> Converting(engine))
      /\ pending = <<>> /\ panel = Display(engine)
  BY DEF FInv, TypeOK, Mirrored, PanelIsEngine, NothingParked
<1>3. pending' = <<>> /\ panel' = Display(engine) /\ sent' = Counted(sent, <<>>)
  BY <1>1, <1>2, PanelFollowsShows DEF FInv, KeyRelease
<1>4. sent' = sent /\ engine' = engine /\ converting' = converting
  BY <1>3, CountedNothing DEF FInv, TypeOK, KeyRelease
<1>5. Mirrored' /\ Accounts'
  BY <1>2, <1>3, <1>4, SameEngine, SameText DEF KeyRelease
<1>6. TypeOK'
  <2>1. events' \in 0 .. MaxEvents
    BY BoundsAssumption DEF FInv, TypeOK, KeyRelease, Event
  <2>2. timer' \in 0 .. MaxTicks - 1 \cup {NoTimer}
    BY BoundsAssumption DEF Schedule, FInv, TypeOK, KeyRelease
  <2>3. orphan' \in BOOLEAN /\ down' \in KeyKinds \cup {"none"}
    BY <1>1 DEF KeyRelease
  <2> QED
    BY <1>2, <1>3, <1>4, <2>1, <2>2, <2>3 DEF FInv, TypeOK, KeyRelease, Letters
<1> QED
  BY <1>5, <1>6 DEF FInv

(* The engine is emptied and the panel with it.                            *)
LEMMA EmptiedShows ==
  ASSUME NEW cleared, AtRest(cleared, Letters), Preedit(cleared) = <<>>, Emptied(cleared)
  PROVE  /\ Mirrored' /\ engine' = cleared
         /\ engine' \in Engines(Letters) /\ converting' \in BOOLEAN
         /\ pending' \in Seq(Letters)
         /\ panel' \in [text : Seq(Letters), stamp : Nat]
<1>1. /\ engine' = cleared /\ converting' = FALSE /\ pending' = <<>> /\ panel' = Nothing
      /\ Sound(engine', Letters) /\ ~Converting(engine')
  BY DEF Emptied, AtRest
<1>2. Display(engine') = Nothing
  BY <1>1 DEF Display, Nothing
<1>3. Mirrored'
  BY <1>1, <1>2, MirroredNext
<1>4. <<>> \in Seq(Letters)
  OBVIOUS
<1> QED
  BY <1>1, <1>3, <1>4, NothingType DEF Sound

(* What a reset discards is counted as deleted.                            *)
LEMMA ResetKeeps ==
  ASSUME FInv, Reset
  PROVE  FInv'
<1>1. engine \in Engines(Letters) /\ pending = <<>>
  BY DEF FInv, TypeOK, Mirrored, NothingParked
<1>2. PICK c : c = Cancelled(engine)
  OBVIOUS
<1>3. /\ AtRest(c, Letters) /\ Preedit(c) = <<>> /\ Balance(engine, c, <<>>, {}, Letters)
  BY <1>1, <1>2, CancelledFine
<1>4. c \in Engines(Letters) /\ <<>> \in Seq(Letters)
  BY <1>3 DEF AtRest, Sound
<1>5. PICK g : g = Gone(c, <<>>)
  OBVIOUS
<1>6. /\ AtRest(g, Letters) /\ Preedit(g) = <<>> /\ Balance(engine, g, <<>>, {}, Letters)
  BY <1>1, <1>3, <1>4, <1>5, GoneNothing, BalanceTwice
<1>7. Emptied(g)
  BY <1>1, <1>2, <1>5 DEF Reset
<1>8. /\ Mirrored' /\ engine' = g
      /\ engine' \in Engines(Letters) /\ converting' \in BOOLEAN /\ pending' \in Seq(Letters)
      /\ panel' \in [text : Seq(Letters), stamp : Nat]
  BY <1>6, <1>7, EmptiedShows
<1>9. Accounts'
  <2>1. typed' = typed /\ finalised' = finalised /\ sent' = sent
    BY DEF Reset
  <2> QED
    BY <1>6, <1>8, <2>1, QuietAccounts DEF FInv
<1>10. TypeOK'
  <2>1. events' \in 0 .. MaxEvents
    BY BoundsAssumption DEF FInv, TypeOK, Reset, Event
  <2> QED
    BY <1>8, <2>1 DEF FInv, TypeOK, Reset, Letters
<1> QED
  BY <1>8, <1>9, <1>10 DEF FInv

(* What the compositor inserts is what the panel showed.                   *)
LEMMA DeactivateKeeps ==
  ASSUME FInv, Deactivate
  PROVE  FInv'
<1>1. PICK c : c = Unfocused(engine)
  OBVIOUS
<1>2. /\ AtRest(c, Letters) /\ Preedit(c) = <<>>
      /\ Balance(engine, c, panel.text, {}, Letters) /\ panel.text \in Seq(Letters)
  BY <1>1, UnfocusedFine DEF FInv, TypeOK, Mirrored, PanelIsEngine
<1>3. /\ Mirrored' /\ engine' = c
      /\ engine' \in Engines(Letters) /\ converting' \in BOOLEAN /\ pending' \in Seq(Letters)
      /\ panel' \in [text : Seq(Letters), stamp : Nat]
  BY <1>1, <1>2, EmptiedShows DEF Deactivate
<1>4. /\ finalised' \in [Letters -> Nat] /\ sent' = sent /\ typed' = typed
      /\ \A i \in Letters : finalised'[i] = finalised[i] + Count(panel.text, i)
  BY <1>2, CountedType DEF FInv, TypeOK, Deactivate
<1>5. Accounts'
  <2>1. ASSUME NEW i \in Letters
        PROVE  /\ sent'[i] \in Nat /\ finalised'[i] \in Nat
               /\ sent'[i] + finalised'[i] = sent[i] + finalised[i] + Count(panel.text, i)
    <3>1. sent[i] \in Nat /\ finalised[i] \in Nat /\ Count(panel.text, i) \in Nat
      BY <1>2, CountNat DEF FInv, TypeOK
    <3> QED
      BY <1>4, <3>1
  <2>2. Balance(engine, engine', panel.text, {}, Letters)
    BY <1>2, <1>3
  <2>3. \A i \in Letters : i <= typed' <=> i <= typed \/ i \in {}
    BY <1>4
  <2> QED
    BY <1>3, <2>1, <2>2, <2>3, BalanceAccounts DEF FInv
<1>6. TypeOK'
  <2>1. events' \in 0 .. MaxEvents
    BY BoundsAssumption DEF FInv, TypeOK, Deactivate, Event
  <2> QED
    BY <1>3, <1>4, <2>1 DEF FInv, TypeOK, Deactivate, Letters
<1> QED
  BY <1>3, <1>5, <1>6 DEF FInv

LEMMA WorkerEndsKeeps ==
  ASSUME FInv, WorkerEnds
  PROVE  FInv'
<1>1. PICK pass \in {"ready", "none"} : engine' = [engine EXCEPT !.pass = pass]
  BY DEF WorkerEnds
<1>2. Resting(engine')
  BY <1>1 DEF FInv, TypeOK, Engines, Resting
<1>3. Display(engine') = Display(engine)
  BY <1>1, <1>2 DEF Display, Converting, Preedit, Text, Reading, Resting, FInv, TypeOK, Engines
<1>4. Mirrored' /\ Accounts'
  BY <1>2, <1>3, SameText DEF WorkerEnds, FInv, Mirrored, PanelIsEngine
<1>5. TypeOK'
  BY <1>2 DEF FInv, TypeOK, WorkerEnds, Letters, Resting
<1> QED
  BY <1>4, <1>5 DEF FInv

LEMMA RearmedType ==
  ASSUME TypeOK, timer # NoTimer
  PROVE  Rearmed \in 0 .. MaxTicks - 1 \cup {NoTimer}
BY BoundsAssumption DEF TypeOK, Rearmed

LEMMA TimerKeeps ==
  ASSUME FInv, Timer
  PROVE  FInv'
<1>1. CASE TimerIdle
  <2>1. Mirrored' /\ Accounts'
    BY <1>1, SameEngine, SameText DEF TimerIdle, FInv, Mirrored, PanelIsEngine
  <2>2. TypeOK'
    BY <1>1 DEF TimerIdle, FInv, TypeOK, Letters
  <2> QED
    BY <2>1, <2>2 DEF FInv
<1>2. CASE TimerApplies
  <2>1. engine.stamp + 1 \in Nat
    BY DEF FInv, TypeOK, Engines
  <2>2. Resting(engine')
    BY <1>2, <2>1 DEF TimerApplies, Changed, FInv, TypeOK, Engines, Resting
  <2>3. Sound(engine', Letters) /\ (Converting(engine') <=> Converting(engine))
    BY <2>2, Untouched DEF FInv, Mirrored, Resting
  <2>4. converting \in BOOLEAN /\ (converting <=> Converting(engine')) /\ pending = <<>>
    BY <2>3 DEF FInv, TypeOK, Mirrored, PanelIsEngine, NothingParked
  <2>5. panel' = Display(engine')
    BY <1>2, <2>4, UiStateShows DEF TimerApplies, UpdateUI
  <2>6. sent' = sent /\ pending' = pending
    BY <1>2, <2>4, CountedNothing DEF TimerApplies, UpdateUI, FInv, TypeOK
  <2>7. Mirrored' /\ Accounts'
    BY <1>2, <2>2, <2>5, <2>6, SameText DEF TimerApplies
  <2>8. panel' \in [text : Seq(Letters), stamp : Nat]
    BY <2>3, <2>5, DisplayType
  <2>9. TypeOK'
    BY <1>2, <2>2, <2>6, <2>8 DEF TimerApplies, FInv, TypeOK, Letters, Resting
  <2> QED
    BY <2>7, <2>9 DEF FInv
<1>3. CASE TimerAppliesNothing
  <2>1. Resting(engine') /\ engine'.stamp = engine.stamp
    BY <1>3 DEF TimerAppliesNothing, FInv, TypeOK, Engines, Resting
  <2>2. Display(engine') = Display(engine)
    BY <2>1, RestingDisplay
  <2>3. Mirrored' /\ Accounts'
    BY <1>3, <2>1, <2>2, SameText DEF TimerAppliesNothing, FInv, Mirrored, PanelIsEngine
  <2>4. TypeOK'
    BY <1>3, <2>1 DEF FInv, TypeOK, TimerAppliesNothing, Letters, Resting
  <2> QED
    BY <2>3, <2>4 DEF FInv
<1>4. CASE TimerWaits
  <2>1. Mirrored' /\ Accounts'
    BY <1>4, SameEngine, SameText DEF TimerWaits, FInv, Mirrored, PanelIsEngine
  <2>2. timer' \in 0 .. MaxTicks - 1 \cup {NoTimer}
    BY <1>4, RearmedType DEF TimerWaits, FInv
  <2>3. TypeOK'
    BY <1>4, <2>2 DEF TimerWaits, FInv, TypeOK, Letters
  <2> QED
    BY <2>1, <2>3 DEF FInv
<1> QED
  BY <1>1, <1>2, <1>3, <1>4 DEF Timer

LEMMA Inductive == FInv /\ [Next]_vars => FInv'
<1> SUFFICES ASSUME FInv, [Next]_vars PROVE FInv'
  OBVIOUS
<1>1. CASE \E key \in KeyKinds : KeyPress(key)
  BY <1>1, KeyPressKeeps
<1>2. CASE KeyRelease
  BY <1>2, KeyReleaseKeeps
<1>3. CASE Reset
  BY <1>3, ResetKeeps
<1>4. CASE Deactivate
  BY <1>4, DeactivateKeeps
<1>5. CASE WorkerEnds
  BY <1>5, WorkerEndsKeeps
<1>6. CASE Timer
  BY <1>6, TimerKeeps
<1>7. CASE UNCHANGED vars
  <2>1. Mirrored' /\ Accounts'
    BY <1>7, SameEngine, SameText DEF vars, FInv, Mirrored, PanelIsEngine
  <2>2. TypeOK'
    BY <1>7 DEF vars, FInv, TypeOK, Letters
  <2> QED
    BY <2>1, <2>2 DEF FInv
<1> QED
  BY <1>1, <1>2, <1>3, <1>4, <1>5, <1>6, <1>7 DEF Next

THEOREM Invariant == Spec => []FInv
<1>1. Init => FInv
  BY Initially
<1>2. FInv /\ [Next]_vars => FInv'
  BY Inductive
<1> QED
  BY <1>1, <1>2, PTL DEF Spec

(* The variables keep their types, and between events nothing waits in     *)
(* pending_commit (bonolith_handle_key, updateUI).                         *)
THEOREM TypeCorrect == Spec => [](TypeOK /\ NothingParked)
<1>1. FInv => TypeOK /\ NothingParked
  BY DEF FInv, Mirrored
<1> QED
  BY <1>1, Invariant, PTL

(* After every event the panel shows what the engine holds for display and *)
(* the flag of BonolithContext mirrors the engine.                         *)
THEOREM PanelIsEngineHolds == Spec => []PanelIsEngine
<1>1. FInv => PanelIsEngine
  BY DEF FInv, Mirrored
<1> QED
  BY <1>1, Invariant, PTL

(* Every keystroke is once in the text given to the application, in what   *)
(* the engine would still commit or among the deleted, unless the engine   *)
(* itself counts it otherwise (Excused): no key, reset, loss of focus or   *)
(* timer of the frontend loses or doubles one.                             *)
THEOREM EveryLetterOnceHolds == Spec => []EveryLetterOnce
<1>1. ASSUME FInv, NEW i \in 1 .. typed, ~Excused(i)
      PROVE  Places(i) = 1
  <2>1. i \in Letters /\ i <= typed
    BY <1>1, BoundsAssumption DEF FInv, TypeOK, Letters
  <2>2. Sound(engine, Letters) /\ i \in Letters \ InDoubt(engine) /\ i \notin engine.strayed
    BY <1>1, <2>1 DEF FInv, Mirrored, Excused
  <2>3. sent[i] + finalised[i] + Credit(engine, i) = 1
    BY <1>1, <2>1, <2>2 DEF FInv, Accounts, Account
  <2>4. Count(Remains(engine), i) + engine.gone[i] = Credit(engine, i)
    BY <2>2, RemainsOwn
  <2>5. sent[i] \in Nat /\ finalised[i] \in Nat /\ engine.gone[i] \in Nat
    BY <1>1, <2>1 DEF FInv, TypeOK, Engines
  <2>6. Count(Remains(engine), i) \in Nat
    BY <2>2, RemainsType, CountNat
  <2> QED
    BY <2>3, <2>4, <2>5, <2>6 DEF Places
<1>2. FInv => EveryLetterOnce
  BY <1>1 DEF EveryLetterOnce
<1> QED
  BY <1>2, Invariant, PTL

-----------------------------------------------------------------------------
(* The layout of a conversion (FcitxUi), for any number of slots, segments  *)
(* and candidates and any length of text.                                   *)

USE SlotsAssumption, SizesAssumption

(* The selected candidate of every segment exists.                          *)
UiInv == Ui!TypeOK /\ \A i \in Ui!Segments : selected[i] < total[i]

LEMMA UiInitially == Ui!Init => UiInv
<1> SUFFICES ASSUME Ui!Init PROVE UiInv
  OBVIOUS
<1>1. n \in Nat \ {0} /\ Ui!Segments = {0} /\ focus \in Ui!Segments /\ Ui!Increasing(n, ends)
  BY DEF Ui!Init, Ui!Segments, Ui!Increasing
<1>2. /\ ends \in [Ui!Segments -> Nat] /\ total \in [Ui!Segments -> Nat \ {0}]
      /\ selected \in [Ui!Segments -> Nat] /\ \A i \in Ui!Segments : selected[i] < total[i]
  BY <1>1 DEF Ui!Init
<1> QED
  BY <1>1, <1>2 DEF UiInv, Ui!TypeOK

\* A conversion starts with first candidates and a focused segment.
LEMMA ConvertKeeps ==
  ASSUME NEW m \in Sizes, Ui!Convert(m)
  PROVE  UiInv'
<1>1. n' \in Nat \ {0} /\ Ui!Segments' = 0 .. m - 1
  BY DEF Ui!Convert, Ui!Segments
<1>2. ends' \in [Ui!Segments' -> Nat] /\ Ui!Increasing(n', ends')
  BY <1>1 DEF Ui!Convert
<1>3. total' \in [Ui!Segments' -> Nat \ {0}]
  BY <1>1 DEF Ui!Convert
<1>4. selected' \in [Ui!Segments' -> Nat] /\ \A i \in Ui!Segments' : selected'[i] = 0
  BY <1>1 DEF Ui!Convert
<1>5. focus' \in Ui!Segments'
  BY <1>1 DEF Ui!Convert
<1>6. \A i \in Ui!Segments' : selected'[i] < total'[i]
  BY <1>3, <1>4
<1> QED
  BY <1>1, <1>2, <1>3, <1>4, <1>5, <1>6 DEF UiInv, Ui!TypeOK, Ui!Segments, Ui!Increasing

LEMMA MoveFocusKeeps ==
  ASSUME UiInv, NEW step \in {-1, 1}, Ui!MoveFocus(step)
  PROVE  UiInv'
<1>1. n \in Nat \ {0} /\ focus \in 0 .. n - 1
  BY DEF UiInv, Ui!TypeOK, Ui!Segments
<1>2. focus' \in 0 .. n - 1
  <2>1. CASE step > 0
    BY <1>1, <2>1 DEF Ui!MoveFocus
  <2>2. CASE ~(step > 0)
    BY <1>1, <2>2 DEF Ui!MoveFocus
  <2> QED
    BY <2>1, <2>2
<1>3. UNCHANGED <<n, ends, total, selected>>
  BY DEF Ui!MoveFocus
<1> QED
  BY <1>2, <1>3 DEF UiInv, Ui!TypeOK, Ui!Segments, Ui!Increasing

\* The ends after the focus all move by as much as its own.
LEMMA SelectKeeps ==
  ASSUME UiInv, NEW choice, Ui!Select(choice)
  PROVE  UiInv'
<1>1. /\ focus \in 0 .. n - 1 /\ n \in Nat \ {0}
      /\ total \in [Ui!Segments -> Nat \ {0}] /\ ends \in [Ui!Segments -> Nat]
      /\ Ui!Increasing(n, ends) /\ Ui!Segments = 0 .. n - 1
  BY DEF UiInv, Ui!TypeOK, Ui!Segments
<1>2. choice \in Nat /\ choice < total[focus]
  BY <1>1 DEF Ui!Select
<1>3. UNCHANGED <<n, total, focus>>
  BY DEF Ui!Select
<1>4. PICK end \in Ui!Start(focus) + 1 .. MaxText :
        ends' = [i \in Ui!Segments |->
                   IF i < focus THEN ends[i] ELSE ends[i] + end - ends[focus]]
  BY DEF Ui!Select
<1>5. /\ Ui!Start(focus) \in Nat /\ end \in Nat /\ end > Ui!Start(focus)
      /\ \A i \in Ui!Segments : i < focus => ends[i] <= Ui!Start(focus)
  <2>1. CASE focus = 0
    BY <1>1, <1>4, <2>1 DEF Ui!Start
  <2>2. CASE focus > 0
    <3>1. focus - 1 \in 0 .. n - 1 /\ Ui!Start(focus) = ends[focus - 1]
      BY <1>1, <2>2 DEF Ui!Start
    <3>2. Ui!Start(focus) \in Nat
      BY <1>1, <3>1
    <3>3. ASSUME NEW i \in Ui!Segments, i < focus PROVE ends[i] <= Ui!Start(focus)
      <4>1. CASE i = focus - 1
        BY <1>1, <3>1, <4>1
      <4>2. CASE i < focus - 1
        BY <1>1, <3>1, <4>2 DEF Ui!Increasing
      <4> QED
        BY <1>1, <3>3, <4>1, <4>2
    <3> QED
      BY <1>4, <3>2, <3>3
  <2> QED
    BY <1>1, <2>1, <2>2
<1>6. ASSUME NEW i \in Ui!Segments, i >= focus PROVE ends[i] >= ends[focus]
  <2>1. CASE i = focus
    BY <1>1, <2>1
  <2>2. CASE i > focus
    BY <1>1, <2>2 DEF Ui!Increasing
  <2> QED
    BY <1>1, <1>6, <2>1, <2>2
<1>7. ends' \in [Ui!Segments -> Nat]
  <2>1. ASSUME NEW i \in Ui!Segments, i < focus PROVE ends[i] \in Nat
    BY <1>1
  <2>2. ASSUME NEW i \in Ui!Segments, ~(i < focus)
        PROVE  ends[i] + end - ends[focus] \in Nat
    <3>1. ends[i] \in Nat /\ ends[focus] \in Nat /\ ends[i] >= ends[focus]
      BY <1>1, <1>6, <2>2
    <3> QED
      BY <1>5, <3>1
  <2> QED
    BY <1>4, <2>1, <2>2
<1>8. Ui!Increasing(n, ends')
  <2>1. ends'[0] > 0
    <3>1. CASE focus = 0
      BY <1>1, <1>4, <1>5, <3>1
    <3>2. CASE focus > 0
      BY <1>1, <1>4, <3>2 DEF Ui!Increasing
    <3> QED
      BY <1>1, <3>1, <3>2
  <2>2. ASSUME NEW i \in 0 .. n - 1, NEW j \in 0 .. n - 1, i < j
        PROVE  ends'[i] < ends'[j]
    <3>1. ends[i] < ends[j] /\ ends[i] \in Nat /\ ends[j] \in Nat
          /\ ends[focus] \in Nat
      BY <1>1, <2>2 DEF Ui!Increasing
    <3>2. CASE j < focus
      BY <1>1, <1>4, <2>2, <3>1, <3>2
    <3>3. CASE i >= focus
      <4>1. /\ ends'[i] = ends[i] + end - ends[focus]
            /\ ends'[j] = ends[j] + end - ends[focus]
        BY <1>1, <1>4, <2>2, <3>3
      <4> QED
        BY <1>5, <3>1, <4>1
    <3>4. CASE i < focus /\ j >= focus
      <4>1. ends'[i] = ends[i] /\ ends'[j] = ends[j] + end - ends[focus]
        BY <1>1, <1>4, <2>2, <3>4
      <4>2. ends[i] <= Ui!Start(focus) /\ ends[j] >= ends[focus]
        BY <1>1, <1>5, <1>6, <3>4
      <4> QED
        BY <1>5, <3>1, <4>1, <4>2
    <3> QED
      BY <1>1, <2>2, <3>2, <3>3, <3>4
  <2> QED
    BY <2>1, <2>2 DEF Ui!Increasing
<1>9. /\ selected' \in [Ui!Segments -> Nat]
      /\ \A i \in Ui!Segments : selected'[i] < total[i]
  BY <1>1, <1>2 DEF Ui!Select, UiInv, Ui!TypeOK
<1> QED
  BY <1>1, <1>3, <1>7, <1>8, <1>9 DEF UiInv, Ui!TypeOK, Ui!Segments, Ui!Increasing

LEMMA UiInductive == UiInv /\ [Ui!Next]_Ui!vars => UiInv'
<1> SUFFICES ASSUME UiInv, [Ui!Next]_Ui!vars PROVE UiInv'
  OBVIOUS
<1>1. ASSUME NEW m \in Sizes, Ui!Convert(m) PROVE UiInv'
  BY <1>1, ConvertKeeps DEF UiInv
<1>2. ASSUME NEW step \in {-1, 1}, Ui!MoveFocus(step) PROVE UiInv'
  BY <1>2, MoveFocusKeeps
<1>3. ASSUME NEW step \in {-1, 1}, Ui!CycleCandidate(step) PROVE UiInv'
  BY <1>3, SelectKeeps DEF Ui!CycleCandidate
<1>4. CASE UNCHANGED Ui!vars
  BY <1>4 DEF Ui!vars, UiInv, Ui!TypeOK, Ui!Segments, Ui!Increasing
<1> QED
  BY <1>1, <1>2, <1>3, <1>4 DEF Ui!Next

LEMMA UiInvariant == Ui!Spec => []UiInv
<1>1. Ui!Init => UiInv
  BY UiInitially
<1>2. UiInv /\ [Ui!Next]_Ui!vars => UiInv'
  BY UiInductive
<1> QED
  BY <1>1, <1>2, PTL DEF Ui!Spec

\* Segments, candidates and focus stay consistent.
THEOREM UiTypeCorrect == Ui!Spec => []Ui!TypeOK
<1>1. UiInv => Ui!TypeOK
  BY DEF UiInv
<1> QED
  BY <1>1, UiInvariant, PTL

-----------------------------------------------------------------------------
(* The window of candidates                                                 *)

LEMMA WindowFacts ==
  ASSUME UiInv
  PROVE  Ui!SelectedShown /\ Ui!WindowInside
<1>1. selected[focus] \in Nat /\ total[focus] \in Nat \ {0}
      /\ selected[focus] < total[focus]
  BY DEF UiInv, Ui!TypeOK
<1>2. MaxCandidates \in Nat \ {0}
  BY DEF UiInv
<1> QED
  BY <1>1, <1>2 DEF Ui!SelectedShown, Ui!WindowInside, Ui!Place, Ui!WindowStart, Ui!Count, Ui!Least

\* bonolith_get_ui_state marks the candidate that a commit inserts, in a
\* window within the candidates, for any number of them and any size of the
\* array.
THEOREM WindowShowsSelectionHolds == Ui!Spec => []WindowShowsSelection
<1>1. UiInv => WindowShowsSelection
  BY WindowFacts DEF WindowShowsSelection, Ui!WindowShowsSelection
<1> QED
  BY <1>1, UiInvariant, PTL

-----------------------------------------------------------------------------
(* The slots of the text                                                    *)

LEMMA SlotFacts ==
  ASSUME UiInv
  PROVE  Ui!TextShown /\ Ui!FocusShown
<1>1. /\ focus \in 0 .. n - 1 /\ n \in Nat \ {0}
      /\ ends \in [0 .. n - 1 -> Nat]
      /\ Ui!Increasing(n, ends)
  BY DEF UiInv, Ui!TypeOK, Ui!Segments
<1>2. /\ Ui!Visible \in 1 .. n /\ Ui!Visible <= MaxSegments
      /\ n > MaxSegments \/ Ui!Visible = n
  BY <1>1 DEF Ui!Visible, Ui!Least, UiInv
<1>3. Ui!TextShown
  <2>1. Ui!Slot(0).first = 0
    BY DEF Ui!Slot, Ui!Range, Ui!Start
  <2>2. ASSUME NEW i \in 0 .. Ui!Visible - 2 PROVE Ui!Slot(i + 1).first = Ui!Slot(i).last
    <3>1. Ui!Slot(i + 1).first = ends[i]
      BY <1>2, <2>2 DEF Ui!Slot, Ui!Range, Ui!Start
    <3>2. Ui!Slot(i).last = ends[i]
      BY <1>2, <2>2 DEF Ui!Slot, Ui!Range
    <3> QED
      BY <3>1, <3>2
  <2>3. Ui!Slot(Ui!Visible - 1).last = ends[n - 1]
    BY <1>1, <1>2 DEF Ui!Slot, Ui!Range
  <2> QED
    BY <2>1, <2>2, <2>3 DEF Ui!TextShown
<1>4. Ui!FocusShown
  <2>1. CASE focus < Ui!Visible - 1
    BY <1>1, <1>2, <2>1 DEF Ui!FocusShown, Ui!FocusSlot, Ui!Least, Ui!Slot, Ui!Range, Ui!Start
  <2>2. CASE focus >= Ui!Visible - 1
    <3>1. Ui!FocusSlot(focus) = Ui!Visible - 1
      BY <1>1, <1>2, <2>2 DEF Ui!FocusSlot, Ui!Least
    <3>2. ends[focus] <= ends[n - 1]
      BY <1>1 DEF Ui!Increasing
    <3>3. Ui!Slot(Ui!Visible - 1).last = ends[n - 1]
      BY <1>1, <1>2 DEF Ui!Slot, Ui!Range
    <3>4. Ui!Slot(Ui!Visible - 1).first = Ui!Start(Ui!Visible - 1)
      BY DEF Ui!Slot, Ui!Range
    <3>5. Ui!Start(Ui!Visible - 1) <= Ui!Start(focus)
      <4>1. CASE Ui!Visible = 1
        BY <1>1, <4>1 DEF Ui!Start
      <4>2. CASE Ui!Visible > 1 /\ focus = Ui!Visible - 1
        BY <1>1, <1>2, <4>2 DEF Ui!Start
      <4>3. CASE Ui!Visible > 1 /\ focus > Ui!Visible - 1
        <5>1. Ui!Visible - 2 \in 0 .. n - 1 /\ focus - 1 \in 0 .. n - 1
              /\ Ui!Visible - 2 < focus - 1
          BY <1>1, <1>2, <4>3
        <5>2. ends[Ui!Visible - 2] < ends[focus - 1]
          BY <1>1, <5>1 DEF Ui!Increasing
        <5>3. Ui!Start(Ui!Visible - 1) = ends[Ui!Visible - 2] /\ Ui!Start(focus) = ends[focus - 1]
          BY <1>1, <1>2, <4>3 DEF Ui!Start
        <5> QED
          BY <1>1, <5>1, <5>2, <5>3
      <4> QED
        BY <1>1, <1>2, <2>2, <4>1, <4>2, <4>3
    <3> QED
      BY <1>2, <3>1, <3>2, <3>3, <3>4, <3>5 DEF Ui!FocusShown
  <2> QED
    BY <1>1, <1>2, <2>1, <2>2
<1> QED
  BY <1>3, <1>4

\* compress_segments_for_display loses no text and highlights the slot that
\* has the focused segment, however many segments there are and however few
\* slots.
THEOREM PreeditShowsTextHolds == Ui!Spec => []PreeditShowsText
<1>1. UiInv => PreeditShowsText
  BY SlotFacts DEF PreeditShowsText, Ui!PreeditShowsText
<1> QED
  BY <1>1, UiInvariant, PTL
=============================================================================
