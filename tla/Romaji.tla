------------------------------- MODULE Romaji -------------------------------
(***************************************************************************)
(* RomajiConverter (src/src/core/romaji/mod.rs) as operators on its three  *)
(* fields: output, buffer and raw_input.                                   *)
(*                                                                         *)
(* A keystroke is an identity and the kind of its letter: "n", another     *)
(* consonant "c", a vowel "v", or a symbol "s" that bypasses the table.  A *)
(* kana is the sequence of keystrokes it was made of, so that texts can be *)
(* compared by the keystrokes they spell; which table entry a spelling     *)
(* hits is nondeterministic within its kind.                               *)
(***************************************************************************)
EXTENDS Naturals, SequencesExt

CONSTANT Untracked  \* raw_input = None

Key(id, letter) == [id |-> id, letter |-> letter]

\* The keystrokes a string of kana spells.
Spell(kana) == FlattenSeq(kana)

\* Keystrokes that stand in the output as they are, one character each.
Literal(keys) == [i \in 1 .. Len(keys) |-> <<keys[i]>>]

NewConverter == [output |-> <<>>, buffer |-> <<>>, raw |-> <<>>]

Preedit(c) == Spell(c.output) \o c.buffer

IsLoneN(buffer) == Len(buffer) = 1 /\ buffer[1].letter = "n"

EndsInVowel(b) == Last(b).letter = "v"

\* What one rule of try_convert makes of the buffer b: kana to append and
\* the buffer left over.  Rule 1 is a hit in the table, rule 2 keeps a prefix
\* of an entry, rule 3 is a doubled consonant, rule 6 discards the buffer.
Hit(b) == IF EndsInVowel(b) THEN {[kana |-> <<b>>, rest |-> <<>>]} ELSE {}

Keep(b) == IF EndsInVowel(b) THEN {} ELSE {[kana |-> <<>>, rest |-> b]}

Doubled(b) ==
  IF Len(b) < 2 \/ b[1].letter # b[2].letter \/ b[1].letter = "v" THEN {}
  ELSE IF b[1].letter = "n" THEN {[kana |-> <<b>>, rest |-> <<>>]}
  ELSE {[kana |-> <<<<b[1]>>>>, rest |-> Tail(b)]}

Discard(b) ==
  IF Len(b) >= 2 THEN {[kana |-> <<>>, rest |-> <<>>]} ELSE {}

WithoutN(b) == Hit(b) \cup Keep(b) \cup Doubled(b) \cup Discard(b)

\* Rule 4: "n" and a letter that does not go with it give the "n" a kana of
\* its own, and the rest of the buffer is tried again.
SplitOffN(b) ==
  {[kana |-> <<<<b[1]>>>> \o o.kana, rest |-> o.rest] :
     o \in WithoutN(Tail(b))}

TryConvert(b) ==
  IF b[1].letter # "n" \/ Len(b) = 1 THEN WithoutN(b)
  ELSE IF b[2].letter = "n" THEN Doubled(b)
  ELSE Hit(b) \cup Keep(b) \cup SplitOffN(b)

\* The converters that process_key can leave.
ProcessKey(c, k) ==
  {[output |-> c.output \o o.kana, buffer |-> o.rest,
    raw |-> IF c.raw = Untracked THEN Untracked ELSE Append(c.raw, k)] :
     o \in TryConvert(Append(c.buffer, k))}

\* A lone "n" becomes a kana; any other pending letters are dropped, and
\* raw_input is kept as it is.
Flush(c) ==
  [c EXCEPT !.output = IF IsLoneN(c.buffer) THEN Append(@, c.buffer) ELSE @,
            !.buffer = <<>>]

\* Mutant: the restored letters are not mirrored into raw_input.
BuggyRestoreBuffer(c, pending) ==
  IF pending # <<>> /\ c.buffer = <<>>
    THEN [c EXCEPT !.buffer = pending]
    ELSE c

RestoreBuffer(c, pending) ==
  IF pending # <<>> /\ c.buffer = <<>>
    THEN [c EXCEPT !.buffer = pending,
                   !.raw = IF @ = Untracked THEN @ ELSE @ \o pending]
    ELSE c

DeleteLast(c) ==
  IF c.buffer # <<>>
    THEN [c EXCEPT !.buffer = Front(@),
                   !.raw = IF @ = Untracked \/ @ = <<>> THEN @ ELSE Front(@)]
  ELSE IF c.output # <<>>
    THEN [c EXCEPT !.output = Front(@), !.raw = Untracked]
    ELSE c

\* flush_pending_as_literal: like flush, but the pending letters stay in the
\* output as literals, which ends the tracking of the raw input.
FlushPendingAsLiteral(c) ==
  IF c.buffer = <<>> \/ IsLoneN(c.buffer)
    THEN Flush(c)
    ELSE [output |-> c.output \o Literal(c.buffer), buffer |-> <<>>,
          raw |-> Untracked]

AppendRaw(c, k) ==
  [c EXCEPT !.output = Append(@, <<k>>), !.raw = Untracked]
=============================================================================
