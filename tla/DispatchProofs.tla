--------------------------- MODULE DispatchProofs ---------------------------
(***************************************************************************)
(* What every key does to the keystrokes an engine holds, for any set of   *)
(* keystrokes: the lemmas that the proofs about the frontends rest on.     *)
(***************************************************************************)
EXTENDS Dispatch, SequenceTheorems, FiniteSetTheorems, FunctionTheorems, TLAPS

(* Counting keystrokes                                                     *)

LEMMA CountType ==
  ASSUME NEW L, NEW s \in Seq(L), NEW i
  PROVE  /\ IsFiniteSet({j \in DOMAIN s : s[j] = i})
         /\ Count(s, i) \in Nat
<1>1. IsFiniteSet(1 .. Len(s)) /\ DOMAIN s = 1 .. Len(s)
  BY FS_Interval
<1>2. {j \in DOMAIN s : s[j] = i} \in SUBSET (1 .. Len(s))
  BY <1>1
<1> QED
  BY <1>1, <1>2, FS_Subset, FS_CardinalityType DEF Count

LEMMA CountNat ==
  ASSUME NEW L, NEW s \in Seq(L), NEW i
  PROVE  Count(s, i) \in Nat
BY CountType

LEMMA CountEmpty ==
  ASSUME NEW i
  PROVE  Count(<<>>, i) = 0
<1>1. {j \in DOMAIN <<>> : <<>>[j] = i} = {}
  OBVIOUS
<1> QED
  BY <1>1, FS_EmptySet DEF Count

LEMMA CountOne ==
  ASSUME NEW k, NEW i
  PROVE  Count(<<k>>, i) = IF i = k THEN 1 ELSE 0
<1>1. {j \in DOMAIN <<k>> : <<k>>[j] = i} = IF i = k THEN {1} ELSE {}
  OBVIOUS
<1> QED
  BY <1>1, FS_EmptySet, FS_Singleton DEF Count

LEMMA ToSetType ==
  ASSUME NEW L, NEW s \in Seq(L)
  PROVE  ToSet(s) \in SUBSET L
BY DEF ToSet

LEMMA CountAbsent ==
  ASSUME NEW L, NEW s \in Seq(L), NEW i
  PROVE  Count(s, i) = 0 <=> i \notin ToSet(s)
<1>1. IsFiniteSet({j \in DOMAIN s : s[j] = i})
  BY CountType
<1>2. {j \in DOMAIN s : s[j] = i} = {} <=> i \notin ToSet(s)
  BY DEF ToSet
<1> QED
  BY <1>1, <1>2, FS_EmptySet DEF Count

LEMMA CountConcat ==
  ASSUME NEW L, NEW s \in Seq(L), NEW t \in Seq(L), NEW i
  PROVE  Count(s \o t, i) = Count(s, i) + Count(t, i)
<1> DEFINE A == {j \in DOMAIN s : s[j] = i}
           B == {j \in DOMAIN t : t[j] = i}
           C == {j \in DOMAIN (s \o t) : (s \o t)[j] = i}
           f == [j \in B |-> j + Len(s)]
           D == C \ A
<1>1. /\ DOMAIN s = 1 .. Len(s) /\ DOMAIN t = 1 .. Len(t)
      /\ DOMAIN (s \o t) = 1 .. Len(s) + Len(t)
      /\ Len(s) \in Nat /\ Len(t) \in Nat
      /\ \A j \in 1 .. Len(s) + Len(t) :
           (s \o t)[j] = IF j <= Len(s) THEN s[j] ELSE t[j - Len(s)]
  BY ConcatProperties
<1>2. IsFiniteSet(A) /\ IsFiniteSet(B) /\ IsFiniteSet(C)
  <2>1. s \o t \in Seq(L)
    BY ConcatProperties
  <2> QED
    BY <2>1, CountType
<1>3. A \subseteq C
  BY <1>1
<1>4. \A j \in D : j - Len(s) \in B
  BY <1>1
<1>5. f \in Bijection(B, D)
  <2>1. f \in [B -> D]
    BY <1>1
  <2>2. \A a, b \in B : f[a] = f[b] => a = b
    BY <1>1
  <2>3. \A d \in D : \E b \in B : f[b] = d
    BY <1>1, <1>4
  <2> QED
    BY <2>1, <2>2, <2>3, Fun_IsBij
<1>6. Cardinality(D) = Cardinality(B) /\ IsFiniteSet(D)
  BY <1>2, <1>5, FS_Bijection DEF ExistsBijection
<1>7. C = A \cup D /\ A \cap D = {}
  BY <1>3
<1>8. Cardinality(A \cup D) = Cardinality(A) + Cardinality(D)
  <2>1. Cardinality(A \cap D) = 0 /\ Cardinality(A) \in Nat /\ Cardinality(D) \in Nat
    BY <1>2, <1>6, <1>7, FS_EmptySet, FS_CardinalityType
  <2>2. Cardinality(A \cup D) = Cardinality(A) + Cardinality(D) - Cardinality(A \cap D)
    BY <1>2, <1>6, FS_Union
  <2> HIDE DEF A, D
  <2> QED
    BY <2>1, <2>2
<1> QED
  BY <1>6, <1>7, <1>8 DEF Count

LEMMA CountAppend ==
  ASSUME NEW L, NEW s \in Seq(L), NEW k \in L, NEW i
  PROVE  Count(Append(s, k), i) = Count(s, i) + (IF i = k THEN 1 ELSE 0)
<1>1. <<k>> \in Seq(L) /\ Append(s, k) = s \o <<k>>
  BY AppendIsConcat
<1>2. Count(s \o <<k>>, i) = Count(s, i) + Count(<<k>>, i)
  BY <1>1, CountConcat
<1>3. Count(<<k>>, i) = IF i = k THEN 1 ELSE 0
  BY CountOne
<1> QED
  BY <1>1, <1>2, <1>3

(* A text cut in two.                                                      *)
LEMMA CutText ==
  ASSUME NEW L, NEW s \in Seq(L), NEW n \in 0 .. Len(s)
  PROVE  /\ SubSeq(s, 1, n) \in Seq(L) /\ SubSeq(s, n + 1, Len(s)) \in Seq(L)
         /\ SubSeq(s, 1, n) \o SubSeq(s, n + 1, Len(s)) = s
         /\ \A i : Count(s, i) = Count(SubSeq(s, 1, n), i) + Count(SubSeq(s, n + 1, Len(s)), i)
<1>1. Len(s) \in Nat
  OBVIOUS
<1>2. SubSeq(s, 1, n) \in Seq(L) /\ SubSeq(s, n + 1, Len(s)) \in Seq(L)
  <2>1. \A j \in 1 .. n : s[j] \in L
    BY <1>1
  <2>2. \A j \in n + 1 .. Len(s) : s[j] \in L
    BY <1>1
  <2> QED
    BY <1>1, <2>1, <2>2, SubSeqProperties
<1>3. SubSeq(s, 1, n) \o SubSeq(s, n + 1, Len(s)) = SubSeq(s, 1, Len(s))
  <2>1. 1 \in 1 .. Len(s) + 1 /\ n \in 1 - 1 .. Len(s) /\ Len(s) \in n .. Len(s)
    BY <1>1
  <2> QED
    BY <2>1, ConcatAdjacentSubSeq
<1>4. SubSeq(s, 1, Len(s)) = s
  BY SubSeqFull
<1>5. ASSUME NEW i
      PROVE  Count(SubSeq(s, 1, n) \o SubSeq(s, n + 1, Len(s)), i)
               = Count(SubSeq(s, 1, n), i) + Count(SubSeq(s, n + 1, Len(s)), i)
  BY <1>2, CountConcat
<1>6. SubSeq(s, 1, n) \o SubSeq(s, n + 1, Len(s)) = s
  BY <1>3, <1>4
<1> QED
  BY <1>2, <1>5, <1>6

LEMMA FrontOfAppend ==
  ASSUME NEW L, NEW t \in Seq(L), NEW k \in L
  PROVE  SubSeq(Append(t, k), 1, Len(Append(t, k)) - 1) = t
<1>1. /\ Append(t, k) \in Seq(L) /\ Len(Append(t, k)) = Len(t) + 1 /\ Len(t) \in Nat
      /\ \A j \in 1 .. Len(t) : Append(t, k)[j] = t[j]
  BY AppendProperties
<1>2. SubSeq(Append(t, k), 1, Len(t)) \in Seq(L)
  BY <1>1, CutText
<1>3. /\ Len(SubSeq(Append(t, k), 1, Len(t))) = Len(t)
      /\ \A j \in 1 .. Len(t) : SubSeq(Append(t, k), 1, Len(t))[j] = t[j]
  BY <1>1
<1> QED
  BY <1>1, <1>2, <1>3, SeqEqual

LEMMA LastText ==
  ASSUME NEW L, NEW s \in Seq(L), s # <<>>
  PROVE  /\ Front(s) \in Seq(L) /\ Last(s) \in L /\ <<Last(s)>> \in Seq(L)
         /\ Front(s) \o <<Last(s)>> = s
<1>1. PICK t \in Seq(L), k \in L : s = Append(t, k)
  BY SequenceEmptyOrAppend
<1>2. /\ Len(s) = Len(t) + 1 /\ s[Len(s)] = k /\ Len(t) \in Nat
      /\ \A j \in 1 .. Len(t) : s[j] = t[j]
  BY <1>1, AppendProperties
<1>3. SubSeq(s, 1, Len(s) - 1) = t
  BY <1>1, <1>2, FrontOfAppend
<1>4. Front(s) = t /\ Last(s) = k /\ s = t \o <<k>>
  BY <1>1, <1>2, <1>3, AppendIsConcat DEF Front, Last
<1> QED
  BY <1>1, <1>4

(* A text that ends with a nonempty one loses its last keystroke there.    *)
LEMMA FrontOfConcat ==
  ASSUME NEW L, NEW p \in Seq(L), NEW b \in Seq(L), b # <<>>
  PROVE  p \o b # <<>> /\ Front(p \o b) = p \o Front(b)
<1>1. /\ Front(b) \in Seq(L) /\ Last(b) \in L /\ <<Last(b)>> \in Seq(L)
      /\ Front(b) \o <<Last(b)>> = b
  BY LastText
<1>2. p \o b = (p \o Front(b)) \o <<Last(b)>>
  <2>1. (p \o Front(b)) \o <<Last(b)>> = p \o (Front(b) \o <<Last(b)>>)
    BY <1>1, ConcatAssociative
  <2> QED
    BY <1>1, <2>1
<1>3. p \o Front(b) \in Seq(L) /\ p \o b \in Seq(L)
  BY <1>1, ConcatProperties
<1>4. p \o b # <<>>
  BY ConcatSimplifications
<1>5. PICK f \in Seq(L) : f = p \o Front(b)
  BY <1>3
<1>6. p \o b = Append(f, Last(b))
  BY <1>1, <1>2, <1>5, AppendIsConcat
<1>7. SubSeq(Append(f, Last(b)), 1, Len(Append(f, Last(b))) - 1) = f
  BY <1>1, FrontOfAppend
<1> QED
  BY <1>4, <1>5, <1>6, <1>7 DEF Front

-----------------------------------------------------------------------------
(* Where the keystrokes of an engine are                                   *)

(* Where an engine has the keystroke i: not deleted, or deleted.           *)
Credit(e, i) == Count(Own(e), i) + e.gone[i]

(* While the raw input is tracked it has, but for the ghosts, what the     *)
(* preedit has, and ends with the buffer.                                  *)
RawSound(e, L) ==
  e.raw # Untracked =>
    IF Converting(e)
      THEN \A i \in L \ e.ghosts : Count(e.raw, i) = Count(Own(e), i)
      ELSE \E p \in Seq(L) :
             /\ e.raw = p \o e.buffer
             /\ \A i \in L \ e.ghosts : Count(p, i) = Count(e.kana, i)

(* A conversion has some kana and no buffer, a romaji form only of a raw   *)
(* input, and puts letters back only if no romaji form could show them.    *)
ConversionSound(e) ==
  Converting(e) =>
    /\ e.buffer = <<>> /\ Reading(e) # <<>>
    /\ e.conversion.raw # "none" => Spelt(e) /\ PutBack(e) = <<>>
    /\ e.conversion.fkey => ~e.conversion.keeps

Sound(e, L) == e \in Engines(L) /\ RawSound(e, L) /\ ConversionSound(e)

AtRest(e, L) == Sound(e, L) /\ ~Converting(e)

(* From e to n every keystroke is committed, held or deleted just as often *)
(* as before, and once more if it is new; but for the strayed.             *)
Balance(e, n, commit, news, L) ==
  /\ commit \in Seq(L)
  /\ e.strayed \subseteq n.strayed
  /\ \A i \in L \ n.strayed :
       Count(commit, i) + Credit(n, i) = Credit(e, i) + (IF i \in news THEN 1 ELSE 0)

(* Keystrokes that the end of a conversion may make astray, and keys that  *)
(* may delete some.                                                        *)
Doubts(e) ==
  InDoubt(e) \cup
    (IF Converting(e) /\ Doubled(e) THEN ToSet(e.conversion.pending) ELSE {})
Deletes == {"letter", "backspace", "escape"}

(* Whatever else a key does, it spares every other keystroke.              *)
Spares(e, key, n) ==
  /\ n.strayed \subseteq e.strayed \cup Doubts(e)
  /\ key \notin Deletes => n.gone = e.gone

(* What a key makes of an engine e, news being the keystroke it adds: the  *)
(* flag mirrors the engine, the keystrokes balance, and a key that commits *)
(* is consumed.                                                            *)
Fine(e, news, r, L) ==
  /\ Sound(r.engine, L)
  /\ r.flag \in BOOLEAN /\ (r.flag <=> Converting(r.engine))
  /\ Balance(e, r.engine, r.outcome.commit, news, L)
  /\ r.outcome.consumed \in BOOLEAN
  /\ r.outcome.commit # <<>> => r.outcome.consumed

-----------------------------------------------------------------------------
(* Fields                                                                  *)

LEMMA EngineFields ==
  ASSUME NEW L, NEW e \in Engines(L)
  PROVE  /\ e.kana \in Seq(L) /\ e.buffer \in Seq(L)
         /\ e.raw \in Seq(L) \cup {Untracked}
         /\ e.conversion \in Conversions(L) \cup {NoConversion}
         /\ e.stamp \in Nat /\ e.generation \in Nat
         /\ e.pass \in {"none", "running", "ready"}
         /\ e.gone \in [L -> Nat] /\ e.ghosts \subseteq L /\ e.strayed \subseteq L
         /\ Preedit(e) \in Seq(L)
<1>1. e.kana \in Seq(L) /\ e.buffer \in Seq(L)
  BY DEF Engines
<1>2. Preedit(e) \in Seq(L)
  BY <1>1, ConcatProperties DEF Preedit
<1> QED
  BY <1>2 DEF Engines

LEMMA ConversionFields ==
  ASSUME NEW L, NEW e \in Engines(L), Converting(e)
  PROVE  /\ e.conversion \in Conversions(L)
         /\ e.conversion.pending \in Seq(L) /\ e.conversion.keeps \in BOOLEAN
         /\ e.conversion.fkey \in BOOLEAN
         /\ e.conversion.raw \in {"none", "known", "listed", "shown"}
         /\ Reading(e) \in Seq(L) /\ PutBack(e) \in Seq(L) /\ Own(e) \in Seq(L)
<1>1. e.conversion \in Conversions(L) /\ e.kana \in Seq(L)
  BY EngineFields DEF Converting
<1>2. /\ e.conversion.pending \in Seq(L) /\ e.conversion.keeps \in BOOLEAN
      /\ e.conversion.fkey \in BOOLEAN
      /\ e.conversion.raw \in {"none", "known", "listed", "shown"}
  BY <1>1 DEF Conversions
<1>3. <<>> \in Seq(L) /\ e.kana \o <<>> \in Seq(L) /\ e.kana \o e.conversion.pending \in Seq(L)
  BY <1>1, <1>2, ConcatProperties
<1> QED
  BY <1>1, <1>2, <1>3 DEF Reading, PutBack, Own

LEMMA OwnType ==
  ASSUME NEW L, NEW e \in Engines(L)
  PROVE  /\ Own(e) \in Seq(L)
         /\ \A i : Count(Own(e), i) \in Nat
         /\ \A i \in L : Credit(e, i) \in Nat
<1>1. Own(e) \in Seq(L)
  BY EngineFields, ConversionFields DEF Own
<1>2. \A i : Count(Own(e), i) \in Nat
  BY <1>1, CountType
<1>3. \A i \in L : e.gone[i] \in Nat
  BY EngineFields
<1> QED
  BY <1>1, <1>2, <1>3 DEF Credit

(* Fields that the keystrokes do not depend on.                            *)
LEMMA InvalidateFields ==
  ASSUME NEW L, NEW e \in Engines(L)
  PROVE  LET n == Invalidate(e) IN
         /\ n \in Engines(L) /\ n.generation = e.generation + 1
         /\ n.kana = e.kana /\ n.buffer = e.buffer /\ n.raw = e.raw
         /\ n.conversion = e.conversion /\ n.gone = e.gone
         /\ n.ghosts = e.ghosts /\ n.strayed = e.strayed
<1>1. e.generation + 1 \in Nat
  BY DEF Engines
<1> QED
  BY <1>1 DEF Invalidate, Engines

LEMMA TriggerFields ==
  ASSUME NEW L, NEW e \in Engines(L)
  PROVE  LET n == Trigger(e) IN
         /\ n \in Engines(L) /\ n.generation = e.generation + 1
         /\ n.kana = e.kana /\ n.buffer = e.buffer /\ n.raw = e.raw
         /\ n.conversion = e.conversion /\ n.gone = e.gone
         /\ n.ghosts = e.ghosts /\ n.strayed = e.strayed
<1>1. e.generation + 1 \in Nat
  BY DEF Engines
<1> QED
  BY <1>1 DEF Trigger, Engines

LEMMA ChangedFields ==
  ASSUME NEW L, NEW e \in Engines(L)
  PROVE  LET n == Changed(e) IN
         /\ n \in Engines(L) /\ n.generation = e.generation
         /\ n.kana = e.kana /\ n.buffer = e.buffer /\ n.raw = e.raw
         /\ n.conversion = e.conversion /\ n.gone = e.gone
         /\ n.ghosts = e.ghosts /\ n.strayed = e.strayed
<1>1. e.stamp + 1 \in Nat
  BY DEF Engines
<1> QED
  BY <1>1 DEF Changed, Engines

LEMMA StrayedFields ==
  ASSUME NEW L, NEW e \in Engines(L), NEW letters \in SUBSET L
  PROVE  LET n == Strayed(e, letters) IN
         /\ n \in Engines(L) /\ n.generation = e.generation
         /\ n.kana = e.kana /\ n.buffer = e.buffer /\ n.raw = e.raw
         /\ n.conversion = e.conversion /\ n.gone = e.gone
         /\ n.ghosts = e.ghosts /\ n.strayed = e.strayed \cup letters
BY DEF Strayed, Engines

LEMMA GhostsFields ==
  ASSUME NEW L, NEW e \in Engines(L), NEW letters \in SUBSET L
  PROVE  LET n == Ghosts(e, letters) IN
         /\ n \in Engines(L) /\ n.generation = e.generation
         /\ n.kana = e.kana /\ n.buffer = e.buffer /\ n.raw = e.raw
         /\ n.conversion = e.conversion /\ n.gone = e.gone
         /\ n.ghosts \subseteq e.ghosts \cup letters /\ e.ghosts \subseteq n.ghosts
         /\ e.raw # Untracked => n.ghosts = e.ghosts \cup letters
         /\ n.strayed = e.strayed
BY DEF Ghosts, Engines

LEMMA GoneFields ==
  ASSUME NEW L, NEW e \in Engines(L), NEW text \in Seq(L)
  PROVE  LET n == Gone(e, text) IN
         /\ n \in Engines(L) /\ n.generation = e.generation
         /\ n.kana = e.kana /\ n.buffer = e.buffer /\ n.raw = e.raw
         /\ n.conversion = e.conversion
         /\ \A i \in L : n.gone[i] = e.gone[i] + Count(text, i)
         /\ n.ghosts = e.ghosts /\ n.strayed = e.strayed
<1>1. PICK gone : gone = [i \in DOMAIN e.gone |-> e.gone[i] + Count(text, i)]
  OBVIOUS
<1>2. /\ e.gone \in [L -> Nat]
      /\ \A i : Count(text, i) \in Nat
  BY CountType DEF Engines
<1>3. gone \in [L -> Nat] /\ \A i \in L : gone[i] = e.gone[i] + Count(text, i)
  BY <1>1, <1>2
<1>4. Gone(e, text) = [e EXCEPT !.gone = gone]
  BY <1>1 DEF Gone
<1> QED
  BY <1>3, <1>4 DEF Engines

LEMMA RestoredFields ==
  ASSUME NEW L, NEW e \in Engines(L), NEW pending \in Seq(L)
  PROVE  LET n == Restored(e, pending) IN
         /\ n \in Engines(L) /\ n.generation = e.generation
         /\ n.kana = <<>> /\ n.buffer = pending /\ n.raw = pending
         /\ n.conversion = e.conversion /\ n.gone = e.gone
         /\ n.ghosts = {} /\ n.strayed = e.strayed
<1>1. <<>> \in Seq(L)
  OBVIOUS
<1> QED
  BY <1>1 DEF Restored, Engines

LEMMA EmptiedFields ==
  ASSUME NEW L, NEW e \in Engines(L)
  PROVE  LET n == Restored(e, <<>>) IN
         /\ n \in Engines(L) /\ n.generation = e.generation
         /\ n.kana = <<>> /\ n.buffer = <<>> /\ n.raw = <<>>
         /\ n.conversion = e.conversion /\ n.gone = e.gone
         /\ n.ghosts = {} /\ n.strayed = e.strayed
<1>1. <<>> \in Seq(L)
  OBVIOUS
<1> QED
  BY <1>1 DEF Restored, Engines

LEMMA NoConversionFields ==
  ASSUME NEW L, NEW e \in Engines(L), NEW n, n = [e EXCEPT !.conversion = NoConversion]
  PROVE  /\ n \in Engines(L) /\ n.generation = e.generation
         /\ n.kana = e.kana /\ n.buffer = e.buffer /\ n.raw = e.raw
         /\ n.conversion = NoConversion /\ n.gone = e.gone
         /\ n.ghosts = e.ghosts /\ n.strayed = e.strayed
BY DEF Engines

LEMMA TrackedType ==
  ASSUME NEW L, NEW raw \in Seq(L) \cup {Untracked}, NEW text \in Seq(L)
  PROVE  /\ Tracked(raw, text) \in Seq(L) \cup {Untracked}
         /\ Tracked(raw, text) # Untracked => raw \in Seq(L) /\ Tracked(raw, text) = raw \o text
BY ConcatProperties DEF Tracked

-----------------------------------------------------------------------------
(* Typing and deleting                                                     *)

LEMMA RestCredit ==
  ASSUME NEW L, NEW e \in Engines(L), ~Converting(e)
  PROVE  /\ Own(e) = Preedit(e)
         /\ \A i : Count(Own(e), i) = Count(e.kana, i) + Count(e.buffer, i)
         /\ \A i : Credit(e, i) = Count(e.kana, i) + Count(e.buffer, i) + e.gone[i]
         /\ \A i : Count(e.kana, i) \in Nat /\ Count(e.buffer, i) \in Nat
<1>1. e.kana \in Seq(L) /\ e.buffer \in Seq(L)
  BY EngineFields
<1>2. Own(e) = Preedit(e) /\ Preedit(e) = e.kana \o e.buffer
  BY DEF Own, Preedit
<1>3. ASSUME NEW i
      PROVE  /\ Count(Own(e), i) = Count(e.kana, i) + Count(e.buffer, i)
             /\ Count(e.kana, i) \in Nat /\ Count(e.buffer, i) \in Nat
  <2>1. Count(e.kana \o e.buffer, i) = Count(e.kana, i) + Count(e.buffer, i)
    BY <1>1, CountConcat
  <2>2. Count(e.kana, i) \in Nat /\ Count(e.buffer, i) \in Nat
    BY <1>1, CountType
  <2> QED
    BY <1>2, <2>1, <2>2
<1> QED
  BY <1>2, <1>3 DEF Credit

LEMMA ConversionCredit ==
  ASSUME NEW L, NEW e \in Engines(L), Converting(e), NEW i
  PROVE  /\ Count(e.kana, i) \in Nat /\ Count(e.conversion.pending, i) \in Nat
         /\ Count(Own(e), i) = Count(e.kana, i)
              + (IF Doubled(e) THEN 0 ELSE Count(e.conversion.pending, i))
         /\ Count(Reading(e), i) = Count(e.kana, i)
              + (IF e.conversion.fkey THEN Count(e.conversion.pending, i) ELSE 0)
<1>1. e.kana \in Seq(L) /\ e.conversion.pending \in Seq(L) /\ <<>> \in Seq(L)
  BY EngineFields, ConversionFields
<1>2. Count(e.kana, i) \in Nat /\ Count(e.conversion.pending, i) \in Nat /\ Count(<<>>, i) = 0
  BY <1>1, CountType, CountEmpty
<1>3. Count(e.kana \o e.conversion.pending, i) = Count(e.kana, i) + Count(e.conversion.pending, i)
  BY <1>1, CountConcat
<1>4. Count(e.kana \o <<>>, i) = Count(e.kana, i) + Count(<<>>, i)
  BY <1>1, CountConcat
<1>5. Own(e) = IF Doubled(e) THEN e.kana \o <<>> ELSE e.kana \o e.conversion.pending
  BY DEF Own
<1>6. Reading(e) = IF e.conversion.fkey THEN e.kana \o e.conversion.pending ELSE e.kana
  BY DEF Reading
<1> QED
  BY <1>2, <1>3, <1>4, <1>5, <1>6

(* An engine at rest is sound if its raw input is.                         *)
LEMMA RestSound ==
  ASSUME NEW L, NEW n \in Engines(L), n.conversion = NoConversion,
         n.raw # Untracked =>
           \E p \in Seq(L) : /\ n.raw = p \o n.buffer
                             /\ \A i \in L \ n.ghosts : Count(p, i) = Count(n.kana, i)
  PROVE  AtRest(n, L)
BY DEF AtRest, Sound, RawSound, ConversionSound, Converting

LEMMA EmptyCommit ==
  ASSUME NEW L, NEW e, NEW n, NEW news, e.strayed \subseteq n.strayed,
         n \in Engines(L),
         \A i \in L \ n.strayed : Credit(n, i) = Credit(e, i) + (IF i \in news THEN 1 ELSE 0)
  PROVE  Balance(e, n, <<>>, news, L)
<1>1. <<>> \in Seq(L)
  OBVIOUS
<1>2. \A i \in L : Count(<<>>, i) = 0 /\ Credit(n, i) \in Nat
  BY CountEmpty, OwnType
<1> QED
  BY <1>1, <1>2 DEF Balance

(* One more letter, some of the buffer being made kana and the rest kept   *)
(* or discarded.                                                           *)
LEMMA SplitCredit ==
  ASSUME NEW L, NEW e \in Engines(L), NEW n \in Engines(L),
         ~Converting(e), ~Converting(n), NEW i \in L,
         NEW made \in Nat, NEW rest \in Nat, NEW new \in Nat,
         made + rest = Count(e.buffer, i) + new,
         Count(n.kana, i) = Count(e.kana, i) + made,
         Count(n.buffer, i) + n.gone[i] = e.gone[i] + rest
  PROVE  Credit(n, i) = Credit(e, i) + new
<1>1. /\ Credit(n, i) = Count(n.kana, i) + Count(n.buffer, i) + n.gone[i]
      /\ Count(n.kana, i) \in Nat /\ Count(n.buffer, i) \in Nat
  BY RestCredit
<1>2. /\ Credit(e, i) = Count(e.kana, i) + Count(e.buffer, i) + e.gone[i]
      /\ Count(e.kana, i) \in Nat /\ Count(e.buffer, i) \in Nat
  BY RestCredit
<1>3. e.gone[i] \in Nat /\ n.gone[i] \in Nat
  BY EngineFields
<1> QED
  BY <1>1, <1>2, <1>3

LEMMA ProcessKeyFine ==
  ASSUME NEW L, NEW e, AtRest(e, L), NEW k \in L, NEW n \in ProcessKey(e, k)
  PROVE  /\ AtRest(n, L) /\ Balance(e, n, <<>>, {k}, L)
         /\ n.generation = e.generation /\ n.strayed = e.strayed
<1>0. PICK b, one : b = Append(e.buffer, k) /\ one = <<k>>
  OBVIOUS
<1>1. /\ e \in Engines(L) /\ e.conversion = NoConversion /\ ~Converting(e)
      /\ e.raw # Untracked =>
           \E p \in Seq(L) : /\ e.raw = p \o e.buffer
                             /\ \A i \in L \ e.ghosts : Count(p, i) = Count(e.kana, i)
  BY DEF AtRest, Sound, RawSound, Converting
<1>2. /\ e.kana \in Seq(L) /\ e.buffer \in Seq(L) /\ e.raw \in Seq(L) \cup {Untracked}
      /\ b \in Seq(L) /\ one \in Seq(L) /\ b = e.buffer \o one
  <2>1. /\ e.kana \in Seq(L) /\ e.buffer \in Seq(L) /\ e.raw \in Seq(L) \cup {Untracked}
    BY <1>1, EngineFields
  <2>2. b \in Seq(L) /\ one \in Seq(L) /\ b = e.buffer \o one
    BY <1>0, <2>1, AppendProperties, AppendIsConcat
  <2> QED
    BY <2>1, <2>2
<1>3. ASSUME NEW i
      PROVE  Count(b, i) = Count(e.buffer, i) + (IF i = k THEN 1 ELSE 0)
  <2>1. e.buffer \in Seq(L)
    BY <1>2
  <2>2. Count(Append(e.buffer, k), i) = Count(e.buffer, i) + (IF i = k THEN 1 ELSE 0)
    BY <2>1, CountAppend
  <2> QED
    BY <1>0, <2>2
<1>4. PICK m, s :
        /\ m \in 0 .. Len(b)
        /\ s = [e EXCEPT !.kana = @ \o SubSeq(b, 1, m),
                         !.buffer = SubSeq(b, m + 1, Len(b)),
                         !.raw = Tracked(@, <<k>>)]
        /\ \/ n = s
           \/ n = Ghosts(Gone([s EXCEPT !.buffer = <<>>], s.buffer), ToSet(s.buffer))
  BY <1>0 DEF ProcessKey
<1>5. PICK made, rest :
        /\ made \in Seq(L) /\ rest \in Seq(L)
        /\ made = SubSeq(b, 1, m) /\ rest = SubSeq(b, m + 1, Len(b)) /\ made \o rest = b
        /\ \A i : Count(b, i) = Count(made, i) + Count(rest, i)
  <2>1. b \in Seq(L) /\ m \in 0 .. Len(b)
    BY <1>2, <1>4
  <2>2. /\ SubSeq(b, 1, m) \in Seq(L) /\ SubSeq(b, m + 1, Len(b)) \in Seq(L)
        /\ SubSeq(b, 1, m) \o SubSeq(b, m + 1, Len(b)) = b
        /\ \A i : Count(b, i) = Count(SubSeq(b, 1, m), i) + Count(SubSeq(b, m + 1, Len(b)), i)
    BY <2>1, CutText
  <2> QED
    BY <2>2
<1>6. PICK raw :
        /\ raw = Tracked(e.raw, one) /\ raw \in Seq(L) \cup {Untracked}
        /\ raw # Untracked => e.raw \in Seq(L) /\ e.raw # Untracked /\ raw = e.raw \o one
  BY <1>2, TrackedType DEF Tracked
<1>7. e.kana \o made \in Seq(L)
  BY <1>2, <1>5, ConcatProperties
<1>8. /\ s \in Engines(L) /\ s.kana = e.kana \o made /\ s.buffer = rest /\ s.raw = raw
      /\ s.conversion = NoConversion /\ s.generation = e.generation
      /\ s.gone = e.gone /\ s.ghosts = e.ghosts /\ s.strayed = e.strayed
  BY <1>0, <1>1, <1>4, <1>5, <1>6, <1>7 DEF Engines
<1>9. ASSUME NEW i
      PROVE  /\ Count(s.kana, i) = Count(e.kana, i) + Count(made, i)
             /\ Count(e.kana, i) \in Nat /\ Count(made, i) \in Nat
             /\ Count(rest, i) \in Nat /\ Count(e.buffer, i) \in Nat
  <2>1. Count(e.kana \o made, i) = Count(e.kana, i) + Count(made, i)
    <3>1. e.kana \in Seq(L) /\ made \in Seq(L)
      BY <1>2, <1>5
    <3> QED
      BY <3>1, CountConcat
  <2>2. /\ Count(e.kana, i) \in Nat /\ Count(made, i) \in Nat
        /\ Count(rest, i) \in Nat /\ Count(e.buffer, i) \in Nat
    BY <1>2, <1>5, CountType
  <2> QED
    BY <1>8, <2>1, <2>2
<1>10. ASSUME NEW i
       PROVE  /\ Count(made, i) + Count(rest, i) = Count(e.buffer, i) + (IF i \in {k} THEN 1 ELSE 0)
              /\ (IF i \in {k} THEN 1 ELSE 0) \in Nat
  BY <1>3, <1>5
<1>13. ASSUME raw # Untracked
       PROVE  \E p \in Seq(L) :
                /\ raw = (p \o made) \o rest /\ p \o made \in Seq(L)
                /\ \A i \in L \ e.ghosts : Count(p \o made, i) = Count(s.kana, i)
  <2>1. PICK p : /\ p \in Seq(L) /\ e.raw = p \o e.buffer
                 /\ \A i \in L \ e.ghosts : Count(p, i) = Count(e.kana, i)
    BY <1>1, <1>6, <1>13
  <2>2. raw = p \o b
    <3>1. PICK u : u = e.buffer
      OBVIOUS
    <3>2. p \in Seq(L) /\ u \in Seq(L) /\ one \in Seq(L)
      BY <1>2, <2>1, <3>1
    <3>3. (p \o u) \o one = p \o (u \o one)
      BY <3>2, ConcatAssociative, Z3
    <3> QED
      BY <1>2, <1>6, <1>13, <2>1, <3>1, <3>3
  <2>3. (p \o made) \o rest = p \o (made \o rest)
    <3>1. p \in Seq(L) /\ made \in Seq(L) /\ rest \in Seq(L)
      BY <1>5, <2>1
    <3> QED
      BY <3>1, ConcatAssociative, Z3
  <2>4. raw = (p \o made) \o rest
    BY <1>5, <2>2, <2>3
  <2>5. p \o made \in Seq(L)
    BY <1>5, <2>1, ConcatProperties
  <2>6. ASSUME NEW i
        PROVE  Count(p \o made, i) = Count(p, i) + Count(made, i)
    <3>1. p \in Seq(L) /\ made \in Seq(L)
      BY <1>5, <2>1
    <3> QED
      BY <3>1, CountConcat, Z3
  <2>7. \A i \in L \ e.ghosts : Count(p \o made, i) = Count(s.kana, i)
    BY <1>9, <2>1, <2>6
  <2>8. p \in Seq(L)
    BY <2>1
  <2> QED
    BY <2>4, <2>5, <2>7, <2>8
<1>11. CASE n = s
  <2>1. AtRest(n, L)
    BY <1>8, <1>13, <1>11, RestSound
  <2>2. ASSUME NEW i \in L
        PROVE  Credit(n, i) = Credit(e, i) + (IF i \in {k} THEN 1 ELSE 0)
    <3>1. /\ ~Converting(n) /\ n.gone = e.gone /\ n.buffer = rest
          /\ Count(n.kana, i) = Count(e.kana, i) + Count(made, i)
      BY <1>8, <1>9, <1>11 DEF Converting
    <3>2. Count(n.buffer, i) + n.gone[i] = e.gone[i] + Count(rest, i)
      BY <1>1, <1>9, <3>1, EngineFields
    <3> QED
      BY <1>1, <1>8, <1>9, <1>10, <1>11, <3>1, <3>2, SplitCredit
  <2> QED
    BY <1>8, <1>11, <2>1, <2>2, EmptyCommit
<1>12. CASE n = Ghosts(Gone([s EXCEPT !.buffer = <<>>], s.buffer), ToSet(s.buffer))
  <2>1. PICK t : t = [s EXCEPT !.buffer = <<>>]
    OBVIOUS
  <2>2. <<>> \in Seq(L)
    OBVIOUS
  <2>3. /\ t \in Engines(L) /\ t.kana = s.kana /\ t.buffer = <<>> /\ t.raw = raw
        /\ t.conversion = NoConversion /\ t.generation = e.generation
        /\ t.gone = e.gone /\ t.ghosts = e.ghosts /\ t.strayed = e.strayed
    BY <1>8, <2>1, <2>2 DEF Engines
  <2>4. PICK g : g = Gone(t, rest)
    OBVIOUS
  <2>5. /\ g \in Engines(L) /\ g.kana = s.kana /\ g.buffer = <<>> /\ g.raw = raw
        /\ g.conversion = NoConversion /\ g.generation = e.generation
        /\ \A i \in L : g.gone[i] = e.gone[i] + Count(rest, i)
        /\ g.ghosts = e.ghosts /\ g.strayed = e.strayed
    <3>1. t \in Engines(L) /\ rest \in Seq(L)
      BY <1>5, <2>3
    <3>2. /\ g \in Engines(L) /\ g.kana = t.kana /\ g.buffer = t.buffer /\ g.raw = t.raw
          /\ g.conversion = t.conversion /\ g.generation = t.generation
          /\ \A i \in L : g.gone[i] = t.gone[i] + Count(rest, i)
          /\ g.ghosts = t.ghosts /\ g.strayed = t.strayed
      BY <2>4, <3>1, GoneFields, Z3
    <3> QED
      BY <2>3, <3>2
  <2>6. ToSet(rest) \in SUBSET L
    BY <1>5, ToSetType
  <2>7. n = Ghosts(g, ToSet(rest))
    BY <1>8, <1>12, <2>1, <2>4
  <2>8. /\ n \in Engines(L) /\ n.kana = s.kana /\ n.buffer = <<>> /\ n.raw = raw
        /\ n.conversion = NoConversion /\ n.generation = e.generation
        /\ n.gone = g.gone /\ n.strayed = e.strayed
        /\ raw # Untracked => n.ghosts = e.ghosts \cup ToSet(rest)
    BY <2>5, <2>6, <2>7, GhostsFields
  <2>9. ASSUME n.raw # Untracked
        PROVE  \E p \in Seq(L) : /\ n.raw = p \o n.buffer
                                 /\ \A i \in L \ n.ghosts : Count(p, i) = Count(n.kana, i)
    <3>1. PICK p \in Seq(L) :
            /\ raw = (p \o made) \o rest /\ p \o made \in Seq(L)
            /\ \A i \in L \ e.ghosts : Count(p \o made, i) = Count(s.kana, i)
      BY <1>13, <2>8, <2>9
    <3>2. raw \in Seq(L) /\ n.raw = raw \o n.buffer
      <4>1. raw \in Seq(L)
        BY <1>6, <2>8, <2>9
      <4>2. raw \o <<>> = raw
        BY <4>1, ConcatEmptySeq
      <4> QED
        BY <2>8, <4>1, <4>2
    <3>3. ASSUME NEW i \in L \ n.ghosts
          PROVE  Count(raw, i) = Count(n.kana, i)
      <4>1. Count(rest, i) = 0 /\ i \in L \ e.ghosts
        BY <1>5, <2>8, <2>9, CountAbsent
      <4>2. Count((p \o made) \o rest, i) = Count(p \o made, i) + Count(rest, i)
        <5>1. PICK q \in Seq(L) : q = p \o made
          BY <3>1
        <5>2. rest \in Seq(L)
          BY <1>5
        <5>3. Count(q \o rest, i) = Count(q, i) + Count(rest, i)
          BY <5>2, CountConcat
        <5> QED
          BY <5>1, <5>3
      <4>3. Count(p \o made, i) \in Nat
        BY <3>1, CountType
      <4> QED
        BY <2>8, <3>1, <4>1, <4>2, <4>3
    <3> QED
      BY <3>2, <3>3
  <2>10. AtRest(n, L)
    BY <2>8, <2>9, RestSound
  <2>11. ASSUME NEW i \in L
         PROVE  Credit(n, i) = Credit(e, i) + (IF i \in {k} THEN 1 ELSE 0)
    <3>1. ~Converting(n) /\ Count(n.kana, i) = Count(e.kana, i) + Count(made, i)
      BY <1>9, <2>8 DEF Converting
    <3>2. Count(n.buffer, i) + n.gone[i] = e.gone[i] + Count(rest, i)
      BY <1>1, <1>9, <2>5, <2>8, EngineFields, CountEmpty
    <3> QED
      BY <1>1, <1>9, <1>10, <2>8, <3>1, <3>2, SplitCredit
  <2> QED
    BY <2>8, <2>10, <2>11, EmptyCommit
<1> QED
  BY <1>4, <1>11, <1>12

LEMMA EmptyConcat ==
  ASSUME NEW L, NEW s \in Seq(L)
  PROVE  <<>> \in Seq(L) /\ <<>> \o s = s /\ s \o <<>> = s
BY ConcatEmptySeq

(* What ends with the same keystrokes keeps the balance.                   *)
LEMMA SameOwn ==
  ASSUME NEW L, NEW e \in Engines(L), NEW n \in Engines(L),
         n.gone = e.gone, e.strayed \subseteq n.strayed,
         \A i \in L \ n.strayed : Count(Own(n), i) = Count(Own(e), i)
  PROVE  Balance(e, n, <<>>, {}, L)
<1>1. ASSUME NEW i \in L \ n.strayed
      PROVE  Credit(n, i) = Credit(e, i) + 0
  BY OwnType DEF Credit
<1> QED
  BY <1>1, EmptyCommit

(* An engine without kana whose raw input is its buffer.                   *)
LEMMA FreshRest ==
  ASSUME NEW L, NEW n \in Engines(L), n.conversion = NoConversion,
         n.kana = <<>>, n.raw = n.buffer
  PROVE  /\ AtRest(n, L) /\ ~Converting(n)
         /\ Preedit(n) = n.buffer /\ Own(n) = n.buffer
<1>1. n.buffer \in Seq(L)
  BY EngineFields
<1>2. <<>> \in Seq(L) /\ <<>> \o n.buffer = n.buffer
  BY <1>1, EmptyConcat
<1>3. AtRest(n, L)
  <2>1. \E p \in Seq(L) : /\ n.raw = p \o n.buffer
                          /\ \A i \in L \ n.ghosts : Count(p, i) = Count(n.kana, i)
    BY <1>2
  <2> QED
    BY <2>1, RestSound
<1> QED
  BY <1>2, <1>3 DEF Preedit, Own, Converting

LEMMA AppendRawFine ==
  ASSUME NEW L, NEW e, AtRest(e, L), NEW k \in L, NEW n, n = AppendRaw(e, k)
  PROVE  /\ AtRest(n, L) /\ Balance(e, n, <<>>, {k}, L)
         /\ n.generation = e.generation /\ n.strayed = e.strayed
         /\ n.gone = e.gone
<1>1. e \in Engines(L) /\ e.conversion = NoConversion /\ ~Converting(e)
  BY DEF AtRest, Sound, Converting
<1>2. PICK text \in Seq(L) : text = Preedit(e)
  BY <1>1, EngineFields
<1>3. Append(text, k) \in Seq(L) /\ <<>> \in Seq(L)
  BY AppendProperties
<1>4. /\ n \in Engines(L) /\ n.kana = Append(text, k) /\ n.buffer = <<>>
      /\ n.raw = Untracked /\ n.conversion = NoConversion /\ n.gone = e.gone
      /\ n.generation = e.generation /\ n.strayed = e.strayed
  BY <1>1, <1>2, <1>3 DEF AppendRaw, Engines
<1>5. AtRest(n, L)
  BY <1>4, RestSound
<1>6. ASSUME NEW i \in L
      PROVE  Credit(n, i) = Credit(e, i) + (IF i \in {k} THEN 1 ELSE 0)
  <2>1. Credit(n, i) = Count(n.kana, i) + Count(n.buffer, i) + n.gone[i]
    BY <1>4, RestCredit DEF Converting
  <2>2. Count(n.kana, i) = Count(text, i) + (IF i = k THEN 1 ELSE 0)
    BY <1>4, CountAppend
  <2>3. Count(n.buffer, i) = 0
    BY <1>4, CountEmpty
  <2>4. Credit(e, i) = Count(text, i) + e.gone[i]
    BY <1>1, <1>2, RestCredit DEF Credit
  <2>5. Count(text, i) \in Nat /\ e.gone[i] \in Nat
    <3>1. e.gone[i] \in Nat
      BY <1>1, EngineFields
    <3> QED
      BY <3>1, CountNat
  <2>6. Credit(n, i) = (Count(text, i) + (IF i = k THEN 1 ELSE 0)) + 0 + e.gone[i]
    BY <1>4, <2>1, <2>2, <2>3
  <2>7. CASE i = k
    BY <2>4, <2>5, <2>6, <2>7
  <2>8. CASE i # k
    BY <2>4, <2>5, <2>6, <2>8
  <2> QED
    BY <2>7, <2>8
<1> QED
  BY <1>4, <1>5, <1>6, EmptyCommit

(* A text that ends with another, and the raw input with it.               *)
LEMMA DeleteLastFine ==
  ASSUME NEW L, NEW e, AtRest(e, L), NEW n, n \in DeleteLast(e)
  PROVE  /\ AtRest(n, L) /\ Balance(e, n, <<>>, {}, L)
         /\ n.generation = e.generation /\ n.strayed = e.strayed
<1>1. /\ e \in Engines(L) /\ e.conversion = NoConversion /\ ~Converting(e)
      /\ e.raw # Untracked =>
           \E p \in Seq(L) : /\ e.raw = p \o e.buffer
                             /\ \A i \in L \ e.ghosts : Count(p, i) = Count(e.kana, i)
  BY DEF AtRest, Sound, RawSound, Converting
<1>2. /\ e.kana \in Seq(L) /\ e.buffer \in Seq(L) /\ e.raw \in Seq(L) \cup {Untracked}
      /\ \A i \in L : e.gone[i] \in Nat
  BY <1>1, EngineFields
(* What is left of the text, and the letters that go.                      *)
<1>3. PICK t, text :
        /\ t \in Engines(L) /\ text \in Seq(L) /\ n = Gone(t, text)
        /\ t.conversion = NoConversion /\ t.generation = e.generation
        /\ t.gone = e.gone /\ t.ghosts = e.ghosts /\ t.strayed = e.strayed
        /\ \A i : Count(e.kana, i) + Count(e.buffer, i)
                    = Count(t.kana, i) + Count(t.buffer, i) + Count(text, i)
        /\ t.raw # Untracked =>
             \E p \in Seq(L) : /\ t.raw = p \o t.buffer
                               /\ \A i \in L \ t.ghosts : Count(p, i) = Count(t.kana, i)
  <2>1. CASE e.buffer # <<>>
    <3>1. PICK front, last :
            /\ front = Front(e.buffer) /\ last = <<Last(e.buffer)>>
            /\ front \in Seq(L) /\ last \in Seq(L) /\ front \o last = e.buffer
      BY <1>2, <2>1, LastText
    <3>2. ASSUME NEW i
          PROVE  /\ Count(e.buffer, i) = Count(front, i) + Count(last, i)
                 /\ Count(e.kana, i) \in Nat /\ Count(front, i) \in Nat
                 /\ Count(last, i) \in Nat
      <4>1. front \in Seq(L) /\ last \in Seq(L) /\ e.kana \in Seq(L)
        BY <1>2, <3>1
      <4>2. Count(front \o last, i) = Count(front, i) + Count(last, i)
        BY <4>1, CountConcat
      <4>3. Count(e.kana, i) \in Nat /\ Count(front, i) \in Nat /\ Count(last, i) \in Nat
        BY <4>1, CountNat
      <4> QED
        BY <3>1, <4>2, <4>3
    <3>3. PICK raw :
            /\ raw = IF Spelt(e) THEN Front(e.raw) ELSE e.raw
            /\ raw \in Seq(L) \cup {Untracked}
            /\ raw # Untracked =>
                 \E p \in Seq(L) :
                   /\ raw = p \o front
                   /\ \A i \in L \ e.ghosts : Count(p, i) = Count(e.kana, i)
      <4>1. CASE e.raw = Untracked
        BY <4>1 DEF Spelt
      <4>2. CASE e.raw # Untracked
        <5>1. PICK p \in Seq(L) : /\ e.raw = p \o e.buffer
                                  /\ \A i \in L \ e.ghosts : Count(p, i) = Count(e.kana, i)
          BY <1>1, <4>2
        <5>2. e.raw # <<>> /\ Front(e.raw) = p \o front
          <6>1. PICK b \in Seq(L) : b = e.buffer
            BY <1>2
          <6>2. b # <<>>
            BY <2>1, <6>1
          <6>3. p \o b # <<>> /\ Front(p \o b) = p \o Front(b)
            BY <6>2, FrontOfConcat
          <6> QED
            BY <3>1, <5>1, <6>1, <6>3
        <5>3. p \o front \in Seq(L)
          BY <3>1, ConcatProperties
        <5> QED
          BY <4>2, <5>1, <5>2, <5>3 DEF Spelt
      <4> QED
        BY <4>1, <4>2
    <3>4. PICK t : t = [e EXCEPT !.buffer = Front(@),
                                 !.raw = IF Spelt(e) THEN Front(@) ELSE @]
      OBVIOUS
    <3>5. /\ t \in Engines(L) /\ t.kana = e.kana /\ t.buffer = front /\ t.raw = raw
          /\ t.conversion = NoConversion /\ t.generation = e.generation
          /\ t.gone = e.gone /\ t.ghosts = e.ghosts /\ t.strayed = e.strayed
      BY <1>1, <3>1, <3>3, <3>4 DEF Engines
    <3>6. n = Gone(t, last)
      BY <2>1, <3>1, <3>4 DEF DeleteLast
    <3>7. \A i : Count(e.kana, i) + Count(e.buffer, i)
                    = Count(t.kana, i) + Count(t.buffer, i) + Count(last, i)
      BY <3>2, <3>5
    <3>8. ASSUME t.raw # Untracked
          PROVE  \E p \in Seq(L) :
                   /\ t.raw = p \o t.buffer
                   /\ \A i \in L \ t.ghosts : Count(p, i) = Count(t.kana, i)
      BY <3>3, <3>5, <3>8
    <3> QED
      BY <3>1, <3>5, <3>6, <3>7, <3>8
  <2>2. CASE e.buffer = <<>>
    <3>1. PICK m, t, text :
            /\ m \in 0 .. Len(e.kana) - 1
            /\ t = [e EXCEPT !.kana = SubSeq(@, 1, m), !.raw = Untracked]
            /\ text = SubSeq(e.kana, m + 1, Len(e.kana))
            /\ n = Gone(t, text)
      BY <2>2 DEF DeleteLast
    <3>2. m \in 0 .. Len(e.kana)
      BY <1>2, <3>1
    <3>3. PICK kept :
            /\ kept = SubSeq(e.kana, 1, m)
            /\ kept \in Seq(L) /\ text \in Seq(L)
            /\ \A i : Count(e.kana, i) = Count(kept, i) + Count(text, i)
      <4>1. PICK u \in Seq(L) : u = e.kana
        BY <1>2
      <4>2. m \in 0 .. Len(u)
        BY <3>2, <4>1
      <4>3. /\ SubSeq(u, 1, m) \in Seq(L) /\ SubSeq(u, m + 1, Len(u)) \in Seq(L)
            /\ \A i : Count(u, i) = Count(SubSeq(u, 1, m), i) + Count(SubSeq(u, m + 1, Len(u)), i)
        BY <4>2, CutText
      <4> QED
        BY <3>1, <4>1, <4>3
    <3>4. /\ t \in Engines(L) /\ t.kana = kept /\ t.buffer = <<>> /\ t.raw = Untracked
          /\ t.conversion = NoConversion /\ t.generation = e.generation
          /\ t.gone = e.gone /\ t.ghosts = e.ghosts /\ t.strayed = e.strayed
      BY <1>1, <2>2, <3>1, <3>3 DEF Engines
    <3>5. \A i : Count(e.kana, i) + Count(e.buffer, i)
                    = Count(t.kana, i) + Count(t.buffer, i) + Count(text, i)
      <4> SUFFICES ASSUME NEW i
                   PROVE  Count(e.kana, i) + Count(e.buffer, i)
                            = Count(t.kana, i) + Count(t.buffer, i) + Count(text, i)
        OBVIOUS
      <4>1. Count(<<>>, i) = 0 /\ Count(kept, i) \in Nat /\ Count(text, i) \in Nat
        BY <3>3, CountEmpty, CountType
      <4> QED
        BY <2>2, <3>3, <3>4, <4>1
    <3> QED
      BY <3>1, <3>3, <3>4, <3>5
  <2> QED
    BY <2>1, <2>2
<1>4. /\ n \in Engines(L) /\ n.generation = t.generation
      /\ n.kana = t.kana /\ n.buffer = t.buffer /\ n.raw = t.raw
      /\ n.conversion = t.conversion
      /\ \A i \in L : n.gone[i] = t.gone[i] + Count(text, i)
      /\ n.ghosts = t.ghosts /\ n.strayed = t.strayed
  <2>1. t \in Engines(L) /\ text \in Seq(L) /\ n = Gone(t, text)
    BY <1>3
  <2> QED
    BY <2>1, GoneFields
<1>5. AtRest(n, L)
  <2>1. ASSUME n.raw # Untracked
        PROVE  \E p \in Seq(L) : /\ n.raw = p \o n.buffer
                                 /\ \A i \in L \ n.ghosts : Count(p, i) = Count(n.kana, i)
    BY <1>3, <1>4, <2>1
  <2> QED
    BY <1>3, <1>4, <2>1, RestSound
<1>6. ASSUME NEW i \in L
      PROVE  Credit(n, i) = Credit(e, i) + 0
  <2>1. /\ Credit(n, i) = Count(n.kana, i) + Count(n.buffer, i) + n.gone[i]
        /\ Count(n.kana, i) \in Nat /\ Count(n.buffer, i) \in Nat
    BY <1>3, <1>4, RestCredit DEF Converting
  <2>2. /\ Credit(e, i) = Count(e.kana, i) + Count(e.buffer, i) + e.gone[i]
        /\ Count(e.kana, i) \in Nat /\ Count(e.buffer, i) \in Nat
    BY <1>1, RestCredit
  <2>3. Count(text, i) \in Nat
    BY <1>3, CountType
  <2>4. /\ Count(e.kana, i) + Count(e.buffer, i)
             = Count(n.kana, i) + Count(n.buffer, i) + Count(text, i)
        /\ n.gone[i] = e.gone[i] + Count(text, i) /\ e.gone[i] \in Nat
    BY <1>2, <1>3, <1>4
  <2> QED
    BY <2>1, <2>2, <2>3, <2>4
<1> QED
  BY <1>3, <1>4, <1>5, <1>6, EmptyCommit

-----------------------------------------------------------------------------
(* Ends of a composition                                                   *)

LEMMA RestFields ==
  ASSUME NEW L, NEW e, AtRest(e, L)
  PROVE  /\ e \in Engines(L) /\ e.conversion = NoConversion /\ ~Converting(e)
         /\ e.kana \in Seq(L) /\ e.buffer \in Seq(L) /\ Preedit(e) \in Seq(L)
         /\ Own(e) = Preedit(e)
<1>1. e \in Engines(L) /\ e.conversion = NoConversion /\ ~Converting(e)
  BY DEF AtRest, Sound, Converting
<1> QED
  BY <1>1, EngineFields, RestCredit

LEMMA CommitFine ==
  ASSUME NEW L, NEW e, AtRest(e, L), NEW n, n = Commit(e)
  PROVE  /\ AtRest(n, L) /\ Balance(e, n, Preedit(e), {}, L)
         /\ n.generation = e.generation /\ Preedit(n) = <<>>
         /\ n.strayed = e.strayed /\ n.gone = e.gone
<1>1. /\ e \in Engines(L) /\ e.conversion = NoConversion /\ Preedit(e) \in Seq(L)
      /\ Own(e) = Preedit(e) /\ <<>> \in Seq(L)
  BY RestFields
<1>2. /\ n \in Engines(L) /\ n.generation = e.generation
      /\ n.kana = <<>> /\ n.buffer = <<>> /\ n.raw = <<>>
      /\ n.conversion = e.conversion /\ n.gone = e.gone /\ n.strayed = e.strayed
  BY <1>1, EmptiedFields DEF Commit
<1>3. AtRest(n, L) /\ Preedit(n) = <<>> /\ Own(n) = <<>>
  BY <1>1, <1>2, FreshRest
<1>4. ASSUME NEW i \in L
      PROVE  Count(Preedit(e), i) + Credit(n, i) = Credit(e, i) + 0
  <2>1. Count(Preedit(e), i) \in Nat
    BY <1>1, CountNat
  <2>2. Count(<<>>, i) = 0 /\ e.gone[i] \in Nat
    BY <1>1, CountEmpty, EngineFields
  <2> QED
    BY <1>1, <1>2, <1>3, <2>1, <2>2 DEF Credit
<1> QED
  BY <1>1, <1>2, <1>3, <1>4 DEF Balance

LEMMA ClearAllFine ==
  ASSUME NEW L, NEW e \in Engines(L), NEW n, n = ClearAll(e)
  PROVE  /\ n \in Engines(L) /\ AtRest(n, L)
         /\ n.kana = <<>> /\ n.buffer = <<>> /\ n.raw = <<>>
         /\ n.conversion = NoConversion
         /\ Preedit(n) = <<>> /\ Own(n) = <<>>
         /\ n.gone = e.gone /\ n.strayed = e.strayed
         /\ n.generation = e.generation + 1
<1>1. PICK r, c : r = Restored(e, <<>>) /\ c = [r EXCEPT !.conversion = NoConversion]
  OBVIOUS
<1>2. <<>> \in Seq(L)
  OBVIOUS
<1>3. /\ r \in Engines(L) /\ r.generation = e.generation
      /\ r.kana = <<>> /\ r.buffer = <<>> /\ r.raw = <<>>
      /\ r.gone = e.gone /\ r.strayed = e.strayed
  BY <1>1, EmptiedFields
<1>4. /\ c \in Engines(L) /\ c.generation = e.generation
      /\ c.kana = <<>> /\ c.buffer = <<>> /\ c.raw = <<>>
      /\ c.conversion = NoConversion /\ c.gone = e.gone /\ c.strayed = e.strayed
  BY <1>1, <1>3, NoConversionFields
<1>5. n = Invalidate(c)
  BY <1>1 DEF ClearAll
<1>6. /\ n \in Engines(L) /\ n.generation = e.generation + 1
      /\ n.kana = <<>> /\ n.buffer = <<>> /\ n.raw = <<>>
      /\ n.conversion = NoConversion /\ n.gone = e.gone /\ n.strayed = e.strayed
  BY <1>4, <1>5, InvalidateFields
<1> QED
  BY <1>6, FreshRest

LEMMA CancelledFine ==
  ASSUME NEW L, NEW e \in Engines(L), NEW n, n = Cancelled(e)
  PROVE  /\ AtRest(n, L) /\ Preedit(n) = <<>> /\ Balance(e, n, <<>>, {}, L)
         /\ n.generation = e.generation + 1 /\ n.strayed = e.strayed
<1>1. PICK text, c : text \in Seq(L) /\ c = ClearAll(e) /\ text = Own(e)
  <2>1. Own(e) \in Seq(L)
    BY OwnType
  <2> QED
    BY <2>1
<1>2. /\ c \in Engines(L) /\ c.kana = <<>> /\ c.buffer = <<>> /\ c.raw = <<>>
      /\ c.conversion = NoConversion
      /\ c.gone = e.gone /\ c.strayed = e.strayed
      /\ c.generation = e.generation + 1
  BY <1>1, ClearAllFine
<1>3. /\ n \in Engines(L) /\ n.generation = c.generation
      /\ n.kana = c.kana /\ n.buffer = c.buffer /\ n.raw = c.raw
      /\ n.conversion = c.conversion /\ n.strayed = c.strayed
      /\ \A i \in L : n.gone[i] = c.gone[i] + Count(text, i)
  <2>1. n = Gone(c, text)
    BY <1>1 DEF Cancelled
  <2>2. c \in Engines(L) /\ text \in Seq(L)
    BY <1>1, <1>2
  <2> QED
    BY <2>1, <2>2, GoneFields
<1>4. AtRest(n, L) /\ Preedit(n) = <<>> /\ Own(n) = <<>>
  BY <1>2, <1>3, FreshRest
<1>5. ASSUME NEW i \in L
      PROVE  Credit(n, i) = Credit(e, i) + 0
  <2>1. Count(text, i) \in Nat /\ Count(<<>>, i) = 0 /\ e.gone[i] \in Nat
    BY <1>1, CountNat, CountEmpty, EngineFields
  <2> QED
    BY <1>1, <1>2, <1>3, <1>4, <2>1 DEF Credit
<1> QED
  BY <1>2, <1>3, <1>4, <1>5, EmptyCommit

(* What a commit sends and leaves is what was typed, doubts excepted.      *)
LEMMA DoubtType ==
  ASSUME NEW L, NEW e \in Engines(L)
  PROVE  InDoubt(e) \in SUBSET L /\ InDoubtUnfocused(e) \in SUBSET L
<1>1. CASE ~Converting(e)
  BY <1>1 DEF InDoubt, InDoubtUnfocused
<1>2. CASE Converting(e)
  <2>1. PICK pending \in Seq(L), back \in Seq(L) :
          pending = e.conversion.pending /\ back = PutBack(e)
    BY <1>2, ConversionFields
  <2>2. ToSet(pending) \in SUBSET L /\ ToSet(back) \in SUBSET L
    BY ToSetType
  <2>3. e.ghosts \in SUBSET L
    BY EngineFields
  <2> QED
    BY <1>2, <2>1, <2>2, <2>3 DEF InDoubt, InDoubtUnfocused
<1> QED
  BY <1>1, <1>2

LEMMA TextFields ==
  ASSUME NEW L, NEW e, Sound(e, L), Converting(e)
  PROVE  /\ e \in Engines(L) /\ Text(e) \in Seq(L) /\ Text(e) # <<>>
         /\ e.buffer = <<>> /\ Reading(e) # <<>>
         /\ e.conversion.raw # "none" => Spelt(e) /\ PutBack(e) = <<>>
         /\ e.conversion.raw # "none" => e.raw \in Seq(L) /\ e.raw # Untracked
         /\ e.conversion.fkey => ~e.conversion.keeps /\ PutBack(e) = <<>>
         /\ e.raw # Untracked =>
              \A i \in L \ e.ghosts : Count(e.raw, i) = Count(Own(e), i)
<1>1. /\ e \in Engines(L) /\ e.buffer = <<>> /\ Reading(e) # <<>>
      /\ e.conversion.raw # "none" => Spelt(e) /\ PutBack(e) = <<>>
      /\ e.conversion.fkey => ~e.conversion.keeps
      /\ e.raw # Untracked =>
           \A i \in L \ e.ghosts : Count(e.raw, i) = Count(Own(e), i)
  BY DEF Sound, ConversionSound, RawSound
<1>2. e.raw \in Seq(L) \cup {Untracked} /\ Reading(e) \in Seq(L)
  BY <1>1, EngineFields, ConversionFields
<1> QED
  BY <1>1, <1>2 DEF Text, Spelt, PutBack

LEMMA RemainsCount ==
  ASSUME NEW L, NEW e, Sound(e, L), Converting(e), NEW i \in L \ InDoubt(e)
  PROVE  /\ Count(Text(e), i) \in Nat /\ Count(PutBack(e), i) \in Nat
         /\ Count(Text(e), i) + Count(PutBack(e), i) = Count(Own(e), i)
<1>1. /\ e \in Engines(L) /\ Text(e) \in Seq(L)
      /\ e.conversion.raw # "none" => PutBack(e) = <<>> /\ e.raw # Untracked
      /\ e.conversion.fkey => ~e.conversion.keeps /\ PutBack(e) = <<>>
      /\ e.raw # Untracked =>
           \A j \in L \ e.ghosts : Count(e.raw, j) = Count(Own(e), j)
  BY TextFields
<1>2. PICK pending \in Seq(L), back \in Seq(L) :
        pending = e.conversion.pending /\ back = PutBack(e)
  BY <1>1, ConversionFields
<1>3. /\ Count(Text(e), i) \in Nat /\ Count(back, i) \in Nat /\ Count(pending, i) \in Nat
      /\ Count(<<>>, i) = 0
  <2>1. PICK text \in Seq(L) : text = Text(e)
    BY <1>1
  <2>2. Count(text, i) \in Nat /\ Count(back, i) \in Nat /\ Count(pending, i) \in Nat
    BY CountNat
  <2> QED
    BY <2>1, <2>2, CountEmpty
<1>4. /\ Count(e.kana, i) \in Nat
      /\ Count(Own(e), i) = Count(e.kana, i) + (IF Doubled(e) THEN 0 ELSE Count(pending, i))
      /\ Count(Reading(e), i) = Count(e.kana, i)
           + (IF e.conversion.fkey THEN Count(pending, i) ELSE 0)
  BY <1>1, <1>2, ConversionCredit
<1>5. CASE e.conversion.raw = "shown"
  <2>1. i \in L \ e.ghosts /\ back = <<>> /\ Text(e) = e.raw
    BY <1>1, <1>2, <1>5 DEF InDoubt, Text
  <2> QED
    BY <1>1, <1>2, <1>3, <1>5, <2>1
<1>6. CASE e.conversion.raw # "shown"
  <2>0. Text(e) = Reading(e)
    BY <1>6 DEF Text
  <2>1. CASE Doubled(e)
    <3>1. i \notin ToSet(pending)
      BY <1>2, <1>6, <2>1 DEF InDoubt
    <3>2. Count(pending, i) = 0
      BY <3>1, CountAbsent
    <3>3. e.conversion.fkey /\ back = <<>>
      BY <1>1, <1>2, <2>1 DEF Doubled
    <3> QED
      BY <1>2, <1>3, <1>4, <2>0, <2>1, <3>2, <3>3
  <2>2. CASE ~Doubled(e) /\ e.conversion.fkey
    BY <1>1, <1>2, <1>3, <1>4, <2>0, <2>2
  <2>3. CASE ~Doubled(e) /\ ~e.conversion.fkey /\ e.conversion.keeps
    BY <1>2, <1>3, <1>4, <2>0, <2>3 DEF PutBack
  <2>4. CASE ~Doubled(e) /\ ~e.conversion.fkey /\ ~e.conversion.keeps
    <3>1. i \notin ToSet(pending)
      BY <1>2, <1>6, <2>4 DEF InDoubt
    <3>2. Count(pending, i) = 0 /\ back = <<>>
      BY <1>2, <2>4, <3>1, CountAbsent DEF PutBack
    <3> QED
      BY <1>2, <1>3, <1>4, <2>0, <2>4, <3>2
  <2> QED
    BY <2>1, <2>2, <2>3, <2>4
<1> QED
  BY <1>5, <1>6

LEMMA UnfocusedFine ==
  ASSUME NEW L, NEW e, Sound(e, L), NEW n, n = Unfocused(e)
  PROVE  /\ AtRest(n, L) /\ Preedit(n) = <<>>
         /\ Balance(e, n, Display(e).text, {}, L)
         /\ n.generation = e.generation + 1
<1>1. PICK c, doubts : c = ClearAll(e) /\ doubts = InDoubtUnfocused(e)
  OBVIOUS
<1>2. e \in Engines(L) /\ doubts \in SUBSET L
  BY <1>1, DoubtType DEF Sound
<1>3. /\ c \in Engines(L) /\ c.kana = <<>> /\ c.buffer = <<>> /\ c.raw = <<>>
      /\ c.conversion = NoConversion
      /\ c.gone = e.gone /\ c.strayed = e.strayed
      /\ c.generation = e.generation + 1
  BY <1>1, <1>2, ClearAllFine
<1>4. /\ n \in Engines(L) /\ n.generation = c.generation
      /\ n.kana = c.kana /\ n.buffer = c.buffer /\ n.raw = c.raw
      /\ n.conversion = c.conversion /\ n.gone = c.gone
      /\ n.strayed = c.strayed \cup doubts
  <2>1. n = Strayed(c, doubts)
    BY <1>1 DEF Unfocused
  <2> QED
    BY <1>2, <1>3, <2>1, StrayedFields
<1>5. AtRest(n, L) /\ Preedit(n) = <<>> /\ Own(n) = <<>>
  BY <1>3, <1>4, FreshRest
<1>6. ASSUME NEW i \in L \ n.strayed
      PROVE  Count(Display(e).text, i) = Count(Own(e), i)
  <2>1. CASE ~Converting(e)
    BY <2>1 DEF Display, Own
  <2>2. CASE Converting(e)
    <3>1. i \notin InDoubt(e) /\ i \notin ToSet(PutBack(e))
      BY <1>1, <1>4, <2>2 DEF InDoubtUnfocused
    <3>2. PICK back \in Seq(L) : back = PutBack(e)
      BY <1>2, <2>2, ConversionFields
    <3>3. Count(back, i) = 0
      BY <3>1, <3>2, CountAbsent
    <3>4. /\ Count(Text(e), i) \in Nat
          /\ Count(Text(e), i) + Count(back, i) = Count(Own(e), i)
      BY <2>2, <3>1, <3>2, RemainsCount
    <3> QED
      BY <2>2, <3>3, <3>4 DEF Display
  <2> QED
    BY <2>1, <2>2
<1>7. Display(e).text \in Seq(L)
  BY <1>2, EngineFields, TextFields DEF Display
<1>8. ASSUME NEW i \in L \ n.strayed
      PROVE  Count(Display(e).text, i) + Credit(n, i) = Credit(e, i) + 0
  <2>1. Count(<<>>, i) = 0 /\ e.gone[i] \in Nat /\ Count(Own(e), i) \in Nat
    BY <1>2, CountEmpty, EngineFields, OwnType
  <2> QED
    BY <1>3, <1>4, <1>5, <1>6, <2>1 DEF Credit
<1> QED
  BY <1>3, <1>4, <1>5, <1>7, <1>8 DEF Balance

LEMMA CommitConversionFine ==
  ASSUME NEW L, NEW e, Sound(e, L), NEW done, done = CommitConversion(e)
  PROVE  /\ AtRest(done.engine, L)
         /\ Balance(e, done.engine, done.text, {}, L)
         /\ ~Converting(e) => done.engine = e /\ done.text = <<>>
         /\ done.engine.gone = e.gone
         /\ done.engine.strayed \subseteq e.strayed \cup Doubts(e)
         /\ Converting(e) => /\ done.text # <<>>
                             /\ done.engine.generation = e.generation + 1
<1>1. e \in Engines(L)
  BY DEF Sound
<1>2. CASE ~Converting(e)
  <2>1. done.engine = e /\ done.text = <<>>
    BY <1>2 DEF CommitConversion
  <2>2. Balance(e, e, <<>>, {}, L)
    BY <1>1, SameOwn
  <2> QED
    BY <1>2, <2>1, <2>2 DEF AtRest
<1>3. CASE Converting(e)
  <2>1. PICK back \in Seq(L) : back = PutBack(e)
    BY <1>1, <1>3, ConversionFields
  <2>2. PICK r, c, doubts, s :
          /\ r = Restored(e, back) /\ c = [r EXCEPT !.conversion = NoConversion]
          /\ doubts = InDoubt(e) /\ s = Strayed(c, doubts)
    OBVIOUS
  <2>3. done.text = Text(e) /\ done.engine = Invalidate(s)
    BY <1>3, <2>1, <2>2 DEF CommitConversion
  <2>4. /\ r \in Engines(L) /\ r.generation = e.generation
        /\ r.kana = <<>> /\ r.buffer = back /\ r.raw = back
        /\ r.gone = e.gone /\ r.strayed = e.strayed
    BY <1>1, <2>2, RestoredFields
  <2>5. /\ c \in Engines(L) /\ c.generation = e.generation
        /\ c.kana = <<>> /\ c.buffer = back /\ c.raw = back
        /\ c.conversion = NoConversion /\ c.gone = e.gone /\ c.strayed = e.strayed
    BY <2>2, <2>4, NoConversionFields
  <2>6. doubts \in SUBSET L
    BY <1>1, <2>2, DoubtType
  <2>7. /\ s \in Engines(L) /\ s.generation = e.generation
        /\ s.kana = <<>> /\ s.buffer = back /\ s.raw = back
        /\ s.conversion = NoConversion /\ s.gone = e.gone
        /\ s.strayed = e.strayed \cup doubts
    <3>1. c \in Engines(L) /\ doubts \in SUBSET L /\ s = Strayed(c, doubts)
      BY <2>2, <2>5, <2>6
    <3>2. /\ s \in Engines(L) /\ s.generation = c.generation
          /\ s.kana = c.kana /\ s.buffer = c.buffer /\ s.raw = c.raw
          /\ s.conversion = c.conversion /\ s.gone = c.gone
          /\ s.strayed = c.strayed \cup doubts
      BY <3>1, StrayedFields
    <3> QED
      BY <2>5, <3>2
  <2>8. PICK n : n = done.engine
    OBVIOUS
  <2>9. /\ n \in Engines(L) /\ n.generation = e.generation + 1
        /\ n.kana = <<>> /\ n.buffer = back /\ n.raw = back
        /\ n.conversion = NoConversion /\ n.gone = e.gone
        /\ n.strayed = e.strayed \cup doubts
    BY <2>3, <2>7, <2>8, InvalidateFields
  <2>10. AtRest(n, L) /\ Own(n) = back
    BY <2>9, FreshRest
  <2>11. Text(e) \in Seq(L) /\ Text(e) # <<>>
    BY <1>3, TextFields
  <2>12. ASSUME NEW i \in L \ n.strayed
         PROVE  Count(Text(e), i) + Credit(n, i) = Credit(e, i) + 0
    <3>1. i \in L \ InDoubt(e)
      BY <2>2, <2>9
    <3>2. /\ Count(Text(e), i) \in Nat /\ Count(back, i) \in Nat
          /\ Count(Text(e), i) + Count(back, i) = Count(Own(e), i)
      BY <1>3, <2>1, <3>1, RemainsCount
    <3>3. e.gone[i] \in Nat
      BY <1>1, EngineFields
    <3> QED
      BY <2>9, <2>10, <3>2, <3>3 DEF Credit
  <2>13. Balance(e, n, Text(e), {}, L)
    BY <2>9, <2>11, <2>12 DEF Balance
  <2> QED
    BY <1>3, <2>2, <2>3, <2>8, <2>9, <2>10, <2>11, <2>13 DEF Doubts
<1> QED
  BY <1>2, <1>3

LEMMA CancelFine ==
  ASSUME NEW L, NEW e, Sound(e, L), NEW n, n = CancelConversion(e)
  PROVE  /\ AtRest(n, L) /\ Balance(e, n, <<>>, {}, L)
         /\ n.generation = e.generation + 1 /\ n.gone = e.gone
         /\ n.strayed \subseteq e.strayed \cup Doubts(e)
<1>1. e \in Engines(L)
  BY DEF Sound
<1>2. CASE ~Converting(e)
  <2>1. n = Invalidate(e)
    BY <1>2 DEF CancelConversion
  <2>2. /\ n \in Engines(L) /\ n.generation = e.generation + 1
        /\ n.kana = e.kana /\ n.buffer = e.buffer /\ n.raw = e.raw
        /\ n.conversion = e.conversion /\ n.gone = e.gone
        /\ n.ghosts = e.ghosts /\ n.strayed = e.strayed
    BY <1>1, <2>1, InvalidateFields
  <2>3. n.conversion = NoConversion /\ Own(n) = Own(e)
    BY <1>2, <2>2 DEF Converting, Own, Preedit
  <2>4. n.raw # Untracked =>
           \E p \in Seq(L) : /\ n.raw = p \o n.buffer
                             /\ \A i \in L \ n.ghosts : Count(p, i) = Count(n.kana, i)
    BY <1>2, <2>2 DEF Sound, RawSound
  <2>5. AtRest(n, L)
    BY <2>2, <2>3, <2>4, RestSound
  <2>6. Balance(e, n, <<>>, {}, L)
    BY <1>1, <2>2, <2>3, SameOwn
  <2> QED
    BY <2>2, <2>5, <2>6
<1>3. CASE Converting(e)
  <2>1. /\ e.kana \in Seq(L) /\ e.buffer = <<>> /\ e.raw \in Seq(L) \cup {Untracked}
        /\ e.raw # Untracked =>
             \A i \in L \ e.ghosts : Count(e.raw, i) = Count(Own(e), i)
    BY <1>1, <1>3, EngineFields, TextFields
  <2>2. PICK pending \in Seq(L) : pending = e.conversion.pending
    BY <1>1, <1>3, ConversionFields
  <2>3. PICK raw \in Seq(L) \cup {Untracked} :
          /\ raw = Tracked(e.raw, pending)
          /\ raw # Untracked => e.raw \in Seq(L) /\ e.raw # Untracked /\ raw = e.raw \o pending
    BY <2>1, TrackedType DEF Tracked
  <2>4. PICK b, c, g, doubled, s :
          /\ b = [e EXCEPT !.buffer = pending, !.raw = raw]
          /\ c = [b EXCEPT !.conversion = NoConversion]
          /\ g = Ghosts(c, ToSet(pending))
          /\ doubled = IF Doubled(e) THEN ToSet(pending) ELSE {}
          /\ s = Strayed(g, doubled)
    OBVIOUS
  <2>5. n = Invalidate(s)
    <3>1. b = [e EXCEPT !.buffer = pending, !.raw = Tracked(@, pending)]
      BY <2>3, <2>4
    <3> QED
      BY <1>3, <2>1, <2>2, <2>4, <3>1 DEF CancelConversion
  <2>6. /\ b \in Engines(L) /\ b.generation = e.generation
        /\ b.kana = e.kana /\ b.buffer = pending /\ b.raw = raw
        /\ b.gone = e.gone /\ b.ghosts = e.ghosts /\ b.strayed = e.strayed
    BY <1>1, <2>4 DEF Engines
  <2>7. /\ c \in Engines(L) /\ c.generation = e.generation
        /\ c.kana = e.kana /\ c.buffer = pending /\ c.raw = raw
        /\ c.conversion = NoConversion
        /\ c.gone = e.gone /\ c.ghosts = e.ghosts /\ c.strayed = e.strayed
    <3>1. b \in Engines(L) /\ c = [b EXCEPT !.conversion = NoConversion]
      BY <2>4, <2>6
    <3>2. /\ c \in Engines(L) /\ c.generation = b.generation
          /\ c.kana = b.kana /\ c.buffer = b.buffer /\ c.raw = b.raw
          /\ c.conversion = NoConversion /\ c.gone = b.gone
          /\ c.ghosts = b.ghosts /\ c.strayed = b.strayed
      BY <3>1, NoConversionFields
    <3> QED
      BY <2>6, <3>2
  <2>8. ToSet(pending) \in SUBSET L /\ doubled \in SUBSET L
    BY <2>4, ToSetType
  <2>9. /\ g \in Engines(L) /\ g.generation = e.generation
        /\ g.kana = e.kana /\ g.buffer = pending /\ g.raw = raw
        /\ g.conversion = NoConversion /\ g.gone = e.gone /\ g.strayed = e.strayed
        /\ raw # Untracked => g.ghosts = e.ghosts \cup ToSet(pending)
    <3>1. c \in Engines(L) /\ ToSet(pending) \in SUBSET L /\ g = Ghosts(c, ToSet(pending))
      BY <2>4, <2>7, <2>8
    <3>2. /\ g \in Engines(L) /\ g.generation = c.generation
          /\ g.kana = c.kana /\ g.buffer = c.buffer /\ g.raw = c.raw
          /\ g.conversion = c.conversion /\ g.gone = c.gone /\ g.strayed = c.strayed
          /\ c.raw # Untracked => g.ghosts = c.ghosts \cup ToSet(pending)
      BY <3>1, GhostsFields
    <3> QED
      BY <2>7, <3>2
  <2>10. /\ s \in Engines(L) /\ s.generation = e.generation
         /\ s.kana = e.kana /\ s.buffer = pending /\ s.raw = raw
         /\ s.conversion = NoConversion /\ s.gone = e.gone
         /\ s.strayed = e.strayed \cup doubled /\ s.ghosts = g.ghosts
    BY <2>4, <2>8, <2>9, StrayedFields
  <2>11. /\ n \in Engines(L) /\ n.generation = e.generation + 1
         /\ n.kana = e.kana /\ n.buffer = pending /\ n.raw = raw
         /\ n.conversion = NoConversion /\ n.gone = e.gone
         /\ n.strayed = e.strayed \cup doubled
         /\ raw # Untracked => n.ghosts = e.ghosts \cup ToSet(pending)
    BY <2>5, <2>9, <2>10, InvalidateFields
  <2>12. ASSUME NEW i
         PROVE  /\ Count(e.kana, i) \in Nat /\ Count(pending, i) \in Nat
                /\ Count(Own(e), i) = Count(e.kana, i)
                     + (IF Doubled(e) THEN 0 ELSE Count(pending, i))
    BY <1>1, <1>3, <2>2, ConversionCredit
  <2>13. ASSUME NEW i, i \notin ToSet(pending)
         PROVE  Count(pending, i) = 0
    BY <2>13, CountAbsent
  <2>14. AtRest(n, L)
    <3>1. ASSUME n.raw # Untracked
          PROVE  \E p \in Seq(L) : /\ n.raw = p \o n.buffer
                                   /\ \A i \in L \ n.ghosts : Count(p, i) = Count(n.kana, i)
      <4>1. e.raw \in Seq(L) /\ n.raw = e.raw \o n.buffer /\ e.raw # Untracked
        BY <2>3, <2>11, <3>1
      <4>2. ASSUME NEW i \in L \ n.ghosts
            PROVE  Count(e.raw, i) = Count(n.kana, i)
        <5>1. i \in L \ e.ghosts /\ i \notin ToSet(pending)
          BY <2>11, <3>1
        <5>2. Count(pending, i) = 0
          BY <2>13, <5>1
        <5>3. Count(e.raw, i) = Count(Own(e), i)
          BY <2>1, <4>1, <5>1
        <5> QED
          BY <2>11, <2>12, <5>2, <5>3
      <4> QED
        BY <4>1, <4>2
    <3> QED
      BY <2>11, <3>1, RestSound
  <2>15. ASSUME NEW i \in L \ n.strayed
         PROVE  Count(Own(n), i) = Count(Own(e), i)
    <3>1. Count(Own(n), i) = Count(e.kana, i) + Count(pending, i)
      BY <2>11, RestCredit DEF Converting
    <3>2. CASE Doubled(e)
      <4>1. Count(pending, i) = 0
        BY <2>4, <2>11, <2>13, <3>2
      <4> QED
        BY <2>12, <3>1, <3>2, <4>1
    <3>3. CASE ~Doubled(e)
      BY <2>12, <3>1, <3>3
    <3> QED
      BY <3>2, <3>3
  <2>16. Balance(e, n, <<>>, {}, L)
    BY <1>1, <2>11, <2>15, SameOwn
  <2> QED
    BY <1>3, <2>2, <2>4, <2>11, <2>14, <2>16 DEF Doubts
<1> QED
  BY <1>2, <1>3

-----------------------------------------------------------------------------
(* Conversions begun and changed                                           *)

LEMMA ConversionIsOne ==
  ASSUME NEW L \in SUBSET Nat, NEW conversion \in Conversions(L)
  PROVE  conversion # NoConversion
<1>1. Seq(L) \subseteq Seq(Nat)
  BY SeqMonotonic
<1>2. conversion \in Conversions(Nat)
  BY <1>1 DEF Conversions
<1> QED
  BY <1>2, NoConversionAssumption DEF NoConversionAssumption

LEMMA ConvertedFields ==
  ASSUME NEW L \in SUBSET Nat, NEW e \in Engines(L), NEW conversion \in Conversions(L)
  PROVE  LET n == Converted(e, conversion) IN
         /\ n \in Engines(L) /\ n.generation = e.generation /\ Converting(n)
         /\ n.kana = (IF LoneN(e.buffer) THEN Preedit(e) ELSE e.kana)
         /\ n.buffer = <<>> /\ n.raw = e.raw
         /\ n.conversion = conversion /\ n.gone = e.gone
         /\ n.ghosts = e.ghosts /\ n.strayed = e.strayed
<1>1. PICK kana \in Seq(L) : kana = IF LoneN(e.buffer) THEN Preedit(e) ELSE e.kana
  BY EngineFields
<1>2. PICK c : c = [e EXCEPT !.kana = kana, !.buffer = <<>>, !.conversion = conversion]
  OBVIOUS
<1>3. <<>> \in Seq(L)
  OBVIOUS
<1>4. /\ c \in Engines(L) /\ c.generation = e.generation
      /\ c.kana = kana /\ c.buffer = <<>> /\ c.raw = e.raw
      /\ c.conversion = conversion /\ c.gone = e.gone
      /\ c.ghosts = e.ghosts /\ c.strayed = e.strayed
  BY <1>2, <1>3 DEF Engines
<1>5. Converted(e, conversion) = Changed(c)
  BY <1>1, <1>2 DEF Converted
<1>6. conversion # NoConversion
  BY ConversionIsOne
<1> QED
  BY <1>1, <1>4, <1>5, <1>6, ChangedFields DEF Converting

(* At rest, too, the raw input has what the preedit has.                   *)
LEMMA RestRaw ==
  ASSUME NEW L, NEW e, AtRest(e, L), e.raw # Untracked, NEW i \in L \ e.ghosts
  PROVE  Count(e.raw, i) = Count(Own(e), i)
<1>1. PICK p \in Seq(L) : /\ e.raw = p \o e.buffer
                          /\ \A j \in L \ e.ghosts : Count(p, j) = Count(e.kana, j)
  BY DEF AtRest, Sound, RawSound
<1>2. e \in Engines(L) /\ ~Converting(e) /\ e.buffer \in Seq(L)
  BY RestFields
<1>3. Count(p \o e.buffer, i) = Count(p, i) + Count(e.buffer, i)
  BY <1>2, CountConcat
<1>4. Count(Own(e), i) = Count(e.kana, i) + Count(e.buffer, i)
  BY <1>2, RestCredit
<1> QED
  BY <1>1, <1>3, <1>4

(* A conversion that has what the preedit had is sound.                    *)
LEMMA StartedFine ==
  ASSUME NEW L, NEW e, AtRest(e, L), NEW n \in Engines(L), Converting(n),
         n.raw = e.raw, n.gone = e.gone, n.ghosts = e.ghosts, n.strayed = e.strayed,
         \A i \in L : Count(Own(n), i) = Count(Own(e), i),
         n.buffer = <<>>, Reading(n) # <<>>,
         n.conversion.raw # "none" => Spelt(n) /\ PutBack(n) = <<>>,
         n.conversion.fkey => ~n.conversion.keeps
  PROVE  Sound(n, L) /\ Balance(e, n, <<>>, {}, L)
<1>1. e \in Engines(L)
  BY RestFields
<1>2. RawSound(n, L)
  BY RestRaw DEF RawSound
<1>3. ConversionSound(n)
  BY DEF ConversionSound
<1>4. Balance(e, n, <<>>, {}, L)
  BY <1>1, SameOwn
<1> QED
  BY <1>2, <1>3, <1>4 DEF Sound

(* The kana of a conversion, and what it leaves pending.                   *)
LEMMA FlushedCount ==
  ASSUME NEW L, NEW e, AtRest(e, L), NEW i,
         NEW kana, kana = IF LoneN(e.buffer) THEN Preedit(e) ELSE e.kana
  PROVE  /\ kana \in Seq(L) /\ Count(kana, i) \in Nat /\ Count(e.buffer, i) \in Nat
         /\ Count(Own(e), i)
              = Count(kana, i) + (IF LoneN(e.buffer) THEN 0 ELSE Count(e.buffer, i))
<1>1. /\ e \in Engines(L) /\ ~Converting(e) /\ Own(e) = Preedit(e)
      /\ e.kana \in Seq(L) /\ e.buffer \in Seq(L) /\ Preedit(e) \in Seq(L)
  BY RestFields
<1>2. kana \in Seq(L)
  BY <1>1
<1>3. Count(kana, i) \in Nat /\ Count(e.buffer, i) \in Nat
  BY <1>1, <1>2, CountNat
<1>4. Count(Own(e), i) = Count(e.kana, i) + Count(e.buffer, i)
  BY <1>1, RestCredit
<1> QED
  BY <1>1, <1>2, <1>3, <1>4

LEMMA StartConversionFine ==
  ASSUME NEW L \in SUBSET Nat, NEW e, AtRest(e, L), NEW n, n \in StartConversion(e)
  PROVE  /\ Sound(n, L) /\ Converting(n) /\ Balance(e, n, <<>>, {}, L)
         /\ n.generation = e.generation + 1
         /\ n.gone = e.gone /\ n.strayed = e.strayed
<1>1. /\ e \in Engines(L) /\ ~Converting(e) /\ e.kana \in Seq(L) /\ e.buffer \in Seq(L)
  BY RestFields
<1>2. PICK pending, kana, raw, conversion :
        /\ e.kana # <<>> \/ LoneN(e.buffer)
        /\ pending = IF LoneN(e.buffer) THEN <<>> ELSE e.buffer
        /\ kana = IF LoneN(e.buffer) THEN Preedit(e) ELSE e.kana
        /\ raw \in {"none", "known"} /\ (raw = "known" => Spelt(e))
        /\ conversion = [pending |-> pending, fkey |-> FALSE, raw |-> raw,
                         keeps |-> ~(raw = "known" /\ pending # <<>>)]
        /\ n = Trigger(Converted(e, conversion))
  BY DEF StartConversion
<1>3. pending \in Seq(L) /\ kana \in Seq(L)
  BY <1>1, <1>2, EngineFields
<1>4. conversion \in Conversions(L)
  BY <1>2, <1>3 DEF Conversions
<1>5. PICK c : c = Converted(e, conversion)
  OBVIOUS
<1>6. /\ c \in Engines(L) /\ c.generation = e.generation /\ Converting(c)
      /\ c.kana = kana /\ c.buffer = <<>> /\ c.raw = e.raw
      /\ c.conversion = conversion /\ c.gone = e.gone
      /\ c.ghosts = e.ghosts /\ c.strayed = e.strayed
  <2>1. e \in Engines(L) /\ conversion \in Conversions(L)
    BY <1>1, <1>4
  <2>2. /\ c \in Engines(L) /\ c.generation = e.generation /\ Converting(c)
        /\ c.kana = (IF LoneN(e.buffer) THEN Preedit(e) ELSE e.kana)
        /\ c.buffer = <<>> /\ c.raw = e.raw
        /\ c.conversion = conversion /\ c.gone = e.gone
        /\ c.ghosts = e.ghosts /\ c.strayed = e.strayed
    BY <1>5, <2>1, ConvertedFields
  <2> QED
    BY <1>2, <2>2
<1>7. /\ n \in Engines(L) /\ n.generation = e.generation + 1 /\ Converting(n)
      /\ n.kana = kana /\ n.buffer = <<>> /\ n.raw = e.raw
      /\ n.conversion = conversion /\ n.gone = e.gone
      /\ n.ghosts = e.ghosts /\ n.strayed = e.strayed
  BY <1>2, <1>5, <1>6, TriggerFields DEF Converting
<1>8. ASSUME NEW i \in L
      PROVE  Count(Own(n), i) = Count(Own(e), i)
  <2>1. ~Doubled(n)
    BY <1>2, <1>7 DEF Doubled
  <2>2. Count(Own(n), i) = Count(kana, i) + Count(pending, i)
    BY <1>2, <1>7, <2>1, ConversionCredit
  <2>3. /\ Count(kana, i) \in Nat /\ Count(e.buffer, i) \in Nat
        /\ Count(Own(e), i)
             = Count(kana, i) + (IF LoneN(e.buffer) THEN 0 ELSE Count(e.buffer, i))
    BY <1>2, FlushedCount
  <2>4. Count(<<>>, i) = 0
    BY CountEmpty
  <2>5. Count(pending, i) = IF LoneN(e.buffer) THEN 0 ELSE Count(e.buffer, i)
    BY <1>2, <2>4
  <2> QED
    BY <2>2, <2>3, <2>5
<1>9. Reading(n) # <<>>
  <2>1. kana # <<>>
    <3>1. CASE LoneN(e.buffer)
      <4>1. e.buffer # <<>>
        BY <3>1 DEF LoneN
      <4>2. Preedit(e) # <<>>
        BY <1>1, <4>1, ConcatProperties DEF Preedit
      <4> QED
        BY <1>2, <3>1, <4>2
    <3>2. CASE ~LoneN(e.buffer)
      BY <1>2, <3>2
    <3> QED
      BY <3>1, <3>2
  <2> QED
    BY <1>2, <1>7, <2>1 DEF Reading
<1>10. ASSUME n.conversion.raw # "none"
       PROVE  Spelt(n) /\ PutBack(n) = <<>>
  <2>1. /\ raw = "known" /\ n.conversion.pending = pending /\ n.raw = e.raw
        /\ n.conversion.keeps = ~(raw = "known" /\ pending # <<>>)
    BY <1>2, <1>7, <1>10
  <2>2. Spelt(n)
    BY <1>2, <2>1 DEF Spelt
  <2>3. PutBack(n) = <<>>
    BY <2>1 DEF PutBack
  <2> QED
    BY <2>2, <2>3
<1>11. n.conversion.fkey => ~n.conversion.keeps
  BY <1>2, <1>7
<1>12. Sound(n, L) /\ Balance(e, n, <<>>, {}, L)
  BY <1>7, <1>8, <1>9, <1>10, <1>11, StartedFine
<1> QED
  BY <1>7, <1>12

LEMMA StartKanaConversionFine ==
  ASSUME NEW L \in SUBSET Nat, NEW e, AtRest(e, L), NEW n, n \in StartKanaConversion(e)
  PROVE  /\ Sound(n, L) /\ Converting(n) /\ Balance(e, n, <<>>, {}, L)
         /\ n.generation = e.generation
         /\ n.gone = e.gone /\ n.strayed = e.strayed
<1>1. /\ e \in Engines(L) /\ ~Converting(e) /\ e.kana \in Seq(L) /\ e.buffer \in Seq(L)
      /\ Preedit(e) \in Seq(L)
  BY RestFields
<1>2. PICK kana, raw, conversion :
        /\ Preedit(e) # <<>>
        /\ kana = IF LoneN(e.buffer) THEN Preedit(e) ELSE e.kana
        /\ raw \in {"none", "listed", "shown"} /\ (raw # "none" => Spelt(e))
        /\ conversion = [pending |-> e.buffer, fkey |-> TRUE, raw |-> raw,
                         keeps |-> FALSE]
        /\ n = Converted(e, conversion)
  BY DEF StartKanaConversion
<1>3. kana \in Seq(L)
  BY <1>1, <1>2
<1>4. conversion \in Conversions(L)
  BY <1>1, <1>2 DEF Conversions
<1>5. /\ n \in Engines(L) /\ n.generation = e.generation /\ Converting(n)
      /\ n.kana = kana /\ n.buffer = <<>> /\ n.raw = e.raw
      /\ n.conversion = conversion /\ n.gone = e.gone
      /\ n.ghosts = e.ghosts /\ n.strayed = e.strayed
  BY <1>1, <1>2, <1>4, ConvertedFields
<1>6. ASSUME NEW i \in L
      PROVE  Count(Own(n), i) = Count(Own(e), i)
  <2>1. Doubled(n) <=> LoneN(e.buffer)
    BY <1>2, <1>5 DEF Doubled
  <2>2. Count(Own(n), i) = Count(kana, i)
              + (IF Doubled(n) THEN 0 ELSE Count(e.buffer, i))
    BY <1>2, <1>5, ConversionCredit
  <2>3. Count(Own(e), i)
             = Count(kana, i) + (IF LoneN(e.buffer) THEN 0 ELSE Count(e.buffer, i))
    BY <1>2, FlushedCount
  <2> QED
    BY <2>1, <2>2, <2>3
<1>7. Reading(n) # <<>>
  <2>1. Reading(n) = kana \o e.buffer
    <3>1. /\ n.kana = kana /\ n.conversion.fkey = TRUE
          /\ n.conversion.pending = e.buffer
      BY <1>2, <1>5
    <3> QED
      BY <3>1 DEF Reading
  <2>2. CASE LoneN(e.buffer)
    BY <1>1, <1>2, <1>3, <2>1, <2>2, ConcatProperties
  <2>3. CASE ~LoneN(e.buffer)
    BY <1>2, <2>1, <2>3 DEF Preedit
  <2> QED
    BY <2>2, <2>3
<1>8. n.conversion.raw # "none" => Spelt(n) /\ PutBack(n) = <<>>
  BY <1>2, <1>5 DEF Spelt, PutBack
<1>9. n.conversion.fkey => ~n.conversion.keeps
  BY <1>2, <1>5
<1>10. Sound(n, L) /\ Balance(e, n, <<>>, {}, L)
  BY <1>5, <1>6, <1>7, <1>8, <1>9, StartedFine
<1> QED
  BY <1>5, <1>10

(* An edit keeps the conversion, what was typed and what is pending.       *)
Kept(e, n) ==
  /\ e.generation <= n.generation
  /\ Converting(e) <=> Converting(n)
  /\ n.kana = e.kana /\ n.buffer = e.buffer /\ n.raw = e.raw
  /\ n.gone = e.gone /\ n.ghosts = e.ghosts /\ n.strayed = e.strayed
  /\ Converting(e) => /\ n.conversion.pending = e.conversion.pending
                      /\ n.conversion.keeps = e.conversion.keeps
                      /\ n.conversion.fkey = e.conversion.fkey
                      /\ e.conversion.raw = "none" => n.conversion.raw = "none"

LEMMA KeptFine ==
  ASSUME NEW L, NEW e, Sound(e, L), NEW n \in Engines(L), Kept(e, n)
  PROVE  Sound(n, L) /\ Balance(e, n, <<>>, {}, L)
<1>1. e \in Engines(L) /\ RawSound(e, L) /\ ConversionSound(e)
  BY DEF Sound
<1>2. Own(n) = Own(e) /\ (Converting(n) => Reading(n) = Reading(e) /\ PutBack(n) = PutBack(e))
  BY DEF Kept, Own, Preedit, Doubled, Reading, PutBack
<1>3. RawSound(n, L)
  BY <1>1, <1>2 DEF Kept, RawSound
<1>4. ConversionSound(n)
  BY <1>1, <1>2 DEF Kept, ConversionSound, Spelt
<1>5. Balance(e, n, <<>>, {}, L)
  BY <1>1, <1>2, SameOwn DEF Kept
<1> QED
  BY <1>3, <1>4, <1>5 DEF Sound

LEMMA EditFine ==
  ASSUME NEW L \in SUBSET Nat, NEW e, Sound(e, L), NEW key, NEW n,
         n \in Edit(e, key) \/ n \in Resize(e)
  PROVE  Kept(e, n) /\ Sound(n, L) /\ Balance(e, n, <<>>, {}, L)
<1>1. e \in Engines(L) /\ e.generation \in Nat
  BY EngineFields DEF Sound
<1>2. CASE n = e
  BY <1>1, <1>2, KeptFine DEF Kept
<1>3. CASE n # e
  <2>1. PICK raw, c :
          /\ Converting(e) /\ c = [e EXCEPT !.conversion.raw = raw]
          /\ n = Changed(c) \/ n = Trigger(Changed(c))
          /\ raw \in Forms(e.conversion.raw, key) \/ raw = "none"
    BY <1>3 DEF Edit, Resize
  <2>2. e.conversion.raw \in {"none", "known", "listed", "shown"}
    BY <1>1, <2>1, ConversionFields
  <2>3. /\ raw \in {"none", "known", "listed", "shown"}
        /\ e.conversion.raw = "none" => raw = "none"
    BY <2>1, <2>2 DEF Forms
  <2>4. /\ c \in Engines(L)
        /\ c.kana = e.kana /\ c.buffer = e.buffer /\ c.raw = e.raw
        /\ c.gone = e.gone /\ c.ghosts = e.ghosts /\ c.strayed = e.strayed
        /\ c.generation = e.generation
        /\ c.conversion \in Conversions(L)
        /\ c.conversion.pending = e.conversion.pending
        /\ c.conversion.keeps = e.conversion.keeps
        /\ c.conversion.fkey = e.conversion.fkey
        /\ c.conversion.raw = raw
    <3>1. e.conversion \in Conversions(L)
      BY <1>1, <2>1, ConversionFields
    <3>2. PICK conversion : conversion = [e.conversion EXCEPT !.raw = raw]
      OBVIOUS
    <3>3. /\ conversion \in Conversions(L)
          /\ conversion.pending = e.conversion.pending
          /\ conversion.keeps = e.conversion.keeps
          /\ conversion.fkey = e.conversion.fkey
          /\ conversion.raw = raw
      BY <2>3, <3>1, <3>2 DEF Conversions
    <3>4. c = [e EXCEPT !.conversion = conversion]
      BY <1>1, <2>1, <3>2 DEF Engines
    <3> QED
      BY <1>1, <3>3, <3>4 DEF Engines
  <2>5. c.conversion # NoConversion
    BY <2>4, ConversionIsOne
  <2>6. PICK d : d = Changed(c)
    OBVIOUS
  <2>7. /\ d \in Engines(L) /\ d.generation = c.generation
        /\ d.kana = c.kana /\ d.buffer = c.buffer /\ d.raw = c.raw
        /\ d.conversion = c.conversion /\ d.gone = c.gone
        /\ d.ghosts = c.ghosts /\ d.strayed = c.strayed
    <3>1. c \in Engines(L)
      BY <2>4
    <3> QED
      BY <2>6, <3>1, ChangedFields
  <2>8. /\ n \in Engines(L) /\ n.generation \in {d.generation, d.generation + 1}
        /\ n.kana = d.kana /\ n.buffer = d.buffer /\ n.raw = d.raw
        /\ n.conversion = d.conversion /\ n.gone = d.gone
        /\ n.ghosts = d.ghosts /\ n.strayed = d.strayed
    <3>1. d \in Engines(L) /\ (n = d \/ n = Trigger(d))
      BY <2>1, <2>6, <2>7
    <3> QED
      BY <3>1, TriggerFields
  <2>9. Kept(e, n)
    BY <1>1, <2>1, <2>3, <2>4, <2>5, <2>7, <2>8 DEF Kept, Converting
  <2> QED
    BY <2>8, <2>9, KeptFine
<1> QED
  BY <1>2, <1>3

-----------------------------------------------------------------------------
(* The keys                                                                *)

(* A later engine: while the generation is the same, a conversion goes on  *)
(* over the same keystrokes.                                               *)
Later(e, n) ==
  /\ e.generation <= n.generation
  /\ Converting(e) /\ n.generation = e.generation =>
       /\ Converting(n) /\ n.kana = e.kana /\ n.raw = e.raw
       /\ n.conversion.pending = e.conversion.pending
       /\ n.conversion.fkey = e.conversion.fkey

(* The three results of a key, news being the keystroke it adds: nothing   *)
(* changes, a conversion is shown, or a commit or an edit leaves an engine *)
(* at rest.                                                                *)
Unchanged(e, flag, news, r) ==
  news = {} /\ \E consumed \in BOOLEAN : r = Result(e, flag, Ignored(consumed))

Displayed(e, news, r, L) ==
  \E n : \E refresh \in BOOLEAN :
    /\ r = Result(n, TRUE, ShowConversion(refresh)) /\ news = {}
    /\ Sound(n, L) /\ Converting(n) /\ Balance(e, n, <<>>, {}, L) /\ Later(e, n)
    /\ n.gone = e.gone /\ n.strayed = e.strayed

Left(e, key, news, r, L) ==
  \E n, commit : \E display \in {"preedit", "cleared"} :
    /\ r = Result(n, FALSE, Outcome(TRUE, commit, display, FALSE))
    /\ AtRest(n, L) /\ Balance(e, n, commit, news, L) /\ Later(e, n)
    /\ display = "cleared" => Preedit(n) = <<>>
    /\ Spares(e, key, n)

Dispatched(e, flag, key, news, r, L) ==
  \/ Unchanged(e, flag, news, r)
  \/ Displayed(e, news, r, L)
  \/ Left(e, key, news, r, L)

LEMMA GenerationType ==
  ASSUME NEW L, NEW e, Sound(e, L)
  PROVE  e \in Engines(L) /\ e.generation \in Nat
BY EngineFields DEF Sound

LEMMA NextLater ==
  ASSUME NEW L, NEW e, Sound(e, L), NEW n, n.generation = e.generation + 1
  PROVE  Later(e, n)
BY GenerationType DEF Later

LEMMA RestLater ==
  ASSUME NEW L, NEW e, AtRest(e, L), NEW n, n.generation = e.generation
  PROVE  Later(e, n)
BY GenerationType DEF Later, AtRest

LEMMA BalanceTwice ==
  ASSUME NEW L, NEW e \in Engines(L), NEW d \in Engines(L), NEW n \in Engines(L),
         NEW commit, NEW news,
         Balance(e, d, commit, {}, L), Balance(d, n, <<>>, news, L)
  PROVE  Balance(e, n, commit, news, L)
<1>1. commit \in Seq(L) /\ e.strayed \subseteq n.strayed
  BY DEF Balance
<1>2. ASSUME NEW i \in L \ n.strayed
      PROVE  Count(commit, i) + Credit(n, i) = Credit(e, i) + (IF i \in news THEN 1 ELSE 0)
  <2>1. i \in L \ d.strayed
    BY DEF Balance
  <2>2. Count(commit, i) + Credit(d, i) = Credit(e, i) + 0
    BY <2>1 DEF Balance
  <2>3. Count(<<>>, i) + Credit(n, i) = Credit(d, i) + (IF i \in news THEN 1 ELSE 0)
    BY DEF Balance
  <2>4. /\ Count(commit, i) \in Nat /\ Count(<<>>, i) = 0
        /\ Credit(e, i) \in Nat /\ Credit(d, i) \in Nat /\ Credit(n, i) \in Nat
    BY <1>1, CountNat, CountEmpty, OwnType
  <2>5. CASE i \in news
    BY <2>2, <2>3, <2>4, <2>5
  <2>6. CASE i \notin news
    BY <2>2, <2>3, <2>4, <2>6
  <2> QED
    BY <2>5, <2>6
<1> QED
  BY <1>1, <1>2 DEF Balance

LEMMA TypingKeyDispatched ==
  ASSUME NEW L, NEW e, Sound(e, L), NEW flag \in BOOLEAN, flag <=> Converting(e), NEW key,
         NEW k \in L, NEW r, r \in TypingKey(e, flag, key, k)
  PROVE  Left(e, key, {k}, r, L)
<1>1. PICK done : done = CommitConversion(e)
  OBVIOUS
<1>2. /\ AtRest(done.engine, L) /\ Balance(e, done.engine, done.text, {}, L)
      /\ ~Converting(e) => done.engine = e /\ done.text = <<>>
      /\ Converting(e) => done.engine.generation = e.generation + 1
      /\ done.engine.gone = e.gone
      /\ done.engine.strayed \subseteq e.strayed \cup Doubts(e)
  BY <1>1, CommitConversionFine
<1>3. done = IF flag THEN CommitConversion(e) ELSE [text |-> <<>>, engine |-> e]
  BY <1>1 DEF CommitConversion
<1>4. PICK t : /\ \/ t \in ProcessKey(done.engine, k) /\ key = "letter"
                  \/ t = AppendRaw(done.engine, k)
               /\ r = Result(t, FALSE, Outcome(TRUE, done.text, "preedit", FALSE))
  BY <1>3 DEF TypingKey
<1>5. /\ AtRest(t, L) /\ Balance(done.engine, t, <<>>, {k}, L)
      /\ t.generation = done.engine.generation
      /\ t.strayed = done.engine.strayed
      /\ key \notin Deletes => t.gone = done.engine.gone
  BY <1>2, <1>4, ProcessKeyFine, AppendRawFine DEF Deletes
<1>6. e \in Engines(L) /\ done.engine \in Engines(L) /\ t \in Engines(L)
  BY <1>2, <1>5 DEF AtRest, Sound
<1>7. Balance(e, t, done.text, {k}, L)
  BY <1>2, <1>5, <1>6, BalanceTwice
<1>8. Later(e, t)
  BY <1>2, <1>5, NextLater, RestLater DEF AtRest
<1> QED
  BY <1>2, <1>4, <1>5, <1>7, <1>8 DEF Left, Spares

(* What ends a conversion, and a commit without one.                       *)
LEMMA CommitLeft ==
  ASSUME NEW L, NEW e, Sound(e, L), Converting(e), NEW key,
         NEW done, done = CommitConversion(e),
         NEW r, r = Result(done.engine, FALSE, PreeditOrCleared(done.text, done.engine))
  PROVE  Left(e, key, {}, r, L)
<1>1. /\ AtRest(done.engine, L) /\ Balance(e, done.engine, done.text, {}, L)
      /\ done.engine.generation = e.generation + 1
      /\ Spares(e, key, done.engine)
  BY CommitConversionFine DEF Spares
<1>2. Later(e, done.engine)
  BY <1>1, NextLater
<1> QED
  BY <1>1, <1>2 DEF Left, PreeditOrCleared

LEMMA CommitPreeditLeft ==
  ASSUME NEW L, NEW e, AtRest(e, L), NEW key,
         NEW r, r = Result(Commit(e), FALSE, CommitAndClear(Preedit(e)))
  PROVE  Left(e, key, {}, r, L)
<1>1. PICK n : n = Commit(e)
  OBVIOUS
<1>2. /\ AtRest(n, L) /\ Balance(e, n, Preedit(e), {}, L)
      /\ n.generation = e.generation /\ Preedit(n) = <<>>
      /\ Spares(e, key, n)
  BY <1>1, CommitFine DEF Spares
<1>3. Later(e, n)
  BY <1>2, RestLater
<1> QED
  BY <1>1, <1>2, <1>3 DEF Left, CommitAndClear

LEMMA TabKeyDispatched ==
  ASSUME NEW L, NEW e, Sound(e, L), NEW flag \in BOOLEAN, flag <=> Converting(e),
         NEW r, r \in TabKey(e, flag)
  PROVE  Dispatched(e, flag, "tab", {}, r, L)
<1>1. CASE flag
  <2>1. PICK done : done = CommitConversion(e)
    OBVIOUS
  <2>2. done.text # <<>>
    BY <1>1, <2>1, CommitConversionFine
  <2>3. r = Result(done.engine, FALSE, PreeditOrCleared(done.text, done.engine))
    BY <1>1, <2>1, <2>2 DEF TabKey
  <2> QED
    BY <1>1, <2>1, <2>3, CommitLeft DEF Dispatched
<1>2. CASE ~flag /\ Preedit(e) = <<>>
  BY <1>2 DEF TabKey, Dispatched, Unchanged
<1>3. CASE ~flag /\ Preedit(e) # <<>>
  <2>1. r = Result(Commit(e), FALSE, CommitAndClear(Preedit(e)))
    BY <1>3 DEF TabKey
  <2> QED
    BY <1>3, <2>1, CommitPreeditLeft DEF Dispatched, AtRest
<1> QED
  BY <1>1, <1>2, <1>3

LEMMA EditShown ==
  ASSUME NEW L \in SUBSET Nat, NEW e, Sound(e, L), Converting(e), NEW key,
         NEW n, n \in Edit(e, key) \/ n \in Resize(e),
         NEW refresh \in BOOLEAN, NEW r, r = Result(n, TRUE, ShowConversion(refresh))
  PROVE  Displayed(e, {}, r, L)
<1>1. Kept(e, n) /\ Sound(n, L) /\ Balance(e, n, <<>>, {}, L)
  BY EditFine
<1>2. /\ Converting(n) /\ Later(e, n)
      /\ n.gone = e.gone /\ n.strayed = e.strayed
  BY <1>1 DEF Kept, Later
<1> QED
  BY <1>1, <1>2 DEF Displayed

LEMMA KanaFormKeyDispatched ==
  ASSUME NEW L \in SUBSET Nat, NEW e, Sound(e, L), NEW flag \in BOOLEAN, flag <=> Converting(e),
         NEW r, r \in KanaFormKey(e, flag)
  PROVE  Dispatched(e, flag, "fkey", {}, r, L)
<1>1. CASE flag
  <2>1. PICK n \in Edit(e, "fkey") : r = Result(n, TRUE, ShowConversion(FALSE))
    BY <1>1 DEF KanaFormKey
  <2> QED
    BY <1>1, <2>1, EditShown DEF Dispatched
<1>2. CASE ~flag /\ Preedit(e) = <<>>
  BY <1>2 DEF KanaFormKey, Dispatched, Unchanged
<1>3. CASE ~flag /\ Preedit(e) # <<>>
  <2>1. PICK n \in StartKanaConversion(e) : r = Result(n, TRUE, ShowConversion(FALSE))
    BY <1>3 DEF KanaFormKey
  <2>2. AtRest(e, L)
    BY <1>3 DEF AtRest
  <2>3. /\ Sound(n, L) /\ Converting(n) /\ Balance(e, n, <<>>, {}, L)
        /\ n.generation = e.generation
        /\ n.gone = e.gone /\ n.strayed = e.strayed
    BY <2>2, StartKanaConversionFine
  <2>4. Later(e, n)
    BY <2>2, <2>3, RestLater
  <2> QED
    BY <2>1, <2>3, <2>4 DEF Dispatched, Displayed
<1> QED
  BY <1>1, <1>2, <1>3

LEMMA ConversionKeyDispatched ==
  ASSUME NEW L \in SUBSET Nat, NEW e, Sound(e, L), Converting(e), NEW key,
         NEW r, r \in ConversionKey(e, key)
  PROVE  Dispatched(e, TRUE, key, {}, r, L)
<1>1. CASE \E n : \E refresh \in BOOLEAN :
             /\ n \in Edit(e, key) \/ n \in Resize(e)
             /\ r = Result(n, TRUE, ShowConversion(refresh))
  BY <1>1, EditShown DEF Dispatched
<1>2. CASE key = "enter"
  <2>1. PICK done : done = CommitConversion(e)
    OBVIOUS
  <2>2. r = Result(done.engine, FALSE, PreeditOrCleared(done.text, done.engine))
    BY <1>2, <2>1 DEF ConversionKey
  <2> QED
    BY <2>1, <2>2, CommitLeft DEF Dispatched
<1>3. CASE key \in {"escape", "backspace"}
  <2>1. PICK n : n = CancelConversion(e)
    OBVIOUS
  <2>2. r = Result(n, FALSE, PreeditOrCleared(<<>>, n))
    BY <1>3, <2>1 DEF ConversionKey
  <2>3. /\ AtRest(n, L) /\ Balance(e, n, <<>>, {}, L)
        /\ n.generation = e.generation + 1
        /\ Spares(e, key, n)
    BY <2>1, CancelFine DEF Spares, Deletes
  <2>4. Later(e, n)
    BY <2>3, NextLater
  <2> QED
    BY <2>2, <2>3, <2>4 DEF Dispatched, Left, PreeditOrCleared
<1>4. CASE r = Result(e, TRUE, Ignored(TRUE))
  BY <1>4 DEF Dispatched, Unchanged
<1> QED
  BY <1>1, <1>2, <1>3, <1>4 DEF ConversionKey

LEMMA PreeditKeyDispatched ==
  ASSUME NEW L \in SUBSET Nat, NEW e, AtRest(e, L), NEW key,
         NEW r, r \in PreeditKey(e, key)
  PROVE  Dispatched(e, FALSE, key, {}, r, L)
<1>1. CASE \E consumed \in BOOLEAN : r = Result(e, FALSE, Ignored(consumed))
  BY <1>1 DEF Dispatched, Unchanged
<1>2. CASE \E n \in StartConversion(e) : r = Result(n, TRUE, ShowConversion(TRUE))
  <2>1. PICK n \in StartConversion(e) : r = Result(n, TRUE, ShowConversion(TRUE))
    BY <1>2
  <2>2. /\ Sound(n, L) /\ Converting(n) /\ Balance(e, n, <<>>, {}, L)
        /\ n.generation = e.generation + 1
        /\ n.gone = e.gone /\ n.strayed = e.strayed
    BY StartConversionFine
  <2>3. Later(e, n)
    BY <2>2, NextLater DEF AtRest
  <2> QED
    BY <2>1, <2>2, <2>3 DEF Dispatched, Displayed
<1>3. CASE r = Result(Commit(e), FALSE, CommitAndClear(Preedit(e)))
  BY <1>3, CommitPreeditLeft DEF Dispatched
<1>4. CASE key = "escape" /\ r = Result(Cancelled(e), FALSE, CommitAndClear(<<>>))
  <2>1. PICK n : n = Cancelled(e)
    OBVIOUS
  <2>2. e \in Engines(L)
    BY RestFields
  <2>3. /\ AtRest(n, L) /\ Preedit(n) = <<>> /\ Balance(e, n, <<>>, {}, L)
        /\ n.generation = e.generation + 1
        /\ Spares(e, key, n)
    BY <1>4, <2>1, <2>2, CancelledFine DEF Spares, Deletes
  <2>4. Later(e, n)
    BY <2>3, NextLater DEF AtRest
  <2> QED
    BY <1>4, <2>1, <2>3, <2>4 DEF Dispatched, Left, CommitAndClear
<1>5. CASE /\ key = "backspace"
           /\ \E n \in DeleteLast(e) : r = Result(n, FALSE, PreeditOrCleared(<<>>, n))
  <2>1. PICK n \in DeleteLast(e) : r = Result(n, FALSE, PreeditOrCleared(<<>>, n))
    BY <1>5
  <2>2. /\ AtRest(n, L) /\ Balance(e, n, <<>>, {}, L)
        /\ n.generation = e.generation
        /\ Spares(e, key, n)
    BY <1>5, DeleteLastFine DEF Spares, Deletes
  <2>3. Later(e, n)
    BY <2>2, RestLater
  <2> QED
    BY <2>1, <2>2, <2>3 DEF Dispatched, Left, PreeditOrCleared
<1> QED
  BY <1>1, <1>2, <1>3, <1>4, <1>5 DEF PreeditKey, SpaceKey

LEMMA KeyDispatched ==
  ASSUME NEW L \in SUBSET Nat, NEW e, Sound(e, L), NEW flag \in BOOLEAN, flag <=> Converting(e),
         NEW key, NEW k, key \in TypingKinds => k \in L,
         NEW r, r \in DispatchKey(e, flag, key, k)
  PROVE  Dispatched(e, flag, key, IF key \in TypingKinds THEN {k} ELSE {}, r, L)
<1>1. CASE key = "shortcut"
  BY <1>1 DEF DispatchKey, TypingKinds, Dispatched, Unchanged
<1>2. CASE key \in TypingKinds
  <2>1. r \in TypingKey(e, flag, key, k)
    BY <1>2 DEF DispatchKey, TypingKinds
  <2> QED
    BY <1>2, <2>1, TypingKeyDispatched DEF Dispatched
<1>3. CASE key = "tab"
  <2>1. r \in TabKey(e, flag) /\ key \notin TypingKinds
    BY <1>3 DEF DispatchKey, TypingKinds
  <2> QED
    BY <1>3, <2>1, TabKeyDispatched
<1>4. CASE key = "fkey"
  <2>1. r \in KanaFormKey(e, flag) /\ key \notin TypingKinds
    BY <1>4 DEF DispatchKey, TypingKinds
  <2> QED
    BY <1>4, <2>1, KanaFormKeyDispatched
<1>5. CASE key \notin TypingKinds \cup {"shortcut", "tab", "fkey"}
  <2>1. CASE flag
    <3>1. r \in ConversionKey(e, key)
      BY <1>5, <2>1 DEF DispatchKey
    <3> QED
      BY <1>5, <2>1, <3>1, ConversionKeyDispatched
  <2>2. CASE ~flag
    <3>1. r \in PreeditKey(e, key) /\ AtRest(e, L)
      BY <1>5, <2>2 DEF DispatchKey, AtRest
    <3> QED
      BY <1>5, <2>2, <3>1, PreeditKeyDispatched
  <2> QED
    BY <2>1, <2>2
<1> QED
  BY <1>1, <1>2, <1>3, <1>4, <1>5

-----------------------------------------------------------------------------
(* What the frontends rely on                                              *)

LEMMA SameBalance ==
  ASSUME NEW L, NEW e, Sound(e, L)
  PROVE  Balance(e, e, <<>>, {}, L) /\ Later(e, e)
<1>1. e \in Engines(L) /\ e.generation \in Nat
  BY GenerationType
<1> QED
  BY <1>1, SameOwn DEF Later

(* Every key keeps the flag and the engine together and the keystrokes in  *)
(* balance: each is committed, still held or deleted as often as before,   *)
(* the typed one once more.  Only a letter that discards others, Escape    *)
(* and Backspace delete, and only the doubts of a conversion go astray.    *)
THEOREM DispatchFine ==
  ASSUME NEW L \in SUBSET Nat, NEW e, Sound(e, L), NEW flag \in BOOLEAN, flag <=> Converting(e),
         NEW key, NEW k, key \in TypingKinds => k \in L,
         NEW r, r \in DispatchKey(e, flag, key, k)
  PROVE  /\ Fine(e, IF key \in TypingKinds THEN {k} ELSE {}, r, L)
         /\ Spares(e, key, r.engine)
<1>1. PICK news : /\ news = IF key \in TypingKinds THEN {k} ELSE {}
                  /\ Dispatched(e, flag, key, news, r, L)
  BY KeyDispatched
<1>2. CASE Unchanged(e, flag, news, r)
  <2>1. Balance(e, e, <<>>, {}, L)
    BY SameBalance
  <2> QED
    BY <1>1, <1>2, <2>1 DEF Unchanged, Fine, Spares, Result, Ignored, Outcome
<1>3. CASE Displayed(e, news, r, L)
  <2>1. /\ Sound(r.engine, L) /\ Converting(r.engine)
        /\ Balance(e, r.engine, <<>>, news, L)
        /\ r.flag = TRUE /\ r.outcome.consumed = TRUE /\ r.outcome.commit = <<>>
        /\ r.engine.gone = e.gone /\ r.engine.strayed = e.strayed
    BY <1>3 DEF Displayed, Result, ShowConversion, Outcome
  <2> QED
    BY <1>1, <2>1 DEF Fine, Spares
<1>4. CASE Left(e, key, news, r, L)
  <2>1. /\ AtRest(r.engine, L) /\ Balance(e, r.engine, r.outcome.commit, news, L)
        /\ r.flag = FALSE /\ r.outcome.consumed = TRUE
        /\ Spares(e, key, r.engine)
    BY <1>4 DEF Left, Result, Outcome
  <2> QED
    BY <1>1, <2>1 DEF Fine, AtRest
<1> QED
  BY <1>1, <1>2, <1>3, <1>4 DEF Dispatched

(* What a key r tells a frontend to show: nothing new of an engine it has  *)
(* not changed, or what there is in the engine it leaves.                  *)
Tells(e, r) ==
  \/ /\ r.engine = e /\ r.outcome.display = "unchanged"
     /\ r.outcome.commit = <<>> /\ r.outcome.refresh = FALSE
  \/ /\ Converting(r.engine) /\ r.outcome.display = "conversion"
     /\ r.outcome.commit = <<>> /\ r.outcome.refresh \in BOOLEAN
  \/ /\ ~Converting(r.engine) /\ r.outcome.refresh = FALSE
     /\ \/ r.outcome.display = "preedit"
        \/ r.outcome.display = "cleared" /\ Preedit(r.engine) = <<>>

(* What every key tells its frontend to show is what the engine has.       *)
THEOREM DispatchTells ==
  ASSUME NEW L \in SUBSET Nat, NEW e, Sound(e, L), NEW flag \in BOOLEAN, flag <=> Converting(e),
         NEW key, NEW k, key \in TypingKinds => k \in L,
         NEW r, r \in DispatchKey(e, flag, key, k)
  PROVE  Tells(e, r)
<1>1. PICK news : Dispatched(e, flag, key, news, r, L)
  BY KeyDispatched
<1>2. CASE Unchanged(e, flag, news, r)
  BY <1>2 DEF Unchanged, Tells, Result, Ignored, Outcome
<1>3. CASE Displayed(e, news, r, L)
  BY <1>3 DEF Displayed, Tells, Result, ShowConversion, Outcome
<1>4. CASE Left(e, key, news, r, L)
  BY <1>4 DEF Left, Tells, Result, Outcome, AtRest
<1> QED
  BY <1>1, <1>2, <1>3, <1>4 DEF Dispatched

(* No key goes back to an earlier generation, and none changes the         *)
(* keystrokes of a conversion or ends it without opening a new one.        *)
THEOREM DispatchLater ==
  ASSUME NEW L \in SUBSET Nat, NEW e, Sound(e, L), NEW flag \in BOOLEAN, flag <=> Converting(e),
         NEW key, NEW k, key \in TypingKinds => k \in L,
         NEW r, r \in DispatchKey(e, flag, key, k)
  PROVE  Later(e, r.engine)
<1>1. PICK news : Dispatched(e, flag, key, news, r, L)
  BY KeyDispatched
<1>2. CASE Unchanged(e, flag, news, r)
  BY <1>2, SameBalance DEF Unchanged, Result
<1>3. CASE Displayed(e, news, r, L)
  BY <1>3 DEF Displayed, Result
<1>4. CASE Left(e, key, news, r, L)
  BY <1>4 DEF Left, Result
<1> QED
  BY <1>1, <1>2, <1>3, <1>4 DEF Dispatched

(* A step that leaves the texts alone.                                     *)
LEMMA Untouched ==
  ASSUME NEW L, NEW e, Sound(e, L), NEW n \in Engines(L), n.generation = e.generation,
         n.kana = e.kana, n.buffer = e.buffer, n.raw = e.raw,
         n.conversion = e.conversion, n.gone = e.gone, n.ghosts = e.ghosts,
         n.strayed = e.strayed
  PROVE  /\ Sound(n, L) /\ (Converting(n) <=> Converting(e))
         /\ Balance(e, n, <<>>, {}, L) /\ Later(e, n) /\ Later(n, e)
         /\ Own(n) = Own(e) /\ Remains(n) = Remains(e) /\ InDoubt(n) = InDoubt(e)
         /\ Display(n).text = Display(e).text
<1>1. e.generation \in Nat
  BY GenerationType
<1>2. Converting(n) <=> Converting(e)
  BY DEF Converting
<1>3. Kept(e, n) /\ Later(e, n) /\ Later(n, e)
  BY <1>1, <1>2 DEF Kept, Later
<1>4. /\ Preedit(n) = Preedit(e) /\ (Doubled(n) <=> Doubled(e))
      /\ Text(n) = Text(e) /\ PutBack(n) = PutBack(e)
  BY DEF Preedit, Doubled, Text, Reading, PutBack
<1>5. /\ Own(n) = Own(e) /\ Remains(n) = Remains(e) /\ InDoubt(n) = InDoubt(e)
      /\ Display(n).text = Display(e).text
  BY <1>2, <1>4 DEF Own, Remains, InDoubt, Display
<1> QED
  BY <1>2, <1>3, <1>5, KeptFine

LEMMA NewEngineFine ==
  ASSUME NEW L, NEW e, e = NewEngine(L)
  PROVE  /\ AtRest(e, L) /\ e \in Engines(L) /\ Preedit(e) = <<>>
         /\ e.stamp = 0 /\ e.generation = 0 /\ e.pass = "none"
         /\ \A i \in L : Credit(e, i) = 0
<1>1. <<>> \in Seq(L) /\ [i \in L |-> 0] \in [L -> Nat]
  OBVIOUS
<1>2. e \in Engines(L)
  BY <1>1 DEF NewEngine, Engines
<1>3. /\ e.kana = <<>> /\ e.buffer = <<>> /\ e.raw = <<>> /\ e.conversion = NoConversion
      /\ e.stamp = 0 /\ e.generation = 0 /\ e.pass = "none"
      /\ \A i \in L : e.gone[i] = 0
  BY DEF NewEngine
<1>4. AtRest(e, L) /\ Preedit(e) = <<>> /\ Own(e) = <<>>
  BY <1>2, <1>3, FreshRest
<1>5. \A i \in L : Credit(e, i) = 0
  BY <1>3, <1>4, CountEmpty DEF Credit
<1> QED
  BY <1>2, <1>3, <1>4, <1>5

(* What is neither astray nor in doubt is sent or left by a commit just as *)
(* often as it is held.                                                    *)
LEMMA RemainsOwn ==
  ASSUME NEW L, NEW e, Sound(e, L), NEW i \in L \ InDoubt(e)
  PROVE  Count(Remains(e), i) + e.gone[i] = Credit(e, i)
<1>1. CASE ~Converting(e)
  BY <1>1 DEF Remains, Own, Credit
<1>2. CASE Converting(e)
  <2>1. e \in Engines(L) /\ Text(e) \in Seq(L)
    BY <1>2, TextFields
  <2>2. PutBack(e) \in Seq(L)
    BY <1>2, <2>1, ConversionFields
  <2>3. Count(Text(e) \o PutBack(e), i) = Count(Text(e), i) + Count(PutBack(e), i)
    <3>1. PICK u \in Seq(L), v \in Seq(L) : u = Text(e) /\ v = PutBack(e)
      BY <2>1, <2>2
    <3>2. Count(u \o v, i) = Count(u, i) + Count(v, i)
      BY CountConcat
    <3> QED
      BY <3>1, <3>2
  <2>4. Count(Text(e), i) + Count(PutBack(e), i) = Count(Own(e), i)
    BY <1>2, RemainsCount
  <2> QED
    BY <1>2, <2>3, <2>4 DEF Remains, Credit
<1> QED
  BY <1>1, <1>2

LEMMA RemainsType ==
  ASSUME NEW L, NEW e, Sound(e, L)
  PROVE  Remains(e) \in Seq(L)
<1>1. e \in Engines(L)
  BY DEF Sound
<1>2. CASE Converting(e)
  <2>1. Text(e) \in Seq(L)
    BY <1>2, TextFields
  <2>2. PutBack(e) \in Seq(L)
    BY <1>1, <1>2, ConversionFields
  <2>3. Text(e) \o PutBack(e) \in Seq(L)
    BY <2>1, <2>2, ConcatProperties
  <2> QED
    BY <1>2, <2>3 DEF Remains
<1>3. CASE ~Converting(e)
  BY <1>1, <1>3, EngineFields DEF Remains
<1> QED
  BY <1>2, <1>3

LEMMA DisplayType ==
  ASSUME NEW L, NEW e, Sound(e, L)
  PROVE  Display(e) \in [text : Seq(L), stamp : Nat]
<1>1. e \in Engines(L)
  BY GenerationType
<1>2. CASE Converting(e)
  <2>1. Display(e) = [text |-> Text(e), stamp |-> e.stamp]
    BY <1>2 DEF Display
  <2> QED
    BY <1>1, <1>2, <2>1, TextFields, EngineFields
<1>3. CASE ~Converting(e)
  <2>1. Display(e) = [text |-> Preedit(e), stamp |-> 0]
    BY <1>3 DEF Display
  <2> QED
    BY <1>1, <2>1, EngineFields
<1> QED
  BY <1>2, <1>3
=============================================================================
