-------------------------- MODULE ConversionProofs --------------------------
(***************************************************************************)
(* Proofs about Conversion: its type invariant, every safety invariant and *)
(* every action property that TLC checks of it, for all constants.         *)
(*                                                                         *)
(* CInv is the inductive invariant: the segments tile the kana, their      *)
(* candidates spell them, a choice of the user stands, and the keystrokes  *)
(* of the preedit are accounted for (Source).  FlattenSeq and SubSeq are   *)
(* reasoned about by induction over the naturals, stated for sets.         *)
(***************************************************************************)
EXTENDS Conversion, WellFoundedInduction, SequenceTheorems, FiniteSetTheorems, TLAPS

LEMMA NatMin ==
  ASSUME NEW T \in SUBSET Nat, T # {}
  PROVE  \E x \in T : \A y \in T : x <= y
<1>1. PICK R : R = {ss \in Nat \X Nat : ss[1] < ss[2]}
  OBVIOUS
<1>2. IsWellFoundedOn(R, Nat)
  BY <1>1, NatLessThanWellFounded DEF OpToRel
<1>3. PICK x \in T : \A y \in T : ~ (<<y, x>> \in R)
  BY <1>2, WFMin
<1>4. ASSUME NEW y \in T PROVE x <= y
  <2>1. x \in Nat /\ y \in Nat
    OBVIOUS
  <2>2. <<y, x>> \in Nat \X Nat /\ <<y, x>>[1] = y /\ <<y, x>>[2] = x
    BY <2>1
  <2>3. ~(y < x)
    BY <1>1, <1>3, <2>2
  <2> QED
    BY <2>1, <2>3
<1> QED
  BY <1>4

(* f accumulates the concatenation of ss up to n.                          *)
Accumulates(f, ss, n) ==
  f = [i \in 1 .. n |-> IF i = 1 THEN ss[i] ELSE f[i - 1] \o ss[i]]

LEMMA AccExists ==
  ASSUME NEW ss, Len(ss) \in Nat
  PROVE  \E f : Accumulates(f, ss, Len(ss))
<1> DEFINE T == {n \in Nat : ~ \E f : Accumulates(f, ss, n)}
<1>1. T = {}
  <2> SUFFICES ASSUME T # {} PROVE FALSE
    OBVIOUS
  <2>1. PICK n \in T : \A m \in T : n <= m
    BY NatMin
  <2>2. n \in Nat /\ ~ \E f : Accumulates(f, ss, n)
    OBVIOUS
  <2>3. CASE n = 0
    <3>1. PICK f : f = [i \in 1 .. 0 |-> ss[i]]
      OBVIOUS
    <3>2. f = [i \in 1 .. 0 |-> IF i = 1 THEN ss[i] ELSE f[i - 1] \o ss[i]]
      BY <3>1
    <3> QED
      BY <2>2, <2>3, <3>2 DEF Accumulates
  <2>4. CASE n # 0
    <3>1. n - 1 \in Nat /\ n - 1 \notin T
      BY <2>1, <2>2, <2>4
    <3>2. PICK g : Accumulates(g, ss, n - 1)
      BY <3>1
    <3>3. PICK f : f = [i \in 1 .. n |-> IF i = n THEN IF n = 1 THEN ss[n] ELSE g[n - 1] \o ss[n]
                                         ELSE g[i]]
      OBVIOUS
    <3>4. ASSUME NEW i \in 1 .. n
          PROVE  f[i] = IF i = 1 THEN ss[i] ELSE f[i - 1] \o ss[i]
      <4>1. CASE i = n
        BY <2>2, <2>4, <3>3, <4>1
      <4>2. CASE i # n
        <5>1. i \in 1 .. n - 1 /\ f[i] = g[i]
          BY <2>2, <3>3, <4>2
        <5>2. g[i] = IF i = 1 THEN ss[i] ELSE g[i - 1] \o ss[i]
          BY <3>2, <5>1 DEF Accumulates
        <5>3. i # 1 => f[i - 1] = g[i - 1]
          BY <2>2, <3>3, <4>2
        <5> QED
          BY <5>1, <5>2, <5>3
      <4> QED
        BY <4>1, <4>2
    <3>5. f = [i \in 1 .. n |-> IF i = 1 THEN ss[i] ELSE f[i - 1] \o ss[i]]
      BY <3>3, <3>4
    <3> QED
      BY <2>2, <3>5 DEF Accumulates
  <2> QED
    BY <2>3, <2>4
<1> QED
  BY <1>1

LEMMA FlattenAcc ==
  ASSUME NEW ss, Len(ss) \in Nat \ {0}
  PROVE  \E f : Accumulates(f, ss, Len(ss)) /\ FlattenSeq(ss) = f[Len(ss)]
<1>1. \E f : Accumulates(f, ss, Len(ss))
  BY AccExists
<1>2. PICK f : f = CHOOSE g : g = [i \in 1 .. Len(ss) |-> IF i = 1 THEN ss[i] ELSE g[i - 1] \o ss[i]]
  OBVIOUS
<1>3. Accumulates(f, ss, Len(ss))
  BY <1>1, <1>2 DEF Accumulates
<1>4. FlattenSeq(ss) = f[Len(ss)]
  BY <1>2 DEF FlattenSeq
<1> QED
  BY <1>3, <1>4

(* Induction over the naturals.                                             *)
LEMMA NatSetInduction ==
  ASSUME NEW T, 0 \in T, \A n \in Nat : n \in T => n + 1 \in T
  PROVE  \A n \in Nat : n \in T
<1> SUFFICES ASSUME NEW m \in Nat, m \notin T PROVE FALSE
  OBVIOUS
<1> DEFINE U == {n \in Nat : n \notin T}
<1>1. PICK n \in U : \A k \in U : n <= k
  BY NatMin
<1>2. n # 0 /\ n - 1 \in Nat /\ ~(n <= n - 1)
  OBVIOUS
<1>3. n - 1 \in T
  BY <1>1, <1>2
<1>4. (n - 1) + 1 = n
  BY <1>2
<1> QED
  BY <1>2, <1>3, <1>4

Agree(a, b, k) == \A i \in 1 .. k : a[i] = b[i]

LEMMA AccAgree ==
  ASSUME NEW f, NEW g, NEW ss, NEW tt, NEW n \in Nat, NEW m \in Nat, NEW k \in Nat,
         Accumulates(f, ss, n), Accumulates(g, tt, m), k <= n, k <= m,
         Agree(ss, tt, k)
  PROVE  Agree(f, g, k)
<1> DEFINE T == {i \in Nat : i \in 1 .. k => f[i] = g[i]}
<1>1. 0 \in T
  OBVIOUS
<1>2. ASSUME NEW i \in Nat, i \in T, i + 1 \in 1 .. k PROVE f[i + 1] = g[i + 1]
  <2>1. i + 1 \in 1 .. n /\ i + 1 \in 1 .. m
    BY <1>2
  <2>2. f[i + 1] = IF i + 1 = 1 THEN ss[i + 1] ELSE f[(i + 1) - 1] \o ss[i + 1]
    BY <2>1 DEF Accumulates
  <2>3. g[i + 1] = IF i + 1 = 1 THEN tt[i + 1] ELSE g[(i + 1) - 1] \o tt[i + 1]
    BY <2>1 DEF Accumulates
  <2>4. (i + 1) - 1 = i /\ (i + 1 # 1 => i \in 1 .. k)
    BY <1>2
  <2>5. i + 1 # 1 => f[i] = g[i]
    BY <1>2, <2>4
  <2>6. ss[i + 1] = tt[i + 1]
    BY <1>2 DEF Agree
  <2> QED
    BY <2>2, <2>3, <2>4, <2>5, <2>6
<1>3. \A i \in Nat : i \in T => i + 1 \in T
  BY <1>2
<1>4. \A i \in Nat : i \in T
  BY <1>1, <1>3, NatSetInduction
<1> QED
  BY <1>4 DEF Agree

LEMMA FlattenOne ==
  ASSUME NEW S, NEW ss \in Seq(Seq(S)), Len(ss) = 1
  PROVE  FlattenSeq(ss) = ss[1]
<1>0. Len(ss) \in Nat \ {0}
  OBVIOUS
<1>1. PICK f : Accumulates(f, ss, Len(ss)) /\ FlattenSeq(ss) = f[Len(ss)]
  BY <1>0, FlattenAcc
<1>2. 1 \in 1 .. 1 /\ f = [i \in 1 .. 1 |-> IF i = 1 THEN ss[i] ELSE f[i - 1] \o ss[i]]
  BY <1>1 DEF Accumulates
<1> QED
  BY <1>1, <1>2

LEMMA FlattenEmpty == FlattenSeq(<<>>) = <<>>
  BY DEF FlattenSeq

LEMMA FlattenAppend ==
  ASSUME NEW S, NEW ss \in Seq(Seq(S)), NEW x \in Seq(S)
  PROVE  FlattenSeq(Append(ss, x)) = FlattenSeq(ss) \o x
<1>1. CASE ss = <<>>
  <2>1. Append(ss, x) \in Seq(Seq(S)) /\ Len(Append(ss, x)) = 1 /\ Append(ss, x)[1] = x
    BY <1>1
  <2>2. FlattenSeq(Append(ss, x)) = x
    BY <2>1, FlattenOne
  <2>3. <<>> \o x = x
    OBVIOUS
  <2> QED
    BY <1>1, <2>2, <2>3, FlattenEmpty
<1>2. CASE ss # <<>>
  <2> DEFINE tt == Append(ss, x)
             n == Len(ss)
  <2>1. n \in Nat \ {0} /\ Len(tt) = n + 1 /\ Len(tt) \in Nat \ {0} /\ tt[n + 1] = x
        /\ \A i \in 1 .. n : ss[i] = tt[i]
    BY <1>2
  <2>2. PICK f : Accumulates(f, ss, n) /\ FlattenSeq(ss) = f[n]
    BY <2>1, FlattenAcc
  <2>3. PICK g : Accumulates(g, tt, Len(tt)) /\ FlattenSeq(tt) = g[Len(tt)]
    BY <2>1, FlattenAcc
  <2>4. \A i \in 1 .. n : f[i] = g[i]
    <3> HIDE DEF tt, n
    <3>1. n \in Nat /\ Len(tt) \in Nat /\ n <= n /\ n <= Len(tt)
          /\ Accumulates(f, ss, n) /\ Accumulates(g, tt, Len(tt)) /\ Agree(ss, tt, n)
      BY <2>1, <2>2, <2>3 DEF Agree
    <3>2. Agree(f, g, n)
      BY <3>1, AccAgree
    <3> QED
      BY <3>2 DEF Agree
  <2>5. g[n + 1] = g[(n + 1) - 1] \o tt[n + 1]
    <3> HIDE DEF tt, n
    <3>1. n + 1 \in 1 .. n + 1 /\ n + 1 # 1
      BY <2>1
    <3> QED
      BY <2>1, <2>3, <3>1 DEF Accumulates
  <2>6. (n + 1) - 1 = n /\ n \in 1 .. n
    BY <2>1
  <2> HIDE DEF tt, n
  <2>7. FlattenSeq(tt) = FlattenSeq(ss) \o x
    BY <2>1, <2>2, <2>3, <2>4, <2>5, <2>6
  <2> QED
    BY <2>7 DEF tt
<1> QED
  BY <1>1, <1>2

LEMMA SeqSplit ==
  ASSUME NEW S, NEW s \in Seq(S), s # <<>>
  PROVE  \E t \in Seq(S), e \in S : s = Append(t, e) /\ Len(t) + 1 = Len(s)
<1>1. PICK t \in Seq(S), e \in S : s = Append(t, e)
  BY SequenceEmptyOrAppend
<1> QED
  BY <1>1

LEMMA FlattenType ==
  ASSUME NEW S, NEW ss \in Seq(Seq(S))
  PROVE  FlattenSeq(ss) \in Seq(S)
<1> DEFINE T == {n \in Nat : \A tt \in Seq(Seq(S)) : Len(tt) = n => FlattenSeq(tt) \in Seq(S)}
<1>1. 0 \in T
  <2>1. \A tt \in Seq(Seq(S)) : Len(tt) = 0 => tt = <<>>
    OBVIOUS
  <2>2. <<>> \in Seq(S)
    OBVIOUS
  <2> QED
    BY <2>1, <2>2, FlattenEmpty
<1>2. ASSUME NEW n \in Nat, n \in T PROVE n + 1 \in T
  <2>1. ASSUME NEW tt \in Seq(Seq(S)), Len(tt) = n + 1 PROVE FlattenSeq(tt) \in Seq(S)
    <3>1. tt # <<>>
      BY <2>1
    <3>2. PICK uu \in Seq(Seq(S)), x \in Seq(S) : tt = Append(uu, x) /\ Len(uu) + 1 = Len(tt)
      BY <3>1, SeqSplit
    <3>3. Len(uu) = n
      BY <2>1, <3>2
    <3>4. FlattenSeq(uu) \in Seq(S)
      BY <1>2, <3>3
    <3>5. FlattenSeq(tt) = FlattenSeq(uu) \o x
      BY <3>2, FlattenAppend
    <3> QED
      BY <3>4, <3>5
  <2> QED
    BY <2>1
<1>3. \A n \in Nat : n \in T
  <2> HIDE DEF T
  <2> QED
    BY <1>1, <1>2, NatSetInduction
<1>4. Len(ss) \in Nat
  OBVIOUS
<1> QED
  BY <1>3, <1>4

LEMMA FlattenConcat ==
  ASSUME NEW S, NEW ss \in Seq(Seq(S)), NEW tt \in Seq(Seq(S))
  PROVE  FlattenSeq(ss \o tt) = FlattenSeq(ss) \o FlattenSeq(tt)
<1> DEFINE T == {n \in Nat : \A uu \in Seq(Seq(S)) :
                    Len(uu) = n => FlattenSeq(ss \o uu) = FlattenSeq(ss) \o FlattenSeq(uu)}
<1>0. FlattenSeq(ss) \in Seq(S)
  BY FlattenType
<1>1. 0 \in T
  <2>1. ASSUME NEW uu \in Seq(Seq(S)), Len(uu) = 0
        PROVE  FlattenSeq(ss \o uu) = FlattenSeq(ss) \o FlattenSeq(uu)
    <3>1. uu = <<>> /\ ss \o uu = ss
      BY <2>1
    <3>2. FlattenSeq(ss) \o <<>> = FlattenSeq(ss)
      BY <1>0
    <3> QED
      BY <3>1, <3>2, FlattenEmpty
  <2> QED
    BY <2>1
<1>2. ASSUME NEW n \in Nat, n \in T PROVE n + 1 \in T
  <2>1. ASSUME NEW vv \in Seq(Seq(S)), Len(vv) = n + 1
        PROVE  FlattenSeq(ss \o vv) = FlattenSeq(ss) \o FlattenSeq(vv)
    <3>1. vv # <<>>
      BY <2>1
    <3>2. PICK uu \in Seq(Seq(S)), x \in Seq(S) : vv = Append(uu, x) /\ Len(uu) + 1 = Len(vv)
      BY <3>1, SeqSplit
    <3>3. Len(uu) = n
      BY <2>1, <3>2
    <3>4. FlattenSeq(ss \o uu) = FlattenSeq(ss) \o FlattenSeq(uu)
      BY <1>2, <3>3
    <3>5. ss \o vv = Append(ss \o uu, x) /\ ss \o uu \in Seq(Seq(S))
      BY <3>2
    <3>6. FlattenSeq(ss \o vv) = FlattenSeq(ss \o uu) \o x
      BY <3>5, FlattenAppend
    <3>7. FlattenSeq(vv) = FlattenSeq(uu) \o x
      BY <3>2, FlattenAppend
    <3>8. FlattenSeq(uu) \in Seq(S)
      BY FlattenType
    <3>9. (FlattenSeq(ss) \o FlattenSeq(uu)) \o x = FlattenSeq(ss) \o (FlattenSeq(uu) \o x)
      <4>1. PICK f \in Seq(S), g \in Seq(S) : f = FlattenSeq(ss) /\ g = FlattenSeq(uu)
        BY <1>0, <3>8
      <4>2. (f \o g) \o x = f \o (g \o x)
        BY SMTT(20)
      <4> QED
        BY <4>1, <4>2
    <3> QED
      BY <3>4, <3>6, <3>7, <3>9
  <2> QED
    BY <2>1
<1>3. \A n \in Nat : n \in T
  <2> HIDE DEF T
  <2> QED
    BY <1>1, <1>2, NatSetInduction
<1>4. Len(tt) \in Nat
  OBVIOUS
<1> QED
  BY <1>3, <1>4

LEMMA ConcatAppend ==
  ASSUME NEW S, NEW s \in Seq(S), NEW t \in Seq(S), NEW e \in S
  PROVE  Append(t \o s, e) = t \o Append(s, e)
<1>1. /\ Append(t \o s, e) \in Seq(S) /\ t \o Append(s, e) \in Seq(S)
      /\ Len(Append(t \o s, e)) = Len(t \o Append(s, e))
  OBVIOUS
<1>2. ASSUME NEW i \in 1 .. Len(Append(t \o s, e))
      PROVE  Append(t \o s, e)[i] = (t \o Append(s, e))[i]
  OBVIOUS
<1> QED
  BY <1>1, <1>2, SeqEqual

LEMMA NonEmpty ==
  ASSUME NEW S, NEW s \in Seq(S)
  PROVE  Len(s) \in Nat /\ (s # <<>> <=> Len(s) > 0)
<1>1. Len(s) = 0 => s = <<>>
  OBVIOUS
<1>2. Len(<<>>) = 0 /\ Len(s) \in Nat
  OBVIOUS
<1> QED
  BY <1>1, <1>2

LEMMA FrontType ==
  ASSUME NEW S, NEW s \in Seq(S), s # <<>>
  PROVE  /\ Front(s) \in Seq(S) /\ Len(Front(s)) = Len(s) - 1
         /\ \A i \in 1 .. Len(s) - 1 : Front(s)[i] = s[i]
         /\ Last(s) \in S
<1>1. Len(s) \in Nat \ {0}
  BY NonEmpty
<1>2. Last(s) \in S
  BY <1>1 DEF Last
<1>3. Front(s) \in Seq(S)
  BY <1>1 DEF Front
<1>4. Len(Front(s)) = Len(s) - 1 /\ \A i \in 1 .. Len(s) - 1 : Front(s)[i] = s[i]
  <2> DEFINE n == Len(s) - 1
  <2>1. n \in Int /\ 1 \in Int /\ \A i \in 1 .. n : s[i] \in S
    BY <1>1
  <2>2. n \in Nat /\ n - 1 + 1 = n /\ (n < 1 => n = 0)
    <3>1. n \in Nat
      BY <1>1
    <3> HIDE DEF n
    <3> QED
      BY <3>1
  <2> HIDE DEF n
  <2>3. /\ Len(SubSeq(s, 1, n)) = IF 1 <= n THEN n - 1 + 1 ELSE 0
        /\ \A i \in 1 .. n - 1 + 1 : SubSeq(s, 1, n)[i] = s[1 + i - 1]
    BY <2>1, SubSeqProperties
  <2>4. Len(SubSeq(s, 1, n)) = n /\ \A i \in 1 .. n : SubSeq(s, 1, n)[i] = s[i]
    BY <2>2, <2>3
  <2> QED
    BY <2>4 DEF Front, n
<1> QED
  BY <1>2, <1>3, <1>4

LEMMA FrontOfAppend ==
  ASSUME NEW S, NEW s \in Seq(S), NEW e \in S
  PROVE  Front(Append(s, e)) = s /\ Last(Append(s, e)) = e /\ Append(s, e) # <<>>
<1>1. /\ Append(s, e) \in Seq(S) /\ Len(Append(s, e)) = Len(s) + 1 /\ Append(s, e) # <<>>
      /\ \A i \in 1 .. Len(s) : Append(s, e)[i] = s[i]
      /\ Append(s, e)[Len(s) + 1] = e
  BY AppendProperties
<1>2. Last(Append(s, e)) = e
  BY <1>1 DEF Last
<1>3. Front(Append(s, e)) \in Seq(S) /\ Len(Front(Append(s, e))) = (Len(s) + 1) - 1
      /\ \A i \in 1 .. (Len(s) + 1) - 1 : Front(Append(s, e))[i] = Append(s, e)[i]
  BY <1>1, FrontType
<1>4. Len(Front(Append(s, e))) = Len(s)
  BY <1>3
<1>5. \A i \in 1 .. Len(s) : Front(Append(s, e))[i] = s[i]
  BY <1>3
<1> QED
  BY <1>1, <1>2, <1>3, <1>4, <1>5, SeqEqual

LEMMA TailType ==
  ASSUME NEW S, NEW s \in Seq(S), s # <<>>
  PROVE  /\ Tail(s) \in Seq(S) /\ Len(Tail(s)) = Len(s) - 1
         /\ \A i \in 1 .. Len(s) - 1 : Tail(s)[i] = s[i + 1]
         /\ Head(s) \in S /\ Head(s) = s[1] /\ s = <<s[1]>> \o Tail(s)
<1>1. Len(s) \in Nat \ {0}
  BY NonEmpty
<1>2. Tail(s) \in Seq(S) /\ Len(Tail(s)) = Len(s) - 1
  BY <1>1
<1>3. \A i \in 1 .. Len(s) - 1 : Tail(s)[i] = s[i + 1]
  BY <1>1
<1>4. Head(s) \in S /\ Head(s) = s[1]
  BY <1>1
<1>5. <<s[1]>> \in Seq(S)
  BY <1>4
<1>6. Len(<<s[1]>> \o Tail(s)) = Len(s)
  BY <1>1, <1>2, <1>5
<1>7. \A i \in 1 .. Len(s) : (<<s[1]>> \o Tail(s))[i] = s[i]
  BY <1>1, <1>2, <1>3, <1>5
<1>8. <<s[1]>> \o Tail(s) \in Seq(S)
  BY <1>2, <1>5
<1> QED
  BY <1>2, <1>3, <1>4, <1>6, <1>7, <1>8, SeqEqual

LEMMA LiteralSpells ==
  ASSUME NEW S, NEW b \in Seq(S)
  PROVE  Literal(b) \in Seq(Seq(S)) /\ Len(Literal(b)) = Len(b) /\ FlattenSeq(Literal(b)) = b
<1> DEFINE T == {n \in Nat : \A c \in Seq(S) : Len(c) = n =>
                    Literal(c) \in Seq(Seq(S)) /\ FlattenSeq(Literal(c)) = c}
<1>1. 0 \in T
  <2>1. ASSUME NEW c \in Seq(S), Len(c) = 0 PROVE Literal(c) = <<>> /\ c = <<>>
    BY <2>1 DEF Literal
  <2> QED
    BY <2>1, FlattenEmpty
<1>2. ASSUME NEW n \in Nat, n \in T PROVE n + 1 \in T
  <2>1. ASSUME NEW c \in Seq(S), Len(c) = n + 1
        PROVE  Literal(c) \in Seq(Seq(S)) /\ FlattenSeq(Literal(c)) = c
    <3>1. c # <<>>
      BY <2>1
    <3>2. PICK d \in Seq(S), e \in S : c = Append(d, e) /\ Len(d) + 1 = Len(c)
      BY <3>1, SeqSplit
    <3>3. Len(d) = n
      BY <2>1, <3>2
    <3>4. Literal(d) \in Seq(Seq(S)) /\ FlattenSeq(Literal(d)) = d
      BY <1>2, <3>3
    <3>5. <<e>> \in Seq(S) /\ Len(Literal(d)) = Len(d)
      BY DEF Literal
    <3>6. Literal(c) = Append(Literal(d), <<e>>)
      BY <3>2, <3>4, <3>5 DEF Literal
    <3>7. FlattenSeq(Append(Literal(d), <<e>>)) = d \o <<e>>
      BY <3>4, <3>5, FlattenAppend
    <3>8. d \o <<e>> = c
      BY <3>2, AppendIsConcat
    <3>9. Append(Literal(d), <<e>>) \in Seq(Seq(S))
      BY <3>4, <3>5, AppendProperties
    <3> QED
      BY <3>6, <3>7, <3>8, <3>9
  <2> QED
    BY <2>1
<1>3. \A n \in Nat : n \in T
  <2> HIDE DEF T
  <2> QED
    BY <1>1, <1>2, NatSetInduction
<1>4. Len(b) \in Nat /\ Len(Literal(b)) = Len(b)
  BY DEF Literal
<1> QED
  BY <1>3, <1>4

-----------------------------------------------------------------------------
(* The romaji converter                                                     *)

(* s is at the end of t.                                                    *)
Ends(s, t) == \E before \in Seq(Keys) : t = before \o s

LEMMA EndsIsSuffix ==
  ASSUME NEW s \in Seq(Keys), NEW t \in Seq(Keys), Ends(s, t)
  PROVE  IsSuffix(s, t)
<1>1. PICK a \in Seq(Keys) : t = a \o s
  BY DEF Ends
<1>2. /\ Len(Reverse(s)) = Len(s) /\ Len(Reverse(t)) = Len(t)
      /\ Len(t) = Len(a) + Len(s)
      /\ Reverse(s) \in Seq(Keys) /\ Reverse(t) \in Seq(Keys)
  BY <1>1 DEF Reverse
<1>3. ASSUME NEW i \in 1 .. Len(s) PROVE Reverse(s)[i] = Reverse(t)[i]
  <2>1. Reverse(s)[i] = s[(Len(s) - i) + 1] /\ Reverse(t)[i] = t[(Len(t) - i) + 1]
    BY <1>2 DEF Reverse
  <2>2. (Len(s) - i) + 1 \in 1 .. Len(s) /\ (Len(t) - i) + 1 = Len(a) + ((Len(s) - i) + 1)
    BY <1>2
  <2> QED
    BY <1>1, <2>1, <2>2
<1>4. SubSeq(Reverse(s), 1, Len(Reverse(s))) = SubSeq(Reverse(t), 1, Len(Reverse(s)))
  BY <1>2, <1>3
<1> QED
  BY <1>2, <1>4 DEF IsSuffix, IsPrefix

LEMMA EndsFacts ==
  ASSUME NEW s \in Seq(Keys), NEW t \in Seq(Keys)
  PROVE  Ends(s, s) /\ Ends(<<>>, s) /\ Ends(s, t \o s)
<1>1. s = <<>> \o s /\ s = s \o <<>> /\ <<>> \in Seq(Keys)
  OBVIOUS
<1> QED
  BY <1>1 DEF Ends

LEMMA EndsTail ==
  ASSUME NEW s \in Seq(Keys), s # <<>>
  PROVE  Ends(Tail(s), s)
<1>1. s = <<s[1]>> \o Tail(s) /\ <<s[1]>> \in Seq(Keys)
  OBVIOUS
<1> QED
  BY <1>1 DEF Ends

LEMMA EndsTransitive ==
  ASSUME NEW s \in Seq(Keys), NEW t \in Seq(Keys), NEW u \in Seq(Keys), Ends(s, t), Ends(t, u)
  PROVE  Ends(s, u)
<1>1. PICK a \in Seq(Keys) : t = a \o s
  BY DEF Ends
<1>2. PICK b \in Seq(Keys) : u = b \o t
  BY DEF Ends
<1>3. u = (b \o a) \o s /\ b \o a \in Seq(Keys)
  BY <1>1, <1>2
<1> QED
  BY <1>3 DEF Ends

LEMMA EndsAppend ==
  ASSUME NEW s \in Seq(Keys), NEW t \in Seq(Keys), NEW k \in Keys, Ends(s, t)
  PROVE  Ends(Append(s, k), Append(t, k))
<1>1. PICK a \in Seq(Keys) : t = a \o s
  BY DEF Ends
<1>2. Append(t, k) = a \o Append(s, k)
  BY <1>1, ConcatAppend
<1> QED
  BY <1>2 DEF Ends

LEMMA EndsFront ==
  ASSUME NEW s \in Seq(Keys), NEW t \in Seq(Keys), s # <<>>, Ends(s, t)
  PROVE  t # <<>> /\ Ends(Front(s), Front(t))
<1>1. PICK a \in Seq(Keys) : t = a \o s
  BY DEF Ends
<1>2. PICK d \in Seq(Keys), e \in Keys : s = Append(d, e) /\ Len(d) + 1 = Len(s)
  BY SeqSplit
<1>3. Front(s) = d
  BY <1>2, FrontOfAppend
<1>4. t = Append(a \o d, e) /\ a \o d \in Seq(Keys)
  BY <1>1, <1>2, ConcatAppend
<1>5. t # <<>> /\ Front(t) = a \o d
  BY <1>4, FrontOfAppend
<1> QED
  BY <1>3, <1>5 DEF Ends

Converters == [output : Seq(Kana), buffer : Seq(Keys), raw : Seq(Keys) \cup {Untracked}]

RawEnds(c) == c.raw # Untracked => Ends(c.buffer, c.raw)

ConverterOK(c) == c \in Converters /\ RawEnds(c)

LEMMA SpellType ==
  ASSUME NEW kana \in Seq(Kana)
  PROVE  Spell(kana) \in Seq(Keys)
BY FlattenType DEF Spell, Kana

LEMMA PreeditType ==
  ASSUME NEW c \in Converters
  PROVE  Preedit(c) \in Seq(Keys)
<1>1. c.output \in Seq(Kana) /\ c.buffer \in Seq(Keys)
  BY DEF Converters
<1>2. Spell(c.output) \in Seq(Keys)
  BY <1>1, SpellType
<1> QED
  BY <1>1, <1>2 DEF Preedit

LEMMA NewConverterOK == ConverterOK(NewConverter)
<1>1. <<>> \in Seq(Kana) /\ <<>> \in Seq(Keys)
  OBVIOUS
<1>2. Ends(<<>>, <<>>)
  BY <1>1, EndsFacts
<1> QED
  BY <1>1, <1>2 DEF ConverterOK, NewConverter, RawEnds, Converters

(* What a rule can make of the buffer b.                                    *)
Outcomes(b) == {o \in [kana : Seq(Kana), rest : Seq(Keys)] : Ends(o.rest, b)}

LEMMA WithoutNType ==
  ASSUME NEW b \in Seq(Keys), b # <<>>
  PROVE  WithoutN(b) \subseteq Outcomes(b)
<1>1. /\ b \in Kana /\ <<b[1]>> \in Kana /\ <<>> \in Seq(Kana) /\ <<>> \in Seq(Keys)
      /\ Tail(b) \in Seq(Keys)
  BY DEF Kana
<1>2. <<b>> \in Seq(Kana) /\ <<<<b[1]>>>> \in Seq(Kana)
  BY <1>1
<1>3. Ends(b, b) /\ Ends(<<>>, b) /\ Ends(Tail(b), b)
  BY EndsFacts, EndsTail
<1>4. /\ [kana |-> <<b>>, rest |-> <<>>] \in Outcomes(b)
      /\ [kana |-> <<>>, rest |-> b] \in Outcomes(b)
      /\ [kana |-> <<<<b[1]>>>>, rest |-> Tail(b)] \in Outcomes(b)
      /\ [kana |-> <<>>, rest |-> <<>>] \in Outcomes(b)
  BY <1>1, <1>2, <1>3 DEF Outcomes
<1>5. Hit(b) \subseteq Outcomes(b)
  BY <1>4 DEF Hit
<1>6. Keep(b) \subseteq Outcomes(b)
  BY <1>4 DEF Keep
<1>7. Doubled(b) \subseteq Outcomes(b)
  BY <1>4 DEF Doubled
<1>8. Discard(b) \subseteq Outcomes(b)
  BY <1>4 DEF Discard
<1> QED
  BY <1>5, <1>6, <1>7, <1>8 DEF WithoutN

LEMMA SplitOffNType ==
  ASSUME NEW b \in Seq(Keys), Len(b) > 1
  PROVE  SplitOffN(b) \subseteq Outcomes(b)
<1> SUFFICES ASSUME NEW o \in WithoutN(Tail(b))
             PROVE  [kana |-> <<<<b[1]>>>> \o o.kana, rest |-> o.rest] \in Outcomes(b)
  BY DEF SplitOffN
<1>0. b # <<>>
  BY NonEmpty
<1>a. Tail(b) \in Seq(Keys) /\ Len(Tail(b)) = Len(b) - 1 /\ Len(b) \in Nat
  BY <1>0, TailType
<1>b. Len(Tail(b)) > 0
  BY <1>a
<1>1. Tail(b) \in Seq(Keys) /\ Tail(b) # <<>> /\ b # <<>>
  BY <1>0, <1>a, <1>b, NonEmpty
<1>2. o \in Outcomes(Tail(b))
  BY <1>1, WithoutNType
<1>3. o.kana \in Seq(Kana) /\ o.rest \in Seq(Keys) /\ Ends(o.rest, Tail(b))
  BY <1>2 DEF Outcomes
<1>4. Ends(o.rest, b)
  BY <1>1, <1>3, EndsTail, EndsTransitive
<1>5. <<b[1]>> \in Kana
  BY <1>1 DEF Kana
<1>6. <<<<b[1]>>>> \o o.kana \in Seq(Kana)
  BY <1>3, <1>5
<1> QED
  BY <1>3, <1>4, <1>6 DEF Outcomes

LEMMA TryConvertType ==
  ASSUME NEW b \in Seq(Keys), b # <<>>
  PROVE  TryConvert(b) \subseteq Outcomes(b)
<1>1. WithoutN(b) \subseteq Outcomes(b)
  BY WithoutNType
<1>2. Len(b) # 1 => SplitOffN(b) \subseteq Outcomes(b)
  <2>1. Len(b) # 1 => Len(b) > 1
    <3>1. Len(b) \in Nat /\ Len(b) > 0
      BY NonEmpty
    <3> QED
      BY <3>1
  <2> QED
    BY <2>1, SplitOffNType
<1>3. Hit(b) \cup Keep(b) \cup Doubled(b) \subseteq WithoutN(b)
  BY DEF WithoutN
<1> QED
  BY <1>1, <1>2, <1>3 DEF TryConvert

LEMMA ProcessKeyOK ==
  ASSUME NEW c, ConverterOK(c), NEW k \in Keys, NEW d \in ProcessKey(c, k)
  PROVE  ConverterOK(d)
<1>1. c.output \in Seq(Kana) /\ c.buffer \in Seq(Keys) /\ c.raw \in Seq(Keys) \cup {Untracked}
  BY DEF ConverterOK, Converters
<1>2. Append(c.buffer, k) \in Seq(Keys) /\ Append(c.buffer, k) # <<>>
  BY <1>1
<1>3. PICK o \in TryConvert(Append(c.buffer, k)) :
        d = [output |-> c.output \o o.kana, buffer |-> o.rest,
             raw |-> IF c.raw = Untracked THEN Untracked ELSE Append(c.raw, k)]
  BY DEF ProcessKey
<1>4. o \in Outcomes(Append(c.buffer, k))
  BY <1>2, TryConvertType
<1>5. o.kana \in Seq(Kana) /\ o.rest \in Seq(Keys) /\ Ends(o.rest, Append(c.buffer, k))
  BY <1>4 DEF Outcomes
<1>6. /\ d.output = c.output \o o.kana /\ d.buffer = o.rest
      /\ d.raw = IF c.raw = Untracked THEN Untracked ELSE Append(c.raw, k)
  BY <1>3
<1>7. c.output \o o.kana \in Seq(Kana)
  BY <1>1, <1>5
<1>8. c.raw # Untracked => Append(c.raw, k) \in Seq(Keys)
  BY <1>1
<1>9. d \in Converters
  BY <1>3, <1>5, <1>7, <1>8 DEF Converters
<1>10. d.raw # Untracked => Ends(d.buffer, d.raw)
  <2> SUFFICES ASSUME c.raw # Untracked PROVE Ends(o.rest, Append(c.raw, k))
    BY <1>6
  <2>1. c.raw \in Seq(Keys) /\ Ends(c.buffer, c.raw)
    BY <1>1 DEF ConverterOK, RawEnds
  <2>2. Ends(Append(c.buffer, k), Append(c.raw, k)) /\ Append(c.raw, k) \in Seq(Keys)
    BY <1>1, <2>1, EndsAppend
  <2> QED
    BY <1>2, <1>5, <2>2, EndsTransitive
<1> QED
  BY <1>9, <1>10 DEF ConverterOK, RawEnds

LEMMA ConverterFields ==
  ASSUME NEW c \in Converters
  PROVE  /\ c.output \in Seq(Kana) /\ c.buffer \in Seq(Keys)
         /\ c.raw \in Seq(Keys) \cup {Untracked}
         /\ c = [output |-> c.output, buffer |-> c.buffer, raw |-> c.raw]
BY DEF Converters

LEMMA ConverterMake ==
  ASSUME NEW output \in Seq(Kana), NEW buffer \in Seq(Keys),
         NEW raw \in Seq(Keys) \cup {Untracked},
         raw # Untracked => Ends(buffer, raw),
         NEW d, d = [output |-> output, buffer |-> buffer, raw |-> raw]
  PROVE  ConverterOK(d)
BY DEF ConverterOK, RawEnds, Converters

LEMMA AppendKana ==
  ASSUME NEW output \in Seq(Kana), NEW keys \in Seq(Keys)
  PROVE  Append(output, keys) \in Seq(Kana) /\ output \o Literal(keys) \in Seq(Kana)
<1>1. keys \in Kana /\ Literal(keys) \in Seq(Seq(Keys))
  BY LiteralSpells DEF Kana
<1> QED
  BY <1>1 DEF Kana

LEMMA FlushOK ==
  ASSUME NEW c, ConverterOK(c)
  PROVE  /\ ConverterOK(Flush(c))
         /\ Flush(c).buffer = <<>> /\ Flush(c).raw = c.raw
         /\ Flush(c).output = IF IsLoneN(c.buffer) THEN Append(c.output, c.buffer) ELSE c.output
<1>1. /\ c \in Converters /\ c.output \in Seq(Kana) /\ c.buffer \in Seq(Keys)
      /\ c.raw \in Seq(Keys) \cup {Untracked}
      /\ c = [output |-> c.output, buffer |-> c.buffer, raw |-> c.raw]
  BY ConverterFields DEF ConverterOK
<1>2. PICK output : output = IF IsLoneN(c.buffer) THEN Append(c.output, c.buffer) ELSE c.output
  OBVIOUS
<1>3. output \in Seq(Kana)
  BY <1>1, <1>2, AppendKana
<1>4. Flush(c) = [output |-> output, buffer |-> <<>>, raw |-> c.raw]
  <2>1. Flush(c) = [[c EXCEPT !.output = output] EXCEPT !.buffer = <<>>]
    BY <1>2 DEF Flush
  <2>2. PICK p, q, r : c = [output |-> p, buffer |-> q, raw |-> r]
    BY <1>1
  <2> QED
    BY <2>1, <2>2
<1>5. <<>> \in Seq(Keys) /\ (c.raw # Untracked => Ends(<<>>, c.raw))
  BY <1>1, EndsFacts
<1>6. ConverterOK(Flush(c))
  BY <1>1, <1>3, <1>4, <1>5, ConverterMake
<1> QED
  BY <1>2, <1>4, <1>6

LEMMA AppendRawOK ==
  ASSUME NEW c, ConverterOK(c), c.buffer = <<>>, NEW k \in Keys
  PROVE  ConverterOK(AppendRaw(c, k))
<1>1. /\ c \in Converters /\ c.output \in Seq(Kana) /\ c.buffer \in Seq(Keys)
      /\ c = [output |-> c.output, buffer |-> c.buffer, raw |-> c.raw]
  BY ConverterFields DEF ConverterOK
<1>2. <<k>> \in Seq(Keys)
  OBVIOUS
<1>3. Append(c.output, <<k>>) \in Seq(Kana)
  BY <1>1, <1>2, AppendKana
<1>4. AppendRaw(c, k) = [output |-> Append(c.output, <<k>>), buffer |-> c.buffer,
                         raw |-> Untracked]
  <2>1. PICK output : output = Append(c.output, <<k>>)
    OBVIOUS
  <2>2. AppendRaw(c, k) = [[c EXCEPT !.output = output] EXCEPT !.raw = Untracked]
    BY <2>1 DEF AppendRaw
  <2>3. PICK p, q, r : c = [output |-> p, buffer |-> q, raw |-> r]
    BY <1>1
  <2> QED
    BY <2>1, <2>2, <2>3
<1> QED
  BY <1>1, <1>3, <1>4, ConverterMake

LEMMA FlushPendingOK ==
  ASSUME NEW c, ConverterOK(c)
  PROVE  ConverterOK(FlushPendingAsLiteral(c)) /\ FlushPendingAsLiteral(c).buffer = <<>>
<1>1. CASE c.buffer = <<>> \/ IsLoneN(c.buffer)
  BY <1>1, FlushOK DEF FlushPendingAsLiteral
<1>2. CASE ~(c.buffer = <<>> \/ IsLoneN(c.buffer))
  <2>1. c \in Converters /\ c.output \in Seq(Kana) /\ c.buffer \in Seq(Keys)
    BY ConverterFields DEF ConverterOK
  <2>2. c.output \o Literal(c.buffer) \in Seq(Kana) /\ <<>> \in Seq(Keys)
    BY <2>1, AppendKana
  <2>3. FlushPendingAsLiteral(c) =
          [output |-> c.output \o Literal(c.buffer), buffer |-> <<>>, raw |-> Untracked]
    BY <1>2 DEF FlushPendingAsLiteral
  <2>4. ConverterOK(FlushPendingAsLiteral(c))
    BY <2>2, <2>3, ConverterMake
  <2> QED
    BY <2>3, <2>4
<1> QED
  BY <1>1, <1>2

LEMMA RestoreBufferOK ==
  ASSUME NEW c, ConverterOK(c), NEW pending \in Seq(Keys)
  PROVE  ConverterOK(RestoreBuffer(c, pending))
<1>1. /\ c \in Converters /\ c.output \in Seq(Kana) /\ c.buffer \in Seq(Keys)
      /\ c.raw \in Seq(Keys) \cup {Untracked}
      /\ c = [output |-> c.output, buffer |-> c.buffer, raw |-> c.raw]
  BY ConverterFields DEF ConverterOK
<1>2. CASE pending # <<>> /\ c.buffer = <<>>
  <2>1. PICK raw : raw = IF c.raw = Untracked THEN c.raw ELSE c.raw \o pending
    OBVIOUS
  <2>2. RestoreBuffer(c, pending) = [output |-> c.output, buffer |-> pending, raw |-> raw]
    BY <1>1, <1>2, <2>1 DEF RestoreBuffer
  <2>3. c.raw # Untracked => raw \in Seq(Keys) /\ Ends(pending, raw)
    BY <1>1, <2>1, EndsFacts
  <2>4. raw \in Seq(Keys) \cup {Untracked} /\ (raw # Untracked => Ends(pending, raw))
    BY <2>1, <2>3
  <2> QED
    BY <1>1, <2>2, <2>4, ConverterMake
<1>3. CASE ~(pending # <<>> /\ c.buffer = <<>>)
  BY <1>3 DEF RestoreBuffer
<1> QED
  BY <1>2, <1>3

LEMMA DeleteLastOK ==
  ASSUME NEW c, ConverterOK(c)
  PROVE  ConverterOK(DeleteLast(c))
<1>1. /\ c \in Converters /\ c.output \in Seq(Kana) /\ c.buffer \in Seq(Keys)
      /\ c.raw \in Seq(Keys) \cup {Untracked}
      /\ c = [output |-> c.output, buffer |-> c.buffer, raw |-> c.raw]
      /\ (c.raw # Untracked => Ends(c.buffer, c.raw))
  BY ConverterFields DEF ConverterOK, RawEnds
<1>2. CASE c.buffer # <<>>
  <2>1. PICK raw : raw = IF c.raw = Untracked \/ c.raw = <<>> THEN c.raw ELSE Front(c.raw)
    OBVIOUS
  <2>2. DeleteLast(c) = [output |-> c.output, buffer |-> Front(c.buffer), raw |-> raw]
    BY <1>1, <1>2, <2>1 DEF DeleteLast
  <2>3. Front(c.buffer) \in Seq(Keys)
    BY <1>1, <1>2, FrontType
  <2>4. ASSUME c.raw # Untracked
        PROVE  raw \in Seq(Keys) /\ Ends(Front(c.buffer), raw)
    <3>1. c.raw \in Seq(Keys)
      BY <1>1, <2>4
    <3>2. c.raw # <<>> /\ Ends(Front(c.buffer), Front(c.raw))
      BY <1>1, <1>2, <2>4, <3>1, EndsFront
    <3>3. raw = Front(c.raw)
      BY <2>1, <2>4, <3>2
    <3> QED
      BY <3>1, <3>2, <3>3, FrontType
  <2>5. raw \in Seq(Keys) \cup {Untracked} /\ (raw # Untracked => Ends(Front(c.buffer), raw))
    BY <2>1, <2>4
  <2> QED
    BY <1>1, <2>2, <2>3, <2>5, ConverterMake
<1>3. CASE c.buffer = <<>> /\ c.output # <<>>
  <2>1. DeleteLast(c) = [output |-> Front(c.output), buffer |-> c.buffer, raw |-> Untracked]
    BY <1>1, <1>3 DEF DeleteLast
  <2>2. Front(c.output) \in Seq(Kana)
    BY <1>1, <1>3, FrontType
  <2> QED
    BY <1>1, <2>1, <2>2, ConverterMake
<1>4. CASE c.buffer = <<>> /\ c.output = <<>>
  BY <1>4 DEF DeleteLast
<1> QED
  BY <1>2, <1>3, <1>4

LEMMA SubSeqFacts ==
  ASSUME NEW S, NEW s \in Seq(S), NEW m \in Nat, NEW n \in Nat,
         1 <= m, m <= n + 1, n <= Len(s)
  PROVE  /\ SubSeq(s, m, n) \in Seq(S)
         /\ Len(SubSeq(s, m, n)) = (n + 1) - m
         /\ \A i \in 1 .. (n + 1) - m : SubSeq(s, m, n)[i] = s[(m + i) - 1]
<1>1. m \in Int /\ n \in Int /\ \A i \in m .. n : s[i] \in S
  <2>1. Len(s) \in Nat /\ \A i \in 1 .. Len(s) : s[i] \in S
    OBVIOUS
  <2> QED
    BY <2>1
<1>2. /\ SubSeq(s, m, n) \in Seq(S)
      /\ Len(SubSeq(s, m, n)) = IF m <= n THEN n - m + 1 ELSE 0
      /\ \A i \in 1 .. n - m + 1 : SubSeq(s, m, n)[i] = s[m + i - 1]
  BY <1>1, SubSeqProperties
<1>3. n - m + 1 = (n + 1) - m /\ (~(m <= n) => (n + 1) - m = 0)
  OBVIOUS
<1>4. Len(SubSeq(s, m, n)) = (n + 1) - m
  BY <1>2, <1>3
<1>5. ASSUME NEW i \in 1 .. (n + 1) - m PROVE SubSeq(s, m, n)[i] = s[(m + i) - 1]
  BY <1>2, <1>3
<1> QED
  BY <1>2, <1>4, <1>5

(* A piece of a piece.                                                      *)
LEMMA SubSubSeq ==
  ASSUME NEW S, NEW s \in Seq(S), NEW a \in Nat, NEW b \in Nat, a <= b, b <= Len(s),
         NEW x \in Nat, NEW y \in Nat, x <= y, y <= b - a
  PROVE  SubSeq(SubSeq(s, a + 1, b), x + 1, y) = SubSeq(s, (a + x) + 1, a + y)
<1>0. PICK t : t = SubSeq(s, a + 1, b)
  OBVIOUS
<1>1. /\ t \in Seq(S) /\ Len(t) = (b + 1) - (a + 1)
      /\ \A i \in 1 .. (b + 1) - (a + 1) : t[i] = s[((a + 1) + i) - 1]
  <2>1. a + 1 \in Nat /\ 1 <= a + 1 /\ a + 1 <= b + 1
    OBVIOUS
  <2> QED
    BY <1>0, <2>1, SubSeqFacts
<1>2. Len(t) = b - a /\ \A i \in 1 .. b - a : t[i] = s[a + i]
  <2>1. Len(t) = b - a
    BY <1>1
  <2>2. ASSUME NEW i \in 1 .. b - a PROVE t[i] = s[a + i]
    <3>1. i \in 1 .. (b + 1) - (a + 1) /\ ((a + 1) + i) - 1 = a + i
      OBVIOUS
    <3> QED
      BY <1>1, <3>1
  <2> QED
    BY <2>1, <2>2
<1>3. /\ SubSeq(t, x + 1, y) \in Seq(S) /\ Len(SubSeq(t, x + 1, y)) = (y + 1) - (x + 1)
      /\ \A i \in 1 .. (y + 1) - (x + 1) : SubSeq(t, x + 1, y)[i] = t[((x + 1) + i) - 1]
  <2>1. x + 1 \in Nat /\ 1 <= x + 1 /\ x + 1 <= y + 1 /\ y <= Len(t)
    BY <1>2
  <2> QED
    BY <1>1, <2>1, SubSeqFacts
<1>4. /\ SubSeq(s, (a + x) + 1, a + y) \in Seq(S)
      /\ Len(SubSeq(s, (a + x) + 1, a + y)) = ((a + y) + 1) - ((a + x) + 1)
      /\ \A i \in 1 .. ((a + y) + 1) - ((a + x) + 1) :
           SubSeq(s, (a + x) + 1, a + y)[i] = s[(((a + x) + 1) + i) - 1]
  <2>1. (a + x) + 1 \in Nat /\ a + y \in Nat /\ 1 <= (a + x) + 1
        /\ (a + x) + 1 <= (a + y) + 1 /\ a + y <= Len(s)
    <3>1. Len(s) \in Nat
      OBVIOUS
    <3> QED
      BY <3>1
  <2> QED
    BY <2>1, SubSeqFacts
<1>5. Len(SubSeq(t, x + 1, y)) = y - x /\ Len(SubSeq(s, (a + x) + 1, a + y)) = y - x
  BY <1>3, <1>4
<1>6. ASSUME NEW i \in 1 .. y - x
      PROVE  SubSeq(t, x + 1, y)[i] = SubSeq(s, (a + x) + 1, a + y)[i]
  <2>1. /\ i \in 1 .. (y + 1) - (x + 1) /\ ((x + 1) + i) - 1 = x + i /\ x + i \in 1 .. b - a
        /\ i \in 1 .. ((a + y) + 1) - ((a + x) + 1)
        /\ (((a + x) + 1) + i) - 1 = a + (x + i)
    OBVIOUS
  <2> QED
    BY <1>2, <1>3, <1>4, <2>1
<1> QED
  BY <1>0, <1>3, <1>4, <1>5, <1>6, SeqEqual

-----------------------------------------------------------------------------
(* Segments                                                                 *)

End(segment) == segment.start + Len(segment.reading)

(* The reading is a piece of the kana, at its place.                        *)
Placed(kana, reading, start) ==
  /\ reading # <<>>
  /\ start + Len(reading) <= Len(kana)
  /\ reading = SubSeq(kana, start + 1, start + Len(reading))

Piece(kana, segment) == Placed(kana, segment.reading, segment.start)

(* The selection exists, and is the user's if it is marked so.              *)
Selected(segment) ==
  /\ segment.selected <= Len(segment.candidates)
  /\ segment.userSelected => segment.candidates[segment.selected] = segment.choice

(* Every candidate spells the reading, or is the raw input as typed.        *)
SurfaceOK(raw, surface, reading) ==
  \/ surface.keys = Spell(reading)
  \/ raw # Untracked /\ surface.form = "romaji" /\ surface.keys = raw

SpelledAs(raw, candidates, reading) ==
  \A k \in 1 .. Len(candidates) : SurfaceOK(raw, candidates[k], reading)

Spelled(raw, segment) == SpelledAs(raw, segment.candidates, segment.reading)

SegmentOK(kana, raw, segment) ==
  /\ segment \in Segments
  /\ Piece(kana, segment) /\ Selected(segment) /\ Spelled(raw, segment)

(* The segments cut the kana from position a to position b.                 *)
Tiles(kana, raw, segments, a, b) ==
  /\ segments \in Seq(Segments)
  /\ \A i \in 1 .. Len(segments) : SegmentOK(kana, raw, segments[i])
  /\ \A i \in 1 .. Len(segments) - 1 : segments[i + 1].start = End(segments[i])
  /\ IF segments = <<>> THEN a = b
     ELSE segments[1].start = a /\ End(segments[Len(segments)]) = b

LEMMA TilesOne ==
  ASSUME NEW kana, NEW raw, NEW segment, SegmentOK(kana, raw, segment)
  PROVE  Tiles(kana, raw, <<segment>>, segment.start, End(segment))
<1>1. /\ <<segment>> \in Seq(Segments) /\ Len(<<segment>>) = 1
      /\ <<segment>>[1] = segment /\ <<segment>> # <<>>
  BY DEF SegmentOK
<1>2. \A i \in 1 .. 1 : <<segment>>[i] = segment
  OBVIOUS
<1> QED
  BY <1>1, <1>2 DEF Tiles

LEMMA TilesEmpty ==
  ASSUME NEW kana, NEW raw, NEW a
  PROVE  Tiles(kana, raw, <<>>, a, a)
BY DEF Tiles

LEMMA TilesConcat ==
  ASSUME NEW kana, NEW raw, NEW s, NEW t, NEW a, NEW b, NEW c,
         Tiles(kana, raw, s, a, b), Tiles(kana, raw, t, b, c)
  PROVE  Tiles(kana, raw, s \o t, a, c)
<1>1. /\ s \in Seq(Segments) /\ t \in Seq(Segments)
      /\ \A i \in 1 .. Len(s) : SegmentOK(kana, raw, s[i])
      /\ \A i \in 1 .. Len(t) : SegmentOK(kana, raw, t[i])
      /\ \A i \in 1 .. Len(s) - 1 : s[i + 1].start = End(s[i])
      /\ \A i \in 1 .. Len(t) - 1 : t[i + 1].start = End(t[i])
  BY DEF Tiles
<1>2. CASE s = <<>>
  <2>1. s \o t = t /\ a = b
    BY <1>1, <1>2 DEF Tiles
  <2> QED
    BY <2>1
<1>3. CASE t = <<>>
  <2>1. s \o t = s /\ b = c
    BY <1>1, <1>3 DEF Tiles
  <2> QED
    BY <2>1
<1>4. CASE s # <<>> /\ t # <<>>
  <2>1. /\ s[1].start = a /\ End(s[Len(s)]) = b
        /\ t[1].start = b /\ End(t[Len(t)]) = c
    BY <1>4 DEF Tiles
  <2>2. PICK u : u = s \o t
    OBVIOUS
  <2>3. /\ Len(s) \in Nat \ {0} /\ Len(t) \in Nat \ {0}
        /\ u \in Seq(Segments) /\ Len(u) = Len(s) + Len(t)
        /\ \A i \in 1 .. Len(s) : u[i] = s[i]
        /\ \A i \in Len(s) + 1 .. Len(s) + Len(t) : u[i] = t[i - Len(s)]
    <3>1. Len(s) \in Nat \ {0} /\ Len(t) \in Nat \ {0}
      BY <1>1, <1>4, NonEmpty
    <3>2. u \in Seq(Segments) /\ Len(u) = Len(s) + Len(t)
          /\ \A i \in 1 .. Len(s) + Len(t) : u[i] = IF i <= Len(s) THEN s[i] ELSE t[i - Len(s)]
      BY <1>1, <2>2, ConcatProperties
    <3>3. \A i \in 1 .. Len(s) : u[i] = s[i]
      BY <3>1, <3>2
    <3>4. \A i \in Len(s) + 1 .. Len(s) + Len(t) : u[i] = t[i - Len(s)]
      BY <3>1, <3>2
    <3> QED
      BY <3>1, <3>2, <3>3, <3>4
  <2>4. ASSUME NEW i \in 1 .. Len(u) PROVE SegmentOK(kana, raw, u[i])
    <3>1. CASE i <= Len(s)
      BY <1>1, <2>3, <3>1
    <3>2. CASE i > Len(s)
      <4>1. i - Len(s) \in 1 .. Len(t) /\ i \in Len(s) + 1 .. Len(s) + Len(t)
        BY <2>3, <3>2
      <4> QED
        BY <1>1, <2>3, <4>1
    <3> QED
      BY <2>3, <3>1, <3>2
  <2>5. ASSUME NEW i \in 1 .. Len(u) - 1 PROVE u[i + 1].start = End(u[i])
    <3>1. CASE i < Len(s)
      <4>1. i \in 1 .. Len(s) - 1 /\ i \in 1 .. Len(s) /\ i + 1 \in 1 .. Len(s)
        BY <2>3, <3>1
      <4> QED
        BY <1>1, <2>3, <4>1
    <3>2. CASE i = Len(s)
      <4>1. i \in 1 .. Len(s) /\ i + 1 \in Len(s) + 1 .. Len(s) + Len(t) /\ (i + 1) - Len(s) = 1
        BY <2>3, <3>2
      <4>2. u[i] = s[Len(s)] /\ u[i + 1] = t[1]
        BY <2>3, <3>2, <4>1
      <4> QED
        BY <2>1, <4>2
    <3>3. CASE i > Len(s)
      <4>1. /\ i \in Len(s) + 1 .. Len(s) + Len(t) /\ i + 1 \in Len(s) + 1 .. Len(s) + Len(t)
            /\ i - Len(s) \in 1 .. Len(t) - 1 /\ (i + 1) - Len(s) = (i - Len(s)) + 1
        BY <2>3, <3>3
      <4> QED
        BY <1>1, <2>3, <4>1
    <3> QED
      BY <2>3, <3>1, <3>2, <3>3
  <2>6. u # <<>> /\ u[1].start = a /\ End(u[Len(u)]) = c
    <3>1. /\ 1 \in 1 .. Len(s) /\ Len(u) \in Len(s) + 1 .. Len(s) + Len(t)
          /\ Len(u) - Len(s) = Len(t)
      BY <2>3
    <3>2. u[1] = s[1] /\ u[Len(u)] = t[Len(t)]
      BY <2>3, <3>1
    <3> QED
      BY <2>1, <2>3, <3>2
  <2> QED
    BY <2>2, <2>3, <2>4, <2>5, <2>6 DEF Tiles
<1> QED
  BY <1>2, <1>3, <1>4

LEMMA TilesPrefix ==
  ASSUME NEW kana, NEW raw, NEW s, NEW a, NEW b, Tiles(kana, raw, s, a, b), NEW n \in 1 .. Len(s)
  PROVE  Tiles(kana, raw, SubSeq(s, 1, n - 1), a, s[n].start)
<1>1. /\ s \in Seq(Segments) /\ Len(s) \in Nat
      /\ \A i \in 1 .. Len(s) : SegmentOK(kana, raw, s[i])
      /\ \A i \in 1 .. Len(s) - 1 : s[i + 1].start = End(s[i])
  BY DEF Tiles
<1>2. s # <<>> /\ s[1].start = a
  <2>1. s # <<>>
    BY <1>1
  <2> QED
    BY <2>1 DEF Tiles
<1>3. PICK u : u = SubSeq(s, 1, n - 1)
  OBVIOUS
<1>4. u \in Seq(Segments) /\ Len(u) = n - 1 /\ \A i \in 1 .. n - 1 : u[i] = s[i]
  <2>1. n - 1 \in Nat /\ 1 <= (n - 1) + 1 /\ n - 1 <= Len(s) /\ ((n - 1) + 1) - 1 = n - 1
    BY <1>1
  <2>2. /\ u \in Seq(Segments) /\ Len(u) = ((n - 1) + 1) - 1
        /\ \A i \in 1 .. ((n - 1) + 1) - 1 : u[i] = s[(1 + i) - 1]
    BY <1>1, <1>3, <2>1, SubSeqFacts
  <2>3. \A i \in 1 .. n - 1 : (1 + i) - 1 = i
    OBVIOUS
  <2> QED
    BY <2>1, <2>2, <2>3
<1>5. \A i \in 1 .. Len(u) : SegmentOK(kana, raw, u[i])
  BY <1>1, <1>4
<1>6. ASSUME NEW i \in 1 .. Len(u) - 1 PROVE u[i + 1].start = End(u[i])
  <2>1. i \in 1 .. n - 1 /\ i + 1 \in 1 .. n - 1 /\ i \in 1 .. Len(s) - 1
    BY <1>1, <1>4
  <2> QED
    BY <1>1, <1>4, <2>1
<1>7. CASE n = 1
  <2>1. u = <<>>
    BY <1>4, <1>7
  <2> QED
    BY <1>2, <1>3, <1>7, <2>1, TilesEmpty
<1>8. CASE n # 1
  <2>1. n - 1 \in 1 .. Len(s) - 1 /\ (n - 1) + 1 = n /\ 1 \in 1 .. n - 1 /\ n - 1 \in 1 .. n - 1
    BY <1>1, <1>8
  <2>2. u # <<>> /\ u[1] = s[1] /\ u[Len(u)] = s[n - 1] /\ End(s[n - 1]) = s[n].start
    BY <1>1, <1>4, <2>1
  <2> QED
    BY <1>2, <1>3, <1>4, <1>5, <1>6, <2>2 DEF Tiles
<1> QED
  BY <1>7, <1>8

LEMMA TilesSuffix ==
  ASSUME NEW kana, NEW raw, NEW s, NEW a, NEW b, Tiles(kana, raw, s, a, b), NEW n \in 1 .. Len(s)
  PROVE  Tiles(kana, raw, SubSeq(s, n + 1, Len(s)), End(s[n]), b)
<1>1. /\ s \in Seq(Segments) /\ Len(s) \in Nat
      /\ \A i \in 1 .. Len(s) : SegmentOK(kana, raw, s[i])
      /\ \A i \in 1 .. Len(s) - 1 : s[i + 1].start = End(s[i])
  BY DEF Tiles
<1>2. s # <<>> /\ End(s[Len(s)]) = b
  <2>1. s # <<>>
    BY <1>1
  <2> QED
    BY <2>1 DEF Tiles
<1>3. PICK u : u = SubSeq(s, n + 1, Len(s))
  OBVIOUS
<1>4. u \in Seq(Segments) /\ Len(u) = Len(s) - n /\ \A i \in 1 .. Len(s) - n : u[i] = s[n + i]
  <2>1. n + 1 \in Nat /\ 1 <= n + 1 /\ n + 1 <= Len(s) + 1 /\ (Len(s) + 1) - (n + 1) = Len(s) - n
    BY <1>1
  <2>2. /\ u \in Seq(Segments) /\ Len(u) = (Len(s) + 1) - (n + 1)
        /\ \A i \in 1 .. (Len(s) + 1) - (n + 1) : u[i] = s[((n + 1) + i) - 1]
    BY <1>1, <1>3, <2>1, SubSeqFacts
  <2>3. \A i \in 1 .. Len(s) - n : ((n + 1) + i) - 1 = n + i
    OBVIOUS
  <2> QED
    BY <2>1, <2>2, <2>3
<1>5. ASSUME NEW i \in 1 .. Len(u) PROVE SegmentOK(kana, raw, u[i])
  <2>1. n + i \in 1 .. Len(s) /\ i \in 1 .. Len(s) - n
    BY <1>1, <1>4
  <2> QED
    BY <1>1, <1>4, <2>1
<1>6. ASSUME NEW i \in 1 .. Len(u) - 1 PROVE u[i + 1].start = End(u[i])
  <2>1. /\ i \in 1 .. Len(s) - n /\ i + 1 \in 1 .. Len(s) - n /\ n + i \in 1 .. Len(s) - 1
        /\ n + (i + 1) = (n + i) + 1
    BY <1>1, <1>4
  <2> QED
    BY <1>1, <1>4, <2>1
<1>7. CASE n = Len(s)
  <2>1. u = <<>>
    BY <1>1, <1>4, <1>7
  <2> QED
    BY <1>2, <1>3, <1>7, <2>1, TilesEmpty
<1>8. CASE n # Len(s)
  <2>1. /\ n \in 1 .. Len(s) - 1 /\ 1 \in 1 .. Len(s) - n /\ Len(s) - n \in 1 .. Len(s) - n
        /\ n + (Len(s) - n) = Len(s)
    BY <1>1, <1>8
  <2>2. u # <<>> /\ u[1] = s[n + 1] /\ u[Len(u)] = s[Len(s)] /\ s[n + 1].start = End(s[n])
    <3>1. u[1] = s[n + 1]
      BY <1>4, <2>1
    <3>2. u[Len(u)] = s[Len(s)]
      BY <1>4, <2>1
    <3>3. s[n + 1].start = End(s[n])
      BY <1>1, <2>1
    <3>4. Len(u) > 0
      BY <1>4, <2>1
    <3>5. u # <<>>
      BY <1>4, <3>4, NonEmpty
    <3> QED
      BY <3>1, <3>2, <3>3, <3>5
  <2> QED
    BY <1>2, <1>3, <1>4, <1>5, <1>6, <2>2 DEF Tiles
<1> QED
  BY <1>7, <1>8

LEMMA SurfaceType ==
  ASSUME NEW reading \in Seq(Kana), NEW form \in Forms
  PROVE  Surface(reading, form) \in Surfaces
BY SpellType DEF Surface, Surfaces

LEMMA OrderFacts ==
  ASSUME NEW order \in Orders
  PROVE  order \in Seq(Forms) /\ Len(order) \in Nat \ {0}
<1>1. order \in Seq(Forms) /\ "hiragana" \in ToSet(order)
  BY FormsAssumption
<1>2. \E i \in DOMAIN order : order[i] = "hiragana"
  BY <1>1 DEF ToSet
<1> QED
  BY <1>1, <1>2

LEMMA CandidatesFacts ==
  ASSUME NEW reading \in Seq(Kana), NEW order \in Seq(Forms)
  PROVE  /\ Candidates(reading, order) \in Seq(Surfaces)
         /\ Len(Candidates(reading, order)) = Len(order)
         /\ \A k \in 1 .. Len(order) :
              Candidates(reading, order)[k].keys = Spell(reading)
<1>1. \A i \in 1 .. Len(order) : order[i] \in Forms /\ Surface(reading, order[i]) \in Surfaces
  BY SurfaceType
<1>2. Candidates(reading, order) \in Seq(Surfaces)
  BY <1>1 DEF Candidates
<1> QED
  BY <1>2 DEF Candidates, Surface

(* The segment was looked up for this reading and has not been touched.     *)
LookedUp(segment, reading, start) ==
  \E order \in Orders : segment = NewSegment(reading, start, order)

LEMMA NewSegmentOK ==
  ASSUME NEW kana, NEW raw, NEW reading \in Seq(Kana), NEW start \in Nat,
         Placed(kana, reading, start),
         NEW segment, LookedUp(segment, reading, start)
  PROVE  /\ SegmentOK(kana, raw, segment)
         /\ segment.start = start /\ segment.reading = reading
         /\ End(segment) = start + Len(reading)
<1>0. PICK order \in Orders : segment = NewSegment(reading, start, order)
  BY DEF LookedUp
<1>1. order \in Seq(Forms) /\ Len(order) \in Nat \ {0}
  BY OrderFacts
<1>2. PICK c : c = Candidates(reading, order)
  OBVIOUS
<1>3. /\ c \in Seq(Surfaces) /\ Len(c) = Len(order)
      /\ \A k \in 1 .. Len(order) : c[k].keys = Spell(reading)
  BY <1>1, <1>2, CandidatesFacts
<1>4. segment = [reading |-> reading, start |-> start, candidates |-> c, selected |-> 1,
                 userSelected |-> FALSE, choice |-> NoConversion]
  BY <1>0, <1>2 DEF NewSegment
<1>5. segment \in Segments
  BY <1>3, <1>4 DEF Segments
<1>6. /\ segment.reading = reading /\ segment.start = start /\ segment.candidates = c
      /\ segment.selected = 1 /\ segment.userSelected = FALSE
  BY <1>4
<1>7. Piece(kana, segment)
  BY <1>6 DEF Piece
<1>8. Selected(segment)
  BY <1>1, <1>3, <1>6 DEF Selected
<1>9. Spelled(raw, segment)
  BY <1>3, <1>6 DEF Spelled, SpelledAs, SurfaceOK
<1> QED
  BY <1>5, <1>6, <1>7, <1>8, <1>9 DEF SegmentOK, End

LEMMA LayoutFacts ==
  ASSUME NEW n \in Nat \ {0}, NEW b \in Layouts(n)
  PROVE  /\ b \in Seq(Nat) /\ Len(b) \in Nat /\ Len(b) < n
         /\ \A i \in 1 .. Len(b) : b[i] \in 1 .. n - 1
         /\ \A i, j \in 1 .. Len(b) : i < j => b[i] < b[j]
<1>1. PICK k \in 0 .. n - 1 : b \in [1 .. k -> 1 .. n - 1]
  BY DEF Layouts
<1>2. \A i, j \in DOMAIN b : i < j => b[i] < b[j]
  BY DEF Layouts
<1>3. k \in Nat /\ k < n /\ \A i \in 1 .. k : b[i] \in 1 .. n - 1 /\ b[i] \in Nat
  BY <1>1
<1>4. b \in Seq(Nat) /\ Len(b) = k /\ DOMAIN b = 1 .. k
  BY <1>1, <1>3
<1> QED
  BY <1>2, <1>3, <1>4

(* Where the pieces of a layout start, and where the last one ends.         *)
CutsAt(cuts, b, n) ==
  /\ cuts[1] = 0 /\ cuts[Len(b) + 2] = n
  /\ \A i \in 1 .. Len(b) : cuts[i + 1] = b[i]
  /\ \A i \in 1 .. Len(b) + 1 :
       cuts[i] \in Nat /\ cuts[i + 1] \in Nat /\ cuts[i] < cuts[i + 1] /\ cuts[i + 1] <= n

LEMMA CutsFacts ==
  ASSUME NEW n \in Nat \ {0}, NEW b \in Layouts(n),
         NEW cuts, cuts = << 0 >> \o b \o <<n>>
  PROVE  CutsAt(cuts, b, n)
<1>1. /\ b \in Seq(Nat) /\ Len(b) \in Nat
      /\ \A i \in 1 .. Len(b) : b[i] \in 1 .. n - 1
      /\ \A i, j \in 1 .. Len(b) : i < j => b[i] < b[j]
  BY LayoutFacts
<1>2. PICK c : c = <<0>> \o b
  OBVIOUS
<1>3. <<0>> \in Seq(Nat) /\ Len(<<0>>) = 1 /\ <<0>>[1] = 0
      /\ <<n>> \in Seq(Nat) /\ Len(<<n>>) = 1 /\ <<n>>[1] = n
  OBVIOUS
<1>4. /\ c \in Seq(Nat) /\ Len(c) = 1 + Len(b)
      /\ \A i \in 1 .. 1 + Len(b) : c[i] = IF i <= 1 THEN <<0>>[i] ELSE b[i - 1]
  BY <1>1, <1>2, <1>3, ConcatProperties
<1>5. /\ cuts \in Seq(Nat) /\ Len(cuts) = (1 + Len(b)) + 1
      /\ \A i \in 1 .. (1 + Len(b)) + 1 :
           cuts[i] = IF i <= 1 + Len(b) THEN c[i] ELSE <<n>>[i - (1 + Len(b))]
  BY <1>2, <1>3, <1>4, ConcatProperties
<1>6. cuts[1] = 0
  BY <1>1, <1>3, <1>4, <1>5
<1>7. cuts[Len(b) + 2] = n
  <2>1. /\ Len(b) + 2 \in 1 .. (1 + Len(b)) + 1 /\ ~(Len(b) + 2 <= 1 + Len(b))
        /\ (Len(b) + 2) - (1 + Len(b)) = 1
    BY <1>1
  <2> QED
    BY <1>3, <1>5, <2>1
<1>8. ASSUME NEW i \in 1 .. Len(b) PROVE cuts[i + 1] = b[i]
  <2>1. /\ i + 1 \in 1 .. (1 + Len(b)) + 1 /\ i + 1 <= 1 + Len(b)
        /\ i + 1 \in 1 .. 1 + Len(b) /\ ~(i + 1 <= 1) /\ (i + 1) - 1 = i
    BY <1>1
  <2> QED
    BY <1>4, <1>5, <2>1
<1>9. ASSUME NEW i \in 1 .. Len(b) + 1
      PROVE  cuts[i] \in Nat /\ cuts[i + 1] \in Nat /\ cuts[i] < cuts[i + 1] /\ cuts[i + 1] <= n
  <2>1. CASE i = 1 /\ Len(b) = 0
    <3>1. i + 1 = Len(b) + 2
      BY <2>1
    <3> QED
      BY <1>6, <1>7, <2>1, <3>1
  <2>2. CASE i = 1 /\ Len(b) # 0
    <3>1. 1 \in 1 .. Len(b)
      BY <1>1, <2>2
    <3>2. cuts[i + 1] = b[1] /\ b[1] \in 1 .. n - 1
      BY <1>1, <1>8, <2>2, <3>1
    <3> QED
      BY <1>6, <2>2, <3>2
  <2>3. CASE i # 1 /\ i = Len(b) + 1
    <3>1. i - 1 \in 1 .. Len(b) /\ (i - 1) + 1 = i /\ i + 1 = Len(b) + 2
      BY <1>1, <2>3
    <3>2. cuts[i] = b[i - 1] /\ b[i - 1] \in 1 .. n - 1
      BY <1>1, <1>8, <3>1
    <3> QED
      BY <1>7, <3>1, <3>2
  <2>4. CASE i # 1 /\ i # Len(b) + 1
    <3>1. i - 1 \in 1 .. Len(b) /\ (i - 1) + 1 = i /\ i \in 1 .. Len(b) /\ i - 1 < i
      BY <1>1, <2>4
    <3>2. cuts[i] = b[i - 1] /\ cuts[i + 1] = b[i]
      BY <1>8, <3>1
    <3>3. b[i - 1] \in 1 .. n - 1 /\ b[i] \in 1 .. n - 1 /\ b[i - 1] < b[i]
      BY <1>1, <3>1
    <3> QED
      BY <3>2, <3>3
  <2> QED
    BY <2>1, <2>2, <2>3, <2>4
<1> QED
  BY <1>6, <1>7, <1>8, <1>9 DEF CutsAt

LEMMA Increases ==
  ASSUME NEW n \in Nat, NEW f,
         \A i \in 1 .. n : f[i] \in Nat,
         \A i \in 1 .. n - 1 : f[i] < f[i + 1]
  PROVE  \A i, j \in 1 .. n : i <= j => f[i] + (j - i) <= f[j]
<1> DEFINE T == {d \in Nat : \A i \in 1 .. n : i + d <= n => f[i] + d <= f[i + d]}
<1>1. 0 \in T
  OBVIOUS
<1>2. ASSUME NEW d \in Nat, d \in T PROVE d + 1 \in T
  <2>1. ASSUME NEW i \in 1 .. n, i + (d + 1) <= n PROVE f[i] + (d + 1) <= f[i + (d + 1)]
    <3>1. /\ i + d <= n /\ i + d \in 1 .. n - 1 /\ i + d \in 1 .. n
          /\ (i + d) + 1 = i + (d + 1) /\ i + (d + 1) \in 1 .. n
      BY <2>1
    <3>2. f[i] + d <= f[i + d]
      BY <1>2, <3>1
    <3>3. f[i + d] < f[i + (d + 1)] /\ f[i] \in Nat /\ f[i + d] \in Nat /\ f[i + (d + 1)] \in Nat
      BY <3>1
    <3> QED
      BY <3>2, <3>3
  <2> QED
    BY <2>1
<1>3. \A d \in Nat : d \in T
  <2> HIDE DEF T
  <2> QED
    BY <1>1, <1>2, NatSetInduction
<1>4. ASSUME NEW i \in 1 .. n, NEW j \in 1 .. n, i <= j PROVE f[i] + (j - i) <= f[j]
  <2>1. j - i \in Nat /\ i + (j - i) = j
    BY <1>4
  <2> QED
    BY <1>3, <2>1
<1> QED
  BY <1>4

LEMMA SegmentFacts ==
  ASSUME NEW kana, NEW raw, NEW segment, SegmentOK(kana, raw, segment)
  PROVE  /\ segment.start \in Nat /\ segment.reading \in Seq(Kana)
         /\ Len(segment.reading) \in Nat \ {0} /\ End(segment) \in Nat
         /\ segment.start < End(segment) /\ End(segment) <= Len(kana)
         /\ segment.candidates \in Seq(Surfaces)
         /\ segment.selected \in 1 .. Len(segment.candidates)
<1>1. /\ segment.start \in Nat /\ segment.reading \in Seq(Kana) /\ segment.reading # <<>>
      /\ segment.candidates \in Seq(Surfaces) /\ segment.selected \in Nat \ {0}
  BY DEF SegmentOK, Segments, Piece, Placed
<1>2. Len(segment.reading) \in Nat \ {0}
  BY <1>1, NonEmpty
<1>3. End(segment) <= Len(kana) /\ segment.selected <= Len(segment.candidates)
  BY DEF SegmentOK, Piece, Placed, Selected, End
<1>4. Len(segment.candidates) \in Nat
  BY <1>1
<1>5. End(segment) \in Nat /\ segment.start < End(segment)
  BY <1>1, <1>2 DEF End
<1> QED
  BY <1>1, <1>2, <1>3, <1>4, <1>5

LEMMA PlaceFacts ==
  ASSUME NEW a \in Nat, NEW e \in Nat, NEW l \in Nat, NEW x \in Nat, NEW y \in Nat,
         a < e, e <= l, x < y, y <= e - a
  PROVE  a + x \in Nat /\ (a + x) + (y - x) = a + y /\ a + y <= l /\ y - x > 0
OBVIOUS

(* The segments are the kana from position a to e, cut along the layout b.  *)
Cut(segments, kana, a, e, b) ==
  /\ b \in Layouts(e - a)
  /\ segments \in SegmentLists(SubSeq(kana, a + 1, e), a, b)

StartAlong(segments, a, b) ==
  \A i \in 1 .. Len(b) : segments[i + 1].start = a + b[i]

LEMMA SegmentListsOK ==
  ASSUME NEW kana \in Seq(Kana), NEW raw, NEW a \in Nat, NEW e \in Nat, a < e, e <= Len(kana),
         NEW b, NEW segments, Cut(segments, kana, a, e, b)
  PROVE  /\ Tiles(kana, raw, segments, a, e)
         /\ segments # <<>> /\ Len(segments) = Len(b) + 1
         /\ StartAlong(segments, a, b)
<1>0. PICK reading : reading = SubSeq(kana, a + 1, e)
  OBVIOUS
<1>a. b \in Layouts(e - a) /\ segments \in SegmentLists(reading, a, b)
  BY <1>0 DEF Cut
<1>1. /\ reading \in Seq(Kana) /\ Len(reading) = e - a /\ e - a \in Nat \ {0}
  <2>1. a + 1 \in Nat /\ 1 <= a + 1 /\ a + 1 <= e + 1 /\ (e + 1) - (a + 1) = e - a
        /\ e - a \in Nat \ {0}
    OBVIOUS
  <2>2. reading \in Seq(Kana) /\ Len(reading) = (e + 1) - (a + 1)
    BY <1>0, <2>1, SubSeqFacts
  <2> QED
    BY <2>1, <2>2
<1>2. PICK cuts : cuts = <<0>> \o b \o <<Len(reading)>>
  OBVIOUS
<1>3. PICK count : count = Len(b) + 1
  OBVIOUS
<1>4. /\ cuts[1] = 0 /\ cuts[Len(b) + 2] = e - a
      /\ \A i \in 1 .. Len(b) : cuts[i + 1] = b[i]
      /\ \A i \in 1 .. Len(b) + 1 :
           cuts[i] \in Nat /\ cuts[i + 1] \in Nat /\ cuts[i] < cuts[i + 1] /\ cuts[i + 1] <= e - a
  <2>1. PICK n \in Nat \ {0} : n = e - a
    BY <1>1
  <2>2. cuts = <<0>> \o b \o <<n>> /\ b \in Layouts(n)
    BY <1>a, <1>1, <1>2, <2>1
  <2>3. CutsAt(cuts, b, n)
    BY <2>2, CutsFacts
  <2> QED
    BY <2>1, <2>3 DEF CutsAt
<1>5. Len(b) \in Nat /\ count \in Nat \ {0}
  BY <1>a, <1>1, <1>3, LayoutFacts
<1>6. PICK orders \in [1 .. count -> Orders] :
        segments = [i \in 1 .. count |->
                      NewSegment(SubSeq(reading, cuts[i] + 1, cuts[i + 1]), a + cuts[i], orders[i])]
  BY <1>a, <1>2, <1>3 DEF SegmentLists
<1>7. ASSUME NEW i \in 1 .. count
      PROVE  /\ SegmentOK(kana, raw, segments[i])
             /\ segments[i].start = a + cuts[i] /\ End(segments[i]) = a + cuts[i + 1]
  <2>1. PICK x \in Nat, y \in Nat : x = cuts[i] /\ y = cuts[i + 1] /\ x < y /\ y <= e - a
    BY <1>3, <1>4
  <2>2. PICK r : r = SubSeq(reading, x + 1, y)
    OBVIOUS
  <2>3. r = SubSeq(kana, (a + x) + 1, a + y)
    <3>1. a <= e /\ x <= y /\ y <= e - a
      BY <2>1
    <3>2. SubSeq(SubSeq(kana, a + 1, e), x + 1, y) = SubSeq(kana, (a + x) + 1, a + y)
      BY <3>1, SubSubSeq
    <3> QED
      BY <1>0, <2>2, <3>2
  <2>4. r \in Seq(Kana) /\ Len(r) = y - x
    <3>a. x < y /\ y <= Len(reading)
      BY <1>1, <2>1
    <3>1. /\ x + 1 \in Nat /\ 1 <= x + 1 /\ x + 1 <= y + 1 /\ y <= Len(reading)
          /\ (y + 1) - (x + 1) = y - x
      BY <3>a
    <3>2. r \in Seq(Kana) /\ Len(r) = (y + 1) - (x + 1)
      BY <1>1, <2>2, <3>1, SubSeqFacts
    <3> QED
      BY <3>1, <3>2
  <2>5. /\ a + x \in Nat /\ (a + x) + Len(r) = a + y /\ a + y <= Len(kana) /\ Len(r) > 0
    <3>1. Len(kana) \in Nat /\ x < y /\ y <= e - a
      BY <2>1
    <3>2. a + x \in Nat /\ (a + x) + (y - x) = a + y /\ a + y <= Len(kana) /\ y - x > 0
      BY <3>1, PlaceFacts
    <3> QED
      BY <2>4, <3>2
  <2>6. r # <<>>
    BY <2>4, <2>5, NonEmpty
  <2>7. segments[i] = NewSegment(r, a + x, orders[i]) /\ orders[i] \in Orders
    BY <1>6, <2>1, <2>2
  <2>8. r = SubSeq(kana, (a + x) + 1, (a + x) + Len(r)) /\ (a + x) + Len(r) <= Len(kana)
    BY <2>3, <2>5
  <2>9. /\ SegmentOK(kana, raw, segments[i])
        /\ segments[i].start = a + x /\ End(segments[i]) = (a + x) + Len(r)
    <3>1. PICK start \in Nat : start = a + x
      BY <2>5
    <3>2. PICK segment : segment = segments[i]
      OBVIOUS
    <3>3. Placed(kana, r, start)
      BY <2>6, <2>8, <3>1 DEF Placed
    <3>4. r \in Seq(Kana) /\ LookedUp(segment, r, start)
      BY <2>4, <2>7, <3>1, <3>2 DEF LookedUp
    <3>5. /\ SegmentOK(kana, raw, segment) /\ segment.start = start
          /\ End(segment) = start + Len(r)
      BY <3>3, <3>4, NewSegmentOK
    <3> QED
      BY <3>1, <3>2, <3>5
  <2> QED
    BY <2>1, <2>5, <2>9
<1>8. segments \in Seq(Segments) /\ Len(segments) = count /\ segments # <<>>
  <2>1. \A i \in 1 .. count : segments[i] \in Segments
    BY <1>7 DEF SegmentOK
  <2>2. DOMAIN segments = 1 .. count /\ segments = [i \in 1 .. count |-> segments[i]]
    BY <1>6
  <2>3. segments \in [1 .. count -> Segments]
    BY <2>1, <2>2
  <2>4. segments \in Seq(Segments) /\ Len(segments) = count
    BY <1>5, <2>3
  <2>5. segments # <<>>
    BY <1>5, <2>4, NonEmpty
  <2> QED
    BY <2>4, <2>5
<1>9. ASSUME NEW i \in 1 .. Len(segments) - 1 PROVE segments[i + 1].start = End(segments[i])
  <2>1. i \in 1 .. count /\ i + 1 \in 1 .. count
    BY <1>5, <1>8
  <2> QED
    BY <1>7, <2>1
<1>10. segments[1].start = a /\ End(segments[Len(segments)]) = e
  <2>1. 1 \in 1 .. count /\ count \in 1 .. count /\ count + 1 = Len(b) + 2
    BY <1>3, <1>5
  <2>2. segments[1].start = a + 0 /\ End(segments[count]) = a + (e - a)
    BY <1>4, <1>7, <2>1
  <2>3. a + 0 = a /\ a + (e - a) = e
    OBVIOUS
  <2> QED
    BY <1>8, <2>2, <2>3
<1>11. Tiles(kana, raw, segments, a, e)
  BY <1>7, <1>8, <1>9, <1>10 DEF Tiles
<1>12. ASSUME NEW i \in 1 .. Len(b) PROVE segments[i + 1].start = a + b[i]
  <2>1. i + 1 \in 1 .. count
    BY <1>3, <1>5
  <2> QED
    BY <1>4, <1>7, <2>1
<1> QED
  BY <1>3, <1>8, <1>11, <1>12 DEF StartAlong

LEMMA BoundariesType ==
  ASSUME NEW kana \in Seq(Kana), NEW raw, NEW segments,
         Tiles(kana, raw, segments, 0, Len(kana)), segments # <<>>
  PROVE  /\ Len(kana) \in Nat \ {0}
         /\ BoundariesOf(segments) \in Layouts(Len(kana))
<1>1. /\ segments \in Seq(Segments) /\ Len(segments) \in Nat \ {0}
      /\ \A i \in 1 .. Len(segments) - 1 : segments[i + 1].start = End(segments[i])
      /\ \A i \in 1 .. Len(segments) : SegmentOK(kana, raw, segments[i])
      /\ segments[1].start = 0
  BY NonEmpty DEF Tiles
<1>2. PICK n \in Nat \ {0} : n = Len(segments)
  BY <1>1
<1>3. PICK starts : starts = [i \in 1 .. n |-> segments[i].start]
  OBVIOUS
<1>4. \A i \in 1 .. n : /\ starts[i] \in Nat /\ starts[i] < End(segments[i])
                        /\ End(segments[i]) \in Nat /\ End(segments[i]) <= Len(kana)
  BY <1>1, <1>2, <1>3, SegmentFacts
<1>5. ASSUME NEW i \in 1 .. n - 1 PROVE starts[i] < starts[i + 1]
  <2>1. i \in 1 .. n /\ i + 1 \in 1 .. n /\ i \in 1 .. Len(segments) - 1
    BY <1>2
  <2>2. starts[i + 1] = End(segments[i])
    BY <1>1, <1>3, <2>1
  <2> QED
    BY <1>4, <2>1, <2>2
<1>6. \A i, j \in 1 .. n : i <= j => starts[i] + (j - i) <= starts[j]
  BY <1>4, <1>5, Increases
<1>7. 1 \in 1 .. n /\ starts[1] = 0 /\ Len(kana) \in Nat
  BY <1>1, <1>3
<1>8. Len(kana) \in Nat \ {0}
  BY <1>4, <1>7
<1>9. n - 1 \in 0 .. Len(kana) - 1
  <2>1. n \in 1 .. n /\ 1 <= n /\ n - 1 \in Nat
    OBVIOUS
  <2>2. starts[1] + (n - 1) <= starts[n]
    BY <1>6, <1>7, <2>1
  <2>3. starts[n] < Len(kana) /\ starts[n] \in Nat
    BY <1>4, <1>7, <2>1
  <2> QED
    BY <1>7, <2>1, <2>2, <2>3
<1>10. PICK b : b = BoundariesOf(segments)
  OBVIOUS
<1>11. b = [i \in 1 .. n - 1 |-> segments[i + 1].start]
  BY <1>2, <1>10 DEF BoundariesOf
<1>12. ASSUME NEW i \in 1 .. n - 1
       PROVE  b[i] = starts[i + 1] /\ b[i] \in 1 .. Len(kana) - 1
  <2>1. i + 1 \in 1 .. n /\ 1 <= i + 1 /\ (i + 1) - 1 = i
    OBVIOUS
  <2>2. b[i] = starts[i + 1]
    BY <1>3, <1>11, <2>1
  <2>3. starts[1] + ((i + 1) - 1) <= starts[i + 1]
    BY <1>6, <1>7, <2>1
  <2>4. starts[i + 1] \in Nat /\ starts[i + 1] < Len(kana)
    BY <1>4, <1>7, <2>1
  <2> QED
    BY <1>7, <2>1, <2>2, <2>3, <2>4
<1>13. b \in [1 .. n - 1 -> 1 .. Len(kana) - 1]
  BY <1>11, <1>12
<1>14. ASSUME NEW i \in DOMAIN b, NEW j \in DOMAIN b, i < j PROVE b[i] < b[j]
  <2>1. i \in 1 .. n - 1 /\ j \in 1 .. n - 1
    BY <1>11
  <2>2. i + 1 \in 1 .. n /\ j + 1 \in 1 .. n /\ i + 1 <= j + 1 /\ (j + 1) - (i + 1) > 0
        /\ (j + 1) - (i + 1) \in Int
    BY <1>14, <2>1
  <2>3. starts[i + 1] + ((j + 1) - (i + 1)) <= starts[j + 1]
    BY <1>6, <2>2
  <2>4. starts[i + 1] \in Nat /\ starts[j + 1] \in Nat
    BY <1>4, <2>2
  <2>5. starts[i + 1] < starts[j + 1]
    BY <2>2, <2>3, <2>4
  <2> QED
    BY <1>12, <2>1, <2>5
<1>15. b \in Layouts(Len(kana))
  BY <1>9, <1>13, <1>14 DEF Layouts
<1> QED
  BY <1>8, <1>10, <1>15

LEMMA TilesSame ==
  ASSUME NEW kana, NEW raw, NEW s, NEW a, NEW b, Tiles(kana, raw, s, a, b),
         NEW t \in Seq(Segments), Len(t) = Len(s),
         \A i \in 1 .. Len(s) :
           /\ SegmentOK(kana, raw, t[i])
           /\ t[i].start = s[i].start /\ t[i].reading = s[i].reading
  PROVE  Tiles(kana, raw, t, a, b)
<1>1. /\ s \in Seq(Segments) /\ Len(s) \in Nat
      /\ \A i \in 1 .. Len(s) - 1 : s[i + 1].start = End(s[i])
  BY DEF Tiles
<1>2. \A i \in 1 .. Len(s) : End(t[i]) = End(s[i])
  BY DEF End
<1>3. ASSUME NEW i \in 1 .. Len(t) - 1 PROVE t[i + 1].start = End(t[i])
  <2>1. i \in 1 .. Len(s) /\ i + 1 \in 1 .. Len(s) /\ i \in 1 .. Len(s) - 1
    BY <1>1
  <2> QED
    BY <1>1, <1>2, <2>1
<1>4. CASE s = <<>>
  <2>1. t = <<>> /\ a = b
    BY <1>4 DEF Tiles
  <2> QED
    BY <2>1, TilesEmpty
<1>5. CASE s # <<>>
  <2>1. Len(s) \in Nat \ {0} /\ s[1].start = a /\ End(s[Len(s)]) = b
    BY <1>1, <1>5, NonEmpty DEF Tiles
  <2>2. t # <<>> /\ t[1].start = a /\ End(t[Len(t)]) = b
    <3>1. 1 \in 1 .. Len(s) /\ Len(s) \in 1 .. Len(s)
      BY <2>1
    <3>2. t # <<>>
      BY <2>1, NonEmpty
    <3>3. t[1].start = a
      BY <2>1, <3>1
    <3>4. End(t[Len(t)]) = b
      BY <1>2, <2>1, <3>1
    <3> QED
      BY <3>2, <3>3, <3>4
  <2> QED
    BY <1>3, <2>2 DEF Tiles
<1> QED
  BY <1>4, <1>5

(* d is the segment with these candidates, this selection and this choice.  *)
Reselected(d, segment, candidates, selected, user, choice) ==
  d = [reading |-> segment.reading, start |-> segment.start, candidates |-> candidates,
       selected |-> selected, userSelected |-> user, choice |-> choice]

LEMMA ReselectOK ==
  ASSUME NEW kana, NEW raw, NEW segment, SegmentOK(kana, raw, segment),
         NEW candidates \in Seq(Surfaces), SpelledAs(raw, candidates, segment.reading),
         NEW selected \in 1 .. Len(candidates), NEW user \in BOOLEAN,
         NEW choice \in Surfaces \cup {NoConversion},
         user => candidates[selected] = choice,
         NEW d, Reselected(d, segment, candidates, selected, user, choice)
  PROVE  /\ SegmentOK(kana, raw, d)
         /\ d.start = segment.start /\ d.reading = segment.reading
<1>1. segment.start \in Nat /\ segment.reading \in Seq(Kana)
  BY SegmentFacts
<1>2. /\ d.reading = segment.reading /\ d.start = segment.start /\ d.candidates = candidates
      /\ d.selected = selected /\ d.userSelected = user /\ d.choice = choice
  BY DEF Reselected
<1>3. Len(candidates) \in Nat /\ selected \in Nat \ {0} /\ selected <= Len(candidates)
  OBVIOUS
<1>4. d \in Segments
  BY <1>1, <1>3 DEF Reselected, Segments
<1>5. Piece(kana, d)
  BY <1>2 DEF SegmentOK, Piece
<1>6. Selected(d)
  BY <1>2, <1>3 DEF Selected
<1>7. Spelled(raw, d)
  BY <1>2 DEF Spelled
<1> QED
  BY <1>2, <1>4, <1>5, <1>6, <1>7 DEF SegmentOK

-----------------------------------------------------------------------------
(* The invariant                                                            *)

(* The segments tile the kana, and one segment has the raw input, if any.   *)
Body(kana, segments, raw) ==
  /\ kana \in Seq(Kana)
  /\ segments # <<>>
  /\ Tiles(kana, raw, segments, 0, Len(kana))
  /\ raw # Untracked => Len(segments) = 1

(* Where the keystrokes of the preedit are: in the kana and the letters set *)
(* aside, or, after an F-key on anything but a lone n, in the kana alone.   *)
Source(c, cv) ==
  /\ c.buffer = <<>>
  /\ cv.origin = "space" => c.output = cv.kana /\ cv.preedit = Spell(cv.kana) \o cv.pending
  /\ cv.origin = "fkey" => cv.consumed
  /\ (cv.origin = "fkey" /\ ~IsLoneN(cv.pending)) =>
       cv.preedit = Spell(cv.kana) /\ cv.preedit = Spell(c.output) \o cv.pending
  /\ (~cv.consumed /\ cv.pending # <<>>) => cv.raw = Untracked

ConversionOK(c, cv) ==
  /\ cv \in ConversionStates
  /\ cv.focus <= Len(cv.segments)
  /\ Body(cv.kana, cv.segments, cv.raw)
  /\ Source(c, cv)

Entries == [reading : Seq(Kana), candidates : Seq(Surfaces)]

(* The entries of a snapshot are readings and what spells them.             *)
SnapshotOK(s) ==
  /\ s \in Seq(Entries)
  /\ \A i \in 1 .. Len(s) :
       Len(s[i].candidates) > 0 /\ SpelledAs(Untracked, s[i].candidates, s[i].reading)

LearnedOK(rows) ==
  /\ IsFiniteSet(DOMAIN rows) /\ Cardinality(DOMAIN rows) <= MaxLearned
  /\ \A text \in DOMAIN rows : Len(text) \in Nat \ {0} /\ rows[text] \in Layouts(Len(text))

(* The inductive invariant.                                                 *)
CInv ==
  /\ ConverterOK(romaji)
  /\ conversion # NoConversion => ConversionOK(romaji, conversion)
  /\ LearnedOK(learned)
  /\ \A snapshot \in pass : SnapshotOK(snapshot)
  /\ sent \in Seq(Keys)

(* d is the conversion with these segments, this focus and this raw input.  *)
Edited(d, cv, segments, focus, raw) ==
  d = [kana |-> cv.kana, segments |-> segments, focus |-> focus, raw |-> raw,
       initial |-> cv.initial, pending |-> cv.pending, consumed |-> cv.consumed,
       learnedHit |-> cv.learnedHit, origin |-> cv.origin, preedit |-> cv.preedit]

LEMMA EditOK ==
  ASSUME NEW c, NEW cv, ConversionOK(c, cv), NEW segments, NEW focus \in 1 .. Len(segments),
         NEW raw \in {cv.raw, Untracked}, Body(cv.kana, segments, raw),
         NEW d, Edited(d, cv, segments, focus, raw)
  PROVE  ConversionOK(c, d)
<1>1. /\ d.kana = cv.kana /\ d.segments = segments /\ d.focus = focus /\ d.raw = raw
      /\ d.pending = cv.pending /\ d.consumed = cv.consumed /\ d.origin = cv.origin
      /\ d.preedit = cv.preedit
  BY DEF Edited
<1>2. segments \in Seq(Segments)
  BY DEF Body, Tiles
<1>3. focus \in Nat \ {0} /\ focus <= Len(segments)
  BY <1>2
<1>4. /\ cv.kana \in Seq(Kana) /\ cv.raw \in Seq(Keys) \cup {Untracked}
      /\ cv.initial \in Seq(Nat) /\ cv.pending \in Seq(Keys) /\ cv.consumed \in BOOLEAN
      /\ cv.learnedHit \in BOOLEAN /\ cv.origin \in {"space", "fkey"} /\ cv.preedit \in Seq(Keys)
  BY DEF ConversionOK, ConversionStates
<1>5. raw \in Seq(Keys) \cup {Untracked}
  BY <1>4
<1>6. d \in ConversionStates
  BY <1>2, <1>3, <1>4, <1>5 DEF Edited, ConversionStates
<1>7. Source(c, d)
  <2>1. Source(c, cv)
    BY DEF ConversionOK
  <2>2. c.buffer = <<>>
    BY <2>1 DEF Source
  <2>3. d.origin = "space" => c.output = d.kana /\ d.preedit = Spell(d.kana) \o d.pending
    BY <1>1, <2>1 DEF Source
  <2>4. d.origin = "fkey" => d.consumed
    BY <1>1, <2>1 DEF Source
  <2>5. (d.origin = "fkey" /\ ~IsLoneN(d.pending)) =>
          d.preedit = Spell(d.kana) /\ d.preedit = Spell(c.output) \o d.pending
    BY <1>1, <2>1 DEF Source
  <2>6. (~d.consumed /\ d.pending # <<>>) => d.raw = Untracked
    BY <1>1, <2>1 DEF Source
  <2> QED
    BY <2>2, <2>3, <2>4, <2>5, <2>6 DEF Source
<1> QED
  BY <1>1, <1>3, <1>6, <1>7 DEF ConversionOK

LEMMA ConversionFacts ==
  ASSUME NEW c, NEW cv, ConversionOK(c, cv)
  PROVE  /\ cv \in ConversionStates /\ cv.segments \in Seq(Segments)
         /\ Len(cv.segments) \in Nat \ {0} /\ cv.focus \in 1 .. Len(cv.segments)
         /\ Tiles(cv.kana, cv.raw, cv.segments, 0, Len(cv.kana))
         /\ \A i \in 1 .. Len(cv.segments) : SegmentOK(cv.kana, cv.raw, cv.segments[i])
         /\ cv.kana \in Seq(Kana) /\ cv.raw \in Seq(Keys) \cup {Untracked}
         /\ cv.pending \in Seq(Keys) /\ Edited(cv, cv, cv.segments, cv.focus, cv.raw)
<1>1. /\ cv \in ConversionStates /\ cv.kana \in Seq(Kana) /\ cv.segments \in Seq(Segments)
      /\ cv.focus \in Nat \ {0} /\ cv.raw \in Seq(Keys) \cup {Untracked}
      /\ cv.pending \in Seq(Keys)
  BY DEF ConversionOK, ConversionStates
<1>2. Edited(cv, cv, cv.segments, cv.focus, cv.raw)
  BY <1>1 DEF Edited, ConversionStates
<1>3. cv.segments # <<>> /\ Tiles(cv.kana, cv.raw, cv.segments, 0, Len(cv.kana))
  BY DEF ConversionOK, Body
<1>4. Len(cv.segments) \in Nat \ {0}
  BY <1>1, <1>3, NonEmpty
<1>5. cv.focus \in 1 .. Len(cv.segments)
  BY <1>1, <1>4 DEF ConversionOK
<1>6. \A i \in 1 .. Len(cv.segments) : SegmentOK(cv.kana, cv.raw, cv.segments[i])
  BY <1>3 DEF Tiles
<1> QED
  BY <1>1, <1>2, <1>3, <1>4, <1>5, <1>6

(* Replacing the focused segment by one with the same reading.              *)
LEMMA ReplaceOK ==
  ASSUME NEW c, NEW cv, ConversionOK(c, cv),
         NEW segment, SegmentOK(cv.kana, cv.raw, segment),
         segment.start = cv.segments[cv.focus].start,
         segment.reading = cv.segments[cv.focus].reading,
         NEW d, Edited(d, cv, [cv.segments EXCEPT ![cv.focus] = segment], cv.focus, cv.raw)
  PROVE  ConversionOK(c, d)
<1>1. /\ cv.segments \in Seq(Segments) /\ Len(cv.segments) \in Nat \ {0}
      /\ cv.focus \in 1 .. Len(cv.segments)
      /\ Tiles(cv.kana, cv.raw, cv.segments, 0, Len(cv.kana))
      /\ \A i \in 1 .. Len(cv.segments) : SegmentOK(cv.kana, cv.raw, cv.segments[i])
      /\ cv.kana \in Seq(Kana)
  BY ConversionFacts
<1>2. PICK t : t = [cv.segments EXCEPT ![cv.focus] = segment]
  OBVIOUS
<1>3. segment \in Segments
  BY DEF SegmentOK
<1>4. /\ t \in Seq(Segments) /\ Len(t) = Len(cv.segments)
      /\ \A i \in 1 .. Len(cv.segments) :
           t[i] = IF i = cv.focus THEN segment ELSE cv.segments[i]
  BY <1>1, <1>2, <1>3, ExceptSeq
<1>5. \A i \in 1 .. Len(cv.segments) :
        /\ SegmentOK(cv.kana, cv.raw, t[i])
        /\ t[i].start = cv.segments[i].start /\ t[i].reading = cv.segments[i].reading
  BY <1>1, <1>4
<1>6. Tiles(cv.kana, cv.raw, t, 0, Len(cv.kana))
  BY <1>1, <1>4, <1>5, TilesSame
<1>7. t # <<>>
  BY <1>1, <1>4, NonEmpty
<1>8. cv.raw # Untracked => Len(t) = 1
  BY <1>4 DEF ConversionOK, Body
<1>9. Body(cv.kana, t, cv.raw)
  BY <1>1, <1>6, <1>7, <1>8 DEF Body
<1>10. cv.focus \in 1 .. Len(t) /\ Edited(d, cv, t, cv.focus, cv.raw) /\ cv.raw \in {cv.raw, Untracked}
  BY <1>1, <1>2, <1>4
<1> QED
  BY <1>9, <1>10, EditOK

LEMMA EmptySent == NothingSent => sent' \in Seq(Keys)
BY DEF NothingSent

LEMMA LearnedType ==
  ASSUME NEW rows, LearnedOK(rows)
  PROVE  \A text \in DOMAIN rows : rows[text] \in Seq(Nat)
<1> SUFFICES ASSUME NEW text \in DOMAIN rows PROVE rows[text] \in Seq(Nat)
  OBVIOUS
<1>1. PICK n \in Nat \ {0} : n = Len(text)
  BY DEF LearnedOK
<1>2. rows[text] \in Layouts(n)
  BY <1>1 DEF LearnedOK
<1> QED
  BY <1>2, LayoutFacts

(* A step that edits the conversion and leaves the converter alone.         *)
LEMMA EditStep ==
  ASSUME CInv, NothingSent, UNCHANGED <<romaji, learned>>,
         conversion' # NoConversion => ConversionOK(romaji, conversion'),
         pass' \subseteq pass
  PROVE  CInv'
<1>1. romaji' = romaji /\ learned' = learned
  OBVIOUS
<1>2. ConverterOK(romaji)' /\ LearnedOK(learned)'
  BY <1>1 DEF CInv
<1>3. (conversion # NoConversion => ConversionOK(romaji, conversion))'
  BY <1>1
<1>4. (\A snapshot \in pass : SnapshotOK(snapshot))'
  BY DEF CInv
<1> QED
  BY <1>2, <1>3, <1>4, EmptySent DEF CInv

-----------------------------------------------------------------------------
(* Typing                                                                   *)

LEMMA KeyType ==
  ASSUME NEW letter \in Letters, NEW k \in FreshKeys(letter)
  PROVE  k \in Keys
BY LettersAssumption DEF FreshKeys, Key, Keys

LEMMA TypeKeyOK == CInv /\ TypeKey => CInv'
<1> SUFFICES ASSUME CInv, TypeKey PROVE CInv'
  OBVIOUS
<1>1. /\ conversion' = NoConversion /\ learned' = learned /\ pass' = pass /\ NothingSent
  BY DEF TypeKey
<1>2. ConverterOK(romaji)
  BY DEF CInv
<1>a. PICK letter \in Letters : \E k \in FreshKeys(letter) :
        IF letter = "s" THEN romaji' = AppendRaw(FlushPendingAsLiteral(romaji), k)
        ELSE romaji' \in ProcessKey(romaji, k)
  BY DEF TypeKey
<1>3. PICK k \in FreshKeys(letter) :
        IF letter = "s" THEN romaji' = AppendRaw(FlushPendingAsLiteral(romaji), k)
        ELSE romaji' \in ProcessKey(romaji, k)
  BY <1>a
<1>4. k \in Keys
  BY KeyType
<1>5. ConverterOK(romaji')
  <2>1. CASE letter = "s"
    <3>1. PICK c : c = FlushPendingAsLiteral(romaji)
      OBVIOUS
    <3>2. ConverterOK(c) /\ c.buffer = <<>>
      BY <1>2, <3>1, FlushPendingOK
    <3>3. ConverterOK(AppendRaw(c, k))
      BY <1>4, <3>2, AppendRawOK
    <3> QED
      BY <1>3, <2>1, <3>1, <3>3
  <2>2. CASE letter # "s"
    <3>1. romaji' \in ProcessKey(romaji, k)
      BY <1>3, <2>2
    <3> QED
      BY <1>2, <1>4, <3>1, ProcessKeyOK
  <2> QED
    BY <2>1, <2>2
<1> QED
  BY <1>1, <1>5, EmptySent DEF CInv

LEMMA BackspaceOK == CInv /\ Backspace => CInv'
<1> SUFFICES ASSUME CInv, Backspace PROVE CInv'
  OBVIOUS
<1>1. /\ conversion' = NoConversion /\ learned' = learned /\ pass' = pass /\ NothingSent
      /\ romaji' = DeleteLast(romaji)
  BY DEF Backspace
<1>2. ConverterOK(romaji')
  BY <1>1, DeleteLastOK DEF CInv
<1> QED
  BY <1>1, <1>2, EmptySent DEF CInv

LEMMA CommitPreeditOK == CInv /\ CommitPreedit => CInv'
<1> SUFFICES ASSUME CInv, CommitPreedit PROVE CInv'
  OBVIOUS
<1>1. /\ conversion' = NoConversion /\ learned' = learned /\ pass' = pass
      /\ romaji' = NewConverter /\ sent' = Preedit(romaji)
  BY DEF CommitPreedit
<1>2. romaji \in Converters
  BY DEF CInv, ConverterOK
<1>3. sent' \in Seq(Keys)
  BY <1>1, <1>2, PreeditType
<1>4. ConverterOK(romaji')
  BY <1>1, NewConverterOK
<1> QED
  BY <1>1, <1>3, <1>4 DEF CInv

LEMMA ClearAllOK == CInv /\ ClearAll => CInv'
<1> SUFFICES ASSUME CInv, ClearAll PROVE CInv'
  OBVIOUS
<1>1. /\ conversion' = NoConversion /\ learned' = learned /\ pass' = {} /\ NothingSent
      /\ romaji' = NewConverter
  BY DEF ClearAll
<1>2. ConverterOK(romaji')
  BY <1>1, NewConverterOK
<1> QED
  BY <1>1, <1>2, EmptySent DEF CInv

LEMMA PassFailsOK == CInv /\ PassFails => CInv'
<1> SUFFICES ASSUME CInv, PassFails PROVE CInv'
  OBVIOUS
<1>1. NothingSent /\ UNCHANGED <<romaji, learned>> /\ conversion' = conversion /\ pass' = {}
  BY DEF PassFails
<1>2. conversion' # NoConversion => ConversionOK(romaji, conversion')
  BY <1>1 DEF CInv
<1> QED
  BY <1>1, <1>2, EditStep

-----------------------------------------------------------------------------
(* Selecting                                                                *)

LEMMA ModRange ==
  ASSUME NEW n \in Nat \ {0}, NEW x \in Nat
  PROVE  (x % n) + 1 \in 1 .. n
<1>1. x % n \in 0 .. n - 1
  OBVIOUS
<1> QED
  BY <1>1

LEMMA MoveFocusOK == CInv /\ MoveFocus => CInv'
<1> SUFFICES ASSUME CInv, MoveFocus PROVE CInv'
  OBVIOUS
<1>1. /\ conversion # NoConversion /\ NothingSent
      /\ UNCHANGED <<romaji, learned>> /\ pass' = pass
  BY DEF MoveFocus
<1>2. PICK cv : cv = conversion
  OBVIOUS
<1>3. ConversionOK(romaji, cv)
  BY <1>1, <1>2 DEF CInv
<1>4. /\ Len(cv.segments) \in Nat \ {0} /\ cv.focus \in 1 .. Len(cv.segments)
      /\ cv \in ConversionStates
  BY <1>3, ConversionFacts
<1>5. PICK step \in {1, Len(cv.segments) - 1} :
        conversion' = [cv EXCEPT !.focus = ((cv.focus - 1 + step) % Len(cv.segments)) + 1]
  BY <1>2 DEF MoveFocus
<1>6. PICK focus : focus = ((cv.focus - 1 + step) % Len(cv.segments)) + 1
  OBVIOUS
<1>7. focus \in 1 .. Len(cv.segments)
  <2>1. cv.focus - 1 + step \in Nat
    BY <1>4
  <2> QED
    BY <1>4, <1>6, <2>1, ModRange
<1>8. Edited(conversion', cv, cv.segments, focus, cv.raw)
  BY <1>4, <1>5, <1>6 DEF Edited, ConversionStates
<1>9. cv.raw \in {cv.raw, Untracked} /\ Body(cv.kana, cv.segments, cv.raw)
  BY <1>3 DEF ConversionOK
<1>10. ConversionOK(romaji, conversion')
  BY <1>3, <1>7, <1>8, <1>9, EditOK
<1> QED
  BY <1>1, <1>10, EditStep

(* The focused segment with these candidates, one of them picked.           *)
LEMMA PickStep ==
  ASSUME CInv, conversion # NoConversion, NothingSent, UNCHANGED <<romaji, learned, pass>>,
         NEW candidates \in Seq(Surfaces),
         SpelledAs(conversion.raw, candidates, Focused.reading),
         NEW selected \in 1 .. Len(candidates),
         NEW segment,
         Reselected(segment, Focused, candidates, selected, TRUE, candidates[selected]),
         Edited(conversion', conversion,
                [conversion.segments EXCEPT ![conversion.focus] = segment],
                conversion.focus, conversion.raw)
  PROVE  CInv'
<1>1. ConversionOK(romaji, conversion)
  BY DEF CInv
<1>2. SegmentOK(conversion.kana, conversion.raw, Focused)
  BY <1>1, ConversionFacts DEF Focused
<1>3. PICK choice \in Surfaces : choice = candidates[selected]
  OBVIOUS
<1>4. PICK user \in BOOLEAN : user = TRUE
  OBVIOUS
<1>5. /\ Reselected(segment, Focused, candidates, selected, user, choice)
      /\ choice \in Surfaces \cup {NoConversion} /\ (user => candidates[selected] = choice)
  BY <1>3, <1>4
<1>6. /\ SegmentOK(conversion.kana, conversion.raw, segment)
      /\ segment.start = Focused.start /\ segment.reading = Focused.reading
  BY <1>2, <1>5, ReselectOK
<1>7. ConversionOK(romaji, conversion')
  BY <1>1, <1>6, ReplaceOK DEF Focused
<1>8. UNCHANGED <<romaji, learned>> /\ pass' \subseteq pass
  OBVIOUS
<1> QED
  BY <1>7, <1>8, EditStep

LEMMA PickReselects ==
  ASSUME NEW segment \in Segments, NEW i, NEW d, d = Pick(segment, i)
  PROVE  Reselected(d, segment, segment.candidates, i, TRUE, segment.candidates[i])
<1>1. PICK choice : choice = segment.candidates[i]
  OBVIOUS
<1>2. d = [segment EXCEPT !.selected = i, !.userSelected = TRUE, !.choice = choice]
  BY <1>1 DEF Pick
<1>3. segment = [reading |-> segment.reading, start |-> segment.start,
                 candidates |-> segment.candidates, selected |-> segment.selected,
                 userSelected |-> segment.userSelected, choice |-> segment.choice]
  BY DEF Segments
<1>4. PICK r, st, cs, sl, us, ch :
        segment = [reading |-> r, start |-> st, candidates |-> cs, selected |-> sl,
                   userSelected |-> us, choice |-> ch]
  BY <1>3
<1>5. d = [reading |-> r, start |-> st, candidates |-> cs, selected |-> i,
           userSelected |-> TRUE, choice |-> choice]
  BY <1>2, <1>4
<1>6. segment.reading = r /\ segment.start = st /\ segment.candidates = cs
  BY <1>4
<1> QED
  BY <1>1, <1>5, <1>6 DEF Reselected

LEMMA CycleCandidateOK == CInv /\ CycleCandidate => CInv'
<1> SUFFICES ASSUME CInv, CycleCandidate PROVE CInv'
  OBVIOUS
<1>1. /\ conversion # NoConversion /\ NothingSent /\ UNCHANGED <<romaji, learned, pass>>
  BY DEF CycleCandidate
<1>2. ConversionOK(romaji, conversion)
  BY <1>1 DEF CInv
<1>3. /\ conversion \in ConversionStates /\ conversion.focus \in 1 .. Len(conversion.segments)
      /\ SegmentOK(conversion.kana, conversion.raw, Focused)
  BY <1>2, ConversionFacts DEF Focused
<1>4. /\ Focused \in Segments /\ Focused.candidates \in Seq(Surfaces)
      /\ Focused.selected \in 1 .. Len(Focused.candidates)
      /\ SpelledAs(conversion.raw, Focused.candidates, Focused.reading)
  BY <1>3, SegmentFacts DEF SegmentOK, Spelled
<1>5. PICK len : len = Len(Focused.candidates)
  OBVIOUS
<1>6. PICK step \in {1, len - 1} :
        conversion' =
          [conversion EXCEPT
             !.segments[conversion.focus] =
               Pick(@, ((@.selected - 1 + step) % len) + 1)]
  BY <1>5 DEF CycleCandidate
<1>7. PICK i : i = ((Focused.selected - 1 + step) % len) + 1
  OBVIOUS
<1>8. i \in 1 .. Len(Focused.candidates)
  <2>1. len \in Nat \ {0} /\ Focused.selected - 1 + step \in Nat
    BY <1>4, <1>5, <1>6
  <2> QED
    BY <1>5, <1>7, <2>1, ModRange
<1>9. PICK segment : segment = Pick(Focused, i)
  OBVIOUS
<1>10. Reselected(segment, Focused, Focused.candidates, i, TRUE, Focused.candidates[i])
  BY <1>4, <1>9, PickReselects
<1>11. PICK segments : segments = [conversion.segments EXCEPT ![conversion.focus] = segment]
  OBVIOUS
<1>12. conversion' = [conversion EXCEPT !.segments = segments]
  BY <1>3, <1>6, <1>7, <1>9, <1>11 DEF Focused, ConversionStates
<1>13. Edited(conversion', conversion, segments, conversion.focus, conversion.raw)
  BY <1>3, <1>12 DEF Edited, ConversionStates
<1> QED
  BY <1>1, <1>4, <1>8, <1>10, <1>11, <1>13, PickStep

LEMMA FormSurfaceOK ==
  ASSUME NEW raw \in Seq(Keys) \cup {Untracked}, NEW reading \in Seq(Kana), NEW form \in Forms
  PROVE  /\ FormSurface(raw, reading, form) \in Surfaces
         /\ SurfaceOK(raw, FormSurface(raw, reading, form), reading)
<1>1. CASE form = "romaji" /\ raw # Untracked /\ raw # <<>>
  <2>1. FormSurface(raw, reading, form) = [keys |-> raw, form |-> form]
    BY <1>1 DEF FormSurface
  <2> QED
    BY <1>1, <2>1 DEF Surfaces, SurfaceOK
<1>2. CASE ~(form = "romaji" /\ raw # Untracked /\ raw # <<>>)
  <2>1. FormSurface(raw, reading, form) = Surface(reading, form)
    BY <1>2 DEF FormSurface
  <2>2. Surface(reading, form) \in Surfaces
    BY SurfaceType
  <2>3. Surface(reading, form).keys = Spell(reading)
    BY DEF Surface
  <2> QED
    BY <2>1, <2>2, <2>3 DEF SurfaceOK
<1> QED
  BY <1>1, <1>2

LEMMA MinExists ==
  ASSUME NEW T \in SUBSET Nat, T # {}
  PROVE  Min(T) \in T
<1>1. \E x \in T : \A y \in T : x <= y
  BY NatMin
<1> QED
  BY <1>1 DEF Min

LEMMA ConvertFocusedToOK ==
  ASSUME CInv, NEW form \in KanaForms, ConvertFocusedTo(form)
  PROVE  CInv'
<1>1. /\ conversion # NoConversion /\ NothingSent /\ UNCHANGED <<romaji, learned, pass>>
  BY DEF ConvertFocusedTo
<1>2. ConversionOK(romaji, conversion)
  BY <1>1 DEF CInv
<1>3. /\ conversion \in ConversionStates /\ conversion.focus \in 1 .. Len(conversion.segments)
      /\ SegmentOK(conversion.kana, conversion.raw, Focused)
      /\ conversion.raw \in Seq(Keys) \cup {Untracked}
  BY <1>2, ConversionFacts DEF Focused
<1>4. /\ Focused \in Segments /\ Focused.candidates \in Seq(Surfaces)
      /\ Focused.reading \in Seq(Kana)
      /\ SpelledAs(conversion.raw, Focused.candidates, Focused.reading)
  BY <1>3, SegmentFacts DEF SegmentOK, Spelled
<1>5. PICK surface : surface = FormSurface(conversion.raw, Focused.reading, form)
  OBVIOUS
<1>6. surface \in Surfaces /\ SurfaceOK(conversion.raw, surface, Focused.reading)
  <2>1. form \in Forms
    BY FormsAssumption
  <2> QED
    BY <1>3, <1>4, <1>5, <2>1, FormSurfaceOK
<1>7. PICK listed : listed = {i \in 1 .. Len(Focused.candidates) : Focused.candidates[i] = surface}
  OBVIOUS
<1>8. PICK grown : grown = IF listed # {} THEN Focused
                           ELSE [Focused EXCEPT !.candidates = Append(@, surface)]
  OBVIOUS
<1>9. PICK place : place = IF listed # {} THEN Min(listed) ELSE Len(grown.candidates)
  OBVIOUS
<1>10. conversion' = [conversion EXCEPT !.segments[conversion.focus] = Pick(grown, place)]
  BY <1>5, <1>7, <1>8, <1>9 DEF ConvertFocusedTo
<1>11. PICK candidates : candidates = grown.candidates
  OBVIOUS
<1>12. grown \in Segments /\ grown.reading = Focused.reading /\ grown.start = Focused.start
  <2>1. CASE listed # {}
    BY <1>4, <1>8, <2>1
  <2>2. CASE listed = {}
    <3>1. PICK more : more = Append(Focused.candidates, surface)
      OBVIOUS
    <3>a. more \in Seq(Surfaces)
      BY <1>4, <1>6, <3>1, AppendProperties
    <3>2. grown = [Focused EXCEPT !.candidates = more]
      BY <1>8, <2>2, <3>1
    <3> QED
      BY <1>4, <3>2, <3>a DEF Segments
  <2> QED
    BY <2>1, <2>2
<1>13. /\ candidates \in Seq(Surfaces) /\ place \in 1 .. Len(candidates)
       /\ SpelledAs(conversion.raw, candidates, Focused.reading)
  <2>1. CASE listed # {}
    <3>1. listed \in SUBSET Nat /\ Min(listed) \in listed
      <4>1. listed \in SUBSET Nat
        BY <1>7
      <4> QED
        BY <2>1, <4>1, MinExists
    <3> QED
      BY <1>4, <1>7, <1>8, <1>9, <1>11, <2>1, <3>1
  <2>2. CASE listed = {}
    <3>1. candidates = Append(Focused.candidates, surface) /\ place = Len(candidates)
      BY <1>4, <1>8, <1>9, <1>11, <2>2 DEF Segments
    <3>2. /\ candidates \in Seq(Surfaces) /\ Len(candidates) = Len(Focused.candidates) + 1
          /\ \A i \in 1 .. Len(Focused.candidates) : candidates[i] = Focused.candidates[i]
          /\ candidates[Len(Focused.candidates) + 1] = surface
      BY <1>4, <1>6, <3>1, AppendProperties
    <3>3. place \in 1 .. Len(candidates)
      BY <1>4, <3>1, <3>2
    <3>4. ASSUME NEW k \in 1 .. Len(candidates)
          PROVE  SurfaceOK(conversion.raw, candidates[k], Focused.reading)
      <4>1. CASE k = Len(Focused.candidates) + 1
        BY <1>6, <3>2, <4>1
      <4>2. CASE k # Len(Focused.candidates) + 1
        <5>1. k \in 1 .. Len(Focused.candidates)
          BY <1>4, <3>2, <4>2
        <5> QED
          BY <1>4, <3>2, <5>1 DEF SpelledAs
      <4> QED
        BY <4>1, <4>2
    <3> QED
      BY <3>2, <3>3, <3>4 DEF SpelledAs
  <2> QED
    BY <2>1, <2>2
<1>14. PICK segment : segment = Pick(grown, place)
  OBVIOUS
<1>15. Reselected(segment, Focused, candidates, place, TRUE, candidates[place])
  <2>1. Reselected(segment, grown, grown.candidates, place, TRUE, grown.candidates[place])
    BY <1>12, <1>14, PickReselects
  <2> QED
    BY <1>11, <1>12, <2>1 DEF Reselected
<1>16. PICK segments : segments = [conversion.segments EXCEPT ![conversion.focus] = segment]
  OBVIOUS
<1>17. conversion' = [conversion EXCEPT !.segments = segments]
  BY <1>3, <1>10, <1>14, <1>16 DEF ConversionStates
<1>18. Edited(conversion', conversion, segments, conversion.focus, conversion.raw)
  BY <1>3, <1>17 DEF Edited, ConversionStates
<1> QED
  BY <1>1, <1>13, <1>15, <1>16, <1>18, PickStep

-----------------------------------------------------------------------------
(* The result of a rerank pass                                              *)

LEMMA RerankedFacts ==
  ASSUME NEW entry \in Entries,
         Len(entry.candidates) > 0, NEW raw,
         SpelledAs(Untracked, entry.candidates, entry.reading),
         NEW candidates \in Reranked(entry)
  PROVE  /\ candidates \in Seq(Surfaces) /\ Len(candidates) \in Nat \ {0}
         /\ SpelledAs(raw, candidates, entry.reading)
<1>1. PICK before \in Seq(Surfaces) : before = entry.candidates
  BY DEF Entries
<1>2. /\ Len(before) \in Nat \ {0} /\ DOMAIN before = 1 .. Len(before)
      /\ \A k \in 1 .. Len(before) : before[k].keys = Spell(entry.reading)
  BY <1>1 DEF SpelledAs, SurfaceOK
<1>3. CASE candidates = before
  BY <1>2, <1>3 DEF SpelledAs, SurfaceOK
<1>4. CASE candidates # before
  <2>1. PICK p \in [DOMAIN before -> DOMAIN before] :
          candidates = [i \in DOMAIN before |-> before[p[i]]]
    BY <1>1, <1>4 DEF Reranked
  <2>2. \A i \in 1 .. Len(before) :
          p[i] \in 1 .. Len(before) /\ candidates[i] = before[p[i]]
    BY <1>2, <2>1
  <2>3. candidates \in [1 .. Len(before) -> Surfaces]
    BY <1>2, <2>1, <2>2
  <2>4. candidates \in Seq(Surfaces) /\ Len(candidates) = Len(before)
    BY <1>2, <2>3
  <2>5. \A k \in 1 .. Len(before) : candidates[k].keys = Spell(entry.reading)
    BY <1>2, <2>2
  <2> QED
    BY <1>2, <2>4, <2>5 DEF SpelledAs, SurfaceOK
<1> QED
  BY <1>3, <1>4

(* d is the segment with its candidates in this order.                      *)
Ordered(d, segment, candidates) == d = WithOrder(segment, candidates)

LEMMA WithOrderOK ==
  ASSUME NEW kana, NEW raw, NEW segment, SegmentOK(kana, raw, segment), ~segment.userSelected,
         NEW candidates \in Seq(Surfaces), Len(candidates) \in Nat \ {0},
         SpelledAs(raw, candidates, segment.reading),
         NEW d, Ordered(d, segment, candidates)
  PROVE  /\ SegmentOK(kana, raw, d)
         /\ d.start = segment.start /\ d.reading = segment.reading
<1>1. CASE segment.candidates = candidates
  BY <1>1 DEF Ordered, WithOrder
<1>2. CASE segment.candidates # candidates
  <2>1. segment \in Segments
    BY DEF SegmentOK
  <2>2. segment = [reading |-> segment.reading, start |-> segment.start,
                   candidates |-> segment.candidates, selected |-> segment.selected,
                   userSelected |-> segment.userSelected, choice |-> segment.choice]
    BY <2>1 DEF Segments
  <2>3. PICK r, st, cs, sl, us, ch :
          segment = [reading |-> r, start |-> st, candidates |-> cs, selected |-> sl,
                     userSelected |-> us, choice |-> ch]
    BY <2>2
  <2>4. d = [segment EXCEPT !.candidates = candidates, !.selected = 1]
    BY <1>2 DEF Ordered, WithOrder
  <2>5. d = [reading |-> r, start |-> st, candidates |-> candidates, selected |-> 1,
             userSelected |-> us, choice |-> ch]
    BY <2>3, <2>4
  <2>6. PICK selected \in 1 .. Len(candidates) : selected = 1
    OBVIOUS
  <2>7. PICK user \in BOOLEAN : user = segment.userSelected
    BY <2>1 DEF Segments
  <2>8. PICK choice \in Surfaces \cup {NoConversion} : choice = segment.choice
    BY <2>1 DEF Segments
  <2>9. Reselected(d, segment, candidates, selected, user, choice)
    BY <2>3, <2>5, <2>6, <2>7, <2>8 DEF Reselected
  <2>10. /\ Reselected(d, segment, candidates, selected, user, choice)
         /\ (user => candidates[selected] = choice)
         /\ choice \in Surfaces \cup {NoConversion}
    BY <2>7, <2>9
  <2>11. SegmentOK(kana, raw, segment) /\ SpelledAs(raw, candidates, segment.reading)
    OBVIOUS
  <2>12. selected \in 1 .. Len(candidates) /\ user \in BOOLEAN /\ candidates \in Seq(Surfaces)
    OBVIOUS
  <2> HIDE DEF Ordered
  <2> QED
    BY ONLY <2>10, <2>11, <2>12, ReselectOK
<1> QED
  BY <1>1, <1>2

LEMMA ApplyRerankOK == CInv /\ ApplyRerank => CInv'
<1> SUFFICES ASSUME CInv, ApplyRerank PROVE CInv'
  OBVIOUS
<1>1. conversion # NoConversion /\ pass' = {} /\ NothingSent /\ UNCHANGED <<romaji, learned>>
  BY DEF ApplyRerank
<1>2. PICK cv : cv = conversion
  OBVIOUS
<1>3. ConversionOK(romaji, cv)
  BY <1>1, <1>2 DEF CInv
<1>4. /\ cv \in ConversionStates /\ cv.segments \in Seq(Segments)
      /\ Len(cv.segments) \in Nat \ {0} /\ cv.focus \in 1 .. Len(cv.segments)
      /\ Tiles(cv.kana, cv.raw, cv.segments, 0, Len(cv.kana))
      /\ \A i \in 1 .. Len(cv.segments) : SegmentOK(cv.kana, cv.raw, cv.segments[i])
      /\ cv.kana \in Seq(Kana)
  BY <1>3, ConversionFacts
<1>5. PICK open : open = OpenToRerank(cv.segments)
  OBVIOUS
<1>6. PICK snapshot \in pass :
        IF [i \in DOMAIN snapshot |-> snapshot[i].reading]
             = [i \in DOMAIN cv.segments |-> cv.segments[i].reading]
          THEN \E r \in [open -> UNION {Reranked(snapshot[i]) : i \in open}] :
                 /\ \A i \in open : r[i] \in Reranked(snapshot[i])
                 /\ conversion' =
                      [cv EXCEPT
                         !.segments = [i \in DOMAIN cv.segments |->
                                         IF i \in open
                                           THEN WithOrder(cv.segments[i], r[i])
                                           ELSE cv.segments[i]]]
          ELSE UNCHANGED conversion
  BY <1>2, <1>5 DEF ApplyRerank
<1>7. SnapshotOK(snapshot)
  BY DEF CInv
<1>8. CASE [i \in DOMAIN snapshot |-> snapshot[i].reading]
             = [i \in DOMAIN cv.segments |-> cv.segments[i].reading]
  <2>1. DOMAIN snapshot = 1 .. Len(cv.segments) /\ DOMAIN cv.segments = 1 .. Len(cv.segments)
    BY <1>4, <1>8
  <2>2. \A i \in 1 .. Len(cv.segments) : snapshot[i].reading = cv.segments[i].reading
    BY <1>8, <2>1
  <2>3. PICK r : /\ \A i \in open : r[i] \in Reranked(snapshot[i])
                 /\ conversion' =
                      [cv EXCEPT
                         !.segments = [i \in DOMAIN cv.segments |->
                                         IF i \in open
                                           THEN WithOrder(cv.segments[i], r[i])
                                           ELSE cv.segments[i]]]
    BY <1>6, <1>8
  <2>4. PICK t : t = [i \in DOMAIN cv.segments |->
                        IF i \in open THEN WithOrder(cv.segments[i], r[i]) ELSE cv.segments[i]]
    OBVIOUS
  <2>5. ASSUME NEW i \in 1 .. Len(cv.segments)
        PROVE  /\ SegmentOK(cv.kana, cv.raw, t[i])
               /\ t[i].start = cv.segments[i].start /\ t[i].reading = cv.segments[i].reading
    <3>1. CASE i \in open
      <4>1. PICK d : d = t[i]
        OBVIOUS
      <4>2. PICK candidates : candidates = r[i]
        OBVIOUS
      <4>3. PICK segment : segment = cv.segments[i]
        OBVIOUS
      <4>4. ~segment.userSelected /\ SegmentOK(cv.kana, cv.raw, segment)
        BY <1>4, <1>5, <3>1, <4>3 DEF OpenToRerank
      <4>5. Ordered(d, segment, candidates)
        BY <2>1, <2>4, <3>1, <4>1, <4>2, <4>3 DEF Ordered
      <4>6. PICK entry : entry = snapshot[i]
        OBVIOUS
      <4>7. /\ entry \in Entries
            /\ Len(entry.candidates) > 0
            /\ SpelledAs(Untracked, entry.candidates, entry.reading)
            /\ entry.reading = segment.reading
        <5>1. i \in 1 .. Len(snapshot) /\ snapshot \in Seq(Entries)
          BY <1>7, <2>1 DEF SnapshotOK
        <5>2. snapshot[i] \in Entries
          BY <5>1
        <5>3. /\ Len(snapshot[i].candidates) > 0
              /\ SpelledAs(Untracked, snapshot[i].candidates, snapshot[i].reading)
          BY <1>7, <5>1 DEF SnapshotOK
        <5>4. snapshot[i].reading = cv.segments[i].reading
          BY <2>2
        <5> QED
          BY <4>3, <4>6, <5>2, <5>3, <5>4
      <4>8. candidates \in Reranked(entry)
        BY <2>3, <3>1, <4>2, <4>6
      <4>9. /\ candidates \in Seq(Surfaces) /\ Len(candidates) \in Nat \ {0}
            /\ SpelledAs(cv.raw, candidates, segment.reading)
        BY <4>7, <4>8, RerankedFacts
      <4>10. /\ SegmentOK(cv.kana, cv.raw, d)
             /\ d.start = segment.start /\ d.reading = segment.reading
        BY <4>4, <4>5, <4>9, WithOrderOK
      <4> QED
        BY <4>1, <4>3, <4>10
    <3>2. CASE i \notin open
      <4>1. t[i] = cv.segments[i]
        BY <2>1, <2>4, <3>2
      <4> QED
        BY <1>4, <4>1
    <3> QED
      BY <3>1, <3>2
  <2>6. t \in Seq(Segments) /\ Len(t) = Len(cv.segments)
    <3>1. \A i \in 1 .. Len(cv.segments) : t[i] \in Segments
      BY <2>5 DEF SegmentOK
    <3>2. t \in [1 .. Len(cv.segments) -> Segments]
      BY <2>1, <2>4, <3>1
    <3> QED
      BY <1>4, <3>2
  <2>7. Tiles(cv.kana, cv.raw, t, 0, Len(cv.kana))
    BY <1>4, <2>5, <2>6, TilesSame
  <2>8. t # <<>>
    BY <1>4, <2>6, NonEmpty
  <2>9. cv.raw # Untracked => Len(t) = 1
    BY <1>3, <2>6 DEF ConversionOK, Body
  <2>10. Body(cv.kana, t, cv.raw)
    BY <1>4, <2>7, <2>8, <2>9 DEF Body
  <2>11. Edited(conversion', cv, t, cv.focus, cv.raw)
    BY <1>4, <2>3, <2>4 DEF Edited, ConversionStates
  <2>12. cv.focus \in 1 .. Len(t) /\ cv.raw \in {cv.raw, Untracked}
    BY <1>4, <2>6
  <2>13. ConversionOK(romaji, conversion')
    BY <1>3, <2>10, <2>11, <2>12, EditOK
  <2> QED
    BY <1>1, <2>13, EditStep
<1>9. CASE [i \in DOMAIN snapshot |-> snapshot[i].reading]
             # [i \in DOMAIN cv.segments |-> cv.segments[i].reading]
  <2>1. conversion' = conversion
    BY <1>6, <1>9
  <2>2. ConversionOK(romaji, conversion')
    BY <1>2, <1>3, <2>1
  <2> QED
    BY <1>1, <2>2, EditStep
<1> QED
  BY <1>8, <1>9

-----------------------------------------------------------------------------
(* Starting a conversion                                                    *)

LEMMA WholeKana ==
  ASSUME NEW S, NEW s \in Seq(S)
  PROVE  SubSeq(s, 0 + 1, Len(s)) = s
<1>1. PICK t : t = SubSeq(s, 0 + 1, Len(s))
  OBVIOUS
<1>2. /\ 0 + 1 \in Nat /\ Len(s) \in Nat /\ 1 <= 0 + 1 /\ 0 + 1 <= Len(s) + 1 /\ Len(s) <= Len(s)
      /\ (Len(s) + 1) - (0 + 1) = Len(s)
  OBVIOUS
<1>3. /\ t \in Seq(S) /\ Len(t) = (Len(s) + 1) - (0 + 1)
      /\ \A i \in 1 .. (Len(s) + 1) - (0 + 1) : t[i] = s[((0 + 1) + i) - 1]
  BY <1>1, <1>2, SubSeqFacts
<1>4. Len(t) = Len(s) /\ \A i \in 1 .. Len(s) : t[i] = s[i]
  BY <1>2, <1>3
<1> QED
  BY <1>1, <1>3, <1>4, SeqEqual

LEMMA TextLen ==
  ASSUME NEW kana \in Seq(Kana)
  PROVE  Len(Text(kana)) = Len(kana)
<1>1. PICK n \in Nat : n = Len(kana) /\ DOMAIN kana = 1 .. n
  OBVIOUS
<1>2. PICK text : text = Text(kana)
  OBVIOUS
<1>3. text = [i \in 1 .. n |-> [j \in DOMAIN kana[i] |-> kana[i][j].letter]]
  BY <1>1, <1>2 DEF Text
<1>4. PICK S : S = {text[i] : i \in 1 .. n}
  OBVIOUS
<1>5. text \in [1 .. n -> S]
  BY <1>3, <1>4
<1>6. text \in Seq(S) /\ DOMAIN text = 1 .. n
  BY <1>5
<1> QED
  BY <1>1, <1>2, <1>6

LEMMA SnapshotFromTiles ==
  ASSUME NEW kana, NEW segments, NEW a, NEW b, Tiles(kana, Untracked, segments, a, b)
  PROVE  SnapshotOK(Snapshot(segments))
<1>1. /\ segments \in Seq(Segments) /\ Len(segments) \in Nat
      /\ \A i \in 1 .. Len(segments) : SegmentOK(kana, Untracked, segments[i])
  BY DEF Tiles
<1>2. PICK s : s = Snapshot(segments)
  OBVIOUS
<1>3. s = [i \in 1 .. Len(segments) |-> [reading |-> segments[i].reading,
                                         candidates |-> segments[i].candidates]]
  BY <1>2 DEF Snapshot
<1>4. ASSUME NEW i \in 1 .. Len(segments)
      PROVE  /\ s[i] \in Entries /\ Len(s[i].candidates) > 0
             /\ SpelledAs(Untracked, s[i].candidates, s[i].reading)
  <2>1. SegmentOK(kana, Untracked, segments[i])
    BY <1>1
  <2>2. /\ segments[i].reading \in Seq(Kana) /\ segments[i].candidates \in Seq(Surfaces)
        /\ segments[i].selected \in 1 .. Len(segments[i].candidates)
    BY <2>1, SegmentFacts
  <2>3. s[i].reading = segments[i].reading /\ s[i].candidates = segments[i].candidates
        /\ s[i] \in Entries
    BY <1>3, <2>2 DEF Entries
  <2>4. Len(segments[i].candidates) > 0
    <3>1. Len(segments[i].candidates) \in Nat
      BY <2>2
    <3> QED
      BY <2>2, <3>1
  <2>5. SpelledAs(Untracked, segments[i].candidates, segments[i].reading)
    BY <2>1 DEF SegmentOK, Spelled
  <2> QED
    BY <2>3, <2>4, <2>5
<1>5. s \in [1 .. Len(segments) -> Entries]
  BY <1>3, <1>4
<1>6. s \in Seq(Entries) /\ Len(s) = Len(segments)
  BY <1>1, <1>5
<1> QED
  BY <1>2, <1>4, <1>6 DEF SnapshotOK

(* The tracked raw input loosens what candidates may be.                    *)
LEMMA TilesAnyRaw ==
  ASSUME NEW kana, NEW raw, NEW segments, NEW a, NEW b, Tiles(kana, Untracked, segments, a, b)
  PROVE  Tiles(kana, raw, segments, a, b)
<1>1. ASSUME NEW segment, SegmentOK(kana, Untracked, segment)
      PROVE  SegmentOK(kana, raw, segment)
  BY <1>1 DEF SegmentOK, Spelled, SpelledAs, SurfaceOK
<1>2. \A i \in 1 .. Len(segments) : SegmentOK(kana, raw, segments[i])
  BY <1>1 DEF Tiles
<1> QED
  BY <1>2 DEF Tiles

LEMMA ForgetOK ==
  ASSUME NEW rows, LearnedOK(rows), NEW text, NEW left,
         left = [t \in DOMAIN rows \ {text} |-> rows[t]]
  PROVE  LearnedOK(left)
<1>1. DOMAIN left = DOMAIN rows \ {text} /\ \A t \in DOMAIN left : left[t] = rows[t]
  OBVIOUS
<1>2. IsFiniteSet(DOMAIN rows) /\ DOMAIN rows \ {text} \in SUBSET DOMAIN rows
  BY DEF LearnedOK
<1>3. /\ IsFiniteSet(DOMAIN rows \ {text})
      /\ Cardinality(DOMAIN rows \ {text}) <= Cardinality(DOMAIN rows)
      /\ Cardinality(DOMAIN rows \ {text}) \in Nat /\ Cardinality(DOMAIN rows) \in Nat
  BY <1>2, FS_Subset, FS_CardinalityType
<1>4. Cardinality(DOMAIN left) <= MaxLearned
  BY <1>1, <1>3, BoundsAssumption DEF LearnedOK
<1> QED
  BY <1>1, <1>3, <1>4 DEF LearnedOK

(* What the flush leaves of the preedit.                                    *)
LEMMA FlushSpells ==
  ASSUME NEW c, ConverterOK(c)
  PROVE  Preedit(c) = Spell(Flush(c).output)
                        \o (IF IsLoneN(c.buffer) THEN <<>> ELSE c.buffer)
<1>1. /\ c.output \in Seq(Kana) /\ c.buffer \in Seq(Keys)
  BY ConverterFields DEF ConverterOK
<1>2. Flush(c).output = IF IsLoneN(c.buffer) THEN Append(c.output, c.buffer) ELSE c.output
  BY FlushOK
<1>3. CASE IsLoneN(c.buffer)
  <2>1. Spell(Append(c.output, c.buffer)) = Spell(c.output) \o c.buffer
    BY <1>1, FlattenAppend DEF Spell, Kana
  <2>2. Spell(c.output) \o c.buffer \in Seq(Keys)
    BY <1>1, SpellType
  <2>3. (Spell(c.output) \o c.buffer) \o <<>> = Spell(c.output) \o c.buffer
    BY <2>2
  <2> QED
    BY <1>2, <1>3, <2>1, <2>3 DEF Preedit
<1>4. CASE ~IsLoneN(c.buffer)
  BY <1>2, <1>4 DEF Preedit
<1> QED
  BY <1>3, <1>4

(* d is a conversion just made, its first segment focused.                  *)
Made(d, kana, segments, raw, initial, pending, consumed, hit, origin, preedit) ==
  d = [kana |-> kana, segments |-> segments, focus |-> 1, raw |-> raw,
       initial |-> initial, pending |-> pending, consumed |-> consumed,
       learnedHit |-> hit, origin |-> origin, preedit |-> preedit]

LEMMA MadeOK ==
  ASSUME NEW kana, NEW segments, NEW raw, NEW initial, NEW pending, NEW consumed, NEW hit,
         NEW origin, NEW preedit, NEW d,
         Made(d, kana, segments, raw, initial, pending, consumed, hit, origin, preedit),
         Body(kana, segments, raw), raw \in Seq(Keys) \cup {Untracked},
         initial \in Seq(Nat), pending \in Seq(Keys), consumed \in BOOLEAN, hit \in BOOLEAN,
         origin \in {"space", "fkey"}, preedit \in Seq(Keys),
         NEW c, Source(c, d)
  PROVE  ConversionOK(c, d)
<1>1. /\ d.kana = kana /\ d.segments = segments /\ d.focus = 1 /\ d.raw = raw
  BY DEF Made
<1>2. kana \in Seq(Kana) /\ segments \in Seq(Segments) /\ Len(segments) \in Nat \ {0}
  BY NonEmpty DEF Body, Tiles
<1>3. d \in ConversionStates
  BY <1>2 DEF Made, ConversionStates
<1> QED
  BY <1>1, <1>2, <1>3 DEF ConversionOK

(* The layout that is applied: the learned one, or the one chosen now.      *)
Applied(text, heuristic, chosen) ==
  IF Overrides(text, heuristic, chosen) THEN learned[text] ELSE chosen

(* What start_conversion leaves behind, once the segments are there.        *)
Started(kana, text, pending, heuristic, chosen, segments) ==
  LET raw == IF Len(segments) = 1 THEN romaji.raw ELSE Untracked
      redundant == Redundant(text, heuristic, chosen)
  IN  /\ conversion' =
           [kana |-> kana, segments |-> segments,
            focus |-> 1, raw |-> raw,
            initial |-> BoundariesOf(segments),
            pending |-> pending,
            consumed |-> raw # Untracked /\ pending # <<>>,
            learnedHit |-> text \in DOMAIN learned /\ ~redundant,
            origin |-> "space",
            preedit |-> Preedit(romaji)]
      /\ learned' = IF redundant
                      THEN [t \in DOMAIN learned \ {text} |-> learned[t]]
                      ELSE learned
      /\ pass' = {Snapshot(segments)}

LEMMA StartConversionOK == CInv /\ StartConversion => CInv'
<1> SUFFICES ASSUME CInv, StartConversion PROVE CInv'
  OBVIOUS
<1>1. PICK flushed, pending : /\ flushed = Flush(romaji)
                              /\ pending = IF IsLoneN(romaji.buffer) THEN <<>> ELSE romaji.buffer
  OBVIOUS
<1>2. PICK kana, text : kana = flushed.output /\ text = Text(kana)
  OBVIOUS
<1>3. /\ conversion = NoConversion /\ romaji' = flushed /\ NothingSent
      /\ romaji.output # <<>> \/ IsLoneN(romaji.buffer)
  BY <1>1 DEF StartConversion
<1>4. \E heuristic, chosen \in Layouts(Len(Flush(romaji).output)) :
        \E segments \in SegmentLists(Flush(romaji).output, 0,
                                     Applied(Text(Flush(romaji).output), heuristic, chosen)) :
          Started(Flush(romaji).output, Text(Flush(romaji).output),
                  IF IsLoneN(romaji.buffer) THEN <<>> ELSE romaji.buffer,
                  heuristic, chosen, segments)
  BY DEF StartConversion, Applied, Started
<1>5. PICK heuristic, chosen \in Layouts(Len(kana)) :
        \E segments \in SegmentLists(kana, 0, Applied(text, heuristic, chosen)) :
          Started(kana, text, pending, heuristic, chosen, segments)
  BY <1>1, <1>2, <1>4
<1>6. PICK layout : layout = Applied(text, heuristic, chosen)
  OBVIOUS
<1>7. PICK segments \in SegmentLists(kana, 0, layout) :
        Started(kana, text, pending, heuristic, chosen, segments)
  BY <1>5, <1>6
<1>8. PICK raw : raw = IF Len(segments) = 1 THEN romaji.raw ELSE Untracked
  OBVIOUS
<1>9. PICK consumed \in BOOLEAN : consumed <=> (raw # Untracked /\ pending # <<>>)
  OBVIOUS
<1>10. PICK hit \in BOOLEAN :
         hit <=> (text \in DOMAIN learned /\ ~Redundant(text, heuristic, chosen))
  OBVIOUS
<1>11. PICK initial, preedit : initial = BoundariesOf(segments) /\ preedit = Preedit(romaji)
  OBVIOUS
<1>12. Made(conversion', kana, segments, raw, initial, pending, consumed, hit, "space", preedit)
  BY <1>7, <1>8, <1>9, <1>10, <1>11 DEF Made, Started
<1>13. /\ ConverterOK(romaji) /\ ConverterOK(flushed) /\ flushed.buffer = <<>>
       /\ romaji.output \in Seq(Kana) /\ romaji.buffer \in Seq(Keys)
       /\ romaji.raw \in Seq(Keys) \cup {Untracked}
       /\ pending \in Seq(Keys)
       /\ preedit \in Seq(Keys)
  <2>1. ConverterOK(romaji) /\ romaji \in Converters
    BY DEF CInv, ConverterOK
  <2>2. ConverterOK(flushed) /\ flushed.buffer = <<>>
    BY <1>1, <2>1, FlushOK
  <2>3. romaji.output \in Seq(Kana) /\ romaji.buffer \in Seq(Keys)
        /\ romaji.raw \in Seq(Keys) \cup {Untracked}
    BY <2>1, ConverterFields
  <2>4. preedit \in Seq(Keys)
    BY <1>11, <2>1, PreeditType
  <2>5. pending \in Seq(Keys)
    BY <1>1, <2>3
  <2> QED
    BY <2>1, <2>2, <2>3, <2>4, <2>5
<1>14. kana \in Seq(Kana) /\ Len(kana) \in Nat \ {0}
  <2>1. kana = IF IsLoneN(romaji.buffer) THEN Append(romaji.output, romaji.buffer)
               ELSE romaji.output
    BY <1>1, <1>2, <1>13, FlushOK
  <2>2. kana \in Seq(Kana)
    BY <1>2, <1>13, ConverterFields DEF ConverterOK
  <2>3. kana # <<>>
    <3>1. CASE IsLoneN(romaji.buffer)
      BY <1>13, <2>1, <3>1
    <3>2. CASE ~IsLoneN(romaji.buffer)
      BY <1>3, <2>1, <3>2
    <3> QED
      BY <3>1, <3>2
  <2> QED
    BY <2>2, <2>3, NonEmpty
<1>15. layout \in Layouts(Len(kana))
  <2>1. CASE Overrides(text, heuristic, chosen)
    <3>1. text \in DOMAIN learned
      BY <2>1 DEF Overrides
    <3>2. learned[text] \in Layouts(Len(text))
      BY <3>1 DEF CInv, LearnedOK
    <3>3. Len(text) = Len(kana)
      BY <1>2, <1>14, TextLen
    <3> QED
      BY <1>6, <2>1, <3>2, <3>3 DEF Applied
  <2>2. CASE ~Overrides(text, heuristic, chosen)
    BY <1>6, <2>2 DEF Applied
  <2> QED
    BY <2>1, <2>2
<1>16. Tiles(kana, Untracked, segments, 0, Len(kana)) /\ segments # <<>>
  <2>1. PICK zero \in Nat : zero = 0
    OBVIOUS
  <2>2. PICK end \in Nat : end = Len(kana)
    BY <1>14
  <2>3. zero < end /\ end <= Len(kana) /\ end - zero = Len(kana)
    BY <1>14, <2>1, <2>2
  <2>4. kana = SubSeq(kana, zero + 1, end)
    BY <1>14, <2>1, <2>2, WholeKana
  <2>5. Cut(segments, kana, zero, end, layout)
    <3>1. layout \in Layouts(end - zero) /\ segments \in SegmentLists(kana, zero, layout)
      BY <1>15, <2>1, <2>3
    <3> QED
      BY <2>4, <3>1 DEF Cut
  <2>7. Tiles(kana, Untracked, segments, zero, end) /\ segments # <<>>
    BY <1>14, <2>3, <2>5, SegmentListsOK
  <2> QED
    BY <2>1, <2>2, <2>7
<1>17. Body(kana, segments, raw) /\ raw \in Seq(Keys) \cup {Untracked}
  <2>1. Tiles(kana, raw, segments, 0, Len(kana))
    BY <1>16, TilesAnyRaw
  <2> QED
    BY <1>8, <1>13, <1>14, <1>16, <2>1 DEF Body
<1>18. initial \in Seq(Nat)
  <2>1. initial \in Layouts(Len(kana))
    BY <1>11, <1>14, <1>16, BoundariesType
  <2> QED
    BY <1>14, <2>1, LayoutFacts
<1>19. Source(flushed, conversion')
  <2>1. /\ conversion'.kana = kana /\ conversion'.raw = raw /\ conversion'.pending = pending
        /\ conversion'.consumed = consumed /\ conversion'.origin = "space"
        /\ conversion'.preedit = preedit
    BY <1>12 DEF Made
  <2>2. preedit = Spell(kana) \o pending
    BY <1>1, <1>2, <1>11, <1>13, FlushSpells
  <2>3. (~consumed /\ pending # <<>>) => raw = Untracked
    BY <1>9
  <2> QED
    BY <1>2, <1>13, <2>1, <2>2, <2>3 DEF Source
<1>20. ConversionOK(flushed, conversion')
  <2>1. "space" \in {"space", "fkey"}
    OBVIOUS
  <2> QED
    BY <1>12, <1>13, <1>17, <1>18, <1>19, <2>1, MadeOK
<1>21. LearnedOK(learned')
  <2>1. CASE Redundant(text, heuristic, chosen)
    <3>1. PICK left : left = [t \in DOMAIN learned \ {text} |-> learned[t]]
      OBVIOUS
    <3>2. LearnedOK(left)
      BY <3>1, ForgetOK DEF CInv
    <3> QED
      BY <1>7, <2>1, <3>1, <3>2 DEF Started
  <2>2. CASE ~Redundant(text, heuristic, chosen)
    BY <1>7, <2>2 DEF CInv, Started
  <2> QED
    BY <2>1, <2>2
<1>22. \A snapshot \in pass' : SnapshotOK(snapshot)
  BY <1>7, <1>16, SnapshotFromTiles DEF Started
<1>23. ConverterOK(romaji)'
  BY <1>3, <1>13
<1>24. (conversion # NoConversion => ConversionOK(romaji, conversion))'
  BY <1>3, <1>20
<1>25. LearnedOK(learned)'
  BY <1>21
<1> QED
  BY <1>3, <1>22, <1>23, <1>24, <1>25, EmptySent DEF CInv

LEMMA FunctionIsSeq ==
  ASSUME NEW S, NEW n \in Nat, NEW f \in [1 .. n -> S]
  PROVE  f \in Seq(S) /\ Len(f) = n
OBVIOUS

LEMMA ConcatEmpty ==
  ASSUME NEW S, NEW s \in Seq(S), NEW t \in Seq(S), s \o t = <<>>
  PROVE  Len(s) = 0 /\ Len(t) = 0
<1>1. Len(s) \in Nat /\ Len(t) \in Nat /\ Len(s \o t) = Len(s) + Len(t)
  OBVIOUS
<1>2. Len(s \o t) = 0
  OBVIOUS
<1> QED
  BY <1>1, <1>2

LEMMA KanaForm ==
  ASSUME NEW form \in KanaForms
  PROVE  form \in {"hiragana", "katakana", "romaji"}
BY FormsAssumption DEF Forms

LEMMA StartKanaConversionOK ==
  ASSUME NEW form \in KanaForms, CInv, StartKanaConversion(form)
  PROVE  CInv'
<1>1. PICK flushed, pending : flushed = Flush(romaji) /\ pending = romaji.buffer
  OBVIOUS
<1>2. PICK kana : kana = flushed.output \o Literal(pending)
  OBVIOUS
<1>3. PICK forms : forms = <<"hiragana", "katakana", "romaji">>
  OBVIOUS
<1>4. PICK candidates : candidates = [i \in 1 .. 3 |-> FormSurface(romaji.raw, kana, forms[i])]
  OBVIOUS
<1>5. PICK selected : selected = CHOOSE i \in 1 .. 3 : forms[i] = form
  OBVIOUS
<1>6. PICK preedit : preedit = Preedit(romaji)
  OBVIOUS
<1>7. PICK segment : segment = [reading |-> kana, start |-> 0, candidates |-> candidates,
                                selected |-> selected, userSelected |-> form # "hiragana",
                                choice |-> candidates[selected]]
  OBVIOUS
<1>8. /\ romaji' = flushed /\ NothingSent /\ UNCHANGED <<learned, pass>>
      /\ preedit # <<>>
      /\ conversion' =
           [kana |-> kana, segments |-> <<segment>>, focus |-> 1, raw |-> romaji.raw,
            initial |-> <<>>, pending |-> pending, consumed |-> TRUE, learnedHit |-> FALSE,
            origin |-> "fkey", preedit |-> preedit]
  BY <1>1, <1>2, <1>3, <1>4, <1>5, <1>6, <1>7 DEF StartKanaConversion
<1>9. /\ ConverterOK(romaji) /\ ConverterOK(flushed) /\ flushed.buffer = <<>>
      /\ romaji.output \in Seq(Kana) /\ pending \in Seq(Keys)
      /\ romaji.raw \in Seq(Keys) \cup {Untracked}
      /\ preedit \in Seq(Keys)
  <2>1. ConverterOK(romaji) /\ romaji \in Converters
    BY DEF CInv, ConverterOK
  <2>2. ConverterOK(flushed) /\ flushed.buffer = <<>>
    BY <1>1, <2>1, FlushOK
  <2>3. romaji.output \in Seq(Kana) /\ pending \in Seq(Keys)
        /\ romaji.raw \in Seq(Keys) \cup {Untracked}
    BY <1>1, <2>1, ConverterFields
  <2>4. preedit \in Seq(Keys)
    BY <1>6, <2>1, PreeditType
  <2> QED
    BY <2>1, <2>2, <2>3, <2>4
<1>10. /\ flushed.output \in Seq(Kana) /\ Literal(pending) \in Seq(Kana) /\ kana \in Seq(Kana)
       /\ Spell(kana) = Spell(flushed.output) \o pending
  <2>1. flushed.output \in Seq(Kana)
    BY <1>9, ConverterFields DEF ConverterOK
  <2>2. Literal(pending) \in Seq(Kana) /\ FlattenSeq(Literal(pending)) = pending
    BY <1>9, LiteralSpells DEF Kana
  <2>3. FlattenSeq(flushed.output \o Literal(pending))
          = FlattenSeq(flushed.output) \o FlattenSeq(Literal(pending))
    BY <2>1, <2>2, FlattenConcat DEF Kana
  <2> QED
    BY <1>2, <2>1, <2>2, <2>3 DEF Spell
<1>11. kana # <<>> /\ Len(kana) \in Nat \ {0}
  <2>1. CASE kana = <<>>
    <3>1. Len(flushed.output) = 0 /\ Len(Literal(pending)) = 0
      BY <1>2, <1>10, <2>1, ConcatEmpty
    <3>2. Len(Literal(pending)) = Len(pending)
      BY <1>9, LiteralSpells
    <3>3. Len(flushed.output) = 0 /\ Len(pending) = 0
      BY <3>1, <3>2
    <3>4. flushed.output = <<>> /\ pending = <<>>
      BY <1>9, <1>10, <3>3
    <3>5. ~IsLoneN(romaji.buffer)
      BY <1>1, <3>3 DEF IsLoneN
    <3>6. romaji.output = <<>>
      BY <1>1, <1>9, <3>4, <3>5, FlushOK
    <3>7. preedit = FlattenSeq(<<>>) \o <<>>
      BY <1>1, <1>6, <3>4, <3>6 DEF Preedit, Spell
    <3> QED
      BY <1>8, <3>7, FlattenEmpty
  <2> QED
    BY <1>10, <2>1, NonEmpty
<1>12. /\ selected \in 1 .. 3 /\ forms[selected] = form
       /\ \A i \in 1 .. 3 : forms[i] \in Forms
  <2>1. \A i \in 1 .. 3 : forms[i] \in Forms
    <3>1. \A i \in 1 .. 3 : i = 1 \/ i = 2 \/ i = 3
      OBVIOUS
    <3>2. forms[1] = "hiragana" /\ forms[2] = "katakana" /\ forms[3] = "romaji"
      BY <1>3
    <3> QED
      BY <3>1, <3>2 DEF Forms
  <2>2. \E i \in 1 .. 3 : forms[i] = form
    <3>1. forms[1] = "hiragana" /\ forms[2] = "katakana" /\ forms[3] = "romaji"
      BY <1>3
    <3> QED
      BY <3>1, KanaForm
  <2> QED
    BY <1>5, <2>1, <2>2
<1>13. /\ candidates \in Seq(Surfaces) /\ Len(candidates) = 3
       /\ SpelledAs(romaji.raw, candidates, kana)
  <2>1. ASSUME NEW i \in 1 .. 3
        PROVE  candidates[i] \in Surfaces /\ SurfaceOK(romaji.raw, candidates[i], kana)
    <3>1. PICK surface : surface = FormSurface(romaji.raw, kana, forms[i])
      OBVIOUS
    <3>2. forms[i] \in Forms
      BY <1>12
    <3>3. surface \in Surfaces /\ SurfaceOK(romaji.raw, surface, kana)
      BY <1>9, <1>10, <3>1, <3>2, FormSurfaceOK
    <3> QED
      BY <1>4, <3>1, <3>3
  <2>2. candidates \in [1 .. 3 -> Surfaces]
    BY <1>4, <2>1
  <2>3. candidates \in Seq(Surfaces) /\ Len(candidates) = 3
    <3>1. 3 \in Nat
      OBVIOUS
    <3> QED
      BY <2>2, <3>1, FunctionIsSeq
  <2> QED
    BY <2>1, <2>3 DEF SpelledAs
<1>14. PICK user \in BOOLEAN : user <=> (form # "hiragana")
  OBVIOUS
<1>15. /\ segment.reading = kana /\ segment.start = 0 /\ segment.candidates = candidates
       /\ segment.selected = selected /\ segment.choice = candidates[selected]
       /\ segment = [reading |-> kana, start |-> 0, candidates |-> candidates,
                     selected |-> selected, userSelected |-> user,
                     choice |-> candidates[selected]]
  BY <1>7, <1>14
<1>16. SegmentOK(kana, romaji.raw, segment)
  <2>1. candidates[selected] \in Surfaces /\ selected \in Nat \ {0} /\ selected <= Len(candidates)
    <3>1. selected \in 1 .. Len(candidates)
      BY <1>12, <1>13
    <3>2. candidates \in Seq(Surfaces)
      BY <1>13
    <3> QED
      BY <3>1, <3>2
  <2>2. segment \in Segments
    BY <1>10, <1>13, <1>15, <2>1 DEF Segments
  <2>3. Piece(kana, segment)
    <3>1. 0 + Len(kana) = Len(kana) /\ Len(kana) <= Len(kana)
      BY <1>11
    <3>2. kana = SubSeq(kana, 0 + 1, Len(kana))
      BY <1>10, WholeKana
    <3> QED
      BY <1>11, <1>15, <3>1, <3>2 DEF Piece, Placed
  <2>4. Selected(segment)
    BY <1>15, <2>1 DEF Selected
  <2>5. Spelled(romaji.raw, segment)
    BY <1>13, <1>15 DEF Spelled
  <2> QED
    BY <2>2, <2>3, <2>4, <2>5 DEF SegmentOK
<1>17. Body(kana, <<segment>>, romaji.raw)
  <2>1. Tiles(kana, romaji.raw, <<segment>>, segment.start, End(segment))
    BY <1>16, TilesOne
  <2>2. segment.start = 0 /\ End(segment) = Len(kana)
    BY <1>11, <1>15 DEF End
  <2>3. <<segment>> # <<>> /\ Len(<<segment>>) = 1
    OBVIOUS
  <2> QED
    BY <1>10, <2>1, <2>2, <2>3 DEF Body
<1>18. PICK consumed \in BOOLEAN, hit \in BOOLEAN : consumed = TRUE /\ hit = FALSE
  OBVIOUS
<1>19. PICK raw, segments, initial :
         raw = romaji.raw /\ segments = <<segment>> /\ initial = <<>>
  OBVIOUS
<1>20. Made(conversion', kana, segments, raw, initial, pending, consumed, hit, "fkey", preedit)
  BY <1>8, <1>18, <1>19 DEF Made
<1>21. Source(flushed, conversion')
  <2>1. /\ conversion'.kana = kana /\ conversion'.raw = raw /\ conversion'.pending = pending
        /\ conversion'.consumed /\ conversion'.origin = "fkey"
        /\ conversion'.preedit = preedit
    BY <1>18, <1>20 DEF Made
  <2>2. ~IsLoneN(pending) => preedit = Spell(flushed.output) \o pending
    BY <1>1, <1>6, <1>9, FlushSpells
  <2>3. conversion'.origin # "space"
    BY <2>1
  <2> QED
    BY <1>9, <1>10, <2>1, <2>2, <2>3 DEF Source
<1>22. ConversionOK(flushed, conversion')
  <2>1. "fkey" \in {"space", "fkey"} /\ initial \in Seq(Nat)
    BY <1>19
  <2>2. Body(kana, segments, raw) /\ raw \in Seq(Keys) \cup {Untracked}
    BY <1>9, <1>17, <1>19
  <2> QED
    BY <1>9, <1>20, <1>21, <2>1, <2>2, MadeOK
<1>23. ConverterOK(romaji)' /\ LearnedOK(learned)'
  BY <1>8, <1>9 DEF CInv
<1>24. (conversion # NoConversion => ConversionOK(romaji, conversion))'
  BY <1>8, <1>22
<1>25. (\A snapshot \in pass : SnapshotOK(snapshot))'
  BY <1>8 DEF CInv
<1> QED
  BY <1>8, <1>23, <1>24, <1>25, EmptySent DEF CInv

-----------------------------------------------------------------------------
(* Moving a kana between segments                                           *)

LEMMA PlacedAt ==
  ASSUME NEW kana \in Seq(Kana), NEW reading \in Seq(Kana), NEW start \in Nat
  PROVE  Placed(kana, reading, start)
           <=> /\ Len(reading) > 0 /\ start + Len(reading) <= Len(kana)
               /\ \A i \in 1 .. Len(reading) : reading[i] = kana[start + i]
<1>1. PICK n \in Nat : n = Len(reading)
  OBVIOUS
<1>2. reading # <<>> <=> n > 0
  BY <1>1, NonEmpty
<1>3. CASE start + n <= Len(kana)
  <2>0. PICK p \in Nat, q \in Nat : p = start + 1 /\ q = start + n
    OBVIOUS
  <2>1. PICK t : t = SubSeq(kana, p, q)
    OBVIOUS
  <2>2. 1 <= p /\ p <= q + 1 /\ q <= Len(kana) /\ (q + 1) - p = n
    BY <1>3, <2>0
  <2>3. t \in Seq(Kana) /\ Len(t) = (q + 1) - p /\ \A i \in 1 .. (q + 1) - p : t[i] = kana[(p + i) - 1]
    BY <2>1, <2>2, SubSeqFacts
  <2>4. Len(t) = n /\ \A i \in 1 .. n : t[i] = kana[(p + i) - 1]
    BY <2>2, <2>3
  <2>5. \A i \in 1 .. n : t[i] = kana[start + i]
    <3>1. ASSUME NEW i \in 1 .. n PROVE (p + i) - 1 = start + i
      BY <2>0
    <3> QED
      BY <2>4, <3>1
  <2>6. reading = t <=> \A i \in 1 .. n : reading[i] = kana[start + i]
    BY <1>1, <2>3, <2>4, <2>5, SeqEqual
  <2> QED
    BY <1>1, <1>2, <1>3, <2>0, <2>1, <2>6 DEF Placed
<1>4. CASE ~(start + n <= Len(kana))
  BY <1>1, <1>4 DEF Placed
<1> QED
  BY <1>3, <1>4

(* A reading that takes the first kana of the next one.                     *)
LEMMA PlacedLonger ==
  ASSUME NEW kana \in Seq(Kana), NEW r \in Seq(Kana), NEW q \in Seq(Kana), NEW a \in Nat,
         NEW b \in Nat, b = a + Len(r), Placed(kana, r, a), Placed(kana, q, b)
  PROVE  /\ Append(r, Head(q)) \in Seq(Kana) /\ Len(Append(r, Head(q))) = Len(r) + 1
         /\ Placed(kana, Append(r, Head(q)), a)
         /\ Len(q) > 1 => Tail(q) \in Seq(Kana) /\ Len(Tail(q)) = Len(q) - 1
                            /\ Placed(kana, Tail(q), b + 1)
<1>1. PICK m \in Nat, n \in Nat : m = Len(r) /\ n = Len(q)
  OBVIOUS
<1>2. /\ m > 0 /\ a + m <= Len(kana) /\ \A i \in 1 .. m : r[i] = kana[a + i]
      /\ n > 0 /\ b + n <= Len(kana) /\ \A i \in 1 .. n : q[i] = kana[b + i]
      /\ b = a + m /\ Len(kana) \in Nat
  BY <1>1, PlacedAt
<1>3. q # <<>> /\ Head(q) = q[1] /\ Head(q) \in Kana
  <2>1. q # <<>>
    BY <1>1, <1>2, NonEmpty
  <2> QED
    BY <2>1
<1>4. PICK t : t = Append(r, Head(q))
  OBVIOUS
<1>5. /\ t \in Seq(Kana) /\ Len(t) = m + 1 /\ t[m + 1] = Head(q)
      /\ \A i \in 1 .. m : t[i] = r[i]
  BY <1>1, <1>3, <1>4, AppendProperties
<1>6. Placed(kana, t, a)
  <2>1. Len(t) > 0 /\ a + Len(t) <= Len(kana)
    BY <1>2, <1>5
  <2>2. ASSUME NEW i \in 1 .. Len(t) PROVE t[i] = kana[a + i]
    <3>1. CASE i = m + 1
      <4>a. n > 0 /\ b = a + m
        BY <1>2
      <4>1. 1 \in 1 .. n /\ b + 1 = a + (m + 1)
        BY <4>a
      <4>2. q[1] = kana[b + 1]
        BY <1>2, <4>1
      <4> QED
        BY <1>3, <1>5, <3>1, <4>1, <4>2
    <3>2. CASE i # m + 1
      <4>1. i \in 1 .. m
        BY <1>5, <3>2
      <4> QED
        BY <1>2, <1>5, <4>1
    <3> QED
      BY <3>1, <3>2
  <2> QED
    BY <1>5, <2>1, <2>2, PlacedAt
<1>7. ASSUME n > 1
      PROVE  Tail(q) \in Seq(Kana) /\ Len(Tail(q)) = n - 1 /\ Placed(kana, Tail(q), b + 1)
  <2>1. PICK u : u = Tail(q)
    OBVIOUS
  <2>2. u \in Seq(Kana) /\ Len(u) = n - 1 /\ \A i \in 1 .. n - 1 : u[i] = q[i + 1]
    BY <1>1, <1>3, <2>1, HeadTailProperties
  <2>3. Len(u) > 0 /\ (b + 1) + Len(u) <= Len(kana) /\ b + 1 \in Nat
    <3>1. PICK l \in Nat : l = Len(kana)
      OBVIOUS
    <3>2. b + n <= l
      BY <1>2, <3>1
    <3>3. n - 1 > 0 /\ (b + 1) + (n - 1) <= l /\ b + 1 \in Nat
      BY <1>7, <3>2
    <3> QED
      BY <2>2, <3>1, <3>3
  <2>4. ASSUME NEW i \in 1 .. Len(u) PROVE u[i] = kana[(b + 1) + i]
    <3>1. i \in 1 .. n - 1 /\ i + 1 \in 1 .. n /\ b + (i + 1) = (b + 1) + i
      BY <2>2
    <3> QED
      BY <1>2, <2>2, <3>1
  <2> QED
    BY <2>1, <2>2, <2>3, <2>4, PlacedAt
<1> QED
  BY <1>1, <1>4, <1>5, <1>6, <1>7

(* The reading from position a ends one kana behind position m.             *)
EndsBehind(reading, a, m) == m + 1 = a + Len(reading)

(* A reading that gives its last kana away, and what that kana starts.      *)
LEMMA PlacedShorter ==
  ASSUME NEW kana \in Seq(Kana), NEW r \in Seq(Kana), NEW a \in Nat, NEW m \in Nat,
         EndsBehind(r, a, m), Len(r) > 1, Placed(kana, r, a)
  PROVE  /\ Front(r) \in Seq(Kana) /\ a + Len(Front(r)) = m /\ Placed(kana, Front(r), a)
         /\ <<Last(r)>> \in Seq(Kana) /\ Placed(kana, <<Last(r)>>, m)
         /\ \A q \in Seq(Kana) : Placed(kana, q, m + 1) =>
              /\ <<Last(r)>> \o q \in Seq(Kana) /\ Len(<<Last(r)>> \o q) = Len(q) + 1
              /\ Placed(kana, <<Last(r)>> \o q, m)
<1>0. PICK n \in Nat : n = Len(r) /\ n > 1
  OBVIOUS
<1>1. /\ a + n <= Len(kana) /\ Len(kana) \in Nat /\ r # <<>>
      /\ \A i \in 1 .. n : r[i] = kana[a + i]
  BY <1>0, PlacedAt, NonEmpty
<1>2. PICK f, e : f = Front(r) /\ e = Last(r)
  OBVIOUS
<1>3. f \in Seq(Kana) /\ Len(f) = n - 1 /\ \A i \in 1 .. n - 1 : f[i] = r[i]
  BY <1>0, <1>1, <1>2, FrontType
<1>4. e \in Kana /\ e = kana[a + n]
  <2>1. n \in 1 .. n /\ e = r[n]
    BY <1>0, <1>2 DEF Last
  <2> QED
    BY <1>1, <2>1
<1>5. Placed(kana, f, a)
  <2>1. Len(f) > 0 /\ a + Len(f) <= Len(kana)
    BY <1>0, <1>1, <1>3
  <2>2. \A i \in 1 .. Len(f) : f[i] = kana[a + i]
    BY <1>1, <1>3
  <2> QED
    BY <1>3, <2>1, <2>2, PlacedAt
<1>6. PICK b \in Nat : b = m /\ b + 1 = a + n
  BY <1>0 DEF EndsBehind
<1>a. a + Len(f) = b
  <2>1. a + (n - 1) = (a + n) - 1
    BY <1>0
  <2> QED
    BY <1>3, <1>6, <2>1
<1>7. PICK one : one = <<e>>
  OBVIOUS
<1>8. one \in Seq(Kana) /\ Len(one) = 1 /\ one[1] = e
  BY <1>4, <1>7
<1>9. Placed(kana, one, b)
  <2>1. Len(one) > 0 /\ b + Len(one) <= Len(kana)
    BY <1>1, <1>6, <1>8
  <2>2. \A i \in 1 .. Len(one) : one[i] = kana[b + i]
    <3>1. \A i \in 1 .. 1 : i = 1
      OBVIOUS
    <3> QED
      BY <1>4, <1>6, <1>8, <3>1
  <2> QED
    BY <1>8, <2>1, <2>2, PlacedAt
<1>10. ASSUME NEW q \in Seq(Kana), Placed(kana, q, b + 1)
       PROVE  one \o q \in Seq(Kana) /\ Len(one \o q) = Len(q) + 1 /\ Placed(kana, one \o q, b)
  <2>1. a + n \in Nat
    OBVIOUS
  <2>2. PICK l \in Nat : l = Len(q)
    OBVIOUS
  <2>3. l > 0 /\ (a + n) + l <= Len(kana) /\ \A i \in 1 .. l : q[i] = kana[(a + n) + i]
    BY <1>6, <1>10, <2>1, <2>2, PlacedAt
  <2>4. PICK t : t = one \o q
    OBVIOUS
  <2>5. /\ t \in Seq(Kana) /\ Len(t) = 1 + l
        /\ \A i \in 1 .. 1 + l : t[i] = IF i <= 1 THEN one[i] ELSE q[i - 1]
    <3>1. /\ one \o q \in Seq(Kana) /\ Len(one \o q) = Len(one) + Len(q)
          /\ \A i \in 1 .. Len(one) + Len(q) :
               (one \o q)[i] = IF i <= Len(one) THEN one[i] ELSE q[i - Len(one)]
      BY <1>8, ConcatProperties
    <3>2. Len(one) = 1 /\ Len(q) = l
      BY <1>8, <2>2
    <3>3. /\ t \in Seq(Kana) /\ Len(t) = Len(one) + Len(q)
          /\ \A i \in 1 .. Len(one) + Len(q) : t[i] = IF i <= Len(one) THEN one[i] ELSE q[i - Len(one)]
      BY <2>4, <3>1
    <3> QED
      BY <3>2, <3>3
  <2>6. Len(t) > 0 /\ b + Len(t) <= Len(kana)
    BY <1>6, <2>3, <2>5
  <2>7. ASSUME NEW i \in 1 .. Len(t) PROVE t[i] = kana[b + i]
    <3>1. CASE i = 1
      <4>1. t[1] = one[1]
        BY <2>5
      <4> QED
        BY <1>4, <1>6, <1>8, <3>1, <4>1
    <3>2. CASE i # 1
      <4>1. i - 1 \in 1 .. l /\ ~(i <= 1) /\ i \in 1 .. 1 + l /\ (a + n) + (i - 1) = b + i
        BY <1>6, <2>5, <3>2
      <4> QED
        BY <2>3, <2>5, <4>1
    <3> QED
      BY <3>1, <3>2
  <2>8. Placed(kana, t, b)
    BY <2>5, <2>6, <2>7, PlacedAt
  <2> QED
    BY <2>2, <2>4, <2>5, <2>8
<1> QED
  BY <1>a, <1>2, <1>3, <1>5, <1>6, <1>7, <1>8, <1>9, <1>10

LEMMA EmptySlice ==
  ASSUME NEW S, NEW s \in Seq(S), NEW m \in Nat, NEW n \in Nat, m > n
  PROVE  SubSeq(s, m, n) = <<>>
OBVIOUS

LEMMA WithReadingFields ==
  ASSUME NEW segment \in Segments, NEW reading, NEW start
  PROVE  /\ WithReading(segment, reading, start).reading = reading
         /\ WithReading(segment, reading, start).start = start
BY DEF WithReading, Segments

(* What lies before and behind a segment, once the raw input is forgotten.  *)
LEMMA Around ==
  ASSUME NEW c, NEW cv, ConversionOK(c, cv), NEW n \in 1 .. Len(cv.segments)
  PROVE  /\ Tiles(cv.kana, Untracked, SubSeq(cv.segments, 1, n - 1), 0, cv.segments[n].start)
         /\ Tiles(cv.kana, Untracked, SubSeq(cv.segments, n + 1, Len(cv.segments)),
                  End(cv.segments[n]), Len(cv.kana))
<1>1. /\ cv.segments \in Seq(Segments) /\ Len(cv.segments) \in Nat \ {0}
      /\ Tiles(cv.kana, cv.raw, cv.segments, 0, Len(cv.kana))
  BY ConversionFacts
<1>2. CASE cv.raw = Untracked
  <2>1. Tiles(cv.kana, Untracked, cv.segments, 0, Len(cv.kana))
    BY <1>1, <1>2
  <2> QED
    BY <2>1, TilesPrefix, TilesSuffix
<1>3. CASE cv.raw # Untracked
  <2>1. Len(cv.segments) = 1 /\ cv.segments # <<>>
    BY <1>3 DEF ConversionOK, Body
  <2>2. n = 1
    BY <2>1
  <2>3. SubSeq(cv.segments, 1, n - 1) = <<>> /\ SubSeq(cv.segments, n + 1, Len(cv.segments)) = <<>>
    <3>1. SubSeq(cv.segments, 1, 0) = <<>> /\ SubSeq(cv.segments, 2, 1) = <<>>
      BY <1>1, EmptySlice
    <3>2. n - 1 = 0 /\ n + 1 = 2
      BY <2>2
    <3> QED
      BY <2>1, <3>1, <3>2
  <2>4. cv.segments[1].start = 0 /\ End(cv.segments[1]) = Len(cv.kana)
    BY <1>1, <2>1 DEF Tiles
  <2> QED
    BY <2>2, <2>3, <2>4, TilesEmpty
<1> QED
  BY <1>2, <1>3

(* next and the segments from restFrom on follow from position m.           *)
Follows(cv, next, restFrom, m) ==
  \E e \in Nat : /\ Tiles(cv.kana, Untracked, next, m, e)
                 /\ Tiles(cv.kana, Untracked, SubSeq(cv.segments, restFrom, Len(cv.segments)),
                          e, Len(cv.kana))

(* The focused segment gets this reading, and all that may follow it fits.  *)
Fits(cv, focused, following, restFrom) ==
  /\ focused.reading \in Seq(Kana)
  /\ focused.start = cv.segments[cv.focus].start
  /\ Placed(cv.kana, focused.reading, focused.start)
  /\ \A next \in following : Follows(cv, next, restFrom, End(focused))

LEMMA ResizedOK ==
  ASSUME CInv, conversion # NoConversion, NothingSent, UNCHANGED <<romaji, learned>>,
         NEW focused, NEW following, NEW restFrom,
         Fits(conversion, focused, following, restFrom),
         Resized(focused, following, restFrom)
  PROVE  CInv'
<1>1. PICK cv : cv = conversion
  OBVIOUS
<1>2. ConversionOK(romaji, cv)
  BY <1>1 DEF CInv
<1>3. /\ cv \in ConversionStates /\ cv.segments \in Seq(Segments)
      /\ Len(cv.segments) \in Nat \ {0} /\ cv.focus \in 1 .. Len(cv.segments)
      /\ SegmentOK(cv.kana, cv.raw, cv.segments[cv.focus])
      /\ cv.kana \in Seq(Kana)
  BY <1>2, ConversionFacts
<1>4. PICK a \in Nat : a = cv.segments[cv.focus].start
  BY <1>3, SegmentFacts
<1>a. PICK s \in Relookup(focused), next \in following :
        LET new == SubSeq(conversion.segments, 1, conversion.focus - 1) \o <<s>> \o next
                     \o SubSeq(conversion.segments, restFrom, Len(conversion.segments))
        IN  /\ conversion' = [conversion EXCEPT !.segments = new, !.raw = Untracked]
            /\ pass' = {Snapshot(new)}
  BY DEF Resized
<1>5. PICK before, rest : /\ before = SubSeq(cv.segments, 1, cv.focus - 1)
                          /\ rest = SubSeq(cv.segments, restFrom, Len(cv.segments))
  OBVIOUS
<1>6. PICK new : new = before \o <<s>> \o next \o rest
  OBVIOUS
<1>7. conversion' = [cv EXCEPT !.segments = new, !.raw = Untracked] /\ pass' = {Snapshot(new)}
  BY <1>a, <1>1, <1>5, <1>6
<1>8. /\ focused.reading \in Seq(Kana) /\ focused.start = a
      /\ Placed(cv.kana, focused.reading, a)
      /\ Follows(cv, next, restFrom, End(focused))
  BY <1>1, <1>4 DEF Fits
<1>9. SegmentOK(cv.kana, Untracked, s) /\ s.start = a /\ End(s) = End(focused)
  <2>1. LookedUp(s, focused.reading, a)
    BY <1>8 DEF Relookup, LookedUp
  <2>2. /\ SegmentOK(cv.kana, Untracked, s) /\ s.start = a
        /\ End(s) = a + Len(focused.reading)
    <3>1. PICK reading \in Seq(Kana) : reading = focused.reading
      BY <1>8
    <3>2. PICK kana \in Seq(Kana) : kana = cv.kana
      BY <1>3
    <3>3. Placed(kana, reading, a) /\ LookedUp(s, reading, a)
      BY <1>8, <2>1, <3>1, <3>2
    <3>4. SegmentOK(kana, Untracked, s)
      BY <3>3, NewSegmentOK
    <3>5. s.start = a /\ End(s) = a + Len(reading)
      BY <3>3, <3>4, NewSegmentOK
    <3> QED
      BY <3>1, <3>2, <3>4, <3>5
  <2> QED
    BY <1>8, <2>2 DEF End
<1>10. Tiles(cv.kana, Untracked, before, 0, a)
  BY <1>2, <1>3, <1>4, <1>5, Around
<1>11. Tiles(cv.kana, Untracked, before \o <<s>>, 0, End(focused))
  <2>1. Tiles(cv.kana, Untracked, <<s>>, a, End(focused))
    <3>1. Tiles(cv.kana, Untracked, <<s>>, s.start, End(s))
      BY <1>9, TilesOne
    <3> QED
      BY <1>9, <3>1
  <2> QED
    BY <1>10, <2>1, TilesConcat
<1>12. PICK e \in Nat : /\ Tiles(cv.kana, Untracked, next, End(focused), e)
                        /\ Tiles(cv.kana, Untracked, rest, e, Len(cv.kana))
  BY <1>5, <1>8 DEF Follows
<1>13. Tiles(cv.kana, Untracked, new, 0, Len(cv.kana))
  <2>1. Tiles(cv.kana, Untracked, before \o <<s>> \o next, 0, e)
    BY <1>11, <1>12, TilesConcat
  <2> QED
    BY <1>6, <1>12, <2>1, TilesConcat
<1>14. new # <<>> /\ cv.focus \in 1 .. Len(new)
  <2>1. /\ before \in Seq(Segments) /\ next \in Seq(Segments) /\ rest \in Seq(Segments)
        /\ s \in Segments
    BY <1>9, <1>10, <1>12 DEF Tiles, SegmentOK
  <2>2. Len(before) = cv.focus - 1
    <3>1. PICK f \in Nat \ {0} : f = cv.focus /\ f <= Len(cv.segments)
      BY <1>3
    <3>2. /\ f - 1 \in Nat /\ 1 <= 1 /\ 1 <= (f - 1) + 1 /\ f - 1 <= Len(cv.segments)
          /\ ((f - 1) + 1) - 1 = f - 1
      BY <1>3, <3>1
    <3>3. Len(SubSeq(cv.segments, 1, f - 1)) = ((f - 1) + 1) - 1
      BY <1>3, <3>2, SubSeqFacts
    <3> QED
      BY <1>5, <3>1, <3>2, <3>3
  <2>3. Len(before \o <<s>>) = Len(before) + 1 /\ before \o <<s>> \in Seq(Segments)
    <3>1. <<s>> \in Seq(Segments) /\ Len(<<s>>) = 1
      BY <2>1
    <3> QED
      BY <2>1, <3>1, ConcatProperties
  <2>4. /\ before \o <<s>> \o next \in Seq(Segments)
        /\ Len(before \o <<s>> \o next) = Len(before \o <<s>>) + Len(next)
    BY <2>1, <2>3, ConcatProperties
  <2>5. new \in Seq(Segments) /\ Len(new) = Len(before \o <<s>> \o next) + Len(rest)
    BY <1>6, <2>1, <2>4, ConcatProperties
  <2>6. Len(next) \in Nat /\ Len(rest) \in Nat /\ Len(new) \in Nat
    BY <2>1, <2>5
  <2>7. Len(new) = ((cv.focus - 1) + 1) + Len(next) + Len(rest)
    BY <2>2, <2>3, <2>4, <2>5
  <2>8. Len(new) >= cv.focus
    BY <1>3, <2>6, <2>7
  <2>9. Len(new) > 0
    BY <1>3, <2>6, <2>8
  <2> QED
    BY <1>3, <2>5, <2>6, <2>8, <2>9, NonEmpty
<1>15. Edited(conversion', cv, new, cv.focus, Untracked)
  BY <1>3, <1>7 DEF Edited, ConversionStates
<1>16. Body(cv.kana, new, Untracked)
  BY <1>3, <1>13, <1>14 DEF Body
<1>17. ConversionOK(romaji, conversion')
  <2>1. Untracked \in {cv.raw, Untracked}
    OBVIOUS
  <2> QED
    BY <1>2, <1>14, <1>15, <1>16, <2>1, EditOK
<1>18. \A snapshot \in pass' : SnapshotOK(snapshot)
  BY <1>7, <1>13, SnapshotFromTiles
<1>19. ConverterOK(romaji)' /\ LearnedOK(learned)'
  BY DEF CInv
<1>20. (conversion # NoConversion => ConversionOK(romaji, conversion))'
  BY <1>17
<1> QED
  BY <1>18, <1>19, <1>20, EmptySent DEF CInv

(* One segment looked up at its place follows, and then the rest.           *)
LEMMA FollowsOne ==
  ASSUME NEW cv, cv.kana \in Seq(Kana), NEW reading \in Seq(Kana), NEW m \in Nat,
         Placed(cv.kana, reading, m), NEW segment, LookedUp(segment, reading, m),
         NEW restFrom,
         Tiles(cv.kana, Untracked, SubSeq(cv.segments, restFrom, Len(cv.segments)),
               m + Len(reading), Len(cv.kana))
  PROVE  Follows(cv, <<segment>>, restFrom, m)
<1>1. PICK e \in Nat : e = m + Len(reading)
  OBVIOUS
<1>2. SegmentOK(cv.kana, Untracked, segment) /\ segment.start = m /\ End(segment) = e
  BY <1>1, NewSegmentOK
<1>3. Tiles(cv.kana, Untracked, <<segment>>, m, e)
  BY <1>2, TilesOne
<1> QED
  BY <1>1, <1>3 DEF Follows

LEMMA ExtendSegmentOK == CInv /\ ExtendSegment => CInv'
<1> SUFFICES ASSUME CInv, ExtendSegment PROVE CInv'
  OBVIOUS
<1>1. /\ conversion # NoConversion /\ NothingSent /\ UNCHANGED <<romaji, learned>>
      /\ conversion.focus < Len(conversion.segments)
  BY DEF ExtendSegment
<1>2. PICK cv : cv = conversion
  OBVIOUS
<1>3. ConversionOK(romaji, cv)
  BY <1>1, <1>2 DEF CInv
<1>4. /\ cv.segments \in Seq(Segments) /\ cv.kana \in Seq(Kana)
      /\ Len(cv.segments) \in Nat \ {0} /\ cv.focus \in 1 .. Len(cv.segments)
      /\ Tiles(cv.kana, cv.raw, cv.segments, 0, Len(cv.kana))
      /\ \A i \in 1 .. Len(cv.segments) : SegmentOK(cv.kana, cv.raw, cv.segments[i])
  BY <1>3, ConversionFacts
<1>5. PICK f \in Nat \ {0} : f = cv.focus
  BY <1>4
<1>6. f \in 1 .. Len(cv.segments) - 1 /\ f \in 1 .. Len(cv.segments) /\ f + 1 \in 1 .. Len(cv.segments)
  BY <1>1, <1>2, <1>4, <1>5
<1>7. PICK this, next : this = cv.segments[f] /\ next = cv.segments[f + 1]
  OBVIOUS
<1>8. /\ SegmentOK(cv.kana, cv.raw, this) /\ SegmentOK(cv.kana, cv.raw, next)
      /\ next.start = End(this)
  BY <1>4, <1>6, <1>7 DEF Tiles
<1>9. PICK r \in Seq(Kana), q \in Seq(Kana) : r = this.reading /\ q = next.reading
  BY <1>8, SegmentFacts
<1>10. PICK a \in Nat, b \in Nat : a = this.start /\ b = next.start
  BY <1>8, SegmentFacts
<1>11. /\ Placed(cv.kana, r, a) /\ Placed(cv.kana, q, b) /\ b = a + Len(r)
       /\ this \in Segments /\ next \in Segments
  BY <1>8, <1>9, <1>10 DEF SegmentOK, Piece, End
<1>12. PICK longer : longer = Append(r, Head(q))
  OBVIOUS
<1>13. /\ longer \in Seq(Kana) /\ Len(longer) = Len(r) + 1 /\ Placed(cv.kana, longer, a)
       /\ Len(q) > 1 => Tail(q) \in Seq(Kana) /\ Len(Tail(q)) = Len(q) - 1
                          /\ Placed(cv.kana, Tail(q), b + 1)
  BY <1>4, <1>11, <1>12, PlacedLonger
<1>14. PICK focused : focused = WithReading(this, longer, a)
  OBVIOUS
<1>15. focused.reading = longer /\ focused.start = a /\ End(focused) = b + 1 /\ b + 1 \in Nat
  <2>1. focused.reading = longer /\ focused.start = a
    BY <1>11, <1>14, WithReadingFields
  <2>2. a + (Len(r) + 1) = (a + Len(r)) + 1
    OBVIOUS
  <2> QED
    BY <1>11, <1>13, <2>1, <2>2 DEF End
<1>16. ASSUME NEW following, NEW restFrom,
              \A n \in following : Follows(cv, n, restFrom, b + 1)
       PROVE  Fits(conversion, focused, following, restFrom)
  BY <1>2, <1>5, <1>7, <1>10, <1>13, <1>15, <1>16 DEF Fits
<1>17. CASE Len(q) > 1
  <2>1. PICK following : following = AsLists(Relookup(WithReading(next, Tail(q), b + 1)))
    OBVIOUS
  <2>2. Resized(focused, following, f + 2)
    BY <1>2, <1>5, <1>7, <1>9, <1>10, <1>12, <1>14, <1>17, <2>1 DEF ExtendSegment, Focused
  <2>3. ASSUME NEW n \in following PROVE Follows(cv, n, f + 2, b + 1)
    <3>1. PICK segment \in Relookup(WithReading(next, Tail(q), b + 1)) : n = <<segment>>
      BY <2>1 DEF AsLists
    <3>2. LookedUp(segment, Tail(q), b + 1)
      BY <1>11, WithReadingFields DEF Relookup, LookedUp
    <3>3. (b + 1) + Len(Tail(q)) = End(next)
      <4>1. Len(Tail(q)) = Len(q) - 1 /\ Len(q) \in Nat
        BY <1>13, <1>17
      <4>2. (b + 1) + (Len(q) - 1) = b + Len(q)
        BY <4>1
      <4> QED
        BY <1>9, <1>10, <4>1, <4>2 DEF End
    <3>4. Tiles(cv.kana, Untracked, SubSeq(cv.segments, f + 2, Len(cv.segments)),
                (b + 1) + Len(Tail(q)), Len(cv.kana))
      <4>1. Tiles(cv.kana, Untracked, SubSeq(cv.segments, (f + 1) + 1, Len(cv.segments)),
                  End(cv.segments[f + 1]), Len(cv.kana))
        BY <1>3, <1>6, Around
      <4>2. (f + 1) + 1 = f + 2
        OBVIOUS
      <4> QED
        BY <1>7, <3>3, <4>1, <4>2
    <3>5. Tail(q) \in Seq(Kana) /\ Placed(cv.kana, Tail(q), b + 1)
      BY <1>13, <1>17
    <3> QED
      BY <1>4, <1>15, <3>1, <3>2, <3>4, <3>5, FollowsOne
  <2>4. Fits(conversion, focused, following, f + 2)
    BY <1>16, <2>3
  <2> QED
    BY <1>1, <2>2, <2>4, ResizedOK
<1>18. ASSUME ~(Len(q) > 1) PROVE End(next) = b + 1
  <2>1. Len(next.reading) \in Nat \ {0}
    BY <1>8, SegmentFacts
  <2>2. Len(q) = 1
    <3>1. PICK n \in Nat \ {0} : n = Len(q)
      BY <1>9, <2>1
    <3>2. ~(n > 1)
      BY <1>18, <3>1
    <3>3. n = 1
      BY <3>2
    <3> QED
      BY <3>1, <3>3
  <2> QED
    <3>1. End(next) = b + Len(q)
      BY <1>9, <1>10 DEF End
    <3> QED
      BY <2>2, <3>1
<1>19. CASE ~(Len(q) > 1) /\ f + 2 <= Len(cv.segments)
  <2>1. PICK following, after : /\ following = AsLists(Relookup(after))
                                /\ after = cv.segments[f + 2]
    OBVIOUS
  <2>2. Resized(focused, following, f + 3)
    BY <1>2, <1>5, <1>7, <1>9, <1>10, <1>12, <1>14, <1>19, <2>1 DEF ExtendSegment, Focused
  <2>3. /\ f + 2 \in 1 .. Len(cv.segments) /\ f + 1 \in 1 .. Len(cv.segments) - 1
        /\ (f + 1) + 1 = f + 2 /\ (f + 2) + 1 = f + 3
    BY <1>4, <1>19
  <2>4. SegmentOK(cv.kana, cv.raw, after) /\ after.start = b + 1
    <3>1. cv.segments[(f + 1) + 1].start = End(cv.segments[f + 1])
      BY <1>4, <2>3 DEF Tiles
    <3> QED
      BY <1>4, <1>7, <1>18, <1>19, <2>1, <2>3, <3>1
  <2>5. after.reading \in Seq(Kana) /\ Placed(cv.kana, after.reading, b + 1)
    BY <2>4, SegmentFacts DEF SegmentOK, Piece
  <2>6. ASSUME NEW n \in following PROVE Follows(cv, n, f + 3, b + 1)
    <3>1. PICK segment \in Relookup(after) : n = <<segment>>
      BY <2>1 DEF AsLists
    <3>2. LookedUp(segment, after.reading, b + 1)
      BY <2>4 DEF Relookup, LookedUp
    <3>3. Tiles(cv.kana, Untracked, SubSeq(cv.segments, f + 3, Len(cv.segments)),
                (b + 1) + Len(after.reading), Len(cv.kana))
      <4>1. Tiles(cv.kana, Untracked, SubSeq(cv.segments, (f + 2) + 1, Len(cv.segments)),
                  End(cv.segments[f + 2]), Len(cv.kana))
        BY <1>3, <2>3, Around
      <4> QED
        BY <2>1, <2>3, <2>4, <4>1 DEF End
    <3> QED
      BY <1>4, <1>15, <2>5, <3>1, <3>2, <3>3, FollowsOne
  <2>7. Fits(conversion, focused, following, f + 3)
    BY <1>16, <2>6
  <2> QED
    BY <1>1, <2>2, <2>7, ResizedOK
<1>20. CASE ~(Len(q) > 1) /\ ~(f + 2 <= Len(cv.segments))
  <2>1. Resized(focused, {<<>>}, f + 2)
    BY <1>2, <1>5, <1>7, <1>9, <1>10, <1>12, <1>14, <1>20 DEF ExtendSegment, Focused
  <2>2. Follows(cv, <<>>, f + 2, b + 1)
    <3>1. Tiles(cv.kana, Untracked, SubSeq(cv.segments, (f + 1) + 1, Len(cv.segments)),
                End(cv.segments[f + 1]), Len(cv.kana))
      BY <1>3, <1>6, Around
    <3>2. (f + 1) + 1 = f + 2 /\ End(cv.segments[f + 1]) = b + 1
      BY <1>7, <1>18, <1>20
    <3>3. Tiles(cv.kana, Untracked, <<>>, b + 1, b + 1)
      BY TilesEmpty
    <3>4. Tiles(cv.kana, Untracked, SubSeq(cv.segments, f + 2, Len(cv.segments)),
                b + 1, Len(cv.kana))
      BY <3>1, <3>2
    <3> QED
      BY <1>15, <3>3, <3>4 DEF Follows
  <2>3. PICK following : following = {<<>>}
    OBVIOUS
  <2>4. Fits(conversion, focused, following, f + 2)
    BY <1>16, <2>2, <2>3
  <2> QED
    BY <1>1, <2>1, <2>3, <2>4, ResizedOK
<1> QED
  BY <1>17, <1>19, <1>20

At(segment, reading, m) == segment.reading = reading /\ segment.start = m

(* The pieces the segmenter may cut a reading into follow, then the rest.   *)
LEMMA FollowsSplit ==
  ASSUME NEW cv, cv.kana \in Seq(Kana), NEW reading \in Seq(Kana), NEW m \in Nat,
         Placed(cv.kana, reading, m),
         NEW segment, At(segment, reading, m),
         NEW next \in RelookupOrSplit(segment), NEW restFrom,
         Tiles(cv.kana, Untracked, SubSeq(cv.segments, restFrom, Len(cv.segments)),
               m + Len(reading), Len(cv.kana))
  PROVE  Follows(cv, next, restFrom, m)
<1>1. Len(reading) \in Nat \ {0} /\ reading = SubSeq(cv.kana, m + 1, m + Len(reading))
      /\ m + Len(reading) <= Len(cv.kana)
  BY NonEmpty DEF Placed
<1>2. PICK e \in Nat : e = m + Len(reading)
  BY <1>1
<1>3. PICK b \in Layouts(Len(reading)) : next \in SegmentLists(reading, m, b)
  BY DEF RelookupOrSplit, At
<1>4. m < e /\ e <= Len(cv.kana) /\ e - m = Len(reading)
  BY <1>1, <1>2
<1>5. Cut(next, cv.kana, m, e, b)
  <2>1. b \in Layouts(e - m)
    BY <1>3, <1>4
  <2>2. SubSeq(cv.kana, m + 1, e) = reading
    BY <1>1, <1>2
  <2> QED
    BY <1>3, <2>1, <2>2 DEF Cut
<1>6. Tiles(cv.kana, Untracked, next, m, e)
  BY <1>4, <1>5, SegmentListsOK
<1> QED
  BY <1>2, <1>6 DEF Follows

LEMMA ShrinkSegmentOK == CInv /\ ShrinkSegment => CInv'
<1> SUFFICES ASSUME CInv, ShrinkSegment PROVE CInv'
  OBVIOUS
<1>1. /\ conversion # NoConversion /\ NothingSent /\ UNCHANGED <<romaji, learned>>
      /\ Len(Focused.reading) > 1
  BY DEF ShrinkSegment
<1>2. PICK cv : cv = conversion
  OBVIOUS
<1>3. ConversionOK(romaji, cv)
  BY <1>1, <1>2 DEF CInv
<1>4. /\ cv.segments \in Seq(Segments) /\ cv.kana \in Seq(Kana)
      /\ Len(cv.segments) \in Nat \ {0} /\ cv.focus \in 1 .. Len(cv.segments)
      /\ Tiles(cv.kana, cv.raw, cv.segments, 0, Len(cv.kana))
      /\ \A i \in 1 .. Len(cv.segments) : SegmentOK(cv.kana, cv.raw, cv.segments[i])
  BY <1>3, ConversionFacts
<1>5. PICK f \in Nat \ {0} : f = cv.focus
  BY <1>4
<1>6. PICK this : this = cv.segments[f]
  OBVIOUS
<1>7. SegmentOK(cv.kana, cv.raw, this) /\ this \in Segments
  BY <1>4, <1>5, <1>6 DEF SegmentOK
<1>8. PICK r \in Seq(Kana), a \in Nat : r = this.reading /\ a = this.start
  BY <1>7, SegmentFacts
<1>9. PICK n \in Nat : n = Len(r) /\ n > 1
  BY <1>1, <1>2, <1>5, <1>6, <1>8 DEF Focused
<1>10. Placed(cv.kana, r, a)
  BY <1>7, <1>8 DEF SegmentOK, Piece
<1>11. PICK one : one = <<Last(r)>>
  OBVIOUS
<1>12. PICK m \in Nat : m = a + (n - 1) /\ m + 1 = a + n
  <2>1. PICK k \in Nat : k = n - 1 /\ k + 1 = n
    <3>1. n - 1 \in Nat /\ (n - 1) + 1 = n
      BY <1>9
    <3> QED
      BY <3>1
  <2>2. a + k \in Nat /\ (a + k) + 1 = a + (k + 1)
    OBVIOUS
  <2> QED
    BY <2>1, <2>2
<1>13. /\ Front(r) \in Seq(Kana) /\ a + Len(Front(r)) = m /\ Placed(cv.kana, Front(r), a)
       /\ one \in Seq(Kana) /\ Placed(cv.kana, one, m)
       /\ \A q \in Seq(Kana) : Placed(cv.kana, q, m + 1) =>
            /\ one \o q \in Seq(Kana) /\ Len(one \o q) = Len(q) + 1
            /\ Placed(cv.kana, one \o q, m)
  <2>1. EndsBehind(r, a, m) /\ Len(r) > 1
    BY <1>9, <1>12 DEF EndsBehind
  <2>2. PICK kana \in Seq(Kana) : kana = cv.kana
    BY <1>4
  <2>3. Placed(kana, r, a)
    BY <1>10, <2>2
  <2>4. /\ Front(r) \in Seq(Kana) /\ a + Len(Front(r)) = m /\ Placed(kana, Front(r), a)
        /\ <<Last(r)>> \in Seq(Kana) /\ Placed(kana, <<Last(r)>>, m)
        /\ \A q \in Seq(Kana) : Placed(kana, q, m + 1) =>
             /\ <<Last(r)>> \o q \in Seq(Kana) /\ Len(<<Last(r)>> \o q) = Len(q) + 1
             /\ Placed(kana, <<Last(r)>> \o q, m)
    BY <2>1, <2>3, PlacedShorter
  <2> QED
    BY <1>11, <2>2, <2>4
<1>14. PICK focused : focused = WithReading(this, Front(r), a)
  OBVIOUS
<1>15. focused.reading = Front(r) /\ focused.start = a /\ End(focused) = m
  BY <1>7, <1>12, <1>13, <1>14, WithReadingFields DEF End
<1>16. PICK next : next = IF f < Len(cv.segments)
                            THEN WithReading(cv.segments[f + 1],
                                             one \o cv.segments[f + 1].reading,
                                             cv.segments[f + 1].start - 1)
                            ELSE NewSegment(one, focused.start + Len(focused.reading),
                                            <<"hiragana">>)
  OBVIOUS
<1>17. Resized(focused, RelookupOrSplit(next), f + 2)
  BY <1>2, <1>5, <1>6, <1>8, <1>11, <1>14, <1>16 DEF ShrinkSegment, Focused
<1>18. \E reading \in Seq(Kana) :
         /\ Placed(cv.kana, reading, m) /\ At(next, reading, m)
         /\ Tiles(cv.kana, Untracked, SubSeq(cv.segments, f + 2, Len(cv.segments)),
                  m + Len(reading), Len(cv.kana))
  <2>1. End(this) = m + 1
    BY <1>8, <1>9, <1>12 DEF End
  <2>2. CASE f < Len(cv.segments)
    <3>1. f \in 1 .. Len(cv.segments) - 1 /\ f + 1 \in 1 .. Len(cv.segments)
      BY <1>4, <2>2
    <3>2. PICK after : after = cv.segments[f + 1]
      OBVIOUS
    <3>3. SegmentOK(cv.kana, cv.raw, after) /\ after \in Segments /\ after.start = m + 1
      BY <1>4, <1>6, <2>1, <3>1, <3>2 DEF Tiles, SegmentOK
    <3>4. PICK q \in Seq(Kana) : q = after.reading
      BY <3>3, SegmentFacts
    <3>5. Placed(cv.kana, q, m + 1)
      BY <3>3, <3>4 DEF SegmentOK, Piece
    <3>6. PICK reading \in Seq(Kana) : reading = one \o q
      BY <1>13, <3>5
    <3>7. Len(reading) = Len(q) + 1 /\ Placed(cv.kana, reading, m)
      BY <1>13, <3>5, <3>6
    <3>8. next = WithReading(after, reading, after.start - 1)
      BY <1>16, <2>2, <3>2, <3>4, <3>6
    <3>9. next.reading = reading /\ next.start = m
      <4>1. (m + 1) - 1 = m
        OBVIOUS
      <4> QED
        BY <3>3, <3>8, <4>1, WithReadingFields
    <3>10. End(after) = m + Len(reading)
      <4>1. Len(q) \in Nat /\ (m + 1) + Len(q) = m + (Len(q) + 1)
        OBVIOUS
      <4> QED
        BY <3>3, <3>4, <3>7, <4>1 DEF End
    <3>11. Tiles(cv.kana, Untracked, SubSeq(cv.segments, f + 2, Len(cv.segments)),
                 m + Len(reading), Len(cv.kana))
      <4>1. Tiles(cv.kana, Untracked, SubSeq(cv.segments, (f + 1) + 1, Len(cv.segments)),
                  End(cv.segments[f + 1]), Len(cv.kana))
        BY <1>3, <3>1, Around
      <4>2. (f + 1) + 1 = f + 2
        OBVIOUS
      <4> QED
        BY <3>2, <3>10, <4>1, <4>2
    <3> QED
      BY <3>7, <3>9, <3>11 DEF At
  <2>3. CASE ~(f < Len(cv.segments))
    <3>1. f = Len(cv.segments) /\ f + 2 > Len(cv.segments) /\ f + 2 \in Nat
      BY <1>4, <1>5, <2>3
    <3>2. next = NewSegment(one, m, <<"hiragana">>)
      BY <1>15, <1>16, <2>3 DEF End
    <3>3. next.reading = one /\ next.start = m
      BY <3>2 DEF NewSegment
    <3>4. End(cv.segments[Len(cv.segments)]) = Len(cv.kana)
      <4>1. cv.segments # <<>>
        BY <1>4, NonEmpty
      <4> QED
        BY <1>4, <4>1 DEF Tiles
    <3>5. Len(one) = 1
      BY <1>11
    <3>6. m + Len(one) = Len(cv.kana)
      BY <1>6, <2>1, <3>1, <3>4, <3>5
    <3>7. SubSeq(cv.segments, f + 2, Len(cv.segments)) = <<>>
      BY <1>4, <3>1, EmptySlice
    <3>8. Tiles(cv.kana, Untracked, SubSeq(cv.segments, f + 2, Len(cv.segments)),
                m + Len(one), Len(cv.kana))
      BY <3>6, <3>7, TilesEmpty
    <3> QED
      BY <1>13, <3>3, <3>8 DEF At
  <2> QED
    BY <2>2, <2>3
<1>19. \A x \in RelookupOrSplit(next) : Follows(cv, x, f + 2, m)
  <2>1. PICK reading \in Seq(Kana) :
          /\ Placed(cv.kana, reading, m) /\ At(next, reading, m)
          /\ Tiles(cv.kana, Untracked, SubSeq(cv.segments, f + 2, Len(cv.segments)),
                   m + Len(reading), Len(cv.kana))
    BY <1>18
  <2> QED
    BY <1>4, <2>1, FollowsSplit
<1>20. Fits(conversion, focused, RelookupOrSplit(next), f + 2)
  BY <1>2, <1>5, <1>6, <1>8, <1>13, <1>15, <1>19 DEF Fits
<1> QED
  BY <1>1, <1>17, <1>20, ResizedOK

-----------------------------------------------------------------------------
(* Ending a conversion                                                      *)

(* rows is what record_segmentation leaves of the learned layouts.          *)
Recording(rows, text, boundaries) == rows \in Recorded(text, boundaries)

LEMMA RecordedOK ==
  ASSUME LearnedOK(learned), NEW text, Len(text) \in Nat \ {0},
         NEW boundaries \in Layouts(Len(text)), NEW rows, Recording(rows, text, boundaries)
  PROVE  LearnedOK(rows)
<1>1. IsFiniteSet(DOMAIN learned) /\ Cardinality(DOMAIN learned) <= MaxLearned
  BY DEF LearnedOK
<1>2. CASE rows = learned
  BY <1>2
<1>3. CASE rows # learned
  <2>1. PICK r \in SUBSET (DOMAIN learned \ {text}) :
          /\ Cardinality(r) < MaxLearned
          /\ rows = [t \in r \cup {text} |-> IF t = text THEN boundaries ELSE learned[t]]
    BY <1>3 DEF Recording, Recorded
  <2>2. PICK kept : kept = r \cup {text}
    OBVIOUS
  <2>3. DOMAIN rows = kept /\ \A t \in kept : rows[t] = IF t = text THEN boundaries ELSE learned[t]
    BY <2>1, <2>2
  <2>4. r \in SUBSET DOMAIN learned /\ text \notin r
    BY <2>1
  <2>5. IsFiniteSet(r) /\ Cardinality(r) \in Nat
    BY <1>1, <2>4, FS_Subset, FS_CardinalityType
  <2>6. IsFiniteSet(kept) /\ Cardinality(kept) = Cardinality(r) + 1
    BY <2>2, <2>4, <2>5, FS_AddElement
  <2>7. Cardinality(kept) <= MaxLearned
    BY <2>1, <2>5, <2>6, BoundsAssumption
  <2>8. ASSUME NEW t \in kept PROVE Len(t) \in Nat \ {0} /\ rows[t] \in Layouts(Len(t))
    <3>1. CASE t = text
      BY <2>3, <3>1
    <3>2. CASE t # text
      <4>1. t \in DOMAIN learned
        BY <2>2, <2>4, <3>2
      <4>2. rows[t] = learned[t]
        BY <2>3, <3>2
      <4> QED
        BY <4>1, <4>2 DEF LearnedOK
    <3> QED
      BY <3>1, <3>2
  <2> QED
    BY <2>3, <2>6, <2>7, <2>8 DEF LearnedOK
<1> QED
  BY <1>2, <1>3

LEMMA ComposedType ==
  ASSUME NEW kana, NEW raw, NEW segments, NEW a, NEW b, Tiles(kana, raw, segments, a, b)
  PROVE  ComposedKeys(segments) \in Seq(Keys)
<1>1. /\ segments \in Seq(Segments) /\ Len(segments) \in Nat
      /\ \A i \in 1 .. Len(segments) : SegmentOK(kana, raw, segments[i])
  BY DEF Tiles
<1>2. ASSUME NEW i \in 1 .. Len(segments)
      PROVE  segments[i].candidates[segments[i].selected].keys \in Seq(Keys)
  <2>1. PICK segment : segment = segments[i]
    OBVIOUS
  <2>2. segment.candidates \in Seq(Surfaces) /\ segment.selected \in 1 .. Len(segment.candidates)
    BY <1>1, <2>1, SegmentFacts
  <2>3. segment.candidates[segment.selected] \in Surfaces
    BY <2>2
  <2> QED
    BY <2>1, <2>3 DEF Surfaces
<1>3. PICK ss : ss = [i \in 1 .. Len(segments) |->
                        segments[i].candidates[segments[i].selected].keys]
  OBVIOUS
<1>4. ss \in [1 .. Len(segments) -> Seq(Keys)]
  BY <1>2, <1>3
<1>5. ss \in Seq(Seq(Keys))
  BY <1>1, <1>4, FunctionIsSeq
<1> QED
  BY <1>3, <1>5, FlattenType DEF ComposedKeys

LEMMA CommitConversionOK == CInv /\ CommitConversion => CInv'
<1> SUFFICES ASSUME CInv, CommitConversion PROVE CInv'
  OBVIOUS
<1>1. /\ conversion # NoConversion /\ conversion' = NoConversion /\ pass' = {}
      /\ romaji' = RestoreBuffer(NewConverter, Restored(conversion))
      /\ sent' = ComposedKeys(conversion.segments)
      /\ learned' \in IF \/ BoundariesOf(conversion.segments) # conversion.initial
                         \/ conversion.learnedHit
                        THEN Recorded(Text(conversion.kana), BoundariesOf(conversion.segments))
                        ELSE {learned}
  BY DEF CommitConversion
<1>2. ConversionOK(romaji, conversion)
  BY <1>1 DEF CInv
<1>3. /\ conversion.kana \in Seq(Kana) /\ conversion.pending \in Seq(Keys)
      /\ Tiles(conversion.kana, conversion.raw, conversion.segments, 0, Len(conversion.kana))
      /\ conversion.segments # <<>>
  BY <1>2, ConversionFacts DEF ConversionOK, Body
<1>4. ConverterOK(romaji')
  <2>a. Restored(conversion) \in Seq(Keys)
    <3>1. <<>> \in Seq(Keys)
      OBVIOUS
    <3> QED
      BY <1>3, <3>1 DEF Restored
  <2>1. PICK pending \in Seq(Keys) : pending = Restored(conversion)
    BY <2>a
  <2> QED
    BY <1>1, <2>1, NewConverterOK, RestoreBufferOK
<1>5. sent' \in Seq(Keys)
  BY <1>1, <1>3, ComposedType
<1>6. LearnedOK(learned')
  <2>1. LearnedOK(learned)
    BY DEF CInv
  <2>2. PICK text, boundaries : /\ text = Text(conversion.kana)
                                /\ boundaries = BoundariesOf(conversion.segments)
    OBVIOUS
  <2>3. Len(text) \in Nat \ {0} /\ boundaries \in Layouts(Len(text))
    <3>1. /\ Len(conversion.kana) \in Nat \ {0}
          /\ BoundariesOf(conversion.segments) \in Layouts(Len(conversion.kana))
      BY <1>3, BoundariesType
    <3>2. Len(text) = Len(conversion.kana)
      BY <1>3, <2>2, TextLen
    <3> QED
      BY <2>2, <3>1, <3>2
  <2>4. CASE learned' = learned
    BY <2>1, <2>4
  <2>5. CASE learned' # learned
    <3>1. learned' \in Recorded(text, boundaries)
      BY <1>1, <2>2, <2>5
    <3>2. PICK rows : rows = learned'
      OBVIOUS
    <3>3. Recording(rows, text, boundaries)
      BY <3>1, <3>2 DEF Recording
    <3>4. LearnedOK(rows)
      BY <2>1, <2>3, <3>3, RecordedOK
    <3> QED
      BY <3>2, <3>4
  <2> QED
    BY <2>4, <2>5
<1>7. ConverterOK(romaji)' /\ LearnedOK(learned)'
  BY <1>4, <1>6
<1>8. (conversion # NoConversion => ConversionOK(romaji, conversion))'
  BY <1>1
<1>9. (\A snapshot \in pass : SnapshotOK(snapshot))'
  BY <1>1
<1> QED
  BY <1>5, <1>7, <1>8, <1>9 DEF CInv

LEMMA CancelConversionOK == CInv /\ CancelConversion => CInv'
<1> SUFFICES ASSUME CInv, CancelConversion PROVE CInv'
  OBVIOUS
<1>1. /\ conversion # NoConversion /\ conversion' = NoConversion /\ pass' = {}
      /\ romaji' = RestoreBuffer(romaji, conversion.pending)
      /\ NothingSent /\ learned' = learned
  BY DEF CancelConversion
<1>2. ConversionOK(romaji, conversion) /\ ConverterOK(romaji)
  BY <1>1 DEF CInv
<1>3. PICK pending \in Seq(Keys) : pending = conversion.pending
  BY <1>2, ConversionFacts
<1>4. ConverterOK(romaji)'
  BY <1>1, <1>2, <1>3, RestoreBufferOK
<1>5. LearnedOK(learned)'
  BY <1>1 DEF CInv
<1> QED
  BY <1>1, <1>4, <1>5, EmptySent DEF CInv

-----------------------------------------------------------------------------
(* The invariant holds                                                      *)

LEMMA InitOK == Init => CInv
<1> SUFFICES ASSUME Init PROVE CInv
  OBVIOUS
<1>1. /\ romaji = NewConverter /\ conversion = NoConversion /\ pass = {} /\ sent = <<>>
      /\ learned = [text \in {} |-> <<>>]
  BY DEF Init
<1>2. LearnedOK(learned)
  <2>1. DOMAIN learned = {} /\ IsFiniteSet({}) /\ Cardinality({}) = 0
    BY <1>1, FS_EmptySet
  <2> QED
    BY <2>1, BoundsAssumption DEF LearnedOK
<1>3. sent \in Seq(Keys)
  BY <1>1
<1> QED
  BY <1>1, <1>2, <1>3, NewConverterOK DEF CInv

LEMMA NextOK == CInv /\ [Next]_vars => CInv'
<1> SUFFICES ASSUME CInv, [Next]_vars PROVE CInv'
  OBVIOUS
<1>1. CASE UNCHANGED vars
  BY <1>1 DEF vars, CInv
<1>2. CASE Next
  <2>1. CASE TypeKey
    BY <2>1, TypeKeyOK
  <2>2. CASE Backspace
    BY <2>2, BackspaceOK
  <2>3. CASE CommitPreedit
    BY <2>3, CommitPreeditOK
  <2>4. CASE ClearAll
    BY <2>4, ClearAllOK
  <2>5. CASE StartConversion
    BY <2>5, StartConversionOK
  <2>6. CASE \E form \in KanaForms : StartKanaConversion(form)
    BY <2>6, StartKanaConversionOK
  <2>7. CASE \E form \in KanaForms : ConvertFocusedTo(form)
    BY <2>7, ConvertFocusedToOK
  <2>8. CASE MoveFocus
    BY <2>8, MoveFocusOK
  <2>9. CASE CycleCandidate
    BY <2>9, CycleCandidateOK
  <2>10. CASE ExtendSegment
    BY <2>10, ExtendSegmentOK
  <2>11. CASE ShrinkSegment
    BY <2>11, ShrinkSegmentOK
  <2>12. CASE ApplyRerank
    BY <2>12, ApplyRerankOK
  <2>13. CASE PassFails
    BY <2>13, PassFailsOK
  <2>14. CASE CommitConversion
    BY <2>14, CommitConversionOK
  <2>15. CASE CancelConversion
    BY <2>15, CancelConversionOK
  <2> QED
    BY <1>2, <2>1, <2>2, <2>3, <2>4, <2>5, <2>6, <2>7, <2>8, <2>9, <2>10, <2>11, <2>12,
       <2>13, <2>14, <2>15 DEF Next
<1> QED
  BY <1>1, <1>2

(* The inductive invariant holds of every reachable state: the converter    *)
(* keeps its raw input in step with its buffer, the segments of a           *)
(* conversion tile its kana, every candidate spells its segment, the        *)
(* learned layouts fit their text, and the preedit is where Source says.    *)
THEOREM Invariance == Spec => []CInv
BY InitOK, NextOK, PTL DEF Spec

(* Type correctness: in particular the focused segment and every selected   *)
(* candidate exist, which composed_text and the handlers index unchecked.   *)
THEOREM TypeCorrect == Spec => []TypeOK
<1>1. ASSUME CInv PROVE TypeOK
  <2>1. romaji \in [output : Seq(Kana), buffer : Seq(Keys), raw : Seq(Keys) \cup {Untracked}]
    BY <1>1 DEF CInv, ConverterOK, Converters
  <2>2. ASSUME conversion # NoConversion
        PROVE  conversion \in ConversionStates /\ InRange(conversion)
    <3>1. ConversionOK(romaji, conversion)
      BY <1>1, <2>2 DEF CInv
    <3>2. /\ conversion \in ConversionStates /\ conversion.focus \in 1 .. Len(conversion.segments)
          /\ \A i \in 1 .. Len(conversion.segments) :
               SegmentOK(conversion.kana, conversion.raw, conversion.segments[i])
          /\ conversion.segments # <<>>
      BY <3>1, ConversionFacts DEF ConversionOK, Body
    <3> QED
      BY <3>2, SegmentFacts DEF InRange
  <2>3. /\ \A text \in DOMAIN learned : learned[text] \in Seq(Nat)
        /\ Cardinality(DOMAIN learned) <= MaxLearned
    BY <1>1, LearnedType DEF CInv, LearnedOK
  <2>4. ASSUME NEW snapshot \in pass, NEW i \in 1 .. Len(snapshot)
        PROVE  snapshot[i].candidates \in Seq(Surfaces)
    <3>1. snapshot \in Seq(Entries)
      BY <1>1 DEF CInv, SnapshotOK
    <3>2. snapshot[i] \in Entries
      BY <3>1
    <3> QED
      BY <3>2 DEF Entries
  <2> QED
    BY <1>1, <2>1, <2>2, <2>3, <2>4 DEF TypeOK, CInv
<1> QED
  BY <1>1, Invariance, PTL

(* While raw_input is tracked it ends with the pending letters, whatever    *)
(* has been typed, deleted, committed or cancelled.                         *)
THEOREM RawEndsWithBufferHolds == Spec => []RawEndsWithBuffer
<1>1. ASSUME CInv PROVE RawEndsWithBuffer
  <2> SUFFICES ASSUME romaji.raw # Untracked PROVE IsSuffix(romaji.buffer, romaji.raw)
    BY DEF RawEndsWithBuffer
  <2>1. /\ romaji.buffer \in Seq(Keys) /\ romaji.raw \in Seq(Keys)
        /\ Ends(romaji.buffer, romaji.raw)
    BY <1>1 DEF CInv, ConverterOK, Converters, RawEnds
  <2> QED
    BY <2>1, EndsIsSuffix
<1> QED
  BY <1>1, Invariance, PTL

(* Every candidate stands for its own segment: it spells the reading, or is *)
(* the raw input and its segment the only one.                              *)
THEOREM CandidatesSpellSegmentHolds == Spec => []CandidatesSpellSegment
<1>1. ASSUME CInv PROVE CandidatesSpellSegment
  <2> SUFFICES ASSUME Converting, NEW i \in 1 .. Len(conversion.segments),
                      NEW k \in 1 .. Len(conversion.segments[i].candidates)
               PROVE  \/ conversion.segments[i].candidates[k].keys
                           = Spell(conversion.segments[i].reading)
                      \/ /\ conversion.segments[i].candidates[k].form = "romaji"
                         /\ conversion.segments[i].candidates[k].keys = conversion.raw
                         /\ Len(conversion.segments) = 1
    BY DEF CandidatesSpellSegment
  <2>1. ConversionOK(romaji, conversion)
    BY <1>1 DEF CInv, Converting
  <2>2. SegmentOK(conversion.kana, conversion.raw, conversion.segments[i])
    BY <2>1, ConversionFacts
  <2>3. SurfaceOK(conversion.raw, conversion.segments[i].candidates[k],
                  conversion.segments[i].reading)
    BY <2>2 DEF SegmentOK, Spelled, SpelledAs
  <2>4. conversion.raw # Untracked => Len(conversion.segments) = 1
    BY <2>1 DEF ConversionOK, Body
  <2> QED
    BY <2>3, <2>4 DEF SurfaceOK
<1> QED
  BY <1>1, Invariance, PTL

(* Whatever is resized, split, merged or looked up again, the segments are  *)
(* the kana cut into consecutive non-empty pieces.                          *)
THEOREM SegmentsTileHolds == Spec => []SegmentsTile
<1>1. ASSUME CInv PROVE SegmentsTile
  <2> SUFFICES ASSUME Converting PROVE SegmentsTile
    BY DEF SegmentsTile
  <2>1. PICK cv : cv = conversion
    OBVIOUS
  <2>2. ConversionOK(romaji, cv)
    BY <1>1, <2>1 DEF CInv, Converting
  <2>3. PICK segments : segments = cv.segments
    OBVIOUS
  <2>4. /\ segments \in Seq(Segments) /\ Len(segments) \in Nat \ {0} /\ segments # <<>>
        /\ Tiles(cv.kana, cv.raw, segments, 0, Len(cv.kana))
    BY <2>2, <2>3, ConversionFacts DEF ConversionOK, Body
  <2>5. /\ segments[1].start = 0 /\ End(segments[Len(segments)]) = Len(cv.kana)
        /\ \A i \in 1 .. Len(segments) - 1 : segments[i + 1].start = End(segments[i])
        /\ \A i \in 1 .. Len(segments) : SegmentOK(cv.kana, cv.raw, segments[i])
    BY <2>4 DEF Tiles
  <2>6. ASSUME NEW i \in 1 .. Len(segments)
        PROVE  /\ segments[i].reading # <<>>
               /\ segments[i].reading = SubSeq(cv.kana, segments[i].start + 1, End(segments[i]))
               /\ i < Len(segments) => segments[i + 1].start = End(segments[i])
    <3>1. i < Len(segments) => i \in 1 .. Len(segments) - 1
      BY <2>4
    <3>2. Piece(cv.kana, segments[i])
      BY <2>5 DEF SegmentOK
    <3> QED
      BY <2>5, <3>1, <3>2 DEF Piece, Placed, End
  <2> QED
    BY <2>1, <2>3, <2>5, <2>6 DEF SegmentsTile, End
<1> QED
  BY <1>1, Invariance, PTL

(* A segment marked as chosen by the user shows what the user chose, after  *)
(* any edit of its neighbours and any rerank.                               *)
THEOREM UserChoiceStandsHolds == Spec => []UserChoiceStands
<1>1. ASSUME CInv PROVE UserChoiceStands
  <2> SUFFICES ASSUME Converting, NEW i \in 1 .. Len(conversion.segments),
                      conversion.segments[i].userSelected
               PROVE  conversion.segments[i].candidates[conversion.segments[i].selected]
                        = conversion.segments[i].choice
    BY DEF UserChoiceStands
  <2>1. ConversionOK(romaji, conversion)
    BY <1>1 DEF CInv, Converting
  <2>2. SegmentOK(conversion.kana, conversion.raw, conversion.segments[i])
    BY <2>1, ConversionFacts
  <2> QED
    BY <2>2 DEF SegmentOK, Selected
<1> QED
  BY <1>1, Invariance, PTL

-----------------------------------------------------------------------------
(* What a start shows                                                       *)

(* The segments of a layout have its boundaries.                            *)
LEMMA BoundariesShown ==
  ASSUME NEW kana \in Seq(Kana), Len(kana) \in Nat \ {0},
         NEW layout \in Layouts(Len(kana)), NEW segments \in SegmentLists(kana, 0, layout)
  PROVE  BoundariesOf(segments) = layout
<1>1. PICK zero \in Nat, end \in Nat : zero = 0 /\ end = Len(kana)
  OBVIOUS
<1>2. zero < end /\ end <= Len(kana) /\ end - zero = Len(kana)
  BY <1>1
<1>3. kana = SubSeq(kana, zero + 1, end)
  BY <1>1, WholeKana
<1>4. Cut(segments, kana, zero, end, layout)
  <2>1. layout \in Layouts(end - zero) /\ segments \in SegmentLists(kana, zero, layout)
    BY <1>1, <1>2
  <2> QED
    BY <1>3, <2>1 DEF Cut
<1>5. PICK raw : raw = Untracked
  OBVIOUS
<1>6. /\ Len(segments) = Len(layout) + 1
      /\ \A i \in 1 .. Len(layout) : segments[i + 1].start = zero + layout[i]
  <2>1. Tiles(kana, raw, segments, zero, end)
    BY <1>2, <1>4, SegmentListsOK
  <2>2. /\ Tiles(kana, raw, segments, zero, end)
        /\ segments # <<>> /\ Len(segments) = Len(layout) + 1
        /\ StartAlong(segments, zero, layout)
    BY <1>2, <1>4, <2>1, SegmentListsOK
  <2> QED
    BY <2>2 DEF StartAlong
<1>7. /\ layout \in Seq(Nat) /\ Len(layout) \in Nat
  BY LayoutFacts
<1>8. PICK b : b = BoundariesOf(segments)
  OBVIOUS
<1>9. b = [i \in 1 .. Len(layout) |-> segments[i + 1].start]
  <2>1. Len(segments) - 1 = Len(layout)
    BY <1>6, <1>7
  <2> QED
    BY <1>8, <2>1 DEF BoundariesOf
<1>10. ASSUME NEW i \in 1 .. Len(layout) PROVE b[i] = layout[i] /\ b[i] \in Nat
  <2>1. layout[i] \in Nat /\ 0 + layout[i] = layout[i]
    BY <1>7
  <2> QED
    BY <1>1, <1>6, <1>9, <2>1
<1>11. b \in Seq(Nat) /\ Len(b) = Len(layout)
  <2>1. b \in [1 .. Len(layout) -> Nat]
    BY <1>9, <1>10
  <2> QED
    BY <1>7, <2>1, FunctionIsSeq
<1> QED
  BY <1>7, <1>8, <1>10, <1>11, SeqEqual

LEMMA LearnedShown ==
  ASSUME CInv, StartConversion, NEW text \in DOMAIN learned, Text(conversion'.kana) = text
  PROVE  BoundariesOf(conversion'.segments) = learned[text]
<1>1. PICK kana : kana = Flush(romaji).output
  OBVIOUS
<1>2. \E heuristic, chosen \in Layouts(Len(Flush(romaji).output)) :
        \E segments \in SegmentLists(Flush(romaji).output, 0,
                                     Applied(Text(Flush(romaji).output), heuristic, chosen)) :
          Started(Flush(romaji).output, Text(Flush(romaji).output),
                  IF IsLoneN(romaji.buffer) THEN <<>> ELSE romaji.buffer,
                  heuristic, chosen, segments)
  BY DEF StartConversion, Applied, Started
<1>3. PICK heuristic, chosen \in Layouts(Len(kana)) :
        \E segments \in SegmentLists(kana, 0, Applied(Text(kana), heuristic, chosen)) :
          Started(kana, Text(kana), IF IsLoneN(romaji.buffer) THEN <<>> ELSE romaji.buffer,
                  heuristic, chosen, segments)
  BY <1>1, <1>2
<1>4. PICK segments \in SegmentLists(kana, 0, Applied(Text(kana), heuristic, chosen)) :
        Started(kana, Text(kana), IF IsLoneN(romaji.buffer) THEN <<>> ELSE romaji.buffer,
                heuristic, chosen, segments)
  BY <1>3
<1>5. conversion'.kana = kana /\ conversion'.segments = segments
  BY <1>4 DEF Started
<1>6. text = Text(kana)
  BY <1>5
<1>7. Applied(Text(kana), heuristic, chosen) = learned[text]
  BY <1>6 DEF Applied, Overrides
<1>8. kana \in Seq(Kana)
  <2>1. ConverterOK(romaji)
    BY DEF CInv
  <2>2. ConverterOK(Flush(romaji))
    BY <2>1, FlushOK
  <2> QED
    BY <1>1, <2>2, ConverterFields DEF ConverterOK
<1>9. /\ Len(kana) \in Nat \ {0} /\ learned[text] \in Layouts(Len(kana))
  <2>1. Len(text) = Len(kana)
    BY <1>6, <1>8, TextLen
  <2>2. Len(text) \in Nat \ {0} /\ learned[text] \in Layouts(Len(text))
    BY DEF CInv, LearnedOK
  <2> QED
    BY <2>1, <2>2
<1>10. PICK layout : layout = learned[text]
  OBVIOUS
<1>11. layout \in Layouts(Len(kana)) /\ segments \in SegmentLists(kana, 0, layout)
  BY <1>4, <1>7, <1>9, <1>10
<1>12. BoundariesOf(segments) = layout
  BY <1>8, <1>9, <1>11, BoundariesShown
<1> QED
  BY <1>5, <1>10, <1>12

(* A learned layout is what the user sees when the same kana is converted   *)
(* again, whatever the segmenter and the language model say by then.        *)
THEOREM LearnedLayoutShownHolds == Spec => LearnedLayoutShown
<1>1. ASSUME CInv
      PROVE  \A text \in DOMAIN learned :
               (StartConversion /\ Text(conversion'.kana) = text) =>
                 BoundariesOf(conversion'.segments) = learned[text]
  BY <1>1, LearnedShown
<1> QED
  BY <1>1, Invariance, PTL DEF LearnedLayoutShown

-----------------------------------------------------------------------------
(* Where the keystrokes go                                                  *)

LEMMA SubSeqAppend ==
  ASSUME NEW S, NEW s \in Seq(S), NEW n \in Nat, n < Len(s)
  PROVE  /\ SubSeq(s, 1, n) \in Seq(S) /\ s[n + 1] \in S
         /\ SubSeq(s, 1, n + 1) = Append(SubSeq(s, 1, n), s[n + 1])
<1>1. /\ 1 \in Nat /\ 1 <= 1 /\ 1 <= n + 1 /\ n <= Len(s) /\ n + 1 \in Nat
      /\ 1 <= (n + 1) + 1 /\ n + 1 <= Len(s)
      /\ (n + 1) - 1 = n /\ ((n + 1) + 1) - 1 = n + 1
  OBVIOUS
<1>2. PICK t, u : t = SubSeq(s, 1, n) /\ u = SubSeq(s, 1, n + 1)
  OBVIOUS
<1>3. /\ t \in Seq(S) /\ Len(t) = n /\ \A i \in 1 .. n : t[i] = s[i]
  <2>1. /\ t \in Seq(S) /\ Len(t) = (n + 1) - 1
        /\ \A i \in 1 .. (n + 1) - 1 : t[i] = s[(1 + i) - 1]
    BY <1>1, <1>2, SubSeqFacts
  <2>2. \A i \in 1 .. n : (1 + i) - 1 = i
    OBVIOUS
  <2> QED
    BY <1>1, <2>1, <2>2
<1>4. /\ u \in Seq(S) /\ Len(u) = n + 1 /\ \A i \in 1 .. n + 1 : u[i] = s[i]
  <2>1. /\ u \in Seq(S) /\ Len(u) = ((n + 1) + 1) - 1
        /\ \A i \in 1 .. ((n + 1) + 1) - 1 : u[i] = s[(1 + i) - 1]
    BY <1>1, <1>2, SubSeqFacts
  <2>2. \A i \in 1 .. n + 1 : (1 + i) - 1 = i
    OBVIOUS
  <2> QED
    BY <1>1, <2>1, <2>2
<1>5. s[n + 1] \in S
  BY <1>1
<1>6. PICK v : v = Append(t, s[n + 1])
  OBVIOUS
<1>7. v \in Seq(S) /\ Len(v) = n + 1 /\ v[n + 1] = s[n + 1] /\ \A i \in 1 .. n : v[i] = t[i]
  BY <1>3, <1>5, <1>6, AppendProperties
<1>8. ASSUME NEW i \in 1 .. n + 1 PROVE u[i] = v[i]
  <2>1. CASE i = n + 1
    BY <1>4, <1>7, <2>1
  <2>2. CASE i # n + 1
    <3>1. i \in 1 .. n
      BY <2>2
    <3> QED
      BY <1>3, <1>4, <1>7, <3>1
  <2> QED
    BY <2>1, <2>2
<1>9. u = v
  BY <1>4, <1>7, <1>8, SeqEqual
<1> QED
  BY <1>2, <1>3, <1>5, <1>6, <1>9

LEMMA SubSeqGlue ==
  ASSUME NEW S, NEW s \in Seq(S), NEW a \in Nat, NEW b \in Nat, a <= b, b <= Len(s)
  PROVE  /\ SubSeq(s, 1, a) \in Seq(S) /\ SubSeq(s, a + 1, b) \in Seq(S)
         /\ SubSeq(s, 1, b) = SubSeq(s, 1, a) \o SubSeq(s, a + 1, b)
<1>1. PICK n \in Nat : n = b - a /\ b = a + n
  <2>1. b - a \in Nat /\ b = a + (b - a)
    OBVIOUS
  <2> QED
    BY <2>1
<1>2. PICK t, u, v : t = SubSeq(s, 1, a) /\ u = SubSeq(s, a + 1, b) /\ v = SubSeq(s, 1, b)
  OBVIOUS
<1>3. t \in Seq(S) /\ Len(t) = a /\ \A i \in 1 .. a : t[i] = s[i]
  <2>1. 1 \in Nat /\ 1 <= 1 /\ 1 <= a + 1 /\ a <= Len(s) /\ (a + 1) - 1 = a
    OBVIOUS
  <2>2. /\ t \in Seq(S) /\ Len(t) = (a + 1) - 1
        /\ \A i \in 1 .. (a + 1) - 1 : t[i] = s[(1 + i) - 1]
    BY <1>2, <2>1, SubSeqFacts
  <2>3. \A i \in 1 .. a : (1 + i) - 1 = i
    OBVIOUS
  <2> QED
    BY <2>1, <2>2, <2>3
<1>4. v \in Seq(S) /\ Len(v) = b /\ \A i \in 1 .. b : v[i] = s[i]
  <2>1. 1 \in Nat /\ 1 <= 1 /\ 1 <= b + 1 /\ b <= Len(s) /\ (b + 1) - 1 = b
    OBVIOUS
  <2>2. /\ v \in Seq(S) /\ Len(v) = (b + 1) - 1
        /\ \A i \in 1 .. (b + 1) - 1 : v[i] = s[(1 + i) - 1]
    BY <1>2, <2>1, SubSeqFacts
  <2>3. \A i \in 1 .. b : (1 + i) - 1 = i
    OBVIOUS
  <2> QED
    BY <2>1, <2>2, <2>3
<1>5. u \in Seq(S) /\ Len(u) = n /\ \A i \in 1 .. n : u[i] = s[a + i]
  <2>1. a + 1 \in Nat /\ 1 <= a + 1 /\ a + 1 <= b + 1 /\ (b + 1) - (a + 1) = n
    BY <1>1
  <2>2. /\ u \in Seq(S) /\ Len(u) = (b + 1) - (a + 1)
        /\ \A i \in 1 .. (b + 1) - (a + 1) : u[i] = s[((a + 1) + i) - 1]
    BY <1>2, <2>1, SubSeqFacts
  <2>3. \A i \in 1 .. n : ((a + 1) + i) - 1 = a + i
    OBVIOUS
  <2> QED
    BY <2>1, <2>2, <2>3
<1>6. PICK w : w = t \o u
  OBVIOUS
<1>7. /\ w \in Seq(S) /\ Len(w) = a + n
      /\ \A i \in 1 .. a + n : w[i] = IF i <= a THEN t[i] ELSE u[i - a]
  <2>1. /\ t \o u \in Seq(S) /\ Len(t \o u) = Len(t) + Len(u)
        /\ \A i \in 1 .. Len(t) + Len(u) :
             (t \o u)[i] = IF i <= Len(t) THEN t[i] ELSE u[i - Len(t)]
    BY <1>3, <1>5, ConcatProperties
  <2>2. Len(t) = a /\ Len(u) = n
    BY <1>3, <1>5
  <2> QED
    BY <1>6, <2>1, <2>2
<1>8. ASSUME NEW i \in 1 .. b PROVE v[i] = w[i]
  <2>1. i \in 1 .. a + n
    BY <1>1
  <2>2. CASE i <= a
    <3>1. i \in 1 .. a
      BY <2>2
    <3> QED
      BY <1>3, <1>4, <1>7, <2>1, <2>2, <3>1
  <2>3. CASE ~(i <= a)
    <3>1. i - a \in 1 .. n /\ a + (i - a) = i
      BY <2>1, <2>3
    <3> QED
      BY <1>4, <1>5, <1>7, <2>1, <2>3, <3>1
  <2> QED
    BY <2>2, <2>3
<1>9. v = w
  BY <1>1, <1>4, <1>7, <1>8, SeqEqual
<1> QED
  BY <1>2, <1>3, <1>5, <1>6, <1>9

(* Two pieces that follow each other spell one after the other.             *)
LEMMA SpellGlue ==
  ASSUME NEW kana \in Seq(Kana), NEW a \in Nat, NEW b \in Nat, a <= b, b <= Len(kana)
  PROVE  Spell(SubSeq(kana, 1, b)) = Spell(SubSeq(kana, 1, a)) \o Spell(SubSeq(kana, a + 1, b))
<1>1. PICK s, t, u : s = SubSeq(kana, 1, a) /\ t = SubSeq(kana, a + 1, b) /\ u = SubSeq(kana, 1, b)
  OBVIOUS
<1>2. s \in Seq(Seq(Keys)) /\ t \in Seq(Seq(Keys)) /\ u = s \o t
  BY <1>1, SubSeqGlue DEF Kana
<1> QED
  BY <1>1, <1>2, FlattenConcat DEF Spell

(* Every selected candidate spells its reading.                             *)
AllSpelled(segments) ==
  \A i \in 1 .. Len(segments) :
    segments[i].candidates[segments[i].selected].keys = Spell(segments[i].reading)

(* The first k of the spellings are the kana before position p.             *)
SpelledUpTo(kana, ss, k, p) ==
  FlattenSeq(SubSeq(ss, 1, k)) = Spell(SubSeq(kana, 1, p))

Behind(a, reading, b) == b = a + Len(reading)

LEMMA SpelledFurther ==
  ASSUME NEW kana \in Seq(Kana), NEW ss \in Seq(Seq(Keys)), NEW k \in Nat, k < Len(ss),
         NEW a \in Nat, NEW reading, Placed(kana, reading, a), reading \in Seq(Kana),
         ss[k + 1] = Spell(reading), SpelledUpTo(kana, ss, k, a), NEW b \in Nat, Behind(a, reading, b)
  PROVE  SpelledUpTo(kana, ss, k + 1, b)
<1>1. /\ SubSeq(ss, 1, k) \in Seq(Seq(Keys)) /\ ss[k + 1] \in Seq(Keys)
      /\ SubSeq(ss, 1, k + 1) = Append(SubSeq(ss, 1, k), ss[k + 1])
  BY SubSeqAppend
<1>2. FlattenSeq(SubSeq(ss, 1, k + 1)) = FlattenSeq(SubSeq(ss, 1, k)) \o Spell(reading)
  <2>1. PICK s \in Seq(Seq(Keys)), x \in Seq(Keys) : s = SubSeq(ss, 1, k) /\ x = ss[k + 1]
    BY <1>1
  <2>2. FlattenSeq(Append(s, x)) = FlattenSeq(s) \o x
    BY FlattenAppend
  <2> QED
    BY <1>1, <2>1, <2>2
<1>3. reading = SubSeq(kana, a + 1, b) /\ a <= b /\ b <= Len(kana)
  <2>1. Len(reading) \in Nat
    OBVIOUS
  <2>2. /\ b = a + Len(reading) /\ a + Len(reading) <= Len(kana)
        /\ reading = SubSeq(kana, a + 1, a + Len(reading))
    BY DEF Placed, Behind
  <2> QED
    BY <2>1, <2>2
<1>4. Spell(SubSeq(kana, 1, b)) = Spell(SubSeq(kana, 1, a)) \o Spell(reading)
  BY <1>3, SpellGlue
<1> QED
  BY <1>2, <1>4 DEF SpelledUpTo

(* What a commit sends is what the kana spells.                             *)
LEMMA ComposedSpells ==
  ASSUME NEW kana \in Seq(Kana), NEW raw, NEW segments, segments # <<>>,
         Tiles(kana, raw, segments, 0, Len(kana)), AllSpelled(segments)
  PROVE  ComposedKeys(segments) = Spell(kana)
<1>1. /\ segments \in Seq(Segments) /\ Len(segments) \in Nat \ {0}
      /\ \A i \in 1 .. Len(segments) : SegmentOK(kana, raw, segments[i])
      /\ \A i \in 1 .. Len(segments) - 1 : segments[i + 1].start = End(segments[i])
      /\ segments[1].start = 0 /\ End(segments[Len(segments)]) = Len(kana)
  <2>1. segments \in Seq(Segments)
    BY DEF Tiles
  <2>2. Len(segments) \in Nat \ {0}
    BY <2>1, NonEmpty
  <2> QED
    BY <2>1, <2>2 DEF Tiles
<1>2. PICK n \in Nat \ {0} : n = Len(segments)
  BY <1>1
<1>3. PICK ss : ss = [i \in 1 .. n |-> segments[i].candidates[segments[i].selected].keys]
  OBVIOUS
<1>4. ASSUME NEW i \in 1 .. n
      PROVE  /\ ss[i] = Spell(segments[i].reading) /\ ss[i] \in Seq(Keys)
             /\ Placed(kana, segments[i].reading, segments[i].start)
             /\ segments[i].reading \in Seq(Kana) /\ segments[i].start \in Nat
             /\ End(segments[i]) \in Nat
  <2>1. PICK segment : segment = segments[i]
    OBVIOUS
  <2>2. SegmentOK(kana, raw, segment)
    BY <1>1, <1>2, <2>1
  <2>3. segment.reading \in Seq(Kana) /\ segment.start \in Nat /\ End(segment) \in Nat
    BY <2>2, SegmentFacts
  <2>4. Placed(kana, segment.reading, segment.start)
    BY <2>2 DEF SegmentOK, Piece
  <2>5. ss[i] = Spell(segment.reading)
    BY <1>2, <1>3, <2>1 DEF AllSpelled
  <2>6. Spell(segment.reading) \in Seq(Keys)
    BY <2>3, SpellType
  <2> QED
    BY <2>1, <2>3, <2>4, <2>5, <2>6
<1>5. ss \in Seq(Seq(Keys)) /\ Len(ss) = n
  <2>1. ss \in [1 .. n -> Seq(Keys)]
    BY <1>3, <1>4
  <2> QED
    BY <2>1, FunctionIsSeq
<1>6. ASSUME NEW k \in Nat, k < n, SpelledUpTo(kana, ss, k, segments[k + 1].start)
      PROVE  SpelledUpTo(kana, ss, k + 1, End(segments[k + 1]))
  <2>1. k + 1 \in 1 .. n
    BY <1>6
  <2>2. PICK reading \in Seq(Kana), a \in Nat, b \in Nat :
          /\ reading = segments[k + 1].reading /\ a = segments[k + 1].start
          /\ b = End(segments[k + 1])
    BY <1>4, <2>1
  <2>3. Behind(a, reading, b)
    BY <2>2 DEF Behind, End
  <2>4. /\ Placed(kana, reading, a) /\ ss[k + 1] = Spell(reading) /\ SpelledUpTo(kana, ss, k, a)
        /\ k < Len(ss)
    BY <1>4, <1>5, <1>6, <2>1, <2>2
  <2>5. SpelledUpTo(kana, ss, k + 1, b)
    BY <1>5, <2>3, <2>4, SpelledFurther
  <2> QED
    BY <2>2, <2>5
<1> DEFINE T == {k \in Nat : k < n => SpelledUpTo(kana, ss, k, segments[k + 1].start)}
<1>7. 0 \in T
  <2>1. SubSeq(ss, 1, 0) = <<>> /\ SubSeq(kana, 1, 0) = <<>>
    BY <1>5, EmptySlice
  <2>2. SpelledUpTo(kana, ss, 0, 0)
    BY <2>1 DEF SpelledUpTo, Spell
  <2>3. segments[0 + 1].start = 0
    BY <1>1
  <2> QED
    BY <2>2, <2>3
<1>8. ASSUME NEW k \in Nat, k \in T PROVE k + 1 \in T
  <2> SUFFICES ASSUME k + 1 < n
               PROVE  SpelledUpTo(kana, ss, k + 1, segments[(k + 1) + 1].start)
    OBVIOUS
  <2>1. k < n /\ k + 1 \in 1 .. n - 1
    OBVIOUS
  <2>2. SpelledUpTo(kana, ss, k, segments[k + 1].start)
    BY <1>8, <2>1
  <2>3. SpelledUpTo(kana, ss, k + 1, End(segments[k + 1]))
    BY <1>6, <2>1, <2>2
  <2>4. segments[(k + 1) + 1].start = End(segments[k + 1])
    BY <1>1, <1>2, <2>1
  <2> QED
    BY <2>3, <2>4
<1>9. \A k \in Nat : k \in T
  <2> HIDE DEF T
  <2> QED
    BY <1>7, <1>8, NatSetInduction
<1>10. SpelledUpTo(kana, ss, n, Len(kana))
  <2>1. PICK k \in Nat : k + 1 = n /\ k < n
    <3>1. n - 1 \in Nat /\ (n - 1) + 1 = n /\ n - 1 < n
      OBVIOUS
    <3> QED
      BY <3>1
  <2>2. SpelledUpTo(kana, ss, k, segments[k + 1].start)
    BY <1>9, <2>1
  <2>3. SpelledUpTo(kana, ss, k + 1, End(segments[k + 1]))
    BY <1>6, <2>1, <2>2
  <2> QED
    BY <1>1, <1>2, <2>1, <2>3
<1>11. SubSeq(ss, 0 + 1, Len(ss)) = ss /\ SubSeq(kana, 0 + 1, Len(kana)) = kana
  BY <1>5, WholeKana
<1>12. FlattenSeq(ss) = Spell(kana)
  <2>1. 0 + 1 = 1
    OBVIOUS
  <2> QED
    BY <1>5, <1>10, <1>11, <2>1 DEF SpelledUpTo
<1> QED
  BY <1>2, <1>3, <1>12 DEF ComposedKeys

LEMMA SelectedSpelled ==
  ASSUME NEW c, NEW cv, ConversionOK(c, cv),
         NEW i \in 1 .. Len(cv.segments),
         \/ cv.raw = Untracked
         \/ cv.segments[i].candidates[cv.segments[i].selected].form # "romaji"
  PROVE  cv.segments[i].candidates[cv.segments[i].selected].keys = Spell(cv.segments[i].reading)
<1>1. PICK segment : segment = cv.segments[i]
  OBVIOUS
<1>2. SegmentOK(cv.kana, cv.raw, segment)
  BY <1>1, ConversionFacts
<1>3. segment.selected \in 1 .. Len(segment.candidates)
  BY <1>2, SegmentFacts
<1>4. SurfaceOK(cv.raw, segment.candidates[segment.selected], segment.reading)
  BY <1>2, <1>3 DEF SegmentOK, Spelled, SpelledAs
<1> QED
  BY <1>1, <1>4 DEF SurfaceOK

(* Unless the raw input is on display, a commit sends what the kana spells. *)
LEMMA SentSpells ==
  ASSUME NEW c, NEW cv, ConversionOK(c, cv),
         \A i \in 1 .. Len(cv.segments) :
           \/ cv.raw = Untracked
           \/ cv.segments[i].candidates[cv.segments[i].selected].form # "romaji"
  PROVE  ComposedKeys(cv.segments) = Spell(cv.kana)
<1>1. AllSpelled(cv.segments)
  <2> SUFFICES ASSUME NEW i \in 1 .. Len(cv.segments)
               PROVE  cv.segments[i].candidates[cv.segments[i].selected].keys
                        = Spell(cv.segments[i].reading)
    BY DEF AllSpelled
  <2> QED
    BY SelectedSpelled
<1>2. PICK kana, segments :
          /\ kana \in Seq(Kana)
          /\ kana = cv.kana
          /\ segments = cv.segments
  BY ConversionFacts
<1>3. segments # <<>> /\ Tiles(kana, cv.raw, segments, 0, Len(kana))
  BY <1>2 DEF ConversionOK, Body
<1>4. ComposedKeys(segments) = Spell(kana)
  BY <1>1, <1>2, <1>3, ComposedSpells
<1> QED
  BY <1>2, <1>4

(* Letters put back into an empty buffer are the buffer.                    *)
LEMMA PutBack ==
  ASSUME NEW c \in Converters, c.buffer = <<>>, NEW pending \in Seq(Keys)
  PROVE  /\ RestoreBuffer(c, pending).buffer = pending
         /\ RestoreBuffer(c, pending).output = c.output
<1>1. c = [output |-> c.output, buffer |-> c.buffer, raw |-> c.raw]
  BY ConverterFields
<1>2. CASE pending = <<>>
  <2>1. RestoreBuffer(c, pending) = c
    BY <1>2 DEF RestoreBuffer
  <2> QED
    BY <1>2, <2>1
<1>3. CASE pending # <<>>
  <2>1. PICK raw : raw = IF c.raw = Untracked THEN c.raw ELSE c.raw \o pending
    OBVIOUS
  <2>2. RestoreBuffer(c, pending) = [output |-> c.output, buffer |-> pending, raw |-> raw]
    BY <1>1, <1>3, <2>1 DEF RestoreBuffer
  <2> QED
    BY <2>2
<1> QED
  BY <1>2, <1>3

LEMMA CommitLeaves ==
  ASSUME CInv, CommitConversion
  PROVE  /\ ConversionOK(romaji, conversion)
         /\ sent' = ComposedKeys(conversion.segments)
         /\ romaji'.buffer = Restored(conversion)
<1>1. /\ conversion # NoConversion /\ sent' = ComposedKeys(conversion.segments)
      /\ romaji' = RestoreBuffer(NewConverter, Restored(conversion))
  BY DEF CommitConversion
<1>2. ConversionOK(romaji, conversion)
  BY <1>1 DEF CInv
<1>3. Restored(conversion) \in Seq(Keys)
  <2>1. <<>> \in Seq(Keys) /\ conversion.pending \in Seq(Keys)
    BY <1>2, ConversionFacts
  <2> QED
    BY <2>1 DEF Restored
<1>4. PICK pending \in Seq(Keys) : pending = Restored(conversion)
  BY <1>3
<1>5. PICK c \in Converters : c = NewConverter /\ c.buffer = <<>>
  BY NewConverterOK DEF ConverterOK, NewConverter
<1>6. RestoreBuffer(c, pending).buffer = pending
  BY <1>5, PutBack
<1> QED
  BY <1>1, <1>2, <1>4, <1>5, <1>6

LEMMA Disjoint ==
  ASSUME NEW S, NEW s \in Seq(S), NEW t \in Seq(S), IsInjective(s \o t)
  PROVE  ToSet(s) \cap ToSet(t) = {}
<1> SUFFICES ASSUME NEW i \in DOMAIN s, NEW j \in DOMAIN t, s[i] = t[j] PROVE FALSE
  BY DEF ToSet
<1>1. PICK m \in Nat, n \in Nat : m = Len(s) /\ n = Len(t)
  OBVIOUS
<1>2. i \in 1 .. m /\ j \in 1 .. n
  BY <1>1
<1>3. PICK u : u = s \o t
  OBVIOUS
<1>4. DOMAIN u = 1 .. m + n /\ u[i] = s[i] /\ u[m + j] = t[j]
  <2>1. /\ s \o t \in Seq(S) /\ Len(s \o t) = Len(s) + Len(t)
        /\ \A k \in 1 .. Len(s) + Len(t) :
             (s \o t)[k] = IF k <= Len(s) THEN s[k] ELSE t[k - Len(s)]
    BY ConcatProperties
  <2>2. /\ u \in Seq(S) /\ Len(u) = m + n
        /\ \A k \in 1 .. m + n : u[k] = IF k <= m THEN s[k] ELSE t[k - m]
    BY <1>1, <1>3, <2>1
  <2>3. /\ i \in 1 .. m + n /\ i <= m /\ m + j \in 1 .. m + n
        /\ ~(m + j <= m) /\ (m + j) - m = j
    BY <1>2
  <2>4. DOMAIN u = 1 .. m + n
    BY <2>2
  <2> QED
    BY <2>2, <2>3, <2>4
<1>5. i \in DOMAIN u /\ m + j \in DOMAIN u /\ i # m + j
  BY <1>2, <1>4
<1> QED
  BY <1>3, <1>4, <1>5 DEF IsInjective

(* A keystroke the preedit had once is not sent and put back as well.       *)
THEOREM NothingCommittedTwiceHolds == Spec => NothingCommittedTwice
<1>1. ASSUME CInv
      PROVE  CommitConversion /\ IsInjective(conversion.preedit) =>
               ToSet(sent') \cap ToSet(romaji'.buffer) = {}
  <2> SUFFICES ASSUME CommitConversion, IsInjective(conversion.preedit)
               PROVE  ToSet(sent') \cap ToSet(romaji'.buffer) = {}
    OBVIOUS
  <2>1. /\ ConversionOK(romaji, conversion)
        /\ sent' = ComposedKeys(conversion.segments)
        /\ romaji'.buffer = Restored(conversion)
    BY <1>1, CommitLeaves
  <2>2. PICK cv : cv = conversion
    OBVIOUS
  <2>3. ConversionOK(romaji, cv) /\ Source(romaji, cv) /\ cv.pending \in Seq(Keys)
        /\ cv.kana \in Seq(Kana)
    BY <2>1, <2>2, ConversionFacts DEF ConversionOK
  <2>4. CASE cv.consumed \/ cv.pending = <<>>
    <3>1. romaji'.buffer = <<>>
      BY <2>1, <2>2, <2>4 DEF Restored
    <3>2. ToSet(<<>>) = {}
      BY DEF ToSet
    <3> QED
      BY <3>1, <3>2
  <2>5. CASE ~cv.consumed /\ cv.pending # <<>>
    <3>1. cv.origin = "space"
      <4>1. cv.origin \in {"space", "fkey"}
        BY <2>3 DEF ConversionOK, ConversionStates
      <4> QED
        BY <2>3, <2>5, <4>1 DEF Source
    <3>2. cv.raw = Untracked /\ cv.preedit = Spell(cv.kana) \o cv.pending
      BY <2>3, <2>5, <3>1 DEF Source
    <3>3. ComposedKeys(cv.segments) = Spell(cv.kana)
      BY <2>3, <3>2, SentSpells
    <3>4. romaji'.buffer = cv.pending
      BY <2>1, <2>2, <2>5 DEF Restored
    <3>5. PICK s \in Seq(Keys), t \in Seq(Keys) : s = Spell(cv.kana) /\ t = cv.pending
      BY <2>3, SpellType
    <3>6. ToSet(s) \cap ToSet(t) = {}
      <4>1. IsInjective(s \o t)
        BY <2>2, <3>2, <3>5
      <4> QED
        BY <4>1, Disjoint
    <3> QED
      BY <2>1, <2>2, <3>3, <3>4, <3>5, <3>6
  <2> QED
    BY <2>4, <2>5
<1> QED
  BY <1>1, Invariance, PTL DEF NothingCommittedTwice

LEMMA NoLoneN == ~IsLoneN(<<>>)
  BY DEF IsLoneN

LEMMA CancelLeaves ==
  ASSUME CInv, CancelConversion
  PROVE  /\ ConversionOK(romaji, conversion)
         /\ romaji'.buffer = conversion.pending /\ romaji'.output = romaji.output
         /\ romaji.output \in Seq(Kana)
<1>1. /\ conversion # NoConversion
      /\ romaji' = RestoreBuffer(romaji, conversion.pending)
  BY DEF CancelConversion
<1>2. ConversionOK(romaji, conversion) /\ romaji \in Converters /\ romaji.output \in Seq(Kana)
  BY <1>1, ConverterFields DEF CInv, ConverterOK
<1>3. romaji.buffer = <<>>
  BY <1>2 DEF ConversionOK, Source
<1>4. PICK pending \in Seq(Keys) : pending = conversion.pending
  BY <1>2, ConversionFacts
<1>5. /\ RestoreBuffer(romaji, pending).buffer = pending
      /\ RestoreBuffer(romaji, pending).output = romaji.output
  BY <1>2, <1>3, PutBack
<1> QED
  BY <1>1, <1>2, <1>4, <1>5

(* What the preedit was, for the conversions that hold their pending        *)
(* letters in one place: what a commit sends and what it puts back, and     *)
(* what a cancel puts back.                                                 *)
LEMMA PreeditAccounted ==
  ASSUME NEW c, NEW cv, ConversionOK(c, cv), c.output \in Seq(Kana),
         \/ cv.pending = <<>>
         \/ cv.origin = "space" /\ ~cv.consumed
         \/ cv.origin = "fkey" /\ ~IsLoneN(cv.pending)
  PROVE  /\ cv.preedit = Spell(cv.kana) \o Restored(cv)
         /\ cv.preedit = Spell(c.output) \o cv.pending
<1>1. /\ Source(c, cv) /\ cv.origin \in {"space", "fkey"} /\ cv.kana \in Seq(Kana)
  BY DEF ConversionOK, ConversionStates, Body
<1>2. PICK s \in Seq(Keys) : s = Spell(cv.kana)
  BY <1>1, SpellType
<1>3. s \o <<>> = s
  OBVIOUS
<1>4. CASE cv.origin = "space"
  <2>1. c.output = cv.kana /\ cv.preedit = s \o cv.pending
    BY <1>1, <1>2, <1>4 DEF Source
  <2>2. Restored(cv) = cv.pending
    BY <1>4 DEF Restored
  <2> QED
    BY <1>2, <2>1, <2>2
<1>5. CASE cv.origin = "fkey"
  <2>1. cv.consumed /\ ~IsLoneN(cv.pending)
    BY <1>1, <1>5, NoLoneN DEF Source
  <2>2. cv.preedit = s /\ cv.preedit = Spell(c.output) \o cv.pending
    BY <1>1, <1>2, <1>5, <2>1 DEF Source
  <2>3. Restored(cv) = <<>>
    BY <2>1 DEF Restored
  <2> QED
    BY <1>2, <1>3, <2>2, <2>3
<1> QED
  BY <1>1, <1>4, <1>5

(* A commit sends every keystroke of the preedit once and in order, or      *)
(* leaves it in the buffer, and a cancel leaves them all in the preedit.    *)
THEOREM InputKeptHolds == Spec => InputKept
<1>1. ASSUME CInv
      PROVE  Converting /\ Accounted =>
               /\ CommitConversion /\ ~RawShown =>
                    sent' \o romaji'.buffer = conversion.preedit
               /\ CancelConversion => Preedit(romaji') = conversion.preedit
  <2> SUFFICES ASSUME Converting, Accounted
               PROVE  /\ CommitConversion /\ ~RawShown =>
                           sent' \o romaji'.buffer = conversion.preedit
                      /\ CancelConversion => Preedit(romaji') = conversion.preedit
    OBVIOUS
  <2>1. ConversionOK(romaji, conversion) /\ romaji.output \in Seq(Kana)
    BY <1>1, ConverterFields DEF CInv, Converting, ConverterOK
  <2>2. /\ conversion.preedit = Spell(conversion.kana) \o Restored(conversion)
        /\ conversion.preedit = Spell(romaji.output) \o conversion.pending
    BY <2>1, PreeditAccounted DEF Accounted
  <2>3. ASSUME CommitConversion, ~RawShown
        PROVE  sent' \o romaji'.buffer = conversion.preedit
    <3>1. sent' = ComposedKeys(conversion.segments) /\ romaji'.buffer = Restored(conversion)
      BY <1>1, <2>3, CommitLeaves
    <3>2. ComposedKeys(conversion.segments) = Spell(conversion.kana)
      BY <2>1, <2>3, SentSpells DEF RawShown
    <3> QED
      BY <2>2, <3>1, <3>2
  <2>4. ASSUME CancelConversion
        PROVE  Preedit(romaji') = conversion.preedit
    <3>1. romaji'.buffer = conversion.pending /\ romaji'.output = romaji.output
      BY <1>1, <2>4, CancelLeaves
    <3> QED
      BY <2>2, <3>1 DEF Preedit
  <2> QED
    BY <2>3, <2>4
<1> QED
  BY <1>1, Invariance, PTL DEF InputKept
=============================================================================
