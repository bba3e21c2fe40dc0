-------------------------- MODULE LlmContextProofs --------------------------
(***************************************************************************)
(* The history of committed text, for any number of frontend threads and   *)
(* workers, any lengths of texts and of the history.                       *)
(***************************************************************************)
EXTENDS LlmContext, SequenceTheorems, TLAPS

USE ThreadsAssumption, BoundsAssumption DEF ThreadsAssumption, BoundsAssumption

-----------------------------------------------------------------------------
(* The inductive invariant                                                 *)

(* Who is where holds what.  A thread that has deferred its commit reaches *)
(* "release" without llm.                                                  *)
ThreadInv(t) ==
  /\ pc[t] \in ThreadStates
  /\ pc[t] \in {"flush", "tiebreak"} => llmHolder = t
  /\ llmHolder = t => pc[t] \in {"flush", "release", "tiebreak"}
  /\ pendingHolder = t <=> pc[t] \in {"try", "flush", "defer", "release"}
  /\ pendingHolder = t => commit[t] = Len(len)

WorkerInv(w) ==
  /\ pc[w] \in WorkerStates
  /\ llmHolder = w <=> pc[w] # "idle"
  /\ pc[w] # "update" => hand[w] = <<>>

LocksInv ==
  /\ \A t \in Threads : ThreadInv(t)
  /\ \A w \in Workers : WorkerInv(w)
  /\ Len(len) <= MaxCommits
  /\ pendingHolder # Nobody => len # <<>>

(* What a worker took is what was made by then and is not applied yet.     *)
SeenInv ==
  \A w \in Workers :
    /\ pc[w] = "update" => Len(log) + Len(hand[w]) = seen[w]
    /\ pc[w] = "scoring" => Len(log) >= seen[w]

IInv == TypeOK /\ LocksInv /\ NoCommitLost /\ SeenInv

-----------------------------------------------------------------------------
(* Moving an element along a line of four queues leaves the line as it is. *)
LEMMA MoveHead ==
  ASSUME NEW S, NEW a \in Seq(S), NEW b \in Seq(S), b # <<>>
  PROVE  Append(a, Head(b)) \o Tail(b) = a \o b
<1>1. Head(b) \in S /\ Tail(b) \in Seq(S)
  OBVIOUS
<1> DEFINE l == Append(a, Head(b)) \o Tail(b)
           r == a \o b
<1>2. l \in Seq(S) /\ r \in Seq(S) /\ Len(l) = Len(r)
  BY <1>1
<1>3. \A i \in 1..Len(l) : l[i] = r[i]
  BY <1>1
<1> QED
  BY <1>2, <1>3, SeqEqual

LEMMA FromThird ==
  ASSUME NEW S, NEW a \in Seq(S), NEW c \in Seq(S), NEW d \in Seq(S), c # <<>>
  PROVE  Append(a, Head(c)) \o <<>> \o Tail(c) \o d = a \o <<>> \o c \o d
<1>1. Append(a, Head(c)) \in Seq(S)
  OBVIOUS
<1>2. Append(a, Head(c)) \o <<>> = Append(a, Head(c)) /\ a \o <<>> = a
  BY <1>1, ConcatEmptySeq
<1>3. Append(a, Head(c)) \o Tail(c) = a \o c
  BY MoveHead
<1> QED
  BY <1>2, <1>3

LEMMA ThirdToSecond ==
  ASSUME NEW S, NEW a \in Seq(S), NEW c \in Seq(S), NEW d \in Seq(S)
  PROVE  a \o c \o <<>> \o d = a \o <<>> \o c \o d
<1>1. a \o c \in Seq(S) /\ a \o c \o <<>> = a \o c /\ a \o <<>> = a
  BY ConcatEmptySeq
<1> QED
  BY <1>1

LEMMA LastToFirst ==
  ASSUME NEW S, NEW a \in Seq(S), NEW x \in S
  PROVE  Append(a, x) \o <<>> \o <<>> \o <<>> = a \o <<>> \o <<>> \o <<x>>
<1>1. Append(a, x) \in Seq(S) /\ Append(a, x) = a \o <<x>>
  BY AppendIsConcat
<1>2. a \o <<>> = a /\ Append(a, x) \o <<>> = Append(a, x)
  BY <1>1, ConcatEmptySeq
<1> QED
  BY <1>1, <1>2

LEMMA LastToThird ==
  ASSUME NEW S, NEW a \in Seq(S), NEW b \in Seq(S), NEW c \in Seq(S), NEW x \in S
  PROVE  a \o b \o Append(c, x) \o <<>> = a \o b \o c \o <<x>>
<1>1. a \o b \in Seq(S) /\ Append(c, x) \in Seq(S) /\ <<x>> \in Seq(S)
  OBVIOUS
<1>2. Append(c, x) = c \o <<x>>
  BY AppendIsConcat
<1>3. (a \o b) \o (c \o <<x>>) = ((a \o b) \o c) \o <<x>>
  BY <1>1, ConcatAssociative
<1>4. (a \o b) \o Append(c, x) \in Seq(S)
  BY <1>1
<1> QED
  BY <1>2, <1>3, <1>4, ConcatEmptySeq

LEMMA Counting ==
  ASSUME NEW n \in Nat
  PROVE  [i \in 1 .. n |-> i] \o <<n + 1>> = [i \in 1 .. n + 1 |-> i]
<1> DEFINE l == [i \in 1 .. n |-> i] \o <<n + 1>>
           r == [i \in 1 .. n + 1 |-> i]
<1>1. l \in Seq(Nat) /\ r \in Seq(Nat) /\ Len(l) = n + 1 /\ Len(r) = n + 1
  OBVIOUS
<1>2. \A i \in 1 .. n + 1 : l[i] = r[i]
  OBVIOUS
<1> QED
  BY <1>1, <1>2, SeqEqual

LEMMA Moving ==
  ASSUME NEW n \in Nat, NEW k \in Nat
  PROVE  (n + 1) + (k - 1) = n + k
OBVIOUS

LEMMA ConcatIndex ==
  ASSUME NEW S, NEW s \in Seq(S), NEW t \in Seq(S)
  PROVE  /\ s \o t \in Seq(S) /\ Len(s \o t) = Len(s) + Len(t)
         /\ \A i \in 1 .. Len(s) : (s \o t)[i] = s[i]
         /\ \A i \in 1 .. Len(t) : (s \o t)[Len(s) + i] = t[i]
OBVIOUS

(* A line that counts from one: its first element after the log.           *)
LEMMA LineIndex ==
  ASSUME NEW n \in Nat, NEW a \in Seq(Nat), NEW b \in Seq(Nat), NEW c \in Seq(Nat),
         NEW d \in Seq(Nat), a \o b \o c \o d = [i \in 1 .. n |-> i]
  PROVE  /\ Len(a) + Len(b) + Len(c) + Len(d) = n
         /\ \A i \in 1 .. Len(a) : a[i] = i
         /\ b # <<>> => Head(b) = Len(a) + 1
         /\ b = <<>> /\ c # <<>> => Head(c) = Len(a) + 1
         /\ b = <<>> /\ c = <<>> /\ d # <<>> => Head(d) = Len(a) + 1
<1> PICK ab : ab = a \o b
  OBVIOUS
<1> PICK abc : abc = ab \o c
  OBVIOUS
<1> PICK l : l = abc \o d
  OBVIOUS
<1>1. /\ ab \in Seq(Nat) /\ Len(ab) = Len(a) + Len(b)
      /\ \A i \in 1 .. Len(a) : ab[i] = a[i]
      /\ \A i \in 1 .. Len(b) : ab[Len(a) + i] = b[i]
  BY ConcatIndex
<1>2. /\ abc \in Seq(Nat) /\ Len(abc) = Len(ab) + Len(c)
      /\ \A i \in 1 .. Len(ab) : abc[i] = ab[i]
      /\ \A i \in 1 .. Len(c) : abc[Len(ab) + i] = c[i]
  BY <1>1, ConcatIndex
<1>3. /\ Len(l) = Len(abc) + Len(d)
      /\ \A i \in 1 .. Len(abc) : l[i] = abc[i]
      /\ \A i \in 1 .. Len(d) : l[Len(abc) + i] = d[i]
  <2>1. abc \in Seq(Nat) /\ d \in Seq(Nat) /\ l = abc \o d
    BY <1>2
  <2>2. /\ Len(abc \o d) = Len(abc) + Len(d)
        /\ \A i \in 1 .. Len(abc) : (abc \o d)[i] = abc[i]
        /\ \A i \in 1 .. Len(d) : (abc \o d)[Len(abc) + i] = d[i]
    BY <2>1, ConcatIndex
  <2> QED
    BY <2>1, <2>2
<1>4. l = [i \in 1 .. n |-> i] /\ Len(l) = n /\ \A i \in 1 .. n : l[i] = i
  OBVIOUS
<1>5. Len(a) \in Nat /\ Len(b) \in Nat /\ Len(c) \in Nat /\ Len(d) \in Nat
  OBVIOUS
<1>6. Len(a) + Len(b) + Len(c) + Len(d) = n
  BY <1>1, <1>2, <1>3, <1>4, <1>5
<1>7. ASSUME NEW i \in 1 .. Len(a) PROVE a[i] = i
  <2>1. i \in 1 .. Len(ab) /\ i \in 1 .. Len(abc) /\ i \in 1 .. n
    BY <1>1, <1>2, <1>5, <1>6
  <2> QED
    BY <2>1, <1>1, <1>2, <1>3, <1>4
<1>8. ASSUME b # <<>> PROVE Head(b) = Len(a) + 1
  <2> DEFINE i == Len(a) + 1
  <2>1. Len(b) > 0 /\ Head(b) = b[1]
    BY <1>8
  <2>2. i \in 1 .. Len(ab) /\ i \in 1 .. Len(abc) /\ i \in 1 .. n /\ 1 \in 1 .. Len(b)
    BY <2>1, <1>1, <1>2, <1>5, <1>6
  <2>3. ab[i] = b[1] /\ abc[i] = ab[i] /\ l[i] = abc[i] /\ l[i] = i
    BY <2>2, <1>1, <1>2, <1>3, <1>4
  <2> QED
    BY <2>1, <2>3
<1>9. ASSUME b = <<>>, c # <<>> PROVE Head(c) = Len(a) + 1
  <2> DEFINE i == Len(a) + 1
  <2>1. Len(b) = 0 /\ Len(c) > 0 /\ Head(c) = c[1]
    BY <1>9
  <2>2. Len(ab) = Len(a) /\ i \in 1 .. Len(abc) /\ i \in 1 .. n /\ 1 \in 1 .. Len(c)
    BY <2>1, <1>1, <1>2, <1>5, <1>6
  <2>3. abc[i] = c[1] /\ l[i] = abc[i] /\ l[i] = i
    BY <2>2, <1>2, <1>3, <1>4
  <2> QED
    BY <2>1, <2>3
<1>10. ASSUME b = <<>>, c = <<>>, d # <<>> PROVE Head(d) = Len(a) + 1
  <2> DEFINE i == Len(a) + 1
  <2>1. Len(b) = 0 /\ Len(c) = 0 /\ Len(d) > 0 /\ Head(d) = d[1]
    BY <1>10
  <2>2. Len(abc) = Len(a) /\ i \in 1 .. n /\ 1 \in 1 .. Len(d)
    BY <2>1, <1>1, <1>2, <1>5, <1>6
  <2>3. l[i] = d[1] /\ l[i] = i
    BY <2>2, <1>3, <1>4
  <2> QED
    BY <2>1, <2>3
<1> QED
  BY <1>6, <1>7, <1>8, <1>9, <1>10

-----------------------------------------------------------------------------
(* Types                                                                   *)

LEMMA CharsType ==
  ASSUME TypeOK, NEW c \in 1 .. Len(len), Len(len) <= MaxCommits
  PROVE  CharsOf(c) \in Seq(Commits \X Nat) /\ Len(CharsOf(c)) = len[c]
<1>1. len[c] \in Nat /\ c \in Commits
  <2>1. len \in Seq(Lengths) /\ Len(len) \in Nat
    BY DEF TypeOK
  <2>2. len[c] \in Lengths
    BY <2>1, ElementOfSeq
  <2>3. len[c] \in Nat
    BY <2>2
  <2>4. c \in Nat /\ 1 <= c /\ c <= Len(len)
    BY <2>1
  <2>5. c \in 1..MaxCommits
    BY <2>1, <2>4
  <2> QED
    BY <2>3, <2>5 DEF Commits
<1> QED
  BY <1>1 DEF CharsOf

LEMMA LastCharsType ==
  ASSUME NEW S, NEW s \in Seq(S)
  PROVE  /\ LastChars(s) \in Seq(S)
         /\ Len(LastChars(s)) <= Len(s) /\ Len(LastChars(s)) <= MaxChars
         /\ Len(LastChars(s)) = Len(s) \/ Len(LastChars(s)) = MaxChars
         /\ \A i \in 1 .. Len(LastChars(s)) :
              LastChars(s)[i] = s[Len(s) - Len(LastChars(s)) + i]
<1>1. CASE Len(s) <= MaxChars
  BY <1>1 DEF LastChars
<1>2. CASE ~(Len(s) <= MaxChars)
  <2>1. LastChars(s) = SubSeq(s, Len(s) - MaxChars + 1, Len(s))
    BY <1>2 DEF LastChars
  <2>2. \A i \in (Len(s) - MaxChars + 1) .. Len(s) : s[i] \in S
    BY <1>2
  <2>3. /\ LastChars(s) \in Seq(S)
        /\ Len(LastChars(s)) = MaxChars
        /\ \A i \in 1 .. MaxChars : LastChars(s)[i] = s[Len(s) - MaxChars + i]
    BY <1>2, <2>1, <2>2, SubSeqProperties
  <2> QED
    BY <1>2, <2>3
<1> QED
  BY <1>1, <1>2

LEMMA UpdateType ==
  ASSUME TypeOK, NEW c \in 1 .. Len(len), Len(len) <= MaxCommits, UpdateContext(c)
  PROVE  /\ context' \in Seq(Commits \X Nat) /\ Len(context') <= MaxChars
         /\ log' \in Seq(Commits)
         /\ Len(log') = Len(log) + 1 /\ log'[Len(log) + 1] = c
         /\ \A i \in 1 .. Len(log) : log'[i] = log[i]
<1>1. context \o CharsOf(c) \in Seq(Commits \X Nat)
  BY CharsType DEF TypeOK
<1>2. c \in Commits
  <2>1. Len(len) \in Nat
    BY DEF TypeOK
  <2> QED
    BY <2>1 DEF Commits
<1>3. context' \in Seq(Commits \X Nat) /\ Len(context') <= MaxChars
  <2>1. context' = LastChars(context \o CharsOf(c))
    BY DEF UpdateContext
  <2>2. /\ LastChars(context \o CharsOf(c)) \in Seq(Commits \X Nat)
        /\ Len(LastChars(context \o CharsOf(c))) <= MaxChars
    BY <1>1, LastCharsType
  <2> QED
    BY <2>1, <2>2
<1>4. log \in Seq(Commits) /\ log' = Append(log, c)
  BY DEF UpdateContext, TypeOK
<1> QED
  BY <1>2, <1>3, <1>4, AppendProperties

-----------------------------------------------------------------------------
(* The steps of a commit                                                   *)

LEMMA CommitCallInv ==
  ASSUME IInv, NEW t \in Threads, CommitCall(t)
  PROVE  IInv'
<1> USE DEF CommitCall, GoTo
<1>1. TypeOK'
  BY DEF IInv, TypeOK, ThreadStates, Actors
<1>2. LocksInv'
  BY DEF IInv, LocksInv, ThreadInv, WorkerInv, TypeOK, ThreadStates, Actors
<1>3. NoCommitLost'
  BY DEF IInv, LocksInv, ThreadInv, TypeOK, NoCommitLost, InHand, Entering, Actors
<1>4. SeenInv'
  BY DEF IInv, SeenInv, LocksInv, TypeOK, Actors
<1> QED
  BY <1>1, <1>2, <1>3, <1>4 DEF IInv

LEMMA CommitLockInv ==
  ASSUME IInv, NEW t \in Threads, CommitLock(t)
  PROVE  IInv'
<1> USE DEF CommitLock, GoTo
<1> PICK n \in Lengths : len' = Append(len, n)
  OBVIOUS
<1>1. len' \in Seq(Lengths) /\ Len(len') = Len(len) + 1 /\ Len(len) \in Nat
  BY DEF IInv, TypeOK
<1>2. TypeOK'
  BY <1>1 DEF IInv, TypeOK, ThreadStates, Actors
<1>3. LocksInv'
  <2>1. ASSUME NEW u \in Threads PROVE ThreadInv(u)'
    BY <1>1 DEF IInv, LocksInv, ThreadInv, TypeOK, ThreadStates, Actors
  <2>2. ASSUME NEW w \in Workers PROVE WorkerInv(w)'
    BY DEF IInv, LocksInv, WorkerInv, TypeOK, Actors
  <2> QED
    BY <1>1, <2>1, <2>2 DEF LocksInv
<1>4. NoCommitLost'
  <2>1. Entering = <<>> /\ Entering' = <<Len(len) + 1>>
    BY <1>1 DEF IInv, TypeOK, LocksInv, ThreadInv, Entering, Actors
  <2>2. InHand' = InHand
    BY DEF InHand
  <2>3. log \in Seq(Nat) /\ InHand \in Seq(Nat) /\ pending \in Seq(Nat)
    BY DEF IInv, TypeOK, InHand, Commits
  <2>4. log \o InHand \o pending = [i \in 1 .. Len(len) |-> i]
    BY <2>1, <2>3 DEF IInv, NoCommitLost
  <2>5. [i \in 1 .. Len(len) |-> i] \o <<Len(len) + 1>> = [i \in 1 .. Len(len) + 1 |-> i]
    BY <1>1, Counting
  <2> QED
    BY <1>1, <2>1, <2>2, <2>4, <2>5 DEF NoCommitLost
<1>5. SeenInv'
  BY DEF IInv, SeenInv, LocksInv, TypeOK, Actors
<1> QED
  BY <1>2, <1>3, <1>4, <1>5 DEF IInv

LEMMA LineTypes ==
  ASSUME IInv
  PROVE  /\ log \in Seq(Commits) /\ InHand \in Seq(Commits)
         /\ pending \in Seq(Commits) /\ Entering \in Seq(Commits)
         /\ Len(len) \in Nat /\ Len(len) <= MaxCommits
<1>1. Len(len) \in Nat /\ Len(len) <= MaxCommits
  BY DEF IInv, TypeOK, LocksInv
<1>2. Entering \in Seq(Commits)
  <2> SUFFICES ASSUME pendingHolder # Nobody PROVE commit[pendingHolder] \in Commits
    BY DEF Entering
  <2>1. pendingHolder \in Threads
    BY DEF IInv, TypeOK
  <2>2. commit[pendingHolder] = Len(len) /\ len # <<>>
    BY <2>1 DEF IInv, LocksInv, ThreadInv
  <2>3. Len(len) # 0
    BY <2>2 DEF IInv, TypeOK
  <2> QED
    BY <1>1, <2>2, <2>3 DEF Commits
<1> QED
  BY <1>1, <1>2 DEF IInv, TypeOK, InHand

(* What can go into the context next, by what is empty before it.          *)
LEMMA NextInLine ==
  ASSUME IInv
  PROVE  /\ Len(log) + Len(InHand) + Len(pending) + Len(Entering) = Len(len)
         /\ \A i \in 1 .. Len(log) : log[i] = i
         /\ InHand # <<>> => Head(InHand) = Len(log) + 1
         /\ InHand = <<>> /\ pending # <<>> => Head(pending) = Len(log) + 1
         /\ InHand = <<>> /\ pending = <<>> /\ Entering # <<>> =>
              Head(Entering) = Len(log) + 1
<1>1. /\ log \in Seq(Nat) /\ InHand \in Seq(Nat) /\ pending \in Seq(Nat)
      /\ Entering \in Seq(Nat) /\ Len(len) \in Nat
  BY LineTypes DEF Commits
<1> QED
  BY <1>1, LineIndex DEF IInv, NoCommitLost

LEMMA CommitTryInv ==
  ASSUME IInv, NEW t \in Threads, CommitTry(t)
  PROVE  IInv'
<1> USE DEF CommitTry, GoTo
<1>1. TypeOK'
  BY DEF IInv, TypeOK, ThreadStates, Actors
<1>2. LocksInv'
  BY DEF IInv, LocksInv, ThreadInv, WorkerInv, TypeOK, ThreadStates, Actors
<1>3. NoCommitLost'
  <2>1. InHand' = InHand
    BY DEF IInv, InHand, TypeOK
  <2>2. Entering' = Entering
    BY DEF IInv, LocksInv, ThreadInv, TypeOK, Entering, Actors
  <2> QED
    BY <2>1, <2>2 DEF IInv, NoCommitLost
<1>4. SeenInv'
  BY DEF IInv, SeenInv, TypeOK, Actors
<1> QED
  BY <1>1, <1>2, <1>3, <1>4 DEF IInv

LEMMA CommitFlushInv ==
  ASSUME IInv, NEW t \in Threads, CommitFlush(t)
  PROVE  IInv'
<1> USE DEF CommitFlush, GoTo
<1>1. llmHolder = t /\ pendingHolder = t /\ pc[t] = "flush" /\ InHand = <<>>
  BY DEF IInv, LocksInv, ThreadInv, InHand
<1>2. Entering = <<commit[t]>> /\ commit[t] = Len(len)
  BY <1>1 DEF Entering, IInv, LocksInv, ThreadInv
<1>3. /\ log \in Seq(Commits) /\ pending \in Seq(Commits) /\ commit[t] \in Commits
      /\ Entering \in Seq(Commits) /\ Len(len) \in Nat /\ Len(len) <= MaxCommits
  BY <1>2, LineTypes DEF Commits
<1>4. CASE pending # <<>>
  <2>1. UpdateContext(Head(pending)) /\ pending' = Tail(pending) /\ UNCHANGED pc
    BY <1>4
  <2>2. Head(pending) = Len(log) + 1 /\ Head(pending) \in 1 .. Len(len)
    BY <1>1, <1>2, <1>3, <1>4, NextInLine
  <2>3. log' = Append(log, Head(pending)) /\ Tail(pending) \in Seq(Commits)
    BY <2>1, <1>3, <1>4 DEF UpdateContext
  <2>4. TypeOK'
    BY <2>1, <2>2, <2>3, <1>3, UpdateType DEF IInv, TypeOK
  <2>5. LocksInv'
    BY <2>1 DEF IInv, LocksInv, ThreadInv, WorkerInv
  <2>6. NoCommitLost'
    <3>1. InHand' = InHand /\ Entering' = Entering
      BY <2>1 DEF InHand, Entering
    <3>2. Append(log, Head(pending)) \o <<>> \o Tail(pending) \o Entering
            = log \o <<>> \o pending \o Entering
      <4> HIDE DEF CommitFlush, GoTo
      <4> QED
        BY <1>3, <1>4, FromThird
    <3> QED
      BY <1>1, <1>3, <1>4, <2>1, <2>3, <3>1, <3>2 DEF IInv, NoCommitLost
  <2>7. SeenInv'
    BY <1>1, <2>1 DEF IInv, LocksInv, WorkerInv, SeenInv
  <2> QED
    BY <2>4, <2>5, <2>6, <2>7 DEF IInv
<1>5. CASE pending = <<>>
  <2>1. UpdateContext(commit[t]) /\ pc' = [pc EXCEPT ![t] = "release"] /\ UNCHANGED pending
    BY <1>5
  <2>2. commit[t] \in 1 .. Len(len)
    BY <1>2, <1>3 DEF Commits
  <2>3. log' = Append(log, commit[t])
    BY <2>1 DEF UpdateContext
  <2>4. TypeOK'
    BY <2>1, <2>2, <1>3, UpdateType DEF IInv, TypeOK, ThreadStates, Actors
  <2>5. LocksInv'
    BY <1>1, <2>1 DEF IInv, LocksInv, ThreadInv, WorkerInv, TypeOK, ThreadStates, Actors
  <2>6. NoCommitLost'
    <3>1. InHand' = <<>> /\ Entering' = <<>>
      BY <1>1, <2>1 DEF IInv, TypeOK, Actors, InHand, Entering
    <3>2. Append(log, commit[t]) \o <<>> \o <<>> \o <<>> = log \o <<>> \o <<>> \o <<commit[t]>>
      BY <1>3, LastToFirst
    <3> QED
      BY <1>1, <1>2, <1>5, <2>1, <2>3, <3>1, <3>2 DEF IInv, NoCommitLost
  <2>7. SeenInv'
    BY <1>1, <2>1 DEF IInv, LocksInv, WorkerInv, SeenInv, TypeOK, Actors
  <2> QED
    BY <2>4, <2>5, <2>6, <2>7 DEF IInv
<1> QED
  BY <1>4, <1>5

LEMMA CommitDeferInv ==
  ASSUME IInv, NEW t \in Threads, CommitDefer(t)
  PROVE  IInv'
<1> USE DEF CommitDefer, GoTo
<1>1. pendingHolder = t
  BY DEF IInv, LocksInv, ThreadInv
<1>2. Entering = <<commit[t]>> /\ Entering' = <<>>
  BY <1>1 DEF Entering, IInv, TypeOK, Actors
<1>3. /\ log \in Seq(Commits) /\ InHand \in Seq(Commits) /\ pending \in Seq(Commits)
      /\ commit[t] \in Commits
  BY <1>1, <1>2, LineTypes DEF IInv, LocksInv, ThreadInv
<1>4. TypeOK'
  BY <1>3 DEF IInv, TypeOK, ThreadStates, Actors
<1>5. LocksInv'
  BY DEF IInv, LocksInv, ThreadInv, WorkerInv, TypeOK, ThreadStates, Actors
<1>6. NoCommitLost'
  <2>1. InHand' = InHand
    BY DEF InHand
  <2>2. log \o InHand \o Append(pending, commit[t]) \o <<>>
          = log \o InHand \o pending \o <<commit[t]>>
    BY <1>3, LastToThird
  <2> QED
    BY <1>2, <2>1, <2>2 DEF IInv, NoCommitLost
<1>7. SeenInv'
  BY DEF IInv, SeenInv, TypeOK, Actors
<1> QED
  BY <1>4, <1>5, <1>6, <1>7 DEF IInv

LEMMA CommitReleaseInv ==
  ASSUME IInv, NEW t \in Threads, CommitRelease(t)
  PROVE  IInv'
<1> USE DEF CommitRelease, GoTo
<1>1. pendingHolder = t
  BY DEF IInv, LocksInv, ThreadInv
<1>2. TypeOK'
  BY DEF IInv, TypeOK, ThreadStates, Actors
<1>3. LocksInv'
  <2>1. ASSUME NEW u \in Threads PROVE ThreadInv(u)'
    BY <1>1 DEF IInv, LocksInv, ThreadInv, TypeOK, ThreadStates, Actors
  <2>2. ASSUME NEW w \in Workers PROVE WorkerInv(w)'
    BY DEF IInv, LocksInv, WorkerInv, TypeOK, Actors
  <2> QED
    BY <2>1, <2>2 DEF IInv, LocksInv
<1>4. NoCommitLost'
  <2>1. InHand' = InHand
    BY DEF InHand, IInv, TypeOK
  <2>2. Entering = <<>> /\ Entering' = <<>>
    BY <1>1 DEF Entering
  <2> QED
    BY <2>1, <2>2 DEF IInv, NoCommitLost
<1>5. SeenInv'
  BY DEF IInv, SeenInv, TypeOK, Actors
<1> QED
  BY <1>2, <1>3, <1>4, <1>5 DEF IInv

-----------------------------------------------------------------------------
(* The other holders of llm                                                *)

LEMMA TiebreakLockInv ==
  ASSUME IInv, NEW t \in Threads, TiebreakLock(t)
  PROVE  IInv'
<1> USE DEF TiebreakLock, GoTo
<1>1. Made \in 0 .. MaxCommits
  <2>1. Len(len) \in Nat /\ Len(len) <= MaxCommits
    BY LineTypes
  <2>2. pendingHolder # Nobody => Len(len) > 0
    BY DEF IInv, LocksInv, TypeOK
  <2> QED
    BY <2>1, <2>2 DEF Made
<1>2. TypeOK'
  BY <1>1 DEF IInv, TypeOK, ThreadStates, Actors
<1>3. LocksInv'
  BY DEF IInv, LocksInv, ThreadInv, WorkerInv, TypeOK, ThreadStates, Actors
<1>4. NoCommitLost'
  <2>1. InHand = <<>> /\ InHand' = <<>>
    BY DEF InHand
  <2>2. Entering' = Entering
    BY DEF IInv, LocksInv, ThreadInv, TypeOK, Entering, Actors
  <2> QED
    BY <2>1, <2>2 DEF IInv, NoCommitLost
<1>5. SeenInv'
  BY DEF IInv, SeenInv, TypeOK, Actors
<1> QED
  BY <1>2, <1>3, <1>4, <1>5 DEF IInv

LEMMA TiebreakUnlockInv ==
  ASSUME IInv, NEW t \in Threads, TiebreakUnlock(t)
  PROVE  IInv'
<1> USE DEF TiebreakUnlock, GoTo
<1>1. llmHolder = t
  BY DEF IInv, LocksInv, ThreadInv
<1>2. TypeOK'
  BY DEF IInv, TypeOK, ThreadStates, Actors
<1>3. LocksInv'
  BY <1>1 DEF IInv, LocksInv, ThreadInv, WorkerInv, TypeOK, ThreadStates, Actors
<1>4. NoCommitLost'
  <2>1. InHand = <<>> /\ InHand' = <<>>
    BY <1>1 DEF InHand
  <2>2. Entering' = Entering
    BY DEF IInv, LocksInv, ThreadInv, TypeOK, Entering, Actors
  <2> QED
    BY <2>1, <2>2 DEF IInv, NoCommitLost
<1>5. SeenInv'
  BY DEF IInv, SeenInv, TypeOK, Actors
<1> QED
  BY <1>2, <1>3, <1>4, <1>5 DEF IInv

LEMMA WorkerLockInv ==
  ASSUME IInv, NEW w \in Workers, WorkerLock(w)
  PROVE  IInv'
<1> USE DEF WorkerLock, GoTo
<1>1. hand[w] = <<>>
  BY DEF IInv, LocksInv, WorkerInv
<1>2. TypeOK'
  BY DEF IInv, TypeOK, WorkerStates, Actors
<1>3. LocksInv'
  <2>1. ASSUME NEW u \in Threads PROVE ThreadInv(u)'
    BY DEF IInv, LocksInv, ThreadInv, TypeOK, Actors
  <2>2. ASSUME NEW u \in Workers PROVE WorkerInv(u)'
    BY <1>1 DEF IInv, LocksInv, WorkerInv, TypeOK, WorkerStates, Actors
  <2> QED
    BY <2>1, <2>2 DEF IInv, LocksInv
<1>4. NoCommitLost'
  <2>1. InHand = <<>> /\ InHand' = <<>>
    BY <1>1 DEF InHand
  <2>2. Entering' = Entering
    BY DEF IInv, LocksInv, TypeOK, Entering, Actors
  <2> QED
    BY <2>1, <2>2 DEF IInv, NoCommitLost
<1>5. SeenInv'
  BY DEF IInv, SeenInv, TypeOK, Actors
<1> QED
  BY <1>2, <1>3, <1>4, <1>5 DEF IInv

LEMMA WorkerTakeInv ==
  ASSUME IInv, NEW w \in Workers, WorkerTake(w)
  PROVE  IInv'
<1> USE DEF WorkerTake, GoTo
<1>1. llmHolder = w /\ hand[w] = <<>> /\ InHand = <<>> /\ Entering = <<>>
  BY DEF IInv, LocksInv, WorkerInv, InHand, Entering
<1>2. /\ log \in Seq(Commits) /\ pending \in Seq(Commits)
      /\ Len(len) \in Nat /\ Len(len) <= MaxCommits
  BY LineTypes
<1>3. TypeOK'
  BY <1>2 DEF IInv, TypeOK, WorkerStates, Actors
<1>4. LocksInv'
  <2>1. ASSUME NEW u \in Threads PROVE ThreadInv(u)'
    BY DEF IInv, LocksInv, ThreadInv, TypeOK, Actors
  <2>2. ASSUME NEW u \in Workers PROVE WorkerInv(u)'
    BY <1>1 DEF IInv, LocksInv, WorkerInv, TypeOK, WorkerStates, Actors
  <2> QED
    BY <2>1, <2>2 DEF IInv, LocksInv
<1>5. NoCommitLost'
  <2>1. InHand' = pending /\ Entering' = <<>>
    BY <1>1 DEF InHand, Entering, IInv, TypeOK
  <2>2. log \o pending \o <<>> \o <<>> = log \o <<>> \o pending \o <<>>
    BY <1>2, ThirdToSecond
  <2> QED
    BY <1>1, <2>1, <2>2 DEF IInv, NoCommitLost
<1>6. SeenInv'
  <2>1. Len(log) + Len(pending) = Len(len)
    BY <1>1, <1>2, NextInLine
  <2>2. ASSUME NEW u \in Workers, u # w
        PROVE pc'[u] # "update" /\ pc'[u] # "scoring"
    BY <1>1, <2>2 DEF IInv, LocksInv, WorkerInv, TypeOK, Actors
  <2>3. pc'[w] = "update" /\ hand'[w] = pending /\ seen'[w] = Len(len) /\ log' = log
    BY DEF IInv, TypeOK, Actors
  <2> QED
    BY <2>1, <2>2, <2>3 DEF SeenInv
<1> QED
  BY <1>3, <1>4, <1>5, <1>6 DEF IInv

LEMMA WorkerUpdateInv ==
  ASSUME IInv, NEW w \in Workers, WorkerUpdate(w)
  PROVE  IInv'
<1> USE DEF WorkerUpdate, GoTo
<1>1. llmHolder = w /\ pc[w] = "update" /\ InHand = hand[w]
  BY DEF IInv, LocksInv, WorkerInv, InHand
<1>2. /\ log \in Seq(Commits) /\ pending \in Seq(Commits) /\ Entering \in Seq(Commits)
      /\ hand[w] \in Seq(Commits) /\ Len(len) \in Nat /\ Len(len) <= MaxCommits
  BY <1>1, LineTypes
<1>3. \A u \in Workers : u # w => pc[u] = "idle"
  BY <1>1 DEF IInv, LocksInv, WorkerInv
<1>4. Len(log) + Len(hand[w]) = seen[w]
  BY <1>1 DEF IInv, SeenInv
<1>5. CASE hand[w] # <<>>
  <2>1. /\ UpdateContext(Head(hand[w])) /\ hand' = [hand EXCEPT ![w] = Tail(@)]
        /\ UNCHANGED pc
    BY <1>5
  <2>2. Head(hand[w]) = Len(log) + 1 /\ Head(hand[w]) \in 1 .. Len(len)
    <3>1. Head(hand[w]) = Len(log) + 1
      BY <1>1, <1>5, NextInLine
    <3>2. Len(log) + Len(hand[w]) + Len(pending) + Len(Entering) = Len(len)
      BY <1>1, NextInLine
    <3>3. Len(hand[w]) > 0
      BY <1>2, <1>5
    <3> QED
      BY <1>2, <3>1, <3>2, <3>3
  <2>3. log' = Append(log, Head(hand[w])) /\ Tail(hand[w]) \in Seq(Commits)
    BY <2>1, <1>2, <1>5 DEF UpdateContext
  <2>4. TypeOK'
    <3>1. hand' \in [Workers -> Seq(Commits)]
      BY <2>1, <2>3 DEF IInv, TypeOK
    <3> QED
      BY <2>1, <2>2, <3>1, <1>2, UpdateType DEF IInv, TypeOK
  <2>5. hand'[w] = Tail(hand[w]) /\ \A u \in Workers : u # w => hand'[u] = hand[u]
    BY <2>1 DEF IInv, TypeOK
  <2>6. LocksInv'
    BY <1>1, <2>1, <2>5 DEF IInv, LocksInv, ThreadInv, WorkerInv
  <2>7. NoCommitLost'
    <3>1. InHand' = Tail(hand[w]) /\ Entering' = Entering
      BY <1>1, <2>1, <2>5 DEF InHand, Entering
    <3>2. Append(log, Head(hand[w])) \o Tail(hand[w]) \o pending \o Entering
            = log \o hand[w] \o pending \o Entering
      <4> HIDE DEF WorkerUpdate, GoTo
      <4> PICK h \in Seq(Commits) : h = hand[w]
        BY <1>2
      <4>1. h # <<>> /\ log \in Seq(Commits)
        BY <1>2, <1>5
      <4>2. Append(log, Head(h)) \o Tail(h) = log \o h
        BY <4>1, MoveHead
      <4> QED
        BY <4>2
    <3> QED
      BY <1>1, <2>1, <2>3, <3>1, <3>2 DEF IInv, NoCommitLost
  <2>8. SeenInv'
    <3>1. Len(log') + Len(hand'[w]) = seen[w]
      <4>1. Len(log') = Len(log) + 1
        BY <2>3, <1>2
      <4>2. Len(hand'[w]) = Len(hand[w]) - 1
        BY <2>5, <1>2, <1>5
      <4> PICK n \in Nat, k \in Nat : n = Len(log) /\ k = Len(hand[w])
        BY <1>2
      <4>3. Len(log') = n + 1 /\ Len(hand'[w]) = k - 1 /\ n + k = seen[w]
        BY <4>1, <4>2, <1>4
      <4>4. (n + 1) + (k - 1) = n + k
        BY Moving
      <4> QED
        BY <4>3, <4>4, Zenon
    <3> QED
      BY <1>1, <1>3, <2>1, <3>1 DEF SeenInv
  <2> QED
    BY <2>4, <2>6, <2>7, <2>8 DEF IInv
<1>6. CASE hand[w] = <<>>
  <2>1. pc' = [pc EXCEPT ![w] = "scoring"] /\ UNCHANGED <<context, log, hand>>
    BY <1>6
  <2>2. TypeOK'
    BY <2>1 DEF IInv, TypeOK, WorkerStates, Actors
  <2>3. LocksInv'
    <3>1. ASSUME NEW u \in Threads PROVE ThreadInv(u)'
      BY <2>1 DEF IInv, LocksInv, ThreadInv, TypeOK, Actors
    <3>2. ASSUME NEW u \in Workers PROVE WorkerInv(u)'
      BY <1>1, <1>6, <2>1 DEF IInv, LocksInv, WorkerInv, TypeOK, WorkerStates, Actors
    <3> QED
      BY <3>1, <3>2 DEF IInv, LocksInv
  <2>4. NoCommitLost'
    <3>1. InHand' = InHand
      BY <2>1 DEF InHand
    <3>2. Entering' = Entering
      BY <2>1 DEF IInv, TypeOK, LocksInv, Entering, Actors
    <3> QED
      BY <2>1, <3>1, <3>2 DEF IInv, NoCommitLost
  <2>5. SeenInv'
    <3>1. Len(log) = seen[w]
      BY <1>2, <1>4, <1>6
    <3>2. pc'[w] = "scoring" /\ \A u \in Workers : u # w => pc'[u] = "idle"
      BY <1>3, <2>1 DEF IInv, TypeOK, Actors
    <3> QED
      BY <1>2, <2>1, <3>1, <3>2 DEF SeenInv
  <2> QED
    BY <2>2, <2>3, <2>4, <2>5 DEF IInv
<1> QED
  BY <1>5, <1>6

LEMMA WorkerFinishInv ==
  ASSUME IInv, NEW w \in Workers, WorkerFinish(w)
  PROVE  IInv'
<1> USE DEF WorkerFinish, GoTo
<1>1. llmHolder = w /\ hand[w] = <<>>
  BY DEF IInv, LocksInv, WorkerInv
<1>2. TypeOK'
  BY DEF IInv, TypeOK, WorkerStates, Actors
<1>3. LocksInv'
  <2>1. ASSUME NEW u \in Threads PROVE ThreadInv(u)'
    BY <1>1 DEF IInv, LocksInv, ThreadInv, TypeOK, Actors
  <2>2. ASSUME NEW u \in Workers PROVE WorkerInv(u)'
    BY <1>1 DEF IInv, LocksInv, WorkerInv, TypeOK, WorkerStates, Actors
  <2> QED
    BY <2>1, <2>2 DEF IInv, LocksInv
<1>4. NoCommitLost'
  <2>1. InHand = <<>> /\ InHand' = <<>>
    BY <1>1 DEF InHand
  <2>2. Entering' = Entering
    BY DEF IInv, LocksInv, TypeOK, Entering, Actors
  <2> QED
    BY <2>1, <2>2 DEF IInv, NoCommitLost
<1>5. SeenInv'
  BY DEF IInv, SeenInv, TypeOK, Actors
<1> QED
  BY <1>2, <1>3, <1>4, <1>5 DEF IInv

-----------------------------------------------------------------------------
(* The theorems                                                            *)

LEMMA InitInv == Init => IInv
<1> SUFFICES ASSUME Init PROVE IInv
  OBVIOUS
<1> USE DEF Init
<1>1. TypeOK
  <2>1. context \in Seq(Commits \X Nat) /\ Len(context) <= MaxChars
    BY EmptySeq
  <2>2. pending \in Seq(Commits) /\ len \in Seq(Lengths) /\ log \in Seq(Commits)
    BY EmptySeq
  <2>3. hand \in [Workers -> Seq(Commits)] /\ seen \in [Actors -> 0 .. MaxCommits]
    BY EmptySeq
  <2> QED
    BY <2>1, <2>2, <2>3 DEF TypeOK, ThreadStates, Actors
<1>2. LocksInv
  BY DEF LocksInv, ThreadInv, WorkerInv, ThreadStates, WorkerStates, Actors
<1>3. NoCommitLost
  <2>1. InHand = <<>> /\ Entering = <<>>
    BY DEF InHand, Entering
  <2>2. <<>> \o <<>> \o <<>> \o <<>> = <<>>
    OBVIOUS
  <2>3. [i \in 1 .. 0 |-> i] = <<>> /\ Len(len) = 0
    OBVIOUS
  <2> QED
    BY <2>1, <2>2, <2>3 DEF NoCommitLost
<1>4. SeenInv
  BY DEF SeenInv, Actors
<1> QED
  BY <1>1, <1>2, <1>3, <1>4 DEF IInv

LEMMA StepInv == IInv /\ [Next]_vars => IInv'
<1> SUFFICES ASSUME IInv, [Next]_vars PROVE IInv'
  OBVIOUS
<1>1. ASSUME NEW t \in Threads,
             CommitCall(t) \/ Commit(t) \/ TiebreakLock(t) \/ TiebreakUnlock(t)
      PROVE  IInv'
  BY <1>1, CommitCallInv, CommitLockInv, CommitTryInv, CommitFlushInv, CommitDeferInv,
     CommitReleaseInv, TiebreakLockInv, TiebreakUnlockInv DEF Commit
<1>2. ASSUME NEW w \in Workers, WorkerLock(w) \/ Drain(w) \/ WorkerFinish(w)
      PROVE  IInv'
  BY <1>2, WorkerLockInv, WorkerTakeInv, WorkerUpdateInv, WorkerFinishInv DEF Drain
<1>3. ASSUME UNCHANGED vars PROVE IInv'
  BY <1>3 DEF vars, IInv, TypeOK, LocksInv, ThreadInv, WorkerInv, NoCommitLost, InHand,
     Entering, SeenInv
<1> QED
  BY <1>1, <1>2, <1>3 DEF Next

(* Every variable keeps its type, and the context never exceeds MaxChars   *)
(* characters (update_context cuts it back after every text it takes).     *)
THEOREM TypeCorrect == Spec => []TypeOK
<1>1. IInv => TypeOK
  BY DEF IInv
<1> QED
  BY <1>1, InitInv, StepInv, PTL DEF Spec

(* No committed text is lost, duplicated or reordered between the mutex of *)
(* pending_llm_context and the context, whichever thread or worker carries *)
(* it there.                                                               *)
THEOREM NoCommitLostHolds == Spec => []NoCommitLost
<1>1. IInv => NoCommitLost
  BY DEF IInv
<1> QED
  BY <1>1, InitInv, StepInv, PTL DEF Spec

(* A worker never scores before the commits that were made when it drained *)
(* the queue are in the context.                                           *)
THEOREM ScoringSeesCommitsHolds == Spec => []ScoringSeesCommits
<1>1. IInv => ScoringSeesCommits
  BY DEF IInv, SeenInv, ScoringSeesCommits
<1> QED
  BY <1>1, InitInv, StepInv, PTL DEF Spec

-----------------------------------------------------------------------------
(* The context is the tail of the committed text                           *)

(* s[1 .. n] are characters of the first c commits, without a gap.         *)
Chain(s, n, c) ==
  /\ \A i \in 1 .. n - 1 : s[i + 1] = NextChar(s[i])
  /\ \A i \in 1 .. n : s[i][1] \in 1 .. c /\ s[i][2] \in 1 .. len[s[i][1]]

(* s is x[1 .. m], followed by the n characters of commit c.               *)
Followed(s, x, m, n, c) ==
  /\ \A i \in 1 .. m : s[i] = x[i]
  /\ \A i \in 1 .. n : s[m + i] = <<c, i>>

(* y[1 .. k] is the end of s[1 .. n].                                      *)
EndOf(y, k, s, n) == \A i \in 1 .. k : y[i] = s[n - k + i]

(* x[1 .. m] is the tail of the text of the first c commits.               *)
IsTail(x, m, c) ==
  /\ Chain(x, m, c)
  /\ m = 0 => c = 0
  /\ m # 0 => x[m] = <<c, len[c]>> /\ len[c] \in Nat
  /\ m # 0 => m = MaxChars \/ x[1] = <<1, 1>>

(* The characters of the context are characters of applied commits: a new  *)
(* commit does not change what comes after them.                           *)
CharsInv ==
  \A i \in 1 .. Len(context) :
    /\ context[i][1] \in 1 .. Len(log)
    /\ context[i][2] \in 1 .. len[context[i][1]]

TailInv == IInv /\ CharsInv /\ ContextIsTail

LEMMA LengthType == \A n \in Lengths : n \in Nat /\ n >= 1
OBVIOUS

LEMMA CharsOfFacts ==
  ASSUME IInv, NEW c \in 1 .. Len(len)
  PROVE  /\ CharsOf(c) \in Seq(Commits \X Nat)
         /\ len[c] \in Nat /\ len[c] >= 1 /\ Len(CharsOf(c)) = len[c]
         /\ \A k \in 1 .. len[c] : CharsOf(c)[k] = <<c, k>>
<1>1. len \in Seq(Lengths) /\ Len(len) <= MaxCommits /\ TypeOK
  BY DEF IInv, LocksInv, TypeOK
<1>2. CharsOf(c) \in Seq(Commits \X Nat) /\ Len(CharsOf(c)) = len[c]
  BY <1>1, CharsType
<1>3. len[c] \in Lengths
  BY <1>1, ElementOfSeq
<1>4. len[c] \in Nat /\ len[c] >= 1
  BY <1>3, LengthType
<1>5. \A k \in 1 .. len[c] : CharsOf(c)[k] = <<c, k>>
  BY DEF CharsOf
<1> QED
  BY <1>2, <1>4, <1>5

LEMMA Offset ==
  ASSUME NEW m \in Nat, NEW n \in Nat, NEW i \in 1 .. m + n, i > m
  PROVE  i - m \in 1 .. n /\ m + (i - m) = i /\ m + ((i - m) + 1) = i + 1
         /\ (i # m + n => (i - m) + 1 \in 1 .. n /\ i - m < n)
OBVIOUS

LEMMA Grown ==
  ASSUME NEW x, NEW s, NEW m \in Nat, NEW n \in Nat, NEW c \in Nat, c >= 1, n >= 1,
         n = len[c], Followed(s, x, m, n, c), Chain(x, m, c - 1),
         m # 0 => x[m] = <<c - 1, len[c - 1]>> /\ len[c - 1] \in Nat
  PROVE  Chain(s, m + n, c)
<1>1. ASSUME NEW i \in 1 .. m + n - 1 PROVE s[i + 1] = NextChar(s[i])
  <2>1. CASE i < m
    <3>1. i \in 1 .. m - 1 /\ i \in 1 .. m /\ i + 1 \in 1 .. m
      BY <2>1
    <3>2. s[i] = x[i] /\ s[i + 1] = x[i + 1] /\ x[i + 1] = NextChar(x[i])
      BY <3>1 DEF Followed, Chain
    <3> QED
      BY <3>2
  <2>2. CASE i = m
    <3>1. s[i] = <<c - 1, len[c - 1]>> /\ len[c - 1] \in Nat
      BY <2>2 DEF Followed
    <3>2. s[i + 1] = <<c, 1>>
      BY <2>2 DEF Followed
    <3>3. NextChar(s[i]) = <<(c - 1) + 1, 1>>
      BY <3>1 DEF NextChar
    <3> QED
      BY <3>2, <3>3
  <2>3. CASE i > m
    <3>1. i \in 1 .. m + n /\ i # m + n
      OBVIOUS
    <3>2. PICK k \in 1 .. n : /\ m + k = i /\ m + (k + 1) = i + 1
                              /\ k + 1 \in 1 .. n /\ k < n
      BY <2>3, <3>1, Offset
    <3>3. s[i] = <<c, k>> /\ s[i + 1] = <<c, k + 1>>
      BY <3>2 DEF Followed
    <3>4. k < len[c]
      BY <3>2
    <3> QED
      BY <3>3, <3>4 DEF NextChar
  <2> QED
    BY <2>1, <2>2, <2>3
<1>2. ASSUME NEW i \in 1 .. m + n PROVE s[i][1] \in 1 .. c /\ s[i][2] \in 1 .. len[s[i][1]]
  <2>1. CASE i <= m
    <3>1. i \in 1 .. m
      BY <2>1
    <3>2. s[i] = x[i] /\ s[i][1] \in 1 .. c - 1 /\ s[i][2] \in 1 .. len[s[i][1]]
      BY <3>1 DEF Followed, Chain
    <3> QED
      BY <3>2
  <2>2. CASE i > m
    <3>1. PICK k \in 1 .. n : m + k = i
      BY <2>2, Offset
    <3>2. s[i] = <<c, k>>
      BY <3>1 DEF Followed
    <3> QED
      BY <3>2
  <2> QED
    BY <2>1, <2>2
<1> QED
  BY <1>1, <1>2 DEF Chain

LEMMA Kept ==
  ASSUME NEW s, NEW y, NEW n \in Nat, NEW k \in 1 .. n, NEW c \in Nat,
         EndOf(y, k, s, n), Chain(s, n, c)
  PROVE  Chain(y, k, c) /\ y[k] = s[n] /\ (k = n => y[1] = s[1])
<1>1. ASSUME NEW i \in 1 .. k - 1 PROVE y[i + 1] = NextChar(y[i])
  <2>1. PICK j \in 1 .. n - 1 : j = n - k + i /\ n - k + (i + 1) = j + 1
    OBVIOUS
  <2>2. i \in 1 .. k /\ i + 1 \in 1 .. k
    OBVIOUS
  <2>3. y[i] = s[j] /\ y[i + 1] = s[j + 1]
    BY <2>1, <2>2 DEF EndOf
  <2>4. s[j + 1] = NextChar(s[j])
    BY DEF Chain
  <2> QED
    BY <2>3, <2>4
<1>2. ASSUME NEW i \in 1 .. k PROVE y[i][1] \in 1 .. c /\ y[i][2] \in 1 .. len[y[i][1]]
  <2>1. n - k + i \in 1 .. n
    OBVIOUS
  <2> QED
    BY <2>1 DEF EndOf, Chain
<1>3. y[k] = s[n] /\ (k = n => y[1] = s[1])
  <2>1. k \in 1 .. k /\ 1 \in 1 .. k /\ n - k + k = n
    OBVIOUS
  <2>2. k = n => n - k + 1 = 1
    OBVIOUS
  <2> QED
    BY <2>1, <2>2 DEF EndOf
<1> QED
  BY <1>1, <1>2, <1>3 DEF Chain

(* What update_context makes of the context x.                             *)
LEMMA Cut ==
  ASSUME NEW x, NEW s, NEW y, NEW m \in Nat, NEW n \in Nat, NEW k \in Nat, NEW c \in Nat,
         NEW l \in Nat, NEW b \in Nat, c = b + 1, n >= 1, n = len[c], l = m + n,
         Followed(s, x, m, n, c), IsTail(x, m, b), EndOf(y, k, s, l),
         k = l \/ k = MaxChars, k <= l, k <= MaxChars
  PROVE  k >= 1 /\ IsTail(y, k, c)
<1>1. k \in 1 .. l /\ c >= 1 /\ b = c - 1
  OBVIOUS
<1>2. Chain(s, l, c)
  <2>1. Chain(x, m, c - 1) /\ (m # 0 => x[m] = <<c - 1, len[c - 1]>> /\ len[c - 1] \in Nat)
    BY <1>1 DEF IsTail
  <2> QED
    BY <1>1, <2>1, Grown
<1>3. Chain(y, k, c) /\ y[k] = s[l] /\ (k = l => y[1] = s[1])
  <2>1. k \in 1 .. l /\ EndOf(y, k, s, l) /\ Chain(s, l, c)
    BY <1>1, <1>2
  <2> QED
    BY <2>1, Kept
<1>4. s[l] = <<c, len[c]>>
  BY DEF Followed
<1>5. k = l => y[1] = <<1, 1>> \/ k = MaxChars
  <2>1. CASE m = 0
    <3>1. 1 \in 1 .. n /\ m + 1 = 1 /\ c = 1
      BY <2>1 DEF IsTail
    <3>2. s[1] = <<1, 1>>
      BY <3>1 DEF Followed
    <3> QED
      BY <3>2, <1>3
  <2>2. CASE m # 0
    <3>1. s[1] = x[1] /\ (m = MaxChars \/ x[1] = <<1, 1>>)
      BY <2>2 DEF Followed, IsTail
    <3>2. k = l /\ m = MaxChars => FALSE
      OBVIOUS
    <3> QED
      BY <2>2, <3>1, <3>2, <1>3
  <2> QED
    BY <2>1, <2>2
<1> QED
  BY <1>1, <1>3, <1>4, <1>5 DEF IsTail

LEMMA ContextFacts ==
  ASSUME TailInv
  PROVE  IsTail(context, Len(context), Len(log))
<1>1. /\ context \in Seq(Commits \X Nat) /\ log \in Seq(Commits)
      /\ Len(context) \in Nat /\ Len(log) \in Nat
  BY DEF TailInv, IInv, TypeOK
<1>2. CASE context = <<>>
  <2>1. log = <<>>
    BY <1>2 DEF TailInv, ContextIsTail
  <2> QED
    BY <1>2, <2>1 DEF IsTail, Chain
<1>3. CASE context # <<>>
  <2>1. /\ log # <<>>
        /\ Len(context) = MaxChars \/ context[1] = <<1, 1>>
        /\ \A i \in 1 .. Len(context) - 1 : context[i + 1] = NextChar(context[i])
        /\ context[Len(context)] = <<Len(log), len[Len(log)]>>
    BY <1>3 DEF TailInv, ContextIsTail
  <2>2. Chain(context, Len(context), Len(log))
    BY <2>1 DEF Chain, TailInv, CharsInv
  <2>3. len[Len(log)] \in Nat
    <3>1. /\ Len(log) + Len(InHand) + Len(pending) + Len(Entering) = Len(len)
          /\ Len(InHand) \in Nat /\ Len(pending) \in Nat /\ Len(Entering) \in Nat
      BY LineTypes, NextInLine DEF TailInv
    <3>2. Len(log) # 0
      BY <2>1, <1>1
    <3>3. Len(log) \in 1 .. Len(len)
      BY <3>1, <3>2, <1>1
    <3> QED
      BY <3>3, CharsOfFacts DEF TailInv
  <2>4. Len(context) # 0
    BY <1>1, <1>3
  <2> QED
    BY <2>1, <2>2, <2>3, <2>4 DEF IsTail
<1> QED
  BY <1>2, <1>3

LEMMA LastPlusOne ==
  ASSUME NEW S, NEW a \in Seq(S), NEW x \in S
  PROVE  Len(Append(a, x)) = Len(a) + 1 /\ Append(a, x) # <<>>
OBVIOUS

LEMMA UpdateTail ==
  ASSUME TailInv, NEW c \in 1 .. Len(len), c = Len(log) + 1, UpdateContext(c), UNCHANGED len
  PROVE  CharsInv' /\ ContextIsTail'
<1>1. /\ CharsOf(c) \in Seq(Commits \X Nat)
      /\ len[c] \in Nat /\ len[c] >= 1 /\ Len(CharsOf(c)) = len[c]
      /\ \A k \in 1 .. len[c] : CharsOf(c)[k] = <<c, k>>
  BY CharsOfFacts DEF TailInv
<1>2. context \in Seq(Commits \X Nat) /\ log \in Seq(Commits) /\ c \in Nat /\ c >= 1
  BY DEF TailInv, IInv, TypeOK
<1>3. PICK s \in Seq(Commits \X Nat) : s = context \o CharsOf(c)
  BY <1>1, <1>2, ConcatIndex
<1>4. /\ Len(s) = Len(context) + Len(CharsOf(c))
      /\ \A i \in 1 .. Len(context) : s[i] = context[i]
      /\ \A i \in 1 .. Len(CharsOf(c)) : s[Len(context) + i] = CharsOf(c)[i]
  BY <1>1, <1>2, <1>3, ConcatIndex
<1>5. context' = LastChars(s) /\ log' = Append(log, c)
  BY <1>3 DEF UpdateContext
<1>6. Len(log') = c /\ log' # <<>>
  <2>1. log \in Seq(Nat) /\ c \in Nat
    BY <1>2 DEF Commits
  <2>2. Len(Append(log, c)) = Len(log) + 1 /\ Append(log, c) # <<>>
    BY <2>1, LastPlusOne
  <2> QED
    BY <2>2, <1>5, Zenon
<1>7. /\ context' \in Seq(Commits \X Nat)
      /\ Len(context') <= Len(s) /\ Len(context') <= MaxChars
      /\ Len(context') = Len(s) \/ Len(context') = MaxChars
      /\ \A i \in 1 .. Len(context') : context'[i] = s[Len(s) - Len(context') + i]
  BY <1>5, LastCharsType
<1>8. PICK m \in Nat : m = Len(context)
  BY <1>2
<1>9. PICK n \in Nat : n = len[c]
  BY <1>1
<1>10. PICK k \in Nat : k = Len(context')
  BY <1>7
<1>11. PICK b \in Nat : c = b + 1 /\ IsTail(context, m, b)
  <2>1. Len(log) \in Nat
    BY <1>2
  <2> QED
    BY <2>1, <1>8, ContextFacts
<1>12. n >= 1 /\ Followed(s, context, m, n, c)
  BY <1>1, <1>4, <1>8, <1>9 DEF Followed
<1>13. PICK l \in Nat : l = Len(s) /\ l = m + n
  BY <1>1, <1>4, <1>8, <1>9
<1>14. /\ k = l \/ k = MaxChars
       /\ k <= l /\ k <= MaxChars
       /\ EndOf(context', k, s, l)
  BY <1>7, <1>10, <1>13, Zenon DEF EndOf
<1>15. k >= 1 /\ IsTail(context', k, c)
  BY <1>2, <1>9, <1>11, <1>12, <1>13, <1>14, Cut
<1>16. CharsInv'
  BY <1>6, <1>10, <1>15, Zenon DEF CharsInv, Chain, IsTail
<1>17. context' # <<>>
  BY <1>10, <1>15
<1>18. /\ \A i \in 1 .. k - 1 : (context[i + 1] = NextChar(context[i]))'
       /\ context'[k] = <<c, len'[c]>>
       /\ k = MaxChars \/ context'[1] = <<1, 1>>
  <2>1. /\ \A i \in 1 .. k - 1 : context'[i + 1] = NextChar(context'[i])
        /\ context'[k] = <<c, len[c]>>
        /\ k = MaxChars \/ context'[1] = <<1, 1>>
    BY <1>15 DEF Chain, IsTail
  <2>2. \A i \in 1 .. k - 1 : (context[i + 1] = NextChar(context[i]))'
    BY <2>1 DEF NextChar
  <2> QED
    BY <2>1, <2>2
<1>19. ContextIsTail'
  BY <1>6, <1>10, <1>17, <1>18, Zenon DEF ContextIsTail
<1> QED
  BY <1>16, <1>19

(* Only three kinds of steps: one puts the next text into the context, one *)
(* makes a commit, the others leave both alone.                            *)
LEMMA StepKinds ==
  ASSUME IInv, [Next]_vars
  PROVE  \/ \E c \in 1 .. Len(len) :
               c = Len(log) + 1 /\ UpdateContext(c) /\ UNCHANGED len
         \/ \E n \in Lengths : len' = Append(len, n) /\ UNCHANGED <<context, log>>
         \/ UNCHANGED <<context, log, len>>
<1>1. ASSUME NEW t \in Threads, CommitFlush(t)
      PROVE  \E c \in 1 .. Len(len) :
               c = Len(log) + 1 /\ UpdateContext(c) /\ UNCHANGED len
  <2>1. /\ llmHolder = t /\ pendingHolder = t /\ pc[t] = "flush" /\ InHand = <<>>
        /\ commit[t] = Len(len) /\ len # <<>>
    BY <1>1 DEF CommitFlush, IInv, LocksInv, ThreadInv, InHand
  <2>2. Entering = <<commit[t]>>
    BY <2>1 DEF Entering
  <2>3. /\ log \in Seq(Commits) /\ pending \in Seq(Commits) /\ Len(len) \in Nat
        /\ Len(log) + Len(InHand) + Len(pending) + Len(Entering) = Len(len)
    BY LineTypes, NextInLine
  <2>4. CASE pending # <<>>
    <3>1. UpdateContext(Head(pending)) /\ UNCHANGED len
      BY <1>1, <2>4 DEF CommitFlush
    <3>2. Head(pending) = Len(log) + 1
      BY <2>1, <2>4, NextInLine
    <3>3. Head(pending) \in 1 .. Len(len)
      BY <2>1, <2>2, <2>3, <2>4, <3>2
    <3> QED
      BY <3>1, <3>2, <3>3
  <2>5. CASE pending = <<>>
    <3>1. UpdateContext(commit[t]) /\ UNCHANGED len
      BY <1>1, <2>5 DEF CommitFlush
    <3>2. Head(Entering) = Len(log) + 1
      BY <2>1, <2>2, <2>5, NextInLine
    <3>3. commit[t] = Len(log) + 1
      BY <2>2, <3>2
    <3>4. commit[t] \in 1 .. Len(len)
      BY <2>1, <2>3, <3>3
    <3> QED
      BY <3>1, <3>3, <3>4
  <2> QED
    BY <2>4, <2>5
<1>2. ASSUME NEW w \in Workers, WorkerUpdate(w)
      PROVE  \/ \E c \in 1 .. Len(len) :
                   c = Len(log) + 1 /\ UpdateContext(c) /\ UNCHANGED len
             \/ UNCHANGED <<context, log, len>>
  <2>1. CASE hand[w] # <<>>
    <3>1. UpdateContext(Head(hand[w])) /\ UNCHANGED len
      BY <1>2, <2>1 DEF WorkerUpdate
    <3>2. InHand = hand[w]
      BY <1>2 DEF WorkerUpdate, IInv, LocksInv, WorkerInv, InHand
    <3>3. /\ log \in Seq(Commits) /\ InHand \in Seq(Commits) /\ pending \in Seq(Commits)
          /\ Entering \in Seq(Commits) /\ Len(len) \in Nat
          /\ Len(log) + Len(InHand) + Len(pending) + Len(Entering) = Len(len)
          /\ Head(InHand) = Len(log) + 1
      BY <2>1, <3>2, LineTypes, NextInLine
    <3>4. Len(InHand) > 0
      BY <2>1, <3>2, <3>3
    <3>5. Head(InHand) \in 1 .. Len(len)
      BY <3>3, <3>4
    <3> QED
      BY <3>1, <3>2, <3>3, <3>5
  <2>2. CASE hand[w] = <<>>
    BY <1>2, <2>2 DEF WorkerUpdate
  <2> QED
    BY <2>1, <2>2
<1>3. ASSUME NEW t \in Threads, CommitLock(t)
      PROVE  \E n \in Lengths : len' = Append(len, n) /\ UNCHANGED <<context, log>>
  BY <1>3 DEF CommitLock
<1>4. ASSUME NEW t \in Threads,
             \/ CommitCall(t) \/ CommitTry(t) \/ CommitDefer(t) \/ CommitRelease(t)
             \/ TiebreakLock(t) \/ TiebreakUnlock(t)
      PROVE  UNCHANGED <<context, log, len>>
  BY <1>4 DEF CommitCall, CommitTry, CommitDefer, CommitRelease, TiebreakLock, TiebreakUnlock
<1>5. ASSUME NEW w \in Workers, WorkerLock(w) \/ WorkerTake(w) \/ WorkerFinish(w)
      PROVE  UNCHANGED <<context, log, len>>
  BY <1>5 DEF WorkerLock, WorkerTake, WorkerFinish
<1>6. UNCHANGED vars => UNCHANGED <<context, log, len>>
  BY DEF vars
<1> QED
  BY <1>1, <1>2, <1>3, <1>4, <1>5, <1>6 DEF Next, Commit, Drain

LEMMA LockTail ==
  ASSUME TailInv, NEW n \in Lengths, len' = Append(len, n), UNCHANGED <<context, log>>
  PROVE  CharsInv' /\ ContextIsTail'
<1>1. len \in Seq(Lengths) /\ Len(len) \in Nat /\ Len(log) \in Nat
  BY DEF TailInv, IInv, TypeOK
<1>2. Len(log) <= Len(len)
  <2>1. /\ Len(InHand) \in Nat /\ Len(pending) \in Nat /\ Len(Entering) \in Nat
    BY LineTypes DEF TailInv
  <2>2. Len(log) + Len(InHand) + Len(pending) + Len(Entering) = Len(len)
    BY NextInLine DEF TailInv
  <2> QED
    BY <1>1, <2>1, <2>2
<1>3. \A c \in 1 .. Len(log) : len'[c] = len[c]
  BY <1>1, <1>2
<1>4. CharsInv'
  BY <1>3 DEF TailInv, CharsInv
<1>5. ContextIsTail'
  <2>1. ASSUME NEW i \in 1 .. Len(context) - 1
        PROVE  context[i + 1] = NextChar(context[i]) => context[i + 1] = NextChar(context[i])'
    <3>1. i \in 1 .. Len(context)
      BY DEF TailInv, IInv, TypeOK
    <3>2. len'[context[i][1]] = len[context[i][1]]
      BY <1>3, <3>1 DEF TailInv, CharsInv
    <3> QED
      BY <3>2 DEF NextChar
  <2>2. context # <<>> => Len(log) \in 1 .. Len(log)
    BY <1>1 DEF TailInv, ContextIsTail, IInv, TypeOK
  <2> QED
    BY <1>3, <2>1, <2>2 DEF TailInv, ContextIsTail
<1> QED
  BY <1>4, <1>5

(* However often the context is cut, it stays the last MaxChars characters *)
(* of the text committed so far, without a gap.                            *)
THEOREM ContextIsTailHolds == Spec => []ContextIsTail
<1>1. Init => TailInv
  BY InitInv DEF Init, TailInv, CharsInv, ContextIsTail
<1>2. TailInv /\ [Next]_vars => TailInv'
  <2> SUFFICES ASSUME TailInv, [Next]_vars PROVE TailInv'
    OBVIOUS
  <2>1. IInv'
    BY StepInv DEF TailInv
  <2>2. CASE \E c \in 1 .. Len(len) : c = Len(log) + 1 /\ UpdateContext(c) /\ UNCHANGED len
    BY <2>1, <2>2, UpdateTail DEF TailInv
  <2>3. CASE \E n \in Lengths : len' = Append(len, n) /\ UNCHANGED <<context, log>>
    BY <2>1, <2>3, LockTail DEF TailInv
  <2>4. CASE UNCHANGED <<context, log, len>>
    <3>1. \A ch : NextChar(ch)' = NextChar(ch)
      BY <2>4 DEF NextChar
    <3> QED
      BY <2>1, <2>4, <3>1 DEF TailInv, CharsInv, ContextIsTail, NextChar
  <2> QED
    BY <2>2, <2>3, <2>4, StepKinds DEF TailInv
<1>3. TailInv => ContextIsTail
  BY DEF TailInv
<1> QED
  BY <1>1, <1>2, <1>3, PTL DEF Spec
=============================================================================
