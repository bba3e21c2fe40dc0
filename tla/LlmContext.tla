----------------------------- MODULE LlmContext -----------------------------
(***************************************************************************)
(* The committed-text history of the language model, shared by every       *)
(* ConversionEngine of the process (SharedCore in src/src/engine/mod.rs):  *)
(* the mutex llm around LlmEngine, the mutex pending_llm_context, the      *)
(* frontend threads that commit text, and the rerank workers that hold llm *)
(* for as long as they score.                                              *)
(*                                                                         *)
(* Commits are numbered in the order in which they get the mutex of        *)
(* pending_llm_context; a character of the history is the pair of its      *)
(* commit and its place in the committed text.                             *)
(***************************************************************************)
EXTENDS Naturals, Sequences

CONSTANTS
  Threads,     \* frontend threads: each runs an engine of its own
  Workers,     \* rerank worker threads
  Lengths,     \* lengths a committed text can have, in characters
  MaxCommits,  \* bound: commits explored
  MaxChars,    \* MAX_CHARS, the length the history is cut to
  Nobody       \* no thread holds the mutex

ASSUME ThreadsAssumption ==
  /\ Threads \cap Workers = {}
  /\ Nobody \notin Threads \cup Workers
ASSUME BoundsAssumption ==
  /\ Lengths \subseteq Nat \ {0}
  /\ MaxCommits \in Nat
  /\ MaxChars \in Nat \ {0}

VARIABLES
  context,        \* LlmEngine.context
  pending,        \* pending_llm_context: commits waiting for the mutex llm
  llmHolder,      \* holder of the mutex llm
  poisoned,       \* somebody panicked while holding llm
  pendingHolder,  \* commit inside the mutex of pending_llm_context
  pc,             \* where each thread is
  commit,         \* the commit each frontend thread is carrying out
  hand,           \* commits the worker took out of pending_llm_context
  len,            \* length of every commit so far, in commit order
  log,            \* commits applied to the context so far (history variable)
  seen            \* commits made when the holder of llm got at the queue or llm

vars == <<context, pending, llmHolder, poisoned, pendingHolder, pc, commit,
          hand, len, log, seen>>

Actors == Threads \cup Workers
Commits == 1 .. MaxCommits

ThreadStates == {"idle", "called", "try", "flush", "defer", "release",
                 "tiebreak"}
WorkerStates == {"idle", "drain", "update", "scoring"}

TypeOK ==
  /\ context \in Seq(Commits \X Nat) /\ Len(context) <= MaxChars
  /\ pending \in Seq(Commits)
  /\ llmHolder \in Actors \cup {Nobody}
  /\ poisoned \in BOOLEAN
  /\ pendingHolder \in Threads \cup {Nobody}
  /\ pc \in [Actors -> ThreadStates \cup WorkerStates]
  /\ commit \in [Threads -> 0 .. MaxCommits]
  /\ hand \in [Workers -> Seq(Commits)]
  /\ len \in Seq(Lengths)
  /\ log \in Seq(Commits)
  /\ seen \in [Actors -> 0 .. MaxCommits]

Init ==
  /\ context = <<>>
  /\ pending = <<>>
  /\ llmHolder = Nobody
  /\ poisoned = FALSE
  /\ pendingHolder = Nobody
  /\ pc = [a \in Actors |-> "idle"]
  /\ commit = [t \in Threads |-> 0]
  /\ hand = [w \in Workers |-> <<>>]
  /\ len = <<>>
  /\ log = <<>>
  /\ seen = [a \in Actors |-> 0]

GoTo(a, to) == pc' = [pc EXCEPT ![a] = to]

-----------------------------------------------------------------------------
(* LlmEngine::update_context                                               *)

LastChars(s) ==
  IF Len(s) <= MaxChars THEN s ELSE SubSeq(s, Len(s) - MaxChars + 1, Len(s))

CharsOf(c) == [k \in 1 .. len[c] |-> <<c, k>>]

\* Mutant: the history is cut before the new text is appended.
BuggyUpdateContext(c) ==
  /\ context' = LastChars(context) \o CharsOf(c)
  /\ log' = Append(log, c)

UpdateContext(c) ==
  /\ context' = LastChars(context \o CharsOf(c))
  /\ log' = Append(log, c)

-----------------------------------------------------------------------------
(* update_llm_context_or_defer, on a frontend thread                       *)

CommitCall(t) ==
  /\ pc[t] = "idle"
  /\ GoTo(t, "called")
  /\ UNCHANGED <<context, pending, llmHolder, poisoned, pendingHolder, commit,
                 hand, len, log, seen>>

\* The mutex of pending_llm_context comes first and orders the commits.
CommitLock(t) ==
  /\ pc[t] = "called"
  /\ pendingHolder = Nobody
  /\ Len(len) < MaxCommits
  /\ \E n \in Lengths : len' = Append(len, n)
  /\ commit' = [commit EXCEPT ![t] = Len(len')]
  /\ pendingHolder' = t
  /\ GoTo(t, "try")
  /\ UNCHANGED <<context, pending, llmHolder, poisoned, hand, log, seen>>

\* Mutant: a blocking lock() instead of try_lock().
BuggyCommitTry(t) ==
  /\ pc[t] = "try"
  /\ llmHolder = Nobody
  /\ llmHolder' = t
  /\ GoTo(t, "flush")
  /\ UNCHANGED <<context, pending, poisoned, pendingHolder, commit, hand, len,
                 log, seen>>

\* try_lock fails while the mutex is held, and for good once it is poisoned.
CommitTry(t) ==
  /\ pc[t] = "try"
  /\ IF llmHolder = Nobody /\ ~poisoned
       THEN llmHolder' = t /\ GoTo(t, "flush")
       ELSE UNCHANGED llmHolder /\ GoTo(t, "defer")
  /\ UNCHANGED <<context, pending, poisoned, pendingHolder, commit, hand, len,
                 log, seen>>

\* Mutant: the new text goes in before the deferred ones.
BuggyCommitFlush(t) ==
  /\ pc[t] = "flush"
  /\ UpdateContext(commit[t])
  /\ GoTo(t, "release")
  /\ UNCHANGED <<pending, llmHolder, poisoned, pendingHolder, commit, hand,
                 len, seen>>

\* The deferred commits go in first, oldest first, then the new one.
CommitFlush(t) ==
  /\ pc[t] = "flush"
  /\ IF pending # <<>>
       THEN /\ UpdateContext(Head(pending))
            /\ pending' = Tail(pending)
            /\ UNCHANGED pc
       ELSE /\ UpdateContext(commit[t])
            /\ GoTo(t, "release")
            /\ UNCHANGED pending
  /\ UNCHANGED <<llmHolder, poisoned, pendingHolder, commit, hand, len, seen>>

CommitDefer(t) ==
  /\ pc[t] = "defer"
  /\ pending' = Append(pending, commit[t])
  /\ GoTo(t, "release")
  /\ UNCHANGED <<context, llmHolder, poisoned, pendingHolder, commit, hand,
                 len, log, seen>>

\* Both guards are dropped; nobody else can run between the two drops that
\* could not run after them.
CommitRelease(t) ==
  /\ pc[t] = "release"
  /\ llmHolder' = IF llmHolder = t THEN Nobody ELSE llmHolder
  /\ pendingHolder' = Nobody
  /\ commit' = [commit EXCEPT ![t] = 0]
  /\ GoTo(t, "idle")
  /\ UNCHANGED <<context, pending, poisoned, hand, len, log, seen>>

-----------------------------------------------------------------------------
(* filter_segmentation: the tiebreak scores two segmentations on the       *)
(* frontend thread if it can have the mutex at once                        *)

\* Commits whose call has passed the mutex of pending_llm_context.
Made == IF pendingHolder = Nobody THEN Len(len) ELSE Len(len) - 1

TiebreakLock(t) ==
  /\ pc[t] = "idle"
  /\ llmHolder = Nobody
  /\ ~poisoned
  /\ llmHolder' = t
  /\ seen' = [seen EXCEPT ![t] = Made]
  /\ GoTo(t, "tiebreak")
  /\ UNCHANGED <<context, pending, poisoned, pendingHolder, commit, hand, len,
                 log>>

\* Scoring ends, or panics and leaves the mutex poisoned.
TiebreakUnlock(t) ==
  /\ pc[t] = "tiebreak"
  /\ \E panic \in BOOLEAN : poisoned' = (poisoned \/ panic)
  /\ llmHolder' = Nobody
  /\ seen' = [seen EXCEPT ![t] = 0]
  /\ GoTo(t, "idle")
  /\ UNCHANGED <<context, pending, pendingHolder, commit, hand, len, log>>

-----------------------------------------------------------------------------
(* A rerank worker                                                         *)

\* The worker ignores the poison.
WorkerLock(w) ==
  /\ pc[w] = "idle"
  /\ llmHolder = Nobody
  /\ llmHolder' = w
  /\ GoTo(w, "drain")
  /\ UNCHANGED <<context, pending, poisoned, pendingHolder, commit, hand, len,
                 log, seen>>

\* drain_pending_llm_context: mem::take under the mutex of the queue ...
WorkerTake(w) ==
  /\ pc[w] = "drain"
  /\ pendingHolder = Nobody
  /\ hand' = [hand EXCEPT ![w] = pending]
  /\ pending' = <<>>
  /\ seen' = [seen EXCEPT ![w] = Len(len)]
  /\ GoTo(w, "update")
  /\ UNCHANGED <<context, llmHolder, poisoned, pendingHolder, commit, len,
                 log>>

\* Mutant: scoring starts without the deferred commits.
BuggyWorkerUpdate(w) ==
  /\ pc[w] = "update"
  /\ GoTo(w, "scoring")
  /\ UNCHANGED <<context, log, hand, pending, llmHolder, poisoned,
                 pendingHolder, commit, len, seen>>

\* ... and the taken commits are applied one by one with the queue open
\* again for new ones; then the context is read and scoring starts.
WorkerUpdate(w) ==
  /\ pc[w] = "update"
  /\ IF hand[w] # <<>>
       THEN /\ UpdateContext(Head(hand[w]))
            /\ hand' = [hand EXCEPT ![w] = Tail(@)]
            /\ UNCHANGED pc
       ELSE /\ GoTo(w, "scoring")
            /\ UNCHANGED <<context, log, hand>>
  /\ UNCHANGED <<pending, llmHolder, poisoned, pendingHolder, commit, len,
                 seen>>

\* The pass ends, or panics and leaves the mutex poisoned.
WorkerFinish(w) ==
  /\ pc[w] = "scoring"
  /\ \E panic \in BOOLEAN : poisoned' = (poisoned \/ panic)
  /\ llmHolder' = Nobody
  /\ seen' = [seen EXCEPT ![w] = 0]
  /\ GoTo(w, "idle")
  /\ UNCHANGED <<context, pending, pendingHolder, commit, hand, len, log>>

-----------------------------------------------------------------------------
Commit(t) ==
  CommitLock(t) \/ CommitTry(t) \/ CommitFlush(t) \/ CommitDefer(t)
    \/ CommitRelease(t)

Drain(w) == WorkerTake(w) \/ WorkerUpdate(w)

Next ==
  \/ \E t \in Threads :
       CommitCall(t) \/ Commit(t) \/ TiebreakLock(t) \/ TiebreakUnlock(t)
  \/ \E w \in Workers : WorkerLock(w) \/ Drain(w) \/ WorkerFinish(w)

Spec == Init /\ [][Next]_vars

\* Threads run, and whoever waits for the mutex of pending_llm_context gets
\* it in the end: its critical sections are a handful of pushes.  Nothing is
\* assumed about WorkerFinish and TiebreakUnlock: scoring may last for ever.
FairSpec ==
  /\ Spec
  /\ \A t \in Threads : SF_vars(CommitLock(t)) /\ WF_vars(Commit(t))
  /\ \A w \in Workers : WF_vars(Drain(w))

-----------------------------------------------------------------------------
(* Properties                                                              *)

\* The commits taken by the worker that holds llm.
InHand == IF llmHolder \in Workers THEN hand[llmHolder] ELSE <<>>

\* The commit whose thread is between getting the queue's mutex and putting
\* its text into the context or the queue.
Entering ==
  IF pendingHolder # Nobody /\ pc[pendingHolder] # "release"
    THEN <<commit[pendingHolder]>> ELSE <<>>

\* No committed text is lost, duplicated or reordered on its way into the
\* history, whoever holds which mutex: the applied commits, the ones a worker
\* took, the queued ones and the one being made are all commits, in order.
NoCommitLost ==
  log \o InHand \o pending \o Entering = [i \in 1 .. Len(len) |-> i]

NextChar(ch) ==
  IF ch[2] < len[ch[1]] THEN <<ch[1], ch[2] + 1>> ELSE <<ch[1] + 1, 1>>

\* The context is always the tail of the committed text, MaxChars characters
\* long as soon as there are that many: cutting it at every update loses
\* nothing that the next update would still have shown.
ContextIsTail ==
  /\ log = <<>> <=> context = <<>>
  /\ context # <<>> =>
       /\ Len(context) = MaxChars \/ context[1] = <<1, 1>>
       /\ \A i \in 1 .. Len(context) - 1 : context[i + 1] = NextChar(context[i])
       /\ context[Len(context)] = <<Len(log), len[Len(log)]>>

\* A worker scores with every commit in its context that was made before it
\* drained the queue.
ScoringSeesCommits ==
  \A w \in Workers : pc[w] = "scoring" => Len(log) >= seen[w]

\* What the comment on pending_llm_context says of every holder of llm: the
\* queue is flushed by whoever next acquires the mutex.
FlushedByNextHolder ==
  \A a \in Actors : pc[a] \in {"scoring", "tiebreak"} => Len(log) >= seen[a]

\* A commit is never held up by a scoring pass, however long that lasts: once
\* called it returns (unless the bound on commits is reached).
CommitReturns ==
  \A t \in Threads :
    pc[t] \in {"called", "try", "flush", "defer", "release"}
      ~> (pc[t] = "idle" \/ Len(len) = MaxCommits)
=============================================================================
