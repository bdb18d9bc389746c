------------------------------ MODULE Counters ------------------------------
(***************************************************************************)
(* The like counter of one tweet: likes rows and their events              *)
(* (internal/tweets/likes.go), the counters worker with its write-behind   *)
(* buffer, the Redis hash cnt:{tweet}, reads and the nightly reconcile job *)
(* (internal/counters), fed by a consumer that commits offsets on its own  *)
(* (pkg/kafkax).  Retweets are counted by the same code.                   *)
(*                                                                         *)
(* Two goroutines flush: the consumer when the buffer is full, and the     *)
(* ticker.  A flush swaps the buffer out under the mutex and sends it to   *)
(* Postgres afterwards.                                                    *)
(*                                                                         *)
(* Bounds: MaxEvents, MaxFailures (failed calls, crashes and rebalances),  *)
(* MaxReconciles.                                                          *)
(***************************************************************************)
EXTENDS Integers, Sequences, FiniteSets

CONSTANTS
  Users,
  FlushAfter,     \* events after which the consumer flushes
  MaxEvents,
  MaxFailures,
  MaxReconciles,
  None            \* no hash, no value

ASSUME FlushAssumption == FlushAfter \in Nat \ {0}
ASSUME BoundAssumption == MaxEvents \in Nat /\ MaxFailures \in Nat /\ MaxReconciles \in Nat
ASSUME NoneAssumption == None \notin Int

VARIABLES
  likes,      \* users with a row in likes
  log,        \* "liked" and "unliked" events of engagements.v1
  next,       \* events the worker has handled since it got the partition
  committed,  \* the group's committed offset
  step,       \* where HandleEvent is: "poll", "incr", "add", "flush", "send"
  seen,       \* events whose evt:{id} key is set
  hash,       \* likes field of cnt:{tweet}, or None
  buffer,     \* Counters.deltas of the tweet
  pending,    \* Counters.pending
  flight,     \* what each flusher has swapped out and not yet written
  pg,         \* tweets.likes_count
  reading,    \* likes_count a reader got from Postgres to warm the hash with
  fixing,     \* count the reconcile job is about to write to the hash
  counted,    \* history: how often each event entered the buffer
  lost,       \* history: what failures took from the buffer and from flushes
  corrected,  \* history: what reconciling added to pg
  failures,
  reconciles

events == <<likes, log>>
consumer == <<next, committed, step, seen>>
pipeline == <<buffer, pending, flight, pg>>
readers == <<reading, fixing>>
history == <<counted, lost, corrected>>
budget == <<failures, reconciles>>
vars == <<events, consumer, hash, pipeline, readers, history, budget>>

Flushers == {"consumer", "ticker"}
Offsets == 1..Len(log)
Delta(i) == IF log[i] = "liked" THEN 1 ELSE -1
Changes(S) == Cardinality({ i \in S : log[i] = "liked" })
              - Cardinality({ i \in S : log[i] = "unliked" })

TypeOK ==
  /\ likes \subseteq Users
  /\ log \in Seq({"liked", "unliked"}) /\ Len(log) <= MaxEvents
  /\ next \in 0..Len(log) /\ committed \in 0..next
  /\ step \in {"poll", "incr", "add", "flush", "send"}
  /\ step # "poll" => next < Len(log)
  /\ seen \subseteq Offsets
  /\ hash \in Int \cup {None}
  /\ buffer \in Int
  /\ pending \in 0..FlushAfter
  /\ flight \in [Flushers -> Int \cup {None}]
  /\ (flight["consumer"] # None) <=> (step = "send")
  /\ pg \in Int
  /\ reading \in Int \cup {None} /\ fixing \in Nat \cup {None}
  /\ counted \in [1..MaxEvents -> Nat]
  /\ lost \in Int /\ corrected \in Int
  /\ failures \in 0..MaxFailures /\ reconciles \in 0..MaxReconciles

Init ==
  /\ likes = {} /\ log = << >>
  /\ next = 0 /\ committed = 0 /\ step = "poll" /\ seen = {}
  /\ hash = None
  /\ buffer = 0 /\ pending = 0 /\ flight = [f \in Flushers |-> None] /\ pg = 0
  /\ reading = None /\ fixing = None
  /\ counted = [i \in 1..MaxEvents |-> 0] /\ lost = 0 /\ corrected = 0
  /\ failures = 0 /\ reconciles = 0

Fail == failures < MaxFailures /\ failures' = failures + 1 /\ UNCHANGED reconciles

-----------------------------------------------------------------------------
(* The API: the likes row and its event commit together, and only when the  *)
(* row changed.                                                             *)

Emit(e) == Len(log) < MaxEvents /\ log' = Append(log, e)

NewLike(u) == u \notin likes

Like(u) ==
  /\ NewLike(u)
  /\ likes' = likes \cup {u}
  /\ Emit("liked")
  /\ UNCHANGED <<consumer, hash, pipeline, readers, history, budget>>

Unlike(u) ==
  /\ u \in likes
  /\ likes' = likes \ {u}
  /\ Emit("unliked")
  /\ UNCHANGED <<consumer, hash, pipeline, readers, history, budget>>

-----------------------------------------------------------------------------
(* The consumer: HandleEvent for the record at offset next + 1.             *)

Offset == next + 1
EndRecord == next' = next + 1 /\ step' = "poll"

AlwaysFirst(i) == TRUE   \* mutant: the answer of Once is ignored
First(i) == i \notin seen

\* Once: SETNX evt:{id}.
Dedupe ==
  /\ step = "poll" /\ next < Len(log)
  /\ First(Offset)
  /\ seen' = seen \cup {Offset}
  /\ step' = "incr"
  /\ UNCHANGED <<next, committed, events, hash, pipeline, readers, history, budget>>

SkipSeen ==
  /\ step = "poll" /\ next < Len(log)
  /\ ~First(Offset)
  /\ EndRecord
  /\ UNCHANGED <<committed, seen, events, hash, pipeline, readers, history, budget>>

\* HINCRBY starts an absent hash from zero; EXPIRE.
Increment ==
  /\ step = "incr"
  /\ hash' = (IF hash = None THEN 0 ELSE hash) + Delta(Offset)
  /\ step' = "add"
  /\ UNCHANGED <<next, committed, seen, events, pipeline, readers, history, budget>>

\* The buffer is changed under the mutex.
Add ==
  /\ step = "add"
  /\ buffer' = buffer + Delta(Offset)
  /\ pending' = pending + 1
  /\ counted' = [counted EXCEPT ![Offset] = @ + 1]
  /\ IF pending' >= FlushAfter THEN step' = "flush" /\ UNCHANGED next ELSE EndRecord
  /\ UNCHANGED <<committed, seen, events, hash, flight, pg, readers, lost, corrected, budget>>

\* A call of HandleEvent failed: the record is skipped, whether or not the call
\* took effect.
SkipRecord ==
  /\ Fail
  /\ \/ step = "poll" /\ next < Len(log) /\ seen' \in {seen, seen \cup {Offset}} /\ UNCHANGED hash
     \/ step = "incr" /\ UNCHANGED <<seen, hash>>
     \/ step = "add" /\ UNCHANGED <<seen, hash>>
  /\ EndRecord
  /\ UNCHANGED <<committed, events, pipeline, readers, history>>

AutocommitAhead == committed' = next + (IF step = "poll" THEN 0 ELSE 1)  \* mutant: mark at poll
MarkHandled == committed' = next

\* kgo commits, at some moment, the offset of what was handled.
Autocommit ==
  /\ committed # next
  /\ MarkHandled
  /\ UNCHANGED <<next, step, seen, events, hash, pipeline, readers, history, budget>>

\* The partition is revoked and assigned again, to this worker.
Rebalance ==
  /\ Fail
  /\ step = "poll"
  /\ next' = committed
  /\ UNCHANGED <<committed, step, seen, events, hash, pipeline, readers, history>>

-----------------------------------------------------------------------------
(* Flushing.                                                                *)

SeveralPending == pending > 1   \* mutant: off by one
HasPending == pending > 0

KeepBuffer == UNCHANGED buffer /\ pending' = 0   \* mutant: deltas not replaced
EmptyBuffer == buffer' = 0 /\ pending' = 0

\* The first half of Flush, under the mutex.
Swap(f) ==
  /\ HasPending
  /\ flight' = [flight EXCEPT ![f] = buffer]
  /\ EmptyBuffer
  /\ UNCHANGED <<pg, events, hash, readers, history, budget, next, committed, seen>>

ConsumerSwaps == step = "flush" /\ Swap("consumer") /\ step' = "send"
TickerSwaps == flight["ticker"] = None /\ Swap("ticker") /\ UNCHANGED step

\* The ticker took the buffer first: nothing to flush.
ConsumerFindsNothing ==
  /\ step = "flush" /\ pending = 0
  /\ EndRecord
  /\ UNCHANGED <<committed, seen, events, hash, pipeline, readers, history, budget>>

Landed(f) == flight' = [flight EXCEPT ![f] = None]
Returned(f) == IF f = "consumer" THEN EndRecord ELSE UNCHANGED <<next, step>>

\* SendBatch: the UPDATEs commit.
Write(f) ==
  /\ flight[f] # None
  /\ pg' = pg + flight[f]
  /\ Landed(f)
  /\ Returned(f)
  /\ UNCHANGED <<committed, seen, events, hash, buffer, pending, readers, history, budget>>

\* They fail: the error is dropped or the record skipped, the deltas are gone.
WriteFails(f) ==
  /\ flight[f] # None
  /\ Fail
  /\ lost' = lost + flight[f]
  /\ Landed(f)
  /\ Returned(f)
  /\ UNCHANGED <<committed, seen, events, hash, buffer, pending, pg, readers, counted, corrected>>

Volatile == buffer + (IF flight["consumer"] = None THEN 0 ELSE flight["consumer"])
                   + (IF flight["ticker"] = None THEN 0 ELSE flight["ticker"])

\* The worker dies and restarts at the committed offset.
Crash ==
  /\ Fail
  /\ lost' = lost + Volatile
  /\ buffer' = 0 /\ pending' = 0 /\ flight' = [f \in Flushers |-> None]
  /\ next' = committed /\ step' = "poll"
  /\ UNCHANGED <<committed, seen, events, hash, pg, readers, counted, corrected>>

-----------------------------------------------------------------------------
(* The hash: reads, expiry, and the reconcile job.                          *)

\* Read misses the hash and reads the row; the fill comes later.
ReadMiss ==
  /\ hash = None /\ reading = None
  /\ reading' = pg
  /\ UNCHANGED <<events, consumer, hash, pipeline, fixing, history, budget>>

ReadFill ==
  /\ reading # None
  /\ hash' = reading /\ reading' = None
  /\ UNCHANGED <<events, consumer, pipeline, fixing, history, budget>>

\* 24 h without an event or a fill.
HashExpires ==
  /\ hash # None
  /\ hash' = None
  /\ UNCHANGED <<events, consumer, pipeline, readers, history, budget>>

\* The UPDATE of Reconcile: tweets without likes are not in its truth.
Reconcile ==
  /\ reconciles < MaxReconciles /\ fixing = None
  /\ likes # {} /\ pg # Cardinality(likes)
  /\ pg' = Cardinality(likes)
  /\ corrected' = corrected + pg' - pg
  /\ fixing' = Cardinality(likes)
  /\ reconciles' = reconciles + 1
  /\ UNCHANGED <<events, consumer, hash, buffer, pending, flight, reading, counted, lost, failures>>

ReconcileHash ==
  /\ fixing # None
  /\ hash' = fixing /\ fixing' = None
  /\ UNCHANGED <<events, consumer, pipeline, reading, history, budget>>

-----------------------------------------------------------------------------
Consume == Dedupe \/ SkipSeen \/ Increment \/ Add \/ ConsumerSwaps \/ ConsumerFindsNothing
           \/ Write("consumer")
Ticker == TickerSwaps \/ Write("ticker")
Fault == SkipRecord \/ Rebalance \/ Crash \/ \E f \in Flushers : WriteFails(f)

Next ==
  \/ \E u \in Users : Like(u) \/ Unlike(u)
  \/ Consume \/ Ticker \/ Autocommit \/ Fault
  \/ ReadMiss \/ ReadFill \/ HashExpires \/ Reconcile \/ ReconcileHash

Spec == Init /\ [][Next]_vars

\* Go schedules the two goroutines of the worker, Postgres answers.
FairSpec == Spec /\ WF_vars(Consume) /\ WF_vars(Ticker)

-----------------------------------------------------------------------------
\* The ledger: what is in Postgres, in the buffer and in flushes, plus what
\* failures took, is what entered the buffer, each event once in spite of
\* redelivery, plus what reconciling added.  Swapping the buffer out while the
\* other goroutine adds or flushes neither drops nor doubles a delta.
LedgerBalances ==
  pg + Volatile + lost = Changes({ i \in Offsets : counted[i] > 0 }) + corrected

\* A redelivered event is not counted again ("replayed events ignored"), and one below
\* the committed offset, which nobody delivers again, was counted unless a call failed.
CountedOnce ==
  \A i \in Offsets : /\ counted[i] <= 1
                      /\ failures = 0 /\ i <= committed => counted[i] = 1

\* likes_count settles at the number of likes when nothing fails and no reconcile
\* adds deltas twice that are still on their way.
CountSettles ==
  [](failures = 0 /\ reconciles = 0) => <>[](pg = Cardinality(likes))

Quiet ==
  /\ failures = 0 /\ reconciles = 0
  /\ next = Len(log) /\ step = "poll"
  /\ pending = 0 /\ flight = [f \in Flushers |-> None]
  /\ reading = None

\* What readers are shown is current once everything was handled and written:
\* counters are "Eventual, +-seconds" (ARCHITECTURE.md, consistency model).
HotCountSettles == Quiet => hash \in {None, Cardinality(likes)}

=============================================================================
