--------------------------- MODULE CountersProofs ---------------------------
(***************************************************************************)
(* The ledger of the like counter balances and each event enters it once,  *)
(* for any users, events, buffer size, failures and reconciles.  That an   *)
(* event which is under way has not entered yet is what carries the        *)
(* argument: it joins the sum exactly when the buffer takes its delta.     *)
(***************************************************************************)
EXTENDS Counters, FiniteSetTheorems, TLAPS

Entered == { i \in Offsets : counted[i] > 0 }

\* A buffer that is full is being flushed.
BufferBound == step # "flush" => pending < FlushAfter

\* An event enters the buffer at most once, after its key was set.
EnteredSeen ==
  /\ \A i \in 1..MaxEvents : counted[i] <= 1 /\ (counted[i] = 1 => i \in seen)
  /\ step \in {"incr", "add"} => Offset \in seen /\ counted[Offset] = 0

\* As long as nothing failed, what was handled is what was seen and what entered.
NothingSkipped ==
  failures = 0 =>
    /\ seen = 1..(IF step = "poll" THEN next ELSE Offset)
    /\ \A i \in 1..(IF step \in {"flush", "send"} THEN Offset ELSE next) : counted[i] = 1

Shape == TypeOK /\ IsFiniteSet(likes) /\ BufferBound
IInv == Shape /\ EnteredSeen /\ NothingSkipped /\ LedgerBalances

-----------------------------------------------------------------------------
(* Sums of deltas.                                                          *)

LEMMA OffsetsFinite ==
  ASSUME TypeOK, NEW S \in SUBSET Offsets
  PROVE  IsFiniteSet(S) /\ Changes(S) \in Int
<1>1. Len(log) \in Nat /\ IsFiniteSet(Offsets)
  BY FS_Interval DEF TypeOK, Offsets
<1>2. \A T \in SUBSET Offsets : IsFiniteSet(T) /\ Cardinality(T) \in Nat
  BY <1>1, FS_Subset, FS_CardinalityType
<1>3. { i \in S : log[i] = "liked" } \in SUBSET Offsets
      /\ { i \in S : log[i] = "unliked" } \in SUBSET Offsets
  OBVIOUS
<1> QED BY <1>2, <1>3 DEF Changes

\* One more event changes the sum by its delta.
LEMMA OneMore ==
  ASSUME TypeOK, NEW S \in SUBSET Offsets, NEW i \in Offsets, i \notin S
  PROVE  Changes(S \cup {i}) = Changes(S) + Delta(i)
<1> DEFINE Liked(T) == { j \in T : log[j] = "liked" }
           Unliked(T) == { j \in T : log[j] = "unliked" }
<1>1. IsFiniteSet(Liked(S)) /\ IsFiniteSet(Unliked(S))
  BY OffsetsFinite
<1>a. /\ Changes(S) = Cardinality(Liked(S)) - Cardinality(Unliked(S))
      /\ Changes(S \cup {i}) = Cardinality(Liked(S \cup {i})) - Cardinality(Unliked(S \cup {i}))
  BY DEF Changes
<1>2. log[i] \in {"liked", "unliked"}
  BY DEF TypeOK, Offsets
<1>3. Cardinality(Liked(S)) \in Nat /\ Cardinality(Unliked(S)) \in Nat
  BY <1>1, FS_CardinalityType
<1>4. CASE log[i] = "liked"
  <2>1. Liked(S \cup {i}) = Liked(S) \cup {i} /\ Unliked(S \cup {i}) = Unliked(S)
    BY <1>4
  <2>2. Cardinality(Liked(S) \cup {i}) = Cardinality(Liked(S)) + 1
    BY <1>1, FS_AddElement
  <2> HIDE DEF Liked, Unliked
  <2>3. Delta(i) = 1
    BY <1>4 DEF Delta
  <2>4. Cardinality(Liked(S \cup {i})) = Cardinality(Liked(S)) + 1
        /\ Cardinality(Unliked(S \cup {i})) = Cardinality(Unliked(S))
    BY <2>1, <2>2
  <2> QED BY <1>3, <1>a, <2>3, <2>4
<1>5. CASE log[i] = "unliked"
  <2>1. Liked(S \cup {i}) = Liked(S) /\ Unliked(S \cup {i}) = Unliked(S) \cup {i}
    BY <1>5
  <2>2. Cardinality(Unliked(S) \cup {i}) = Cardinality(Unliked(S)) + 1
    BY <1>1, FS_AddElement
  <2> HIDE DEF Liked, Unliked
  <2>3. Delta(i) = -1
    BY <1>5 DEF Delta
  <2>4. Cardinality(Unliked(S \cup {i})) = Cardinality(Unliked(S)) + 1
        /\ Cardinality(Liked(S \cup {i})) = Cardinality(Liked(S))
    BY <2>1, <2>2
  <2> QED BY <1>3, <1>a, <2>3, <2>4
<1> QED BY <1>2, <1>4, <1>5

LEMMA SumTypes ==
  ASSUME TypeOK
  PROVE  Changes(Entered) \in Int /\ Volatile \in Int /\ pg \in Int /\ corrected \in Int
         /\ lost \in Int
<1>1. Changes(Entered) \in Int
  BY OffsetsFinite DEF Entered
<1>2. Volatile \in Int
  BY DEF TypeOK, Volatile, Flushers
<1> QED BY <1>1, <1>2 DEF TypeOK

-----------------------------------------------------------------------------
LEMMA InitInv == Init => IInv
<1> SUFFICES ASSUME Init PROVE IInv
  OBVIOUS
<1> USE BoundAssumption, FlushAssumption, NoneAssumption DEF Init
<1>1. log = << >> /\ Len(log) = 0 /\ Offsets = {}
  BY DEF Offsets
<1>2. TypeOK
  BY <1>1 DEF TypeOK, Flushers
<1>3. IsFiniteSet(likes)
  BY FS_EmptySet
<1>4. BufferBound /\ EnteredSeen /\ NothingSkipped
  BY <1>1 DEF BufferBound, EnteredSeen, NothingSkipped
<1>5. Changes(Entered) = 0 /\ Volatile = 0
  <2>1. Entered = {}
    BY <1>1 DEF Entered
  <2>2. Changes({}) = 0
    <3>1. { i \in {} : log[i] = "liked" } = {} /\ { i \in {} : log[i] = "unliked" } = {}
      OBVIOUS
    <3> QED BY <3>1, FS_EmptySet DEF Changes
  <2> QED BY <2>1, <2>2 DEF Volatile, Flushers
<1>6. LedgerBalances
  BY <1>5 DEF LedgerBalances, Entered
<1> QED BY <1>2, <1>3, <1>4, <1>6 DEF IInv, Shape

-----------------------------------------------------------------------------
(* The API.                                                                 *)

LEMMA EmitKeeps ==
  ASSUME IInv, NEW e \in {"liked", "unliked"}, Emit(e), likes' \in SUBSET Users,
         IsFiniteSet(likes'),
         UNCHANGED <<consumer, hash, pipeline, readers, history, budget>>
  PROVE  IInv'
<1> USE DEF IInv, Shape, consumer, pipeline, readers, history, budget
<1>1. /\ log' \in Seq({"liked", "unliked"}) /\ Len(log') = Len(log) + 1 /\ Len(log') <= MaxEvents
      /\ Len(log) \in Nat /\ \A i \in 1..Len(log) : log'[i] = log[i]
  BY BoundAssumption DEF Emit, TypeOK
<1>2. Offsets' = Offsets \cup {Len(log) + 1} /\ Offsets \subseteq Offsets'
  BY <1>1 DEF Offsets
<1>3. TypeOK'
  BY <1>1, <1>2 DEF TypeOK
<1>4. BufferBound' /\ EnteredSeen' /\ NothingSkipped'
  BY DEF BufferBound, EnteredSeen, NothingSkipped, Offset
<1>5. Entered' = Entered
  BY <1>1, <1>2 DEF Entered, EnteredSeen, TypeOK, Offsets
<1>6. Changes(Entered)' = Changes(Entered)
  <2>1. \A i \in Entered : log'[i] = log[i]
    BY <1>1 DEF Entered, Offsets
  <2>2. { i \in Entered : log[i] = "liked" } = { i \in Entered : log'[i] = "liked" }
        /\ { i \in Entered : log[i] = "unliked" } = { i \in Entered : log'[i] = "unliked" }
    BY <2>1
  <2> QED BY <1>5, <2>2 DEF Changes
<1>7. Volatile' = Volatile
  BY DEF Volatile
<1> QED BY <1>3, <1>4, <1>6, <1>7 DEF LedgerBalances, Entered

LEMMA ApiKeeps ==
  ASSUME IInv, NEW u \in Users, Like(u) \/ Unlike(u)
  PROVE  IInv'
<1>1. CASE Like(u)
  <2>1. IsFiniteSet(likes \cup {u})
    BY FS_AddElement DEF IInv, Shape
  <2> QED BY <1>1, <2>1, EmitKeeps DEF Like, IInv, Shape, TypeOK
<1>2. CASE Unlike(u)
  <2>1. IsFiniteSet(likes \ {u})
    BY FS_RemoveElement DEF IInv, Shape
  <2> QED BY <1>2, <2>1, EmitKeeps DEF Unlike, IInv, Shape, TypeOK
<1> QED BY <1>1, <1>2

-----------------------------------------------------------------------------
(* Steps that leave the log and the entries alone keep the sum.             *)

LEMMA SameSum ==
  ASSUME UNCHANGED <<log, counted>>
  PROVE  Changes(Entered)' = Changes(Entered) /\ Entered' = Entered /\ Offsets' = Offsets
BY DEF Changes, Entered, Offsets

\* What the readers and the group's offset do is of no concern to the ledger.
LEMMA AsideKeeps ==
  ASSUME IInv, Autocommit \/ ReadMiss \/ ReadFill \/ HashExpires \/ ReconcileHash \/ UNCHANGED vars
  PROVE  IInv'
<1> USE DEF IInv, Shape, events, consumer, pipeline, readers, history, budget, vars
<1>1. /\ UNCHANGED <<likes, log, next, step, seen, pipeline, history, budget>>
      /\ committed' \in {committed, next}
  BY DEF Autocommit, MarkHandled, ReadMiss, ReadFill, HashExpires, ReconcileHash
<1>2. TypeOK'
  <2>1. CASE Autocommit
    BY <2>1 DEF Autocommit, MarkHandled, TypeOK, Flushers, Offsets
  <2>2. CASE UNCHANGED <<next, committed, step>>
    <3>1. hash' \in Int \cup {None} /\ reading' \in Int \cup {None} /\ fixing' \in Nat \cup {None}
      BY <2>2 DEF Autocommit, MarkHandled, ReadMiss, ReadFill, HashExpires, ReconcileHash, TypeOK
    <3> QED BY <1>1, <2>2, <3>1 DEF TypeOK, Offsets
  <2> QED BY <2>1, <2>2 DEF ReadMiss, ReadFill, HashExpires, ReconcileHash
<1>3. BufferBound' /\ EnteredSeen' /\ NothingSkipped' /\ Volatile' = Volatile
  BY <1>1 DEF BufferBound, EnteredSeen, NothingSkipped, Offset, Volatile
<1>4. LedgerBalances'
  BY <1>1, <1>3, SameSum DEF LedgerBalances, Entered
<1> QED BY <1>1, <1>2, <1>3, <1>4

-----------------------------------------------------------------------------
(* The consumer.                                                            *)

LEMMA BeforeBufferKeeps ==
  ASSUME IInv, Dedupe \/ SkipSeen \/ Increment \/ ConsumerFindsNothing
  PROVE  IInv'
<1> USE DEF IInv, Shape, events, pipeline, readers, history, budget, Offset
<1>1. /\ UNCHANGED <<likes, log, committed, pipeline, readers, history, budget>>
      /\ next' \in {next, Offset} /\ next' \in 0..Len(log) /\ committed \in 0..next'
  <2>1. next \in Nat /\ Len(log) \in Nat /\ next < Len(log)
    BY DEF Dedupe, SkipSeen, Increment, ConsumerFindsNothing, TypeOK
  <2>2. committed \in 0..next
    BY DEF TypeOK
  <2>3. next' = next \/ next' = Offset
    BY DEF Dedupe, SkipSeen, Increment, ConsumerFindsNothing, EndRecord
  <2>4. UNCHANGED <<likes, log, committed, pipeline, readers, history, budget>>
    BY DEF Dedupe, SkipSeen, Increment, ConsumerFindsNothing
  <2> QED BY <2>1, <2>2, <2>3, <2>4
<1>2. TypeOK'
  <2>1. /\ step' \in {"poll", "incr", "add"} /\ (step' # "poll" => next' < Len(log))
        /\ flight["consumer"] = None
    BY <1>1 DEF Dedupe, SkipSeen, Increment, ConsumerFindsNothing, EndRecord, TypeOK
  <2>2. seen' \subseteq Offsets
    <3>1. seen \subseteq Offsets /\ (step = "poll" /\ next < Len(log) => Offset \in Offsets)
      BY DEF TypeOK, Offsets
    <3>2. seen' = seen \/ (step = "poll" /\ next < Len(log) /\ seen' = seen \cup {Offset})
      BY DEF Dedupe, SkipSeen, Increment, ConsumerFindsNothing
    <3> QED BY <3>1, <3>2
  <2>3. hash' \in Int \cup {None}
    BY DEF Dedupe, SkipSeen, Increment, ConsumerFindsNothing, TypeOK, Delta
  <2> QED BY <1>1, <2>1, <2>2, <2>3 DEF TypeOK, Offsets
<1>3. BufferBound'
  BY FlushAssumption DEF BufferBound, Dedupe, SkipSeen, Increment, ConsumerFindsNothing, EndRecord, TypeOK
<1>4. EnteredSeen'
  <2>1. CASE Dedupe
    <3>1. Offset \in 1..MaxEvents /\ Offset \notin seen
      BY <2>1, BoundAssumption DEF Dedupe, First, TypeOK
    <3> QED BY <1>1, <2>1, <3>1 DEF Dedupe, EnteredSeen, TypeOK
  <2>2. CASE SkipSeen
    BY <1>1, <2>2 DEF SkipSeen, EndRecord, EnteredSeen
  <2>3. CASE Increment
    BY <1>1, <2>3 DEF Increment, EnteredSeen
  <2>4. CASE ConsumerFindsNothing
    BY <1>1, <2>4 DEF ConsumerFindsNothing, EndRecord, EnteredSeen
  <2> QED BY <2>1, <2>2, <2>3, <2>4
<1>5. NothingSkipped'
  <2>1. CASE Dedupe
    <3> SUFFICES ASSUME failures = 0 PROVE seen' = 1..Offset /\ \A i \in 1..next : counted[i] = 1
      BY <1>1, <2>1 DEF Dedupe, NothingSkipped
    <3>1. seen = 1..next /\ \A i \in 1..next : counted[i] = 1
      BY <2>1 DEF Dedupe, NothingSkipped
    <3> QED BY <2>1, <3>1 DEF Dedupe, TypeOK
  <2>2. CASE SkipSeen
    <3>1. failures # 0
      BY <2>2 DEF SkipSeen, First, NothingSkipped, TypeOK
    <3> QED BY <1>1, <3>1 DEF NothingSkipped
  <2>3. CASE Increment
    BY <1>1, <2>3 DEF Increment, NothingSkipped
  <2>4. CASE ConsumerFindsNothing
    BY <1>1, <2>4 DEF ConsumerFindsNothing, EndRecord, NothingSkipped
  <2> QED BY <2>1, <2>2, <2>3, <2>4
<1>6. LedgerBalances'
  BY <1>1, SameSum DEF LedgerBalances, Entered, Volatile
<1> QED BY <1>1, <1>2, <1>3, <1>4, <1>5, <1>6

\* The step the ledger is about: the event joins the sum as its delta joins the buffer.
LEMMA AddKeeps ==
  ASSUME IInv, Add
  PROVE  IInv'
<1> USE DEF IInv, Shape, events, readers, budget, Offset
<1>1. /\ step = "add" /\ next < Len(log) /\ next \in Nat /\ Offset \in Offsets /\ Offset \in 1..MaxEvents
      /\ Len(log) \in Nat /\ counted[Offset] = 0 /\ Offset \in seen
  BY BoundAssumption DEF Add, TypeOK, Offsets, EnteredSeen
<1>2. /\ counted' = [counted EXCEPT ![Offset] = 1] /\ buffer' = buffer + Delta(Offset)
      /\ UNCHANGED <<likes, log, committed, seen, hash, flight, pg, reading, fixing, lost, corrected,
                     failures, reconciles>>
  BY <1>1 DEF Add, TypeOK
<1>3. /\ pending' = pending + 1 /\ pending < FlushAfter
      /\ \/ step' = "flush" /\ next' = next
         \/ step' = "poll" /\ next' = Offset /\ pending' < FlushAfter
  BY FlushAssumption, <1>1 DEF Add, EndRecord, BufferBound, TypeOK
<1>4. TypeOK'
  <2>1. Delta(Offset) \in Int
    BY DEF Delta
  <2>2. next' \in 0..Len(log) /\ committed \in 0..next' /\ (step' # "poll" => next' < Len(log))
        /\ step' \in {"flush", "poll"} /\ flight["consumer"] = None
    BY <1>1, <1>3 DEF TypeOK
  <2>3. pending' \in 0..FlushAfter
    BY <1>3, FlushAssumption DEF TypeOK
  <2>4. counted' \in [1..MaxEvents -> Nat]
    BY <1>1, <1>2 DEF TypeOK
  <2> QED BY <1>2, <2>1, <2>2, <2>3, <2>4 DEF TypeOK, Offsets
<1>5. BufferBound'
  BY <1>3 DEF BufferBound
<1>6. EnteredSeen'
  BY <1>1, <1>2, <1>3 DEF EnteredSeen, TypeOK
<1>7. NothingSkipped'
  <2> SUFFICES ASSUME failures = 0
               PROVE  seen' = 1..Offset /\ \A i \in 1..Offset : counted'[i] = 1
    BY <1>2, <1>3 DEF NothingSkipped
  <2>1. seen = 1..Offset /\ \A i \in 1..next : counted[i] = 1
    BY <1>1 DEF NothingSkipped
  <2>2. \A i \in 1..Offset : i \in 1..MaxEvents /\ (i = Offset \/ i \in 1..next)
    BY <1>1, BoundAssumption
  <2> QED BY <1>1, <1>2, <2>1, <2>2 DEF TypeOK
<1>8. LedgerBalances'
  <2>1. Entered' = Entered \cup {Offset} /\ Offset \notin Entered /\ Entered \subseteq Offsets
    BY <1>1, <1>2, BoundAssumption DEF Entered, Offsets, TypeOK
  <2>2. Changes(Entered)' = Changes(Entered \cup {Offset})
    BY <1>2, <2>1 DEF Changes
  <2>3. Changes(Entered \cup {Offset}) = Changes(Entered) + Delta(Offset)
    BY <1>1, <2>1, OneMore
  <2>4. Volatile' = Volatile + Delta(Offset)
    <3>1. Delta(Offset) \in Int /\ buffer \in Int /\ flight \in [Flushers -> Int \cup {None}]
      BY DEF Delta, TypeOK
    <3> QED BY <1>2, <3>1 DEF Volatile, Flushers
  <2>5. Delta(Offset) \in Int
    BY DEF Delta
  <2> QED BY <1>2, <2>2, <2>3, <2>4, <2>5, SumTypes DEF LedgerBalances, Entered
<1> QED BY <1>2, <1>4, <1>5, <1>6, <1>7, <1>8

LEMMA SkipKeeps ==
  ASSUME IInv, SkipRecord \/ Rebalance
  PROVE  IInv'
<1> USE DEF IInv, Shape, events, pipeline, readers, history, budget, Offset
<1>1. /\ UNCHANGED <<likes, log, committed, hash, pipeline, readers, history, reconciles>>
      /\ step \in {"poll", "incr", "add"} /\ step' = "poll" /\ failures' = failures + 1
      /\ failures < MaxFailures /\ next' \in committed..Len(log)
      /\ seen' \subseteq Offsets /\ seen \subseteq seen'
  <2>1. /\ UNCHANGED <<likes, log, committed, hash, pipeline, readers, history, reconciles>>
        /\ step \in {"poll", "incr", "add"} /\ step' = "poll" /\ failures' = failures + 1
        /\ failures < MaxFailures
    BY DEF SkipRecord, Rebalance, EndRecord, Fail
  <2>2. next' \in committed..Len(log)
    <3>1. next \in Nat /\ Len(log) \in Nat /\ committed \in 0..next /\ next <= Len(log)
      BY DEF TypeOK
    <3>2. CASE SkipRecord
      <4>1. next' = next + 1 /\ next < Len(log)
        BY <3>2 DEF SkipRecord, EndRecord, TypeOK
      <4> QED BY <3>1, <4>1
    <3>3. CASE Rebalance
      BY <3>1, <3>3 DEF Rebalance
    <3> QED BY <3>2, <3>3
  <2>3. seen' \subseteq Offsets /\ seen \subseteq seen'
    <3>1. seen \subseteq Offsets /\ (next < Len(log) => Offset \in Offsets)
      BY DEF TypeOK, Offsets
    <3>2. seen' = seen \/ (next < Len(log) /\ seen' = seen \cup {Offset})
      BY DEF SkipRecord, Rebalance
    <3> QED BY <3>1, <3>2
  <2> QED BY <2>1, <2>2, <2>3
<1>2. TypeOK'
  <2>1. next' \in 0..Len(log) /\ committed \in 0..next' /\ flight["consumer"] = None
        /\ failures' \in 0..MaxFailures
    BY <1>1, BoundAssumption DEF TypeOK
  <2> QED BY <1>1, <2>1 DEF TypeOK, Offsets
<1>3. failures' # 0
  BY <1>1 DEF TypeOK
<1>4. BufferBound' /\ EnteredSeen' /\ NothingSkipped'
  BY <1>1, <1>3 DEF BufferBound, EnteredSeen, NothingSkipped
<1>5. LedgerBalances'
  BY <1>1, SameSum DEF LedgerBalances, Entered, Volatile
<1> QED BY <1>1, <1>2, <1>4, <1>5

-----------------------------------------------------------------------------
(* Flushing moves deltas between the terms of the ledger.                   *)

LEMMA SwapKeeps ==
  ASSUME IInv, ConsumerSwaps \/ TickerSwaps
  PROVE  IInv'
<1> USE DEF IInv, Shape, events, readers, history, budget, Offset
<1>1. /\ UNCHANGED <<likes, log, next, committed, seen, hash, pg, readers, history, budget>>
      /\ buffer' = 0 /\ pending' = 0
  BY DEF ConsumerSwaps, TickerSwaps, Swap, EmptyBuffer
<1>2. flight \in [Flushers -> Int \cup {None}] /\ buffer \in Int
  BY DEF TypeOK
<1>3. CASE ConsumerSwaps
  <2>1. /\ step = "flush" /\ step' = "send" /\ flight["consumer"] = None
        /\ flight' = [flight EXCEPT !["consumer"] = buffer]
    BY <1>3 DEF ConsumerSwaps, Swap, TypeOK
  <2>2. TypeOK'
    BY <1>1, <1>2, <2>1, FlushAssumption, NoneAssumption DEF TypeOK, Flushers, Offsets
  <2>3. BufferBound' /\ EnteredSeen' /\ NothingSkipped'
    BY <1>1, <2>1, FlushAssumption DEF BufferBound, EnteredSeen, NothingSkipped
  <2>4. Volatile' = Volatile
    BY <1>1, <1>2, <2>1, NoneAssumption DEF Volatile, Flushers
  <2> QED BY <1>1, <2>2, <2>3, <2>4, SameSum DEF LedgerBalances, Entered
<1>4. CASE TickerSwaps
  <2>1. /\ step' = step /\ flight["ticker"] = None
        /\ flight' = [flight EXCEPT !["ticker"] = buffer]
    BY <1>4 DEF TickerSwaps, Swap
  <2>2. TypeOK'
    BY <1>1, <1>2, <2>1, FlushAssumption, NoneAssumption DEF TypeOK, Flushers, Offsets
  <2>3. BufferBound' /\ EnteredSeen' /\ NothingSkipped'
    BY <1>1, <2>1, FlushAssumption DEF BufferBound, EnteredSeen, NothingSkipped
  <2>4. Volatile' = Volatile
    BY <1>1, <1>2, <2>1, NoneAssumption DEF Volatile, Flushers
  <2> QED BY <1>1, <2>2, <2>3, <2>4, SameSum DEF LedgerBalances, Entered
<1> QED BY <1>3, <1>4

LEMMA LandKeeps ==
  ASSUME IInv, NEW f \in Flushers, Write(f) \/ WriteFails(f)
  PROVE  IInv'
<1> USE DEF IInv, Shape, events, readers, Offset
<1>1. /\ UNCHANGED <<likes, log, committed, seen, hash, buffer, pending, readers, counted, corrected,
                     reconciles>>
      /\ flight[f] # None /\ flight' = [flight EXCEPT ![f] = None]
      /\ failures' \in 0..MaxFailures /\ (failures' = 0 => failures = 0)
  <2>1. failures \in 0..MaxFailures
    BY DEF TypeOK
  <2>2. CASE Write(f)
    BY <2>1, <2>2 DEF Write, Landed, history, budget
  <2>3. CASE WriteFails(f)
    <3>1. failures' = failures + 1 /\ failures < MaxFailures /\ UNCHANGED reconciles
      BY <2>3 DEF WriteFails, Fail
    <3>2. failures' \in 0..MaxFailures /\ failures' # 0
      BY <2>1, <3>1, BoundAssumption
    <3> QED BY <2>3, <3>1, <3>2 DEF WriteFails, Landed
  <2> QED BY <2>2, <2>3
<1>2. /\ flight \in [Flushers -> Int \cup {None}] /\ flight[f] \in Int
      /\ pg' \in Int /\ lost' \in Int /\ pg' + lost' = pg + lost + flight[f]
  <2>1. flight \in [Flushers -> Int \cup {None}] /\ flight[f] \in Int /\ pg \in Int /\ lost \in Int
    BY <1>1 DEF TypeOK
  <2> QED BY <2>1 DEF Write, WriteFails, history
<1>3. Volatile' = Volatile - flight[f]
  <2>1. buffer \in Int
    BY DEF TypeOK
  <2>2. f = "consumer" \/ f = "ticker"
    BY DEF Flushers
  <2> QED BY <1>1, <1>2, <2>1, <2>2 DEF Volatile, Flushers
<1>4. LedgerBalances'
  <2>1. Volatile \in Int /\ pg \in Int /\ lost \in Int
    BY SumTypes
  <2> QED BY <1>1, <1>2, <1>3, <2>1, SameSum DEF LedgerBalances, Entered
<1>5. CASE f = "consumer"
  <2>1. step = "send" /\ step' = "poll" /\ next' = Offset /\ next < Len(log)
    BY <1>1, <1>5 DEF Write, WriteFails, Returned, EndRecord, TypeOK
  <2>2. TypeOK'
    <3>1. next' \in 0..Len(log) /\ committed \in 0..next'
      BY <2>1 DEF TypeOK
    <3> QED BY <1>1, <1>2, <1>5, <2>1, <3>1 DEF TypeOK, Flushers, Offsets
  <2>3. BufferBound' /\ EnteredSeen' /\ NothingSkipped'
    BY <1>1, <2>1 DEF BufferBound, EnteredSeen, NothingSkipped
  <2> QED BY <1>1, <1>4, <2>2, <2>3
<1>6. CASE f = "ticker"
  <2>1. UNCHANGED <<next, step>>
    BY <1>6 DEF Write, WriteFails, Returned
  <2>2. TypeOK'
    BY <1>1, <1>2, <1>6, <2>1 DEF TypeOK, Flushers, Offsets
  <2>3. BufferBound' /\ EnteredSeen' /\ NothingSkipped'
    BY <1>1, <2>1 DEF BufferBound, EnteredSeen, NothingSkipped
  <2> QED BY <1>1, <1>4, <2>2, <2>3
<1> QED BY <1>5, <1>6 DEF Flushers

LEMMA CrashKeeps ==
  ASSUME IInv, Crash
  PROVE  IInv'
<1> USE DEF IInv, Shape, events, readers, Offset
<1>1. /\ UNCHANGED <<likes, log, committed, seen, hash, pg, readers, counted, corrected, reconciles>>
      /\ lost' = lost + Volatile /\ buffer' = 0 /\ pending' = 0
      /\ flight' = [f \in Flushers |-> None] /\ next' = committed /\ step' = "poll"
      /\ failures' = failures + 1 /\ failures < MaxFailures
  BY DEF Crash, Fail
<1>2. TypeOK'
  <2>1. lost' \in Int /\ 0 \in 0..FlushAfter /\ failures' \in 0..MaxFailures
    BY <1>1, SumTypes, FlushAssumption, BoundAssumption DEF TypeOK
  <2>2. flight' \in [Flushers -> Int \cup {None}] /\ flight'["consumer"] = None
    BY <1>1 DEF Flushers
  <2>3. next' \in 0..Len(log) /\ committed \in 0..next'
    BY <1>1 DEF TypeOK
  <2> QED BY <1>1, <2>1, <2>2, <2>3 DEF TypeOK, Offsets
<1>3. BufferBound' /\ EnteredSeen' /\ NothingSkipped'
  BY <1>1, FlushAssumption DEF BufferBound, EnteredSeen, NothingSkipped, TypeOK
<1>4. Volatile' = 0
  BY <1>1 DEF Volatile, Flushers
<1>5. LedgerBalances'
  <2>1. Changes(Entered)' = Changes(Entered)
    BY <1>1, SameSum
  <2>2. pg + Volatile + lost = Changes(Entered) + corrected
    BY DEF LedgerBalances, Entered
  <2>3. pg' + Volatile' + lost' = Changes(Entered)' + corrected'
    BY <1>1, <1>4, <2>1, <2>2, SumTypes
  <2> QED BY <2>3 DEF LedgerBalances, Entered
<1> QED BY <1>1, <1>2, <1>3, <1>5

LEMMA ReconcileKeeps ==
  ASSUME IInv, Reconcile
  PROVE  IInv'
<1> USE DEF IInv, Shape, events, consumer, Offset
<1>1. /\ UNCHANGED <<likes, log, consumer, hash, buffer, pending, flight, reading, counted, lost, failures>>
      /\ pg' = Cardinality(likes) /\ fixing' = Cardinality(likes)
      /\ corrected' = corrected + pg' - pg
      /\ reconciles' = reconciles + 1 /\ reconciles < MaxReconciles
  BY DEF Reconcile
<1>2. Cardinality(likes) \in Nat
  BY FS_CardinalityType
<1>3. TypeOK'
  BY <1>1, <1>2, BoundAssumption DEF TypeOK, Offsets
<1>4. BufferBound' /\ EnteredSeen' /\ NothingSkipped' /\ Volatile' = Volatile
  BY <1>1 DEF BufferBound, EnteredSeen, NothingSkipped, Volatile
<1>5. LedgerBalances'
  <2>1. Changes(Entered)' = Changes(Entered)
    BY <1>1, SameSum
  <2>2. pg + Volatile + lost = Changes(Entered) + corrected
    BY DEF LedgerBalances, Entered
  <2>3. pg' + Volatile' + lost' = Changes(Entered)' + corrected'
    <3>1. pg' \in Int /\ lost' = lost /\ Volatile' = Volatile /\ corrected' = corrected + pg' - pg
      BY <1>1, <1>2, <1>4
    <3> QED BY <3>1, <2>1, <2>2, SumTypes
  <2> QED BY <2>3 DEF LedgerBalances, Entered
<1> QED BY <1>1, <1>3, <1>4, <1>5

-----------------------------------------------------------------------------
LEMMA StepInv == IInv /\ [Next]_vars => IInv'
<1> SUFFICES ASSUME IInv, [Next]_vars PROVE IInv'
  OBVIOUS
<1>1. CASE \E u \in Users : Like(u) \/ Unlike(u)
  BY <1>1, ApiKeeps
<1>2. CASE Consume
  BY <1>2, BeforeBufferKeeps, AddKeeps, SwapKeeps, LandKeeps DEF Consume, Flushers
<1>3. CASE Ticker
  BY <1>3, SwapKeeps, LandKeeps DEF Ticker, Flushers
<1>4. CASE Fault
  BY <1>4, SkipKeeps, CrashKeeps, LandKeeps DEF Fault
<1>5. CASE Reconcile
  BY <1>5, ReconcileKeeps
<1>6. CASE Autocommit \/ ReadMiss \/ ReadFill \/ HashExpires \/ ReconcileHash \/ UNCHANGED vars
  BY <1>6, AsideKeeps
<1> QED BY <1>1, <1>2, <1>3, <1>4, <1>5, <1>6 DEF Next

LEMMA InductiveInv == Spec => []IInv
BY InitInv, StepInv, PTL DEF Spec

\* The variables keep their types: nobody commits past what was handled, and a flight of
\* the consumer is there exactly while it sends.
THEOREM Typing == Spec => []TypeOK
<1>1. IInv => TypeOK
  BY DEF IInv, Shape
<1> QED BY <1>1, InductiveInv, PTL

\* Postgres, the buffer, the flushes under way and what failures took add up to the events
\* that entered the buffer and the corrections of the reconcile job: two goroutines
\* swapping and writing neither drop nor double a delta.
THEOREM Balanced == Spec => []LedgerBalances
<1>1. IInv => LedgerBalances
  BY DEF IInv
<1> QED BY <1>1, InductiveInv, PTL

\* A replayed event does not enter twice, and without failures none below the committed
\* offset was left out.
THEOREM Once == Spec => []CountedOnce
<1>1. IInv => CountedOnce
  <2> SUFFICES ASSUME IInv, NEW i \in Offsets
               PROVE  counted[i] <= 1 /\ (failures = 0 /\ i <= committed => counted[i] = 1)
    BY DEF CountedOnce
  <2>1. i \in 1..MaxEvents /\ next \in Nat /\ committed \in 0..next
    BY BoundAssumption DEF IInv, Shape, TypeOK, Offsets
  <2>2. ASSUME failures = 0, i <= committed PROVE counted[i] = 1
    <3>1. i \in 1..next /\ i \in 1..Offset
      BY <2>1, <2>2 DEF Offset
    <3> QED BY <2>2, <3>1 DEF IInv, NothingSkipped
  <2> QED BY <2>1, <2>2 DEF IInv, EnteredSeen
<1> QED BY <1>1, InductiveInv, PTL

=============================================================================
