---------------------------- MODULE OutboxRelay ----------------------------
(***************************************************************************)
(* The transactional outbox of one physical shard: API transactions insert *)
(* event rows (pkg/outbox, internal/events), relay workers elected by a    *)
(* Postgres advisory lock publish them to Kafka and delete them later      *)
(* (internal/relay).                                                       *)
(*                                                                         *)
(* A relay process uses two kinds of Postgres sessions: the one its lock   *)
(* statements run on, and the one of the publish transaction.  Either can  *)
(* end while the process goes on.  The model keeps what the server holds   *)
(* (lock, depth, txLocks, deadLocks) apart from what the process believes  *)
(* (pc, batch, sent).                                                      *)
(*                                                                         *)
(* The advisory lock belongs to a Postgres session.  With Pool = {} every  *)
(* relay has a session of its own for it, as leader.go reads; it outlives  *)
(* a crashed process until the server notices.  The chart puts PgBouncer   *)
(* in transaction pooling between them (deploy/chart/README.md): then each *)
(* lock statement runs on any session of Pool, the lock is re-entrant in   *)
(* the session that has it, and it stays there when its client is gone.    *)
(* Which session runs a publish transaction is left out: the pool is taken *)
(* to have one free for each.                                              *)
(*                                                                         *)
(* Bounds: Ids is finite in a run; MaxErrors bounds failed calls and       *)
(* graceful restarts, MaxLosses bounds crashes and lost connections.       *)
(***************************************************************************)
EXTENDS Naturals, Sequences, FiniteSets

CONSTANTS
  Relays,      \* relay worker processes
  Ids,         \* snowflake event ids, allocated by the API nodes
  Keys,        \* Kafka record keys (aggregate ids)
  KeyOf,       \* the key each event is emitted under
  Skew,        \* how far, in ids, one API node's clock may run behind another's
  BatchSize,   \* Config.BatchSize
  DeleteBatch, \* Config.DeleteBatch
  MaxErrors,   \* bound on failed calls and graceful restarts
  MaxLosses,   \* bound on crashes and lost Postgres connections
  Pool,        \* server sessions of PgBouncer; empty when relays connect directly
  None,        \* nobody holds the advisory lock
  Dead         \* the lock is held by the session of a crashed process

ASSUME IdsAssumption == Ids \subseteq Nat /\ Skew \in Nat
ASSUME KeysAssumption == KeyOf \in [Ids -> Keys]
ASSUME BatchAssumption == BatchSize \in Nat \ {0} /\ DeleteBatch \in Nat \ {0}
ASSUME BoundAssumption == MaxErrors \in Nat /\ MaxLosses \in Nat
ASSUME LockAssumption ==
  /\ Pool \cap Relays = {}
  /\ None \notin Relays \cup Pool /\ Dead \notin Relays \cup Pool /\ None # Dead

VARIABLES
  row,       \* outbox row of each id, or what became of its transaction
  lock,      \* session that holds the advisory lock (a relay's own is named after it)
  depth,     \* how often that session has taken it
  pc,        \* where each relay process is
  batch,     \* ids a relay's publishBatch read
  sent,      \* ids of the batch the broker has accepted
  txLocks,   \* row locks held by a relay's open transaction
  deadLocks, \* row locks of transactions whose process crashed
  log,       \* per key, what the broker accepted, in partition order
  commits,   \* history: ids in the order their transactions committed
  errors,    \* failed calls and graceful restarts so far
  losses     \* crashes and lost connections so far

server == <<row, lock, depth, txLocks, deadLocks>>
process == <<pc, batch, sent>>
budget == <<errors, losses>>
vars == <<row, lock, depth, pc, batch, sent, txLocks, deadLocks, log, commits, errors, losses>>

RowStates == {"unused", "open", "rolledback", "unpublished", "published", "deleted"}
Stages == {"follower", "idle", "select", "publish", "mark", "delete"}

TypeOK ==
  /\ row \in [Ids -> RowStates]
  /\ lock \in Relays \cup Pool \cup {None, Dead}
  /\ depth \in Nat
  /\ lock = None <=> depth = 0
  /\ pc \in [Relays -> Stages]
  /\ batch \in [Relays -> SUBSET Ids]
  /\ sent \in [Relays -> SUBSET Ids]
  /\ \A r \in Relays : sent[r] \subseteq batch[r]
  /\ \A r \in Relays : pc[r] \notin {"publish", "mark"} => batch[r] = {}
  /\ txLocks \in [Relays -> SUBSET Ids]
  /\ deadLocks \in SUBSET Ids
  /\ log \in [Keys -> Seq(Ids)]
  /\ commits \in Seq(Ids)
  /\ errors \in 0..MaxErrors
  /\ losses \in 0..MaxLosses

Init ==
  /\ row = [e \in Ids |-> "unused"]
  /\ lock = None
  /\ depth = 0
  /\ pc = [r \in Relays |-> "follower"]
  /\ batch = [r \in Relays |-> {}]
  /\ sent = [r \in Relays |-> {}]
  /\ txLocks = [r \in Relays |-> {}]
  /\ deadLocks = {}
  /\ log = [k \in Keys |-> <<>>]
  /\ commits = <<>>
  /\ errors = 0
  /\ losses = 0

Committed == { e \in Ids : row[e] \in {"unpublished", "published", "deleted"} }
Delivered == { e \in Ids : \E i \in DOMAIN log[KeyOf[e]] : log[KeyOf[e]][i] = e }
Active == { r \in Relays : pc[r] # "follower" }

-----------------------------------------------------------------------------
(* API transactions: ids.Next, then outbox.Insert, then Commit.             *)

\* The id is taken before the commit; another node's later id may already exist.
Begin(e) ==
  /\ row[e] = "unused"
  /\ \A f \in Ids : row[f] # "unused" => f <= e + Skew
  /\ row' = [row EXCEPT ![e] = "open"]
  /\ UNCHANGED <<lock, depth, process, txLocks, deadLocks, log, commits, budget>>

CommitEvent(e) ==
  /\ row[e] = "open"
  /\ row' = [row EXCEPT ![e] = "unpublished"]
  /\ commits' = Append(commits, e)
  /\ UNCHANGED <<lock, depth, process, txLocks, deadLocks, log, budget>>

RollbackEvent(e) ==
  /\ row[e] = "open"
  /\ row' = [row EXCEPT ![e] = "rolledback"]
  /\ UNCHANGED <<lock, depth, process, txLocks, deadLocks, log, commits, budget>>

-----------------------------------------------------------------------------
(* The relay process.                                                       *)

Goto(r, stage) == pc' = [pc EXCEPT ![r] = stage]
Fail == errors < MaxErrors /\ errors' = errors + 1 /\ UNCHANGED losses

\* The sessions a lock statement of r may run on.
SessionsOf(r) == IF Pool = {} THEN {r} ELSE Pool

TryLockAnyway(r) ==              \* mutant: the answer of the try is ignored
  \E s \in SessionsOf(r) : lock' = s /\ depth' = depth + 1

\* pg_try_advisory_lock succeeds, also in the session that has the lock already.
TryLock(r) ==
  \E s \in SessionsOf(r) : lock \in {None, s} /\ lock' = s /\ depth' = depth + 1

\* pg_advisory_unlock undoes one lock of its session; elsewhere it only warns.
Unlock(r) ==
  \E s \in SessionsOf(r) :
    \/ /\ lock = s
       /\ depth' = depth - 1
       /\ lock' = IF depth = 1 THEN None ELSE lock
    \/ lock # s /\ UNCHANGED <<lock, depth>>

\* The try succeeds: the process leads; after a failed one it tries again.
AcquireLeadership(r) ==
  /\ pc[r] = "follower"
  /\ TryLock(r)
  /\ Goto(r, "idle")
  /\ UNCHANGED <<row, batch, sent, txLocks, deadLocks, log, commits, budget>>

\* The ticker fires.  The process does not ask whether it still holds the lock.
Tick(r) ==
  /\ pc[r] = "idle"
  /\ Goto(r, "select")
  /\ UNCHANGED <<server, batch, sent, log, commits, budget>>

\* ctx.Done in Run: the deferred release unlocks, if its session still has the lock.
Stop(r) ==
  /\ pc[r] = "idle"
  /\ Fail
  /\ Unlock(r)
  /\ Goto(r, "follower")
  /\ UNCHANGED <<row, batch, sent, txLocks, deadLocks, log, commits>>

\* Mutant: a cursor, WHERE id > the last published, instead of published_at IS NULL.
VisibleAfterLast ==
  { e \in Ids : row[e] = "unpublished" /\ \A f \in Ids : row[f] \in {"published", "deleted"} => f < e }
Visible == { e \in Ids : row[e] = "unpublished" }
RowLocked == deadLocks \cup UNION { txLocks[r] : r \in Relays }
Highest(S) == { e \in S : Cardinality({ f \in S : f >= e }) <= BatchSize }  \* mutant: ORDER BY id DESC
Lowest(S) == { e \in S : Cardinality({ f \in S : f <= e }) <= BatchSize }
AnyLowest == Lowest(Visible)     \* mutant: row locks are not looked at
Candidates == Lowest(Visible \ RowLocked)

\* SELECT ... WHERE published_at IS NULL ORDER BY id LIMIT n FOR UPDATE SKIP LOCKED
SelectBatch(r) ==
  /\ pc[r] = "select"
  /\ LET rows == Candidates IN
       /\ Goto(r, IF rows = {} THEN "delete" ELSE "publish")
       /\ batch' = [batch EXCEPT ![r] = rows]
       /\ txLocks' = [txLocks EXCEPT ![r] = rows]
  /\ sent' = [sent EXCEPT ![r] = {}]
  /\ UNCHANGED <<row, lock, depth, deadLocks, log, commits, budget>>

\* ProduceSync: records of one key go out in slice order, keys are independent.
BrokerAccepts(r, e) ==
  /\ pc[r] = "publish"
  /\ e \in batch[r] \ sent[r]
  /\ \A f \in batch[r] \ sent[r] : KeyOf[f] = KeyOf[e] => e <= f
  /\ log' = [log EXCEPT ![KeyOf[e]] = Append(@, e)]
  /\ sent' = [sent EXCEPT ![r] = @ \cup {e}]
  /\ UNCHANGED <<server, pc, batch, commits, budget>>

AllAccepted(r) == sent[r] = batch[r]

\* ProduceSync(...).FirstErr() = nil
PublishReturns(r) ==
  /\ pc[r] = "publish"
  /\ AllAccepted(r)
  /\ Goto(r, "mark")
  /\ UNCHANGED <<server, batch, sent, log, commits, budget>>

\* Mutant: the deferred Rollback is missing.
EndBatchLeakingTx(r) ==
  /\ batch' = [batch EXCEPT ![r] = {}]
  /\ sent' = [sent EXCEPT ![r] = {}]
  /\ UNCHANGED txLocks

\* The publishing function ends: the transaction is over, its locks are gone.
EndBatch(r) ==
  /\ batch' = [batch EXCEPT ![r] = {}]
  /\ sent' = [sent EXCEPT ![r] = {}]
  /\ txLocks' = [txLocks EXCEPT ![r] = {}]

\* Publish, UPDATE or Commit returns an error: deferred Rollback, retry next tick.
CycleFails(r) ==
  /\ pc[r] \in {"publish", "mark"}
  /\ Fail
  /\ EndBatch(r)
  /\ Goto(r, "idle")
  /\ UNCHANGED <<row, lock, depth, deadLocks, log, commits>>

MarkedButLast(r) ==              \* mutant: off by one over the ids of the batch
  [e \in Ids |-> IF \E f \in batch[r] : e \in batch[r] /\ e < f THEN "published" ELSE row[e]]
Marked(r) == [e \in Ids |-> IF e \in batch[r] THEN "published" ELSE row[e]]

MarkRows(r) ==
  /\ pc[r] = "mark"
  /\ txLocks[r] # {}
  /\ row' = Marked(r)

\* UPDATE published_at and Commit; a full batch means there may be more.
MarkPublished(r) ==
  /\ MarkRows(r)
  /\ EndBatch(r)
  /\ Goto(r, IF Cardinality(batch[r]) < BatchSize THEN "delete" ELSE "select")
  /\ UNCHANGED <<lock, depth, deadLocks, log, commits, budget>>

\* The server committed but its answer was lost: the cycle reports an error.
CommitAnswerLost(r) ==
  /\ MarkRows(r)
  /\ Fail
  /\ EndBatch(r)
  /\ Goto(r, "idle")
  /\ UNCHANGED <<lock, depth, deadLocks, log, commits>>

\* The transaction's connection was lost earlier: the UPDATE fails.
MarkFindsTxGone(r) ==
  /\ pc[r] = "mark"
  /\ txLocks[r] = {}
  /\ EndBatch(r)
  /\ Goto(r, "idle")
  /\ UNCHANGED <<row, lock, depth, deadLocks, log, commits, budget>>

AnyRow == { e \in Ids : row[e] \in {"unpublished", "published"} }  \* mutant: no IS NOT NULL
Deletable == { e \in Ids : row[e] = "published" }

\* DELETE ... LIMIT n without ORDER BY: some of the rows past their grace period.
\* With S empty, none was old enough or the statement failed.
DeleteOld(r) ==
  /\ pc[r] = "delete"
  /\ \E S \in SUBSET Deletable :
       /\ Cardinality(S) <= DeleteBatch
       /\ row' = [e \in Ids |-> IF e \in S THEN "deleted" ELSE row[e]]
  /\ Goto(r, "idle")
  /\ UNCHANGED <<lock, depth, batch, sent, txLocks, deadLocks, log, commits, budget>>

-----------------------------------------------------------------------------
(* Lost connections and crashes.                                            *)

Lose == losses < MaxLosses /\ losses' = losses + 1 /\ UNCHANGED errors

LoseLockSession(r) ==
  /\ lock = r
  /\ Lose
  /\ lock' = None
  /\ depth' = 0
  /\ UNCHANGED <<row, process, txLocks, deadLocks, log, commits>>

\* The server rolls the transaction back; the process is still inside Publish.
LoseTxSession(r) ==
  /\ txLocks[r] # {}
  /\ Lose
  /\ txLocks' = [txLocks EXCEPT ![r] = {}]
  /\ UNCHANGED <<row, lock, depth, process, deadLocks, log, commits>>

\* The process dies and is restarted; its sessions linger on the server.  A lock taken
\* through the pool stays with the pool's session.
Crash(r) ==
  /\ r \in Active
  /\ Lose
  /\ lock' = IF lock = r THEN Dead ELSE lock
  /\ deadLocks' = deadLocks \cup txLocks[r]
  /\ EndBatch(r)
  /\ Goto(r, "follower")
  /\ UNCHANGED <<row, depth, log, commits>>

DeadLockSessionEnds ==
  /\ lock = Dead
  /\ lock' = None
  /\ depth' = 0
  /\ UNCHANGED <<row, process, txLocks, deadLocks, log, commits, budget>>

\* server_lifetime: PgBouncer closes each session of its pool in the end.
PoolSessionEnds ==
  /\ lock \in Pool
  /\ lock' = None
  /\ depth' = 0
  /\ UNCHANGED <<row, process, txLocks, deadLocks, log, commits, budget>>

DeadTxSessionsEnd ==
  /\ deadLocks # {}
  /\ deadLocks' = {}
  /\ UNCHANGED <<row, lock, depth, process, txLocks, log, commits, budget>>

-----------------------------------------------------------------------------
Producer(e) == Begin(e) \/ CommitEvent(e) \/ RollbackEvent(e)

Cycle(r) ==
  \/ Tick(r) \/ SelectBatch(r)
  \/ \E e \in Ids : BrokerAccepts(r, e)
  \/ PublishReturns(r) \/ MarkPublished(r) \/ MarkFindsTxGone(r) \/ DeleteOld(r)

RelayStep(r) == AcquireLeadership(r) \/ Cycle(r)

Fault(r) ==
  \/ Stop(r) \/ CycleFails(r) \/ CommitAnswerLost(r)
  \/ LoseLockSession(r) \/ LoseTxSession(r) \/ Crash(r)

ServerStep == DeadLockSessionEnds \/ DeadTxSessionsEnd \/ PoolSessionEnds

Next ==
  \/ \E e \in Ids : Producer(e)
  \/ \E r \in Relays : RelayStep(r) \/ Fault(r)
  \/ ServerStep

Spec == Init /\ [][Next]_vars

\* Go schedules every relay goroutine; Postgres ends the sessions of dead clients and
\* PgBouncer those of its pool.  A try is only sure to succeed while nobody has the
\* lock: the pool may go on choosing another session than the one that has it.
Fairness ==
  /\ \A r \in Relays : WF_vars(Cycle(r)) /\ WF_vars(lock = None /\ AcquireLeadership(r))
  /\ WF_vars(DeadLockSessionEnds)
  /\ WF_vars(DeadTxSessionsEnd)
  /\ WF_vars(PoolSessionEnds)

FairSpec == Spec /\ Fairness

-----------------------------------------------------------------------------
(* Safety.                                                                  *)

\* A row that is marked published or deleted is in the broker's log: whatever
\* crashes or connections are lost between Publish and Commit, relay.go never
\* forgets an event Kafka does not have.
NoEventForgotten == \A e \in Ids : row[e] \in {"published", "deleted"} => e \in Delivered

\* Nothing reaches the broker from a transaction that did not commit
\* (outbox.Insert runs in the caller's transaction).
NoPhantomEvent == Delivered \subseteq Committed

\* Two publish transactions never own the same row, and they own only
\* unpublished ones, however many relays believe they lead (FOR UPDATE SKIP
\* LOCKED in publishBatch).
RowsOwnedOnce ==
  /\ \A r, q \in Relays : r # q => txLocks[r] \cap txLocks[q] = {}
  /\ \A r \in Relays : txLocks[r] \cap deadLocks = {}
  /\ RowLocked \subseteq Visible

Occurrences(e) == Cardinality({ i \in DOMAIN log[KeyOf[e]] : log[KeyOf[e]][i] = e })

\* An event is in the broker's log once, plus at most once for each failure:
\* publishBatch duplicates only by at-least-once retries.
DuplicatesNeedFailures == \A e \in Ids : Occurrences(e) <= 1 + errors + losses

\* At most one relay process runs cycles: ARCHITECTURE.md and the comment of
\* AcquireLeadership promise one active relay per physical shard.
OneLeader == Cardinality(Active) <= 1

\* What the advisory lock gives of it: one relay leads as long as every relay has a
\* lock session of its own and none was lost.  A relay does not look at the lock again,
\* so after a loss it publishes next to the new leader.
SingleActiveRelay == Pool = {} /\ losses = 0 => OneLeader

First(k, e) == CHOOSE i \in DOMAIN log[k] :
                 log[k][i] = e /\ \A j \in 1..(i - 1) : log[k][j] # e

\* Events of one key reach the broker, duplicates aside, in the order of their
\* ids: rule 2 of docs/events.md ("relay publishes in snowflake order").
KeyOrder ==
  \A e, f \in Delivered :
    KeyOf[e] = KeyOf[f] /\ e < f => First(KeyOf[e], e) < First(KeyOf[f], f)

CommittedBefore(e, f) ==
  \E i, j \in DOMAIN commits : i < j /\ commits[i] = e /\ commits[j] = f

\* What the ORDER BY id of publishBatch gives while one relay leads, that is with lock
\* sessions of the relays' own and none lost: of two events of one key whose ids and
\* commits are in the same order, the later is never in the broker's log without the
\* earlier one before it.  Two leaders would skip each other's rows.
CommittedKeyOrder ==
  Pool = {} /\ losses = 0 => \A e \in Ids : \A f \in Delivered :
    KeyOf[e] = KeyOf[f] /\ e < f /\ CommittedBefore(e, f) =>
      e \in Delivered /\ First(KeyOf[e], e) < First(KeyOf[f], f)

(* Liveness.                                                                *)

\* Every event whose transaction committed is eventually published and marked,
\* once failures stop: the outbox absorbs a broker outage or a crashed relay.
EveryEventPublished ==
  \A e \in Ids : row[e] = "unpublished" ~> row[e] \in {"published", "deleted"}

(* Refinement.                                                              *)

Delivery == INSTANCE EventDelivery WITH
              Events <- Ids,
              emitted <- Committed,
              settled <- { e \in Ids : row[e] \in {"published", "deleted"} }

\* The relay implements the abstract event delivery.
DeliverySpec == Delivery!Spec
=============================================================================
