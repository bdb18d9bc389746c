------------------------- MODULE OutboxRelayProofs -------------------------
(***************************************************************************)
(* Proofs about OutboxRelay, for every set of relays, ids and keys, every  *)
(* batch size and every number of failures.                                *)
(***************************************************************************)
EXTENDS OutboxRelay, FiniteSetTheorems, TLAPS

USE IdsAssumption, KeysAssumption, BatchAssumption, BoundAssumption, LockAssumption

(***************************************************************************)
(* The type invariant.                                                     *)
(***************************************************************************)
LEMMA TypeInit == Init => TypeOK
BY DEF Init, TypeOK, RowStates, Stages

\* One step per action; the actions of the fault model come last.
LEMMA TypeStep == TypeOK /\ [Next]_vars => TypeOK'
<1> SUFFICES ASSUME TypeOK, [Next]_vars PROVE TypeOK'
    OBVIOUS
<1> USE DEF TypeOK, RowStates, Stages, server, process, budget, Goto, Fail, Lose, EndBatch
<1>1. ASSUME NEW e \in Ids, Producer(e) PROVE TypeOK'
  <2>1. CASE Begin(e) BY <2>1 DEF Begin
  <2>2. CASE CommitEvent(e) BY <2>2 DEF CommitEvent
  <2>3. CASE RollbackEvent(e) BY <2>3 DEF RollbackEvent
  <2>4. QED BY <1>1, <2>1, <2>2, <2>3 DEF Producer
<1>2. ASSUME NEW r \in Relays, RelayStep(r) PROVE TypeOK'
  <2>1. CASE AcquireLeadership(r)
    <3>1. PICK s \in Relays \cup Pool : lock' = s /\ depth' = depth + 1
      BY <2>1 DEF AcquireLeadership, TryLock, SessionsOf
    <3> QED BY <2>1, <3>1 DEF AcquireLeadership
  <2>2. CASE Tick(r) BY <2>2 DEF Tick
  <2>3. CASE SelectBatch(r)
    <3>1. Candidates \in SUBSET Ids
      BY DEF Candidates, Lowest, Visible
    <3>2. QED BY <2>3, <3>1 DEF SelectBatch
  <2>4. ASSUME NEW e \in Ids, BrokerAccepts(r, e) PROVE TypeOK'
    BY <2>4 DEF BrokerAccepts
  <2>5. CASE PublishReturns(r) BY <2>5 DEF PublishReturns
  <2>6. CASE MarkPublished(r) BY <2>6 DEF MarkPublished, MarkRows, Marked
  <2>7. CASE MarkFindsTxGone(r) BY <2>7 DEF MarkFindsTxGone
  <2>8. CASE DeleteOld(r) BY <2>8 DEF DeleteOld
  <2>9. QED
    BY <1>2, <2>1, <2>2, <2>3, <2>4, <2>5, <2>6, <2>7, <2>8 DEF RelayStep, Cycle
<1>3. ASSUME NEW r \in Relays, Fault(r) PROVE TypeOK'
  <2>1. CASE Stop(r)
    <3>1. /\ lock' \in Relays \cup Pool \cup {None, Dead} /\ depth' \in Nat
          /\ lock' = None <=> depth' = 0
      <4>1. CASE UNCHANGED <<lock, depth>>
        BY <4>1
      <4>2. CASE /\ lock \in SessionsOf(r) /\ depth' = depth - 1
                 /\ lock' = IF depth = 1 THEN None ELSE lock
        <5>1. lock # None /\ depth \in Nat \ {0}
          BY <4>2 DEF SessionsOf
        <5> QED BY <4>2, <5>1
      <4> QED BY <2>1, <4>1, <4>2 DEF Stop, Unlock
    <3> QED BY <2>1, <3>1 DEF Stop
  <2>2. CASE CycleFails(r) BY <2>2 DEF CycleFails
  <2>3. CASE CommitAnswerLost(r) BY <2>3 DEF CommitAnswerLost, MarkRows, Marked
  <2>4. CASE LoseLockSession(r) BY <2>4 DEF LoseLockSession
  <2>5. CASE LoseTxSession(r) BY <2>5 DEF LoseTxSession
  <2>6. CASE Crash(r)
    <3>1. txLocks[r] \in SUBSET Ids OBVIOUS
    <3>2. deadLocks' \in SUBSET Ids BY <2>6, <3>1 DEF Crash
    <3>3. /\ lock' \in Relays \cup Pool \cup {None, Dead} /\ depth' = depth
          /\ lock' = None <=> lock = None
      BY <2>6 DEF Crash
    <3>4. losses' \in 0..MaxLosses /\ errors' \in 0..MaxErrors BY <2>6 DEF Crash
    <3>5. QED BY <2>6, <3>2, <3>3, <3>4 DEF Crash
  <2>7. QED
    BY <1>3, <2>1, <2>2, <2>3, <2>4, <2>5, <2>6 DEF Fault
<1>4. CASE ServerStep
  <2>1. CASE DeadLockSessionEnds BY <2>1 DEF DeadLockSessionEnds
  <2>2. CASE DeadTxSessionsEnd BY <2>2 DEF DeadTxSessionsEnd
  <2>3. CASE PoolSessionEnds BY <2>3 DEF PoolSessionEnds
  <2>4. QED BY <1>4, <2>1, <2>2, <2>3 DEF ServerStep
<1>5. CASE UNCHANGED vars BY <1>5 DEF vars
<1>6. QED BY <1>1, <1>2, <1>3, <1>4, <1>5 DEF Next

\* Every reachable state is well typed.
THEOREM Typing == Spec => []TypeOK
BY TypeInit, TypeStep, PTL DEF Spec

(***************************************************************************)
(* The inductive invariant: what a relay process remembers of its batch    *)
(* agrees with the rows, the row locks and the broker's log.               *)
(***************************************************************************)
BatchInv ==
  \A r \in Relays :
    /\ batch[r] \subseteq Committed
    /\ sent[r] \subseteq Delivered
    /\ pc[r] = "mark" => sent[r] = batch[r]
    /\ txLocks[r] # {} => txLocks[r] = batch[r]

IInv ==
  /\ NoEventForgotten
  /\ NoPhantomEvent
  /\ RowsOwnedOnce
  /\ BatchInv

\* One record more in a partition delivers that event and takes none back.
LEMMA DeliveredAppend ==
  ASSUME TypeOK, NEW e \in Ids, log' = [log EXCEPT ![KeyOf[e]] = Append(@, e)]
  PROVE  Delivered' = Delivered \cup {e}
<1>1. KeyOf[e] \in Keys /\ log[KeyOf[e]] \in Seq(Ids)
  BY DEF TypeOK
<1>2. DOMAIN log[KeyOf[e]] = 1..Len(log[KeyOf[e]]) /\ Len(log[KeyOf[e]]) \in Nat
  BY <1>1
<1>3. log'[KeyOf[e]] = Append(log[KeyOf[e]], e)
  BY <1>1 DEF TypeOK
<1>4. \A k \in Keys : k # KeyOf[e] => log'[k] = log[k]
  BY <1>1 DEF TypeOK
<1>5. DOMAIN log'[KeyOf[e]] = 1..(Len(log[KeyOf[e]]) + 1)
  BY <1>1, <1>2, <1>3
<1>6. log'[KeyOf[e]][Len(log[KeyOf[e]]) + 1] = e
  BY <1>1, <1>2, <1>3
<1>7. \A i \in DOMAIN log[KeyOf[e]] : log'[KeyOf[e]][i] = log[KeyOf[e]][i]
  BY <1>1, <1>2, <1>3
<1>8. ASSUME NEW f \in Ids PROVE f \in Delivered' <=> f \in Delivered \cup {e}
  <2>1. CASE KeyOf[f] # KeyOf[e]
    <3>1. log'[KeyOf[f]] = log[KeyOf[f]] BY <2>1, <1>4
    <3>2. QED BY <3>1, <2>1 DEF Delivered
  <2>2. CASE KeyOf[f] = KeyOf[e]
    <3>1. ASSUME NEW i \in DOMAIN log'[KeyOf[e]], log'[KeyOf[e]][i] = f
          PROVE  f \in Delivered \cup {e}
      <4>1. CASE i \in DOMAIN log[KeyOf[e]] BY <4>1, <3>1, <2>2, <1>7 DEF Delivered
      <4>2. CASE i = Len(log[KeyOf[e]]) + 1 BY <4>2, <3>1, <1>6
      <4>3. QED BY <4>1, <4>2, <1>2, <1>5
    <3>2. ASSUME NEW i \in DOMAIN log[KeyOf[e]], log[KeyOf[e]][i] = f
          PROVE  f \in Delivered'
      <4>1. i \in DOMAIN log'[KeyOf[e]] BY <3>2, <1>2, <1>5
      <4>2. QED BY <4>1, <3>2, <2>2, <1>7 DEF Delivered
    <3>3. e \in Delivered'
      <4>1. Len(log[KeyOf[e]]) + 1 \in DOMAIN log'[KeyOf[e]] BY <1>2, <1>5
      <4>2. QED BY <4>1, <1>6 DEF Delivered
    <3>4. QED BY <3>1, <3>2, <3>3, <2>2 DEF Delivered
  <2>3. QED BY <2>1, <2>2
<1>9. QED BY <1>8 DEF Delivered

LEMMA InvInit == Init => IInv
BY DEF Init, IInv, NoEventForgotten, NoPhantomEvent, RowsOwnedOnce, BatchInv,
       Committed, Delivered, RowLocked, Visible

\* A step of a transaction of the API: rows only move towards Committed, and a
\* row some relay owns is not one of those that move.
LEMMA InvProducer ==
  ASSUME TypeOK, IInv, NEW e \in Ids, Producer(e)
  PROVE  IInv'
<1>1. /\ UNCHANGED <<pc, batch, sent, txLocks, deadLocks, log>>
      /\ row[e] \in {"unused", "open"} /\ row'[e] \notin {"published", "deleted"}
      /\ \A f \in Ids : f # e => row'[f] = row[f]
  BY DEF Producer, Begin, CommitEvent, RollbackEvent, process, TypeOK
<1>2. Committed \subseteq Committed' /\ Delivered' = Delivered
  BY <1>1 DEF Committed, Delivered
<1>3. NoEventForgotten' BY <1>1, <1>2 DEF IInv, NoEventForgotten
<1>4. NoPhantomEvent' BY <1>2 DEF IInv, NoPhantomEvent
<1>5. RowsOwnedOnce'
  <2>1. RowLocked' = RowLocked BY <1>1 DEF RowLocked
  <2>2. Visible \subseteq Visible' BY <1>1 DEF Visible
  <2>3. QED BY <1>1, <2>1, <2>2 DEF IInv, RowsOwnedOnce
<1>6. BatchInv' BY <1>1, <1>2 DEF IInv, BatchInv
<1>7. QED BY <1>3, <1>4, <1>5, <1>6 DEF IInv

\* Steps that change no row, no row lock, no batch and no record.
LEMMA InvFrame ==
  ASSUME TypeOK, IInv, UNCHANGED <<row, batch, sent, txLocks, deadLocks, log>>,
         \A r \in Relays : pc'[r] = "mark" => pc[r] = "mark" \/ sent[r] = batch[r]
  PROVE  IInv'
<1>1. Committed' = Committed /\ Delivered' = Delivered /\ Visible' = Visible /\ RowLocked' = RowLocked
  BY DEF Committed, Delivered, Visible, RowLocked
<1>2. BatchInv' BY <1>1 DEF IInv, BatchInv
<1>3. QED
  BY <1>1, <1>2 DEF IInv, NoEventForgotten, NoPhantomEvent, RowsOwnedOnce

\* A batch ends, whatever became of it, with no row or record changed.
LEMMA InvEnd ==
  ASSUME TypeOK, IInv, NEW r \in Relays, EndBatch(r), UNCHANGED <<row, log>>,
         NEW S \in SUBSET txLocks[r], deadLocks' = deadLocks \cup S,
         pc'[r] # "mark", \A q \in Relays : q # r => pc'[q] = pc[q]
  PROVE  IInv'
<1>1. Committed' = Committed /\ Delivered' = Delivered /\ Visible' = Visible
  BY DEF Committed, Delivered, Visible
<1>2. /\ batch'[r] = {} /\ sent'[r] = {} /\ txLocks'[r] = {}
      /\ \A q \in Relays : q # r =>
           batch'[q] = batch[q] /\ sent'[q] = sent[q] /\ txLocks'[q] = txLocks[q]
  BY DEF EndBatch, TypeOK
<1>3. RowLocked' \subseteq RowLocked
  BY <1>2 DEF RowLocked
<1>4. RowsOwnedOnce'
  BY <1>1, <1>2, <1>3 DEF IInv, RowsOwnedOnce
<1>5. BatchInv' BY <1>1, <1>2 DEF IInv, BatchInv
<1>6. QED BY <1>1, <1>4, <1>5 DEF IInv, NoEventForgotten, NoPhantomEvent

\* Owned rows move to published: only the owner's batch, all of it delivered.
LEMMA InvMark ==
  ASSUME TypeOK, IInv, NEW r \in Relays, MarkRows(r), EndBatch(r), UNCHANGED <<log, deadLocks>>,
         pc'[r] # "mark", \A q \in Relays : q # r => pc'[q] = pc[q]
  PROVE  IInv'
<1>1. batch[r] \subseteq Delivered /\ txLocks[r] = batch[r] /\ batch[r] \subseteq Ids
  BY DEF MarkRows, IInv, BatchInv, TypeOK
<1>2. \A e \in Ids : row'[e] = IF e \in batch[r] THEN "published" ELSE row[e]
  BY DEF MarkRows, Marked
<1>3. Delivered' = Delivered /\ Committed \subseteq Committed'
  BY <1>2 DEF Committed, Delivered
<1>4. /\ batch'[r] = {} /\ sent'[r] = {} /\ txLocks'[r] = {}
      /\ \A q \in Relays : q # r =>
           batch'[q] = batch[q] /\ sent'[q] = sent[q] /\ txLocks'[q] = txLocks[q]
  BY DEF EndBatch, TypeOK
<1>5. NoEventForgotten' BY <1>1, <1>2, <1>3 DEF IInv, NoEventForgotten
<1>6. NoPhantomEvent' BY <1>3 DEF IInv, NoPhantomEvent
<1>7. RowsOwnedOnce'
  <2>1. ASSUME NEW e \in RowLocked' PROVE e \in RowLocked /\ e \notin batch[r]
    <3>1. CASE e \in deadLocks BY <3>1, <1>1 DEF RowLocked, IInv, RowsOwnedOnce
    <3>2. CASE e \notin deadLocks
      <4>1. PICK q \in Relays : e \in txLocks'[q] BY <2>1, <3>2 DEF RowLocked
      <4>2. q # r /\ e \in txLocks[q] BY <4>1, <1>4
      <4>3. QED BY <4>2, <1>1 DEF RowLocked, IInv, RowsOwnedOnce
    <3>3. QED BY <3>1, <3>2
  <2>2. RowLocked' \subseteq Visible'
    BY <2>1, <1>2 DEF IInv, RowsOwnedOnce, Visible
  <2>3. QED BY <1>4, <2>2 DEF IInv, RowsOwnedOnce
<1>8. BatchInv' BY <1>3, <1>4 DEF IInv, BatchInv
<1>9. QED BY <1>5, <1>6, <1>7, <1>8 DEF IInv

\* A new batch takes only rows that are visible and that nobody owns.
LEMMA InvSelect ==
  ASSUME TypeOK, IInv, NEW r \in Relays, SelectBatch(r)
  PROVE  IInv'
<1>1. Committed' = Committed /\ Delivered' = Delivered /\ Visible' = Visible
  BY DEF SelectBatch, Committed, Delivered, Visible
<1>2. Candidates \subseteq Visible \ RowLocked
  BY DEF Candidates, Lowest
<1>3. /\ batch'[r] = Candidates /\ sent'[r] = {} /\ txLocks'[r] = Candidates
      /\ pc'[r] # "mark" /\ deadLocks' = deadLocks
      /\ \A q \in Relays : q # r => /\ batch'[q] = batch[q] /\ sent'[q] = sent[q]
                                   /\ txLocks'[q] = txLocks[q] /\ pc'[q] = pc[q]
  BY DEF SelectBatch, Goto, TypeOK
<1>4. txLocks[r] = {}
  BY DEF SelectBatch, TypeOK, IInv, BatchInv
<1>5. RowLocked' = RowLocked \cup Candidates
  BY <1>3, <1>4 DEF RowLocked
<1>6. RowsOwnedOnce'
  <2>1. \A q \in Relays : txLocks[q] \cap Candidates = {}
    BY <1>2 DEF RowLocked
  <2>2. deadLocks \cap Candidates = {} BY <1>2 DEF RowLocked
  <2>3. QED BY <1>1, <1>2, <1>3, <1>5, <2>1, <2>2 DEF IInv, RowsOwnedOnce
<1>7. Candidates \subseteq Committed BY <1>2 DEF Visible, Committed
<1>8. BatchInv' BY <1>1, <1>3, <1>7 DEF IInv, BatchInv
<1>9. QED
  BY <1>1, <1>6, <1>8 DEF IInv, NoEventForgotten, NoPhantomEvent, SelectBatch

\* The broker takes one record of a batch; the batch is committed.
LEMMA InvAccept ==
  ASSUME TypeOK, IInv, NEW r \in Relays, NEW e \in Ids, BrokerAccepts(r, e)
  PROVE  IInv'
<1>1. Delivered' = Delivered \cup {e}
  BY DeliveredAppend DEF BrokerAccepts
<1>2. e \in Committed BY DEF BrokerAccepts, IInv, BatchInv
<1>3. /\ Committed' = Committed /\ Visible' = Visible /\ RowLocked' = RowLocked
  BY DEF BrokerAccepts, server, Committed, Visible, RowLocked
<1>4. /\ sent'[r] = sent[r] \cup {e} /\ pc[r] # "mark"
      /\ \A q \in Relays : q # r => sent'[q] = sent[q]
      /\ UNCHANGED <<row, pc, batch, txLocks, deadLocks>>
  BY DEF BrokerAccepts, server, TypeOK
<1>5. BatchInv' BY <1>1, <1>3, <1>4 DEF IInv, BatchInv
<1>6. RowsOwnedOnce' BY <1>3, <1>4 DEF IInv, RowsOwnedOnce
<1>7. QED
  BY <1>1, <1>2, <1>3, <1>4, <1>5, <1>6 DEF IInv, NoEventForgotten, NoPhantomEvent

\* DELETE takes published rows only, which nobody owns.
LEMMA InvDelete ==
  ASSUME TypeOK, IInv, NEW r \in Relays, DeleteOld(r)
  PROVE  IInv'
<1>1. PICK S \in SUBSET Deletable : row' = [e \in Ids |-> IF e \in S THEN "deleted" ELSE row[e]]
  BY DEF DeleteOld
<1>2. \A e \in S : row[e] = "published" BY DEF Deletable
<1>3. Committed' = Committed /\ Visible' = Visible
  BY <1>1, <1>2 DEF Committed, Visible
<1>4. Delivered' = Delivered /\ RowLocked' = RowLocked
  BY DEF DeleteOld, Delivered, RowLocked
<1>5. NoEventForgotten'
  BY <1>1, <1>2, <1>4 DEF IInv, NoEventForgotten
<1>6. RowsOwnedOnce' BY <1>3, <1>4 DEF DeleteOld, IInv, RowsOwnedOnce
<1>7. BatchInv' BY <1>3, <1>4 DEF DeleteOld, Goto, TypeOK, IInv, BatchInv
<1>8. QED BY <1>3, <1>4, <1>5, <1>6, <1>7 DEF IInv, NoPhantomEvent

\* The server ends a transaction its process still believes in.
LEMMA InvLoseTx ==
  ASSUME TypeOK, IInv, NEW r \in Relays, LoseTxSession(r)
  PROVE  IInv'
<1>1. /\ Committed' = Committed /\ Visible' = Visible /\ Delivered' = Delivered
      /\ UNCHANGED <<row, pc, batch, sent, deadLocks>>
  BY DEF LoseTxSession, process, Committed, Visible, Delivered
<1>2. txLocks'[r] = {} /\ \A q \in Relays : q # r => txLocks'[q] = txLocks[q]
  BY DEF LoseTxSession, TypeOK
<1>3. RowLocked' \subseteq RowLocked BY <1>1, <1>2 DEF RowLocked
<1>4. RowsOwnedOnce' BY <1>1, <1>2, <1>3 DEF IInv, RowsOwnedOnce
<1>5. BatchInv' BY <1>1, <1>2 DEF IInv, BatchInv
<1>6. QED BY <1>1, <1>4, <1>5 DEF IInv, NoEventForgotten, NoPhantomEvent

LEMMA InvStep == TypeOK /\ IInv /\ [Next]_vars => IInv'
<1> SUFFICES ASSUME TypeOK, IInv, [Next]_vars PROVE IInv'
    OBVIOUS
<1>1. ASSUME NEW e \in Ids, Producer(e) PROVE IInv'
  BY <1>1, InvProducer
<1>2. ASSUME NEW r \in Relays, RelayStep(r) PROVE IInv'
  <2>1. CASE AcquireLeadership(r)
    BY <2>1, InvFrame DEF AcquireLeadership, Goto, TypeOK
  <2>2. CASE Tick(r) BY <2>2, InvFrame DEF Tick, Goto, server, TypeOK
  <2>3. CASE SelectBatch(r) BY <2>3, InvSelect
  <2>4. ASSUME NEW e \in Ids, BrokerAccepts(r, e) PROVE IInv'
    BY <2>4, InvAccept
  <2>5. CASE PublishReturns(r)
    BY <2>5, InvFrame DEF PublishReturns, AllAccepted, Goto, server, TypeOK
  <2>6. CASE MarkPublished(r)
    BY <2>6, InvMark DEF MarkPublished, Goto, TypeOK
  <2>7. CASE MarkFindsTxGone(r)
    <3>1. deadLocks' = deadLocks \cup {} BY <2>7 DEF MarkFindsTxGone
    <3>2. QED BY <2>7, <3>1, InvEnd DEF MarkFindsTxGone, Goto, TypeOK
  <2>8. CASE DeleteOld(r) BY <2>8, InvDelete
  <2>9. QED
    BY <1>2, <2>1, <2>2, <2>3, <2>4, <2>5, <2>6, <2>7, <2>8 DEF RelayStep, Cycle
<1>3. ASSUME NEW r \in Relays, Fault(r) PROVE IInv'
  <2>1. CASE Stop(r) BY <2>1, InvFrame DEF Stop, Goto, TypeOK
  <2>2. CASE CycleFails(r)
    <3>1. deadLocks' = deadLocks \cup {} BY <2>2 DEF CycleFails
    <3>2. QED BY <2>2, <3>1, InvEnd DEF CycleFails, Goto, TypeOK
  <2>3. CASE CommitAnswerLost(r)
    BY <2>3, InvMark DEF CommitAnswerLost, Goto, TypeOK
  <2>4. CASE LoseLockSession(r)
    BY <2>4, InvFrame DEF LoseLockSession, process
  <2>5. CASE LoseTxSession(r) BY <2>5, InvLoseTx
  <2>6. CASE Crash(r)
    BY <2>6, InvEnd DEF Crash, Goto, TypeOK
  <2>7. QED BY <1>3, <2>1, <2>2, <2>3, <2>4, <2>5, <2>6 DEF Fault
<1>4. CASE DeadLockSessionEnds
  BY <1>4, InvFrame DEF DeadLockSessionEnds, process
<1>5. CASE PoolSessionEnds
  BY <1>5, InvFrame DEF PoolSessionEnds, process
<1>6. CASE DeadTxSessionsEnd
  <2>1. /\ Committed' = Committed /\ Visible' = Visible /\ Delivered' = Delivered
        /\ RowLocked' \subseteq RowLocked
    BY <1>6 DEF DeadTxSessionsEnd, process, Committed, Visible, Delivered, RowLocked
  <2>2. QED
    BY <1>6, <2>1 DEF DeadTxSessionsEnd, process, IInv, NoEventForgotten,
                      NoPhantomEvent, RowsOwnedOnce, BatchInv
<1>7. CASE UNCHANGED vars BY <1>7, InvFrame DEF vars
<1>8. QED BY <1>1, <1>2, <1>3, <1>4, <1>5, <1>6, <1>7 DEF Next, ServerStep

LEMMA Invariance == Spec => []IInv
<1>1. Init => IInv BY InvInit
<1>2. TypeOK /\ IInv /\ [Next]_vars => IInv' BY InvStep
<1>3. QED BY <1>1, <1>2, Typing, PTL DEF Spec

\* Whatever fails, an event the outbox has marked or deleted is in the broker.
THEOREM ForgetsNothing == Spec => []NoEventForgotten
<1>1. IInv => NoEventForgotten BY DEF IInv
<1>2. QED BY <1>1, Invariance, PTL

\* The broker has only events of committed transactions.
THEOREM PublishesOnlyCommitted == Spec => []NoPhantomEvent
<1>1. IInv => NoPhantomEvent BY DEF IInv
<1>2. QED BY <1>1, Invariance, PTL

\* Two publish transactions never own one row, however many relays are active.
THEOREM RowsExclusive == Spec => []RowsOwnedOnce
<1>1. IInv => RowsOwnedOnce BY DEF IInv
<1>2. QED BY <1>1, Invariance, PTL

(***************************************************************************)
(* Refinement: every step is a step of EventDelivery or leaves it alone.   *)
(***************************************************************************)
LEMMA DeliveryInit == Init => Delivery!Init
BY DEF Init, Delivery!Init, Committed

LEMMA DeliveryStep ==
  TypeOK /\ IInv /\ IInv' /\ [Next]_vars => [Delivery!Next]_(Delivery!vars)
<1> SUFFICES ASSUME TypeOK, IInv, IInv', [Next]_vars
             PROVE  Delivery!Next \/ UNCHANGED Delivery!vars
    OBVIOUS
<1> DEFINE Settled == { e \in Ids : row[e] \in {"published", "deleted"} }
<1>1. ASSUME UNCHANGED <<row, log>> PROVE UNCHANGED Delivery!vars
  BY <1>1 DEF Delivery!vars, Committed
<1>2. ASSUME NEW e \in Ids, Producer(e) PROVE Delivery!Next \/ UNCHANGED Delivery!vars
  <2>1. row[e] \in {"unused", "open"} /\ log' = log
    BY <1>2 DEF Producer, Begin, CommitEvent, RollbackEvent
  <2>2. CASE CommitEvent(e)
    <3>1. e \notin Committed /\ Committed' = Committed \cup {e} /\ Settled' = Settled
      BY <2>2 DEF CommitEvent, Committed, TypeOK
    <3>2. Delivery!Emit(e) BY <2>1, <3>1 DEF Delivery!Emit
    <3>3. QED BY <3>2 DEF Delivery!Next
  <2>3. CASE Begin(e) \/ RollbackEvent(e)
    <3>1. Committed' = Committed /\ Settled' = Settled
      BY <2>3 DEF Begin, RollbackEvent, Committed, TypeOK
    <3>2. QED BY <2>1, <3>1 DEF Delivery!vars
  <2>4. QED BY <1>2, <2>2, <2>3 DEF Producer
<1>3. ASSUME NEW r \in Relays, NEW e \in Ids, BrokerAccepts(r, e) PROVE Delivery!Next
  <2>1. e \in Committed BY <1>3 DEF BrokerAccepts, IInv, BatchInv
  <2>2. Committed' = Committed /\ Settled' = Settled
    BY <1>3 DEF BrokerAccepts, server, Committed
  <2>3. Delivery!Deliver(e) BY <1>3, <2>1, <2>2 DEF BrokerAccepts, Delivery!Deliver
  <2>4. QED BY <2>3 DEF Delivery!Next
<1>4. ASSUME NEW r \in Relays, MarkRows(r), UNCHANGED log PROVE Delivery!Next
  <2>1. /\ batch[r] \subseteq Delivered /\ batch[r] \subseteq Committed /\ batch[r] \subseteq Ids
    BY <1>4 DEF MarkRows, IInv, BatchInv, TypeOK
  <2>2. Committed' = Committed /\ Settled' = Settled \cup batch[r]
    BY <1>4, <2>1 DEF MarkRows, Marked, Committed
  <2>3. Delivery!Settle(batch[r])
    BY <1>4, <2>1, <2>2 DEF Delivery!Settle, Delivery!Delivered, Delivered
  <2>4. batch[r] \in SUBSET Ids BY <2>1
  <2>5. \E S \in SUBSET Ids : Delivery!Settle(S) BY <2>3, <2>4 DEF Delivery!Settle
  <2>6. QED BY <2>5 DEF Delivery!Next
<1>5. ASSUME NEW r \in Relays, DeleteOld(r) PROVE UNCHANGED Delivery!vars
  <2>1. Committed' = Committed /\ Settled' = Settled
    BY <1>5 DEF DeleteOld, Deletable, Committed
  <2>2. QED BY <1>5, <2>1 DEF DeleteOld, Delivery!vars
<1>6. ASSUME NEW r \in Relays, RelayStep(r)
      PROVE  Delivery!Next \/ UNCHANGED Delivery!vars
  <2>1. \/ UNCHANGED <<row, log>> \/ \E e \in Ids : BrokerAccepts(r, e)
        \/ (MarkRows(r) /\ UNCHANGED log) \/ DeleteOld(r)
    BY <1>6 DEF RelayStep, Cycle, AcquireLeadership, Tick, SelectBatch, PublishReturns,
                MarkPublished, MarkFindsTxGone, server
  <2>2. QED BY <2>1, <1>1, <1>3, <1>4, <1>5
<1>7. ASSUME NEW r \in Relays, Fault(r)
      PROVE  Delivery!Next \/ UNCHANGED Delivery!vars
  <2>1. UNCHANGED <<row, log>> \/ (MarkRows(r) /\ UNCHANGED log)
    BY <1>7 DEF Fault, Stop, CycleFails, CommitAnswerLost, LoseLockSession,
                LoseTxSession, Crash
  <2>2. QED BY <2>1, <1>1, <1>4
<1>8. CASE ServerStep
  BY <1>8, <1>1 DEF ServerStep, DeadLockSessionEnds, DeadTxSessionsEnd, PoolSessionEnds
<1>9. CASE UNCHANGED vars BY <1>9, <1>1 DEF vars
<1>10. QED BY <1>2, <1>6, <1>7, <1>8, <1>9 DEF Next

\* The relay, with every failure of the model, implements EventDelivery.
THEOREM Refinement == Spec => DeliverySpec
<1>1. Init => Delivery!Init BY DeliveryInit
<1>2. TypeOK /\ IInv /\ IInv' /\ [Next]_vars => [Delivery!Next]_(Delivery!vars)
  BY DeliveryStep
<1>3. QED BY <1>1, <1>2, Typing, Invariance, PTL DEF Spec, DeliverySpec, Delivery!Spec

-----------------------------------------------------------------------------
(***************************************************************************)
(* SingleActiveRelay.  With lock sessions of their own and without losses  *)
(* a relay that is active is the one whose session holds the lock.         *)
(***************************************************************************)
LeadsAlone == Pool = {} /\ losses = 0 => Active \subseteq {lock} /\ deadLocks = {}

LEMMA LeadsInit == Init => LeadsAlone
BY DEF Init, LeadsAlone, Active

LEMMA LossesStay == TypeOK /\ [Next]_vars => (losses' = 0 => losses = 0)
<1> SUFFICES ASSUME TypeOK, [Next]_vars, losses' = 0 PROVE losses = 0
  OBVIOUS
<1>1. losses' = losses \/ losses' = losses + 1
  <2> USE DEF budget, Fail, Lose
  <2>1. ASSUME NEW e \in Ids, Producer(e) PROVE losses' = losses
    BY <2>1 DEF Producer, Begin, CommitEvent, RollbackEvent
  <2>2. ASSUME NEW r \in Relays, RelayStep(r) PROVE losses' = losses
    BY <2>2 DEF RelayStep, Cycle, AcquireLeadership, Tick, SelectBatch, BrokerAccepts, PublishReturns,
                MarkPublished, MarkFindsTxGone, DeleteOld
  <2>3. ASSUME NEW r \in Relays, Fault(r) PROVE losses' = losses \/ losses' = losses + 1
    BY <2>3 DEF Fault, Stop, CycleFails, CommitAnswerLost, LoseLockSession, LoseTxSession, Crash
  <2>4. CASE ServerStep
    BY <2>4 DEF ServerStep, DeadLockSessionEnds, DeadTxSessionsEnd, PoolSessionEnds
  <2>5. CASE UNCHANGED vars
    BY <2>5 DEF vars
  <2> QED BY <2>1, <2>2, <2>3, <2>4, <2>5 DEF Next
<1> QED BY <1>1 DEF TypeOK

LEMMA LeadsStep == TypeOK /\ LeadsAlone /\ [Next]_vars => LeadsAlone'
<1> SUFFICES ASSUME TypeOK, LeadsAlone, [Next]_vars, Pool = {}, losses' = 0, losses = 0
             PROVE  Active' \subseteq {lock'} /\ deadLocks' = {}
  BY LossesStay DEF LeadsAlone
<1>0. Active \subseteq {lock} /\ deadLocks = {} /\ \A r \in Relays : ~Lose
  BY DEF LeadsAlone, Lose
<1> USE DEF Goto
<1>1. ASSUME Active' \subseteq Active, UNCHANGED <<lock, deadLocks>>
      PROVE  Active' \subseteq {lock'} /\ deadLocks' = {}
  BY <1>0, <1>1
<1>2. ASSUME NEW e \in Ids, Producer(e) PROVE Active' \subseteq {lock'} /\ deadLocks' = {}
  BY <1>1, <1>2 DEF Producer, Begin, CommitEvent, RollbackEvent, process, Active
<1>3. ASSUME NEW r \in Relays, RelayStep(r) PROVE Active' \subseteq {lock'} /\ deadLocks' = {}
  <2>1. CASE AcquireLeadership(r)
    <3>1. lock \in {None, r} /\ lock' = r
      BY <2>1 DEF AcquireLeadership, TryLock, SessionsOf
    <3>2. Active = {}
      BY <1>0, <2>1, <3>1 DEF AcquireLeadership, Active
    <3>3. UNCHANGED deadLocks /\ \A q \in Relays : q # r => pc'[q] = pc[q]
      BY <2>1 DEF AcquireLeadership, TypeOK
    <3> QED BY <1>0, <3>1, <3>2, <3>3 DEF Active
  <2>2. ASSUME pc[r] # "follower", \A q \in Relays : q # r => pc'[q] = pc[q],
               UNCHANGED <<lock, deadLocks>>
        PROVE  Active' \subseteq {lock'} /\ deadLocks' = {}
    BY <1>1, <2>2 DEF Active
  <2>3. CASE Tick(r)
    BY <2>2, <2>3 DEF Tick, TypeOK, server
  <2>4. CASE SelectBatch(r)
    BY <2>2, <2>4 DEF SelectBatch, TypeOK
  <2>5. ASSUME NEW e \in Ids, BrokerAccepts(r, e)
        PROVE  Active' \subseteq {lock'} /\ deadLocks' = {}
    BY <1>1, <2>5 DEF BrokerAccepts, server, Active
  <2>6. CASE PublishReturns(r)
    BY <2>2, <2>6 DEF PublishReturns, TypeOK, server
  <2>7. CASE MarkPublished(r)
    BY <2>2, <2>7 DEF MarkPublished, MarkRows, TypeOK
  <2>8. CASE MarkFindsTxGone(r)
    BY <2>2, <2>8 DEF MarkFindsTxGone, TypeOK
  <2>9. CASE DeleteOld(r)
    BY <2>2, <2>9 DEF DeleteOld, TypeOK
  <2> QED BY <1>3, <2>1, <2>3, <2>4, <2>5, <2>6, <2>7, <2>8, <2>9 DEF RelayStep, Cycle
<1>4. ASSUME NEW r \in Relays, Fault(r) PROVE Active' \subseteq {lock'} /\ deadLocks' = {}
  <2>1. CASE Stop(r)
    <3>1. /\ UNCHANGED deadLocks /\ pc'[r] = "follower"
          /\ \A q \in Relays : q # r => pc'[q] = pc[q]
      BY <2>1 DEF Stop, TypeOK
    <3>2. Active' = Active \ {r}
      BY <3>1 DEF Active
    <3>3. lock = r \/ lock' = lock
      BY <2>1 DEF Stop, Unlock, SessionsOf
    <3> QED BY <1>0, <3>1, <3>2, <3>3
  <2>2. CASE CycleFails(r) \/ CommitAnswerLost(r)
    <3>1. Active' \subseteq Active
      BY <2>2 DEF CycleFails, CommitAnswerLost, MarkRows, TypeOK, Active
    <3> QED BY <1>1, <2>2, <3>1 DEF CycleFails, CommitAnswerLost
  <2>3. ~(LoseLockSession(r) \/ LoseTxSession(r) \/ Crash(r))
    BY <1>0 DEF LoseLockSession, LoseTxSession, Crash
  <2> QED BY <1>4, <2>1, <2>2, <2>3 DEF Fault
<1>5. CASE DeadLockSessionEnds
  <2>1. Active = {}
    BY <1>0, <1>5 DEF DeadLockSessionEnds, Active
  <2> QED BY <1>0, <1>5, <2>1 DEF DeadLockSessionEnds, process, Active
<1>6. CASE DeadTxSessionsEnd
  BY <1>0, <1>6 DEF DeadTxSessionsEnd
<1>7. ~PoolSessionEnds
  BY DEF PoolSessionEnds
<1>8. CASE UNCHANGED vars
  BY <1>1, <1>8 DEF vars, Active
<1> QED BY <1>2, <1>3, <1>4, <1>5, <1>6, <1>7, <1>8 DEF Next, ServerStep

LEMMA LeadsInv == Spec => []LeadsAlone
BY LeadsInit, LeadsStep, Typing, PTL DEF Spec

\* With lock sessions of their own and none of them lost, two relays never run cycles:
\* what leader.go gives when no pooler in transaction mode stands before Postgres.
THEOREM OneActiveRelay == Spec => []SingleActiveRelay
<1>1. LeadsAlone => SingleActiveRelay
  <2> SUFFICES ASSUME Active \subseteq {lock} PROVE Cardinality(Active) <= 1
    BY DEF LeadsAlone, SingleActiveRelay, OneLeader
  <2>1. IsFiniteSet({lock}) /\ Cardinality({lock}) = 1
    BY FS_Singleton
  <2> QED BY <2>1, FS_Subset, FS_CardinalityType
<1> QED BY <1>1, LeadsInv, PTL

(***************************************************************************)
(* DuplicatesNeedFailures.  Copies of an event in the log, copies a relay  *)
(* is about to send, and the chance that another batch takes its row add   *)
(* up to one, plus one for each failure: a batch that ends without marking *)
(* gives the row back.  Row locks a crashed process left behind count as   *)
(* given back, for the server will drop them without another failure.      *)
(***************************************************************************)
Failures == errors + losses
Copies(e) == { i \in DOMAIN log[KeyOf[e]] : log[KeyOf[e]][i] = e }
Unsent(e) == { r \in Relays : e \in batch[r] \ sent[r] }
Available(e) == row[e] \notin {"published", "deleted"} /\ \A r \in Relays : e \notin txLocks[r]
Chance(e) == IF Available(e) THEN 1 ELSE 0
Within(e) == IsFiniteSet(Unsent(e))
             /\ Occurrences(e) + Cardinality(Unsent(e)) + Chance(e) <= 1 + Failures
CopiesInv == \A e \in Ids : Within(e)

LEMMA FailuresType == TypeOK => Failures \in Nat
BY DEF TypeOK, Failures

LEMMA CopiesFinite ==
  ASSUME TypeOK, NEW e \in Ids
  PROVE  IsFiniteSet(Copies(e)) /\ Occurrences(e) = Cardinality(Copies(e)) /\ Occurrences(e) \in Nat
<1>1. log[KeyOf[e]] \in Seq(Ids)
  BY DEF TypeOK
<1>2. DOMAIN log[KeyOf[e]] = 1..Len(log[KeyOf[e]]) /\ Len(log[KeyOf[e]]) \in Nat
  BY <1>1
<1>3. IsFiniteSet(DOMAIN log[KeyOf[e]])
  <2>1. IsFiniteSet(1..Len(log[KeyOf[e]]))
    <3> DEFINE n == Len(log[KeyOf[e]])
    <3>1. n \in Int
      BY <1>2
    <3> HIDE DEF n
    <3>2. IsFiniteSet(1..n)
      BY <3>1, FS_Interval
    <3> QED BY <3>2 DEF n
  <2> QED BY <1>2, <2>1
<1>4. Copies(e) \in SUBSET (DOMAIN log[KeyOf[e]])
  BY DEF Copies
<1>5. IsFiniteSet(Copies(e))
  BY <1>3, <1>4, FS_Subset
<1> QED BY <1>5, FS_CardinalityType DEF Copies, Occurrences

LEMMA CopiesInit == Init => CopiesInv
<1> SUFFICES ASSUME Init, NEW e \in Ids PROVE Within(e)
  BY DEF CopiesInv
<1>1. Unsent(e) = {} /\ Chance(e) = 1
  BY DEF Init, Unsent, Available, Chance
<1>2. { i \in DOMAIN log[KeyOf[e]] : log[KeyOf[e]][i] = e } = {}
  BY DEF Init
<1>3. Occurrences(e) = 0
  BY <1>2, FS_EmptySet DEF Occurrences
<1> QED BY <1>1, <1>3, FS_EmptySet DEF Init, Within, Failures

\* A step that publishes nothing may end batches; it gives a row back only for a failure.
LEMMA WithinFrame ==
  ASSUME TypeOK, TypeOK', NEW e \in Ids, Within(e), log' = log, Unsent(e)' \subseteq Unsent(e),
         \/ Failures' = Failures /\ (Available(e)' => Available(e))
         \/ Failures' = Failures + 1
  PROVE  Within(e)'
<1>1. Occurrences(e)' = Occurrences(e) /\ Occurrences(e) \in Nat
  BY CopiesFinite DEF Occurrences
<1>2. IsFiniteSet(Unsent(e)') /\ Cardinality(Unsent(e)') <= Cardinality(Unsent(e))
      /\ Cardinality(Unsent(e)') \in Nat /\ Cardinality(Unsent(e)) \in Nat
  BY FS_Subset, FS_CardinalityType DEF Within
<1>3. Failures \in Nat /\ Failures' \in Nat
  BY FailuresType
<1>4. Chance(e) \in {0, 1} /\ Chance(e)' \in {0, 1} /\ (Chance(e)' = 1 => Available(e)')
      /\ (Available(e) => Chance(e) = 1)
  BY DEF Chance
<1>5. Occurrences(e) + Cardinality(Unsent(e)) + Chance(e) <= 1 + Failures
  BY DEF Within
<1>6. Occurrences(e)' + Cardinality(Unsent(e)') + Chance(e)' <= 1 + Failures'
  <2>1. PICK o \in Nat, u \in Nat, v \in Nat :
          o = Occurrences(e) /\ u = Cardinality(Unsent(e)) /\ v = Cardinality(Unsent(e)')
    BY <1>1, <1>2
  <2>2. PICK c \in 0..1, d \in 0..1 : c = Chance(e) /\ d = Chance(e)'
    BY <1>4
  <2>3. o + u + c <= 1 + Failures /\ v <= u
    BY <1>2, <1>5, <2>1, <2>2
  <2>4. Failures' = Failures + 1 \/ (Failures' = Failures /\ d <= c)
    BY <1>4, <2>2
  <2>5. o + v + d <= 1 + Failures'
    <3>1. PICK x \in Nat, y \in Nat : x = Failures /\ y = Failures'
      BY <1>3
    <3>2. o + u + c <= 1 + x /\ v <= u /\ (y = x + 1 \/ (y = x /\ d <= c))
      BY <2>3, <2>4, <3>1
    <3>3. o + v + d <= 1 + y
      BY <3>2
    <3> QED BY <3>1, <3>3
  <2> QED BY <1>1, <2>1, <2>2, <2>5
<1> QED BY <1>2, <1>6 DEF Within

LEMMA CopiesAccept ==
  ASSUME TypeOK, TypeOK', CopiesInv, NEW r \in Relays, NEW e \in Ids, BrokerAccepts(r, e)
  PROVE  CopiesInv'
<1> DEFINE k == KeyOf[e]
<1>1. /\ k \in Keys /\ log[k] \in Seq(Ids) /\ Len(log[k]) \in Nat
      /\ DOMAIN log[k] = 1..Len(log[k])
  BY DEF TypeOK
<1>2. /\ log'[k] = Append(log[k], e) /\ \A j \in Keys : j # k => log'[j] = log[j]
      /\ e \in batch[r] \ sent[r] /\ sent' = [sent EXCEPT ![r] = @ \cup {e}]
      /\ UNCHANGED <<row, txLocks, batch, errors, losses>>
  BY <1>1 DEF BrokerAccepts, server, budget, TypeOK
<1>3. /\ DOMAIN log'[k] = 1..(Len(log[k]) + 1) /\ log'[k][Len(log[k]) + 1] = e
      /\ \A i \in DOMAIN log[k] : log'[k][i] = log[k][i]
  BY <1>1, <1>2
<1> SUFFICES ASSUME NEW f \in Ids PROVE Within(f)'
  BY DEF CopiesInv
<1>4. Chance(f)' = Chance(f)
  BY <1>2 DEF Chance, Available
<1>5. Failures \in Nat /\ Failures' = Failures /\ Chance(f) \in {0, 1} /\ Within(f)
  BY <1>2, FailuresType DEF Failures, Chance, CopiesInv
<1>6. CASE f = e
  <2>1. Copies(e)' = Copies(e) \cup {Len(log[k]) + 1} /\ Len(log[k]) + 1 \notin Copies(e)
    BY <1>1, <1>3 DEF Copies
  <2>2. Occurrences(e)' = Occurrences(e) + 1
    <3>1. Cardinality(Copies(e) \cup {Len(log[k]) + 1}) = Cardinality(Copies(e)) + 1
      BY <2>1, CopiesFinite, FS_AddElement
    <3>2. Cardinality(Copies(e)') = Cardinality(Copies(e)) + 1
      BY <2>1, <3>1
    <3> QED BY <3>2, CopiesFinite DEF Occurrences, Copies
  <2>3. Unsent(e)' = Unsent(e) \ {r} /\ r \in Unsent(e)
    BY <1>2 DEF Unsent, TypeOK
  <2>4. IsFiniteSet(Unsent(e) \ {r})
        /\ Cardinality(Unsent(e) \ {r}) = Cardinality(Unsent(e)) - 1
    BY <2>3, <1>5, <1>6, FS_RemoveElement DEF Within
  <2>5. IsFiniteSet(Unsent(e)') /\ Cardinality(Unsent(e)') = Cardinality(Unsent(e)) - 1
    BY <2>3, <2>4
  <2>6. Occurrences(e) \in Nat /\ Cardinality(Unsent(e)) \in Nat
    BY <1>5, <1>6, CopiesFinite, FS_CardinalityType DEF Within
  <2>7. Occurrences(e)' + Cardinality(Unsent(e)') + Chance(e)' <= 1 + Failures'
    BY <1>4, <1>5, <1>6, <2>2, <2>5, <2>6 DEF Within
  <2> QED BY <1>6, <2>5, <2>7 DEF Within
<1>7. CASE f # e
  <2>1. Copies(f)' = Copies(f)
    <3>1. CASE KeyOf[f] = k
      <4>1. \A i : i \in DOMAIN log'[k] <=> i \in DOMAIN log[k] \/ i = Len(log[k]) + 1
        BY <1>1, <1>3
      <4>2. \A i \in DOMAIN log[k] : log'[k][i] = log[k][i]
        BY <1>3
      <4>3. log'[k][Len(log[k]) + 1] # f
        BY <1>3, <1>7
      <4>4. \A i : i \in DOMAIN log'[k] /\ log'[k][i] = f <=> i \in DOMAIN log[k] /\ log[k][i] = f
        BY <4>1, <4>2, <4>3
      <4>5. /\ Copies(f) = { i \in DOMAIN log[k] : log[k][i] = f }
            /\ Copies(f)' = { i \in DOMAIN log'[k] : log'[k][i] = f }
        BY <3>1 DEF Copies
      <4> HIDE DEF k
      <4> QED BY <4>4, <4>5
    <3>2. CASE KeyOf[f] # k
      BY <1>2, <3>2 DEF Copies
    <3> QED BY <3>1, <3>2
  <2>2. Unsent(f)' = Unsent(f)
    BY <1>2, <1>7 DEF Unsent, TypeOK
  <2>3. Occurrences(f)' = Occurrences(f)
    BY <2>1 DEF Occurrences, Copies
  <2> QED BY <1>2, <1>4, <1>5, <2>2, <2>3 DEF Within
<1> QED BY <1>6, <1>7

\* A batch takes its rows out of everybody's reach.
LEMMA CopiesSelect ==
  ASSUME TypeOK, TypeOK', IInv, CopiesInv, NEW r \in Relays, SelectBatch(r)
  PROVE  CopiesInv'
<1>1. /\ batch'[r] = Candidates /\ sent'[r] = {} /\ txLocks'[r] = Candidates
      /\ \A q \in Relays : q # r => /\ batch'[q] = batch[q] /\ sent'[q] = sent[q]
                                   /\ txLocks'[q] = txLocks[q]
      /\ UNCHANGED <<row, log, errors, losses>>
  BY DEF SelectBatch, budget, TypeOK
<1>2. txLocks[r] = {} /\ batch[r] = {}
  BY DEF SelectBatch, TypeOK, IInv, BatchInv
<1>3. Candidates \subseteq Visible \ RowLocked
  BY DEF Candidates, Lowest
<1> SUFFICES ASSUME NEW e \in Ids PROVE Within(e)'
  BY DEF CopiesInv
<1>4. Failures \in Nat /\ Failures' = Failures /\ Within(e)
  BY <1>1, FailuresType DEF Failures, CopiesInv
<1>5. CASE e \in Candidates
  <2>1. Unsent(e)' = Unsent(e) \cup {r} /\ r \notin Unsent(e)
    BY <1>1, <1>2, <1>5 DEF Unsent
  <2>2. Available(e)
    BY <1>3, <1>5 DEF Available, Visible, RowLocked
  <2>3. ~Available(e)'
    BY <1>1, <1>5 DEF Available
  <2>4. IsFiniteSet(Unsent(e) \cup {r})
        /\ Cardinality(Unsent(e) \cup {r}) = Cardinality(Unsent(e)) + 1
    BY <2>1, <1>4, FS_AddElement DEF Within
  <2>5. IsFiniteSet(Unsent(e)') /\ Cardinality(Unsent(e)') = Cardinality(Unsent(e)) + 1
    BY <2>1, <2>4
  <2>6. Occurrences(e) \in Nat /\ Cardinality(Unsent(e)) \in Nat /\ Occurrences(e)' = Occurrences(e)
    BY <1>1, <1>4, CopiesFinite, FS_CardinalityType DEF Within, Occurrences
  <2>7. Chance(e) = 1 /\ Chance(e)' = 0
    BY <2>2, <2>3 DEF Chance
  <2>8. Occurrences(e)' + Cardinality(Unsent(e)') + Chance(e)' <= 1 + Failures'
    BY <1>1, <1>4, <2>5, <2>6, <2>7 DEF Within
  <2> QED BY <2>5, <2>8 DEF Within
<1>6. CASE e \notin Candidates
  <2>1. Unsent(e)' \subseteq Unsent(e) /\ (Available(e)' => Available(e))
    BY <1>1, <1>2, <1>6 DEF Unsent, Available
  <2> QED BY <1>1, <1>4, <2>1, WithinFrame
<1> QED BY <1>5, <1>6

\* The batch of r ends; for an event it had locked this costs a failure or marks the row.
LEMMA CopiesEnd ==
  ASSUME TypeOK, TypeOK', CopiesInv, NEW r \in Relays, EndBatch(r), UNCHANGED log,
         \/ Failures' = Failures + 1
         \/ /\ Failures' = Failures
            /\ \A e \in Ids : row[e] \in {"published", "deleted"} => row'[e] \in {"published", "deleted"}
            /\ \A e \in txLocks[r] : row'[e] = "published"
  PROVE  CopiesInv'
<1>1. /\ batch'[r] = {} /\ sent'[r] = {} /\ txLocks'[r] = {}
      /\ \A q \in Relays : q # r =>
           batch'[q] = batch[q] /\ sent'[q] = sent[q] /\ txLocks'[q] = txLocks[q]
  BY DEF EndBatch, TypeOK
<1> SUFFICES ASSUME NEW e \in Ids PROVE Within(e)'
  BY DEF CopiesInv
<1>2. Unsent(e)' \subseteq Unsent(e) /\ Within(e)
  BY <1>1 DEF Unsent, CopiesInv
<1>3. CASE Failures' = Failures + 1
  BY <1>2, <1>3, WithinFrame
<1>4. CASE Failures' # Failures + 1
  <2>1. Available(e)' => Available(e)
    BY <1>1, <1>4 DEF Available
  <2> QED BY <1>2, <1>4, <2>1, WithinFrame
<1> QED BY <1>3, <1>4

LEMMA CopiesFrame ==
  ASSUME TypeOK, TypeOK', CopiesInv, UNCHANGED <<log, batch, sent, txLocks>>,
         Failures' \in {Failures, Failures + 1},
         \A e \in Ids : row[e] \in {"published", "deleted"} => row'[e] \in {"published", "deleted"}
  PROVE  CopiesInv'
<1> SUFFICES ASSUME NEW e \in Ids PROVE Within(e)'
  BY DEF CopiesInv
<1>1. Unsent(e)' \subseteq Unsent(e) /\ Within(e) /\ (Available(e)' => Available(e))
  BY DEF Unsent, CopiesInv, Available
<1> QED BY <1>1, WithinFrame

LEMMA CopiesStep == TypeOK /\ TypeOK' /\ IInv /\ CopiesInv /\ [Next]_vars => CopiesInv'
<1> SUFFICES ASSUME TypeOK, TypeOK', IInv, CopiesInv, [Next]_vars PROVE CopiesInv'
  OBVIOUS
<1>0. errors \in Nat /\ losses \in Nat
      /\ (UNCHANGED <<errors, losses>> => Failures' = Failures)
  <2>1. errors \in Nat /\ losses \in Nat
    BY DEF TypeOK
  <2> QED BY <2>1 DEF Failures
<1> USE DEF Goto, server, process, budget
<1>1. ASSUME NEW e \in Ids, Producer(e) PROVE CopiesInv'
  <2>1. /\ UNCHANGED <<log, batch, sent, txLocks, errors, losses>>
        /\ row[e] \in {"unused", "open"} /\ \A f \in Ids : f # e => row'[f] = row[f]
    BY <1>1 DEF Producer, Begin, CommitEvent, RollbackEvent, TypeOK
  <2>2. \A f \in Ids : row[f] \in {"published", "deleted"} => row'[f] \in {"published", "deleted"}
    BY <2>1
  <2> QED BY <1>0, <2>1, <2>2, CopiesFrame
<1>2. ASSUME NEW r \in Relays, MarkRows(r)
      PROVE  /\ \A e \in Ids : row[e] \in {"published", "deleted"} => row'[e] \in {"published", "deleted"}
             /\ \A e \in txLocks[r] : row'[e] = "published"
  <2>1. txLocks[r] = batch[r] /\ batch[r] \subseteq Ids
    BY <1>2 DEF MarkRows, IInv, BatchInv, TypeOK
  <2>2. \A e \in Ids : e \in batch[r] => row[e] = "unpublished"
    BY <2>1 DEF IInv, RowsOwnedOnce, RowLocked, Visible
  <2> QED BY <1>2, <2>1, <2>2 DEF MarkRows, Marked
<1>3. ASSUME NEW r \in Relays, RelayStep(r) PROVE CopiesInv'
  <2>1. CASE AcquireLeadership(r) \/ Tick(r) \/ PublishReturns(r)
    BY <1>0, <2>1, CopiesFrame DEF AcquireLeadership, Tick, PublishReturns
  <2>2. CASE SelectBatch(r)
    BY <2>2, CopiesSelect
  <2>3. ASSUME NEW e \in Ids, BrokerAccepts(r, e) PROVE CopiesInv'
    BY <2>3, CopiesAccept
  <2>4. CASE MarkPublished(r)
    BY <1>0, <1>2, <2>4, CopiesEnd DEF MarkPublished
  <2>5. CASE MarkFindsTxGone(r)
    BY <1>0, <2>5, CopiesEnd DEF MarkFindsTxGone
  <2>6. CASE DeleteOld(r)
    <3>1. \A e \in Ids : row[e] \in {"published", "deleted"} => row'[e] \in {"published", "deleted"}
      BY <2>6 DEF DeleteOld
    <3> QED BY <1>0, <2>6, <3>1, CopiesFrame DEF DeleteOld
  <2> QED BY <1>3, <2>1, <2>2, <2>3, <2>4, <2>5, <2>6 DEF RelayStep, Cycle
<1>4. ASSUME NEW r \in Relays, Fault(r) PROVE CopiesInv'
  <2>0. Failures' = Failures + 1
    BY <1>0, <1>4 DEF Fault, Stop, CycleFails, CommitAnswerLost, LoseLockSession, LoseTxSession,
                      Crash, Fail, Lose, Failures
  <2>1. CASE Stop(r) \/ LoseLockSession(r)
    BY <2>0, <2>1, CopiesFrame DEF Stop, LoseLockSession
  <2>2. CASE CycleFails(r) \/ CommitAnswerLost(r) \/ Crash(r)
    BY <2>0, <2>2, CopiesEnd DEF CycleFails, CommitAnswerLost, Crash
  <2>3. CASE LoseTxSession(r)
    <3> SUFFICES ASSUME NEW e \in Ids PROVE Within(e)'
      BY DEF CopiesInv
    <3>1. Unsent(e)' \subseteq Unsent(e) /\ Within(e)
      BY <2>3 DEF LoseTxSession, Unsent, CopiesInv
    <3> QED BY <2>0, <2>3, <3>1, WithinFrame DEF LoseTxSession
  <2> QED BY <1>4, <2>1, <2>2, <2>3 DEF Fault
<1>5. CASE ServerStep
  BY <1>0, <1>5, CopiesFrame DEF ServerStep, DeadLockSessionEnds, DeadTxSessionsEnd, PoolSessionEnds
<1>6. CASE UNCHANGED vars
  BY <1>0, <1>6, CopiesFrame DEF vars
<1> QED BY <1>1, <1>3, <1>4, <1>5, <1>6 DEF Next

\* An event reaches the broker once, and at most once more for each failure: retries are
\* the only source of duplicates, however relays, crashes and lost sessions interleave.
THEOREM DuplicatesBounded == Spec => []DuplicatesNeedFailures
<1>1. TypeOK /\ CopiesInv => DuplicatesNeedFailures
  <2> SUFFICES ASSUME TypeOK, NEW e \in Ids, Within(e)
               PROVE  Occurrences(e) <= 1 + errors + losses
    BY DEF CopiesInv, DuplicatesNeedFailures
  <2>1. Occurrences(e) \in Nat /\ Cardinality(Unsent(e)) \in Nat /\ Chance(e) \in {0, 1}
        /\ errors \in Nat /\ losses \in Nat
    BY CopiesFinite, FS_CardinalityType DEF Within, Chance, TypeOK
  <2> QED BY <2>1 DEF Within, Failures
<1> QED BY <1>1, CopiesInit, CopiesStep, Typing, Invariance, PTL DEF Spec

-----------------------------------------------------------------------------
(***************************************************************************)
(* CommittedKeyOrder.  While one relay leads it selects with no row lock   *)
(* in its way, so with an event it takes every earlier one of the same key    *)
(* that is committed and not yet published; within the batch a key goes    *)
(* out in the order of the ids.                                            *)
(***************************************************************************)
IsFirst(k, e, i) ==
  i \in DOMAIN log[k] /\ log[k][i] = e /\ \A j \in 1..(i - 1) : log[k][j] # e

Earlier(e, f) == KeyOf[e] = KeyOf[f] /\ e < f /\ CommittedBefore(e, f)

CommitsFit ==
  /\ \A e \in Ids : e \in Committed <=> \E i \in DOMAIN commits : commits[i] = e
  /\ IsFiniteSet(Committed)
FirstThere == \A e \in Delivered : \E i \in DOMAIN log[KeyOf[e]] : IsFirst(KeyOf[e], e, i)
BatchClosed ==
  \A r \in Relays : \A f \in batch[r], e \in Ids :
    Earlier(e, f) => e \in batch[r] \/ e \in Delivered
LogOrdered ==
  \A e \in Ids, f \in Delivered :
    Earlier(e, f) => /\ e \in Delivered
                     /\ \E i, j \in DOMAIN log[KeyOf[e]] :
                          IsFirst(KeyOf[e], e, i) /\ IsFirst(KeyOf[e], f, j) /\ i < j
OrderInv == CommitsFit /\ FirstThere /\ (Pool = {} /\ losses = 0 => BatchClosed /\ LogOrdered)

LEMMA OrderInit == Init => OrderInv
<1> SUFFICES ASSUME Init PROVE OrderInv
  OBVIOUS
<1>1. Committed = {} /\ DOMAIN commits = {}
  BY DEF Init, Committed
<1>2. Delivered = {}
  <2>1. \A e \in Ids : DOMAIN log[KeyOf[e]] = {}
    BY DEF Init
  <2> QED BY <2>1 DEF Delivered
<1> QED
  BY <1>1, <1>2, FS_EmptySet DEF Init, OrderInv, CommitsFit, FirstThere, BatchClosed, LogOrdered

\* A partition has one first record of an event.
LEMMA FirstUnique ==
  ASSUME TypeOK, NEW k \in Keys, NEW e, NEW i, NEW j, IsFirst(k, e, i), IsFirst(k, e, j)
  PROVE  i = j /\ First(k, e) = i
<1>1. log[k] \in Seq(Ids)
  BY DEF TypeOK
<1>2. DOMAIN log[k] = 1..Len(log[k]) /\ Len(log[k]) \in Nat
  BY <1>1
<1>3. \A a, b \in DOMAIN log[k] : a < b => a \in 1..(b - 1)
  BY <1>2
<1>4. \A a, b : IsFirst(k, e, a) /\ IsFirst(k, e, b) => a = b
  <2> SUFFICES ASSUME NEW a, NEW b, IsFirst(k, e, a), IsFirst(k, e, b) PROVE a = b
    OBVIOUS
  <2>1. ~(a < b) /\ ~(b < a)
    BY <1>3 DEF IsFirst
  <2>2. a \in Nat /\ b \in Nat
    BY <1>2 DEF IsFirst
  <2> QED BY <2>1, <2>2
<1>5. First(k, e) = CHOOSE a : IsFirst(k, e, a)
  BY DEF First, IsFirst
<1>6. IsFirst(k, e, First(k, e))
  <2>1. \E a \in DOMAIN log[k] : log[k][a] = e /\ \A b \in 1..(a - 1) : log[k][b] # e
    BY DEF IsFirst
  <2>2. /\ First(k, e) \in DOMAIN log[k]
        /\ log[k][First(k, e)] = e /\ \A b \in 1..(First(k, e) - 1) : log[k][b] # e
    BY <2>1 DEF First
  <2> QED BY <2>2 DEF IsFirst
<1> QED BY <1>4, <1>6

\* A record more leaves the first records where they are.
LEMMA FirstStays ==
  ASSUME TypeOK, NEW f \in Ids, log' = [log EXCEPT ![KeyOf[f]] = Append(@, f)],
         NEW k \in Keys, NEW e, NEW i, IsFirst(k, e, i)
  PROVE  IsFirst(k, e, i)'
<1>1. KeyOf[f] \in Keys /\ log[KeyOf[f]] \in Seq(Ids) /\ log[k] \in Seq(Ids)
  BY DEF TypeOK
<1>2. CASE k # KeyOf[f]
  <2>1. log'[k] = log[k]
    BY <1>1, <1>2 DEF TypeOK
  <2> QED BY <2>1 DEF IsFirst
<1>3. CASE k = KeyOf[f]
  <2>1. log'[k] = Append(log[k], f)
    BY <1>1, <1>3 DEF TypeOK
  <2>2. DOMAIN log[k] = 1..Len(log[k]) /\ Len(log[k]) \in Nat
    BY <1>1
  <2>3. /\ DOMAIN log[k] \subseteq DOMAIN log'[k]
        /\ \A j \in DOMAIN log[k] : log'[k][j] = log[k][j]
    BY <1>1, <2>1, <2>2
  <2>4. i \in DOMAIN log[k] /\ \A j \in 1..(i - 1) : j \in DOMAIN log[k]
    BY <2>2 DEF IsFirst
  <2> QED BY <2>3, <2>4 DEF IsFirst
<1> QED BY <1>2, <1>3

\* Commits of others do not change the order in which two events committed.
LEMMA CommitsAppend ==
  ASSUME TypeOK, NEW g \in Ids, commits' = Append(commits, g),
         NEW e \in Ids, NEW f \in Ids, f # g, CommittedBefore(e, f)'
  PROVE  CommittedBefore(e, f)
<1>1. DOMAIN commits = 1..Len(commits) /\ Len(commits) \in Nat
  BY DEF TypeOK
<1>2. /\ DOMAIN commits' = 1..(Len(commits) + 1) /\ commits'[Len(commits) + 1] = g
      /\ \A i \in DOMAIN commits : commits'[i] = commits[i]
  BY <1>1 DEF TypeOK
<1>3. PICK i \in DOMAIN commits', j \in DOMAIN commits' : i < j /\ commits'[i] = e /\ commits'[j] = f
  BY DEF CommittedBefore
<1>4. j \in DOMAIN commits
  BY <1>1, <1>2, <1>3
<1>5. i \in DOMAIN commits
  BY <1>1, <1>2, <1>3, <1>4
<1> QED BY <1>2, <1>3, <1>4, <1>5 DEF CommittedBefore

-----------------------------------------------------------------------------
LEMMA OrderProducer ==
  ASSUME TypeOK, IInv, OrderInv, NEW e \in Ids, Producer(e)
  PROVE  OrderInv'
<1>1. UNCHANGED <<batch, log, losses>> /\ Delivered' = Delivered
  BY DEF Producer, Begin, CommitEvent, RollbackEvent, process, budget, Delivered
<1>2. FirstThere'
  BY <1>1 DEF OrderInv, FirstThere, IsFirst
<1>3. CASE CommitEvent(e)
  <2>1. /\ commits' = Append(commits, e) /\ e \notin Committed /\ Committed' = Committed \cup {e}
    BY <1>3 DEF CommitEvent, Committed, TypeOK
  <2>2. CommitsFit'
    <3>1. DOMAIN commits = 1..Len(commits) /\ Len(commits) \in Nat
      BY DEF TypeOK
    <3>2. /\ DOMAIN commits' = 1..(Len(commits) + 1) /\ commits'[Len(commits) + 1] = e
          /\ \A i \in DOMAIN commits : commits'[i] = commits[i]
      BY <2>1, <3>1 DEF TypeOK
    <3>3. IsFiniteSet(Committed \cup {e})
      BY FS_AddElement DEF OrderInv, CommitsFit
    <3>4. ASSUME NEW f \in Ids
          PROVE  f \in Committed' <=> \E i \in DOMAIN commits' : commits'[i] = f
      <4>1. CASE f = e
        <5>1. Len(commits) + 1 \in DOMAIN commits'
          BY <3>1, <3>2
        <5> QED BY <2>1, <3>2, <4>1, <5>1
      <4>2. CASE f # e
        <5>1. \A i \in DOMAIN commits' : commits'[i] = f => i \in DOMAIN commits
          BY <3>1, <3>2, <4>2
        <5>2. DOMAIN commits \subseteq DOMAIN commits'
          BY <3>1, <3>2
        <5> QED BY <2>1, <3>2, <4>2, <5>1, <5>2 DEF OrderInv, CommitsFit
      <4> QED BY <4>1, <4>2
    <3> QED BY <2>1, <3>3, <3>4 DEF CommitsFit
  <2>3. \A a \in Ids, b \in Committed : Earlier(a, b)' => Earlier(a, b)
    BY <2>1, CommitsAppend DEF Earlier, Committed
  <2>4. Delivered \subseteq Committed /\ \A r \in Relays : batch[r] \subseteq Committed
    BY DEF IInv, NoPhantomEvent, BatchInv
  <2>5. BatchClosed => BatchClosed'
    BY <1>1, <2>3, <2>4 DEF BatchClosed
  <2>6. LogOrdered => LogOrdered'
    BY <1>1, <2>3, <2>4 DEF LogOrdered, IsFirst
  <2> QED BY <1>1, <1>2, <2>2, <2>5, <2>6 DEF OrderInv
<1>4. CASE Begin(e) \/ RollbackEvent(e)
  <2>1. commits' = commits /\ Committed' = Committed
    BY <1>4 DEF Begin, RollbackEvent, Committed, TypeOK
  <2> QED
    BY <1>1, <1>2, <2>1 DEF OrderInv, CommitsFit, BatchClosed, LogOrdered, Earlier,
                            CommittedBefore, IsFirst
<1> QED BY <1>3, <1>4 DEF Producer

\* Steps that publish nothing and take no batch.
LEMMA OrderFrame ==
  ASSUME TypeOK, OrderInv, UNCHANGED <<log, commits>>, Committed' = Committed,
         losses' = 0 => losses = 0,
         \A r \in Relays : batch'[r] = batch[r] \/ batch'[r] = {}
  PROVE  OrderInv'
<1>1. Delivered' = Delivered
  BY DEF Delivered
<1>2. CommitsFit' /\ FirstThere' /\ (LogOrdered => LogOrdered')
  BY <1>1 DEF OrderInv, CommitsFit, FirstThere, LogOrdered, IsFirst, Earlier, CommittedBefore
<1>3. BatchClosed => BatchClosed'
  <2>1. \A e, f : Earlier(e, f)' <=> Earlier(e, f)
    BY DEF Earlier, CommittedBefore
  <2> QED BY <1>1, <2>1 DEF BatchClosed
<1> QED BY <1>2, <1>3 DEF OrderInv

LEMMA OrderSelect ==
  ASSUME TypeOK, IInv, LeadsAlone, OrderInv, NEW r \in Relays, SelectBatch(r)
  PROVE  OrderInv'
<1>1. /\ UNCHANGED <<row, log, commits, losses>> /\ Committed' = Committed
      /\ Delivered' = Delivered
      /\ batch'[r] = Candidates /\ \A q \in Relays : q # r => batch'[q] = batch[q]
  BY DEF SelectBatch, budget, Committed, Delivered, TypeOK
<1>2. CommitsFit' /\ FirstThere' /\ (LogOrdered => LogOrdered')
  BY <1>1 DEF OrderInv, CommitsFit, FirstThere, LogOrdered, IsFirst, Earlier, CommittedBefore
<1>3. \A a, b : Earlier(a, b)' <=> Earlier(a, b)
  BY <1>1 DEF Earlier, CommittedBefore
<1>4. ASSUME Pool = {}, losses = 0, BatchClosed PROVE BatchClosed'
  <2>1. RowLocked = {}
    <3>1. deadLocks = {} /\ \A q \in Active : q = r
      BY <1>4 DEF LeadsAlone, SelectBatch, Active
    <3>2. \A q \in Relays : pc[q] \in {"follower", "select"} => txLocks[q] = {}
      BY DEF TypeOK, IInv, BatchInv
    <3>3. \A q \in Relays : txLocks[q] = {}
      BY <3>1, <3>2 DEF SelectBatch, Active
    <3> QED BY <3>1, <3>3 DEF RowLocked
  <2>2. Candidates = Lowest(Visible)
    BY <2>1 DEF Candidates, Lowest
  <2>3. IsFiniteSet(Visible)
    <3>1. Visible \in SUBSET Committed
      BY DEF Visible, Committed
    <3> QED BY <3>1, FS_Subset DEF OrderInv, CommitsFit
  <2>4. ASSUME NEW f \in Candidates, NEW e \in Ids, Earlier(e, f)
        PROVE  e \in Candidates \/ e \in Delivered
    <3>1. e \in Committed
      BY <2>4 DEF Earlier, CommittedBefore, OrderInv, CommitsFit
    <3>2. CASE e \notin Visible
      BY <3>1, <3>2 DEF Visible, Committed, IInv, NoEventForgotten
    <3>3. CASE e \in Visible
      <4> DEFINE Upto(a) == { b \in Visible : b <= a }
      <4>1. f \in Visible /\ Cardinality(Upto(f)) <= BatchSize
        BY <2>2 DEF Lowest
      <4>2. Upto(e) \in SUBSET Upto(f) /\ Upto(f) \in SUBSET Visible
        <5>1. e < f /\ e \in Nat /\ f \in Nat /\ Visible \subseteq Nat
          BY <2>4, <4>1 DEF Earlier, Visible
        <5>2. \A b \in Visible : b <= e => b <= f
          BY <5>1
        <5> QED BY <5>2
      <4>3. IsFiniteSet(Upto(f))
        BY <2>3, <4>2, FS_Subset
      <4>4. IsFiniteSet(Upto(e)) /\ Cardinality(Upto(e)) <= Cardinality(Upto(f))
        BY <4>2, <4>3, FS_Subset
      <4>5. Cardinality(Upto(e)) \in Nat /\ Cardinality(Upto(f)) \in Nat
        BY <4>3, <4>4, FS_CardinalityType
      <4>6. Cardinality(Upto(e)) <= BatchSize
        <5> HIDE DEF Upto
        <5> QED BY <4>1, <4>4, <4>5
      <4> QED BY <2>2, <3>3, <4>6 DEF Lowest
    <3> QED BY <3>2, <3>3
  <2> SUFFICES ASSUME NEW q \in Relays, NEW f \in batch'[q], NEW e \in Ids, Earlier(e, f)
               PROVE  e \in batch'[q] \/ e \in Delivered
    BY <1>1, <1>3 DEF BatchClosed
  <2>5. CASE q = r
    BY <1>1, <2>4, <2>5
  <2>6. CASE q # r
    BY <1>1, <1>4, <2>6 DEF BatchClosed
  <2> QED BY <2>5, <2>6
<1> QED BY <1>1, <1>2, <1>4 DEF OrderInv

\* The batch sends what is earlier before what is later.
LEMMA OrderAccept ==
  ASSUME TypeOK, IInv, OrderInv, NEW r \in Relays, NEW f \in Ids, BrokerAccepts(r, f)
  PROVE  OrderInv'
<1> DEFINE k == KeyOf[f]
<1>1. /\ log' = [log EXCEPT ![k] = Append(@, f)] /\ k \in Keys
      /\ UNCHANGED <<row, batch, commits, losses>> /\ Committed' = Committed
      /\ Delivered' = Delivered \cup {f}
  BY DeliveredAppend DEF BrokerAccepts, server, budget, Committed
<1>2. /\ log[k] \in Seq(Ids) /\ DOMAIN log[k] = 1..Len(log[k]) /\ Len(log[k]) \in Nat
  BY <1>1 DEF TypeOK
<1>3. /\ DOMAIN log'[k] = 1..(Len(log[k]) + 1) /\ log'[k][Len(log[k]) + 1] = f
      /\ \A i \in DOMAIN log[k] : log'[k][i] = log[k][i]
  BY <1>1, <1>2 DEF TypeOK
<1>4. \A e \in Ids : \A i : IsFirst(KeyOf[e], e, i) => IsFirst(KeyOf[e], e, i)'
  BY <1>1, FirstStays
<1>5. PICK n \in Nat : n = Len(log[k]) + 1
  BY <1>2
<1>6. n \in DOMAIN log'[k] /\ (f \notin Delivered => IsFirst(k, f, n)')
  <2>1. n \in DOMAIN log'[k] /\ log'[k][n] = f /\ \A j \in 1..(n - 1) : j \in DOMAIN log[k]
    BY <1>2, <1>3, <1>5
  <2>2. f \notin Delivered => \A j \in DOMAIN log[k] : log[k][j] # f
    BY DEF Delivered
  <2> QED BY <1>3, <2>1, <2>2 DEF IsFirst
<1>7. \A j \in Keys : DOMAIN log[j] \subseteq DOMAIN log'[j]
  BY <1>1, <1>2, <1>3 DEF TypeOK
<1>8. CommitsFit' /\ (BatchClosed => BatchClosed') /\ \A a, b : Earlier(a, b)' <=> Earlier(a, b)
  BY <1>1 DEF OrderInv, CommitsFit, BatchClosed, Earlier, CommittedBefore
<1>9. FirstThere'
  <2> SUFFICES ASSUME NEW e \in Delivered'
               PROVE  \E i \in DOMAIN log'[KeyOf[e]] : IsFirst(KeyOf[e], e, i)'
    BY DEF FirstThere
  <2>1. CASE e \in Delivered
    <3>1. e \in Ids /\ KeyOf[e] \in Keys
      BY <2>1 DEF Delivered
    <3>2. PICK i \in DOMAIN log[KeyOf[e]] : IsFirst(KeyOf[e], e, i)
      BY <2>1 DEF OrderInv, FirstThere
    <3> QED BY <1>4, <1>7, <3>1, <3>2
  <2>2. CASE e = f /\ f \notin Delivered
    BY <1>6, <2>2
  <2> QED BY <1>1, <2>1, <2>2
<1>10. ASSUME Pool = {}, losses = 0, BatchClosed, LogOrdered PROVE LogOrdered'
  <2> SUFFICES ASSUME NEW e \in Ids, NEW g \in Delivered', Earlier(e, g)
               PROVE  /\ e \in Delivered'
                      /\ \E i, j \in DOMAIN log'[KeyOf[e]] :
                           IsFirst(KeyOf[e], e, i)' /\ IsFirst(KeyOf[e], g, j)' /\ i < j
    BY <1>8 DEF LogOrdered
  <2>0. KeyOf[e] \in Keys /\ KeyOf[e] = KeyOf[g]
    BY DEF Earlier
  <2>1. CASE g \in Delivered
    <3>1. e \in Delivered /\ g \in Ids
      BY <1>10, <2>1 DEF LogOrdered, Delivered
    <3>2. PICK i \in DOMAIN log[KeyOf[e]], j \in DOMAIN log[KeyOf[e]] :
            IsFirst(KeyOf[e], e, i) /\ IsFirst(KeyOf[e], g, j) /\ i < j
      BY <1>10, <2>1 DEF LogOrdered
    <3>3. IsFirst(KeyOf[e], e, i)' /\ IsFirst(KeyOf[e], g, j)'
      BY <1>4, <2>0, <3>1, <3>2
    <3>4. i \in DOMAIN log'[KeyOf[e]] /\ j \in DOMAIN log'[KeyOf[e]]
      BY <1>7, <2>0
    <3> QED BY <1>1, <3>1, <3>2, <3>3, <3>4
  <2>2. CASE g = f /\ f \notin Delivered
    <3>1. e < f /\ KeyOf[e] = k /\ f \in batch[r]
      BY <2>2 DEF Earlier, BrokerAccepts
    <3>2. e \notin batch[r] \ sent[r]
      <4>1. ~(f <= e)
        BY <3>1
      <4> QED BY <3>1, <4>1 DEF BrokerAccepts
    <3>3. e \in Delivered
      BY <1>10, <2>2, <3>1, <3>2 DEF BatchClosed, IInv, BatchInv
    <3>4. PICK i \in DOMAIN log[k] : IsFirst(k, e, i)
      BY <3>1, <3>3 DEF OrderInv, FirstThere
    <3>5. i < n /\ i \in DOMAIN log'[k] /\ IsFirst(k, e, i)'
      BY <1>1, <1>2, <1>4, <1>5, <1>7, <3>1, <3>4
    <3> QED BY <1>1, <1>6, <2>2, <3>1, <3>3, <3>5
  <2> QED BY <1>1, <2>1, <2>2
<1> QED BY <1>1, <1>8, <1>9, <1>10 DEF OrderInv

LEMMA OrderStep ==
  TypeOK /\ IInv /\ LeadsAlone /\ OrderInv /\ [Next]_vars => OrderInv'
<1> SUFFICES ASSUME TypeOK, IInv, LeadsAlone, OrderInv, [Next]_vars PROVE OrderInv'
  OBVIOUS
<1>0. losses' = 0 => losses = 0
  BY LossesStay
<1> USE DEF server, process
<1>1. ASSUME NEW e \in Ids, Producer(e) PROVE OrderInv'
  BY <1>1, OrderProducer
<1>2. ASSUME NEW r \in Relays, EndBatch(r) PROVE \A q \in Relays : batch'[q] \in {batch[q], {}}
  BY <1>2 DEF EndBatch, TypeOK
<1>3. ASSUME NEW r \in Relays, MarkRows(r) PROVE Committed' = Committed
  <2>1. batch[r] \subseteq Committed
    BY DEF IInv, BatchInv
  <2> QED BY <1>3, <2>1 DEF MarkRows, Marked, Committed
<1>4. row' = row => Committed' = Committed
  BY DEF Committed
<1>5. ASSUME NEW r \in Relays, RelayStep(r) PROVE OrderInv'
  <2>1. CASE AcquireLeadership(r) \/ Tick(r) \/ PublishReturns(r)
    BY <1>0, <1>4, <2>1, OrderFrame DEF AcquireLeadership, Tick, PublishReturns
  <2>2. CASE SelectBatch(r)
    BY <2>2, OrderSelect
  <2>3. ASSUME NEW e \in Ids, BrokerAccepts(r, e) PROVE OrderInv'
    BY <2>3, OrderAccept
  <2>4. CASE MarkPublished(r)
    BY <1>0, <1>2, <1>3, <2>4, OrderFrame DEF MarkPublished
  <2>5. CASE MarkFindsTxGone(r)
    BY <1>0, <1>2, <1>4, <2>5, OrderFrame DEF MarkFindsTxGone
  <2>6. CASE DeleteOld(r)
    <3>1. Committed' = Committed
      BY <2>6 DEF DeleteOld, Deletable, Committed
    <3> QED BY <1>0, <2>6, <3>1, OrderFrame DEF DeleteOld
  <2> QED BY <1>5, <2>1, <2>2, <2>3, <2>4, <2>5, <2>6 DEF RelayStep, Cycle
<1>6. ASSUME NEW r \in Relays, Fault(r) PROVE OrderInv'
  <2>1. CASE Stop(r) \/ LoseLockSession(r) \/ LoseTxSession(r)
    BY <1>0, <1>4, <2>1, OrderFrame DEF Stop, LoseLockSession, LoseTxSession
  <2>2. CASE CycleFails(r) \/ Crash(r)
    BY <1>0, <1>2, <1>4, <2>2, OrderFrame DEF CycleFails, Crash
  <2>3. CASE CommitAnswerLost(r)
    BY <1>0, <1>2, <1>3, <2>3, OrderFrame DEF CommitAnswerLost
  <2> QED BY <1>6, <2>1, <2>2, <2>3 DEF Fault
<1>7. CASE ServerStep
  BY <1>0, <1>4, <1>7, OrderFrame DEF ServerStep, DeadLockSessionEnds, DeadTxSessionsEnd, PoolSessionEnds
<1>8. CASE UNCHANGED vars
  BY <1>0, <1>4, <1>8, OrderFrame DEF vars
<1> QED BY <1>1, <1>5, <1>6, <1>7, <1>8 DEF Next

\* With lock sessions of the relays' own and none lost, of two events of a key that got
\* their ids and committed in the same order, the broker never has the later one without
\* the earlier before it.
THEOREM KeyOrderKept == Spec => []CommittedKeyOrder
<1>1. TypeOK /\ OrderInv => CommittedKeyOrder
  <2> SUFFICES ASSUME TypeOK, OrderInv, Pool = {}, losses = 0, NEW e \in Ids, NEW f \in Delivered, Earlier(e, f)
               PROVE  e \in Delivered /\ First(KeyOf[e], e) < First(KeyOf[f], f)
    BY DEF CommittedKeyOrder, Earlier
  <2>1. KeyOf[e] \in Keys /\ KeyOf[e] = KeyOf[f] /\ e \in Delivered
    BY DEF Earlier, OrderInv, LogOrdered
  <2>2. PICK i, j : IsFirst(KeyOf[e], e, i) /\ IsFirst(KeyOf[e], f, j) /\ i < j
    BY DEF OrderInv, LogOrdered
  <2>3. First(KeyOf[e], e) = i /\ First(KeyOf[e], f) = j
    BY <2>1, <2>2, FirstUnique
  <2> QED BY <2>1, <2>2, <2>3
<1> QED BY <1>1, OrderInit, OrderStep, LeadsInv, Typing, Invariance, PTL DEF Spec
=============================================================================
