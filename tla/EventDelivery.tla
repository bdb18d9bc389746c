--------------------------- MODULE EventDelivery ---------------------------
(***************************************************************************)
(* What the transactional outbox promises to the consumers of its topics:  *)
(* an event is delivered only when the transaction that emitted it has     *)
(* committed, the producing side forgets an event only when the broker has *)
(* it, and nothing the broker accepted is taken back.  Delivery may be     *)
(* repeated, before and after the event is forgotten: consumers dedupe.    *)
(*                                                                         *)
(* OutboxRelay implements this specification.                              *)
(***************************************************************************)
EXTENDS Sequences

CONSTANTS Events,   \* event ids
          Keys,     \* Kafka record keys
          KeyOf     \* the key an event is published under

VARIABLES emitted,  \* events whose transaction has committed
          log,      \* per key, the events in the order the broker has them
          settled   \* events the producing side will never publish on its own again

vars == <<emitted, log, settled>>

Delivered == { e \in Events : \E i \in DOMAIN log[KeyOf[e]] : log[KeyOf[e]][i] = e }

Init ==
  /\ emitted = {}
  /\ log = [k \in Keys |-> <<>>]
  /\ settled = {}

Emit(e) ==
  /\ e \notin emitted
  /\ emitted' = emitted \cup {e}
  /\ UNCHANGED <<log, settled>>

Deliver(e) ==
  /\ e \in emitted
  /\ log' = [log EXCEPT ![KeyOf[e]] = Append(@, e)]
  /\ UNCHANGED <<emitted, settled>>

Settle(S) ==
  /\ S \subseteq Delivered
  /\ settled' = settled \cup S
  /\ UNCHANGED <<emitted, log>>

Next ==
  \/ \E e \in Events : Emit(e) \/ Deliver(e)
  \/ \E S \in SUBSET Events : Settle(S)

Spec == Init /\ [][Next]_vars
=============================================================================
