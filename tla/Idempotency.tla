---------------------------- MODULE Idempotency ----------------------------
(***************************************************************************)
(* The Idempotency-Key middleware (pkg/idem) for one key: a client's first *)
(* request and its retries, served by any API pods at the same time.  Keys *)
(* never touch each other's Redis entries, so one key is enough.           *)
(*                                                                         *)
(* A request without the key's lock gets 409; the lock is a Redis entry    *)
(* with a 30 s TTL that anyone who runs the handler deletes at the end.    *)
(* A client can go away at any moment, which cancels the request's         *)
(* context: the handler may still commit, but SET and DEL fail.  They may  *)
(* fail by themselves too; nobody looks.  Every answer of the handler is   *)
(* recorded, a refusal that changed nothing like a success.                *)
(*                                                                         *)
(* Bound: MaxExpiries, the times the lock's TTL runs out.                  *)
(***************************************************************************)
EXTENDS Naturals, FiniteSets

CONSTANTS
  Requests,     \* the first request and the client's retries
  MaxExpiries,  \* bound on expiries of the lock
  Unlucky,      \* requests whose client may leave, whose pod or Redis may fail
  NoRecord      \* no answer is stored

ASSUME ExpiriesAssumption == MaxExpiries \in Nat
ASSUME RequestsAssumption ==
  IsFiniteSet(Requests) /\ NoRecord \notin Requests /\ Unlucky \subseteq Requests

VARIABLES
  record,    \* the request whose answer idem:{key} holds
  lock,      \* whether idem:{key}:lock exists
  pc,        \* next Redis call of each request
  gone,      \* requests whose context was cancelled
  answer,    \* what the client of a request was told
  effects,   \* requests whose handler changed the database
  stored,    \* history: requests whose answer was stored
  stale,     \* history: requests that took the lock although a record was there
  unsaved,   \* history: requests that freed the lock with their answer not stored
  expiries   \* times the lock expired so far

histories == <<stored, stale, unsaved>>
vars == <<record, lock, pc, gone, answer, effects, histories, expiries>>

Stages == {"get", "setnx", "handler", "set", "del", "done"}
NoAnswer == "none"
Conflict == "409"

TypeOK ==
  /\ record \in Requests \cup {NoRecord}
  /\ lock \in BOOLEAN
  /\ pc \in [Requests -> Stages]
  /\ gone \subseteq Unlucky
  /\ answer \in [Requests -> Requests \cup {NoAnswer, Conflict}]
  /\ effects \subseteq Requests
  /\ stored \subseteq { r \in Requests : answer[r] = r }
  /\ IF stored = {} THEN record = NoRecord ELSE record \in stored
  /\ stale \subseteq Requests
  /\ unsaved \subseteq Unlucky \ stored
  /\ expiries \in 0..MaxExpiries

Init ==
  /\ record = NoRecord
  /\ lock = FALSE
  /\ pc = [r \in Requests |-> "get"]
  /\ gone = {}
  /\ answer = [r \in Requests |-> NoAnswer]
  /\ effects = {}
  /\ stored = {} /\ stale = {} /\ unsaved = {}
  /\ expiries = 0

Goto(r, stage) == pc' = [pc EXCEPT ![r] = stage]
Answer(r, a) == answer' = [answer EXCEPT ![r] = a]

-----------------------------------------------------------------------------
\* GET idem:{key}: a completed duplicate is replayed.
Replay(r) ==
  /\ pc[r] = "get"
  /\ r \notin gone
  /\ record # NoRecord
  /\ Answer(r, record)
  /\ Goto(r, "done")
  /\ UNCHANGED <<record, lock, gone, effects, histories, expiries>>

\* A miss; an error of the GET is taken for one.
Miss(r) ==
  /\ pc[r] = "get"
  /\ record = NoRecord \/ r \in Unlucky
  /\ Goto(r, "setnx")
  /\ UNCHANGED <<record, lock, gone, answer, effects, histories, expiries>>

LockIgnored(r) == TRUE   \* mutant: SET instead of SETNX
LockFree(r) == ~lock

\* SETNX idem:{key}:lock succeeds; the record is not looked at again.
Claim(r) ==
  /\ pc[r] = "setnx"
  /\ r \notin gone
  /\ LockFree(r)
  /\ lock' = TRUE
  /\ stale' = IF record = NoRecord THEN stale ELSE stale \cup {r}
  /\ Goto(r, "handler")
  /\ UNCHANGED <<record, gone, answer, effects, stored, unsaved, expiries>>

Refuse(r) ==
  /\ pc[r] = "setnx"
  /\ ~LockFree(r)
  /\ Answer(r, Conflict)
  /\ Goto(r, "done")
  /\ UNCHANGED <<record, lock, gone, effects, histories, expiries>>

\* The handler commits, or refuses and changes nothing; its response goes to the client
\* while it is recorded.
Handle(r) ==
  /\ pc[r] = "handler"
  /\ effects' \in {effects, effects \cup {r}}
  /\ Answer(r, r)
  /\ Goto(r, "set")
  /\ UNCHANGED <<record, lock, gone, histories, expiries>>

KeptElsewhere(r) == record' = record /\ stored' = stored \cup {r}  \* mutant: another key
Kept(r) == record' = r /\ stored' = stored \cup {r}

\* SET idem:{key}; an error, by a cancelled context or by Redis, is ignored.
Store(r) ==
  /\ pc[r] = "set"
  /\ \/ r \notin gone /\ Kept(r)
     \/ r \in Unlucky /\ UNCHANGED <<record, stored>>
  /\ Goto(r, "del")
  /\ UNCHANGED <<lock, gone, answer, effects, stale, unsaved, expiries>>

\* DEL idem:{key}:lock, whichever request holds it by now; an error is ignored too.
Unlock(r) ==
  \/ /\ r \notin gone
     /\ lock' = FALSE
     /\ unsaved' = IF r \in stored THEN unsaved ELSE unsaved \cup {r}
  \/ r \in Unlucky /\ UNCHANGED <<lock, unsaved>>

Release(r) ==
  /\ pc[r] = "del"
  /\ Unlock(r)
  /\ Goto(r, "done")
  /\ UNCHANGED <<record, gone, answer, effects, stored, stale, expiries>>

-----------------------------------------------------------------------------
\* The client gives up: the request's context is cancelled.
ClientLeaves(r) ==
  /\ r \in Unlucky \ gone
  /\ pc[r] # "done"
  /\ gone' = gone \cup {r}
  /\ UNCHANGED <<record, lock, pc, answer, effects, histories, expiries>>

\* The pod dies, or a call of the request fails with an error answer: the request
\* ends where it is and leaves its lock behind.
Abandon(r) ==
  /\ r \in Unlucky
  /\ pc[r] # "done"
  /\ Goto(r, "done")
  /\ UNCHANGED <<record, lock, gone, answer, effects, histories, expiries>>

LockExpires ==
  /\ lock /\ expiries < MaxExpiries
  /\ lock' = FALSE
  /\ expiries' = expiries + 1
  /\ UNCHANGED <<record, pc, gone, answer, effects, histories>>

Request(r) ==
  \/ Replay(r) \/ Miss(r) \/ Claim(r) \/ Refuse(r) \/ Handle(r) \/ Store(r)
  \/ Release(r) \/ Abandon(r)

Next ==
  \/ \E r \in Requests : Request(r) \/ ClientLeaves(r)
  \/ LockExpires

Spec == Init /\ [][Next]_vars

-----------------------------------------------------------------------------
InHandler == { r \in Requests : pc[r] \in {"handler", "set", "del"} }

\* Handlers of one key overlap only if the lock expired under one of them: n
\* expiries let at most n + 1 run at once, although a late DEL may remove the
\* lock of another request.
OverlapNeedsExpiry ==
  Cardinality(InHandler) <= expiries + (IF lock THEN 1 ELSE 0)

\* A key takes effect once, and once more at most for each of the three ways past it: a
\* lock that expired, a request that took the lock with a record already there (the GET
\* before it missed), and a lock freed by a request whose answer was not stored.
EffectsNeedCauses ==
  Cardinality(effects) <= 1 + expiries + Cardinality(stale) + Cardinality(unsaved)

\* What an idempotency key is for: a client that retries gets the effect once.
\* "handler must run exactly once" (idem_test.go).
AtMostOneEffect == Cardinality(effects) <= 1

=============================================================================
