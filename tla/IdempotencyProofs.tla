------------------------- MODULE IdempotencyProofs -------------------------
(***************************************************************************)
(* How far handlers of one idempotency key overlap and how often it takes  *)
(* effect, for any number of requests and any number of lock expiries.     *)
(***************************************************************************)
EXTENDS Idempotency, FiniteSetTheorems, TLAPS

\* What a request has behind it where it is.
PastStages ==
  \A r \in Requests :
    /\ pc[r] = "set" => answer[r] = r
    /\ pc[r] = "del" => r \in stored \cup Unlucky
    /\ pc[r] # "done" => r \notin unsaved
    /\ pc[r] \in {"get", "setnx", "handler", "set"} => r \notin stored
    /\ pc[r] \in {"get", "setnx"} => r \notin effects /\ r \notin stale

IInv == TypeOK /\ PastStages

-----------------------------------------------------------------------------
(* One request enters or leaves the handler at a time.                      *)

LEMMA InHandlerFinite ==
  /\ IsFiniteSet(InHandler)
  /\ Cardinality(InHandler) \in Nat
<1>1. IsFiniteSet(InHandler)
  BY RequestsAssumption, FS_Subset DEF InHandler
<1> QED BY <1>1, FS_CardinalityType

\* Entering adds one request to InHandler.
LEMMA Entering ==
  ASSUME NEW r \in Requests, r \notin InHandler, InHandler' = InHandler \cup {r}
  PROVE  Cardinality(InHandler') = Cardinality(InHandler) + 1
BY InHandlerFinite, FS_AddElement

\* Leaving takes one away.
LEMMA Leaving ==
  ASSUME NEW r \in Requests, r \in InHandler, InHandler' = InHandler \ {r}
  PROVE  Cardinality(InHandler') = Cardinality(InHandler) - 1
BY InHandlerFinite, FS_RemoveElement

-----------------------------------------------------------------------------
LEMMA InitIInv == Init => IInv
<1> SUFFICES ASSUME Init PROVE IInv
  OBVIOUS
<1>1. expiries \in 0..MaxExpiries
  BY ExpiriesAssumption DEF ExpiriesAssumption, Init
<1>2. lock \in BOOLEAN
  BY DEF Init
<1>3. IF stored = {} THEN record = NoRecord ELSE record \in stored
  BY DEF Init
<1>4. PastStages
  BY DEF Init, PastStages
<1> QED BY <1>1, <1>2, <1>3, <1>4 DEF Init, IInv, TypeOK, Stages, NoAnswer

LEMMA NextIInv == IInv /\ [Next]_vars => IInv'
<1> SUFFICES ASSUME IInv, [Next]_vars PROVE IInv'
  OBVIOUS
<1> USE RequestsAssumption
<1> USE DEF IInv, TypeOK, PastStages, Stages, NoAnswer, Conflict, Goto, Answer, histories
<1>1. CASE UNCHANGED vars
  BY <1>1 DEF vars
<1>2. CASE LockExpires
  <2>1. expiries' \in 0..MaxExpiries
    BY <1>2, ExpiriesAssumption DEF ExpiriesAssumption, LockExpires
  <2>2. lock' \in BOOLEAN
    BY <1>2 DEF LockExpires
  <2> QED BY <1>2, <2>1, <2>2 DEF LockExpires
<1>3. ASSUME NEW r \in Requests, ClientLeaves(r) PROVE IInv'
  BY <1>3 DEF ClientLeaves
<1>4. ASSUME NEW r \in Requests, Request(r) PROVE IInv'
  <2>1. CASE Replay(r)
    BY <2>1 DEF Replay
  <2>2. CASE Miss(r)
    BY <2>2 DEF Miss
  <2>3. CASE Claim(r)
    BY <2>3 DEF Claim
  <2>4. CASE Refuse(r)
    BY <2>4 DEF Refuse
  <2>5. CASE Handle(r)
    BY <2>5 DEF Handle
  <2>6. CASE Store(r)
    BY <2>6 DEF Store, Kept
  <2>7. CASE Release(r)
    BY <2>7 DEF Release, Unlock
  <2>8. CASE Abandon(r)
    BY <2>8 DEF Abandon
  <2> QED BY <1>4, <2>1, <2>2, <2>3, <2>4, <2>5, <2>6, <2>7, <2>8 DEF Request
<1> QED BY <1>1, <1>2, <1>3, <1>4 DEF Next

LEMMA Invariance == Spec => []IInv
BY InitIInv, NextIInv, PTL DEF Spec

\* Types: whatever clients, pods and Redis do, the record holds what some request's own
\* client was told, and it is empty only as long as no answer was stored.
THEOREM Typing == Spec => []TypeOK
BY Invariance, PTL DEF IInv

-----------------------------------------------------------------------------
LEMMA InitOverlap == Init => OverlapNeedsExpiry
<1> SUFFICES ASSUME Init PROVE OverlapNeedsExpiry
  OBVIOUS
<1>1. InHandler = {}
  BY DEF Init, InHandler
<1> QED BY <1>1, FS_EmptySet DEF OverlapNeedsExpiry, Init

LEMMA NextOverlap ==
  TypeOK /\ OverlapNeedsExpiry /\ [Next]_vars => OverlapNeedsExpiry'
<1> SUFFICES ASSUME TypeOK, OverlapNeedsExpiry, [Next]_vars
             PROVE  OverlapNeedsExpiry'
  OBVIOUS
<1>a. /\ expiries \in Nat
      /\ lock \in BOOLEAN
      /\ pc \in [Requests -> Stages]
      /\ Cardinality(InHandler) \in Nat
  BY ExpiriesAssumption, InHandlerFinite DEF TypeOK
\* Steps inside or outside the handler leave the sum alone.
<1>b. ASSUME InHandler' = InHandler, UNCHANGED <<lock, expiries>>
      PROVE  OverlapNeedsExpiry'
  BY <1>b DEF OverlapNeedsExpiry
\* A request that leaves takes at most one lock with it.
<1>c. ASSUME NEW r \in Requests, InHandler' = InHandler \ {r}, expiries' = expiries,
             r \in InHandler \/ lock' = lock,
             lock' = lock \/ lock' = FALSE
      PROVE  OverlapNeedsExpiry'
  <2>1. CASE r \in InHandler
    <3>1. Cardinality(InHandler') = Cardinality(InHandler) - 1
      BY <1>c, <2>1, Leaving
    <3> QED BY <3>1, <1>a, <1>c DEF OverlapNeedsExpiry
  <2>2. CASE r \notin InHandler
    BY <2>2, <1>b, <1>c
  <2> QED BY <2>1, <2>2
<1>1. CASE UNCHANGED vars
  <2>1. InHandler' = InHandler /\ UNCHANGED <<lock, expiries>>
    BY <1>1 DEF vars, InHandler
  <2> QED BY <2>1, <1>b
<1>2. CASE LockExpires
  <2>1. InHandler' = InHandler
    BY <1>2 DEF LockExpires, InHandler
  <2> QED BY <2>1, <1>2, <1>a DEF LockExpires, OverlapNeedsExpiry
<1>3. ASSUME NEW r \in Requests, ClientLeaves(r) PROVE OverlapNeedsExpiry'
  <2>1. InHandler' = InHandler /\ UNCHANGED <<lock, expiries>>
    BY <1>3 DEF ClientLeaves, InHandler
  <2> QED BY <2>1, <1>b
<1>4. ASSUME NEW r \in Requests, Request(r) PROVE OverlapNeedsExpiry'
  <2>1. CASE Replay(r) \/ Miss(r) \/ Refuse(r) \/ Handle(r) \/ Store(r)
    <3>1. InHandler' = InHandler
      BY <2>1, <1>a DEF Replay, Miss, Refuse, Handle, Store, Goto, InHandler, Stages
    <3>2. UNCHANGED <<lock, expiries>>
      BY <2>1 DEF Replay, Miss, Refuse, Handle, Store
    <3> QED BY <3>1, <3>2, <1>b
  <2>2. CASE Claim(r)
    <3>1. r \notin InHandler /\ InHandler' = InHandler \cup {r}
      BY <2>2, <1>a DEF Claim, Goto, InHandler, Stages
    <3>2. Cardinality(InHandler') = Cardinality(InHandler) + 1
      BY <3>1, Entering
    <3> QED BY <3>2, <2>2, <1>a DEF Claim, LockFree, OverlapNeedsExpiry
  <2>3. CASE Release(r)
    <3>1. r \in InHandler /\ InHandler' = InHandler \ {r}
      BY <2>3, <1>a DEF Release, Goto, InHandler, Stages
    <3> QED BY <3>1, <2>3, <1>c DEF Release, Unlock
  <2>4. CASE Abandon(r)
    <3>1. InHandler' = InHandler \ {r}
      BY <2>4, <1>a DEF Abandon, Goto, InHandler, Stages
    <3> QED BY <3>1, <2>4, <1>c DEF Abandon
  <2> QED BY <1>4, <2>1, <2>2, <2>3, <2>4 DEF Request
<1> QED BY <1>1, <1>2, <1>3, <1>4 DEF Next

\* Handlers of one key overlap only as often as the lock expired: for any number
\* of requests, at most one more runs than the lock had expiries, although a
\* request may delete the lock of another.
THEOREM BoundedOverlap == Spec => []OverlapNeedsExpiry
BY InitOverlap, NextOverlap, Typing, PTL DEF Spec

-----------------------------------------------------------------------------
(***************************************************************************)
(* EffectsNeedCauses.  Prompt are the requests that took the lock with no  *)
(* record there and are in their handler, or took effect.  As long as no   *)
(* answer is stored, each but the one that has the lock lost it to its TTL *)
(* or freed it unsaved; with a record, no request is prompt any more.      *)
(***************************************************************************)
Prompt == { r \in Requests \ stale : pc[r] = "handler" \/ r \in effects }
Causes == expiries + Cardinality(unsaved)

PromptBound ==
  /\ Cardinality(Prompt) <= 1 + Causes
  /\ record = NoRecord => Cardinality(Prompt) <= Causes + (IF lock THEN 1 ELSE 0)

LEMMA SetsFinite ==
  TypeOK => /\ IsFiniteSet(Prompt) /\ Cardinality(Prompt) \in Nat
            /\ IsFiniteSet(stale) /\ Cardinality(stale) \in Nat
            /\ IsFiniteSet(unsaved) /\ Cardinality(unsaved) \in Nat
            /\ expiries \in Nat
<1> SUFFICES ASSUME TypeOK
             PROVE
                 /\ IsFiniteSet(Prompt) /\ Cardinality(Prompt) \in Nat
                 /\ IsFiniteSet(stale) /\ Cardinality(stale) \in Nat
                 /\ IsFiniteSet(unsaved) /\ Cardinality(unsaved) \in Nat
                 /\ expiries \in Nat
  OBVIOUS
<1>1. Prompt \in SUBSET Requests /\ stale \in SUBSET Requests /\ unsaved \in SUBSET Requests
  BY RequestsAssumption DEF Prompt, TypeOK
<1>2. IsFiniteSet(Prompt) /\ IsFiniteSet(stale) /\ IsFiniteSet(unsaved)
  BY <1>1, RequestsAssumption, FS_Subset
<1>3. expiries \in Nat
  BY ExpiriesAssumption DEF TypeOK
<1> QED BY <1>2, <1>3, FS_CardinalityType

LEMMA InitPrompt == Init => PromptBound
<1> SUFFICES ASSUME Init PROVE PromptBound
  OBVIOUS
<1>1. Prompt = {} /\ unsaved = {} /\ expiries = 0
  BY DEF Init, Prompt
<1> QED BY <1>1, FS_EmptySet DEF Init, PromptBound, Causes

\* A step that makes nobody prompt and gives up the lock only for a cause, or with a
\* record there, keeps the bound.
LEMMA PromptFrame ==
  ASSUME TypeOK, TypeOK', PromptBound, Prompt' \subseteq Prompt,
         record' = NoRecord => record = NoRecord,
         \/ Causes' = Causes /\ (lock' = lock \/ record' # NoRecord)
         \/ Causes' = Causes + 1
  PROVE  PromptBound'
<1>1. /\ Cardinality(Prompt) \in Nat /\ Cardinality(Prompt') \in Nat
      /\ Cardinality(Prompt') <= Cardinality(Prompt)
  BY SetsFinite, FS_Subset, FS_CardinalityType
<1>2. Causes \in Nat /\ Causes' \in Nat
  BY SetsFinite DEF Causes
<1>3. PICK p \in Nat, q \in Nat, c \in Nat, d \in Nat :
        p = Cardinality(Prompt) /\ q = Cardinality(Prompt') /\ c = Causes /\ d = Causes'
  BY <1>1, <1>2
<1>4. q <= p /\ p <= 1 + c /\ (d = c \/ d = c + 1)
  BY <1>1, <1>3 DEF PromptBound
<1>5. q <= 1 + d
  BY <1>4
<1>6. record' = NoRecord => q <= d + (IF lock' THEN 1 ELSE 0)
  <2>1. ASSUME record' = NoRecord, d = c + 1 PROVE q <= d + (IF lock' THEN 1 ELSE 0)
    BY <1>4, <2>1
  <2>2. ASSUME record' = NoRecord, d # c + 1 PROVE q <= d + (IF lock' THEN 1 ELSE 0)
    <3>1. lock' = lock /\ d = c /\ p <= c + (IF lock THEN 1 ELSE 0)
      BY <1>3, <1>4, <2>2 DEF PromptBound
    <3> QED BY <1>4, <3>1
  <2> QED BY <2>1, <2>2
<1> QED BY <1>3, <1>5, <1>6 DEF PromptBound

\* Taking the lock with no record there uses the one place that is free.
LEMMA PromptClaim ==
  ASSUME IInv, TypeOK', PromptBound, NEW r \in Requests, Claim(r)
  PROVE  PromptBound'
<1>1. /\ pc[r] = "setnx" /\ pc' = [pc EXCEPT ![r] = "handler"] /\ lock = FALSE /\ lock' = TRUE
      /\ UNCHANGED <<record, effects, unsaved, expiries>> /\ pc \in [Requests -> Stages]
      /\ r \notin effects
  BY DEF Claim, LockFree, Goto, IInv, TypeOK, PastStages
<1>2. Causes' = Causes /\ Causes \in Nat
  BY <1>1, SetsFinite DEF Causes, IInv
<1>3. CASE record # NoRecord
  <2>1. stale' = stale \cup {r}
    BY <1>3 DEF Claim
  <2>2. Prompt' \subseteq Prompt
    BY <1>1, <2>1 DEF Prompt, Stages
  <2> QED BY <1>1, <1>2, <1>3, <2>2, PromptFrame DEF IInv
<1>4. CASE record = NoRecord
  <2>1. stale' = stale
    BY <1>4 DEF Claim
  <2>2. Prompt' \subseteq Prompt \cup {r} /\ r \notin Prompt
    BY <1>1, <2>1 DEF Prompt, Stages
  <2>3. IsFiniteSet(Prompt) /\ Cardinality(Prompt) \in Nat
    BY SetsFinite DEF IInv
  <2>4. IsFiniteSet(Prompt \cup {r}) /\ Cardinality(Prompt \cup {r}) = Cardinality(Prompt) + 1
    BY <2>2, <2>3, FS_AddElement
  <2>5. Cardinality(Prompt') \in Nat /\ Cardinality(Prompt') <= Cardinality(Prompt) + 1
    BY <2>2, <2>3, <2>4, FS_Subset, FS_CardinalityType
  <2>6. Cardinality(Prompt) <= Causes
    BY <1>1, <1>2, <1>4, <2>3 DEF PromptBound
  <2> QED BY <1>1, <1>2, <2>3, <2>5, <2>6 DEF PromptBound
<1> QED BY <1>3, <1>4

LEMMA NextPrompt == IInv /\ TypeOK' /\ PromptBound /\ [Next]_vars => PromptBound'
<1> SUFFICES ASSUME IInv, TypeOK', PromptBound, [Next]_vars PROVE PromptBound'
  OBVIOUS
<1>0. TypeOK /\ pc \in [Requests -> Stages] /\ expiries \in Nat /\ Cardinality(unsaved) \in Nat
  BY SetsFinite DEF IInv, TypeOK
<1> USE DEF Goto, histories
<1>1. CASE UNCHANGED vars
  BY <1>0, <1>1, PromptFrame DEF vars, Prompt, Causes
<1>2. CASE LockExpires
  <2>1. Prompt' = Prompt /\ UNCHANGED record
    BY <1>2 DEF LockExpires, Prompt
  <2>2. expiries' = expiries + 1 /\ UNCHANGED unsaved
    BY <1>2 DEF LockExpires
  <2>3. Causes' = Causes + 1
    BY <1>0, <2>2 DEF Causes
  <2> QED BY <1>0, <2>1, <2>3, PromptFrame
<1>3. ASSUME NEW r \in Requests, ClientLeaves(r) PROVE PromptBound'
  BY <1>0, <1>3, PromptFrame DEF ClientLeaves, Prompt, Causes
<1>4. ASSUME NEW r \in Requests, Request(r) PROVE PromptBound'
  <2>1. ASSUME pc[r] # "handler", UNCHANGED <<effects, stale, unsaved, expiries, lock>>,
               \E stage \in Stages \ {"handler"} : pc' = [pc EXCEPT ![r] = stage],
               record' = NoRecord => record = NoRecord
        PROVE  PromptBound'
    <3>1. Prompt' \subseteq Prompt /\ Causes' = Causes
      BY <1>0, <2>1 DEF Prompt, Causes
    <3> QED BY <1>0, <2>1, <3>1, PromptFrame
  <2>2. CASE Replay(r) \/ Miss(r) \/ Refuse(r)
    BY <2>1, <2>2 DEF Replay, Miss, Refuse, Stages
  <2>3. CASE Claim(r)
    BY <2>3, PromptClaim
  <2>4. CASE Handle(r)
    <3>1. Prompt' \subseteq Prompt /\ Causes' = Causes /\ UNCHANGED <<record, lock>>
      <4>1. r \notin stale => r \in Prompt
        BY <2>4 DEF Handle, Prompt
      <4> QED BY <1>0, <2>4, <4>1 DEF Handle, Prompt, Causes
    <3> QED BY <1>0, <3>1, PromptFrame
  <2>5. CASE Store(r)
    <3>1. record' = NoRecord => record = NoRecord
      BY <2>5, RequestsAssumption DEF Store, Kept
    <3> QED BY <2>1, <2>5, <3>1 DEF Store, Stages
  <2>6. CASE Release(r)
    <3>1. Prompt' \subseteq Prompt /\ UNCHANGED <<record, expiries>>
      BY <1>0, <2>6 DEF Release, Prompt
    <3>2. CASE UNCHANGED <<lock, unsaved>>
      BY <1>0, <3>1, <3>2, PromptFrame DEF Causes
    <3>3. CASE unsaved' = unsaved /\ r \in stored
      <4>1. record' # NoRecord
        BY <3>1, <3>3, RequestsAssumption DEF IInv, TypeOK
      <4> QED BY <1>0, <3>1, <3>3, <4>1, PromptFrame DEF Causes
    <3>4. CASE unsaved' = unsaved \cup {r} /\ r \notin stored
      <4>1. r \notin unsaved /\ IsFiniteSet(unsaved)
        BY <1>0, <2>6, SetsFinite DEF Release, IInv, PastStages
      <4>2. Cardinality(unsaved') = Cardinality(unsaved) + 1
        BY <3>4, <4>1, FS_AddElement
      <4>3. Causes' = Causes + 1
        BY <1>0, <3>1, <4>2 DEF Causes
      <4> QED BY <1>0, <3>1, <4>3, PromptFrame
    <3> QED BY <2>6, <3>2, <3>3, <3>4 DEF Release, Unlock
  <2>7. CASE Abandon(r)
    <3>1. Prompt' \subseteq Prompt /\ Causes' = Causes /\ UNCHANGED <<record, lock>>
      BY <1>0, <2>7 DEF Abandon, Prompt, Causes
    <3> QED BY <1>0, <3>1, PromptFrame
  <2> QED BY <1>4, <2>2, <2>3, <2>4, <2>5, <2>6, <2>7 DEF Request
<1> QED BY <1>1, <1>2, <1>3, <1>4 DEF Next

\* A key takes effect once, and once more at most for each expiry of its lock, each
\* request that took the lock with a record already there, and each that freed it with
\* its answer not stored: for any number of requests, however they overlap and fail.
THEOREM EffectsBounded == Spec => []EffectsNeedCauses
<1>1. TypeOK /\ PromptBound => EffectsNeedCauses
  <2> SUFFICES ASSUME TypeOK, PromptBound
               PROVE  Cardinality(effects) <= 1 + expiries + Cardinality(stale) + Cardinality(unsaved)
    BY DEF EffectsNeedCauses
  <2>1. /\ IsFiniteSet(Prompt) /\ IsFiniteSet(stale) /\ expiries \in Nat
        /\ Cardinality(Prompt) \in Nat /\ Cardinality(stale) \in Nat /\ Cardinality(unsaved) \in Nat
    BY SetsFinite
  <2>2. effects \subseteq Prompt \cup stale
    BY DEF Prompt, TypeOK
  <2>3. IsFiniteSet(Prompt \cup stale)
        /\ Cardinality(Prompt \cup stale) =
             Cardinality(Prompt) + Cardinality(stale) - Cardinality(Prompt \cap stale)
    BY <2>1, FS_Union
  <2>4. Prompt \cap stale = {}
    BY DEF Prompt
  <2>5. Cardinality(effects) \in Nat /\ Cardinality(effects) <= Cardinality(Prompt \cup stale)
    BY <2>2, <2>3, FS_Subset, FS_CardinalityType
  <2> QED BY <2>1, <2>3, <2>4, <2>5, FS_EmptySet DEF PromptBound, Causes
<1> QED BY <1>1, InitPrompt, NextPrompt, Invariance, Typing, PTL DEF Spec

=============================================================================
