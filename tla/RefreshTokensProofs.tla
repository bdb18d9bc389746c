------------------------ MODULE RefreshTokensProofs ------------------------
(***************************************************************************)
(* Proofs about RefreshTokens, for every number of concurrent requests,    *)
(* every set of token ids and every clock skew between the pods.           *)
(***************************************************************************)
EXTENDS RefreshTokens, TLAPS

USE IdsAssumption

LEMMA TypeInit == Init => TypeOK
BY DEF Init, TypeOK, Rows, NoToken, Stages

\* What one INSERT does to the table.
LEMMA InsertRow ==
  ASSUME TypeOK, NEW n \in Ids, NEW f \in Ids, Insert(n, f)
  PROVE  /\ n \notin Rows /\ Rows' = Rows \cup {n}
         /\ status' \in [Ids -> {"none", "live", "revoked"}]
         /\ family' \in [Ids -> Ids \cup {NoToken}]
         /\ status'[n] = "live" /\ family'[n] = f
         /\ \A t \in Ids : t # n => status'[t] = status[t] /\ family'[t] = family[t]
BY DEF Insert, NewId, Rows, TypeOK

FamiliesClosed ==
  \A t \in Ids : /\ t \in Rows => family[t] \in Rows /\ family[family[t]] = family[t]
                 /\ t \notin Rows => family[t] = NoToken

\* A row joins its own family or one that exists.
LEMMA InsertClosed ==
  ASSUME TypeOK, NEW n \in Ids, NEW f \in Ids, Insert(n, f), f = n \/ (f \in Rows /\ family[f] = f)
  PROVE  FamiliesClosed'
<1> SUFFICES ASSUME NEW t \in Ids
             PROVE  /\ t \in Rows' => family'[t] \in Rows' /\ family'[family'[t]] = family'[t]
                    /\ t \notin Rows' => family'[t] = NoToken
    BY DEF FamiliesClosed
<1>1. CASE t = n
  <2>1. family'[t] = f /\ f \in Rows' /\ family'[f] = f BY <1>1, InsertRow DEF Rows
  <2>2. QED BY <2>1, <1>1, InsertRow
<1>2. CASE t # n /\ t \in Rows
  <2>1. family[t] \in Rows /\ family[family[t]] = family[t] /\ family[t] \in Ids
    BY <1>2 DEF TypeOK, Rows
  <2>2. family'[t] = family[t] /\ family[t] # n BY <1>2, <2>1, InsertRow
  <2>3. QED BY <1>2, <2>1, <2>2, InsertRow
<1>3. CASE t # n /\ t \notin Rows
  BY <1>3, InsertRow DEF TypeOK
<1>4. QED BY <1>1, <1>2, <1>3

LEMMA TypeStep == TypeOK /\ [Next]_vars => TypeOK'
<1> SUFFICES ASSUME TypeOK, [Next]_vars PROVE TypeOK'
    OBVIOUS
<1> USE DEF TypeOK, Stages, history
<1>1. ASSUME NEW n \in Ids, IssueNewFamily(n) PROVE TypeOK'
  <2>1. Insert(n, n) /\ UNCHANGED <<pc, arg, history>> BY <1>1 DEF IssueNewFamily
  <2>2. FamiliesClosed' BY <2>1, InsertClosed
  <2>3. /\ status' \in [Ids -> {"none", "live", "revoked"}]
        /\ family' \in [Ids -> Ids \cup {NoToken}]
        /\ Rows' = Rows \cup {n}
    BY <2>1, InsertRow
  <2>4. \A r \in Requests : IF pc'[r] = "idle" THEN arg'[r] = NoToken ELSE arg'[r] \in Rows'
    <3>1. \A r \in Requests : IF pc[r] = "idle" THEN arg[r] = NoToken ELSE arg[r] \in Rows
      OBVIOUS
    <3>2. Rows \subseteq Rows' /\ UNCHANGED <<pc, arg>> BY <2>1, <2>3
    <3>3. QED BY <3>1, <3>2
  <2>5. QED BY <2>1, <2>2, <2>3, <2>4 DEF FamiliesClosed
<1>2. ASSUME NEW r \in Requests, NEW t \in Ids, RotateSelect(r, t) \/ LogoutSelect(r, t)
      PROVE  TypeOK'
  <2>1. t \in Rows /\ Rows' = Rows BY <1>2 DEF RotateSelect, LogoutSelect, Rows
  <2>2. /\ UNCHANGED <<status, family, history>>
        /\ \E stage \in Stages \ {"idle"} :
             pc' = [pc EXCEPT ![r] = stage] /\ arg' = [arg EXCEPT ![r] = t]
    BY <1>2 DEF RotateSelect, LogoutSelect, Start
  <2>3. \A q \in Requests : IF pc'[q] = "idle" THEN arg'[q] = NoToken ELSE arg'[q] \in Rows'
    <3>1. pc'[r] # "idle" /\ arg'[r] \in Rows' BY <2>1, <2>2
    <3>2. \A q \in Requests : q # r => pc'[q] = pc[q] /\ arg'[q] = arg[q] BY <2>2
    <3>3. QED BY <2>1, <3>1, <3>2
  <2>4. pc' \in [Requests -> Stages] /\ arg' \in [Requests -> Ids \cup {NoToken}] BY <2>2
  <2>5. QED BY <2>1, <2>2, <2>3, <2>4
<1>3. ASSUME NEW r \in Requests, NEW n \in Ids, RotateInsert(r, n) PROVE TypeOK'
  <2> DEFINE g == FamilyOf(r)
  <2>1. Insert(n, g) /\ arg[r] \in Rows /\ arg[r] \in Ids
    BY <1>3 DEF RotateInsert, Rows
  <2>2. g \in Rows /\ g \in Ids /\ family[g] = g BY <2>1 DEF FamilyOf, Rows
  <2>3. FamiliesClosed' BY <2>1, <2>2, InsertClosed
  <2>4. parent' \in [Ids -> Ids \cup {NoToken}] BY <1>3, <2>1 DEF RotateInsert
  <2>5. \A q \in Requests : IF pc'[q] = "idle" THEN arg'[q] = NoToken ELSE arg'[q] \in Rows'
    <3>1. pc'[r] = "idle" /\ arg'[r] = NoToken BY <1>3 DEF RotateInsert, Done, Start
    <3>2. \A q \in Requests : q # r => pc'[q] = pc[q] /\ arg'[q] = arg[q]
      BY <1>3 DEF RotateInsert, Done, Start
    <3>3. Rows \subseteq Rows'
      <4>1. Rows' = Rows \cup {n} BY <2>1, <2>2, InsertRow
      <4>2. QED BY <4>1
    <3>4. QED BY <3>1, <3>2, <3>3
  <2>6. pc' \in [Requests -> Stages] /\ arg' \in [Requests -> Ids \cup {NoToken}]
    BY <1>3 DEF RotateInsert, Done, Start
  <2>7. QED
    BY <1>3, <2>1, <2>2, <2>3, <2>4, <2>5, <2>6, InsertRow DEF RotateInsert, FamiliesClosed
<1>4. ASSUME NEW r \in Requests, RotateUpdate(r) PROVE TypeOK'
  <2>1. arg[r] \in Rows /\ arg[r] \in Ids BY <1>4 DEF RotateUpdate, Rows
  <2>2. Rows' = Rows BY <1>4, <2>1 DEF RotateUpdate, Rows
  <2>3. QED BY <1>4, <2>1, <2>2 DEF RotateUpdate, Goto
<1>5. ASSUME NEW r \in Requests, RotateLost(r) \/ RotateReplay(r) \/ RequestFails(r)
      PROVE  TypeOK'
  <2>1. UNCHANGED <<status, family, history>> /\ Rows' = Rows
    BY <1>5 DEF RotateLost, RotateReplay, RequestFails, Rows
  <2>2. pc[r] # "idle" /\ (Goto(r, "revoke") \/ Done(r))
    BY <1>5 DEF RotateLost, RotateReplay, RequestFails
  <2>3. QED BY <2>1, <2>2 DEF Goto, Done, Start
<1>6. ASSUME NEW r \in Requests, RevokeFamily(r) PROVE TypeOK'
  <2>1. arg[r] \in Rows /\ FamilyOf(r) \in Ids
    BY <1>6 DEF RevokeFamily, FamilyOf, Rows
  <2>2. LiveIn(FamilyOf(r)) \subseteq Rows /\ Rows \subseteq Ids BY DEF LiveIn, Rows
  <2>3. Rows' = Rows BY <1>6, <2>2 DEF RevokeFamily, RevokedRows, Rows
  <2>4. /\ status' \in [Ids -> {"none", "live", "revoked"}]
        /\ reused' \in SUBSET Ids /\ ended' \in SUBSET Ids
    BY <1>6, <2>1, <2>2 DEF RevokeFamily, RevokedRows
  <2>5. QED BY <1>6, <2>3, <2>4 DEF RevokeFamily, Done, Start
<1>7. CASE UNCHANGED vars BY <1>7 DEF vars, Rows
<1>8. QED BY <1>1, <1>2, <1>3, <1>4, <1>5, <1>6, <1>7 DEF Next

\* Every reachable state is well typed, and families are closed.
THEOREM Typing == Spec => []TypeOK
BY TypeInit, TypeStep, PTL DEF Spec

(***************************************************************************)
(* OneHeir and RevocationIsFinal.  The first is what makes the second      *)
(* inductive: a rotation gets half done only by taking the live token, and *)
(* a live token comes only from a half-done rotation or a new family,      *)
(* whose id no ended family has.                                           *)
(***************************************************************************)
EndedInv == ended \subseteq Rows
IInv == OneHeir /\ RevocationIsFinal /\ EndedInv

LEMMA InvInit == Init => IInv
BY DEF Init, IInv, OneHeir, RevocationIsFinal, EndedInv, LiveIn, HalfDone, Rows

\* Steps that change no token and make no rotation half done.
LEMMA InvFrame ==
  ASSUME TypeOK, IInv, NEW r \in Requests, UNCHANGED <<status, family, ended>>,
         pc'[r] # "insert", \A q \in Requests : q # r => pc'[q] = pc[q] /\ arg'[q] = arg[q]
  PROVE  IInv'
<1>1. Rows' = Rows /\ \A f \in Ids : LiveIn(f)' = LiveIn(f) /\ HalfDone(f)' \subseteq HalfDone(f)
  BY DEF Rows, LiveIn, HalfDone, FamilyOf
<1>2. QED BY <1>1 DEF IInv, OneHeir, RevocationIsFinal, EndedInv, TypeOK

LEMMA InvIssue ==
  ASSUME TypeOK, IInv, NEW n \in Ids, IssueNewFamily(n)
  PROVE  IInv'
<1>1. /\ n \notin Rows /\ Rows' = Rows \cup {n} /\ UNCHANGED <<pc, arg, ended>>
      /\ status'[n] = "live" /\ family'[n] = n
      /\ \A t \in Rows : status'[t] = status[t] /\ family'[t] = family[t] /\ family[t] # n
  BY DEF IssueNewFamily, Insert, NewId, Rows, TypeOK, history
<1>2. \A f \in Ids : HalfDone(f)' = HalfDone(f)
  BY <1>1 DEF HalfDone, FamilyOf, TypeOK
<1>3. LiveIn(n)' = {n} /\ HalfDone(n) = {}
  BY <1>1 DEF LiveIn, HalfDone, FamilyOf, TypeOK
<1>4. \A f \in Ids : f # n => LiveIn(f)' = LiveIn(f)
  BY <1>1 DEF LiveIn
<1>5. n \notin ended BY <1>1 DEF IInv, EndedInv
<1>6. QED
  BY <1>1, <1>2, <1>3, <1>4, <1>5 DEF IInv, OneHeir, RevocationIsFinal, EndedInv, TypeOK

\* The guarded UPDATE turns the one live token into the one half-done rotation.
LEMMA InvUpdate ==
  ASSUME TypeOK, IInv, NEW r \in Requests, RotateUpdate(r)
  PROVE  IInv'
<1>0. PICK g \in Ids : g = FamilyOf(r)
  BY DEF RotateUpdate, FamilyOf, TypeOK, Rows
<1>1. /\ arg[r] \in LiveIn(g) /\ arg[r] \in Ids /\ family[arg[r]] = g /\ pc[r] = "update"
      /\ status' = [status EXCEPT ![arg[r]] = "revoked"]
      /\ pc' = [pc EXCEPT ![r] = "insert"] /\ UNCHANGED <<arg, family, ended>>
  BY <1>0 DEF RotateUpdate, StillLive, Goto, LiveIn, FamilyOf, TypeOK, history, Rows
<1>2. HalfDone(g) = {} /\ g \notin ended
  BY <1>1 DEF IInv, OneHeir, RevocationIsFinal
<1>3. Rows' = Rows BY <1>1 DEF Rows, TypeOK, LiveIn
<1>4. LiveIn(g)' = {}
  BY <1>1, <1>3 DEF IInv, OneHeir, LiveIn, TypeOK
<1>5. HalfDone(g)' = {r}
  BY <1>1, <1>2 DEF HalfDone, FamilyOf, TypeOK
<1>6. \A f \in Ids : f # g => LiveIn(f)' = LiveIn(f) /\ HalfDone(f)' = HalfDone(f)
  BY <1>1, <1>3 DEF LiveIn, HalfDone, FamilyOf, TypeOK
<1>7. QED
  BY <1>1, <1>2, <1>3, <1>4, <1>5, <1>6 DEF IInv, OneHeir, RevocationIsFinal, EndedInv, TypeOK

\* The INSERT turns the one half-done rotation into the one live token.
LEMMA InvInsert ==
  ASSUME TypeOK, IInv, NEW r \in Requests, NEW n \in Ids, RotateInsert(r, n)
  PROVE  IInv'
<1>0. PICK g \in Ids : g = FamilyOf(r)
  BY DEF RotateInsert, FamilyOf, TypeOK, Rows
<1>1. /\ r \in HalfDone(g) /\ n \notin Rows
      /\ status' = [status EXCEPT ![n] = "live"] /\ family' = [family EXCEPT ![n] = g]
      /\ pc' = [pc EXCEPT ![r] = "idle"] /\ UNCHANGED ended
      /\ \A q \in Requests : q # r => arg'[q] = arg[q]
  BY <1>0 DEF RotateInsert, Insert, NewId, Done, Start, HalfDone, FamilyOf, TypeOK, Rows
<1>2. LiveIn(g) = {} /\ g \notin ended /\ HalfDone(g) = {r}
  <2>1. \A q \in HalfDone(g) : q = r BY <1>1 DEF IInv, OneHeir
  <2>2. LiveIn(g) = {} BY <1>1 DEF IInv, OneHeir
  <2>3. g \notin ended BY <1>1 DEF IInv, RevocationIsFinal
  <2>4. QED BY <1>1, <2>1, <2>2, <2>3
<1>3. Rows' = Rows \cup {n} BY <1>1 DEF Rows, TypeOK
<1>4. LiveIn(g)' = {n}
  BY <1>1, <1>2, <1>3 DEF LiveIn, TypeOK
<1>5. \A q \in Requests : q # r /\ pc[q] = "insert" => FamilyOf(q)' = FamilyOf(q)
  BY <1>1 DEF FamilyOf, TypeOK
<1>6. HalfDone(g)' = {}
  BY <1>1, <1>2, <1>5 DEF HalfDone, TypeOK
<1>7. \A f \in Ids : f # g => LiveIn(f)' = LiveIn(f) /\ HalfDone(f)' = HalfDone(f)
  BY <1>1, <1>3, <1>5 DEF LiveIn, HalfDone, TypeOK
<1>8. QED
  BY <1>1, <1>2, <1>3, <1>4, <1>6, <1>7 DEF IInv, OneHeir, RevocationIsFinal, EndedInv, TypeOK

LEMMA InvRevoke ==
  ASSUME TypeOK, IInv, NEW r \in Requests, RevokeFamily(r)
  PROVE  IInv'
<1>0. PICK g \in Ids : g = FamilyOf(r) /\ g \in Rows
  BY DEF RevokeFamily, FamilyOf, TypeOK, Rows
<1>1. /\ g \in Rows /\ pc[r] # "insert"
      /\ status' = [t \in Ids |-> IF t \in LiveIn(g) THEN "revoked" ELSE status[t]]
      /\ pc'[r] = "idle" /\ UNCHANGED family
      /\ ended' = IF HalfDone(g) = {} THEN ended \cup {g} ELSE ended
      /\ \A q \in Requests : q # r => pc'[q] = pc[q] /\ arg'[q] = arg[q]
  BY <1>0 DEF RevokeFamily, RevokedRows, Done, Start, TypeOK
<1>2. Rows' = Rows BY <1>1 DEF Rows, LiveIn
<1>3. LiveIn(g)' = {} BY <1>1, <1>2 DEF LiveIn, Rows
<1>4. \A f \in Ids : LiveIn(f)' \subseteq LiveIn(f) BY <1>1, <1>2 DEF LiveIn, Rows
<1>5. \A f \in Ids : HalfDone(f)' = HalfDone(f)
  BY <1>1 DEF HalfDone, FamilyOf
<1>6. QED
  BY <1>1, <1>2, <1>3, <1>4, <1>5 DEF IInv, OneHeir, RevocationIsFinal, EndedInv, TypeOK

LEMMA InvStep == TypeOK /\ IInv /\ [Next]_vars => IInv'
<1> SUFFICES ASSUME TypeOK, IInv, [Next]_vars PROVE IInv'
    OBVIOUS
<1>1. ASSUME NEW n \in Ids, IssueNewFamily(n) PROVE IInv' BY <1>1, InvIssue
<1>2. ASSUME NEW r \in Requests, NEW t \in Ids, RotateSelect(r, t) \/ LogoutSelect(r, t)
      PROVE  IInv'
  BY <1>2, InvFrame DEF RotateSelect, LogoutSelect, Start, history, TypeOK
<1>3. ASSUME NEW r \in Requests, NEW n \in Ids, RotateInsert(r, n) PROVE IInv'
  BY <1>3, InvInsert
<1>4. ASSUME NEW r \in Requests, RotateUpdate(r) PROVE IInv' BY <1>4, InvUpdate
<1>5. ASSUME NEW r \in Requests, RotateLost(r) \/ RotateReplay(r) \/ RequestFails(r)
      PROVE  IInv'
  BY <1>5, InvFrame DEF RotateLost, RotateReplay, RequestFails, Goto, Done, Start, history, TypeOK
<1>6. ASSUME NEW r \in Requests, RevokeFamily(r) PROVE IInv' BY <1>6, InvRevoke
<1>7. CASE UNCHANGED vars
  <2>1. ended' = ended /\ Rows' = Rows BY <1>7 DEF vars, Rows
  <2>2. \A f \in Ids : LiveIn(f)' = LiveIn(f) /\ HalfDone(f)' = HalfDone(f)
    BY <1>7 DEF vars, LiveIn, HalfDone, FamilyOf, Rows
  <2>3. EndedInv' /\ OneHeir' BY <2>1, <2>2 DEF IInv, OneHeir, EndedInv
  <2>4. \A f \in ended : LiveIn(f)' = {} /\ HalfDone(f)' = {}
    BY <2>2 DEF IInv, RevocationIsFinal, EndedInv, Rows
  <2>5. QED BY <2>1, <2>3, <2>4 DEF IInv, RevocationIsFinal
<1>8. QED BY <1>1, <1>2, <1>3, <1>4, <1>5, <1>6, <1>7 DEF Next

LEMMA Invariance == Spec => []IInv
BY InvInit, InvStep, Typing, PTL DEF Spec

\* However requests interleave or die, a session never has two heirs.
THEOREM NeverForks == Spec => []OneHeir
<1>1. IInv => OneHeir BY DEF IInv
<1>2. QED BY <1>1, Invariance, PTL

\* A family revoked with no rotation half done stays dead.
THEOREM RevocationFinal == Spec => []RevocationIsFinal
<1>1. IInv => RevocationIsFinal BY DEF IInv
<1>2. QED BY <1>1, Invariance, PTL

(***************************************************************************)
(* ReplayDetected.  The rows of a family form a chain: each but the newest *)
(* was rotated, and its successor names it.  The live token, or the one a  *)
(* half-done rotation holds, is the newest.  Both need pods whose clocks   *)
(* agree: with skew a successor may get the smaller id, and the property   *)
(* is false.                                                               *)
(***************************************************************************)
Kin(s, t) == s \in Rows /\ t \in Rows /\ family[s] = family[t]

ParentsFit ==
  \A n \in Ids : parent[n] # NoToken => Kin(n, parent[n]) /\ parent[n] < n
HeirNewest ==
  /\ \A s, t \in Rows : Kin(s, t) /\ status[t] = "live" => s <= t
  /\ \A r \in Requests, s \in Rows : pc[r] = "insert" /\ Kin(s, arg[r]) => s <= arg[r]
ChainComplete ==
  \A s, t \in Rows : Kin(s, t) /\ s < t => \E m \in Rows : parent[m] = s
Line == ParentsFit /\ HeirNewest /\ ChainComplete

LEMMA LineInit == Init => Line
BY DEF Init, Line, ParentsFit, HeirNewest, ChainComplete, Rows

\* Steps that insert nothing and give no token a new holder.
LEMMA LineFrame ==
  ASSUME TypeOK, Line, UNCHANGED <<family, parent>>, Rows' = Rows,
         \A t \in Rows : status'[t] = "live" => status[t] = "live",
         \A r \in Requests : pc'[r] = "insert" =>
           arg'[r] = arg[r] /\ (pc[r] = "insert" \/ status[arg[r]] = "live")
  PROVE  Line'
<1>1. \A s, t : Kin(s, t)' <=> Kin(s, t)
  BY DEF Kin
<1>2. ParentsFit' /\ ChainComplete'
  BY <1>1 DEF Line, ParentsFit, ChainComplete
<1>3. HeirNewest'
  <2>1. \A s, t \in Rows : Kin(s, t) /\ status'[t] = "live" => s <= t
    BY DEF Line, HeirNewest
  <2>2. ASSUME NEW r \in Requests, NEW s \in Rows, pc'[r] = "insert", Kin(s, arg'[r])
        PROVE  s <= arg'[r]
    <3>1. arg'[r] = arg[r] /\ arg[r] \in Rows
      BY <2>2 DEF Kin
    <3> QED BY <2>2, <3>1 DEF Line, HeirNewest
  <2> QED BY <1>1, <2>1, <2>2 DEF HeirNewest
<1> QED BY <1>2, <1>3 DEF Line

\* With clocks that agree a new row gets the largest id.
LEMMA NewRowLargest ==
  ASSUME TypeOK, Skew = 0, NEW n \in Ids, NEW f \in Ids, Insert(n, f)
  PROVE  \A m \in Rows : m < n /\ m # n
BY DEF Insert, NewId, Rows

LEMMA LineIssue ==
  ASSUME TypeOK, Line, NEW n \in Ids, IssueNewFamily(n)
  PROVE  Line'
<1>1. /\ n \notin Rows /\ Rows' = Rows \cup {n} /\ family'[n] = n
      /\ UNCHANGED <<pc, arg, parent>>
      /\ \A t \in Rows : t \in Ids /\ t # n /\ status'[t] = status[t] /\ family'[t] = family[t]
  BY InsertRow DEF IssueNewFamily, history, Rows
<1>2. \A t \in Rows : family[t] # n
  BY <1>1 DEF TypeOK, Rows
<1>3. \A s, t : Kin(s, t)' <=> Kin(s, t) \/ (s = n /\ t = n)
  BY <1>1, <1>2 DEF Kin
<1>4. ParentsFit'
  BY <1>1, <1>3 DEF Line, ParentsFit
<1>5. ChainComplete'
  <2> SUFFICES ASSUME NEW s \in Rows', NEW t \in Rows', Kin(s, t)', s < t
               PROVE  \E m \in Rows' : parent'[m] = s
    BY DEF ChainComplete
  <2>1. n \in Nat
    OBVIOUS
  <2>2. Kin(s, t)
    BY <1>3, <2>1
  <2>3. s \in Rows /\ t \in Rows
    BY <2>2 DEF Kin
  <2> QED BY <1>1, <2>2, <2>3 DEF Line, ChainComplete
<1>6. HeirNewest'
  <2>1. \A r \in Requests : pc[r] = "insert" => arg[r] \in Rows /\ arg[r] # n
    BY <1>1 DEF TypeOK
  <2>2. ASSUME NEW s \in Rows', NEW t \in Rows', Kin(s, t)', status'[t] = "live"
        PROVE  s <= t
    <3>1. CASE s = n /\ t = n
      BY <3>1
    <3>2. CASE Kin(s, t)
      <4>1. s \in Rows /\ t \in Rows /\ status[t] = "live"
        BY <1>1, <2>2, <3>2 DEF Kin
      <4> QED BY <3>2, <4>1 DEF Line, HeirNewest
    <3> QED BY <1>3, <2>2, <3>1, <3>2
  <2>3. ASSUME NEW r \in Requests, NEW s \in Rows', pc'[r] = "insert", Kin(s, arg[r])'
        PROVE  s <= arg'[r]
    <3>1. Kin(s, arg[r]) /\ pc[r] = "insert" /\ s \in Rows
      BY <1>1, <1>3, <2>1, <2>3 DEF Kin
    <3> QED BY <1>1, <3>1 DEF Line, HeirNewest
  <2> QED BY <2>2, <2>3 DEF HeirNewest
<1> QED BY <1>4, <1>5, <1>6 DEF Line

LEMMA LineInsert ==
  ASSUME TypeOK, IInv, IInv', Line, Skew = 0, NEW r \in Requests, NEW n \in Ids, RotateInsert(r, n)
  PROVE  Line'
<1>0. PICK a \in Ids, g \in Ids : a = arg[r] /\ g = FamilyOf(r)
  BY DEF RotateInsert, FamilyOf, TypeOK, Rows
<1>1. /\ a \in Rows /\ g \in Rows /\ Insert(n, g) /\ family[a] = g
      /\ pc[r] = "insert" /\ pc'[r] = "idle"
      /\ parent' = [parent EXCEPT ![n] = a]
      /\ \A q \in Requests : q # r => pc'[q] = pc[q] /\ arg'[q] = arg[q]
  BY <1>0 DEF RotateInsert, FamilyOf, TypeOK, Rows, Done, Start
<1>2. /\ n \notin Rows /\ Rows' = Rows \cup {n} /\ family'[n] = g /\ status'[n] = "live"
      /\ \A t \in Rows : t \in Ids /\ t # n /\ status'[t] = status[t] /\ family'[t] = family[t]
  BY <1>1, InsertRow DEF Rows
<1>3. \A m \in Rows : m < n /\ m # n
  BY <1>1, NewRowLargest
<1>4. \A s, t \in Rows : Kin(s, t)' <=> Kin(s, t)
  BY <1>2 DEF Kin
<1>5. \A s \in Rows : Kin(s, n)' <=> Kin(s, a)
  BY <1>1, <1>2 DEF Kin
<1>6. \A s \in Rows : Kin(s, a) => s <= a
  BY <1>0, <1>1 DEF Line, HeirNewest
<1>7. /\ parent'[n] = a
      /\ \A m \in Ids : m # n => parent'[m] = parent[m]
  BY <1>1 DEF TypeOK
<1>8. ParentsFit'
  <2> SUFFICES ASSUME NEW m \in Ids, parent'[m] # NoToken
               PROVE  Kin(m, parent[m])' /\ parent'[m] < m
    BY DEF ParentsFit
  <2>1. CASE m = n
    BY <1>1, <1>2, <1>3, <1>7, <2>1 DEF Kin
  <2>2. CASE m # n
    <3>1. Kin(m, parent[m]) /\ parent[m] < m /\ parent'[m] = parent[m]
      BY <1>7, <2>2 DEF Line, ParentsFit
    <3>2. m \in Rows /\ parent[m] \in Rows
      BY <3>1 DEF Kin
    <3> QED BY <1>4, <3>1, <3>2
  <2> QED BY <2>1, <2>2
<1>9. ChainComplete'
  <2> SUFFICES ASSUME NEW s \in Rows', NEW t \in Rows', Kin(s, t)', s < t
               PROVE  \E m \in Rows' : parent'[m] = s
    BY DEF ChainComplete
  <2>1. s \in Rows
    <3>1. s \in Ids /\ t \in Ids
      BY DEF Rows
    <3> QED BY <1>2, <1>3, <3>1
  <2>2. CASE t = n /\ s = a
    BY <1>2, <1>7, <2>2
  <2>3. CASE t = n /\ s # a
    <3>1. Kin(s, a) /\ s <= a
      BY <1>5, <1>6, <2>1, <2>3
    <3>2. s < a
      <4>1. s \in Nat /\ a \in Nat
        BY <2>1 DEF Rows
      <4> QED BY <2>3, <3>1, <4>1
    <3>3. PICK m \in Rows : parent[m] = s
      BY <1>1, <2>1, <3>1, <3>2 DEF Line, ChainComplete
    <3> QED BY <1>2, <1>7, <3>3
  <2>4. CASE t \in Rows
    <3>1. PICK m \in Rows : parent[m] = s
      BY <1>4, <2>1, <2>4 DEF Line, ChainComplete
    <3> QED BY <1>2, <1>7, <3>1
  <2> QED BY <1>2, <2>2, <2>3, <2>4
<1>10. HeirNewest'
  <2>1. n \in LiveIn(g)' /\ HalfDone(g)' = {} /\ \A t \in LiveIn(g)' : t = n
    <3>1. n \in LiveIn(g)'
      BY <1>2 DEF LiveIn
    <3> QED BY <1>1, <3>1 DEF IInv, OneHeir
  <2>2. ASSUME NEW s \in Rows', NEW t \in Rows', Kin(s, t)', status'[t] = "live"
        PROVE  s <= t
    <3>1. CASE t = n
      <4>1. s = n \/ s < n
        BY <1>2, <1>3
      <4>2. s \in Nat /\ n \in Nat
        BY DEF Rows
      <4> QED BY <3>1, <4>1, <4>2
    <3>2. CASE t # n /\ s = n
      <4>1. t \in LiveIn(g)'
        BY <1>2, <2>2, <3>2 DEF LiveIn, Kin
      <4> QED BY <2>1, <3>2, <4>1
    <3>3. CASE t # n /\ s # n
      BY <1>2, <1>4, <2>2, <3>3 DEF Line, HeirNewest
    <3> QED BY <3>1, <3>2, <3>3
  <2>3. ASSUME NEW q \in Requests, NEW s \in Rows', pc'[q] = "insert", Kin(s, arg[q])'
        PROVE  s <= arg'[q]
    <3>1. q # r /\ pc[q] = "insert" /\ arg'[q] = arg[q] /\ arg[q] \in Rows
      BY <1>1, <2>3 DEF TypeOK
    <3>2. s # n
      <4>1. q \notin HalfDone(g)'
        BY <2>1
      <4>2. family'[arg'[q]] # g
        BY <2>3, <4>1 DEF HalfDone, FamilyOf
      <4> QED BY <1>2, <2>3, <4>2 DEF Kin
    <3> QED BY <1>2, <1>4, <2>3, <3>1, <3>2 DEF Line, HeirNewest
  <2> QED BY <2>2, <2>3 DEF HeirNewest
<1> QED BY <1>8, <1>9, <1>10 DEF Line

LEMMA LineStep == Skew = 0 => (TypeOK /\ IInv /\ IInv' /\ Line /\ [Next]_vars => Line')
<1> SUFFICES ASSUME Skew = 0, TypeOK, IInv, IInv', Line, [Next]_vars PROVE Line'
  OBVIOUS
<1> USE DEF history
<1>1. ASSUME NEW n \in Ids, IssueNewFamily(n) PROVE Line'
  BY <1>1, LineIssue
<1>2. ASSUME NEW r \in Requests, NEW n \in Ids, RotateInsert(r, n) PROVE Line'
  BY <1>2, LineInsert
<1>3. ASSUME NEW r \in Requests, NEW t \in Ids, RotateSelect(r, t) \/ LogoutSelect(r, t)
      PROVE  Line'
  BY <1>3, LineFrame DEF RotateSelect, LogoutSelect, Start, Rows, TypeOK
<1>4. ASSUME NEW r \in Requests, RotateUpdate(r) PROVE Line'
  <2>1. Rows' = Rows /\ \A t \in Rows : status'[t] = "live" => status[t] = "live"
    BY <1>4 DEF RotateUpdate, Rows, TypeOK
  <2>2. \A q \in Requests : pc'[q] = "insert" =>
           arg'[q] = arg[q] /\ (pc[q] = "insert" \/ status[arg[q]] = "live")
    BY <1>4 DEF RotateUpdate, StillLive, Goto, TypeOK
  <2> QED BY <1>4, <2>1, <2>2, LineFrame DEF RotateUpdate
<1>5. ASSUME NEW r \in Requests, RotateLost(r) \/ RotateReplay(r) \/ RequestFails(r)
      PROVE  Line'
  BY <1>5, LineFrame DEF RotateLost, RotateReplay, RequestFails, Goto, Done, Start, Rows, TypeOK
<1>6. ASSUME NEW r \in Requests, RevokeFamily(r) PROVE Line'
  <2>1. Rows' = Rows /\ \A t \in Rows : status'[t] = "live" => status[t] = "live"
    BY <1>6 DEF RevokeFamily, RevokedRows, LiveIn, Rows, TypeOK
  <2>2. \A q \in Requests : pc'[q] = "insert" => arg'[q] = arg[q] /\ pc[q] = "insert"
    BY <1>6 DEF RevokeFamily, Done, Start, TypeOK
  <2> QED BY <1>6, <2>1, <2>2, LineFrame DEF RevokeFamily
<1>7. CASE UNCHANGED vars
  BY <1>7, LineFrame DEF vars, Rows
<1> QED BY <1>1, <1>2, <1>3, <1>4, <1>5, <1>6, <1>7 DEF Next

\* With pods whose clocks agree, a revoked token is taken for a replay exactly if its
\* successor was stored, whatever other requests and failures came between.
THEOREM ReplayKnown == Skew = 0 => (Spec => []ReplayDetected)
<1> SUFFICES ASSUME Skew = 0 PROVE Spec => []ReplayDetected
  OBVIOUS
<1>1. TypeOK /\ IInv /\ IInv' /\ Line /\ [Next]_vars => Line'
  BY LineStep
<1>2. TypeOK /\ Line => ReplayDetected
  <2> SUFFICES ASSUME TypeOK, Line, NEW r \in Requests, pc[r] = "replay"
               PROVE  Successors(r) # {} <=> \E n \in Rows : parent[n] = arg[r]
    BY DEF ReplayDetected
  <2>1. arg[r] \in Rows /\ arg[r] # NoToken
    BY DEF TypeOK, Rows, NoToken
  <2>2. ASSUME NEW n \in Successors(r) PROVE \E m \in Rows : parent[m] = arg[r]
    BY <2>1 DEF Successors, FamilyOf, Kin, Line, ChainComplete
  <2>3. ASSUME NEW n \in Rows, parent[n] = arg[r] PROVE n \in Successors(r)
    BY <2>1, <2>3 DEF Successors, FamilyOf, Kin, Line, ParentsFit, Rows
  <2> QED BY <2>2, <2>3
<1> QED BY <1>1, <1>2, LineInit, Typing, Invariance, PTL DEF Spec
=============================================================================
