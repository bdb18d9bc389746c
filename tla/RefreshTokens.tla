--------------------------- MODULE RefreshTokens ---------------------------
(***************************************************************************)
(* Rotating refresh tokens (internal/auth/refresh.go).  Every operation is *)
(* a few SQL statements with no transaction around them, so requests of    *)
(* one client, of a thief and of several API pods interleave between the   *)
(* statements, and a request can die between any two of them.              *)
(*                                                                         *)
(* A token is the snowflake id of its row; its family is the id of the     *)
(* first token of the session.  An expired or unknown token is refused     *)
(* without any change, so those two answers are no action.                 *)
(***************************************************************************)
EXTENDS Naturals, FiniteSets

CONSTANTS
  Requests,  \* concurrent Rotate and Logout requests
  Ids,       \* token ids
  Skew       \* how far, in ids, one pod's clock may run behind another's

ASSUME IdsAssumption == Ids \subseteq Nat \ {0} /\ Skew \in Nat

VARIABLES
  status,      \* row of a token: none, live (revoked_at IS NULL) or revoked
  family,      \* family_id; 0 while there is no row
  pc,          \* next statement of a request
  arg,         \* token the request presented
  parent,      \* history: the token a successor was issued for, 0 for none
  reused,      \* history: families revoked because a token was replayed
  ended        \* history: families revoked while no rotation was half done

vars == <<status, family, pc, arg, parent, reused, ended>>
history == <<parent, reused, ended>>

Stages == {"idle", "update", "insert", "replay", "revoke", "logout"}
NoToken == 0
Rows == { t \in Ids : status[t] # "none" }

TypeOK ==
  /\ status \in [Ids -> {"none", "live", "revoked"}]
  /\ family \in [Ids -> Ids \cup {NoToken}]
  /\ \A t \in Ids : /\ t \in Rows => family[t] \in Rows /\ family[family[t]] = family[t]
                    /\ t \notin Rows => family[t] = NoToken
  /\ pc \in [Requests -> Stages]
  /\ arg \in [Requests -> Ids \cup {NoToken}]
  /\ \A r \in Requests : IF pc[r] = "idle" THEN arg[r] = NoToken ELSE arg[r] \in Rows
  /\ parent \in [Ids -> Ids \cup {NoToken}]
  /\ reused \in SUBSET Ids
  /\ ended \in SUBSET Ids

Init ==
  /\ status = [t \in Ids |-> "none"]
  /\ family = [t \in Ids |-> NoToken]
  /\ pc = [r \in Requests |-> "idle"]
  /\ arg = [r \in Requests |-> NoToken]
  /\ parent = [t \in Ids |-> NoToken]
  /\ reused = {}
  /\ ended = {}

Goto(r, stage) == pc' = [pc EXCEPT ![r] = stage] /\ UNCHANGED arg
Start(r, stage, t) == pc' = [pc EXCEPT ![r] = stage] /\ arg' = [arg EXCEPT ![r] = t]
Done(r) == Start(r, "idle", NoToken)

\* ids.Next on some API pod
NewId(n) == n \notin Rows /\ \A m \in Rows : m <= n + Skew

Insert(n, f) ==
  /\ NewId(n)
  /\ status' = [status EXCEPT ![n] = "live"]
  /\ family' = [family EXCEPT ![n] = f]

-----------------------------------------------------------------------------
\* Register, Login and the OAuth callback: the first token of a new family.
IssueNewFamily(n) ==
  /\ Insert(n, n)
  /\ UNCHANGED <<pc, arg, history>>

\* Rotate's SELECT decides, on what it read, which way the request goes.
RotateSelect(r, t) ==
  /\ pc[r] = "idle"
  /\ t \in Rows
  /\ Start(r, IF status[t] = "revoked" THEN "replay" ELSE "update", t)
  /\ UNCHANGED <<status, family, history>>

AnyRow(r) == TRUE                \* mutant: no revoked_at IS NULL in the UPDATE
StillLive(r) == status[arg[r]] = "live"

\* UPDATE ... WHERE id = $1 AND revoked_at IS NULL
RotateUpdate(r) ==
  /\ pc[r] = "update"
  /\ StillLive(r)
  /\ status' = [status EXCEPT ![arg[r]] = "revoked"]
  /\ Goto(r, "insert")
  /\ UNCHANGED <<family, history>>

\* RowsAffected() = 0: another request was first, ErrInvalidRefresh.
RotateLost(r) ==
  /\ pc[r] = "update"
  /\ ~StillLive(r)
  /\ Done(r)
  /\ UNCHANGED <<status, family, history>>

FamilyOf(r) == family[arg[r]]

RotateInsert(r, n) ==
  /\ pc[r] = "insert"
  /\ Insert(n, FamilyOf(r))
  /\ parent' = [parent EXCEPT ![n] = arg[r]]
  /\ Done(r)
  /\ UNCHANGED <<reused, ended>>

LiveSuccessors(r) ==             \* mutant: only live successors are looked for
  { n \in Rows : family[n] = FamilyOf(r) /\ n > arg[r] /\ status[n] = "live" }
Successors(r) == { n \in Rows : family[n] = FamilyOf(r) /\ n > arg[r] }

\* A revoked token was presented: with a successor it is a replay.
RotateReplay(r) ==
  /\ pc[r] = "replay"
  /\ IF Successors(r) # {} THEN Goto(r, "revoke") ELSE Done(r)
  /\ UNCHANGED <<status, family, history>>

\* RevokeFamilyByToken's SELECT (logout).
LogoutSelect(r, t) ==
  /\ pc[r] = "idle"
  /\ t \in Rows
  /\ Start(r, "logout", t)
  /\ UNCHANGED <<status, family, history>>

LiveIn(f) == { t \in Rows : family[t] = f /\ status[t] = "live" }
HalfDone(f) == { r \in Requests : pc[r] = "insert" /\ FamilyOf(r) = f }

FirstRow(f) == { t \in LiveIn(f) : t = f }  \* mutant: WHERE id = $1
RevokedRows(f) == LiveIn(f)

\* UPDATE ... WHERE family_id = $1 AND revoked_at IS NULL
RevokeFamily(r) ==
  /\ pc[r] \in {"revoke", "logout"}
  /\ status' = [t \in Ids |-> IF t \in RevokedRows(FamilyOf(r)) THEN "revoked" ELSE status[t]]
  /\ reused' = IF pc[r] = "revoke" THEN reused \cup {FamilyOf(r)} ELSE reused
  /\ ended' = IF HalfDone(FamilyOf(r)) = {} THEN ended \cup {FamilyOf(r)} ELSE ended
  /\ Done(r)
  /\ UNCHANGED <<family, parent>>

\* A statement fails, the client goes away or the pod dies.
RequestFails(r) ==
  /\ pc[r] # "idle"
  /\ Done(r)
  /\ UNCHANGED <<status, family, history>>

Next ==
  \/ \E n \in Ids : IssueNewFamily(n)
  \/ \E r \in Requests :
       \/ \E t \in Ids : RotateSelect(r, t) \/ LogoutSelect(r, t) \/ RotateInsert(r, t)
       \/ RotateUpdate(r) \/ RotateLost(r) \/ RotateReplay(r)
       \/ RevokeFamily(r) \/ RequestFails(r)

Spec == Init /\ [][Next]_vars

-----------------------------------------------------------------------------
\* A session never forks: a family has one live token, or one rotation between
\* its UPDATE and its INSERT, or neither.  This is what the revoked_at guard of
\* Rotate buys when two requests present the same token.
OneHeir ==
  \A f \in Ids :
    /\ \A s, t \in LiveIn(f) : s = t
    /\ \A q, r \in HalfDone(f) : q = r
    /\ LiveIn(f) # {} => HalfDone(f) = {}

\* A family revoked (by logout or reuse) while no rotation was half done never
\* has a live token again, and no rotation gets half done in it.
RevocationIsFinal == \A f \in ended : LiveIn(f) = {} /\ HalfDone(f) = {}

\* A revoked token is taken for a replay exactly if its successor was stored: a stolen
\* token that was rotated is recognised, one that only died with its family is not
\* (comment in Rotate).  It rests on successors having the larger id.
ReplayDetected ==
  \A r \in Requests :
    pc[r] = "replay" => (Successors(r) # {} <=> \E n \in Rows : parent[n] = arg[r])

\* Once a replay has revoked the family, no token of it is live: "The whole
\* family is dead, including the newest token" (refresh_test.go).
ReusedFamilyIsDead == \A f \in reused : LiveIn(f) = {}
=============================================================================
