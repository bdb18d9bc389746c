----------------------------- MODULE FollowGraph -----------------------------
(***************************************************************************)
(* Follow and Unfollow (internal/users/follow.go): both edge tables, both  *)
(* counters and one FollowChanged event in one transaction, run by any     *)
(* number of requests at once.  READ COMMITTED: what a transaction wrote   *)
(* shows when it commits; a row it wrote is locked until it ends.          *)
(*                                                                         *)
(* The row of followers is only ever written after the row of follows of   *)
(* the same edge, so one lock stands for both.  The caches dropped after   *)
(* the commit are in HomeTimeline (celebs) or read by nobody (usr).        *)
(***************************************************************************)
EXTENDS Integers, Sequences, FiniteSets

CONSTANTS
  Users,
  MaxRequests,
  Asks,     \* what clients ask for: [from, to : Users, follow : BOOLEAN]
  NoAsk,
  Edges0    \* who follows whom before the first of them

ASSUME AsksAssumption ==
  /\ Asks \subseteq [from : Users, to : Users, follow : BOOLEAN]
  /\ NoAsk \notin Asks
ASSUME UsersAssumption ==
  IsFiniteSet(Users) /\ Edges0 \subseteq Users \X Users /\ MaxRequests \in Nat

VARIABLES
  followsTable,    \* follows: <<follower, followee>>
  followersTable,  \* followers: <<followee, follower>>
  followersCount,  \* users.followers_count
  followingCount,  \* users.following_count
  ask,             \* what each request was asked for
  at,              \* its next statement, or how it ended
  emitted          \* the FollowChanged events, in commit order

Requests == 1 .. MaxRequests   \* in the order of their arrival
tables == <<followsTable, followersTable, followersCount, followingCount>>
graphVars == <<tables, ask, at, emitted>>

Statements == {"edge", "followee", "follower", "commit"}
Ends == {"done", "noop", "self", "failed"}

GraphTypeOK ==
  /\ followsTable \subseteq Users \X Users /\ followersTable \subseteq Users \X Users
  /\ followersCount \in [Users -> Int] /\ followingCount \in [Users -> Int]
  /\ ask \in [Requests -> Asks \cup {NoAsk}]
  /\ at \in [Requests -> {"idle"} \cup Statements \cup Ends]
  /\ emitted \in Seq(Asks)
  /\ \A r \in Requests : at[r] # "idle" => ask[r] # NoAsk

GraphInit ==
  /\ followsTable = Edges0 /\ followersTable = { <<e[2], e[1]>> : e \in Edges0 }
  /\ followersCount = [u \in Users |-> Cardinality({ e \in Edges0 : e[2] = u })]
  /\ followingCount = [u \in Users |-> Cardinality({ e \in Edges0 : e[1] = u })]
  /\ ask = [r \in Requests |-> NoAsk] /\ at = [r \in Requests |-> "idle"]
  /\ emitted = << >>

Edge(r) == <<ask[r].from, ask[r].to>>
Goto(r, where) == at' = [at EXCEPT ![r] = where]

-----------------------------------------------------------------------------
(* Row locks.                                                               *)

\* The two rows of users, in the order they are updated in.
RowByKind(r, n) == IF (n = 1) = ask[r].follow THEN ask[r].to ELSE ask[r].from  \* mutant
Row(r, n) == IF n = 1 THEN ask[r].to ELSE ask[r].from

Opened(r) == at[r] # "idle"   \* mutant: no deferred Rollback
Locks(r) == at[r] \in Statements

WroteEdge(r) == at[r] \in {"followee", "follower", "commit"}
HoldsUser(r, u) ==
  \/ Locks(r) /\ at[r] \notin {"edge", "followee"} /\ u = Row(r, 1)
  \/ at[r] = "commit" /\ u = Row(r, 2)

Present(r) == Edge(r) \in followsTable

NoEdgeConflict(r, q) == FALSE   \* mutant: the edge is looked up, then written

\* A DELETE does not see, and does not wait for, an edge another transaction has just
\* inserted; an INSERT waits for whoever writes the edge, by its primary key.
EdgeConflict(r, q) == WroteEdge(q) /\ Edge(q) = Edge(r) /\ (ask[r].follow \/ Present(r))
\* r waits for q to end.
Waits(r, q) ==
  /\ q # r
  /\ \/ at[r] = "edge" /\ EdgeConflict(r, q)
     \/ at[r] = "followee" /\ HoldsUser(q, Row(r, 1))
     \/ at[r] = "follower" /\ HoldsUser(q, Row(r, 2))

Blocked(r) == \E q \in Requests : Waits(r, q)

\* Requests that wait for each other in a circle.
Deadlock(C) ==
  /\ C # {}
  /\ \A r \in C : \E q \in C : Waits(r, q)
  /\ \A q \in C : \E r \in C : Waits(r, q)

-----------------------------------------------------------------------------
\* The handler asks for a followee that exists.
Begin(r) ==
  /\ at[r] = "idle" /\ \A q \in Requests : q < r => at[q] # "idle"
  /\ \E a \in Asks :
       /\ ask' = [ask EXCEPT ![r] = a]
       /\ Goto(r, IF a.from = a.to THEN "self" ELSE "edge")
  /\ UNCHANGED <<tables, emitted>>

AlwaysChanges(r) == TRUE   \* mutant: RowsAffected is not looked at
Changes(r) == ask[r].follow # Present(r)

\* INSERT ... ON CONFLICT DO NOTHING, or DELETE.  Without a row there is nothing to do.
WriteEdge(r) ==
  /\ at[r] = "edge" /\ ~Blocked(r)
  /\ Goto(r, IF Changes(r) THEN "followee" ELSE "noop")
  /\ UNCHANGED <<tables, ask, emitted>>

UpdateFollowee(r) ==
  /\ at[r] = "followee" /\ ~Blocked(r)
  /\ Goto(r, "follower")
  /\ UNCHANGED <<tables, ask, emitted>>

UpdateFollower(r) ==
  /\ at[r] = "follower" /\ ~Blocked(r)
  /\ Goto(r, "commit")
  /\ UNCHANGED <<tables, ask, emitted>>

Delta(r) == IF ask[r].follow THEN 1 ELSE -1
With(S, e, in) == IF in THEN S \cup {e} ELSE S \ {e}

\* The event goes to the outbox in the same transaction.
CommitChange(r) ==
  /\ at[r] = "commit"
  /\ followsTable' = With(followsTable, Edge(r), ask[r].follow)
  /\ followersTable' = With(followersTable, <<ask[r].to, ask[r].from>>, ask[r].follow)
  /\ followersCount' = [followersCount EXCEPT ![ask[r].to] = @ + Delta(r)]
  /\ followingCount' = [followingCount EXCEPT ![ask[r].from] = @ + Delta(r)]
  /\ emitted' = Append(emitted, ask[r])
  /\ Goto(r, "done")
  /\ UNCHANGED ask

\* A statement fails, or Postgres breaks a deadlock: Rollback.
Rollback(r) ==
  /\ at[r] \in Statements
  /\ Goto(r, "failed")
  /\ UNCHANGED <<tables, ask, emitted>>

BreakDeadlock(r) == (\E C \in SUBSET Requests : r \in C /\ Deadlock(C)) /\ Rollback(r)

Statement(r) == WriteEdge(r) \/ UpdateFollowee(r) \/ UpdateFollower(r) \/ CommitChange(r)

GraphNext == \E r \in Requests : Begin(r) \/ Statement(r) \/ Rollback(r)

GraphSpec == GraphInit /\ [][GraphNext]_graphVars

\* A request goes on while nobody blocks it, Postgres looks for deadlocks.
FairGraphSpec ==
  GraphSpec /\ \A r \in Requests : WF_graphVars(Statement(r)) /\ WF_graphVars(BreakDeadlock(r))

-----------------------------------------------------------------------------
\* The two edge tables and the two denormalized counters agree whenever nothing is
\* half committed, however follows and unfollows of an edge overlap.
GraphConsistent ==
  /\ followersTable = { <<e[2], e[1]>> : e \in followsTable }
  /\ \A u \in Users :
       /\ followersCount[u] = Cardinality({ e \in followsTable : e[2] = u })
       /\ followingCount[u] = Cardinality({ e \in followsTable : e[1] = u })

Mentions(e) == { i \in DOMAIN emitted : <<emitted[i].from, emitted[i].to>> = e }

\* An edge is there after n changes.
PresentAfter(e, n) == (e \in Edges0) = (n % 2 = 0)

\* A consumer of follows.v1 that applies the events of an edge in order holds the edge
\* that Postgres holds: the events of an edge alternate, the first one changes what was
\* there, and the last one tells whether the edge is there.
ChangesReplay ==
  \A e \in Users \X Users :
    /\ \A i \in Mentions(e) :
         emitted[i].follow <=> PresentAfter(e, Cardinality({ j \in Mentions(e) : j < i }) + 1)
    /\ e \in followsTable <=> PresentAfter(e, Cardinality(Mentions(e)))

\* Requests that wait in a circle wait for their second row of users, and each one's
\* follower is the followee of the one it waits for: only a circle of users who follow or
\* unfollow one another can deadlock, never a crowd that follows one celebrity.
DeadlocksAreMutual ==
  \A C \in SUBSET Requests :
    Deadlock(C) => \A r \in C : /\ at[r] = "follower"
                               /\ \E q \in C : ask[q].to = ask[r].from

\* Every request ends: nobody waits for the locks of one that is over, and Postgres
\* breaks the circles.
RequestsEnd == \A r \in Requests : at[r] # "idle" ~> at[r] \in Ends
======================================================================================================================================================
