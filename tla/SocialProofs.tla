----------------------------- MODULE SocialProofs -----------------------------
(***************************************************************************)
(* The parts that serve readers and their graph, for any users, tweets,    *)
(* requests and workers and any number of them.  They share no state, so   *)
(* each has its own inductive invariant.                                   *)
(***************************************************************************)
EXTENDS HomeTimeline, FollowGraph, Notifications, Retweets, Paging,
        FiniteSetTheorems, WellFoundedInduction, TLAPS

-----------------------------------------------------------------------------
(* Follows.                                                                *)

\* A commit adds or removes exactly one edge, and a counter's plus or minus one is right only
\* if the edge was really absent or present: the invariant says that what a transaction found
\* when it wrote its edge still holds when it commits, because nobody else can write that edge
\* meanwhile.

Edges == Users \X Users
Into(u) == { e \in Edges : e[2] = u }
OutOf(u) == { e \in Edges : e[1] = u }
Mirror(S) == { <<e[2], e[1]>> : e \in S }

GraphTyped ==
  /\ followsTable \subseteq Edges
  /\ followersCount \in [Users -> Int] /\ followingCount \in [Users -> Int]
  /\ ask \in [Requests -> Asks \cup {NoAsk}]
  /\ at \in [Requests -> {"idle"} \cup Statements \cup Ends]
  /\ \A r \in Requests : at[r] # "idle" => ask[r] \in Asks

Counted ==
  /\ followersTable = Mirror(followsTable)
  /\ \A u \in Users : /\ followersCount[u] = Cardinality(followsTable \cap Into(u))
                      /\ followingCount[u] = Cardinality(followsTable \cap OutOf(u))

\* What a transaction found is still so, and no other one writes its edge.
FindingsHold == \A r \in Requests : WroteEdge(r) => Changes(r)
EdgesExclusive ==
  \A r, q \in Requests : r # q /\ WroteEdge(r) /\ WroteEdge(q) => Edge(r) # Edge(q)

GraphInv == GraphTyped /\ Counted /\ FindingsHold /\ EdgesExclusive

-----------------------------------------------------------------------------
(* Sets of edges.                                                           *)

LEMMA EdgesFinite == \A S \in SUBSET Edges : IsFiniteSet(S)
<1>1. IsFiniteSet(Edges)
  BY UsersAssumption, FS_Product DEF Edges
<1> QED
  BY <1>1, FS_Subset

LEMMA Added ==
  ASSUME NEW S, IsFiniteSet(S), NEW e, e \notin S, NEW F
  PROVE  Cardinality((S \cup {e}) \cap F) = Cardinality(S \cap F) + (IF e \in F THEN 1 ELSE 0)
<1>1. IsFiniteSet(S \cap F) /\ Cardinality(S \cap F) \in Nat
  BY FS_Subset, FS_CardinalityType
<1>2. CASE e \in F
  <2>1. (S \cup {e}) \cap F = (S \cap F) \cup {e} /\ e \notin S \cap F
    BY <1>2
  <2> QED
    BY <1>1, <1>2, <2>1, FS_AddElement
<1>3. CASE e \notin F
  <2>1. (S \cup {e}) \cap F = S \cap F
    BY <1>3
  <2>2. Cardinality((S \cup {e}) \cap F) = Cardinality(S \cap F)
    BY <2>1
  <2> QED
    BY <1>1, <1>3, <2>2
<1> QED
  BY <1>2, <1>3

LEMMA Removed ==
  ASSUME NEW S, IsFiniteSet(S), NEW e \in S, NEW F
  PROVE  Cardinality((S \ {e}) \cap F) = Cardinality(S \cap F) - (IF e \in F THEN 1 ELSE 0)
<1>1. IsFiniteSet(S \ {e}) /\ e \notin S \ {e} /\ (S \ {e}) \cup {e} = S
  BY FS_Subset
<1>2. Cardinality(S \cap F) = Cardinality((S \ {e}) \cap F) + (IF e \in F THEN 1 ELSE 0)
  BY <1>1, Added
<1>3. Cardinality((S \ {e}) \cap F) \in Nat
  BY <1>1, FS_Subset, FS_CardinalityType
<1> QED
  BY <1>2, <1>3

LEMMA MirrorWith ==
  ASSUME NEW S \in SUBSET Edges, NEW f \in Users, NEW t \in Users, NEW in \in BOOLEAN
  PROVE  Mirror(With(S, <<f, t>>, in)) = With(Mirror(S), <<t, f>>, in)
<1>1. CASE in
  <2>1. Mirror(S \cup {<<f, t>>}) = Mirror(S) \cup {<<t, f>>}
    <3>1. \A e \in S \cup {<<f, t>>} : e \in S \/ <<e[2], e[1]>> = <<t, f>>
      OBVIOUS
    <3>2. <<t, f>> = <<<<f, t>>[2], <<f, t>>[1]>>
      OBVIOUS
    <3> QED
      BY <3>1, <3>2 DEF Mirror
  <2> QED
    BY <1>1, <2>1 DEF With
<1>2. CASE ~in
  <2>1. \A e \in S : <<e[2], e[1]>> = <<t, f>> => e = <<f, t>>
    BY DEF Edges
  <2> QED
    BY <1>2, <2>1 DEF Mirror, With
<1> QED
  BY <1>1, <1>2

LEMMA CountedIsConsistent == ASSUME GraphTyped PROVE Counted <=> GraphConsistent
<1>1. \A u \in Users : /\ followsTable \cap Into(u) = { e \in followsTable : e[2] = u }
                       /\ followsTable \cap OutOf(u) = { e \in followsTable : e[1] = u }
  BY DEF GraphTyped, Into, OutOf
<1> QED
  BY <1>1 DEF Counted, GraphConsistent, Mirror

-----------------------------------------------------------------------------
LEMMA GraphInitInv == GraphInit => GraphInv
<1> SUFFICES ASSUME GraphInit PROVE GraphInv
  OBVIOUS
<1>1. \A u \in Users : /\ Cardinality({ e \in Edges0 : e[2] = u }) \in Int
                       /\ Cardinality({ e \in Edges0 : e[1] = u }) \in Int
  BY UsersAssumption, EdgesFinite, FS_CardinalityType DEF Edges
<1>2. GraphTyped
  BY <1>1, UsersAssumption DEF GraphInit, GraphTyped, Edges
<1>3. GraphConsistent
  BY DEF GraphInit, GraphConsistent
<1> QED
  BY <1>2, <1>3, CountedIsConsistent DEF GraphInit, GraphInv, FindingsHold, EdgesExclusive, WroteEdge

\* A step that writes no table and takes no edge.
LEMMA NoEdgeTaken ==
  ASSUME GraphInv, GraphTyped', UNCHANGED tables,
         \A r \in Requests : WroteEdge(r)' => WroteEdge(r) /\ ask'[r] = ask[r]
  PROVE  GraphInv'
<1>1. Counted'
  BY DEF GraphInv, Counted, tables
<1>2. \A r \in Requests : WroteEdge(r)' => Edge(r)' = Edge(r) /\ Changes(r)' = Changes(r)
  BY DEF Edge, Changes, Present, tables
<1>3. FindingsHold' /\ EdgesExclusive'
  BY <1>2 DEF GraphInv, FindingsHold, EdgesExclusive
<1> QED
  BY <1>1, <1>3 DEF GraphInv

LEMMA BeginKeeps == ASSUME GraphInv, NEW r \in Requests, Begin(r) PROVE GraphInv'
<1>1. PICK a \in Asks : /\ ask' = [ask EXCEPT ![r] = a]
                        /\ Goto(r, IF a.from = a.to THEN "self" ELSE "edge")
  BY DEF Begin
<1>2. UNCHANGED tables /\ GraphTyped
  BY DEF Begin, GraphInv
<1>3. GraphTyped'
  BY <1>1, <1>2 DEF GraphTyped, tables, Goto, Statements, Ends
<1>4. \A q \in Requests : WroteEdge(q)' => WroteEdge(q) /\ ask'[q] = ask[q]
  BY <1>1, <1>2 DEF WroteEdge, Goto, GraphTyped
<1> QED
  BY <1>2, <1>3, <1>4, NoEdgeTaken

\* A transaction that gets to write its edge is the only one that does.
LEMMA WriteEdgeKeeps == ASSUME GraphInv, NEW r \in Requests, WriteEdge(r) PROVE GraphInv'
<1>1. /\ at[r] = "edge" /\ ~Blocked(r) /\ UNCHANGED <<tables, ask>> /\ GraphTyped
      /\ at' = [at EXCEPT ![r] = IF Changes(r) THEN "followee" ELSE "noop"]
  BY DEF WriteEdge, GraphInv, Goto
<1>2. GraphTyped'
  BY <1>1 DEF GraphTyped, tables, Statements, Ends
<1>3. CASE ~Changes(r)
  <2>1. \A q \in Requests : WroteEdge(q)' => WroteEdge(q) /\ ask'[q] = ask[q]
    BY <1>1, <1>3 DEF WroteEdge, GraphTyped
  <2> QED
    BY <1>1, <1>2, <2>1, NoEdgeTaken
<1>4. CASE Changes(r)
  <2>1. \A q \in Requests : q # r /\ WroteEdge(q) => Edge(q) # Edge(r)
    <3> SUFFICES ASSUME NEW q \in Requests, q # r, WroteEdge(q), Edge(q) = Edge(r) PROVE FALSE
      OBVIOUS
    <3>1. ask[r].follow \in BOOLEAN
      BY <1>1, AsksAssumption DEF GraphTyped
    <3>2. ~EdgeConflict(r, q)
      BY <1>1 DEF Blocked, Waits
    <3>3. ~ask[r].follow /\ ~Present(r)
      BY <3>2 DEF EdgeConflict
    <3> QED
      BY <3>1, <3>3, <1>4 DEF Changes, Present
  <2>2. \A q \in Requests : WroteEdge(q)' <=> WroteEdge(q) \/ q = r
    BY <1>1, <1>4 DEF WroteEdge, GraphTyped
  <2>3. \A q \in Requests : Edge(q)' = Edge(q) /\ Changes(q)' = Changes(q)
    BY <1>1 DEF Edge, Changes, Present, tables
  <2>4. Counted'
    BY <1>1 DEF GraphInv, Counted, tables
  <2>5. FindingsHold'
    BY <1>4, <2>2, <2>3 DEF GraphInv, FindingsHold
  <2>6. EdgesExclusive'
    BY <2>1, <2>2, <2>3 DEF GraphInv, EdgesExclusive
  <2> QED
    BY <1>2, <2>4, <2>5, <2>6 DEF GraphInv
<1> QED
  BY <1>3, <1>4

\* The two updates of users and a rollback leave the edges as they are.
LEMMA MovesKeep ==
  ASSUME GraphInv, NEW r \in Requests, UpdateFollowee(r) \/ UpdateFollower(r) \/ Rollback(r)
  PROVE  GraphInv'
<1>1. /\ UNCHANGED <<tables, ask>> /\ GraphTyped
      /\ \/ at[r] = "followee" /\ at' = [at EXCEPT ![r] = "follower"]
         \/ at[r] = "follower" /\ at' = [at EXCEPT ![r] = "commit"]
         \/ at[r] \in Statements /\ at' = [at EXCEPT ![r] = "failed"]
  BY DEF UpdateFollowee, UpdateFollower, Rollback, Goto, GraphInv
<1>2. GraphTyped'
  BY <1>1 DEF GraphTyped, tables, Statements, Ends
<1>3. \A q \in Requests : WroteEdge(q)' => WroteEdge(q) /\ ask'[q] = ask[q]
  BY <1>1 DEF WroteEdge, GraphTyped
<1> QED
  BY <1>1, <1>2, <1>3, NoEdgeTaken

LEMMA CommitKeeps == ASSUME GraphInv, NEW r \in Requests, CommitChange(r) PROVE GraphInv'
<1> DEFINE f == ask[r].from
           t == ask[r].to
           in == ask[r].follow
<1>1. /\ at[r] = "commit" /\ ask' = ask /\ at' = [at EXCEPT ![r] = "done"]
      /\ followsTable' = With(followsTable, <<f, t>>, in)
      /\ followersTable' = With(followersTable, <<t, f>>, in)
      /\ followersCount' = [followersCount EXCEPT ![t] = @ + Delta(r)]
      /\ followingCount' = [followingCount EXCEPT ![f] = @ + Delta(r)]
  BY DEF CommitChange, Goto, Edge
<1>2. GraphTyped /\ Counted /\ FindingsHold /\ EdgesExclusive
  BY DEF GraphInv
<1>3. f \in Users /\ t \in Users /\ in \in BOOLEAN /\ <<f, t>> \in Edges
  BY <1>1, <1>2, AsksAssumption DEF GraphTyped, Edges
<1>4. WroteEdge(r) /\ Changes(r)
  BY <1>1, <1>2 DEF WroteEdge, FindingsHold
<1>5. in <=> <<f, t>> \notin followsTable
  BY <1>3, <1>4 DEF Changes, Present, Edge
<1>6. Delta(r) = IF in THEN 1 ELSE -1
  BY DEF Delta
<1> HIDE DEF f, t, in
<1>7. IsFiniteSet(followsTable) /\ followsTable \in SUBSET Edges
  BY <1>2, EdgesFinite DEF GraphTyped
<1>8. followsTable' \subseteq Edges
  BY <1>1, <1>3, <1>7 DEF With
<1>9. GraphTyped'
  BY <1>1, <1>2, <1>3, <1>6, <1>8 DEF GraphTyped, Ends
<1>10. \A F : Cardinality(followsTable' \cap F)
                = Cardinality(followsTable \cap F) + (IF <<f, t>> \in F THEN Delta(r) ELSE 0)
  <2> SUFFICES ASSUME NEW F
               PROVE Cardinality(followsTable' \cap F)
                       = Cardinality(followsTable \cap F) + (IF <<f, t>> \in F THEN Delta(r) ELSE 0)
    OBVIOUS
  <2>1. Cardinality(followsTable \cap F) \in Nat
    BY <1>7, FS_Subset, FS_CardinalityType
  <2>2. CASE in
    BY <1>1, <1>5, <1>6, <1>7, <2>1, <2>2, Added DEF With
  <2>3. CASE ~in
    <3>1. Cardinality((followsTable \ {<<f, t>>}) \cap F)
            = Cardinality(followsTable \cap F) - (IF <<f, t>> \in F THEN 1 ELSE 0)
      BY <1>5, <1>7, <2>3, Removed
    <3> QED
      BY <1>1, <1>6, <2>1, <2>3, <3>1 DEF With
  <2> QED
    BY <1>3, <2>2, <2>3
<1>11. \A u \in Users : (<<f, t>> \in Into(u) <=> u = t) /\ (<<f, t>> \in OutOf(u) <=> u = f)
  BY <1>3 DEF Into, OutOf
<1>12. \A u \in Users : /\ followersCount'[u] = Cardinality(followsTable' \cap Into(u))
                        /\ followingCount'[u] = Cardinality(followsTable' \cap OutOf(u))
  <2> SUFFICES ASSUME NEW u \in Users
               PROVE /\ followersCount'[u] = Cardinality(followsTable' \cap Into(u))
                     /\ followingCount'[u] = Cardinality(followsTable' \cap OutOf(u))
    OBVIOUS
  <2>1. /\ followersCount[u] = Cardinality(followsTable \cap Into(u))
        /\ followingCount[u] = Cardinality(followsTable \cap OutOf(u))
        /\ followersCount[u] \in Int /\ followingCount[u] \in Int
    BY <1>2 DEF Counted, GraphTyped
  <2>2. /\ followersCount'[u] = followersCount[u] + (IF u = t THEN Delta(r) ELSE 0)
        /\ followingCount'[u] = followingCount[u] + (IF u = f THEN Delta(r) ELSE 0)
    BY <1>1, <1>2, <2>1 DEF GraphTyped
  <2> QED
    BY <1>10, <1>11, <2>1, <2>2
<1>13. followersTable' = Mirror(followsTable')
  BY <1>1, <1>2, <1>3, <1>7, MirrorWith DEF Counted
<1>14. Counted'
  BY <1>12, <1>13 DEF Counted, Into, OutOf, Edges
<1>15. \A q \in Requests : /\ WroteEdge(q)' => q # r /\ WroteEdge(q)
                           /\ Edge(q)' = Edge(q)
  BY <1>1, <1>2 DEF WroteEdge, Edge, GraphTyped
<1>16. EdgesExclusive'
  BY <1>2, <1>15 DEF EdgesExclusive
<1>17. FindingsHold'
  <2> SUFFICES ASSUME NEW q \in Requests, WroteEdge(q)' PROVE Changes(q)'
    BY DEF FindingsHold
  <2>1. Edge(q) # <<f, t>> /\ Changes(q)
    BY <1>2, <1>4, <1>15 DEF EdgesExclusive, FindingsHold, Edge, f, t
  <2>2. Edge(q) \in followsTable' <=> Edge(q) \in followsTable
    BY <1>1, <2>1 DEF With
  <2> QED
    BY <1>1, <1>15, <2>1, <2>2 DEF Changes, Present
<1> QED
  BY <1>9, <1>14, <1>16, <1>17 DEF GraphInv

LEMMA StutterKeeps == ASSUME GraphInv, UNCHANGED graphVars PROVE GraphInv'
<1>1. GraphTyped' /\ UNCHANGED tables /\ \A r \in Requests : WroteEdge(r)' = WroteEdge(r) /\ ask' = ask
  BY DEF GraphInv, GraphTyped, graphVars, tables, WroteEdge
<1> QED
  BY <1>1, NoEdgeTaken

LEMMA GraphStep == GraphInv /\ [GraphNext]_graphVars => GraphInv'
  BY BeginKeeps, WriteEdgeKeeps, MovesKeep, CommitKeeps, StutterKeeps DEF GraphNext, Statement

\* However many follows and unfollows overlap, both edge tables and both counters agree
\* after every commit.
THEOREM Consistent == GraphSpec => []GraphConsistent
<1>1. GraphInv => GraphConsistent
  BY CountedIsConsistent DEF GraphInv
<1> QED
  BY <1>1, GraphInitInv, GraphStep, PTL DEF GraphSpec

-----------------------------------------------------------------------------
\* Whoever is waited for has written something; so in a circle nobody is at the edge, then
\* nobody is waited for on account of an edge, so nobody is at the followee.
LEMMA CirclesAreMutual == DeadlocksAreMutual
<1> SUFFICES ASSUME NEW C \in SUBSET Requests, Deadlock(C), NEW r \in C
             PROVE  at[r] = "follower" /\ \E q \in C : ask[q].to = ask[r].from
  BY DEF DeadlocksAreMutual
<1>1. \A q \in C : (\E p \in C : Waits(q, p)) /\ (\E p \in C : Waits(p, q))
  BY DEF Deadlock
<1>2. \A q \in C : at[q] \in {"edge", "followee", "follower"}
  BY <1>1 DEF Waits
<1>3. \A q \in C : at[q] # "edge"
  BY <1>1 DEF Waits, EdgeConflict, WroteEdge, HoldsUser
<1>4. \A q \in C : at[q] # "followee"
  BY <1>1, <1>3 DEF Waits, HoldsUser
<1>5. \A q \in C : at[q] = "follower"
  BY <1>2, <1>3, <1>4
<1>6. PICK q \in C : Waits(r, q)
  BY <1>1
<1>7. HoldsUser(q, Row(r, 2))
  BY <1>5, <1>6 DEF Waits
<1>8. ask[q].to = ask[r].from
  BY <1>5, <1>7 DEF HoldsUser, Row
<1> QED
  BY <1>5, <1>8

\* Only users who follow or unfollow one another in a circle can deadlock.
THEOREM MutualDeadlocks == GraphSpec => []DeadlocksAreMutual
BY CirclesAreMutual, PTL

-----------------------------------------------------------------------------
(* The events replay the table.                                             *)

\* What a consumer holds of an edge after its events.
Replays(e) ==
  /\ \A i \in Mentions(e) :
       emitted[i].follow <=> PresentAfter(e, Cardinality({ j \in Mentions(e) : j < i }) + 1)
  /\ e \in followsTable <=> PresentAfter(e, Cardinality(Mentions(e)))

Replayed == GraphInv /\ emitted \in Seq(Asks) /\ \A e \in Edges : Replays(e)

LEMMA MentionsFinite ==
  ASSUME emitted \in Seq(Asks), NEW e
  PROVE  /\ IsFiniteSet(Mentions(e)) /\ Cardinality(Mentions(e)) \in Nat
         /\ \A i \in Mentions(e) : i \in Nat /\ i < Len(emitted) + 1
<1>1. DOMAIN emitted = 1 .. Len(emitted) /\ Len(emitted) \in Nat
  OBVIOUS
<1>2. Mentions(e) \subseteq 1 .. Len(emitted) /\ IsFiniteSet(1 .. Len(emitted))
  BY <1>1, FS_Interval DEF Mentions
<1>3. IsFiniteSet(Mentions(e))
  BY <1>2, FS_Subset
<1> QED
  BY <1>1, <1>2, <1>3, FS_CardinalityType

LEMMA OneMoreChange ==
  ASSUME NEW e, NEW n \in Nat
  PROVE  PresentAfter(e, n + 1) <=> ~PresentAfter(e, n)
<1>1. (n + 1) % 2 = 0 <=> n % 2 # 0
  OBVIOUS
<1> QED
  BY <1>1 DEF PresentAfter

\* A transaction that changes nothing emits nothing; one that commits changes the edge it
\* found, and its event is the last one of that edge.
LEMMA CommitReplays == ASSUME Replayed, NEW r \in Requests, CommitChange(r) PROVE Replayed'
<1> DEFINE ev == ask[r]
           n == Len(emitted) + 1
<1>1. /\ at[r] = "commit" /\ followsTable' = With(followsTable, Edge(r), ev.follow)
      /\ emitted' = Append(emitted, ev)
  BY DEF CommitChange
<1>2. GraphInv /\ emitted \in Seq(Asks)
  BY DEF Replayed
<1>3. ev \in Asks /\ Changes(r)
  BY <1>1, <1>2 DEF GraphInv, GraphTyped, FindingsHold, WroteEdge
<1>4. /\ ev.follow \in BOOLEAN /\ Edge(r) = <<ev.from, ev.to>> /\ Edge(r) \in Edges
      /\ ev.follow <=> Edge(r) \notin followsTable
  BY <1>3, AsksAssumption DEF Changes, Present, Edge, Edges
<1> HIDE DEF ev
<1>5. /\ emitted' \in Seq(Asks) /\ n \notin DOMAIN emitted /\ emitted'[n] = ev
      /\ DOMAIN emitted' = DOMAIN emitted \cup {n}
      /\ \A i \in DOMAIN emitted : emitted'[i] = emitted[i]
  BY <1>1, <1>2, <1>3
<1>6. \A e : Mentions(e)' = IF e = Edge(r) THEN Mentions(e) \cup {n} ELSE Mentions(e)
  BY <1>4, <1>5 DEF Mentions
<1>7. \A e : \A i \in Mentions(e) : emitted'[i] = emitted[i]
  BY <1>5 DEF Mentions
<1>8. ASSUME NEW e \in Edges PROVE Replays(e)'
  <2>1. /\ IsFiniteSet(Mentions(e)) /\ Cardinality(Mentions(e)) \in Nat
        /\ \A i \in Mentions(e) : i \in Nat /\ i < n
        /\ n \in Nat
    BY <1>2, MentionsFinite
  <2>2. Replays(e)
    BY DEF Replayed
  <2>3. ASSUME NEW i \in Mentions(e)
        PROVE  emitted'[i].follow
                 <=> PresentAfter(e, Cardinality({ j \in Mentions(e)' : j < i }) + 1)
    <3>1. { j \in Mentions(e)' : j < i } = { j \in Mentions(e) : j < i }
      BY <1>6, <2>1
    <3>2. emitted'[i] = emitted[i]
      BY <1>7
    <3>3. emitted[i].follow <=> PresentAfter(e, Cardinality({ j \in Mentions(e) : j < i }) + 1)
      BY <2>2 DEF Replays
    <3> QED
      BY <3>1, <3>2, <3>3
  <2>4. CASE e = Edge(r)
    <3>1. Mentions(e)' = Mentions(e) \cup {n} /\ n \notin Mentions(e)
      BY <1>6, <2>1, <2>4
    <3>2. Cardinality(Mentions(e) \cup {n}) = Cardinality(Mentions(e)) + 1
      BY <2>1, <3>1, FS_AddElement
    <3>3. Cardinality(Mentions(e)') = Cardinality(Mentions(e)) + 1
      BY <3>1, <3>2
    <3>4. { j \in Mentions(e)' : j < n } = Mentions(e)
      BY <2>1, <3>1
    <3>5. e \in followsTable <=> PresentAfter(e, Cardinality(Mentions(e)))
      BY <2>2 DEF Replays
    <3>6. PresentAfter(e, Cardinality(Mentions(e)) + 1) <=> ~PresentAfter(e, Cardinality(Mentions(e)))
      BY <2>1, OneMoreChange
    <3>7. e \in followsTable' <=> ev.follow
      BY <1>1, <1>4, <2>4 DEF With
    <3>8. emitted'[n].follow <=> PresentAfter(e, Cardinality(Mentions(e)) + 1)
      BY <1>4, <1>5, <2>4, <3>5, <3>6
    <3>9. emitted'[n].follow <=> PresentAfter(e, Cardinality({ j \in Mentions(e)' : j < n }) + 1)
      BY <3>4, <3>8
    <3>10. \A i \in Mentions(e)' :
             emitted'[i].follow <=> PresentAfter(e, Cardinality({ j \in Mentions(e)' : j < i }) + 1)
      BY <2>3, <3>1, <3>9
    <3>11. e \in followsTable' <=> PresentAfter(e, Cardinality(Mentions(e)'))
      BY <1>4, <2>4, <3>3, <3>5, <3>6, <3>7
    <3> QED
      BY <3>10, <3>11 DEF Replays, PresentAfter
  <2>5. CASE e # Edge(r)
    <3>1. Mentions(e)' = Mentions(e)
      BY <1>6, <2>5
    <3>2. e \in followsTable' <=> e \in followsTable
      BY <1>1, <2>5 DEF With
    <3>3. e \in followsTable' <=> PresentAfter(e, Cardinality(Mentions(e)'))
      BY <2>2, <3>1, <3>2 DEF Replays
    <3>4. \A i \in Mentions(e)' :
            emitted'[i].follow <=> PresentAfter(e, Cardinality({ j \in Mentions(e)' : j < i }) + 1)
      BY <2>3, <3>1
    <3> QED
      BY <3>3, <3>4 DEF Replays, PresentAfter
  <2> QED
    BY <2>4, <2>5
<1>9. GraphInv'
  BY <1>2, CommitKeeps
<1> QED
  BY <1>5, <1>8, <1>9 DEF Replayed, Edges

\* However follows and unfollows of an edge overlap, its events in commit order alternate
\* from what was there, and end at what is there.
THEOREM EventsReplay == GraphSpec => []ChangesReplay
<1>1. GraphInit => Replayed
  <2> SUFFICES ASSUME GraphInit PROVE Replayed
    OBVIOUS
  <2>1. \A e : Mentions(e) = {}
    BY DEF GraphInit, Mentions
  <2>2. Cardinality({}) = 0 /\ followsTable = Edges0 /\ emitted = << >>
    BY FS_EmptySet DEF GraphInit
  <2>3. \A e : e \in followsTable <=> PresentAfter(e, Cardinality(Mentions(e)))
    BY <2>1, <2>2 DEF PresentAfter
  <2> QED
    BY <2>1, <2>2, <2>3, GraphInitInv DEF Replayed, Replays
<1>2. Replayed /\ [GraphNext]_graphVars => Replayed'
  <2> SUFFICES ASSUME Replayed, [GraphNext]_graphVars PROVE Replayed'
    OBVIOUS
  <2>1. GraphInv'
    BY GraphStep DEF Replayed
  <2>2. ASSUME UNCHANGED <<followsTable, emitted>> PROVE Replayed'
    BY <2>1, <2>2 DEF Replayed, Replays, Mentions, PresentAfter, Edges
  <2> QED
    BY <2>2, CommitReplays
    DEF GraphNext, Statement, Begin, WriteEdge, UpdateFollowee, UpdateFollower, Rollback,
        tables, graphVars
<1>3. Replayed => ChangesReplay
  BY DEF Replayed, Replays, ChangesReplay, Edges
<1> QED
  BY <1>1, <1>2, <1>3, PTL DEF GraphSpec

-----------------------------------------------------------------------------
(* Notifications.                                                          *)

Note == [id : Nat \ {0}, event : Events, worker : Workers]

\* The events in the workers' hands, and the ids taken for them.
HandsFit ==
  /\ missed \subseteq taken /\ taken \subseteq Events
  /\ hand \in [Workers -> SUBSET Events]
  /\ \A w \in Workers : \A e \in hand[w] :
       /\ hand[w] = {e} /\ e \in taken \ missed /\ Notifies(e)
       /\ \A v \in Workers : e \in hand[v] => v = w
  /\ noteId \in [Workers -> Nat] /\ lastId \in [Workers -> Nat]
  /\ notes \in Seq(Note)

RowsAbout(e) == { i \in DOMAIN notes : notes[i].event = e }
Told(e) == Notifies(e) /\ e \in taken \ missed /\ ~InHand(e)

\* In sets rather than in numbers, which the steps change one row at a time.
OneRowEach ==
  \A e \in Events : IF Told(e) THEN \E i : RowsAbout(e) = {i} ELSE RowsAbout(e) = {}

\* A worker's ids increase with its rows, the one it has taken is new, and the latest
\* row has a last id.
IdsRise ==
  /\ \A w \in Workers :
       noteId[w] # 0 => /\ noteId[w] = lastId[w] /\ noteId[w] \notin NoteIds
                        /\ \A v \in Workers : noteId[v] = noteId[w] => v = w
                        /\ \A i \in DOMAIN notes : notes[i].worker = w => notes[i].id < noteId[w]
  /\ \A i \in DOMAIN notes : notes[i].id <= lastId[notes[i].worker]
  /\ \A i \in DOMAIN notes : \A j \in 1 .. i - 1 :
       notes[j].worker = notes[i].worker => notes[j].id < notes[i].id
  /\ NoteIds = {} \/ \E n \in NoteIds : \A m \in NoteIds : m <= n

\* What the user was shown are the first rows, the newest is the highest of them.
ShownFirst ==
  \E shown \in 0 .. Len(notes) :
    /\ listedIds = { notes[k].id : k \in 1 .. shown }
    /\ newest # 0 => \E j \in 1 .. shown : notes[j].id = newest
    /\ \A k \in 1 .. shown : notes[k].id <= newest
    /\ newest \in Nat

NotesInv ==
  HandsFit /\ OneRowEach /\ IdsRise /\ ShownFirst /\ read \subseteq NoteIds /\ HiddenNeedsTwoWorkers

-----------------------------------------------------------------------------
LEMMA NotesTyped ==
  ASSUME notes \in Seq(Note)
  PROVE  /\ DOMAIN notes = 1 .. Len(notes) /\ Len(notes) \in Nat
         /\ \A i \in DOMAIN notes : /\ notes[i].id \in Nat /\ notes[i].id # 0
                                  /\ notes[i].worker \in Workers
         /\ \A id \in NoteIds : id \in Nat
<1>1. \A i \in DOMAIN notes : notes[i] \in Note
  OBVIOUS
<1>2. \A r \in Note : r.id \in Nat /\ r.id # 0 /\ r.worker \in Workers
  BY DEF Note
<1> QED
  BY <1>1, <1>2 DEF NoteIds

\* What depends on the workers alone, on the rows, and on what the user did.
LEMMA SameHands == UNCHANGED <<workers, notes>> /\ HandsFit /\ OneRowEach => HandsFit' /\ OneRowEach'
<1> SUFFICES ASSUME UNCHANGED <<workers, notes>>, HandsFit, OneRowEach PROVE HandsFit' /\ OneRowEach'
  OBVIOUS
<1>1. UNCHANGED <<taken, hand, noteId, lastId, missed, notes>>
  BY DEF workers
<1>2. HandsFit'
  BY <1>1 DEF HandsFit, Notifies
<1>3. \A e \in Events : (Told(e)' <=> Told(e)) /\ RowsAbout(e)' = RowsAbout(e)
  BY <1>1 DEF RowsAbout, Told, InHand, Notifies
<1>4. OneRowEach'
  BY <1>3 DEF OneRowEach
<1> QED
  BY <1>2, <1>4

LEMMA SameRows == UNCHANGED <<noteId, lastId, notes>> /\ IdsRise => IdsRise'
  BY DEF IdsRise, NoteIds

LEMMA SameUser ==
  ASSUME UNCHANGED <<notes, user>>, ShownFirst, read \subseteq NoteIds, HiddenNeedsTwoWorkers
  PROVE  ShownFirst' /\ (read \subseteq NoteIds)' /\ HiddenNeedsTwoWorkers'
<1>1. UNCHANGED <<notes, read, newest, listedIds>>
  BY DEF user
<1>2. ShownFirst'
  BY <1>1 DEF ShownFirst
<1>3. (read \subseteq NoteIds)'
  BY <1>1 DEF NoteIds
<1>4. HiddenNeedsTwoWorkers'
  BY <1>1 DEF HiddenNeedsTwoWorkers
<1> QED
  BY <1>2, <1>3, <1>4

LEMMA NotesInitInv == NotesInit => NotesInv
<1> SUFFICES ASSUME NotesInit PROVE NotesInv
  OBVIOUS
<1>1. /\ notes = << >> /\ NoteIds = {} /\ Len(notes) = 0 /\ \A e : RowsAbout(e) = {}
      /\ notes \in Seq(Note)
  BY DEF NotesInit, NoteIds, RowsAbout
<1>2. HandsFit
  BY <1>1 DEF NotesInit, HandsFit
<1>3. OneRowEach
  BY <1>1 DEF NotesInit, OneRowEach, Told
<1>4. IdsRise
  BY <1>1 DEF NotesInit, IdsRise
<1>5. ShownFirst
  BY <1>1 DEF NotesInit, ShownFirst
<1>6. read \subseteq NoteIds /\ HiddenNeedsTwoWorkers
  BY <1>1 DEF NotesInit, HiddenNeedsTwoWorkers
<1> QED
  BY <1>2, <1>3, <1>4, <1>5, <1>6 DEF NotesInv

LEMMA TakeKeeps ==
  ASSUME NotesInv, NEW w \in Workers, NEW e \in Events, Take(w, e) PROVE NotesInv'
<1>1. /\ hand[w] = {} /\ e \notin taken /\ taken' = taken \cup {e}
      /\ hand' = [hand EXCEPT ![w] = IF Notifies(e) THEN {e} ELSE {}]
      /\ UNCHANGED <<noteId, lastId, missed, notes, read, newest, listedIds>>
  BY DEF Take, New, user
<1>2. HandsFit
  BY DEF NotesInv
<1>3. /\ hand'[w] = IF Notifies(e) THEN {e} ELSE {}
      /\ \A v \in Workers : v # w => hand'[v] = hand[v]
      /\ \A v \in Workers : e \notin hand[v]
  BY <1>1, <1>2 DEF HandsFit
<1>4. HandsFit'
  <2>1. hand' \in [Workers -> SUBSET Events]
    BY <1>1, <1>2 DEF HandsFit
  <2>2. \A v \in Workers : \A f \in hand'[v] :
          /\ hand'[v] = {f} /\ f \in taken' \ missed' /\ Notifies(f)
          /\ \A x \in Workers : f \in hand'[x] => x = v
    BY <1>1, <1>2, <1>3 DEF HandsFit
  <2> QED
    BY <1>1, <1>2, <2>1, <2>2 DEF HandsFit
<1>5. \A f \in Events : Told(f)' <=> Told(f)
  <2> SUFFICES ASSUME NEW f \in Events PROVE Told(f)' <=> Told(f)
    OBVIOUS
  <2>1. CASE f = e
    BY <2>1, <1>1, <1>3 DEF Told, InHand
  <2>2. CASE f # e
    BY <2>2, <1>1, <1>3 DEF Told, InHand, Notifies
  <2> QED
    BY <2>1, <2>2
<1>6. OneRowEach'
  BY <1>1, <1>5 DEF NotesInv, OneRowEach, RowsAbout
<1> QED
  BY <1>1, <1>4, <1>6, SameRows, SameUser DEF NotesInv, user

LEMMA NextKeeps ==
  ASSUME NotesInv, NEW w \in Workers, NEW n \in 1 .. MaxNote, NextNote(w, n) PROVE NotesInv'
<1>1. /\ hand[w] # {} /\ noteId[w] = 0 /\ n > lastId[w] /\ n \notin Used
      /\ noteId' = [noteId EXCEPT ![w] = n] /\ lastId' = [lastId EXCEPT ![w] = n]
      /\ UNCHANGED <<taken, hand, missed, notes, read, newest, listedIds>>
  BY DEF NextNote, user
<1>2. HandsFit /\ IdsRise /\ n \in Nat
  BY NotesAssumption DEF NotesInv
<1>3. /\ noteId'[w] = n /\ lastId'[w] = n /\ lastId[w] \in Nat
      /\ \A v \in Workers : v # w => noteId'[v] = noteId[v] /\ lastId'[v] = lastId[v]
      /\ n \notin NoteIds /\ \A v \in Workers : noteId[v] # n
  BY <1>1, <1>2 DEF HandsFit, Used
<1>4. HandsFit'
  BY <1>1, <1>2 DEF HandsFit, Notifies
<1>5. OneRowEach'
  BY <1>1 DEF NotesInv, OneRowEach, RowsAbout, Told, InHand, Notifies
<1>6. NoteIds' = NoteIds
  BY <1>1 DEF NoteIds
<1>7. \A i \in DOMAIN notes : notes[i].id \in Nat /\ notes[i].worker \in Workers
  BY <1>2, NotesTyped DEF HandsFit
<1>8. IdsRise'
  <2>1. \A v \in Workers :
       noteId'[v] # 0 => /\ noteId'[v] = lastId'[v] /\ noteId'[v] \notin NoteIds
                         /\ \A x \in Workers : noteId'[x] = noteId'[v] => x = v
                         /\ \A i \in DOMAIN notes : notes[i].worker = v => notes[i].id < noteId'[v]
    <3> SUFFICES ASSUME NEW v \in Workers, noteId'[v] # 0
                 PROVE  /\ noteId'[v] = lastId'[v] /\ noteId'[v] \notin NoteIds
                        /\ \A x \in Workers : noteId'[x] = noteId'[v] => x = v
                        /\ \A i \in DOMAIN notes : notes[i].worker = v => notes[i].id < noteId'[v]
      OBVIOUS
    <3>1. CASE v = w
      <4>1. \A i \in DOMAIN notes : notes[i].worker = w => notes[i].id <= lastId[w]
        BY <1>2 DEF IdsRise
      <4>2. \A i \in DOMAIN notes : notes[i].worker = w => notes[i].id < n
        BY <4>1, <1>1, <1>2, <1>3, <1>7
      <4> QED
        BY <3>1, <4>2, <1>3
    <3>2. CASE v # w
      BY <3>2, <1>2, <1>3 DEF IdsRise
    <3> QED
      BY <3>1, <3>2
  <2>2. \A i \in DOMAIN notes : notes[i].id <= lastId'[notes[i].worker]
    <3> SUFFICES ASSUME NEW i \in DOMAIN notes PROVE notes[i].id <= lastId'[notes[i].worker]
      OBVIOUS
    <3>1. notes[i].id <= lastId[notes[i].worker]
      BY <1>2 DEF IdsRise
    <3> QED
      BY <3>1, <1>1, <1>2, <1>3, <1>7
  <2> QED
    BY <1>1, <1>2, <1>6, <2>1, <2>2 DEF IdsRise
<1> QED
  BY <1>1, <1>4, <1>5, <1>8, SameUser DEF NotesInv, user

\* The row of the event in hand is the only one of it, and the last of its worker.
LEMMA InsertKeeps == ASSUME NotesInv, NEW w \in Workers, InsertNote(w) PROVE NotesInv'
<1>1. PICK e \in hand[w] : notes' = Append(notes, [id |-> noteId[w], event |-> e, worker |-> w])
  BY DEF InsertNote
<1> DEFINE row == [id |-> noteId[w], event |-> e, worker |-> w]
           last == Len(notes) + 1
<1>2. /\ noteId[w] # 0 /\ hand' = [hand EXCEPT ![w] = {}] /\ noteId' = [noteId EXCEPT ![w] = 0]
      /\ UNCHANGED <<taken, lastId, missed, read, newest, listedIds>>
  BY DEF InsertNote, Done, user
<1>3. HandsFit /\ OneRowEach /\ IdsRise /\ ShownFirst /\ read \subseteq NoteIds
  BY DEF NotesInv
<1>4. /\ e \in Events /\ hand[w] = {e} /\ Notifies(e) /\ e \in taken \ missed
      /\ noteId[w] \in Nat /\ \A v \in Workers : v # w => e \notin hand[v]
      /\ notes \in Seq(Note) /\ Len(notes) \in Nat
  BY <1>1, <1>3 DEF HandsFit
<1>5. /\ notes' \in Seq(Note)
      /\ DOMAIN notes = 1 .. Len(notes) /\ DOMAIN notes' = 1 .. last /\ Len(notes') = last
      /\ notes'[last] = row /\ \A i \in DOMAIN notes : notes'[i] = notes[i]
  <2>1. row \in Note
    BY <1>2, <1>4 DEF Note
  <2> HIDE DEF row
  <2> QED
    BY <1>1, <1>4, <2>1 DEF row
<1>6. /\ row.id = noteId[w] /\ row.event = e /\ row.worker = w
      /\ DOMAIN notes' = DOMAIN notes \cup {last} /\ last \notin DOMAIN notes
  BY <1>4, <1>5
<1>7. \A i \in DOMAIN notes : notes[i].id \in Nat /\ notes[i].id # 0 /\ notes[i].worker \in Workers
  BY <1>4, NotesTyped
<1> HIDE DEF row, last
<1>8. hand'[w] = {} /\ noteId'[w] = 0
      /\ \A v \in Workers : v # w => hand'[v] = hand[v] /\ noteId'[v] = noteId[v]
  BY <1>2, <1>3 DEF HandsFit
<1>9. HandsFit'
  <2>1. hand' \in [Workers -> SUBSET Events] /\ noteId' \in [Workers -> Nat]
    BY <1>2, <1>3 DEF HandsFit
  <2>2. \A v \in Workers : \A f \in hand'[v] :
          /\ hand'[v] = {f} /\ f \in taken' \ missed' /\ Notifies(f)
          /\ \A x \in Workers : f \in hand'[x] => x = v
    BY <1>2, <1>3, <1>8 DEF HandsFit
  <2> QED
    BY <1>2, <1>3, <1>5, <2>1, <2>2 DEF HandsFit
<1>10. OneRowEach'
  <2> SUFFICES ASSUME NEW f \in Events
               PROVE (IF Told(f) THEN \E i : RowsAbout(f) = {i} ELSE RowsAbout(f) = {})'
    BY DEF OneRowEach
  <2>1. IF Told(f) THEN \E i : RowsAbout(f) = {i} ELSE RowsAbout(f) = {}
    BY <1>3 DEF OneRowEach
  <2>2. RowsAbout(f)' = RowsAbout(f) \cup (IF f = e THEN {last} ELSE {})
    BY <1>5, <1>6 DEF RowsAbout
  <2>3. CASE f = e
    <3>1. Told(f)' /\ ~Told(f)
      BY <2>3, <1>1, <1>2, <1>4, <1>8 DEF Told, InHand
    <3> QED
      BY <2>1, <2>2, <2>3, <3>1
  <2>4. CASE f # e
    <3>1. Told(f)' <=> Told(f)
      BY <2>4, <1>2, <1>4, <1>8 DEF Told, InHand
    <3> QED
      BY <2>1, <2>2, <2>4, <3>1
  <2> QED
    BY <2>3, <2>4
<1>11. NoteIds' = NoteIds \cup {noteId[w]}
  <2>1. NoteIds' = { notes'[i].id : i \in DOMAIN notes } \cup { notes'[last].id }
    BY <1>6 DEF NoteIds
  <2>2. { notes'[i].id : i \in DOMAIN notes } = NoteIds
    BY <1>5 DEF NoteIds
  <2> QED
    BY <1>5, <1>6, <2>1, <2>2
<1>12. IdsRise'
  <2> DEFINE x == noteId[w]
  <2>1. /\ x = lastId[w] /\ x \notin NoteIds /\ x \in Nat /\ x # 0
        /\ \A v \in Workers : noteId[v] = x => v = w
        /\ \A i \in DOMAIN notes : notes[i].worker = w => notes[i].id < x
    BY <1>2, <1>3, <1>4 DEF IdsRise
  <2> HIDE DEF x
  <2>2. \A v \in Workers :
       noteId'[v] # 0 => /\ noteId'[v] = lastId'[v] /\ noteId'[v] \notin NoteIds'
                         /\ \A y \in Workers : noteId'[y] = noteId'[v] => y = v
                         /\ \A i \in DOMAIN notes' : notes'[i].worker = v => notes'[i].id < noteId'[v]
    <3> SUFFICES ASSUME NEW v \in Workers, v # w, noteId[v] # 0
                 PROVE  /\ noteId[v] = lastId[v] /\ noteId[v] \notin NoteIds'
                        /\ \A y \in Workers : noteId'[y] = noteId[v] => y = v
                        /\ \A i \in DOMAIN notes' : notes'[i].worker = v => notes'[i].id < noteId[v]
      BY <1>2, <1>8
    <3>1. /\ noteId[v] = lastId[v] /\ noteId[v] \notin NoteIds
          /\ \A y \in Workers : noteId[y] = noteId[v] => y = v
          /\ \A i \in DOMAIN notes : notes[i].worker = v => notes[i].id < noteId[v]
      BY <1>3 DEF IdsRise
    <3>2. noteId[v] \notin NoteIds'
      BY <1>11, <2>1, <3>1 DEF x
    <3>3. \A i \in DOMAIN notes' : notes'[i].worker = v => notes'[i].id < noteId[v]
      BY <1>5, <1>6, <3>1
    <3> QED
      BY <1>8, <3>1, <3>2, <3>3
  <2>3. \A i \in DOMAIN notes' : notes'[i].id <= lastId'[notes'[i].worker]
    <3>1. \A i \in DOMAIN notes : notes[i].id <= lastId[notes[i].worker]
      BY <1>3 DEF IdsRise
    <3>2. notes'[last].id <= lastId[notes'[last].worker]
      BY <1>5, <1>6, <2>1 DEF x
    <3> QED
      BY <1>2, <1>5, <1>6, <3>1, <3>2
  <2>4. \A i \in DOMAIN notes' : \A j \in 1 .. i - 1 :
          notes'[j].worker = notes'[i].worker => notes'[j].id < notes'[i].id
    <3> SUFFICES ASSUME NEW i \in DOMAIN notes', NEW j \in 1 .. i - 1,
                        notes'[j].worker = notes'[i].worker
                 PROVE notes'[j].id < notes'[i].id
      OBVIOUS
    <3>1. j \in DOMAIN notes
      BY <1>4, <1>5 DEF last
    <3>2. CASE i = last
      BY <3>1, <3>2, <1>5, <1>6, <2>1 DEF x
    <3>3. CASE i \in DOMAIN notes
      BY <3>1, <3>3, <1>3, <1>5 DEF IdsRise
    <3> QED
      BY <3>2, <3>3, <1>6
  <2>5. \E n \in NoteIds' : \A m \in NoteIds' : m <= n
    <3>1. CASE NoteIds = {}
      BY <3>1, <1>11, <2>1 DEF x
    <3>2. ASSUME NEW n \in NoteIds, \A m \in NoteIds : m <= n
          PROVE \E k \in NoteIds' : \A m \in NoteIds' : m <= k
      <4>1. n \in Nat /\ \A m \in NoteIds : m \in Nat
        BY <1>7 DEF NoteIds
      <4>2. CASE x <= n
        BY <3>2, <4>1, <4>2, <1>11, <2>1 DEF x
      <4>3. CASE n < x
        <5>1. \A m \in NoteIds' : m <= x
          BY <3>2, <4>1, <4>3, <1>11, <2>1 DEF x
        <5> QED
          BY <5>1, <1>11 DEF x
      <4> QED
        BY <4>1, <4>2, <4>3, <2>1
    <3> QED
      BY <3>1, <3>2, <1>3 DEF IdsRise
  <2> QED
    BY <2>2, <2>3, <2>4, <2>5 DEF IdsRise
<1>13. ShownFirst'
  <2>1. PICK shown \in 0 .. Len(notes) :
    /\ listedIds = { notes[k].id : k \in 1 .. shown }
    /\ newest # 0 => \E j \in 1 .. shown : notes[j].id = newest
    /\ \A k \in 1 .. shown : notes[k].id <= newest
    /\ newest \in Nat
    BY <1>3 DEF ShownFirst
  <2>2. shown \in 0 .. Len(notes') /\ \A k \in 1 .. shown : k \in DOMAIN notes
    BY <1>4, <1>5 DEF last
  <2>3. \A k \in 1 .. shown : notes'[k] = notes[k]
    BY <2>2, <1>5
  <2>4. listedIds' = { notes'[k].id : k \in 1 .. shown }
    BY <1>2, <2>1, <2>3
  <2> QED
    BY <1>2, <2>1, <2>2, <2>3, <2>4 DEF ShownFirst
<1>14. HiddenNeedsTwoWorkers'
  <2> SUFFICES ASSUME NEW i \in DOMAIN notes', notes'[i].id \in read \ listedIds
               PROVE \E j \in 1 .. i - 1 : notes'[j].id > notes'[i].id /\ notes'[j].worker # notes'[i].worker
    BY <1>2 DEF HiddenNeedsTwoWorkers
  <2>1. i # last
    BY <1>2, <1>3, <1>5, <1>6 DEF IdsRise
  <2>2. i \in DOMAIN notes /\ notes'[i] = notes[i]
    BY <2>1, <1>5, <1>6
  <2>3. PICK j \in 1 .. i - 1 : notes[j].id > notes[i].id /\ notes[j].worker # notes[i].worker
    BY <2>2 DEF NotesInv, HiddenNeedsTwoWorkers
  <2>4. notes'[j] = notes[j]
    BY <2>2, <1>4, <1>5
  <2> QED
    BY <2>2, <2>3, <2>4
<1>15. read' \subseteq NoteIds'
  BY <1>2, <1>3, <1>11
<1> QED
  BY <1>9, <1>10, <1>12, <1>13, <1>14, <1>15 DEF NotesInv

LEMMA LoseKeeps == ASSUME NotesInv, NEW w \in Workers, Lose(w) PROVE NotesInv'
<1>1. /\ hand[w] # {} /\ missed' = missed \cup hand[w]
      /\ hand' = [hand EXCEPT ![w] = {}] /\ noteId' = [noteId EXCEPT ![w] = 0]
      /\ UNCHANGED <<taken, lastId, notes, read, newest, listedIds>>
  BY DEF Lose, Done, user
<1>2. HandsFit /\ IdsRise
  BY DEF NotesInv
<1>3. /\ hand'[w] = {} /\ noteId'[w] = 0
      /\ \A v \in Workers : v # w => hand'[v] = hand[v] /\ noteId'[v] = noteId[v]
      /\ \A f \in hand[w] : f \in taken /\ \A v \in Workers : f \in hand[v] => v = w
  BY <1>1, <1>2 DEF HandsFit
<1>4. HandsFit'
  <2>1. hand' \in [Workers -> SUBSET Events] /\ noteId' \in [Workers -> Nat]
    BY <1>1, <1>2 DEF HandsFit
  <2>2. \A v \in Workers : \A f \in hand'[v] :
          /\ hand'[v] = {f} /\ f \in taken' \ missed' /\ Notifies(f)
          /\ \A x \in Workers : f \in hand'[x] => x = v
    BY <1>1, <1>2, <1>3 DEF HandsFit
  <2> QED
    BY <1>1, <1>2, <1>3, <2>1, <2>2 DEF HandsFit
<1>5. \A f \in Events : Told(f)' <=> Told(f)
  <2> SUFFICES ASSUME NEW f \in Events PROVE Told(f)' <=> Told(f)
    OBVIOUS
  <2>1. CASE f \in hand[w]
    BY <2>1, <1>1 DEF Told, InHand
  <2>2. CASE f \notin hand[w]
    BY <2>2, <1>1, <1>3 DEF Told, InHand, Notifies
  <2> QED
    BY <2>1, <2>2
<1>6. OneRowEach'
  BY <1>1, <1>5 DEF NotesInv, OneRowEach, RowsAbout
<1>7. IdsRise'
  <2>1. NoteIds' = NoteIds
    BY <1>1 DEF NoteIds
  <2>2. \A v \in Workers :
       noteId'[v] # 0 => /\ noteId'[v] = lastId[v] /\ noteId'[v] \notin NoteIds
                         /\ \A x \in Workers : noteId'[x] = noteId'[v] => x = v
                         /\ \A i \in DOMAIN notes : notes[i].worker = v => notes[i].id < noteId'[v]
    BY <1>2, <1>3 DEF IdsRise
  <2> QED
    BY <1>1, <1>2, <2>1, <2>2 DEF IdsRise
<1> QED
  BY <1>1, <1>4, <1>6, <1>7, SameUser DEF NotesInv, user

-----------------------------------------------------------------------------
LEMMA ListKeeps == ASSUME NotesInv, ListNotes PROVE NotesInv'
<1>1. /\ NoteIds # {} /\ listedIds' = listedIds \cup NoteIds
      /\ newest' = CHOOSE n \in NoteIds : \A m \in NoteIds : m <= n
      /\ UNCHANGED <<taken, hand, noteId, lastId, missed, notes, read>>
  BY DEF ListNotes, workers
<1>2. \A i \in DOMAIN notes : notes[i].id \in Nat
  BY NotesTyped DEF NotesInv, HandsFit
<1>3. newest' \in NoteIds /\ \A m \in NoteIds : m <= newest'
  BY <1>1 DEF NotesInv, IdsRise
<1>4. DOMAIN notes = 1 .. Len(notes) /\ Len(notes) \in Nat
  BY DEF NotesInv, HandsFit
<1>5. listedIds \subseteq NoteIds
  BY <1>4 DEF NotesInv, ShownFirst, NoteIds
<1>6. ShownFirst'
  <2>1. listedIds' = { notes[k].id : k \in 1 .. Len(notes) }
    BY <1>1, <1>4, <1>5 DEF NoteIds
  <2>2. \E j \in 1 .. Len(notes) : notes[j].id = newest'
    BY <1>3, <1>4 DEF NoteIds
  <2>3. \A k \in 1 .. Len(notes) : notes[k].id <= newest'
    BY <1>3, <1>4 DEF NoteIds
  <2>4. newest' \in Nat /\ Len(notes) \in 0 .. Len(notes)
    BY <1>2, <1>3, <1>4 DEF NoteIds
  <2> QED
    BY <1>1, <2>1, <2>2, <2>3, <2>4 DEF ShownFirst
<1>7. HandsFit' /\ OneRowEach' /\ IdsRise' /\ read' \subseteq NoteIds'
  <2>1. read' \subseteq NoteIds'
    BY <1>1 DEF NotesInv, NoteIds
  <2> QED
    BY <1>1, <2>1, SameHands, SameRows DEF NotesInv, workers
<1>8. HiddenNeedsTwoWorkers'
  BY <1>1 DEF NotesInv, HiddenNeedsTwoWorkers
<1> QED
  BY <1>6, <1>7, <1>8 DEF NotesInv

\* What is marked without having been shown came after the newest row that was.
LEMMA MarkKeeps == ASSUME NotesInv, MarkRead PROVE NotesInv'
<1>1. /\ newest # 0 /\ read' = read \cup { id \in NoteIds : id <= newest }
      /\ UNCHANGED <<taken, hand, noteId, lastId, missed, notes, newest, listedIds>>
  BY DEF MarkRead, UpTo, workers
<1>2. PICK shown \in 0 .. Len(notes) :
    /\ listedIds = { notes[k].id : k \in 1 .. shown }
    /\ \E j \in 1 .. shown : notes[j].id = newest
    /\ newest \in Nat
  BY <1>1 DEF NotesInv, ShownFirst
<1>3. /\ \A i \in DOMAIN notes : notes[i].id \in Nat
      /\ DOMAIN notes = 1 .. Len(notes) /\ Len(notes) \in Nat
  BY NotesTyped DEF NotesInv, HandsFit
<1>4. HandsFit' /\ OneRowEach' /\ IdsRise' /\ ShownFirst' /\ read' \subseteq NoteIds'
  <2>1. read' \subseteq NoteIds'
    BY <1>1 DEF NotesInv, NoteIds
  <2>2. ShownFirst'
    BY <1>1 DEF NotesInv, ShownFirst
  <2> QED
    BY <1>1, <2>1, <2>2, SameHands, SameRows DEF NotesInv, workers
<1>5. ASSUME NEW i \in DOMAIN notes, notes[i].id \in read' \ listedIds
      PROVE \E j \in 1 .. i - 1 : notes[j].id > notes[i].id /\ notes[j].worker # notes[i].worker
  <2>1. CASE notes[i].id \in read
    BY <1>5, <2>1 DEF NotesInv, HiddenNeedsTwoWorkers
  <2>2. CASE notes[i].id <= newest
    <3>1. PICK j \in 1 .. shown : notes[j].id = newest
      BY <1>2
    <3>2. i \notin 1 .. shown /\ notes[i].id # newest
      BY <1>2, <1>5, <3>1
    <3>3. j \in 1 .. i - 1 /\ notes[j].id > notes[i].id
      BY <1>2, <1>3, <2>2, <3>1, <3>2
    <3>4. notes[j].worker = notes[i].worker => notes[j].id < notes[i].id
      BY <3>3 DEF NotesInv, IdsRise
    <3>5. notes[i].id \in Nat /\ notes[j].id \in Nat
      BY <1>3, <3>3
    <3> QED
      BY <3>3, <3>4, <3>5
  <2> QED
    BY <1>1, <1>5, <2>1, <2>2
<1>6. HiddenNeedsTwoWorkers'
  BY <1>1, <1>5 DEF HiddenNeedsTwoWorkers
<1> QED
  BY <1>4, <1>6 DEF NotesInv

LEMMA NotesStep == NotesInv /\ [NotesNext]_notesVars => NotesInv'
<1> SUFFICES ASSUME NotesInv, [NotesNext]_notesVars PROVE NotesInv'
  OBVIOUS
<1>1. CASE UNCHANGED notesVars
  BY <1>1, SameHands, SameRows, SameUser DEF notesVars, workers, NotesInv
<1> QED
  BY <1>1, TakeKeeps, NextKeeps, InsertKeeps, LoseKeeps, ListKeeps, MarkKeeps DEF NotesNext

\* However often and to whichever workers an event is delivered, it becomes one
\* notification, or none once its worker has failed.
THEOREM OneNotification == NotesSpec => []NotifiedOnce
<1>1. NotesInv => NotifiedOnce
  <2> SUFFICES ASSUME NotesInv, NEW e \in Events
               PROVE RowsOf(e) = IF Told(e) THEN 1 ELSE 0
    BY DEF NotifiedOnce, Told
  <2>1. RowsOf(e) = Cardinality(RowsAbout(e))
    BY DEF RowsOf, RowsAbout
  <2>2. CASE Told(e)
    <3>1. PICK i : RowsAbout(e) = {i}
      BY <2>2 DEF NotesInv, OneRowEach
    <3>2. Cardinality({i}) = 1
      BY FS_Singleton
    <3> QED
      BY <2>1, <2>2, <3>1, <3>2
  <2>3. CASE ~Told(e)
    <3>1. RowsAbout(e) = {} /\ Cardinality({}) = 0
      BY <2>3, FS_EmptySet DEF NotesInv, OneRowEach
    <3> QED
      BY <2>1, <2>3, <3>1
  <2> QED
    BY <2>2, <2>3
<1> QED
  BY <1>1, NotesInitInv, NotesStep, PTL DEF NotesSpec

\* With any number of workers and lists, a notification is marked as read unseen only
\* if a row of another worker with a higher id was there before it.
THEOREM UnseenNeedsTwo == NotesSpec => []HiddenNeedsTwoWorkers
<1>1. NotesInv => HiddenNeedsTwoWorkers
  BY DEF NotesInv
<1> QED
  BY <1>1, NotesInitInv, NotesStep, PTL DEF NotesSpec

-----------------------------------------------------------------------------
(* Retweets.                                                               *)

\* A tweet that was made, and is no retweet.
Original(t) == t \in Posts /\ phase[t] = "posted" /\ of[t] = Plain

PostFits(p) ==
  /\ of[p] # Plain \/ p \in tweets \cup overlaps => phase[p] = "posted"
  /\ of[p] # Plain => Original(of[p])
  /\ phase[p] \in {"find", "flatten"} => target[p] \in Posts
  /\ phase[p] = "flatten" => Original(target[p])
  /\ phase[p] = "insert" /\ target[p] # Plain =>
       Original(target[p]) /\ naming[p] = writer[target[p]]

EventFits(e) == e.kind = "retweeted" => Original(e.tweet) /\ e.author = writer[e.tweet]

Flat ==
  /\ RetweetTypeOK
  /\ \A p \in Posts : PostFits(p)
  /\ \A d \in Erasers : phase[d] = "erase" => target[d] \in tweets \cup overlaps
  /\ \A i \in DOMAIN engaged : EventFits(engaged[i])

Retweetings(t) == { p \in tweets : of[p] = t }
Balance(t) ==
  (\A p \in overlaps : of[p] # t) =>
    Engagements("retweeted", t) - Engagements("unretweeted", t) = Cardinality(Retweetings(t))

RetweetInv == Flat /\ \A t \in Posts : Balance(t)

Engagement == [kind : {"retweeted", "unretweeted"}, tweet : Posts, retweet : Posts, author : Writers]

-----------------------------------------------------------------------------
LEMMA PostsAndErasers ==
  /\ Posts \subseteq Calls /\ Erasers \subseteq Calls /\ \A p \in Posts : p \notin Erasers
  /\ IsFiniteSet(Posts) /\ Plain \notin Posts
<1>1. MaxPosts \in Nat /\ MaxErasers \in Nat /\ Plain \notin Posts
  BY RetweetsAssumption
<1>2. IsFiniteSet(Posts)
  BY <1>1, FS_Interval DEF Posts
<1>3. \A p \in Posts : p \notin Erasers
  BY <1>1 DEF Posts, Erasers
<1> QED
  BY <1>1, <1>2, <1>3 DEF Calls

\* One more event counts for its kind and its tweet.
LEMMA OneMore ==
  ASSUME engaged \in Seq(Engagement), NEW ev \in Engagement, engaged' = engaged \o << ev >>,
         NEW what, NEW t
  PROVE  /\ Engagements(what, t) \in Nat
         /\ Engagements(what, t)' =
              Engagements(what, t) + (IF ev.kind = what /\ ev.tweet = t THEN 1 ELSE 0)
<1> DEFINE At == { i \in DOMAIN engaged : engaged[i].kind = what /\ engaged[i].tweet = t }
           At2 == { i \in DOMAIN engaged' : engaged'[i].kind = what /\ engaged'[i].tweet = t }
           n == Len(engaged) + 1
<1>1. /\ Len(engaged) \in Nat /\ DOMAIN engaged = 1 .. Len(engaged) /\ n \notin DOMAIN engaged
      /\ DOMAIN engaged' = DOMAIN engaged \cup {n} /\ engaged'[n] = ev
      /\ \A i \in DOMAIN engaged : engaged'[i] = engaged[i]
  OBVIOUS
<1>2. IsFiniteSet(DOMAIN engaged)
  BY <1>1, FS_Interval
<1>3. IsFiniteSet(At) /\ Cardinality(At) \in Nat
  BY <1>2, FS_Subset, FS_CardinalityType
<1>4. At2 = IF ev.kind = what /\ ev.tweet = t THEN At \cup {n} ELSE At
  BY <1>1
<1>5. Engagements(what, t) = Cardinality(At) /\ Engagements(what, t)' = Cardinality(At2)
  BY DEF Engagements
<1>6. n \notin At
  BY <1>1
<1> HIDE DEF At, At2, n
<1>7. Cardinality(At \cup {n}) = Cardinality(At) + 1
  BY <1>3, <1>6, FS_AddElement
<1>8. CASE ev.kind = what /\ ev.tweet = t
  <2>1. Cardinality(At2) = Cardinality(At) + 1
    BY <1>4, <1>7, <1>8
  <2> QED
    BY <1>3, <1>5, <1>8, <2>1
<1>9. CASE ~(ev.kind = what /\ ev.tweet = t)
  <2>1. Cardinality(At2) = Cardinality(At)
    BY <1>4, <1>9
  <2> QED
    BY <1>3, <1>5, <1>9, <2>1
<1> QED
  BY <1>8, <1>9

LEMMA CountsNat ==
  ASSUME RetweetTypeOK, NEW t
  PROVE  /\ Engagements("retweeted", t) \in Nat /\ Engagements("unretweeted", t) \in Nat
         /\ IsFiniteSet(Retweetings(t)) /\ Cardinality(Retweetings(t)) \in Nat
<1>1. IsFiniteSet(DOMAIN engaged)
  <2>1. DOMAIN engaged = 1 .. Len(engaged) /\ Len(engaged) \in Nat
    BY DEF RetweetTypeOK
  <2> QED
    BY <2>1, FS_Interval
<1>2. \A what : IsFiniteSet({ i \in DOMAIN engaged : engaged[i].kind = what /\ engaged[i].tweet = t })
  BY <1>1, FS_Subset
<1>3. IsFiniteSet(Retweetings(t))
  <2>1. Retweetings(t) \subseteq Posts
    BY DEF Retweetings, RetweetTypeOK
  <2> QED
    BY <2>1, PostsAndErasers, FS_Subset
<1> QED
  BY <1>2, <1>3, FS_CardinalityType DEF Engagements

-----------------------------------------------------------------------------
LEMMA RetweetInitInv == RetweetInit => RetweetInv
<1> SUFFICES ASSUME RetweetInit PROVE RetweetInv
  OBVIOUS
<1>1. /\ phase = [r \in Calls |-> "new"] /\ writer \in [Calls -> Writers]
      /\ target = [r \in Calls |-> Plain] /\ naming = [p \in Posts |-> writer[p]]
      /\ tweets = {} /\ of = [p \in Posts |-> Plain] /\ engaged = << >> /\ overlaps = {}
  BY DEF RetweetInit
<1>2. RetweetTypeOK
  BY <1>1, PostsAndErasers DEF RetweetTypeOK, Phases
<1>3. Flat
  BY <1>1, <1>2, PostsAndErasers DEF Flat, PostFits
<1>4. \A t : Engagements("retweeted", t) = 0 /\ Engagements("unretweeted", t) = 0
             /\ Cardinality(Retweetings(t)) = 0
  <2>1. \A what, t : { i \in DOMAIN engaged : engaged[i].kind = what /\ engaged[i].tweet = t } = {}
    BY <1>1
  <2>2. \A t : Retweetings(t) = {}
    BY <1>1 DEF Retweetings
  <2> QED
    BY <2>1, <2>2, FS_EmptySet DEF Engagements
<1> QED
  BY <1>3, <1>4 DEF RetweetInv, Balance

\* Steps that change no table: they move one call.
LEMMA MoveKeeps ==
  ASSUME RetweetInv, NEW r \in Calls, NEW s \in Phases, Enter(r, s), NEW x \in Posts \cup {Plain},
         phase[r] # "posted", s # "posted", target' = [target EXCEPT ![r] = x],
         naming' \in [Posts -> Writers], \A p \in Posts : p # r => naming'[p] = naming[p],
         UNCHANGED <<writer, tweets, of, engaged, overlaps>>,
         r \in Posts => /\ s \in {"find", "flatten"} => x \in Posts
                        /\ s = "flatten" => Original(x)
                        /\ s = "insert" /\ x # Plain => Original(x) /\ naming'[r] = writer[x],
         r \in Erasers /\ s = "erase" => x \in tweets \cup overlaps
  PROVE  RetweetInv'
<1>1. /\ phase \in [Calls -> Phases] /\ target \in [Calls -> Posts \cup {Plain}]
      /\ phase' = [phase EXCEPT ![r] = s]
  BY DEF Enter, RetweetInv, Flat, RetweetTypeOK
<1>2. /\ phase'[r] = s /\ target'[r] = x
      /\ \A c \in Calls : c # r => phase'[c] = phase[c] /\ target'[c] = target[c]
  BY <1>1
<1>3. RetweetTypeOK'
  <2>1. phase' \in [Calls -> Phases] /\ target' \in [Calls -> Posts \cup {Plain}]
    BY <1>1
  <2> QED
    BY <2>1 DEF RetweetInv, Flat, RetweetTypeOK
<1>4. \A t : Original(t)' <=> Original(t)
  BY <1>2, PostsAndErasers DEF Original
<1>5. ASSUME NEW p \in Posts PROVE PostFits(p)'
  <2>1. PostFits(p)
    BY DEF RetweetInv, Flat
  <2>2. CASE p = r
    BY <2>1, <2>2, <1>2, <1>4 DEF PostFits
  <2>3. CASE p # r
    BY <2>1, <2>3, <1>2, <1>4, PostsAndErasers DEF PostFits
  <2> QED
    BY <2>2, <2>3
<1>6. \A d \in Erasers : phase'[d] = "erase" => target'[d] \in tweets \cup overlaps
  BY <1>2, PostsAndErasers DEF RetweetInv, Flat
<1>7. \A i \in DOMAIN engaged : EventFits(engaged[i])'
  BY <1>4 DEF RetweetInv, Flat, EventFits
<1>8. Flat'
  BY <1>3, <1>5, <1>6, <1>7 DEF Flat
<1>9. \A t \in Posts : Balance(t)'
  BY DEF RetweetInv, Balance, Retweetings, Engagements
<1> QED
  BY <1>8, <1>9 DEF RetweetInv

LEMMA AskKeeps ==
  ASSUME RetweetInv, NEW p \in Posts, NEW t \in Posts \cup {Plain}, Ask(p, t) PROVE RetweetInv'
<1> DEFINE s == IF t = Plain THEN "insert" ELSE "find"
<1>1. /\ phase[p] = "new" /\ target' = [target EXCEPT ![p] = t] /\ Enter(p, s)
      /\ UNCHANGED <<writer, naming, tweets, of, engaged, overlaps>>
  BY DEF Ask
<1>2. s \in Phases /\ s # "posted" /\ naming \in [Posts -> Writers] /\ p \in Calls /\ p \notin Erasers
  BY PostsAndErasers DEF Phases, RetweetInv, Flat, RetweetTypeOK
<1>3. s = "find" => t \in Posts
  OBVIOUS
<1>4. s # "flatten" /\ ~(s = "insert" /\ t # Plain)
  OBVIOUS
<1> HIDE DEF s
<1> QED
  BY <1>1, <1>2, <1>3, <1>4, MoveKeeps

\* The target that is found is an original, or names one.
LEMMA FindKeeps == ASSUME RetweetInv, NEW p \in Posts, Find(p) PROVE RetweetInv'
<1> DEFINE t == target[p]
<1>1. phase[p] = "find" /\ UNCHANGED <<writer, tweets, of, engaged, overlaps>>
  BY DEF Find
<1>2. /\ t \in Posts /\ p \in Calls /\ p \notin Erasers /\ target \in [Calls -> Posts \cup {Plain}]
      /\ naming \in [Posts -> Writers] /\ writer[t] \in Writers
      /\ of[t] \in Posts \cup {Plain} /\ Plain \notin Posts
  BY <1>1, PostsAndErasers DEF RetweetInv, Flat, PostFits, RetweetTypeOK
<1>3. CASE t \notin tweets
  <2>1. Enter(p, "refused") /\ UNCHANGED naming /\ target' = [target EXCEPT ![p] = t]
    BY <1>2, <1>3 DEF Find
  <2>2. "refused" \in Phases
    BY DEF Phases
  <2> QED
    BY <1>1, <1>2, <2>1, <2>2, MoveKeeps
<1>4. CASE t \in tweets
  <2>1. naming' = [naming EXCEPT ![p] = writer[t]]
    BY <1>4 DEF Find, Names
  <2>2. /\ naming' \in [Posts -> Writers] /\ naming'[p] = writer[t]
        /\ \A q \in Posts : q # p => naming'[q] = naming[q]
    BY <1>2, <2>1
  <2>3. phase[t] = "posted"
    BY <1>2, <1>4 DEF RetweetInv, Flat, PostFits
  <2>4. CASE of[t] = Plain
    <3>1. Enter(p, "insert") /\ target' = [target EXCEPT ![p] = t] /\ Original(t) /\ "insert" \in Phases
      BY <1>2, <1>4, <2>3, <2>4 DEF Find, Original, Phases
    <3> QED
      BY <1>1, <1>2, <2>2, <3>1, MoveKeeps
  <2>5. CASE of[t] # Plain
    <3>1. Enter(p, "flatten") /\ target' = [target EXCEPT ![p] = of[t]] /\ "flatten" \in Phases
      BY <1>4, <2>5 DEF Find, Phases
    <3>2. Original(of[t])
      BY <1>2, <2>5 DEF RetweetInv, Flat, PostFits
    <3> QED
      BY <1>1, <1>2, <2>2, <2>5, <3>1, <3>2, MoveKeeps
  <2> QED
    BY <2>4, <2>5
<1> QED
  BY <1>3, <1>4

LEMMA FlattenKeeps == ASSUME RetweetInv, NEW p \in Posts, Flatten(p) PROVE RetweetInv'
<1> DEFINE t == target[p]
<1>1. phase[p] = "flatten" /\ UNCHANGED <<writer, tweets, of, engaged, overlaps>>
  BY DEF Flatten
<1>2. /\ Original(t) /\ t \in Posts /\ p \in Calls /\ p \notin Erasers
      /\ target \in [Calls -> Posts \cup {Plain}]
      /\ naming \in [Posts -> Writers] /\ writer[t] \in Writers
  BY <1>1, PostsAndErasers DEF RetweetInv, Flat, PostFits, RetweetTypeOK, Original
<1>3. target' = [target EXCEPT ![p] = t] /\ "refused" \in Phases /\ "insert" \in Phases
  BY <1>1, <1>2 DEF Flatten, Phases
<1>4. CASE t \notin tweets
  <2>1. Enter(p, "refused") /\ UNCHANGED naming
    BY <1>4 DEF Flatten
  <2> QED
    BY <1>1, <1>2, <1>3, <2>1, MoveKeeps
<1>5. CASE t \in tweets
  <2>1. Enter(p, "insert") /\ naming' = [naming EXCEPT ![p] = writer[t]]
    BY <1>5 DEF Flatten, Rename, Names
  <2>2. /\ naming' \in [Posts -> Writers] /\ naming'[p] = writer[t]
        /\ \A q \in Posts : q # p => naming'[q] = naming[q]
    BY <1>2, <2>1
  <2> QED
    BY <1>1, <1>2, <1>3, <2>1, <2>2, MoveKeeps
<1> QED
  BY <1>4, <1>5

LEMMA FindErasedKeeps ==
  ASSUME RetweetInv, NEW d \in Erasers, NEW t \in Posts, FindErased(d, t) PROVE RetweetInv'
<1> DEFINE s == IF t \in tweets /\ MayErase(d, t) THEN "erase" ELSE "refused"
<1>1. /\ phase[d] = "new" /\ target' = [target EXCEPT ![d] = t] /\ Enter(d, s)
      /\ UNCHANGED <<writer, naming, tweets, of, engaged, overlaps>>
  BY DEF FindErased
<1>2. s \in Phases /\ s # "posted" /\ naming \in [Posts -> Writers] /\ d \in Calls /\ d \notin Posts
  BY PostsAndErasers DEF Phases, RetweetInv, Flat, RetweetTypeOK
<1>3. s = "erase" => t \in tweets
  OBVIOUS
<1> HIDE DEF s
<1> QED
  BY <1>1, <1>2, <1>3, MoveKeeps

LEMMA GiveUpKeeps == ASSUME RetweetInv, NEW d \in Erasers, GiveUp(d) PROVE RetweetInv'
<1>1. /\ phase[d] = "erase" /\ Enter(d, "refused")
      /\ UNCHANGED <<writer, target, naming, tweets, of, engaged, overlaps>>
  BY DEF GiveUp
<1>2. /\ "refused" \in Phases /\ naming \in [Posts -> Writers] /\ d \in Calls /\ d \notin Posts
      /\ target[d] \in Posts \cup {Plain} /\ target' = [target EXCEPT ![d] = target[d]]
  BY <1>1, PostsAndErasers DEF Phases, RetweetInv, Flat, RetweetTypeOK
<1> QED
  BY <1>1, <1>2, MoveKeeps

-----------------------------------------------------------------------------
(* Steps of the tables.                                                     *)

\* The tweet that is posted was not there, and what it retweets is an original.
LEMMA PostKeeps == ASSUME RetweetInv, NEW p \in Posts, Post(p) PROVE RetweetInv'
<1> DEFINE t == target[p]
           ev == [kind |-> "retweeted", tweet |-> t, retweet |-> p, author |-> naming[p]]
<1>1. /\ phase[p] = "insert" /\ tweets' = tweets \cup {p} /\ of' = [of EXCEPT ![p] = t]
      /\ engaged' = engaged \o (IF t = Plain THEN << >> ELSE << ev >>)
      /\ phase' = [phase EXCEPT ![p] = "posted"]
      /\ UNCHANGED <<writer, target, naming, overlaps>>
  BY DEF Post, Retweeted, Enter
<1>2. RetweetTypeOK /\ Flat /\ p \in Calls /\ p \notin Erasers /\ Plain \notin Posts
      /\ t \in Posts \cup {Plain} /\ naming[p] \in Writers /\ engaged \in Seq(Engagement)
  BY PostsAndErasers DEF RetweetInv, Flat, RetweetTypeOK, Engagement
<1>3. /\ of[p] = Plain /\ p \notin tweets /\ p \notin overlaps
      /\ t # Plain => Original(t) /\ naming[p] = writer[t] /\ t # p
  BY <1>1, <1>2 DEF Flat, PostFits, Original
<1>4. /\ phase'[p] = "posted" /\ of'[p] = t
      /\ \A c \in Calls : c # p => phase'[c] = phase[c]
      /\ \A q \in Posts : q # p => of'[q] = of[q]
  BY <1>1, <1>2 DEF RetweetTypeOK
<1>5. t # Plain => ev \in Engagement
  BY <1>2 DEF Engagement
<1>6. RetweetTypeOK'
  <2>1. phase' \in [Calls -> Phases]
    BY <1>1, <1>2 DEF RetweetTypeOK, Phases
  <2>2. of' \in [Posts -> Posts \cup {Plain}]
    BY <1>1, <1>2 DEF RetweetTypeOK
  <2>3. engaged' \in Seq(Engagement)
    <3> HIDE DEF ev
    <3> QED
      BY <1>1, <1>2, <1>5
  <2> QED
    BY <1>1, <1>2, <2>1, <2>2, <2>3 DEF RetweetTypeOK, Engagement
<1>7. \A x : Original(x) => Original(x)' /\ x # p
  BY <1>1, <1>4, PostsAndErasers DEF Original
<1>8. ASSUME NEW i \in DOMAIN engaged' PROVE EventFits(engaged[i])'
  <2>1. \/ i \in DOMAIN engaged /\ engaged'[i] = engaged[i]
        \/ t # Plain /\ engaged'[i] = ev
    <3> HIDE DEF ev
    <3> QED
      BY <1>1, <1>2
  <2>2. CASE i \in DOMAIN engaged /\ engaged'[i] = engaged[i]
    <3>1. EventFits(engaged[i])
      BY <1>2, <2>2 DEF Flat
    <3> QED
      BY <2>2, <3>1, <1>1, <1>7 DEF EventFits
  <2>3. CASE t # Plain /\ engaged'[i] = ev
    <3>1. engaged'[i].tweet = t /\ engaged'[i].author = naming[p]
      BY <2>3
    <3> HIDE DEF ev
    <3> QED
      BY <1>1, <1>3, <1>7, <2>3, <3>1 DEF EventFits
  <2> QED
    BY <2>1, <2>2, <2>3
<1>9. ASSUME NEW q \in Posts PROVE PostFits(q)'
  <2>1. CASE q = p
    BY <2>1, <1>1, <1>3, <1>4, <1>7 DEF PostFits
  <2>2. CASE q # p
    <3>1. PostFits(q)
      BY <1>2 DEF Flat
    <3> QED
      BY <2>2, <3>1, <1>1, <1>4, <1>7, PostsAndErasers DEF PostFits
  <2> QED
    BY <2>1, <2>2
<1>10. \A d \in Erasers : phase'[d] = "erase" => target[d] \in tweets' \cup overlaps
  BY <1>1, <1>2, <1>4, PostsAndErasers DEF Flat
<1>11. Flat'
  BY <1>1, <1>6, <1>8, <1>9, <1>10 DEF Flat
<1>12. ASSUME NEW x \in Posts PROVE Balance(x)'
  <2> SUFFICES ASSUME \A q \in overlaps : of'[q] # x
               PROVE Engagements("retweeted", x)' - Engagements("unretweeted", x)'
                       = Cardinality(Retweetings(x))'
    BY <1>1 DEF Balance
  <2>1. \A q \in overlaps : of[q] # x
    BY <1>2, <1>3, <1>4 DEF RetweetTypeOK
  <2>2. Engagements("retweeted", x) - Engagements("unretweeted", x) = Cardinality(Retweetings(x))
    BY <2>1 DEF RetweetInv, Balance
  <2>3. /\ Engagements("retweeted", x) \in Nat /\ Engagements("unretweeted", x) \in Nat
        /\ IsFiniteSet(Retweetings(x)) /\ Cardinality(Retweetings(x)) \in Nat
    BY <1>2, CountsNat
  <2>4. CASE x = t
    <3>1. /\ Engagements("retweeted", x)' = Engagements("retweeted", x) + 1
          /\ Engagements("unretweeted", x)' = Engagements("unretweeted", x)
      <4>1. engaged' = engaged \o << ev >> /\ ev \in Engagement
        BY <1>1, <1>2, <1>5, <2>4
      <4>2. ev.kind = "retweeted" /\ ev.tweet = x
        BY <2>4
      <4> HIDE DEF ev
      <4> QED
        BY <4>1, <4>2, <1>2, <2>3, OneMore
    <3>2. Retweetings(x)' = Retweetings(x) \cup {p} /\ p \notin Retweetings(x)
      BY <1>1, <1>2, <1>3, <1>4, <2>4 DEF Retweetings, RetweetTypeOK
    <3>3. Cardinality(Retweetings(x) \cup {p}) = Cardinality(Retweetings(x)) + 1
      BY <2>3, <3>2, FS_AddElement
    <3>4. Cardinality(Retweetings(x))' = Cardinality(Retweetings(x)) + 1
      BY <3>2, <3>3
    <3> QED
      BY <2>2, <2>3, <3>1, <3>4
  <2>5. CASE x # t
    <3>1. /\ Engagements("retweeted", x)' = Engagements("retweeted", x)
          /\ Engagements("unretweeted", x)' = Engagements("unretweeted", x)
      <4>1. CASE t = Plain
        <5>1. engaged' = engaged
          BY <1>1, <1>2, <4>1
        <5> QED
          BY <5>1 DEF Engagements
      <4>2. CASE t # Plain
        <5>1. engaged' = engaged \o << ev >> /\ ev \in Engagement /\ ev.tweet = t
          BY <1>1, <1>5, <4>2
        <5> HIDE DEF ev
        <5> QED
          BY <5>1, <1>2, <2>3, <2>5, OneMore
      <4> QED
        BY <4>1, <4>2
    <3>2. Retweetings(x)' = Retweetings(x)
      BY <1>1, <1>2, <1>3, <1>4, <2>5 DEF Retweetings, RetweetTypeOK
    <3> QED
      BY <2>2, <3>1, <3>2
  <2> QED
    BY <2>4, <2>5
<1> QED
  BY <1>11, <1>12 DEF RetweetInv

\* A second delete of the row adds an event and changes no table: the history has it.
LEMMA EraseKeeps == ASSUME RetweetInv, NEW d \in Erasers, Erase(d) PROVE RetweetInv'
<1> DEFINE q == target[d]   t == of[q]
           ev == [kind |-> "unretweeted", tweet |-> t, retweet |-> q, author |-> writer[q]]
<1>1. /\ phase[d] = "erase" /\ tweets' = tweets \ {q}
      /\ engaged' = engaged \o (IF t = Plain THEN << >> ELSE << ev >>)
      /\ overlaps' = IF ErasersOf(q) # {d} THEN overlaps \cup {q} ELSE overlaps
      /\ phase' = [phase EXCEPT ![d] = "erased"]
      /\ UNCHANGED <<writer, target, naming, of>>
  BY DEF Erase, Unretweeted, Enter
<1>2. RetweetTypeOK /\ Flat /\ d \in Calls /\ d \notin Posts /\ Plain \notin Posts
      /\ engaged \in Seq(Engagement)
  BY PostsAndErasers DEF RetweetInv, Flat, RetweetTypeOK, Engagement
<1>3. /\ q \in tweets \cup overlaps /\ q \in Posts /\ phase[q] = "posted"
      /\ t \in Posts \cup {Plain} /\ writer[q] \in Writers
  BY <1>1, <1>2, PostsAndErasers DEF Flat, PostFits, RetweetTypeOK
<1>4. /\ phase'[d] = "erased"
      /\ \A c \in Calls : c # d => phase'[c] = phase[c]
  BY <1>1, <1>2 DEF RetweetTypeOK
<1>5. t # Plain => ev \in Engagement
  BY <1>2, <1>3 DEF Engagement
<1>6. RetweetTypeOK'
  <2>1. phase' \in [Calls -> Phases] /\ tweets' \subseteq Posts /\ overlaps' \subseteq Posts
    BY <1>1, <1>2, <1>3 DEF RetweetTypeOK, Phases
  <2>2. engaged' \in Seq(Engagement)
    <3> HIDE DEF ev
    <3> QED
      BY <1>1, <1>2, <1>5
  <2> QED
    BY <1>1, <1>2, <2>1, <2>2 DEF RetweetTypeOK, Engagement
<1>7. \A x : Original(x)' <=> Original(x)
  BY <1>1, <1>2, <1>4, PostsAndErasers DEF Original
<1>8. ASSUME NEW i \in DOMAIN engaged' PROVE EventFits(engaged[i])'
  <2>1. \/ i \in DOMAIN engaged /\ engaged'[i] = engaged[i]
        \/ engaged'[i] = ev
    <3> HIDE DEF ev
    <3> QED
      BY <1>1, <1>2
  <2>2. CASE i \in DOMAIN engaged /\ engaged'[i] = engaged[i]
    <3>1. EventFits(engaged[i])
      BY <1>2, <2>2 DEF Flat
    <3> QED
      BY <2>2, <3>1, <1>1, <1>7 DEF EventFits
  <2>3. CASE engaged'[i] = ev
    BY <2>3 DEF EventFits
  <2> QED
    BY <2>1, <2>2, <2>3
<1>9. ASSUME NEW p \in Posts PROVE PostFits(p)'
  <2>1. tweets' \cup overlaps' \subseteq tweets \cup overlaps
    BY <1>1, <1>3
  <2>2. phase'[p] = phase[p]
    BY <1>2, <1>4, PostsAndErasers
  <2>3. PostFits(p)
    BY <1>2 DEF Flat
  <2> QED
    BY <1>1, <1>7, <2>1, <2>2, <2>3 DEF PostFits
<1>10. \A c \in Erasers : phase'[c] = "erase" => target[c] \in tweets' \cup overlaps'
  <2> SUFFICES ASSUME NEW c \in Erasers, phase'[c] = "erase" PROVE target[c] \in tweets' \cup overlaps'
    OBVIOUS
  <2>1. c # d /\ phase[c] = "erase" /\ target[c] \in tweets \cup overlaps
    BY <1>2, <1>4, PostsAndErasers DEF Flat
  <2>2. CASE target[c] = q
    <3>1. c \in ErasersOf(q)
      BY <2>1, <2>2 DEF ErasersOf
    <3> QED
      BY <1>1, <2>1, <2>2, <3>1
  <2>3. CASE target[c] # q
    BY <1>1, <2>1, <2>3
  <2> QED
    BY <2>2, <2>3
<1>11. Flat'
  BY <1>1, <1>6, <1>8, <1>9, <1>10 DEF Flat
<1>12. ASSUME NEW x \in Posts PROVE Balance(x)'
  <2> SUFFICES ASSUME \A p \in overlaps' : of[p] # x
               PROVE Engagements("retweeted", x)' - Engagements("unretweeted", x)'
                       = Cardinality(Retweetings(x))'
    BY <1>1 DEF Balance
  <2>1. \A p \in overlaps : of[p] # x
    BY <1>1
  <2>2. Engagements("retweeted", x) - Engagements("unretweeted", x) = Cardinality(Retweetings(x))
    BY <2>1 DEF RetweetInv, Balance
  <2>3. /\ Engagements("retweeted", x) \in Nat /\ Engagements("unretweeted", x) \in Nat
        /\ IsFiniteSet(Retweetings(x)) /\ Cardinality(Retweetings(x)) \in Nat
    BY <1>2, CountsNat
  <2>4. CASE x = t
    <3>1. /\ Engagements("retweeted", x)' = Engagements("retweeted", x)
          /\ Engagements("unretweeted", x)' = Engagements("unretweeted", x) + 1
      <4>1. engaged' = engaged \o << ev >> /\ ev \in Engagement
        BY <1>1, <1>2, <1>5, <2>4
      <4>2. ev.kind = "unretweeted" /\ ev.tweet = x
        BY <2>4
      <4> HIDE DEF ev
      <4> QED
        BY <4>1, <4>2, <1>2, <2>3, OneMore
    <3>2. q \in tweets
      BY <1>3, <2>1, <2>4
    <3>3. Retweetings(x)' = Retweetings(x) \ {q} /\ q \in Retweetings(x)
      BY <1>1, <2>4, <3>2 DEF Retweetings
    <3>4. Cardinality(Retweetings(x) \ {q}) = Cardinality(Retweetings(x)) - 1
      BY <2>3, <3>3, FS_RemoveElement
    <3>5. Cardinality(Retweetings(x))' = Cardinality(Retweetings(x)) - 1
      BY <3>3, <3>4
    <3> QED
      BY <2>2, <2>3, <3>1, <3>5
  <2>5. CASE x # t
    <3>1. /\ Engagements("retweeted", x)' = Engagements("retweeted", x)
          /\ Engagements("unretweeted", x)' = Engagements("unretweeted", x)
      <4>1. CASE t = Plain
        <5>1. engaged' = engaged
          BY <1>1, <1>2, <4>1
        <5> QED
          BY <5>1 DEF Engagements
      <4>2. CASE t # Plain
        <5>1. engaged' = engaged \o << ev >> /\ ev \in Engagement /\ ev.tweet = t
          BY <1>1, <1>5, <4>2
        <5> HIDE DEF ev
        <5> QED
          BY <5>1, <1>2, <2>3, <2>5, OneMore
      <4> QED
        BY <4>1, <4>2
    <3>2. Retweetings(x)' = Retweetings(x)
      BY <1>1, <2>5 DEF Retweetings
    <3> QED
      BY <2>2, <3>1, <3>2
  <2> QED
    BY <2>4, <2>5
<1> QED
  BY <1>11, <1>12 DEF RetweetInv

LEMMA RetweetStep == RetweetInv /\ [RetweetNext]_retweetVars => RetweetInv'
<1> SUFFICES ASSUME RetweetInv, [RetweetNext]_retweetVars PROVE RetweetInv'
  OBVIOUS
<1>1. CASE UNCHANGED retweetVars
  <2>1. UNCHANGED <<phase, writer, target, naming, tweets, of, engaged, overlaps>>
    BY <1>1 DEF retweetVars, progress
  <2>2. Flat'
    <3>1. RetweetTypeOK'
      BY <2>1 DEF RetweetInv, Flat, RetweetTypeOK
    <3>2. \A p \in Posts : PostFits(p)'
      BY <2>1 DEF RetweetInv, Flat, PostFits, Original
    <3>3. \A i \in DOMAIN engaged' : EventFits(engaged[i])'
      BY <2>1 DEF RetweetInv, Flat, EventFits, Original
    <3> QED
      BY <2>1, <3>1, <3>2, <3>3 DEF RetweetInv, Flat
  <2>3. \A t \in Posts : Balance(t)'
    BY <2>1 DEF RetweetInv, Balance, Retweetings, Engagements
  <2> QED
    BY <2>2, <2>3 DEF RetweetInv
<1>2. ASSUME NEW p \in Posts,
             (\E t \in Posts \cup {Plain} : Ask(p, t)) \/ Find(p) \/ Flatten(p) \/ Post(p)
      PROVE RetweetInv'
  BY <1>2, AskKeeps, FindKeeps, FlattenKeeps, PostKeeps
<1>3. ASSUME NEW d \in Erasers, (\E t \in Posts : FindErased(d, t)) \/ Erase(d) \/ GiveUp(d)
      PROVE RetweetInv'
  BY <1>3, FindErasedKeeps, EraseKeeps, GiveUpKeeps
<1> QED
  BY <1>1, <1>2, <1>3 DEF RetweetNext

\* Whatever retweets what while deletes run, an event names an original and its author.
THEOREM OriginalsNamed == RetweetSpec => []RetweetsNameOriginals
<1>1. RetweetInv => RetweetsNameOriginals
  BY DEF RetweetInv, Flat, EventFits, Original, RetweetsNameOriginals
<1> QED
  BY <1>1, RetweetInitInv, RetweetStep, PTL DEF RetweetSpec

\* For any number of retweets and deletes, the events of a tweet add up to its retweets,
\* unless two deletes of one of them overlapped.
THEOREM EventsAddUp == RetweetSpec => []RetweetsBalance
<1>1. RetweetInv => RetweetsBalance
  BY DEF RetweetInv, Balance, Retweetings, RetweetsBalance
<1> QED
  BY <1>1, RetweetInitInv, RetweetStep, PTL DEF RetweetSpec

-----------------------------------------------------------------------------
(* The home timeline.                                                      *)

Messages == [kind : {"created", "deleted"}, id : Ids]

\* What the steps need to know of the types.
Shape ==
  /\ others \in [Authors -> Nat]
  /\ stage \in [Ids -> {"new", "counted", "live", "deleted"}]
  /\ counted \in [Ids -> Nat]
  /\ log \in Seq(Messages)
  /\ handled \in Nat /\ handled <= Len(log)
  /\ page \in {None} \cup BOOLEAN
  /\ page # None => handled < Len(log)
  /\ evictions \in Nat /\ failures \in Nat

\* An event is about a tweet that was created, a deletion about one that was deleted.
EventsTrue ==
  \A n \in DOMAIN log :
    /\ log[n].id \in Created
    /\ log[n].kind = "deleted" => log[n].id \notin Live

\* Tweets are due to readers of their author, and created.
DueFollowed == \A i \in due : i \in Created /\ Followed(i)

\* Without losses, a live tweet is in its author's list or about to be.
InUTL == failures = 0 => Live \subseteq utl \cup appending

\* Only a removed tweet leaves that list.
DroppingDead == dropping \subseteq Created \ Live

Ordinary(i) == FollowersCount(AuthorOf[i]) < Threshold

\* An author who was a celebrity when a tweet was created is one still.
StaysCelebrity ==
  ~dropped => \A i \in Ids : stage[i] # "new" /\ counted[i] >= Threshold => ~Ordinary(i)

Pushing(i) == page = TRUE /\ Event.kind = "created" /\ Event.id = i

\* An evicted list stays empty until a rebuild that found the tweet has filled it.
Recovers(i) == tl = {} /\ evictions > 0 /\ (rebuilding = None \/ i \in rebuilding)

\* A due tweet of an author below the threshold is in the reader's list, is being pushed,
\* or comes back with the rebuild.
InTL ==
  ~Trouble => \A i \in due \cap Live : Ordinary(i) => i \in tl \/ Pushing(i) \/ Recovers(i)

TimelineInv ==
  /\ Shape /\ EventsTrue /\ DueFollowed
  /\ InUTL /\ DroppingDead /\ StaysCelebrity /\ InTL

LEMMA TimelineInit == Init => TimelineInv
BY AuthorAssumption, BoundAssumption
DEF Init, TimelineInv, Shape, EventsTrue, DueFollowed, InUTL, DroppingDead, StaysCelebrity, InTL, Live

-----------------------------------------------------------------------------
LEMMA CountsAre ==
  ASSUME Shape, NEW a \in Authors
  PROVE  FollowersCount(a) \in Nat
BY DEF Shape, FollowersCount

LEMMA EventIs ==
  ASSUME Shape, handled < Len(log)
  PROVE  /\ Event \in Messages /\ handled + 1 \in DOMAIN log
         /\ DOMAIN log = 1 .. Len(log) /\ Len(log) \in Nat
BY DEF Shape, Event

\* A step that only adds to the log leaves the event at hand.
LEMMA SameEvent ==
  ASSUME Shape, NEW e \in Messages, log' = Append(log, e), handled' = handled
  PROVE  /\ log' \in Seq(Messages) /\ Len(log') = Len(log) + 1 /\ Len(log) \in Nat
         /\ \A n \in DOMAIN log' : (n \in DOMAIN log /\ log'[n] = log[n]) \/ log'[n] = e
         /\ handled < Len(log) => Event' = Event
BY DEF Shape, Event

LEMMA LogMoves ==
  ASSUME Shape, Next
  PROVE  \/ log' = log /\ Created' = Created /\ Live' = Live
         \/ \E e \in Messages :
              /\ log' = Append(log, e) /\ handled' = handled
              /\ Created' = Created \cup {e.id}
              /\ \/ e.kind = "created" /\ Live' = Live \cup {e.id} /\ e.id \notin Created
                 \/ e.kind = "deleted" /\ Live' = Live \ {e.id}
<1>1. CASE \E i \in Ids : CountFollowers(i)
  BY <1>1 DEF CountFollowers, Shape, Created, Live
<1>2. CASE \E i \in Ids : Commit(i)
  <2> PICK i \in Ids : Commit(i)
    BY <1>2
  <2> DEFINE e == [kind |-> "created", id |-> i]
  <2>1. /\ e \in Messages /\ e.id = i /\ e.kind = "created"
        /\ log' = Append(log, e) /\ handled' = handled
        /\ stage[i] = "counted" /\ stage' = [stage EXCEPT ![i] = "live"]
    BY DEF Commit, Messages, worker
  <2>2. /\ Created' = Created \cup {i} /\ Live' = Live \cup {i} /\ i \notin Created
    BY <2>1 DEF Shape, Created, Live
  <2> QED
    BY <2>1, <2>2
<1>3. CASE \E i \in Ids : Delete(i)
  <2> PICK i \in Ids : Delete(i)
    BY <1>3
  <2> DEFINE e == [kind |-> "deleted", id |-> i]
  <2>1. /\ e \in Messages /\ e.id = i /\ e.kind = "deleted"
        /\ log' = Append(log, e) /\ handled' = handled
        /\ stage[i] = "live" /\ stage' = [stage EXCEPT ![i] = "deleted"]
    BY DEF Delete, Messages, worker
  <2>2. /\ Created' = Created \cup {i} /\ Live' = Live \ {i}
    BY <2>1 DEF Shape, Created, Live
  <2> QED
    BY <2>1, <2>2
<1>4. CASE \E i \in Ids : AppendUTL(i) \/ DropUTL(i)
  BY <1>4 DEF AppendUTL, DropUTL, Created, Live
<1>5. CASE \E a \in Authors : Following(a) \/ LoseUTL(a)
  BY <1>5 DEF Following, Follow, Unfollow, OtherFollows, OtherUnfollows, LoseUTL, writes,
              Created, Live
<1>6. CASE Work \/ Read
  BY <1>6 DEF Work, SkipCelebrity, LoadFollowers, Push, SkipRemoval, LoadFormer, Remove,
              Read, Rebuild, FillTimeline, QueryCelebs, FillCelebs, writes,
              Created, Live
<1>7. CASE ClearCelebs \/ CelebsExpire \/ Evict \/ SkipEvent
  BY <1>7 DEF ClearCelebs, CelebsExpire, Evict, SkipEvent, writes, Created, Live
<1> QED
  BY <1>1, <1>2, <1>3, <1>4, <1>5, <1>6, <1>7 DEF Next, Tweeting

LEMMA ShapeStep ==
  ASSUME Shape, Next
  PROVE  Shape'
<1>1. CASE \E i \in Ids : CountFollowers(i)
  <2> PICK i \in Ids : CountFollowers(i)
    BY <1>1
  <2>1. FollowersCount(AuthorOf[i]) \in Nat
    BY CountsAre, AuthorAssumption
  <2>2. counted' \in [Ids -> Nat]
    BY <2>1 DEF CountFollowers, Shape
  <2> QED
    BY <2>2 DEF CountFollowers, Shape, graph, worker
<1>2. CASE \E i \in Ids : Commit(i) \/ Delete(i)
  <2> PICK i \in Ids : Commit(i) \/ Delete(i)
    BY <1>2
  <2>1. PICK e \in Messages : log' = Append(log, e) /\ handled' = handled
    BY DEF Commit, Delete, Messages, worker
  <2>2. log' \in Seq(Messages) /\ Len(log') = Len(log) + 1 /\ Len(log) \in Nat
    BY <2>1, SameEvent
  <2>3. stage' \in [Ids -> {"new", "counted", "live", "deleted"}]
    BY DEF Commit, Delete, Shape
  <2>4. UNCHANGED <<others, counted, handled, page, evictions, failures>>
    BY DEF Commit, Delete, graph, worker
  <2> QED
    BY <2>2, <2>3, <2>4 DEF Shape
<1>3. CASE \E i \in Ids : AppendUTL(i) \/ DropUTL(i)
  BY <1>3 DEF AppendUTL, DropUTL, Shape, graph, worker
<1>4. CASE \E a \in Authors : OtherFollows(a) \/ OtherUnfollows(a)
  <2> PICK a \in Authors : OtherFollows(a) \/ OtherUnfollows(a)
    BY <1>4
  <2>1. PICK n \in Nat : others' = [others EXCEPT ![a] = n]
    <3>1. others[a] \in Nat /\ (others[a] > 0 => others[a] - 1 \in Nat)
      BY DEF Shape
    <3> QED
      BY <3>1 DEF OtherFollows, OtherUnfollows
  <2>2. others' \in [Authors -> Nat]
    BY <2>1 DEF Shape
  <2> QED
    BY <2>2 DEF OtherFollows, OtherUnfollows, Shape, writes, worker
<1>5. CASE \E a \in Authors : Follow(a) \/ Unfollow(a) \/ LoseUTL(a)
  BY <1>5 DEF Follow, Unfollow, LoseUTL, Fail, Shape, graph, writes, worker
<1>6. CASE Work \/ SkipEvent
  <2>1. handled < Len(log) /\ Len(log) \in Nat
    BY <1>6 DEF Work, SkipCelebrity, LoadFollowers, Push, SkipRemoval, LoadFormer, Remove,
       SkipEvent, Waiting, Shape
  <2>2. \/ EndEvent
        \/ handled' = handled /\ page' \in BOOLEAN
    <3>1. CASE LoadFollowers \/ LoadFormer
      <4>1. page' = Followed(Event.id) /\ handled' = handled
        BY <3>1 DEF LoadFollowers, LoadFormer
      <4>2. Followed(Event.id) \in BOOLEAN
        BY DEF Followed
      <4> QED
        BY <4>1, <4>2, Zenon
    <3>2. CASE ~(LoadFollowers \/ LoadFormer)
      BY <1>6, <3>2 DEF Work, SkipCelebrity, Push, SkipRemoval, Remove, SkipEvent
    <3> QED
      BY <3>1, <3>2
  <2>3. /\ handled' \in Nat /\ handled' <= Len(log) /\ page' \in {None} \cup BOOLEAN
        /\ page' # None => handled' < Len(log)
    BY <2>1, <2>2 DEF EndEvent, Shape
  <2>4. /\ UNCHANGED <<others, stage, counted, log, evictions>>
        /\ failures' \in {failures, failures + 1}
    BY <1>6 DEF Work, SkipCelebrity, LoadFollowers, Push, SkipRemoval, LoadFormer, Remove,
       SkipEvent, Fail, graph, writes
  <2> QED
    BY <2>3, <2>4 DEF Shape
<1>7. CASE Read \/ ClearCelebs \/ CelebsExpire \/ Evict
  BY <1>7 DEF Read, Rebuild, FillTimeline, QueryCelebs, FillCelebs, ClearCelebs, CelebsExpire,
              Evict, Shape, graph, writes, worker
<1> QED
  BY <1>1, <1>2, <1>3, <1>4, <1>5, <1>6, <1>7 DEF Next, Tweeting, Following

LEMMA EventsStep ==
  ASSUME Shape, EventsTrue, Next
  PROVE  EventsTrue'
<1>1. CASE log' = log /\ Created' = Created /\ Live' = Live
  BY <1>1 DEF EventsTrue
<1>2. CASE ~(log' = log /\ Created' = Created /\ Live' = Live)
  <2>1. PICK e \in Messages :
              /\ log' = Append(log, e) /\ handled' = handled
              /\ Created' = Created \cup {e.id}
              /\ \/ e.kind = "created" /\ Live' = Live \cup {e.id} /\ e.id \notin Created
                 \/ e.kind = "deleted" /\ Live' = Live \ {e.id}
    BY <1>2, LogMoves
  <2>2. \A n \in DOMAIN log' : (n \in DOMAIN log /\ log'[n] = log[n]) \/ log'[n] = e
    BY <2>1, SameEvent
  <2> QED
    BY <2>1, <2>2 DEF EventsTrue
<1> QED
  BY <1>1, <1>2

LEMMA DueStep ==
  ASSUME Shape, EventsTrue, DueFollowed, Next
  PROVE  DueFollowed'
<1>1. Created \subseteq Created'
  BY LogMoves
<1>2. CASE SkipCelebrity \/ LoadFollowers
  <2>1. Event.id \in Created
    BY <1>2, EventIs DEF SkipCelebrity, LoadFollowers, Waiting, EventsTrue, Event
  <2>2. due' \subseteq due \cup {Event.id} /\ follows' = follows
        /\ (Followed(Event.id) \/ due' = due)
    BY <1>2 DEF SkipCelebrity, LoadFollowers, graph
  <2> QED
    BY <1>1, <2>1, <2>2 DEF DueFollowed, Followed
<1>3. CASE \E a \in Authors : Unfollow(a)
  <2> PICK a \in Authors : Unfollow(a)
    BY <1>3
  <2>1. due' = due \ TweetsOf({a}) /\ follows' = follows \ {a} /\ due \subseteq Ids
    BY DEF Unfollow, DueFollowed, Created
  <2> QED
    BY <1>1, <2>1 DEF DueFollowed, Followed, TweetsOf
<1>4. CASE due' = due /\ follows \subseteq follows'
  BY <1>1, <1>4 DEF DueFollowed, Followed
<1> QED
  BY <1>2, <1>3, <1>4 DEF Next, Tweeting, CountFollowers, Commit, AppendUTL, Delete, DropUTL,
     Following, Follow, OtherFollows, OtherUnfollows, LoseUTL, ClearCelebs,
     Work, Push, SkipRemoval, LoadFormer, Remove, Read, Rebuild, FillTimeline, QueryCelebs,
     FillCelebs, CelebsExpire, Evict, SkipEvent, graph, history

LEMMA UtlStep ==
  ASSUME Shape, InUTL, DroppingDead, Next
  PROVE  InUTL' /\ DroppingDead'
<1>1. CASE \E i \in Ids : Tweeting(i)
  <2> PICK i \in Ids : Tweeting(i)
    BY <1>1
  <2>1. failures' = failures
    BY DEF Tweeting, CountFollowers, Commit, AppendUTL, Delete, DropUTL
  <2>2. CASE CountFollowers(i)
    BY <2>1, <2>2 DEF CountFollowers, InUTL, DroppingDead, Created, Live, Shape
  <2>3. CASE Commit(i)
    <3>1. Live' = Live \cup {i}
      BY <2>3 DEF Commit, Live, Shape
    <3>2. Created' = Created \cup {i} /\ i \notin Created
      BY <2>3 DEF Commit, Created, Shape
    <3> QED
      BY <2>1, <2>3, <3>1, <3>2 DEF Commit, InUTL, DroppingDead
  <2>4. CASE AppendUTL(i)
    BY <2>1, <2>4 DEF AppendUTL, Appendable, InUTL, DroppingDead, Created, Live
  <2>5. CASE Delete(i)
    BY <2>1, <2>5 DEF Delete, InUTL, DroppingDead, Created, Live, Shape
  <2>6. CASE DropUTL(i)
    BY <2>1, <2>6 DEF DropUTL, InUTL, DroppingDead, Created, Live
  <2> QED
    BY <2>2, <2>3, <2>4, <2>5, <2>6 DEF Tweeting
<1>2. CASE UNCHANGED <<stage, appending, dropping, utl>> /\ failures' \in {failures, failures + 1}
  BY <1>2 DEF InUTL, DroppingDead, Created, Live, Shape
<1>3. CASE \E a \in Authors : LoseUTL(a)
  BY <1>3 DEF LoseUTL, Fail, InUTL, DroppingDead, Created, Live, Shape
<1>4. CASE \E a \in Authors : Following(a)
  BY <1>2, <1>4 DEF Following, Follow, Unfollow, OtherFollows, OtherUnfollows, writes
<1>5. CASE Work \/ SkipEvent
  BY <1>2, <1>5 DEF Work, SkipCelebrity, LoadFollowers, Push, SkipRemoval, LoadFormer, Remove,
     SkipEvent, Fail, writes
<1>6. CASE Read \/ ClearCelebs \/ CelebsExpire \/ Evict
  BY <1>2, <1>6 DEF Read, Rebuild, FillTimeline, QueryCelebs, FillCelebs, ClearCelebs,
     CelebsExpire, Evict, writes
<1> QED
  BY <1>1, <1>3, <1>4, <1>5, <1>6 DEF Next

\* Who has fallen below the threshold was seen to.
LEMMA CountsFall ==
  ASSUME Shape, Next, NEW i \in Ids, Ordinary(i)', ~dropped'
  PROVE  Ordinary(i)
<1> DEFINE b == AuthorOf[i]
<1>1. b \in Authors /\ FollowersCount(b) \in Nat
  BY AuthorAssumption, CountsAre
<1>2. CASE UNCHANGED graph
  BY <1>2 DEF graph, Ordinary, FollowersCount
<1>3. CASE \E a \in Authors : Follow(a) \/ OtherFollows(a)
  <2> PICK a \in Authors : Follow(a) \/ OtherFollows(a)
    BY <1>3
  <2>1. /\ follows \subseteq follows'
        /\ others'[b] \in {others[b], others[b] + 1}
    BY <1>1 DEF Follow, OtherFollows, Shape
  <2>2. FollowersCount(b)' >= FollowersCount(b)
    BY <1>1, <2>1 DEF FollowersCount, Shape
  <2>3. FollowersCount(b)' \in Nat
    BY <1>1, <2>1 DEF FollowersCount, Shape
  <2> QED
    BY <1>1, <2>2, <2>3, BoundAssumption DEF Ordinary
<1>4. CASE \E a \in Authors : Unfollow(a) \/ OtherUnfollows(a)
  <2> PICK a \in Authors : Unfollow(a) \/ OtherUnfollows(a)
    BY <1>4
  <2>1. FollowersCount(a) # Threshold
    BY DEF Unfollow, OtherUnfollows, Falls
  <2>2. CASE a # b
    BY <1>1, <2>2 DEF Unfollow, OtherUnfollows, Shape, Ordinary, FollowersCount
  <2>3. CASE a = b
    <3>1. FollowersCount(b)' = FollowersCount(b) - 1
      BY <1>1, <2>3 DEF Unfollow, OtherUnfollows, Shape, FollowersCount
    <3> QED
      BY <1>1, <2>1, <2>3, <3>1, BoundAssumption DEF Ordinary
  <2> QED
    BY <2>2, <2>3
<1>5. CASE \E a \in Authors : LoseUTL(a)
  BY <1>2, <1>5 DEF LoseUTL
<1>6. CASE \E j \in Ids : Tweeting(j)
  BY <1>2, <1>6 DEF Tweeting, CountFollowers, Commit, AppendUTL, Delete, DropUTL
<1>7. CASE Work \/ Read \/ ClearCelebs \/ CelebsExpire \/ Evict \/ SkipEvent
  BY <1>2, <1>7 DEF Work, SkipCelebrity, LoadFollowers, Push, SkipRemoval, LoadFormer, Remove,
     SkipEvent, Read, Rebuild, FillTimeline, QueryCelebs, FillCelebs, ClearCelebs,
     CelebsExpire, Evict
<1> QED
  BY <1>3, <1>4, <1>5, <1>6, <1>7 DEF Next, Following

\* What went wrong stays so.
LEMMA TroubleStays ==
  ASSUME Shape, Next, ~Trouble'
  PROVE  ~Trouble /\ failures' = failures
<1>1. dropped => dropped'
  BY DEF Next, Tweeting, CountFollowers, Commit, AppendUTL, Delete, DropUTL,
     Following, Follow, Unfollow, OtherFollows, OtherUnfollows, LoseUTL, ClearCelebs,
     Work, SkipCelebrity, LoadFollowers, Push, SkipRemoval, LoadFormer, Remove, Read, Rebuild,
     FillTimeline, QueryCelebs, FillCelebs, CelebsExpire, Evict, SkipEvent, history
<1>3. hole => hole'
  <2>1. CASE Push \/ Evict
    BY <2>1 DEF Push, Evict
  <2>2. CASE UNCHANGED hole
    BY <2>2
  <2> QED
    BY <2>1, <2>2 DEF Next, Tweeting, CountFollowers, Commit, AppendUTL, Delete, DropUTL,
     Following, Follow, Unfollow, OtherFollows, OtherUnfollows, LoseUTL, ClearCelebs,
     Work, SkipCelebrity, LoadFollowers, SkipRemoval, LoadFormer, Remove, Read, Rebuild,
     FillTimeline, QueryCelebs, FillCelebs, CelebsExpire, SkipEvent, history
<1>2. failures' \in {failures, failures + 1}
  BY DEF Next, Tweeting, CountFollowers, Commit, AppendUTL, Delete, DropUTL,
     Following, Follow, Unfollow, OtherFollows, OtherUnfollows, LoseUTL, ClearCelebs,
     Work, SkipCelebrity, LoadFollowers, Push, SkipRemoval, LoadFormer, Remove, Read, Rebuild,
     FillTimeline, QueryCelebs, FillCelebs, CelebsExpire, Evict, SkipEvent, history, Fail
<1> QED
  BY <1>1, <1>2, <1>3 DEF Trouble, Shape

LEMMA CelebrityStep ==
  ASSUME Shape, StaysCelebrity, Next
  PROVE  StaysCelebrity'
<1>1. ~dropped' => ~dropped
  BY DEF Next, Tweeting, CountFollowers, Commit, AppendUTL, Delete, DropUTL,
     Following, Follow, Unfollow, OtherFollows, OtherUnfollows, LoseUTL, ClearCelebs,
     Work, SkipCelebrity, LoadFollowers, Push, SkipRemoval, LoadFormer, Remove, Read, Rebuild,
     FillTimeline, QueryCelebs, FillCelebs, CelebsExpire, Evict, SkipEvent, history
<1> SUFFICES ASSUME ~dropped', NEW i \in Ids, stage'[i] # "new", counted'[i] >= Threshold,
                    Ordinary(i)'
             PROVE  FALSE
  BY DEF StaysCelebrity
<1>2. Ordinary(i)
  BY CountsFall
<1>3. CASE \E j \in Ids : CountFollowers(j)
  <2> PICK j \in Ids : CountFollowers(j)
    BY <1>3
  <2>1. CASE j = i
    <3>1. counted'[i] = FollowersCount(AuthorOf[i])
      BY <2>1 DEF CountFollowers, Shape
    <3>2. FollowersCount(AuthorOf[i]) \in Nat
      BY AuthorAssumption, CountsAre
    <3> QED
      BY <1>2, <3>1, <3>2, BoundAssumption DEF Ordinary
  <2>2. CASE j # i
    <3>1. stage'[i] = stage[i] /\ counted'[i] = counted[i]
      BY <2>2 DEF CountFollowers, Shape
    <3> QED
      BY <1>1, <1>2, <3>1 DEF StaysCelebrity
  <2> QED
    BY <2>1, <2>2
<1>4. CASE ~\E j \in Ids : CountFollowers(j)
  <2>1. counted' = counted /\ (stage[i] = "new" => stage'[i] = "new")
    BY <1>4 DEF Next, Tweeting, Commit, AppendUTL, Delete, DropUTL,
       Following, Follow, Unfollow, OtherFollows, OtherUnfollows, LoseUTL, ClearCelebs,
       Work, SkipCelebrity, LoadFollowers, Push, SkipRemoval, LoadFormer, Remove, Read, Rebuild,
       FillTimeline, QueryCelebs, FillCelebs, CelebsExpire, Evict, SkipEvent, writes, Shape
  <2> QED
    BY <1>1, <1>2, <2>1 DEF StaysCelebrity
<1> QED
  BY <1>3, <1>4

-----------------------------------------------------------------------------
Held(i) == i \in tl \/ Pushing(i) \/ Recovers(i)

LEMMA PushHolds ==
  ASSUME Shape, NEW i \in Ids, Held(i), Push, ~hole'
  PROVE  Held(i)'
<1>1. /\ page # None /\ tl' = IF page THEN tl \cup {Event.id} ELSE tl
      /\ hole' = (hole \/ (page /\ tl = {} /\ evictions > 0))
      /\ UNCHANGED <<rebuilding, evictions>>
  BY DEF Push, reads
<1>2. page = TRUE \/ page = FALSE
  BY <1>1 DEF Shape
<1>3. CASE page = FALSE
  BY <1>1, <1>3 DEF Held, Pushing, Recovers
<1>4. CASE page = TRUE
  BY <1>1, <1>4 DEF Held, Pushing, Recovers
<1> QED
  BY <1>2, <1>3, <1>4

LEMMA RemoveHolds ==
  ASSUME Shape, EventsTrue, NEW i \in Live, Held(i), Remove
  PROVE  Held(i)'
<1>1. /\ page # None /\ Event.kind = "deleted"
      /\ tl' = tl \/ tl' = tl \ {Event.id}
      /\ UNCHANGED <<rebuilding, evictions>>
  BY DEF Remove, reads
<1>2. Event.id \notin Live
  BY <1>1, EventIs DEF EventsTrue, Event, Shape
<1> QED
  BY <1>1, <1>2 DEF Held, Pushing, Recovers

LEMMA EvictHolds ==
  ASSUME Shape, NEW i \in Ids, Held(i), Evict, ~hole'
  PROVE  Held(i)'
<1>1. /\ tl # {} /\ tl' = {} /\ evictions' = evictions + 1
      /\ UNCHANGED <<rebuilding, page, handled, log>>
      /\ hole' = (hole \/ rebuilding # None)
  BY DEF Evict, reads, worker, writes
<1>2. rebuilding = None
  BY <1>1
<1>3. CASE Pushing(i)
  BY <1>1, <1>3 DEF Held, Pushing, Event
<1>4. CASE ~Pushing(i)
  BY <1>1, <1>2, <1>4 DEF Held, Recovers, Shape
<1> QED
  BY <1>3, <1>4

\* The rebuild finds what is live, followed and below the threshold.
LEMMA RebuildHolds ==
  ASSUME NEW i \in Live, Followed(i), Ordinary(i), Held(i), Rebuild
  PROVE  Held(i)'
<1>1. i \in Rebuilt
  BY DEF Rebuilt, Followed, Ordinary, TweetsOf, Live
<1> QED
  BY <1>1 DEF Held, Pushing, Recovers, Rebuild, worker, writes, Event

LEMMA FillHolds ==
  ASSUME NEW i \in Ids, Held(i), FillTimeline
  PROVE  Held(i)'
BY DEF Held, Pushing, Recovers, FillTimeline, worker, writes, Event

\* Steps with nothing in hand: the worker begins or passes over an event.
LEMMA WaitHolds ==
  ASSUME NEW i \in Ids, Held(i), page = None, UNCHANGED <<tl, rebuilding, evictions>>
  PROVE  Held(i)'
BY NoneAssumption DEF Held, Pushing, Recovers

LEMMA FrameHolds ==
  ASSUME Shape, Next, NEW i \in Ids, Held(i), UNCHANGED <<tl, page, handled, rebuilding, evictions>>
  PROVE  Held(i)'
<1>1. page = TRUE => Event' = Event
  <2>1. page = TRUE => handled < Len(log)
    BY NoneAssumption DEF Shape
  <2>2. log' = log \/ \E e \in Messages : log' = Append(log, e) /\ handled' = handled
    BY LogMoves
  <2> QED
    BY <2>1, <2>2, SameEvent DEF Event
<1> QED
  BY <1>1 DEF Held, Pushing, Recovers

\* A tweet becomes due when the worker takes its event: the count in the event is below
\* the threshold, as the author is, and the worker pushes it next.
LEMMA NewlyDue ==
  ASSUME TimelineInv, Next, NEW i \in due', i \notin due, ~dropped, Ordinary(i)
  PROVE  Pushing(i)'
<1>1. /\ SkipCelebrity \/ LoadFollowers
      /\ Event.id = i /\ Followed(i)
  BY DEF Next, Tweeting, CountFollowers, Commit, AppendUTL, Delete, DropUTL,
     Following, Follow, Unfollow, OtherFollows, OtherUnfollows, LoseUTL, ClearCelebs,
     Work, SkipCelebrity, LoadFollowers, Push, SkipRemoval, LoadFormer, Remove, Read, Rebuild,
     FillTimeline, QueryCelebs, FillCelebs, CelebsExpire, Evict, SkipEvent, history
<1>2. handled < Len(log) /\ Event.kind = "created"
  BY <1>1 DEF SkipCelebrity, LoadFollowers, Waiting
<1>3. i \in Ids /\ stage[i] # "new"
  BY <1>1, <1>2, EventIs DEF TimelineInv, EventsTrue, Event, Created
<1>4. ~(counted[i] >= Threshold)
  BY <1>3 DEF TimelineInv, StaysCelebrity
<1>5. LoadFollowers
  BY <1>1, <1>4 DEF SkipCelebrity
<1>6. page' = Followed(i) /\ Event' = Event
  BY <1>1, <1>5 DEF LoadFollowers, writes, Event
<1>7. page' = TRUE
  <2>1. Followed(i) = TRUE
    BY <1>1, Zenon
  <2> QED BY <1>6, <2>1, Zenon
<1> QED
  BY <1>1, <1>2, <1>6, <1>7 DEF Pushing

LEMMA TimelineStep ==
  ASSUME TimelineInv, Next
  PROVE  TimelineInv'
<1>1. Shape' /\ EventsTrue' /\ DueFollowed' /\ InUTL' /\ DroppingDead' /\ StaysCelebrity'
  BY ShapeStep, EventsStep, DueStep, UtlStep, CelebrityStep DEF TimelineInv
<1>2. ASSUME ~Trouble', NEW i \in due', i \in Live', Ordinary(i)'
      PROVE  Held(i)'
  <2>1. ~Trouble /\ failures' = failures
    BY <1>2, TroubleStays DEF TimelineInv
  <2>2. i \in Ids /\ Ordinary(i) /\ ~hole' /\ ~dropped
    BY <1>2, <2>1, CountsFall DEF Live, Trouble, TimelineInv
  <2>3. CASE i \notin due
    BY <1>2, <2>2, <2>3, NewlyDue DEF Held
  <2>4. CASE i \in due
    <3>1. i \in Created /\ Followed(i)
      BY <2>4 DEF TimelineInv, DueFollowed
    <3>2. i \in Live
      BY <1>2, <3>1, LogMoves DEF TimelineInv
    <3>3. Held(i)
      BY <2>1, <2>2, <2>4, <3>2 DEF TimelineInv, InTL, Held
    <3>4. CASE Push \/ Remove \/ Evict \/ Rebuild \/ FillTimeline
      BY <2>2, <3>1, <3>2, <3>3, <3>4, PushHolds, RemoveHolds, EvictHolds, RebuildHolds,
         FillHolds DEF TimelineInv
    <3>5. CASE SkipCelebrity \/ LoadFollowers \/ SkipRemoval \/ LoadFormer
      <4>1. page = None /\ UNCHANGED <<tl, rebuilding, evictions>>
        BY <3>5
        DEF SkipCelebrity, LoadFollowers, SkipRemoval, LoadFormer, Waiting, reads
      <4> QED
        BY <2>2, <3>3, <4>1, WaitHolds
    <3>6. CASE SkipEvent \/ \E a \in Authors : LoseUTL(a)
      <4>1. failures' = failures + 1
        BY <3>6 DEF SkipEvent, LoseUTL, Fail
      <4>2. failures \in Nat
        BY DEF TimelineInv, Shape
      <4> QED
        BY <2>1, <4>1, <4>2
    <3>7. CASE \/ \E j \in Ids : Tweeting(j)
               \/ \E a \in Authors : Following(a)
               \/ QueryCelebs \/ FillCelebs \/ ClearCelebs \/ CelebsExpire
      <4>1. UNCHANGED <<tl, page, handled, rebuilding, evictions>>
        BY <3>7 DEF Tweeting, CountFollowers, Commit, AppendUTL, Delete, DropUTL,
           Following, Follow, Unfollow, OtherFollows, OtherUnfollows, ClearCelebs,
           QueryCelebs, FillCelebs, CelebsExpire, reads, worker
      <4> QED
        BY <2>2, <3>3, <4>1, FrameHolds DEF TimelineInv
    <3> QED
      BY <3>4, <3>5, <3>6, <3>7 DEF Next, Work, Read
  <2> QED
    BY <2>3, <2>4
<1>3. InTL'
  BY <1>2 DEF InTL, Held
<1> QED
  BY <1>1, <1>3 DEF TimelineInv

LEMMA TimelineStutter ==
  ASSUME TimelineInv, UNCHANGED vars
  PROVE  TimelineInv'
<1>1. /\ Shape' /\ EventsTrue' /\ DueFollowed'
  BY DEF TimelineInv, Shape, EventsTrue, DueFollowed, Created, Live, Followed,
         vars, graph, writes, worker, history
<1>2. InUTL' /\ DroppingDead' /\ StaysCelebrity'
  BY DEF TimelineInv, InUTL, DroppingDead, StaysCelebrity, Created, Live, Ordinary,
         FollowersCount, vars, graph, writes, worker, history
<1>3. InTL'
  BY DEF TimelineInv, InTL, Trouble, Live, Ordinary, FollowersCount, Pushing, Recovers, Event,
         vars, graph, writes, worker, reads, history
<1> QED
  BY <1>1, <1>2, <1>3 DEF TimelineInv

\* For any authors, tweets, threshold and number of followers: a tweet sent to a reader
\* is shown once the worker is done, by its author's list if he is a celebrity by now,
\* by the reader's list or its rebuild if not.
THEOREM NothingMissed == Spec => []Complete
<1>1. ASSUME TimelineInv PROVE Complete
  <2> SUFFICES ASSUME Settled, ~Trouble, NEW i \in due, i \in Live PROVE i \in Shown
    BY DEF Complete, Expected
  <2>1. i \in Ids /\ AuthorOf[i] \in follows /\ FollowersCount(AuthorOf[i]) \in Nat
    BY <1>1, AuthorAssumption, CountsAre DEF Live, TimelineInv, DueFollowed, Followed
  <2>2. CASE Ordinary(i)
    <3>1. i \in tl \/ tl = {}
      <4>1. ~Pushing(i)
        <5>1. page = TRUE => page # None
          BY NoneAssumption
        <5>2. handled = Len(log) /\ handled \in Nat /\ (page # None => handled < Len(log))
          BY <1>1 DEF Settled, TimelineInv, Shape
        <5> QED
          BY <5>1, <5>2 DEF Pushing
      <4> QED
        BY <1>1, <2>2, <4>1 DEF TimelineInv, InTL, Recovers
    <3>2. i \in Rebuilt
      BY <2>1, <2>2 DEF Rebuilt, TweetsOf, Ordinary
    <3> QED
      BY <3>1, <3>2 DEF Shown
  <2>3. CASE ~Ordinary(i)
    <3>1. i \in utl
      BY <1>1 DEF Settled, Trouble, TimelineInv, InUTL, Shape
    <3>2. AuthorOf[i] \in MergedAuthors
      BY <2>1, <2>3, BoundAssumption DEF Ordinary, MergedAuthors, Celebrities
    <3>3. i \in TweetsOf(IF celebs = None THEN MergedAuthors ELSE celebs)
      BY <2>1, <3>2 DEF TweetsOf, Settled
    <3> QED
      BY <3>1, <3>3 DEF Shown
  <2> QED
    BY <2>2, <2>3
<1> QED
  BY <1>1, TimelineInit, TimelineStep, TimelineStutter, PTL DEF Spec

-----------------------------------------------------------------------------
(* Pages and their cursors.                                                *)

LEMMA RowsFinite ==
  ASSUME NEW S \in SUBSET Rows
  PROVE  /\ IsFiniteSet(S) /\ S \subseteq Nat
         /\ Cardinality(S) \in Nat
<1>1. IsFiniteSet(Rows) /\ Rows \subseteq Nat
  BY PagingAssumption, FS_Interval DEF Rows
<1> QED
  BY <1>1, FS_Subset, FS_CardinalityType

LEMMA HasLeast ==
  ASSUME NEW S \in SUBSET Nat, S # {}
  PROVE  Min(S) \in S /\ \A i \in S : Min(S) <= i
<1> DEFINE R == OpToRel(<, Nat)
<1>1. \A x, y \in Nat : <<x, y>> \in R <=> x < y
  BY DEF OpToRel
<1>2. IsWellFoundedOn(R, Nat)
  BY NatLessThanWellFounded
<1> HIDE DEF R
<1>3. \E x \in S : \A y \in S : ~(<<y, x>> \in R)
  BY <1>2, WFMin
<1>4. \E x \in S : \A y \in S : x <= y
  <2> PICK x \in S : \A y \in S : ~(<<y, x>> \in R)
    BY <1>3
  <2>1. ASSUME NEW y \in S PROVE x <= y
    <3>1. x \in Nat /\ y \in Nat
      OBVIOUS
    <3>2. ~(y < x)
      BY <1>1, <3>1
    <3> QED
      BY <3>1, <3>2
  <2> QED
    BY <2>1
<1> QED
  BY <1>4 DEF Min

LEMMA HasGreatest ==
  ASSUME NEW S \in SUBSET Rows, S # {}
  PROVE  Max(S) \in S /\ \A i \in S : i <= Max(S)
<1> DEFINE T == { MaxRow - i : i \in S }
<1>1. \A i \in S : i \in Nat /\ MaxRow - i \in Nat
  BY PagingAssumption DEF Rows
<1>2. T \in SUBSET Nat /\ T # {}
  BY <1>1
<1>3. Min(T) \in T /\ \A k \in T : Min(T) <= k
  BY <1>2, HasLeast
<1>4. PICK x \in S : Min(T) = MaxRow - x
  BY <1>3
<1>5. \A i \in S : x >= i
  <2> TAKE i \in S
  <2>1. MaxRow - x <= MaxRow - i
    BY <1>3, <1>4
  <2> QED
    BY <1>1, <2>1, PagingAssumption
<1> QED
  BY <1>1, <1>5 DEF Max

\* The newest rows of a set are there if any are asked for, and none of the others is
\* newer than the last of them.
LEMMA NewestRows ==
  ASSUME NEW S \in SUBSET Rows, NEW n \in Nat \ {0}, S # {}
  PROVE  /\ Newest(S, n) \subseteq S /\ Newest(S, n) # {}
         /\ LastOf(S, n) \in Newest(S, n)
         /\ \A i \in S : i >= LastOf(S, n) <=> i \in Newest(S, n)
<1> DEFINE Above(i) == { j \in S : j > i }
<1>1. Newest(S, n) = { i \in S : Cardinality(Above(i)) < n } /\ Newest(S, n) \subseteq S
  BY DEF Newest
<1>2. S \subseteq Nat
  BY RowsFinite
<1>3. \A i \in S : IsFiniteSet(Above(i)) /\ Cardinality(Above(i)) \in Nat
  BY RowsFinite
<1>4. Newest(S, n) # {}
  <2> DEFINE m == Max(S)
  <2>1. m \in S /\ \A i \in S : i <= m
    BY HasGreatest
  <2>2. Above(m) = {}
    <3> SUFFICES ASSUME NEW j \in S, j > m PROVE FALSE
      OBVIOUS
    <3>1. j \in Nat /\ m \in Nat /\ j <= m
      BY <1>2, <2>1
    <3> QED
      BY <3>1
  <2>3. Cardinality(Above(m)) = 0
    BY <2>2, FS_EmptySet
  <2> QED
    BY <1>1, <2>1, <2>3
<1>5. /\ LastOf(S, n) \in Newest(S, n)
      /\ \A i \in Newest(S, n) : LastOf(S, n) <= i
  BY <1>1, <1>2, <1>4, HasLeast DEF LastOf
<1>6. ASSUME NEW i \in S, i >= LastOf(S, n) PROVE i \in Newest(S, n)
  <2>1. LastOf(S, n) \in S
    BY <1>1, <1>5
  <2>2. Above(i) \subseteq Above(LastOf(S, n))
    <3> DEFINE l == LastOf(S, n)
    <3>1. i \in Nat /\ l \in Nat /\ i >= l
      BY <1>2, <1>6, <2>1
    <3> HIDE DEF l
    <3> SUFFICES ASSUME NEW j \in S, j > i PROVE j > l
      BY DEF l
    <3>2. j \in Nat
      BY <1>2
    <3> QED
      BY <3>1, <3>2
  <2>3. Cardinality(Above(i)) <= Cardinality(Above(LastOf(S, n)))
    BY <1>3, <2>1, <2>2, FS_Subset
  <2>4. Cardinality(Above(LastOf(S, n))) < n
    BY <1>1, <1>5
  <2>5. Cardinality(Above(i)) < n
    BY <1>3, <1>6, <2>1, <2>3, <2>4
  <2> QED
    BY <1>1, <2>5
<1> QED
  BY <1>1, <1>2, <1>4, <1>5, <1>6

-----------------------------------------------------------------------------
Ahead(i) == cursor = 0 \/ i < cursor

\* Between two requests: the client has the rows down to its cursor.
Walked ==
  /\ twice = {}
  /\ over => stayed \subseteq answered
  /\ ~over /\ cursor = 0 => answered = {}
  /\ cursor # 0 => /\ \A i \in answered : i >= cursor
                   /\ \A i \in stayed : i >= cursor => i \in answered

\* During one: what the page found lies above what it still looks at, all of it ahead of
\* the cursor, and nothing that stayed is missing down to the next cursor.
PageBuilt ==
  limit > 0 =>
    /\ ~over
    /\ \A i \in rest \cup found : Ahead(i) /\ i >= nextPage
    /\ \A i \in rest : \A j \in found : i < j
    /\ \A i \in stayed : Ahead(i) /\ i >= nextPage => i \in rest \cup found
    /\ nextPage # 0 => Ahead(nextPage)
    /\ kind = "home" /\ rest # {} => nextPage = 0

PagingInv == PagingTypeOK /\ Walked /\ PageBuilt

LEMMA CursorRange ==
  /\ 0 \in 0 .. MaxRow /\ 0 \in 0 .. MaxLimit
  /\ \A i \in Rows : i \in Nat /\ i \in 0 .. MaxRow /\ i > 0
BY PagingAssumption DEF Rows

LEMMA PagingInitInv == PagingInit => PagingInv
<1> SUFFICES ASSUME PagingInit PROVE PagingInv
  OBVIOUS
<1>1. PagingTypeOK
  BY CursorRange DEF PagingInit, PagingTypeOK
<1>2. Walked /\ PageBuilt
  BY DEF PagingInit, Walked, PageBuilt
<1> QED
  BY <1>1, <1>2 DEF PagingInv

LEMMA QueryKeeps ==
  ASSUME PagingInv, NEW n \in 1 .. MaxLimit, Query(n)
  PROVE  PagingInv'
<1> DEFINE ids == Below(cursor)
           cut == kind # "home" /\ Cardinality(ids) > n
<1>1. /\ ~over /\ limit' = n /\ found' = {}
      /\ rest' = IF cut THEN Newest(ids, n) ELSE ids
      /\ nextPage' = IF cut THEN LastOf(ids, n) ELSE 0
      /\ UNCHANGED <<kind, listed, live, stayed, cursor, answered, twice, over>>
  BY DEF Query, client
<1>2. ids \in SUBSET Rows /\ ids \subseteq Nat /\ n \in Nat \ {0} /\ n \in 0 .. MaxLimit
  BY RowsFinite, PagingAssumption DEF PagingInv, PagingTypeOK, Below
<1>3. \A i \in ids : Ahead(i) /\ i > 0
  BY PagingAssumption DEF Below, Ahead, PagingInv, PagingTypeOK, Rows
<1>4. \A i \in stayed : Ahead(i) => i \in ids
  BY DEF Below, Ahead, PagingInv, PagingTypeOK
<1>5. Walked'
  BY <1>1 DEF PagingInv, Walked
<1> HIDE DEF ids
<1>6. CASE ~cut
  <2>1. rest' = ids /\ nextPage' = 0
    BY <1>1, <1>6
  <2>2. PageBuilt'
    BY <1>1, <1>2, <1>3, <1>4, <2>1 DEF PageBuilt, Ahead
  <2>3. PagingTypeOK'
    BY <1>1, <1>2, <2>1, CursorRange DEF PagingInv, PagingTypeOK
  <2> QED
    BY <1>5, <2>2, <2>3 DEF PagingInv
<1>7. CASE cut
  <2>1. ids # {}
    BY <1>2, <1>7, FS_EmptySet
  <2>2. /\ Newest(ids, n) \subseteq ids
        /\ LastOf(ids, n) \in Newest(ids, n)
        /\ \A i \in ids : i >= LastOf(ids, n) <=> i \in Newest(ids, n)
    BY <1>2, <2>1, NewestRows
  <2>3. rest' = Newest(ids, n) /\ nextPage' = LastOf(ids, n)
    BY <1>1, <1>7
  <2>4. PageBuilt'
    BY <1>1, <1>2, <1>3, <1>4, <1>7, <2>2, <2>3 DEF PageBuilt, Ahead
  <2>5. nextPage' \in 0 .. MaxRow /\ rest' \subseteq Rows
    BY <1>2, <2>2, <2>3, CursorRange
  <2>6. PagingTypeOK'
    BY <1>1, <1>2, <2>5 DEF PagingInv, PagingTypeOK
  <2> QED
    BY <1>5, <2>4, <2>6 DEF PagingInv
<1> QED
  BY <1>6, <1>7

LEMMA LookKeeps ==
  ASSUME PagingInv, Look
  PROVE  PagingInv'
<1> DEFINE m == Max(rest)
<1>1. /\ limit > 0 /\ rest # {}
      /\ rest' = rest \ {m}
      /\ found' = IF Found(m) THEN found \cup {m} ELSE found
      /\ UNCHANGED <<kind, listed, live, stayed, limit, nextPage, cursor, answered, twice, over>>
  BY DEF Look, client
<1>2. /\ rest \subseteq Rows /\ found \subseteq Rows /\ Rows \subseteq Nat
      /\ stayed \subseteq live /\ stayed \subseteq Rows
  BY RowsFinite DEF PagingInv, PagingTypeOK
<1>3. m \in rest /\ \A i \in rest : i <= m
  BY <1>1, <1>2, HasGreatest
<1>4. m \in stayed => Found(m)
  BY <1>2 DEF Found
<1> HIDE DEF m
<1>5. found \subseteq found' /\ found' \subseteq found \cup {m} /\ (m \in stayed => m \in found')
  BY <1>1, <1>4
<1>6. \A i \in rest' : i \in rest /\ i < m
  <2> TAKE i \in rest'
  <2>1. i \in rest /\ i # m /\ i <= m /\ i \in Nat /\ m \in Nat
    BY <1>1, <1>2, <1>3
  <2> QED
    BY <2>1
<1>7. PageBuilt'
  BY <1>1, <1>3, <1>5, <1>6 DEF PagingInv, PageBuilt, Ahead
<1>8. PagingTypeOK' /\ Walked'
  BY <1>1, <1>2, <1>3, <1>5 DEF PagingInv, PagingTypeOK, Walked
<1> QED
  BY <1>7, <1>8 DEF PagingInv

LEMMA CutKeeps ==
  ASSUME PagingInv, Cut
  PROVE  PagingInv'
<1>1. /\ limit > 0 /\ rest # {} /\ kind = "home" /\ Cardinality(found) = limit
      /\ nextPage' = Min(found) /\ rest' = {}
      /\ UNCHANGED <<kind, listed, live, stayed, limit, found, cursor, answered, twice, over>>
  BY DEF Cut, Full, client
<1>2. found \in SUBSET Rows /\ found \in SUBSET Nat /\ limit \in Nat
  BY RowsFinite, PagingAssumption DEF PagingInv, PagingTypeOK
<1>3. found # {}
  BY <1>1, <1>2, FS_EmptySet
<1>4. Min(found) \in found /\ \A i \in found : Min(found) <= i
  BY <1>2, <1>3, HasLeast
<1>5. nextPage' \in 0 .. MaxRow /\ nextPage' # 0
  <2>1. Min(found) \in Rows
    BY <1>2, <1>4
  <2> QED
    BY <1>1, <2>1, CursorRange
<1>6. /\ nextPage = 0 /\ ~over
      /\ \A i \in found : Ahead(i)
      /\ \A i \in rest : i < Min(found)
      /\ \A i \in stayed : Ahead(i) => i \in rest \cup found
  <2>1. PageBuilt /\ limit > 0 /\ stayed \subseteq Rows
    BY <1>1 DEF PagingInv, PagingTypeOK
  <2>2. nextPage = 0
    BY <1>1, <2>1 DEF PageBuilt
  <2>3. \A i \in stayed : i >= 0
    BY <2>1, CursorRange
  <2> QED
    BY <1>1, <1>4, <2>1, <2>2, <2>3 DEF PageBuilt
<1>7. rest \subseteq Nat
  BY RowsFinite DEF PagingInv, PagingTypeOK
<1>8. \A i \in stayed : Ahead(i) /\ i >= Min(found) => i \in found
  <2> SUFFICES ASSUME NEW i \in stayed, Ahead(i), i >= Min(found), i \in rest PROVE FALSE
    BY <1>6
  <2>1. i < Min(found) /\ i \in Nat /\ Min(found) \in Nat
    BY <1>2, <1>4, <1>6, <1>7
  <2> QED
    BY <2>1
<1>9. PageBuilt'
  BY <1>1, <1>2, <1>4, <1>6, <1>8 DEF PageBuilt, Ahead
<1>10. PagingTypeOK' /\ Walked'
  BY <1>1, <1>5 DEF PagingInv, PagingTypeOK, Walked
<1> QED
  BY <1>9, <1>10 DEF PagingInv

LEMMA AnswerKeeps ==
  ASSUME PagingInv, Answer
  PROVE  PagingInv'
<1>1. /\ limit > 0 /\ rest = {}
      /\ answered' = answered \cup found /\ twice' = twice \cup (answered \cap found)
      /\ cursor' = nextPage /\ over' = (nextPage = 0)
      /\ limit' = 0 /\ found' = {} /\ nextPage' = 0
      /\ UNCHANGED <<kind, listed, live, stayed, rest>>
  BY DEF Answer
<1>2. /\ \A i \in found : Ahead(i) /\ i >= nextPage
      /\ \A i \in stayed : Ahead(i) /\ i >= nextPage => i \in found
      /\ nextPage # 0 => Ahead(nextPage)
      /\ ~over
  BY <1>1 DEF PagingInv, PageBuilt
<1>3. /\ cursor \in Nat /\ nextPage \in Nat /\ answered \subseteq Rows /\ found \subseteq Rows
      /\ stayed \subseteq Rows /\ Rows \subseteq Nat /\ twice = {}
  BY PagingAssumption, RowsFinite DEF PagingInv, PagingTypeOK, Walked
<1>4. /\ cursor = 0 => answered = {}
      /\ cursor # 0 => /\ \A i \in answered : i >= cursor
                       /\ \A i \in stayed : i >= cursor => i \in answered
  BY <1>2 DEF PagingInv, Walked
<1>5. answered \cap found = {}
  <2> SUFFICES ASSUME NEW i \in answered, i \in found PROVE FALSE
    OBVIOUS
  <2>1. cursor # 0 /\ i >= cursor /\ i < cursor /\ i \in Nat
    BY <1>2, <1>3, <1>4 DEF Ahead
  <2> QED
    BY <1>3, <2>1
<1>6. \A i \in answered' : i >= nextPage
  <2> SUFFICES ASSUME NEW i \in answered, nextPage # 0 PROVE i >= nextPage
    BY <1>1, <1>2, <1>3
  <2>1. cursor # 0 /\ i >= cursor /\ nextPage < cursor /\ i \in Nat
    BY <1>2, <1>3, <1>4 DEF Ahead
  <2> QED
    BY <1>3, <2>1
<1>7. \A i \in stayed : i >= nextPage => i \in answered'
  <2> SUFFICES ASSUME NEW i \in stayed, i >= nextPage, ~Ahead(i) PROVE i \in answered
    BY <1>1, <1>2
  <2>1. cursor # 0 /\ i >= cursor
    BY <1>3 DEF Ahead
  <2> QED
    BY <1>4, <2>1
<1>8. Walked'
  <2>1. twice' = {}
    BY <1>1, <1>3, <1>5
  <2>2. CASE nextPage = 0
    <3>1. over' /\ cursor' = 0
      BY <1>1, <2>2
    <3>2. stayed \subseteq answered'
      BY <1>3, <1>7, <2>2
    <3> QED
      BY <1>1, <2>1, <3>1, <3>2 DEF Walked
  <2>3. CASE nextPage # 0
    <3>1. ~over' /\ cursor' = nextPage
      BY <1>1, <2>3
    <3> QED
      BY <1>1, <1>6, <1>7, <2>1, <2>3, <3>1 DEF Walked
  <2> QED
    BY <2>2, <2>3
<1>9. over' \in BOOLEAN
  <2>1. (nextPage = 0) \in BOOLEAN
    BY Zenon
  <2> QED
    BY <1>1, <2>1, Zenon
<1>10. PagingTypeOK'
  BY <1>1, <1>3, <1>5, <1>9, PagingAssumption DEF PagingInv, PagingTypeOK
<1>11. PageBuilt'
  BY <1>1 DEF PageBuilt
<1> QED
  BY <1>8, <1>10, <1>11 DEF PagingInv

LEMMA RowsMove ==
  ASSUME PagingInv, NEW i \in Rows, Insert(i) \/ Vanish(i) \/ Unlist(i)
  PROVE  PagingInv'
<1>1. /\ stayed' \subseteq stayed /\ stayed' \subseteq listed' \cap live'
      /\ listed' \subseteq Rows /\ live' \subseteq Rows
      /\ UNCHANGED <<kind, limit, rest, found, nextPage, cursor, answered, twice, over>>
  BY DEF Insert, Vanish, Unlist, request, client, PagingInv, PagingTypeOK
<1>2. PagingTypeOK'
  BY <1>1 DEF PagingInv, PagingTypeOK
<1>3. Walked' /\ PageBuilt'
  BY <1>1 DEF PagingInv, Walked, PageBuilt, Ahead
<1> QED
  BY <1>2, <1>3 DEF PagingInv

LEMMA PagingStep == PagingInv /\ [PagingNext]_pagingVars => PagingInv'
<1> SUFFICES ASSUME PagingInv, [PagingNext]_pagingVars PROVE PagingInv'
  OBVIOUS
<1>1. CASE UNCHANGED pagingVars
  BY <1>1 DEF pagingVars, request, client, PagingInv, PagingTypeOK, Walked, PageBuilt, Ahead
<1> QED
  BY <1>1, QueryKeeps, LookKeeps, CutKeeps, AnswerKeeps, RowsMove DEF PagingNext

\* For lists and pages of any length, and whatever comes and goes meanwhile: a client that
\* follows the cursors misses no row that stayed and sees none twice.
THEOREM WalksComplete == PagingSpec => []PagesComplete
<1>1. PagingInv => PagesComplete
  BY DEF PagingInv, Walked, PagesComplete
<1> QED
  BY <1>1, PagingInitInv, PagingStep, PTL DEF PagingSpec
=============================================================================
