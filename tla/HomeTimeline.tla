---------------------------- MODULE HomeTimeline ----------------------------
(***************************************************************************)
(* The home timeline of one reader: tweets of followed authors reach it    *)
(* either through the fan-out worker, which pushes them to the Redis list  *)
(* tl:{reader} (internal/fanout), or, for authors with Threshold followers *)
(* or more, through the author's own list utl:{author}, which the reader   *)
(* merges (internal/timeline).  The list is rebuilt from Postgres when it  *)
(* is absent.                                                              *)
(*                                                                         *)
(* Which way a tweet goes is decided from counts read at four moments: by  *)
(* the author's request, the worker, the rebuild and the reader's cache of *)
(* celebrities.  Reads merge, sort and drop duplicates, so lists are sets  *)
(* here; none reaches its cap.  The worker drops redelivered events.       *)
(*                                                                         *)
(* Bounds: MaxOthers, MaxChanges (follows, unfollows and deletes) and      *)
(* MaxFailures (evictions, lost events, lost author lists).                *)
(***************************************************************************)
EXTENDS Naturals, Sequences, FiniteSets

CONSTANTS
  Authors,
  Ids,          \* tweets
  AuthorOf,     \* the author of each tweet
  Threshold,    \* followers that make a celebrity
  MaxOthers,    \* other followers an author may have
  MaxChanges,
  MaxFailures,
  None

ASSUME AuthorAssumption == AuthorOf \in [Ids -> Authors]
ASSUME BoundAssumption ==
  /\ Threshold \in Nat /\ MaxOthers \in Nat /\ MaxChanges \in Nat
  /\ MaxFailures \in Nat
ASSUME NoneAssumption == None \notin BOOLEAN

VARIABLES
  follows,    \* authors the reader follows (the follows and followers rows)
  others,     \* number of other followers of each author
  stage,      \* "new", "counted", "live" or "deleted" for each tweet
  counted,    \* followers_count the creating request read
  appending,  \* tweets committed but not yet in utl
  dropping,   \* tweets deleted but not yet removed from utl
  log,        \* tweets.v1
  handled,    \* events the worker is done with
  page,       \* what the worker loaded of the followers: None, or whether the reader is in
  tl,         \* tl:{reader}
  utl,        \* utl:{author} of all authors
  celebs,     \* celebs:{reader}, or None
  rebuilding, \* what a read is about to push to an absent tl, or None
  warming,    \* what a read is about to add to an absent celebs, or None
  clearing,   \* whether a committed follow change still has to drop celebs
  due,        \* history: tweets sent out while the reader followed their author
  hole,       \* history: an evicted list came back with less than a rebuild would put there
  dropped,    \* history: an author fell below the threshold
  changes, evictions, 
  failures    \* lost events and lists

graph == <<follows, others>>
writes == <<stage, counted, appending, dropping, log>>
worker == <<handled, page>>
reads == <<rebuilding, warming>>
history == <<due, hole, dropped>>
vars == <<graph, writes, worker, tl, utl, celebs, reads, clearing, history, changes,
          evictions, failures>>

FollowersCount(a) == others[a] + (IF a \in follows THEN 1 ELSE 0)
Counts == 0..(MaxOthers + 1)
Created == { i \in Ids : stage[i] \in {"live", "deleted"} }
Live == { i \in Ids : stage[i] = "live" }
TweetsOf(S) == { i \in Ids : AuthorOf[i] \in S }

Change == changes < MaxChanges /\ changes' = changes + 1
Trip == evictions + failures < MaxFailures

TypeOK ==
  /\ follows \subseteq Authors
  /\ others \in [Authors -> 0..MaxOthers]
  /\ stage \in [Ids -> {"new", "counted", "live", "deleted"}]
  /\ counted \in [Ids -> Counts]
  /\ appending \subseteq Created /\ dropping \subseteq Created \ Live
  /\ log \in Seq([kind : {"created", "deleted"}, id : Created])
  /\ handled \in 0..Len(log)
  /\ page \in {None, TRUE, FALSE}
  /\ page # None => handled < Len(log)
  /\ tl \subseteq Created /\ utl \subseteq Created
  /\ celebs = None \/ celebs \subseteq Authors
  /\ rebuilding = None \/ rebuilding \subseteq Created
  /\ warming = None \/ warming \subseteq Authors
  /\ clearing \in BOOLEAN /\ hole \in BOOLEAN /\ dropped \in BOOLEAN
  /\ due \subseteq Created
  /\ changes \in 0..MaxChanges /\ evictions \in 0..MaxFailures
  /\ failures \in 0..MaxFailures

Init ==
  /\ follows \in SUBSET Authors
  /\ others \in [Authors -> 0..MaxOthers]
  /\ stage = [i \in Ids |-> "new"] /\ counted = [i \in Ids |-> 0]
  /\ appending = {} /\ dropping = {} /\ log = << >>
  /\ handled = 0 /\ page = None
  /\ tl = {} /\ utl = {} /\ celebs = None /\ rebuilding = None /\ warming = None
  /\ clearing = FALSE /\ due = {} /\ hole = FALSE /\ dropped = FALSE
  /\ changes = 0 /\ evictions = 0 /\ failures = 0

-----------------------------------------------------------------------------
(* The API: Create and Delete of a tweet.                                   *)

\* Create reads the author's followers_count before its transaction.  (Ids grow.)
CountFollowers(i) ==
  /\ stage[i] = "new" /\ \A j \in Ids : j < i => stage[j] # "new"
  /\ stage' = [stage EXCEPT ![i] = "counted"]
  /\ counted' = [counted EXCEPT ![i] = FollowersCount(AuthorOf[i])]
  /\ UNCHANGED <<graph, appending, dropping, log, worker, tl, utl, celebs, reads,
                 clearing, history, changes, evictions, failures>>

\* The row and its event commit.
Commit(i) ==
  /\ stage[i] = "counted"
  /\ stage' = [stage EXCEPT ![i] = "live"]
  /\ log' = Append(log, [kind |-> "created", id |-> i])
  /\ appending' = appending \cup {i}
  /\ UNCHANGED <<graph, counted, dropping, worker, tl, utl, celebs, reads, clearing,
                 history, changes, evictions, failures>>

AppendableOrdinary(i) == i \in appending /\ counted[i] < Threshold  \* mutant: wrong way
Appendable(i) == i \in appending

AppendUTL(i) ==
  /\ Appendable(i)
  /\ utl' = utl \cup {i}
  /\ appending' = appending \ {i}
  /\ UNCHANGED <<graph, stage, counted, dropping, log, worker, tl, celebs, reads,
                 clearing, history, changes, evictions, failures>>

Delete(i) ==
  /\ stage[i] = "live"
  /\ Change
  /\ stage' = [stage EXCEPT ![i] = "deleted"]
  /\ log' = Append(log, [kind |-> "deleted", id |-> i])
  /\ dropping' = dropping \cup {i}
  /\ UNCHANGED <<graph, counted, appending, worker, tl, utl, celebs, reads, clearing,
                 history, evictions, failures>>

DropUTL(i) ==
  /\ i \in dropping
  /\ utl' = utl \ {i}
  /\ dropping' = dropping \ {i}
  /\ UNCHANGED <<graph, stage, counted, appending, log, worker, tl, celebs, reads,
                 clearing, history, changes, evictions, failures>>

-----------------------------------------------------------------------------
(* Follows.                                                                 *)

Falls(a) == FollowersCount(a) = Threshold

\* The reader follows or unfollows; the cache of celebrities is dropped after the
\* commit if the count is at the threshold before or after.  That count, n, was read
\* before the transaction and may have changed since.
Follow(a) ==
  /\ a \notin follows /\ ~clearing
  /\ Change
  /\ follows' = follows \cup {a}
  /\ \E n \in Counts : clearing' = (n + 1 >= Threshold)
  /\ UNCHANGED <<others, writes, worker, tl, utl, celebs, reads, history, evictions, failures>>

Unfollow(a) ==
  /\ a \in follows /\ ~clearing
  /\ Change
  /\ follows' = follows \ {a}
  /\ \E n \in Counts : clearing' = (n >= Threshold)
  /\ dropped' = (dropped \/ Falls(a))
  /\ due' = due \ TweetsOf({a})
  /\ UNCHANGED <<others, writes, worker, tl, utl, celebs, reads, hole, evictions, failures>>

ClearCelebs ==
  /\ clearing
  /\ celebs' = None /\ clearing' = FALSE
  /\ UNCHANGED <<graph, writes, worker, tl, utl, reads, history, changes, evictions, failures>>

\* Somebody else follows or unfollows the author.
OtherFollows(a) ==
  /\ Change
  /\ others[a] < MaxOthers
  /\ others' = [others EXCEPT ![a] = @ + 1]
  /\ UNCHANGED <<follows, writes, worker, tl, utl, celebs, reads, clearing, history,
                 evictions, failures>>

OtherUnfollows(a) ==
  /\ Change
  /\ others[a] > 0
  /\ others' = [others EXCEPT ![a] = @ - 1]
  /\ dropped' = (dropped \/ Falls(a))
  /\ UNCHANGED <<follows, writes, worker, tl, utl, celebs, reads, clearing, due, hole,
                 evictions, failures>>

-----------------------------------------------------------------------------
(* The fan-out worker.                                                      *)

Event == log[handled + 1]
Waiting(kind) == handled < Len(log) /\ page = None /\ Event.kind = kind
EndEvent == handled' = handled + 1 /\ page' = None
Followed(i) == AuthorOf[i] \in follows

\* A celebrity's tweet, by the count in the event, is left to the readers' merge.
SkipCelebrity ==
  /\ Waiting("created")
  /\ counted[Event.id] >= Threshold
  /\ due' = IF Followed(Event.id) THEN due \cup {Event.id} ELSE due
  /\ EndEvent
  /\ UNCHANGED <<graph, writes, tl, utl, celebs, reads, clearing, hole, dropped,
                 changes, evictions, failures>>

LoadFollowers ==
  /\ Waiting("created")
  /\ counted[Event.id] < Threshold
  /\ page' = Followed(Event.id)
  /\ due' = IF Followed(Event.id) THEN due \cup {Event.id} ELSE due
  /\ UNCHANGED <<graph, writes, handled, tl, utl, celebs, reads, clearing, hole,
                 dropped, changes, evictions, failures>>

\* LPUSH, which creates the list when it is absent.
Push ==
  /\ page # None /\ Event.kind = "created"
  /\ tl' = IF page THEN tl \cup {Event.id} ELSE tl
  /\ hole' = (hole \/ (page /\ tl = {} /\ evictions > 0))
  /\ EndEvent
  /\ UNCHANGED <<graph, writes, utl, celebs, reads, clearing, due, dropped, changes,
                 evictions, failures>>

\* fanoutDelete: nothing to do for an author who is a celebrity by now.
SkipRemoval ==
  /\ Waiting("deleted")
  /\ FollowersCount(AuthorOf[Event.id]) >= Threshold
  /\ EndEvent
  /\ UNCHANGED <<graph, writes, tl, utl, celebs, reads, clearing, history, changes,
                 evictions, failures>>

LoadFormer ==
  /\ Waiting("deleted")
  /\ FollowersCount(AuthorOf[Event.id]) < Threshold
  /\ page' = Followed(Event.id)
  /\ UNCHANGED <<graph, writes, handled, tl, utl, celebs, reads, clearing, history,
                 changes, evictions, failures>>

Remove ==
  /\ page # None /\ Event.kind = "deleted"
  /\ tl' = IF page THEN tl \ {Event.id} ELSE tl
  /\ EndEvent
  /\ UNCHANGED <<graph, writes, utl, celebs, reads, clearing, history, changes,
                 evictions, failures>>

-----------------------------------------------------------------------------
(* Reads.                                                                   *)

Celebrities == { a \in follows : FollowersCount(a) >= Threshold }
OrdinaryAndAbove == { a \in follows : FollowersCount(a) > Threshold }  \* mutant: > for >=
MergedAuthors == Celebrities

\* The rebuild query: tweets of followed authors below the threshold.
Rebuilt == Live \cap TweetsOf({ a \in follows : FollowersCount(a) < Threshold })

Rebuild ==
  /\ tl = {} /\ rebuilding = None /\ Rebuilt # {}
  /\ rebuilding' = Rebuilt
  /\ UNCHANGED <<graph, writes, worker, tl, utl, celebs, warming, clearing, history,
                 changes, evictions, failures>>

\* RPUSH: whatever reached the list in the meantime stays.
FillTimeline ==
  /\ rebuilding # None
  /\ tl' = tl \cup rebuilding
  /\ rebuilding' = None
  /\ UNCHANGED <<graph, writes, worker, utl, celebs, warming, clearing, history, changes,
                 evictions, failures>>

QueryCelebs ==
  /\ celebs = None /\ warming = None
  /\ warming' = MergedAuthors
  /\ UNCHANGED <<graph, writes, worker, tl, utl, celebs, rebuilding, clearing, history,
                 changes, evictions, failures>>

\* SADD to what another read may have put there.
FillCelebs ==
  /\ warming # None
  /\ celebs' = warming \cup (IF celebs = None THEN {} ELSE celebs)
  /\ warming' = None
  /\ UNCHANGED <<graph, writes, worker, tl, utl, rebuilding, clearing, history, changes,
                 evictions, failures>>

CelebsExpire ==
  /\ celebs # None
  /\ celebs' = None
  /\ UNCHANGED <<graph, writes, worker, tl, utl, reads, clearing, history, changes,
                 evictions, failures>>

\* Redis evicts the reader's list (LRU).
Evict ==
  /\ tl # {} /\ Trip
  /\ tl' = {} /\ evictions' = evictions + 1
  /\ hole' = (hole \/ rebuilding # None)
  /\ UNCHANGED <<graph, writes, worker, utl, celebs, reads, clearing, due, dropped, changes,
                 failures>>

Fail == Trip /\ failures' = failures + 1

\* The worker fails or dies after Once: the event is skipped, now and on redelivery.
SkipEvent ==
  /\ handled < Len(log)
  /\ Fail
  /\ EndEvent
  /\ UNCHANGED <<graph, writes, tl, utl, celebs, reads, clearing, history, changes, evictions>>

\* AppendUTL's error is dropped, or Redis evicts the author's list.
LoseUTL(a) ==
  /\ Fail
  /\ utl' = utl \ TweetsOf({a})
  /\ appending' = appending \ TweetsOf({a})
  /\ UNCHANGED <<graph, stage, counted, dropping, log, worker, tl, celebs, reads,
                 clearing, history, changes, evictions>>

-----------------------------------------------------------------------------
Work == SkipCelebrity \/ LoadFollowers \/ Push \/ SkipRemoval \/ LoadFormer \/ Remove

Tweeting(i) == CountFollowers(i) \/ Commit(i) \/ AppendUTL(i) \/ Delete(i) \/ DropUTL(i)

Following(a) == Follow(a) \/ Unfollow(a) \/ OtherFollows(a) \/ OtherUnfollows(a)

Read == Rebuild \/ FillTimeline \/ QueryCelebs \/ FillCelebs

Next ==
  \/ \E i \in Ids : Tweeting(i)
  \/ \E a \in Authors : Following(a) \/ LoseUTL(a)
  \/ ClearCelebs \/ Work \/ Read \/ CelebsExpire \/ Evict \/ SkipEvent

Spec == Init /\ [][Next]_vars

\* The worker runs, requests finish what they began, keys with a TTL expire.
FairSpec ==
  /\ Spec
  /\ WF_vars(Work)
  /\ WF_vars(ClearCelebs \/ \E i \in Ids : AppendUTL(i))
  /\ WF_vars(FillCelebs) /\ WF_vars(CelebsExpire)

-----------------------------------------------------------------------------
\* What Home returns to a read that runs now, in one go.
Shown ==
  Live \cap ((IF tl = {} THEN Rebuilt ELSE tl)
             \cup (utl \cap TweetsOf(IF celebs = None THEN MergedAuthors ELSE celebs)))

Trouble == failures > 0 \/ hole \/ dropped

\* Tweets that were sent out while the reader followed their author, and still does.
Expected == due \cap Live

Settled ==
  /\ handled = Len(log) /\ appending = {}
  /\ celebs = None \/ MergedAuthors \subseteq celebs

\* Every expected tweet is shown once the worker is done and the celebrity cache is
\* current: whichever of the four counts says celebrity, the tweet is found on one
\* way or the other, when authors reach the threshold while they tweet, and after
\* evictions.  Not so if an author falls below the threshold (the earlier tweets were
\* never pushed), if an evicted list came back with the worker's LPUSH of one tweet or
\* with a rebuild begun before the eviction (rebuild-on-miss then never runs), or if an
\* event or an author's list was lost.
Complete == Settled /\ ~Trouble => Expected \subseteq Shown

\* The home timeline is eventual: stale celebrity caches only delay a tweet.
EventuallyComplete == <>[](Trouble \/ Expected \subseteq Shown)

=============================================================================
