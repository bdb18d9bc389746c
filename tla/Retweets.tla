------------------------------ MODULE Retweets ------------------------------
(***************************************************************************)
(* Create and Delete of tweets as engagements see them                     *)
(* (internal/tweets/service.go): a retweet is a tweet that names another,  *)
(* found with up to two reads before the transaction that inserts it; a    *)
(* delete reads the row, then deletes it without looking whether it was    *)
(* still there.  Each emits an event for the counters and the              *)
(* notifications.  No foreign key ties a retweet to its original.          *)
(***************************************************************************)
EXTENDS Integers, Sequences, FiniteSets

CONSTANTS
  Writers,     \* users
  MaxPosts,    \* requests to tweet, numbered as they arrive
  MaxErasers,  \* requests to delete, likewise
  Plain        \* no retweet_of_id

VARIABLES
  phase,     \* of each request: "new", where it is, how it ended
  writer,    \* who asks
  target,    \* tweet id: to retweet, or to delete
  naming,    \* the author the event will name, once read
  tweets,    \* ids in the table; the tweet of post p has id p
  of,        \* retweet_of_id of the tweet of each post, Plain for none
  engaged,   \* engagements.v1: "retweeted" and "unretweeted"
  overlaps   \* history: tweets two requests were deleting at once

Posts == 1 .. MaxPosts
Erasers == MaxPosts + 1 .. MaxPosts + MaxErasers
Calls == Posts \cup Erasers

ASSUME RetweetsAssumption ==
  MaxPosts \in Nat /\ MaxErasers \in Nat /\ Plain \notin Posts

progress == <<phase, writer, target, naming>>
retweetVars == <<progress, tweets, of, engaged, overlaps>>

Phases == {"new", "find", "flatten", "insert", "posted", "erase", "erased", "refused"}

RetweetTypeOK ==
  /\ phase \in [Calls -> Phases] /\ writer \in [Calls -> Writers]
  /\ target \in [Calls -> Posts \cup {Plain}]
  /\ naming \in [Posts -> Writers]
  /\ tweets \subseteq Posts /\ overlaps \subseteq Posts
  /\ of \in [Posts -> Posts \cup {Plain}]
  /\ engaged \in Seq([kind : {"retweeted", "unretweeted"}, tweet : Posts,
                      retweet : Posts, author : Writers])

RetweetInit ==
  /\ phase = [r \in Calls |-> "new"] /\ writer \in [Calls -> Writers]
  /\ target = [r \in Calls |-> Plain] /\ naming = [p \in Posts |-> writer[p]]
  /\ tweets = {} /\ of = [p \in Posts |-> Plain] /\ engaged = << >> /\ overlaps = {}

Enter(r, s) == phase' = [phase EXCEPT ![r] = s]

-----------------------------------------------------------------------------
(* Create.                                                                  *)

Ask(p, t) ==
  /\ phase[p] = "new" /\ \A q \in Posts : q < p => phase[q] # "new"
  /\ target' = [target EXCEPT ![p] = t]
  /\ Enter(p, IF t = Plain THEN "insert" ELSE "find")
  /\ UNCHANGED <<writer, naming, tweets, of, engaged, overlaps>>

Names(p, t) == naming' = [naming EXCEPT ![p] = writer[t]]

Find(p) ==
  /\ phase[p] = "find"
  /\ IF target[p] \notin tweets
     THEN Enter(p, "refused") /\ UNCHANGED <<target, naming>>
     ELSE /\ Names(p, target[p])
          /\ IF of[target[p]] = Plain
             THEN Enter(p, "insert") /\ UNCHANGED target
             ELSE Enter(p, "flatten") /\ target' = [target EXCEPT ![p] = of[target[p]]]
  /\ UNCHANGED <<writer, tweets, of, engaged, overlaps>>

KeepName(p) == UNCHANGED naming        \* mutant: the author of the retweet is kept
Rename(p) == Names(p, target[p])

\* The target is a retweet: on to the original, and to its author.
Flatten(p) ==
  /\ phase[p] = "flatten"
  /\ IF target[p] \notin tweets
     THEN Enter(p, "refused") /\ UNCHANGED naming
     ELSE Enter(p, "insert") /\ Rename(p)
  /\ UNCHANGED <<writer, target, tweets, of, engaged, overlaps>>

Retweeted(p) ==
  IF target[p] = Plain THEN << >>
  ELSE << [kind |-> "retweeted", tweet |-> target[p], retweet |-> p, author |-> naming[p]] >>

\* Row and events in one transaction.
Post(p) ==
  /\ phase[p] = "insert"
  /\ tweets' = tweets \cup {p} /\ of' = [of EXCEPT ![p] = target[p]]
  /\ engaged' = engaged \o Retweeted(p)
  /\ Enter(p, "posted")
  /\ UNCHANGED <<writer, target, naming, overlaps>>

-----------------------------------------------------------------------------
(* Delete.                                                                  *)

MayErase(d, t) == writer[d] = writer[t]

ErasersOf(t) == { d \in Erasers : phase[d] = "erase" /\ target[d] = t }

\* The read that every check relies on.
FindErased(d, t) ==
  /\ phase[d] = "new" /\ \A c \in Erasers : c < d => phase[c] # "new"
  /\ target' = [target EXCEPT ![d] = t]
  /\ Enter(d, IF t \in tweets /\ MayErase(d, t) THEN "erase" ELSE "refused")
  /\ UNCHANGED <<writer, naming, tweets, of, engaged, overlaps>>

NoWord(t) == << >>   \* mutant: the engagement event is forgotten
Unretweeted(t) ==
  IF of[t] = Plain THEN << >>
  ELSE << [kind |-> "unretweeted", tweet |-> of[t], retweet |-> t, author |-> writer[t]] >>

\* DELETE does not fail when another request was first.
Erase(d) ==
  /\ phase[d] = "erase"
  /\ tweets' = tweets \ {target[d]}
  /\ engaged' = engaged \o Unretweeted(target[d])
  /\ overlaps' = IF ErasersOf(target[d]) # {d} THEN overlaps \cup {target[d]} ELSE overlaps
  /\ Enter(d, "erased")
  /\ UNCHANGED <<writer, target, naming, of>>

\* The database fails, or the client leaves.  (A Create that fails does nothing more.)
GiveUp(d) ==
  /\ phase[d] = "erase"
  /\ Enter(d, "refused")
  /\ UNCHANGED <<writer, target, naming, tweets, of, engaged, overlaps>>

RetweetNext ==
  \/ \E p \in Posts : \/ \E t \in Posts \cup {Plain} : Ask(p, t)
                      \/ Find(p) \/ Flatten(p) \/ Post(p)
  \/ \E d \in Erasers : (\E t \in Posts : FindErased(d, t)) \/ Erase(d) \/ GiveUp(d)

RetweetSpec == RetweetInit /\ [][RetweetNext]_retweetVars

-----------------------------------------------------------------------------
Engagements(kind, t) == Cardinality({ i \in DOMAIN engaged :
                                        engaged[i].kind = kind /\ engaged[i].tweet = t })

\* A retweeted event names an original, never a retweet, and that tweet's author: it
\* decides who is notified.
RetweetsNameOriginals ==
  \A i \in DOMAIN engaged : engaged[i].kind = "retweeted" =>
    /\ of[engaged[i].tweet] = Plain
    /\ engaged[i].author = writer[engaged[i].tweet]

\* The counter of retweets that the events add up to is the number of retweets there
\* are, unless two requests deleted one of them at the same time.
RetweetsBalance ==
  \A t \in Posts :
    (\A p \in overlaps : of[p] # t) =>
      Engagements("retweeted", t) - Engagements("unretweeted", t)
        = Cardinality({ p \in tweets : of[p] = t })
=============================================================================
