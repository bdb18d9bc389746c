------------------------------ MODULE MCSocial ------------------------------
(***************************************************************************)
(* Small instances of the parts that serve readers and their graph.  They  *)
(* share no state: a behaviour picks one part and runs it, the others stay *)
(* as they begin.                                                          *)
(***************************************************************************)
EXTENDS HomeTimeline, FollowGraph, Notifications, Retweets, Paging

VARIABLE part

homeVars == vars
socialVars == <<part, homeVars, graphVars, notesVars, retweetVars, pagingVars>>

MCAuthorOf == [i \in Ids |-> IF i = 3 THEN "b" ELSE "a"]

MCEdges0 == {<<"a", "c">>}
Asking(x, y, yes) == [from |-> x, to |-> y, follow |-> yes]
MCAsks ==
  { Asking(e[1], e[2], TRUE) :
      e \in {<<"a", "b">>, <<"b", "a">>, <<"b", "c">>, <<"c", "a">>, <<"a", "a">>} }
  \cup { Asking(e[1], e[2], FALSE) : e \in {<<"a", "b">>, <<"a", "c">>} }

MCEvents ==
  { [kind |-> k, own |-> FALSE] : k \in {"follow", "retweet", "unlike"} }
  \cup {[kind |-> "like", own |-> TRUE]}

SocialInit ==
  /\ part \in {"home", "graph", "notes", "retweets", "paging"}
  /\ Init /\ GraphInit /\ NotesInit /\ RetweetInit /\ PagingInit
  /\ part # "home" => follows = {} /\ \A a \in Authors : others[a] = 0
  /\ \A r \in Calls : part # "retweets" \/ r = 1 => writer[r] = "a"   \* by symmetry
  /\ part # "paging" => kind = "list" /\ listed = {}

HomeStep ==
  part = "home" /\ Next /\ UNCHANGED <<part, graphVars, notesVars, retweetVars, pagingVars>>
GraphStep ==
  part = "graph" /\ GraphNext /\ UNCHANGED <<part, homeVars, notesVars, retweetVars, pagingVars>>
NotesStep ==
  part = "notes" /\ NotesNext /\ UNCHANGED <<part, homeVars, graphVars, retweetVars, pagingVars>>
RetweetStep ==
  part = "retweets" /\ RetweetNext /\ UNCHANGED <<part, homeVars, graphVars, notesVars, pagingVars>>
PagingStep ==
  part = "paging" /\ PagingNext /\ UNCHANGED <<part, homeVars, graphVars, notesVars, retweetVars>>

SocialNext == HomeStep \/ GraphStep \/ NotesStep \/ RetweetStep \/ PagingStep

\* The fairness of FairSpec and of FairGraphSpec, while their part runs.
SocialSpec ==
  /\ SocialInit /\ [][SocialNext]_socialVars
  /\ WF_homeVars(part = "home" /\ Work)
  /\ WF_homeVars(part = "home" /\ (ClearCelebs \/ \E i \in Ids : AppendUTL(i)))
  /\ WF_homeVars(part = "home" /\ FillCelebs)
  /\ WF_homeVars(part = "home" /\ CelebsExpire)
  /\ \A r \in Requests : /\ WF_graphVars(part = "graph" /\ Statement(r))
                         /\ WF_graphVars(part = "graph" /\ BreakDeadlock(r))

=============================================================================
