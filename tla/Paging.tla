------------------------------- MODULE Paging -------------------------------
(***************************************************************************)
(* Keyset pagination: one client walks through a list, page by page, while *)
(* rows come and go.  Three kinds of list use it:                          *)
(*   list     followers, following, notifications: one query is the page   *)
(*            (internal/users/lists.go, internal/notifications/service.go) *)
(*   profile  a query for ids, then a look at each tweet                   *)
(*   home     the whole merged list, cut while looking at each tweet       *)
(*            (both internal/timeline/timeline.go)                         *)
(* The query takes one row more than the page to know whether there is a   *)
(* next one; the cursor is the last id of the page, and 0 is no cursor.    *)
(***************************************************************************)
EXTENDS Integers, FiniteSets, FiniteSetsExt

CONSTANTS MaxRow, MaxLimit

ASSUME PagingAssumption == MaxRow \in Nat /\ MaxLimit \in Nat

Rows == 1 .. MaxRow

VARIABLES
  kind,
  listed,    \* the ids the list is made of
  live,      \* those whose tweet can still be loaded
  cursor,
  limit,     \* of the request that is running, 0 when none is
  rest,      \* ids it still has to look at
  found,     \* ids it will answer
  nextPage,  \* cursor it will answer, 0 on the last page
  answered,  \* history: ids answered so far
  twice,     \* history: ids answered more than once
  stayed,    \* history: ids that were there all the time since the walk began
  over

request == <<limit, rest, found, nextPage>>
client == <<cursor, answered, twice, over>>
pagingVars == <<kind, listed, live, stayed, request, client>>

PagingTypeOK ==
  /\ kind \in {"list", "profile", "home"}
  /\ listed \subseteq Rows /\ live \subseteq Rows
  /\ rest \subseteq Rows /\ found \subseteq Rows
  /\ cursor \in 0 .. MaxRow /\ nextPage \in 0 .. MaxRow /\ limit \in 0 .. MaxLimit
  /\ answered \subseteq Rows /\ twice \subseteq Rows
  /\ stayed \subseteq listed \cap live
  /\ over \in BOOLEAN

PagingInit ==
  /\ kind \in {"list", "profile", "home"}
  /\ listed \in SUBSET Rows /\ live = listed /\ stayed = listed
  /\ cursor = 0 /\ limit = 0 /\ rest = {} /\ found = {} /\ nextPage = 0
  /\ answered = {} /\ twice = {} /\ over = FALSE

-----------------------------------------------------------------------------
(* The handlers.                                                            *)

Below(c) == { i \in listed : c = 0 \/ i < c }
Newest(S, n) == { i \in S : Cardinality({ j \in S : j > i }) < n }

LookAhead(S, n) == Min(Newest(S, n + 1))   \* mutant: the extra row is the cursor
LastOf(S, n) == Min(Newest(S, n))

\* The SQL lists cut the page in the query, the home timeline while it hydrates.
Query(n) ==
  /\ ~over /\ limit = 0
  /\ limit' = n /\ found' = {}
  /\ LET ids == Below(cursor)
         cut == kind # "home" /\ Cardinality(ids) > n
     IN /\ rest' = IF cut THEN Newest(ids, n) ELSE ids
        /\ nextPage' = IF cut THEN LastOf(ids, n) ELSE 0
  /\ UNCHANGED <<kind, listed, live, stayed, client>>

Full == kind = "home" /\ Cardinality(found) = limit
Found(i) == kind = "list" \/ i \in live

\* The newest id that is left: skipped when the tweet is gone.
Look ==
  /\ limit > 0 /\ rest # {} /\ ~Full
  /\ LET i == Max(rest)
     IN rest' = rest \ {i} /\ found' = IF Found(i) THEN found \cup {i} ELSE found
  /\ UNCHANGED <<kind, listed, live, stayed, limit, nextPage, client>>

Cut ==
  /\ limit > 0 /\ rest # {} /\ Full
  /\ nextPage' = Min(found) /\ rest' = {}
  /\ UNCHANGED <<kind, listed, live, stayed, limit, found, client>>

\* The client gets the page, and is through when there is no next cursor.
Answer ==
  /\ limit > 0 /\ rest = {}
  /\ answered' = answered \cup found /\ twice' = twice \cup (answered \cap found)
  /\ cursor' = nextPage /\ over' = (nextPage = 0)
  /\ limit' = 0 /\ found' = {} /\ nextPage' = 0
  /\ UNCHANGED <<kind, listed, live, stayed, rest>>

-----------------------------------------------------------------------------
(* Meanwhile: followers, tweets and notifications come, in any order of     *)
(* their ids, and go.  A deleted tweet leaves the home timeline later.      *)

Insert(i) ==
  /\ ~over /\ i \notin listed \cup live
  /\ listed' = listed \cup {i} /\ live' = live \cup {i}
  /\ UNCHANGED <<kind, stayed, request, client>>

Vanish(i) ==
  /\ ~over /\ i \in live
  /\ live' = live \ {i} /\ stayed' = stayed \ {i}
  /\ listed' = IF kind = "home" THEN listed ELSE listed \ {i}
  /\ UNCHANGED <<kind, request, client>>

Unlist(i) ==
  /\ ~over /\ kind = "home" /\ i \in listed \ live
  /\ listed' = listed \ {i}
  /\ UNCHANGED <<kind, live, stayed, request, client>>

PagingNext ==
  \/ \E n \in 1 .. MaxLimit : Query(n)
  \/ Look \/ Cut \/ Answer
  \/ \E i \in Rows : Insert(i) \/ Vanish(i) \/ Unlist(i)

PagingSpec == PagingInit /\ [][PagingNext]_pagingVars

-----------------------------------------------------------------------------
\* A client that follows the cursors to the end has seen every row that was there all
\* the time, and no row twice, whatever came and went between its requests.
PagesComplete == twice = {} /\ (over => stayed \subseteq answered)
=============================================================================
