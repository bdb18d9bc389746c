------------------------------- MODULE Loader -------------------------------
(***************************************************************************)
(* The in-process cache of hydrated tweets (Loader.Get, pkg/redisx) of one *)
(* pod, for one key: an LRU entry with a jittered TTL, and a singleflight  *)
(* group whose first caller fetches for all who join it, with its own      *)
(* context: when that is cancelled, all of them may fail.                  *)
(*                                                                         *)
(* Bounds: MaxClock on the clock, one Get per caller.                        *)
(***************************************************************************)
EXTENDS Naturals

CONSTANTS Callers, NoCaller, MinTTL, MaxTTL, MaxClock

ASSUME LoaderAssumption ==
  /\ NoCaller \notin Callers
  /\ MinTTL \in Nat \ {0} /\ MaxTTL \in Nat /\ MinTTL <= MaxTTL /\ MaxClock \in Nat

VARIABLES
  clock,
  expiry,     \* of the cached entry; 0 when there is none
  leader,     \* who runs the key's flight
  call,       \* where each Get is
  loaded,     \* history: when a fetch last filled the cache
  evicted     \* history: whether the LRU dropped that entry

loaderVars == <<clock, expiry, leader, call, loaded, evicted>>

LoaderTypeOK ==
  /\ clock \in 0..MaxClock /\ expiry \in 0..(MaxClock + MaxTTL) /\ loaded \in 0..clock
  /\ call \in [Callers -> {"idle", "missed", "joined", "recheck", "fetch", "end", "ok", "error"}]
  /\ leader \in Callers \cup {NoCaller} /\ evicted \in BOOLEAN

LoaderInit ==
  /\ clock = 0 /\ expiry = 0 /\ leader = NoCaller /\ loaded = 0 /\ evicted = TRUE
  /\ call = [c \in Callers |-> "idle"]

-----------------------------------------------------------------------------
Cached == clock < expiry
To(c, stage) == call' = [call EXCEPT ![c] = stage]

Get(c) ==
  /\ call[c] = "idle" /\ To(c, IF Cached THEN "ok" ELSE "missed")
  /\ UNCHANGED <<clock, expiry, leader, loaded, evicted>>

\* sf.Do: wait for the flight there is, or run a new one.
Join(c) ==
  /\ call[c] = "missed" /\ leader # NoCaller /\ To(c, "joined")
  /\ UNCHANGED <<clock, expiry, leader, loaded, evicted>>

Lead(c) ==
  /\ call[c] = "missed" /\ leader = NoCaller /\ leader' = c /\ To(c, "recheck")
  /\ UNCHANGED <<clock, expiry, loaded, evicted>>

\* The flight looks again: another may have filled the cache since the miss.
FetchAnyway(c) ==   \* mutant: no second look
  /\ call[c] = "recheck" /\ To(c, "fetch")
  /\ UNCHANGED <<clock, expiry, leader, loaded, evicted>>
Recheck(c) ==
  /\ call[c] = "recheck" /\ To(c, IF Cached THEN "end" ELSE "fetch")
  /\ UNCHANGED <<clock, expiry, leader, loaded, evicted>>

Fill(c) ==
  /\ call[c] = "fetch" /\ To(c, "end")
  /\ expiry' \in (clock + MinTTL)..(clock + MaxTTL)
  /\ loaded' = clock /\ evicted' = FALSE
  /\ UNCHANGED <<clock, leader>>

\* All callers of the flight get its outcome.
Finish(outcome) ==
  /\ call' = [c \in Callers |-> IF c = leader \/ call[c] = "joined" THEN outcome ELSE call[c]]
  /\ leader' = NoCaller
  /\ UNCHANGED <<clock, expiry, loaded, evicted>>

\* fetch fails, for the database or because the leader's client left.
Fail(c) == call[c] = "fetch" /\ Finish("error")
Land(c) == call[c] = "end" /\ Finish("ok")

-----------------------------------------------------------------------------
\* Other keys push the entry out of the LRU.
Evict ==
  /\ expiry > 0 /\ expiry' = 0 /\ evicted' = TRUE
  /\ UNCHANGED <<clock, leader, call, loaded>>

Second ==
  /\ clock < MaxClock /\ clock' = clock + 1
  /\ UNCHANGED <<expiry, leader, call, loaded, evicted>>

LoaderNext ==
  \/ \E c \in Callers : Get(c) \/ Join(c) \/ Lead(c) \/ Recheck(c) \/ Fill(c) \/ Fail(c)
                          \/ Land(c)
  \/ Evict \/ Second

LoaderSpec == LoaderInit /\ [][LoaderNext]_loaderVars

-----------------------------------------------------------------------------
\* However its callers interleave, a pod fetches a key at most once per shortest TTL,
\* unless the LRU dropped the entry: a caller that missed before a flight landed and
\* starts the next one finds what the first has loaded.
LoadsSpaced == [][\A c \in Callers : Fill(c) => evicted \/ clock >= loaded + MinTTL]_loaderVars
=============================================================================
