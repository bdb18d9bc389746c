----------------------------- MODULE RateLimiter -----------------------------
(***************************************************************************)
(* The sliding-window limiter of the login routes (pkg/redisx/limiter.go,  *)
(* AuthRateLimit in internal/httpapi/middleware.go) for one key.  The      *)
(* script runs atomically in Redis, but the time it stores and cuts the    *)
(* window by is the clock of the pod that asks; the key expires by the     *)
(* clock of Redis.  When Redis fails the request passes, unseen.           *)
(*                                                                         *)
(* now is true time, which Redis follows; a pod's clock is off by at most  *)
(* Skew, always by the same.  Bounds: MaxNow, MaxCalls.                    *)
(***************************************************************************)
EXTENDS Integers, FiniteSets

CONSTANTS Pods, Limit, Window, Skew, MaxNow, MaxCalls

ASSUME LimiterAssumption ==
  /\ Limit \in Nat /\ Window \in Nat /\ Skew \in Nat
  /\ MaxNow \in Nat /\ MaxCalls \in Nat

VARIABLES
  now,
  offset,    \* of each pod's clock
  entries,   \* rl:{key}: calls with their score, and the time they really came
  expires,   \* when Redis drops the key
  allowed    \* history: all calls that were let through

limiterVars == <<now, offset, entries, expires, allowed>>

CallRecords == [n : Nat, score : Int, at : Nat]

LimiterTypeOK ==
  /\ now \in Nat /\ offset \in [Pods -> -Skew .. Skew] /\ expires \in Nat
  /\ allowed \subseteq CallRecords /\ entries \subseteq allowed /\ IsFiniteSet(allowed)

LimiterInit ==
  /\ now = 0 /\ offset \in [Pods -> -Skew .. Skew]
  /\ entries = {} /\ expires = 0 /\ allowed = {}

-----------------------------------------------------------------------------
PodTime(p) == now + offset[p]

\* What the key holds, and what is left of it after ZREMRANGEBYSCORE.
Held == IF now < expires THEN entries ELSE {}

EarlyRemaining(p) == { e \in Held : e.score >= PodTime(p) - Window + 2 }  \* mutant: window - 1
Remaining(p) == { e \in Held : e.score > PodTime(p) - Window }

Pass(p) ==
  /\ Cardinality(Remaining(p)) < Limit /\ Cardinality(allowed) < MaxCalls
  /\ LET call == [n |-> Cardinality(allowed), score |-> PodTime(p), at |-> now]
     IN entries' = Remaining(p) \cup {call} /\ allowed' = allowed \cup {call}
  /\ expires' = now + Window
  /\ UNCHANGED <<now, offset>>

Deny(p) ==
  /\ Cardinality(Remaining(p)) >= Limit
  /\ entries' = Remaining(p)
  /\ UNCHANGED <<now, offset, expires, allowed>>

Tick == now < MaxNow /\ now' = now + 1 /\ UNCHANGED <<offset, entries, expires, allowed>>

LimiterNext == Tick \/ \E p \in Pods : Pass(p) \/ Deny(p)

LimiterSpec == LimiterInit /\ [][LimiterNext]_limiterVars

-----------------------------------------------------------------------------
Since(t) == { e \in allowed : e.at > t }

\* Whatever pods a client's calls reach, no more than Limit of them pass within any
\* Window less the most two clocks differ by.
WindowBound == Cardinality(Since(now - (Window - 2 * Skew))) <= Limit
=============================================================================
