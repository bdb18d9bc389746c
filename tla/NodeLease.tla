----------------------------- MODULE NodeLease -----------------------------
(***************************************************************************)
(* Who issues ids under which node number: leases in the node_ids table    *)
(* (pkg/snowflake/lease.go) and the processes that hold them.  A process   *)
(* claims a node at start and lives once; a restart is another process,    *)
(* often with the same host name.                                          *)
(*                                                                         *)
(* Time is Postgres's clock, in units of a heartbeat period's fraction; a  *)
(* process reads its own clock, up to Drift off either way at each         *)
(* reading, so that it may also go backwards.  A generator whose clock     *)
(* went backwards and that runs out of numbers moves on by itself; Ahead   *)
(* limits how far (4096 ids for each such millisecond).                    *)
(*                                                                         *)
(* Nothing makes a process stop when its heartbeat is late: late remembers *)
(* the processes for which one ever was, those that never heartbeat among  *)
(* them once they have run for Every.                                      *)
(*                                                                         *)
(* Bounds: MaxTime, the last instant; MaxIds, the ids of each process.      *)
(***************************************************************************)
EXTENDS Snowflake, Sequences

CONSTANTS
  Processes,   \* API pods and workers, restarts included
  HostOf,      \* os.Hostname() of a process
  Silent,      \* processes that never call Heartbeat: the notifications worker
  Nodes,       \* node numbers, an interval from 0
  TTL,         \* how long a lease survives without a heartbeat
  Every,       \* the heartbeat period
  Drift,        \* how far a process's clock is from Postgres's
  Ahead,       \* how far a generator runs ahead of its clock
  MaxTime,
  MaxIds

ASSUME NodesAssumption == Nodes \subseteq Nat
ASSUME SilentAssumption == Silent \subseteq Processes
ASSUME TimeAssumption ==
  /\ TTL \in Nat /\ Every \in Nat /\ Drift \in Nat /\ Ahead \in Nat /\ MaxTime \in Nat
  /\ Every + 2 * Drift + Ahead < TTL
ASSUME MaxIdsAssumption == MaxIds \in [Processes -> Nat]

VARIABLES
  now,      \* Postgres's now()
  rows,     \* node_ids: the owner and the expiry of each node, or NoRow
  state,    \* "new", "up" or "down"
  node,     \* NodeID() of a process's lease
  beat,     \* when a process last wrote its lease
  gen,      \* the generator of a process
  issued,   \* the ids a process issued, in order
  late      \* the processes that once went on without a heartbeat for longer than Every

leaseVars == <<now, rows, state, node, beat, gen, issued, late>>

NoRow == [owner |-> "none", expires |-> 0]
Hosts == { HostOf[p] : p \in Processes }
LeasedIds == [ms : Nat, node : Nodes, seq : 0..MaxSeq]

LeaseTypeOK ==
  /\ now \in Nat
  /\ rows \in [Nodes -> [owner : Hosts \cup {"none"}, expires : Nat]]
  /\ state \in [Processes -> {"new", "up", "down"}]
  /\ node \in [Processes -> Nodes \cup {0}]
  /\ \A p \in Processes : state[p] # "new" => node[p] \in Nodes
  /\ beat \in [Processes -> Nat]
  /\ gen \in [Processes -> Generators]
  /\ issued \in [Processes -> Seq(LeasedIds)]
  /\ late \subseteq Processes

\* Clocks read a positive time from the start.
LeaseInit ==
  /\ now = Drift + 1
  /\ rows = [n \in Nodes |-> NoRow]
  /\ state = [p \in Processes |-> "new"]
  /\ node = [p \in Processes |-> 0]
  /\ beat = [p \in Processes |-> 0]
  /\ gen = [p \in Processes |-> New]
  /\ issued = [p \in Processes |-> << >>]
  /\ late = {}

-----------------------------------------------------------------------------
NeverTaken(n) == rows[n].expires <= now + Every   \* mutant: expiry checked too early
Claimable(n) == rows[n].expires <= now

Lowest(S) == { n \in S : \A m \in S : n <= m }

ExpiryUnchanged(p, n) == [owner |-> HostOf[p], expires |-> LaterOf(rows[n].expires, now + 1)]  \* mutant: heartbeat_at only
Leased(p, n) == [owner |-> HostOf[p], expires |-> now + TTL]

\* claimSQL: the lowest unused or expired node.  An attempt that loses a race
\* returns no row, changes nothing and is repeated.
AcquireLease(p) ==
  /\ state[p] = "new"
  /\ \E n \in Lowest({ m \in Nodes : Claimable(m) }) :
       /\ rows' = [rows EXCEPT ![n] = Leased(p, n)]
       /\ node' = [node EXCEPT ![p] = n]
  /\ beat' = [beat EXCEPT ![p] = now]
  /\ state' = [state EXCEPT ![p] = "up"]
  /\ UNCHANGED <<now, gen, issued, late>>

Owns(p) == rows[node[p]].owner = HostOf[p]

\* The UPDATE of Heartbeat finds a row of its node and host name.
Heartbeat(p) ==
  /\ state[p] = "up" /\ p \notin Silent
  /\ Owns(p)
  /\ rows' = [rows EXCEPT ![node[p]] = Leased(p, node[p])]
  /\ beat' = [beat EXCEPT ![p] = now]
  /\ UNCHANGED <<now, state, node, gen, issued, late>>

\* A process is killed or shut down, or its Heartbeat failed or found no row, which
\* is fatal; nothing calls Release.
Exit(p) ==
  /\ state[p] = "up"
  /\ state' = [state EXCEPT ![p] = "down"]
  /\ UNCHANGED <<now, rows, node, beat, gen, issued, late>>

\* The clock of a process, read at this instant.
Readings == (now - Drift)..(now + Drift)

\* A request handler or a consumer calls Next().
Issue(p) ==
  /\ state[p] = "up"
  /\ Len(issued[p]) < MaxIds[p]
  /\ \E c, w \in Readings :
       /\ Returns(gen[p], c, w)
       /\ NextState(gen[p], c, w).last <= now + Drift + Ahead
       /\ gen' = [gen EXCEPT ![p] = NextState(gen[p], c, w)]
  /\ issued' = [issued EXCEPT ![p] = Append(@, IdOf(gen'[p], node[p]))]
  /\ UNCHANGED <<now, rows, state, node, beat, late>>

Overdue == { p \in Processes : state[p] = "up" /\ now >= beat[p] + Every }

\* Time passes, also while the heartbeat of a process hangs: its Exec has no deadline,
\* and meanwhile the process goes on issuing ids.
Tick ==
  /\ now < MaxTime
  /\ now' = now + 1
  /\ late' = late \cup Overdue
  /\ UNCHANGED <<rows, state, node, beat, gen, issued>>

Process(p) ==
  AcquireLease(p) \/ Heartbeat(p) \/ Exit(p) \/ Issue(p)

LeaseNext == Tick \/ \E p \in Processes : Process(p)

LeaseSpec == LeaseInit /\ [][LeaseNext]_leaseVars

-----------------------------------------------------------------------------
Prompt == Processes \ late

\* No two running processes that heartbeat in time have the same node number, whatever
\* late and silent processes do, host names shared and leases expired and taken over.
LeaseExclusive ==
  \A p, q \in Prompt :
    p # q /\ state[p] = "up" /\ state[q] = "up" => node[p] # node[q]

\* A process's ids increase, when its clock stands still, goes backwards or a
\* millisecond's sequence numbers run out.
IdsIncrease ==
  \A p \in Processes : \A i, j \in DOMAIN issued[p] :
    i < j => Before(issued[p][i], issued[p][j])

IssuedBy(p) == { issued[p][i] : i \in DOMAIN issued[p] }

\* No two processes that heartbeat in time issue the same id, one after the other under
\* the same node number included: the lease outlives a process by more than the clocks
\* and the generators of two processes differ.
UniqueIds ==
  \A p, q \in Prompt : p # q => IssuedBy(p) \cap IssuedBy(q) = {}

=============================================================================
