---------------------------- MODULE WorkerRoles ----------------------------
(***************************************************************************)
(* Worker processes and the roles they run (cmd/worker).  A role begins by *)
(* connecting to PostgreSQL.  When that fails, relay, counters and media   *)
(* end the process, which Kubernetes starts again; fanout and              *)
(* notifications log it and return, in a process that goes on and answers  *)
(* /healthz.  Once connected a role runs until its process stops.          *)
(*                                                                         *)
(* Bounds: MaxOutages of PostgreSQL, MaxStops of processes (deployments).  *)
(***************************************************************************)
EXTENDS Naturals

CONSTANTS Processes, RolesOf, MaxOutages, MaxStops

knownRoles == {"relay", "fanout", "counters", "notifications", "media"}

ASSUME RolesAssumption ==
  RolesOf \in [Processes -> SUBSET knownRoles] /\ MaxOutages \in Nat /\ MaxStops \in Nat

VARIABLES
  running,  \* of each process, the state of its roles; no role is "up" while it is down
  postgres, outages, stops

roleVars == <<running, postgres, outages, stops>>

RolesTypeOK ==
  /\ \A p \in Processes : running[p] \in [RolesOf[p] -> {"down", "starting", "up", "ended"}]
  /\ postgres \in BOOLEAN /\ outages \in 0..MaxOutages /\ stops \in 0..MaxStops

Everywhere(p, state) == [r \in RolesOf[p] |-> state]

RolesInit ==
  /\ running = [p \in Processes |-> Everywhere(p, "down")]
  /\ postgres = TRUE /\ outages = 0 /\ stops = 0

-----------------------------------------------------------------------------
Down(p) == \A r \in RolesOf[p] : running[p][r] = "down"

\* main: every role of WORKER_ROLES in its goroutine.
Launch(p) ==
  /\ Down(p) /\ running' = [running EXCEPT ![p] = Everywhere(p, "starting")]
  /\ UNCHANGED <<postgres, outages, stops>>

Connect(p, r) ==
  /\ running[p][r] = "starting" /\ postgres /\ running' = [running EXCEPT ![p][r] = "up"]
  /\ UNCHANGED <<postgres, outages, stops>>

NoneFatal == {}   \* mutant: every role logs the error and returns
FatalRoles == {"relay", "counters", "media"}

CannotConnect(p, r) ==
  /\ running[p][r] = "starting" /\ ~postgres
  /\ running' = IF r \in FatalRoles THEN [running EXCEPT ![p] = Everywhere(p, "down")]
                                    ELSE [running EXCEPT ![p][r] = "ended"]
  /\ UNCHANGED <<postgres, outages, stops>>

\* SIGTERM: the context ends, and every role with it.
Shutdown(p) ==
  /\ ~Down(p) /\ stops < MaxStops /\ stops' = stops + 1
  /\ running' = [running EXCEPT ![p] = Everywhere(p, "down")]
  /\ UNCHANGED <<postgres, outages>>

Outage ==
  /\ postgres /\ outages < MaxOutages /\ postgres' = FALSE /\ outages' = outages + 1
  /\ UNCHANGED <<running, stops>>
Recover == ~postgres /\ postgres' = TRUE /\ UNCHANGED <<running, outages, stops>>

Starting(p) == Launch(p) \/ \E r \in RolesOf[p] : Connect(p, r) \/ CannotConnect(p, r)

RolesNext == (\E p \in Processes : Starting(p) \/ Shutdown(p)) \/ Outage \/ Recover

\* Kubernetes restarts what exits, goroutines run, and PostgreSQL comes back.
RolesFair == WF_roleVars(Recover) /\ \A p \in Processes :
  /\ WF_roleVars(Launch(p))
  /\ \A r \in knownRoles :
       WF_roleVars(r \in RolesOf[p] /\ (Connect(p, r) \/ CannotConnect(p, r)))
RolesSpec == RolesInit /\ [][RolesNext]_roleVars /\ RolesFair

-----------------------------------------------------------------------------
\* A role that ends its process when it cannot start comes up after any outage, also next
\* to roles that gave up.  fanout and notifications do not: nothing restarts them.
RolesRecover ==
  \A p \in Processes : \A r \in RolesOf[p] \cap {"relay", "counters", "media"} :
    running[p][r] = "starting" ~> running[p][r] = "up"
=============================================================================
