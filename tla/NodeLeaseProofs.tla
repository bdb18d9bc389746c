-------------------------- MODULE NodeLeaseProofs --------------------------
(***************************************************************************)
(* Node numbers and ids, for any number of processes, clocks within Drift,  *)
(* and any sequence of exits, restarts, late and silent processes and      *)
(* shared host names.  Prompt shrinks as processes are late: what is said  *)
(* of the others is never taken back.                                      *)
(***************************************************************************)
EXTENDS NodeLease, TLAPS

USE SeqAssumption, NodesAssumption, SilentAssumption, TimeAssumption
    DEF SeqAssumption, NodesAssumption, SilentAssumption, TimeAssumption

\* The clock never reads less than one.
ClockStarted == now >= Drift + 1

\* A process that has not started has issued nothing.
Unstarted == \A p \in Processes : state[p] = "new" => gen[p] = New /\ issued[p] = << >>

\* A lease was last written in the past.
Started == \A p \in Processes : beat[p] <= now

\* LeasedIds carry the node number of their process.
OwnNode ==
  \A p \in Processes : \A i \in DOMAIN issued[p] : issued[p][i].node = node[p]

\* A generator is not behind the ids of its process.
GeneratorLeads ==
  \A p \in Processes : \A i \in DOMAIN issued[p] :
    \/ Before(issued[p][i], IdOf(gen[p], node[p]))
    \/ issued[p][i] = IdOf(gen[p], node[p])

\* A prompt process has written its lease recently, and the lease still
\* stands for TTL after that, whoever wrote the row last.
LeaseCurrent ==
  \A p \in Prompt : state[p] # "new" =>
    /\ rows[node[p]].expires >= beat[p] + TTL
    /\ state[p] = "up" => now <= beat[p] + Every

\* The generator of a prompt process is not far ahead of its last heartbeat.
GeneratorNear ==
  \A p \in Prompt : gen[p].last <= beat[p] + Every + Drift + Ahead

\* p had the node number before q: its lease was over when q issued its first id.
Handover(p, q) ==
  /\ state[p] = "down"
  /\ now >= beat[p] + TTL
  /\ \A i \in DOMAIN issued[q] : issued[q][i].ms >= beat[p] + TTL - Drift

NodesHandedOver ==
  \A p, q \in Prompt :
    p # q /\ state[p] # "new" /\ state[q] # "new" /\ node[p] = node[q]
      => Handover(p, q) \/ Handover(q, p)

IInv ==
  /\ LeaseTypeOK
  /\ ClockStarted
  /\ Started
  /\ Unstarted
  /\ OwnNode
  /\ GeneratorLeads
  /\ IdsIncrease
  /\ LeaseCurrent
  /\ GeneratorNear
  /\ NodesHandedOver

-----------------------------------------------------------------------------
(* The generator.                                                           *)

\* A reading of the clock is a positive number.
LEMMA ReadingType ==
  ASSUME LeaseTypeOK, ClockStarted, NEW c \in Readings
  PROVE  c \in Nat /\ c >= 1 /\ c <= now + Drift /\ c >= now - Drift
BY DEF LeaseTypeOK, ClockStarted, Readings

\* A call of LeaseNext that returns yields a later id than all before, whatever the clock
\* reads, and never one before the first reading.
LEMMA NextIsLater ==
  ASSUME NEW g \in Generators, NEW c \in Nat, NEW w \in Nat, NEW n,
         Returns(g, c, w)
  PROVE  /\ NextState(g, c, w) \in Generators
         /\ Before(IdOf(g, n), IdOf(NextState(g, c, w), n))
         /\ NextState(g, c, w).last >= c
<1> DEFINE h == NextState(g, c, w)
<1>g. g.last \in Nat /\ g.seq \in 0..MaxSeq
  BY DEF Generators
<1>1. CASE c > g.last
  <2>1. h = [last |-> c, seq |-> 0]
    BY <1>1, <1>g DEF NextState, LaterOf
  <2> QED BY <2>1, <1>1, <1>g DEF Generators, Before, IdOf
<1>2. CASE c <= g.last /\ ~Wraps(g)
  <2>1. h = [last |-> g.last, seq |-> g.seq + 1]
    BY <1>2, <1>g DEF NextState, LaterOf, SameMillisecond
  <2>2. g.seq + 1 \in 0..MaxSeq
    BY <1>2, <1>g DEF Wraps
  <2> QED BY <2>1, <2>2, <1>2, <1>g DEF Generators, Before, IdOf
<1>3. CASE c <= g.last /\ Wraps(g)
  <2>1. h = [last |-> AfterWait(g, w), seq |-> 0]
    BY <1>3, <1>g DEF NextState, LaterOf, SameMillisecond
  <2>2. AfterWait(g, w) \in Nat /\ AfterWait(g, w) > g.last
    BY <1>3, <1>g DEF AfterWait, Returns
  <2> QED BY <2>1, <2>2, <1>3, <1>g DEF Generators, Before, IdOf
<1> QED BY <1>1, <1>2, <1>3, <1>g

LEMMA BeforeTransitive ==
  ASSUME NEW a \in LeasedIds, NEW b \in LeasedIds, NEW d \in LeasedIds, Before(a, b), Before(b, d)
  PROVE  Before(a, d)
BY DEF LeasedIds, Before

-----------------------------------------------------------------------------
(* Each action keeps the invariant.                                         *)

LEMMA InitIInv == LeaseInit => IInv
<1> SUFFICES ASSUME LeaseInit PROVE IInv
  OBVIOUS
<1> USE DEF LeaseInit
<1>1. LeaseTypeOK
  BY DEF LeaseTypeOK, NoRow, New, Generators
<1>2. ClockStarted /\ Started /\ Unstarted /\ OwnNode
  BY DEF ClockStarted, Started, Unstarted, OwnNode
<1>3. GeneratorLeads /\ IdsIncrease
  BY DEF GeneratorLeads, IdsIncrease
<1>4. LeaseCurrent /\ NodesHandedOver
  BY DEF LeaseCurrent, NodesHandedOver, Prompt
<1>5. GeneratorNear
  BY DEF GeneratorNear, Prompt, New
<1> QED BY <1>1, <1>2, <1>3, <1>4, <1>5 DEF IInv

LEMMA TickIInv == IInv /\ Tick => IInv'
<1> SUFFICES ASSUME IInv, Tick PROVE IInv'
  OBVIOUS
<1> USE DEF IInv, Tick
<1>1. LeaseTypeOK'
  BY DEF LeaseTypeOK, Overdue
<1>2. now \in Nat /\ now' = now + 1 /\ UNCHANGED <<rows, state, node, beat, gen, issued>>
  BY DEF LeaseTypeOK
<1>3. ClockStarted' /\ Started' /\ Unstarted' /\ OwnNode'
  BY <1>2 DEF ClockStarted, Started, Unstarted, OwnNode, LeaseTypeOK
\* Who is still prompt has a heartbeat due, at the earliest, at this very instant.
<1>p. \A q \in Prompt' : q \in Prompt /\ beat[q] \in Nat /\ (state[q] = "up" => now < beat[q] + Every)
  BY DEF Prompt, Overdue, LeaseTypeOK
<1>4. GeneratorLeads' /\ IdsIncrease'
  BY <1>2 DEF GeneratorLeads, IdsIncrease
<1>5. GeneratorNear'
  BY <1>2, <1>p DEF GeneratorNear
<1>6. LeaseCurrent'
  BY <1>2, <1>p DEF LeaseCurrent
<1>7. NodesHandedOver'
  <2>1. ASSUME NEW q \in Prompt', NEW r \in Prompt', Handover(q, r) PROVE Handover(q, r)'
    BY <1>2, <1>p, <2>1 DEF Handover
  <2> QED BY <1>2, <1>p, <2>1 DEF NodesHandedOver
<1> QED BY <1>1, <1>3, <1>4, <1>5, <1>6, <1>7

LEMMA ExitIInv == ASSUME NEW p \in Processes, IInv, Exit(p) PROVE IInv'
<1> USE DEF IInv, Exit
<1>1. LeaseTypeOK'
  BY DEF LeaseTypeOK
<1>2. /\ state \in [Processes -> {"new", "up", "down"}]
      /\ state' = [state EXCEPT ![p] = "down"]
      /\ UNCHANGED <<now, rows, node, beat, gen, issued, late>>
  BY DEF LeaseTypeOK
<1>p. Prompt' = Prompt /\ Prompt \subseteq Processes
  BY <1>2 DEF Prompt
<1>3. ClockStarted' /\ Started' /\ Unstarted' /\ OwnNode'
  BY <1>2 DEF ClockStarted, Started, Unstarted, OwnNode, LeaseTypeOK
<1>4. GeneratorLeads' /\ IdsIncrease' /\ GeneratorNear'
  BY <1>2, <1>p DEF GeneratorLeads, IdsIncrease, GeneratorNear
<1>5. LeaseCurrent'
  BY <1>2, <1>p DEF LeaseCurrent
<1>6. NodesHandedOver'
  BY <1>2, <1>p DEF NodesHandedOver, Handover
<1> QED BY <1>1, <1>3, <1>4, <1>5, <1>6

\* Claiming: the node's last prompt holder is down and its lease over.
LEMMA AcquireIInv == ASSUME NEW p \in Processes, IInv, AcquireLease(p) PROVE IInv'
<1> USE DEF IInv
<1>1. PICK n \in Nodes :
        /\ Claimable(n)
        /\ rows' = [rows EXCEPT ![n] = Leased(p, n)]
        /\ node' = [node EXCEPT ![p] = n]
  BY DEF AcquireLease, Lowest
<1>2. /\ state[p] = "new"
      /\ state' = [state EXCEPT ![p] = "up"]
      /\ beat' = [beat EXCEPT ![p] = now]
      /\ UNCHANGED <<now, gen, issued, late>>
  BY DEF AcquireLease
<1>t. /\ now \in Nat
      /\ rows \in [Nodes -> [owner : Hosts \cup {"none"}, expires : Nat]]
      /\ state \in [Processes -> {"new", "up", "down"}]
      /\ node \in [Processes -> Nodes \cup {0}]
      /\ \A q \in Processes : state[q] # "new" => node[q] \in Nodes
      /\ beat \in [Processes -> Nat]
      /\ gen \in [Processes -> Generators]
      /\ issued \in [Processes -> Seq(LeasedIds)]
      /\ late \subseteq Processes
  BY DEF LeaseTypeOK
<1>p. Prompt' = Prompt /\ Prompt \subseteq Processes
  BY <1>2 DEF Prompt
<1>n. now \in Nat /\ TTL \in Nat /\ Every \in Nat /\ Every < TTL
  BY <1>t
<1>b. \A q \in Prompt : /\ q \in Processes
                        /\ beat[q] \in Nat
                        /\ state[q] # "new" => node[q] \in Nodes
  BY <1>t DEF Prompt
<1>r. \A m \in Nodes : rows[m].expires \in Nat
  BY <1>t
<1>3. Leased(p, n) \in [owner : Hosts \cup {"none"}, expires : Nat]
  BY <1>t DEF Leased, Hosts
<1>4. LeaseTypeOK'
  <2>1. rows' \in [Nodes -> [owner : Hosts \cup {"none"}, expires : Nat]]
    BY <1>1, <1>3, <1>t
  <2>2. node' \in [Processes -> Nodes \cup {0}]
    BY <1>1, <1>t
  <2>3. \A q \in Processes : state'[q] # "new" => node'[q] \in Nodes
    BY <1>1, <1>2, <1>t
  <2> QED BY <2>1, <2>2, <2>3, <1>2, <1>t DEF LeaseTypeOK
<1>5. ClockStarted' /\ Started' /\ Unstarted'
  BY <1>2, <1>t DEF ClockStarted, Started, Unstarted
<1>6. gen[p] = New /\ issued[p] = << >>
  BY <1>2 DEF Unstarted
<1>o. OwnNode'
  BY <1>1, <1>2, <1>6, <1>t DEF OwnNode
<1>7. GeneratorLeads'
  BY <1>1, <1>2, <1>6, <1>t DEF GeneratorLeads
<1>8. IdsIncrease'
  BY <1>2 DEF IdsIncrease
<1>9. GeneratorNear'
  BY <1>2, <1>6, <1>p, <1>t DEF GeneratorNear, New
<1>10. LeaseCurrent'
  <2> SUFFICES ASSUME NEW q \in Prompt, state'[q] # "new"
               PROVE  /\ rows'[node'[q]].expires >= beat'[q] + TTL
                      /\ state'[q] = "up" => now <= beat'[q] + Every
    BY <1>2, <1>p DEF LeaseCurrent
  <2>1. CASE q = p
    <3>1. rows'[n].expires = now + TTL
      BY <1>1, <1>t DEF Leased
    <3>2. node'[q] = n /\ beat'[q] = now
      BY <2>1, <1>1, <1>2, <1>t
    <3> QED BY <3>1, <3>2, <1>n
  <2>2. CASE q # p
    <3>1. state[q] # "new" /\ node'[q] = node[q] /\ beat'[q] = beat[q] /\ state'[q] = state[q]
      BY <2>2, <1>1, <1>2, <1>t, <1>b
    <3>2. /\ rows[node[q]].expires >= beat[q] + TTL
          /\ state[q] = "up" => now <= beat[q] + Every
      BY <3>1 DEF LeaseCurrent
    <3>3. beat[q] \in Nat /\ node[q] \in Nodes /\ rows[node[q]].expires \in Nat
      BY <3>1, <1>b, <1>r
    <3>4. rows'[node[q]].expires \in Nat /\ rows'[node[q]].expires >= rows[node[q]].expires
      <4>1. CASE node[q] = n
        <5>1. rows'[n].expires = now + TTL
          BY <1>1, <1>t DEF Leased
        <5>2. rows[n].expires <= now
          BY <1>1 DEF Claimable
        <5> QED BY <5>1, <5>2, <4>1, <3>3, <1>n
      <4>2. CASE node[q] # n
        <5>1. rows'[node[q]] = rows[node[q]]
          BY <3>3, <4>2, <1>1, <1>t
        <5> QED BY <5>1, <3>3
      <4> QED BY <4>1, <4>2
    <3> QED BY <3>1, <3>2, <3>3, <3>4, <1>n
  <2> QED BY <2>1, <2>2
<1>11. NodesHandedOver'
  <2>1. ASSUME NEW q \in Prompt, q # p, state[q] # "new", node[q] = n, p \in Prompt
        PROVE  Handover(q, p)'
    <3>1. rows[n].expires >= beat[q] + TTL /\ rows[n].expires <= now
      BY <2>1, <1>1 DEF LeaseCurrent, Claimable
    <3>2. beat[q] \in Nat /\ rows[n].expires \in Nat
      BY <1>b, <1>r, <2>1
    <3>3. now >= beat[q] + TTL
      BY <3>1, <3>2, <1>n
    <3>4. state[q] # "up"
      <4>1. state[q] = "up" => now <= beat[q] + Every
        BY <2>1 DEF LeaseCurrent
      <4> QED BY <4>1, <3>3, <3>2, <1>n
    <3>5. state'[q] = "down" /\ beat'[q] = beat[q] /\ now' = now
      BY <3>4, <2>1, <1>2, <1>t, <1>b
    <3> QED BY <3>3, <3>5, <1>2, <1>6 DEF Handover
  <2>2. SUFFICES ASSUME NEW q \in Prompt, NEW r \in Prompt, q # r,
                        state'[q] # "new", state'[r] # "new", node'[q] = node'[r]
                 PROVE  Handover(q, r)' \/ Handover(r, q)'
    BY <1>p DEF NodesHandedOver
  <2>3. CASE q = p
    BY <2>1, <2>2, <2>3, <1>1, <1>2, <1>p, <1>t
  <2>4. CASE r = p
    BY <2>1, <2>2, <2>4, <1>1, <1>2, <1>p, <1>t
  <2>5. CASE q # p /\ r # p
    <3>1. /\ state'[q] = state[q] /\ state'[r] = state[r]
          /\ node'[q] = node[q] /\ node'[r] = node[r]
          /\ beat'[q] = beat[q] /\ beat'[r] = beat[r]
      BY <2>5, <1>1, <1>2, <1>p, <1>t
    <3>2. Handover(q, r) \/ Handover(r, q)
      BY <3>1, <2>2 DEF NodesHandedOver
    <3> QED BY <3>1, <3>2, <1>2 DEF Handover
  <2> QED BY <2>3, <2>4, <2>5
<1> QED BY <1>4, <1>5, <1>o, <1>7, <1>8, <1>9, <1>10, <1>11

\* A heartbeat never shortens the lease of whoever holds the node by now.
LEMMA HeartbeatIInv == ASSUME NEW p \in Processes, IInv, Heartbeat(p) PROVE IInv'
<1> USE DEF IInv
<1>1. /\ state[p] = "up"
      /\ rows' = [rows EXCEPT ![node[p]] = Leased(p, node[p])]
      /\ beat' = [beat EXCEPT ![p] = now]
      /\ UNCHANGED <<now, state, node, gen, issued, late>>
  BY DEF Heartbeat
<1>p. Prompt' = Prompt /\ Prompt \subseteq Processes
  BY <1>1 DEF Prompt
<1>t. /\ now \in Nat /\ beat \in [Processes -> Nat]
      /\ rows \in [Nodes -> [owner : Hosts \cup {"none"}, expires : Nat]]
  BY DEF LeaseTypeOK
<1>b. \A q \in Processes : /\ beat[q] \in Nat
                           /\ state[q] # "new" => node[q] \in Nodes
                           /\ gen[q].last \in Nat
  BY DEF LeaseTypeOK, Generators
<1>2. node[p] \in Nodes
  BY <1>1, <1>b
<1>3. Leased(p, node[p]) \in [owner : Hosts \cup {"none"}, expires : Nat]
  BY <1>t DEF Leased, Hosts
<1>4. LeaseTypeOK'
  <2>1. rows' \in [Nodes -> [owner : Hosts \cup {"none"}, expires : Nat]]
    BY <1>1, <1>2, <1>3, <1>t
  <2> QED BY <2>1, <1>1, <1>t DEF LeaseTypeOK
<1>5. ClockStarted' /\ Unstarted' /\ OwnNode' /\ GeneratorLeads' /\ IdsIncrease'
  BY <1>1 DEF ClockStarted, Unstarted, OwnNode, GeneratorLeads, IdsIncrease
<1>6. beat[p] <= now
  BY <1>1, <1>b, <1>p, <1>t DEF Started
<1>7. LeaseCurrent'
  <2> SUFFICES ASSUME NEW q \in Prompt, state[q] # "new"
               PROVE  /\ rows'[node[q]].expires >= beat'[q] + TTL
                      /\ state[q] = "up" => now <= beat'[q] + Every
    BY <1>1, <1>p DEF LeaseCurrent
  <2>1. rows'[node[p]].expires = now + TTL
    BY <1>1, <1>2, <1>t DEF Leased
  <2>2. CASE q = p
    BY <2>1, <2>2, <1>1, <1>t
  <2>3. CASE q # p /\ node[q] = node[p]
    <3>1. beat'[q] = beat[q] /\ beat[q] <= now
      BY <2>3, <1>1, <1>t, <1>b, <1>p DEF Started
    <3>2. state[q] = "up" => now <= beat[q] + Every
      BY DEF LeaseCurrent
    <3> QED BY <2>1, <2>3, <3>1, <3>2, <1>b, <1>p, <1>t
  <2>4. CASE node[q] # node[p]
    <3>1. rows'[node[q]] = rows[node[q]] /\ beat'[q] = beat[q]
      BY <2>4, <1>1, <1>t, <1>b, <1>p
    <3> QED BY <3>1, <1>p DEF LeaseCurrent
  <2> QED BY <2>2, <2>3, <2>4
<1>8. GeneratorNear'
  <2> SUFFICES ASSUME NEW q \in Prompt
               PROVE  gen[q].last <= beat'[q] + Every + Drift + Ahead
    BY <1>1, <1>p DEF GeneratorNear
  <2>1. gen[q].last <= beat[q] + Every + Drift + Ahead
    BY DEF GeneratorNear
  <2>2. beat'[q] >= beat[q] /\ beat'[q] \in Nat
    BY <1>1, <1>6, <1>b, <1>p, <1>t
  <2> QED BY <2>1, <2>2, <1>b, <1>p
<1>9. NodesHandedOver'
  <2> SUFFICES ASSUME NEW q \in Prompt, NEW r \in Prompt, q # r,
                      state[q] # "new", state[r] # "new", node[q] = node[r]
               PROVE  Handover(q, r)' \/ Handover(r, q)'
    BY <1>1, <1>p DEF NodesHandedOver
  <2>1. ASSUME NEW a \in Prompt, NEW b \in Prompt, Handover(a, b)
        PROVE  Handover(a, b)'
    <3>1. a # p
      BY <2>1, <1>1 DEF Handover
    <3> QED BY <2>1, <3>1, <1>1, <1>b, <1>p, <1>t DEF Handover
  <2> QED BY <2>1 DEF NodesHandedOver
<1>10. Started'
  BY <1>1, <1>t, <1>b, <1>p DEF Started
<1> QED BY <1>4, <1>5, <1>7, <1>8, <1>9, <1>10

\* A new id is later than its process's earlier ones and near its last heartbeat.
LEMMA IssueIInv == ASSUME NEW p \in Processes, IInv, Issue(p) PROVE IInv'
<1> USE DEF IInv
<1>1. PICK c \in Readings, w \in Readings :
        /\ Returns(gen[p], c, w)
        /\ NextState(gen[p], c, w).last <= now + Drift + Ahead
        /\ gen' = [gen EXCEPT ![p] = NextState(gen[p], c, w)]
  BY DEF Issue
<1>2. /\ state[p] = "up"
      /\ issued' = [issued EXCEPT ![p] = Append(@, IdOf(gen'[p], node[p]))]
      /\ UNCHANGED <<now, rows, state, node, beat, late>>
  BY DEF Issue
<1>p. Prompt' = Prompt /\ Prompt \subseteq Processes
  BY <1>2 DEF Prompt
<1>t. /\ now \in Nat
      /\ gen \in [Processes -> Generators]
      /\ issued \in [Processes -> Seq(LeasedIds)]
      /\ node[p] \in Nodes
  BY <1>2 DEF LeaseTypeOK
<1>3. c \in Nat /\ w \in Nat /\ c >= now - Drift
  BY ReadingType
<1> DEFINE g == gen[p]
           h == NextState(gen[p], c, w)
           id == IdOf(h, node[p])
<1>4. h \in Generators /\ Before(IdOf(g, node[p]), id) /\ h.last >= c
  BY <1>1, <1>3, <1>t, NextIsLater
<1> HIDE DEF h
<1>5. id \in LeasedIds /\ IdOf(g, node[p]) \in LeasedIds
  BY <1>4, <1>t DEF IdOf, LeasedIds, Generators
<1>6. gen'[p] = h /\ \A q \in Processes : q # p => gen'[q] = gen[q]
  BY <1>1, <1>t DEF h
<1>7. /\ issued'[p] = Append(issued[p], id)
      /\ \A q \in Processes : q # p => issued'[q] = issued[q]
  BY <1>2, <1>6, <1>t
<1>8. /\ DOMAIN issued'[p] = DOMAIN issued[p] \cup {Len(issued[p]) + 1}
      /\ DOMAIN issued[p] = 1..Len(issued[p]) /\ Len(issued[p]) \in Nat
      /\ \A i \in DOMAIN issued[p] : issued'[p][i] = issued[p][i] /\ issued[p][i] \in LeasedIds
      /\ issued'[p][Len(issued[p]) + 1] = id
  BY <1>5, <1>7, <1>t
<1> HIDE DEF id
<1>9. LeaseTypeOK'
  <2>1. gen' \in [Processes -> Generators]
    BY <1>1, <1>4, <1>t DEF h
  <2>2. issued' \in [Processes -> Seq(LeasedIds)]
    BY <1>2, <1>5, <1>6, <1>t DEF id
  <2> QED BY <2>1, <2>2, <1>2 DEF LeaseTypeOK
<1>10. ClockStarted' /\ Unstarted' /\ LeaseCurrent' /\ Started'
  BY <1>2, <1>6, <1>7, <1>p DEF ClockStarted, Unstarted, LeaseCurrent, Started
<1>o. OwnNode'
  <2> SUFFICES ASSUME NEW q \in Processes, NEW i \in DOMAIN issued'[q]
               PROVE  issued'[q][i].node = node[q]
    BY <1>2 DEF OwnNode
  <2>1. CASE q # p
    BY <2>1, <1>7 DEF OwnNode
  <2>2. CASE q = p
    BY <2>2, <1>8 DEF OwnNode, id, IdOf
  <2> QED BY <2>1, <2>2
\* Earlier ids of p are before the new one.
<1>11. \A i \in DOMAIN issued[p] : Before(issued[p][i], id)
  BY <1>4, <1>5, <1>8, BeforeTransitive DEF GeneratorLeads
<1>12. GeneratorLeads'
  <2> SUFFICES ASSUME NEW q \in Processes, NEW i \in DOMAIN issued'[q]
               PROVE  \/ Before(issued'[q][i], IdOf(gen'[q], node[q]))
                      \/ issued'[q][i] = IdOf(gen'[q], node[q])
    BY <1>2 DEF GeneratorLeads
  <2>1. CASE q # p
    BY <2>1, <1>6, <1>7 DEF GeneratorLeads
  <2>2. CASE q = p
    BY <2>2, <1>6, <1>8, <1>11 DEF id
  <2> QED BY <2>1, <2>2
<1>13. IdsIncrease'
  <2> SUFFICES ASSUME NEW q \in Processes, NEW i \in DOMAIN issued'[q],
                      NEW j \in DOMAIN issued'[q], i < j
               PROVE  Before(issued'[q][i], issued'[q][j])
    BY DEF IdsIncrease
  <2>1. CASE q # p
    BY <2>1, <1>7 DEF IdsIncrease
  <2>2. CASE q = p /\ j \in DOMAIN issued[p]
    <3>1. i \in DOMAIN issued[p]
      BY <2>2, <1>8
    <3> QED BY <2>2, <3>1, <1>8 DEF IdsIncrease
  <2>3. CASE q = p /\ j = Len(issued[p]) + 1
    <3>1. i \in DOMAIN issued[p]
      BY <2>3, <1>8
    <3> QED BY <2>3, <3>1, <1>8, <1>11
  <2> QED BY <2>1, <2>2, <2>3, <1>8
<1>14. GeneratorNear'
  <2> SUFFICES ASSUME NEW q \in Prompt
               PROVE  gen'[q].last <= beat[q] + Every + Drift + Ahead
    BY <1>2, <1>p DEF GeneratorNear
  <2>1. CASE q # p
    BY <2>1, <1>6, <1>p DEF GeneratorNear
  <2>2. CASE q = p
    <3>1. now <= beat[p] + Every /\ beat[p] \in Nat
      BY <2>2, <1>2 DEF LeaseCurrent, LeaseTypeOK
    <3>2. h.last <= now + Drift + Ahead /\ h.last \in Nat
      BY <1>1, <1>4 DEF h, Generators
    <3>3. gen'[q].last = h.last /\ beat[q] = beat[p]
      BY <2>2, <1>6
    <3>4. \A l, n, b \in Nat : n <= b + Every /\ l <= n + Drift + Ahead
                             => l <= b + Every + Drift + Ahead
      BY <1>t
    <3> HIDE DEF h
    <3>5. h.last <= beat[p] + Every + Drift + Ahead
      BY <3>1, <3>2, <3>4, <1>t
    <3> QED BY <3>3, <3>5
  <2> QED BY <2>1, <2>2
<1>15. NodesHandedOver'
  <2> SUFFICES ASSUME NEW q \in Prompt, NEW r \in Prompt, q # r,
                      state[q] # "new", state[r] # "new", node[q] = node[r]
               PROVE  Handover(q, r)' \/ Handover(r, q)'
    BY <1>2, <1>p DEF NodesHandedOver
  <2>1. ASSUME NEW a \in Prompt, NEW b \in Prompt, Handover(a, b)
        PROVE  Handover(a, b)'
    <3> USE <2>1 DEF Handover
    <3>1. CASE b # p
      BY <3>1, <1>2, <1>7, <1>p
    <3>2. CASE b = p
      <4>1. beat[a] \in Nat
        BY DEF LeaseTypeOK, Prompt
      <4>2. id.ms >= beat[a] + TTL - Drift
        <5>1. id.ms = h.last /\ h.last \in Nat
          BY <1>4 DEF id, IdOf, Generators
        <5>2. now >= beat[a] + TTL /\ h.last >= now - Drift
          BY <5>1, <1>3, <1>4, <1>t
        <5> QED BY <5>1, <5>2, <4>1, <1>t
      <4> QED BY <4>2, <3>2, <1>2, <1>8
    <3> QED BY <3>1, <3>2
  <2> QED BY <2>1 DEF NodesHandedOver
<1> QED BY <1>9, <1>10, <1>o, <1>12, <1>13, <1>14, <1>15

LEMMA NextIInv == IInv /\ [LeaseNext]_leaseVars => IInv'
<1> SUFFICES ASSUME IInv, [LeaseNext]_leaseVars PROVE IInv'
  OBVIOUS
<1>1. CASE UNCHANGED leaseVars
  BY <1>1 DEF leaseVars, IInv, LeaseTypeOK, ClockStarted, Started, Unstarted, OwnNode, GeneratorLeads,
     IdsIncrease, LeaseCurrent, GeneratorNear, NodesHandedOver, Handover, Prompt
<1>2. CASE Tick
  BY <1>2, TickIInv
<1>3. ASSUME NEW p \in Processes, Process(p) PROVE IInv'
  BY <1>3, AcquireIInv, HeartbeatIInv, ExitIInv, IssueIInv DEF Process
<1> QED BY <1>1, <1>2, <1>3 DEF LeaseNext

LEMMA Invariance == LeaseSpec => []IInv
BY InitIInv, NextIInv, PTL DEF LeaseSpec

-----------------------------------------------------------------------------
\* Types of the table, the processes, their generators and their ids.
THEOREM Typing == LeaseSpec => []LeaseTypeOK
BY Invariance, PTL DEF IInv

\* Leases are exclusive among prompt processes: of two with one node number,
\* one is down, whatever silent processes and shared host names do to the table.
THEOREM Exclusive == LeaseSpec => []LeaseExclusive
<1>1. IInv => LeaseExclusive
  BY DEF IInv, NodesHandedOver, Handover, LeaseExclusive, Prompt
<1> QED BY <1>1, Invariance, PTL

\* The ids of one process increase, for any clock that stays within Drift.
THEOREM Increasing == LeaseSpec => []IdsIncrease
BY Invariance, PTL DEF IInv

\* Two prompt processes never issue one id: the ids of the node's earlier
\* holder end before TTL - Drift after its last heartbeat, the later holder's start
\* there.
THEOREM Unique == LeaseSpec => []UniqueIds
<1>1. IInv => UniqueIds
  <2> SUFFICES ASSUME IInv, NEW p \in Prompt, NEW q \in Prompt, p # q,
                      NEW i \in DOMAIN issued[p], NEW j \in DOMAIN issued[q],
                      issued[p][i] = issued[q][j]
               PROVE  FALSE
    BY DEF UniqueIds, IssuedBy, Prompt
  <2> USE DEF IInv
  <2>t. /\ issued[p] \in Seq(LeasedIds) /\ issued[q] \in Seq(LeasedIds)
        /\ gen[p] \in Generators /\ gen[q] \in Generators
        /\ beat[p] \in Nat /\ beat[q] \in Nat
    BY DEF LeaseTypeOK, Prompt
  <2>b. beat[p] \in Nat /\ beat[q] \in Nat
    BY <2>t
  <2>1. issued[p][i] \in LeasedIds /\ issued[q][j] \in LeasedIds
    BY <2>t
  <2>2. state[p] # "new" /\ state[q] # "new"
    BY DEF Unstarted, Prompt
  <2>3. issued[p][i].node = node[p] /\ issued[q][j].node = node[q]
    BY DEF OwnNode, Prompt
  <2>4. ASSUME NEW a \in Prompt, NEW k \in DOMAIN issued[a],
               gen[a] \in Generators, issued[a][k] \in LeasedIds, beat[a] \in Nat
        PROVE  issued[a][k].ms <= beat[a] + Every + Drift + Ahead
    <3>1. gen[a].last <= beat[a] + Every + Drift + Ahead
      BY DEF GeneratorNear
    <3>2. issued[a][k].ms <= gen[a].last
      <4>1. gen[a].last \in Nat /\ issued[a][k].ms \in Nat
        BY <2>4 DEF Generators, LeasedIds
      <4>2. \/ Before(issued[a][k], IdOf(gen[a], node[a]))
            \/ issued[a][k] = IdOf(gen[a], node[a])
        BY DEF GeneratorLeads, Prompt
      <4>3. IdOf(gen[a], node[a]).ms = gen[a].last
        BY DEF IdOf
      <4> QED BY <4>1, <4>2, <4>3 DEF Before
    <3>3. gen[a].last \in Nat /\ issued[a][k].ms \in Nat
      BY <2>4 DEF Generators, LeasedIds
    <3> QED BY <3>1, <3>2, <3>3, <2>4
  <2>5. Handover(p, q) \/ Handover(q, p)
    BY <2>2, <2>3 DEF NodesHandedOver
  <2>6. issued[p][i].ms \in Nat
    BY <2>1 DEF LeasedIds
  <2>7. CASE Handover(p, q)
    <3>1. issued[q][j].ms >= beat[p] + TTL - Drift
      BY <2>7 DEF Handover
    <3>2. issued[p][i].ms <= beat[p] + Every + Drift + Ahead
      BY <2>1, <2>4, <2>t
    <3> QED BY <3>1, <3>2, <2>6, <2>b
  <2>8. CASE Handover(q, p)
    <3>1. issued[p][i].ms >= beat[q] + TTL - Drift
      BY <2>8 DEF Handover
    <3>2. issued[q][j].ms <= beat[q] + Every + Drift + Ahead
      BY <2>1, <2>4, <2>t
    <3>3. issued[q][j].ms >= beat[q] + TTL - Drift /\ issued[q][j].ms \in Nat
      BY <3>1, <2>6
    <3> QED BY <3>2, <3>3, <2>b
  <2> QED BY <2>5, <2>7, <2>8
<1> QED BY <1>1, Invariance, PTL

=============================================================================
