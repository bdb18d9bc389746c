----------------------------- MODULE Snowflake -----------------------------
(***************************************************************************)
(* The id generator (pkg/snowflake).  A generator remembers the            *)
(* millisecond and the sequence number of its last id; an id is these two  *)
(* and the node, compared in that order of significance (ms, node, seq).   *)
(***************************************************************************)
EXTENDS Integers

CONSTANT MaxSeq   \* last sequence number of a millisecond (4095 in the code)

ASSUME SeqAssumption == MaxSeq \in Nat

Generators == [last : Nat, seq : 0..MaxSeq]

\* A new generator has issued nothing yet.
New == [last |-> 0, seq |-> 0]

LaterOf(a, b) == IF a >= b THEN a ELSE b

Wraps(g) == g.seq = MaxSeq

\* The millisecond the wait for an exhausted one ends with, when the clock
\* reads w at the end: a clock behind the last id counts as the next
\* millisecond, a clock equal to it is read again.
AfterWait(g, w) == IF w < g.last THEN g.last + 1 ELSE w

AnySequence(g, now, w) == [last |-> now, seq |-> (g.seq + 1) % (MaxSeq + 1)]  \* mutant: no wait
SameMillisecond(g, now, w) ==
  IF Wraps(g) THEN [last |-> AfterWait(g, w), seq |-> 0]
              ELSE [last |-> now, seq |-> g.seq + 1]

\* Next() when the clock reads c first, and w at the end of a wait if there is one.
NextState(g, c, w) ==
  LET now == LaterOf(c, g.last)
  IN  IF now = g.last THEN SameMillisecond(g, now, w) ELSE [last |-> now, seq |-> 0]

\* Whether a call of Next() with these readings returns.
Returns(g, c, w) == c <= g.last /\ Wraps(g) => w # g.last

IdOf(g, node) == [ms |-> g.last, node |-> node, seq |-> g.seq]

\* The int64 order of two ids of one node.
Before(a, b) == a.ms < b.ms \/ (a.ms = b.ms /\ a.seq < b.seq)

=============================================================================
