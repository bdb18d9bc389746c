----------------------------- MODULE MCIdentity -----------------------------
(***************************************************************************)
(* Small instances of what identifies sessions and rows: refresh tokens,   *)
(* and node numbers with their ids.  They share no state: a behaviour      *)
(* picks one part and runs it, the other stays as it begins.               *)
(***************************************************************************)
EXTENDS RefreshTokens, NodeLease

VARIABLE part

tokenVars == vars
identityVars == <<part, tokenVars, leaseVars>>

MCNodes == 0..1

\* The first holder of a node exhausts a millisecond, the second reaches its start.
MCMaxIds == [p \in Processes |-> CASE p = "p1" -> 3 [] p = "p2" -> 1 [] OTHER -> 0]

\* Two pods on one host name, any other on its own.
MCHostOf == [p \in Processes |-> IF p \in {"p1", "p2"} THEN "h1" ELSE "h2"]

IdentityInit == part \in {"tokens", "leases"} /\ Init /\ LeaseInit

TokensStep == part = "tokens" /\ Next /\ UNCHANGED <<part, leaseVars>>
LeasesStep == part = "leases" /\ LeaseNext /\ UNCHANGED <<part, tokenVars>>

IdentitySpec == IdentityInit /\ [][TokensStep \/ LeasesStep]_identityVars

=============================================================================
