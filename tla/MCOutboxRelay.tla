--------------------------- MODULE MCOutboxRelay ---------------------------
(* Small instances of OutboxRelay.                                          *)
EXTENDS OutboxRelay

\* Two ids share a key, the third has its own.
MCKeyOf == [e \in Ids |-> IF e = 3 THEN "k2" ELSE "k1"]
=============================================================================
