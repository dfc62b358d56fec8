---------------------------- MODULE MCAuditChain ----------------------------
(* Instances of AuditChain for TLC: a service of two threads, and another process. *)
EXTENDS AuditChain

CONSTANTS t1, t2, t3, serve, gateway

SomeHomes == [t \in Threads |-> IF t = t3 THEN gateway ELSE serve]

Symmetry == Permutations({t1, t2}) \union Permutations(Bodies)
=============================================================================
