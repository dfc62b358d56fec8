----------------------------- MODULE MCCatalog -----------------------------
(* Instances of Catalog for TLC. *)
EXTENDS Catalog, TLC

CONSTANTS a, b, c1, c2

Offer(c, s) == [claim |-> c, schema |-> s]

\* A tool on its own, redefined beside a new one, and with an incoherent schema.
MCLists == { a :> Offer(c1, "coherent"),
             a :> Offer(c2, "coherent") @@ b :> Offer(c1, "coherent"),
             a :> Offer(c2, "broken") }

ThreadSymmetry == Permutations(Threads)
=============================================================================
