------------------------------ MODULE MCGrants ------------------------------
(* Instances of Grants for TLC; the threads, principals and ids are alike. *)
EXTENDS Grants, TLC

ThreadSymmetry == Permutations(Threads)

Symmetry == ThreadSymmetry \union Permutations(Principals) \union Permutations(Hashes)
            \union Permutations(GrantIds)
=============================================================================
