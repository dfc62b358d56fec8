-------------------------- MODULE MCGovernedInvoke --------------------------
(* Instances of GovernedInvoke for TLC. *)
EXTENDS GovernedInvoke
=============================================================================
