---------------------------- MODULE GrantLedger ----------------------------
(***************************************************************************)
(* What the grant service promises, free of threads, locks, transactions   *)
(* and audit records: a grant is a ticket that is good for one call.       *)
(*                                                                         *)
(*   state[g]     the life of the ticket as the database will report it    *)
(*                after a restart                                          *)
(*   uses[g]      how many "redeemed: ok" answers have reached a caller    *)
(*                                                                         *)
(* The answer is delivered at most once, and only for a ticket that is     *)
(* already spent on disk; a ticket that was closed unspent is never spent. *)
(***************************************************************************)
EXTENDS Naturals

CONSTANT GrantIds

VARIABLES state, uses

vars == <<state, uses>>

States == {"absent", "issued", "spent", "closed", "spent_closed"}

Init ==
    /\ state = [g \in GrantIds |-> "absent"]
    /\ uses = [g \in GrantIds |-> 0]

Move(g, from, to) ==
    /\ state[g] = from
    /\ state' = [state EXCEPT ![g] = to]
    /\ UNCHANGED uses

Issue(g) == Move(g, "absent", "issued")
Spend(g) == Move(g, "issued", "spent")
Close(g) == Move(g, "issued", "closed") \/ Move(g, "spent", "spent_closed")

Deliver(g) ==
    /\ state[g] \in {"spent", "spent_closed"}
    /\ uses[g] = 0
    /\ uses' = [uses EXCEPT ![g] = 1]
    /\ UNCHANGED state

Next == \E g \in GrantIds : Issue(g) \/ Spend(g) \/ Close(g) \/ Deliver(g)

Spec == Init /\ [][Next]_vars
=============================================================================
