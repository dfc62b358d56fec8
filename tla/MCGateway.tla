----------------------------- MODULE MCGateway -----------------------------
(* Instances of Gateway for TLC. *)
EXTENDS Gateway

\* Pages: a last one, and ones that lead on.
LastPage == [cursor |-> "end", size |-> 1]
PageTo(c) == [cursor |-> c, size |-> 1]

TwoPages == {LastPage, PageTo("c1")}
ManyPages == {LastPage, PageTo("c1"), PageTo("c2"), PageTo("c3"), PageTo("bad"),
              [cursor |-> "end", size |-> 4]}
=============================================================================
