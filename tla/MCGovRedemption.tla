-------------------------- MODULE MCGovRedemption --------------------------
(***************************************************************************)
(* Instances for TLC.  Two grants to redeem: g1, valid in [1, 3) for one   *)
(* set of arguments, with a copy whose constraints were widened after      *)
(* signing; and g2, which never ends and constrains the tool only.  And    *)
(* every small grant, trust root, instant and revocation list to verify.   *)
(***************************************************************************)
EXTENDS GovRedemption

CONSTANTS g1, g2, k1, k2, p1, p2, t1, s1, a1, a2

-----------------------------------------------------------------------------
(* Two grants to redeem *)

Sane == [envelope |-> TRUE, scheme |-> TRUE, format |-> TRUE, fields |-> TRUE]

Narrow == [id |-> g1, shape |-> Sane, issuer |-> k1, signed |-> TRUE, issued_at |-> 1,
           not_before |-> 1, not_after |-> 3, provider |-> TRUE, invoke |-> TRUE,
           principal |-> p1, tool |-> t1, source |-> s1, admits |-> {a1}]
Widened == [Narrow EXCEPT !.admits = {a1, a2}, !.signed = FALSE]
Endless == [Narrow EXCEPT !.id = g2, !.not_before = None, !.not_after = None,
                          !.source = Absent, !.admits = {a1, a2}]
Cropped == [Narrow EXCEPT !.shape.fields = FALSE]

Present(grant, principal, args, at) ==
    [grant |-> grant, at |-> at, principal |-> principal, tool |-> t1, source |-> s1,
     args |-> args]

SomeRequests ==
    {Present(Narrow, p1, a1, 2), Present(Narrow, p1, a1, 3), Present(Narrow, p1, a2, 2),
     Present(Widened, p1, a2, 2), Present(Cropped, p1, a1, 2),
     Present(Endless, p1, a1, 2), Present(Endless, p2, a1, 2)}

List(issued_at, revoked) ==
    [shape |-> [scheme |-> TRUE, format |-> TRUE, fields |-> TRUE], issuer |-> k1,
     signed |-> TRUE, issued_at |-> issued_at, revoked |-> revoked]

SomeConfigs ==
    {[root |-> k1, list |-> None], [root |-> k1, list |-> List(2, {g1})],
     [root |-> k2, list |-> None], [root |-> None, list |-> None]}

-----------------------------------------------------------------------------
(* Everything small to verify *)

\* What a bound of the window may be instead of an instant.
Unset == {None, Absent, Garbled}

SaneList == [scheme |-> TRUE, format |-> TRUE, fields |-> TRUE]

\* The documents whose structure is right, and one for each way it may be wrong.
SmallGrants ==
    LET sound == [id : {g1}, shape : {Sane}, issuer : {k1, k2}, signed : BOOLEAN,
                  issued_at : {0, 1, 2, Garbled}, not_before : {0, 1} \union Unset,
                  not_after : {1, 2} \union Unset]
        one == CHOOSE grant \in sound : grant.signed
    IN  sound \union {[one EXCEPT !.shape[check] = FALSE] : check \in DOMAIN Sane}

SmallLists ==
    LET sound == [shape : {SaneList}, issuer : {k1, k2}, signed : BOOLEAN,
                  issued_at : {0, 1, 2, Garbled}, revoked : SUBSET {g1}]
    IN  {None} \union sound
          \union {[doc EXCEPT !.shape[check] = FALSE] : doc \in sound, check \in DOMAIN SaneList}
          \union {[doc EXCEPT !.shape.scheme = Absent] : doc \in sound}

\* verify_grant (govgrants.py) reports no failure exactly for the grants that are
\* acceptable: authentic under the configured root, inside their half-open window at the
\* given instant, and not revoked in the sense of ADR-052.  It depends on its arguments
\* alone, so one state of the service, before the first call, is enough to ask it.
VerdictIsRight ==
    calls = 0 /\ crashes = 0 /\ config = [root |-> None, list |-> None] =>
        \A grant \in SmallGrants, root \in {k1, None, NotEd25519, NotPem},
           at \in {0, 1, 2, Garbled}, list \in SmallLists :
              VerifyGrant(grant, root, at, list) = <<>> <=> Acceptable(grant, root, at, list)
=============================================================================
