----------------------------- MODULE GovGrants -----------------------------
(***************************************************************************)
(* The offline verifier of Connect-Governance execution grants             *)
(* (govgrants.py), and what it is meant to decide.                         *)
(*                                                                         *)
(* A document is abstracted to what the verifier tells apart.  shape says  *)
(* which of the structural checks it passes; signed, whether its signature *)
(* is the issuer's over this very payload.  A timestamp is a number, or    *)
(* Garbled when it does not parse, None when it is null, Absent when the   *)
(* key is missing.                                                         *)
(***************************************************************************)
EXTENDS Naturals, Sequences

CONSTANTS None, Absent, Garbled,
          NotEd25519, NotPem    \* trust roots that are not a usable key

\* What stands for a missing or unreadable value is told from the values, and from each other.
ASSUME MarkersAssumption ==
    /\ {None, Absent, Garbled} \intersect (Nat \union BOOLEAN) = {}
    /\ None # Absent /\ None # Garbled /\ Absent # Garbled

\* The documents, as far as the verifier looks at them.
GrantDocument(grant) ==
    /\ grant.shape \in [envelope : BOOLEAN, scheme : BOOLEAN, format : BOOLEAN, fields : BOOLEAN]
    /\ grant.signed \in BOOLEAN
    /\ grant.issued_at \in Nat \union {Garbled}
    /\ grant.not_before \in Nat \union {None, Absent, Garbled}
    /\ grant.not_after \in Nat \union {None, Absent, Garbled}

ListDocument(list) ==
    /\ list.shape \in [scheme : BOOLEAN \union {Absent}, format : BOOLEAN, fields : BOOLEAN]
    /\ list.signed \in BOOLEAN
    /\ list.issued_at \in Nat \union {Garbled}

Usable(root) == root \notin {None, NotEd25519, NotPem}

When(condition, code) == IF condition THEN <<code>> ELSE <<>>

-----------------------------------------------------------------------------
(* Structure and signature *)

\* _structural_failures.  envelope: payload, scheme and signature are there; fields: every
\* required field is, and no field has the wrong type.
StructuralFailures(shape) ==
    IF ~shape.envelope THEN <<"malformed_grant">>
    ELSE When(~shape.scheme, "unsupported_scheme")
           \o (IF ~shape.format THEN <<"unsupported_format", "malformed_grant">>
               ELSE When(~shape.fields, "malformed_grant"))

\* Loading the root, comparing its id with the issuer's, and the signature check.
KeyFailures(doc, root) ==
    IF root \in {None, NotEd25519} THEN <<"missing_trust_root">>
    ELSE IF root = NotPem THEN <<"signature_mismatch">>
    ELSE IF doc.issuer # root THEN <<"unknown_issuer">>
    ELSE When(~doc.signed, "signature_mismatch")

-----------------------------------------------------------------------------
(* Validity window *)

Ended(at, not_after) == at >= not_after

\* payload["not_before"] and payload["not_after"] of keys that may be missing.
WindowFailures(grant, at) ==
    LET late == CASE grant.not_after = Absent  -> <<"KeyError">>
                  [] grant.not_after = Garbled -> <<"malformed_grant">>
                  [] grant.not_after = None    -> <<>>
                  [] OTHER                     -> When(Ended(at, grant.not_after), "expired")
    IN  IF at = Garbled THEN <<"malformed_grant">>
        ELSE CASE grant.not_before = Absent  -> <<"KeyError">>
               [] grant.not_before = Garbled -> <<"malformed_grant">>
               [] grant.not_before = None    -> late
               [] OTHER -> When(at < grant.not_before, "not_yet_valid") \o late

-----------------------------------------------------------------------------
(* Revocation list *)

\* _revocation_list_structural and verify_revocation_list: a list with a structural failure
\* is looked at no further.  A missing issued_at is Garbled; a missing scheme, Absent.
RevocationListFailures(list, root, at) ==
    LET shape == When(list.shape.scheme = Absent, "malformed_revocation_list")
                   \o When(list.shape.scheme = FALSE, "unsupported_scheme")
                   \o (IF ~list.shape.format
                       THEN <<"unsupported_format", "malformed_revocation_list">>
                       ELSE When(~list.shape.fields, "malformed_revocation_list"))
        structural == IF shape = <<>> /\ list.issued_at = Garbled
                      THEN <<"malformed_revocation_list">> ELSE shape
    IN  IF structural # <<>> THEN structural
        ELSE (IF at = Garbled THEN <<"malformed_revocation_list">>
              ELSE When(at < list.issued_at, "not_yet_valid")) \o KeyFailures(list, root)

\* Mutant: a window that ends when the list is issued is covered by it.
Overlaps_Closed(grant, issued_at) ==
    grant.not_after \in {None, Absent, Garbled} \/ grant.not_after >= issued_at

\* _window_overlaps_list_coverage
Overlaps(grant, issued_at) ==
    grant.not_after \in {None, Absent, Garbled} \/ grant.not_after > issued_at

\* The list is used when it verifies, and its failures count unless the grant's window
\* closed before the list existed.
RevocationFailures(grant, root, at, list) ==
    IF list = None THEN <<>>
    ELSE LET failures == RevocationListFailures(list, root, at)
         IN  IF failures # <<>>
             THEN IF list.issued_at = Garbled \/ Overlaps(grant, list.issued_at) THEN failures
                  ELSE <<>>
             ELSE When(grant.id \in list.revoked, "revoked")
                    \o When(/\ Overlaps(grant, list.issued_at)
                            /\ grant.issued_at = Garbled \/ grant.issued_at > list.issued_at,
                            "stale_revocation_list")

\* verify_grant: the failure codes, in check order; the grant is valid when there is none.
VerifyGrant(grant, root, at, list) ==
    LET structural == StructuralFailures(grant.shape)
    IN  IF structural # <<>> THEN structural
        ELSE IF root = None THEN <<"missing_trust_root">>
        ELSE KeyFailures(grant, root) \o WindowFailures(grant, at)
               \o RevocationFailures(grant, root, at, list)

\* payload["not_before"] on a grant without the key ends in an exception, not in a result.
Raises(codes) == \E i \in DOMAIN codes : codes[i] = "KeyError"

-----------------------------------------------------------------------------
(* Scope *)

\* Mutant: constraints beyond the tool are not compared.
ScopeFailures_ToolOnly(grant, request) ==
    When(~grant.provider, "provider_mismatch")
      \o When(~grant.invoke, "operation_not_permitted")
      \o When(grant.principal # request.principal, "principal_mismatch")
      \o When(grant.tool # request.tool, "scope_mismatch")

\* scope_failures.  provider and invoke say whether the grant names this provider and
\* permits tool.invoke; admits, which arguments meet its other constraints.
ScopeFailures(grant, request) ==
    When(~grant.provider, "provider_mismatch")
      \o When(~grant.invoke, "operation_not_permitted")
      \o When(grant.principal # request.principal, "principal_mismatch")
      \o (IF grant.tool # request.tool \/ grant.source \notin {Absent, request.source}
          THEN <<"scope_mismatch">>
          ELSE When(request.args \notin grant.admits, "args_mismatch"))

-----------------------------------------------------------------------------
(* What it is meant to decide *)

Sound(shape) == \A check \in DOMAIN shape : shape[check] = TRUE

Authentic(doc, root) == Sound(doc.shape) /\ Usable(root) /\ doc.issuer = root /\ doc.signed

\* Half-open, and open on a side that is null.
InWindow(grant, at) ==
    /\ at # Garbled
    /\ {grant.not_before, grant.not_after} \intersect {Absent, Garbled} = {}
    /\ grant.not_before # None => at >= grant.not_before
    /\ grant.not_after # None => at < grant.not_after

\* ADR-052: the list in force does not name the grant and is no older than the grant; a
\* grant whose window closed before the list existed is not its business, unless a list
\* in force names it.
NotRevoked(grant, root, at, list) ==
    LET inForce == Authentic(list, root) /\ list.issued_at # Garbled /\ at >= list.issued_at
        outside == /\ list.issued_at # Garbled
                   /\ grant.not_after # None /\ grant.not_after <= list.issued_at
    IN  list # None =>
          IF inForce THEN /\ grant.id \notin list.revoked
                          /\ outside \/ (grant.issued_at # Garbled
                                          /\ grant.issued_at <= list.issued_at)
          ELSE outside

Acceptable(grant, root, at, list) ==
    /\ Authentic(grant, root)
    /\ InWindow(grant, at)
    /\ NotRevoked(grant, root, at, list)

InScope(grant, request) ==
    /\ grant.provider /\ grant.invoke
    /\ grant.principal = request.principal
    /\ grant.tool = request.tool
    /\ grant.source = Absent \/ grant.source = request.source
    /\ request.args \in grant.admits
=============================================================================
