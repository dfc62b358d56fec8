------------------------ MODULE GovRedemptionProofs ------------------------
(***************************************************************************)
(* What govgrants.py decides, for every document, and what                 *)
(* redeem_governance_grant does with it, for any number of threads, calls, *)
(* faults and restarts.                                                    *)
(***************************************************************************)
EXTENDS GovRedemption, FiniteSetTheorems, TLAPS

-----------------------------------------------------------------------------
(* The verifier *)

Codes == {"malformed_grant", "unsupported_scheme", "unsupported_format", "missing_trust_root",
          "signature_mismatch", "unknown_issuer", "KeyError", "expired", "not_yet_valid",
          "malformed_revocation_list", "revoked", "stale_revocation_list",
          "provider_mismatch", "operation_not_permitted", "principal_mismatch",
          "scope_mismatch", "args_mismatch"}

LEMMA CodeFacts ==
    /\ <<>> \in Seq(Codes)
    /\ \A code \in Codes : <<code>> \in Seq(Codes) /\ <<code>> # <<>>
    /\ \A c, d \in Codes : <<c, d>> \in Seq(Codes) /\ <<c, d>> # <<>>
OBVIOUS

LEMMA ConcatFacts ==
    ASSUME NEW s \in Seq(Codes), NEW t \in Seq(Codes)
    PROVE  s \o t \in Seq(Codes) /\ (s \o t = <<>> <=> s = <<>> /\ t = <<>>)
<1>1. s \o t \in Seq(Codes) /\ Len(s \o t) = Len(s) + Len(t) /\ Len(s) \in Nat /\ Len(t) \in Nat
  OBVIOUS
<1>2. \A q \in Seq(Codes) : q = <<>> <=> Len(q) = 0
  OBVIOUS
<1>3. QED BY <1>1, <1>2

LEMMA StructureIsSound ==
    ASSUME NEW shape \in [envelope : BOOLEAN, scheme : BOOLEAN, format : BOOLEAN, fields : BOOLEAN]
    PROVE  /\ StructuralFailures(shape) \in Seq(Codes)
           /\ StructuralFailures(shape) = <<>> <=> Sound(shape)
<1> DEFINE rest == IF ~shape.format THEN <<"unsupported_format", "malformed_grant">>
                   ELSE When(~shape.fields, "malformed_grant")
           scheme == When(~shape.scheme, "unsupported_scheme")
<1>1. /\ shape.envelope \in BOOLEAN /\ shape.scheme \in BOOLEAN /\ shape.format \in BOOLEAN
      /\ shape.fields \in BOOLEAN
  OBVIOUS
<1>2. rest \in Seq(Codes) /\ (rest = <<>> <=> shape.format /\ shape.fields)
  <2>1. "unsupported_format" \in Codes /\ "malformed_grant" \in Codes
    BY DEF Codes
  <2>2. CASE ~shape.format
    BY <2>1, <2>2, CodeFacts
  <2>3. CASE shape.format /\ ~shape.fields
    BY <2>1, <2>3, CodeFacts DEF When
  <2>4. CASE shape.format /\ shape.fields
    BY <2>4, CodeFacts DEF When
  <2>5. QED BY <2>2, <2>3, <2>4
<1>3. scheme \in Seq(Codes) /\ (scheme = <<>> <=> shape.scheme)
  <2>1. "unsupported_scheme" \in Codes
    BY DEF Codes
  <2>2. CASE ~shape.scheme
    BY <2>1, <2>2, CodeFacts DEF When
  <2>3. CASE shape.scheme
    BY <2>3, CodeFacts DEF When
  <2>4. QED BY <2>2, <2>3
<1>4. <<"malformed_grant">> \in Seq(Codes) /\ <<"malformed_grant">> # <<>>
  BY DEF Codes
<1> HIDE DEF rest, scheme
<1>5. scheme \o rest \in Seq(Codes) /\ (scheme \o rest = <<>> <=> scheme = <<>> /\ rest = <<>>)
  BY <1>2, <1>3, ConcatFacts
<1>6. StructuralFailures(shape) = IF ~shape.envelope THEN <<"malformed_grant">> ELSE scheme \o rest
  BY DEF StructuralFailures, scheme, rest
<1>7. Sound(shape) <=> shape.envelope /\ shape.scheme /\ shape.format /\ shape.fields
  <2>1. DOMAIN shape = {"envelope", "scheme", "format", "fields"}
    OBVIOUS
  <2>2. QED BY <1>1, <2>1 DEF Sound
<1>8. QED BY <1>2, <1>3, <1>4, <1>5, <1>6, <1>7

LEMMA KeyIsRight ==
    ASSUME NEW doc, doc.signed \in BOOLEAN, NEW root
    PROVE  /\ KeyFailures(doc, root) \in Seq(Codes)
           /\ KeyFailures(doc, root) = <<>> <=> Usable(root) /\ doc.issuer = root /\ doc.signed
<1>1. {"missing_trust_root", "signature_mismatch", "unknown_issuer"} \subseteq Codes
  BY DEF Codes
<1>2. CASE ~(Usable(root) /\ doc.issuer = root)
  BY <1>1, <1>2, CodeFacts DEF KeyFailures, Usable
<1>3. CASE Usable(root) /\ doc.issuer = root /\ ~doc.signed
  BY <1>1, <1>3, CodeFacts DEF KeyFailures, Usable, When
<1>4. CASE Usable(root) /\ doc.issuer = root /\ doc.signed
  BY <1>4, CodeFacts DEF KeyFailures, Usable, When
<1>5. QED BY <1>2, <1>3, <1>4

\* The end of the window, as WindowFailures looks at it.
Late(grant, at) ==
    CASE grant.not_after = Absent  -> <<"KeyError">>
      [] grant.not_after = Garbled -> <<"malformed_grant">>
      [] grant.not_after = None    -> <<>>
      [] OTHER                     -> When(Ended(at, grant.not_after), "expired")

LEMMA LateFacts ==
    ASSUME NEW grant, GrantDocument(grant), NEW at \in Nat
    PROVE  /\ Late(grant, at) \in Seq(Codes)
           /\ Late(grant, at) = <<>> <=>
                 grant.not_after = None \/ (grant.not_after \in Nat /\ at < grant.not_after)
<1>0. {"KeyError", "malformed_grant", "expired"} \subseteq Codes
  BY DEF Codes
<1>1. CASE grant.not_after = Absent
  BY <1>0, <1>1, CodeFacts, MarkersAssumption DEF Late
<1>2. CASE grant.not_after = Garbled
  BY <1>0, <1>2, CodeFacts, MarkersAssumption DEF Late
<1>3. CASE grant.not_after = None
  BY <1>3, CodeFacts, MarkersAssumption DEF Late
<1>4. CASE grant.not_after \in Nat
  <2>1. Late(grant, at) = When(Ended(at, grant.not_after), "expired")
    BY <1>4, MarkersAssumption DEF Late
  <2>2. CASE at < grant.not_after
    BY <1>4, <2>1, <2>2, CodeFacts DEF When, Ended
  <2>3. CASE ~(at < grant.not_after)
    BY <1>0, <1>4, <2>1, <2>3, CodeFacts, MarkersAssumption DEF When, Ended
  <2>4. QED BY <2>2, <2>3
<1>5. QED BY <1>1, <1>2, <1>3, <1>4 DEF GrantDocument

LEMMA WindowIsRight ==
    ASSUME NEW grant, GrantDocument(grant), NEW at \in Nat \union {Garbled}
    PROVE  /\ WindowFailures(grant, at) \in Seq(Codes)
           /\ WindowFailures(grant, at) = <<>> <=> InWindow(grant, at)
<1>0. {"KeyError", "malformed_grant", "not_yet_valid"} \subseteq Codes
  BY DEF Codes
<1>1. CASE at = Garbled
  BY <1>0, <1>1, CodeFacts DEF WindowFailures, InWindow
<1>2. CASE at \in Nat
  <2>1. at # Garbled
    BY <1>2, MarkersAssumption
  <2>2. /\ Late(grant, at) \in Seq(Codes)
        /\ Late(grant, at) = <<>> <=>
              grant.not_after = None \/ (grant.not_after \in Nat /\ at < grant.not_after)
    BY <1>2, LateFacts
  <2>3. WindowFailures(grant, at) =
           CASE grant.not_before = Absent  -> <<"KeyError">>
             [] grant.not_before = Garbled -> <<"malformed_grant">>
             [] grant.not_before = None    -> Late(grant, at)
             [] OTHER -> When(at < grant.not_before, "not_yet_valid") \o Late(grant, at)
    BY <2>1 DEF WindowFailures, Late
  <2>4. InWindow(grant, at) <=>
           /\ grant.not_before = None \/ (grant.not_before \in Nat /\ at >= grant.not_before)
           /\ grant.not_after = None \/ (grant.not_after \in Nat /\ at < grant.not_after)
    BY <2>1, MarkersAssumption DEF InWindow, GrantDocument
  <2>5. CASE grant.not_before \in {Absent, Garbled}
    BY <1>0, <2>3, <2>4, <2>5, CodeFacts, MarkersAssumption
  <2>6. CASE grant.not_before = None
    BY <2>2, <2>3, <2>4, <2>6, MarkersAssumption
  <2>7. CASE grant.not_before \in Nat
    <3> DEFINE early == When(at < grant.not_before, "not_yet_valid")
    <3>1. early \in Seq(Codes) /\ (early = <<>> <=> ~(at < grant.not_before))
      BY <1>0, CodeFacts DEF When
    <3>2. WindowFailures(grant, at) = early \o Late(grant, at)
      BY <2>3, <2>7, MarkersAssumption
    <3> HIDE DEF early
    <3>3. /\ early \o Late(grant, at) \in Seq(Codes)
          /\ early \o Late(grant, at) = <<>> <=> early = <<>> /\ Late(grant, at) = <<>>
      BY <2>2, <3>1, ConcatFacts
    <3>4. grant.not_before # None /\ (at >= grant.not_before <=> ~(at < grant.not_before))
      BY <1>2, <2>7, MarkersAssumption
    <3>5. QED BY <2>2, <2>4, <2>7, <3>1, <3>2, <3>3, <3>4
  <2>8. QED BY <2>5, <2>6, <2>7 DEF GrantDocument
<1>3. QED BY <1>1, <1>2

\* The structure of a revocation list, as RevocationListFailures looks at it.
ListShape(list) ==
    When(list.shape.scheme = Absent, "malformed_revocation_list")
      \o When(list.shape.scheme = FALSE, "unsupported_scheme")
      \o (IF ~list.shape.format
          THEN <<"unsupported_format", "malformed_revocation_list">>
          ELSE When(~list.shape.fields, "malformed_revocation_list"))

LEMMA ListShapeFacts ==
    ASSUME NEW list, ListDocument(list)
    PROVE  /\ ListShape(list) \in Seq(Codes)
           /\ ListShape(list) = <<>> <=> Sound(list.shape)
<1> DEFINE shape == list.shape
           a == When(shape.scheme = Absent, "malformed_revocation_list")
           b == When(shape.scheme = FALSE, "unsupported_scheme")
           c == IF ~shape.format THEN <<"unsupported_format", "malformed_revocation_list">>
                ELSE When(~shape.fields, "malformed_revocation_list")
<1>0. {"malformed_revocation_list", "unsupported_scheme", "unsupported_format"} \subseteq Codes
  BY DEF Codes
<1>1. /\ shape \in [scheme : BOOLEAN \union {Absent}, format : BOOLEAN, fields : BOOLEAN]
      /\ shape.scheme \in BOOLEAN \union {Absent} /\ shape.format \in BOOLEAN
      /\ shape.fields \in BOOLEAN
  BY DEF ListDocument
<1>2. a \in Seq(Codes) /\ (a = <<>> <=> shape.scheme # Absent)
  BY <1>0, CodeFacts DEF When
<1>3. b \in Seq(Codes) /\ (b = <<>> <=> shape.scheme # FALSE)
  BY <1>0, CodeFacts DEF When
<1>4. c \in Seq(Codes) /\ (c = <<>> <=> shape.format /\ shape.fields)
  <2>1. CASE ~shape.format
    BY <1>0, <2>1, CodeFacts
  <2>2. CASE shape.format /\ ~shape.fields
    BY <1>0, <2>2, CodeFacts DEF When
  <2>3. CASE shape.format /\ shape.fields
    BY <2>3, CodeFacts DEF When
  <2>4. QED BY <2>1, <2>2, <2>3
<1>5. ListShape(list) = a \o b \o c
  BY DEF ListShape
<1>6. Sound(shape) <=> shape.scheme = TRUE /\ shape.format /\ shape.fields
  <2>1. DOMAIN shape = {"scheme", "format", "fields"}
    BY <1>1
  <2>2. QED BY <1>1, <2>1 DEF Sound
<1>7. shape.scheme = TRUE <=> shape.scheme # Absent /\ shape.scheme # FALSE
  BY <1>1, MarkersAssumption
<1> HIDE DEF a, b, c
<1>8. a \o b \in Seq(Codes) /\ (a \o b = <<>> <=> a = <<>> /\ b = <<>>)
  BY <1>2, <1>3, ConcatFacts
<1>9. a \o b \o c \in Seq(Codes) /\ (a \o b \o c = <<>> <=> a \o b = <<>> /\ c = <<>>)
  BY <1>4, <1>8, ConcatFacts
<1>10. QED BY <1>2, <1>3, <1>4, <1>5, <1>6, <1>7, <1>8, <1>9

InForce(list, root, at) ==
    Authentic(list, root) /\ list.issued_at # Garbled /\ at >= list.issued_at

LEMMA ListIsInForce ==
    ASSUME NEW list, ListDocument(list), NEW root, NEW at \in Nat \union {Garbled}
    PROVE  /\ RevocationListFailures(list, root, at) \in Seq(Codes)
           /\ at \in Nat => (RevocationListFailures(list, root, at) = <<>> <=> InForce(list, root, at))
<1> DEFINE structural == IF ListShape(list) = <<>> /\ list.issued_at = Garbled
                         THEN <<"malformed_revocation_list">> ELSE ListShape(list)
           early == IF at = Garbled THEN <<"malformed_revocation_list">>
                    ELSE When(at < list.issued_at, "not_yet_valid")
<1>0. {"malformed_revocation_list", "not_yet_valid"} \subseteq Codes
  BY DEF Codes
<1>1. /\ structural \in Seq(Codes)
      /\ structural = <<>> <=> Sound(list.shape) /\ list.issued_at # Garbled
  BY <1>0, CodeFacts, ListShapeFacts
<1>2. early \in Seq(Codes) /\ (at \in Nat => (early = <<>> <=> ~(at < list.issued_at)))
  BY <1>0, CodeFacts, MarkersAssumption DEF When
<1>3. /\ KeyFailures(list, root) \in Seq(Codes)
      /\ KeyFailures(list, root) = <<>> <=> Usable(root) /\ list.issuer = root /\ list.signed
  BY KeyIsRight DEF ListDocument
<1>4. RevocationListFailures(list, root, at) =
         IF structural # <<>> THEN structural ELSE early \o KeyFailures(list, root)
  BY DEF RevocationListFailures, ListShape
<1>5. list.issued_at # Garbled => list.issued_at \in Nat
  BY DEF ListDocument
<1> HIDE DEF structural, early
<1>6. /\ early \o KeyFailures(list, root) \in Seq(Codes)
      /\ early \o KeyFailures(list, root) = <<>> <=> early = <<>> /\ KeyFailures(list, root) = <<>>
  BY <1>2, <1>3, ConcatFacts
<1>7. ASSUME at \in Nat, list.issued_at \in Nat
      PROVE  at >= list.issued_at <=> ~(at < list.issued_at)
  BY <1>7
<1>8. QED BY <1>1, <1>2, <1>3, <1>4, <1>5, <1>6, <1>7 DEF InForce, Authentic

LEMMA RevocationIsRight ==
    ASSUME NEW grant, GrantDocument(grant), NEW root, NEW at \in Nat \union {Garbled},
           NEW list, list # None => ListDocument(list)
    PROVE  /\ RevocationFailures(grant, root, at, list) \in Seq(Codes)
           /\ InWindow(grant, at) =>
                 (RevocationFailures(grant, root, at, list) = <<>> <=>
                     NotRevoked(grant, root, at, list))
<1> DEFINE failures == RevocationListFailures(list, root, at)
           named == When(grant.id \in list.revoked, "revoked")
           old == When(/\ Overlaps(grant, list.issued_at)
                       /\ grant.issued_at = Garbled \/ grant.issued_at > list.issued_at,
                       "stale_revocation_list")
<1>0. {"revoked", "stale_revocation_list"} \subseteq Codes
  BY DEF Codes
<1>1. CASE list = None
  BY <1>1, CodeFacts DEF RevocationFailures, NotRevoked
<1>2. CASE list # None
  <2>1. ListDocument(list) /\ failures \in Seq(Codes)
        /\ (at \in Nat => (failures = <<>> <=> InForce(list, root, at)))
    BY <1>2, ListIsInForce
  <2>2. named \in Seq(Codes) /\ (named = <<>> <=> grant.id \notin list.revoked)
    BY <1>0, CodeFacts DEF When
  <2>3. /\ old \in Seq(Codes)
        /\ old = <<>> <=> ~(/\ Overlaps(grant, list.issued_at)
                            /\ grant.issued_at = Garbled \/ grant.issued_at > list.issued_at)
    BY <1>0, CodeFacts DEF When
  <2>4. RevocationFailures(grant, root, at, list) =
           IF failures # <<>>
           THEN IF list.issued_at = Garbled \/ Overlaps(grant, list.issued_at) THEN failures ELSE <<>>
           ELSE named \o old
    BY <1>2 DEF RevocationFailures
  <2>5. named \o old \in Seq(Codes) /\ (named \o old = <<>> <=> named = <<>> /\ old = <<>>)
    <3> HIDE DEF named, old
    <3>1. QED BY <2>2, <2>3, ConcatFacts
  <2>6. RevocationFailures(grant, root, at, list) \in Seq(Codes)
    <3> HIDE DEF failures, named, old
    <3>1. QED BY <2>1, <2>4, <2>5, CodeFacts
  <2>7. ASSUME InWindow(grant, at)
        PROVE  RevocationFailures(grant, root, at, list) = <<>> <=>
                  NotRevoked(grant, root, at, list)
    <3>1. at \in Nat /\ grant.not_after \in Nat \union {None}
      BY <2>7 DEF InWindow, GrantDocument
    <3> DEFINE outside == /\ list.issued_at # Garbled
                          /\ grant.not_after # None /\ grant.not_after <= list.issued_at
    <3>2. /\ grant.issued_at \in Nat \union {Garbled} /\ list.issued_at \in Nat \union {Garbled}
      BY <2>1 DEF GrantDocument, ListDocument
    <3>3. outside <=> ~(list.issued_at = Garbled \/ Overlaps(grant, list.issued_at))
      BY <3>1, <3>2, MarkersAssumption DEF Overlaps
    <3>4. NotRevoked(grant, root, at, list) <=>
             IF InForce(list, root, at)
             THEN /\ grant.id \notin list.revoked
                  /\ outside \/ (grant.issued_at # Garbled /\ grant.issued_at <= list.issued_at)
             ELSE outside
      BY <1>2 DEF NotRevoked, InForce
    <3>5. CASE InForce(list, root, at)
      <4>1. list.issued_at # Garbled
        BY <3>5 DEF InForce
      <4>2. old = <<>> <=>
               outside \/ (grant.issued_at # Garbled /\ grant.issued_at <= list.issued_at)
        <5>1. grant.issued_at \in Nat =>
                 (grant.issued_at <= list.issued_at <=> ~(grant.issued_at > list.issued_at))
          BY <3>2, <4>1
        <5>2. QED BY <2>3, <3>2, <3>3, <4>1, <5>1
      <4>3. failures = <<>>
        BY <2>1, <3>1, <3>5
      <4> HIDE DEF failures, named, old, outside
      <4>4. QED BY <2>2, <2>4, <2>5, <3>4, <3>5, <4>2, <4>3
    <3>6. CASE ~InForce(list, root, at)
      <4>1. failures # <<>>
        BY <2>1, <3>1, <3>6
      <4> HIDE DEF failures, named, old, outside
      <4>2. QED BY <2>4, <3>3, <3>4, <3>6, <4>1
    <3>7. QED BY <3>5, <3>6
  <2>8. QED BY <2>6, <2>7
<1>3. QED BY <1>1, <1>2

LEMMA VerifyCodes ==
    ASSUME NEW grant, GrantDocument(grant), NEW root, NEW at \in Nat \union {Garbled},
           NEW list, list # None => ListDocument(list)
    PROVE  /\ VerifyGrant(grant, root, at, list) \in Seq(Codes)
           /\ VerifyGrant(grant, root, at, list) = <<>> <=> Acceptable(grant, root, at, list)
<1> DEFINE s == StructuralFailures(grant.shape)
           k == KeyFailures(grant, root)
           w == WindowFailures(grant, at)
           r == RevocationFailures(grant, root, at, list)
<1>1. s \in Seq(Codes) /\ (s = <<>> <=> Sound(grant.shape))
  BY StructureIsSound DEF GrantDocument
<1>2. k \in Seq(Codes) /\ (k = <<>> <=> Usable(root) /\ grant.issuer = root /\ grant.signed)
  BY KeyIsRight DEF GrantDocument
<1>3. w \in Seq(Codes) /\ (w = <<>> <=> InWindow(grant, at))
  BY WindowIsRight
<1>4. r \in Seq(Codes) /\ (InWindow(grant, at) => (r = <<>> <=> NotRevoked(grant, root, at, list)))
  BY RevocationIsRight
<1>5. VerifyGrant(grant, root, at, list) =
         IF s # <<>> THEN s ELSE IF root = None THEN <<"missing_trust_root">> ELSE k \o w \o r
  BY DEF VerifyGrant
<1>6. <<"missing_trust_root">> \in Seq(Codes) /\ <<"missing_trust_root">> # <<>>
  BY CodeFacts DEF Codes
<1> HIDE DEF s, k, w, r
<1>7. k \o w \in Seq(Codes) /\ (k \o w = <<>> <=> k = <<>> /\ w = <<>>)
  BY <1>2, <1>3, ConcatFacts
<1>8. k \o w \o r \in Seq(Codes) /\ (k \o w \o r = <<>> <=> k \o w = <<>> /\ r = <<>>)
  BY <1>4, <1>7, ConcatFacts
<1>9. root = None => ~Usable(root)
  BY DEF Usable
<1>10. QED BY <1>1, <1>2, <1>3, <1>4, <1>5, <1>6, <1>7, <1>8, <1>9 DEF Acceptable, Authentic

\* verify_grant reports no failure for exactly the grants that are acceptable, for every
\* document, trust root, instant and revocation list: no check it makes is in the way of a
\* good grant, and no order of checks or early return lets a bad one through.
THEOREM VerdictIsExact ==
    ASSUME NEW grant, GrantDocument(grant), NEW root, NEW at \in Nat \union {Garbled},
           NEW list, list # None => ListDocument(list)
    PROVE  VerifyGrant(grant, root, at, list) = <<>> <=> Acceptable(grant, root, at, list)
BY VerifyCodes

LEMMA ScopeCodes ==
    ASSUME NEW grant, NEW request, grant.provider \in BOOLEAN, grant.invoke \in BOOLEAN
    PROVE  /\ ScopeFailures(grant, request) \in Seq(Codes)
           /\ ScopeFailures(grant, request) = <<>> <=> InScope(grant, request)
<1> DEFINE a == When(~grant.provider, "provider_mismatch")
           b == When(~grant.invoke, "operation_not_permitted")
           c == When(grant.principal # request.principal, "principal_mismatch")
           d == IF grant.tool # request.tool \/ grant.source \notin {Absent, request.source}
                THEN <<"scope_mismatch">>
                ELSE When(request.args \notin grant.admits, "args_mismatch")
<1>0. {"provider_mismatch", "operation_not_permitted", "principal_mismatch",
       "scope_mismatch", "args_mismatch"} \subseteq Codes
  BY DEF Codes
<1>1. a \in Seq(Codes) /\ (a = <<>> <=> grant.provider)
  <2>1. CASE grant.provider
    BY <2>1, CodeFacts DEF When
  <2>2. CASE ~grant.provider
    BY <1>0, <2>2, CodeFacts DEF When
  <2>3. QED BY <2>1, <2>2
<1>2. b \in Seq(Codes) /\ (b = <<>> <=> grant.invoke)
  <2>1. CASE grant.invoke
    BY <2>1, CodeFacts DEF When
  <2>2. CASE ~grant.invoke
    BY <1>0, <2>2, CodeFacts DEF When
  <2>3. QED BY <2>1, <2>2
<1>3. c \in Seq(Codes) /\ (c = <<>> <=> grant.principal = request.principal)
  BY <1>0, CodeFacts DEF When
<1>4. d \in Seq(Codes) /\ (d = <<>> <=> /\ grant.tool = request.tool
                                        /\ grant.source \in {Absent, request.source}
                                        /\ request.args \in grant.admits)
  BY <1>0, CodeFacts DEF When
<1>5. ScopeFailures(grant, request) = a \o b \o c \o d
  BY DEF ScopeFailures
<1> HIDE DEF a, b, c, d
<1>6. a \o b \in Seq(Codes) /\ (a \o b = <<>> <=> a = <<>> /\ b = <<>>)
  BY <1>1, <1>2, ConcatFacts
<1>7. a \o b \o c \in Seq(Codes) /\ (a \o b \o c = <<>> <=> a \o b = <<>> /\ c = <<>>)
  BY <1>3, <1>6, ConcatFacts
<1>8. a \o b \o c \o d \in Seq(Codes) /\ (a \o b \o c \o d = <<>> <=> a \o b \o c = <<>> /\ d = <<>>)
  BY <1>4, <1>7, ConcatFacts
<1>9. QED BY <1>1, <1>2, <1>3, <1>4, <1>5, <1>6, <1>7, <1>8 DEF InScope

-----------------------------------------------------------------------------
(* The inductive invariant *)

Verdicts == Codes \union {"none", "redeemed", "already_redeemed", "error"}
Locs == [request : Requests \union {None}, outcome : Verdicts]
Records == [id : Ids \union {None}, outcome : Verdicts]
Labels == {"idle", "verify", "deny", "claim", "audit", "commit", "reply"}

TypeOK ==
    /\ config \in Configs
    /\ rows \in [Ids -> Requests \union {None}] /\ viewRows \in [Ids -> Requests \union {None}]
    /\ records \in Seq(Records) /\ viewRecords \in Seq(Records) /\ answers \in Seq(Records)
    /\ storeLock \in Threads \union {None}
    /\ pc \in [Threads -> Labels] /\ loc \in [Threads -> Locs]

\* The configuration in force accepts the grant, and its scope the request.
Entitled(request) ==
    /\ Acceptable(request.grant, config.root, request.at, config.list)
    /\ InScope(request.grant, request)

\* What a thread has found out by the time it is where it is; a restart, which is when the
\* configuration changes, forgets it.
Found(t) ==
    /\ pc[t] # "idle" => loc[t].request \in Requests
    /\ pc[t] = "deny" => loc[t].outcome \in Codes \union {"already_redeemed"}
    /\ pc[t] \in {"claim", "audit", "commit"} => loc[t].outcome = "redeemed" /\ Entitled(loc[t].request)

\* The thread inside the claim's transaction holds the lock; what it has done so far is what
\* the connection sees beyond the committed rows.
ClaimInv ==
    /\ \A t \in Threads : pc[t] \in {"audit", "commit"} <=> storeLock = t
    /\ storeLock = None => viewRows = rows /\ viewRecords = records
    /\ \A t \in Threads : storeLock = t =>
          /\ rows[Id(t)] = None
          /\ viewRows = [rows EXCEPT ![Id(t)] = loc[t].request]
          /\ pc[t] = "audit" => viewRecords = records
          /\ pc[t] = "commit" => viewRecords = Append(records, Redeemed(Id(t)))

\* The threads that are about to give this answer.
Pending(entry) == {t \in Threads : pc[t] = "reply" /\ Record(t, loc[t].outcome) = entry}

\* Every answer given, and every answer about to be, has a record of its own.
RecordInv ==
    /\ \A g \in Ids : Count(records, Redeemed(g)) = IF rows[g] = None THEN 0 ELSE 1
    /\ \A entry \in Records : entry.outcome # "error" =>
          Count(answers, entry) + Cardinality(Pending(entry)) <= Count(records, entry)

Inv == TypeOK /\ (\A t \in Threads : Found(t)) /\ ClaimInv /\ RecordInv

-----------------------------------------------------------------------------
(* Counting *)

LEMMA CountAppend ==
    ASSUME NEW S, NEW log \in Seq(S), NEW entry, NEW e \in S
    PROVE  /\ Count(log, entry) \in Nat
           /\ Count(Append(log, e), entry) = Count(log, entry) + (IF e = entry THEN 1 ELSE 0)
<1> DEFINE A == {i \in DOMAIN log : log[i] = entry}
           B == {i \in DOMAIN Append(log, e) : Append(log, e)[i] = entry}
           n == Len(log) + 1
<1>1. /\ Len(log) \in Nat /\ DOMAIN log = 1..Len(log) /\ DOMAIN Append(log, e) = 1..n
      /\ Append(log, e)[n] = e /\ \A i \in 1..Len(log) : Append(log, e)[i] = log[i]
  OBVIOUS
<1>2. IsFiniteSet(A)
  <2>1. A \subseteq 1..Len(log) /\ IsFiniteSet(1..Len(log))
    BY <1>1, FS_Interval
  <2>2. QED BY <2>1, FS_Subset
<1>3. n \notin A
  BY <1>1
<1>4. e = entry => B = A \union {n}
  BY <1>1
<1>5. e # entry => B = A
  BY <1>1
<1> HIDE DEF A, B, n
<1>6. Cardinality(A) \in Nat /\ Cardinality(A \union {n}) = Cardinality(A) + 1
  BY <1>2, <1>3, FS_AddElement, FS_CardinalityType
<1>7. Count(log, entry) = Cardinality(A) /\ Count(Append(log, e), entry) = Cardinality(B)
  BY DEF Count, A, B
<1>8. CASE e = entry
  BY <1>4, <1>6, <1>7, <1>8
<1>9. CASE e # entry
  BY <1>5, <1>6, <1>7, <1>9
<1>10. QED BY <1>8, <1>9

LEMMA CountEmpty ==
    ASSUME NEW entry PROVE Count(<<>>, entry) = 0
<1>1. {i \in DOMAIN <<>> : <<>>[i] = entry} = {}
  OBVIOUS
<1>2. QED BY <1>1, FS_EmptySet DEF Count

-----------------------------------------------------------------------------
(* Threads *)

Elsewhere(t) == \A u \in Threads \ {t} : pc'[u] = pc[u] /\ loc'[u] = loc[u]

\* Where Become leaves a thread.
Moved(t, label, outcome) ==
    /\ pc' \in [Threads -> Labels] /\ loc' \in [Threads -> Locs] /\ Elsewhere(t)
    /\ pc'[t] = label /\ loc'[t].request = loc[t].request /\ loc'[t].outcome = outcome

LEMMA BecomeMoves ==
    ASSUME TypeOK, NEW t \in Threads, NEW label \in Labels, NEW outcome \in Verdicts,
           Become(t, label, outcome)
    PROVE  Moved(t, label, outcome)
<1>1. pc \in [Threads -> Labels] /\ loc \in [Threads -> Locs]
  BY DEF TypeOK
<1>2. pc' \in [Threads -> Labels] /\ pc'[t] = label
  BY <1>1 DEF Become
<1>3. /\ loc[t] \in Locs /\ loc' = [loc EXCEPT ![t] = [loc[t] EXCEPT !.outcome = outcome]]
  BY <1>1 DEF Become
<1>4. [loc[t] EXCEPT !.outcome = outcome] \in Locs
  BY <1>3 DEF Locs
<1>5. loc' \in [Threads -> Locs] /\ loc'[t] = [loc[t] EXCEPT !.outcome = outcome]
  BY <1>1, <1>3, <1>4
<1>6. Elsewhere(t)
  BY <1>1, <1>3 DEF Elsewhere, Become
<1>7. QED BY <1>2, <1>3, <1>5, <1>6 DEF Moved, Locs

LEMMA RecordFacts ==
    ASSUME TypeOK, NEW t \in Threads, loc[t].request \in Requests, NEW outcome \in Verdicts
    PROVE  /\ Record(t, outcome) \in Records /\ Record(t, outcome).outcome = outcome
           /\ Id(t) \in Ids
           /\ Entitled(loc[t].request) => Record(t, outcome) = [id |-> Id(t), outcome |-> outcome]
<1>1. Id(t) \in Ids /\ GrantDocument(loc[t].request.grant)
  BY RequestsAssumption DEF Id
<1>2. Entitled(loc[t].request) => StructuralFailures(loc[t].request.grant.shape) = <<>>
  BY <1>1, StructureIsSound DEF Entitled, Acceptable, Authentic, GrantDocument
<1>3. QED BY <1>1, <1>2 DEF Record, Records

LEMMA PendingElsewhere ==
    ASSUME NEW t \in Threads, Elsewhere(t), NEW entry, NEW u \in Threads \ {t}
    PROVE  (u \in Pending(entry))' <=> u \in Pending(entry)
BY DEF Pending, Elsewhere, Record, Id

LEMMA PendingFinite ==
    ASSUME NEW entry
    PROVE  IsFiniteSet(Pending(entry)) /\ Cardinality(Pending(entry)) \in Nat
<1>1. Pending(entry) \subseteq Threads
  BY DEF Pending
<1>2. QED BY <1>1, ThreadsAssumption, FS_Subset, FS_CardinalityType

\* A thread that is not about to answer, and not going to, changes nothing.
LEMMA PendingKept ==
    ASSUME NEW t \in Threads, Elsewhere(t), NEW entry, t \notin Pending(entry),
           ~(t \in Pending(entry))'
    PROVE  Pending(entry)' = Pending(entry)
<1>1. Pending(entry) \subseteq Threads /\ Pending(entry)' \subseteq Threads
  BY DEF Pending
<1>2. QED BY <1>1, PendingElsewhere

LEMMA PendingGrows ==
    ASSUME NEW t \in Threads, Elsewhere(t), NEW entry, t \notin Pending(entry),
           (t \in Pending(entry))'
    PROVE  Cardinality(Pending(entry))' = Cardinality(Pending(entry)) + 1
<1>1. Pending(entry) \subseteq Threads /\ Pending(entry)' \subseteq Threads
  BY DEF Pending
<1>2. Pending(entry)' = Pending(entry) \union {t}
  BY <1>1, PendingElsewhere
<1>3. Cardinality(Pending(entry) \union {t}) = Cardinality(Pending(entry)) + 1
  BY PendingFinite, FS_AddElement
<1>4. QED BY <1>2, <1>3

LEMMA PendingShrinks ==
    ASSUME NEW t \in Threads, Elsewhere(t), NEW entry, t \in Pending(entry),
           ~(t \in Pending(entry))'
    PROVE  Cardinality(Pending(entry))' = Cardinality(Pending(entry)) - 1
<1>1. Pending(entry) \subseteq Threads /\ Pending(entry)' \subseteq Threads
  BY DEF Pending
<1>2. Pending(entry)' = Pending(entry) \ {t}
  BY <1>1, PendingElsewhere
<1>3. Cardinality(Pending(entry) \ {t}) = Cardinality(Pending(entry)) - 1
  BY PendingFinite, FS_RemoveElement
<1>4. QED BY <1>2, <1>3

-----------------------------------------------------------------------------
(* What a step of one thread leaves as it was *)

LEMMA FoundElsewhere ==
    ASSUME NEW t \in Threads, Elsewhere(t), config' = config, \A u \in Threads : Found(u),
           Found(t)'
    PROVE  \A u \in Threads : Found(u)'
BY DEF Found, Elsewhere, Entitled

\* Outside the transaction, nothing it is about changes.
LEMMA ClaimKept ==
    ASSUME TypeOK, ClaimInv, NEW t \in Threads, Elsewhere(t),
           UNCHANGED <<rows, records, viewRows, viewRecords, storeLock>>,
           pc[t] \notin {"audit", "commit"}, pc'[t] \notin {"audit", "commit"}
    PROVE  ClaimInv'
<1>1. storeLock # t
  BY DEF ClaimInv
<1>2. \A u \in Threads : pc'[u] \in {"audit", "commit"} <=> storeLock' = u
  BY <1>1 DEF ClaimInv, Elsewhere
<1>3. \A u \in Threads : storeLock' = u => u # t /\ pc'[u] = pc[u] /\ loc'[u] = loc[u]
  BY <1>1 DEF Elsewhere
<1>4. QED BY <1>2, <1>3 DEF ClaimInv, Id

\* No answer and no record: fewer threads may be about to answer, never more.
LEMMA RecordKept ==
    ASSUME TypeOK, RecordInv, UNCHANGED <<rows, records, answers>>,
           \A entry \in Records : entry.outcome # "error" => Pending(entry)' \subseteq Pending(entry)
    PROVE  RecordInv'
<1>1. SUFFICES ASSUME NEW entry \in Records, entry.outcome # "error"
               PROVE  Count(answers, entry) + Cardinality(Pending(entry))' <= Count(records, entry)
  BY DEF RecordInv
<1>2. Cardinality(Pending(entry)') <= Cardinality(Pending(entry))
      /\ Cardinality(Pending(entry)') \in Nat /\ Cardinality(Pending(entry)) \in Nat
  <2>1. Pending(entry)' \in SUBSET Pending(entry) /\ IsFiniteSet(Pending(entry))
    BY <1>1, PendingFinite
  <2>2. QED BY <2>1, FS_Subset, FS_CardinalityType
<1>3. Count(answers, entry) \in Nat /\ Count(records, entry) \in Nat
  BY CountAppend DEF TypeOK
<1>4. Count(answers, entry) + Cardinality(Pending(entry)) <= Count(records, entry)
  BY <1>1 DEF RecordInv
<1>5. Cardinality(Pending(entry))' = Cardinality(Pending(entry)')
  OBVIOUS
<1>6. QED BY <1>2, <1>3, <1>4, <1>5

\* A thread that was not about to answer and is not going to, or only with a 500.
LEMMA RecordMoved ==
    ASSUME TypeOK, RecordInv, UNCHANGED <<rows, records, answers>>, NEW t \in Threads, Elsewhere(t),
           pc[t] # "reply", pc'[t] = "reply" => loc'[t].outcome = "error"
    PROVE  RecordInv'
<1>1. ASSUME NEW entry \in Records, entry.outcome # "error"
      PROVE  Pending(entry)' = Pending(entry)
  <2>1. t \notin Pending(entry)
    BY DEF Pending
  <2>2. ~(t \in Pending(entry))'
    BY <1>1 DEF Pending, Record
  <2>3. QED BY <2>1, <2>2, PendingKept
<1>2. QED BY <1>1, RecordKept

\* The record and the answer it is for.
LEMMA RecordAdded ==
    ASSUME TypeOK, RecordInv, NEW t \in Threads, Elsewhere(t), answers' = answers,
           pc[t] # "reply", pc'[t] = "reply", NEW new \in Records, new.outcome # "error",
           Record(t, loc[t].outcome)' = new, records' = Append(records, new)
    PROVE  \A entry \in Records : entry.outcome # "error" =>
              (Count(answers, entry) + Cardinality(Pending(entry)) <= Count(records, entry))'
<1>1. SUFFICES ASSUME NEW entry \in Records, entry.outcome # "error"
               PROVE  Count(answers, entry) + Cardinality(Pending(entry))' <= Count(records', entry)
  BY DEF Count
<1>2. t \notin Pending(entry)
  BY DEF Pending
<1>3. /\ Count(records', entry) = Count(records, entry) + (IF new = entry THEN 1 ELSE 0)
      /\ Count(records, entry) \in Nat /\ Count(answers, entry) \in Nat
  <2>1. records \in Seq(Records) /\ answers \in Seq(Records)
    BY DEF TypeOK
  <2>2. /\ Count(Append(records, new), entry) =
              Count(records, entry) + (IF new = entry THEN 1 ELSE 0)
        /\ Count(records, entry) \in Nat /\ Count(answers, entry) \in Nat
    BY <2>1, CountAppend
  <2>3. QED BY <2>2
<1>4. Count(answers, entry) + Cardinality(Pending(entry)) <= Count(records, entry)
      /\ Cardinality(Pending(entry)) \in Nat
  BY <1>1, PendingFinite DEF RecordInv
<1>5. CASE new = entry
  <2>1. (t \in Pending(entry))'
    BY <1>5 DEF Pending
  <2>2. Cardinality(Pending(entry))' = Cardinality(Pending(entry)) + 1
    BY <1>2, <2>1, PendingGrows
  <2>3. QED BY <1>3, <1>4, <1>5, <2>2
<1>6. CASE new # entry
  <2>1. ~(t \in Pending(entry))'
    BY <1>6 DEF Pending
  <2>2. Pending(entry)' = Pending(entry)
    BY <1>2, <2>1, PendingKept
  <2>3. Cardinality(Pending(entry))' = Cardinality(Pending(entry))
    BY <2>2
  <2>4. QED BY <1>3, <1>4, <1>6, <2>3
<1>7. QED BY <1>5, <1>6

LEMMA RedeemedFacts ==
    ASSUME NEW g \in Ids PROVE Redeemed(g) \in Records /\ Redeemed(g).outcome = "redeemed"
BY DEF Redeemed, Records, Verdicts

-----------------------------------------------------------------------------
(* One lemma per action *)

LEMMA CallStep ==
    ASSUME Inv, NEW t \in Threads, NEW request \in Requests, Call(t, request)
    PROVE  Inv'
<1>0. /\ TypeOK /\ ClaimInv /\ RecordInv /\ \A u \in Threads : Found(u)
      /\ pc \in [Threads -> Labels] /\ loc \in [Threads -> Locs]
  BY DEF Inv, TypeOK
<1>1. /\ pc[t] = "idle" /\ pc' = [pc EXCEPT ![t] = "verify"]
      /\ UNCHANGED <<config, rows, records, viewRows, viewRecords, storeLock, answers>>
  BY DEF Call, view
<1>2. loc' = [loc EXCEPT ![t] = [loc[t] EXCEPT !.request = request]]
  BY <1>0 DEF Call
<1>3. [loc[t] EXCEPT !.request = request] \in Locs
  BY <1>0 DEF Locs
<1>4. loc' \in [Threads -> Locs] /\ loc'[t] = [loc[t] EXCEPT !.request = request] /\ Elsewhere(t)
  BY <1>0, <1>1, <1>2, <1>3 DEF Elsewhere
<1>5. loc'[t].request = request
  BY <1>0, <1>4 DEF Locs
<1>6. pc' \in [Threads -> Labels] /\ pc'[t] = "verify"
  BY <1>0, <1>1 DEF Labels
<1>7. TypeOK'
  BY <1>0, <1>1, <1>4, <1>6 DEF TypeOK
<1>8. \A u \in Threads : Found(u)'
  <2>1. Found(t)'
    BY <1>5, <1>6 DEF Found
  <2>2. QED BY <1>0, <1>1, <1>4, <2>1, FoundElsewhere
<1>9. ClaimInv'
  BY <1>0, <1>1, <1>4, <1>6, ClaimKept
<1>10. RecordInv'
  BY <1>0, <1>1, <1>4, <1>6, RecordMoved
<1>11. QED BY <1>7, <1>8, <1>9, <1>10 DEF Inv

LEMMA VerifyStep ==
    ASSUME Inv, NEW t \in Threads, Verify(t)
    PROVE  Inv'
<1> DEFINE request == loc[t].request
           codes == VerifyGrant(request.grant, config.root, request.at, config.list)
           scope == ScopeFailures(request.grant, request)
<1>0. TypeOK /\ ClaimInv /\ RecordInv /\ \A u \in Threads : Found(u)
  BY DEF Inv
<1>1. /\ pc[t] = "verify"
      /\ UNCHANGED <<config, rows, records, viewRows, viewRecords, storeLock, answers>>
  BY DEF Verify, view
<1>2. request \in Requests
  BY <1>0, <1>1 DEF Found
<1>3. /\ codes \in Seq(Codes)
      /\ codes = <<>> <=> Acceptable(request.grant, config.root, request.at, config.list)
  BY <1>0, <1>2, RequestsAssumption, ConfigsAssumption, VerifyCodes DEF TypeOK
<1>4. scope \in Seq(Codes) /\ (scope = <<>> <=> InScope(request.grant, request))
  BY <1>2, RequestsAssumption, ScopeCodes
<1>5. PICK label \in {"reply", "deny", "claim"}, outcome \in Verdicts :
         /\ Become(t, label, outcome)
         /\ label = "reply" => outcome = "error"
         /\ label = "deny" => outcome \in Codes
         /\ label = "claim" => outcome = "redeemed" /\ codes = <<>> /\ scope = <<>>
  <2>1. \A s \in Seq(Codes) : s # <<>> => s[1] \in Codes
    OBVIOUS
  <2>2. {"error", "redeemed"} \subseteq Verdicts /\ Codes \subseteq Verdicts
    BY DEF Verdicts
  <2>3. \/ Become(t, "reply", "error")
        \/ codes # <<>> /\ Become(t, "deny", codes[1])
        \/ scope # <<>> /\ Become(t, "deny", scope[1])
        \/ codes = <<>> /\ scope = <<>> /\ Become(t, "claim", "redeemed")
    BY DEF Verify
  <2> HIDE DEF codes, scope
  <2>4. QED BY <1>3, <1>4, <2>1, <2>2, <2>3
<1>6. Moved(t, label, outcome)
  BY <1>0, <1>5, BecomeMoves DEF Labels
<1>7. TypeOK'
  BY <1>0, <1>1, <1>6 DEF TypeOK, Moved
<1>8. \A u \in Threads : Found(u)'
  <2>1. Found(t)'
    BY <1>1, <1>2, <1>3, <1>4, <1>5, <1>6 DEF Found, Moved, Entitled
  <2>2. QED BY <1>0, <1>1, <1>6, <2>1, FoundElsewhere DEF Moved
<1>9. ClaimInv'
  BY <1>0, <1>1, <1>6, ClaimKept DEF Moved
<1>10. RecordInv'
  BY <1>0, <1>1, <1>5, <1>6, RecordMoved DEF Moved
<1>11. QED BY <1>7, <1>8, <1>9, <1>10 DEF Inv

LEMMA DenyStep ==
    ASSUME Inv, NEW t \in Threads, Deny(t)
    PROVE  Inv' /\ rows' = rows
<1>0. TypeOK /\ ClaimInv /\ RecordInv /\ \A u \in Threads : Found(u)
  BY DEF Inv
<1>1. /\ pc[t] = "deny" /\ storeLock = None /\ rows' = viewRows
      /\ viewRecords' = Append(viewRecords, Record(t, loc[t].outcome)) /\ records' = viewRecords'
      /\ Become(t, "reply", loc[t].outcome)
      /\ UNCHANGED <<config, viewRows, storeLock, answers>>
  BY DEF Deny
<1>2. viewRows = rows /\ viewRecords = records
  BY <1>0, <1>1 DEF ClaimInv
<1>3. PICK outcome \in Codes \union {"already_redeemed"} : outcome = loc[t].outcome
  BY <1>0, <1>1 DEF Found
<1>4. outcome \in Verdicts /\ outcome \notin {"error", "redeemed"}
  BY DEF Verdicts, Codes
<1>5. Moved(t, "reply", outcome)
  BY <1>0, <1>1, <1>3, <1>4, BecomeMoves DEF Labels
<1>6. loc[t].request \in Requests
  BY <1>0, <1>1 DEF Found
<1>7. PICK new \in Records : new = Record(t, outcome) /\ new.outcome = outcome
  BY <1>0, <1>4, <1>6, RecordFacts
<1>8. Record(t, loc[t].outcome)' = new
  BY <1>5, <1>7 DEF Moved, Record, Id
<1>9. records' = Append(records, new) /\ viewRecords' = records' /\ rows' = rows
  BY <1>1, <1>2, <1>3, <1>7
<1>10. TypeOK'
  BY <1>0, <1>1, <1>5, <1>9 DEF TypeOK, Moved
<1>11. \A u \in Threads : Found(u)'
  <2>1. Found(t)'
    BY <1>5, <1>6 DEF Found, Moved
  <2>2. QED BY <1>0, <1>1, <1>5, <2>1, FoundElsewhere DEF Moved
<1>12. ClaimInv'
  <2>1. \A u \in Threads : pc'[u] \notin {"audit", "commit"} /\ storeLock' # u
    BY <1>0, <1>1, <1>5, ThreadsAssumption DEF ClaimInv, Moved, Elsewhere
  <2>2. QED BY <1>1, <1>2, <1>9, <2>1 DEF ClaimInv
<1>13. RecordInv'
  <2>1. \A entry \in Records : entry.outcome # "error" =>
           (Count(answers, entry) + Cardinality(Pending(entry)) <= Count(records, entry))'
    BY <1>0, <1>1, <1>4, <1>5, <1>7, <1>8, <1>9, RecordAdded DEF Moved
  <2>2. ASSUME NEW g \in Ids PROVE Count(records', Redeemed(g)) = Count(records, Redeemed(g))
    <3>1. new # Redeemed(g)
      BY <1>4, <1>7, RedeemedFacts
    <3>2. records \in Seq(Records)
      BY <1>0 DEF TypeOK
    <3>3. /\ Count(Append(records, new), Redeemed(g)) = Count(records, Redeemed(g)) + 0
          /\ Count(records, Redeemed(g)) \in Nat
      BY <3>1, <3>2, CountAppend
    <3>4. QED BY <1>9, <3>3
  <2>3. QED BY <1>0, <1>9, <2>1, <2>2 DEF RecordInv
<1>14. QED BY <1>9, <1>10, <1>11, <1>12, <1>13 DEF Inv

LEMMA ClaimInsertStep ==
    ASSUME Inv, NEW t \in Threads, ClaimInsert(t)
    PROVE  Inv'
<1>0. TypeOK /\ ClaimInv /\ RecordInv /\ \A u \in Threads : Found(u)
  BY DEF Inv
<1>1. /\ pc[t] = "claim" /\ storeLock = None
      /\ UNCHANGED <<config, rows, records, viewRecords, answers>>
  BY DEF ClaimInsert
<1>2. viewRows = rows /\ viewRecords = records
  BY <1>0, <1>1 DEF ClaimInv
<1>3. loc[t].request \in Requests /\ Entitled(loc[t].request) /\ t # None
  BY <1>0, <1>1, ThreadsAssumption DEF Found
<1>4. Id(t) \in Ids
  BY <1>3, RequestsAssumption DEF Id
<1>5. \A u \in Threads : pc[u] \notin {"audit", "commit"}
  BY <1>0, <1>1, ThreadsAssumption DEF ClaimInv
<1>6. CASE viewRows[Id(t)] = None
  <2>1. /\ storeLock' = t /\ viewRows' = [viewRows EXCEPT ![Id(t)] = loc[t].request]
        /\ Become(t, "audit", "redeemed")
    BY <1>6 DEF ClaimInsert
  <2>2. Moved(t, "audit", "redeemed")
    BY <1>0, <2>1, BecomeMoves DEF Labels, Verdicts
  <2>3. viewRows' \in [Ids -> Requests \union {None}]
    BY <1>0, <1>3, <1>4, <2>1 DEF TypeOK
  <2>4. TypeOK'
    BY <1>0, <1>1, <2>1, <2>2, <2>3 DEF TypeOK, Moved
  <2>5. \A u \in Threads : Found(u)'
    <3>1. Found(t)'
      BY <1>1, <1>3, <2>2 DEF Found, Moved, Entitled
    <3>2. QED BY <1>0, <1>1, <2>2, <3>1, FoundElsewhere DEF Moved
  <2>6. ClaimInv'
    <3>1. \A u \in Threads : pc'[u] \in {"audit", "commit"} <=> u = t
      BY <1>5, <2>2 DEF Moved, Elsewhere
    <3>2. Id(t)' = Id(t)
      BY <2>2 DEF Moved, Id
    <3>3. /\ rows'[Id(t)'] = None
          /\ viewRows' = [rows' EXCEPT ![Id(t)'] = loc'[t].request]
          /\ viewRecords' = records' /\ pc'[t] = "audit"
      BY <1>1, <1>2, <1>6, <2>1, <2>2, <3>2 DEF Moved
    <3>4. QED BY <1>3, <2>1, <3>1, <3>3 DEF ClaimInv
  <2>7. RecordInv'
    BY <1>0, <1>1, <2>2, RecordMoved DEF Moved
  <2>8. QED BY <2>4, <2>5, <2>6, <2>7 DEF Inv
<1>7. CASE viewRows[Id(t)] # None
  <2>1. Become(t, "deny", "already_redeemed") /\ UNCHANGED <<storeLock, viewRows>>
    BY <1>7 DEF ClaimInsert
  <2>2. Moved(t, "deny", "already_redeemed")
    BY <1>0, <2>1, BecomeMoves DEF Labels, Verdicts
  <2>3. TypeOK'
    BY <1>0, <1>1, <2>1, <2>2 DEF TypeOK, Moved
  <2>4. \A u \in Threads : Found(u)'
    <3>1. Found(t)'
      BY <1>3, <2>2 DEF Found, Moved
    <3>2. QED BY <1>0, <1>1, <2>2, <3>1, FoundElsewhere DEF Moved
  <2>5. ClaimInv'
    BY <1>0, <1>1, <2>1, <2>2, ClaimKept DEF Moved
  <2>6. RecordInv'
    BY <1>0, <1>1, <2>2, RecordMoved DEF Moved
  <2>7. QED BY <2>3, <2>4, <2>5, <2>6 DEF Inv
<1>8. QED BY <1>6, <1>7

LEMMA ClaimAuditStep ==
    ASSUME Inv, NEW t \in Threads, ClaimAudit(t)
    PROVE  Inv'
<1>0. TypeOK /\ ClaimInv /\ RecordInv /\ \A u \in Threads : Found(u)
  BY DEF Inv
<1>1. /\ pc[t] = "audit" /\ viewRecords' = Append(viewRecords, Record(t, "redeemed"))
      /\ Become(t, "commit", "redeemed")
      /\ UNCHANGED <<config, rows, records, viewRows, storeLock, answers>>
  BY DEF ClaimAudit
<1>2. loc[t].request \in Requests /\ Entitled(loc[t].request)
  BY <1>0, <1>1 DEF Found
<1>3. Record(t, "redeemed") \in Records /\ Record(t, "redeemed") = Redeemed(Id(t))
  BY <1>0, <1>2, RecordFacts DEF Verdicts, Redeemed
<1>4. /\ storeLock = t /\ rows[Id(t)] = None /\ viewRecords = records
      /\ viewRows = [rows EXCEPT ![Id(t)] = loc[t].request]
  BY <1>0, <1>1 DEF ClaimInv
<1>5. Moved(t, "commit", "redeemed")
  BY <1>0, <1>1, BecomeMoves DEF Labels, Verdicts
<1>6. TypeOK'
  BY <1>0, <1>1, <1>3, <1>5 DEF TypeOK, Moved
<1>7. \A u \in Threads : Found(u)'
  <2>1. Found(t)'
    BY <1>1, <1>2, <1>5 DEF Found, Moved, Entitled
  <2>2. QED BY <1>0, <1>1, <1>5, <2>1, FoundElsewhere DEF Moved
<1>8. ClaimInv'
  <2>1. \A u \in Threads : pc'[u] \in {"audit", "commit"} <=> storeLock' = u
    BY <1>0, <1>1, <1>5 DEF ClaimInv, Moved, Elsewhere
  <2>2. Id(t)' = Id(t)
    BY <1>5 DEF Moved, Id
  <2>3. /\ rows'[Id(t)'] = None /\ pc'[t] = "commit"
        /\ viewRows' = [rows' EXCEPT ![Id(t)'] = loc'[t].request]
        /\ viewRecords' = Append(records', Redeemed(Id(t)'))
    BY <1>1, <1>3, <1>4, <1>5, <2>2 DEF Moved
  <2>4. storeLock' = t /\ t # None
    BY <1>1, <1>4, ThreadsAssumption
  <2>5. Redeemed(Id(t))' = Redeemed(Id(t)')
    BY DEF Redeemed
  <2>6. QED BY <2>1, <2>3, <2>4, <2>5 DEF ClaimInv
<1>9. RecordInv'
  BY <1>0, <1>1, <1>5, RecordMoved DEF Moved
<1>10. QED BY <1>6, <1>7, <1>8, <1>9 DEF Inv

LEMMA ClaimCommitStep ==
    ASSUME Inv, NEW t \in Threads, ClaimCommit(t)
    PROVE  /\ Inv' /\ config' = config
           /\ rows' = [rows EXCEPT ![Id(t)] = loc[t].request]
           /\ rows[Id(t)] = None /\ Id(t) \in Ids
           /\ loc[t].request \in Requests /\ Entitled(loc[t].request)
<1>0. TypeOK /\ ClaimInv /\ RecordInv /\ \A u \in Threads : Found(u)
  BY DEF Inv
<1>1. /\ pc[t] = "commit" /\ rows' = viewRows /\ records' = viewRecords /\ storeLock' = None
      /\ Become(t, "reply", "redeemed")
      /\ UNCHANGED <<config, viewRows, viewRecords, answers>>
  BY DEF ClaimCommit, view
<1>2. loc[t].request \in Requests /\ Entitled(loc[t].request)
  BY <1>0, <1>1 DEF Found
<1>3. PICK g \in Ids : g = Id(t)
  BY <1>2, RequestsAssumption DEF Id
<1>4. Record(t, "redeemed") = Redeemed(g) /\ loc[t].request # None
  BY <1>0, <1>2, <1>3, RecordFacts, RequestsAssumption DEF Verdicts, Redeemed
<1>5. /\ storeLock = t /\ rows[g] = None
      /\ viewRows = [rows EXCEPT ![g] = loc[t].request]
      /\ viewRecords = Append(records, Redeemed(g))
  BY <1>0, <1>1, <1>3 DEF ClaimInv
<1>6. Moved(t, "reply", "redeemed")
  BY <1>0, <1>1, BecomeMoves DEF Labels, Verdicts
<1>7. TypeOK'
  BY <1>0, <1>1, <1>6 DEF TypeOK, Moved
<1>8. \A u \in Threads : Found(u)'
  <2>1. Found(t)'
    BY <1>2, <1>6 DEF Found, Moved
  <2>2. QED BY <1>0, <1>1, <1>6, <2>1, FoundElsewhere DEF Moved
<1>9. ClaimInv'
  <2>1. \A u \in Threads : pc'[u] \notin {"audit", "commit"} /\ storeLock' # u
    BY <1>0, <1>1, <1>5, <1>6, ThreadsAssumption DEF ClaimInv, Moved, Elsewhere
  <2>2. QED BY <1>1, <2>1 DEF ClaimInv
<1>10. RecordInv'
  <2>1. Record(t, loc[t].outcome)' = Redeemed(g)
    BY <1>4, <1>6 DEF Moved, Record, Id
  <2>2. Redeemed(g) \in Records /\ Redeemed(g).outcome # "error"
    BY RedeemedFacts
  <2>3. records' = Append(records, Redeemed(g))
    BY <1>1, <1>5
  <2>4. \A entry \in Records : entry.outcome # "error" =>
           (Count(answers, entry) + Cardinality(Pending(entry)) <= Count(records, entry))'
    BY <1>0, <1>1, <1>6, <2>1, <2>2, <2>3, RecordAdded DEF Moved
  <2>5. ASSUME NEW h \in Ids
        PROVE  Count(records', Redeemed(h)) = IF rows'[h] = None THEN 0 ELSE 1
    <3>1. records \in Seq(Records) /\ rows \in [Ids -> Requests \union {None}]
      BY <1>0 DEF TypeOK
    <3>2. Redeemed(g) = Redeemed(h) <=> g = h
      BY DEF Redeemed
    <3>3. Count(Append(records, Redeemed(g)), Redeemed(h)) =
             Count(records, Redeemed(h)) + (IF Redeemed(g) = Redeemed(h) THEN 1 ELSE 0)
      BY <2>2, <3>1, CountAppend
    <3>4. Count(records, Redeemed(h)) = IF rows[h] = None THEN 0 ELSE 1
      BY <1>0 DEF RecordInv
    <3>5. rows'[h] = IF h = g THEN loc[t].request ELSE rows[h]
      BY <1>1, <1>5, <3>1
    <3>6. CASE h = g
      BY <1>4, <1>5, <2>3, <3>2, <3>3, <3>4, <3>5, <3>6
    <3>7. CASE h # g
      BY <2>3, <3>2, <3>3, <3>4, <3>5, <3>7
    <3>8. QED BY <3>6, <3>7
  <2>6. QED BY <2>4, <2>5 DEF RecordInv
<1>11. QED BY <1>1, <1>2, <1>3, <1>5, <1>7, <1>8, <1>9, <1>10 DEF Inv

LEMMA FaultStep ==
    ASSUME Inv, NEW t \in Threads, Fault(t)
    PROVE  Inv'
<1>0. TypeOK /\ ClaimInv /\ RecordInv /\ \A u \in Threads : Found(u)
  BY DEF Inv
<1>1. /\ pc[t] \in {"deny", "claim", "audit", "commit"} /\ storeLock \in {None, t}
      /\ viewRows' = rows /\ viewRecords' = records /\ storeLock' = None
      /\ Become(t, "reply", "error")
      /\ UNCHANGED <<config, rows, records, answers>>
  BY DEF Fault
<1>2. Moved(t, "reply", "error")
  BY <1>0, <1>1, BecomeMoves DEF Labels, Verdicts
<1>3. TypeOK'
  BY <1>0, <1>1, <1>2 DEF TypeOK, Moved
<1>4. \A u \in Threads : Found(u)'
  <2>1. Found(t)'
    BY <1>0, <1>1, <1>2 DEF Found, Moved
  <2>2. QED BY <1>0, <1>1, <1>2, <2>1, FoundElsewhere DEF Moved
<1>5. ClaimInv'
  <2>1. \A u \in Threads : pc'[u] \notin {"audit", "commit"} /\ storeLock' # u
    BY <1>0, <1>1, <1>2, ThreadsAssumption DEF ClaimInv, Moved, Elsewhere
  <2>2. QED BY <1>1, <2>1 DEF ClaimInv
<1>6. RecordInv'
  BY <1>0, <1>1, <1>2, RecordMoved DEF Moved
<1>7. QED BY <1>3, <1>4, <1>5, <1>6 DEF Inv

LEMMA ReplyStep ==
    ASSUME Inv, NEW t \in Threads, Reply(t)
    PROVE  Inv'
<1>0. /\ TypeOK /\ ClaimInv /\ RecordInv /\ \A u \in Threads : Found(u)
      /\ pc \in [Threads -> Labels] /\ loc \in [Threads -> Locs]
  BY DEF Inv, TypeOK
<1>1. /\ pc[t] = "reply" /\ answers' = Append(answers, Record(t, loc[t].outcome))
      /\ pc' = [pc EXCEPT ![t] = "idle"] /\ loc' = [loc EXCEPT ![t] = NoLoc]
      /\ UNCHANGED <<config, rows, records, viewRows, viewRecords, storeLock>>
  BY DEF Reply, view
<1>2. loc[t].request \in Requests
  BY <1>0, <1>1 DEF Found
<1>3. loc[t].outcome \in Verdicts
  BY <1>0 DEF Locs
<1>4. PICK new \in Records : new = Record(t, loc[t].outcome)
  BY <1>0, <1>2, <1>3, RecordFacts
<1>5. NoLoc \in Locs
  BY DEF NoLoc, Locs, Verdicts
<1>6. /\ pc' \in [Threads -> Labels] /\ loc' \in [Threads -> Locs]
      /\ pc'[t] = "idle" /\ Elsewhere(t)
  BY <1>0, <1>1, <1>5 DEF Labels, Elsewhere
<1>7. answers \in Seq(Records) /\ records \in Seq(Records) /\ answers' = Append(answers, new)
  BY <1>0, <1>1, <1>4 DEF TypeOK
<1>8. TypeOK'
  BY <1>0, <1>1, <1>6, <1>7 DEF TypeOK
<1>9. \A u \in Threads : Found(u)'
  <2>1. Found(t)'
    BY <1>6 DEF Found
  <2>2. QED BY <1>0, <1>1, <1>6, <2>1, FoundElsewhere
<1>10. ClaimInv'
  BY <1>0, <1>1, <1>6, ClaimKept
<1>11. RecordInv'
  <2>1. SUFFICES ASSUME NEW entry \in Records, entry.outcome # "error"
                 PROVE  Count(answers', entry) + Cardinality(Pending(entry))' <= Count(records, entry)
    BY <1>0, <1>1 DEF RecordInv
  <2>2. /\ Count(Append(answers, new), entry) =
              Count(answers, entry) + (IF new = entry THEN 1 ELSE 0)
        /\ Count(answers, entry) \in Nat
    BY <1>7, CountAppend
  <2>3. Count(records, entry) \in Nat
    BY <1>7, CountAppend
  <2>4. /\ Count(answers, entry) + Cardinality(Pending(entry)) <= Count(records, entry)
        /\ Cardinality(Pending(entry)) \in Nat
    BY <1>0, <2>1, PendingFinite DEF RecordInv
  <2>5. ~(t \in Pending(entry))'
    BY <1>6 DEF Pending
  <2>6. t \in Pending(entry) <=> new = entry
    BY <1>1, <1>4 DEF Pending
  <2>7. CASE new = entry
    <3>1. Cardinality(Pending(entry))' = Cardinality(Pending(entry)) - 1
      BY <1>6, <2>5, <2>6, <2>7, PendingShrinks
    <3>2. QED BY <1>7, <2>2, <2>3, <2>4, <2>7, <3>1
  <2>8. CASE new # entry
    <3>1. Pending(entry)' = Pending(entry)
      BY <1>6, <2>5, <2>6, <2>8, PendingKept
    <3>2. Cardinality(Pending(entry))' = Cardinality(Pending(entry))
      BY <3>1
    <3>3. QED BY <1>7, <2>2, <2>3, <2>4, <2>8, <3>2
  <2>9. QED BY <2>7, <2>8
<1>12. QED BY <1>8, <1>9, <1>10, <1>11 DEF Inv

LEMMA RestartStep ==
    ASSUME Inv, Restart
    PROVE  Inv'
<1>0. TypeOK /\ ClaimInv /\ RecordInv
  BY DEF Inv
<1>1. /\ config' \in Configs /\ viewRows' = rows /\ viewRecords' = records /\ storeLock' = None
      /\ pc' = [t \in Threads |-> "idle"] /\ loc' = [t \in Threads |-> NoLoc]
      /\ UNCHANGED <<rows, records, answers>>
  BY DEF Restart
<1>2. NoLoc \in Locs /\ "idle" \in Labels
  BY DEF NoLoc, Locs, Verdicts, Labels
<1>3. TypeOK'
  BY <1>0, <1>1, <1>2 DEF TypeOK
<1>4. \A u \in Threads : Found(u)'
  BY <1>1 DEF Found
<1>5. ClaimInv'
  BY <1>1, ThreadsAssumption DEF ClaimInv
<1>6. RecordInv'
  <2>1. \A entry \in Records : Pending(entry)' \subseteq Pending(entry)
    BY <1>1 DEF Pending
  <2>2. QED BY <1>0, <1>1, <2>1, RecordKept
<1>7. QED BY <1>3, <1>4, <1>5, <1>6 DEF Inv

LEMMA InitInv ==
    ASSUME Init PROVE Inv
<1>1. NoLoc \in Locs /\ "idle" \in Labels
  BY DEF NoLoc, Locs, Verdicts, Labels
<1>2. TypeOK
  BY <1>1 DEF Init, TypeOK
<1>3. \A t \in Threads : Found(t)
  BY DEF Init, Found
<1>4. ClaimInv
  BY ThreadsAssumption DEF Init, ClaimInv
<1>5. RecordInv
  <2>1. \A g \in Ids : Count(records, Redeemed(g)) = IF rows[g] = None THEN 0 ELSE 1
    BY CountEmpty DEF Init
  <2>2. ASSUME NEW entry PROVE Pending(entry) = {}
    BY DEF Init, Pending
  <2>3. \A entry \in Records : Count(answers, entry) + Cardinality(Pending(entry)) <= Count(records, entry)
    <3>1. ASSUME NEW entry
          PROVE  Count(answers, entry) = 0 /\ Count(records, entry) = 0 /\ Cardinality(Pending(entry)) = 0
      <4>1. Cardinality(Pending(entry)) = 0
        BY <2>2, FS_EmptySet
      <4>2. QED BY <4>1, CountEmpty DEF Init
    <3>2. QED BY <3>1
  <2>4. QED BY <2>1, <2>3 DEF RecordInv
<1>6. QED BY <1>2, <1>3, <1>4, <1>5 DEF Inv

LEMMA InvStep ==
    ASSUME Inv, [Next]_vars PROVE Inv'
<1>1. CASE UNCHANGED vars
  <2>1. UNCHANGED <<config, rows, records, viewRows, viewRecords, storeLock, pc, loc, answers>>
    BY <1>1 DEF vars, view
  <2>2. TypeOK' /\ ClaimInv' /\ \A t \in Threads : Found(t)'
    BY <2>1 DEF Inv, TypeOK, Found, Entitled, ClaimInv, Id
  <2>3. \A entry \in Records : Pending(entry)' \subseteq Pending(entry)
    BY <2>1 DEF Pending, Record, Id
  <2>4. RecordInv'
    BY <2>1, <2>3, RecordKept DEF Inv
  <2>5. QED BY <2>2, <2>4 DEF Inv
<1>2. CASE Next
  BY <1>2, CallStep, VerifyStep, DenyStep, ClaimInsertStep, ClaimAuditStep, ClaimCommitStep,
     FaultStep, ReplyStep, RestartStep DEF Next, Step
<1>3. QED BY <1>1, <1>2

LEMMA InvHolds == Spec => []Inv
<1>1. QED BY InitInv, InvStep, PTL DEF Spec

-----------------------------------------------------------------------------
(* The theorems *)

\* record_govgrant_redemption: a grant that is redeemed has one enforcement record saying
\* so, one that is not has none, and no two callers are told "redeemed".
THEOREM OneUse == Spec => []OneRedemptionOneRecord
<1>1. ASSUME Inv PROVE OneRedemptionOneRecord
  <2>1. SUFFICES ASSUME NEW g \in Ids
                 PROVE  Count(answers, Redeemed(g)) <= Count(records, Redeemed(g))
    BY <1>1 DEF Inv, RecordInv, OneRedemptionOneRecord
  <2>2. Redeemed(g) \in Records /\ Redeemed(g).outcome # "error"
    BY RedeemedFacts
  <2>3. Count(answers, Redeemed(g)) + Cardinality(Pending(Redeemed(g))) <= Count(records, Redeemed(g))
    BY <1>1, <2>2 DEF Inv, RecordInv
  <2>4. answers \in Seq(Records) /\ records \in Seq(Records)
    BY <1>1 DEF Inv, TypeOK
  <2>5. Count(answers, Redeemed(g)) \in Nat /\ Count(records, Redeemed(g)) \in Nat
    BY <2>2, <2>4, CountAppend
  <2>6. QED BY <2>3, <2>5, PendingFinite
<1>2. QED BY <1>1, InvHolds, PTL

\* SERVICE.md: every outcome of a redemption is a Provider Enforcement Record, one for each
\* time it is given, whatever faults and restarts come between the two.
THEOREM AnswersAreRecorded == Spec => []EveryAnswerIsOnRecord
<1>1. ASSUME Inv PROVE EveryAnswerIsOnRecord
  <2>1. SUFFICES ASSUME NEW i \in DOMAIN answers, answers[i].outcome # "error"
                 PROVE  Count(answers, answers[i]) <= Count(records, answers[i])
    BY DEF EveryAnswerIsOnRecord
  <2>2. answers \in Seq(Records) /\ records \in Seq(Records)
    BY <1>1 DEF Inv, TypeOK
  <2>3. PICK entry \in Records : entry = answers[i]
    BY <2>2
  <2>4. Count(answers, entry) + Cardinality(Pending(entry)) <= Count(records, entry)
    BY <1>1, <2>1, <2>3 DEF Inv, RecordInv
  <2>5. Count(answers, entry) \in Nat /\ Count(records, entry) \in Nat
    BY <2>2, <2>3, CountAppend
  <2>6. Count(answers, entry) <= Count(records, entry)
    BY <2>4, <2>5, PendingFinite
  <2>7. QED BY <2>3, <2>6
<1>2. QED BY <1>1, InvHolds, PTL

\* redeem_governance_grant: a grant is consumed only by a request that is acceptable and in
\* scope under the configuration in force when the claim commits, though it was verified
\* some steps before, and it is consumed once.
THEOREM OnlyEntitledRequestsConsume == Spec => OnlyTheEntitledConsume
<1> DEFINE A == \A g \in Ids : rows'[g] # rows[g] =>
                   /\ rows[g] = None
                   /\ Acceptable(rows'[g].grant, config.root, rows'[g].at, config.list)
                   /\ InScope(rows'[g].grant, rows'[g])
<1>1. ASSUME Inv, [Next]_vars PROVE [A]_vars
  <2>1. CASE rows' = rows
    BY <2>1
  <2>2. ASSUME NEW t \in Threads, ClaimCommit(t) PROVE A
    <3>1. /\ rows' = [rows EXCEPT ![Id(t)] = loc[t].request]
          /\ rows[Id(t)] = None /\ Entitled(loc[t].request)
          /\ rows \in [Ids -> Requests \union {None}]
      BY <1>1, <2>2, ClaimCommitStep DEF Inv, TypeOK
    <3>2. ASSUME NEW g \in Ids, rows'[g] # rows[g] PROVE g = Id(t) /\ rows'[g] = loc[t].request
      BY <3>1, <3>2
    <3>3. QED BY <3>1, <3>2 DEF Entitled
  <2>3. CASE \E t \in Threads : Deny(t)
    BY <1>1, <2>1, <2>3, DenyStep
  <2>4. CASE UNCHANGED vars
    BY <2>1, <2>4 DEF vars
  <2>5. CASE \/ Restart
             \/ \E t \in Threads : \/ Verify(t) \/ ClaimInsert(t) \/ ClaimAudit(t)
                                   \/ Fault(t) \/ Reply(t) \/ \E request \in Requests : Call(t, request)
    BY <2>1, <2>5 DEF Restart, Verify, ClaimInsert, ClaimAudit, Fault, Reply, Call
  <2>6. QED BY <1>1, <2>2, <2>3, <2>4, <2>5 DEF Next, Step
<1>2. QED BY <1>1, InvHolds, PTL DEF Spec, OnlyTheEntitledConsume
=============================================================================
