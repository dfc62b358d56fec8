--------------------------- MODULE GovRedemption ---------------------------
(***************************************************************************)
(* redeem_governance_grant: verification, scope binding and the one-use    *)
(* claim of Connect-Governance grants, by several threads of a process     *)
(* that may fail, die and be restarted with another trust root or another  *)
(* revocation list.                                                        *)
(***************************************************************************)
EXTENDS GovGrants, FiniteSets

CONSTANTS
    Threads,
    Ids,       \* grant ids
    Requests,  \* records [grant, at, principal, tool, source, args]
    Configs,   \* records [root, list]: what the process is started with
    MaxCalls, MaxCrash, MaxFaults    \* bounds

ASSUME ThreadsAssumption == None \notin Threads /\ IsFiniteSet(Threads)

ASSUME RequestsAssumption ==
    \A request \in Requests :
        /\ request # None
        /\ request.at \in Nat \union {Garbled}
        /\ GrantDocument(request.grant) /\ request.grant.id \in Ids
        /\ request.grant.provider \in BOOLEAN /\ request.grant.invoke \in BOOLEAN

ASSUME ConfigsAssumption ==
    \A c \in Configs : c.list # None => ListDocument(c.list)

VARIABLES
    config,    \* gov_trust_root_pem and gov_revocation_list
    rows,      \* committed grant_redemptions: the request that won, or None
    records,   \* committed provider_enforcement records, in order
    viewRows, viewRecords,  \* the same as the connection sees them
    storeLock,
    pc, loc,   \* per thread: where it is; its request and the answer so far
    answers,   \* history: [id, outcome] of every answer given
    calls, crashes, faults

view == <<viewRows, viewRecords>>
bounds == <<calls, crashes, faults>>
vars == <<config, rows, records, view, storeLock, pc, loc, answers, bounds>>

NoLoc == [request |-> None, outcome |-> "none"]

Init ==
    /\ config \in Configs
    /\ rows = [g \in Ids |-> None] /\ viewRows = rows
    /\ records = <<>> /\ viewRecords = <<>>
    /\ storeLock = None
    /\ pc = [t \in Threads |-> "idle"] /\ loc = [t \in Threads |-> NoLoc]
    /\ answers = <<>>
    /\ calls = 0 /\ crashes = 0 /\ faults = 0

-----------------------------------------------------------------------------
Become(t, label, outcome) ==
    /\ pc' = [pc EXCEPT ![t] = label]
    /\ loc' = [loc EXCEPT ![t].outcome = outcome]

Id(t) == loc[t].request.grant.id

\* The grant_id of a record is null when the grant has no usable payload.
Record(t, outcome) ==
    [id |-> IF StructuralFailures(loc[t].request.grant.shape) = <<>> THEN Id(t) ELSE None,
     outcome |-> outcome]

\* POST /redemptions past the checks on principal and args; at is the request's, or the
\* clock's at this point.
Call(t, request) ==
    /\ pc[t] = "idle" /\ calls < MaxCalls
    /\ calls' = calls + 1
    /\ pc' = [pc EXCEPT ![t] = "verify"]
    /\ loc' = [loc EXCEPT ![t].request = request]
    /\ UNCHANGED <<config, rows, records, view, storeLock, answers, crashes, faults>>

\* verify_grant, then scope_failures; the reason is the first failure.
Verify(t) ==
    LET request == loc[t].request
        codes == VerifyGrant(request.grant, config.root, request.at, config.list)
        scope == ScopeFailures(request.grant, request)
    IN  /\ pc[t] = "verify"
        /\ IF Raises(codes) THEN Become(t, "reply", "error")
           ELSE IF codes # <<>> THEN Become(t, "deny", codes[1])
           ELSE IF scope # <<>> THEN Become(t, "deny", scope[1])
           ELSE Become(t, "claim", "redeemed")
        /\ UNCHANGED <<config, rows, records, view, storeLock, answers, bounds>>

\* append_audit of the denial, a transaction of its own.
Deny(t) ==
    /\ pc[t] = "deny" /\ storeLock = None
    /\ viewRecords' = Append(viewRecords, Record(t, loc[t].outcome))
    /\ records' = viewRecords' /\ rows' = viewRows
    /\ Become(t, "reply", loc[t].outcome)
    /\ UNCHANGED <<config, viewRows, storeLock, answers, bounds>>

\* Mutant: INSERT OR REPLACE.
ClaimInsert_Replace(t) ==
    /\ pc[t] = "claim" /\ storeLock = None
    /\ storeLock' = t
    /\ viewRows' = [viewRows EXCEPT ![Id(t)] = loc[t].request]
    /\ Become(t, "audit", "redeemed")
    /\ UNCHANGED <<config, rows, records, viewRecords, answers, bounds>>

\* BEGIN IMMEDIATE and the INSERT; the primary key refuses a replay, which rolls back.
ClaimInsert(t) ==
    /\ pc[t] = "claim" /\ storeLock = None
    /\ IF viewRows[Id(t)] = None
       THEN /\ storeLock' = t
            /\ viewRows' = [viewRows EXCEPT ![Id(t)] = loc[t].request]
            /\ Become(t, "audit", "redeemed")
       ELSE Become(t, "deny", "already_redeemed") /\ UNCHANGED <<storeLock, viewRows>>
    /\ UNCHANGED <<config, rows, records, viewRecords, answers, bounds>>

\* _append_audit_in_txn
ClaimAudit(t) ==
    /\ pc[t] = "audit"
    /\ viewRecords' = Append(viewRecords, Record(t, "redeemed"))
    /\ Become(t, "commit", "redeemed")
    /\ UNCHANGED <<config, rows, records, viewRows, storeLock, answers, bounds>>

ClaimCommit(t) ==
    /\ pc[t] = "commit"
    /\ rows' = viewRows /\ records' = viewRecords
    /\ storeLock' = None
    /\ Become(t, "reply", "redeemed")
    /\ UNCHANGED <<config, view, answers, bounds>>

\* Mutant: a failure to record is swallowed and the caller is answered all the same.
Fault_Swallowed(t) ==
    /\ pc[t] \in {"deny", "claim", "audit", "commit"} /\ storeLock \in {None, t}
    /\ faults < MaxFaults
    /\ faults' = faults + 1
    /\ viewRows' = rows /\ viewRecords' = records
    /\ storeLock' = None
    /\ Become(t, "reply", loc[t].outcome)
    /\ UNCHANGED <<config, rows, records, answers, calls, crashes>>

\* A statement raises: ROLLBACK, re-raise, a 500.
Fault(t) ==
    /\ pc[t] \in {"deny", "claim", "audit", "commit"} /\ storeLock \in {None, t}
    /\ faults < MaxFaults
    /\ faults' = faults + 1
    /\ viewRows' = rows /\ viewRecords' = records
    /\ storeLock' = None
    /\ Become(t, "reply", "error")
    /\ UNCHANGED <<config, rows, records, answers, calls, crashes>>

Reply(t) ==
    /\ pc[t] = "reply"
    /\ answers' = Append(answers, Record(t, loc[t].outcome))
    /\ pc' = [pc EXCEPT ![t] = "idle"] /\ loc' = [loc EXCEPT ![t] = NoLoc]
    /\ UNCHANGED <<config, rows, records, view, storeLock, bounds>>

\* The process dies and is started again, perhaps with a newer list or another root.
\* (The meta rows that /health reads the list's identity from are left out.)
Restart ==
    /\ crashes < MaxCrash
    /\ crashes' = crashes + 1
    /\ config' \in Configs
    /\ viewRows' = rows /\ viewRecords' = records
    /\ storeLock' = None
    /\ pc' = [t \in Threads |-> "idle"] /\ loc' = [t \in Threads |-> NoLoc]
    /\ UNCHANGED <<rows, records, answers, calls, faults>>

Step(t) == \/ Verify(t) \/ Deny(t) \/ ClaimInsert(t) \/ ClaimAudit(t) \/ ClaimCommit(t)
           \/ Fault(t) \/ Reply(t)

Next == \/ \E t \in Threads : Step(t) \/ \E request \in Requests : Call(t, request)
        \/ Restart

Spec == Init /\ [][Next]_vars

-----------------------------------------------------------------------------
(* Properties *)

Count(log, entry) == Cardinality({i \in DOMAIN log : log[i] = entry})
Redeemed(g) == [id |-> g, outcome |-> "redeemed"]

\* record_govgrant_redemption: claim and enforcement record commit together; a replay is
\* never a second redemption, and no two callers are told "redeemed".
OneRedemptionOneRecord ==
    \A g \in Ids : /\ Count(records, Redeemed(g)) = IF rows[g] = None THEN 0 ELSE 1
                   /\ Count(answers, Redeemed(g)) <= Count(records, Redeemed(g))

\* SERVICE.md: every outcome is a Provider Enforcement Record.  An answer other than a 500
\* has its record, one for each time it was given.
EveryAnswerIsOnRecord ==
    \A i \in DOMAIN answers :
        answers[i].outcome # "error" => Count(answers, answers[i]) <= Count(records, answers[i])

\* SERVICE.md: a failed verification does not consume the grant.  A grant is consumed only
\* by a request that is, under the configuration in force when it commits, acceptable
\* and within the grant's scope; and it stays consumed by that request.
OnlyTheEntitledConsume ==
    [][\A g \in Ids : rows'[g] # rows[g] =>
          /\ rows[g] = None
          /\ Acceptable(rows'[g].grant, config.root, rows'[g].at, config.list)
          /\ InScope(rows'[g].grant, rows'[g])]_vars
=============================================================================
