------------------------------- MODULE Grants -------------------------------
(***************************************************************************)
(* The argument-bound, one-use grants of ToolConnectService, as several    *)
(* threads of one process use them over one SqliteStore.                   *)
(*                                                                         *)
(* Two locks order the threads: _authz_lock, held by authorize() from the  *)
(* broker call to the grant insert, and the store's own lock, held around  *)
(* every transaction.  The database is kept twice: what is committed       *)
(* (grants, audit) and what the one shared connection sees (viewGrants,    *)
(* viewAudit), so that a fault or a crash between two statements of a      *)
(* transaction does what SQLite does: the view is thrown away.             *)
(*                                                                         *)
(* A decision_id is a fresh uuid stored in exactly one decision record; it *)
(* is represented by the sequence number of that record.  A request        *)
(* carries the hash of its arguments, not the arguments.                   *)
(***************************************************************************)
EXTENDS Naturals, Sequences

CONSTANTS
    Threads,      \* callers of the service inside one process
    Principals,
    Tools,        \* namespaced tool identities (source_id, name)
    Hashes,       \* argument hashes
    GrantIds,     \* the uuids authorize() may draw
    TTLs,         \* admissible ttl_seconds, in ticks
    None,
    MaxTime,      \* bound: the clock stops here
    Offered,      \* the calls that arrive, a subset of Calls
    MaxCalls,     \* bound: calls that arrive over a behaviour
    MaxCrash      \* bound: crashes of the process

ASSUME ConstantsAssumption ==
    /\ TTLs \subseteq Nat
    /\ MaxTime \in Nat /\ MaxCalls \in Nat /\ MaxCrash \in Nat
    /\ None \notin Threads \union Principals \union Tools \union Hashes \union GrantIds

VARIABLES
    now,          \* the wall clock
    invocable,    \* catalog.invocable, changed by other requests
    grants,       \* committed rows of the grants table
    audit,        \* committed rows of the audit table, in seq order
    viewGrants,   \* the same tables as the open connection sees them
    viewAudit,
    storeLock,    \* SqliteStore._lock
    authzLock,    \* ToolConnectService._authz_lock
    lastDecision, \* ToolConnectService._audit_log[-1]["decision_id"]
    pc, loc,      \* where each thread is, and its local variables
    delivered,    \* per grant, the callers whom the answer "ok" reached
    calls,        \* calls that have arrived
    crashes

env    == <<now, invocable>>
db     == <<grants, audit>>
view   == <<viewGrants, viewAudit>>
ghosts == <<delivered, calls, crashes>>
vars   == <<now, invocable, grants, audit, viewGrants, viewAudit, storeLock,
            authzLock, lastDecision, pc, loc, delivered, calls, crashes>>

-----------------------------------------------------------------------------
(* Rows, records and the local variables of a call *)

Row == [decision_id : Nat, principal_id : Principals, tool : Tools,
        args_hash : Hashes, expires_at : Nat,
        redeemed : BOOLEAN, closed : BOOLEAN]

\* A missing row is told from every row.
ASSUME NoneAssumption == None \notin Row

DenyReasons == {"not_found", "already_redeemed", "closed", "expired",
                "principal_mismatch", "args_mismatch", "not_invocable"}
Reasons == DenyReasons \union
           {"", "ok", "allow", "deny", "explicit_close", "outcome_reported", "error"}

Kinds == {"decision", "grant_issue", "grant_redeem", "grant_redeem_denied",
          "grant_close", "outcome"}

\* One audit row.  first is the negation of already_closed on a grant_close.
Rec == [kind : Kinds, decision_id : Nat, grant : GrantIds \union {None},
        principal : Principals \union {None}, tool : Tools \union {None},
        reason : Reasons, first : BOOLEAN]

NoRec == [kind |-> "outcome", decision_id |-> 0, grant |-> None,
          principal |-> None, tool |-> None, reason |-> "", first |-> FALSE]

Record(k, d, g, why) ==
    [NoRec EXCEPT !.kind = k, !.decision_id = d, !.grant = g, !.reason = why]

Calls == {"none", "authorize", "redeem", "close", "outcome"}
PCs == {"idle", "az_lock", "az_decide", "az_log", "az_read", "is_insert", "az_exit",
        "rd_begin", "rd_check", "rd_deny", "cl_begin", "oc_find", "oc_log", "oc_grant",
        "tx_audit", "tx_commit", "reply"}

Loc == [call : Calls, p : Principals \union {None}, tool : Tools \union {None},
        h : Hashes \union {None}, want : BOOLEAN, g : GrantIds \union {None},
        did : Nat, reason : Reasons, exp : Nat, rec : Rec, next : PCs]

NoLoc == [call |-> "none", p |-> None, tool |-> None, h |-> None, want |-> FALSE,
          g |-> None, did |-> 0, reason |-> "", exp |-> 0, rec |-> NoRec, next |-> "idle"]

\* The types of the state of authorize, redeem_grant, close_grant and record_outcome: the
\* rows and records of store.py and the locals of each thread.
TypeOK ==
    /\ now \in Nat
    /\ invocable \in [Tools -> BOOLEAN]
    /\ grants \in [GrantIds -> Row \union {None}]
    /\ viewGrants \in [GrantIds -> Row \union {None}]
    /\ audit \in Seq(Rec) /\ viewAudit \in Seq(Rec)
    /\ storeLock \in Threads \union {None}
    /\ authzLock \in Threads \union {None}
    /\ lastDecision \in Nat
    /\ pc \in [Threads -> PCs]
    /\ loc \in [Threads -> Loc]
    /\ delivered \in [GrantIds -> Seq([p : Principals, h : Hashes])]
    /\ calls \in Nat /\ crashes \in Nat

Init ==
    /\ now = 0
    /\ invocable = [x \in Tools |-> TRUE]
    /\ grants = [g \in GrantIds |-> None]
    /\ audit = <<>>
    /\ viewGrants = grants /\ viewAudit = audit
    /\ storeLock = None /\ authzLock = None
    /\ lastDecision = 0
    /\ pc = [t \in Threads |-> "idle"]
    /\ loc = [t \in Threads |-> NoLoc]
    /\ delivered = [g \in GrantIds |-> <<>>]
    /\ calls = 0 /\ crashes = 0

-----------------------------------------------------------------------------
(* The store's transactions.  A one-statement transaction (append_audit)   *)
(* is a single step.  The others are begun by an action below, which takes *)
(* the lock, changes the view and leaves the audit record to append in     *)
(* loc[t].rec; they share the two steps TxnAudit and TxnCommit.            *)

Become(t, label, l) ==
    /\ pc' = [pc EXCEPT ![t] = label]
    /\ loc' = [loc EXCEPT ![t] = l]

Goto(t, label) == Become(t, label, loc[t])

\* append_audit: its own transaction, so the commit takes the whole view.
AppendAudit(rec) ==
    /\ storeLock = None
    /\ viewAudit' = Append(viewAudit, rec)
    /\ audit' = Append(viewAudit, rec)
    /\ grants' = viewGrants
    /\ UNCHANGED <<viewGrants, storeLock>>

\* _append_audit_in_txn: joins the caller's open transaction.
TxnAudit(t) ==
    /\ pc[t] = "tx_audit"
    /\ viewAudit' = Append(viewAudit, loc[t].rec)
    /\ Goto(t, "tx_commit")
    /\ UNCHANGED <<env, db, viewGrants, storeLock, authzLock, lastDecision, ghosts>>

\* COMMIT, then the store lock is released.
TxnCommit(t) ==
    /\ pc[t] = "tx_commit"
    /\ grants' = viewGrants /\ audit' = viewAudit
    /\ storeLock' = None
    /\ Goto(t, loc[t].next)
    /\ UNCHANGED <<env, view, authzLock, lastDecision, ghosts>>

\* A raised exception ends the call; authorize() first leaves the block that holds
\* _authz_lock.
Raise(t) ==
    Become(t, IF loc[t].call = "authorize" THEN "az_exit" ELSE "reply",
           [loc[t] EXCEPT !.reason = "error"])

Abandon(t, rows, log, lock) ==
    /\ pc[t] \in {"rd_check", "tx_audit", "tx_commit"}
    /\ viewGrants' = rows /\ viewAudit' = log
    /\ storeLock' = lock
    /\ Raise(t)
    /\ UNCHANGED <<env, db, authzLock, lastDecision, ghosts>>

\* Mutants: no ROLLBACK; the store lock is not released.
TxnFault_NoRollback(t) == Abandon(t, viewGrants, viewAudit, None)
TxnFault_KeepsLock(t) == Abandon(t, grants, audit, t)

\* The invocability check, the append or the COMMIT raises: ROLLBACK, release the
\* lock, re-raise.
TxnFault(t) == Abandon(t, grants, audit, None)

\* The first statement of a transaction raises: nothing was written.
AppendFault(t) ==
    /\ pc[t] \in {"az_log", "is_insert", "rd_begin", "rd_deny", "cl_begin", "oc_log"}
    /\ storeLock = None
    /\ Raise(t)
    /\ UNCHANGED <<env, db, view, storeLock, authzLock, lastDecision, ghosts>>

-----------------------------------------------------------------------------
(* Calls arrive and return *)

Start(t, label, l) ==
    /\ pc[t] = "idle"
    /\ l.call \in Offered /\ calls < MaxCalls
    /\ calls' = calls + 1
    /\ Become(t, label, l)
    /\ UNCHANGED <<env, db, view, storeLock, authzLock, lastDecision, delivered, crashes>>

\* authorize() past its shape, hash and ttl validation, with or without args.
CallAuthorize(t) ==
    \E p \in Principals, x \in Tools, h \in Hashes, want \in BOOLEAN :
        Start(t, "az_lock", [NoLoc EXCEPT !.call = "authorize", !.p = p, !.tool = x,
                                          !.h = h, !.want = want])

\* redeem_grant() past its validation; the grant may be unknown.
CallRedeem(t) ==
    \E p \in Principals, h \in Hashes, g \in GrantIds :
        Start(t, "rd_begin", [NoLoc EXCEPT !.call = "redeem", !.p = p, !.h = h, !.g = g])

\* close_grant() writes the reason it is given: the default, or any string the caller
\* sends, record_outcome's own included.
CloseReasons == {"explicit_close", "outcome_reported"}

CallClose(t) ==
    \E g \in GrantIds, why \in CloseReasons :
        Start(t, "cl_begin", [NoLoc EXCEPT !.call = "close", !.g = g, !.reason = why])

\* record_outcome() with any record's number as the decision_id, decision or not.
CallOutcome(t) ==
    \E d \in DOMAIN audit, g \in GrantIds \union {None} :
        Start(t, "oc_find", [NoLoc EXCEPT !.call = "outcome", !.did = d, !.g = g,
                                          !.reason = "outcome_reported"])

\* The call returns.  An "ok" from redeem is what the caller acts on.
Reply(t) ==
    /\ pc[t] = "reply"
    /\ delivered' = IF loc[t].call = "redeem" /\ loc[t].reason = "ok"
                    THEN [delivered EXCEPT ![loc[t].g] =
                            Append(@, [p |-> loc[t].p, h |-> loc[t].h])]
                    ELSE delivered
    /\ Become(t, "idle", NoLoc)
    /\ UNCHANGED <<env, db, view, storeLock, authzLock, lastDecision, calls, crashes>>

-----------------------------------------------------------------------------
(* authorize *)

\* Mutant: authorize() does not take _authz_lock.
AuthzEnter_NoLock(t) ==
    /\ pc[t] = "az_lock"
    /\ Goto(t, "az_decide")
    /\ UNCHANGED <<env, db, view, storeLock, authzLock, lastDecision, ghosts>>

AuthzEnter(t) ==
    /\ pc[t] = "az_lock" /\ authzLock = None
    /\ authzLock' = t
    /\ Goto(t, "az_decide")
    /\ UNCHANGED <<env, db, view, storeLock, lastDecision, ghosts>>

\* Broker.authorize: not invocable is a denial, otherwise the policy engine decides.
Decide(t) ==
    /\ pc[t] = "az_decide"
    /\ \E verdict \in {"allow", "deny"} :
          /\ verdict = "allow" => invocable[loc[t].tool]
          /\ Become(t, "az_log", [loc[t] EXCEPT !.reason = verdict])
    /\ UNCHANGED <<env, db, view, storeLock, authzLock, lastDecision, ghosts>>

DecisionRecord(t, d) ==
    [Record("decision", d, None, loc[t].reason) EXCEPT !.principal = loc[t].p,
                                                       !.tool = loc[t].tool]

\* _PersistentAuditLog.append: the row is durable before the list grows.
LogDecision(t) ==
    /\ pc[t] = "az_log"
    /\ AppendAudit(DecisionRecord(t, Len(viewAudit) + 1))
    /\ lastDecision' = Len(viewAudit) + 1
    /\ Goto(t, "az_read")
    /\ UNCHANGED <<env, authzLock, ghosts>>

\* decision_id = _audit_log[-1]; the expiry is fixed here, before the store lock.
ReadDecisionId(t) ==
    /\ pc[t] = "az_read"
    /\ \E ttl \in TTLs :
          Become(t, IF loc[t].want /\ loc[t].reason = "allow" THEN "is_insert" ELSE "az_exit",
                 [loc[t] EXCEPT !.did = lastDecision, !.exp = now + ttl])
    /\ UNCHANGED <<env, db, view, storeLock, authzLock, lastDecision, ghosts>>

\* Mutant: two columns of the INSERT are swapped.
NewRow_Swapped(l, exp) ==
    [decision_id |-> l.did, principal_id |-> l.h, tool |-> l.tool, args_hash |-> l.p,
     expires_at |-> exp, redeemed |-> FALSE, closed |-> FALSE]

NewRow(l, exp) ==
    [decision_id |-> l.did, principal_id |-> l.p, tool |-> l.tool, args_hash |-> l.h,
     expires_at |-> exp, redeemed |-> FALSE, closed |-> FALSE]

Insert(t, g, exp) ==
    /\ pc[t] = "is_insert" /\ storeLock = None
    /\ storeLock' = t
    /\ viewGrants' = [viewGrants EXCEPT ![g] = NewRow(loc[t], exp)]
    /\ Become(t, "tx_audit", [loc[t] EXCEPT !.g = g, !.next = "az_exit",
                                            !.rec = Record("grant_issue", loc[t].did, g, "")])
    /\ UNCHANGED <<env, db, viewAudit, authzLock, lastDecision, ghosts>>

\* Mutant: INSERT OR REPLACE of an id in use.
IssueInsert_Replace(t) == \E g \in GrantIds : Insert(t, g, loc[t].exp)

\* issue_grant: BEGIN and INSERT.  The uuid is fresh.
IssueInsert(t) == \E g \in GrantIds : viewGrants[g] = None /\ Insert(t, g, loc[t].exp)

\* The end of "with self._authz_lock", by completion or by exception.
AuthzExit(t) ==
    /\ pc[t] = "az_exit"
    /\ authzLock' = None
    /\ Goto(t, "reply")
    /\ UNCHANGED <<env, db, view, storeLock, lastDecision, ghosts>>

-----------------------------------------------------------------------------
(* redeem_grant *)

\* The checks made on the row under BEGIN IMMEDIATE, in the code's order.
RedeemVerdict(row, p, h, at) ==
    IF row = None THEN "not_found"
    ELSE IF row.redeemed THEN "already_redeemed"
    ELSE IF row.closed THEN "closed"
    ELSE IF row.expires_at <= at THEN "expired"
    ELSE IF p # row.principal_id THEN "principal_mismatch"
    ELSE IF h # row.args_hash THEN "args_mismatch"
    ELSE "ok"

\* BEGIN IMMEDIATE and the checks on the row.  A denial is the ROLLBACK of a
\* transaction that has written nothing.
Examine(t, verdict) ==
    LET row == viewGrants[loc[t].g]
    IN  /\ pc[t] = "rd_begin" /\ storeLock = None
        /\ storeLock' = IF verdict = "ok" THEN t ELSE None
        /\ Become(t, IF verdict = "ok" THEN "rd_check" ELSE "rd_deny",
                  [loc[t] EXCEPT !.reason = verdict,
                                 !.did = IF row = None THEN 0 ELSE row.decision_id])
        /\ UNCHANGED <<env, db, view, authzLock, lastDecision, ghosts>>

\* Mutant: the presented arguments are compared with nothing.
RedeemBegin_AnyArgs(t) ==
    LET row == viewGrants[loc[t].g]
        h == IF row = None THEN None ELSE row.args_hash
    IN  Examine(t, RedeemVerdict(row, loc[t].p, h, now))

\* Mutant: a redeemed grant passes the checks again.
RedeemBegin_Reusable(t) ==
    LET verdict == RedeemVerdict(viewGrants[loc[t].g], loc[t].p, loc[t].h, now)
    IN  Examine(t, IF verdict = "already_redeemed" THEN "ok" ELSE verdict)

\* The clock is read once the store lock is held.
RedeemBegin(t) == Examine(t, RedeemVerdict(viewGrants[loc[t].g], loc[t].p, loc[t].h, now))

Spend(t) ==
    LET g == loc[t].g
    IN  /\ viewGrants' = [viewGrants EXCEPT ![g].redeemed = TRUE]
        /\ Become(t, "tx_audit",
             [loc[t] EXCEPT !.next = "reply",
                            !.rec = [Record("grant_redeem", loc[t].did, g, "")
                                       EXCEPT !.principal = loc[t].p]])

Kill(t, rows) ==
    /\ viewGrants' = rows
    /\ Become(t, "tx_audit",
         [loc[t] EXCEPT !.reason = "not_invocable", !.next = "rd_deny",
                        !.rec = [Record("grant_close", loc[t].did, loc[t].g, "not_invocable")
                                   EXCEPT !.first = TRUE]])

\* Mutant: the denial of a tool no longer invocable leaves the grant open.
RedeemApply_NoClose(t) ==
    /\ pc[t] = "rd_check"
    /\ IF invocable[viewGrants[loc[t].g].tool] THEN Spend(t) ELSE Kill(t, viewGrants)
    /\ UNCHANGED <<env, db, viewAudit, storeLock, authzLock, lastDecision, ghosts>>

\* invocable_check reads the live catalog, which the store lock does not protect; then
\* the grant is spent, or closed for good.  (The UPDATE's own re-check of the latches
\* finds them as the SELECT of the same transaction did.)
RedeemApply(t) ==
    /\ pc[t] = "rd_check"
    /\ IF invocable[viewGrants[loc[t].g].tool]
       THEN Spend(t)
       ELSE Kill(t, [viewGrants EXCEPT ![loc[t].g].closed = TRUE])
    /\ UNCHANGED <<env, db, viewAudit, storeLock, authzLock, lastDecision, ghosts>>

\* grant_redeem_denied, appended by the service after the store has answered.
RedeemDenied(t) ==
    /\ pc[t] = "rd_deny"
    /\ AppendAudit([Record("grant_redeem_denied", loc[t].did, loc[t].g, loc[t].reason)
                      EXCEPT !.principal = loc[t].p])
    /\ Goto(t, "reply")
    /\ UNCHANGED <<env, authzLock, lastDecision, ghosts>>

-----------------------------------------------------------------------------
(* close_grant and record_outcome *)

\* A known grant gets its record even when it is already closed.
CloseBegin(t) ==
    LET g == loc[t].g
        row == viewGrants[g]
    IN  /\ pc[t] = "cl_begin" /\ storeLock = None
        /\ row # None
        /\ storeLock' = t
        /\ viewGrants' = [viewGrants EXCEPT ![g].closed = TRUE]
        /\ Become(t, "tx_audit",
             [loc[t] EXCEPT !.next = "reply",
                            !.rec = [Record("grant_close", row.decision_id, g, loc[t].reason)
                                       EXCEPT !.first = ~row.closed]])
        /\ UNCHANGED <<env, db, viewAudit, authzLock, lastDecision, ghosts>>

\* Nothing to close, nothing to audit: close_grant() answers 404, record_outcome() does
\* not look at what the store returned.
CloseUnknown(t) ==
    /\ pc[t] = "cl_begin" /\ storeLock = None
    /\ viewGrants[loc[t].g] = None
    /\ IF loc[t].call = "close" THEN Raise(t) ELSE Goto(t, "reply")
    /\ UNCHANGED <<env, db, view, storeLock, authzLock, lastDecision, ghosts>>

\* find_decision; an unknown decision is a 404.
OutcomeFind(t) ==
    /\ pc[t] = "oc_find" /\ storeLock = None
    /\ IF loc[t].did \in DOMAIN viewAudit /\ viewAudit[loc[t].did].kind = "decision"
       THEN Goto(t, "oc_log") ELSE Raise(t)
    /\ UNCHANGED <<env, db, view, storeLock, authzLock, lastDecision, ghosts>>

\* The outcome is appended before the grant it names is looked at.
OutcomeLog(t) ==
    /\ pc[t] = "oc_log"
    /\ AppendAudit(Record("outcome", loc[t].did, None, ""))
    /\ Goto(t, IF loc[t].g = None THEN "reply" ELSE "oc_grant")
    /\ UNCHANGED <<env, authzLock, lastDecision, ghosts>>

\* Mutant: the grant is closed whichever decision it belongs to.
OutcomeGrant_AnyDecision(t) ==
    /\ pc[t] = "oc_grant" /\ storeLock = None
    /\ IF viewGrants[loc[t].g] # None THEN Goto(t, "cl_begin") ELSE Raise(t)
    /\ UNCHANGED <<env, db, view, storeLock, authzLock, lastDecision, ghosts>>

\* get_grant: 404 when unknown, 400 when it belongs to another decision.
OutcomeGrant(t) ==
    /\ pc[t] = "oc_grant" /\ storeLock = None
    /\ IF viewGrants[loc[t].g] # None /\ viewGrants[loc[t].g].decision_id = loc[t].did
       THEN Goto(t, "cl_begin") ELSE Raise(t)
    /\ UNCHANGED <<env, db, view, storeLock, authzLock, lastDecision, ghosts>>

-----------------------------------------------------------------------------
(* The world around the threads *)

Tick ==
    /\ now < MaxTime
    /\ now' = now + 1
    /\ UNCHANGED <<invocable, db, view, storeLock, authzLock, lastDecision, pc, loc, ghosts>>

\* An ingest redefines a tool, an operator vouches for it again, a source changes tier.
CatalogChanges ==
    /\ \E x \in Tools : invocable' = [invocable EXCEPT ![x] = ~@]
    /\ UNCHANGED <<now, db, view, storeLock, authzLock, lastDecision, pc, loc, ghosts>>

\* The process dies and is restarted: an open transaction is rolled back, every
\* call in flight is lost, the in-memory decision list is empty.
Crash ==
    /\ crashes < MaxCrash
    /\ crashes' = crashes + 1
    /\ viewGrants' = grants /\ viewAudit' = audit
    /\ storeLock' = None /\ authzLock' = None
    /\ lastDecision' = 0
    /\ pc' = [t \in Threads |-> "idle"]
    /\ loc' = [t \in Threads |-> NoLoc]
    /\ UNCHANGED <<env, db, delivered, calls>>

Call(t) == CallAuthorize(t) \/ CallRedeem(t) \/ CallClose(t) \/ CallOutcome(t)

Step(t) ==
    \/ TxnAudit(t) \/ TxnCommit(t) \/ TxnFault(t) \/ AppendFault(t)
    \/ AuthzEnter(t) \/ Decide(t) \/ LogDecision(t) \/ ReadDecisionId(t)
    \/ IssueInsert(t) \/ AuthzExit(t)
    \/ RedeemBegin(t) \/ RedeemApply(t) \/ RedeemDenied(t)
    \/ CloseBegin(t) \/ CloseUnknown(t)
    \/ OutcomeFind(t) \/ OutcomeLog(t) \/ OutcomeGrant(t)
    \/ Reply(t)

Next ==
    \/ \E t \in Threads : Call(t) \/ Step(t)
    \/ Tick \/ CatalogChanges \/ Crash

\* A thread that is inside a call keeps running; callers, the clock, the catalog
\* and crashes owe nothing.
Fairness == \A t \in Threads : WF_vars(Step(t))

Spec == Init /\ [][Next]_vars
FairSpec == Spec /\ Fairness

-----------------------------------------------------------------------------
(* Properties *)

Has(log, g, k) == \E i \in DOMAIN log : log[i].kind = k /\ log[i].grant = g

\* The records of kind k that changed the row of grant g: a grant_close that found
\* the grant already closed changed nothing.
Marks(log, g, k) ==
    {i \in DOMAIN log : /\ log[i].kind = k /\ log[i].grant = g
                        /\ k = "grant_close" => log[i].first}

\* The row and the records of one grant tell the same story.
Paired(rows, log, g) ==
    /\ \A k \in {"grant_issue", "grant_redeem", "grant_close"} :
          \A i, j \in Marks(log, g, k) : i = j
    /\ Marks(log, g, "grant_issue") # {} <=> rows[g] # None
    /\ Marks(log, g, "grant_redeem") # {} <=> rows[g] # None /\ rows[g].redeemed
    /\ Marks(log, g, "grant_close") # {} <=> rows[g] # None /\ rows[g].closed
    /\ Has(log, g, "grant_close") => rows[g] # None

\* ADR 0002 section 4: a grant mutation and its audit record commit or roll back
\* together (issue_grant, redeem_grant, close_grant), whatever fault or crash falls
\* between the two statements: issue, redemption and first close of a grant have
\* exactly one record each, and a row that was not so changed has none.
AuditMatchesGrants == \A g \in GrantIds : Paired(grants, audit, g)

\* _authz_lock in authorize(): a grant is bound to the decision of the call that
\* asked for it - allowed, for the same principal and tool - never to that of a
\* concurrent authorize(), and no two grants share a decision.
GrantBoundToItsDecision ==
    \A g \in GrantIds : grants[g] # None =>
        /\ \A k \in GrantIds \ {g} :
              grants[k] # None => grants[k].decision_id # grants[g].decision_id
        /\ grants[g].decision_id \in DOMAIN audit
        /\ LET d == audit[grants[g].decision_id]
           IN  /\ d.kind = "decision" /\ d.reason = "allow"
               /\ d.principal = grants[g].principal_id
               /\ d.tool = grants[g].tool

\* redeem_grant consumes a grant once: over all threads, faults and restarts at most
\* one caller is ever told "ok", it is the principal with the arguments the grant was
\* issued for, and by then the redemption is durable.
OkReachesOnlyTheHolder ==
    \A g \in GrantIds : delivered[g] # <<>> =>
        /\ Len(delivered[g]) = 1
        /\ grants[g] # None /\ grants[g].redeemed
        /\ delivered[g][1] = [p |-> grants[g].principal_id, h |-> grants[g].args_hash]

\* A denial for one of these reasons is final: redeem_grant closes the grant of a
\* tool that is no longer invocable, a closed grant stays closed, the clock it reads
\* under the lock does not run back.  Once such a denial is on record the grant is
\* never redeemed, and an "already_redeemed" denial follows a redemption.
DenialsAreFinal ==
    \A i \in DOMAIN audit : audit[i].kind = "grant_redeem_denied" =>
        /\ audit[i].reason \in {"closed", "expired", "not_invocable"} =>
              ~Has(audit, audit[i].grant, "grant_redeem")
        /\ audit[i].reason = "already_redeemed" =>
              \E j \in 1..(i - 1) : audit[j].kind = "grant_redeem"
                                     /\ audit[j].grant = audit[i].grant

\* Some outcome reported on decision d is on record.
Reported(d) == \E j \in DOMAIN audit : audit[j].kind = "outcome" /\ audit[j].decision_id = d

\* record_outcome closes only the grant of the decision it reports on, and by then the
\* outcome itself is durable, whoever redeems or closes the grant meanwhile; and what it
\* answers ("grant_closed") is true: the outcome is on record and the grant it names
\* belongs to that decision and is closed.  (The reason in a grant_close record says
\* nothing of the kind: close_grant writes whatever reason its caller sends.)
OutcomeCloseIsEarned ==
    \A t \in Threads : loc[t].call = "outcome" =>
        /\ pc[t] \in {"tx_audit", "tx_commit"} =>
              Reported(loc[t].did) /\ grants[loc[t].g].decision_id = loc[t].did
        /\ pc[t] = "reply" /\ loc[t].reason = "outcome_reported" =>
              /\ Reported(loc[t].did)
              /\ loc[t].g # None => /\ grants[loc[t].g] # None
                                    /\ grants[loc[t].g].decision_id = loc[t].did
                                    /\ grants[loc[t].g].closed

Kept ==
    /\ Len(audit) <= Len(audit') /\ SubSeq(audit', 1, Len(audit)) = audit
    /\ \A g \in GrantIds : grants[g] # None =>
          /\ grants'[g] # None
          /\ grants[g].redeemed => grants'[g].redeemed
          /\ grants[g].closed => grants'[g].closed
          /\ \A f \in DOMAIN grants[g] \ {"redeemed", "closed"} :
                grants'[g][f] = grants[g][f]

\* Rows are never deleted and latches never reopen; records are only appended.
\* No rollback, restart or late thread takes back what was committed.
CommittedIsForever == [][Kept]_vars

\* Every call returns: the two locks are always taken in the same order and every
\* path, error paths included, gives them back.
EveryCallReturns == \A t \in Threads : pc[t] # "idle" ~> pc[t] = "idle"

\* The service keeps the promise of GrantLedger.
RowState(row) ==
    CASE row = None -> "absent"
      [] row # None /\ ~row.redeemed /\ ~row.closed -> "issued"
      [] row # None /\ row.redeemed /\ ~row.closed -> "spent"
      [] row # None /\ ~row.redeemed /\ row.closed -> "closed"
      [] row # None /\ row.redeemed /\ row.closed -> "spent_closed"

Ledger == INSTANCE GrantLedger WITH
    state <- [g \in GrantIds |-> RowState(grants[g])],
    uses <- [g \in GrantIds |-> Len(delivered[g])]

ImplementsLedger == Ledger!Spec

-----------------------------------------------------------------------------
(* The inductive invariant behind the theorems of GrantsProofs *)

AuthorizePCs == {"az_lock", "az_decide", "az_log", "az_read", "is_insert", "az_exit"}
RedeemPCs == {"rd_begin", "rd_check", "rd_deny"}
TxnPCs == {"tx_audit", "tx_commit"}

\* What a call knows at each point of its code.
CallOK(label, l) ==
    /\ label \in AuthorizePCs => l.call = "authorize"
    /\ label \in RedeemPCs => l.call = "redeem"
    /\ label \in {"cl_begin", "oc_grant", "oc_find", "oc_log"} =>
          l.call \in {"close", "outcome"}
    /\ label = "rd_check" => l.reason = "ok"
    /\ label \in TxnPCs => l.call \in {"authorize", "redeem", "close", "outcome"}
    /\ label \in {"cl_begin", "oc_grant"} \union TxnPCs => l.g \in GrantIds
    /\ label \in TxnPCs =>
          l.next = IF l.call = "authorize" THEN "az_exit"
                   ELSE IF l.call = "redeem" /\ l.reason # "ok" THEN "rd_deny"
                   ELSE "reply"
    /\ l.call \in {"authorize", "redeem"} => l.p \in Principals /\ l.h \in Hashes
    /\ l.call = "authorize" => l.tool \in Tools
    /\ l.call = "redeem" => l.g \in GrantIds

CallInv == \A t \in Threads : CallOK(pc[t], loc[t])

\* Who holds which lock follows from where the threads are.
HoldsStore(label) == label \in TxnPCs \union {"rd_check"}
HoldsAuthz(label, l) == \/ label \in AuthorizePCs \ {"az_lock"}
                        \/ label \in TxnPCs /\ l.call = "authorize"

LockInv == \A t \in Threads : /\ storeLock = t <=> HoldsStore(pc[t])
                              /\ authzLock = t <=> HoldsAuthz(pc[t], loc[t])

\* What an open transaction has changed, by the record it is going to append.
TxnShape(t) ==
    LET l == loc[t]
        old == grants[l.g]
    IN  /\ l.rec.grant = l.g
        /\ \/ /\ l.rec.kind = "grant_issue" /\ l.call = "authorize"
              /\ old = None
              /\ viewGrants = [grants EXCEPT ![l.g] = NewRow(l, l.exp)]
           \/ /\ l.rec.kind = "grant_redeem" /\ l.call = "redeem" /\ l.reason = "ok"
              /\ old # None /\ ~old.redeemed /\ ~old.closed
              /\ old.principal_id = l.p /\ old.args_hash = l.h
              /\ viewGrants = [grants EXCEPT ![l.g].redeemed = TRUE]
           \/ /\ l.rec.kind = "grant_close" /\ l.call # "authorize"
              /\ l.call = "redeem" => l.reason # "ok"
              /\ old # None /\ l.rec.first = ~old.closed
              /\ viewGrants = [grants EXCEPT ![l.g].closed = TRUE]

\* The row of a redeem that has passed the checks.
Examined(t) ==
    LET row == grants[loc[t].g]
    IN  /\ row # None /\ ~row.redeemed /\ ~row.closed
        /\ row.principal_id = loc[t].p /\ row.args_hash = loc[t].h

\* The connection sees the committed tables plus the one open transaction.
ViewInv ==
    /\ \A t \in Threads : pc[t] = "rd_check" => Examined(t)
    /\ (\A t \in Threads : pc[t] \notin TxnPCs) => viewGrants = grants
    /\ (\A t \in Threads : pc[t] # "tx_commit") => viewAudit = audit
    /\ \A t \in Threads : pc[t] \in TxnPCs => TxnShape(t)
    /\ \A t \in Threads : pc[t] = "tx_commit" => viewAudit = Append(audit, loc[t].rec)

TxnInv == CallInv /\ LockInv /\ ViewInv

\* The decision an authorize() in flight has logged, and not yet spent on a grant.
OwnDecision(t, d) ==
    /\ d \in DOMAIN audit
    /\ audit[d].kind = "decision" /\ audit[d].reason = loc[t].reason
    /\ audit[d].principal = loc[t].p /\ audit[d].tool = loc[t].tool
    /\ \A g \in GrantIds : grants[g] # None => grants[g].decision_id # d

DecisionInv ==
    /\ GrantBoundToItsDecision
    /\ \A t \in Threads :
          /\ pc[t] = "az_read" => OwnDecision(t, lastDecision)
          /\ pc[t] = "is_insert" \/ (pc[t] \in TxnPCs /\ loc[t].call = "authorize") =>
                OwnDecision(t, loc[t].did) /\ loc[t].reason = "allow"

\* record_outcome has recorded the outcome, and looks for the grant of its own decision,
\* before it goes on as close_grant.
OutcomeInv ==
    /\ OutcomeCloseIsEarned
    /\ \A t \in Threads :
          LET l == loc[t]
          IN  /\ pc[t] \in {"oc_find", "oc_log", "oc_grant"} => l.call = "outcome"
              /\ pc[t] \in {"oc_grant", "cl_begin"} /\ l.call = "outcome" => Reported(l.did)
              /\ pc[t] = "cl_begin" /\ l.call = "outcome" =>
                    grants[l.g] # None /\ grants[l.g].decision_id = l.did

\* A thread that is about to tell its caller "ok".
Holding(t) == pc[t] = "reply" /\ loc[t].call = "redeem" /\ loc[t].reason = "ok"

HolderInv ==
    /\ OkReachesOnlyTheHolder
    /\ \A t \in Threads :
          /\ pc[t] = "rd_deny" => loc[t].reason # "ok"
          /\ Holding(t) =>
                /\ grants[loc[t].g] # None /\ grants[loc[t].g].redeemed
                /\ grants[loc[t].g].principal_id = loc[t].p
                /\ grants[loc[t].g].args_hash = loc[t].h
                /\ delivered[loc[t].g] = <<>>
                /\ \A u \in Threads : Holding(u) /\ loc[u].g = loc[t].g => u = t

FinalReasons == {"closed", "expired", "not_invocable"}

\* A redeem of grant g that has passed the checks and may still commit.
Redeeming(t, g) ==
    /\ pc[t] \in TxnPCs \union {"rd_check"}
    /\ loc[t].call = "redeem" /\ loc[t].reason = "ok" /\ loc[t].g = g

\* A grant that will never be redeemed.
Dead(g) ==
    /\ grants[g] # None /\ ~grants[g].redeemed
    /\ grants[g].closed \/ grants[g].expires_at <= now
    /\ \A t \in Threads : ~Redeeming(t, g)

\* A denial on record, or about to be, is of a dead grant, or of one whose redemption is
\* on record before it.
DenialInv ==
    /\ \A i \in DOMAIN audit : audit[i].kind = "grant_redeem_denied" =>
          /\ audit[i].grant \in GrantIds
          /\ audit[i].reason \in FinalReasons => Dead(audit[i].grant)
          /\ audit[i].reason = "already_redeemed" =>
                \E j \in 1..(i - 1) : audit[j].kind = "grant_redeem"
                                       /\ audit[j].grant = audit[i].grant
    /\ \A t \in Threads :
          /\ pc[t] = "rd_deny" =>
                /\ loc[t].reason \in FinalReasons => Dead(loc[t].g)
                /\ loc[t].reason = "already_redeemed" => Has(audit, loc[t].g, "grant_redeem")
          /\ pc[t] \in TxnPCs /\ loc[t].call = "redeem" /\ loc[t].reason # "ok" =>
                loc[t].reason = "not_invocable" /\ ~grants[loc[t].g].redeemed
=============================================================================
