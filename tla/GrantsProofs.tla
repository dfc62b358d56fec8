---------------------------- MODULE GrantsProofs ----------------------------
(***************************************************************************)
(* Theorems about Grants, for every set of threads, principals, tools,     *)
(* argument hashes and grant ids, and every bound.                         *)
(***************************************************************************)
EXTENDS Grants, TLAPS

\* A thread between the checks of redeem_grant and its UPDATE has a row before it.
RowInv == \A t \in Threads : pc[t] = "rd_check" => viewGrants[loc[t].g] # None

\* TypeOK is inductive only together with what a call knows at each point of its
\* code, who holds the locks, and that the row a redeem has examined is still there.
TypeInv == TypeOK /\ CallInv /\ LockInv /\ RowInv

-----------------------------------------------------------------------------
(* Records and local variables *)

LEMMA AppendType ==
    ASSUME NEW S, NEW s \in Seq(S), NEW e \in S
    PROVE  Append(s, e) \in Seq(S)
OBVIOUS

\* Record builds an audit row with the given fields.
LEMMA RecordType ==
    ASSUME NEW k \in Kinds, NEW d \in Nat, NEW g \in GrantIds \union {None}, NEW why \in Reasons
    PROVE  /\ Record(k, d, g, why) \in Rec
           /\ Record(k, d, g, why).kind = k /\ Record(k, d, g, why).decision_id = d
           /\ Record(k, d, g, why).grant = g /\ Record(k, d, g, why).reason = why
BY DEF Record, NoRec, Rec, Kinds, Reasons

\* The local variables of an idle thread are well-typed and claim nothing.
LEMMA NoLocType == NoLoc \in Loc /\ CallOK("idle", NoLoc)
BY DEF NoLoc, NoRec, Loc, Rec, Calls, Kinds, Reasons, PCs, CallOK, AuthorizePCs,
       RedeemPCs, TxnPCs

\* A step of one thread leaves the others where they are.
LEMMA BecomeFacts ==
    ASSUME TypeInv, NEW t \in Threads, NEW label \in PCs, NEW l \in Loc,
           Become(t, label, l), CallOK(label, l)
    PROVE  /\ pc' \in [Threads -> PCs] /\ loc' \in [Threads -> Loc]
           /\ CallInv'
           /\ pc'[t] = label /\ loc'[t] = l
           /\ \A u \in Threads \ {t} : pc'[u] = pc[u] /\ loc'[u] = loc[u]
<1> USE DEF TypeInv, TypeOK, Become
<1>1. pc' \in [Threads -> PCs] /\ loc' \in [Threads -> Loc]
  OBVIOUS
<1>2. pc'[t] = label /\ loc'[t] = l
  OBVIOUS
<1>3. \A u \in Threads \ {t} : pc'[u] = pc[u] /\ loc'[u] = loc[u]
  OBVIOUS
<1>4. CallInv'
  <2>1. ASSUME NEW u \in Threads PROVE CallOK(pc'[u], loc'[u])
    <3>1. CASE u = t
      BY <1>2, <3>1
    <3>2. CASE u # t
      BY <1>3, <3>2 DEF CallInv
    <3>3. QED BY <3>1, <3>2
  <2>2. QED BY <2>1 DEF CallInv
<1>5. QED BY <1>1, <1>2, <1>3, <1>4

\* The two locks after a step of one thread.
LEMMA LockFacts ==
    ASSUME TypeInv, NEW t \in Threads, NEW label \in PCs, NEW l \in Loc,
           Become(t, label, l), CallOK(label, l),
           storeLock' = IF HoldsStore(label) THEN t
                        ELSE IF HoldsStore(pc[t]) THEN None ELSE storeLock,
           authzLock' = IF HoldsAuthz(label, l) THEN t
                        ELSE IF HoldsAuthz(pc[t], loc[t]) THEN None ELSE authzLock,
           HoldsStore(label) => storeLock \in {None, t},
           HoldsAuthz(label, l) => authzLock \in {None, t}
    PROVE  /\ LockInv'
           /\ storeLock' \in Threads \union {None} /\ authzLock' \in Threads \union {None}
<1>1. /\ pc'[t] = label /\ loc'[t] = l
      /\ \A u \in Threads \ {t} : pc'[u] = pc[u] /\ loc'[u] = loc[u]
  BY BecomeFacts
<1>2. storeLock' \in Threads \union {None} /\ authzLock' \in Threads \union {None}
  BY DEF TypeInv, TypeOK
<1>3. ASSUME NEW u \in Threads
      PROVE  /\ storeLock' = u <=> HoldsStore(pc'[u])
             /\ authzLock' = u <=> HoldsAuthz(pc'[u], loc'[u])
  <2>1. None \notin Threads
    BY ConstantsAssumption
  <2>2. /\ storeLock = u <=> HoldsStore(pc[u])
        /\ authzLock = u <=> HoldsAuthz(pc[u], loc[u])
        /\ storeLock = t <=> HoldsStore(pc[t])
        /\ authzLock = t <=> HoldsAuthz(pc[t], loc[t])
    BY DEF TypeInv, LockInv
  <2>3. CASE u = t
    BY <1>1, <2>1, <2>2, <2>3
  <2>4. CASE u # t
    BY <1>1, <2>1, <2>2, <2>4
  <2>5. QED BY <2>3, <2>4
<1>4. QED BY <1>2, <1>3 DEF LockInv

\* A step of thread t that moves it to label with local variables l, takes and gives
\* back the locks as the two places require, and changes rows only under the lock.
ThreadStep(t, label, l) ==
    /\ Become(t, label, l)
    /\ label \in PCs /\ l \in Loc /\ CallOK(label, l)
    /\ storeLock' = IF HoldsStore(label) THEN t
                    ELSE IF HoldsStore(pc[t]) THEN None ELSE storeLock
    /\ authzLock' = IF HoldsAuthz(label, l) THEN t
                    ELSE IF HoldsAuthz(pc[t], loc[t]) THEN None ELSE authzLock
    /\ HoldsStore(label) => storeLock \in {None, t}
    /\ HoldsAuthz(label, l) => authzLock \in {None, t}
    /\ viewGrants' = viewGrants \/ storeLock' \in {None, t}
    /\ label = "rd_check" => viewGrants'[l.g] # None

RowsOK == /\ grants \in [GrantIds -> Row \union {None}]
          /\ viewGrants \in [GrantIds -> Row \union {None}]
LogsOK == audit \in Seq(Rec) /\ viewAudit \in Seq(Rec)
DeliveredOK == delivered \in [GrantIds -> Seq([p : Principals, h : Hashes])]
CountsOK == /\ now \in Nat /\ invocable \in [Tools -> BOOLEAN]
            /\ lastDecision \in Nat /\ calls \in Nat /\ crashes \in Nat

DataOK == RowsOK /\ LogsOK /\ DeliveredOK /\ CountsOK

\* What is left to show of a thread's step: that the data stay well-typed.
LEMMA ThreadStepTypes ==
    ASSUME TypeInv, NEW t \in Threads, NEW label, NEW l, ThreadStep(t, label, l), DataOK'
    PROVE  TypeInv'
<1> USE DEF ThreadStep
<1>1. pc' \in [Threads -> PCs] /\ loc' \in [Threads -> Loc] /\ CallInv'
  BY BecomeFacts
<1>2. LockInv' /\ storeLock' \in Threads \union {None} /\ authzLock' \in Threads \union {None}
  BY LockFacts
<1>3. /\ pc'[t] = label /\ loc'[t] = l
      /\ \A u \in Threads \ {t} : pc'[u] = pc[u] /\ loc'[u] = loc[u]
  BY BecomeFacts
<1>4. ASSUME NEW u \in Threads, pc'[u] = "rd_check" PROVE viewGrants'[loc'[u].g] # None
  <2>1. CASE u = t
    BY <1>3, <1>4, <2>1
  <2>2. CASE u # t
    <3>1. storeLock' = u
      BY <1>2, <1>4 DEF LockInv, HoldsStore
    <3>2. viewGrants' = viewGrants
      BY <2>2, <3>1, ConstantsAssumption
    <3>3. pc[u] = "rd_check" /\ loc'[u] = loc[u]
      BY <1>3, <1>4, <2>2
    <3>4. viewGrants[loc[u].g] # None
      BY <3>3 DEF TypeInv, RowInv
    <3>5. QED BY <3>2, <3>3, <3>4
  <2>3. QED BY <2>1, <2>2
<1>5. RowInv'
  BY <1>4 DEF RowInv
<1>6. QED BY <1>1, <1>2, <1>5 DEF TypeInv, TypeOK, DataOK, RowsOK, LogsOK, DeliveredOK, CountsOK

-----------------------------------------------------------------------------
(* Type correctness: every action of a thread is a ThreadStep *)

LEMMA ThreadFacts ==
    ASSUME TypeInv, NEW t \in Threads
    PROVE  /\ pc[t] \in PCs /\ loc[t] \in Loc /\ CallOK(pc[t], loc[t])
           /\ storeLock = t <=> HoldsStore(pc[t])
           /\ authzLock = t <=> HoldsAuthz(pc[t], loc[t])
           /\ t # None /\ DataOK
BY ConstantsAssumption
   DEF TypeInv, TypeOK, CallInv, LockInv, DataOK, RowsOK, LogsOK, DeliveredOK, CountsOK

LEMMA TypeInit == Init => TypeInv
<1> SUFFICES ASSUME Init PROVE TypeInv
  OBVIOUS
<1>1. \A t \in Threads : pc[t] = "idle" /\ loc[t] = NoLoc
  BY DEF Init
<1>2. TypeOK
  BY NoLocType DEF Init, TypeOK, PCs
<1>3. CallInv
  BY <1>1, NoLocType DEF CallInv
<1>4. LockInv
  BY <1>1, ConstantsAssumption
     DEF LockInv, HoldsStore, HoldsAuthz, TxnPCs, AuthorizePCs, Init
<1>5. RowInv
  BY <1>1 DEF RowInv
<1>6. QED BY <1>2, <1>3, <1>4, <1>5 DEF TypeInv

LEMMA TypeStart ==
    ASSUME TypeInv, NEW t \in Threads, Call(t)
    PROVE  TypeInv'
<1> USE DEF Start, db, view, env, ghosts
<1>0. DataOK /\ DOMAIN audit \subseteq Nat
  <2>1. DataOK
    BY ThreadFacts
  <2>2. audit \in Seq(Rec)
    BY <2>1 DEF DataOK, LogsOK
  <2>3. QED BY <2>1, <2>2
<1>1. ASSUME NEW label \in {"az_lock", "rd_begin", "cl_begin", "oc_find"}, NEW l \in Loc,
             CallOK(label, l), Start(t, label, l)
      PROVE  TypeInv'
  <2>1. pc[t] = "idle"
    BY <1>1
  <2>2. /\ ~HoldsStore(label) /\ ~HoldsAuthz(label, l)
        /\ ~HoldsStore(pc[t]) /\ ~HoldsAuthz(pc[t], loc[t]) /\ label \in PCs
    BY <2>1 DEF HoldsStore, HoldsAuthz, TxnPCs, AuthorizePCs, PCs
  <2>3. ThreadStep(t, label, l)
    <3>1. /\ Become(t, label, l) /\ storeLock' = storeLock /\ authzLock' = authzLock
          /\ viewGrants' = viewGrants /\ label # "rd_check"
      BY <1>1
    <3>2. QED BY <1>1, <2>2, <3>1 DEF ThreadStep
  <2>4. RowsOK' /\ LogsOK' /\ DeliveredOK'
    BY <1>0, <1>1 DEF DataOK, RowsOK, LogsOK, DeliveredOK
  <2>5. CountsOK'
    BY <1>0, <1>1 DEF DataOK, CountsOK
  <2>6. QED BY <2>3, <2>4, <2>5, ThreadStepTypes DEF DataOK
<1> USE DEF NoLoc, NoRec, Loc, Rec, Calls, Kinds, Reasons, PCs, CallOK, AuthorizePCs,
            RedeemPCs, TxnPCs
<1>2. CASE CallAuthorize(t)
  <2>1. PICK p \in Principals, x \in Tools, h \in Hashes, want \in BOOLEAN :
          Start(t, "az_lock", [NoLoc EXCEPT !.call = "authorize", !.p = p, !.tool = x,
                                            !.h = h, !.want = want])
    BY <1>2 DEF CallAuthorize
  <2>2. QED BY <2>1, <1>1
<1>3. CASE CallRedeem(t)
  <2>1. PICK p \in Principals, h \in Hashes, g \in GrantIds :
          Start(t, "rd_begin", [NoLoc EXCEPT !.call = "redeem", !.p = p, !.h = h, !.g = g])
    BY <1>3 DEF CallRedeem
  <2>2. QED BY <2>1, <1>1
<1>4. CASE CallClose(t)
  <2>1. PICK g \in GrantIds, why \in CloseReasons :
          Start(t, "cl_begin", [NoLoc EXCEPT !.call = "close", !.g = g, !.reason = why])
    BY <1>4 DEF CallClose
  <2>2. QED BY <2>1, <1>1 DEF CloseReasons
<1>5. CASE CallOutcome(t)
  <2>1. PICK d \in DOMAIN audit, g \in GrantIds \union {None} :
          Start(t, "oc_find", [NoLoc EXCEPT !.call = "outcome", !.did = d, !.g = g,
                                            !.reason = "outcome_reported"])
    BY <1>5 DEF CallOutcome
  <2>2. d \in Nat
    BY <1>0
  <2>3. QED BY <2>1, <2>2, <1>1
<1>6. QED BY <1>2, <1>3, <1>4, <1>5 DEF Call

\* A step that leaves the tables, the answers and the counters alone.
LEMMA DataUnchanged ==
    ASSUME DataOK, UNCHANGED <<env, db, view, lastDecision, ghosts>>
    PROVE  DataOK'
BY DEF DataOK, RowsOK, LogsOK, DeliveredOK, CountsOK, env, db, view, ghosts

\* Where a raised exception may be met, and what it does to the call.
LEMMA RaiseFacts ==
    ASSUME TypeInv, NEW t \in Threads, Raise(t),
           pc[t] \in TxnPCs \union {"az_log", "is_insert", "rd_begin", "rd_check", "rd_deny",
                                  "cl_begin", "oc_find", "oc_log", "oc_grant"}
    PROVE  \E label \in {"az_exit", "reply"}, l \in Loc :
             /\ Become(t, label, l) /\ CallOK(label, l)
             /\ HoldsAuthz(label, l) <=> HoldsAuthz(pc[t], loc[t])
<1> DEFINE label == IF loc[t].call = "authorize" THEN "az_exit" ELSE "reply"
           l == [loc[t] EXCEPT !.reason = "error"]
<1>1. pc[t] \in PCs /\ loc[t] \in Loc /\ CallOK(pc[t], loc[t])
  BY ThreadFacts
<1>2. l \in Loc
  BY <1>1 DEF Loc, Reasons
<1>3. /\ l.call = loc[t].call /\ l.p = loc[t].p /\ l.h = loc[t].h /\ l.tool = loc[t].tool
      /\ l.g = loc[t].g
  BY <1>1 DEF Loc
<1>4. CallOK(label, l)
  BY <1>1, <1>3 DEF CallOK, AuthorizePCs, RedeemPCs, TxnPCs
<1>5. HoldsAuthz(label, l) <=> HoldsAuthz(pc[t], loc[t])
  BY <1>1, <1>3 DEF HoldsAuthz, CallOK, AuthorizePCs, RedeemPCs, TxnPCs
<1>6. Become(t, label, l)
  BY DEF Raise
<1>7. QED BY <1>2, <1>4, <1>5, <1>6

LEMMA TypeTxn ==
    ASSUME TypeInv, NEW t \in Threads,
           TxnAudit(t) \/ TxnCommit(t) \/ TxnFault(t) \/ AppendFault(t)
    PROVE  TypeInv'
<1> USE DEF env, db, view, ghosts
<1>0. /\ pc[t] \in PCs /\ loc[t] \in Loc /\ CallOK(pc[t], loc[t])
      /\ storeLock = t <=> HoldsStore(pc[t])
      /\ authzLock = t <=> HoldsAuthz(pc[t], loc[t])
      /\ t # None /\ RowsOK /\ LogsOK /\ DeliveredOK /\ CountsOK
  BY ThreadFacts DEF DataOK
<1>1. CASE TxnAudit(t)
  <2>1. CallOK("tx_commit", loc[t])
    BY <1>0, <1>1 DEF TxnAudit, CallOK, AuthorizePCs, RedeemPCs, TxnPCs
  <2>2. /\ HoldsStore("tx_commit") /\ HoldsStore(pc[t]) /\ "tx_commit" \in PCs
        /\ HoldsAuthz("tx_commit", loc[t]) <=> HoldsAuthz(pc[t], loc[t])
    BY <1>1 DEF TxnAudit, HoldsStore, HoldsAuthz, TxnPCs, AuthorizePCs, PCs
  <2>3. ThreadStep(t, "tx_commit", loc[t])
    BY <1>0, <1>1, <2>1, <2>2 DEF TxnAudit, Goto, ThreadStep
  <2>4. LogsOK'
    BY <1>0, <1>1 DEF TxnAudit, LogsOK, Loc
  <2>5. RowsOK' /\ DeliveredOK' /\ CountsOK'
    BY <1>0, <1>1 DEF TxnAudit, RowsOK, DeliveredOK, CountsOK
  <2>6. QED BY <2>3, <2>4, <2>5, ThreadStepTypes DEF DataOK
<1>2. CASE TxnCommit(t)
  <2> DEFINE label == loc[t].next
  <2>1. label \in PCs /\ label \in {"az_exit", "rd_deny", "reply"}
    BY <1>0, <1>2 DEF TxnCommit, CallOK, TxnPCs, Loc
  <2>2. CallOK(label, loc[t])
    BY <1>0, <1>2 DEF TxnCommit, CallOK, AuthorizePCs, RedeemPCs, TxnPCs
  <2>3. /\ ~HoldsStore(label) /\ HoldsStore(pc[t])
        /\ HoldsAuthz(label, loc[t]) <=> HoldsAuthz(pc[t], loc[t])
    BY <1>0, <1>2, <2>1 DEF TxnCommit, CallOK, HoldsStore, HoldsAuthz, TxnPCs, AuthorizePCs
  <2>4. ThreadStep(t, label, loc[t])
    <3>1. Become(t, label, loc[t]) /\ storeLock' = None /\ authzLock' = authzLock
      BY <1>2 DEF TxnCommit, Goto
    <3>2. label # "rd_check"
      BY <2>1
    <3>3. QED BY <1>0, <2>1, <2>2, <2>3, <3>1, <3>2 DEF ThreadStep
  <2>5. RowsOK' /\ LogsOK' /\ DeliveredOK' /\ CountsOK'
    BY <1>0, <1>2 DEF TxnCommit, RowsOK, LogsOK, DeliveredOK, CountsOK
  <2>6. QED BY <2>4, <2>5, ThreadStepTypes DEF DataOK
<1>3. CASE TxnFault(t)
  <2>1. pc[t] \in TxnPCs \union {"rd_check"} /\ HoldsStore(pc[t]) /\ Raise(t)
    BY <1>3 DEF TxnFault, Abandon, TxnPCs, HoldsStore
  <2>2. PICK label \in {"az_exit", "reply"}, l \in Loc :
             /\ Become(t, label, l) /\ CallOK(label, l)
             /\ HoldsAuthz(label, l) <=> HoldsAuthz(pc[t], loc[t])
    BY <2>1, RaiseFacts
  <2>3. ~HoldsStore(label) /\ label \in PCs
    BY DEF HoldsStore, TxnPCs, PCs
  <2>4. ThreadStep(t, label, l)
    <3>1. storeLock' = None /\ authzLock' = authzLock /\ label # "rd_check"
      BY <1>3 DEF TxnFault, Abandon
    <3>2. QED BY <1>0, <2>1, <2>2, <2>3, <3>1 DEF ThreadStep
  <2>5. RowsOK' /\ LogsOK' /\ DeliveredOK' /\ CountsOK'
    BY <1>0, <1>3 DEF TxnFault, Abandon, RowsOK, LogsOK, DeliveredOK, CountsOK
  <2>6. QED BY <2>4, <2>5, ThreadStepTypes DEF DataOK
<1>4. CASE AppendFault(t)
  <2>1. /\ pc[t] \in {"az_log", "is_insert", "rd_begin", "rd_deny", "cl_begin", "oc_log"}
        /\ Raise(t) /\ ~HoldsStore(pc[t])
    BY <1>4 DEF AppendFault, TxnPCs, HoldsStore
  <2>2. PICK label \in {"az_exit", "reply"}, l \in Loc :
             /\ Become(t, label, l) /\ CallOK(label, l)
             /\ HoldsAuthz(label, l) <=> HoldsAuthz(pc[t], loc[t])
    BY <2>1, RaiseFacts
  <2>3. ~HoldsStore(label) /\ label \in PCs
    BY DEF HoldsStore, TxnPCs, PCs
  <2>4. ThreadStep(t, label, l)
    <3>1. /\ storeLock' = storeLock /\ authzLock' = authzLock /\ label # "rd_check"
          /\ viewGrants' = viewGrants
      BY <1>4 DEF AppendFault
    <3>2. QED BY <1>0, <2>1, <2>2, <2>3, <3>1 DEF ThreadStep
  <2>5. RowsOK' /\ LogsOK' /\ DeliveredOK' /\ CountsOK'
    BY <1>0, <1>4 DEF AppendFault, RowsOK, LogsOK, DeliveredOK, CountsOK
  <2>6. QED BY <2>4, <2>5, ThreadStepTypes DEF DataOK
<1>5. QED BY <1>1, <1>2, <1>3, <1>4

LEMMA TypeAuthorize ==
    ASSUME TypeInv, NEW t \in Threads,
           \/ AuthzEnter(t) \/ Decide(t) \/ LogDecision(t) \/ ReadDecisionId(t)
           \/ IssueInsert(t) \/ AuthzExit(t)
    PROVE  TypeInv'
<1> USE DEF env, db, view, ghosts
<1>0. /\ pc[t] \in PCs /\ loc[t] \in Loc /\ CallOK(pc[t], loc[t])
      /\ storeLock = t <=> HoldsStore(pc[t])
      /\ authzLock = t <=> HoldsAuthz(pc[t], loc[t])
      /\ t # None /\ RowsOK /\ LogsOK /\ DeliveredOK /\ CountsOK
  BY ThreadFacts DEF DataOK
<1>1. CASE AuthzEnter(t)
  <2>1. CallOK("az_decide", loc[t])
    BY <1>0, <1>1 DEF AuthzEnter, CallOK, AuthorizePCs, RedeemPCs, TxnPCs
  <2>2. /\ ~HoldsStore("az_decide") /\ ~HoldsStore(pc[t]) /\ "az_decide" \in PCs
        /\ HoldsAuthz("az_decide", loc[t])
    BY <1>1 DEF AuthzEnter, HoldsStore, HoldsAuthz, TxnPCs, AuthorizePCs, PCs
  <2>3. ThreadStep(t, "az_decide", loc[t])
    BY <1>0, <1>1, <2>1, <2>2 DEF AuthzEnter, Goto, ThreadStep
  <2>4. DataOK'
    BY <1>0, <1>1, DataUnchanged DEF AuthzEnter, DataOK
  <2>5. QED BY <2>3, <2>4, ThreadStepTypes
<1>2. CASE Decide(t)
  <2>1. PICK verdict \in {"allow", "deny"} :
               Become(t, "az_log", [loc[t] EXCEPT !.reason = verdict])
    BY <1>2 DEF Decide
  <2> DEFINE l == [loc[t] EXCEPT !.reason = verdict]
  <2>2. l \in Loc /\ l.call = loc[t].call /\ l.p = loc[t].p /\ l.h = loc[t].h
        /\ l.tool = loc[t].tool
    BY <1>0 DEF Loc, Reasons
  <2>3. CallOK("az_log", l)
    BY <1>0, <1>2, <2>2 DEF Decide, CallOK, AuthorizePCs, RedeemPCs, TxnPCs
  <2>4. /\ ~HoldsStore("az_log") /\ ~HoldsStore(pc[t]) /\ "az_log" \in PCs
        /\ HoldsAuthz("az_log", l) /\ HoldsAuthz(pc[t], loc[t])
    BY <1>2 DEF Decide, HoldsStore, HoldsAuthz, TxnPCs, AuthorizePCs, PCs
  <2>5. ThreadStep(t, "az_log", l)
    <3>1. storeLock' = storeLock /\ authzLock' = authzLock /\ viewGrants' = viewGrants
      BY <1>2 DEF Decide
    <3>2. QED BY <1>0, <2>1, <2>2, <2>3, <2>4, <3>1 DEF ThreadStep
  <2>6. DataOK'
    BY <1>0, <1>2, DataUnchanged DEF Decide, DataOK
  <2>7. QED BY <2>5, <2>6, ThreadStepTypes
<1>3. CASE LogDecision(t)
  <2>1. CallOK("az_read", loc[t])
    BY <1>0, <1>3 DEF LogDecision, CallOK, AuthorizePCs, RedeemPCs, TxnPCs
  <2>2. /\ ~HoldsStore("az_read") /\ ~HoldsStore(pc[t]) /\ "az_read" \in PCs
        /\ HoldsAuthz("az_read", loc[t]) /\ HoldsAuthz(pc[t], loc[t])
    BY <1>3 DEF LogDecision, HoldsStore, HoldsAuthz, TxnPCs, AuthorizePCs, PCs
  <2>3. ThreadStep(t, "az_read", loc[t])
    <3>1. /\ storeLock' = storeLock /\ authzLock' = authzLock /\ viewGrants' = viewGrants
          /\ Become(t, "az_read", loc[t])
      BY <1>3 DEF LogDecision, AppendAudit, Goto
    <3>2. QED BY <1>0, <2>1, <2>2, <3>1 DEF ThreadStep
  <2>4. Len(viewAudit) + 1 \in Nat
    BY <1>0 DEF LogsOK
  <2>5. DecisionRecord(t, Len(viewAudit) + 1) \in Rec
    <3>1. loc[t].reason \in Reasons /\ loc[t].p \in Principals \union {None}
          /\ loc[t].tool \in Tools \union {None}
      BY <1>0 DEF Loc
    <3>2. Record("decision", Len(viewAudit) + 1, None, loc[t].reason) \in Rec
      BY <2>4, <3>1, RecordType DEF Kinds
    <3>3. QED BY <3>1, <3>2 DEF DecisionRecord, Rec
  <2>6. LogsOK'
    BY <1>0, <1>3, <2>5 DEF LogDecision, AppendAudit, LogsOK
  <2>7. RowsOK' /\ DeliveredOK'
    BY <1>0, <1>3 DEF LogDecision, AppendAudit, RowsOK, DeliveredOK
  <2>8. CountsOK'
    BY <1>0, <1>3, <2>4 DEF LogDecision, CountsOK
  <2>9. QED BY <2>3, <2>6, <2>7, <2>8, ThreadStepTypes DEF DataOK
<1>4. CASE ReadDecisionId(t)
  <2> DEFINE label == IF loc[t].want /\ loc[t].reason = "allow" THEN "is_insert" ELSE "az_exit"
  <2>1. PICK ttl \in TTLs :
          Become(t, label, [loc[t] EXCEPT !.did = lastDecision, !.exp = now + ttl])
    BY <1>4 DEF ReadDecisionId
  <2> DEFINE l == [loc[t] EXCEPT !.did = lastDecision, !.exp = now + ttl]
  <2>2. lastDecision \in Nat /\ now + ttl \in Nat
    BY <1>0, ConstantsAssumption DEF CountsOK
  <2>3. l \in Loc /\ l.call = loc[t].call /\ l.p = loc[t].p /\ l.h = loc[t].h
        /\ l.tool = loc[t].tool
    BY <1>0, <2>2 DEF Loc
  <2>4. label \in {"is_insert", "az_exit"}
    OBVIOUS
  <2>5. CallOK(label, l)
    BY <1>0, <1>4, <2>3, <2>4 DEF ReadDecisionId, CallOK, AuthorizePCs, RedeemPCs, TxnPCs
  <2>6. /\ ~HoldsStore(label) /\ ~HoldsStore(pc[t]) /\ label \in PCs
        /\ HoldsAuthz(label, l) /\ HoldsAuthz(pc[t], loc[t])
    BY <1>4, <2>4 DEF ReadDecisionId, HoldsStore, HoldsAuthz, TxnPCs, AuthorizePCs, PCs
  <2>7. ThreadStep(t, label, l)
    <3>1. /\ storeLock' = storeLock /\ authzLock' = authzLock /\ viewGrants' = viewGrants
          /\ label # "rd_check"
      BY <1>4, <2>4 DEF ReadDecisionId
    <3>2. QED BY <1>0, <2>1, <2>3, <2>5, <2>6, <3>1 DEF ThreadStep
  <2>8. DataOK'
    BY <1>0, <1>4, DataUnchanged DEF ReadDecisionId, DataOK
  <2>9. QED BY <2>7, <2>8, ThreadStepTypes
<1>5. CASE IssueInsert(t)
  <2>1. PICK g \in GrantIds : Insert(t, g, loc[t].exp)
    BY <1>5 DEF IssueInsert
  <2> DEFINE l == [loc[t] EXCEPT !.g = g, !.next = "az_exit",
                                 !.rec = Record("grant_issue", loc[t].did, g, "")]
  <2>2. loc[t].did \in Nat /\ loc[t].exp \in Nat
    BY <1>0 DEF Loc
  <2>3. Record("grant_issue", loc[t].did, g, "") \in Rec
    BY <2>2, RecordType DEF Kinds, Reasons
  <2>4. /\ l \in Loc /\ l.call = loc[t].call /\ l.p = loc[t].p /\ l.h = loc[t].h
        /\ l.tool = loc[t].tool /\ l.g = g /\ l.next = "az_exit"
    BY <1>0, <2>3 DEF Loc, PCs
  <2>5. pc[t] = "is_insert" /\ loc[t].call = "authorize" /\ storeLock = None
        /\ loc[t].p \in Principals /\ loc[t].h \in Hashes /\ loc[t].tool \in Tools
    BY <1>0, <2>1 DEF Insert, CallOK, AuthorizePCs
  <2>6. CallOK("tx_audit", l)
    BY <2>4, <2>5 DEF CallOK, AuthorizePCs, RedeemPCs, TxnPCs
  <2>7. /\ HoldsStore("tx_audit") /\ "tx_audit" \in PCs
        /\ HoldsAuthz("tx_audit", l) /\ HoldsAuthz(pc[t], loc[t])
    BY <2>4, <2>5 DEF HoldsStore, HoldsAuthz, TxnPCs, AuthorizePCs, PCs
  <2>8. ThreadStep(t, "tx_audit", l)
    <3>1. storeLock' = t /\ authzLock' = authzLock /\ Become(t, "tx_audit", l)
      BY <2>1 DEF Insert
    <3>2. QED BY <1>0, <2>4, <2>5, <2>6, <2>7, <3>1 DEF ThreadStep
  <2>9. NewRow(loc[t], loc[t].exp) \in Row
    BY <2>2, <2>5 DEF NewRow, Row
  <2>10. RowsOK'
    BY <1>0, <2>1, <2>9 DEF Insert, RowsOK
  <2>11. LogsOK' /\ DeliveredOK' /\ CountsOK'
    BY <1>0, <2>1 DEF Insert, LogsOK, DeliveredOK, CountsOK
  <2>12. QED BY <2>8, <2>10, <2>11, ThreadStepTypes DEF DataOK
<1>6. CASE AuthzExit(t)
  <2>1. CallOK("reply", loc[t])
    BY <1>0, <1>6 DEF AuthzExit, CallOK, AuthorizePCs, RedeemPCs, TxnPCs
  <2>2. /\ ~HoldsStore("reply") /\ ~HoldsStore(pc[t]) /\ "reply" \in PCs
        /\ ~HoldsAuthz("reply", loc[t]) /\ HoldsAuthz(pc[t], loc[t])
    BY <1>6 DEF AuthzExit, HoldsStore, HoldsAuthz, TxnPCs, AuthorizePCs, PCs
  <2>3. ThreadStep(t, "reply", loc[t])
    BY <1>0, <1>6, <2>1, <2>2 DEF AuthzExit, Goto, ThreadStep
  <2>4. DataOK'
    BY <1>0, <1>6, DataUnchanged DEF AuthzExit, DataOK
  <2>5. QED BY <2>3, <2>4, ThreadStepTypes
<1>7. QED BY <1>1, <1>2, <1>3, <1>4, <1>5, <1>6

LEMMA TypeRedeem ==
    ASSUME TypeInv, NEW t \in Threads, RedeemBegin(t) \/ RedeemApply(t) \/ RedeemDenied(t)
    PROVE  TypeInv'
<1> USE DEF env, db, view, ghosts
<1>0. /\ pc[t] \in PCs /\ loc[t] \in Loc /\ CallOK(pc[t], loc[t])
      /\ storeLock = t <=> HoldsStore(pc[t])
      /\ authzLock = t <=> HoldsAuthz(pc[t], loc[t])
      /\ t # None /\ RowsOK /\ LogsOK /\ DeliveredOK /\ CountsOK
  BY ThreadFacts DEF DataOK
<1>1. CASE RedeemBegin(t)
  <2> DEFINE row == viewGrants[loc[t].g]
             verdict == RedeemVerdict(row, loc[t].p, loc[t].h, now)
             label == IF verdict = "ok" THEN "rd_check" ELSE "rd_deny"
             did == IF row = None THEN 0 ELSE row.decision_id
             l == [loc[t] EXCEPT !.reason = verdict, !.did = did]
  <2>1. /\ pc[t] = "rd_begin" /\ storeLock = None
        /\ storeLock' = (IF verdict = "ok" THEN t ELSE None)
        /\ Become(t, label, l)
        /\ UNCHANGED <<env, db, view, authzLock, lastDecision, ghosts>>
    BY <1>1 DEF RedeemBegin, Examine
  <2>2. loc[t].call = "redeem" /\ loc[t].g \in GrantIds /\ loc[t].p \in Principals
        /\ loc[t].h \in Hashes
    BY <1>0, <2>1 DEF CallOK, RedeemPCs
  <2>3. row \in Row \union {None} /\ did \in Nat
    BY <1>0, <2>2, ConstantsAssumption DEF RowsOK, Row
  <2>4. verdict \in Reasons /\ (verdict = "ok" => row # None)
    BY DEF RedeemVerdict, Reasons, DenyReasons
  <2> HIDE DEF verdict, did
  <2>5. l \in Loc /\ l.call = "redeem" /\ l.g = loc[t].g /\ l.p = loc[t].p /\ l.h = loc[t].h
        /\ l.reason = verdict
    BY <1>0, <2>2, <2>3, <2>4 DEF Loc
  <2>6. CallOK(label, l)
    BY <2>2, <2>5 DEF CallOK, AuthorizePCs, RedeemPCs, TxnPCs
  <2>7. /\ HoldsStore(label) <=> verdict = "ok"
        /\ ~HoldsStore(pc[t]) /\ label \in PCs
        /\ ~HoldsAuthz(label, l) /\ ~HoldsAuthz(pc[t], loc[t])
        /\ label = "rd_check" => verdict = "ok"
    BY <2>1 DEF HoldsStore, HoldsAuthz, TxnPCs, AuthorizePCs, PCs
  <2>8. ThreadStep(t, label, l)
    <3>1. viewGrants' = viewGrants /\ authzLock' = authzLock
      BY <2>1
    <3>2. label = "rd_check" => viewGrants'[l.g] # None
      BY <2>4, <2>5, <2>7, <3>1
    <3> HIDE DEF label, l
    <3>3. QED BY <2>1, <2>5, <2>6, <2>7, <3>1, <3>2 DEF ThreadStep
  <2>9. DataOK'
    BY <1>0, <2>1, DataUnchanged DEF DataOK
  <2>10. QED BY <2>8, <2>9, ThreadStepTypes
<1>2. CASE RedeemApply(t)
  <2>1. /\ pc[t] = "rd_check" /\ loc[t].call = "redeem" /\ loc[t].g \in GrantIds
        /\ loc[t].p \in Principals /\ loc[t].h \in Hashes /\ loc[t].reason = "ok"
        /\ HoldsStore(pc[t]) /\ storeLock = t
        /\ UNCHANGED <<env, db, viewAudit, storeLock, authzLock, lastDecision, ghosts>>
    BY <1>0, <1>2 DEF RedeemApply, CallOK, RedeemPCs, HoldsStore
  <2>2. viewGrants[loc[t].g] \in Row
    BY <1>0, <2>1 DEF TypeInv, RowInv, RowsOK
  <2>3. loc[t].did \in Nat
    BY <1>0 DEF Loc
  <2>4. ASSUME NEW l \in Loc, l.call = "redeem", l.g = loc[t].g, l.p = loc[t].p, l.h = loc[t].h,
               l.next = IF l.reason # "ok" THEN "rd_deny" ELSE "reply",
               Become(t, "tx_audit", l),
               NEW row \in Row, viewGrants' = [viewGrants EXCEPT ![loc[t].g] = row]
        PROVE  TypeInv'
    <3>1. CallOK("tx_audit", l)
      BY <2>1, <2>4 DEF CallOK, AuthorizePCs, RedeemPCs, TxnPCs
    <3>2. /\ HoldsStore("tx_audit") /\ "tx_audit" \in PCs
          /\ ~HoldsAuthz("tx_audit", l) /\ ~HoldsAuthz(pc[t], loc[t])
      BY <2>1, <2>4 DEF HoldsStore, HoldsAuthz, TxnPCs, AuthorizePCs, PCs
    <3>3. ThreadStep(t, "tx_audit", l)
      BY <2>1, <2>4, <3>1, <3>2 DEF ThreadStep
    <3>4. RowsOK'
      BY <1>0, <2>1, <2>4 DEF RowsOK
    <3>5. LogsOK' /\ DeliveredOK' /\ CountsOK'
      BY <1>0, <2>1 DEF LogsOK, DeliveredOK, CountsOK
    <3>6. QED BY <3>3, <3>4, <3>5, ThreadStepTypes DEF DataOK
  <2>5. CASE Spend(t)
    <3> DEFINE rec == [Record("grant_redeem", loc[t].did, loc[t].g, "")
                         EXCEPT !.principal = loc[t].p]
               l == [loc[t] EXCEPT !.next = "reply", !.rec = rec]
    <3>1. rec \in Rec
      <4>1. Record("grant_redeem", loc[t].did, loc[t].g, "") \in Rec
        BY <2>1, <2>3, RecordType DEF Kinds, Reasons
      <4>2. QED BY <2>1, <4>1 DEF Rec
    <3>2. Become(t, "tx_audit", l)
      BY <2>5 DEF Spend
    <3> HIDE DEF rec
    <3>3. /\ l \in Loc /\ l.call = "redeem" /\ l.g = loc[t].g /\ l.p = loc[t].p
          /\ l.h = loc[t].h /\ l.next = "reply" /\ l.reason = "ok"
      BY <1>0, <2>1, <3>1 DEF Loc, PCs
    <3>4. viewGrants' = [viewGrants EXCEPT ![loc[t].g] = [@ EXCEPT !.redeemed = TRUE]]
      BY <2>5 DEF Spend
    <3>5. [viewGrants[loc[t].g] EXCEPT !.redeemed = TRUE] \in Row
      BY <2>2 DEF Row
    <3>6. QED BY <2>4, <3>2, <3>3, <3>4, <3>5
  <2>6. CASE Kill(t, [viewGrants EXCEPT ![loc[t].g].closed = TRUE])
    <3> DEFINE rec == [Record("grant_close", loc[t].did, loc[t].g, "not_invocable")
                         EXCEPT !.first = TRUE]
               l == [loc[t] EXCEPT !.reason = "not_invocable", !.next = "rd_deny", !.rec = rec]
    <3>1. rec \in Rec
      <4>1. Record("grant_close", loc[t].did, loc[t].g, "not_invocable") \in Rec
        BY <2>1, <2>3, RecordType DEF Kinds, Reasons, DenyReasons
      <4>2. QED BY <4>1 DEF Rec
    <3>2. Become(t, "tx_audit", l)
      BY <2>6 DEF Kill
    <3> HIDE DEF rec
    <3>3. /\ l \in Loc /\ l.call = "redeem" /\ l.g = loc[t].g /\ l.p = loc[t].p
          /\ l.h = loc[t].h /\ l.next = "rd_deny" /\ l.reason = "not_invocable"
      BY <1>0, <2>1, <3>1 DEF Loc, PCs, Reasons, DenyReasons
    <3>4. viewGrants' = [viewGrants EXCEPT ![loc[t].g] = [@ EXCEPT !.closed = TRUE]]
      BY <2>6 DEF Kill
    <3>5. [viewGrants[loc[t].g] EXCEPT !.closed = TRUE] \in Row
      BY <2>2 DEF Row
    <3>6. QED BY <2>4, <3>2, <3>3, <3>4, <3>5
  <2>7. QED BY <1>2, <2>5, <2>6 DEF RedeemApply
<1>3. CASE RedeemDenied(t)
  <2> DEFINE rec == [Record("grant_redeem_denied", loc[t].did, loc[t].g, loc[t].reason)
                       EXCEPT !.principal = loc[t].p]
  <2>1. CallOK("reply", loc[t]) /\ loc[t].p \in Principals /\ loc[t].g \in GrantIds
    BY <1>0, <1>3 DEF RedeemDenied, CallOK, AuthorizePCs, RedeemPCs, TxnPCs
  <2>2. /\ ~HoldsStore("reply") /\ ~HoldsStore(pc[t]) /\ "reply" \in PCs
        /\ ~HoldsAuthz("reply", loc[t]) /\ ~HoldsAuthz(pc[t], loc[t])
    BY <1>3 DEF RedeemDenied, HoldsStore, HoldsAuthz, TxnPCs, AuthorizePCs, PCs
  <2>3. ThreadStep(t, "reply", loc[t])
    <3>1. /\ storeLock' = storeLock /\ authzLock' = authzLock /\ viewGrants' = viewGrants
          /\ Become(t, "reply", loc[t])
      BY <1>3 DEF RedeemDenied, AppendAudit, Goto
    <3>2. QED BY <1>0, <2>1, <2>2, <3>1 DEF ThreadStep
  <2>4. rec \in Rec
    <3>1. loc[t].reason \in Reasons /\ loc[t].did \in Nat
      BY <1>0 DEF Loc
    <3>2. Record("grant_redeem_denied", loc[t].did, loc[t].g, loc[t].reason) \in Rec
      BY <2>1, <3>1, RecordType DEF Kinds
    <3>3. QED BY <2>1, <3>2 DEF Rec
  <2>5. LogsOK'
    BY <1>0, <1>3, <2>4 DEF RedeemDenied, AppendAudit, LogsOK
  <2>6. RowsOK' /\ DeliveredOK' /\ CountsOK'
    BY <1>0, <1>3 DEF RedeemDenied, AppendAudit, RowsOK, DeliveredOK, CountsOK
  <2>7. QED BY <2>3, <2>5, <2>6, ThreadStepTypes DEF DataOK
<1>4. QED BY <1>1, <1>2, <1>3

\* A step that only moves a thread between two places where it holds nothing.
LEMMA TypeMove ==
    ASSUME TypeInv, NEW t \in Threads, NEW label \in PCs,
           Become(t, label, loc[t]), CallOK(label, loc[t]),
           ~HoldsStore(label), ~HoldsStore(pc[t]),
           ~HoldsAuthz(label, loc[t]), ~HoldsAuthz(pc[t], loc[t]),
           UNCHANGED <<viewGrants, storeLock, authzLock>>, DataOK'
    PROVE  TypeInv'
<1>1. loc[t] \in Loc
  BY ThreadFacts
<1>2. label # "rd_check"
  BY DEF HoldsStore
<1>3. ThreadStep(t, label, loc[t])
  BY <1>1, <1>2 DEF ThreadStep
<1>4. QED BY <1>3, ThreadStepTypes

\* A refusal (404, 400) met at a place where the thread holds nothing.
LEMMA TypeRefuse ==
    ASSUME TypeInv, NEW t \in Threads, Raise(t), pc[t] \in {"cl_begin", "oc_find", "oc_grant"},
           UNCHANGED <<viewGrants, storeLock, authzLock>>, DataOK'
    PROVE  TypeInv'
<1>0. /\ storeLock = t <=> HoldsStore(pc[t])
      /\ authzLock = t <=> HoldsAuthz(pc[t], loc[t])
      /\ t # None
  BY ThreadFacts
<1>1. PICK label \in {"az_exit", "reply"}, l \in Loc :
             /\ Become(t, label, l) /\ CallOK(label, l)
             /\ HoldsAuthz(label, l) <=> HoldsAuthz(pc[t], loc[t])
  BY RaiseFacts
<1>2. ~HoldsStore(label) /\ ~HoldsStore(pc[t]) /\ label \in PCs /\ label # "rd_check"
  BY DEF HoldsStore, TxnPCs, PCs
<1>3. ThreadStep(t, label, l)
  BY <1>0, <1>1, <1>2 DEF ThreadStep
<1>4. QED BY <1>3, ThreadStepTypes

LEMMA TypeClose ==
    ASSUME TypeInv, NEW t \in Threads,
           \/ CloseBegin(t) \/ CloseUnknown(t)
           \/ OutcomeFind(t) \/ OutcomeLog(t) \/ OutcomeGrant(t)
    PROVE  TypeInv'
<1> USE DEF env, db, view, ghosts
<1>0. /\ pc[t] \in PCs /\ loc[t] \in Loc /\ CallOK(pc[t], loc[t])
      /\ storeLock = t <=> HoldsStore(pc[t])
      /\ authzLock = t <=> HoldsAuthz(pc[t], loc[t])
      /\ t # None /\ DataOK /\ RowsOK /\ LogsOK /\ DeliveredOK /\ CountsOK
  BY ThreadFacts DEF DataOK
<1>1. CASE CloseBegin(t)
  <2> DEFINE row == viewGrants[loc[t].g]
             rec == [Record("grant_close", row.decision_id, loc[t].g, loc[t].reason)
                       EXCEPT !.first = ~row.closed]
             l == [loc[t] EXCEPT !.next = "reply", !.rec = rec]
  <2>1. /\ pc[t] = "cl_begin" /\ storeLock = None /\ row # None /\ storeLock' = t
        /\ viewGrants' = [viewGrants EXCEPT ![loc[t].g] = [@ EXCEPT !.closed = TRUE]]
        /\ Become(t, "tx_audit", l)
        /\ UNCHANGED <<env, db, viewAudit, authzLock, lastDecision, ghosts>>
    BY <1>1 DEF CloseBegin
  <2>2. loc[t].call \in {"close", "outcome"} /\ loc[t].g \in GrantIds
    BY <1>0, <2>1 DEF CallOK
  <2>3. row \in Row
    BY <1>0, <2>1, <2>2 DEF RowsOK
  <2>4. rec \in Rec
    <3>1. /\ row.decision_id \in Nat /\ row.closed \in BOOLEAN /\ loc[t].reason \in Reasons
      BY <1>0, <2>3 DEF Row, Loc
    <3>2. Record("grant_close", row.decision_id, loc[t].g, loc[t].reason) \in Rec
      BY <2>2, <3>1, RecordType DEF Kinds
    <3>3. QED BY <3>1, <3>2 DEF Rec
  <2> HIDE DEF rec
  <2>5. /\ l \in Loc /\ l.call = loc[t].call /\ l.g = loc[t].g /\ l.p = loc[t].p
        /\ l.h = loc[t].h /\ l.tool = loc[t].tool /\ l.next = "reply"
    BY <1>0, <2>4 DEF Loc, PCs
  <2>6. CallOK("tx_audit", l)
    BY <2>2, <2>5 DEF CallOK, AuthorizePCs, RedeemPCs, TxnPCs
  <2>7. /\ HoldsStore("tx_audit") /\ "tx_audit" \in PCs
        /\ ~HoldsAuthz("tx_audit", l) /\ ~HoldsAuthz(pc[t], loc[t])
    BY <2>1, <2>2, <2>5 DEF HoldsStore, HoldsAuthz, TxnPCs, AuthorizePCs, PCs
  <2>8. ThreadStep(t, "tx_audit", l)
    BY <1>0, <2>1, <2>5, <2>6, <2>7 DEF ThreadStep
  <2>9. RowsOK'
    <3>1. [row EXCEPT !.closed = TRUE] \in Row
      BY <2>3 DEF Row
    <3>2. QED BY <1>0, <2>1, <3>1 DEF RowsOK
  <2>10. LogsOK' /\ DeliveredOK' /\ CountsOK'
    BY <1>0, <2>1 DEF LogsOK, DeliveredOK, CountsOK
  <2>11. QED BY <2>8, <2>9, <2>10, ThreadStepTypes DEF DataOK
<1>2. CASE CloseUnknown(t)
  <2>1. CallOK("reply", loc[t])
    BY <1>0, <1>2 DEF CloseUnknown, CallOK, AuthorizePCs, RedeemPCs, TxnPCs
  <2>2. /\ ~HoldsStore("reply") /\ ~HoldsStore(pc[t]) /\ "reply" \in PCs
        /\ ~HoldsAuthz("reply", loc[t]) /\ ~HoldsAuthz(pc[t], loc[t])
    BY <1>2 DEF CloseUnknown, HoldsStore, HoldsAuthz, TxnPCs, AuthorizePCs, PCs
  <2>3. DataOK' /\ UNCHANGED <<viewGrants, storeLock, authzLock>> /\ pc[t] = "cl_begin"
    BY <1>0, <1>2, DataUnchanged DEF CloseUnknown
  <2>4. Raise(t) \/ Become(t, "reply", loc[t])
    BY <1>2 DEF CloseUnknown, Goto
  <2>5. QED BY <2>1, <2>2, <2>3, <2>4, TypeMove, TypeRefuse
<1>3. CASE OutcomeFind(t)
  <2>1. Raise(t) \/ Become(t, "oc_log", loc[t])
    BY <1>3 DEF OutcomeFind, Goto
  <2>2. CallOK("oc_log", loc[t])
    BY <1>0, <1>3 DEF OutcomeFind, CallOK, AuthorizePCs, RedeemPCs, TxnPCs
  <2>3. /\ ~HoldsStore("oc_log") /\ ~HoldsStore(pc[t]) /\ "oc_log" \in PCs
        /\ ~HoldsAuthz("oc_log", loc[t]) /\ ~HoldsAuthz(pc[t], loc[t])
    BY <1>3 DEF OutcomeFind, HoldsStore, HoldsAuthz, TxnPCs, AuthorizePCs, PCs
  <2>4. /\ DataOK' /\ UNCHANGED <<viewGrants, storeLock, authzLock>>
        /\ pc[t] = "oc_find"
    BY <1>0, <1>3, DataUnchanged DEF OutcomeFind
  <2>5. QED BY <2>1, <2>2, <2>3, <2>4, TypeMove, TypeRefuse
<1>4. CASE OutcomeLog(t)
  <2>1. PICK label \in {"oc_grant", "reply"} :
               Become(t, label, loc[t]) /\ (label = "oc_grant" => loc[t].g # None)
    BY <1>4 DEF OutcomeLog, Goto
  <2>2. loc[t].g \in GrantIds \union {None}
    BY <1>0 DEF Loc
  <2>3. CallOK(label, loc[t])
    BY <1>0, <1>4, <2>1, <2>2 DEF OutcomeLog, CallOK, AuthorizePCs, RedeemPCs, TxnPCs
  <2>4. /\ ~HoldsStore(label) /\ ~HoldsStore(pc[t]) /\ label \in PCs
        /\ ~HoldsAuthz(label, loc[t]) /\ ~HoldsAuthz(pc[t], loc[t])
    BY <1>4 DEF OutcomeLog, HoldsStore, HoldsAuthz, TxnPCs, AuthorizePCs, PCs
  <2>5. Record("outcome", loc[t].did, None, "") \in Rec
    <3>1. loc[t].did \in Nat
      BY <1>0 DEF Loc
    <3>2. QED BY <3>1, RecordType DEF Kinds, Reasons
  <2>6. LogsOK'
    <3>1. /\ viewAudit' = Append(viewAudit, Record("outcome", loc[t].did, None, ""))
          /\ audit' = viewAudit'
      BY <1>4 DEF OutcomeLog, AppendAudit
    <3>2. viewAudit \in Seq(Rec)
      BY <1>0 DEF LogsOK
    <3>3. QED BY <2>5, <3>1, <3>2, AppendType DEF LogsOK
  <2>7. RowsOK' /\ DeliveredOK' /\ CountsOK'
    BY <1>0, <1>4 DEF OutcomeLog, AppendAudit, RowsOK, DeliveredOK, CountsOK
  <2>8. UNCHANGED <<viewGrants, storeLock, authzLock>>
    BY <1>4 DEF OutcomeLog, AppendAudit
  <2>9. QED BY <2>1, <2>3, <2>4, <2>6, <2>7, <2>8, TypeMove DEF DataOK
<1>5. CASE OutcomeGrant(t)
  <2>1. Raise(t) \/ Become(t, "cl_begin", loc[t])
    BY <1>5 DEF OutcomeGrant, Goto
  <2>2. CallOK("cl_begin", loc[t])
    BY <1>0, <1>5 DEF OutcomeGrant, CallOK, AuthorizePCs, RedeemPCs, TxnPCs
  <2>3. /\ ~HoldsStore("cl_begin") /\ ~HoldsStore(pc[t]) /\ "cl_begin" \in PCs
        /\ ~HoldsAuthz("cl_begin", loc[t]) /\ ~HoldsAuthz(pc[t], loc[t])
    BY <1>5 DEF OutcomeGrant, HoldsStore, HoldsAuthz, TxnPCs, AuthorizePCs, PCs
  <2>4. /\ DataOK' /\ UNCHANGED <<viewGrants, storeLock, authzLock>>
        /\ pc[t] = "oc_grant"
    BY <1>0, <1>5, DataUnchanged DEF OutcomeGrant
  <2>5. QED BY <2>1, <2>2, <2>3, <2>4, TypeMove, TypeRefuse
<1>6. QED BY <1>1, <1>2, <1>3, <1>4, <1>5

LEMMA TypeReply ==
    ASSUME TypeInv, NEW t \in Threads, Reply(t)
    PROVE  TypeInv'
<1> USE DEF env, db, view, ghosts
<1>0. /\ CallOK(pc[t], loc[t])
      /\ storeLock = t <=> HoldsStore(pc[t])
      /\ authzLock = t <=> HoldsAuthz(pc[t], loc[t])
      /\ RowsOK /\ LogsOK /\ DeliveredOK /\ CountsOK
  BY ThreadFacts DEF DataOK
<1>1. pc[t] = "reply" /\ Become(t, "idle", NoLoc)
      /\ UNCHANGED <<env, db, view, storeLock, authzLock, lastDecision, calls, crashes>>
  BY DEF Reply
<1>2. /\ ~HoldsStore("idle") /\ ~HoldsStore(pc[t]) /\ "idle" \in PCs
      /\ ~HoldsAuthz("idle", NoLoc) /\ ~HoldsAuthz(pc[t], loc[t])
  BY <1>1 DEF HoldsStore, HoldsAuthz, TxnPCs, AuthorizePCs, PCs
<1>3. ThreadStep(t, "idle", NoLoc)
  BY <1>1, <1>2, NoLocType DEF ThreadStep
<1>4. DeliveredOK'
  <2>1. CASE loc[t].call = "redeem" /\ loc[t].reason = "ok"
    <3>1. loc[t].g \in GrantIds /\ loc[t].p \in Principals /\ loc[t].h \in Hashes
      BY <1>0, <2>1 DEF CallOK
    <3>2. Append(delivered[loc[t].g], [p |-> loc[t].p, h |-> loc[t].h])
            \in Seq([p : Principals, h : Hashes])
      <4>1. delivered[loc[t].g] \in Seq([p : Principals, h : Hashes])
        BY <1>0, <3>1 DEF DeliveredOK
      <4>2. [p |-> loc[t].p, h |-> loc[t].h] \in [p : Principals, h : Hashes]
        BY <3>1
      <4>3. QED BY <4>1, <4>2, AppendType
    <3>3. QED BY <1>0, <2>1, <3>2 DEF Reply, DeliveredOK
  <2>2. CASE ~(loc[t].call = "redeem" /\ loc[t].reason = "ok")
    BY <1>0, <2>2 DEF Reply, DeliveredOK
  <2>3. QED BY <2>1, <2>2
<1>5. RowsOK' /\ LogsOK' /\ CountsOK'
  BY <1>0, <1>1 DEF RowsOK, LogsOK, CountsOK
<1>6. QED BY <1>3, <1>4, <1>5, ThreadStepTypes DEF DataOK

\* The clock, the catalog and a crash.
LEMMA TypeWorld ==
    ASSUME TypeInv, Tick \/ CatalogChanges \/ Crash \/ UNCHANGED vars
    PROVE  TypeInv'
<1> USE DEF env, db, view, ghosts
<1>0. /\ RowsOK /\ LogsOK /\ DeliveredOK /\ CountsOK
      /\ pc \in [Threads -> PCs] /\ loc \in [Threads -> Loc]
      /\ storeLock \in Threads \union {None} /\ authzLock \in Threads \union {None}
  BY DEF TypeInv, TypeOK, RowsOK, LogsOK, DeliveredOK, CountsOK
<1>1. CASE Tick
  <2>1. CountsOK'
    BY <1>0, <1>1 DEF Tick, CountsOK
  <2>2. RowsOK' /\ LogsOK' /\ DeliveredOK'
    BY <1>0, <1>1 DEF Tick, RowsOK, LogsOK, DeliveredOK
  <2>3. UNCHANGED <<viewGrants, storeLock, authzLock, pc, loc>>
    BY <1>1 DEF Tick
  <2>4. TypeOK'
    BY <1>0, <2>1, <2>2, <2>3 DEF TypeOK, RowsOK, LogsOK, DeliveredOK, CountsOK
  <2>5. QED BY <2>3, <2>4 DEF TypeInv, CallInv, LockInv, RowInv
<1>2. CASE CatalogChanges
  <2>1. invocable' \in [Tools -> BOOLEAN]
    BY <1>2 DEF CatalogChanges, TypeInv, TypeOK
  <2>2. QED BY <1>2, <2>1 DEF CatalogChanges, TypeInv, TypeOK, CallInv, LockInv, RowInv
<1>3. CASE Crash
  <2>1. \A t \in Threads : pc'[t] = "idle" /\ loc'[t] = NoLoc
    BY <1>3 DEF Crash
  <2>2. pc' \in [Threads -> PCs] /\ loc' \in [Threads -> Loc]
    BY <1>3, NoLocType DEF Crash, PCs
  <2>3. TypeOK'
    <3>1. CountsOK'
      BY <1>0, <1>3 DEF Crash, CountsOK
    <3>2. RowsOK' /\ LogsOK' /\ DeliveredOK'
      BY <1>0, <1>3 DEF Crash, RowsOK, LogsOK, DeliveredOK
    <3>3. storeLock' = None /\ authzLock' = None
      BY <1>3 DEF Crash
    <3>4. QED BY <2>2, <3>1, <3>2, <3>3 DEF TypeOK, RowsOK, LogsOK, DeliveredOK, CountsOK
  <2>4. CallInv'
    BY <2>1, NoLocType DEF CallInv
  <2>5. LockInv'
    BY <1>3, <2>1, ConstantsAssumption
       DEF Crash, LockInv, HoldsStore, HoldsAuthz, TxnPCs, AuthorizePCs
  <2>6. RowInv'
    BY <2>1 DEF RowInv
  <2>7. QED BY <2>3, <2>4, <2>5, <2>6 DEF TypeInv
<1>4. CASE UNCHANGED vars
  BY <1>4 DEF vars, TypeInv, TypeOK, CallInv, LockInv, RowInv
<1>5. QED BY <1>1, <1>2, <1>3, <1>4

LEMMA TypeStep == TypeInv /\ [Next]_vars => TypeInv'
<1> SUFFICES ASSUME TypeInv, [Next]_vars PROVE TypeInv'
  OBVIOUS
<1>1. ASSUME NEW t \in Threads, Call(t) PROVE TypeInv'
  BY <1>1, TypeStart
<1>2. ASSUME NEW t \in Threads, Step(t) PROVE TypeInv'
  BY <1>2, TypeTxn, TypeAuthorize, TypeRedeem, TypeClose, TypeReply DEF Step
<1>3. QED BY <1>1, <1>2, TypeWorld DEF Next

LEMMA TypeInvariant == Spec => []TypeInv
<1>1. QED BY TypeInit, TypeStep, PTL DEF Spec

\* Every state of the grant service is well-typed: no thread, fault or restart puts
\* a row, a record or a lock outside its domain.
THEOREM TypeCorrect == Spec => []TypeOK
<1>1. TypeInv => TypeOK
  BY DEF TypeInv
<1>2. QED BY <1>1, TypeInvariant, PTL

-----------------------------------------------------------------------------
(***************************************************************************)
(* The transactions of the grant store keep rows and audit records         *)
(* together, for every set of threads, grants and principals.              *)
(*                                                                         *)
(* The argument: only the holder of the store lock has an open             *)
(* transaction, so what the connection sees is the committed tables plus   *)
(* the changes of that one transaction (ViewInv).  Hence every step leaves *)
(* the committed tables alone, appends one record that is about no row, or *)
(* commits one row change together with the record that announces it.      *)
(***************************************************************************)

StoreInv == TypeInv /\ ViewInv

-----------------------------------------------------------------------------
(* The store lock *)

\* Two threads are never both inside a store transaction.
LEMMA OneHolder ==
    ASSUME TypeInv, NEW t \in Threads, NEW u \in Threads,
           HoldsStore(pc[t]), HoldsStore(pc[u])
    PROVE  t = u
BY DEF TypeInv, LockInv

LEMMA FreeStore ==
    ASSUME TypeInv, storeLock = None, NEW u \in Threads
    PROVE  pc[u] \notin TxnPCs /\ pc[u] # "rd_check"
BY ConstantsAssumption DEF TypeInv, LockInv, HoldsStore

\* With no transaction open, the connection sees the committed tables.
LEMMA FreeView ==
    ASSUME StoreInv, storeLock = None
    PROVE  viewGrants = grants /\ viewAudit = audit
BY FreeStore DEF StoreInv, ViewInv, TxnPCs

LEMMA OthersOutside ==
    ASSUME TypeInv, NEW t \in Threads, storeLock \in {None, t}, NEW u \in Threads, u # t
    PROVE  pc[u] \notin TxnPCs /\ pc[u] # "rd_check"
BY ConstantsAssumption DEF TypeInv, LockInv, HoldsStore

-----------------------------------------------------------------------------
(* What one step does to the view *)

\* A thread moves between two places outside a transaction.
LEMMA ViewQuiet ==
    ASSUME StoreInv, NEW t \in Threads, NEW label, NEW l, Become(t, label, l),
           pc[t] \notin TxnPCs, label \notin TxnPCs, label # "rd_check",
           UNCHANGED <<grants, audit, viewGrants, viewAudit>>
    PROVE  ViewInv'
<1>1. /\ pc'[t] = label
      /\ \A u \in Threads \ {t} : pc'[u] = pc[u] /\ loc'[u] = loc[u]
  BY DEF Become, StoreInv, TypeInv, TypeOK
<1>2. ASSUME NEW u \in Threads
      PROVE  /\ pc'[u] \in TxnPCs <=> pc[u] \in TxnPCs
             /\ pc'[u] = "tx_commit" <=> pc[u] = "tx_commit"
             /\ pc'[u] \in TxnPCs => loc'[u] = loc[u]
             /\ pc'[u] = "rd_check" => pc[u] = "rd_check" /\ loc'[u] = loc[u]
  BY <1>1 DEF TxnPCs
<1>3. ASSUME NEW u \in Threads, pc'[u] \in TxnPCs PROVE TxnShape(u)'
  BY <1>2, <1>3 DEF StoreInv, ViewInv, TxnShape
<1>4. ASSUME NEW u \in Threads, pc'[u] = "tx_commit"
      PROVE  viewAudit' = Append(audit', loc'[u].rec)
  BY <1>2, <1>4 DEF StoreInv, ViewInv, TxnPCs
<1>5. ASSUME NEW u \in Threads, pc'[u] = "rd_check" PROVE Examined(u)'
  BY <1>2, <1>5 DEF StoreInv, ViewInv, Examined
<1>6. (\A u \in Threads : pc'[u] \notin TxnPCs) => viewGrants' = grants'
  BY <1>2 DEF StoreInv, ViewInv
<1>7. (\A u \in Threads : pc'[u] # "tx_commit") => viewAudit' = audit'
  BY <1>2 DEF StoreInv, ViewInv
<1>8. QED BY <1>3, <1>4, <1>5, <1>6, <1>7 DEF ViewInv

\* A thread that owns the store, or finds it free, ends with no transaction open and
\* the connection in line with the committed tables.
LEMMA ViewSettled ==
    ASSUME StoreInv, NEW t \in Threads, NEW label, NEW l, Become(t, label, l),
           storeLock \in {None, t}, label \notin TxnPCs, label # "rd_check",
           viewGrants' = grants', viewAudit' = audit'
    PROVE  ViewInv'
<1>1. /\ pc'[t] = label
      /\ \A u \in Threads \ {t} : pc'[u] = pc[u] /\ loc'[u] = loc[u]
  BY DEF Become, StoreInv, TypeInv, TypeOK
<1>2. \A u \in Threads : pc'[u] \notin TxnPCs /\ pc'[u] # "rd_check"
  BY <1>1, OthersOutside DEF StoreInv
<1>3. \A u \in Threads : pc'[u] # "tx_commit"
  BY <1>2 DEF TxnPCs
<1>4. QED BY <1>2, <1>3 DEF ViewInv

\* A thread that owns the store, or finds it free, is inside its transaction.
LEMMA ViewOpen ==
    ASSUME StoreInv, NEW t \in Threads, NEW label \in TxnPCs, NEW l, Become(t, label, l),
           storeLock \in {None, t}, TxnShape(t)',
           viewAudit' = IF label = "tx_commit" THEN Append(audit', l.rec) ELSE audit'
    PROVE  ViewInv'
<1>1. /\ pc'[t] = label /\ loc'[t] = l
      /\ \A u \in Threads \ {t} : pc'[u] = pc[u] /\ loc'[u] = loc[u]
  BY DEF Become, StoreInv, TypeInv, TypeOK
<1>2. \A u \in Threads \ {t} : pc'[u] \notin TxnPCs /\ pc'[u] # "rd_check"
  BY <1>1, OthersOutside DEF StoreInv
<1>3. \A u \in Threads \ {t} : pc'[u] # "tx_commit"
  BY <1>2 DEF TxnPCs
<1>4. pc'[t] # "rd_check"
  BY <1>1 DEF TxnPCs
<1>5. \A u \in Threads : pc'[u] \in TxnPCs => TxnShape(u)'
  BY <1>2
<1>6. \A u \in Threads : pc'[u] = "rd_check" => Examined(u)'
  BY <1>2, <1>4
<1>7. \A u \in Threads : pc'[u] = "tx_commit" => viewAudit' = Append(audit', loc'[u].rec)
  BY <1>1, <1>3
<1>8. (\A u \in Threads : pc'[u] \notin TxnPCs) => viewGrants' = grants'
  BY <1>1
<1>9. (\A u \in Threads : pc'[u] # "tx_commit") => viewAudit' = audit'
  BY <1>1
<1>10. QED BY <1>5, <1>6, <1>7, <1>8, <1>9 DEF ViewInv

-----------------------------------------------------------------------------
(* ViewInv is inductive: one lemma per group of actions *)

LEMMA ViewInit == Init => ViewInv
BY DEF Init, ViewInv, TxnPCs

LEMMA ViewCalls ==
    ASSUME StoreInv, NEW t \in Threads, Call(t)
    PROVE  ViewInv'
<1> USE DEF db, view
<1>1. ASSUME NEW label \in {"az_lock", "rd_begin", "cl_begin", "oc_find"}, NEW l,
             Start(t, label, l)
      PROVE  ViewInv'
  BY <1>1, ViewQuiet DEF Start, TxnPCs
<1>2. CASE CallAuthorize(t)
  BY <1>1, <1>2 DEF CallAuthorize
<1>3. CASE CallRedeem(t)
  BY <1>1, <1>3 DEF CallRedeem
<1>4. CASE CallClose(t)
  BY <1>1, <1>4 DEF CallClose
<1>5. CASE CallOutcome(t)
  BY <1>1, <1>5 DEF CallOutcome
<1>6. QED BY <1>2, <1>3, <1>4, <1>5 DEF Call

\* The steps that read the tables or do not touch them.
LEMMA ViewReads ==
    ASSUME StoreInv, NEW t \in Threads,
           \/ AppendFault(t) \/ AuthzEnter(t) \/ Decide(t) \/ ReadDecisionId(t)
           \/ AuthzExit(t) \/ CloseUnknown(t) \/ OutcomeFind(t) \/ OutcomeGrant(t) \/ Reply(t)
    PROVE  ViewInv'
<1> USE DEF db, view, TxnPCs, Goto
<1>1. CASE AppendFault(t)
  BY <1>1, ViewQuiet DEF AppendFault, Raise
<1>2. CASE AuthzEnter(t)
  BY <1>2, ViewQuiet DEF AuthzEnter
<1>3. CASE Decide(t)
  BY <1>3, ViewQuiet DEF Decide
<1>4. CASE ReadDecisionId(t)
  <2>1. PICK label \in {"is_insert", "az_exit"}, l \in {loc'[t]} : Become(t, label, l)
    BY <1>4 DEF ReadDecisionId, Become, StoreInv, TypeInv, TypeOK
  <2>2. QED BY <1>4, <2>1, ViewQuiet DEF ReadDecisionId
<1>5. CASE AuthzExit(t)
  BY <1>5, ViewQuiet DEF AuthzExit
<1>6. CASE CloseUnknown(t)
  BY <1>6, ViewQuiet DEF CloseUnknown, Raise
<1>7. CASE OutcomeFind(t)
  BY <1>7, ViewQuiet DEF OutcomeFind, Raise
<1>8. CASE OutcomeGrant(t)
  BY <1>8, ViewQuiet DEF OutcomeGrant, Raise
<1>9. CASE Reply(t)
  BY <1>9, ViewQuiet DEF Reply
<1>10. QED BY <1>1, <1>2, <1>3, <1>4, <1>5, <1>6, <1>7, <1>8, <1>9

\* The steps that end a transaction, or are one by themselves.
LEMMA ViewWrites ==
    ASSUME StoreInv, NEW t \in Threads,
           \/ LogDecision(t) \/ RedeemDenied(t) \/ OutcomeLog(t)
           \/ TxnCommit(t) \/ TxnFault(t)
    PROVE  ViewInv'
<1> USE DEF db, view, Goto
<1>0. /\ storeLock = t <=> HoldsStore(pc[t])
      /\ CallOK(pc[t], loc[t])
  BY ThreadFacts DEF StoreInv
<1>1. CASE LogDecision(t)
  BY <1>1, ViewSettled DEF LogDecision, AppendAudit, TxnPCs
<1>2. CASE RedeemDenied(t)
  BY <1>2, ViewSettled DEF RedeemDenied, AppendAudit, TxnPCs
<1>3. CASE OutcomeLog(t)
  <2>1. PICK label \in {"oc_grant", "reply"} : Become(t, label, loc[t])
    BY <1>3 DEF OutcomeLog
  <2>2. storeLock = None /\ viewGrants' = grants' /\ viewAudit' = audit'
    BY <1>3 DEF OutcomeLog, AppendAudit
  <2>3. QED BY <2>1, <2>2, ViewSettled DEF TxnPCs
<1>4. CASE TxnCommit(t)
  <2>1. storeLock = t
    BY <1>0, <1>4 DEF TxnCommit, HoldsStore, TxnPCs
  <2>2. loc[t].next \notin TxnPCs /\ loc[t].next # "rd_check"
    BY <1>0, <1>4 DEF TxnCommit, CallOK, TxnPCs
  <2>3. QED BY <1>4, <2>1, <2>2, ViewSettled DEF TxnCommit
<1>5. CASE TxnFault(t)
  <2>1. storeLock = t
    BY <1>0, <1>5 DEF TxnFault, Abandon, HoldsStore, TxnPCs
  <2>2. QED BY <1>5, <2>1, ViewSettled DEF TxnFault, Abandon, Raise, TxnPCs
<1>6. QED BY <1>1, <1>2, <1>3, <1>4, <1>5

LEMMA ViewAppends ==
    ASSUME StoreInv, NEW t \in Threads, TxnAudit(t)
    PROVE  ViewInv'
<1> USE DEF db
<1>1. pc[t] = "tx_audit" /\ storeLock = t
  BY ThreadFacts DEF StoreInv, TxnAudit, HoldsStore, TxnPCs
<1>2. \A u \in Threads : pc[u] # "tx_commit"
  BY <1>1, OthersOutside DEF StoreInv, TxnPCs
<1>3. viewAudit' = Append(audit', loc[t].rec)
  BY <1>2 DEF StoreInv, ViewInv, TxnAudit
<1>4. Become(t, "tx_commit", loc[t]) /\ UNCHANGED <<grants, viewGrants>>
  BY DEF TxnAudit, Goto
<1>5. TxnShape(t)
  BY <1>1 DEF StoreInv, ViewInv, TxnPCs
<1>6. loc'[t] = loc[t]
  BY <1>4 DEF Become, StoreInv, TypeInv, TypeOK
<1>7. TxnShape(t)'
  BY <1>4, <1>5, <1>6 DEF TxnShape
<1>8. "tx_commit" \in TxnPCs
  BY DEF TxnPCs
<1>9. QED BY <1>1, <1>3, <1>4, <1>7, <1>8, ViewOpen

LEMMA ViewBegins ==
    ASSUME StoreInv, NEW t \in Threads,
           IssueInsert(t) \/ CloseBegin(t)
    PROVE  ViewInv'
<1> USE DEF db
<1>0. /\ loc[t] \in Loc /\ CallOK(pc[t], loc[t]) /\ RowsOK /\ "tx_audit" \in TxnPCs
  BY ThreadFacts DEF StoreInv, DataOK, TxnPCs
<1>1. CASE IssueInsert(t)
  <2>1. PICK g \in GrantIds : viewGrants[g] = None /\ Insert(t, g, loc[t].exp)
    BY <1>1 DEF IssueInsert
  <2> DEFINE rec == Record("grant_issue", loc[t].did, g, "")
             l == [loc[t] EXCEPT !.g = g, !.next = "az_exit", !.rec = rec]
  <2>2. /\ pc[t] = "is_insert" /\ storeLock = None /\ Become(t, "tx_audit", l)
        /\ viewGrants' = [viewGrants EXCEPT ![g] = NewRow(loc[t], loc[t].exp)]
        /\ UNCHANGED <<grants, audit, viewAudit>>
    BY <2>1 DEF Insert
  <2>3. viewGrants = grants /\ viewAudit = audit
    BY <2>2, FreeView
  <2>4. loc'[t] = l
    BY <2>2 DEF Become, StoreInv, TypeInv, TypeOK
  <2>5. rec.kind = "grant_issue" /\ rec.grant = g
    BY DEF Record, NoRec
  <2>6. loc[t].call = "authorize"
    BY <1>0, <2>2 DEF CallOK, AuthorizePCs
  <2> HIDE DEF rec
  <2>7. /\ l.g = g /\ l.rec = rec /\ l.call = loc[t].call /\ l.did = loc[t].did
        /\ l.p = loc[t].p /\ l.tool = loc[t].tool /\ l.h = loc[t].h /\ l.exp = loc[t].exp
    BY <1>0 DEF Loc
  <2>8. NewRow(l, l.exp) = NewRow(loc[t], loc[t].exp)
    BY <2>7 DEF NewRow
  <2> HIDE DEF l
  <2>9. TxnShape(t)'
    BY <2>1, <2>2, <2>3, <2>4, <2>5, <2>6, <2>7, <2>8 DEF TxnShape
  <2>10. QED BY <1>0, <2>2, <2>3, <2>9, ViewOpen
<1>2. CASE CloseBegin(t)
  <2> DEFINE row == viewGrants[loc[t].g]
             rec == [Record("grant_close", row.decision_id, loc[t].g, loc[t].reason)
                       EXCEPT !.first = ~row.closed]
             l == [loc[t] EXCEPT !.next = "reply", !.rec = rec]
  <2>1. /\ pc[t] = "cl_begin" /\ storeLock = None /\ row # None /\ Become(t, "tx_audit", l)
        /\ viewGrants' = [viewGrants EXCEPT ![loc[t].g].closed = TRUE]
        /\ UNCHANGED <<grants, audit, viewAudit>>
    BY <1>2 DEF CloseBegin
  <2>2. viewGrants = grants /\ viewAudit = audit
    BY <2>1, FreeView
  <2>3. loc[t].call \in {"close", "outcome"} /\ loc[t].g \in GrantIds
    BY <1>0, <2>1 DEF CallOK
  <2>4. rec.kind = "grant_close" /\ rec.grant = loc[t].g /\ rec.first = ~row.closed
    <3>1. row \in Row
      BY <1>0, <2>1, <2>3 DEF RowsOK
    <3>2. row.decision_id \in Nat /\ loc[t].reason \in Reasons
      BY <1>0, <3>1 DEF Row, Loc
    <3> DEFINE r == Record("grant_close", row.decision_id, loc[t].g, loc[t].reason)
    <3>3. r \in Rec /\ r.kind = "grant_close" /\ r.grant = loc[t].g
      BY <2>3, <3>2, RecordType DEF Kinds
    <3>4. rec = [r EXCEPT !.first = ~row.closed]
      OBVIOUS
    <3> HIDE DEF r, rec
    <3>5. QED BY <3>3, <3>4 DEF Rec
  <2>5. loc'[t] = l
    BY <2>1 DEF Become, StoreInv, TypeInv, TypeOK
  <2> HIDE DEF rec
  <2>6. l.g = loc[t].g /\ l.rec = rec /\ l.call = loc[t].call
    BY <1>0 DEF Loc
  <2> HIDE DEF l
  <2>7. TxnShape(t)'
    BY <2>1, <2>2, <2>3, <2>4, <2>5, <2>6 DEF TxnShape
  <2>8. QED BY <1>0, <2>1, <2>2, <2>7, ViewOpen
<1>3. QED BY <1>1, <1>2

\* A redeem that passes the checks has the committed row of its grant before it.
LEMMA ViewExamines ==
    ASSUME StoreInv, NEW t \in Threads, RedeemBegin(t)
    PROVE  ViewInv'
<1> USE DEF db, view
<1> DEFINE row == viewGrants[loc[t].g]
           verdict == RedeemVerdict(row, loc[t].p, loc[t].h, now)
           label == IF verdict = "ok" THEN "rd_check" ELSE "rd_deny"
           did == IF row = None THEN 0 ELSE row.decision_id
           l == [loc[t] EXCEPT !.reason = verdict, !.did = did]
<1>1. /\ pc[t] = "rd_begin" /\ storeLock = None /\ Become(t, label, l)
      /\ UNCHANGED <<grants, audit, viewGrants, viewAudit>>
  BY DEF RedeemBegin, Examine
<1>2. viewGrants = grants /\ viewAudit = audit
  BY <1>1, FreeView
<1>3. CASE verdict # "ok"
  <2>1. label = "rd_deny"
    BY <1>3
  <2> HIDE DEF label, l
  <2>2. QED BY <1>1, <2>1, ViewQuiet DEF TxnPCs
<1>4. CASE verdict = "ok"
  <2>1. /\ row # None /\ ~row.redeemed /\ ~row.closed
        /\ row.principal_id = loc[t].p /\ row.args_hash = loc[t].h
    BY <1>4 DEF RedeemVerdict
  <2>2. loc[t] \in Loc
    BY ThreadFacts DEF StoreInv
  <2> HIDE DEF verdict, did
  <2>3. l.g = loc[t].g /\ l.p = loc[t].p /\ l.h = loc[t].h
    BY <2>2 DEF Loc
  <2>4. /\ pc'[t] = "rd_check" /\ loc'[t] = l
        /\ \A u \in Threads \ {t} : pc'[u] = pc[u] /\ loc'[u] = loc[u]
    BY <1>1, <1>4 DEF Become, StoreInv, TypeInv, TypeOK
  <2> HIDE DEF l
  <2>5. Examined(t)'
    BY <1>1, <1>2, <2>1, <2>3, <2>4 DEF Examined
  <2>6. \A u \in Threads \ {t} : pc'[u] \notin TxnPCs /\ pc'[u] # "rd_check"
    BY <1>1, <2>4, OthersOutside DEF StoreInv
  <2>7. \A u \in Threads : pc'[u] \notin TxnPCs /\ pc'[u] # "tx_commit"
    BY <2>4, <2>6 DEF TxnPCs
  <2>8. \A u \in Threads : pc'[u] = "rd_check" => Examined(u)'
    BY <2>5, <2>6
  <2>9. QED BY <1>1, <1>2, <2>7, <2>8 DEF ViewInv
<1>5. QED BY <1>3, <1>4

\* The UPDATE of a redeem, to spent or to closed.
LEMMA ViewApplies ==
    ASSUME StoreInv, NEW t \in Threads, RedeemApply(t)
    PROVE  ViewInv'
<1> USE DEF db
<1>0. loc[t] \in Loc /\ CallOK(pc[t], loc[t]) /\ "tx_audit" \in TxnPCs
  BY ThreadFacts DEF StoreInv, TxnPCs
<1>1. /\ pc[t] = "rd_check" /\ UNCHANGED <<grants, audit, viewAudit>>
      /\ loc[t].call = "redeem" /\ loc[t].reason = "ok"
  BY <1>0 DEF RedeemApply, CallOK, RedeemPCs
<1>2. storeLock = t
  BY <1>1, ThreadFacts DEF StoreInv, HoldsStore
<1>3. \A u \in Threads : pc[u] \notin TxnPCs /\ pc[u] # "tx_commit"
  BY <1>1, <1>2, OthersOutside DEF StoreInv, TxnPCs
<1>4. viewGrants = grants /\ viewAudit = audit
  BY <1>3 DEF StoreInv, ViewInv
<1>5. Examined(t)
  BY <1>1 DEF StoreInv, ViewInv
<1>6. CASE Spend(t)
  <2> DEFINE rec == [Record("grant_redeem", loc[t].did, loc[t].g, "")
                       EXCEPT !.principal = loc[t].p]
             l == [loc[t] EXCEPT !.next = "reply", !.rec = rec]
  <2>1. /\ Become(t, "tx_audit", l)
        /\ viewGrants' = [viewGrants EXCEPT ![loc[t].g].redeemed = TRUE]
    BY <1>6 DEF Spend
  <2>2. rec.kind = "grant_redeem" /\ rec.grant = loc[t].g
    BY DEF Record, NoRec
  <2>3. loc'[t] = l
    BY <2>1 DEF Become, StoreInv, TypeInv, TypeOK
  <2> HIDE DEF rec
  <2>4. /\ l.g = loc[t].g /\ l.rec = rec /\ l.call = loc[t].call /\ l.reason = loc[t].reason
        /\ l.p = loc[t].p /\ l.h = loc[t].h
    BY <1>0 DEF Loc
  <2> HIDE DEF l
  <2>5. TxnShape(t)'
    BY <1>1, <1>4, <1>5, <2>1, <2>2, <2>3, <2>4 DEF TxnShape, Examined
  <2>6. QED BY <1>0, <1>1, <1>2, <1>4, <2>1, <2>5, ViewOpen
<1>7. CASE Kill(t, [viewGrants EXCEPT ![loc[t].g].closed = TRUE])
  <2> DEFINE rec == [Record("grant_close", loc[t].did, loc[t].g, "not_invocable")
                       EXCEPT !.first = TRUE]
             l == [loc[t] EXCEPT !.reason = "not_invocable", !.next = "rd_deny", !.rec = rec]
  <2>1. /\ Become(t, "tx_audit", l)
        /\ viewGrants' = [viewGrants EXCEPT ![loc[t].g].closed = TRUE]
    BY <1>7 DEF Kill
  <2>2. rec.kind = "grant_close" /\ rec.grant = loc[t].g /\ rec.first = TRUE
    BY DEF Record, NoRec
  <2>3. loc'[t] = l
    BY <2>1 DEF Become, StoreInv, TypeInv, TypeOK
  <2> HIDE DEF rec
  <2>4. /\ l.g = loc[t].g /\ l.rec = rec /\ l.call = loc[t].call
        /\ l.reason = "not_invocable"
    BY <1>0 DEF Loc
  <2> HIDE DEF l
  <2>5. TxnShape(t)'
    BY <1>1, <1>4, <1>5, <2>1, <2>2, <2>3, <2>4 DEF TxnShape, Examined
  <2>6. QED BY <1>0, <1>1, <1>2, <1>4, <2>1, <2>5, ViewOpen
<1>8. QED BY <1>6, <1>7 DEF RedeemApply

LEMMA ViewWorld ==
    ASSUME StoreInv, Tick \/ CatalogChanges \/ Crash \/ UNCHANGED vars
    PROVE  ViewInv'
<1> USE DEF db, view
<1>1. CASE Crash
  BY <1>1 DEF Crash, ViewInv, TxnPCs
<1>2. CASE Tick \/ CatalogChanges \/ UNCHANGED vars
  <2>1. UNCHANGED <<grants, audit, viewGrants, viewAudit, pc, loc>>
    BY <1>2 DEF Tick, CatalogChanges, vars
  <2>2. QED BY <2>1 DEF StoreInv, ViewInv, TxnShape, Examined
<1>3. QED BY <1>1, <1>2

LEMMA StoreStep == StoreInv /\ [Next]_vars => StoreInv'
<1> SUFFICES ASSUME StoreInv, [Next]_vars PROVE StoreInv'
  OBVIOUS
<1>1. TypeInv'
  BY TypeStep DEF StoreInv
<1>2. ASSUME NEW t \in Threads, Call(t) PROVE ViewInv'
  BY <1>2, ViewCalls
<1>3. ASSUME NEW t \in Threads, Step(t) PROVE ViewInv'
  BY <1>3, ViewReads, ViewWrites, ViewAppends, ViewBegins, ViewExamines, ViewApplies DEF Step
<1>4. ViewInv'
  BY <1>2, <1>3, ViewWorld DEF Next
<1>5. QED BY <1>1, <1>4 DEF StoreInv

LEMMA StoreInvariant == Spec => []StoreInv
<1>1. Init => StoreInv
  BY TypeInit, ViewInit DEF StoreInv
<1>2. QED BY <1>1, StoreStep, PTL DEF Spec

-----------------------------------------------------------------------------
(* What one step does to the committed tables *)

\* One record that is about no row.
PlainAppend ==
    /\ grants' = grants
    /\ \E r \in Rec : /\ r.kind \in {"decision", "grant_redeem_denied", "outcome"}
                      /\ audit' = Append(audit, r)

\* One row change and the record that announces it.
Commits(t) ==
    /\ TxnCommit(t) /\ TxnShape(t)
    /\ loc[t] \in Loc /\ loc[t].g \in GrantIds
    /\ grants' = viewGrants /\ audit' = Append(audit, loc[t].rec)

LEMMA DbThread ==
    ASSUME StoreInv, NEW t \in Threads, Step(t)
    PROVE  UNCHANGED <<grants, audit>> \/ PlainAppend \/ Commits(t)
<1> USE DEF db, view
<1>0. loc[t] \in Loc /\ CallOK(pc[t], loc[t]) /\ DataOK
  BY ThreadFacts DEF StoreInv
<1>1. ASSUME NEW r \in Rec, r.kind \in {"decision", "grant_redeem_denied", "outcome"},
             AppendAudit(r)
      PROVE  PlainAppend
  BY <1>1, FreeView DEF AppendAudit, PlainAppend
<1>2. loc[t].reason \in Reasons /\ loc[t].did \in Nat /\ loc[t].g \in GrantIds \union {None}
      /\ loc[t].p \in Principals \union {None} /\ loc[t].tool \in Tools \union {None}
  BY <1>0 DEF Loc
<1>3. CASE LogDecision(t)
  <2>1. viewAudit \in Seq(Rec)
    BY <1>0 DEF DataOK, LogsOK
  <2>2. Len(viewAudit) + 1 \in Nat
    BY <2>1
  <2> DEFINE r == Record("decision", Len(viewAudit) + 1, None, loc[t].reason)
             rec == DecisionRecord(t, Len(viewAudit) + 1)
  <2>3. r \in Rec /\ r.kind = "decision"
    BY <1>2, <2>2, RecordType DEF Kinds
  <2>4. rec = [r EXCEPT !.principal = loc[t].p, !.tool = loc[t].tool]
    BY DEF DecisionRecord
  <2>5. AppendAudit(rec)
    BY <1>3 DEF LogDecision
  <2> HIDE DEF r, rec
  <2>6. rec \in Rec /\ rec.kind = "decision"
    BY <1>2, <2>3, <2>4 DEF Rec
  <2>7. QED BY <1>1, <2>5, <2>6
<1>4. CASE RedeemDenied(t)
  <2> DEFINE r == Record("grant_redeem_denied", loc[t].did, loc[t].g, loc[t].reason)
             rec == [r EXCEPT !.principal = loc[t].p]
  <2>1. r \in Rec /\ r.kind = "grant_redeem_denied"
    BY <1>2, RecordType DEF Kinds
  <2>2. AppendAudit(rec)
    BY <1>4 DEF RedeemDenied
  <2> HIDE DEF r
  <2>3. rec \in Rec /\ rec.kind = "grant_redeem_denied"
    BY <1>2, <2>1 DEF Rec
  <2> HIDE DEF rec
  <2>4. QED BY <1>1, <2>2, <2>3
<1>5. CASE OutcomeLog(t)
  <2> DEFINE rec == Record("outcome", loc[t].did, None, "")
  <2>1. rec \in Rec /\ rec.kind = "outcome"
    <3>1. rec \in Rec
      BY <1>2, RecordType DEF Kinds, Reasons
    <3>2. rec.kind = "outcome"
      BY DEF Record, NoRec
    <3>3. QED BY <3>1, <3>2
  <2>2. AppendAudit(rec)
    BY <1>5 DEF OutcomeLog
  <2> HIDE DEF rec
  <2>3. QED BY <1>1, <2>1, <2>2
<1>6. CASE TxnCommit(t)
  <2>1. pc[t] \in TxnPCs /\ pc[t] = "tx_commit" /\ grants' = viewGrants /\ audit' = viewAudit
    BY <1>6 DEF TxnCommit, TxnPCs
  <2>2. TxnShape(t) /\ viewAudit = Append(audit, loc[t].rec)
    BY <2>1 DEF StoreInv, ViewInv
  <2>3. loc[t].g \in GrantIds
    BY <1>0, <2>1 DEF CallOK
  <2>4. QED BY <1>0, <1>6, <2>1, <2>2, <2>3 DEF Commits
<1>7. CASE \/ TxnAudit(t) \/ TxnFault(t) \/ AppendFault(t) \/ AuthzEnter(t) \/ Decide(t)
           \/ ReadDecisionId(t) \/ AuthzExit(t) \/ RedeemBegin(t) \/ RedeemApply(t)
           \/ CloseBegin(t) \/ CloseUnknown(t) \/ OutcomeFind(t) \/ OutcomeGrant(t) \/ Reply(t)
  BY <1>7 DEF TxnAudit, TxnFault, Abandon, AppendFault, AuthzEnter, Decide, ReadDecisionId,
              AuthzExit, RedeemBegin, Examine, RedeemApply, CloseBegin, CloseUnknown,
              OutcomeFind, OutcomeGrant, Reply
<1>8. CASE IssueInsert(t)
  BY <1>8 DEF IssueInsert, Insert
<1>9. QED BY <1>3, <1>4, <1>5, <1>6, <1>7, <1>8 DEF Step

LEMMA DbStep ==
    ASSUME StoreInv, [Next]_vars
    PROVE  \/ UNCHANGED <<grants, audit>> \/ PlainAppend
           \/ \E t \in Threads : Commits(t)
<1> USE DEF db
<1>1. CASE Tick \/ CatalogChanges \/ Crash \/ UNCHANGED vars
  BY <1>1 DEF Tick, CatalogChanges, Crash, vars
<1>2. ASSUME NEW t \in Threads, Call(t) PROVE UNCHANGED <<grants, audit>>
  BY <1>2 DEF Call, CallAuthorize, CallRedeem, CallClose, CallOutcome, Start
<1>3. ASSUME NEW t \in Threads, Step(t)
      PROVE  UNCHANGED <<grants, audit>> \/ PlainAppend \/ Commits(t)
  BY <1>3, DbThread
<1>4. QED BY <1>1, <1>2, <1>3 DEF Next

\* A commit changes one row, and only as its record says.
LEMMA CommitFacts ==
    ASSUME StoreInv, NEW t \in Threads, Commits(t)
    PROVE  LET g == loc[t].g  r == loc[t].rec
           IN  /\ r \in Rec /\ r.grant = g /\ g \in GrantIds
               /\ \A k \in GrantIds \ {g} : grants'[k] = grants[k]
               /\ \/ /\ r.kind = "grant_issue" /\ loc[t].call = "authorize"
                     /\ grants[g] = None /\ grants'[g] = NewRow(loc[t], loc[t].exp)
                  \/ /\ r.kind = "grant_redeem" /\ loc[t].call = "redeem"
                     /\ loc[t].reason = "ok"
                     /\ grants[g] \in Row /\ ~grants[g].redeemed /\ ~grants[g].closed
                     /\ grants[g].principal_id = loc[t].p /\ grants[g].args_hash = loc[t].h
                     /\ grants'[g] = [grants[g] EXCEPT !.redeemed = TRUE]
                  \/ /\ r.kind = "grant_close" /\ loc[t].call # "authorize"
                     /\ loc[t].call = "redeem" => loc[t].reason # "ok"
                     /\ grants[g] \in Row /\ r.first = ~grants[g].closed
                     /\ grants'[g] = [grants[g] EXCEPT !.closed = TRUE]
<1>1. grants \in [GrantIds -> Row \union {None}] /\ loc[t].rec \in Rec /\ loc[t].g \in GrantIds
  BY DEF StoreInv, TypeInv, TypeOK, Commits, Loc
<1>2. TxnShape(t) /\ grants' = viewGrants
  BY DEF Commits
<1>3. QED BY <1>1, <1>2 DEF TxnShape

-----------------------------------------------------------------------------
(* Rows and records stay paired *)

\* What one more record adds to the marks of a grant.
LEMMA MarksAppend ==
    ASSUME NEW log \in Seq(Rec), NEW r \in Rec, NEW g, NEW k
    PROVE  /\ (r.kind = k /\ r.grant = g /\ (k = "grant_close" => r.first)) =>
                 Marks(Append(log, r), g, k) = Marks(log, g, k) \union {Len(log) + 1}
           /\ ~(r.kind = k /\ r.grant = g /\ (k = "grant_close" => r.first)) =>
                 Marks(Append(log, r), g, k) = Marks(log, g, k)
<1> DEFINE new == Append(log, r)
<1>1. /\ DOMAIN log = 1..Len(log) /\ Len(log) \in Nat
      /\ DOMAIN new = 1..(Len(log) + 1)
      /\ \A i \in DOMAIN log : i \in DOMAIN new /\ new[i] = log[i]
      /\ new[Len(log) + 1] = r
  OBVIOUS
<1>2. \A i \in DOMAIN new : i \in DOMAIN log \/ i = Len(log) + 1
  BY <1>1
<1>3. Len(log) + 1 \in DOMAIN new /\ Len(log) + 1 \notin DOMAIN log
  BY <1>1
<1> HIDE DEF new
<1>4. QED BY <1>1, <1>2, <1>3 DEF Marks, new

LEMMA HasAppend ==
    ASSUME NEW log \in Seq(Rec), NEW r \in Rec, NEW g, NEW k
    PROVE  Has(Append(log, r), g, k) <=> Has(log, g, k) \/ (r.kind = k /\ r.grant = g)
<1> DEFINE new == Append(log, r)
<1>1. /\ DOMAIN log = 1..Len(log) /\ Len(log) \in Nat
      /\ DOMAIN new = 1..(Len(log) + 1)
      /\ \A i \in DOMAIN log : i \in DOMAIN new /\ new[i] = log[i]
      /\ new[Len(log) + 1] = r
  OBVIOUS
<1>2. \A i \in DOMAIN new : i \in DOMAIN log \/ i = Len(log) + 1
  BY <1>1
<1>3. Len(log) + 1 \in DOMAIN new
  BY <1>1
<1> HIDE DEF new
<1>4. QED BY <1>1, <1>2, <1>3 DEF Has, new

\* A record of another grant, or about no row, leaves a pairing alone.
LEMMA PairedElsewhere ==
    ASSUME NEW log \in Seq(Rec), NEW r \in Rec, NEW g, NEW rows, NEW rows2,
           rows2[g] = rows[g], Paired(rows, log, g),
           r.grant # g \/ r.kind \in {"decision", "grant_redeem_denied", "outcome"}
    PROVE  Paired(rows2, Append(log, r), g)
<1>1. /\ Marks(Append(log, r), g, "grant_issue") = Marks(log, g, "grant_issue")
      /\ Marks(Append(log, r), g, "grant_redeem") = Marks(log, g, "grant_redeem")
      /\ Marks(Append(log, r), g, "grant_close") = Marks(log, g, "grant_close")
  BY MarksAppend
<1>2. Has(Append(log, r), g, "grant_close") <=> Has(log, g, "grant_close")
  BY HasAppend
<1>3. QED BY <1>1, <1>2 DEF Paired

\* Pairing in terms of the marks only.
LEMMA PairedBy ==
    ASSUME NEW rows, NEW log, NEW g, rows[g] # None, NEW I, NEW R, NEW C,
           Marks(log, g, "grant_issue") = I, Marks(log, g, "grant_redeem") = R,
           Marks(log, g, "grant_close") = C,
           I # {}, \A i, j \in I : i = j, \A i, j \in R : i = j, \A i, j \in C : i = j,
           R # {} <=> rows[g].redeemed, C # {} <=> rows[g].closed
    PROVE  Paired(rows, log, g)
<1>1. \A k \in {"grant_issue", "grant_redeem", "grant_close"} :
        \A i, j \in Marks(log, g, k) : i = j
  OBVIOUS
<1>2. QED BY <1>1 DEF Paired

\* The record of the row change itself.
LEMMA PairedHere ==
    ASSUME NEW log \in Seq(Rec), NEW r \in Rec, NEW g, NEW rows, NEW rows2,
           Paired(rows, log, g), r.grant = g,
           \/ /\ r.kind = "grant_issue" /\ rows[g] = None
              /\ rows2[g] \in Row /\ ~rows2[g].redeemed /\ ~rows2[g].closed
           \/ /\ r.kind = "grant_redeem" /\ rows[g] \in Row /\ rows[g] # None
              /\ ~rows[g].redeemed
              /\ rows2[g] \in Row /\ rows2[g].redeemed /\ rows2[g].closed = rows[g].closed
           \/ /\ r.kind = "grant_close" /\ rows[g] \in Row /\ rows[g] # None
              /\ r.first = ~rows[g].closed
              /\ rows2[g] \in Row /\ rows2[g].closed /\ rows2[g].redeemed = rows[g].redeemed
    PROVE  Paired(rows2, Append(log, r), g)
<1> DEFINE new == Append(log, r)
           n == Len(log) + 1
           I == Marks(log, g, "grant_issue")
           R == Marks(log, g, "grant_redeem")
           C == Marks(log, g, "grant_close")
<1>0. rows2[g] # None
  BY NoneAssumption
<1>1. /\ \A i, j \in I : i = j
      /\ \A i, j \in R : i = j
      /\ \A i, j \in C : i = j
      /\ I # {} <=> rows[g] # None
      /\ R # {} <=> rows[g] # None /\ rows[g].redeemed
      /\ C # {} <=> rows[g] # None /\ rows[g].closed
  BY DEF Paired
<1>2. Marks(new, g, "grant_issue") = IF r.kind = "grant_issue" THEN I \union {n} ELSE I
  BY MarksAppend
<1>3. Marks(new, g, "grant_redeem") = IF r.kind = "grant_redeem" THEN R \union {n} ELSE R
  BY MarksAppend
<1>4. Marks(new, g, "grant_close") =
        IF r.kind = "grant_close" /\ r.first THEN C \union {n} ELSE C
  BY MarksAppend
<1> HIDE DEF new, n, I, R, C
<1>5. CASE r.kind = "grant_issue"
  <2>1. I = {} /\ R = {} /\ C = {}
    BY <1>1, <1>5
  <2>2. /\ Marks(new, g, "grant_issue") = {n} /\ Marks(new, g, "grant_redeem") = {}
        /\ Marks(new, g, "grant_close") = {}
    BY <1>2, <1>3, <1>4, <1>5, <2>1
  <2>3. Paired(rows2, new, g)
    BY <1>0, <1>5, <2>2, PairedBy
  <2>4. QED BY <2>3 DEF new
<1>6. CASE r.kind = "grant_redeem"
  <2>1. I # {} /\ R = {}
    BY <1>1, <1>6
  <2>2. /\ Marks(new, g, "grant_issue") = I /\ Marks(new, g, "grant_redeem") = {n}
        /\ Marks(new, g, "grant_close") = C
    BY <1>2, <1>3, <1>4, <1>6, <2>1
  <2>3. C # {} <=> rows2[g].closed
    BY <1>1, <1>6
  <2>4. Paired(rows2, new, g)
    BY <1>0, <1>1, <1>6, <2>1, <2>2, <2>3, PairedBy
  <2>5. QED BY <2>4 DEF new
<1>7. CASE r.kind = "grant_close"
  <2> DEFINE C2 == IF r.first THEN C \union {n} ELSE C
  <2>1. I # {} /\ (R # {} <=> rows2[g].redeemed)
    BY <1>1, <1>7
  <2>2. /\ Marks(new, g, "grant_issue") = I /\ Marks(new, g, "grant_redeem") = R
        /\ Marks(new, g, "grant_close") = C2
    BY <1>2, <1>3, <1>4, <1>7
  <2>3. r.first = ~rows[g].closed /\ rows[g] # None /\ rows2[g].closed
    BY <1>7
  <2>4. C2 # {} /\ \A i, j \in C2 : i = j
    <3>1. CASE r.first
      BY <1>1, <2>3, <3>1
    <3>2. CASE ~r.first
      BY <1>1, <2>3, <3>2
    <3>3. QED BY <3>1, <3>2
  <2> HIDE DEF C2
  <2>5. Paired(rows2, new, g)
    BY <1>0, <1>1, <2>1, <2>2, <2>3, <2>4, PairedBy
  <2>6. QED BY <2>5 DEF new
<1>8. QED BY <1>5, <1>6, <1>7

LEMMA PairedStep ==
    ASSUME StoreInv, AuditMatchesGrants, [Next]_vars
    PROVE  AuditMatchesGrants'
<1>0. /\ audit \in Seq(Rec) /\ grants \in [GrantIds -> Row \union {None}]
      /\ grants' \in [GrantIds -> Row \union {None}]
  BY StoreStep DEF StoreInv, TypeInv, TypeOK
<1>1. CASE UNCHANGED <<grants, audit>>
  BY <1>1 DEF AuditMatchesGrants
<1>2. CASE PlainAppend
  <2>1. PICK r \in Rec : /\ r.kind \in {"decision", "grant_redeem_denied", "outcome"}
                         /\ audit' = Append(audit, r)
    BY <1>2 DEF PlainAppend
  <2>2. \A g \in GrantIds : Paired(grants', Append(audit, r), g)
    BY <1>0, <1>2, <2>1, PairedElsewhere DEF PlainAppend, AuditMatchesGrants
  <2>3. QED BY <2>1, <2>2 DEF AuditMatchesGrants
<1>3. ASSUME NEW t \in Threads, Commits(t) PROVE AuditMatchesGrants'
  <2> DEFINE r == loc[t].rec
  <2>1. audit' = Append(audit, r)
    BY <1>3 DEF Commits
  <2>2. r \in Rec /\ r.grant = loc[t].g /\ loc[t].g \in GrantIds
        /\ \A k \in GrantIds \ {loc[t].g} : grants'[k] = grants[k]
    BY <1>3, CommitFacts
  <2>3. ASSUME NEW g \in GrantIds \ {loc[t].g} PROVE Paired(grants', Append(audit, r), g)
    <3>1. Paired(grants, audit, g) /\ grants'[g] = grants[g] /\ r.grant # g
      BY <2>2, <2>3 DEF AuditMatchesGrants
    <3> HIDE DEF r
    <3>2. QED BY <1>0, <2>2, <3>1, PairedElsewhere
  <2>4. Paired(grants', Append(audit, r), loc[t].g)
    <3> DEFINE g == loc[t].g
    <3>1. Paired(grants, audit, g)
      BY <2>2 DEF AuditMatchesGrants
    <3>2. grants'[g] \in Row \union {None}
      BY <1>0, <2>2
    <3>3. \/ /\ r.kind = "grant_issue" /\ grants[g] = None
             /\ grants'[g] \in Row /\ ~grants'[g].redeemed /\ ~grants'[g].closed
          \/ /\ r.kind = "grant_redeem" /\ grants[g] \in Row /\ grants[g] # None
             /\ ~grants[g].redeemed
             /\ grants'[g] \in Row /\ grants'[g].redeemed
             /\ grants'[g].closed = grants[g].closed
          \/ /\ r.kind = "grant_close" /\ grants[g] \in Row /\ grants[g] # None
             /\ r.first = ~grants[g].closed
             /\ grants'[g] \in Row /\ grants'[g].closed
             /\ grants'[g].redeemed = grants[g].redeemed
      <4>1. CASE grants[g] = None /\ r.kind = "grant_issue"
                 /\ grants'[g] = NewRow(loc[t], loc[t].exp)
        <5>1. grants'[g] # None
          <6>1. loc[t].call = "authorize"
            BY <1>3, <4>1, CommitFacts
          <6>2. loc[t].p \in Principals /\ loc[t].h \in Hashes /\ loc[t].tool \in Tools
            BY <6>1, ThreadFacts DEF StoreInv, CallOK
          <6>3. loc[t].did \in Nat /\ loc[t].exp \in Nat
            BY ThreadFacts DEF StoreInv, Loc
          <6>4. NewRow(loc[t], loc[t].exp) \in Row
            BY <6>2, <6>3 DEF NewRow, Row
          <6>5. QED BY <4>1, <6>4, NoneAssumption
        <5>2. QED BY <3>2, <4>1, <5>1 DEF NewRow
      <4>2. CASE /\ r.kind = "grant_redeem" /\ grants[g] \in Row /\ ~grants[g].redeemed
                 /\ grants'[g] = [grants[g] EXCEPT !.redeemed = TRUE]
        BY <4>2, NoneAssumption DEF Row
      <4>3. CASE /\ r.kind = "grant_close" /\ grants[g] \in Row /\ r.first = ~grants[g].closed
                 /\ grants'[g] = [grants[g] EXCEPT !.closed = TRUE]
        BY <4>3, NoneAssumption DEF Row
      <4>4. QED BY <1>3, <4>1, <4>2, <4>3, CommitFacts
    <3> HIDE DEF r
    <3>4. QED BY <1>0, <2>2, <3>1, <3>3, PairedHere
  <2>5. \A g \in GrantIds : Paired(grants', Append(audit, r), g)
    BY <2>3, <2>4
  <2>6. QED BY <2>1, <2>5 DEF AuditMatchesGrants
<1>4. QED BY <1>1, <1>2, <1>3, DbStep

LEMMA PairedInit == Init => AuditMatchesGrants
<1> SUFFICES ASSUME Init, NEW g \in GrantIds PROVE Paired(grants, audit, g)
  BY DEF AuditMatchesGrants
<1>1. audit = <<>> /\ grants[g] = None
  BY DEF Init
<1>2. DOMAIN audit = {}
  BY <1>1
<1>3. QED BY <1>1, <1>2 DEF Paired, Marks, Has

\* ADR 0002 section 4 for every number of threads, grants and calls: a row and its
\* records are never seen apart, whatever fault or crash interrupts issue_grant,
\* redeem_grant or close_grant between the UPDATE and the COMMIT.
THEOREM AuditPaired == Spec => []AuditMatchesGrants
<1>1. StoreInv /\ AuditMatchesGrants /\ [Next]_vars => AuditMatchesGrants'
  BY PairedStep
<1>2. QED BY <1>1, PairedInit, StoreInvariant, PTL DEF Spec

-----------------------------------------------------------------------------
(***************************************************************************)
(* What the grant service never takes back and what its rows and records   *)
(* hang on: committed rows and records stay, a grant belongs to the        *)
(* decision of its own call, and an outcome closes only a grant of the     *)
(* decision it reports on.                                                 *)
(*                                                                         *)
(* The argument: DbStep says what a step may do to the                     *)
(* committed tables, Arrivals says by which action a thread comes to each  *)
(* place in its code, and _authz_lock admits one authorize() at a time     *)
(* between its decision and its grant.                                     *)
(***************************************************************************)

-----------------------------------------------------------------------------
(* Logs and rows only grow *)

\* Append keeps what is there and adds one entry at the end.
LEMMA AppendFacts ==
    ASSUME NEW S, NEW log \in Seq(S), NEW r \in S
    PROVE  /\ Len(log) \in Nat /\ DOMAIN log = 1..Len(log)
           /\ Append(log, r) \in Seq(S) /\ Len(Append(log, r)) = Len(log) + 1
           /\ DOMAIN Append(log, r) = 1..(Len(log) + 1)
           /\ \A i \in DOMAIN log : i \in DOMAIN Append(log, r) /\ Append(log, r)[i] = log[i]
           /\ Append(log, r)[Len(log) + 1] = r
           /\ Len(log) + 1 \in DOMAIN Append(log, r) /\ Len(log) + 1 \notin DOMAIN log
           /\ \A i \in DOMAIN Append(log, r) : i \in DOMAIN log \/ i = Len(log) + 1
<1>1. /\ Len(log) \in Nat /\ DOMAIN log = 1..Len(log)
      /\ Append(log, r) \in Seq(S) /\ Len(Append(log, r)) = Len(log) + 1
      /\ DOMAIN Append(log, r) = 1..(Len(log) + 1)
      /\ \A i \in DOMAIN log : i \in DOMAIN Append(log, r) /\ Append(log, r)[i] = log[i]
      /\ Append(log, r)[Len(log) + 1] = r
  OBVIOUS
<1>2. /\ Len(log) + 1 \in 1..(Len(log) + 1) /\ Len(log) + 1 \notin 1..Len(log)
      /\ \A i \in 1..(Len(log) + 1) : i \in 1..Len(log) \/ i = Len(log) + 1
  BY <1>1
<1>3. QED BY <1>1, <1>2

\* A row of the next state that continues a row of this one.
Continues(old, new) ==
    /\ new \in Row
    /\ new.decision_id = old.decision_id /\ new.principal_id = old.principal_id
    /\ new.tool = old.tool /\ new.args_hash = old.args_hash
    /\ new.expires_at = old.expires_at
    /\ old.redeemed => new.redeemed
    /\ old.closed => new.closed

LEMMA ContinuesSelf ==
    ASSUME NEW row \in Row PROVE Continues(row, row)
BY DEF Continues

LEMMA RowsContinue ==
    ASSUME StoreInv, [Next]_vars
    PROVE  /\ grants \in [GrantIds -> Row \union {None}]
           /\ grants' \in [GrantIds -> Row \union {None}]
           /\ \A g \in GrantIds : grants[g] # None =>
                 grants'[g] # None /\ grants[g] \in Row /\ Continues(grants[g], grants'[g])
<1>1. /\ grants \in [GrantIds -> Row \union {None}]
      /\ grants' \in [GrantIds -> Row \union {None}]
  BY StoreStep DEF StoreInv, TypeInv, TypeOK
<1>2. SUFFICES ASSUME NEW g \in GrantIds, grants[g] # None
               PROVE  grants'[g] \in Row /\ Continues(grants[g], grants'[g])
  BY <1>1, NoneAssumption
<1>3. grants[g] \in Row
  BY <1>1, <1>2
<1>4. CASE grants'[g] = grants[g]
  BY <1>3, <1>4, ContinuesSelf
<1>5. ASSUME NEW t \in Threads, Commits(t)
      PROVE  grants'[g] \in Row /\ Continues(grants[g], grants'[g])
  <2>1. CASE g # loc[t].g
    BY <1>4, <1>5, <2>1, CommitFacts
  <2>2. CASE grants'[g] = [grants[g] EXCEPT !.redeemed = TRUE]
    BY <1>3, <2>2 DEF Continues, Row
  <2>3. CASE grants'[g] = [grants[g] EXCEPT !.closed = TRUE]
    BY <1>3, <2>3 DEF Continues, Row
  <2>4. QED BY <1>2, <1>5, <2>1, <2>2, <2>3, CommitFacts
<1>6. QED BY <1>4, <1>5, DbStep DEF PlainAppend

\* A record is only ever added, and at the end.
LEMMA LogContinues ==
    ASSUME StoreInv, [Next]_vars
    PROVE  /\ audit \in Seq(Rec) /\ audit' \in Seq(Rec)
           /\ audit' = audit \/ \E r \in Rec : audit' = Append(audit, r)
           /\ \A i \in DOMAIN audit : i \in DOMAIN audit' /\ audit'[i] = audit[i]
<1>1. audit \in Seq(Rec) /\ audit' \in Seq(Rec)
  BY StoreStep DEF StoreInv, TypeInv, TypeOK
<1>2. audit' = audit \/ \E r \in Rec : audit' = Append(audit, r)
  BY DbStep DEF PlainAppend, Commits, Loc
<1>3. QED BY <1>1, <1>2, AppendFacts

\* No rollback, restart or late thread takes back a row or a record that was committed, in
\* any store of any size: what a caller, an auditor or a backup has once seen stays true.
THEOREM NothingIsTakenBack == Spec => CommittedIsForever
<1>1. ASSUME StoreInv, [Next]_vars PROVE Kept
  <2>1. /\ audit \in Seq(Rec) /\ audit' \in Seq(Rec)
        /\ audit' = audit \/ \E r \in Rec : audit' = Append(audit, r)
    BY <1>1, LogContinues
  <2>2. Len(audit) <= Len(audit') /\ SubSeq(audit', 1, Len(audit)) = audit
    <3>1. CASE audit' = audit
      BY <2>1, <3>1
    <3>2. ASSUME NEW r \in Rec, audit' = Append(audit, r)
          PROVE  Len(audit) <= Len(audit') /\ SubSeq(audit', 1, Len(audit)) = audit
      BY <2>1, <3>2
    <3>3. QED BY <2>1, <3>1, <3>2
  <2>3. ASSUME NEW g \in GrantIds, grants[g] # None
        PROVE  /\ grants'[g] # None
               /\ grants[g].redeemed => grants'[g].redeemed
               /\ grants[g].closed => grants'[g].closed
               /\ \A f \in DOMAIN grants[g] \ {"redeemed", "closed"} :
                     grants'[g][f] = grants[g][f]
    <3>1. grants'[g] # None /\ grants[g] \in Row /\ Continues(grants[g], grants'[g])
      BY <1>1, <2>3, RowsContinue
    <3>2. DOMAIN grants[g] = {"decision_id", "principal_id", "tool", "args_hash",
                              "expires_at", "redeemed", "closed"}
      BY <3>1 DEF Row
    <3>3. QED BY <3>1, <3>2 DEF Continues
  <2>4. QED BY <2>2, <2>3 DEF Kept
<1>2. StoreInv /\ [Next]_vars => [Kept]_vars
  BY <1>1
<1>3. QED BY <1>2, StoreInvariant, PTL DEF Spec, CommittedIsForever

-----------------------------------------------------------------------------
(* How a thread comes to a place in its code *)

Arrived(t) ==
    /\ pc'[t] = "az_read" => LogDecision(t)
    /\ pc'[t] = "is_insert" => ReadDecisionId(t)
    /\ pc'[t] \in TxnPCs => TxnAudit(t) \/ IssueInsert(t) \/ RedeemApply(t) \/ CloseBegin(t)
    /\ pc'[t] = "rd_check" => RedeemBegin(t)
    /\ pc'[t] = "rd_deny" => RedeemBegin(t) \/ TxnCommit(t)
    /\ pc'[t] # "oc_find"
    /\ pc'[t] = "oc_log" => OutcomeFind(t)
    /\ pc'[t] = "oc_grant" => OutcomeLog(t)
    /\ pc'[t] = "cl_begin" => OutcomeGrant(t)
    /\ pc'[t] = "reply" /\ loc'[t].call = "redeem" /\ loc'[t].reason = "ok" =>
          TxnCommit(t) \/ RedeemDenied(t)

Elsewhere(t) == \A u \in Threads \ {t} : pc'[u] = pc[u] /\ loc'[u] = loc[u]

LEMMA BecomeMoves ==
    ASSUME StoreInv, NEW t \in Threads, NEW label, NEW l, Become(t, label, l)
    PROVE  pc'[t] = label /\ loc'[t] = l /\ Elsewhere(t)
BY DEF Become, StoreInv, TypeInv, TypeOK, Elsewhere

LEMMA Arrivals ==
    ASSUME StoreInv, NEW t \in Threads, Step(t)
    PROVE  Arrived(t) /\ Elsewhere(t)
<1>0. loc[t] \in Loc /\ CallOK(pc[t], loc[t]) /\ t # None
  BY ThreadFacts DEF StoreInv
<1> USE BecomeMoves DEF Goto
<1>1. CASE TxnAudit(t)
  <2>1. pc'[t] = "tx_commit" /\ Elsewhere(t)
    BY <1>1 DEF TxnAudit
  <2>2. QED BY <1>1, <2>1 DEF Arrived
<1>2. CASE TxnCommit(t)
  <2>1. pc'[t] = loc[t].next /\ Elsewhere(t)
    BY <1>2 DEF TxnCommit
  <2>2. pc'[t] \in {"az_exit", "rd_deny", "reply"}
    BY <1>0, <1>2, <2>1 DEF TxnCommit, CallOK, TxnPCs
  <2>3. QED BY <1>2, <2>1, <2>2 DEF Arrived, TxnPCs
<1>3. CASE TxnFault(t) \/ AppendFault(t)
  <2>1. Raise(t)
    BY <1>3 DEF TxnFault, Abandon, AppendFault
  <2>2. pc'[t] \in {"az_exit", "reply"} /\ loc'[t].reason = "error" /\ Elsewhere(t)
    BY <1>0, <2>1 DEF Raise, Loc
  <2>3. QED BY <2>2 DEF Arrived, TxnPCs
<1>4. CASE AuthzEnter(t) \/ Decide(t)
  <2>1. pc'[t] \in {"az_decide", "az_log"} /\ Elsewhere(t)
    BY <1>4 DEF AuthzEnter, Decide
  <2>2. QED BY <2>1 DEF Arrived, TxnPCs
<1>5. CASE LogDecision(t)
  <2>1. pc'[t] = "az_read" /\ Elsewhere(t)
    BY <1>5 DEF LogDecision
  <2>2. QED BY <1>5, <2>1 DEF Arrived, TxnPCs
<1>6. CASE ReadDecisionId(t)
  <2>1. pc'[t] \in {"is_insert", "az_exit"} /\ Elsewhere(t)
    BY <1>6 DEF ReadDecisionId
  <2>2. QED BY <1>6, <2>1 DEF Arrived, TxnPCs
<1>7. CASE IssueInsert(t)
  <2>1. pc'[t] = "tx_audit" /\ Elsewhere(t)
    BY <1>7 DEF IssueInsert, Insert
  <2>2. QED BY <1>7, <2>1 DEF Arrived, TxnPCs
<1>8. CASE AuthzExit(t)
  <2>1. pc'[t] = "reply" /\ loc'[t] = loc[t] /\ loc[t].call = "authorize" /\ Elsewhere(t)
    BY <1>0, <1>8 DEF AuthzExit, CallOK, AuthorizePCs
  <2>2. QED BY <2>1 DEF Arrived, TxnPCs
<1>9. CASE RedeemBegin(t)
  <2>1. pc'[t] \in {"rd_check", "rd_deny"} /\ Elsewhere(t)
    BY <1>9 DEF RedeemBegin, Examine
  <2>2. QED BY <1>9, <2>1 DEF Arrived, TxnPCs
<1>10. CASE RedeemApply(t)
  <2>1. pc'[t] = "tx_audit" /\ Elsewhere(t)
    BY <1>10 DEF RedeemApply, Spend, Kill
  <2>2. QED BY <1>10, <2>1 DEF Arrived, TxnPCs
<1>11. CASE RedeemDenied(t)
  <2>1. pc'[t] = "reply" /\ Elsewhere(t)
    BY <1>11 DEF RedeemDenied
  <2>2. QED BY <1>11, <2>1 DEF Arrived, TxnPCs
<1>12. CASE CloseBegin(t)
  <2>1. pc'[t] = "tx_audit" /\ Elsewhere(t)
    BY <1>12 DEF CloseBegin
  <2>2. QED BY <1>12, <2>1 DEF Arrived, TxnPCs
<1>13. CASE CloseUnknown(t)
  <2>1. loc[t].call \in {"close", "outcome"}
    BY <1>0, <1>13 DEF CloseUnknown, CallOK
  <2>2. pc'[t] = "reply" /\ loc'[t].call = loc[t].call /\ Elsewhere(t)
    BY <1>0, <1>13, <2>1 DEF CloseUnknown, Raise, Loc
  <2>3. QED BY <2>1, <2>2 DEF Arrived, TxnPCs
<1>14. CASE OutcomeLog(t)
  <2>1. /\ pc'[t] \in {"reply", "oc_grant"} /\ loc'[t] = loc[t] /\ loc[t].call # "redeem"
        /\ Elsewhere(t)
    BY <1>0, <1>14 DEF OutcomeLog, CallOK
  <2>2. QED BY <1>14, <2>1 DEF Arrived, TxnPCs
<1>15. CASE OutcomeGrant(t)
  <2>1. loc[t].call \in {"close", "outcome"}
    BY <1>0, <1>15 DEF OutcomeGrant, CallOK
  <2>2. pc'[t] \in {"reply", "cl_begin"} /\ loc'[t].call = loc[t].call /\ Elsewhere(t)
    BY <1>0, <1>15, <2>1 DEF OutcomeGrant, Raise, Loc
  <2>3. QED BY <1>15, <2>1, <2>2 DEF Arrived, TxnPCs
<1>16. CASE Reply(t)
  <2>1. pc'[t] = "idle" /\ Elsewhere(t)
    BY <1>16 DEF Reply
  <2>2. QED BY <2>1 DEF Arrived, TxnPCs
<1>17. CASE OutcomeFind(t)
  <2>1. loc[t].call \in {"close", "outcome"}
    BY <1>0, <1>17 DEF OutcomeFind, CallOK
  <2>2. pc'[t] \in {"reply", "oc_log"} /\ loc'[t].call = loc[t].call /\ Elsewhere(t)
    BY <1>0, <1>17, <2>1 DEF OutcomeFind, Raise, Loc
  <2>3. QED BY <1>17, <2>1, <2>2 DEF Arrived, TxnPCs
<1>18. QED BY <1>1, <1>2, <1>3, <1>4, <1>5, <1>6, <1>7, <1>8, <1>9, <1>10, <1>11, <1>12,
              <1>13, <1>14, <1>15, <1>16, <1>17 DEF Step

\* A call that has just arrived.
LEMMA CallArrivals ==
    ASSUME StoreInv, NEW t \in Threads, Call(t)
    PROVE  /\ pc'[t] \in {"az_lock", "rd_begin", "cl_begin", "oc_find"}
           /\ pc'[t] = "cl_begin" => loc'[t].call = "close"
           /\ pc'[t] = "oc_find" => loc'[t].call = "outcome"
           /\ Elsewhere(t)
<1>1. ASSUME NEW label \in {"az_lock", "rd_begin", "cl_begin", "oc_find"}, NEW l,
             Start(t, label, l)
      PROVE  pc'[t] = label /\ loc'[t] = l /\ Elsewhere(t)
  BY <1>1, BecomeMoves DEF Start
<1>2. CASE CallAuthorize(t)
  <2>1. pc'[t] = "az_lock" /\ Elsewhere(t)
    BY <1>1, <1>2 DEF CallAuthorize
  <2>2. QED BY <2>1
<1>3. CASE CallRedeem(t)
  <2>1. pc'[t] = "rd_begin" /\ Elsewhere(t)
    BY <1>1, <1>3 DEF CallRedeem
  <2>2. QED BY <2>1
<1>4. CASE CallOutcome(t)
  <2>1. PICK d \in DOMAIN audit, g \in GrantIds \union {None} :
          Start(t, "oc_find", [NoLoc EXCEPT !.call = "outcome", !.did = d, !.g = g,
                                            !.reason = "outcome_reported"])
    BY <1>4 DEF CallOutcome
  <2>2. /\ pc'[t] = "oc_find" /\ Elsewhere(t)
        /\ loc'[t] = [NoLoc EXCEPT !.call = "outcome", !.did = d, !.g = g,
                                   !.reason = "outcome_reported"]
    BY <1>1, <2>1
  <2>3. QED BY <2>2 DEF NoLoc
<1>5. CASE CallClose(t)
  <2>1. PICK g \in GrantIds, why \in CloseReasons :
          Start(t, "cl_begin", [NoLoc EXCEPT !.call = "close", !.g = g, !.reason = why])
    BY <1>5 DEF CallClose
  <2>2. /\ pc'[t] = "cl_begin" /\ Elsewhere(t)
        /\ loc'[t] = [NoLoc EXCEPT !.call = "close", !.g = g, !.reason = why]
    BY <1>1, <2>1
  <2>3. QED BY <2>2 DEF NoLoc
<1>6. QED BY <1>2, <1>3, <1>4, <1>5 DEF Call

LEMMA WorldFacts ==
    ASSUME Tick \/ CatalogChanges \/ Crash \/ UNCHANGED vars
    PROVE  /\ UNCHANGED <<grants, audit, delivered>>
           /\ \/ UNCHANGED <<pc, loc, lastDecision>>
              \/ \A t \in Threads : pc'[t] = "idle" /\ loc'[t] = NoLoc
BY DEF Tick, CatalogChanges, Crash, vars, db, ghosts, env

LEMMA InsertFacts ==
    ASSUME StoreInv, NEW t \in Threads, IssueInsert(t)
    PROVE  /\ pc[t] = "is_insert" /\ pc'[t] = "tx_audit"
           /\ loc[t].call = "authorize" /\ loc'[t].call = "authorize"
           /\ loc'[t].did = loc[t].did /\ loc'[t].reason = loc[t].reason
           /\ loc'[t].p = loc[t].p /\ loc'[t].tool = loc[t].tool
           /\ UNCHANGED <<grants, audit>>
<1>1. loc[t] \in Loc /\ CallOK(pc[t], loc[t])
  BY ThreadFacts DEF StoreInv
<1>2. PICK g \in GrantIds : Insert(t, g, loc[t].exp)
  BY DEF IssueInsert
<1> DEFINE l == [loc[t] EXCEPT !.g = g, !.next = "az_exit",
                               !.rec = Record("grant_issue", loc[t].did, g, "")]
<1>3. /\ pc[t] = "is_insert" /\ pc'[t] = "tx_audit" /\ loc'[t] = l
      /\ UNCHANGED <<grants, audit>>
  BY <1>2, BecomeMoves DEF Insert, db
<1>4. /\ l.did = loc[t].did /\ l.reason = loc[t].reason /\ l.p = loc[t].p
      /\ l.tool = loc[t].tool /\ l.call = loc[t].call
  BY <1>1 DEF Loc
<1> HIDE DEF l
<1>5. QED BY <1>1, <1>3, <1>4 DEF CallOK, AuthorizePCs

\* The UPDATE of redeem_grant, and what it will be recorded as.
LEMMA ApplyFacts ==
    ASSUME StoreInv, NEW t \in Threads, RedeemApply(t)
    PROVE  /\ pc[t] = "rd_check" /\ loc[t].reason = "ok" /\ pc'[t] = "tx_audit"
           /\ loc[t].call = "redeem" /\ loc'[t].call = "redeem" /\ loc'[t].g = loc[t].g
           /\ \/ loc'[t].reason = "ok"
              \/ loc'[t].reason = "not_invocable" /\ loc'[t].rec.reason = "not_invocable"
           /\ loc'[t].reason = "ok" => loc'[t].rec.kind = "grant_redeem"
           /\ UNCHANGED <<grants, audit>>
<1>1. loc[t] \in Loc /\ CallOK(pc[t], loc[t])
  BY ThreadFacts DEF StoreInv
<1>2. /\ pc[t] = "rd_check" /\ loc[t].call = "redeem" /\ loc[t].reason = "ok"
      /\ UNCHANGED <<grants, audit>>
  BY <1>1 DEF RedeemApply, CallOK, RedeemPCs, db
<1>3. CASE Spend(t)
  <2> DEFINE rec == [Record("grant_redeem", loc[t].did, loc[t].g, "")
                       EXCEPT !.principal = loc[t].p]
             l == [loc[t] EXCEPT !.next = "reply", !.rec = rec]
  <2>1. pc'[t] = "tx_audit" /\ loc'[t] = l
    BY <1>3, BecomeMoves DEF Spend
  <2>2. rec.kind = "grant_redeem"
    BY DEF Record, NoRec
  <2> HIDE DEF rec
  <2>3. l.call = loc[t].call /\ l.g = loc[t].g /\ l.reason = loc[t].reason /\ l.rec = rec
    BY <1>1 DEF Loc
  <2> HIDE DEF l
  <2>4. QED BY <1>2, <2>1, <2>2, <2>3
<1>4. ASSUME NEW rows, Kill(t, rows)
      PROVE  /\ pc'[t] = "tx_audit" /\ loc'[t].call = "redeem" /\ loc'[t].g = loc[t].g
             /\ loc'[t].reason = "not_invocable" /\ loc'[t].rec.reason = "not_invocable"
  <2> DEFINE rec == [Record("grant_close", loc[t].did, loc[t].g, "not_invocable")
                       EXCEPT !.first = TRUE]
             l == [loc[t] EXCEPT !.reason = "not_invocable", !.next = "rd_deny", !.rec = rec]
  <2>1. pc'[t] = "tx_audit" /\ loc'[t] = l
    BY <1>4, BecomeMoves DEF Kill
  <2>2. rec.reason = "not_invocable"
    BY DEF Record, NoRec
  <2> HIDE DEF rec
  <2>3. l.call = loc[t].call /\ l.g = loc[t].g /\ l.reason = "not_invocable" /\ l.rec = rec
    BY <1>1 DEF Loc
  <2> HIDE DEF l
  <2>4. QED BY <1>2, <2>1, <2>2, <2>3
<1>5. QED BY <1>2, <1>3, <1>4 DEF RedeemApply

\* The UPDATE of close_grant, and what it will be recorded as.
LEMMA CloseFacts ==
    ASSUME StoreInv, NEW t \in Threads, CloseBegin(t)
    PROVE  /\ pc[t] = "cl_begin" /\ pc'[t] = "tx_audit"
           /\ loc[t].call \in {"close", "outcome"} /\ loc'[t].call = loc[t].call
           /\ grants[loc[t].g] # None
           /\ loc'[t].g = loc[t].g /\ loc'[t].did = loc[t].did
           /\ UNCHANGED <<grants, audit>>
<1> DEFINE row == viewGrants[loc[t].g]
           r == Record("grant_close", row.decision_id, loc[t].g, loc[t].reason)
           rec == [r EXCEPT !.first = ~row.closed]
           l == [loc[t] EXCEPT !.next = "reply", !.rec = rec]
<1>1. loc[t] \in Loc /\ CallOK(pc[t], loc[t]) /\ RowsOK
  BY ThreadFacts DEF StoreInv, DataOK
<1>2. /\ pc[t] = "cl_begin" /\ storeLock = None /\ row # None /\ Become(t, "tx_audit", l)
      /\ UNCHANGED <<grants, audit>>
  BY DEF CloseBegin, db
<1>3. viewGrants = grants
  BY <1>2, FreeView
<1>4. loc[t].call \in {"close", "outcome"} /\ loc[t].g \in GrantIds
  BY <1>1, <1>2 DEF CallOK
<1>5. pc'[t] = "tx_audit" /\ loc'[t] = l
  BY <1>2, BecomeMoves
<1> HIDE DEF rec
<1>6. l.call = loc[t].call /\ l.g = loc[t].g /\ l.did = loc[t].did
  BY <1>1 DEF Loc
<1> HIDE DEF l
<1>7. QED BY <1>2, <1>3, <1>4, <1>5, <1>6

-----------------------------------------------------------------------------
(* A grant belongs to the decision of its own call *)

\* A row that was not there before is the one the authorize() that commits has asked for.
LEMMA NewRowFacts ==
    ASSUME StoreInv, [Next]_vars, NEW g \in GrantIds, grants[g] = None, grants'[g] # None
    PROVE  \E t \in Threads :
              /\ Step(t) /\ TxnCommit(t) /\ Commits(t)
              /\ loc[t].call = "authorize" /\ loc[t].g = g
              /\ grants'[g] = NewRow(loc[t], loc[t].exp)
              /\ \A k \in GrantIds \ {g} : grants'[k] = grants[k]
<1>1. PICK t \in Threads : Commits(t)
  BY DbStep DEF PlainAppend
<1>2. loc[t].g = g
  BY <1>1, CommitFacts
<1>3. TxnCommit(t) /\ Step(t)
  BY <1>1 DEF Commits, Step
<1>4. loc[t].call = "authorize" /\ grants'[g] = NewRow(loc[t], loc[t].exp)
  BY <1>1, <1>2, CommitFacts, NoneAssumption
<1>5. QED BY <1>1, <1>2, <1>3, <1>4, CommitFacts

LEMMA OwnKept ==
    ASSUME StoreInv, [Next]_vars, NEW u \in Threads, NEW d, OwnDecision(u, d),
           loc'[u].reason = loc[u].reason, loc'[u].p = loc[u].p, loc'[u].tool = loc[u].tool,
           \A g \in GrantIds :
              grants[g] = None /\ grants'[g] # None => grants'[g].decision_id # d
    PROVE  OwnDecision(u, d)'
<1>1. d \in DOMAIN audit' /\ audit'[d] = audit[d]
  BY LogContinues DEF OwnDecision
<1>2. ASSUME NEW g \in GrantIds, grants'[g] # None PROVE grants'[g].decision_id # d
  BY <1>2, RowsContinue DEF OwnDecision, Continues
<1>3. QED BY <1>1, <1>2 DEF OwnDecision

\* Between its decision and its grant, an authorize() is alone.
LEMMA OneDecider ==
    ASSUME StoreInv, NEW t \in Threads, NEW u \in Threads,
           HoldsAuthz(pc[t], loc[t]), HoldsAuthz(pc[u], loc[u])
    PROVE  t = u
BY ThreadFacts DEF StoreInv

LEMMA BoundKept ==
    ASSUME StoreInv, DecisionInv, [Next]_vars
    PROVE  GrantBoundToItsDecision'
<1> DEFINE Bound(g) == LET d == audit'[grants'[g].decision_id]
                       IN  /\ grants'[g].decision_id \in DOMAIN audit'
                           /\ d.kind = "decision" /\ d.reason = "allow"
                           /\ d.principal = grants'[g].principal_id
                           /\ d.tool = grants'[g].tool
<1>1. ASSUME NEW g \in GrantIds, grants[g] # None PROVE Bound(g)
  <2>1. Continues(grants[g], grants'[g])
    BY <1>1, RowsContinue
  <2>2. /\ grants[g].decision_id \in DOMAIN audit
        /\ audit[grants[g].decision_id].kind = "decision"
        /\ audit[grants[g].decision_id].reason = "allow"
        /\ audit[grants[g].decision_id].principal = grants[g].principal_id
        /\ audit[grants[g].decision_id].tool = grants[g].tool
    BY <1>1 DEF DecisionInv, GrantBoundToItsDecision
  <2>3. QED BY <2>1, <2>2, LogContinues DEF Continues
<1>2. ASSUME NEW g \in GrantIds, grants[g] = None, grants'[g] # None
      PROVE  /\ Bound(g)
             /\ \A k \in GrantIds \ {g} :
                   grants'[k] # None => grants'[k].decision_id # grants'[g].decision_id
  <2>1. PICK t \in Threads :
           /\ TxnCommit(t) /\ loc[t].call = "authorize"
           /\ grants'[g] = NewRow(loc[t], loc[t].exp)
           /\ \A k \in GrantIds \ {g} : grants'[k] = grants[k]
    BY <1>2, NewRowFacts
  <2>2. OwnDecision(t, loc[t].did) /\ loc[t].reason = "allow"
    BY <2>1 DEF TxnCommit, TxnPCs, DecisionInv
  <2>3. /\ grants'[g].decision_id = loc[t].did /\ grants'[g].principal_id = loc[t].p
        /\ grants'[g].tool = loc[t].tool
    BY <2>1 DEF NewRow
  <2>4. Bound(g)
    BY <2>2, <2>3, LogContinues DEF OwnDecision
  <2>5. QED BY <2>1, <2>2, <2>3, <2>4 DEF OwnDecision
<1>3. ASSUME NEW g \in GrantIds, grants'[g] # None,
             NEW k \in GrantIds \ {g}, grants'[k] # None
      PROVE  grants'[k].decision_id # grants'[g].decision_id
  <2>1. CASE grants[g] = None \/ grants[k] = None
    BY <1>2, <1>3, <2>1
  <2>2. CASE grants[g] # None /\ grants[k] # None
    <3>1. Continues(grants[g], grants'[g]) /\ Continues(grants[k], grants'[k])
      BY <2>2, RowsContinue
    <3>2. grants[k].decision_id # grants[g].decision_id
      BY <2>2 DEF DecisionInv, GrantBoundToItsDecision
    <3>3. QED BY <3>1, <3>2 DEF Continues
  <2>3. QED BY <2>1, <2>2
<1>4. \A g \in GrantIds : grants'[g] # None => Bound(g)
  BY <1>1, <1>2
<1>5. QED BY <1>3, <1>4 DEF GrantBoundToItsDecision

\* What DecisionInv says of one thread.
Decided(t) ==
    /\ pc[t] = "az_read" => OwnDecision(t, lastDecision)
    /\ pc[t] = "is_insert" \/ (pc[t] \in TxnPCs /\ loc[t].call = "authorize") =>
          OwnDecision(t, loc[t].did) /\ loc[t].reason = "allow"

\* The record authorize() logs is its own.
LEMMA LogsItsOwn ==
    ASSUME StoreInv, DecisionInv, NEW t \in Threads, LogDecision(t)
    PROVE  OwnDecision(t, lastDecision)'
<1> DEFINE n == Len(audit) + 1
           rec == DecisionRecord(t, n)
<1>1. /\ loc[t] \in Loc /\ pc[t] = "az_log" /\ storeLock = None /\ audit \in Seq(Rec)
      /\ grants \in [GrantIds -> Row \union {None}]
  BY ThreadFacts DEF StoreInv, LogDecision, AppendAudit, DataOK, LogsOK, RowsOK
<1>2. viewGrants = grants /\ viewAudit = audit
  BY <1>1, FreeView
<1>3. /\ audit' = Append(audit, rec) /\ grants' = grants /\ lastDecision' = n
      /\ Become(t, "az_read", loc[t])
  BY <1>2 DEF LogDecision, AppendAudit, Goto
<1>4. loc'[t] = loc[t]
  BY <1>3, BecomeMoves
<1>5. rec \in Rec /\ rec.kind = "decision" /\ rec.reason = loc[t].reason
      /\ rec.principal = loc[t].p /\ rec.tool = loc[t].tool
  <2> DEFINE r == Record("decision", n, None, loc[t].reason)
  <2>1. n \in Nat /\ loc[t].reason \in Reasons /\ loc[t].p \in Principals \union {None}
        /\ loc[t].tool \in Tools \union {None}
    BY <1>1 DEF Loc
  <2> HIDE DEF n
  <2>2. r \in Rec /\ r.kind = "decision" /\ r.reason = loc[t].reason
    <3>1. None \in GrantIds \union {None} /\ "decision" \in Kinds
      BY DEF Kinds
    <3>2. QED BY <2>1, <3>1, RecordType
  <2>3. rec = [r EXCEPT !.principal = loc[t].p, !.tool = loc[t].tool]
    BY DEF DecisionRecord
  <2> HIDE DEF r, rec
  <2>4. QED BY <2>1, <2>2, <2>3 DEF Rec
<1> HIDE DEF rec
<1>6. n \in DOMAIN audit' /\ audit'[n] = rec /\ n \notin DOMAIN audit
  BY <1>1, <1>3, <1>5, AppendFacts
<1>7. \A g \in GrantIds : grants'[g] # None => grants'[g].decision_id # n
  BY <1>3, <1>6 DEF DecisionInv, GrantBoundToItsDecision
<1> HIDE DEF n
<1>8. QED BY <1>3, <1>4, <1>5, <1>6, <1>7 DEF OwnDecision

\* The thread that steps.
LEMMA DecidedHere ==
    ASSUME StoreInv, DecisionInv, [Next]_vars, NEW t \in Threads, Step(t)
    PROVE  Decided(t)'
<1>0. loc[t] \in Loc /\ CallOK(pc[t], loc[t]) /\ Decided(t) /\ Arrived(t)
  BY ThreadFacts, Arrivals DEF StoreInv, DecisionInv, Decided
<1>1. CASE LogDecision(t)
  <2>1. pc'[t] = "az_read"
    BY <1>1, BecomeMoves DEF LogDecision, Goto
  <2>2. QED BY <1>1, <2>1, LogsItsOwn DEF Decided, TxnPCs
<1>2. CASE ReadDecisionId(t)
  <2>1. PICK ttl \in TTLs :
          Become(t, IF loc[t].want /\ loc[t].reason = "allow" THEN "is_insert" ELSE "az_exit",
                 [loc[t] EXCEPT !.did = lastDecision, !.exp = now + ttl])
    BY <1>2 DEF ReadDecisionId
  <2> DEFINE l == [loc[t] EXCEPT !.did = lastDecision, !.exp = now + ttl]
  <2>2. /\ loc'[t] = l /\ pc'[t] \in {"is_insert", "az_exit"}
        /\ pc'[t] = "is_insert" => loc[t].reason = "allow"
    BY <2>1, BecomeMoves
  <2>3. /\ l.did = lastDecision /\ l.reason = loc[t].reason /\ l.p = loc[t].p
        /\ l.tool = loc[t].tool
    BY <1>0 DEF Loc
  <2> HIDE DEF l
  <2>4. pc[t] = "az_read" /\ UNCHANGED <<grants, audit>>
    BY <1>2 DEF ReadDecisionId, db
  <2>5. OwnDecision(t, lastDecision)
    BY <1>0, <2>4 DEF Decided
  <2>6. OwnDecision(t, loc[t].did)'
    BY <2>2, <2>3, <2>4, <2>5 DEF OwnDecision
  <2>7. QED BY <2>2, <2>3, <2>6 DEF Decided, TxnPCs
<1>3. CASE TxnAudit(t)
  <2>1. /\ pc[t] \in TxnPCs /\ pc'[t] = "tx_commit" /\ loc'[t] = loc[t]
        /\ UNCHANGED <<grants, audit>>
    BY <1>3, BecomeMoves DEF TxnAudit, Goto, TxnPCs, db
  <2>2. QED BY <1>0, <2>1 DEF Decided, OwnDecision
<1>4. CASE IssueInsert(t)
  BY <1>0, <1>4, InsertFacts DEF Decided, OwnDecision
<1>5. CASE RedeemApply(t) \/ CloseBegin(t)
  <2>1. pc'[t] = "tx_audit" /\ loc'[t].call # "authorize"
    BY <1>5, ApplyFacts, CloseFacts
  <2>2. QED BY <2>1 DEF Decided
<1>6. CASE /\ pc'[t] # "az_read" /\ pc'[t] # "is_insert" /\ pc'[t] \notin TxnPCs
  BY <1>6 DEF Decided
<1>7. QED BY <1>0, <1>1, <1>2, <1>3, <1>4, <1>5, <1>6 DEF Arrived

\* The threads that do not step.
LEMMA DecidedElsewhere ==
    ASSUME StoreInv, DecisionInv, [Next]_vars, NEW t \in Threads, Step(t),
           NEW u \in Threads \ {t}
    PROVE  Decided(u)'
<1>1. pc'[u] = pc[u] /\ loc'[u] = loc[u] /\ Decided(u)
  BY Arrivals DEF Elsewhere, DecisionInv, Decided
<1>2. CASE ~HoldsAuthz(pc[u], loc[u])
  BY <1>1, <1>2 DEF Decided, HoldsAuthz, AuthorizePCs
<1>3. CASE HoldsAuthz(pc[u], loc[u])
  <2>1. ~HoldsAuthz(pc[t], loc[t])
    BY <1>3, OneDecider
  <2>2. lastDecision' = lastDecision
    <3>1. ~LogDecision(t)
      BY <2>1 DEF LogDecision, HoldsAuthz, AuthorizePCs
    <3>2. QED BY <3>1 DEF Step, TxnAudit, TxnCommit, TxnFault, Abandon, AppendFault,
                          AuthzEnter, Decide, ReadDecisionId, IssueInsert, Insert, AuthzExit,
                          RedeemBegin, Examine, RedeemApply, RedeemDenied, CloseBegin,
                          CloseUnknown, OutcomeFind, OutcomeLog, OutcomeGrant, Reply
  <2>3. \A g \in GrantIds : ~(grants[g] = None /\ grants'[g] # None)
    <3>1. SUFFICES ASSUME NEW g \in GrantIds, grants[g] = None, grants'[g] # None
                   PROVE  FALSE
      OBVIOUS
    <3>2. PICK v \in Threads : TxnCommit(v) /\ loc[v].call = "authorize" /\ Step(v)
      BY <3>1, NewRowFacts
    <3>3. HoldsAuthz(pc[v], loc[v])
      BY <3>2 DEF TxnCommit, HoldsAuthz, TxnPCs
    <3>4. v = u
      BY <1>3, <3>3, OneDecider
    <3>5. pc'[v] # pc[v]
      <4>1. pc'[v] = loc[v].next /\ pc[v] = "tx_commit"
        BY <3>2, BecomeMoves DEF TxnCommit, Goto
      <4>2. CallOK(pc[v], loc[v])
        BY ThreadFacts DEF StoreInv
      <4>3. QED BY <4>1, <4>2 DEF CallOK, TxnPCs
    <3>6. QED BY <1>1, <3>4, <3>5
  <2>4. ASSUME NEW d, OwnDecision(u, d) PROVE OwnDecision(u, d)'
    BY <1>1, <2>3, <2>4, OwnKept
  <2>5. QED BY <1>1, <2>2, <2>4 DEF Decided
<1>4. QED BY <1>2, <1>3

LEMMA DecisionStep ==
    ASSUME StoreInv, DecisionInv, [Next]_vars
    PROVE  DecisionInv'
<1>1. GrantBoundToItsDecision'
  BY BoundKept
<1>2. ASSUME NEW u \in Threads PROVE Decided(u)'
  <2>0. Decided(u)
    BY DEF DecisionInv, Decided
  <2>1. ASSUME NEW t \in Threads, Step(t) PROVE Decided(u)'
    BY <2>1, DecidedHere, DecidedElsewhere
  <2>2. ASSUME NEW t \in Threads, Call(t) PROVE Decided(u)'
    <3>1. /\ UNCHANGED <<grants, audit, lastDecision>>
      BY <2>2 DEF Call, CallAuthorize, CallRedeem, CallClose, CallOutcome, Start, db
    <3>2. CASE u = t
      BY <2>2, <3>2, CallArrivals DEF Decided, TxnPCs
    <3>3. CASE u # t
      <4>1. pc'[u] = pc[u] /\ loc'[u] = loc[u]
        BY <2>2, <3>3, CallArrivals DEF Elsewhere
      <4>2. QED BY <2>0, <3>1, <4>1 DEF Decided, OwnDecision
    <3>4. QED BY <3>2, <3>3
  <2>3. CASE Tick \/ CatalogChanges \/ Crash \/ UNCHANGED vars
    BY <2>0, <2>3, WorldFacts DEF Decided, OwnDecision, TxnPCs
  <2>4. QED BY <2>1, <2>2, <2>3 DEF Next
<1>3. QED BY <1>1, <1>2 DEF DecisionInv, Decided

\* _authz_lock does what service.py says of it, for any number of concurrent authorize()
\* calls, faults and restarts: the decision_id read back from the shared list is that of
\* the caller's own decision, so a grant hangs on an allowed decision for its own principal
\* and tool, and no other grant on the same.
THEOREM GrantsAreBound == Spec => []GrantBoundToItsDecision
<1>1. Init => DecisionInv
  BY DEF Init, DecisionInv, GrantBoundToItsDecision, TxnPCs
<1>2. StoreInv /\ DecisionInv /\ [Next]_vars => DecisionInv'
  BY DecisionStep
<1>3. DecisionInv => GrantBoundToItsDecision
  BY DEF DecisionInv
<1>4. QED BY <1>1, <1>2, <1>3, StoreInvariant, PTL DEF Spec

-----------------------------------------------------------------------------
(* An outcome closes only the grant of its decision *)

LEMMA ReportedKept ==
    ASSUME StoreInv, [Next]_vars, NEW d, Reported(d)
    PROVE  Reported(d)'
BY LogContinues DEF Reported

\* What OutcomeInv says of one thread: of a record_outcome that is closing a grant, of its
\* answer, and of the way there.
Earned(t) ==
    LET l == loc[t]
    IN  /\ l.call = "outcome" /\ pc[t] \in {"tx_audit", "tx_commit"} =>
              Reported(l.did) /\ grants[l.g].decision_id = l.did
        /\ l.call = "outcome" /\ pc[t] = "reply" /\ l.reason = "outcome_reported" =>
              /\ Reported(l.did)
              /\ l.g # None => /\ grants[l.g] # None /\ grants[l.g].decision_id = l.did
                               /\ grants[l.g].closed
        /\ pc[t] \in {"oc_find", "oc_log", "oc_grant"} => l.call = "outcome"
        /\ pc[t] \in {"oc_grant", "cl_begin"} /\ l.call = "outcome" => Reported(l.did)
        /\ pc[t] = "cl_begin" /\ l.call = "outcome" =>
              grants[l.g] # None /\ grants[l.g].decision_id = l.did

LEMMA OutcomeInvIsEarned == OutcomeInv <=> \A t \in Threads : Earned(t)
BY DEF OutcomeInv, OutcomeCloseIsEarned, Earned

\* A row that was there, after any step.
LEMMA RowKept ==
    ASSUME StoreInv, [Next]_vars, NEW g \in GrantIds, grants[g] # None
    PROVE  /\ grants'[g] # None /\ grants'[g].decision_id = grants[g].decision_id
           /\ grants[g].closed => grants'[g].closed
BY RowsContinue DEF Continues

\* A thread that stays where it is.
LEMMA EarnedStays ==
    ASSUME StoreInv, [Next]_vars, NEW u \in Threads, Earned(u),
           pc'[u] = pc[u], loc'[u] = loc[u]
    PROVE  Earned(u)'
<1>0. loc[u] \in Loc /\ CallOK(pc[u], loc[u]) /\ (pc[u] \in TxnPCs => TxnShape(u))
  BY ThreadFacts DEF StoreInv, ViewInv
<1>1. ASSUME NEW g \in GrantIds, grants[g] # None
      PROVE  /\ grants'[g] # None /\ grants'[g].decision_id = grants[g].decision_id
             /\ grants[g].closed => grants'[g].closed
  BY <1>1, RowKept
<1>2. ASSUME loc[u].call = "outcome", pc[u] \in TxnPCs
      PROVE  loc[u].g \in GrantIds /\ grants[loc[u].g] # None
  BY <1>0, <1>2 DEF CallOK, TxnShape
<1>3. ASSUME loc[u].call = "outcome", pc[u] \in {"tx_audit", "tx_commit"}
      PROVE  Reported(loc[u].did)' /\ grants'[loc[u].g].decision_id = loc[u].did
  BY <1>1, <1>2, <1>3, ReportedKept DEF Earned, TxnPCs
<1>4. ASSUME loc[u].call = "outcome", pc[u] = "reply", loc[u].reason = "outcome_reported"
      PROVE  /\ Reported(loc[u].did)'
             /\ loc[u].g # None => /\ grants'[loc[u].g] # None
                                   /\ grants'[loc[u].g].decision_id = loc[u].did
                                   /\ grants'[loc[u].g].closed
  <2>1. Reported(loc[u].did)'
    BY <1>4, ReportedKept DEF Earned
  <2>2. loc[u].g # None => loc[u].g \in GrantIds
    BY <1>0 DEF Loc
  <2>3. QED BY <1>1, <1>4, <2>1, <2>2 DEF Earned
<1>5. ASSUME pc[u] = "cl_begin", loc[u].call = "outcome"
      PROVE  grants'[loc[u].g] # None /\ grants'[loc[u].g].decision_id = loc[u].did
  BY <1>0, <1>1, <1>5 DEF Earned, CallOK
<1>6. ASSUME pc[u] \in {"oc_grant", "cl_begin"}, loc[u].call = "outcome"
      PROVE  Reported(loc[u].did)'
  BY <1>6, ReportedKept DEF Earned
<1>7. QED BY <1>3, <1>4, <1>5, <1>6 DEF Earned, Reported

\* A refused or failed call says so.
LEMMA EarnedRaise ==
    ASSUME StoreInv, NEW t \in Threads, Raise(t)
    PROVE  Earned(t)'
<1>1. loc[t] \in Loc
  BY ThreadFacts DEF StoreInv
<1>2. pc'[t] \in {"az_exit", "reply"} /\ loc'[t].reason = "error"
  BY <1>1, BecomeMoves DEF Raise, Loc
<1>3. QED BY <1>2 DEF Earned

LEMMA EarnedHere ==
    ASSUME StoreInv, OutcomeInv, [Next]_vars, NEW t \in Threads, Step(t)
    PROVE  Earned(t)'
<1>0. /\ loc[t] \in Loc /\ CallOK(pc[t], loc[t]) /\ Earned(t) /\ Arrived(t)
      /\ pc[t] \in TxnPCs => TxnShape(t)
  BY ThreadFacts, Arrivals, OutcomeInvIsEarned DEF StoreInv, ViewInv
<1>1. CASE OutcomeFind(t)
  <2>1. CASE Goto(t, "oc_log")
    <3>1. pc[t] = "oc_find" /\ pc'[t] = "oc_log" /\ loc'[t] = loc[t]
      BY <1>1, <2>1, BecomeMoves DEF OutcomeFind, Goto
    <3>2. QED BY <1>0, <3>1 DEF Earned
  <2>2. QED BY <1>1, <2>1, EarnedRaise DEF OutcomeFind
<1>2. CASE OutcomeLog(t)
  <2> DEFINE rec == Record("outcome", loc[t].did, None, "")
  <2>1. /\ pc[t] = "oc_log" /\ loc'[t] = loc[t]
        /\ pc'[t] = (IF loc[t].g = None THEN "reply" ELSE "oc_grant")
        /\ storeLock = None /\ audit' = Append(viewAudit, rec)
    BY <1>2, BecomeMoves DEF OutcomeLog, AppendAudit, Goto
  <2>2. rec \in Rec /\ rec.kind = "outcome" /\ rec.decision_id = loc[t].did
    <3>1. loc[t].did \in Nat /\ None \in GrantIds \union {None} /\ "outcome" \in Kinds
          /\ "" \in Reasons
      BY <1>0 DEF Loc, Kinds, Reasons
    <3>2. rec \in Rec
      BY <3>1, RecordType
    <3>3. rec.kind = "outcome" /\ rec.decision_id = loc[t].did
      BY DEF Record, NoRec
    <3>4. QED BY <3>2, <3>3
  <2> HIDE DEF rec
  <2>3. viewAudit = audit
    BY <2>1, FreeView
  <2>4. Len(audit) + 1 \in DOMAIN audit' /\ audit'[Len(audit) + 1] = rec
    BY <2>1, <2>2, <2>3, LogContinues, AppendFacts
  <2>5. Reported(loc[t].did)'
    BY <2>1, <2>2, <2>4 DEF Reported
  <2>6. QED BY <1>0, <2>1, <2>5 DEF Earned
<1>3. CASE OutcomeGrant(t)
  <2>1. CASE Goto(t, "cl_begin") /\ viewGrants[loc[t].g] # None
             /\ viewGrants[loc[t].g].decision_id = loc[t].did
    <3>1. /\ pc[t] = "oc_grant" /\ pc'[t] = "cl_begin" /\ loc'[t] = loc[t]
          /\ storeLock = None /\ UNCHANGED <<grants, audit>>
      BY <1>3, <2>1, BecomeMoves DEF OutcomeGrant, Goto, db
    <3>2. viewGrants = grants
      BY <3>1, FreeView
    <3>3. QED BY <1>0, <2>1, <3>1, <3>2 DEF Earned, Reported
  <2>2. QED BY <1>3, <2>1, EarnedRaise DEF OutcomeGrant
<1>4. CASE TxnAudit(t)
  <2>1. /\ pc[t] = "tx_audit" /\ pc'[t] = "tx_commit" /\ loc'[t] = loc[t]
        /\ UNCHANGED grants
    BY <1>4, BecomeMoves DEF TxnAudit, Goto, db
  <2>2. QED BY <1>0, <2>1, ReportedKept DEF Earned
<1>5. CASE TxnCommit(t)
  <2>1. pc[t] = "tx_commit" /\ pc'[t] = loc[t].next /\ loc'[t] = loc[t] /\ grants' = viewGrants
    BY <1>5, BecomeMoves DEF TxnCommit, Goto
  <2>2. pc'[t] \in {"az_exit", "rd_deny", "reply"} /\ loc[t].g \in GrantIds
    BY <1>0, <2>1 DEF CallOK, TxnPCs
  <2>3. ASSUME loc[t].call = "outcome"
        PROVE  /\ Reported(loc[t].did)' /\ grants'[loc[t].g] # None
               /\ grants'[loc[t].g].decision_id = loc[t].did /\ grants'[loc[t].g].closed
    <3>1. /\ Reported(loc[t].did) /\ grants[loc[t].g].decision_id = loc[t].did
      BY <1>0, <2>1, <2>3 DEF Earned
    <3>2. grants[loc[t].g] # None /\ grants' = [grants EXCEPT ![loc[t].g].closed = TRUE]
      BY <1>0, <2>1, <2>3 DEF TxnPCs, TxnShape
    <3>3. grants[loc[t].g] \in Row /\ grants \in [GrantIds -> Row \union {None}]
      BY <2>2, <3>2, RowsContinue
    <3>4. grants'[loc[t].g] = [grants[loc[t].g] EXCEPT !.closed = TRUE]
      BY <2>2, <3>2, <3>3
    <3>5. grants'[loc[t].g].closed /\ grants'[loc[t].g].decision_id = loc[t].did
      BY <3>1, <3>3, <3>4 DEF Row
    <3>6. Reported(loc[t].did)'
      BY <2>1, <3>1, ReportedKept
    <3>7. grants'[loc[t].g] # None
      BY <2>2, <3>2, RowKept
    <3>8. QED BY <3>5, <3>6, <3>7
  <2>4. QED BY <2>1, <2>2, <2>3 DEF Earned
<1>6. CASE IssueInsert(t)
  BY <1>6, InsertFacts DEF Earned
<1>7. CASE RedeemApply(t)
  BY <1>7, ApplyFacts DEF Earned
<1>8. CASE CloseBegin(t)
  <2>1. /\ pc[t] = "cl_begin" /\ pc'[t] = "tx_audit" /\ loc'[t].call = loc[t].call
        /\ loc'[t].g = loc[t].g /\ loc'[t].did = loc[t].did /\ UNCHANGED <<grants, audit>>
    BY <1>8, CloseFacts
  <2>2. QED BY <1>0, <2>1 DEF Earned, Reported
<1>9. CASE CloseUnknown(t)
  <2>1. /\ pc[t] = "cl_begin" /\ viewGrants = grants /\ viewGrants[loc[t].g] = None
        /\ loc[t].call \in {"close", "outcome"}
    BY <1>0, <1>9, FreeView DEF CloseUnknown, CallOK
  <2>2. loc[t].call = "close"
    BY <1>0, <2>1 DEF Earned
  <2>3. QED BY <1>9, <2>2, EarnedRaise DEF CloseUnknown
<1>10. CASE TxnFault(t) \/ AppendFault(t)
  BY <1>10, EarnedRaise DEF TxnFault, Abandon, AppendFault
<1>11. CASE \/ AuthzEnter(t) \/ Decide(t) \/ LogDecision(t) \/ ReadDecisionId(t) \/ AuthzExit(t)
            \/ RedeemBegin(t) \/ RedeemDenied(t) \/ Reply(t)
  <2>1. /\ pc'[t] \notin {"oc_find", "oc_log", "oc_grant", "cl_begin", "tx_audit", "tx_commit"}
        /\ pc'[t] = "reply" => loc'[t].call # "outcome"
    <3>1. CASE AuthzExit(t)
      BY <1>0, <3>1, BecomeMoves DEF AuthzExit, Goto, CallOK, AuthorizePCs
    <3>2. CASE RedeemDenied(t)
      BY <1>0, <3>2, BecomeMoves DEF RedeemDenied, Goto, CallOK, RedeemPCs
    <3>3. CASE AuthzEnter(t) \/ Decide(t) \/ LogDecision(t)
      <4>1. pc'[t] \in {"az_decide", "az_log", "az_read"}
        BY <3>3, BecomeMoves DEF AuthzEnter, Decide, LogDecision, Goto
      <4>2. QED BY <4>1
    <3>4. CASE ReadDecisionId(t)
      <4>1. pc'[t] \in {"is_insert", "az_exit"}
        BY <3>4, BecomeMoves DEF ReadDecisionId
      <4>2. QED BY <4>1
    <3>5. CASE RedeemBegin(t) \/ Reply(t)
      BY <3>5, BecomeMoves DEF RedeemBegin, Examine, Reply
    <3>6. QED BY <1>11, <3>1, <3>2, <3>3, <3>4, <3>5
  <2>2. QED BY <2>1 DEF Earned
<1>12. QED BY <1>1, <1>2, <1>3, <1>4, <1>5, <1>6, <1>7, <1>8, <1>9, <1>10, <1>11 DEF Step

LEMMA OutcomeStep ==
    ASSUME StoreInv, OutcomeInv, [Next]_vars
    PROVE  OutcomeInv'
<1>1. ASSUME NEW u \in Threads PROVE Earned(u)'
  <2>0. Earned(u)
    BY OutcomeInvIsEarned
  <2>1. ASSUME NEW t \in Threads, Step(t) PROVE Earned(u)'
    <3>1. CASE u = t
      BY <2>1, <3>1, EarnedHere
    <3>2. CASE u # t
      BY <2>0, <2>1, <3>2, Arrivals, EarnedStays DEF Elsewhere
    <3>3. QED BY <3>1, <3>2
  <2>2. ASSUME NEW t \in Threads, Call(t) PROVE Earned(u)'
    <3>1. CASE u = t
      BY <2>2, <3>1, CallArrivals DEF Earned
    <3>2. CASE u # t
      BY <2>0, <2>2, <3>2, CallArrivals, EarnedStays DEF Elsewhere
    <3>3. QED BY <3>1, <3>2
  <2>3. CASE Tick \/ CatalogChanges \/ Crash \/ UNCHANGED vars
    <3>1. CASE UNCHANGED <<pc, loc, lastDecision>>
      BY <2>0, <3>1, EarnedStays
    <3>2. CASE \A t \in Threads : pc'[t] = "idle" /\ loc'[t] = NoLoc
      BY <3>2 DEF Earned
    <3>3. QED BY <2>3, <3>1, <3>2, WorldFacts
  <2>4. QED BY <2>1, <2>2, <2>3 DEF Next
<1>2. QED BY <1>1 DEF OutcomeInv, OutcomeCloseIsEarned, Earned

\* record_outcome, in any interleaving with closes, redeems, faults and restarts: the grant
\* it closes is the one of the decision it reports on, the outcome is durable before the
\* close, and what it answers is what is on disk.
THEOREM OutcomesEarnTheirClose == Spec => []OutcomeCloseIsEarned
<1>1. Init => OutcomeInv
  <2> SUFFICES ASSUME Init PROVE OutcomeInv
    OBVIOUS
  <2>1. \A t \in Threads : pc[t] = "idle"
    BY DEF Init
  <2>2. QED BY <2>1 DEF OutcomeInv, OutcomeCloseIsEarned
<1>2. StoreInv /\ OutcomeInv /\ [Next]_vars => OutcomeInv'
  BY OutcomeStep
<1>3. OutcomeInv => OutcomeCloseIsEarned
  BY DEF OutcomeInv
<1>4. QED BY <1>1, <1>2, <1>3, StoreInvariant, PTL DEF Spec

-----------------------------------------------------------------------------
(***************************************************************************)
(* What the callers of redeem_grant may rely on: "ok" reaches one caller,  *)
(* the one the grant was issued to; a denial for a final reason is final;  *)
(* and the threads, locks and transactions of Grants together do nothing   *)
(* that GrantLedger does not allow.                                        *)
(*                                                                         *)
(* The argument: a thread is about to say "ok" only after its own commit   *)
(* has turned an unspent row into a spent one, which happens once per row; *)
(* a denied grant is Dead, and a dead grant can neither be examined with   *)
(* success nor be in the hands of a redeem that has not yet committed.     *)
(***************************************************************************)

-----------------------------------------------------------------------------
(* "ok" reaches the holder *)

LEMMA TypeFacts == ASSUME StoreInv PROVE DataOK
BY DEF StoreInv, TypeInv, TypeOK, DataOK, RowsOK, LogsOK, DeliveredOK, CountsOK

\* Only the answer of a redeem that went well is counted.
LEMMA DeliveredStep ==
    ASSUME StoreInv, [Next]_vars
    PROVE  \/ delivered' = delivered
           \/ \E t \in Threads :
                /\ Reply(t) /\ Holding(t) /\ UNCHANGED <<grants, audit>>
                /\ delivered' = [delivered EXCEPT ![loc[t].g] =
                                   Append(@, [p |-> loc[t].p, h |-> loc[t].h])]
<1>1. ASSUME NEW t \in Threads, Reply(t)
      PROVE  \/ delivered' = delivered
             \/ /\ Holding(t) /\ UNCHANGED <<grants, audit>>
                /\ delivered' = [delivered EXCEPT ![loc[t].g] =
                                   Append(@, [p |-> loc[t].p, h |-> loc[t].h])]
  BY <1>1 DEF Reply, Holding, db
<1>2. ASSUME NEW t \in Threads, Step(t), ~Reply(t) PROVE delivered' = delivered
  BY <1>2 DEF Step, TxnAudit, TxnCommit, TxnFault, Abandon, AppendFault, AuthzEnter, Decide,
              LogDecision, ReadDecisionId, IssueInsert, Insert, AuthzExit, RedeemBegin, Examine,
              RedeemApply, RedeemDenied, CloseBegin, CloseUnknown, OutcomeFind, OutcomeLog,
              OutcomeGrant, ghosts
<1>3. ASSUME NEW t \in Threads, Call(t) PROVE delivered' = delivered
  BY <1>3 DEF Call, CallAuthorize, CallRedeem, CallClose, CallOutcome, Start
<1>4. CASE Tick \/ CatalogChanges \/ Crash \/ UNCHANGED vars
  BY <1>4, WorldFacts
<1>5. QED BY <1>1, <1>2, <1>3, <1>4 DEF Next

\* The COMMIT of an open transaction.
LEMMA CommitIsCommits ==
    ASSUME StoreInv, NEW t \in Threads, TxnCommit(t)
    PROVE  /\ Commits(t) /\ loc'[t] = loc[t] /\ pc'[t] = loc[t].next /\ delivered' = delivered
           /\ pc[t] \in TxnPCs /\ storeLock = t
<1>1. loc[t] \in Loc /\ CallOK(pc[t], loc[t]) /\ (storeLock = t <=> HoldsStore(pc[t]))
  BY ThreadFacts DEF StoreInv
<1>2. /\ pc[t] \in TxnPCs /\ pc[t] = "tx_commit" /\ grants' = viewGrants
      /\ audit' = viewAudit /\ delivered' = delivered
  BY DEF TxnCommit, TxnPCs, ghosts
<1>3. TxnShape(t) /\ viewAudit = Append(audit, loc[t].rec)
  BY <1>2 DEF StoreInv, ViewInv
<1>4. loc[t].g \in GrantIds
  BY <1>1, <1>2 DEF CallOK
<1>5. loc'[t] = loc[t] /\ pc'[t] = loc[t].next
  BY BecomeMoves DEF TxnCommit, Goto
<1>6. QED BY <1>1, <1>2, <1>3, <1>4, <1>5 DEF Commits, HoldsStore

\* What HolderInv says of one thread.
Held(t) ==
    /\ pc[t] = "rd_deny" => loc[t].reason # "ok"
    /\ Holding(t) =>
          /\ grants[loc[t].g] # None /\ grants[loc[t].g].redeemed
          /\ grants[loc[t].g].principal_id = loc[t].p
          /\ grants[loc[t].g].args_hash = loc[t].h
          /\ delivered[loc[t].g] = <<>>
          /\ \A u \in Threads : Holding(u) /\ loc[u].g = loc[t].g => u = t

\* A thread comes to say "ok" by its own commit, of a row nobody had spent.
LEMMA NewHolder ==
    ASSUME StoreInv, HolderInv, NEW t \in Threads, Step(t), Holding(t)'
    PROVE  LET g == loc[t].g
           IN  /\ g \in GrantIds /\ loc'[t] = loc[t] /\ delivered' = delivered
               /\ grants[g] # None /\ ~grants[g].redeemed
               /\ grants'[g] # None /\ grants'[g].redeemed
               /\ grants'[g].principal_id = loc[t].p /\ grants'[g].args_hash = loc[t].h
<1>1. /\ TxnCommit(t) \/ RedeemDenied(t)
      /\ loc'[t].call = "redeem" /\ loc'[t].reason = "ok"
  BY Arrivals DEF Holding, Arrived
<1>2. CASE RedeemDenied(t)
  <2>1. pc[t] = "rd_deny" /\ loc'[t] = loc[t]
    BY <1>2, BecomeMoves DEF RedeemDenied, Goto
  <2>2. QED BY <1>1, <2>1 DEF HolderInv
<1>3. CASE TxnCommit(t)
  <2>1. Commits(t) /\ loc'[t] = loc[t] /\ delivered' = delivered
    BY <1>3, CommitIsCommits
  <2> DEFINE g == loc[t].g
  <2>2. /\ g \in GrantIds /\ grants[g] \in Row /\ ~grants[g].redeemed
        /\ grants[g].principal_id = loc[t].p /\ grants[g].args_hash = loc[t].h
        /\ grants'[g] = [grants[g] EXCEPT !.redeemed = TRUE]
    BY <1>1, <2>1, CommitFacts
  <2>3. [grants[g] EXCEPT !.redeemed = TRUE] \in Row
    BY <2>2 DEF Row
  <2>4. QED BY <2>1, <2>2, <2>3, NoneAssumption DEF Row
<1>4. QED BY <1>1, <1>2, <1>3

LEMMA DeniedForAReason ==
    ASSUME StoreInv, NEW t \in Threads, Step(t), pc'[t] = "rd_deny"
    PROVE  loc'[t].reason # "ok"
<1>0. loc[t] \in Loc /\ CallOK(pc[t], loc[t])
  BY ThreadFacts DEF StoreInv
<1>1. CASE RedeemBegin(t)
  <2> DEFINE row == viewGrants[loc[t].g]
             verdict == RedeemVerdict(row, loc[t].p, loc[t].h, now)
             l == [loc[t] EXCEPT !.reason = verdict,
                                 !.did = IF row = None THEN 0 ELSE row.decision_id]
  <2> HIDE DEF verdict
  <2>1. Become(t, IF verdict = "ok" THEN "rd_check" ELSE "rd_deny", l)
    BY <1>1 DEF RedeemBegin, Examine, verdict
  <2>2. verdict # "ok" /\ loc'[t] = l
    BY <2>1, BecomeMoves
  <2>3. l.reason = verdict
    BY <1>0 DEF Loc
  <2>4. QED BY <2>2, <2>3
<1>2. CASE TxnCommit(t)
  BY <1>0, <1>2, CommitIsCommits DEF CallOK, TxnPCs
<1>3. QED BY <1>1, <1>2, Arrivals DEF Arrived

LEMMA HeldHere ==
    ASSUME StoreInv, HolderInv, [Next]_vars, NEW t \in Threads, Step(t)
    PROVE  Held(t)'
<1>1. ASSUME Holding(t)'
      PROVE  /\ delivered'[loc'[t].g] = <<>>
             /\ \A u \in Threads : Holding(u)' /\ loc'[u].g = loc'[t].g => u = t
  <2>1. delivered[loc[t].g] = <<>>
    BY <1>1, NewHolder DEF HolderInv, OkReachesOnlyTheHolder
  <2>2. ASSUME NEW u \in Threads, u # t, Holding(u)', loc'[u].g = loc'[t].g PROVE FALSE
    <3>1. pc'[u] = pc[u] /\ loc'[u] = loc[u]
      BY <2>2, Arrivals DEF Elsewhere
    <3>2. Holding(u) /\ loc[u].g = loc[t].g
      BY <1>1, <2>2, <3>1, NewHolder DEF Holding
    <3>3. QED BY <1>1, <3>2, NewHolder DEF HolderInv
  <2>3. QED BY <1>1, <2>1, <2>2, NewHolder
<1>2. QED BY <1>1, NewHolder, DeniedForAReason DEF Held

\* A thread that stays where it is, beside one that steps.
LEMMA HeldElsewhere ==
    ASSUME StoreInv, HolderInv, [Next]_vars, NEW t \in Threads, Step(t),
           NEW u \in Threads \ {t}
    PROVE  Held(u)'
<1>1. pc'[u] = pc[u] /\ loc'[u] = loc[u] /\ Held(u)
  BY Arrivals DEF Elsewhere, HolderInv, Held
<1>2. ASSUME Holding(u)' PROVE Holding(u) /\ loc[u].g \in GrantIds
  <2>1. loc[u] \in Loc /\ CallOK(pc[u], loc[u])
    BY ThreadFacts DEF StoreInv
  <2>2. QED BY <1>1, <1>2, <2>1 DEF Holding, CallOK
<1>3. ASSUME Holding(u)'
      PROVE  /\ grants'[loc[u].g] # None /\ grants'[loc[u].g].redeemed
             /\ grants'[loc[u].g].principal_id = loc[u].p
             /\ grants'[loc[u].g].args_hash = loc[u].h
  BY <1>1, <1>2, <1>3, RowsContinue DEF Held, Continues
<1>4. ASSUME Holding(u)' PROVE delivered'[loc[u].g] = <<>>
  <2>1. delivered[loc[u].g] = <<>>
    BY <1>1, <1>2, <1>4 DEF Held
  <2>2. CASE delivered' = delivered
    BY <2>1, <2>2
  <2>3. ASSUME NEW v \in Threads, Reply(v), Holding(v),
               delivered' = [delivered EXCEPT ![loc[v].g] =
                               Append(@, [p |-> loc[v].p, h |-> loc[v].h])]
        PROVE  delivered'[loc[u].g] = <<>>
    <3>1. v # u
      <4>1. pc[v] = "reply" /\ pc'[v] = "idle"
        BY <2>3, BecomeMoves DEF Reply
      <4>2. QED BY <1>1, <4>1
    <3>2. loc[v].g # loc[u].g
      BY <1>1, <1>2, <1>4, <2>3, <3>1 DEF Held
    <3>3. delivered \in [GrantIds -> Seq([p : Principals, h : Hashes])]
      BY ThreadFacts DEF StoreInv, DataOK, DeliveredOK
    <3>4. QED BY <1>2, <1>4, <2>1, <2>3, <3>2, <3>3
  <2>4. QED BY <2>2, <2>3, DeliveredStep
<1>5. ASSUME Holding(u)', NEW v \in Threads, Holding(v)', loc'[v].g = loc[u].g PROVE v = u
  <2>1. CASE v = t
    <3>1. ~grants[loc[u].g].redeemed
      BY <1>5, <2>1, NewHolder
    <3>2. QED BY <1>1, <1>2, <1>5, <3>1 DEF Held
  <2>2. CASE v # t
    <3>1. Holding(v) /\ loc[v].g = loc[u].g
      BY <1>5, <2>2, Arrivals DEF Elsewhere, Holding
    <3>2. QED BY <1>1, <1>2, <1>5, <3>1 DEF Held
  <2>3. QED BY <2>1, <2>2
<1>6. QED BY <1>1, <1>3, <1>4, <1>5 DEF Held

LEMMA OkKept ==
    ASSUME StoreInv, HolderInv, [Next]_vars
    PROVE  OkReachesOnlyTheHolder'
<1> DEFINE Told(g) == /\ Len(delivered'[g]) = 1
                      /\ grants'[g] # None /\ grants'[g].redeemed
                      /\ delivered'[g][1] = [p |-> grants'[g].principal_id,
                                             h |-> grants'[g].args_hash]
<1> SUFFICES ASSUME NEW g \in GrantIds, delivered'[g] # <<>> PROVE Told(g)
  BY DEF OkReachesOnlyTheHolder
<1>0. delivered \in [GrantIds -> Seq([p : Principals, h : Hashes])]
  BY TypeFacts DEF DataOK, DeliveredOK
<1>1. CASE delivered'[g] = delivered[g]
  <2>1. /\ Len(delivered[g]) = 1 /\ grants[g] # None /\ grants[g].redeemed
        /\ delivered[g][1] = [p |-> grants[g].principal_id, h |-> grants[g].args_hash]
    BY <1>1 DEF HolderInv, OkReachesOnlyTheHolder
  <2>2. grants'[g] # None /\ Continues(grants[g], grants'[g])
    BY <2>1, RowsContinue
  <2>3. QED BY <1>1, <2>1, <2>2 DEF Continues
<1>2. ASSUME NEW t \in Threads, Reply(t), Holding(t), UNCHANGED <<grants, audit>>,
             delivered' = [delivered EXCEPT ![loc[t].g] =
                             Append(@, [p |-> loc[t].p, h |-> loc[t].h])],
             g = loc[t].g
      PROVE  Told(g)
  <2> DEFINE e == [p |-> loc[t].p, h |-> loc[t].h]
  <2>1. /\ delivered[g] = <<>> /\ grants[g] # None /\ grants[g].redeemed
        /\ grants[g].principal_id = loc[t].p /\ grants[g].args_hash = loc[t].h
    BY <1>2 DEF HolderInv
  <2>2. delivered'[g] = Append(<<>>, e)
    BY <1>0, <1>2, <2>1
  <2>3. Len(delivered'[g]) = 1 /\ delivered'[g][1] = e
    BY <2>2
  <2>4. QED BY <1>2, <2>1, <2>3
<1>3. QED
  <2>1. CASE delivered' = delivered
    BY <1>1, <2>1
  <2>2. ASSUME NEW t \in Threads, g # loc[t].g,
               delivered' = [delivered EXCEPT ![loc[t].g] =
                               Append(@, [p |-> loc[t].p, h |-> loc[t].h])]
        PROVE  delivered'[g] = delivered[g]
    BY <1>0, <2>2
  <2>3. QED BY <1>1, <1>2, <2>1, <2>2, DeliveredStep

LEMMA HolderStep ==
    ASSUME StoreInv, HolderInv, [Next]_vars
    PROVE  HolderInv'
<1>1. OkReachesOnlyTheHolder'
  BY OkKept
<1>2. ASSUME NEW u \in Threads PROVE Held(u)'
  <2>0. Held(u)
    BY DEF HolderInv, Held
  <2>1. ASSUME NEW t \in Threads, Step(t) PROVE Held(u)'
    BY <2>1, HeldHere, HeldElsewhere
  <2>2. ASSUME NEW t \in Threads, Call(t) PROVE Held(u)'
    <3>1. UNCHANGED <<grants, delivered>> /\ ~Holding(t)'
      <4>1. UNCHANGED <<grants, delivered>>
        BY <2>2 DEF Call, CallAuthorize, CallRedeem, CallClose, CallOutcome, Start, db
      <4>2. QED BY <2>2, <4>1, CallArrivals DEF Holding
    <3>2. CASE u = t
      BY <2>2, <3>1, <3>2, CallArrivals DEF Held
    <3>3. CASE u # t
      <4>1. \A v \in Threads \ {t} : pc'[v] = pc[v] /\ loc'[v] = loc[v]
        BY <2>2, CallArrivals DEF Elsewhere
      <4>2. \A v \in Threads : Holding(v)' => Holding(v) /\ loc'[v] = loc[v]
        BY <3>1, <4>1 DEF Holding
      <4>3. pc'[u] = pc[u] /\ loc'[u] = loc[u]
        BY <3>3, <4>1
      <4>4. QED BY <2>0, <3>1, <4>2, <4>3 DEF Held
    <3>4. QED BY <3>2, <3>3
  <2>3. CASE Tick \/ CatalogChanges \/ Crash \/ UNCHANGED vars
    <3>1. UNCHANGED <<grants, delivered>>
      BY <2>3, WorldFacts
    <3>2. CASE UNCHANGED <<pc, loc, lastDecision>>
      BY <2>0, <3>1, <3>2 DEF Held, Holding
    <3>3. CASE \A t \in Threads : pc'[t] = "idle" /\ loc'[t] = NoLoc
      BY <3>3 DEF Held, Holding
    <3>4. QED BY <2>3, <3>2, <3>3, WorldFacts
  <2>4. QED BY <2>1, <2>2, <2>3 DEF Next
<1>3. QED BY <1>1, <1>2 DEF HolderInv, Held

LEMMA HolderInvariant == Spec => []HolderInv
<1>1. Init => HolderInv
  <2> SUFFICES ASSUME Init PROVE HolderInv
    OBVIOUS
  <2>1. /\ \A t \in Threads : pc[t] = "idle"
        /\ \A g \in GrantIds : delivered[g] = <<>>
    BY DEF Init
  <2>2. QED BY <2>1 DEF HolderInv, OkReachesOnlyTheHolder, Holding
<1>2. StoreInv /\ HolderInv /\ [Next]_vars => HolderInv'
  BY HolderStep
<1>3. QED BY <1>1, <1>2, StoreInvariant, PTL DEF Spec

\* redeem_grant, over any number of threads, faults and restarts: at most one caller is told
\* "ok" for a grant, it is the principal with the arguments the grant was issued for, and by
\* then the redemption is on disk.
THEOREM OneHolderIsTold == Spec => []OkReachesOnlyTheHolder
<1>1. HolderInv => OkReachesOnlyTheHolder
  BY DEF HolderInv
<1>2. QED BY <1>1, HolderInvariant, PTL

-----------------------------------------------------------------------------
(* A final denial is final *)

\* A redeem that has passed the checks reached that point by them.
LEMMA NewRedeeming ==
    ASSUME StoreInv, NEW t \in Threads, Step(t), NEW g, Redeeming(t, g)'
    PROVE  \/ Redeeming(t, g)
           \/ /\ RedeemBegin(t) /\ loc[t].g = g /\ g \in GrantIds /\ grants[g] # None
              /\ ~grants[g].closed /\ ~(grants[g].expires_at <= now)
<1>0. loc[t] \in Loc /\ CallOK(pc[t], loc[t]) /\ Arrived(t)
  BY ThreadFacts, Arrivals DEF StoreInv
<1>1. CASE RedeemBegin(t)
  <2> DEFINE row == viewGrants[loc[t].g]
             verdict == RedeemVerdict(row, loc[t].p, loc[t].h, now)
             l == [loc[t] EXCEPT !.reason = verdict,
                                 !.did = IF row = None THEN 0 ELSE row.decision_id]
  <2> HIDE DEF verdict
  <2>1. /\ Become(t, IF verdict = "ok" THEN "rd_check" ELSE "rd_deny", l)
        /\ pc[t] = "rd_begin" /\ storeLock = None
    BY <1>1 DEF RedeemBegin, Examine, verdict
  <2>2. l.g = loc[t].g
    BY <1>0 DEF Loc
  <2>3. verdict = "ok" /\ loc'[t] = l
    BY <2>1, BecomeMoves DEF Redeeming, TxnPCs
  <2>4. loc[t].g = g /\ g \in GrantIds
    BY <1>0, <2>1, <2>2, <2>3 DEF Redeeming, CallOK, RedeemPCs
  <2>5. viewGrants = grants
    BY <2>1, FreeView
  <2>6. row # None /\ ~row.closed /\ ~(row.expires_at <= now)
    BY <2>3 DEF verdict, RedeemVerdict
  <2>7. QED BY <1>1, <2>4, <2>5, <2>6
<1>2. CASE TxnAudit(t)
  <2>1. pc[t] \in TxnPCs /\ loc'[t] = loc[t]
    BY <1>2, BecomeMoves DEF TxnAudit, Goto, TxnPCs
  <2>2. QED BY <2>1 DEF Redeeming
<1>3. CASE RedeemApply(t)
  BY <1>3, ApplyFacts DEF Redeeming
<1>4. CASE IssueInsert(t) \/ CloseBegin(t)
  BY <1>4, InsertFacts, CloseFacts DEF Redeeming
<1>5. QED BY <1>0, <1>1, <1>2, <1>3, <1>4 DEF Redeeming, Arrived

\* A grant becomes redeemed by the commit of a redeem that had passed the checks.
LEMMA NewRedemption ==
    ASSUME StoreInv, [Next]_vars, NEW g \in GrantIds, grants[g] # None, ~grants[g].redeemed,
           grants'[g].redeemed
    PROVE  \E t \in Threads : Redeeming(t, g)
<1>1. grants[g] \in Row
  BY RowsContinue
<1>2. PICK t \in Threads : Commits(t)
  BY DbStep DEF PlainAppend
<1>3. loc[t].g = g
  BY <1>2, CommitFacts
<1>4. loc[t].rec.kind = "grant_redeem" /\ loc[t].call = "redeem" /\ loc[t].reason = "ok"
  <2>1. [grants[g] EXCEPT !.closed = TRUE].redeemed = grants[g].redeemed
    BY <1>1 DEF Row
  <2>2. QED BY <1>2, <1>3, <2>1, CommitFacts
<1>5. pc[t] \in TxnPCs
  BY <1>2 DEF Commits, TxnCommit, TxnPCs
<1>6. QED BY <1>3, <1>4, <1>5 DEF Redeeming

LEMMA ClockRuns ==
    ASSUME StoreInv, [Next]_vars
    PROVE  now \in Nat /\ now' \in Nat /\ now <= now'
<1>1. now \in Nat
  BY TypeFacts DEF DataOK, CountsOK
<1>2. ASSUME NEW t \in Threads, Step(t) PROVE now' = now
  BY <1>2 DEF Step, TxnAudit, TxnCommit, TxnFault, Abandon, AppendFault, AuthzEnter, Decide,
              LogDecision, ReadDecisionId, IssueInsert, Insert, AuthzExit, RedeemBegin, Examine,
              RedeemApply, RedeemDenied, CloseBegin, CloseUnknown, OutcomeFind, OutcomeLog,
              OutcomeGrant, Reply, env
<1>3. ASSUME NEW t \in Threads, Call(t) PROVE now' = now
  BY <1>3 DEF Call, CallAuthorize, CallRedeem, CallClose, CallOutcome, Start, env
<1>4. CASE Tick \/ CatalogChanges \/ Crash \/ UNCHANGED vars
  BY <1>1, <1>4 DEF Tick, CatalogChanges, Crash, vars, env
<1>5. QED BY <1>1, <1>2, <1>3, <1>4 DEF Next

\* A dead grant stays dead.
LEMMA DeadKept ==
    ASSUME StoreInv, [Next]_vars, NEW g \in GrantIds, Dead(g)
    PROVE  Dead(g)'
<1>1. grants[g] # None /\ ~grants[g].redeemed
  BY DEF Dead
<1>2. grants[g] \in Row /\ grants'[g] # None /\ Continues(grants[g], grants'[g])
  BY <1>1, RowsContinue
<1>3. ~grants'[g].redeemed
  BY <1>1, NewRedemption DEF Dead
<1>4. grants'[g].closed \/ grants'[g].expires_at <= now'
  <2>1. grants[g].expires_at \in Nat
    BY <1>2 DEF Row
  <2>2. QED BY <1>2, <2>1, ClockRuns DEF Dead, Continues
<1>5. ASSUME NEW u \in Threads PROVE ~Redeeming(u, g)'
  <2>0. ~Redeeming(u, g)
    BY DEF Dead
  <2>1. ASSUME NEW t \in Threads, Step(t) PROVE ~Redeeming(u, g)'
    <3>1. CASE u = t
      BY <2>0, <2>1, <3>1, NewRedeeming DEF Dead
    <3>2. CASE u # t
      BY <2>0, <2>1, <3>2, Arrivals DEF Elsewhere, Redeeming
    <3>3. QED BY <3>1, <3>2
  <2>2. ASSUME NEW t \in Threads, Call(t) PROVE ~Redeeming(u, g)'
    BY <2>0, <2>2, CallArrivals DEF Elsewhere, Redeeming, TxnPCs
  <2>3. CASE Tick \/ CatalogChanges \/ Crash \/ UNCHANGED vars
    BY <2>0, <2>3, WorldFacts DEF Redeeming, TxnPCs
  <2>4. QED BY <2>1, <2>2, <2>3 DEF Next
<1>6. QED BY <1>2, <1>3, <1>4, <1>5 DEF Dead

\* The record a denied redeem leaves.
LEMMA DeniedRecord ==
    ASSUME StoreInv, NEW t \in Threads, RedeemDenied(t)
    PROVE  /\ pc[t] = "rd_deny" /\ loc[t].g \in GrantIds
           /\ \E r \in Rec : /\ audit' = Append(audit, r)
                             /\ r.grant = loc[t].g /\ r.reason = loc[t].reason
<1>1. loc[t] \in Loc /\ CallOK(pc[t], loc[t])
  BY ThreadFacts DEF StoreInv
<1>2. loc[t].reason \in Reasons /\ loc[t].did \in Nat /\ loc[t].g \in GrantIds \union {None}
      /\ loc[t].p \in Principals \union {None}
  BY <1>1 DEF Loc
<1> DEFINE r == Record("grant_redeem_denied", loc[t].did, loc[t].g, loc[t].reason)
           rec == [r EXCEPT !.principal = loc[t].p]
<1>3. r \in Rec /\ r.grant = loc[t].g /\ r.reason = loc[t].reason
  BY <1>2, RecordType DEF Kinds
<1>4. pc[t] = "rd_deny" /\ storeLock = None /\ audit' = Append(viewAudit, rec)
  BY DEF RedeemDenied, AppendAudit
<1> HIDE DEF r
<1>5. rec \in Rec /\ rec.grant = loc[t].g /\ rec.reason = loc[t].reason
  BY <1>2, <1>3 DEF Rec
<1> HIDE DEF rec
<1>6. viewAudit = audit
  BY <1>4, FreeView
<1>7. loc[t].g \in GrantIds
  BY <1>1, <1>4 DEF CallOK, RedeemPCs
<1>8. QED BY <1>4, <1>5, <1>6, <1>7

\* A denial that comes on record is that of the thread that was denied.
LEMMA NewDenial ==
    ASSUME StoreInv, [Next]_vars, NEW i \in DOMAIN audit', i \notin DOMAIN audit,
           audit'[i].kind = "grant_redeem_denied"
    PROVE  /\ i = Len(audit) + 1
           /\ \E t \in Threads : /\ RedeemDenied(t) /\ pc[t] = "rd_deny"
                                 /\ loc[t].g \in GrantIds
                                 /\ audit'[i].grant = loc[t].g
                                 /\ audit'[i].reason = loc[t].reason
<1>0. audit \in Seq(Rec)
  BY LogContinues
<1>1. ASSUME NEW r \in Rec, audit' = Append(audit, r)
      PROVE  i = Len(audit) + 1 /\ audit'[i] = r
  BY <1>0, <1>1, AppendFacts
<1>2. ASSUME NEW t \in Threads, Step(t)
      PROVE  RedeemDenied(t)
  <2>1. audit' # audit
    OBVIOUS
  <2>2. CASE LogDecision(t)
    <3> DEFINE rec == DecisionRecord(t, Len(viewAudit) + 1)
    <3>1. audit' = Append(viewAudit, rec) /\ storeLock = None
      BY <2>2 DEF LogDecision, AppendAudit
    <3>2. viewAudit = audit
      BY <3>1, FreeView
    <3>3. rec.kind = "decision"
      BY DEF DecisionRecord, Record, NoRec
    <3> HIDE DEF rec
    <3>4. PICK r \in Rec : audit' = Append(audit, r)
      BY <2>1, LogContinues
    <3>5. r = rec
      BY <1>0, <3>1, <3>2, <3>4
    <3>6. QED BY <1>1, <3>3, <3>4, <3>5
  <2>3. CASE OutcomeLog(t)
    <3> DEFINE rec == Record("outcome", loc[t].did, None, "")
    <3>1. audit' = Append(viewAudit, rec) /\ storeLock = None
      BY <2>3 DEF OutcomeLog, AppendAudit
    <3>2. viewAudit = audit
      BY <3>1, FreeView
    <3>3. rec.kind = "outcome"
      BY DEF Record, NoRec
    <3> HIDE DEF rec
    <3>4. PICK r \in Rec : audit' = Append(audit, r)
      BY <2>1, LogContinues
    <3>5. r = rec
      BY <1>0, <3>1, <3>2, <3>4
    <3>6. QED BY <1>1, <3>3, <3>4, <3>5
  <2>4. CASE TxnCommit(t)
    <3>1. Commits(t)
      BY <2>4, CommitIsCommits
    <3>2. loc[t].rec \in Rec /\ loc[t].rec.kind # "grant_redeem_denied"
      BY <3>1, CommitFacts
    <3>3. QED BY <1>1, <3>1, <3>2 DEF Commits
  <2>5. CASE \/ TxnAudit(t) \/ TxnFault(t) \/ AppendFault(t) \/ AuthzEnter(t) \/ Decide(t)
             \/ ReadDecisionId(t) \/ IssueInsert(t) \/ AuthzExit(t) \/ RedeemBegin(t)
             \/ RedeemApply(t) \/ CloseBegin(t) \/ CloseUnknown(t) \/ OutcomeFind(t)
             \/ OutcomeGrant(t) \/ Reply(t)
    BY <2>1, <2>5 DEF TxnAudit, TxnFault, Abandon, AppendFault, AuthzEnter, Decide,
          ReadDecisionId, IssueInsert, Insert, AuthzExit, RedeemBegin, Examine, RedeemApply,
          CloseBegin, CloseUnknown, OutcomeFind, OutcomeGrant, Reply, db
  <2>6. QED BY <1>2, <2>2, <2>3, <2>4, <2>5 DEF Step
<1>3. PICK t \in Threads : RedeemDenied(t)
  <2>1. ASSUME NEW t \in Threads, Call(t) PROVE audit' = audit
    BY <2>1 DEF Call, CallAuthorize, CallRedeem, CallClose, CallOutcome, Start, db
  <2>2. QED BY <1>2, <2>1, WorldFacts DEF Next
<1>4. QED BY <1>1, <1>3, DeniedRecord

\* What DenialInv says of a record on file and of a thread.
RecordStands(i) ==
    audit[i].kind = "grant_redeem_denied" =>
        /\ audit[i].grant \in GrantIds
        /\ audit[i].reason \in FinalReasons => Dead(audit[i].grant)
        /\ audit[i].reason = "already_redeemed" =>
              \E j \in 1..(i - 1) : audit[j].kind = "grant_redeem"
                                     /\ audit[j].grant = audit[i].grant

Denied(t) ==
    /\ pc[t] = "rd_deny" =>
          /\ loc[t].reason \in FinalReasons => Dead(loc[t].g)
          /\ loc[t].reason = "already_redeemed" => Has(audit, loc[t].g, "grant_redeem")
    /\ pc[t] \in TxnPCs /\ loc[t].call = "redeem" /\ loc[t].reason # "ok" =>
          loc[t].reason = "not_invocable" /\ ~grants[loc[t].g].redeemed

LEMMA RecordsStand ==
    ASSUME StoreInv, DenialInv, [Next]_vars, NEW i \in DOMAIN audit'
    PROVE  RecordStands(i)'
<1> SUFFICES ASSUME audit'[i].kind = "grant_redeem_denied" PROVE RecordStands(i)'
  BY DEF RecordStands
<1>0. /\ audit \in Seq(Rec) /\ DOMAIN audit = 1..Len(audit) /\ Len(audit) \in Nat
      /\ \A k \in DOMAIN audit : k \in DOMAIN audit' /\ audit'[k] = audit[k]
  BY LogContinues
<1>1. CASE i \in DOMAIN audit
  <2>1. audit'[i] = audit[i] /\ RecordStands(i)
    BY <1>0, <1>1 DEF DenialInv, RecordStands
  <2>2. audit[i].grant \in GrantIds
    BY <2>1 DEF RecordStands
  <2>3. audit[i].reason \in FinalReasons => Dead(audit[i].grant)'
    BY <2>1, <2>2, DeadKept DEF RecordStands
  <2>4. \A j \in 1..(i - 1) : j \in DOMAIN audit
    BY <1>0, <1>1
  <2>5. ASSUME audit[i].reason = "already_redeemed"
        PROVE  \E j \in 1..(i - 1) : /\ audit'[j].kind = "grant_redeem"
                                     /\ audit'[j].grant = audit[i].grant
    BY <1>0, <2>1, <2>4, <2>5 DEF RecordStands
  <2>6. QED BY <2>1, <2>2, <2>3, <2>5 DEF RecordStands
<1>2. CASE i \notin DOMAIN audit
  <2>1. PICK t \in Threads : /\ pc[t] = "rd_deny" /\ loc[t].g \in GrantIds
                             /\ audit'[i].grant = loc[t].g /\ audit'[i].reason = loc[t].reason
    BY <1>2, NewDenial
  <2>2. i = Len(audit) + 1
    BY <1>2, NewDenial
  <2> DEFINE g == loc[t].g
  <2>3. /\ loc[t].reason \in FinalReasons => Dead(g)
        /\ loc[t].reason = "already_redeemed" => Has(audit, g, "grant_redeem")
    BY <2>1 DEF DenialInv
  <2>4. loc[t].reason \in FinalReasons => Dead(audit[i].grant)'
    BY <2>1, <2>3, DeadKept
  <2>5. ASSUME loc[t].reason = "already_redeemed"
        PROVE  \E j \in 1..(i - 1) : /\ audit'[j].kind = "grant_redeem"
                                     /\ audit'[j].grant = g
    <3>1. PICK j \in DOMAIN audit : audit[j].kind = "grant_redeem" /\ audit[j].grant = g
      BY <2>3, <2>5 DEF Has
    <3>2. j \in 1..(i - 1)
      BY <1>0, <2>2
    <3>3. QED BY <1>0, <3>1, <3>2
  <2>6. QED BY <2>1, <2>4, <2>5 DEF RecordStands
<1>3. QED BY <1>1, <1>2

\* redeem_grant answers a final denial of a grant that is dead by then.
LEMMA DeniedByChecks ==
    ASSUME StoreInv, AuditMatchesGrants, NEW t \in Threads, RedeemBegin(t), pc'[t] = "rd_deny"
    PROVE  Denied(t)'
<1> DEFINE g == loc[t].g
           row == viewGrants[g]
           verdict == RedeemVerdict(row, loc[t].p, loc[t].h, now)
           l == [loc[t] EXCEPT !.reason = verdict,
                               !.did = IF row = None THEN 0 ELSE row.decision_id]
<1>0. loc[t] \in Loc /\ CallOK(pc[t], loc[t])
  BY ThreadFacts DEF StoreInv
<1> HIDE DEF verdict
<1>1. /\ Become(t, IF verdict = "ok" THEN "rd_check" ELSE "rd_deny", l)
      /\ pc[t] = "rd_begin" /\ storeLock = None /\ UNCHANGED <<now, grants, audit>>
  BY DEF RedeemBegin, Examine, verdict, env, db
<1>2. loc'[t] = l /\ Elsewhere(t)
  BY <1>1, BecomeMoves
<1>3. l.g = g /\ l.reason = verdict
  BY <1>0 DEF Loc
<1> HIDE DEF l
<1>4. g \in GrantIds
  BY <1>0, <1>1 DEF CallOK, RedeemPCs
<1>5. viewGrants = grants
  BY <1>1, FreeView
<1>6. \A u \in Threads : pc'[u] \notin TxnPCs \union {"rd_check"}
  BY <1>1, <1>2, FreeStore DEF StoreInv, Elsewhere, TxnPCs
<1>7. ASSUME verdict \in FinalReasons PROVE Dead(loc[t].g)'
  <2>1. /\ row # None /\ ~row.redeemed
        /\ row.closed \/ row.expires_at <= now
    BY <1>7 DEF verdict, RedeemVerdict, FinalReasons
  <2>2. loc'[t].g = g
    BY <1>2, <1>3
  <2>3. QED BY <1>1, <1>5, <1>6, <2>1, <2>2 DEF Dead, Redeeming
<1>8. ASSUME verdict = "already_redeemed" PROVE Has(audit', loc'[t].g, "grant_redeem")
  <2>1. row # None /\ row.redeemed
    BY <1>8 DEF verdict, RedeemVerdict
  <2>2. Marks(audit, g, "grant_redeem") # {}
    BY <1>4, <1>5, <2>1 DEF AuditMatchesGrants, Paired
  <2>3. QED BY <1>1, <1>2, <1>3, <2>2 DEF Marks, Has
<1>9. QED BY <1>2, <1>3, <1>7, <1>8 DEF Denied, TxnPCs

\* The commit that closes the grant of a tool that is no longer invocable.
LEMMA DeniedByCatalog ==
    ASSUME StoreInv, DenialInv, NEW t \in Threads, TxnCommit(t), pc'[t] = "rd_deny"
    PROVE  Denied(t)'
<1> DEFINE g == loc[t].g
<1>0. loc[t] \in Loc /\ CallOK(pc[t], loc[t])
  BY ThreadFacts DEF StoreInv
<1>1. /\ Commits(t) /\ loc'[t] = loc[t] /\ loc[t].next = "rd_deny" /\ pc[t] \in TxnPCs
      /\ storeLock = t
  BY CommitIsCommits
<1>2. loc[t].call = "redeem" /\ loc[t].reason # "ok"
  BY <1>0, <1>1 DEF CallOK
<1>3. loc[t].reason = "not_invocable" /\ ~grants[g].redeemed
  BY <1>1, <1>2 DEF DenialInv
<1>4. g \in GrantIds /\ grants[g] \in Row /\ grants'[g] = [grants[g] EXCEPT !.closed = TRUE]
  BY <1>1, <1>2, CommitFacts
<1>5. grants'[g] \in Row /\ grants'[g].closed /\ ~grants'[g].redeemed
  BY <1>3, <1>4 DEF Row
<1>6. Elsewhere(t)
  BY BecomeMoves DEF TxnCommit, Goto
<1>7. \A u \in Threads : pc'[u] \notin TxnPCs \union {"rd_check"}
  BY <1>1, <1>6, OthersOutside DEF StoreInv, Elsewhere, TxnPCs
<1>8. Dead(loc[t].g)'
  BY <1>1, <1>5, <1>7, NoneAssumption DEF Dead, Redeeming
<1>9. QED BY <1>1, <1>3, <1>8 DEF Denied, TxnPCs

LEMMA DeniedHere ==
    ASSUME StoreInv, AuditMatchesGrants, DenialInv, NEW t \in Threads, Step(t)
    PROVE  Denied(t)'
<1>0. /\ loc[t] \in Loc /\ CallOK(pc[t], loc[t]) /\ Denied(t) /\ Arrived(t)
  BY ThreadFacts, Arrivals DEF StoreInv, DenialInv, Denied
<1>1. CASE pc'[t] = "rd_deny"
  BY <1>0, <1>1, DeniedByChecks, DeniedByCatalog DEF Arrived
<1>2. CASE TxnAudit(t)
  <2>1. pc[t] \in TxnPCs /\ pc'[t] = "tx_commit" /\ loc'[t] = loc[t] /\ grants' = grants
    BY <1>2, BecomeMoves DEF TxnAudit, Goto, TxnPCs, db
  <2>2. QED BY <1>0, <2>1 DEF Denied
<1>3. CASE RedeemApply(t)
  <2>1. ~grants[loc[t].g].redeemed
    BY <1>3, ApplyFacts DEF StoreInv, ViewInv, Examined
  <2>2. QED BY <1>3, <2>1, ApplyFacts DEF Denied
<1>4. CASE IssueInsert(t) \/ CloseBegin(t)
  BY <1>4, InsertFacts, CloseFacts DEF Denied
<1>5. CASE pc'[t] # "rd_deny" /\ pc'[t] \notin TxnPCs
  BY <1>5 DEF Denied
<1>6. QED BY <1>0, <1>1, <1>2, <1>3, <1>4, <1>5 DEF Arrived

LEMMA HasKept ==
    ASSUME StoreInv, [Next]_vars, NEW g, NEW k, Has(audit, g, k)
    PROVE  Has(audit', g, k)
BY LogContinues DEF Has

\* A thread that stays where it is.
LEMMA DeniedStays ==
    ASSUME StoreInv, [Next]_vars, NEW u \in Threads, Denied(u),
           pc'[u] = pc[u], loc'[u] = loc[u], pc[u] \in TxnPCs => grants' = grants
    PROVE  Denied(u)'
<1>0. loc[u] \in Loc /\ CallOK(pc[u], loc[u])
  BY ThreadFacts DEF StoreInv
<1>1. ASSUME pc[u] = "rd_deny", loc[u].reason \in FinalReasons PROVE Dead(loc[u].g)'
  <2>1. loc[u].g \in GrantIds /\ Dead(loc[u].g)
    BY <1>0, <1>1 DEF CallOK, RedeemPCs, Denied
  <2>2. QED BY <2>1, DeadKept
<1>2. ASSUME pc[u] = "rd_deny", loc[u].reason = "already_redeemed"
      PROVE  Has(audit', loc[u].g, "grant_redeem")
  BY <1>2, HasKept DEF Denied
<1>3. QED BY <1>1, <1>2 DEF Denied

LEMMA DenialStep ==
    ASSUME StoreInv, AuditMatchesGrants, DenialInv, [Next]_vars
    PROVE  DenialInv'
<1>1. \A i \in DOMAIN audit' : RecordStands(i)'
  BY RecordsStand
<1>2. ASSUME NEW u \in Threads PROVE Denied(u)'
  <2>0. Denied(u)
    BY DEF DenialInv, Denied
  <2>1. ASSUME NEW t \in Threads, Step(t) PROVE Denied(u)'
    <3>1. CASE u = t
      BY <2>1, <3>1, DeniedHere
    <3>2. CASE u # t
      <4>1. pc'[u] = pc[u] /\ loc'[u] = loc[u]
        BY <2>1, <3>2, Arrivals DEF Elsewhere
      <4>2. ASSUME pc[u] \in TxnPCs PROVE grants' = grants
        <5>1. ~Commits(t)
          <6> SUFFICES ASSUME Commits(t) PROVE FALSE
            OBVIOUS
          <6>1. HoldsStore(pc[t]) /\ HoldsStore(pc[u])
            BY <4>2 DEF Commits, TxnCommit, HoldsStore, TxnPCs
          <6>2. QED BY <3>2, <6>1, OneHolder DEF StoreInv
        <5>2. QED BY <2>1, <5>1, DbThread DEF PlainAppend
      <4>3. QED BY <2>0, <4>1, <4>2, DeniedStays
    <3>3. QED BY <3>1, <3>2
  <2>2. ASSUME NEW t \in Threads, Call(t) PROVE Denied(u)'
    <3>1. grants' = grants
      BY <2>2 DEF Call, CallAuthorize, CallRedeem, CallClose, CallOutcome, Start, db
    <3>2. CASE u = t
      BY <2>2, <3>2, CallArrivals DEF Denied, TxnPCs
    <3>3. CASE u # t
      BY <2>0, <2>2, <3>1, <3>3, CallArrivals, DeniedStays DEF Elsewhere
    <3>4. QED BY <3>2, <3>3
  <2>3. CASE Tick \/ CatalogChanges \/ Crash \/ UNCHANGED vars
    <3>1. CASE UNCHANGED <<pc, loc, lastDecision>>
      BY <2>0, <2>3, <3>1, WorldFacts, DeniedStays
    <3>2. CASE \A t \in Threads : pc'[t] = "idle" /\ loc'[t] = NoLoc
      BY <3>2 DEF Denied, TxnPCs
    <3>3. QED BY <2>3, <3>1, <3>2, WorldFacts
  <2>4. QED BY <2>1, <2>2, <2>3 DEF Next
<1>3. QED BY <1>1, <1>2 DEF DenialInv, RecordStands, Denied

LEMMA DenialInvariant == Spec => []DenialInv
<1>1. Init => DenialInv
  <2> SUFFICES ASSUME Init PROVE DenialInv
    OBVIOUS
  <2>1. DOMAIN audit = {} /\ \A t \in Threads : pc[t] = "idle"
    BY DEF Init
  <2>2. QED BY <2>1 DEF DenialInv, TxnPCs
<1>2. StoreInv /\ AuditMatchesGrants /\ DenialInv /\ [Next]_vars => DenialInv'
  BY DenialStep
<1>3. QED BY <1>1, <1>2, StoreInvariant, AuditPaired, PTL DEF Spec

\* redeem_grant, closes, catalog changes and the clock in any order: once a denial for
\* "closed", "expired" or "not_invocable" is on record the grant is never redeemed, and
\* "already_redeemed" is said only of a grant whose redemption is on record before it.
THEOREM FinalDenialsStand == Spec => []DenialsAreFinal
<1>1. DenialInv /\ AuditMatchesGrants => DenialsAreFinal
  <2> SUFFICES ASSUME DenialInv, AuditMatchesGrants, NEW i \in DOMAIN audit,
                      audit[i].kind = "grant_redeem_denied",
                      audit[i].reason \in FinalReasons
               PROVE  ~Has(audit, audit[i].grant, "grant_redeem")
    BY DEF DenialsAreFinal, DenialInv, FinalReasons
  <2> DEFINE g == audit[i].grant
  <2>1. g \in GrantIds /\ ~grants[g].redeemed
    BY DEF DenialInv, Dead
  <2>2. Marks(audit, g, "grant_redeem") = {}
    BY <2>1 DEF AuditMatchesGrants, Paired
  <2>3. QED BY <2>2 DEF Marks, Has
<1>2. QED BY <1>1, DenialInvariant, AuditPaired, PTL

-----------------------------------------------------------------------------
(* The service implements the ledger *)

LEMMA RowStates ==
    /\ RowState(None) = "absent"
    /\ \A row \in Row :
          /\ ~row.redeemed /\ ~row.closed => RowState(row) = "issued"
          /\ row.redeemed /\ ~row.closed => RowState(row) = "spent"
          /\ ~row.redeemed /\ row.closed => RowState(row) = "closed"
          /\ row.redeemed /\ row.closed => RowState(row) = "spent_closed"
<1>1. RowState(None) = "absent"
  BY DEF RowState
<1>2. ASSUME NEW row \in Row
      PROVE  /\ ~row.redeemed /\ ~row.closed => RowState(row) = "issued"
             /\ row.redeemed /\ ~row.closed => RowState(row) = "spent"
             /\ ~row.redeemed /\ row.closed => RowState(row) = "closed"
             /\ row.redeemed /\ row.closed => RowState(row) = "spent_closed"
  <2>1. row # None
    BY NoneAssumption
  <2>2. row.redeemed \in BOOLEAN /\ row.closed \in BOOLEAN
    BY DEF Row
  <2>3. QED BY <2>1, <2>2 DEF RowState
<1>3. QED BY <1>1, <1>2

\* The two ledger variables, as functions of the database and of the answers given.
LedgerState == [g \in GrantIds |-> RowState(grants[g])]
LedgerUses == [g \in GrantIds |-> Len(delivered[g])]

\* A step that changes the row of one grant moves that ticket and no other.
LEMMA LedgerMove ==
    ASSUME NEW g \in GrantIds, \A k \in GrantIds \ {g} : grants'[k] = grants[k]
    PROVE  LedgerState' = [LedgerState EXCEPT ![g] = RowState(grants'[g])]
<1>1. \A k \in GrantIds \ {g} : RowState(grants'[k]) = RowState(grants[k])
  OBVIOUS
<1>2. QED BY <1>1 DEF LedgerState

\* A commit is the issue, the redemption or the first close of one ticket, or no change.
LEMMA LedgerCommit ==
    ASSUME StoreInv, NEW t \in Threads, Commits(t)
    PROVE  \/ UNCHANGED <<LedgerState, LedgerUses>>
           \/ Ledger!Next
<1> DEFINE g == loc[t].g
           Moved(from, to) == /\ LedgerState[g] = from
                              /\ LedgerState' = [LedgerState EXCEPT ![g] = to]
<1>1. g \in GrantIds /\ \A k \in GrantIds \ {g} : grants'[k] = grants[k]
  BY CommitFacts
<1>2. UNCHANGED LedgerUses
  BY DEF Commits, TxnCommit, ghosts, LedgerUses
<1>3. /\ LedgerState[g] = RowState(grants[g])
      /\ LedgerState' = [LedgerState EXCEPT ![g] = RowState(grants'[g])]
  BY <1>1, LedgerMove DEF LedgerState
<1>4. CASE loc[t].rec.kind = "grant_issue"
  <2>1. grants[g] = None /\ grants'[g] = NewRow(loc[t], loc[t].exp)
    BY <1>4, CommitFacts
  <2>2. grants'[g] # None /\ grants'[g] \in Row
    <3>1. loc[t].did \in Nat /\ loc[t].exp \in Nat /\ loc[t].p \in Principals
          /\ loc[t].h \in Hashes /\ loc[t].tool \in Tools
      <4>1. loc[t] \in Loc /\ CallOK(pc[t], loc[t]) /\ loc[t].call = "authorize"
        BY <1>4, ThreadFacts, CommitFacts DEF StoreInv
      <4>2. QED BY <4>1 DEF Loc, CallOK
    <3>2. NewRow(loc[t], loc[t].exp) \in Row
      BY <3>1 DEF NewRow, Row
    <3>3. QED BY <2>1, <3>2, NoneAssumption
  <2>3. ~grants'[g].redeemed /\ ~grants'[g].closed
    BY <2>1 DEF NewRow
  <2>4. Moved("absent", "issued")
    BY <1>3, <2>1, <2>2, <2>3, RowStates
  <2>5. Ledger!Issue(g)
    BY <1>2, <2>4 DEF Ledger!Issue, Ledger!Move, LedgerState, LedgerUses
  <2>6. QED BY <1>1, <2>5 DEF Ledger!Next
<1>5. CASE loc[t].rec.kind = "grant_redeem"
  <2>1. /\ grants[g] \in Row /\ ~grants[g].redeemed /\ ~grants[g].closed
        /\ grants'[g] = [grants[g] EXCEPT !.redeemed = TRUE]
    BY <1>5, CommitFacts
  <2>2. grants'[g] \in Row /\ grants'[g].redeemed /\ ~grants'[g].closed
    BY <2>1 DEF Row
  <2>3. Moved("issued", "spent")
    BY <1>3, <2>1, <2>2, RowStates
  <2>4. Ledger!Spend(g)
    BY <1>2, <2>3 DEF Ledger!Spend, Ledger!Move, LedgerState, LedgerUses
  <2>5. QED BY <1>1, <2>4 DEF Ledger!Next
<1>6. CASE loc[t].rec.kind = "grant_close"
  <2>1. grants[g] \in Row /\ grants'[g] = [grants[g] EXCEPT !.closed = TRUE]
    BY <1>6, CommitFacts
  <2>2. grants'[g] \in Row /\ grants'[g].closed /\ grants'[g].redeemed = grants[g].redeemed
        /\ grants[g].redeemed \in BOOLEAN /\ grants[g].closed \in BOOLEAN
    BY <2>1 DEF Row
  <2>3. CASE grants[g].closed
    <3>1. RowState(grants'[g]) = RowState(grants[g])
      BY <2>1, <2>2, <2>3, RowStates
    <3>2. LedgerState' = LedgerState
      BY <1>1, <1>3, <3>1 DEF LedgerState
    <3>3. QED BY <1>2, <3>2
  <2>4. CASE ~grants[g].closed
    <3>1. Moved("issued", "closed") \/ Moved("spent", "spent_closed")
      BY <1>3, <2>1, <2>2, <2>4, RowStates
    <3>2. Ledger!Close(g)
      BY <1>2, <3>1 DEF Ledger!Close, Ledger!Move, LedgerState, LedgerUses
    <3>3. QED BY <1>1, <3>2 DEF Ledger!Next
  <2>5. QED BY <2>2, <2>3, <2>4
<1>7. QED BY <1>4, <1>5, <1>6, CommitFacts

LEMMA OneEntry == ASSUME NEW e PROVE Len(Append(<<>>, e)) = 1
OBVIOUS

\* The answer "ok" is the one delivery of a spent ticket.
LEMMA LedgerDeliver ==
    ASSUME StoreInv, HolderInv, NEW t \in Threads, Holding(t), UNCHANGED <<grants, audit>>,
           NEW g \in GrantIds, loc[t].g = g, NEW e \in [p : Principals, h : Hashes],
           delivered' = [delivered EXCEPT ![g] = Append(@, e)]
    PROVE  Ledger!Next
<1>1. /\ grants[g] # None /\ grants[g].redeemed /\ delivered[g] = <<>>
      /\ grants \in [GrantIds -> Row \union {None}]
      /\ delivered \in [GrantIds -> Seq([p : Principals, h : Hashes])]
  BY TypeFacts DEF HolderInv, DataOK, RowsOK, DeliveredOK
<1>2. grants[g] \in Row /\ grants[g].closed \in BOOLEAN
  BY <1>1 DEF Row
<1>3. LedgerState[g] \in {"spent", "spent_closed"} /\ UNCHANGED LedgerState
  BY <1>1, <1>2, RowStates DEF LedgerState
<1>4. LedgerUses[g] = 0
  BY <1>1 DEF LedgerUses
<1>5. /\ delivered'[g] = Append(<<>>, e)
      /\ \A k \in GrantIds \ {g} : delivered'[k] = delivered[k]
  BY <1>1
<1>6. Len(delivered'[g]) = 1
  BY <1>5, OneEntry
<1>7. LedgerUses' = [LedgerUses EXCEPT ![g] = 1]
  <2>1. \A k \in GrantIds : Len(delivered'[k]) = IF k = g THEN 1 ELSE Len(delivered[k])
    <3> TAKE k \in GrantIds
    <3>1. CASE k = g
      BY <1>6, <3>1, Zenon
    <3>2. CASE k # g
      <4>1. delivered'[k] = delivered[k]
        BY <1>5, <3>2
      <4>2. Len(delivered'[k]) = Len(delivered[k])
        BY <4>1, Zenon
      <4>3. QED BY <3>2, <4>2, Zenon
    <3>3. QED BY <3>1, <3>2
  <2>2. QED BY <2>1, Zenon DEF LedgerUses
<1>8. Ledger!Deliver(g)
  BY <1>3, <1>4, <1>7 DEF Ledger!Deliver, LedgerState, LedgerUses
<1>9. QED BY <1>8 DEF Ledger!Next

LEMMA LedgerStep ==
    ASSUME StoreInv, HolderInv, [Next]_vars
    PROVE  [Ledger!Next]_(Ledger!vars)
<1>1. \/ UNCHANGED <<LedgerState, LedgerUses>>
      \/ Ledger!Next
  <2>1. CASE \E t \in Threads : Commits(t)
    BY <2>1, LedgerCommit
  <2>2. CASE grants' = grants /\ delivered' = delivered
    BY <2>2 DEF LedgerState, LedgerUses
  <2>3. CASE grants' = grants /\ delivered' # delivered
    <3>1. PICK t \in Threads :
            /\ Holding(t) /\ UNCHANGED <<grants, audit>>
            /\ delivered' = [delivered EXCEPT ![loc[t].g] =
                               Append(@, [p |-> loc[t].p, h |-> loc[t].h])]
      BY <2>3, DeliveredStep
    <3>2. loc[t] \in Loc /\ CallOK(pc[t], loc[t])
      BY ThreadFacts DEF StoreInv
    <3>3. /\ loc[t].g \in GrantIds
          /\ [p |-> loc[t].p, h |-> loc[t].h] \in [p : Principals, h : Hashes]
      BY <3>1, <3>2 DEF Holding, CallOK
    <3>4. PICK g \in GrantIds, e \in [p : Principals, h : Hashes] :
            loc[t].g = g /\ delivered' = [delivered EXCEPT ![g] = Append(@, e)]
      BY <3>1, <3>3
    <3>5. QED BY <3>1, <3>4, LedgerDeliver
  <2>4. QED BY <2>1, <2>2, <2>3, DbStep DEF PlainAppend
<1>2. QED BY <1>1 DEF Ledger!vars, LedgerState, LedgerUses

\* The threads, the two locks, the transactions, faults and crashes of the grant service
\* do, seen through the database and the answers given, only what GrantLedger allows: a
\* ticket is issued once, spent once, closed once, and answered for once, after it is spent.
THEOREM ServiceImplementsLedger == Spec => ImplementsLedger
<1>1. Init => Ledger!Init
  <2> SUFFICES ASSUME Init PROVE Ledger!Init
    OBVIOUS
  <2>1. \A g \in GrantIds : grants[g] = None /\ delivered[g] = <<>>
    BY DEF Init
  <2>2. \A g \in GrantIds : RowState(grants[g]) = "absent" /\ Len(delivered[g]) = 0
    BY <2>1, RowStates
  <2>3. QED BY <2>2 DEF Ledger!Init
<1>2. StoreInv /\ HolderInv /\ [Next]_vars => [Ledger!Next]_(Ledger!vars)
  BY LedgerStep
<1>3. QED BY <1>1, <1>2, StoreInvariant, HolderInvariant, PTL
          DEF Spec, ImplementsLedger, Ledger!Spec
=============================================================================
