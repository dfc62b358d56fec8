--------------------------- MODULE CatalogProofs ----------------------------
(***************************************************************************)
(* The catalog keeps its promises for any number of sources, tools,        *)
(* handlers, crashes and failing writes: only what an operator vouched for *)
(* is asserted, an acknowledged assertion is never forgotten, a restart    *)
(* continues where the memory left off, and drift() explains every block.  *)
(*                                                                         *)
(* The argument: one handler is at work at a time (Exclusive), and where   *)
(* it is tells what it still has to write (Shape, Work).  Whatever is on   *)
(* disk is in memory too (Ahead), an assertion in memory is what its       *)
(* evidence says (Derived) and evidence is what an operator said           *)
(* (Witnessed).  Unless a write has failed, memory and disk differ only in *)
(* what the handler at work is about to write (Sync).                      *)
(***************************************************************************)
EXTENDS Catalog, TLAPS

CallNames == {"register", "ingest", "push", "assert"}
AuditRecs == [kind : {"source", "ingest", "drift", "assertion"}, source : Sources,
              names : SUBSET Names, ok : BOOLEAN]
Locs == [call : CallNames \union {"none"}, source : Sources \union {None},
         name : Names \union {None}, request : Source \union Lists \union Descriptors \union {None},
         todo : SUBSET Names, log : Seq(AuditRecs), ok : BOOLEAN]
Resting == {"idle", "wait"}
Ingesting == {"in_mem", "in_disk", "in_seen"}
Asserting == {"as_tool", "as_evidence"}
Pcs == Resting \union Ingesting \union Asserting
         \union {"rg_mem", "rg_disk", "in_check", "in_discover", "as_mem", "log", "done"}
Tables == [sources : [Sources -> Source \union {None}], tools : [ToolIds -> Tool \union {None}],
           evidence : [ToolIds -> Evidence \union {None}],
           discoveries : [Sources -> (SUBSET Names) \union {None}], audit : Seq(AuditRecs)]

TypeOK ==
    /\ sources \in [Sources -> Source \union {None}]
    /\ tools \in [ToolIds -> Tool \union {None}]
    /\ evidence \in [ToolIds -> Evidence \union {None}]
    /\ disk \in Tables
    /\ handlerLock \in Threads \union {None}
    /\ pc \in [Threads -> Pcs] /\ loc \in [Threads -> Locs]
    /\ acked \subseteq ToolIds /\ faults \in Nat

Exclusive == \A t \in Threads : pc[t] \notin Resting => handlerLock = t

\* What a handler holds, by where it is.
Shape(t) ==
    LET l == loc[t]
    IN  /\ pc[t] # "idle" =>
              /\ l.call \in CallNames /\ l.source \in Sources
              /\ l.call = "register" => l.request \in Source
              /\ l.call = "push" => l.request \in Lists
              /\ l.call = "assert" => l.name \in Names /\ l.request \in Descriptors
        /\ pc[t] \in {"rg_mem", "rg_disk"} => l.call = "register"
        /\ pc[t] \in Ingesting \union {"in_check"} => l.call \in {"ingest", "push"}
        /\ pc[t] = "in_discover" => l.call = "ingest"
        /\ pc[t] \in Asserting \union {"as_mem"} => l.call = "assert"
        /\ pc[t] \in Ingesting => l.request \in Lists /\ l.todo \subseteq DOMAIN l.request
        /\ pc[t] = "in_disk" => l.name \in l.todo
        /\ pc[t] = "in_seen" => l.todo = {}
        /\ pc[t] = "log" => l.log # <<>>
        /\ l.ok => pc[t] = "done"

Target(t) == <<loc[t].source, loc[t].name>>

\* What it has written so far.
Work(t) ==
    LET l == loc[t]
    IN  /\ pc[t] = "rg_disk" => sources[l.source] = l.request
        /\ pc[t] \in Ingesting =>
              \A m \in DOMAIN l.request \ l.todo : disk.tools[<<l.source, m>>] # None
        /\ pc[t] \in Asserting \union {"in_disk"} => tools[Target(t)] # None
        /\ pc[t] \in Asserting => evidence[Target(t)] # None
        /\ l.call = "assert" /\ (pc[t] = "log" \/ l.ok) => disk.evidence[Target(t)] # None

\* Whatever is on disk, or was acknowledged, is in memory too.
Ahead ==
    /\ \A x \in ToolIds : disk.tools[x] # None => tools[x] # None
    /\ \A x \in ToolIds : disk.evidence[x] # None => evidence[x] # None
    /\ \A s \in Sources : disk.discoveries[s] # None =>
          \A m \in disk.discoveries[s] : disk.tools[<<s, m>>] # None
    /\ \A x \in acked : disk.evidence[x] # None

\* An assertion is what the evidence says of the claim in memory.
Derived(x) ==
    tools[x] # None =>
        tools[x].asserted = IF evidence[x] # None /\ evidence[x].fingerprint = tools[x].claim
                            THEN evidence[x].desc ELSE None

\* Evidence is what an operator said.
Witnessed(x) ==
    /\ evidence[x] # None => <<x, evidence[x].fingerprint, evidence[x].desc>> \in vouched
    /\ disk.evidence[x] # None =>
          <<x, disk.evidence[x].fingerprint, disk.evidence[x].desc>> \in vouched

\* The same claim and schema.
Same(tool, row) ==
    /\ tool = None <=> row = None
    /\ tool # None => tool.claim = row.claim /\ tool.schema = row.schema

Sync ==
    faults = 0 =>
        /\ \A s \in Sources :
              \/ sources[s] = disk.sources[s]
              \/ \E t \in Threads : pc[t] = "rg_disk" /\ loc[t].source = s
        /\ \A x \in ToolIds :
              \/ evidence[x] = disk.evidence[x]
              \/ \E t \in Threads : pc[t] \in Asserting /\ Target(t) = x
        /\ \A x \in ToolIds :
              \/ Same(tools[x], disk.tools[x])
              \/ \E t \in Threads : pc[t] = "in_disk" /\ Target(t) = x

Inv ==
    /\ TypeOK /\ Exclusive /\ Ahead /\ Sync
    /\ \A t \in Threads : Shape(t) /\ Work(t)
    /\ \A x \in ToolIds : Derived(x) /\ Witnessed(x)

-----------------------------------------------------------------------------
(* One handler at work *)

\* Memory and disk differ only in what handler t is about to write.
SyncBy(t) ==
    faults = 0 =>
        /\ \A s \in Sources :
              sources[s] = disk.sources[s] \/ (pc[t] = "rg_disk" /\ loc[t].source = s)
        /\ \A x \in ToolIds :
              evidence[x] = disk.evidence[x] \/ (pc[t] \in Asserting /\ Target(t) = x)
        /\ \A x \in ToolIds :
              Same(tools[x], disk.tools[x]) \/ (pc[t] = "in_disk" /\ Target(t) = x)

Rows == \A x \in ToolIds : Derived(x) /\ Witnessed(x)

LEMMA Alone ==
    ASSUME Exclusive, NEW t \in Threads, pc[t] \notin Resting, NEW u \in Threads, u # t
    PROVE  pc[u] \in Resting
  BY DEF Exclusive

LEMMA SyncOne ==
    ASSUME Exclusive, Sync, NEW t \in Threads, pc[t] \notin Resting PROVE SyncBy(t)
<1>1. \A u \in Threads : pc[u] \in Asserting \union {"rg_disk", "in_disk"} => u = t
  BY Alone DEF Asserting, Resting
<1>2. QED BY <1>1 DEF Sync, SyncBy

LEMMA SyncBack == ASSUME NEW t \in Threads, SyncBy(t) PROVE Sync
  BY DEF Sync, SyncBy

LEMMA RestingWork ==
    ASSUME NEW t \in Threads, Shape(t), pc[t] \in Resting PROVE Work(t)
  BY DEF Shape, Work, Resting, Ingesting, Asserting

\* Handler t moves on.
LEMMA Moved ==
    ASSUME TypeOK, Exclusive, \A u \in Threads : Shape(u), NEW t \in Threads,
           NEW label \in Pcs, NEW l \in Locs, Become(t, label, l),
           pc[t] \notin Resting,
           handlerLock' = handlerLock \/ (handlerLock' = None /\ label \in Resting),
           Shape(t)', Work(t)', SyncBy(t)'
    PROVE  /\ pc' \in [Threads -> Pcs] /\ loc' \in [Threads -> Locs]
           /\ handlerLock' \in Threads \union {None}
           /\ Exclusive' /\ Sync' /\ \A u \in Threads : Shape(u)' /\ Work(u)'
<1>1. /\ pc' \in [Threads -> Pcs] /\ loc' \in [Threads -> Locs]
      /\ pc'[t] = label /\ loc'[t] = l
      /\ \A u \in Threads : u # t => pc'[u] = pc[u] /\ loc'[u] = loc[u]
  BY DEF Become, TypeOK
<1>2. handlerLock = t /\ handlerLock' \in Threads \union {None}
  BY DEF Exclusive
<1>3. \A u \in Threads : u # t => pc[u] \in Resting
  BY Alone
<1>4. Exclusive'
  BY <1>1, <1>2, <1>3 DEF Exclusive
<1>5. Sync'
  BY SyncBack DEF Sync, SyncBy
<1>6. ASSUME NEW u \in Threads, u # t PROVE Shape(u)' /\ Work(u)'
  <2>1. pc'[u] = pc[u] /\ loc'[u] = loc[u] /\ pc[u] \in Resting
    BY <1>1, <1>3, <1>6
  <2>2. Shape(u)'
    BY <2>1 DEF Shape
  <2>3. Work(u)'
    BY <2>1, <2>2 DEF Shape, Work, Resting, Ingesting, Asserting
  <2>4. QED BY <2>2, <2>3
<1>7. QED BY <1>1, <1>2, <1>4, <1>5, <1>6

-----------------------------------------------------------------------------
(* One transaction, one table *)

LEMMA WriteAudit ==
    ASSUME NEW d \in Tables, NEW r \in AuditRecs, NEW e, e = [d EXCEPT !.audit = Append(@, r)]
    PROVE  /\ e \in Tables
           /\ e.sources = d.sources /\ e.tools = d.tools /\ e.evidence = d.evidence
           /\ e.discoveries = d.discoveries
<1>1. Append(d.audit, r) \in Seq(AuditRecs)
  BY DEF Tables
<1>2. QED BY <1>1 DEF Tables

LEMMA WriteSource ==
    ASSUME NEW d \in Tables, NEW f \in [Sources -> Source \union {None}],
           NEW e, e = [d EXCEPT !.sources = f]
    PROVE  /\ e \in Tables /\ e.sources = f
           /\ e.tools = d.tools /\ e.evidence = d.evidence /\ e.discoveries = d.discoveries
  BY DEF Tables

LEMMA WriteTool ==
    ASSUME NEW d \in Tables, NEW f \in [ToolIds -> Tool \union {None}],
           NEW e, e = [d EXCEPT !.tools = f]
    PROVE  /\ e \in Tables /\ e.tools = f
           /\ e.sources = d.sources /\ e.evidence = d.evidence /\ e.discoveries = d.discoveries
  BY DEF Tables

LEMMA WriteEvidence ==
    ASSUME NEW d \in Tables, NEW f \in [ToolIds -> Evidence \union {None}],
           NEW e, e = [d EXCEPT !.evidence = f]
    PROVE  /\ e \in Tables /\ e.evidence = f
           /\ e.sources = d.sources /\ e.tools = d.tools /\ e.discoveries = d.discoveries
  BY DEF Tables

LEMMA WriteSeen ==
    ASSUME NEW d \in Tables, NEW f \in [Sources -> (SUBSET Names) \union {None}],
           NEW e, e = [d EXCEPT !.discoveries = f]
    PROVE  /\ e \in Tables /\ e.discoveries = f
           /\ e.sources = d.sources /\ e.tools = d.tools /\ e.evidence = d.evidence
  BY DEF Tables

\* A tool as it is ingested.
LEMMA IngestedType ==
    ASSUME NEW record \in Evidence \union {None}, NEW offer, offer.claim \in Claims,
           offer.schema \in Schemas
    PROVE  /\ Ingested(record, offer) \in Tool /\ Ingested(record, offer) # None
           /\ Ingested(record, offer).claim = offer.claim
           /\ Ingested(record, offer).schema = offer.schema
           /\ Ingested(record, offer).asserted =
                 IF record # None /\ record.fingerprint = offer.claim THEN record.desc ELSE None
<1>1. PICK tool : tool = [claim |-> offer.claim, schema |-> offer.schema, asserted |-> None]
  OBVIOUS
<1>2. /\ tool \in Tool /\ tool.claim = offer.claim /\ tool.schema = offer.schema
      /\ tool.asserted = None
  BY <1>1 DEF Tool
<1>3. CASE record # None /\ record.fingerprint = offer.claim
  <2>1. Ingested(record, offer) = [tool EXCEPT !.asserted = record.desc]
    BY <1>1, <1>3 DEF Ingested, Fingerprint
  <2>2. record.desc \in Descriptors
    BY <1>3 DEF Evidence
  <2>3. QED BY <1>2, <1>3, <2>1, <2>2, NoneAssumption DEF Tool
<1>4. CASE ~(record # None /\ record.fingerprint = offer.claim)
  <2>1. Ingested(record, offer) = tool
    BY <1>1, <1>4 DEF Ingested, Fingerprint
  <2>2. QED BY <1>2, <1>4, <2>1, NoneAssumption
<1>5. QED BY <1>3, <1>4

\* A tool whose assertion is what the evidence says is what a restart makes of its row.
LEMMA Rehydrated ==
    ASSUME NEW tool \in Tool, NEW record \in Evidence \union {None},
           tool.asserted = IF record # None /\ record.fingerprint = tool.claim
                           THEN record.desc ELSE None,
           NEW row, row # None, row.claim = tool.claim, row.schema = tool.schema
    PROVE  tool = Hydrated(row, record)
<1>1. PICK offer : offer = [claim |-> row.claim, schema |-> row.schema]
  OBVIOUS
<1>2. /\ offer.claim = tool.claim /\ offer.schema = tool.schema /\ tool.claim \in Claims
      /\ tool.schema \in Schemas
  BY <1>1 DEF Tool
<1>3. PICK full \in Tool : full = Ingested(record, offer)
  BY <1>2, IngestedType
<1>4. full.claim = tool.claim /\ full.schema = tool.schema /\ full.asserted = tool.asserted
  BY <1>2, <1>3, IngestedType
<1>5. tool = full
  BY <1>4 DEF Tool
<1>6. QED BY <1>1, <1>3, <1>5 DEF Hydrated

-----------------------------------------------------------------------------
(* Steps that write nothing *)

LEMMA SameRows ==
    ASSUME Rows, UNCHANGED <<tools, evidence, vouched>>, disk'.evidence = disk.evidence
    PROVE  Rows'
  BY DEF Rows, Derived, Witnessed

LEMMA SameAhead ==
    ASSUME Ahead, UNCHANGED <<tools, evidence, acked>>, disk'.evidence = disk.evidence,
           disk'.tools = disk.tools, disk'.discoveries = disk.discoveries
    PROVE  Ahead'
  BY DEF Ahead

\* The handler moves from a place where memory and disk agree to another one.
LEMMA SameSync ==
    ASSUME NEW t \in Threads, SyncBy(t), pc[t] \notin Asserting \union {"rg_disk", "in_disk"},
           UNCHANGED <<mem, faults>>, disk'.sources = disk.sources,
           disk'.tools = disk.tools, disk'.evidence = disk.evidence
    PROVE  SyncBy(t)'
  BY DEF SyncBy, Same, mem

LEMMA StepStart ==
    ASSUME Inv, NEW t \in Threads, NEW l \in Locs, Start(t, l), l.call \in CallNames,
           l.source \in Sources, l.ok = FALSE,
           l.call = "register" => l.request \in Source,
           l.call = "push" => l.request \in Lists,
           l.call = "assert" => l.name \in Names /\ l.request \in Descriptors
    PROVE  Inv'
<1>1. /\ UNCHANGED <<sources, tools, evidence, disk, handlerLock, vouched, acked, faults>>
      /\ pc[t] = "idle" /\ Become(t, "wait", l)
  BY DEF Start, mem, bounds
<1>2. /\ pc' \in [Threads -> Pcs] /\ loc' \in [Threads -> Locs]
      /\ pc'[t] = "wait" /\ loc'[t] = l
      /\ \A u \in Threads : u # t => pc'[u] = pc[u] /\ loc'[u] = loc[u]
  BY <1>1 DEF Become, Inv, TypeOK, Pcs, Resting
<1>3. TypeOK'
  BY <1>1, <1>2 DEF Inv, TypeOK
<1>4. Exclusive'
  BY <1>1, <1>2 DEF Inv, Exclusive, Resting
<1>5. Ahead' /\ Rows'
  BY <1>1, SameAhead, SameRows DEF Inv, Rows
<1>6. ASSUME NEW u \in Threads PROVE Shape(u)' /\ Work(u)'
  <2>1. CASE u = t
    <3>1. Shape(t)'
      BY <1>2 DEF Shape, Ingesting, Asserting
    <3>2. Work(t)'
      BY <1>2 DEF Work, Ingesting, Asserting
    <3>3. QED BY <2>1, <3>1, <3>2
  <2>2. CASE u # t
    <3>1. pc'[u] = pc[u] /\ loc'[u] = loc[u] /\ Shape(u) /\ Work(u)
      BY <1>2, <2>2 DEF Inv
    <3>2. QED BY <1>1, <3>1 DEF Shape, Work, Target
  <2>3. QED BY <2>1, <2>2
<1>7. Sync'
  <2>1. ASSUME NEW u \in Threads, pc[u] # "idle"
        PROVE  pc'[u] = pc[u] /\ loc'[u] = loc[u]
    BY <1>1, <1>2, <2>1
  <2>2. QED BY <1>1, <2>1 DEF Inv, Sync, Same, Target, Asserting
<1>8. QED BY <1>3, <1>4, <1>5, <1>6, <1>7 DEF Inv, Rows

LEMMA StepCall ==
    ASSUME Inv, NEW t \in Threads,
           CallRegister(t) \/ CallIngest(t) \/ CallIngestPayload(t) \/ CallAssert(t)
    PROVE  Inv'
<1>1. NoLoc \in Locs
  BY DEF NoLoc, Locs
<1>2. CASE CallRegister(t)
  <2>1. PICK s \in Sources, source \in Source :
           Start(t, [NoLoc EXCEPT !.call = "register", !.source = s, !.request = source])
    BY <1>2 DEF CallRegister
  <2>2. PICK l : l = [NoLoc EXCEPT !.call = "register", !.source = s, !.request = source]
    OBVIOUS
  <2>3. l.call = "register" /\ l.source = s /\ l.request = source /\ l.ok = FALSE
    BY <2>2 DEF NoLoc
  <2>4. l \in Locs
    BY <1>1, <2>2 DEF Locs, CallNames
  <2>5. QED BY <2>1, <2>2, <2>3, <2>4, StepStart DEF CallNames
<1>3. CASE CallIngest(t)
  <2>1. PICK s \in Sources : Start(t, [NoLoc EXCEPT !.call = "ingest", !.source = s])
    BY <1>3 DEF CallIngest
  <2>2. PICK l : l = [NoLoc EXCEPT !.call = "ingest", !.source = s]
    OBVIOUS
  <2>3. l.call = "ingest" /\ l.source = s /\ l.ok = FALSE
    BY <2>2 DEF NoLoc
  <2>4. l \in Locs
    BY <1>1, <2>2 DEF Locs, CallNames
  <2>5. QED BY <2>1, <2>2, <2>3, <2>4, StepStart DEF CallNames
<1>4. CASE CallIngestPayload(t)
  <2>1. PICK s \in Sources, list \in Lists :
           Start(t, [NoLoc EXCEPT !.call = "push", !.source = s, !.request = list])
    BY <1>4 DEF CallIngestPayload
  <2>2. PICK l : l = [NoLoc EXCEPT !.call = "push", !.source = s, !.request = list]
    OBVIOUS
  <2>3. l.call = "push" /\ l.source = s /\ l.request = list /\ l.ok = FALSE
    BY <2>2 DEF NoLoc
  <2>4. l \in Locs
    BY <1>1, <2>2 DEF Locs, CallNames
  <2>5. QED BY <2>1, <2>2, <2>3, <2>4, StepStart DEF CallNames
<1>5. CASE CallAssert(t)
  <2>1. PICK s \in Sources, m \in Names, d \in Descriptors :
           Start(t, [NoLoc EXCEPT !.call = "assert", !.source = s, !.name = m, !.request = d])
    BY <1>5 DEF CallAssert
  <2>2. PICK l : l = [NoLoc EXCEPT !.call = "assert", !.source = s, !.name = m, !.request = d]
    OBVIOUS
  <2>3. l.call = "assert" /\ l.source = s /\ l.name = m /\ l.request = d /\ l.ok = FALSE
    BY <2>2 DEF NoLoc
  <2>4. l \in Locs
    BY <1>1, <2>2 DEF Locs, CallNames
  <2>5. QED BY <2>1, <2>2, <2>3, <2>4, StepStart DEF CallNames
<1>6. QED BY <1>2, <1>3, <1>4, <1>5

LEMMA StepEnter == ASSUME Inv, NEW t \in Threads, Enter(t) PROVE Inv'
<1>1. /\ UNCHANGED <<sources, tools, evidence, disk, vouched, acked, faults, loc>>
      /\ pc[t] = "wait" /\ handlerLock = None /\ handlerLock' = t
      /\ pc' = [pc EXCEPT ![t] = First(loc[t].call)]
  BY DEF Enter, Goto, Become, mem, bounds, Inv, TypeOK
<1>2. loc[t].call \in CallNames /\ Shape(t)
  BY <1>1 DEF Inv, Shape
<1>3. /\ First(loc[t].call) \in {"rg_mem", "in_check", "as_mem"}
      /\ First(loc[t].call) = "rg_mem" => loc[t].call = "register"
      /\ First(loc[t].call) = "in_check" => loc[t].call \in {"ingest", "push"}
      /\ First(loc[t].call) = "as_mem" => loc[t].call = "assert"
  BY <1>2 DEF First, CallNames
<1>4. \A u \in Threads : pc[u] \in Resting
  BY <1>1, ConstantsAssumption DEF Inv, Exclusive
<1>5. /\ pc' \in [Threads -> Pcs] /\ pc'[t] \in {"rg_mem", "in_check", "as_mem"}
      /\ pc'[t] = First(loc[t].call)
      /\ \A u \in Threads : u # t => pc'[u] = pc[u]
  BY <1>1, <1>3 DEF Inv, TypeOK, Pcs
<1>6. TypeOK'
  BY <1>1, <1>5 DEF Inv, TypeOK
<1>7. Exclusive'
  BY <1>1, <1>4, <1>5 DEF Exclusive
<1>8. Ahead' /\ Rows'
  BY <1>1, SameAhead, SameRows DEF Inv, Rows
<1>9. ASSUME NEW u \in Threads PROVE Shape(u)' /\ Work(u)'
  <2>1. CASE u = t
    <3>1. Shape(t)'
      BY <1>1, <1>2, <1>3, <1>5 DEF Shape, Ingesting, Asserting
    <3>2. Work(t)'
      BY <1>1, <1>2, <1>5 DEF Shape, Work, Ingesting, Asserting
    <3>3. QED BY <2>1, <3>1, <3>2
  <2>2. CASE u # t
    <3>1. pc'[u] = pc[u] /\ loc'[u] = loc[u] /\ Shape(u) /\ Work(u)
      BY <1>1, <1>5, <2>2 DEF Inv
    <3>2. QED BY <1>1, <3>1 DEF Shape, Work, Target
  <2>3. QED BY <2>1, <2>2
<1>10. Sync'
  BY <1>1, <1>4 DEF Inv, Sync, Same, Asserting, Resting
<1>11. QED BY <1>6, <1>7, <1>8, <1>9, <1>10 DEF Inv, Rows

\* The parts of the invariant, put together again after a step of handler t.
LEMMA Assembled ==
    ASSUME Inv, NEW t \in Threads, NEW label \in Pcs, NEW l \in Locs, Become(t, label, l),
           pc[t] \notin Resting,
           handlerLock' = handlerLock \/ (handlerLock' = None /\ label \in Resting),
           Shape(t)', Work(t)', SyncBy(t)',
           sources' \in [Sources -> Source \union {None}],
           tools' \in [ToolIds -> Tool \union {None}],
           evidence' \in [ToolIds -> Evidence \union {None}],
           disk' \in Tables, acked' \subseteq ToolIds, faults' \in Nat, Ahead', Rows'
    PROVE  Inv'
<1>1. TypeOK /\ Exclusive /\ \A u \in Threads : Shape(u)
  BY DEF Inv
<1>2. /\ pc' \in [Threads -> Pcs] /\ loc' \in [Threads -> Locs]
      /\ handlerLock' \in Threads \union {None}
      /\ Exclusive' /\ Sync' /\ \A u \in Threads : Shape(u)' /\ Work(u)'
  BY <1>1, Moved
<1>3. TypeOK'
  BY <1>2 DEF TypeOK
<1>4. QED BY <1>2, <1>3 DEF Inv, Rows

\* A step that leaves the memory and the tables alone, but for the audit.
LEMMA QuietStep ==
    ASSUME Inv, NEW t \in Threads, NEW label \in Pcs, NEW l \in Locs, Become(t, label, l),
           pc[t] \notin Resting,
           handlerLock' = handlerLock \/ (handlerLock' = None /\ label \in Resting),
           Shape(t)', Work(t)', UNCHANGED <<mem, vouched>>,
           pc[t] \notin Asserting \union {"rg_disk", "in_disk"}, UNCHANGED <<acked, faults>>,
           disk' \in Tables, disk'.sources = disk.sources, disk'.tools = disk.tools,
           disk'.evidence = disk.evidence, disk'.discoveries = disk.discoveries
    PROVE  Inv'
<1>1. TypeOK /\ SyncBy(t) /\ Ahead /\ Rows /\ UNCHANGED <<sources, tools, evidence>>
  BY SyncOne DEF Inv, Rows, mem
<1>2. SyncBy(t)'
  BY <1>1, SameSync
<1>3. Ahead' /\ Rows'
  BY <1>1, SameAhead, SameRows
<1>4. /\ sources' \in [Sources -> Source \union {None}]
      /\ tools' \in [ToolIds -> Tool \union {None}]
      /\ evidence' \in [ToolIds -> Evidence \union {None}]
      /\ acked' \subseteq ToolIds /\ faults' \in Nat
  BY <1>1 DEF TypeOK
<1>5. QED BY <1>2, <1>3, <1>4, Assembled

LEMMA StepLeave == ASSUME Inv, NEW t \in Threads, Leave(t) PROVE Inv'
<1>1. /\ UNCHANGED <<sources, tools, evidence, disk, vouched, faults>>
      /\ pc[t] = "done" /\ handlerLock' = None /\ Become(t, "idle", NoLoc)
  BY DEF Leave, mem, bounds
<1>2. NoLoc \in Locs /\ NoLoc.ok = FALSE /\ NoLoc.call = "none"
  BY DEF NoLoc, Locs
<1>3. TypeOK /\ SyncBy(t) /\ Ahead /\ Rows /\ Shape(t) /\ Work(t)
  BY <1>1, SyncOne DEF Inv, Rows, Resting
<1>4. pc'[t] = "idle" /\ loc'[t] = NoLoc
  BY <1>1, <1>3 DEF Become, TypeOK
<1>5. Shape(t)' /\ Work(t)'
  BY <1>2, <1>4 DEF Shape, Work, Ingesting, Asserting
<1>6. SyncBy(t)'
  BY <1>1, <1>3, SameSync DEF mem, Asserting
<1>7. /\ acked' \subseteq ToolIds
      /\ \A x \in acked' : disk.evidence[x] # None
  <2>1. CASE loc[t].call = "assert" /\ loc[t].ok
    <3>1. acked' = acked \union {Target(t)}
      BY <2>1 DEF Leave, Target
    <3>2. Target(t) \in ToolIds
      BY <1>1, <1>3, <2>1 DEF Shape, Target, ToolIds
    <3>3. disk.evidence[Target(t)] # None
      BY <1>3, <2>1 DEF Work
    <3>4. QED BY <1>3, <3>1, <3>2, <3>3 DEF Ahead, TypeOK
  <2>2. CASE ~(loc[t].call = "assert" /\ loc[t].ok)
    BY <1>3, <2>2 DEF Leave, Ahead, TypeOK
  <2>3. QED BY <2>1, <2>2
<1>8. Ahead' /\ Rows'
  <2>1. Rows'
    BY <1>1, <1>3, SameRows
  <2>2. QED BY <1>1, <1>3, <1>7, <2>1 DEF Ahead
<1>9. pc[t] \notin Resting /\ "idle" \in Resting /\ "idle" \in Pcs
  BY <1>1 DEF Resting, Pcs
<1>10. QED BY <1>1, <1>2, <1>3, <1>5, <1>6, <1>7, <1>8, <1>9, Assembled DEF TypeOK

LEMMA StepFault == ASSUME Inv, NEW t \in Threads, StoreFault(t) PROVE Inv'
<1>1. /\ UNCHANGED <<sources, tools, evidence, disk, vouched, acked, handlerLock>>
      /\ faults' = faults + 1 /\ Become(t, "done", loc[t])
      /\ pc[t] \in {"rg_disk", "in_disk", "in_seen", "as_tool", "as_evidence", "log"}
  BY DEF StoreFault, Goto, mem
<1>2. TypeOK /\ Ahead /\ Rows /\ Shape(t) /\ Work(t)
  BY DEF Inv, Rows
<1>3. /\ pc'[t] = "done" /\ loc'[t] = loc[t] /\ loc[t] \in Locs /\ loc[t].ok = FALSE
      /\ faults' \in Nat /\ faults' # 0
  <2>1. loc[t].ok \in BOOLEAN /\ ~loc[t].ok
    BY <1>1, <1>2 DEF Shape, TypeOK, Locs
  <2>2. QED BY <1>1, <1>2, <2>1 DEF Become, TypeOK
<1>4. SyncBy(t)'
  BY <1>3 DEF SyncBy
<1>5. Shape(t)'
  BY <1>1, <1>2, <1>3 DEF Shape, Ingesting, Asserting
<1>6. Work(t)'
  BY <1>3 DEF Work, Ingesting, Asserting
<1>7. Ahead' /\ Rows'
  BY <1>1, <1>2, SameAhead, SameRows
<1>8. pc[t] \notin Resting /\ "done" \in Pcs
  BY <1>1 DEF Resting, Pcs
<1>9. QED BY <1>1, <1>2, <1>3, <1>4, <1>5, <1>6, <1>7, <1>8, Assembled DEF TypeOK

LEMMA StepLog == ASSUME Inv, NEW t \in Threads, Log(t) PROVE Inv'
<1>1. TypeOK /\ Shape(t) /\ Work(t) /\ pc[t] = "log" /\ loc[t] \in Locs /\ disk \in Tables
  BY DEF Inv, Log, TypeOK
<1>2. PICK log \in Seq(AuditRecs) : log = loc[t].log /\ log # <<>>
  BY <1>1 DEF Shape, Locs
<1>3. Head(log) \in AuditRecs /\ Tail(log) \in Seq(AuditRecs)
  BY <1>2
<1>4. PICK rest \in Seq(AuditRecs) : rest = Tail(log)
  BY <1>3
<1>5. PICK l : l = [loc[t] EXCEPT !.log = rest, !.ok = (rest = <<>>)]
  OBVIOUS
<1>6. /\ l.call = loc[t].call /\ l.source = loc[t].source /\ l.name = loc[t].name
      /\ l.request = loc[t].request /\ l.log = rest
  BY <1>1, <1>5 DEF Locs
<1>7. l.ok = (rest = <<>>)
  BY <1>1, <1>5 DEF Locs
<1>8. l \in Locs
  BY <1>1, <1>5 DEF Locs
<1>9. PICK label \in {"done", "log"} : label = IF rest = <<>> THEN "done" ELSE "log"
  OBVIOUS
<1>10. /\ disk' = [disk EXCEPT !.audit = Append(@, Head(log))] /\ Become(t, label, l)
       /\ UNCHANGED <<mem, handlerLock, vouched, acked, faults>>
  BY <1>2, <1>4, <1>5, <1>9 DEF Log, Commit, bounds
<1>11. /\ disk' \in Tables /\ disk'.sources = disk.sources /\ disk'.tools = disk.tools
       /\ disk'.evidence = disk.evidence /\ disk'.discoveries = disk.discoveries
  BY <1>1, <1>3, <1>10, WriteAudit
<1>12. pc'[t] = label /\ loc'[t] = l
  BY <1>1, <1>10 DEF Become, TypeOK
<1>13. Shape(t)'
  BY <1>1, <1>6, <1>7, <1>9, <1>12 DEF Shape, Ingesting, Asserting
<1>14. Work(t)'
  BY <1>1, <1>6, <1>9, <1>11, <1>12 DEF Work, Target, Ingesting, Asserting
<1>15. pc[t] \notin Resting /\ label \in Pcs /\ pc[t] \notin Asserting \union {"rg_disk", "in_disk"}
  BY <1>1, <1>9 DEF Resting, Pcs, Asserting
<1>16. QED BY <1>8, <1>10, <1>11, <1>13, <1>14, <1>15, QuietStep

LEMMA OneRecord == ASSUME NEW r \in AuditRecs PROVE <<r>> \in Seq(AuditRecs) /\ <<r>> # <<>>
  OBVIOUS

\* A handler with a record to write.
LEMMA Recorded ==
    ASSUME NEW l \in Locs, NEW log \in Seq(AuditRecs), NEW m, m = [l EXCEPT !.log = log]
    PROVE  /\ m \in Locs /\ m.call = l.call /\ m.source = l.source /\ m.name = l.name
           /\ m.request = l.request /\ m.todo = l.todo /\ m.log = log /\ m.ok = l.ok
  BY DEF Locs

\* The handler that goes to write its records: its shape.
LEMMA RecordShape ==
    ASSUME NEW t \in Threads, TypeOK, Shape(t), pc[t] \notin {"idle", "done"},
           NEW log \in Seq(AuditRecs), log # <<>>,
           Become(t, "log", [loc[t] EXCEPT !.log = log])
    PROVE  /\ Shape(t)' /\ pc'[t] = "log"
           /\ loc'[t] = [loc[t] EXCEPT !.log = log] /\ loc'[t] \in Locs
           /\ loc'[t].call = loc[t].call /\ loc'[t].source = loc[t].source
           /\ loc'[t].name = loc[t].name /\ loc'[t].ok = FALSE
<1>1. PICK m : m = [loc[t] EXCEPT !.log = log]
  OBVIOUS
<1>2. loc[t] \in Locs /\ pc'[t] = "log" /\ loc'[t] = m
  BY <1>1 DEF TypeOK, Become
<1>3. /\ m \in Locs /\ m.call = loc[t].call /\ m.source = loc[t].source
      /\ m.name = loc[t].name /\ m.request = loc[t].request /\ m.log = log
      /\ m.ok = loc[t].ok
  BY <1>1, <1>2, Recorded
<1>4. loc[t].ok = FALSE
  BY <1>2 DEF Shape, Locs
<1>5. Shape(t)'
  BY <1>2, <1>3, <1>4 DEF Shape, Ingesting, Asserting
<1>6. QED BY <1>1, <1>2, <1>3, <1>4, <1>5

\* The loop over a list begins.
LEMMA StepTake ==
    ASSUME Inv, NEW t \in Threads, pc[t] \in {"in_check", "in_discover"},
           loc[t].call \in {"ingest", "push"}, NEW list \in Lists,
           loc[t].call = "push" => list = loc[t].request,
           Take(t, loc[t], list, DOMAIN list),
           UNCHANGED <<mem, disk, handlerLock, vouched, acked, faults>>
    PROVE  Inv'
<1>1. TypeOK /\ Shape(t) /\ loc[t] \in Locs /\ disk \in Tables /\ DOMAIN list \subseteq Names
  BY ConstantsAssumption DEF Inv, TypeOK
<1>2. loc[t].source \in Sources /\ loc[t].ok = FALSE
  BY <1>1 DEF Shape, Locs
<1>3. PICK label \in {"in_seen", "in_mem"} :
         label = IF DOMAIN list = {} THEN "in_seen" ELSE "in_mem"
  OBVIOUS
<1>4. PICK l : l = [loc[t] EXCEPT !.request = list, !.todo = DOMAIN list]
  OBVIOUS
<1>5. /\ l.call = loc[t].call /\ l.source = loc[t].source /\ l.request = list
      /\ l.todo = DOMAIN list /\ l.ok = FALSE
  BY <1>1, <1>2, <1>4 DEF Locs
<1>6. l \in Locs
  BY <1>1, <1>4 DEF Locs
<1>7. Become(t, label, l)
  BY <1>3, <1>4 DEF Take
<1>8. pc'[t] = label /\ loc'[t] = l
  BY <1>1, <1>7 DEF Become, TypeOK
<1>9. Shape(t)'
  BY <1>1, <1>2, <1>3, <1>5, <1>8 DEF Shape, Ingesting, Asserting, CallNames
<1>10. Work(t)'
  BY <1>3, <1>5, <1>8 DEF Work, Ingesting, Asserting
<1>11. /\ pc[t] \notin Resting /\ label \in Pcs
       /\ pc[t] \notin Asserting \union {"rg_disk", "in_disk"}
  BY <1>3 DEF Resting, Pcs, Asserting, Ingesting
<1>12. QED BY <1>1, <1>6, <1>7, <1>9, <1>10, <1>11, QuietStep

LEMMA StepCheck == ASSUME Inv, NEW t \in Threads, IngestCheck(t) PROVE Inv'
<1>1. /\ TypeOK /\ Shape(t) /\ Work(t) /\ pc[t] = "in_check" /\ loc[t] \in Locs
      /\ UNCHANGED <<mem, disk, handlerLock, vouched, acked, faults>>
  BY DEF Inv, IngestCheck, TypeOK, bounds
<1>2. /\ loc[t].call \in {"ingest", "push"} /\ loc[t].ok = FALSE /\ disk \in Tables
  BY <1>1 DEF Shape, Ingesting, TypeOK, Locs
<1>3. /\ pc[t] \notin Resting /\ pc[t] \notin Asserting \union {"rg_disk", "in_disk"}
      /\ {"done", "in_discover", "in_seen", "in_mem"} \subseteq Pcs
  BY <1>1 DEF Resting, Asserting, Pcs, Ingesting
<1>4. CASE Goto(t, "done") \/ (loc[t].call = "ingest" /\ Goto(t, "in_discover"))
  <2>1. PICK label \in {"done", "in_discover"} :
           Become(t, label, loc[t]) /\ (label = "in_discover" => loc[t].call = "ingest")
    BY <1>4 DEF Goto
  <2>2. pc'[t] = label /\ loc'[t] = loc[t]
    BY <1>1, <2>1 DEF Become, TypeOK
  <2>3. Shape(t)'
    BY <1>1, <1>2, <2>1, <2>2 DEF Shape, Ingesting, Asserting
  <2>4. Work(t)'
    BY <1>2, <2>1, <2>2 DEF Work, Ingesting, Asserting
  <2>5. QED BY <1>1, <1>2, <1>3, <2>1, <2>3, <2>4, QuietStep
<1>5. CASE loc[t].call = "push" /\ Take(t, loc[t], loc[t].request, DOMAIN loc[t].request)
  <2>1. loc[t].request \in Lists
    BY <1>1, <1>5 DEF Shape
  <2>2. QED BY <1>1, <1>2, <1>5, <2>1, StepTake
<1>6. QED BY <1>1, <1>2, <1>4, <1>5 DEF IngestCheck

LEMMA StepDiscover == ASSUME Inv, NEW t \in Threads, Discover(t) PROVE Inv'
<1>1. /\ TypeOK /\ Shape(t) /\ Work(t) /\ pc[t] = "in_discover" /\ loc[t] \in Locs
      /\ UNCHANGED <<mem, disk, handlerLock, vouched, acked, faults>>
  BY DEF Inv, Discover, TypeOK, bounds
<1>2. /\ loc[t].call = "ingest" /\ loc[t].ok = FALSE /\ disk \in Tables /\ loc[t].source \in Sources
  BY <1>1 DEF Shape, TypeOK, Locs
<1>3. /\ pc[t] \notin Resting /\ pc[t] \notin Asserting \union {"rg_disk", "in_disk"}
      /\ {"done", "log"} \subseteq Pcs
  BY <1>1 DEF Resting, Asserting, Pcs
<1>4. CASE \E l \in Lists : Take(t, loc[t], l, DOMAIN l)
  BY <1>1, <1>2, <1>4, StepTake
<1>5. CASE Goto(t, "done")
  <2>1. Become(t, "done", loc[t]) /\ pc'[t] = "done" /\ loc'[t] = loc[t]
    BY <1>1, <1>5 DEF Goto, Become, TypeOK
  <2>2. Shape(t)'
    BY <1>1, <1>2, <2>1 DEF Shape, Ingesting, Asserting
  <2>3. Work(t)'
    BY <1>2, <2>1 DEF Work, Ingesting, Asserting
  <2>4. QED BY <1>1, <1>2, <1>3, <2>1, <2>2, <2>3, QuietStep
<1>6. CASE Become(t, "log", [loc[t] EXCEPT
              !.log = <<AuditRec("ingest", loc[t].source, {}, FALSE)>>])
  <2>1. PICK rec : rec = AuditRec("ingest", loc[t].source, {}, FALSE)
    OBVIOUS
  <2>2. rec \in AuditRecs
    BY <1>2, <2>1 DEF AuditRec, AuditRecs
  <2>3. PICK log \in Seq(AuditRecs) : log = <<rec>> /\ log # <<>>
    BY <2>2, OneRecord
  <2>4. Become(t, "log", [loc[t] EXCEPT !.log = log])
    BY <1>6, <2>1, <2>3
  <2>5. /\ Shape(t)' /\ pc'[t] = "log" /\ loc'[t] \in Locs /\ loc'[t].call = "ingest"
        /\ loc'[t].ok = FALSE
    BY <1>1, <1>2, <2>3, <2>4, RecordShape
  <2>6. Work(t)'
    BY <2>5 DEF Work, Ingesting, Asserting
  <2>7. PICK l \in Locs : l = [loc[t] EXCEPT !.log = log]
    BY <1>1, <2>3, Recorded
  <2>8. QED BY <1>1, <1>2, <1>3, <2>4, <2>5, <2>6, <2>7, QuietStep
<1>7. QED BY <1>4, <1>5, <1>6 DEF Discover

-----------------------------------------------------------------------------
(* register_source *)

LEMMA StepRegisterMem == ASSUME Inv, NEW t \in Threads, RegisterMem(t) PROVE Inv'
<1>1. /\ TypeOK /\ Shape(t) /\ pc[t] = "rg_mem" /\ loc[t] \in Locs /\ Ahead /\ Rows
      /\ UNCHANGED <<tools, evidence, disk, handlerLock, vouched, acked, faults>>
      /\ sources' = [sources EXCEPT ![loc[t].source] = loc[t].request]
      /\ Become(t, "rg_disk", loc[t])
  BY DEF Inv, RegisterMem, TypeOK, bounds, Rows, Goto
<1>2. /\ loc[t].source \in Sources /\ loc[t].call = "register" /\ loc[t].request \in Source
      /\ loc[t].ok = FALSE
  BY <1>1 DEF Shape, Locs
<1>3. pc'[t] = "rg_disk" /\ loc'[t] = loc[t]
  BY <1>1 DEF Become, TypeOK
<1>4. /\ sources' \in [Sources -> Source \union {None}]
      /\ sources'[loc[t].source] = loc[t].request
      /\ \A s \in Sources : s # loc[t].source => sources'[s] = sources[s]
  BY <1>1, <1>2 DEF TypeOK
<1>5. Shape(t)'
  BY <1>1, <1>2, <1>3 DEF Shape, Ingesting, Asserting
<1>6. Work(t)'
  BY <1>2, <1>3, <1>4 DEF Work, Ingesting, Asserting
<1>7. pc[t] \notin Resting /\ "rg_disk" \in Pcs /\ pc[t] \notin Asserting
  BY <1>1 DEF Resting, Pcs, Asserting
<1>8. SyncBy(t)
  BY <1>7, SyncOne DEF Inv
<1>9. SyncBy(t)'
  BY <1>1, <1>3, <1>4, <1>7, <1>8 DEF SyncBy, Same
<1>10. Ahead' /\ Rows'
  BY <1>1, SameAhead, SameRows
<1>11. QED BY <1>1, <1>4, <1>5, <1>6, <1>7, <1>9, <1>10, Assembled DEF TypeOK

LEMMA StepRegisterDisk == ASSUME Inv, NEW t \in Threads, RegisterDisk(t) PROVE Inv'
<1>1. /\ TypeOK /\ Shape(t) /\ Work(t) /\ pc[t] = "rg_disk" /\ loc[t] \in Locs /\ Ahead /\ Rows
      /\ UNCHANGED <<sources, tools, evidence, handlerLock, vouched, acked, faults>>
      /\ disk \in Tables /\ disk' = [disk EXCEPT !.sources[loc[t].source] = loc[t].request]
  BY DEF Inv, RegisterDisk, Commit, TypeOK, bounds, mem, Rows
<1>2. /\ loc[t].source \in Sources /\ loc[t].call = "register" /\ loc[t].request \in Source
      /\ sources[loc[t].source] = loc[t].request
  BY <1>1 DEF Shape, Work
<1>3. PICK rec : rec = AuditRec("source", loc[t].source, loc[t].request.declares, TRUE)
  OBVIOUS
<1>4. loc[t].request.declares \in SUBSET Names
  BY <1>2, ConstantsAssumption DEF Source
<1>5. rec \in AuditRecs
  BY <1>2, <1>3, <1>4 DEF AuditRec, AuditRecs
<1>6. PICK log \in Seq(AuditRecs) : log = <<rec>> /\ log # <<>>
  BY <1>5, OneRecord
<1>7. Become(t, "log", [loc[t] EXCEPT !.log = log])
  BY <1>3, <1>6 DEF RegisterDisk, Commit
<1>8. /\ Shape(t)' /\ pc'[t] = "log" /\ loc'[t].call = "register" /\ loc'[t].ok = FALSE
  BY <1>1, <1>2, <1>6, <1>7, RecordShape
<1>9. Work(t)'
  BY <1>8 DEF Work, Ingesting, Asserting
<1>10. PICK l \in Locs : l = [loc[t] EXCEPT !.log = log]
  BY <1>1, <1>6, Recorded
<1>11. /\ disk' \in Tables
       /\ disk'.sources = [disk.sources EXCEPT ![loc[t].source] = loc[t].request]
       /\ disk'.tools = disk.tools /\ disk'.evidence = disk.evidence
       /\ disk'.discoveries = disk.discoveries
  <2>1. PICK d \in Tables : d = disk
    BY <1>1
  <2>2. PICK s \in Sources : s = loc[t].source
    BY <1>2
  <2>3. PICK v \in Source : v = loc[t].request
    BY <1>2
  <2>4. PICK f \in [Sources -> Source \union {None}] : f = [d.sources EXCEPT ![s] = v]
    BY DEF Tables
  <2>5. disk' = [d EXCEPT !.sources = f]
    BY <1>1, <2>1, <2>2, <2>3, <2>4
  <2>6. QED BY <2>1, <2>2, <2>3, <2>4, <2>5, WriteSource
<1>12. pc[t] \notin Resting /\ "log" \in Pcs /\ pc[t] \notin Asserting
  BY <1>1 DEF Resting, Pcs, Asserting
<1>13. SyncBy(t)
  BY <1>12, SyncOne DEF Inv
<1>14. disk.sources \in [Sources -> Source \union {None}]
  BY <1>1 DEF Tables
<1>15. SyncBy(t)'
  BY <1>1, <1>2, <1>8, <1>11, <1>12, <1>13, <1>14 DEF SyncBy, Same
<1>16. Ahead' /\ Rows'
  BY <1>1, <1>11, SameAhead, SameRows
<1>17. QED BY <1>1, <1>7, <1>8, <1>9, <1>10, <1>11, <1>12, <1>15, <1>16, Assembled DEF TypeOK

-----------------------------------------------------------------------------
(* ingest *)

LEMMA StepIngestMem == ASSUME Inv, NEW t \in Threads, IngestMem(t) PROVE Inv'
<1>1. /\ TypeOK /\ Shape(t) /\ Work(t) /\ pc[t] = "in_mem" /\ loc[t] \in Locs /\ Ahead /\ Rows
      /\ UNCHANGED <<sources, evidence, disk, handlerLock, vouched, acked, faults>>
  BY DEF Inv, IngestMem, TypeOK, bounds, Rows
<1>2. PICK m \in loc[t].todo :
         /\ tools' = [tools EXCEPT ![<<loc[t].source, m>>] =
                        Ingested(evidence[<<loc[t].source, m>>], loc[t].request[m])]
         /\ Become(t, "in_disk", [loc[t] EXCEPT !.name = m])
  BY DEF IngestMem
<1>3. /\ loc[t].source \in Sources /\ loc[t].call \in {"ingest", "push"}
      /\ loc[t].request \in Lists /\ loc[t].todo \subseteq DOMAIN loc[t].request
      /\ loc[t].ok = FALSE
  BY <1>1 DEF Shape, Ingesting, Locs
<1>4. m \in Names /\ loc[t].request[m] \in [claim : Claims, schema : Schemas]
  BY <1>2, <1>3, ConstantsAssumption
<1>5. PICK x \in ToolIds : x = <<loc[t].source, m>>
  BY <1>3, <1>4 DEF ToolIds
<1>6. PICK new \in Tool : new = Ingested(evidence[x], loc[t].request[m])
  BY <1>1, <1>4, <1>5, IngestedType DEF TypeOK
<1>7. /\ new # None
      /\ new.asserted = IF evidence[x] # None /\ evidence[x].fingerprint = new.claim
                        THEN evidence[x].desc ELSE None
  BY <1>1, <1>4, <1>5, <1>6, IngestedType DEF TypeOK
<1>8. /\ tools' \in [ToolIds -> Tool \union {None}] /\ tools'[x] = new
      /\ \A y \in ToolIds : y # x => tools'[y] = tools[y]
  BY <1>1, <1>2, <1>5, <1>6 DEF TypeOK
<1>9. PICK l : l = [loc[t] EXCEPT !.name = m]
  OBVIOUS
<1>10. /\ l.call = loc[t].call /\ l.source = loc[t].source /\ l.name = m
       /\ l.request = loc[t].request /\ l.todo = loc[t].todo /\ l.ok = FALSE
  BY <1>1, <1>3, <1>9 DEF Locs
<1>11. l \in Locs
  BY <1>1, <1>4, <1>9 DEF Locs
<1>12. pc'[t] = "in_disk" /\ loc'[t] = l
  BY <1>1, <1>2, <1>9 DEF Become, TypeOK
<1>13. Shape(t)'
  BY <1>1, <1>2, <1>3, <1>10, <1>12 DEF Shape, Ingesting, Asserting
<1>14. Work(t)'
  BY <1>1, <1>3, <1>5, <1>7, <1>8, <1>10, <1>12 DEF Work, Target, Ingesting, Asserting
<1>15. pc[t] \notin Resting /\ "in_disk" \in Pcs /\ pc[t] \notin Asserting
  BY <1>1 DEF Resting, Pcs, Asserting, Ingesting
<1>16. SyncBy(t)
  BY <1>15, SyncOne DEF Inv
<1>17. SyncBy(t)'
  BY <1>1, <1>5, <1>8, <1>10, <1>12, <1>15, <1>16 DEF SyncBy, Same, Target
<1>18. Ahead'
  BY <1>1, <1>7, <1>8 DEF Ahead
<1>19. Rows'
  BY <1>1, <1>7, <1>8 DEF Rows, Derived, Witnessed
<1>20. QED
  BY <1>1, <1>2, <1>8, <1>9, <1>11, <1>13, <1>14, <1>15, <1>17, <1>18, <1>19, Assembled DEF TypeOK

\* The row of a tool is written as it stands in memory.
LEMMA ToolWritten ==
    ASSUME TypeOK, Ahead, Rows, NEW t \in Threads, NEW x \in ToolIds, tools[x] # None,
           SyncBy(t), pc[t] = "in_disk" => Target(t) = x, pc[t] # "rg_disk",
           disk' = [disk EXCEPT !.tools[x] = tools[x]],
           UNCHANGED <<sources, tools, evidence, vouched, acked, faults>>,
           pc[t] \in Asserting => pc'[t] \in Asserting /\ loc'[t] = loc[t]
    PROVE  /\ disk' \in Tables /\ disk'.evidence = disk.evidence
           /\ disk'.tools[x] # None
           /\ \A y \in ToolIds : disk.tools[y] # None => disk'.tools[y] # None
           /\ Ahead' /\ Rows' /\ SyncBy(t)'
<1>1. disk \in Tables /\ tools[x] \in Tool /\ disk.tools \in [ToolIds -> Tool \union {None}]
  BY DEF TypeOK, Tables
<1>2. /\ disk' \in Tables /\ disk'.tools = [disk.tools EXCEPT ![x] = tools[x]]
      /\ disk'.sources = disk.sources /\ disk'.evidence = disk.evidence
      /\ disk'.discoveries = disk.discoveries
  <2>1. PICK d \in Tables : d = disk
    BY <1>1
  <2>2. PICK v \in Tool : v = tools[x]
    BY <1>1
  <2>3. PICK f \in [ToolIds -> Tool \union {None}] : f = [d.tools EXCEPT ![x] = v]
    BY DEF Tables
  <2>4. disk' = [d EXCEPT !.tools = f]
    BY <2>1, <2>2, <2>3
  <2>5. QED BY <2>1, <2>2, <2>3, <2>4, WriteTool
<1>3. /\ disk'.tools[x] = tools[x]
      /\ \A y \in ToolIds : y # x => disk'.tools[y] = disk.tools[y]
  BY <1>1, <1>2
<1>4. Rows'
  BY <1>2, SameRows
<1>5. disk.discoveries \in [Sources -> (SUBSET Names) \union {None}]
  BY <1>1 DEF Tables
<1>6. ASSUME NEW s \in Sources, disk.discoveries[s] # None, NEW m \in disk.discoveries[s]
      PROVE  disk'.tools[<<s, m>>] # None
  <2>1. m \in Names
    BY <1>5, <1>6
  <2>2. <<s, m>> \in ToolIds
    BY <2>1 DEF ToolIds
  <2>3. disk.tools[<<s, m>>] # None
    BY <1>6 DEF Ahead
  <2>4. QED BY <1>3, <2>2, <2>3
<1>7. Ahead'
  BY <1>2, <1>3, <1>6 DEF Ahead
<1>8. SyncBy(t)'
  BY <1>2, <1>3 DEF SyncBy, Same, Target
<1>9. QED BY <1>2, <1>3, <1>4, <1>7, <1>8

LEMMA StepIngestDisk == ASSUME Inv, NEW t \in Threads, IngestDisk(t) PROVE Inv'
<1>1. /\ TypeOK /\ Shape(t) /\ Work(t) /\ pc[t] = "in_disk" /\ loc[t] \in Locs /\ Ahead /\ Rows
      /\ UNCHANGED <<sources, tools, evidence, handlerLock, vouched, acked, faults>>
      /\ disk' = [disk EXCEPT !.tools[Target(t)] = tools[Target(t)]]
  BY DEF Inv, IngestDisk, TypeOK, bounds, mem, Rows, Target
<1>2. /\ loc[t].source \in Sources /\ loc[t].call \in {"ingest", "push"}
      /\ loc[t].request \in Lists /\ loc[t].todo \subseteq DOMAIN loc[t].request
      /\ loc[t].name \in loc[t].todo /\ loc[t].ok = FALSE
  BY <1>1 DEF Shape, Ingesting, Locs
<1>3. DOMAIN loc[t].request \subseteq Names
  BY <1>2, ConstantsAssumption
<1>4. PICK x \in ToolIds : x = Target(t)
  BY <1>2, <1>3 DEF ToolIds, Target
<1>5. /\ tools[x] # None /\ pc[t] \notin Resting /\ pc[t] \notin Asserting
  BY <1>1, <1>4 DEF Work, Resting, Asserting
<1>6. SyncBy(t)
  BY <1>5, SyncOne DEF Inv
<1>7. /\ disk' \in Tables /\ disk'.tools[x] # None
      /\ \A y \in ToolIds : disk.tools[y] # None => disk'.tools[y] # None
      /\ Ahead' /\ Rows' /\ SyncBy(t)'
  BY <1>1, <1>4, <1>5, <1>6, ToolWritten
<1>8. PICK todo \in SUBSET Names : todo = loc[t].todo \ {loc[t].name}
  BY <1>2, <1>3
<1>9. PICK label \in {"in_seen", "in_mem"} : label = IF todo = {} THEN "in_seen" ELSE "in_mem"
  OBVIOUS
<1>10. PICK l : l = [loc[t] EXCEPT !.request = loc[t].request, !.todo = todo]
  OBVIOUS
<1>11. /\ l.call = loc[t].call /\ l.source = loc[t].source /\ l.request = loc[t].request
       /\ l.todo = todo /\ l.ok = FALSE
  BY <1>1, <1>2, <1>10 DEF Locs
<1>12. l \in Locs
  BY <1>1, <1>10 DEF Locs
<1>13. Become(t, label, l)
  BY <1>8, <1>9, <1>10 DEF IngestDisk, Take
<1>14. pc'[t] = label /\ loc'[t] = l
  BY <1>1, <1>13 DEF Become, TypeOK
<1>15. Shape(t)'
  BY <1>1, <1>2, <1>8, <1>9, <1>11, <1>14 DEF Shape, Ingesting, Asserting
<1>16. ASSUME NEW m \in DOMAIN loc[t].request \ todo
       PROVE  disk'.tools[<<loc[t].source, m>>] # None
  <2>1. CASE m = loc[t].name
    BY <1>4, <1>7, <2>1 DEF Target
  <2>2. CASE m # loc[t].name
    <3>1. disk.tools[<<loc[t].source, m>>] # None
      BY <1>1, <1>8, <1>16, <2>2 DEF Work, Ingesting
    <3>2. <<loc[t].source, m>> \in ToolIds
      BY <1>2, <1>3, <1>16 DEF ToolIds
    <3>3. QED BY <1>7, <3>1, <3>2
  <2>3. QED BY <2>1, <2>2
<1>17. Work(t)'
  BY <1>2, <1>9, <1>11, <1>14, <1>16 DEF Work, Ingesting, Asserting
<1>18. label \in Pcs
  BY <1>9 DEF Pcs, Ingesting
<1>19. QED BY <1>1, <1>5, <1>7, <1>12, <1>13, <1>15, <1>17, <1>18, Assembled DEF TypeOK

LEMMA StepIngestSeen == ASSUME Inv, NEW t \in Threads, IngestSeen(t) PROVE Inv'
<1>1. /\ TypeOK /\ Shape(t) /\ Work(t) /\ pc[t] = "in_seen" /\ loc[t] \in Locs /\ Ahead /\ Rows
      /\ UNCHANGED <<sources, tools, evidence, handlerLock, vouched, acked, faults>>
      /\ disk \in Tables
      /\ disk' = [disk EXCEPT !.discoveries[loc[t].source] = DOMAIN loc[t].request]
  BY DEF Inv, IngestSeen, Commit, TypeOK, bounds, mem, Rows
<1>2. /\ loc[t].source \in Sources /\ loc[t].call \in {"ingest", "push"}
      /\ loc[t].request \in Lists /\ loc[t].todo = {}
  BY <1>1 DEF Shape, Ingesting
<1>3. PICK s \in Sources : s = loc[t].source
  BY <1>2
<1>4. PICK seen \in SUBSET Names : seen = DOMAIN loc[t].request
  BY <1>2, ConstantsAssumption
<1>5. /\ AuditRec("ingest", s, seen, TRUE) \in AuditRecs
      /\ AuditRec("drift", s, {}, TRUE) \in AuditRecs
  BY DEF AuditRec, AuditRecs
<1>6. PICK done \in AuditRecs : done = AuditRec("ingest", s, seen, TRUE)
  BY <1>5
<1>7. PICK drift \in AuditRecs : drift = AuditRec("drift", s, {}, TRUE)
  BY <1>5
<1>8. <<done, drift>> \in Seq(AuditRecs) /\ <<done, drift>> # <<>>
  OBVIOUS
<1>9. PICK log \in Seq(AuditRecs) :
         /\ log # <<>>
         /\ log = IF loc[t].call = "ingest" THEN <<done, drift>> ELSE <<done>>
  BY <1>8, OneRecord
<1>10. Become(t, "log", [loc[t] EXCEPT !.log = log])
  BY <1>3, <1>4, <1>6, <1>7, <1>9 DEF IngestSeen, Commit
<1>11. /\ Shape(t)' /\ pc'[t] = "log" /\ loc'[t].call \in {"ingest", "push"}
       /\ loc'[t].ok = FALSE
  BY <1>1, <1>2, <1>9, <1>10, RecordShape
<1>12. Work(t)'
  BY <1>11 DEF Work, Ingesting, Asserting
<1>13. PICK l \in Locs : l = [loc[t] EXCEPT !.log = log]
  BY <1>1, <1>9, Recorded
<1>14. /\ disk' \in Tables /\ disk'.discoveries = [disk.discoveries EXCEPT ![s] = seen]
       /\ disk'.sources = disk.sources /\ disk'.tools = disk.tools
       /\ disk'.evidence = disk.evidence
  <2>1. PICK d \in Tables : d = disk
    BY <1>1
  <2>2. PICK f \in [Sources -> (SUBSET Names) \union {None}] :
           f = [d.discoveries EXCEPT ![s] = seen]
    BY DEF Tables
  <2>3. disk' = [d EXCEPT !.discoveries = f]
    BY <1>1, <1>3, <1>4, <2>1, <2>2
  <2>4. QED BY <2>1, <2>2, <2>3, WriteSeen
<1>15. /\ pc[t] \notin Resting /\ "log" \in Pcs
       /\ pc[t] \notin Asserting \union {"rg_disk", "in_disk"}
  BY <1>1 DEF Resting, Pcs, Asserting
<1>16. SyncBy(t)
  BY <1>15, SyncOne DEF Inv
<1>17. SyncBy(t)'
  BY <1>1, <1>14, <1>15, <1>16, SameSync DEF mem
<1>18. Rows'
  BY <1>1, <1>14, SameRows
<1>19. \A m \in seen : disk.tools[<<s, m>>] # None
  BY <1>1, <1>2, <1>3, <1>4 DEF Work, Ingesting
<1>20. /\ disk'.discoveries[s] = seen
       /\ \A r \in Sources : r # s => disk'.discoveries[r] = disk.discoveries[r]
  BY <1>1, <1>14 DEF Tables
<1>21. Ahead'
  BY <1>1, <1>14, <1>19, <1>20 DEF Ahead
<1>22. QED
  BY <1>1, <1>10, <1>11, <1>12, <1>13, <1>14, <1>15, <1>17, <1>18, <1>21, Assembled DEF TypeOK

-----------------------------------------------------------------------------
(* assert_tool *)

LEMMA StepAssertMem == ASSUME Inv, NEW t \in Threads, AssertMem(t) PROVE Inv'
<1>1. /\ TypeOK /\ Shape(t) /\ Work(t) /\ pc[t] = "as_mem" /\ loc[t] \in Locs /\ Ahead /\ Rows
      /\ UNCHANGED <<sources, disk, handlerLock, acked, faults>>
  BY DEF Inv, AssertMem, TypeOK, bounds, Rows
<1>2. /\ loc[t].source \in Sources /\ loc[t].call = "assert" /\ loc[t].name \in Names
      /\ loc[t].request \in Descriptors /\ loc[t].ok = FALSE
  BY <1>1 DEF Shape, Asserting, Locs
<1>3. PICK x \in ToolIds : x = Target(t)
  BY <1>2 DEF Target, ToolIds
<1>4. /\ pc[t] \notin Resting /\ {"done", "as_tool"} \subseteq Pcs
      /\ pc[t] \notin Asserting \union {"rg_disk", "in_disk"}
  BY <1>1 DEF Resting, Pcs, Asserting
<1>5. SyncBy(t)
  BY <1>4, SyncOne DEF Inv
<1>6. CASE UNCHANGED <<tools, evidence, vouched>> /\ Goto(t, "done")
  <2>1. Become(t, "done", loc[t])
    BY <1>6 DEF Goto
  <2>2. pc'[t] = "done" /\ loc'[t] = loc[t]
    BY <1>1, <2>1 DEF Become, TypeOK
  <2>3. Shape(t)'
    BY <1>1, <1>2, <2>2 DEF Shape, Ingesting, Asserting
  <2>4. Work(t)'
    BY <1>2, <2>2 DEF Work, Ingesting, Asserting
  <2>5. disk \in Tables
    BY <1>1 DEF TypeOK
  <2>6. QED BY <1>1, <1>4, <1>6, <2>1, <2>3, <2>4, <2>5, QuietStep DEF mem
<1>7. CASE /\ tools[x] # None
           /\ tools' = [tools EXCEPT ![x].asserted = loc[t].request]
           /\ evidence' = [evidence EXCEPT ![x] =
                 [desc |-> loc[t].request, fingerprint |-> Fingerprint(tools[x])]]
           /\ vouched' = vouched \union {<<x, tools[x].claim, loc[t].request>>}
           /\ Goto(t, "as_tool")
  <2>1. Become(t, "as_tool", loc[t])
    BY <1>7 DEF Goto
  <2>2. pc'[t] = "as_tool" /\ loc'[t] = loc[t]
    BY <1>1, <2>1 DEF Become, TypeOK
  <2>3. PICK old \in Tool : old = tools[x]
    BY <1>1, <1>7 DEF TypeOK
  <2>4. PICK d \in Descriptors : d = loc[t].request
    BY <1>2
  <2>5. PICK new : new = [old EXCEPT !.asserted = d]
    OBVIOUS
  <2>6. new \in Tool /\ new.claim = old.claim /\ new.schema = old.schema /\ new.asserted = d
    BY <2>5 DEF Tool
  <2>7. PICK row : row = [desc |-> d, fingerprint |-> old.claim]
    OBVIOUS
  <2>8. row \in Evidence /\ row.desc = d /\ row.fingerprint = old.claim
    BY <2>7 DEF Evidence, Tool
  <2>9. /\ tools' \in [ToolIds -> Tool \union {None}] /\ tools'[x] = new
        /\ \A y \in ToolIds : y # x => tools'[y] = tools[y]
    BY <1>1, <1>7, <2>3, <2>4, <2>5, <2>6 DEF TypeOK
  <2>10. evidence' = [evidence EXCEPT ![x] = row]
    BY <1>7, <2>3, <2>4, <2>7 DEF Fingerprint
  <2>11. /\ evidence' \in [ToolIds -> Evidence \union {None}] /\ evidence'[x] = row
         /\ \A y \in ToolIds : y # x => evidence'[y] = evidence[y]
    BY <1>1, <2>8, <2>10 DEF TypeOK
  <2>12. row # None /\ new # None /\ <<x, old.claim, d>> \in vouched' /\ vouched \subseteq vouched'
    BY <1>7, <2>3, <2>4, <2>6, <2>8, NoneAssumption
  <2>13. Shape(t)'
    BY <1>1, <1>2, <2>2 DEF Shape, Ingesting, Asserting
  <2>14. Work(t)'
    BY <1>2, <1>3, <2>2, <2>9, <2>11, <2>12 DEF Work, Target, Ingesting, Asserting
  <2>15. "as_tool" \in Asserting /\ Target(t)' = x
    BY <1>3, <2>2 DEF Asserting, Target
  <2>16. SyncBy(t)'
    BY <1>1, <1>4, <1>5, <2>2, <2>3, <2>6, <2>9, <2>11, <2>12, <2>15, <1>7 DEF SyncBy, Same
  <2>17. Ahead'
    BY <1>1, <2>9, <2>11, <2>12 DEF Ahead
  <2>18. Rows'
    <3>1. SUFFICES ASSUME NEW y \in ToolIds PROVE Derived(y)' /\ Witnessed(y)'
      BY DEF Rows
    <3>2. Derived(y) /\ Witnessed(y)
      BY <1>1 DEF Rows
    <3>3. Derived(y)'
      BY <2>6, <2>8, <2>9, <2>11, <2>12, <3>2 DEF Derived
    <3>4. Witnessed(y)'
      BY <1>1, <2>8, <2>11, <2>12, <3>2 DEF Witnessed
    <3>5. QED BY <3>3, <3>4
  <2>19. QED
    BY <1>1, <1>4, <2>1, <2>9, <2>11, <2>13, <2>14, <2>16, <2>17, <2>18, Assembled DEF TypeOK
<1>8. QED BY <1>3, <1>6, <1>7 DEF AssertMem, Target

LEMMA StepAssertTool == ASSUME Inv, NEW t \in Threads, AssertTool(t) PROVE Inv'
<1>1. /\ TypeOK /\ Shape(t) /\ Work(t) /\ pc[t] = "as_tool" /\ loc[t] \in Locs /\ Ahead /\ Rows
      /\ UNCHANGED <<sources, tools, evidence, handlerLock, vouched, acked, faults>>
      /\ disk' = [disk EXCEPT !.tools[Target(t)] = tools[Target(t)]]
      /\ Become(t, "as_evidence", loc[t])
  BY DEF Inv, AssertTool, Commit, TypeOK, bounds, mem, Rows, Target
<1>2. /\ loc[t].source \in Sources /\ loc[t].call = "assert" /\ loc[t].name \in Names
      /\ loc[t].ok = FALSE
  BY <1>1 DEF Shape, Asserting, Locs
<1>3. PICK x \in ToolIds : x = Target(t)
  BY <1>2 DEF Target, ToolIds
<1>4. pc'[t] = "as_evidence" /\ loc'[t] = loc[t]
  BY <1>1 DEF Become, TypeOK
<1>5. /\ tools[x] # None /\ evidence[x] # None /\ pc[t] \notin Resting
      /\ "as_evidence" \in Asserting /\ "as_evidence" \in Pcs
  BY <1>1, <1>3 DEF Work, Resting, Asserting, Pcs
<1>6. SyncBy(t)
  BY <1>5, SyncOne DEF Inv
<1>7. disk' \in Tables /\ Ahead' /\ Rows' /\ SyncBy(t)'
  BY <1>1, <1>3, <1>4, <1>5, <1>6, ToolWritten
<1>8. Shape(t)'
  BY <1>1, <1>4 DEF Shape, Ingesting, Asserting
<1>9. Work(t)'
  BY <1>1, <1>2, <1>3, <1>4, <1>5 DEF Work, Target, Ingesting, Asserting
<1>10. QED BY <1>1, <1>5, <1>7, <1>8, <1>9, Assembled DEF TypeOK

LEMMA StepAssertEvidence == ASSUME Inv, NEW t \in Threads, AssertEvidence(t) PROVE Inv'
<1>1. /\ TypeOK /\ Shape(t) /\ Work(t) /\ pc[t] = "as_evidence" /\ loc[t] \in Locs /\ Ahead
      /\ Rows /\ UNCHANGED <<sources, tools, evidence, handlerLock, vouched, acked, faults>>
      /\ disk \in Tables /\ disk' = [disk EXCEPT !.evidence[Target(t)] = evidence[Target(t)]]
  BY DEF Inv, AssertEvidence, Evidenced, Commit, TypeOK, bounds, mem, Rows, Target
<1>2. /\ loc[t].source \in Sources /\ loc[t].call = "assert" /\ loc[t].name \in Names
  BY <1>1 DEF Shape, Asserting
<1>3. PICK x \in ToolIds : x = Target(t)
  BY <1>2 DEF Target, ToolIds
<1>4. PICK row \in Evidence : row = evidence[x] /\ row # None
  BY <1>1, <1>3 DEF TypeOK, Work, Asserting
<1>5. PICK rec : rec = AuditRec("assertion", loc[t].source, {loc[t].name}, TRUE)
  OBVIOUS
<1>6. rec \in AuditRecs
  BY <1>2, <1>5 DEF AuditRec, AuditRecs
<1>7. PICK log \in Seq(AuditRecs) : log = <<rec>> /\ log # <<>>
  BY <1>6, OneRecord
<1>8. Become(t, "log", [loc[t] EXCEPT !.log = log])
  BY <1>5, <1>7 DEF AssertEvidence, Evidenced, Commit
<1>9. /\ Shape(t)' /\ pc'[t] = "log" /\ loc'[t].source = loc[t].source
      /\ loc'[t].name = loc[t].name
  BY <1>1, <1>7, <1>8, RecordShape
<1>10. PICK l \in Locs : l = [loc[t] EXCEPT !.log = log]
  BY <1>1, <1>7, Recorded
<1>11. /\ disk' \in Tables /\ disk'.evidence = [disk.evidence EXCEPT ![x] = row]
       /\ disk'.sources = disk.sources /\ disk'.tools = disk.tools
       /\ disk'.discoveries = disk.discoveries
  <2>1. PICK d \in Tables : d = disk
    BY <1>1
  <2>2. PICK f \in [ToolIds -> Evidence \union {None}] : f = [d.evidence EXCEPT ![x] = row]
    BY DEF Tables
  <2>3. disk' = [d EXCEPT !.evidence = f]
    BY <1>1, <1>3, <1>4, <2>1, <2>2
  <2>4. QED BY <2>1, <2>2, <2>3, WriteEvidence
<1>12. /\ disk'.evidence[x] = row
       /\ \A y \in ToolIds : y # x => disk'.evidence[y] = disk.evidence[y]
  BY <1>1, <1>11 DEF Tables
<1>13. Work(t)'
  BY <1>3, <1>4, <1>9, <1>12 DEF Work, Target, Ingesting, Asserting
<1>14. /\ pc[t] \notin Resting /\ "log" \in Pcs
  BY <1>1 DEF Resting, Pcs
<1>15. SyncBy(t)
  BY <1>14, SyncOne DEF Inv
<1>16. SyncBy(t)'
  BY <1>1, <1>3, <1>4, <1>11, <1>12, <1>15 DEF SyncBy, Same
<1>17. Ahead'
  BY <1>1, <1>4, <1>11, <1>12 DEF Ahead, TypeOK
<1>18. Rows'
  <2>1. SUFFICES ASSUME NEW y \in ToolIds PROVE Derived(y)' /\ Witnessed(y)'
    BY DEF Rows
  <2>2. Derived(y) /\ Witnessed(y)
    BY <1>1 DEF Rows
  <2>3. QED BY <1>1, <1>4, <1>12, <2>2 DEF Derived, Witnessed
<1>19. QED
  BY <1>1, <1>8, <1>9, <1>10, <1>11, <1>13, <1>14, <1>16, <1>17, <1>18, Assembled DEF TypeOK

-----------------------------------------------------------------------------
(* Restart *)

\* What a restart makes of a tool's row.
LEMMA Hydration ==
    ASSUME NEW row \in Tool \union {None}, NEW record \in Evidence \union {None},
           NEW tool, tool = Hydrated(row, record)
    PROVE  /\ tool \in Tool \union {None} /\ Same(tool, row)
           /\ tool # None => tool.asserted =
                 IF record # None /\ record.fingerprint = tool.claim THEN record.desc ELSE None
<1>1. CASE row = None
  BY <1>1 DEF Hydrated, Same
<1>2. CASE row # None
  <2>1. PICK offer : offer = [claim |-> row.claim, schema |-> row.schema]
    OBVIOUS
  <2>2. /\ offer.claim = row.claim /\ offer.schema = row.schema /\ row.claim \in Claims
        /\ row.schema \in Schemas
    BY <1>2, <2>1 DEF Tool
  <2>3. tool = Ingested(record, offer)
    BY <1>2, <2>1 DEF Hydrated
  <2>4. QED BY <1>2, <2>2, <2>3, IngestedType DEF Same
<1>3. QED BY <1>1, <1>2

LEMMA StepCrash == ASSUME Inv, Crash PROVE Inv'
<1>1. /\ TypeOK /\ Ahead /\ Rows /\ sources' = disk.sources /\ evidence' = disk.evidence
      /\ tools' = [x \in ToolIds |-> Hydrated(disk.tools[x], disk.evidence[x])]
      /\ handlerLock' = None /\ pc' = [t \in Threads |-> "idle"]
      /\ loc' = [t \in Threads |-> NoLoc] /\ UNCHANGED <<disk, vouched, acked, faults>>
  BY DEF Inv, Crash, Rows
<1>2. /\ disk.sources \in [Sources -> Source \union {None}]
      /\ disk.tools \in [ToolIds -> Tool \union {None}]
      /\ disk.evidence \in [ToolIds -> Evidence \union {None}]
  BY <1>1 DEF TypeOK, Tables
<1>3. ASSUME NEW x \in ToolIds
      PROVE  /\ tools'[x] \in Tool \union {None} /\ Same(tools'[x], disk.tools[x])
             /\ Derived(x)' /\ Witnessed(x)'
  <2>1. PICK row \in Tool \union {None} : row = disk.tools[x]
    BY <1>2
  <2>2. PICK record \in Evidence \union {None} : record = disk.evidence[x]
    BY <1>2
  <2>3. PICK tool : tool = Hydrated(row, record)
    OBVIOUS
  <2>4. tools'[x] = tool /\ evidence'[x] = record
    BY <1>1, <2>1, <2>2, <2>3
  <2>5. /\ tool \in Tool \union {None} /\ Same(tool, row)
        /\ tool # None => tool.asserted =
              IF record # None /\ record.fingerprint = tool.claim THEN record.desc ELSE None
    BY <2>3, Hydration
  <2>6. Derived(x)'
    BY <2>4, <2>5 DEF Derived
  <2>7. Witnessed(x)'
    BY <1>1, <2>2, <2>4 DEF Rows, Witnessed
  <2>8. QED BY <2>1, <2>4, <2>5, <2>6, <2>7
<1>4. /\ \A t \in Threads : pc'[t] = "idle" /\ loc'[t] = NoLoc
      /\ pc' \in [Threads -> Pcs] /\ loc' \in [Threads -> Locs]
      /\ NoLoc.ok = FALSE /\ NoLoc.call = "none"
  <2>1. NoLoc \in Locs /\ "idle" \in Pcs
    BY DEF NoLoc, Locs, Pcs, Resting
  <2>2. NoLoc.ok = FALSE /\ NoLoc.call = "none"
    BY DEF NoLoc
  <2>3. QED BY <1>1, <2>1, <2>2
<1>5. tools' \in [ToolIds -> Tool \union {None}]
  BY <1>1, <1>3
<1>6. TypeOK'
  BY <1>1, <1>2, <1>4, <1>5 DEF TypeOK
<1>7. Exclusive' /\ \A t \in Threads : Shape(t)' /\ Work(t)'
  <2>1. Exclusive'
    BY <1>4 DEF Exclusive, Resting
  <2>2. ASSUME NEW t \in Threads PROVE Shape(t)'
    BY <1>4 DEF Shape, Ingesting, Asserting
  <2>3. ASSUME NEW t \in Threads PROVE Work(t)'
    BY <1>4 DEF Work, Ingesting, Asserting
  <2>4. QED BY <2>1, <2>2, <2>3
<1>8. Ahead'
  BY <1>1, <1>3 DEF Ahead, Same
<1>9. Sync'
  BY <1>1, <1>3 DEF Sync
<1>10. QED BY <1>3, <1>6, <1>7, <1>8, <1>9 DEF Inv

-----------------------------------------------------------------------------
(* The invariant *)

LEMMA InvInit == Init => Inv
<1>1. SUFFICES ASSUME Init PROVE Inv
  OBVIOUS
<1>2. /\ disk.sources = sources /\ disk.tools = tools /\ disk.evidence = evidence
      /\ disk.discoveries = [s \in Sources |-> None] /\ disk.audit = <<>>
      /\ sources \in [Sources -> Source \union {None}]
      /\ tools \in [ToolIds -> Tool \union {None}]
      /\ evidence \in [ToolIds -> Evidence \union {None}]
  BY <1>1 DEF Init
<1>3. disk \in Tables
  <2>1. [s \in Sources |-> None] \in [Sources -> (SUBSET Names) \union {None}]
        /\ <<>> \in Seq(AuditRecs)
    OBVIOUS
  <2>2. QED BY <1>1, <1>2, <2>1 DEF Init, Tables
<1>4. NoLoc \in Locs /\ "idle" \in Pcs
  BY DEF NoLoc, Locs, Pcs, Resting
<1>5. NoLoc.ok = FALSE /\ NoLoc.call = "none"
  BY DEF NoLoc
<1>6. /\ \A t \in Threads : pc[t] = "idle" /\ loc[t] = NoLoc
      /\ \A x \in ToolIds : tools[x] = None /\ evidence[x] = None
      /\ acked = {} /\ faults = 0
  BY <1>1 DEF Init
<1>7. TypeOK
  BY <1>1, <1>2, <1>3, <1>4 DEF Init, TypeOK
<1>8. Exclusive
  BY <1>6 DEF Exclusive, Resting
<1>9. ASSUME NEW t \in Threads PROVE Shape(t) /\ Work(t)
  <2>1. Shape(t)
    BY <1>5, <1>6 DEF Shape, Ingesting, Asserting
  <2>2. Work(t)
    BY <1>5, <1>6 DEF Work, Ingesting, Asserting
  <2>3. QED BY <2>1, <2>2
<1>10. Ahead
  BY <1>2, <1>6 DEF Ahead
<1>11. ASSUME NEW x \in ToolIds PROVE Derived(x) /\ Witnessed(x)
  BY <1>2, <1>6 DEF Derived, Witnessed
<1>12. Sync
  BY <1>2 DEF Sync, Same
<1>13. QED BY <1>7, <1>8, <1>9, <1>10, <1>11, <1>12 DEF Inv

LEMMA InvStep == Inv /\ [Next]_vars => Inv'
<1>1. SUFFICES ASSUME Inv, [Next]_vars PROVE Inv'
  OBVIOUS
<1>2. CASE UNCHANGED vars
  <2>1. UNCHANGED <<sources, tools, evidence, disk, handlerLock, pc, loc, vouched, acked, faults>>
    BY <1>2 DEF vars
  <2>2. QED
    BY <1>1, <2>1 DEF Inv, TypeOK, Exclusive, Ahead, Sync, Same, Shape, Work, Target, Derived,
                      Witnessed
<1>3. CASE Crash
  BY <1>1, <1>3, StepCrash
<1>4. ASSUME NEW t \in Threads,
             CallRegister(t) \/ CallIngest(t) \/ CallIngestPayload(t) \/ CallAssert(t)
      PROVE  Inv'
  BY <1>1, <1>4, StepCall
<1>5. ASSUME NEW t \in Threads, Step(t) PROVE Inv'
  <2>1. CASE Enter(t) BY <1>1, <2>1, StepEnter
  <2>2. CASE Leave(t) BY <1>1, <2>2, StepLeave
  <2>3. CASE StoreFault(t) BY <1>1, <2>3, StepFault
  <2>4. CASE Log(t) BY <1>1, <2>4, StepLog
  <2>5. CASE RegisterMem(t) BY <1>1, <2>5, StepRegisterMem
  <2>6. CASE RegisterDisk(t) BY <1>1, <2>6, StepRegisterDisk
  <2>7. CASE IngestCheck(t) BY <1>1, <2>7, StepCheck
  <2>8. CASE Discover(t) BY <1>1, <2>8, StepDiscover
  <2>9. CASE IngestMem(t) BY <1>1, <2>9, StepIngestMem
  <2>10. CASE IngestDisk(t) BY <1>1, <2>10, StepIngestDisk
  <2>11. CASE IngestSeen(t) BY <1>1, <2>11, StepIngestSeen
  <2>12. CASE AssertMem(t) BY <1>1, <2>12, StepAssertMem
  <2>13. CASE AssertTool(t) BY <1>1, <2>13, StepAssertTool
  <2>14. CASE AssertEvidence(t) BY <1>1, <2>14, StepAssertEvidence
  <2>15. QED
    BY <1>5, <2>1, <2>2, <2>3, <2>4, <2>5, <2>6, <2>7, <2>8, <2>9, <2>10, <2>11, <2>12, <2>13,
       <2>14 DEF Step
<1>6. QED BY <1>1, <1>2, <1>3, <1>4, <1>5 DEF Next

LEMMA InvHolds == Spec => []Inv
<1>1. QED BY InvInit, InvStep, PTL DEF Spec

-----------------------------------------------------------------------------
(* What the catalog promises *)

\* Whatever is ingested again, rolled back, half written or hydrated, a tool counts as asserted
\* only with a descriptor an operator gave for exactly the claim the catalog now holds: its
\* assertion is what the evidence says of that claim, and the evidence is what the operator said.
THEOREM VouchedOnly == Spec => []OnlyVouchedClaimsAreAsserted
<1>1. ASSUME Inv PROVE OnlyVouchedClaimsAreAsserted
  <2>1. SUFFICES ASSUME NEW x \in ToolIds, tools[x] # None, tools[x].asserted # None
                 PROVE  <<x, tools[x].claim, tools[x].asserted>> \in vouched
    BY DEF OnlyVouchedClaimsAreAsserted
  <2>2. Derived(x) /\ Witnessed(x)
    BY <1>1 DEF Inv
  <2>3. /\ evidence[x] # None /\ evidence[x].fingerprint = tools[x].claim
        /\ evidence[x].desc = tools[x].asserted
    BY <2>1, <2>2 DEF Derived
  <2>4. QED BY <2>2, <2>3 DEF Witnessed
<1>2. QED BY InvHolds, <1>1, PTL

\* An assertion answered with 200 is never "never asserted" again, whatever crashes and whichever
\* writes fail: it was acknowledged after its evidence was committed, and nothing removes evidence.
THEOREM AcknowledgedIsKept == Spec => []AckedAssertionIsNeverForgotten
<1>1. Inv => AckedAssertionIsNeverForgotten
  BY DEF Inv, Ahead, TypeOK, AckedAssertionIsNeverForgotten, Status
<1>2. QED BY InvHolds, <1>1, PTL

\* Between two handlers, and unless a write has raised, a restart loads exactly the catalog that
\* is in memory: the handler at work is the only one that owes the tables anything.
THEOREM RestartLosesNothing == Spec => []RestartContinues
<1>1. ASSUME Inv, Quiet, faults = 0
      PROVE  /\ sources = disk.sources /\ evidence = disk.evidence
             /\ tools = [x \in ToolIds |-> Hydrated(disk.tools[x], disk.evidence[x])]
  <2>1. TypeOK /\ Sync /\ disk \in Tables
    BY <1>1 DEF Inv, TypeOK
  <2>2. /\ \A s \in Sources : sources[s] = disk.sources[s]
        /\ \A x \in ToolIds : evidence[x] = disk.evidence[x]
        /\ \A x \in ToolIds : Same(tools[x], disk.tools[x])
    BY <1>1, <2>1 DEF Sync, Quiet, Asserting
  <2>3. sources = disk.sources /\ evidence = disk.evidence
    BY <2>1, <2>2 DEF TypeOK, Tables
  <2>4. ASSUME NEW x \in ToolIds PROVE tools[x] = Hydrated(disk.tools[x], disk.evidence[x])
    <3>1. CASE tools[x] = None
      BY <2>2, <3>1 DEF Same, Hydrated
    <3>2. CASE tools[x] # None
      <4>1. PICK tool \in Tool : tool = tools[x]
        BY <2>1, <3>2 DEF TypeOK
      <4>2. PICK record \in Evidence \union {None} : record = disk.evidence[x]
        BY <2>1 DEF Tables
      <4>3. /\ disk.tools[x] # None /\ disk.tools[x].claim = tool.claim
            /\ disk.tools[x].schema = tool.schema
        BY <2>2, <3>2, <4>1 DEF Same
      <4>4. tool.asserted = IF record # None /\ record.fingerprint = tool.claim
                            THEN record.desc ELSE None
        BY <1>1, <2>2, <3>2, <4>1, <4>2 DEF Inv, Derived
      <4>5. QED BY <4>1, <4>2, <4>3, <4>4, Rehydrated
    <3>3. QED BY <3>1, <3>2
  <2>5. QED BY <2>1, <2>3, <2>4 DEF TypeOK
<1>2. QED BY InvHolds, <1>1, PTL DEF RestartContinues

\* With no call under way, the discovered tools that invocable() refuses are exactly those that
\* drift() reports as never asserted or as redefined, or all of them when the tier is too low: a
\* discovered tool is in the catalog, and it is unasserted only if its evidence is missing or
\* is about another claim.  (The argument never uses Quiet: drift() is right mid-call too.)
THEOREM DriftIsComplete == Spec => []DriftExplainsEveryBlockedTool
<1>1. ASSUME Inv PROVE DriftExplainsEveryBlockedTool
  <2>1. SUFFICES ASSUME NEW s \in Sources, disk.discoveries[s] # None, sources[s] # None
                 PROVE  {m \in disk.discoveries[s] : ~Invocable(<<s, m>>)}
                          = IF sources[s].tier \in InvocableTiers
                            THEN Unasserted(s) \union Redefined(s) ELSE disk.discoveries[s]
    BY DEF DriftExplainsEveryBlockedTool
  <2>2. ASSUME NEW m \in disk.discoveries[s]
        PROVE  /\ tools[<<s, m>>] # None /\ <<s, m>>[1] = s
               /\ evidence[<<s, m>>] = None => tools[<<s, m>>].asserted = None
    <3>1. disk \in Tables /\ Ahead
      BY <1>1 DEF Inv, TypeOK
    <3>2. m \in Names
      BY <2>1, <2>2, <3>1 DEF Tables
    <3>3. PICK x \in ToolIds : x = <<s, m>>
      BY <3>2 DEF ToolIds
    <3>4. disk.tools[x] # None
      BY <2>1, <2>2, <3>1, <3>3 DEF Ahead
    <3>5. tools[x] # None
      BY <3>1, <3>4 DEF Ahead
    <3>6. Derived(x)
      BY <1>1 DEF Inv
    <3>7. QED BY <3>3, <3>5, <3>6 DEF Derived
  <2>3. CASE sources[s].tier \notin InvocableTiers
    BY <2>2, <2>3 DEF Invocable
  <2>4. CASE sources[s].tier \in InvocableTiers
    <3>1. ASSUME NEW m \in disk.discoveries[s]
          PROVE  ~Invocable(<<s, m>>) <=> m \in Unasserted(s) \union Redefined(s)
      BY <2>2, <2>4, <3>1 DEF Invocable, Unasserted, Redefined, Status
    <3>2. Unasserted(s) \union Redefined(s) \subseteq disk.discoveries[s]
      BY DEF Unasserted, Redefined
    <3>3. QED BY <2>4, <3>1, <3>2
  <2>5. QED BY <2>3, <2>4
<1>2. QED BY InvHolds, <1>1, PTL
=============================================================================
