------------------------------ MODULE Catalog ------------------------------
(***************************************************************************)
(* The tool catalog of ToolConnectService: the in-memory Catalog that      *)
(* answers every governance question, the SQLite tables it is written      *)
(* through to, and its hydration after a restart.                          *)
(*                                                                         *)
(* A request handler changes the memory first and the tables afterwards,   *)
(* one small transaction per table, then appends its audit records.  The   *)
(* HTTP server runs one handler at a time (handlerLock); a crash, or a     *)
(* transaction that raises, may fall between any two of its steps.         *)
(*                                                                         *)
(* A claim stands for the pair (version, ClaimedMetadata) that a server    *)
(* announces for a tool; _fingerprint is one-to-one on it.  The declared   *)
(* input schema is kept apart because the fingerprint does not cover it.   *)
(***************************************************************************)
EXTENDS Naturals, Sequences

CONSTANTS
    Threads,      \* request handlers of the HTTP server
    Sources, Names,
    Claims,       \* what a server may announce of one tool
    Schemas,      \* declared input schemas
    CoherentSchemas, \* those validate_input_schema accepts
    Descriptors,  \* what an operator may assert
    Tiers, InvocableTiers,
    Declarations, \* what a source may declare that it offers
    Lists,        \* the tool lists a server or a caller may supply
    None,
    Offered,      \* the requests that arrive
    MaxCalls, MaxCrash, MaxFaults    \* bounds

ToolIds == Sources \X Names

ASSUME ConstantsAssumption ==
    /\ CoherentSchemas \subseteq Schemas /\ InvocableTiers \subseteq Tiers
    /\ Declarations \subseteq SUBSET Names
    /\ \A l \in Lists : /\ DOMAIN l \subseteq Names
                        /\ \A n \in DOMAIN l : l[n] \in [claim : Claims, schema : Schemas]
    /\ None \notin Tiers \union Descriptors \union Threads
    /\ MaxCalls \in Nat /\ MaxCrash \in Nat /\ MaxFaults \in Nat

\* Rows of the catalog and of its tables; None stands for a missing one.
Source == [tier : Tiers, declares : Declarations, command : BOOLEAN]
Tool == [claim : Claims, schema : Schemas, asserted : Descriptors \union {None}]
Evidence == [desc : Descriptors, fingerprint : Claims]

ASSUME NoneAssumption ==
    /\ None \notin Source /\ None \notin Tool /\ None \notin Evidence
    /\ \A names \in SUBSET Names : names # None

VARIABLES
    sources,      \* Catalog.sources and Catalog.declared: [tier, declares] or None
    tools,        \* Catalog.tools: [claim, schema, asserted] or None
    evidence,     \* Catalog._assertions: [desc, fingerprint] or None
    disk,         \* the committed tables
    handlerLock,  \* the per-server lock of server.py
    pc, loc,      \* where each handler is, and its local variables
    vouched,      \* <<tool, claim, descriptor>> an operator has asserted
    acked,        \* tools whose assertion was answered with 200
    calls, crashes, faults

mem    == <<sources, tools, evidence>>
bounds == <<crashes, faults>>
vars   == <<sources, tools, evidence, disk, handlerLock, pc, loc, vouched, acked,
            calls, crashes, faults>>

-----------------------------------------------------------------------------
(* Tables, rows and requests *)

\* request is the part of the body the handler still needs.
NoLoc == [call |-> "none", source |-> None, name |-> None, request |-> None, todo |-> {},
          log |-> <<>>, ok |-> FALSE]

Init ==
    /\ sources = [s \in Sources |-> None]
    /\ tools = [x \in ToolIds |-> None]
    /\ evidence = [x \in ToolIds |-> None]
    /\ disk = [sources |-> sources, tools |-> tools, evidence |-> evidence,
               discoveries |-> [s \in Sources |-> None], audit |-> <<>>]
    /\ handlerLock = None
    /\ pc = [t \in Threads |-> "idle"]
    /\ loc = [t \in Threads |-> NoLoc]
    /\ vouched = {} /\ acked = {}
    /\ calls = 0 /\ crashes = 0 /\ faults = 0

-----------------------------------------------------------------------------
(* The catalog itself *)

\* Mutants: the fingerprint covers too little of the claim; it is left unset.
Fingerprint_Blind(tool) == CHOOSE c \in Claims : TRUE
Fingerprint(tool) == tool.claim

\* ingest_claimed, then the schema: an assertion carries over to an unchanged claim.
Ingested(record, offer) ==
    LET tool == [claim |-> offer.claim, schema |-> offer.schema, asserted |-> None]
    IN  IF record # None /\ Fingerprint(tool) = record.fingerprint
        THEN [tool EXCEPT !.asserted = record.desc] ELSE tool

\* load_catalog: the asserted column is not read, it is derived from the evidence.
Hydrated(row, record) ==
    IF row = None THEN None
    ELSE Ingested(record, [claim |-> row.claim, schema |-> row.schema])

\* Mutant: a tool with evidence is asserted whatever its claim has become.
Status_Sticky(x) == IF evidence[x] = None THEN "never" ELSE "asserted"

Status(x) ==
    IF evidence[x] = None THEN "never"
    ELSE IF tools[x] # None /\ tools[x].asserted # None THEN "asserted" ELSE "changed"

Invocable(x) ==
    /\ tools[x] # None /\ tools[x].asserted # None
    /\ sources[x[1]].tier \in InvocableTiers

-----------------------------------------------------------------------------
(* Requests *)

Become(t, label, l) ==
    /\ pc' = [pc EXCEPT ![t] = label]
    /\ loc' = [loc EXCEPT ![t] = l]

Goto(t, label) == Become(t, label, loc[t])

Start(t, l) ==
    /\ pc[t] = "idle"
    /\ l.call \in Offered /\ calls < MaxCalls
    /\ calls' = calls + 1
    /\ Become(t, "wait", l)
    /\ UNCHANGED <<mem, disk, handlerLock, vouched, acked, bounds>>

CallRegister(t) ==
    \E s \in Sources, source \in Source :
        Start(t, [NoLoc EXCEPT !.call = "register", !.source = s, !.request = source])

\* Discovery of a running server, or a list pushed by the caller.
CallIngest(t) ==
    \E s \in Sources : Start(t, [NoLoc EXCEPT !.call = "ingest", !.source = s])

CallIngestPayload(t) ==
    \E s \in Sources, l \in Lists :
        Start(t, [NoLoc EXCEPT !.call = "push", !.source = s, !.request = l])

CallAssert(t) ==
    \E s \in Sources, n \in Names, d \in Descriptors :
        Start(t, [NoLoc EXCEPT !.call = "assert", !.source = s, !.name = n, !.request = d])

First(call) ==
    CASE call = "register" -> "rg_mem"
      [] call \in {"ingest", "push"} -> "in_check"
      [] call = "assert" -> "as_mem"

\* Mutant: handlers are not serialized.
Enter_NoLock(t) ==
    /\ pc[t] = "wait"
    /\ Goto(t, First(loc[t].call))
    /\ UNCHANGED <<mem, disk, handlerLock, vouched, acked, calls, bounds>>

\* "with self.lock" around _route.
Enter(t) ==
    /\ pc[t] = "wait" /\ handlerLock = None
    /\ handlerLock' = t
    /\ Goto(t, First(loc[t].call))
    /\ UNCHANGED <<mem, disk, vouched, acked, calls, bounds>>

\* The answer leaves the handler: 200 when every step succeeded.
Leave(t) ==
    /\ pc[t] = "done"
    /\ handlerLock' = None
    /\ acked' = IF loc[t].call = "assert" /\ loc[t].ok
                THEN acked \union {<<loc[t].source, loc[t].name>>} ELSE acked
    /\ Become(t, "idle", NoLoc)
    /\ UNCHANGED <<mem, disk, vouched, calls, bounds>>

\* One transaction of the store commits and the handler moves on.
Commit(t, tables, label, l) ==
    /\ disk' = tables
    /\ Become(t, label, l)
    /\ UNCHANGED <<mem, handlerLock, vouched, acked, calls, bounds>>

\* A transaction of the store raises: rolled back, the answer is a 500.  What the
\* handler has done to the memory stays done.
StoreFault(t) ==
    /\ pc[t] \in {"rg_disk", "in_disk", "in_seen", "as_tool", "as_evidence", "log"}
    /\ faults < MaxFaults
    /\ faults' = faults + 1
    /\ Goto(t, "done")
    /\ UNCHANGED <<mem, disk, handlerLock, vouched, acked, calls, crashes>>

\* The audit records of a handler, one transaction each, come last.
Log(t) ==
    /\ pc[t] = "log"
    /\ LET rest == Tail(loc[t].log)
       IN  Commit(t, [disk EXCEPT !.audit = Append(@, Head(loc[t].log))],
                  IF rest = <<>> THEN "done" ELSE "log",
                  [loc[t] EXCEPT !.log = rest, !.ok = (rest = <<>>)])

AuditRec(kind, s, names, ok) == [kind |-> kind, source |-> s, names |-> names, ok |-> ok]

-----------------------------------------------------------------------------
(* register_source *)

RegisterMem(t) ==
    /\ pc[t] = "rg_mem"
    /\ sources' = [sources EXCEPT ![loc[t].source] = loc[t].request]
    /\ Goto(t, "rg_disk")
    /\ UNCHANGED <<tools, evidence, disk, handlerLock, vouched, acked, calls, bounds>>

\* upsert_source
RegisterDisk(t) ==
    /\ pc[t] = "rg_disk"
    /\ LET s == loc[t].source
           rec == AuditRec("source", s, loc[t].request.declares, TRUE)
       IN  Commit(t, [disk EXCEPT !.sources[s] = loc[t].request], "log",
                  [loc[t] EXCEPT !.log = <<rec>>])

-----------------------------------------------------------------------------
(* ingest and ingest_payload *)

\* The loop over the list, and what follows it.
Take(t, l, list, todo) ==
    Become(t, IF todo = {} THEN "in_seen" ELSE "in_mem",
           [l EXCEPT !.request = list, !.todo = todo])

\* 404 for a source the memory does not know, 409 for one without a command on disk.
IngestCheck(t) ==
    LET s == loc[t].source
        command == disk.sources[s] # None /\ disk.sources[s].command
    IN  /\ pc[t] = "in_check"
        /\ IF sources[s] = None \/ (loc[t].call = "ingest" /\ ~command) THEN Goto(t, "done")
           ELSE IF loc[t].call = "ingest" THEN Goto(t, "in_discover")
           ELSE Take(t, loc[t], loc[t].request, DOMAIN loc[t].request)
        /\ UNCHANGED <<mem, disk, handlerLock, vouched, acked, calls, bounds>>

\* mcp_source.discover: the whole list, a fault that is only put on record, or an
\* exception of another type, which is not.
Discover(t) ==
    /\ pc[t] = "in_discover"
    /\ \/ \E l \in Lists : Take(t, loc[t], l, DOMAIN l)
       \/ Become(t, "log", [loc[t] EXCEPT
             !.log = <<AuditRec("ingest", loc[t].source, {}, FALSE)>>])
       \/ Goto(t, "done")
    /\ UNCHANGED <<mem, disk, handlerLock, vouched, acked, calls, bounds>>

\* The next tool of the list: ingest_claimed, and its schema beside it.
IngestMem(t) ==
    /\ pc[t] = "in_mem"
    /\ \E n \in loc[t].todo :
          LET x == <<loc[t].source, n>>
          IN  /\ tools' = [tools EXCEPT ![x] = Ingested(evidence[x], loc[t].request[n])]
              /\ Become(t, "in_disk", [loc[t] EXCEPT !.name = n])
    /\ UNCHANGED <<sources, evidence, disk, handlerLock, vouched, acked, calls, bounds>>

\* upsert_tool
IngestDisk(t) ==
    LET x == <<loc[t].source, loc[t].name>>
    IN  /\ pc[t] = "in_disk"
        /\ disk' = [disk EXCEPT !.tools[x] = tools[x]]
        /\ Take(t, loc[t], loc[t].request, loc[t].todo \ {loc[t].name})
        /\ UNCHANGED <<mem, handlerLock, vouched, acked, calls, bounds>>

\* record_discovery, once every tool is in.
IngestSeen(t) ==
    LET s == loc[t].source
        seen == DOMAIN loc[t].request
        done == AuditRec("ingest", s, seen, TRUE)
        drift == AuditRec("drift", s, {}, TRUE)
    IN  /\ pc[t] = "in_seen"
        /\ Commit(t, [disk EXCEPT !.discoveries[s] = seen], "log",
                  [loc[t] EXCEPT !.log = IF loc[t].call = "ingest" THEN <<done, drift>>
                                         ELSE <<done>>])

-----------------------------------------------------------------------------
(* assert_tool *)

\* 404 for a tool never ingested, 422 for one whose schema is incoherent; otherwise
\* the operator has vouched for the claim the catalog holds now.
AssertMem(t) ==
    LET x == <<loc[t].source, loc[t].name>>
        d == loc[t].request
        good == tools[x] # None /\ tools[x].schema \in CoherentSchemas
    IN  /\ pc[t] = "as_mem"
        /\ IF good
           THEN /\ tools' = [tools EXCEPT ![x].asserted = d]
                /\ evidence' = [evidence EXCEPT ![x] =
                                  [desc |-> d, fingerprint |-> Fingerprint(tools[x])]]
                /\ vouched' = vouched \union {<<x, tools[x].claim, d>>}
                /\ Goto(t, "as_tool")
           ELSE UNCHANGED <<tools, evidence, vouched>> /\ Goto(t, "done")
        /\ UNCHANGED <<sources, disk, handlerLock, acked, calls, bounds>>

\* upsert_tool
AssertTool(t) ==
    LET x == <<loc[t].source, loc[t].name>>
    IN  /\ pc[t] = "as_tool"
        /\ Commit(t, [disk EXCEPT !.tools[x] = tools[x]], "as_evidence", loc[t])

Evidenced(t, row) ==
    LET s == loc[t].source
        x == <<s, loc[t].name>>
    IN  /\ pc[t] = "as_evidence"
        /\ Commit(t, [disk EXCEPT !.evidence[x] = row], "log",
                  [loc[t] EXCEPT !.log = <<AuditRec("assertion", s, {loc[t].name}, TRUE)>>])

\* Mutant: the evidence is kept in memory only.
AssertEvidence_MemoryOnly(t) ==
    Evidenced(t, disk.evidence[<<loc[t].source, loc[t].name>>])

\* upsert_assertion
AssertEvidence(t) == Evidenced(t, evidence[<<loc[t].source, loc[t].name>>])

-----------------------------------------------------------------------------
(* Restart *)

\* The process dies; the next one hydrates its catalog from the tables.
Crash ==
    /\ crashes < MaxCrash
    /\ crashes' = crashes + 1
    /\ sources' = disk.sources
    /\ tools' = [x \in ToolIds |-> Hydrated(disk.tools[x], disk.evidence[x])]
    /\ evidence' = disk.evidence
    /\ handlerLock' = None
    /\ pc' = [t \in Threads |-> "idle"]
    /\ loc' = [t \in Threads |-> NoLoc]
    /\ UNCHANGED <<disk, vouched, acked, calls, faults>>

Step(t) ==
    \/ Enter(t) \/ Leave(t) \/ StoreFault(t) \/ Log(t)
    \/ RegisterMem(t) \/ RegisterDisk(t)
    \/ IngestCheck(t) \/ Discover(t) \/ IngestMem(t) \/ IngestDisk(t) \/ IngestSeen(t)
    \/ AssertMem(t) \/ AssertTool(t) \/ AssertEvidence(t)

Next ==
    \/ \E t \in Threads : \/ CallRegister(t) \/ CallIngest(t) \/ CallIngestPayload(t)
                          \/ CallAssert(t) \/ Step(t)
    \/ Crash

Spec == Init /\ [][Next]_vars

-----------------------------------------------------------------------------
(* Properties *)

Quiet == \A t \in Threads : pc[t] \in {"idle", "wait"}

\* catalog.py: a redefined tool is not invocable until it is re-asserted.  Whatever
\* was ingested again, rolled back or hydrated, a tool counts as asserted only with a
\* descriptor that an operator gave for exactly the claim the catalog now holds.
OnlyVouchedClaimsAreAsserted ==
    \A x \in ToolIds : tools[x] # None /\ tools[x].asserted # None =>
        <<x, tools[x].claim, tools[x].asserted>> \in vouched

\* An assertion that was answered with 200 survives every restart as evidence: its
\* tool may be "asserted" or "changed" but is never again "never asserted".
AckedAssertionIsNeverForgotten == \A x \in acked : Status(x) # "never"

\* store.py: hydration continues exactly where the in-memory core left off.  Between
\* two handlers, and unless a store write has raised, the catalog a restart would load
\* is the one in memory; a write that raises leaves the memory ahead of the tables.
RestartContinues ==
    Quiet /\ faults = 0 =>
        /\ sources = disk.sources
        /\ evidence = disk.evidence
        /\ tools = [x \in ToolIds |-> Hydrated(disk.tools[x], disk.evidence[x])]

\* The two lists of drift() that explain why a discovered tool cannot be used.
Unasserted(s) == {n \in disk.discoveries[s] : Status(<<s, n>>) = "never"}
Redefined(s) == {n \in disk.discoveries[s] :
                    tools[<<s, n>>] # None /\ Status(<<s, n>>) = "changed"}

\* drift() explains every block: once no call is under way, the discovered tools of a source
\* that invocable() refuses are exactly those reported as never asserted or as redefined
\* since their assertion - or all of them, when the source's own tier is too low.
DriftExplainsEveryBlockedTool ==
    Quiet => \A s \in Sources : disk.discoveries[s] # None /\ sources[s] # None =>
        {n \in disk.discoveries[s] : ~Invocable(<<s, n>>)}
            = IF sources[s].tier \in InvocableTiers THEN Unasserted(s) \union Redefined(s)
              ELSE disk.discoveries[s]
=============================================================================
