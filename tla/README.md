# ToolConnect in TLA+

A verification development kept beside ToolConnect, a decision point for tool
calls: it catalogs what tool servers claim, lets operators vouch for it, answers
`authorize`, issues one-use grants bound to the arguments of a call, keeps a
hash-chained audit log, and can stand in front of an MCP server as a gateway.
The modules are translated from `src/toolconnect/*.py`; `PROJECT.json` maps every
definition to the lines it models.

## The system

| Component | State | Operations | Interacts through |
|---|---|---|---|
| grants (`service.py`, `store.py`) | `grants` and `audit` tables, `_audit_log[-1]`, two locks | `authorize`, `redeem_grant`, `close_grant`, `record_outcome` | reads the catalog while it redeems; every mutation appends to the audit table |
| catalog (`catalog.py`, `service.py`, `store.py`) | sources, tools, assertions in memory and on disk; last discovery | `register_source`, `ingest`, `ingest_payload`, `assert_tool`, `load_catalog`, `drift` | discovery supplies claims; `invocable` gates authorize and redeem |
| audit chain (`store.py`) | `audit` table, head marks in `meta` | `append_audit`, `verify_chain`, `backup` | every other component appends |
| schema migration (`store.py`) | the tables themselves, `schema_version` | `SqliteStore.__init__`, `_migrate` | runs before anything else, at every start |
| gateway (`gateway.py`) | one message at a time, the link to the server, its buffer | `run`, `_handle_tools_call`, `_handle_tools_list`, `_DownstreamLink.call` | the service in process; client and server over pipes |
| governance grants (`govgrants.py`, `service.py`, `store.py`) | trust root and revocation list, `grant_redemptions` | `verify_grant`, `scope_failures`, `redeem_governance_grant` | the audit log |
| discovery (`mcp_source.py`) | a child process, its pipes and a deadline | `discover` | its result feeds `ingest` |
| HTTP server (`server.py`) | a thread for each connection, the per-server lock | request parsing, `_dispatch`, `_body`, `_drain_body` | every request passes the limiter, the token and the lock on its way to the service |
| rate limiter (`server.py`) | `_hits` per client address, `_last_sweep`, a lock | `check`, `_sweep` | called before anything else of a request |
| client SDK (`client.py`) | the local variables of a call | `governed_invoke`: authorize, redeem, run the executor, report | the HTTP server, over a connection for each request |
| event bus (`buspublish.py`) | - | `publish`, after the rows are committed | reads what the service has recorded and feeds nothing back |
| policy (`policy.py`), information flow (`flow.py`), descriptors, hashing, schema validation, OpenAPI source, CLI | - | - | see "Not modelled" |

What is hard here, and makes each component right:

* **Grants.** Threads of an embedding process interleave at every statement, a
  statement can fail and the process can die between two of them. A grant must be
  spent at most once, by its holder, with the arguments it was issued for; row and
  audit record must appear together or not at all; a grant must hang on the
  decision of its own call although the decision's id is read back from a list
  shared by all callers; locks must be given back on every path.
* **Catalog.** The same change is made to memory and, in several transactions, to
  disk. No claim may be treated as asserted that no operator vouched for, whatever
  is redefined, interrupted and restarted in between.
* **Audit chain.** Concurrent appends must not fork the chain, a backup may fall
  between two statements, and a change to the file must be reported. The command line
  lets a second process open the same file, and then only SQLite's write lock is
  shared: the tip is read before that lock is taken.
* **Migration.** SQLite commits DDL and DML at different moments; a crash may come
  after any statement.
* **Gateway.** The server may answer late, wrongly, out of order or never, may send
  requests of its own, may die or stop reading; the client may send lines that cannot be
  decoded or parsed. Only redeemed calls may reach it,
  an answer must belong to its call, and the trail must agree with what happened.
* **Discovery.** All of a server's tools or none, under one deadline, and no process
  left running whatever the server does.
* **Governance grants.** Half-open windows, open ends, rotating roots, lists that
  do not verify; several threads presenting one grant.
* **Client SDK.** Requests are lost, handled after the client gave up, or answered with
  something unusable; the server dies between two transactions of a handler. A caller
  that is told "it did not run" may try again, so that must be true; a result that
  exists must not be lost to a failing report; and the trail must not say more than
  what happened, in whatever order late requests are handled.
* **HTTP server and limiter.** Threads read the clock before they queue for the
  limiter's lock, so hits arrive out of order; a keep-alive connection stays usable only
  if every body is read, and only Content-Length tells how long it is; bodies are read, and
  servers discovered, under the lock that serializes all requests.

`PROJECT.json` lists the hazards one by one, at the line where each bites.

## Modules

| Module | Models | State and actions |
|---|---|---|
| `GrantLedger` | what the grant service promises | `state`, `uses`; Issue, Spend, Close, Deliver |
| `Grants` | the grant operations | committed tables and the connection's view of them, both locks, a program counter and locals per thread. `Call*` start a call; `AuthzEnter`..`AuthzExit`, `RedeemBegin`..`RedeemDenied`, `CloseBegin`, `Outcome*` are its steps; `TxnAudit`, `TxnCommit`, `TxnFault` are shared by all transactions; `Tick`, `CatalogChanges`, `Crash` the rest of the world |
| `GrantsProofs`, `CatalogProofs`, `AuditChainProofs`, `GatewayProofs`, `McpDiscoveryProofs`, `GovRedemptionProofs`, `GovernedInvokeProofs`, `HttpServerProofs` | - | the theorems about the module each is named after; `GovRedemptionProofs` also those about `GovGrants`, `HttpServerProofs` those about `RateLimiter` |
| `Catalog` | registration, ingest, assertion, hydration, drift | memory, tables, one handler lock; memory and disk writes are steps of their own |
| `AuditChain` | append, verify, backup, by threads of one or more processes | committed rows, SQLite's write lock, each process's view and lock, marks, a copy; `Tamper` is someone with the file |
| `SchemaMigration` | opening a database | `disk`, `view`, whether SQLite has a transaction open, the statement to run |
| `Gateway` | the gateway and the server behind it | the message at hand, both pipes, replies, grants, outcomes; `Server*` actions are external |
| `McpDiscovery` | one `discover()` and the child it spawns | the request in hand, the tools gathered, buffer and pipes, the process; `Child*` actions are external |
| `GovGrants` | the verifier, as operators | `VerifyGrant`, `ScopeFailures`, and the reference `Acceptable`, `InScope` |
| `GovRedemption` | `redeem_governance_grant` | redemption table, enforcement records, threads; `Restart` picks a configuration |
| `GovernedInvoke` | the client SDK, the handlers it calls and the events they publish | per call its place in `governed_invoke`, executor and result; requests and answers under way; the grant of each call, the trail, the handler at work. `Authorize`, `Redeem`, `CloseGrant`, `RecordOutcome` are a handler's first transaction, `Second` its other one, then `Publish` and `Respond`; `Lose`, `Fault`, `TimeOut`, `Crash` what goes wrong |
| `RateLimiter` | `_RateLimiter` | `hits`, `lastSweep`; `Check` |
| `HttpServer` | connections, limiter, token, lock and bodies | a place per connection's thread, the request at hand with its body and its Content-Length, whether part of a body is unread; extends `RateLimiter` |
| `MC*` | instances for TLC | `MCGovRedemption` also holds the verifier to its reference on small documents |

How they compose: `Grants` implements `GrantLedger`; `GovernedInvoke` uses a grant as
`GrantLedger` describes it and shows that executions, seen as the answers of the ledger,
implement the ledger again; `GovRedemption` calls the operators of `GovGrants`, and
`HttpServer` the step of `RateLimiter`. In `Catalog` and `GovernedInvoke`, of `HttpServer`
only the lock matters: one handler at a time.

Abstractions, the same everywhere: identifiers, claims, descriptors and payloads are
model values; a hash is a value equal exactly when what it covers is equal, and in
`AuditChain` it is the term it was computed from; a `decision_id` is the sequence
number of its decision record; logging and wording are left out. A definition whose
name has a suffix (`ClaimInsert_Replace`) is a mutant: the way a plausible bug would
change the definition before the underscore. It is used only to confirm that a property
would notice.

Requests are modelled from the point where their shape is valid. In `Grants`
and `GovRedemption` the threads are those of an embedding process (the reason
`_authz_lock` exists, `service.py:182`); the per-server lock of `server.py` is in
`Catalog`, whose memory and disk writes rely on it.

## Runs

Passing runs:

| Run | What it shows |
|---|---|
| `Grants` | rows and records stay paired; concurrent `authorize` calls bind each grant to its own decision; at most one "ok" reaches a caller, the right one; final denials are final; `record_outcome` closes only the grant of the decision it reports on, and says so truthfully; nothing committed is taken back; `Grants` implements `GrantLedger` |
| `GrantsLive` | every call returns |
| `Catalog` | only vouched claims are asserted, an acknowledged assertion survives, drift explains every block, a restart restores the catalog that was served unless a write raised |
| `Migration` | every database that may be opened is, with the same structure, but for the torn step from version 1 |
| `GatewayCalls` | only redeemed calls run, results are the call's own, trail and reply agree with each other and with what the server did |
| `GatewaySurface` | every kind of message is handled unless the server stops reading for good or the line cannot be decoded or parsed, every request is answered once, pages and tools of a listing are bounded |
| `Discovery` | a discovery returns the whole of what the server served or nothing, a server that repeats itself is not accused of shadowing, and no child is left behind |
| `Audit` | with two threads of a service and another process on the file, no row is lost, the chain and any backup verify unless the processes raced, and a race is reported for ever; a change of the file is reported until the next append, and for ever if it leaves the newest record alone |
| `GovRedeem` | one redemption and one record a grant, by the entitled; every answer on record; and the verifier equals its reference definition on about a million inputs |
| `Invoke` | a job runs at most once however often its caller tries again after a refusal; trail and events say no more than what happened; a call whose requests were handled leaves a closed grant and one outcome; an outage spares a result that exists; every call ends |
| `Http` | the cap, the promise of `Retry-After` and the limiter's memory hold with clocks read out of order and waits that are no whole number of seconds; no body is taken for a request on a connection that announces its bodies and sends them where they are read; only a client that stops in a body, or a server that stops reading while it is ingested, holds up the lock |

One run ends in a counterexample, a disagreement between the code and what the
repository says of it (`findings` in `PROJECT.json` quotes the lines):

| Run | Counterexample |
|---|---|
| `MigrationLegacy` | `ALTER TABLE` of the step from version 1 is committed alone; after a crash the database cannot be opened again |

The model has further behaviours that a sentence of the repository does not expect.
They have no run of their own; a property that meets one names it as its exception:

* `service.py` changes memory before the store, so a store fault leaves the two apart
  until a restart (`store.py:8`: "continues exactly where the in-memory core left
  off"). `RestartContinues` assumes that no write has raised.
* `ingest` commits each tool on its own; a fault in between leaves half of a discovery
  (`mcp_source.py:12`: "a catalog must never contain half of what a server serves").
* `load_catalog` derives the asserted state again from the assertions table, and so
  differs from the `asserted` column after a crash between the two writes
  (`store.py:428`: "Hydration is literal").
* A server request whose id equals the pending call's is taken for its answer and not
  refused (`gateway.py:286`).
* The gateway counts its request ids up (`gateway.py:222`), so a server could send a result
  ahead of the request it answers, and the call would take it; `ServerAnswer` answers only
  requests that were read. Such a call ends as the server said it would, and
  the trail has the server's word for it. What is left of an oversized frame is either the
  whole of it or one line that is not JSON: the server could also make it read as JSON, which is
  then as if it had sent that frame.
* A frame that is not UTF-8 raises `UnicodeDecodeError` (`gateway.py:203`), and an error
  code that is not a number `ValueError` (`gateway.py:244`). Neither is one of the link's
  exceptions, so the redeemed grant gets no outcome record and the client an internal
  error (`gateway.py:83`: a transport error covers "bytes that do not parse as JSON").
  `TrailMatchesReply` excepts such calls. In `mcp_source.py` the same bytes, and results
  or entries that are not objects, raise something other than `McpDiscoveryError` (line
  11: "Every failure mode fails closed as a typed `McpDiscoveryError`"): the outcome
  "escaped" of `McpDiscovery`, which leaves no audit record in `Catalog`.
* `readline` is outside the `try` that protects a message (`gateway.py:334`), and the
  client's stream is text, in a UTF-8 locale decoded strictly (`cli.py:222`): a line that is not UTF-8
  raises `UnicodeDecodeError` out of `run()` and ends the session (`gateway.py:326`: "Never
  raises: any bug reaching here is logged to stderr [...] and the session continues with the
  next message"). A line on which `json.loads` raises something else than `JSONDecodeError` (an
  integer of too many digits, nesting too deep) is logged and never answered
  (`gateway.py:358`). `EveryMessageIsHandled` excepts these two kinds of line. (A text stream
  decodes by the block, so lines before the undecodable one may be lost with it: for the model
  they were never read.)
* `close_grant` writes the reason its caller sends (`server.py:322-325`, `service.py:690`), so
  a `grant_close` record may say "outcome_reported" with no outcome on the trail.
  `CallClose` picks either reason, and `OutcomeCloseIsEarned` is about what `record_outcome`
  closes and answers, and not about the word in the record.
* A call that timed out is recorded as "error" although the server may have run it
  (`docs/adr/0003-mcp-enforcement-gateway.md:110`). `TrailMatchesReply` therefore ties
  "error" to the answer the client got, and not to what the server did.
* `_send` has no deadline, and neither has `send` of `mcp_source.py`: a server that
  stops reading with its pipe full holds the caller up for ever (`gateway.py:415`: "must
  still answer, never hang the client").
  `EveryMessageIsHandled` and `EndsWithoutChild` name this exception, `Blocked`.
* A signed grant without `not_before` or `not_after` raises `KeyError`
  (`govgrants.py:17`: "this module never raises on attacker input"); `GovGrants` has it
  as the code `KeyError`, and `GovRedemption` answers it with a 500 and no record.
  An `at` that is not a string (`server.py:316`) raises `AttributeError` in `_parse_rfc3339`
  (`govgrants.py:130`) and ends the same way; `Call` offers only strings, well formed or not.
* A truncated audit log is reported until the next append, which moves the mark past the
  loss (`store.py:522`); from then on it verifies. `TamperingIsSeen` says exactly this.
* An answer cut short in its body raises `http.client.IncompleteRead`, which `_request`
  does not translate (`client.py:209`). When it cuts the answer to a report, the result
  of the executor, or its exception, is replaced by it (`client.py:383`: "an audit-path
  outage never destroys a result that already executed"). `OutageSparesTheResult`
  excepts such a call. Whatever else escapes `_request` untranslated has the same effect: a
  status line that does not parse (`BadStatusLine`) and a timeout while the body of an error
  is read (`client.py:205`).
* `_drain_body` stops one byte past the limit and keeps the connection (`server.py:164`),
  and a route that reads no body leaves one unread. A chunked body counts as none
  (`server.py:163`, `172`), a Content-Length that is too small leaves the rest, and one that
  is no number gets a 500 with the body unread and the connection kept (`server.py:213`), or,
  in `_drain_body`, ends the thread. In each of them but the last the next request is
  parsed from the rest of the body (`server.py:158`: "Consume any request body so the
  keep-alive connection stays in sync"). `PoliteConnectionsStayInSync` is about connections that
  do none of this.
* A body is read under the per-server lock and without a socket timeout
  (`server.py:202-203`), for ever if the Content-Length is larger than the body, or
  negative and the connection stays open; and `POST /sources/{id}/ingest` runs its discovery
  under the same lock (`server.py:293-296`), whose writes have no deadline
  (`mcp_source.py:99-104`). `OnlyAStalledPeerBlocks` names these two as all that can hold up
  everyone. Events are published outside `_authz_lock` but inside that same lock, so a
  bus that is slow to fail delays all requests by its timeout (`service.py:493`).
* The limiter's clock is read before its lock: the cap of `BurstIsBounded` holds for
  windows shorter by the delay between the two.
* `docs/SERVICE.md:355` says "One process, one writer", and nothing enforces it: `serve`,
  `gateway` and `ingest-openapi` open the file they are given. Two of them that append at
  the same time fork the chain, which `verify_chain` then reports for ever. The
  in-memory catalog of the other one goes stale (not modelled).
* Not about an order of steps, and so without a property: a caller may supply the instant
  of a governance check (`service.py:605`); a tool's fingerprint does not cover its input
  schema (`catalog.py:188`); an operator may assert on a claim that was replaced since
  it was read (`service.py:379`).

### Bounds

* Two threads: every lock and race in the code is between two parties. Three calls
  let a grant be issued and then fought over by two redeemers; four catalog
  requests are register, ingest, assert, ingest again.
* One grant (two in `GovRedeem`), two principals, two argument hashes: every comparison in
  `redeem_grant` can succeed and fail. With one grant the clause of
  `GrantBoundToItsDecision` that no two grants have the same decision is empty in TLC; the
  theorem `GrantsAreBound` has it for any number.
* One crash and one store fault, at any step (three crashes for a migration, so that
  one can interrupt the recovery from another). Faults in `Grants` are unbounded.
* Two claims and two tools: a tool can be redefined and restored, an ingest can be
  cut in half.
* Two client messages: a late answer to the first can arrive in the second. The caps
  on pages and tools are 2 or 3 instead of 100 and 10 000; only their comparison
  matters. The pipe holds four messages, and one in `GatewaySurface`,
  where it fills.
* Four requests to a child in `Discovery`: initialize and three pages; its stdin holds one
  message, because a cursor that the server chooses can be as long as the pipe.
* Four audit records: a record before, at and after a change, and an append after it. Two
  threads of one process race for its lock, the third, of another, only for SQLite's.
* One caller with two calls in `Invoke`: requests of the first that are handled late meet
  the second. Different callers share only the handler, and their order is arbitrary.
* Two connections of one client or of two in `Http`, four requests in all. Bodies are nothing,
  at the limit, and one unit over it, with a Content-Length that is right, zero (a chunked
  body) or no number. The limit is two requests for each window of one tick, with a delay of
  at most one tick between clock and lock: a window can fill, empty and fill again, and a
  deque can hold a hit that is older than the one before it. A second is two ticks, so that
  a wait ends in half a second, which `int()` cuts off; two ticks are enough to come back
  after a `Retry-After`, and for a sweep to forget a client.
* Instants 0..3: before, at and after each edge of a window and of a list.

`CHECK_DEADLOCK FALSE` is set where the calls that may arrive are bounded or a run
draws one input: the system is then rightly idle. Symmetry is used over threads and
interchangeable model values only, and in no run with a liveness property.

### Fairness

* `Grants`: `WF(Step(t))` - a thread inside a call keeps running. Callers, clock,
  catalog and crashes owe nothing. Weak fairness is enough for the locks because the
  number of calls is bounded and Python's lock hands over to some waiter.
* `SchemaMigration`: `WF(Open)` - a process that was started goes on.
* `Gateway`: `WF(GatewayStep)` - its one thread runs and its clock advances. The server
  and the client owe nothing.
* `McpDiscovery`: `WF(Work)` and `WF(Deadline)` - the thread runs and the clock moves; the
  child owes nothing.
* `GovernedInvoke`: `WF(ClientStep(c))` - the socket's timeout passes and an executor ends.
  The server and the network owe nothing.
* `HttpServer`: `WF(ThreadStep(c))` - threads run, and a weakly fair lock is enough because
  requests are bounded. Clients owe nothing, not even the rest of a body, and neither does a
  server that is ingested: the end of such a handler is not assumed. Every other handler is
  local work.

## Theorems

Proved with TLAPS for every value of the constants. Every `... Proofs` module has an
inductive invariant, with a lemma for each action that it is kept; TLC checked each of them
on the runs' instances before it was proved. A proof extends the module it is about and uses
nothing else of the project, so that what is proved is what is checked.

### Assumptions

They are stated beside the constants and evaluated by TLC on every run:

* `ConstantsAssumption` of a module: times and bounds are naturals, `None` is no identifier,
  subsets are subsets.
* `NoneAssumption` (`Grants`, `Catalog`, `GovernedInvoke`), `MarkersAssumption` (`GovGrants`):
  what stands for a missing, absent or garbled value differs from every value. Python has
  `None` and `KeyError` for these.
* `KindsAssumption` (`Gateway`): the kinds of message offered are kinds the model knows; the
  length of a page is a natural.
* `ThreadsAssumption`, `RequestsAssumption`, `ConfigsAssumption` (`GovRedemption`): there are
  finitely many threads, and grants and lists are documents of the shape the parser
  produces - each field well formed, absent or garbled, never anything else.
* `HomeAssumption`, `TamperingAssumption` (`AuditChain`): every thread has a process, and the
  changes to the file are of the four kinds the model knows.
* `WindowAssumption` (`RateLimiter`), `BoundsAssumption` (`HttpServer`): the limit, the
  window and the second are positive, a connection has a client's address, and a request says
  whether it carries the token, whether its route reads a body or runs a discovery, how long its
  body is, and what its Content-Length says: any integer, or no number.

### The grant service

* `TypeCorrect`: `Spec => []TypeOK`. `TypeOK` alone is not inductive: that a transaction's
  record has the right type depends on what the thread knows at that point, and that a
  commit finds the view well-typed on who holds the lock. The invariant is
  `TypeInv == TypeOK /\ CallInv /\ LockInv`: what a call knows at each program point, and
  that holding a lock is a function of where a thread is.
* `AuditPaired`: `Spec => []AuditMatchesGrants`, the guarantee of ADR 0002 section 4. The
  invariant adds `ViewInv`: what the connection sees is the committed tables plus the one
  open transaction, whose shape follows from the record it is about to append. From it
  `DbStep` shows that a step leaves the committed tables alone, appends one record that is
  about no row, or commits one row change with the record that announces it; pairing then
  follows grant by grant. The theorems below all use `DbStep`.
* `NothingIsTakenBack`: `Spec => CommittedIsForever`, an action property: logs only grow and
  rows only move forward.
* `GrantsAreBound`: `[]GrantBoundToItsDecision`, by `DecisionInv`: between a thread's decision
  and its grant no other thread is in `authorize()`, so the last element of the shared list
  is still its own.
* `OutcomesEarnTheirClose`: `[]OutcomeCloseIsEarned`, by `OutcomeInv`: from the moment
  `record_outcome` has looked up the grant, the outcome is on disk and the grant is its
  decision's, and once its transaction has committed the row is closed; rows only move forward,
  so it still is when the call answers.
* `OneHolderIsTold`: `[]OkReachesOnlyTheHolder`, by `HolderInv`: a thread is about to say "ok"
  only after its own commit turned an unspent row into a spent one, which happens once a row.
* `FinalDenialsStand`: `[]DenialsAreFinal`, by `DenialInv`: a grant denied for a final reason
  is dead, and no thread holds a dead grant past its examination.
* `ServiceImplementsLedger`: `Grants` refines `GrantLedger`, each step a ledger step or a
  stutter.

### The client SDK and the server it calls

The invariant follows a call through its life: what the client knows (`Phase`), what is on its
way or being handled (`Wire`, `Handled`, `Answered`) is true of the rows on disk, which only
move forward, and once there is something to report the report is on its way, being handled or
on the trail (`Reports`), unless it met with a mishap.

* `RetriesAreSafe`: `[]JobRunsOnce`. `ResultsSurvive`: `[]OutageSparesTheResult`.
  `TrailIsTrue`: `[]TrailTellsTheTruth`. `TidyEndings`: `[]CallsEndTidily`.
* `ExecutionsAreRedemptions`: with executions as the redemptions delivered, `GovernedInvoke`
  refines `GrantLedger` too.

### Governance grants

* `VerdictIsExact`: `verify_grant` gives no reason exactly for the grants that meet the
  reference definition `Acceptable`, for every document, root, instant and list. This is what
  the run `GovRedeem` checks as `VerdictIsRight` on about a million inputs.
* `OneUse`: `[]OneRedemptionOneRecord`; `AnswersAreRecorded`: `[]EveryAnswerIsOnRecord`. Both
  compare numbers of records and of answers, so the invariant counts: the answers of a
  kind that were given, and those of threads between their commit and their answer, are
  together no more than the committed records of that kind (a crash may lose an answer).
* `OnlyEntitledRequestsConsume`: the action property `OnlyTheEntitledConsume`; the verdict a
  thread carries is still that of the configuration in force, because only a restart
  changes the configuration and a restart ends the thread.

### The gateway

The invariant has `Turn` (what the place in the code tells of the message in hand),
`Gathering` (the requests sent for it, and those already answered), `Past` (earlier messages
are over, later ones have left nothing) and `Wire` (a request is unread, pending or answered,
never two of these, and read as what it was sent as).

* `NothingBypassesTheGrant`: `[]OnlyRedeemedCallsRun`. `ResultsAreOwnAnswers`:
  `[]ResultsAreOwn`. `TrailAgrees`: `[]TrailMatchesReply`. `OneAnswer`: `[]AnsweredOnce`.
  `ListingEnds`: `[]ListingIsBounded`, pages and tools.

### The catalog

One handler is at work at a time (`Exclusive`), and where it is tells what it has still to
write (`Shape`, `Work`). What is on disk is in memory too (`Ahead`); an assertion in memory is
what its evidence says of the claim (`Derived`), and evidence is what an operator said
(`Witnessed`). Unless a write has failed, memory and tables differ only in what the handler at
work is about to write (`Sync`).

* `VouchedOnly`: `[]OnlyVouchedClaimsAreAsserted`. `AcknowledgedIsKept`:
  `[]AckedAssertionIsNeverForgotten`. `RestartLosesNothing`: `[]RestartContinues`.
  `DriftIsComplete`: `[]DriftExplainsEveryBlockedTool`; its proof does not need `Quiet`, so
  `drift()` is right in the middle of a call too.

### The audit chain

A hash is the pair it was computed from, so as long as nobody has raced or edited, all the
hashes of the chain, from GENESIS to the tip, are different (`Distinct`): the newest one
contains the tip, and two equal ones would make the two below them equal. A record hung on
anything but the tip is therefore not sound (`Broken`), and neither is one whose neighbour was
changed or taken away; and since records are only appended, it stays so. `OwnerInv` says who
holds which lock, `ViewInv` what the open transaction has done, `ChainInv` that rows are numbered
without a gap and that the tip a thread read is the tip or was one (`TipRead`), `TamperInv` and
`CopyInv` the same for an edited file and for the backup; a backup reads through the connection of
its process, with the open transaction of that process if there is one (`Seen`), and it is
`OwnerInv` that rules one out while the lock is free.

* `ChainIsIntact`: `[]ChainStaysIntact`, for any number of threads and processes.
* `TamperingIsReported`: `[]TamperingIsSeen`, for chains of any length. The proof needs no
  collision freedom beyond that of the pair.

### The HTTP server and its limiter

* `CapHolds`: `[]BurstIsBounded`, by `WindowInv`: whoever trims or sweeps it, a client's deque is
  the end of the list of its admissions, each stamped at most `MaxLag` before it was admitted, and
  an admission that is no longer in the deque is old (`Covers`); a request is admitted only when
  the deque is shorter than the limit (`Spread`).
* `RetryAfterIsTrue`: `Spec => RetryAfterIsHonoured`, an action property, by `PromiseInv`: until
  the client is admitted again, its deque has room or still starts with a hit whose window ends
  before the promised instant. `RoundedUp` is the arithmetic of `int(retry) + 1`: whatever part of
  a second is cut off, one second more is beyond the wait.
* `TableHoldsActiveClients`: `[]IdleClientsAreForgotten`, by `SweepInv`, under the hypothesis
  `MaxLag <= Window`. It is needed: a thread that was held up for longer than a window
  between its clock and the lock appends a hit that is already old. The window is a minute, and
  the two statements are next to each other; `Http` has a delay of one window.
* `BodiesAreNeverRequests`: `[]PoliteConnectionsStayInSync`, by `SyncInv`: on every path to the
  next request the body has been read, or was known to be empty, or the connection is closed. Its
  hypothesis on a connection, that Content-Length is the length of the body, is what the code
  relies on.

### Discovery

* `DiscoveryIsComplete`: `[]ResultIsComplete`, for any pages and any number of them. A request is
  sent once, so the child holds its id at most once and has a first answer to it at most once
  (`RequestInv`). The first frame on the wire with the id being waited for is that first answer
  (`WireInv`): that it is *first*, and that it is still there, have to be said together, or a
  second answer could be taken for it. What was gathered is then the pages first served for the
  requests before (`GatherInv`), and the outcome is decided by the first answer to the
  last one (`ResultInv`). The pages are joined by `FlattenSeq`, which is defined by recursion:
  `FlattenAppend` proves what it does from the least index at which it could go wrong.
* `AnswersAreNotMixedUp`: the frame that `request()` takes for its answer is the first one the
  child gave to that request.

### Only model-checked

* Every liveness property (`EveryCallReturns`, `EventuallyOpen`, `EveryMessageIsHandled`,
  `EndsWithoutChild`, `EveryInvokeEnds`, `OnlyAStalledPeerBlocks`): fairness and `ENABLED` are
  outside the prover's reach.
* `Converges` of `SchemaMigration`: there are seven versions a database can be found at, and the
  run starts from each of them with and without audit records and dies up to three times. The
  model reads the number of records only to compare it with zero and to copy it into the marks,
  and a crash leaves nothing behind but the file; a proof for every length and every
  number of crashes would repeat the run's case analysis.
* `VerdictIsRight`, the form of `VerdictIsExact` that enumerates an instance.

## Plan

1. Done: grants, catalog, audit chain (two processes included), migration, gateway,
   discovery, governance grants, the client SDK with the event bus, the HTTP server with
   its limiter; the theorems about all of them but the migration.
2. Left: a theorem for `Converges`, and the catalog of a process whose file another one writes.

## Not modelled

* Cryptography, canonical JSON and timestamp parsing: used through their outcome
  (signed or not, equal or not, a number or garbled).
* The policy engine: Cedar decides; `Grants` takes either verdict for an invocable tool.
* `schema.py`, `openapi_source.py`, `cli.py`: recursion over JSON documents, pure
  translation, and start-up.
* `flow.py` and `descriptor.py`: pure functions over a few labels and tiers, without state
  or recursion; a reference definition would only repeat them, and the repository's
  property-based tests exhaust their domains.
* Of the HTTP server the table of routes: what a route calls is modelled where the
  operation is. Of the event bus the mapping of privacy tiers and free-form outcomes.
* What a second process on the same file does to the in-memory catalog of the first, and
  a wall clock that steps back.
