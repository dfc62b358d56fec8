--------------------------- MODULE GovernedInvoke ---------------------------
(***************************************************************************)
(* ToolConnectClient.governed_invoke against a running "toolconnect serve": *)
(* authorize, redeem, run the caller's executor, report; over connections  *)
(* that lose requests and answers, deliver them after the client's timeout *)
(* or cut an answer short, to a server that handles one request at a time, *)
(* fails and dies, and publishes on an event bus that may be down.         *)
(*                                                                         *)
(* A call is one invocation of governed_invoke; a caller whose call was    *)
(* refused may make another one for the same job.  The grant that          *)
(* authorize issues for a call is named by the call.  What the service     *)
(* does to a grant is what GrantLedger promises, which Grants implements.  *)
(***************************************************************************)
EXTENDS Naturals, Sequences

CONSTANTS
    Callers,
    None,
    MaxAttempts   \* bound: calls a caller makes for its job

ASSUME AttemptsAssumption == MaxAttempts \in Nat \ {0}

Calls == Callers \X (1..MaxAttempts)

\* What is asked of the server; the last two are the outcomes record_outcome reports.
Ops == {"authorize", "redeem", "close", "executed", "error"}

\* What a handler answers, and what a client may read instead.
Answers == {"allow", "deny", "redeemed", "denied", "ok", "unusable", "cut"}

Events == [call : Calls, outcome : {None, "denied", "succeeded", "failed"},
           type : {"tool.authorized", "grant.issued", "grant.redeemed", "tool.executed"}]

\* What a handler that holds the lock has to do: the second transaction, the events.
Handlers == [call : Calls, op : Ops, answer : Answers, second : BOOLEAN, events : Seq(Events)]

\* A free lock is told from every handler, and a missing answer from each answer.
ASSUME NoneAssumption == None \notin Handlers /\ None \notin Answers

\* ToolConnectError and its subclasses: what a caller takes for "it did not run".
Refusals == {"ToolConnectDenied", "GrantRedeemDenied", "ToolConnectUnavailable"}

VARIABLES
    \* the server
    grant,    \* the grant of each call, as in GrantLedger
    trail,    \* [call, fact]: decisions and outcomes on the audit trail
    bus,      \* the event [call, type, outcome] the handler has just got through, or None
    handler,  \* the request that holds the per-server lock, or None
    \* the connections
    wire,     \* requests the server has not taken yet
    reply,    \* per call: the answer it can read, or None
    \* the client
    pc,       \* per call: the answer it waits for, "new", "running" or "done"
    told,     \* calls whose local variable grant is set
    result,   \* per call: what it returns or raises
    ran,      \* per call: what became of the executor
    \* history
    mishaps   \* calls with a request lost or failed, or an answer cut short

server == <<grant, trail, bus, handler>>
client == <<pc, told, result, ran>>
vars == <<server, wire, reply, client, mishaps>>

-----------------------------------------------------------------------------
Init ==
    /\ grant = [c \in Calls |-> "absent"]
    /\ trail = {} /\ bus = None /\ handler = None
    /\ wire = {} /\ reply = [c \in Calls |-> None]
    /\ pc = [c \in Calls |-> "new"] /\ told = {}
    /\ result = [c \in Calls |-> "none"] /\ ran = [c \in Calls |-> "no"]
    /\ mishaps = {}

-----------------------------------------------------------------------------
(* The client.  Every request is a connection of its own and is sent once. *)

Send(c, op) ==
    /\ wire' = wire \union {[call |-> c, op |-> op]}
    /\ pc' = [pc EXCEPT ![c] = op]

End(c, outcome) ==
    /\ pc' = [pc EXCEPT ![c] = "done"]
    /\ result' = [result EXCEPT ![c] = outcome]
    /\ UNCHANGED wire

\* The "except BaseException" block: close the grant, report an error, raise outcome.
CleanUp(c, outcome) ==
    /\ Send(c, "close")
    /\ result' = [result EXCEPT ![c] = outcome]

Earlier(c) == IF c[2] = 1 THEN {} ELSE {<<c[1], c[2] - 1>>}

\* A first call, or another one by a caller that was told it had not run.
Start(c) ==
    /\ pc[c] = "new"
    /\ \A d \in Earlier(c) : pc[d] = "done" /\ result[d] \in Refusals
    /\ Send(c, "authorize")
    /\ UNCHANGED <<server, reply, told, result, ran, mishaps>>

\* What a raise inside redeem becomes; "cut" is http.client.IncompleteRead, which is
\* neither an OSError nor a URLError and which _request lets through.
Raised(seen) ==
    CASE seen = "denied" -> "GrantRedeemDenied"
      [] seen = "cut"    -> "IncompleteRead"
      [] OTHER           -> "ToolConnectUnavailable"

OnAuthorize(c, seen) ==
    /\ pc[c] = "authorize"
    /\ \/ seen = "allow" /\ Send(c, "redeem") /\ told' = told \union {c} /\ UNCHANGED result
       \/ seen = "deny" /\ End(c, "ToolConnectDenied") /\ UNCHANGED told
       \/ seen \notin {"allow", "deny"} /\ End(c, Raised(seen)) /\ UNCHANGED told
    /\ UNCHANGED ran

\* Mutant: no answer is taken for a redemption.
OnRedeem_FailOpen(c, seen) ==
    /\ pc[c] = "redeem"
    /\ \/ /\ seen \in {"redeemed", "unusable"}
          /\ pc' = [pc EXCEPT ![c] = "running"] /\ ran' = [ran EXCEPT ![c] = "running"]
          /\ UNCHANGED <<wire, result>>
       \/ seen \notin {"redeemed", "unusable"} /\ CleanUp(c, Raised(seen)) /\ UNCHANGED ran
    /\ UNCHANGED told

OnRedeem(c, seen) ==
    /\ pc[c] = "redeem"
    /\ \/ /\ seen = "redeemed"
          /\ pc' = [pc EXCEPT ![c] = "running"] /\ ran' = [ran EXCEPT ![c] = "running"]
          /\ UNCHANGED <<wire, result>>
       \/ seen # "redeemed" /\ CleanUp(c, Raised(seen)) /\ UNCHANGED ran
    /\ UNCHANGED told

\* close_grant, best effort: only a ToolConnectError is swallowed.
OnClose(c, seen) ==
    /\ pc[c] = "close"
    /\ \/ seen = "cut" /\ End(c, "IncompleteRead")
       \/ seen # "cut" /\ Send(c, "error") /\ UNCHANGED result
    /\ UNCHANGED <<told, ran>>

\* Mutant: a report that fails after the executor has returned raises.
OnReport_Raises(c, seen) ==
    /\ pc[c] \in {"executed", "error"}
    /\ End(c, IF seen \in {"cut", "unusable"} THEN Raised(seen) ELSE result[c])
    /\ UNCHANGED <<told, ran>>

\* Mutant: the report of a success is inside the try block.
OnReport_InTry(c, seen) ==
    /\ pc[c] \in {"executed", "error"}
    /\ IF pc[c] = "executed" /\ seen # "ok"
       THEN CleanUp(c, Raised(seen))
       ELSE End(c, IF seen = "cut" THEN "IncompleteRead" ELSE result[c])
    /\ UNCHANGED <<told, ran>>

\* record_outcome, best effort, then the return or the re-raise.
OnReport(c, seen) ==
    /\ pc[c] \in {"executed", "error"}
    /\ End(c, IF seen = "cut" THEN "IncompleteRead" ELSE result[c])
    /\ UNCHANGED <<told, ran>>

React(c, seen) ==
    OnAuthorize(c, seen) \/ OnRedeem(c, seen) \/ OnClose(c, seen) \/ OnReport(c, seen)

Receive(c) ==
    /\ reply[c] # None
    /\ React(c, reply[c])
    /\ reply' = [reply EXCEPT ![c] = None]
    /\ UNCHANGED <<server, mishaps>>

\* Mutant: the timeout covers the sending of a request and not the wait for its answer.
TimeOut_ConnectOnly(c) ==
    /\ pc[c] \in Ops /\ reply[c] = None /\ [call |-> c, op |-> pc[c]] \in wire
    /\ React(c, "unusable")
    /\ UNCHANGED <<server, reply, mishaps>>

\* The socket times out, the connection is refused or it breaks before the answer.
TimeOut(c) ==
    /\ pc[c] \in Ops /\ reply[c] = None
    /\ React(c, "unusable")
    /\ UNCHANGED <<server, reply, mishaps>>

ExecutorReturns(c) ==
    /\ pc[c] = "running"
    /\ ran' = [ran EXCEPT ![c] = "returned"]
    /\ result' = [result EXCEPT ![c] = "result"]
    /\ Send(c, "executed")
    /\ UNCHANGED <<server, reply, told, mishaps>>

ExecutorRaises(c) ==
    /\ pc[c] = "running"
    /\ ran' = [ran EXCEPT ![c] = "raised"]
    /\ CleanUp(c, "executor's exception")
    /\ UNCHANGED <<server, reply, told, mishaps>>

-----------------------------------------------------------------------------
(* The server: the first transaction of a handler with the lock it takes, then the     *)
(* second one if it has one, then the events, then the answer.                         *)

Fact(c, what) == [call |-> c, fact |-> what]
Event(c, type, outcome) == [call |-> c, type |-> type, outcome |-> outcome]

\* bus_outcome_for_execution
BusOutcome(outcome) == IF outcome = "executed" THEN "succeeded" ELSE "failed"

\* close_grant of the store.
Closed(state) ==
    CASE state = "issued" -> "closed" [] state = "spent" -> "spent_closed" [] OTHER -> state

Take(c, op) ==
    /\ handler = None
    /\ [call |-> c, op |-> op] \in wire
    /\ wire' = wire \ {[call |-> c, op |-> op]}
    /\ UNCHANGED <<reply, client, mishaps>>

\* What is left to do: "second" is the transaction still to come, else the answer waits
\* for the events to be published.
Continue(c, op, answer, second, events) ==
    handler' = [call |-> c, op |-> op, answer |-> answer, second |-> second, events |-> events]

\* The decision is recorded; the grant of an allow is another transaction.
Authorize(c) ==
    /\ Take(c, "authorize")
    /\ \/ /\ trail' = trail \union {Fact(c, "allowed")}
          /\ Continue(c, "authorize", "allow", TRUE,
                      <<Event(c, "tool.authorized", None), Event(c, "grant.issued", None)>>)
       \/ /\ trail' = trail \union {Fact(c, "denied")}
          /\ Continue(c, "authorize", "deny", FALSE, <<Event(c, "tool.authorized", "denied")>>)
    /\ UNCHANGED <<grant, bus>>

\* Redeemed; or denied, without a change (expired, closed, spent) or closing the grant of a
\* tool that is no longer invocable.  A denial is recorded in a second transaction.
Redeem(c) ==
    /\ Take(c, "redeem")
    /\ \/ /\ grant[c] = "issued"
          /\ grant' = [grant EXCEPT ![c] = "spent"]
          /\ Continue(c, "redeem", "redeemed", FALSE, <<Event(c, "grant.redeemed", None)>>)
       \/ /\ grant[c] = "issued"
          /\ grant' = [grant EXCEPT ![c] = "closed"]
          /\ Continue(c, "redeem", "denied", TRUE, <<>>)
       \/ /\ Continue(c, "redeem", "denied", TRUE, <<>>)
          /\ UNCHANGED grant
    /\ UNCHANGED <<trail, bus>>

CloseGrant(c) ==
    /\ Take(c, "close")
    /\ grant' = [grant EXCEPT ![c] = Closed(@)]
    /\ Continue(c, "close", "ok", FALSE, <<>>)
    /\ UNCHANGED <<trail, bus>>

\* The outcome is recorded; the grant is closed in another transaction.
RecordOutcome(c, outcome) ==
    /\ Take(c, outcome)
    /\ trail' = trail \union {Fact(c, outcome)}
    /\ Continue(c, outcome, "ok", TRUE, <<Event(c, "tool.executed", BusOutcome(outcome))>>)
    /\ UNCHANGED <<grant, bus>>

\* Mutant: the grant of the reported call is left open.
Second_NoClose ==
    LET c == handler.call
    IN  /\ handler # None /\ handler.second
        /\ \/ handler.op = "authorize" /\ grant' = [grant EXCEPT ![c] = "issued"]
           \/ handler.op \in {"redeem", "executed", "error"} /\ UNCHANGED grant
        /\ handler' = [handler EXCEPT !.second = FALSE]
        /\ UNCHANGED <<trail, bus, wire, reply, client, mishaps>>

\* issue_grant, the record of a denied redemption, or close_grant after an outcome.
Second ==
    LET c == handler.call
    IN  /\ handler # None /\ handler.second
        /\ \/ handler.op = "authorize" /\ grant' = [grant EXCEPT ![c] = "issued"]
           \/ handler.op = "redeem" /\ UNCHANGED grant
           \/ handler.op \in {"executed", "error"} /\ grant' = [grant EXCEPT ![c] = Closed(@)]
        /\ handler' = [handler EXCEPT !.second = FALSE]
        /\ UNCHANGED <<trail, bus, wire, reply, client, mishaps>>

\* BusPublisher.publish, still under the server's lock: every failure is swallowed.
Publish ==
    /\ handler # None /\ ~handler.second /\ handler.events # <<>>
    /\ bus' \in {None, Head(handler.events)}
    /\ handler' = [handler EXCEPT !.events = Tail(@)]
    /\ UNCHANGED <<grant, trail, wire, reply, client, mishaps>>

\* A client that no longer waits for this answer has closed the connection.
Answer(c, op, seen) == reply' = IF pc[c] = op THEN [reply EXCEPT ![c] = seen] ELSE reply

\* The lock is released and the answer written: it arrives, or what arrives is not a
\* usable answer (no JSON, another contract or tool, no grant), or it is cut short.
Respond ==
    LET c == handler.call
    IN  /\ handler # None /\ ~handler.second /\ handler.events = <<>>
        /\ handler' = None
        /\ \E seen \in {handler.answer, "unusable", "cut"} :
              /\ Answer(c, handler.op, seen)
              /\ mishaps' = IF seen = "cut" THEN mishaps \union {c} ELSE mishaps
        /\ bus' = None
        /\ UNCHANGED <<grant, trail, wire, client>>

\* A statement of the second transaction raises: a 500.
Fault ==
    /\ handler # None /\ handler.second
    /\ handler' = None
    /\ Answer(handler.call, handler.op, "unusable")
    /\ mishaps' = mishaps \union {handler.call}
    /\ UNCHANGED <<grant, trail, bus, wire, client>>

\* A request that never arrives, or is answered 401, 429 or 500 with nothing done.
Lose(request) ==
    /\ request \in wire
    /\ wire' = wire \ {request}
    /\ \E seen \in {None, "unusable"} : Answer(request.call, request.op, seen)
    /\ mishaps' = mishaps \union {request.call}
    /\ UNCHANGED <<server, client>>

\* The server process dies in the middle of a handler and is started again.
Crash ==
    /\ handler # None
    /\ handler' = None /\ wire' = {} /\ bus' = None
    /\ mishaps' = mishaps \union {handler.call} \union {r.call : r \in wire}
    /\ UNCHANGED <<grant, trail, reply, client>>

-----------------------------------------------------------------------------
ClientStep(c) == Receive(c) \/ TimeOut(c) \/ ExecutorReturns(c) \/ ExecutorRaises(c)

ServerStep ==
    \/ \E c \in Calls : \/ Authorize(c) \/ Redeem(c) \/ CloseGrant(c)
                        \/ \E outcome \in {"executed", "error"} : RecordOutcome(c, outcome)
    \/ Second \/ Publish \/ Respond \/ Fault \/ Crash

Next ==
    \/ \E c \in Calls : Start(c) \/ ClientStep(c)
    \/ ServerStep
    \/ \E request \in wire : Lose(request)

\* A client waits no longer than its timeout, and executors end; nothing is asked of the
\* network or of the server.
Fairness == \A c \in Calls : WF_vars(ClientStep(c))

Spec == Init /\ [][Next]_vars /\ Fairness

-----------------------------------------------------------------------------
(* Properties *)

\* client.py, "fail closed": the executor of a call is started at most once, and only when
\* the server has already spent the call's grant on disk; a grant that was closed first is
\* never executed under.  This is the promise of GrantLedger with the start of the executor
\* in the place of the answer.
Ledger == INSTANCE GrantLedger WITH
    GrantIds <- Calls,
    state <- grant,
    uses <- [c \in Calls |-> IF ran[c] = "no" THEN 0 ELSE 1]

ExecutionsImplementLedger == Ledger!Spec

\* A ToolConnectError means that nothing ran: a caller that tries again after one, whatever
\* was lost or is still on its way to the server, has its job executed at most once.
JobRunsOnce ==
    \A c, d \in Calls : c[1] = d[1] /\ ran[c] # "no" /\ ran[d] # "no" => c = d

\* buspublish.py: the rows have landed in the authoritative audit before an event about
\* them is published (and rows are never withdrawn).
Landed(event) ==
    LET state == grant[event.call]
    IN  CASE event.type = "tool.authorized" ->
                 /\ Fact(event.call, IF event.outcome = None THEN "allowed" ELSE "denied") \in trail
                 /\ event.outcome = None => state # "absent"
          [] event.type = "grant.issued"   -> state # "absent"
          [] event.type = "grant.redeemed" -> state \in {"spent", "spent_closed"}
          [] event.type = "tool.executed"  ->
                 /\ Fact(event.call, IF event.outcome = "succeeded" THEN "executed" ELSE "error")
                        \in trail
                 /\ state \notin {"issued", "spent"}

\* The audit trail never says more than what happened: "executed" is on it only for an
\* executor that returned, "error" only for one that did not, never both; and the event bus
\* never says more than the audit trail and the rows of the grants.
TrailTellsTheTruth ==
    /\ \A c \in Calls : /\ Fact(c, "executed") \in trail => ran[c] = "returned"
                        /\ Fact(c, "error") \in trail => ran[c] \in {"no", "raised"}
    /\ bus # None => Landed(bus)

Quiet(c) ==
    /\ pc[c] = "done" /\ \A r \in wire : r.call # c
    /\ handler = None \/ handler.call # c

Outcomes(c) == {f \in trail : f.call = c /\ f.fact \in {"executed", "error"}}

\* When the dust has settled, however late and in whatever order the requests were handled
\* and whichever answers were not waited for, a call whose requests were all handled has
\* left its grant closed and one outcome on the trail.
CallsEndTidily ==
    \A c \in told \ mishaps :
        Quiet(c) => /\ grant[c] \in {"closed", "spent_closed"}
                    /\ Outcomes(c) = {Fact(c, IF ran[c] = "returned" THEN "executed" ELSE "error")}

\* governed_invoke: "an audit-path outage never destroys a result that already executed".
\* Whatever fails after the executor has ended, its result is returned or its exception
\* raised, unless an answer of the server is cut short in its body.
OutageSparesTheResult ==
    \A c \in Calls : pc[c] = "done" /\ result[c] # "IncompleteRead" =>
        /\ ran[c] = "returned" => result[c] = "result"
        /\ ran[c] = "raised" => result[c] = "executor's exception"

\* Every governed_invoke returns or raises, whatever the server and the network do.
EveryInvokeEnds == \A c \in Calls : pc[c] # "new" ~> pc[c] = "done"
=============================================================================
