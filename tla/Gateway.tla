------------------------------ MODULE Gateway ------------------------------
(***************************************************************************)
(* toolconnect gateway: the enforcement proxy between one MCP client and   *)
(* one downstream MCP server (gateway.py).                                 *)
(*                                                                         *)
(* The gateway is one thread.  It takes a client message, decides what may *)
(* be done with it, and talks to the server over two pipes; the server is  *)
(* another process, which may answer late, never, out of turn, with bytes  *)
(* that are not a message, or stop.  ToolConnectService runs inside the    *)
(* gateway: what its authorize, redeem_grant and record_outcome may answer *)
(* is a choice here, and module Grants has them in full.                   *)
(*                                                                         *)
(* The k-th client message is called k.  issued[i] is the client message   *)
(* for which request i was sent to the server, so the next request id is   *)
(* Len(issued) + 1.                                                        *)
(***************************************************************************)
EXTENDS Naturals, Sequences, FiniteSets

CONSTANTS
    MaxMsgs,      \* bound: messages the client sends
    ClientKinds,  \* the kinds of message it sends
    AnswerKinds,  \* the types of frame with which the server answers a request
    Pages,        \* what a tools/list result holds: records [cursor, size]
    ChatterKinds, \* the types of frame the server sends unasked
    ServerIds,    \* the ids the server gives its own requests
    MaxChatter,   \* bound: frames sent unasked
    MaxFaults,    \* bound: exceptions out of the service that are not a ServiceError
    PipeCapacity, \* messages the server's stdin holds before a write blocks
    MaxListPages, \* _MAX_LIST_PAGES
    MaxListTools  \* _MAX_LIST_TOOLS

ASSUME BoundsAssumption ==
    /\ MaxMsgs \in Nat /\ MaxChatter \in Nat /\ MaxFaults \in Nat
    /\ PipeCapacity \in Nat \ {0}
    /\ MaxListPages \in Nat \ {0} /\ MaxListTools \in Nat

VARIABLES
    n,        \* client messages taken so far; the one in hand is n
    msg,      \* its kind
    pc,       \* where the gateway is
    verdict,  \* how the downstream call went
    used,     \* ids of the frames the answer in the making is built from
    listing,  \* the locals of _handle_tools_list
    replies,  \* what the client was sent for each of its messages
    grants,   \* the grant of each governed call
    outcomes, \* the outcome recorded for each governed call
    issued,   \* see above
    up,       \* the server's stdin
    down,     \* the server's stdout
    alive,    \* the server runs
    pending,  \* requests the server has read and not answered
    ran,      \* tools/call requests the server has read
    chatter, faults

link == <<issued, up, down>>
server == <<alive, pending, ran, chatter>>
trail == <<grants, outcomes>>
local == <<msg, verdict, used, listing>>
vars == <<n, pc, replies, faults, link, server, trail, local>>

-----------------------------------------------------------------------------
(* Messages *)

\* What _handle_line and run refuse with a null id.
Garbled == {"oversized", "bad_json", "batch", "not_object"}

\* Requests, by what _dispatch_request and _handle_tools_call make of them; a request
\* with a bad envelope is one whose version, method or params are wrong.
Requests == {"ping", "list", "call", "bad_call", "not_permitted", "bad_envelope"}

\* The same without an id.
Notifications == {"initialized", "other_note", "bad_note"}

\* Lines that never become a message: one that readline cannot decode, and one on which
\* json.loads raises something else than a JSONDecodeError (an integer of too many digits,
\* nesting too deep).
Unreadable == {"undecodable", "unparseable"}

Kinds == Garbled \union Requests \union Notifications \union Unreadable

\* The frames that bear a request's id, and those that bear none.
AnswerTypes == {"result", "error", "bad_code", "neither"}
Noise == {"note", "not_json", "not_rpc", "not_utf8", "flood"}

NoPage == [cursor |-> "none", size |-> 0]
Frame == [type : AnswerTypes \union Noise \union {"request"},
          id : Nat \union ServerIds, page : Pages \union {NoPage}]
Bare(type) == [type |-> type, id |-> 0, page |-> NoPage]

ASSUME KindsAssumption ==
    /\ ClientKinds \subseteq Kinds /\ AnswerKinds \subseteq AnswerTypes
    /\ \A page \in Pages : page.size \in Nat

NoListing == [pages |-> 0, size |-> 0, seen |-> {}]
NoReply == <<>>

\* A list cursor that is absent, and one that is not a string.
EndCursor == "end"
BadCursor == "bad"

Init ==
    /\ n = 0 /\ msg = "ping" /\ pc = "idle"
    /\ verdict = "none" /\ used = <<>> /\ listing = NoListing
    /\ replies = [k \in 1..MaxMsgs |-> NoReply]
    /\ grants = [k \in 1..MaxMsgs |-> "none"]
    /\ outcomes = [k \in 1..MaxMsgs |-> "none"]
    /\ issued = <<>> /\ up = <<>> /\ down = <<>>
    /\ alive = TRUE /\ pending = {} /\ ran = {}
    /\ chatter = 0 /\ faults = 0

-----------------------------------------------------------------------------
(* Answering the client *)

Say(type) == replies' = [replies EXCEPT ![n] = Append(@, [type |-> type, from |-> used])]

\* _refuse, at the end of the message.
Refuse == Say("refused") /\ pc' = "idle"

\* An exception that is not one of the two of the link ends up in _handle_line.
Escape == Refuse

-----------------------------------------------------------------------------
(* run, _handle_line and dispatch *)

\* readline is called, and the client's next line is there.
Take(kind) ==
    /\ pc = "idle" /\ n < MaxMsgs
    /\ n' = n + 1 /\ msg' = kind /\ pc' = "dispatch"
    /\ verdict' = "none" /\ used' = <<>> /\ listing' = NoListing
    /\ UNCHANGED <<replies, faults, link, server, trail>>

\* The client closes its end: the downstream process is terminated.
Stop ==
    /\ pc = "idle"
    /\ pc' = "closed" /\ alive' = FALSE
    /\ UNCHANGED <<n, replies, faults, link, pending, ran, chatter, trail,
                   local>>

\* readline raises a UnicodeDecodeError out of run(), whose finally terminates the
\* downstream process: the session is over.
ReadFails ==
    /\ pc = "dispatch" /\ msg = "undecodable"
    /\ pc' = "closed" /\ alive' = FALSE
    /\ UNCHANGED <<n, replies, faults, link, pending, ran, chatter, trail, local>>

\* The exception goes past _handle_line to run(), which logs it and answers nothing.
DispatchLost ==
    /\ pc = "dispatch" /\ msg = "unparseable"
    /\ pc' = "idle"
    /\ UNCHANGED <<n, replies, faults, link, server, trail, local>>

\* Everything that is answered without asking the service or the server.
DispatchRefuse ==
    /\ pc = "dispatch"
    /\ msg \in Garbled \union {"bad_call", "not_permitted", "bad_envelope"}
    /\ Refuse
    /\ UNCHANGED <<n, faults, link, server, trail, local>>

\* No id, no answer.
DispatchDrop ==
    /\ pc = "dispatch" /\ msg \in {"other_note", "bad_note"}
    /\ pc' = "idle"
    /\ UNCHANGED <<n, replies, faults, link, server, trail, local>>

\* A write to the server's stdin: it fails when the server is gone and waits while
\* the pipe is full.
CanWrite == ~alive \/ Len(up) < PipeCapacity
Write(m) == up' = IF alive THEN Append(up, m) ELSE up

\* notify
DispatchNotify ==
    /\ pc = "dispatch" /\ msg = "initialized"
    /\ CanWrite /\ Write([type |-> "note", id |-> 0])
    /\ pc' = "idle"
    /\ UNCHANGED <<n, replies, faults, issued, down, server, trail, local>>

DispatchRequest ==
    /\ pc = "dispatch" /\ msg \in {"ping", "list", "call"}
    /\ pc' = IF msg = "call" THEN "authorize" ELSE "send"
    /\ UNCHANGED <<n, replies, faults, link, server, trail, local>>

-----------------------------------------------------------------------------
(* _handle_tools_call: the decision and the grant *)

\* authorize allows and issues a grant, or denies, or raises a ServiceError.
AuthorizeAllow ==
    /\ pc = "authorize"
    /\ grants' = [grants EXCEPT ![n] = "issued"] /\ pc' = "redeem"
    /\ UNCHANGED <<n, replies, faults, link, server, outcomes, local>>

AuthorizeRefuse ==
    /\ pc = "authorize"
    /\ Refuse
    /\ UNCHANGED <<n, faults, link, server, trail, local>>

RedeemOk ==
    /\ pc = "redeem"
    /\ grants' = [grants EXCEPT ![n] = "redeemed"] /\ pc' = "send"
    /\ UNCHANGED <<n, replies, faults, link, server, outcomes, local>>

\* Mutant: the answer of redeem_grant is not looked at.
RedeemDenied_Forwards(status) ==
    /\ pc = "redeem"
    /\ grants' = [grants EXCEPT ![n] = status] /\ pc' = "send"
    /\ UNCHANGED <<n, replies, faults, link, server, outcomes, local>>

\* Expired in between, or no longer invocable, which also spends the grant.
RedeemDenied(status) ==
    /\ pc = "redeem"
    /\ grants' = [grants EXCEPT ![n] = status]
    /\ Refuse
    /\ UNCHANGED <<n, faults, link, server, outcomes, local>>

\* The store raises under authorize or redeem_grant; the record of a denial comes after
\* the denial that spent the grant.
ServiceFault ==
    /\ pc \in {"authorize", "redeem"} /\ faults < MaxFaults
    /\ faults' = faults + 1
    /\ \E status \in {grants[n]} \union (IF pc = "redeem" THEN {"spent"} ELSE {}) :
          grants' = [grants EXCEPT ![n] = status]
    /\ Escape
    /\ UNCHANGED <<n, link, server, outcomes, local>>

-----------------------------------------------------------------------------
(* _DownstreamLink.call *)

\* Mutant: a call the server answered with an error leaves no outcome.
Conclude_SkipsErrors(v) ==
    /\ verdict' = v
    /\ pc' = IF msg = "call" /\ v # "rpc_error" THEN "outcome" ELSE "reply"

\* What the callers of call do with its result or exception: a governed call records
\* its outcome first.
Conclude(v) ==
    /\ verdict' = v
    /\ pc' = IF msg = "call" THEN "outcome" ELSE "reply"

Req == Len(issued)

Send ==
    /\ pc = "send" /\ CanWrite
    /\ issued' = Append(issued, n)
    /\ Write([type |-> msg, id |-> Len(issued) + 1])
    /\ IF alive THEN pc' = "receive" /\ UNCHANGED verdict ELSE Conclude("transport")
    /\ UNCHANGED <<n, replies, faults, down, server, trail, msg, used, listing>>

\* Mutant: any answer will do.
Matches_AnyId(f) == f.type \in AnswerTypes

\* msg.get("id") == req_id, whoever chose the id.
Matches(f) == f.id = Req

\* The next line of stdout.  What is left of a frame that was too long is the next line:
\* not JSON, or as good as a frame of its own, the one that the server sends next.
Incoming == Head(down)
Consume == \/ down' = Tail(down)
           \/ Incoming.type = "flood" /\ down' = <<Bare("not_json")>> \o Tail(down)

\* _read_line and _receive: too long, not JSON, not JSON-RPC.
ReceiveGarbage ==
    /\ pc = "receive" /\ down # <<>>
    /\ Incoming.type \in {"flood", "not_json", "not_rpc"}
    /\ Consume /\ Conclude("transport")
    /\ UNCHANGED <<n, replies, faults, issued, up, server, trail, msg, used,
                   listing>>

\* A UnicodeDecodeError out of json.loads is not a JSONDecodeError, and int() of a code
\* that is not a number raises a ValueError: no handler of the link catches them.
ReceiveEscapes ==
    /\ pc = "receive" /\ down # <<>>
    /\ \/ Incoming.type = "not_utf8"
       \/ Incoming.type = "bad_code" /\ Matches(Incoming)
    /\ Consume /\ Escape
    /\ UNCHANGED <<n, faults, issued, up, server, trail, local>>

Readable(f) == f.type \in AnswerTypes \union {"note", "request"}

\* Notifications and late answers to earlier calls.
ReceiveSkip ==
    /\ pc = "receive" /\ down # <<>>
    /\ Readable(Incoming) /\ ~Matches(Incoming) /\ Incoming.type # "request"
    /\ Consume
    /\ UNCHANGED <<n, pc, replies, faults, issued, up, server, trail, local>>

\* A request of the server's: to be answered with METHOD_NOT_FOUND.
ReceiveRequest ==
    /\ pc = "receive" /\ down # <<>>
    /\ Incoming.type = "request" /\ ~Matches(Incoming)
    /\ pc' = "refuse"
    /\ Consume
    /\ UNCHANGED <<n, replies, faults, issued, up, server, trail, local>>

SendRefusal ==
    /\ pc = "refuse" /\ CanWrite
    /\ Write([type |-> "refusal", id |-> 0])
    /\ IF alive THEN pc' = "receive" /\ UNCHANGED verdict ELSE Conclude("transport")
    /\ UNCHANGED <<n, replies, faults, issued, down, server, trail, msg, used, listing>>

ReceiveError ==
    /\ pc = "receive" /\ down # <<>>
    /\ Incoming.type = "error" /\ Matches(Incoming)
    /\ Consume /\ Conclude("rpc_error")
    /\ UNCHANGED <<n, replies, faults, issued, up, server, trail, msg, used,
                   listing>>

\* Neither result nor error: an empty answer, or a request of the server's under our id.
ReceiveNeither ==
    /\ pc = "receive" /\ down # <<>>
    /\ Incoming.type \in {"neither", "request"} /\ Matches(Incoming)
    /\ Consume /\ Conclude("transport")
    /\ UNCHANGED <<n, replies, faults, issued, up, server, trail, msg, used, listing>>

ReceiveResult ==
    /\ pc = "receive" /\ down # <<>> /\ msg # "list"
    /\ Incoming.type = "result" /\ Matches(Incoming)
    /\ used' = Append(used, Incoming.id)
    /\ Consume /\ Conclude("result")
    /\ UNCHANGED <<n, replies, faults, issued, up, server, trail, msg, listing>>

\* Mutant: no deadline.
Timeout_Never == FALSE

\* The deadline passes with no complete line in the buffer, or the stream ends.
Timeout ==
    /\ pc = "receive"
    /\ Conclude("transport")
    /\ UNCHANGED <<n, replies, faults, link, server, trail, msg, used, listing>>

-----------------------------------------------------------------------------
(* _handle_tools_list *)

\* Mutant: the cap is tested with > instead of >=.
TooLong_OffByOne(l, page) == \/ l.size > MaxListTools
                             \/ page.cursor # EndCursor /\ l.pages > MaxListPages

\* More tools, or more pages, than one request may gather.
TooLong(l, page) == \/ l.size > MaxListTools
                    \/ page.cursor # EndCursor /\ l.pages >= MaxListPages

\* A page that is not an array, too much, a cursor that is not a string or comes back.
RefusePage(l, page) ==
    \/ page = NoPage
    \/ TooLong(l, page)
    \/ page.cursor = BadCursor \/ page.cursor \in l.seen

ReceivePage ==
    /\ pc = "receive" /\ down # <<>> /\ msg = "list"
    /\ Incoming.type = "result" /\ Matches(Incoming)
    /\ LET page == Incoming.page
           next == [pages |-> listing.pages + 1, size |-> listing.size + page.size,
                    seen |-> listing.seen]
       IN  /\ used' = Append(used, Incoming.id)
           /\ \/ /\ RefusePage(next, page)
                 /\ Conclude("transport") /\ UNCHANGED listing
              \/ /\ ~RefusePage(next, page) /\ page.cursor = EndCursor
                 /\ Conclude("result") /\ listing' = next
              \/ /\ ~RefusePage(next, page) /\ page.cursor # EndCursor
                 /\ listing' = [next EXCEPT !.seen = @ \union {page.cursor}]
                 /\ pc' = "send" /\ UNCHANGED verdict
    /\ Consume
    /\ UNCHANGED <<n, replies, faults, issued, up, server, trail, msg>>

-----------------------------------------------------------------------------
(* The end of a call *)

Outcome == IF verdict = "transport" THEN "error" ELSE "executed"

\* _best_effort_outcome: record_outcome appends the record, then closes the grant.
RecordOutcome ==
    /\ pc = "outcome"
    /\ outcomes' = [outcomes EXCEPT ![n] = Outcome]
    /\ grants' = [grants EXCEPT ![n] = "closed"]
    /\ pc' = "reply"
    /\ UNCHANGED <<n, replies, faults, link, server, local>>

\* It raises, before the record is appended or between the two: swallowed.
OutcomeFault ==
    /\ pc = "outcome" /\ faults < MaxFaults
    /\ faults' = faults + 1
    /\ \E o \in {"lost", Outcome} : outcomes' = [outcomes EXCEPT ![n] = o]
    /\ pc' = "reply"
    /\ UNCHANGED <<n, replies, link, server, grants, local>>

\* Mutant: the refusal after a fault does not return.
Reply_FallsThrough ==
    /\ pc = "reply"
    /\ Say(IF verdict = "transport" THEN "unavailable" ELSE verdict)
    /\ IF verdict = "transport" THEN verdict' = "result" /\ UNCHANGED pc
       ELSE pc' = "idle" /\ UNCHANGED verdict
    /\ UNCHANGED <<n, faults, link, server, trail, msg, used, listing>>

\* _respond with the result, or _refuse with the server's error or our own.
Reply ==
    /\ pc = "reply"
    /\ Say(IF verdict = "transport" THEN "unavailable" ELSE verdict)
    /\ pc' = "idle"
    /\ UNCHANGED <<n, faults, link, server, trail, local>>

-----------------------------------------------------------------------------
(* The downstream server, another program *)

ServerRead ==
    /\ alive /\ up # <<>>
    /\ up' = Tail(up)
    /\ LET m == Head(up)
       IN  /\ pending' = IF m.id = 0 THEN pending ELSE pending \union {m.id}
           /\ ran' = IF m.type = "call" THEN ran \union {m.id} ELSE ran
    /\ UNCHANGED <<n, pc, replies, faults, issued, down, alive, chatter, trail,
                   local>>

\* In any order, early or late, but only what it has read.  (Ids are counted up, so a server
\* could answer a request to come; the request then takes that answer for its own, and what
\* the trail says of it is the server's word.)
ServerAnswer(id, type, page) ==
    /\ alive /\ id \in pending
    /\ (type # "result" \/ msg # "list") => page = NoPage
    /\ pending' = pending \ {id}
    /\ down' = Append(down, [type |-> type, id |-> id, page |-> page])
    /\ UNCHANGED <<n, pc, replies, faults, issued, up, alive, ran, chatter,
                   trail, local>>

Unasked == {Bare(t) : t \in ChatterKinds \intersect Noise}
             \union {[type |-> "request", id |-> s, page |-> NoPage] : s \in
                        IF "request" \in ChatterKinds THEN ServerIds ELSE {}}

ServerChatter(f) ==
    /\ alive /\ chatter < MaxChatter
    /\ chatter' = chatter + 1
    /\ down' = Append(down, f)
    /\ UNCHANGED <<n, pc, replies, faults, issued, up, alive, pending, ran, trail,
                   local>>

ServerDies ==
    /\ alive
    /\ alive' = FALSE
    /\ UNCHANGED <<n, pc, replies, faults, link, pending, ran, chatter, trail,
                   local>>

-----------------------------------------------------------------------------
Dispatch ==
    \/ ReadFails \/ DispatchLost \/ DispatchRefuse
    \/ DispatchDrop \/ DispatchNotify \/ DispatchRequest

Governed ==
    \/ AuthorizeAllow \/ AuthorizeRefuse \/ RedeemOk \/ ServiceFault
    \/ \E status \in {"issued", "spent"} : RedeemDenied(status)

Call ==
    \/ Send \/ ReceiveGarbage \/ ReceiveEscapes \/ ReceiveSkip \/ ReceiveRequest \/ SendRefusal
    \/ ReceiveError \/ ReceiveNeither \/ ReceiveResult \/ ReceivePage \/ Timeout

GatewayStep == Dispatch \/ Governed \/ Call \/ RecordOutcome \/ OutcomeFault \/ Reply

ServerStep ==
    \/ ServerRead \/ ServerDies
    \/ \E id \in pending, type \in AnswerKinds, page \in Pages \union {NoPage} :
          ServerAnswer(id, type, page)
    \/ \E f \in Unasked : ServerChatter(f)

Next == (\E kind \in ClientKinds : Take(kind)) \/ Stop \/ GatewayStep \/ ServerStep

\* The gateway's thread runs and its clock moves; nothing is asked of the client or of
\* the server.
Spec == Init /\ [][Next]_vars /\ WF_vars(GatewayStep)

-----------------------------------------------------------------------------
(* Properties *)

For(k) == {i \in 1..Len(issued) : issued[i] = k}

\* Module docstring of gateway.py: nothing reaches the server but an authorized, redeemed
\* tools/call or plumbing.  Every tools/call the server has read was sent for a client
\* message whose grant was redeemed, and no grant carried two of them.
OnlyRedeemedCallsRun ==
    \A i \in ran : /\ grants[issued[i]] \in {"redeemed", "closed"}
                   /\ For(issued[i]) = {i}

\* _DownstreamLink.call: out-of-band chatter, and the late answer to a call that was given
\* up, are never mistaken for the answer to this call.  A result given to the client is
\* built only from answers to the requests sent for that very message, a listing from
\* all its pages.
ResultsAreOwn ==
    \A k \in 1..MaxMsgs : \A r \in 1..Len(replies[k]) :
        replies[k][r].type = "result" =>
            LET from == replies[k][r].from
            IN  {from[j] : j \in 1..Len(from)} = For(k) /\ Len(from) = Cardinality(For(k))

\* _best_effort_outcome and ADR 0003 G3: the trail tells what happened.  Executed means that
\* the server read the call and answered it; and when the client is answered, the trail says
\* the same as the answer, unless recording it raised or an exception that the link does not
\* know ended the call in an internal error.  Recording comes last and takes nothing away:
\* a call that got as far as its outcome, recorded or lost, is answered with what the server
\* said of it, never with an internal error.
TrailMatchesReply ==
    \A k \in 1..MaxMsgs :
        /\ outcomes[k] = "executed" => For(k) # {} /\ For(k) \subseteq ran \ pending
        /\ outcomes[k] # "none" /\ replies[k] # NoReply => replies[k][1].type # "refused"
        /\ (/\ replies[k] # NoReply /\ replies[k][1].type # "refused"
            /\ grants[k] # "none" /\ For(k) # {}) =>
              outcomes[k] \in {"lost", IF replies[k][1].type = "unavailable" THEN "error"
                                       ELSE "executed"}

\* A request is answered once, and a notification never.
AnsweredOnce ==
    \A k \in 1..n :
        /\ Len(replies[k]) <= 1
        /\ k = n /\ msg \in Notifications => replies[k] = NoReply

\* _handle_tools_list: however the server paginates, one tools/list costs it at most
\* _MAX_LIST_PAGES requests, and no listing that becomes a result holds more than
\* _MAX_LIST_TOOLS tools, counted over all its pages.
ListingIsBounded ==
    /\ \A k \in 1..MaxMsgs : Cardinality(For(k)) <= MaxListPages
    /\ msg = "list" /\ verdict = "result" => listing.size <= MaxListTools

\* _send waits for a server that does not read its input.
Blocked == /\ ~CanWrite
           /\ pc \in {"send", "refuse"} \/ (pc = "dispatch" /\ msg = "initialized")

\* run, _handle_line: whatever the server does, the gateway gets to the end of every
\* message, and a message with an id has been answered by then; only a server that stops
\* reading its input for good can prevent that.  Two kinds of client line are excepted: one
\* that json.loads cannot take is passed over without an answer, and one that is not UTF-8
\* ends the session, for readline is outside the try that protects a message.
EveryMessageIsHandled ==
    \/ <>[]Blocked
    \/ \A k \in 1..MaxMsgs :
          (n = k /\ pc = "dispatch") ~>
              \/ /\ n = k /\ pc = "idle"
                 /\ msg \notin Notifications \union Unreadable => Len(replies[k]) = 1
              \/ n = k /\ pc = "closed" /\ msg = "undecodable"
=============================================================================
