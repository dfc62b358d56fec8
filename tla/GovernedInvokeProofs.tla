------------------------ MODULE GovernedInvokeProofs ------------------------
(***************************************************************************)
(* governed_invoke keeps its promises for any number of callers and of     *)
(* attempts: a job runs once, only under a grant that is spent on disk;    *)
(* the audit trail and the event bus say what happened; a result that was  *)
(* obtained is returned; and a call leaves nothing open behind it.         *)
(*                                                                         *)
(* The argument follows a call through its life.  What the client knows    *)
(* (Phase) decides what runs and what is returned.  What is on its way or  *)
(* being handled (Wire, Handled, Answered) is true of the rows on disk,    *)
(* which only move forward.  And from the moment a call has something to   *)
(* report, the report is on its way, being handled, or on the trail        *)
(* (Reports), unless it met with a mishap.                                 *)
(***************************************************************************)
EXTENDS GovernedInvoke, TLAPS

Req(c, op) == [call |-> c, op |-> op]
Spent == {"spent", "spent_closed"}
Shut == {"closed", "spent_closed"}

TypeOK ==
    /\ grant \in [Calls -> {"absent", "issued", "closed"} \union Spent]
    /\ trail \subseteq [call : Calls, fact : {"allowed", "denied", "executed", "error"}]
    /\ bus \in Events \union {None}
    /\ handler \in Handlers \union {None}
    /\ wire \subseteq [call : Calls, op : Ops]
    /\ reply \in [Calls -> Answers \union {None}]
    /\ pc \in [Calls -> Ops \union {"new", "running", "done"}]
    /\ told \subseteq Calls
    /\ result \in [Calls -> Refusals \union {"none", "result", "executor's exception",
                                             "IncompleteRead"}]
    /\ ran \in [Calls -> {"no", "running", "returned", "raised"}]
    /\ mishaps \subseteq Calls

\* What the executor has done follows from where the call is, and so does what it returns.
Phase(c) ==
    /\ pc[c] \in {"new", "authorize", "redeem"} => ran[c] = "no"
    /\ pc[c] = "running" => ran[c] = "running"
    /\ pc[c] = "executed" => ran[c] = "returned" /\ result[c] = "result"
    /\ pc[c] \in {"close", "error"} =>
          /\ ran[c] \in {"no", "raised"}
          /\ ran[c] = "raised" => result[c] = "executor's exception"
    /\ pc[c] = "done" =>
          /\ ran[c] # "running"
          /\ result[c] # "IncompleteRead" =>
                /\ ran[c] = "returned" => result[c] = "result"
                /\ ran[c] = "raised" => result[c] = "executor's exception"

\* The earlier calls of the same caller are over, and were refused.
InTurn(c) ==
    pc[c] # "new" => \A d \in Calls : d[1] = c[1] /\ d[2] < c[2] =>
                        pc[d] = "done" /\ result[d] \in Refusals

ClientInv == \A c \in Calls : Phase(c) /\ InTurn(c)

Busy(c) == handler # None /\ handler.call = c

\* What is on its way, or was recorded, is true and stays true.
Wire(c) ==
    /\ pc[c] = "new" =>
          grant[c] = "absent" /\ ~Busy(c) /\ \A op \in Ops : Req(c, op) \notin wire
    /\ Req(c, "authorize") \in wire =>
          grant[c] = "absent" /\ ~(Busy(c) /\ handler.op = "authorize")
    /\ Req(c, "executed") \in wire \/ Fact(c, "executed") \in trail => ran[c] = "returned"
    /\ Req(c, "error") \in wire \/ Fact(c, "error") \in trail =>
          pc[c] \in {"error", "done"} /\ ran[c] \in {"no", "raised"}

\* What a handler holds in its hands, by the request it handles.
Handled ==
    LET c == handler.call
        op == handler.op
    IN  /\ op = "close" => ~handler.second
        /\ op \in {"executed", "error"} => Fact(c, op) \in trail
        /\ handler.answer = "allow" => op = "authorize"
        /\ handler.answer = "allow" /\ ~handler.second => grant[c] # "absent"
        /\ handler.answer = "redeemed" => grant[c] \in Spent
        /\ op \in {"executed", "error"} /\ ~handler.second => grant[c] \notin {"issued", "spent"}
        /\ ~handler.second => \A i \in DOMAIN handler.events : Landed(handler.events[i])
        /\ handler.second =>
              /\ op = "authorize" =>
                    /\ grant[c] = "absent" /\ Fact(c, "allowed") \in trail
                    /\ handler.events = <<Event(c, "tool.authorized", None),
                                          Event(c, "grant.issued", None)>>
              /\ op = "redeem" => handler.events = <<>>
              /\ op \in {"executed", "error"} =>
                    handler.events = <<Event(c, "tool.executed", BusOutcome(op))>>

HandlerInv ==
    /\ handler # None => Handled
    /\ bus # None => handler # None /\ ~handler.second /\ Landed(bus)

\* What a client can read, and what it goes by.
Answered(c) ==
    /\ reply[c] = "allow" => grant[c] # "absent"
    /\ reply[c] = "redeemed" => grant[c] \in Spent
    /\ reply[c] = "cut" => c \in mishaps
    /\ c \in told => pc[c] \notin {"new", "authorize"} /\ grant[c] # "absent"

ServerInv == HandlerInv /\ \A c \in Calls : Wire(c) /\ Answered(c)

Report(c) == IF ran[c] = "returned" THEN "executed" ELSE "error"

\* A report is on its way, or being handled, or has been.
Reports(c) ==
    c \in told \ mishaps /\ pc[c] \in {"executed", "error", "done"} =>
        \/ Req(c, Report(c)) \in wire
        \/ Busy(c) /\ handler.op = Report(c)
        \/ Fact(c, Report(c)) \in trail /\ grant[c] \in Shut

ReportInv == \A c \in Calls : Reports(c)

-----------------------------------------------------------------------------
(* How a call moves *)

Phases == Ops \union {"new", "running", "done"}
Results == Refusals \union {"none", "result", "executor's exception", "IncompleteRead"}
Runs == {"no", "running", "returned", "raised"}

\* Call c goes from a phase to another and leaves every other call where it is.
Goes(c, from, to, outcome, run) ==
    /\ pc' \in [Calls -> Phases] /\ result' \in [Calls -> Results] /\ ran' \in [Calls -> Runs]
    /\ pc[c] = from /\ pc'[c] = to /\ result'[c] = outcome /\ ran'[c] = run
    /\ \A d \in Calls \ {c} : pc'[d] = pc[d] /\ result'[d] = result[d] /\ ran'[d] = ran[d]

Sends(c, op) == wire' = wire \union {Req(c, op)}

\* The moves of governed_invoke, by what the client has read.
Moves(c, seen) ==
    \/ /\ Goes(c, "new", "authorize", result[c], ran[c]) /\ Sends(c, "authorize") /\ told' = told
       /\ \A d \in Earlier(c) : pc[d] = "done" /\ result[d] \in Refusals
    \/ /\ Goes(c, "authorize", "redeem", result[c], ran[c]) /\ Sends(c, "redeem")
       /\ seen = "allow" /\ told' = told \union {c}
    \/ \E e \in Refusals \union {"IncompleteRead"} :
          Goes(c, "authorize", "done", e, ran[c]) /\ wire' = wire /\ told' = told
    \/ /\ Goes(c, "redeem", "running", result[c], "running") /\ wire' = wire
       /\ seen = "redeemed" /\ told' = told
    \/ \E e \in Refusals \union {"IncompleteRead"} :
          Goes(c, "redeem", "close", e, ran[c]) /\ Sends(c, "close") /\ told' = told
    \/ /\ Goes(c, "close", "done", "IncompleteRead", ran[c]) /\ wire' = wire
       /\ seen = "cut" /\ told' = told
    \/ Goes(c, "close", "error", result[c], ran[c]) /\ Sends(c, "error") /\ told' = told
    \/ \E from \in {"executed", "error"}, e \in {result[c], "IncompleteRead"} :
          Goes(c, from, "done", e, ran[c]) /\ wire' = wire /\ told' = told
    \/ Goes(c, "running", "executed", "result", "returned") /\ Sends(c, "executed") /\ told' = told
    \/ Goes(c, "running", "close", "executor's exception", "raised") /\ Sends(c, "close") /\ told' = told

ClientMoves(c) ==
    /\ UNCHANGED <<grant, trail, bus, handler, mishaps>>
    /\ \/ /\ reply[c] # None /\ Moves(c, reply[c])
          /\ reply' = [reply EXCEPT ![c] = None]
       \/ Moves(c, "unusable") /\ reply' = reply

LEMMA RaisedType ==
    ASSUME NEW seen PROVE Raised(seen) \in Refusals \union {"IncompleteRead"}
BY DEF Raised, Refusals

LEMMA ReactMoves ==
    ASSUME TypeOK, NEW c \in Calls, NEW seen, React(c, seen)
    PROVE  Moves(c, seen)
<1> USE DEF Send, End, CleanUp, Goes, Sends, Req, Phases, Ops, Results, Refusals, Runs
<1>0. pc \in [Calls -> Phases] /\ result \in [Calls -> Results] /\ ran \in [Calls -> Runs]
  BY DEF TypeOK, Phases, Results, Runs
<1>1. CASE OnAuthorize(c, seen)
  <2>1. CASE seen = "allow"
    BY <1>0, <1>1, <2>1 DEF OnAuthorize, Moves
  <2>2. CASE seen # "allow"
    <3>1. PICK e \in Refusals \union {"IncompleteRead"} : End(c, e)
      BY <1>1, <2>2, RaisedType DEF OnAuthorize, Refusals
    <3>2. Goes(c, "authorize", "done", e, ran[c]) /\ wire' = wire /\ told' = told
      BY <1>0, <1>1, <2>2, <3>1 DEF OnAuthorize
    <3> HIDE DEF Goes, Sends
    <3>3. QED BY <3>2 DEF Moves
  <2>3. QED BY <2>1, <2>2
<1>2. CASE OnRedeem(c, seen)
  <2>1. CASE seen = "redeemed"
    BY <1>0, <1>2, <2>1 DEF OnRedeem, Moves
  <2>2. CASE seen # "redeemed"
    <3>1. PICK e \in Refusals \union {"IncompleteRead"} : CleanUp(c, e)
      BY <1>2, <2>2, RaisedType DEF OnRedeem
    <3>2. Goes(c, "redeem", "close", e, ran[c]) /\ Sends(c, "close") /\ told' = told
      BY <1>0, <1>2, <2>2, <3>1 DEF OnRedeem
    <3> HIDE DEF Goes, Sends
    <3>3. QED BY <3>2 DEF Moves
  <2>3. QED BY <2>1, <2>2
<1>3. CASE OnClose(c, seen)
  <2>1. \/ Goes(c, "close", "done", "IncompleteRead", ran[c]) /\ wire' = wire /\ seen = "cut"
        \/ Goes(c, "close", "error", result[c], ran[c]) /\ Sends(c, "error")
    BY <1>0, <1>3 DEF OnClose
  <2>2. told' = told
    BY <1>3 DEF OnClose
  <2> HIDE DEF Goes, Sends
  <2>3. QED BY <2>1, <2>2 DEF Moves
<1>4. CASE OnReport(c, seen)
  <2>1. PICK from \in {"executed", "error"}, e \in {result[c], "IncompleteRead"} :
           pc[c] = from /\ End(c, e)
    BY <1>4 DEF OnReport
  <2>2. Goes(c, from, "done", e, ran[c]) /\ wire' = wire /\ told' = told
    BY <1>0, <1>4, <2>1 DEF OnReport
  <2> HIDE DEF Goes, Sends
  <2>3. QED BY <2>1, <2>2 DEF Moves
<1>5. QED BY <1>1, <1>2, <1>3, <1>4 DEF React

LEMMA ClientSteps ==
    ASSUME TypeOK, NEW c \in Calls, Start(c) \/ ClientStep(c)
    PROVE  ClientMoves(c)
<1> USE DEF server, Phases, Ops, Results, Refusals, Runs
<1>0. pc \in [Calls -> Phases] /\ result \in [Calls -> Results] /\ ran \in [Calls -> Runs]
  BY DEF TypeOK, Phases, Results, Runs
<1>1. CASE Start(c)
  <2>1. Goes(c, "new", "authorize", result[c], ran[c]) /\ Sends(c, "authorize")
    BY <1>0, <1>1 DEF Start, Send, Goes, Sends, Req
  <2>2. QED BY <1>1, <2>1 DEF Start, ClientMoves, Moves
<1>2. CASE Receive(c)
  BY <1>2, ReactMoves DEF Receive, ClientMoves
<1>3. CASE TimeOut(c)
  BY <1>3, ReactMoves DEF TimeOut, ClientMoves
<1>4. CASE ExecutorReturns(c)
  <2>1. Goes(c, "running", "executed", "result", "returned") /\ Sends(c, "executed")
    BY <1>0, <1>4 DEF ExecutorReturns, Send, Goes, Sends, Req
  <2>2. QED BY <1>4, <2>1 DEF ExecutorReturns, ClientMoves, Moves
<1>5. CASE ExecutorRaises(c)
  <2>1. Goes(c, "running", "close", "executor's exception", "raised") /\ Sends(c, "close")
    BY <1>0, <1>5 DEF ExecutorRaises, CleanUp, Send, Goes, Sends, Req
  <2>2. QED BY <1>5, <2>1 DEF ExecutorRaises, ClientMoves, Moves
<1>6. QED BY <1>1, <1>2, <1>3, <1>4, <1>5 DEF ClientStep

LEMMA SendsFacts ==
    ASSUME TypeOK, NEW c \in Calls, NEW to \in Ops, Sends(c, to)
    PROVE  /\ wire' \subseteq [call : Calls, op : Ops]
           /\ \A d \in Calls, op \in Ops : Req(d, op) \in wire' <=>
                 Req(d, op) \in wire \/ (d = c /\ op = to)
<1>1. \A d \in Calls, op \in Ops : Req(d, op) = Req(c, to) <=> d = c /\ op = to
  BY DEF Req
<1>2. Req(c, to) \in [call : Calls, op : Ops] /\ wire \subseteq [call : Calls, op : Ops]
  BY DEF Req, TypeOK
<1>3. QED BY <1>1, <1>2 DEF Sends

-----------------------------------------------------------------------------
(* What a server's step does *)

\* The client's side of the calls is left alone, requests only leave the wire, and a call
\* that meets with a mishap is noted.
Serves ==
    /\ UNCHANGED <<pc, told, result, ran>>
    /\ wire' \subseteq wire /\ mishaps \subseteq mishaps'

LEMMA ServerSteps ==
    ASSUME ServerStep \/ \E request \in wire : Lose(request)
    PROVE  Serves
<1> USE DEF Serves, client, server
<1>1. ASSUME NEW c \in Calls, NEW op, Take(c, op) PROVE UNCHANGED mishaps /\ Serves
  BY <1>1 DEF Take
<1>2. CASE \E c \in Calls : \/ Authorize(c) \/ Redeem(c) \/ CloseGrant(c)
                            \/ \E outcome \in {"executed", "error"} : RecordOutcome(c, outcome)
  <2> HIDE DEF Serves
  <2>1. QED BY <1>1, <1>2 DEF Authorize, Redeem, CloseGrant, RecordOutcome
<1>3. CASE Second \/ Publish \/ Fault \/ Crash
  BY <1>3 DEF Second, Publish, Fault, Crash
<1>4. CASE Respond
  BY <1>4 DEF Respond
<1>5. CASE \E request \in wire : Lose(request)
  BY <1>5 DEF Lose
<1>6. QED BY <1>2, <1>3, <1>4, <1>5 DEF ServerStep

LEMMA NextSteps ==
    ASSUME TypeOK, [Next]_vars
    PROVE  \/ \E c \in Calls : ClientMoves(c)
           \/ ServerStep \/ \E request \in wire : Lose(request)
           \/ UNCHANGED vars
BY ClientSteps DEF Next

-----------------------------------------------------------------------------
(* What runs, and what is returned *)

\* Every move leads to a phase whose claims it meets.
LEMMA PhaseMoves ==
    ASSUME TypeOK, NEW c \in Calls, Phase(c), NEW seen, Moves(c, seen)
    PROVE  /\ Phase(c)' /\ pc'[c] # "new"
           /\ \A d \in Calls \ {c} :
                 pc'[d] = pc[d] /\ result'[d] = result[d] /\ ran'[d] = ran[d]
           /\ pc[c] # "done"
<1> DEFINE Done == /\ Phase(c)' /\ pc'[c] # "new" /\ pc[c] # "done"
                   /\ \A d \in Calls \ {c} :
                         pc'[d] = pc[d] /\ result'[d] = result[d] /\ ran'[d] = ran[d]
<1>2. CASE Goes(c, "new", "authorize", result[c], ran[c])
  BY <1>2 DEF Phase, Goes
<1>3. CASE Goes(c, "authorize", "redeem", result[c], ran[c])
  BY <1>3 DEF Phase, Goes
<1>4. ASSUME NEW e \in Refusals \union {"IncompleteRead"},
             Goes(c, "authorize", "done", e, ran[c])
      PROVE  Done
  BY <1>4 DEF Phase, Goes
<1>5. CASE Goes(c, "redeem", "running", result[c], "running")
  BY <1>5 DEF Phase, Goes
<1>6. ASSUME NEW e \in Refusals \union {"IncompleteRead"},
             Goes(c, "redeem", "close", e, ran[c])
      PROVE  Done
  BY <1>6 DEF Phase, Goes
<1>7. CASE Goes(c, "close", "done", "IncompleteRead", ran[c])
  BY <1>7 DEF Phase, Goes
<1>8. CASE Goes(c, "close", "error", result[c], ran[c])
  BY <1>8 DEF Phase, Goes
<1>9. ASSUME NEW from \in {"executed", "error"}, NEW e \in {result[c], "IncompleteRead"},
             Goes(c, from, "done", e, ran[c])
      PROVE  Done
  BY <1>9 DEF Phase, Goes
<1>10. CASE Goes(c, "running", "executed", "result", "returned")
  BY <1>10 DEF Phase, Goes
<1>11. CASE Goes(c, "running", "close", "executor's exception", "raised")
  BY <1>11 DEF Phase, Goes
<1>12. QED BY <1>2, <1>3, <1>4, <1>5, <1>6, <1>7, <1>8, <1>9, <1>10, <1>11 DEF Moves

LEMMA TurnMoves ==
    ASSUME TypeOK, ClientInv, NEW c \in Calls, NEW seen, Moves(c, seen), NEW k \in Calls
    PROVE  InTurn(k)'
<1>1. /\ pc[c] # "done" /\ pc'[c] # "new"
      /\ \A d \in Calls \ {c} : pc'[d] = pc[d] /\ result'[d] = result[d]
  BY PhaseMoves DEF ClientInv
<1>2. \A d \in Calls : pc[d] = "done" /\ result[d] \in Refusals =>
                         pc'[d] = "done" /\ result'[d] \in Refusals
  BY <1>1
<1>3. CASE pc[k] # "new"
  BY <1>2, <1>3 DEF ClientInv, InTurn
<1>4. CASE pc[k] = "new" /\ k # c
  BY <1>1, <1>4 DEF InTurn
<1>5. CASE pc[k] = "new" /\ k = c
  <2>1. \A d \in Earlier(c) : pc[d] = "done" /\ result[d] \in Refusals
    BY <1>5 DEF Moves, Goes
  <2>2. SUFFICES ASSUME NEW d \in Calls, d[1] = c[1], d[2] < c[2]
                 PROVE  pc[d] = "done" /\ result[d] \in Refusals
    BY <1>2, <1>5 DEF InTurn
  <2>3. /\ c[1] \in Callers /\ c[2] \in 1..MaxAttempts
        /\ d[1] \in Callers /\ d[2] \in 1..MaxAttempts
        /\ d = <<d[1], d[2]>>
    BY DEF Calls
  <2>4. MaxAttempts \in Nat
    BY AttemptsAssumption
  <2> DEFINE e == <<c[1], c[2] - 1>>
  <2>5. e \in Calls /\ e[1] = c[1] /\ e[2] = c[2] - 1
    BY <2>2, <2>3, <2>4 DEF Calls
  <2>6. pc[e] = "done" /\ result[e] \in Refusals
    BY <2>1, <2>2, <2>3, <2>4 DEF Earlier
  <2>7. CASE d[2] = c[2] - 1
    BY <2>2, <2>3, <2>6, <2>7
  <2>8. CASE d[2] # c[2] - 1
    <3>1. d[1] = e[1] /\ d[2] < e[2]
      BY <2>2, <2>3, <2>4, <2>5, <2>8
    <3> HIDE DEF e
    <3>2. QED BY <2>5, <2>6, <3>1 DEF ClientInv, InTurn
  <2>9. QED BY <2>7, <2>8
<1>6. QED BY <1>3, <1>4, <1>5

LEMMA ClientInvStep ==
    ASSUME TypeOK, ClientInv, [Next]_vars
    PROVE  ClientInv'
<1>1. ASSUME NEW c \in Calls, ClientMoves(c) PROVE ClientInv'
  <2>1. PICK seen : Moves(c, seen)
    BY <1>1 DEF ClientMoves
  <2>2. Phase(c)' /\ \A d \in Calls \ {c} :
                        pc'[d] = pc[d] /\ result'[d] = result[d] /\ ran'[d] = ran[d]
    BY <2>1, PhaseMoves DEF ClientInv
  <2>3. \A d \in Calls : Phase(d)'
    BY <2>2 DEF ClientInv, Phase
  <2>4. \A d \in Calls : InTurn(d)'
    BY <2>1, TurnMoves
  <2>5. QED BY <2>3, <2>4 DEF ClientInv
<1>2. CASE UNCHANGED <<pc, told, result, ran>>
  BY <1>2 DEF ClientInv, Phase, InTurn
<1>3. QED BY <1>1, <1>2, NextSteps, ServerSteps DEF Serves, vars, client

-----------------------------------------------------------------------------
(* Types *)

LEMMA MoveTypes ==
    ASSUME TypeOK, NEW c \in Calls, NEW seen, Moves(c, seen)
    PROVE  /\ pc' \in [Calls -> Phases] /\ result' \in [Calls -> Results]
           /\ ran' \in [Calls -> Runs] /\ told' \subseteq Calls
           /\ wire' \subseteq [call : Calls, op : Ops]
<1>1. /\ pc' \in [Calls -> Phases] /\ result' \in [Calls -> Results]
      /\ ran' \in [Calls -> Runs]
  BY DEF Moves, Goes
<1>2. told' \subseteq Calls
  BY DEF Moves, TypeOK
<1>3. wire' = wire \/ \E op \in Ops : Sends(c, op)
  BY DEF Moves, Ops
<1>4. wire' \subseteq [call : Calls, op : Ops]
  BY <1>3, SendsFacts DEF TypeOK
<1>5. QED BY <1>1, <1>2, <1>4

LEMMA EventType ==
    ASSUME NEW c \in Calls,
           NEW type \in {"tool.authorized", "grant.issued", "grant.redeemed", "tool.executed"},
           NEW outcome \in {None, "denied", "succeeded", "failed"}
    PROVE  Event(c, type, outcome) \in Events
BY DEF Event, Events

\* A handler takes the request of call c and goes on with what is left to do.
Takes(c, op, answer, second, events) ==
    /\ handler = None /\ Req(c, op) \in wire /\ wire' = wire \ {Req(c, op)}
    /\ UNCHANGED <<reply, bus, mishaps>>
    /\ handler' \in Handlers /\ handler' # None
    /\ handler'.call = c /\ handler'.op = op /\ handler'.answer = answer
    /\ handler'.second = second /\ handler'.events = events

Sets(c, state) == grant' = [grant EXCEPT ![c] = state]

Handles(c) ==
    \/ /\ Takes(c, "authorize", "allow", TRUE,
                <<Event(c, "tool.authorized", None), Event(c, "grant.issued", None)>>)
       /\ trail' = trail \union {Fact(c, "allowed")} /\ grant' = grant
    \/ /\ Takes(c, "authorize", "deny", FALSE, <<Event(c, "tool.authorized", "denied")>>)
       /\ trail' = trail \union {Fact(c, "denied")} /\ grant' = grant
    \/ /\ Takes(c, "redeem", "redeemed", FALSE, <<Event(c, "grant.redeemed", None)>>)
       /\ grant[c] = "issued" /\ Sets(c, "spent") /\ trail' = trail
    \/ /\ Takes(c, "redeem", "denied", TRUE, <<>>)
       /\ grant' = grant \/ (grant[c] = "issued" /\ Sets(c, "closed"))
       /\ trail' = trail
    \/ /\ Takes(c, "close", "ok", FALSE, <<>>)
       /\ Sets(c, Closed(grant[c])) /\ trail' = trail
    \/ \E op \in {"executed", "error"} :
          /\ Takes(c, op, "ok", TRUE, <<Event(c, "tool.executed", BusOutcome(op))>>)
          /\ trail' = trail \union {Fact(c, op)} /\ grant' = grant

LEMMA TakeSteps ==
    ASSUME NEW c \in Calls,
           \/ Authorize(c) \/ Redeem(c) \/ CloseGrant(c)
           \/ \E outcome \in {"executed", "error"} : RecordOutcome(c, outcome)
    PROVE  Handles(c)
<1> DEFINE H(op, answer, second, events) ==
             [call |-> c, op |-> op, answer |-> answer, second |-> second, events |-> events]
<1>0. /\ Event(c, "tool.authorized", None) \in Events /\ Event(c, "grant.issued", None) \in Events
      /\ Event(c, "tool.authorized", "denied") \in Events
      /\ Event(c, "grant.redeemed", None) \in Events
      /\ \A op \in {"executed", "error"} : Event(c, "tool.executed", BusOutcome(op)) \in Events
  BY EventType DEF BusOutcome
<1>1. CASE Authorize(c)
  <2>1. CASE Continue(c, "authorize", "allow", TRUE,
                      <<Event(c, "tool.authorized", None), Event(c, "grant.issued", None)>>)
             /\ trail' = trail \union {Fact(c, "allowed")}
    <3> DEFINE events == <<Event(c, "tool.authorized", None), Event(c, "grant.issued", None)>>
    <3>1. events \in Seq(Events)
      BY <1>0
    <3> HIDE DEF events
    <3>2. handler' = H("authorize", "allow", TRUE, events)
      BY <2>1 DEF Continue, events
    <3>3. H("authorize", "allow", TRUE, events) \in Handlers
      BY <3>1 DEF Handlers, Ops, Answers
    <3>4. Takes(c, "authorize", "allow", TRUE, events) /\ grant' = grant
      BY <1>1, <3>2, <3>3, NoneAssumption DEF Authorize, Take, Takes, Req
    <3>5. QED BY <2>1, <3>4 DEF Handles, events
  <2>2. CASE Continue(c, "authorize", "deny", FALSE, <<Event(c, "tool.authorized", "denied")>>)
             /\ trail' = trail \union {Fact(c, "denied")}
    <3> DEFINE events == <<Event(c, "tool.authorized", "denied")>>
    <3>1. events \in Seq(Events)
      BY <1>0
    <3> HIDE DEF events
    <3>2. handler' = H("authorize", "deny", FALSE, events)
      BY <2>2 DEF Continue, events
    <3>3. H("authorize", "deny", FALSE, events) \in Handlers
      BY <3>1 DEF Handlers, Ops, Answers
    <3>4. Takes(c, "authorize", "deny", FALSE, events) /\ grant' = grant
      BY <1>1, <3>2, <3>3, NoneAssumption DEF Authorize, Take, Takes, Req
    <3>5. QED BY <2>2, <3>4 DEF Handles, events
  <2>3. QED BY <1>1, <2>1, <2>2 DEF Authorize
<1>2. CASE Redeem(c)
  <2>1. CASE Continue(c, "redeem", "redeemed", FALSE, <<Event(c, "grant.redeemed", None)>>)
             /\ grant[c] = "issued" /\ Sets(c, "spent")
    <3> DEFINE events == <<Event(c, "grant.redeemed", None)>>
    <3>1. events \in Seq(Events)
      BY <1>0
    <3> HIDE DEF events
    <3>2. handler' = H("redeem", "redeemed", FALSE, events)
      BY <2>1 DEF Continue, events
    <3>3. H("redeem", "redeemed", FALSE, events) \in Handlers
      BY <3>1 DEF Handlers, Ops, Answers
    <3>4. Takes(c, "redeem", "redeemed", FALSE, events) /\ trail' = trail
      BY <1>2, <3>2, <3>3, NoneAssumption DEF Redeem, Take, Takes, Req
    <3>5. QED BY <2>1, <3>4 DEF Handles, events
  <2>2. CASE /\ Continue(c, "redeem", "denied", TRUE, <<>>)
             /\ grant' = grant \/ (grant[c] = "issued" /\ Sets(c, "closed"))
    <3>1. <<>> \in Seq(Events)
      OBVIOUS
    <3>2. handler' = H("redeem", "denied", TRUE, <<>>)
      BY <2>2 DEF Continue
    <3>3. H("redeem", "denied", TRUE, <<>>) \in Handlers
      BY <3>1 DEF Handlers, Ops, Answers
    <3>4. Takes(c, "redeem", "denied", TRUE, <<>>) /\ trail' = trail
      BY <1>2, <3>2, <3>3, NoneAssumption DEF Redeem, Take, Takes, Req
    <3>5. QED BY <2>2, <3>4 DEF Handles
  <2>3. QED BY <1>2, <2>1, <2>2 DEF Redeem, Sets
<1>3. CASE CloseGrant(c)
  <2>1. <<>> \in Seq(Events)
    OBVIOUS
  <2>2. handler' = H("close", "ok", FALSE, <<>>)
    BY <1>3 DEF CloseGrant, Continue
  <2>3. H("close", "ok", FALSE, <<>>) \in Handlers
    BY <2>1 DEF Handlers, Ops, Answers
  <2>4. Takes(c, "close", "ok", FALSE, <<>>) /\ trail' = trail /\ Sets(c, Closed(grant[c]))
    BY <1>3, <2>2, <2>3, NoneAssumption DEF CloseGrant, Take, Takes, Req, Sets
  <2>5. QED BY <2>4 DEF Handles
<1>4. ASSUME NEW op \in {"executed", "error"}, RecordOutcome(c, op) PROVE Handles(c)
  <2> DEFINE events == <<Event(c, "tool.executed", BusOutcome(op))>>
  <2>1. events \in Seq(Events)
    BY <1>0
  <2>2. handler' = H(op, "ok", TRUE, events)
    BY <1>4 DEF RecordOutcome, Continue
  <2> HIDE DEF events
  <2>3. H(op, "ok", TRUE, events) \in Handlers
    BY <2>1 DEF Handlers, Ops, Answers
  <2>4. /\ Takes(c, op, "ok", TRUE, events) /\ grant' = grant
        /\ trail' = trail \union {Fact(c, op)}
    BY <1>4, <2>2, <2>3, NoneAssumption DEF RecordOutcome, Take, Takes, Req
  <2>5. QED BY <2>4 DEF Handles, events
<1>5. QED BY <1>1, <1>2, <1>3, <1>4

\* What is the same after the second transaction, and after an event.
LEMMA HandlerGoesOn ==
    ASSUME TypeOK, handler # None,
           \/ handler' = [handler EXCEPT !.second = FALSE]
           \/ handler.events # <<>> /\ handler' = [handler EXCEPT !.events = Tail(@)]
    PROVE  /\ handler \in Handlers /\ handler.call \in Calls /\ handler.op \in Ops
           /\ handler' \in Handlers /\ handler' # None
           /\ handler'.call = handler.call /\ handler'.op = handler.op
           /\ handler'.answer = handler.answer
<1>1. handler \in Handlers
  BY DEF TypeOK
<1>2. /\ handler.call \in Calls /\ handler.op \in Ops /\ handler.answer \in Answers
      /\ handler.second \in BOOLEAN /\ handler.events \in Seq(Events)
  BY <1>1 DEF Handlers
<1>3. CASE handler' = [handler EXCEPT !.second = FALSE]
  BY <1>1, <1>2, <1>3, NoneAssumption DEF Handlers
<1>4. CASE handler.events # <<>> /\ handler' = [handler EXCEPT !.events = Tail(@)]
  <2>1. Tail(handler.events) \in Seq(Events)
    BY <1>2, <1>4
  <2>2. QED BY <1>1, <1>2, <1>4, <2>1, NoneAssumption DEF Handlers
<1>5. QED BY <1>1, <1>2, <1>3, <1>4

LEMMA SecondFacts ==
    ASSUME TypeOK, Second
    PROVE  LET c == handler.call
           IN  /\ handler # None /\ handler.second /\ handler' \in Handlers /\ handler' # None
               /\ c \in Calls /\ handler.op \in Ops
               /\ handler'.call = c /\ handler'.op = handler.op
               /\ handler'.answer = handler.answer /\ handler'.events = handler.events
               /\ ~handler'.second
               /\ UNCHANGED <<trail, bus, wire, reply, mishaps>>
               /\ \/ handler.op = "authorize" /\ Sets(c, "issued")
                  \/ handler.op = "redeem" /\ grant' = grant
                  \/ handler.op \in {"executed", "error"} /\ Sets(c, Closed(grant[c]))
<1>1. handler # None /\ handler' = [handler EXCEPT !.second = FALSE] /\ handler.second
      /\ UNCHANGED <<trail, bus, wire, reply, mishaps>>
  BY DEF Second
<1>2. handler \in Handlers
  BY <1>1 DEF TypeOK
<1>3. handler'.events = handler.events /\ ~handler'.second
  BY <1>1, <1>2 DEF Handlers
<1>4. \/ handler.op = "authorize" /\ Sets(handler.call, "issued")
      \/ handler.op = "redeem" /\ grant' = grant
      \/ handler.op \in {"executed", "error"} /\ Sets(handler.call, Closed(grant[handler.call]))
  BY DEF Second, Sets
<1>5. QED BY <1>1, <1>3, <1>4, HandlerGoesOn

LEMMA PublishFacts ==
    ASSUME TypeOK, Publish
    PROVE  /\ handler # None /\ ~handler.second /\ handler' \in Handlers /\ handler' # None
           /\ handler'.call = handler.call /\ handler'.op = handler.op
           /\ handler'.answer = handler.answer /\ ~handler'.second
           /\ UNCHANGED <<grant, trail, wire, reply, mishaps>>
           /\ bus' # None => \E i \in DOMAIN handler.events : bus' = handler.events[i]
           /\ \A i \in DOMAIN handler'.events :
                 \E j \in DOMAIN handler.events : handler'.events[i] = handler.events[j]
           /\ bus' \in Events \union {None}
<1>1. /\ handler # None /\ handler' = [handler EXCEPT !.events = Tail(@)] /\ ~handler.second
      /\ handler.events # <<>> /\ UNCHANGED <<grant, trail, wire, reply, mishaps>>
      /\ bus' = None \/ bus' = Head(handler.events)
  BY DEF Publish
<1>2. handler \in Handlers
  BY <1>1 DEF TypeOK
<1>3. handler.events \in Seq(Events)
  BY <1>2 DEF Handlers
<1>4. handler'.events = Tail(handler.events) /\ ~handler'.second
  BY <1>1, <1>2 DEF Handlers
<1> DEFINE s == handler.events
<1>5. /\ 1 \in DOMAIN s /\ Head(s) = s[1] /\ s[1] \in Events
      /\ \A i \in DOMAIN Tail(s) : i + 1 \in DOMAIN s /\ Tail(s)[i] = s[i + 1]
  <2> HIDE DEF s
  <2>1. s \in Seq(Events) /\ s # <<>>
    BY <1>1, <1>3 DEF s
  <2>2. QED BY <2>1
<1>6. QED BY <1>1, <1>4, <1>5, HandlerGoesOn

LEMMA AnswerFacts ==
    ASSUME TypeOK, NEW c \in Calls, NEW op, NEW seen \in Answers \union {None},
           Answer(c, op, seen)
    PROVE  /\ reply' \in [Calls -> Answers \union {None}]
           /\ \A d \in Calls : reply'[d] = reply[d] \/ (d = c /\ reply'[d] = seen)
BY DEF TypeOK, Answer

LEMMA RespondFacts ==
    ASSUME TypeOK, Respond
    PROVE  LET c == handler.call
           IN  /\ handler # None /\ ~handler.second /\ handler' = None /\ bus' = None
               /\ c \in Calls /\ UNCHANGED <<grant, trail, wire>>
               /\ reply' \in [Calls -> Answers \union {None}] /\ mishaps' \subseteq Calls
               /\ \E seen \in {handler.answer, "unusable", "cut"} :
                     /\ seen = "cut" => c \in mishaps'
                     /\ \A d \in Calls : reply'[d] = reply[d] \/ (d = c /\ reply'[d] = seen)
<1>1. handler # None /\ ~handler.second /\ handler' = None /\ bus' = None
      /\ UNCHANGED <<grant, trail, wire>>
  BY DEF Respond
<1>2. handler \in Handlers
  BY <1>1 DEF TypeOK
<1>3. handler.call \in Calls /\ handler.answer \in Answers
  BY <1>2 DEF Handlers
<1>4. PICK seen \in {handler.answer, "unusable", "cut"} :
         /\ Answer(handler.call, handler.op, seen)
         /\ mishaps' = IF seen = "cut" THEN mishaps \union {handler.call} ELSE mishaps
  BY DEF Respond
<1>5. seen \in Answers \union {None}
  BY <1>3, <1>4 DEF Answers
<1>6. /\ reply' \in [Calls -> Answers \union {None}]
      /\ \A d \in Calls : reply'[d] = reply[d] \/ (d = handler.call /\ reply'[d] = seen)
  BY <1>3, <1>4, <1>5, AnswerFacts
<1>7. mishaps' \subseteq Calls /\ (seen = "cut" => handler.call \in mishaps')
  BY <1>3, <1>4 DEF TypeOK
<1>8. QED BY <1>1, <1>3, <1>4, <1>6, <1>7

\* A request that is lost, a handler that fails, a server that dies: what was done stays
\* done, and the calls that were to be served are noted.
Fails ==
    /\ UNCHANGED <<grant, trail>> /\ wire' \subseteq wire
    /\ \/ handler' = None /\ bus' = None
       \/ handler' = None /\ handler.second /\ bus' = bus
       \/ UNCHANGED <<handler, bus>>
    /\ (handler' = None /\ handler # None) => handler.call \in mishaps'
    /\ \A d \in Calls, op \in Ops : (Req(d, op) \in wire /\ Req(d, op) \notin wire') => d \in mishaps'
    /\ reply' \in [Calls -> Answers \union {None}] /\ mishaps' \subseteq Calls
    /\ \A d \in Calls : reply'[d] \in {reply[d], None, "unusable"}

LEMMA FailSteps ==
    ASSUME TypeOK, Fault \/ Crash \/ \E request \in wire : Lose(request)
    PROVE  Fails
<1>0. /\ \A r \in wire : r.call \in Calls
      /\ mishaps \subseteq Calls
      /\ reply \in [Calls -> Answers \union {None}]
      /\ handler # None => handler.call \in Calls
  BY DEF TypeOK, Handlers
<1>1. "unusable" \in Answers \union {None} /\ None \in Answers \union {None}
  BY DEF Answers
<1>2. CASE Fault
  <2>1. /\ handler # None /\ handler.second /\ handler' = None
        /\ UNCHANGED <<grant, trail, bus, wire>>
        /\ mishaps' = mishaps \union {handler.call}
        /\ Answer(handler.call, handler.op, "unusable")
    BY <1>2 DEF Fault
  <2>2. PICK c \in Calls : c = handler.call
    BY <1>0, <2>1
  <2>3. /\ reply' \in [Calls -> Answers \union {None}]
        /\ \A d \in Calls : reply'[d] \in {reply[d], None, "unusable"}
    BY <1>0, <1>1, <2>1, <2>2 DEF Answer
  <2>4. mishaps' \subseteq Calls /\ handler.call \in mishaps'
    BY <1>0, <2>1, <2>2
  <2>5. QED BY <2>1, <2>3, <2>4 DEF Fails
<1>3. CASE Crash
  <2>1. /\ handler # None /\ handler' = None /\ bus' = None /\ wire' = {}
        /\ UNCHANGED <<grant, trail, reply>>
        /\ mishaps' = mishaps \union {handler.call} \union {r.call : r \in wire}
    BY <1>3 DEF Crash
  <2>2. mishaps' \subseteq Calls /\ handler.call \in mishaps'
    BY <1>0, <2>1
  <2>3. ASSUME NEW d \in Calls, NEW op \in Ops, Req(d, op) \in wire PROVE d \in mishaps'
    <3>1. Req(d, op).call = d
      BY DEF Req
    <3>2. QED BY <2>1, <2>3, <3>1
  <2>4. /\ reply' \in [Calls -> Answers \union {None}]
        /\ \A d \in Calls : reply'[d] \in {reply[d], None, "unusable"}
    BY <1>0, <2>1
  <2>5. QED BY <2>1, <2>2, <2>3, <2>4 DEF Fails
<1>4. ASSUME NEW request \in wire, Lose(request)
      PROVE  Fails
  <2>1. /\ UNCHANGED <<grant, trail, bus, handler>> /\ wire' = wire \ {request}
        /\ mishaps' = mishaps \union {request.call}
    BY <1>4 DEF Lose, server
  <2>2. request.call \in Calls
    BY <1>0
  <2>3. PICK seen \in {None, "unusable"} : Answer(request.call, request.op, seen)
    BY <1>4 DEF Lose
  <2>4. /\ reply' \in [Calls -> Answers \union {None}]
        /\ \A d \in Calls : reply'[d] \in {reply[d], None, "unusable"}
    BY <1>0, <1>1, <2>2, <2>3 DEF Answer
  <2>5. ASSUME NEW d \in Calls, NEW op \in Ops, Req(d, op) \in wire, Req(d, op) \notin wire' PROVE d \in mishaps'
    <3>1. Req(d, op) = request
      BY <2>1, <2>5
    <3>2. request.call = d
      BY <3>1 DEF Req
    <3>3. QED BY <2>1, <3>2
  <2>6. mishaps' \subseteq Calls
    BY <1>0, <2>1, <2>2
  <2>7. QED BY <2>1, <2>4, <2>5, <2>6 DEF Fails
<1>5. QED BY <1>2, <1>3, <1>4

LEMMA NextCases ==
    ASSUME TypeOK, [Next]_vars
    PROVE  \/ \E c \in Calls : ClientMoves(c)
           \/ Serves /\ ((\E c \in Calls : Handles(c)) \/ Second \/ Publish \/ Respond \/ Fails)
           \/ UNCHANGED vars
<1>1. CASE ServerStep \/ \E request \in wire : Lose(request)
  <2>1. Serves
    BY <1>1, ServerSteps
  <2>2. (\E c \in Calls : Handles(c)) \/ Second \/ Publish \/ Respond \/ Fails
    BY <1>1, TakeSteps, FailSteps DEF ServerStep
  <2>3. QED BY <2>1, <2>2
<1>2. QED BY <1>1, NextSteps

GrantStates == {"absent", "issued", "closed"} \union Spent
Facts == [call : Calls, fact : {"allowed", "denied", "executed", "error"}]

LEMMA FactType ==
    ASSUME NEW c \in Calls, NEW fact \in {"allowed", "denied", "executed", "error"}
    PROVE  Fact(c, fact) \in Facts
BY DEF Fact, Facts

LEMMA ClosedType ==
    ASSUME NEW state \in GrantStates PROVE Closed(state) \in GrantStates
BY DEF Closed, GrantStates, Spent

\* What Handles says of every request, whatever it asks for.
LEMMA HandlesTypes ==
    ASSUME TypeOK, NEW c \in Calls, Handles(c)
    PROVE  /\ handler = None /\ handler' \in Handlers /\ handler' # None /\ handler'.call = c
           /\ UNCHANGED <<reply, bus, mishaps>> /\ wire' \subseteq wire
           /\ grant' \in [Calls -> GrantStates] /\ trail' \subseteq Facts
<1>1. /\ handler = None /\ handler' \in Handlers /\ handler' # None /\ handler'.call = c
      /\ UNCHANGED <<reply, bus, mishaps>> /\ wire' \subseteq wire
  BY DEF Handles, Takes
<1>2. grant \in [Calls -> GrantStates] /\ trail \subseteq Facts
  BY DEF TypeOK, GrantStates, Facts
<1>3. grant' = grant \/ \E state \in GrantStates : Sets(c, state)
  BY <1>2, ClosedType DEF Handles, GrantStates, Spent
<1>4. grant' \in [Calls -> GrantStates]
  BY <1>2, <1>3 DEF Sets
<1>5. trail' = trail \/ \E fact \in {"allowed", "denied", "executed", "error"} :
                           trail' = trail \union {Fact(c, fact)}
  BY DEF Handles
<1>6. trail' \subseteq Facts
  BY <1>2, <1>5, FactType
<1>7. QED BY <1>1, <1>4, <1>6

LEMMA TypeStep ==
    ASSUME TypeOK, [Next]_vars
    PROVE  TypeOK'
<1>0. /\ grant \in [Calls -> GrantStates] /\ trail \subseteq Facts
      /\ bus \in Events \union {None} /\ handler \in Handlers \union {None}
      /\ reply \in [Calls -> Answers \union {None}] /\ mishaps \subseteq Calls
      /\ wire \subseteq [call : Calls, op : Ops]
  BY DEF TypeOK, GrantStates, Facts
<1>1. ASSUME NEW c \in Calls, ClientMoves(c) PROVE TypeOK'
  <2>1. PICK seen : Moves(c, seen)
    BY <1>1 DEF ClientMoves
  <2>2. /\ pc' \in [Calls -> Phases] /\ result' \in [Calls -> Results]
        /\ ran' \in [Calls -> Runs] /\ told' \subseteq Calls
        /\ wire' \subseteq [call : Calls, op : Ops]
    BY <2>1, MoveTypes
  <2>3. reply' \in [Calls -> Answers \union {None}]
    BY <1>0, <1>1 DEF ClientMoves
  <2>4. QED BY <1>0, <1>1, <2>2, <2>3
            DEF TypeOK, ClientMoves, Phases, Results, Runs, GrantStates, Facts
<1>2. ASSUME Serves, grant' \in [Calls -> GrantStates], trail' \subseteq Facts,
             bus' \in Events \union {None}, handler' \in Handlers \union {None},
             reply' \in [Calls -> Answers \union {None}], mishaps' \subseteq Calls
      PROVE  TypeOK'
  BY <1>0, <1>2 DEF TypeOK, Serves, GrantStates, Facts
<1>3. ASSUME NEW c \in Calls, Handles(c), Serves PROVE TypeOK'
  BY <1>0, <1>2, <1>3, HandlesTypes
<1>4. CASE Second /\ Serves
  <2>1. /\ handler.call \in Calls /\ handler' \in Handlers
        /\ UNCHANGED <<trail, bus, wire, reply, mishaps>>
        /\ \/ Sets(handler.call, "issued") \/ grant' = grant
           \/ Sets(handler.call, Closed(grant[handler.call]))
    BY <1>4, SecondFacts
  <2>2. grant' \in [Calls -> GrantStates]
    BY <1>0, <2>1, ClosedType DEF Sets, GrantStates, Spent
  <2>3. QED BY <1>0, <1>2, <1>4, <2>1, <2>2
<1>5. CASE Publish /\ Serves
  BY <1>0, <1>2, <1>5, PublishFacts
<1>6. CASE Respond /\ Serves
  BY <1>0, <1>2, <1>6, RespondFacts
<1>7. CASE Fails /\ Serves
  BY <1>0, <1>2, <1>7 DEF Fails
<1>8. CASE UNCHANGED vars
  BY <1>8 DEF TypeOK, vars, server, client
<1>9. QED BY <1>1, <1>3, <1>4, <1>5, <1>6, <1>7, <1>8, NextCases

-----------------------------------------------------------------------------
(* What a client's move does, put together *)

\* By where the call comes from and where it goes to.
LEMMA MoveFacts ==
    ASSUME TypeOK, NEW c \in Calls, Phase(c), NEW seen, Moves(c, seen)
    PROVE  /\ told' = told \/ (told' = told \union {c} /\ seen = "allow" /\ pc'[c] = "redeem")
           /\ pc'[c] = "authorize" => pc[c] = "new"
           /\ pc'[c] = "executed" => pc[c] = "running" /\ ran'[c] = "returned"
           /\ pc'[c] = "error" => pc[c] = "close" /\ ran'[c] \in {"no", "raised"}
           /\ pc[c] \in {"executed", "error", "done"} => pc'[c] = "done"
           /\ pc'[c] = "done" => /\ ran'[c] = ran[c]
                                 /\ pc[c] \in {"authorize", "executed", "error"}
                                    \/ (pc[c] = "close" /\ seen = "cut")
           /\ ran'[c] = ran[c] \/ (pc[c] = "redeem" /\ ran'[c] = "running" /\ seen = "redeemed")
                               \/ (pc[c] = "running" /\ ran'[c] \in {"returned", "raised"})
           /\ pc[c] = "new" => pc'[c] = "authorize"
<1> DEFINE Claim ==
             /\ told' = told \/ (told' = told \union {c} /\ seen = "allow" /\ pc'[c] = "redeem")
             /\ pc'[c] = "authorize" => pc[c] = "new"
             /\ pc'[c] = "executed" => pc[c] = "running" /\ ran'[c] = "returned"
             /\ pc'[c] = "error" => pc[c] = "close" /\ ran'[c] \in {"no", "raised"}
             /\ pc[c] \in {"executed", "error", "done"} => pc'[c] = "done"
             /\ pc'[c] = "done" => /\ ran'[c] = ran[c]
                                   /\ pc[c] \in {"authorize", "executed", "error"}
                                      \/ (pc[c] = "close" /\ seen = "cut")
             /\ ran'[c] = ran[c] \/ (pc[c] = "redeem" /\ ran'[c] = "running" /\ seen = "redeemed")
                                 \/ (pc[c] = "running" /\ ran'[c] \in {"returned", "raised"})
             /\ pc[c] = "new" => pc'[c] = "authorize"
<1>1. CASE Goes(c, "new", "authorize", result[c], ran[c]) /\ told' = told
  BY <1>1 DEF Goes
<1>2. CASE /\ Goes(c, "authorize", "redeem", result[c], ran[c])
           /\ seen = "allow" /\ told' = told \union {c}
  BY <1>2 DEF Goes
<1>3. ASSUME NEW e, Goes(c, "authorize", "done", e, ran[c]), told' = told PROVE Claim
  BY <1>3 DEF Goes
<1>4. CASE /\ Goes(c, "redeem", "running", result[c], "running")
           /\ seen = "redeemed" /\ told' = told
  BY <1>4 DEF Goes
<1>5. ASSUME NEW e, Goes(c, "redeem", "close", e, ran[c]), told' = told PROVE Claim
  BY <1>5 DEF Goes
<1>6. CASE Goes(c, "close", "done", "IncompleteRead", ran[c]) /\ seen = "cut" /\ told' = told
  BY <1>6 DEF Goes
<1>7. CASE Goes(c, "close", "error", result[c], ran[c]) /\ told' = told
  BY <1>7 DEF Goes, Phase
<1>8. ASSUME NEW from \in {"executed", "error"}, NEW e,
             Goes(c, from, "done", e, ran[c]), told' = told
      PROVE  Claim
  BY <1>8 DEF Goes
<1>9. CASE Goes(c, "running", "executed", "result", "returned") /\ told' = told
  BY <1>9 DEF Goes
<1>10. CASE Goes(c, "running", "close", "executor's exception", "raised") /\ told' = told
  BY <1>10 DEF Goes
<1>11. QED BY <1>1, <1>2, <1>3, <1>4, <1>5, <1>6, <1>7, <1>8, <1>9, <1>10 DEF Moves

\* What a move puts on the wire is what the call then waits for.
LEMMA MoveSends ==
    ASSUME TypeOK, NEW c \in Calls, NEW seen, Moves(c, seen)
    PROVE  /\ pc'[c] \in Ops => Sends(c, pc'[c])
           /\ pc'[c] \notin Ops => wire' = wire
<1>1. CASE Goes(c, "new", "authorize", result[c], ran[c]) /\ Sends(c, "authorize")
  BY <1>1 DEF Goes, Ops
<1>2. CASE Goes(c, "authorize", "redeem", result[c], ran[c]) /\ Sends(c, "redeem")
  BY <1>2 DEF Goes, Ops
<1>3. ASSUME NEW from, NEW e, Goes(c, from, "done", e, ran[c]), wire' = wire
      PROVE  pc'[c] \notin Ops /\ wire' = wire
  BY <1>3 DEF Goes, Ops
<1>4. CASE Goes(c, "redeem", "running", result[c], "running") /\ wire' = wire
  BY <1>4 DEF Goes, Ops
<1>5. ASSUME NEW e, Goes(c, "redeem", "close", e, ran[c]), Sends(c, "close")
      PROVE  pc'[c] \in Ops /\ Sends(c, pc'[c])
  BY <1>5 DEF Goes, Ops
<1>6. CASE Goes(c, "close", "error", result[c], ran[c]) /\ Sends(c, "error")
  BY <1>6 DEF Goes, Ops
<1>7. CASE Goes(c, "running", "executed", "result", "returned") /\ Sends(c, "executed")
  BY <1>7 DEF Goes, Ops
<1>8. CASE Goes(c, "running", "close", "executor's exception", "raised") /\ Sends(c, "close")
  BY <1>8 DEF Goes, Ops
<1>9. QED BY <1>1, <1>2, <1>3, <1>4, <1>5, <1>6, <1>7, <1>8 DEF Moves

-----------------------------------------------------------------------------
(* The rows only move forward *)

Forward ==
    /\ trail \subseteq trail'
    /\ \A d \in Calls : /\ grant[d] # "absent" => grant'[d] # "absent"
                        /\ grant[d] \in Spent => grant'[d] \in Spent
                        /\ grant[d] \in Shut => grant'[d] \in Shut

LEMMA ClosedFacts ==
    ASSUME NEW state \in GrantStates
    PROVE  /\ state = "absent" <=> Closed(state) = "absent"
           /\ state \in Spent <=> Closed(state) \in Spent
           /\ state \in Shut => Closed(state) \in Shut
           /\ Closed(state) \notin {"issued", "spent"}
BY DEF GrantStates, Closed, Spent, Shut

LEMMA SetsFacts ==
    ASSUME TypeOK, NEW c \in Calls, NEW state, Sets(c, state)
    PROVE  grant'[c] = state /\ \A d \in Calls \ {c} : grant'[d] = grant[d]
BY DEF TypeOK, Sets

LEMMA HandlesForward ==
    ASSUME TypeOK, NEW c \in Calls, Handles(c)
    PROVE  /\ Forward
           /\ \A d \in Calls \ {c} : grant'[d] = grant[d]
           /\ grant[c] = "absent" => grant'[c] = "absent"
<1>1. grant[c] \in GrantStates
  BY DEF TypeOK, GrantStates
<1>2. trail \subseteq trail'
  BY DEF Handles
<1>3. \/ grant' = grant
      \/ grant[c] = "issued" /\ Sets(c, "spent")
      \/ grant[c] = "issued" /\ Sets(c, "closed")
      \/ Sets(c, Closed(grant[c]))
  BY DEF Handles
<1>4. \A d \in Calls \ {c} : grant'[d] = grant[d]
  BY <1>3, SetsFacts
<1>5. \/ grant'[c] = grant[c]
      \/ grant[c] = "issued" /\ grant'[c] \in {"spent", "closed"}
      \/ grant'[c] = Closed(grant[c])
  BY <1>3, SetsFacts
<1>6. QED BY <1>1, <1>2, <1>4, <1>5, ClosedFacts DEF Forward, Spent, Shut

LEMMA SecondForward ==
    ASSUME TypeOK, HandlerInv, Second
    PROVE  /\ Forward
           /\ \A d \in Calls \ {handler.call} : grant'[d] = grant[d]
           /\ grant'[handler.call] =
                 CASE handler.op = "authorize" -> "issued"
                   [] handler.op = "redeem" -> grant[handler.call]
                   [] OTHER -> Closed(grant[handler.call])
<1>0. PICK c \in Calls : c = handler.call
  BY SecondFacts
<1>1. grant[c] \in GrantStates
  BY DEF TypeOK, GrantStates
<1>2. \/ handler.op = "authorize" /\ Sets(c, "issued")
      \/ handler.op = "redeem" /\ grant' = grant
      \/ handler.op \in {"executed", "error"} /\ Sets(c, Closed(grant[c]))
  BY <1>0, SecondFacts
<1>3. handler.op = "authorize" => grant[c] = "absent"
  BY <1>0, SecondFacts DEF HandlerInv, Handled
<1>4. \A d \in Calls \ {c} : grant'[d] = grant[d]
  BY <1>2, SetsFacts
<1>5. grant'[c] = CASE handler.op = "authorize" -> "issued"
                    [] handler.op = "redeem" -> grant[c]
                    [] OTHER -> Closed(grant[c])
  BY <1>2, SetsFacts
<1>6. trail \subseteq trail'
  BY SecondFacts
<1>7. Forward
  BY <1>1, <1>2, <1>3, <1>4, <1>5, <1>6, ClosedFacts DEF Forward, Spent, Shut
<1>8. QED BY <1>0, <1>4, <1>5, <1>7

LEMMA ForwardStep ==
    ASSUME TypeOK, HandlerInv, [Next]_vars
    PROVE  Forward
<1>1. ASSUME UNCHANGED <<grant, trail>> PROVE Forward
  BY <1>1 DEF Forward
<1>2. ASSUME NEW c \in Calls, ClientMoves(c) PROVE Forward
  BY <1>1, <1>2 DEF ClientMoves
<1>3. CASE \E c \in Calls : Handles(c)
  BY <1>3, HandlesForward
<1>4. CASE Second
  BY <1>4, SecondForward
<1>5. CASE Publish
  BY <1>1, <1>5, PublishFacts
<1>6. CASE Respond
  BY <1>1, <1>6, RespondFacts
<1>7. CASE Fails
  BY <1>1, <1>7 DEF Fails
<1>8. CASE UNCHANGED vars
  BY <1>1, <1>8 DEF vars, server
<1>9. QED BY <1>2, <1>3, <1>4, <1>5, <1>6, <1>7, <1>8, NextCases

-----------------------------------------------------------------------------
(* What a handler holds in its hands *)

\* What it takes for an event to be true after a step.
LEMMA LandedEvent ==
    ASSUME NEW c, NEW type, NEW outcome
    PROVE  Landed(Event(c, type, outcome))' <=>
              CASE type = "tool.authorized" ->
                       /\ Fact(c, IF outcome = None THEN "allowed" ELSE "denied") \in trail'
                       /\ outcome = None => grant'[c] # "absent"
                [] type = "grant.issued"   -> grant'[c] # "absent"
                [] type = "grant.redeemed" -> grant'[c] \in {"spent", "spent_closed"}
                [] type = "tool.executed"  ->
                       /\ Fact(c, IF outcome = "succeeded" THEN "executed" ELSE "error") \in trail'
                       /\ grant'[c] \notin {"issued", "spent"}
BY DEF Landed, Event

\* Rows that are left alone are still there.
LEMMA LandedStays ==
    ASSUME UNCHANGED <<grant, trail>>, NEW event, Landed(event)
    PROVE  Landed(event)'
BY DEF Landed

LEMMA HandlesHandled ==
    ASSUME TypeOK, NEW c \in Calls, Handles(c), Wire(c)
    PROVE  Handled'
<1>0. grant[c] \in GrantStates
  BY DEF TypeOK, GrantStates
<1>1. CASE /\ Takes(c, "authorize", "allow", TRUE,
                    <<Event(c, "tool.authorized", None), Event(c, "grant.issued", None)>>)
           /\ trail' = trail \union {Fact(c, "allowed")} /\ grant' = grant
  <2>1. grant'[c] = "absent" /\ Fact(c, "allowed") \in trail'
    BY <1>1 DEF Takes, Wire, Req
  <2>2. QED BY <1>1, <2>1 DEF Takes, Handled
<1>2. CASE /\ Takes(c, "authorize", "deny", FALSE, <<Event(c, "tool.authorized", "denied")>>)
           /\ trail' = trail \union {Fact(c, "denied")} /\ grant' = grant
  <2>1. Landed(Event(c, "tool.authorized", "denied"))'
    BY <1>2, LandedEvent, NoneAssumption DEF Answers
  <2>2. QED BY <1>2, <2>1 DEF Takes, Handled
<1>3. CASE /\ Takes(c, "redeem", "redeemed", FALSE, <<Event(c, "grant.redeemed", None)>>)
           /\ grant[c] = "issued" /\ Sets(c, "spent") /\ trail' = trail
  <2>1. grant'[c] = "spent"
    BY <1>3, SetsFacts
  <2>2. Landed(Event(c, "grant.redeemed", None))'
    BY <2>1, LandedEvent
  <2>3. QED BY <1>3, <2>1, <2>2 DEF Takes, Handled, Spent
<1>4. CASE Takes(c, "redeem", "denied", TRUE, <<>>)
  BY <1>4 DEF Takes, Handled
<1>5. CASE Takes(c, "close", "ok", FALSE, <<>>)
  BY <1>5 DEF Takes, Handled
<1>6. ASSUME NEW op \in {"executed", "error"},
             Takes(c, op, "ok", TRUE, <<Event(c, "tool.executed", BusOutcome(op))>>),
             trail' = trail \union {Fact(c, op)}
      PROVE  Handled'
  BY <1>6 DEF Takes, Handled
<1>7. QED BY <1>1, <1>2, <1>3, <1>4, <1>5, <1>6 DEF Handles

LEMMA SecondHandled ==
    ASSUME TypeOK, HandlerInv, Second
    PROVE  Handled'
<1>0. PICK c \in Calls : c = handler.call
  BY SecondFacts
<1>1. /\ handler # None /\ handler.second /\ handler.op \in Ops
      /\ handler'.call = c /\ handler'.op = handler.op /\ handler'.answer = handler.answer
      /\ handler'.events = handler.events /\ ~handler'.second /\ trail' = trail
  BY <1>0, SecondFacts
<1>2. Handled
  BY <1>1 DEF HandlerInv
<1>3. Forward /\ grant'[c] = CASE handler.op = "authorize" -> "issued"
                                [] handler.op = "redeem" -> grant[c]
                                [] OTHER -> Closed(grant[c])
  BY <1>0, SecondForward
<1>4. grant[c] \in GrantStates
  BY DEF TypeOK, GrantStates
<1>5. CASE handler.op = "authorize"
  <2>1. grant'[c] = "issued" /\ Fact(c, "allowed") \in trail'
    BY <1>0, <1>1, <1>2, <1>3, <1>5 DEF Handled
  <2>2. handler'.events = <<Event(c, "tool.authorized", None), Event(c, "grant.issued", None)>>
    BY <1>0, <1>1, <1>2, <1>5 DEF Handled
  <2>3. Landed(Event(c, "tool.authorized", None))' /\ Landed(Event(c, "grant.issued", None))'
    BY <2>1, LandedEvent
  <2>4. handler.answer = "redeemed" => grant'[c] \in Spent
    BY <1>0, <1>2, <1>3 DEF Handled, Forward
  <2>5. QED BY <1>1, <1>5, <2>1, <2>2, <2>3, <2>4 DEF Handled
<1>6. CASE handler.op = "redeem"
  <2>1. handler'.events = <<>>
    BY <1>1, <1>2, <1>6 DEF Handled
  <2>2. handler.answer = "redeemed" => grant'[c] \in Spent
    BY <1>0, <1>2, <1>3 DEF Handled, Forward
  <2>3. handler.answer # "allow"
    BY <1>1, <1>2, <1>6 DEF Handled
  <2>4. QED BY <1>1, <1>6, <2>1, <2>2, <2>3 DEF Handled
<1>7. CASE handler.op \in {"executed", "error"}
  <2>0. PICK op \in {"executed", "error"} : op = handler.op
    BY <1>7
  <2>1. grant'[c] \notin {"issued", "spent"}
    BY <1>3, <1>4, <1>7, ClosedFacts
  <2>2. handler'.events = <<Event(c, "tool.executed", BusOutcome(op))>> /\ Fact(c, op) \in trail'
    BY <1>0, <1>1, <1>2, <2>0 DEF Handled
  <2>3. Landed(Event(c, "tool.executed", BusOutcome(op)))'
    <3>1. PICK outcome : outcome = BusOutcome(op)
      OBVIOUS
    <3>2. op = IF outcome = "succeeded" THEN "executed" ELSE "error"
      BY <3>1 DEF BusOutcome
    <3>3. Landed(Event(c, "tool.executed", outcome))'
      BY <2>1, <2>2, <3>2 DEF Landed, Event
    <3>4. QED BY <3>1, <3>3
  <2>4. handler.answer # "allow" /\ (handler.answer = "redeemed" => grant'[c] \in Spent)
    BY <1>0, <1>2, <1>3, <1>7 DEF Handled, Forward
  <2>5. QED BY <1>1, <2>0, <2>1, <2>2, <2>3, <2>4 DEF Handled
<1>8. CASE handler.op = "close"
  BY <1>1, <1>2, <1>8 DEF Handled
<1>9. QED BY <1>1, <1>5, <1>6, <1>7, <1>8 DEF Ops

LEMMA HandlerInvStep ==
    ASSUME TypeOK, HandlerInv, \A c \in Calls : Wire(c), [Next]_vars
    PROVE  HandlerInv'
<1>1. ASSUME UNCHANGED <<grant, trail, bus, handler>> PROVE HandlerInv'
  BY <1>1 DEF HandlerInv, Handled, Landed
<1>2. ASSUME NEW c \in Calls, ClientMoves(c) PROVE HandlerInv'
  BY <1>1, <1>2 DEF ClientMoves
<1>3. ASSUME NEW c \in Calls, Handles(c) PROVE HandlerInv'
  <2>1. handler = None /\ handler' # None /\ bus' = bus
    BY <1>3, HandlesTypes
  <2>2. bus' = None
    BY <2>1 DEF HandlerInv
  <2>3. QED BY <1>3, <2>1, <2>2, HandlesHandled DEF HandlerInv
<1>4. CASE Second
  <2>1. handler # None /\ handler.second /\ handler' # None /\ bus' = bus
    BY <1>4, SecondFacts
  <2>2. bus' = None
    BY <2>1 DEF HandlerInv
  <2>3. QED BY <1>4, <2>1, <2>2, SecondHandled DEF HandlerInv
<1>5. CASE Publish
  <2>1. /\ handler # None /\ ~handler.second /\ handler' # None
        /\ handler'.call = handler.call /\ handler'.op = handler.op
        /\ handler'.answer = handler.answer /\ ~handler'.second
        /\ UNCHANGED <<grant, trail>>
        /\ bus' # None => \E i \in DOMAIN handler.events : bus' = handler.events[i]
        /\ \A i \in DOMAIN handler'.events :
              \E j \in DOMAIN handler.events : handler'.events[i] = handler.events[j]
    BY <1>5, PublishFacts
  <2>2. Handled
    BY <2>1 DEF HandlerInv
  <2>3. \A j \in DOMAIN handler.events : Landed(handler.events[j])
    BY <2>1, <2>2 DEF Handled
  <2>4. ASSUME NEW i \in DOMAIN handler'.events PROVE Landed(handler.events[i])'
    <3>1. PICK event : event = handler'.events[i]
      OBVIOUS
    <3>2. Landed(event)
      BY <2>1, <2>3, <3>1
    <3>3. Landed(event)'
      BY <2>1, <3>2, LandedStays
    <3>4. QED BY <3>1, <3>3 DEF Landed
  <2>5. ASSUME bus' # None PROVE Landed(bus)'
    <3>1. PICK event : event = bus'
      OBVIOUS
    <3>2. Landed(event)'
      BY <2>1, <2>3, <2>5, <3>1, LandedStays
    <3>3. QED BY <3>1, <3>2 DEF Landed
  <2>6. Handled'
    BY <2>1, <2>2, <2>4 DEF Handled
  <2>7. QED BY <2>1, <2>5, <2>6 DEF HandlerInv
<1>6. CASE Respond
  BY <1>6, RespondFacts DEF HandlerInv
<1>7. CASE Fails
  <2>1. CASE UNCHANGED <<handler, bus>>
    BY <1>1, <1>7, <2>1 DEF Fails
  <2>2. CASE handler' = None /\ bus' = None
    BY <2>2 DEF HandlerInv
  <2>3. CASE handler' = None /\ handler.second /\ bus' = bus
    BY <2>3 DEF HandlerInv
  <2>4. QED BY <1>7, <2>1, <2>2, <2>3 DEF Fails
<1>8. CASE UNCHANGED vars
  BY <1>1, <1>8 DEF vars, server
<1>9. QED BY <1>2, <1>3, <1>4, <1>5, <1>6, <1>7, <1>8, NextCases

-----------------------------------------------------------------------------
(* What is on its way *)

\* The client's half: a call puts on the wire what is true of it.
LEMMA WireMoves ==
    ASSUME TypeOK, ClientInv, NEW c \in Calls, ClientMoves(c), NEW d \in Calls, Wire(d)
    PROVE  Wire(d)'
<1>1. PICK seen : Moves(c, seen)
  BY DEF ClientMoves
<1>2. Phase(c)
  BY DEF ClientInv
<1>3. /\ pc'[c] # "new"
      /\ \A e \in Calls \ {c} : pc'[e] = pc[e] /\ ran'[e] = ran[e]
  BY <1>1, <1>2, PhaseMoves
<1>4. UNCHANGED <<grant, trail, handler>>
  BY DEF ClientMoves
<1>5. \A e \in Calls, op \in Ops : Req(e, op) \in wire' <=>
         Req(e, op) \in wire \/ (e = c /\ op = pc'[c])
  <2>1. CASE pc'[c] \in Ops
    <3>1. PICK to \in Ops : to = pc'[c]
      BY <2>1
    <3>2. Sends(c, to)
      BY <1>1, <3>1, MoveSends
    <3>3. QED BY <3>1, <3>2, SendsFacts
  <2>2. CASE pc'[c] \notin Ops
    BY <1>1, <2>2, MoveSends
  <2>3. QED BY <2>1, <2>2
<1>6. \A op \in {"authorize", "executed", "error"} : op \in Ops
  BY DEF Ops
<1>7. CASE d # c
  <2>1. pc'[d] = pc[d] /\ ran'[d] = ran[d] /\ \A op \in Ops : Req(d, op) \in wire' <=> Req(d, op) \in wire
    BY <1>3, <1>5, <1>7
  <2>2. Busy(d)' <=> Busy(d)
    BY <1>4 DEF Busy
  <2>3. QED BY <1>4, <1>6, <2>1, <2>2 DEF Wire
<1>8. CASE d = c
  <2>1. Busy(c)' <=> Busy(c)
    BY <1>4 DEF Busy
  <2>2. /\ pc'[c] = "authorize" => pc[c] = "new"
        /\ pc'[c] = "executed" => ran'[c] = "returned"
        /\ pc'[c] = "error" => ran'[c] \in {"no", "raised"}
        /\ pc[c] \in {"executed", "error", "done"} => pc'[c] = "done"
        /\ pc'[c] = "done" => ran'[c] = ran[c]
        /\ ran'[c] = ran[c] \/ pc[c] \in {"redeem", "running"}
    BY <1>1, <1>2, MoveFacts
  <2>3. ran[c] = "returned" => ran'[c] = "returned"
    BY <1>2, <2>2 DEF Phase
  <2>4. Req(c, "authorize") \in wire' => grant[c] = "absent" /\ ~(Busy(c) /\ handler.op = "authorize")
    BY <1>5, <1>6, <1>8, <2>2 DEF Wire
  <2>5. Req(c, "executed") \in wire' \/ Fact(c, "executed") \in trail' => ran'[c] = "returned"
    BY <1>4, <1>5, <1>6, <1>8, <2>2, <2>3 DEF Wire
  <2>6. Req(c, "error") \in wire' \/ Fact(c, "error") \in trail' =>
           pc'[c] \in {"error", "done"} /\ ran'[c] \in {"no", "raised"}
    BY <1>4, <1>5, <1>6, <1>8, <2>2 DEF Wire
  <2>7. QED BY <1>3, <1>4, <1>8, <2>1, <2>4, <2>5, <2>6 DEF Wire
<1>9. QED BY <1>7, <1>8

\* The server's half: it records what it was told, and nothing of a call that has not begun.
LEMMA WireHandles ==
    ASSUME TypeOK, Serves, NEW c \in Calls, Handles(c), Wire(c), NEW d \in Calls, Wire(d)
    PROVE  Wire(d)'
<1>1. PICK op \in Ops : \E answer, second, events : Takes(c, op, answer, second, events)
  BY DEF Handles, Ops
<1>2. /\ Req(c, op) \in wire /\ wire' = wire \ {Req(c, op)}
      /\ handler' # None /\ handler'.call = c /\ handler'.op = op
  BY <1>1 DEF Takes
<1>3. /\ \A e \in Calls \ {c} : grant'[e] = grant[e]
      /\ grant[c] = "absent" => grant'[c] = "absent"
  BY HandlesForward
<1>4. pc[c] # "new"
  BY <1>2 DEF Wire
<1>5. \A e \in Calls, fact \in {"executed", "error"} : Fact(e, fact) \in trail' =>
         Fact(e, fact) \in trail \/ Req(e, fact) \in wire
  <2>1. CASE op \in {"executed", "error"} /\ trail' = trail \union {Fact(c, op)}
    BY <1>2, <2>1 DEF Fact
  <2>2. CASE trail' = trail
    BY <2>2
  <2>3. CASE trail' = trail \union {Fact(c, "allowed")} \/ trail' = trail \union {Fact(c, "denied")}
    BY <2>3 DEF Fact
  <2>4. QED BY <1>2, <2>1, <2>2, <2>3 DEF Handles, Takes
<1>6. UNCHANGED <<pc, ran>> /\ wire' \subseteq wire
  BY DEF Serves
<1>7. pc[d] = "new" => grant'[d] = "absent" /\ ~Busy(d)' /\ \A o \in Ops : Req(d, o) \notin wire'
  BY <1>2, <1>3, <1>4, <1>6 DEF Wire, Busy
<1>8. Req(d, "authorize") \in wire' => grant'[d] = "absent" /\ ~(Busy(d) /\ handler.op = "authorize")'
  BY <1>2, <1>3, <1>6 DEF Wire, Busy
<1>9. QED BY <1>5, <1>6, <1>7, <1>8 DEF Wire

LEMMA WireServes ==
    ASSUME TypeOK, Serves, HandlerInv, Second \/ Publish \/ Respond \/ Fails, NEW d \in Calls, Wire(d)
    PROVE  Wire(d)'
<1>1. UNCHANGED <<pc, ran>> /\ wire' \subseteq wire
  BY DEF Serves
<1>2. CASE Second
  <2>1. /\ handler # None /\ handler.second /\ handler' # None
        /\ handler'.call = handler.call /\ handler'.op = handler.op /\ trail' = trail
    BY <1>2, SecondFacts
  <2>2. Busy(d)' <=> Busy(d)
    BY <2>1 DEF Busy
  <2>3. grant[d] \in GrantStates
    BY DEF TypeOK, GrantStates
  <2>4. handler.call = d => grant'[d] = CASE handler.op = "authorize" -> "issued"
                                          [] handler.op = "redeem" -> grant[d]
                                          [] OTHER -> Closed(grant[d])
    BY <1>2, SecondForward
  <2>5. handler.call # d => grant'[d] = grant[d]
    BY <1>2, SecondForward
  <2>6. pc[d] = "new" => grant'[d] = "absent"
    BY <2>1, <2>5 DEF Wire, Busy
  <2>7. Req(d, "authorize") \in wire => grant'[d] = "absent"
    BY <2>1, <2>3, <2>4, <2>5, ClosedFacts DEF Wire, Busy
  <2>8. QED BY <1>1, <2>1, <2>2, <2>6, <2>7 DEF Wire
<1>3. CASE UNCHANGED <<grant, trail>> /\ (handler' = None \/ UNCHANGED handler)
  <2>1. Busy(d)' => Busy(d) /\ handler' = handler
    BY <1>3 DEF Busy
  <2>2. QED BY <1>1, <1>3, <2>1 DEF Wire
<1>4. CASE Publish
  <2>1. /\ handler # None /\ handler' # None /\ UNCHANGED <<grant, trail>>
        /\ handler'.call = handler.call /\ handler'.op = handler.op
    BY <1>4, PublishFacts
  <2>2. (Busy(d)' <=> Busy(d)) /\ handler'.op = handler.op
    BY <2>1 DEF Busy
  <2>3. QED BY <1>1, <2>1, <2>2 DEF Wire
<1>5. QED BY <1>2, <1>3, <1>4, RespondFacts DEF Fails

LEMMA WireStep ==
    ASSUME TypeOK, ClientInv, HandlerInv, \A c \in Calls : Wire(c), [Next]_vars
    PROVE  \A d \in Calls : Wire(d)'
<1>1. SUFFICES ASSUME NEW d \in Calls PROVE Wire(d)'
  OBVIOUS
<1>2. ASSUME NEW c \in Calls, ClientMoves(c) PROVE Wire(d)'
  BY <1>2, WireMoves
<1>3. ASSUME NEW c \in Calls, Handles(c), Serves PROVE Wire(d)'
  BY <1>3, WireHandles
<1>4. CASE Serves /\ (Second \/ Publish \/ Respond \/ Fails)
  BY <1>4, WireServes
<1>5. CASE UNCHANGED vars
  BY <1>5 DEF Wire, Busy, vars, server, client
<1>6. QED BY <1>2, <1>3, <1>4, <1>5, NextCases

-----------------------------------------------------------------------------
(* What a client goes by *)

LEMMA AnsweredMoves ==
    ASSUME TypeOK, ClientInv, NEW c \in Calls, ClientMoves(c), NEW d \in Calls, Answered(d)
    PROVE  Answered(d)'
<1>1. PICK seen : Moves(c, seen) /\ seen \in {reply[c], "unusable"}
  BY DEF ClientMoves
<1>2. Phase(c)
  BY DEF ClientInv
<1>3. UNCHANGED <<grant, mishaps>>
  BY DEF ClientMoves
<1>4. reply'[d] = reply[d] \/ reply'[d] = None
  BY DEF ClientMoves, TypeOK
<1>5. None \notin {"allow", "redeemed", "cut"}
  BY NoneAssumption DEF Answers
<1>6. CASE d # c
  <2>1. pc'[d] = pc[d] /\ (d \in told' <=> d \in told)
    BY <1>1, <1>2, <1>6, PhaseMoves, MoveFacts
  <2>2. QED BY <1>3, <1>4, <1>5, <2>1 DEF Answered
<1>7. CASE d = c
  <2>1. /\ told' = told \/ (told' = told \union {c} /\ seen = "allow" /\ pc'[c] = "redeem")
        /\ pc'[c] = "authorize" => pc[c] = "new"
        /\ pc'[c] # "new"
    BY <1>1, <1>2, PhaseMoves, MoveFacts
  <2>2. c \in told' => pc'[c] \notin {"new", "authorize"} /\ grant'[c] # "absent"
    BY <1>1, <1>3, <1>7, <2>1 DEF Answered
  <2>3. QED BY <1>3, <1>4, <1>5, <1>7, <2>2 DEF Answered
<1>8. QED BY <1>6, <1>7

LEMMA AnsweredServes ==
    ASSUME TypeOK, HandlerInv, Serves, Forward, NEW d \in Calls, Answered(d),
           (\E c \in Calls : Handles(c)) \/ Second \/ Publish \/ Respond \/ Fails
    PROVE  Answered(d)'
<1>1. UNCHANGED <<pc, told>> /\ mishaps \subseteq mishaps'
  BY DEF Serves
<1>2. ASSUME reply'[d] = reply[d] \/ reply'[d] \notin {"allow", "redeemed", "cut"}
      PROVE  Answered(d)'
  BY <1>1, <1>2 DEF Answered, Forward
<1>3. CASE UNCHANGED reply
  BY <1>2, <1>3
<1>4. CASE Fails
  <2>1. reply'[d] \in {reply[d], None, "unusable"}
    BY <1>4 DEF Fails
  <2>2. None \notin {"allow", "redeemed", "cut"}
    BY NoneAssumption DEF Answers
  <2>3. QED BY <1>2, <2>1, <2>2
<1>5. CASE Respond
  <2>1. handler # None /\ ~handler.second /\ grant' = grant
    BY <1>5, RespondFacts
  <2>2. PICK seen \in {handler.answer, "unusable", "cut"} :
           /\ seen = "cut" => handler.call \in mishaps'
           /\ reply'[d] = reply[d] \/ (d = handler.call /\ reply'[d] = seen)
    BY <1>5, RespondFacts
  <2>3. CASE reply'[d] = reply[d]
    BY <1>2, <2>3
  <2>4. CASE d = handler.call /\ reply'[d] = seen
    <3>1. Handled
      BY <2>1 DEF HandlerInv
    <3>2. /\ handler.answer = "allow" => grant[d] # "absent"
          /\ handler.answer = "redeemed" => grant[d] \in Spent
      BY <2>1, <2>4, <3>1 DEF Handled
    <3>3. QED BY <1>1, <2>1, <2>2, <2>4, <3>2 DEF Answered
  <2>5. QED BY <2>2, <2>3, <2>4
<1>6. QED BY <1>3, <1>4, <1>5, HandlesTypes, SecondFacts, PublishFacts

LEMMA ServerInvStep ==
    ASSUME TypeOK, ClientInv, ServerInv, [Next]_vars
    PROVE  ServerInv'
<1>1. HandlerInv' /\ (\A d \in Calls : Wire(d)') /\ Forward
  BY HandlerInvStep, WireStep, ForwardStep DEF ServerInv
<1>2. SUFFICES ASSUME NEW d \in Calls PROVE Answered(d)'
  BY <1>1 DEF ServerInv
<1>3. Answered(d) /\ HandlerInv
  BY DEF ServerInv
<1>4. ASSUME NEW c \in Calls, ClientMoves(c) PROVE Answered(d)'
  BY <1>3, <1>4, AnsweredMoves
<1>5. CASE Serves /\ ((\E c \in Calls : Handles(c)) \/ Second \/ Publish \/ Respond \/ Fails)
  BY <1>1, <1>3, <1>5, AnsweredServes
<1>6. CASE UNCHANGED vars
  BY <1>3, <1>6 DEF Answered, vars, server, client
<1>7. QED BY <1>4, <1>5, <1>6, NextCases

-----------------------------------------------------------------------------
(* Reports *)

LEMMA ReportMoves ==
    ASSUME TypeOK, ClientInv, NEW c \in Calls, ClientMoves(c), NEW d \in Calls,
           Answered(d), Reports(d)
    PROVE  Reports(d)'
<1>1. PICK seen : Moves(c, seen) /\ seen \in {reply[c], "unusable"}
  BY DEF ClientMoves
<1>2. Phase(c)
  BY DEF ClientInv
<1>3. UNCHANGED <<grant, trail, handler, mishaps>>
  BY DEF ClientMoves
<1>4. wire \subseteq wire'
  BY <1>1, MoveSends DEF Sends
<1>5. Busy(d)' <=> Busy(d)
  BY <1>3 DEF Busy
<1>7. CASE d # c
  <2>1. pc'[d] = pc[d] /\ ran'[d] = ran[d] /\ (d \in told' <=> d \in told)
    BY <1>1, <1>2, <1>7, PhaseMoves, MoveFacts
  <2>2. Report(d)' = Report(d)
    BY <2>1 DEF Report
  <2>3. QED BY <1>3, <1>4, <1>5, <2>1, <2>2 DEF Reports
<1>8. CASE d = c
  <2>1. /\ told' = told \/ (told' = told \union {c} /\ seen = "allow" /\ pc'[c] = "redeem")
        /\ pc'[c] = "executed" => ran'[c] = "returned"
        /\ pc'[c] = "error" => ran'[c] \in {"no", "raised"}
        /\ pc'[c] = "done" => /\ ran'[c] = ran[c]
                              /\ pc[c] \in {"authorize", "executed", "error"}
                                 \/ (pc[c] = "close" /\ seen = "cut")
    BY <1>1, <1>2, MoveFacts
  <2>2. CASE pc'[c] \in {"executed", "error"}
    <3>1. Report(c)' = pc'[c]
      BY <2>1, <2>2 DEF Report
    <3>2. Req(c, pc'[c]) \in wire'
      BY <1>1, <2>2, MoveSends DEF Sends, Ops
    <3>3. QED BY <1>8, <3>1, <3>2 DEF Reports
  <2>3. CASE pc'[c] = "done"
    <3>1. Report(c)' = Report(c) /\ told' = told
      BY <2>1, <2>3 DEF Report
    <3>2. CASE pc[c] = "authorize"
      BY <1>8, <3>1, <3>2 DEF Reports, Answered
    <3>3. CASE pc[c] = "close" /\ seen = "cut"
      BY <1>1, <1>3, <1>8, <3>3 DEF Reports, Answered
    <3>4. CASE pc[c] \in {"executed", "error"}
      BY <1>3, <1>4, <1>5, <1>8, <3>1, <3>4 DEF Reports
    <3>5. QED BY <2>1, <2>3, <3>2, <3>3, <3>4
  <2>4. CASE pc'[c] \notin {"executed", "error", "done"}
    BY <1>8, <2>4 DEF Reports
  <2>5. QED BY <2>2, <2>3, <2>4
<1>9. QED BY <1>7, <1>8

LEMMA ReportServes ==
    ASSUME TypeOK, HandlerInv, Serves, Forward, NEW d \in Calls, Answered(d), Reports(d),
           (\E c \in Calls : Handles(c)) \/ Second \/ Publish \/ Respond \/ Fails
    PROVE  Reports(d)'
<1>1. /\ UNCHANGED <<pc, told, ran>> /\ mishaps \subseteq mishaps'
      /\ Report(d)' = Report(d)
  BY DEF Serves, Report
<1>2. SUFFICES ASSUME d \in told, d \notin mishaps', pc[d] \in {"executed", "error", "done"}
               PROVE  \/ Req(d, Report(d)) \in wire'
                      \/ Busy(d)' /\ handler'.op = Report(d)
                      \/ Fact(d, Report(d)) \in trail' /\ grant'[d] \in Shut
  BY <1>1 DEF Reports
<1>3. PICK r \in {"executed", "error"} : r = Report(d)
  BY DEF Report
<1>4. r \in Ops
  BY DEF Ops
<1>5. \/ Req(d, r) \in wire
      \/ Busy(d) /\ handler.op = r
      \/ Fact(d, r) \in trail /\ grant[d] \in Shut
  BY <1>1, <1>2, <1>3 DEF Reports
<1>6. CASE Fact(d, r) \in trail /\ grant[d] \in Shut
  BY <1>3, <1>6 DEF Forward
<1>7. CASE Req(d, r) \in wire
  <2>1. SUFFICES ASSUME Req(d, r) \notin wire' PROVE Busy(d)' /\ handler'.op = r
    BY <1>3
  <2>2. ~Second /\ ~Publish /\ ~Respond
    BY <1>7, <2>1, SecondFacts, PublishFacts, RespondFacts
  <2>3. ~Fails
    BY <1>2, <1>4, <1>7, <2>1 DEF Fails
  <2>4. PICK c \in Calls : Handles(c)
    BY <2>2, <2>3
  <2>5. PICK op \in Ops : \E answer, second, events : Takes(c, op, answer, second, events)
    BY <2>4 DEF Handles, Ops
  <2>6. /\ wire' = wire \ {Req(c, op)} /\ handler' # None
        /\ handler'.call = c /\ handler'.op = op
    BY <2>5 DEF Takes
  <2>7. Req(d, r) = Req(c, op)
    BY <1>7, <2>1, <2>6
  <2>8. d = c /\ r = op
    BY <2>7 DEF Req
  <2>9. QED BY <2>6, <2>8 DEF Busy
<1>8. CASE Busy(d) /\ handler.op = r
  <2>1. handler # None /\ handler.call = d
    BY <1>8 DEF Busy
  <2>2. CASE \E c \in Calls : Handles(c)
    BY <2>1, <2>2, HandlesTypes
  <2>3. CASE Second
    BY <1>3, <1>8, <2>1, <2>3, SecondFacts DEF Busy
  <2>4. CASE Publish
    BY <1>3, <1>8, <2>1, <2>4, PublishFacts DEF Busy
  <2>5. CASE Respond
    <3>1. ~handler.second /\ UNCHANGED <<grant, trail>>
      BY <2>5, RespondFacts
    <3>2. Fact(d, r) \in trail /\ grant[d] \notin {"issued", "spent"}
      BY <1>8, <2>1, <3>1 DEF HandlerInv, Handled
    <3>3. grant[d] # "absent" /\ grant[d] \in GrantStates
      BY <1>2 DEF Answered, TypeOK, GrantStates
    <3>4. QED BY <1>3, <3>1, <3>2, <3>3 DEF GrantStates, Spent, Shut
  <2>6. CASE Fails
    BY <1>2, <1>3, <1>8, <2>1, <2>6 DEF Fails, Busy
  <2>7. QED BY <2>2, <2>3, <2>4, <2>5, <2>6
<1>9. QED BY <1>5, <1>6, <1>7, <1>8

LEMMA ReportInvStep ==
    ASSUME TypeOK, ClientInv, ServerInv, ReportInv, [Next]_vars
    PROVE  ReportInv'
<1>1. HandlerInv /\ Forward
  BY ForwardStep DEF ServerInv
<1>2. SUFFICES ASSUME NEW d \in Calls PROVE Reports(d)'
  BY DEF ReportInv
<1>3. Answered(d) /\ Reports(d)
  BY DEF ServerInv, ReportInv
<1>4. ASSUME NEW c \in Calls, ClientMoves(c) PROVE Reports(d)'
  BY <1>3, <1>4, ReportMoves
<1>5. CASE Serves /\ ((\E c \in Calls : Handles(c)) \/ Second \/ Publish \/ Respond \/ Fails)
  BY <1>1, <1>3, <1>5, ReportServes
<1>6. CASE UNCHANGED vars
  BY <1>3, <1>6 DEF Reports, Report, Busy, vars, server, client
<1>7. QED BY <1>4, <1>5, <1>6, NextCases

-----------------------------------------------------------------------------
(* The theorems *)

Inv == TypeOK /\ ClientInv /\ ServerInv /\ ReportInv

LEMMA InitInv ==
    ASSUME Init PROVE Inv
<1>1. TypeOK
  BY DEF Init, TypeOK
<1>2. ClientInv
  BY DEF Init, ClientInv, Phase, InTurn
<1>3. ServerInv
  <2>1. HandlerInv
    BY DEF Init, HandlerInv
  <2>2. \A c \in Calls : Wire(c)
    BY DEF Init, Wire, Busy
  <2>3. None \notin {"allow", "redeemed", "cut"}
    BY NoneAssumption DEF Answers
  <2>4. \A c \in Calls : Answered(c)
    BY <2>3 DEF Init, Answered
  <2>5. QED BY <2>1, <2>2, <2>4 DEF ServerInv
<1>4. ReportInv
  BY DEF Init, ReportInv, Reports
<1>5. QED BY <1>1, <1>2, <1>3, <1>4 DEF Inv

LEMMA InvStep ==
    ASSUME Inv, [Next]_vars PROVE Inv'
BY TypeStep, ClientInvStep, ServerInvStep, ReportInvStep DEF Inv

LEMMA InvHolds == Spec => []Inv
<1>1. QED BY InitInv, InvStep, PTL DEF Spec

\* A ToolConnectError means that nothing ran: however often a caller tries again after one,
\* and whatever was lost or is still on its way, governed_invoke runs its job at most once.
THEOREM RetriesAreSafe == Spec => []JobRunsOnce
<1>1. ASSUME Inv PROVE JobRunsOnce
  <2>1. SUFFICES ASSUME NEW c \in Calls, NEW d \in Calls, c[1] = d[1], ran[c] # "no", ran[d] # "no"
                 PROVE  c = d
    BY DEF JobRunsOnce
  <2>2. /\ c = <<c[1], c[2]>> /\ d = <<d[1], d[2]>>
        /\ c[2] \in 1..MaxAttempts /\ d[2] \in 1..MaxAttempts
    BY DEF Calls
  <2>3. MaxAttempts \in Nat
    BY AttemptsAssumption
  <2>4. ASSUME NEW e \in Calls, NEW f \in Calls, e[1] = f[1], e[2] < f[2],
               ran[e] # "no", ran[f] # "no"
        PROVE  FALSE
    <3>1. Phase(e) /\ Phase(f) /\ InTurn(f) /\ ran[e] \in Runs
      BY <1>1 DEF Inv, ClientInv, TypeOK, Runs
    <3>2. pc[f] # "new"
      BY <2>4, <3>1 DEF Phase
    <3>3. pc[e] = "done" /\ result[e] \in Refusals
      BY <2>4, <3>1, <3>2 DEF InTurn
    <3>4. QED BY <2>4, <3>1, <3>3 DEF Phase, Runs, Refusals
  <2>5. c[2] < d[2] \/ c[2] = d[2] \/ d[2] < c[2]
    BY <2>2, <2>3
  <2>6. QED BY <2>1, <2>2, <2>4, <2>5
<1>2. QED BY <1>1, InvHolds, PTL

\* Whatever the audit path does after the executor has ended, governed_invoke returns its
\* result or raises its exception, unless an answer is cut short in its body.
THEOREM ResultsSurvive == Spec => []OutageSparesTheResult
<1>1. ASSUME Inv PROVE OutageSparesTheResult
  BY <1>1 DEF Inv, ClientInv, Phase, OutageSparesTheResult
<1>2. QED BY <1>1, InvHolds, PTL

\* The audit trail that authorize and record_outcome write, and the events published from
\* it, never say more than what happened, however late a request is handled.
THEOREM TrailIsTrue == Spec => []TrailTellsTheTruth
<1>1. ASSUME Inv PROVE TrailTellsTheTruth
  BY <1>1 DEF Inv, ServerInv, HandlerInv, Wire, TrailTellsTheTruth
<1>2. QED BY <1>1, InvHolds, PTL

\* A call of governed_invoke that is over and whose requests were all handled, in whatever
\* order and however late, has left its grant closed and exactly one outcome on the trail.
THEOREM TidyEndings == Spec => []CallsEndTidily
<1>1. ASSUME Inv PROVE CallsEndTidily
  <2>1. SUFFICES ASSUME NEW c \in told \ mishaps, Quiet(c)
                 PROVE  /\ grant[c] \in {"closed", "spent_closed"}
                        /\ Outcomes(c) = {Fact(c, Report(c))}
    BY DEF CallsEndTidily, Report
  <2>2. c \in Calls /\ trail \subseteq Facts
    BY <1>1 DEF Inv, TypeOK, Facts
  <2>3. Reports(c) /\ Wire(c)
    BY <1>1, <2>2 DEF Inv, ServerInv, ReportInv
  <2>4. pc[c] = "done" /\ ~Busy(c) /\ Req(c, Report(c)) \notin wire
    BY <2>1 DEF Quiet, Busy, Req
  <2>5. Fact(c, Report(c)) \in trail /\ grant[c] \in Shut
    BY <2>1, <2>3, <2>4 DEF Reports
  <2>6. ASSUME NEW f \in trail, f.call = c, f.fact \in {"executed", "error"}
        PROVE  f = Fact(c, Report(c))
    <3>1. f = Fact(c, f.fact)
      BY <2>2, <2>6 DEF Facts, Fact
    <3>2. f.fact = Report(c)
      BY <2>3, <2>6, <3>1 DEF Wire, Report
    <3>3. QED BY <3>1, <3>2
  <2>7. Fact(c, Report(c)).call = c /\ Fact(c, Report(c)).fact \in {"executed", "error"}
    BY DEF Fact, Report
  <2>8. Outcomes(c) = {Fact(c, Report(c))}
    BY <2>5, <2>6, <2>7 DEF Outcomes
  <2>9. QED BY <2>5, <2>8 DEF Shut
<1>2. QED BY <1>1, InvHolds, PTL

-----------------------------------------------------------------------------
(* What is executed, as the ledger of grants sees it *)

Uses == [c \in Calls |-> IF ran[c] = "no" THEN 0 ELSE 1]

LEMMA LedgerStep ==
    ASSUME Inv, [Next]_vars
    PROVE  [Ledger!Next]_(Ledger!vars)
<1>0. TypeOK /\ ClientInv /\ ServerInv /\ HandlerInv
  BY DEF Inv, ServerInv
<1> USE DEF Ledger!Next, Ledger!vars, Ledger!Move, Ledger!Issue, Ledger!Spend, Ledger!Close,
            Ledger!Deliver
<1>1. ASSUME UNCHANGED ran, UNCHANGED grant PROVE UNCHANGED Ledger!vars
  BY <1>1
<1>2. ASSUME NEW c \in Calls, UNCHANGED ran,
             \/ grant[c] = "absent" /\ Sets(c, "issued")
             \/ grant[c] = "issued" /\ Sets(c, "spent")
             \/ grant[c] = "issued" /\ Sets(c, "closed")
             \/ grant[c] = "spent" /\ Sets(c, "spent_closed")
      PROVE  Ledger!Next
  BY <1>2 DEF Sets
<1>3. ASSUME NEW c \in Calls, UNCHANGED ran, Sets(c, Closed(grant[c]))
      PROVE  [Ledger!Next]_(Ledger!vars)
  <2>1. grant[c] \in GrantStates /\ grant = [grant EXCEPT ![c] = grant[c]]
    BY <1>0 DEF TypeOK, GrantStates
  <2>2. Closed(grant[c]) = grant[c] \/ grant[c] \in {"issued", "spent"}
    BY <2>1 DEF Closed, GrantStates, Spent
  <2>3. CASE Closed(grant[c]) = grant[c]
    BY <1>1, <1>3, <2>1, <2>3 DEF Sets
  <2>4. CASE grant[c] = "issued"
    BY <1>2, <1>3, <2>4 DEF Closed
  <2>5. CASE grant[c] = "spent"
    BY <1>2, <1>3, <2>5 DEF Closed
  <2>6. QED BY <2>2, <2>3, <2>4, <2>5
<1> HIDE DEF Ledger!Next, Ledger!vars, Ledger!Move, Ledger!Issue, Ledger!Spend, Ledger!Close,
             Ledger!Deliver
<1>4. ASSUME NEW c \in Calls, ClientMoves(c) PROVE [Ledger!Next]_(Ledger!vars)
  <2>1. PICK seen : Moves(c, seen) /\ seen \in {reply[c], "unusable"}
    BY <1>4 DEF ClientMoves
  <2>2. Phase(c) /\ Answered(c)
    BY <1>0 DEF ClientInv, ServerInv
  <2>3. /\ \A d \in Calls \ {c} : ran'[d] = ran[d]
        /\ \/ ran'[c] = ran[c]
           \/ pc[c] = "redeem" /\ ran'[c] = "running" /\ seen = "redeemed"
           \/ pc[c] = "running" /\ ran'[c] \in {"returned", "raised"}
    BY <1>0, <2>1, <2>2, PhaseMoves, MoveFacts
  <2>4. grant' = grant
    BY <1>4 DEF ClientMoves
  <2>5. CASE \/ ran'[c] = ran[c]
             \/ pc[c] = "running" /\ ran'[c] \in {"returned", "raised"}
    <3>1. \A d \in Calls : ran'[d] = "no" <=> ran[d] = "no"
      BY <2>2, <2>3, <2>5 DEF Phase
    <3>2. QED BY <2>4, <3>1 DEF Ledger!vars
  <2>6. CASE pc[c] = "redeem" /\ ran'[c] = "running" /\ seen = "redeemed"
    <3>1. grant[c] \in {"spent", "spent_closed"} /\ ran[c] = "no"
      BY <2>1, <2>2, <2>6 DEF Answered, Phase, Spent
    <3>2. Uses' = [Uses EXCEPT ![c] = 1] /\ Uses[c] = 0
      BY <2>3, <2>6, <3>1 DEF Uses
    <3>3. Ledger!Deliver(c)
      BY <2>4, <3>1, <3>2 DEF Ledger!Deliver, Uses
    <3>4. QED BY <3>3 DEF Ledger!Next
  <2>7. QED BY <2>3, <2>5, <2>6
<1>5. ASSUME NEW c \in Calls, Handles(c), Serves PROVE [Ledger!Next]_(Ledger!vars)
  <2>1. \/ grant' = grant
        \/ grant[c] = "issued" /\ Sets(c, "spent")
        \/ grant[c] = "issued" /\ Sets(c, "closed")
        \/ Sets(c, Closed(grant[c]))
    BY <1>5 DEF Handles
  <2>2. UNCHANGED ran
    BY <1>5 DEF Serves
  <2>3. QED BY <1>1, <1>2, <1>3, <2>1, <2>2
<1>6. CASE Second /\ Serves
  <2>0. PICK c \in Calls : c = handler.call
    BY <1>0, <1>6, SecondFacts
  <2>1. \/ handler.op = "authorize" /\ Sets(c, "issued")
        \/ grant' = grant
        \/ Sets(c, Closed(grant[c]))
    BY <1>0, <1>6, <2>0, SecondFacts
  <2>2. handler.op = "authorize" => grant[c] = "absent"
    BY <1>0, <1>6, <2>0, SecondFacts DEF HandlerInv, Handled
  <2>3. UNCHANGED ran
    BY <1>6 DEF Serves
  <2>4. QED BY <1>1, <1>2, <1>3, <2>1, <2>2, <2>3
<1>7. CASE Serves /\ (Publish \/ Respond \/ Fails)
  BY <1>0, <1>1, <1>7, PublishFacts, RespondFacts DEF Serves, Fails
<1>8. CASE UNCHANGED vars
  BY <1>1, <1>8 DEF vars, server, client
<1>9. QED BY <1>0, <1>4, <1>5, <1>6, <1>7, <1>8, NextCases

\* To the ledger of grants, an execution by governed_invoke is a redemption delivered: an
\* executor starts at most once per grant, and only for one already spent on disk.
THEOREM ExecutionsAreRedemptions == Spec => ExecutionsImplementLedger
<1>1. Init => Ledger!Init
  BY DEF Init, Ledger!Init
<1>2. Inv /\ [Next]_vars => [Ledger!Next]_(Ledger!vars)
  BY LedgerStep
<1>3. QED BY <1>1, <1>2, InvHolds, PTL DEF Spec, ExecutionsImplementLedger, Ledger!Spec
=============================================================================
