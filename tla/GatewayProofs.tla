--------------------------- MODULE GatewayProofs ----------------------------
(***************************************************************************)
(* The gateway keeps its promises whatever the client asks, and however    *)
(* the server answers, delays, floods or dies: what reaches the server as  *)
(* a tool call was redeemed for, once; a result given to the client is     *)
(* made of the answers to its own requests; the trail agrees with the      *)
(* reply; every request is answered once; a listing is bounded.            *)
(*                                                                         *)
(* The argument: Turn says what the place in the code tells of the message *)
(* in hand, Gathering which requests were sent for it and which of them    *)
(* are answered, Past that earlier messages are over and later ones have   *)
(* left nothing, and Wire that a request is unread, pending or answered,   *)
(* never two of these, and was read as what it was sent as.                *)
(***************************************************************************)
EXTENDS Gateway, FiniteSetTheorems, TLAPS

Pcs == {"idle", "closed", "dispatch", "authorize", "redeem", "send", "receive", "refuse",
        "outcome", "reply"}
Over == {"idle", "closed"}
Verdicts == {"transport", "rpc_error", "result"}
Cursors == {page.cursor : page \in Pages \union {NoPage}}
Listing == [pages : Nat, size : Nat, seen : SUBSET Cursors]
Answer == [type : {"refused", "unavailable"} \union Verdicts, from : Seq(Nat)]
Input == [type : Kinds \union {"note", "refusal"}, id : Nat]

TypeOK ==
    /\ n \in 0..MaxMsgs /\ msg \in Kinds /\ pc \in Pcs
    /\ verdict \in Verdicts \union {"none"} /\ used \in Seq(Nat) /\ listing \in Listing
    /\ replies \in [1..MaxMsgs -> Seq(Answer)]
    /\ grants \in [1..MaxMsgs -> {"none", "issued", "redeemed", "spent", "closed"}]
    /\ outcomes \in [1..MaxMsgs -> {"none", "executed", "error", "lost"}]
    /\ issued \in Seq(1..MaxMsgs) /\ up \in Seq(Input) /\ down \in Seq(Frame)
    /\ alive \in BOOLEAN /\ pending \subseteq Nat /\ ran \subseteq Nat

\* What the place in the code tells of the message in hand.
Turn ==
    /\ pc \notin Over => n >= 1 /\ replies[n] = NoReply
    /\ pc \notin Over \union {"reply"} => outcomes[n] = "none"
    /\ pc \in {"authorize", "redeem", "outcome"} => msg = "call"
    /\ pc \in {"send", "receive", "refuse", "reply"} => msg \in {"ping", "list", "call"}
    /\ pc \in {"dispatch", "authorize"} => grants[n] = "none"
    /\ pc = "redeem" => grants[n] = "issued"
    /\ pc \in {"send", "receive", "refuse", "outcome"} /\ msg = "call" =>
          grants[n] = "redeemed"
    /\ n >= 1 /\ msg # "call" => grants[n] = "none"
    /\ pc \in {"outcome", "reply"} => verdict \in Verdicts
    /\ pc = "reply" /\ msg = "call" => outcomes[n] \in {"lost", Outcome}

\* A sequence of ids names every member of a set once.
Lists(s, S) == {s[j] : j \in 1..Len(s)} = S /\ Len(s) = Cardinality(S)

\* The requests sent for the message in hand, and those that the answer is built from.
Gathering ==
    /\ pc \in {"dispatch", "authorize", "redeem"} =>
          For(n) = {} /\ used = <<>> /\ listing.pages = 0
    /\ pc = "send" =>
          /\ Lists(used, For(n)) /\ Len(used) = listing.pages /\ listing.pages < MaxListPages
          /\ msg # "list" => For(n) = {}
    /\ pc \in {"receive", "refuse"} =>
          /\ Req \in For(n) /\ Lists(used, For(n) \ {Req})
          /\ Len(used) = listing.pages /\ listing.pages < MaxListPages
          /\ msg # "list" => For(n) = {Req}
    /\ pc \in {"outcome", "reply"} /\ verdict = "result" => Lists(used, For(n))
    /\ pc = "outcome" /\ verdict # "transport" => For(n) # {} /\ For(n) \subseteq ran \ pending

\* Messages to come have left nothing.
Past ==
    /\ \A i \in 1..Len(issued) : issued[i] <= n
    /\ \A k \in 1..MaxMsgs : k > n =>
          replies[k] = NoReply /\ grants[k] = "none" /\ outcomes[k] = "none"

Governs(i) == grants[issued[i]] # "none"

\* A message on its way to the server.
Unread(j) ==
    LET id == up[j].id
    IN  /\ up[j].type = "call" => id # 0
        /\ id # 0 =>
              /\ id \in 1..Len(issued) /\ id \notin pending \union ran
              /\ up[j].type = "call" <=> Governs(id)
              /\ \A l \in 1..Len(down) : down[l].type \in AnswerTypes => down[l].id # id
              /\ \A l \in 1..Len(up) : up[l].id = id => l = j

\* A request the server has read.
Read(i) == i \in 1..Len(issued) /\ (Governs(i) => i \in ran)

Answered(l) ==
    down[l].type \in AnswerTypes => Read(down[l].id) /\ down[l].id \notin pending

\* A governed request is the only one for its message.
Carried(i) ==
    Governs(i) => /\ grants[issued[i]] \in {"redeemed", "closed"}
                  /\ \A j \in 1..Len(issued) : issued[j] = issued[i] => j = i

Wire ==
    /\ \A j \in 1..Len(up) : Unread(j)
    /\ \A i \in pending : Read(i)
    /\ \A l \in 1..Len(down) : Answered(l)
    /\ \A i \in ran : i \in 1..Len(issued) /\ Governs(i)
    /\ \A i \in 1..Len(issued) : Carried(i)

Inv ==
    /\ TypeOK /\ Turn /\ Gathering /\ Past /\ Wire
    /\ ListingIsBounded /\ ResultsAreOwn /\ AnsweredOnce /\ TrailMatchesReply
-----------------------------------------------------------------------------
(* Types *)

LEMMA ConsumeType ==
    ASSUME down \in Seq(Frame), down # <<>>, Consume
    PROVE  /\ Incoming \in Frame /\ down' \in Seq(Frame)
           /\ \A l \in 1..Len(down') : down'[l].type \in AnswerTypes =>
                 \E m \in 1..Len(down) : down[m] = down'[l]
<1>1. /\ Incoming \in Frame /\ Tail(down) \in Seq(Frame) /\ Len(Tail(down)) = Len(down) - 1
      /\ Len(down) \in Nat \ {0}
      /\ \A l \in 1..Len(Tail(down)) : l + 1 \in 1..Len(down) /\ Tail(down)[l] = down[l + 1]
  BY DEF Incoming
<1>2. CASE down' = <<Bare("not_json")>> \o Tail(down)
  <2>1. Bare("not_json") \in Frame /\ Bare("not_json").type \notin AnswerTypes
    BY DEF Bare, Frame, Noise, AnswerTypes
  <2>2. PICK b : b = Bare("not_json")
    OBVIOUS
  <2>3. down' = <<b>> \o Tail(down)
    BY <1>2, <2>2
  <2>4. PICK rest \in Seq(Frame) : rest = Tail(down)
    BY <1>1
  <2>5. /\ <<b>> \o rest \in Seq(Frame) /\ Len(<<b>> \o rest) = Len(rest) + 1
        /\ \A l \in 1..(Len(rest) + 1) :
              (<<b>> \o rest)[l] = IF l = 1 THEN b ELSE rest[l - 1]
    BY <2>1, <2>2
  <2>6. ASSUME NEW l \in 1..Len(down'), down'[l].type \in AnswerTypes
        PROVE  \E m \in 1..Len(down) : down[m] = down'[l]
    <3>1. l # 1 /\ l - 1 \in 1..Len(rest) /\ down'[l] = rest[l - 1]
      BY <2>1, <2>2, <2>3, <2>4, <2>5, <2>6
    <3>2. QED BY <1>1, <2>4, <3>1
  <2>7. QED BY <1>1, <2>3, <2>4, <2>5, <2>6
<1>3. CASE down' = Tail(down)
  BY <1>1, <1>3
<1>4. QED BY <1>2, <1>3 DEF Consume

LEMMA SayType ==
    ASSUME TypeOK, NEW type \in {"refused", "unavailable"} \union Verdicts, Say(type),
           n \in 1..MaxMsgs
    PROVE  /\ replies' \in [1..MaxMsgs -> Seq(Answer)]
           /\ replies'[n] = Append(replies[n], [type |-> type, from |-> used])
           /\ \A k \in 1..MaxMsgs : k # n => replies'[k] = replies[k]
<1>1. [type |-> type, from |-> used] \in Answer
  BY DEF TypeOK, Answer
<1>2. PICK a \in Answer : a = [type |-> type, from |-> used]
  BY <1>1
<1>3. replies' = [replies EXCEPT ![n] = Append(replies[n], a)]
  BY <1>2 DEF Say
<1>4. QED BY <1>2, <1>3 DEF TypeOK

LEMMA RefuseType ==
    ASSUME TypeOK, n \in 1..MaxMsgs, Refuse
    PROVE  /\ pc' = "idle" /\ replies' \in [1..MaxMsgs -> Seq(Answer)]
           /\ replies'[n] = Append(replies[n], [type |-> "refused", from |-> used])
           /\ \A k \in 1..MaxMsgs : k # n => replies'[k] = replies[k]
<1>1. Say("refused") /\ pc' = "idle"
  BY DEF Refuse
<1>2. "refused" \in {"refused", "unavailable"} \union Verdicts
  OBVIOUS
<1>3. QED BY <1>1, <1>2, SayType, Zenon

LEMMA Busy == ASSUME TypeOK, Turn, pc \notin Over PROVE n \in 1..MaxMsgs
  BY BoundsAssumption DEF TypeOK, Turn

LEMMA TypeDispatch == ASSUME TypeOK, Turn, Dispatch PROVE TypeOK'
<1>1. n \in 1..MaxMsgs /\ pc = "dispatch"
  BY Busy DEF Dispatch, ReadFails, DispatchLost, DispatchRefuse, DispatchDrop, DispatchNotify,
              DispatchRequest, Over
<1>2. CASE DispatchRefuse
  <2>1. replies' \in [1..MaxMsgs -> Seq(Answer)]
    BY <1>1, <1>2, RefuseType DEF DispatchRefuse
  <2>2. QED BY <1>2, <2>1 DEF DispatchRefuse, Refuse, TypeOK, Pcs, link, server, trail, local
<1>3. CASE DispatchDrop \/ DispatchLost
  BY <1>3 DEF DispatchDrop, DispatchLost, TypeOK, Pcs, link, server, trail, local
<1>4. CASE DispatchNotify
  <2>1. [type |-> "note", id |-> 0] \in Input
    BY DEF Input
  <2>2. QED BY <1>4, <2>1 DEF DispatchNotify, Write, TypeOK, Pcs, server, trail, local
<1>5. CASE DispatchRequest
  BY <1>5 DEF DispatchRequest, TypeOK, Pcs, link, server, trail, local
<1>6. CASE ReadFails
  BY <1>6 DEF ReadFails, TypeOK, Pcs, link, trail, local
<1>7. QED BY <1>2, <1>3, <1>4, <1>5, <1>6 DEF Dispatch

LEMMA TypeGoverned == ASSUME TypeOK, Turn, Governed PROVE TypeOK'
<1>1. n \in 1..MaxMsgs
  BY Busy DEF Governed, AuthorizeAllow, AuthorizeRefuse, RedeemOk, RedeemDenied, ServiceFault,
     Over
<1>2. ASSUME Refuse PROVE pc' \in Pcs /\ replies' \in [1..MaxMsgs -> Seq(Answer)]
  BY <1>1, <1>2, RefuseType DEF Pcs
<1>3. CASE AuthorizeAllow
  BY <1>1, <1>3 DEF AuthorizeAllow, TypeOK, Pcs, link, server, trail, local
<1>4. CASE AuthorizeRefuse
  BY <1>2, <1>4 DEF AuthorizeRefuse, TypeOK, link, server, trail, local
<1>5. CASE RedeemOk
  BY <1>1, <1>5 DEF RedeemOk, TypeOK, Pcs, link, server, trail, local
<1>6. ASSUME NEW status \in {"issued", "spent"}, RedeemDenied(status) PROVE TypeOK'
  BY <1>1, <1>2, <1>6 DEF RedeemDenied, TypeOK, link, server, trail, local
<1>7. CASE ServiceFault
  <2>1. PICK status \in {grants[n]} \union (IF pc = "redeem" THEN {"spent"} ELSE {}) :
             grants' = [grants EXCEPT ![n] = status]
    BY <1>7 DEF ServiceFault
  <2>2. status \in {"none", "issued", "redeemed", "spent", "closed"}
    BY <1>1, <2>1 DEF TypeOK
  <2>3. QED BY <1>1, <1>2, <1>7, <2>1, <2>2 
           DEF ServiceFault, Escape, TypeOK, link, server, trail, local
<1>8. QED BY <1>3, <1>4, <1>5, <1>6, <1>7 DEF Governed

LEMMA ConcludeType ==
    ASSUME NEW v \in Verdicts, Conclude(v)
    PROVE  verdict' = v /\ pc' \in Pcs /\ pc' = IF msg = "call" THEN "outcome" ELSE "reply"
  BY DEF Conclude, Pcs

LEMMA TypeCall == ASSUME TypeOK, Turn, Call PROVE TypeOK'
<1>1. n \in 1..MaxMsgs
  BY Busy DEF Call, Send, ReceiveGarbage, ReceiveEscapes, ReceiveSkip, ReceiveRequest,
              SendRefusal, ReceiveError, ReceiveNeither, ReceiveResult, ReceivePage, Timeout, Over
<1>2. \A v \in Verdicts : Conclude(v) => verdict' \in Verdicts /\ pc' \in Pcs
  BY ConcludeType
<1>3. Len(issued) \in Nat
  BY DEF TypeOK
<1>4. CASE Send
  <2>1. [type |-> msg, id |-> Len(issued) + 1] \in Input
    BY <1>3 DEF Input, TypeOK
  <2>2. up' \in Seq(Input)
    BY <1>4, <2>1 DEF Send, Write, TypeOK
  <2>3. pc' \in Pcs /\ verdict' \in Verdicts \union {"none"}
    BY <1>2, <1>4 DEF Send, TypeOK, Pcs, Verdicts
  <2>4. QED BY <1>1, <1>4, <2>2, <2>3 DEF Send, TypeOK, server, trail
<1>5. CASE ReceiveGarbage
  BY <1>2, <1>5, ConsumeType DEF ReceiveGarbage, TypeOK, Verdicts, server, trail
<1>6. CASE ReceiveEscapes
  <2>1. pc' \in Pcs /\ replies' \in [1..MaxMsgs -> Seq(Answer)]
    BY <1>1, <1>6, RefuseType DEF ReceiveEscapes, Escape, Pcs
  <2>2. QED BY <1>6, <2>1, ConsumeType DEF ReceiveEscapes, TypeOK, server, trail, local
<1>7. CASE ReceiveSkip
  BY <1>7, ConsumeType DEF ReceiveSkip, TypeOK, server, trail, local
<1>8. CASE ReceiveRequest
  BY <1>8, ConsumeType DEF ReceiveRequest, TypeOK, Pcs, server, trail, local
<1>9. CASE SendRefusal
  <2>1. [type |-> "refusal", id |-> 0] \in Input
    BY DEF Input
  <2>2. up' \in Seq(Input)
    BY <1>9, <2>1 DEF SendRefusal, Write, TypeOK
  <2>3. pc' \in Pcs /\ verdict' \in Verdicts \union {"none"}
    BY <1>2, <1>9 DEF SendRefusal, TypeOK, Pcs, Verdicts
  <2>4. QED BY <1>9, <2>2, <2>3 DEF SendRefusal, TypeOK, server, trail
<1>10. CASE ReceiveError
  BY <1>2, <1>10, ConsumeType DEF ReceiveError, TypeOK, Verdicts, server, trail
<1>11. CASE ReceiveNeither
  BY <1>2, <1>11, ConsumeType DEF ReceiveNeither, TypeOK, Verdicts, server, trail
<1>12. CASE ReceiveResult
  <2>1. used' = Append(used, Req) /\ used' \in Seq(Nat)
    BY <1>3, <1>12 DEF ReceiveResult, Matches, Req, TypeOK
  <2>2. QED BY <1>2, <1>12, <2>1, ConsumeType DEF ReceiveResult, TypeOK, Verdicts, server, trail
<1>13. CASE ReceivePage
  <2>1. used' = Append(used, Req) /\ used' \in Seq(Nat)
    BY <1>3, <1>13 DEF ReceivePage, Matches, Req, TypeOK
  <2>2. PICK page \in Pages \union {NoPage} : page = Incoming.page
    BY <1>13, ConsumeType DEF ReceivePage, TypeOK, Frame
  <2>3. page.cursor \in Cursors /\ page.size \in Nat
    BY KindsAssumption DEF NoPage, Cursors
  <2>4. PICK next \in Listing :
             next = [pages |-> listing.pages + 1, size |-> listing.size + page.size,
                     seen |-> listing.seen]
    <3>1. /\ listing.pages + 1 \in Nat /\ listing.size + page.size \in Nat
          /\ listing.seen \in SUBSET Cursors
      BY <2>3 DEF TypeOK, Listing
    <3>2. [pages |-> listing.pages + 1, size |-> listing.size + page.size, seen |-> listing.seen]
              \in Listing
      BY <3>1 DEF Listing
    <3>3. QED BY <3>2
  <2>5. /\ listing' \in {listing, next, [next EXCEPT !.seen = @ \union {page.cursor}]}
        /\ pc' \in Pcs /\ verdict' \in Verdicts \union {"none"}
    BY <1>2, <1>13, <2>2, <2>4 DEF ReceivePage, TypeOK, Pcs, Verdicts
  <2>6. listing' \in Listing
    BY <2>3, <2>5 DEF TypeOK, Listing
  <2>7. QED BY <1>13, <2>1, <2>5, <2>6, ConsumeType DEF ReceivePage, TypeOK, server, trail
<1>14. CASE Timeout
  BY <1>2, <1>14 DEF Timeout, TypeOK, Verdicts, link, server, trail
<1>15. QED
  BY <1>4, <1>5, <1>6, <1>7, <1>8, <1>9, <1>10, <1>11, <1>12, <1>13, <1>14 DEF Call

LEMMA TypeEnd == ASSUME TypeOK, Turn, RecordOutcome \/ OutcomeFault \/ Reply PROVE TypeOK'
<1>1. n \in 1..MaxMsgs
  BY Busy DEF RecordOutcome, OutcomeFault, Reply, Over
<1>2. Outcome \in {"error", "executed"}
  BY DEF Outcome
<1>3. CASE RecordOutcome
  BY <1>1, <1>2, <1>3 DEF RecordOutcome, TypeOK, Pcs, link, server, local
<1>4. CASE OutcomeFault
  <2>1. PICK o \in {"lost", Outcome} : outcomes' = [outcomes EXCEPT ![n] = o]
    BY <1>4 DEF OutcomeFault
  <2>2. QED BY <1>1, <1>2, <1>4, <2>1 DEF OutcomeFault, TypeOK, Pcs, link, server, local
<1>5. CASE Reply
  <2>1. verdict \in Verdicts
    BY <1>5 DEF Reply, Turn
  <2>2. PICK type \in {"unavailable"} \union Verdicts : Say(type)
    BY <1>5, <2>1 DEF Reply, Verdicts
  <2>3. replies' \in [1..MaxMsgs -> Seq(Answer)]
    BY <1>1, <2>2, SayType, Zenon
  <2>4. QED BY <1>5, <2>3 DEF Reply, TypeOK, Pcs, link, server, trail, local
<1>6. QED BY <1>3, <1>4, <1>5

LEMMA TypeServer == ASSUME TypeOK, ServerStep PROVE TypeOK'
<1>1. CASE ServerRead
  <2>1. Head(up) \in Input /\ Tail(up) \in Seq(Input)
    BY <1>1 DEF ServerRead, TypeOK
  <2>2. Head(up).id \in Nat
    BY <2>1 DEF Input
  <2>3. pending' \subseteq Nat /\ ran' \subseteq Nat
    BY <1>1, <2>2 DEF ServerRead, TypeOK
  <2>4. QED BY <1>1, <2>1, <2>3 DEF ServerRead, TypeOK, trail, local
<1>2. CASE ServerDies
  BY <1>2 DEF ServerDies, TypeOK, link, trail, local
<1>3. ASSUME NEW id \in pending, NEW type \in AnswerKinds, NEW page \in Pages \union {NoPage},
             ServerAnswer(id, type, page)
      PROVE  TypeOK'
  <2>1. [type |-> type, id |-> id, page |-> page] \in Frame
    BY KindsAssumption DEF Frame, TypeOK
  <2>2. QED BY <1>3, <2>1 DEF ServerAnswer, TypeOK, trail, local
<1>4. ASSUME NEW f \in Unasked, ServerChatter(f) PROVE TypeOK'
  <2>1. f \in Frame
    BY DEF Unasked, Bare, Frame
  <2>2. QED BY <1>4, <2>1 DEF ServerChatter, TypeOK, trail, local
<1>5. QED BY <1>1, <1>2, <1>3, <1>4 DEF ServerStep

LEMMA TypeTake == ASSUME TypeOK, NEW kind \in ClientKinds, Take(kind) PROVE TypeOK'
<1>1. NoListing \in Listing /\ kind \in Kinds
  BY KindsAssumption DEF NoListing, Listing
<1>2. n' \in 0..MaxMsgs
  BY BoundsAssumption DEF Take, TypeOK
<1>3. QED BY <1>1, <1>2 DEF Take, TypeOK, Pcs, link, server, trail

LEMMA TypeStop == ASSUME TypeOK, Stop PROVE TypeOK'
  BY DEF Stop, TypeOK, Pcs, link, trail, local

-----------------------------------------------------------------------------
(* Where the gateway is *)

LEMMA TurnTake ==
    ASSUME TypeOK, Past, NEW kind \in ClientKinds, Take(kind) PROVE Turn'
<1>1. n' = n + 1 /\ n' \in 1..MaxMsgs /\ n' > n
  BY BoundsAssumption DEF Take, TypeOK
<1>2. replies'[n'] = NoReply /\ grants'[n'] = "none" /\ outcomes'[n'] = "none"
  BY <1>1 DEF Take, Past, trail
<1>3. QED BY <1>1, <1>2 DEF Take, Turn, Over

LEMMA TurnStop == ASSUME Turn, Stop PROVE Turn'
  BY DEF Stop, Turn, Over, Outcome, trail, local

LEMMA TurnServer == ASSUME Turn, ServerStep PROVE Turn'
<1>1. UNCHANGED <<n, pc, replies, trail, local>>
  BY DEF ServerStep, ServerRead, ServerDies, ServerAnswer, ServerChatter
<1>2. QED BY <1>1 DEF Turn, Outcome, trail, local

LEMMA TurnDispatch == ASSUME TypeOK, Turn, Dispatch PROVE Turn'
<1>1. UNCHANGED <<n, msg, grants, outcomes, verdict>> /\ pc = "dispatch"
  BY DEF Dispatch, ReadFails, DispatchLost, DispatchRefuse, DispatchDrop, DispatchNotify,
         DispatchRequest, trail, local
<1>2. CASE pc' \in {"idle", "closed"}
  BY <1>1, <1>2 DEF Turn, Over
<1>3. CASE pc' \notin {"idle", "closed"}
  <2>1. DispatchRequest
    BY <1>3 DEF Dispatch, ReadFails, DispatchLost, DispatchRefuse, DispatchDrop, DispatchNotify,
       Refuse
  <2>2. QED BY <1>1, <2>1 DEF DispatchRequest, Turn, Over
<1>4. QED BY <1>2, <1>3

LEMMA TurnGoverned == ASSUME TypeOK, Turn, Governed PROVE Turn'
<1>1. /\ UNCHANGED <<n, msg, outcomes, verdict>> /\ pc \in {"authorize", "redeem"}
      /\ msg = "call" /\ n \in 1..MaxMsgs
  BY Busy DEF Governed, AuthorizeAllow, AuthorizeRefuse, RedeemOk, RedeemDenied, ServiceFault,
              trail, local, Turn, Over
<1>2. CASE pc' = "idle"
  BY <1>1, <1>2 DEF Turn, Over
<1>3. CASE AuthorizeAllow
  BY <1>1, <1>3 DEF AuthorizeAllow, Turn, Over, TypeOK
<1>4. CASE RedeemOk
  BY <1>1, <1>4 DEF RedeemOk, Turn, Over, TypeOK
<1>5. QED
  BY <1>2, <1>3, <1>4 DEF Governed, AuthorizeRefuse, RedeemDenied, ServiceFault, Escape, Refuse

\* A call has been answered, or given up.
LEMMA TurnConclude ==
    ASSUME TypeOK, Turn, pc \in {"send", "receive", "refuse"}, NEW v \in Verdicts, Conclude(v),
           UNCHANGED <<n, msg, replies, grants, outcomes>>
    PROVE  Turn'
<1>1. verdict' = v /\ pc' = IF msg = "call" THEN "outcome" ELSE "reply"
  BY ConcludeType
<1>2. CASE msg = "call"
  BY <1>1, <1>2 DEF Turn, Over
<1>3. CASE msg # "call"
  BY <1>1, <1>3 DEF Turn, Over
<1>4. QED BY <1>2, <1>3

LEMMA TurnCall == ASSUME TypeOK, Turn, Call PROVE Turn'
<1>1. /\ UNCHANGED <<n, msg, grants, outcomes>> /\ pc \in {"send", "receive", "refuse"}
  BY DEF Call, Send, ReceiveGarbage, ReceiveEscapes, ReceiveSkip, ReceiveRequest,
         SendRefusal, ReceiveError, ReceiveNeither, ReceiveResult, ReceivePage, Timeout,
         link, server, trail, local
<1>2. CASE \E v \in Verdicts : Conclude(v) /\ replies' = replies
  BY <1>1, <1>2, TurnConclude
<1>3. CASE pc' \in {"send", "receive", "refuse"} /\ replies' = replies
  BY <1>1, <1>3 DEF Turn, Over
<1>4. CASE pc' = "idle"
  BY <1>1, <1>4 DEF Turn, Over
<1>5. "transport" \in Verdicts /\ "rpc_error" \in Verdicts /\ "result" \in Verdicts
  BY DEF Verdicts
<1>6. Send \/ SendRefusal => \/ Conclude("transport") /\ replies' = replies
                             \/ pc' = "receive" /\ replies' = replies
  BY DEF Send, SendRefusal
<1>7. ReceivePage => \/ Conclude("transport") /\ replies' = replies
                     \/ Conclude("result") /\ replies' = replies
                     \/ pc' = "send" /\ replies' = replies
  BY DEF ReceivePage
<1>8. ReceiveGarbage \/ ReceiveNeither \/ Timeout => Conclude("transport") /\ replies' = replies
  BY DEF ReceiveGarbage, ReceiveNeither, Timeout
<1>9. ReceiveError => Conclude("rpc_error") /\ replies' = replies
  BY DEF ReceiveError
<1>10. ReceiveResult => Conclude("result") /\ replies' = replies
  BY DEF ReceiveResult
<1>11. ReceiveEscapes => pc' = "idle"
  BY DEF ReceiveEscapes, Escape, Refuse
<1>12. ReceiveSkip \/ ReceiveRequest => pc' \in {"receive", "refuse"} /\ replies' = replies
  BY DEF ReceiveSkip, ReceiveRequest
<1>13. QED
  BY <1>2, <1>3, <1>4, <1>5, <1>6, <1>7, <1>8, <1>9, <1>10, <1>11, <1>12 DEF Call

LEMMA TurnEnd == ASSUME TypeOK, Turn, RecordOutcome \/ OutcomeFault \/ Reply PROVE Turn'
<1>1. n \in 1..MaxMsgs
  BY Busy DEF RecordOutcome, OutcomeFault, Reply, Over
<1>2. CASE RecordOutcome
  BY <1>1, <1>2 DEF RecordOutcome, Turn, Over, Outcome, TypeOK, local
<1>3. CASE OutcomeFault
  BY <1>1, <1>3 DEF OutcomeFault, Turn, Over, Outcome, TypeOK, local
<1>4. CASE Reply
  BY <1>1, <1>4 DEF Reply, Turn, Over, trail, local
<1>5. QED BY <1>2, <1>3, <1>4

-----------------------------------------------------------------------------
(* What a step of the gateway may touch *)

LEMMA ForSame == ASSUME NEW k, issued' = issued PROVE For(k)' = For(k)
  BY DEF For

LEMMA ForSend ==
    ASSUME TypeOK, NEW m \in 1..MaxMsgs, issued' = Append(issued, m)
    PROVE  /\ \A k : k # m => For(k)' = For(k)
           /\ For(m)' = For(m) \union {Req + 1} /\ Req + 1 \notin For(m)
           /\ Len(issued') = Req + 1 /\ Req \in Nat
<1>1. /\ Len(issued) \in Nat /\ Len(issued') = Len(issued) + 1 /\ issued'[Len(issued) + 1] = m
      /\ \A i \in 1..Len(issued) : issued'[i] = issued[i]
  BY DEF TypeOK
<1>2. QED BY <1>1 DEF For, Req

LEMMA ForFinite == ASSUME TypeOK, NEW k PROVE IsFiniteSet(For(k)) /\ Cardinality(For(k)) \in Nat
<1>1. For(k) \subseteq 1..Len(issued) /\ Len(issued) \in Nat
  BY DEF For, TypeOK
<1>2. IsFiniteSet(1..Len(issued))
  BY <1>1, FS_Interval
<1>3. QED BY <1>1, <1>2, FS_Subset, FS_CardinalityType

\* A step of the gateway is about the message in hand.
LEMMA Own ==
    ASSUME TypeOK, Turn, GatewayStep
    PROVE  /\ n \in 1..MaxMsgs /\ n' = n /\ msg' = msg /\ pc \notin Over
           /\ UNCHANGED <<ran, pending>>
           /\ \A k \in 1..MaxMsgs : k # n =>
                 replies'[k] = replies[k] /\ grants'[k] = grants[k] /\ outcomes'[k] = outcomes[k]
           /\ issued' = issued \/ (Send /\ issued' = Append(issued, n))
           /\ \/ replies' = replies \/ Reply
              \/ Refuse /\ pc # "reply" /\ UNCHANGED <<issued, outcomes>>
<1>1. /\ n' = n /\ msg' = msg /\ pc \notin Over /\ UNCHANGED <<ran, pending>>
      /\ issued' = issued \/ (Send /\ issued' = Append(issued, n))
      /\ \/ replies' = replies \/ Reply
         \/ Refuse /\ pc # "reply" /\ UNCHANGED <<issued, outcomes>>
  <2>1. CASE Dispatch
    BY <2>1 DEF Dispatch, ReadFails, DispatchLost, DispatchRefuse, DispatchDrop, DispatchNotify,
                DispatchRequest, link, server, trail, local, Over
  <2>2. CASE Governed
    BY <2>2 DEF Governed, AuthorizeAllow, AuthorizeRefuse, RedeemOk, RedeemDenied, ServiceFault,
                Escape, link, server, trail, local, Over
  <2>3. CASE Call
    BY <2>3 DEF Call, Send, ReceiveGarbage, ReceiveEscapes, ReceiveSkip, ReceiveRequest,
         SendRefusal, ReceiveError, ReceiveNeither, ReceiveResult, ReceivePage, Timeout, Escape,
         link, server, trail, local, Over
  <2>4. CASE RecordOutcome \/ OutcomeFault \/ Reply
    BY <2>4 DEF RecordOutcome, OutcomeFault, Reply, link, server, trail, local, Over
  <2>5. QED BY <2>1, <2>2, <2>3, <2>4 DEF GatewayStep
<1>2. n \in 1..MaxMsgs
  BY <1>1, Busy
<1>3. \A k \in 1..MaxMsgs : k # n => replies'[k] = replies[k]
  <2>1. CASE Refuse
    BY <1>2, <2>1, RefuseType
  <2>2. CASE Reply
    BY <1>2, <2>2 DEF Reply, Say, TypeOK
  <2>3. QED BY <1>1, <2>1, <2>2
<1>4. /\ grants' = grants \/ \E s : grants' = [grants EXCEPT ![n] = s]
      /\ outcomes' = outcomes \/ \E o : outcomes' = [outcomes EXCEPT ![n] = o]
  <2>1. CASE Dispatch
    BY <2>1 DEF Dispatch, ReadFails, DispatchLost, DispatchRefuse, DispatchDrop, DispatchNotify,
       DispatchRequest, trail
  <2>2. CASE Governed
    BY <2>2 DEF Governed, AuthorizeAllow, AuthorizeRefuse, RedeemOk, RedeemDenied,
                   ServiceFault, trail
  <2>3. CASE Call
    BY <2>3 DEF Call, Send, ReceiveGarbage, ReceiveEscapes, ReceiveSkip, ReceiveRequest,
         SendRefusal, ReceiveError, ReceiveNeither, ReceiveResult, ReceivePage, Timeout, trail
  <2>4. CASE RecordOutcome \/ OutcomeFault \/ Reply
    BY <2>4 DEF RecordOutcome, OutcomeFault, Reply, trail
  <2>5. QED BY <2>1, <2>2, <2>3, <2>4 DEF GatewayStep
<1>5. \A k \in 1..MaxMsgs : k # n => grants'[k] = grants[k] /\ outcomes'[k] = outcomes[k]
  BY <1>4 DEF TypeOK
<1>6. QED BY <1>1, <1>2, <1>3, <1>5

LEMMA PastGateway == ASSUME TypeOK, Turn, Past, GatewayStep PROVE Past'
<1>1. n' = n /\ n \in 1..MaxMsgs
  BY Own
<1>2. \A k \in 1..MaxMsgs : k > n =>
         replies'[k] = NoReply /\ grants'[k] = "none" /\ outcomes'[k] = "none"
  BY <1>1, Own DEF Past
<1>3. \A i \in 1..Len(issued') : issued'[i] <= n
  <2>1. CASE issued' = issued
    BY <2>1 DEF Past
  <2>2. CASE issued' = Append(issued, n)
    BY <1>1, <2>2 DEF Past, TypeOK
  <2>3. QED BY <2>1, <2>2, Own
<1>4. QED BY <1>1, <1>2, <1>3 DEF Past

LEMMA PastOther ==
    ASSUME TypeOK, Past, Stop \/ ServerStep \/ \E kind \in ClientKinds : Take(kind)
    PROVE  Past'
<1>1. UNCHANGED <<issued, replies, grants, outcomes>> /\ n' \in {n, n + 1}
  BY DEF Stop, Take, ServerStep, ServerRead, ServerDies, ServerAnswer, ServerChatter, link, trail
<1>2. n \in Nat /\ \A i \in 1..Len(issued) : issued[i] \in Nat
  BY BoundsAssumption DEF TypeOK
<1>3. QED BY <1>1, <1>2 DEF Past

-----------------------------------------------------------------------------
(* What the client was told *)

\* What is told at the end of a message, which had not been answered before.
LEMMA Told ==
    ASSUME TypeOK, Turn, Gathering, GatewayStep, replies' # replies
    PROVE  /\ replies[n] = NoReply /\ issued' = issued /\ outcomes' = outcomes
           /\ \E type : /\ replies'[n] = <<[type |-> type, from |-> used]>>
                        /\ type = "result" => Lists(used, For(n))
                        /\ \/ type = "refused" /\ outcomes[n] = "none"
                           \/ /\ pc = "reply" /\ grants' = grants
                              /\ type = IF verdict = "transport" THEN "unavailable" ELSE verdict
<1>1. n \in 1..MaxMsgs /\ replies[n] = NoReply
  BY Own DEF Turn
<1>2. CASE Refuse /\ pc # "reply" /\ UNCHANGED <<issued, outcomes>>
  <2>1. replies'[n] = Append(<<>>, [type |-> "refused", from |-> used])
    BY <1>1, <1>2, RefuseType DEF NoReply
  <2>2. replies'[n] = <<[type |-> "refused", from |-> used]>>
    BY <2>1
  <2>3. outcomes[n] = "none"
    BY <1>2, Own DEF Turn
  <2>4. QED BY <1>1, <1>2, <2>2, <2>3
<1>3. CASE Reply
  <2>1. PICK type : type = IF verdict = "transport" THEN "unavailable" ELSE verdict
    OBVIOUS
  <2>2. /\ replies' = [replies EXCEPT ![n] = Append(<<>>, [type |-> type, from |-> used])]
        /\ pc = "reply" /\ UNCHANGED <<issued, outcomes, grants>>
    BY <1>1, <1>3, <2>1 DEF Reply, Say, NoReply, link, trail
  <2>3. replies'[n] = <<[type |-> type, from |-> used]>>
    BY <1>1, <2>2 DEF TypeOK
  <2>4. type = "result" => Lists(used, For(n))
    BY <2>1, <2>2 DEF Gathering
  <2>5. QED BY <1>1, <2>1, <2>2, <2>3, <2>4
<1>4. QED BY <1>2, <1>3, Own

LEMMA OnceGateway == ASSUME TypeOK, Turn, Gathering, AnsweredOnce, GatewayStep PROVE AnsweredOnce'
<1>1. n \in 1..MaxMsgs /\ n' = n /\ msg' = msg /\ n \in Nat
  BY Own
<1>2. CASE replies' = replies
  BY <1>1, <1>2 DEF AnsweredOnce
<1>3. CASE replies' # replies
  <2>1. Len(replies'[n]) = 1
    <3>1. PICK type : replies'[n] = <<[type |-> type, from |-> used]>>
      BY <1>3, Told
    <3>2. QED BY <3>1
  <2>2. msg \notin Notifications
    <3>1. pc # "dispatch" => msg \in {"ping", "list", "call"}
      BY Own DEF Turn, TypeOK, Pcs, Over
    <3>2. pc = "dispatch" => DispatchRefuse
      BY <1>3 DEF GatewayStep, Dispatch, ReadFails, DispatchLost, DispatchDrop, DispatchNotify,
         DispatchRequest,
         Governed, AuthorizeAllow, AuthorizeRefuse, RedeemOk, RedeemDenied, ServiceFault,
         Call, Send, ReceiveGarbage, ReceiveEscapes, ReceiveSkip, ReceiveRequest,
         SendRefusal, ReceiveError, ReceiveNeither, ReceiveResult, ReceivePage, Timeout,
         RecordOutcome, OutcomeFault, Reply
    <3>3. QED BY <3>1, <3>2 DEF DispatchRefuse, Garbled, Notifications
  <2>3. \A k \in 1..n : k # n => replies'[k] = replies[k]
    BY <1>1, BoundsAssumption, Own
  <2>4. ASSUME NEW k \in 1..n
        PROVE  /\ Len(replies'[k]) <= 1
               /\ k = n /\ msg \in Notifications => replies'[k] = NoReply
    <3>1. CASE k = n
      <4>1. Len(replies'[k]) = 1
        BY <2>1, <3>1, Zenon
      <4>2. QED BY <2>2, <4>1
    <3>2. CASE k # n
      BY <2>3, <3>2 DEF AnsweredOnce
    <3>3. QED BY <3>1, <3>2
  <2>5. QED BY <1>1, <2>4 DEF AnsweredOnce
<1>4. QED BY <1>2, <1>3

LEMMA OnceOther ==
    ASSUME TypeOK, Past, AnsweredOnce,
           Stop \/ ServerStep \/ \E kind \in ClientKinds : Take(kind)
    PROVE  AnsweredOnce'
<1>1. CASE Stop \/ ServerStep
  <2>1. UNCHANGED <<n, msg, replies>>
    BY <1>1 DEF Stop, ServerStep, ServerRead, ServerDies, ServerAnswer, ServerChatter, local
  <2>2. QED BY <2>1 DEF AnsweredOnce
<1>2. CASE \E kind \in ClientKinds : Take(kind)
  <2>1. n' = n + 1 /\ replies' = replies /\ n' \in 1..MaxMsgs /\ n \in Nat
    BY <1>2, BoundsAssumption DEF Take, TypeOK
  <2>2. replies[n + 1] = NoReply
    BY <2>1 DEF Past
  <2>3. \A k \in 1..(n + 1) : k = n + 1 \/ k \in 1..n
    BY <2>1
  <2>4. QED BY <2>1, <2>2, <2>3 DEF AnsweredOnce, NoReply
<1>3. QED BY <1>1, <1>2

LEMMA ResultsGateway ==
    ASSUME TypeOK, Turn, Gathering, ResultsAreOwn, GatewayStep PROVE ResultsAreOwn'
<1>1. SUFFICES ASSUME NEW k \in 1..MaxMsgs, NEW r \in 1..Len(replies'[k]),
                      replies'[k][r].type = "result"
               PROVE  Lists(replies'[k][r].from, For(k)')
  BY DEF ResultsAreOwn, Lists
<1>2. CASE replies'[k] = replies[k] /\ For(k)' = For(k)
  <2>1. Lists(replies[k][r].from, For(k))
    BY <1>1, <1>2 DEF ResultsAreOwn, Lists
  <2>2. QED BY <1>2, <2>1
<1>3. CASE k # n
  <2>1. n \in 1..MaxMsgs /\ replies'[k] = replies[k]
    BY <1>3, Own
  <2>2. For(k)' = For(k)
    BY <1>3, <2>1, Own, ForSame, ForSend
  <2>3. QED BY <1>2, <2>1, <2>2
<1>4. CASE k = n /\ replies' = replies
  BY <1>1, <1>4, Own DEF Turn, NoReply
<1>5. CASE k = n /\ replies' # replies
  <2>1. PICK type : /\ replies'[n] = <<[type |-> type, from |-> used]>>
                    /\ type = "result" => Lists(used, For(n))
    BY <1>5, Told
  <2>2. r = 1 /\ replies'[k][r] = [type |-> type, from |-> used]
    BY <1>1, <1>5, <2>1
  <2>3. type = "result" /\ replies'[k][r].from = used
    BY <1>1, <2>2
  <2>4. For(k)' = For(k)
    BY <1>5, Told, ForSame
  <2>5. QED BY <1>5, <2>1, <2>3, <2>4 DEF Lists
<1>6. QED BY <1>3, <1>4, <1>5

LEMMA ResultsOther ==
    ASSUME ResultsAreOwn, Stop \/ ServerStep \/ \E kind \in ClientKinds : Take(kind)
    PROVE  ResultsAreOwn'
<1>1. UNCHANGED <<issued, replies>>
  BY DEF Stop, Take, ServerStep, ServerRead, ServerDies, ServerAnswer, ServerChatter, link
<1>2. \A k : For(k)' = For(k)
  BY <1>1, ForSame
<1>3. QED BY <1>1, <1>2 DEF ResultsAreOwn

-----------------------------------------------------------------------------
(* What the trail says *)

\* The parts of TrailMatchesReply.
Executed(k) == outcomes[k] = "executed" => For(k) # {} /\ For(k) \subseteq ran \ pending
Kept(k) == outcomes[k] # "none" /\ replies[k] # NoReply => replies[k][1].type # "refused"
Tells(k) ==
    (/\ replies[k] # NoReply /\ replies[k][1].type # "refused"
     /\ grants[k] # "none" /\ For(k) # {}) =>
        outcomes[k] \in {"lost", IF replies[k][1].type = "unavailable" THEN "error"
                                 ELSE "executed"}
Agrees(k) == Kept(k) /\ Tells(k)

LEMMA TrailParts == TrailMatchesReply <=> \A k \in 1..MaxMsgs : Executed(k) /\ Agrees(k)
  BY DEF TrailMatchesReply, Executed, Agrees, Kept, Tells

LEMMA AgreesGateway ==
    ASSUME TypeOK, Turn, Gathering, GatewayStep, NEW k \in 1..MaxMsgs, Agrees(k)
    PROVE  Agrees(k)'
<1>1. n \in 1..MaxMsgs
  BY Own
<1>2. CASE k # n
  <2>1. replies'[k] = replies[k] /\ grants'[k] = grants[k] /\ outcomes'[k] = outcomes[k]
    BY <1>2, Own
  <2>2. For(k)' = For(k)
    BY <1>1, <1>2, Own, ForSame, ForSend
  <2>3. QED BY <2>1, <2>2 DEF Agrees, Kept, Tells
<1>3. CASE k = n /\ replies' = replies
  BY <1>3, Own DEF Turn, Agrees, Kept, Tells
<1>4. CASE k = n /\ replies' # replies
  <2>1. PICK type : /\ replies'[n] = <<[type |-> type, from |-> used]>>
                    /\ \/ type = "refused" /\ outcomes[n] = "none"
                       \/ /\ pc = "reply" /\ grants' = grants
                          /\ type = IF verdict = "transport" THEN "unavailable" ELSE verdict
    BY <1>4, Told
  <2>2. replies'[k][1].type = type
    BY <1>4, <2>1
  <2>3. CASE type = "refused" /\ outcomes[n] = "none"
    <3>1. outcomes' = outcomes
      BY <1>4, Told
    <3>2. Kept(k)'
      BY <1>4, <2>3, <3>1 DEF Kept
    <3>3. Tells(k)'
      BY <2>2, <2>3 DEF Tells
    <3>4. QED BY <3>2, <3>3 DEF Agrees
  <2>4. CASE /\ pc = "reply" /\ grants' = grants
             /\ type = IF verdict = "transport" THEN "unavailable" ELSE verdict
    <3>1. outcomes' = outcomes /\ verdict \in Verdicts
      BY <1>4, <2>4, Told DEF Turn
    <3>2. grants[n] # "none" => outcomes[n] \in {"lost", Outcome}
      BY <1>1, <2>4 DEF Turn
    <3>3. type # "refused" /\ (type = "unavailable" <=> verdict = "transport")
      BY <2>4, <3>1 DEF Verdicts
    <3>4. Kept(k)' /\ Tells(k)'
      BY <1>4, <2>2, <2>4, <3>1, <3>2, <3>3 DEF Kept, Tells, Outcome
    <3>5. QED BY <3>4 DEF Agrees
  <2>5. QED BY <2>1, <2>3, <2>4
<1>5. QED BY <1>2, <1>3, <1>4

LEMMA ExecutedGateway ==
    ASSUME TypeOK, Turn, Gathering, GatewayStep, NEW k \in 1..MaxMsgs, Executed(k)
    PROVE  Executed(k)'
<1>1. n \in 1..MaxMsgs /\ UNCHANGED <<ran, pending>>
  BY Own
<1>2. CASE outcomes'[k] = outcomes[k] /\ For(k)' = For(k)
  BY <1>1, <1>2 DEF Executed
<1>3. CASE k # n
  <2>1. For(k)' = For(k)
    BY <1>1, <1>3, Own, ForSame, ForSend
  <2>2. QED BY <1>2, <1>3, <2>1, Own
<1>4. CASE k = n /\ (RecordOutcome \/ OutcomeFault)
  <2>1. outcomes'[k] \in {"lost", Outcome} /\ issued' = issued /\ pc = "outcome"
    BY <1>1, <1>4 DEF RecordOutcome, OutcomeFault, TypeOK, link
  <2>2. For(k)' = For(k)
    BY <2>1, ForSame
  <2>3. outcomes'[k] = "executed" => verdict # "transport"
    BY <2>1 DEF Outcome
  <2>4. QED BY <1>1, <1>4, <2>1, <2>2, <2>3 DEF Gathering, Executed
<1>5. CASE k = n /\ ~(RecordOutcome \/ OutcomeFault)
  <2>1. outcomes' = outcomes
    <3>1. CASE Dispatch
      BY <3>1 DEF Dispatch, ReadFails, DispatchLost, DispatchRefuse, DispatchDrop,
         DispatchNotify, DispatchRequest, trail
    <3>2. CASE Governed
      BY <3>2 DEF Governed, AuthorizeAllow, AuthorizeRefuse, RedeemOk, RedeemDenied, ServiceFault,
                  trail
    <3>3. CASE Call
      BY <3>3 DEF Call, Send, ReceiveGarbage, ReceiveEscapes, ReceiveSkip, ReceiveRequest,
           SendRefusal, ReceiveError, ReceiveNeither, ReceiveResult, ReceivePage, Timeout, trail
    <3>4. CASE Reply
      BY <3>4 DEF Reply, trail
    <3>5. QED BY <1>5, <3>1, <3>2, <3>3, <3>4 DEF GatewayStep
  <2>2. CASE outcomes[k] = "executed"
    <3>1. pc = "reply"
      BY <1>5, <2>2, Own DEF Turn
    <3>2. issued' = issued
      BY <3>1, Own DEF Send
    <3>3. QED BY <1>2, <2>1, <3>2, ForSame
  <2>3. CASE outcomes[k] # "executed"
    BY <2>1, <2>3 DEF Executed
  <2>4. QED BY <2>2, <2>3
<1>6. QED BY <1>3, <1>4, <1>5

LEMMA TrailGateway ==
    ASSUME TypeOK, Turn, Gathering, TrailMatchesReply, GatewayStep PROVE TrailMatchesReply'
<1>1. \A k \in 1..MaxMsgs : Executed(k)' /\ Agrees(k)'
  BY TrailParts, AgreesGateway, ExecutedGateway
<1>2. QED BY <1>1 DEF TrailMatchesReply, Executed, Agrees, Kept, Tells

\* What the server has answered stays answered.
LEMMA AnsweredStays ==
    ASSUME TypeOK, Wire, ServerStep
    PROVE  /\ ran \subseteq ran' /\ ran \ pending \subseteq ran' \ pending'
           /\ UNCHANGED <<n, pc, replies, issued, grants, outcomes, msg, verdict, used, listing>>
<1>1. UNCHANGED <<n, pc, replies, issued, grants, outcomes, msg, verdict, used, listing>>
  BY DEF ServerStep, ServerRead, ServerDies, ServerAnswer, ServerChatter, link, trail, local
<1>2. CASE ServerRead
  <2>1. 1 \in 1..Len(up) /\ Head(up) = up[1]
    BY <1>2 DEF ServerRead, TypeOK
  <2>2. Unread(1)
    BY <2>1 DEF Wire
  <2>3. Head(up).id # 0 => Head(up).id \notin ran
    BY <2>1, <2>2 DEF Unread
  <2>4. Head(up).type = "call" => Head(up).id # 0
    BY <2>1, <2>2 DEF Unread
  <2>5. QED BY <1>1, <1>2, <2>3, <2>4 DEF ServerRead
<1>3. CASE ~ServerRead
  BY <1>1, <1>3 DEF ServerStep, ServerDies, ServerAnswer, ServerChatter
<1>4. QED BY <1>2, <1>3

LEMMA TrailOther ==
    ASSUME TypeOK, Wire, TrailMatchesReply,
           Stop \/ ServerStep \/ \E kind \in ClientKinds : Take(kind)
    PROVE  TrailMatchesReply'
<1>1. /\ ran \ pending \subseteq ran' \ pending'
      /\ UNCHANGED <<replies, issued, grants, outcomes>>
  <2>1. CASE ServerStep
    BY <2>1, AnsweredStays
  <2>2. CASE Stop \/ \E kind \in ClientKinds : Take(kind)
    BY <2>2 DEF Stop, Take, link, server, trail
  <2>3. QED BY <2>1, <2>2
<1>2. \A k : For(k)' = For(k)
  BY <1>1, ForSame
<1>3. \A k \in 1..MaxMsgs : Executed(k) /\ Agrees(k)
  BY TrailParts
<1>4. ASSUME NEW k \in 1..MaxMsgs PROVE Executed(k)' /\ Agrees(k)'
  <2>1. Executed(k)'
    BY <1>1, <1>2, <1>3 DEF Executed
  <2>2. Agrees(k)'
    BY <1>1, <1>2, <1>3 DEF Agrees, Kept, Tells
  <2>3. QED BY <2>1, <2>2
<1>5. QED BY <1>4 DEF TrailMatchesReply, Executed, Agrees, Kept, Tells

-----------------------------------------------------------------------------
(* The pipes *)

\* A step neither grants anything to a request already sent nor takes it away.
GrantsHold ==
    \A i \in 1..Len(issued) :
        /\ grants'[issued[i]] # "none" <=> grants[issued[i]] # "none"
        /\ grants[issued[i]] # "none" => grants'[issued[i]] \in {"redeemed", "closed"}

\* Nothing that looks like an answer is new.
NoNewAnswer ==
    \A l \in 1..Len(down') : down'[l].type \in AnswerTypes =>
        \E m \in 1..Len(down) : down[m] = down'[l]

LEMMA GatewayGrantsHold ==
    ASSUME TypeOK, Turn, Gathering, Wire, GatewayStep PROVE GrantsHold
<1>1. SUFFICES ASSUME NEW i \in 1..Len(issued)
               PROVE  /\ grants'[issued[i]] # "none" <=> grants[issued[i]] # "none"
                      /\ grants[issued[i]] # "none" =>
                            grants'[issued[i]] \in {"redeemed", "closed"}
  BY DEF GrantsHold
<1>2. issued[i] \in 1..MaxMsgs /\ n \in 1..MaxMsgs
  <2>1. issued[i] \in 1..MaxMsgs
    BY BoundsAssumption DEF TypeOK
  <2>2. QED BY <2>1, Own
<1>3. grants[issued[i]] # "none" => grants[issued[i]] \in {"redeemed", "closed"}
  BY DEF Wire, Governs, Carried
<1>4. CASE issued[i] # n
  BY <1>2, <1>3, <1>4, Own
<1>5. CASE issued[i] = n
  <2>1. pc \notin {"dispatch", "authorize", "redeem"}
    BY <1>5 DEF Gathering, For
  <2>2. CASE RecordOutcome
    BY <1>2, <1>5, <2>2 DEF RecordOutcome, Turn, TypeOK
  <2>3. CASE ~RecordOutcome
    <3>1. grants' = grants
      <4>1. CASE Call
        BY <4>1 DEF Call, Send, ReceiveGarbage, ReceiveEscapes, ReceiveSkip, ReceiveRequest,
             SendRefusal, ReceiveError, ReceiveNeither, ReceiveResult, ReceivePage, Timeout, trail
      <4>2. CASE OutcomeFault \/ Reply
        BY <4>2 DEF OutcomeFault, Reply, trail
      <4>3. ~Dispatch /\ ~Governed
        BY <2>1 DEF Dispatch, ReadFails, DispatchLost, DispatchRefuse, DispatchDrop,
           DispatchNotify, DispatchRequest,
             Governed, AuthorizeAllow, AuthorizeRefuse, RedeemOk, RedeemDenied, ServiceFault
      <4>4. QED BY <2>3, <4>1, <4>2, <4>3 DEF GatewayStep
    <3>2. QED BY <1>3, <3>1
  <2>4. QED BY <2>2, <2>3
<1>6. QED BY <1>4, <1>5

LEMMA WireKept ==
    ASSUME TypeOK, Wire, UNCHANGED <<issued, pending, ran, up>>, GrantsHold, NoNewAnswer
    PROVE  Wire'
<1>1. \A j \in 1..Len(up) : Unread(j)'
  <2>1. SUFFICES ASSUME NEW j \in 1..Len(up) PROVE Unread(j)'
    OBVIOUS
  <2>2. Unread(j)
    BY DEF Wire
  <2>3. QED BY <2>2 DEF Unread, Governs, GrantsHold, NoNewAnswer
<1>2. \A i \in pending : Read(i)'
  BY DEF Wire, Read, Governs, GrantsHold
<1>3. ASSUME NEW l \in 1..Len(down') PROVE Answered(l)'
  <2>1. CASE down'[l].type \in AnswerTypes
    <3>1. PICK m \in 1..Len(down) : down[m] = down'[l]
      BY <2>1 DEF NoNewAnswer
    <3>2. Answered(m)
      BY DEF Wire
    <3>3. QED BY <2>1, <3>1, <3>2 DEF Answered, Read, Governs, GrantsHold
  <2>2. CASE down'[l].type \notin AnswerTypes
    BY <2>2 DEF Answered
  <2>3. QED BY <2>1, <2>2
<1>4. \A i \in ran : i \in 1..Len(issued') /\ Governs(i)'
  BY DEF Wire, Governs, GrantsHold
<1>5. ASSUME NEW i \in 1..Len(issued) PROVE Carried(i)'
  BY DEF Wire, Carried, Governs, GrantsHold
<1>6. QED BY <1>1, <1>2, <1>3, <1>4, <1>5 DEF Wire

\* A message that bears no id changes nothing.
LEMMA WireNote ==
    ASSUME TypeOK, Wire, UNCHANGED <<issued, pending, ran, down, grants>>,
           NEW m \in Input, m.id = 0, m.type # "call", up' = Append(up, m)
    PROVE  Wire'
<1>1. /\ Len(up) \in Nat /\ Len(up') = Len(up) + 1 /\ up'[Len(up) + 1] = m
      /\ \A j \in 1..Len(up) : up'[j] = up[j]
  BY DEF TypeOK
<1>2. ASSUME NEW j \in 1..Len(up') PROVE Unread(j)'
  <2>1. CASE j = Len(up) + 1
    BY <1>1, <2>1 DEF Unread
  <2>2. CASE j \in 1..Len(up)
    <3>1. Unread(j)
      BY <2>2 DEF Wire
    <3>2. \A l \in 1..Len(up') : l # Len(up) + 1 => l \in 1..Len(up)
      BY <1>1
    <3>3. QED BY <1>1, <2>2, <3>1, <3>2 DEF Unread, Governs
  <2>3. QED BY <1>1, <2>1, <2>2
<1>3. QED BY <1>2 DEF Wire, Read, Answered, Carried, Governs

LEMMA WireSend ==
    ASSUME TypeOK, Turn, Gathering, Past, Wire, Send PROVE Wire'
<1>1. /\ n \in 1..MaxMsgs /\ pc = "send" /\ Len(issued) \in Nat /\ Len(up) \in Nat
      /\ UNCHANGED <<pending, ran, down, grants>>
      /\ issued' = Append(issued, n)
  BY Busy DEF Send, Over, TypeOK, server, trail
<1>2. /\ Len(issued') = Len(issued) + 1 /\ issued'[Len(issued) + 1] = n
      /\ \A i \in 1..Len(issued) : i \in 1..Len(issued') /\ issued'[i] = issued[i]
  BY <1>1 DEF TypeOK
<1>3. \A i : i \in 1..Len(issued') => i = Len(issued) + 1 \/ i \in 1..Len(issued)
  BY <1>1, <1>2
<1>4. Len(issued) + 1 \notin 1..Len(issued) /\ Len(issued) + 1 \in 1..Len(issued')
  BY <1>1, <1>2
<1>5. msg = "call" <=> grants[n] # "none"
  BY <1>1 DEF Turn
<1>6. \A i \in 1..Len(issued) : Governs(i)' <=> Governs(i)
  BY <1>1, <1>2 DEF Governs
<1>7. \A i : Read(i) => Read(i)'
  BY <1>1, <1>2, <1>6 DEF Read
<1>8. \A i \in pending : Read(i)'
  BY <1>7 DEF Wire
<1>9. ASSUME NEW l \in 1..Len(down) PROVE Answered(l)'
  <2>1. Answered(l)
    BY DEF Wire
  <2>2. QED BY <1>1, <1>2, <2>1 DEF Answered, Read, Governs
<1>10. \A i \in ran : i \in 1..Len(issued') /\ Governs(i)'
  BY <1>2, <1>6 DEF Wire
<1>11. ASSUME NEW i \in 1..Len(issued') PROVE Carried(i)'
  <2>1. CASE msg = "call"
    <3>1. \A j \in 1..Len(issued) : issued[j] # n
      BY <1>1, <2>1 DEF Gathering, For
    <3>2. grants[n] = "redeemed"
      BY <1>1, <2>1 DEF Turn
    <3>3. CASE i = Len(issued) + 1
      BY <1>1, <1>2, <1>3, <3>1, <3>2, <3>3 DEF Carried
    <3>4. CASE i \in 1..Len(issued)
      <4>1. Carried(i)
        BY <3>4 DEF Wire
      <4>2. QED BY <1>1, <1>2, <1>3, <3>1, <3>4, <4>1 DEF Carried, Governs
    <3>5. QED BY <1>3, <3>3, <3>4
  <2>2. CASE msg # "call"
    <3>1. grants[n] = "none"
      BY <1>5, <2>2
    <3>2. CASE issued'[i] = n
      BY <1>1, <3>1, <3>2 DEF Carried, Governs
    <3>3. CASE issued'[i] # n
      <4>1. i \in 1..Len(issued) /\ Carried(i)
        BY <1>2, <1>3, <3>3 DEF Wire
      <4>2. QED BY <1>1, <1>2, <1>3, <3>3, <4>1 DEF Carried, Governs
    <3>4. QED BY <3>2, <3>3
  <2>3. QED BY <2>1, <2>2
<1>12. ASSUME NEW j \in 1..Len(up), up'[j] = up[j],
              \A l \in 1..Len(up') : \/ l \in 1..Len(up) /\ up'[l] = up[l]
                                     \/ up'[l].id = Len(issued) + 1
       PROVE  Unread(j)'
  <2>1. Unread(j)
    BY DEF Wire
  <2>2. up[j].id # 0 => up[j].id \in 1..Len(issued) /\ up[j].id # Len(issued) + 1
    BY <1>4, <2>1 DEF Unread
  <2>3. QED BY <1>1, <1>2, <1>12, <2>1, <2>2 DEF Unread, Governs
<1>13. ASSUME NEW j \in 1..Len(up') PROVE Unread(j)'
  <2>1. CASE ~alive
    <3>1. up' = up
      BY <2>1 DEF Send, Write
    <3>2. QED BY <1>12, <3>1
  <2>2. CASE alive
    <3>1. PICK m : m = [type |-> msg, id |-> Len(issued) + 1]
      OBVIOUS
    <3>2. up' = Append(up, m)
      BY <2>2, <3>1 DEF Send, Write
    <3>3. m \in Input
      BY <1>1, <3>1 DEF TypeOK, Input
    <3>4. /\ Len(up') = Len(up) + 1 /\ up'[Len(up) + 1] = m
          /\ \A l \in 1..Len(up) : up'[l] = up[l]
      BY <3>2, <3>3 DEF TypeOK
    <3>5. \A l \in 1..Len(up') : l = Len(up) + 1 \/ l \in 1..Len(up)
      BY <1>1, <3>4
    <3>6. m.id = Len(issued) + 1 /\ m.type = msg
      BY <3>1
    <3>7. CASE j \in 1..Len(up)
      BY <1>12, <3>4, <3>5, <3>6, <3>7
    <3>8. CASE j = Len(up) + 1
      <4>1. m.id \notin pending \union ran
        BY <1>4, <3>6 DEF Wire, Read
      <4>2. \A l \in 1..Len(down) : down[l].type \in AnswerTypes => down[l].id # m.id
        BY <1>4, <3>6 DEF Wire, Answered, Read
      <4>3. \A l \in 1..Len(up) : up[l].id # m.id
        <5>1. ASSUME NEW l \in 1..Len(up) PROVE up[l].id # m.id
          <6>1. Unread(l)
            BY DEF Wire
          <6>2. QED BY <1>1, <1>4, <3>6, <6>1 DEF Unread
        <5>2. QED BY <5>1
      <4>4. up'[j].type = "call" <=> Governs(m.id)'
        BY <1>1, <1>2, <1>5, <3>4, <3>6, <3>8 DEF Governs
      <4>5. up'[j].id # 0 /\ m.id \in 1..Len(issued')
        BY <1>1, <1>4, <3>4, <3>6, <3>8
      <4>6. \A l \in 1..Len(up') : up'[l].id = m.id => l = j
        BY <3>4, <3>5, <3>8, <4>3
      <4>7. up'[j] = m
        BY <3>4, <3>8
      <4>8. QED BY <1>1, <4>1, <4>2, <4>4, <4>5, <4>6, <4>7 DEF Unread, Governs
    <3>9. QED BY <3>5, <3>7, <3>8
  <2>3. QED BY <2>1, <2>2
<1>14. QED BY <1>1, <1>8, <1>9, <1>10, <1>11, <1>13 DEF Wire

LEMMA WireRead == ASSUME TypeOK, Wire, ServerRead PROVE Wire'
<1>1. /\ Len(up) \in Nat \ {0} /\ up' = Tail(up) /\ Head(up) = up[1] /\ 1 \in 1..Len(up)
      /\ Len(up') = Len(up) - 1
      /\ \A j \in 1..Len(up') : j + 1 \in 1..Len(up) /\ j + 1 # 1 /\ up'[j] = up[j + 1]
  BY DEF ServerRead, TypeOK
<1>2. PICK m : m = up[1]
  OBVIOUS
<1>3. /\ UNCHANGED <<issued, down, grants>>
      /\ pending' = IF m.id = 0 THEN pending ELSE pending \union {m.id}
      /\ ran' = IF m.type = "call" THEN ran \union {m.id} ELSE ran
  BY <1>1, <1>2 DEF ServerRead, trail
<1>4. Unread(1)
  BY <1>1 DEF Wire
<1>5. /\ m.type = "call" => m.id # 0
      /\ m.id # 0 =>
            /\ m.id \in 1..Len(issued) /\ m.id \notin pending \union ran
            /\ m.type = "call" <=> Governs(m.id)
            /\ \A l \in 1..Len(down) : down[l].type \in AnswerTypes => down[l].id # m.id
            /\ \A l \in 1..Len(up) : up[l].id = m.id => l = 1
  BY <1>2, <1>4 DEF Unread
<1>6. ASSUME NEW j \in 1..Len(up') PROVE Unread(j)'
  <2>1. Unread(j + 1) /\ j + 1 \in 1..Len(up)
    BY <1>1 DEF Wire
  <2>2. PICK u : u = up[j + 1] /\ u = up'[j]
    BY <1>1
  <2>3. u.id # 0 => u.id # m.id
    BY <1>1, <1>5, <2>1, <2>2
  <2>4. u.id # 0 => u.id \notin pending' \union ran'
    BY <1>3, <1>5, <2>1, <2>2, <2>3 DEF Unread
  <2>5. \A l \in 1..Len(up') : u.id # 0 /\ up'[l].id = u.id => l = j
    <3>1. SUFFICES ASSUME NEW l \in 1..Len(up'), u.id # 0, up'[l].id = u.id PROVE l = j
      OBVIOUS
    <3>2. l + 1 \in 1..Len(up) /\ up[l + 1].id = u.id
      BY <1>1, <3>1
    <3>3. l + 1 = j + 1
      BY <2>1, <2>2, <3>1, <3>2 DEF Unread
    <3>4. QED BY <1>1, <3>3
  <2>6. QED BY <1>3, <2>1, <2>2, <2>4, <2>5 DEF Unread, Governs
<1>7. \A i : Read(i) => Read(i)'
  BY <1>3 DEF Read, Governs
<1>8. ASSUME NEW i \in pending' PROVE Read(i)'
  <2>1. CASE i \in pending
    BY <1>7, <2>1 DEF Wire
  <2>2. CASE i \notin pending
    BY <1>3, <1>5, <2>2 DEF Read, Governs
  <2>3. QED BY <2>1, <2>2
<1>9. ASSUME NEW l \in 1..Len(down') PROVE Answered(l)'
  <2>1. Answered(l) /\ l \in 1..Len(down)
    BY <1>3 DEF Wire
  <2>2. QED BY <1>3, <1>5, <2>1 DEF Answered, Read, Governs
<1>10. \A i \in ran' : i \in 1..Len(issued') /\ Governs(i)'
  BY <1>3, <1>5 DEF Wire, Governs
<1>11. \A i \in 1..Len(issued') : Carried(i)'
  BY <1>3 DEF Wire, Carried, Governs
<1>12. QED BY <1>6, <1>8, <1>9, <1>10, <1>11 DEF Wire

LEMMA WireAnswer ==
    ASSUME TypeOK, Wire, NEW id \in pending, NEW type \in AnswerKinds,
           NEW page \in Pages \union {NoPage}, ServerAnswer(id, type, page)
    PROVE  Wire'
<1>1. PICK f \in Frame : f = [type |-> type, id |-> id, page |-> page]
  <2>1. [type |-> type, id |-> id, page |-> page] \in Frame
    BY KindsAssumption DEF Frame, TypeOK
  <2>2. QED BY <2>1
<1>2. /\ UNCHANGED <<issued, up, ran, grants>> /\ pending' = pending \ {id}
      /\ down' = Append(down, f) /\ f.id = id
  BY <1>1 DEF ServerAnswer, trail
<1>3. /\ Len(down) \in Nat /\ Len(down') = Len(down) + 1 /\ down'[Len(down) + 1] = f
      /\ \A l \in 1..Len(down) : down'[l] = down[l]
  BY <1>2 DEF TypeOK
<1>4. \A l \in 1..Len(down') : l = Len(down) + 1 \/ l \in 1..Len(down)
  BY <1>3
<1>5. Read(id)
  BY DEF Wire
<1>6. ASSUME NEW j \in 1..Len(up') PROVE Unread(j)'
  <2>1. Unread(j) /\ j \in 1..Len(up)
    BY <1>2 DEF Wire
  <2>2. up[j].id # 0 => up[j].id # id
    BY <2>1 DEF Unread
  <2>3. QED BY <1>2, <1>3, <1>4, <2>1, <2>2 DEF Unread, Governs
<1>7. ASSUME NEW l \in 1..Len(down') PROVE Answered(l)'
  <2>1. CASE l = Len(down) + 1
    BY <1>2, <1>3, <1>5, <2>1 DEF Answered, Read, Governs
  <2>2. CASE l \in 1..Len(down)
    <3>1. Answered(l)
      BY <2>2 DEF Wire
    <3>2. QED BY <1>2, <1>3, <2>2, <3>1 DEF Answered, Read, Governs
  <2>3. QED BY <1>4, <2>1, <2>2
<1>8. \A i \in pending' : Read(i)'
  BY <1>2 DEF Wire, Read, Governs
<1>9. /\ \A i \in ran' : i \in 1..Len(issued') /\ Governs(i)'
      /\ \A i \in 1..Len(issued') : Carried(i)'
  BY <1>2 DEF Wire, Carried, Governs
<1>10. QED BY <1>6, <1>7, <1>8, <1>9 DEF Wire

LEMMA SameGrantsHold == ASSUME Wire, grants' = grants PROVE GrantsHold
  BY DEF Wire, Carried, Governs, GrantsHold

LEMMA WireServer == ASSUME TypeOK, Wire, ServerStep PROVE Wire'
<1>1. CASE ServerRead
  BY <1>1, WireRead
<1>2. CASE ServerDies
  BY <1>2, WireKept, SameGrantsHold DEF ServerDies, NoNewAnswer, link, trail
<1>3. ASSUME NEW id \in pending, NEW type \in AnswerKinds, NEW page \in Pages \union {NoPage},
             ServerAnswer(id, type, page)
      PROVE  Wire'
  BY <1>3, WireAnswer
<1>4. ASSUME NEW f \in Unasked, ServerChatter(f) PROVE Wire'
  <2>1. f \in Frame /\ f.type \notin AnswerTypes
    BY DEF Unasked, Bare, Frame, Noise, AnswerTypes
  <2>2. down' = Append(down, f) /\ UNCHANGED <<issued, pending, ran, up, grants>>
    BY <1>4 DEF ServerChatter, trail
  <2>3. NoNewAnswer
    BY <2>1, <2>2 DEF NoNewAnswer, TypeOK
  <2>4. QED BY <2>2, <2>3, WireKept, SameGrantsHold
<1>5. QED BY <1>1, <1>2, <1>3, <1>4 DEF ServerStep

LEMMA WireGateway ==
    ASSUME TypeOK, Turn, Gathering, Past, Wire, GatewayStep PROVE Wire'
<1>1. CASE Send
  BY <1>1, WireSend
<1>2. CASE DispatchNotify \/ SendRefusal
  <2>1. UNCHANGED <<issued, pending, ran, down, grants>>
    BY <1>2 DEF DispatchNotify, SendRefusal, server, trail
  <2>2. PICK m : m = IF DispatchNotify THEN [type |-> "note", id |-> 0]
                     ELSE [type |-> "refusal", id |-> 0]
    OBVIOUS
  <2>3. m \in Input /\ m.id = 0 /\ m.type # "call"
    BY <2>2 DEF Input
  <2>4. up' = up \/ up' = Append(up, m)
    BY <1>2, <2>2 DEF DispatchNotify, SendRefusal, Write
  <2>5. NoNewAnswer
    BY <2>1 DEF NoNewAnswer
  <2>6. QED BY <2>1, <2>3, <2>4, <2>5, WireNote, WireKept, SameGrantsHold
<1>3. CASE ~Send /\ ~DispatchNotify /\ ~SendRefusal
  <2>1. UNCHANGED <<issued, pending, ran, up>>
    <3>1. CASE Dispatch
      BY <1>3, <3>1 DEF Dispatch, ReadFails, DispatchLost, DispatchRefuse, DispatchDrop,
         DispatchRequest, link, server
    <3>2. CASE Governed
      BY <3>2 DEF Governed, AuthorizeAllow, AuthorizeRefuse, RedeemOk, RedeemDenied,
                  ServiceFault, link, server
    <3>3. CASE Call
      BY <1>3, <3>3 DEF Call, ReceiveGarbage, ReceiveEscapes, ReceiveSkip, ReceiveRequest,
           ReceiveError, ReceiveNeither, ReceiveResult, ReceivePage, Timeout, link, server
    <3>4. CASE RecordOutcome \/ OutcomeFault \/ Reply
      BY <3>4 DEF RecordOutcome, OutcomeFault, Reply, link, server
    <3>5. QED BY <3>1, <3>2, <3>3, <3>4 DEF GatewayStep
  <2>2. down' = down \/ (down # <<>> /\ Consume)
    <3>1. CASE Dispatch
      BY <1>3, <3>1 DEF Dispatch, ReadFails, DispatchLost, DispatchRefuse, DispatchDrop,
         DispatchRequest, link
    <3>2. CASE Governed
      BY <3>2 DEF Governed, AuthorizeAllow, AuthorizeRefuse, RedeemOk, RedeemDenied,
                  ServiceFault, link
    <3>3. CASE Call
      BY <1>3, <3>3 DEF Call, ReceiveGarbage, ReceiveEscapes, ReceiveSkip, ReceiveRequest,
           ReceiveError, ReceiveNeither, ReceiveResult, ReceivePage, Timeout, link
    <3>4. CASE RecordOutcome \/ OutcomeFault \/ Reply
      BY <3>4 DEF RecordOutcome, OutcomeFault, Reply, link
    <3>5. QED BY <3>1, <3>2, <3>3, <3>4 DEF GatewayStep
  <2>3. NoNewAnswer
    BY <2>2, ConsumeType DEF NoNewAnswer, TypeOK
  <2>4. QED BY <2>1, <2>3, WireKept, GatewayGrantsHold
<1>4. QED BY <1>1, <1>2, <1>3

LEMMA WireOther ==
    ASSUME TypeOK, Wire, Stop \/ \E kind \in ClientKinds : Take(kind) PROVE Wire'
<1>1. UNCHANGED <<issued, pending, ran, up, down, grants>>
  BY DEF Stop, Take, link, server, trail
<1>2. QED BY <1>1, WireKept, SameGrantsHold DEF NoNewAnswer

-----------------------------------------------------------------------------
(* The requests sent for the message in hand *)

LEMMA ListsEmpty == Lists(<<>>, {})
<1>1. Len(<<>>) = 0 /\ Cardinality({}) = 0
  BY FS_EmptySet
<1>2. QED BY <1>1 DEF Lists

LEMMA ListsAppend ==
    ASSUME NEW S, IsFiniteSet(S), NEW x \in S, x \in Nat, NEW s \in Seq(Nat), Lists(s, S \ {x})
    PROVE  Lists(Append(s, x), S)
<1>1. /\ Len(s) \in Nat /\ Len(Append(s, x)) = Len(s) + 1 /\ Append(s, x)[Len(s) + 1] = x
      /\ \A j \in 1..Len(s) : Append(s, x)[j] = s[j]
  OBVIOUS
<1>2. \A j \in 1..(Len(s) + 1) : j = Len(s) + 1 \/ j \in 1..Len(s)
  BY <1>1
<1>3. {s[j] : j \in 1..Len(s)} = S \ {x}
  BY DEF Lists
<1>4. {Append(s, x)[j] : j \in 1..Len(Append(s, x))} = S
  <2>1. ASSUME NEW y \in S PROVE \E j \in 1..(Len(s) + 1) : Append(s, x)[j] = y
    <3>1. CASE y = x
      BY <1>1, <3>1
    <3>2. CASE y # x
      <4>1. PICK j \in 1..Len(s) : s[j] = y
        BY <1>3, <3>2
      <4>2. QED BY <1>1, <4>1
    <3>3. QED BY <3>1, <3>2
  <2>2. ASSUME NEW j \in 1..(Len(s) + 1) PROVE Append(s, x)[j] \in S
    BY <1>1, <1>2, <1>3
  <2>3. QED BY <1>1, <2>1, <2>2
<1>5. Cardinality(S \ {x}) = Cardinality(S) - 1 /\ Cardinality(S) \in Nat
  BY FS_RemoveElement, FS_CardinalityType
<1>6. Len(s) = Cardinality(S \ {x})
  BY DEF Lists
<1>7. Len(Append(s, x)) = Cardinality(S)
  BY <1>1, <1>5, <1>6
<1>8. QED BY <1>4, <1>7, Zenon DEF Lists

LEMMA GatheringOther ==
    ASSUME TypeOK, Gathering, Past, Wire,
           Stop \/ ServerStep \/ \E kind \in ClientKinds : Take(kind)
    PROVE  Gathering'
<1>1. CASE Stop
  BY <1>1 DEF Stop, Gathering
<1>2. CASE ServerStep
  <2>1. /\ ran \ pending \subseteq ran' \ pending'
        /\ UNCHANGED <<n, pc, issued, msg, verdict, used, listing>>
    BY <1>2, AnsweredStays
  <2>2. For(n)' = For(n) /\ Req' = Req
    BY <2>1 DEF For, Req
  <2>3. QED BY <2>1, <2>2 DEF Gathering
<1>3. CASE \E kind \in ClientKinds : Take(kind)
  <2>1. /\ n' = n + 1 /\ n \in Nat /\ issued' = issued /\ pc' = "dispatch"
        /\ used' = <<>> /\ listing'.pages = 0
    BY <1>3 DEF Take, TypeOK, NoListing, link
  <2>2. For(n)' = {}
    BY <2>1, BoundsAssumption DEF For, Past, TypeOK
  <2>3. QED BY <2>1, <2>2 DEF Gathering
<1>4. QED BY <1>1, <1>2, <1>3

LEMMA GatheringBegin ==
    ASSUME TypeOK, Turn, Gathering, Dispatch \/ Governed PROVE Gathering'
<1>1. /\ pc \in {"dispatch", "authorize", "redeem"}
      /\ pc' \in {"idle", "closed", "authorize", "redeem", "send"}
      /\ UNCHANGED <<n, issued, used, listing>>
  BY DEF Dispatch, ReadFails, DispatchLost, DispatchRefuse, DispatchDrop, DispatchNotify,
     DispatchRequest,
         Governed, AuthorizeAllow, AuthorizeRefuse, RedeemOk, RedeemDenied, ServiceFault,
         Escape, Refuse, link, local
<1>2. For(n) = {} /\ used = <<>> /\ listing.pages = 0
  BY <1>1 DEF Gathering
<1>3. For(n)' = {}
  BY <1>1, <1>2 DEF For
<1>4. Len(used) = 0 /\ 0 < MaxListPages /\ Lists(used, {})
  BY <1>2, ListsEmpty, BoundsAssumption
<1>5. pc' = "send" => Lists(used, For(n))'
  BY <1>1, <1>3, <1>4 DEF Lists
<1>6. QED BY <1>1, <1>2, <1>3, <1>4, <1>5 DEF Gathering

LEMMA GatheringSend == ASSUME TypeOK, Turn, Gathering, Send PROVE Gathering'
<1>1. CASE ~alive
  BY <1>1 DEF Send, Conclude, Gathering
<1>2. CASE alive
  <2>1. /\ pc = "send" /\ pc' = "receive" /\ n \in 1..MaxMsgs
        /\ UNCHANGED <<n, used, listing, msg>> /\ issued' = Append(issued, n)
    BY <1>2, Busy DEF Send, Over
  <2>2. /\ For(n)' = For(n) \union {Req + 1} /\ Req + 1 \notin For(n) /\ Req' = Req + 1
    <3>1. PICK m \in 1..MaxMsgs : m = n
      BY <2>1
    <3>2. /\ For(m)' = For(m) \union {Req + 1} /\ Req + 1 \notin For(m)
          /\ Len(issued') = Req + 1
      BY <2>1, <3>1, ForSend
    <3>3. For(n)' = For(m)'
      BY <2>1, <3>1 DEF For
    <3>4. QED BY <3>1, <3>2, <3>3 DEF Req
  <2>3. For(n)' \ {Req'} = For(n)
    BY <2>2
  <2>4. Lists(used, For(n)) /\ Len(used) = listing.pages /\ listing.pages < MaxListPages
    BY <2>1 DEF Gathering
  <2>5. Lists(used, For(n) \ {Req})'
    <3>1. PICK S : S = For(n)
      OBVIOUS
    <3>2. PICK s : s = used /\ s = used'
      BY <2>1
    <3>3. Lists(s, S) /\ For(n)' \ {Req'} = S
      BY <2>3, <2>4, <3>1, <3>2
    <3>4. QED BY <3>2, <3>3 DEF Lists
  <2>6. msg # "list" => For(n)' = {Req'}
    BY <2>1, <2>2 DEF Gathering
  <2>7. QED BY <2>1, <2>2, <2>4, <2>5, <2>6 DEF Gathering
<1>3. QED BY <1>1, <1>2 DEF TypeOK

\* The answer that is taken is an answer to the request in hand, and the list is complete.
LEMMA Completed ==
    ASSUME TypeOK, Turn, Gathering, pc = "receive"
    PROVE  Lists(Append(used, Req), For(n)) /\ Req \in Nat
<1>1. Req \in For(n) /\ Lists(used, For(n) \ {Req}) /\ used \in Seq(Nat) /\ Req \in Nat
  BY DEF Gathering, TypeOK, Req
<1>2. PICK S : S = For(n) /\ IsFiniteSet(S)
  BY ForFinite
<1>3. PICK x \in Nat : x = Req
  BY <1>1
<1>4. PICK s \in Seq(Nat) : s = used
  BY <1>1
<1>5. Lists(Append(s, x), S)
  BY <1>1, <1>2, <1>3, <1>4, ListsAppend
<1>6. QED BY <1>1, <1>2, <1>3, <1>4, <1>5

LEMMA AnsweredByServer ==
    ASSUME TypeOK, Turn, Gathering, Wire, pc = "receive", down # <<>>, msg = "call",
           Incoming.type \in AnswerTypes, Matches(Incoming)
    PROVE  For(n) # {} /\ For(n) \subseteq ran \ pending
<1>1. For(n) = {Req} /\ Req \in 1..Len(issued) /\ issued[Req] = n
  BY DEF Gathering, For
<1>2. Incoming = down[1] /\ 1 \in 1..Len(down)
  BY DEF Incoming, TypeOK
<1>3. Answered(1)
  BY <1>2 DEF Wire
<1>4. Read(Req) /\ Req \notin pending
  BY <1>2, <1>3 DEF Answered, Matches
<1>5. Governs(Req)
  BY <1>1 DEF Governs, Turn
<1>6. QED BY <1>1, <1>4, <1>5 DEF Read

LEMMA GatheringReceive ==
    ASSUME TypeOK, Turn, Gathering, Wire, Call, ~Send PROVE Gathering'
<1>1. n' = n /\ msg' = msg /\ issued' = issued /\ UNCHANGED <<ran, pending>>
  BY DEF Call, ReceiveGarbage, ReceiveEscapes, ReceiveSkip, ReceiveRequest,
         SendRefusal, ReceiveError, ReceiveNeither, ReceiveResult, ReceivePage, Timeout,
         link, server, local
<1>2. For(n)' = For(n) /\ Req' = Req
  BY <1>1 DEF For, Req
<1>3. ASSUME Conclude("transport") PROVE Gathering'
  BY <1>3 DEF Conclude, Gathering
<1>4. CASE ReceiveGarbage \/ ReceiveNeither \/ Timeout
  BY <1>3, <1>4 DEF ReceiveGarbage, ReceiveNeither, Timeout
<1>5. CASE ReceiveEscapes
  BY <1>5 DEF ReceiveEscapes, Escape, Refuse, Gathering
<1>6. CASE /\ pc \in {"receive", "refuse"} /\ pc' \in {"receive", "refuse"}
           /\ UNCHANGED <<used, listing>>
  BY <1>1, <1>2, <1>6 DEF Gathering
<1>7. CASE ReceiveSkip \/ ReceiveRequest \/ SendRefusal
  BY <1>3, <1>6, <1>7 DEF ReceiveSkip, ReceiveRequest, SendRefusal, local
<1>8. CASE ReceiveError
  <2>1. /\ verdict' = "rpc_error" /\ pc' = IF msg = "call" THEN "outcome" ELSE "reply"
        /\ pc = "receive" /\ down # <<>> /\ Incoming.type = "error" /\ Matches(Incoming)
    BY <1>8 DEF ReceiveError, Conclude
  <2>2. pc' = "outcome" => For(n) # {} /\ For(n) \subseteq ran \ pending
    BY <2>1, AnsweredByServer DEF AnswerTypes
  <2>3. QED BY <1>1, <1>2, <2>1, <2>2 DEF Gathering
<1>9. CASE ReceiveResult
  <2>1. /\ verdict' = "result" /\ pc' = IF msg = "call" THEN "outcome" ELSE "reply"
        /\ pc = "receive" /\ down # <<>> /\ Incoming.type = "result" /\ Matches(Incoming)
        /\ used' = Append(used, Req)
    BY <1>9 DEF ReceiveResult, Conclude, Matches
  <2>2. pc' = "outcome" => For(n) # {} /\ For(n) \subseteq ran \ pending
    BY <2>1, AnsweredByServer DEF AnswerTypes
  <2>3. Lists(used', For(n)')
    BY <1>2, <2>1, Completed
  <2>4. QED BY <1>1, <1>2, <2>1, <2>2, <2>3 DEF Gathering
<1>10. CASE ReceivePage
  <2>1. /\ pc = "receive" /\ down # <<>> /\ msg = "list" /\ used' = Append(used, Req)
    BY <1>10 DEF ReceivePage, Matches
  <2>2. Lists(used', For(n)')
    BY <1>2, <2>1, Completed
  <2>3. PICK page \in Pages \union {NoPage} : page = Incoming.page
    BY <1>10, ConsumeType DEF ReceivePage, TypeOK, Frame
  <2>4. PICK next : next = [pages |-> listing.pages + 1, size |-> listing.size + page.size,
                            seen |-> listing.seen]
    OBVIOUS
  <2>5. \/ Conclude("transport")
        \/ Conclude("result")
        \/ /\ ~RefusePage(next, page) /\ page.cursor # EndCursor
           /\ listing' = [next EXCEPT !.seen = @ \union {page.cursor}]
           /\ pc' = "send" /\ UNCHANGED verdict
    BY <1>10, <2>3, <2>4 DEF ReceivePage
  <2>6. CASE Conclude("result")
    BY <1>1, <2>1, <2>2, <2>6 DEF Conclude, Gathering
  <2>7. CASE /\ ~RefusePage(next, page) /\ page.cursor # EndCursor
             /\ listing' = [next EXCEPT !.seen = @ \union {page.cursor}]
             /\ pc' = "send"
    <3>1. next.pages = listing.pages + 1 /\ listing.pages \in Nat
      BY <2>4 DEF TypeOK, Listing
    <3>2. listing'.pages = next.pages
      BY <2>4, <2>7
    <3>3. listing'.pages < MaxListPages
      BY <2>7, <3>1, <3>2, BoundsAssumption DEF RefusePage, TooLong
    <3>4. Len(used') = Len(used) + 1 /\ Len(used) = listing.pages
      BY <2>1 DEF TypeOK, Gathering, Req
    <3>5. QED BY <1>1, <2>1, <2>2, <2>7, <3>1, <3>2, <3>3, <3>4 DEF Gathering
  <2>8. QED BY <1>3, <2>5, <2>6, <2>7
<1>11. QED BY <1>4, <1>5, <1>7, <1>8, <1>9, <1>10 DEF Call

LEMMA GatheringEnd ==
    ASSUME Gathering, RecordOutcome \/ OutcomeFault \/ Reply PROVE Gathering'
<1>1. /\ UNCHANGED <<n, issued, used, verdict>> /\ pc \in {"outcome", "reply"}
      /\ pc' \in {"idle", "reply"} /\ (pc' = "reply" => pc = "outcome")
  BY DEF RecordOutcome, OutcomeFault, Reply, link, local
<1>2. For(n)' = For(n)
  BY <1>1 DEF For
<1>3. QED BY <1>1, <1>2 DEF Gathering

\* The two bounds of ListingIsBounded.
FewPages == \A k \in 1..MaxMsgs : Cardinality(For(k)) <= MaxListPages
FewTools == msg = "list" /\ verdict = "result" => listing.size <= MaxListTools

LEMMA FewPagesStep ==
    ASSUME TypeOK, Turn, Gathering, FewPages, Next PROVE FewPages'
<1>1. CASE issued' = issued
  BY <1>1, ForSame DEF FewPages
<1>2. CASE GatewayStep /\ issued' # issued
  <2>1. /\ n \in 1..MaxMsgs /\ Send /\ issued' = Append(issued, n) /\ pc = "send"
    BY <1>2, Own DEF Send
  <2>2. PICK m \in 1..MaxMsgs : m = n
    BY <2>1
  <2>3. Cardinality(For(m)) = listing.pages /\ listing.pages < MaxListPages
    BY <2>1, <2>2 DEF Gathering, Lists
  <2>4. /\ For(m)' = For(m) \union {Req + 1} /\ Req + 1 \notin For(m)
        /\ \A k : k # m => For(k)' = For(k)
    BY <2>1, <2>2, ForSend
  <2>5. Cardinality(For(m)') = Cardinality(For(m)) + 1
    BY <2>4, ForFinite, FS_AddElement
  <2>6. listing.pages \in Nat /\ MaxListPages \in Nat
    BY BoundsAssumption DEF TypeOK, Listing
  <2>7. Cardinality(For(m)') <= MaxListPages
    BY <2>3, <2>5, <2>6
  <2>8. ASSUME NEW k \in 1..MaxMsgs PROVE Cardinality(For(k)') <= MaxListPages
    BY <2>4, <2>7 DEF FewPages
  <2>9. QED BY <2>8 DEF FewPages
<1>3. Stop \/ ServerStep \/ (\E kind \in ClientKinds : Take(kind)) => issued' = issued
  BY DEF Stop, Take, ServerStep, ServerRead, ServerDies, ServerAnswer, ServerChatter, link
<1>4. QED BY <1>1, <1>2, <1>3 DEF Next

\* Only a page that was not refused ends a listing.
LEMMA FewToolsStep == ASSUME TypeOK, FewTools, Next PROVE FewTools'
<1>1. CASE \E kind \in ClientKinds : Take(kind)
  <2>1. verdict' = "none"
    BY <1>1 DEF Take
  <2>2. QED BY <2>1 DEF FewTools
<1>2. CASE UNCHANGED <<msg, verdict, listing>>
  BY <1>2 DEF FewTools
<1>3. CASE msg' = msg /\ verdict' # "result"
  BY <1>3 DEF FewTools
<1>4. CASE msg' = msg /\ msg # "list"
  BY <1>4 DEF FewTools
<1>5. CASE ReceivePage
  <2>1. DEFINE page == Incoming.page
               next == [pages |-> listing.pages + 1, size |-> listing.size + page.size,
                        seen |-> listing.seen]
  <2>2. msg' = msg
    BY <1>5 DEF ReceivePage
  <2>3. CASE RefusePage(next, page) /\ Conclude("transport")
    BY <1>3, <2>2, <2>3 DEF Conclude
  <2>4. CASE ~RefusePage(next, page) /\ listing' = next
    <3>1. ~(next.size > MaxListTools)
      BY <2>4 DEF RefusePage, TooLong
    <3>2. 1 \in 1..Len(down) /\ Incoming \in Frame
      BY <1>5 DEF ReceivePage, TypeOK, Incoming
    <3>3. page.size \in Nat
      BY <3>2, KindsAssumption DEF Frame, NoPage
    <3>4. next.size \in Nat
      BY <3>3 DEF TypeOK, Listing
    <3>5. next.size <= MaxListTools
      BY <3>1, <3>4, BoundsAssumption
    <3>6. QED BY <2>4, <3>5 DEF FewTools
  <2>5. CASE verdict' = verdict /\ listing' = [next EXCEPT !.seen = @ \union {page.cursor}]
             /\ ~RefusePage(next, page)
    <3>1. ~(next.size > MaxListTools)
      BY <2>5 DEF RefusePage, TooLong
    <3>2. 1 \in 1..Len(down) /\ Incoming \in Frame
      BY <1>5 DEF ReceivePage, TypeOK, Incoming
    <3>3. page.size \in Nat
      BY <3>2, KindsAssumption DEF Frame, NoPage
    <3>4. next.size \in Nat
      BY <3>3 DEF TypeOK, Listing
    <3>5. next.size <= MaxListTools
      BY <3>1, <3>4, BoundsAssumption
    <3>6. listing'.size = next.size
      BY <2>5
    <3>7. QED BY <3>5, <3>6 DEF FewTools
  <2>6. QED BY <1>5, <2>3, <2>4, <2>5 DEF ReceivePage
<1>6. CASE Call /\ ~ReceivePage
  BY <1>2, <1>3, <1>4, <1>6 DEF Call, Send, ReceiveGarbage, ReceiveEscapes, ReceiveSkip,
     ReceiveRequest, SendRefusal, ReceiveError, ReceiveNeither, ReceiveResult, Timeout, Conclude,
     local
<1>7. CASE Stop \/ ServerStep \/ Dispatch
  BY <1>2, <1>7 DEF Stop, ServerStep, ServerRead, ServerDies, ServerAnswer, ServerChatter,
     Dispatch, ReadFails, DispatchLost, DispatchRefuse, DispatchDrop, DispatchNotify,
     DispatchRequest, local
<1>8. CASE Governed \/ RecordOutcome \/ OutcomeFault \/ Reply
  BY <1>2, <1>8 DEF Governed, AuthorizeAllow, AuthorizeRefuse, RedeemOk, RedeemDenied,
     ServiceFault, RecordOutcome, OutcomeFault, Reply, local
<1>9. QED BY <1>1, <1>5, <1>6, <1>7, <1>8 DEF Next, GatewayStep

LEMMA ListingStep ==
    ASSUME TypeOK, Turn, Gathering, ListingIsBounded, Next PROVE ListingIsBounded'
<1>1. FewPages /\ FewTools
  BY DEF ListingIsBounded, FewPages, FewTools
<1>2. FewPages' /\ FewTools'
  BY <1>1, FewPagesStep, FewToolsStep
<1>3. QED BY <1>2 DEF ListingIsBounded, FewPages, FewTools

-----------------------------------------------------------------------------
(* The theorems *)

LEMMA InvInit == Init => Inv
<1> SUFFICES ASSUME Init PROVE Inv
  OBVIOUS
<1>1. MaxMsgs \in Nat /\ 0 \in 0..MaxMsgs
  BY BoundsAssumption
<1>2. NoListing \in Listing /\ NoReply \in Seq(Answer)
  BY DEF NoListing, Listing, NoReply
<1>3. TypeOK
  <2>1. msg \in Kinds /\ pc \in Pcs /\ n \in 0..MaxMsgs /\ verdict \in Verdicts \union {"none"}
    BY <1>1 DEF Init, Kinds, Requests, Pcs
  <2>2. replies \in [1..MaxMsgs -> Seq(Answer)]
    BY <1>2 DEF Init
  <2>3. used \in Seq(Nat) /\ issued \in Seq(1..MaxMsgs) /\ up \in Seq(Input) /\ down \in Seq(Frame)
    BY DEF Init
  <2>4. QED BY <1>2, <2>1, <2>2, <2>3 DEF Init, TypeOK
<1>4. Len(issued) = 0 /\ Len(up) = 0 /\ Len(down) = 0
  BY DEF Init
<1>5. \A k : For(k) = {}
  BY <1>4 DEF For
<1>6. Turn
  BY DEF Init, Turn, Over
<1>7. Gathering /\ Past /\ Wire
  BY <1>4 DEF Init, Gathering, Past, Wire
<1>8. ListingIsBounded
  BY <1>5, FS_EmptySet, BoundsAssumption DEF Init, ListingIsBounded
<1>9. \A k \in 1..MaxMsgs : replies[k] = <<>> /\ outcomes[k] = "none"
  BY DEF Init, NoReply
<1>10. ResultsAreOwn
  BY <1>9 DEF ResultsAreOwn
<1>11. AnsweredOnce
  BY DEF Init, AnsweredOnce
<1>12. TrailMatchesReply
  BY <1>9 DEF TrailMatchesReply, NoReply
<1>13. QED BY <1>3, <1>6, <1>7, <1>8, <1>10, <1>11, <1>12 DEF Inv

LEMMA InvStep == Inv /\ [Next]_vars => Inv'
<1> SUFFICES ASSUME Inv, [Next]_vars PROVE Inv'
  OBVIOUS
<1> USE DEF Inv
<1>1. CASE GatewayStep
  <2>1. TypeOK'
    BY <1>1, TypeDispatch, TypeGoverned, TypeCall, TypeEnd DEF GatewayStep
  <2>2. Turn'
    BY <1>1, TurnDispatch, TurnGoverned, TurnCall, TurnEnd DEF GatewayStep
  <2>3. Gathering'
    BY <1>1, GatheringBegin, GatheringSend, GatheringReceive, GatheringEnd DEF GatewayStep
  <2>4. Past' /\ Wire'
    BY <1>1, PastGateway, WireGateway
  <2>5. ListingIsBounded'
    BY <1>1, ListingStep DEF Next
  <2>6. ResultsAreOwn' /\ AnsweredOnce' /\ TrailMatchesReply'
    BY <1>1, ResultsGateway, OnceGateway, TrailGateway
  <2>7. QED BY <2>1, <2>2, <2>3, <2>4, <2>5, <2>6
<1>2. CASE Stop \/ ServerStep \/ \E kind \in ClientKinds : Take(kind)
  <2>1. TypeOK'
    BY <1>2, TypeStop, TypeServer, TypeTake
  <2>2. Turn'
    BY <1>2, TurnStop, TurnServer, TurnTake
  <2>3. Gathering' /\ Past'
    BY <1>2, GatheringOther, PastOther
  <2>4. Wire'
    BY <1>2, WireServer, WireOther
  <2>5. ListingIsBounded'
    BY <1>2, ListingStep DEF Next
  <2>6. ResultsAreOwn' /\ AnsweredOnce' /\ TrailMatchesReply'
    BY <1>2, ResultsOther, OnceOther, TrailOther
  <2>7. QED BY <2>1, <2>2, <2>3, <2>4, <2>5, <2>6
<1>3. CASE UNCHANGED vars
  <2>1. UNCHANGED <<n, pc, replies, issued, up, down, alive, pending, ran, grants, outcomes, msg,
                    verdict, used, listing>>
    BY <1>3 DEF vars, link, server, trail, local
  <2>2. TypeOK' /\ Turn' /\ Past'
    BY <2>1 DEF TypeOK, Turn, Past, Outcome
  <2>3. For(n)' = For(n) /\ Req' = Req /\ \A k : For(k)' = For(k)
    BY <2>1 DEF For, Req
  <2>4. Gathering'
    BY <2>1, <2>3 DEF Gathering
  <2>5. Wire'
    BY <2>1, WireKept, SameGrantsHold DEF NoNewAnswer
  <2>6. ListingIsBounded' /\ AnsweredOnce'
    BY <2>1, <2>3 DEF ListingIsBounded, AnsweredOnce
  <2>7. ResultsAreOwn'
    BY <2>1, <2>3 DEF ResultsAreOwn
  <2>8. TrailMatchesReply'
    BY <2>1, <2>3 DEF TrailMatchesReply
  <2>9. QED BY <2>2, <2>4, <2>5, <2>6, <2>7, <2>8
<1>4. QED BY <1>1, <1>2, <1>3 DEF Next

LEMMA InvHolds == Spec => []Inv
  BY InvInit, InvStep, PTL DEF Spec

\* gateway.py, module docstring: no tools/call reaches the server but for a client message
\* whose grant was redeemed, and no grant carries two of them.
THEOREM NothingBypassesTheGrant == Spec => []OnlyRedeemedCallsRun
<1>1. ASSUME Inv PROVE OnlyRedeemedCallsRun
  <2>1. SUFFICES ASSUME NEW i \in ran
                 PROVE  grants[issued[i]] \in {"redeemed", "closed"} /\ For(issued[i]) = {i}
    BY DEF OnlyRedeemedCallsRun
  <2>2. i \in 1..Len(issued) /\ Governs(i) /\ Carried(i)
    BY <1>1 DEF Inv, Wire
  <2>3. QED BY <2>2 DEF Carried, For
<1>2. QED BY <1>1, InvHolds, PTL

\* _DownstreamLink.call and _handle_tools_list: a result given to the client is made of the
\* answers to the requests sent for its message, all of them and no other.
THEOREM ResultsAreOwnAnswers == Spec => []ResultsAreOwn
<1>1. Inv => ResultsAreOwn
  BY DEF Inv
<1>2. QED BY <1>1, InvHolds, PTL

\* _best_effort_outcome: what the trail says of a call is what the client was told, and it
\* says executed only of a call the server has read and answered; a call that has got as far
\* as its outcome is not answered with a refusal, though recording it may fail.
THEOREM TrailAgrees == Spec => []TrailMatchesReply
<1>1. Inv => TrailMatchesReply
  BY DEF Inv
<1>2. QED BY <1>1, InvHolds, PTL

\* _handle_line: a request is answered at most once and a notification never.
THEOREM OneAnswer == Spec => []AnsweredOnce
<1>1. Inv => AnsweredOnce
  BY DEF Inv
<1>2. QED BY <1>1, InvHolds, PTL

\* _handle_tools_list: one tools/list costs the server at most _MAX_LIST_PAGES requests, and a
\* listing that is a result has at most _MAX_LIST_TOOLS tools.
THEOREM ListingEnds == Spec => []ListingIsBounded
<1>1. Inv => ListingIsBounded
  BY DEF Inv
<1>2. QED BY <1>1, InvHolds, PTL
=============================================================================
