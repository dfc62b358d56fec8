---------------------------- MODULE McpDiscovery ----------------------------
(***************************************************************************)
(* One discover() of mcp_source.py: a child process is spawned, asked to   *)
(* initialize and then for its tools, page by page, all under one          *)
(* deadline, and is put down at the end.                                   *)
(*                                                                         *)
(* The child may answer late, twice, in error or not at all, speak         *)
(* unasked, hang up, exit, stop reading or ignore SIGTERM.  It answers     *)
(* only requests it has read.  Request 1 is initialize; the others are     *)
(* tools/list.  Bytes after the last newline are left out: whether there   *)
(* are any changes the wording of a fault and not its kind.                *)
(***************************************************************************)
EXTENDS Naturals, Sequences, SequencesExt, FiniteSetsExt

CONSTANTS
    Names,        \* tool names
    Pages,        \* results of tools/list: records [array, tools, cursor]
    AnswerTypes,  \* how the child answers a request
    ChatterTypes, \* frames it sends unasked
    MaxRequests,  \* bound: requests it answers
    MaxChatter,   \* bound: frames sent unasked, second answers included
    PipeCapacity  \* messages its stdin holds; a cursor may be as long as the pipe

\* An entry of a tools array that is not an object, or has no usable name.
NotAnObject == "not_an_object"
Nameless == "nameless"
Entries == Names \union {NotAnObject, Nameless}

ASSUME ConstantsAssumption ==
    /\ \A page \in Pages : page.array \in BOOLEAN /\ page.tools \in Seq(Entries)
                            /\ page.cursor \in {"end", "more"}
    /\ MaxRequests \in Nat /\ MaxChatter \in Nat /\ PipeCapacity \in Nat \ {0}

VARIABLES
    pc,       \* where discover is
    req,      \* the id of the request in hand
    tools,    \* the tools gathered; seen is their names
    outcome,  \* how it went: "ok", a fault kind, or "escaped", an exception of another type
    late,     \* the deadline has passed
    buf,      \* _buf: frames read from the pipe
    up, down, \* the child's stdin and stdout
    proc,     \* the child: "none", "running", "exited", "reaped"
    linked,   \* it holds its ends of the pipes
    stubborn, \* it ignores SIGTERM
    signalled,
    pending,  \* requests it has read and not answered
    served,   \* by request, the frame it first answered with, or NoFrame
    chatter

client == <<pc, req, tools, outcome>>
child == <<proc, linked, stubborn, signalled, pending, served, chatter>>
vars == <<client, late, buf, up, down, child>>

-----------------------------------------------------------------------------
NoPage == [array |-> FALSE, tools |-> <<>>, cursor |-> "end"]
NoFrame == [type |-> "none", id |-> 0, page |-> NoPage]

FAULT_KINDS == {"spawn_failed", "timeout", "malformed_json", "truncated_response",
                "protocol_error", "duplicate_tool"}

Init ==
    /\ pc = "spawn" /\ req = 1 /\ tools = <<>> /\ outcome = "none"
    /\ late = FALSE /\ buf = <<>> /\ up = <<>> /\ down = <<>>
    /\ proc = "none" /\ linked = FALSE /\ signalled = FALSE
    /\ stubborn \in BOOLEAN
    /\ pending = {} /\ served = [id \in 1..MaxRequests |-> NoFrame] /\ chatter = 0

-----------------------------------------------------------------------------
(* _StdioTransport *)

\* Popen; a failure is raised before there is anything to close.
Spawn ==
    /\ pc = "spawn"
    /\ proc' = "running" /\ linked' = TRUE /\ pc' = "send"
    /\ UNCHANGED <<req, tools, outcome, late, buf, up, down, stubborn, signalled, pending, served,
                   chatter>>

SpawnFails ==
    /\ pc = "spawn"
    /\ outcome' = "spawn_failed" /\ pc' = "over"
    /\ UNCHANGED <<req, tools, late, buf, up, down, child>>

\* The try block is left with a result or an exception: the finally clause is next.
Finish(result) == outcome' = result /\ pc' = "close"

\* send: waits while the pipe is full, whatever the deadline.
Send ==
    /\ pc = "send" /\ linked /\ Len(up) < PipeCapacity
    /\ up' = Append(up, req)
    /\ pc' = "receive"
    /\ UNCHANGED <<req, tools, outcome, late, buf, down, child>>

\* notifications/initialized has no id; 0 stands for it.
Notify ==
    /\ pc = "notify" /\ linked /\ Len(up) < PipeCapacity
    /\ up' = Append(up, 0)
    /\ pc' = "send" /\ req' = 2
    /\ UNCHANGED <<tools, outcome, late, buf, down, child>>

SendFails ==
    /\ pc \in {"send", "notify"} /\ ~linked
    /\ Finish("truncated_response")
    /\ UNCHANGED <<req, tools, late, buf, up, down, child>>

\* _read_line looks at the clock and the pipe only when it has no complete line.
Starved == pc = "receive" /\ buf = <<>>

\* os.read: as much of what is there as it likes.
ReadChunk(k) ==
    /\ Starved /\ ~late
    /\ buf' = SubSeq(down, 1, k) /\ down' = SubSeq(down, k + 1, Len(down))
    /\ UNCHANGED <<client, late, up, child>>

Eof ==
    /\ Starved /\ ~late /\ down = <<>> /\ ~linked
    /\ Finish("truncated_response")
    /\ UNCHANGED <<req, tools, late, buf, up, down, child>>

\* Mutant: what was gathered before the deadline is returned.
Timeout_Partial ==
    /\ Starved /\ late
    /\ Finish(IF tools = <<>> THEN "timeout" ELSE "ok")
    /\ UNCHANGED <<req, tools, late, buf, up, down, child>>

Timeout ==
    /\ Starved /\ late
    /\ Finish("timeout")
    /\ UNCHANGED <<req, tools, late, buf, up, down, child>>

-----------------------------------------------------------------------------
(* receive and request *)

Frame == Head(buf)
Took == pc = "receive" /\ buf # <<>> /\ buf' = Tail(buf)

Mine == Frame.id = req

Skip ==
    /\ Took
    /\ Frame.type \in {"result", "no_proto", "not_object", "error", "bad_error", "neither", "note"}
    /\ ~Mine
    /\ UNCHANGED <<client, late, up, down, child>>

\* What is wrong with a frame, whoever it is for, and with an answer to this request.
FrameFault ==
    CASE Frame.type = "not_json" -> "malformed_json"
      [] Frame.type = "not_rpc"  -> "protocol_error"
      [] Frame.type = "not_utf8" -> "escaped"
      [] Mine /\ Frame.type \in {"error", "neither", "no_proto"} -> "protocol_error"
      [] Mine /\ Frame.type \in {"bad_error", "not_object"} -> "escaped"
      [] OTHER -> "none"

Fault ==
    /\ Took
    /\ FrameFault # "none"
    /\ Finish(FrameFault)
    /\ UNCHANGED <<req, tools, late, up, down, child>>

-----------------------------------------------------------------------------
(* discover *)

Initialized ==
    /\ Took
    /\ Mine /\ Frame.type = "result" /\ req = 1
    /\ pc' = "notify"
    /\ UNCHANGED <<req, tools, outcome, late, up, down, child>>

Announced(gathered) == {gathered[i] : i \in DOMAIN gathered}

\* What the loop over a page's entries raises at entry i.
EntryFault(entries, i) ==
    CASE entries[i] = NotAnObject -> "escaped"
      [] entries[i] = Nameless    -> "protocol_error"
      [] entries[i] \in Announced(tools \o SubSeq(entries, 1, i - 1)) -> "duplicate_tool"
      [] OTHER -> "none"

PageFault(page) ==
    LET wrong == {i \in DOMAIN page.tools : EntryFault(page.tools, i) # "none"}
    IN  IF ~page.array THEN "protocol_error"
        ELSE IF wrong = {} THEN "none" ELSE EntryFault(page.tools, Min(wrong))

GoodPage == Took /\ Mine /\ Frame.type = "result" /\ req > 1 /\ PageFault(Frame.page) = "none"

MorePages ==
    /\ GoodPage /\ Frame.page.cursor # "end"
    /\ tools' = tools \o Frame.page.tools
    /\ req' = req + 1 /\ pc' = "send"
    /\ UNCHANGED <<outcome, late, up, down, child>>

LastPage ==
    /\ GoodPage /\ Frame.page.cursor = "end"
    /\ tools' = tools \o Frame.page.tools
    /\ Finish("ok")
    /\ UNCHANGED <<req, late, up, down, child>>

BadPage ==
    /\ Took /\ Mine /\ Frame.type = "result" /\ req > 1 /\ PageFault(Frame.page) # "none"
    /\ Finish(PageFault(Frame.page))
    /\ UNCHANGED <<req, tools, late, up, down, child>>

\* close: SIGTERM, two seconds, SIGKILL.
Close ==
    /\ pc = "close"
    /\ signalled' = TRUE /\ pc' = "wait"
    /\ UNCHANGED <<req, tools, outcome, late, buf, up, down, proc, linked, stubborn, pending, served,
                   chatter>>

\* Mutant: wait() without a limit.
Kill_Never == FALSE

Kill ==
    /\ pc = "wait" /\ proc = "running"
    /\ proc' = "exited" /\ linked' = FALSE
    /\ UNCHANGED <<client, late, buf, up, down, stubborn, signalled, pending, served, chatter>>

Reap ==
    /\ pc = "wait" /\ proc = "exited"
    /\ proc' = "reaped" /\ pc' = "over"
    /\ UNCHANGED <<req, tools, outcome, late, buf, up, down, linked, stubborn, signalled, pending,
                   served, chatter>>

-----------------------------------------------------------------------------
(* The clock and the child *)

Deadline ==
    /\ pc # "over" /\ ~late
    /\ late' = TRUE
    /\ UNCHANGED <<client, buf, up, down, child>>

Serving == proc = "running" /\ linked

ChildReads ==
    /\ Serving /\ up # <<>>
    /\ up' = Tail(up)
    /\ pending' = IF Head(up) = 0 THEN pending ELSE pending \union {Head(up)}
    /\ UNCHANGED <<client, late, buf, down, proc, linked, stubborn, signalled, served, chatter>>

Answer(id, type, page) ==
    [type |-> type, id |-> id, page |-> IF type = "result" /\ id > 1 THEN page ELSE NoPage]

ChildAnswers(id, type, page) ==
    /\ Serving /\ id \in pending /\ id <= MaxRequests
    /\ type = "no_proto" => id = 1
    /\ pending' = pending \ {id}
    /\ down' = Append(down, Answer(id, type, page))
    /\ served' = [served EXCEPT ![id] = Answer(id, type, page)]
    /\ UNCHANGED <<client, late, buf, up, proc, linked, stubborn, signalled, chatter>>

\* A second answer, perhaps another one, to a request it has answered.
ChildRepeats(id, page) ==
    /\ Serving /\ chatter < MaxChatter
    /\ served[id] # NoFrame
    /\ chatter' = chatter + 1
    /\ down' = Append(down, Answer(id, "result", page))
    /\ UNCHANGED <<client, late, buf, up, proc, linked, stubborn, signalled, pending, served>>

ChildChatters(type) ==
    /\ Serving /\ chatter < MaxChatter
    /\ chatter' = chatter + 1
    /\ down' = Append(down, [NoFrame EXCEPT !.type = type])
    /\ UNCHANGED <<client, late, buf, up, proc, linked, stubborn, signalled, pending, served>>

ChildHangsUp ==
    /\ Serving
    /\ linked' = FALSE
    /\ UNCHANGED <<client, late, buf, up, down, proc, stubborn, signalled, pending, served, chatter>>

\* Of its own accord, or because of the signal.
ChildExits ==
    /\ proc = "running" /\ (signalled => ~stubborn)
    /\ proc' = "exited" /\ linked' = FALSE
    /\ UNCHANGED <<client, late, buf, up, down, stubborn, signalled, pending, served, chatter>>

-----------------------------------------------------------------------------
Read == (\E k \in 1..Len(down) : ReadChunk(k)) \/ Eof \/ Timeout

Work == \/ Spawn \/ SpawnFails \/ Send \/ Notify \/ SendFails \/ Read \/ Skip \/ Fault
        \/ Initialized \/ MorePages \/ LastPage \/ BadPage \/ Close \/ Kill \/ Reap

Child ==
    \/ ChildReads \/ ChildHangsUp \/ ChildExits
    \/ \E id \in pending, type \in AnswerTypes, page \in Pages : ChildAnswers(id, type, page)
    \/ \E id \in 1..MaxRequests, page \in Pages : ChildRepeats(id, page)
    \/ \E type \in ChatterTypes : ChildChatters(type)

Next == Work \/ Deadline \/ Child

\* The thread runs and the clock moves; the child owes nothing.
Spec == Init /\ [][Next]_vars /\ WF_vars(Work) /\ WF_vars(Deadline)

-----------------------------------------------------------------------------
(* Properties *)

\* The tools of the pages the child served for the list requests so far, in order.
ServedTools == FlattenSeq([i \in 1..req - 1 |-> served[i + 1].page.tools])

\* discover: the complete tool list or an error, never a partial catalog.  What it returns
\* is what the child served, page after page up to the one without a cursor, no name
\* twice, however often the child repeated or contradicted itself; and a child that only
\* repeats an answer is not accused of announcing a name twice (FAULT_KINDS, duplicate_tool).
ResultIsComplete ==
    /\ outcome = "ok" => /\ tools = ServedTools
                         /\ served[req].type = "result" /\ served[req].page.cursor = "end"
                         /\ IsInjective(tools)
    /\ outcome = "duplicate_tool" => ~IsInjective(ServedTools)

\* send has no deadline.
Blocked == pc \in {"send", "notify"} /\ linked /\ Len(up) = PipeCapacity

\* "Never blocks past the deadline", and close(): every discovery comes to its end with no
\* process left behind, unless the child stops reading with its pipe full.
EndsWithoutChild == <>[]Blocked \/ <>[](pc = "over" /\ proc \in {"none", "reaped"})
=============================================================================
