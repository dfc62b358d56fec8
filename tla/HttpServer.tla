----------------------------- MODULE HttpServer -----------------------------
(***************************************************************************)
(* The HTTP front: one thread for each connection, which takes its keep-   *)
(* alive requests one after the other through the rate limiter, the bearer *)
(* token and the per-server lock to a route.  The length of a body is      *)
(* counted in units of which _MAX_BODY has MaxBody; the server goes by the *)
(* Content-Length alone, which need not be the length of the body.         *)
(***************************************************************************)
EXTENDS RateLimiter

CONSTANTS
    Conns, None, Garbled,
    Addresses,    \* client addresses the connections may have, as functions from Conns to Keys
    Requests,     \* records [auth, reads, ingests, body, length]: the token is right, the
                  \* route reads a body, the route is the one that runs a discovery, the
                  \* length of the body that follows the head, and the Content-Length: 0
                  \* without one (a chunked body), Garbled when int() raises
    MaxBody,
    MaxRequests,  \* bound: requests read, on all connections
    MaxTime,      \* bound: the clock
    MaxLag        \* bound: ticks between a thread's reading of the clock and the limiter's lock

ASSUME BoundsAssumption ==
    /\ None \notin Conns /\ Garbled \notin Int /\ Addresses \subseteq [Conns -> Keys]
    /\ {MaxBody, MaxRequests, MaxTime, MaxLag} \subseteq Nat
    /\ Requests \subseteq [auth : BOOLEAN, reads : BOOLEAN, ingests : BOOLEAN,
                           body : Nat, length : Int \union {Garbled}]

VARIABLES
    now,      \* time.monotonic
    key,      \* the client address of each connection
    pc,       \* per connection: where its thread is
    req,      \* per connection: the request being handled
    stamp,    \* per connection: the instant check was called with
    left,     \* per connection: bytes of an earlier body are still unread
    count,    \* requests read
    lock,     \* the handler that holds the per-server lock
    \* history
    admitted, \* per key: when the limiter admitted its requests
    promise,  \* per key: the instant Retry-After named, until it is admitted again
    latest,   \* the latest instant check was called with
    polite,   \* connections whose bodies are announced, expected and not far over the limit
    misread   \* connections on which a body was parsed as a request

threads == <<pc, req, left, count, polite>>
history == <<admitted, promise, latest>>
vars == <<limiterVars, now, key, threads, stamp, lock, history, misread>>

-----------------------------------------------------------------------------
NoRequest == [auth |-> FALSE, reads |-> FALSE, ingests |-> FALSE, body |-> 0, length |-> 0]

Init ==
    /\ LimiterInit
    /\ now = 0 /\ lock = None
    /\ key \in Addresses
    /\ pc = [c \in Conns |-> "idle"] /\ req = [c \in Conns |-> NoRequest]
    /\ stamp = [c \in Conns |-> 0]
    /\ left = [c \in Conns |-> FALSE] /\ count = 0
    /\ admitted = [k \in Keys |-> <<>>] /\ promise = [k \in Keys |-> None] /\ latest = 0
    /\ polite = Conns /\ misread = {}

Go(c, label) == pc' = [pc EXCEPT ![c] = label]

\* The thread waits for the next request of the connection.
Idle(c) == Go(c, "idle") /\ req' = [req EXCEPT ![c] = NoRequest]

Close(c) == Go(c, "closed") /\ req' = [req EXCEPT ![c] = NoRequest]

\* What int() makes of the Content-Length, when it does not raise.
Length(r) == IF r.length = Garbled THEN 0 ELSE r.length

\* The part of a body that _drain_body reads: it stops one byte past the limit.
Drained(r) == IF Length(r) < 0 THEN 0 ELSE IF Length(r) > MaxBody THEN MaxBody + 1 ELSE Length(r)

Polite(r) == r.length = r.body /\ (r.body > 0 => r.reads) /\ r.body <= MaxBody + 1

\* A request line and its headers; then check reads the clock.
ReadRequest(c, r) ==
    /\ pc[c] = "idle" /\ ~left[c] /\ count < MaxRequests
    /\ req' = [req EXCEPT ![c] = r] /\ count' = count + 1
    /\ stamp' = [stamp EXCEPT ![c] = now]
    /\ polite' = IF Polite(r) THEN polite ELSE polite \ {c}
    /\ Go(c, "limit")
    /\ UNCHANGED <<limiterVars, now, key, left, lock, history, misread>>

\* http.server takes the rest of a body for a request line: a 400, and the connection is
\* closed, unless it reads like a request.
Misread(c) ==
    /\ pc[c] = "idle" /\ left[c]
    /\ misread' = misread \union {c}
    /\ left' = [left EXCEPT ![c] = FALSE]
    /\ Close(c) \/ Idle(c)
    /\ UNCHANGED <<limiterVars, now, key, stamp, count, polite, lock, history>>

\* The limiter, then the token; a request that fails either is rejected with its body read.
Limit(c) ==
    LET k == key[c]
    IN  /\ pc[c] = "limit"
        /\ latest' = Max({latest, stamp[c]})
        /\ \/ /\ Check(k, stamp[c], TRUE)
              /\ Go(c, IF req[c].auth THEN "lock" ELSE "drain")
              /\ admitted' = [admitted EXCEPT ![k] = Append(@, now)]
              /\ promise' = [promise EXCEPT ![k] = None]
           \/ /\ Check(k, stamp[c], FALSE)
              /\ Go(c, "drain")
              /\ promise' = [promise EXCEPT ![k] = stamp[c] + RetryAfter(k, stamp[c])]
              /\ UNCHANGED admitted
        /\ stamp' = [stamp EXCEPT ![c] = 0]
        /\ UNCHANGED <<now, key, req, left, count, polite, lock, misread>>

\* _drain_body, once the client has sent what it reads, then the 401 or the 429.
Drain(c) ==
    /\ pc[c] = "drain" /\ req[c].length # Garbled /\ Drained(req[c]) <= req[c].body
    /\ left' = [left EXCEPT ![c] = req[c].body > Drained(req[c])]
    /\ Idle(c)
    /\ UNCHANGED <<limiterVars, now, key, stamp, count, polite, lock, history, misread>>

\* Outside of any try, so that the ValueError of int() ends the thread and its connection.
DrainFails(c) ==
    /\ pc[c] = "drain" /\ req[c].length = Garbled
    /\ Close(c)
    /\ UNCHANGED <<limiterVars, now, key, stamp, left, count, polite, lock, history, misread>>

Oversized(r) == r.reads /\ Length(r) > MaxBody

\* Mutant: the lock survives the exception.
TooLarge_KeepsLock(c) ==
    /\ pc[c] = "lock" /\ lock = None /\ Oversized(req[c])
    /\ lock' = c
    /\ Close(c)
    /\ UNCHANGED <<limiterVars, now, key, stamp, left, count, polite, history, misread>>

\* Mutant: the connection is kept alive after a 413.
TooLarge_NoClose(c) ==
    /\ pc[c] = "lock" /\ lock = None /\ Oversized(req[c])
    /\ left' = [left EXCEPT ![c] = TRUE]
    /\ Idle(c)
    /\ UNCHANGED <<limiterVars, now, key, stamp, count, polite, lock, history, misread>>

\* A 413: nothing is read, the lock is released on the way out and the connection closed.
TooLarge(c) ==
    /\ pc[c] = "lock" /\ lock = None /\ Oversized(req[c])
    /\ Close(c)
    /\ UNCHANGED <<limiterVars, now, key, stamp, left, count, polite, lock, history, misread>>

\* A 500 for the ValueError of int(): nothing is read, and the connection is kept.
BadLength(c) ==
    /\ pc[c] = "lock" /\ lock = None /\ req[c].reads /\ req[c].length = Garbled
    /\ left' = [left EXCEPT ![c] = req[c].body > 0]
    /\ Idle(c)
    /\ UNCHANGED <<limiterVars, now, key, stamp, count, polite, lock, history, misread>>

\* What a route reads of the body.
Taken(r) == IF r.reads THEN Length(r) ELSE 0

\* The lock is taken; a route that reads the body waits for it, any other one leaves it.
Enter(c) ==
    /\ pc[c] = "lock" /\ lock = None /\ ~Oversized(req[c])
    /\ req[c].reads => req[c].length # Garbled
    /\ lock' = c
    /\ Go(c, IF Taken(req[c]) # 0 THEN "body" ELSE "handle")
    /\ left' = [left EXCEPT ![c] = req[c].body > Taken(req[c])]
    /\ UNCHANGED <<limiterVars, now, key, req, stamp, count, polite, history, misread>>

\* rfile.read returns: the client has sent what was announced.  (With a negative length it
\* returns at the end of the stream.)
BodyArrives(c) ==
    /\ pc[c] = "body" /\ Length(req[c]) \in 0..req[c].body
    /\ Go(c, "handle")
    /\ UNCHANGED <<limiterVars, now, key, req, stamp, left, count, polite, lock, history,
                   misread>>

\* The service's answer or its exception, a 400 for a bad body, a 404: the lock is released
\* and the answer written.  An ingest ends when its discovery does, which is up to the server
\* it talks to: the write of a request has no deadline (module McpDiscovery).
Handle(c) ==
    /\ pc[c] = "handle"
    /\ lock' = None
    /\ Idle(c)
    /\ UNCHANGED <<limiterVars, now, key, stamp, left, count, polite, history, misread>>

\* The client closes the connection in the middle of a body, whose read ends with what there
\* is; one that closes it between requests is one that sends no other.
HangUp(c) ==
    /\ pc[c] \in {"drain", "body"} /\ Length(req[c]) # 0
    /\ lock' = IF lock = c THEN None ELSE lock
    /\ Close(c)
    /\ UNCHANGED <<limiterVars, now, key, stamp, left, count, polite, history, misread>>

Tick ==
    /\ now < MaxTime
    /\ \A c \in Conns : pc[c] = "limit" => now - stamp[c] < MaxLag
    /\ now' = now + 1
    /\ UNCHANGED <<limiterVars, key, threads, stamp, lock, history, misread>>

-----------------------------------------------------------------------------
ThreadStep(c) ==
    \/ Misread(c) \/ Limit(c) \/ DrainFails(c) \/ TooLarge(c) \/ BadLength(c) \/ Enter(c)
    \/ Drained(req[c]) = 0 /\ Drain(c)
    \/ ~req[c].ingests /\ Handle(c)

\* What waits for the client or for a server that is being ingested.
PeerStep(c) ==
    \/ \E r \in Requests : ReadRequest(c, r)
    \/ Drained(req[c]) # 0 /\ Drain(c)
    \/ BodyArrives(c) \/ HangUp(c)
    \/ req[c].ingests /\ Handle(c)

Next == Tick \/ \E c \in Conns : ThreadStep(c) \/ PeerStep(c)

\* Threads run; clients need not send anything more, nor servers answer.
Fairness == \A c \in Conns : WF_vars(ThreadStep(c))

Spec == Init /\ [][Next]_vars /\ Fairness

-----------------------------------------------------------------------------
(* Properties *)

\* SERVICE.md, "caps requests per rolling window per client IP": the limiter's clock is read
\* before its lock is taken, so the cap holds for windows that are shorter by that delay.
\* In any of them, no client has more than PerWindow requests admitted, whichever threads
\* sweep or trim in between.
BurstIsBounded ==
    \A k \in Keys : \A i \in DOMAIN admitted[k] :
        i + PerWindow \in DOMAIN admitted[k] =>
            admitted[k][i + PerWindow] - admitted[k][i] > Window - MaxLag

\* _sweep, "O(active clients)": a client that stopped coming is forgotten.  Every deque kept
\* has a hit from the last two windows before the latest request, whoever made it.
IdleClientsAreForgotten ==
    \A k \in DOMAIN hits : \E i \in DOMAIN hits[k] : hits[k][i] > latest - 2 * Window

\* A client that was told Retry-After, in whole seconds, and that comes back when they are over
\* or later, with nothing admitted in between, is not turned away again.
RetryAfterIsHonoured ==
    [][\A c \in Conns :
          /\ pc[c] = "limit" /\ pc'[c] # "limit"
          /\ promise[key[c]] # None /\ promise'[key[c]] # None
          => stamp[c] < promise[key[c]]]_vars

\* _drain_body and the 413's close_connection: on a connection that announces the length of
\* its bodies in Content-Length, sends them only where one is read, and none more than a byte
\* over the limit, no body is taken for a request.  (A chunked body is taken for one, and so are
\* the body of a request that got a 500 for its Content-Length and what _drain_body leaves.)
PoliteConnectionsStayInSync == polite \cap misread = {}

\* A handler that waits for the lock gets it, however requests before it end.  Only a peer
\* that is waited for under the lock holds everybody up: a client that stops in the middle of a
\* body, or a server that is being ingested and stops reading.
OnlyAStalledPeerBlocks ==
    \A c \in Conns :
        \/ pc[c] = "lock" ~> pc[c] # "lock"
        \/ <>[](\E d \in Conns :
                   lock = d /\ (pc[d] = "body" \/ (pc[d] = "handle" /\ req[d].ingests)))
=============================================================================
