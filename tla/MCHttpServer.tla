---------------------------- MODULE MCHttpServer ----------------------------
(* Instances of HttpServer for TLC. *)
EXTENDS HttpServer

CONSTANTS c1, c2, k1, k2

\* Two connections of one client, and one each of two.
SomeAddresses == {[c \in Conns |-> k1], [c \in Conns |-> IF c = c1 THEN k1 ELSE k2]}

Request(auth, reads, body, length) ==
    [auth |-> auth, reads |-> reads, ingests |-> FALSE, body |-> body, length |-> length]

\* A body at the limit; an ingest; a body over the limit; a chunked body without the token; a
\* Content-Length that is not a number.  Each of them also meets the limiter.
SomeRequests ==
    {Request(TRUE, TRUE, 1, 1), [Request(TRUE, TRUE, 0, 0) EXCEPT !.ingests = TRUE],
     Request(TRUE, TRUE, 2, 2), Request(FALSE, TRUE, 1, 0), Request(TRUE, TRUE, 1, Garbled)}
=============================================================================
