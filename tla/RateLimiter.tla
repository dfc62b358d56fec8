---------------------------- MODULE RateLimiter ----------------------------
(***************************************************************************)
(* server.py's _RateLimiter: per client key the instants of the requests   *)
(* it admitted, trimmed at the front, and swept for idle keys once a       *)
(* window.  check is one step under the limiter's lock, but the instant it *)
(* works with was read by its thread before the lock was taken.            *)
(***************************************************************************)
EXTENDS Integers, Sequences, Functions, FiniteSetsExt

CONSTANTS
    Keys,
    PerWindow,   \* per_window of an enabled limiter
    Window,      \* the window, in ticks of the clock
    Second       \* the ticks of a second: a wait need not be a whole number of seconds

ASSUME WindowAssumption == {PerWindow, Window, Second} \subseteq Nat \ {0}

VARIABLES
    hits,        \* _hits: a deque of instants for some of the keys
    lastSweep    \* _last_sweep

limiterVars == <<hits, lastSweep>>

LimiterInit == hits = [k \in {} |-> <<>>] /\ lastSweep = 0

\* Hits are dropped from the front only: an old one behind a newer one stays.
Trim(deque, cutoff) ==
    LET kept == {i \in DOMAIN deque : deque[i] >= cutoff}
    IN  IF kept = {} THEN <<>> ELSE SubSeq(deque, Min(kept), Len(deque))

\* Mutant: the sweep only removes deques that are already empty.
Swept_NoTrim(h, cutoff) ==
    Restrict(h, {k \in DOMAIN h : h[k] # <<>>})

Swept(h, cutoff) ==
    [k \in {j \in DOMAIN h : Trim(h[j], cutoff) # <<>>} |-> Trim(h[k], cutoff)]

SweepDue(now) == now - lastSweep >= Window

\* The deque check finds for the key, after the sweep and its own trim.
Recent(key, now) ==
    LET cutoff == now - Window
        h == IF SweepDue(now) THEN Swept(hits, cutoff) ELSE hits
    IN  IF key \in DOMAIN h THEN Trim(h[key], cutoff) ELSE <<>>

\* Mutant: one request too many.
Full_OffByOne(key, now) == Len(Recent(key, now)) > PerWindow

Full(key, now) == Len(Recent(key, now)) >= PerWindow

\* What check returns as the wait of a client that it turns away.
Retry(key, now) ==
    LET retry == Window - (now - Head(Recent(key, now))) IN IF retry < 0 THEN 0 ELSE retry

\* Mutant: the seconds are only cut off.
RetryAfter_Truncated(key, now) == (Retry(key, now) \div Second) * Second

\* The Retry-After header, in ticks: int() cuts the wait down to whole seconds, and one more
\* is added.
RetryAfter(key, now) == ((Retry(key, now) \div Second) + 1) * Second

\* check(key) with the clock read at now; the caller is admitted unless the window is full.
Check(key, now, admitted) ==
    LET h == IF SweepDue(now) THEN Swept(hits, now - Window) ELSE hits
        mine == IF admitted THEN Append(Recent(key, now), now) ELSE Recent(key, now)
    IN  /\ admitted = ~Full(key, now)
        /\ hits' = [k \in DOMAIN h \union {key} |-> IF k = key THEN mine ELSE h[k]]
        /\ lastSweep' = IF SweepDue(now) THEN now ELSE lastSweep
=============================================================================
