-------------------------- MODULE HttpServerProofs --------------------------
(***************************************************************************)
(* Theorems about HttpServer and its RateLimiter, for every number of      *)
(* connections and clients, every limit and window, and every delay        *)
(* between a thread's reading of the clock and its turn at the limiter.    *)
(*                                                                         *)
(* The argument: whichever threads trim or sweep it, a client's deque      *)
(* holds the stamps of the last requests it had admitted, and an admitted  *)
(* request that is no longer in the deque is at least a window old         *)
(* (WindowInv); a deque that is full still starts with the hit whose age   *)
(* Retry-After was computed from, and whole seconds and one more outlast   *)
(* that hit's window (PromiseInv); and a deque that survived the last      *)
(* sweep has a hit that sweep found young enough (SweepInv).               *)
(***************************************************************************)
EXTENDS HttpServer, WellFoundedInduction, SequenceTheorems, TLAPS

Request == [auth : BOOLEAN, reads : BOOLEAN, ingests : BOOLEAN, body : Nat,
            length : Int \union {Garbled}]

Labels == {"idle", "limit", "drain", "lock", "body", "handle", "closed"}

TypeOK ==
    /\ {now, latest, lastSweep, count} \subseteq Nat
    /\ key \in [Conns -> Keys]
    /\ pc \in [Conns -> Labels] /\ req \in [Conns -> Request]
    /\ stamp \in [Conns -> Nat] /\ left \in [Conns -> BOOLEAN]
    /\ DOMAIN hits \subseteq Keys /\ hits \in [DOMAIN hits -> Seq(Nat)]
    /\ admitted \in [Keys -> Seq(Nat)]
    /\ promise \in [Keys -> Int \union {None}]

\* What a connection that sends no unexpected body has behind it.
SyncInv ==
    \A c \in polite \cap Conns : Polite(req[c]) /\ ~left[c] /\ c \notin misread

\* A thread works with an instant at most MaxLag old; the limiter has seen no later one
\* than the clock's.
ClockInv ==
    /\ lastSweep <= now
    /\ \A c \in Conns : pc[c] = "limit" => stamp[c] <= now /\ now - stamp[c] <= MaxLag

\* The hits of a key in the table h, whether or not it has a deque there.
DequeOf(h, k) == IF k \in DOMAIN h THEN h[k] ELSE <<>>

Deque(k) == DequeOf(hits, k)

\* The deque d is the end of the list a of admissions, each at most MaxLag after its hit; the
\* admissions before it are more than a window old, but for that delay.
Covers(a, d, t) ==
    /\ Len(d) <= Len(a)
    /\ \A i \in 1..Len(d) : a[Len(a) - Len(d) + i] <= d[i] + MaxLag
    /\ \A i \in 1..(Len(a) - Len(d)) : a[i] < t - Window + MaxLag

Spread(a) ==
    \A i \in 1..Len(a) :
        i + PerWindow \in 1..Len(a) => a[i + PerWindow] - a[i] > Window - MaxLag

WindowInv ==
    \A k \in Keys :
        /\ Len(Deque(k)) <= PerWindow
        /\ Covers(admitted[k], Deque(k), now)
        /\ Spread(admitted[k])

\* Until a client that was turned away is admitted again, its deque has room or ends its
\* oldest hit's window before the instant that was promised.
PromiseInv ==
    \A k \in Keys :
        promise[k] # None =>
            Len(Deque(k)) < PerWindow \/ Deque(k)[1] + Window < promise[k]

\* Every deque has a hit that the last sweep, or a later one at its time, would have kept.
SweepInv ==
    /\ latest < lastSweep + Window
    /\ \A k \in DOMAIN hits :
          \E i \in 1..Len(hits[k]) : hits[k][i] >= lastSweep - Window

-----------------------------------------------------------------------------
(* The deque *)

\* Every nonempty set of natural numbers has a least element.
LEMMA LeastElement ==
    ASSUME NEW S, S \subseteq Nat, S # {}
    PROVE  /\ Min(S) \in S /\ Min(S) \in Nat
           /\ \A y \in S : Min(S) <= y
<1>1. IsWellFoundedOn(OpToRel(<, Nat), Nat)
  BY NatLessThanWellFounded
<1>2. \E x \in S : \A y \in S : <<y, x>> \notin OpToRel(<, Nat)
  <2> HIDE DEF OpToRel
  <2>1. QED BY <1>1, WFMin
<1>3. PICK x \in S : \A y \in S : <<y, x>> \notin OpToRel(<, Nat)
  BY <1>2
<1>4. ASSUME NEW y \in S PROVE x <= y
  <2>1. x \in Nat /\ y \in Nat
    OBVIOUS
  <2>2. y < x => <<y, x>> \in OpToRel(<, Nat)
    BY <2>1, Zenon DEF OpToRel
  <2>3. ~(y < x)
    BY <1>3, <2>2, Zenon
  <2>4. QED BY <2>1, <2>3
<1>5. QED BY <1>3, <1>4 DEF Min

\* t is what is left of d once hits before the cutoff are dropped from the front.
TrimOf(d, t, cutoff) ==
    /\ t \in Seq(Nat) /\ Len(t) <= Len(d)
    /\ \A i \in 1..Len(t) : t[i] = d[Len(d) - Len(t) + i]
    /\ \A i \in 1..(Len(d) - Len(t)) : d[i] < cutoff
    /\ Len(t) > 0 => t[1] >= cutoff

LEMMA TrimIsTrim ==
    ASSUME NEW d \in Seq(Nat), NEW cutoff \in Int
    PROVE  TrimOf(d, Trim(d, cutoff), cutoff)
<1> DEFINE kept == {i \in DOMAIN d : d[i] >= cutoff}
<1>1. CASE kept = {}
  <2>1. Trim(d, cutoff) = <<>>
    BY <1>1 DEF Trim
  <2>2. \A i \in 1..Len(d) : d[i] < cutoff
    BY <1>1
  <2>3. QED BY <2>1, <2>2 DEF TrimOf
<1>2. CASE kept # {}
  <2>1. kept \subseteq Nat
    OBVIOUS
  <2>2. PICK m \in kept : m = Min(kept) /\ \A y \in kept : m <= y
    BY <1>2, <2>1, LeastElement
  <2>3. Trim(d, cutoff) = SubSeq(d, m, Len(d))
    BY <1>2, <2>2 DEF Trim
  <2>4. m \in 1..Len(d) /\ d[m] >= cutoff
    BY <2>2
  <2>5. \A i \in 1..(m - 1) : d[i] < cutoff
    <3>1. ASSUME NEW i \in 1..(m - 1) PROVE d[i] < cutoff
      <4>1. i \in DOMAIN d /\ i < m /\ d[i] \in Nat
        BY <2>4
      <4>2. i \notin kept
        <5> HIDE DEF kept
        <5>1. ~(m <= i)
          BY <2>4, <4>1
        <5>2. QED BY <2>2, <5>1, Zenon
      <4>3. QED BY <4>1, <4>2
    <3>2. QED BY <3>1
  <2>6. /\ SubSeq(d, m, Len(d)) \in Seq(Nat)
        /\ Len(SubSeq(d, m, Len(d))) = Len(d) - m + 1
        /\ \A i \in 1..(Len(d) - m + 1) : SubSeq(d, m, Len(d))[i] = d[m + i - 1]
    BY <2>4
  <2>7. Len(d) - (Len(d) - m + 1) = m - 1 /\ Len(d) - m + 1 <= Len(d) /\ Len(d) - m + 1 > 0
    BY <2>4
  <2>8. PICK t : t = SubSeq(d, m, Len(d))
    OBVIOUS
  <2>9. /\ t \in Seq(Nat) /\ Len(t) = Len(d) - m + 1 /\ Len(d) - Len(t) = m - 1
        /\ \A i \in 1..Len(t) : t[i] = d[m + i - 1]
    BY <2>4, <2>6, <2>8
  <2>10. \A i \in 1..Len(t) : t[i] = d[Len(d) - Len(t) + i]
    <3>1. \A i \in 1..Len(t) : m + i - 1 = Len(d) - Len(t) + i
      BY <2>4, <2>9
    <3>2. QED BY <2>9, <3>1
  <2>11. t[1] = d[m]
    BY <2>4, <2>9
  <2>12. TrimOf(d, t, cutoff)
    BY <2>4, <2>5, <2>7, <2>9, <2>10, <2>11 DEF TrimOf
  <2>13. QED BY <2>3, <2>8, <2>12
<1>3. QED BY <1>1, <1>2

\* Trimming twice at one cutoff is trimming once.
LEMMA TrimTwice ==
    ASSUME NEW d \in Seq(Nat), NEW t, NEW u, NEW cutoff \in Int,
           TrimOf(d, t, cutoff), TrimOf(t, u, cutoff)
    PROVE  TrimOf(d, u, cutoff)
<1>1. /\ t \in Seq(Nat) /\ u \in Seq(Nat) /\ Len(d) \in Nat /\ Len(t) \in Nat /\ Len(u) \in Nat
      /\ Len(u) <= Len(t) /\ Len(t) <= Len(d)
  BY DEF TrimOf
<1>2. ASSUME NEW i \in 1..Len(u) PROVE u[i] = d[Len(d) - Len(u) + i]
  <2>1. u[i] = t[Len(t) - Len(u) + i] /\ Len(t) - Len(u) + i \in 1..Len(t)
    BY <1>1, <1>2 DEF TrimOf
  <2>2. t[Len(t) - Len(u) + i] = d[Len(d) - Len(t) + (Len(t) - Len(u) + i)]
    BY <2>1 DEF TrimOf
  <2>3. Len(d) - Len(t) + (Len(t) - Len(u) + i) = Len(d) - Len(u) + i
    BY <1>1, <1>2
  <2>4. QED BY <2>1, <2>2, <2>3
<1>3. ASSUME NEW i \in 1..(Len(d) - Len(u)) PROVE d[i] < cutoff
  <2>1. CASE i <= Len(d) - Len(t)
    <3>1. i \in 1..(Len(d) - Len(t))
      BY <1>1, <1>3, <2>1
    <3>2. QED BY <3>1 DEF TrimOf
  <2>2. CASE i > Len(d) - Len(t)
    <3>1. PICK j \in 1..(Len(t) - Len(u)) : Len(d) - Len(t) + j = i
      <4>1. /\ i - (Len(d) - Len(t)) \in 1..(Len(t) - Len(u))
            /\ Len(d) - Len(t) + (i - (Len(d) - Len(t))) = i
        BY <1>1, <1>3, <2>2
      <4>2. QED BY <4>1
    <3>2. t[j] < cutoff /\ j \in 1..Len(t)
      <4>1. t[j] < cutoff
        BY DEF TrimOf
      <4>2. j \in 1..Len(t)
        BY <1>1
      <4>3. QED BY <4>1, <4>2
    <3>3. t[j] = d[Len(d) - Len(t) + j]
      BY <3>2 DEF TrimOf
    <3>4. QED BY <3>1, <3>2, <3>3
  <2>3. QED BY <1>1, <2>1, <2>2
<1>4. QED BY <1>1, <1>2, <1>3 DEF TrimOf

LEMMA EmptyTrim ==
    ASSUME NEW cutoff \in Int
    PROVE  TrimOf(<<>>, <<>>, cutoff)
BY DEF TrimOf

\* The table of deques is a function from some of the keys to sequences.
TableOK(h) == DOMAIN h \subseteq Keys /\ h \in [DOMAIN h -> Seq(Nat)]

LEMMA DequeType ==
    ASSUME NEW h, TableOK(h), NEW k
    PROVE  DequeOf(h, k) \in Seq(Nat)
BY DEF TableOK, DequeOf

\* _sweep trims every deque and forgets the empty ones.
LEMMA SweptFacts ==
    ASSUME NEW h, TableOK(h), NEW cutoff \in Int
    PROVE  /\ TableOK(Swept(h, cutoff))
           /\ \A k : TrimOf(DequeOf(h, k), DequeOf(Swept(h, cutoff), k), cutoff)
           /\ \A k \in DOMAIN Swept(h, cutoff) : DequeOf(Swept(h, cutoff), k) # <<>>
<1> DEFINE w == Swept(h, cutoff)
<1>1. /\ DOMAIN w = {j \in DOMAIN h : Trim(h[j], cutoff) # <<>>}
      /\ w = [j \in DOMAIN w |-> Trim(h[j], cutoff)]
  BY DEF Swept
<1>2. ASSUME NEW j \in DOMAIN h
      PROVE  Trim(h[j], cutoff) \in Seq(Nat) /\ TrimOf(h[j], Trim(h[j], cutoff), cutoff)
  <2>1. h[j] \in Seq(Nat)
    BY DEF TableOK
  <2>2. TrimOf(h[j], Trim(h[j], cutoff), cutoff)
    BY <2>1, TrimIsTrim
  <2>3. QED BY <2>2 DEF TrimOf
<1> HIDE DEF w
<1>3. TableOK(w)
  BY <1>1, <1>2 DEF TableOK
<1>4. ASSUME NEW k PROVE TrimOf(DequeOf(h, k), DequeOf(w, k), cutoff)
  <2>1. CASE k \in DOMAIN w
    BY <1>1, <1>2, <2>1 DEF DequeOf
  <2>2. CASE k \in DOMAIN h \ DOMAIN w
    <3>1. Trim(h[k], cutoff) = <<>>
      BY <1>1, <2>2
    <3>2. QED BY <1>2, <2>2, <3>1 DEF DequeOf
  <2>3. CASE k \notin DOMAIN h
    <3>1. DequeOf(h, k) = <<>> /\ DequeOf(w, k) = <<>>
      BY <1>1, <2>3 DEF DequeOf
    <3>2. QED BY <3>1, EmptyTrim
  <2>4. QED BY <2>1, <2>2, <2>3
<1>5. \A k \in DOMAIN w : DequeOf(w, k) # <<>>
  BY <1>1 DEF DequeOf
<1>6. QED BY <1>3, <1>4, <1>5 DEF w

\* What check works with: a trim of the key's deque.
LEMMA RecentFacts ==
    ASSUME TableOK(hits), NEW k, NEW s \in Nat
    PROVE  TrimOf(Deque(k), Recent(k, s), s - Window)
<1> DEFINE h == IF SweepDue(s) THEN Swept(hits, s - Window) ELSE hits
           r == IF k \in DOMAIN h THEN Trim(h[k], s - Window) ELSE <<>>
<1>1. s - Window \in Int
  BY WindowAssumption
<1>2. TableOK(h) /\ (~SweepDue(s) => h = hits)
  BY <1>1, SweptFacts
<1>3. SweepDue(s) => TrimOf(Deque(k), DequeOf(h, k), s - Window)
  BY <1>1, SweptFacts DEF Deque
<1>4. TrimOf(DequeOf(h, k), r, s - Window)
  <2> HIDE DEF h
  <2>1. CASE k \in DOMAIN h
    BY <1>1, <1>2, <2>1, TrimIsTrim DEF DequeOf, TableOK
  <2>2. CASE k \notin DOMAIN h
    BY <1>1, <2>2, EmptyTrim DEF DequeOf
  <2>3. QED BY <2>1, <2>2
<1>5. Recent(k, s) = r
  BY Zenon DEF Recent
<1>6. Deque(k) \in Seq(Nat)
  BY DequeType DEF Deque
<1> HIDE DEF h, r
<1>7. CASE SweepDue(s)
  <2>1. TrimOf(Deque(k), r, s - Window)
    BY <1>1, <1>3, <1>4, <1>6, <1>7, TrimTwice
  <2>2. QED BY <1>5, <2>1
<1>8. CASE ~SweepDue(s)
  BY <1>2, <1>4, <1>5, <1>8 DEF Deque
<1>9. QED BY <1>7, <1>8

\* What one call of check does to the table.
LEMMA CheckFacts ==
    ASSUME TableOK(hits), NEW k \in Keys, NEW s \in Nat, NEW ok \in BOOLEAN, Check(k, s, ok)
    PROVE  /\ TableOK(hits')
           /\ ok <=> Len(Recent(k, s)) < PerWindow
           /\ k \in DOMAIN hits'
           /\ DequeOf(hits', k) = IF ok THEN Append(Recent(k, s), s) ELSE Recent(k, s)
           /\ \A j \in Keys \ {k} :
                /\ SweepDue(s) => /\ TrimOf(Deque(j), DequeOf(hits', j), s - Window)
                                  /\ j \in DOMAIN hits' => DequeOf(hits', j) # <<>>
                /\ ~SweepDue(s) => /\ DequeOf(hits', j) = Deque(j)
                                   /\ j \in DOMAIN hits' <=> j \in DOMAIN hits
           /\ lastSweep' = IF SweepDue(s) THEN s ELSE lastSweep
<1> DEFINE h == IF SweepDue(s) THEN Swept(hits, s - Window) ELSE hits
           mine == IF ok THEN Append(Recent(k, s), s) ELSE Recent(k, s)
<1>1. s - Window \in Int
  BY WindowAssumption
<1>2. /\ TableOK(h)
      /\ SweepDue(s) => /\ \A j : TrimOf(Deque(j), DequeOf(h, j), s - Window)
                        /\ \A j \in DOMAIN h : DequeOf(h, j) # <<>>
      /\ ~SweepDue(s) => h = hits
  BY <1>1, SweptFacts DEF Deque
<1>3. Recent(k, s) \in Seq(Nat)
  BY RecentFacts DEF TrimOf
<1>4. ok <=> Len(Recent(k, s)) < PerWindow
  <2>1. Len(Recent(k, s)) \in Nat /\ PerWindow \in Nat
    BY <1>3, WindowAssumption
  <2>2. ok <=> ~(Len(Recent(k, s)) >= PerWindow)
    BY Zenon DEF Check, Full
  <2>3. Len(Recent(k, s)) >= PerWindow <=> ~(Len(Recent(k, s)) < PerWindow)
    BY <2>1
  <2>4. QED BY <2>2, <2>3, Zenon
<1>5. mine \in Seq(Nat)
  BY <1>3
<1>6. /\ hits' = [j \in DOMAIN h \union {k} |-> IF j = k THEN mine ELSE h[j]]
      /\ lastSweep' = IF SweepDue(s) THEN s ELSE lastSweep
  BY Zenon DEF Check
<1> HIDE DEF h, mine
<1>7. TableOK(hits')
  BY <1>2, <1>5, <1>6 DEF TableOK
<1>8. k \in DOMAIN hits' /\ DequeOf(hits', k) = mine
  BY <1>6 DEF DequeOf
<1>9. ASSUME NEW j \in Keys \ {k}
      PROVE  DequeOf(hits', j) = DequeOf(h, j) /\ (j \in DOMAIN hits' <=> j \in DOMAIN h)
  BY <1>6 DEF DequeOf
<1>10. QED BY <1>2, <1>4, <1>6, <1>7, <1>8, <1>9 DEF Deque, mine

-----------------------------------------------------------------------------
(* The deque and the admissions it stands for *)

LEMMA CoversTrim ==
    ASSUME NEW a \in Seq(Nat), NEW d \in Seq(Nat), NEW u, NEW t \in Nat, NEW cutoff \in Int,
           Covers(a, d, t), TrimOf(d, u, cutoff), cutoff <= t - Window
    PROVE  Covers(a, u, t)
<1>1. /\ u \in Seq(Nat) /\ Len(a) \in Nat /\ Len(d) \in Nat /\ Len(u) \in Nat
      /\ Len(u) <= Len(d) /\ Len(d) <= Len(a) /\ Window \in Nat /\ MaxLag \in Nat
  BY WindowAssumption, BoundsAssumption DEF TrimOf, Covers
<1>2. ASSUME NEW i \in 1..Len(u) PROVE a[Len(a) - Len(u) + i] <= u[i] + MaxLag
  <2>1. PICK j \in 1..Len(d) : j = Len(d) - Len(u) + i
    <3>1. Len(d) - Len(u) + i \in 1..Len(d)
      BY <1>1, <1>2
    <3>2. QED BY <3>1
  <2>2. u[i] = d[j] /\ a[Len(a) - Len(d) + j] <= d[j] + MaxLag
    BY <2>1 DEF TrimOf, Covers
  <2>3. Len(a) - Len(d) + j = Len(a) - Len(u) + i
    BY <1>1, <1>2, <2>1
  <2>4. QED BY <2>2, <2>3
<1>3. ASSUME NEW i \in 1..(Len(a) - Len(u)) PROVE a[i] < t - Window + MaxLag
  <2>1. CASE i <= Len(a) - Len(d)
    <3>1. i \in 1..(Len(a) - Len(d))
      BY <1>1, <1>3, <2>1
    <3>2. QED BY <3>1 DEF Covers
  <2>2. CASE i > Len(a) - Len(d)
    <3>1. PICK j \in 1..(Len(d) - Len(u)) : j = i - (Len(a) - Len(d))
      <4>1. i - (Len(a) - Len(d)) \in 1..(Len(d) - Len(u))
        BY <1>1, <1>3, <2>2
      <4>2. QED BY <4>1
    <3>2. j \in 1..Len(d) /\ Len(a) - Len(d) + j = i /\ i \in 1..Len(a)
      BY <1>1, <1>3, <3>1
    <3>3. a[i] <= d[j] + MaxLag
      BY <3>2 DEF Covers
    <3>4. d[j] < cutoff
      BY <3>1 DEF TrimOf
    <3>5. a[i] \in Nat /\ d[j] \in Nat
      BY <3>2, ElementOfSeq
    <3>6. QED
      <4>1. ASSUME NEW x \in Nat, NEW y \in Nat, NEW w \in Nat, NEW m \in Nat,
                   x <= y + m, y < cutoff, cutoff <= t - w
            PROVE  x < t - w + m
        BY <4>1
      <4>2. QED BY <1>1, <3>3, <3>4, <3>5, <4>1
  <2>3. QED BY <1>1, <2>1, <2>2
<1>4. QED BY <1>1, <1>2, <1>3 DEF Covers

LEMMA CoversAppend ==
    ASSUME NEW a \in Seq(Nat), NEW u \in Seq(Nat), NEW t \in Nat, NEW s \in Nat,
           Covers(a, u, t), t <= s + MaxLag
    PROVE  Covers(Append(a, t), Append(u, s), t)
<1> DEFINE b == Append(a, t)
           v == Append(u, s)
<1>1. /\ Len(a) \in Nat /\ Len(u) \in Nat /\ Len(u) <= Len(a)
      /\ Len(b) = Len(a) + 1 /\ Len(v) = Len(u) + 1
      /\ \A i \in 1..Len(a) : b[i] = a[i]
      /\ \A i \in 1..Len(u) : v[i] = u[i]
      /\ b[Len(a) + 1] = t /\ v[Len(u) + 1] = s
  BY DEF Covers
<1>2. Len(b) - Len(v) = Len(a) - Len(u) /\ Len(v) <= Len(b)
  BY <1>1
<1> HIDE DEF b, v
<1>3. ASSUME NEW i \in 1..Len(v) PROVE b[Len(b) - Len(v) + i] <= v[i] + MaxLag
  <2>1. CASE i \in 1..Len(u)
    <3>1. Len(a) - Len(u) + i \in 1..Len(a)
      BY <1>1, <2>1
    <3>2. a[Len(a) - Len(u) + i] <= u[i] + MaxLag
      BY <2>1 DEF Covers
    <3>3. QED BY <1>1, <1>2, <2>1, <3>1, <3>2
  <2>2. CASE i = Len(u) + 1
    <3>1. Len(b) - Len(v) + i = Len(a) + 1
      BY <1>1, <1>2, <2>2
    <3>2. QED BY <1>1, <2>2, <3>1
  <2>3. QED BY <1>1, <2>1, <2>2
<1>4. ASSUME NEW i \in 1..(Len(b) - Len(v)) PROVE b[i] < t - Window + MaxLag
  <2>1. i \in 1..(Len(a) - Len(u)) /\ i \in 1..Len(a)
    BY <1>1, <1>2
  <2>2. QED BY <1>1, <2>1 DEF Covers
<1>5. Covers(b, v, t)
  BY <1>2, <1>3, <1>4 DEF Covers
<1>6. QED BY <1>5 DEF b, v

LEMMA CoversLater ==
    ASSUME NEW a \in Seq(Nat), NEW d \in Seq(Nat), NEW t \in Nat,
           Covers(a, d, t)
    PROVE  Covers(a, d, t + 1)
<1>1. Len(a) \in Nat /\ Len(d) \in Nat /\ Len(d) <= Len(a) /\ Window \in Nat /\ MaxLag \in Nat
  BY WindowAssumption, BoundsAssumption DEF Covers
<1>2. ASSUME NEW i \in 1..(Len(a) - Len(d)) PROVE a[i] < t + 1 - Window + MaxLag
  <2>1. a[i] < t - Window + MaxLag
    BY DEF Covers
  <2>2. a[i] \in Nat
    BY <1>1
  <2>3. QED BY <1>1, <2>1, <2>2
<1>3. \A i \in 1..Len(d) : a[Len(a) - Len(d) + i] <= d[i] + MaxLag
  BY DEF Covers
<1>4. QED BY <1>1, <1>2, <1>3 DEF Covers

\* With room in the deque, the admission PerWindow places back is no longer in it.
LEMMA SpreadAppend ==
    ASSUME NEW a \in Seq(Nat), NEW u \in Seq(Nat), NEW t \in Nat,
           Spread(a), Covers(a, u, t), Len(u) < PerWindow
    PROVE  Spread(Append(a, t))
<1> DEFINE b == Append(a, t)
<1>1. /\ Len(a) \in Nat /\ Len(u) \in Nat /\ Len(u) <= Len(a) /\ Len(b) = Len(a) + 1
      /\ \A i \in 1..Len(a) : b[i] = a[i]
      /\ b[Len(a) + 1] = t
      /\ Window \in Nat /\ MaxLag \in Nat /\ PerWindow \in Nat \ {0}
  BY WindowAssumption, BoundsAssumption DEF Covers
<1> HIDE DEF b
<1>2. ASSUME NEW i \in 1..Len(b), i + PerWindow \in 1..Len(b)
      PROVE  b[i + PerWindow] - b[i] > Window - MaxLag
  <2>1. i \in 1..Len(a)
    BY <1>1, <1>2
  <2>2. CASE i + PerWindow \in 1..Len(a)
    BY <1>1, <2>1, <2>2 DEF Spread
  <2>3. CASE i + PerWindow = Len(a) + 1
    <3>1. i \in 1..(Len(a) - Len(u))
      BY <1>1, <2>1, <2>3
    <3>2. a[i] < t - Window + MaxLag
      BY <3>1 DEF Covers
    <3>3. a[i] \in Nat
      BY <2>1
    <3>4. b[i + PerWindow] = t /\ b[i] = a[i]
      BY <1>1, <2>1, <2>3
    <3>5. QED BY <1>1, <3>2, <3>3, <3>4
  <2>4. i + PerWindow \in 1..Len(a) \/ i + PerWindow = Len(a) + 1
    BY <1>1, <1>2
  <2>5. QED BY <2>2, <2>3, <2>4
<1>3. QED BY <1>2 DEF Spread, b

\* A trimmed deque has room, or starts where it did.
LEMMA TrimKeepsHead ==
    ASSUME NEW d \in Seq(Nat), NEW u, NEW cutoff \in Int, TrimOf(d, u, cutoff),
           Len(d) <= PerWindow
    PROVE  Len(u) <= PerWindow /\ (Len(u) < PerWindow \/ (u[1] = d[1] /\ Len(u) = Len(d)))
<1>1. /\ u \in Seq(Nat) /\ Len(d) \in Nat /\ Len(u) \in Nat /\ Len(u) <= Len(d)
      /\ PerWindow \in Nat \ {0}
  BY WindowAssumption DEF TrimOf
<1>2. CASE Len(u) = PerWindow
  <2>1. Len(u) = Len(d) /\ 1 \in 1..Len(u) /\ Len(d) - Len(u) + 1 = 1
    BY <1>1, <1>2
  <2>2. u[1] = d[1]
    BY <2>1 DEF TrimOf
  <2>3. QED BY <1>1, <2>1, <2>2
<1>3. QED BY <1>1, <1>2

-----------------------------------------------------------------------------
(* What the steps do *)

LEMMA MaxOfTwo ==
    ASSUME NEW a \in Nat, NEW b \in Nat
    PROVE  Max({a, b}) = IF a >= b THEN a ELSE b
<1>1. PICK m \in {a, b} : m = (IF a >= b THEN a ELSE b) /\ \A y \in {a, b} : m >= y
  OBVIOUS
<1>2. \A x \in {a, b} : (\A y \in {a, b} : x >= y) => x = m
  BY <1>1
<1>3. QED BY <1>1, <1>2 DEF Max

LEMMA TableType == ASSUME TypeOK PROVE TableOK(hits)
BY DEF TypeOK, TableOK

\* Every step but the limiter's and the clock's leaves the limiter alone.
Quiet(c) ==
    \/ Misread(c) \/ TooLarge(c) \/ BadLength(c) \/ Enter(c) \/ Handle(c)
    \/ Drain(c) \/ DrainFails(c) \/ BodyArrives(c) \/ HangUp(c)
    \/ \E r \in Requests : ReadRequest(c, r)

LEMMA Steps ==
    ASSUME Next
    PROVE  Tick \/ \E c \in Conns : Limit(c) \/ Quiet(c)
BY Zenon DEF Next, ThreadStep, PeerStep, Quiet

LEMMA QuietFacts ==
    ASSUME TypeOK, NEW c \in Conns, Quiet(c)
    PROVE  /\ UNCHANGED <<limiterVars, now, key, history>>
           /\ \A d \in Conns : pc'[d] = "limit" =>
                 \/ pc[d] = "limit" /\ stamp'[d] = stamp[d]
                 \/ stamp'[d] = now
           /\ pc[c] # "limit"
           /\ \A d \in Conns \ {c} : pc'[d] = pc[d]
<1>1. pc \in [Conns -> Labels] /\ stamp \in [Conns -> Nat]
  BY DEF TypeOK
<1>2. CASE \E r \in Requests : ReadRequest(c, r)
  BY <1>1, <1>2 DEF ReadRequest, Go
<1>3. CASE /\ ~\E r \in Requests : ReadRequest(c, r)
  BY <1>1, <1>3 DEF Quiet, Misread, TooLarge, BadLength, Enter, Handle, Drain, DrainFails,
                    BodyArrives, HangUp, Go,
                    Idle, Close
<1>4. QED BY <1>2, <1>3

\* Whole seconds and one more are longer than the wait.
LEMMA RoundedUp ==
    ASSUME NEW t \in Nat, NEW S \in Nat \ {0}
    PROVE  ((t \div S) + 1) * S \in Nat /\ ((t \div S) + 1) * S > t
<1>1. t \div S \in Nat /\ t < S * (t \div S) + S
  OBVIOUS
<1>2. ASSUME NEW q \in Nat, t < S * q + S PROVE (q + 1) * S \in Nat /\ (q + 1) * S > t
  BY <1>2
<1>3. QED BY <1>1, <1>2

\* What one request does at the limiter, with r its recent hits.
LEMMA LimitFacts ==
    ASSUME TypeOK, NEW c \in Conns, Limit(c),
           NEW k, k = key[c], NEW s, s = stamp[c], NEW r, r = Recent(k, s)
    PROVE  /\ k \in Keys /\ s \in Nat /\ r \in Seq(Nat)
           /\ TableOK(hits')
           /\ TrimOf(Deque(k), r, s - Window)
           /\ latest' = IF latest >= s THEN latest ELSE s
           /\ lastSweep' = IF SweepDue(s) THEN s ELSE lastSweep
           /\ \/ /\ Len(r) < PerWindow
                 /\ DequeOf(hits', k) = Append(r, s)
                 /\ admitted' = [admitted EXCEPT ![k] = Append(@, now)]
                 /\ promise' = [promise EXCEPT ![k] = None]
              \/ /\ Len(r) >= PerWindow
                 /\ DequeOf(hits', k) = r
                 /\ \E p \in Int : /\ p > r[1] + Window
                                  /\ promise' = [promise EXCEPT ![k] = p]
                 /\ UNCHANGED admitted
           /\ k \in DOMAIN hits'
           /\ \A j \in Keys \ {k} :
                /\ SweepDue(s) => /\ TrimOf(Deque(j), DequeOf(hits', j), s - Window)
                                  /\ j \in DOMAIN hits' => DequeOf(hits', j) # <<>>
                /\ ~SweepDue(s) => /\ DequeOf(hits', j) = Deque(j)
                                   /\ j \in DOMAIN hits' <=> j \in DOMAIN hits
<1>1. k \in Keys /\ s \in Nat /\ latest \in Nat /\ TableOK(hits)
  BY TableType DEF TypeOK
<1>2. TrimOf(Deque(k), r, s - Window) /\ r \in Seq(Nat)
  <2>1. TrimOf(Deque(k), r, s - Window)
    BY <1>1, RecentFacts
  <2>2. QED BY <2>1 DEF TrimOf
<1>3. latest' = IF latest >= s THEN latest ELSE s
  <2>1. latest' = Max({latest, s})
    BY DEF Limit
  <2>2. QED BY <1>1, <2>1, MaxOfTwo
<1>4. CASE /\ Check(k, s, TRUE)
           /\ admitted' = [admitted EXCEPT ![k] = Append(@, now)]
           /\ promise' = [promise EXCEPT ![k] = None]
  BY <1>1, <1>2, <1>3, <1>4, CheckFacts
<1>5. CASE /\ Check(k, s, FALSE)
           /\ promise' = [promise EXCEPT ![k] = s + RetryAfter(k, s)]
           /\ UNCHANGED admitted
  <2>1. Len(r) \in Nat /\ ~(Len(r) < PerWindow) /\ PerWindow \in Nat \ {0} /\ Window \in Nat
    <3>1. FALSE <=> Len(Recent(k, s)) < PerWindow
      BY <1>1, <1>5, CheckFacts
    <3>2. QED BY <1>2, <3>1, WindowAssumption
  <2>2. Len(r) >= PerWindow /\ Len(r) > 0 /\ 1 \in 1..Len(r)
    BY <2>1
  <2>3. r[1] \in Nat /\ Head(r) = r[1] /\ r[1] >= s - Window
    BY <1>2, <2>2 DEF TrimOf
  <2>4. PICK t \in Nat : t = Retry(k, s) /\ s + t = r[1] + Window
    <3>1. Retry(k, s) = IF Window - (s - Head(r)) < 0 THEN 0 ELSE Window - (s - Head(r))
      BY Zenon DEF Retry
    <3>2. ASSUME NEW x \in Nat, NEW w \in Nat, x >= s - w
          PROVE  /\ (IF w - (s - x) < 0 THEN 0 ELSE w - (s - x)) \in Nat
                 /\ s + (IF w - (s - x) < 0 THEN 0 ELSE w - (s - x)) = x + w
      BY <1>1, <3>2
    <3>3. QED BY <2>1, <2>3, <3>1, <3>2
  <2>5. PICK m \in Nat : m = RetryAfter(k, s) /\ m > t
    <3>1. RetryAfter(k, s) = ((t \div Second) + 1) * Second
      BY <2>4, Zenon DEF RetryAfter
    <3>2. QED BY <3>1, RoundedUp, WindowAssumption
  <2>6. s + m \in Int /\ s + m > r[1] + Window
    BY <1>1, <2>1, <2>3, <2>4, <2>5
  <2>7. promise' = [promise EXCEPT ![k] = s + m]
    BY <1>5, <2>5
  <2>8. \E p \in Int : p > r[1] + Window /\ promise' = [promise EXCEPT ![k] = p]
    BY <2>6, <2>7
  <2>9. QED BY <1>1, <1>2, <1>3, <1>5, <2>2, <2>8, CheckFacts
<1>6. QED BY <1>4, <1>5 DEF Limit

LEMMA NoRequestType == NoRequest \in Request /\ Polite(NoRequest)
BY BoundsAssumption DEF NoRequest, Request, Polite, Length

\* Types are kept by every step.
LEMMA TypeStep == ASSUME TypeOK, [Next]_vars PROVE TypeOK'
<1>1. CASE Tick
  BY <1>1 DEF Tick, TypeOK, limiterVars, threads, history
<1>2. ASSUME NEW c \in Conns, Limit(c) PROVE TypeOK'
  <2>1. PICK k, s, r : k = key[c] /\ s = stamp[c] /\ r = Recent(k, s)
    OBVIOUS
  <2>2. /\ k \in Keys /\ s \in Nat /\ r \in Seq(Nat) /\ TableOK(hits')
        /\ latest' = (IF latest >= s THEN latest ELSE s)
        /\ lastSweep' = (IF SweepDue(s) THEN s ELSE lastSweep)
    BY <1>2, <2>1, LimitFacts
  <2>3. /\ admitted' \in [Keys -> Seq(Nat)] /\ promise' \in [Keys -> Int \union {None}]
    <3>1. /\ admitted \in [Keys -> Seq(Nat)] /\ promise \in [Keys -> Int \union {None}]
          /\ now \in Nat
      BY DEF TypeOK
    <3>2. CASE /\ admitted' = [admitted EXCEPT ![k] = Append(@, now)]
               /\ promise' = [promise EXCEPT ![k] = None]
      BY <2>2, <3>1, <3>2
    <3>3. CASE /\ \E p \in Int : promise' = [promise EXCEPT ![k] = p]
               /\ UNCHANGED admitted
      BY <2>2, <3>1, <3>3
    <3>4. QED BY <1>2, <2>1, <3>2, <3>3, LimitFacts
  <2>4. /\ UNCHANGED <<now, key, req, left, count>> /\ stamp' \in [Conns -> Nat]
        /\ pc' \in [Conns -> Labels]
    BY <1>2 DEF Limit, Go, TypeOK, Labels
  <2>5. QED BY <2>2, <2>3, <2>4 DEF TypeOK, TableOK
<1>3. ASSUME NEW c \in Conns, Quiet(c) PROVE TypeOK'
  <2>1. UNCHANGED <<limiterVars, now, key, history>>
    BY <1>3, QuietFacts
  <2>2. /\ pc' \in [Conns -> Labels] /\ req' \in [Conns -> Request]
        /\ stamp' \in [Conns -> Nat] /\ left' \in [Conns -> BOOLEAN] /\ count' \in Nat
    <3>1. CASE \E r \in Requests : ReadRequest(c, r)
      <4>1. PICK r \in Requests : ReadRequest(c, r)
        BY <3>1
      <4>2. r \in Request
        BY BoundsAssumption DEF Request
      <4>3. QED BY <4>1, <4>2 DEF ReadRequest, Go, TypeOK, Labels
    <3>2. CASE ~\E r \in Requests : ReadRequest(c, r)
      <4>1. /\ pc' \in [Conns -> Labels] /\ stamp' \in [Conns -> Nat] /\ count' \in Nat
        BY <1>3, <3>2
           DEF Quiet, Misread, TooLarge, BadLength, Enter, Handle, Drain, DrainFails,
               BodyArrives, HangUp, Go,
               Idle, Close, TypeOK, Labels
      <4>2. req' \in [Conns -> Request]
        BY <1>3, <3>2, NoRequestType
           DEF Quiet, Misread, TooLarge, BadLength, Enter, Handle, Drain, DrainFails,
               BodyArrives, HangUp,
               Idle, Close, TypeOK
      <4>3. left' = left \/ \E b \in BOOLEAN : left' = [left EXCEPT ![c] = b]
        <5>1. CASE Drain(c)
          <6>1. (req[c].body > Drained(req[c])) \in BOOLEAN
            OBVIOUS
          <6>2. QED BY <5>1, <6>1, Zenon DEF Drain
        <5>2. CASE Enter(c)
          <6>1. (req[c].body > Taken(req[c])) \in BOOLEAN
            OBVIOUS
          <6>2. QED BY <5>2, <6>1, Zenon DEF Enter
        <5>3. CASE BadLength(c)
          <6>1. (req[c].body > 0) \in BOOLEAN
            OBVIOUS
          <6>2. QED BY <5>3, <6>1, Zenon DEF BadLength
        <5>4. CASE Misread(c)
          BY <5>4, Zenon DEF Misread
        <5>5. QED BY <1>3, <3>2, <5>1, <5>2, <5>3, <5>4
                     DEF Quiet, TooLarge, Handle, DrainFails, BodyArrives, HangUp
      <4>4. left' \in [Conns -> BOOLEAN]
        BY <4>3 DEF TypeOK
      <4>5. QED BY <4>1, <4>2, <4>4
    <3>3. QED BY <3>1, <3>2
  <2>3. QED BY <2>1, <2>2 DEF TypeOK, limiterVars, history
<1>4. CASE UNCHANGED vars
  BY <1>4 DEF vars, TypeOK, limiterVars, threads, history
<1>5. QED BY <1>1, <1>2, <1>3, <1>4, Steps

LEMMA InitTypes == ASSUME Init PROVE TypeOK /\ \A k \in Keys : Deque(k) = <<>>
<1>1. key \in [Conns -> Keys]
  BY BoundsAssumption DEF Init
<1>2. /\ pc \in [Conns -> Labels] /\ stamp \in [Conns -> Nat] /\ left \in [Conns -> BOOLEAN]
      /\ {now, latest, lastSweep, count} \subseteq Nat
      /\ promise \in [Keys -> Int \union {None}] /\ admitted \in [Keys -> Seq(Nat)]
  BY DEF Init, Labels, LimiterInit
<1>3. req \in [Conns -> Request]
  BY NoRequestType DEF Init
<1>4. DOMAIN hits = {} /\ hits \in [DOMAIN hits -> Seq(Nat)]
  BY DEF Init, LimiterInit
<1>5. QED BY <1>1, <1>2, <1>3, <1>4 DEF TypeOK, Deque, DequeOf

-----------------------------------------------------------------------------
(* Connections stay in step *)

LEMMA SyncStep == ASSUME TypeOK, SyncInv, [Next]_vars PROVE SyncInv'
<1>1. CASE Tick \/ UNCHANGED vars
  BY <1>1 DEF Tick, SyncInv, threads, vars
<1>2. ASSUME NEW c \in Conns, Limit(c) PROVE SyncInv'
  BY <1>2 DEF Limit, SyncInv
<1>3. ASSUME NEW c \in Conns, Quiet(c) PROVE SyncInv'
  <2>1. SUFFICES ASSUME NEW d \in polite' \cap Conns
                 PROVE  Polite(req'[d]) /\ ~left'[d] /\ d \notin misread'
    BY DEF SyncInv, Polite
  <2>2. /\ req \in [Conns -> Request] /\ left \in [Conns -> BOOLEAN]
        /\ d \in Conns
    BY DEF TypeOK
  <2>3. CASE \E r \in Requests : ReadRequest(c, r)
    <3>1. PICK r \in Requests : ReadRequest(c, r)
      BY <2>3
    <3>2. d \in polite /\ (d = c => Polite(r)) /\ UNCHANGED <<left, misread>>
          /\ req' = [req EXCEPT ![c] = r]
      BY <2>1, <3>1 DEF ReadRequest
    <3>3. QED BY <2>2, <3>2 DEF SyncInv
  <2>4. CASE ~\E r \in Requests : ReadRequest(c, r)
    <3>1. d \in polite
      BY <1>3, <2>1, <2>4
         DEF Quiet, Misread, TooLarge, BadLength, Enter, Handle, Drain, DrainFails, BodyArrives,
             HangUp
    <3>2. Polite(req[d]) /\ ~left[d] /\ d \notin misread
      BY <2>2, <3>1 DEF SyncInv
    <3>3. Polite(req'[d])
      BY <1>3, <2>2, <2>4, <3>2, NoRequestType
         DEF Quiet, Misread, TooLarge, BadLength, Enter, Handle, Drain, DrainFails, BodyArrives,
             HangUp, Idle, Close
    \* Its Content-Length is what it sends.
    <3>4. /\ req[d].length # Garbled /\ Length(req[d]) = req[d].body /\ req[d].body \in Nat
          /\ req[d].body <= MaxBody + 1 /\ MaxBody \in Nat /\ (~req[d].reads => req[d].body = 0)
      BY <2>2, <3>2, BoundsAssumption DEF Polite, Length, Request
    <3>5. ~left'[d]
      <4>1. CASE Drain(c) /\ d = c
        <5>1. left'[d] = (req[d].body > Drained(req[d]))
          BY <2>2, <4>1 DEF Drain
        <5>2. Drained(req[d]) = req[d].body
          BY <3>4, BoundsAssumption DEF Drained
        <5>3. ~(req[d].body > Drained(req[d]))
          BY <3>4, <5>2
        <5>4. QED BY <5>1, <5>3, Zenon
      <4>2. CASE Enter(c) /\ d = c
        <5>1. left'[d] = (req[d].body > Taken(req[d]))
          BY <2>2, <4>2 DEF Enter
        <5>2. Taken(req[d]) = req[d].body
          BY <3>4 DEF Taken
        <5>3. ~(req[d].body > Taken(req[d]))
          BY <3>4, <5>2
        <5>4. QED BY <5>1, <5>3, Zenon
      <4>3. CASE ~((Drain(c) \/ Enter(c)) /\ d = c)
        <5>1. ~((BadLength(c) \/ Misread(c)) /\ d = c)
          BY <2>2, <3>2, <3>4 DEF BadLength, Misread
        <5>2. left'[d] = left[d]
          BY <1>3, <2>2, <2>4, <4>3, <5>1
             DEF Quiet, Misread, TooLarge, BadLength, Enter, Handle, Drain, DrainFails,
                 BodyArrives, HangUp
        <5>3. QED BY <3>2, <5>2
      <4>4. QED BY <4>1, <4>2, <4>3
    <3>6. d \notin misread'
      BY <1>3, <2>4, <3>2
         DEF Quiet, Misread, TooLarge, BadLength, Enter, Handle, Drain, DrainFails, BodyArrives,
             HangUp
    <3>7. QED BY <3>3, <3>5, <3>6
  <2>5. QED BY <2>3, <2>4
<1>4. QED BY <1>1, <1>2, <1>3, Steps

\* On a connection whose bodies have the length that their Content-Length says, are sent only
\* where a route reads one, and are never more than a byte over _MAX_BODY, no body is taken for
\* a request, whether its requests are admitted, turned away, unauthorized or too large, and
\* however its thread interleaves with others.
THEOREM BodiesAreNeverRequests == Spec => []PoliteConnectionsStayInSync
<1>1. Init => TypeOK /\ SyncInv /\ polite \subseteq Conns
  <2>1. Init => SyncInv /\ polite \subseteq Conns
    BY NoRequestType DEF Init, SyncInv
  <2>2. QED BY <2>1, InitTypes
<1>2. TypeOK /\ SyncInv /\ polite \subseteq Conns /\ [Next]_vars
      => (TypeOK /\ SyncInv /\ polite \subseteq Conns)'
  <2>1. SUFFICES ASSUME TypeOK, SyncInv, polite \subseteq Conns, [Next]_vars
                 PROVE  (polite \subseteq Conns)'
    BY TypeStep, SyncStep
  <2>2. polite' \subseteq polite
    BY <2>1, Steps DEF Quiet, Misread, TooLarge, BadLength, Enter, Handle, Drain, DrainFails,
                       BodyArrives, HangUp, ReadRequest, Limit, Tick, threads, vars
  <2>3. QED BY <2>1, <2>2
<1>3. TypeOK /\ SyncInv /\ polite \subseteq Conns => PoliteConnectionsStayInSync
  BY DEF SyncInv, PoliteConnectionsStayInSync
<1>4. QED BY <1>1, <1>2, <1>3, PTL DEF Spec

-----------------------------------------------------------------------------
(* The window *)

LEMMA ClockStep == ASSUME TypeOK, ClockInv, [Next]_vars PROVE ClockInv'
<1>1. /\ now \in Nat /\ lastSweep \in Nat /\ MaxLag \in Nat /\ stamp \in [Conns -> Nat]
      /\ pc \in [Conns -> Labels] /\ lastSweep <= now
      /\ \A c \in Conns : pc[c] = "limit" => stamp[c] <= now /\ now - stamp[c] <= MaxLag
  BY BoundsAssumption DEF TypeOK, ClockInv
<1>2. CASE Tick
  <2>1. /\ now' = now + 1 /\ UNCHANGED <<lastSweep, pc, stamp>>
        /\ \A c \in Conns : pc[c] = "limit" => now - stamp[c] < MaxLag
    BY <1>2 DEF Tick, limiterVars, threads
  <2>2. ASSUME NEW c \in Conns, pc'[c] = "limit"
        PROVE  stamp'[c] <= now' /\ now' - stamp'[c] <= MaxLag
    <3>1. stamp[c] \in Nat /\ stamp[c] <= now /\ now - stamp[c] < MaxLag
      BY <1>1, <2>1, <2>2
    <3>2. QED BY <1>1, <2>1, <3>1
  <2>3. lastSweep' <= now'
    BY <1>1, <2>1
  <2>4. QED BY <2>2, <2>3 DEF ClockInv
<1>3. ASSUME NEW c \in Conns, Limit(c) PROVE ClockInv'
  <2>1. PICK k, s, r : k = key[c] /\ s = stamp[c] /\ r = Recent(k, s)
    OBVIOUS
  <2>2. lastSweep' = (IF SweepDue(s) THEN s ELSE lastSweep) /\ s \in Nat
    BY <1>3, <2>1, LimitFacts
  <2>3. s <= now /\ now' = now
    BY <1>1, <1>3, <2>1 DEF Limit
  <2>4. lastSweep' <= now'
    BY <1>1, <2>2, <2>3
  <2>5. \A d \in Conns : pc'[d] = "limit" => pc[d] = "limit" /\ stamp'[d] = stamp[d]
    BY <1>1, <1>3 DEF Limit, Go
  <2>6. QED BY <1>1, <2>3, <2>4, <2>5 DEF ClockInv
<1>4. ASSUME NEW c \in Conns, Quiet(c) PROVE ClockInv'
  <2>1. /\ UNCHANGED <<now, lastSweep>>
        /\ \A d \in Conns : pc'[d] = "limit" =>
              (pc[d] = "limit" /\ stamp'[d] = stamp[d]) \/ stamp'[d] = now
    BY <1>4, QuietFacts DEF limiterVars
  <2>2. now <= now /\ now - now <= MaxLag
    BY <1>1
  <2>3. QED BY <1>1, <2>1, <2>2 DEF ClockInv
<1>5. CASE UNCHANGED vars
  BY <1>5 DEF vars, ClockInv, limiterVars, threads
<1>6. QED BY <1>2, <1>3, <1>4, <1>5, Steps

\* The limiter's step and the clock's are the ones WindowInv and PromiseInv are about.
LEMMA WindowStep ==
    ASSUME TypeOK, ClockInv, WindowInv, [Next]_vars
    PROVE  WindowInv'
<1>1. /\ admitted \in [Keys -> Seq(Nat)] /\ now \in Nat /\ TableOK(hits)
      /\ Window \in Nat \ {0} /\ MaxLag \in Nat /\ PerWindow \in Nat \ {0}
      /\ \A k \in Keys : Deque(k) \in Seq(Nat)
  BY TableType, DequeType, WindowAssumption, BoundsAssumption DEF TypeOK, Deque
<1>2. \A k \in Keys : /\ Len(Deque(k)) <= PerWindow
                      /\ Covers(admitted[k], Deque(k), now)
                      /\ Spread(admitted[k])
  BY DEF WindowInv
<1>3. CASE Tick
  <2>1. now' = now + 1 /\ UNCHANGED <<hits, admitted>>
    BY <1>3 DEF Tick, limiterVars, history
  <2>2. \A k \in Keys : Covers(admitted[k], Deque(k), now + 1)
    BY <1>1, <1>2, CoversLater
  <2>3. ASSUME NEW k \in Keys
        PROVE  /\ Len(Deque(k)') <= PerWindow
               /\ Covers(admitted'[k], Deque(k)', now')
               /\ Spread(admitted'[k])
    <3>1. Deque(k)' = Deque(k) /\ admitted' = admitted /\ now' = now + 1
      BY <2>1 DEF Deque, DequeOf
    <3>2. QED BY <1>2, <2>2, <3>1
  <2>4. QED BY <2>3 DEF WindowInv, Covers, Spread
<1>4. ASSUME NEW c \in Conns, Limit(c) PROVE WindowInv'
  <2>1. PICK k, s, r : k = key[c] /\ s = stamp[c] /\ r = Recent(k, s)
    OBVIOUS
  <2>2. /\ k \in Keys /\ s \in Nat /\ r \in Seq(Nat)
        /\ TrimOf(Deque(k), r, s - Window) /\ now' = now
        /\ s <= now /\ now - s <= MaxLag
    BY <1>4, <2>1, LimitFacts DEF Limit, ClockInv
  <2>3. s - Window \in Int /\ s - Window <= now - Window /\ now <= s + MaxLag
    BY <1>1, <2>2
  <2>4. Covers(admitted[k], r, now) /\ Len(r) <= PerWindow /\ admitted[k] \in Seq(Nat)
    <3>1. admitted[k] \in Seq(Nat) /\ Deque(k) \in Seq(Nat)
      BY <1>1, <2>2
    <3>2. Covers(admitted[k], r, now)
      BY <1>1, <1>2, <2>2, <2>3, <3>1, CoversTrim
    <3>3. Len(r) <= PerWindow
      BY <1>2, <2>2, <2>3, <3>1, TrimKeepsHead
    <3>4. QED BY <3>1, <3>2, <3>3
  <2>5. \/ /\ Len(r) < PerWindow /\ DequeOf(hits', k) = Append(r, s)
           /\ admitted' = [admitted EXCEPT ![k] = Append(@, now)]
        \/ /\ Len(r) >= PerWindow /\ DequeOf(hits', k) = r
           /\ admitted' = admitted
    BY <1>4, <2>1, LimitFacts
  <2>6. ASSUME NEW j \in Keys
        PROVE  /\ Len(Deque(j)') <= PerWindow
               /\ Covers(admitted'[j], Deque(j)', now')
               /\ Spread(admitted'[j])
    <3>1. CASE j = k /\ Len(r) < PerWindow
      <4>1. Len(r) \in Nat /\ ~(Len(r) >= PerWindow)
        BY <1>1, <2>2, <3>1
      <4>2. /\ Deque(j)' = Append(r, s) /\ Len(Append(r, s)) = Len(r) + 1
            /\ admitted'[j] = Append(admitted[k], now)
        BY <1>1, <2>2, <2>5, <3>1, <4>1 DEF Deque
      <4>3. Len(r) + 1 <= PerWindow
        BY <1>1, <3>1, <4>1
      <4>4. Covers(Append(admitted[k], now), Append(r, s), now)
        BY <1>1, <2>2, <2>3, <2>4, CoversAppend
      <4>5. Spread(Append(admitted[k], now))
        BY <1>1, <1>2, <2>2, <2>4, <3>1, SpreadAppend
      <4>6. QED BY <2>2, <4>2, <4>3, <4>4, <4>5
    <3>2. CASE j = k /\ ~(Len(r) < PerWindow)
      <4>1. Deque(j)' = r /\ admitted' = admitted
        BY <2>5, <3>2 DEF Deque
      <4>2. QED BY <1>2, <2>2, <2>4, <3>2, <4>1
    <3>3. CASE j # k
      <4>1. admitted'[j] = admitted[j] /\ admitted[j] \in Seq(Nat) /\ Deque(j) \in Seq(Nat)
        BY <1>1, <2>2, <2>5, <3>3
      <4>2. PICK u : u = Deque(j)'
        OBVIOUS
      <4>3. u = Deque(j) \/ TrimOf(Deque(j), u, s - Window)
        BY <1>4, <2>1, <3>3, <4>2, LimitFacts DEF Deque
      <4>4. Len(u) <= PerWindow /\ Covers(admitted[j], u, now)
        BY <1>1, <1>2, <2>2, <2>3, <4>1, <4>3, CoversTrim, TrimKeepsHead
      <4>5. QED BY <1>2, <2>2, <4>1, <4>2, <4>4
    <3>4. QED BY <3>1, <3>2, <3>3
  <2>7. QED BY <2>6 DEF WindowInv, Covers, Spread
<1>5. CASE UNCHANGED vars \/ \E c \in Conns : Quiet(c)
  <2>1. UNCHANGED <<hits, admitted, now>>
    BY <1>5, QuietFacts DEF vars, limiterVars, history
  <2>2. QED BY <2>1 DEF WindowInv, Deque, DequeOf, Covers, Spread
<1>6. QED BY <1>3, <1>4, <1>5, Steps

LEMMA PromiseStep ==
    ASSUME TypeOK, WindowInv, PromiseInv, [Next]_vars
    PROVE  PromiseInv'
<1>1. /\ promise \in [Keys -> Int \union {None}] /\ TableOK(hits)
      /\ Window \in Nat \ {0} /\ PerWindow \in Nat \ {0}
      /\ \A k \in Keys : Deque(k) \in Seq(Nat) /\ Len(Deque(k)) <= PerWindow
  BY TableType, DequeType, WindowAssumption DEF TypeOK, Deque, WindowInv
<1>2. ASSUME NEW c \in Conns, Limit(c) PROVE PromiseInv'
  <2>1. PICK k, s, r : k = key[c] /\ s = stamp[c] /\ r = Recent(k, s)
    OBVIOUS
  <2>2. /\ k \in Keys /\ s \in Nat /\ r \in Seq(Nat)
        /\ \/ promise' = [promise EXCEPT ![k] = None]
           \/ /\ Len(r) >= PerWindow /\ DequeOf(hits', k) = r
              /\ \E p \in Int : /\ p > r[1] + Window
                               /\ promise' = [promise EXCEPT ![k] = p]
    BY <1>2, <2>1, LimitFacts
  <2>3. ASSUME NEW j \in Keys, promise'[j] # None
        PROVE  Len(Deque(j)') < PerWindow \/ Deque(j)'[1] + Window < promise'[j]
    <3>1. CASE j = k
      <4>1. /\ Len(r) >= PerWindow /\ Deque(j)' = r
            /\ promise'[j] \in Int /\ promise'[j] > r[1] + Window
        BY <1>1, <2>2, <2>3, <3>1 DEF Deque
      <4>2. r[1] \in Nat
        BY <1>1, <2>2, <4>1
      <4>3. QED BY <1>1, <4>1, <4>2
    <3>2. CASE j # k
      <4>1. promise'[j] = promise[j] /\ Deque(j) \in Seq(Nat) /\ s - Window \in Int
        BY <1>1, <2>2, <3>2
      <4>2. Len(Deque(j)) < PerWindow \/ Deque(j)[1] + Window < promise[j]
        BY <2>3, <4>1 DEF PromiseInv
      <4>3. PICK u : u = Deque(j)'
        OBVIOUS
      <4>4. u = Deque(j) \/ TrimOf(Deque(j), u, s - Window)
        BY <1>2, <2>1, <3>2, <4>3, LimitFacts DEF Deque
      <4>5. CASE TrimOf(Deque(j), u, s - Window)
        <5>1. Len(u) < PerWindow \/ (u[1] = Deque(j)[1] /\ Len(u) = Len(Deque(j)))
          BY <1>1, <4>1, <4>5, TrimKeepsHead
        <5>2. QED BY <4>1, <4>2, <4>3, <5>1
      <4>6. QED BY <4>1, <4>2, <4>3, <4>4, <4>5
    <3>3. QED BY <3>1, <3>2
  <2>4. QED BY <2>3 DEF PromiseInv
<1>3. CASE UNCHANGED vars \/ Tick \/ \E c \in Conns : Quiet(c)
  <2>1. UNCHANGED <<hits, promise>>
    BY <1>3, QuietFacts DEF Tick, vars, limiterVars, history
  <2>2. QED BY <2>1 DEF PromiseInv, Deque, DequeOf
<1>4. QED BY <1>2, <1>3, Steps

LEMMA WindowInit == ASSUME Init PROVE TypeOK /\ ClockInv /\ WindowInv /\ PromiseInv
<1>1. TypeOK /\ \A k \in Keys : Deque(k) = <<>>
  BY InitTypes
<1>2. ClockInv /\ PromiseInv
  BY DEF Init, LimiterInit, ClockInv, PromiseInv
<1>3. ASSUME NEW k \in Keys
      PROVE  /\ Len(Deque(k)) <= PerWindow /\ Covers(admitted[k], Deque(k), now)
             /\ Spread(admitted[k])
  <2>1. admitted[k] = <<>> /\ Deque(k) = <<>> /\ PerWindow \in Nat
    BY <1>1, WindowAssumption DEF Init
  <2>2. QED BY <2>1 DEF Covers, Spread
<1>4. QED BY <1>1, <1>2, <1>3 DEF WindowInv

\* In every window shorter by the delay between the clock and the limiter's lock no client
\* has more than per_window requests admitted, whatever the number of its connections and
\* whichever threads trim or sweep its deque with clocks read out of order.
THEOREM CapHolds == Spec => []BurstIsBounded
<1> DEFINE I == TypeOK /\ ClockInv /\ WindowInv
<1>1. Init => I
  BY WindowInit
<1>2. I /\ [Next]_vars => I'
  BY TypeStep, ClockStep, WindowStep
<1>3. I => BurstIsBounded
  <2>1. SUFFICES ASSUME TypeOK, WindowInv, NEW k \in Keys, NEW i \in DOMAIN admitted[k],
                        i + PerWindow \in DOMAIN admitted[k]
                 PROVE  admitted[k][i + PerWindow] - admitted[k][i] > Window - MaxLag
    BY DEF BurstIsBounded
  <2>2. DOMAIN admitted[k] = 1..Len(admitted[k]) /\ Spread(admitted[k])
    BY <2>1 DEF TypeOK, WindowInv
  <2>3. QED BY <2>1, <2>2 DEF Spread
<1>4. QED BY <1>1, <1>2, <1>3, PTL DEF Spec

\* A client that comes back when the whole seconds of a 429's Retry-After are over, or later,
\* with nothing admitted for it in between, is not turned away again, whatever part of a second
\* int() cuts off its wait.
THEOREM RetryAfterIsTrue == Spec => RetryAfterIsHonoured
<1> DEFINE I == TypeOK /\ ClockInv /\ WindowInv /\ PromiseInv
           A == \A c \in Conns :
                  /\ pc[c] = "limit" /\ pc'[c] # "limit"
                  /\ promise[key[c]] # None /\ promise'[key[c]] # None
                  => stamp[c] < promise[key[c]]
<1>1. Init => I
  BY WindowInit
<1>2. I /\ [Next]_vars => I'
  BY TypeStep, ClockStep, WindowStep, PromiseStep
<1>3. I /\ [Next]_vars => [A]_vars
  <2>1. SUFFICES ASSUME TypeOK, WindowInv, PromiseInv, [Next]_vars, NEW c \in Conns,
                        pc[c] = "limit", pc'[c] # "limit",
                        promise[key[c]] # None, promise'[key[c]] # None
                 PROVE  stamp[c] < promise[key[c]]
    OBVIOUS
  <2>2. Limit(c)
    <3>1. ASSUME NEW d \in Conns, Limit(d) PROVE d = c
      BY <2>1, <3>1 DEF Limit, Go, TypeOK
    <3>2. ASSUME NEW d \in Conns, Quiet(d) PROVE FALSE
      BY <2>1, <3>2, QuietFacts
    <3>3. ~Tick /\ ~UNCHANGED vars
      BY <2>1 DEF Tick, threads, vars
    <3>4. QED BY <2>1, <3>1, <3>2, <3>3, Steps
  <2>3. PICK k, s, r : k = key[c] /\ s = stamp[c] /\ r = Recent(k, s)
    OBVIOUS
  <2>4. /\ k \in Keys /\ s \in Nat /\ r \in Seq(Nat) /\ TrimOf(Deque(k), r, s - Window)
        /\ promise' = [promise EXCEPT ![k] = None] \/ Len(r) >= PerWindow
    BY <2>1, <2>2, <2>3, LimitFacts
  <2>5. /\ promise \in [Keys -> Int \union {None}] /\ PerWindow \in Nat \ {0}
        /\ Window \in Nat /\ Deque(k) \in Seq(Nat) /\ Len(Deque(k)) <= PerWindow
    BY <2>1, <2>4, TableType, DequeType, WindowAssumption DEF TypeOK, Deque, WindowInv
  <2>6. Len(r) >= PerWindow
    BY <2>1, <2>3, <2>4, <2>5
  <2>7. s - Window \in Int /\ Len(r) \in Nat /\ ~(Len(r) < PerWindow) /\ Len(r) > 0
    BY <2>4, <2>5, <2>6
  <2>8. r[1] = Deque(k)[1] /\ Len(Deque(k)) = Len(r) /\ r[1] >= s - Window
    BY <2>4, <2>5, <2>7, TrimKeepsHead DEF TrimOf
  <2>9. Deque(k)[1] + Window < promise[k]
    BY <2>1, <2>3, <2>4, <2>7, <2>8 DEF PromiseInv
  <2>10. r[1] \in Nat /\ promise[k] \in Int
    BY <2>1, <2>3, <2>4, <2>5, <2>7
  <2>11. QED BY <2>3, <2>4, <2>5, <2>8, <2>9, <2>10
<1>4. QED BY <1>1, <1>2, <1>3, PTL DEF Spec, RetryAfterIsHonoured

-----------------------------------------------------------------------------
(* The sweep *)

\* A hit that is no older than the cutoff survives a trim.
LEMMA YoungHitsStay ==
    ASSUME NEW d \in Seq(Nat), NEW u, NEW cutoff \in Int, TrimOf(d, u, cutoff),
           NEW i \in 1..Len(d), d[i] >= cutoff
    PROVE  \E j \in 1..Len(u) : u[j] = d[i]
<1>1. u \in Seq(Nat) /\ Len(d) \in Nat /\ Len(u) \in Nat /\ Len(u) <= Len(d) /\ d[i] \in Nat
  BY ElementOfSeq DEF TrimOf
<1>2. i \notin 1..(Len(d) - Len(u))
  <2>1. i \in 1..(Len(d) - Len(u)) => d[i] < cutoff
    BY DEF TrimOf
  <2>2. ~(d[i] < cutoff)
    BY <1>1
  <2>3. QED BY <2>1, <2>2
<1>3. PICK j \in 1..Len(u) : Len(d) - Len(u) + j = i
  <2>1. i - (Len(d) - Len(u)) \in 1..Len(u)
    BY <1>1, <1>2
  <2>2. Len(d) - Len(u) + (i - (Len(d) - Len(u))) = i
    BY <1>1
  <2>3. QED BY <2>1, <2>2
<1>4. u[j] = d[i]
  BY <1>3 DEF TrimOf
<1>5. QED BY <1>4

LEMMA SweepStep ==
    ASSUME MaxLag <= Window, TypeOK, ClockInv, SweepInv, [Next]_vars
    PROVE  SweepInv'
<1>1. /\ latest \in Nat /\ lastSweep \in Nat /\ now \in Nat /\ TableOK(hits) /\ MaxLag \in Nat
      /\ Window \in Nat \ {0} /\ PerWindow \in Nat \ {0} /\ lastSweep <= now
      /\ \A k : Deque(k) \in Seq(Nat)
      /\ latest < lastSweep + Window
  BY TableType, DequeType, WindowAssumption, BoundsAssumption
     DEF TypeOK, Deque, ClockInv, SweepInv
<1>2. \A k \in DOMAIN hits : \E i \in 1..Len(Deque(k)) : Deque(k)[i] >= lastSweep - Window
  BY DEF SweepInv, Deque, DequeOf
<1>3. ASSUME NEW c \in Conns, Limit(c) PROVE SweepInv'
  <2>1. PICK k, s, r : k = key[c] /\ s = stamp[c] /\ r = Recent(k, s)
    OBVIOUS
  <2>2. /\ k \in Keys /\ s \in Nat /\ r \in Seq(Nat) /\ TableOK(hits')
        /\ TrimOf(Deque(k), r, s - Window)
        /\ latest' = (IF latest >= s THEN latest ELSE s)
        /\ lastSweep' = (IF SweepDue(s) THEN s ELSE lastSweep)
        /\ \/ DequeOf(hits', k) = Append(r, s)
           \/ Len(r) >= PerWindow /\ DequeOf(hits', k) = r
    BY <1>3, <2>1, LimitFacts
  <2>3. s <= now /\ now - s <= MaxLag
    BY <1>3, <2>1 DEF Limit, ClockInv
  <2>4. SweepDue(s) <=> s - lastSweep >= Window
    BY DEF SweepDue
  <2>5. s - Window \in Int /\ lastSweep - Window \in Int
    BY <1>1, <2>2
  <2>6. latest' < lastSweep' + Window
    BY <1>1, <2>2, <2>4
  \* The key's own deque.
  <2>7. \E i \in 1..Len(DequeOf(hits', k)) : DequeOf(hits', k)[i] >= lastSweep' - Window
    <3>1. CASE DequeOf(hits', k) = Append(r, s)
      <4>1. PICK i \in 1..Len(Append(r, s)) : Append(r, s)[i] = s
        BY <2>2
      <4>2. s >= lastSweep' - Window
        BY <1>1, <2>2, <2>3, <2>4
      <4>3. QED BY <3>1, <4>1, <4>2
    <3>2. CASE Len(r) >= PerWindow /\ DequeOf(hits', k) = r /\ SweepDue(s)
      <4>1. 1 \in 1..Len(r) /\ Len(r) > 0
        BY <1>1, <2>2, <3>2
      <4>2. r[1] >= s - Window /\ lastSweep' = s
        BY <2>2, <3>2, <4>1 DEF TrimOf
      <4>3. QED BY <3>2, <4>1, <4>2
    <3>3. CASE Len(r) >= PerWindow /\ DequeOf(hits', k) = r /\ ~SweepDue(s)
      <4>1. CASE s >= lastSweep
        <5>1. 1 \in 1..Len(r) /\ Len(r) > 0 /\ r[1] \in Nat
          BY <1>1, <2>2, <3>3
        <5>2. r[1] >= s - Window /\ lastSweep' = lastSweep
          BY <2>2, <3>3, <5>1 DEF TrimOf
        <5>3. r[1] >= lastSweep' - Window
          BY <1>1, <2>2, <4>1, <5>1, <5>2
        <5>4. QED BY <3>3, <5>1, <5>3
      <4>2. CASE s < lastSweep
        <5>1. k \in DOMAIN hits
          <6>1. Len(Deque(k)) > 0
            BY <1>1, <2>2, <3>3 DEF TrimOf
          <6>2. QED BY <6>1 DEF Deque, DequeOf
        <5>2. PICK i \in 1..Len(Deque(k)) : Deque(k)[i] >= lastSweep - Window
          BY <1>2, <5>1
        <5>3. Deque(k)[i] \in Nat
          BY <1>1, ElementOfSeq
        <5>4. Deque(k)[i] >= s - Window
          BY <1>1, <2>2, <4>2, <5>2, <5>3
        <5>5. PICK j \in 1..Len(r) : r[j] = Deque(k)[i]
          BY <1>1, <2>2, <2>5, <5>4, YoungHitsStay
        <5>6. QED BY <2>2, <3>3, <5>2, <5>5
      <4>3. QED BY <1>1, <2>2, <4>1, <4>2
    <3>4. QED BY <2>2, <3>1, <3>2, <3>3
  \* The deques of the others.
  <2>8. ASSUME NEW j \in DOMAIN hits', j # k
        PROVE  \E i \in 1..Len(DequeOf(hits', j)) : DequeOf(hits', j)[i] >= lastSweep' - Window
    <3>1. j \in Keys \ {k}
      BY <2>2, <2>8 DEF TableOK
    <3>2. PICK u : u = DequeOf(hits', j)
      OBVIOUS
    <3>3. CASE SweepDue(s)
      <4>1. TrimOf(Deque(j), u, s - Window) /\ u # <<>>
        BY <1>3, <2>1, <2>8, <3>1, <3>2, <3>3, LimitFacts
      <4>2. u \in Seq(Nat) /\ 1 \in 1..Len(u) /\ Len(u) > 0
        BY <4>1 DEF TrimOf
      <4>3. u[1] >= s - Window /\ lastSweep' = s
        BY <2>2, <3>3, <4>1, <4>2 DEF TrimOf
      <4>4. QED BY <3>2, <4>2, <4>3
    <3>4. CASE ~SweepDue(s)
      <4>1. u = Deque(j) /\ j \in DOMAIN hits
        BY <1>3, <2>1, <2>8, <3>1, <3>2, <3>4, LimitFacts
      <4>2. QED BY <1>2, <2>2, <3>2, <3>4, <4>1
    <3>5. QED BY <3>3, <3>4
  <2>9. \A j \in DOMAIN hits' : DequeOf(hits', j) = hits'[j]
    BY DEF DequeOf
  <2>10. QED BY <2>6, <2>7, <2>8, <2>9 DEF SweepInv
<1>4. CASE UNCHANGED vars \/ Tick \/ \E c \in Conns : Quiet(c)
  <2>1. UNCHANGED <<hits, lastSweep, latest>>
    BY <1>4, QuietFacts DEF Tick, vars, limiterVars, history
  <2>2. QED BY <2>1 DEF SweepInv
<1>5. QED BY <1>3, <1>4, Steps

\* As long as no thread is held up between its clock and the limiter's lock for longer than a
\* window, every client the limiter remembers has a hit from the last two windows before the
\* latest request: the table holds the active clients, however many have come and gone.
THEOREM TableHoldsActiveClients ==
    ASSUME MaxLag <= Window
    PROVE  Spec => []IdleClientsAreForgotten
<1> DEFINE I == TypeOK /\ ClockInv /\ SweepInv
<1>1. Init => I
  <2>1. Init => SweepInv
    BY WindowAssumption DEF Init, LimiterInit, SweepInv
  <2>2. QED BY <2>1, WindowInit
<1>2. I /\ [Next]_vars => I'
  BY TypeStep, ClockStep, SweepStep
<1>3. I => IdleClientsAreForgotten
  <2>1. SUFFICES ASSUME TypeOK, SweepInv, NEW k \in DOMAIN hits
                 PROVE  \E i \in DOMAIN hits[k] : hits[k][i] > latest - 2 * Window
    BY DEF IdleClientsAreForgotten
  <2>2. PICK i \in 1..Len(hits[k]) : hits[k][i] >= lastSweep - Window
    BY <2>1 DEF SweepInv
  <2>3. hits[k] \in Seq(Nat) /\ latest < lastSweep + Window
        /\ latest \in Nat /\ lastSweep \in Nat /\ Window \in Nat
    BY <2>1, WindowAssumption DEF TypeOK, SweepInv
  <2>4. hits[k][i] \in Nat /\ i \in DOMAIN hits[k]
    BY <2>3, ElementOfSeq
  <2>5. hits[k][i] > latest - 2 * Window
    BY <2>2, <2>3, <2>4
  <2>6. QED BY <2>4, <2>5
<1>4. QED BY <1>1, <1>2, <1>3, PTL DEF Spec
=============================================================================
