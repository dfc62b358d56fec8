------------------------- MODULE McpDiscoveryProofs -------------------------
(***************************************************************************)
(* Theorems about McpDiscovery, for every child: any pages, any number of  *)
(* requests, answers, second answers and unasked frames, read in chunks of *)
(* any size, the child or the clock cutting the exchange short anywhere.   *)
(*                                                                         *)
(* The argument: a request is sent once, so the child holds each id at     *)
(* most once and first answers it at most once (RequestInv); the first     *)
(* frame on the wire with the id being waited for is that first answer     *)
(* (WireInv); so what has been gathered is the pages first served for the  *)
(* requests before this one, with no name twice (GatherInv), and the       *)
(* outcome is decided by the first answer to the last request (ResultInv). *)
(***************************************************************************)
EXTENDS McpDiscovery, WellFoundedInduction, SequenceTheorems, TLAPS

FrameTypes == AnswerTypes \union ChatterTypes \union {"result", "none"}
Frames == [type : FrameTypes, id : 0..MaxRequests, page : Pages \union {NoPage}]

Working == {"spawn", "send", "notify", "receive"}

TypeOK ==
    /\ pc \in Working \union {"close", "wait", "over"}
    /\ req \in 1..(MaxRequests + 1)
    /\ tools \in Seq(Entries)
    /\ buf \in Seq(Frames) /\ down \in Seq(Frames) /\ up \in Seq(Nat)
    /\ pending \subseteq Nat
    /\ served \in [1..MaxRequests -> Frames]

\* The frames the client has still to look at, in the order it will.
Wire == buf \o down

Unserved(answers, id) == id \in 1..MaxRequests => answers[id] = NoFrame

\* Every request before this one was answered; this one is on its way at most once.
RequestInv ==
    /\ \A k \in 1..Len(up) :
          up[k] # 0 => up[k] <= req /\ up[k] \notin pending /\ Unserved(served, up[k])
    /\ \A k, l \in 1..Len(up) : up[k] = up[l] /\ up[k] # 0 => k = l
    /\ \A id \in pending : id \in 1..req /\ Unserved(served, id)
    /\ \A id \in 1..MaxRequests : served[id] # NoFrame => id <= req /\ served[id].id = id
    /\ \A id \in 1..(req - 1) : id <= MaxRequests /\ served[id] # NoFrame
    /\ pc \in {"spawn", "send"} =>
          /\ req \notin pending /\ Unserved(served, req)
          /\ \A k \in 1..Len(up) : up[k] # req
    /\ pc = "notify" => req = 1 /\ ~Unserved(served, 1)
    /\ pc = "spawn" => req = 1

\* A frame with an id comes after the first answer to that request.  Once the request in
\* hand has one, the first frame with its id is that one.
FirstWithId(frames, id, f) ==
    \E k \in 1..Len(frames) : frames[k] = f /\ \A l \in 1..(k - 1) : frames[l].id # id

WireInv ==
    /\ \A k \in 1..Len(Wire) : Wire[k].id # 0 => ~Unserved(served, Wire[k].id)
    /\ pc = "receive" /\ ~Unserved(served, req) => FirstWithId(Wire, req, served[req])

\* The pages first served for the first n list requests.
Listed(answers, n) == [k \in 1..n |-> answers[k + 1].page.tools]

Gathered == IF req = 1 THEN <<>> ELSE FlattenSeq(Listed(served, req - 2))

GatherInv ==
    pc \in Working => outcome = "none" /\ tools = Gathered /\ IsInjective(tools)

ResultInv ==
    /\ outcome \in {"ok", "duplicate_tool"} => ~Unserved(served, req)
    /\ ResultIsComplete

DiscoveryInv == TypeOK /\ RequestInv /\ WireInv /\ GatherInv /\ ResultInv

-----------------------------------------------------------------------------
(* Flattening *)

\* Every nonempty set of natural numbers has a least element.
LEMMA LeastElement ==
    ASSUME NEW S, S \subseteq Nat, S # {}
    PROVE  /\ Min(S) \in S /\ Min(S) \in Nat
           /\ \A y \in S : Min(S) <= y
<1>1. IsWellFoundedOn(OpToRel(<, Nat), Nat)
  BY NatLessThanWellFounded
<1>2. \E x \in S : \A y \in S : <<y, x>> \notin OpToRel(<, Nat)
  <2> HIDE DEF OpToRel
  <2>1. QED BY <1>1, WFMin
<1>3. PICK x \in S : \A y \in S : <<y, x>> \notin OpToRel(<, Nat)
  BY <1>2
<1>4. ASSUME NEW y \in S PROVE x <= y
  <2>1. x \in Nat /\ y \in Nat
    OBVIOUS
  <2>2. y < x => <<y, x>> \in OpToRel(<, Nat)
    BY <2>1, Zenon DEF OpToRel
  <2>3. ~(y < x)
    BY <1>3, <2>2, Zenon
  <2>4. QED BY <2>1, <2>3
<1>5. QED BY <1>3, <1>4 DEF Min

\* f is the function that FlattenSeq computes its result with.
Flattens(f, s) ==
    f = [k \in 1..Len(s) |-> IF k = 1 THEN s[k] ELSE f[k - 1] \o s[k]]

LEMMA FlattenSeqDef ==
    ASSUME NEW s, Len(s) # 0
    PROVE  FlattenSeq(s) = (CHOOSE f : Flattens(f, s))[Len(s)]
BY Zenon DEF FlattenSeq, Flattens

\* Two such functions are the same: where they differed first, they would not.
LEMMA FlattensUnique ==
    ASSUME NEW s, Len(s) \in Nat, NEW f, NEW g, Flattens(f, s), Flattens(g, s)
    PROVE  f = g
<1> DEFINE wrong == {k \in 1..Len(s) : f[k] # g[k]}
<1>1. \A k \in 1..Len(s) : /\ f[k] = IF k = 1 THEN s[k] ELSE f[k - 1] \o s[k]
                           /\ g[k] = IF k = 1 THEN s[k] ELSE g[k - 1] \o s[k]
  BY Zenon DEF Flattens
<1>2. wrong = {}
  <2> SUFFICES ASSUME wrong # {} PROVE FALSE
    OBVIOUS
  <2>1. wrong \subseteq Nat
    OBVIOUS
  <2>2. PICK m \in wrong : \A y \in wrong : m <= y
    BY <2>1, LeastElement
  <2>3. m \in 1..Len(s) /\ f[m] # g[m]
    OBVIOUS
  <2>4. m # 1
    BY <1>1, <2>3
  <2>5. m - 1 \in 1..Len(s) /\ m - 1 \notin wrong
    BY <2>2, <2>3, <2>4
  <2>6. f[m - 1] = g[m - 1]
    BY <2>5
  <2>7. QED BY <1>1, <2>3, <2>4, <2>6
<1>3. DOMAIN f = 1..Len(s) /\ DOMAIN g = 1..Len(s) /\ f = [k \in DOMAIN f |-> f[k]]
                           /\ g = [k \in DOMAIN g |-> g[k]]
  BY DEF Flattens
<1>4. QED BY <1>2, <1>3

\* Appending a page extends the function by one.
LastFlattened(f, s, e) == IF s = <<>> THEN e ELSE f[Len(s)] \o e
Extended(f, s, e) ==
    [k \in 1..(Len(s) + 1) |-> IF k = Len(s) + 1 THEN LastFlattened(f, s, e) ELSE f[k]]

LEMMA FlattensExtends ==
    ASSUME NEW T, NEW s \in Seq(Seq(T)), NEW e \in Seq(T), NEW f, Flattens(f, s)
    PROVE  /\ Flattens(Extended(f, s, e), Append(s, e))
           /\ Extended(f, s, e)[Len(s) + 1] = LastFlattened(f, s, e)
           /\ \A k \in 1..Len(s) : Extended(f, s, e)[k] = f[k]
<1> DEFINE last == IF s = <<>> THEN e ELSE f[Len(s)] \o e
           g == [k \in 1..(Len(s) + 1) |-> IF k = Len(s) + 1 THEN last ELSE f[k]]
           a == Append(s, e)
<1>1. /\ Len(s) \in Nat /\ Len(a) = Len(s) + 1
      /\ \A k \in 1..Len(s) : a[k] = s[k]
      /\ a[Len(s) + 1] = e
      /\ s = <<>> <=> Len(s) = 0
  BY AppendProperties, LenProperties, EmptySeq
<1>2. \A k \in 1..Len(s) : f[k] = IF k = 1 THEN s[k] ELSE f[k - 1] \o s[k]
  BY Zenon DEF Flattens
<1> HIDE DEF last
<1>3. ASSUME NEW k \in 1..Len(a)
      PROVE  g[k] = IF k = 1 THEN a[k] ELSE g[k - 1] \o a[k]
  <2>1. CASE k = Len(s) + 1 /\ s = <<>>
    <3>1. g[k] = e /\ k = 1 /\ a[k] = e
      BY <1>1, <2>1 DEF last
    <3>2. QED BY <3>1
  <2>2. CASE k = Len(s) + 1 /\ s # <<>>
    <3>1. g[k] = f[Len(s)] \o e /\ k # 1 /\ a[k] = e
      BY <1>1, <2>2 DEF last
    <3>2. k - 1 = Len(s) /\ g[k - 1] = f[Len(s)]
      BY <1>1, <2>2
    <3>3. QED BY <3>1, <3>2
  <2>3. CASE k # Len(s) + 1
    <3>1. k \in 1..Len(s)
      BY <1>1, <2>3
    <3>2. g[k] = f[k] /\ a[k] = s[k]
      BY <1>1, <2>3, <3>1
    <3>3. k # 1 => g[k - 1] = f[k - 1]
      BY <1>1, <3>1
    <3>4. QED BY <1>2, <3>1, <3>2, <3>3
  <2>4. QED BY <2>1, <2>2, <2>3
<1>4. g = [k \in 1..Len(a) |-> g[k]]
  BY <1>1
<1>5. Flattens(g, a)
  <2> HIDE DEF g, a
  <2>1. QED BY <1>3, <1>4 DEF Flattens
<1>6. g[Len(s) + 1] = last /\ \A k \in 1..Len(s) : g[k] = f[k]
  BY <1>1
<1>7. g = Extended(f, s, e) /\ last = LastFlattened(f, s, e)
  BY DEF last, Extended, LastFlattened
<1>8. QED BY <1>5, <1>6, <1>7, Zenon

LEMMA FlattensExists ==
    ASSUME NEW T, NEW s \in Seq(Seq(T))
    PROVE  \E f : Flattens(f, s) /\ \A k \in 1..Len(s) : f[k] \in Seq(T)
<1> DEFINE p(n) == SubSeq(s, 1, n)
           Has(n) == \E f : Flattens(f, p(n)) /\ \A k \in 1..Len(p(n)) : f[k] \in Seq(T)
           wrong == {n \in 0..Len(s) : ~Has(n)}
<1>1. Len(s) \in Nat
  BY LenProperties
<1>2. \A n \in 0..Len(s) : p(n) \in Seq(Seq(T)) /\ Len(p(n)) = n
  <2> TAKE n \in 0..Len(s)
  <2>1. \A k \in 1..n : s[k] \in Seq(T)
    BY <1>1, ElementOfSeq
  <2>2. QED BY <1>1, <2>1, SubSeqProperties
<1>3. Has(0)
  <2> DEFINE f == [k \in 1..Len(p(0)) |-> s[k]]
  <2>1. 1..Len(p(0)) = {}
    BY <1>1, <1>2
  <2> HIDE DEF p
  <2>2. f = [k \in 1..Len(p(0)) |-> IF k = 1 THEN p(0)[k] ELSE f[k - 1] \o p(0)[k]]
    BY <2>1
  <2>3. Flattens(f, p(0))
    <3> HIDE DEF f
    <3>1. QED BY <2>2 DEF Flattens
  <2>4. QED BY <2>1, <2>3
<1>4. ASSUME NEW n \in 0..Len(s), n # Len(s), Has(n) PROVE Has(n + 1)
  <2>1. s[n + 1] \in Seq(T)
    BY <1>1, <1>4, ElementOfSeq
  <2>2. p(n + 1) = Append(p(n), s[n + 1])
    <3>1. n + 1 \in 1..Len(s)
      BY <1>1, <1>4
    <3>2. p(n + 1) = SubSeq(s, 1, n) \o <<s[n + 1]>>
      <4>1. 1 \in 1..Len(s) /\ n + 1 \in 1..Len(s)
        BY <1>1, <3>1
      <4>2. SubSeq(s, 1, n + 1) = SubSeq(s, 1, (n + 1) - 1) \o <<s[n + 1]>>
        BY <4>1, SubSeqRecursiveSecond
      <4>3. (n + 1) - 1 = n
        BY <1>1
      <4>4. QED BY <4>2, <4>3
    <3>3. Append(p(n), s[n + 1]) = p(n) \o <<s[n + 1]>>
      <4> HIDE DEF p
      <4>1. QED BY <1>2, <2>1, AppendIsConcat
    <3>4. QED BY <3>2, <3>3
  <2>3. PICK f : Flattens(f, p(n)) /\ \A k \in 1..Len(p(n)) : f[k] \in Seq(T)
    BY <1>4
  <2> HIDE DEF p
  <2> DEFINE g == Extended(f, p(n), s[n + 1])
  <2>4. p(n) \in Seq(Seq(T)) /\ Len(p(n)) = n /\ n \in Nat
    BY <1>1, <1>2
  <2>5. /\ Flattens(g, p(n + 1)) /\ g[n + 1] = LastFlattened(f, p(n), s[n + 1])
        /\ \A k \in 1..n : g[k] = f[k]
    <3>1. /\ Flattens(Extended(f, p(n), s[n + 1]), Append(p(n), s[n + 1]))
          /\ Extended(f, p(n), s[n + 1])[Len(p(n)) + 1] = LastFlattened(f, p(n), s[n + 1])
          /\ \A k \in 1..Len(p(n)) : Extended(f, p(n), s[n + 1])[k] = f[k]
      <4>1. Flattens(f, p(n)) /\ p(n) \in Seq(Seq(T))
        BY <2>3, <2>4
      <4> DEFINE q == p(n)  e == s[n + 1]
      <4>2. q \in Seq(Seq(T)) /\ e \in Seq(T) /\ Flattens(f, q)
        BY <2>1, <4>1
      <4> HIDE DEF q, e
      <4>3. /\ Flattens(Extended(f, q, e), Append(q, e))
            /\ Extended(f, q, e)[Len(q) + 1] = LastFlattened(f, q, e)
            /\ \A k \in 1..Len(q) : Extended(f, q, e)[k] = f[k]
        BY <4>2, FlattensExtends
      <4>4. QED BY <4>3 DEF q, e
    <3>2. QED BY <2>2, <2>4, <3>1, Zenon
  <2> HIDE DEF g
  <2>6. g[n + 1] \in Seq(T)
    <3>1. CASE p(n) = <<>>
      BY <2>1, <2>5, <3>1 DEF LastFlattened
    <3>2. CASE p(n) # <<>>
      <4>1. n \in 1..n
        BY <2>4, <3>2, EmptySeq
      <4>2. f[n] \in Seq(T)
        BY <2>3, <2>4, <4>1
      <4>3. g[n + 1] = f[n] \o s[n + 1]
        BY <2>4, <2>5, <3>2 DEF LastFlattened
      <4>4. QED BY <2>1, <4>2, <4>3, ConcatProperties
    <3>3. QED BY <3>1, <3>2
  <2>7. Len(p(n + 1)) = n + 1
    BY <1>1, <1>2, <1>4
  <2>8. ASSUME NEW k \in 1..(n + 1) PROVE g[k] \in Seq(T)
    <3>1. k = n + 1 \/ k \in 1..n
      BY <2>4
    <3>2. k \in 1..n => g[k] \in Seq(T)
      BY <2>3, <2>4, <2>5, Zenon
    <3>3. QED BY <2>6, <3>1, <3>2
  <2>9. QED BY <2>5, <2>7, <2>8
<1>5. wrong = {}
  <2> SUFFICES ASSUME wrong # {} PROVE FALSE
    OBVIOUS
  <2> HIDE DEF Has
  <2>1. wrong \subseteq Nat
    BY <1>1
  <2>2. PICK m \in wrong : \A y \in wrong : m <= y
    BY <2>1, LeastElement
  <2>3. m \in 0..Len(s) /\ ~Has(m)
    OBVIOUS
  <2>4. m # 0
    BY <1>3, <2>3
  <2>5. m - 1 \in 0..Len(s) /\ m - 1 # Len(s) /\ m - 1 \notin wrong /\ (m - 1) + 1 = m
    BY <1>1, <2>2, <2>3, <2>4
  <2>6. Has((m - 1) + 1)
    BY <1>4, <2>5
  <2>7. QED BY <2>3, <2>5, <2>6
<1>6. Has(Len(s))
  <2> HIDE DEF Has
  <2>1. QED BY <1>1, <1>5
<1>7. p(Len(s)) = s
  BY SubSeqFull
<1>8. QED BY <1>6, <1>7

\* FlattenSeq does what its name says, one page at a time.
LEMMA FlattenAppend ==
    ASSUME NEW T, NEW s \in Seq(Seq(T)), NEW e \in Seq(T)
    PROVE  /\ FlattenSeq(<<>>) = <<>>
           /\ FlattenSeq(s) \in Seq(T)
           /\ FlattenSeq(Append(s, e)) = FlattenSeq(s) \o e
<1>1. FlattenSeq(<<>>) = <<>>
  BY EmptySeq DEF FlattenSeq
<1>2. PICK f : Flattens(f, s) /\ \A k \in 1..Len(s) : f[k] \in Seq(T)
  BY FlattensExists
<1>3. /\ Len(s) \in Nat /\ (s = <<>> <=> Len(s) = 0)
      /\ Len(Append(s, e)) = Len(s) + 1
  BY LenProperties, EmptySeq, AppendProperties
<1>4. s # <<>> => FlattenSeq(s) = f[Len(s)] /\ f[Len(s)] \in Seq(T)
  <2> SUFFICES ASSUME s # <<>> PROVE FlattenSeq(s) = f[Len(s)] /\ f[Len(s)] \in Seq(T)
    OBVIOUS
  <2>1. FlattenSeq(s) = (CHOOSE h : Flattens(h, s))[Len(s)]
    BY <1>3, FlattenSeqDef
  <2>2. Flattens(CHOOSE h : Flattens(h, s), s)
    BY <1>2, Zenon
  <2>3. (CHOOSE h : Flattens(h, s)) = f
    BY <1>2, <1>3, <2>2, FlattensUnique
  <2>4. Len(s) \in 1..Len(s)
    BY <1>3
  <2>5. QED BY <1>2, <2>1, <2>3, <2>4, Zenon
<1>5. FlattenSeq(s) \in Seq(T)
  BY <1>1, <1>4
<1> DEFINE a == Append(s, e)
           last == LastFlattened(f, s, e)
           g == Extended(f, s, e)
<1>6. Flattens(g, a) /\ g[Len(a)] = last
  BY <1>2, <1>3, FlattensExtends
<1>7. FlattenSeq(a) = last
  <2> HIDE DEF a, last, g
  <2>1. Len(a) \in Nat /\ Len(a) # 0
    BY <1>3 DEF a
  <2>2. FlattenSeq(a) = (CHOOSE h : Flattens(h, a))[Len(a)]
    BY <2>1, FlattenSeqDef
  <2>3. Flattens(CHOOSE h : Flattens(h, a), a)
    BY <1>6, Zenon
  <2>4. (CHOOSE h : Flattens(h, a)) = g
    BY <1>6, <2>1, <2>3, FlattensUnique
  <2>5. QED BY <1>6, <2>2, <2>4
<1>8. last = FlattenSeq(s) \o e
  <2>1. CASE s = <<>>
    BY <1>1, <2>1, ConcatEmptySeq DEF LastFlattened
  <2>2. CASE s # <<>>
    BY <1>4, <2>2 DEF LastFlattened
  <2>3. QED BY <2>1, <2>2
<1>9. QED BY <1>1, <1>5, <1>7, <1>8

-----------------------------------------------------------------------------
(* Frames, the wire and pages *)

LEMMA PageFacts ==
    ASSUME NEW page \in Pages \union {NoPage}
    PROVE  page.tools \in Seq(Entries)
<1>1. page \in Pages => page.tools \in Seq(Entries)
  BY ConstantsAssumption
<1>2. NoPage.tools = <<>> /\ <<>> \in Seq(Entries)
  BY DEF NoPage
<1>3. QED BY <1>1, <1>2

LEMMA FrameFacts ==
    ASSUME NEW f \in Frames
    PROVE  f.id \in 0..MaxRequests /\ f.page \in Pages \union {NoPage}
           /\ f.page.tools \in Seq(Entries)
BY PageFacts DEF Frames

LEMMA NoFrameFacts ==
    NoFrame \in Frames /\ NoFrame.id = 0
BY ConstantsAssumption DEF NoFrame, Frames, FrameTypes

LEMMA AnswerFacts ==
    ASSUME NEW id \in 1..MaxRequests, NEW type \in AnswerTypes \union {"result"},
           NEW page \in Pages
    PROVE  /\ Answer(id, type, page) \in Frames
           /\ Answer(id, type, page).id = id
           /\ Answer(id, type, page) # NoFrame
<1>1. /\ Answer(id, type, page) = [type |-> type, id |-> id,
                                   page |-> Answer(id, type, page).page]
      /\ Answer(id, type, page).page \in Pages \union {NoPage}
      /\ Answer(id, type, page).id = id
  BY DEF Answer
<1>2. id \in 0..MaxRequests /\ id # 0 /\ type \in FrameTypes
  BY ConstantsAssumption DEF FrameTypes
<1>3. Answer(id, type, page) \in Frames
  BY <1>1, <1>2 DEF Frames
<1>4. QED BY <1>1, <1>2, <1>3, NoFrameFacts

LEMMA ChatterFacts ==
    ASSUME NEW type \in ChatterTypes
    PROVE  /\ [NoFrame EXCEPT !.type = type] \in Frames
           /\ [NoFrame EXCEPT !.type = type].id = 0
BY ConstantsAssumption DEF NoFrame, Frames, FrameTypes

\* What is in the pipe follows what is in the buffer, however they are divided.
LEMMA ConcatTail ==
    ASSUME NEW S, NEW s \in Seq(S), NEW t \in Seq(S), s # <<>>
    PROVE  /\ Tail(s) \o t = Tail(s \o t) /\ s \o t # <<>>
           /\ Head(s) = (s \o t)[1] /\ Head(s) \in S /\ Tail(s) \in Seq(S)
<1>1. /\ Tail(s) \in Seq(S) /\ Len(Tail(s)) = Len(s) - 1 /\ Head(s) \in S
      /\ \A i \in 1..Len(Tail(s)) : Tail(s)[i] = s[i + 1]
  BY HeadTailProperties
<1>2. Len(s) \in Nat \ {0} /\ Len(t) \in Nat
  BY LenProperties, EmptySeq
<1>3. /\ s \o t \in Seq(S) /\ Len(s \o t) = Len(s) + Len(t)
      /\ \A i \in 1..(Len(s) + Len(t)) :
            (s \o t)[i] = IF i <= Len(s) THEN s[i] ELSE t[i - Len(s)]
  BY ConcatProperties
<1>4. s \o t # <<>>
  BY <1>2, <1>3, EmptySeq
<1>5. /\ Tail(s \o t) \in Seq(S) /\ Len(Tail(s \o t)) = Len(s) + Len(t) - 1
      /\ \A i \in 1..Len(Tail(s \o t)) : Tail(s \o t)[i] = (s \o t)[i + 1]
  BY <1>3, <1>4, HeadTailProperties
<1>6. /\ Tail(s) \o t \in Seq(S) /\ Len(Tail(s) \o t) = Len(Tail(s)) + Len(t)
      /\ \A i \in 1..(Len(Tail(s)) + Len(t)) :
            (Tail(s) \o t)[i] = IF i <= Len(Tail(s)) THEN Tail(s)[i] ELSE t[i - Len(Tail(s))]
  BY <1>1, ConcatProperties
<1>7. ASSUME NEW i \in 1..Len(Tail(s \o t)) PROVE (Tail(s) \o t)[i] = Tail(s \o t)[i]
  <2>1. CASE i <= Len(s) - 1
    BY <1>1, <1>2, <1>3, <1>5, <1>6, <2>1
  <2>2. CASE i > Len(s) - 1
    <3>1. (Tail(s) \o t)[i] = t[i - (Len(s) - 1)]
      BY <1>1, <1>2, <1>5, <1>6, <2>2
    <3>2. Tail(s \o t)[i] = t[i + 1 - Len(s)]
      BY <1>2, <1>3, <1>5, <2>2
    <3>3. i - (Len(s) - 1) = i + 1 - Len(s)
      BY <1>2, <1>5
    <3>4. QED BY <3>1, <3>2, <3>3
  <2>3. QED BY <1>2, <1>5, <2>1, <2>2
<1>8. Tail(s) \o t = Tail(s \o t)
  BY <1>1, <1>2, <1>5, <1>6, <1>7, SeqEqual
<1>9. Head(s) = (s \o t)[1]
  <2>1. Head(s) = s[1]
    BY <1>2
  <2>2. QED BY <1>2, <1>3, <2>1
<1>10. QED BY <1>1, <1>4, <1>8, <1>9

LEMMA ConcatAppend ==
    ASSUME NEW S, NEW s \in Seq(S), NEW t \in Seq(S), NEW e \in S
    PROVE  s \o Append(t, e) = Append(s \o t, e)
<1>1. <<e>> \in Seq(S)
  OBVIOUS
<1>2. Append(t, e) = t \o <<e>>
  BY AppendIsConcat
<1>3. s \o t \in Seq(S)
  BY ConcatProperties
<1>4. Append(s \o t, e) = (s \o t) \o <<e>>
  BY <1>3, AppendIsConcat
<1>5. QED BY <1>1, <1>2, <1>4, ConcatAssociative

LEMMA ReadKeepsWire ==
    ASSUME NEW S, NEW t \in Seq(S), NEW n \in 1..Len(t)
    PROVE  /\ SubSeq(t, 1, n) \in Seq(S) /\ SubSeq(t, n + 1, Len(t)) \in Seq(S)
           /\ SubSeq(t, 1, n) \o SubSeq(t, n + 1, Len(t)) = <<>> \o t
<1>1. Len(t) \in Nat /\ n \in 1..Len(t)
  BY LenProperties
<1>2. \A i \in 1..Len(t) : t[i] \in S
  BY ElementOfSeq
<1>3. SubSeq(t, 1, n) \in Seq(S)
  BY <1>1, <1>2, SubSeqProperties
<1>4. SubSeq(t, n + 1, Len(t)) \in Seq(S)
  BY <1>1, <1>2, SubSeqProperties
<1>5. SubSeq(t, 1, n) \o SubSeq(t, n + 1, Len(t)) = SubSeq(t, 1, Len(t))
  BY <1>1, ConcatAdjacentSubSeq
<1>6. SubSeq(t, 1, Len(t)) = t /\ <<>> \o t = t
  BY SubSeqFull, ConcatEmptySeq
<1>7. QED BY <1>3, <1>4, <1>5, <1>6

\* A page none of whose entries is refused adds names that are new and different.
LEMMA GoodPageIsNew ==
    ASSUME tools \in Seq(Entries), IsInjective(tools),
           NEW e \in Seq(Entries), \A i \in DOMAIN e : EntryFault(e, i) = "none"
    PROVE  IsInjective(tools \o e)
<1>1. /\ Len(tools) \in Nat /\ Len(e) \in Nat
      /\ DOMAIN tools = 1..Len(tools) /\ DOMAIN e = 1..Len(e)
  BY LenProperties
<1>2. /\ tools \o e \in Seq(Entries) /\ Len(tools \o e) = Len(tools) + Len(e)
      /\ \A i \in 1..(Len(tools) + Len(e)) :
            (tools \o e)[i] = IF i <= Len(tools) THEN tools[i] ELSE e[i - Len(tools)]
  BY ConcatProperties
<1>3. ASSUME NEW k \in 1..(Len(tools) + Len(e)), NEW l \in 1..(Len(tools) + Len(e)), k < l
      PROVE  (tools \o e)[k] # (tools \o e)[l]
  <2>1. CASE l <= Len(tools)
    <3>1. k \in DOMAIN tools /\ l \in DOMAIN tools /\ k # l
      BY <1>1, <1>3, <2>1
    <3>2. (tools \o e)[k] = tools[k] /\ (tools \o e)[l] = tools[l]
      BY <1>1, <1>2, <1>3, <2>1
    <3>3. QED BY <3>1, <3>2 DEF IsInjective
  <2>2. CASE l > Len(tools)
    <3> DEFINE n == l - Len(tools)
               front == SubSeq(e, 1, n - 1)
    <3>1. n \in 1..Len(e) /\ (tools \o e)[l] = e[n]
      BY <1>1, <1>2, <2>2
    <3>2. EntryFault(e, n) = "none"
      BY <1>1, <3>1
    <3>3. e[n] \notin Announced(tools \o front)
      <4> HIDE DEF n, front
      <4>1. QED BY <3>2 DEF EntryFault, front
    <3>4. front \in Seq(Entries) /\ Len(front) = n - 1
          /\ \A i \in 1..(n - 1) : front[i] = e[i]
      <4>1. \A i \in 1..(n - 1) : e[i] \in Entries
        BY <1>1, <3>1, ElementOfSeq
      <4>2. QED BY <1>1, <3>1, <4>1, SubSeqProperties
    <3> HIDE DEF front
    <3>5. /\ tools \o front \in Seq(Entries)
          /\ Len(tools \o front) = Len(tools) + (n - 1)
          /\ \A i \in 1..(Len(tools) + (n - 1)) :
                (tools \o front)[i] = IF i <= Len(tools) THEN tools[i] ELSE front[i - Len(tools)]
      BY <3>4, ConcatProperties
    <3>6. k \in 1..(Len(tools) + (n - 1))
      BY <1>1, <1>3, <2>2
    <3>7. (tools \o front)[k] = (tools \o e)[k]
      <4>1. CASE k <= Len(tools)
        BY <1>1, <1>2, <3>5, <3>6, <4>1
      <4>2. CASE k > Len(tools)
        <5>1. k - Len(tools) \in 1..(n - 1)
          BY <1>1, <3>1, <3>6, <4>2
        <5>2. QED BY <1>1, <1>2, <3>4, <3>5, <3>6, <4>2, <5>1
      <4>3. k <= Len(tools) \/ k > Len(tools)
        BY <1>1
      <4>4. QED BY <4>1, <4>2, <4>3, Zenon
    <3>8. (tools \o front)[k] \in Announced(tools \o front)
      <4>1. DOMAIN (tools \o front) = 1..Len(tools \o front)
        BY <3>5, LenProperties
      <4>2. k \in DOMAIN (tools \o front)
        BY <3>5, <3>6, <4>1
      <4>3. QED BY <4>2, Zenon DEF Announced
    <3>9. QED BY <3>1, <3>3, <3>7, <3>8
  <2>3. QED BY <1>1, <2>1, <2>2
<1>4. DOMAIN (tools \o e) = 1..(Len(tools) + Len(e))
  BY <1>2, LenProperties
<1>5. QED BY <1>1, <1>3, <1>4 DEF IsInjective

\* An entry refused as a duplicate is one.
LEMMA DuplicateIsDuplicate ==
    ASSUME tools \in Seq(Entries), NEW e \in Seq(Entries), NEW n \in DOMAIN e,
           EntryFault(e, n) = "duplicate_tool"
    PROVE  ~IsInjective(tools \o e)
<1> DEFINE front == SubSeq(e, 1, n - 1)
<1>1. /\ Len(tools) \in Nat /\ Len(e) \in Nat
      /\ DOMAIN tools = 1..Len(tools) /\ DOMAIN e = 1..Len(e)
  BY LenProperties
<1>2. /\ tools \o e \in Seq(Entries) /\ Len(tools \o e) = Len(tools) + Len(e)
      /\ \A i \in 1..(Len(tools) + Len(e)) :
            (tools \o e)[i] = IF i <= Len(tools) THEN tools[i] ELSE e[i - Len(tools)]
  BY ConcatProperties
<1>3. e[n] \in Announced(tools \o front)
  <2> HIDE DEF front
  <2>1. QED BY DEF EntryFault, front
<1>4. front \in Seq(Entries) /\ Len(front) = n - 1 /\ \A i \in 1..(n - 1) : front[i] = e[i]
  <2>1. \A i \in 1..(n - 1) : e[i] \in Entries
    BY <1>1, ElementOfSeq
  <2>2. QED BY <1>1, <2>1, SubSeqProperties
<1> HIDE DEF front
<1>5. /\ tools \o front \in Seq(Entries) /\ Len(tools \o front) = Len(tools) + (n - 1)
      /\ \A i \in 1..(Len(tools) + (n - 1)) :
            (tools \o front)[i] = IF i <= Len(tools) THEN tools[i] ELSE front[i - Len(tools)]
  BY <1>4, ConcatProperties
<1>6. DOMAIN (tools \o front) = 1..(Len(tools) + (n - 1))
  BY <1>5, LenProperties
<1>7. PICK k \in 1..(Len(tools) + (n - 1)) : (tools \o front)[k] = e[n]
  <2>1. \E k \in DOMAIN (tools \o front) : (tools \o front)[k] = e[n]
    BY <1>3, Zenon DEF Announced
  <2>2. QED BY <1>6, <2>1
<1>8. (tools \o e)[k] = e[n]
  <2>1. CASE k <= Len(tools)
    BY <1>1, <1>2, <1>5, <1>7, <2>1
  <2>2. CASE k > Len(tools)
    <3>1. k - Len(tools) \in 1..(n - 1)
      BY <1>1, <2>2
    <3>2. QED BY <1>1, <1>2, <1>4, <1>5, <1>7, <2>2, <3>1
  <2>3. QED BY <1>1, <2>1, <2>2
<1>9. (tools \o e)[Len(tools) + n] = e[n] /\ k # Len(tools) + n
  BY <1>1, <1>2
<1>10. DOMAIN (tools \o e) = 1..(Len(tools) + Len(e))
  BY <1>2, LenProperties
<1>11. k \in DOMAIN (tools \o e) /\ Len(tools) + n \in DOMAIN (tools \o e)
  BY <1>1, <1>10
<1>12. QED BY <1>8, <1>9, <1>11 DEF IsInjective

\* The page's fault is that of one of its entries, or of the page as a whole.
LEMMA PageFaultFacts ==
    ASSUME NEW page, page.tools \in Seq(Entries)
    PROVE  /\ PageFault(page) = "none" =>
                \A i \in DOMAIN page.tools : EntryFault(page.tools, i) = "none"
           /\ PageFault(page) = "duplicate_tool" =>
                \E i \in DOMAIN page.tools : EntryFault(page.tools, i) = "duplicate_tool"
           /\ PageFault(page) # "ok"
<1> DEFINE wrong == {i \in DOMAIN page.tools : EntryFault(page.tools, i) # "none"}
<1>1. PageFault(page) = IF ~page.array THEN "protocol_error"
                        ELSE IF wrong = {} THEN "none" ELSE EntryFault(page.tools, Min(wrong))
  BY DEF PageFault
<1>2. wrong \subseteq Nat
  BY LenProperties
<1>3. wrong # {} => Min(wrong) \in wrong
  <2> HIDE DEF wrong
  <2>1. QED BY <1>2, LeastElement
<1>4. \A i : EntryFault(page.tools, i) # "ok"
  BY DEF EntryFault
<1> HIDE DEF wrong
<1>5. PageFault(page) # "ok"
  BY <1>1, <1>4
<1>6. PageFault(page) = "none" => wrong = {}
  <2>1. wrong # {} => EntryFault(page.tools, Min(wrong)) # "none"
    BY <1>3 DEF wrong
  <2>2. QED BY <1>1, <2>1
<1>7. PageFault(page) = "duplicate_tool" =>
        wrong # {} /\ EntryFault(page.tools, Min(wrong)) = "duplicate_tool"
  BY <1>1
<1>8. wrong # {} => Min(wrong) \in DOMAIN page.tools
  BY <1>3 DEF wrong
<1>9. QED BY <1>5, <1>6, <1>7, <1>8 DEF wrong

\* One more page is one more element of the list.
LEMMA ListedFacts ==
    ASSUME NEW answers \in [1..MaxRequests -> Frames], NEW n \in 0..(MaxRequests - 1)
    PROVE  /\ Listed(answers, n) \in Seq(Seq(Entries))
           /\ FlattenSeq(Listed(answers, n)) \in Seq(Entries)
           /\ Listed(answers, 0) = <<>> /\ FlattenSeq(Listed(answers, 0)) = <<>>
           /\ n + 1 <= MaxRequests - 1 =>
                FlattenSeq(Listed(answers, n + 1)) =
                    FlattenSeq(Listed(answers, n)) \o answers[n + 2].page.tools
<1>1. MaxRequests \in Nat
  BY ConstantsAssumption
<1>2. \A m \in 0..(MaxRequests - 1) :
        Listed(answers, m) \in Seq(Seq(Entries)) /\ Len(Listed(answers, m)) = m
  <2> TAKE m \in 0..(MaxRequests - 1)
  <2>1. \A k \in 1..m : answers[k + 1].page.tools \in Seq(Entries)
    <3> TAKE k \in 1..m
    <3>1. answers[k + 1] \in Frames
      BY <1>1
    <3>2. QED BY <3>1, FrameFacts
  <2>2. Listed(answers, m) \in [1..m -> Seq(Entries)]
    BY <2>1, Zenon DEF Listed
  <2>3. m \in Nat
    BY <1>1
  <2>4. Listed(answers, m) \in Seq(Seq(Entries))
    BY <2>2, <2>3, SeqDef
  <2>5. QED BY <2>2, <2>3, <2>4, LenProperties
<1>3. Listed(answers, 0) = <<>>
  BY <1>1, <1>2, EmptySeq
<1>4. <<>> \in Seq(Entries)
  BY EmptySeq
<1>5. FlattenSeq(Listed(answers, n)) \in Seq(Entries) /\ FlattenSeq(<<>>) = <<>>
  BY <1>2, <1>4, FlattenAppend
<1>6. ASSUME n + 1 <= MaxRequests - 1
      PROVE  FlattenSeq(Listed(answers, n + 1)) =
                 FlattenSeq(Listed(answers, n)) \o answers[n + 2].page.tools
  <2> DEFINE s == Listed(answers, n)  e == answers[n + 2].page.tools  t == Listed(answers, n + 1)
  <2>1. n + 2 \in 1..MaxRequests /\ n \in Nat /\ n + 1 \in 0..(MaxRequests - 1)
    BY <1>1, <1>6
  <2>2. s \in Seq(Seq(Entries)) /\ Len(s) = n /\ t \in Seq(Seq(Entries)) /\ Len(t) = n + 1
    BY <1>2, <2>1
  <2>3. e \in Seq(Entries)
    <3>1. answers[n + 2] \in Frames
      BY <2>1
    <3>2. QED BY <3>1, FrameFacts
  <2>4. /\ Append(s, e) \in Seq(Seq(Entries)) /\ Len(Append(s, e)) = n + 1
        /\ \A i \in 1..n : Append(s, e)[i] = s[i] /\ Append(s, e)[n + 1] = e
    BY <2>2, <2>3, AppendProperties
  <2>5. /\ \A i \in 1..n : s[i] = answers[i + 1].page.tools
        /\ \A i \in 1..(n + 1) : t[i] = answers[i + 1].page.tools
    BY <2>1 DEF Listed
  <2>6. t[n + 1] = e
    BY <2>1, <2>5
  <2>7. Append(s, e)[n + 1] = e
    BY <2>2, <2>3, AppendProperties
  <2> HIDE DEF s, e, t
  <2>8. \A i \in 1..(n + 1) : t[i] = Append(s, e)[i]
    BY <2>1, <2>4, <2>5, <2>6, <2>7
  <2>9. t = Append(s, e)
    BY <2>1, <2>2, <2>4, <2>8, SeqEqual
  <2>10. FlattenSeq(t) = FlattenSeq(s) \o e
    BY <2>2, <2>3, <2>9, FlattenAppend
  <2>11. QED BY <2>10 DEF s, e, t
<1>7. QED BY <1>2, <1>3, <1>5, <1>6

-----------------------------------------------------------------------------
(* The initial state, and the steps that move no message *)

LEMMA InitImpliesInv == Init => DiscoveryInv
<1> SUFFICES ASSUME Init PROVE DiscoveryInv
  OBVIOUS
<1> USE DEF Init
<1>1. MaxRequests \in Nat
  BY ConstantsAssumption
<1>2. TypeOK
  BY <1>1, NoFrameFacts DEF TypeOK, Working
<1>3. \A id : Unserved(served, id)
  BY DEF Unserved
<1>4. RequestInv
  BY <1>1, <1>3 DEF RequestInv
<1>5. Wire = <<>> /\ Len(Wire) = 0
  BY ConcatEmptySeq, EmptySeq DEF Wire
<1>6. WireInv
  BY <1>5 DEF WireInv
<1>7. GatherInv
  BY DEF GatherInv, Gathered, IsInjective
<1>8. ResultInv
  BY DEF ResultInv, ResultIsComplete
<1>9. QED BY <1>2, <1>4, <1>6, <1>7, <1>8 DEF DiscoveryInv

\* What neither moves a message nor changes a request.
Still == UNCHANGED <<req, tools, buf, up, down, pending, served>>

LEMMA StillKeeps ==
    ASSUME DiscoveryInv, Still,
           pc' \in Working \union {"close", "wait", "over"},
           \/ pc' = pc
           \/ pc = "spawn" /\ pc' = "send"
           \/ pc' \in {"close", "wait", "over"},
           outcome' = outcome \/ outcome' \notin {"ok", "duplicate_tool"},
           pc' \in Working => outcome' = outcome
    PROVE  DiscoveryInv'
<1> USE DEF Still, DiscoveryInv
<1>1. TypeOK'
  BY DEF TypeOK
<1>2. \A id : Unserved(served', id) <=> Unserved(served, id)
  BY DEF Unserved
<1>3. RequestInv'
  <2>1. /\ pc' = "notify" => pc = "notify"
        /\ pc' = "spawn" => pc = "spawn"
        /\ pc' \in {"spawn", "send"} => pc \in {"spawn", "send"}
    BY DEF Working
  <2>2. QED BY <1>2, <2>1 DEF RequestInv
<1>4. WireInv'
  <2>1. Wire' = Wire
    BY DEF Wire
  <2>2. pc' = "receive" => pc = "receive"
    OBVIOUS
  <2>3. QED BY <1>2, <2>1, <2>2 DEF WireInv
<1>5. GatherInv'
  <2>1. pc' \in Working => pc \in Working
    BY DEF Working
  <2>2. Gathered' = Gathered
    BY DEF Gathered
  <2>3. QED BY <2>1, <2>2 DEF GatherInv
<1>6. ResultInv'
  <2>1. ServedTools' = ServedTools
    BY DEF ServedTools
  <2>2. outcome' = outcome => ResultIsComplete'
    BY <2>1 DEF ResultInv, ResultIsComplete
  <2>3. outcome' \notin {"ok", "duplicate_tool"} => ResultIsComplete'
    BY DEF ResultIsComplete
  <2>4. outcome' \in {"ok", "duplicate_tool"} => outcome' = outcome
    OBVIOUS
  <2>5. QED BY <1>2, <2>2, <2>3, <2>4 DEF ResultInv
<1>7. QED BY <1>1, <1>3, <1>4, <1>5, <1>6

LEMMA QuietSteps ==
    ASSUME DiscoveryInv,
           \/ Spawn \/ SpawnFails \/ SendFails \/ Eof \/ Timeout \/ Close \/ Kill \/ Reap
           \/ Deadline \/ ChildHangsUp \/ ChildExits \/ UNCHANGED vars
    PROVE  DiscoveryInv'
<1> USE DEF child, client
<1>1. CASE Spawn
  BY <1>1, StillKeeps DEF Spawn, Still, Working
<1>2. CASE SpawnFails
  BY <1>2, StillKeeps DEF SpawnFails, Still, Working
<1>3. CASE SendFails
  BY <1>3, StillKeeps DEF SendFails, Finish, Still, Working
<1>4. CASE Eof
  BY <1>4, StillKeeps DEF Eof, Finish, Still, Working
<1>5. CASE Timeout
  BY <1>5, StillKeeps DEF Timeout, Finish, Still, Working
<1>6. CASE Close
  BY <1>6, StillKeeps DEF Close, Still, Working
<1>7. CASE Reap
  BY <1>7, StillKeeps DEF Reap, Still, Working
<1>8. CASE Kill \/ Deadline \/ ChildHangsUp \/ ChildExits \/ UNCHANGED vars
  <2>1. Still /\ pc' = pc /\ outcome' = outcome
    BY <1>8 DEF Kill, Deadline, ChildHangsUp, ChildExits, vars, Still
  <2>2. pc' \in Working \union {"close", "wait", "over"}
    BY <2>1 DEF DiscoveryInv, TypeOK
  <2>3. QED BY <2>1, <2>2, StillKeeps
<1>9. QED BY <1>1, <1>2, <1>3, <1>4, <1>5, <1>6, <1>7, <1>8

-----------------------------------------------------------------------------
(* The client's messages *)

\* Writing a message the child has not been sent before.
LEMMA SendKeeps ==
    ASSUME DiscoveryInv, Send
    PROVE  DiscoveryInv'
<1> USE DEF DiscoveryInv
<1>1. /\ pc = "send" /\ pc' = "receive" /\ up' = Append(up, req)
      /\ UNCHANGED <<req, tools, outcome, buf, down, pending, served>>
  BY DEF Send, child
<1>2. req \in Nat \ {0} /\ up \in Seq(Nat)
  BY ConstantsAssumption DEF TypeOK
<1>3. /\ up' \in Seq(Nat) /\ Len(up) \in Nat /\ Len(up') = Len(up) + 1
      /\ \A k \in 1..Len(up) : up'[k] = up[k]
      /\ up'[Len(up) + 1] = req
  BY <1>1, <1>2, AppendProperties, LenProperties
<1>4. TypeOK'
  BY <1>1, <1>3 DEF TypeOK, Working
<1>5. \A id : Unserved(served', id) <=> Unserved(served, id)
  BY <1>1 DEF Unserved
<1>6. /\ req \notin pending /\ Unserved(served, req)
      /\ \A k \in 1..Len(up) : up[k] # req
  BY <1>1 DEF RequestInv
<1>7. RequestInv'
  <2>1. ASSUME NEW k \in 1..Len(up'), up'[k] # 0
        PROVE  up'[k] <= req' /\ up'[k] \notin pending' /\ Unserved(served', up'[k])
    <3>1. CASE k = Len(up) + 1
      BY <1>1, <1>2, <1>3, <1>5, <1>6, <3>1
    <3>2. CASE k \in 1..Len(up)
      BY <1>1, <1>3, <1>5, <2>1, <3>2 DEF RequestInv
    <3>3. QED BY <1>3, <3>1, <3>2
  <2>2. ASSUME NEW k \in 1..Len(up'), NEW l \in 1..Len(up'), up'[k] = up'[l], up'[k] # 0
        PROVE  k = l
    <3>1. CASE k \in 1..Len(up) /\ l \in 1..Len(up)
      BY <1>3, <2>2, <3>1 DEF RequestInv
    <3>2. CASE k = Len(up) + 1 \/ l = Len(up) + 1
      BY <1>3, <1>6, <2>2, <3>2
    <3>3. QED BY <1>3, <3>1, <3>2
  <2>3. QED BY <1>1, <1>5, <2>1, <2>2 DEF RequestInv
<1>8. WireInv'
  <2>1. Wire' = Wire
    BY <1>1 DEF Wire
  <2>2. QED BY <1>1, <1>5, <1>6, <2>1 DEF WireInv
<1>9. GatherInv'
  <2>1. Gathered' = Gathered
    BY <1>1 DEF Gathered
  <2>2. QED BY <1>1, <2>1 DEF GatherInv, Working
<1>10. ResultInv'
  BY <1>1 DEF GatherInv, ResultInv, ResultIsComplete, Working
<1>11. QED BY <1>4, <1>7, <1>8, <1>9, <1>10

LEMMA NotifyKeeps ==
    ASSUME DiscoveryInv, Notify
    PROVE  DiscoveryInv'
<1> USE DEF DiscoveryInv
<1>1. /\ pc = "notify" /\ pc' = "send" /\ up' = Append(up, 0) /\ req' = 2
      /\ UNCHANGED <<tools, outcome, buf, down, pending, served>>
  BY DEF Notify, child
<1>2. /\ req = 1 /\ 1 \in 1..MaxRequests /\ served[1] # NoFrame /\ up \in Seq(Nat)
      /\ MaxRequests \in Nat
  BY <1>1, ConstantsAssumption DEF RequestInv, Unserved, TypeOK
<1>3. /\ up' \in Seq(Nat) /\ Len(up) \in Nat /\ Len(up') = Len(up) + 1
      /\ \A k \in 1..Len(up) : up'[k] = up[k]
      /\ up'[Len(up) + 1] = 0
  BY <1>1, <1>2, AppendProperties, LenProperties
<1>4. TypeOK'
  BY <1>1, <1>2, <1>3 DEF TypeOK, Working
<1>5. \A id : Unserved(served', id) <=> Unserved(served, id)
  BY <1>1 DEF Unserved
<1>6. \A k \in 1..Len(up') : up'[k] # 0 => k \in 1..Len(up) /\ up'[k] = up[k]
  BY <1>3
<1>7. \A k \in 1..Len(up) :
        up[k] # 0 => up[k] <= 1 /\ up[k] \notin pending /\ Unserved(served, up[k])
  BY <1>2 DEF RequestInv
<1>8. RequestInv'
  <2>1. \A k \in 1..Len(up') :
          up'[k] # 0 => up'[k] <= 1 /\ up'[k] \notin pending' /\ Unserved(served', up'[k])
    BY <1>1, <1>5, <1>6, <1>7
  <2>2. \A k, l \in 1..Len(up') : up'[k] = up'[l] /\ up'[k] # 0 => k = l
    BY <1>6 DEF RequestInv
  <2>3. \A id \in pending' : id \in 1..1 /\ Unserved(served', id)
    BY <1>1, <1>2, <1>5 DEF RequestInv
  <2>4. \A id \in 1..MaxRequests : served'[id] # NoFrame => id <= 1 /\ served'[id].id = id
    BY <1>1, <1>2 DEF RequestInv
  <2>5. \A id \in 1..(req' - 1) : id <= MaxRequests /\ served'[id] # NoFrame
    BY <1>1, <1>2
  <2>6. Unserved(served', 2) /\ 2 \notin pending' /\ \A k \in 1..Len(up') : up'[k] # 2
    <3>1. 2 \in 1..MaxRequests => served'[2] = NoFrame
      BY <2>4
    <3>2. Unserved(served', 2)
      BY <3>1 DEF Unserved
    <3>3. ASSUME NEW k \in 1..Len(up') PROVE up'[k] # 2
      BY <2>1
    <3>4. QED BY <2>3, <3>2, <3>3
  <2>7. \A k \in 1..Len(up') : up'[k] # 0 => up'[k] <= req'
    <3>1. \A k \in 1..Len(up') : up'[k] \in Nat
      BY <1>3, ElementOfSeq
    <3>2. QED BY <1>1, <2>1, <3>1
  <2>8. \A id \in pending' : id \in 1..req'
    BY <1>1, <2>3
  <2>9. \A id \in 1..MaxRequests : served'[id] # NoFrame => id <= req'
    BY <1>1, <1>2, <2>4
  <2>10. pc' \notin {"notify", "spawn"} /\ pc' \in {"spawn", "send"}
    BY <1>1
  <2>11. QED BY <1>1, <2>1, <2>2, <2>3, <2>4, <2>5, <2>6, <2>7, <2>8, <2>9, <2>10, Zenon
           DEF RequestInv
<1>9. WireInv'
  <2>1. Wire' = Wire
    BY <1>1 DEF Wire
  <2>2. QED BY <1>1, <1>5, <2>1 DEF WireInv
<1>10. GatherInv'
  <2>1. outcome = "none" /\ tools = <<>> /\ IsInjective(tools)
    BY <1>1, <1>2 DEF GatherInv, Gathered, Working
  <2>2. Gathered' = FlattenSeq(Listed(served, 0))
    BY <1>1 DEF Gathered
  <2>3. FlattenSeq(Listed(served, 0)) = <<>>
    <3>1. served \in [1..MaxRequests -> Frames] /\ 0 \in 0..(MaxRequests - 1)
      BY <1>2 DEF TypeOK
    <3>2. QED BY <3>1, ListedFacts
  <2>4. QED BY <1>1, <2>1, <2>2, <2>3 DEF GatherInv
<1>11. ResultInv'
  BY <1>1 DEF GatherInv, ResultInv, ResultIsComplete, Working
<1>12. QED BY <1>4, <1>8, <1>9, <1>10, <1>11

-----------------------------------------------------------------------------
(* The frames *)

LEMMA ReadChunkKeeps ==
    ASSUME DiscoveryInv, NEW n \in 1..Len(down), ReadChunk(n)
    PROVE  DiscoveryInv'
<1> USE DEF DiscoveryInv
<1>1. /\ pc = "receive" /\ buf = <<>>
      /\ buf' = SubSeq(down, 1, n) /\ down' = SubSeq(down, n + 1, Len(down))
      /\ UNCHANGED <<pc, req, tools, outcome, up, pending, served>>
  BY DEF ReadChunk, Starved, child, client
<1>2. down \in Seq(Frames)
  BY DEF TypeOK
<1>3. buf' \in Seq(Frames) /\ down' \in Seq(Frames) /\ Wire' = Wire
  BY <1>1, <1>2, ReadKeepsWire DEF Wire
<1>4. TypeOK'
  BY <1>1, <1>3 DEF TypeOK
<1>5. RequestInv'
  BY <1>1 DEF RequestInv
<1>6. WireInv'
  BY <1>1, <1>3 DEF WireInv
<1>7. GatherInv'
  <2>1. Gathered' = Gathered
    BY <1>1 DEF Gathered
  <2>2. QED BY <1>1, <2>1 DEF GatherInv
<1>8. ResultInv'
  BY <1>1 DEF GatherInv, ResultInv, ResultIsComplete, Working
<1>9. QED BY <1>4, <1>5, <1>6, <1>7, <1>8

\* What a step that takes a frame finds and leaves.
LEMMA TookFacts ==
    ASSUME DiscoveryInv, Took, down' = down
    PROVE  /\ pc = "receive" /\ outcome = "none"
           /\ req \in 1..(MaxRequests + 1) /\ MaxRequests \in Nat
           /\ buf' \in Seq(Frames) /\ Wire' = Tail(Wire)
           /\ Wire \in Seq(Frames) /\ Len(Wire) \in Nat \ {0} /\ Len(Wire') = Len(Wire) - 1
           /\ \A k \in 1..Len(Wire') : Wire'[k] = Wire[k + 1]
           /\ Frame = Wire[1] /\ Frame \in Frames
<1> USE DEF DiscoveryInv
<1>1. buf \in Seq(Frames) /\ down \in Seq(Frames) /\ buf # <<>> /\ buf' = Tail(buf)
  BY DEF TypeOK, Took
<1>2. /\ buf' \in Seq(Frames) /\ Wire' = Tail(Wire) /\ Wire # <<>>
      /\ Frame = Wire[1] /\ Frame \in Frames
  BY <1>1, ConcatTail DEF Wire, Frame
<1>3. Wire \in Seq(Frames)
  BY <1>1, ConcatProperties DEF Wire
<1>4. /\ Len(Wire) \in Nat \ {0} /\ Len(Tail(Wire)) = Len(Wire) - 1
      /\ \A k \in 1..Len(Tail(Wire)) : Tail(Wire)[k] = Wire[k + 1]
  BY <1>2, <1>3, HeadTailProperties, EmptySeq
<1>5. pc = "receive" /\ outcome = "none"
  BY DEF Took, GatherInv, Working
<1>6. req \in 1..(MaxRequests + 1) /\ MaxRequests \in Nat
  BY ConstantsAssumption DEF TypeOK
<1>7. QED BY <1>2, <1>3, <1>4, <1>5, <1>6

\* An answer to the request in hand is the first one the child gave.
LEMMA MineIsFirst ==
    ASSUME DiscoveryInv, pc = "receive", buf # <<>>, Mine
    PROVE  /\ req \in 1..MaxRequests /\ served[req] # NoFrame
           /\ ~Unserved(served, req) /\ Frame = served[req]
<1> USE DEF DiscoveryInv
<1>1. /\ Wire \in Seq(Frames) /\ Len(Wire) \in Nat \ {0}
      /\ Frame = Wire[1] /\ Frame.id = req /\ req # 0
  <2>1. buf \in Seq(Frames) /\ down \in Seq(Frames) /\ req # 0
    BY ConstantsAssumption DEF TypeOK
  <2>2. Wire # <<>> /\ Frame = Wire[1]
    BY <2>1, ConcatTail DEF Wire, Frame
  <2>3. Wire \in Seq(Frames)
    BY <2>1, ConcatProperties DEF Wire
  <2>4. QED BY <2>1, <2>2, <2>3, EmptySeq DEF Mine
<1>2. ~Unserved(served, req)
  BY <1>1 DEF WireInv
<1>3. FirstWithId(Wire, req, served[req])
  BY <1>1, <1>2 DEF WireInv
<1>4. PICK k \in 1..Len(Wire) :
        Wire[k] = served[req] /\ \A l \in 1..(k - 1) : Wire[l].id # req
  BY <1>3 DEF FirstWithId
<1>5. k = 1
  <2>1. k # 1 => 1 \in 1..(k - 1)
    BY <1>1
  <2>2. QED BY <1>1, <1>4, <2>1
<1>6. QED BY <1>1, <1>2, <1>4, <1>5 DEF Unserved

\* Whatever a step does with a frame it takes, the others stay behind their first answers.
LEMMA TookKeepsOrder ==
    ASSUME DiscoveryInv, Took, down' = down, served' = served
    PROVE  \A k \in 1..Len(Wire') : Wire'[k].id # 0 => ~Unserved(served', Wire'[k].id)
<1> USE DEF DiscoveryInv
<1>1. /\ Len(Wire) \in Nat \ {0} /\ Len(Wire') = Len(Wire) - 1
      /\ \A k \in 1..Len(Wire') : Wire'[k] = Wire[k + 1]
  BY TookFacts
<1>2. \A k \in 1..Len(Wire') : k + 1 \in 1..Len(Wire)
  BY <1>1
<1>3. \A k \in 1..Len(Wire) : Wire[k].id # 0 => ~Unserved(served, Wire[k].id)
  BY DEF WireInv
<1>4. QED BY <1>1, <1>2, <1>3

LEMMA SkipKeeps ==
    ASSUME DiscoveryInv, Skip
    PROVE  DiscoveryInv'
<1> USE DEF DiscoveryInv
<1>1. Took /\ ~Mine /\ UNCHANGED <<pc, req, tools, outcome, up, down, pending, served>>
  BY DEF Skip, child, client
<1>2. /\ pc = "receive" /\ outcome = "none" /\ buf' \in Seq(Frames)
      /\ Len(Wire) \in Nat \ {0} /\ Len(Wire') = Len(Wire) - 1
      /\ \A k \in 1..Len(Wire') : Wire'[k] = Wire[k + 1]
      /\ Frame = Wire[1]
  BY <1>1, TookFacts
<1>3. TypeOK'
  BY <1>1, <1>2 DEF TypeOK
<1>4. RequestInv'
  BY <1>1 DEF RequestInv
<1>5. \A k \in 1..Len(Wire') : Wire'[k].id # 0 => ~Unserved(served', Wire'[k].id)
  BY <1>1, TookKeepsOrder
<1>6. ASSUME ~Unserved(served, req) PROVE FirstWithId(Wire', req, served[req])
  <2>1. PICK k \in 1..Len(Wire) :
          Wire[k] = served[req] /\ \A l \in 1..(k - 1) : Wire[l].id # req
    BY <1>2, <1>6 DEF WireInv, FirstWithId
  <2>2. served[req].id = req
    BY <1>6 DEF RequestInv, Unserved
  <2>3. k # 1
    BY <1>1, <1>2, <2>1, <2>2 DEF Mine
  <2>4. k - 1 \in 1..Len(Wire')
    BY <1>2, <2>3
  <2>5. Wire'[k - 1] = Wire[k]
    <3>1. (k - 1) + 1 = k
      BY <1>2
    <3>2. QED BY <1>2, <2>4, <3>1
  <2>6. ASSUME NEW l \in 1..((k - 1) - 1) PROVE Wire'[l].id # req
    <3>1. l \in 1..Len(Wire') /\ l + 1 \in 1..(k - 1)
      BY <1>2
    <3>2. QED BY <1>2, <2>1, <3>1
  <2>7. QED BY <2>1, <2>4, <2>5, <2>6 DEF FirstWithId
<1>7. WireInv'
  BY <1>1, <1>5, <1>6 DEF WireInv
<1>8. GatherInv'
  <2>1. Gathered' = Gathered
    BY <1>1 DEF Gathered
  <2>2. QED BY <1>1, <2>1 DEF GatherInv
<1>9. ResultInv'
  BY <1>1, <1>2 DEF ResultInv, ResultIsComplete
<1>10. QED BY <1>3, <1>4, <1>7, <1>8, <1>9

\* The end of the exchange, when what was gathered stays and only the outcome is new.
LEMMA EndKeeps ==
    ASSUME DiscoveryInv, Took, pc' = "close",
           UNCHANGED <<req, up, down, pending, served>>,
           tools' \in Seq(Entries), ResultInv'
    PROVE  DiscoveryInv'
<1> USE DEF DiscoveryInv
<1>1. buf' \in Seq(Frames)
  BY TookFacts
<1>2. TypeOK'
  BY <1>1 DEF TypeOK
<1>3. RequestInv'
  BY DEF RequestInv
<1>4. WireInv'
  <2>1. \A k \in 1..Len(Wire') : Wire'[k].id # 0 => ~Unserved(served', Wire'[k].id)
    BY TookKeepsOrder
  <2>2. QED BY <2>1 DEF WireInv
<1>5. GatherInv'
  BY DEF GatherInv, Working
<1>6. QED BY <1>2, <1>3, <1>4, <1>5

LEMMA FaultKeeps ==
    ASSUME DiscoveryInv, Fault
    PROVE  DiscoveryInv'
<1>1. /\ Took /\ pc' = "close" /\ outcome' = FrameFault
      /\ UNCHANGED <<req, tools, up, down, pending, served>>
  BY DEF Fault, Finish, child
<1>2. FrameFault \notin {"ok", "duplicate_tool"}
  BY DEF FrameFault
<1>3. ResultInv'
  BY <1>1, <1>2 DEF ResultInv, ResultIsComplete
<1>4. tools' \in Seq(Entries)
  BY <1>1 DEF DiscoveryInv, TypeOK
<1>5. QED BY <1>1, <1>3, <1>4, EndKeeps

LEMMA InitializedKeeps ==
    ASSUME DiscoveryInv, Initialized
    PROVE  DiscoveryInv'
<1> USE DEF DiscoveryInv
<1>1. /\ Took /\ Mine /\ req = 1 /\ pc' = "notify"
      /\ UNCHANGED <<req, tools, outcome, up, down, pending, served>>
  BY DEF Initialized, child
<1>2. pc = "receive" /\ outcome = "none" /\ buf' \in Seq(Frames)
  BY <1>1, TookFacts
<1>3. ~Unserved(served, 1)
  BY <1>1, MineIsFirst DEF Took
<1>4. TypeOK'
  BY <1>1, <1>2 DEF TypeOK, Working
<1>5. RequestInv'
  BY <1>1, <1>3 DEF RequestInv
<1>6. WireInv'
  <2>1. \A k \in 1..Len(Wire') : Wire'[k].id # 0 => ~Unserved(served', Wire'[k].id)
    BY <1>1, TookKeepsOrder
  <2>2. QED BY <1>1, <2>1 DEF WireInv
<1>7. GatherInv'
  <2>1. Gathered' = Gathered
    BY <1>1 DEF Gathered
  <2>2. QED BY <1>1, <1>2, <2>1 DEF GatherInv, Working
<1>8. ResultInv'
  BY <1>1, <1>2 DEF ResultInv, ResultIsComplete
<1>9. QED BY <1>4, <1>5, <1>6, <1>7, <1>8

\* With its answer, the tools served are those gathered and those of the page in hand.
LEMMA PageCompletes ==
    ASSUME DiscoveryInv, Took, down' = down, Mine, req > 1
    PROVE  /\ req \in 2..MaxRequests /\ ~Unserved(served, req)
           /\ Frame = served[req] /\ Frame.page.tools \in Seq(Entries)
           /\ tools \in Seq(Entries) /\ IsInjective(tools)
           /\ tools \o Frame.page.tools = FlattenSeq(Listed(served, req - 1))
           /\ tools \o Frame.page.tools = ServedTools
           /\ tools \o Frame.page.tools \in Seq(Entries)
<1> USE DEF DiscoveryInv
<1>1. /\ req \in 1..MaxRequests /\ ~Unserved(served, req) /\ Frame = served[req]
  BY MineIsFirst DEF Took
<1>2. MaxRequests \in Nat /\ pc = "receive" /\ Frame \in Frames
  BY TookFacts
<1>3. Frame.page.tools \in Seq(Entries)
  BY <1>2, FrameFacts
<1>4. /\ tools = FlattenSeq(Listed(served, req - 2)) /\ IsInjective(tools)
      /\ tools \in Seq(Entries)
  BY <1>1, <1>2 DEF GatherInv, Gathered, Working, TypeOK
<1>5. /\ req \in 2..MaxRequests /\ req - 2 \in 0..(MaxRequests - 1)
      /\ (req - 2) + 1 = req - 1 /\ (req - 2) + 2 = req /\ (req - 2) + 1 <= MaxRequests - 1
  BY <1>1, <1>2
<1>6. FlattenSeq(Listed(served, (req - 2) + 1)) =
        FlattenSeq(Listed(served, req - 2)) \o served[(req - 2) + 2].page.tools
  <2>1. served \in [1..MaxRequests -> Frames]
    BY DEF TypeOK
  <2> DEFINE n == req - 2
  <2>2. n \in 0..(MaxRequests - 1) /\ n + 1 <= MaxRequests - 1
    BY <1>5
  <2> HIDE DEF n
  <2>3. FlattenSeq(Listed(served, n + 1)) =
          FlattenSeq(Listed(served, n)) \o served[n + 2].page.tools
    BY <2>1, <2>2, ListedFacts
  <2>4. QED BY <2>3 DEF n
<1>7. tools \o Frame.page.tools = FlattenSeq(Listed(served, req - 1))
  BY <1>1, <1>4, <1>5, <1>6
<1>8. ServedTools = FlattenSeq(Listed(served, req - 1))
  BY DEF ServedTools, Listed
<1>9. tools \o Frame.page.tools \in Seq(Entries)
  BY <1>3, <1>4, ConcatProperties
<1>10. QED BY <1>1, <1>3, <1>4, <1>5, <1>7, <1>8, <1>9

LEMMA MorePagesKeeps ==
    ASSUME DiscoveryInv, MorePages
    PROVE  DiscoveryInv'
<1> USE DEF DiscoveryInv
<1> DEFINE page == Frame.page
<1>1. /\ Took /\ Mine /\ req > 1 /\ PageFault(page) = "none"
      /\ tools' = tools \o page.tools /\ req' = req + 1 /\ pc' = "send"
      /\ UNCHANGED <<outcome, up, down, pending, served>>
  BY DEF MorePages, GoodPage, child
<1>2. /\ req \in 2..MaxRequests /\ ~Unserved(served, req) /\ page.tools \in Seq(Entries)
      /\ tools \in Seq(Entries) /\ IsInjective(tools)
      /\ tools' = FlattenSeq(Listed(served, req - 1)) /\ tools' \in Seq(Entries)
  BY <1>1, PageCompletes
<1>3. MaxRequests \in Nat /\ outcome = "none" /\ buf' \in Seq(Frames)
  BY <1>1, TookFacts
<1> HIDE DEF page
<1>4. IsInjective(tools')
  <2>1. \A i \in DOMAIN page.tools : EntryFault(page.tools, i) = "none"
    BY <1>1, <1>2, PageFaultFacts
  <2>2. QED BY <1>1, <1>2, <2>1, GoodPageIsNew
<1>5. TypeOK'
  BY <1>1, <1>2, <1>3 DEF TypeOK, Working
<1>6. RequestInv'
  <2>1. up \in Seq(Nat) /\ \A k \in 1..Len(up) : up[k] \in Nat
    BY ElementOfSeq DEF TypeOK
  <2>2. \A k \in 1..Len(up) :
          up[k] # 0 => up[k] <= req /\ up[k] \notin pending /\ Unserved(served, up[k])
    BY DEF RequestInv
  <2>3. \A k \in 1..Len(up) : up[k] # 0 => up[k] <= req'
    BY <1>1, <1>2, <1>3, <2>1, <2>2
  <2>4. \A id \in pending : id \in 1..req /\ Unserved(served, id)
    BY DEF RequestInv
  <2>5. \A id \in pending : id \in 1..req'
    BY <1>1, <1>2, <1>3, <2>4
  <2>6. \A id \in 1..MaxRequests : served[id] # NoFrame => id <= req /\ served[id].id = id
    BY DEF RequestInv
  <2>7. \A id \in 1..MaxRequests : served[id] # NoFrame => id <= req'
    BY <1>1, <1>2, <1>3, <2>6
  <2>8. \A id \in 1..(req' - 1) : id <= MaxRequests /\ served[id] # NoFrame
    <3>1. \A id \in 1..(req - 1) : id <= MaxRequests /\ served[id] # NoFrame
      BY DEF RequestInv
    <3>2. served[req] # NoFrame
      BY <1>2 DEF Unserved
    <3>3. \A id \in 1..(req' - 1) : id = req \/ id \in 1..(req - 1)
      BY <1>1, <1>2, <1>3
    <3>4. QED BY <1>2, <3>1, <3>2, <3>3
  <2>9. req' \notin pending /\ Unserved(served, req') /\ \A k \in 1..Len(up) : up[k] # req'
    <3>1. ~(req' <= req) /\ req' # 0 /\ req' \notin 1..req
      BY <1>1, <1>2, <1>3
    <3>2. QED BY <2>2, <2>4, <2>6, <3>1 DEF Unserved
  <2>10. pc' \notin {"notify", "spawn"}
    BY <1>1
  <2>11. \A k, l \in 1..Len(up) : up[k] = up[l] /\ up[k] # 0 => k = l
    BY DEF RequestInv
  <2>12. QED BY <1>1, <2>2, <2>3, <2>4, <2>5, <2>6, <2>7, <2>8, <2>9, <2>10, <2>11, Zenon
           DEF RequestInv
<1>7. WireInv'
  <2>1. \A k \in 1..Len(Wire') : Wire'[k].id # 0 => ~Unserved(served', Wire'[k].id)
    BY <1>1, TookKeepsOrder
  <2>2. QED BY <1>1, <2>1 DEF WireInv
<1>8. GatherInv'
  <2>1. req' # 1 /\ req' - 2 = req - 1
    BY <1>1, <1>2, <1>3
  <2>2. Gathered' = FlattenSeq(Listed(served, req - 1))
    BY <1>1, <2>1 DEF Gathered
  <2>3. QED BY <1>1, <1>2, <1>3, <1>4, <2>2 DEF GatherInv
<1>9. ResultInv'
  BY <1>1, <1>3 DEF ResultInv, ResultIsComplete
<1>10. QED BY <1>5, <1>6, <1>7, <1>8, <1>9

LEMMA LastPageKeeps ==
    ASSUME DiscoveryInv, LastPage
    PROVE  DiscoveryInv'
<1> DEFINE page == Frame.page
<1>1. /\ Took /\ Mine /\ req > 1 /\ PageFault(page) = "none"
      /\ Frame.type = "result" /\ page.cursor = "end"
      /\ tools' = tools \o page.tools /\ outcome' = "ok" /\ pc' = "close"
      /\ UNCHANGED <<req, up, down, pending, served>>
  BY DEF LastPage, GoodPage, Finish, child
<1>2. /\ req \in 2..MaxRequests /\ ~Unserved(served, req) /\ page.tools \in Seq(Entries)
      /\ Frame = served[req]
      /\ tools \in Seq(Entries) /\ IsInjective(tools)
      /\ tools' = ServedTools /\ tools' \in Seq(Entries)
  BY <1>1, PageCompletes
<1>3. served[req].type = "result" /\ served[req].page.cursor = "end"
  BY <1>1, <1>2
<1> HIDE DEF page
<1>4. IsInjective(tools')
  <2>1. \A i \in DOMAIN page.tools : EntryFault(page.tools, i) = "none"
    BY <1>1, <1>2, PageFaultFacts
  <2>2. QED BY <1>1, <1>2, <2>1, GoodPageIsNew
<1>5. ServedTools' = ServedTools
  BY <1>1 DEF ServedTools
<1>6. ResultInv'
  BY <1>1, <1>2, <1>3, <1>4, <1>5 DEF ResultInv, ResultIsComplete
<1>7. QED BY <1>1, <1>2, <1>6, EndKeeps

LEMMA BadPageKeeps ==
    ASSUME DiscoveryInv, BadPage
    PROVE  DiscoveryInv'
<1> DEFINE page == Frame.page
<1>1. /\ Took /\ Mine /\ req > 1 /\ outcome' = PageFault(page) /\ pc' = "close"
      /\ UNCHANGED <<req, tools, up, down, pending, served>>
  BY DEF BadPage, Finish, child
<1>2. /\ ~Unserved(served, req) /\ page.tools \in Seq(Entries)
      /\ tools \in Seq(Entries) /\ tools \o page.tools = ServedTools
  BY <1>1, PageCompletes
<1> HIDE DEF page
<1>3. outcome' # "ok"
  BY <1>1, <1>2, PageFaultFacts
<1>4. outcome' = "duplicate_tool" => ~IsInjective(ServedTools)
  <2> SUFFICES ASSUME outcome' = "duplicate_tool" PROVE ~IsInjective(ServedTools)
    OBVIOUS
  <2>1. PICK i \in DOMAIN page.tools : EntryFault(page.tools, i) = "duplicate_tool"
    BY <1>1, <1>2, PageFaultFacts
  <2>2. QED BY <1>2, <2>1, DuplicateIsDuplicate
<1>5. ServedTools' = ServedTools
  BY <1>1 DEF ServedTools
<1>6. ResultInv'
  BY <1>1, <1>2, <1>3, <1>4, <1>5 DEF ResultInv, ResultIsComplete
<1>7. QED BY <1>1, <1>2, <1>6, EndKeeps

-----------------------------------------------------------------------------
(* The child *)

LEMMA ChildReadsKeeps ==
    ASSUME DiscoveryInv, ChildReads
    PROVE  DiscoveryInv'
<1> USE DEF DiscoveryInv
<1>1. /\ up # <<>> /\ up' = Tail(up)
      /\ pending' = IF Head(up) = 0 THEN pending ELSE pending \union {Head(up)}
      /\ UNCHANGED <<pc, req, tools, outcome, buf, down, served>>
  BY DEF ChildReads, client
<1>2. up \in Seq(Nat) /\ req \in Nat
  BY ConstantsAssumption DEF TypeOK
<1>3. /\ up' \in Seq(Nat) /\ Len(up) \in Nat \ {0} /\ Len(up') = Len(up) - 1
      /\ \A k \in 1..Len(up') : up'[k] = up[k + 1]
  BY <1>1, <1>2, HeadTailProperties, EmptySeq
<1>4. Head(up) = up[1] /\ up[1] \in Nat /\ 1 \in 1..Len(up)
  BY <1>2, <1>3, ElementOfSeq
<1>5. TypeOK'
  <2>1. pending' \subseteq Nat
    BY <1>1, <1>4 DEF TypeOK
  <2>2. QED BY <1>1, <1>3, <2>1 DEF TypeOK
<1>6. \A k \in 1..Len(up') : k + 1 \in 1..Len(up) /\ k + 1 # 1
  BY <1>3
<1>7. \A k, l \in 1..Len(up) : up[k] = up[l] /\ up[k] # 0 => k = l
  BY DEF RequestInv
<1>8. \A k \in 1..Len(up) :
        up[k] # 0 => up[k] <= req /\ up[k] \notin pending /\ Unserved(served, up[k])
  BY DEF RequestInv
<1>9. RequestInv'
  <2>1. ASSUME NEW k \in 1..Len(up'), up'[k] # 0
        PROVE  up'[k] <= req' /\ up'[k] \notin pending' /\ Unserved(served', up'[k])
    <3>1. up'[k] = up[k + 1] /\ k + 1 \in 1..Len(up) /\ k + 1 # 1
      BY <1>3, <1>6
    <3>2. up[k + 1] # up[1]
      BY <1>4, <1>7, <2>1, <3>1
    <3>3. QED BY <1>1, <1>4, <1>8, <2>1, <3>1, <3>2
  <2>2. ASSUME NEW k \in 1..Len(up'), NEW l \in 1..Len(up'), up'[k] = up'[l], up'[k] # 0
        PROVE  k = l
    <3>1. up'[k] = up[k + 1] /\ up'[l] = up[l + 1]
      BY <1>3
    <3>2. k + 1 = l + 1
      BY <1>6, <1>7, <2>2, <3>1
    <3>3. QED BY <1>3, <3>2
  <2>3. ASSUME NEW id \in pending' PROVE id \in 1..req' /\ Unserved(served', id)
    <3>1. CASE id \in pending
      BY <1>1, <3>1 DEF RequestInv
    <3>2. CASE id \notin pending
      <4>1. id = up[1] /\ up[1] # 0
        BY <1>1, <1>4, <3>2
      <4>2. QED BY <1>1, <1>2, <1>4, <1>8, <4>1
    <3>3. QED BY <3>1, <3>2
  <2>4. ASSUME pc' \in {"spawn", "send"}
        PROVE  req' \notin pending' /\ \A k \in 1..Len(up') : up'[k] # req'
    <3>1. req \notin pending /\ \A k \in 1..Len(up) : up[k] # req
      BY <1>1, <2>4 DEF RequestInv
    <3>2. QED BY <1>1, <1>3, <1>4, <1>6, <3>1
  <2>5. /\ \A id \in 1..MaxRequests : served[id] # NoFrame => id <= req /\ served[id].id = id
        /\ \A id \in 1..(req - 1) : id <= MaxRequests /\ served[id] # NoFrame
        /\ pc \in {"spawn", "send"} => Unserved(served, req)
        /\ pc = "notify" => req = 1 /\ ~Unserved(served, 1)
        /\ pc = "spawn" => req = 1
    BY DEF RequestInv
  <2>6. QED BY <1>1, <2>1, <2>2, <2>3, <2>4, <2>5, Zenon DEF RequestInv
<1>10. WireInv'
  <2>1. Wire' = Wire
    BY <1>1 DEF Wire
  <2>2. QED BY <1>1, <2>1 DEF WireInv
<1>11. GatherInv'
  <2>1. Gathered' = Gathered
    BY <1>1 DEF Gathered
  <2>2. QED BY <1>1, <2>1 DEF GatherInv
<1>12. ResultInv'
  <2>1. ServedTools' = ServedTools
    BY <1>1 DEF ServedTools
  <2>2. QED BY <1>1, <2>1 DEF ResultInv, ResultIsComplete
<1>13. QED BY <1>5, <1>9, <1>10, <1>11, <1>12

\* A frame written to the pipe comes last.
LEMMA WireGrows ==
    ASSUME TypeOK, NEW f \in Frames, down' = Append(down, f), buf' = buf
    PROVE  /\ down' \in Seq(Frames) /\ Len(Wire) \in Nat /\ Len(Wire') = Len(Wire) + 1
           /\ \A k \in 1..Len(Wire) : Wire'[k] = Wire[k]
           /\ Wire'[Len(Wire) + 1] = f
           /\ \A id, g : FirstWithId(Wire, id, g) => FirstWithId(Wire', id, g)
<1>1. buf \in Seq(Frames) /\ down \in Seq(Frames)
  BY DEF TypeOK
<1>2. Wire \in Seq(Frames) /\ Wire' = Append(Wire, f)
  BY <1>1, ConcatAppend, ConcatProperties DEF Wire
<1>3. down' \in Seq(Frames)
  BY <1>1, AppendProperties
<1>4. /\ Len(Wire) \in Nat /\ Len(Wire') = Len(Wire) + 1
      /\ \A k \in 1..Len(Wire) : Wire'[k] = Wire[k]
      /\ Wire'[Len(Wire) + 1] = f
  BY <1>2, AppendProperties, LenProperties
<1>5. ASSUME NEW id, NEW g, FirstWithId(Wire, id, g) PROVE FirstWithId(Wire', id, g)
  <2>1. PICK k \in 1..Len(Wire) : Wire[k] = g /\ \A l \in 1..(k - 1) : Wire[l].id # id
    BY <1>5 DEF FirstWithId
  <2>2. k \in 1..Len(Wire') /\ \A l \in 1..(k - 1) : l \in 1..Len(Wire)
    BY <1>4
  <2>3. QED BY <1>4, <2>1, <2>2 DEF FirstWithId
<1>6. QED BY <1>3, <1>4, <1>5

\* Only the request in hand can be waiting for its first answer.
LEMMA ChildAnswersKeeps ==
    ASSUME DiscoveryInv, NEW id \in pending, NEW type \in AnswerTypes, NEW page \in Pages,
           ChildAnswers(id, type, page)
    PROVE  DiscoveryInv'
<1> USE DEF DiscoveryInv
<1> DEFINE f == Answer(id, type, page)
<1>1. /\ id <= MaxRequests /\ pending' = pending \ {id}
      /\ down' = Append(down, f) /\ served' = [served EXCEPT ![id] = f]
      /\ UNCHANGED <<pc, req, tools, outcome, buf, up>>
  BY DEF ChildAnswers, client
<1>2. id \in 1..req /\ Unserved(served, id)
  BY DEF RequestInv
<1>3. req \in 1..(MaxRequests + 1) /\ MaxRequests \in Nat
  BY ConstantsAssumption DEF TypeOK
<1>4. id \in 1..MaxRequests /\ served[id] = NoFrame
  BY <1>1, <1>2, <1>3 DEF Unserved
<1>5. id = req
  <2>1. id \notin 1..(req - 1)
    BY <1>4 DEF RequestInv
  <2>2. QED BY <1>2, <1>3, <2>1
<1>6. f \in Frames /\ f.id = id /\ f # NoFrame
  BY <1>4, AnswerFacts
<1> HIDE DEF f
<1>7. /\ served \in [1..MaxRequests -> Frames]
      /\ served' \in [1..MaxRequests -> Frames] /\ served'[req] = f
      /\ \A n \in 1..MaxRequests : n # req => served'[n] = served[n]
  BY <1>1, <1>4, <1>5, <1>6 DEF TypeOK
<1>8. /\ down' \in Seq(Frames) /\ Len(Wire) \in Nat /\ Len(Wire') = Len(Wire) + 1
      /\ \A k \in 1..Len(Wire) : Wire'[k] = Wire[k]
      /\ Wire'[Len(Wire) + 1] = f
  BY <1>1, <1>6, WireGrows
<1>9. TypeOK'
  BY <1>1, <1>7, <1>8 DEF TypeOK
<1>10. /\ ~Unserved(served', req) /\ Unserved(served, req)
       /\ \A n : n # req => (Unserved(served', n) <=> Unserved(served, n))
  BY <1>4, <1>5, <1>6, <1>7 DEF Unserved
<1>11. pc \notin {"spawn", "send"} /\ pc # "notify"
  <2>1. pc \in {"spawn", "send"} => req \notin pending
    BY DEF RequestInv
  <2>2. pc = "notify" => req = 1 /\ ~Unserved(served, 1)
    BY DEF RequestInv
  <2>3. QED BY <1>5, <1>10, <2>1, <2>2
<1>12. RequestInv'
  <2>1. ASSUME NEW k \in 1..Len(up), up[k] # 0
        PROVE  up[k] <= req /\ up[k] \notin pending' /\ Unserved(served', up[k])
    <3>1. up[k] <= req /\ up[k] \notin pending /\ Unserved(served, up[k])
      BY <2>1 DEF RequestInv
    <3>2. up[k] # req
      BY <1>5, <3>1
    <3>3. QED BY <1>1, <1>10, <3>1, <3>2
  <2>2. ASSUME NEW n \in pending' PROVE n \in 1..req /\ Unserved(served', n)
    <3>1. n \in pending /\ n # req
      BY <1>1, <1>5
    <3>2. QED BY <1>10, <3>1 DEF RequestInv
  <2>3. ASSUME NEW n \in 1..MaxRequests, served'[n] # NoFrame
        PROVE  n <= req /\ served'[n].id = n
    <3>1. CASE n = req
      BY <1>3, <1>5, <1>6, <1>7, <3>1
    <3>2. CASE n # req
      BY <1>7, <2>3, <3>2 DEF RequestInv
    <3>3. QED BY <3>1, <3>2
  <2>4. ASSUME NEW n \in 1..(req - 1) PROVE n <= MaxRequests /\ served'[n] # NoFrame
    <3>1. n <= MaxRequests /\ served[n] # NoFrame
      BY DEF RequestInv
    <3>2. n \in 1..MaxRequests /\ n # req
      BY <1>3, <3>1
    <3>3. QED BY <1>7, <3>1, <3>2
  <2>5. \A k, l \in 1..Len(up) : up[k] = up[l] /\ up[k] # 0 => k = l
    BY DEF RequestInv
  <2>6. QED BY <1>1, <1>11, <2>1, <2>2, <2>3, <2>4, <2>5, Zenon DEF RequestInv
<1>13. \A k \in 1..Len(Wire) : Wire[k].id # req
  <2>1. req # 0
    BY <1>3
  <2>2. QED BY <1>10, <2>1 DEF WireInv
<1>14. WireInv'
  <2>1. ASSUME NEW k \in 1..Len(Wire'), Wire'[k].id # 0
        PROVE  ~Unserved(served', Wire'[k].id)
    <3>1. CASE k = Len(Wire) + 1
      BY <1>5, <1>6, <1>8, <1>10, <3>1
    <3>2. CASE k \in 1..Len(Wire)
      BY <1>8, <1>10, <1>13, <2>1, <3>2 DEF WireInv
    <3>3. QED BY <1>8, <3>1, <3>2
  <2>2. FirstWithId(Wire', req, served'[req])
    <3> DEFINE m == Len(Wire) + 1
    <3>1. m \in 1..Len(Wire') /\ Wire'[m] = served'[req]
      BY <1>7, <1>8
    <3>2. \A l \in 1..(m - 1) : Wire'[l].id # req
      BY <1>8, <1>13
    <3> HIDE DEF m
    <3>3. QED BY <3>1, <3>2 DEF FirstWithId
  <2>3. QED BY <1>1, <2>1, <2>2 DEF WireInv
<1>15. GatherInv'
  <2>1. req # 1 => Listed(served', req - 2) = Listed(served, req - 2)
    <3> SUFFICES ASSUME req # 1 PROVE Listed(served', req - 2) = Listed(served, req - 2)
      OBVIOUS
    <3>1. \A k \in 1..(req - 2) : k + 1 \in 1..MaxRequests /\ k + 1 # req
      BY <1>3
    <3>2. \A k \in 1..(req - 2) : served'[k + 1] = served[k + 1]
      BY <1>7, <3>1
    <3>3. QED BY <3>2 DEF Listed
  <2>2. Gathered' = Gathered
    BY <1>1, <2>1 DEF Gathered
  <2>3. QED BY <1>1, <2>2 DEF GatherInv
<1>16. ResultInv'
  <2>1. outcome \notin {"ok", "duplicate_tool"}
    BY <1>10 DEF ResultInv
  <2>2. QED BY <1>1, <2>1 DEF ResultInv, ResultIsComplete
<1>17. QED BY <1>9, <1>12, <1>14, <1>15, <1>16

\* A frame that repeats an id, or has none, changes nothing that matters.
LEMMA ExtraFrameKeeps ==
    ASSUME DiscoveryInv, NEW f \in Frames, f.id # 0 => ~Unserved(served, f.id),
           down' = Append(down, f),
           UNCHANGED <<pc, req, tools, outcome, buf, up, pending, served>>
    PROVE  DiscoveryInv'
<1> USE DEF DiscoveryInv
<1>1. /\ down' \in Seq(Frames) /\ Len(Wire) \in Nat /\ Len(Wire') = Len(Wire) + 1
      /\ \A k \in 1..Len(Wire) : Wire'[k] = Wire[k]
      /\ Wire'[Len(Wire) + 1] = f
      /\ \A id, g : FirstWithId(Wire, id, g) => FirstWithId(Wire', id, g)
  BY WireGrows
<1>2. TypeOK'
  BY <1>1 DEF TypeOK
<1>3. RequestInv'
  BY DEF RequestInv
<1>4. WireInv'
  <2>1. ASSUME NEW k \in 1..Len(Wire'), Wire'[k].id # 0
        PROVE  ~Unserved(served', Wire'[k].id)
    <3>1. CASE k = Len(Wire) + 1
      BY <1>1, <2>1, <3>1
    <3>2. CASE k \in 1..Len(Wire)
      BY <1>1, <2>1, <3>2 DEF WireInv
    <3>3. QED BY <1>1, <3>1, <3>2
  <2>2. pc = "receive" /\ ~Unserved(served, req) => FirstWithId(Wire', req, served[req])
    BY <1>1 DEF WireInv
  <2>3. QED BY <2>1, <2>2 DEF WireInv
<1>5. GatherInv'
  <2>1. Gathered' = Gathered
    BY DEF Gathered
  <2>2. QED BY <2>1 DEF GatherInv
<1>6. ResultInv'
  <2>1. ServedTools' = ServedTools
    BY DEF ServedTools
  <2>2. QED BY <2>1 DEF ResultInv, ResultIsComplete
<1>7. QED BY <1>2, <1>3, <1>4, <1>5, <1>6

LEMMA ChildRepeatsKeeps ==
    ASSUME DiscoveryInv, NEW id \in 1..MaxRequests, NEW page \in Pages,
           ChildRepeats(id, page)
    PROVE  DiscoveryInv'
<1> DEFINE f == Answer(id, "result", page)
<1>1. /\ served[id] # NoFrame /\ down' = Append(down, f)
      /\ UNCHANGED <<pc, req, tools, outcome, buf, up, pending, served>>
  BY DEF ChildRepeats, client
<1>2. f \in Frames /\ f.id = id
  BY AnswerFacts
<1> HIDE DEF f
<1>3. ~Unserved(served, id)
  BY <1>1 DEF Unserved
<1>4. QED BY <1>1, <1>2, <1>3, ExtraFrameKeeps

LEMMA ChildChattersKeeps ==
    ASSUME DiscoveryInv, NEW type \in ChatterTypes, ChildChatters(type)
    PROVE  DiscoveryInv'
<1> DEFINE f == [NoFrame EXCEPT !.type = type]
<1>1. /\ down' = Append(down, f)
      /\ UNCHANGED <<pc, req, tools, outcome, buf, up, pending, served>>
  BY DEF ChildChatters, client
<1>2. f \in Frames /\ f.id = 0
  BY ChatterFacts
<1> HIDE DEF f
<1>3. QED BY <1>1, <1>2, ExtraFrameKeeps

-----------------------------------------------------------------------------
(* The theorem *)

LEMMA NextKeepsInv == DiscoveryInv /\ [Next]_vars => DiscoveryInv'
<1> SUFFICES ASSUME DiscoveryInv, [Next]_vars PROVE DiscoveryInv'
  OBVIOUS
<1>1. CASE \/ Spawn \/ SpawnFails \/ SendFails \/ Eof \/ Timeout \/ Close \/ Kill \/ Reap
           \/ Deadline \/ ChildHangsUp \/ ChildExits \/ UNCHANGED vars
  BY <1>1, QuietSteps
<1>2. CASE Send
  BY <1>2, SendKeeps
<1>3. CASE Notify
  BY <1>3, NotifyKeeps
<1>4. CASE \E n \in 1..Len(down) : ReadChunk(n)
  BY <1>4, ReadChunkKeeps
<1>5. CASE Skip
  BY <1>5, SkipKeeps
<1>6. CASE Fault
  BY <1>6, FaultKeeps
<1>7. CASE Initialized
  BY <1>7, InitializedKeeps
<1>8. CASE MorePages
  BY <1>8, MorePagesKeeps
<1>9. CASE LastPage
  BY <1>9, LastPageKeeps
<1>10. CASE BadPage
  BY <1>10, BadPageKeeps
<1>11. CASE ChildReads
  BY <1>11, ChildReadsKeeps
<1>12. CASE \E id \in pending, type \in AnswerTypes, page \in Pages : ChildAnswers(id, type, page)
  BY <1>12, ChildAnswersKeeps
<1>13. CASE \E id \in 1..MaxRequests, page \in Pages : ChildRepeats(id, page)
  BY <1>13, ChildRepeatsKeeps
<1>14. CASE \E type \in ChatterTypes : ChildChatters(type)
  BY <1>14, ChildChattersKeeps
<1>15. QED
  BY <1>1, <1>2, <1>3, <1>4, <1>5, <1>6, <1>7, <1>8, <1>9, <1>10, <1>11, <1>12, <1>13, <1>14,
     Zenon DEF Next, Work, Read, Child

\* discover() of mcp_source.py returns the complete tool list or an error: what it returns
\* is the pages the child first served for each of its list requests, up to the one without
\* a cursor, whatever late, second, contradictory or unasked frames came between; and only a
\* child that announced a name twice is reported for it.
THEOREM DiscoveryIsComplete == Spec => []ResultIsComplete
<1>1. DiscoveryInv => ResultIsComplete
  BY DEF DiscoveryInv, ResultInv
<1>2. QED BY <1>1, InitImpliesInv, NextKeepsInv, PTL DEF Spec

\* receive() compares ids: the frame that request() takes for its answer is the first one the
\* child gave to that request, never a repeated one and never one for another request.
AnswerIsFirst ==
    pc = "receive" /\ buf # <<>> /\ Mine => req <= MaxRequests /\ Frame = served[req]

\* Request and answer are never mixed up, however the child repeats itself.
THEOREM AnswersAreNotMixedUp == Spec => []AnswerIsFirst
<1>1. DiscoveryInv => AnswerIsFirst
  BY MineIsFirst, ConstantsAssumption DEF AnswerIsFirst
<1>2. QED BY <1>1, InitImpliesInv, NextKeepsInv, PTL DEF Spec
=============================================================================
