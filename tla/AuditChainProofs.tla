-------------------------- MODULE AuditChainProofs --------------------------
(***************************************************************************)
(* Theorems about AuditChain, for every number of records, threads and     *)
(* processes, and every pattern of faults, crashes and backups.            *)
(*                                                                         *)
(* The argument: a hash is the pair it was computed from, so in a chain    *)
(* that nobody raced or edited all the hashes are different (Distinct):    *)
(* the new one contains the tip, and two equal hashes would make the       *)
(* hashes below them equal too.  Hence a record hung on anything but the   *)
(* tip is not sound, and neither is one whose neighbour was changed or     *)
(* taken away; and what is not sound stays so, because records are only    *)
(* appended.                                                               *)
(***************************************************************************)
EXTENDS AuditChain, SequenceTheorems, TLAPS

\* Sequences and records of values of any kind: a hash has no type of its own.
IsSeq(s) == s \in Seq(Range(s))

IsRow(r) == r = [seq |-> r.seq, body |-> r.body, prev_hash |-> r.prev_hash,
                 record_hash |-> r.record_hash]

IsTable(t) == t = [rows |-> t.rows, mark |-> t.mark, next |-> t.next] /\ IsSeq(t.rows)

IsLoc(l) == l = [body |-> l.body, tip |-> l.tip, stale |-> l.stale] /\ l.stale \in BOOLEAN

Open == {"mark", "commit"}

TypeOK ==
    /\ IsTable(table)
    /\ writer \in Threads \union {None} /\ lock \in [Processes -> Threads \union {None}]
    /\ pc \in [Threads -> {"idle", "insert"} \union Open]
    /\ loc = [t \in Threads |-> loc[t]] /\ \A t \in Threads : IsLoc(loc[t])
    /\ tampered \in {"none", "fresh", "appended"} /\ {raced, tipKept} \subseteq BOOLEAN

\* A thread in append_audit holds its process's lock, and SQLite's once it has inserted.
OwnerInv ==
    \A t \in Threads :
        /\ pc[t] # "idle" => lock[Home[t]] = t
        /\ pc[t] \in Open <=> writer = t

Grown(tbl, l) == Append(tbl.rows, NewRecord(l, tbl.next))

\* What the open transaction has done so far.
ViewInv ==
    /\ writer = None => view = table
    /\ \A t \in Threads :
          /\ pc[t] = "mark" =>
                view = [rows |-> Grown(table, loc[t]), mark |-> table.mark,
                        next |-> table.next + 1]
          /\ pc[t] = "commit" =>
                view = [rows |-> Grown(table, loc[t]),
                        mark |-> [seq |-> table.next, hash |-> Digest(loc[t].body, loc[t].tip)],
                        next |-> table.next + 1]

\* Before(rows, i) for i up to Len(rows) + 1 are the hashes of the chain, from GENESIS to the tip.
Distinct(rows) ==
    \A i, j \in 1..(Len(rows) + 1) : Before(rows, i) = Before(rows, j) => i = j

Broken(rows) == \E i \in 1..Len(rows) : ~Sound(rows, i)

Numbered(tbl) ==
    /\ \A i \in 1..Len(tbl.rows) : IsRow(tbl.rows[i]) /\ tbl.rows[i].seq = i
    /\ tbl.next = Len(tbl.rows) + 1
    /\ tbl.mark = [seq |-> Len(tbl.rows), hash |-> Tip(tbl.rows)]

\* The tip a thread read is still the tip, or was one.
TipRead(rows, l) ==
    IF l.stale THEN \E j \in 1..Len(rows) : l.tip = Before(rows, j) ELSE l.tip = Tip(rows)

ChainInv ==
    tampered = "none" =>
        /\ Numbered(table)
        /\ Written(table.rows) = log
        /\ raced => Broken(table.rows)
        /\ ~raced => ~Broken(table.rows) /\ Distinct(table.rows)
        /\ \A t \in Threads : pc[t] # "idle" => TipRead(table.rows, loc[t])

TamperInv ==
    /\ tampered = "fresh" => ~Verify(table).ok
    /\ tampered # "none" /\ tipKept => Broken(table.rows)

CopyInv ==
    /\ IsSeq(copy.rows)
    /\ tampered = "none" => IsPrefix(Written(copy.rows), log) /\ (raced \/ Verify(copy).ok)

AuditInv == TypeOK /\ OwnerInv /\ ViewInv /\ ChainInv /\ TamperInv /\ CopyInv

-----------------------------------------------------------------------------
(* Sequences of records *)

LEMMA SeqFacts ==
    ASSUME NEW s, IsSeq(s)
    PROVE  /\ Len(s) \in Nat /\ DOMAIN s = 1..Len(s)
           /\ s = <<>> <=> Len(s) = 0
BY LenProperties, EmptySeq DEF IsSeq

LEMMA AppendSeq ==
    ASSUME NEW s, IsSeq(s), NEW e
    PROVE  /\ IsSeq(Append(s, e)) /\ Append(s, e) # <<>>
           /\ Len(Append(s, e)) = Len(s) + 1
           /\ \A i \in 1..Len(s) : Append(s, e)[i] = s[i]
           /\ Append(s, e)[Len(s) + 1] = e
<1> DEFINE S == Range(s) \union {e}
<1>1. s \in Seq(S) /\ e \in S
  <2>1. Range(s) \subseteq S /\ s \in Seq(Range(s))
    BY DEF IsSeq
  <2>2. s \in Seq(S)
    BY <2>1, SeqMonotonic
  <2>3. QED BY <2>2
<1> HIDE DEF S
<1>2. Append(s, e) \in Seq(S)
  BY <1>1, AppendProperties
<1>3. IsSeq(Append(s, e))
  BY <1>2, SeqOfRange DEF IsSeq
<1>4. QED BY <1>1, <1>3, AppendProperties

LEMMA SubSeqSeq ==
    ASSUME NEW s, IsSeq(s), NEW m \in 1..(Len(s) + 1), NEW n \in 0..Len(s)
    PROVE  /\ SubSeq(s, m, n) \in Seq(Range(s)) /\ IsSeq(SubSeq(s, m, n))
           /\ Len(SubSeq(s, m, n)) = IF m <= n THEN n - m + 1 ELSE 0
           /\ \A i \in 1..(n - m + 1) : SubSeq(s, m, n)[i] = s[m + i - 1]
<1>1. Len(s) \in Nat /\ DOMAIN s = 1..Len(s)
  BY SeqFacts
<1>2. \A i \in m..n : s[i] \in Range(s)
  <2>1. \A i \in m..n : i \in DOMAIN s
    BY <1>1
  <2>2. QED BY <2>1 DEF Range
<1>3. m \in Int /\ n \in Int
  BY <1>1
<1>4. /\ SubSeq(s, m, n) \in Seq(Range(s))
      /\ Len(SubSeq(s, m, n)) = IF m <= n THEN n - m + 1 ELSE 0
      /\ \A i \in 1..(n - m + 1) : SubSeq(s, m, n)[i] = s[m + i - 1]
  BY <1>2, <1>3, SubSeqProperties
<1>5. IsSeq(SubSeq(s, m, n))
  BY <1>4, SeqOfRange DEF IsSeq
<1>6. QED BY <1>4, <1>5

\* Removing row i moves the later ones down by one.
LEMMA RemoveAtFacts ==
    ASSUME NEW s, IsSeq(s), NEW i \in 1..Len(s), NEW v, v = RemoveAt(s, i)
    PROVE  /\ IsSeq(v) /\ Len(v) = Len(s) - 1
           /\ \A j \in 1..(Len(s) - 1) : v[j] = IF j < i THEN s[j] ELSE s[j + 1]
<1>1. Len(s) \in Nat /\ i \in Nat
  BY SeqFacts
<1> DEFINE a == SubSeq(s, 1, i - 1)
           b == SubSeq(s, i + 1, Len(s))
           S == Range(s)
<1>2. /\ 1 \in 1..(Len(s) + 1) /\ i - 1 \in 0..Len(s)
      /\ i + 1 \in 1..(Len(s) + 1) /\ Len(s) \in 0..Len(s)
  BY <1>1
<1>3. /\ a \in Seq(S) /\ Len(a) = i - 1
      /\ \A j \in 1..(i - 1) : a[j] = s[j]
  <2>1. /\ a \in Seq(S) /\ Len(a) = IF 1 <= i - 1 THEN i - 1 - 1 + 1 ELSE 0
        /\ \A j \in 1..(i - 1 - 1 + 1) : a[j] = s[1 + j - 1]
    BY <1>2, SubSeqSeq
  <2> HIDE DEF a, S
  <2>2. i - 1 - 1 + 1 = i - 1 /\ \A j \in 1..(i - 1) : 1 + j - 1 = j
    BY <1>1
  <2>3. Len(a) = i - 1
    BY <1>1, <2>1
  <2>4. QED BY <2>1, <2>2, <2>3
<1>4. /\ b \in Seq(S) /\ Len(b) = Len(s) - i
      /\ \A j \in 1..(Len(s) - i) : b[j] = s[i + j]
  <2>1. /\ b \in Seq(S)
        /\ Len(b) = IF i + 1 <= Len(s) THEN Len(s) - (i + 1) + 1 ELSE 0
        /\ \A j \in 1..(Len(s) - (i + 1) + 1) : b[j] = s[i + 1 + j - 1]
    BY <1>2, SubSeqSeq
  <2> HIDE DEF b, S
  <2>2. Len(s) - (i + 1) + 1 = Len(s) - i /\ \A j \in 1..(Len(s) - i) : i + 1 + j - 1 = i + j
    BY <1>1
  <2>3. Len(b) = Len(s) - i
    BY <1>1, <2>1
  <2>4. QED BY <2>1, <2>2, <2>3
<1>5. v = a \o b
  BY DEF RemoveAt
<1> HIDE DEF a, b, S
<1>6. /\ a \o b \in Seq(S) /\ Len(a \o b) = Len(a) + Len(b)
      /\ \A j \in 1..(Len(a) + Len(b)) :
            (a \o b)[j] = IF j <= Len(a) THEN a[j] ELSE b[j - Len(a)]
  BY <1>3, <1>4, ConcatProperties
<1>7. Len(a) + Len(b) = Len(s) - 1
  BY <1>1, <1>3, <1>4
<1>8. ASSUME NEW j \in 1..(Len(s) - 1)
      PROVE  v[j] = IF j < i THEN s[j] ELSE s[j + 1]
  <2>1. v[j] = IF j <= i - 1 THEN a[j] ELSE b[j - (i - 1)]
    BY <1>3, <1>5, <1>6, <1>7
  <2>2. CASE j < i
    <3>1. j \in 1..(i - 1) /\ j <= i - 1
      BY <1>1, <2>2
    <3>2. QED BY <1>3, <2>1, <2>2, <3>1
  <2>3. CASE ~(j < i)
    <3>1. ~(j <= i - 1) /\ j - (i - 1) \in 1..(Len(s) - i) /\ i + (j - (i - 1)) = j + 1
      BY <1>1, <2>3
    <3>2. QED BY <1>4, <2>1, <2>3, <3>1
  <2>4. QED BY <2>2, <2>3
<1>9. IsSeq(v)
  BY <1>5, <1>6, SeqOfRange DEF IsSeq
<1>10. QED BY <1>5, <1>6, <1>7, <1>8, <1>9

-----------------------------------------------------------------------------
(* The chain *)

LEMMA TipIsLastHash ==
    ASSUME NEW rows, IsSeq(rows)
    PROVE  Tip(rows) = Before(rows, Len(rows) + 1)
<1>1. Len(rows) \in Nat /\ (rows = <<>> <=> Len(rows) = 0)
  BY SeqFacts
<1>2. Len(rows) + 1 - 1 = Len(rows) /\ (Len(rows) + 1 = 1 <=> Len(rows) = 0)
  BY <1>1
<1>3. QED BY <1>1, <1>2 DEF Tip, Before, Last

\* verify_chain succeeds exactly when no record is broken and the tip is the mark's.
LEMMA VerifyOk ==
    ASSUME NEW t, IsSeq(t.rows)
    PROVE  Verify(t).ok <=> ~Broken(t.rows) /\ HeadMatches(t)
<1> DEFINE broken == {i \in DOMAIN t.rows : ~Sound(t.rows, i)}
<1>1. broken = {} <=> ~Broken(t.rows)
  <2>1. DOMAIN t.rows = 1..Len(t.rows)
    BY SeqFacts
  <2>2. QED BY <2>1, Zenon DEF Broken
<1>2. CASE broken # {}
  <2>1. Verify(t) = [ok |-> FALSE, records |-> Min(broken) - 1,
                     broken_at |-> t.rows[Min(broken)].seq]
    BY <1>2, Zenon DEF Verify
  <2>2. Verify(t).ok = FALSE
    BY <2>1
  <2>3. QED BY <1>1, <1>2, <2>2, Zenon
<1>3. CASE broken = {} /\ ~HeadMatches(t)
  <2>1. Verify(t) = [ok |-> FALSE, records |-> Len(t.rows), broken_at |-> t.mark.seq]
    BY <1>3, Zenon DEF Verify
  <2>2. Verify(t).ok = FALSE
    BY <2>1
  <2>3. QED BY <1>3, <2>2, Zenon
<1>4. CASE broken = {} /\ HeadMatches(t)
  <2>1. Verify(t) = [ok |-> TRUE, records |-> Len(t.rows), broken_at |-> 0]
    BY <1>4, Zenon DEF Verify
  <2>2. Verify(t).ok = TRUE
    BY <2>1
  <2>3. QED BY <1>1, <1>4, <2>2, Zenon
<1>5. QED BY <1>2, <1>3, <1>4

\* An append leaves the records before it as sound, or as broken, as they were.
LEMMA ChainAppend ==
    ASSUME NEW rows, IsSeq(rows), NEW r, NEW w, w = Append(rows, r)
    PROVE  /\ \A i \in 1..(Len(rows) + 1) : Before(w, i) = Before(rows, i)
           /\ Before(w, Len(rows) + 2) = r.record_hash
           /\ \A i \in 1..Len(rows) : Sound(w, i) <=> Sound(rows, i)
           /\ Sound(w, Len(rows) + 1) <=>
                 r.prev_hash = Tip(rows) /\ r.record_hash = Digest(r.body, r.prev_hash)
<1>1. /\ Len(rows) \in Nat /\ Len(w) = Len(rows) + 1
      /\ \A i \in 1..Len(rows) : w[i] = rows[i]
      /\ w[Len(rows) + 1] = r
  BY SeqFacts, AppendSeq
<1>2. ASSUME NEW i \in 1..(Len(rows) + 1) PROVE Before(w, i) = Before(rows, i)
  <2>1. i = 1 \/ i - 1 \in 1..Len(rows)
    BY <1>1
  <2>2. QED BY <1>1, <2>1 DEF Before
<1>3. Before(w, Len(rows) + 2) = r.record_hash
  <2>1. Len(rows) + 2 - 1 = Len(rows) + 1 /\ Len(rows) + 2 # 1
    BY <1>1
  <2>2. QED BY <1>1, <2>1 DEF Before
<1>4. ASSUME NEW i \in 1..Len(rows) PROVE Sound(w, i) <=> Sound(rows, i)
  <2>1. w[i] = rows[i] /\ Before(w, i) = Before(rows, i)
    <3>1. i \in 1..(Len(rows) + 1)
      BY <1>1
    <3>2. QED BY <1>1, <1>2, <3>1
  <2>2. QED BY <2>1 DEF Sound
<1>5. Sound(w, Len(rows) + 1) <=>
        r.prev_hash = Tip(rows) /\ r.record_hash = Digest(r.body, r.prev_hash)
  <2>1. Before(w, Len(rows) + 1) = Tip(rows)
    <3>1. Len(rows) + 1 \in 1..(Len(rows) + 1)
      BY <1>1
    <3>2. QED BY <1>2, <3>1, TipIsLastHash
  <2>2. QED BY <1>1, <2>1 DEF Sound
<1>6. QED BY <1>2, <1>3, <1>4, <1>5

LEMMA BrokenStays ==
    ASSUME NEW rows, IsSeq(rows), Broken(rows), NEW r
    PROVE  Broken(Append(rows, r))
<1>1. PICK i \in 1..Len(rows) : ~Sound(rows, i)
  BY DEF Broken
<1>2. ~Sound(Append(rows, r), i)
  BY <1>1, ChainAppend
<1>3. i \in 1..Len(Append(rows, r))
  BY SeqFacts, AppendSeq
<1>4. QED BY <1>2, <1>3 DEF Broken

\* A record hung on the tip keeps a good chain good.
LEMMA ChainGrows ==
    ASSUME NEW rows, IsSeq(rows), ~Broken(rows), Distinct(rows), NEW r, NEW b,
           r.prev_hash = Tip(rows), r.body = b, r.record_hash = Digest(b, Tip(rows)),
           NEW w, w = Append(rows, r)
    PROVE  ~Broken(w) /\ Distinct(w)
<1>1. Len(rows) \in Nat /\ Len(w) = Len(rows) + 1
  BY SeqFacts, AppendSeq
<1>2. /\ \A i \in 1..(Len(rows) + 1) : Before(w, i) = Before(rows, i)
      /\ Before(w, Len(rows) + 2) = <<b, Tip(rows)>>
      /\ \A i \in 1..Len(rows) : Sound(w, i) <=> Sound(rows, i)
      /\ Sound(w, Len(rows) + 1)
  BY ChainAppend DEF Digest
<1>3. ~Broken(w)
  <2>1. ASSUME NEW i \in 1..Len(w) PROVE Sound(w, i)
    <3>1. i \in 1..Len(rows) \/ i = Len(rows) + 1
      BY <1>1
    <3>2. QED BY <1>2, <3>1 DEF Broken
  <2>2. QED BY <2>1 DEF Broken
<1>4. ASSUME NEW j \in 1..(Len(rows) + 1) PROVE Before(rows, j) # <<b, Tip(rows)>>
  <2>1. CASE j = 1
    <3>1. Before(rows, j) = <<>>
      BY <2>1 DEF Before, GENESIS
    <3>2. <<>> # <<b, Tip(rows)>>
      OBVIOUS
    <3>3. QED BY <3>1, <3>2
  <2>2. CASE j # 1
    <3>1. j - 1 \in 1..Len(rows) /\ j - 1 \in 1..(Len(rows) + 1) /\ j - 1 # Len(rows) + 1
          /\ Len(rows) + 1 \in 1..(Len(rows) + 1)
      BY <1>1, <2>2
    <3>2. Sound(rows, j - 1)
      BY <3>1 DEF Broken
    <3>3. Before(rows, j) = <<rows[j - 1].body, Before(rows, j - 1)>>
      BY <2>2, <3>2 DEF Sound, Before, Digest
    <3>4. Before(rows, j - 1) # Tip(rows)
      BY <3>1, TipIsLastHash DEF Distinct
    <3>5. QED BY <3>3, <3>4
  <2>3. QED BY <2>1, <2>2
<1>5. ASSUME NEW i \in 1..(Len(w) + 1), NEW j \in 1..(Len(w) + 1),
             Before(w, i) = Before(w, j)
      PROVE  i = j
  <2>1. /\ i \in 1..(Len(rows) + 1) \/ i = Len(rows) + 2
        /\ j \in 1..(Len(rows) + 1) \/ j = Len(rows) + 2
    BY <1>1
  <2>2. QED BY <1>2, <1>4, <1>5, <2>1 DEF Distinct
<1>6. QED BY <1>3, <1>5 DEF Distinct

\* A record hung on an earlier record is broken.
LEMMA ChainRaced ==
    ASSUME NEW rows, IsSeq(rows), Distinct(rows), NEW r, NEW j \in 1..Len(rows),
           r.prev_hash = Before(rows, j), NEW w, w = Append(rows, r)
    PROVE  Broken(w)
<1>1. Len(rows) \in Nat /\ Len(w) = Len(rows) + 1
  BY SeqFacts, AppendSeq
<1>2. /\ j \in 1..(Len(rows) + 1) /\ j # Len(rows) + 1
      /\ Len(rows) + 1 \in 1..(Len(rows) + 1) /\ Len(rows) + 1 \in 1..Len(w)
  BY <1>1
<1>3. Before(rows, j) # Tip(rows)
  BY <1>2, TipIsLastHash DEF Distinct
<1>4. ~Sound(w, Len(rows) + 1)
  BY <1>3, ChainAppend
<1>5. QED BY <1>2, <1>4 DEF Broken

-----------------------------------------------------------------------------
(* Tampering *)

WithRow(rows, i, e) == [rows EXCEPT ![i] = e]

LEMMA SetRow ==
    ASSUME NEW rows, IsSeq(rows), NEW i \in 1..Len(rows), NEW e,
           NEW w, w = WithRow(rows, i, e)
    PROVE  /\ IsSeq(w) /\ Len(w) = Len(rows)
           /\ w[i] = e /\ \A j \in 1..Len(rows) : j # i => w[j] = rows[j]
<1> DEFINE S == Range(rows) \union {e}
<1>1. rows \in Seq(S) /\ e \in S
  <2>1. Range(rows) \subseteq S /\ rows \in Seq(Range(rows))
    BY DEF IsSeq
  <2>2. rows \in Seq(S)
    BY <2>1, SeqMonotonic
  <2>3. QED BY <2>2
<1> HIDE DEF S
<1>2. /\ w \in Seq(S) /\ Len(w) = Len(rows)
      /\ \A j \in 1..Len(rows) : w[j] = IF j = i THEN e ELSE rows[j]
  BY <1>1, ExceptSeq DEF WithRow
<1>3. QED BY <1>2, SeqOfRange DEF IsSeq

\* Both edits replace one row.
LEMMA EditsAreRows ==
    ASSUME NEW rows, IsSeq(rows), NEW i \in 1..Len(rows), IsRow(rows[i]), NEW b
    PROVE  /\ EditBody(rows, i, b) =
                [rows EXCEPT ![i] = [seq |-> rows[i].seq, body |-> b,
                                     prev_hash |-> rows[i].prev_hash,
                                     record_hash |-> rows[i].record_hash]]
           /\ Rehash(rows, i, b) =
                [rows EXCEPT ![i] = [seq |-> rows[i].seq, body |-> b,
                                     prev_hash |-> rows[i].prev_hash,
                                     record_hash |-> Digest(b, rows[i].prev_hash)]]
<1>1. PICK r : r = rows[i]
  OBVIOUS
<1>2. PICK q, h, g : q = r.seq /\ h = r.prev_hash /\ g = r.record_hash
  OBVIOUS
<1>3. r = [seq |-> q, body |-> r.body, prev_hash |-> h, record_hash |-> g]
  BY <1>1, <1>2 DEF IsRow
<1>4. [r EXCEPT !.body = b] = [seq |-> q, body |-> b, prev_hash |-> h, record_hash |-> g]
  BY <1>3
<1>5. ASSUME NEW d
      PROVE  [[seq |-> q, body |-> b, prev_hash |-> h, record_hash |-> g]
                EXCEPT !.record_hash = d] =
             [seq |-> q, body |-> b, prev_hash |-> h, record_hash |-> d]
  OBVIOUS
<1>6. i \in DOMAIN rows
  BY SeqFacts
<1>7. EditBody(rows, i, b) = [rows EXCEPT ![i] = [r EXCEPT !.body = b]]
  BY <1>1, <1>6 DEF EditBody
<1>8. EditBody(rows, i, b) = [rows EXCEPT ![i] =
          [seq |-> q, body |-> b, prev_hash |-> h, record_hash |-> g]]
  BY <1>4, <1>7
<1>9. PICK v : v = EditBody(rows, i, b)
  OBVIOUS
<1>10. v[i] = [seq |-> q, body |-> b, prev_hash |-> h, record_hash |-> g]
       /\ i \in DOMAIN v
  BY <1>6, <1>8, <1>9
<1>11. ASSUME NEW d
       PROVE  [v EXCEPT ![i].record_hash = d] =
              [rows EXCEPT ![i] = [seq |-> q, body |-> b, prev_hash |-> h, record_hash |-> d]]
  <2>1. [v EXCEPT ![i].record_hash = d] =
        [v EXCEPT ![i] = [seq |-> q, body |-> b, prev_hash |-> h, record_hash |-> d]]
    BY <1>5, <1>10
  <2>2. QED BY <1>6, <1>8, <1>9, <2>1
<1>12. Rehash(rows, i, b) = [v EXCEPT ![i].record_hash = Digest(b, rows[i].prev_hash)]
  BY <1>9 DEF Rehash, EditBody
<1>13. QED BY <1>1, <1>2, <1>8, <1>11, <1>12

GoodRows(rows) ==
    /\ IsSeq(rows) /\ ~Broken(rows) /\ Distinct(rows)
    /\ \A i \in 1..Len(rows) : IsRow(rows[i]) /\ rows[i].seq = i

\* Whatever is done to a good chain leaves a broken record or another tip.
Exposed(rows, w) == Broken(w) \/ TipSeq(w) # TipSeq(rows) \/ Tip(w) # Tip(rows)

LEMMA GoodSound ==
    ASSUME NEW rows, GoodRows(rows), NEW i \in 1..Len(rows)
    PROVE  /\ rows[i].prev_hash = Before(rows, i)
           /\ rows[i].record_hash = <<rows[i].body, Before(rows, i)>>
           /\ Before(rows, i + 1) = rows[i].record_hash
<1>1. Sound(rows, i)
  BY DEF GoodRows, Broken
<1>2. i \in Nat /\ i + 1 # 1 /\ i + 1 - 1 = i
  BY SeqFacts DEF GoodRows
<1>3. QED BY <1>1, <1>2 DEF Sound, Digest, Before

LEMMA GoodTip ==
    ASSUME NEW rows, GoodRows(rows), rows # <<>>
    PROVE  /\ Len(rows) \in Nat /\ Len(rows) \in 1..Len(rows)
           /\ TipSeq(rows) = Len(rows) /\ Tip(rows) = rows[Len(rows)].record_hash
<1>1. Len(rows) \in Nat /\ Len(rows) # 0
  BY SeqFacts DEF GoodRows
<1>2. Len(rows) \in 1..Len(rows)
  BY <1>1
<1>3. QED BY <1>1, <1>2 DEF GoodRows, TipSeq, Tip, Last

LEMMA EditExposed ==
    ASSUME NEW rows, GoodRows(rows), NEW i \in 1..Len(rows), NEW b, b # rows[i].body,
           NEW w, w = EditBody(rows, i, b)
    PROVE  IsSeq(w) /\ Exposed(rows, w)
<1>1. PICK e : e = [seq |-> rows[i].seq, body |-> b, prev_hash |-> rows[i].prev_hash,
                    record_hash |-> rows[i].record_hash]
  OBVIOUS
<1>2. IsSeq(rows) /\ IsRow(rows[i])
  BY DEF GoodRows
<1>3. w = WithRow(rows, i, e)
  BY <1>1, <1>2, EditsAreRows DEF WithRow
<1>4. IsSeq(w) /\ Len(w) = Len(rows) /\ w[i] = e
  BY <1>2, <1>3, SetRow
<1>5. e.body = b /\ e.prev_hash = rows[i].prev_hash /\ e.record_hash = rows[i].record_hash
  BY <1>1
<1>6. rows[i].record_hash = <<rows[i].body, rows[i].prev_hash>>
  BY GoodSound
<1>7. ~Sound(w, i)
  BY <1>4, <1>5, <1>6 DEF Sound, Digest
<1>8. QED BY <1>4, <1>7 DEF Exposed, Broken

LEMMA RehashExposed ==
    ASSUME NEW rows, GoodRows(rows), NEW i \in 1..Len(rows), NEW b, b # rows[i].body,
           NEW w, w = Rehash(rows, i, b)
    PROVE  IsSeq(w) /\ Exposed(rows, w)
<1>1. PICK e : e = [seq |-> rows[i].seq, body |-> b, prev_hash |-> rows[i].prev_hash,
                    record_hash |-> Digest(b, rows[i].prev_hash)]
  OBVIOUS
<1>2. IsSeq(rows) /\ IsRow(rows[i]) /\ Len(rows) \in Nat /\ rows # <<>>
  BY SeqFacts DEF GoodRows
<1>3. w = WithRow(rows, i, e)
  BY <1>1, <1>2, EditsAreRows DEF WithRow
<1>4. /\ IsSeq(w) /\ Len(w) = Len(rows) /\ w[i] = e
      /\ \A j \in 1..Len(rows) : j # i => w[j] = rows[j]
  BY <1>2, <1>3, SetRow
<1>5. e.record_hash = <<b, rows[i].prev_hash>>
  BY <1>1 DEF Digest
<1>6. e.record_hash # rows[i].record_hash
  <2>1. rows[i].record_hash = <<rows[i].body, rows[i].prev_hash>>
    BY GoodSound
  <2>2. QED BY <1>5, <2>1
<1>7. CASE i = Len(rows)
  <2>1. w # <<>>
    BY <1>2, <1>4, SeqFacts
  <2>2. Tip(w) = e.record_hash /\ Tip(rows) = rows[i].record_hash
    BY <1>2, <1>4, <1>7, <2>1 DEF Tip, Last
  <2>3. QED BY <1>4, <1>6, <2>2 DEF Exposed
<1>8. CASE i # Len(rows)
  <2>1. i + 1 \in 1..Len(rows) /\ i + 1 # i /\ i + 1 # 1 /\ i + 1 - 1 = i
    BY <1>2, <1>8
  <2>2. w[i + 1].prev_hash = rows[i].record_hash
    <3>1. rows[i + 1].prev_hash = Before(rows, i + 1)
      BY <2>1, GoodSound
    <3>2. QED BY <1>4, <2>1, <3>1, GoodSound
  <2>3. Before(w, i + 1) = e.record_hash
    BY <1>4, <2>1 DEF Before
  <2>4. ~Sound(w, i + 1)
    BY <1>6, <2>2, <2>3 DEF Sound
  <2>5. QED BY <1>4, <2>1, <2>4 DEF Exposed, Broken
<1>9. QED BY <1>7, <1>8

LEMMA RemoveExposed ==
    ASSUME NEW rows, GoodRows(rows), NEW i \in 1..Len(rows), NEW w, w = RemoveAt(rows, i)
    PROVE  IsSeq(w) /\ Exposed(rows, w)
<1>1. IsSeq(rows) /\ Len(rows) \in Nat /\ rows # <<>>
  BY SeqFacts DEF GoodRows
<1>2. /\ IsSeq(w) /\ Len(w) = Len(rows) - 1
      /\ \A j \in 1..(Len(rows) - 1) : w[j] = IF j < i THEN rows[j] ELSE rows[j + 1]
  BY <1>1, RemoveAtFacts
<1>3. CASE i = Len(rows)
  <2>1. TipSeq(w) = Len(rows) - 1
    <3>1. CASE Len(rows) - 1 = 0
      BY <1>1, <1>2, <3>1, SeqFacts DEF TipSeq
    <3>2. CASE Len(rows) - 1 # 0
      <4>1. /\ Len(rows) - 1 \in 1..(Len(rows) - 1) /\ Len(rows) - 1 < i
            /\ Len(rows) - 1 \in 1..Len(rows)
        BY <1>1, <1>3, <3>2
      <4>2. w # <<>>
        BY <1>2, <3>2, SeqFacts
      <4>3. w[Len(w)] = rows[Len(rows) - 1]
        BY <1>2, <4>1
      <4>4. QED BY <4>1, <4>2, <4>3 DEF TipSeq, Last, GoodRows
    <3>3. QED BY <3>1, <3>2
  <2>2. TipSeq(rows) = Len(rows)
    BY <1>1, GoodTip
  <2>3. QED BY <1>1, <1>2, <2>1, <2>2 DEF Exposed
<1>4. CASE i # Len(rows)
  <2>1. /\ i \in 1..(Len(rows) - 1) /\ ~(i < i) /\ i + 1 \in 1..Len(rows)
        /\ i \in 1..(Len(rows) + 1) /\ i + 1 \in 1..(Len(rows) + 1) /\ i # i + 1
        /\ i = 1 \/ (i - 1 \in 1..(Len(rows) - 1) /\ i - 1 < i)
    BY <1>1, <1>4
  <2>2. w[i] = rows[i + 1]
    BY <1>2, <2>1
  <2>3. w[i].prev_hash = Before(rows, i + 1)
    BY <2>1, <2>2, GoodSound
  <2>4. Before(w, i) = Before(rows, i)
    <3>1. i # 1 => w[i - 1] = rows[i - 1]
      BY <1>2, <2>1
    <3>2. QED BY <3>1 DEF Before
  <2>5. Before(rows, i) # Before(rows, i + 1)
    BY <2>1 DEF GoodRows, Distinct
  <2>6. ~Sound(w, i)
    BY <2>3, <2>4, <2>5 DEF Sound
  <2>7. QED BY <1>2, <2>1, <2>6 DEF Exposed, Broken
<1>5. QED BY <1>3, <1>4

LEMMA TruncateExposed ==
    ASSUME NEW rows, GoodRows(rows), NEW i \in 1..Len(rows), NEW w, w = Truncate(rows, i)
    PROVE  IsSeq(w) /\ Exposed(rows, w)
<1>1. IsSeq(rows) /\ Len(rows) \in Nat /\ rows # <<>>
  BY SeqFacts DEF GoodRows
<1>2. 1 \in 1..(Len(rows) + 1) /\ i - 1 \in 0..Len(rows) /\ i - 1 - 1 + 1 = i - 1
  BY <1>1
<1>3. /\ IsSeq(w) /\ Len(w) = IF 1 <= i - 1 THEN i - 1 - 1 + 1 ELSE 0
      /\ \A j \in 1..(i - 1 - 1 + 1) : w[j] = rows[1 + j - 1]
  BY <1>1, <1>2, SubSeqSeq DEF Truncate
<1>4. Len(w) = i - 1
  BY <1>1, <1>2, <1>3
<1>5. TipSeq(w) = i - 1
  <2>1. CASE i - 1 = 0
    BY <1>3, <1>4, <2>1, SeqFacts DEF TipSeq
  <2>2. CASE i - 1 # 0
    <3>1. i - 1 \in 1..(i - 1) /\ 1 + (i - 1) - 1 = i - 1 /\ i - 1 \in 1..Len(rows)
      BY <1>1, <2>2
    <3>2. w[Len(w)] = rows[i - 1]
      BY <1>2, <1>3, <1>4, <3>1
    <3>3. w # <<>>
      BY <1>3, <1>4, <2>2, SeqFacts
    <3>4. QED BY <3>1, <3>2, <3>3 DEF TipSeq, Last, GoodRows
  <2>3. QED BY <2>1, <2>2
<1>6. TipSeq(rows) = Len(rows)
  BY <1>1, GoodTip
<1>7. QED BY <1>1, <1>3, <1>5, <1>6 DEF Exposed

-----------------------------------------------------------------------------
(* Who holds what *)

StoreInv == TypeOK /\ OwnerInv /\ ViewInv

WithStale(l, v) == [l EXCEPT !.stale = v]

LEMMA StaleFacts ==
    ASSUME NEW l, IsLoc(l), NEW v \in BOOLEAN, NEW m, m = WithStale(l, v)
    PROVE  IsLoc(m) /\ m.body = l.body /\ m.tip = l.tip /\ m.stale = v
<1>1. PICK b, h, x : b = l.body /\ h = l.tip /\ x = l.stale
  OBVIOUS
<1>2. l = [body |-> b, tip |-> h, stale |-> x]
  BY <1>1 DEF IsLoc
<1>3. m = [body |-> b, tip |-> h, stale |-> v]
  BY <1>2 DEF WithStale
<1>4. m.body = b /\ m.tip = h /\ m.stale = v
  BY <1>3
<1>5. QED BY <1>1, <1>3, <1>4 DEF IsLoc

LEMMA NoLocType == IsLoc(NoLoc)
BY DEF IsLoc, NoLoc

\* Calls that are over hold nothing; the others hold what they held.
LEMMA OverFacts ==
    ASSUME TypeOK, OwnerInv, NEW T, T \subseteq Threads, Over(T)
    PROVE  /\ writer' \in Threads \union {None} /\ lock' \in [Processes -> Threads \union {None}]
           /\ pc' \in [Threads -> {"idle", "insert"} \union Open]
           /\ OwnerInv'
           /\ \A t \in Threads : pc'[t] # "idle" => t \notin T /\ pc'[t] = pc[t]
<1>1. /\ writer \in Threads \union {None} /\ lock \in [Processes -> Threads \union {None}]
      /\ pc \in [Threads -> {"idle", "insert"} \union Open] /\ None \notin Threads
      /\ Home \in [Threads -> Processes]
  BY HomeAssumption DEF TypeOK
<1>2. /\ writer' = IF writer \in T THEN None ELSE writer
      /\ lock' = [p \in Processes |-> IF lock[p] \in T THEN None ELSE lock[p]]
      /\ pc' = [t \in Threads |-> IF t \in T THEN "idle" ELSE pc[t]]
  BY DEF Over
<1>3. ASSUME NEW t \in Threads
      PROVE  /\ pc'[t] # "idle" => lock'[Home[t]] = t
             /\ pc'[t] \in Open <=> writer' = t
  BY <1>1, <1>2 DEF OwnerInv, Open
<1>4. OwnerInv'
  BY <1>3 DEF OwnerInv, Open
<1>5. QED BY <1>1, <1>2, <1>4 DEF Open

LEMMA ReadTipStep ==
    ASSUME StoreInv, NEW t \in Threads, NEW b \in Bodies, ReadTip(t, b)
    PROVE  /\ StoreInv' /\ UNCHANGED <<database, copy, history>>
           /\ \A u \in Threads \ {t} : loc'[u] = loc[u] /\ pc'[u] = pc[u]
           /\ loc'[t] = [body |-> b, tip |-> Tip(table.rows), stale |-> FALSE]
<1>1. /\ TypeOK /\ OwnerInv /\ ViewInv /\ None \notin Threads
      /\ Home \in [Threads -> Processes]
  BY HomeAssumption DEF StoreInv
<1>2. /\ pc[t] = "idle" /\ lock[Home[t]] = None
      /\ lock' = [lock EXCEPT ![Home[t]] = t]
      /\ loc' = [loc EXCEPT ![t] = [body |-> b, tip |-> Tip(table.rows), stale |-> FALSE]]
      /\ pc' = [pc EXCEPT ![t] = "insert"]
      /\ UNCHANGED <<database, copy, history>>
  BY DEF ReadTip
<1>3. UNCHANGED <<table, writer, view, tampered, raced, tipKept>>
  BY <1>2 DEF database, history
<1>4. /\ loc = [u \in Threads |-> loc[u]] /\ \A u \in Threads : IsLoc(loc[u])
      /\ pc \in [Threads -> {"idle", "insert"} \union Open]
      /\ lock \in [Processes -> Threads \union {None}]
  BY <1>1 DEF TypeOK
<1>5. /\ \A u \in Threads \ {t} : loc'[u] = loc[u] /\ pc'[u] = pc[u]
      /\ loc'[t] = [body |-> b, tip |-> Tip(table.rows), stale |-> FALSE]
      /\ pc'[t] = "insert" /\ loc' = [u \in Threads |-> loc'[u]]
  BY <1>2, <1>4
<1>6. IsLoc(loc'[t])
  BY <1>5 DEF IsLoc
<1>7. TypeOK'
  <2>1. \A u \in Threads : IsLoc(loc'[u])
    BY <1>4, <1>5, <1>6
  <2>2. pc' \in [Threads -> {"idle", "insert"} \union Open]
        /\ lock' \in [Processes -> Threads \union {None}]
    BY <1>1, <1>2, <1>4 DEF Open
  <2>3. QED BY <1>1, <1>3, <1>5, <2>1, <2>2 DEF TypeOK, IsTable, IsSeq, IsLoc, Open
<1>8. OwnerInv'
  <2>1. ASSUME NEW u \in Threads
        PROVE  /\ pc'[u] # "idle" => lock'[Home[u]] = u
               /\ pc'[u] \in Open <=> writer' = u
    BY <1>1, <1>2, <1>3, <1>4, <1>5 DEF OwnerInv, Open
  <2>2. QED BY <2>1 DEF OwnerInv, Open
<1>9. ViewInv'
  BY <1>1, <1>3, <1>5 DEF ViewInv, Grown, NewRecord, Digest
<1>10. QED BY <1>2, <1>5, <1>7, <1>8, <1>9 DEF StoreInv

LEMMA InsertStep ==
    ASSUME StoreInv, NEW t \in Threads, Insert(t)
    PROVE  /\ StoreInv' /\ UNCHANGED <<table, loc, copy, history>>
           /\ \A u \in Threads : pc'[u] # "idle" => pc[u] # "idle"
<1>1. /\ TypeOK /\ OwnerInv /\ ViewInv /\ None \notin Threads
  BY HomeAssumption DEF StoreInv
<1>2. /\ pc[t] = "insert" /\ writer = None /\ writer' = t
      /\ view' = [table EXCEPT !.rows = Append(@, NewRecord(loc[t], table.next)), !.next = @ + 1]
      /\ pc' = [pc EXCEPT ![t] = "mark"]
      /\ UNCHANGED <<table, lock, loc, copy, history>>
  BY DEF Insert
<1>3. pc \in [Threads -> {"idle", "insert"} \union Open]
  BY <1>1 DEF TypeOK
<1>4. UNCHANGED <<tampered, raced, tipKept>>
  BY <1>2 DEF history
<1>5. TypeOK'
  <2>1. pc' \in [Threads -> {"idle", "insert"} \union Open] /\ writer' \in Threads \union {None}
    BY <1>2, <1>3 DEF Open
  <2>2. QED BY <1>1, <1>2, <1>4, <2>1 DEF TypeOK, IsTable, IsSeq, IsLoc, Open
<1>6. OwnerInv'
  BY <1>1, <1>2, <1>3 DEF OwnerInv, Open
<1>7. \A u \in Threads : u # t => pc'[u] \notin Open
  BY <1>1, <1>2, <1>3 DEF OwnerInv
<1>8. view' = [rows |-> Grown(table, loc[t]), mark |-> table.mark, next |-> table.next + 1]
  <2>1. PICK r, m, n : r = table.rows /\ m = table.mark /\ n = table.next
    OBVIOUS
  <2>2. table = [rows |-> r, mark |-> m, next |-> n]
    BY <1>1, <2>1 DEF TypeOK, IsTable
  <2>3. view' = [rows |-> Append(r, NewRecord(loc[t], n)), mark |-> m, next |-> n + 1]
    BY <1>2, <2>1, <2>2
  <2>4. QED BY <2>1, <2>3 DEF Grown
<1>9. ViewInv'
  <2>1. pc'[t] = "mark" /\ pc' = [pc EXCEPT ![t] = "mark"]
    BY <1>2, <1>3
  <2>2. \A u \in Threads : pc'[u] = "mark" => u = t
    BY <1>7 DEF Open
  <2>3. \A u \in Threads : pc'[u] # "commit"
    BY <1>7, <2>1 DEF Open
  <2>4. QED BY <1>1, <1>2, <1>8, <2>2, <2>3 DEF ViewInv, Grown, NewRecord, Digest
<1>10. QED BY <1>2, <1>3, <1>5, <1>6, <1>9 DEF StoreInv

LEMMA MarkStep ==
    ASSUME StoreInv, NEW t \in Threads, AdvanceMark(t)
    PROVE  /\ StoreInv' /\ UNCHANGED <<table, loc, copy, history>>
           /\ \A u \in Threads : pc'[u] # "idle" => pc[u] # "idle"
<1>1. /\ TypeOK /\ OwnerInv /\ ViewInv /\ None \notin Threads
  BY HomeAssumption DEF StoreInv
<1>2. /\ pc[t] = "mark"
      /\ view' = [view EXCEPT !.mark = [seq |-> TipSeq(view.rows), hash |-> Tip(view.rows)]]
      /\ pc' = [pc EXCEPT ![t] = "commit"]
      /\ UNCHANGED <<table, writer, lock, loc, copy, history>>
  BY DEF AdvanceMark
<1>3. pc \in [Threads -> {"idle", "insert"} \union Open]
  BY <1>1 DEF TypeOK
<1>4. UNCHANGED <<tampered, raced, tipKept>>
  BY <1>2 DEF history
<1>5. TypeOK'
  <2>1. pc' \in [Threads -> {"idle", "insert"} \union Open]
    BY <1>2, <1>3 DEF Open
  <2>2. QED BY <1>1, <1>2, <1>4, <2>1 DEF TypeOK, IsTable, IsSeq, IsLoc, Open
<1>6. OwnerInv'
  BY <1>1, <1>2, <1>3 DEF OwnerInv, Open
<1>7. \A u \in Threads : u # t => pc'[u] \notin Open
  BY <1>1, <1>2, <1>3 DEF OwnerInv, Open
<1>8. writer = t
  BY <1>1, <1>2 DEF OwnerInv, Open
<1>9. view' = [rows |-> Grown(table, loc[t]),
               mark |-> [seq |-> table.next, hash |-> Digest(loc[t].body, loc[t].tip)],
               next |-> table.next + 1]
  <2>1. PICK g, m, n : g = Grown(table, loc[t]) /\ m = table.mark /\ n = table.next + 1
    OBVIOUS
  <2>2. view = [rows |-> g, mark |-> m, next |-> n]
    BY <1>1, <1>2, <2>1 DEF ViewInv
  <2>3. view.rows = g
    BY <2>2
  <2>4. ASSUME NEW x PROVE [view EXCEPT !.mark = x] = [rows |-> g, mark |-> x, next |-> n]
    BY <2>2
  <2>5. PICK r : r = NewRecord(loc[t], table.next)
    OBVIOUS
  <2>6. r.seq = table.next /\ r.record_hash = Digest(loc[t].body, loc[t].tip)
    BY <2>5 DEF NewRecord
  <2>7. g # <<>> /\ Last(g) = r
    <3>1. IsSeq(table.rows) /\ g = Append(table.rows, r)
      BY <1>1, <2>1, <2>5 DEF TypeOK, IsTable, Grown
    <3>2. QED BY <3>1, AppendSeq DEF Last
  <2>8. TipSeq(g) = table.next /\ Tip(g) = Digest(loc[t].body, loc[t].tip)
    BY <2>6, <2>7 DEF TipSeq, Tip
  <2>9. QED BY <1>2, <2>1, <2>3, <2>4, <2>8
<1>10. ViewInv'
  <2>1. pc'[t] = "commit"
    BY <1>2, <1>3
  <2>2. \A u \in Threads : pc'[u] = "commit" => u = t
    BY <1>7 DEF Open
  <2>3. \A u \in Threads : pc'[u] # "mark"
    BY <1>7, <2>1 DEF Open
  <2>4. writer' # None
    BY <1>1, <1>2, <1>8
  <2>5. QED BY <1>2, <1>9, <2>2, <2>3, <2>4 DEF ViewInv, Grown, NewRecord, Digest
<1>11. QED BY <1>2, <1>3, <1>5, <1>6, <1>10 DEF StoreInv

LEMMA AbandonStep ==
    ASSUME StoreInv, NEW T, T \subseteq Threads, Abandon(T)
    PROVE  /\ StoreInv' /\ UNCHANGED <<table, copy, history>>
           /\ \A u \in Threads : pc'[u] # "idle" => pc[u] # "idle" /\ loc'[u] = loc[u]
<1>1. /\ TypeOK /\ OwnerInv /\ ViewInv /\ None \notin Threads
  BY HomeAssumption DEF StoreInv
<1>2. /\ Over(T) /\ loc' = [t \in Threads |-> IF t \in T THEN NoLoc ELSE loc[t]]
      /\ view' = IF writer \in T THEN table ELSE view
      /\ UNCHANGED <<table, copy, history>>
  BY DEF Abandon
<1>3. /\ writer' \in Threads \union {None} /\ lock' \in [Processes -> Threads \union {None}]
      /\ pc' \in [Threads -> {"idle", "insert"} \union Open]
      /\ OwnerInv'
      /\ \A t \in Threads : pc'[t] # "idle" => t \notin T /\ pc'[t] = pc[t]
  BY <1>1, <1>2, OverFacts
<1>4. \A u \in Threads : pc'[u] # "idle" => pc[u] # "idle" /\ loc'[u] = loc[u]
  BY <1>2, <1>3
<1>5. TypeOK'
  <2>1. /\ loc' = [t \in Threads |-> loc'[t]]
        /\ \A t \in Threads : loc'[t] = IF t \in T THEN NoLoc ELSE loc[t]
    BY <1>2
  <2>2. \A t \in Threads : IsLoc(loc'[t])
    BY <1>1, <2>1, NoLocType DEF TypeOK
  <2>3. UNCHANGED <<table, tampered, raced, tipKept>>
    BY <1>2 DEF history
  <2>4. QED BY <1>1, <1>3, <2>1, <2>2, <2>3 DEF TypeOK, IsTable, IsSeq, IsLoc, Open
<1>6. ViewInv'
  <2>1. writer' = IF writer \in T THEN None ELSE writer
    BY <1>2 DEF Over
  <2>2. writer' = None => view' = table
    BY <1>1, <1>2, <2>1 DEF ViewInv
  <2>3. ASSUME NEW t \in Threads, pc'[t] \in Open
        PROVE  view' = view /\ pc'[t] = pc[t] /\ loc'[t] = loc[t]
    <3>1. t \notin T /\ pc'[t] = pc[t] /\ loc'[t] = loc[t]
      BY <1>3, <1>4, <2>3 DEF Open
    <3>2. writer = t
      BY <1>1, <2>3, <3>1 DEF OwnerInv
    <3>3. QED BY <1>2, <3>1, <3>2
  <2>4. QED BY <1>1, <1>2, <2>2, <2>3 DEF ViewInv, Grown, NewRecord, Digest, Open
<1>7. QED BY <1>2, <1>3, <1>4, <1>5, <1>6 DEF StoreInv

\* A commit appends the record its thread inserted, and makes the tip old for those who have
\* read it.
LEMMA CommitStep ==
    ASSUME StoreInv, NEW t \in Threads, Commit(t)
    PROVE  /\ StoreInv'
           /\ table' = [rows |-> Grown(table, loc[t]),
                        mark |-> [seq |-> table.next, hash |-> Digest(loc[t].body, loc[t].tip)],
                        next |-> table.next + 1]
           /\ pc[t] # "idle" /\ pc'[t] = "idle"
           /\ \A u \in Threads \ {t} : pc'[u] # "idle" =>
                 pc[u] # "idle" /\ loc'[u].stale = TRUE /\ loc'[u].tip = loc[u].tip
<1>1. /\ TypeOK /\ OwnerInv /\ ViewInv /\ None \notin Threads
      /\ Home \in [Threads -> Processes]
  BY HomeAssumption DEF StoreInv
<1>2. /\ pc[t] = "commit" /\ table' = view /\ Over({t}) /\ view' = view
      /\ loc' = [u \in Threads |->
                  IF u = t THEN NoLoc
                  ELSE WithStale(loc[u],
                          loc[u].stale \/ (pc[u] = "insert" /\ Home[u] # Home[t]))]
      /\ tampered' = (IF tampered = "none" THEN "none" ELSE "appended")
      /\ raced' = (raced \/ loc[t].stale) /\ tipKept' = tipKept
  BY DEF Commit, WithStale
<1>3. /\ writer' \in Threads \union {None} /\ lock' \in [Processes -> Threads \union {None}]
      /\ pc' \in [Threads -> {"idle", "insert"} \union Open]
      /\ OwnerInv'
      /\ \A u \in Threads : pc'[u] # "idle" => u \notin {t} /\ pc'[u] = pc[u]
  BY <1>1, <1>2, OverFacts
<1>4. table' = [rows |-> Grown(table, loc[t]),
                mark |-> [seq |-> table.next, hash |-> Digest(loc[t].body, loc[t].tip)],
                next |-> table.next + 1]
  BY <1>1, <1>2 DEF ViewInv
<1>5. IsTable(table')
  <2>1. PICK g, m, n : /\ g = Grown(table, loc[t]) /\ n = table.next + 1
                       /\ m = [seq |-> table.next, hash |-> Digest(loc[t].body, loc[t].tip)]
    OBVIOUS
  <2>2. table' = [rows |-> g, mark |-> m, next |-> n]
    BY <1>4, <2>1
  <2>3. table'.rows = g /\ table'.mark = m /\ table'.next = n
    BY <2>2
  <2>4. IsSeq(g)
    BY <1>1, <2>1, AppendSeq DEF TypeOK, IsTable, Grown
  <2>5. QED BY <2>2, <2>3, <2>4 DEF IsTable
<1>6. /\ loc' = [u \in Threads |-> loc'[u]] /\ loc'[t] = NoLoc
      /\ \A u \in Threads \ {t} :
            loc'[u] = WithStale(loc[u], loc[u].stale \/ (pc[u] = "insert" /\ Home[u] # Home[t]))
  BY <1>2
<1>7. ASSUME NEW u \in Threads \ {t}
      PROVE  /\ IsLoc(loc'[u]) /\ loc'[u].tip = loc[u].tip
             /\ pc'[u] # "idle" => loc'[u].stale = TRUE
  <2>1. PICK v \in BOOLEAN : /\ v = (loc[u].stale \/ (pc[u] = "insert" /\ Home[u] # Home[t]))
                             /\ loc'[u] = WithStale(loc[u], v)
    BY <1>6
  <2>2. /\ IsLoc(loc'[u]) /\ loc'[u].tip = loc[u].tip /\ loc'[u].stale = v
    BY <1>1, <2>1, StaleFacts DEF TypeOK
  <2>3. ASSUME pc'[u] # "idle" PROVE v = TRUE
    <3>1. pc[u] # "idle" /\ pc[u] \in {"idle", "insert"} \union Open
      BY <1>1, <1>3, <2>3 DEF TypeOK
    <3>2. writer = t /\ lock[Home[t]] = t
      BY <1>1, <1>2 DEF OwnerInv, Open
    <3>3. pc[u] \notin Open
      BY <1>1, <3>2 DEF OwnerInv
    <3>4. lock[Home[u]] = u
      BY <1>1, <3>1 DEF OwnerInv
    <3>5. pc[u] = "insert" /\ Home[u] # Home[t]
      BY <3>1, <3>2, <3>3, <3>4
    <3>6. QED BY <2>1, <3>5, Zenon
  <2>4. QED BY <2>2, <2>3
<1>8. TypeOK'
  <2>1. \A u \in Threads : IsLoc(loc'[u])
    BY <1>6, <1>7, NoLocType
  <2>2. /\ tampered' \in {"none", "fresh", "appended"} /\ tipKept' \in BOOLEAN
        /\ raced' \in BOOLEAN
    BY <1>1, <1>2 DEF TypeOK
  <2>3. QED BY <1>3, <1>5, <1>6, <2>1, <2>2 DEF TypeOK, IsTable, IsSeq, IsLoc, Open
<1>9. ViewInv'
  <2>1. writer = t
    BY <1>1, <1>2 DEF OwnerInv, Open
  <2>2. \A u \in Threads : pc'[u] \notin Open
    <3>1. writer' = None
      BY <1>2, <2>1 DEF Over
    <3>2. QED BY <1>1, <1>3, <3>1 DEF OwnerInv, Open
  <2>3. QED BY <1>2, <2>2 DEF ViewInv, Open
<1>10. pc[t] # "idle" /\ pc'[t] = "idle"
  BY <1>2, <1>3
<1>11. QED BY <1>3, <1>4, <1>7, <1>8, <1>9, <1>10 DEF StoreInv

-----------------------------------------------------------------------------
(* What was appended *)

LEMMA WrittenFacts ==
    ASSUME NEW rows, IsSeq(rows)
    PROVE  IsSeq(Written(rows)) /\ Len(Written(rows)) = Len(rows)
<1> DEFINE S == {rows[i].body : i \in DOMAIN rows}
           w == Written(rows)
<1>1. Len(rows) \in Nat /\ DOMAIN rows = 1..Len(rows)
  BY SeqFacts
<1>2. w \in [1..Len(rows) -> S]
  BY <1>1 DEF Written
<1> HIDE DEF S, w
<1>3. w \in Seq(S)
  <2>1. [1..Len(rows) -> S] \in {[1..n -> S] : n \in Nat}
    BY <1>1
  <2>2. QED BY <1>2, <2>1, SeqDef
<1>4. Len(w) = Len(rows)
  <2>1. DOMAIN w = 1..Len(w) /\ DOMAIN w = 1..Len(rows) /\ Len(w) \in Nat
    BY <1>2, <1>3, LenProperties
  <2>2. ASSUME NEW m \in Nat, NEW n \in Nat, 1..m = 1..n PROVE m = n
    <3>1. (m # 0 => m \in 1..n) /\ (n # 0 => n \in 1..m)
      BY <2>2
    <3>2. QED BY <3>1
  <2>3. 1..Len(w) = 1..Len(rows)
    BY <2>1
  <2>4. QED BY <1>1, <2>1, <2>2, <2>3
<1>5. QED BY <1>3, <1>4, SeqOfRange DEF IsSeq, w

LEMMA WrittenAppend ==
    ASSUME NEW rows, IsSeq(rows), NEW r
    PROVE  Written(Append(rows, r)) = Append(Written(rows), r.body)
<1> DEFINE a == Written(Append(rows, r))
           b == Append(Written(rows), r.body)
           x == Append(rows, r)
<1>1. /\ IsSeq(x) /\ Len(x) = Len(rows) + 1 /\ \A i \in 1..Len(rows) : x[i] = rows[i]
      /\ x[Len(rows) + 1] = r /\ Len(rows) \in Nat /\ DOMAIN rows = 1..Len(rows)
      /\ DOMAIN x = 1..Len(x)
  BY AppendSeq, SeqFacts
<1>2. IsSeq(Written(rows)) /\ Len(Written(rows)) = Len(rows)
  BY WrittenFacts
<1>3. IsSeq(a) /\ Len(a) = Len(rows) + 1
  BY <1>1, WrittenFacts
<1>4. /\ IsSeq(b) /\ Len(b) = Len(rows) + 1 /\ b[Len(rows) + 1] = r.body
      /\ \A i \in 1..Len(rows) : b[i] = Written(rows)[i]
  BY <1>2, AppendSeq
<1>5. \A i \in 1..(Len(rows) + 1) : a[i] = x[i].body
  BY <1>1 DEF Written
<1>6. \A i \in 1..Len(rows) : Written(rows)[i] = rows[i].body
  BY <1>1 DEF Written
<1> HIDE DEF a, b, x
<1>7. \A i \in 1..(Len(rows) + 1) : a[i] = b[i]
  <2>1. ASSUME NEW i \in 1..(Len(rows) + 1) PROVE a[i] = b[i]
    <3>1. i \in 1..Len(rows) \/ i = Len(rows) + 1
      BY <1>1
    <3>2. QED BY <1>1, <1>4, <1>5, <1>6, <3>1
  <2>2. QED BY <2>1
<1>8. a = b
  <2>1. PICK S : a \in Seq(S) /\ b \in Seq(S)
    <3>1. /\ Range(a) \subseteq Range(a) \union Range(b)
          /\ Range(b) \subseteq Range(a) \union Range(b)
      OBVIOUS
    <3>2. a \in Seq(Range(a) \union Range(b)) /\ b \in Seq(Range(a) \union Range(b))
      BY <1>3, <1>4, <3>1, SeqMonotonic DEF IsSeq
    <3>3. QED BY <3>2
  <2>2. QED BY <1>3, <1>4, <1>7, <2>1, SeqEqual
<1>9. QED BY <1>8 DEF a, b

LEMMA PrefixOfSelf == ASSUME NEW s, IsSeq(s) PROVE IsPrefix(s, s)
BY SeqFacts DEF IsPrefix

LEMMA PrefixGrows ==
    ASSUME NEW s, IsSeq(s), NEW l, IsSeq(l), IsPrefix(s, l), NEW e
    PROVE  IsPrefix(s, Append(l, e))
<1> DEFINE n == Len(s)
           w == Append(l, e)
<1>1. /\ n \in Nat /\ Len(l) \in Nat /\ n <= Len(l) /\ SubSeq(s, 1, n) = SubSeq(l, 1, n)
      /\ IsSeq(w) /\ Len(w) = Len(l) + 1 /\ \A i \in 1..Len(l) : w[i] = l[i]
  BY SeqFacts, AppendSeq DEF IsPrefix
<1> HIDE DEF n, w
<1>2. n <= Len(w)
  BY <1>1
<1>3. SubSeq(l, 1, n) = SubSeq(w, 1, n)
  <2>1. CASE n = 0
    <3>1. 1 \in Int /\ n \in Int /\ n < 1
      BY <1>1, <2>1
    <3>2. SubSeq(l, 1, n) = <<>> /\ SubSeq(w, 1, n) = <<>>
      BY <3>1, SubSeqEmpty
    <3>3. QED BY <3>2
  <2>2. CASE n # 0
    <3>1. /\ 1 \in 1..(Len(l) + 1) /\ n \in 0..Len(l) /\ 1 \in 1..(Len(w) + 1)
          /\ n \in 0..Len(w) /\ 1 <= n /\ n - 1 + 1 = n
      BY <1>1, <2>2
    <3>2. /\ IsSeq(SubSeq(l, 1, n)) /\ Len(SubSeq(l, 1, n)) = n
          /\ \A i \in 1..n : SubSeq(l, 1, n)[i] = l[1 + i - 1]
      BY <3>1, SubSeqSeq
    <3>3. /\ IsSeq(SubSeq(w, 1, n)) /\ Len(SubSeq(w, 1, n)) = n
          /\ \A i \in 1..n : SubSeq(w, 1, n)[i] = w[1 + i - 1]
      BY <1>1, <3>1, SubSeqSeq
    <3>4. \A i \in 1..n : l[1 + i - 1] = w[1 + i - 1]
      <4>1. \A i \in 1..n : 1 + i - 1 \in 1..Len(l)
        BY <1>1
      <4>2. QED BY <1>1, <4>1
    <3>5. PICK a, b : a = SubSeq(l, 1, n) /\ b = SubSeq(w, 1, n)
      OBVIOUS
    <3>6. PICK S : a \in Seq(S) /\ b \in Seq(S)
      <4>1. /\ Range(a) \subseteq Range(a) \union Range(b)
            /\ Range(b) \subseteq Range(a) \union Range(b)
        OBVIOUS
      <4>2. a \in Seq(Range(a) \union Range(b)) /\ b \in Seq(Range(a) \union Range(b))
        BY <3>2, <3>3, <3>5, <4>1, SeqMonotonic DEF IsSeq
      <4>3. QED BY <4>2
    <3>7. Len(a) = n /\ Len(b) = n /\ \A i \in 1..n : a[i] = b[i]
      BY <3>2, <3>3, <3>4, <3>5
    <3>8. a = b
      BY <3>6, <3>7, SeqEqual
    <3>9. QED BY <3>5, <3>8
  <2>3. QED BY <2>1, <2>2
<1>4. QED BY <1>1, <1>2, <1>3 DEF IsPrefix, n, w

-----------------------------------------------------------------------------
(* The steps *)

\* A step that touches neither the table nor what a thread knows of it.
LEMMA NothingWritten ==
    ASSUME ChainInv, TamperInv, CopyInv, UNCHANGED <<table, copy, history>>,
           \A u \in Threads : pc'[u] # "idle" => pc[u] # "idle" /\ loc'[u] = loc[u]
    PROVE  ChainInv' /\ TamperInv' /\ CopyInv'
<1>1. UNCHANGED <<table, copy, log, tampered, tipKept, raced>>
  BY DEF history
<1>2. TamperInv' /\ CopyInv'
  BY <1>1 DEF TamperInv, CopyInv
<1>3. ChainInv'
  BY <1>1 DEF ChainInv
<1>4. QED BY <1>2, <1>3

LEMMA CommitChain ==
    ASSUME StoreInv, ChainInv, TamperInv, CopyInv, NEW t \in Threads, Commit(t)
    PROVE  ChainInv' /\ TamperInv' /\ CopyInv'
<1>1. PICK rows, r, l : rows = table.rows /\ r = NewRecord(loc[t], table.next) /\ l = loc[t]
  OBVIOUS
<1>2. /\ r = [seq |-> table.next, body |-> l.body, prev_hash |-> l.tip,
              record_hash |-> Digest(l.body, l.tip)]
      /\ r.seq = table.next /\ r.body = l.body /\ r.prev_hash = l.tip
      /\ r.record_hash = Digest(l.body, l.tip)
  BY <1>1 DEF NewRecord
<1>3. IsSeq(rows) /\ IsLoc(l) /\ raced \in BOOLEAN
      /\ tampered \in {"none", "fresh", "appended"}
  BY <1>1 DEF StoreInv, TypeOK, IsTable
<1>4. PICK w : w = Append(rows, r)
  OBVIOUS
<1>5. /\ table'.rows = w
      /\ table'.mark = [seq |-> table.next, hash |-> Digest(l.body, l.tip)]
      /\ table'.next = table.next + 1
  <2>1. table' = [rows |-> w, mark |-> [seq |-> table.next, hash |-> Digest(l.body, l.tip)],
                  next |-> table.next + 1]
    BY <1>1, <1>4, CommitStep DEF Grown
  <2>2. QED BY <2>1
<1>6. /\ log' = Append(log, l.body) /\ copy' = copy /\ tipKept' = tipKept
      /\ tampered' = (IF tampered = "none" THEN "none" ELSE "appended")
      /\ raced' = (raced \/ l.stale)
  BY <1>1 DEF Commit
<1>7. /\ IsSeq(w) /\ w # <<>> /\ Len(w) = Len(rows) + 1 /\ Len(rows) \in Nat
      /\ \A i \in 1..Len(rows) : w[i] = rows[i]
      /\ w[Len(rows) + 1] = r
  BY <1>3, <1>4, AppendSeq, SeqFacts
<1>8. TamperInv'
  <2>1. tampered' # "fresh"
    BY <1>3, <1>6
  <2>2. ASSUME tampered' # "none", tipKept' PROVE Broken(w)
    <3>1. Broken(rows)
      BY <1>1, <1>6, <2>2 DEF TamperInv
    <3>2. QED BY <1>3, <1>4, <3>1, BrokenStays
  <2>3. QED BY <1>5, <2>1, <2>2 DEF TamperInv, Broken, Sound, Before, Digest, GENESIS
<1>9. CASE tampered # "none"
  <2>1. tampered' # "none"
    BY <1>6, <1>9
  <2>2. ChainInv' /\ CopyInv'
    BY <1>6, <2>1 DEF ChainInv, CopyInv, IsSeq
  <2>3. QED BY <1>8, <2>2
<1>10. CASE tampered = "none"
  <2>1. /\ Numbered(table) /\ Written(rows) = log
        /\ raced => Broken(rows)
        /\ ~raced => ~Broken(rows) /\ Distinct(rows)
        /\ \A u \in Threads : pc[u] # "idle" => TipRead(rows, loc[u])
    BY <1>1, <1>10 DEF ChainInv
  <2>2. table.next = Len(rows) + 1
    BY <1>1, <2>1 DEF Numbered
  <2>3. Tip(w) = Digest(l.body, l.tip)
    BY <1>2, <1>7 DEF Tip, Last
  <2>4. Numbered(table')
    <3>1. ASSUME NEW i \in 1..Len(w) PROVE IsRow(w[i]) /\ w[i].seq = i
      <4>1. CASE i \in 1..Len(rows)
        BY <1>1, <1>7, <2>1, <4>1 DEF Numbered
      <4>2. CASE i = Len(rows) + 1
        BY <1>2, <1>7, <2>2, <4>2 DEF IsRow
      <4>3. i \in 1..Len(rows) \/ i = Len(rows) + 1
        BY <1>7
      <4>4. QED BY <4>1, <4>2, <4>3
    <3>2. QED BY <1>5, <1>7, <2>2, <2>3, <3>1 DEF Numbered
  <2>5. Written(w) = log'
    BY <1>2, <1>3, <1>4, <1>6, <2>1, WrittenAppend
  <2>6. TipRead(rows, l)
    BY <1>1, <2>1, CommitStep
  <2>7. /\ raced' => Broken(w)
        /\ ~raced' => ~Broken(w) /\ Distinct(w)
    <3>1. CASE raced
      BY <1>3, <1>4, <1>6, <2>1, <3>1, BrokenStays
    <3>2. CASE ~raced /\ l.stale
      <4>1. PICK j \in 1..Len(rows) : l.tip = Before(rows, j)
        BY <2>6, <3>2 DEF TipRead
      <4>2. Broken(w)
        BY <1>2, <1>3, <1>4, <2>1, <3>2, <4>1, ChainRaced
      <4>3. QED BY <1>6, <3>2, <4>2
    <3>3. CASE ~raced /\ ~l.stale
      <4>1. l.tip = Tip(rows)
        BY <2>6, <3>3 DEF TipRead
      <4>2. r.prev_hash = Tip(rows) /\ r.body = l.body /\ r.record_hash = Digest(l.body, Tip(rows))
        BY <1>2, <4>1
      <4>3. ~Broken(w) /\ Distinct(w)
        BY <1>3, <1>4, <2>1, <3>3, <4>2, ChainGrows
      <4>4. QED BY <1>6, <3>3, <4>3
    <3>4. QED BY <3>1, <3>2, <3>3
  <2>8. ASSUME NEW u \in Threads, pc'[u] # "idle" PROVE TipRead(w, loc'[u])
    <3>1. u # t /\ pc[u] # "idle" /\ loc'[u].stale = TRUE /\ loc'[u].tip = loc[u].tip
      BY <2>8, CommitStep
    <3>2. TipRead(rows, loc[u])
      BY <2>1, <3>1
    <3>3. \E j \in 1..(Len(rows) + 1) : loc[u].tip = Before(rows, j)
      <4>1. CASE loc[u].stale
        <5>1. PICK j \in 1..Len(rows) : loc[u].tip = Before(rows, j)
          BY <3>2, <4>1 DEF TipRead
        <5>2. j \in 1..(Len(rows) + 1)
          BY <1>7
        <5>3. QED BY <5>1, <5>2
      <4>2. CASE ~loc[u].stale
        <5>1. loc[u].tip = Before(rows, Len(rows) + 1)
          BY <1>3, <3>2, <4>2, TipIsLastHash DEF TipRead
        <5>2. Len(rows) + 1 \in 1..(Len(rows) + 1)
          BY <1>7
        <5>3. QED BY <5>1, <5>2
      <4>3. QED BY <4>1, <4>2
    <3>4. PICK j \in 1..(Len(rows) + 1) : loc[u].tip = Before(rows, j)
      BY <3>3
    <3>5. Before(w, j) = Before(rows, j) /\ j \in 1..Len(w)
      BY <1>3, <1>4, <1>7, ChainAppend
    <3>6. QED BY <3>1, <3>4, <3>5 DEF TipRead
  <2>9. ChainInv'
    BY <1>5, <2>4, <2>5, <2>7, <2>8
       DEF ChainInv, Numbered, Written, Broken, Distinct, TipRead, IsRow, Sound, Before, Digest,
           GENESIS, Tip
  <2>10. CopyInv'
    <3>1. IsSeq(log) /\ IsSeq(copy.rows) /\ IsSeq(Written(copy.rows))
          /\ IsPrefix(Written(copy.rows), log)
      BY <1>3, <1>10, <2>1, WrittenFacts DEF CopyInv
    <3>2. IsPrefix(Written(copy.rows), log')
      BY <1>6, <3>1, PrefixGrows
    <3>3. raced' \/ Verify(copy).ok
      BY <1>6, <1>10 DEF CopyInv
    <3>4. PICK k : k = copy
      OBVIOUS
    <3>5. copy' = k /\ IsSeq(k.rows) /\ IsPrefix(Written(k.rows), log') /\ (raced' \/ Verify(k).ok)
      BY <1>6, <3>1, <3>2, <3>3, <3>4
    <3>6. QED BY <3>5 DEF CopyInv, Verify, HeadMatches, Tip, TipSeq, Sound, Before, Digest,
                          GENESIS, Written, IsSeq
  <2>11. QED BY <1>8, <2>9, <2>10
<1>11. QED BY <1>9, <1>10

LEMMA TamperStep ==
    ASSUME StoreInv, ChainInv, CopyInv,
           NEW how \in Tampering, NEW i \in DOMAIN table.rows, NEW b \in Bodies,
           Tamper(how, i, b)
    PROVE  StoreInv' /\ ChainInv' /\ TamperInv' /\ CopyInv'
<1>1. PICK rows, w : rows = table.rows /\ w = Altered(how, i, b)
  OBVIOUS
<1>2. /\ \A p \in Processes : lock[p] = None
      /\ tampered = "none" /\ ~raced
      /\ how \in {"edit", "rehash"} => b # rows[i].body
      /\ table' = [table EXCEPT !.rows = w]
      /\ view' = table' /\ tampered' = "fresh"
      /\ tipKept' = (table'.rows # <<>> /\ Last(table'.rows) = Last(rows))
      /\ UNCHANGED <<writer, lock, pc, loc, copy, log, raced>>
  BY <1>1 DEF Tamper
<1>3. TypeOK /\ OwnerInv /\ ViewInv /\ IsSeq(rows) /\ i \in 1..Len(rows) /\ rows # <<>>
  <2>1. IsSeq(rows)
    BY <1>1 DEF StoreInv, TypeOK, IsTable
  <2>2. i \in 1..Len(rows) /\ rows # <<>>
    BY <1>1, <2>1, SeqFacts
  <2>3. QED BY <2>1, <2>2 DEF StoreInv
<1>4. GoodRows(rows) /\ table.mark = [seq |-> Len(rows), hash |-> Tip(rows)]
  BY <1>1, <1>2, <1>3 DEF ChainInv, Numbered, GoodRows
<1>5. IsSeq(w) /\ Exposed(rows, w)
  <2>1. CASE how = "edit"
    <3>1. w = EditBody(rows, i, b)
      BY <1>1, <2>1 DEF Altered
    <3>2. QED BY <1>2, <1>3, <1>4, <2>1, <3>1, EditExposed
  <2>2. CASE how = "rehash"
    <3>1. w = Rehash(rows, i, b)
      BY <1>1, <2>2 DEF Altered
    <3>2. QED BY <1>2, <1>3, <1>4, <2>2, <3>1, RehashExposed
  <2>3. CASE how = "remove"
    <3>1. w = RemoveAt(rows, i)
      BY <1>1, <2>3 DEF Altered
    <3>2. QED BY <1>3, <1>4, <3>1, RemoveExposed
  <2>4. CASE how = "truncate"
    <3>1. w = Truncate(rows, i)
      BY <1>1, <2>4 DEF Altered
    <3>2. QED BY <1>3, <1>4, <3>1, TruncateExposed
  <2>5. QED BY <2>1, <2>2, <2>3, <2>4, TamperingAssumption
<1>6. /\ table' = [rows |-> w, mark |-> table.mark, next |-> table.next]
      /\ table'.rows = w /\ table'.mark = table.mark /\ table'.next = table.next
  <2>1. PICK m, n : m = table.mark /\ n = table.next
    OBVIOUS
  <2>2. table = [rows |-> rows, mark |-> m, next |-> n]
    BY <1>1, <1>3, <2>1 DEF TypeOK, IsTable
  <2>3. table' = [rows |-> w, mark |-> m, next |-> n]
    BY <1>2, <2>2
  <2>4. QED BY <2>1, <2>3
<1>7. TypeOK'
  <2>1. IsTable(table')
    BY <1>5, <1>6 DEF IsTable
  <2>2. tipKept' \in BOOLEAN
    BY <1>2, Zenon
  <2>3. QED BY <1>2, <1>3, <2>1, <2>2 DEF TypeOK, IsTable, IsSeq, IsLoc, Open
<1>8. OwnerInv'
  BY <1>2, <1>3 DEF OwnerInv, Open
<1>9. \A t \in Threads : pc[t] = "idle"
  <2>1. ASSUME NEW t \in Threads PROVE pc[t] = "idle"
    BY <1>2, <1>3, HomeAssumption DEF OwnerInv
  <2>2. QED BY <2>1
<1>10. ViewInv'
  BY <1>2, <1>9 DEF ViewInv
<1>11. ChainInv' /\ CopyInv'
  BY <1>2 DEF ChainInv, CopyInv, IsSeq
<1>12. TamperInv'
  <2>1. PICK tbl : tbl = table'
    OBVIOUS
  <2>2. /\ Len(rows) \in Nat /\ Len(rows) # 0 /\ TipSeq(rows) = Len(rows)
    BY <1>3, <1>4, GoodTip, SeqFacts
  <2>3. ~Verify(tbl).ok
    <3>1. IsSeq(tbl.rows) /\ tbl.rows = w /\ tbl.mark.seq = Len(rows) /\ tbl.mark.hash = Tip(rows)
      BY <1>4, <1>5, <1>6, <2>1
    <3>2. Broken(w) \/ ~HeadMatches(tbl)
      BY <1>5, <2>2, <3>1 DEF Exposed, HeadMatches
    <3>3. QED BY <3>1, <3>2, VerifyOk
  <2>4. ASSUME tipKept' PROVE Broken(w)
    <3>1. w # <<>> /\ Last(w) = Last(rows)
      BY <1>2, <1>6, <2>4
    <3>2. TipSeq(w) = TipSeq(rows) /\ Tip(w) = Tip(rows)
      BY <1>3, <3>1 DEF TipSeq, Tip
    <3>3. QED BY <1>5, <3>2 DEF Exposed
  <2>5. Broken(w) => Broken(tbl.rows)
    BY <1>6, <2>1
  <2>6. QED BY <2>1, <2>3, <2>4, <2>5
            DEF TamperInv, Verify, HeadMatches, Tip, TipSeq, Broken, Sound, Before, Digest, GENESIS
<1>13. QED BY <1>7, <1>8, <1>10, <1>11, <1>12 DEF StoreInv

\* While nobody races or edits, the table verifies.
LEMMA GoodVerifies ==
    ASSUME TypeOK, ChainInv, tampered = "none"
    PROVE  Verify(table).ok <=> ~raced
<1>1. IsSeq(table.rows)
  BY DEF TypeOK, IsTable
<1>2. HeadMatches(table)
  <2>1. CASE table.rows = <<>>
    <3>1. Len(table.rows) = 0
      BY <1>1, <2>1, SeqFacts
    <3>2. QED BY <3>1 DEF ChainInv, Numbered, HeadMatches
  <2>2. CASE table.rows # <<>>
    <3>1. Len(table.rows) \in Nat /\ Len(table.rows) # 0
      BY <1>1, <2>2, SeqFacts
    <3>2. Len(table.rows) \in 1..Len(table.rows)
      BY <3>1
    <3>3. TipSeq(table.rows) = Len(table.rows)
      BY <2>2, <3>2 DEF ChainInv, Numbered, TipSeq, Last
    <3>4. QED BY <3>3 DEF ChainInv, Numbered, HeadMatches
  <2>3. QED BY <2>1, <2>2
<1>3. Verify(table).ok <=> ~Broken(table.rows)
  BY <1>1, <1>2, VerifyOk
<1>4. QED BY <1>3, Zenon DEF ChainInv

LEMMA BackupStep ==
    ASSUME StoreInv, ChainInv, TamperInv, CopyInv, NEW p \in Processes, Backup(p)
    PROVE  StoreInv' /\ ChainInv' /\ TamperInv' /\ CopyInv'
<1>1. /\ copy' = table
      /\ UNCHANGED <<table, writer, view, lock, pc, loc, log, tampered, tipKept, raced>>
  <2>1. ~(writer # None /\ Home[writer] = p)
    <3>1. SUFFICES ASSUME writer # None, Home[writer] = p PROVE FALSE
      OBVIOUS
    <3>2. writer \in Threads /\ pc[writer] \in Open
      BY <3>1 DEF StoreInv, TypeOK, OwnerInv
    <3>3. lock[p] = writer
      BY <3>1, <3>2 DEF StoreInv, OwnerInv, Open
    <3>4. QED BY <3>1, <3>3 DEF Backup
  <2>2. QED BY <2>1 DEF Backup, Seen, database, history
<1>2. StoreInv'
  BY <1>1 DEF StoreInv, TypeOK, OwnerInv, ViewInv, IsTable, IsSeq, IsLoc, Open, Grown, NewRecord,
              Digest
<1>3. ChainInv' /\ TamperInv'
  <2>1. TamperInv'
    BY <1>1 DEF TamperInv, Broken, Sound, Before, Digest, GENESIS, Tip, TipSeq, Verify,
                HeadMatches
  <2>2. ChainInv'
    BY <1>1 DEF ChainInv, Broken, Sound, Before, Digest, GENESIS, Distinct, Numbered, IsRow,
                Tip, Written, TipRead
  <2>3. QED BY <2>1, <2>2
<1>4. IsSeq(table.rows)
  BY DEF StoreInv, TypeOK, IsTable
<1>5. ASSUME tampered = "none"
      PROVE  IsPrefix(Written(table.rows), log) /\ (raced \/ Verify(table).ok)
  <2>1. Written(table.rows) = log /\ IsSeq(Written(table.rows))
    BY <1>4, <1>5, WrittenFacts DEF ChainInv
  <2>2. IsPrefix(Written(table.rows), log)
    BY <2>1, PrefixOfSelf
  <2>3. raced \/ Verify(table).ok
    BY <1>5, GoodVerifies DEF StoreInv
  <2>4. QED BY <2>2, <2>3
<1>6. CopyInv'
  BY <1>1, <1>4, <1>5
     DEF CopyInv, IsSeq, Written, Verify, HeadMatches, Tip, TipSeq, Sound, Before, Digest, GENESIS
<1>7. QED BY <1>2, <1>3, <1>6

LEMMA AuditInit == ASSUME Init PROVE AuditInv
<1>1. /\ table = [rows |-> <<>>, mark |-> [seq |-> 0, hash |-> <<>>], next |-> 1]
      /\ view = table /\ copy = table /\ writer = None
      /\ lock = [p \in Processes |-> None]
      /\ pc = [t \in Threads |-> "idle"] /\ loc = [t \in Threads |-> NoLoc]
      /\ log = <<>> /\ tampered = "none" /\ tipKept = TRUE /\ raced = FALSE
  BY DEF Init, Empty, NoMark, GENESIS
<1>2. IsSeq(<<>>) /\ Len(<<>>) = 0
  BY EmptySeq DEF IsSeq
<1>3. /\ table.rows = <<>> /\ table.next = 1 /\ table.mark = [seq |-> 0, hash |-> <<>>]
      /\ table.mark.seq = 0
  BY <1>1
<1>4. TypeOK
  <2>1. IsTable(table)
    BY <1>1, <1>2, <1>3 DEF IsTable
  <2>2. QED BY <1>1, <2>1, NoLocType DEF TypeOK
<1>5. OwnerInv /\ ViewInv
  BY <1>1, HomeAssumption DEF OwnerInv, ViewInv, Open
<1>6. ~Broken(<<>>) /\ Distinct(<<>>)
  BY <1>2 DEF Broken, Distinct
<1>7. ChainInv
  <2>1. Numbered(table)
    BY <1>2, <1>3 DEF Numbered, Tip, GENESIS
  <2>2. Written(table.rows) = log
    BY <1>1, <1>3 DEF Written
  <2>3. QED BY <1>1, <1>3, <1>6, <2>1, <2>2 DEF ChainInv
<1>8. Verify(table).ok
  BY <1>2, <1>3, <1>6, VerifyOk DEF HeadMatches
<1>9. TamperInv /\ CopyInv
  <2>1. Written(table.rows) = <<>>
    BY <1>3 DEF Written
  <2>2. IsPrefix(Written(copy.rows), log)
    BY <1>1, <1>2, <2>1, PrefixOfSelf
  <2>3. QED BY <1>1, <1>2, <1>3, <1>8, <2>2 DEF TamperInv, CopyInv
<1>10. QED BY <1>4, <1>5, <1>7, <1>9 DEF AuditInv

LEMMA AuditStep == ASSUME AuditInv, [Next]_vars PROVE AuditInv'
<1>1. StoreInv /\ ChainInv /\ TamperInv /\ CopyInv
  BY DEF AuditInv, StoreInv
<1>2. SUFFICES StoreInv' /\ ChainInv' /\ TamperInv' /\ CopyInv'
  BY DEF AuditInv, StoreInv
<1>3. ASSUME NEW t \in Threads, NEW b \in Bodies, ReadTip(t, b)
      PROVE  StoreInv' /\ ChainInv' /\ TamperInv' /\ CopyInv'
  <2>1. /\ StoreInv' /\ UNCHANGED <<database, copy, history>>
        /\ \A u \in Threads \ {t} : loc'[u] = loc[u] /\ pc'[u] = pc[u]
        /\ loc'[t] = [body |-> b, tip |-> Tip(table.rows), stale |-> FALSE]
    BY <1>1, <1>3, ReadTipStep
  <2>2. UNCHANGED <<table, copy, log, tampered, tipKept, raced>>
    BY <2>1 DEF database, history
  <2>3. TamperInv' /\ CopyInv'
    BY <1>1, <2>2
       DEF TamperInv, CopyInv, Broken, Sound, Before, Digest, GENESIS, Verify, HeadMatches,
           Tip, TipSeq, Written, IsSeq
  <2>4. TipRead(table.rows, loc'[t])
    BY <2>1 DEF TipRead
  <2>5. tampered = "none" => \A u \in Threads : pc'[u] # "idle" => TipRead(table.rows, loc'[u])
    BY <1>1, <2>1, <2>4 DEF ChainInv
  <2>6. ChainInv'
    BY <1>1, <2>2, <2>5
       DEF ChainInv, Broken, Sound, Before, Digest, GENESIS, Distinct, Numbered, IsRow,
           Tip, Written, TipRead
  <2>7. QED BY <2>1, <2>3, <2>6
<1>4. ASSUME NEW t \in Threads, Insert(t)
      PROVE  StoreInv' /\ ChainInv' /\ TamperInv' /\ CopyInv'
  BY <1>1, <1>4, InsertStep, NothingWritten
<1>5. ASSUME NEW t \in Threads, AdvanceMark(t)
      PROVE  StoreInv' /\ ChainInv' /\ TamperInv' /\ CopyInv'
  BY <1>1, <1>5, MarkStep, NothingWritten
<1>6. ASSUME NEW t \in Threads, Commit(t)
      PROVE  StoreInv' /\ ChainInv' /\ TamperInv' /\ CopyInv'
  BY <1>1, <1>6, CommitStep, CommitChain
<1>7. ASSUME NEW T, T \subseteq Threads, Abandon(T)
      PROVE  StoreInv' /\ ChainInv' /\ TamperInv' /\ CopyInv'
  BY <1>1, <1>7, AbandonStep, NothingWritten
<1>8. ASSUME NEW t \in Threads, Fault(t)
      PROVE  StoreInv' /\ ChainInv' /\ TamperInv' /\ CopyInv'
  BY <1>7, <1>8 DEF Fault
<1>9. ASSUME NEW p \in Processes, Crash(p)
      PROVE  StoreInv' /\ ChainInv' /\ TamperInv' /\ CopyInv'
  BY <1>7, <1>9 DEF Crash
<1>10. CASE UNCHANGED vars
  <2>1. /\ UNCHANGED <<table, copy, history>>
        /\ UNCHANGED <<database, lock, pc, loc, tampered, tipKept, raced>>
    BY <1>10 DEF vars, database, history
  <2>2. StoreInv'
    BY <1>1, <2>1 DEF StoreInv, TypeOK, OwnerInv, ViewInv, IsTable, IsSeq, IsLoc, Open, Grown,
                      NewRecord, Digest, database
  <2>3. QED BY <1>1, <2>1, <2>2, NothingWritten
<1>11. QED BY <1>1, <1>3, <1>4, <1>5, <1>6, <1>8, <1>9, <1>10, BackupStep, TamperStep
           DEF Next, Work

\* While nobody edits the file, the records committed are the bodies appended, in order, and
\* a backup is a beginning of them, through faults and crashes; and verify_chain accepts the
\* table exactly when no append was hung on a tip that another process had already moved.
THEOREM ChainIsIntact == Spec => []ChainStaysIntact
<1>1. Init => AuditInv
  BY AuditInit
<1>2. AuditInv /\ [Next]_vars => AuditInv'
  BY AuditStep
<1>3. AuditInv => ChainStaysIntact
  <2>1. SUFFICES ASSUME AuditInv, tampered = "none"
                 PROVE  /\ Written(table.rows) = log /\ IsPrefix(Written(copy.rows), log)
                        /\ Verify(table).ok <=> ~raced
                        /\ raced \/ Verify(copy).ok
    BY DEF ChainStaysIntact
  <2>2. Verify(table).ok <=> ~raced
    BY <2>1, GoodVerifies DEF AuditInv
  <2>3. QED BY <2>1, <2>2 DEF AuditInv, ChainInv, CopyInv
<1>4. QED BY <1>1, <1>2, <1>3, PTL DEF Spec

\* A record edited, rehashed, removed or cut off behind the service's back is reported by
\* verify_chain until something is appended; if the newest record was left as it was, it is
\* reported whatever is appended later.
THEOREM TamperingIsReported == Spec => []TamperingIsSeen
<1>1. Init => AuditInv
  BY AuditInit
<1>2. AuditInv /\ [Next]_vars => AuditInv'
  BY AuditStep
<1>3. AuditInv => TamperingIsSeen
  <2>1. SUFFICES ASSUME AuditInv PROVE TamperingIsSeen
    OBVIOUS
  <2>2. tampered = "fresh" => ~Verify(table).ok
    BY <2>1 DEF AuditInv, TamperInv
  <2>3. ASSUME tipKept, Verify(table).ok PROVE Written(table.rows) = log
    <3>1. CASE tampered = "none"
      BY <2>1, <3>1 DEF AuditInv, ChainInv
    <3>2. CASE tampered # "none"
      <4>1. Broken(table.rows)
        BY <2>1, <2>3, <3>2 DEF AuditInv, TamperInv
      <4>2. ~Verify(table).ok
        BY <2>1, <4>1, VerifyOk DEF AuditInv, TypeOK, IsTable
      <4>3. QED BY <2>3, <4>2
    <3>3. QED BY <3>1, <3>2
  <2>4. QED BY <2>2, <2>3 DEF TamperingIsSeen
<1>4. QED BY <1>1, <1>2, <1>3, PTL DEF Spec
=============================================================================
