----------------------------- MODULE AuditChain -----------------------------
(***************************************************************************)
(* The hash-chained audit table of SqliteStore and its durable head mark:  *)
(* append_audit, verify_chain and backup, with threads of one process and  *)
(* of others that have the file open too (serve, gateway, ingest-openapi), *)
(* processes dying, and somebody editing the file behind their back.       *)
(*                                                                         *)
(* A hash is the pair it was computed from, so that different inputs have  *)
(* different hashes.  A body stands for a record's kind, body and time.    *)
(***************************************************************************)
EXTENDS Naturals, Sequences, SequencesExt, FiniteSetsExt

CONSTANTS
    Threads, Bodies, Processes,
    Home,        \* the process of each thread
    None,        \* no thread
    Tampering,   \* what outsiders do: "edit", "rehash", "remove", "truncate"
    MaxRecords,  \* bound: records appended
    MaxCrash, MaxFaults

ASSUME HomeAssumption == None \notin Threads /\ Home \in [Threads -> Processes]

ASSUME TamperingAssumption == Tampering \subseteq {"edit", "rehash", "remove", "truncate"}

VARIABLES
    table,    \* committed: [rows, mark, next], next the AUTOINCREMENT counter
    writer,   \* the thread whose transaction SQLite has open, or None
    view,     \* the same as table, as the writer's connection sees it
    lock,     \* per process: holder of SqliteStore._lock
    pc, loc,  \* per thread: where append_audit is; its body and the tip it read
    copy,     \* the last backup
    log,      \* history: the bodies of the records committed, in order
    tampered, \* history: "none", "fresh", or "appended" once a record came after
    tipKept,  \* history: the newest record was left as it was
    raced,    \* history: an append came after another process's, made since it read the tip
    crashes, faults

database == <<table, writer, view>>
history == <<log, tampered, tipKept, raced>>
vars == <<database, lock, pc, loc, copy, history, crashes, faults>>

-----------------------------------------------------------------------------
(* Records *)

GENESIS == <<>>
Digest(body, prev) == <<body, prev>>

\* The mark of a table that never had a record.
NoMark == [seq |-> 0, hash |-> GENESIS]

Empty == [rows |-> <<>>, mark |-> NoMark, next |-> 1]

Tip(rows) == IF rows = <<>> THEN GENESIS ELSE Last(rows).record_hash
TipSeq(rows) == IF rows = <<>> THEN 0 ELSE Last(rows).seq

Before(rows, i) == IF i = 1 THEN GENESIS ELSE rows[i - 1].record_hash

\* One turn of verify_chain's loop finds nothing wrong.
Sound(rows, i) ==
    /\ rows[i].prev_hash = Before(rows, i)
    /\ rows[i].record_hash = Digest(rows[i].body, rows[i].prev_hash)

\* Mutant: the mark is compared by sequence number, and only for being behind.
HeadMatches_Lax(t) == t.mark.seq = 0 \/ t.mark.seq >= TipSeq(t.rows)

\* The high-water-mark check.
HeadMatches(t) ==
    t.mark.seq = 0 \/ (t.mark.seq = TipSeq(t.rows) /\ t.mark.hash = Tip(t.rows))

\* verify_chain: the first record that is wrong, else a tip that is not the mark's.
Verify(t) ==
    LET broken == {i \in DOMAIN t.rows : ~Sound(t.rows, i)}
    IN  IF broken # {}
        THEN [ok |-> FALSE, records |-> Min(broken) - 1, broken_at |-> t.rows[Min(broken)].seq]
        ELSE IF ~HeadMatches(t)
        THEN [ok |-> FALSE, records |-> Len(t.rows), broken_at |-> t.mark.seq]
        ELSE [ok |-> TRUE, records |-> Len(t.rows), broken_at |-> 0]

Written(rows) == [i \in DOMAIN rows |-> rows[i].body]

-----------------------------------------------------------------------------
NoLoc == [body |-> None, tip |-> GENESIS, stale |-> FALSE]

Init ==
    /\ table = Empty /\ view = Empty /\ copy = Empty
    /\ writer = None /\ lock = [p \in Processes |-> None]
    /\ pc = [t \in Threads |-> "idle"] /\ loc = [t \in Threads |-> NoLoc]
    /\ log = <<>> /\ tampered = "none" /\ tipKept = TRUE /\ raced = FALSE
    /\ crashes = 0 /\ faults = 0

-----------------------------------------------------------------------------
(* append_audit, statement by statement *)

\* Mutant: the tip is read without the lock.
ReadTip_NoLock(t, body) ==
    /\ pc[t] = "idle" /\ table.next <= MaxRecords
    /\ UNCHANGED lock
    /\ loc' = [loc EXCEPT ![t] = [body |-> body, tip |-> Tip(table.rows), stale |-> FALSE]]
    /\ pc' = [pc EXCEPT ![t] = "insert"]
    /\ UNCHANGED <<database, copy, history, crashes, faults>>

\* The SELECT, before any transaction: what it reads is what is committed.
ReadTip(t, body) ==
    /\ pc[t] = "idle" /\ lock[Home[t]] = None /\ table.next <= MaxRecords
    /\ lock' = [lock EXCEPT ![Home[t]] = t]
    /\ loc' = [loc EXCEPT ![t] = [body |-> body, tip |-> Tip(table.rows), stale |-> FALSE]]
    /\ pc' = [pc EXCEPT ![t] = "insert"]
    /\ UNCHANGED <<database, copy, history, crashes, faults>>

NewRecord(l, seq) ==
    [seq |-> seq, body |-> l.body, prev_hash |-> l.tip, record_hash |-> Digest(l.body, l.tip)]

\* The INSERT begins the transaction: SQLite admits one writer to the file.
Insert(t) ==
    /\ pc[t] = "insert" /\ writer = None
    /\ writer' = t
    /\ view' = [table EXCEPT !.rows = Append(@, NewRecord(loc[t], table.next)), !.next = @ + 1]
    /\ pc' = [pc EXCEPT ![t] = "mark"]
    /\ UNCHANGED <<table, lock, loc, copy, history, crashes, faults>>

\* Both meta rows.
AdvanceMark(t) ==
    /\ pc[t] = "mark"
    /\ view' = [view EXCEPT !.mark = [seq |-> TipSeq(view.rows), hash |-> Tip(view.rows)]]
    /\ pc' = [pc EXCEPT ![t] = "commit"]
    /\ UNCHANGED <<table, writer, lock, loc, copy, history, crashes, faults>>

\* The calls of these threads are over, their locks given back and their transaction, if one
\* is open, with it.
Over(threads) ==
    /\ writer' = IF writer \in threads THEN None ELSE writer
    /\ lock' = [p \in Processes |-> IF lock[p] \in threads THEN None ELSE lock[p]]
    /\ pc' = [t \in Threads |-> IF t \in threads THEN "idle" ELSE pc[t]]

Commit(t) ==
    /\ pc[t] = "commit"
    /\ table' = view
    /\ Over({t})
    /\ loc' = [u \in Threads |->
                  IF u = t THEN NoLoc
                  ELSE [loc[u] EXCEPT !.stale = @ \/ (pc[u] = "insert" /\ Home[u] # Home[t])]]
    /\ log' = Append(log, loc[t].body)
    /\ tampered' = IF tampered = "none" THEN "none" ELSE "appended"
    /\ raced' = (raced \/ loc[t].stale)
    /\ UNCHANGED <<view, copy, tipKept, crashes, faults>>

Abandon(threads) ==
    /\ Over(threads)
    /\ loc' = [t \in Threads |-> IF t \in threads THEN NoLoc ELSE loc[t]]
    /\ view' = IF writer \in threads THEN table ELSE view
    /\ UNCHANGED <<table, copy, history>>

\* A statement raises, the INSERT also because another process keeps the file locked: the
\* "with self._conn" block rolls back.
Fault(t) ==
    /\ pc[t] \in {"insert", "mark", "commit"} /\ faults < MaxFaults
    /\ faults' = faults + 1
    /\ Abandon({t})
    /\ UNCHANGED crashes

\* A process dies; the next one opens the file.
Crash(p) ==
    /\ crashes < MaxCrash
    /\ crashes' = crashes + 1
    /\ Abandon({t \in Threads : Home[t] = p})
    /\ UNCHANGED faults

-----------------------------------------------------------------------------
(* backup *)

\* What the connection of a process sees: its own open transaction too.
Seen(p) == IF writer # None /\ Home[writer] = p THEN view ELSE table

\* Mutant: the lock is not taken.
Backup_NoLock(p) ==
    /\ copy' = Seen(p)
    /\ UNCHANGED <<database, lock, pc, loc, history, crashes, faults>>

\* Under the lock of its process.
Backup(p) ==
    /\ lock[p] = None
    /\ copy' = Seen(p)
    /\ UNCHANGED <<database, lock, pc, loc, history, crashes, faults>>

-----------------------------------------------------------------------------
(* Somebody with the file and without the service: the audit table is changed, the   *)
(* marks in meta are not.                                                            *)

EditBody(rows, i, body) == [rows EXCEPT ![i].body = body]
Rehash(rows, i, body) ==
    [rows EXCEPT ![i].body = body, ![i].record_hash = Digest(body, rows[i].prev_hash)]
Truncate(rows, i) == SubSeq(rows, 1, i - 1)

Altered(how, i, body) ==
    LET rows == table.rows
    IN  CASE how = "edit"     -> EditBody(rows, i, body)
          [] how = "rehash"   -> Rehash(rows, i, body)
          [] how = "remove"   -> RemoveAt(rows, i)
          [] how = "truncate" -> Truncate(rows, i)

Tamper(how, i, body) ==
    /\ \A p \in Processes : lock[p] = None
    /\ tampered = "none" /\ ~raced
    /\ how \in {"edit", "rehash"} => body # table.rows[i].body
    /\ table' = [table EXCEPT !.rows = Altered(how, i, body)]
    /\ view' = table'
    /\ tampered' = "fresh"
    /\ tipKept' = (table'.rows # <<>> /\ Last(table'.rows) = Last(table.rows))
    /\ UNCHANGED <<writer, lock, pc, loc, copy, log, raced, crashes, faults>>

-----------------------------------------------------------------------------
Work(t) == (\E body \in Bodies : ReadTip(t, body)) \/ Insert(t) \/ AdvanceMark(t) \/ Commit(t)

Next ==
    \/ \E t \in Threads : Work(t) \/ Fault(t)
    \/ \E p \in Processes : Crash(p) \/ Backup(p)
    \/ \E how \in Tampering, i \in DOMAIN table.rows, body \in Bodies : Tamper(how, i, body)

Spec == Init /\ [][Next]_vars

-----------------------------------------------------------------------------
(* Properties *)

\* SERVICE.md, "Concurrency & durability": read-prev-hash and insert are atomic, which keeps
\* the chain intact under load; the mark only ever matches the true tip; a restored backup
\* verifies.  While nobody edits the file, what is committed, and what was backed up, is what
\* was appended, through faults and crashes, and it verifies; but for the append of a process
\* that read the tip before another one's append went in, which is reported from then on.
ChainStaysIntact ==
    tampered = "none" =>
        /\ Written(table.rows) = log /\ IsPrefix(Written(copy.rows), log)
        /\ Verify(table).ok <=> ~raced
        /\ raced \/ Verify(copy).ok

\* verify_chain and the high-water mark: whatever was changed in the table behind the
\* service's back is reported as long as nothing is appended; and a change that leaves the
\* newest record in place is reported for ever, whatever is appended after it.
TamperingIsSeen ==
    /\ tampered = "fresh" => ~Verify(table).ok
    /\ tipKept /\ Verify(table).ok => Written(table.rows) = log
=============================================================================
