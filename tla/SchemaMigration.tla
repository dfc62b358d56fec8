-------------------------- MODULE SchemaMigration --------------------------
(***************************************************************************)
(* SqliteStore.__init__ and _migrate: opening a database of any earlier    *)
(* schema version, with the process dying after any statement.             *)
(*                                                                         *)
(* The connection is Python's sqlite3 in its default transaction mode: a   *)
(* transaction is begun only by the first INSERT or UPDATE; a CREATE or    *)
(* ALTER that comes before it is committed on the spot, and one that comes *)
(* after it belongs to the transaction.  executescript commits what is     *)
(* open and then runs outside any transaction.                             *)
(***************************************************************************)
EXTENDS Naturals, Sequences

CONSTANTS
    StartVersions, \* schema versions found on disk; 0 is an empty file
    AuditLengths,  \* records already in the audit table
    MaxCrash       \* bound: times the process dies or is restarted

BASELINE_VERSION == 1
SCHEMA_VERSION == 5
NewerVersion == SCHEMA_VERSION + 1

ASSUME StartAssumption ==
    /\ StartVersions \subseteq 0..NewerVersion
    /\ AuditLengths \subseteq Nat
    /\ MaxCrash \in Nat

VARIABLES
    disk,     \* the committed database
    view,     \* the same, as the open connection sees it
    inTxn,    \* a transaction is open
    pc,       \* where __init__ is
    target,   \* the migration being applied
    i,        \* the statement to run next
    crashes

vars == <<disk, view, inTxn, pc, target, i, crashes>>

-----------------------------------------------------------------------------
(* Statements *)

\* _SCHEMA: tables created if they do not exist.
Baseline == <<"meta", "sources", "tools", "assertions", "discoveries", "audit">>

\* _MIGRATIONS, by the version a step produces.
Migration(v) ==
    CASE v = 2 -> <<"label", "idx_audit_kind">>
      [] v = 3 -> <<"head_seq", "head_hash">>
      [] v = 4 -> <<"grants", "idx_grants_decision">>
      [] v = 5 -> <<"grant_redemptions">>
      [] OTHER -> <<>>

Statements(v) == Append(Migration(v), "version")

Elements(s) == {s[k] : k \in DOMAIN s}
DML == {"head_seq", "head_hash", "version"}
\* What a database of version v holds besides its rows.
Shape(v) ==
    (IF v = 0 THEN {} ELSE Elements(Baseline))
      \union UNION {Elements(Migration(u)) \ DML : u \in 2..v}

\* A head mark of 0 stands for no mark.
Apply(db, s) ==
    CASE s = "version"   -> [db EXCEPT !.version = target]
      [] s = "head_seq"  -> [db EXCEPT !.headSeq = IF db.audit = 0 THEN @ ELSE db.audit]
      [] s = "head_hash" -> [db EXCEPT !.headHash = IF db.audit = 0 THEN @ ELSE db.audit]
      [] OTHER           -> [db EXCEPT !.parts = @ \union {s}]

\* Every statement but one may be run again.
Raises(s) == s = "label" /\ "label" \in view.parts

-----------------------------------------------------------------------------
(* Opening a database *)

\* Marks are kept from version 3 on; an empty file has no records.
Stored(v, n) ==
    LET mark == IF v >= 3 THEN n ELSE 0
    IN  [version |-> v, parts |-> Shape(v), audit |-> n, headSeq |-> mark, headHash |-> mark]

Init ==
    /\ \E v \in StartVersions, n \in AuditLengths :
          /\ v = 0 => n = 0
          /\ disk = Stored(v, n)
    /\ view = disk
    /\ inTxn = FALSE
    /\ pc = "closed" /\ target = 2 /\ i = 1
    /\ crashes = 0

Connect ==
    /\ pc = "closed"
    /\ pc' = "script" /\ i' = 1
    /\ UNCHANGED <<disk, view, inTxn, target, crashes>>

\* executescript(_SCHEMA), one autocommitted statement at a time.
Script ==
    /\ pc = "script"
    /\ disk' = Apply(disk, Baseline[i])
    /\ view' = disk'
    /\ IF i = Len(Baseline) THEN pc' = "read" /\ i' = 1 ELSE i' = i + 1 /\ UNCHANGED pc
    /\ UNCHANGED <<inTxn, target, crashes>>

\* What runs from version v: nothing for the current one, refusal for a newer one.
Plan(v) ==
    /\ target' = IF v < SCHEMA_VERSION THEN v + 1 ELSE target
    /\ pc' = IF v > SCHEMA_VERSION THEN "refused"
             ELSE IF v < SCHEMA_VERSION THEN "migrate" ELSE "commit"

\* SELECT schema_version; a fresh database first records the baseline, which is the
\* INSERT that begins a transaction.
ReadVersion ==
    /\ pc = "read"
    /\ IF view.version = 0
       THEN /\ view' = [view EXCEPT !.version = BASELINE_VERSION]
            /\ inTxn' = TRUE
            /\ Plan(BASELINE_VERSION)
       ELSE Plan(view.version) /\ UNCHANGED <<view, inTxn>>
    /\ UNCHANGED <<disk, i, crashes>>

\* Mutant: the range of versions stops one short.
Advance_OneShort(s) ==
    IF s # "version" THEN i' = i + 1 /\ UNCHANGED <<target, pc>>
    ELSE /\ i' = 1
         /\ IF target >= SCHEMA_VERSION - 1 THEN pc' = "commit" /\ UNCHANGED target
            ELSE target' = target + 1 /\ UNCHANGED pc

\* The two loops of _migrate.
Advance(s) ==
    IF s # "version" THEN i' = i + 1 /\ UNCHANGED <<target, pc>>
    ELSE /\ i' = 1
         /\ IF target = SCHEMA_VERSION THEN pc' = "commit" /\ UNCHANGED target
            ELSE target' = target + 1 /\ UNCHANGED pc

\* Mutant: the connection autocommits everything.
Execute_Autocommit(s) ==
    /\ ~Raises(s)
    /\ view' = Apply(view, s) /\ disk' = view'
    /\ UNCHANGED inTxn

\* A CREATE or ALTER outside a transaction is committed at once; an INSERT or UPDATE
\* begins one.
Execute(s) ==
    /\ ~Raises(s)
    /\ view' = Apply(view, s)
    /\ disk' = IF ~inTxn /\ s \notin DML THEN view' ELSE disk
    /\ inTxn' = (inTxn \/ s \in DML)

Migrate ==
    /\ pc = "migrate"
    /\ LET s == Statements(target)[i] IN Execute(s) /\ Advance(s)
    /\ UNCHANGED crashes

\* "duplicate column name": the block is left by the exception, which rolls back.
MigrateFails ==
    /\ pc = "migrate" /\ Raises(Statements(target)[i])
    /\ view' = disk /\ inTxn' = FALSE
    /\ pc' = "failed"
    /\ UNCHANGED <<disk, target, i, crashes>>

\* The end of "with self._conn".
Commit ==
    /\ pc = "commit"
    /\ disk' = view /\ inTxn' = FALSE
    /\ pc' = "open"
    /\ UNCHANGED <<view, target, i, crashes>>

\* The process dies, or the service is stopped, and is started again.
Crash ==
    /\ pc # "closed" /\ crashes < MaxCrash
    /\ crashes' = crashes + 1
    /\ view' = disk /\ inTxn' = FALSE
    /\ pc' = "closed" /\ target' = 2 /\ i' = 1
    /\ UNCHANGED disk

Open == Connect \/ Script \/ ReadVersion \/ Migrate \/ MigrateFails \/ Commit
Next == Open \/ Crash

\* A process that is running goes on to the end of __init__.
Spec == Init /\ [][Next]_vars /\ WF_vars(Open)

-----------------------------------------------------------------------------
(* Properties *)

\* SERVICE.md: a fresh database and a migrated legacy one converge on identical
\* structure.
Converges ==
    pc = "open" => /\ disk.version = SCHEMA_VERSION /\ disk.parts = Shape(SCHEMA_VERSION)
                   /\ disk.headSeq = disk.audit /\ disk.headHash = disk.audit

\* _migrate: an interrupted upgrade leaves the database at a known, still-openable
\* version.
StillOpenable == pc # "failed"

\* SqliteStore.__init__: every database is opened in the end, but for one written by
\* newer code, which is refused, and one that was found at version 1 and whose step from
\* there was cut short after its ALTER, which fails at every start.
EventuallyOpen ==
    \/ <>[](pc = "open" \/ (pc = "refused" /\ disk.version > SCHEMA_VERSION))
    \/ /\ disk.version = BASELINE_VERSION
       /\ <>[](pc = "failed" /\ "label" \in disk.parts)
=============================================================================
